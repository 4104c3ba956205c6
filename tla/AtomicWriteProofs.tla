------------------------- MODULE AtomicWriteProofs -------------------------
(***************************************************************************)
(* Lemmas about write_atomic for any directory, any contents and any       *)
(* number of processes: StoreInv is kept by every step, and every step is  *)
(* one of AtomicFile.                                                      *)
(***************************************************************************)
EXTENDS AtomicWrite, TLAPS

\* No torn file has a proper name, now or after a power cut ...
WholeFile == [data : Bytes, mode : Mode, synced : {TRUE}]
Whole ==
  /\ disk \in [Name -> WholeFile \cup {None}]
  /\ left \in [Name -> SUBSET (WholeFile \cup {None})]

\* ... because a temp file has what it needs before it is renamed.
Ready(p) ==
  LET j == job[p]
      f == temp[j.name][p]
  IN  /\ j.at \in {"write", "sync", "rename"} => f # None
      /\ j.at \in {"sync", "rename"} => f.data = j.bytes
      /\ j.at = "rename" => f.synced

StoreInv == StoreTypeOK /\ Whole /\ \A p \in Proc : Ready(p)

\* A whole file is a file, and None is neither.
LEMMA WholeFiles == WholeFile \subseteq File /\ None \notin WholeFile
BY NoneAssumption DEF WholeFile, File

\* A replacement in progress has a file and a content.
LEMMA JobFields ==
  ASSUME NEW j \in Job
  PROVE  /\ j.at \in {"open", "write", "sync", "rename"} =>
              j.name \in Name /\ j.bytes \in Bytes /\ j.mode \in Mode \cup {None} /\ j.bytes # None
         /\ j.at = "dir" => j.name \in Name
         /\ j.at \in {"dir", "done"} => j.bytes = None
         /\ j.at \in {"open", "write", "sync", "rename", "dir", "done"}
         /\ j.at = "done" => j = Done
BY NoneAssumption DEF Job, Done

\* A replacement stays one while it advances.
LEMMA AdvancedJob ==
  ASSUME NEW j \in Job, j.at \in {"open", "write", "sync", "rename"},
         NEW at \in {"write", "sync", "rename"}
  PROVE  /\ [j EXCEPT !.at = at] \in Job
         /\ [j EXCEPT !.at = at].at = at
         /\ [j EXCEPT !.at = at].name = j.name
         /\ [j EXCEPT !.at = at].bytes = j.bytes
         /\ [j EXCEPT !.at = at].mode = j.mode
<1>1. j \in [at : {"open", "write", "sync", "rename"}, name : Name, bytes : Bytes, mode : Mode \cup {None}]
  BY DEF Job, Done
<1> QED
  BY <1>1 DEF Job

\* The start of any directory.
LEMMA StoreStart ==
  ASSUME NEW d \in Directory, Start(d)
  PROVE  StoreInv
<1>1. disk \in [Name -> WholeFile \cup {None}]
  BY DEF Start, Directory, WholeFile
<1>2. \A p \in Proc : job[p] = Done
  BY DEF Start
<1>3. StoreTypeOK
  BY <1>1, <1>2, WholeFiles DEF Start, StoreTypeOK, Job
<1>4. Whole
  BY <1>1 DEF Start, Whole
<1>5. \A p \in Proc : Ready(p)
  BY <1>2 DEF Ready, Done
<1> QED
  BY <1>3, <1>4, <1>5 DEF StoreInv
-----------------------------------------------------------------------------
(* Every step keeps the invariant *)

\* A process other than the one that moves keeps its temp file and its job.
LEMMA OthersReady ==
  ASSUME StoreInv, NEW p \in Proc, NEW q \in Proc, q # p,
         NEW n \in Name, NEW f,
         job'[q] = job[q],
         temp' = temp \/ temp' = [temp EXCEPT ![n][p] = f]
  PROVE  Ready(q)'
<1>1. job[q] \in Job /\ Ready(q)
  BY DEF StoreInv, StoreTypeOK
<1>2. job[q].at \in {"write", "sync", "rename"} => temp'[job[q].name][q] = temp[job[q].name][q]
  BY <1>1, JobFields DEF StoreInv, StoreTypeOK
<1> QED
  BY <1>1, <1>2 DEF Ready

\* The call, and the steps on the temp file.
LEMMA StoreTemp ==
  ASSUME StoreInv, NEW p \in Proc,
         \/ \E n \in Name, b \in Bytes, m \in Mode \cup {None} : Call(p, n, b, m)
         \/ OpenTemp(p) \/ WriteTemp(p) \/ SyncTemp(p)
  PROVE  StoreInv'
<1> USE DEF Advance
<1>1. job[p] \in Job /\ job \in [Proc -> Job] /\ temp \in [Name -> [Proc -> File \cup {None}]]
  BY DEF StoreInv, StoreTypeOK
<1>2. disk' = disk /\ left' = left
  BY DEF Call, OpenTemp, WriteTemp, SyncTemp
<1>3. Whole' /\ disk' \in [Name -> File \cup {None}] /\ left' \in [Name -> SUBSET (File \cup {None})]
  BY <1>2 DEF StoreInv, StoreTypeOK, Whole
<1>4. \A q \in Proc : q # p => job'[q] = job[q]
  BY <1>1 DEF Call, OpenTemp, WriteTemp, SyncTemp
<1>5. CASE \E n \in Name, b \in Bytes, m \in Mode \cup {None} : Call(p, n, b, m)
  <2>1. PICK n \in Name, b \in Bytes, m \in Mode \cup {None} : Call(p, n, b, m)
    BY <1>5
  <2>2. [at |-> "open", name |-> n, bytes |-> b, mode |-> m] \in Job
    BY DEF Job
  <2>3. job' \in [Proc -> Job] /\ job'[p].at = "open" /\ temp' = temp
    BY <1>1, <2>1, <2>2 DEF Call
  <2>4. \A q \in Proc : Ready(q)'
    BY <1>4, <2>3, OthersReady DEF Ready
  <2> QED
    BY <1>1, <1>3, <2>3, <2>4 DEF StoreInv, StoreTypeOK
<1>6. CASE OpenTemp(p) \/ WriteTemp(p) \/ SyncTemp(p)
  <2> DEFINE n == job[p].name
  <2>1. job[p].at \in {"open", "write", "sync"} /\ n \in Name /\ job[p].bytes \in Bytes
        /\ job[p].mode \in Mode \cup {None}
    BY <1>1, <1>6, JobFields DEF OpenTemp, WriteTemp, SyncTemp
  <2>2. job' \in [Proc -> Job] /\ job'[p].name = n /\ job'[p].bytes = job[p].bytes
    <3>1. PICK at \in {"write", "sync", "rename"} : job' = [job EXCEPT ![p].at = at]
      BY <1>6 DEF OpenTemp, WriteTemp, SyncTemp
    <3>2. [job[p] EXCEPT !.at = at] \in Job /\ job'[p] = [job[p] EXCEPT !.at = at]
      BY <1>1, <2>1, <3>1, AdvancedJob
    <3> QED
      BY <1>1, <2>1, <3>1, <3>2, AdvancedJob
  <2>3. job[p].at \in {"write", "sync"} => temp[n][p] \in File /\ temp[n][p] # None
    BY <1>1, <2>1 DEF StoreInv, Ready
  <2>4. \E f \in File : /\ temp' = [temp EXCEPT ![n][p] = f]
                        /\ job'[p].at \in {"sync", "rename"} => f.data = job[p].bytes
                        /\ job'[p].at = "rename" => f.synced
                        /\ job'[p].at \in {"write", "sync", "rename"}
    <3>1. CASE OpenTemp(p)
      <4> DEFINE mode == IF temp[n][p] # None THEN temp[n][p].mode
                         ELSE IF job[p].mode # None THEN job[p].mode ELSE Umask
                 f == [data |-> Torn, mode |-> mode, synced |-> FALSE]
      <4>1. mode \in Mode
        BY <1>1, <2>1, UmaskAssumption DEF File
      <4>2. f \in File
        BY <4>1 DEF File
      <4>3. temp' = [temp EXCEPT ![n][p] = f]
        BY <3>1 DEF OpenTemp
      <4>4. job'[p].at = "write"
        BY <1>1, <2>1, <3>1, AdvancedJob DEF OpenTemp
      <4> QED
        BY <4>2, <4>3, <4>4
    <3>2. CASE WriteTemp(p)
      <4> DEFINE f == [temp[n][p] EXCEPT !.data = job[p].bytes]
      <4>1. f \in File /\ f.data = job[p].bytes
        BY <2>1, <2>3, <3>2 DEF WriteTemp, File
      <4>2. temp' = [temp EXCEPT ![n][p] = f]
        BY <1>1, <2>1, <3>2 DEF WriteTemp
      <4>3. job'[p].at = "sync"
        BY <1>1, <2>1, <3>2, AdvancedJob DEF WriteTemp
      <4> HIDE DEF f
      <4> QED
        BY <4>1, <4>2, <4>3
    <3>3. CASE SyncTemp(p)
      <4> DEFINE f == [temp[n][p] EXCEPT !.synced = TRUE]
      <4>1. f \in File /\ f.synced /\ f.data = temp[n][p].data
        BY <2>1, <2>3, <3>3 DEF SyncTemp, File
      <4>2. temp' = [temp EXCEPT ![n][p] = f]
        BY <1>1, <2>1, <3>3 DEF SyncTemp
      <4>3. temp[n][p].data = job[p].bytes
        BY <3>3 DEF SyncTemp, StoreInv, Ready
      <4>4. job'[p].at = "rename"
        BY <1>1, <2>1, <3>3, AdvancedJob DEF SyncTemp
      <4> HIDE DEF f
      <4> QED
        BY <4>1, <4>2, <4>3, <4>4
    <3> QED
      BY <1>6, <3>1, <3>2, <3>3
  <2>4a. PICK f \in File : /\ temp' = [temp EXCEPT ![n][p] = f]
                           /\ job'[p].at \in {"sync", "rename"} => f.data = job[p].bytes
                           /\ job'[p].at = "rename" => f.synced
                           /\ job'[p].at \in {"write", "sync", "rename"}
    BY <2>4
  <2>5. temp' \in [Name -> [Proc -> File \cup {None}]] /\ temp'[n][p] = f
    BY <1>1, <2>1, <2>4a
  <2>6. Ready(p)'
    BY <2>2, <2>4a, <2>5, NoneAssumption DEF Ready
  <2>7. \A q \in Proc : Ready(q)'
    BY <1>4, <2>1, <2>4a, <2>6, OthersReady
  <2> QED
    BY <1>3, <2>2, <2>5, <2>7 DEF StoreInv, StoreTypeOK
<1> QED
  BY <1>5, <1>6

\* The rename: what takes the name is a whole, synced file.
LEMMA StoreRename ==
  ASSUME StoreInv, NEW p \in Proc, Rename(p)
  PROVE  StoreInv' /\ job[p].name \in Name /\ job[p].bytes \in Bytes
         /\ disk' = [disk EXCEPT ![job[p].name] = temp[job[p].name][p]]
         /\ temp[job[p].name][p] \in WholeFile
         /\ temp[job[p].name][p].data = job[p].bytes
<1> DEFINE n == job[p].name
           new == temp[n][p]
           last == [at |-> "dir", name |-> n, bytes |-> None, mode |-> None]
<1>1. job[p] \in Job /\ job \in [Proc -> Job] /\ temp \in [Name -> [Proc -> File \cup {None}]]
  BY DEF StoreInv, StoreTypeOK
<1>2. n \in Name /\ job[p].bytes \in Bytes /\ job[p].at = "rename"
  BY <1>1, JobFields DEF Rename
<1>3. new \in File /\ new # None /\ new.data = job[p].bytes /\ new.synced
  BY <1>1, <1>2 DEF StoreInv, Ready
<1>4. new \in WholeFile /\ AfterCut(new) = new
  BY <1>2, <1>3 DEF WholeFile, File, AfterCut
<1>5. Whole'
  BY <1>2, <1>4 DEF Rename, StoreInv, Whole
<1>6. last \in Job /\ last.at = "dir"
  BY <1>2 DEF Job
<1>7. job' \in [Proc -> Job] /\ job'[p].at = "dir" /\ \A q \in Proc : q # p => job'[q] = job[q]
  BY <1>1, <1>6 DEF Rename
<1>8. temp' = [temp EXCEPT ![n][p] = None]
  BY DEF Rename
<1>9. temp' \in [Name -> [Proc -> File \cup {None}]]
  BY <1>1, <1>2, <1>8
<1>10. Ready(p)'
  BY <1>7 DEF Ready
<1>11. \A q \in Proc : Ready(q)'
  BY <1>2, <1>7, <1>8, <1>10, OthersReady
<1>12. StoreTypeOK'
  BY <1>5, <1>7, <1>9, WholeFiles DEF StoreTypeOK, Whole
<1> QED
  BY <1>2, <1>3, <1>4, <1>5, <1>11, <1>12 DEF StoreInv, Rename

\* The sync of the directory, the two ways to fail, and death.
LEMMA StoreEnd ==
  ASSUME StoreInv, NEW p \in Proc, SyncDir(p) \/ SyncDirFails(p) \/ Fail(p) \/ Die(p)
  PROVE  StoreInv'
<1>1. job[p] \in Job /\ job \in [Proc -> Job] /\ temp \in [Name -> [Proc -> File \cup {None}]]
  BY DEF StoreInv, StoreTypeOK
<1>2. disk' = disk /\ job' = [job EXCEPT ![p] = Done]
  BY DEF SyncDir, SyncDirFails, Fail, Die
<1>3. \A n \in Name : AfterCut(disk[n]) = disk[n]
  BY DEF AfterCut, StoreInv, Whole, WholeFile
<1>4. Whole'
  BY <1>2, <1>3 DEF SyncDir, SyncDirFails, Fail, Die, StoreInv, Whole
<1>5. job' \in [Proc -> Job] /\ job'[p] = Done /\ \A q \in Proc : q # p => job'[q] = job[q]
  BY <1>1, <1>2 DEF Job
<1>6. temp' = temp \/ (Fail(p) /\ job[p].name \in Name /\ temp' = [temp EXCEPT ![job[p].name][p] = None])
  BY <1>1, JobFields DEF SyncDir, SyncDirFails, Fail, Die
<1>7. temp' \in [Name -> [Proc -> File \cup {None}]]
  BY <1>1, <1>6
<1>8. ASSUME NEW q \in Proc PROVE Ready(q)'
  <2>1. CASE q = p
    BY <1>5, <2>1 DEF Ready, Done
  <2>2. CASE q # p
    <3>1. job[q] \in Job /\ Ready(q) /\ job'[q] = job[q]
      BY <1>1, <1>5, <2>2 DEF StoreInv
    <3>2. job[q].at \in {"write", "sync", "rename"} => temp'[job[q].name][q] = temp[job[q].name][q]
      BY <1>1, <1>6, <2>2, <3>1, JobFields
    <3> QED
      BY <3>1, <3>2 DEF Ready
  <2> QED
    BY <2>1, <2>2
<1>9. StoreTypeOK'
  BY <1>4, <1>5, <1>7, WholeFiles DEF StoreTypeOK, Whole
<1> QED
  BY <1>4, <1>8, <1>9 DEF StoreInv

\* A power cut finds only whole files to leave.
LEMMA StoreCut ==
  ASSUME StoreInv, LosePower
  PROVE  StoreInv'
<1>1. PICK survivor \in [Name -> UNION {left[n] : n \in Name}], gone \in SUBSET Proc :
         /\ \A n \in Name : survivor[n] \in left[n]
         /\ disk' = survivor
         /\ temp' = [n \in Name |-> [q \in Proc |->
                       IF q \in gone THEN None ELSE AfterCut(temp[n][q])]]
         /\ left' = [n \in Name |-> {survivor[n]}]
  BY DEF LosePower
<1>2. \A n \in Name : survivor[n] \in WholeFile \cup {None}
  BY <1>1 DEF StoreInv, Whole
<1>3. Whole'
  BY <1>1, <1>2 DEF Whole
<1>4. \A f \in File \cup {None} : AfterCut(f) \in File \cup {None}
  BY DEF AfterCut, File
<1>5. temp' \in [Name -> [Proc -> File \cup {None}]]
  BY <1>1, <1>4 DEF StoreInv, StoreTypeOK
<1>6. job' \in [Proc -> Job] /\ \A q \in Proc : job'[q] = Done
  BY DEF LosePower, Job
<1>7. \A q \in Proc : Ready(q)'
  BY <1>6 DEF Ready, Done
<1>8. StoreTypeOK'
  BY <1>3, <1>5, <1>6, WholeFiles DEF StoreTypeOK, Whole
<1> QED
  BY <1>3, <1>7, <1>8 DEF StoreInv

\* chmod leaves whole files whole.
LEMMA StoreChmod ==
  ASSUME StoreInv, NEW n \in Name, NEW m \in Mode, ChmodFile(n, m)
  PROVE  StoreInv'
<1>1. \A f \in WholeFile : [f EXCEPT !.mode = m] \in WholeFile
  BY DEF WholeFile
<1>2. disk' \in [Name -> WholeFile \cup {None}]
  BY <1>1 DEF StoreInv, Whole, ChmodFile
<1>3. disk[n] \in WholeFile
  BY DEF StoreInv, Whole, ChmodFile
<1>4. left' \in [Name -> SUBSET (WholeFile \cup {None})]
  BY <1>1, <1>3 DEF StoreInv, Whole, ChmodFile
<1>5. \A q \in Proc : Ready(q)'
  BY DEF StoreInv, Ready, ChmodFile
<1>6. StoreTypeOK'
  BY <1>2, <1>4, WholeFiles DEF StoreInv, StoreTypeOK, ChmodFile
<1> QED
  BY <1>2, <1>4, <1>5, <1>6 DEF StoreInv, Whole

\* Every step of the file system keeps the invariant.
LEMMA StoreStep ==
  ASSUME StoreInv, Change \/ UNCHANGED store
  PROVE  StoreInv'
<1>1. CASE UNCHANGED store
  BY <1>1 DEF StoreInv, StoreTypeOK, Whole, Ready, store
<1>2. ASSUME NEW p \in Proc,
             \/ \E n \in Name, b \in Bytes, m \in Mode \cup {None} : Call(p, n, b, m)
             \/ Write(p) \/ SyncDirFails(p) \/ Fail(p) \/ Die(p)
      PROVE  StoreInv'
  BY <1>2, StoreTemp, StoreRename, StoreEnd DEF Write
<1>3. CASE LosePower
  BY <1>3, StoreCut
<1>4. CASE \E n \in Name, m \in Mode : ChmodFile(n, m)
  BY <1>4, StoreChmod
<1> QED
  BY <1>1, <1>2, <1>3, <1>4 DEF Change
-----------------------------------------------------------------------------
(* Every step is one of the abstract file system *)

Value == [n \in Name |-> Data(disk[n])]
Kept == [n \in Name |-> {Data(f) : f \in left[n]}]
Asked == [p \in Proc |-> IF job[p].bytes = None THEN None
                         ELSE [name |-> job[p].name, bytes |-> job[p].bytes]]

\* What a file holds is a content.
LEMMA DataOf ==
  /\ \A f \in WholeFile \cup {None} : Data(f) \in Bytes \cup {None}
  /\ \A f \in WholeFile : Data(f) = f.data
  /\ Data(None) = None
BY NoneAssumption, WholeFiles DEF Data, WholeFile

\* The start of any directory is one of the abstract file system.
LEMMA AtomicStart ==
  ASSUME NEW d \in Directory, Start(d)
  PROVE  Atomic!Init
<1>1. \A n \in Name : disk[n] \in WholeFile \cup {None}
  BY StoreStart DEF StoreInv, Whole
<1>2. Value \in [Name -> Bytes \cup {None}]
  BY <1>1, DataOf DEF Value
<1>3. Kept = [n \in Name |-> {Value[n]}]
  BY DEF Start, Kept, Value
<1>4. Asked = [p \in Proc |-> None]
  BY DEF Start, Asked, Done
<1> QED
  BY <1>2, <1>3, <1>4 DEF Atomic!Init, Atomic!Nobody, Value, Kept, Asked

\* A request is made by the call ...
LEMMA AtomicCall ==
  ASSUME StoreInv, NEW p \in Proc, NEW n \in Name, NEW b \in Bytes, NEW m \in Mode \cup {None},
         Call(p, n, b, m)
  PROVE  Atomic!Ask(p)
<1>1. job \in [Proc -> Job] /\ job[p] = Done
  BY DEF Call, StoreInv, StoreTypeOK
<1>2. Asked[p] = None /\ Value' = Value /\ Kept' = Kept
  BY <1>1 DEF Asked, Value, Kept, Call, Done
<1>3. b # None
  BY NoneAssumption
<1>4. Asked'[p] = [name |-> n, bytes |-> b]
  BY <1>1, <1>3 DEF Asked, Call
<1>5. Asked' = [Asked EXCEPT ![p] = Asked'[p]]
  BY <1>1, <1>4 DEF Asked, Call
<1>6. Asked'[p] \in [name : Name, bytes : Bytes]
  BY <1>4
<1> QED
  BY <1>2, <1>5, <1>6 DEF Atomic!Ask, Value, Kept, Asked

\* ... takes effect at the rename ...
LEMMA AtomicRename ==
  ASSUME StoreInv, NEW p \in Proc, Rename(p)
  PROVE  Atomic!Replace(p)
<1> DEFINE n == job[p].name
           b == job[p].bytes
           new == temp[n][p]
<1>1. job \in [Proc -> Job] /\ n \in Name /\ b \in Bytes /\ new \in WholeFile /\ Data(new) = b
  BY StoreRename, DataOf DEF StoreInv, StoreTypeOK
<1>2. b # None /\ AfterCut(new) = new
  BY <1>1, NoneAssumption DEF AfterCut, WholeFile
<1>3. Asked[p] = [name |-> n, bytes |-> b]
  BY <1>1, <1>2 DEF Asked
<1>4. Asked[p] # None
  BY <1>1, <1>3, NoneAssumption
<1>5. Value' = [Value EXCEPT ![n] = b]
  BY <1>1 DEF Value, Rename, StoreInv, Whole
<1>6. Kept' = [Kept EXCEPT ![n] = @ \cup {b}]
  <2>1. left' = [left EXCEPT ![n] = @ \cup {new}]
    BY <1>2 DEF Rename
  <2>2. {Data(f) : f \in left[n] \cup {new}} = {Data(f) : f \in left[n]} \cup {b}
    BY <1>1
  <2> QED
    BY <1>1, <2>1, <2>2 DEF Kept, StoreInv, Whole
<1>7. Asked' = [Asked EXCEPT ![p] = None]
  BY <1>1 DEF Asked, Rename
<1> QED
  BY <1>3, <1>4, <1>5, <1>6, <1>7 DEF Atomic!Replace, Value, Kept, Asked

\* ... is settled by the directory sync, or is given up.
LEMMA AtomicEnd ==
  ASSUME StoreInv, NEW p \in Proc, SyncDir(p) \/ SyncDirFails(p) \/ Fail(p) \/ Die(p)
  PROVE  Atomic!Settle \/ Atomic!GiveUp(p)
<1>1. job \in [Proc -> Job] /\ disk' = disk /\ Value' = Value
  BY DEF StoreInv, StoreTypeOK, SyncDir, SyncDirFails, Fail, Die, Value
<1>2. Asked' = [Asked EXCEPT ![p] = None]
  <2>1. job' = [job EXCEPT ![p] = Done]
    BY DEF SyncDir, SyncDirFails, Fail, Die
  <2> QED
    BY <1>1, <2>1 DEF Asked, Done
<1>3. CASE SyncDir(p)
  <2>1. \A n \in Name : AfterCut(disk[n]) = disk[n]
    BY DEF AfterCut, StoreInv, Whole, WholeFile
  <2>2. Kept' = [n \in Name |-> {Value[n]}]
    BY <1>3, <2>1 DEF SyncDir, Kept, Value
  <2>3. job[p].bytes = None
    BY <1>1, <1>3, JobFields DEF SyncDir
  <2>4. Asked' = Asked
    BY <1>2, <2>3 DEF Asked
  <2> QED
    BY <1>1, <2>2, <2>4 DEF Atomic!Settle, Value, Kept, Asked
<1>4. CASE SyncDirFails(p) \/ Fail(p) \/ Die(p)
  <2>1. Kept' = Kept
    BY <1>4 DEF SyncDirFails, Fail, Die, Kept
  <2> QED
    BY <1>1, <1>2, <2>1 DEF Atomic!GiveUp, Value, Kept, Asked
<1> QED
  BY <1>3, <1>4

\* The steps on temp files and modes change nothing that the abstract file
\* system sees.
LEMMA AtomicHidden ==
  ASSUME StoreInv,
         \/ \E p \in Proc : OpenTemp(p) \/ WriteTemp(p) \/ SyncTemp(p)
         \/ \E n \in Name, m \in Mode : ChmodFile(n, m)
         \/ UNCHANGED store
  PROVE  UNCHANGED <<Value, Kept, Asked>>
<1>1. job \in [Proc -> Job]
  BY DEF StoreInv, StoreTypeOK
<1>2. ASSUME NEW p \in Proc, OpenTemp(p) \/ WriteTemp(p) \/ SyncTemp(p)
      PROVE  UNCHANGED <<Value, Kept, Asked>>
  <2>1. disk' = disk /\ left' = left
    BY <1>2 DEF OpenTemp, WriteTemp, SyncTemp
  <2>2. PICK at \in {"write", "sync", "rename"} : job' = [job EXCEPT ![p].at = at]
    BY <1>2 DEF OpenTemp, WriteTemp, SyncTemp, Advance
  <2>3. job[p].at \in {"open", "write", "sync", "rename"}
    BY <1>2 DEF OpenTemp, WriteTemp, SyncTemp
  <2>4. \A q \in Proc : job'[q].name = job[q].name /\ job'[q].bytes = job[q].bytes
    BY <1>1, <2>2, <2>3, AdvancedJob
  <2> QED
    BY <2>1, <2>4 DEF Value, Kept, Asked
<1>3. ASSUME NEW n \in Name, NEW m \in Mode, ChmodFile(n, m)
      PROVE  UNCHANGED <<Value, Kept, Asked>>
  <2>1. \A f \in WholeFile : [f EXCEPT !.mode = m] \in WholeFile /\ [f EXCEPT !.mode = m].data = f.data
    BY DEF WholeFile
  <2>2. \A f \in WholeFile : Data([f EXCEPT !.mode = m]) = Data(f)
    BY <2>1, DataOf
  <2>3. disk \in [Name -> WholeFile \cup {None}] /\ disk[n] \in WholeFile
        /\ left \in [Name -> SUBSET (WholeFile \cup {None})]
    BY <1>3 DEF ChmodFile, StoreInv, Whole
  <2>4. Value' = Value
    BY <1>3, <2>2, <2>3 DEF ChmodFile, Value
  <2>5. {Data(f) : f \in {IF f = disk[n] THEN [f EXCEPT !.mode = m] ELSE f : f \in left[n]}}
          = {Data(f) : f \in left[n]}
    BY <2>2, <2>3
  <2>6. Kept' = Kept
    BY <1>3, <2>3, <2>5 DEF ChmodFile, Kept
  <2> QED
    BY <1>3, <2>4, <2>6 DEF ChmodFile, Asked
<1> QED
  BY <1>2, <1>3 DEF store, Value, Kept, Asked

\* A power cut leaves of each file what the abstract file system may.
LEMMA AtomicCut ==
  ASSUME StoreInv, LosePower
  PROVE  Atomic!PowerCut
<1>1. PICK survivor \in [Name -> UNION {left[n] : n \in Name}] :
         /\ \A n \in Name : survivor[n] \in left[n]
         /\ disk' = survivor
         /\ left' = [n \in Name |-> {survivor[n]}]
  BY DEF LosePower
<1>2. \A n \in Name : Value'[n] \in Kept[n]
  BY <1>1 DEF Value, Kept
<1>3. Value' = [n \in Name |-> Value'[n]] /\ Kept' = [n \in Name |-> {Value'[n]}]
  BY <1>1 DEF Value, Kept
<1>4. Asked' = [p \in Proc |-> None]
  BY DEF LosePower, Asked, Done
<1> QED
  BY <1>2, <1>3, <1>4 DEF Atomic!PowerCut, Atomic!Nobody, Value, Kept, Asked

\* Every step of write_atomic and of what befalls it.
LEMMA AtomicStep ==
  ASSUME StoreInv, Change \/ UNCHANGED store
  PROVE  Atomic!Next \/ UNCHANGED Atomic!vars
<1>1. ASSUME NEW p \in Proc,
             \/ \E n \in Name, b \in Bytes, m \in Mode \cup {None} : Call(p, n, b, m)
             \/ Rename(p) \/ SyncDir(p) \/ SyncDirFails(p) \/ Fail(p) \/ Die(p)
      PROVE  Atomic!Next
  BY <1>1, AtomicCall, AtomicRename, AtomicEnd DEF Atomic!Next
<1>2. CASE LosePower
  BY <1>2, AtomicCut DEF Atomic!Next
<1>3. CASE \/ \E p \in Proc : OpenTemp(p) \/ WriteTemp(p) \/ SyncTemp(p)
           \/ \E n \in Name, m \in Mode : ChmodFile(n, m)
           \/ UNCHANGED store
  BY <1>3, AtomicHidden DEF Atomic!vars, Value, Kept, Asked
<1> QED
  BY <1>1, <1>2, <1>3 DEF Change, Write
=============================================================================
