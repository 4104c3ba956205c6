---------------------------- MODULE AtomicWrite ----------------------------
(***************************************************************************)
(* write_atomic: how one file of a directory is replaced.  The new content *)
(* goes to <name>.tmp-<pid>, is synced, and is renamed over the target;    *)
(* the directory is synced at best.  A process is its pid: two that run    *)
(* have different ones, but a later one may get the pid of a dead one and  *)
(* then finds the temp file that one left.                                 *)
(***************************************************************************)
CONSTANTS
  Name,     \* files of the directory
  Proc,     \* process ids
  Bytes,    \* contents
  Mode,     \* permission bits of a file
  Umask,    \* those of a file created without an explicit mode
  Torn,     \* what a file holds whose writing was not finished or not synced
  None

ASSUME UmaskAssumption == Umask \in Mode

VARIABLES
  disk,  \* disk[n]: the file n
  temp,  \* temp[n][p]: the file <n>.tmp-<p>
  left,  \* left[n]: the files that a power cut may leave under n
  job    \* job[p]: the replacement p is carrying out

store == <<disk, temp, left, job>>

File == [data : Bytes \cup {Torn}, mode : Mode, synced : BOOLEAN]
Done == [at |-> "done", name |-> None, bytes |-> None, mode |-> None]
Job == {Done} \cup
  [at : {"open", "write", "sync", "rename"}, name : Name, bytes : Bytes, mode : Mode \cup {None}] \cup
  [at : {"dir"}, name : Name, bytes : {None}, mode : {None}]

ASSUME TornAssumption == Torn \notin Bytes
ASSUME NoneAssumption == None \notin Bytes \cup Name \cup File \cup [name : Name, bytes : Bytes]

\* Directories in which every file is whole and on the platter.
Directory == [Name -> [data : Bytes, mode : Mode, synced : {TRUE}] \cup {None}]

Start(d) ==
  /\ disk = d
  /\ left = [n \in Name |-> {disk[n]}]
  /\ temp = [n \in Name |-> [p \in Proc |-> None]]
  /\ job = [p \in Proc |-> Done]

\* A call of write_atomic(n, b), or of write_atomic_mode(n, b, m).
Call(p, n, b, m) ==
  /\ job[p] = Done
  /\ job' = [job EXCEPT ![p] = [at |-> "open", name |-> n, bytes |-> b, mode |-> m]]
  /\ UNCHANGED <<disk, temp, left>>

Advance(p, at) == job' = [job EXCEPT ![p].at = at]

\* A slip: the default of the umask is forgotten.
OpenTempAsAsked(p) ==
  LET j == job[p]
  IN  /\ j.at = "open"
      /\ temp' = [temp EXCEPT ![j.name][p] = [data |-> Torn, mode |-> j.mode, synced |-> FALSE]]
      /\ Advance(p, "write")
      /\ UNCHANGED <<disk, left>>

\* open with create and truncate: the mode counts only for a file that is not
\* there yet.
OpenTemp(p) ==
  LET j == job[p]
      old == temp[j.name][p]
      mode == IF old # None THEN old.mode ELSE IF j.mode # None THEN j.mode ELSE Umask
  IN  /\ j.at = "open"
      /\ temp' = [temp EXCEPT ![j.name][p] = [data |-> Torn, mode |-> mode, synced |-> FALSE]]
      /\ Advance(p, "write")
      /\ UNCHANGED <<disk, left>>

WriteTemp(p) ==
  LET j == job[p]
  IN  /\ j.at = "write"
      /\ temp' = [temp EXCEPT ![j.name][p].data = j.bytes]
      /\ Advance(p, "sync")
      /\ UNCHANGED <<disk, left>>

\* A slip: the rename does not wait for the disk.
SkipSync(p) == job[p].at = "sync" /\ Advance(p, "rename") /\ UNCHANGED <<disk, temp, left>>

SyncTemp(p) ==
  LET j == job[p]
  IN  /\ j.at = "sync"
      /\ temp' = [temp EXCEPT ![j.name][p].synced = TRUE]
      /\ Advance(p, "rename")
      /\ UNCHANGED <<disk, left>>

\* What is left of a file that was cut off from power.
AfterCut(f) == IF f = None \/ f.synced THEN f ELSE [f EXCEPT !.data = Torn, !.synced = TRUE]

Rename(p) ==
  LET j == job[p]
      new == temp[j.name][p]
  IN  /\ j.at = "rename"
      /\ disk' = [disk EXCEPT ![j.name] = new]
      /\ left' = [left EXCEPT ![j.name] = @ \cup {AfterCut(new)}]
      /\ temp' = [temp EXCEPT ![j.name][p] = None]
      /\ job' = [job EXCEPT ![p] = [at |-> "dir", name |-> j.name, bytes |-> None, mode |-> None]]

SyncDir(p) ==
  /\ job[p].at = "dir"
  /\ left' = [n \in Name |-> {AfterCut(disk[n])}]
  /\ job' = [job EXCEPT ![p] = Done]
  /\ UNCHANGED <<disk, temp>>

\* The sync of the directory may fail, which is ignored.
SyncDirFails(p) ==
  /\ job[p].at = "dir"
  /\ job' = [job EXCEPT ![p] = Done]
  /\ UNCHANGED <<disk, temp, left>>

\* Any of the steps before the directory sync fails: the temp file is removed.
Fail(p) ==
  LET j == job[p]
  IN  /\ j.at \in {"open", "write", "sync", "rename"}
      /\ temp' = [temp EXCEPT ![j.name][p] = None]
      /\ job' = [job EXCEPT ![p] = Done]
      /\ UNCHANGED <<disk, left>>

Write(p) == OpenTemp(p) \/ WriteTemp(p) \/ SyncTemp(p) \/ Rename(p) \/ SyncDir(p)

\* The process dies; its temp file stays.
Die(p) == job' = [job EXCEPT ![p] = Done] /\ UNCHANGED <<disk, temp, left>>

\* The machine loses power.
LosePower ==
  /\ \E survivor \in [Name -> UNION {left[n] : n \in Name}], gone \in SUBSET Proc :
       /\ \A n \in Name : survivor[n] \in left[n]
       /\ disk' = survivor
       /\ temp' = [n \in Name |-> [p \in Proc |->
                     IF p \in gone THEN None ELSE AfterCut(temp[n][p])]]
       /\ left' = [n \in Name |-> {survivor[n]}]
  /\ job' = [p \in Proc |-> Done]

\* Somebody changes the mode of a file.
ChmodFile(n, m) ==
  /\ disk[n] # None
  /\ disk' = [disk EXCEPT ![n].mode = m]
  /\ left' = [left EXCEPT ![n] = {IF f = disk[n] THEN [f EXCEPT !.mode = m] ELSE f : f \in @}]
  /\ UNCHANGED <<temp, job>>

Change ==
  \/ \E p \in Proc :
       \/ \E n \in Name, b \in Bytes, m \in Mode \cup {None} : Call(p, n, b, m)
       \/ Write(p) \/ SyncDirFails(p) \/ Fail(p) \/ Die(p)
  \/ LosePower
  \/ \E n \in Name, m \in Mode : ChmodFile(n, m)
-----------------------------------------------------------------------------
(***************************************************************************)
(* Properties.                                                             *)
(***************************************************************************)

StoreTypeOK ==
  /\ disk \in [Name -> File \cup {None}]
  /\ temp \in [Name -> [Proc -> File \cup {None}]]
  /\ left \in [Name -> SUBSET (File \cup {None})]
  /\ job \in [Proc -> Job]

Data(f) == IF f = None THEN None ELSE f.data

\* The abstract file system under the refinement mapping: a replacement takes
\* effect at the rename.
Atomic == INSTANCE AtomicFile WITH
  value <- [n \in Name |-> Data(disk[n])],
  kept  <- [n \in Name |-> {Data(f) : f \in left[n]}],
  asked <- [p \in Proc |-> IF job[p].bytes = None THEN None
                           ELSE [name |-> job[p].name, bytes |-> job[p].bytes]]

\* Whatever dies, fails, loses power or reuses the pid of a dead process: every
\* file holds what some call asked for, whole, or what it held before.
AtomicReplace == Atomic!Spec
=============================================================================
