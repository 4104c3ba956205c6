--------------------------- MODULE KeyStoreProofs ---------------------------
(***************************************************************************)
(* What holds of the key store for any keys, modes, command lines and any  *)
(* number of processes, failures, deaths and power cuts.                   *)
(***************************************************************************)
EXTENDS KeyStore, AtomicWriteProofs

\* A process that is not idle carries out a command line, and writes only after
\* it has read what it needs.
Running(p) ==
  /\ proc[p].pc # "idle" => proc[p].run \in Command
  /\ proc[p].pc \in {"idle", "read", "more"} => job[p] = Done

StoreIInv == StoreInv /\ TypeOK /\ \A p \in Proc : Running(p)

\* The fields of command lines.
LEMMA CommandFields ==
  /\ \A run \in Command :
       /\ run.verb \in {"import", "forget", "anchor", "trust-permissions"}
       /\ run.verb = "import" => run.keys \in SUBSET Key
       /\ run.verb \in {"forget", "anchor"} => run.key \in Key
  /\ CommandLines \subseteq Command /\ None \notin Command
BY CommandLinesAssumption DEF Command

\* A file of the store holds lines.
LEMMA LinesAreBytes ==
  ASSUME Whole, NEW n \in Name
  PROVE  Lines(n) \in Bytes
<1>1. 0 \in 0 .. MaxLines
  BY BytesAreLines
<1>2. Empty \in Bytes
  BY <1>1, BytesAreLines DEF Empty
<1> QED
  BY <1>2 DEF Whole, WholeFile, Lines

\* The contents the commands write.
LEMMA Contents ==
  /\ \A b \in Bytes, ks \in SUBSET Key : Imported(b, ks) \in Bytes
  /\ \A b \in Bytes, k \in Key : Without(b, k) \in Bytes
  /\ \A b \in Bytes, k \in Key : b[k] # MaxLines => [b EXCEPT ![k] = @ + 1] \in Bytes
  /\ [l \in Line |-> IF l \in Findings THEN 1 ELSE 0] \in Bytes
<1>1. 0 \in 0 .. MaxLines /\ 1 \in 0 .. MaxLines /\ Key \subseteq Line
  BY BytesAreLines DEF Line
<1>2. \A i \in 0 .. MaxLines : i # MaxLines => i + 1 \in 0 .. MaxLines
  BY BytesAreLines
<1>3. \A b \in Bytes, k \in Key : b[k] # MaxLines => [b EXCEPT ![k] = @ + 1] \in Bytes
  BY <1>1, <1>2, BytesAreLines
<1> QED
  BY <1>1, <1>3, BytesAreLines DEF Imported, Without

\* The bytes of Idle.
LEMMA IdleProcess == Idle \in Process /\ Idle.pc = "idle" /\ Empty \in Bytes
<1>1. 0 \in 0 .. MaxLines
  BY BytesAreLines
<1>2. Empty \in Bytes
  BY <1>1, BytesAreLines DEF Empty
<1> QED
  BY <1>2 DEF Idle, Process
-----------------------------------------------------------------------------
(* Types, and what the commands do to the files *)

\* The start.
LEMMA StoreIInit ==
  ASSUME Init
  PROVE  StoreIInv /\ Atomic!Init
<1>1. PICK first \in FirstStores : Start(first.files) /\ outer = first.outer
  BY DEF Init
<1>2. first.files \in Directory /\ first.outer \in [{"dir", "signing"} -> Mode \cup {None}]
  BY FirstAssumption
<1>3. StoreInv /\ Atomic!Init
  BY <1>1, <1>2, StoreStart, AtomicStart
<1>4. TypeOK
  BY <1>1, <1>2, <1>3, IdleProcess, BoundsAssumption DEF Init, TypeOK, StoreInv
<1>5. \A p \in Proc : Running(p)
  BY <1>1, IdleProcess DEF Running, Init, Start
<1> QED
  BY <1>3, <1>4, <1>5 DEF StoreIInv

\* What a step of p's command does: it moves p on to l, and calls write_atomic
\* or leaves the files alone.
CallBy(p, l, n, b, m) ==
  /\ n \in Name /\ b \in Bytes /\ m \in Mode \cup {None}
  /\ Call(p, n, b, m) /\ l.pc \in {"next", "last"}
Rests(p, l) == UNCHANGED store /\ (l.pc \in {"idle", "read", "more"} => job[p] = Done)
Moves(p) ==
  /\ \E l \in Process :
       /\ Become(p, l) /\ (l.pc # "idle" => l.run \in Command)
       /\ (\E n \in Name, b \in Bytes, m \in Mode \cup {None} : CallBy(p, l, n, b, m)) \/ Rests(p, l)
  /\ outer' \in [{"dir", "signing"} -> Mode \cup {None}]
  /\ UNCHANGED <<faults, chmods>>

\* create_dir_all leaves every place with a mode or absent.
LEMMA MakeDirType ==
  ASSUME outer \in [{"dir", "signing"} -> Mode \cup {None}], MakeDir
  PROVE  outer' \in [{"dir", "signing"} -> Mode \cup {None}]
BY UmaskAssumption DEF MakeDir

\* The steps in which the command only reads, starts or ends.
LEMMA QuietStep ==
  ASSUME StoreIInv, NEW p \in Proc,
         StartCommand(p) \/ ForgetReadPrivate(p) \/ Finish(p)
  PROVE  Moves(p)
<1>1. proc[p] \in Process /\ Running(p) /\ Whole
      /\ outer \in [{"dir", "signing"} -> Mode \cup {None}]
  BY DEF StoreIInv, TypeOK, StoreInv
<1>2. CASE StartCommand(p)
  <2>1. PICK run \in CommandLines : Begin(p, run)
    BY <1>2 DEF StartCommand
  <2> DEFINE l == [Idle EXCEPT !.pc = "read", !.run = run]
  <2>2. l \in Process /\ l.pc = "read" /\ l.run \in Command
    BY IdleProcess, CommandFields DEF Idle, Process
  <2>3. Rests(p, l) /\ Become(p, l)
    BY <1>1, <2>1, <2>2 DEF Begin, Rests, Running
  <2> HIDE DEF l
  <2> QED
    BY <1>1, <2>1, <2>2, <2>3 DEF Moves, Begin
<1>3. CASE ForgetReadPrivate(p)
  <2> DEFINE b == Lines("identities")
             l == [proc[p] EXCEPT !.pc = "more", !.ids = b]
  <2>1. b \in Bytes
    BY <1>1, LinesAreBytes, NameAssumption
  <2>2. l \in Process /\ l.pc = "more" /\ l.run = proc[p].run
    BY <1>1, <2>1 DEF Process
  <2>3. job[p] = Done /\ proc[p].run \in Command
    BY <1>1, <1>3 DEF ForgetReadPrivate, Reading, Running
  <2>4. Become(p, Idle) \/ Become(p, l)
    BY <1>3 DEF ForgetReadPrivate, Exit
  <2>5. Rests(p, Idle) /\ Rests(p, l)
    BY <1>3, <2>3 DEF Rests, ForgetReadPrivate
  <2> HIDE DEF l
  <2> QED
    BY <1>1, <1>3, <2>2, <2>3, <2>4, <2>5, IdleProcess DEF Moves, ForgetReadPrivate
<1>4. CASE Finish(p)
  BY <1>1, <1>4, IdleProcess DEF Finish, Exit, Moves, Rests
<1> QED
  BY <1>2, <1>3, <1>4

\* trust-permissions.
LEMMA AcknowledgeStep ==
  ASSUME StoreIInv, NEW p \in Proc, Acknowledge(p)
  PROVE  Moves(p)
<1> DEFINE b == [l \in Line |-> IF l \in Findings THEN 1 ELSE 0]
           l == [proc[p] EXCEPT !.pc = "last"]
<1>1. proc[p] \in Process /\ Running(p)
      /\ outer \in [{"dir", "signing"} -> Mode \cup {None}]
  BY DEF StoreIInv, TypeOK
<1>2. job[p] = Done /\ proc[p].run \in Command
  BY <1>1 DEF Acknowledge, Reading, Running
<1>3. b \in Bytes /\ "ack" \in Name /\ Private \in Mode \cup {None}
  BY Contents, NameAssumption, PrivateAssumption
<1>4. l \in Process /\ l.pc = "last" /\ l.run \in Command
  BY <1>1, <1>2 DEF Process
<1>5. outer' = outer /\ UNCHANGED <<faults, chmods>>
  BY DEF Acknowledge
<1>6. CASE Exit(p) /\ UNCHANGED store
  BY <1>1, <1>2, <1>5, <1>6, IdleProcess DEF Exit, Moves, Rests
<1>7. CASE Call(p, "ack", b, Private) /\ Become(p, l)
  <2> HIDE DEF b, l
  <2>1. CallBy(p, l, "ack", b, Private)
    BY <1>3, <1>4, <1>7 DEF CallBy
  <2> QED
    BY <1>1, <1>3, <1>4, <1>5, <1>7, <2>1 DEF Moves
<1> QED
  BY <1>6, <1>7 DEF Acknowledge

\* import.
LEMMA ImportStep ==
  ASSUME StoreIInv, NEW p \in Proc, Import(p)
  PROVE  Moves(p)
<1> DEFINE b == Lines("identities")
           new == Imported(b, proc[p].run.keys)
           l == [proc[p] EXCEPT !.pc = "last", !.ids = b]
<1>1. proc[p] \in Process /\ Running(p) /\ Whole
      /\ outer \in [{"dir", "signing"} -> Mode \cup {None}]
  BY DEF StoreIInv, TypeOK, StoreInv
<1>2. job[p] = Done /\ proc[p].run \in Command /\ proc[p].run.verb = "import"
  BY <1>1 DEF Import, Reading, Running
<1>3. b \in Bytes /\ new \in Bytes /\ "identities" \in Name /\ Private \in Mode \cup {None}
  BY <1>1, <1>2, Contents, CommandFields, LinesAreBytes, NameAssumption, PrivateAssumption
<1>4. l \in Process /\ l.pc = "last" /\ l.run \in Command
  BY <1>1, <1>2, <1>3 DEF Process
<1>5. UNCHANGED <<faults, chmods>> /\ outer' \in [{"dir", "signing"} -> Mode \cup {None}]
  BY <1>1, MakeDirType DEF Import
<1>6. CASE Exit(p) /\ UNCHANGED store
  BY <1>2, <1>5, <1>6, IdleProcess DEF Exit, Moves, Rests
<1>7. CASE Call(p, "identities", new, Private) /\ Become(p, l)
  <2> HIDE DEF new, l
  <2>1. CallBy(p, l, "identities", new, Private)
    BY <1>3, <1>4, <1>7 DEF CallBy
  <2> QED
    BY <1>3, <1>4, <1>5, <1>7, <2>1 DEF Moves
<1> QED
  BY <1>6, <1>7 DEF Import

\* The recipients line of init and trust --import.
LEMMA AppendStep ==
  ASSUME StoreIInv, NEW p \in Proc, AppendRecipient(p)
  PROVE  Moves(p)
<1> DEFINE b == Lines("recipients")
           k == proc[p].run.key
           new == [b EXCEPT ![k] = @ + 1]
           l == [proc[p] EXCEPT !.pc = "last", !.recs = b]
<1>1. proc[p] \in Process /\ Running(p) /\ Whole
      /\ outer \in [{"dir", "signing"} -> Mode \cup {None}]
  BY DEF StoreIInv, TypeOK, StoreInv
<1>2. job[p] = Done /\ proc[p].run \in Command /\ proc[p].run.verb = "anchor"
  BY <1>1 DEF AppendRecipient, Reading, Running
<1>3. b \in Bytes /\ k \in Key /\ "recipients" \in Name
  BY <1>1, <1>2, CommandFields, LinesAreBytes, NameAssumption
<1>4. l \in Process /\ l.pc = "last" /\ l.run \in Command
  BY <1>1, <1>2, <1>3 DEF Process
<1>5. UNCHANGED <<faults, chmods>> /\ outer' \in [{"dir", "signing"} -> Mode \cup {None}]
  BY <1>1, MakeDirType DEF AppendRecipient
<1>6. CASE Exit(p) /\ UNCHANGED store
  BY <1>2, <1>5, <1>6, IdleProcess DEF Exit, Moves, Rests
<1>7. CASE b[k] # MaxLines /\ Call(p, "recipients", new, None) /\ Become(p, l)
  <2>1. new \in Bytes
    BY <1>3, <1>7, Contents
  <2> HIDE DEF new, l
  <2>2. CallBy(p, l, "recipients", new, None)
    BY <1>3, <1>4, <1>7, <2>1 DEF CallBy
  <2> QED
    BY <1>3, <1>4, <1>5, <1>7, <2>1, <2>2 DEF Moves
<1> QED
  BY <1>6, <1>7 DEF AppendRecipient

\* The two writes of forget.
LEMMA ForgetStep ==
  ASSUME StoreIInv, NEW p \in Proc, Forget(p) \/ ForgetNext(p)
  PROVE  Moves(p)
<1> DEFINE k == proc[p].run.key
           recs == Lines("recipients")
           me == [proc[p] EXCEPT !.recs = recs]
<1>1. proc[p] \in Process /\ Running(p) /\ Whole
      /\ outer \in [{"dir", "signing"} -> Mode \cup {None}]
  BY DEF StoreIInv, TypeOK, StoreInv
<1>2. job[p] = Done /\ proc[p].run \in Command /\ k \in Key
  BY <1>1, CommandFields DEF Forget, ForgetNext, Reading, Running
<1>3. recs \in Bytes /\ proc[p].ids \in Bytes /\ proc[p].recs \in Bytes
      /\ {"identities", "recipients"} \subseteq Name
  BY <1>1, LinesAreBytes, NameAssumption DEF Process
<1>4. UNCHANGED <<faults, chmods>> /\ outer' \in [{"dir", "signing"} -> Mode \cup {None}]
  BY <1>1 DEF Forget, ForgetNext
<1>5. me \in Process /\ me.run = proc[p].run
  BY <1>1, <1>3 DEF Process
<1>6. ASSUME NEW l \in Process, NEW n \in {"identities", "recipients"}, NEW b \in Bytes,
             l.run = proc[p].run, l.pc \in {"next", "last"}, Become(p, l),
             Call(p, n, Without(b, k), None)
      PROVE  Moves(p)
  <2>1. Without(b, k) \in Bytes
    BY <1>2, Contents
  <2>2. CallBy(p, l, n, Without(b, k), None)
    BY <1>3, <1>6, <2>1 DEF CallBy
  <2> QED
    BY <1>2, <1>3, <1>4, <1>6, <2>1, <2>2 DEF Moves
<1>7. CASE Exit(p) /\ UNCHANGED store
  BY <1>2, <1>4, <1>7, IdleProcess DEF Exit, Moves, Rests
<1>8. CASE /\ Call(p, "identities", Without(proc[p].ids, k), None)
           /\ Become(p, [me EXCEPT !.pc = "next"])
  <2> DEFINE l == [me EXCEPT !.pc = "next"]
  <2>1. l \in Process /\ l.run = proc[p].run /\ l.pc = "next"
    BY <1>5 DEF Process
  <2>2. Become(p, l)
    BY <1>8
  <2> HIDE DEF l
  <2> QED
    BY <1>3, <1>6, <1>8, <2>1, <2>2
<1>9. CASE /\ Call(p, "recipients", Without(recs, k), None)
           /\ Become(p, [me EXCEPT !.pc = "last"])
  <2> DEFINE l == [me EXCEPT !.pc = "last"]
  <2>1. l \in Process /\ l.run = proc[p].run /\ l.pc = "last"
    BY <1>5 DEF Process
  <2>2. Become(p, l)
    BY <1>9
  <2> HIDE DEF l
  <2> QED
    BY <1>3, <1>6, <1>9, <2>1, <2>2
<1>10. CASE /\ Call(p, "recipients", Without(proc[p].recs, k), None)
            /\ Become(p, [proc[p] EXCEPT !.pc = "last"])
  <2> DEFINE l == [proc[p] EXCEPT !.pc = "last"]
  <2>1. l \in Process /\ l.run = proc[p].run /\ l.pc = "last"
    BY <1>1 DEF Process
  <2>2. Become(p, l)
    BY <1>10
  <2> HIDE DEF l
  <2> QED
    BY <1>3, <1>6, <1>10, <2>1, <2>2
<1> QED
  BY <1>7, <1>8, <1>9, <1>10 DEF Forget, ForgetNext

\* A step of a command moves it on.
LEMMA CommandMoves ==
  ASSUME StoreIInv, NEW p \in Proc,
         \/ StartCommand(p) \/ Acknowledge(p) \/ Import(p) \/ AppendRecipient(p)
         \/ ForgetReadPrivate(p) \/ Forget(p) \/ ForgetNext(p) \/ Finish(p)
  PROVE  Moves(p)
BY QuietStep, AcknowledgeStep, ImportStep, AppendStep, ForgetStep

\* A step of a write, and what befalls one, is no other process's.
LEMMA JobOfOne ==
  ASSUME NEW p \in Proc, StoreInv,
         Write(p) \/ SyncDirFails(p) \/ Fail(p) \/ Die(p)
         \/ (\E n \in Name, b \in Bytes, m \in Mode \cup {None} : Call(p, n, b, m))
  PROVE  /\ \A q \in Proc : q # p => job'[q] = job[q]
         /\ Write(p) \/ SyncDirFails(p) \/ Fail(p) => job[p] # Done
         /\ SyncDirFails(p) \/ Fail(p) \/ Die(p) => job'[p] = Done
<1>1. job \in [Proc -> Job]
  BY DEF StoreInv, StoreTypeOK
<1>2. \A q \in Proc : q # p => job'[q] = job[q]
  BY <1>1 DEF Write, OpenTemp, WriteTemp, SyncTemp, Rename, SyncDir, SyncDirFails, Fail, Die, Call, Advance
<1>3. Write(p) \/ SyncDirFails(p) \/ Fail(p) => job[p].at # "done"
  BY DEF Write, OpenTemp, WriteTemp, SyncTemp, Rename, SyncDir, SyncDirFails, Fail
<1>4. SyncDirFails(p) \/ Fail(p) \/ Die(p) => job'[p] = Done
  BY <1>1 DEF SyncDirFails, Fail, Die
<1> QED
  BY <1>2, <1>3, <1>4 DEF Done

\* Every step keeps the invariant, and is one of write_atomic for the files.
LEMMA StoreIStep ==
  ASSUME StoreIInv, [Next]_vars
  PROVE  StoreIInv' /\ (Change \/ UNCHANGED store)
<1>1. StoreInv /\ proc \in [Proc -> Process] /\ faults \in 0 .. MaxFaults /\ chmods \in 0 .. MaxChmods
      /\ outer \in [{"dir", "signing"} -> Mode \cup {None}] /\ job \in [Proc -> Job]
      /\ \A q \in Proc : Running(q)
  BY DEF StoreIInv, TypeOK, StoreInv, StoreTypeOK
<1> DEFINE Kind == /\ Change \/ UNCHANGED store
                   /\ outer' \in [{"dir", "signing"} -> Mode \cup {None}]
                   /\ proc' \in [Proc -> Process]
                   /\ faults' \in 0 .. MaxFaults /\ chmods' \in 0 .. MaxChmods
                   /\ \A q \in Proc : Running(q)'
<1>2. SUFFICES Kind
  BY <1>1, StoreStep DEF StoreIInv, TypeOK, StoreInv
<1>3. ASSUME NEW p \in Proc, Moves(p)
      PROVE  Kind
  <2>1. PICK l \in Process :
          /\ Become(p, l) /\ (l.pc # "idle" => l.run \in Command)
          /\ (\E n \in Name, b \in Bytes, m \in Mode \cup {None} : CallBy(p, l, n, b, m)) \/ Rests(p, l)
    BY <1>3 DEF Moves
  <2>2. proc' \in [Proc -> Process] /\ proc'[p] = l /\ \A q \in Proc : q # p => proc'[q] = proc[q]
    BY <1>1, <2>1 DEF Become
  <2>3. CASE Rests(p, l)
    BY <1>1, <1>3, <2>1, <2>2, <2>3 DEF Rests, Moves, Running, store
  <2>4. CASE \E n \in Name, b \in Bytes, m \in Mode \cup {None} : CallBy(p, l, n, b, m)
    <3>1. \E n \in Name, b \in Bytes, m \in Mode \cup {None} : Call(p, n, b, m)
      BY <2>4 DEF CallBy
    <3>2. l.pc \in {"next", "last"}
      BY <2>4 DEF CallBy
    <3>3. \A q \in Proc : q # p => job'[q] = job[q]
      BY <1>1, <3>1, JobOfOne
    <3>4. \A q \in Proc : Running(q)'
      BY <1>1, <2>1, <2>2, <3>2, <3>3 DEF Running
    <3> QED
      BY <1>1, <1>3, <2>2, <3>1, <3>4 DEF Change, Moves
  <2> QED
    BY <2>1, <2>3, <2>4
<1>4. ASSUME NEW p \in Proc, WriteStep(p)
      PROVE  Kind
  <2>1. Write(p) /\ UNCHANGED <<outer, proc, faults, chmods>>
    BY <1>4 DEF WriteStep
  <2>2. \A q \in Proc : Running(q)'
    BY <1>1, <2>1, JobOfOne DEF Running
  <2> QED
    BY <1>1, <2>1, <2>2 DEF Change
<1>5. ASSUME NEW p \in Proc, WriteFails(p) \/ Crash(p)
      PROVE  Kind
  <2>1. SyncDirFails(p) \/ Fail(p) \/ Die(p)
    BY <1>5 DEF WriteFails, Crash
  <2>2. proc' = proc \/ Become(p, Idle)
    BY <1>5 DEF WriteFails, Crash, Exit
  <2>3. outer' = outer /\ chmods' = chmods /\ faults' \in 0 .. MaxFaults
    BY <1>1, <1>5, BoundsAssumption DEF WriteFails, Crash
  <2>4. proc' \in [Proc -> Process]
    BY <1>1, <2>2, IdleProcess DEF Become
  <2>5. \A q \in Proc : Running(q)'
    BY <1>1, <2>1, <2>2, JobOfOne, IdleProcess DEF Running, Become
  <2> QED
    BY <1>1, <2>1, <2>3, <2>4, <2>5 DEF Change
<1>6. CASE PowerCut
  <2>1. faults' \in 0 .. MaxFaults
    BY <1>1, <1>6, BoundsAssumption DEF PowerCut
  <2>2. \A q \in Proc : job'[q] = Done /\ proc'[q] = Idle
    BY <1>6 DEF PowerCut, LosePower
  <2>3. proc' \in [Proc -> Process]
    BY <1>6, IdleProcess DEF PowerCut
  <2> QED
    BY <1>1, <1>6, <2>1, <2>2, <2>3, IdleProcess DEF PowerCut, Change, Running
<1>7. ASSUME NEW place \in Place, NEW m \in Mode, ChangeMode(place, m), chmods' \in 0 .. MaxChmods
      PROVE  Kind
  <2>1. CASE place = "identities" /\ ChmodFile(place, m) /\ UNCHANGED outer
    <3>1. Change
      BY <2>1, NameAssumption DEF Change
    <3> QED
      BY <1>1, <1>7, <2>1, <3>1 DEF ChangeMode, ChmodFile, Running
  <2>2. CASE place # "identities" /\ outer' = [outer EXCEPT ![place] = m] /\ UNCHANGED store
    BY <1>1, <1>7, <2>2, PlaceAssumption DEF ChangeMode, Running, store
  <2> QED
    BY <1>7, <2>1, <2>2 DEF ChangeMode
<1>8. CASE Loosen
  <2>1. chmods' \in 0 .. MaxChmods
    BY <1>1, <1>8, BoundsAssumption DEF Loosen
  <2> QED
    BY <1>7, <1>8, <2>1 DEF Loosen
<1>9. ASSUME NEW place \in Place, Tighten(place)
      PROVE  Kind
  BY <1>1, <1>7, <1>9, PrivateAssumption DEF Tighten
<1>10. CASE UNCHANGED vars
  BY <1>1, <1>10 DEF vars, store, Running
<1> QED
  BY <1>3, <1>4, <1>5, <1>6, <1>8, <1>9, <1>10, CommandMoves DEF Next, Step
-----------------------------------------------------------------------------
(* The theorems that need no more *)

\* The invariant.
LEMMA StoreAlways == Spec => []StoreIInv
<1>1. Init => StoreIInv
  BY StoreIInit
<1>2. StoreIInv /\ [Next]_vars => StoreIInv'
  BY StoreIStep
<1> QED
  BY <1>1, <1>2, PTL DEF Spec

\* Files, processes and the modes of the store are what they should be, for any
\* interleaving of import, forget, trust-permissions and the recipients line.
THEOREM StoreTypeCorrect == Spec => []TypeOK
<1>1. StoreIInv => TypeOK
  BY DEF StoreIInv
<1> QED
  BY <1>1, StoreAlways, PTL

\* write_atomic replaces files atomically for every command of the key store:
\* nobody sees half of a file, before or after a power cut.
THEOREM StoreWritesAtomically == Spec => AtomicReplace
<1>1. Init => Atomic!Init
  BY StoreIInit
<1>2. StoreIInv /\ [Next]_vars => [Atomic!Next]_(Atomic!vars)
  BY StoreIStep, AtomicStep DEF StoreIInv
<1> QED
  BY <1>1, <1>2, StoreAlways, PTL DEF Spec, AtomicReplace, Atomic!Spec
-----------------------------------------------------------------------------
(* What a command has read and what it writes *)

\* The content under way drops no line that p read, but forget's key.
Keeps(p) ==
  (job[p].bytes # None /\ job[p].name \in {"identities", "recipients"}) =>
    \A l \in Line : Seen(p)[l] > 0 /\ job[p].bytes[l] = 0 =>
      proc[p].run.verb = "forget" /\ l = proc[p].run.key

\* No second command while one runs, unless the instance lets them overlap.
Alone ==
  Overlap \/ \A p, q \in Proc : p # q => proc[p].pc = "idle" \/ proc[q].pc = "idle"

Bag == [l \in Line |-> IF l \in Findings THEN 1 ELSE 0]

\* How far a forget that runs alone has got.
Forgetful(p) ==
  LET k == proc[p].run.key
  IN  /\ proc[p].pc = "more" => proc[p].ids = Lines("identities")
      /\ proc[p].pc = "next" =>
           /\ proc[p].recs = Lines("recipients")
           /\ job[p] = Done \/ job[p].name = "identities"
           /\ IF job[p].bytes = None THEN Lines("identities")[k] = 0 ELSE job[p].bytes[k] = 0
      /\ proc[p].pc = "last" =>
           /\ Lines("identities")[k] = 0
           /\ job[p] = Done \/ job[p].name = "recipients"
           /\ IF job[p].bytes = None THEN Lines("recipients")[k] = 0 ELSE job[p].bytes[k] = 0

\* The acknowledgments of a trust-permissions that runs alone.
Acknowledging(p) ==
  /\ proc[p].pc \in {"read", "last"}
  /\ proc[p].pc = "last" =>
       /\ job[p] = Done \/ job[p].name = "ack"
       /\ IF job[p].bytes = None THEN Lines("ack") = Bag ELSE job[p].bytes = Bag

Sound(p) ==
  Overlap \/
    (proc[p].pc # "idle" =>
       /\ proc[p].run.verb = "forget" => Forgetful(p)
       /\ proc[p].run.verb = "trust-permissions" => Acknowledging(p))

CommandInv == StoreIInv /\ Alone /\ \A p \in Proc : Keeps(p) /\ Sound(p)

\* An idle process is sound, and so is one that has only begun, whatever it runs.
LEMMA Early ==
  ASSUME NEW p \in Proc, proc[p].pc \in {"idle", "read"}, job[p] = Done
  PROVE  Keeps(p) /\ Sound(p)
BY DEF Keeps, Sound, Forgetful, Acknowledging, Done

\* The fields of a process that moves on.
LEMMA Onward ==
  ASSUME NEW l \in Process
  PROVE  \A pc \in {"read", "more", "next", "last"}, b \in Bytes :
           /\ [l EXCEPT !.pc = pc].pc = pc /\ [l EXCEPT !.pc = pc].run = l.run
           /\ [l EXCEPT !.pc = pc].ids = l.ids /\ [l EXCEPT !.pc = pc].recs = l.recs
           /\ [l EXCEPT !.pc = pc, !.ids = b].pc = pc /\ [l EXCEPT !.pc = pc, !.ids = b].run = l.run
           /\ [l EXCEPT !.pc = pc, !.ids = b].ids = b
           /\ [l EXCEPT !.pc = pc, !.recs = b].pc = pc /\ [l EXCEPT !.pc = pc, !.recs = b].run = l.run
           /\ [l EXCEPT !.pc = pc, !.recs = b].recs = b
           /\ [[l EXCEPT !.recs = b] EXCEPT !.pc = pc].pc = pc
           /\ [[l EXCEPT !.recs = b] EXCEPT !.pc = pc].run = l.run
           /\ [[l EXCEPT !.recs = b] EXCEPT !.pc = pc].ids = l.ids
           /\ [[l EXCEPT !.recs = b] EXCEPT !.pc = pc].recs = b
BY DEF Process

\* A call of write_atomic that keeps what p read.
LEMMA Called ==
  ASSUME StoreIInv, NEW p \in Proc, NEW n \in Name, NEW b \in Bytes, NEW m, Call(p, n, b, m)
  PROVE  /\ job'[p].name = n /\ job'[p].bytes = b /\ b # None
         /\ \A x \in Name : Lines(x)' = Lines(x)
         /\ disk' = disk /\ job[p] = Done
BY NoneAssumption DEF Call, Lines, StoreIInv, StoreInv, StoreTypeOK

\* The steps of trust-permissions, import and the recipients line.
LEMMA OneWrite ==
  ASSUME CommandInv, NEW p \in Proc, Acknowledge(p) \/ Import(p) \/ AppendRecipient(p)
  PROVE  Keeps(p)' /\ Sound(p)'
<1>1. proc \in [Proc -> Process] /\ proc[p] \in Process /\ Running(p) /\ Whole /\ job[p] = Done
  BY DEF CommandInv, StoreIInv, TypeOK, StoreInv, Running, Acknowledge, Import, AppendRecipient, Reading
<1>2. CASE Exit(p) /\ UNCHANGED store
  <2>1. proc'[p] = Idle /\ job' = job
    BY <1>1, <1>2 DEF Exit, Become, store
  <2> QED
    BY <1>1, <2>1, IdleProcess DEF Keeps, Sound, Done
<1>3. CASE /\ Acknowledge(p) /\ Call(p, "ack", Bag, Private)
           /\ Become(p, [proc[p] EXCEPT !.pc = "last"])
  <2>1. job'[p].name = "ack" /\ job'[p].bytes = Bag /\ disk' = disk /\ Bag # None
    BY <1>3, Contents, NameAssumption, Called DEF CommandInv, Bag
  <2>2. Bag' = Bag
    BY <1>3, <2>1 DEF Bag, Findings, ModeOf, Acknowledge
  <2>3. proc'[p].pc = "last" /\ proc'[p].run.verb = "trust-permissions"
    BY <1>1, <1>3, Onward DEF Become, Acknowledge, Reading, Process
  <2> QED
    BY <2>1, <2>2, <2>3 DEF Keeps, Sound, Acknowledging
<1>4. CASE Import(p) /\ ~(Exit(p) /\ UNCHANGED store)
  <2> DEFINE b == Lines("identities")
             ks == proc[p].run.keys
  <2>1. Call(p, "identities", Imported(b, ks), Private) /\ Become(p, [proc[p] EXCEPT !.pc = "last", !.ids = b])
    BY <1>4 DEF Import
  <2>2. proc[p].run \in Command /\ proc[p].run.verb = "import"
    BY <1>1, <1>4 DEF Import, Reading, Running
  <2>3. b \in Bytes /\ Imported(b, ks) \in Bytes
    BY <1>1, <2>2, CommandFields, Contents, LinesAreBytes, NameAssumption
  <2>4. job'[p].name = "identities" /\ job'[p].bytes = Imported(b, ks)
    BY <2>1, <2>3, NameAssumption, Called DEF CommandInv
  <2>5. proc'[p].ids = b /\ proc'[p].run = proc[p].run /\ proc'[p].pc = "last"
    BY <1>1, <2>1, <2>3, Onward DEF Become
  <2>6. \A l \in Line : b[l] > 0 => Imported(b, ks)[l] # 0
    BY <2>3, BytesAreLines DEF Imported
  <2> QED
    BY <2>2, <2>4, <2>5, <2>6 DEF Keeps, Sound, Seen
<1>5. CASE AppendRecipient(p) /\ ~(Exit(p) /\ UNCHANGED store)
  <2> DEFINE b == Lines("recipients")
             k == proc[p].run.key
             new == [b EXCEPT ![k] = @ + 1]
  <2>1. b[k] # MaxLines /\ Call(p, "recipients", new, None)
        /\ Become(p, [proc[p] EXCEPT !.pc = "last", !.recs = b])
    BY <1>5 DEF AppendRecipient
  <2>2. proc[p].run \in Command /\ proc[p].run.verb = "anchor"
    BY <1>1, <1>5 DEF AppendRecipient, Reading, Running
  <2>3. b \in Bytes /\ new \in Bytes /\ k \in Key
    BY <1>1, <2>1, <2>2, CommandFields, Contents, LinesAreBytes, NameAssumption
  <2>4. job'[p].name = "recipients" /\ job'[p].bytes = new
    BY <2>1, <2>3, NameAssumption, Called DEF CommandInv
  <2>5. proc'[p].recs = b /\ proc'[p].run = proc[p].run /\ proc'[p].pc = "last"
    BY <1>1, <2>1, <2>3, Onward DEF Become
  <2>6. \A l \in Line : b[l] > 0 => new[l] # 0
    BY <2>3, BytesAreLines
  <2> QED
    BY <2>2, <2>4, <2>5, <2>6 DEF Keeps, Sound, Seen
<1> QED
  BY <1>2, <1>3, <1>4, <1>5 DEF Acknowledge, Bag

\* The steps of forget.
LEMMA TwoWrites ==
  ASSUME CommandInv, NEW p \in Proc, ForgetReadPrivate(p) \/ Forget(p) \/ ForgetNext(p)
  PROVE  Keeps(p)' /\ Sound(p)'
<1> DEFINE k == proc[p].run.key
           ids == proc[p].ids
           recs == Lines("recipients")
           me == [proc[p] EXCEPT !.recs = recs]
<1>1. /\ proc \in [Proc -> Process] /\ proc[p] \in Process /\ Running(p) /\ Whole /\ Sound(p)
      /\ proc[p].run.verb = "forget" /\ proc[p].pc # "idle" /\ job[p] = Done
  BY DEF CommandInv, StoreIInv, TypeOK, StoreInv, Running, ForgetReadPrivate, Forget, ForgetNext, Reading
<1>2. k \in Key /\ k \in Line
  BY <1>1, CommandFields DEF Running, Line
<1>3. /\ {"identities", "recipients"} \subseteq Name
      /\ Lines("identities") \in Bytes /\ recs \in Bytes /\ ids \in Bytes /\ proc[p].recs \in Bytes
  BY <1>1, LinesAreBytes, NameAssumption DEF Process
<1>4. \A b \in Bytes : /\ Without(b, k) \in Bytes /\ Without(b, k)[k] = 0
                       /\ \A l \in Line : b[l] > 0 /\ Without(b, k)[l] = 0 => l = k
  BY <1>2, Contents, BytesAreLines DEF Without
<1>5. \A b \in Bytes : b[k] > 0 \/ b[k] = 0
  BY <1>2, BytesAreLines
<1>6. Overlap \/ Forgetful(p)
  BY <1>1 DEF Sound
<1>7. CASE Exit(p) /\ UNCHANGED store
  <2>1. proc'[p] = Idle /\ job' = job
    BY <1>1, <1>7 DEF Exit, Become, store
  <2> QED
    BY <1>1, <2>1, IdleProcess DEF Keeps, Sound, Done
<1>8. CASE ForgetReadPrivate(p) /\ Become(p, [proc[p] EXCEPT !.pc = "more", !.ids = Lines("identities")])
  <2>1. proc'[p].pc = "more" /\ proc'[p].ids = Lines("identities") /\ proc'[p].run = proc[p].run
    BY <1>1, <1>3, <1>8, Onward DEF Become
  <2>2. job' = job /\ Lines("identities")' = Lines("identities")
    BY <1>8 DEF ForgetReadPrivate, store, Lines
  <2> QED
    BY <1>1, <2>1, <2>2 DEF Keeps, Sound, Forgetful, Done
<1>9. CASE Forget(p) /\ Call(p, "identities", Without(ids, k), None)
           /\ Become(p, [me EXCEPT !.pc = "next"])
  <2>1. /\ job'[p].name = "identities" /\ job'[p].bytes = Without(ids, k) /\ job'[p].bytes # None
        /\ Lines("recipients")' = recs
    BY <1>3, <1>4, <1>9, Called DEF CommandInv
  <2>2. /\ proc'[p].pc = "next" /\ proc'[p].run = proc[p].run
        /\ proc'[p].ids = ids /\ proc'[p].recs = recs
    BY <1>1, <1>3, <1>9, Onward DEF Become
  <2>3. Keeps(p)'
    BY <1>1, <1>3, <1>4, <2>1, <2>2 DEF Keeps, Seen
  <2>4. Forgetful(p)'
    BY <1>3, <1>4, <2>1, <2>2 DEF Forgetful
  <2> QED
    BY <1>1, <2>2, <2>3, <2>4 DEF Sound
<1>10. CASE Forget(p) /\ ids[k] = 0 /\ Call(p, "recipients", Without(recs, k), None)
            /\ Become(p, [me EXCEPT !.pc = "last"])
  <2>1. /\ job'[p].name = "recipients" /\ job'[p].bytes = Without(recs, k) /\ job'[p].bytes # None
        /\ Lines("identities")' = Lines("identities")
    BY <1>3, <1>4, <1>10, Called DEF CommandInv
  <2>2. /\ proc'[p].pc = "last" /\ proc'[p].run = proc[p].run /\ proc'[p].recs = recs
    BY <1>1, <1>3, <1>10, Onward DEF Become
  <2>3. Keeps(p)'
    BY <1>1, <1>3, <1>4, <2>1, <2>2 DEF Keeps, Seen
  <2>4. Overlap \/ Forgetful(p)'
    BY <1>3, <1>4, <1>6, <1>10, <2>1, <2>2 DEF Forgetful, Forget, Reading
  <2> QED
    BY <1>1, <2>2, <2>3, <2>4 DEF Sound
<1>11. CASE ForgetNext(p) /\ Call(p, "recipients", Without(proc[p].recs, k), None)
            /\ Become(p, [proc[p] EXCEPT !.pc = "last"])
  <2>1. /\ job'[p].name = "recipients" /\ job'[p].bytes = Without(proc[p].recs, k) /\ job'[p].bytes # None
        /\ Lines("identities")' = Lines("identities")
    BY <1>3, <1>4, <1>11, Called DEF CommandInv
  <2>2. /\ proc'[p].pc = "last" /\ proc'[p].run = proc[p].run /\ proc'[p].recs = proc[p].recs
    BY <1>1, <1>3, <1>11, Onward DEF Become
  <2>3. Keeps(p)'
    BY <1>1, <1>3, <1>4, <2>1, <2>2 DEF Keeps, Seen
  <2>4. Overlap \/ Forgetful(p)'
    BY <1>1, <1>3, <1>4, <1>6, <1>11, <2>1, <2>2 DEF Forgetful, ForgetNext, Reading, Done
  <2> QED
    BY <1>1, <2>2, <2>3, <2>4 DEF Sound
<1> QED
  BY <1>3, <1>5, <1>7, <1>8, <1>9, <1>10, <1>11 DEF ForgetReadPrivate, Forget, ForgetNext

\* While p's command takes a step, or starts, any other one is as it was, and
\* idle unless commands overlap.
LEMMA OthersSound ==
  ASSUME CommandInv, NEW p \in Proc, NEW q \in Proc, q # p,
         proc[p].pc # "idle" \/ Overlap \/ Quiet,
         job'[q] = job[q], proc'[q] = proc[q]
  PROVE  Keeps(q)' /\ Sound(q)'
<1>1. Overlap \/ proc[q].pc = "idle"
  BY DEF CommandInv, Alone, Quiet
<1>2. Keeps(q)'
  BY DEF CommandInv, Keeps, Seen
<1> QED
  BY <1>1, <1>2 DEF Sound

\* A step of the process that runs, or of none, starts no second one.
LEMMA StillAlone ==
  ASSUME CommandInv, NEW p \in Proc,
         proc[p].pc # "idle" \/ Overlap \/ Quiet,
         \A q \in Proc : q # p => proc'[q] = proc[q]
  PROVE  Alone'
BY DEF CommandInv, Alone, Quiet

\* The steps of commands.
LEMMA CommandsSound ==
  ASSUME CommandInv, NEW p \in Proc,
         \/ StartCommand(p) \/ Acknowledge(p) \/ Import(p) \/ AppendRecipient(p)
         \/ ForgetReadPrivate(p) \/ Forget(p) \/ ForgetNext(p) \/ Finish(p)
  PROVE  Alone' /\ \A q \in Proc : Keeps(q)' /\ Sound(q)'
<1>1. PICK l \in Process :
        /\ Become(p, l)
        /\ (\E n \in Name, b \in Bytes, m \in Mode \cup {None} : CallBy(p, l, n, b, m)) \/ Rests(p, l)
  BY CommandMoves DEF CommandInv, Moves
<1>2. proc \in [Proc -> Process] /\ StoreInv /\ Running(p)
  BY DEF CommandInv, StoreIInv, TypeOK
<1>3. proc[p].pc # "idle" \/ Overlap \/ Quiet
  BY DEF StartCommand, Begin, Acknowledge, Import, AppendRecipient, ForgetReadPrivate,
         Forget, ForgetNext, Finish, Reading
<1>4. \A q \in Proc : q # p => proc'[q] = proc[q]
  BY <1>1, <1>2 DEF Become
<1>5. \A q \in Proc : q # p => job'[q] = job[q]
  BY <1>1, <1>2, JobOfOne DEF CallBy, Rests, store
<1>6. Keeps(p)' /\ Sound(p)'
  <2>1. CASE StartCommand(p)
    <3>1. PICK run \in CommandLines : Begin(p, run)
      BY <2>1 DEF StartCommand
    <3>2. proc'[p].pc = "read" /\ job'[p] = Done
      BY <1>2, <3>1 DEF Begin, Become, Idle, Running, store
    <3> QED
      BY <3>2 DEF Keeps, Sound, Forgetful, Acknowledging, Done
  <2>2. CASE Finish(p)
    <3>1. proc'[p].pc = "idle" /\ job'[p] = Done
      BY <1>2, <2>2 DEF Finish, Exit, Become, Idle, store
    <3> QED
      BY <3>1 DEF Keeps, Sound, Done
  <2> QED
    BY <2>1, <2>2, OneWrite, TwoWrites
<1> QED
  BY <1>3, <1>4, <1>5, <1>6, OthersSound, StillAlone

\* What a step of a write does to the files and to the write itself.
LEMMA WriteEffect ==
  ASSUME StoreInv, NEW p \in Proc, Write(p)
  PROVE  \/ /\ disk' = disk /\ job[p] # Done /\ job'[p] # Done
            /\ job'[p].name = job[p].name /\ job'[p].bytes = job[p].bytes
         \/ /\ Rename(p) /\ job[p].bytes # None /\ job[p].name \in Name
            /\ job'[p].name = job[p].name /\ job'[p].bytes = None
            /\ \A n \in Name : n = job[p].name => Lines(n)' = job[p].bytes
            /\ \A n \in Name : n # job[p].name => disk'[n] = disk[n]
         \/ disk' = disk /\ job[p].bytes = None /\ job'[p] = Done
<1>1. job \in [Proc -> Job] /\ job[p] \in Job
  BY DEF StoreInv, StoreTypeOK
<1>2. CASE OpenTemp(p) \/ WriteTemp(p) \/ SyncTemp(p)
  <2>1. PICK at \in {"write", "sync", "rename"} : job' = [job EXCEPT ![p].at = at]
    BY <1>2 DEF OpenTemp, WriteTemp, SyncTemp, Advance
  <2>2. job[p].at \in {"open", "write", "sync", "rename"} /\ disk' = disk
    BY <1>2 DEF OpenTemp, WriteTemp, SyncTemp
  <2> QED
    BY <1>1, <2>1, <2>2, AdvancedJob DEF Done
<1>3. CASE Rename(p)
  <2> DEFINE n == job[p].name
  <2>1. /\ n \in Name /\ job[p].bytes \in Bytes /\ disk' = [disk EXCEPT ![n] = temp[n][p]]
        /\ temp[n][p] \in WholeFile /\ temp[n][p].data = job[p].bytes
    BY <1>3, StoreRename
  <2>2. disk'[n] = temp[n][p] /\ temp[n][p] # None /\ job[p].bytes # None
        /\ \A x \in Name : x # n => disk'[x] = disk[x]
    BY <2>1, WholeFiles, NoneAssumption DEF StoreInv, Whole
  <2>3. ASSUME NEW x \in Name, x = n PROVE Lines(x)' = job[p].bytes
    BY <2>1, <2>2, <2>3 DEF Lines
  <2>4. job'[p].name = n /\ job'[p].bytes = None
    BY <1>1, <1>3 DEF Rename
  <2> QED
    BY <1>3, <2>1, <2>2, <2>3, <2>4
<1>4. CASE SyncDir(p)
  BY <1>1, <1>4, JobFields DEF SyncDir
<1> QED
  BY <1>2, <1>3, <1>4 DEF Write

\* A step of p's write keeps what is known of p.
LEMMA WritesSound ==
  ASSUME CommandInv, NEW p \in Proc, WriteStep(p)
  PROVE  Alone' /\ \A q \in Proc : Keeps(q)' /\ Sound(q)'
<1>1. StoreInv /\ Running(p) /\ Keeps(p) /\ Sound(p)
  BY DEF CommandInv, StoreIInv
<1>2. Write(p) /\ UNCHANGED <<outer, proc, faults, chmods>>
  BY DEF WriteStep
<1>3. proc[p].pc # "idle"
  BY <1>1, <1>2, JobOfOne DEF Running
<1>4. \A q \in Proc : q # p => job'[q] = job[q]
  BY <1>1, <1>2, JobOfOne
<1>5. {"identities", "recipients", "ack"} \subseteq Name
  BY NameAssumption
<1>6. ASSUME disk' = disk, job[p] # Done, job'[p] # Done,
             job'[p].name = job[p].name, job'[p].bytes = job[p].bytes
      PROVE  Keeps(p)' /\ Sound(p)'
  <2>1. /\ Lines("identities")' = Lines("identities") /\ Lines("recipients")' = Lines("recipients")
        /\ Lines("ack")' = Lines("ack") /\ Bag' = Bag
    BY <1>2, <1>6 DEF Lines, Bag, Findings, ModeOf
  <2> QED
    BY <1>1, <1>2, <1>6, <2>1 DEF Keeps, Seen, Sound, Forgetful, Acknowledging
<1>7. ASSUME Rename(p), job[p].bytes # None, job[p].name \in Name,
             job'[p].name = job[p].name, job'[p].bytes = None,
             \A n \in Name : n = job[p].name => Lines(n)' = job[p].bytes,
             \A n \in Name : n # job[p].name => disk'[n] = disk[n]
      PROVE  Keeps(p)' /\ Sound(p)'
  <2>1. \A n \in Name : n # job[p].name => Lines(n)' = Lines(n)
    BY <1>7 DEF Lines
  <2>2. job[p] # Done
    BY <1>7 DEF Done
  <2>3. Keeps(p)'
    BY <1>7 DEF Keeps
  <2>4. ASSUME ~Overlap, proc[p].run.verb = "forget"
        PROVE  Forgetful(p)'
    <3>1. Forgetful(p)
      BY <1>1, <1>3, <2>4 DEF Sound
    <3>2. proc[p].pc \in {"next", "last"}
      BY <1>1, <1>2, <1>3, JobOfOne DEF Running, CommandInv, StoreIInv, TypeOK, Process
    <3> QED
      BY <1>2, <1>5, <1>7, <2>1, <2>2, <3>1, <3>2 DEF Forgetful
  <2>5. ASSUME ~Overlap, proc[p].run.verb = "trust-permissions"
        PROVE  Acknowledging(p)'
    <3>1. Acknowledging(p) /\ proc[p].pc = "last"
      BY <1>1, <1>3, <2>2, <2>5 DEF Sound, Acknowledging, Running
    <3>2. job[p].name = "ack" /\ job[p].bytes = Bag
      BY <1>7, <2>2, <3>1 DEF Acknowledging
    <3>3. Bag' = Bag
      BY <1>2, <1>5, <1>7, <3>2 DEF Bag, Findings, ModeOf
    <3> QED
      BY <1>2, <1>5, <1>7, <3>1, <3>2, <3>3 DEF Acknowledging
  <2> QED
    BY <1>2, <2>3, <2>4, <2>5 DEF Sound
<1>8. ASSUME disk' = disk, job[p].bytes = None, job'[p] = Done
      PROVE  Keeps(p)' /\ Sound(p)'
  <2>1. /\ Lines("identities")' = Lines("identities") /\ Lines("recipients")' = Lines("recipients")
        /\ Lines("ack")' = Lines("ack") /\ Bag' = Bag
    BY <1>2, <1>8 DEF Lines, Bag, Findings, ModeOf
  <2>2. job'[p].bytes = None
    BY <1>8 DEF Done
  <2> QED
    BY <1>1, <1>2, <1>8, <2>1, <2>2 DEF Keeps, Sound, Forgetful, Acknowledging
<1>9. Keeps(p)' /\ Sound(p)'
  BY <1>1, <1>2, <1>6, <1>7, <1>8, WriteEffect
<1> QED
  BY <1>2, <1>3, <1>4, <1>9, OthersSound, StillAlone

\* A failed write, a death and a power cut.
LEMMA FaultsSound ==
  ASSUME CommandInv, (\E p \in Proc : WriteFails(p) \/ Crash(p)) \/ PowerCut
  PROVE  Alone' /\ \A q \in Proc : Keeps(q)' /\ Sound(q)'
<1>1. CASE PowerCut
  <2>1. \A q \in Proc : job'[q] = Done /\ proc'[q] = Idle
    BY <1>1 DEF PowerCut, LosePower
  <2> QED
    BY <2>1, IdleProcess DEF Alone, Keeps, Sound, Done
<1>2. ASSUME NEW p \in Proc, WriteFails(p) \/ Crash(p)
      PROVE  Alone' /\ \A q \in Proc : Keeps(q)' /\ Sound(q)'
  <2>1. StoreInv /\ Running(p) /\ Keeps(p) /\ Sound(p) /\ job \in [Proc -> Job]
        /\ proc \in [Proc -> Process]
    BY DEF CommandInv, StoreIInv, StoreInv, StoreTypeOK, TypeOK
  <2>2. SyncDirFails(p) \/ Fail(p) \/ Die(p)
    BY <1>2 DEF WriteFails, Crash
  <2>3. proc[p].pc # "idle"
    BY <1>2, <2>1, JobOfOne DEF WriteFails, Crash, Running
  <2>4. job'[p] = Done /\ \A q \in Proc : q # p => job'[q] = job[q]
    BY <2>1, <2>2, JobOfOne
  <2>5. \A q \in Proc : q # p => proc'[q] = proc[q]
    BY <1>2, <2>1 DEF WriteFails, Crash, Exit, Become
  <2>6. ASSUME Exit(p)
        PROVE  Keeps(p)' /\ Sound(p)'
    BY <2>1, <2>4, <2>6, IdleProcess DEF Exit, Become, Keeps, Sound, Done
  <2>7. ASSUME SyncDirFails(p), UNCHANGED <<proc, outer>>
        PROVE  Keeps(p)' /\ Sound(p)'
    <3>1. disk' = disk /\ job[p].at = "dir"
      BY <2>7 DEF SyncDirFails
    <3>2. job[p].bytes = None /\ job'[p].bytes = None
      BY <2>1, <2>4, <3>1, JobFields DEF Done
    <3>3. /\ Lines("identities")' = Lines("identities") /\ Lines("recipients")' = Lines("recipients")
          /\ Lines("ack")' = Lines("ack") /\ Bag' = Bag
      BY <2>7, <3>1 DEF Lines, Bag, Findings, ModeOf
    <3> QED
      BY <2>1, <2>4, <2>7, <3>2, <3>3 DEF Keeps, Sound, Forgetful, Acknowledging
  <2>8. Keeps(p)' /\ Sound(p)'
    BY <1>2, <2>6, <2>7 DEF WriteFails, Crash
  <2> QED
    BY <2>3, <2>4, <2>5, <2>8, OthersSound, StillAlone
<1> QED
  BY <1>1, <1>2

\* Changes of modes, which come between commands unless the instance lets them
\* overlap.
LEMMA ModesSound ==
  ASSUME CommandInv, NEW place \in Place, NEW m \in Mode, ChangeMode(place, m)
  PROVE  Alone' /\ \A q \in Proc : Keeps(q)' /\ Sound(q)'
<1>1. job' = job /\ proc' = proc /\ (Overlap \/ Quiet)
  BY DEF ChangeMode, ChmodFile, store
<1>2. \A q \in Proc : Keeps(q)'
  BY <1>1 DEF CommandInv, Keeps, Seen
<1>3. \A q \in Proc : Sound(q)'
  BY <1>1 DEF Sound, Quiet
<1> QED
  BY <1>1, <1>2, <1>3 DEF CommandInv, Alone

\* Every step.
LEMMA CommandInvStep ==
  ASSUME CommandInv, [Next]_vars
  PROVE  CommandInv'
<1>1. StoreIInv'
  BY StoreIStep DEF CommandInv
<1>2. CASE UNCHANGED vars
  <2>1. \A q \in Proc : Keeps(q)' /\ Sound(q)'
    BY <1>2 DEF CommandInv, Keeps, Seen, Sound, Forgetful, Acknowledging, Bag, Findings, ModeOf,
                Lines, vars, store
  <2> QED
    BY <1>1, <1>2, <2>1 DEF CommandInv, Alone, vars
<1>3. CASE Loosen \/ \E place \in Place : Tighten(place)
  <2>1. PICK place \in Place, m \in Mode : ChangeMode(place, m)
    BY <1>3, PrivateAssumption DEF Loosen, Tighten
  <2> QED
    BY <1>1, <2>1, ModesSound DEF CommandInv
<1>4. CASE (\E p \in Proc : WriteFails(p) \/ Crash(p)) \/ PowerCut
  BY <1>1, <1>4, FaultsSound DEF CommandInv
<1>5. ASSUME NEW p \in Proc, StartCommand(p) \/ Step(p)
      PROVE  CommandInv'
  <2>1. CASE WriteStep(p)
    BY <1>1, <2>1, WritesSound DEF CommandInv
  <2>2. CASE ~WriteStep(p)
    BY <1>1, <1>5, <2>2, CommandsSound DEF CommandInv, Step
  <2> QED
    BY <2>1, <2>2
<1> QED
  BY <1>2, <1>3, <1>4, <1>5 DEF Next

\* The invariant.
LEMMA CommandAlways == Spec => []CommandInv
<1>1. ASSUME Init
      PROVE  CommandInv
  <2>1. StoreIInv
    BY <1>1, StoreIInit
  <2>2. \A p \in Proc : proc[p].pc = "idle" /\ job[p] = Done
    BY <1>1, <2>1, IdleProcess DEF Init, StoreIInv, Running
  <2> QED
    BY <2>1, <2>2 DEF CommandInv, Alone, Keeps, Sound, Done
<1>2. CommandInv /\ [Next]_vars => CommandInv'
  BY CommandInvStep
<1> QED
  BY <1>1, <1>2, PTL DEF Spec
-----------------------------------------------------------------------------
(* What the commands promise *)

\* Only a rename changes what is in a file, short of a power cut.
LEMMA OnlyRenames ==
  ASSUME CommandInv, [Next]_vars, ~(faults' > faults), NEW n \in Name, Lines(n)' # Lines(n)
  PROVE  \E p \in Proc : Rename(p) /\ job[p].name = n /\ Lines(n)' = job[p].bytes
                         /\ job[p].bytes # None
<1>1. StoreIInv /\ StoreInv /\ faults \in Nat
  BY BoundsAssumption DEF CommandInv, StoreIInv, TypeOK
<1>2. disk' # disk
  BY DEF Lines
<1>3. ~(\E place \in Place, m \in Mode : ChangeMode(place, m))
  <2>1. SUFFICES ASSUME NEW m \in Mode, NEW x \in Name, ChmodFile(x, m)
                 PROVE  FALSE
    BY <1>2, NameAssumption DEF ChangeMode, store
  <2>2. disk[x] \in WholeFile /\ disk' = [disk EXCEPT ![x] = [disk[x] EXCEPT !.mode = m]]
    BY <1>1, <2>1 DEF ChmodFile, StoreInv, Whole
  <2>3. [disk[x] EXCEPT !.mode = m] \in WholeFile
        /\ [disk[x] EXCEPT !.mode = m].data = disk[x].data
    BY <2>2 DEF WholeFile
  <2>4. disk \in [Name -> WholeFile \cup {None}]
    BY <1>1 DEF StoreInv, Whole
  <2> QED
    BY <2>2, <2>3, <2>4, WholeFiles DEF Lines
<1>4. ~(\E p \in Proc : WriteFails(p) \/ Crash(p)) /\ ~PowerCut
  BY <1>1 DEF WriteFails, Crash, PowerCut
<1>5. PICK p \in Proc : StartCommand(p) \/ Step(p)
  BY <1>2, <1>3, <1>4, PrivateAssumption DEF Next, Loosen, Tighten, vars, store
<1>6. ~Moves(p)
  BY <1>2 DEF Moves, CallBy, Rests, Call, store
<1>7. Write(p)
  BY <1>1, <1>5, <1>6, CommandMoves DEF Step, WriteStep
<1> QED
  BY <1>1, <1>2, <1>7, WriteEffect DEF Lines

\* No command of the key store loses a line that it was not told to forget,
\* whatever fails or dies and whatever the file holds that it cannot parse.
THEOREM StoreKeepsLines == Spec => LineKept
<1>1. ASSUME CommandInv, [Next]_vars,
             NEW n \in {"identities", "recipients"}, NEW l \in Line,
             Lines(n)[l] > 0, Lines(n)'[l] = 0, ~(faults' > faults)
      PROVE  \E p \in Proc :
               /\ Rename(p) /\ job[p].name = n
               /\ \/ proc[p].run.verb = "forget" /\ l = proc[p].run.key
                  \/ Lines(n) # Seen(p)
  <2>1. n \in Name
    BY NameAssumption
  <2>2. Lines(n)' # Lines(n)
    BY <1>1
  <2>3. PICK p \in Proc : Rename(p) /\ job[p].name = n /\ Lines(n)' = job[p].bytes
                          /\ job[p].bytes # None
    BY <1>1, <2>1, <2>2, OnlyRenames
  <2>4. Keeps(p)
    BY <1>1 DEF CommandInv
  <2> QED
    BY <1>1, <2>3, <2>4 DEF Keeps
<1>2. CommandInv /\ [Next]_vars =>
        [\A n \in {"identities", "recipients"}, l \in Line :
           Lines(n)[l] > 0 /\ Lines(n)'[l] = 0 =>
             \/ faults' > faults
             \/ \E p \in Proc :
                  /\ Rename(p) /\ job[p].name = n
                  /\ \/ proc[p].run.verb = "forget" /\ l = proc[p].run.key
                     \/ Lines(n) # Seen(p)]_vars
  BY <1>1
<1> QED
  BY <1>2, CommandAlways, PTL DEF Spec, LineKept

\* A process that ends well ends by itself.
LEMMA EndsWell ==
  ASSUME CommandInv, [Next]_vars, NEW p \in Proc,
         proc[p].pc \in {"next", "last"}, job[p] = Done,
         proc'[p].pc = "idle", faults' = faults
  PROVE  /\ proc[p].run \in Command
         /\ proc[p].pc = "next" =>
              proc[p].run.verb = "forget" /\ proc[p].recs[proc[p].run.key] = 0
<1>1. proc[p].run \in Command /\ proc \in [Proc -> Process] /\ faults \in Nat
  BY BoundsAssumption DEF CommandInv, StoreIInv, Running, TypeOK
<1>2. ASSUME proc[p].pc = "next"
      PROVE  proc[p].run.verb = "forget" /\ proc[p].recs[proc[p].run.key] = 0
  <2>1. proc' # proc
    BY <1>2
  <2>2. ~(\E q \in Proc : WriteFails(q) \/ Crash(q)) /\ ~PowerCut
    BY <1>1 DEF WriteFails, Crash, PowerCut
  <2>3. PICK q \in Proc : StartCommand(q) \/ Step(q)
    BY <2>1, <2>2 DEF Next, Loosen, Tighten, ChangeMode, vars
  <2>4. ~WriteStep(q) /\ Moves(q)
    BY <2>1, <2>3, CommandMoves DEF WriteStep, Step, CommandInv
  <2>5. q = p
    BY <1>1, <1>2, <2>4 DEF Moves, Become
  <2>6. ForgetNext(p)
    BY <1>2, <2>3, <2>4, <2>5 DEF Step, StartCommand, Begin, Acknowledge, Import, AppendRecipient,
       ForgetReadPrivate, Forget, Finish, Reading
  <2>7. proc[p] \in Process
    BY <1>1
  <2>8. [proc[p] EXCEPT !.pc = "last"].pc = "last"
    BY <2>7 DEF Process
  <2> QED
    BY <1>1, <2>6, <2>8 DEF ForgetNext, Reading, Become
<1> QED
  BY <1>1, <1>2

\* A forget that succeeds alone leaves the key in neither store.
THEOREM ForgetRemoves == Spec => ForgetForgets
<1>1. ASSUME CommandInv, [Next]_vars, NEW p \in Proc, Succeeds(p, "forget"), ~Overlap
      PROVE  ~Stored(proc[p].run.key)
  <2>1. proc[p].run.verb = "forget" /\ proc[p].pc \in {"next", "last"} /\ job[p] = Done
        /\ proc'[p].pc = "idle" /\ faults' = faults
    BY <1>1 DEF Succeeds
  <2>2. Forgetful(p)
    BY <1>1, <2>1 DEF CommandInv, Sound
  <2>3. job[p].bytes = None
    BY <2>1 DEF Done
  <2>4. proc[p].pc = "next" => proc[p].recs[proc[p].run.key] = 0
    BY <1>1, <2>1, EndsWell
  <2> QED
    BY <2>1, <2>2, <2>3, <2>4 DEF Forgetful, Stored
<1>2. CommandInv /\ [Next]_vars =>
        [\A p \in Proc : Succeeds(p, "forget") => Overlap \/ ~Stored(proc[p].run.key)]_vars
  BY <1>1
<1> QED
  BY <1>2, CommandAlways, PTL DEF Spec, ForgetForgets

\* After a trust-permissions that succeeds alone, commands pass the gate.
THEOREM AcknowledgmentPasses == Spec => AcknowledgeUnblocks
<1>1. ASSUME CommandInv, [Next]_vars, NEW p \in Proc, Succeeds(p, "trust-permissions"), ~Overlap
      PROVE  GateOpen(FALSE)
  <2>1. proc[p].run.verb = "trust-permissions" /\ proc[p].pc \in {"next", "last"} /\ job[p] = Done
        /\ proc'[p].pc = "idle" /\ faults' = faults
    BY <1>1 DEF Succeeds
  <2>2. Acknowledging(p)
    BY <1>1, <2>1 DEF CommandInv, Sound
  <2>3. proc[p].pc = "last" /\ job[p].bytes = None
    BY <2>1, <2>2 DEF Acknowledging, Done
  <2>4. Lines("ack") = Bag
    BY <2>2, <2>3 DEF Acknowledging
  <2>5. Findings \subseteq Line /\ Junk \in Line /\ Junk \notin Findings
    BY JunkAssumption DEF Findings, Line
  <2> QED
    BY <2>4, <2>5 DEF GateOpen, Bag
<1>2. CommandInv /\ [Next]_vars =>
        [\A p \in Proc : Succeeds(p, "trust-permissions") => Overlap \/ GateOpen(FALSE)]_vars
  BY <1>1
<1> QED
  BY <1>2, CommandAlways, PTL DEF Spec, AcknowledgeUnblocks
=============================================================================
