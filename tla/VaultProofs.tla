---------------------------- MODULE VaultProofs ----------------------------
(***************************************************************************)
(* Type correctness of Vault, for any number of processes, with users and  *)
(* git acting at any moment.                                               *)
(***************************************************************************)
EXTENDS Vault, TLAPS

\* What the local variables of a process hold where a later step uses them.
Local(l) ==
  /\ l.pc \in {"read", "write", "gate", "match", "load", "orphans", "scan", "decrypt", "rotate"} =>
       l.ring \in Ring /\ \A f \in File : l.ready[f] \in Cipher \cup {None}
  /\ l.pc \in {"entry", "open", "restore"} =>
       \A f \in File : l.ready[f] \in Secret \cup {None}
  /\ l.pc = "entry" => l.ready = Nothing
  /\ l.pc \in {"append", "record", "grant"} => l.at \in File
  /\ l.pc = "stamp" => l.ring \in Ring
  /\ l.pc \in {"add", "append"} => l.run.verb = "add-file"
  /\ l.pc = "allow" => l.run.verb = "allow"
  /\ l.pc \in {"record", "grant"} => l.run.verb \in {"add-file", "allow"}

TypeInv == TypeOK /\ \A p \in Proc : Local(proc[p])
-----------------------------------------------------------------------------
(***************************************************************************)
(* Records and loops.                                                      *)
(***************************************************************************)

\* The idle process is well-typed.
LEMMA IdleOK == Idle \in Process /\ Local(Idle)
  <1>1. Nothing \in [File -> Cipher \cup Secret \cup {None}]
    BY DEF Nothing
  <1> QED
    BY <1>1 DEF Idle, Process, PC, Local

\* What stays of a process that goes through a file of its loop.
LEMMA LoopKeeps ==
  ASSUME NEW l \in Process, NEW f, NEW next \in PC
  PROVE  LET n == Loop(l, f, next)
         IN  /\ n \in Process
             /\ n.pc \in {l.pc, next} /\ n.ready = l.ready /\ n.ring = l.ring
             /\ n.run = l.run /\ n.failed = l.failed /\ n.list = l.list /\ n.at = l.at
             /\ \/ n.pc = l.pc /\ n.todo = l.todo \ {f}
                \/ n.pc = next /\ n.todo = Prepared(l) /\ l.todo \ {f} = {}
  <1>1. Prepared(l) \subseteq File
    BY DEF Prepared
  <1>2. CASE l.todo \ {f} = {}
    <2>1. Loop(l, f, next) = [l EXCEPT !.pc = next, !.todo = Prepared(l)]
      BY <1>2 DEF Loop
    <2> QED
      BY <1>1, <1>2, <2>1 DEF Process
  <1>3. CASE l.todo \ {f} # {}
    <2>1. Loop(l, f, next) = [l EXCEPT !.todo = l.todo \ {f}]
      BY <1>3 DEF Loop
    <2> QED
      BY <1>3, <2>1 DEF Process
  <1> QED
    BY <1>2, <1>3

\* A process that becomes a well-typed one leaves the others alone.
LEMMA BecomeOK ==
  ASSUME TypeInv, NEW p \in Proc, NEW l \in Process, Local(l), Become(p, l)
  PROVE  proc' \in [Proc -> Process] /\ \A q \in Proc : Local(proc'[q])
  BY DEF TypeInv, TypeOK, Become

\* The members of a ring are keys.
LEMMA MembersAreKeys ==
  ASSUME NEW r \in Ring
  PROVE  Members(r) \subseteq Key
  BY DEF Ring, Members

\* What is encrypted to a ring is a ciphertext.
LEMMA EncryptOK ==
  ASSUME NEW r \in Ring, NEW c \in Secret
  PROVE  EncryptTo(Members(r), c) \in Cipher
  BY MembersAreKeys DEF EncryptTo, Cipher
-----------------------------------------------------------------------------
(***************************************************************************)
(* Type correctness, command by command.                                   *)
(***************************************************************************)

\* A loop over files that stays well-typed.
LEMMA LoopOK ==
  ASSUME NEW l \in Process, Local(l), NEW f,
         NEW next \in {"write", "delete", "restore", "rotate", "clear", "idle"},
         next = "write" => l.pc = "read",
         next = "restore" => l.pc = "open",
         next = "rotate" => l.pc = "decrypt"
  PROVE  Loop(l, f, next) \in Process /\ Local(Loop(l, f, next))
  <1>1. next \in PC
    BY DEF PC
  <1> QED
    BY <1>1, LoopKeeps DEF Local

\* What follows a write of phase 2 is well-typed.
LEMMA AfterWritesOK ==
  ASSUME NEW l \in Process, Local(l), NEW f, NEW next \in {"delete", "clear", "idle"}
  PROVE  AfterWrites(l, f, next) \in Process /\ Local(AfterWrites(l, f, next))
  BY LoopOK, IdleOK DEF AfterWrites

\* A failed write is no threat to the types.
LEMMA WriteFailsOK ==
  ASSUME TypeInv, NEW p \in Proc, NEW f, proc[p].pc \in {"write", "restore", "rotate"},
         WriteFails(p, f)
  PROVE  /\ proc' \in [Proc -> Process] /\ \A q \in Proc : Local(proc'[q])
         /\ faults' \in 0 .. MaxFaults
  <1> DEFINE l == [proc[p] EXCEPT !.failed = TRUE]
             n == Loop(l, f, "idle")
             e == IF n.pc = "idle" THEN Idle ELSE n
  <1> DEFINE me == proc[p]
  <1>0. me \in Process /\ Local(me)
    BY DEF TypeInv, TypeOK
  <1> HIDE DEF me
  <1>1. l \in Process /\ Local(l)
    <2>1. l = [me EXCEPT !.failed = TRUE]
      BY DEF me
    <2>2. l \in Process /\ l.pc = me.pc /\ l.ring = me.ring /\ l.ready = me.ready
          /\ l.at = me.at /\ l.run = me.run
      BY <1>0, <2>1 DEF Process
    <2> QED
      BY <1>0, <2>2 DEF Local
  <1>2. n \in Process /\ Local(n)
    BY <1>1, LoopOK
  <1>3. e \in Process /\ Local(e)
    BY <1>2, IdleOK
  <1>4. Become(p, e)
    BY DEF WriteFails
  <1>5. faults' \in 0 .. MaxFaults
    BY BoundsAssumption DEF WriteFails, TypeInv, TypeOK
  <1> HIDE DEF e
  <1> QED
    BY <1>3, <1>4, <1>5, BecomeOK

\* All that TypeOK says but for the processes.
FilesOK ==
  /\ ring \in Ring /\ stamp \in Ring \cup {None}
  /\ tracked \subseteq File
  /\ plain \in [File -> Secret \cup {None}]
  /\ cipher \in [File -> Cipher \cup {None}] /\ index \in [File -> Cipher \cup {None}]
  /\ exposed \subseteq File /\ consent \subseteq File
  /\ ignored \subseteq File
  /\ faults \in 0 .. MaxFaults

\* A step of p that leaves the files well-typed.
LEMMA StepOK ==
  ASSUME TypeInv, NEW p \in Proc, NEW l \in Process, Local(l), Become(p, l), FilesOK'
  PROVE  TypeInv'
  BY BecomeOK DEF TypeInv, TypeOK, FilesOK

\* A step of p that changes no file at all.
LEMMA QuietStepOK ==
  ASSUME TypeInv, NEW p \in Proc, NEW l \in Process, Local(l), Become(p, l),
         UNCHANGED <<ring, stamp, files, git, faults>>
  PROVE  TypeInv'
  <1>1. FilesOK'
    BY DEF TypeInv, TypeOK, FilesOK, files, git
  <1> QED
    BY <1>1, StepOK

\* A step of p that ends its command and changes no file.
LEMMA ExitOK ==
  ASSUME TypeInv, NEW p \in Proc, Exit(p), UNCHANGED <<ring, stamp, files, git, faults>>
  PROVE  TypeInv'
  <1>1. Become(p, Idle)
    BY DEF Exit
  <1> QED
    BY <1>1, IdleOK, QuietStepOK

\* The local variables of a process in a typed state.
LEMMA MeOK ==
  ASSUME TypeInv, NEW p \in Proc
  PROVE  proc[p] \in Process /\ Local(proc[p]) /\ FilesOK
  BY DEF TypeInv, TypeOK, FilesOK

\* Phase 1 puts an output of the right type into its slot.
LEMMA ReadyOK ==
  ASSUME NEW l \in Process, Local(l), NEW f \in File,
         NEW o, \/ l.pc \in {"read", "decrypt"} /\ o \in Cipher
                \/ l.pc = "open" /\ o \in Secret
  PROVE  LET n == [l EXCEPT !.ready[f] = o]
         IN  /\ n \in Process /\ Local(n)
             /\ n.pc = l.pc /\ n.ring = l.ring /\ n.todo = l.todo /\ n.run = l.run
             /\ n.failed = l.failed /\ n.ready = [l.ready EXCEPT ![f] = o]
  <1> DEFINE n == [l EXCEPT !.ready[f] = o]
  <1>1. l.ready \in [File -> Cipher \cup Secret \cup {None}]
    BY DEF Process
  <1>2. /\ n \in Process
        /\ n.pc = l.pc /\ n.ring = l.ring /\ n.todo = l.todo /\ n.run = l.run
        /\ n.failed = l.failed /\ n.ready = [l.ready EXCEPT ![f] = o]
    BY <1>1 DEF Process
  <1>3. \A g \in File : n.ready[g] = IF g = f THEN o ELSE l.ready[g]
    BY <1>1, <1>2
  <1>4. Local(n)
    BY <1>2, <1>3 DEF Local
  <1> QED
    BY <1>2, <1>4

\* The steps of hide keep the types.
LEMMA HideTypes ==
  ASSUME TypeInv, NEW p \in Proc,
         HideStart(p) \/ HideRead(p) \/ HideWrite(p) \/ HideDelete(p)
  PROVE  TypeInv'
  <1> DEFINE me == proc[p]
  <1>0. me \in Process /\ Local(me) /\ FilesOK
    BY MeOK
  <1>1. ASSUME HideStart(p) PROVE TypeInv'
    <2>1. PICK run \in CommandLines :
            /\ HideGates(run.files)
            /\ Start(p, [Idle EXCEPT !.pc = "read", !.run = run, !.ring = ring, !.todo = run.files])
      BY <1>1 DEF HideStart
    <2> DEFINE l == [Idle EXCEPT !.pc = "read", !.run = run, !.ring = ring, !.todo = run.files]
    <2>2. run \in Command /\ run.files \subseteq File /\ ring \in Ring
      BY <2>1, <1>0, CommandLinesAssumption DEF HideGates, FilesOK
    <2>3. Idle.ready = Nothing
      BY DEF Idle
    <2>4. l \in Process /\ l.pc = "read" /\ l.ring = ring /\ l.ready = Nothing
      BY <2>2, <2>3, IdleOK DEF Process, PC
    <2>5. Local(l)
      BY <2>2, <2>4 DEF Local, Nothing
    <2>6. Become(p, l)
      BY <2>1 DEF Start, Become
    <2>7. UNCHANGED <<ring, stamp, files, git, faults>>
      BY <1>1 DEF HideStart
    <2> HIDE DEF l
    <2> QED
      BY <2>4, <2>5, <2>6, <2>7, QuietStepOK
  <1>2. ASSUME HideRead(p) PROVE TypeInv'
    <2>1. UNCHANGED <<ring, stamp, files, git, faults>> /\ me.pc = "read"
      BY <1>2 DEF HideRead
    <2>2. PICK f \in me.todo :
            IF plain[f] = None THEN Exit(p)
            ELSE Become(p, Loop([me EXCEPT !.ready[f] =
                                   EncryptTo(Members(me.ring), plain[f])], f, "write"))
      BY <1>2 DEF HideRead
    <2>3. f \in File
      BY <1>0 DEF Process
    <2>4. CASE plain[f] # None
      <3> DEFINE o == EncryptTo(Members(me.ring), plain[f])
                 n == [me EXCEPT !.ready[f] = o]
                 l == Loop(n, f, "write")
      <3>1. o \in Cipher
        BY <2>1, <2>3, <2>4, <1>0, EncryptOK DEF Local, FilesOK
      <3> HIDE DEF o
      <3>2. n \in Process /\ Local(n) /\ n.pc = "read"
        BY <3>1, <2>1, <2>3, <1>0, ReadyOK
      <3>3. Become(p, l)
        BY <2>2, <2>4 DEF o
      <3> HIDE DEF n
      <3>4. l \in Process /\ Local(l)
        BY <3>2, LoopOK
      <3> HIDE DEF l
      <3> QED
        BY <3>3, <3>4, <2>1, QuietStepOK
    <2> QED
      BY <2>1, <2>2, <2>4, ExitOK
  <1>3. ASSUME HideWrite(p) PROVE TypeInv'
    <2>1. /\ me.pc = "write"
          /\ UNCHANGED <<ring, stamp, git, tracked, plain, consent, ignored>>
      BY <1>3 DEF HideWrite
    <2> DEFINE next == IF me.run.keep THEN "idle" ELSE "delete"
    <2>2. PICK f \in me.todo :
            \/ /\ cipher' = [cipher EXCEPT ![f] = me.ready[f]]
               /\ Become(p, AfterWrites(me, f, next))
               /\ UNCHANGED faults
            \/ WriteFails(p, f) /\ UNCHANGED cipher
      BY <1>3 DEF HideWrite
    <2>3. f \in File
      BY <1>0 DEF Process
    <2>4. ASSUME WriteFails(p, f), UNCHANGED cipher PROVE TypeInv'
      BY <2>1, <2>4, <1>0, WriteFailsOK DEF TypeInv, TypeOK, FilesOK, git
    <2>5. ASSUME cipher' = [cipher EXCEPT ![f] = me.ready[f]],
                 Become(p, AfterWrites(me, f, next)), UNCHANGED faults
          PROVE  TypeInv'
      <3> DEFINE l == AfterWrites(me, f, next)
      <3>1. next \in {"delete", "clear", "idle"}
        OBVIOUS
      <3> HIDE DEF next
      <3>2. l \in Process /\ Local(l)
        BY <3>1, <1>0, AfterWritesOK
      <3>3. me.ready[f] \in Cipher \cup {None}
        BY <2>1, <2>3, <1>0 DEF Local
      <3>4. FilesOK'
        BY <3>3, <2>1, <2>5, <1>0 DEF FilesOK, git
      <3> HIDE DEF l
      <3> QED
        BY <3>2, <3>4, <2>5, StepOK DEF l
    <2> QED
      BY <2>2, <2>4, <2>5
  <1>4. ASSUME HideDelete(p) PROVE TypeInv'
    <2>1. UNCHANGED <<ring, stamp, git, tracked, cipher, consent, ignored, faults>>
      BY <1>4 DEF HideDelete
    <2>2. PICK f \in me.todo :
            /\ plain' = [plain EXCEPT ![f] = None]
            /\ IF plain[f] = None THEN Exit(p) ELSE Become(p, AfterWrites(me, f, "idle"))
      BY <1>4 DEF HideDelete
    <2>3. FilesOK'
      BY <2>1, <2>2, <1>0 DEF FilesOK, git
    <2> DEFINE l == AfterWrites(me, f, "idle")
    <2>4. l \in Process /\ Local(l)
      BY <1>0, AfterWritesOK
    <2>5. Become(p, Idle) \/ Become(p, l)
      BY <2>2 DEF Exit
    <2> HIDE DEF l
    <2> QED
      BY <2>3, <2>4, <2>5, IdleOK, StepOK
  <1> QED
    BY <1>1, <1>2, <1>3, <1>4

\* The steps of reveal keep the types.
LEMMA RevealTypes ==
  ASSUME TypeInv, NEW p \in Proc,
         RevealStart(p) \/ RevealEntry(p) \/ RevealRead(p) \/ RevealWrite(p)
  PROVE  TypeInv'
  <1> DEFINE me == proc[p]
  <1>0. me \in Process /\ Local(me) /\ FilesOK
    BY MeOK
  <1>1. ASSUME RevealStart(p) PROVE TypeInv'
    <2>1. PICK run \in CommandLines : Start(p, [Idle EXCEPT !.pc = "entry", !.run = run])
      BY <1>1 DEF RevealStart
    <2> DEFINE l == [Idle EXCEPT !.pc = "entry", !.run = run]
    <2>2. run \in Command
      BY CommandLinesAssumption
    <2>3. Idle.ready = Nothing
      BY DEF Idle
    <2>4. l \in Process /\ l.pc = "entry" /\ l.ready = Nothing
      BY <2>2, <2>3, IdleOK DEF Process, PC
    <2>5. Local(l)
      BY <2>4 DEF Local, Nothing
    <2>6. Become(p, l)
      BY <2>1 DEF Start, Become
    <2>7. UNCHANGED <<ring, stamp, files, git, faults>>
      BY <1>1 DEF RevealStart
    <2> HIDE DEF l
    <2> QED
      BY <2>4, <2>5, <2>6, <2>7, QuietStepOK
  <1>2. ASSUME RevealEntry(p) PROVE TypeInv'
    <2> DEFINE l == [me EXCEPT !.pc = "open", !.ring = ring, !.todo = me.run.files]
    <2>1. UNCHANGED <<ring, stamp, files, git, faults>> /\ me.pc = "entry"
      BY <1>2 DEF RevealEntry
    <2>2. \/ Exit(p)
          \/ Become(p, l) /\ me.run.files \subseteq tracked
      BY <1>2 DEF RevealEntry
    <2>3. ASSUME Become(p, l), me.run.files \subseteq tracked PROVE TypeInv'
      <3>1. me.run.files \subseteq File /\ ring \in Ring
        BY <2>3, <1>0 DEF FilesOK
      <3>2. l \in Process /\ l.pc = "open" /\ l.ready = me.ready
        BY <3>1, <1>0 DEF Process, PC
      <3>3. Local(l)
        BY <3>2, <2>1, <1>0 DEF Local
      <3> HIDE DEF l
      <3> QED
        BY <2>1, <2>3, <3>2, <3>3, QuietStepOK
    <2> QED
      BY <2>1, <2>2, <2>3, ExitOK
  <1>3. ASSUME RevealRead(p) PROVE TypeInv'
    <2>1. UNCHANGED <<ring, stamp, files, git, faults>> /\ me.pc = "open"
      BY <1>3 DEF RevealRead
    <2>2. PICK f \in me.todo :
            IF f \notin exposed /\ cipher[f] # None /\ OpensWith(cipher[f], {EntryKey(me)})
              THEN Become(p, Loop([me EXCEPT !.ready[f] = cipher[f].content], f, "restore"))
              ELSE Exit(p)
      BY <1>3 DEF RevealRead
    <2>3. f \in File
      BY <1>0 DEF Process
    <2>4. ASSUME cipher[f] # None,
                 Become(p, Loop([me EXCEPT !.ready[f] = cipher[f].content], f, "restore"))
          PROVE  TypeInv'
      <3> DEFINE o == cipher[f].content
                 n == [me EXCEPT !.ready[f] = o]
                 l == Loop(n, f, "restore")
      <3>1. o \in Secret
        BY <2>3, <2>4, <1>0 DEF FilesOK, Cipher
      <3>2. Become(p, l)
        BY <2>4
      <3> HIDE DEF o
      <3>3. n \in Process /\ Local(n) /\ n.pc = "open"
        BY <3>1, <2>1, <2>3, <1>0, ReadyOK
      <3> HIDE DEF n
      <3>4. l \in Process /\ Local(l)
        BY <3>3, LoopOK
      <3> HIDE DEF l
      <3> QED
        BY <3>2, <3>4, <2>1, QuietStepOK
    <2> QED
      BY <2>1, <2>2, <2>4, ExitOK
  <1>4. ASSUME RevealWrite(p) PROVE TypeInv'
    <2>1. /\ me.pc = "restore"
          /\ UNCHANGED <<ring, stamp, git, tracked, cipher, consent, ignored>>
      BY <1>4 DEF RevealWrite
    <2>2. PICK f \in me.todo :
            \/ /\ plain' = [plain EXCEPT ![f] = me.ready[f]]
               /\ Become(p, AfterWrites(me, f, "idle"))
               /\ UNCHANGED faults
            \/ WriteFails(p, f) /\ UNCHANGED plain
      BY <1>4 DEF RevealWrite
    <2>3. f \in File
      BY <1>0 DEF Process
    <2>4. ASSUME WriteFails(p, f), UNCHANGED plain PROVE TypeInv'
      BY <2>1, <2>4, <1>0, WriteFailsOK DEF TypeInv, TypeOK, FilesOK, git
    <2>5. ASSUME plain' = [plain EXCEPT ![f] = me.ready[f]],
                 Become(p, AfterWrites(me, f, "idle")), UNCHANGED faults
          PROVE  TypeInv'
      <3> DEFINE l == AfterWrites(me, f, "idle")
      <3>1. l \in Process /\ Local(l)
        BY <1>0, AfterWritesOK
      <3>2. me.ready[f] \in Secret \cup {None}
        BY <2>1, <2>3, <1>0 DEF Local
      <3>3. FilesOK'
        BY <3>2, <2>1, <2>5, <1>0 DEF FilesOK, git
      <3> HIDE DEF l
      <3> QED
        BY <3>1, <3>3, <2>5, StepOK DEF l
    <2> QED
      BY <2>2, <2>4, <2>5
  <1> QED
    BY <1>1, <1>2, <1>3, <1>4

\* The steps of a ring change keep the types.
LEMMA RingTypes ==
  ASSUME TypeInv, NEW p \in Proc, RingWrite(p) \/ RingStamp(p) \/ RingPurge(p)
  PROVE  TypeInv'
  <1> DEFINE me == proc[p]
  <1>0. me \in Process /\ Local(me) /\ FilesOK
    BY MeOK
  <1>1. ASSUME RingWrite(p) PROVE TypeInv'
    <2>1. ring.version < MaxVersion /\ UNCHANGED <<stamp, files, git, faults>>
      BY <1>1 DEF RingWrite
    <2>2. PICK run \in CommandLines :
            /\ run.verb \in {"add-key", "remove-key"}
            /\ ring' = Changed(ring, run)
            /\ Start(p, [Idle EXCEPT !.pc = "stamp", !.run = run, !.ring = Changed(ring, run)])
      BY <1>1 DEF RingWrite
    <2> DEFINE l == [Idle EXCEPT !.pc = "stamp", !.run = run, !.ring = ring']
    <2>3. run \in Command /\ (run.verb = "add-key" => run.key \in Key)
      BY <2>2, CommandLinesAssumption DEF Command
    <2>4. ring' \in Ring
      <3> DEFINE v == IF run.verb = "add-key" THEN run.key ELSE None
                 who == run.who
      <3>1. v \in Key \cup {None}
        BY <2>3
      <3>2. ring' = [version |-> ring.version + 1, member |-> [ring.member EXCEPT ![who] = v]]
        BY <2>2 DEF Changed
      <3>3. ring.version + 1 \in 0 .. MaxVersion
        BY <2>1, <1>0, BoundsAssumption DEF FilesOK, Ring
      <3> HIDE DEF v, who
      <3>4. [ring.member EXCEPT ![who] = v] \in [Principal -> Key \cup {None}]
        BY <3>1, <1>0 DEF FilesOK, Ring
      <3> QED
        BY <3>2, <3>3, <3>4 DEF Ring
    <2>5. l \in Process /\ l.pc = "stamp" /\ l.ring = ring'
      BY <2>3, <2>4, IdleOK DEF Process, PC
    <2>6. Local(l)
      BY <2>4, <2>5 DEF Local
    <2>7. Become(p, l)
      BY <2>2 DEF Start, Become
    <2>8. FilesOK'
      BY <2>1, <2>4, <1>0 DEF FilesOK, files, git
    <2> HIDE DEF l
    <2> QED
      BY <2>5, <2>6, <2>7, <2>8, StepOK
  <1>2. ASSUME RingStamp(p) PROVE TypeInv'
    <2> DEFINE l == [me EXCEPT !.pc = "purge"]
    <2>1. stamp' = me.ring /\ UNCHANGED <<ring, files, git, faults>>
      BY <1>2 DEF RingStamp
    <2>2. Become(p, Idle) \/ Become(p, l)
      BY <1>2 DEF RingStamp, Exit
    <2>3. FilesOK'
      BY <2>1, <1>0 DEF FilesOK, files, git, Process
    <2>4. l \in Process /\ l.pc = "purge"
      BY <1>0 DEF Process, PC
    <2>5. Local(l)
      BY <2>4 DEF Local
    <2> HIDE DEF l
    <2> QED
      BY <2>2, <2>3, <2>4, <2>5, IdleOK, StepOK
  <1>3. ASSUME RingPurge(p) PROVE TypeInv'
    <2>1. /\ consent' \in {{}, consent} /\ Become(p, Idle)
          /\ UNCHANGED <<ring, stamp, git, tracked, plain, cipher, ignored, faults>>
      BY <1>3 DEF RingPurge, Exit
    <2>2. FilesOK'
      BY <2>1, <1>0 DEF FilesOK, git
    <2> QED
      BY <2>1, <2>2, IdleOK, StepOK
  <1> QED
    BY <1>1, <1>2, <1>3

\* The steps of rotate keep the types.
LEMMA RotateTypes ==
  ASSUME TypeInv, NEW p \in Proc,
         \/ RotateStart(p) \/ RotateGate(p) \/ RotateMatch(p) \/ RotateLoad(p)
         \/ RotateOrphans(p) \/ RotateScan(p)
         \/ RotateRead(p) \/ RotateWrite(p) \/ RotateClear(p)
  PROVE  TypeInv'
  <1> DEFINE me == proc[p]
  <1>0. me \in Process /\ Local(me) /\ FilesOK
    BY MeOK
  <1>1. ASSUME RotateStart(p) PROVE TypeInv'
    <2>1. PICK run \in CommandLines :
            Start(p, [Idle EXCEPT !.pc = "gate", !.run = run, !.ring = ring])
      BY <1>1 DEF RotateStart
    <2> DEFINE l == [Idle EXCEPT !.pc = "gate", !.run = run, !.ring = ring]
    <2>2. run \in Command /\ ring \in Ring
      BY <1>0, CommandLinesAssumption DEF FilesOK
    <2>3. Idle.ready = Nothing
      BY DEF Idle
    <2>4. l \in Process /\ l.pc = "gate" /\ l.ring = ring /\ l.ready = Nothing
      BY <2>2, <2>3, IdleOK DEF Process, PC
    <2>5. Local(l)
      BY <2>2, <2>4 DEF Local, Nothing
    <2>6. Become(p, l)
      BY <2>1 DEF Start, Become
    <2>7. UNCHANGED <<ring, stamp, files, git, faults>>
      BY <1>1 DEF RotateStart
    <2> HIDE DEF l
    <2> QED
      BY <2>4, <2>5, <2>6, <2>7, QuietStepOK
  <1>2. ASSUME NEW l \in Process, l.ring = me.ring, l.ready = me.ready,
               me.pc \in {"gate", "match", "load", "orphans", "scan"},
               l.pc \in {"match", "load", "orphans", "scan", "decrypt", "clear"},
               UNCHANGED <<ring, stamp, files, git, faults>>,
               Exit(p) \/ Become(p, l)
        PROVE  TypeInv'
    <2>1. Local(l)
      BY <1>0, <1>2 DEF Local
    <2> QED
      BY <2>1, <1>2, ExitOK, QuietStepOK
  <1>3. ASSUME RotateGate(p) PROVE TypeInv'
    <2> DEFINE l == [me EXCEPT !.pc = "match", !.due = stamp]
    <2>1. Exit(p) \/ (stamp # None /\ Become(p, l))
      BY <1>3 DEF RotateGate
    <2>2. stamp # None => l \in Process /\ l.pc = "match" /\ l.ring = me.ring /\ l.ready = me.ready
      BY <1>0 DEF Process, PC, FilesOK
    <2>3. me.pc = "gate" /\ UNCHANGED <<ring, stamp, files, git, faults>>
      BY <1>3 DEF RotateGate
    <2> HIDE DEF l
    <2> QED
      BY <2>1, <2>2, <2>3, <1>2, ExitOK
  <1>4. ASSUME RotateMatch(p) PROVE TypeInv'
    <2> DEFINE l == [me EXCEPT !.pc = "load", !.due = None]
    <2>1. /\ me.pc = "match"
          /\ Exit(p) \/ Become(p, l)
          /\ UNCHANGED <<ring, stamp, files, git, faults>>
      BY <1>4 DEF RotateMatch
    <2>2. l \in Process /\ l.pc = "load" /\ l.ring = me.ring /\ l.ready = me.ready
      BY <1>0 DEF Process, PC
    <2> HIDE DEF l
    <2> QED
      BY <2>1, <2>2, <1>2
  <1>5. ASSUME RotateLoad(p) PROVE TypeInv'
    <2> DEFINE l == [me EXCEPT !.pc = "orphans", !.list = tracked]
    <2>1. /\ me.pc = "load" /\ Become(p, l)
          /\ UNCHANGED <<ring, stamp, files, git, faults>>
      BY <1>5 DEF RotateLoad
    <2>2. l \in Process /\ l.pc = "orphans" /\ l.ring = me.ring /\ l.ready = me.ready
      BY <1>0 DEF Process, PC, FilesOK
    <2> HIDE DEF l
    <2> QED
      BY <2>1, <2>2, <1>2
  <1>6. ASSUME RotateOrphans(p) PROVE TypeInv'
    <2> DEFINE pc == IF me.list = {} THEN "clear" ELSE "scan"
               l == [me EXCEPT !.pc = pc, !.todo = me.list]
    <2>1. /\ me.pc = "orphans"
          /\ Exit(p) \/ Become(p, l)
          /\ UNCHANGED <<ring, stamp, files, git, faults>>
      BY <1>6 DEF RotateOrphans
    <2>2. pc \in {"clear", "scan"}
      OBVIOUS
    <2> HIDE DEF pc
    <2>3. l \in Process /\ l.pc = pc /\ l.ring = me.ring /\ l.ready = me.ready
      BY <2>2, <1>0 DEF Process, PC
    <2> HIDE DEF l
    <2> QED
      BY <2>1, <2>2, <2>3, <1>2
  <1>7. ASSUME RotateScan(p) PROVE TypeInv'
    <2>1. me.pc = "scan" /\ UNCHANGED <<ring, stamp, files, git, faults>>
      BY <1>7 DEF RotateScan
    <2> DEFINE rest(f) == me.todo \ {f}
               scoped(f) == IF OnDisk(f) THEN me.list ELSE me.list \ {f}
               pc(f) == IF scoped(f) = {} THEN "clear" ELSE "decrypt"
               on(f) == [me EXCEPT !.todo = rest(f), !.list = scoped(f)]
               done(f) == [me EXCEPT !.todo = scoped(f), !.list = {}, !.pc = pc(f)]
    <2>2. PICK f \in me.todo : Become(p, on(f)) \/ Become(p, done(f))
      BY <1>7 DEF RotateScan
    <2>3. rest(f) \subseteq File /\ scoped(f) \subseteq File /\ pc(f) \in {"clear", "decrypt"}
      BY <1>0 DEF Process
    <2> HIDE DEF rest, scoped, pc
    <2>4. on(f) \in Process /\ on(f).pc = "scan" /\ on(f).ring = me.ring /\ on(f).ready = me.ready
      BY <2>1, <2>3, <1>0 DEF Process
    <2>5. /\ done(f) \in Process /\ done(f).pc = pc(f)
          /\ done(f).ring = me.ring /\ done(f).ready = me.ready
      BY <2>3, <1>0 DEF Process, PC
    <2> HIDE DEF on, done
    <2> QED
      BY <2>1, <2>2, <2>3, <2>4, <2>5, <1>2
  <1>8. ASSUME RotateRead(p) PROVE TypeInv'
    <2>1. UNCHANGED <<ring, stamp, files, git, faults>> /\ me.pc = "decrypt"
      BY <1>8 DEF RotateRead
    <2>2. PICK f \in me.todo :
            IF cipher[f] # None /\ OpensWith(cipher[f], Held)
              THEN Become(p, Loop([me EXCEPT !.ready[f] =
                     EncryptTo(Members(me.ring), cipher[f].content)], f, "rotate"))
              ELSE Exit(p)
      BY <1>8 DEF RotateRead
    <2>3. f \in File
      BY <1>0 DEF Process
    <2>4. ASSUME cipher[f] # None,
                 Become(p, Loop([me EXCEPT !.ready[f] =
                   EncryptTo(Members(me.ring), cipher[f].content)], f, "rotate"))
          PROVE  TypeInv'
      <3> DEFINE o == EncryptTo(Members(me.ring), cipher[f].content)
                 n == [me EXCEPT !.ready[f] = o]
                 l == Loop(n, f, "rotate")
      <3>1. cipher[f].content \in Secret
        BY <2>3, <2>4, <1>0 DEF FilesOK, Cipher
      <3>2. o \in Cipher
        BY <3>1, <2>1, <1>0, EncryptOK DEF Local
      <3>3. Become(p, l)
        BY <2>4
      <3> HIDE DEF o
      <3>4. n \in Process /\ Local(n) /\ n.pc = "decrypt"
        BY <3>2, <2>1, <2>3, <1>0, ReadyOK
      <3> HIDE DEF n
      <3>5. l \in Process /\ Local(l)
        BY <3>4, LoopOK
      <3> HIDE DEF l
      <3> QED
        BY <3>3, <3>5, <2>1, QuietStepOK
    <2> QED
      BY <2>1, <2>2, <2>4, ExitOK
  <1>9. ASSUME RotateWrite(p) PROVE TypeInv'
    <2>1. /\ me.pc = "rotate"
          /\ UNCHANGED <<ring, stamp, git, tracked, plain, consent, ignored>>
      BY <1>9 DEF RotateWrite
    <2>2. PICK f \in me.todo :
            \/ /\ cipher' = [cipher EXCEPT ![f] = me.ready[f]]
               /\ Become(p, AfterWrites(me, f, "clear"))
               /\ UNCHANGED faults
            \/ WriteFails(p, f) /\ UNCHANGED cipher
      BY <1>9 DEF RotateWrite
    <2>3. f \in File
      BY <1>0 DEF Process
    <2>4. ASSUME WriteFails(p, f), UNCHANGED cipher PROVE TypeInv'
      BY <2>1, <2>4, <1>0, WriteFailsOK DEF TypeInv, TypeOK, FilesOK, git
    <2>5. ASSUME cipher' = [cipher EXCEPT ![f] = me.ready[f]],
                 Become(p, AfterWrites(me, f, "clear")), UNCHANGED faults
          PROVE  TypeInv'
      <3> DEFINE l == AfterWrites(me, f, "clear")
      <3>1. l \in Process /\ Local(l)
        BY <1>0, AfterWritesOK
      <3>2. me.ready[f] \in Cipher \cup {None}
        BY <2>1, <2>3, <1>0 DEF Local
      <3>3. FilesOK'
        BY <3>2, <2>1, <2>5, <1>0 DEF FilesOK, git
      <3> HIDE DEF l
      <3> QED
        BY <3>1, <3>3, <2>5, StepOK DEF l
    <2> QED
      BY <2>2, <2>4, <2>5
  <1>10. ASSUME RotateClear(p) PROVE TypeInv'
    <2>1. stamp' = None /\ Become(p, Idle) /\ UNCHANGED <<ring, files, git, faults>>
      BY <1>10 DEF RotateClear, Exit
    <2>2. FilesOK'
      BY <2>1, <1>0 DEF FilesOK, files, git
    <2> QED
      BY <2>1, <2>2, IdleOK, StepOK
  <1> QED
    BY <1>1, <1>3, <1>4, <1>5, <1>6, <1>7, <1>8, <1>9, <1>10

\* The steps of add-file, allow and remove-file keep the types.
LEMMA ManifestTypes ==
  ASSUME TypeInv, NEW p \in Proc,
         \/ ManifestStart(p) \/ AddFile(p) \/ AddAppend(p) \/ AllowFile(p)
         \/ ReadRecord(p) \/ WriteRecord(p)
         \/ RemoveRefuses(p) \/ RemoveFile(p) \/ SaveManifest(p)
  PROVE  TypeInv'
  <1> DEFINE me == proc[p]
  <1>0. me \in Process /\ Local(me) /\ FilesOK
    BY MeOK
  <1>1. ASSUME ManifestStart(p) PROVE TypeInv'
    <2> DEFINE first(run) == CASE run.verb = "add-file" -> "add"
                               [] run.verb = "allow" -> "allow"
                               [] run.verb = "remove-file" -> "remove"
    <2>1. PICK run \in CommandLines :
            /\ run.verb \in {"add-file", "allow", "remove-file"}
            /\ Start(p, [Idle EXCEPT !.run = run, !.todo = run.files, !.list = tracked,
                                     !.pc = first(run)])
      BY <1>1 DEF ManifestStart
    <2> DEFINE pc == first(run)
               l == [Idle EXCEPT !.run = run, !.todo = run.files, !.list = tracked, !.pc = pc]
    <2>2. \/ pc = "add" /\ run.verb = "add-file"
          \/ pc = "allow" /\ run.verb = "allow"
          \/ pc = "remove"
      BY <2>1
    <2>3. Become(p, l)
      BY <2>1 DEF Start, Become
    <2> HIDE DEF pc
    <2>4. run \in Command /\ run.files \subseteq File
      BY <2>1, CommandLinesAssumption DEF Command
    <2>5. l \in Process /\ l.pc = pc /\ l.run = run
      BY <2>2, <2>4, <1>0, IdleOK DEF Process, PC, FilesOK
    <2>6. Local(l)
      BY <2>2, <2>5 DEF Local
    <2>7. UNCHANGED <<ring, stamp, files, git, faults>>
      BY <1>1 DEF ManifestStart
    <2> HIDE DEF l
    <2> QED
      BY <2>3, <2>5, <2>6, <2>7, QuietStepOK
  <1>2. ASSUME AddFile(p) PROVE TypeInv'
    <2> DEFINE record(f) == [me EXCEPT !.pc = "record", !.at = f]
               append(f) == [me EXCEPT !.pc = "append", !.at = f, !.lines = ignored \cup {f}]
    <2>1. me.pc = "add" /\ UNCHANGED <<ring, stamp, git, tracked, plain, cipher, consent, faults>>
      BY <1>2 DEF AddFile
    <2>2. PICK f \in me.todo :
            \/ Exit(p) /\ UNCHANGED ignored
            \/ Become(p, record(f)) /\ UNCHANGED ignored
            \/ Become(p, append(f)) /\ ignored' = {}
      BY <1>2 DEF AddFile
    <2>3. f \in File
      BY <1>0 DEF Process
    <2>4. FilesOK'
      BY <2>1, <2>2, <1>0 DEF FilesOK, git
    <2>5. record(f) \in Process /\ Local(record(f))
      BY <2>1, <2>3, <1>0 DEF Process, PC, Local
    <2>6. ignored \subseteq File
      BY <1>0 DEF FilesOK
    <2>7. append(f) \in Process /\ Local(append(f))
      BY <2>1, <2>3, <2>6, <1>0 DEF Process, PC, Local
    <2>8. \E l \in {Idle, record(f), append(f)} : Become(p, l)
      BY <2>2 DEF Exit
    <2> HIDE DEF record, append
    <2> QED
      BY <2>4, <2>5, <2>7, <2>8, IdleOK, StepOK
  <1>3. ASSUME AddAppend(p) PROVE TypeInv'
    <2> DEFINE l == [me EXCEPT !.pc = "record", !.lines = {}]
    <2>1. /\ me.pc = "append" /\ ignored' = me.lines /\ Become(p, l)
          /\ UNCHANGED <<ring, stamp, git, tracked, plain, cipher, consent, faults>>
      BY <1>3 DEF AddAppend
    <2>2. FilesOK'
      BY <2>1, <1>0 DEF FilesOK, git, Process
    <2>3. l \in Process /\ l.pc = "record" /\ l.at = me.at /\ l.run = me.run
      BY <1>0 DEF Process, PC
    <2>4. Local(l)
      BY <2>1, <2>3, <1>0 DEF Local
    <2> HIDE DEF l
    <2> QED
      BY <2>1, <2>2, <2>3, <2>4, StepOK
  <1>4. ASSUME AllowFile(p) PROVE TypeInv'
    <2> DEFINE record(f) == [me EXCEPT !.pc = "record", !.at = f]
    <2>1. me.pc = "allow" /\ UNCHANGED <<ring, stamp, files, git, faults>>
      BY <1>4 DEF AllowFile
    <2>2. Exit(p) \/ \E f \in me.todo : Become(p, record(f))
      BY <1>4 DEF AllowFile
    <2>3. ASSUME NEW f \in me.todo, Become(p, record(f)) PROVE TypeInv'
      <3>1. f \in File
        BY <1>0 DEF Process
      <3>2. record(f) \in Process /\ Local(record(f))
        BY <2>1, <3>1, <1>0 DEF Process, PC, Local
      <3> HIDE DEF record
      <3> QED
        BY <2>1, <2>3, <3>2, QuietStepOK
    <2> QED
      BY <2>1, <2>2, <2>3, ExitOK
  <1>5. ASSUME ReadRecord(p) PROVE TypeInv'
    <2> DEFINE lines == consent \cup {me.at}
               l == [me EXCEPT !.pc = "grant", !.lines = lines]
    <2>1. /\ me.pc = "record" /\ Become(p, l)
          /\ UNCHANGED <<ring, stamp, files, git, faults>>
      BY <1>5 DEF ReadRecord
    <2>2. lines \subseteq File
      BY <2>1, <1>0 DEF Local, FilesOK
    <2> HIDE DEF lines
    <2>3. l \in Process /\ l.pc = "grant" /\ l.at = me.at /\ l.run = me.run
      BY <2>2, <1>0 DEF Process, PC
    <2>4. Local(l)
      BY <2>1, <2>3, <1>0 DEF Local
    <2> HIDE DEF l
    <2> QED
      BY <2>1, <2>3, <2>4, QuietStepOK
  <1>6. ASSUME WriteRecord(p) PROVE TypeInv'
    <2> DEFINE pc == IF me.run.verb = "allow" THEN "allow" ELSE "add"
               todo == me.todo \ {me.at}
               list == me.list \cup {me.at}
               l == [me EXCEPT !.pc = pc, !.at = None, !.lines = {}, !.todo = todo, !.list = list]
    <2>1. /\ me.pc = "grant" /\ consent' = me.lines /\ Become(p, l)
          /\ UNCHANGED <<ring, stamp, git, tracked, plain, cipher, ignored, faults>>
      BY <1>6 DEF WriteRecord
    <2>2. me.at \in File /\ me.run.verb \in {"add-file", "allow"}
      BY <2>1, <1>0 DEF Local
    <2>3. FilesOK'
      BY <2>1, <1>0 DEF FilesOK, git, Process
    <2>4. /\ todo \subseteq File /\ list \subseteq File
          /\ \/ pc = "allow" /\ me.run.verb = "allow"
             \/ pc = "add" /\ me.run.verb = "add-file"
      BY <2>2, <1>0 DEF Process
    <2> HIDE DEF todo, list, pc
    <2>5. l \in Process /\ l.pc = pc /\ l.run = me.run
      BY <2>4, <1>0 DEF Process, PC
    <2>6. Local(l)
      BY <2>4, <2>5 DEF Local
    <2> HIDE DEF l
    <2> QED
      BY <2>1, <2>3, <2>5, <2>6, StepOK
  <1>7. ASSUME RemoveRefuses(p) PROVE TypeInv'
    BY <1>7, ExitOK DEF RemoveRefuses
  <1>8. ASSUME RemoveFile(p) PROVE TypeInv'
    <2> DEFINE rest(f) == [me EXCEPT !.todo = me.todo \ {f}, !.list = me.list \ {f}]
    <2>1. /\ me.pc = "remove"
          /\ UNCHANGED <<ring, stamp, git, tracked, plain, consent, ignored, faults>>
      BY <1>8 DEF RemoveFile
    <2>2. PICK f \in me.todo \cap me.list :
            /\ cipher' = IF me.run.keep THEN cipher ELSE [cipher EXCEPT ![f] = None]
            /\ Become(p, rest(f))
      BY <1>8 DEF RemoveFile
    <2>3. rest(f) \in Process /\ rest(f).pc = "remove"
      BY <2>1, <1>0 DEF Process
    <2>4. Local(rest(f))
      BY <2>3 DEF Local
    <2>5. FilesOK'
      BY <2>1, <2>2, <1>0 DEF FilesOK, git
    <2> HIDE DEF rest
    <2> QED
      BY <2>2, <2>3, <2>4, <2>5, StepOK
  <1>9. ASSUME SaveManifest(p) PROVE TypeInv'
    <2>1. /\ tracked' = me.list /\ Become(p, Idle)
          /\ UNCHANGED <<ring, stamp, git, plain, cipher, consent, ignored, faults>>
      BY <1>9 DEF SaveManifest, Exit
    <2>2. FilesOK'
      BY <2>1, <1>0 DEF FilesOK, git, Process
    <2> QED
      BY <2>1, <2>2, IdleOK, StepOK
  <1> QED
    BY <1>1, <1>2, <1>3, <1>4, <1>5, <1>6, <1>7, <1>8, <1>9

\* The editor and git keep the types.
LEMMA WorldTypes ==
  ASSUME TypeInv, \/ \E f \in File : Edit(f) \/ Restore(f)
                  \/ CommitAll
                  \/ Pull
  PROVE  TypeInv'
  <1>0. FilesOK
    BY DEF TypeInv, TypeOK, FilesOK
  <1>1. ASSUME NEW f \in File, Edit(f) PROVE FilesOK' /\ proc' = proc
    BY <1>0, <1>1 DEF Edit, FilesOK, git
  <1>2. ASSUME NEW f \in File, Restore(f) PROVE FilesOK' /\ proc' = proc
    BY <1>0, <1>2 DEF Restore, FilesOK, git
  <1>3. ASSUME CommitAll PROVE FilesOK' /\ proc' = proc
    BY <1>0, <1>3 DEF CommitAll, FilesOK, files
  <1>4. ASSUME Pull PROVE FilesOK' /\ proc' = proc
    <2> DEFINE new(u, c) == [f \in File |-> IF f \in u.fresh
                               THEN EncryptTo(Members(u.ring), c) ELSE index[f]]
    <2>1. PICK u \in Upstream, c \in Secret :
            /\ ring' = u.ring /\ tracked' = u.tracked /\ index' = new(u, c)
            /\ cipher' = [f \in File |-> IF f \in u.fresh THEN new(u, c)[f] ELSE cipher[f]]
      BY <1>4 DEF Pull
    <2>2. UNCHANGED <<stamp, exposed, plain, consent, ignored, proc, faults>>
      BY <1>4 DEF Pull
    <2>3. u.ring \in Ring /\ u.tracked \subseteq File
      BY UpstreamAssumption DEF Commit
    <2>4. EncryptTo(Members(u.ring), c) \in Cipher
      BY <2>3, EncryptOK
    <2>5. new(u, c) \in [File -> Cipher \cup {None}]
      BY <2>4, <1>0 DEF FilesOK
    <2>6. cipher' \in [File -> Cipher \cup {None}]
      BY <2>1, <2>5, <1>0 DEF FilesOK
    <2> QED
      BY <2>1, <2>2, <2>3, <2>5, <2>6, <1>0 DEF FilesOK
  <1>5. FilesOK' /\ proc' = proc
    BY <1>1, <1>2, <1>3, <1>4
  <1> QED
    BY <1>5 DEF TypeInv, TypeOK, FilesOK

\* A death keeps the types.
LEMMA CrashTypes ==
  ASSUME TypeInv, NEW p \in Proc, Crash(p)
  PROVE  TypeInv'
  <1>1. Become(p, Idle) /\ faults < MaxFaults /\ faults' = faults + 1
        /\ UNCHANGED <<ring, stamp, files, git>>
    BY DEF Crash, Exit
  <1>2. FilesOK'
    BY <1>1, MeOK, BoundsAssumption DEF FilesOK, files, git
  <1> QED
    BY <1>1, <1>2, IdleOK, StepOK

\* Init establishes the types, and every step keeps them.
LEMMA TypeInductive == (Init => TypeInv) /\ (TypeInv /\ [Next]_vars => TypeInv')
  <1>1. Init => TypeInv
    <2> SUFFICES ASSUME Init PROVE TypeInv
      OBVIOUS
    <2>1. proc \in [Proc -> Process] /\ \A p \in Proc : Local(proc[p])
      BY IdleOK DEF Init
    <2> QED
      BY <2>1, FirstRingAssumption, BoundsAssumption DEF Init, TypeInv, TypeOK, Nothing
  <1>2. ASSUME TypeInv, [Next]_vars PROVE TypeInv'
    <2>1. ASSUME NEW p \in Proc, Step(p) PROVE TypeInv'
      BY <1>2, <2>1, HideTypes, RevealTypes, RingTypes, RotateTypes, ManifestTypes DEF Step
    <2>2. ASSUME NEW p \in Proc,
                 HideStart(p) \/ RevealStart(p) \/ RingWrite(p) \/ RotateStart(p) \/ ManifestStart(p)
          PROVE  TypeInv'
      BY <1>2, <2>2, HideTypes, RevealTypes, RingTypes, RotateTypes, ManifestTypes
    <2>3. CASE UNCHANGED vars
      BY <1>2, <2>3 DEF TypeInv, TypeOK, vars, files, git
    <2> QED
      BY <1>2, <2>1, <2>2, <2>3, CrashTypes, WorldTypes DEF Next
  <1> QED
    BY <1>1, <1>2

\* What the commands of one clone do to the keyring, the stamp, the manifest,
\* the secrets and the index is well-typed, however they interleave and
\* wherever they die.
THEOREM VaultTypeCorrect == Spec => []TypeOK
  <1>1. Spec => []TypeInv
    BY TypeInductive, PTL DEF Spec
  <1>2. TypeInv => TypeOK
    BY DEF TypeInv
  <1> QED
    BY <1>1, <1>2, PTL
=============================================================================
