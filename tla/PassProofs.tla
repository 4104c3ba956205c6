----------------------------- MODULE PassProofs -----------------------------
(***************************************************************************)
(* What hide, reveal and rotate promise, proved for any number of commands *)
(* that overlap with each other, with editors and with git, as far as each *)
(* leaves alone what another one in flight relies on (Interference).       *)
(*                                                                         *)
(* A two-phase command writes on the strength of what it read many steps   *)
(* earlier.  What it owes says, for each program counter, what the outputs *)
(* prepared and the files still to do have to do with the files.  Every    *)
(* promise rests on a part of that, its own steps keep each part, and the  *)
(* steps of others keep it when they leave alone what that part is about.  *)
(***************************************************************************)
EXTENDS VaultProofs, Interference

\* The four families of commands.
Hides(p) == HideStart(p) \/ HideRead(p) \/ HideWrite(p) \/ HideDelete(p)
Reveals(p) == RevealStart(p) \/ RevealEntry(p) \/ RevealRead(p) \/ RevealWrite(p)
Rotates(p) ==
  \/ RotateStart(p) \/ RotateGate(p) \/ RotateMatch(p)
  \/ RotateLoad(p) \/ RotateOrphans(p) \/ RotateScan(p)
  \/ RotateRead(p) \/ RotateWrite(p) \/ RotateClear(p)
Records(p) ==
  \/ RingWrite(p) \/ RingStamp(p) \/ RingPurge(p) \/ ManifestStart(p) \/ Crash(p)
  \/ AddFile(p) \/ AddAppend(p) \/ AllowFile(p) \/ ReadRecord(p) \/ WriteRecord(p)
  \/ RemoveRefuses(p) \/ RemoveFile(p) \/ SaveManifest(p)

\* A rotate before phase 1, and the paths it means to go through then.
Opening == {"gate", "match", "load", "orphans", "scan"}
Scope(l) == CASE l.pc = "scan" -> l.list [] l.pc = "decrypt" -> l.todo [] OTHER -> {}

\* What a command owes to its own steps alone.
LocalOwes(l) ==
  /\ l.pc \in {"read", "write", "delete"} => Members(l.ring) # {}
  /\ l.pc \in {"read", "write", "decrypt", "rotate"} =>
       \A f \in Prepared(l) : l.ready[f].to = Members(l.ring)
  /\ l.pc \in {"write", "restore", "rotate"} => l.todo \subseteq Prepared(l)
  /\ l.pc \in Opening => l.ready = Nothing
  /\ l.pc = "remove" => l.run \in CommandLines /\ l.run.verb = "remove-file"

LoopInv == TypeInv /\ \A p \in Proc : LocalOwes(proc[p])

\* The ciphertext of f holds what its plaintext holds, and somebody can open it.
Copied(f) ==
  plain[f] # None /\ cipher[f] # None /\ cipher[f].content = plain[f] /\ cipher[f].to # {}

\* A hide that will delete has prepared what the plaintexts hold, and what it
\* wrote is a copy.
HideCopies(p) ==
  LET l == proc[p]
  IN  /\ WillDelete(l) =>
           \A f \in Prepared(l) : plain[f] # None /\ l.ready[f].content = plain[f]
      /\ WillDelete(l) /\ l.pc = "write" => \A f \in Prepared(l) \ l.todo : Copied(f)
      /\ l.pc = "delete" => \A f \in l.todo : Copied(f)

\* Consent to encrypt f for the first time, or no first time. Whoever is
\* about to write the consent record takes none away.
Allowed(f) == f \in consent \/ index[f] # None
GrantKeeps(p) == proc[p].pc = "grant" => consent \subseteq proc[p].lines

\* Whatever a hide has yet to write it was allowed to.
HideAllowed(p) ==
  LET l == proc[p]
  IN  l.pc \in {"read", "write"} => \A f \in l.todo \cup Pending(l) : Allowed(f)

\* What a reveal will write is what the ciphertext holds.
RevealCopies(p) ==
  LET l == proc[p]
  IN  l.pc \in {"open", "restore"} =>
        \A f \in Pending(l) :
          f \notin exposed /\ cipher[f] # None /\ l.ready[f] = cipher[f].content

\* What a rotate will write has the content of what it will replace.
RotateCopies(p) ==
  LET l == proc[p]
  IN  l.pc \in {"decrypt", "rotate"} =>
        \A f \in Pending(l) : cipher[f] # None /\ l.ready[f].content = cipher[f].content

\* An add-file saves a manifest that drops nothing.
Listing(p) == Saves(proc[p]) => tracked \subseteq proc[p].list

\* A rotate behind its gate has no orphans to leave.
OrphanFree(p) ==
  /\ proc[p].pc = "orphans" => proc[p].list \subseteq tracked
  /\ proc[p].pc \in Looked => Orphans(tracked) = {}

\* A rotate has done, or is going to do, the whole working set.
RotateDelivers(p) ==
  LET l == proc[p]
  IN  /\ l.pc \in {"gate", "match"} \cup Due => l.ring = ring
      /\ l.pc \in Loaded =>
           \A f \in WorkingSet :
             \/ cipher[f].to = Members(ring)
             \/ l.pc \in {"orphans", "scan"} /\ f \in l.list
             \/ l.pc = "decrypt" /\ f \in l.todo \cup Prepared(l)
             \/ l.pc = "rotate" /\ (f \in l.todo \/ l.failed)
-----------------------------------------------------------------------------
(***************************************************************************)
(* What one step of a command does to its process.                         *)
(***************************************************************************)

\* Phase 1 prepares the output o of f.
Reads(l, n, f, o, next) ==
  /\ n.pc \in {l.pc, next}
  /\ Prepared(n) = Prepared(l) \cup {f}
  /\ n.ready[f] = o /\ \A g \in File \ {f} : n.ready[g] = l.ready[g]
  /\ n.ring = l.ring /\ n.run = l.run /\ n.failed = l.failed
  /\ n.pc # next => n.todo = l.todo \ {f}
  /\ n.pc = next => n.todo = Prepared(n) /\ l.todo \subseteq {f}

\* Phase 2 is through with f.
Writes(l, n, f, next) ==
  /\ n.pc \in {l.pc, next}
  /\ n.ready = l.ready /\ n.ring = l.ring /\ n.run = l.run
  /\ n.pc # next => n.todo = l.todo \ {f}
  /\ n.pc = next => n.todo = Prepared(l) /\ l.todo \subseteq {f} /\ ~l.failed /\ ~n.failed

\* A step of a rotate before phase 1: nothing of the working set falls out of
\* what it listed.
Opens(l, n) ==
  /\ l.pc \in Opening /\ n.ring = l.ring /\ n.ready = l.ready
  /\ \/ n.pc \in {"match", "load"}
     \/ n.pc = "orphans" /\ n.list = tracked
     \/ /\ l.pc \in {"orphans", "scan"} /\ n.pc \in {"scan", "decrypt", "clear"}
        /\ l.pc = "orphans" => Orphans(l.list) = {}
        /\ l.list \cap WorkingSet \subseteq Scope(n) /\ Scope(n) \subseteq l.list

\* The ciphertext of f is replaced by c.
Puts(f, c) == cipher'[f] = c /\ \A g \in File \ {f} : cipher'[g] = cipher[g]

\* What a step makes of its process.
LEMMA Becomes ==
  ASSUME TypeInv, NEW p \in Proc, NEW l, Become(p, l)
  PROVE  proc'[p] = l
  BY DEF TypeInv, TypeOK, Become

\* What an exit makes of its process.
LEMMA Exits ==
  ASSUME TypeInv, NEW p \in Proc, Exit(p)
  PROVE  proc'[p].pc = "idle"
  BY Becomes DEF Exit, Idle

\* Phase 1 prepares the output of one file.
LEMMA ReadStep ==
  ASSUME NEW l \in Process, Local(l), NEW f \in File, NEW o,
         \/ l.pc \in {"read", "decrypt"} /\ o \in Cipher
         \/ l.pc = "open" /\ o \in Secret,
         NEW next \in {"write", "restore", "rotate"},
         NEW n, n = Loop([l EXCEPT !.ready[f] = o], f, next)
  PROVE  Reads(l, n, f, o, next)
  <1> DEFINE r == [l EXCEPT !.ready[f] = o]
  <1>1. /\ r \in Process /\ r.pc = l.pc /\ r.ring = l.ring /\ r.todo = l.todo
        /\ r.run = l.run /\ r.failed = l.failed /\ r.ready = [l.ready EXCEPT ![f] = o]
    BY ReadyOK
  <1>2. next \in PC /\ l.pc # next
    BY DEF PC
  <1> DEFINE m == Loop(r, f, next)
  <1>3. n = m
    OBVIOUS
  <1> HIDE DEF r
  <1>4. /\ m.ready = r.ready /\ m.ring = r.ring /\ m.run = r.run /\ m.failed = r.failed
        /\ \/ m.pc = r.pc /\ m.todo = r.todo \ {f}
           \/ m.pc = next /\ m.todo = Prepared(r) /\ r.todo \ {f} = {}
    BY <1>1, <1>2, LoopKeeps
  <1> HIDE DEF m
  <1>5. o # None
    BY NoneAssumption
  <1>6. l.ready \in [File -> Cipher \cup Secret \cup {None}]
    BY DEF Process
  <1>7. Prepared(r) = Prepared(l) \cup {f} /\ Prepared(n) = Prepared(r)
    BY <1>1, <1>3, <1>4, <1>5, <1>6 DEF Prepared
  <1>8. n.ready = [l.ready EXCEPT ![f] = o]
    BY <1>1, <1>3, <1>4
  <1>9. n.ready[f] = o /\ \A g \in File \ {f} : n.ready[g] = l.ready[g]
    BY ONLY <1>6, <1>8, f \in File
  <1> QED
    BY <1>1, <1>2, <1>3, <1>4, <1>7, <1>9 DEF Reads

\* A successful write of phase 2.
LEMMA WriteStep ==
  ASSUME NEW l \in Process, NEW f, NEW next \in PC, l.pc # next,
         NEW n, n = AfterWrites(l, f, next)
  PROVE  n.pc = "idle" \/ (Writes(l, n, f, next) /\ n.failed = l.failed)
  <1> DEFINE m == Loop(l, f, next)
  <1>1. /\ m \in Process /\ m.ready = l.ready /\ m.ring = l.ring /\ m.run = l.run
        /\ m.failed = l.failed
        /\ \/ m.pc = l.pc /\ m.todo = l.todo \ {f}
           \/ m.pc = next /\ m.todo = Prepared(l) /\ l.todo \ {f} = {}
    BY LoopKeeps
  <1>2. n = IF m.pc = "idle" \/ (m.pc = next /\ l.failed) THEN Idle ELSE m
    BY DEF AfterWrites
  <1>3. Idle.pc = "idle"
    BY DEF Idle
  <1> HIDE DEF m
  <1> QED
    BY <1>1, <1>2, <1>3 DEF Writes

\* A failed write of phase 2.
LEMMA FailStep ==
  ASSUME TypeInv, NEW p \in Proc, NEW f, WriteFails(p, f), NEW next, proc[p].pc # next
  PROVE  \/ proc'[p].pc = "idle"
         \/ /\ Writes(proc[p], proc'[p], f, next)
            /\ proc'[p].pc = proc[p].pc /\ proc'[p].failed
  <1> DEFINE me == proc[p]
             l == [me EXCEPT !.failed = TRUE]
             n == Loop(l, f, "idle")
  <1>0. me \in Process
    BY MeOK
  <1>1. proc'[p] = IF n.pc = "idle" THEN Idle ELSE n
    BY DEF WriteFails, Become, TypeInv, TypeOK
  <1> HIDE DEF me
  <1>2. /\ l \in Process /\ l.pc = me.pc /\ l.todo = me.todo /\ l.ready = me.ready
        /\ l.ring = me.ring /\ l.run = me.run /\ l.failed = TRUE
    BY <1>0 DEF Process
  <1> HIDE DEF l
  <1>3. "idle" \in PC
    BY DEF PC
  <1>4. /\ n.ready = l.ready /\ n.ring = l.ring /\ n.run = l.run /\ n.failed = TRUE
        /\ \/ n.pc = l.pc /\ n.todo = l.todo \ {f}
           \/ n.pc = "idle"
    BY <1>2, <1>3, LoopKeeps
  <1>5. Idle.pc = "idle"
    BY DEF Idle
  <1> HIDE DEF n
  <1> QED
    BY <1>1, <1>2, <1>4, <1>5 DEF me, Writes
-----------------------------------------------------------------------------
(***************************************************************************)
(* The steps of each command.                                              *)
(***************************************************************************)

\* hide: from the gates through both phases to the deletions.
LEMMA HideMoves ==
  ASSUME TypeInv, NEW p \in Proc, Hides(p)
  PROVE  LET l == proc[p]  n == proc'[p]
         IN  \/ n.pc = "idle"
             \/ /\ n.pc = "read" /\ HideGates(n.todo) /\ n.ring = ring
                /\ Prepared(n) = {} /\ UNCHANGED <<ring, files, git>>
             \/ \E f \in l.todo :
                  /\ l.pc = "read" /\ plain[f] # None
                  /\ Reads(l, n, f, EncryptTo(Members(l.ring), plain[f]), "write")
                  /\ UNCHANGED <<ring, files, git>>
             \/ \E f \in l.todo :
                  /\ l.pc = "write" /\ Writes(l, n, f, "delete")
                  /\ n.pc = "delete" => ~l.run.keep
                  /\ \/ Puts(f, l.ready[f]) /\ n.failed = l.failed
                     \/ UNCHANGED cipher /\ n.failed
                  /\ UNCHANGED <<ring, git, tracked, plain, consent>>
             \/ \E f \in l.todo :
                  /\ l.pc = "delete" /\ n.pc = "delete"
                  /\ n.todo = l.todo \ {f} /\ n.ring = l.ring
                  /\ \A g \in File \ {f} : plain'[g] = plain[g]
                  /\ UNCHANGED <<ring, git, tracked, cipher, consent>>
  <1> DEFINE me == proc[p]
             n == proc'[p]
  <1>0. /\ me \in Process /\ Local(me) /\ FilesOK /\ proc \in [Proc -> Process]
        /\ me.todo \subseteq File
    BY MeOK DEF TypeInv, TypeOK, Process
  <1>1. ASSUME HideStart(p)
        PROVE  /\ n.pc = "read" /\ HideGates(n.todo) /\ n.ring = ring
               /\ Prepared(n) = {} /\ UNCHANGED <<ring, files, git>>
    <2>1. PICK run \in CommandLines :
            /\ HideGates(run.files)
            /\ Start(p, [Idle EXCEPT !.pc = "read", !.run = run, !.ring = ring, !.todo = run.files])
      BY <1>1 DEF HideStart
    <2>2. n.pc = "read" /\ n.ring = ring /\ n.todo = run.files /\ n.ready = Nothing
      BY <2>1, <1>0 DEF Start, Idle
    <2>3. UNCHANGED <<ring, files, git>>
      BY <1>1 DEF HideStart
    <2>4. Prepared(n) = {}
      BY <2>2 DEF Prepared, Nothing
    <2> QED
      BY <2>1, <2>2, <2>3, <2>4
  <1>2. ASSUME HideRead(p)
        PROVE  \/ n.pc = "idle"
               \/ \E f \in me.todo :
                    /\ me.pc = "read" /\ plain[f] # None
                    /\ Reads(me, n, f, EncryptTo(Members(me.ring), plain[f]), "write")
                    /\ UNCHANGED <<ring, files, git>>
    <2>1. me.pc = "read" /\ UNCHANGED <<ring, files, git>>
      BY <1>2 DEF HideRead
    <2>2. PICK f \in me.todo :
            \/ Exit(p)
            \/ /\ plain[f] # None
               /\ Become(p, Loop([me EXCEPT !.ready[f] =
                                    EncryptTo(Members(me.ring), plain[f])], f, "write"))
      BY <1>2 DEF HideRead
    <2>3. f \in File
      BY <1>0
    <2>4. ASSUME plain[f] # None,
                 Become(p, Loop([me EXCEPT !.ready[f] =
                                   EncryptTo(Members(me.ring), plain[f])], f, "write"))
          PROVE  Reads(me, n, f, EncryptTo(Members(me.ring), plain[f]), "write")
      <3> DEFINE o == EncryptTo(Members(me.ring), plain[f])
      <3>1. o \in Cipher
        BY <2>1, <2>3, <2>4, <1>0, EncryptOK DEF Local, FilesOK
      <3>2. n = Loop([me EXCEPT !.ready[f] = o], f, "write")
        BY <2>4, Becomes
      <3> HIDE DEF o, n
      <3>3. Reads(me, n, f, o, "write")
        BY <3>1, <3>2, <2>1, <2>3, <1>0, ReadStep
      <3> QED
        BY <3>3 DEF o
    <2> QED
      BY <2>1, <2>2, <2>4, Exits
  <1>3. ASSUME HideWrite(p)
        PROVE  \/ n.pc = "idle"
               \/ \E f \in me.todo :
                    /\ me.pc = "write" /\ Writes(me, n, f, "delete")
                    /\ n.pc = "delete" => ~me.run.keep
                    /\ \/ Puts(f, me.ready[f]) /\ n.failed = me.failed
                       \/ UNCHANGED cipher /\ n.failed
                    /\ UNCHANGED <<ring, git, tracked, plain, consent>>
    <2>1. me.pc = "write" /\ UNCHANGED <<ring, git, tracked, plain, consent>>
      BY <1>3 DEF HideWrite
    <2> DEFINE next == IF me.run.keep THEN "idle" ELSE "delete"
    <2>2. PICK f \in me.todo :
            \/ /\ cipher' = [cipher EXCEPT ![f] = me.ready[f]]
               /\ Become(p, AfterWrites(me, f, next))
            \/ WriteFails(p, f) /\ UNCHANGED cipher
      BY <1>3 DEF HideWrite
    <2>3. ASSUME WriteFails(p, f), UNCHANGED cipher
          PROVE  n.pc = "idle" \/ (Writes(me, n, f, "delete") /\ n.failed /\ n.pc = "write")
      <3>1. proc[p].pc # "delete"
        BY <2>1
      <3> QED
        BY <3>1, <2>1, <2>3, FailStep
    <2>4. ASSUME cipher' = [cipher EXCEPT ![f] = me.ready[f]],
                 Become(p, AfterWrites(me, f, next))
          PROVE  /\ \/ n.pc = "idle"
                    \/ /\ Writes(me, n, f, "delete") /\ n.failed = me.failed
                       /\ n.pc = "delete" => ~me.run.keep
                 /\ Puts(f, me.ready[f])
      <3>1. next \in PC /\ next \in {"idle", "delete"} /\ me.pc # next
        BY <2>1 DEF PC
      <3>2. n = AfterWrites(me, f, next)
        BY <2>4, Becomes
      <3>3. next = "delete" => ~me.run.keep
        OBVIOUS
      <3> HIDE DEF next, n
      <3>4. n.pc = "idle" \/ (Writes(me, n, f, next) /\ n.failed = me.failed)
        BY <3>1, <3>2, <1>0, WriteStep
      <3>5. n.pc # "idle" => Writes(me, n, f, "delete") /\ (n.pc = "delete" => next = "delete")
        BY <3>1, <3>4, <2>1 DEF Writes
      <3>6. Puts(f, me.ready[f])
        BY <2>4, <1>0 DEF FilesOK, Puts
      <3> QED
        BY <3>3, <3>4, <3>5, <3>6
    <2> HIDE DEF n
    <2>5. CASE n.pc = "idle"
      BY <2>5
    <2>6. CASE n.pc # "idle"
      BY <2>1, <2>2, <2>3, <2>4, <2>6
    <2> QED
      BY <2>5, <2>6
  <1>4. ASSUME HideDelete(p)
        PROVE  \/ n.pc = "idle"
               \/ \E f \in me.todo :
                    /\ me.pc = "delete" /\ n.pc = "delete"
                    /\ n.todo = me.todo \ {f} /\ n.ring = me.ring
                    /\ \A g \in File \ {f} : plain'[g] = plain[g]
                    /\ UNCHANGED <<ring, git, tracked, cipher, consent>>
    <2>1. me.pc = "delete" /\ UNCHANGED <<ring, git, tracked, cipher, consent>>
      BY <1>4 DEF HideDelete
    <2>2. PICK f \in me.todo :
            /\ plain' = [plain EXCEPT ![f] = None]
            /\ Exit(p) \/ Become(p, AfterWrites(me, f, "idle"))
      BY <1>4 DEF HideDelete
    <2>3. "idle" \in PC
      BY DEF PC
    <2>4. n.pc = "idle" \/ n = AfterWrites(me, f, "idle")
      BY <2>2, Exits, Becomes
    <2> HIDE DEF n
    <2>5. n.pc = "idle" \/ Writes(me, n, f, "idle")
      BY <2>1, <2>3, <2>4, <1>0, WriteStep
    <2>6. \A g \in File \ {f} : plain'[g] = plain[g]
      BY <2>2, <1>0 DEF FilesOK
    <2> QED
      BY <2>1, <2>5, <2>6 DEF Writes
  <1> HIDE DEF n, me
  <1>5. CASE HideStart(p)
    BY <1>1, <1>5 DEF n, me
  <1>6. CASE HideRead(p)
    BY <1>2, <1>6 DEF n, me
  <1>7. CASE HideWrite(p)
    BY <1>3, <1>7 DEF n, me
  <1>8. CASE HideDelete(p)
    BY <1>4, <1>8 DEF n, me
  <1> QED
    BY <1>5, <1>6, <1>7, <1>8 DEF Hides

\* reveal: the entry, then both phases.
LEMMA RevealMoves ==
  ASSUME TypeInv, NEW p \in Proc, Reveals(p)
  PROVE  LET l == proc[p]  n == proc'[p]
         IN  \/ n.pc \in {"idle", "entry"}
             \/ n.pc = "open" /\ Prepared(n) = {}
             \/ \E f \in l.todo :
                  /\ l.pc = "open" /\ f \notin exposed /\ cipher[f] # None
                  /\ Reads(l, n, f, cipher[f].content, "restore")
                  /\ UNCHANGED <<files, git>>
             \/ \E f \in l.todo :
                  /\ l.pc = "restore" /\ n.pc = "restore"
                  /\ n.ready = l.ready /\ n.todo = l.todo \ {f}
                  /\ UNCHANGED <<cipher, git>>
  <1> DEFINE me == proc[p]
             n == proc'[p]
  <1>0. /\ me \in Process /\ Local(me) /\ FilesOK /\ proc \in [Proc -> Process]
        /\ me.todo \subseteq File
    BY MeOK DEF TypeInv, TypeOK, Process
  <1>1. ASSUME RevealStart(p) PROVE n.pc = "entry"
    BY <1>1, <1>0 DEF RevealStart, Start, Idle
  <1>2. ASSUME RevealEntry(p) PROVE n.pc = "idle" \/ (n.pc = "open" /\ Prepared(n) = {})
    <2>1. me.ready = Nothing
      BY <1>2, <1>0 DEF RevealEntry, Local
    <2> DEFINE l == [me EXCEPT !.pc = "open", !.ring = ring, !.todo = me.run.files]
    <2>2. l.pc = "open" /\ l.ready = Nothing
      BY <2>1, <1>0 DEF Process
    <2>3. Exit(p) \/ Become(p, l)
      BY <1>2 DEF RevealEntry
    <2> HIDE DEF l
    <2>4. n.pc = "idle" \/ (n.pc = "open" /\ n.ready = Nothing)
      BY <2>2, <2>3, Exits, Becomes
    <2> QED
      BY <2>4 DEF Prepared, Nothing
  <1>3. ASSUME RevealRead(p)
        PROVE  \/ n.pc = "idle"
               \/ \E f \in me.todo :
                    /\ me.pc = "open" /\ f \notin exposed /\ cipher[f] # None
                    /\ Reads(me, n, f, cipher[f].content, "restore")
                    /\ UNCHANGED <<files, git>>
    <2>1. me.pc = "open" /\ UNCHANGED <<files, git>>
      BY <1>3 DEF RevealRead
    <2>2. PICK f \in me.todo :
            \/ Exit(p)
            \/ /\ f \notin exposed /\ cipher[f] # None
               /\ Become(p, Loop([me EXCEPT !.ready[f] = cipher[f].content], f, "restore"))
      BY <1>3 DEF RevealRead
    <2>3. ASSUME cipher[f] # None,
                 Become(p, Loop([me EXCEPT !.ready[f] = cipher[f].content], f, "restore"))
          PROVE  Reads(me, n, f, cipher[f].content, "restore")
      <3>1. f \in File /\ cipher[f].content \in Secret
        BY <2>3, <1>0 DEF FilesOK, Cipher
      <3>2. n = Loop([me EXCEPT !.ready[f] = cipher[f].content], f, "restore")
        BY <2>3, Becomes
      <3> HIDE DEF n
      <3> QED
        BY <3>1, <3>2, <2>1, <1>0, ReadStep
    <2> QED
      BY <2>1, <2>2, <2>3, Exits
  <1>4. ASSUME RevealWrite(p)
        PROVE  \/ n.pc = "idle"
               \/ \E f \in me.todo :
                    /\ me.pc = "restore" /\ n.pc = "restore"
                    /\ n.ready = me.ready /\ n.todo = me.todo \ {f}
                    /\ UNCHANGED <<cipher, git>>
    <2>1. me.pc = "restore" /\ UNCHANGED <<cipher, git>>
      BY <1>4 DEF RevealWrite
    <2>2. PICK f \in me.todo : Become(p, AfterWrites(me, f, "idle")) \/ WriteFails(p, f)
      BY <1>4 DEF RevealWrite
    <2>3. "idle" \in PC /\ proc[p].pc # "idle"
      BY <2>1 DEF PC
    <2>4. n = AfterWrites(me, f, "idle") \/ WriteFails(p, f)
      BY <2>2, Becomes
    <2>5. WriteFails(p, f) => n.pc = "idle" \/ Writes(me, n, f, "idle")
      BY <2>3, FailStep
    <2> HIDE DEF n
    <2>6. n.pc = "idle" \/ Writes(me, n, f, "idle")
      BY <2>3, <2>4, <2>5, <1>0, WriteStep
    <2> QED
      BY <2>1, <2>6 DEF Writes
  <1> HIDE DEF n, me
  <1>5. CASE RevealStart(p)
    BY <1>1, <1>5 DEF n, me
  <1>6. CASE RevealEntry(p)
    BY <1>2, <1>6 DEF n, me
  <1>7. CASE RevealRead(p)
    BY <1>3, <1>7 DEF n, me
  <1>8. CASE RevealWrite(p)
    BY <1>4, <1>8 DEF n, me
  <1> QED
    BY <1>5, <1>6, <1>7, <1>8 DEF Reveals

\* rotate: the gate, both phases, and the end that takes the stamp.
LEMMA RotateMoves ==
  ASSUME TypeInv, NEW p \in Proc, Rotates(p)
  PROVE  LET l == proc[p]  n == proc'[p]
         IN  \/ n.pc = "idle"
             \/ n.pc = "gate" /\ n.ring = ring /\ n.ready = Nothing /\ UNCHANGED ring
             \/ Opens(l, n) /\ UNCHANGED <<ring, files, git>>
             \/ \E f \in l.todo :
                  /\ l.pc = "decrypt" /\ cipher[f] # None
                  /\ Reads(l, n, f, EncryptTo(Members(l.ring), cipher[f].content), "rotate")
                  /\ UNCHANGED <<ring, files, git>>
             \/ \E f \in l.todo :
                  /\ l.pc = "rotate" /\ Writes(l, n, f, "clear")
                  /\ \/ Puts(f, l.ready[f]) /\ n.failed = l.failed
                     \/ UNCHANGED cipher /\ n.failed
                  /\ UNCHANGED <<ring, git, tracked, plain, consent>>
  <1> DEFINE me == proc[p]
             n == proc'[p]
  <1>0. /\ me \in Process /\ Local(me) /\ FilesOK /\ proc \in [Proc -> Process]
        /\ me.todo \subseteq File
    BY MeOK DEF TypeInv, TypeOK, Process
  <1>1. ASSUME RotateStart(p)
        PROVE  n.pc = "gate" /\ n.ring = ring /\ n.ready = Nothing /\ UNCHANGED ring
    BY <1>1, <1>0 DEF RotateStart, Start, Idle
  <1>2. ASSUME RotateGate(p) PROVE n.pc = "idle" \/ (Opens(me, n) /\ UNCHANGED <<ring, files, git>>)
    <2> DEFINE l == [me EXCEPT !.pc = "match", !.due = stamp]
    <2>1. /\ me.pc = "gate" /\ UNCHANGED <<ring, files, git>>
          /\ Exit(p) \/ Become(p, l)
      BY <1>2 DEF RotateGate
    <2>2. l.pc = "match" /\ l.ring = me.ring /\ l.ready = me.ready
      BY <1>0 DEF Process
    <2> HIDE DEF l
    <2> QED
      BY <2>1, <2>2, Exits, Becomes DEF Opens, Opening
  <1>3. ASSUME RotateMatch(p)
        PROVE  n.pc = "idle" \/ (Opens(me, n) /\ UNCHANGED <<ring, files, git>>)
    <2> DEFINE l == [me EXCEPT !.pc = "load", !.due = None]
    <2>1. /\ me.pc = "match" /\ UNCHANGED <<ring, files, git>>
          /\ Exit(p) \/ Become(p, l)
      BY <1>3 DEF RotateMatch
    <2>2. l.pc = "load" /\ l.ring = me.ring /\ l.ready = me.ready
      BY <1>0 DEF Process
    <2> HIDE DEF l
    <2> QED
      BY <2>1, <2>2, Exits, Becomes DEF Opens, Opening
  <1>4. ASSUME RotateLoad(p) PROVE Opens(me, n) /\ UNCHANGED <<ring, files, git>>
    <2> DEFINE l == [me EXCEPT !.pc = "orphans", !.list = tracked]
    <2>1. me.pc = "load" /\ UNCHANGED <<ring, files, git>> /\ Become(p, l)
      BY <1>4 DEF RotateLoad
    <2>2. l.pc = "orphans" /\ l.ring = me.ring /\ l.ready = me.ready /\ l.list = tracked
      BY <1>0 DEF Process
    <2> HIDE DEF l
    <2> QED
      BY <2>1, <2>2, Becomes DEF Opens, Opening
  <1>5. ASSUME RotateOrphans(p)
        PROVE  n.pc = "idle" \/ (Opens(me, n) /\ UNCHANGED <<ring, files, git>>)
    <2> DEFINE pc == IF me.list = {} THEN "clear" ELSE "scan"
               l == [me EXCEPT !.pc = pc, !.todo = me.list]
    <2>1. /\ me.pc = "orphans" /\ UNCHANGED <<ring, files, git>>
          /\ Exit(p) \/ (Orphans(me.list) = {} /\ Become(p, l))
      BY <1>5 DEF RotateOrphans
    <2>2. (pc = "clear" /\ me.list = {}) \/ pc = "scan"
      OBVIOUS
    <2>3. l.pc = pc /\ l.ring = me.ring /\ l.ready = me.ready /\ l.list = me.list
      BY <1>0 DEF Process
    <2> HIDE DEF l, pc
    <2>4. Opens(me, l) \/ Orphans(me.list) # {}
      BY <2>1, <2>2, <2>3 DEF Opens, Opening, Scope
    <2> QED
      BY <2>1, <2>4, Exits, Becomes
  <1>6. ASSUME RotateScan(p) PROVE Opens(me, n) /\ UNCHANGED <<ring, files, git>>
    <2>1. me.pc = "scan" /\ UNCHANGED <<ring, files, git>>
      BY <1>6 DEF RotateScan
    <2> DEFINE rest(f) == me.todo \ {f}
               scoped(f) == IF OnDisk(f) THEN me.list ELSE me.list \ {f}
               pc(f) == IF scoped(f) = {} THEN "clear" ELSE "decrypt"
               on(f) == [me EXCEPT !.todo = rest(f), !.list = scoped(f)]
               done(f) == [me EXCEPT !.todo = scoped(f), !.list = {}, !.pc = pc(f)]
    <2>2. PICK f \in me.todo : Become(p, on(f)) \/ Become(p, done(f))
      BY <1>6 DEF RotateScan
    <2>3. me.list \cap WorkingSet \subseteq scoped(f) /\ scoped(f) \subseteq me.list
      BY DEF OnDisk, WorkingSet
    <2>4. pc(f) = "decrypt" \/ (pc(f) = "clear" /\ scoped(f) = {})
      OBVIOUS
    <2> HIDE DEF rest, scoped, pc
    <2>5. /\ on(f).pc = "scan" /\ on(f).list = scoped(f)
          /\ on(f).ring = me.ring /\ on(f).ready = me.ready
      BY <2>1, <1>0 DEF Process
    <2>6. /\ done(f).pc = pc(f) /\ done(f).todo = scoped(f)
          /\ done(f).ring = me.ring /\ done(f).ready = me.ready
      BY <1>0 DEF Process
    <2>7. n = on(f) \/ n = done(f)
      BY <2>2, Becomes
    <2> HIDE DEF on, done, n, me
    <2>8. /\ Scope(n) = scoped(f) /\ n.pc \in {"scan", "decrypt", "clear"}
          /\ n.ring = me.ring /\ n.ready = me.ready
      BY <2>4, <2>5, <2>6, <2>7 DEF Scope
    <2> QED
      BY <2>1, <2>3, <2>8 DEF Opens, Opening
  <1>7. ASSUME RotateRead(p)
        PROVE  \/ n.pc = "idle"
               \/ \E f \in me.todo :
                    /\ me.pc = "decrypt" /\ cipher[f] # None
                    /\ Reads(me, n, f, EncryptTo(Members(me.ring), cipher[f].content), "rotate")
                    /\ UNCHANGED <<ring, files, git>>
    <2>1. me.pc = "decrypt" /\ UNCHANGED <<ring, files, git>>
      BY <1>7 DEF RotateRead
    <2>2. PICK f \in me.todo :
            \/ Exit(p)
            \/ /\ cipher[f] # None
               /\ Become(p, Loop([me EXCEPT !.ready[f] =
                            EncryptTo(Members(me.ring), cipher[f].content)], f, "rotate"))
      BY <1>7 DEF RotateRead
    <2>3. ASSUME cipher[f] # None,
                 Become(p, Loop([me EXCEPT !.ready[f] =
                           EncryptTo(Members(me.ring), cipher[f].content)], f, "rotate"))
          PROVE  Reads(me, n, f, EncryptTo(Members(me.ring), cipher[f].content), "rotate")
      <3> DEFINE o == EncryptTo(Members(me.ring), cipher[f].content)
      <3>1. f \in File /\ cipher[f].content \in Secret
        BY <2>3, <1>0 DEF FilesOK, Cipher
      <3>2. o \in Cipher
        BY <3>1, <2>1, <1>0, EncryptOK DEF Local
      <3>3. n = Loop([me EXCEPT !.ready[f] = o], f, "rotate")
        BY <2>3, Becomes
      <3> HIDE DEF o, n
      <3>4. Reads(me, n, f, o, "rotate")
        BY <3>1, <3>2, <3>3, <2>1, <1>0, ReadStep
      <3> QED
        BY <3>4 DEF o
    <2> QED
      BY <2>1, <2>2, <2>3, Exits
  <1>8. ASSUME RotateWrite(p)
        PROVE  \/ n.pc = "idle"
               \/ \E f \in me.todo :
                    /\ me.pc = "rotate" /\ Writes(me, n, f, "clear")
                    /\ \/ Puts(f, me.ready[f]) /\ n.failed = me.failed
                       \/ UNCHANGED cipher /\ n.failed
                    /\ UNCHANGED <<ring, git, tracked, plain, consent>>
    <2>1. me.pc = "rotate" /\ UNCHANGED <<ring, git, tracked, plain, consent>>
      BY <1>8 DEF RotateWrite
    <2>2. PICK f \in me.todo :
            \/ /\ cipher' = [cipher EXCEPT ![f] = me.ready[f]]
               /\ Become(p, AfterWrites(me, f, "clear"))
            \/ WriteFails(p, f) /\ UNCHANGED cipher
      BY <1>8 DEF RotateWrite
    <2>3. "clear" \in PC /\ proc[p].pc # "clear"
      BY <2>1 DEF PC
    <2>4. ASSUME WriteFails(p, f) PROVE n.pc = "idle" \/ (Writes(me, n, f, "clear") /\ n.failed)
      BY <2>3, <2>4, FailStep
    <2>5. ASSUME cipher' = [cipher EXCEPT ![f] = me.ready[f]],
                 Become(p, AfterWrites(me, f, "clear"))
          PROVE  /\ n.pc = "idle" \/ (Writes(me, n, f, "clear") /\ n.failed = me.failed)
                 /\ Puts(f, me.ready[f])
      <3>1. n = AfterWrites(me, f, "clear")
        BY <2>5, Becomes
      <3> HIDE DEF n
      <3>2. n.pc = "idle" \/ (Writes(me, n, f, "clear") /\ n.failed = me.failed)
        BY <3>1, <2>3, <1>0, WriteStep
      <3>3. Puts(f, me.ready[f])
        BY <2>5, <1>0 DEF FilesOK, Puts
      <3> QED
        BY <3>2, <3>3
    <2> QED
      BY <2>1, <2>2, <2>4, <2>5
  <1>9. ASSUME RotateClear(p) PROVE n.pc = "idle"
    BY <1>9, Exits DEF RotateClear
  <1> HIDE DEF n, me
  <1>10. CASE RotateStart(p)
    BY <1>1, <1>10 DEF n, me
  <1>11. CASE RotateGate(p) \/ RotateMatch(p) \/ RotateLoad(p) \/ RotateOrphans(p) \/ RotateScan(p)
    BY <1>2, <1>3, <1>4, <1>5, <1>6, <1>11 DEF n, me
  <1>12. CASE RotateRead(p)
    BY <1>7, <1>12 DEF n, me
  <1>13. CASE RotateWrite(p)
    BY <1>8, <1>13 DEF n, me
  <1>14. CASE RotateClear(p)
    BY <1>9, <1>14 DEF n, me
  <1> QED
    BY <1>10, <1>11, <1>12, <1>13, <1>14 DEF Rotates

\* The commands that record what is secret and who may read it: the list to
\* be saved starts from the manifest, and the ring to be stamped is the one
\* just written.
LEMMA RecordMoves ==
  ASSUME TypeInv, NEW p \in Proc, Records(p)
  PROVE  LET l == proc[p]  n == proc'[p]
         IN  \/ n.pc \in {"idle", "purge"}
             \/ n.pc = "stamp" /\ n.ring = ring'
             \/ /\ n.pc \in {"add", "append", "allow", "record", "grant"} /\ UNCHANGED tracked
                /\ n.pc = "grant" => consent \subseteq n.lines /\ UNCHANGED consent
                /\ Saves(n) => n.list = tracked \/ (Saves(l) /\ l.list \subseteq n.list)
             \/ /\ n.pc = "remove"
                /\ \/ n.run \in CommandLines /\ n.run.verb = "remove-file"
                   \/ l.pc = "remove" /\ n.run = l.run
  <1> DEFINE me == proc[p]
             n == proc'[p]
  <1>0. TypeInv /\ me \in Process /\ Local(me)
    BY MeOK
  <1>1. CASE Exit(p)
    BY <1>1, Exits
  <1>2. CASE RingWrite(p)
    <2>1. PICK run \in CommandLines :
            /\ ring' = Changed(ring, run)
            /\ Start(p, [Idle EXCEPT !.pc = "stamp", !.run = run, !.ring = Changed(ring, run)])
      BY <1>2 DEF RingWrite
    <2> DEFINE l == [Idle EXCEPT !.pc = "stamp", !.run = run, !.ring = Changed(ring, run)]
    <2>2. l.pc = "stamp" /\ l.ring = ring'
      BY <2>1 DEF Idle
    <2>3. Become(p, l)
      BY <2>1 DEF Start, Become
    <2> HIDE DEF l
    <2> QED
      BY <2>2, <2>3, Becomes
  <1>3. CASE ManifestStart(p)
    <2> DEFINE first(run) == CASE run.verb = "add-file" -> "add"
                               [] run.verb = "allow" -> "allow"
                               [] run.verb = "remove-file" -> "remove"
    <2>1. PICK run \in CommandLines :
            /\ run.verb \in {"add-file", "allow", "remove-file"}
            /\ Start(p, [Idle EXCEPT !.run = run, !.todo = run.files, !.list = tracked,
                                     !.pc = first(run)])
      BY <1>3 DEF ManifestStart
    <2> DEFINE pc == first(run)
               l == [Idle EXCEPT !.run = run, !.todo = run.files, !.list = tracked, !.pc = pc]
    <2>2. pc \in {"add", "allow"} \/ (pc = "remove" /\ run.verb = "remove-file")
      BY <2>1
    <2>3. Become(p, l)
      BY <2>1 DEF Start, Become
    <2> HIDE DEF pc
    <2>4. l.pc = pc /\ l.list = tracked /\ l.run = run
      BY DEF Idle
    <2>5. UNCHANGED tracked
      BY <1>3 DEF ManifestStart, files
    <2> HIDE DEF l
    <2> QED
      BY <2>2, <2>3, <2>4, <2>5, Becomes
  <1>4. CASE AddFile(p)
    <2> DEFINE record(f) == [me EXCEPT !.pc = "record", !.at = f]
               append(f) == [me EXCEPT !.pc = "append", !.at = f, !.lines = ignored \cup {f}]
    <2>1. PICK f : Exit(p) \/ Become(p, record(f)) \/ Become(p, append(f))
      BY <1>4 DEF AddFile
    <2>2. /\ record(f).pc = "record" /\ append(f).pc = "append"
          /\ record(f).list = me.list /\ append(f).list = me.list
          /\ record(f).run = me.run /\ append(f).run = me.run
      BY <1>0 DEF Process
    <2>3. me.pc = "add" /\ UNCHANGED tracked
      BY <1>4 DEF AddFile
    <2> HIDE DEF record, append
    <2> QED
      BY <2>1, <2>2, <2>3, <1>1, Becomes DEF Saves
  <1>5. CASE AddAppend(p)
    <2> DEFINE l == [me EXCEPT !.pc = "record", !.lines = {}]
    <2>1. l.pc = "record" /\ l.list = me.list /\ l.run = me.run
      BY <1>0 DEF Process
    <2>2. Become(p, l) /\ me.pc = "append" /\ UNCHANGED tracked
      BY <1>5 DEF AddAppend
    <2> HIDE DEF l
    <2> QED
      BY <2>1, <2>2, Becomes DEF Saves
  <1>6. CASE AllowFile(p)
    <2> DEFINE record(f) == [me EXCEPT !.pc = "record", !.at = f]
    <2>1. /\ me.pc = "allow" /\ UNCHANGED tracked
          /\ Exit(p) \/ \E f \in me.todo : Become(p, record(f))
      BY <1>6 DEF AllowFile, files
    <2>2. PICK f : Exit(p) \/ Become(p, record(f))
      BY <2>1
    <2>3. record(f).pc = "record" /\ record(f).run = me.run
      BY <1>0 DEF Process
    <2>4. me.run.verb # "add-file"
      BY <2>1, <1>0 DEF Local
    <2> HIDE DEF record
    <2> QED
      BY <2>1, <2>2, <2>3, <2>4, <1>1, Becomes DEF Saves
  <1>7. CASE ReadRecord(p)
    <2> DEFINE lines == consent \cup {me.at}
               l == [me EXCEPT !.pc = "grant", !.lines = lines]
    <2>1. Become(p, l) /\ me.pc = "record" /\ UNCHANGED <<tracked, consent>>
      BY <1>7 DEF ReadRecord, files
    <2>2. l.pc = "grant" /\ l.lines = lines /\ l.list = me.list /\ l.run = me.run
      BY <1>0 DEF Process
    <2> HIDE DEF l
    <2> QED
      BY <2>1, <2>2, Becomes DEF Saves
  <1>8. CASE WriteRecord(p)
    <2> DEFINE pc == IF me.run.verb = "allow" THEN "allow" ELSE "add"
               todo == me.todo \ {me.at}
               list == me.list \cup {me.at}
               l == [me EXCEPT !.pc = pc, !.at = None, !.lines = {}, !.todo = todo, !.list = list]
    <2>1. Become(p, l) /\ me.pc = "grant" /\ UNCHANGED tracked
      BY <1>8 DEF WriteRecord
    <2>2. pc \in {"add", "allow"}
      OBVIOUS
    <2> HIDE DEF pc
    <2>3. l.pc = pc /\ l.list = list /\ l.run = me.run
      BY <1>0 DEF Process
    <2> HIDE DEF l
    <2> QED
      BY <2>1, <2>2, <2>3, Becomes DEF Saves
  <1>9. CASE RemoveFile(p)
    <2> DEFINE rest(f) == [me EXCEPT !.todo = @ \ {f}, !.list = @ \ {f}]
    <2>1. PICK f : me.pc = "remove" /\ Become(p, rest(f))
      BY <1>9 DEF RemoveFile
    <2>2. rest(f).pc = me.pc /\ rest(f).run = me.run
      BY <1>0 DEF Process
    <2> HIDE DEF rest
    <2> QED
      BY <2>1, <2>2, Becomes
  <1>10. CASE RingStamp(p)
    <2> DEFINE l == [me EXCEPT !.pc = "purge"]
    <2>1. Exit(p) \/ Become(p, l)
      BY <1>10 DEF RingStamp
    <2>2. l.pc = "purge"
      BY <1>0 DEF Process
    <2> HIDE DEF l
    <2> QED
      BY <2>1, <2>2, <1>1, Becomes
  <1>11. CASE RingPurge(p) \/ Crash(p) \/ RemoveRefuses(p) \/ SaveManifest(p)
    BY <1>1, <1>11 DEF RingPurge, Crash, RemoveRefuses, SaveManifest
  <1> QED
    BY <1>2, <1>3, <1>4, <1>5, <1>6, <1>7, <1>8, <1>9, <1>10, <1>11 DEF Records

\* Every step of p's belongs to one command and stays within it.
LEMMA OwnStep ==
  ASSUME TypeInv, NEW p \in Proc, Own(p)
  PROVE  \/ Hides(p)
         \/ Reveals(p) /\ proc'[p].pc \in {"idle", "entry", "open", "restore"}
         \/ Rotates(p) /\ proc'[p].pc \in {"idle", "gate", "match"} \cup Due
         \/ Records(p) /\ proc'[p].pc \in {"idle", "stamp", "purge", "add", "append", "allow",
                                           "record", "grant", "remove"}
  <1>1. Hides(p) \/ Reveals(p) \/ Rotates(p) \/ Records(p)
    BY DEF Own, Step, Hides, Reveals, Rotates, Records
  <1>2. CASE Reveals(p)
    BY <1>2, RevealMoves DEF Reads
  <1>3. CASE Rotates(p)
    BY <1>3, RotateMoves DEF Reads, Writes, Opens, Due
  <1>4. CASE Records(p)
    BY <1>4, RecordMoves
  <1> QED
    BY <1>1, <1>2, <1>3, <1>4

\* And hide stays within hide.
LEMMA HideStep ==
  ASSUME TypeInv, NEW p \in Proc, Hides(p)
  PROVE  proc'[p].pc \in {"idle", "read", "write", "delete"}
  BY HideMoves DEF Reads, Writes

\* A step that is not p's leaves p's process alone.
LEMMA OthersStay ==
  ASSUME TypeInv, [Next]_vars, NEW p \in Proc, ~Own(p)
  PROVE  proc'[p] = proc[p]
  <1>1. ASSUME NEW q \in Proc, NEW l, Become(q, l), q # p PROVE proc'[p] = proc[p]
    BY <1>1 DEF Become, TypeInv, TypeOK
  <1>2. ASSUME NEW q \in Proc, Own(q) PROVE \E l : Become(q, l)
    BY <1>2 DEF Own, Step, Start, Exit, WriteFails, Become,
         HideStart, RevealStart, RingWrite, RotateStart, ManifestStart, Crash,
         HideRead, HideWrite, HideDelete, RevealEntry, RevealRead, RevealWrite,
         RingStamp, RingPurge, RotateGate, RotateMatch, RotateLoad, RotateOrphans, RotateScan,
         RotateRead, RotateWrite, RotateClear, AddFile, AddAppend, AllowFile,
         ReadRecord, WriteRecord, RemoveRefuses, RemoveFile, SaveManifest
  <1>3. ASSUME \/ \E f \in File : Edit(f) \/ Restore(f)
               \/ CommitAll \/ Pull \/ UNCHANGED vars
        PROVE  proc'[p] = proc[p]
    BY <1>3 DEF Edit, Restore, CommitAll, Pull, vars
  <1>4. CASE \E q \in Proc : Own(q)
    BY <1>1, <1>2, <1>4
  <1> QED
    BY <1>3, <1>4 DEF Next, Own

\* Who changes the files.
LEMMA WhoChanges ==
  ASSUME [Next]_vars
  PROVE  /\ UNCHANGED ring \/ Pull \/ \E p \in Proc : RingWrite(p)
         /\ UNCHANGED stamp \/ \E p \in Proc : RingStamp(p) \/ RotateClear(p)
         /\ UNCHANGED tracked \/ Pull \/ \E p \in Proc : SaveManifest(p)
         /\ \/ UNCHANGED plain
            \/ \E p \in Proc : HideDelete(p) \/ RevealWrite(p)
            \/ \E f \in File : Edit(f)
         /\ \/ UNCHANGED cipher
            \/ \E p \in Proc : HideWrite(p) \/ RotateWrite(p) \/ RemoveFile(p)
            \/ \E f \in File : Restore(f)
            \/ Pull
         /\ UNCHANGED consent \/ \E p \in Proc : WriteRecord(p) \/ RingPurge(p)
         /\ UNCHANGED index \/ CommitAll \/ Pull
         /\ UNCHANGED exposed \/ CommitAll
  <1>1. ASSUME NEW p \in Proc, Step(p)
        PROVE  /\ UNCHANGED <<ring, index, exposed>>
               /\ UNCHANGED stamp \/ RingStamp(p) \/ RotateClear(p)
               /\ UNCHANGED tracked \/ SaveManifest(p)
               /\ UNCHANGED plain \/ HideDelete(p) \/ RevealWrite(p)
               /\ UNCHANGED cipher \/ HideWrite(p) \/ RotateWrite(p) \/ RemoveFile(p)
               /\ UNCHANGED consent \/ WriteRecord(p) \/ RingPurge(p)
    BY <1>1 DEF Step, HideRead, HideWrite, HideDelete, RevealEntry, RevealRead, RevealWrite,
         RingStamp, RingPurge, RotateGate, RotateMatch, RotateLoad, RotateOrphans, RotateScan,
         RotateRead, RotateWrite, RotateClear, AddFile, AddAppend, AllowFile,
         ReadRecord, WriteRecord, RemoveRefuses, RemoveFile, SaveManifest, files, git
  <1>2. ASSUME NEW p \in Proc,
               \/ HideStart(p) \/ RevealStart(p) \/ RingWrite(p) \/ RotateStart(p)
               \/ ManifestStart(p) \/ Crash(p)
        PROVE  UNCHANGED <<stamp, files, git>> /\ (UNCHANGED ring \/ RingWrite(p))
    BY <1>2 DEF HideStart, RevealStart, RingWrite, RotateStart, ManifestStart, Crash
  <1>3. ASSUME NEW f \in File, Edit(f)
        PROVE  UNCHANGED <<ring, stamp, tracked, cipher, consent, index, exposed>>
    BY <1>3 DEF Edit, git
  <1>4. ASSUME NEW f \in File, Restore(f)
        PROVE  UNCHANGED <<ring, stamp, tracked, plain, consent, index, exposed>>
    BY <1>4 DEF Restore, git
  <1>5. ASSUME CommitAll PROVE UNCHANGED <<ring, stamp, files>>
    BY <1>5 DEF CommitAll
  <1>6. ASSUME Pull PROVE UNCHANGED <<stamp, plain, consent, exposed>>
    BY <1>6 DEF Pull
  <1>7. ASSUME UNCHANGED vars PROVE UNCHANGED <<ring, stamp, files, git>>
    BY <1>7 DEF vars
  <1> QED
    BY <1>1, <1>2, <1>3, <1>4, <1>5, <1>6, <1>7 DEF Next, files, git
-----------------------------------------------------------------------------
(***************************************************************************)
(* What commands owe, part by part.                                        *)
(***************************************************************************)

\* What a command owes to its own steps it owes whatever the others do.
LEMMA LoopInductive == (Init => LoopInv) /\ (LoopInv /\ [Next]_vars => LoopInv')
  <1>1. ASSUME Init PROVE LoopInv
    <2>1. \A p \in Proc : proc[p].pc = "idle"
      BY <1>1 DEF Init, Idle
    <2> QED
      BY <1>1, <2>1, TypeInductive DEF LoopInv, LocalOwes, Opening
  <1>2. ASSUME LoopInv, [Next]_vars PROVE LoopInv'
    <2>1. TypeInv /\ TypeInv'
      BY <1>2, TypeInductive DEF LoopInv
    <2>2. ASSUME NEW p \in Proc PROVE LocalOwes(proc'[p])
      <3> DEFINE l == proc[p]
                 n == proc'[p]
      <3>1. LocalOwes(l) /\ l \in Process /\ FilesOK
        BY <1>2, <2>1, MeOK DEF LoopInv
      <3>2. Prepared(l) \subseteq File /\ l.todo \subseteq File
        BY <3>1 DEF Prepared, Process
      <3>3. CASE ~Own(p)
        BY <3>1, <3>3, <1>2, <2>1, OthersStay
      <3>4. ASSUME Hides(p) PROVE LocalOwes(n)
        <4> HIDE DEF n, l
        <4>1. CASE n.pc = "idle"
          BY <4>1 DEF LocalOwes, Opening
        <4>2. CASE n.pc = "read" /\ HideGates(n.todo) /\ n.ring = ring /\ Prepared(n) = {}
          BY <4>2 DEF LocalOwes, HideGates, Opening
        <4>3. ASSUME NEW f \in l.todo, l.pc = "read",
                     Reads(l, n, f, EncryptTo(Members(l.ring), plain[f]), "write")
              PROVE  LocalOwes(n)
          BY <3>1, <3>2, <4>3 DEF LocalOwes, Reads, EncryptTo, Opening
        <4>4. ASSUME NEW f \in l.todo, l.pc = "write", Writes(l, n, f, "delete")
              PROVE  LocalOwes(n)
          <5>1. Prepared(n) = Prepared(l)
            BY <4>4 DEF Writes, Prepared
          <5> QED
            BY <3>1, <4>4, <5>1 DEF LocalOwes, Writes, Opening
        <4>5. ASSUME l.pc = "delete", n.pc = "delete", n.ring = l.ring PROVE LocalOwes(n)
          BY <3>1, <4>5 DEF LocalOwes, Opening
        <4> QED
          BY <3>4, <2>1, <4>1, <4>2, <4>3, <4>4, <4>5, HideMoves DEF n, l
      <3>5. ASSUME Reveals(p), n.pc \in {"idle", "entry", "open", "restore"} PROVE LocalOwes(n)
        <4> HIDE DEF n, l
        <4>1. CASE n.pc # "restore"
          BY <3>5, <4>1 DEF LocalOwes, Opening
        <4>2. ASSUME NEW f \in l.todo, Reads(l, n, f, cipher[f].content, "restore"), l.pc = "open",
                     n.pc = "restore"
              PROVE  LocalOwes(n)
          BY <4>2 DEF LocalOwes, Reads, Opening
        <4>3. ASSUME NEW f \in l.todo, l.pc = "restore", n.pc = "restore",
                     n.ready = l.ready, n.todo = l.todo \ {f}
              PROVE  LocalOwes(n)
          BY <3>1, <4>3 DEF LocalOwes, Prepared, Opening
        <4> QED
          BY <3>5, <2>1, <4>1, <4>2, <4>3, RevealMoves DEF n, l
      <3>6. ASSUME Rotates(p), n.pc \in {"idle", "gate", "match"} \cup Due
            PROVE  LocalOwes(n)
        <4> HIDE DEF n, l
        <4>1. CASE n.pc \in {"idle", "clear"}
          BY <4>1 DEF LocalOwes, Opening
        <4>2. CASE n.pc = "gate" /\ n.ready = Nothing
          BY <4>2 DEF LocalOwes
        <4>3. ASSUME Opens(l, n) PROVE LocalOwes(n)
          BY <3>1, <4>3 DEF LocalOwes, Opens, Opening, Prepared, Nothing
        <4>4. ASSUME NEW f \in l.todo, l.pc = "decrypt",
                     Reads(l, n, f, EncryptTo(Members(l.ring), cipher[f].content), "rotate")
              PROVE  LocalOwes(n)
          BY <3>1, <3>2, <4>4 DEF LocalOwes, Reads, EncryptTo, Opening
        <4>5. ASSUME NEW f \in l.todo, l.pc = "rotate", Writes(l, n, f, "clear")
              PROVE  LocalOwes(n)
          <5>1. Prepared(n) = Prepared(l)
            BY <4>5 DEF Writes, Prepared
          <5> QED
            BY <3>1, <4>5, <5>1 DEF LocalOwes, Writes, Opening
        <4> QED
          BY <3>6, <2>1, <4>1, <4>2, <4>3, <4>4, <4>5, RotateMoves DEF n, l
      <3>7. ASSUME Records(p),
                   n.pc \in {"idle", "stamp", "purge", "add", "append", "allow", "record", "grant",
                             "remove"}
            PROVE  LocalOwes(n)
        <4> HIDE DEF n, l
        <4>1. CASE n.pc # "remove"
          BY <3>7, <4>1 DEF LocalOwes, Opening
        <4>2. CASE n.pc = "remove"
          <5>1. n.run \in CommandLines /\ n.run.verb = "remove-file"
            BY <3>1, <3>7, <2>1, <4>2, RecordMoves DEF n, l, LocalOwes
          <5> QED
            BY <4>2, <5>1 DEF LocalOwes, Opening
        <4> QED
          BY <4>1, <4>2
      <3> QED
        BY <3>3, <3>4, <3>5, <3>6, <3>7, <2>1, OwnStep
    <2> QED
      BY <2>1, <2>2 DEF LoopInv
  <1> QED
    BY <1>1, <1>2

\* A hide that deletes, deletes copies.
LEMMA HideCopiesKept ==
  ASSUME LoopInv, [Next]_vars, NEW p \in Proc, HideCopies(p),
         Own(p) \/ LeavesHidden(p) \/ UNCHANGED vars
  PROVE  HideCopies(p)'
  <1> DEFINE l == proc[p]
             n == proc'[p]
             Holds(m) ==
               /\ WillDelete(m) =>
                    \A f \in Prepared(m) : plain'[f] # None /\ m.ready[f].content = plain'[f]
               /\ WillDelete(m) /\ m.pc = "write" => \A f \in Prepared(m) \ m.todo : Copied(f)'
               /\ m.pc = "delete" => \A f \in m.todo : Copied(f)'
  <1>0. /\ TypeInv /\ LocalOwes(l) /\ l \in Process /\ FilesOK
        /\ l.todo \subseteq File /\ Prepared(l) \subseteq File
    BY MeOK DEF LoopInv, Process, Prepared
  <1>1. Holds(n) => HideCopies(p)'
    BY DEF HideCopies, WillDelete, Prepared
  <1>2. /\ WillDelete(l) =>
             \A f \in Prepared(l) : plain[f] # None /\ l.ready[f].content = plain[f]
        /\ WillDelete(l) /\ l.pc = "write" => \A f \in Prepared(l) \ l.todo : Copied(f)
        /\ l.pc = "delete" => \A f \in l.todo : Copied(f)
    BY DEF HideCopies
  <1>3. CASE UNCHANGED vars
    BY <1>3 DEF HideCopies, WillDelete, Prepared, Copied, vars, files
  <1>4. CASE ~Own(p) /\ LeavesHidden(p)
    <2>1. n = l
      BY <1>0, <1>4, OthersStay
    <2> HIDE DEF n
    <2>2. Holds(l)
      BY <1>2, <1>4 DEF LeavesHidden, Copied, KeepsOpen
    <2> QED
      BY <1>1, <2>1, <2>2
  <1>5. ASSUME Hides(p) PROVE Holds(n)
    <2> HIDE DEF l, n
    <2>1. CASE n.pc = "idle"
      BY <2>1 DEF WillDelete
    <2>2. CASE n.pc = "read" /\ Prepared(n) = {}
      BY <2>2 DEF WillDelete
    <2>3. ASSUME NEW f \in l.todo, l.pc = "read", plain[f] # None,
                 Reads(l, n, f, EncryptTo(Members(l.ring), plain[f]), "write"),
                 UNCHANGED <<ring, files, git>>
          PROVE  Holds(n)
      <3>1. WillDelete(n) => WillDelete(l)
        BY <2>3 DEF WillDelete, Reads
      <3>2. n.pc \in {"read", "write"} /\ (n.pc = "write" => n.todo = Prepared(n))
        BY <2>3 DEF Reads
      <3>3. WillDelete(l) =>
              \A g \in Prepared(n) : plain[g] # None /\ n.ready[g].content = plain[g]
        BY <1>0, <1>2, <2>3 DEF Reads, EncryptTo
      <3> QED
        BY <2>3, <3>1, <3>2, <3>3 DEF files
    <2>4. ASSUME NEW f \in l.todo, l.pc = "write", Writes(l, n, f, "delete"),
                 n.pc = "delete" => ~l.run.keep,
                 \/ Puts(f, l.ready[f]) /\ n.failed = l.failed
                 \/ UNCHANGED cipher /\ n.failed,
                 UNCHANGED plain
          PROVE  Holds(n)
      <3>1. Prepared(n) = Prepared(l) /\ f \in Prepared(l)
        BY <1>0, <2>4 DEF Writes, Prepared, LocalOwes
      <3>2. WillDelete(n) \/ n.pc = "delete" => WillDelete(l) /\ Puts(f, l.ready[f])
        BY <2>4 DEF WillDelete, Writes
      <3>3. ASSUME WillDelete(l), Puts(f, l.ready[f])
            PROVE  \A g \in {f} \cup (Prepared(l) \ l.todo) : Copied(g)'
        <4>1. Copied(f)'
          <5>1. /\ plain[f] # None /\ l.ready[f].content = plain[f]
                /\ l.ready[f].to = Members(l.ring) /\ l.ready[f] # None /\ Members(l.ring) # {}
            BY <1>0, <1>2, <2>4, <3>1, <3>3 DEF LocalOwes, Prepared
          <5> QED
            BY <5>1, <2>4, <3>3 DEF Copied, Puts
        <4>2. ASSUME NEW g \in Prepared(l) \ l.todo PROVE Copied(g)'
          <5>1. Copied(g) /\ g # f /\ g \in File
            BY <1>0, <1>2, <2>4, <3>3, <4>2
          <5> QED
            BY <5>1, <2>4, <3>3 DEF Copied, Puts
        <4> QED
          BY <4>1, <4>2
      <3>4. ASSUME WillDelete(n)
            PROVE  /\ \A g \in Prepared(n) : plain'[g] # None /\ n.ready[g].content = plain'[g]
                   /\ \A g \in Prepared(n) \ n.todo : Copied(g)'
        <4>1. n.pc = "write" /\ n.ready = l.ready /\ n.todo = l.todo \ {f}
          BY <2>4, <3>4 DEF WillDelete, Writes
        <4> QED
          BY <1>2, <2>4, <3>1, <3>2, <3>3, <3>4, <4>1
      <3>5. ASSUME n.pc = "delete" PROVE \A g \in n.todo : Copied(g)'
        BY <2>4, <3>2, <3>3, <3>5 DEF Writes
      <3> QED
        BY <3>4, <3>5
    <2>5. ASSUME NEW f \in l.todo, l.pc = "delete", n.pc = "delete", n.todo = l.todo \ {f},
                 \A g \in File \ {f} : plain'[g] = plain[g], UNCHANGED cipher
          PROVE  Holds(n)
      <3>1. \A g \in n.todo : Copied(g)'
        BY <1>0, <1>2, <2>5 DEF Copied
      <3> QED
        BY <2>5, <3>1 DEF WillDelete
    <2> QED
      BY <1>0, <1>5, <2>1, <2>2, <2>3, <2>4, <2>5, HideMoves DEF l, n
  <1>6. CASE n.pc \notin {"read", "write", "delete"}
    BY <1>1, <1>6 DEF WillDelete
  <1> HIDE DEF l, n, Holds
  <1> QED
    BY <1>0, <1>1, <1>3, <1>4, <1>5, <1>6, OwnStep DEF n, Due

\* Whoever writes the consent record writes back what was in it.
LEMMA GrantKeepsKept ==
  ASSUME LoopInv, [Next]_vars, NEW p \in Proc, GrantKeeps(p), RecordWaits \/ UNCHANGED vars
  PROVE  GrantKeeps(p)'
  <1> DEFINE l == proc[p]
             n == proc'[p]
  <1>0. TypeInv
    BY DEF LoopInv
  <1>1. CASE UNCHANGED vars
    BY <1>1 DEF GrantKeeps, vars, files
  <1>2. CASE ~Own(p) /\ RecordWaits
    <2>1. n = l
      BY <1>0, <1>2, OthersStay
    <2> QED
      BY <1>2, <2>1 DEF GrantKeeps, RecordWaits
  <1>3. CASE Records(p)
    BY <1>0, <1>3, RecordMoves DEF GrantKeeps
  <1>4. CASE n.pc # "grant"
    BY <1>4 DEF GrantKeeps
  <1> HIDE DEF l, n
  <1>5. Hides(p) => n.pc # "grant"
    BY <1>0, HideStep DEF n
  <1> QED
    BY <1>0, <1>1, <1>2, <1>3, <1>4, <1>5, OwnStep DEF n, Due

\* Consent is taken back by remove-key only, and a ciphertext leaves the
\* index by a commit only.
LEMMA AllowedStays ==
  ASSUME TypeInv, [Next]_vars, \A q \in Proc : GrantKeeps(q),
         ~CommitAll, \A q \in Proc : ~RingPurge(q), NEW f \in File, Allowed(f)
  PROVE  Allowed(f)'
  <1>1. consent \subseteq consent'
    BY WhoChanges DEF WriteRecord, GrantKeeps
  <1>2. index[f] # None => index'[f] # None
    <2>1. ASSUME Pull PROVE index[f] # None => index'[f] # None
      <3>1. PICK u \in Upstream, c \in Secret :
              index' = [g \in File |-> IF g \in u.fresh THEN EncryptTo(Members(u.ring), c)
                                                        ELSE index[g]]
        BY <2>1 DEF Pull
      <3>2. EncryptTo(Members(u.ring), c) \in Cipher
        BY UpstreamAssumption, EncryptOK DEF Commit
      <3> QED
        BY <3>1, <3>2, NoneAssumption
    <2> QED
      BY <2>1, WhoChanges
  <1> QED
    BY <1>1, <1>2 DEF Allowed

\* A hide writes what it was allowed to.
LEMMA HideAllowedKept ==
  ASSUME LoopInv, [Next]_vars, NEW p \in Proc, HideAllowed(p),
         \A q \in Proc : GrantKeeps(q), HideWaits \/ UNCHANGED vars
  PROVE  HideAllowed(p)'
  <1> DEFINE l == proc[p]
             n == proc'[p]
             May == \A f \in n.todo \cup Pending(n) : Allowed(f)'
  <1>0. TypeInv /\ LocalOwes(l)
    BY DEF LoopInv
  <1>1. May => HideAllowed(p)'
    BY DEF HideAllowed, Pending, Prepared
  <1>2. CASE UNCHANGED vars
    BY <1>2 DEF HideAllowed, Pending, Prepared, Allowed, vars, files, git
  <1>3. CASE ~Own(p) /\ HideWaits
    <2>1. n = l
      BY <1>0, <1>3, OthersStay
    <2>2. ASSUME l.pc \in {"read", "write"}, NEW f \in File, Allowed(f) PROVE Allowed(f)'
      <3>1. ~CommitAll /\ \A q \in Proc : ~RingPurge(q)
        BY <1>3, <2>2 DEF HideWaits
      <3> QED
        BY <1>0, <2>2, <3>1, AllowedStays
    <2>3. l.todo \cup Pending(l) \subseteq File
      BY <1>0, MeOK DEF Process, Pending, Prepared
    <2> QED
      BY <2>1, <2>2, <2>3 DEF HideAllowed, Pending, Prepared
  <1>4. CASE n.pc \notin {"read", "write"}
    BY <1>4 DEF HideAllowed
  <1>5. ASSUME Hides(p), n.pc \in {"read", "write"} PROVE May
    <2>1. l.pc \in {"read", "write"} => \A f \in l.todo \cup Pending(l) : Allowed(f)
      BY DEF HideAllowed
    <2> HIDE DEF l, n
    <2>2. CASE /\ n.pc = "read" /\ HideGates(n.todo) /\ Prepared(n) = {}
               /\ UNCHANGED <<ring, files, git>>
      BY <2>2 DEF HideGates, Allowed, Pending, files, git
    <2>3. ASSUME NEW f \in l.todo, l.pc = "read", NEW o, Reads(l, n, f, o, "write"),
                 UNCHANGED <<ring, files, git>>
          PROVE  May
      <3>1. n.todo \cup Pending(n) \subseteq l.todo \cup Pending(l)
        BY <2>3 DEF Reads, Pending
      <3> QED
        BY <2>1, <2>3, <3>1 DEF Allowed, files, git
    <2>4. ASSUME NEW f \in l.todo, l.pc = "write", Writes(l, n, f, "delete"),
                 UNCHANGED <<git, consent>>
          PROVE  May
      <3>1. n.todo \cup Pending(n) \subseteq l.todo \cup Pending(l)
        BY <1>5, <2>4 DEF Writes, Pending
      <3> QED
        BY <2>1, <2>4, <3>1 DEF Allowed, git
    <2> HIDE DEF May
    <2> QED
      BY <1>0, <1>5, <2>2, <2>3, <2>4, HideMoves DEF l, n
  <1> HIDE DEF May, l, n
  <1> QED
    BY <1>0, <1>1, <1>2, <1>3, <1>4, <1>5, OwnStep DEF n, Due

\* What rotates write keeps its content.
LEMMA RotatedKeeps ==
  ASSUME LoopInv, \A q \in Proc : RotateCopies(q), NEW fs, OnlyRotated(fs),
         NEW f \in File, f \in fs, cipher[f] # None
  PROVE  cipher'[f] # None /\ cipher'[f].content = cipher[f].content
  <1>1. CASE cipher'[f] = cipher[f]
    BY <1>1
  <1>2. ASSUME NEW q \in Proc, RotateWrite(q), cipher'[f] # cipher[f]
        PROVE  cipher'[f] # None /\ cipher'[f].content = cipher[f].content
    <2>1. /\ proc[q].pc = "rotate" /\ f \in proc[q].todo /\ cipher'[f] = proc[q].ready[f]
          /\ proc[q].todo \subseteq Prepared(proc[q])
      BY <1>2 DEF RotateWrite, LoopInv, LocalOwes, TypeInv, TypeOK
    <2> QED
      BY <2>1 DEF RotateCopies, Pending, Prepared
  <1> QED
    BY <1>1, <1>2 DEF OnlyRotated

\* A rotate writes what it read.
LEMMA RotateCopiesKept ==
  ASSUME LoopInv, [Next]_vars, NEW p \in Proc, RotateCopies(p),
         \A q \in Proc : RotateCopies(q), RotateWaits \/ UNCHANGED vars
  PROVE  RotateCopies(p)'
  <1> DEFINE l == proc[p]
             n == proc'[p]
             Holds == \A f \in Pending(n) :
                        cipher'[f] # None /\ n.ready[f].content = cipher'[f].content
  <1>0. /\ TypeInv /\ LocalOwes(l)
        /\ l.todo \subseteq File /\ Prepared(l) \subseteq File
    BY MeOK DEF LoopInv, Prepared, Process
  <1>1. Holds => RotateCopies(p)'
    BY DEF RotateCopies, Pending, Prepared
  <1>2. CASE UNCHANGED vars
    BY <1>2 DEF RotateCopies, Pending, Prepared, vars, files
  <1>3. CASE ~Own(p) /\ RotateWaits
    <2>1. n = l
      BY <1>0, <1>3, OthersStay
    <2>2. ASSUME l.pc \in {"decrypt", "rotate"}, NEW f \in Pending(l)
          PROVE  cipher'[f] # None /\ l.ready[f].content = cipher'[f].content
      <3>1. cipher[f] # None /\ l.ready[f].content = cipher[f].content
        BY <2>2 DEF RotateCopies
      <3>2. f \in File /\ OnlyRotated(Pending(l))
        BY <1>0, <1>3, <2>2 DEF RotateWaits, Pending
      <3> QED
        BY <2>2, <3>1, <3>2, RotatedKeeps
    <2> QED
      BY <2>1, <2>2 DEF RotateCopies, Pending, Prepared
  <1>4. CASE n.pc \notin {"decrypt", "rotate"}
    BY <1>4 DEF RotateCopies
  <1>5. ASSUME Rotates(p), n.pc \in {"decrypt", "rotate"} PROVE Holds
    <2>1. l.pc \in {"decrypt", "rotate"} =>
            \A f \in Pending(l) : cipher[f] # None /\ l.ready[f].content = cipher[f].content
      BY DEF RotateCopies
    <2> HIDE DEF l, n
    <2>2. ASSUME Opens(l, n) PROVE Holds
      <3>1. Pending(n) = {}
        BY <1>0, <1>5, <2>2 DEF LocalOwes, Opens, Pending, Prepared, Nothing
      <3> QED
        BY <3>1
    <2>3. ASSUME NEW f \in l.todo, l.pc = "decrypt", cipher[f] # None,
                 Reads(l, n, f, EncryptTo(Members(l.ring), cipher[f].content), "rotate"),
                 UNCHANGED <<ring, files, git>>
          PROVE  Holds
      <3>1. Pending(n) = Prepared(l) \cup {f} /\ Pending(l) = Prepared(l)
        BY <2>3 DEF Reads, Pending
      <3> QED
        BY <1>0, <2>1, <2>3, <3>1 DEF Reads, files, EncryptTo
    <2>4. ASSUME NEW f \in l.todo, l.pc = "rotate", Writes(l, n, f, "clear"),
                 Puts(f, l.ready[f]) \/ UNCHANGED cipher
          PROVE  Holds
      BY <1>0, <1>5, <2>1, <2>4 DEF Writes, Pending, Puts
    <2> HIDE DEF Holds
    <2> QED
      BY <1>0, <1>5, <2>2, <2>3, <2>4, RotateMoves DEF l, n
  <1> HIDE DEF Holds, l, n
  <1>6. Hides(p) => n.pc \notin {"decrypt", "rotate"}
    BY <1>0, HideStep DEF n
  <1> QED
    BY <1>0, <1>1, <1>2, <1>3, <1>4, <1>5, <1>6, OwnStep DEF n, Due

\* A reveal writes what the ciphertexts hold.
LEMMA RevealCopiesKept ==
  ASSUME LoopInv, [Next]_vars, NEW p \in Proc, RevealCopies(p),
         \A q \in Proc : RotateCopies(q), RevealWaits \/ UNCHANGED vars
  PROVE  RevealCopies(p)'
  <1> DEFINE l == proc[p]
             n == proc'[p]
             Holds == \A f \in Pending(n) :
                        f \notin exposed' /\ cipher'[f] # None /\ n.ready[f] = cipher'[f].content
  <1>0. TypeInv /\ LocalOwes(l) /\ l.todo \subseteq File /\ Prepared(l) \subseteq File
    BY MeOK DEF LoopInv, Prepared, Process
  <1>1. Holds => RevealCopies(p)'
    BY DEF RevealCopies, Pending, Prepared
  <1>2. CASE UNCHANGED vars
    BY <1>2 DEF RevealCopies, Pending, Prepared, vars, files, git
  <1>3. CASE ~Own(p) /\ RevealWaits
    <2>1. n = l
      BY <1>0, <1>3, OthersStay
    <2>2. ASSUME l.pc \in {"open", "restore"}, NEW f \in Pending(l)
          PROVE  f \notin exposed' /\ cipher'[f] # None /\ l.ready[f] = cipher'[f].content
      <3>1. f \notin exposed /\ cipher[f] # None /\ l.ready[f] = cipher[f].content
        BY <2>2 DEF RevealCopies
      <3>2. f \in File /\ OnlyRotated(Pending(l)) /\ ~CommitAll
        BY <1>0, <1>3, <2>2 DEF RevealWaits, Pending
      <3>3. cipher'[f] # None /\ cipher'[f].content = cipher[f].content
        BY <2>2, <3>1, <3>2, RotatedKeeps
      <3> QED
        BY <3>1, <3>2, <3>3, WhoChanges
    <2> QED
      BY <2>1, <2>2 DEF RevealCopies, Pending, Prepared
  <1>4. CASE n.pc \notin {"open", "restore"}
    BY <1>4 DEF RevealCopies
  <1>5. ASSUME Reveals(p), n.pc \in {"open", "restore"} PROVE Holds
    <2>1. l.pc \in {"open", "restore"} =>
            \A f \in Pending(l) :
              f \notin exposed /\ cipher[f] # None /\ l.ready[f] = cipher[f].content
      BY DEF RevealCopies
    <2> HIDE DEF l, n
    <2>2. CASE n.pc = "open" /\ Prepared(n) = {}
      BY <2>2 DEF Pending
    <2>3. ASSUME NEW f \in l.todo, l.pc = "open", f \notin exposed, cipher[f] # None,
                 Reads(l, n, f, cipher[f].content, "restore"), UNCHANGED <<files, git>>
          PROVE  Holds
      <3>1. Pending(n) = Prepared(l) \cup {f} /\ Pending(l) = Prepared(l)
        BY <2>3 DEF Reads, Pending
      <3> QED
        BY <1>0, <2>1, <2>3, <3>1 DEF Reads, files, git
    <2>4. ASSUME NEW f \in l.todo, l.pc = "restore", n.pc = "restore", n.ready = l.ready,
                 n.todo = l.todo \ {f}, UNCHANGED <<cipher, git>>
          PROVE  Holds
      BY <2>1, <2>4 DEF Pending, git
    <2> HIDE DEF Holds
    <2> QED
      BY <1>0, <1>5, <2>2, <2>3, <2>4, RevealMoves DEF l, n
  <1> HIDE DEF Holds, l, n
  <1>6. Hides(p) => n.pc \notin {"open", "restore"}
    BY <1>0, HideStep DEF n
  <1> QED
    BY <1>0, <1>1, <1>2, <1>3, <1>4, <1>5, <1>6, OwnStep DEF n, Due

\* An add-file saves all of the manifest.
LEMMA ListingKept ==
  ASSUME LoopInv, [Next]_vars, NEW p \in Proc, Listing(p), ManifestWaits \/ UNCHANGED vars
  PROVE  Listing(p)'
  <1> DEFINE l == proc[p]
             n == proc'[p]
  <1>0. TypeInv
    BY DEF LoopInv
  <1>1. CASE UNCHANGED vars
    BY <1>1 DEF Listing, Saves, vars, files
  <1>2. CASE ~Own(p) /\ ManifestWaits
    <2>1. n = l
      BY <1>0, <1>2, OthersStay
    <2>2. Saves(l) => UNCHANGED tracked
      BY <1>2 DEF ManifestWaits
    <2> QED
      BY <2>1, <2>2 DEF Listing, Saves
  <1>3. CASE Records(p)
    <2>1. Saves(n) =>
            UNCHANGED tracked /\ (n.list = tracked \/ (Saves(l) /\ l.list \subseteq n.list))
      BY <1>0, <1>3, RecordMoves DEF Saves
    <2> QED
      BY <2>1 DEF Listing, Saves
  <1>4. CASE ~Saves(n)
    BY <1>4 DEF Listing, Saves
  <1> HIDE DEF l, n
  <1>5. Hides(p) => ~Saves(n)
    BY <1>0, HideStep DEF n, Saves
  <1> QED
    BY <1>0, <1>1, <1>2, <1>3, <1>4, <1>5, OwnStep DEF n, Due, Saves

\* A rotate behind its gate leaves no orphan.
LEMMA OrphanFreeKept ==
  ASSUME LoopInv, [Next]_vars, NEW p \in Proc, OrphanFree(p), \A q \in Proc : Listing(q),
         OrphanWaits \/ UNCHANGED vars
  PROVE  OrphanFree(p)'
  <1> DEFINE l == proc[p]
             n == proc'[p]
             Holds == /\ n.pc = "orphans" => n.list \subseteq tracked'
                      /\ n.pc \in Looked => \A f \in File : index'[f] # None => f \in tracked'
  <1>0. TypeInv
    BY DEF LoopInv
  <1>1. Holds => OrphanFree(p)'
    BY DEF OrphanFree, Orphans, Looked, Loaded, Due
  <1>2. /\ l.pc = "orphans" => l.list \subseteq tracked
        /\ l.pc \in Looked => \A f \in File : index[f] # None => f \in tracked
    BY DEF OrphanFree, Orphans
  <1>3. CASE UNCHANGED vars
    BY <1>1, <1>2, <1>3 DEF vars, files, git
  <1>4. CASE ~Own(p) /\ OrphanWaits
    <2>1. n = l
      BY <1>0, <1>4, OthersStay
    <2>2. l.pc \in Loaded => tracked \subseteq tracked'
      <3>1. ASSUME NEW q \in Proc, SaveManifest(q), ~SavesRemoval(q)
            PROVE  tracked \subseteq tracked'
        <4>1. proc[q].pc = "add" /\ proc[q].run.verb = "add-file"
          BY <3>1, <1>0 DEF SaveManifest, SavesRemoval, TypeInv, Local
        <4> QED
          BY <3>1, <4>1 DEF SaveManifest, Listing, Saves
      <3>2. l.pc \in Loaded => ~Pull /\ \A q \in Proc : ~SavesRemoval(q)
        BY <1>4 DEF OrphanWaits
      <3> QED
        BY <3>1, <3>2, WhoChanges
    <2>3. l.pc \in Looked => UNCHANGED index
      <3>1. l.pc \in Looked => ~Pull /\ ~CommitAll
        BY <1>4 DEF OrphanWaits, Looked
      <3> QED
        BY <3>1, WhoChanges
    <2>4. Looked \subseteq Loaded /\ "orphans" \in Loaded
      BY DEF Looked, Loaded, Due
    <2> HIDE DEF n, l
    <2> QED
      BY <1>1, <1>2, <2>1, <2>2, <2>3, <2>4
  <1>5. ASSUME Rotates(p) PROVE Holds
    <2> HIDE DEF l, n
    <2>1. CASE n.pc \in {"idle", "gate"}
      BY <2>1 DEF Looked, Loaded, Due
    <2>2. ASSUME Opens(l, n), UNCHANGED <<files, git>> PROVE Holds
      <3>1. CASE n.pc \in {"match", "load"}
        BY <3>1 DEF Looked, Loaded, Due
      <3>2. CASE n.pc = "orphans" /\ n.list = tracked
        BY <2>2, <3>2 DEF Looked, files
      <3>3. ASSUME l.pc \in {"orphans", "scan"}, n.pc \in {"scan", "decrypt", "clear"},
                   l.pc = "orphans" => Orphans(l.list) = {}
            PROVE  Holds
        <4>1. \A f \in File : index[f] # None => f \in tracked
          BY <1>2, <3>3 DEF Orphans, Looked, Loaded, Due
        <4> QED
          BY <2>2, <3>3, <4>1 DEF files, git
      <3> HIDE DEF Holds
      <3> QED
        BY <2>2, <3>1, <3>2, <3>3 DEF Opens
    <2>3. ASSUME l.pc \in {"decrypt", "rotate"}, n.pc \in Looked, UNCHANGED <<tracked, index>>
          PROVE  Holds
      BY <1>2, <2>3 DEF Looked, Loaded, Due
    <2>4. ASSUME NEW f, NEW o, Reads(l, n, f, o, "rotate"), l.pc = "decrypt"
          PROVE  n.pc \in Looked
      BY <2>4 DEF Reads, Looked, Loaded, Due
    <2>5. ASSUME NEW f, Writes(l, n, f, "clear"), l.pc = "rotate" PROVE n.pc \in Looked
      BY <2>5 DEF Writes, Looked, Loaded, Due
    <2> HIDE DEF Holds
    <2> QED
      BY <1>0, <1>5, <2>1, <2>2, <2>3, <2>4, <2>5, RotateMoves DEF l, n, files, git
  <1>6. CASE n.pc \notin Loaded
    BY <1>1, <1>6 DEF Loaded, Looked, Due
  <1> HIDE DEF Holds, l, n
  <1>7. Hides(p) => n.pc \notin Loaded
    BY <1>0, HideStep DEF n, Loaded, Due
  <1> QED
    BY <1>0, <1>1, <1>3, <1>4, <1>5, <1>6, <1>7, OwnStep DEF n, Loaded, Due

\* A rotate does the whole working set.
LEMMA RotateDeliversKept ==
  ASSUME LoopInv, [Next]_vars, NEW p \in Proc, RotateDelivers(p),
         Own(p) \/ LeavesWorkingSet(p) \/ UNCHANGED vars
  PROVE  RotateDelivers(p)'
  <1> DEFINE l == proc[p]
             n == proc'[p]
             Running == {"gate", "match"} \cup Due
             Done(f) == \/ cipher'[f].to = Members(ring')
                        \/ n.pc \in {"orphans", "scan"} /\ f \in n.list
                        \/ n.pc = "decrypt" /\ f \in n.todo \cup Prepared(n)
                        \/ n.pc = "rotate" /\ (f \in n.todo \/ n.failed)
             Holds == /\ n.pc \in Running => n.ring = ring'
                      /\ n.pc \in Loaded => \A f \in WorkingSet' : Done(f)
  <1>0. /\ TypeInv /\ LocalOwes(l) /\ l \in Process /\ FilesOK
        /\ l.todo \subseteq File /\ Prepared(l) \subseteq File
    BY MeOK DEF LoopInv, Prepared, Process
  <1>1. Holds => RotateDelivers(p)'
    BY DEF RotateDelivers, Prepared, Members, Loaded, Due
  <1>2. /\ l.pc \in Running => l.ring = ring
        /\ l.pc \in Loaded =>
             \A f \in WorkingSet :
               \/ cipher[f].to = Members(ring)
               \/ l.pc \in {"orphans", "scan"} /\ f \in l.list
               \/ l.pc = "decrypt" /\ f \in l.todo \cup Prepared(l)
               \/ l.pc = "rotate" /\ (f \in l.todo \/ l.failed)
    BY DEF RotateDelivers
  <1>3. CASE UNCHANGED vars
    BY <1>3 DEF RotateDelivers, Prepared, WorkingSet, Members, vars, files
  <1>4. ASSUME ~Own(p), LeavesWorkingSet(p) PROVE Holds
    <2>1. n = l
      BY <1>0, <1>4, OthersStay
    <2> HIDE DEF n
    <2>2. /\ l.pc \in Running => ring' = ring
          /\ l.pc \in Loaded =>
               \A f \in WorkingSet' :
                 \/ f \in WorkingSet /\ cipher'[f].to = cipher[f].to
                 \/ cipher'[f].to = Members(ring)
      BY <1>4 DEF LeavesWorkingSet
    <2>3. Loaded \subseteq Running
      BY DEF Loaded
    <2> HIDE DEF l, Running
    <2>4. ASSUME n.pc \in Loaded, NEW f \in WorkingSet' PROVE Done(f)
      BY <1>2, <2>1, <2>2, <2>3, <2>4
    <2> QED
      BY <1>2, <2>1, <2>2, <2>4
  <1>5. ASSUME Rotates(p) PROVE Holds
    <2> HIDE DEF l, n
    <2>1. CASE n.pc = "idle"
      BY <2>1 DEF Loaded, Due
    <2>2. CASE n.pc = "gate" /\ n.ring = ring /\ UNCHANGED ring
      BY <2>2 DEF Loaded, Due
    <2>3. ASSUME Opens(l, n), UNCHANGED <<ring, files, git>> PROVE Holds
      <3>1. WorkingSet' = WorkingSet /\ UNCHANGED <<ring, cipher, tracked>>
        BY <2>3 DEF WorkingSet, files
      <3>2. n.ring = ring'
        BY <1>2, <2>3 DEF Opens, Opening, Due
      <3>3. CASE n.pc \in {"match", "load"}
        BY <3>2, <3>3 DEF Loaded, Due
      <3>4. CASE n.pc = "orphans" /\ n.list = tracked
        BY <3>1, <3>2, <3>4 DEF WorkingSet
      <3>5. ASSUME l.pc \in {"orphans", "scan"}, n.pc \in {"scan", "decrypt", "clear"},
                   l.list \cap WorkingSet \subseteq Scope(n)
            PROVE  Holds
        <4>1. \A f \in WorkingSet : cipher[f].to = Members(ring) \/ f \in Scope(n)
          BY <1>2, <3>5 DEF Loaded, Due
        <4>2. \/ n.pc = "scan" /\ Scope(n) = n.list
              \/ n.pc = "decrypt" /\ Scope(n) = n.todo
              \/ n.pc = "clear" /\ Scope(n) = {}
          BY <3>5 DEF Scope
        <4> QED
          BY <3>1, <3>2, <4>1, <4>2
      <3> HIDE DEF Holds
      <3> QED
        BY <2>3, <3>3, <3>4, <3>5 DEF Opens
    <2>4. ASSUME NEW f \in l.todo, l.pc = "decrypt", NEW o, Reads(l, n, f, o, "rotate"),
                 UNCHANGED <<ring, files, git>>
          PROVE  Holds
      <3>1. WorkingSet' = WorkingSet /\ UNCHANGED cipher
        BY <2>4 DEF WorkingSet, files
      <3>2. /\ n.pc = "decrypt" => l.todo \cup Prepared(l) \subseteq n.todo \cup Prepared(n)
            /\ n.pc = "rotate" => l.todo \cup Prepared(l) \subseteq n.todo
            /\ n.pc \in {"decrypt", "rotate"} /\ n.ring = l.ring
        BY <2>4 DEF Reads
      <3> QED
        BY <1>2, <2>4, <3>1, <3>2 DEF Loaded, Due
    <2>5. ASSUME NEW f \in l.todo, l.pc = "rotate", Writes(l, n, f, "clear"),
                 \/ Puts(f, l.ready[f]) /\ n.failed = l.failed
                 \/ UNCHANGED cipher /\ n.failed,
                 UNCHANGED <<ring, tracked>>
          PROVE  Holds
      <3>1. n.pc \in {"rotate", "clear"} /\ n.ring = ring' /\ l.ring = ring
        BY <1>2, <2>5 DEF Writes, Due
      <3>2. ASSUME NEW g \in WorkingSet' PROVE Done(g)
        <4>0. g \in File /\ g \in tracked /\ cipher'[g] # None
          BY <1>0, <2>5, <3>2 DEF WorkingSet, FilesOK
        <4>1. CASE UNCHANGED cipher /\ n.failed
          BY <2>5, <3>1, <4>1 DEF Writes
        <4>2. CASE Puts(f, l.ready[f]) /\ n.failed = l.failed /\ g = f
          <5>1. l.ready[f].to = Members(ring)
            BY <1>0, <2>5, <3>1 DEF LocalOwes
          <5> QED
            BY <2>5, <4>2, <5>1 DEF Puts
        <4>3. CASE Puts(f, l.ready[f]) /\ n.failed = l.failed /\ g # f
          <5>1. cipher'[g] = cipher[g] /\ g \in WorkingSet
            BY <4>0, <4>3 DEF Puts, WorkingSet
          <5>2. cipher[g].to = Members(ring) \/ g \in l.todo \/ l.failed
            BY <1>2, <2>5, <5>1 DEF Loaded, Due
          <5>3. n.pc = "clear" => ~l.failed /\ g \notin l.todo
            BY <2>5, <4>3 DEF Writes
          <5>4. n.pc = "rotate" => (g \in l.todo => g \in n.todo)
            BY <2>5, <4>3 DEF Writes
          <5> QED
            BY <2>5, <3>1, <4>3, <5>1, <5>2, <5>3, <5>4
        <4> QED
          BY <2>5, <4>1, <4>2, <4>3
      <3> QED
        BY <3>1, <3>2
    <2> HIDE DEF Holds
    <2> QED
      BY <1>0, <1>5, <2>1, <2>2, <2>3, <2>4, <2>5, RotateMoves DEF l, n
  <1>6. CASE n.pc \notin Running
    BY <1>1, <1>6 DEF Loaded
  <1> HIDE DEF Holds, l, n
  <1>7. Hides(p) => n.pc \notin Running
    BY <1>0, HideStep DEF n, Due
  <1> QED
    BY <1>0, <1>1, <1>3, <1>4, <1>5, <1>6, <1>7, OwnStep DEF n, Due
-----------------------------------------------------------------------------
(***************************************************************************)
(* The promises.                                                           *)
(***************************************************************************)

\* Only the end of a rotate takes a stamp away.
LEMMA StampClears ==
  ASSUME TypeInv, [Next]_vars, stamp # None, stamp' = None
  PROVE  \E p \in Proc : RotateClear(p)
  <1>1. ASSUME NEW p \in Proc, RingStamp(p) PROVE stamp' # None
    BY <1>1, NoneAssumption DEF RingStamp, TypeInv, Local
  <1> QED
    BY <1>1, WhoChanges

\* Initially nothing is owed.
LEMMA NothingOwed ==
  ASSUME Init, NEW p \in Proc
  PROVE  /\ HideCopies(p) /\ GrantKeeps(p) /\ HideAllowed(p)
         /\ RotateCopies(p) /\ RevealCopies(p)
         /\ Listing(p) /\ OrphanFree(p) /\ RotateDelivers(p)
  <1>1. proc[p].pc = "idle"
    BY DEF Init, Idle
  <1> QED
    BY <1>1 DEF HideCopies, WillDelete, GrantKeeps, HideAllowed, RotateCopies, RevealCopies,
                Listing, Saves, OrphanFree, RotateDelivers, Looked, Loaded, Due

\* At worst both copies exist, never neither.  A plaintext is deleted only by
\* a hide that made a copy of it: as long as nobody writes to a plaintext that
\* a hide in flight has read, or other content into a ciphertext it has
\* written, whatever else goes on in the clone.
THEOREM HideLosesNothing ==
  Spec /\ [][\A p \in Proc : Own(p) \/ LeavesHidden(p)]_vars => NeverNeither
  <1> DEFINE Inv == LoopInv /\ \A p \in Proc : HideCopies(p)
             R == \A p \in Proc : Own(p) \/ LeavesHidden(p)
             A == \A f \in File :
                    plain[f] # None /\ plain'[f] = None =>
                      /\ cipher[f] # None
                      /\ cipher[f].content = plain[f]
                      /\ cipher[f].to # {}
  <1>1. Init => Inv
    BY LoopInductive, NothingOwed
  <1>2. Inv /\ [Next]_vars /\ [R]_vars => Inv'
    BY LoopInductive, HideCopiesKept
  <1>3. ASSUME Inv, [Next]_vars PROVE A
    <2> SUFFICES ASSUME NEW f \in File, plain[f] # None, plain'[f] = None
                 PROVE  cipher[f] # None /\ cipher[f].content = plain[f] /\ cipher[f].to # {}
      OBVIOUS
    <2>0. FilesOK
      BY <1>3 DEF LoopInv, TypeInv, TypeOK, FilesOK
    <2>1. ASSUME NEW p \in Proc, HideDelete(p)
          PROVE  cipher[f] # None /\ cipher[f].content = plain[f] /\ cipher[f].to # {}
      <3>1. proc[p].pc = "delete" /\ f \in proc[p].todo
        BY <2>1, <2>0 DEF HideDelete, FilesOK
      <3> QED
        BY <3>1, <1>3 DEF HideCopies, Copied
    <2>2. ASSUME NEW p \in Proc, RevealWrite(p) PROVE FALSE
      <3>1. /\ proc[p].pc = "restore" /\ proc[p].todo \subseteq Prepared(proc[p])
            /\ \E g \in proc[p].todo : plain' = [plain EXCEPT ![g] = proc[p].ready[g]]
                                       \/ plain' = plain
        BY <2>2, <1>3 DEF RevealWrite, LoopInv, LocalOwes
      <3> QED
        BY <3>1, <2>0 DEF Prepared, FilesOK
    <2>3. ASSUME NEW g \in File, Edit(g) PROVE FALSE
      BY <2>3, <2>0, NoneAssumption DEF Edit, FilesOK
    <2> QED
      BY <1>3, <2>1, <2>2, <2>3, WhoChanges
  <1>4. [Next]_vars /\ Inv => [A]_vars
    BY <1>3
  <1> QED
    BY <1>1, <1>2, <1>4, PTL DEF Spec, NeverNeither

\* Nothing is encrypted for the first time without consent, however pulls and
\* remove-files, add-files, allows and other hides go on around the hide: it
\* is enough that a commit and the purge of remove-key wait for it, and that
\* no two commands are between reading and writing the consent record.
THEOREM FirstEncryptCorrect ==
  Spec /\ [][HideWaits /\ RecordWaits]_vars => FirstEncryptIsAllowed
  <1> DEFINE Inv == LoopInv /\ \A p \in Proc : GrantKeeps(p) /\ HideAllowed(p)
             A == \A f \in File, p \in Proc :
                    HideWrite(p) /\ cipher'[f] # cipher[f] => f \in consent \/ index[f] # None
  <1>1. Init => Inv
    BY LoopInductive, NothingOwed
  <1>2. Inv /\ [Next]_vars /\ [HideWaits /\ RecordWaits]_vars => Inv'
    BY LoopInductive, GrantKeepsKept, HideAllowedKept
  <1>3. ASSUME Inv, [Next]_vars PROVE A
    <2> SUFFICES ASSUME NEW f \in File, NEW p \in Proc, HideWrite(p), cipher'[f] # cipher[f]
                 PROVE  f \in consent \/ index[f] # None
      OBVIOUS
    <2>1. FilesOK
      BY <1>3 DEF LoopInv, TypeInv, TypeOK, FilesOK
    <2>2. proc[p].pc = "write" /\ f \in proc[p].todo
      BY <2>1 DEF HideWrite, FilesOK
    <2> QED
      BY <2>2, <1>3 DEF HideAllowed, Allowed
  <1>4. [Next]_vars /\ Inv => [A]_vars
    BY <1>3
  <1> QED
    BY <1>1, <1>2, <1>4, PTL DEF Spec, FirstEncryptIsAllowed

\* The pass changes the recipients of a content and never the content, among
\* any number of rotates over the same files: it is enough that hides,
\* remove-files, checkouts and pulls wait with what a rotate has read.
THEOREM ContentKept == Spec /\ [][RotateWaits]_vars => PassKeepsContent
  <1> DEFINE Inv == LoopInv /\ \A p \in Proc : RotateCopies(p)
             A == \A p \in Proc : RotateWrite(p) =>
                    \A f \in File : cipher'[f] # cipher[f] =>
                      cipher[f] # None /\ cipher'[f].content = cipher[f].content
  <1>1. Init => Inv
    BY LoopInductive, NothingOwed
  <1>2. Inv /\ [Next]_vars /\ [RotateWaits]_vars => Inv'
    BY LoopInductive, RotateCopiesKept
  <1>3. ASSUME Inv, [Next]_vars PROVE A
    <2> SUFFICES ASSUME NEW f \in File, NEW p \in Proc, RotateWrite(p), cipher'[f] # cipher[f]
                 PROVE  cipher[f] # None /\ cipher'[f].content = cipher[f].content
      OBVIOUS
    <2>1. FilesOK
      BY <1>3 DEF LoopInv, TypeInv, TypeOK, FilesOK
    <2>2. proc[p].pc = "rotate" /\ f \in proc[p].todo /\ cipher'[f] = proc[p].ready[f]
      BY <2>1 DEF RotateWrite, FilesOK
    <2> QED
      BY <2>2, <1>3 DEF RotateCopies, Pending
  <1>4. [Next]_vars /\ Inv => [A]_vars
    BY <1>3
  <1> QED
    BY <1>1, <1>2, <1>4, PTL DEF Spec, PassKeepsContent

\* reveal restores what the ciphertext holds and leaves tracked content alone,
\* also when a rotate replaces the ciphertext between its two phases: it is
\* enough that the others that write ciphertexts, and commits, wait for it.
THEOREM RevealCorrect == Spec /\ [][RevealWaits /\ RotateWaits]_vars => RevealRestores
  <1> DEFINE Inv == LoopInv /\ \A p \in Proc : RotateCopies(p) /\ RevealCopies(p)
             A == \A f \in File, p \in Proc :
                    RevealWrite(p) /\ plain'[f] # plain[f] =>
                      f \notin exposed /\ cipher[f] # None /\ plain'[f] = cipher[f].content
  <1>1. Init => Inv
    BY LoopInductive, NothingOwed
  <1>2. Inv /\ [Next]_vars /\ [RevealWaits /\ RotateWaits]_vars => Inv'
    BY LoopInductive, RotateCopiesKept, RevealCopiesKept
  <1>3. ASSUME Inv, [Next]_vars PROVE A
    <2> SUFFICES ASSUME NEW f \in File, NEW p \in Proc, RevealWrite(p), plain'[f] # plain[f]
                 PROVE  f \notin exposed /\ cipher[f] # None /\ plain'[f] = cipher[f].content
      OBVIOUS
    <2>1. FilesOK
      BY <1>3 DEF LoopInv, TypeInv, TypeOK, FilesOK
    <2>2. proc[p].pc = "restore" /\ f \in proc[p].todo /\ plain'[f] = proc[p].ready[f]
      BY <2>1 DEF RevealWrite, FilesOK
    <2> QED
      BY <2>2, <1>3 DEF RevealCopies, Pending
  <1>4. [Next]_vars /\ Inv => [A]_vars
    BY <1>3
  <1> QED
    BY <1>1, <1>2, <1>4, PTL DEF Spec, RevealRestores

\* A pass that consumes the stamp has delivered: what is on disk is encrypted
\* to exactly the ring, as long as the ring stays while the pass runs and what
\* others put into its working set is encrypted to that ring.
THEOREM PassHasDelivered ==
  Spec /\ [][\A p \in Proc : Own(p) \/ LeavesWorkingSet(p)]_vars => PassDelivers
  <1> DEFINE Inv == LoopInv /\ \A p \in Proc : RotateDelivers(p)
             R == \A p \in Proc : Own(p) \/ LeavesWorkingSet(p)
             A == stamp # None /\ stamp' = None =>
                    \A f \in tracked : cipher[f] # None => cipher[f].to = Members(ring)
  <1>1. Init => Inv
    BY LoopInductive, NothingOwed
  <1>2. Inv /\ [Next]_vars /\ [R]_vars => Inv'
    BY LoopInductive, RotateDeliversKept
  <1>3. ASSUME Inv, [Next]_vars PROVE A
    <2> SUFFICES ASSUME stamp # None, stamp' = None
                 PROVE  \A f \in tracked : cipher[f] # None => cipher[f].to = Members(ring)
      OBVIOUS
    <2>1. PICK p \in Proc : RotateClear(p)
      BY <1>3, StampClears DEF LoopInv
    <2> QED
      BY <2>1, <1>3 DEF RotateClear, RotateDelivers, WorkingSet, Loaded, Due
  <1>4. [Next]_vars /\ Inv => [A]_vars
    BY <1>3
  <1> QED
    BY <1>1, <1>2, <1>4, PTL DEF Spec, PassDelivers

\* No pass completes over a committed ciphertext that left the manifest,
\* although rotate reads the manifest and the git index in two steps and
\* everything else at other moments: it is enough that pulls and the saves of
\* remove-files wait from the first of the two on, commits from the second on,
\* and that add-files save one at a time.
THEOREM NoOrphanIsPassed == Spec /\ [][OrphanWaits /\ ManifestWaits]_vars => PassLeavesNoOrphan
  <1> DEFINE Inv == LoopInv /\ \A p \in Proc : Listing(p) /\ OrphanFree(p)
             A == stamp # None /\ stamp' = None =>
                    \A f \in File : index[f] # None => f \in tracked
  <1>1. Init => Inv
    BY LoopInductive, NothingOwed
  <1>2. Inv /\ [Next]_vars /\ [OrphanWaits /\ ManifestWaits]_vars => Inv'
    BY LoopInductive, ListingKept, OrphanFreeKept
  <1>3. ASSUME Inv, [Next]_vars PROVE A
    <2> SUFFICES ASSUME stamp # None, stamp' = None
                 PROVE  \A f \in File : index[f] # None => f \in tracked
      OBVIOUS
    <2>1. PICK p \in Proc : RotateClear(p)
      BY <1>3, StampClears DEF LoopInv
    <2> QED
      BY <2>1, <1>3 DEF RotateClear, OrphanFree, Orphans, Looked, Loaded, Due
  <1>4. [Next]_vars /\ Inv => [A]_vars
    BY <1>3
  <1> QED
    BY <1>1, <1>2, <1>4, PTL DEF Spec, PassLeavesNoOrphan
-----------------------------------------------------------------------------
(***************************************************************************)
(* Revocation.  StaleIsDue also needs that a ciphertext never leaves the   *)
(* worktree or the manifest behind the pass's back.  Then it is enough     *)
(* that ring changes wait for the commands that encrypt and one manifest   *)
(* is saved at a time.  Edits, commits, hides, reveals and rotates may     *)
(* overlap as they like.                                                   *)
(***************************************************************************)

\* No commit of another clone, no checkout over a ciphertext, no remove-file,
\* no death between the ring and its stamp.
NoRemoval ==
  /\ Upstream = {} /\ ~Checkouts
  /\ \A run \in CommandLines : run.verb # "remove-file"
  /\ "stamp" \notin DiesAt

\* Every ciphertext is tracked, and what is committed is on disk.
Matched ==
  /\ \A f \in File : cipher[f] # None => f \in tracked
  /\ \A f \in File : index[f] # None => cipher[f] # None

\* The ring of a command in flight is that of the worktree, and what it writes
\* or means to rotate is tracked.
Current(p) ==
  LET l == proc[p]
  IN  /\ l.pc \in {"read", "write", "stamp"} => l.ring = ring
      /\ l.pc \in {"read", "write", "decrypt", "rotate"} =>
           l.todo \cup Prepared(l) \subseteq tracked
      /\ l.pc \in {"orphans", "scan"} => l.list \subseteq tracked

PassInv == LoopInv /\ \A p \in Proc : Current(p) /\ Listing(p) /\ RotateDelivers(p)
StaleInv == PassInv /\ Matched /\ StaleIsDue

\* Nothing is pulled.
LEMMA NothingPulled == ASSUME NoRemoval PROVE ~Pull
  BY DEF Pull, NoRemoval

\* A ciphertext that changes is tracked and encrypted to the ring.
LEMMA CipherStep ==
  ASSUME NoRemoval, PassInv, Matched, [Next]_vars, NEW f \in File, cipher'[f] # cipher[f]
  PROVE  cipher'[f] # None /\ cipher'[f].to = Members(ring) /\ f \in tracked
  <1>0. FilesOK
    BY DEF PassInv, LoopInv, TypeInv, TypeOK, FilesOK
  <1>1. ASSUME NEW p \in Proc, HideWrite(p) \/ RotateWrite(p)
        PROVE  cipher'[f] # None /\ cipher'[f].to = Members(ring) /\ f \in tracked
    <2>1. /\ proc[p].pc \in {"write", "rotate"} /\ f \in proc[p].todo
          /\ cipher'[f] = proc[p].ready[f]
      BY <1>0, <1>1 DEF HideWrite, RotateWrite, FilesOK
    <2>2. /\ f \in Prepared(proc[p]) /\ proc[p].ready[f].to = Members(proc[p].ring)
          /\ f \in tracked /\ proc[p].ring = ring
      BY <2>1 DEF PassInv, LoopInv, LocalOwes, Current, RotateDelivers, Due
    <2> QED
      BY <2>1, <2>2 DEF Prepared
  <1>2. ASSUME NEW p \in Proc, RemoveFile(p) PROVE FALSE
    BY <1>2 DEF RemoveFile, PassInv, LoopInv, LocalOwes, NoRemoval
  <1>3. ASSUME NEW g \in File, Restore(g) PROVE FALSE
    BY <1>3 DEF Restore, Matched, NoRemoval
  <1> QED
    BY <1>1, <1>2, <1>3, NothingPulled, WhoChanges

\* The manifest only grows.
LEMMA TrackedGrows ==
  ASSUME NoRemoval, PassInv, [Next]_vars
  PROVE  tracked \subseteq tracked'
  <1>1. ASSUME NEW p \in Proc, SaveManifest(p) PROVE tracked \subseteq tracked'
    BY <1>1 DEF SaveManifest, PassInv, LoopInv, TypeInv, Local, LocalOwes, Listing, Saves, NoRemoval
  <1> QED
    BY <1>1, NothingPulled, WhoChanges

\* So ciphertexts stay tracked and on disk.
LEMMA MatchedKeeps ==
  ASSUME NoRemoval, PassInv, Matched, [Next]_vars
  PROVE  Matched'
  <1>1. ASSUME NEW f \in File, cipher'[f] # None PROVE f \in tracked'
    BY <1>1, CipherStep, TrackedGrows DEF Matched
  <1>2. ASSUME NEW f \in File, index'[f] # None PROVE cipher'[f] # None
    <2>1. cipher[f] # None
      BY <1>2, NothingPulled, WhoChanges DEF Matched, CommitAll
    <2> QED
      BY <2>1, CipherStep
  <1> QED
    BY <1>1, <1>2 DEF Matched

\* Commands stay current.
LEMMA CurrentKept ==
  ASSUME NoRemoval, PassInv, [Next]_vars, RingWaits, NEW p \in Proc
  PROVE  Current(p)'
  <1> DEFINE l == proc[p]
             n == proc'[p]
             Holds == /\ n.pc \in {"read", "write", "stamp"} => n.ring = ring'
                      /\ n.pc \in {"read", "write", "decrypt", "rotate"} =>
                           n.todo \cup Prepared(n) \subseteq tracked'
                      /\ n.pc \in {"orphans", "scan"} => n.list \subseteq tracked'
  <1>0. TypeInv /\ LocalOwes(l) /\ Current(p)
    BY DEF PassInv, LoopInv
  <1>1. Holds => Current(p)'
    BY DEF Current, Prepared
  <1>2. /\ l.pc \in {"read", "write", "stamp"} => l.ring = ring
        /\ l.pc \in {"read", "write", "decrypt", "rotate"} =>
             l.todo \cup Prepared(l) \subseteq tracked
        /\ l.pc \in {"orphans", "scan"} => l.list \subseteq tracked
    BY <1>0 DEF Current
  <1>3. tracked \subseteq tracked'
    BY TrackedGrows
  <1>4. ASSUME ~Own(p) PROVE Holds
    <2>1. n = l
      BY <1>0, <1>4, OthersStay
    <2>2. l.pc \in {"read", "write", "stamp"} => ring' = ring
      BY DEF RingWaits
    <2> HIDE DEF l, n
    <2> QED
      BY <1>2, <1>3, <2>1, <2>2
  <1>5. ASSUME Hides(p) PROVE Holds
    <2> HIDE DEF l, n
    <2>1. CASE n.pc = "idle"
      BY <2>1
    <2>2. CASE /\ n.pc = "read" /\ HideGates(n.todo) /\ n.ring = ring /\ Prepared(n) = {}
               /\ UNCHANGED ring
      BY <1>3, <2>2 DEF HideGates
    <2>3. ASSUME NEW f \in l.todo, l.pc = "read", NEW o, Reads(l, n, f, o, "write"), UNCHANGED ring
          PROVE  Holds
      BY <1>2, <1>3, <2>3 DEF Reads
    <2>4. ASSUME NEW f \in l.todo, l.pc = "write", Writes(l, n, f, "delete"), UNCHANGED ring
          PROVE  Holds
      BY <1>2, <1>3, <2>4 DEF Writes, Prepared
    <2>5. CASE n.pc = "delete"
      BY <2>5
    <2> HIDE DEF Holds
    <2> QED
      BY <1>0, <1>5, <2>1, <2>2, <2>3, <2>4, <2>5, HideMoves DEF l, n
  <1>6. ASSUME Rotates(p), n.pc \in {"idle", "gate", "match"} \cup Due PROVE Holds
    <2> HIDE DEF l, n
    <2>1. CASE n.pc \in {"idle", "gate"}
      BY <2>1
    <2>2. ASSUME Opens(l, n) PROVE Holds
      <3>1. Prepared(n) = {}
        BY <1>0, <2>2 DEF Opens, LocalOwes, Prepared, Nothing
      <3>2. CASE n.pc \in {"match", "load", "clear"}
        BY <3>2
      <3>3. CASE n.pc = "orphans" /\ n.list = tracked
        BY <1>3, <3>3
      <3>4. ASSUME l.pc \in {"orphans", "scan"}, n.pc \in {"scan", "decrypt"}, Scope(n) \subseteq l.list
            PROVE  Holds
        <4>1. Scope(n) \subseteq tracked'
          BY <1>2, <1>3, <3>4
        <4>2. Scope(n) = IF n.pc = "scan" THEN n.list ELSE n.todo
          BY <3>4 DEF Scope
        <4> QED
          BY <3>1, <3>4, <4>1, <4>2
      <3> HIDE DEF Holds
      <3> QED
        BY <2>2, <3>2, <3>3, <3>4 DEF Opens
    <2>3. ASSUME NEW f \in l.todo, l.pc = "decrypt", NEW o, Reads(l, n, f, o, "rotate")
          PROVE  Holds
      BY <1>2, <1>3, <2>3 DEF Reads
    <2>4. ASSUME NEW f \in l.todo, l.pc = "rotate", Writes(l, n, f, "clear") PROVE Holds
      BY <1>2, <1>3, <2>4 DEF Writes, Prepared
    <2> HIDE DEF Holds
    <2> QED
      BY <1>0, <1>6, <2>1, <2>2, <2>3, <2>4, RotateMoves DEF l, n
  <1>7. ASSUME Reveals(p), n.pc \in {"idle", "entry", "open", "restore"} PROVE Holds
    BY <1>7
  <1>8. ASSUME Records(p),
               n.pc \in {"idle", "stamp", "purge", "add", "append", "allow", "record", "grant",
                         "remove"}
        PROVE  Holds
    <2> HIDE DEF l, n
    <2> QED
      BY <1>0, <1>2, <1>8, RecordMoves DEF l, n
  <1> HIDE DEF Holds, l, n
  <1> QED
    BY <1>0, <1>1, <1>4, <1>5, <1>6, <1>7, <1>8, OwnStep DEF n

\* What is tracked and changes meanwhile is encrypted to the ring.
LEMMA WorkingSetLeft ==
  ASSUME NoRemoval, PassInv, Matched, [Next]_vars, RingWaits, NEW p \in Proc
  PROVE  LeavesWorkingSet(p)
  <1>1. ASSUME NEW f \in WorkingSet'
        PROVE  \/ f \in WorkingSet /\ cipher'[f].to = cipher[f].to
               \/ cipher'[f].to = Members(ring)
    <2>1. f \in File /\ cipher'[f] # None
      BY <1>1, LoopInductive DEF WorkingSet, PassInv, LoopInv, TypeInv, TypeOK
    <2>2. CASE cipher'[f] = cipher[f]
      BY <2>1, <2>2 DEF Matched, WorkingSet
    <2>3. CASE cipher'[f] # cipher[f]
      BY <2>1, <2>3, CipherStep
    <2> QED
      BY <2>2, <2>3
  <1>2. proc[p].pc \in {"gate", "match"} \cup Due => ring' = ring
    BY DEF RingWaits
  <1> QED
    BY <1>1, <1>2 DEF LeavesWorkingSet

\* A command that is about to stamp does just that.
LEMMA StampIsNext ==
  ASSUME NoRemoval, TypeInv, [Next]_vars, NEW p \in Proc, proc[p].pc = "stamp"
  PROVE  RingStamp(p) \/ proc'[p] = proc[p]
  <1>1. ASSUME Step(p) PROVE RingStamp(p)
    BY <1>1 DEF Step, HideRead, HideWrite, HideDelete, RevealEntry, RevealRead, RevealWrite,
         RingPurge, RotateGate, RotateMatch, RotateLoad, RotateOrphans, RotateScan,
         RotateRead, RotateWrite, RotateClear, AddFile, AddAppend, AllowFile,
         ReadRecord, WriteRecord, RemoveRefuses, RemoveFile, SaveManifest
  <1>2. ~HideStart(p) /\ ~RevealStart(p) /\ ~RingWrite(p) /\ ~RotateStart(p) /\ ~ManifestStart(p)
    BY DEF HideStart, RevealStart, RingWrite, RotateStart, ManifestStart, Start
  <1>3. ~Crash(p)
    BY DEF Crash, NoRemoval
  <1> QED
    BY <1>1, <1>2, <1>3, OthersStay DEF Own

\* While a ciphertext is stale a pass is due.
LEMMA StaleKeeps ==
  ASSUME NoRemoval, StaleInv, [Next]_vars
  PROVE  StaleIsDue'
  <1>1. CASE \E p \in Proc : RingWrite(p)
    <2>1. PICK p \in Proc : RingWrite(p)
      BY <1>1
    <2>2. PICK run \in CommandLines :
            /\ ring' = Changed(ring, run)
            /\ Start(p, [Idle EXCEPT !.pc = "stamp", !.run = run, !.ring = Changed(ring, run)])
      BY <2>1 DEF RingWrite
    <2> DEFINE l == [Idle EXCEPT !.pc = "stamp", !.run = run, !.ring = Changed(ring, run)]
    <2>3. l.pc = "stamp" /\ l.ring = ring'
      BY <2>2 DEF Idle
    <2>4. Become(p, l)
      BY <2>2 DEF Start, Become
    <2> HIDE DEF l
    <2>5. proc'[p] = l
      BY <2>4, Becomes DEF StaleInv, PassInv, LoopInv
    <2> QED
      BY <2>3, <2>5 DEF StaleIsDue
  <1>2. CASE \E p \in Proc : RingStamp(p)
    <2>1. PICK p \in Proc : RingStamp(p)
      BY <1>2
    <2>2. stamp' = ring'
      BY <2>1 DEF RingStamp, StaleInv, PassInv, Current
    <2> QED
      BY <2>2 DEF StaleIsDue
  <1>3. CASE \E p \in Proc : RotateClear(p)
    <2>1. PICK p \in Proc : RotateClear(p)
      BY <1>3
    <2>2. /\ \A f \in WorkingSet : cipher[f].to = Members(ring)
          /\ UNCHANGED <<ring, tracked, cipher>>
      BY <2>1 DEF RotateClear, StaleInv, PassInv, RotateDelivers, Loaded, Due, files
    <2>3. \A f \in tracked' : cipher'[f] # None => cipher'[f].to = Members(ring)'
      BY <2>2 DEF WorkingSet, Members
    <2> QED
      BY <2>3 DEF StaleIsDue
  <1>4. CASE UNCHANGED <<ring, stamp>> /\ ~\E p \in Proc : RingStamp(p)
    <2> SUFFICES ASSUME NEW f \in tracked', cipher'[f] # None, cipher'[f].to # Members(ring)'
                 PROVE  \/ stamp' = ring'
                        \/ \E p \in Proc : proc'[p].pc = "stamp" /\ proc'[p].ring = ring'
      BY DEF StaleIsDue
    <2>0. PassInv /\ Matched /\ TypeInv
      BY DEF StaleInv, PassInv, LoopInv
    <2>1. f \in File
      BY <2>0, TypeInductive DEF TypeInv, TypeOK
    <2>2. Members(ring)' = Members(ring)
      BY <1>4 DEF Members
    <2>3. cipher'[f] = cipher[f] /\ f \in tracked
      BY <2>0, <2>1, <2>2, CipherStep DEF Matched
    <2>4. \/ stamp = ring
          \/ \E p \in Proc : proc[p].pc = "stamp" /\ proc[p].ring = ring
      BY <2>2, <2>3 DEF StaleInv, StaleIsDue
    <2> QED
      BY <1>4, <2>0, <2>4, StampIsNext
  <1> QED
    BY <1>1, <1>2, <1>3, <1>4, NothingPulled, WhoChanges

\* Revocation is never forgotten: while a tracked ciphertext on disk is
\* encrypted to other keys than the ring's, a pass for that ring is due.
THEOREM RevocationRemembered ==
  ASSUME NoRemoval
  PROVE  Spec /\ [][RingWaits /\ ManifestWaits]_vars => []StaleIsDue
  <1>1. Init => StaleInv
    <2> SUFFICES ASSUME Init PROVE StaleInv
      OBVIOUS
    <2>1. Matched /\ StaleIsDue
      BY DEF Init, Matched, StaleIsDue, Nothing
    <2>2. \A p \in Proc : Current(p)
      BY DEF Init, Idle, Current
    <2> QED
      BY <2>1, <2>2, LoopInductive, NothingOwed DEF StaleInv, PassInv
  <1>2. StaleInv /\ [Next]_vars /\ [RingWaits /\ ManifestWaits]_vars => StaleInv'
    <2> SUFFICES ASSUME StaleInv, [Next]_vars, [RingWaits /\ ManifestWaits]_vars
                 PROVE  StaleInv'
      OBVIOUS
    <2>1. RingWaits /\ ManifestWaits
      BY DEF RingWaits, ManifestWaits, vars, files
    <2>2. PassInv /\ Matched /\ LoopInv /\ LoopInv'
      BY LoopInductive DEF StaleInv, PassInv
    <2>3. ASSUME NEW p \in Proc PROVE Current(p)' /\ Listing(p)' /\ RotateDelivers(p)'
      <3>1. Current(p)'
        BY <2>1, <2>2, CurrentKept
      <3>2. RotateDelivers(p)'
        BY <2>1, <2>2, WorkingSetLeft, RotateDeliversKept DEF PassInv
      <3>3. Listing(p)'
        BY <2>1, <2>2, ListingKept DEF PassInv
      <3> QED
        BY <3>1, <3>2, <3>3
    <2>4. Matched'
      BY <2>2, MatchedKeeps
    <2>5. StaleIsDue'
      BY StaleKeeps
    <2> QED
      BY <2>2, <2>3, <2>4, <2>5 DEF StaleInv, PassInv
  <1>3. StaleInv => StaleIsDue
    BY DEF StaleInv
  <1> QED
    BY <1>1, <1>2, <1>3, PTL DEF Spec
-----------------------------------------------------------------------------
(***************************************************************************)
(* One command at a time.                                                  *)
(***************************************************************************)

\* One process, and users and git wait for it.
OneCommand == ~Overlap /\ \A p, q \in Proc : p = q

\* Then everybody is considerate.
LEMMA OneCommandLeaves ==
  ASSUME OneCommand, [Next]_vars
  PROVE  [Considerate]_vars /\ [RingWaits /\ ManifestWaits]_vars
  <1>1. ASSUME NEW q \in Proc, Own(q) PROVE Considerate /\ RingWaits
    <2>1. \A p \in Proc : Own(p)
      BY <1>1 DEF OneCommand
    <2>2. Considerate
      BY <2>1 DEF Considerate, RecordWaits, ManifestWaits, HideWaits, OrphanWaits, RevealWaits,
           RotateWaits, Leaves
    <2>3. ring' # ring => Pull \/ \E p \in Proc : RingWrite(p)
      BY WhoChanges
    <2>4. ASSUME NEW p \in Proc, RingWrite(p) PROVE \A r \in Proc : proc[r].pc = "idle"
      BY <2>4 DEF RingWrite, Start, OneCommand
    <2>5. Pull => \A r \in Proc : proc[r].pc = "idle"
      BY DEF Pull, Quiet, OneCommand
    <2> QED
      BY <2>2, <2>3, <2>4, <2>5 DEF RingWaits, Due
  <1>2. ASSUME Quiet PROVE Considerate /\ RingWaits
    BY <1>2 DEF Quiet, Considerate, RecordWaits, ManifestWaits, Saves, HideWaits, OrphanWaits,
         RevealWaits, RotateWaits, Leaves, LeavesHidden, WillDelete, LeavesWorkingSet, RingWaits,
         Looked, Loaded, Due
  <1>3. ASSUME \/ \E f \in File : Edit(f) \/ Restore(f)
               \/ CommitAll \/ Pull
        PROVE  Quiet
    BY <1>3 DEF Edit, Restore, CommitAll, Pull, OneCommand
  <1>4. [Considerate /\ RingWaits]_vars
    BY <1>1, <1>2, <1>3 DEF Next, Own
  <1> QED
    BY <1>4 DEF Considerate

\* So all of the promises hold while commands, users and git take turns.
THEOREM OneAtATime ==
  ASSUME OneCommand
  PROVE  Spec => /\ NeverNeither /\ FirstEncryptIsAllowed /\ RevealRestores
                 /\ PassKeepsContent /\ PassDelivers /\ PassLeavesNoOrphan
  <1>1. [Considerate]_vars =>
          /\ [\A p \in Proc : Own(p) \/ LeavesHidden(p)]_vars
          /\ [\A p \in Proc : Own(p) \/ LeavesWorkingSet(p)]_vars
          /\ [HideWaits /\ RecordWaits]_vars
          /\ [RevealWaits /\ RotateWaits]_vars
          /\ [RotateWaits]_vars
          /\ [OrphanWaits /\ ManifestWaits]_vars
    BY DEF Considerate, Leaves
  <1>2. [Next]_vars => [Considerate]_vars
    BY OneCommandLeaves
  <1> QED
    BY <1>1, <1>2, HideLosesNothing, FirstEncryptCorrect, RevealCorrect, ContentKept,
       PassHasDelivered, NoOrphanIsPassed, PTL DEF Spec

\* And revocation is remembered.
THEOREM OneAtATimeRemembers == ASSUME OneCommand, NoRemoval PROVE Spec => []StaleIsDue
  <1>1. [Next]_vars => [RingWaits /\ ManifestWaits]_vars
    BY OneCommandLeaves
  <1> QED
    BY <1>1, RevocationRemembered, PTL DEF Spec
=============================================================================
