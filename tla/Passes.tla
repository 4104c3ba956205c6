------------------------------- MODULE Passes -------------------------------
(***************************************************************************)
(* The commands that carry secrets between plaintext and ciphertext: hide, *)
(* reveal and rotate, and the ring change that makes a rotate due.  Each   *)
(* is two-phase: phase 1 reads and computes every output in memory, and a  *)
(* refusal there has written nothing; phase 2 writes them one by one.      *)
(***************************************************************************)
EXTENDS VaultState

\* One write_atomic of phase 2 fails: the rest is still written, the command
\* then reports the count and stops.
WriteFails(p, f) ==
  /\ faults < MaxFaults
  /\ faults' = faults + 1
  /\ LET l == Loop([proc[p] EXCEPT !.failed = TRUE], f, "idle")
     IN  Become(p, IF l.pc = "idle" THEN Idle ELSE l)

\* A slip: a failed write is forgotten.
AfterWritesAnyway(l, f, next) ==
  LET n == Loop(l, f, next)
  IN  IF n.pc = "idle" THEN Idle ELSE n

\* What follows the last write of phase 2, unless one of them failed.
AfterWrites(l, f, next) ==
  LET n == Loop(l, f, next)
  IN  IF n.pc = "idle" \/ (n.pc = next /\ l.failed) THEN Idle ELSE n
-----------------------------------------------------------------------------
(* hide *)

\* A slip: whatever tracked.json names is encrypted.
HideGatesWithoutConsent(fs) ==
  /\ Members(ring) # {}
  /\ fs # {} /\ fs \subseteq tracked
  /\ \A f \in fs : plain[f] # None

\* The gates: a ring with entries, names that are tracked and exist (71), and
\* consent for every path without a committed ciphertext (72).
HideGates(fs) ==
  /\ Members(ring) # {}
  /\ fs # {} /\ fs \subseteq tracked
  /\ \A f \in fs : plain[f] # None /\ (index[f] # None \/ f \in consent)

HideStart(p) ==
  /\ \E run \in CommandLines :
       /\ run.verb = "hide"
       /\ HideGates(run.files)
       /\ Start(p, [Idle EXCEPT !.pc = "read", !.run = run, !.ring = ring,
                                !.todo = run.files])
  /\ UNCHANGED <<ring, stamp, files, git, faults>>

\* A slip: what has a ciphertext already is not encrypted again.
HideReadOnce(p) ==
  /\ proc[p].pc = "read"
  /\ \E f \in proc[p].todo :
       LET new == EncryptTo(Members(proc[p].ring), plain[f])
       IN  IF plain[f] = None THEN Exit(p)
           ELSE Become(p, Loop([proc[p] EXCEPT !.ready[f] =
                  IF cipher[f] # None THEN cipher[f] ELSE new], f, "write"))
  /\ UNCHANGED <<ring, stamp, files, git, faults>>

\* A plaintext that vanished since the gates aborts the command.
HideRead(p) ==
  /\ proc[p].pc = "read"
  /\ \E f \in proc[p].todo :
       IF plain[f] = None THEN Exit(p)
       ELSE Become(p, Loop([proc[p] EXCEPT !.ready[f] =
                              EncryptTo(Members(proc[p].ring), plain[f])], f, "write"))
  /\ UNCHANGED <<ring, stamp, files, git, faults>>

HideWrite(p) ==
  /\ proc[p].pc = "write"
  /\ \E f \in proc[p].todo :
       \/ /\ cipher' = [cipher EXCEPT ![f] = proc[p].ready[f]]
          /\ Become(p, AfterWrites(proc[p], f,
                         IF proc[p].run.keep THEN "idle" ELSE "delete"))
          /\ UNCHANGED faults
       \/ WriteFails(p, f) /\ UNCHANGED cipher
  /\ UNCHANGED <<ring, stamp, git, tracked, plain, consent, ignored>>

HideDelete(p) ==
  /\ proc[p].pc = "delete"
  /\ \E f \in proc[p].todo :
       /\ plain' = [plain EXCEPT ![f] = None]
       /\ IF plain[f] = None THEN Exit(p) ELSE Become(p, AfterWrites(proc[p], f, "idle"))
  /\ UNCHANGED <<ring, stamp, git, tracked, cipher, consent, ignored, faults>>
-----------------------------------------------------------------------------
(* reveal *)

RevealStart(p) ==
  /\ \E run \in CommandLines :
       /\ run.verb = "reveal"
       /\ Start(p, [Idle EXCEPT !.pc = "entry", !.run = run])
  /\ UNCHANGED <<ring, stamp, files, git, faults>>

\* The private key reveal decrypts with is that of the principal's entry in
\* the ring as it is now.
EntryKey(l) == l.ring.member[l.run.who]

\* The ring is read again after verification; the principal must have an
\* entry (22) whose private key is on this machine (21).
RevealEntry(p) ==
  LET run == proc[p].run
  IN  /\ proc[p].pc = "entry"
      /\ IF ring.member[run.who] \in Held /\ run.files # {} /\ run.files \subseteq tracked
           THEN Become(p, [proc[p] EXCEPT !.pc = "open", !.ring = ring, !.todo = run.files])
           ELSE Exit(p)
      /\ UNCHANGED <<ring, stamp, files, git, faults>>

\* A slip: no look at the git index.
RevealReadUngated(p) ==
  /\ proc[p].pc = "open"
  /\ \E f \in proc[p].todo :
       IF cipher[f] # None /\ OpensWith(cipher[f], {EntryKey(proc[p])})
         THEN Become(p, Loop([proc[p] EXCEPT !.ready[f] = cipher[f].content], f, "restore"))
         ELSE Exit(p)
  /\ UNCHANGED <<ring, stamp, files, git, faults>>

\* Refusals: the plaintext is in the git index (43), no ciphertext, or one
\* that this key does not open (60).
RevealRead(p) ==
  /\ proc[p].pc = "open"
  /\ \E f \in proc[p].todo :
       IF f \notin exposed /\ cipher[f] # None /\ OpensWith(cipher[f], {EntryKey(proc[p])})
         THEN Become(p, Loop([proc[p] EXCEPT !.ready[f] = cipher[f].content], f, "restore"))
         ELSE Exit(p)
  /\ UNCHANGED <<ring, stamp, files, git, faults>>

RevealWrite(p) ==
  /\ proc[p].pc = "restore"
  /\ \E f \in proc[p].todo :
       \/ /\ plain' = [plain EXCEPT ![f] = proc[p].ready[f]]
          /\ Become(p, AfterWrites(proc[p], f, "idle"))
          /\ UNCHANGED faults
       \/ WriteFails(p, f) /\ UNCHANGED plain
  /\ UNCHANGED <<ring, stamp, git, tracked, cipher, consent, ignored>>
-----------------------------------------------------------------------------
(* add-key and remove-key, then rotate *)

\* The signed ring with the principal's entry set or removed (RingTrust has
\* the steps before this write).
Changed(r, run) ==
  [version |-> r.version + 1,
   member |-> [r.member EXCEPT ![run.who] = IF run.verb = "add-key" THEN run.key ELSE None]]

RingWrite(p) ==
  /\ ring.version < MaxVersion
  /\ \E run \in CommandLines :
       /\ run.verb \in {"add-key", "remove-key"}
       /\ run.verb = "remove-key" => ring.member[run.who] # None
       /\ ring' = Changed(ring, run)
       /\ Start(p, [Idle EXCEPT !.pc = "stamp", !.run = run, !.ring = Changed(ring, run)])
  /\ UNCHANGED <<stamp, files, git, faults>>

RingStamp(p) ==
  /\ proc[p].pc = "stamp"
  /\ stamp' = proc[p].ring
  /\ IF proc[p].run.verb = "remove-key" THEN Become(p, [proc[p] EXCEPT !.pc = "purge"])
                                       ELSE Exit(p)
  /\ UNCHANGED <<ring, files, git, faults>>

\* remove-key also deletes the consent record of the principal it removed.
RingPurge(p) ==
  /\ proc[p].pc = "purge"
  /\ consent' = IF proc[p].run.who = Me THEN {} ELSE consent
  /\ Exit(p)
  /\ UNCHANGED <<ring, stamp, git, tracked, plain, cipher, ignored, faults>>

RotateStart(p) ==
  /\ \E run \in CommandLines :
       /\ run.verb = "rotate"
       /\ Members(ring) # {}
       /\ Start(p, [Idle EXCEPT !.pc = "gate", !.run = run, !.ring = ring])
  /\ UNCHANGED <<ring, stamp, files, git, faults>>

\* The stamp gate (70): a pass must be due ...
RotateGate(p) ==
  /\ proc[p].pc = "gate"
  /\ IF stamp = None THEN Exit(p)
     ELSE Become(p, [proc[p] EXCEPT !.pc = "match", !.due = stamp])
  /\ UNCHANGED <<ring, stamp, files, git, faults>>

\* ... for the ring, which is read again for this.
RotateMatch(p) ==
  /\ proc[p].pc = "match"
  /\ IF ring # proc[p].due THEN Exit(p)
     ELSE Become(p, [proc[p] EXCEPT !.pc = "load", !.due = None])
  /\ UNCHANGED <<ring, stamp, files, git, faults>>

\* TrackedFiles::load.
RotateLoad(p) ==
  /\ proc[p].pc = "load"
  /\ Become(p, [proc[p] EXCEPT !.pc = "orphans", !.list = tracked])
  /\ UNCHANGED <<ring, stamp, files, git, faults>>

\* A slip: orphans are looked for on disk.
OrphansOnDisk(paths) == {f \in File : cipher[f] # None} \ paths

\* What is committed and not among the tracked paths.
Orphans(paths) == {f \in File : index[f] # None} \ paths

\* The orphan gate (42) over the git index. Nothing tracked: nothing to do.
RotateOrphans(p) ==
  LET paths == proc[p].list
  IN  /\ proc[p].pc = "orphans"
      /\ IF Orphans(paths) # {} THEN Exit(p)
         ELSE Become(p, [proc[p] EXCEPT !.pc = IF paths = {} THEN "clear" ELSE "scan",
                                        !.todo = paths])
      /\ UNCHANGED <<ring, stamp, files, git, faults>>

\* A slip: only what is committed is rotated.
OnlyCommitted(f) == index[f] # None

\* A tracked path without a ciphertext on disk is skipped.
OnDisk(f) == cipher[f] # None

\* What is on disk, looked up path by path, is what phase 1 goes through.
RotateScan(p) ==
  /\ proc[p].pc = "scan"
  /\ \E f \in proc[p].todo :
       LET rest == proc[p].todo \ {f}
           scoped == IF OnDisk(f) THEN proc[p].list ELSE proc[p].list \ {f}
       IN  Become(p, IF rest # {} THEN [proc[p] EXCEPT !.todo = rest, !.list = scoped]
                     ELSE [proc[p] EXCEPT !.todo = scoped, !.list = {},
                             !.pc = IF scoped = {} THEN "clear" ELSE "decrypt"])
  /\ UNCHANGED <<ring, stamp, files, git, faults>>

\* A slip: the ciphertext is encrypted again without being decrypted.
RotateReadEncrypted(p) ==
  /\ proc[p].pc = "decrypt"
  /\ \E f \in proc[p].todo :
       IF cipher[f] # None
         THEN Become(p, Loop([proc[p] EXCEPT !.ready[f] =
                EncryptTo(Members(proc[p].ring), cipher[f])], f, "rotate"))
         ELSE Exit(p)
  /\ UNCHANGED <<ring, stamp, files, git, faults>>

\* A slip: the plaintext beside the ciphertext is taken instead.
RotateReadPlaintext(p) ==
  /\ proc[p].pc = "decrypt"
  /\ \E f \in proc[p].todo :
       LET content == IF plain[f] # None THEN plain[f] ELSE cipher[f].content
       IN  Become(p, Loop([proc[p] EXCEPT !.ready[f] =
                  EncryptTo(Members(proc[p].ring), content)], f, "rotate"))
  /\ UNCHANGED <<ring, stamp, files, git, faults>>

\* A slip: a ciphertext that a dead pass already rotated is refused.
RotateReadOnce(p) ==
  /\ proc[p].pc = "decrypt"
  /\ \E f \in proc[p].todo :
       IF OpensWith(cipher[f], Held) /\ cipher[f].to # Members(proc[p].ring)
         THEN Become(p, Loop([proc[p] EXCEPT !.ready[f] =
                EncryptTo(Members(proc[p].ring), cipher[f].content)], f, "rotate"))
         ELSE Exit(p)
  /\ UNCHANGED <<ring, stamp, files, git, faults>>

\* A slip: what some member of the ring can open already stays as it is.
RotateReadUnlessOpen(p) ==
  /\ proc[p].pc = "decrypt"
  /\ \E f \in proc[p].todo :
       LET new == EncryptTo(Members(proc[p].ring), cipher[f].content)
       IN  IF cipher[f] # None /\ OpensWith(cipher[f], Held)
             THEN Become(p, Loop([proc[p] EXCEPT !.ready[f] =
                    IF OpensWith(cipher[f], Members(proc[p].ring)) THEN cipher[f] ELSE new],
                    f, "rotate"))
             ELSE Exit(p)
  /\ UNCHANGED <<ring, stamp, files, git, faults>>

\* Decrypted with any private key in the store (60), re-encrypted to the ring.
RotateRead(p) ==
  /\ proc[p].pc = "decrypt"
  /\ \E f \in proc[p].todo :
       IF cipher[f] # None /\ OpensWith(cipher[f], Held)
         THEN Become(p, Loop([proc[p] EXCEPT !.ready[f] =
                EncryptTo(Members(proc[p].ring), cipher[f].content)], f, "rotate"))
         ELSE Exit(p)
  /\ UNCHANGED <<ring, stamp, files, git, faults>>

RotateWrite(p) ==
  /\ proc[p].pc = "rotate"
  /\ \E f \in proc[p].todo :
       \/ /\ cipher' = [cipher EXCEPT ![f] = proc[p].ready[f]]
          /\ Become(p, AfterWrites(proc[p], f, "clear"))
          /\ UNCHANGED faults
       \/ WriteFails(p, f) /\ UNCHANGED cipher
  /\ UNCHANGED <<ring, stamp, git, tracked, plain, consent, ignored>>

RotateClear(p) ==
  /\ proc[p].pc = "clear"
  /\ stamp' = None
  /\ Exit(p)
  /\ UNCHANGED <<ring, files, git, faults>>
=============================================================================
