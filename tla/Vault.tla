------------------------------- MODULE Vault -------------------------------
(***************************************************************************)
(* The secrets of one clone: the commands of Passes and Manifest, the      *)
(* user's editor, git, and processes that die.                             *)
(***************************************************************************)
EXTENDS Passes, Manifest

\* An editor saves a new content.
Edit(f) ==
  /\ Overlap \/ Quiet
  /\ \E c \in Secret \ {plain[f]} : plain' = [plain EXCEPT ![f] = c]
  /\ UNCHANGED <<ring, stamp, git, tracked, cipher, consent, ignored, proc, faults>>

\* git add -A; git commit.
CommitAll ==
  /\ Overlap \/ Quiet
  /\ index' = cipher
  /\ exposed' = {f \in File : plain[f] # None /\ (f \in exposed \/ f \notin ignored)}
  /\ UNCHANGED <<ring, stamp, files, proc, faults>>

\* git checkout -- <f>.secret: the committed ciphertext in the place of one
\* that is gone from disk, or of a later one.
Restore(f) ==
  /\ Overlap \/ Quiet
  /\ index[f] # None
  /\ cipher[f] = None \/ (Checkouts /\ cipher[f] # index[f])
  /\ cipher' = [cipher EXCEPT ![f] = index[f]]
  /\ UNCHANGED <<ring, stamp, git, tracked, plain, consent, ignored, proc, faults>>

\* git pull of a commit whose ring verifies: newer than ours, or ours.
Pull ==
  /\ Overlap \/ Quiet
  /\ \E u \in Upstream, c \in Secret :
       LET new == [f \in File |-> IF f \in u.fresh THEN EncryptTo(Members(u.ring), c)
                                                   ELSE index[f]]
       IN  /\ u.ring = ring \/ ring.version < u.ring.version
           /\ ring' = u.ring
           /\ tracked' = u.tracked
           /\ index' = new
           /\ cipher' = [f \in File |-> IF f \in u.fresh THEN new[f] ELSE cipher[f]]
  /\ UNCHANGED <<stamp, exposed, plain, consent, ignored, proc, faults>>

Crash(p) ==
  /\ proc[p].pc \in DiesAt
  /\ faults < MaxFaults
  /\ faults' = faults + 1
  /\ Exit(p)
  /\ UNCHANGED <<ring, stamp, files, git>>

\* The steps of commands once started, and the commands' starts.
Step(p) ==
  \/ HideRead(p) \/ HideWrite(p) \/ HideDelete(p)
  \/ RevealEntry(p) \/ RevealRead(p) \/ RevealWrite(p)
  \/ RingStamp(p) \/ RingPurge(p)
  \/ RotateGate(p) \/ RotateMatch(p) \/ RotateLoad(p) \/ RotateOrphans(p) \/ RotateScan(p)
  \/ RotateRead(p) \/ RotateWrite(p) \/ RotateClear(p)
  \/ AddFile(p) \/ AddAppend(p) \/ AllowFile(p) \/ ReadRecord(p) \/ WriteRecord(p)
  \/ RemoveRefuses(p) \/ RemoveFile(p) \/ SaveManifest(p)

Next ==
  \/ \E p \in Proc :
       \/ HideStart(p) \/ RevealStart(p) \/ RingWrite(p) \/ RotateStart(p) \/ ManifestStart(p)
       \/ Step(p)
       \/ Crash(p)
  \/ \E f \in File : Edit(f) \/ Restore(f)
  \/ CommitAll
  \/ Pull

Spec == Init /\ [][Next]_vars

\* A started command runs on unless it dies, and somebody keeps invoking
\* rotate, as the notice of add-key and remove-key tells them to.
FairSpec ==
  /\ Spec
  /\ \A p \in Proc : WF_vars(Step(p))
  /\ SF_vars(\E p \in Proc : RotateStart(p))
-----------------------------------------------------------------------------
(***************************************************************************)
(* Properties.                                                             *)
(***************************************************************************)

\* Type invariant.
TypeOK ==
  /\ ring \in Ring /\ stamp \in Ring \cup {None}
  /\ tracked \subseteq File
  /\ plain \in [File -> Secret \cup {None}]
  /\ cipher \in [File -> Cipher \cup {None}] /\ index \in [File -> Cipher \cup {None}]
  /\ exposed \subseteq File /\ consent \subseteq File
  /\ ignored \subseteq File
  /\ proc \in [Proc -> Process]
  /\ faults \in 0 .. MaxFaults

\* At worst both copies exist, never neither: a plaintext is deleted only
\* when the ciphertext on disk holds exactly its content and this machine or
\* some other member can open it.
NeverNeither ==
  [][\A f \in File :
       plain[f] # None /\ plain'[f] = None =>
         /\ cipher[f] # None
         /\ cipher[f].content = plain[f]
         /\ cipher[f].to # {}]_vars

\* A pass that consumes the stamp has done what the stamp stood for: every
\* tracked ciphertext on disk is encrypted to exactly the ring of the
\* worktree, whatever died, failed, was hidden or was re-added in between.
PassDelivers ==
  [][stamp # None /\ stamp' = None =>
       \A f \in tracked : cipher[f] # None => cipher[f].to = Members(ring)]_vars

\* A pass never completes over a committed ciphertext that left the manifest:
\* it would stay decryptable by removed collaborators.
PassLeavesNoOrphan ==
  [][stamp # None /\ stamp' = None => \A f \in File : index[f] # None => f \in tracked]_vars

\* The pass carries each content over unchanged.
PassKeepsContent ==
  [][\A p \in Proc : RotateWrite(p) =>
       \A f \in File : cipher'[f] # cipher[f] =>
         cipher[f] # None /\ cipher'[f].content = cipher[f].content]_vars

\* Revocation is never forgotten: while a tracked ciphertext is still
\* encrypted to another set of keys than the ring's, this machine has a due
\* pass for the ring of the worktree (or is about to stamp it).
StaleIsDue ==
  (\E f \in tracked : cipher[f] # None /\ cipher[f].to # Members(ring))
    => stamp = ring \/ \E p \in Proc : proc[p].pc = "stamp" /\ proc[p].ring = ring

\* A path that somebody else put into tracked.json is not encrypted for the
\* first time without the consent of this machine.
FirstEncryptIsAllowed ==
  [][\A f \in File, p \in Proc :
       HideWrite(p) /\ cipher'[f] # cipher[f] => f \in consent \/ index[f] # None]_vars

\* What reveal puts on disk is what the ciphertext it read holds, and reveal
\* never touches a path that git tracks as ordinary content.
RevealRestores ==
  [][\A f \in File, p \in Proc :
       RevealWrite(p) /\ plain'[f] # plain[f] =>
         f \notin exposed /\ cipher[f] # None /\ plain'[f] = cipher[f].content]_vars

\* A due pass is eventually delivered, in spite of deaths and failed writes.
PassCompletes == stamp # None ~> stamp = None
=============================================================================
