---------------------------- MODULE Interference ----------------------------
(***************************************************************************)
(* Commands that overlap, with each other and with editors and git.        *)
(*                                                                         *)
(* git-veil takes no lock, so what Vault promises can fail when somebody   *)
(* acts while a command runs.  For each promise this module says who has   *)
(* to wait for a command in flight, or what they must leave alone, and no  *)
(* more: the rest of the clone may change at any moment.                   *)
(***************************************************************************)
EXTENDS Vault

\* The steps of p's own command.
Own(p) ==
  \/ HideStart(p) \/ RevealStart(p) \/ RingWrite(p) \/ RotateStart(p) \/ ManifestStart(p)
  \/ Step(p)
  \/ Crash(p)

\* The files whose output is prepared and not yet written.
Pending(l) == IF l.pc \in {"write", "restore", "rotate"} THEN l.todo ELSE Prepared(l)

\* A rotate is past the stamp gate, past the load of the manifest, past the
\* look at the git index.
Due == {"load", "orphans", "scan", "decrypt", "rotate", "clear"}
Loaded == Due \ {"load"}
Looked == Loaded \ {"orphans"}

\* A pass would rotate these now.
WorkingSet == {f \in tracked : cipher[f] # None}
-----------------------------------------------------------------------------
(* Where it is enough that somebody waits *)

\* Of the ciphertexts in fs only rotates write.
OnlyRotated(fs) == \A f \in fs : cipher'[f] # cipher[f] => \E q \in Proc : RotateWrite(q)

\* Saves of the manifest by remove-file, the only ones that drop a path.
SavesRemoval(p) == proc[p].pc = "remove" /\ SaveManifest(p)

\* For FirstEncryptIsAllowed: while a hide runs, the commit of a deleted
\* ciphertext and the purge of remove-key wait, and while a command is about
\* to write the consent record, whoever else would.
HideWaits ==
  \A p \in Proc :
    \/ proc[p].pc \in {"read", "write"} => ~CommitAll /\ \A q \in Proc : ~RingPurge(q)
    \/ Own(p)
RecordWaits ==
  consent' # consent => \A p \in Proc : proc[p].pc # "grant" \/ Own(p)

\* For PassKeepsContent: hides, remove-files, checkouts and pulls wait with
\* what a rotate has read and not yet written; other rotates need not.
RotateWaits ==
  \A p \in Proc :
    \/ proc[p].pc \in {"decrypt", "rotate"} => OnlyRotated(Pending(proc[p]))
    \/ Own(p)

\* For RevealRestores: they also wait for a reveal, and so do commits.
RevealWaits ==
  \A p \in Proc :
    \/ proc[p].pc \in {"open", "restore"} => OnlyRotated(Pending(proc[p])) /\ ~CommitAll
    \/ Own(p)

\* For PassLeavesNoOrphan: once a rotate has loaded the manifest, pulls and
\* the saves of remove-files wait, and commits once it has seen the index.
OrphanWaits ==
  \A p \in Proc :
    \/ /\ proc[p].pc \in Loaded => ~Pull /\ \A q \in Proc : ~SavesRemoval(q)
       /\ proc[p].pc \in Looked => ~CommitAll
    \/ Own(p)

\* The manifest stays while an add-file is going to save what it loaded.
Saves(l) == l.pc \in {"add", "append", "record", "grant"} /\ l.run.verb = "add-file"
ManifestWaits == tracked' # tracked => \A p \in Proc : ~Saves(proc[p]) \/ Own(p)

\* For StaleIsDue: the ring stays while a command encrypts to it or is about
\* to stamp it.
RingWaits ==
  ring' # ring =>
    \A p \in Proc :
      proc[p].pc \notin {"read", "write", "gate", "match", "stamp"} \cup Due
-----------------------------------------------------------------------------
(* Where it matters what they do *)

\* Whoever writes the ciphertext of f puts the same content into it, and a
\* ciphertext that somebody can open stays one.
KeepsOpen(f) ==
  /\ cipher'[f] # None
  /\ cipher'[f].content = cipher[f].content
  /\ cipher'[f].to # {}

\* The hide of l is going to delete what it encrypts.
WillDelete(l) == l.pc \in {"read", "write"} /\ ~l.failed /\ ~l.run.keep

\* For NeverNeither: a plaintext that a hide without --keep has read is left
\* alone, and so is the content of a ciphertext it has written.
LeavesHidden(p) ==
  LET l == proc[p]
  IN  /\ WillDelete(l) => \A f \in Prepared(l) : plain'[f] = plain[f]
      /\ WillDelete(l) /\ l.pc = "write" => \A f \in Prepared(l) \ l.todo : KeepsOpen(f)
      /\ l.pc = "delete" => \A f \in l.todo : plain'[f] = plain[f] /\ KeepsOpen(f)

\* For PassDelivers: the ring stays while a rotate runs, and what joins its
\* working set or is written in it is encrypted to that ring.
LeavesWorkingSet(p) ==
  LET l == proc[p]
  IN  /\ l.pc \in {"gate", "match"} \cup Due => ring' = ring
      /\ l.pc \in Loaded =>
           \A f \in WorkingSet' :
             \/ f \in WorkingSet /\ cipher'[f].to = cipher[f].to
             \/ cipher'[f].to = Members(ring)

\* Everybody waits for, and leaves alone, what the commands in flight need.
Leaves(p) == (LeavesHidden(p) /\ LeavesWorkingSet(p)) \/ Own(p)
Considerate ==
  /\ RecordWaits /\ ManifestWaits /\ HideWaits /\ OrphanWaits /\ RevealWaits /\ RotateWaits
  /\ \A p \in Proc : Leaves(p)
=============================================================================
