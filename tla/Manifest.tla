------------------------------ MODULE Manifest ------------------------------
(***************************************************************************)
(* The commands that decide what is a secret: add-file, allow and          *)
(* remove-file.  Each loads tracked.json once, works through its files     *)
(* writing consent, .gitignore or the worktree as it goes, and saves       *)
(* tracked.json last.                                                      *)
(***************************************************************************)
EXTENDS VaultState

ManifestStart(p) ==
  /\ \E run \in CommandLines :
       /\ run.verb \in {"add-file", "allow", "remove-file"}
       /\ Start(p, [Idle EXCEPT !.run = run, !.todo = run.files, !.list = tracked,
             !.pc = CASE run.verb = "add-file" -> "add"
                      [] run.verb = "allow" -> "allow"
                      [] run.verb = "remove-file" -> "remove"])
  /\ UNCHANGED <<ring, stamp, files, git, faults>>

\* Take the next file; one that does not exist stops the command where it is.
\* ensure_gitignored reads .gitignore and, when the path is not covered,
\* truncates the file ...
AddFile(p) ==
  /\ proc[p].pc = "add"
  /\ \E f \in proc[p].todo :
       \/ plain[f] = None /\ Exit(p) /\ UNCHANGED ignored
       \/ /\ plain[f] # None /\ f \in ignored
          /\ Become(p, [proc[p] EXCEPT !.pc = "record", !.at = f])
          /\ UNCHANGED ignored
       \/ /\ plain[f] # None /\ f \notin ignored
          /\ ignored' = {}
          /\ Become(p, [proc[p] EXCEPT !.pc = "append", !.at = f,
                                       !.lines = ignored \cup {f}])
  /\ UNCHANGED <<ring, stamp, git, tracked, plain, cipher, consent, faults>>

\* ... and writes it back with the new line.
AddAppend(p) ==
  /\ proc[p].pc = "append"
  /\ ignored' = proc[p].lines
  /\ Become(p, [proc[p] EXCEPT !.pc = "record", !.lines = {}])
  /\ UNCHANGED <<ring, stamp, git, tracked, plain, cipher, consent, faults>>

AllowFile(p) ==
  /\ proc[p].pc = "allow"
  /\ IF proc[p].todo = {} THEN Exit(p)
     ELSE \E f \in proc[p].todo :
            IF plain[f] = None THEN Exit(p)
            ELSE Become(p, [proc[p] EXCEPT !.pc = "record", !.at = f])
  /\ UNCHANGED <<ring, stamp, files, git, faults>>

\* add-file and allow read the consent record ...
ReadRecord(p) ==
  /\ proc[p].pc = "record"
  /\ Become(p, [proc[p] EXCEPT !.pc = "grant", !.lines = consent \cup {proc[p].at}])
  /\ UNCHANGED <<ring, stamp, files, git, faults>>

\* ... and write it back whole, with the path in hand. Both may be given the
\* next path; only add-file saves what it went through.
WriteRecord(p) ==
  LET l == proc[p]
  IN  /\ l.pc = "grant"
      /\ consent' = l.lines
      /\ Become(p, [l EXCEPT !.pc = IF l.run.verb = "allow" THEN "allow" ELSE "add",
                             !.at = None, !.lines = {},
                             !.todo = @ \ {l.at}, !.list = @ \cup {l.at}])
      /\ UNCHANGED <<ring, stamp, git, tracked, plain, cipher, ignored, faults>>

\* The bail-out of remove-file: a name that is not tracked.
RemoveRefuses(p) ==
  /\ proc[p].pc = "remove"
  /\ proc[p].todo \ proc[p].list # {}
  /\ Exit(p)
  /\ UNCHANGED <<ring, stamp, files, git, faults>>

RemoveFile(p) ==
  /\ proc[p].pc = "remove"
  /\ \E f \in proc[p].todo \cap proc[p].list :
       /\ cipher' = IF proc[p].run.keep THEN cipher ELSE [cipher EXCEPT ![f] = None]
       /\ Become(p, [proc[p] EXCEPT !.todo = @ \ {f}, !.list = @ \ {f}])
  /\ UNCHANGED <<ring, stamp, git, tracked, plain, consent, ignored, faults>>

\* TrackedFiles::save, the last write of add-file and remove-file.
SaveManifest(p) ==
  /\ proc[p].pc \in {"add", "remove"}
  /\ proc[p].todo = {}
  /\ tracked' = proc[p].list
  /\ Exit(p)
  /\ UNCHANGED <<ring, stamp, git, plain, cipher, consent, ignored, faults>>
=============================================================================
