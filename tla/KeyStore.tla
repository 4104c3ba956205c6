------------------------------ MODULE KeyStore ------------------------------
(***************************************************************************)
(* The key store of one machine and the commands that keep it: import,     *)
(* forget, trust-permissions and the recipients line of init and trust.    *)
(*                                                                         *)
(* identities.txt and recipients.txt are lists of lines whose order counts *)
(* for nothing: a file is how often each line is in it.  A private key and *)
(* its public half are one Key.  Every rewrite goes through AtomicWrite,   *)
(* whole, from what the command read; there is no lock.  Before a command  *)
(* starts, the permission gate looks at the modes of the store.            *)
(***************************************************************************)
EXTENDS AtomicWrite, Integers

CONSTANTS
  Key,           \* X25519 key pairs
  Junk,          \* a line that does not parse
  Place,         \* what the gate looks at: the directory and the private files
  MaxLines,      \* bound on how often a line is in a file
  Private,       \* the mode without group and world bits, 0600 or 0700
  FirstStores,   \* files and modes of the store this machine may start with
  CommandLines,  \* what is typed in this instance
  Overlap,       \* TRUE: users and other commands act while a command runs
  MaxFaults,     \* bound on deaths, failed writes and power cuts
  MaxChmods      \* bound on modes changed for the worse

Finding == Place \X Mode
Line == Key \cup {Junk} \cup Finding

Command ==
  [verb : {"import"}, keys : SUBSET Key, skip : BOOLEAN] \cup
  [verb : {"forget"}, key : Key, yes : BOOLEAN, skip : BOOLEAN] \cup
  [verb : {"anchor"}, key : Key, skip : BOOLEAN] \cup
  [verb : {"trust-permissions"}]

ASSUME NameAssumption == Name = {"identities", "recipients", "ack"}
ASSUME BytesAreLines == MaxLines \in Nat \ {0} /\ Bytes = [Line -> 0 .. MaxLines]
ASSUME JunkAssumption == Junk \notin Key \cup Finding
ASSUME PlaceAssumption == Place = {"dir", "identities", "signing"}
ASSUME PrivateAssumption == Private \in Mode
ASSUME FirstAssumption ==
  FirstStores \subseteq [files : Directory, outer : [{"dir", "signing"} -> Mode \cup {None}]]
ASSUME CommandLinesAssumption == CommandLines \subseteq Command /\ None \notin Command
ASSUME BoundsAssumption == MaxFaults \in Nat /\ MaxChmods \in Nat

VARIABLES
  outer,   \* modes of the directory and of signing-keys.txt
  proc,    \* the commands in flight
  faults, chmods

vars == <<store, outer, proc, faults, chmods>>

\* A file that is not there reads as an empty one.
Empty == [l \in Line |-> 0]
Lines(n) == IF disk[n] = None THEN Empty ELSE disk[n].data

Idle == [pc |-> "idle", run |-> None, ids |-> Empty, recs |-> Empty]
Process == [pc : {"idle", "read", "more", "next", "last"}, run : Command \cup {None},
            ids : Bytes, recs : Bytes]

Init ==
  /\ \E first \in FirstStores : Start(first.files) /\ outer = first.outer
  /\ proc = [p \in Proc |-> Idle]
  /\ faults = 0 /\ chmods = 0

Quiet == \A p \in Proc : proc[p].pc = "idle"
Become(p, l) == proc' = [proc EXCEPT ![p] = l]
Exit(p) == Become(p, Idle)
-----------------------------------------------------------------------------
(* the permission gate *)

ModeOf(place) ==
  IF place = "identities" THEN IF disk[place] = None THEN None ELSE disk[place].mode
                          ELSE outer[place]

Findings == {f \in Finding : f[2] = ModeOf(f[1]) /\ f[2] # Private}

\* find_unsafe_permissions and the acknowledgments, an exact pair for each
\* finding; a file of acknowledgments that does not parse refuses too.
GateOpen(skip) ==
  \/ skip
  \/ Findings = {}
  \/ Lines("ack")[Junk] = 0 /\ \A f \in Findings : Lines("ack")[f] > 0

Begin(p, run) ==
  /\ Overlap \/ Quiet
  /\ proc[p].pc = "idle"
  /\ run.verb # "trust-permissions" => GateOpen(run.skip)
  /\ Become(p, [Idle EXCEPT !.pc = "read", !.run = run])
  /\ UNCHANGED <<store, outer, faults, chmods>>

StartCommand(p) == \E run \in CommandLines : Begin(p, run)

Reading(p, pc, verb) == proc[p].pc = pc /\ proc[p].run.verb = verb

\* A slip: the directory is left out.
AcknowledgeFiles(p) ==
  /\ Reading(p, "read", "trust-permissions")
  /\ Call(p, "ack", [l \in Line |-> IF l \in Findings /\ l[1] # "dir" THEN 1 ELSE 0], Private)
  /\ Become(p, [proc[p] EXCEPT !.pc = "last"])
  /\ UNCHANGED <<outer, faults, chmods>>

\* trust-permissions is not gated. Without findings it writes nothing.
Acknowledge(p) ==
  /\ Reading(p, "read", "trust-permissions")
  /\ IF Findings = {}
       THEN Exit(p) /\ UNCHANGED store
       ELSE /\ Call(p, "ack", [l \in Line |-> IF l \in Findings THEN 1 ELSE 0], Private)
            /\ Become(p, [proc[p] EXCEPT !.pc = "last"])
  /\ UNCHANGED <<outer, faults, chmods>>
-----------------------------------------------------------------------------
(* import, and the recipients line *)

\* create_dir_all: a directory that was not there gets the mode of the umask.
MakeDir == outer' = [outer EXCEPT !["dir"] = IF @ = None THEN Umask ELSE @]

\* A slip: the file is made of the imported keys.
ImportedAnew(b, ks) == [l \in Line |-> IF l \in ks THEN 1 ELSE 0]

\* Keys already there are skipped, the others appended.
Imported(b, ks) == [l \in Line |-> IF l \in ks /\ b[l] = 0 THEN 1 ELSE b[l]]

\* A store with a line that does not parse refuses (62).
Import(p) ==
  LET b == Lines("identities")
  IN  /\ Reading(p, "read", "import")
      /\ IF b[Junk] > 0
           THEN Exit(p) /\ UNCHANGED <<store, outer>>
           ELSE /\ MakeDir
                /\ Call(p, "identities", Imported(b, proc[p].run.keys), Private)
                /\ Become(p, [proc[p] EXCEPT !.pc = "last", !.ids = b])
      /\ UNCHANGED <<faults, chmods>>

\* init and trust --import append the owner's public key, there or not, and
\* whatever else is in the file (here as long as the bound allows).
AppendRecipient(p) ==
  LET b == Lines("recipients")
      k == proc[p].run.key
  IN  /\ Reading(p, "read", "anchor")
      /\ IF b[k] = MaxLines
           THEN Exit(p) /\ UNCHANGED <<store, outer>>
           ELSE /\ MakeDir
                /\ Call(p, "recipients", [b EXCEPT ![k] = @ + 1], None)
                /\ Become(p, [proc[p] EXCEPT !.pc = "last", !.recs = b])
      /\ UNCHANGED <<faults, chmods>>
-----------------------------------------------------------------------------
(* forget *)

ForgetReadPrivate(p) ==
  LET b == Lines("identities")
  IN  /\ Reading(p, "read", "forget")
      /\ IF b[Junk] > 0 THEN Exit(p)
         ELSE Become(p, [proc[p] EXCEPT !.pc = "more", !.ids = b])
      /\ UNCHANGED <<store, outer, faults, chmods>>

\* The danger guard counts the lines of identities.txt.
OnlyLine(b, k) == b[k] = 1 /\ \A l \in Line \ {k} : b[l] = 0

Without(b, k) == [b EXCEPT ![k] = 0]

\* A slip: without a private key there is nothing to forget.
ForgetPrivateFirst(p) ==
  LET k == proc[p].run.key
      ids == proc[p].ids
      recs == Lines("recipients")
      me == [proc[p] EXCEPT !.recs = recs]
  IN  /\ Reading(p, "more", "forget")
      /\ IF recs[Junk] > 0 \/ ids[k] = 0 \/ (OnlyLine(ids, k) /\ ~proc[p].run.yes)
           THEN Exit(p) /\ UNCHANGED store
           ELSE /\ Call(p, "identities", Without(ids, k), None)
                /\ Become(p, [me EXCEPT !.pc = "next"])
      /\ UNCHANGED <<outer, faults, chmods>>

\* Refusals: a line that does not parse (62), no match, the only private key
\* without --yes. Otherwise the stores that hold the key are rewritten.
Forget(p) ==
  LET k == proc[p].run.key
      ids == proc[p].ids
      recs == Lines("recipients")
      me == [proc[p] EXCEPT !.recs = recs]
  IN  /\ Reading(p, "more", "forget")
      /\ IF recs[Junk] > 0 \/ (ids[k] = 0 /\ recs[k] = 0)
            \/ (OnlyLine(ids, k) /\ ~proc[p].run.yes)
           THEN Exit(p) /\ UNCHANGED store
           ELSE IF ids[k] > 0
           THEN /\ Call(p, "identities", Without(ids, k), None)
                /\ Become(p, [me EXCEPT !.pc = "next"])
           ELSE /\ Call(p, "recipients", Without(recs, k), None)
                /\ Become(p, [me EXCEPT !.pc = "last"])
      /\ UNCHANGED <<outer, faults, chmods>>

\* A slip: one store is enough.
ForgetEnds(p) ==
  /\ Reading(p, "next", "forget") /\ job[p] = Done
  /\ Exit(p)
  /\ UNCHANGED <<store, outer, faults, chmods>>

\* recipients.txt second, if it held the key when it was read.
ForgetNext(p) ==
  LET k == proc[p].run.key
      recs == proc[p].recs
  IN  /\ Reading(p, "next", "forget") /\ job[p] = Done
      /\ IF recs[k] = 0
           THEN Exit(p) /\ UNCHANGED store
           ELSE /\ Call(p, "recipients", Without(recs, k), None)
                /\ Become(p, [proc[p] EXCEPT !.pc = "last"])
      /\ UNCHANGED <<outer, faults, chmods>>
-----------------------------------------------------------------------------
(* the writes of a command and what may befall them *)

WriteStep(p) == Write(p) /\ UNCHANGED <<outer, proc, faults, chmods>>

Finish(p) ==
  /\ proc[p].pc = "last" /\ job[p] = Done
  /\ Exit(p)
  /\ UNCHANGED <<store, outer, faults, chmods>>

\* A failed step of a write ends the command, but the directory sync's does not.
WriteFails(p) ==
  /\ faults < MaxFaults /\ faults' = faults + 1
  /\ \/ Fail(p) /\ Exit(p)
     \/ SyncDirFails(p) /\ UNCHANGED proc
  /\ UNCHANGED <<outer, chmods>>

Crash(p) ==
  /\ proc[p].pc # "idle"
  /\ faults < MaxFaults /\ faults' = faults + 1
  /\ Die(p) /\ Exit(p)
  /\ UNCHANGED <<outer, chmods>>

PowerCut ==
  /\ faults < MaxFaults /\ faults' = faults + 1
  /\ LosePower
  /\ proc' = [p \in Proc |-> Idle]
  /\ UNCHANGED <<outer, chmods>>

ChangeMode(place, m) ==
  /\ Overlap \/ Quiet
  /\ ModeOf(place) \notin {None, m}
  /\ IF place = "identities" THEN ChmodFile(place, m) /\ UNCHANGED outer
     ELSE outer' = [outer EXCEPT ![place] = m] /\ UNCHANGED store
  /\ UNCHANGED <<proc, faults>>

\* chmod for the worse, and the remedy that the refusal names.
Loosen == chmods < MaxChmods /\ chmods' = chmods + 1
          /\ \E place \in Place, m \in Mode \ {Private} : ChangeMode(place, m)
Tighten(place) == ChangeMode(place, Private) /\ UNCHANGED chmods

\* The steps of a command once started.
Step(p) ==
  \/ Acknowledge(p) \/ Import(p) \/ AppendRecipient(p)
  \/ ForgetReadPrivate(p) \/ Forget(p) \/ ForgetNext(p)
  \/ WriteStep(p) \/ Finish(p)

Next ==
  \/ \E p \in Proc : StartCommand(p) \/ Step(p) \/ WriteFails(p) \/ Crash(p)
  \/ PowerCut
  \/ Loosen
  \/ \E place \in Place : Tighten(place)

Spec == Init /\ [][Next]_vars

\* Keys that somebody wants to have forgotten.
Wanted == {run \in CommandLines : run.verb = "forget" /\ run.yes}

\* A started command runs on unless it dies; somebody who wants a key
\* forgotten keeps invoking forget --yes and applies the remedy of a refusal.
FairSpec ==
  /\ Spec
  /\ \A p \in Proc : WF_vars(Step(p))
  /\ \A run \in Wanted : SF_vars(\E p \in Proc : Begin(p, run))
  /\ \A place \in Place : SF_vars(Tighten(place))
-----------------------------------------------------------------------------
(***************************************************************************)
(* Properties.                                                             *)
(***************************************************************************)

\* Type invariant.
TypeOK ==
  /\ StoreTypeOK
  /\ outer \in [{"dir", "signing"} -> Mode \cup {None}]
  /\ proc \in [Proc -> Process]
  /\ faults \in 0 .. MaxFaults /\ chmods \in 0 .. MaxChmods

\* What p read of the file it replaces.
Seen(p) == IF job[p].name = "identities" THEN proc[p].ids ELSE proc[p].recs

\* No line of the stores is lost, one that does not parse included, unless a
\* forget was asked for it, a power cut took the file back, or the file was
\* changed by another command after the one that replaces it had read it.
LineKept ==
  [][\A n \in {"identities", "recipients"}, l \in Line :
       Lines(n)[l] > 0 /\ Lines(n)'[l] = 0 =>
         \/ faults' > faults
         \/ \E p \in Proc :
              /\ Rename(p) /\ job[p].name = n
              /\ \/ proc[p].run.verb = "forget" /\ l = proc[p].run.key
                 \/ Lines(n) # Seen(p)]_vars

Stored(k) == Lines("identities")[k] > 0 \/ Lines("recipients")[k] > 0

\* p's command ends, and not by a refusal or a failure.
Succeeds(p, verb) ==
  /\ proc[p].run # None /\ proc[p].run.verb = verb
  /\ proc[p].pc \in {"next", "last"} /\ job[p] = Done
  /\ proc'[p].pc = "idle" /\ faults' = faults

\* A forget that succeeds while no other command runs leaves the key in neither
\* store, whatever earlier attempts, power cuts and repeated lines left there.
ForgetForgets ==
  [][\A p \in Proc : Succeeds(p, "forget") => Overlap \/ ~Stored(proc[p].run.key)]_vars

\* After trust-permissions the gate lets commands through, whatever git-veil
\* itself, the umask or the user left loose.
AcknowledgeUnblocks ==
  [][\A p \in Proc : Succeeds(p, "trust-permissions") => Overlap \/ GateOpen(FALSE)]_vars

\* A forget that died or failed between the two stores can be repeated until
\* the key is in neither, although its own rewrite opened identities.txt.
ForgetCompletes ==
  \A run \in Wanted :
    (Stored(run.key) /\ Lines("identities")[Junk] = 0 /\ Lines("recipients")[Junk] = 0)
      ~> ~Stored(run.key)
-----------------------------------------------------------------------------
(***************************************************************************)
(* A statement of a comment that the run StoreForget refutes.              *)
(***************************************************************************)

\* identities.txt lands without group and world bits whoever writes it.
LandsPrivate ==
  [][\A p \in Proc :
       Rename(p) /\ job[p].name = "identities" => disk'["identities"].mode = Private]_vars
=============================================================================
