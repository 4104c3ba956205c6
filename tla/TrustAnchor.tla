----------------------------- MODULE TrustAnchor -----------------------------
(***************************************************************************)
(* How a machine comes to trust a repository: init, export-pin and trust   *)
(* --import, and what the gated commands make of the result.  One machine, *)
(* one clone, one ceremony at a time; RingTrust has the other machines and *)
(* the steps inside verification.                                          *)
(*                                                                         *)
(* A repository is known by the id its remote URL derives.  Pin, baseline  *)
(* and committed record are all filed under that id, and the fingerprint   *)
(* they hold is a digest of the id together with the owner key: the pair.  *)
(* The files of .git-veil are written one at a time, and git may put any   *)
(* content into them; a process may die between two writes.                *)
(***************************************************************************)
EXTENDS Integers, FiniteSets

CONSTANTS
  Id,           \* repository ids that remote URLs derive
  Key,          \* Ed25519 owner keys
  Seeds,        \* those whose seed is in this machine's signing-keys.txt
  Received,     \* pin-files that came here out of band, as fingerprints
  MaxVersion,   \* bound on the keyring counter
  FirstStates,  \* committed states the clone may start in
  Commits,      \* committed states git may bring later
  MaxFaults,    \* bound on deaths
  MaxMoves,     \* bound on changes of the remotes
  None

Fingerprint == Id \X Key
Ring == [by : Key \cup {None}, version : 0 .. MaxVersion]
Committed == [ring : Ring \cup {None},                        \* keyring
              record : [Id -> Fingerprint \cup {None}],       \* trust.json
              owner : Key \cup {None},                        \* owner.verifying
              manifest : BOOLEAN]                             \* tracked.json names files

ASSUME SeedsAssumption == Seeds \subseteq Key
ASSUME ReceivedAssumption == Received \subseteq Fingerprint
ASSUME MaxVersionAssumption == MaxVersion \in Nat
ASSUME StatesAssumption == FirstStates \cup Commits \subseteq Committed
ASSUME NoneAssumption == None \notin Id \cup Key \cup Fingerprint \cup Ring \cup Nat \cup {"init", "trust"}

VARIABLES
  remotes,   \* the ids the configured remotes derive
  dot,       \* the .git-veil directory
  pin,       \* pin[i]: trust-pins/<i>
  vkeys,     \* verifying-keys.txt
  baseline,  \* baseline[i]: the version in trust-pins/<i>.ring-version
  exported,  \* pin-files written by export-pin here
  proc,      \* the ceremony in flight
  faults, moves

keyStore == <<pin, vkeys, baseline>>
vars == <<remotes, dot, keyStore, exported, proc, faults, moves>>

NoRecord == [i \in Id |-> None]
NoFiles == [ring |-> None, record |-> NoRecord, owner |-> None, manifest |-> FALSE]

\* init's writes in order; import takes up at "vkey" and skips "record".
PC == {"idle", "keyring", "reset", "tracked", "owner", "vkey", "record", "pin", "clear"}
Idle == [pc |-> "idle", cmd |-> None, id |-> None, key |-> None]

Init ==
  /\ remotes \in {{i} : i \in Id}
  /\ dot \in FirstStates
  /\ pin = NoRecord /\ vkeys = {} /\ baseline = NoRecord
  /\ exported = {}
  /\ proc = Idle
  /\ faults = 0 /\ moves = 0

At(pc) == proc.pc = pc
Goto(pc) == proc' = [proc EXCEPT !.pc = pc]
-----------------------------------------------------------------------------
(* init: the owner's machine *)

\* The possession proof, on the machine that holds the seed.
Possesses(k) == k \in Seeds

\* A slip: a half-initialised directory is refused as well.
InitStartOnce ==
  /\ At("idle")
  /\ dot.record = NoRecord /\ dot.ring = None
  /\ \E i \in remotes, k \in Key :
       /\ Possesses(k)
       /\ proc' = [pc |-> "keyring", cmd |-> "init", id |-> i, key |-> k]
  /\ UNCHANGED <<remotes, dot, keyStore, exported, faults, moves>>

\* Refused (70) while trust.json records any fingerprint.
InitStart ==
  /\ At("idle")
  /\ dot.record = NoRecord
  /\ \E i \in remotes, k \in Key :
       /\ Possesses(k)
       /\ proc' = [pc |-> "keyring", cmd |-> "init", id |-> i, key |-> k]
  /\ UNCHANGED <<remotes, dot, keyStore, exported, faults, moves>>

\* One of init's four writes of initial content.
InitWrites(pc, file, content, next) ==
  /\ At(pc)
  /\ dot' = [dot EXCEPT ![file] = content]
  /\ Goto(next)
  /\ UNCHANGED <<remotes, keyStore, exported, faults, moves>>

InitKeyring == InitWrites("keyring", "ring", [by |-> None, version |-> 0], "reset")
InitRecord == InitWrites("reset", "record", NoRecord, "tracked")
InitTracked == InitWrites("tracked", "manifest", FALSE, "owner")
InitOwner == InitWrites("owner", "owner", proc.key, "vkey")
-----------------------------------------------------------------------------
(* export-pin and trust --import *)

\* Refused without the committed key's seed on this machine (20).
ExportPin ==
  /\ At("idle")
  /\ dot.owner # None /\ Possesses(dot.owner)
  /\ \E i \in remotes : exported' = exported \cup {<<i, dot.owner>>}
  /\ UNCHANGED <<remotes, dot, keyStore, proc, faults, moves>>

\* A slip: pin-file and committed key need not agree, and the latter is pinned.
ImportCommittedKey ==
  /\ At("idle")
  /\ \E f \in Received \cup exported :
       /\ f[1] \in remotes
       /\ dot.owner # None
       /\ dot.record[f[1]] = <<f[1], dot.owner>>
       /\ proc' = [pc |-> "vkey", cmd |-> "trust", id |-> f[1], key |-> dot.owner]
  /\ UNCHANGED <<remotes, dot, keyStore, exported, faults, moves>>

\* Three channels agree: the pin-file names (a) the id the remote derives,
\* (b) the committed key and (c) the committed fingerprint.
ImportStart ==
  /\ At("idle")
  /\ \E f \in Received \cup exported :
       /\ f[1] \in remotes
       /\ dot.owner = f[2]
       /\ dot.record[f[1]] = f
       /\ proc' = [pc |-> "vkey", cmd |-> "trust", id |-> f[1], key |-> f[2]]
  /\ UNCHANGED <<remotes, dot, keyStore, exported, faults, moves>>
-----------------------------------------------------------------------------
(* write_pin_state, which ends both ceremonies *)

AppendKey ==
  /\ At("vkey")
  /\ vkeys' = vkeys \cup {proc.key}
  /\ Goto(IF proc.cmd = "init" THEN "record" ELSE "pin")
  /\ UNCHANGED <<remotes, dot, pin, baseline, exported, faults, moves>>

\* reconcile_owner_fingerprints: ids that no remote derives are pruned.
Reconciled(r) == [i \in Id |-> IF i \in remotes THEN r[i] ELSE None]

RecordFingerprint ==
  /\ At("record")
  /\ dot' = [dot EXCEPT !.record =
               Reconciled([dot.record EXCEPT ![proc.id] = <<proc.id, proc.key>>])]
  /\ Goto("pin")
  /\ UNCHANGED <<remotes, keyStore, exported, faults, moves>>

\* A slip: the key is pinned without the id it is trusted for.
WritePinUnlabelled ==
  /\ At("pin")
  /\ pin' = [pin EXCEPT ![proc.id] = proc.key]
  /\ Goto("clear")
  /\ UNCHANGED <<remotes, dot, vkeys, baseline, exported, faults, moves>>

WritePin ==
  /\ At("pin")
  /\ pin' = [pin EXCEPT ![proc.id] = <<proc.id, proc.key>>]
  /\ Goto("clear")
  /\ UNCHANGED <<remotes, dot, vkeys, baseline, exported, faults, moves>>

ClearBaseline ==
  /\ At("clear")
  /\ baseline' = [baseline EXCEPT ![proc.id] = None]
  /\ proc' = Idle
  /\ UNCHANGED <<remotes, dot, pin, vkeys, exported, faults, moves>>
-----------------------------------------------------------------------------
(* what the anchor is for *)

\* A slip: the record of the repository is believed without a pin.
VerifiesUnpinned(i) ==
  /\ i \in remotes
  /\ dot.record[i] # None
  /\ \E k \in Key : dot.record[i] = <<i, k>> /\ dot.ring # None /\ dot.ring.by \in {k, None}

\* verify_keyring_against_trust: record, pin and a known key agree, the ring
\* is signed by that key or as init wrote it, and it is no rollback.
Verifies(i) ==
  /\ i \in remotes
  /\ dot.record[i] # None /\ pin[i] = dot.record[i]
  /\ \E k \in vkeys :
       /\ pin[i] = <<i, k>>
       /\ dot.ring # None /\ dot.ring.by \in {k, None}
  /\ baseline[i] # None =>
       baseline[i] <= IF dot.ring.by = None THEN 0 ELSE dot.ring.version

Accepted(i) ==
  baseline' = IF dot.ring.by = None THEN baseline
                                    ELSE [baseline EXCEPT ![i] = dot.ring.version]

VerifyKeys ==
  /\ At("idle")
  /\ \E i \in remotes : Verifies(i) /\ Accepted(i)
  /\ UNCHANGED <<remotes, dot, pin, vkeys, exported, proc, faults, moves>>

\* add-key and remove-key: a ring change signed with the pinned key's seed.
ChangeRing ==
  /\ At("idle")
  /\ \E i \in remotes :
       /\ Verifies(i) /\ Accepted(i)
       /\ Possesses(pin[i][2])
       /\ dot.ring.version < MaxVersion
       /\ dot' = [dot EXCEPT !.ring = [by |-> pin[i][2], version |-> @.version + 1]]
  /\ UNCHANGED <<remotes, pin, vkeys, exported, proc, faults, moves>>

\* add-file asks for a pin and no more (11), and for a .git-veil to write to.
Track ==
  /\ At("idle")
  /\ dot # NoFiles
  /\ \E i \in remotes : pin[i] # None
  /\ dot' = [dot EXCEPT !.manifest = TRUE]
  /\ UNCHANGED <<remotes, keyStore, exported, proc, faults, moves>>
-----------------------------------------------------------------------------
(* the rest of the world *)

\* clean --yes, or rm -r .git-veil; without --yes only an empty manifest goes.
Clean ==
  /\ At("idle")
  /\ dot' = NoFiles
  /\ UNCHANGED <<remotes, keyStore, exported, proc, faults, moves>>

\* remove_dir_all takes the files in any order and may stop after some of them.
CleanStops ==
  /\ At("idle")
  /\ faults < MaxFaults
  /\ faults' = faults + 1
  /\ \E gone \in SUBSET DOMAIN NoFiles :
       dot' = [file \in DOMAIN NoFiles |-> IF file \in gone THEN NoFiles[file] ELSE dot[file]]
  /\ UNCHANGED <<remotes, keyStore, exported, proc, moves>>

\* A record without the files it speaks of, which init does not touch (70).
HalfCleaned == dot.record # NoRecord /\ (dot.owner = None \/ dot.ring = None)

\* git remote set-url, after the repository moved or was renamed.
Rename ==
  /\ moves < MaxMoves
  /\ moves' = moves + 1
  /\ \E i \in remotes, j \in Id \ remotes : remotes' = (remotes \ {i}) \cup {j}
  /\ UNCHANGED <<dot, keyStore, exported, proc, faults>>

Pull ==
  /\ dot' \in Commits
  /\ UNCHANGED <<remotes, keyStore, exported, proc, faults, moves>>

Crash ==
  /\ ~At("idle")
  /\ faults < MaxFaults
  /\ faults' = faults + 1
  /\ proc' = Idle
  /\ UNCHANGED <<remotes, dot, keyStore, exported, moves>>

\* The writes of a ceremony once started.
Step ==
  \/ InitKeyring \/ InitRecord \/ InitTracked \/ InitOwner
  \/ AppendKey \/ RecordFingerprint \/ WritePin \/ ClearBaseline

Next ==
  \/ InitStart \/ ExportPin \/ ImportStart \/ Step
  \/ VerifyKeys \/ ChangeRing \/ Track \/ Clean \/ CleanStops
  \/ Rename \/ Pull \/ Crash

Spec == Init /\ [][Next]_vars

\* The owner keeps trying to anchor the repository: a started ceremony runs on
\* unless it dies, and whatever of init, export-pin and trust --import is not
\* refused is invoked again and again.  Nobody has to destroy .git-veil, but
\* a clean that stopped half-way is repeated, as init's refusal asks.
OwnerSpec ==
  /\ Spec
  /\ WF_vars(Step)
  /\ SF_vars(HalfCleaned /\ Clean)
  /\ SF_vars(InitStart) /\ SF_vars(ExportPin) /\ SF_vars(ImportStart)
-----------------------------------------------------------------------------
(***************************************************************************)
(* Properties.                                                             *)
(***************************************************************************)

\* Type invariant.
TypeOK ==
  /\ remotes \subseteq Id
  /\ dot \in Committed
  /\ pin \in [Id -> Fingerprint \cup {None}]
  /\ vkeys \subseteq Key
  /\ baseline \in [Id -> 0 .. MaxVersion \cup {None}]
  /\ exported \subseteq Fingerprint
  /\ proc \in [pc : PC, cmd : {"init", "trust", None}, id : Id \cup {None},
               key : Key \cup {None}]
  /\ ~At("idle") => proc.cmd # None /\ proc.id # None /\ proc.key # None

\* A repository can never supply its own trust anchor: whatever git puts into
\* .git-veil, before, between and during the ceremonies, every pin names the
\* id it is filed under and a key that this machine holds the seed of or that
\* a pin-file brought here for that id.
Anchored(i, k) == Possesses(k) \/ <<i, k>> \in Received
AnchorFromOutside ==
  \A i \in Id : pin[i] # None =>
    pin[i] \in {<<i, k>> : k \in {q \in Key : Anchored(i, q)}}

\* So a ring with entries that some command acts on was signed by such a key.
RingFromAnchor ==
  \A i \in Id : Verifies(i) /\ dot.ring.by # None => Anchored(i, dot.ring.by)

\* Deaths anywhere in the ceremony, or in a clean, cost the owner no more than
\* another attempt: clean until it has finished, init again while trust.json
\* is empty, export-pin and trust --import afterwards, and the gated commands
\* verify.
AnchorRecovers == (\A i \in remotes : ~Verifies(i)) ~> (\E i \in remotes : Verifies(i))
-----------------------------------------------------------------------------
(***************************************************************************)
(* A statement of the documentation that the run AnchorRename refutes.     *)
(***************************************************************************)

\* After a rename the owner re-establishes trust in the same repository on a
\* machine holding the signing key.
RenameIsRecovered == moves > 0 ~> \E i \in remotes : Verifies(i)
=============================================================================
