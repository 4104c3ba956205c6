----------------------------- MODULE RingTrust -----------------------------
(***************************************************************************)
(* Who may change the keyring and which keyring a machine acts on.         *)
(*                                                                         *)
(* A machine is a clone plus the key store beside it.  The committed files *)
(* (worktree: the keyring and the owner key trust.json claims) are repo    *)
(* content: git can bring any version of them to any clone.  The key store *)
(* holds the pin, the verifying keys, the freshness baseline, the          *)
(* ring-change stamp and the allowance records, outside the repository.    *)
(*                                                                         *)
(* git-veil has no daemon and no lock.  A command is a short-lived process *)
(* whose file writes are each atomic (write_atomic), so a process here is  *)
(* a program counter and its local variables, a step is one file read or   *)
(* write with the pure code around it, and a crash may come between any    *)
(* two steps.  A refusal leaves the state as it was: the process is idle   *)
(* again, having written nothing in that step.                             *)
(***************************************************************************)
EXTENDS Keyring, FiniteSets

CONSTANTS
  Machine,
  Proc,            \* command invocations in flight
  Host,            \* Host[p] is the machine p runs on
  Principal,       \* Principal[m]: what git config user.email is set to on m
  Seeds,           \* Seeds[m]: the signing keys in m's signing-keys.txt
  PinFiles,        \* owner keys for which a pin-file travels out of band
  Explicit,        \* verifying keys users pass as --signing-key
  FirstSignatures, \* signatures in circulation when the model starts
  FirstBaselines,  \* freshness baselines older releases left behind
  Junk,            \* contents edited or merged by hand, never signed
  Overlap          \* TRUE: git may move the worktree under a command

ASSUME HostAssumption == Host \in [Proc -> Machine]
ASSUME PrincipalAssumption == Principal \in [Machine -> SUBSET Email]
ASSUME SeedsAssumption == Seeds \in [Machine -> SUBSET SigningKey]
ASSUME KeyFilesAssumption == PinFiles \cup Explicit \subseteq SigningKey
ASSUME FirstSignaturesAssumption == FirstSignatures \subseteq Signature
ASSUME JunkAssumption == Junk \subseteq Content

Baseline == [version : Version, digest : Content \cup {None}]
Stamp == [version : Version, digest : Content]

ASSUME NoneIsNoBaseline == None \notin Baseline
ASSUME FirstBaselinesAssumption ==
  FirstBaselines \subseteq [version : Version, digest : {None}]

VARIABLES
  worktree,   \* worktree[m]: the committed state in m's clone
  pin,        \* pin[m]: trust-pins/<repo>
  vkeys,      \* vkeys[m]: verifying-keys.txt
  baseline,   \* baseline[m]: trust-pins/<repo>.ring-version
  stamp,      \* stamp[m]: ring-pass/<repo>
  consent,    \* consent[m]: the pairs (pin, principal) with an allowance record
  proc,       \* proc[p]: program counter and local variables
  signed,     \* every signature ever made (observation; bounds what git carries)
  current,    \* current[m]: the signed ring m last accepted since its last re-pin
  own         \* own[m]: the content m's own curation wrote last since then

keyStore == <<pin, vkeys, baseline, stamp, consent>>
ghosts == <<signed, current, own>>
vars == <<worktree, keyStore, proc, ghosts>>

Committed == [claimed : SigningKey \cup {None}, ring : Ring]

\* A command line of a curating or verifying command.  by is the key named
\* with --signing-key, or None for discovery by the pinned fingerprint.
Command ==
  [cmd : {"verify-keys"}, email : {None}, key : {None}, by : {None}] \cup
  [cmd : {"add-key"}, email : Email, key : PubKey, by : Explicit \cup {None}] \cup
  [cmd : {"remove-key"}, email : Email, key : {None}, by : Explicit \cup {None}] \cup
  [cmd : {"trust"}, email : {None}, key : {None}, by : PinFiles]

ASSUME NoneIsNoCommand == None \notin Command

PC == {"idle", "gate", "record", "reread", "write", "stamp", "purge", "pin", "clear"}
Idle == [pc |-> "idle", run |-> None, trusted |-> None, ring |-> None, draft |-> None]
Process == [pc : PC, run : Command \cup {None}, trusted : SigningKey \cup {None},
            ring : Ring \cup {None}, draft : Ring \cup {None}]

Init ==
  /\ worktree = [m \in Machine |-> [claimed |-> None, ring |-> EmptyRing]]
  /\ pin = [m \in Machine |-> None]
  /\ vkeys = [m \in Machine |-> {}]
  /\ baseline \in [Machine -> FirstBaselines \cup {None}]
  /\ stamp = [m \in Machine |-> None]
  /\ consent = [m \in Machine |-> {}]
  /\ proc = [p \in Proc |-> Idle]
  /\ signed = FirstSignatures
  /\ current = [m \in Machine |-> None]
  /\ own = [m \in Machine |-> None]

\* No command is in flight on m.
Quiet(m) == \A p \in Proc : Host[p] = m => proc[p].pc = "idle"

Goto(p, pc) == proc' = [proc EXCEPT ![p].pc = pc]
Exit(p) == proc' = [proc EXCEPT ![p] = Idle]
-----------------------------------------------------------------------------
(***************************************************************************)
(* verify_keyring_against_trust, the entry of every gated command.         *)
(***************************************************************************)

\* A slip: any known verifying key will do.
TrustsAnyKnownKey(m) ==
  /\ worktree[m].claimed # None
  /\ pin[m] = worktree[m].claimed
  /\ pin[m] \in vkeys[m]
  /\ (\E k \in vkeys[m] : SignedBy(worktree[m].ring, k)) \/ UnsignedEmpty(worktree[m].ring)

\* The trust checks: a committed record (10), a pin (11) that agrees with it
\* (12), the pinned verifying key (11), a ring signed by that key or unsigned
\* and empty (63).
TrustHolds(m) ==
  /\ worktree[m].claimed # None
  /\ pin[m] = worktree[m].claimed
  /\ pin[m] \in vkeys[m]
  /\ SignedBy(worktree[m].ring, pin[m]) \/ UnsignedEmpty(worktree[m].ring)

\* An unsigned empty ring counts as version 0 whatever its version line says.
Observed(r) == IF UnsignedEmpty(r) THEN 0 ELSE Counter(r.content)

\* A slip: a rollback passes.
FreshUnlessForked(b, r) ==
  b # None /\ b.version = Observed(r) /\ b.digest # None /\ r.sig # None
    => b.digest = r.content

\* The freshness gate: no rollback, no equal-version substitution (14).
Fresh(b, r) ==
  b # None =>
    /\ b.version <= Observed(r)
    /\ b.version = Observed(r) /\ b.digest # None /\ r.sig # None
         => b.digest = r.content

\* A slip: a baseline without its digest line.
BaselineWithoutDigest(r) == [version |-> Observed(r), digest |-> None]

\* What a signed ring leaves in the baseline file.
BaselineOf(r) == [version |-> Observed(r), digest |-> r.content]

\* Verification returned Ok: verify-keys is done, a curating command goes on.
Proceed(p) ==
  IF proc[p].run.cmd = "verify-keys" THEN Exit(p) ELSE Goto(p, "reread")

Accept(m, r) == current' = [current EXCEPT ![m] = IF r.sig = None THEN @ ELSE r.sig]

VerifyTrust(p) ==
  LET m == Host[p]
  IN  /\ proc[p].pc = "idle"
      /\ TrustHolds(m)
      /\ \E run \in Command :
           /\ run.cmd # "trust"
           /\ proc' = [proc EXCEPT ![p] = [Idle EXCEPT !.pc = "gate", !.run = run,
                                !.trusted = pin[m], !.ring = worktree[m].ring]]
      /\ UNCHANGED <<worktree, keyStore, ghosts>>

VerifyFreshness(p) ==
  LET m == Host[p]
      r == proc[p].ring
  IN  /\ proc[p].pc = "gate"
      /\ IF ~Fresh(baseline[m], r)
           THEN Exit(p) /\ UNCHANGED current
         ELSE IF r.sig # None /\ baseline[m] # BaselineOf(r)
           THEN Goto(p, "record") /\ UNCHANGED current
         ELSE Proceed(p) /\ Accept(m, r)
      /\ UNCHANGED <<worktree, keyStore, signed, own>>

RecordBaseline(p) ==
  LET m == Host[p]
      r == proc[p].ring
  IN  /\ proc[p].pc = "record"
      /\ baseline' = [baseline EXCEPT ![m] = BaselineOf(r)]
      /\ Proceed(p)
      /\ Accept(m, r)
      /\ UNCHANGED <<worktree, pin, vkeys, stamp, consent, signed, own>>
-----------------------------------------------------------------------------
(***************************************************************************)
(* add-key and remove-key after verification.                              *)
(***************************************************************************)

\* discover_signing_key_explicit, or discover_signing_key by the pin that
\* verification returned (20 when the seed is not on this machine).
Signers(m, run, trusted) ==
  Seeds[m] \cap {IF run.by = None THEN trusted ELSE run.by}

Edited(c, run) ==
  IF run.cmd = "add-key" THEN Bumped(WithEntry(c, run.email, run.key))
                         ELSE Bumped(WithoutEntry(c, run.email))

\* The keyring file is read again, edited, and signed.  Refusals: the
\* principal to remove is absent (22), the counter is exhausted, no seed (20).
Reread(p) ==
  LET m == Host[p]
      run == proc[p].run
      c == worktree[m].ring.content
  IN  /\ proc[p].pc = "reread"
      /\ \/ /\ run.cmd = "remove-key" => Matching(c, run.email) # {}
            /\ CanBump(c)
            /\ \E k \in Signers(m, run, proc[p].trusted) :
                 proc' = [proc EXCEPT ![p].pc = "write",
                                      ![p].draft = Signed(Edited(c, run), k)]
         \/ /\ \/ run.cmd = "remove-key" /\ Matching(c, run.email) = {}
               \/ ~CanBump(c)
               \/ Signers(m, run, proc[p].trusted) = {}
            /\ Exit(p)
      /\ UNCHANGED <<worktree, keyStore, ghosts>>

WriteRing(p) ==
  LET m == Host[p]
      r == proc[p].draft
  IN  /\ proc[p].pc = "write"
      /\ worktree' = [worktree EXCEPT ![m].ring = r]
      /\ signed' = signed \cup {r.sig}
      /\ own' = [own EXCEPT ![m] = r.content]
      /\ Goto(p, "stamp")
      /\ UNCHANGED <<keyStore, current>>

\* A slip: the stamp names the ring that was verified, not the one written.
WriteStampOfVerified(p) ==
  LET m == Host[p]
      c == proc[p].ring.content
  IN  /\ proc[p].pc = "stamp"
      /\ stamp' = [stamp EXCEPT ![m] = [version |-> Counter(c), digest |-> c]]
      /\ IF proc[p].run.cmd = "remove-key" THEN Goto(p, "purge") ELSE Exit(p)
      /\ UNCHANGED <<worktree, pin, vkeys, baseline, consent, ghosts>>

WriteStamp(p) ==
  LET m == Host[p]
      c == proc[p].draft.content
  IN  /\ proc[p].pc = "stamp"
      /\ stamp' = [stamp EXCEPT ![m] = [version |-> c.version, digest |-> c]]
      /\ IF proc[p].run.cmd = "remove-key" THEN Goto(p, "purge") ELSE Exit(p)
      /\ UNCHANGED <<worktree, pin, vkeys, baseline, consent, ghosts>>

\* AllowanceStore::purge: the record keyed by the argument exactly as typed.
PurgeConsent(p) ==
  LET m == Host[p]
  IN  /\ proc[p].pc = "purge"
      /\ consent' = [consent EXCEPT ![m] = @ \ {<<proc[p].trusted, proc[p].run.email>>}]
      /\ Exit(p)
      /\ UNCHANGED <<worktree, pin, vkeys, baseline, stamp, ghosts>>
-----------------------------------------------------------------------------
(***************************************************************************)
(* trust --import: the pin-file, the committed owner key and the committed *)
(* fingerprint agree, then write_pin_state.                                *)
(***************************************************************************)
ImportPin(p) ==
  LET m == Host[p]
  IN  /\ proc[p].pc = "idle"
      /\ \E run \in Command :
           /\ run.cmd = "trust"
           /\ run.by = worktree[m].claimed
           /\ vkeys' = [vkeys EXCEPT ![m] = @ \cup {run.by}]
           /\ proc' = [proc EXCEPT ![p] = [Idle EXCEPT !.pc = "pin", !.run = run]]
      /\ UNCHANGED <<worktree, pin, baseline, stamp, consent, ghosts>>

WritePin(p) ==
  /\ proc[p].pc = "pin"
  /\ pin' = [pin EXCEPT ![Host[p]] = proc[p].run.by]
  /\ Goto(p, "clear")
  /\ UNCHANGED <<worktree, vkeys, baseline, stamp, consent, ghosts>>

ClearBaseline(p) ==
  /\ proc[p].pc = "clear"
  /\ baseline' = [baseline EXCEPT ![Host[p]] = None]
  /\ current' = [current EXCEPT ![Host[p]] = None]
  /\ own' = [own EXCEPT ![Host[p]] = None]
  /\ Exit(p)
  /\ UNCHANGED <<worktree, pin, vkeys, stamp, consent, signed>>
-----------------------------------------------------------------------------
(***************************************************************************)
(* Everything else that touches this state.                                *)
(***************************************************************************)

\* allow and add: the git user records consent under the pin.
RecordConsent(m) ==
  /\ Quiet(m)
  /\ pin[m] # None
  /\ \E e \in Principal[m] : consent' = [consent EXCEPT ![m] = @ \cup {<<pin[m], e>>}]
  /\ UNCHANGED <<worktree, pin, vkeys, baseline, stamp, proc, ghosts>>

\* A process dies between two steps; what it wrote stays written.
Crash(p) ==
  /\ proc[p].pc # "idle"
  /\ Exit(p)
  /\ UNCHANGED <<worktree, keyStore, ghosts>>

\* The rings repo content can hold: any content next to any signature block
\* that was ever made.
Presentable ==
  LET sigs == signed \cup {None}
  IN  [content : {s.over : s \in signed} \cup Junk, sig : sigs]

\* git pull, checkout, revert, merge, or an editor, in the clone of m.
Git(m) ==
  /\ Overlap \/ Quiet(m)
  /\ \E k \in SigningKey \cup {None}, r \in Presentable :
       worktree' = [worktree EXCEPT ![m] = [claimed |-> k, ring |-> r]]
  /\ UNCHANGED <<keyStore, proc, ghosts>>

Next ==
  \/ \E p \in Proc :
       \/ VerifyTrust(p) \/ VerifyFreshness(p) \/ RecordBaseline(p)
       \/ Reread(p) \/ WriteRing(p) \/ WriteStamp(p) \/ PurgeConsent(p)
       \/ ImportPin(p) \/ WritePin(p) \/ ClearBaseline(p)
       \/ Crash(p)
  \/ \E m \in Machine : RecordConsent(m) \/ Git(m)

Spec == Init /\ [][Next]_vars
-----------------------------------------------------------------------------
(***************************************************************************)
(* Properties.                                                             *)
(***************************************************************************)

\* What each program counter implies for the local variables.
LocalOK(l) ==
  /\ l.pc # "idle" => l.run # None
  /\ l.pc \in {"gate", "record", "reread"} => l.ring # None /\ l.trusted # None
  /\ l.pc \in {"gate", "record"} => l.run.cmd # "trust"
  /\ l.pc \in {"reread", "write", "stamp", "purge"} =>
       l.run.cmd \in {"add-key", "remove-key"} /\ l.trusted # None
  /\ l.pc \in {"write", "stamp"} =>
       l.draft # None /\ l.draft.sig # None /\ l.draft.content.version # None
  /\ l.pc \in {"pin", "clear"} => l.run.cmd = "trust"

\* Type invariant.
TypeOK ==
  /\ worktree \in [Machine -> Committed]
  /\ pin \in [Machine -> SigningKey \cup {None}]
  /\ vkeys \in [Machine -> SUBSET SigningKey]
  /\ baseline \in [Machine -> Baseline \cup {None}]
  /\ stamp \in [Machine -> Stamp \cup {None}]
  /\ consent \in [Machine -> SUBSET (SigningKey \X Email)]
  /\ proc \in [Proc -> Process]
  /\ signed \subseteq Signature
  /\ current \in [Machine -> Signature \cup {None}]
  /\ own \in [Machine -> Content \cup {None}]
  /\ \A p \in Proc : LocalOK(proc[p])

\* The usage the code is written for: at most one command at a time on each
\* machine.  Nothing in the code enforces it.
OneCommandPerMachine == \A p, q \in Proc : Host[p] = Host[q] => p = q

\* The baseline file is exactly the last accepted signed ring: refused,
\* unsigned, crashed-before-recording and junk rings never leave a trace in
\* it, and an accepted one is never forgotten before the next re-pin.
BaselineTracksAccepted ==
  \A m \in Machine :
    baseline[m] \in IF current[m] = None
                     THEN FirstBaselines \cup {None}
                     ELSE {[version |-> Counter(current[m].over),
                            digest |-> current[m].over]}

\* A ring is accepted only under the key pinned at that moment, even though
\* the signature was checked some steps before the baseline was written.
AcceptedUnderPin ==
  [][\A m \in Machine :
       current'[m] # current[m] /\ current'[m] # None
         => current'[m].by = pin[m] /\ pin[m] \in vkeys[m]]_vars

\* A stamp is written only for the ring this machine's curation wrote last:
\* not for the one it verified nor for what git has put there since, so the
\* pass is armed for the signed ring and rotate can find it in the worktree.
StampNamesWrittenRing ==
  [][\A m \in Machine :
       stamp'[m] # stamp[m] =>
         /\ own[m] # None
         /\ stamp'[m] = [version |-> Counter(own[m]), digest |-> own[m]]]_vars

\* Between two re-pins the rings a machine accepts form a chain: each is the
\* previous one again or has a higher counter.
Chain == INSTANCE FreshAcceptance WITH
           Content <- Content,
           current <- [m \in Machine |-> IF current[m] = None THEN None
                                                             ELSE current[m].over]

AcceptanceIsFresh == Chain!Spec
-----------------------------------------------------------------------------
(***************************************************************************)
(* A statement of the documentation that the run RingOwnFork refutes.      *)
(***************************************************************************)

\* Two machines that curate without pulling produce two version-N rings; the
\* other machine's never silently replaces the one this machine signed.
OwnRingNotReplaced ==
  \A m, n \in Machine :
    (/\ own[m] # None /\ own[n] # None /\ own[m].version = own[n].version
     /\ current[m] # None /\ current[m].over = own[n])
      => own[m] = own[n]
=============================================================================
