-------------------------- MODULE RingTrustProofs --------------------------
(***************************************************************************)
(* Keyring freshness for every number of machines, principals, keys and    *)
(* counters.                                                               *)
(***************************************************************************)
EXTENDS RingTrust, TLAPS

-----------------------------------------------------------------------------
(***************************************************************************)
(* What the operators on keyrings return.                                  *)
(***************************************************************************)

\* The counter of a parsed keyring is a version number (keyring.rs).
LEMMA CounterType == ASSUME NEW c \in Content PROVE Counter(c) \in Version
  BY MaxVersionAssumption DEF Content, Counter, Version

\* add_entry keeps a keyring a keyring.
LEMMA WithEntryType ==
  ASSUME NEW c \in Content, NEW e \in Email, NEW k \in PubKey
  PROVE  WithEntry(c, e, k) \in Content
<1> DEFINE old == Matching(c, e)
<1>1. old \subseteq c.entries
  BY DEF Matching
<1>2. {[y EXCEPT !.key = k] : y \in old} \subseteq Entry
  BY <1>1 DEF Content, Entry
<1>3. [email |-> e, key |-> k] \in Entry
  BY DEF Entry
<1>4. QED
  BY <1>1, <1>2, <1>3 DEF WithEntry, Content

\* remove_entry keeps a keyring a keyring.
LEMMA WithoutEntryType ==
  ASSUME NEW c \in Content, NEW e \in Email
  PROVE  WithoutEntry(c, e) \in Content
  BY DEF WithoutEntry, Content

\* bump_version below u64::MAX yields a versioned keyring, one higher.
LEMMA BumpedType ==
  ASSUME NEW c \in Content, Counter(c) < MaxVersion
  PROVE  Bumped(c) \in Content /\ Bumped(c).version \in Version
<1>1. Counter(c) + 1 \in Version
  BY CounterType, MaxVersionAssumption DEF Version
<1>2. QED
  BY <1>1 DEF Bumped, Content

\* The edits keep the counter, so the bump of the edited ring is in range.
LEMMA EditedType ==
  ASSUME NEW c \in Content, NEW run \in Command, CanBump(c),
         run.cmd \in {"add-key", "remove-key"}
  PROVE  Edited(c, run) \in Content /\ Edited(c, run).version \in Version
<1>1. CASE run.cmd = "add-key"
  <2>1. run.email \in Email /\ run.key \in PubKey
    BY <1>1 DEF Command
  <2>2. WithEntry(c, run.email, run.key) \in Content
    BY <2>1, WithEntryType
  <2>3. WithEntry(c, run.email, run.key).version = c.version
    BY DEF WithEntry, Content
  <2>4. Counter(WithEntry(c, run.email, run.key)) < MaxVersion
    BY <2>3 DEF CanBump, Counter
  <2>5. QED
    BY <1>1, <2>2, <2>4, BumpedType DEF Edited
<1>2. CASE run.cmd = "remove-key"
  <2>1. run.email \in Email
    BY <1>2 DEF Command
  <2>2. WithoutEntry(c, run.email) \in Content
    BY <2>1, WithoutEntryType
  <2>3. WithoutEntry(c, run.email).version = c.version
    BY DEF WithoutEntry, Content
  <2>4. Counter(WithoutEntry(c, run.email)) < MaxVersion
    BY <2>3 DEF CanBump, Counter
  <2>5. QED
    BY <1>2, <2>2, <2>4, BumpedType DEF Edited
<1>3. QED
  BY <1>1, <1>2

\* What a ring leaves in the baseline file is a baseline.
LEMMA BaselineOfType ==
  ASSUME NEW r \in Ring
  PROVE  BaselineOf(r) \in Baseline /\ Observed(r) \in Version
<1>1. r.content \in Content
  BY DEF Ring
<1>2. Observed(r) \in Version
  BY <1>1, CounterType, MaxVersionAssumption DEF Observed, Version
<1>3. QED
  BY <1>1, <1>2 DEF BaselineOf, Baseline
-----------------------------------------------------------------------------
(***************************************************************************)
(* Type correctness, one lemma per group of actions.                       *)
(***************************************************************************)

\* A step that gives one process new well-formed locals keeps proc well formed.
LEMMA ProcStep ==
  ASSUME TypeOK, NEW p \in Proc, NEW l \in Process, LocalOK(l),
         proc' = [proc EXCEPT ![p] = l]
  PROVE  proc' \in [Proc -> Process] /\ \A q \in Proc : LocalOK(proc'[q])
  BY DEF TypeOK

\* Exit is such a step.
LEMMA ExitStep ==
  ASSUME TypeOK, NEW p \in Proc, Exit(p)
  PROVE  proc' \in [Proc -> Process] /\ \A q \in Proc : LocalOK(proc'[q])
<1>1. Idle \in Process /\ LocalOK(Idle)
  BY DEF Idle, Process, PC, LocalOK
<1>2. QED
  BY <1>1, ProcStep DEF Exit

\* Goto is such a step when the new program counter suits the locals.
LEMMA GotoStep ==
  ASSUME TypeOK, NEW p \in Proc, NEW pc \in PC, Goto(p, pc),
         LocalOK([proc[p] EXCEPT !.pc = pc])
  PROVE  proc' \in [Proc -> Process] /\ \A q \in Proc : LocalOK(proc'[q])
<1>1. [proc[p] EXCEPT !.pc = pc] \in Process
  BY DEF TypeOK, Process
<1>2. proc' = [proc EXCEPT ![p] = [proc[p] EXCEPT !.pc = pc]]
  BY DEF Goto
<1>3. QED
  BY <1>1, <1>2, ProcStep

\* Leaving verification: verify-keys exits, the curating commands go on.
LEMMA ProceedStep ==
  ASSUME TypeOK, NEW p \in Proc, proc[p].pc \in {"gate", "record"}, Proceed(p)
  PROVE  proc' \in [Proc -> Process] /\ \A q \in Proc : LocalOK(proc'[q])
<1>1. CASE proc[p].run.cmd = "verify-keys"
  BY <1>1, ExitStep DEF Proceed
<1>2. CASE proc[p].run.cmd # "verify-keys"
  <2>1. proc[p] \in Process /\ LocalOK(proc[p])
    BY DEF TypeOK
  <2>2. proc[p].run \in Command /\ proc[p].run.cmd # "trust"
    BY <2>1 DEF Process, LocalOK
  <2>3. proc[p].run.cmd \in {"add-key", "remove-key"}
    BY <1>2, <2>2 DEF Command
  <2>4. LocalOK([proc[p] EXCEPT !.pc = "reread"])
    BY <2>1, <2>3 DEF Process, LocalOK
  <2>5. QED
    BY <1>2, <2>4, GotoStep DEF Proceed, PC
<1>3. QED
  BY <1>1, <1>2

\* The verification steps keep the types.
LEMMA TypeVerify ==
  ASSUME TypeOK, NEW p \in Proc,
         VerifyTrust(p) \/ VerifyFreshness(p) \/ RecordBaseline(p)
  PROVE  TypeOK'
<1> DEFINE m == Host[p]
<1>0. m \in Machine /\ proc[p] \in Process /\ LocalOK(proc[p])
  BY HostAssumption DEF TypeOK
<1>1. CASE VerifyTrust(p)
  <2>1. PICK run \in Command :
          /\ run.cmd # "trust"
          /\ proc' = [proc EXCEPT ![p] = [Idle EXCEPT !.pc = "gate", !.run = run,
                              !.trusted = pin[m], !.ring = worktree[m].ring]]
    BY <1>1 DEF VerifyTrust
  <2> DEFINE l == [Idle EXCEPT !.pc = "gate", !.run = run,
                          !.trusted = pin[m], !.ring = worktree[m].ring]
  <2>2. /\ pin[m] \in SigningKey /\ pin[m] # None
        /\ worktree[m].ring \in Ring /\ worktree[m].ring # None
        /\ run # None
    <3>1. pin[m] = worktree[m].claimed /\ worktree[m].claimed # None
      BY <1>1 DEF VerifyTrust, TrustHolds
    <3>2. worktree[m] \in Committed
      BY <1>0 DEF TypeOK
    <3>3. worktree[m].claimed \in SigningKey \cup {None} /\ worktree[m].ring \in Ring
      BY <3>2 DEF Committed
    <3>4. QED
      BY <3>1, <3>3, NoneAssumption, NoneIsNoCommand
  <2>3. l \in Process /\ LocalOK(l)
    BY <2>1, <2>2 DEF Process, Idle, PC, LocalOK
  <2>4. proc' \in [Proc -> Process] /\ \A q \in Proc : LocalOK(proc'[q])
    BY <2>1, <2>3, ProcStep
  <2>5. QED
    BY <1>1, <2>4 DEF VerifyTrust, TypeOK, keyStore, ghosts
<1>2. CASE VerifyFreshness(p)
  <2>1. proc[p].ring \in Ring
    BY <1>0, <1>2 DEF VerifyFreshness, LocalOK, Process
  <2>2. current' \in [Machine -> Signature \cup {None}]
    BY <1>0, <1>2, <2>1 DEF VerifyFreshness, Accept, TypeOK, Ring
  <2>3. Exit(p) \/ Goto(p, "record") \/ Proceed(p)
    BY <1>2 DEF VerifyFreshness
  <2>4. proc[p].pc = "gate" /\ LocalOK([proc[p] EXCEPT !.pc = "record"])
    BY <1>0, <1>2 DEF VerifyFreshness, LocalOK, Process
  <2>5. proc' \in [Proc -> Process] /\ \A q \in Proc : LocalOK(proc'[q])
    BY <2>3, <2>4, ExitStep, GotoStep, ProceedStep DEF PC
  <2>6. QED
    BY <1>2, <2>2, <2>5 DEF VerifyFreshness, TypeOK, keyStore, ghosts
<1>3. CASE RecordBaseline(p)
  <2>1. proc[p].ring \in Ring
    BY <1>0, <1>3 DEF RecordBaseline, LocalOK, Process
  <2>2. current' \in [Machine -> Signature \cup {None}]
    BY <1>0, <1>3, <2>1 DEF RecordBaseline, Accept, TypeOK, Ring
  <2>3. baseline' \in [Machine -> Baseline \cup {None}]
    BY <1>0, <1>3, <2>1, BaselineOfType DEF RecordBaseline, TypeOK
  <2>4. proc' \in [Proc -> Process] /\ \A q \in Proc : LocalOK(proc'[q])
    BY <1>3, ProceedStep DEF RecordBaseline
  <2>5. QED
    BY <1>3, <2>2, <2>3, <2>4 DEF RecordBaseline, TypeOK
<1>4. QED
  BY <1>1, <1>2, <1>3

\* The steps that edit, write, stamp and purge keep the types.
LEMMA TypeCurate ==
  ASSUME TypeOK, NEW p \in Proc,
         Reread(p) \/ WriteRing(p) \/ WriteStamp(p) \/ PurgeConsent(p)
  PROVE  TypeOK'
<1> DEFINE m == Host[p]
<1>0. m \in Machine /\ proc[p] \in Process /\ LocalOK(proc[p])
  BY HostAssumption DEF TypeOK
<1>1. CASE Reread(p)
  <2> DEFINE run == proc[p].run
             c == worktree[m].ring.content
  <2>0. proc[p].pc = "reread"
    BY <1>1 DEF Reread
  <2>1. /\ run \in Command /\ run.cmd \in {"add-key", "remove-key"}
        /\ proc[p].trusted \in SigningKey
    BY <1>0, <2>0 DEF LocalOK, Process
  <2>2. c \in Content
    BY <1>0 DEF TypeOK, Committed, Ring
  <2>3. CASE Exit(p)
    BY <1>1, <2>3, ExitStep DEF Reread, TypeOK, keyStore, ghosts
  <2>4. ASSUME CanBump(c), NEW k \in Signers(m, run, proc[p].trusted),
               proc' = [proc EXCEPT ![p].pc = "write",
                                    ![p].draft = Signed(Edited(c, run), k)]
        PROVE  TypeOK'
    <3> DEFINE l == [proc[p] EXCEPT !.pc = "write", !.draft = Signed(Edited(c, run), k)]
    <3>1. k \in SigningKey
      BY <1>0, <2>4, SeedsAssumption DEF Signers
    <3>2. Edited(c, run) \in Content /\ Edited(c, run).version \in Version
      BY <2>1, <2>2, <2>4, EditedType
    <3>3. Edited(c, run).version # None
      BY <3>2, NoneAssumption, MaxVersionAssumption DEF Version
    <3>4. /\ Signed(Edited(c, run), k) \in Ring
          /\ Signed(Edited(c, run), k).sig \in Signature
          /\ Signed(Edited(c, run), k).content = Edited(c, run)
      BY <3>1, <3>2 DEF Signed, Ring, Signature
    <3>5. l \in Process
      BY <1>0, <3>4 DEF Process, PC
    <3>6. LocalOK(l)
      BY <1>0, <2>0, <3>3, <3>4, NoneAssumption DEF LocalOK, Process
    <3>7. proc' = [proc EXCEPT ![p] = l]
      BY <2>4
    <3>8. proc' \in [Proc -> Process] /\ \A q \in Proc : LocalOK(proc'[q])
      BY <3>5, <3>6, <3>7, ProcStep
    <3>9. QED
      BY <1>1, <3>8 DEF Reread, TypeOK, keyStore, ghosts
  <2>5. QED
    BY <1>1, <2>3, <2>4 DEF Reread
<1>2. CASE WriteRing(p)
  <2> DEFINE r == proc[p].draft
  <2>1. proc[p].pc = "write"
    BY <1>2 DEF WriteRing
  <2>2. r \in Ring /\ r.sig \in Signature /\ r.content \in Content
    BY <1>0, <2>1 DEF LocalOK, Process, Ring
  <2>3. worktree' \in [Machine -> Committed]
    BY <1>0, <1>2, <2>2 DEF WriteRing, TypeOK, Committed
  <2>4. signed' \subseteq Signature /\ own' \in [Machine -> Content \cup {None}]
    BY <1>0, <1>2, <2>2 DEF WriteRing, TypeOK
  <2>5. LocalOK([proc[p] EXCEPT !.pc = "stamp"])
    BY <1>0, <2>1 DEF LocalOK, Process
  <2>6. proc' \in [Proc -> Process] /\ \A q \in Proc : LocalOK(proc'[q])
    BY <1>2, <2>5, GotoStep DEF WriteRing, PC
  <2>7. QED
    BY <1>2, <2>3, <2>4, <2>6 DEF WriteRing, TypeOK, keyStore
<1>3. CASE WriteStamp(p)
  <2> DEFINE c == proc[p].draft.content
  <2>1. proc[p].pc = "stamp"
    BY <1>3 DEF WriteStamp
  <2>2. c \in Content /\ c.version \in Version
    BY <1>0, <2>1 DEF LocalOK, Process, Ring, Content
  <2>3. stamp' \in [Machine -> Stamp \cup {None}]
    BY <1>0, <1>3, <2>2 DEF WriteStamp, TypeOK, Stamp
  <2>4. LocalOK([proc[p] EXCEPT !.pc = "purge"])
    BY <1>0, <2>1 DEF LocalOK, Process
  <2>5. proc' \in [Proc -> Process] /\ \A q \in Proc : LocalOK(proc'[q])
    BY <1>3, <2>4, ExitStep, GotoStep DEF WriteStamp, PC
  <2>6. QED
    BY <1>3, <2>3, <2>5 DEF WriteStamp, TypeOK, ghosts
<1>4. CASE PurgeConsent(p)
  <2>1. consent' \in [Machine -> SUBSET (SigningKey \X Email)]
    BY <1>0, <1>4 DEF PurgeConsent, TypeOK
  <2>2. proc' \in [Proc -> Process] /\ \A q \in Proc : LocalOK(proc'[q])
    BY <1>4, ExitStep DEF PurgeConsent
  <2>3. QED
    BY <1>4, <2>1, <2>2 DEF PurgeConsent, TypeOK, ghosts
<1>5. QED
  BY <1>1, <1>2, <1>3, <1>4

\* The steps of trust --import keep the types.
LEMMA TypeTrust ==
  ASSUME TypeOK, NEW p \in Proc, ImportPin(p) \/ WritePin(p) \/ ClearBaseline(p)
  PROVE  TypeOK'
<1> DEFINE m == Host[p]
<1>0. m \in Machine /\ proc[p] \in Process /\ LocalOK(proc[p])
  BY HostAssumption DEF TypeOK
<1>1. CASE ImportPin(p)
  <2>1. PICK run \in Command :
          /\ run.cmd = "trust"
          /\ vkeys' = [vkeys EXCEPT ![m] = @ \cup {run.by}]
          /\ proc' = [proc EXCEPT ![p] = [Idle EXCEPT !.pc = "pin", !.run = run]]
    BY <1>1 DEF ImportPin
  <2>2. run.by \in SigningKey
    BY <2>1, KeyFilesAssumption DEF Command
  <2>3. vkeys' \in [Machine -> SUBSET SigningKey]
    BY <1>0, <2>1, <2>2 DEF TypeOK
  <2> DEFINE l == [Idle EXCEPT !.pc = "pin", !.run = run]
  <2>4. l \in Process /\ LocalOK(l)
    BY <2>1, NoneIsNoCommand DEF Process, PC, Idle, LocalOK
  <2>5. proc' \in [Proc -> Process] /\ \A q \in Proc : LocalOK(proc'[q])
    BY <2>1, <2>4, ProcStep
  <2>6. QED
    BY <1>1, <2>3, <2>5 DEF ImportPin, TypeOK, ghosts
<1>2. CASE WritePin(p)
  <2>1. proc[p].pc = "pin"
    BY <1>2 DEF WritePin
  <2>2. proc[p].run \in Command /\ proc[p].run.cmd = "trust"
    BY <1>0, <2>1 DEF LocalOK, Process
  <2>3. proc[p].run.by \in SigningKey
    BY <2>2, KeyFilesAssumption DEF Command
  <2>4. pin' \in [Machine -> SigningKey \cup {None}]
    BY <1>0, <1>2, <2>3 DEF WritePin, TypeOK
  <2>5. LocalOK([proc[p] EXCEPT !.pc = "clear"])
    BY <1>0, <2>1 DEF LocalOK, Process
  <2>6. proc' \in [Proc -> Process] /\ \A q \in Proc : LocalOK(proc'[q])
    BY <1>2, <2>5, GotoStep DEF WritePin, PC
  <2>7. QED
    BY <1>2, <2>4, <2>6 DEF WritePin, TypeOK, ghosts
<1>3. CASE ClearBaseline(p)
  <2>1. proc' \in [Proc -> Process] /\ \A q \in Proc : LocalOK(proc'[q])
    BY <1>3, ExitStep DEF ClearBaseline
  <2>2. QED
    BY <1>0, <1>3, <2>1 DEF ClearBaseline, TypeOK
<1>4. QED
  BY <1>1, <1>2, <1>3

\* Consent, crashes and git keep the types.
LEMMA TypeRest ==
  ASSUME TypeOK,
         \/ \E p \in Proc : Crash(p)
         \/ \E m \in Machine : RecordConsent(m) \/ Git(m)
  PROVE  TypeOK'
<1>1. ASSUME NEW p \in Proc, Crash(p) PROVE TypeOK'
  BY <1>1, ExitStep DEF Crash, TypeOK, keyStore, ghosts
<1>2. ASSUME NEW m \in Machine, RecordConsent(m) PROVE TypeOK'
  <2>1. PICK e \in Principal[m] : consent' = [consent EXCEPT ![m] = @ \cup {<<pin[m], e>>}]
    BY <1>2 DEF RecordConsent
  <2>2. pin[m] \in SigningKey /\ e \in Email
    BY <1>2, PrincipalAssumption DEF RecordConsent, TypeOK
  <2>3. consent' \in [Machine -> SUBSET (SigningKey \X Email)]
    BY <2>1, <2>2 DEF TypeOK
  <2>4. QED
    BY <1>2, <2>3 DEF RecordConsent, TypeOK, ghosts
<1>3. ASSUME NEW m \in Machine, Git(m) PROVE TypeOK'
  <2>1. PICK k \in SigningKey \cup {None}, r \in Presentable :
          worktree' = [worktree EXCEPT ![m] = [claimed |-> k, ring |-> r]]
    BY <1>3 DEF Git
  <2>2. r \in Ring
    BY JunkAssumption DEF Presentable, TypeOK, Signature, Ring
  <2>3. worktree' \in [Machine -> Committed]
    BY <2>1, <2>2 DEF TypeOK, Committed
  <2>4. QED
    BY <1>3, <2>3 DEF Git, TypeOK, keyStore, ghosts
<1>4. QED
  BY <1>1, <1>2, <1>3

\* The initial files and processes are well formed.
LEMMA TypeInit == Init => TypeOK
<1>1. EmptyRing \in Ring
  BY DEF EmptyRing, Ring, Content
<1>2. FirstBaselines \subseteq Baseline
  BY FirstBaselinesAssumption DEF Baseline
<1>3. Idle \in Process /\ LocalOK(Idle)
  BY DEF Idle, Process, PC, LocalOK
<1>4. QED
  BY <1>1, <1>2, <1>3, FirstSignaturesAssumption DEF Init, TypeOK, Committed

\* Every step keeps them well formed.
LEMMA TypeStep == ASSUME TypeOK, [Next]_vars PROVE TypeOK'
<1>1. CASE UNCHANGED vars
  BY <1>1 DEF vars, keyStore, ghosts, TypeOK
<1>2. CASE Next
  BY <1>2, TypeVerify, TypeCurate, TypeTrust, TypeRest DEF Next
<1>3. QED
  BY <1>1, <1>2

\* Every file of a clone and of its key store stays well formed, and every
\* command in flight has the locals its next step needs.
THEOREM TypeCorrect == Spec => []TypeOK
  BY TypeInit, TypeStep, PTL DEF Spec
-----------------------------------------------------------------------------
(***************************************************************************)
(* Freshness.  The baseline file and the ring accepted last agree           *)
(* (BaselineTracksAccepted), and what a command checked stays true until it *)
(* acts on it (CheckStillHolds): together with the types they are inductive *)
(* when each machine runs one command at a time.                            *)
(***************************************************************************)

\* What verification established about a ring is still true when the command
\* acts on it some steps later: the key it was verified under is the pinned
\* one, and against the baseline on disk it is still no rollback and no fork.
CheckStillHolds ==
  \A p \in Proc :
    LET m == Host[p]
        r == proc[p].ring
    IN  proc[p].pc \in {"gate", "record"} =>
          /\ proc[p].trusted = pin[m] /\ pin[m] \in vkeys[m]
          /\ SignedBy(r, pin[m]) \/ UnsignedEmpty(r)
          /\ proc[p].pc = "record" => r.sig # None /\ Fresh(baseline[m], r)

IInv == TypeOK /\ BaselineTracksAccepted /\ CheckStillHolds

\* A signed ring that passed the signature check is recorded under the
\* counter and the digest of the content its signature covers.
LEMMA BaselineOfSigned ==
  ASSUME NEW r \in Ring, NEW k, SignedBy(r, k) \/ UnsignedEmpty(r), r.sig # None
  PROVE  /\ r.sig \in Signature /\ r.sig.over = r.content
         /\ BaselineOf(r) = [version |-> Counter(r.sig.over), digest |-> r.sig.over]
         /\ Observed(r) = Counter(r.sig.over)
<1>1. r.sig \in Signature /\ r.sig = [by |-> k, over |-> r.content]
  BY DEF Ring, SignedBy, UnsignedEmpty
<1>2. Observed(r) = Counter(r.content)
  BY DEF Observed, UnsignedEmpty
<1>3. QED
  BY <1>1, <1>2 DEF BaselineOf

\* The freshness gate allows exactly the abstract acceptance.
LEMMA FreshIsAccept ==
  ASSUME TypeOK, BaselineTracksAccepted, NEW m \in Machine, NEW r \in Ring, NEW k,
         SignedBy(r, k) \/ UnsignedEmpty(r), r.sig # None,
         Fresh(baseline[m], r), current[m] # None
  PROVE  r.sig.over = current[m].over \/ Counter(current[m].over) < Counter(r.sig.over)
<1>1. /\ r.sig \in Signature /\ r.sig.over = r.content
      /\ Observed(r) = Counter(r.sig.over)
  BY BaselineOfSigned
<1>2. current[m].over \in Content
  BY DEF TypeOK, Signature
<1>3. baseline[m] = [version |-> Counter(current[m].over), digest |-> current[m].over]
  BY DEF BaselineTracksAccepted
<1>4. baseline[m] # None
  <2>1. baseline[m] \in Baseline
    BY <1>2, <1>3, CounterType DEF Baseline
  <2>2. QED
    BY <2>1, NoneIsNoBaseline
<1>5. current[m].over # None
  BY <1>2, NoneAssumption
<1>6. /\ Counter(current[m].over) <= Counter(r.sig.over)
      /\ Counter(current[m].over) = Counter(r.sig.over) => current[m].over = r.content
  BY <1>1, <1>3, <1>4, <1>5 DEF Fresh
<1>7. Counter(current[m].over) \in Int /\ Counter(r.sig.over) \in Int
  <2>1. r.sig.over \in Content
    BY <1>1 DEF Signature
  <2>2. Counter(current[m].over) \in Version /\ Counter(r.sig.over) \in Version
    BY <1>2, <2>1, CounterType
  <2>3. QED
    BY <2>2 DEF Version
<1>8. QED
  BY <1>1, <1>6, <1>7

\* What a step of one process must leave alone to keep the other machines'
\* commands right about what they checked.
LEMMA CheckFrame ==
  ASSUME OneCommandPerMachine, TypeOK, CheckStillHolds, NEW p \in Proc,
         \A q \in Proc \ {p} : proc'[q] = proc[q],
         proc'[p].pc \notin {"gate", "record"},
         \A m \in Machine \ {Host[p]} :
           pin'[m] = pin[m] /\ vkeys'[m] = vkeys[m] /\ baseline'[m] = baseline[m]
  PROVE  CheckStillHolds'
<1> SUFFICES ASSUME NEW q \in Proc, proc'[q].pc \in {"gate", "record"}
             PROVE  LET m == Host[q]
                        r == proc'[q].ring
                    IN  /\ proc'[q].trusted = pin'[m] /\ pin'[m] \in vkeys'[m]
                        /\ SignedBy(r, pin'[m]) \/ UnsignedEmpty(r)
                        /\ proc'[q].pc = "record" => r.sig # None /\ Fresh(baseline'[m], r)
  BY DEF CheckStillHolds
<1>1. q # p
  OBVIOUS
<1>2. Host[q] \in Machine \ {Host[p]}
  BY <1>1, HostAssumption DEF OneCommandPerMachine
<1>3. QED
  BY <1>1, <1>2 DEF CheckStillHolds

\* A program counter outside verification after the step.
LEMMA LeavesGate ==
  ASSUME TypeOK, NEW p \in Proc, proc[p].pc \in {"gate", "record"},
         Exit(p) \/ Proceed(p)
  PROVE  /\ \A q \in Proc \ {p} : proc'[q] = proc[q]
         /\ proc'[p].pc \notin {"gate", "record"}
<1>1. CASE Exit(p)
  BY <1>1 DEF Exit, Idle, TypeOK
<1>2. CASE Goto(p, "reread")
  BY <1>2 DEF Goto, TypeOK, Process
<1>3. QED
  BY <1>1, <1>2 DEF Proceed

\* Reading and checking establish what is checked; recording consumes it.
LEMMA FreshVerify ==
  ASSUME OneCommandPerMachine, IInv, NEW p \in Proc,
         VerifyTrust(p) \/ VerifyFreshness(p) \/ RecordBaseline(p)
  PROVE  BaselineTracksAccepted' /\ CheckStillHolds'
<1> DEFINE m == Host[p]
           r == proc[p].ring
<1>0. /\ m \in Machine /\ proc[p] \in Process /\ LocalOK(proc[p])
      /\ TypeOK /\ BaselineTracksAccepted /\ CheckStillHolds
  BY HostAssumption DEF TypeOK, IInv
<1>1. CASE VerifyTrust(p)
  <2>1. PICK run \in Command :
          proc' = [proc EXCEPT ![p] = [Idle EXCEPT !.pc = "gate", !.run = run,
                              !.trusted = pin[m], !.ring = worktree[m].ring]]
    BY <1>1 DEF VerifyTrust
  <2>2. UNCHANGED <<pin, vkeys, baseline, current>>
    BY <1>1 DEF VerifyTrust, keyStore, ghosts
  <2>3. TrustHolds(m)
    BY <1>1 DEF VerifyTrust
  <2>4. /\ proc'[p].pc = "gate" /\ proc'[p].trusted = pin[m]
        /\ proc'[p].ring = worktree[m].ring
        /\ \A q \in Proc \ {p} : proc'[q] = proc[q]
    BY <1>0, <2>1 DEF TypeOK, Idle
  <2>5. CheckStillHolds'
    BY <1>0, <2>2, <2>3, <2>4 DEF CheckStillHolds, TrustHolds
  <2>6. QED
    BY <1>0, <2>2, <2>5 DEF BaselineTracksAccepted
<1>2. ASSUME proc[p].pc \in {"gate", "record"}
      PROVE  /\ r \in Ring /\ (SignedBy(r, pin[m]) \/ UnsignedEmpty(r))
             /\ r.sig # None => BaselineOf(r) =
                  [version |-> Counter(r.sig.over), digest |-> r.sig.over]
  <2>1. r \in Ring
    BY <1>0, <1>2 DEF LocalOK, Process
  <2>2. SignedBy(r, pin[m]) \/ UnsignedEmpty(r)
    BY <1>0, <1>2 DEF CheckStillHolds
  <2>3. QED
    BY <2>1, <2>2, BaselineOfSigned
<1>3. CASE VerifyFreshness(p)
  <2>0. /\ proc[p].pc = "gate" /\ UNCHANGED <<pin, vkeys, baseline>>
    BY <1>3 DEF VerifyFreshness, keyStore
  <2>1. CASE ~Fresh(baseline[m], r)
    <3>1. Exit(p) /\ UNCHANGED current
      BY <1>3, <2>1 DEF VerifyFreshness
    <3>2. CheckStillHolds'
      BY <1>0, <2>0, <3>1, LeavesGate, CheckFrame
    <3>3. QED
      BY <1>0, <2>0, <3>1, <3>2 DEF BaselineTracksAccepted
  <2>2. CASE Fresh(baseline[m], r) /\ r.sig # None /\ baseline[m] # BaselineOf(r)
    <3>1. Goto(p, "record") /\ UNCHANGED current
      BY <1>3, <2>2 DEF VerifyFreshness
    <3>2. /\ proc'[p].pc = "record" /\ proc'[p].trusted = proc[p].trusted
          /\ proc'[p].ring = r /\ \A q \in Proc \ {p} : proc'[q] = proc[q]
      BY <1>0, <3>1 DEF Goto, TypeOK, Process
    <3>3. CheckStillHolds'
      BY <1>0, <2>0, <2>2, <3>2 DEF CheckStillHolds
    <3>4. QED
      BY <1>0, <2>0, <3>1, <3>3 DEF BaselineTracksAccepted
  <2>3. CASE Fresh(baseline[m], r) /\ (r.sig = None \/ baseline[m] = BaselineOf(r))
    <3>1. Proceed(p) /\ Accept(m, r)
      BY <1>3, <2>3 DEF VerifyFreshness
    <3>2. CheckStillHolds'
      BY <1>0, <2>0, <3>1, LeavesGate, CheckFrame
    <3>3. BaselineTracksAccepted'
      <4>1. CASE r.sig = None
        BY <1>0, <2>0, <3>1, <4>1 DEF Accept, BaselineTracksAccepted, TypeOK
      <4>2. CASE r.sig # None
        <5>1. current' = [current EXCEPT ![m] = r.sig]
          BY <3>1, <4>2 DEF Accept
        <5>2. baseline[m] = [version |-> Counter(r.sig.over), digest |-> r.sig.over]
          BY <1>2, <2>0, <2>3, <4>2
        <5>3. QED
          BY <1>0, <2>0, <4>2, <5>1, <5>2 DEF BaselineTracksAccepted, TypeOK
      <4>3. QED
        BY <4>1, <4>2
    <3>4. QED
      BY <3>2, <3>3
  <2>4. QED
    BY <2>1, <2>2, <2>3
<1>4. CASE RecordBaseline(p)
  <2>0. /\ proc[p].pc = "record" /\ UNCHANGED <<pin, vkeys>>
        /\ Proceed(p) /\ Accept(m, r)
        /\ baseline' = [baseline EXCEPT ![m] = BaselineOf(r)]
    BY <1>4 DEF RecordBaseline
  <2>1. r.sig # None
    BY <1>0, <2>0 DEF CheckStillHolds
  <2>2. current' = [current EXCEPT ![m] = r.sig]
    BY <2>0, <2>1 DEF Accept
  <2>3. BaselineOf(r) = [version |-> Counter(r.sig.over), digest |-> r.sig.over]
    BY <1>2, <2>0, <2>1
  <2>4. BaselineTracksAccepted'
    BY <1>0, <2>0, <2>1, <2>2, <2>3 DEF BaselineTracksAccepted, TypeOK
  <2>5. \A n \in Machine \ {m} : baseline'[n] = baseline[n]
    BY <1>0, <2>0 DEF TypeOK
  <2>6. CheckStillHolds'
    BY <1>0, <2>0, <2>5, LeavesGate, CheckFrame
  <2>7. QED
    BY <2>4, <2>6
<1>5. QED
  BY <1>1, <1>3, <1>4

\* Curating steps leave the baseline and everything that was checked alone.
LEMMA FreshCurate ==
  ASSUME OneCommandPerMachine, IInv, NEW p \in Proc,
         Reread(p) \/ WriteRing(p) \/ WriteStamp(p) \/ PurgeConsent(p)
  PROVE  BaselineTracksAccepted' /\ CheckStillHolds'
<1>0. TypeOK /\ BaselineTracksAccepted /\ CheckStillHolds
  BY DEF IInv
<1>1. UNCHANGED <<pin, vkeys, baseline, current>>
  BY DEF Reread, WriteRing, WriteStamp, PurgeConsent, keyStore, ghosts
<1>2. /\ \A q \in Proc \ {p} : proc'[q] = proc[q]
      /\ proc'[p].pc \notin {"gate", "record"}
  <2>1. CASE Reread(p)
    BY <1>0, <2>1 DEF Reread, Exit, Idle, TypeOK, Process
  <2>2. CASE WriteRing(p)
    BY <1>0, <2>2 DEF WriteRing, Goto, TypeOK, Process
  <2>3. CASE WriteStamp(p)
    BY <1>0, <2>3 DEF WriteStamp, Goto, Exit, Idle, TypeOK, Process
  <2>4. CASE PurgeConsent(p)
    BY <1>0, <2>4 DEF PurgeConsent, Exit, Idle, TypeOK, Process
  <2>5. QED
    BY <2>1, <2>2, <2>3, <2>4
<1>3. CheckStillHolds'
  BY <1>0, <1>1, <1>2, CheckFrame
<1>4. QED
  BY <1>0, <1>1, <1>3 DEF BaselineTracksAccepted

\* trust --import touches only its own machine, on which nothing else runs.
LEMMA FreshTrust ==
  ASSUME OneCommandPerMachine, IInv, NEW p \in Proc,
         ImportPin(p) \/ WritePin(p) \/ ClearBaseline(p)
  PROVE  BaselineTracksAccepted' /\ CheckStillHolds'
<1> DEFINE m == Host[p]
<1>0. m \in Machine /\ TypeOK /\ BaselineTracksAccepted /\ CheckStillHolds
  BY HostAssumption DEF IInv
<1>1. \A n \in Machine \ {m} :
        pin'[n] = pin[n] /\ vkeys'[n] = vkeys[n] /\ baseline'[n] = baseline[n]
  BY <1>0 DEF ImportPin, WritePin, ClearBaseline, TypeOK
<1>2. /\ \A q \in Proc \ {p} : proc'[q] = proc[q]
      /\ proc'[p].pc \notin {"gate", "record"}
  <2>1. CASE ImportPin(p)
    <3>1. PICK run \in Command :
            proc' = [proc EXCEPT ![p] = [Idle EXCEPT !.pc = "pin", !.run = run]]
      BY <2>1 DEF ImportPin
    <3>2. QED
      BY <1>0, <3>1 DEF Idle, TypeOK
  <2>2. CASE WritePin(p)
    BY <1>0, <2>2 DEF WritePin, Goto, TypeOK, Process
  <2>3. CASE ClearBaseline(p)
    BY <1>0, <2>3 DEF ClearBaseline, Exit, Idle, TypeOK, Process
  <2>4. QED
    BY <2>1, <2>2, <2>3
<1>3. CheckStillHolds'
  BY <1>0, <1>1, <1>2, CheckFrame
<1>4. BaselineTracksAccepted'
  <2>1. CASE ClearBaseline(p)
    BY <1>0, <2>1 DEF ClearBaseline, BaselineTracksAccepted, TypeOK
  <2>2. CASE UNCHANGED <<baseline, current>>
    BY <1>0, <2>2 DEF BaselineTracksAccepted
  <2>3. QED
    BY <2>1, <2>2 DEF ImportPin, WritePin, ghosts
<1>5. QED
  BY <1>3, <1>4

\* So do consent, crashes and git.
LEMMA FreshRest ==
  ASSUME OneCommandPerMachine, IInv,
         \/ \E p \in Proc : Crash(p)
         \/ \E m \in Machine : RecordConsent(m) \/ Git(m)
  PROVE  BaselineTracksAccepted' /\ CheckStillHolds'
<1>0. TypeOK /\ BaselineTracksAccepted /\ CheckStillHolds
  BY DEF IInv
<1>1. UNCHANGED <<pin, vkeys, baseline, current>>
  BY DEF Crash, RecordConsent, Git, keyStore, ghosts
<1>2. BaselineTracksAccepted'
  BY <1>0, <1>1 DEF BaselineTracksAccepted
<1>3. ASSUME NEW p \in Proc, Crash(p) PROVE CheckStillHolds'
  <2>1. /\ \A q \in Proc \ {p} : proc'[q] = proc[q]
        /\ proc'[p].pc \notin {"gate", "record"}
    BY <1>0, <1>3 DEF Crash, Exit, Idle, TypeOK
  <2>2. QED
    BY <1>0, <1>1, <2>1, CheckFrame
<1>4. CASE UNCHANGED proc
  BY <1>0, <1>1, <1>2, <1>4 DEF CheckStillHolds
<1>5. (\E p \in Proc : Crash(p)) \/ UNCHANGED proc
  BY DEF RecordConsent, Git
<1>6. QED
  BY <1>2, <1>3, <1>4, <1>5

\* The inductive invariant.
LEMMA Inductive ==
  ASSUME OneCommandPerMachine PROVE Spec => []IInv
<1>1. Init => IInv
  <2>1. Init => TypeOK
    BY TypeInit
  <2>2. Init => BaselineTracksAccepted /\ CheckStillHolds
    BY DEF Init, BaselineTracksAccepted, CheckStillHolds, Idle
  <2>3. QED
    BY <2>1, <2>2 DEF IInv
<1>2. IInv /\ [Next]_vars => IInv'
  <2> SUFFICES ASSUME IInv, [Next]_vars PROVE IInv'
    OBVIOUS
  <2>1. TypeOK'
    BY TypeStep DEF IInv
  <2>2. CASE UNCHANGED vars
    BY <2>1, <2>2 DEF vars, keyStore, ghosts, IInv, BaselineTracksAccepted, CheckStillHolds
  <2>3. CASE Next
    BY <2>1, <2>3, FreshVerify, FreshCurate, FreshTrust, FreshRest DEF Next, IInv
  <2>4. QED
    BY <2>2, <2>3
<1>3. QED
  BY <1>1, <1>2, PTL DEF Spec

\* On every machine that runs one command at a time, the baseline file is
\* exactly the ring the machine accepted last.
THEOREM BaselineCorrect ==
  ASSUME OneCommandPerMachine PROVE Spec => []BaselineTracksAccepted
<1>1. IInv => BaselineTracksAccepted
  BY DEF IInv
<1>2. QED
  BY <1>1, Inductive, PTL
-----------------------------------------------------------------------------
(***************************************************************************)
(* RingTrust implements FreshAcceptance.                                   *)
(***************************************************************************)

Abstract == [m \in Machine |-> IF current[m] = None THEN None ELSE current[m].over]

\* A step that leaves every accepted ring alone is an abstract stutter.
LEMMA AbstractStutter ==
  ASSUME UNCHANGED current PROVE Abstract' = Abstract
  BY DEF Abstract

\* Accepting a ring is the abstract acceptance of its content.
LEMMA AbstractAccept ==
  ASSUME TypeOK, BaselineTracksAccepted, NEW m \in Machine, NEW r \in Ring, NEW k,
         SignedBy(r, k) \/ UnsignedEmpty(r), Fresh(baseline[m], r), Accept(m, r)
  PROVE  \/ \E c \in Content : Chain!Accept(m, c)
         \/ UNCHANGED Abstract
<1>1. CASE r.sig = None
  BY <1>1 DEF Accept, TypeOK, Abstract
<1>2. CASE r.sig # None
  <2>1. r.sig \in Signature /\ r.sig.over \in Content /\ r.sig # None
    BY <1>2, BaselineOfSigned DEF Signature
  <2>2. current' = [current EXCEPT ![m] = r.sig]
    BY <1>2 DEF Accept
  <2>3. Abstract' = [Abstract EXCEPT ![m] = r.sig.over]
    BY <2>1, <2>2 DEF Abstract, TypeOK
  <2>4. Abstract[m] # None =>
          r.sig.over = Abstract[m] \/ Counter(Abstract[m]) < Counter(r.sig.over)
    BY <1>2, FreshIsAccept DEF Abstract
  <2>5. Chain!Accept(m, r.sig.over)
    BY <2>3, <2>4 DEF Chain!Accept, Abstract
  <2>6. QED
    BY <2>1, <2>5
<1>3. QED
  BY <1>1, <1>2

\* Between two re-pins the rings a machine accepts form a chain, for every
\* number of machines, whatever git brings and wherever commands crash.
THEOREM AcceptanceCorrect ==
  ASSUME OneCommandPerMachine PROVE Spec => AcceptanceIsFresh
<1>1. Init => Chain!Init
  BY DEF Init, Chain!Init
<1>2. IInv /\ [Next]_vars => [Chain!Next]_Abstract
  <2> SUFFICES ASSUME IInv, [Next]_vars PROVE [Chain!Next]_Abstract
    OBVIOUS
  <2>0. TypeOK /\ BaselineTracksAccepted /\ CheckStillHolds
    BY DEF IInv
  <2>1. CASE UNCHANGED current
    BY <2>1, AbstractStutter
  <2>2. ASSUME NEW p \in Proc, VerifyFreshness(p) \/ RecordBaseline(p)
        PROVE  [Chain!Next]_Abstract
    <3> DEFINE m == Host[p]
               r == proc[p].ring
    <3>1. m \in Machine /\ proc[p] \in Process /\ LocalOK(proc[p])
      BY <2>0, HostAssumption DEF TypeOK
    <3>2. proc[p].pc \in {"gate", "record"}
      BY <2>2 DEF VerifyFreshness, RecordBaseline
    <3>3. r \in Ring
      BY <3>1, <3>2 DEF LocalOK, Process
    <3>4. SignedBy(r, pin[m]) \/ UnsignedEmpty(r)
      BY <2>0, <3>2 DEF CheckStillHolds
    <3>5. UNCHANGED current \/ (Fresh(baseline[m], r) /\ Accept(m, r))
      BY <2>0, <2>2 DEF VerifyFreshness, RecordBaseline, CheckStillHolds
    <3>6. CASE UNCHANGED current
      BY <3>6, AbstractStutter
    <3>7. CASE Fresh(baseline[m], r) /\ Accept(m, r)
      BY <2>0, <3>1, <3>3, <3>4, <3>7, AbstractAccept DEF Chain!Next
    <3>8. QED
      BY <3>5, <3>6, <3>7
  <2>3. ASSUME NEW p \in Proc, ClearBaseline(p)
        PROVE  [Chain!Next]_Abstract
    <3>1. Host[p] \in Machine /\ current' = [current EXCEPT ![Host[p]] = None]
      BY <2>3, HostAssumption DEF ClearBaseline
    <3>2. Abstract' = [Abstract EXCEPT ![Host[p]] = None]
      BY <2>0, <3>1 DEF Abstract, TypeOK
    <3>3. QED
      BY <3>1, <3>2 DEF Chain!Next, Chain!Repin, Abstract
  <2>4. QED
    BY <2>1, <2>2, <2>3 DEF Next, VerifyTrust, Reread, WriteRing, WriteStamp,
       PurgeConsent, ImportPin, WritePin, Crash, RecordConsent, Git, vars, ghosts
<1>3. QED
  BY <1>1, <1>2, Inductive, PTL DEF Spec, AcceptanceIsFresh, Chain!Spec, Abstract
-----------------------------------------------------------------------------
(***************************************************************************)
(* Who vouches for an accepted ring.                                       *)
(***************************************************************************)

\* A ring is accepted only under the key the machine has pinned at the
\* moment it accepts, whatever happened since the signature was checked.
THEOREM PinCorrect ==
  ASSUME OneCommandPerMachine PROVE Spec => AcceptedUnderPin
<1> DEFINE Vouched ==
      \A m \in Machine :
        current'[m] # current[m] /\ current'[m] # None
          => current'[m].by = pin[m] /\ pin[m] \in vkeys[m]
<1>1. IInv /\ [Next]_vars => [Vouched]_vars
  <2> SUFFICES ASSUME IInv, [Next]_vars PROVE [Vouched]_vars
    OBVIOUS
  <2>0. TypeOK /\ CheckStillHolds
    BY DEF IInv
  <2>1. CASE UNCHANGED current
    BY <2>1
  <2>2. ASSUME NEW p \in Proc, VerifyFreshness(p) \/ RecordBaseline(p)
        PROVE  Vouched
    <3> DEFINE n == Host[p]
               r == proc[p].ring
    <3>1. n \in Machine /\ proc[p].pc \in {"gate", "record"}
      BY <2>2, HostAssumption DEF VerifyFreshness, RecordBaseline
    <3>2. (SignedBy(r, pin[n]) \/ UnsignedEmpty(r)) /\ pin[n] \in vkeys[n]
      BY <2>0, <3>1 DEF CheckStillHolds
    <3>3. UNCHANGED current \/ Accept(n, r)
      BY <2>2 DEF VerifyFreshness, RecordBaseline
    <3>4. r.sig # None => r.sig.by = pin[n]
      BY <3>2 DEF SignedBy, UnsignedEmpty
    <3>5. QED
      BY <2>0, <3>1, <3>2, <3>3, <3>4 DEF Accept, TypeOK
  <2>3. ASSUME NEW p \in Proc, ClearBaseline(p)
        PROVE  Vouched
    BY <2>0, <2>3, HostAssumption DEF ClearBaseline, TypeOK
  <2>4. QED
    BY <2>1, <2>2, <2>3 DEF Next, VerifyTrust, Reread, WriteRing, WriteStamp,
       PurgeConsent, ImportPin, WritePin, Crash, RecordConsent, Git, vars, ghosts
<1>2. QED
  BY <1>1, Inductive, PTL DEF Spec, AcceptedUnderPin
-----------------------------------------------------------------------------
(***************************************************************************)
(* Which ring a stamp names.                                               *)
(***************************************************************************)

\* A command about to stamp still holds the ring this machine wrote last.
AboutToStamp ==
  \A p \in Proc : proc[p].pc = "stamp" => own[Host[p]] = proc[p].draft.content

\* No step but WriteRing moves a command to the stamp, and with one command on
\* each machine none changes what the machine wrote while it is there.
LEMMA StampStep ==
  ASSUME OneCommandPerMachine, TypeOK, AboutToStamp, [Next]_vars
  PROVE  AboutToStamp'
<1>1. ASSUME NEW p \in Proc, WriteRing(p)
      PROVE  AboutToStamp'
  <2>1. /\ Host[p] \in Machine
        /\ own' = [own EXCEPT ![Host[p]] = proc[p].draft.content]
        /\ proc' = [proc EXCEPT ![p].pc = "stamp"]
    BY <1>1, HostAssumption DEF WriteRing, Goto
  <2>2. ASSUME NEW q \in Proc, proc'[q].pc = "stamp"
        PROVE  own'[Host[q]] = proc'[q].draft.content
    <3>1. CASE q = p
      BY <2>1, <3>1 DEF TypeOK, Process
    <3>2. CASE q # p
      <4>1. Host[q] # Host[p] /\ proc'[q] = proc[q] /\ Host[q] \in Machine
        BY <2>1, <3>2, HostAssumption DEF OneCommandPerMachine, TypeOK
      <4>2. own'[Host[q]] = own[Host[q]]
        BY <2>1, <4>1 DEF TypeOK
      <4>3. QED
        BY <2>2, <4>1, <4>2 DEF AboutToStamp
    <3>3. QED
      BY <3>1, <3>2
  <2>3. QED
    BY <2>2 DEF AboutToStamp
<1>2. ASSUME NEW p \in Proc, ClearBaseline(p)
      PROVE  AboutToStamp'
  <2>1. /\ proc' = [proc EXCEPT ![p] = Idle]
        /\ own' = [own EXCEPT ![Host[p]] = None]
    BY <1>2 DEF ClearBaseline, Exit
  <2>2. ASSUME NEW q \in Proc, proc'[q].pc = "stamp"
        PROVE  own'[Host[q]] = proc'[q].draft.content
    <3>1. q # p
      BY <2>1, <2>2 DEF TypeOK, Idle
    <3>2. Host[q] # Host[p] /\ proc'[q] = proc[q] /\ Host[q] \in Machine
      BY <2>1, <3>1, HostAssumption DEF OneCommandPerMachine, TypeOK
    <3>3. QED
      BY <2>1, <2>2, <3>2 DEF AboutToStamp, TypeOK
  <2>3. QED
    BY <2>2 DEF AboutToStamp
<1>3. ASSUME UNCHANGED own,
             \A q \in Proc : proc'[q] = proc[q] \/ proc'[q].pc # "stamp"
      PROVE  AboutToStamp'
  BY <1>3 DEF AboutToStamp
<1>4. ASSUME NEW p \in Proc, UNCHANGED own, NEW l, l.pc # "stamp",
             proc' = [proc EXCEPT ![p] = l]
      PROVE  AboutToStamp'
  <2>1. \A q \in Proc : proc'[q] = proc[q] \/ proc'[q].pc # "stamp"
    BY <1>4 DEF TypeOK
  <2>2. QED
    BY <1>3, <1>4, <2>1
<1>5. ASSUME NEW p \in Proc, UNCHANGED own, NEW pc, pc # "stamp", Exit(p) \/ Goto(p, pc)
      PROVE  AboutToStamp'
  <2>1. Idle.pc # "stamp"
    BY DEF Idle
  <2>2. proc[p] \in Process
    BY DEF TypeOK
  <2>3. [proc[p] EXCEPT !.pc = pc].pc # "stamp"
    BY <1>5, <2>2 DEF Process
  <2>4. \/ proc' = [proc EXCEPT ![p] = Idle]
        \/ proc' = [proc EXCEPT ![p] = [proc[p] EXCEPT !.pc = pc]]
    BY <1>5 DEF Exit, Goto
  <2>5. QED
    BY <1>4, <1>5, <2>1, <2>3, <2>4
<1>6. ASSUME NEW p \in Proc, VerifyTrust(p) \/ Reread(p) \/ ImportPin(p)
      PROVE  AboutToStamp'
  <2>1. UNCHANGED own
    BY <1>6 DEF VerifyTrust, Reread, ImportPin, ghosts
  <2>2. CASE VerifyTrust(p)
    <3>1. PICK run \in Command :
            proc' = [proc EXCEPT ![p] = [Idle EXCEPT !.pc = "gate", !.run = run,
                       !.trusted = pin[Host[p]], !.ring = worktree[Host[p]].ring]]
      BY <2>2 DEF VerifyTrust
    <3>2. QED
      BY <1>4, <2>1, <3>1 DEF Idle
  <2>3. CASE Reread(p)
    <3>1. CASE Exit(p)
      BY <1>5, <2>1, <3>1
    <3>2. CASE ~Exit(p)
      <4>1. PICK r : proc' = [proc EXCEPT ![p].pc = "write", ![p].draft = r]
        BY <2>3, <3>2 DEF Reread
      <4>2. \A q \in Proc : proc'[q] = proc[q] \/ proc'[q].pc # "stamp"
        BY <4>1 DEF TypeOK, Process
      <4>3. QED
        BY <1>3, <2>1, <4>2
    <3>3. QED
      BY <3>1, <3>2
  <2>4. CASE ImportPin(p)
    <3>1. PICK run \in Command :
            proc' = [proc EXCEPT ![p] = [Idle EXCEPT !.pc = "pin", !.run = run]]
      BY <2>4 DEF ImportPin
    <3>2. QED
      BY <1>4, <2>1, <3>1 DEF Idle
  <2>5. QED
    BY <1>6, <2>2, <2>3, <2>4
<1>7. ASSUME NEW p \in Proc,
             VerifyFreshness(p) \/ RecordBaseline(p) \/ WriteStamp(p) \/ PurgeConsent(p)
               \/ WritePin(p) \/ Crash(p)
      PROVE  AboutToStamp'
  <2>1. UNCHANGED own
    BY <1>7 DEF VerifyFreshness, RecordBaseline, WriteStamp, PurgeConsent, WritePin,
       Crash, ghosts
  <2>2. \/ Exit(p) \/ Goto(p, "record") \/ Goto(p, "reread")
        \/ Goto(p, "purge") \/ Goto(p, "clear")
    BY <1>7 DEF VerifyFreshness, RecordBaseline, WriteStamp, PurgeConsent, WritePin,
       Crash, Proceed
  <2>3. QED
    BY <1>5, <2>1, <2>2
<1>8. CASE UNCHANGED <<proc, own>>
  BY <1>8 DEF AboutToStamp
<1>9. QED
  BY <1>1, <1>2, <1>6, <1>7, <1>8 DEF Next, RecordConsent, Git, vars, ghosts

\* A stamp is written only for the ring this machine's curation wrote last.
THEOREM StampCorrect ==
  ASSUME OneCommandPerMachine PROVE Spec => StampNamesWrittenRing
<1> DEFINE Named ==
      \A m \in Machine :
        stamp'[m] # stamp[m] =>
          /\ own[m] # None
          /\ stamp'[m] = [version |-> Counter(own[m]), digest |-> own[m]]
<1>1. Init => AboutToStamp
  BY DEF Init, AboutToStamp, Idle
<1>2. TypeOK /\ AboutToStamp /\ [Next]_vars => [Named]_vars
  <2> SUFFICES ASSUME TypeOK, AboutToStamp, [Next]_vars PROVE [Named]_vars
    OBVIOUS
  <2>1. CASE UNCHANGED stamp
    BY <2>1
  <2>2. ASSUME NEW p \in Proc, WriteStamp(p)
        PROVE  Named
    <3> DEFINE n == Host[p]
               c == proc[p].draft.content
    <3>1. /\ n \in Machine
          /\ stamp' = [stamp EXCEPT ![n] = [version |-> c.version, digest |-> c]]
          /\ own[n] = c
      BY <2>2, HostAssumption DEF WriteStamp, AboutToStamp
    <3>2. proc[p].draft \in Ring /\ c.version # None
      BY <2>2 DEF WriteStamp, TypeOK, LocalOK, Process
    <3>3. c # None /\ Counter(c) = c.version
      BY <3>2, NoneAssumption DEF Ring, Counter
    <3>4. QED
      BY <3>1, <3>3 DEF TypeOK
  <2>3. QED
    BY <2>1, <2>2 DEF Next, VerifyTrust, VerifyFreshness, RecordBaseline, Reread, WriteRing,
       PurgeConsent, ImportPin, WritePin, ClearBaseline, Crash, RecordConsent, Git, vars,
       keyStore, ghosts
<1>3. TypeOK /\ AboutToStamp /\ [Next]_vars => AboutToStamp'
  BY StampStep
<1>4. QED
  BY <1>1, <1>2, <1>3, TypeCorrect, PTL DEF Spec, StampNamesWrittenRing
=============================================================================
