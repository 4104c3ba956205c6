------------------------- MODULE TrustAnchorProofs -------------------------
(***************************************************************************)
(* Proofs about TrustAnchor, for every set of ids, keys, pin-files and     *)
(* commits.  IInv adds to the type invariant what the ceremonies carry: a  *)
(* key on its way to a pin, in a process or in an exported pin-file, was   *)
(* anchored when it was picked up, and git cannot take that back.          *)
(***************************************************************************)
EXTENDS TrustAnchor, TLAPS

ExportedIsAnchored == \A f \in exported : Possesses(f[2])
CeremonyIsAnchored == ~At("idle") => Anchored(proc.id, proc.key)

IInv == TypeOK /\ AnchorFromOutside /\ ExportedIsAnchored /\ CeremonyIsAnchored
-----------------------------------------------------------------------------
(* Type correctness *)

\* The initial states are well-typed.
LEMMA TypeInit == Init => TypeOK
BY StatesAssumption DEF Init, TypeOK, NoRecord, Idle, At, PC

\* The writes of .git-veil keep its shape.
LEMMA TypeFiles == TypeOK /\ (InitKeyring \/ InitRecord \/ InitTracked \/ InitOwner) => TypeOK'
<1> SUFFICES ASSUME TypeOK, InitKeyring \/ InitRecord \/ InitTracked \/ InitOwner
             PROVE  TypeOK'
  OBVIOUS
<1> USE MaxVersionAssumption DEF TypeOK, keyStore, Goto, At, PC, Committed, Ring, InitWrites
<1>1. CASE InitKeyring
  BY <1>1 DEF InitKeyring
<1>2. CASE InitRecord
  BY <1>2 DEF InitRecord, NoRecord
<1>3. CASE InitTracked
  BY <1>3 DEF InitTracked
<1>4. CASE InitOwner
  BY <1>4 DEF InitOwner
<1> QED
  BY <1>1, <1>2, <1>3, <1>4

\* Pruning a record leaves a record.
LEMMA ReconciledType ==
  ASSUME NEW x \in [Id -> Fingerprint \cup {None}]
  PROVE  Reconciled(x) \in [Id -> Fingerprint \cup {None}]
BY DEF Reconciled

\* A ceremony starts with an id and a key.
LEMMA StartsTyped ==
  ASSUME NEW i \in Id, NEW k \in Key, NEW pc \in {"keyring", "vkey"},
         NEW cmd \in {"init", "trust"},
         proc' = [pc |-> pc, cmd |-> cmd, id |-> i, key |-> k]
  PROVE  /\ proc' \in [pc : PC, cmd : {"init", "trust", None}, id : Id \cup {None},
                       key : Key \cup {None}]
         /\ (~At("idle") => proc.cmd # None /\ proc.id # None /\ proc.key # None)'
<1>1. "init" # None /\ "trust" # None
  BY NoneAssumption
<1> QED
  BY <1>1, NoneAssumption DEF PC, At

\* The steps of the ceremonies keep the types.
LEMMA TypeCeremony ==
  TypeOK /\ (InitStart \/ ImportStart \/ ExportPin \/ AppendKey \/ RecordFingerprint
             \/ WritePin \/ ClearBaseline \/ Crash) => TypeOK'
<1> SUFFICES ASSUME TypeOK,
                    InitStart \/ ImportStart \/ ExportPin \/ AppendKey \/ RecordFingerprint
                      \/ WritePin \/ ClearBaseline \/ Crash
             PROVE  TypeOK'
  OBVIOUS
<1> USE DEF keyStore, Goto, At, PC, Fingerprint
<1>1. CASE InitStart
  <2>1. PICK i \in remotes, k \in Key :
          proc' = [pc |-> "keyring", cmd |-> "init", id |-> i, key |-> k]
    BY <1>1 DEF InitStart
  <2>2. i \in Id
    BY DEF TypeOK
  <2> QED
    BY <1>1, <2>1, <2>2, StartsTyped DEF InitStart, TypeOK
<1>2. CASE ImportStart
  <2>1. PICK f \in Received \cup exported :
          /\ f[1] \in remotes
          /\ proc' = [pc |-> "vkey", cmd |-> "trust", id |-> f[1], key |-> f[2]]
    BY <1>2 DEF ImportStart
  <2>2. f[1] \in Id /\ f[2] \in Key
    BY ReceivedAssumption DEF TypeOK
  <2> QED
    BY <1>2, <2>1, <2>2, StartsTyped DEF ImportStart, TypeOK
<1>3. CASE ExportPin
  BY <1>3 DEF ExportPin, TypeOK, Committed
<1>4. CASE AppendKey
  BY <1>4 DEF AppendKey, TypeOK
<1>5. CASE RecordFingerprint
  <2> DEFINE x == [dot.record EXCEPT ![proc.id] = <<proc.id, proc.key>>]
  <2>1. x \in [Id -> Fingerprint \cup {None}]
    BY <1>5 DEF RecordFingerprint, TypeOK, Committed
  <2>2. dot' \in Committed
    BY <1>5, <2>1, ReconciledType DEF RecordFingerprint, TypeOK, Committed
  <2> QED
    BY <1>5, <2>2 DEF RecordFingerprint, TypeOK
<1>6. CASE WritePin
  BY <1>6 DEF WritePin, TypeOK
<1>7. CASE ClearBaseline
  BY <1>7 DEF ClearBaseline, Idle, TypeOK
<1>8. CASE Crash
  BY <1>8 DEF Crash, Idle, TypeOK
<1> QED
  BY <1>1, <1>2, <1>3, <1>4, <1>5, <1>6, <1>7, <1>8

\* A ring that verifies is there, and what it leaves behind is well-typed.
LEMMA TypeAccepted ==
  ASSUME TypeOK, NEW i \in remotes, Verifies(i), Accepted(i)
  PROVE  /\ dot.ring \in Ring
         /\ pin[i] \in Fingerprint
         /\ baseline' \in [Id -> 0 .. MaxVersion \cup {None}]
<1>1. i \in Id /\ dot.ring \in Ring
  BY DEF TypeOK, Verifies, Committed
<1>2. pin[i] \in Fingerprint
  BY <1>1 DEF TypeOK, Verifies
<1> QED
  BY <1>1, <1>2 DEF TypeOK, Accepted, Ring

\* The commands that use the anchor and the rest of the world keep the types.
LEMMA TypeUse == TypeOK /\ (VerifyKeys \/ ChangeRing \/ Track \/ Clean \/ CleanStops \/ Rename
                                 \/ Pull) => TypeOK'
<1> SUFFICES ASSUME TypeOK,
                    VerifyKeys \/ ChangeRing \/ Track \/ Clean \/ CleanStops \/ Rename \/ Pull
             PROVE  TypeOK'
  OBVIOUS
<1> USE DEF keyStore, At, PC
<1>1. CASE VerifyKeys
  <2>1. PICK i \in remotes : Verifies(i) /\ Accepted(i)
    BY <1>1 DEF VerifyKeys
  <2> QED
    BY <1>1, <2>1, TypeAccepted DEF VerifyKeys, TypeOK
<1>2. CASE ChangeRing
  <2>1. PICK i \in remotes :
          /\ Verifies(i) /\ Accepted(i)
          /\ dot.ring.version < MaxVersion
          /\ dot' = [dot EXCEPT !.ring = [by |-> pin[i][2], version |-> @.version + 1]]
    BY <1>2 DEF ChangeRing
  <2>2. dot.ring \in Ring /\ pin[i] \in Fingerprint
    BY <2>1, TypeAccepted
  <2>3. [by |-> pin[i][2], version |-> dot.ring.version + 1] \in Ring
    BY <2>1, <2>2, MaxVersionAssumption DEF Ring, Fingerprint
  <2>4. dot' \in Committed
    BY <2>1, <2>3 DEF TypeOK, Committed
  <2> QED
    BY <1>2, <2>1, <2>4, TypeAccepted DEF ChangeRing, TypeOK
<1>3. CASE Clean
  BY <1>3 DEF Clean, NoFiles, NoRecord, TypeOK, Committed
<1>4. CASE Rename
  BY <1>4 DEF Rename, TypeOK
<1>5. CASE Pull
  BY <1>5, StatesAssumption DEF Pull, TypeOK
<1>6. CASE Track
  BY <1>6 DEF Track, TypeOK, Committed
<1>7. CASE CleanStops
  <2>1. PICK gone \in SUBSET DOMAIN NoFiles :
          dot' = [file \in DOMAIN NoFiles |-> IF file \in gone THEN NoFiles[file] ELSE dot[file]]
    BY <1>7 DEF CleanStops
  <2>2. dot' \in Committed
    BY <2>1 DEF NoFiles, NoRecord, TypeOK, Committed
  <2>3. faults' = faults + 1 /\ UNCHANGED <<remotes, keyStore, exported, proc>>
    BY <1>7 DEF CleanStops
  <2> QED
    BY <2>2, <2>3 DEF TypeOK
<1> QED
  BY <1>1, <1>2, <1>3, <1>4, <1>5, <1>6, <1>7

\* So every step does.
LEMMA TypeStep == TypeOK /\ [Next]_vars => TypeOK'
<1>1. TypeOK /\ UNCHANGED vars => TypeOK'
  BY DEF vars, keyStore, TypeOK, At
<1> QED
  BY <1>1, TypeFiles, TypeCeremony, TypeUse DEF Next, Step

\* Every behaviour is well-typed: in particular the ceremonies and git leave
\* .git-veil and the key store in a shape every command can read.
THEOREM TypeCorrect == Spec => []TypeOK
<1> QED
  BY TypeInit, TypeStep, PTL DEF Spec
-----------------------------------------------------------------------------
(* Anchors *)

Carried == AnchorFromOutside /\ ExportedIsAnchored /\ CeremonyIsAnchored

\* At the start there is neither a pin nor a pin-file from here.
LEMMA AnchorInit == Init => Carried
BY NoneAssumption DEF Init, Carried, AnchorFromOutside, ExportedIsAnchored, CeremonyIsAnchored,
   NoRecord, Idle, At

\* Keys enter a ceremony by the possession proof or in a pin-file.
LEMMA AnchorEnters ==
  ASSUME TypeOK, Carried, InitStart \/ ExportPin \/ ImportStart
  PROVE  Carried'
<1> USE DEF Carried, At, keyStore
<1>1. CASE InitStart
  BY <1>1 DEF InitStart, AnchorFromOutside, ExportedIsAnchored, CeremonyIsAnchored,
              Anchored, Possesses
<1>2. CASE ExportPin
  <2>1. PICK i \in remotes : exported' = exported \cup {<<i, dot.owner>>}
    BY <1>2 DEF ExportPin
  <2>2. \A f \in exported' : Possesses(f[2])
    BY <1>2, <2>1 DEF ExportPin, ExportedIsAnchored, Possesses
  <2> QED
    BY <1>2, <2>2 DEF ExportPin, AnchorFromOutside, ExportedIsAnchored, CeremonyIsAnchored,
                      Anchored, Possesses
<1>3. CASE ImportStart
  <2>1. PICK f \in Received \cup exported :
          proc' = [pc |-> "vkey", cmd |-> "trust", id |-> f[1], key |-> f[2]]
    BY <1>3 DEF ImportStart
  <2>2. f = <<f[1], f[2]>>
    BY ReceivedAssumption DEF TypeOK, Fingerprint
  <2>3. Anchored(f[1], f[2])
    BY <2>2 DEF ExportedIsAnchored, Anchored
  <2> QED
    BY <1>3, <2>1, <2>3 DEF ImportStart, AnchorFromOutside, ExportedIsAnchored,
                           CeremonyIsAnchored, Anchored, Possesses
<1> QED
  BY <1>1, <1>2, <1>3

\* WritePin is the one step that moves a pin; every other one leaves the pins,
\* the exported pin-files and the key of the ceremony alone.
LEMMA AnchorStays ==
  ASSUME TypeOK, Carried, UNCHANGED <<pin, exported>>,
         proc' = Idle \/ (proc'.id = proc.id /\ proc'.key = proc.key /\ (~At("idle") \/ proc' = proc))
  PROVE  Carried'
<1>1. Idle.pc = "idle"
  BY DEF Idle
<1> QED
  BY <1>1 DEF Carried, AnchorFromOutside, ExportedIsAnchored, CeremonyIsAnchored, Anchored,
              Possesses, At

\* No step lets an unanchored key into a pin, an export or a ceremony.
LEMMA AnchorStep == TypeOK /\ Carried /\ [Next]_vars => Carried'
<1> SUFFICES ASSUME TypeOK, Carried, [Next]_vars
             PROVE  Carried'
  OBVIOUS
<1> USE DEF keyStore
<1>1. CASE InitStart \/ ExportPin \/ ImportStart
  BY <1>1, AnchorEnters
<1>2. CASE WritePin
  <2>1. pin' = [pin EXCEPT ![proc.id] = <<proc.id, proc.key>>] /\ ~At("idle")
    BY <1>2 DEF WritePin, At
  <2>2. proc.id \in Id /\ proc.key \in Key /\ Anchored(proc.id, proc.key)
    BY <2>1 DEF TypeOK, Carried, CeremonyIsAnchored
  <2>3. AnchorFromOutside'
    BY <2>1, <2>2 DEF TypeOK, Carried, AnchorFromOutside, Anchored, Possesses
  <2> QED
    BY <1>2, <2>1, <2>2, <2>3 DEF WritePin, Goto, TypeOK, Carried, ExportedIsAnchored,
                                  CeremonyIsAnchored, Anchored, Possesses
<1>3. CASE Step /\ ~WritePin
  BY <1>3, AnchorStays DEF Step, InitKeyring, InitRecord, InitTracked, InitOwner, InitWrites,
       AppendKey, RecordFingerprint, ClearBaseline, Goto, At, TypeOK
<1>4. CASE VerifyKeys \/ ChangeRing \/ Track \/ Clean \/ CleanStops \/ Rename \/ Pull \/ Crash
  BY <1>4, AnchorStays DEF VerifyKeys, ChangeRing, Track, Clean, CleanStops, Rename, Pull, Crash
<1>5. CASE UNCHANGED vars
  BY <1>5, AnchorStays DEF vars
<1> QED
  BY <1>1, <1>2, <1>3, <1>4, <1>5 DEF Next

\* The invariant is inductive ...
LEMMA Inductive == IInv /\ [Next]_vars => IInv'
BY TypeStep, AnchorStep DEF IInv, Carried

\* ... and holds at the start.
LEMMA Established == Init => IInv
BY TypeInit, AnchorInit DEF IInv, Carried

\* No repository content, whatever git brings and whenever, and no death
\* during a ceremony, makes write_pin_state pin a key that neither the
\* possession proof nor a pin-file from outside vouches for.
THEOREM AnchorCorrect == Spec => []AnchorFromOutside
<1>1. IInv => AnchorFromOutside
  BY DEF IInv
<1> QED
  BY <1>1, Established, Inductive, PTL DEF Spec

\* And so no gated command acts on a ring signed by any other key.
THEOREM RingCorrect == Spec => []RingFromAnchor
<1>1. IInv => RingFromAnchor
  <2> SUFFICES ASSUME IInv, NEW i \in Id, Verifies(i), dot.ring.by # None
               PROVE  Anchored(i, dot.ring.by)
    BY DEF RingFromAnchor
  <2>1. PICK k \in vkeys : pin[i] = <<i, k>> /\ dot.ring.by = k
    BY DEF Verifies
  <2>2. pin[i] # None
    BY DEF Verifies
  <2>3. PICK q \in Key : Anchored(i, q) /\ pin[i] = <<i, q>>
    BY <2>2 DEF IInv, AnchorFromOutside
  <2> QED
    BY <2>1, <2>3
<1> QED
  BY <1>1, Established, Inductive, PTL DEF Spec
=============================================================================
