---------------------------- MODULE MCRingTrust ----------------------------
(***************************************************************************)
(* Small instances of RingTrust.                                           *)
(***************************************************************************)
EXTENDS RingTrust, TLC

CONSTANTS a, b, x, k1, k2, m1, m2, p1, p2

OneSpelling == (a :> a @@ b :> b)

OnOne == (p1 :> m1)
OneEach == (p1 :> m1 @@ p2 :> m2)

OnlyA == [m \in Machine |-> {a}]
NoPrincipal == [m \in Machine |-> {}]

OwnerSeed == [m \in Machine |-> {k1}]

\* An unsigned ring without entries whose version line was edited by hand.
EmptyAt(v) == [entries |-> {}, version |-> v]
OneEntry(e, v) == [entries |-> {[email |-> e, key |-> x]}, version |-> v]

JustEmpty == {EmptyAt(None)}
HandEdited == {EmptyAt(None), EmptyAt(MaxVersion), OneEntry(a, 1)}

NoSignatures == {}

NoBaselines == {}
\* A baseline written before baselines carried a digest.
Digestless == {[version |-> 1, digest |-> None]}

\* No step reads stamp, consent or own, and the one property that names stamp
\* and own looks at a step at which own is the ring the process has just
\* written: the three are left out of the fingerprint.
Read == <<worktree, pin, vkeys, baseline, proc, signed, current>>
=============================================================================
