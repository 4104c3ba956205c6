--------------------------- MODULE MCTrustAnchor ---------------------------
(***************************************************************************)
(* Small instances of TrustAnchor.                                         *)
(***************************************************************************)
EXTENDS TrustAnchor, TLC

CONSTANTS r, r2, k1, k2, k3

Fresh == {NoFiles}
NoCommits == {}

\* Every combination of owner key and record that repo content can claim for
\* r, with an unsigned ring or one signed by either key.
Claims ==
  {[ring |-> [by |-> s, version |-> IF s = None THEN 0 ELSE 1],
    record |-> [NoRecord EXCEPT ![r] = f], owner |-> o, manifest |-> s # None] :
     s \in Key \cup {None}, f \in ({r} \X Key) \cup {None}, o \in Key}

PinFileOfK2 == {<<r, k2>>}
NoPinFiles == {}
=============================================================================
