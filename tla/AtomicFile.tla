----------------------------- MODULE AtomicFile -----------------------------
(***************************************************************************)
(* What an atomic replacement of files promises, with neither temp files   *)
(* nor file modes: a file holds what somebody asked to have written, all   *)
(* of it, or what it held before.  A request that is given up changes      *)
(* nothing.  A power cut may take files back, each to a content it had     *)
(* since the directory was last settled, and never to a mixture.           *)
(***************************************************************************)
CONSTANTS Name, Proc, Bytes, None

VARIABLES
  value,  \* value[n]: the content of n, None while there is no such file
  kept,   \* kept[n]: what a power cut may leave of n
  asked   \* asked[p]: the replacement p wants, None between replacements

vars == <<value, kept, asked>>

Nobody == [p \in Proc |-> None]

Init ==
  /\ value \in [Name -> Bytes \cup {None}]
  /\ kept = [n \in Name |-> {value[n]}]
  /\ asked = Nobody

Ask(p) ==
  /\ asked[p] = None
  /\ asked'[p] \in [name : Name, bytes : Bytes]
  /\ asked' = [asked EXCEPT ![p] = asked'[p]]
  /\ UNCHANGED <<value, kept>>

Replace(p) ==
  LET n == asked[p].name
      b == asked[p].bytes
  IN  /\ asked[p] # None
      /\ value' = [value EXCEPT ![n] = b]
      /\ kept' = [kept EXCEPT ![n] = @ \cup {b}]
      /\ asked' = [asked EXCEPT ![p] = None]

GiveUp(p) ==
  /\ asked' = [asked EXCEPT ![p] = None]
  /\ UNCHANGED <<value, kept>>

Settle ==
  /\ kept' = [n \in Name |-> {value[n]}]
  /\ UNCHANGED <<value, asked>>

PowerCut ==
  /\ \A n \in Name : value'[n] \in kept[n]
  /\ value' = [n \in Name |-> value'[n]]
  /\ kept' = [n \in Name |-> {value'[n]}]
  /\ asked' = Nobody

Next ==
  \/ \E p \in Proc : Ask(p) \/ Replace(p) \/ GiveUp(p)
  \/ Settle
  \/ PowerCut

Spec == Init /\ [][Next]_vars
=============================================================================
