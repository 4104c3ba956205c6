-------------------------- MODULE FreshAcceptance --------------------------
(***************************************************************************)
(* What keyring freshness promises a machine, without files, commands or   *)
(* crashes: once it has accepted a signed keyring, the only keyrings it    *)
(* accepts are that one again and keyrings with a higher counter.  A       *)
(* rollback (lower counter) and a fork (equal counter, other content) are  *)
(* both excluded.  Re-pinning starts over.                                 *)
(***************************************************************************)
EXTENDS Integers

CONSTANTS Machine, Content, Counter(_), None

VARIABLE current   \* current[m]: the content m accepted last, None after a re-pin

Init == current = [m \in Machine |-> None]

Accept(m, c) ==
  /\ current[m] # None => c = current[m] \/ Counter(current[m]) < Counter(c)
  /\ current' = [current EXCEPT ![m] = c]

Repin(m) == current' = [current EXCEPT ![m] = None]

Next == \E m \in Machine : Repin(m) \/ \E c \in Content : Accept(m, c)

Spec == Init /\ [][Next]_current
=============================================================================
