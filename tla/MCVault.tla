------------------------------ MODULE MCVault ------------------------------
(***************************************************************************)
(* Small instances of Vault.                                               *)
(***************************************************************************)
EXTENDS Interference, TLC

CONSTANTS f1, f2, alice, bob, ka, kb, c1, c2, p1, p2

RingOf(v, a, b) == [version |-> v, member |-> (alice :> a @@ bob :> b)]
AliceAlone == RingOf(0, ka, None)
AliceAndBob == RingOf(0, ka, kb)

Add(fs) == [verb |-> "add-file", files |-> fs]
Hide(fs, keep) == [verb |-> "hide", files |-> fs, keep |-> keep]
Reveal(fs) == [verb |-> "reveal", files |-> fs, who |-> alice]
Remove(fs, keep) == [verb |-> "remove-file", files |-> fs, keep |-> keep]
Rotate == [verb |-> "rotate"]
AddBob == [verb |-> "add-key", who |-> bob, key |-> kb]
RemoveAlice == [verb |-> "remove-key", who |-> alice]
RemoveBob == [verb |-> "remove-key", who |-> bob]

\* Ring changes and passes around two secrets.
Ceremony == {Add({f1, f2}), Hide({f1, f2}, FALSE), AddBob, RemoveBob, Rotate}
\* Day-to-day work on one secret, with one ring change.
Daily == {Add({f1}), [verb |-> "allow", files |-> {f1}], Hide({f1}, FALSE),
          Reveal({f1}), Remove({f1}, FALSE), Remove({f1}, TRUE), RemoveAlice, Rotate}
\* One secret and one ring change.
Passing == {Add({f1}), Hide({f1}, TRUE), AddBob, Rotate}

NoUpstream == {}
\* Another clone's commit that tracks the secret, with its ciphertext or without.
Nominations == {[ring |-> AliceAndBob, tracked |-> {f1}, fresh |-> s] : s \in {{}, {f1}}}

BeforeStamp == {"stamp"}
\* A death in the reading half of a command leaves what a command that was
\* never started leaves, so the other half is enough; and see BeforeStamp.
BetweenWrites == {"write", "delete", "restore", "rotate", "clear", "purge",
                  "add", "append", "allow", "record", "grant", "remove"}

\* Processes and contents are alike.
Alike == Permutations({p1, p2}) \cup Permutations({c1, c2})
=============================================================================
