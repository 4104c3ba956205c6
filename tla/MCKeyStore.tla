---------------------------- MODULE MCKeyStore ----------------------------
(***************************************************************************)
(* Small instances of KeyStore.                                            *)
(***************************************************************************)
EXTENDS KeyStore, TLC

CONSTANTS k1, k2, junk, m600, m640, m644, p1, p2

Names == {"identities", "recipients", "ack"}
Places == {"dir", "identities", "signing"}
Twice == [Line -> 0 .. MaxLines]

Of(bag) == [data |-> [l \in Line |-> IF l \in DOMAIN bag THEN bag[l] ELSE 0],
            mode |-> Private, synced |-> TRUE]
StoreOf(ids, recs) == [n \in Names |-> CASE n = "identities" -> ids
                                         [] n = "recipients" -> recs
                                         [] OTHER -> None]
Modes(dir) == [x \in {"dir", "signing"} |-> IF x = "dir" THEN dir ELSE None]

\* No directory yet; a key that a user appended twice; a line that does not
\* parse beside the only private key.
Stores == {[files |-> StoreOf(None, None), outer |-> Modes(None)],
           [files |-> StoreOf(Of(k1 :> 2), Of(k1 :> 1 @@ k2 :> 1)), outer |-> Modes(Private)],
           [files |-> StoreOf(Of(k1 :> 1), Of(k1 :> 1 @@ junk :> 1)), outer |-> Modes(Private)]}
OneKey == {[files |-> StoreOf(Of(k1 :> 1 @@ k2 :> 1), None), outer |-> Modes(Private)]}

Import1(k) == [verb |-> "import", keys |-> {k}, skip |-> FALSE]
ForgetOf(k, yes) == [verb |-> "forget", key |-> k, yes |-> yes, skip |-> FALSE]
Anchor(k) == [verb |-> "anchor", key |-> k, skip |-> FALSE]

Keeping == {Import1(k2), ForgetOf(k1, FALSE), ForgetOf(k1, TRUE), Anchor(k1),
            [verb |-> "trust-permissions"]}
Forgetting == {ForgetOf(k1, TRUE)}
=============================================================================
