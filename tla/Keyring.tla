------------------------------ MODULE Keyring ------------------------------
(***************************************************************************)
(* The signed keyring as data (src/keyring.rs, src/signing.rs).            *)
(*                                                                         *)
(* A ring is what Keyring::parse returns: entries, the freshness counter   *)
(* (None on a versionless ring) and the signature block (None on an        *)
(* unsigned ring).  A signature is kept as the pair it proves: who signed, *)
(* and which content.  The SHA-256 digest of the signed content is the     *)
(* content itself: two digests are equal iff the contents are.             *)
(***************************************************************************)
EXTENDS Integers

CONSTANTS
  Email,        \* spellings of principals, as typed on a command line
  Mailbox,      \* Mailbox[e] is the case-folded form of the spelling e
  PubKey,       \* X25519 public key encodings
  SigningKey,   \* Ed25519 owner keys; a fingerprint names exactly one
  MaxVersion,   \* u64::MAX, the last value of the freshness counter
  None

ASSUME MaxVersionAssumption == MaxVersion \in Nat \ {0}
ASSUME MailboxAssumption == Email \subseteq DOMAIN Mailbox

Version == 0 .. MaxVersion
Entry == [email : Email, key : PubKey]
Content == [entries : SUBSET Entry, version : Version \cup {None}]
Signature == [by : SigningKey, over : Content]
Ring == [content : Content, sig : Signature \cup {None}]

ASSUME NoneAssumption ==
  None \notin Nat \cup SigningKey \cup Email \cup Content \cup Signature \cup Ring

\* Keyring::new: what init writes.
EmptyRing == [content |-> [entries |-> {}, version |-> None], sig |-> None]

SameMailbox(e, f) == Mailbox[e] = Mailbox[f]

\* Keyring::find_by_email: every entry whose email matches, ignoring case.
Matching(c, e) == {x \in c.entries : SameMailbox(x.email, e)}

\* "A versionless keyring counts as 0."
Counter(c) == IF c.version = None THEN 0 ELSE c.version

\* Keyring::add_entry: update in place keeping the first-seen casing, else
\* append.  The order of the entry lines is not modelled.
WithEntry(c, e, k) ==
  LET old == Matching(c, e)
  IN  [c EXCEPT !.entries = IF old = {} THEN @ \cup {[email |-> e, key |-> k]}
                            ELSE (@ \ old) \cup {[x EXCEPT !.key = k] : x \in old}]

\* Keyring::remove_entry: retain the entries of every other mailbox.
WithoutEntry(c, e) == [c EXCEPT !.entries = @ \ Matching(c, e)]

\* A slip: unchecked addition.
CanBumpPastTheEnd(c) == TRUE

\* Keyring::bump_version: checked_add, an error at u64::MAX.
CanBump(c) == Counter(c) < MaxVersion
Bumped(c) == [c EXCEPT !.version = Counter(c) + 1]

\* create_signature_block over extract_content_to_verify_from_keyring.
Signed(c, k) == [content |-> c, sig |-> [by |-> k, over |-> c]]

\* verify_keyring_signature against the verifying key k.
SignedBy(r, k) == r.sig = [by |-> k, over |-> r.content]

\* An unsigned ring with no entries: the fresh-init state.
UnsignedEmpty(r) == r.sig = None /\ r.content.entries = {}
=============================================================================
