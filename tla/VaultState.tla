----------------------------- MODULE VaultState -----------------------------
(***************************************************************************)
(* The files git-veil's commands read and write in one clone, and the      *)
(* commands in flight there.                                               *)
(*                                                                         *)
(* The keyring here is one that verification lets through (RingTrust): a   *)
(* version and, per principal, the public key its entry names.  An X25519  *)
(* key stands for the pair; the private halves in identities.txt are Held. *)
(* age encryption is its recipient set: a ciphertext opens with any key it *)
(* is encrypted to and with no other.                                      *)
(*                                                                         *)
(* As in RingTrust a command is a process with a program counter, a step   *)
(* reads or writes one file, writes are atomic (all but .gitignore, which  *)
(* is truncated and then rewritten), and a process may die between steps.  *)
(***************************************************************************)
EXTENDS Integers, FiniteSets

CONSTANTS
  File,         \* plaintext paths; the ciphertext of f lies beside it
  Key,          \* X25519 key pairs
  Held,         \* those whose private half is in this machine's key store
  Principal,
  Me,           \* who git says is working here; whose consent record counts
  Secret,       \* contents of plaintexts
  MaxVersion,   \* bound on the keyring version
  FirstRing,    \* the keyring of the clone when the model starts
  CommandLines, \* what is typed in this instance
  Upstream,     \* commits of other clones that a pull may bring
  Proc,
  Overlap,      \* TRUE: users and git act while a command runs
  Checkouts,    \* TRUE: git also puts committed ciphertexts over present ones
  DiesAt,       \* program counters at which a process may die
  MaxFaults,    \* bound on deaths and failed writes
  None

Members(r) == {r.member[w] : w \in Principal} \ {None}
Ring == [version : 0 .. MaxVersion, member : [Principal -> Key \cup {None}]]
Cipher == [to : SUBSET Key, content : Secret]

EncryptTo(ks, c) == [to |-> ks, content |-> c]
OpensWith(c, ks) == c.to \cap ks # {}

Command ==
  [verb : {"hide"}, files : SUBSET File, keep : BOOLEAN] \cup
  [verb : {"reveal"}, files : SUBSET File, who : Principal] \cup
  [verb : {"rotate"}] \cup
  [verb : {"add-file", "allow"}, files : SUBSET File] \cup
  [verb : {"remove-file"}, files : SUBSET File, keep : BOOLEAN] \cup
  [verb : {"add-key"}, who : Principal, key : Key] \cup
  [verb : {"remove-key"}, who : Principal]

Commit == [ring : Ring, tracked : SUBSET File, fresh : SUBSET File]

ASSUME HeldAssumption == Held \subseteq Key
ASSUME MeAssumption == Me \in Principal
ASSUME BoundsAssumption == MaxVersion \in Nat /\ MaxFaults \in Nat
ASSUME FirstRingAssumption == FirstRing \in Ring
ASSUME CommandLinesAssumption == CommandLines \subseteq Command
ASSUME UpstreamAssumption == Upstream \subseteq Commit
ASSUME NoneAssumption == None \notin File \cup Key \cup Secret \cup Ring \cup Cipher \cup Command

VARIABLES
  ring,      \* .git-veil/keyring
  stamp,     \* ring-pass/<repo> in the key store: the ring a pass is due for
  tracked,   \* .git-veil/tracked.json
  plain,     \* plain[f]: the plaintext on disk
  cipher,    \* cipher[f]: the ciphertext <f>.secret on disk
  index,     \* index[f]: the ciphertext of f in the git index
  exposed,   \* plaintexts in the git index
  consent,   \* the allowance record of this pin and principal
  ignored,   \* plaintexts that .gitignore covers
  proc,
  faults     \* deaths and failed writes so far (bounded)

files == <<tracked, plain, cipher, consent, ignored>>
git == <<index, exposed>>
vars == <<ring, stamp, files, git, proc, faults>>

PC == {"idle", "read", "write", "delete",            \* hide
       "entry", "open", "restore",                   \* reveal
       "gate", "match", "load", "orphans", "scan",   \* rotate before phase 1
       "decrypt", "rotate", "clear",
       "stamp", "purge",                             \* add-key, remove-key
       "add", "append",                              \* add-file
       "allow",
       "record", "grant",                            \* add-file and allow
       "remove"}

Nothing == [f \in File |-> None]
Idle == [pc |-> "idle", run |-> None, ring |-> None, due |-> None, todo |-> {},
         ready |-> Nothing, list |-> {}, lines |-> {}, at |-> None, failed |-> FALSE]
Process == [pc : PC, run : Command \cup {None}, ring : Ring \cup {None},
            due : Ring \cup {None}, todo : SUBSET File,
            ready : [File -> Cipher \cup Secret \cup {None}],
            list : SUBSET File, lines : SUBSET File, at : File \cup {None},
            failed : BOOLEAN]

Init ==
  /\ ring = FirstRing
  /\ stamp = None
  /\ tracked = {}
  /\ plain \in [File -> Secret \cup {None}]
  /\ cipher = Nothing /\ index = Nothing
  /\ exposed = {} /\ consent = {} /\ ignored = {}
  /\ proc = [p \in Proc |-> Idle]
  /\ faults = 0

Quiet == \A p \in Proc : proc[p].pc = "idle"

\* Begin, continue and end a command.
Start(p, l) == proc[p].pc = "idle" /\ proc' = [proc EXCEPT ![p] = l]
Become(p, l) == proc' = [proc EXCEPT ![p] = l]
Exit(p) == Become(p, Idle)

\* The files whose output phase 1 prepared.
Prepared(l) == {f \in File : l.ready[f] # None}

\* A loop over files with todo left to do: keep going, or the step after it.
Loop(l, f, next) ==
  LET rest == l.todo \ {f}
  IN  IF rest = {} THEN [l EXCEPT !.pc = next, !.todo = Prepared(l)]
                   ELSE [l EXCEPT !.todo = rest]
=============================================================================
