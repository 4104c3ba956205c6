------------------------------- MODULE Paths -------------------------------
(***************************************************************************)
(* File names, the spellings a user may type for them, the trees they are  *)
(* looked up in, and the lines of .gitignore.  A name is the sequence of   *)
(* its dot-separated parts, a path the sequence of its names, a tree a     *)
(* function from canonical absolute paths (places) to nodes.               *)
(***************************************************************************)
EXTENDS Integers, SequencesExt

CONSTANTS
  Word,   \* the parts of file names
  None

FileName == Seq(Word)
Path == Seq(FileName)

ASSUME WordAssumption == {".", "..", "repo", "secret"} \subseteq Word
ASSUME NoneAssumption == None \notin Path

Dot == <<".">>       \* the components "." and ".."
DotDot == <<"..">>

\* A path without the components "." of it.
Undotted(path) ==
  LET kept[i \in 0 .. Len(path)] ==
        IF i = 0 THEN <<>>
        ELSE IF path[i] = Dot THEN kept[i - 1] ELSE Append(kept[i - 1], path[i])
  IN  kept[Len(path)]

\* Path::components drops every "." but the first one of a relative path.
Components(s) ==
  IF ~s.abs /\ s.path # <<>> /\ Head(s.path) = Dot
    THEN <<Dot>> \o Undotted(s.path)
    ELSE Undotted(s.path)

\* Root joined with p, ".." undone component by component; a ".." above "/"
\* gives the marker.
Above == <<DotDot>>
Joined(root, p) ==
  LET at[i \in 0 .. Len(p)] ==
        IF i = 0 THEN root
        ELSE CASE at[i - 1] = Above \/ p[i] = Dot -> at[i - 1]
               [] p[i] = DotDot -> IF at[i - 1] = <<>> THEN Above ELSE Front(at[i - 1])
               [] OTHER -> Append(at[i - 1], p[i])
  IN  at[Len(p)]

StaysInside(p) == IsPrefix(<<<<"repo">>>>, Joined(<<<<"repo">>>>, p))

\* validate_tracked_path of a relative path.
Valid(p) ==
  /\ p # <<>>
  /\ \A i \in DOMAIN p : p[i] \notin {Dot, DotDot}
  /\ StaysInside(p)

\* A slip: the extension is replaced.
ReplacedExtension(p) ==
  LET name == Last(p)
  IN  Append(Front(p), Append(IF Len(name) > 1 THEN Front(name) ELSE name, "secret"))

\* The ciphertext lies beside the plaintext, under its full name.
CiphertextOf(p) == Append(Front(p), Append(Last(p), "secret"))

-----------------------------------------------------------------------------
(* trees *)

Absent == [kind |-> "none"]
Dir == [kind |-> "dir"]

At(t, x) == IF x \in DOMAIN t THEN t[x] ELSE Absent

\* What exists lies in a directory, and no link leads to a link.
WellFormed(t) ==
  /\ t[<<>>] = Dir
  /\ \A x \in DOMAIN t \ {<<>>} : t[x] # Absent => At(t, Front(x)) = Dir
  /\ \A x \in DOMAIN t : t[x].kind = "link" => At(t, t[x].to).kind # "link"

\* One component of fs::canonicalize: links are followed, everything exists.
Enter(t, at, c) ==
  LET next == CASE c = Dot -> at
                [] c = DotDot -> IF at = <<>> THEN at ELSE Front(at)
                [] OTHER -> Append(at, c)
      there == IF At(t, next).kind = "link" THEN At(t, next).to ELSE next
  IN  IF at = None \/ At(t, at).kind # "dir" \/ At(t, there) = Absent THEN None ELSE there

\* fs::canonicalize of a path that starts at the place from, None where it
\* fails.
Canonical(t, from, path) ==
  LET at[i \in 0 .. Len(path)] ==
        IF i = 0 THEN from ELSE Enter(t, at[i - 1], path[i])
  IN  at[Len(path)]
-----------------------------------------------------------------------------
(* .gitignore *)

\* A line of .gitignore: without a slash it matches a name at any depth, with
\* one a path from the root; what lies below a match is ignored as well.
Matches(line, p) ==
  IF Len(line) = 1 THEN line[1] \in ToSet(p) ELSE IsPrefix(line, p)
=============================================================================
