------------------------------ MODULE Worktree ------------------------------
(***************************************************************************)
(* Which file a command means: spellings, symbolic links, tracked.json,    *)
(* names beside each other and .gitignore, in one clone.  Commands run one *)
(* at a time here and a whole command is a step; Vault has their           *)
(* interleavings, the keyring and the gates that look at it.               *)
(***************************************************************************)
EXTENDS Paths

CONSTANTS
  Root,         \* the canonical path of the repository
  Place,        \* absolute canonical paths that may hold something
  Text,         \* contents of plaintexts
  MaxDepth,     \* bound on how often a content is encrypted
  FirstTrees,   \* what the places hold at first
  FirstIgnores, \* and .gitignore
  Editable,     \* places that editors write to
  Links,        \* <<place, target>>: files that may be replaced by a link
  Spelling,     \* paths as typed
  CommandLines, \* what is typed in this instance
  MaxEdits      \* bound on edits

Node ==
  {Absent, Dir} \cup [kind : {"link"}, to : Place] \cup
  [kind : {"file"}, text : Text, depth : 0 .. MaxDepth]

Verb == {"add-file", "remove-file", "hide", "reveal"}
Command == [verb : Verb, names : Seq(Spelling), keep : BOOLEAN]

Relative(x) == SubSeq(x, Len(Root) + 1, Len(x))
Entry == {Relative(x) : x \in {y \in Place : IsPrefix(Root, y) /\ y # Root}}

Ignores == [lines : SUBSET Entry, open : Entry \cup {None}]

ASSUME PlaceAssumption ==
  /\ {<<>>, Root} \subseteq Place /\ Place \subseteq Path
  /\ \A x \in Place \ {<<>>} : Front(x) \in Place
  /\ \A x \in Place : \A i \in DOMAIN x : x[i] \notin {Dot, DotDot}
ASSUME FirstAssumption ==
  /\ \A first \in FirstTrees :
       first \in [Place -> Node] /\ WellFormed(first) /\ first[Root] = Dir
  /\ FirstIgnores \subseteq Ignores
ASSUME EditableAssumption == Editable \subseteq Place \ {<<>>}
ASSUME SpellingAssumption == Spelling \subseteq [abs : BOOLEAN, path : Path]
ASSUME LinksAssumption ==
  \A link \in Links :
    /\ link[1] \in Place \ {<<>>} /\ link[2] \in Place
    /\ \A other \in Links : other[1] # link[2]
    /\ \A first \in FirstTrees :
         /\ first[link[2]].kind # "link"
         /\ \A x \in Place : first[x].kind = "link" => first[x].to # link[1]
ASSUME CommandLinesAssumption == CommandLines \subseteq Command
ASSUME BoundsAssumption == MaxDepth \in Nat /\ MaxEdits \in Nat

VARIABLES
  tree,     \* tree[x]: what lies at the place x
  tracked,  \* .git-veil/tracked.json
  consent,  \* the allowance record of this pin and principal
  ignore,   \* .gitignore: whole lines, and the last one if it has no newline
  index,    \* paths in the git index
  edits

vars == <<tree, tracked, consent, ignore, index, edits>>

Init ==
  /\ tree \in FirstTrees
  /\ tracked = {} /\ consent = {}
  /\ ignore \in FirstIgnores
  /\ index = {}
  /\ edits = 0

-----------------------------------------------------------------------------
(* resolving what was typed *)

Stripped(p) == IF p # None /\ IsPrefix(Root, p) THEN Relative(p) ELSE None

Canonicalised(s) == Stripped(Canonical(tree, IF s.abs THEN <<>> ELSE Root, s.path))
AsTyped(s) == IF s.abs THEN Stripped(Components(s)) ELSE Components(s)

\* A slip: what is typed is stored.
ResolveAsTyped(verb, s) == LET p == AsTyped(s) IN IF p \in {None, <<>>} THEN None ELSE p

\* resolve_repo_relative_input in the mode of the verb: the path relative to
\* the root, or None where the command refuses.
Resolve(verb, s) ==
  LET p == IF verb \in {"add-file", "hide"} \/ (verb = "cat" /\ s.abs)
             THEN Canonicalised(s) ELSE AsTyped(s)
      checked == verb \in {"add-file", "hide", "remove-file"} \/ ~s.abs
  IN  IF p \in {None, <<>>} \/ (checked /\ ~Valid(p)) THEN None ELSE p

\* Where the file system puts the entry e: links on the way are followed, a
\* link of that name is not.
PlaceOf(e) ==
  LET dir == Canonical(tree, Root, Front(e)) IN IF dir = None THEN None ELSE Append(dir, Last(e))
Lstat(e) == LET x == PlaceOf(e) IN IF x = None THEN Absent ELSE At(tree, x)

\* A slip: links pass.
RegularOrLink(e) == Lstat(e) # Dir

\* ensure_regular_file: a regular file, or nothing at all.
Regular(e) == Lstat(e) = Absent \/ Lstat(e).kind = "file"

\* The entry that hide, reveal, or cat and changes work on when s is typed.
Means(verb, s) ==
  LET e == Resolve(verb, s)
  IN  IF e # None /\ e \in tracked /\ Regular(e) THEN e ELSE None

\* TrackedFiles::load refuses the whole manifest for one bad entry.
Loads == \A e \in tracked : Valid(e)

Encrypted(n) == [n EXCEPT !.depth = @ + 1]
Decrypted(n) == [n EXCEPT !.depth = @ - 1]

\* A slip: whatever is there is decrypted.
OpensAnything(n) == n.kind = "file"

\* The nodes that decrypt; opening a path follows a link.
Opens(n) == n.kind = "file" /\ n.depth > 0
Opened(e) == LET x == Canonical(tree, Root, CiphertextOf(e))
             IN  IF x = None THEN Absent ELSE At(tree, x)

\* What cat prints for the entry e.
Cat(e) == IF Opens(Opened(e)) THEN Decrypted(Opened(e)) ELSE None
-----------------------------------------------------------------------------
(* git's view of a path *)

Covers(lines, p) == \E line \in lines : Matches(line, p)
LinesOf(file) == file.lines \cup (IF file.open = None THEN {} ELSE {file.open})

\* git check-ignore, which says nothing of paths in the index.
Ignored(file, p) == p \notin index /\ Covers(LinesOf(file), p)

\* A slip: an unterminated last line and the new one become one.
AppendedUnterminated(file, p) ==
  IF Ignored(file, p) THEN file
  ELSE IF file.open = None THEN [file EXCEPT !.lines = @ \cup {p}]
  ELSE [file EXCEPT !.open = None]

\* ensure_gitignored.
Appended(file, p) ==
  IF Ignored(file, p) THEN file ELSE [lines |-> LinesOf(file) \cup {p}, open |-> None]

\* One path after the other.
AllAppended(file, paths) ==
  LET after[i \in 0 .. Len(paths)] ==
        IF i = 0 THEN file ELSE Appended(after[i - 1], paths[i])
  IN  after[Len(paths)]
-----------------------------------------------------------------------------
(* the commands *)

\* What stands before the first of the positions bad.
Before(names, bad) == IF bad = {} THEN names ELSE SubSeq(names, 1, Min(bad) - 1)

\* Consent and .gitignore are written name by name, the manifest at the end.
AddFile(run) ==
  LET found(s) == Resolve("add-file", s)
      done == Before(run.names, {i \in DOMAIN run.names : found(run.names[i]) = None})
      paths == [i \in DOMAIN done |-> found(done[i])]
  IN  /\ run.verb = "add-file" /\ Loads
      /\ ignore' = AllAppended(ignore, paths)
      /\ consent' = consent \cup ToSet(paths)
      /\ tracked' = IF done = run.names THEN tracked \cup ToSet(paths) ELSE tracked
      /\ UNCHANGED <<tree, index, edits>>

\* Ciphertexts go name by name, until one is not tracked (any more) or its
\* ciphertext cannot be removed.
RemoveFile(run) ==
  LET found(i) == Resolve("remove-file", run.names[i])
      refused(i) == \/ found(i) \notin tracked
                    \/ \E j \in 1 .. i - 1 : found(j) = found(i)
                    \/ ~run.keep /\ Lstat(CiphertextOf(found(i))) = Dir
      done == Before(run.names, {i \in DOMAIN run.names : refused(i)})
      paths == {found(i) : i \in DOMAIN done}
      gone == {PlaceOf(CiphertextOf(e)) : e \in {f \in paths : Opened(f) # Absent}}
  IN  /\ run.verb = "remove-file" /\ Loads
      /\ tree' = IF run.keep THEN tree
                 ELSE [x \in DOMAIN tree |-> IF x \in gone THEN Absent ELSE tree[x]]
      /\ tracked' = IF done = run.names THEN tracked \ paths ELSE tracked
      /\ UNCHANGED <<consent, ignore, index, edits>>

\* The entries that the named files of a hide or reveal mean.
Scope(run) == {Means(run.verb, s) : s \in ToSet(run.names)}

\* The gates: tracked regular files (71), a committed ciphertext or consent
\* (72), ciphertexts that git does not ignore (40). All is read before the
\* first write, and all written before the first plaintext is deleted.
Hide(run) ==
  LET scope == Scope(run)
      plain == {PlaceOf(e) : e \in scope}
      from(x) == {e \in scope : PlaceOf(CiphertextOf(e)) = x}
  IN  /\ run.verb = "hide" /\ Loads
      /\ scope # {} /\ None \notin scope
      /\ \A e \in scope :
           /\ CiphertextOf(e) \in index \/ e \in consent
           /\ ~Ignored(ignore, CiphertextOf(e))
           /\ Lstat(CiphertextOf(e)) # Dir
           /\ PlaceOf(CiphertextOf(e)) \in DOMAIN tree /\ Lstat(e).depth < MaxDepth
      /\ tree' = [x \in DOMAIN tree |->
           CASE x \in plain /\ ~run.keep -> Absent
             [] from(x) # {} /\ ~(x \in plain /\ ~run.keep) ->
                  Encrypted(Lstat(CHOOSE e \in from(x) : TRUE))
             [] OTHER -> tree[x]]
      /\ UNCHANGED <<tracked, consent, ignore, index, edits>>

\* Regular tracked files (71) that are not in the index (43) and have a
\* ciphertext that decrypts (60). All is read before the first write.
Reveal(run) ==
  LET scope == Scope(run)
      to(x) == {e \in scope : PlaceOf(e) = x}
  IN  /\ run.verb = "reveal" /\ Loads
      /\ scope # {} /\ None \notin scope
      /\ \A e \in scope : e \notin index /\ Opens(Opened(e))
      /\ tree' = [x \in DOMAIN tree |->
           IF to(x) = {} THEN tree[x] ELSE Decrypted(Opened(CHOOSE e \in to(x) : TRUE))]
      /\ UNCHANGED <<tracked, consent, ignore, index, edits>>
-----------------------------------------------------------------------------
(* the rest of the world *)

\* An editor, which writes through no link here.
Edit(x) ==
  /\ edits < MaxEdits /\ edits' = edits + 1
  /\ tree[Front(x)] = Dir /\ (tree[x] = Absent \/ tree[x].kind = "file")
  /\ \E c \in Text : tree' = [tree EXCEPT ![x] = [kind |-> "file", text |-> c, depth |-> 0]]
  /\ UNCHANGED <<tracked, consent, ignore, index>>

\* ln -sf, or git checkout of a link.
Link(x, target) ==
  /\ edits < MaxEdits /\ edits' = edits + 1
  /\ tree[Front(x)] = Dir /\ tree[x] # Dir
  /\ tree' = [tree EXCEPT ![x] = [kind |-> "link", to |-> target]]
  /\ UNCHANGED <<tracked, consent, ignore, index>>

\* git add -A.
GitAdd ==
  /\ index' = {e \in Entry : At(tree, Root \o e).kind \in {"file", "link"} /\ ~Ignored(ignore, e)}
  /\ UNCHANGED <<tree, tracked, consent, ignore, edits>>

Next ==
  \/ \E run \in CommandLines : AddFile(run) \/ RemoveFile(run) \/ Hide(run) \/ Reveal(run)
  \/ \E x \in Editable : Edit(x)
  \/ \E link \in Links : Link(link[1], link[2])
  \/ GitAdd

Spec == Init /\ [][Next]_vars
-----------------------------------------------------------------------------
(***************************************************************************)
(* Properties.                                                             *)
(***************************************************************************)

\* Type invariant.
TypeOK ==
  /\ tree \in [Place -> Node] /\ WellFormed(tree)
  /\ tracked \subseteq Entry /\ consent \subseteq Entry /\ index \subseteq Entry
  /\ ignore \in Ignores
  /\ edits \in 0 .. MaxEdits

\* What add-file stored never makes a later command refuse the manifest, in
\* whatever spelling, through whatever link it was added.
OwnManifestLoads == Loads

\* hide resolves what is typed by canonicalising it, reveal as it stands, cat
\* and changes one or the other: those of them that accept a spelling work on
\* the same file.
SameFile ==
  \A s \in Spelling :
    LET meant == {Means(verb, s) : verb \in {"hide", "reveal", "cat"}} \ {None}
    IN  \A e, f \in meant : PlaceOf(e) = PlaceOf(f)

\* At worst both copies exist, never neither: after a hide cat prints for each
\* of the named files what was in it, whatever else was named with it.
NeverNeither ==
  [][\A run \in CommandLines : Hide(run) => \A e \in Scope(run) : Cat(e)' = Lstat(e)]_vars

\* After add-file git ignores each added file or knew it before, and nothing
\* that was ignored has lost its line, whatever the last line of .gitignore
\* looked like.
AddedIsIgnored ==
  [][\A run \in CommandLines : AddFile(run) =>
       /\ \A e \in tracked' \ tracked : e \in index \/ Ignored(ignore', e)
       /\ \A e \in Entry : Ignored(ignore, e) => Ignored(ignore', e)]_vars
=============================================================================
