--------------------------- MODULE WorktreeProofs ---------------------------
(***************************************************************************)
(* Which file a command means, for every tree, every spelling and every    *)
(* command line: the properties of Worktree.                               *)
(***************************************************************************)
EXTENDS Worktree, PathProofs

\* No link leads to a place that a link may replace, so links never chain.
LinksApart ==
  \A link \in Links :
    /\ tree[link[2]].kind # "link"
    /\ \A x \in Place : tree[x].kind = "link" => tree[x].to # link[1]

\* The inductive invariant: every command starts in a directory that exists
\* and from a manifest that loads.
IInv == TypeOK /\ tree[Root] = Dir /\ LinksApart /\ Loads

-----------------------------------------------------------------------------
(* entries and places *)

\* A path with a prefix is the prefix and the rest.
LEMMA PrefixSplit ==
  ASSUME NEW root \in Path, NEW x \in Path, IsPrefix(root, x)
  PROVE  LET rest == SubSeq(x, Len(root) + 1, Len(x))
         IN  rest \in Path /\ root \o rest = x /\ (rest = <<>> <=> x = root)
<1> DEFINE m == Len(root)
           n == Len(x)
           rest == SubSeq(x, m + 1, n)
<1>1. m \in Nat /\ n \in Nat /\ m <= n
  BY LenProperties DEF Path, IsPrefix
<1>2. rest \in Path /\ Len(rest) = n - m /\ \A i \in 1 .. n - m : rest[i] = x[m + i]
  <2>1. \A i \in m + 1 .. n : x[i] \in FileName
    BY <1>1, ElementOfSeq DEF Path
  <2>2. \A i \in 1 .. n - (m + 1) + 1 : rest[i] = x[m + 1 + i - 1]
    <3> HIDE DEF m, n
    <3> QED BY <1>1, <2>1, SubSeqProperties DEF Path
  <2>3. rest \in Seq(FileName) /\ Len(rest) = IF m + 1 <= n THEN n - (m + 1) + 1 ELSE 0
    <3> HIDE DEF m, n
    <3> QED BY <1>1, <2>1, SubSeqProperties
  <2> HIDE DEF m, n, rest
  <2> QED BY <1>1, <2>2, <2>3 DEF Path
<1>3. \A i \in 1 .. m : root[i] = x[i]
  <2>1. SubSeq(root, 1, m) = root /\ SubSeq(root, 1, m) = SubSeq(x, 1, m)
    BY SubSeqFull DEF Path, IsPrefix
  <2>2. \A i \in 1 .. m : x[i] \in FileName
    BY <1>1, ElementOfSeq DEF Path
  <2>3. \A i \in 1 .. m - 1 + 1 : SubSeq(x, 1, m)[i] = x[1 + i - 1]
    <3> HIDE DEF m
    <3> QED BY <1>1, <2>2, SubSeqProperties
  <2> HIDE DEF m
  <2> QED BY <1>1, <2>1, <2>3
<1>4. root \o rest \in Path /\ Len(root \o rest) = n
      /\ \A i \in 1 .. n : (root \o rest)[i] = IF i <= m THEN root[i] ELSE rest[i - m]
  <2> HIDE DEF rest
  <2> QED BY <1>1, <1>2, ConcatProperties DEF Path
<1>5. root \o rest = x
  <2> DEFINE y == root \o rest
  <2>1. \A i \in 1 .. n : y[i] = x[i]
    <3> HIDE DEF rest, m, n
    <3> QED BY <1>1, <1>2, <1>3, <1>4
  <2>2. y \in Seq(FileName) /\ x \in Seq(FileName) /\ Len(y) = Len(x)
    BY <1>4 DEF Path
  <2> HIDE DEF y, rest
  <2>3. y = x
    BY <2>1, <2>2, SeqEqual
  <2> QED BY <2>3 DEF y
<1>6. rest = <<>> <=> x = root
  <2> HIDE DEF rest
  <2> QED BY <1>2, <1>5, ConcatEqualIffEmpty DEF Path
<1> QED BY <1>2, <1>5, <1>6

\* What the tree is, without its representation.
LEMMA TreeFacts ==
  ASSUME TypeOK, tree[Root] = Dir
  PROVE  /\ IsTree(tree) /\ DOMAIN tree = Place
         /\ Root \in Real(tree) /\ <<>> \in Real(tree)
         /\ Root \in Path /\ <<>> \in Path /\ Place \subseteq Path
<1>1. DOMAIN tree = Place
  BY DEF TypeOK
<1>2. IsTree(tree)
  BY <1>1, PlaceAssumption DEF TypeOK, IsTree
<1>3. tree[<<>>] = Dir
  BY DEF TypeOK, WellFormed
<1> QED BY <1>1, <1>2, <1>3, PlaceAssumption DEF Real, Dir, Absent

\* Entries are paths below the root, and they are places.
LEMMA EntryFacts ==
  ASSUME NEW e \in Entry
  PROVE  e \in Path /\ e # <<>> /\ Root \o e \in Place
<1>1. PICK x \in Place : IsPrefix(Root, x) /\ x # Root /\ e = Relative(x)
  BY DEF Entry
<1>2. Root \in Path /\ x \in Path
  BY PlaceAssumption
<1> QED BY <1>1, <1>2, PrefixSplit DEF Relative

\* What lies at the place of an entry is found under the entry.
LEMMA PlaceOfEntry ==
  ASSUME TypeOK, tree[Root] = Dir, NEW e \in Path, e # <<>>, At(tree, Root \o e) # Absent
  PROVE  /\ Canonical(tree, Root, Front(e)) = Root \o Front(e)
         /\ At(tree, Root \o Front(e)) = Dir
         /\ PlaceOf(e) = Root \o e
<1>1. Root \o e \in DOMAIN tree /\ tree[Root \o e] # Absent
  BY DEF At
<1>2. Root \o e # <<>> /\ Front(Root \o e) = Root \o Front(e)
      /\ Root \o e = Append(Root \o Front(e), Last(e))
  BY FrontBelow, TreeFacts
<1>3. At(tree, Root \o Front(e)) = Dir
  BY <1>1, <1>2 DEF TypeOK, WellFormed
<1>4. Canonical(tree, Root, Front(e)) = Root \o Front(e)
  BY <1>3, CanonicalParent, TreeFacts
<1>5. Root \o Front(e) # None
  BY FrontLast, TreeFacts, ConcatProperties, NoneAssumption DEF Path
<1> QED BY <1>2, <1>3, <1>4, <1>5 DEF PlaceOf

\* Resolving by canonicalising gives an entry that exists under that name.
LEMMA CanonicalisedEntry ==
  ASSUME TypeOK, tree[Root] = Dir, NEW s \in Spelling,
         Canonicalised(s) \notin {None, <<>>}
  PROVE  LET a == Canonicalised(s)
         IN  /\ a \in Entry /\ Root \o a \in Real(tree)
             /\ Canonical(tree, IF s.abs THEN <<>> ELSE Root, s.path) = Root \o a
             /\ PlaceOf(a) = Root \o a
             /\ Lstat(a) = tree[Root \o a]
<1> DEFINE a == Canonicalised(s)
           from == IF s.abs THEN <<>> ELSE Root
           c == Canonical(tree, from, s.path)
<1>1. s.path \in Path /\ from \in Real(tree)
  BY SpellingAssumption, TreeFacts
<1>2. c \in Real(tree) \cup {None}
  BY <1>1, CanonicalReal, TreeFacts
<1>3. c # None /\ IsPrefix(Root, c) /\ a = Relative(c)
  BY DEF Canonicalised, Stripped
<1>4. c \in Place /\ c \in Path /\ c \in Real(tree)
  BY <1>2, <1>3, TreeFacts DEF Real
<1>5. Root \o a = c /\ c # Root /\ a \in Path
  <2> HIDE DEF c
  <2> QED BY <1>3, <1>4, PrefixSplit, TreeFacts DEF Relative
<1>6. a \in Entry
  <2> HIDE DEF c
  <2> QED BY <1>3, <1>4, <1>5 DEF Entry
<1>7. At(tree, Root \o a) = tree[Root \o a] /\ tree[Root \o a] # Absent
  BY <1>4, <1>5 DEF At, Real
<1>8. PlaceOf(a) = Root \o a
  BY <1>5, <1>7, PlaceOfEntry
<1>9. Root \o a # None
  BY <1>3, <1>5
<1>10. Lstat(a) = tree[Root \o a]
  <2> HIDE DEF a, c
  <2> QED BY <1>7, <1>8, <1>9 DEF Lstat
<1> HIDE DEF c
<1> QED BY <1>4, <1>5, <1>6, <1>8, <1>10 DEF c
-----------------------------------------------------------------------------
(* one file, however it is spelled *)

\* A path that canonicalize accepts ends where the file system puts its last
\* name, unless that is a link.
LEMMA CanonicalLast ==
  ASSUME TypeOK, tree[Root] = Dir, NEW e \in Path, e # <<>>, Last(e) \notin {Dot, DotDot},
         Lstat(e) = Absent \/ Lstat(e).kind = "file",
         Canonical(tree, Root, e) # None
  PROVE  PlaceOf(e) = Canonical(tree, Root, e)
<1> DEFINE dir == Canonical(tree, Root, Front(e))
           c == Last(e)
           x == Append(dir, c)
<1>1. Front(e) \in Path /\ c \in FileName /\ e = Append(Front(e), c)
  BY FrontLast
<1>2. Canonical(tree, Root, e) = Enter(tree, dir, c)
  <2> DEFINE f == Front(e)
  <2>1. IsTree(tree) /\ Root \in Real(tree) \cup {None} /\ f \in Path /\ c \in FileName
    BY <1>1, TreeFacts
  <2> HIDE DEF f, c
  <2>2. Canonical(tree, Root, Append(f, c)) = Enter(tree, Canonical(tree, Root, f), c)
    BY <2>1, CanonicalAppend
  <2>3. e = Append(f, c)
    BY <1>1 DEF f
  <2> QED BY <2>2, <2>3 DEF f
<1>3. dir \in Real(tree) \cup {None}
  BY <1>1, CanonicalReal, TreeFacts
<1>4. dir # None
  BY <1>2 DEF Enter
<1>5. PlaceOf(e) = x
  BY <1>4 DEF PlaceOf
<1>6. x # None
  <2> HIDE DEF c, dir
  <2> dir \in Path
    BY <1>3, <1>4, TreeFacts DEF Real
  <2> QED BY <1>1, AppendProperties, NoneAssumption DEF Path
<1>7. At(tree, x).kind # "link"
  BY <1>5, <1>6 DEF Lstat, Absent
<1>8. Enter(tree, dir, c) \in {None, x}
  <2> HIDE DEF c, dir
  <2> c \notin {Dot, DotDot}
    BY DEF c
  <2> QED BY <1>7 DEF Enter
<1> QED BY <1>2, <1>5, <1>8

\* As typed, a spelling whose path has no component "." left is that path below
\* the root; what canonicalize makes of the one it makes of the other.
LEMMA AsTypedEntry ==
  ASSUME TypeOK, tree[Root] = Dir, NEW s \in Spelling, NEW b, b = AsTyped(s),
         b \notin {None, <<>>}, \A i \in DOMAIN b : b[i] \notin {Dot, DotDot},
         Canonical(tree, IF s.abs THEN <<>> ELSE Root, s.path) # None
  PROVE  /\ b \in Path
         /\ Canonical(tree, Root, b) = Canonical(tree, IF s.abs THEN <<>> ELSE Root, s.path)
<1>1. s.path \in Path
  BY SpellingAssumption
<1>2. CASE s.abs
  <2> DEFINE u == Undotted(s.path)
  <2>1. u \in Path /\ Canonical(tree, <<>>, u) = Canonical(tree, <<>>, s.path)
    BY <1>1, <1>2, CanonicalUndotted, TreeFacts
  <2>2. b = Stripped(u)
    BY <1>2 DEF AsTyped, Components
  <2>3. IsPrefix(Root, u) /\ b = Relative(u)
    BY <2>2 DEF Stripped
  <2>4. b \in Path /\ Root \o b = u
    <3> HIDE DEF u
    <3> QED BY <2>1, <2>3, PrefixSplit, TreeFacts DEF Relative
  <2>5. Canonical(tree, <<>>, Root \o b) = Canonical(tree, Canonical(tree, <<>>, Root), b)
    <3> DEFINE top == <<>>
    <3>1. IsTree(tree) /\ top \in Real(tree) \cup {None} /\ Root \in Path /\ b \in Path
      BY <2>4, TreeFacts
    <3> HIDE DEF top
    <3>2. Canonical(tree, top, Root \o b) = Canonical(tree, Canonical(tree, top, Root), b)
      BY <3>1, CanonicalConcat
    <3> QED BY <3>2 DEF top
  <2>6. Canonical(tree, <<>>, Root) = Root
    BY CanonicalOfPlace, TreeFacts
  <2> QED BY <1>2, <2>1, <2>4, <2>5, <2>6
<1>3. CASE ~s.abs
  <2> DEFINE u == Undotted(s.path)
  <2>1. u \in Path /\ Canonical(tree, Root, u) = Canonical(tree, Root, s.path)
    BY <1>1, <1>3, CanonicalUndotted, TreeFacts
  <2>2. b = IF s.path # <<>> /\ Head(s.path) = Dot THEN <<Dot>> \o u ELSE u
    BY <1>3 DEF AsTyped, Components
  <2>3. Dot \in FileName
    <3> DEFINE w == "."
    <3>1. w \in Word
      BY WordAssumption
    <3> HIDE DEF w
    <3>2. <<w>> \in Seq(Word)
      BY <3>1
    <3> QED BY <3>2 DEF w, Dot, FileName
  <2>4. b # <<Dot>> \o u
    <3> HIDE DEF u
    <3>1. <<Dot>> \in Seq(FileName) /\ Len(<<Dot>>) = 1 /\ <<Dot>>[1] = Dot
      BY <2>3
    <3> DEFINE d == <<Dot>>
               y == d \o u
    <3>2. d \in Seq(FileName) /\ Len(d) = 1 /\ d[1] = Dot
      BY <3>1
    <3> HIDE DEF d
    <3>3. y \in Path /\ Len(y) = 1 + Len(u) /\ y[1] = d[1]
      <4>1. u \in Seq(FileName) /\ Len(u) \in Nat
        BY <2>1, LenProperties DEF Path
      <4>2. y \in Seq(FileName) /\ Len(y) = Len(d) + Len(u)
            /\ \A i \in 1 .. Len(d) + Len(u) : y[i] = IF i <= Len(d) THEN d[i] ELSE u[i - Len(d)]
        BY <3>2, <4>1, ConcatProperties
      <4> HIDE DEF y, u
      <4> QED BY <3>2, <4>1, <4>2 DEF Path
    <3> HIDE DEF y
    <3>4. 1 \in DOMAIN y
      BY <2>1, <3>3, LenProperties DEF Path
    <3> QED BY <3>2, <3>3, <3>4 DEF y, d
  <2> QED BY <1>3, <2>1, <2>2, <2>4
<1> QED BY <1>2, <1>3

\* Hiding and revealing the same spelling work on the same place.
LEMMA SamePlace ==
  ASSUME IInv, NEW s \in Spelling, NEW a, NEW b,
         a = Canonicalised(s), b = AsTyped(s), a \notin {None, <<>>}, b \notin {None, <<>>},
         b \in tracked, Regular(b)
  PROVE  PlaceOf(a) = PlaceOf(b)
<1>1. TypeOK /\ tree[Root] = Dir /\ Valid(b) /\ b \in Entry
  BY DEF IInv, Loads, TypeOK
<1>2. \A i \in DOMAIN b : b[i] \notin {Dot, DotDot}
  BY <1>1 DEF Valid
<1> DEFINE c == Canonical(tree, IF s.abs THEN <<>> ELSE Root, s.path)
<1>3. c = Root \o a /\ PlaceOf(a) = Root \o a /\ Root \o a \in Real(tree)
  BY <1>1, CanonicalisedEntry
<1>4. c # None
  BY <1>1, <1>3, TreeFacts, NoneAssumption DEF Real
<1>5. b \in Path /\ Canonical(tree, Root, b) = c
  BY <1>1, <1>2, <1>4, AsTypedEntry
<1>6. Last(b) \notin {Dot, DotDot}
  BY <1>2, <1>5, LenProperties, EmptySeq DEF Last, Path
<1>7. Lstat(b) = Absent \/ Lstat(b).kind = "file"
  BY DEF Regular
<1> HIDE DEF c
<1>8. PlaceOf(b) = Canonical(tree, Root, b)
  BY <1>1, <1>4, <1>5, <1>6, <1>7, CanonicalLast
<1> QED BY <1>3, <1>5, <1>8

\* In each mode a spelling resolves to what one of the two makes of it.
LEMMA ResolveFacts ==
  ASSUME NEW verb, NEW s, Resolve(verb, s) # None
  PROVE  LET p == Resolve(verb, s)
         IN  /\ p \in {Canonicalised(s), AsTyped(s)} \ {None, <<>>}
             /\ verb \in {"add-file", "hide"} => p = Canonicalised(s) /\ Valid(p)
             /\ verb \in {"remove-file", "reveal"} => p = AsTyped(s)
BY DEF Resolve

LEMMA SameFileInv == IInv => SameFile
<1> SUFFICES ASSUME IInv, NEW s \in Spelling, NEW v \in {"hide", "reveal", "cat"},
                    NEW w \in {"hide", "reveal", "cat"},
                    Means(v, s) # None, Means(w, s) # None
             PROVE  PlaceOf(Means(v, s)) = PlaceOf(Means(w, s))
  BY DEF SameFile
<1> DEFINE e == Means(v, s)
           f == Means(w, s)
<1>1. e = Resolve(v, s) /\ e # None /\ e \in tracked /\ Regular(e)
  BY DEF Means
<1>2. f = Resolve(w, s) /\ f # None /\ f \in tracked /\ Regular(f)
  BY DEF Means
<1>3. e \in {Canonicalised(s), AsTyped(s)} \ {None, <<>>}
  BY <1>1, ResolveFacts
<1>4. f \in {Canonicalised(s), AsTyped(s)} \ {None, <<>>}
  BY <1>2, ResolveFacts
<1> HIDE DEF e, f
<1>5. CASE e = f
  BY <1>5 DEF e, f
<1>6. CASE e = Canonicalised(s) /\ f = AsTyped(s)
  BY <1>2, <1>3, <1>4, <1>6, SamePlace DEF e, f
<1>7. CASE e = AsTyped(s) /\ f = Canonicalised(s)
  BY <1>1, <1>3, <1>4, <1>7, SamePlace DEF e, f
<1> QED BY <1>3, <1>4, <1>5, <1>6, <1>7
-----------------------------------------------------------------------------
(* trees after a command *)

\* Nodes that are files, and what encrypting and decrypting make of them.
LEMMA FileNode ==
  ASSUME NEW n \in Node, n.kind = "file"
  PROVE  /\ n \in [kind : {"file"}, text : Text, depth : 0 .. MaxDepth]
         /\ n # Dir /\ n # Absent
         /\ n.depth < MaxDepth => Encrypted(n) \in Node /\ Encrypted(n).kind = "file"
         /\ n.depth > 0 => Decrypted(n) \in Node /\ Decrypted(n).kind = "file"
         /\ Decrypted(Encrypted(n)) = n /\ Encrypted(n).depth = n.depth + 1
<1>1. n \in [kind : {"file"}, text : Text, depth : 0 .. MaxDepth]
  BY DEF Node, Absent, Dir
<1>2. n = [kind |-> "file", text |-> n.text, depth |-> n.depth]
      /\ n.text \in Text /\ n.depth \in 0 .. MaxDepth
  BY <1>1
<1>3. Encrypted(n) = [kind |-> "file", text |-> n.text, depth |-> n.depth + 1]
  BY <1>2 DEF Encrypted
<1>4. Decrypted(n) = [kind |-> "file", text |-> n.text, depth |-> n.depth - 1]
  BY <1>2 DEF Decrypted
<1>5. Decrypted(Encrypted(n)) = n
  <2>1. ASSUME NEW d
        PROVE  Decrypted([kind |-> "file", text |-> n.text, depth |-> d]) =
                 [kind |-> "file", text |-> n.text, depth |-> d - 1]
    BY DEF Decrypted
  <2>2. n.depth + 1 - 1 = n.depth
    BY <1>2
  <2> QED BY <1>2, <1>3, <2>1, <2>2
<1> QED BY <1>1, <1>2, <1>3, <1>4, <1>5, BoundsAssumption DEF Node, Dir, Absent

LEMMA AtNode ==
  ASSUME TypeOK, NEW x
  PROVE  /\ At(tree, x) \in Node
         /\ At(tree, x).kind = "dir" => At(tree, x) = Dir
         /\ At(tree, x).kind \in {"none", "dir", "file", "link"}
         /\ At(tree, x).kind \notin {"dir", "file", "link"} => At(tree, x) = Absent
         /\ At(tree, x) # Absent => x \in Place /\ At(tree, x) = tree[x]
<1>1. At(tree, x) \in Node
  BY DEF TypeOK, At, Node
<1>2. \A n \in Node : /\ n.kind = "dir" => n = Dir
                      /\ n.kind \in {"none", "dir", "file", "link"}
                      /\ n.kind \notin {"dir", "file", "link"} => n = Absent
  BY DEF Node, Dir, Absent
<1> QED BY <1>1, <1>2 DEF At, TypeOK

\* Files that come and go disturb nothing else.
LEMMA ChangedInv ==
  ASSUME IInv, tree' \in [Place -> Node], Changed(tree, tree')
  PROVE  WellFormed(tree') /\ tree'[Root] = Dir /\ LinksApart'
<1>1. IsTree(tree) /\ DOMAIN tree = Place /\ Root \in Place
  BY TreeFacts, PlaceAssumption DEF IInv
<1>2. IsTree(tree') /\ \A x \in Place : tree[x] = Dir => tree'[x] = Dir
  BY <1>1, ChangedTree
<1>3. \A x \in Place : tree'[x].kind = "link" => tree'[x] = tree[x]
  BY <1>1 DEF Changed, Absent
<1>4. \A link \in Links : link[2] \in Place
  BY LinksAssumption
<1>5. LinksApart'
  <2>1. SUFFICES ASSUME NEW link \in Links
                 PROVE  /\ tree'[link[2]].kind # "link"
                        /\ \A x \in Place : tree'[x].kind = "link" => tree'[x].to # link[1]
    BY DEF LinksApart
  <2> QED BY <1>3, <1>4 DEF IInv, LinksApart
<1> QED BY <1>1, <1>2, <1>5 DEF IInv, IsTree

\* The names before the first bad one are none of the bad ones.
LEMMA BeforeFacts ==
  ASSUME NEW S, NEW names \in Seq(S), NEW bad \in SUBSET DOMAIN names
  PROVE  LET done == Before(names, bad)
         IN  /\ done \in Seq(S) /\ DOMAIN done \subseteq DOMAIN names
             /\ \A i \in DOMAIN done : done[i] = names[i] /\ i \notin bad
<1> DEFINE n == Len(names)
<1>1. n \in Nat /\ DOMAIN names = 1 .. n /\ \A i \in 1 .. n : names[i] \in S
  BY LenProperties, ElementOfSeq
<1>2. CASE bad = {}
  BY <1>2 DEF Before
<1>3. CASE bad # {}
  <2> DEFINE k == Min(bad)
             done == SubSeq(names, 1, k - 1)
  <2>1. bad \in SUBSET Nat
    BY <1>1
  <2>2. k \in bad /\ \A m \in bad : k <= m
    <3>1. \E x \in bad : \A y \in bad : x <= y
      BY <1>3, <2>1, LeastNumber
    <3> QED BY <3>1 DEF Min
  <2>3. k \in 1 .. n
    <3> HIDE DEF k, n
    <3> QED BY <1>1, <2>2
  <2>4. done \in Seq(S) /\ Len(done) = k - 1 /\ \A i \in 1 .. k - 1 : done[i] = names[i]
    <3> HIDE DEF k, n
    <3>1. 1 \in Int /\ k - 1 \in Int /\ \A i \in 1 .. k - 1 : names[i] \in S
      BY <1>1, <2>3
    <3>2. /\ SubSeq(names, 1, k - 1) \in Seq(S)
          /\ Len(SubSeq(names, 1, k - 1)) = IF 1 <= k - 1 THEN k - 1 - 1 + 1 ELSE 0
          /\ \A i \in 1 .. k - 1 - 1 + 1 : SubSeq(names, 1, k - 1)[i] = names[1 + i - 1]
      BY <3>1, SubSeqProperties
    <3> DEFINE d == SubSeq(names, 1, k - 1)
    <3>3. d \in Seq(S) /\ Len(d) = IF 1 <= k - 1 THEN k - 1 - 1 + 1 ELSE 0
      BY <3>2
    <3>4. \A i \in 1 .. k - 1 : d[i] = names[i]
      BY <2>3, <3>2
    <3> HIDE DEF d
    <3>5. Len(d) = k - 1
      BY <2>3, <3>3
    <3> QED BY <3>3, <3>4, <3>5 DEF d
  <2>5. Before(names, bad) = done
    BY <1>3 DEF Before
  <2> HIDE DEF done
  <2>6. DOMAIN done = 1 .. k - 1
    BY <2>4, LenProperties
  <2> HIDE DEF k, n
  <2>7. \A i \in 1 .. k - 1 : i \in 1 .. n /\ i \notin bad
    BY <1>1, <2>2, <2>3
  <2> QED BY <1>1, <2>4, <2>5, <2>6, <2>7
<1> QED BY <1>2, <1>3

\* A file that hide means exists, as a file, and so does the directory that
\* its ciphertext goes to.
LEMMA HideMeans ==
  ASSUME IInv, NEW s \in Spelling, NEW e, e = Means("hide", s), e # None
  PROVE  /\ e \in Entry /\ e \in tracked
         /\ PlaceOf(e) = Root \o e /\ Root \o e \in Real(tree)
         /\ Lstat(e) = tree[Root \o e] /\ tree[Root \o e].kind = "file"
         /\ At(tree, Root \o Front(e)) = Dir
         /\ PlaceOf(CiphertextOf(e)) = Root \o CiphertextOf(e)
         /\ CiphertextOf(e) \in Path /\ CiphertextOf(e) # <<>>
         /\ Front(Root \o CiphertextOf(e)) = Root \o Front(e)
<1>1. e = Resolve("hide", s) /\ e \in tracked /\ Regular(e)
  BY DEF Means
<1>2. e = Canonicalised(s) /\ e \notin {None, <<>>}
  BY <1>1, ResolveFacts
<1>3. TypeOK /\ tree[Root] = Dir
  BY DEF IInv
<1>4. e \in Entry /\ PlaceOf(e) = Root \o e /\ Root \o e \in Real(tree) /\ Lstat(e) = tree[Root \o e]
  BY <1>2, <1>3, CanonicalisedEntry
<1>5. tree[Root \o e].kind = "file"
  BY <1>1, <1>4 DEF Regular, Real
<1>6. e \in Path /\ e # <<>>
  BY <1>4, EntryFacts
<1>7. At(tree, Root \o e) # Absent
  BY <1>4 DEF At, Real
<1>8. Canonical(tree, Root, Front(e)) = Root \o Front(e) /\ At(tree, Root \o Front(e)) = Dir
  BY <1>3, <1>6, <1>7, PlaceOfEntry
<1> DEFINE c == CiphertextOf(e)
<1>9. c \in Path /\ c # <<>> /\ Front(c) = Front(e)
  BY <1>6, CiphertextPath
<1>10. Root \in Path
  BY PlaceAssumption
<1> HIDE DEF c
<1>11. Root \o c = Append(Root \o Front(e), Last(c)) /\ Front(Root \o c) = Root \o Front(e)
  <2>1. Front(Root \o c) = Root \o Front(c) /\ Root \o c = Append(Root \o Front(c), Last(c))
    BY <1>9, <1>10, FrontBelow
  <2> QED BY <1>9, <2>1
<1>12. Root \o Front(e) # None
  <2> DEFINE d == Front(e)
  <2>1. d \in Path
    BY <1>6, FrontLast
  <2> HIDE DEF d
  <2>2. Root \o d \in Path
    BY <1>10, <2>1, ConcatProperties DEF Path
  <2> QED BY <2>2, NoneAssumption DEF d
<1>13. PlaceOf(c) = Root \o c
  BY <1>8, <1>9, <1>11, <1>12 DEF PlaceOf
<1> QED BY <1>1, <1>4, <1>5, <1>8, <1>9, <1>11, <1>13 DEF c
LEMMA RunFacts ==
  ASSUME NEW run \in CommandLines
  PROVE  /\ run.names \in Seq(Spelling)
         /\ \A s \in ToSet(run.names) : s \in Spelling
         /\ \A e \in Scope(run) : \E s \in Spelling : e = Means(run.verb, s)
<1>1. run.names \in Seq(Spelling)
  BY CommandLinesAssumption DEF Command
<1>2. \A s \in ToSet(run.names) : s \in Spelling
  BY <1>1, LenProperties, ElementOfSeq DEF ToSet
<1> QED BY <1>1, <1>2 DEF Scope

\* hide writes files into directories that exist and deletes files.
LEMMA HideStep ==
  ASSUME IInv, NEW run \in CommandLines, Hide(run)
  PROVE  tree' \in [Place -> Node] /\ Changed(tree, tree')
<1> DEFINE scope == Scope(run)
           plain == {PlaceOf(e) : e \in scope}
           from(x) == {e \in scope : PlaceOf(CiphertextOf(e)) = x}
           gone(x) == x \in plain /\ ~run.keep
           new(x) == Encrypted(Lstat(CHOOSE e \in from(x) : TRUE))
<1>1. TypeOK /\ DOMAIN tree = Place /\ tree \in [Place -> Node] /\ Absent \in Node
  BY TreeFacts DEF IInv, TypeOK, Node
<1>2. ASSUME NEW e \in scope
      PROVE  \E s \in Spelling : e = Means("hide", s) /\ e # None
  BY RunFacts DEF Hide
<1>3. ASSUME NEW e \in scope
      PROVE  /\ PlaceOf(e) \in Place /\ tree[PlaceOf(e)] # Dir
             /\ Lstat(e) \in Node /\ Lstat(e).kind = "file" /\ Lstat(e).depth < MaxDepth
             /\ PlaceOf(CiphertextOf(e)) \in Place /\ PlaceOf(CiphertextOf(e)) # <<>>
             /\ tree[PlaceOf(CiphertextOf(e))] # Dir
             /\ At(tree, Front(PlaceOf(CiphertextOf(e)))) = Dir
  <2>1. PICK s \in Spelling : e = Means("hide", s) /\ e # None
    BY <1>2
  <2> DEFINE c == CiphertextOf(e)
  <2>2. /\ e \in Entry /\ PlaceOf(e) = Root \o e /\ Root \o e \in Real(tree)
        /\ Lstat(e) = tree[Root \o e] /\ tree[Root \o e].kind = "file"
        /\ At(tree, Root \o Front(e)) = Dir
        /\ PlaceOf(c) = Root \o c /\ c \in Path /\ c # <<>>
        /\ Front(Root \o c) = Root \o Front(e)
    BY <2>1, HideMeans
  <2>3. Lstat(c) # Dir /\ PlaceOf(c) \in DOMAIN tree /\ Lstat(e).depth < MaxDepth
    BY DEF Hide
  <2> HIDE DEF c
  <2>4. PlaceOf(c) # None /\ PlaceOf(c) # <<>>
    <3>1. Root \in Path
      BY PlaceAssumption
    <3>2. Root \o c \in Path \ {<<>>}
      BY <2>2, <3>1, FrontBelow
    <3> QED BY <2>2, <3>2, NoneAssumption
  <2>5. tree[PlaceOf(c)] # Dir
    BY <2>3, <2>4 DEF Lstat, At
  <2>6. Root \o e \in Place /\ tree[Root \o e] \in Node
    BY <1>1, <2>2 DEF Real
  <2>7. tree[Root \o e] # Dir
    BY <2>2 DEF Dir
  <2> QED BY <1>1, <2>2, <2>3, <2>4, <2>5, <2>6, <2>7 DEF c
<1>4. tree' = [x \in DOMAIN tree |-> CASE gone(x) -> Absent
                                       [] from(x) # {} /\ ~gone(x) -> new(x)
                                       [] OTHER -> tree[x]]
  BY DEF Hide
<1>5. ASSUME NEW x \in Place
      PROVE  /\ gone(x) => tree[x] # Dir
             /\ from(x) # {} => /\ new(x) \in Node /\ new(x).kind = "file"
                                /\ x # <<>> /\ tree[x] # Dir /\ At(tree, Front(x)) = Dir
  <2>1. ASSUME gone(x) PROVE tree[x] # Dir
    BY <1>3, <2>1
  <2>2. ASSUME from(x) # {}
        PROVE  /\ new(x) \in Node /\ new(x).kind = "file"
               /\ x # <<>> /\ tree[x] # Dir /\ At(tree, Front(x)) = Dir
    <3> DEFINE e == CHOOSE f \in from(x) : TRUE
    <3>1. e \in from(x)
      BY <2>2
    <3>2. e \in scope /\ PlaceOf(CiphertextOf(e)) = x
      BY <3>1
    <3>3. new(x) = Encrypted(Lstat(e))
      OBVIOUS
    <3> HIDE DEF e, new
    <3> QED BY <1>3, <3>2, <3>3, FileNode
  <2> QED BY <2>1, <2>2
<1> HIDE DEF gone, from, new
<1>6. ASSUME NEW x \in Place
      PROVE  /\ tree'[x] \in Node
             /\ \/ tree'[x] = tree[x]
                \/ tree[x] # Dir /\ tree'[x] = Absent
                \/ /\ tree[x] # Dir /\ x # <<>> /\ At(tree, Front(x)) = Dir
                   /\ tree'[x].kind = "file"
  <2>1. CASE gone(x)
    BY <1>1, <1>4, <1>5, <2>1
  <2>2. CASE from(x) # {} /\ ~gone(x)
    BY <1>1, <1>4, <1>5, <2>2
  <2>3. CASE from(x) = {} /\ ~gone(x)
    BY <1>1, <1>4, <2>3
  <2> QED BY <2>1, <2>2, <2>3
<1>7. tree' = [x \in Place |-> tree'[x]]
  BY <1>1, <1>4
<1> QED BY <1>1, <1>6, <1>7 DEF Changed

\* A file that reveal means goes into a directory that exists.
LEMMA RevealMeans ==
  ASSUME IInv, NEW s \in Spelling, NEW e, e = Means("reveal", s), e # None, Opens(Opened(e))
  PROVE  LET x == PlaceOf(e)
         IN  /\ e \in Entry /\ x \in Path \ {<<>>} /\ At(tree, Front(x)) = Dir
             /\ At(tree, x) # Dir /\ At(tree, x) \in Node
             /\ Opened(e) \in Node /\ Opened(e).kind = "file" /\ Opened(e).depth > 0
<1>1. e \in tracked /\ Regular(e)
  BY DEF Means
<1>2. TypeOK /\ tree[Root] = Dir /\ e \in Entry
  BY <1>1 DEF IInv, TypeOK
<1>3. e \in Path /\ e # <<>>
  BY <1>2, EntryFacts
<1> DEFINE dir == Canonical(tree, Root, Front(e))
           c == CiphertextOf(e)
           y == Canonical(tree, Root, c)
<1>4. y # None /\ Opened(e) = At(tree, y)
  BY DEF Opened, Opens, Absent
<1>5. Opened(e) \in Node /\ Opened(e).kind = "file" /\ Opened(e).depth > 0
  BY <1>2, <1>4, AtNode DEF Opens
<1>6. c \in Path /\ c # <<>> /\ Front(c) = Front(e)
  BY <1>3, CiphertextPath
<1>7. y = Enter(tree, dir, Last(c))
  <2> DEFINE f == Front(c)
             l == Last(c)
  <2>1. f \in Path /\ l \in FileName /\ c = Append(f, l)
    BY <1>6, FrontLast
  <2>2. f = Front(e)
    BY <1>6
  <2>3. IsTree(tree) /\ Root \in Real(tree) \cup {None}
    BY <1>2, TreeFacts
  <2> HIDE DEF f, l, c
  <2>4. Canonical(tree, Root, Append(f, l)) = Enter(tree, Canonical(tree, Root, f), l)
    BY <2>1, <2>3, CanonicalAppend
  <2> QED BY <2>1, <2>2, <2>4 DEF l
<1> HIDE DEF y, c
<1>8. dir # None /\ At(tree, dir).kind = "dir"
  <2> HIDE DEF dir
  <2> QED BY <1>4, <1>7 DEF Enter
<1>9. dir \in Path /\ Last(e) \in FileName
  <2>1. Front(e) \in Path /\ Last(e) \in FileName
    BY <1>3, FrontLast
  <2>2. IsTree(tree) /\ Root \in Real(tree) \cup {None}
    BY <1>2, TreeFacts
  <2>3. dir \in Real(tree) \cup {None}
    BY <2>1, <2>2, CanonicalReal
  <2> HIDE DEF dir
  <2> QED BY <1>2, <1>8, <2>1, <2>3, TreeFacts DEF Real
<1>10. At(tree, dir) = Dir
  <2> HIDE DEF dir
  <2> QED BY <1>2, <1>8, AtNode
<1>11. PlaceOf(e) = Append(dir, Last(e))
  BY <1>8 DEF PlaceOf
<1>12. PlaceOf(e) \in Path \ {<<>>} /\ Front(PlaceOf(e)) = dir
  <2> HIDE DEF dir
  <2> QED BY <1>9, <1>11, FrontOfAppend
<1>13. Lstat(e) = At(tree, PlaceOf(e))
  BY <1>12, NoneAssumption DEF Lstat
<1>14. At(tree, PlaceOf(e)) # Dir
  BY <1>1, <1>13 DEF Regular, Dir, Absent
<1> HIDE DEF dir
<1> QED BY <1>2, <1>5, <1>10, <1>12, <1>14, AtNode

\* reveal writes files into directories that exist.
LEMMA RevealStep ==
  ASSUME IInv, NEW run \in CommandLines, Reveal(run)
  PROVE  tree' \in [Place -> Node] /\ Changed(tree, tree')
<1> DEFINE scope == Scope(run)
           to(x) == {e \in scope : PlaceOf(e) = x}
           new(x) == Decrypted(Opened(CHOOSE e \in to(x) : TRUE))
<1>1. TypeOK /\ DOMAIN tree = Place /\ tree \in [Place -> Node]
  BY TreeFacts DEF IInv, TypeOK
<1>2. ASSUME NEW e \in scope
      PROVE  \E s \in Spelling : e = Means("reveal", s) /\ e # None /\ Opens(Opened(e))
  BY RunFacts DEF Reveal
<1>3. tree' = [x \in DOMAIN tree |-> IF to(x) = {} THEN tree[x] ELSE new(x)]
  BY DEF Reveal
<1>4. ASSUME NEW x \in Place, to(x) # {}
      PROVE  /\ new(x) \in Node /\ new(x).kind = "file"
             /\ x # <<>> /\ tree[x] # Dir /\ At(tree, Front(x)) = Dir
  <2> DEFINE e == CHOOSE f \in to(x) : TRUE
  <2>1. e \in to(x)
    BY <1>4
  <2>2. e \in scope /\ PlaceOf(e) = x
    BY <2>1
  <2>3. new(x) = Decrypted(Opened(e))
    OBVIOUS
  <2> HIDE DEF e, new
  <2>4. PICK s \in Spelling : e = Means("reveal", s) /\ e # None /\ Opens(Opened(e))
    BY <1>2, <2>2
  <2>5. /\ x \in Path \ {<<>>} /\ At(tree, Front(x)) = Dir /\ At(tree, x) # Dir
        /\ Opened(e) \in Node /\ Opened(e).kind = "file" /\ Opened(e).depth > 0
    BY <2>2, <2>4, RevealMeans
  <2>6. At(tree, x) = tree[x]
    BY <1>1 DEF At
  <2>7. new(x) \in Node /\ new(x).kind = "file"
    BY <2>3, <2>5, FileNode
  <2> QED BY <2>5, <2>6, <2>7
<1> HIDE DEF to, new
<1>5. ASSUME NEW x \in Place
      PROVE  /\ tree'[x] \in Node
             /\ \/ tree'[x] = tree[x]
                \/ /\ tree[x] # Dir /\ x # <<>> /\ At(tree, Front(x)) = Dir
                   /\ tree'[x].kind = "file"
  <2>1. CASE to(x) = {}
    BY <1>1, <1>3, <2>1
  <2>2. CASE to(x) # {}
    BY <1>1, <1>3, <1>4, <2>2
  <2> QED BY <2>1, <2>2
<1>6. tree' = [x \in Place |-> tree'[x]]
  BY <1>1, <1>3
<1> QED BY <1>1, <1>5, <1>6 DEF Changed

\* remove-file deletes no directory, and what is left of the manifest loads.
LEMMA RemoveFileStep ==
  ASSUME IInv, NEW run \in CommandLines, RemoveFile(run)
  PROVE  tree' \in [Place -> Node] /\ Changed(tree, tree') /\ tracked' \subseteq tracked
<1> DEFINE found(i) == Resolve("remove-file", run.names[i])
           refused(i) == \/ found(i) \notin tracked
                         \/ \E j \in 1 .. i - 1 : found(j) = found(i)
                         \/ ~run.keep /\ Lstat(CiphertextOf(found(i))) = Dir
           bad == {i \in DOMAIN run.names : refused(i)}
           done == Before(run.names, bad)
           paths == {found(i) : i \in DOMAIN done}
           gone == {PlaceOf(CiphertextOf(e)) : e \in {f \in paths : Opened(f) # Absent}}
<1>1. TypeOK /\ DOMAIN tree = Place /\ tree \in [Place -> Node] /\ Absent \in Node
  BY TreeFacts DEF IInv, TypeOK, Node
<1>2. \A i \in DOMAIN done : i \in DOMAIN run.names /\ i \notin bad
  <2>1. bad \in SUBSET DOMAIN run.names /\ run.names \in Seq(Spelling)
    BY RunFacts
  <2> HIDE DEF bad
  <2> QED BY <2>1, BeforeFacts
<1>3. ASSUME ~run.keep, NEW e \in paths PROVE Lstat(CiphertextOf(e)) # Dir
  <2>1. PICK i \in DOMAIN done : e = found(i)
    OBVIOUS
  <2>2. ~refused(i)
    BY <1>2
  <2> QED BY <1>3, <2>1, <2>2
<1>4. ASSUME ~run.keep, NEW x \in gone \cap Place PROVE tree[x] # Dir
  <2>1. PICK e \in paths : x = PlaceOf(CiphertextOf(e))
    OBVIOUS
  <2>2. x # None
    BY PlaceAssumption, NoneAssumption
  <2>3. Lstat(CiphertextOf(e)) = tree[x]
    BY <1>1, <2>1, <2>2 DEF Lstat, At
  <2> QED BY <1>3, <1>4, <2>3
<1>5. /\ tree' = IF run.keep THEN tree
                 ELSE [x \in DOMAIN tree |-> IF x \in gone THEN Absent ELSE tree[x]]
      /\ tracked' = IF done = run.names THEN tracked \ paths ELSE tracked
  BY DEF RemoveFile
<1> HIDE DEF gone, paths, done
<1>6. ASSUME NEW x \in Place
      PROVE  /\ tree'[x] \in Node
             /\ tree'[x] = tree[x] \/ (tree[x] # Dir /\ tree'[x] = Absent)
  <2>1. CASE run.keep
    BY <1>1, <1>5, <2>1
  <2>2. CASE ~run.keep
    BY <1>1, <1>4, <1>5, <2>2
  <2> QED BY <2>1, <2>2
<1>7. tree' = [x \in Place |-> tree'[x]]
  BY <1>1, <1>5
<1> QED BY <1>1, <1>5, <1>6, <1>7 DEF Changed
-----------------------------------------------------------------------------
(* .gitignore *)

LEMMA MatchesItself ==
  ASSUME NEW p \in Path, p # <<>>
  PROVE  Matches(p, p)
<1>1. Len(p) \in Nat \ {0} /\ DOMAIN p = 1 .. Len(p)
  BY LenProperties, EmptySeq DEF Path
<1> QED BY <1>1 DEF Matches, ToSet, IsPrefix

\* A line more covers what it is for, and the others still stand.
LEMMA AppendedFacts ==
  ASSUME NEW file \in Ignores, NEW p \in Entry
  PROVE  /\ Appended(file, p) \in Ignores
         /\ LinesOf(file) \subseteq LinesOf(Appended(file, p))
         /\ p \in index \/ Covers(LinesOf(Appended(file, p)), p)
<1>1. CASE Ignored(file, p)
  BY <1>1 DEF Appended, Ignored
<1>2. CASE ~Ignored(file, p)
  <2> DEFINE new == LinesOf(file) \cup {p}
  <2>1. LinesOf(file) \subseteq Entry
    BY DEF LinesOf, Ignores
  <2>2. Appended(file, p) = [lines |-> new, open |-> None]
    BY <1>2 DEF Appended
  <2>3. p \in Path /\ p # <<>>
    BY EntryFacts
  <2>4. Covers(new, p)
    <3> HIDE DEF new
    <3> QED BY <2>3, MatchesItself DEF Covers, new
  <2>5. new \subseteq Entry
    BY <2>1
  <2> HIDE DEF new
  <2>6. LinesOf([lines |-> new, open |-> None]) = new
    BY DEF LinesOf
  <2>7. [lines |-> new, open |-> None] \in Ignores
    BY <2>5 DEF Ignores
  <2>8. LinesOf(file) \subseteq new
    BY DEF new
  <2> QED BY <2>2, <2>4, <2>6, <2>7, <2>8
<1> QED BY <1>1, <1>2

\* The recursive function of AllAppended satisfies its equation.
LEMMA AppendedSteps ==
  ASSUME NEW file \in Ignores, NEW paths \in Seq(Entry)
  PROVE  \E after \in [0 .. Len(paths) -> Ignores] :
           /\ after[0] = file
           /\ \A i \in 1 .. Len(paths) : after[i] = Appended(after[i - 1], paths[i])
           /\ AllAppended(file, paths) = after[Len(paths)]
<1> DEFINE n == Len(paths)
           step == [i \in 1 .. n |-> [g \in Ignores |-> Appended(g, paths[i])]]
           After(a) == [i \in 0 .. n |-> IF i = 0 THEN file ELSE Appended(a[i - 1], paths[i])]
           w == CHOOSE a : a = After(a)
<1>1. n \in Nat /\ \A i \in 1 .. n : paths[i] \in Entry
  BY LenProperties, ElementOfSeq
<1>2. step \in [1 .. n -> [Ignores -> Ignores]]
  <2> HIDE DEF n
  <2> QED BY <1>1, AppendedFacts
<1>3. PICK f \in [0 .. n -> Ignores] : f[0] = file /\ \A i \in 1 .. n : f[i] = step[i][f[i - 1]]
  <2> DEFINE V == Ignores
  <2>1. n \in Nat /\ file \in V /\ step \in [1 .. n -> [V -> V]]
    BY <1>1, <1>2
  <2> HIDE DEF n, step, V, After, w
  <2>2. \E f \in [0 .. n -> V] : f[0] = file /\ \A i \in 1 .. n : f[i] = step[i][f[i - 1]]
    BY <2>1, Iteration
  <2> QED BY <2>2 DEF V
<1>4. ASSUME NEW i \in 1 .. n PROVE f[i] = Appended(f[i - 1], paths[i])
  <2>1. f[i - 1] \in Ignores
    <3> HIDE DEF n
    <3> QED BY <1>1
  <2>2. step[i] = [g \in Ignores |-> Appended(g, paths[i])]
    OBVIOUS
  <2>3. step[i][f[i - 1]] = Appended(f[i - 1], paths[i])
    <3> HIDE DEF n, step
    <3> QED BY <2>1, <2>2
  <2> HIDE DEF step
  <2> QED BY <1>3, <2>3
<1>5. f = After(f)
  <2> HIDE DEF n
  <2> QED BY <1>1, <1>3, <1>4
<1>6. w = After(w)
  <2> HIDE DEF After
  <2> QED BY <1>5
<1>7. w[0] = file /\ \A i \in 1 .. n : w[i] = Appended(w[i - 1], paths[i])
  <2> HIDE DEF w, n
  <2> QED BY <1>6, <1>1
<1> DEFINE T == {i \in Nat : i <= n => w[i] = f[i]}
<1>8. 0 \in T
  BY <1>3, <1>7
<1>9. ASSUME NEW i \in Nat, i \in T PROVE i + 1 \in T
  <2> HIDE DEF w, n
  <2> SUFFICES ASSUME i + 1 <= n PROVE w[i + 1] = f[i + 1]
    OBVIOUS
  <2>1. w[i] = f[i] /\ i + 1 \in 1 .. n /\ (i + 1) - 1 = i
    BY <1>1, <1>9
  <2> QED BY <2>1, <1>4, <1>7
<1>10. Nat \subseteq T
  <2> HIDE DEF T
  <2> QED BY <1>8, <1>9, NumberInduction
<1>11. w[n] = f[n]
  <2> HIDE DEF w, n
  <2> QED BY <1>1, <1>10
<1>12. AllAppended(file, paths) = w[n]
  BY DEF AllAppended
<1> HIDE DEF w
<1> QED BY <1>3, <1>4, <1>11, <1>12

\* Every path gets its line, and no line is lost, however many paths there are.
LEMMA AllAppendedFacts ==
  ASSUME NEW file \in Ignores, NEW paths \in Seq(Entry)
  PROVE  LET new == AllAppended(file, paths)
         IN  /\ new \in Ignores
             /\ LinesOf(file) \subseteq LinesOf(new)
             /\ \A i \in DOMAIN paths : paths[i] \in index \/ Covers(LinesOf(new), paths[i])
<1> DEFINE n == Len(paths)
<1>1. n \in Nat /\ DOMAIN paths = 1 .. n /\ \A i \in 1 .. n : paths[i] \in Entry
  BY LenProperties, ElementOfSeq
<1>2. PICK f \in [0 .. n -> Ignores] :
        /\ f[0] = file
        /\ \A i \in 1 .. n : f[i] = Appended(f[i - 1], paths[i])
        /\ AllAppended(file, paths) = f[n]
  BY AppendedSteps
<1> DEFINE Good(j) == /\ LinesOf(file) \subseteq LinesOf(f[j])
                      /\ \A i \in 1 .. j : paths[i] \in index \/ Covers(LinesOf(f[j]), paths[i])
           T == {j \in Nat : j <= n => Good(j)}
<1> HIDE DEF n
<1>3. 0 \in T
  BY <1>2
<1>4. ASSUME NEW j \in Nat, j \in T PROVE j + 1 \in T
  <2> SUFFICES ASSUME j + 1 <= n PROVE Good(j + 1)
    OBVIOUS
  <2>1. j + 1 \in 1 .. n /\ j \in 0 .. n /\ (j + 1) - 1 = j /\ Good(j)
    BY <1>1, <1>4
  <2>2. f[j] \in Ignores /\ paths[j + 1] \in Entry /\ f[j + 1] = Appended(f[j], paths[j + 1])
    BY <1>1, <1>2, <2>1
  <2>3. /\ LinesOf(f[j]) \subseteq LinesOf(f[j + 1])
        /\ paths[j + 1] \in index \/ Covers(LinesOf(f[j + 1]), paths[j + 1])
    BY <2>2, AppendedFacts
  <2>4. \A p : Covers(LinesOf(f[j]), p) => Covers(LinesOf(f[j + 1]), p)
    BY <2>3 DEF Covers
  <2>5. \A i \in 1 .. j + 1 : i \in 1 .. j \/ i = j + 1
    OBVIOUS
  <2> QED BY <2>1, <2>3, <2>4, <2>5
<1>5. Nat \subseteq T
  <2> HIDE DEF T
  <2> QED BY <1>3, <1>4, NumberInduction
<1>6. Good(n)
  BY <1>1, <1>5
<1>7. f[n] \in Ignores
  BY <1>1, <1>2
<1> QED BY <1>1, <1>2, <1>6, <1>7

\* What add-file stores are entries that load, and git ignores them.
LEMMA AddFileStep ==
  ASSUME IInv, NEW run \in CommandLines, AddFile(run)
  PROVE  /\ ignore' \in Ignores /\ consent' \subseteq Entry /\ tracked' \subseteq Entry
         /\ \A e \in tracked' : Valid(e)
         /\ \A e \in tracked' \ tracked : e \in index \/ Ignored(ignore', e)
         /\ \A e \in Entry : Ignored(ignore, e) => Ignored(ignore', e)
<1> DEFINE found(s) == Resolve("add-file", s)
           bad == {i \in DOMAIN run.names : found(run.names[i]) = None}
           done == Before(run.names, bad)
           paths == [i \in DOMAIN done |-> found(done[i])]
<1>1. TypeOK /\ tree[Root] = Dir /\ ignore \in Ignores /\ Loads
  BY DEF IInv, TypeOK
<1>2. /\ done \in Seq(Spelling) /\ DOMAIN done \subseteq DOMAIN run.names
      /\ \A i \in DOMAIN done : done[i] = run.names[i] /\ i \notin bad
  <2>1. bad \in SUBSET DOMAIN run.names /\ run.names \in Seq(Spelling)
    BY RunFacts
  <2> HIDE DEF bad
  <2> QED BY <2>1, BeforeFacts
<1>3. DOMAIN done = 1 .. Len(done) /\ Len(done) \in Nat /\ \A i \in DOMAIN done : done[i] \in Spelling
  <2> HIDE DEF done
  <2> QED BY <1>2, LenProperties, ElementOfSeq
<1>4. ASSUME NEW i \in DOMAIN done PROVE paths[i] \in Entry /\ Valid(paths[i])
  <2> DEFINE s == done[i]
  <2>1. s \in Spelling /\ found(s) # None /\ paths[i] = found(s)
    BY <1>2, <1>3
  <2> HIDE DEF s, done, bad
  <2>2. found(s) = Canonicalised(s) /\ Valid(found(s)) /\ found(s) \notin {None, <<>>}
    BY <2>1, ResolveFacts
  <2> QED BY <1>1, <2>1, <2>2, CanonicalisedEntry
<1>5. /\ ignore' = AllAppended(ignore, paths)
      /\ consent' = consent \cup ToSet(paths)
      /\ tracked' = IF done = run.names THEN tracked \cup ToSet(paths) ELSE tracked
  BY DEF AddFile
<1>6. DOMAIN paths = DOMAIN done
  OBVIOUS
<1>7. paths \in Seq(Entry)
  <2>1. paths \in [1 .. Len(done) -> Entry]
    <3>1. paths = [i \in 1 .. Len(done) |-> paths[i]]
      BY <1>3
    <3> HIDE DEF paths, done
    <3> QED BY <1>3, <1>4, <3>1
  <2> HIDE DEF paths, done
  <2> QED BY <1>3, <2>1, SeqDef
<1> HIDE DEF paths, done, bad
<1>8. ToSet(paths) \subseteq Entry /\ \A e \in ToSet(paths) : Valid(e)
  BY <1>4, <1>6 DEF ToSet
<1>9. /\ ignore' \in Ignores
      /\ LinesOf(ignore) \subseteq LinesOf(ignore')
      /\ \A i \in DOMAIN paths : paths[i] \in index \/ Covers(LinesOf(ignore'), paths[i])
  BY <1>1, <1>5, <1>7, AllAppendedFacts
<1>10. ASSUME NEW e \in tracked' \ tracked PROVE e \in index \/ Ignored(ignore', e)
  <2>1. PICK i \in DOMAIN paths : e = paths[i]
    BY <1>5 DEF ToSet
  <2> QED BY <1>9, <2>1 DEF Ignored
<1>11. ASSUME NEW e \in Entry, Ignored(ignore, e) PROVE Ignored(ignore', e)
  BY <1>9, <1>11 DEF Ignored, Covers
<1>12. consent' \subseteq Entry /\ tracked' \subseteq Entry /\ \A e \in tracked' : Valid(e)
  BY <1>1, <1>5, <1>8 DEF TypeOK, Loads
<1> QED BY <1>9, <1>10, <1>11, <1>12
-----------------------------------------------------------------------------
(* the inductive invariant *)

LEMMA EditStep ==
  ASSUME IInv, NEW x \in Editable, Edit(x)
  PROVE  tree' \in [Place -> Node] /\ Changed(tree, tree') /\ edits' \in 0 .. MaxEdits
<1>1. x \in Place /\ x # <<>> /\ Front(x) \in Place
  BY EditableAssumption, PlaceAssumption
<1>2. tree \in [Place -> Node] /\ edits \in 0 .. MaxEdits
  BY DEF IInv, TypeOK
<1>3. PICK c \in Text : tree' = [tree EXCEPT ![x] = [kind |-> "file", text |-> c, depth |-> 0]]
  BY DEF Edit
<1>4. [kind |-> "file", text |-> c, depth |-> 0] \in Node
  BY BoundsAssumption DEF Node
<1>5. tree[Front(x)] = Dir /\ tree[x] # Dir
  BY DEF Edit, Dir, Absent
<1>6. edits' \in 0 .. MaxEdits
  BY <1>2, BoundsAssumption DEF Edit
<1> QED BY <1>1, <1>2, <1>3, <1>4, <1>5, <1>6 DEF Changed, At

\* A link is the one step that adds a link; the tree stays well formed.
LEMMA LinkStep ==
  ASSUME IInv, NEW link \in Links, Link(link[1], link[2])
  PROVE  /\ tree' \in [Place -> Node] /\ WellFormed(tree') /\ tree'[Root] = Dir
         /\ LinksApart' /\ edits' \in 0 .. MaxEdits
<1> DEFINE x == link[1]
           target == link[2]
           node == [kind |-> "link", to |-> target]
<1>1. /\ x \in Place \ {<<>>} /\ target \in Place /\ \A other \in Links : other[1] # target
      /\ \A other \in Links : other[2] \in Place /\ other[2] # x
  BY LinksAssumption
<1>2. /\ tree \in [Place -> Node] /\ WellFormed(tree) /\ tree[Root] = Dir
      /\ edits \in 0 .. MaxEdits /\ LinksApart
  BY DEF IInv, TypeOK
<1>3. /\ tree[Front(x)] = Dir /\ tree[x] # Dir /\ tree' = [tree EXCEPT ![x] = node]
      /\ edits < MaxEdits /\ edits' = edits + 1
  BY DEF Link
<1>4. {<<>>, Root} \subseteq Place /\ Front(x) \in Place
  BY <1>1, PlaceAssumption
<1>5. node \in Node
  BY <1>1 DEF Node
<1>6. \A y \in Place : tree'[y] = IF y = x THEN node ELSE tree[y]
  BY <1>2, <1>3
<1>7. tree' \in [Place -> Node] /\ DOMAIN tree' = Place
  BY <1>2, <1>3, <1>5
<1>8. node.kind = "link" /\ node.to = target
  OBVIOUS
<1> HIDE DEF x, target, node
<1>9. \A y : At(tree, y) = Dir => At(tree', y) = Dir
  BY <1>2, <1>3, <1>6, <1>7 DEF At, Dir, Absent
<1>10. WellFormed(tree')
  <2>1. tree'[<<>>] = Dir /\ tree'[Root] = Dir
    BY <1>2, <1>3, <1>4, <1>6 DEF WellFormed
  <2>2. ASSUME NEW y \in Place \ {<<>>}, tree'[y] # Absent PROVE At(tree', Front(y)) = Dir
    <3>1. CASE y = x
      BY <1>2, <1>3, <1>4, <1>9, <3>1 DEF At
    <3>2. CASE y # x
      BY <1>2, <1>6, <1>9, <2>2, <3>2 DEF WellFormed
    <3> QED BY <3>1, <3>2
  <2>3. ASSUME NEW y \in Place, tree'[y].kind = "link" PROVE At(tree', tree'[y].to).kind # "link"
    <3>1. CASE y = x
      <4>1. tree'[y].to = target /\ tree'[target] = tree[target] /\ tree[target].kind # "link"
        BY <1>1, <1>2, <1>6, <1>8, <3>1 DEF LinksApart, x, target
      <4> QED BY <1>1, <1>7, <4>1 DEF At
    <3>2. CASE y # x
      <4>1. tree'[y] = tree[y] /\ tree[y].to # x /\ At(tree, tree[y].to).kind # "link"
        BY <1>2, <1>6, <2>3, <3>2 DEF LinksApart, WellFormed, x
      <4> DEFINE z == tree[y].to
      <4> HIDE DEF z
      <4>2. z # x => At(tree', z) = At(tree, z)
        BY <1>2, <1>6, <1>7 DEF At
      <4> QED BY <4>1, <4>2 DEF z
    <3> QED BY <3>1, <3>2
  <2> QED BY <1>7, <2>1, <2>2, <2>3 DEF WellFormed
<1>11. tree'[Root] = Dir
  BY <1>2, <1>3, <1>4, <1>6
<1>12. LinksApart'
  <2>1. SUFFICES ASSUME NEW other \in Links
                 PROVE  /\ tree'[other[2]].kind # "link"
                        /\ \A y \in Place : tree'[y].kind = "link" => tree'[y].to # other[1]
    BY DEF LinksApart
  <2>2. tree'[other[2]].kind # "link"
    BY <1>1, <1>2, <1>6 DEF LinksApart
  <2>3. ASSUME NEW y \in Place, tree'[y].kind = "link" PROVE tree'[y].to # other[1]
    <3>1. CASE y = x
      BY <1>1, <1>6, <1>8, <3>1
    <3>2. CASE y # x
      BY <1>2, <1>6, <2>3, <3>2 DEF LinksApart
    <3> QED BY <3>1, <3>2
  <2> QED BY <2>2, <2>3
<1>13. edits' \in 0 .. MaxEdits
  BY <1>2, <1>3, BoundsAssumption
<1> QED BY <1>7, <1>10, <1>11, <1>12, <1>13

LEMMA InitInv == Init => IInv
<1> SUFFICES ASSUME Init PROVE IInv
  OBVIOUS
<1>1. tree \in [Place -> Node] /\ WellFormed(tree) /\ tree[Root] = Dir /\ ignore \in Ignores
  BY FirstAssumption DEF Init
<1>2. LinksApart
  BY LinksAssumption DEF Init, LinksApart
<1>3. Loads /\ edits \in 0 .. MaxEdits
  BY BoundsAssumption DEF Init, Loads
<1> QED BY <1>1, <1>2, <1>3 DEF Init, IInv, TypeOK

\* Every step preserves the inductive invariant.
LEMMA NextInv == IInv /\ [Next]_vars => IInv'
<1> SUFFICES ASSUME IInv, [Next]_vars PROVE IInv'
  OBVIOUS
<1>1. TypeOK /\ tree[Root] = Dir /\ LinksApart /\ Loads
  BY DEF IInv
<1>2. ASSUME UNCHANGED tree
      PROVE  tree' \in [Place -> Node] /\ WellFormed(tree') /\ tree'[Root] = Dir /\ LinksApart'
  BY <1>1, <1>2 DEF TypeOK, LinksApart
<1>3. ASSUME tree' \in [Place -> Node], Changed(tree, tree')
      PROVE  tree' \in [Place -> Node] /\ WellFormed(tree') /\ tree'[Root] = Dir /\ LinksApart'
  BY <1>3, ChangedInv
<1>4. CASE \E run \in CommandLines : AddFile(run)
  <2>1. PICK run \in CommandLines : AddFile(run)
    BY <1>4
  <2>2. ignore' \in Ignores /\ consent' \subseteq Entry /\ tracked' \subseteq Entry
        /\ \A e \in tracked' : Valid(e)
    BY <2>1, AddFileStep
  <2>3. UNCHANGED <<tree, index, edits>>
    BY <2>1 DEF AddFile
  <2>4. tree' \in [Place -> Node] /\ WellFormed(tree') /\ tree'[Root] = Dir /\ LinksApart'
    BY <1>2, <2>3
  <2> QED BY <1>1, <2>2, <2>3, <2>4 DEF IInv, TypeOK, Loads
<1>5. CASE \E run \in CommandLines : RemoveFile(run)
  <2>1. PICK run \in CommandLines : RemoveFile(run)
    BY <1>5
  <2>2. tree' \in [Place -> Node] /\ Changed(tree, tree') /\ tracked' \subseteq tracked
    BY <2>1, RemoveFileStep
  <2>3. UNCHANGED <<consent, ignore, index, edits>>
    BY <2>1 DEF RemoveFile
  <2> QED BY <1>1, <1>3, <2>2, <2>3 DEF IInv, TypeOK, Loads
<1>6. CASE \E run \in CommandLines : Hide(run)
  <2>1. PICK run \in CommandLines : Hide(run)
    BY <1>6
  <2>2. tree' \in [Place -> Node] /\ Changed(tree, tree')
    BY <2>1, HideStep
  <2>3. UNCHANGED <<tracked, consent, ignore, index, edits>>
    BY <2>1 DEF Hide
  <2> QED BY <1>1, <1>3, <2>2, <2>3 DEF IInv, TypeOK, Loads
<1>7. CASE \E run \in CommandLines : Reveal(run)
  <2>1. PICK run \in CommandLines : Reveal(run)
    BY <1>7
  <2>2. tree' \in [Place -> Node] /\ Changed(tree, tree')
    BY <2>1, RevealStep
  <2>3. UNCHANGED <<tracked, consent, ignore, index, edits>>
    BY <2>1 DEF Reveal
  <2> QED BY <1>1, <1>3, <2>2, <2>3 DEF IInv, TypeOK, Loads
<1>8. CASE \E x \in Editable : Edit(x)
  <2>1. PICK x \in Editable : Edit(x)
    BY <1>8
  <2>2. tree' \in [Place -> Node] /\ Changed(tree, tree') /\ edits' \in 0 .. MaxEdits
    BY <2>1, EditStep
  <2>3. UNCHANGED <<tracked, consent, ignore, index>>
    BY <2>1 DEF Edit
  <2> QED BY <1>1, <1>3, <2>2, <2>3 DEF IInv, TypeOK, Loads
<1>9. CASE \E link \in Links : Link(link[1], link[2])
  <2>1. PICK link \in Links : Link(link[1], link[2])
    BY <1>9
  <2>2. /\ tree' \in [Place -> Node] /\ WellFormed(tree') /\ tree'[Root] = Dir
        /\ LinksApart' /\ edits' \in 0 .. MaxEdits
    BY <2>1, LinkStep
  <2>3. UNCHANGED <<tracked, consent, ignore, index>>
    BY <2>1 DEF Link
  <2> QED BY <1>1, <2>2, <2>3 DEF IInv, TypeOK, Loads
<1>10. CASE GitAdd
  <2>1. index' \subseteq Entry /\ UNCHANGED <<tree, tracked, consent, ignore, edits>>
    BY <1>10 DEF GitAdd
  <2> QED BY <1>1, <1>2, <2>1 DEF IInv, TypeOK, Loads
<1>11. CASE UNCHANGED vars
  BY <1>1, <1>2, <1>11 DEF IInv, TypeOK, Loads, vars
<1> QED BY <1>4, <1>5, <1>6, <1>7, <1>8, <1>9, <1>10, <1>11 DEF Next

LEMMA Invariance == Spec => []IInv
BY InitInv, NextInv, PTL DEF Spec
-----------------------------------------------------------------------------
(* hide *)

\* No tracked file lies where the ciphertext of another one goes.
Unnested == \A e \in tracked : CiphertextOf(e) \notin tracked

\* What hide wrote for an entry decrypts to what was there.
LEMMA HideWrites ==
  ASSUME IInv, IInv', Unnested, NEW run \in CommandLines, Hide(run), NEW e \in Scope(run)
  PROVE  Cat(e)' = Lstat(e)
<1> DEFINE scope == Scope(run)
           plain == {PlaceOf(f) : f \in scope}
           from(x) == {f \in scope : PlaceOf(CiphertextOf(f)) = x}
           gone(x) == x \in plain /\ ~run.keep
           new(x) == Encrypted(Lstat(CHOOSE f \in from(x) : TRUE))
           c == CiphertextOf(e)
           y == Root \o c
<1>1. Root \in Path /\ DOMAIN tree = Place /\ TypeOK /\ tree[Root] = Dir
  BY TreeFacts DEF IInv
<1>2. ASSUME NEW f \in scope
      PROVE  /\ f \in Path /\ f # <<>> /\ f \in tracked
             /\ PlaceOf(f) = Root \o f /\ PlaceOf(CiphertextOf(f)) = Root \o CiphertextOf(f)
             /\ Lstat(f) \in Node /\ Lstat(f).kind = "file" /\ Lstat(f).depth < MaxDepth
             /\ CiphertextOf(f) \in Path /\ CiphertextOf(f) # <<>>
             /\ PlaceOf(CiphertextOf(f)) \in Place
  <2>1. PICK s \in Spelling : f = Means("hide", s) /\ f # None
    BY RunFacts DEF Hide
  <2>2. /\ f \in Entry /\ f \in tracked
        /\ PlaceOf(f) = Root \o f /\ Root \o f \in Real(tree)
        /\ Lstat(f) = tree[Root \o f] /\ tree[Root \o f].kind = "file"
        /\ PlaceOf(CiphertextOf(f)) = Root \o CiphertextOf(f)
        /\ CiphertextOf(f) \in Path /\ CiphertextOf(f) # <<>>
    BY <2>1, HideMeans
  <2>3. PlaceOf(CiphertextOf(f)) \in DOMAIN tree /\ Lstat(f).depth < MaxDepth
    BY DEF Hide
  <2>4. f \in Path /\ f # <<>>
    BY <2>2, EntryFacts
  <2>5. tree[Root \o f] \in Node
    BY <1>1, <2>2 DEF Real, TypeOK
  <2> QED BY <1>1, <2>2, <2>3, <2>4, <2>5
<1>3. PlaceOf(c) = y /\ y \in Place
  BY <1>2
\* The prefix Root cancels.
<1>4. ASSUME NEW p \in Path, NEW q \in Path, Root \o p = Root \o q PROVE p = q
  BY <1>1, <1>4, ConcatSimplifications DEF Path
<1>5. ~gone(y)
  <2>1. SUFFICES ASSUME NEW f \in scope, PlaceOf(f) = y PROVE FALSE
    OBVIOUS
  <2>2. f = c
    BY <1>2, <1>4, <2>1
  <2> QED BY <1>2, <2>2 DEF Unnested
<1>6. from(y) = {e}
  <2>1. ASSUME NEW f \in from(y) PROVE f = e
    <3>1. CiphertextOf(f) = CiphertextOf(e)
      BY <1>2, <1>4, <2>1
    <3> QED BY <1>2, <2>1, <3>1, CiphertextInjective
  <2>2. e \in from(y)
    BY <1>3
  <2> QED BY <2>1, <2>2
<1>7. new(y) = Encrypted(Lstat(e))
  <2> HIDE DEF from
  <2> QED BY <1>6
<1>8. tree' = [x \in DOMAIN tree |-> CASE gone(x) -> Absent
                                       [] from(x) # {} /\ ~gone(x) -> new(x)
                                       [] OTHER -> tree[x]]
  BY DEF Hide
<1> DEFINE n == Lstat(e)
<1>9. n \in Node /\ n.kind = "file" /\ n.depth < MaxDepth
  BY <1>2
<1>10. tree'[y] = Encrypted(n)
  <2> HIDE DEF gone, from, new, y, n
  <2>1. from(y) # {} /\ ~gone(y)
    BY <1>5, <1>6
  <2>2. tree'[y] = new(y)
    BY <1>1, <1>3, <1>8, <2>1
  <2> QED BY <1>7, <2>2 DEF n
<1>11. /\ Encrypted(n).kind = "file" /\ Encrypted(n) \in Node
       /\ Encrypted(n).depth > 0 /\ Decrypted(Encrypted(n)) = n
  <2> HIDE DEF n
  <2>1. n.depth \in Nat
    BY <1>9, FileNode, BoundsAssumption
  <2> QED BY <1>9, <2>1, FileNode
<1>12. IsTree(tree') /\ DOMAIN tree' = Place /\ Root \in Real(tree')
  <2>1. (IsTree(tree) /\ DOMAIN tree = Place /\ Root \in Real(tree))'
    BY TreeFacts, PTL DEF IInv
  <2> QED BY <2>1
<1>13. Canonical(tree', Root, c) = y
  <2>1. y \in Real(tree')
    BY <1>3, <1>10, <1>11, <1>12 DEF Real, Absent
  <2>2. c \in Path
    BY <1>2
  <2> HIDE DEF c
  <2> QED BY <1>12, <2>1, <2>2, CanonicalBelow
<1>14. y # None
  BY <1>3, PlaceAssumption, NoneAssumption
<1>15. Opened(e)' = Encrypted(n)
  <2> HIDE DEF y, n
  <2> QED BY <1>3, <1>10, <1>12, <1>13, <1>14 DEF Opened, At, c
<1>16. Cat(e)' = IF Opens(Opened(e)') THEN Decrypted(Opened(e)') ELSE None
  BY DEF Cat
<1> HIDE DEF n
<1>17. Cat(e)' = n
  BY <1>11, <1>15, <1>16 DEF Opens
<1> QED BY <1>17 DEF n
-----------------------------------------------------------------------------
(* the theorems *)

\* Every behaviour of the commands on paths is well-typed: the tree stays a
\* tree, and the manifest, the consent and the index hold entries.
THEOREM WorktreeTypeCorrect == Spec => []TypeOK
<1>1. IInv => TypeOK
  BY DEF IInv
<1> QED BY <1>1, Invariance, PTL

\* add-file stores nothing that makes a later command refuse tracked.json,
\* in whatever spelling, through whatever link it was added
\* (tracked_files.rs, resolve_repo_relative_input and TrackedFiles::load).
THEOREM ManifestLoads == Spec => []OwnManifestLoads
<1>1. IInv => OwnManifestLoads
  BY DEF IInv, OwnManifestLoads
<1> QED BY <1>1, Invariance, PTL

\* Those of hide, reveal, cat and changes that accept a spelling work on the
\* same file, although some canonicalise it and some take it as it stands.
THEOREM NamesAgree == Spec => []SameFile
BY Invariance, SameFileInv, PTL

\* After add-file git ignores what it added or knew it before, and nothing has
\* lost its line (add_file.rs, ensure_gitignored).
THEOREM IgnoreCorrect == Spec => AddedIsIgnored
<1>1. IInv /\ [Next]_vars =>
        [\A run \in CommandLines : AddFile(run) =>
           /\ \A e \in tracked' \ tracked : e \in index \/ Ignored(ignore', e)
           /\ \A e \in Entry : Ignored(ignore, e) => Ignored(ignore', e)]_vars
  BY AddFileStep
<1> QED BY <1>1, Invariance, PTL DEF Spec, AddedIsIgnored

\* While no tracked file bears the name of another one's ciphertext, after a
\* hide cat prints for each named file what was in it (hide.rs, cmd_hide).
THEOREM HideKeeps == Spec /\ []Unnested => NeverNeither
<1>1. IInv /\ IInv' /\ Unnested /\ [Next]_vars =>
        [\A run \in CommandLines : Hide(run) => \A e \in Scope(run) : Cat(e)' = Lstat(e)]_vars
  BY HideWrites
<1> QED BY <1>1, Invariance, NextInv, PTL DEF Spec, NeverNeither
=============================================================================
