----------------------------- MODULE PathProofs -----------------------------
(***************************************************************************)
(* What the walk of canonicalize returns, for every tree and every path.   *)
(*                                                                         *)
(* The operators of Paths are recursive functions.  Induction is over sets *)
(* of numbers and of sequences: the elements for which a statement holds.  *)
(***************************************************************************)
EXTENDS Paths, SequenceTheorems, WellFoundedInduction, TLAPS

\* Induction over the numbers, for a set in place of a predicate.
LEMMA NumberInduction ==
  ASSUME NEW T, 0 \in T, \A n \in Nat : n \in T => n + 1 \in T
  PROVE  Nat \subseteq T
<1> DEFINE U == Nat \ T
           R == OpToRel(<, Nat)
<1>1. SUFFICES ASSUME U # {} PROVE FALSE
  OBVIOUS
<1>2. IsWellFoundedOn(R, Nat)
  BY NatLessThanWellFounded
<1>3. PICK x \in U : \A y \in U : ~(<<y, x>> \in R)
  <2> HIDE DEF R
  <2> QED BY <1>1, <1>2, WFMin
<1>4. \A y \in Nat : <<y, x>> \in R <=> y < x
  BY DEF OpToRel
<1>5. x # 0 /\ x - 1 \in Nat /\ x - 1 < x
  OBVIOUS
<1>6. x - 1 \in T
  BY <1>3, <1>4, <1>5
<1> QED BY <1>5, <1>6

\* A set of numbers that is not empty has a least element.
LEMMA LeastNumber ==
  ASSUME NEW T \in SUBSET Nat, T # {}
  PROVE  \E n \in T : \A m \in T : n <= m
<1> DEFINE U == {n \in Nat : \A m \in T : n <= m}
<1>1. SUFFICES ASSUME \A n \in T : n \notin U PROVE FALSE
  OBVIOUS
<1>2. 0 \in U
  OBVIOUS
<1>3. \A n \in Nat : n \in U => n + 1 \in U
  BY <1>1
<1>4. Nat \subseteq U
  <2> HIDE DEF U
  <2> QED BY <1>2, <1>3, NumberInduction
<1> QED BY <1>1, <1>4

\* Induction over the sequences, by appending.
LEMMA SequenceInduction ==
  ASSUME NEW S, NEW T, <<>> \in T,
         \A s \in Seq(S), e \in S : s \in T => Append(s, e) \in T
  PROVE  Seq(S) \subseteq T
<1> DEFINE U == {n \in Nat : \A s \in Seq(S) : Len(s) = n => s \in T}
<1>1. 0 \in U
  BY EmptySeq
<1>2. ASSUME NEW n \in Nat, n \in U PROVE n + 1 \in U
  <2>1. SUFFICES ASSUME NEW s \in Seq(S), Len(s) = n + 1 PROVE s \in T
    OBVIOUS
  <2>2. s # <<>>
    BY <2>1, EmptySeq
  <2>3. PICK r \in Seq(S), e \in S : s = Append(r, e)
    BY <2>2, SequenceEmptyOrAppend
  <2>4. Len(r) = n
    BY <2>1, <2>3, AppendProperties, LenProperties
  <2> QED BY <1>2, <2>3, <2>4
<1>3. Nat \subseteq U
  <2> HIDE DEF U
  <2> QED BY <1>1, <1>2, NumberInduction
<1> QED BY <1>3, LenProperties

\* A value that is stepped on n times: the recursive functions of Paths and
\* Worktree exist and stay in the set that the step stays in.
LEMMA Iteration ==
  ASSUME NEW V, NEW v \in V, NEW n \in Nat, NEW step \in [1 .. n -> [V -> V]]
  PROVE  \E f \in [0 .. n -> V] :
           f[0] = v /\ \A i \in 1 .. n : f[i] = step[i][f[i - 1]]
<1> DEFINE Good(k, f) == f[0] = v /\ \A i \in 1 .. k : f[i] = step[i][f[i - 1]]
           T == {k \in Nat : k <= n => \E f \in [0 .. k -> V] : Good(k, f)}
<1>1. 0 \in T
  <2>1. [i \in 0 .. 0 |-> v] \in [0 .. 0 -> V] /\ Good(0, [i \in 0 .. 0 |-> v])
    OBVIOUS
  <2> QED BY <2>1
<1>2. ASSUME NEW k \in Nat, k \in T PROVE k + 1 \in T
  <2>1. SUFFICES ASSUME k + 1 <= n
                 PROVE  \E f \in [0 .. k + 1 -> V] : Good(k + 1, f)
    OBVIOUS
  <2>2. PICK f \in [0 .. k -> V] : Good(k, f)
    BY <1>2, <2>1
  <2> DEFINE g == [i \in 0 .. k + 1 |-> IF i = k + 1 THEN step[k + 1][f[k]] ELSE f[i]]
  <2>3. f[k] \in V /\ k + 1 \in 1 .. n
    BY <2>1
  <2>4. step[k + 1][f[k]] \in V
    BY <2>3
  <2>5. g \in [0 .. k + 1 -> V]
    BY <2>4
  <2>6. g[0] = v
    BY <2>2
  <2>7. ASSUME NEW i \in 1 .. k + 1 PROVE g[i] = step[i][g[i - 1]]
    <3>1. CASE i = k + 1
      BY <3>1
    <3>2. CASE i # k + 1
      BY <3>2, <2>2
    <3> QED BY <3>1, <3>2
  <2> QED BY <2>5, <2>6, <2>7
<1>3. Nat \subseteq T
  <2> HIDE DEF T
  <2> QED BY <1>1, <1>2, NumberInduction
<1> QED BY <1>3
-----------------------------------------------------------------------------
(* the walk of canonicalize *)

\* Places that exist and are no links: what canonicalize returns.
Real(t) == {x \in DOMAIN t : t[x] # Absent /\ t[x].kind # "link"}

\* A tree whose places are canonical paths.
IsTree(t) ==
  /\ <<>> \in DOMAIN t /\ DOMAIN t \subseteq Path
  /\ \A x \in DOMAIN t : \A i \in DOMAIN x : x[i] \notin {Dot, DotDot}
  /\ WellFormed(t)

LEMMA EnterReal ==
  ASSUME NEW t, IsTree(t), NEW at \in Real(t) \cup {None}, NEW c
  PROVE  Enter(t, at, c) \in Real(t) \cup {None}
<1> DEFINE next == CASE c = Dot -> at
                     [] c = DotDot -> IF at = <<>> THEN at ELSE Front(at)
                     [] OTHER -> Append(at, c)
           there == IF At(t, next).kind = "link" THEN At(t, next).to ELSE next
<1>1. Enter(t, at, c) = IF at = None \/ At(t, at).kind # "dir" \/ At(t, there) = Absent
                        THEN None ELSE there
  BY DEF Enter
<1>2. At(t, there) # Absent => there \in DOMAIN t /\ At(t, there) = t[there]
  BY DEF At
<1>3. At(t, there) # Absent => At(t, there).kind # "link"
  <2> HIDE DEF next
  <2>1. CASE At(t, next).kind = "link"
    BY <2>1 DEF IsTree, WellFormed, At, Absent
  <2>2. CASE At(t, next).kind # "link"
    BY <2>2
  <2> QED BY <2>1, <2>2
<1> HIDE DEF there
<1> QED BY <1>1, <1>2, <1>3 DEF Real

\* "." stays where it is.
LEMMA EnterDot ==
  ASSUME NEW t, NEW at, At(t, at).kind # "link"
  PROVE  Enter(t, at, Dot) \in {None, at}
<1> DEFINE next == CASE Dot = Dot -> at
                     [] Dot = DotDot -> IF at = <<>> THEN at ELSE Front(at)
                     [] OTHER -> Append(at, Dot)
           there == IF At(t, next).kind = "link" THEN At(t, next).to ELSE next
<1>1. Enter(t, at, Dot) \in {None, there}
  BY DEF Enter
<1>2. Dot # DotDot
  BY DEF Dot, DotDot
<1>3. next = at
  BY <1>2
<1> HIDE DEF next
<1> QED BY <1>1, <1>3

\* The walk exists, and each step of it is an Enter.
LEMMA CanonicalWalk ==
  ASSUME NEW t, IsTree(t), NEW from \in Real(t) \cup {None}, NEW path \in Path
  PROVE  \E at \in [0 .. Len(path) -> Real(t) \cup {None}] :
           /\ at[0] = from
           /\ \A i \in 1 .. Len(path) : at[i] = Enter(t, at[i - 1], path[i])
           /\ Canonical(t, from, path) = at[Len(path)]
<1> DEFINE V == Real(t) \cup {None}
           n == Len(path)
           step == [i \in 1 .. n |-> [v \in V |-> Enter(t, v, path[i])]]
           Walk(at) == [i \in 0 .. n |-> IF i = 0 THEN from ELSE Enter(t, at[i - 1], path[i])]
           w == CHOOSE at : at = Walk(at)
<1>1. n \in Nat
  BY LenProperties DEF Path
<1>2. step \in [1 .. n -> [V -> V]]
  BY EnterReal
<1>3. PICK f \in [0 .. n -> V] : f[0] = from /\ \A i \in 1 .. n : f[i] = step[i][f[i - 1]]
  <2> HIDE DEF V, n, step
  <2> from \in V
    BY DEF V
  <2> QED BY <1>1, <1>2, Iteration
<1>4. \A i \in 1 .. n : f[i] = Enter(t, f[i - 1], path[i])
  <2> SUFFICES ASSUME NEW i \in 1 .. n PROVE f[i] = Enter(t, f[i - 1], path[i])
    OBVIOUS
  <2>1. f[i - 1] \in V
    <3> HIDE DEF V, n
    <3> QED BY <1>1
  <2>2. step[i] = [v \in V |-> Enter(t, v, path[i])]
    OBVIOUS
  <2>3. step[i][f[i - 1]] = Enter(t, f[i - 1], path[i])
    <3> HIDE DEF V, n, step
    <3> QED BY <2>1, <2>2
  <2> QED BY <1>3, <2>3
<1>5. f = Walk(f)
  <2> HIDE DEF V
  <2> QED BY <1>1, <1>3, <1>4
<1>6. w = Walk(w)
  <2> HIDE DEF Walk
  <2> QED BY <1>5
<1>7. w[0] = from /\ \A i \in 1 .. n : w[i] = Enter(t, w[i - 1], path[i])
  <2> HIDE DEF w, n
  <2> QED BY <1>6, <1>1
<1> DEFINE T == {i \in Nat : i <= n => w[i] = f[i]}
<1>8. 0 \in T
  BY <1>3, <1>7
<1>9. ASSUME NEW i \in Nat, i \in T PROVE i + 1 \in T
  <2> HIDE DEF w, n
  <2> SUFFICES ASSUME i + 1 <= n PROVE w[i + 1] = f[i + 1]
    OBVIOUS
  <2>1. w[i] = f[i] /\ i + 1 \in 1 .. n /\ (i + 1) - 1 = i
    BY <1>1, <1>9
  <2> QED BY <2>1, <1>4, <1>7
<1>10. Nat \subseteq T
  <2> HIDE DEF T
  <2> QED BY <1>8, <1>9, NumberInduction
<1>11. w[n] = f[n]
  <2> HIDE DEF w, n
  <2> QED BY <1>1, <1>10
<1>12. Canonical(t, from, path) = w[n]
  BY DEF Canonical
<1> HIDE DEF w, V
<1> QED BY <1>3, <1>4, <1>11, <1>12 DEF V

\* One component more is one step more.
LEMMA CanonicalAppend ==
  ASSUME NEW t, IsTree(t), NEW from \in Real(t) \cup {None}, NEW path \in Path, NEW c \in FileName
  PROVE  Canonical(t, from, Append(path, c)) = Enter(t, Canonical(t, from, path), c)
<1> DEFINE V == Real(t) \cup {None}
           n == Len(path)
           long == Append(path, c)
<1>1. n \in Nat /\ long \in Path /\ Len(long) = n + 1 /\ long[n + 1] = c
      /\ \A i \in 1 .. n : long[i] = path[i]
  BY AppendProperties, LenProperties DEF Path
<1>2. PICK f \in [0 .. n -> V] :
        /\ f[0] = from
        /\ \A i \in 1 .. n : f[i] = Enter(t, f[i - 1], path[i])
        /\ Canonical(t, from, path) = f[n]
  BY CanonicalWalk
<1>3. PICK g \in [0 .. n + 1 -> V] :
        /\ g[0] = from
        /\ \A i \in 1 .. n + 1 : g[i] = Enter(t, g[i - 1], long[i])
        /\ Canonical(t, from, long) = g[n + 1]
  <2> HIDE DEF long
  <2> QED BY <1>1, CanonicalWalk
<1> DEFINE T == {i \in Nat : i <= n => g[i] = f[i]}
<1> HIDE DEF V, n, long
<1>4. 0 \in T
  BY <1>2, <1>3
<1>5. ASSUME NEW i \in Nat, i \in T PROVE i + 1 \in T
  <2> SUFFICES ASSUME i + 1 <= n PROVE g[i + 1] = f[i + 1]
    OBVIOUS
  <2>1. g[i] = f[i] /\ i + 1 \in 1 .. n /\ i + 1 \in 1 .. n + 1 /\ (i + 1) - 1 = i
    BY <1>1, <1>5
  <2> QED BY <2>1, <1>1, <1>2, <1>3
<1>6. Nat \subseteq T
  <2> HIDE DEF T
  <2> QED BY <1>4, <1>5, NumberInduction
<1>7. g[n] = f[n]
  BY <1>1, <1>6
<1>8. g[n + 1] = Enter(t, g[n], c)
  BY <1>1, <1>3
<1> QED BY <1>2, <1>3, <1>7, <1>8 DEF long, n

LEMMA CanonicalEmpty ==
  ASSUME NEW t, IsTree(t), NEW from \in Real(t) \cup {None}
  PROVE  Canonical(t, from, <<>>) = from
<1>1. <<>> \in Path /\ Len(<<>>) = 0
  BY EmptySeq DEF Path
<1> QED BY <1>1, CanonicalWalk

\* What canonicalize returns exists and is no link.
LEMMA CanonicalReal ==
  ASSUME NEW t, IsTree(t), NEW from \in Real(t) \cup {None}, NEW path \in Path
  PROVE  Canonical(t, from, path) \in Real(t) \cup {None}
<1>1. Len(path) \in 0 .. Len(path)
  BY LenProperties DEF Path
<1> QED BY <1>1, CanonicalWalk

\* Walking a path and then another one from where it leads.
LEMMA CanonicalConcat ==
  ASSUME NEW t, IsTree(t), NEW from \in Real(t) \cup {None}, NEW path \in Path, NEW rest \in Path
  PROVE  Canonical(t, from, path \o rest) = Canonical(t, Canonical(t, from, path), rest)
<1> DEFINE mid == Canonical(t, from, path)
           T == {r \in Path : Canonical(t, from, path \o r) = Canonical(t, mid, r)}
<1>1. mid \in Real(t) \cup {None}
  BY CanonicalReal
<1>2. <<>> \in T
  <2>1. <<>> \in Path /\ path \o <<>> = path
    BY EmptySeq, ConcatEmptySeq DEF Path
  <2> HIDE DEF mid
  <2> QED BY <2>1, <1>1, CanonicalEmpty DEF mid
<1>3. ASSUME NEW r \in Path, NEW c \in FileName, r \in T PROVE Append(r, c) \in T
  <2>1. Append(r, c) \in Path /\ path \o r \in Path
        /\ path \o Append(r, c) = Append(path \o r, c)
    BY AppendProperties, ConcatProperties, AppendIsConcat, ConcatAssociative DEF Path
  <2> HIDE DEF mid
  <2>2. Canonical(t, from, path \o Append(r, c)) = Enter(t, Canonical(t, from, path \o r), c)
    BY <2>1, CanonicalAppend
  <2>3. Canonical(t, mid, Append(r, c)) = Enter(t, Canonical(t, mid, r), c)
    BY <1>1, CanonicalAppend
  <2> QED BY <1>3, <2>1, <2>2, <2>3
<1>4. Path \subseteq T
  <2> HIDE DEF T
  <2> QED BY <1>2, <1>3, SequenceInduction DEF Path
<1> QED BY <1>4

\* A place that exists and is no link is its own canonical path.
LEMMA CanonicalOfPlace ==
  ASSUME NEW t, IsTree(t), NEW x \in Real(t)
  PROVE  Canonical(t, <<>>, x) = x
<1> DEFINE T == {y \in Path : y \in Real(t) => Canonical(t, <<>>, y) = y}
<1>1. <<>> \in Real(t) /\ <<>> \in Path
  BY EmptySeq DEF IsTree, WellFormed, Real, Dir, Absent, Path
<1>2. <<>> \in T
  BY <1>1, CanonicalEmpty
<1>3. ASSUME NEW y \in Path, NEW c \in FileName, y \in T PROVE Append(y, c) \in T
  <2> DEFINE z == Append(y, c)
  <2>1. SUFFICES ASSUME z \in Real(t) PROVE z \in Path /\ Canonical(t, <<>>, z) = z
    BY AppendProperties DEF Path
  <2>2. z \in Path /\ z # <<>> /\ Front(z) = y /\ c \notin {Dot, DotDot}
    <3>1. z \in Path /\ z # <<>> /\ Len(z) = Len(y) + 1 /\ z[Len(y) + 1] = c /\ Len(y) \in Nat
          /\ DOMAIN z = 1 .. Len(z)
      BY AppendProperties, LenProperties DEF Path
    <3>2. Front(z) = y
      BY <3>1 DEF Front, Path
    <3>3. c \notin {Dot, DotDot}
      <4> HIDE DEF z
      <4>1. z \in DOMAIN t /\ Len(y) + 1 \in DOMAIN z
        BY <3>1, <2>1 DEF Real
      <4> QED BY <4>1, <3>1 DEF IsTree
    <3> QED BY <3>1, <3>2, <3>3
  <2>3. At(t, y) = Dir
    BY <2>1, <2>2 DEF IsTree, WellFormed, Real
  <2>4. y \in Real(t)
    BY <2>3 DEF At, Real, Dir, Absent
  <2>5. Canonical(t, <<>>, z) = Enter(t, y, c)
    BY <1>1, <1>3, <2>4, CanonicalAppend
  <2>6. Enter(t, y, c) = z
    <3>1. y # None
      BY NoneAssumption
    <3>2. At(t, z) = t[z] /\ t[z] # Absent /\ t[z].kind # "link"
      BY <2>1 DEF At, Real
    <3> HIDE DEF z
    <3>3. Enter(t, y, c) = IF y = None \/ At(t, y).kind # "dir" \/ At(t, z) = Absent THEN None ELSE z
      BY <2>2, <3>2 DEF Enter, z
    <3> QED BY <3>1, <3>2, <3>3, <2>3 DEF Dir
  <2> QED BY <2>2, <2>5, <2>6
<1>4. Path \subseteq T
  <2> HIDE DEF T
  <2> QED BY <1>2, <1>3, SequenceInduction DEF Path
<1> QED BY <1>4 DEF IsTree, Real

\* So is what lies below a place, when the walk starts there.
LEMMA CanonicalBelow ==
  ASSUME NEW t, IsTree(t), NEW root \in Real(t), NEW e \in Path, root \o e \in Real(t)
  PROVE  Canonical(t, root, e) = root \o e
<1>1. <<>> \in Real(t) /\ root \in Path
  BY DEF IsTree, WellFormed, Real, Dir, Absent
<1>2. Canonical(t, <<>>, root \o e) = Canonical(t, Canonical(t, <<>>, root), e)
  BY <1>1, CanonicalConcat
<1> QED BY <1>2, CanonicalOfPlace
-----------------------------------------------------------------------------
(* components "." *)

\* The recursive function of Undotted satisfies its equation.
LEMMA UndottedSteps ==
  ASSUME NEW path \in Path
  PROVE  \E kept \in [0 .. Len(path) -> Path] :
           /\ kept[0] = <<>>
           /\ \A i \in 1 .. Len(path) :
                kept[i] = IF path[i] = Dot THEN kept[i - 1] ELSE Append(kept[i - 1], path[i])
           /\ Undotted(path) = kept[Len(path)]
<1> DEFINE n == Len(path)
           none == <<>>
           Next(k, i) == IF path[i] = Dot THEN k ELSE Append(k, path[i])
           step == [i \in 1 .. n |-> [k \in Path |-> Next(k, i)]]
           Kept(k) == [i \in 0 .. n |-> IF i = 0 THEN <<>> ELSE Next(k[i - 1], i)]
           w == CHOOSE k : k = Kept(k)
<1>1. n \in Nat /\ <<>> \in Path /\ \A i \in 1 .. n : path[i] \in FileName
  BY LenProperties, EmptySeq, ElementOfSeq DEF Path
<1>2. step \in [1 .. n -> [Path -> Path]]
  BY <1>1, AppendProperties DEF Path
<1>3. PICK f \in [0 .. n -> Path] : f[0] = <<>> /\ \A i \in 1 .. n : f[i] = step[i][f[i - 1]]
  <2> HIDE DEF n, step, none
  <2> none \in Path
    BY <1>1 DEF none
  <2>1. \E f \in [0 .. n -> Path] : f[0] = none /\ \A i \in 1 .. n : f[i] = step[i][f[i - 1]]
    BY <1>1, <1>2, Iteration
  <2> QED BY <2>1 DEF none
<1>4. ASSUME NEW i \in 1 .. n PROVE f[i] = Next(f[i - 1], i)
  <2>1. f[i - 1] \in Path
    <3> HIDE DEF n
    <3> QED BY <1>1
  <2>2. step[i] = [k \in Path |-> Next(k, i)]
    OBVIOUS
  <2>3. step[i][f[i - 1]] = Next(f[i - 1], i)
    <3> HIDE DEF n, step, Next
    <3> QED BY <2>1, <2>2
  <2> HIDE DEF Next, step
  <2> QED BY <1>3, <2>3
<1>5. f = Kept(f)
  <2> HIDE DEF Next, n
  <2> QED BY <1>1, <1>3, <1>4
<1>6. w = Kept(w)
  <2> HIDE DEF Kept
  <2> QED BY <1>5
<1>7. w[0] = <<>> /\ \A i \in 1 .. n : w[i] = Next(w[i - 1], i)
  <2> HIDE DEF w, n, Next
  <2> QED BY <1>6, <1>1
<1> DEFINE T == {i \in Nat : i <= n => w[i] = f[i]}
<1>8. 0 \in T
  BY <1>3, <1>7
<1>9. ASSUME NEW i \in Nat, i \in T PROVE i + 1 \in T
  <2> HIDE DEF w, n, Next
  <2> SUFFICES ASSUME i + 1 <= n PROVE w[i + 1] = f[i + 1]
    OBVIOUS
  <2>1. w[i] = f[i] /\ i + 1 \in 1 .. n /\ (i + 1) - 1 = i
    BY <1>1, <1>9
  <2> QED BY <2>1, <1>4, <1>7
<1>10. Nat \subseteq T
  <2> HIDE DEF T
  <2> QED BY <1>8, <1>9, NumberInduction
<1>11. w[n] = f[n]
  <2> HIDE DEF w, n
  <2> QED BY <1>1, <1>10
<1>12. Undotted(path) = w[n]
  BY DEF Undotted
<1> HIDE DEF w
<1> QED BY <1>3, <1>4, <1>11, <1>12

LEMMA UndottedEmpty == Undotted(<<>>) = <<>>
<1>1. <<>> \in Path /\ Len(<<>>) = 0
  BY EmptySeq DEF Path
<1> QED BY <1>1, UndottedSteps

LEMMA UndottedAppend ==
  ASSUME NEW path \in Path, NEW c \in FileName
  PROVE  Undotted(Append(path, c)) =
           IF c = Dot THEN Undotted(path) ELSE Append(Undotted(path), c)
<1> DEFINE n == Len(path)
           long == Append(path, c)
<1>1. n \in Nat /\ long \in Path /\ Len(long) = n + 1 /\ long[n + 1] = c
      /\ \A i \in 1 .. n : long[i] = path[i]
  BY AppendProperties, LenProperties DEF Path
<1>2. PICK f \in [0 .. n -> Path] :
        /\ f[0] = <<>>
        /\ \A i \in 1 .. n : f[i] = IF path[i] = Dot THEN f[i - 1] ELSE Append(f[i - 1], path[i])
        /\ Undotted(path) = f[n]
  BY UndottedSteps
<1>3. PICK g \in [0 .. n + 1 -> Path] :
        /\ g[0] = <<>>
        /\ \A i \in 1 .. n + 1 : g[i] = IF long[i] = Dot THEN g[i - 1] ELSE Append(g[i - 1], long[i])
        /\ Undotted(long) = g[n + 1]
  <2> HIDE DEF long
  <2> QED BY <1>1, UndottedSteps
<1> DEFINE T == {i \in Nat : i <= n => g[i] = f[i]}
<1> HIDE DEF n, long
<1>4. 0 \in T
  BY <1>2, <1>3
<1>5. ASSUME NEW i \in Nat, i \in T PROVE i + 1 \in T
  <2> SUFFICES ASSUME i + 1 <= n PROVE g[i + 1] = f[i + 1]
    OBVIOUS
  <2>1. g[i] = f[i] /\ i + 1 \in 1 .. n /\ i + 1 \in 1 .. n + 1 /\ (i + 1) - 1 = i
    BY <1>1, <1>5
  <2> QED BY <2>1, <1>1, <1>2, <1>3
<1>6. Nat \subseteq T
  <2> HIDE DEF T
  <2> QED BY <1>4, <1>5, NumberInduction
<1>7. g[n] = f[n]
  BY <1>1, <1>6
<1>8. g[n + 1] = IF c = Dot THEN g[n] ELSE Append(g[n], c)
  BY <1>1, <1>3
<1> QED BY <1>2, <1>3, <1>7, <1>8 DEF long, n

\* Components "." lead nowhere: a path that canonicalize accepts leads where it
\* leads without them.
LEMMA CanonicalUndotted ==
  ASSUME NEW t, IsTree(t), NEW from \in Real(t) \cup {None}, NEW path \in Path,
         Canonical(t, from, path) # None
  PROVE  Undotted(path) \in Path /\ Canonical(t, from, Undotted(path)) = Canonical(t, from, path)
<1> DEFINE T == {p \in Path :
                    /\ Undotted(p) \in Path
                    /\ Canonical(t, from, p) # None =>
                         Canonical(t, from, Undotted(p)) = Canonical(t, from, p)}
<1>1. <<>> \in T
  BY UndottedEmpty, EmptySeq DEF Path
<1>2. ASSUME NEW p \in Path, NEW c \in FileName, p \in T PROVE Append(p, c) \in T
  <2> DEFINE at == Canonical(t, from, p)
  <2>1. Append(p, c) \in Path /\ Append(Undotted(p), c) \in Path
    BY <1>2, AppendProperties DEF Path
  <2>2. Canonical(t, from, Append(p, c)) = Enter(t, at, c)
    BY CanonicalAppend
  <2>3. Undotted(Append(p, c)) = IF c = Dot THEN Undotted(p) ELSE Append(Undotted(p), c)
    BY UndottedAppend
  <2>4. Enter(t, at, c) # None => at # None
    BY DEF Enter
  <2>5. at \in Real(t) \cup {None}
    BY CanonicalReal
  <2>6. c = Dot /\ Enter(t, at, c) # None => Enter(t, at, c) = at
    <3> HIDE DEF at
    <3>1. ASSUME c = Dot, Enter(t, at, c) # None PROVE Enter(t, at, c) = at
      <4>1. At(t, at).kind # "link"
        BY <2>4, <2>5, <3>1 DEF At, Real
      <4> QED BY <3>1, <4>1, EnterDot
    <3> QED BY <3>1
  <2>7. Canonical(t, from, Append(Undotted(p), c)) = Enter(t, Canonical(t, from, Undotted(p)), c)
    BY <1>2, CanonicalAppend
  <2> HIDE DEF at
  <2> QED BY <1>2, <2>1, <2>2, <2>3, <2>4, <2>6, <2>7 DEF at
<1>3. Path \subseteq T
  <2> HIDE DEF T
  <2> QED BY <1>1, <1>2, SequenceInduction DEF Path
<1> QED BY <1>3
-----------------------------------------------------------------------------
(* parents and changes of trees *)

LEMMA FrontLast ==
  ASSUME NEW e \in Path, e # <<>>
  PROVE  /\ Front(e) \in Path /\ Last(e) \in FileName
         /\ e = Append(Front(e), Last(e))
<1>1. PICK r \in Path, c \in FileName : e = Append(r, c)
  BY SequenceEmptyOrAppend DEF Path
<1>2. Len(r) \in Nat /\ Len(e) = Len(r) + 1 /\ e[Len(e)] = c
  BY <1>1, AppendProperties, LenProperties DEF Path
<1>3. Last(e) = c
  BY <1>2 DEF Last
<1>4. Front(e) = r
  BY <1>1, <1>2 DEF Front, Path
<1> QED BY <1>1, <1>3, <1>4

LEMMA FrontOfAppend ==
  ASSUME NEW r \in Path, NEW c \in FileName
  PROVE  Append(r, c) \in Path \ {<<>>} /\ Front(Append(r, c)) = r /\ Last(Append(r, c)) = c
<1>1. Append(r, c) \in Path /\ Append(r, c) # <<>>
  BY AppendProperties DEF Path
<1>2. Append(r, c) = Append(Front(Append(r, c)), Last(Append(r, c)))
      /\ Front(Append(r, c)) \in Path /\ Last(Append(r, c)) \in FileName
  BY <1>1, FrontLast
<1>3. r = Front(Append(r, c)) /\ c = Last(Append(r, c))
  <2> DEFINE f == Front(Append(r, c))
             l == Last(Append(r, c))
  <2> f \in Seq(FileName) /\ l \in FileName /\ r \in Seq(FileName) /\ Append(r, c) = Append(f, l)
    BY <1>2 DEF Path
  <2> HIDE DEF f, l
  <2> r = f /\ c = l
    BY AppendInjective
  <2> QED BY DEF f, l
<1> QED BY <1>1, <1>3

\* What is in front of a path below root is below root.
LEMMA FrontBelow ==
  ASSUME NEW root \in Path, NEW e \in Path, e # <<>>
  PROVE  /\ Front(root \o e) = root \o Front(e)
         /\ root \o e = Append(root \o Front(e), Last(e))
         /\ root \o e \in Path \ {<<>>}
<1>1. Front(e) \in Path /\ Last(e) \in FileName /\ e = Append(Front(e), Last(e))
  BY FrontLast
<1>2. root \o Front(e) \in Path /\ root \o Append(Front(e), Last(e)) = Append(root \o Front(e), Last(e))
  BY <1>1, ConcatProperties, AppendIsConcat, ConcatAssociative DEF Path
<1>3. root \o e = Append(root \o Front(e), Last(e))
  BY <1>1, <1>2
<1> DEFINE r == root \o Front(e)
           l == Last(e)
<1>4. r \in Path /\ l \in FileName /\ root \o e = Append(r, l)
  BY <1>1, <1>2, <1>3
<1> HIDE DEF r, l
<1>5. root \o e \in Path \ {<<>>} /\ Front(root \o e) = r
  BY <1>4, FrontOfAppend
<1> QED BY <1>3, <1>5 DEF r

\* Where a path leads whose parent directory exists.
LEMMA CanonicalParent ==
  ASSUME NEW t, IsTree(t), NEW root \in Real(t), NEW e \in Path, e # <<>>,
         At(t, root \o Front(e)) = Dir
  PROVE  Canonical(t, root, Front(e)) = root \o Front(e)
<1>1. Front(e) \in Path
  BY FrontLast
<1>2. root \o Front(e) \in Real(t)
  BY DEF At, Real, Dir, Absent
<1> QED BY <1>1, <1>2, CanonicalBelow

LEMMA CiphertextPath ==
  ASSUME NEW e \in Path, e # <<>>
  PROVE  /\ CiphertextOf(e) \in Path \ {<<>>}
         /\ Front(CiphertextOf(e)) = Front(e)
         /\ Last(CiphertextOf(e)) = Append(Last(e), "secret")
<1>1. Front(e) \in Path /\ Last(e) \in FileName
  BY FrontLast
<1>2. Append(Last(e), "secret") \in FileName
  <2> DEFINE l == Last(e)
             ext == "secret"
  <2>1. l \in FileName
    BY <1>1
  <2>2. ext \in Word
    BY WordAssumption
  <2> HIDE DEF l, ext
  <2>3. Append(l, ext) \in FileName
    BY <2>1, <2>2, AppendProperties DEF FileName
  <2> QED BY <2>3 DEF l, ext
<1> QED BY <1>1, <1>2, FrontOfAppend DEF CiphertextOf

\* Different files have different ciphertexts.
LEMMA CiphertextInjective ==
  ASSUME NEW e \in Path, e # <<>>, NEW f \in Path, f # <<>>, CiphertextOf(e) = CiphertextOf(f)
  PROVE  e = f
<1>1. Front(e) = Front(f) /\ Append(Last(e), "secret") = Append(Last(f), "secret")
  BY CiphertextPath
<1>2. Last(e) \in FileName /\ Last(f) \in FileName
      /\ e = Append(Front(e), Last(e)) /\ f = Append(Front(f), Last(f))
  BY FrontLast
<1>3. Last(e) = Last(f)
  BY <1>1, <1>2, AppendInjective DEF FileName
<1> QED BY <1>1, <1>2, <1>3

\* Files that appear in directories, or go, leave a tree a tree with the same
\* directories.
Changed(t, u) ==
  /\ DOMAIN u = DOMAIN t
  /\ \A x \in DOMAIN t :
       \/ u[x] = t[x]
       \/ /\ t[x] # Dir
          /\ \/ u[x] = Absent
             \/ x # <<>> /\ At(t, Front(x)) = Dir /\ u[x].kind = "file"

LEMMA ChangedTree ==
  ASSUME NEW t, NEW u, IsTree(t), Changed(t, u)
  PROVE  IsTree(u) /\ \A x \in DOMAIN t : t[x] = Dir => u[x] = Dir
<1>1. \A x \in DOMAIN t : t[x] = Dir => u[x] = Dir
  BY DEF Changed
<1>2. u[<<>>] = Dir
  BY <1>1 DEF IsTree, WellFormed
<1>3. ASSUME NEW x \in DOMAIN u \ {<<>>}, u[x] # Absent PROVE At(u, Front(x)) = Dir
  <2>1. At(t, Front(x)) = Dir
    BY <1>3 DEF Changed, IsTree, WellFormed
  <2> QED BY <2>1, <1>1 DEF Changed, At, Dir, Absent
<1>4. ASSUME NEW x \in DOMAIN u, u[x].kind = "link" PROVE At(u, u[x].to).kind # "link"
  <2>1. u[x] = t[x] /\ x \in DOMAIN t
    BY <1>4 DEF Changed, Absent
  <2>2. At(t, t[x].to).kind # "link"
    BY <1>4, <2>1 DEF IsTree, WellFormed
  <2> DEFINE y == t[x].to
  <2>3. At(u, y) = At(t, y) \/ At(u, y) = Absent \/ At(u, y).kind = "file"
    <3> HIDE DEF y
    <3> QED BY DEF Changed, At
  <2> QED BY <2>1, <2>2, <2>3 DEF Absent
<1> QED BY <1>1, <1>2, <1>3, <1>4 DEF IsTree, WellFormed, Changed
-----------------------------------------------------------------------------
(* validate_tracked_path *)

\* A path without the components "." and ".." is joined name by name: the
\* recursive function of Joined is the one of the prefixes.
LEMMA JoinedPlain ==
  ASSUME NEW root \in Path, \A i \in DOMAIN root : root[i] # DotDot,
         NEW p \in Path, \A i \in DOMAIN p : p[i] \notin {Dot, DotDot}
  PROVE  Joined(root, p) = root \o p
<1> DEFINE n == Len(p)
           f == [i \in 0 .. n |-> root \o SubSeq(p, 1, i)]
           Next(v, i) == CASE v = Above \/ p[i] = Dot -> v
                           [] p[i] = DotDot -> IF v = <<>> THEN Above ELSE Front(v)
                           [] OTHER -> Append(v, p[i])
           Walk(at) == [i \in 0 .. n |-> IF i = 0 THEN root ELSE Next(at[i - 1], i)]
           w == CHOOSE at : at = Walk(at)
<1>1. n \in Nat /\ DOMAIN p = 1 .. n /\ \A i \in 1 .. n : p[i] \in FileName
  BY LenProperties, ElementOfSeq DEF Path
<1>2. f[0] = root
  <2>1. f[0] = root \o SubSeq(p, 1, 0)
    BY <1>1
  <2>2. SubSeq(p, 1, 0) = <<>>
    BY SubSeqEmpty
  <2> QED BY <2>1, <2>2, ConcatEmptySeq DEF Path
<1>3. ASSUME NEW i \in 0 .. n
      PROVE  /\ SubSeq(p, 1, i) \in Path /\ f[i] \in Path /\ f[i] # Above
  <2> DEFINE q == SubSeq(p, 1, i)
             v == root \o q
  <2>1. /\ q \in Seq(FileName) /\ Len(q) = (IF 1 <= i THEN i - 1 + 1 ELSE 0)
        /\ \A j \in 1 .. i - 1 + 1 : q[j] = p[1 + j - 1]
    <3>1. 1 \in Int /\ i \in Int /\ \A j \in 1 .. i : p[j] \in FileName
      BY <1>1
    <3> HIDE DEF n
    <3> QED BY <3>1, SubSeqProperties
  <2> HIDE DEF q
  <2>2. Len(q) = i /\ \A j \in 1 .. i : q[j] = p[j]
    BY <1>1, <2>1
  <2>3. /\ v \in Path /\ Len(v) = Len(root) + i
        /\ \A j \in 1 .. Len(root) + i :
             v[j] = IF j <= Len(root) THEN root[j] ELSE q[j - Len(root)]
    BY <2>1, <2>2, ConcatProperties DEF Path
  <2>4. Len(root) \in Nat /\ DOMAIN root = 1 .. Len(root)
    BY LenProperties DEF Path
  <2> HIDE DEF v
  <2>5. \A j \in 1 .. Len(v) : v[j] # DotDot
    BY <1>1, <2>2, <2>3, <2>4
  <2>6. v # Above
    <3>1. SUFFICES ASSUME v = Above PROVE FALSE
      OBVIOUS
    <3>2. Len(Above) = 1 /\ Above[1] = DotDot
      BY DEF Above
    <3>3. Len(v) = 1 /\ v[1] = DotDot
      BY <3>1, <3>2
    <3> QED BY <2>5, <3>3
  <2>7. f[i] = v
    BY DEF v, q
  <2> QED BY <2>1, <2>3, <2>6, <2>7 DEF q, Path
<1>4. ASSUME NEW i \in 1 .. n PROVE f[i] = Next(f[i - 1], i)
  <2> DEFINE q == SubSeq(p, 1, i - 1)
  <2>1. i - 1 \in 0 .. n /\ i \in 0 .. n
    BY <1>1
  <2>2. q \in Path /\ f[i - 1] \in Path /\ f[i - 1] # Above /\ f[i - 1] = root \o q
    BY <1>3, <2>1
  <2>3. SubSeq(p, 1, i) = Append(q, p[i])
    <3>1. 1 \in 1 .. n /\ i \in 1 .. n
      BY <1>1
    <3>2. SubSeq(p, 1, i) = SubSeq(p, 1, i - 1) \o <<p[i]>>
      BY <3>1, SubSeqRecursiveSecond DEF Path
    <3> HIDE DEF q
    <3>3. Append(q, p[i]) = q \o <<p[i]>>
      BY <1>1, <2>2, AppendIsConcat DEF Path
    <3> QED BY <3>2, <3>3 DEF q
  <2>4. f[i] = root \o SubSeq(p, 1, i)
    BY <2>1
  <2>5. p[i] \in FileName /\ p[i] \notin {Dot, DotDot}
    BY <1>1
  <2> HIDE DEF q, f, n
  <2>6. root \o Append(q, p[i]) = Append(root \o q, p[i])
    <3> DEFINE c == p[i]
    <3>1. c \in FileName /\ root \o q \in Path
      BY <2>2, <2>5, ConcatProperties DEF Path
    <3> HIDE DEF c
    <3>2. Append(q, c) = q \o <<c>> /\ Append(root \o q, c) = (root \o q) \o <<c>>
      BY <2>2, <3>1, AppendIsConcat DEF Path
    <3>3. <<c>> \in Path
      BY <3>1 DEF Path
    <3>4. (root \o q) \o <<c>> = root \o (q \o <<c>>)
      BY <2>2, <3>3, ConcatAssociative DEF Path
    <3> QED BY <3>2, <3>4 DEF c
  <2> QED BY <2>2, <2>3, <2>4, <2>5, <2>6
<1>5. f = Walk(f)
  <2> HIDE DEF Next, n
  <2>1. \A i \in 0 .. n : f[i] = Walk(f)[i]
    <3> HIDE DEF f
    <3> QED BY <1>1, <1>2, <1>4
  <2> QED BY <2>1
<1>6. w = Walk(w)
  <2> HIDE DEF Walk, f
  <2> QED BY <1>5
<1>7. w[0] = root /\ \A i \in 1 .. n : w[i] = Next(w[i - 1], i)
  <2> HIDE DEF w, n, Next
  <2> QED BY <1>6, <1>1
<1> DEFINE T == {i \in Nat : i <= n => w[i] = f[i]}
<1>8. 0 \in T
  <2> HIDE DEF w, f, n
  <2> QED BY <1>2, <1>7
<1>9. ASSUME NEW i \in Nat, i \in T PROVE i + 1 \in T
  <2> HIDE DEF w, n, Next, f
  <2> SUFFICES ASSUME i + 1 <= n PROVE w[i + 1] = f[i + 1]
    OBVIOUS
  <2>1. w[i] = f[i] /\ i + 1 \in 1 .. n /\ (i + 1) - 1 = i
    BY <1>1, <1>9
  <2> QED BY <2>1, <1>4, <1>7
<1>10. Nat \subseteq T
  <2> HIDE DEF T
  <2> QED BY <1>8, <1>9, NumberInduction
<1>11. w[n] = f[n]
  <2> HIDE DEF w, n, f
  <2> QED BY <1>1, <1>10
<1>12. Joined(root, p) = w[n]
  BY DEF Joined
<1>13. f[n] = root \o p
  <2>1. f[n] = root \o SubSeq(p, 1, n)
    BY <1>1
  <2>2. SubSeq(p, 1, n) = p
    BY SubSeqFull DEF Path
  <2> QED BY <2>1, <2>2
<1> HIDE DEF w, f
<1> QED BY <1>11, <1>12, <1>13

LEMMA PrefixOfConcat ==
  ASSUME NEW root \in Path, NEW p \in Path
  PROVE  IsPrefix(root, root \o p)
<1> DEFINE m == Len(root)
           x == root \o p
<1>1. m \in Nat /\ Len(p) \in Nat
  BY LenProperties DEF Path
<1>2. x \in Seq(FileName) /\ Len(x) = m + Len(p)
  BY ConcatProperties DEF Path
<1>3. SubSeq(x, 1, m) = SubSeq(root, 1, m)
  <2>1. CASE m = 0
    BY <2>1, SubSeqEmpty
  <2>2. CASE m # 0
    <3>1. 1 \in 1 .. m /\ m \in 1 .. m
      BY <1>1, <2>2
    <3> QED BY <3>1, SubSeqOfConcat1 DEF Path
  <2> QED BY <2>1, <2>2
<1> HIDE DEF x, m
<1> QED BY <1>1, <1>2, <1>3 DEF IsPrefix, x, m

\* A path that validate_tracked_path accepts stays below every root: joined
\* with it, it is the root and then the path.
THEOREM ValidStaysBelow ==
  ASSUME NEW root \in Path, \A i \in DOMAIN root : root[i] # DotDot,
         NEW p \in Path, Valid(p)
  PROVE  Joined(root, p) = root \o p /\ IsPrefix(root, Joined(root, p))
<1>1. Joined(root, p) = root \o p
  BY JoinedPlain DEF Valid
<1> QED BY <1>1, PrefixOfConcat

\* The two halves of validate_tracked_path agree: what has no component "." or
\* ".." passes stays_inside_repo_root as well.
THEOREM PlainIsValid ==
  ASSUME NEW p \in Path, p # <<>>, \A i \in DOMAIN p : p[i] \notin {Dot, DotDot}
  PROVE  Valid(p)
<1> DEFINE repo == "repo"
           name == <<repo>>
           root == <<name>>
<1>1. repo \in Word
  BY WordAssumption
<1>2. name \in FileName /\ name # DotDot
  <2>1. repo # ".."
    OBVIOUS
  <2> HIDE DEF repo
  <2> QED BY <1>1, <2>1 DEF FileName, DotDot
<1>3. root \in Path /\ DOMAIN root = {1} /\ root[1] = name
  <2> HIDE DEF name
  <2> QED BY <1>2 DEF Path
<1> HIDE DEF root
<1>4. Joined(root, p) = root \o p
  BY <1>2, <1>3, JoinedPlain
<1>5. IsPrefix(root, root \o p)
  BY <1>3, PrefixOfConcat
<1> QED BY <1>4, <1>5 DEF Valid, StaysInside, root
=============================================================================
