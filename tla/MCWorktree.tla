----------------------------- MODULE MCWorktree -----------------------------
(***************************************************************************)
(* Small instances of Worktree.                                            *)
(***************************************************************************)
EXTENDS Worktree

CONSTANTS c1, c2

Repo == <<<<"repo">>>>
A == <<<<"a">>>>
AY == <<<<"a", "y">>>>
D == <<<<"d">>>>
K == <<<<"k">>>>     \* a link to d
DA == D \o A

InRepo(entries) == {Repo \o e : e \in entries}
Around(entries) ==
  {<<>>, Repo} \cup InRepo(entries \cup {CiphertextOf(e) : e \in entries})

\* A secret, one whose name begins with the other's and that a link may
\* replace, and one in a directory with a second way into it.
Places == Around({A, AY, DA}) \cup InRepo({D, K})
\* A secret and whatever a glob finds beside it.
Nested == Around({A, CiphertextOf(A)})

Holding(c) == [kind |-> "file", text |-> c, depth |-> 0]
TreeOf(places) ==
  [x \in places |-> CASE x \in {<<>>, Repo, Repo \o D} -> Dir
                      [] x = Repo \o K -> [kind |-> "link", to |-> Repo \o D]
                      [] x \in InRepo({A, DA}) -> Holding(c1)
                      [] x = Repo \o AY -> Holding(c2)
                      [] OTHER -> Absent]
Trees == {TreeOf(Place)}

NoLines == {[lines |-> {}, open |-> None]}
\* A last line without a newline, with a file and its namesakes on it.
Unterminated == NoLines \cup {[lines |-> {}, open |-> AY]}

Edits == InRepo({A, CiphertextOf(A)})
EditsOfA == InRepo({A})
Replaced == {<<Repo \o AY, Repo \o A>>}
NoLinks == {}

Rel(p) == [abs |-> FALSE, path |-> p]
Abs(p) == [abs |-> TRUE, path |-> p]
Spellings ==
  {Rel(A), Rel(<<Dot>> \o A), Rel(D \o <<DotDot>> \o A), Rel(<<DotDot>> \o Repo \o A),
   Abs(Repo \o A), Abs(Repo \o <<DotDot>> \o Repo \o A), Abs(Repo \o D \o <<Dot, DotDot>> \o A),
   Rel(AY), Abs(Repo \o AY),
   Rel(DA), Rel(D \o <<Dot>> \o A), Rel(K \o A), Abs(Repo \o DA), Abs(Repo \o K \o A)}
Both == {Rel(A), Rel(CiphertextOf(A))}

Do(verb, names) == [verb |-> verb, names |-> names, keep |-> FALSE]
Named ==
  {Do("add-file", <<Rel(D \o <<DotDot>> \o A)>>), Do("add-file", <<Rel(A), Rel(AY), Rel(K \o A)>>),
   Do("hide", <<Rel(<<Dot>> \o A), Rel(AY)>>), Do("hide", <<Abs(Repo \o AY), Rel(AY)>>),
   [Do("hide", <<Rel(K \o A)>>) EXCEPT !.keep = TRUE],
   Do("reveal", <<Rel(A)>>), Do("reveal", <<Rel(AY), Abs(Repo \o DA)>>),
   Do("remove-file", <<Rel(A), Rel(AY)>>), Do("remove-file", <<Rel(AY), Rel(AY)>>),
   [Do("remove-file", <<Rel(D \o <<Dot>> \o A)>>) EXCEPT !.keep = TRUE]}
Globbed ==
  {Do("add-file", <<Rel(A)>>), Do("hide", <<Rel(A)>>),
   Do("add-file", <<Rel(A), Rel(CiphertextOf(A))>>),
   Do("hide", <<Rel(A), Rel(CiphertextOf(A))>>)}
=============================================================================
