CONSTANTS
  c1 = c1  c2 = c2  None = None
  Word = {".", "..", "repo", "secret", "a", "y", "d", "k"}
  Root <- Repo
  Place <- Nested
  Text = {c1, c2}
  MaxDepth = 2
  FirstTrees <- Trees
  FirstIgnores <- NoLines
  Editable <- EditsOfA
  Links <- NoLinks
  Spelling <- Both
  CommandLines <- Globbed
  MaxEdits = 1
SPECIFICATION Spec
PROPERTY NeverNeither
