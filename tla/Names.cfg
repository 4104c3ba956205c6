CONSTANTS
  c1 = c1  c2 = c2  None = None
  Word = {".", "..", "repo", "secret", "a", "y", "d", "k"}
  Root <- Repo
  Place <- Places
  Text = {c1, c2}
  MaxDepth = 1
  FirstTrees <- Trees
  FirstIgnores <- Unterminated
  Editable <- Edits
  Links <- Replaced
  Spelling <- Spellings
  CommandLines <- Named
  MaxEdits = 1
SPECIFICATION Spec
INVARIANT TypeOK OwnManifestLoads SameFile
PROPERTY NeverNeither AddedIsIgnored
