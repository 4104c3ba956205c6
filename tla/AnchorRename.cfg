CONSTANTS
  r = r  r2 = r2  k1 = k1  k2 = k2  k3 = k3  None = None
  Id = {r, r2}
  Key = {k1}
  Seeds = {k1}
  Received <- NoPinFiles
  MaxVersion = 2
  FirstStates <- Fresh
  Commits <- NoCommits
  MaxFaults = 0
  MaxMoves = 1
SPECIFICATION OwnerSpec
PROPERTY RenameIsRecovered
