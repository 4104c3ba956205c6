CONSTANTS
  r = r  r2 = r2  k1 = k1  k2 = k2  k3 = k3  None = None
  Id = {r}
  Key = {k1, k2}
  Seeds = {k1, k2}
  Received <- NoPinFiles
  MaxVersion = 2
  FirstStates <- Fresh
  Commits <- NoCommits
  MaxFaults = 3
  MaxMoves = 0
SPECIFICATION OwnerSpec
PROPERTY AnchorRecovers
