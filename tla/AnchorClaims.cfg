CONSTANTS
  r = r  r2 = r2  k1 = k1  k2 = k2  k3 = k3  None = None
  Id = {r, r2}
  Key = {k1, k2, k3}
  Seeds = {k1}
  Received <- PinFileOfK2
  MaxVersion = 2
  FirstStates <- Fresh
  Commits <- Claims
  MaxFaults = 1
  MaxMoves = 1
SPECIFICATION Spec
INVARIANT TypeOK AnchorFromOutside RingFromAnchor
