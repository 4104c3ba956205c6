CONSTANTS
  f1 = f1  f2 = f2  alice = alice  bob = bob  ka = ka  kb = kb
  c1 = c1  c2 = c2  p1 = p1  p2 = p2  None = None
  File = {f1}
  Key = {ka, kb}
  Held = {ka}
  Principal = {alice, bob}
  Me = alice
  Secret = {c1, c2}
  MaxVersion = 1
  FirstRing <- AliceAndBob
  CommandLines <- Daily
  Upstream <- Nominations
  Proc = {p1, p2}
  Overlap = TRUE
  Checkouts = TRUE
  DiesAt <- BetweenWrites
  MaxFaults = 1
SPECIFICATION Spec
SYMMETRY Alike
ACTION_CONSTRAINT Considerate
PROPERTY NeverNeither FirstEncryptIsAllowed RevealRestores PassDelivers PassLeavesNoOrphan
