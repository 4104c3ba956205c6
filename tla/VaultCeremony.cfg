CONSTANTS
  f1 = f1  f2 = f2  alice = alice  bob = bob  ka = ka  kb = kb
  c1 = c1  c2 = c2  p1 = p1  p2 = p2  None = None
  File = {f1, f2}
  Key = {ka, kb}
  Held = {ka}
  Principal = {alice, bob}
  Me = alice
  Secret = {c1, c2}
  MaxVersion = 2
  FirstRing <- AliceAlone
  CommandLines <- Ceremony
  Upstream <- NoUpstream
  Proc = {p1}
  Overlap = FALSE
  Checkouts = FALSE
  DiesAt <- BetweenWrites
  MaxFaults = 1
SPECIFICATION FairSpec
INVARIANT TypeOK StaleIsDue
PROPERTY NeverNeither PassDelivers PassKeepsContent PassCompletes
