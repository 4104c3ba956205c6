CONSTANTS
  a = a   b = b  x = x  k1 = k1  k2 = k2
  m1 = m1  m2 = m2  p1 = p1  p2 = p2  None = None
  Email = {a}
  Mailbox <- OneSpelling
  PubKey = {x}
  SigningKey = {k1, k2}
  MaxVersion = 2
  Machine = {m1}
  Proc = {p1}
  Host <- OnOne
  Principal <- OnlyA
  Seeds <- OwnerSeed
  PinFiles = {k1, k2}
  Explicit = {}
  FirstSignatures <- NoSignatures
  FirstBaselines <- Digestless
  Junk <- HandEdited
  Overlap = TRUE
SPECIFICATION Spec
INVARIANT TypeOK BaselineTracksAccepted
PROPERTY AcceptedUnderPin StampNamesWrittenRing AcceptanceIsFresh
VIEW Read
