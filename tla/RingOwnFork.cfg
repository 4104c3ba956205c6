CONSTANTS
  a = a   b = b  x = x  k1 = k1  k2 = k2
  m1 = m1  m2 = m2  p1 = p1  p2 = p2  None = None
  Email = {a, b}
  Mailbox <- OneSpelling
  PubKey = {x}
  SigningKey = {k1}
  MaxVersion = 1
  Machine = {m1, m2}
  Proc = {p1, p2}
  Host <- OneEach
  Principal <- NoPrincipal
  Seeds <- OwnerSeed
  PinFiles = {k1}
  Explicit = {}
  FirstSignatures <- NoSignatures
  FirstBaselines <- NoBaselines
  Junk <- JustEmpty
  Overlap = FALSE
SPECIFICATION Spec
INVARIANT OwnRingNotReplaced
