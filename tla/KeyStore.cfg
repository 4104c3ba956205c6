CONSTANTS
  k1 = k1  k2 = k2  junk = junk  m600 = m600  m640 = m640  m644 = m644
  p1 = p1  p2 = p2  None = None  Torn = Torn
  Name <- Names
  Proc = {p1}
  Bytes <- Twice
  Mode = {m600, m640, m644}
  Umask = m644
  Key = {k1, k2}
  Junk = junk
  Place <- Places
  MaxLines = 2
  Private = m600
  FirstStores <- Stores
  CommandLines <- Keeping
  Overlap = FALSE
  MaxFaults = 1
  MaxChmods = 1
SPECIFICATION FairSpec
INVARIANT TypeOK
PROPERTY AtomicReplace LineKept ForgetForgets AcknowledgeUnblocks ForgetCompletes
