CONSTANTS
  k1 = k1
  k2 = k2
  m1 = m1
  m2 = m2
  c1 = c1
  c2 = c2
  Secrets = {k1, k2}
  Memhs = {m1, m2}
  Contexts = {c1, c2}
  Epochs <- MCEpochs
  Environments <- MCHomeOnly
  Byte <- MCByte
  States <- MCPair
  SegmentSizes = {1, 2}
  MaxStreams = 2
  MaxEdits = 2
  None = None
SPECIFICATION FairSpec
INVARIANTS AcceptedPrefixIsGenuine SegmentsShareNoField
PROPERTIES CallsReturn ImplementsFairStore
