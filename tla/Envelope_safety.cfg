CONSTANTS
  k1 = k1
  k2 = k2
  m1 = m1
  m2 = m2
  c1 = c1
  c2 = c2
  Secrets = {k1, k2}
  Memhs = {m1, m2}
  Contexts = {c1, c2}
  Epochs <- MCEpochs
  Environments <- MCEnvironments
  States <- MCStates
  SealCountCeiling = 2
  MaxSeals = 2
  None = None
SPECIFICATION Spec
INVARIANTS OpensOnlyWhatWasSealed VerdictMatchesOpens SealsShareNoField
PROPERTIES ImplementsStore AeadTriedBeforeMismatch
