CONSTANTS
  Byte <- MCByte
  MaxU32 = 24
  U32Len = 2
  U32 <- MCUint
  MaxU64 = 24
  U64Len = 2
  U64 <- MCUint
  Magic <- MCMagic
  Version = 1
  StreamMagic <- MCStreamMagic
  StreamVersion = 1
  Domain <- MCLabel
  KdfCanonTag <- MCLabel
  StreamDomain <- MCLabel
  NonceLen = 1
  SaltLen = 1
  CommitLen = 1
  StreamIdLen = 1
  TagLen = 1
  MemhLen = 1
  Memh <- MCMemh
  Draw <- MCDraw
  StreamId <- MCStreamId
  State <- MCState
  Epoch7 = 7
  Ctx <- MCCtx
  ChunkedState <- MCChunkedState
  SegmentSize = 2
  Inputs <- MCInputs
  Tails <- MCTails
  MaxOps = 2
SPECIFICATION Spec
INVARIANTS TypeOK OnlySCEErrorsEscape RoundTripExact OpensExactlyItsEnvelope OpensExactlyItsContainer ReadsWithinContainer DiagnosisIsTrue
