CONSTANTS
  NotStr = NotStr
  NoBytes = NoBytes
  Strings <- MCStrings
  Nfc <- MCNfc
  Utf8 <- MCUtf8
  CoreFields <- MCFields
  Cores <- MCCores
  Keys <- MCKeys
  Values <- MCValues
  MaxLpField = 2
  MaxExtra = 2
  MaxManifests = 2
SPECIFICATION Spec
INVARIANTS TypeOK MemhIdentifiesEnvironment CachedMemhIsCurrent ClonesShareMemh
