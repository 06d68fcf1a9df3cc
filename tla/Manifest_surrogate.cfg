CONSTANTS
  NotStr = NotStr
  NoBytes = NoBytes
  Strings <- MCStrings
  Nfc <- MCNfc
  Utf8 <- MCUtf8
  CoreFields <- MCFields
  Cores <- MCCores
  Keys <- MCFaultyKeys
  Values <- MCFaultyValues
  MaxLpField = 2
  MaxExtra = 2
  MaxManifests = 2
SPECIFICATION Spec
INVARIANT OnlySCEErrorsEscape
