CONSTANTS
  TableWidths <- MCTableWidths
  Cases <- MCCases
SPECIFICATION Spec
CHECK_DEADLOCK FALSE
INVARIANTS
  TypeOK
  MetaFindsEveryByte
  PacketsEncoded
  BuffersRestored
  DecodedIsCodingDrive0
  LibraryDecodes
  ArithmeticAgrees
