SPECIFICATION Spec
CONSTANTS
  FbWidth = 52
  FbHeight = 67
  FbPitch = 216
  IntBits = 12
  Messages <- MessagesDef
  Moments = {25, 9999950, 99999999, 100000000}
  MaxPrints = 3
  MemBytes = 5
  Bytes = {0, 32, 97, 200}
  Numbers = {0, 1, 7, 9, 10}
  WordBits = 9
  HalfBits = 7
  PageBits = 5
CHECK_DEADLOCK FALSE
INVARIANTS
  ScreenRight
  StringsRight
  AddressesRight
  SaysWhatIsMeant
  TokensSpellTheText
