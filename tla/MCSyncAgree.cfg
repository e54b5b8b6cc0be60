SPECIFICATION Spec
CONSTANTS
  phone = phone
  tablet = tablet
  ayaY = ayaY
  itemK = itemK
  order = order
  surahP = surahP
  NoDevice = NoDevice
  Device <- MCDevice
  Mark <- OneMark
  Kept <- OneItem
  Prefs <- OnePref
  Position <- NoKey
  Skew <- InStep
  FutureLimit = 1
  maxAttempts = 1
  MaxWrites = 3
  MaxOrphan = 1
CONSTRAINT
  AnItemOrTwoRegisters
INVARIANTS
  CaughtUpAgrees
PROPERTIES
  StaysForgotten
SYMMETRY Alike
