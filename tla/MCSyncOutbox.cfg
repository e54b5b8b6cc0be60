SPECIFICATION Spec
CONSTANTS
  phone = phone
  tablet = tablet
  ayaY = ayaY
  itemK = itemK
  order = order
  surahP = surahP
  NoDevice = NoDevice
  Device <- MCDevice
  Mark <- NoKey
  Kept <- NoKey
  Prefs <- NoKey
  Position <- OnePosition
  Skew <- PhoneAhead
  FutureLimit = 1
  maxAttempts = 2
  MaxWrites = 2
  MaxOrphan = 2
INVARIANTS
  NoWriteLost
PROPERTIES
  OneAttemptPerFlush
