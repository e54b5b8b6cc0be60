SPECIFICATION Spec
CONSTANTS
  phone = phone
  tablet = tablet
  ayaY = ayaY
  itemK = itemK
  order = order
  surahP = surahP
  NoDevice = NoDevice
  Device <- MCDevice
  Mark <- NoKey
  Kept <- OneItem
  Prefs <- NoKey
  Position <- NoKey
  Skew <- PhoneAhead
  FutureLimit = 1
  maxAttempts = 2
  MaxWrites = 2
  MaxOrphan = 0
INVARIANTS
  CaughtUpAgrees
