SPECIFICATION RSpec
CONSTANTS
  phone = phone
  itemK = itemK
  NoDevice = NoDevice
  Device <- MCDevice
  Mark = {}
  Kept = {itemK}
  Prefs = {}
  Position = {}
  Skew <- InStep
  FutureLimit = 1
  maxAttempts = 2
  MaxWrites = 2
  MaxOrphan = 0
INVARIANT
  RefusalIsFinal
