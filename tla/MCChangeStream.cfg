SPECIFICATION Spec
CONSTANTS
  r1 = r1
  r2 = r2
  prayA = prayA
  prayB = prayB
  keepK = keepK
  markY = markY
  setS = setS
  setT = setT
  prayerA = prayerA
  prayerB = prayerB
  itemK = itemK
  ayaY = ayaY
  tablet = tablet
  NoRow = NoRow
  NoTxn = NoTxn
  NoOp = NoOp
  Reader <- MCReader
  Op <- MCOp
  Row <- MCRow
  t1 = t1
  t2 = t2
  Txn <- MCTxn
  Device <- MCDevice
  OpReader <- MCOpReader
  OpRows <- MCOpRows
  RowReader <- MCRowReader
  DeviceReader <- MCDeviceReader
  InsertOnly <- MCInsertOnly
  Numbered <- MCNumbered
  Parent <- MCParent
  ChangePage = 1
  MaxSeq = 5
INVARIANTS
  TypeOK
  NothingMissed
  ExactlyOnce
  ParentFirst
  OrdinalsDense
SYMMETRY Handlers
