SPECIFICATION FairSpec
CONSTANTS
  r1 = r1
  pray = pray
  keepK = keepK
  keepAgain = keepAgain
  setS = setS
  prayerA = prayerA
  itemK = itemK
  tablet = tablet
  t1 = t1
  t2 = t2
  NoRow = NoRow
  NoTxn = NoTxn
  NoOp = NoOp
  Reader <- MCReader
  Op <- MCOp
  Row <- MCRow
  Txn <- MCTxn
  Device <- MCDevice
  OpReader <- MCOpReader
  OpRows <- MCOpRows
  RowReader <- MCRowReader
  DeviceReader <- MCDeviceReader
  InsertOnly <- MCInsertOnly
  Numbered <- MCNumbered
  Parent <- MCParent
  ChangePage = 1
  MaxSeq = 3
PROPERTIES
  ImplementsFeed
  Delivered
