SPECIFICATION MCSpec
CONSTANTS
  Bytes = {65, 187, 191, 239, 240}
  MaxBytes = 5
  MaxPiece = 3
  Objects = {o1, o2}
  NoObject = NoObject
  NameOrder <- MCNameOrder
  Lower <- MCLower
  Values = {v1, v2}
  Unpaired = {v2}
  MaxEntries = 4
  Urls = {u}
  Hosts = {h1, h2}
  Ports = {80}
  NoPort = NoPort
  Invalid = Invalid
  MaxQuery = 1
  Units = {0, 105, 255, 256}
  MaxUnits = 4
  MaxEdits = 2
SYMMETRY MCSymmetry
INVARIANTS
  DataTypeOK
  PiecesMakeTheWhole
  FatalIsExact
  NoHeaderLost
  LinkAgrees
  AtobUndoesBtoa
  AtobAcceptsBase64
PROPERTIES
  KeepsPromise
  LoopMeetsAll
CHECK_DEADLOCK FALSE
