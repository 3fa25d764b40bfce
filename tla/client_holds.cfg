SPECIFICATION Spec
CONSTANTS
  Clients = {ann, bob}
  RootClients = {}
  NoClient = NoClient
  NoRow = NoRow
  Rows = {1}
  Uuids = {u}
  UuidOf <- OneUuid
  AllocTimeout = 4
  RenewalPeriod = 1
  MaxDelay = 1
  MaxLoad = 1
  MaxTime = 7
  MaxMisses = 1
  MaxWaiting = 1
  MaxRestarts = 1
SYMMETRY Perms
INVARIANTS TypeOK PlaysWhatItHolds ReleasedAtEnd
