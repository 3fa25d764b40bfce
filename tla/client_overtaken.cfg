SPECIFICATION Spec
CONSTANTS
  Clients = {ann, bob}
  RootClients = {}
  NoClient = NoClient
  NoRow = NoRow
  Rows = {1}
  Uuids = {u}
  UuidOf <- OneUuid
  AllocTimeout = 2
  RenewalPeriod = 1
  MaxDelay = 1
  MaxLoad = 1
  MaxTime = 6
  MaxMisses = 0
  MaxWaiting = 2
  MaxRestarts = 0
SYMMETRY Perms
INVARIANT PlaysWhatItHolds
