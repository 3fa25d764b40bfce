CONSTANTS
  u1 = u1  u2 = u2  c1 = c1  c2 = c2  t1 = t1  t2 = t2  k1 = k1  k2 = k2
  Rows = {1, 2}
  Clients = {c1, c2}
  RootClients = {}
  NoClient = NoClient
  Uuids = {u1, u2}
  UuidOf <- MCSameUuid
  AllocTimeout = 1
  Conns = {t1}
  Cleaners = {k1, k2}
  Cli = Cli
  Main = Main
  NoThread = NoThread
  NoRow = NoRow
  Torn = Torn
  AdminOps <- AllOps
  FileTears = FALSE
  MaxTime = 2
  MaxToken = 1
  MaxCrashes = 0
SPECIFICATION Spec
PROPERTIES LockedRowFrozen ImplementsPool
SYMMETRY Sym
