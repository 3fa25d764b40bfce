SPECIFICATION Spec
CONSTANTS
  Pids = {p1, p2, p3}
  NoFile = NoFile
  Blank = Blank
  Garbled = Garbled
  NoPid = NoPid
SYMMETRY Perms
INVARIANT OneClient
