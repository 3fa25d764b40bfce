SPECIFICATION Spec
CONSTANTS
  Pids = {p1, p2, p3, p4}
  NoFile = NoFile
  Blank = Blank
  Garbled = Garbled
  NoPid = NoPid
SYMMETRY Perms
INVARIANTS TypeOK OneAtATime DeletesItsOwn
