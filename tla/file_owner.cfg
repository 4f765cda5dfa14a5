CONSTANTS
  SlotCount = 2
  UNGETC_BUF_SIZE = 1
  Fd = {d3, d4, d5}
  ModeUsed = {"r", "w+", "a", "bad"}
  File = {f1}
  NoFile = NoFile
  Nul = nul
  Newline = nl
  Byte = {nul, nl}
  DeviceSize = 1
SYMMETRY FdSymmetry
SPECIFICATION Spec
INVARIANTS
  TypeOK
  DescriptorOwnership
PROPERTIES
  StreamsAreIndependent
CHECK_DEADLOCK FALSE
