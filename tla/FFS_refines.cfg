SPECIFICATION Spec
CONSTANTS
  Names = {a, b}
  NoName = NoName
  v = v
  w = w
  Vals = {v, w}
  MAX_FILE = 2
  MaxClust = 4
  DirSize = 2
  Word = 8
  Modes <- RWMode
  Lengths <- Lengths2
  Buffers <- TwoBuffers
  Offsets <- Offsets1
  Faults = {}
PROPERTY
  StoreSpec
