SPECIFICATION Spec
CONSTANTS
  Names = {a, b}
  NoName = NoName
  Vals = {v}
  MAX_FILE = 2
  MaxClust = 5
  DirSize = 2
  Word = 8
  Modes <- RWModes
  Lengths <- Lengths2
  Buffers <- Buffers2
  Offsets <- Offsets2
  Faults = {}
SYMMETRY Symmetry
INVARIANTS
  TypeOK
  VolumeSound
