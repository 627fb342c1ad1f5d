SPECIFICATION Spec
CONSTANTS
  Names = {a, b}
  NoName = NoName
  Vals = {v}
  MAX_FILE = 2
  MaxClust = 4
  DirSize = 2
  Word = 4
  Modes <- RWMode
  Lengths <- Lengths1
  Buffers <- Buffers1
  Offsets <- Offsets1
  Faults = {"io", "twin"}
SYMMETRY Symmetry
CONSTRAINT UntilTwin
INVARIANTS
  VolumeSound
