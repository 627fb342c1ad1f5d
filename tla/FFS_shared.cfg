SPECIFICATION FairSpec
CONSTANTS
  Names = {a}
  NoName = NoName
  Vals = {v}
  MAX_FILE = 2
  MaxClust = 4
  DirSize = 1
  Word = 4
  Modes <- RWMode
  Lengths <- Lengths1
  Buffers <- Buffers1
  Offsets <- Offsets0
  Faults = {"share"}
INVARIANTS
  ChainsEnd
  PositionInFile
PROPERTIES
  RequestAnswered
