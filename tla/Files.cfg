SPECIFICATION FilesSpec
CONSTANTS
 tmp = tmp
 import = import
 a = a
 b = b
 TreeNames = {tmp, import, a, b}
 TreeTmp = tmp
 TreeImport = import
 NameLen <- NameRows
 DirPaths <- SomeDirs
 FilePaths <- SomeFiles
 Moves <- SomeMoves
 Epc = 5
 TreeClust = 6
 Half = 5
 MaxTreeCuts = 1
 MaxDepth = 4
 SS = 2
 csize = 2
 WinClust = 5
 Bytes = {1, 2}
 WriteLens = {1, 2, 5}
 ReadLens = {1, 6}
 SeekTo = {0, 1, 3, 5}
 MaxOps = 5
 Paths = {"dst", "tmp", "cfg"}
 Tmp = {"tmp"}
 Dst = "dst"
 TmpDst = "tmp"
 Own = {"cfg"}
 MAX_FILE = 2
 MAX_HANDLES = 2
 Width = 16
 Capacity = 4
 Full = 2
 Lens = {1}
 Wheres <- BackAndOn
 MaxSafe = 2
 MaxCalls = 2
 MaxCuts = 1
 Asked <- SomeNames
 Up <- Caps
 HighChars = {"e"}
 BodyLen = 3
 ExtLen = 1
 RowLen = 2
 Numeral <- Numerals
 Plain = 1
 Hash <- SomeHash
 MaxNum = 3
 TableLen = 7
 SectorRows = 3
 MaxNameCuts = 1
 MaxNameOps = 4
 Volumes <- SomeVolumes
 Bases = {2}
 PerSector = 2
 Fat16 = 6
 Fat32 = 12
 MaxFaults = 2
 EntryNos = {1, 2, 3, 4, 5}
 Block = 2
 PerDir = 3
 Canned = {5}
 Trees <- WholeTrees
 MaxAsked = 2
INVARIANTS
  TreeRight
  WindowRight
  NamesRight
  ClientsRight
  MountRight
  ListingRight
PROPERTIES
  StepsKeep
  FilesEnd
CHECK_DEADLOCK FALSE
