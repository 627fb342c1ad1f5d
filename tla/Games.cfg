SPECIFICATION GamesSpec
CONSTANTS
  wii = wii
  wii2 = wii2
  gc = gc
  opening = opening
  data = data
  Games = {wii, wii2, gc}
  Names = {opening, data}
  Opening = opening
  None = None
  Bases = {"SNEEK", "UNEEK"}
  Dirs <- MCDirs
  Broken = {wii2}
  Disc <- MCDisc
  FST <- MCFST
  Size <- MCSize
  MAX_HANDLES = 6
  FILECACHE_MAX = 2
  Faults = {"manual", "rebuild"}
  Discs = {1, 2}
  Layout <- SomeLayout
  BootEnd = 1
  Bi2End = 3
  MaxUnread = 1
  MaxRemoved = 2
  MaxChanges = 2
  NumGames = 5
  NumChannels = 3
  CoverRows = 2
  PlainRows = 4
  Pictured = {0, 1, 3}
  Patches = {1, 2}
  Presses <- SomePresses
INVARIANTS
  TypeOK
  ReadRight
  StoredRight
  SelectEnds
  DriveRight
  MenuRight
CHECK_DEADLOCK FALSE
