SPECIFICATION Spec
CONSTANTS
  wii = wii
  wii2 = wii2
  gc = gc
  opening = opening
  data = data
  Games = {wii, wii2, gc}
  Names = {opening, data}
  Opening = opening
  None = None
  Bases = {"SNEEK", "UNEEK"}
  Dirs <- MCDirs
  Broken = {wii2}
  Disc <- MCDisc
  FST <- MCFST
  Size <- MCSize
  MAX_HANDLES = 6
  FILECACHE_MAX = 2
  Faults = {}
INVARIANTS
  NoAlias
