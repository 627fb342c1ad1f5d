SPECIFICATION Spec
CONSTANTS
  menu = menu
  game = game
  c1 = c1
  c2 = c2
  c3 = c3
  h0 = h0
  h1 = h1
  h2 = h2
  h3 = h3
  SysMenu = menu
  Titles = {menu}
  Bad = Bad
  None = None
  Torn = Torn
  Dirty = Dirty
  Ids = {c1}
  Hashes = {h1}
  Tmds <- LoneTmds
  InitMap <- NoMap
  InitUid = None
  EmptyLoads = TRUE
  MaxChunks = 1
  MaxFaults = 1
INVARIANTS
  TypeOK
  MapRight
