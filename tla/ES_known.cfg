SPECIFICATION InstallSpec
CONSTANTS
  menu = menu
  game = game
  c1 = c1
  c2 = c2
  c3 = c3
  h0 = h0
  h1 = h1
  h2 = h2
  h3 = h3
  SysMenu = menu
  Titles = {menu, game}
  Bad = Bad
  None = None
  Torn = Torn
  Dirty = Dirty
  Ids = {c1}
  Hashes = {h0, h1, h2, h3}
  Tmds <- KnownTmds
  Jobs <- KnownJobs
  InitMap <- Map0
  InitUid <- Uid0
  EmptyLoads = FALSE
  MaxChunks = 1
  MaxTroubles = 0
  MaxFaults = 0
INVARIANTS
  FinishSucceeds
