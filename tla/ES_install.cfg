SPECIFICATION FairLists
CONSTANTS
  menu = menu
  game = game
  c1 = c1
  c2 = c2
  c3 = c3
  h0 = h0
  h1 = h1
  h2 = h2
  h3 = h3
  SysMenu = menu
  Titles = {menu, game}
  Bad = Bad
  None = None
  Torn = Torn
  Dirty = Dirty
  Ids = {c1, c2, c3}
  Hashes = {h0, h1, h2, h3}
  Tmds <- InstallTmds
  Jobs <- InstallJobs
  InitMap <- Map0
  InitUid = None
  EmptyLoads = TRUE
  MaxChunks = 2
  MaxTroubles = 3
  MaxFaults = 0
INVARIANTS
  InstalledRight
  ListsRight
PROPERTIES
  CommitLast
  NothingLost
  ImportsFinish
