SPECIFICATION ConsoleSpec
CONSTANTS
 MENU = 2
 BC = 256
 BCNAND = 512
 Others = 1000
 Installed <- SomeTitles
 Discs <- SomeDiscs
 Wanted = {30, 1000}
 Consoles <- SomeConsoles
 Fallback = 35
 MaxStarts = 2
 MaxAsks = 2
 Sectors <- SomeSectors
 Split = 3
 MaxRetry = 2
 Fsts <- SomeFsts
 ClusterData = 3
 Cluster = 4
 Word = 32
 MaxSwaps = 2
 MaxDumps = 2
 Titles = {1, 2}
 First = 1
 Tmds <- SomeTmds
 FFSHandles = {1, 2}
 Views = {2}
 MaxCalls = 6
 MaxSystems = 3
 MaxUnopened = 1
 MaxConfigCuts = 1
 MaxRuns = 2
 Channels0 = {1, 2, 3}
 MaxMoves = 4
 MaxUnlisted = 1
 MaxLosses = 1
INVARIANTS
  LaunchRight
  DumpRight
  
  RegionKept
  MenuRuns
  ChannelsRight
PROPERTIES
  ConsoleRuns
CHECK_DEADLOCK FALSE
