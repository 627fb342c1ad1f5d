SPECIFICATION DRSpec
CONSTANTS
 Tries = 2
 MaxEvents = 2
 BOOT2_END = 2
 BLOCK_SIZE = 2
 Width = 3
 PageWord = 4
 Chips <- SmallChips
 MaxFlips = 2
 Misreads <- OneOrTwo
 Lengths = {2, 5}
 LengthWord = 4
 Retries = 2
 MaxLuns = {0, 1}
 MaxFaults = 1
 MaxRequests = 2
 Page = 4
 Packet = 2
 MaxQtd = 8
 Buffers <- SomeBuffers
 NumPorts = 2
 PortTries = 2
 MaxTroubles = 1
INVARIANTS
  CardRight
  BootRight
  StorageRight
  TransferRight
PROPERTIES
  DriversEnd
CHECK_DEADLOCK FALSE
