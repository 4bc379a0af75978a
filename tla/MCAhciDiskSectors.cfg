SPECIFICATION DiskSpec
CONSTANTS
  Chunk = 8192
  Counts = 65536
  Buffers <- OneBuffer
  Sectors <- SomeSectors
  PortCount = 3
  DriveMaps <- AllDriveMaps
  WildSizes <- UnknownSizes
  OldPages <- OldAnswers
INVARIANT
  WholeSectors
CHECK_DEADLOCK FALSE
