SPECIFICATION RxPagesFairSpec
CONSTANTS
  DescCount = 3
  Frames = 6
  Pages <- ManyPages
  KindMaps <- Mixes
INVARIANTS SortedExactlyOnce NoPageReused OnlyDroppedLeak
PROPERTY FramesSorted
