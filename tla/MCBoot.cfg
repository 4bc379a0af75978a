SPECIFICATION BootFairSpec
CONSTANTS
  Maps <- SmallMaps
  BlockSize = 131072
  NodeSize = 24
  NodesPerBlock = 63
  BusCount = 2
  DeviceCount = 2
  FunctionCount = 3
  Classes <- MCClasses
  ProgIFs = {0}
  AnyProgIF = AnyProgIF
  Cards <- MCCards
  ConfigSpaces <- Machines
  Main = Main
  Idle = Idle
  TxPoll = TxPoll
  RxPoll = RxPoll
  Ethernet = Ethernet
  Bridge = Bridge
  Intel8254xx = Intel8254xx
  OtherCard = OtherCard
INVARIANTS
  NothingOverlaps
  LongestUsable
  InterruptsFindHandlers
  PollersFindCardReady
  WalkComplete
  InterruptsComeBack
PROPERTY BootEnds
CHECK_DEADLOCK FALSE
