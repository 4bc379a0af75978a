SPECIFICATION PortFairSpec
CONSTANTS
  t1 = t1
  t2 = t2
  p1 = p1
  p2 = p2
  Tasks = {t1, t2}
  UsedPorts = {p1, p2}
  PortMaps <- BothMaps
  SlotCount = 2
  Calls = 2
INVARIANT CommandsExecuted
PROPERTY ExecuteReturns
CHECK_DEADLOCK FALSE
