SPECIFICATION FairSpec
CONSTANTS
  m = m
  a = a
  b = b
  f = f
  NoNode = NoNode
  Registry = Registry
  Unborn = Unborn
  VMs = {m}
  Main = m
  Nodes = {a, b, f}
  Full = {f}
  MaxGen = 4
  MaxFaults = 1
  Patient = TRUE
  BindRace = FALSE
  VkMayFail = TRUE
INVARIANT TypeOK
PROPERTY KeepsLiveState
PROPERTY PinIsMet
CHECK_DEADLOCK FALSE
