SPECIFICATION FairSpec
CONSTANTS
  m = m
  a = a
  b = b
  c1 = c1
  NoNode = NoNode
  Registry = Registry
  Unborn = Unborn
  NoCR = NoCR
  VMs = {m}
  Main = m
  Nodes = {a, b}
  Full = {}
  CRs = {c1}
  PodRef <- AllOnMain
  Stripe <- OneStripe
  Desires <- AnyDesire
  Regimes <- OneRegime
  CacheLag = FALSE
  Faults = {}
  MaxGen = 2
  MaxFaults = 1
  MaxFlips = 2
  MaxTimeouts = 0
  MaxEpochs = 20
  Patient = TRUE
  SlowPush = TRUE
  BindRace = FALSE
  VkMayFail = FALSE
INVARIANT TypeOK
PROPERTY KeepsLiveState
PROPERTY KeepsIntentThroughGap
PROPERTY DesireIsMet
PROPERTY PinIsMet
CHECK_DEADLOCK FALSE
