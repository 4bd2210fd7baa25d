SPECIFICATION FairSpec
CONSTANTS
  c1 = c1
  c2 = c2
  v1 = v1
  NoCR = NoCR
  CRs = {c1}
  VMs = {v1}
  PodRef <- AllOnV1
  Stripe <- OneStripe
  Desires <- AnyDesire
  Regimes <- HastyOrFaulty
  CacheLag = FALSE
  Faults = {"api", "registry", "crash"}
  MaxGen = 2
  MaxFaults = 2
  MaxFlips = 4
  MaxTimeouts = 1
  MaxDeletes = 0
  MaxEpochs = 20
INVARIANT TypeOK
PROPERTY HibernatedOnFreshSnapshot
PROPERTY WakeDropsOnlySpent
PROPERTY DesireIsMet
CHECK_DEADLOCK FALSE
