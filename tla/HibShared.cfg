SPECIFICATION FairSpec
CONSTANTS
  c1 = c1
  c2 = c2
  v1 = v1
  NoCR = NoCR
  CRs = {c1, c2}
  VMs = {v1}
  PodRef <- AllOnV1
  Stripe <- OneStripe
  Desires <- OnlyHibernate
  Regimes <- Hasty
  CacheLag = FALSE
  Faults = {"registry", "api"}
  MaxGen = 1
  MaxFaults = 1
  MaxFlips = 2
  MaxTimeouts = 0
  MaxDeletes = 2
  MaxEpochs = 20
INVARIANT ExitObservedOnce
INVARIANT NoTaglessHibernated
INVARIANT OnePassPerVM
PROPERTY DeletionEnds
CHECK_DEADLOCK FALSE
