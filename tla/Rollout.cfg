SPECIFICATION FairSpec
CONSTANTS
  None = None
  NoPodSpec = NoPodSpec
  Options = {"image"}
  Quantities = {1, 2}
  Pools = {"pool", "default-pool"}
  DefaultPool = "default-pool"
  Classes = {"abi"}
  Accounts = {"default", "other"}
  DefaultAccount = "default"
  Envs = {"env"}
  Hints = {"vm1", "vm2"}
  LimitRange <- CpuDefault
  Specs <- SomeSpecs
  maxRebuildAttempts = 4
  MaxGen = 2
  MaxEvents = 1
INVARIANT TypeOK
INVARIANT HealthyIsNotParked
INVARIANT ConvergedIsRolledOut
PROPERTY RolloutIsReported
CHECK_DEADLOCK FALSE
