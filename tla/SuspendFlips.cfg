SPECIFICATION Spec
CONSTANTS
  m = m
  s = s
  t = t
  VMs = {m,s}
  Main = m
  Subs = {s}
  Toolboxes = {}
  MaxGen = 4
  MaxFaults = 1
  Policies = {"retain"}
  UserDeletes = "asleep"
  MaxDeletes = 0
  MayDelete = FALSE
  Patient = FALSE
  VkMayFail = FALSE
INVARIANT TypeOK
INVARIANT TagIsOwed
PROPERTY KeepsSuspendedState
PROPERTY SuspendedIsSaved
CHECK_DEADLOCK FALSE
