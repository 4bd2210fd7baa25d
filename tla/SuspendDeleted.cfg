SPECIFICATION FairSpec
CONSTANTS
  m = m
  s = s
  t = t
  VMs = {m,s,t}
  Main = m
  Subs = {s}
  Toolboxes = {t}
  MaxGen = 3
  MaxFaults = 0
  Policies = {"retain"}
  UserDeletes = "asleep"
  MaxDeletes = 2
  MayDelete = FALSE
  Patient = TRUE
  VkMayFail = FALSE
PROPERTY KeepsSuspendedState
PROPERTY SpecIsMet
CHECK_DEADLOCK FALSE
