SPECIFICATION Spec
CONSTANTS
  m = m
  s = s
  t = t
  VMs = {m,s}
  Main = m
  Subs = {s}
  Toolboxes = {}
  MaxGen = 3
  MaxFaults = 0
  Policies = {"retain"}
  UserDeletes = "suspended"
  MaxDeletes = 1
  MayDelete = FALSE
  Patient = TRUE
  VkMayFail = FALSE
PROPERTY KeepsSuspendedState
CHECK_DEADLOCK FALSE
