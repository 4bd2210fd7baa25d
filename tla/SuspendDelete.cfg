SPECIFICATION Spec
CONSTANTS
  m = m
  s = s
  t = t
  VMs = {m,s}
  Main = m
  Subs = {s}
  Toolboxes = {}
  MaxGen = 2
  MaxFaults = 1
  Policies = {"retain"}
  UserDeletes = "any"
  MaxDeletes = 1
  MayDelete = TRUE
  Patient = FALSE
  VkMayFail = TRUE
INVARIANT DeleteLeavesNothing
CHECK_DEADLOCK FALSE
