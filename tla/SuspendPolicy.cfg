SPECIFICATION FairSpec
CONSTANTS
  m = m
  s = s
  t = t
  VMs = {m}
  Main = m
  Subs = {}
  Toolboxes = {}
  MaxGen = 4
  MaxFaults = 2
  Policies = {"retain", "release"}
  UserDeletes = "asleep"
  MaxDeletes = 2
  MayDelete = FALSE
  Patient = TRUE
  VkMayFail = FALSE
PROPERTY KeepsSuspendedState
PROPERTY ReleasedIsSaved
PROPERTY SpecIsMet
CHECK_DEADLOCK FALSE
