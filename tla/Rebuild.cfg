SPECIFICATION FairSpec
CONSTANTS
  p1 = p1
  Slots = {p1}
  maxRebuildAttempts = 4
  MaxGen = 3
  MaxFaults = 2
  CacheLag = FALSE
INVARIANT TypeOK
INVARIANT RebuildBudget
PROPERTY ParkedPodIsLeft
PROPERTY ParkedSlotStaysEmpty
PROPERTY ChurnEnds
CHECK_DEADLOCK FALSE
