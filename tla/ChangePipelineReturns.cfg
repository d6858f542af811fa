\* One call, which nobody rolls back, on a device whose host lock nobody replaces.
SPECIFICATION FairSpec
CONSTANTS
  c1 = c1
  x = x
  Calls = {c1}
  Rollbacks = {}
  Lines = {x}
  Changes <- SetOrBlank
  Slots = 1
  MaxGen = 0
  None = None
PROPERTY
  EveryCallReturns
CHECK_DEADLOCK FALSE
