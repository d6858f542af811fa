\* Two calls and one rollback on a device, one bulkhead slot; the host lock may be
\* replaced once.
SPECIFICATION Spec
CONSTANTS
  c1 = c1
  c2 = c2
  r1 = r1
  x = x
  Calls = {c1, c2}
  Rollbacks = {r1}
  Lines = {x}
  Changes <- SetOrBlank
  Slots = 1
  MaxGen = 1
  None = None
INVARIANTS
  TypeOK
  ExecutingHasWorker
  OnlyApprovedRuns
  NothingIsLeaked
  
SYMMETRY CallsAreAlike
CHECK_DEADLOCK FALSE
