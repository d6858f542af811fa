\* Three targets, two slots and two threads that the other tools may take away.
SPECIFICATION Spec
CONSTANTS
  d1 = d1
  d2 = d2
  d3 = d3
  TargetLists <- MCTargetLists
  MaxConcurrent = 2
  Workers = 2
  None = None
INVARIANTS
  TypeOK
  EveryoneIsAccountedFor
  HealthyMeansAllAnswered
PROPERTIES
  EveryCallReturns
