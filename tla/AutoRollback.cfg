\* Two calls, within one second or not, and one thread with other tools.  A name whose
\* second no call begins in is like any name that people give.
SPECIFICATION AutoSpec
CONSTANTS
  c1 = c1
  c2 = c2
  o1 = o1
  Calls = {c1, c2}
  Others = {o1}
  Named = {}
  Horizon = 1
  None = None
INVARIANTS
  AutoTypeOK
  HealthIsJudgedAfterChange
  FailedChangesAreUndone
SYMMETRY CallsAreAlike
