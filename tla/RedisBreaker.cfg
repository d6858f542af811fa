\* Two calls: one may overtake the other, and one more adds nothing to a copy.
SPECIFICATION Spec
CONSTANTS
  c1 = c1
  c2 = c2
  Calls = {c1, c2}
  Threshold = 2
  BaseCooldown = 1
  MaxCooldown = 3
  Horizon = 3
  FailureCap = 2
  Mishaps = TRUE
  Host = Host
  None = None
INVARIANT
  HashIsConsistent
PROPERTY
  MatchesLocalUnlessLate
