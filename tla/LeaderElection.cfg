\* Two replicas; the lease lasts for three renewal intervals.
SPECIFICATION Spec
CONSTANTS
  i1 = i1
  i2 = i2
  Instances = {i1, i2}
  Ttl = 6
  MaxDelay = 1
  None = None
INVARIANTS
  TypeOK
  BeliefOutlivesLeaseBriefly
  HealthyLeaderKeepsLease
