\* Three requests on one device; thresholds and cooldowns change by reload.
\* Breakers share nothing but the settings, so one device is enough.
SPECIFICATION FairSpec
CONSTANTS
  h1 = h1
  r1 = r1
  r2 = r2
  r3 = r3
  Hosts = {h1}
  Requests = {r1, r2, r3}
  Thresholds = {1, 3}
  Cooldowns = {1, 2, 3}
  MaxCooldown = 4
  Horizon = 4
  FailureCap = 3
  None = None
INVARIANTS
  BreakerTypeOK
  StateMatchesFailures
PROPERTIES
  AdmissionWaitsOutCooldown
  RecoveredDeviceIsHealthy
