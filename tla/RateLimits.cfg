\* One request limited by user and device, one by the device alone.
SPECIFICATION Spec
CONSTANTS
  r1 = r1
  r2 = r2
  u = u
  h = h
  b1 = b1
  b2 = b2
  b3 = b3
  Requests = {r1, r2}
  Keys = {u, h}
  Hosts = {h}
  KeysOf <- MCKeysOf
  Buckets = {b1, b2, b3}
  Backends = {"local", "redis"}
  Rates = {1, 2}
  OtherRate = 1
  Burst = 3
  OtherBurst = 2
  Cost = 2
  MaxWait = 2
  MaxNap = 2
  Window = 2
  MaxWatch = 3
  None = None
SYMMETRY Symmetry
INVARIANTS
  TypeOK
  AdmissionsAreBounded
  OneCurrentBucketPerKey
