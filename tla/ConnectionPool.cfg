\* Two devices competing for one pool entry; h2 is also reached by get_driver.
SPECIFICATION FairSpec
CONSTANTS
  h1 = h1
  h2 = h2
  t1 = t1
  t2 = t2
  d1 = d1
  d2 = d2
  d3 = d3
  l1 = l1
  l2 = l2
  l3 = l3
  Hosts = {h1, h2}
  Threads = {t1, t2}
  BareHosts = {h2}
  Drivers = {d1, d2, d3}
  Locks = {l1, l2, l3}
  MaxConnections = 1
  None = None
INVARIANTS
  TypeOK
  DriverInUseIsKept
  NoLeakedReference
PROPERTY
  LocksAreReturned
