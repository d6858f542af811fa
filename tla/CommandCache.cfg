\* Three queries on one device, room for two answers; three shows and two changes.
SPECIFICATION Spec
CONSTANTS
  h1 = h1
  q1 = q1
  q2 = q2
  q3 = q3
  s1 = s1
  s2 = s2
  s3 = s3
  c1 = c1
  c2 = c2
  Hosts = {h1}
  Queries = {q1, q2, q3}
  Shows = {s1, s2, s3}
  Changes = {c1,c2}
  Sizes = {1, 2}
  MaxEntries = 2
  MaxMemory = 3
  Ttl = 1
  StaleTtl = 1
  None = None
INVARIANTS
  TypeOK
  MemoryIsNotOverstated
PROPERTIES
  ImplementsCoherentStore
SYMMETRY MCSymmetry
