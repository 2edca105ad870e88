SPECIFICATION Spec
CONSTANTS
  r1 = r1
  r2 = r2
  g1 = g1
  w1 = w1
  w2 = w2
  primary = primary
  tenant = tenant
  alias = alias
  Request = {r1, r2}
  Migration = {g1}
  Loop = {l1, l2}
  Worker = {w1, w2}
  ThreadWorker = {w2}
  OwnerOf <- Owners
  DevOf <- Devs
  Db = {primary, tenant}
  Name = {primary, tenant, alias}
  Mapping <- Hosts
  Empty = Empty
  None = None
  Statements = 1
  MaxTime = 1
SYMMETRY Symm
CHECK_DEADLOCK FALSE
INVARIANTS
  TypeOK
  CountedOnce
  SlowestIsLongest
  FlagsKept
