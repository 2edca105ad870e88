SPECIFICATION Spec
CONSTANTS
  AsyncCaller = {a1, a2}
  SyncCaller = {s1, s2}
  Disposer = {d1}
  Db = {primary, other}
  DefaultDb = primary
  DefaultKey = default
  Client = {x1, x2, x3, x4}
  NoName = NoName
  NoClient = NoClient
  NoDb = NoDb
SYMMETRY Symm
CHECK_DEADLOCK FALSE
INVARIANTS
  ClientOfOwnDatabase
  KeyErrorOnlyAtShutdown
  UncachedOnlyAfterRace
