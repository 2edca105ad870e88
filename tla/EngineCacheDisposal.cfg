SPECIFICATION Spec
CONSTANTS
  LoopCaller = {l1}
  ThreadCaller = {t1}
  Disposer = {d1}
  Db = {db}
  DefaultDb = db
  Target = {pg}
  AsyncTarget = {pg}
  Password = {p1, p2}
  Engine = {e1, e2, e3}
  NoName = NoName
  NoUrl = NoUrl
  NoEngine = NoEngine
  Free = Free
SYMMETRY Symm
INVARIANTS
  NoLeakedPool
