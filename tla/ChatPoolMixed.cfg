\* Every kind of request, in a pool that is full with two instances.
SPECIFICATION Spec
CONSTANTS
  Sessions = {default, a}
  Fresh = {f}
  Default = default
  Tasks = {t1, t2, t3}
  NoTask = NoTask
  Ops = {"chat", "thread", "wait", "run", "reply", "model", "look", "new", "switch", "delete", "cron", "create"}
  MaxSize = 2
  MaxChats = 5
SYMMETRY TaskSymmetry
INVARIANTS PoolIsSound SerialWhileKept
PROPERTIES NoCloseInTurn ContextComplete
CHECK_DEADLOCK FALSE
