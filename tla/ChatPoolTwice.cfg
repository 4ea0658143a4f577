\* Eviction of an instance in the middle of a turn.
SPECIFICATION Spec
CONSTANTS
  Sessions = {default, a}
  Fresh = {f}
  Default = default
  Tasks = {t1, t2, t3}
  NoTask = NoTask
  Ops = {"chat"}
  MaxSize = 1
  MaxChats = 4
SYMMETRY TaskSymmetry
INVARIANTS SessionSerial
CHECK_DEADLOCK FALSE
