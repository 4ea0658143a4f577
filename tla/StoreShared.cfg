\* The gateway and a tool server keep the same file.
SPECIFICATION Spec
CONSTANTS
  Procs = {gateway, engine}
  Keys = {user}
  Values = {x, y}
  NoValue = NoValue
  Unloaded = Unloaded
  Torn = Torn
  Gone = Gone
INVARIANT SharedPreferences
CHECK_DEADLOCK FALSE
