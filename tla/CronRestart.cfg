\* One restart of the gateway.
SPECIFICATION Spec
CONSTANTS
  Jobs = {j1}
  NoJob = NoJob
  Absent = Absent
  Period = 2
  MaxRestarts = 1
  Stoppable = FALSE
PROPERTIES EveryJobRuns
CHECK_DEADLOCK FALSE
