\* Two runs, which may overlap, a resume call and a stop, under fairness:
\* `read` runs unattended, `send` needs a human, `wipe` is refused.  Requests
\* that send, create and delete in a pool of one instance.
SPECIFICATION SpecRequests
CONSTANTS
  Runs = {r1, r2}
  Resumers = {h1}
  NoLoop = NoLoop
  NoAction = NoAction
  NoDecision = NoDecision
  Tools = {"read", "send", "wipe"}
  Gated = {"send"}
  Denied = {"wipe"}
  Delegates = {}
  DecisionTypes = {"approve", "reject"}
  MaxIterations = 1
  MaxBatch = 1
  MaxStops = 1
  Sessions = {default}
  Fresh = {f, g, h}
  Default = default
  Tasks = {t1, t2, t3}
  NoTask = NoTask
  Ops = {"chat", "new", "delete"}
  MaxSize = 1
  MaxChats = 9
INVARIANTS SerialApproval GatedCallRunsOnce WaitingIsServed DoneMeansQuiet
PROPERTIES RunsEnd ResumeIsAnswered EveryRequestEnds
CHECK_DEADLOCK FALSE
