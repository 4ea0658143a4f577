\* Two overlapping runs of one agent.
\* `read` runs unattended, `send` needs a human, `wipe` is refused.
SPECIFICATION Spec
CONSTANTS
  Runs = {r1, r2}
  Resumers = {h1}
  NoLoop = NoLoop
  NoAction = NoAction
  NoDecision = NoDecision
  Tools = {"read", "send", "wipe"}
  Gated = {"send"}
  Denied = {"wipe"}
  Delegates = {}
  DecisionTypes = {"approve", "reject"}
  MaxIterations = 1
  MaxBatch = 1
  MaxStops = 0
INVARIANT ApprovalMatchesAction
CHECK_DEADLOCK FALSE
