---------------------------- MODULE AgentRunner ----------------------------
(***************************************************************************)
(* One AgentRunner of mcp_cli/services/agents/runner.py and the requests   *)
(* that reach it: POST run, POST resume and POST stop of                   *)
(* vajra_gate/routers/agents.py.  A "loop" is a coroutine executing        *)
(* _execute_loop: a call of run(), or a call of resume() that found no     *)
(* active run and re-enters the loop itself.                               *)
(*                                                                         *)
(* asyncio runs one coroutine at a time.  `running` is the coroutine that  *)
(* holds the event loop between two awaits, NoLoop when the event loop is  *)
(* free to pick any task whose await has completed.                        *)
(***************************************************************************)
EXTENDS Naturals, Sequences

CONSTANTS
  Runs,           \* calls of AgentRunner.run
  Resumers,       \* calls of AgentRunner.resume, each made through the router
  NoLoop,         \* no coroutine: no active run, or nobody holds the event loop
  NoAction,       \* state.pending_interrupt is None
  NoDecision,     \* _resume_decisions is None
  Tools,          \* tool names the model may call
  Gated,          \* tools in config.interrupt_on
  Denied,         \* tools the permission gate or the argument parser refuses
  Delegates,      \* delegate_task / delegate_parallel
  DecisionTypes,  \* the decision types the human uses
  MaxIterations,  \* config.max_iterations
  MaxBatch,       \* bound: tool calls in one LLM message
  MaxStops        \* bound: stop requests

Loops == Runs \cup Resumers

ASSUME ConstantsAssumption ==
  /\ Runs \cap Resumers = {} /\ NoLoop \notin Runs \cup Resumers
  /\ Gated \subseteq Tools /\ Denied \subseteq Tools /\ Delegates \subseteq Tools
  /\ DecisionTypes \subseteq {"approve", "edit", "reject", "respond"}
  /\ MaxIterations \in Nat \ {0} /\ MaxBatch \in Nat \ {0} /\ MaxStops \in Nat

(* An ActionRequest, told apart by the loop that raised it and its position  *)
(* among that loop's requests.                                               *)
Action == [loop : Loops, nth : Nat, tool : Tools]

(* A ResumeDecision together with the pending action the human answered.     *)
Decision == [type : DecisionTypes, seen : Action]

(* A gated call that was executed, the pending action whose decision allowed *)
(* it, and the coroutine that executed it.                                   *)
Execution == [act : Action, seen : Action, by : Loops]

ASSUME SentinelAssumption == NoAction \notin Action /\ NoDecision \notin Decision

VARIABLES
  status,      \* state.status
  phase,       \* state.phase
  pending,     \* state.pending_interrupt
  decisions,   \* _resume_decisions, its first element (the only one used)
  event,       \* _resume_event.is_set()
  activeRun,   \* the run whose future is _active_run
  future,      \* future[r]: the future run r created
  pc,          \* where each loop is
  running,     \* the coroutine holding the event loop
  iteration,   \* the LLM exchange of each loop
  batch,       \* tool calls of the current message still to process
  asked,       \* interrupts each loop has raised
  ahead,       \* loops that were waiting on the event before this one
  outcome,     \* AgentResult.status of a loop, "none" before it has one
  awaiting,    \* the run whose future a resume call awaits
  stops,       \* stop requests made
  \* History, read by properties only:
  ran,         \* gated calls executed: the action, the action answered, the executor
  overlapped   \* run() was called while a run was in progress

stateVars == <<status, phase, pending, decisions, event>>
callVars  == <<activeRun, future, awaiting, stops, overlapped>>
loopVars  == <<pc, running, iteration, batch, asked, ahead, outcome>>
vars      == <<stateVars, callVars, loopVars, ran>>

(* Points at which a loop's coroutine is suspended in an await: memory or    *)
(* LLM I/O, the resume event (not yet / already signalled), a tool call, an  *)
(* approved tool call, writing memory files.                                 *)
Suspended == {"llm", "gate", "woken", "tool", "approved", "persist"}
InLoop    == Suspended \cup {"calls", "failing"}

Points == InLoop \cup {"idle", "redo", "await", "settled", "cancelled", "error"}

TypeOK ==
  /\ status \in {"idle", "running", "waiting", "completed", "failed"}
  /\ phase \in {"IDLE", "THINKING", "DELEGATING", "EXECUTING", "REPORTING", "DONE"}
  /\ pending \in Action \cup {NoAction}
  /\ decisions \in Decision \cup {NoDecision}
  /\ event \in BOOLEAN
  /\ activeRun \in Runs \cup {NoLoop}
  /\ future \in [Runs -> {"none", "open", "done"}]
  /\ pc \in [Loops -> Points]
  /\ running \in Loops \cup {NoLoop}
  /\ iteration \in [Loops -> 0..MaxIterations]
  /\ batch \in [Loops -> Seq(Tools)]
  /\ asked \in [Loops -> Nat]
  /\ ahead \in [Loops -> SUBSET Loops]
  /\ outcome \in [Loops -> {"none", "completed", "failed", "interrupted", "waiting"}]
  /\ awaiting \in [Resumers -> Runs \cup {NoLoop}]
  /\ stops \in 0..MaxStops
  /\ ran \in Seq(Execution)
  /\ overlapped \in BOOLEAN

Init ==
  /\ status = "idle" /\ phase = "IDLE"
  /\ pending = NoAction /\ decisions = NoDecision /\ event = FALSE
  /\ activeRun = NoLoop /\ future = [r \in Runs |-> "none"]
  /\ pc = [l \in Loops |-> "idle"] /\ running = NoLoop
  /\ iteration = [l \in Loops |-> 0] /\ batch = [l \in Loops |-> <<>>]
  /\ asked = [l \in Loops |-> 0] /\ ahead = [l \in Loops |-> {}]
  /\ outcome = [l \in Loops |-> "none"]
  /\ awaiting = [h \in Resumers |-> NoLoop]
  /\ stops = 0 /\ ran = <<>> /\ overlapped = FALSE

-----------------------------------------------------------------------------
Free == running = NoLoop

InProgress(l) == pc[l] \in InLoop \cup {"redo"}

(* Loop l's n-th request, about the call at the head of its batch, and the   *)
(* request it is paused on.                                                  *)
Request(l, n) == [loop |-> l, nth |-> n, tool |-> Head(batch[l])]
Asking(l) == Request(l, asked[l])

Move(l, point) == pc' = [pc EXCEPT ![l] = point]

(* A suspended loop resumes and keeps the event loop until its next await.   *)
Resumed(l, from) == Free /\ pc[l] = from

(* What run() resets: the pending action and the decisions, not the event.   *)
KeepDecisions    == pending' = NoAction /\ UNCHANGED decisions      \* mutant
FreshBookkeeping == pending' = NoAction /\ decisions' = NoDecision

SamePhase  == UNCHANGED phase                                       \* mutant
FirstPhase == phase' = "THINKING"

(* run(): fresh bookkeeping, a new future, then _bootstrap up to the first   *)
(* await.                                                                    *)
Start(r) ==
  /\ Free /\ pc[r] = "idle"
  /\ overlapped' = (overlapped \/ \E l \in Loops : InProgress(l))
  /\ status' = "running" /\ FreshBookkeeping /\ FirstPhase
  /\ activeRun' = r /\ future' = [future EXCEPT ![r] = "open"]
  /\ iteration' = [iteration EXCEPT ![r] = 1]
  /\ Move(r, "llm")
  /\ UNCHANGED <<event, awaiting, stops, running, batch, asked, ahead, outcome, ran>>

(* The model answers without tool calls: REPORTING, then memory is written.  *)
Answer(l) ==
  /\ Resumed(l, "llm")
  /\ phase' = "REPORTING" /\ Move(l, "persist")
  /\ UNCHANGED <<status, pending, decisions, event, callVars, running, iteration,
                 batch, asked, ahead, outcome, ran>>

(* The model answers with tool calls; the coroutine goes on to the batch.    *)
CallTools(l) ==
  /\ Resumed(l, "llm")
  /\ \E n \in 1..MaxBatch : \E calls \in [1..n -> Tools] :
       /\ batch' = [batch EXCEPT ![l] = calls]
       /\ phase' = IF \E i \in 1..n : calls[i] \in Delegates
                   THEN "DELEGATING" ELSE "EXECUTING"
  /\ Move(l, "calls") /\ running' = l
  /\ UNCHANGED <<status, pending, decisions, event, callVars, iteration, asked,
                 ahead, outcome, ran>>

(* An exception leaves _execute_loop: the LLM exchange fails or exhausts the *)
(* token budget, or an approved call raises (_process_decisions lets it      *)
(* through).  wait_for cancels a suspended loop in the same way, except in   *)
(* the part of resume() that precedes its wait_for ("redo").                 *)
Raise(l) ==
  /\ Free /\ pc[l] \in {"llm", "approved", "redo"}
  /\ Move(l, "failing") /\ running' = l
  /\ outcome' = [outcome EXCEPT ![l] = "failed"]
  /\ UNCHANGED <<stateVars, callVars, iteration, batch, asked, ahead, ran>>

NotAtGate == Suspended \ {"gate", "woken"}                          \* mutant
Timed     == Suspended

Timeout(l) ==
  /\ Free /\ pc[l] \in Timed
  /\ Move(l, "failing") /\ running' = l
  /\ outcome' = [outcome EXCEPT ![l] = "failed"]
  /\ UNCHANGED <<stateVars, callVars, iteration, batch, asked, ahead, ran>>

-----------------------------------------------------------------------------
(* _execute_tool_calls, one call per step.                                   *)

AtCall(l) == running = l /\ pc[l] = "calls" /\ batch[l] # <<>>

NextCall(l) == batch' = [batch EXCEPT ![l] = Tail(@)]

(* _parse_args or _perm_gate refuses the call: an error result, no await.    *)
Refuse(l) ==
  /\ AtCall(l) /\ Head(batch[l]) \in Denied
  /\ NextCall(l)
  /\ UNCHANGED <<stateVars, callVars, pc, running, iteration, asked, ahead, outcome, ran>>

Dispatch(l) ==
  /\ AtCall(l) /\ Head(batch[l]) \notin Denied \cup Gated
  /\ Move(l, "tool") /\ running' = NoLoop
  /\ UNCHANGED <<stateVars, callVars, iteration, batch, asked, ahead, outcome, ran>>

(* A tool call returned: dispatched (errors become its result) or approved.  *)
ToolReturns(l) ==
  /\ Free /\ pc[l] \in {"tool", "approved"}
  /\ NextCall(l) /\ Move(l, "calls") /\ running' = l
  /\ UNCHANGED <<stateVars, callVars, iteration, asked, ahead, outcome, ran>>

(* _hitl_gate up to `await _resume_event.wait()`, which does not suspend     *)
(* when the event is already set.                                            *)
AskHuman(l) ==
  /\ AtCall(l) /\ Head(batch[l]) \in Gated \ Denied
  /\ asked' = [asked EXCEPT ![l] = @ + 1]
  /\ pending' = Request(l, asked[l] + 1)
  /\ status' = "waiting"
  /\ IF event
     THEN Move(l, "woken") /\ UNCHANGED <<running, ahead>>
     ELSE /\ Move(l, "gate") /\ running' = NoLoop
          /\ ahead' = [m \in Loops |-> IF m = l THEN {k \in Loops : pc[k] \in {"gate", "woken"}}
                                      ELSE ahead[m] \ {l}]
  /\ UNCHANGED <<phase, decisions, event, callVars, iteration, batch, outcome, ran>>

(* Event.set wakes every waiter; they run in the order they began to wait.   *)
Wake == pc' = [m \in Loops |-> IF pc[m] = "gate" THEN "woken" ELSE pc[m]]

TakesEvent(l) ==
  /\ pc[l] = "woken"
  /\ \/ running = l
     \/ Free /\ \A m \in ahead[l] : pc[m] # "woken"
  /\ event' = FALSE /\ decisions' = NoDecision

(* The gate opens without decisions: the batch is abandoned.                 *)
AbandonGate(l) ==
  /\ TakesEvent(l) /\ decisions = NoDecision
  /\ status' = "failed"
  /\ Move(l, "failing") /\ running' = l
  /\ outcome' = [outcome EXCEPT ![l] = "interrupted"]
  /\ UNCHANGED <<phase, pending, callVars, iteration, batch, asked, ahead, ran>>

(* The gate opens with decisions: _process_decisions on the first of them.   *)
PassGate(l) ==
  /\ TakesEvent(l) /\ decisions # NoDecision
  /\ pending' = NoAction /\ status' = "running"
  /\ IF decisions.type \in {"approve", "edit"}
     THEN /\ ran' = Append(ran, [act |-> Asking(l), seen |-> decisions.seen, by |-> l])
          /\ Move(l, "approved") /\ running' = NoLoop
          /\ UNCHANGED batch
     ELSE Move(l, "calls") /\ running' = l /\ NextCall(l) /\ UNCHANGED ran
  /\ UNCHANGED <<phase, callVars, iteration, asked, ahead, outcome>>

LastIteration(l)     == iteration[l] = MaxIterations

(* An empty batch ends the iteration; the last iteration ends the loop.      *)
EndBatch(l) ==
  /\ running = l /\ pc[l] = "calls" /\ batch[l] = <<>>
  /\ IF LastIteration(l)
     THEN Move(l, "persist") /\ UNCHANGED iteration
     ELSE Move(l, "llm") /\ iteration' = [iteration EXCEPT ![l] = @ + 1]
  /\ running' = NoLoop
  /\ UNCHANGED <<stateVars, callVars, batch, asked, ahead, outcome, ran>>

-----------------------------------------------------------------------------
KeepWaiting(result)  == status' = IF status = "waiting" THEN status ELSE result  \* mutant
ReportStatus(result) == status' = result

LeaveFuture    == UNCHANGED future                                  \* mutant
ResolveActive ==
  future' = IF activeRun = NoLoop THEN future ELSE [future EXCEPT ![activeRun] = "done"]

(* run() returns: _finish_run, then the future in _active_run (whichever run *)
(* created it) gets the result.  An interrupted run drops the pending action *)
(* here; a timed-out one leaves it in place.                                 *)
RunReturns(r, result) ==
  /\ ReportStatus(result) /\ phase' = "DONE"
  /\ pending' = IF outcome[r] = "interrupted" THEN NoAction ELSE pending
  /\ activeRun' = NoLoop /\ ResolveActive
  /\ Move(r, "settled") /\ running' = NoLoop
  /\ UNCHANGED <<decisions, event, awaiting, stops, overlapped, iteration, batch, asked, ahead, ran>>

(* resume()'s own loop returns: an interrupt puts the action back and leaves *)
(* the agent waiting; no future is resolved.                                 *)
ReentryReturns(h, result) ==
  /\ IF result = "waiting"
     THEN pending' = Asking(h) /\ UNCHANGED phase
     ELSE phase' = "DONE" /\ UNCHANGED pending
  /\ status' = result
  /\ Move(h, "settled") /\ running' = NoLoop
  /\ UNCHANGED <<decisions, event, callVars, iteration, batch, asked, ahead, ran>>

Complete(l) ==
  /\ Resumed(l, "persist")
  /\ IF l \in Runs THEN RunReturns(l, "completed") ELSE ReentryReturns(l, "completed")
  /\ outcome' = [outcome EXCEPT ![l] = "completed"]

Fail(l) ==
  /\ running = l /\ pc[l] = "failing"
  /\ IF l \in Runs
     THEN RunReturns(l, "failed") /\ UNCHANGED outcome
     ELSE LET result == IF outcome[l] = "interrupted" THEN "waiting" ELSE "failed"
          IN ReentryReturns(l, result) /\ outcome' = [outcome EXCEPT ![l] = result]

(* The task awaiting run() is cancelled (the stream's client is gone, or a   *)
(* delegating tool call timed out): run() has no handler and no finally.     *)
Disconnect(r) ==
  /\ Free /\ pc[r] \in Suspended
  /\ Move(r, "cancelled")
  /\ UNCHANGED <<stateVars, callVars, running, iteration, batch, asked, ahead, outcome, ran>>

-----------------------------------------------------------------------------
(* POST resume: refused by the router unless the runner waits, and by        *)
(* resume() unless an action is pending; otherwise resume() up to its first  *)
(* await.                                                                    *)
ResumeRefused(h) ==
  /\ Free /\ pc[h] = "idle" /\ (status # "waiting" \/ pending = NoAction)
  /\ Move(h, "error")
  /\ UNCHANGED <<stateVars, callVars, running, iteration, batch, asked, ahead, outcome, ran>>

Decide(h, type) ==
  /\ Free /\ pc[h] = "idle" /\ status = "waiting" /\ pending # NoAction
  /\ decisions' = [type |-> type, seen |-> pending]
  /\ pending' = NoAction /\ event' = TRUE
  /\ UNCHANGED <<status, phase, activeRun, future, stops, overlapped, running, asked, ahead, outcome>>

(* A run is active: hand it the decision and await its future.               *)
Resume(h, type) ==
  /\ Decide(h, type) /\ activeRun # NoLoop
  /\ awaiting' = [awaiting EXCEPT ![h] = activeRun]
  /\ pc' = [m \in Loops |-> IF m = h THEN "await"
                            ELSE IF pc[m] = "gate" THEN "woken" ELSE pc[m]]
  /\ UNCHANGED <<iteration, batch, ran>>

AnyRun      == TRUE                                                 \* mutant
NoActiveRun == activeRun = NoLoop

(* No active run: resume() processes the decision and runs the loop itself.  *)
Reenter(h, type) ==
  /\ Decide(h, type) /\ NoActiveRun
  /\ pc' = [m \in Loops |->
              IF m = h THEN IF type \in {"approve", "edit"} THEN "redo" ELSE "llm"
              ELSE IF pc[m] = "gate" THEN "woken" ELSE pc[m]]
  /\ ran' = IF type \in {"approve", "edit"}
            THEN Append(ran, [act |-> pending, seen |-> pending, by |-> h]) ELSE ran
  /\ iteration' = [iteration EXCEPT ![h] = 1]
  /\ UNCHANGED <<awaiting, batch>>

RedoReturns(h) ==
  /\ Resumed(h, "redo") /\ Move(h, "llm")
  /\ UNCHANGED <<stateVars, callVars, running, iteration, batch, asked, ahead, outcome, ran>>

ResumeReturns(h) ==
  /\ Resumed(h, "await") /\ future[awaiting[h]] = "done"
  /\ Move(h, "settled")
  /\ UNCHANGED <<stateVars, callVars, running, iteration, batch, asked, ahead, outcome, ran>>

(* POST stop.                                                                *)
Stop ==
  /\ Free /\ stops < MaxStops
  /\ stops' = stops + 1
  /\ status' = "failed" /\ event' = TRUE /\ Wake
  /\ UNCHANGED <<phase, pending, decisions, activeRun, future, awaiting, overlapped,
                 running, iteration, batch, asked, ahead, outcome, ran>>

-----------------------------------------------------------------------------
LoopStep(l) ==
  \/ Answer(l) \/ CallTools(l) \/ Raise(l) \/ Timeout(l)
  \/ Refuse(l) \/ Dispatch(l) \/ ToolReturns(l) \/ AskHuman(l)
  \/ AbandonGate(l) \/ PassGate(l) \/ EndBatch(l)
  \/ Complete(l) \/ Fail(l)

HumanStep(h) ==
  \/ ResumeRefused(h) \/ RedoReturns(h) \/ ResumeReturns(h)
  \/ \E type \in DecisionTypes : Resume(h, type) \/ Reenter(h, type)

Next ==
  \/ \E r \in Runs : Start(r) \/ Disconnect(r)
  \/ \E l \in Loops : LoopStep(l)
  \/ \E h \in Resumers : HumanStep(h)
  \/ Stop

Spec == Init /\ [][Next]_vars

(* asyncio runs every ready coroutine, wait_for's timer fires, and awaited   *)
(* I/O is bounded by that timer except in "redo", whose tool call has the    *)
(* MCP client's own deadline.  Nothing obliges anyone to start, stop, resume *)
(* or disconnect.                                                            *)
Fairness ==
  /\ \A l \in Loops : /\ WF_vars(Timeout(l))
                      /\ WF_vars(LoopStep(l) /\ running = l)
  /\ \A h \in Resumers : /\ WF_vars(ResumeReturns(h))
                         /\ WF_vars(RedoReturns(h) \/ (pc[h] = "redo" /\ Raise(h)))

FairSpec == Spec /\ Fairness

-----------------------------------------------------------------------------
(* Safety.                                                                   *)

(* A gated tool runs only on a decision the human made about that very call: *)
(* neither a decision left over from an earlier pause nor one made about     *)
(* another loop's request is ever applied to it (runner.py:458-471).         *)
ApprovalMatchesAction == \A i \in 1..Len(ran) : ran[i].act = ran[i].seen

(* The same, as long as nobody calls run() while a run is in progress: stops,*)
(* timeouts, cancelled clients and late or repeated resume calls do no harm. *)
SerialApproval == ~overlapped => ApprovalMatchesAction

RanOnce == \A i, j \in 1..Len(ran) : ran[i].act = ran[j].act => i = j

(* A gated call is executed at most once however resume, stop, timeouts and  *)
(* later runs interleave: the active run and resume()'s own path never both  *)
(* process the same decision (runner.py:205-220).                            *)
GatedCallRunsOnce == ~overlapped => RanOnce

(* Whenever a request can find the runner reporting a pending action, some   *)
(* loop is paused on it: the answer has somebody to go to                    *)
(* (runner.py:450-456).  A cancelled run leaves its report behind.           *)
WaitingIsServed ==
  /\ Free /\ status = "waiting" /\ pending # NoAction
  /\ ~overlapped /\ \A r \in Runs : pc[r] # "cancelled"
  => \E l \in Loops : pc[l] \in {"gate", "woken"} /\ pending = Asking(l)

(* Once the runner reports a finished task (phase DONE, which also ends the  *)
(* event stream) nothing of that task executes any more (runner.py:258-261). *)
DoneMeansQuiet == ~overlapped /\ phase = "DONE" => \A l \in Loops : ~InProgress(l)

(* Liveness.                                                                 *)

(* Every loop ends, overlapping or not, also one whose human never answers:  *)
(* the timeout covers the pause at the gate (runner.py:171-174, 222-225).    *)
RunsEnd == \A l \in Loops : InProgress(l) ~> ~InProgress(l)

(* Every accepted decision is answered: the resume call that waits for the   *)
(* active run gets that run's result (runner.py:209-210), unless that run's  *)
(* task is cancelled, which resolves nothing.                                *)
ResumeIsAnswered ==
  \A h \in Resumers :
    pc[h] = "await" ~> (pc[h] # "await" \/ overlapped \/ pc[awaiting[h]] = "cancelled")
=============================================================================
