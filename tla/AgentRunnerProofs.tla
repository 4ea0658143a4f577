------------------------- MODULE AgentRunnerProofs -------------------------
(* Theorems about AgentRunner, for any set of runs, resume calls and tools   *)
(* and any iteration and batch bounds.                                       *)
EXTENDS AgentRunner, TLAPS

(* A loop at a gated or dispatched call still has that call at the head of   *)
(* its batch, also after the gate was abandoned.                             *)
BatchHeld ==
  \A l \in Loops :
    pc[l] \in {"gate", "woken", "tool", "approved"}
      \/ (pc[l] = "failing" /\ outcome[l] = "interrupted")
    => batch[l] # <<>>

TypeInv == TypeOK /\ BatchHeld

LEMMA TailOfCalls ==
  ASSUME NEW s \in Seq(Tools), s # <<>>
  PROVE  Tail(s) \in Seq(Tools) /\ Head(s) \in Tools
OBVIOUS

LEMMA BatchesAreSequences ==
  ASSUME NEW n \in 1..MaxBatch, NEW calls \in [1..n -> Tools]
  PROVE  calls \in Seq(Tools)
BY ConstantsAssumption

LEMMA AppendExecution ==
  ASSUME NEW s \in Seq(Execution), NEW a \in Action, NEW b \in Action, NEW l \in Loops
  PROVE  Append(s, [act |-> a, seen |-> b, by |-> l]) \in Seq(Execution)
BY DEF Execution

LEMMA RequestIsAction ==
  ASSUME TypeInv, NEW l \in Loops, batch[l] # <<>>, NEW n \in Nat
  PROVE  Request(l, n) \in Action
BY TailOfCalls DEF TypeInv, TypeOK, Request, Action

LEMMA AskingIsAction ==
  ASSUME TypeInv, NEW l \in Loops, batch[l] # <<>>
  PROVE  Asking(l) \in Action
BY RequestIsAction DEF TypeInv, TypeOK, Asking

LEMMA PointsInclude ==
  /\ Suspended \subseteq Points
  /\ {"calls", "failing", "idle", "redo", "await", "settled", "cancelled", "error"} \subseteq Points
BY DEF Points, InLoop, Suspended

LEMMA BoundsAreNaturals ==
  /\ MaxIterations \in Nat \ {0} /\ MaxStops \in Nat
  /\ Runs \subseteq Loops /\ Resumers \subseteq Loops
BY ConstantsAssumption DEF Loops

LEMMA TypeInvInit == Init => TypeInv
<1> SUFFICES ASSUME Init PROVE TypeInv
  OBVIOUS
<1>1. /\ status \in {"idle", "running", "waiting", "completed", "failed"}
      /\ phase \in {"IDLE", "THINKING", "DELEGATING", "EXECUTING", "REPORTING", "DONE"}
      /\ pending \in Action \cup {NoAction}
      /\ decisions \in Decision \cup {NoDecision}
      /\ event \in BOOLEAN
  BY DEF Init
<1>2. /\ activeRun \in Runs \cup {NoLoop}
      /\ future \in [Runs -> {"none", "open", "done"}]
      /\ pc \in [Loops -> Points]
      /\ running \in Loops \cup {NoLoop}
  BY PointsInclude DEF Init
<1>3. iteration \in [Loops -> 0..MaxIterations] /\ stops \in 0..MaxStops
  BY BoundsAreNaturals DEF Init
<1>4. batch \in [Loops -> Seq(Tools)] /\ ran \in Seq(Execution)
  BY DEF Init
<1>5. /\ asked \in [Loops -> Nat]
      /\ ahead \in [Loops -> SUBSET Loops]
      /\ outcome \in [Loops -> {"none", "completed", "failed", "interrupted", "waiting"}]
  BY DEF Init
<1>6. awaiting \in [Resumers -> Runs \cup {NoLoop}] /\ overlapped \in BOOLEAN
  BY DEF Init
<1>7. BatchHeld
  BY DEF Init, BatchHeld
<1>8. QED
  BY <1>1, <1>2, <1>3, <1>4, <1>5, <1>6, <1>7 DEF TypeInv, TypeOK

LEMMA TypeInvStep == TypeInv /\ [Next]_vars => TypeInv'
<1> SUFFICES ASSUME TypeInv, [Next]_vars PROVE TypeInv'
  OBVIOUS
<1> USE DEF TypeInv, stateVars, callVars
<1>1. ASSUME NEW r \in Runs, Start(r) PROVE TypeInv'
  <2>1. TypeOK'
    BY <1>1, PointsInclude, BoundsAreNaturals DEF TypeOK, BatchHeld, Suspended, Start, FreshBookkeeping, FirstPhase, Free, Move
  <2>2. BatchHeld'
    BY <1>1 DEF TypeOK, BatchHeld, Start, FreshBookkeeping, FirstPhase, Free, Move
  <2>3. QED
    BY <2>1, <2>2
<1>2. ASSUME NEW r \in Runs, Disconnect(r) PROVE TypeInv'
  <2>1. TypeOK'
    BY <1>2, PointsInclude, BoundsAreNaturals DEF TypeOK, BatchHeld, Suspended, Disconnect, Free, Move
  <2>2. BatchHeld'
    BY <1>2 DEF TypeOK, BatchHeld, Disconnect, Free, Move
  <2>3. QED
    BY <2>1, <2>2
<1>3. ASSUME NEW l \in Loops, Answer(l) PROVE TypeInv'
  <2>1. TypeOK'
    BY <1>3, PointsInclude DEF TypeOK, BatchHeld, Suspended, Answer, Resumed, Free, Move
  <2>2. BatchHeld'
    BY <1>3 DEF TypeOK, BatchHeld, Answer, Resumed, Free, Move
  <2>3. QED
    BY <2>1, <2>2
<1>4. ASSUME NEW l \in Loops, CallTools(l) PROVE TypeInv'
  <2>1. TypeOK'
    BY <1>4, PointsInclude, BatchesAreSequences DEF TypeOK, BatchHeld, Suspended, CallTools, Resumed, Free, Move
  <2>2. BatchHeld'
    BY <1>4 DEF TypeOK, BatchHeld, CallTools, Resumed, Free, Move
  <2>3. QED
    BY <2>1, <2>2
<1>5. ASSUME NEW l \in Loops, Raise(l) PROVE TypeInv'
  <2>1. TypeOK'
    BY <1>5, PointsInclude DEF TypeOK, BatchHeld, Suspended, Raise, Free, Move
  <2>2. BatchHeld'
    BY <1>5 DEF TypeOK, BatchHeld, Raise, Free, Move
  <2>3. QED
    BY <2>1, <2>2
<1>6. ASSUME NEW l \in Loops, Timeout(l) PROVE TypeInv'
  <2>1. TypeOK'
    BY <1>6, PointsInclude DEF TypeOK, BatchHeld, Suspended, Timeout, Timed, Free, Move
  <2>2. BatchHeld'
    BY <1>6 DEF TypeOK, BatchHeld, Timeout, Timed, Free, Move
  <2>3. QED
    BY <2>1, <2>2
<1>7. ASSUME NEW l \in Loops, Refuse(l) PROVE TypeInv'
  <2>1. TypeOK'
    BY <1>7, TailOfCalls DEF TypeOK, BatchHeld, Suspended, Refuse, AtCall, NextCall
  <2>2. BatchHeld'
    BY <1>7 DEF TypeOK, BatchHeld, Refuse, AtCall, NextCall
  <2>3. QED
    BY <2>1, <2>2
<1>8. ASSUME NEW l \in Loops, Dispatch(l) PROVE TypeInv'
  <2>1. TypeOK'
    BY <1>8, PointsInclude DEF TypeOK, BatchHeld, Suspended, Dispatch, AtCall, Move
  <2>2. BatchHeld'
    BY <1>8 DEF TypeOK, BatchHeld, Dispatch, AtCall, Move
  <2>3. QED
    BY <2>1, <2>2
<1>9. ASSUME NEW l \in Loops, ToolReturns(l) PROVE TypeInv'
  <2>1. TypeOK'
    BY <1>9, PointsInclude, TailOfCalls DEF TypeOK, BatchHeld, Suspended, ToolReturns, Free, Move, NextCall
  <2>2. BatchHeld'
    BY <1>9 DEF TypeOK, BatchHeld, ToolReturns, Free, Move, NextCall
  <2>3. QED
    BY <2>1, <2>2
<1>10. ASSUME NEW l \in Loops, AskHuman(l) PROVE TypeInv'
  <2>1. batch[l] # <<>> /\ asked[l] + 1 \in Nat
    BY <1>10 DEF TypeOK, AskHuman, AtCall
  <2>2. pending' \in Action
    BY <1>10, <2>1,  RequestIsAction DEF AskHuman
  <2>3. pc' \in [Loops -> Points] /\ running' \in Loops \cup {NoLoop}
    BY <1>10, PointsInclude DEF TypeOK, Suspended, AskHuman, Move
  <2>4. ahead' \in [Loops -> SUBSET Loops]
    <3>1. CASE event
      BY <1>10, <3>1 DEF TypeOK, AskHuman
    <3>2. CASE ~event
      <4> DEFINE waiting == {k \in Loops : pc[k] \in {"gate", "woken"}}
      <4>1. ahead' = [m \in Loops |-> IF m = l THEN waiting ELSE ahead[m] \ {l}]
        BY <1>10, <3>2 DEF AskHuman
      <4>2. waiting \subseteq Loops /\ \A m \in Loops : ahead[m] \ {l} \subseteq Loops
        BY DEF TypeOK
      <4> HIDE DEF waiting
      <4>3. QED
        BY <4>1, <4>2
    <3>3. QED
      BY <3>1, <3>2
  <2>5. TypeOK'
    BY <1>10, <2>1, <2>2, <2>3, <2>4, PointsInclude DEF TypeOK, BatchHeld, Suspended, AskHuman, AtCall, Move
  <2>6. BatchHeld'
    BY <1>10 DEF TypeOK, BatchHeld, AskHuman, AtCall, Move
  <2>7. QED
    BY <2>5, <2>6
<1>11. ASSUME NEW l \in Loops, AbandonGate(l) PROVE TypeInv'
  <2>1. TypeOK'
    BY <1>11, PointsInclude DEF TypeOK, BatchHeld, Suspended, AbandonGate, TakesEvent, Move
  <2>2. BatchHeld'
    BY <1>11 DEF TypeOK, BatchHeld, AbandonGate, TakesEvent, Move
  <2>3. QED
    BY <2>1, <2>2
<1>12. ASSUME NEW l \in Loops, PassGate(l) PROVE TypeInv'
  <2>1. batch[l] # <<>> /\ Asking(l) \in Action
    BY <1>12, AskingIsAction DEF TypeOK, BatchHeld, PassGate, TakesEvent
  <2>2. decisions.seen \in Action
    BY <1>12 DEF TypeOK, PassGate, Decision
  <2>3. ran' \in Seq(Execution)
    <3>1. ran' = Append(ran, [act |-> Asking(l), seen |-> decisions.seen, by |-> l])
            \/ ran' = ran
      BY <1>12 DEF PassGate
    <3>2. ran \in Seq(Execution) /\ l \in Loops
      BY DEF TypeOK
    <3>3. Append(ran, [act |-> Asking(l), seen |-> decisions.seen, by |-> l]) \in Seq(Execution)
      BY <2>1, <2>2, <3>2, AppendExecution
    <3>4. QED
      BY <3>1, <3>2, <3>3
  <2>4. batch' \in [Loops -> Seq(Tools)]
    <3>1. Tail(batch[l]) \in Seq(Tools)
      BY <2>1, TailOfCalls DEF TypeOK
    <3>2. batch' = [batch EXCEPT ![l] = Tail(batch[l])] \/ batch' = batch
      BY <1>12 DEF PassGate, NextCall
    <3>3. QED
      BY <3>1, <3>2 DEF TypeOK
  <2>5. pc' \in [Loops -> Points] /\ running' \in Loops \cup {NoLoop}
    BY <1>12, PointsInclude DEF TypeOK, Suspended, PassGate, Move
  <2>6. TypeOK'
    BY <1>12, <2>1, <2>2, <2>3, <2>4, <2>5, PointsInclude, TailOfCalls, AskingIsAction DEF TypeOK, BatchHeld, Suspended, PassGate, TakesEvent, Move, NextCall
  <2>7. BatchHeld'
    BY <1>12 DEF TypeOK, BatchHeld, PassGate, TakesEvent, Move, NextCall
  <2>8. QED
    BY <2>6, <2>7
<1>13. ASSUME NEW l \in Loops, EndBatch(l) PROVE TypeInv'
  <2>1. iteration' \in [Loops -> 0..MaxIterations]
    <3>1. iteration[l] # MaxIterations => iteration[l] + 1 \in 0..MaxIterations
      BY BoundsAreNaturals DEF TypeOK
    <3>2. QED
      BY <1>13, <3>1 DEF TypeOK, EndBatch, LastIteration
  <2>2. pc' \in [Loops -> Points]
    BY <1>13, PointsInclude DEF TypeOK, Suspended, EndBatch, LastIteration, Move
  <2>3. TypeOK'
    BY <1>13, <2>1, <2>2, PointsInclude, BoundsAreNaturals DEF TypeOK, BatchHeld, Suspended, EndBatch, LastIteration, Move
  <2>4. BatchHeld'
    BY <1>13 DEF TypeOK, BatchHeld, EndBatch, LastIteration, Move
  <2>5. QED
    BY <2>3, <2>4
<1>14. ASSUME NEW l \in Loops, Complete(l) PROVE TypeInv'
  <2>1. outcome' \in [Loops -> {"none", "completed", "failed", "interrupted", "waiting"}]
    BY <1>14 DEF TypeOK, Complete
  <2>2. future' \in [Runs -> {"none", "open", "done"}]
    BY <1>14 DEF TypeOK, Complete, RunReturns, ReportStatus, ResolveActive, ReentryReturns, callVars
  <2>3. pc' \in [Loops -> Points]
    BY <1>14, PointsInclude DEF TypeOK, Complete, RunReturns, ReportStatus, ResolveActive, ReentryReturns, Move
  <2>4. status' \in {"idle", "running", "waiting", "completed", "failed"}
    BY <1>14 DEF TypeOK, Complete, RunReturns, ReportStatus, ResolveActive, ReentryReturns
  <2>5. TypeOK'
    BY <1>14, <2>1, <2>2, <2>3, <2>4, PointsInclude, BoundsAreNaturals DEF TypeOK, Suspended, Complete, RunReturns, ReportStatus, ResolveActive, ReentryReturns, Move
  <2>6. BatchHeld'
    BY <1>14 DEF TypeOK, BatchHeld, Complete, RunReturns, ReportStatus, ResolveActive, ReentryReturns, Resumed, Free, Move
  <2>7. QED
    BY <2>5, <2>6
<1>15. ASSUME NEW l \in Loops, Fail(l) PROVE TypeInv'
  <2>1. outcome[l] = "interrupted" => Asking(l) \in Action
    BY <1>15, AskingIsAction DEF BatchHeld, Fail
  <2>2. pending' \in Action \cup {NoAction}
    BY <1>15, <2>1 DEF TypeOK, Fail, RunReturns, ReportStatus, ResolveActive, ReentryReturns
  <2>3. outcome' \in [Loops -> {"none", "completed", "failed", "interrupted", "waiting"}]
    BY <1>15 DEF TypeOK, Fail
  <2>4. future' \in [Runs -> {"none", "open", "done"}]
    BY <1>15 DEF TypeOK, Fail, RunReturns, ReportStatus, ResolveActive, ReentryReturns, callVars
  <2>5. pc' \in [Loops -> Points]
    BY <1>15, PointsInclude DEF TypeOK, Fail, RunReturns, ReportStatus, ResolveActive, ReentryReturns, Move
  <2>6. status' \in {"idle", "running", "waiting", "completed", "failed"}
    BY <1>15 DEF TypeOK, Fail, RunReturns, ReportStatus, ResolveActive, ReentryReturns
  <2>7. TypeOK'
    BY <1>15, <2>1, <2>2, <2>3, <2>4, <2>5, <2>6, PointsInclude, BoundsAreNaturals, AskingIsAction DEF TypeOK, BatchHeld, Suspended, Fail, RunReturns, ReportStatus, ResolveActive, ReentryReturns, Move
  <2>8. BatchHeld'
    BY <1>15 DEF TypeOK, BatchHeld, Fail, RunReturns, ReportStatus, ResolveActive, ReentryReturns, Move
  <2>9. QED
    BY <2>7, <2>8
<1>16. ASSUME NEW h \in Resumers, ResumeRefused(h) PROVE TypeInv'
  <2>1. TypeOK'
    BY <1>16, PointsInclude, BoundsAreNaturals DEF TypeOK, BatchHeld, Suspended, ResumeRefused, Free, Move
  <2>2. BatchHeld'
    BY <1>16 DEF TypeOK, BatchHeld, ResumeRefused, Free, Move
  <2>3. QED
    BY <2>1, <2>2
<1>17. ASSUME NEW h \in Resumers, RedoReturns(h) PROVE TypeInv'
  <2>1. TypeOK'
    BY <1>17, PointsInclude, BoundsAreNaturals DEF TypeOK, BatchHeld, Suspended, RedoReturns, Resumed, Free, Move
  <2>2. BatchHeld'
    BY <1>17 DEF TypeOK, BatchHeld, RedoReturns, Resumed, Free, Move
  <2>3. QED
    BY <2>1, <2>2
<1>18. ASSUME NEW h \in Resumers, ResumeReturns(h) PROVE TypeInv'
  <2>1. TypeOK'
    BY <1>18, PointsInclude, BoundsAreNaturals DEF TypeOK, BatchHeld, Suspended, ResumeReturns, Resumed, Free, Move
  <2>2. BatchHeld'
    BY <1>18 DEF TypeOK, BatchHeld, ResumeReturns, Resumed, Free, Move
  <2>3. QED
    BY <2>1, <2>2
<1>19. ASSUME NEW h \in Resumers, NEW type \in DecisionTypes, Resume(h, type) PROVE TypeInv'
  <2>1. pending \in Action /\ decisions' \in Decision
    BY <1>19 DEF TypeOK, Resume, Decide, Decision
  <2>2. pc' \in [Loops -> Points]
    BY <1>19, PointsInclude DEF TypeOK, Suspended, Resume
  <2>3. TypeOK'
    BY <1>19, <2>1, <2>2, PointsInclude, BoundsAreNaturals DEF TypeOK, BatchHeld, Suspended, Resume, Decide, Free
  <2>4. BatchHeld'
    BY <1>19 DEF TypeOK, BatchHeld, Resume, Decide, Free
  <2>5. QED
    BY <2>3, <2>4
<1>20. ASSUME NEW h \in Resumers, NEW type \in DecisionTypes, Reenter(h, type) PROVE TypeInv'
  <2>1. pending \in Action /\ decisions' \in Decision
    BY <1>20 DEF TypeOK, Reenter, NoActiveRun, Decide, Decision
  <2>2. pc' \in [Loops -> Points]
    BY <1>20, PointsInclude DEF TypeOK, Suspended, Reenter
  <2>3. ran' \in Seq(Execution)
    BY <1>20, <2>1, BoundsAreNaturals, AppendExecution DEF TypeOK, Reenter
  <2>4. TypeOK'
    BY <1>20, <2>1, <2>2, <2>3, PointsInclude, BoundsAreNaturals DEF TypeOK, BatchHeld, Suspended, Reenter, NoActiveRun, Decide, Free
  <2>5. BatchHeld'
    BY <1>20 DEF TypeOK, BatchHeld, Reenter, NoActiveRun, Decide, Free
  <2>6. QED
    BY <2>4, <2>5
<1>21. ASSUME Stop PROVE TypeInv'
  <2>1. TypeOK'
    BY <1>21, PointsInclude, BoundsAreNaturals DEF TypeOK, BatchHeld, Suspended, Stop, Free, Wake
  <2>2. BatchHeld'
    BY <1>21 DEF TypeOK, BatchHeld, Stop, Free, Wake
  <2>3. QED
    BY <2>1, <2>2
<1>22. CASE UNCHANGED vars
  BY <1>22 DEF vars, loopVars, TypeOK, BatchHeld
<1>23. QED
  BY <1>1, <1>2, <1>3, <1>4, <1>5, <1>6, <1>7, <1>8, <1>9, <1>10, <1>11, <1>12, <1>13, <1>14, <1>15, <1>16, <1>17, <1>18, <1>19, <1>20, <1>21, <1>22 DEF Next, LoopStep, HumanStep

(* Every state reachable from Init is well typed, with or without           *)
(* overlapping runs and cancelled clients.                                   *)
THEOREM TypeCorrect == Spec => []TypeOK
<1>1. TypeInv => TypeOK
  BY DEF TypeInv
<1>2. QED
  BY <1>1, TypeInvInit, TypeInvStep, PTL DEF Spec

-----------------------------------------------------------------------------
(* One run at a time.  The invariant ties the flat fields of the runner to   *)
(* the one loop in progress: _active_run is its future, status "waiting"     *)
(* means that it stands at its gate, the pending action and the decision are *)
(* about the call it stands at, and every execution precedes its current     *)
(* request.                                                                  *)

AtGate(l) == pc[l] \in {"gate", "woken"}

OneInProgress == \A l, m \in Loops : InProgress(l) /\ InProgress(m) => l = m

NeverReenters == \A h \in Resumers : ~InProgress(h)

OwnsFuture == \A r \in Runs : InProgress(r) => activeRun = r

FailingHoldsLoop == \A r \in Runs : pc[r] \in {"failing", "calls"} => running = r

WaitingAtGate ==
  status = "waiting" =>
    /\ activeRun # NoLoop
    /\ \A r \in Runs : InProgress(r) => AtGate(r) \/ pc[r] = "failing"

PendingIsAsked ==
  pending # NoAction => \A r \in Runs : AtGate(r) => pending = Asking(r)

DecisionIsForAsked ==
  decisions # NoDecision =>
    \A r \in Runs : InProgress(r) =>
      /\ pc[r] \in {"woken", "failing"}
      /\ pc[r] = "woken" => decisions.seen = Asking(r)

PastExecutions ==
  \A i \in 1..Len(ran) :
    LET a == ran[i].act IN
      /\ a.loop \in Runs /\ a.nth <= asked[a.loop]
      /\ AtGate(a.loop) => a.nth < asked[a.loop]

DoneIsQuiet == phase = "DONE" => \A r \in Runs : ~InProgress(r)

Control ==
  /\ OneInProgress /\ NeverReenters /\ OwnsFuture /\ FailingHoldsLoop
  /\ WaitingAtGate /\ DoneIsQuiet

Answers == PendingIsAsked /\ DecisionIsForAsked

Executions == PastExecutions /\ ApprovalMatchesAction /\ RanOnce

SerialInv == Control /\ Answers /\ Executions

LEMMA NoLoopIsNoRun == NoLoop \notin Loops /\ Runs \cap Resumers = {}
BY ConstantsAssumption DEF Loops

LEMMA ExecutionsTyped ==
  ASSUME TypeInv
  PROVE  \A i \in 1..Len(ran) : ran[i].act.nth \in Nat /\ ran[i].act.loop \in Loops
<1> SUFFICES ASSUME NEW i \in 1..Len(ran)
    PROVE  ran[i].act.nth \in Nat /\ ran[i].act.loop \in Loops
  OBVIOUS
<1>1. ran \in Seq(Execution)
  BY DEF TypeInv, TypeOK
<1>2. ran[i] \in Execution
  BY <1>1
<1>3. ran[i].act \in Action
  BY <1>2 DEF Execution
<1>4. QED
  BY <1>3 DEF Action

LEMMA SoleLoop ==
  ASSUME SerialInv, NEW l \in Loops, InProgress(l)
  PROVE  l \in Runs /\ \A m \in Loops : InProgress(m) => m = l
BY DEF SerialInv, Control, OneInProgress, NeverReenters, Loops

LEMMA ControlStep ==
  ASSUME ~overlapped', TypeInv, SerialInv, [Next]_vars
  PROVE  Control'
<1> USE BoundsAreNaturals, NoLoopIsNoRun DEF TypeInv, TypeOK, SerialInv, Control, InProgress, AtGate, InLoop, Suspended, stateVars, callVars
<1>1. ASSUME NEW r \in Runs, Start(r) PROVE Control'
  <2>1. \A l \in Loops : ~InProgress(l)
    BY <1>1 DEF Start
  <2>2. pc' = [pc EXCEPT ![r] = "llm"] /\ status' = "running" /\ phase' = "THINKING"
        /\ activeRun' = r /\ future' = [future EXCEPT ![r] = "open"] /\ running = NoLoop
        /\ UNCHANGED running /\ UNCHANGED outcome
    BY <1>1 DEF Start, Free, Move, FirstPhase
  <2>3. \A l \in Loops : InProgress(l)' => l = r
    BY <2>1, <2>2
  <2>4. OneInProgress' /\ NeverReenters' /\ OwnsFuture'
    BY <2>2, <2>3, ConstantsAssumption DEF OneInProgress, NeverReenters, OwnsFuture
  <2>5. FailingHoldsLoop' /\ WaitingAtGate' /\ DoneIsQuiet'
    BY <2>2, <2>3 DEF FailingHoldsLoop, WaitingAtGate, DoneIsQuiet
  <2>6. QED
    BY <2>4, <2>5
<1>2. ASSUME NEW r \in Runs, Disconnect(r) PROVE Control'
  BY <1>2 DEF OneInProgress, NeverReenters, OwnsFuture, FailingHoldsLoop, WaitingAtGate, DoneIsQuiet, Disconnect, Free, Move
<1>3. ASSUME NEW l \in Loops, Answer(l) PROVE Control'
  BY <1>3 DEF OneInProgress, NeverReenters, OwnsFuture, FailingHoldsLoop, WaitingAtGate, DoneIsQuiet, Answer, Resumed, Free, Move
<1>4. ASSUME NEW l \in Loops, CallTools(l) PROVE Control'
  BY <1>4 DEF OneInProgress, NeverReenters, OwnsFuture, FailingHoldsLoop, WaitingAtGate, DoneIsQuiet, CallTools, Resumed, Free, Move
<1>5. ASSUME NEW l \in Loops, Raise(l) PROVE Control'
  BY <1>5 DEF OneInProgress, NeverReenters, OwnsFuture, FailingHoldsLoop, WaitingAtGate, DoneIsQuiet, Raise, Free, Move
<1>6. ASSUME NEW l \in Loops, Timeout(l) PROVE Control'
  BY <1>6 DEF OneInProgress, NeverReenters, OwnsFuture, FailingHoldsLoop, WaitingAtGate, DoneIsQuiet, Timeout, Timed, Free, Move
<1>7. ASSUME NEW l \in Loops, Refuse(l) PROVE Control'
  BY <1>7 DEF OneInProgress, NeverReenters, OwnsFuture, FailingHoldsLoop, WaitingAtGate, DoneIsQuiet, Refuse, AtCall, NextCall
<1>8. ASSUME NEW l \in Loops, Dispatch(l) PROVE Control'
  BY <1>8 DEF OneInProgress, NeverReenters, OwnsFuture, FailingHoldsLoop, WaitingAtGate, DoneIsQuiet, Dispatch, AtCall, Move
<1>9. ASSUME NEW l \in Loops, ToolReturns(l) PROVE Control'
  BY <1>9 DEF OneInProgress, NeverReenters, OwnsFuture, FailingHoldsLoop, WaitingAtGate, DoneIsQuiet, ToolReturns, Free, Move, NextCall
<1>10. ASSUME NEW l \in Loops, AskHuman(l) PROVE Control'
  <2>1. InProgress(l)
    BY <1>10 DEF AskHuman, AtCall, Move
  <2>2. l \in Runs /\ \A m \in Loops : InProgress(m) => m = l
    BY <2>1, SoleLoop
  <2>3. \A m \in Loops \ {l} : pc'[m] = pc[m]
    BY <1>10 DEF AskHuman, AtCall, Move
  <2>4. OneInProgress'
    BY <1>10, <2>1, <2>2, <2>3 DEF OneInProgress, AskHuman, AtCall, Move
  <2>5. NeverReenters'
    BY <1>10, <2>1, <2>2, <2>3 DEF NeverReenters, AskHuman, AtCall, Move
  <2>6. OwnsFuture'
    BY <1>10, <2>1, <2>2, <2>3 DEF OwnsFuture, AskHuman, AtCall, Move
  <2>7. FailingHoldsLoop'
    BY <1>10, <2>1, <2>2, <2>3 DEF FailingHoldsLoop, AskHuman, AtCall, Move
  <2>8. WaitingAtGate'
    BY <1>10, <2>1, <2>2, <2>3 DEF WaitingAtGate, OwnsFuture, AskHuman, AtCall, Move
  <2>9. DoneIsQuiet'
    BY <1>10, <2>1, <2>2, <2>3 DEF DoneIsQuiet, AskHuman, AtCall, Move
  <2>10. QED
    BY <2>4, <2>5, <2>6, <2>7, <2>8, <2>9
<1>11. ASSUME NEW l \in Loops, AbandonGate(l) PROVE Control'
  BY <1>11 DEF OneInProgress, NeverReenters, OwnsFuture, FailingHoldsLoop, WaitingAtGate, DoneIsQuiet, AbandonGate, TakesEvent, Move
<1>12. ASSUME NEW l \in Loops, PassGate(l) PROVE Control'
  <2>1. InProgress(l)
    BY <1>12 DEF PassGate, TakesEvent, Move, NextCall
  <2>2. l \in Runs /\ \A m \in Loops : InProgress(m) => m = l
    BY <2>1, SoleLoop
  <2>3. \A m \in Loops \ {l} : pc'[m] = pc[m]
    BY <1>12 DEF PassGate, TakesEvent, Move, NextCall
  <2>4. OneInProgress'
    BY <1>12, <2>1, <2>2, <2>3 DEF OneInProgress, PassGate, TakesEvent, Move, NextCall
  <2>5. NeverReenters'
    BY <1>12, <2>1, <2>2, <2>3 DEF NeverReenters, PassGate, TakesEvent, Move, NextCall
  <2>6. OwnsFuture'
    BY <1>12, <2>1, <2>2, <2>3 DEF OwnsFuture, PassGate, TakesEvent, Move, NextCall
  <2>7. FailingHoldsLoop'
    BY <1>12, <2>1, <2>2, <2>3 DEF FailingHoldsLoop, PassGate, TakesEvent, Move, NextCall
  <2>8. WaitingAtGate'
    BY <1>12, <2>1, <2>2, <2>3 DEF WaitingAtGate, PassGate, TakesEvent, Move, NextCall
  <2>9. DoneIsQuiet'
    BY <1>12, <2>1, <2>2, <2>3 DEF DoneIsQuiet, PassGate, TakesEvent, Move, NextCall
  <2>10. QED
    BY <2>4, <2>5, <2>6, <2>7, <2>8, <2>9
<1>13. ASSUME NEW l \in Loops, EndBatch(l) PROVE Control'
  <2>1. InProgress(l)
    BY <1>13 DEF EndBatch, LastIteration, Move
  <2>2. l \in Runs /\ \A m \in Loops : InProgress(m) => m = l
    BY <2>1, SoleLoop
  <2>3. \A m \in Loops \ {l} : pc'[m] = pc[m]
    BY <1>13 DEF EndBatch, LastIteration, Move
  <2>4. OneInProgress'
    BY <1>13, <2>1, <2>2, <2>3 DEF OneInProgress, EndBatch, LastIteration, Move
  <2>5. NeverReenters'
    BY <1>13, <2>1, <2>2, <2>3 DEF NeverReenters, EndBatch, LastIteration, Move
  <2>6. OwnsFuture'
    BY <1>13, <2>1, <2>2, <2>3 DEF OwnsFuture, EndBatch, LastIteration, Move
  <2>7. FailingHoldsLoop'
    BY <1>13, <2>1, <2>2, <2>3 DEF FailingHoldsLoop, EndBatch, LastIteration, Move
  <2>8. WaitingAtGate'
    BY <1>13, <2>1, <2>2, <2>3 DEF WaitingAtGate, EndBatch, LastIteration, Move
  <2>9. DoneIsQuiet'
    BY <1>13, <2>1, <2>2, <2>3 DEF DoneIsQuiet, EndBatch, LastIteration, Move
  <2>10. QED
    BY <2>4, <2>5, <2>6, <2>7, <2>8, <2>9
<1>14. ASSUME NEW l \in Loops, Complete(l) PROVE Control'
  <2>1. InProgress(l)
    BY <1>14 DEF Complete, RunReturns, ReportStatus, ResolveActive, ReentryReturns, Resumed, Free, Move
  <2>2. l \in Runs /\ \A m \in Loops : InProgress(m) => m = l
    BY <2>1, SoleLoop
  <2>3. \A m \in Loops \ {l} : pc'[m] = pc[m]
    BY <1>14 DEF Complete, RunReturns, ReportStatus, ResolveActive, ReentryReturns, Resumed, Free, Move
  <2>4. OneInProgress'
    BY <1>14, <2>1, <2>2, <2>3 DEF OneInProgress, Complete, RunReturns, ReportStatus, ResolveActive, ReentryReturns, Resumed, Free, Move
  <2>5. NeverReenters'
    BY <1>14, <2>1, <2>2, <2>3 DEF NeverReenters, Complete, RunReturns, ReportStatus, ResolveActive, ReentryReturns, Resumed, Free, Move
  <2>6. OwnsFuture'
    BY <1>14, <2>1, <2>2, <2>3 DEF OwnsFuture, Complete, RunReturns, ReportStatus, ResolveActive, ReentryReturns, Resumed, Free, Move
  <2>7. FailingHoldsLoop'
    BY <1>14, <2>1, <2>2, <2>3 DEF FailingHoldsLoop, Complete, RunReturns, ReportStatus, ResolveActive, ReentryReturns, Resumed, Free, Move
  <2>8. WaitingAtGate'
    BY <1>14, <2>1, <2>2, <2>3 DEF WaitingAtGate, Complete, RunReturns, ReportStatus, ResolveActive, ReentryReturns, Resumed, Free, Move
  <2>9. DoneIsQuiet'
    BY <1>14, <2>1, <2>2, <2>3 DEF DoneIsQuiet, Complete, RunReturns, ReportStatus, ResolveActive, ReentryReturns, Resumed, Free, Move
  <2>10. QED
    BY <2>4, <2>5, <2>6, <2>7, <2>8, <2>9
<1>15. ASSUME NEW l \in Loops, Fail(l) PROVE Control'
  <2>1. InProgress(l)
    BY <1>15 DEF Fail, RunReturns, ReportStatus, ResolveActive, ReentryReturns, Move
  <2>2. l \in Runs /\ \A m \in Loops : InProgress(m) => m = l
    BY <2>1, SoleLoop
  <2>3. \A m \in Loops \ {l} : pc'[m] = pc[m]
    BY <1>15 DEF Fail, RunReturns, ReportStatus, ResolveActive, ReentryReturns, Move
  <2>4. OneInProgress'
    BY <1>15, <2>1, <2>2, <2>3 DEF OneInProgress, Fail, RunReturns, ReportStatus, ResolveActive, ReentryReturns, Move
  <2>5. NeverReenters'
    BY <1>15, <2>1, <2>2, <2>3 DEF NeverReenters, Fail, RunReturns, ReportStatus, ResolveActive, ReentryReturns, Move
  <2>6. OwnsFuture'
    BY <1>15, <2>1, <2>2, <2>3 DEF OwnsFuture, Fail, RunReturns, ReportStatus, ResolveActive, ReentryReturns, Move
  <2>7. FailingHoldsLoop'
    BY <1>15, <2>1, <2>2, <2>3 DEF FailingHoldsLoop, Fail, RunReturns, ReportStatus, ResolveActive, ReentryReturns, Move
  <2>8. WaitingAtGate'
    BY <1>15, <2>1, <2>2, <2>3 DEF WaitingAtGate, Fail, RunReturns, ReportStatus, ResolveActive, ReentryReturns, Move
  <2>9. DoneIsQuiet'
    BY <1>15, <2>1, <2>2, <2>3 DEF DoneIsQuiet, Fail, RunReturns, ReportStatus, ResolveActive, ReentryReturns, Move
  <2>10. QED
    BY <2>4, <2>5, <2>6, <2>7, <2>8, <2>9
<1>16. ASSUME NEW h \in Resumers, ResumeRefused(h) PROVE Control'
  BY <1>16 DEF OneInProgress, NeverReenters, OwnsFuture, FailingHoldsLoop, WaitingAtGate, DoneIsQuiet, ResumeRefused, Free, Move
<1>17. ASSUME NEW h \in Resumers, RedoReturns(h) PROVE Control'
  BY <1>17 DEF OneInProgress, NeverReenters, OwnsFuture, FailingHoldsLoop, WaitingAtGate, DoneIsQuiet, RedoReturns, Resumed, Free, Move
<1>18. ASSUME NEW h \in Resumers, ResumeReturns(h) PROVE Control'
  BY <1>18 DEF OneInProgress, NeverReenters, OwnsFuture, FailingHoldsLoop, WaitingAtGate, DoneIsQuiet, ResumeReturns, Resumed, Free, Move
<1>19. ASSUME NEW h \in Resumers, NEW type \in DecisionTypes, Resume(h, type) PROVE Control'
  BY <1>19 DEF OneInProgress, NeverReenters, OwnsFuture, FailingHoldsLoop, WaitingAtGate, DoneIsQuiet, Resume, Decide, Free
<1>20. ASSUME NEW h \in Resumers, NEW type \in DecisionTypes, Reenter(h, type) PROVE Control'
  BY <1>20 DEF OneInProgress, NeverReenters, OwnsFuture, FailingHoldsLoop, WaitingAtGate, DoneIsQuiet, Reenter, NoActiveRun, Decide, Free
<1>21. ASSUME Stop PROVE Control'
  BY <1>21 DEF OneInProgress, NeverReenters, OwnsFuture, FailingHoldsLoop, WaitingAtGate, DoneIsQuiet, Stop, Free, Wake
<1>22. CASE UNCHANGED vars
  BY <1>22 DEF vars, loopVars, OneInProgress, NeverReenters, OwnsFuture, FailingHoldsLoop, WaitingAtGate, DoneIsQuiet
<1>23. QED
  BY <1>1, <1>2, <1>3, <1>4, <1>5, <1>6, <1>7, <1>8, <1>9, <1>10, <1>11, <1>12, <1>13, <1>14, <1>15, <1>16, <1>17, <1>18, <1>19, <1>20, <1>21, <1>22 DEF Next, LoopStep, HumanStep

LEMMA AnswersStep ==
  ASSUME ~overlapped', TypeInv, SerialInv, [Next]_vars
  PROVE  Answers'
<1> USE BoundsAreNaturals, NoLoopIsNoRun DEF TypeInv, TypeOK, SerialInv, Control, InProgress, AtGate, InLoop, Suspended, stateVars, callVars, OneInProgress, NeverReenters, OwnsFuture, FailingHoldsLoop, WaitingAtGate, Answers, Asking, Request
<1>1. ASSUME NEW r \in Runs, Start(r) PROVE Answers'
  BY <1>1 DEF PendingIsAsked, DecisionIsForAsked, Start, FreshBookkeeping, FirstPhase, Free, Move
<1>2. ASSUME NEW r \in Runs, Disconnect(r) PROVE Answers'
  BY <1>2 DEF PendingIsAsked, DecisionIsForAsked, Disconnect, Free, Move
<1>3. ASSUME NEW l \in Loops, Answer(l) PROVE Answers'
  BY <1>3 DEF PendingIsAsked, DecisionIsForAsked, Answer, Resumed, Free, Move
<1>4. ASSUME NEW l \in Loops, CallTools(l) PROVE Answers'
  BY <1>4 DEF PendingIsAsked, DecisionIsForAsked, CallTools, Resumed, Free, Move
<1>5. ASSUME NEW l \in Loops, Raise(l) PROVE Answers'
  BY <1>5 DEF PendingIsAsked, DecisionIsForAsked, Raise, Free, Move
<1>6. ASSUME NEW l \in Loops, Timeout(l) PROVE Answers'
  BY <1>6 DEF PendingIsAsked, DecisionIsForAsked, Timeout, Timed, Free, Move
<1>7. ASSUME NEW l \in Loops, Refuse(l) PROVE Answers'
  BY <1>7 DEF PendingIsAsked, DecisionIsForAsked, Refuse, AtCall, NextCall
<1>8. ASSUME NEW l \in Loops, Dispatch(l) PROVE Answers'
  BY <1>8 DEF PendingIsAsked, DecisionIsForAsked, Dispatch, AtCall, Move
<1>9. ASSUME NEW l \in Loops, ToolReturns(l) PROVE Answers'
  BY <1>9 DEF PendingIsAsked, DecisionIsForAsked, ToolReturns, Free, Move, NextCall
<1>10. ASSUME NEW l \in Loops, AskHuman(l) PROVE Answers'
  <2>1. InProgress(l)
    BY <1>10 DEF AskHuman, AtCall, Move
  <2>2. l \in Runs /\ \A m \in Loops : InProgress(m) => m = l
    BY <2>1, SoleLoop
  <2>3. \A m \in Loops \ {l} : pc'[m] = pc[m]
    BY <1>10 DEF AskHuman, AtCall, Move
  <2>4. PendingIsAsked'
    BY <1>10, <2>1, <2>2, <2>3 DEF PendingIsAsked, AskHuman, AtCall, Move
  <2>5. DecisionIsForAsked'
    BY <1>10, <2>1, <2>2, <2>3 DEF DecisionIsForAsked, AskHuman, AtCall, Move
  <2>6. QED
    BY <2>4, <2>5
<1>11. ASSUME NEW l \in Loops, AbandonGate(l) PROVE Answers'
  <2>1. InProgress(l)
    BY <1>11 DEF AbandonGate, TakesEvent, Move
  <2>2. l \in Runs /\ \A m \in Loops : InProgress(m) => m = l
    BY <2>1, SoleLoop
  <2>3. \A m \in Loops \ {l} : pc'[m] = pc[m]
    BY <1>11 DEF AbandonGate, TakesEvent, Move
  <2>4. PendingIsAsked'
    BY <1>11, <2>1, <2>2, <2>3 DEF PendingIsAsked, AbandonGate, TakesEvent, Move
  <2>5. DecisionIsForAsked'
    BY <1>11, <2>1, <2>2, <2>3 DEF DecisionIsForAsked, AbandonGate, TakesEvent, Move
  <2>6. QED
    BY <2>4, <2>5
<1>12. ASSUME NEW l \in Loops, PassGate(l) PROVE Answers'
  <2>1. InProgress(l)
    BY <1>12 DEF PassGate, TakesEvent, Move, NextCall
  <2>2. l \in Runs /\ \A m \in Loops : InProgress(m) => m = l
    BY <2>1, SoleLoop
  <2>3. \A m \in Loops \ {l} : pc'[m] = pc[m]
    BY <1>12 DEF PassGate, TakesEvent, Move, NextCall
  <2>4. PendingIsAsked'
    BY <1>12, <2>1, <2>2, <2>3 DEF PendingIsAsked, PassGate, TakesEvent, Move, NextCall
  <2>5. DecisionIsForAsked'
    BY <1>12, <2>1, <2>2, <2>3 DEF DecisionIsForAsked, PassGate, TakesEvent, Move, NextCall
  <2>6. QED
    BY <2>4, <2>5
<1>13. ASSUME NEW l \in Loops, EndBatch(l) PROVE Answers'
  <2>1. InProgress(l)
    BY <1>13 DEF EndBatch, LastIteration, Move
  <2>2. l \in Runs /\ \A m \in Loops : InProgress(m) => m = l
    BY <2>1, SoleLoop
  <2>3. \A m \in Loops \ {l} : pc'[m] = pc[m]
    BY <1>13 DEF EndBatch, LastIteration, Move
  <2>4. PendingIsAsked'
    BY <1>13, <2>1, <2>2, <2>3 DEF PendingIsAsked, EndBatch, LastIteration, Move
  <2>5. DecisionIsForAsked'
    BY <1>13, <2>1, <2>2, <2>3 DEF DecisionIsForAsked, EndBatch, LastIteration, Move
  <2>6. QED
    BY <2>4, <2>5
<1>14. ASSUME NEW l \in Loops, Complete(l) PROVE Answers'
  <2>1. InProgress(l)
    BY <1>14 DEF Complete, RunReturns, ReportStatus, ResolveActive, ReentryReturns, Resumed, Free, Move
  <2>2. l \in Runs /\ \A m \in Loops : InProgress(m) => m = l
    BY <2>1, SoleLoop
  <2>3. \A m \in Loops \ {l} : pc'[m] = pc[m]
    BY <1>14 DEF Complete, RunReturns, ReportStatus, ResolveActive, ReentryReturns, Resumed, Free, Move
  <2>4. PendingIsAsked'
    BY <1>14, <2>1, <2>2, <2>3 DEF PendingIsAsked, Complete, RunReturns, ReportStatus, ResolveActive, ReentryReturns, Resumed, Free, Move
  <2>5. DecisionIsForAsked'
    BY <1>14, <2>1, <2>2, <2>3 DEF DecisionIsForAsked, Complete, RunReturns, ReportStatus, ResolveActive, ReentryReturns, Resumed, Free, Move
  <2>6. QED
    BY <2>4, <2>5
<1>15. ASSUME NEW l \in Loops, Fail(l) PROVE Answers'
  <2>1. InProgress(l)
    BY <1>15 DEF Fail, RunReturns, ReportStatus, ResolveActive, ReentryReturns, Move
  <2>2. l \in Runs /\ \A m \in Loops : InProgress(m) => m = l
    BY <2>1, SoleLoop
  <2>3. \A m \in Loops \ {l} : pc'[m] = pc[m]
    BY <1>15 DEF Fail, RunReturns, ReportStatus, ResolveActive, ReentryReturns, Move
  <2>4. PendingIsAsked'
    <3>1. pc'[l] = "settled"
      BY <1>15 DEF Fail, RunReturns, ReentryReturns, Move
    <3>2. \A r \in Runs : pc'[r] \notin {"gate", "woken"}
      BY <2>2, <2>3, <3>1
    <3>3. QED
      BY <3>2 DEF PendingIsAsked
  <2>5. DecisionIsForAsked'
    <3>1. pc'[l] = "settled"
      BY <1>15 DEF Fail, RunReturns, ReentryReturns, Move
    <3>2. \A r \in Runs : pc'[r] \notin InLoop \cup {"redo"}
      BY <2>2, <2>3, <3>1
    <3>3. QED
      BY <3>2 DEF DecisionIsForAsked
  <2>6. QED
    BY <2>4, <2>5
<1>16. ASSUME NEW h \in Resumers, ResumeRefused(h) PROVE Answers'
  BY <1>16 DEF PendingIsAsked, DecisionIsForAsked, ResumeRefused, Free, Move
<1>17. ASSUME NEW h \in Resumers, RedoReturns(h) PROVE Answers'
  BY <1>17 DEF PendingIsAsked, DecisionIsForAsked, RedoReturns, Resumed, Free, Move
<1>18. ASSUME NEW h \in Resumers, ResumeReturns(h) PROVE Answers'
  BY <1>18 DEF PendingIsAsked, DecisionIsForAsked, ResumeReturns, Resumed, Free, Move
<1>19. ASSUME NEW h \in Resumers, NEW type \in DecisionTypes, Resume(h, type) PROVE Answers'
  BY <1>19 DEF PendingIsAsked, DecisionIsForAsked, Resume, Decide, Free
<1>20. ASSUME NEW h \in Resumers, NEW type \in DecisionTypes, Reenter(h, type) PROVE Answers'
  BY <1>20 DEF PendingIsAsked, DecisionIsForAsked, Reenter, NoActiveRun, Decide, Free
<1>21. ASSUME Stop PROVE Answers'
  BY <1>21 DEF PendingIsAsked, DecisionIsForAsked, Stop, Free, Wake
<1>22. CASE UNCHANGED vars
  BY <1>22 DEF vars, loopVars, PendingIsAsked, DecisionIsForAsked
<1>23. QED
  BY <1>1, <1>2, <1>3, <1>4, <1>5, <1>6, <1>7, <1>8, <1>9, <1>10, <1>11, <1>12, <1>13, <1>14, <1>15, <1>16, <1>17, <1>18, <1>19, <1>20, <1>21, <1>22 DEF Next, LoopStep, HumanStep

LEMMA ExecutionsStep ==
  ASSUME ~overlapped', TypeInv, SerialInv, [Next]_vars
  PROVE  Executions'
<1> USE BoundsAreNaturals, NoLoopIsNoRun DEF TypeInv, TypeOK, SerialInv, Control, InProgress, AtGate, InLoop, Suspended, stateVars, callVars, OneInProgress, NeverReenters, WaitingAtGate, Executions, Answers, DecisionIsForAsked
<1>1. ASSUME NEW r \in Runs, Start(r) PROVE Executions'
  BY <1>1 DEF PastExecutions, ApprovalMatchesAction, RanOnce, Start, FreshBookkeeping, FirstPhase, Free, Move
<1>2. ASSUME NEW r \in Runs, Disconnect(r) PROVE Executions'
  BY <1>2 DEF PastExecutions, ApprovalMatchesAction, RanOnce, Disconnect, Free, Move
<1>3. ASSUME NEW l \in Loops, Answer(l) PROVE Executions'
  BY <1>3 DEF PastExecutions, ApprovalMatchesAction, RanOnce, Answer, Resumed, Free, Move
<1>4. ASSUME NEW l \in Loops, CallTools(l) PROVE Executions'
  BY <1>4 DEF PastExecutions, ApprovalMatchesAction, RanOnce, CallTools, Resumed, Free, Move
<1>5. ASSUME NEW l \in Loops, Raise(l) PROVE Executions'
  BY <1>5 DEF PastExecutions, ApprovalMatchesAction, RanOnce, Raise, Free, Move
<1>6. ASSUME NEW l \in Loops, Timeout(l) PROVE Executions'
  BY <1>6 DEF PastExecutions, ApprovalMatchesAction, RanOnce, Timeout, Timed, Free, Move
<1>7. ASSUME NEW l \in Loops, Refuse(l) PROVE Executions'
  BY <1>7 DEF PastExecutions, ApprovalMatchesAction, RanOnce, Refuse, AtCall, NextCall
<1>8. ASSUME NEW l \in Loops, Dispatch(l) PROVE Executions'
  BY <1>8 DEF PastExecutions, ApprovalMatchesAction, RanOnce, Dispatch, AtCall, Move
<1>9. ASSUME NEW l \in Loops, ToolReturns(l) PROVE Executions'
  BY <1>9 DEF PastExecutions, ApprovalMatchesAction, RanOnce, ToolReturns, Free, Move, NextCall
<1>10. ASSUME NEW l \in Loops, AskHuman(l) PROVE Executions'
  <2>1. InProgress(l)
    BY <1>10 DEF AskHuman, AtCall, Move
  <2>2. l \in Runs /\ \A m \in Loops : InProgress(m) => m = l
    BY <2>1, SoleLoop
  <2>3. \A m \in Loops \ {l} : pc'[m] = pc[m]
    BY <1>10 DEF AskHuman, AtCall, Move
  <2>4. PastExecutions'
    <3>1. \A i \in 1..Len(ran) : ran[i].act.nth \in Nat /\ ran[i].act.loop \in Loops
      BY ExecutionsTyped
    <3>2. \A i \in 1..Len(ran) : ran[i].act.loop \in Runs /\ ran[i].act.nth <= asked[ran[i].act.loop]
      BY DEF PastExecutions
    <3>3. asked[l] \in Nat /\ asked' = [asked EXCEPT ![l] = asked[l] + 1] /\ ran' = ran
      BY <1>10 DEF AskHuman
    <3>4. SUFFICES ASSUME NEW i \in 1..Len(ran)
          PROVE  LET a == ran[i].act IN
                   /\ a.loop \in Runs /\ a.nth <= asked'[a.loop]
                   /\ AtGate(a.loop)' => a.nth < asked'[a.loop]
      BY <3>3 DEF PastExecutions
    <3>5. CASE ran[i].act.loop = l
      <4>1. asked'[l] = asked[l] + 1 /\ l \in Runs
        BY <3>3, <2>2
      <4>2. ran[i].act.nth \in Nat /\ ran[i].act.nth <= asked[l]
        BY <3>1, <3>2, <3>5
      <4>3. ran[i].act.nth < asked'[l] /\ ran[i].act.nth <= asked'[l]
        BY <4>1, <4>2, <3>3
      <4>4. QED
        BY <4>1, <4>3, <3>5
    <3>6. CASE ran[i].act.loop # l
      BY <2>3, <3>1, <3>2, <3>3, <3>6 DEF PastExecutions
    <3>7. QED
      BY <3>5, <3>6
  <2>5. ApprovalMatchesAction'
    BY <1>10, <2>1, <2>2, <2>3 DEF ApprovalMatchesAction, AskHuman, AtCall, Move
  <2>6. RanOnce'
    BY <1>10, <2>1, <2>2, <2>3 DEF RanOnce, AskHuman, AtCall, Move
  <2>7. QED
    BY <2>4, <2>5, <2>6
<1>11. ASSUME NEW l \in Loops, AbandonGate(l) PROVE Executions'
  <2>1. InProgress(l)
    BY <1>11 DEF AbandonGate, TakesEvent, Move
  <2>2. l \in Runs /\ \A m \in Loops : InProgress(m) => m = l
    BY <2>1, SoleLoop
  <2>3. \A m \in Loops \ {l} : pc'[m] = pc[m]
    BY <1>11 DEF AbandonGate, TakesEvent, Move
  <2>4. PastExecutions'
    BY <1>11, <2>1, <2>2, <2>3 DEF PastExecutions, AbandonGate, TakesEvent, Move
  <2>5. ApprovalMatchesAction'
    BY <1>11, <2>1, <2>2, <2>3 DEF ApprovalMatchesAction, AbandonGate, TakesEvent, Move
  <2>6. RanOnce'
    BY <1>11, <2>1, <2>2, <2>3 DEF RanOnce, AbandonGate, TakesEvent, Move
  <2>7. QED
    BY <2>4, <2>5, <2>6
<1>12. ASSUME NEW l \in Loops, PassGate(l) PROVE Executions'
  <2>1. InProgress(l)
    BY <1>12 DEF PassGate, TakesEvent, Move, NextCall
  <2>2. l \in Runs /\ \A m \in Loops : InProgress(m) => m = l
    BY <2>1, SoleLoop
  <2>3. \A m \in Loops \ {l} : pc'[m] = pc[m]
    BY <1>12 DEF PassGate, TakesEvent, Move, NextCall
  <2> DEFINE x == [act |-> Asking(l), seen |-> decisions.seen, by |-> l]
  <2>4. decisions.seen = Asking(l) /\ AtGate(l) /\ asked' = asked
    BY <1>12, <2>1, <2>2 DEF PassGate, TakesEvent
  <2>5. Asking(l).loop = l /\ Asking(l).nth = asked[l] /\ asked[l] \in Nat
    BY DEF Asking, Request
  <2>6. \A i \in 1..Len(ran) : ran[i].act # Asking(l)
    <3>1. \A i \in 1..Len(ran) : ran[i].act.nth \in Nat
      BY ExecutionsTyped
    <3>2. \A i \in 1..Len(ran) : ran[i].act.loop = l => ran[i].act.nth < asked[l]
      BY <2>4 DEF PastExecutions
    <3>3. QED
      BY <2>5, <3>1, <3>2
  <2>7. ~AtGate(l)' /\ \A m \in Loops \ {l} : AtGate(m)' = AtGate(m)
    BY <1>12, <2>3 DEF PassGate, Move
  <2>8. \/ ran' = Append(ran, x)
        \/ ran' = ran
    BY <1>12 DEF PassGate
  <2>9. CASE ran' = ran
    <3>1. PastExecutions'
      BY <2>4, <2>7, <2>9, ExecutionsTyped DEF PastExecutions
    <3>2. QED
      BY <2>9, <3>1 DEF ApprovalMatchesAction, RanOnce
  <2>10. CASE ran' = Append(ran, x)
    <3>1. /\ Len(ran') = Len(ran) + 1 /\ Len(ran) \in Nat
          /\ \A i \in 1..Len(ran) : ran'[i] = ran[i]
          /\ ran'[Len(ran) + 1] = x
      BY <2>10
    <3>2. \A i \in 1..Len(ran') : i \in 1..Len(ran) \/ i = Len(ran) + 1
      BY <3>1
    <3>3. x.act = Asking(l) /\ x.seen = decisions.seen
      OBVIOUS
    <3> HIDE DEF x
    <3>4. PastExecutions'
      <4>1. \A i \in 1..Len(ran) : ran[i].act.nth \in Nat /\ ran[i].act.loop \in Loops
        BY ExecutionsTyped
      <4>2. SUFFICES ASSUME NEW i \in 1..Len(ran')
            PROVE  LET a == ran'[i].act IN
                     /\ a.loop \in Runs /\ a.nth <= asked'[a.loop]
                     /\ pc'[a.loop] \in {"gate", "woken"} => a.nth < asked'[a.loop]
        BY DEF PastExecutions
      <4>3. CASE i \in 1..Len(ran)
        <5> DEFINE a == ran[i].act
        <5>1. /\ ran'[i].act = a /\ a.loop \in Runs /\ a.nth <= asked[a.loop]
              /\ pc[a.loop] \in {"gate", "woken"} => a.nth < asked[a.loop]
          BY <3>1, <4>3 DEF PastExecutions
        <5>2. pc'[a.loop] \in {"gate", "woken"} => pc[a.loop] \in {"gate", "woken"}
          BY <2>4, <2>7, <2>3, <4>1, <4>3
        <5> HIDE DEF a
        <5>3. QED
          BY <2>4, <5>1, <5>2
      <4>4. CASE i = Len(ran) + 1
        BY <2>2, <2>4, <2>5, <2>7, <3>1, <3>3, <4>4
      <4>5. QED
        BY <3>2, <4>3, <4>4
    <3>5. ApprovalMatchesAction'
      BY <2>4, <3>1, <3>2, <3>3 DEF ApprovalMatchesAction
    <3>6. RanOnce'
      <4>1. SUFFICES ASSUME NEW i \in 1..Len(ran'), NEW j \in 1..Len(ran'),
                            ran'[i].act = ran'[j].act
            PROVE  i = j
        BY DEF RanOnce
      <4>2. CASE i \in 1..Len(ran) /\ j \in 1..Len(ran)
        BY <3>1, <4>1, <4>2 DEF RanOnce
      <4>3. CASE i = Len(ran) + 1 /\ j \in 1..Len(ran)
        BY <2>6, <3>1, <3>3, <4>1, <4>3
      <4>4. CASE j = Len(ran) + 1 /\ i \in 1..Len(ran)
        BY <2>6, <3>1, <3>3, <4>1, <4>4
      <4>5. QED
        BY <3>2, <4>2, <4>3, <4>4
    <3>7. QED
      BY <3>4, <3>5, <3>6
  <2>11. QED
    BY <2>8, <2>9, <2>10
<1>13. ASSUME NEW l \in Loops, EndBatch(l) PROVE Executions'
  <2>1. InProgress(l)
    BY <1>13 DEF EndBatch, LastIteration, Move
  <2>2. l \in Runs /\ \A m \in Loops : InProgress(m) => m = l
    BY <2>1, SoleLoop
  <2>3. \A m \in Loops \ {l} : pc'[m] = pc[m]
    BY <1>13 DEF EndBatch, LastIteration, Move
  <2>4. PastExecutions'
    BY <1>13, <2>1, <2>2, <2>3 DEF PastExecutions, EndBatch, LastIteration, Move
  <2>5. ApprovalMatchesAction'
    BY <1>13, <2>1, <2>2, <2>3 DEF ApprovalMatchesAction, EndBatch, LastIteration, Move
  <2>6. RanOnce'
    BY <1>13, <2>1, <2>2, <2>3 DEF RanOnce, EndBatch, LastIteration, Move
  <2>7. QED
    BY <2>4, <2>5, <2>6
<1>14. ASSUME NEW l \in Loops, Complete(l) PROVE Executions'
  <2>1. InProgress(l)
    BY <1>14 DEF Complete, RunReturns, ReportStatus, ResolveActive, ReentryReturns, Resumed, Free, Move
  <2>2. l \in Runs /\ \A m \in Loops : InProgress(m) => m = l
    BY <2>1, SoleLoop
  <2>3. \A m \in Loops \ {l} : pc'[m] = pc[m]
    BY <1>14 DEF Complete, RunReturns, ReportStatus, ResolveActive, ReentryReturns, Resumed, Free, Move
  <2>4. PastExecutions'
    BY <1>14, <2>1, <2>2, <2>3 DEF PastExecutions, Complete, RunReturns, ReportStatus, ResolveActive, ReentryReturns, Resumed, Free, Move
  <2>5. ApprovalMatchesAction'
    BY <1>14, <2>1, <2>2, <2>3 DEF ApprovalMatchesAction, Complete, RunReturns, ReportStatus, ResolveActive, ReentryReturns, Resumed, Free, Move
  <2>6. RanOnce'
    BY <1>14, <2>1, <2>2, <2>3 DEF RanOnce, Complete, RunReturns, ReportStatus, ResolveActive, ReentryReturns, Resumed, Free, Move
  <2>7. QED
    BY <2>4, <2>5, <2>6
<1>15. ASSUME NEW l \in Loops, Fail(l) PROVE Executions'
  <2>1. InProgress(l)
    BY <1>15 DEF Fail, RunReturns, ReportStatus, ResolveActive, ReentryReturns, Move
  <2>2. l \in Runs /\ \A m \in Loops : InProgress(m) => m = l
    BY <2>1, SoleLoop
  <2>3. \A m \in Loops \ {l} : pc'[m] = pc[m]
    BY <1>15 DEF Fail, RunReturns, ReportStatus, ResolveActive, ReentryReturns, Move
  <2>4. PastExecutions'
    BY <1>15, <2>1, <2>2, <2>3 DEF PastExecutions, Fail, RunReturns, ReportStatus, ResolveActive, ReentryReturns, Move
  <2>5. ApprovalMatchesAction'
    BY <1>15, <2>1, <2>2, <2>3 DEF ApprovalMatchesAction, Fail, RunReturns, ReportStatus, ResolveActive, ReentryReturns, Move
  <2>6. RanOnce'
    BY <1>15, <2>1, <2>2, <2>3 DEF RanOnce, Fail, RunReturns, ReportStatus, ResolveActive, ReentryReturns, Move
  <2>7. QED
    BY <2>4, <2>5, <2>6
<1>16. ASSUME NEW h \in Resumers, ResumeRefused(h) PROVE Executions'
  BY <1>16 DEF PastExecutions, ApprovalMatchesAction, RanOnce, ResumeRefused, Free, Move
<1>17. ASSUME NEW h \in Resumers, RedoReturns(h) PROVE Executions'
  BY <1>17 DEF PastExecutions, ApprovalMatchesAction, RanOnce, RedoReturns, Resumed, Free, Move
<1>18. ASSUME NEW h \in Resumers, ResumeReturns(h) PROVE Executions'
  BY <1>18 DEF PastExecutions, ApprovalMatchesAction, RanOnce, ResumeReturns, Resumed, Free, Move
<1>19. ASSUME NEW h \in Resumers, NEW type \in DecisionTypes, Resume(h, type) PROVE Executions'
  BY <1>19 DEF PastExecutions, ApprovalMatchesAction, RanOnce, Resume, Decide, Free
<1>20. ASSUME NEW h \in Resumers, NEW type \in DecisionTypes, Reenter(h, type) PROVE Executions'
  BY <1>20 DEF PastExecutions, ApprovalMatchesAction, RanOnce, Reenter, NoActiveRun, Decide, Free
<1>21. ASSUME Stop PROVE Executions'
  BY <1>21 DEF PastExecutions, ApprovalMatchesAction, RanOnce, Stop, Free, Wake
<1>22. CASE UNCHANGED vars
  BY <1>22 DEF vars, loopVars, PastExecutions, ApprovalMatchesAction, RanOnce
<1>23. QED
  BY <1>1, <1>2, <1>3, <1>4, <1>5, <1>6, <1>7, <1>8, <1>9, <1>10, <1>11, <1>12, <1>13, <1>14, <1>15, <1>16, <1>17, <1>18, <1>19, <1>20, <1>21, <1>22 DEF Next, LoopStep, HumanStep

LEMMA SerialInvInit == Init => SerialInv
BY DEF Init, SerialInv, Control, Answers, Executions, OneInProgress, NeverReenters,
       OwnsFuture, FailingHoldsLoop, WaitingAtGate, DoneIsQuiet, PendingIsAsked,
       DecisionIsForAsked, PastExecutions, ApprovalMatchesAction, RanOnce,
       InProgress, InLoop, Suspended, AtGate, Loops

(* Overlapping runs are never forgotten.                                     *)
LEMMA OverlapRemembered == ASSUME [Next]_vars, ~overlapped' PROVE ~overlapped
<1>1. ASSUME NEW r \in Runs, Start(r) PROVE ~overlapped
  BY <1>1 DEF Start
<1>2. CASE UNCHANGED overlapped
  BY <1>2
<1>3. (\E r \in Runs : Start(r)) \/ UNCHANGED overlapped
  BY DEF Next, LoopStep, HumanStep, vars, callVars, Answer, CallTools, Raise, Timeout, Refuse,
         Dispatch, ToolReturns, AskHuman, AbandonGate, PassGate, EndBatch, Complete, Fail,
         RunReturns, ReentryReturns, ResumeRefused, RedoReturns, ResumeReturns, Resume,
         Reenter, Decide, Disconnect, Stop
<1>4. QED
  BY <1>1, <1>2, <1>3

(* Until runs overlap, the serial invariant holds.                           *)
LEMMA SerialInvariant == Spec => [](~overlapped => SerialInv)
<1>. DEFINE Inv == TypeInv /\ (~overlapped => SerialInv)
<1>1. Init => Inv
  BY TypeInvInit, SerialInvInit
<1>2. Inv /\ [Next]_vars => Inv'
  <2>. SUFFICES ASSUME Inv, [Next]_vars PROVE Inv'
    OBVIOUS
  <2>1. TypeInv'
    BY TypeInvStep
  <2>2. ASSUME ~overlapped' PROVE SerialInv'
    <3>1. ~overlapped
      BY <2>2, OverlapRemembered
    <3>2. QED
      BY <2>2, <3>1, ControlStep, AnswersStep, ExecutionsStep DEF SerialInv
  <2>3. QED
    BY <2>1, <2>2
<1>3. Inv => (~overlapped => SerialInv)
  OBVIOUS
<1>4. QED
  BY <1>1, <1>2, <1>3, PTL DEF Spec

(* Until runs overlap, a gated tool runs only on a decision the human made   *)
(* about that very call, whatever stops, timeouts, cancelled clients and     *)
(* late or repeated resume calls do.                                         *)
THEOREM ApprovalTheorem == Spec => []SerialApproval
<1>1. (~overlapped => SerialInv) => SerialApproval
  BY DEF SerialInv, Executions, SerialApproval
<1>2. QED
  BY <1>1, SerialInvariant, PTL

(* Until runs overlap, no gated call is executed twice.                      *)
THEOREM OnceTheorem == Spec => []GatedCallRunsOnce
<1>1. (~overlapped => SerialInv) => GatedCallRunsOnce
  BY DEF SerialInv, Executions, GatedCallRunsOnce
<1>2. QED
  BY <1>1, SerialInvariant, PTL

(* Until runs overlap, nothing executes after phase DONE.                    *)
THEOREM QuietTheorem == Spec => []DoneMeansQuiet
<1>1. (~overlapped => SerialInv) => DoneMeansQuiet
  BY DEF SerialInv, Control, DoneIsQuiet, NeverReenters, DoneMeansQuiet, Loops
<1>2. QED
  BY <1>1, SerialInvariant, PTL


(* The future in _active_run is of a run that has not ended, or that was     *)
(* cancelled; overlapping runs do not change that.                           *)
ActiveIsLive == activeRun # NoLoop => InProgress(activeRun) \/ pc[activeRun] = "cancelled"

LEMMA ActiveInit == Init => ActiveIsLive
BY DEF Init, ActiveIsLive

LEMMA ActiveStep ==
  ASSUME TypeInv, ActiveIsLive, [Next]_vars
  PROVE  ActiveIsLive'
<1> USE NoLoopIsNoRun, BoundsAreNaturals
    DEF TypeInv, TypeOK, ActiveIsLive, InProgress, InLoop, Suspended, stateVars, callVars
<1>1. ASSUME NEW r \in Runs, Start(r) \/ Disconnect(r) PROVE ActiveIsLive'
  BY <1>1 DEF Start, Disconnect, Move
<1>2. ASSUME NEW l \in Loops, Answer(l) \/ CallTools(l) \/ Raise(l) \/ Timeout(l) \/ Refuse(l) \/ Dispatch(l)
                              \/ ToolReturns(l)
      PROVE  ActiveIsLive'
  BY <1>2 DEF Answer, CallTools, Raise, Timeout, Refuse, Dispatch, ToolReturns, Move, Timed, Resumed
<1>3. ASSUME NEW l \in Loops, AskHuman(l) \/ AbandonGate(l) \/ PassGate(l) \/ EndBatch(l)
      PROVE  ActiveIsLive'
  BY <1>3 DEF AskHuman, AbandonGate, PassGate, EndBatch, Move
<1>4. ASSUME NEW r \in Runs, Complete(r) \/ Fail(r) PROVE ActiveIsLive'
  BY <1>4 DEF Complete, Fail, RunReturns
<1>5. ASSUME NEW h \in Resumers, Complete(h) \/ Fail(h) PROVE ActiveIsLive'
  <2>1. pc' = [pc EXCEPT ![h] = "settled"] /\ activeRun' = activeRun /\ h \notin Runs
    BY <1>5 DEF Complete, Fail, ReentryReturns, Move
  <2> QED
    BY <2>1
<1>6. ASSUME NEW h \in Resumers, ResumeRefused(h) \/ RedoReturns(h) \/ ResumeReturns(h) PROVE ActiveIsLive'
  BY <1>6 DEF ResumeRefused, RedoReturns, ResumeReturns, Move, Resumed
<1>7. ASSUME NEW h \in Resumers, NEW type \in DecisionTypes, Resume(h, type) \/ Reenter(h, type) PROVE ActiveIsLive'
  BY <1>7 DEF Resume, Reenter, Decide
<1>8. CASE Stop
  BY <1>8 DEF Stop, Wake
<1>9. CASE UNCHANGED vars
  BY <1>9 DEF vars, loopVars
<1> QED
  BY <1>1, <1>2, <1>3, <1>4, <1>5, <1>6, <1>7, <1>8, <1>9 DEF Next, LoopStep, HumanStep, Loops

(* Until runs overlap or one is cancelled, a request that finds the runner   *)
(* reporting a pending action finds a loop paused on that very action.       *)
THEOREM ServedTheorem == Spec => []WaitingIsServed
<1> DEFINE Live == TypeInv /\ ActiveIsLive
<1>1. Init => Live
  BY TypeInvInit, ActiveInit
<1>2. Live /\ [Next]_vars => Live'
  BY TypeInvStep, ActiveStep
<1>3. Live /\ (~overlapped => SerialInv) => WaitingIsServed
  <2>1. SUFFICES ASSUME TypeInv, ActiveIsLive, SerialInv, Free, status = "waiting", pending # NoAction,
                        \A r \in Runs : pc[r] # "cancelled"
                 PROVE  \E l \in Loops : pc[l] \in {"gate", "woken"} /\ pending = Asking(l)
    BY DEF WaitingIsServed
  <2>2. activeRun \in Runs /\ InProgress(activeRun)
    BY <2>1 DEF SerialInv, Control, WaitingAtGate, ActiveIsLive, TypeInv, TypeOK
  <2>3. pc[activeRun] # "failing"
    BY <2>1, <2>2, NoLoopIsNoRun DEF SerialInv, Control, FailingHoldsLoop, Free, Loops
  <2>4. AtGate(activeRun)
    BY <2>1, <2>2, <2>3 DEF SerialInv, Control, WaitingAtGate
  <2>5. pending = Asking(activeRun) /\ activeRun \in Loops
    BY <2>1, <2>2, <2>4 DEF SerialInv, Answers, PendingIsAsked, Loops
  <2> QED
    BY <2>4, <2>5 DEF AtGate
<1> HIDE DEF Live
<1>4. QED
  BY <1>1, <1>2, <1>3, SerialInvariant, PTL DEF Spec
=============================================================================
