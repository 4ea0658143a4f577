----------------------------- MODULE Delegation -----------------------------
(* Subagents: an agent, or the turn of the chat itself, calls delegate_task  *)
(* or delegate_parallel and waits for the runs it has started; the code it   *)
(* executes may start more through task().  Timeouts and disconnected        *)
(* clients cancel whatever is being waited for, from the inside out.         *)
(* Which agents may delegate is up to their capabilities: here, any.         *)
EXTENDS Naturals, FiniteSets

CONSTANTS
  MaxDepth,       \* _MAX_DELEGATION_DEPTH
  MaxSpawned,     \* bound: agents spawned in one behaviour
  MaxStops        \* bound: stop requests

ASSUME DelegationAssumption == MaxDepth \in Nat /\ MaxSpawned \in Nat /\ MaxStops \in Nat

Turn == 0                       \* the turn of the chat
Spawned == 1..MaxSpawned
Callers == {Turn} \cup Spawned

VARIABLES
  stage,          \* what each caller is doing
  listed,         \* the status chat.list_agents() shows
  caller,         \* who waits for it
  level,          \* the value of _delegation_depth in its context
  script,         \* the state of the subprocess of execute_python
  stops           \* stop requests so far

delegationVars == <<stage, listed, caller, level, script, stops>>

Stages == {"new", "working", "failing", "calling", "late", "expired", "ended", "cut"}
Listed == {"none", "running", "waiting", "stopped", "over"}   \* over: completed or failed
Waits  == {"calling", "late", "expired"}       \* suspended, with runs below it

DelegationInit ==
  /\ stage  = [c \in Callers |-> IF c = Turn THEN "working" ELSE "new"]
  /\ listed = [c \in Callers |-> "none"]
  /\ caller = [c \in Callers |-> Turn]
  /\ level  = [c \in Callers |-> 0]
  /\ script = [c \in Callers |-> "none"]
  /\ stops  = 0

Active(c)   == stage[c] \notin {"new", "ended", "cut"}
Below(c)    == {d \in Spawned : stage[d] # "new" /\ caller[d] = c}

NobodyAwaited(c) == TRUE  \* mutant

Settled(c)  == \A d \in Below(c) : ~Active(d)

(* A run is being cancelled when a wait above it was given up.               *)
Doomed[c \in Callers] ==
  c # Turn /\ (stage[caller[c]] \in {"late", "expired"} \/ Doomed[caller[c]])

Runs(c) == stage[c] = "working" /\ ~Doomed[c] /\ listed[c] # "waiting"

(* Runs at depth `at`, which `c` awaits; ids are given out in order.         *)
Spawn(c, at, n) ==
  LET used  == {d \in Spawned : stage[d] # "new"}
      fresh == (Cardinality(used) + 1)..(Cardinality(used) + n)
  IN /\ fresh \subseteq Spawned
     /\ stage'  = [d \in Callers |-> IF d \in fresh THEN "working" ELSE IF d = c THEN "calling" ELSE stage[d]]
     /\ listed' = [d \in Callers |-> IF d \in fresh THEN "running" ELSE listed[d]]
     /\ caller' = [d \in Callers |-> IF d \in fresh THEN c ELSE caller[d]]
     /\ level'  = [d \in Callers |-> IF d \in fresh THEN at ELSE level[d]]
     /\ UNCHANGED stops

Delegate(c) ==
  /\ Runs(c)
  /\ level[c] < MaxDepth
  /\ \E n \in 1..2 : Spawn(c, level[c] + 1, n)
  /\ UNCHANGED script

(* execute_python of an agent: the call is pending while its script runs.    *)
Execute(c) ==
  /\ c # Turn /\ Runs(c) /\ script[c] = "none"
  /\ stage'  = [stage EXCEPT ![c] = "calling"]
  /\ script' = [script EXCEPT ![c] = "running"]
  /\ UNCHANGED <<listed, caller, level, stops>>

(* task() asks for a run: the bridge counts one level and the handler another. *)
Dispatch(c) ==
  /\ stage[c] = "calling" /\ ~Doomed[c] /\ script[c] = "running" /\ Settled(c)
  /\ level[c] + 1 < MaxDepth
  /\ \E n \in 1..2 : Spawn(c, level[c] + 2, n)
  /\ UNCHANGED script

(* The script ends, or its own timer kills it, whoever still reads from it.  *)
ScriptEnds(c) ==
  /\ script[c] = "running"
  /\ script' = [script EXCEPT ![c] = "over"]
  /\ UNCHANGED <<stage, listed, caller, level, stops>>

(* The awaited runs are over and the caller goes on; a script that is late   *)
(* is killed by the pump's timeout.                                          *)
Return(c) ==
  /\ stage[c] \in {"calling", "late"} /\ ~Doomed[c] /\ Settled(c)
  /\ script[c] = "running" => stage[c] = "late"
  /\ stage'  = [stage EXCEPT ![c] = "working"]
  /\ script' = [script EXCEPT ![c] = "none"]
  /\ UNCHANGED <<listed, caller, level, stops>>

(* A gated tool pauses the run, or fails it when a stop has left its event   *)
(* set; nobody is told, as delegated runs get no bus.                        *)
Pause(c) ==
  /\ c # Turn /\ Runs(c)
  /\ IF listed[c] = "stopped"
       THEN stage' = [stage EXCEPT ![c] = "failing"] /\ UNCHANGED listed
       ELSE listed' = [listed EXCEPT ![c] = "waiting"] /\ UNCHANGED stage
  /\ UNCHANGED <<caller, level, script, stops>>

Approve(c) ==
  /\ listed[c] = "waiting" /\ stage[c] = "working"
  /\ listed' = [listed EXCEPT ![c] = "running"]
  /\ UNCHANGED <<stage, caller, level, script, stops>>

(* stop() lists any agent of the chat as failed, which is "stopped" here; the *)
(* run of one that waits at its gate fails, others go on until their next gate. *)
Stop(c) ==
  /\ stops < MaxStops /\ c # Turn /\ stage[c] # "new"
  /\ stops'  = stops + 1
  /\ listed' = [listed EXCEPT ![c] = "stopped"]
  /\ stage'  = [stage EXCEPT ![c] = IF @ = "working" /\ listed[c] = "waiting" THEN "failing" ELSE @]
  /\ UNCHANGED <<caller, level, script>>

EndQuietly(c) ==  \* mutant
  /\ c # Turn /\ ~Doomed[c]
  /\ Runs(c) \/ stage[c] = "failing" \/ (stage[c] = "expired" /\ Settled(c))
  /\ stage'  = [stage EXCEPT ![c] = "ended"]
  /\ listed' = [listed EXCEPT ![c] = IF stage[c] = "expired" THEN @ ELSE "over"]
  /\ UNCHANGED <<caller, level, script, stops>>

(* run() returns: its loop is over, or its timer has cancelled what it awaited. *)
End(c) ==
  /\ c # Turn /\ ~Doomed[c]
  /\ Runs(c) \/ stage[c] = "failing" \/ (stage[c] = "expired" /\ Settled(c))
  /\ stage'  = [stage EXCEPT ![c] = "ended"]
  /\ listed' = [listed EXCEPT ![c] = "over"]
  /\ UNCHANGED <<caller, level, script, stops>>

(* The timer of a run, of the turn's tool call or of an execute_python fires. *)
RunTimeout(c) ==
  /\ c # Turn /\ stage[c] \in {"working", "calling", "late"} /\ ~Doomed[c]
  /\ stage' = [stage EXCEPT ![c] = "expired"]
  /\ UNCHANGED <<listed, caller, level, script, stops>>

CallTimeout(c) ==
  /\ stage[c] = "calling" /\ ~Doomed[c]
  /\ c = Turn \/ script[c] # "none"
  /\ stage' = [stage EXCEPT ![c] = "late"]
  /\ UNCHANGED <<listed, caller, level, script, stops>>

(* The client of the turn is gone.                                           *)
Abandon ==
  /\ stage[Turn] \in {"working", "calling", "late"}
  /\ stage' = [stage EXCEPT ![Turn] = "expired"]
  /\ UNCHANGED <<listed, caller, level, script, stops>>

(* A cancelled run unwinds: its status stays and its script runs on.         *)
Unwind(c) ==
  /\ Active(c) /\ Settled(c)
  /\ Doomed[c] \/ (c = Turn /\ stage[c] = "expired")
  /\ stage' = [stage EXCEPT ![c] = "cut"]
  /\ UNCHANGED <<listed, caller, level, script, stops>>

DelegationNext ==
  \/ Abandon
  \/ \E c \in Callers :
       \/ Delegate(c) \/ Execute(c) \/ Dispatch(c) \/ ScriptEnds(c) \/ Return(c) \/ Pause(c)
       \/ Approve(c) \/ Stop(c) \/ End(c) \/ RunTimeout(c) \/ CallTimeout(c) \/ Unwind(c)

DelegationTypeOK ==
  /\ stage \in [Callers -> Stages] /\ listed \in [Callers -> Listed]
  /\ caller \in [Callers -> Callers] /\ level \in [Callers -> 0..MaxDepth]
  /\ script \in [Callers -> {"none", "running", "over"}] /\ stops \in 0..MaxStops

(* No subagent is orphaned: whoever delegated to a run that is going on is   *)
(* still waiting for it, so no timeout, disconnected client or script leaves *)
(* runs behind that nobody cancels; the runs below one another, by whichever *)
(* way they were started, are no deeper than their levels, which end at      *)
(* MaxDepth.  And the list of agents tells the truth: one it shows as        *)
(* running or waiting is going on, one it shows as completed or failed is    *)
(* not.  Exempt from the list are agents that were cancelled from above,     *)
(* whose status the code leaves as it was, and those that were stopped.      *)
DelegatesAreAwaited ==
  \A c \in Spawned :
    /\ Active(c) => /\ stage[caller[c]] \in Waits
                    /\ level[caller[c]] < level[c] /\ level[c] =< MaxDepth
    /\ listed[c] \in {"running", "waiting"} => Active(c) \/ stage[c] = "cut"
    /\ listed[c] = "over" => stage[c] = "ended"
=============================================================================
