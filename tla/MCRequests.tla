------------------------------ MODULE MCRequests ------------------------------
(* What the gateway's requests wait for: the human's decision in a run of an *)
(* agent, and the locks of the chat pool.  They share no state: a run        *)
(* follows one at a time.                                                    *)
EXTENDS AgentRunner

CONSTANTS Sessions, Fresh, Default, Tasks, NoTask, Ops, MaxSize, MaxChats

VARIABLES
  entries, active, current, made, closed, sidOf, messages, indexing, locks,
  rows, issued, todo, arg, want, held, loaded, victim, turn,
  answer,   \* how a request for the pool ended
  task,     \* the request that holds the event loop
  gone, outdated,
  wait      \* what the run follows

lockVars == <<entries, active, current, made, closed, sidOf, messages, indexing, locks,
              rows, issued, todo, arg, want, held, loaded, victim, turn, answer,
              task, gone, outdated>>

Pool == INSTANCE ChatPool WITH outcome <- answer, running <- task

InitRequests == wait \in {"human", "lock"} /\ Init /\ Pool!Init

NextRequests ==
  /\ UNCHANGED wait
  /\ \/ wait = "human" /\ Next /\ UNCHANGED lockVars
     \/ wait = "lock" /\ Pool!Next /\ UNCHANGED vars

(* The fairness of both: neither can take a fair step while the other is     *)
(* followed, since nothing has been started.                                 *)
SpecRequests ==
  /\ InitRequests /\ [][NextRequests]_<<vars, lockVars, wait>>
  /\ Fairness /\ \A t \in Tasks : WF_lockVars(Pool!Step(t))

(* Every request to the pool that was started is answered, though requests   *)
(* wait for one another's turns both to send and to close victims.           *)
EveryRequestEnds == Pool!EveryRequestEnds
===============================================================================
