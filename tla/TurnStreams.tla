----------------------------- MODULE TurnStreams -----------------------------
(***************************************************************************)
(* Who reads a turn's bus: the websocket (routers/phase_c.py), the stream  *)
(* of a thread's run (routers/langgraph.py), the stream of an agent's run  *)
(* (routers/agents.py), the terminal's turn (ui/turn_renderer.py) and its  *)
(* /agent run (commands/agent.py).  Each starts a turn on a bus of its own *)
(* and reads the bus to the first "done"; they differ in who pushes that   *)
(* done and in what happens when the client leaves.  POST /api/chat/stream *)
(* is in NotificationBus, which also shows what a full queue does.         *)
(*                                                                         *)
(* The turns here are those of one chat and of one agent.  A chat's share  *)
(* its lock and its _active_bus, where their phases go; an agent's share   *)
(* its bus, replaced by every request.                                     *)
(***************************************************************************)
EXTENDS Naturals, Sequences

CONSTANTS
  Streams,  \* requests for a turn, each with its bus
  MaxPushes \* bound: events of a turn before its last ones

ASSUME StreamsAssumption == MaxPushes \in Nat

Gateway  == {"socket", "thread", "agent"}
Terminal == {"turn", "command"}
Nobody   == "nobody"

VARIABLES
  via,        \* how each stream was asked for
  run,        \* the task that runs its turn
  reader,     \* the task that reads its bus
  pipe,       \* what waits in its bus: whose event it is, and its kind
  pushes,     \* events its turn has pushed
  outcome,    \* how its turn ended
  activeBus,  \* Chat._active_bus
  agentBus,   \* AgentRunner.bus
  crowded     \* history: streams whose turn overlapped another of the agent

streamVars == <<via, run, reader, pipe, pushes, outcome, activeBus, agentBus, crowded>>

Runs     == {"none", "asked", "waiting", "running", "dropped", "cancelled", "over"}
Readings == {"none", "reading", "awaiting", "ended", "gone"}
Outcomes == {"none", "answered", "routed", "blocked", "exhausted", "raised", "cancelled"}

StreamsTypeOK ==
  /\ via \in [Streams -> Gateway \cup Terminal]
  /\ run \in [Streams -> Runs] /\ reader \in [Streams -> Readings]
  /\ pipe \in [Streams -> Seq([of : Streams, kind : {"event", "done"}])]
  /\ pushes \in [Streams -> 0..MaxPushes] /\ outcome \in [Streams -> Outcomes]
  /\ activeBus \in Streams \cup {Nobody} /\ agentBus \in Streams \cup {Nobody}
  /\ crowded \subseteq Streams

StreamsInit ==
  /\ via \in [Streams -> Gateway] \cup [Streams -> Terminal]
  /\ run = [s \in Streams |-> "none"] /\ reader = [s \in Streams |-> "none"]
  /\ pipe = [s \in Streams |-> <<>>]
  /\ pushes = [s \in Streams |-> 0] /\ outcome = [s \in Streams |-> "none"]
  /\ activeBus = Nobody /\ agentBus = Nobody /\ crowded = {}

-----------------------------------------------------------------------------
OfChat(s) == via[s] \in {"socket", "thread", "turn"}

(* Where a turn pushes an event that names no bus: a chat's phases, and all  *)
(* an agent pushes.  An agent spawned by a command keeps its bus.            *)
Shared(s) == CASE OfChat(s) -> activeBus [] via[s] = "agent" -> agentBus [] OTHER -> s

Pushed(s, kind) == [of |-> s, kind |-> kind]

Into(p, bus, s, kind) == IF bus = Nobody THEN p ELSE [p EXCEPT ![bus] = Append(@, Pushed(s, kind))]

(* Turns under way on the agent.                                             *)
Beside(s) == {t \in Streams \ {s} : via[t] = "agent" /\ run[t] \in {"asked", "running"}}

Crowd(s) == crowded' = IF Beside(s) = {} THEN crowded ELSE crowded \cup {s} \cup Beside(s)

(* The handler of an agent's run replaces the agent's bus; its stream starts *)
(* when the response does.                                                   *)
Ask(s) ==
  /\ via[s] = "agent" /\ run[s] = "none"
  /\ run' = [run EXCEPT ![s] = "asked"]
  /\ agentBus' = s /\ Crowd(s)
  /\ UNCHANGED <<via, reader, pipe, pushes, outcome, activeBus>>

(* The task of the turn and the reader begin; the terminal runs one turn at  *)
(* a time.                                                                   *)
Begin(s) ==
  /\ run[s] = IF via[s] = "agent" THEN "asked" ELSE "none"
  /\ via[s] \in Terminal => \A t \in Streams : run[t] \in {"none", "over"} /\ reader[t] # "reading"
  /\ run' = [run EXCEPT ![s] = IF OfChat(s) THEN "waiting" ELSE "running"]
  /\ reader' = [reader EXCEPT ![s] = "reading"]
  /\ UNCHANGED <<via, pipe, pushes, outcome, activeBus, agentBus, crowded>>

Unlocked(s) == TRUE  \* mutant

(* The pooled chat's lock.                                                   *)
LockFree(s) == \A t \in Streams : OfChat(t) => run[t] \notin {"running", "cancelled"}

(* send() makes its bus the chat's.                                          *)
Take(s) ==
  /\ run[s] = "waiting" /\ LockFree(s)
  /\ run' = [run EXCEPT ![s] = "running"] /\ activeBus' = s
  /\ UNCHANGED <<via, reader, pipe, pushes, outcome, agentBus, crowded>>

(* A log, a token, a tool event go to the turn's own bus, a phase to the     *)
(* chat's.                                                                   *)
Emit(s) ==
  /\ run[s] = "running" /\ pushes[s] < MaxPushes
  /\ pushes' = [pushes EXCEPT ![s] = @ + 1]
  /\ \E bus \in IF OfChat(s) THEN {s, Shared(s)} ELSE {Shared(s)} :
       pipe' = Into(pipe, bus, s, "event")
  /\ UNCHANGED <<via, run, reader, outcome, activeBus, agentBus, crowded>>

(* How send() and AgentRunner.run return.  A message that moderation blocks  *)
(* and a turn stopped for too many tool calls return without a done.         *)
Endings(s) ==
  IF OfChat(s) THEN {"answered", "routed", "blocked", "exhausted", "raised"} ELSE {"answered"}

Tells(s, how) == how \in {"answered", "routed"}

(* The pushes of the turn itself: its done, then its last phase.             *)
TurnEnd(s, how) ==
  LET bus == IF OfChat(s) THEN s ELSE Shared(s)
      p   == IF Tells(s, how) THEN Into(pipe, bus, s, "done") ELSE pipe
  IN  IF how \in {"answered", "exhausted"} THEN Into(p, Shared(s), s, "event") ELSE p

DoneOnce(s, p) == p  \* mutant

(* What the request's own code pushes once the turn is back, in a finally    *)
(* except on the socket, which relies on the turn.                           *)
Closing(s, p) == IF via[s] = "socket" THEN p ELSE Into(p, s, s, "done")

Return(s) ==
  /\ run[s] = "running"
  /\ \E how \in Endings(s) :
       /\ outcome' = [outcome EXCEPT ![s] = how]
       /\ pipe' = Closing(s, TurnEnd(s, how))
  /\ run' = [run EXCEPT ![s] = "over"]
  /\ UNCHANGED <<via, reader, pushes, activeBus, agentBus, crowded>>

(* A cancelled turn pushes nothing itself.  In the terminal the user cancels.*)
Cancel(s) ==
  /\ run[s] \in {"dropped", "cancelled"} \/ (run[s] = "running" /\ via[s] \in Terminal)
  /\ outcome' = [outcome EXCEPT ![s] = "cancelled"]
  /\ pipe' = Closing(s, pipe)
  /\ run' = [run EXCEPT ![s] = "over"]
  /\ UNCHANGED <<via, reader, pushes, activeBus, agentBus, crowded>>

-----------------------------------------------------------------------------
(* A finally that finds its task unfinished cancels it.                      *)
Cut(s) ==
  [run EXCEPT ![s] = CASE @ = "running" -> "cancelled" [] @ = "waiting" -> "dropped" [] OTHER -> @]

(* After the first done: the socket and a thread's stream await the task.    *)
Read(s) ==
  /\ reader[s] = "reading" /\ pipe[s] # <<>>
  /\ pipe' = [pipe EXCEPT ![s] = Tail(@)]
  /\ IF Head(pipe[s]).kind = "event" THEN UNCHANGED <<run, reader>>
     ELSE /\ reader' = [reader EXCEPT ![s] = IF via[s] \in {"socket", "thread"} THEN "awaiting" ELSE "ended"]
          /\ run' = IF via[s] = "agent" THEN Cut(s) ELSE run
  /\ UNCHANGED <<via, pushes, outcome, activeBus, agentBus, crowded>>

(* The terminal gives its reader two seconds once the turn is back.          *)
GiveUpReading(s) ==
  /\ via[s] \in Terminal /\ run[s] = "over" /\ reader[s] = "reading"
  /\ reader' = [reader EXCEPT ![s] = "gone"] /\ pipe' = [pipe EXCEPT ![s] = <<>>]
  /\ UNCHANGED <<via, run, pushes, outcome, activeBus, agentBus, crowded>>

(* The last message, "complete", follows the turn.                           *)
Complete(s) ==
  /\ reader[s] = "awaiting" /\ run[s] = "over"
  /\ reader' = [reader EXCEPT ![s] = "ended"]
  /\ UNCHANGED <<via, run, pipe, pushes, outcome, activeBus, agentBus, crowded>>

(* The client leaves.  A streamed response is closed and cancels its turn;   *)
(* the socket notices only when it sends, and lets the turn end.             *)
Leave(s) ==
  /\ via[s] \in Gateway
  /\ IF via[s] = "socket"
     THEN /\ reader[s] = "reading" /\ pipe[s] # <<>>
          /\ reader' = [reader EXCEPT ![s] = "awaiting"] /\ UNCHANGED run
     ELSE /\ reader[s] \in {"reading", "awaiting"}
          /\ reader' = [reader EXCEPT ![s] = "gone"] /\ run' = Cut(s)
  /\ pipe' = [pipe EXCEPT ![s] = <<>>]
  /\ UNCHANGED <<via, pushes, outcome, activeBus, agentBus, crowded>>

StreamsNext ==
  \E s \in Streams :
    \/ Ask(s) \/ Begin(s) \/ Take(s) \/ Emit(s) \/ Return(s) \/ Cancel(s)
    \/ Read(s) \/ GiveUpReading(s) \/ Complete(s) \/ Leave(s)

(* A turn comes back: its model and tool calls have timeouts, and a document *)
(* or an approval that it waits for without one is assumed to come.  A       *)
(* cancelled turn ends, and tasks that can go on do.                         *)
StreamsFairness ==
  \A s \in Streams :
    /\ WF_streamVars(Take(s)) /\ WF_streamVars(Return(s))
    /\ WF_streamVars(Cancel(s) /\ run[s] # "running")
    /\ WF_streamVars(Read(s)) /\ WF_streamVars(Complete(s)) /\ WF_streamVars(GiveUpReading(s))

-----------------------------------------------------------------------------
(* The turn of a socket that came back without a done: its reader waits for  *)
(* ever, and never learns that the client left (phase_c.py:102).              *)
Mute(s) == via[s] = "socket" /\ outcome[s] \in {"blocked", "exhausted", "raised"}

(* Every request that is read is read to an end, whatever becomes of its     *)
(* turn and its client, but on a mute socket.                                *)
RequestsAreRead ==
  \A s \in Streams : reader[s] # "none" ~> (reader[s] \in {"ended", "gone"} \/ Mute(s))

(* A stream carries the events of its own turn, and its turn is cut short by *)
(* nobody but its client; unless turns overlapped on the agent, whose events *)
(* go to the latest stream and whose done ends it (agents.py:84).            *)
StreamsAreTheirOwn ==
  \A s \in Streams \ crowded :
    /\ \A i \in DOMAIN pipe[s] : pipe[s][i].of = s
    /\ run[s] \in {"dropped", "cancelled"} => reader[s] = "gone"
    /\ reader[s] = "ended" => run[s] = "over"
=============================================================================
