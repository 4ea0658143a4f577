--------------------------- MODULE NotificationBus ---------------------------
(***************************************************************************)
(* mcp_cli/services/notification_bus.py and the fan-out of one chat turn   *)
(* around it, _merge_events of vajra_gate/chat.py: the chat task pushes,   *)
(* the response generator (Main) reads what the client gets, the chat log  *)
(* and the reward observer read along, a heartbeat pushes on its own.      *)
(*                                                                         *)
(* Pushing never suspends, so the events pushed between two awaits of a    *)
(* task reach the queues in one step.                                      *)
(***************************************************************************)
EXTENDS Naturals, Sequences, FiniteSets

CONSTANTS
  Main,       \* the response generator
  Observers,  \* the chat log and the reward observer
  MaxQueue,   \* max_queue_size
  MaxEvents,  \* bound: events of the turn before its answer
  MaxBeats    \* bound: heartbeats

Readers == Observers \cup {Main}
Kinds   == {"event", "phase", "done", "beat"}

ASSUME ConstantsAssumption ==
  /\ Main \notin Observers
  /\ MaxQueue \in Nat \ {0} /\ MaxEvents \in Nat /\ MaxBeats \in Nat

Event == [seq : Nat, kind : Kinds]

(* The done event events() makes up carries no number.                       *)
SyntheticDone == [seq |-> 0, kind |-> "done"]

VARIABLES
  buffer,  \* _buffer
  queues,  \* the readers whose queue is in _queues
  queue,   \* the contents of each reader's queue
  done,    \* _done
  state,   \* where each reader is
  turn,    \* the chat task
  beats,   \* heartbeats pushed
  \* History, read by properties only:
  log,     \* the events pushed: the n-th has seq n
  joined,  \* readers that subscribed
  at,      \* number of the last event a reader received or came too late for
  got,     \* the events a reader has received, without the synthetic done
  lost     \* readers more than MaxQueue events behind: their queue was full

busVars  == <<buffer, queues, queue, done>>
taskVars == <<state, turn, beats>>
history  == <<joined, at, got>>
vars     == <<busVars, taskVars, history, log, lost>>

States == {"new", "reading", "ended", "failed", "cancelled", "gone"}

TypeOK ==
  /\ buffer \in Seq(Event) /\ Len(buffer) <= MaxQueue
  /\ queues \subseteq Readers
  /\ queue \in [Readers -> Seq(Event)]
  /\ \A r \in Readers : Len(queue[r]) <= MaxQueue
  /\ done \in BOOLEAN
  /\ state \in [Readers -> States]
  /\ turn \in {"running", "answered", "cancelled", "over"}
  /\ beats \in 0..MaxBeats
  /\ log \in Seq(Event) /\ joined \subseteq Readers
  /\ at \in [Readers -> Nat] /\ got \in [Readers -> Seq(Event)]
  /\ lost \subseteq Readers

Init ==
  /\ buffer = <<>> /\ queues = {} /\ queue = [r \in Readers |-> <<>>] /\ done = FALSE
  /\ state = [r \in Readers |-> "new"] /\ turn = "running" /\ beats = 0
  /\ log = <<>> /\ joined = {}
  /\ at = [r \in Readers |-> 0] /\ got = [r \in Readers |-> <<>>] /\ lost = {}

-----------------------------------------------------------------------------
Numbered(kinds) == [i \in 1..Len(kinds) |-> [seq |-> Len(log) + i, kind |-> kinds[i]]]

Unlimited(q) == q  \* mutant

(* put_nowait drops what finds the queue full, and so does the buffer.       *)
Clip(q) == IF Len(q) <= MaxQueue THEN q ELSE SubSeq(q, 1, MaxQueue)

(* Events are buffered while nobody is subscribed, else broadcast.           *)
Deposit(es) ==
  IF queues = {}
  THEN buffer' = Clip(buffer \o es) /\ UNCHANGED queue
  ELSE /\ queue' = [r \in Readers |-> IF r \in queues THEN Clip(queue[r] \o es) ELSE queue[r]]
       /\ UNCHANGED buffer

(* _broadcast, for the events pushed in one step.                            *)
Broadcast(kinds) ==
  /\ Deposit(Numbered(kinds))
  /\ log' = log \o Numbered(kinds)
  /\ lost' = lost \cup {r \in queues : Len(log') - at[r] > MaxQueue}
  /\ UNCHANGED <<queues, history>>

Produced == Cardinality({i \in DOMAIN log : log[i].kind = "event"})

Push ==
  /\ turn = "running" /\ Produced < MaxEvents
  /\ Broadcast(<<"event">>)
  /\ UNCHANGED <<done, taskVars>>

(* The turn's answer: the pipeline pushes done and then the phase DONE, and  *)
(* run_chat pushes done again, without an await in between.                  *)
Answer ==
  /\ turn = "running"
  /\ turn' = "answered" /\ done' = TRUE
  /\ Broadcast(<<"done", "phase", "done">>)
  /\ UNCHANGED <<state, beats>>

NoDone ==  \* mutant
  /\ turn = "running"
  /\ turn' = "over"
  /\ UNCHANGED <<busVars, history, log, lost, state, beats>>

(* send() raised, or its task was cancelled: run_chat's finally.             *)
GiveUp ==
  /\ turn \in {"running", "cancelled"}
  /\ turn' = "over" /\ done' = TRUE
  /\ Broadcast(<<"done">>)
  /\ UNCHANGED <<state, beats>>

Beat ==
  /\ state[Main] = "reading" /\ beats < MaxBeats
  /\ beats' = beats + 1
  /\ Broadcast(<<"beat">>)
  /\ UNCHANGED <<done, state, turn>>

-----------------------------------------------------------------------------
HasDone(q) == \E i \in DOMAIN q : q[i].kind = "done"

KeepBuffer == buffer  \* mutant

Drained == <<>>

(* A subscriber that comes after done was pushed to others is told so.       *)
MissedDone == done /\ ~HasDone(buffer)

MainOnly(how) ==  \* mutant
  /\ state' = [state EXCEPT ![Main] = how]
  /\ UNCHANGED turn

(* When Main ends, _merge_events cancels the other tasks and waits for them. *)
CancelOthers(how) ==
  /\ state' = [r \in Readers |-> IF r = Main THEN how
                                 ELSE IF state[r] \in {"new", "reading"} THEN "cancelled"
                                 ELSE state[r]]
  /\ turn' = IF turn = "running" THEN "cancelled" ELSE turn

(* events(), up to its first await: the buffer is replayed and emptied.  A   *)
(* synthetic done that finds no room raises, and leaves the queue behind.    *)
Subscribe(r) ==
  LET overflow == MissedDone /\ Len(buffer) = MaxQueue IN
  /\ state[r] = "new"
  /\ r \in Observers => state[Main] # "new"
  /\ queues' = queues \cup {r}
  /\ queue' = [queue EXCEPT ![r] = IF MissedDone /\ ~overflow
                                     THEN Append(buffer, SyntheticDone) ELSE buffer]
  /\ buffer' = Drained
  /\ IF overflow /\ r = Main THEN CancelOthers("failed")
     ELSE /\ state' = [state EXCEPT ![r] = IF overflow THEN "failed" ELSE "reading"]
          /\ UNCHANGED turn
  /\ joined' = joined \cup {r}
  /\ at' = [at EXCEPT ![r] = IF buffer = <<>> THEN Len(log) ELSE Head(buffer).seq - 1]
  /\ lost' = IF Len(log) - at'[r] > MaxQueue THEN lost \cup {r} ELSE lost
  /\ UNCHANGED <<done, beats, got, log>>

Receive(r) ==
  LET e == Head(queue[r]) IN
  /\ state[r] = "reading" /\ queue[r] # <<>>
  /\ queue' = [queue EXCEPT ![r] = Tail(@)]
  /\ IF e = SyntheticDone THEN UNCHANGED <<at, got>>
     ELSE at' = [at EXCEPT ![r] = e.seq] /\ got' = [got EXCEPT ![r] = Append(@, e)]
  /\ IF e.kind # "done" THEN UNCHANGED <<queues, state, turn>>
     ELSE /\ queues' = queues \ {r}
          /\ IF r = Main THEN CancelOthers("ended")
             ELSE state' = [state EXCEPT ![r] = "ended"] /\ UNCHANGED turn
  /\ UNCHANGED <<buffer, done, beats, joined, log, lost>>

(* The client disconnects while the generator is suspended.                  *)
Disconnect ==
  /\ state[Main] = "reading"
  /\ queues' = queues \ {Main}
  /\ CancelOthers("gone")
  /\ UNCHANGED <<buffer, queue, done, beats, history, log, lost>>

(* A cancelled observer leaves its loop.                                     *)
Cancelled(r) ==
  /\ state[r] = "cancelled" /\ r \in queues
  /\ queues' = queues \ {r}
  /\ UNCHANGED <<buffer, queue, done, taskVars, history, log, lost>>

Next ==
  \/ Push \/ Answer \/ GiveUp \/ Beat \/ Disconnect
  \/ \E r \in Readers : Subscribe(r) \/ Receive(r) \/ Cancelled(r)

(* The turn finishes: its model and tool calls have timeouts, and a document *)
(* or an approval that it waits for without one is assumed to come.  Readers *)
(* go on reading: the client of Main consumes its stream.                    *)
Spec ==
  /\ Init /\ [][Next]_vars
  /\ WF_vars(Answer \/ GiveUp)
  /\ \A r \in Readers : WF_vars(Subscribe(r)) /\ WF_vars(Receive(r)) /\ WF_vars(Cancelled(r))

-----------------------------------------------------------------------------
(* The bus implements an event log: "Events that arrive *before* any         *)
(* subscriber registers are buffered and replayed to the first subscriber",  *)
(* "all published events are broadcast to every subscriber"                  *)
(* (notification_bus.py:16-20), up to the queue's size.                      *)
Log == INSTANCE EventLog WITH Room <- MaxQueue
ImplementsEventLog == Log!Spec

(* Every stream terminates ("inject a synthetic done so this subscriber      *)
(* terminates", notification_bus.py:108) unless its queue was full once.     *)
ReadersEnd ==
  \A r \in Readers : (state[r] = "reading") ~> (state[r] # "reading" \/ r \in lost)

(* However the client's stream ends, the chat task ends and no observer      *)
(* keeps a queue in the bus, although the done that would have ended it may  *)
(* have been dropped.                                                        *)
EverybodyLeaves ==
  state[Main] \in {"ended", "gone"} ~> queues = {} /\ turn \in {"answered", "over"}
=============================================================================
