------------------------------ MODULE ChatPool ------------------------------
(***************************************************************************)
(* vajra_gate/chat_pool.py and the requests that go through it             *)
(* (vajra_gate/chat.py, routers chat, sessions and langgraph, the cron     *)
(* jobs).  The pool maps session ids to chat instances, builds an instance *)
(* on demand, serializes the turns of an instance with a lock and closes   *)
(* the least recently used instance when there are too many.               *)
(*                                                                         *)
(* A request is a program: a sequence of the steps below.  asyncio runs    *)
(* one task at a time; `running` is the task that has not reached an await *)
(* since its last step.  The pool's own lock guards no await, so it is     *)
(* never contended and is not modelled.  The builder is ready.             *)
(***************************************************************************)
EXTENDS Naturals, Sequences, SequencesExt, FiniteSets, TLC

CONSTANTS
  Sessions,   \* session ids clients use
  Fresh,      \* session ids the gateway draws, each once
  Default,    \* the session "default"
  Tasks,      \* request tasks, one request each
  NoTask,     \* nobody holds the event loop
  Ops,        \* the requests clients make
  MaxSize,    \* maxsize
  MaxChats    \* bound: chat instances built

Ids   == Sessions \cup Fresh
Chats == 1..MaxChats
NoChat == 0

Requests == {"chat", "thread", "wait", "run", "reply", "model", "look",
             "new", "switch", "delete", "cron", "create"}

ASSUME ConstantsAssumption ==
  /\ Default \in Sessions /\ Sessions \cap Fresh = {}
  /\ NoTask \notin Tasks /\ Ops \subseteq Requests
  /\ MaxSize \in Nat \ {0} /\ MaxChats \in Nat \ {0}

Entry   == [sid : Ids, chat : Chats]
NoEntry == [sid |-> Default, chat |-> NoChat]

VARIABLES
  entries,   \* _entries, least recently used first
  active,    \* _active
  current,   \* _state._chat
  made,      \* chat instances built so far: 1..made
  closed,    \* instances whose stores are closed
  sidOf,     \* chat.session_id
  messages,  \* chat.messages: the turns in the instance's context
  indexing,  \* instances that have started an auto-index task
  locks,     \* the lock of an instance's entry: its holder, then the waiters
  rows,      \* turns with messages in the history table, by session id
  issued,    \* ids new_session_id() or POST /runs has drawn
  todo,      \* steps left of a request
  arg,       \* the session id a request names
  want,      \* the id of the pool.get in progress
  held,      \* the instance a request holds
  loaded,    \* the history a request has loaded
  victim,    \* the entry a request is closing
  turn,      \* session id and context of the turn a request is in
  outcome,   \* how a request ended
  running,   \* the task holding the event loop
  gone,      \* history: ids whose instance was evicted or serves another id
  outdated   \* history: ids given to an instance with a history read too early, or overwritten

poolVars == <<entries, active, current, made, issued, indexing>>
chatVars == <<closed, sidOf, messages, locks>>
taskVars == <<todo, arg, want, held, loaded, victim, turn, outcome, running>>
history  == <<gone, outdated>>
vars     == <<poolVars, chatVars, taskVars, rows, history>>

(* The steps of the requests.  "current" stores the instance in              *)
(* _state._chat; "later" is the gap between answering a streaming request    *)
(* and running its generator, and the question which models there are.       *)
ChatSteps   == <<"get", "later", "acquire", "turn">>
NewSteps    == <<"active", "current", "createNew", "active", "current">>
SwitchSteps == <<"active", "current", "exists", "get", "read", "acquire", "adopt", "release", "activate">>
DeleteSteps == <<"active", "current", "exists", "erase", "evict">>
CreateSteps == <<"active", "current", "rename">>
CronSteps   == <<"active", "current", "get", "read", "acquire", "adopt", "turn">>
LookSteps   == <<"active", "current", "exists", "read">>
WaitSteps   == <<"active", "current", "exists", "get", "read", "adopt", "acquire", "turn">>
StreamSteps == <<"active", "current", "exists", "get", "read", "adopt", "later", "acquire", "turn">>
RunSteps    == <<"get", "acquire", "turn">>
ReplySteps  == <<"active", "current", "acquire", "turn">>
ModelSteps  == <<"active", "current", "later", "acquire", "release">>

Program ==
  [op \in Requests |->
     CASE op = "chat"   -> ChatSteps
       [] op = "thread" -> StreamSteps
       [] op = "wait"   -> WaitSteps
       [] op = "run"    -> RunSteps
       [] op = "reply"  -> ReplySteps
       [] op = "model"  -> ModelSteps
       [] op = "look"   -> LookSteps
       [] op = "new"    -> NewSteps
       [] op = "switch" -> SwitchSteps
       [] op = "delete" -> DeleteSteps
       [] op = "cron"   -> CronSteps
       [] op = "create" -> CreateSteps]

(* Steps a task reaches by awaiting: others may run before them.             *)
Awaited == {"create", "createNew", "list", "read", "erase", "later", "finish"}

Steps == Awaited \cup
  {"start", "get", "active", "lookup", "current", "exists", "adopt", "acquire",
   "turn", "release", "activate", "evict", "evictLru", "close", "closing", "rename"}

NoTurn == [sid |-> Default, ctx |-> {}]

TypeOK ==
  /\ entries \in Seq(Entry)
  /\ active \in Ids /\ current \in Chats \cup {NoChat} /\ made \in 0..MaxChats
  /\ closed \subseteq Chats /\ indexing \subseteq Chats /\ issued \subseteq Fresh
  /\ sidOf \in [Chats -> Ids] /\ messages \in [Chats -> SUBSET Tasks]
  /\ locks \in [Chats -> Seq(Tasks)]
  /\ rows \in [Ids -> SUBSET Tasks]
  /\ todo \in [Tasks -> Seq(Steps)]
  /\ arg \in [Tasks -> Ids] /\ want \in [Tasks -> Ids]
  /\ held \in [Tasks -> Chats \cup {NoChat}]
  /\ loaded \in [Tasks -> SUBSET Tasks]
  /\ victim \in [Tasks -> Entry \cup {NoEntry}]
  /\ turn \in [Tasks -> [sid : Ids, ctx : SUBSET Tasks]]
  /\ outcome \in [Tasks -> {"none", "ok", "failed", "missing", "closed"}]
  /\ running \in Tasks \cup {NoTask}
  /\ gone \subseteq Ids /\ outdated \subseteq Ids

Init ==
  /\ entries = <<>> /\ active = Default /\ current = NoChat /\ made = 0
  /\ closed = {} /\ indexing = {} /\ issued = {}
  /\ sidOf = [c \in Chats |-> Default] /\ messages = [c \in Chats |-> {}]
  /\ locks = [c \in Chats |-> <<>>] /\ rows = [s \in Ids |-> {}]
  /\ todo = [t \in Tasks |-> <<"start">>]
  /\ arg = [t \in Tasks |-> Default] /\ want = [t \in Tasks |-> Default]
  /\ held = [t \in Tasks |-> NoChat] /\ loaded = [t \in Tasks |-> {}]
  /\ victim = [t \in Tasks |-> NoEntry] /\ turn = [t \in Tasks |-> NoTurn]
  /\ outcome = [t \in Tasks |-> "none"] /\ running = NoTask
  /\ gone = {} /\ outdated = {}

-----------------------------------------------------------------------------
Free == running = NoTask

Waits(t) == \E c \in Chats : \E i \in 2..Len(locks[c]) : locks[c][i] = t

(* Task t is about to take the step.                                         *)
At(t, step) ==
  /\ todo[t] # <<>> /\ Head(todo[t]) = step
  /\ running = t \/ (Free /\ ~Waits(t))

(* t goes on with steps: it keeps the event loop until it awaits or ends.    *)
GoOn(t, steps) ==
  /\ todo' = [todo EXCEPT ![t] = steps]
  /\ running' = IF steps = <<>> \/ Head(steps) \in Awaited THEN NoTask ELSE t
  /\ outcome' = IF steps = <<>> THEN [outcome EXCEPT ![t] = "ok"] ELSE outcome

(* The request answers with an error.                                        *)
End(t, result) ==
  /\ todo' = [todo EXCEPT ![t] = <<>>]
  /\ running' = NoTask
  /\ outcome' = [outcome EXCEPT ![t] = result]

Rest(t) == Tail(todo[t])

InTurn(t) == todo[t] = <<"finish">>

Has(s)     == \E i \in DOMAIN entries : entries[i].sid = s
PlaceOf(s) == CHOOSE i \in DOMAIN entries : entries[i].sid = s
EntryOf(s) == entries[PlaceOf(s)]
Without(s) == IF Has(s) THEN RemoveAt(entries, PlaceOf(s)) ELSE entries

(* _entries.move_to_end(session_id)                                          *)
Touch(s) == Append(Without(s), EntryOf(s))

KnownIds == Sessions \cup issued

(* POST /runs draws an id of its own, which clients find among the sessions  *)
(* afterwards.                                                               *)
Start(t, op, s) ==
  /\ At(t, "start")
  /\ arg' = [arg EXCEPT ![t] = s]
  /\ IF op = "run" THEN s \in Fresh \ issued /\ issued' = issued \cup {s}
                  ELSE s \in KnownIds /\ UNCHANGED issued
  /\ GoOn(t, Program[op])
  /\ UNCHANGED <<entries, active, current, made, indexing,
                 chatVars, want, held, loaded, victim, turn, rows, history>>

-----------------------------------------------------------------------------
(* pool.get: by the id in the request, or by pool.active.                    *)
Want(t, step, s) ==
  /\ At(t, step)
  /\ want' = [want EXCEPT ![t] = s]
  /\ GoOn(t, <<"lookup">> \o Rest(t))
  /\ UNCHANGED <<poolVars, chatVars, arg, held, loaded, victim, turn, rows, history>>

Found(t) ==
  /\ At(t, "lookup") /\ Has(want[t])
  /\ entries' = Touch(want[t])
  /\ held' = [held EXCEPT ![t] = EntryOf(want[t]).chat]
  /\ GoOn(t, Rest(t))
  /\ UNCHANGED <<active, current, made, issued, indexing, chatVars, arg, want, loaded, victim, turn, rows, history>>

NotFound(t) ==
  /\ At(t, "lookup") /\ ~Has(want[t])
  /\ GoOn(t, <<"create">> \o Rest(t))
  /\ UNCHANGED <<poolVars, chatVars, arg, want, held, loaded, victim, turn, rows, history>>

(* builder.create(s) has built the next instance: no history is loaded.      *)
Build(s) ==
  /\ made < MaxChats
  /\ made' = made + 1
  /\ sidOf' = [sidOf EXCEPT ![made + 1] = s]

OverwriteEntry(s) == FALSE  \* mutant

(* Somebody else registered the session meanwhile: the new instance is       *)
(* closed and the registered one used.                                       *)
Duplicate(s) == Has(s)

JustBuilt(s) == made + 1  \* mutant

Registered(s) == EntryOf(s).chat

Created(t) ==
  LET s == want[t] IN
  /\ At(t, "create") /\ Build(s)
  /\ IF Duplicate(s)
     THEN /\ entries' = Touch(s)
          /\ held' = [held EXCEPT ![t] = Registered(s)]
          /\ closed' = closed \cup {made + 1}
     ELSE /\ entries' = Append(Without(s), [sid |-> s, chat |-> made + 1])
          /\ held' = [held EXCEPT ![t] = made + 1]
          /\ closed' = closed
  /\ GoOn(t, <<"evictLru">> \o Rest(t))
  /\ UNCHANGED <<active, current, issued, indexing, messages, locks, arg, want, loaded, victim, turn, rows, history>>

(* pool.new_session; nobody knows the generated id before it is registered.  *)
CreatedNew(t) ==
  /\ At(t, "createNew")
  /\ \E s \in Fresh \ issued :
       /\ Build(s)
       /\ issued' = issued \cup {s}
       /\ entries' = Append(Without(s), [sid |-> s, chat |-> made + 1])
       /\ active' = s
  /\ GoOn(t, <<"evictLru">> \o Rest(t))
  /\ UNCHANGED <<current, indexing, closed, messages, locks, arg, want, held, loaded, victim, turn, rows, history>>

OneTooMany == Len(entries) > MaxSize + 1  \* mutant

(* _evict_lru: one round of its loop.                                        *)
TooMany == Len(entries) > MaxSize

EvictLru(t) ==
  /\ At(t, "evictLru")
  /\ IF TooMany
     THEN /\ victim' = [victim EXCEPT ![t] = Head(entries)]
          /\ entries' = Tail(entries)
          /\ gone' = gone \cup {Head(entries).sid}
          /\ GoOn(t, <<"close">> \o todo[t])
     ELSE /\ UNCHANGED <<entries, victim, gone>>
          /\ GoOn(t, Rest(t))
  /\ UNCHANGED <<active, current, made, issued, indexing, chatVars, arg, want, held, loaded, turn, rows, outdated>>

(* pool.evict(session_id): an entry is closed before the active session is   *)
(* looked at, a missing one is not waited for.                               *)
ClearStale(s) ==
  IF s = active THEN active' = Default /\ current' = NoChat
                ELSE UNCHANGED <<active, current>>

Evict(t) ==
  /\ At(t, "evict")
  /\ IF Has(arg[t])
     THEN /\ victim' = [victim EXCEPT ![t] = EntryOf(arg[t])]
          /\ entries' = Without(arg[t])
          /\ gone' = gone \cup {arg[t]}
          /\ UNCHANGED <<active, current>>
          /\ GoOn(t, <<"close">> \o Rest(t))
     ELSE /\ UNCHANGED <<victim, entries, gone>>
          /\ ClearStale(arg[t])
          /\ GoOn(t, Rest(t))
  /\ UNCHANGED <<made, issued, indexing, chatVars, arg, want, held, loaded, turn, rows, outdated>>

(* _close_entry: take the entry's lock; an unfinished auto-index task is     *)
(* cancelled and awaited before the stores are closed.                       *)
Enter(t, c) == [locks EXCEPT ![c] = Append(@, t)]

KeepLock(c) == locks  \* mutant

Leave(c) == [locks EXCEPT ![c] = Tail(@)]

CloseAtOnce(t) ==  \* mutant
  /\ At(t, "close")
  /\ closed' = closed \cup {victim[t].chat}
  /\ ClearStale(victim[t].sid)
  /\ GoOn(t, Rest(t))
  /\ UNCHANGED <<entries, made, issued, indexing, sidOf, messages, locks, arg, want, held, loaded, victim, turn, rows, history>>

LockToClose(t) ==
  LET c == victim[t].chat IN
  /\ At(t, "close")
  /\ locks' = Enter(t, c)
  /\ todo' = [todo EXCEPT ![t] = <<"closing">> \o Rest(t)]
  /\ running' \in IF locks[c] # <<>> THEN {NoTask}
                  ELSE IF c \in indexing THEN {t, NoTask} ELSE {t}
  /\ UNCHANGED <<poolVars, closed, sidOf, messages, arg, want, held, loaded, victim, turn, outcome, rows, history>>

Close(t) ==
  /\ At(t, "closing")
  /\ closed' = closed \cup {victim[t].chat}
  /\ locks' = Leave(victim[t].chat)
  /\ ClearStale(victim[t].sid)
  /\ victim' = [victim EXCEPT ![t] = NoEntry]
  /\ GoOn(t, Rest(t))
  /\ UNCHANGED <<entries, made, issued, indexing, sidOf, messages, arg, want, held, loaded, turn, rows, history>>

-----------------------------------------------------------------------------
(* Steps of the handlers around the pool.                                    *)
SetCurrent(t) ==
  /\ At(t, "current")
  /\ current' = held[t]
  /\ GoOn(t, Rest(t))
  /\ UNCHANGED <<entries, active, made, issued, indexing, chatVars, arg, want, held, loaded, victim, turn, rows, history>>

Later(t) ==
  /\ At(t, "later")
  /\ GoOn(t, Rest(t))
  /\ UNCHANGED <<poolVars, chatVars, arg, want, held, loaded, victim, turn, rows, history>>

(* _session_exists: the instance's own session, a session with messages, or  *)
(* a pool entry.                                                             *)
Exists(t) ==
  /\ At(t, "exists")
  /\ GoOn(t, IF sidOf[held[t]] = arg[t] THEN Rest(t) ELSE <<"list">> \o Rest(t))
  /\ UNCHANGED <<poolVars, chatVars, arg, want, held, loaded, victim, turn, rows, history>>

List(t) ==
  /\ At(t, "list")
  /\ CASE held[t] \in closed -> End(t, "closed")
       [] held[t] \notin closed /\ (rows[arg[t]] # {} \/ Has(arg[t])) -> GoOn(t, Rest(t))
       [] OTHER -> End(t, "missing")
  /\ UNCHANGED <<poolVars, chatVars, arg, want, held, loaded, victim, turn, rows, history>>

(* history.async_load_session                                                *)
Read(t) ==
  /\ At(t, "read")
  /\ IF held[t] \in closed THEN End(t, "closed") /\ UNCHANGED loaded
     ELSE /\ loaded' = [loaded EXCEPT ![t] = rows[arg[t]]]
          /\ GoOn(t, Rest(t))
  /\ UNCHANGED <<poolVars, chatVars, arg, want, held, victim, turn, rows, history>>

Overwritten(t) ==
  \E u \in Tasks : InTurn(u) /\ held[u] = held[t] /\ turn[u].sid # arg[t]

(* chat.session_id = ...; chat.messages = ...  A turn that is in progress on *)
(* the instance puts its own messages back when it ends.                     *)
Adopt(t) ==
  /\ At(t, "adopt")
  /\ sidOf' = [sidOf EXCEPT ![held[t]] = arg[t]]
  /\ messages' = [messages EXCEPT ![held[t]] = loaded[t]]
  /\ outdated' = IF loaded[t] # rows[arg[t]] \/ Overwritten(t) THEN outdated \cup {arg[t]} ELSE outdated
  /\ GoOn(t, Rest(t))
  /\ UNCHANGED <<poolVars, closed, locks, arg, want, held, loaded, victim, turn, rows, gone>>

Acquire(t) ==
  LET c == held[t] IN
  /\ At(t, "acquire")
  /\ locks' = Enter(t, c)
  /\ todo' = [todo EXCEPT ![t] = Rest(t)]
  /\ running' = IF locks[c] = <<>> THEN t ELSE NoTask
  /\ UNCHANGED <<poolVars, closed, sidOf, messages, arg, want, held, loaded, victim, turn, outcome, rows, history>>

Release(t) ==
  /\ At(t, "release")
  /\ locks' = Leave(held[t])
  /\ GoOn(t, Rest(t))
  /\ UNCHANGED <<poolVars, closed, sidOf, messages, arg, want, held, loaded, victim, turn, rows, history>>

(* The client of a chat request times out or leaves while the request waits. *)
GiveUp(t) ==
  /\ Free /\ todo[t] = <<"turn">>
  /\ \E i \in 2..Len(locks[held[t]]) :
       locks[held[t]][i] = t /\ locks' = [locks EXCEPT ![held[t]] = RemoveAt(@, i)]
  /\ End(t, "failed")
  /\ UNCHANGED <<poolVars, closed, sidOf, messages, arg, want, held, loaded, victim, turn, rows, history>>

(* pool.set_active(sid) and _state._chat = chat                              *)
Activate(t) ==
  /\ At(t, "activate")
  /\ active' = arg[t] /\ current' = held[t]
  /\ GoOn(t, Rest(t))
  /\ UNCHANGED <<entries, made, issued, indexing, chatVars, arg, want, held, loaded, victim, turn, rows, history>>

(* history.async_delete_session                                              *)
Erase(t) ==
  /\ At(t, "erase")
  /\ IF held[t] \in closed THEN End(t, "closed") /\ UNCHANGED rows
     ELSE /\ rows' = [rows EXCEPT ![arg[t]] = {}]
          /\ GoOn(t, Rest(t))
  /\ UNCHANGED <<poolVars, chatVars, arg, want, held, loaded, victim, turn, history>>

(* POST /threads: chat.new_session() on the active instance.                 *)
Rename(t) ==
  /\ At(t, "rename")
  /\ \E s \in Fresh \ issued :
       /\ issued' = issued \cup {s}
       /\ sidOf' = [sidOf EXCEPT ![held[t]] = s]
       /\ gone' = gone \cup {s}
  /\ messages' = [messages EXCEPT ![held[t]] = {}]
  /\ GoOn(t, Rest(t))
  /\ UNCHANGED <<entries, active, current, made, indexing, closed, locks, arg, want, held, loaded, victim, turn, rows, outdated>>

(* chat.send refuses the message: injection pattern or input moderation.     *)
Refuse(t) ==
  /\ At(t, "turn")
  /\ locks' = Leave(held[t])
  /\ End(t, "failed")
  /\ UNCHANGED <<poolVars, closed, sidOf, messages, arg, want, held, loaded, victim, turn, rows, history>>

(* A turn takes over session id and messages of the instance and saves the   *)
(* user's message, which raises when the instance is closed.                 *)
Turn(t) ==
  LET c == held[t] IN
  /\ At(t, "turn")
  /\ indexing' = indexing \cup {c}
  /\ messages' = [messages EXCEPT ![c] = @ \cup {t}]
  /\ IF c \in closed
     THEN /\ locks' = Leave(c) /\ End(t, "closed")
          /\ UNCHANGED <<turn, rows>>
     ELSE /\ turn' = [turn EXCEPT ![t] = [sid |-> sidOf[c], ctx |-> messages[c] \cup {t}]]
          /\ rows' = [rows EXCEPT ![sidOf[c]] = @ \cup {t}]
          /\ GoOn(t, <<"finish">>)
          /\ UNCHANGED locks
  /\ UNCHANGED <<entries, active, current, made, issued, closed, sidOf, arg, want, held, loaded, victim, history>>

(* The answer is saved under the session id the turn started with.           *)
Finish(t) ==
  /\ At(t, "finish")
  /\ rows' = [rows EXCEPT ![turn[t].sid] = @ \cup {t}]
  /\ messages' = [messages EXCEPT ![held[t]] = turn[t].ctx]
  /\ locks' = Leave(held[t])
  /\ GoOn(t, <<>>)
  /\ UNCHANGED <<poolVars, closed, sidOf, arg, want, held, loaded, victim, turn, history>>

(* The model or a tool raises, or the request is cancelled.                  *)
TurnFails(t) ==
  /\ At(t, "finish")
  /\ messages' = [messages EXCEPT ![held[t]] = turn[t].ctx]
  /\ locks' = Leave(held[t])
  /\ End(t, "failed")
  /\ UNCHANGED <<poolVars, closed, sidOf, arg, want, held, loaded, victim, turn, rows, history>>

-----------------------------------------------------------------------------
Get(t) == Want(t, "get", arg[t]) \/ Want(t, "active", active)

Step(t) ==
  \/ Get(t) \/ Found(t) \/ NotFound(t) \/ Created(t)
  \/ CreatedNew(t) \/ EvictLru(t) \/ Evict(t)
  \/ LockToClose(t) \/ Close(t)
  \/ SetCurrent(t) \/ Later(t) \/ Exists(t) \/ List(t) \/ Read(t) \/ Adopt(t)
  \/ Acquire(t) \/ Release(t) \/ Activate(t) \/ Erase(t) \/ Rename(t)
  \/ Turn(t) \/ Refuse(t) \/ Finish(t) \/ TurnFails(t)

Next ==
  \E t \in Tasks :
    \/ \E op \in Ops, s \in Ids : Start(t, op, s)
    \/ Step(t)
    \/ GiveUp(t)

(* Awaited calls return: queries, the construction of an instance, and the   *)
(* turn, whose model and tool calls have timeouts.                           *)
Spec == Init /\ [][Next]_vars /\ \A t \in Tasks : WF_vars(Step(t))

-----------------------------------------------------------------------------
Closing(c) == \E t \in Tasks : victim[t].chat = c

(* Between two steps of the event loop the pool holds at most maxsize        *)
(* instances, however many requests are creating sessions and waiting for    *)
(* victims to finish (docs/COMPLEXITY.md:89, "hard cap 32"); within a step   *)
(* there is at most one more.                                                *)
PoolBounded == Len(entries) <= IF Free THEN MaxSize ELSE MaxSize + 1

(* Every instance ever built is the entry of one session, or closed, or on   *)
(* its way to be closed: racing get calls neither leak an instance nor       *)
(* register one that is closed.                                              *)
NothingLeaks ==
  \A c \in 1..made :
    /\ (\E i \in DOMAIN entries : entries[i].chat = c) <=> c \notin closed /\ ~Closing(c)
    /\ \A i, j \in DOMAIN entries : entries[i].sid = entries[j].sid => i = j

(* An instance's stores are never closed while a turn on it is in progress.  *)
NoCloseInTurn ==
  [][\A t \in Tasks : InTurn(t) /\ InTurn(t)' => held[t] \notin closed']_vars

(* No two turns of one session are in progress together: "Session-scoped     *)
(* proxy around a CliChat that serializes send() calls", chat_pool.py:8.     *)
Serial(t, u) == InTurn(t) /\ InTurn(u) /\ turn[t].sid = turn[u].sid => t = u

SessionSerial == \A t, u \in Tasks : Serial(t, u)

(* The turns of a session are serialized whatever other sessions do, until   *)
(* its instance is evicted or it is another id of a registered instance.     *)
SerialWhileKept == \A t, u \in Tasks : turn[t].sid \notin gone => Serial(t, u)

(* No request uses an instance after its stores were closed, which           *)
(* _clear_stale_active is there to avoid (chat_pool.py:125), unless the pool *)
(* evicted it while the request held it.                                     *)
NothingClosedIsUsed == \A t \in Tasks : outcome[t] = "closed" => want[t] \in gone

(* The pool keeps its books: every state is well typed, bounded and without  *)
(* an instance that nobody will close, or that is used when it is closed.    *)
PoolIsSound == TypeOK /\ PoolBounded /\ NothingLeaks /\ NothingClosedIsUsed

(* A turn begins with every finished turn of its session in its context, as  *)
(* long as the session keeps its instance and no outdated history is loaded  *)
(* into it, nor one during a turn of another id that then overwrites it.     *)
ContextComplete ==
  [][\A t \in Tasks :
       ~InTurn(t) /\ InTurn(t)' /\ turn'[t].sid \notin gone \cup outdated
         => {u \in rows[turn'[t].sid] : outcome[u] = "ok"} \subseteq turn'[t].ctx]_vars

(* Every request that was started is answered, though requests wait for one  *)
(* another's turns both to send and to close victims.                        *)
EveryRequestEnds ==
  \A t \in Tasks : (todo[t] # <<"start">>) ~> (outcome[t] # "none")

(* For model checking: requests differ only by what they ask for.            *)
TaskSymmetry == Permutations(Tasks)
=============================================================================
