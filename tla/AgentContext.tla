---------------------------- MODULE AgentContext ----------------------------
(* What an agent remembers: the messages it sends to the model, which may be *)
(* summarized once in each run; the archive of what a summary has replaced;  *)
(* and its memory file, which is read into the system message and written    *)
(* back from the conversation when a run completes.  The runs of one agent   *)
(* follow each other here (AgentRunner has those that overlap).              *)
EXTENDS Naturals, Sequences, FiniteSets, SequencesExt, FiniteSetsExt, Lists

CONSTANTS
  MaxIterations,  \* config.max_iterations
  SummarizeOver,  \* SummarizationMiddleware._max_messages
  KeepMessages,   \* SummarizationMiddleware._keep_messages
  Unshown,        \* the last messages, which the summary prompt leaves out (5)
  Long,           \* ids of messages longer than the 200 characters the prompt shows of one
  MaxTasks,       \* bound: runs of the agent
  MaxVersions     \* bound: versions of the memory file

ASSUME KeepsWhatIsUnshown ==
  /\ KeepMessages \in Nat \ {0} /\ Unshown \in 0..KeepMessages
  /\ MaxIterations \in Nat /\ MaxTasks \in Nat /\ MaxVersions \in Nat /\ Long \subseteq Nat

VARIABLES
  context,        \* runner._messages
  archive,        \* ids in runner._summarized_archive
  phase,          \* where the run is
  turns,          \* iterations of the run
  summarized,     \* the middleware's flag
  memory,         \* the version in the memory file, 0 if there is none
  newest,         \* history: the newest version a message has carried
  said,           \* history: messages so far
  told,           \* history: ids of messages a summary prompt has shown as a whole
  glimpsed,       \* history: ids of those it has shown the beginning of
  torn,           \* history: calls whose batch was not completed
  tasks           \* runs so far

contextVars ==
  <<context, archive, phase, turns, summarized, memory, newest, said, told, glimpsed, torn, tasks>>

Ended == {"new", "completed", "failed"}
Kinds == {"system", "user", "call", "result", "answer", "summary"}

(* An assistant message may carry a version of the memory block; a result    *)
(* names the message with the call, and a call says how many results it has. *)
Message(id, kind, of, size, carries) ==
  [id |-> id, kind |-> kind, of |-> of, size |-> size, carries |-> carries]

ContextInit ==
  /\ context = <<>> /\ archive = {} /\ phase = "new" /\ turns = 0 /\ summarized = FALSE
  /\ memory = 0 /\ newest = 0 /\ said = 0 /\ told = {} /\ glimpsed = {} /\ torn = {} /\ tasks = 0

System(m) == m.kind = "system"
Heads(msgs) == Filter(msgs, [i \in DOMAIN msgs |-> System(msgs[i])])
Talk(msgs)  == Filter(msgs, [i \in DOMAIN msgs |-> ~System(msgs[i])])
Ids(msgs) == {m.id : m \in ToSet(msgs)}

(* _inject_memory: the memory file goes into a system message that has none. *)
Injected(msgs) == [msgs EXCEPT ![1].carries = IF @ = 0 THEN memory ELSE @]

(* _bootstrap: a new agent gets its system message after that.               *)
StartTask ==
  /\ phase \in Ended /\ tasks < MaxTasks
  /\ LET begun == IF context = <<>> THEN <<Message(0, "system", 0, 0, 0)>>
                  ELSE Injected(context)
     IN context' = Append(begun, Message(said + 1, "user", 0, 0, 0))
  /\ said' = said + 1 /\ tasks' = tasks + 1
  /\ phase' = "asking" /\ turns' = 0 /\ summarized' = FALSE
  /\ UNCHANGED <<archive, memory, newest, told, glimpsed, torn>>

(* The model answers with a text or with calls, or the request fails.        *)
Reply(kind, size) ==
  \E version \in {0} \cup ({newest + 1} \cap 1..MaxVersions) :
    /\ context' = Append(context, Message(said + 1, kind, 0, size, version))
    /\ newest'  = IF version = 0 THEN newest ELSE version
    /\ said'    = said + 1

FirstCarried(msgs) ==  \* mutant
  LET carriers == {i \in DOMAIN msgs : msgs[i].carries > 0}
  IN IF carriers = {} THEN memory ELSE msgs[Min(carriers)].carries

(* The last message that carries the block wins.                             *)
Carried(msgs) ==
  LET carriers == {i \in DOMAIN msgs : msgs[i].carries > 0}
  IN IF carriers = {} THEN memory ELSE msgs[Max(carriers)].carries

(* _persist_memory                                                           *)
Persist(msgs) == memory' = Carried(msgs)

AnswerText ==
  /\ phase = "asking" /\ turns < MaxIterations
  /\ Reply("answer", 0)
  /\ Persist(context')
  /\ phase'  = "completed"
  /\ UNCHANGED <<archive, turns, summarized, told, glimpsed, torn, tasks>>

Call ==
  /\ phase = "asking" /\ turns < MaxIterations
  /\ \E n \in 1..2 : Reply("call", n)
  /\ turns' = turns + 1
  /\ phase' = "called"
  /\ UNCHANGED <<archive, summarized, memory, told, glimpsed, torn, tasks>>

KeptFirst(talk) == SubSeq(talk, 1, Min({KeepMessages, Len(talk)}))  \* mutant

Kept(talk) == SubSeq(talk, Max({1, Len(talk) - KeepMessages + 1}), Len(talk))

ShownLess(msgs) == SubSeq(msgs, 1, Max({0, Len(msgs) - KeepMessages - 1}))  \* mutant

Shown(msgs) == SubSeq(msgs, 1, Len(msgs) - Unshown)

(* _maybe_summarize: too many messages, or too many tokens, which may be     *)
(* so at any time; and the model's summary may fail.  The prompt shows the   *)
(* first 200 characters of a message: all of it, unless it is long.          *)
Summarize ==
  /\ phase = "called" /\ ~summarized
  /\ phase' = "executing"
  /\ told'  = told \cup (Ids(Shown(context)) \ Long)
  /\ glimpsed' = glimpsed \cup Ids(Shown(context))
  /\ \/ /\ context' = Heads(context) \o <<Message(said + 1, "summary", 0, 0, 0)>> \o Kept(Talk(context))
        /\ archive' = archive \cup Ids(context)
        /\ summarized' = TRUE /\ said' = said + 1
     \/ UNCHANGED <<context, archive, summarized, said>>
  /\ UNCHANGED <<turns, memory, newest, torn, tasks>>

NoSummary ==
  /\ phase = "called"
  /\ summarized \/ Len(Talk(context)) =< SummarizeOver
  /\ phase' = "executing"
  /\ UNCHANGED <<context, archive, turns, summarized, memory, newest, said, told, glimpsed, torn, tasks>>

ResultsLost(call, n) == [i \in 1..(n - 1) |-> Message(said + i, "result", call.id, 0, 0)]  \* mutant

(* The results of the batch are recorded together.                           *)
Results(call, n) ==
  [i \in 1..n |-> Message(said + i, "result", call.id, 0, 0)]

ExecuteCalls ==
  /\ phase = "executing"
  /\ context' = context \o Results(Last(context), Last(context).size)
  /\ said'    = said + Last(context).size
  /\ phase'   = "asking"
  /\ UNCHANGED <<archive, turns, summarized, memory, newest, told, glimpsed, torn, tasks>>

(* A stop at a gated tool records the results there are and fails the run.   *)
Interrupted ==
  /\ phase = "executing"
  /\ \E n \in 0..(Last(context).size - 1) :
       context' = context \o Results(Last(context), n) /\ said' = said + n
  /\ torn'  = torn \cup {Last(context).id}
  /\ phase' = "failed"
  /\ UNCHANGED <<archive, turns, summarized, memory, newest, told, glimpsed, tasks>>

(* The request fails, the token budget is used up or the run times out.      *)
FailTask ==
  /\ phase \notin Ended
  /\ phase' = "failed"
  /\ torn'  = IF phase = "asking" THEN torn ELSE torn \cup {Last(context).id}
  /\ UNCHANGED <<context, archive, turns, summarized, memory, newest, said, told, glimpsed, tasks>>

Exhausted ==
  /\ phase = "asking" /\ turns = MaxIterations
  /\ Persist(context)
  /\ phase'  = "completed"
  /\ UNCHANGED <<context, archive, turns, summarized, newest, said, told, glimpsed, torn, tasks>>

ContextNext ==
  \/ StartTask \/ AnswerText \/ Call \/ Summarize \/ NoSummary
  \/ ExecuteCalls \/ Interrupted \/ FailTask \/ Exhausted

-----------------------------------------------------------------------------
ContextTypeOK ==
  /\ \A m \in ToSet(context) :
       /\ m.id \in 0..said /\ m.kind \in Kinds /\ m.of \in 0..said /\ m.size \in 0..2
       /\ m.carries \in 0..MaxVersions
  /\ archive \subseteq 0..said /\ told \subseteq 0..said /\ glimpsed \subseteq 0..said /\ torn \subseteq 1..said
  /\ phase \in Ended \cup {"asking", "called", "executing"} /\ turns \in 0..MaxIterations
  /\ summarized \in BOOLEAN /\ memory \in 0..MaxVersions /\ newest \in 0..MaxVersions
  /\ tasks \in 0..MaxTasks

(* Nothing is forgotten: whatever was said in any run is still in the        *)
(* context or was archived, and the model that summarized it was shown it,   *)
(* or the beginning of it if it is long.  The rest of a long message is in   *)
(* the archive only, which no code reads back into the context.  And a       *)
(* request has the results of every call right after it, however often the   *)
(* context was summarized in between: a summary never separates the calls    *)
(* that are being executed from their results.  Exempt are calls whose batch *)
(* was stopped or failed, and results whose call an earlier cut has taken.   *)
NothingForgotten ==
  /\ \A id \in 1..said :
       \/ id \in Ids(context)
       \/ id \in archive \cap glimpsed /\ (id \in told \/ id \in Long)
  /\ phase = "asking" => \A i \in DOMAIN context :
       LET m == context[i]
       IN /\ m.kind = "call" /\ m.id \notin torn =>
               \A k \in 1..m.size : i + k \in DOMAIN context /\ context[i + k].of = m.id
          /\ m.kind = "result" => m.of \in archive \/ \E j \in 1..(i - 1) : context[j].id = m.of

(* After a run that completed, the memory file has the newest version that   *)
(* the conversation has carried.  Exempt are conversations whose summary has *)
(* dropped a message with a version: the one in the system message, which is *)
(* never refreshed, may then be written back over it.                        *)
MemoryKept ==
  phase = "completed" => memory = newest \/ \A m \in ToSet(context) : m.carries # newest

-----------------------------------------------------------------------------
(* The to-do list and the playbook of an agent, middleware/todo_list.py and  *)
(* todo.py: tools change them in a run, and the next run puts them into the  *)
(* system message, after what the runs before it have put there.             *)
CONSTANTS
  MaxItems,       \* TodoListMiddleware._max_items
  TotalSteps,     \* TodoMiddleware._total_steps
  MaxRaw,         \* bound: items the model writes at once
  MaxPlanned      \* bound: runs

ASSUME PlansAssumption == MaxItems \in Nat /\ TotalSteps \in Nat \ {0} /\ MaxRaw \in Nat /\ MaxPlanned \in Nat

VARIABLES
  todos,          \* _todos
  steps,          \* TodoMiddleware._done
  written,        \* history: what the model wrote last
  heading,        \* what the runs have put into the system message
  begun,          \* history: the list and the steps when the run began
  planned         \* runs so far; the system message is there after the first

planVars == <<todos, steps, written, heading, begun, planned>>

(* An item may be no object, its id no number, its status none that is known.*)
Garbage  == [id |-> 0, status |-> "none"]
RawItems == {Garbage, [id |-> 0, status |-> "odd"], [id |-> 2, status |-> "completed"]}
RawLists == UNION {[1..n -> RawItems] : n \in 0..MaxRaw}

PlansInit ==
  /\ todos = <<>> /\ steps = {} /\ written = <<>> /\ heading = <<>>
  /\ begun = [todos |-> <<>>, steps |-> {}] /\ planned = 0

(* before_run of the list, then of the playbook: no list, no note; and no    *)
(* progress in the first run, unless the memory has already put a system     *)
(* message where the prompt will come.                                       *)
BeginPlanned ==
  /\ planned < MaxPlanned /\ planned' = planned + 1
  /\ begun' = [todos |-> todos, steps |-> steps]
  /\ \E progress \in {<<[done |-> steps]>>} \cup (IF planned = 0 THEN {<<>>} ELSE {}) :
       heading' = heading \o (IF todos = <<>> THEN <<>> ELSE <<[plan |-> todos]>>)
                        \o progress
  /\ UNCHANGED <<todos, steps, written>>

Proper(raw, i) ==
  [id     |-> IF raw[i].id = 0 THEN i ELSE raw[i].id,
   status |-> IF raw[i].status = "odd" THEN "pending" ELSE raw[i].status]

(* _normalize; an id that is missing is the item's place in what was written.*)
Normalized(raw) ==
  LET items == Filter([i \in DOMAIN raw |-> i], [i \in DOMAIN raw |-> raw[i] # Garbage])
  IN  [n \in DOMAIN items |-> Proper(raw, items[n])]

FirstItems(s) == SubSeq(s, 1, Min({MaxItems, Len(s)}))

CutFirst(raw) == Normalized(FirstItems(raw))  \* mutant

ListMade(raw) == FirstItems(Normalized(raw))

WriteTodos ==
  /\ planned > 0
  /\ \E raw \in RawLists : todos' = ListMade(raw) /\ written' = raw
  /\ UNCHANGED <<steps, heading, begun, planned>>

BelowOne(n) == n <= TotalSteps  \* mutant

(* mark_step_done answers any other number with an error.                    *)
IsStep(n) == 1 <= n /\ n <= TotalSteps

MarkStep ==
  /\ planned > 0
  /\ \E n \in 0 .. TotalSteps + 1 : IsStep(n) /\ steps' = steps \cup {n}
  /\ UNCHANGED <<todos, written, heading, begun, planned>>

PlansNext == BeginPlanned \/ WriteTodos \/ MarkStep

(* _build_status                                                             *)
PlaybookStatus ==
  [completed |-> Cardinality(steps), remaining |-> TotalSteps - Cardinality(steps),
   steps |-> [i \in 1..TotalSteps |-> i \in steps]]

PlansTypeOK ==
  /\ todos \in Seq([id : 1 .. MaxRaw + 1, status : {"pending", "completed"}])
  /\ written \in Seq(RawItems) /\ steps \subseteq 0 .. TotalSteps + 1 /\ planned \in 0..MaxPlanned

(* A list holds the first items the model wrote that are items, as many as   *)
(* there is room for; the playbook's counts are those of its steps; and of   *)
(* all the plans and progress that runs have left in the system message the  *)
(* last ones are those the run under way began with.                         *)
PlansAreKept ==
  /\ Len(todos) = Min({MaxItems, Cardinality({i \in DOMAIN written : written[i] # Garbage})})
  /\ PlaybookStatus.completed = Cardinality({i \in 1..TotalSteps : PlaybookStatus.steps[i]})
  /\ planned > 1 => /\ Last(heading) = [done |-> begun.steps]
                    /\ begun.todos # <<>> => heading[Len(heading) - 1] = [plan |-> begun.todos]
=============================================================================
