# H.I.I.L. in TLA+

TLA+ models of H.I.I.L. (`vajra_gate/`, `mcp_cli/`, `hiil_common/`, the tool
servers, the terminal and web clients and the evaluation), the TLC runs that
check them on small instances, and TLAPS proofs of the properties that matter
most for every value of the constants. Paths below are relative to the
repository; `PROJECT.json` lists components, runs, mutations, the source lines
behind every definition, hazards, findings and theorems in machine-readable form.

Contents: [1 The system](#1-the-system), [2 Plan](#2-plan),
[3 Modules](#3-modules), [4 Runs](#4-runs), [5 Fairness](#5-fairness),
[6 Where a property makes an exception](#6-where-a-property-makes-an-exception),
[7 Proofs](#7-proofs), [8 What was found](#8-what-was-found),
[9 What is not modelled](#9-what-is-not-modelled).

## 1 The system

One FastAPI process, the gateway, serves a web client; it holds a pool of chat
instances, a runner per agent, a scheduler, a store of small JSON files and a
bus between agents. A chat instance runs turns: it asks a model, runs the tools
the model calls (built in, or on MCP tool servers, which are processes of their
own), retrieves text from a vector store and keeps the conversation in SQLite.
A terminal program runs one such chat without the gateway. Everything in the
gateway runs on one asyncio event loop, plus executor threads for SQLite and
files. So the interleavings that matter are those of coroutines at their
`await`s, of threads at their statements, of processes that share a file, of a
page with its requests, and of crashes.

| component | state it keeps | operations | interacts with | what makes it correct |
|---|---|---|---|---|
| agent runner (`mcp_cli/services/agents/runner.py`, `interrupts.py`, `tool_gate.py`, router `agents`) | status, phase, pending action, decisions, resume event, active run and its future | `run`, `resume`, `stop`, the loop over model and tools, the human gate | tools, sub-agents through `delegate_task`, the HTTP routes | a gated call runs only on a decision about that call, once; a finished task is quiet; runs end, resumes are answered |
| chat pool (`vajra_gate/chat_pool.py`, `chat.py`, routers `chat`, `sessions`, `langgraph`) | entries in LRU order, a lock per entry, the active session, the current chat | `get`, `new_session`, `set_active`, `evict`, LRU eviction, turns | every request that chats, cron jobs, history | bounded, no instance leaked, none closed in use, the turns of a session serial and with all of its context |
| notification bus and streaming (`mcp_cli/services/notification_bus.py`, `vajra_gate/chat.py`, `/ws`, agents' streams) | buffer, one queue per subscriber, done flag | push, subscribe, read, disconnect, heartbeat | the turn that pushes, the stream of the client, chat log, reward observer | everyone gets the events in order without repeats; every stream ends and holds its own turn; nobody stays behind |
| cron scheduler (`vajra_gate/crons.py`, router `phase_c`) | jobs in memory, jobs in the store, the loop's task, the due list of a tick | add, remove, list, tick, run, stop, restart | store, chat pool | no job is lost or forgotten; each runs again and again |
| key-value store (`vajra_gate/store.py`, `hiil_common/services/preferences.py`) | a cached map per namespace and process, its file, the temporary file, the rewards log | load, upsert, delete, save, append, compact, migrate | cron jobs, preferences, rewards; tool servers that open the same file | a durable map: what a returned write stored is there after a crash |
| turn pipeline (`mcp_cli/services/session/`, `tool_runner.py`, `context_manager.py`, `verifier.py`, `moderation.py`) | the conversation, loop counters, flags | send, retrieve, iterate, run tools, recover, retry the format, verify, correct, moderate, trim | model, tools, history, bus | what is sent is a conversation a provider accepts; bounded requests; turns end |
| model client (`claude.py`, `normalizer.py`) | model and provider, a client, a cache of embeddings, fragments of calls | complete, embed, retry, switch | all callers of a chat | a result belongs to the model and input it was asked of; requests are bounded |
| rate limiting (`vajra_gate/services/rate_limiter.py`, `middleware/rate_limit.py`) | a bucket per client, the time it was last used | check, prune | every request | in each window no more requests than a full bucket and what flows in |
| agent-to-agent bus (`vajra_gate/a2a.py`) | registered agents, a bounded list of messages | register, unregister, send, mark read | router `phase_c` | unread messages are dropped last |
| retrieval (`rag.py`, `vector_store.py`, `vector_store_faiss.py`, `chunker.py`, `context_manager.py:auto_index`) | one table of rows; and for every chat its own indexes over it, uploads in flight, and cache of empty namespaces | cut, index, insert, delete, search, rank, file a message | turns, upload route, executor threads | a text is cut whole; a stored one is that of one upload and is found; no filed text is lost |
| chat history (`history.py`, `sqlite_store.py`) | one table of messages, a SQLite connection, lock and prune counter per chat | save with prune, load, undo, fork, rename, delete | turns, routes, executor threads | every answer kept has its question in its session |
| token usage (`usage.py`, `token_monitor.py`, `prompt_budget.py`) | rows, two counters, a window of samples | record in a thread, summaries, bill, budget | turns, terminal | each call is counted once; a prompt stays in its budget |
| MCP connections and servers (`setu_bridge/connection.py`, `server_manager.py`) | exit stacks, connections, `tools_by_name`, the tools of routers and agents | connect, refresh, load, unload, reload, shut down | turn pipeline, agents, terminal | what is offered can be called, and what is unloaded is not offered |
| delegation (`builtin_tools.py`, `subagents.py`, `code_interpreter.py`) | a depth in the context, listed agents, subprocesses | delegate, parallel, `task()`, stop, timeouts | agent runner | nobody delegates deeper than allowed; no run is left behind |
| agents' context and memory (`middleware/`, `memory.py`, `memory_provider.py`) | messages of an agent, archive, memory files and their hashes | inject, summarize, persist, snapshot | agent runner, files | nothing is forgotten; a snapshot tells what is in the file |
| virtual backend (`agents/backend.py`, `permissions.py`) | files in memory, routes to directories | read, write, edit, move, copy, delete, list, search | agents' tools | the two stores look like one |
| tool servers (`veda_engine/`, `drishti_engine/`, `setu_bridge/calendar.py`) | documents in SQLite, calendar and history in JSON files, subprocesses | one tool call each | turn pipeline; other processes on the same files | free slots are free, commands are contained, files are read as they are, entries are kept |
| accounts and files (`users.py`, `credentials.py`, `vajra_gate/services/filesystem.py`) | a table of accounts, an encrypted file, the file tree | register, save a key, show the tree | gateway and terminal on the same files | one account per name, keys not dropped, the tree whole |
| reward scoring (`vajra_gate/services/reward/`) | records of a session | evaluate, record, list | the events of a turn, the rewards log | errors never raise a score; what is recorded of a turn is what happened, once |
| terminal client (`mcp_cli/ui/`, `commands/agent.py`) | code block accumulator, throttle, spinner, picker; agents' folders | render a turn, create, pause, approve, reject | bus, usage; other terminals on the same folders | every part of what is streamed is shown once, in order; a pause is settled once |
| web client (`canvas_app/frontend/`) | conversations, the view, the stream, list and window, composer | send, stop, load, switch, edit, retry, scroll | the gateway's routes | the screen shows the active conversation as the server has it |
| evaluation (`eval/`) | results of scenarios | run, compare, judge, report | one chat | exit code 0 only if nothing that was read failed |

Hard behaviours: several coroutines wait for one event (agent gate) or for one
another's locks (pool); an entry is popped before its lock is free; state read
before an `await` is used after it (histories, counts, the empty cache, the
model in use); threads that outlive the task that waited for them; bounded
queues drop what does not fit; jobs, maps and logs must survive a process that
dies between any two steps; processes share files without a lock; retries of
four kinds share budgets; clients disconnect, decisions arrive late or twice,
and timeouts race with them. `PROJECT.json` "hazards" has forty of them at their
lines; hazards of the same kinds that are exempted by a property are in
sections 6 and 8.

## 2 Plan

The order was by how much of the product breaks when the component does; the
first seven had the core of the system, the others extend it.

1. **AgentRunner**: approvals by a human. Theorems in AgentRunnerProofs. **MCRequests** follows
   it or the pool, for what requests wait for.
2. **ChatPool**: sessions, with the requests that use the pool as programs over
   its steps, so that pool, locks and handlers are composed in one module.
   Theorems in ChatPoolProofs. *Left: the pool's `init` and `aclose`.*
3. **NotificationBus**, implementing the abstract **EventLog**; **TurnStreams** and
   the web client **WebClient**, **ClientPage**, composed in **MCClients**; the refinement and
   the streams and the page in ClientsProofs, over lemmas about **Lists** in ListProofs.
4. **CronScheduler** with restarts, in **MCHost** with what else runs on one machine
   (Shell, SharedFiles, Workspace, RewardScores, TextSearch, MemoryStore, LanguageModel,
   Evaluation). Theorems in HostProofs. *Left: proofs about Workspace and TextSearch.*
5. **KVStore** and **RewardLog**, both implementing the abstract **DurableMap**.
   Theorems in GatewayProofs. *Left: CronScheduler over KVStore.*
6. **TurnPipeline**, in **MCTurns** with what turns show and cost (TerminalText,
   UsageMeter) and the commands of the terminal (AgentFolders). Theorems in TurnPipelineProofs.
7. **RateLimiter**, **A2ABus**, **Knowledge**, **History**, and after
   them **Delegation**, **Calendar** (with the mail server), **ServerTools**, **AgentContext**, **VirtualFiles**,
   **VectorIndex**: services of one process, composed in **MCGateway**. Theorems in GatewayProofs.
   *Left: the two statements of an undo.*
8. *Next*: the gateway's start and shutdown, intent routing, skills and output schemas.

Modules with theorems use no RECURSIVE operator; parameters are CONSTANTS with
named assumptions; an invariant is a conjunction of named parts. Modules that
share nothing are composed by a variable that picks the one a behaviour follows
(`service`, `part`, `task`, `aspect`); a property that stands for several of
them is a conjunction under one name, defined in the MC module.

## 3 Modules

`MC*` modules only compose and instantiate; operators marked `\* mutant` are plausible
defects of the definition after them, used to show that a property notices them
("mutants" in `PROJECT.json`). A step of a model is what the code does between
two awaits (one event loop), between two statements on shared data (threads) or
between two system calls (files).

### Agents

**AgentRunner** - one `AgentRunner` object and the coroutines in it. A *loop* is
a call of `run()`, or a call of `resume()` that finds no active run. `pc` is the
await it is suspended in, `running` the coroutine that holds the event loop.
`event`, `decisions`, `pending`, `activeRun`, `future` are the fields of the
same names; they belong to the agent, not to a run. `Start`/`Resume`/`Reenter`/
`Stop` are the calls, `AskHuman`/`PassGate`/`AbandonGate` the gate,
`RunReturns`/`ReentryReturns` the ends, `Timeout`/`Disconnect` what the
environment does. Decisions carry the action the human was shown, so that the
property can compare it with the call executed.

**AgentContext** - the messages of an agent over runs that follow each other: memory
injected into the system message, calls and their results, a summary between a
batch and its results, the archive, and the memory file written back (of messages in `Long` the
summary's prompt shows only the first 200 characters); and, apart from
them, the to-do list and the playbook that tools change and the next run is told about.
**MemoryStore** - memory files under scopes, of which two may reach one file, and
the hash that a snapshot keeps by size and time stamp. **Delegation** - who waits for
whom: runs started by tools, by parallel delegation and by code in a subprocess,
the depth in each context, and the cancellations that go from the inside out.
**VirtualFiles** - files in memory and on the disk behind routes, guarded by
permissions. `SearchFiles` is what the code finds, which is less than what a reader of one
tree would: in memory a glob or a piece of the whole path, on the disk a piece of the name
only, and no route at all without a root. **ServerTools** - connections, the two maps of clients, `tools_by_name`
of each chat with its refresh (ask, wait, replace), the commands of the terminal,
and the tools an agent took at its start.

### Chats

**ChatPool** - pool, locks, instances, and twelve kinds of request. A request is
a program, a sequence of named steps; `Awaited` says before which of them the
handler awaits. The entry's lock is a queue of tasks. `rows` is the history
table: one element per turn, which is what "the context is complete" needs.

**TurnPipeline** - the turns of one chat. Messages are their role and number of
calls. `Iterate` is the head of the loop with its trim, `ToolCalls`/`Answers`
what the model streams, `Conclude`/`Finalize` the format retry and the
verifier, `Recovered`/`NotRecovered` the silent failure after tools,
`CutOff` a cancelled or failing turn. `held` is set while a turn awaits a document or a
person, who have no timeout, until `Released`. **LanguageModel** is the client below it:
attempts and their retries, the switch of model or provider while a request is
under way, the cache of embeddings, and calls put together from fragments.

**UsageMeter** - records of calls made in threads: the row under a lock, the
counters without one; the bill of a turn, the monitor's window with the levels and the fallback
read off it, and the budget a prompt is filled from. **TerminalText** - what the terminal writes of a turn: the
accumulator that outlives turns, the throttled renderer, the spinner's task on the
same line, and the model picker. What it writes is what is streamed; the reply that `send()`
returns may be another one ("replaced") and is not printed. **AgentFolders** - the agents
that are folders: two terminals create, pause, approve and reject them, and each waits for
its user between looking at a folder and changing it. **MCTurns** composes these with TurnPipeline.

**History** - the table of messages that all chats share. A message is its id, its
time, its session and the time of the question it belongs to; ids and times come
from one `clock`, fork copies a time under a new id. `asking` is the turn of a
chat, `saving` what its thread is about to insert, `late` an insert nobody waits
for any more, since `asyncify` cannot take back a thread that runs. `Written` is the
insert with the prune's SELECT, `DeleteOutdated` its DELETE, which other
connections get between. An undo is one step, at its SELECT: it deletes by id, so what
is saved until its DELETE is not touched, and a deletion by id commutes with the rest,
except that a fork in between copies what is about to go.

### Streams and clients

**NotificationBus** - buffer, queues and the tasks of one streamed answer.
Events that are pushed between two awaits reach the queues in one step.
`ImplementsEventLog` instantiates **EventLog**: one log, readers that are handed
it in order from where they joined and miss something only if they were ever
`Room` events behind. **TurnStreams** - five ways to start a turn and read its bus
(socket, thread's run, agent's run, terminal, `/agent`), which differ in who pushes
`done`; the turns of an agent share its bus. **WebClient** - conversations on the
server, loads and their answers, a streamed turn, retry, edit and undo. A connection that
breaks ends the stream for the client, while the server may go on with the turn and save it
(`BreakOff`, `LateMessage`, `LateAnswer`, `Dropped`).
**ClientPage** - the line reader, the message window, the list of conversations and
the composer. **MCClients** composes these four. **Lists** has `Filter`, the elements of a
sequence that a test keeps, as a recursive function, which can be reasoned about.

### Stores

**KVStore** - one namespace, kept by one or more processes: `Load` once, changes
in place, `Open`/`Write`/`Replace` of the one temporary file, `Fail` and `Crash`
at every step. `fd` is the file a process has open, which a rename by another
process turns into the published file. **RewardLog** is the namespace that is
appended to: lines, torn lines, snapshots, migration of the older file.
**DurableMap** is what both promise; `Atomic` says whether a change is stored at
once. `ragged` and `frail` describe what a cut-off append may cost: the entry cut
off and the next one. Values in `Fragile` (`Splitting`) hold a character at which `splitlines()`
divides a line that JSON does not escape (U+0085, U+2028, U+2029): such an entry is not read
back, nor is a snapshot with one in it (`ReadBack`, `Spoils`).

**SharedFiles** - what several processes keep in one file without a common lock: documents
and accounts in SQLite files, read first and written then; the browsing history and the
encrypted credentials in JSON files. A document is a sequence of words, so that an edit may
find its text more than once. **Calendar** - events of one user in several servers, whose file may
not be readable when a server begins, and `free_slots` as the busy times sorted, merged (`Merge`)
and swept (`Sweep`), compared with the windows defined by quantifiers. A date is one spelling of a day.
At its end the mail server: the inbox and the one bounded list of drafts and sent messages, lost
when its process ends.
**Workspace** - walk, grep and batch over files that others change, and the tree
the gateway shows, with a link. **Shell** - one command: shell, child, two pipes, timer,
readers.

Every chat makes a `VectorStore` and a `RagPipeline` of its own (`chat.py:92`, `95`), and all of
them work on one table. The modules follow those of one chat, any of them; what the other
chats are to it is what they do to the table, at any time (`WriteElsewhere`, `IndexElsewhere`,
`ChangeElsewhere`): no lock, count, cluster, cache or flight is shared.
**Knowledge** - uploads of one file: single flight, shielded tasks, concurrent chunks,
and the cache of "this namespace is empty"; and the background task that files what
the user said (`StartFiling` to `CancelFiling`).
**VectorIndex** - writers that count and rebuild the clusters outside the lock
(`VectorNext`), and those of the other backend, with the faiss file and crashes (`FaissNext`).
A vector has the length that the model of the day gives it: an index takes one length, a
row of another one begins a new index with itself alone, a file of another length or count
is not taken, and a rebuild over rows of two lengths raises (`opened`).
**TextSearch** - both loops that cut a text (`ChunkerNext`); and a search that reads the table
in batches, the clusters, and the second ranking, compared with the best rows by definition
(`SearchNext`).

### The rest

**CronScheduler** - jobs by the time left until `next_run`, in memory and in the
store. `Proceed` is the tick's sequential loop over the due list taken at its
start, `stale` marks jobs whose object was replaced or removed meanwhile.
`Reschedule` is the `finally` of a run. **RateLimiter** - buckets in units in which
floating-point amounts are natural numbers; pruning; a ghost window per client,
moved by `Watch`. **A2ABus** - agents and a bounded list of messages.
**RewardScores** - evaluators in hundredths and weights in tenths, and the observer
that turns the events of a turn into records: it reads the turn's bus at its own pace (`Observe`)
and is cancelled with the client's stream (`StreamEnds`), which may come first.
**Evaluation** - one run over the scenario files, of which some are left out with a warning
(`Legible`), decided by golden snapshots where there are any and by a judge elsewhere, and the
smoke check of the snapshots.

**MCGateway** composes KVStore, RewardLog, RateLimiter, A2ABus, Knowledge, History,
Delegation, Calendar, ServerTools, AgentContext, VirtualFiles and VectorIndex;
**MCHost** CronScheduler, Shell, SharedFiles, Workspace, RewardScores, TextSearch,
MemoryStore, LanguageModel and Evaluation.

## 4 Runs

| run | module | shows |
|---|---|---|
| RequestsWait | MCRequests | of an agent: `SerialApproval`, `GatedCallRunsOnce`, `WaitingIsServed`, `DoneMeansQuiet`, `RunsEnd`, `ResumeIsAnswered`; of the pool: `EveryRequestEnds` |
| AgentRunnerOverlap | AgentRunner | violation of `ApprovalMatchesAction` |
| ChatPoolMixed | ChatPool | `PoolIsSound` (`PoolBounded`, `NothingLeaks`, `NothingClosedIsUsed`), `NoCloseInTurn`, `SerialWhileKept`, `ContextComplete` |
| ChatPoolTwice | ChatPool | violation of `SessionSerial` |
| BusStream | MCClients | `ImplementsEventLog`; `StreamsAreTheirOwn`; `WebClientIsRight` (`ViewIsRight`, `ComposerIsRight`, `LinesSurvive`, `WindowShowsSome`, `PlaceIsKept`, `RowsAreWhole`, `PicturesAreKept`); `StreamsEnd` (`ReadersEnd`, `EverybodyLeaves`, `RequestsAreRead`) |
| CronJobs | MCHost | `Mirrored`, `NeverLost`; `CommandIsContained`; `StorageIsRight` (`DocumentsAreKept`, `FilesAreKept`, `HashesAreCurrent`); `TextsAreFound` (`ReadingIsRight`, `PiecesAreRight`, `SearchIsRight`, `ToolCallsAreWhole`); `RewardsAreRight`; `AnswersAreOfTheirTarget`; `VerdictsAreRight`; `WorkIsDone` (`JobsRun`, `CommandsAnswered`, which says too that a pipe can always be read) |
| CronRestart | CronScheduler | violation of `EveryJobRuns` |
| GatewayServices | MCGateway | `NeverTorn`, `ImplementsDurableMap`, `RewardsDurable`, `RateBound`, `UnreadLast`, `AnswersHaveQuestions`; `RetrievalIsRight` (`UploadsAreFound`, `TextsStay`, `IndexIsFresh`, `EveryRowIsFound`); `AgentsAreServed` (`DelegatesAreAwaited`, `ToolsAreServed`, `OneTree`, `MailIsKept`); `AgentsAreInformed` (`NothingForgotten`, `MemoryKept`, `PlansAreKept`, `WindowsAreFree`) |
| StoreShared | KVStore | violation of `SharedPreferences` |
| TurnPipelineTurns | MCTurns | `RequestsAccepted`; `TerminalIsRight` (`TextIsShown`, `ScreenIsRight`, `PickIsShown`, `FoldersAreRight`); `UsageIsCounted` (`RowsAreRight`, `CountersAreRight`, `BillIsRight`, `WindowIsRight`, `MonitorIsRight`, `BudgetIsKept`); `TurnsEnd` (with the bound on requests, `CallsBounded`) |
| TurnPipelineVerify | TurnPipeline | violation of `ToolAnswersVerified` |
| EditsFirst | SharedFiles | violation of `EditsTheFirst` |

A passing run also checks the types of all variables (`PartsTypeOK`, `HostTypeOK`,
`ServicesTypeOK`; in `PoolIsSound` and `RequestsAccepted`; in RequestsWait
they are proved instead).

The instances, and why they are enough:

- *Requests* (0.27 million states): two runs of an agent, one resume, one stop, three tools (free,
  gated, denied). What can go
  wrong needs a second actor at the shared event, so two loops and a resume that
  can itself become a loop; one call per message, since calls of a batch are
  independent apart from the abandoned rest, and the proofs hold for any batch. And three requests
  that chat, create and delete in a pool of one instance, which forces evictions of entries in use.
- *Pool* (1.8 million states): three requests of twelve kinds are a victim, a holder and a
  newcomer; a pool of two distinguishes the LRU entry from the others; instances are bounded by
  what three requests can build. The violation has a pool of one.
- *Bus* (0.58 million states): three events fill a queue with one answer (done, phase, done),
  so both fast and slow readers occur; two streams can cross. The page has two
  conversations with two sends and loads; texts of five characters, which can be cut inside an event and before a
  line's end; a window of three (100 in the code) that grows by two (50) over six
  messages; five conversations, two to a page (50), used twice; three pictures, sent with a text or without.
- *Host* (0.95 million states): three jobs make a due list with a job before and one after the
  one that runs, two restarts a restart of a process that had loaded. A pipe and a cap
  of one chunk with outputs of two block and are cut. Two workers on one document of up to two words, so that
  one text may stand in it twice (so too in EditsFirst); two histories;
  two providers and three saves. Four files in three directories, two levels for the search and three for the
  tree, one link that may lead anywhere, one change by others; batches that do not fit by size and by number.
  Two turns with a tool and two pieces of an answer, each cut off anywhere, and a listing of three entries.
  Texts of five units: pieces of two and three words with an overlap of one, sentences that fit, that
  fill a piece and that do not fit. Three rows in batches of two with two edits. Two scopes with
  one shared file and three ticks of the clock. Two endpoints, one cached vector, three attempts. Two scenario
  files, each of which may be left out.
- *Services* (3.3 million states): two keys and three values, one of which a reader would cut in two;
  a log of three lines before it is
  compacted, which has a torn line, the swallowed entry and one more. The limiter's clock
  runs past the idle time twice. Five messages into three places drop two. Two uploads of the
  chat of a file with two chunks can mix, and other chats write and index at any time. Two sessions, of which one is kept, make
  every prune delete one; three messages are a question, its answer and one of the
  other session, or a fork. (Four messages hold too, in 7 million states.) Delegation three
  deep with three runs, one above the depth of none; two events whose times touch,
  overlap, leave a gap and go past midnight, on the day asked for or on another one, of which the code
  cannot tell a second spelling of the same; three servers, one of which announces the document server's tool,
  and three commands; two runs of two iterations with a summary over four messages that keeps two,
  the second and the fifth message being long;
  three directories, one of them protected; two namespaces with rebuilds at every second row
  and clusters from four rows on, so that some counts rebuild and some do not; two faiss keys with three ids and
  vectors of two lengths;
  lists of two items into one place, a playbook of two steps, three runs; a list of letters with
  room for two, and twice as many of them.
- *Turns* (0.88 million states): four iterations have tools, a silent failure, a retry and an
  answer, and any call may wait for a document or a person; two turns see what the first left. Answers of three lines hold a block that is
  closed, left open or cut, and may be streamed in part only; three records of usage have one abandoned; three offered models; two chunks of a prompt; two
  terminals, two agents, two pauses and one terminal that is closed in a command.

`Max*` constants that only bound the instance say "bound:" where they are declared
(`MaxStops`, `MaxChats`, `MaxEvents`, `MaxBeats`, `MaxRestarts`, `MaxTime`, `MaxSent`,
`MaxSaved`, `MaxUploads`, `MaxChanges`, `MaxEdits`, `MaxTicks`, ...); the others are limits
of the code, made small: `MaxSize` of the pool, `MaxSessions`, `MaxQueue`, `MaxIterations`, `MaxCorrections`,
`MaxMessages`, `MaxDepth`, `RebuildEvery` (50), `MinVectors` (100), `SummarizeOver` (100), `KeepMessages` (10), `Unshown` (5).
Deadlock is not an error in these runs: the instances run out of requests.

## 5 Fairness

*AgentRunner*: `asyncio.wait_for` always fires (`WF(Timeout)`), a coroutine that
holds the event loop goes on, a resolved future wakes its awaiter. Nobody is
obliged to call anything, humans need not answer. *ChatPool*: awaited queries,
constructions and turns return; locks are FIFO as `asyncio.Lock`. *Bus and streams*: a turn
ends, which it does unless it waits for a document or a person (below), a cancelled task ends, and
readers go on reading; clients need not leave or stay. So `StreamsEnd` is about what comes on top of the turns. *Cron*: time passes, the sleep of at most 30 s ends, a run ends within its 300 s
timeout. *Shell*: the timer of a command and the one of its readers fire, and a killed process
ends; nothing obliges the command or its child to end. *Turn*: the model, the verifier and
every tool answer or time out. The documents a message names (`turn_pipeline.py:92`, whose
`read_resource` and `call_tool`, `document_injector.py:42`, `50`, `60`, have no timeout) and a person
who is asked for an approval (`tool_runner.py:169`) need not answer: while they are awaited a turn is
`held`, nothing is assumed of `Released`, and `TurnsEnd` is about turns that are not held for ever
(`[]<>~held`). The pool's `EveryRequestEnds` takes for granted, in the same way, that a turn on an
instance ends: one that does not keeps its lock. The other parts have no liveness property and no
fairness. No property uses strong fairness.

## 6 Where a property makes an exception

Each exception is a history variable, or a condition on the state, that records exactly
the situation in which the code gives the guarantee up; the model contains that
situation.

- `overlapped` (agent): `run()` was called during a run. The API does not refuse it.
- `pc = "cancelled"` (agent): the task awaiting `run()` was cancelled; `run()` has no
  `finally`, so the pending action, the status and the future stay.
- `torn` (agent's context): a batch was stopped or failed, and its calls keep no results.
  `MemoryKept`: a summary dropped the message with the newest version.
- `Long` (agent's context): of a long message the summary's model is shown the beginning only.
- listed runs (delegation): agents cancelled from above keep their status, "running".
- `strayed` (virtual files): a path was in memory while its directory had a route. A search need
  not find what is in memory by a piece that a name on the disk would be found by, nor, without a root, anything under a route.
- `gone` (pool): the session's instance was evicted while requests could hold it, or
  renamed by `POST /threads`. From then on two instances may serve one session.
- `outdated` (pool): a history read before a turn ended was put into the instance after it,
  or put there while a turn was in progress on the instance, which overwrote it.
- `lost` (bus): the reader was more than a full queue behind.
- `crowded` (streams): turns of one agent overlapped; its bus belongs to the later one.
  Mute sockets (`RequestsAreRead`): after a turn that was blocked, exhausted or raised, `/ws` waits for ever.
- `moved`, `crossed` (web client): the user came to the conversation with a turn or a load under
  way; a turn was stopped or its connection broke, so that the server may go on with it, or it
  started beside another one, since all was quiet. `dropped` (composer): pictures of a message without text. `ViewIsRight`
  exempts too an older load that was answered last. `astray` (window): the user scrolled up
  while another conversation was to come. `slid` (list): a removed session moved the others up.
- `loop = "off"` (cron): after a restart until a job is added, and after `stop()`.
- `raced`, `failed` (store): two processes had the temporary file open at once; a write
  raised an error.
- `ragged` (rewards): an append was cut off. `Fragile` (rewards): a value that `splitlines()` cuts in two is
  not read back after a restart, and a snapshot with one is not either.
- `watch = "cut"` (rewards): the client's stream ended, and the observer was cancelled with it,
  before it had read the done; what it recorded until then is right, the rest is missing.
- `Legible` (evaluation): a run of all scenarios leaves out the files it cannot read.
- `several` (documents): the text to be replaced stood in the document more than once (run EditsFirst).
- `raced` (documents), `together`, `mixed` (histories and keys): somebody wrote between the read and
  the write of an edit; two processes had the history loaded; a crash fell into a write of the credentials.
- `apart` (calendar): a server does not hold what the file has: its last save failed, another server
  wrote over it, or it could not read the file when it began and takes it for empty. Free windows
  are those of the events a server holds, of dates spelled as the one asked for, and an event that
  goes past midnight takes nothing of the next day.
- `touched` (memory): a write past the scope fell into the tick of the cached stamp.
- `reached` (shell): a kill after the shell was reaped reaches no group.
- `cut`, `compacted` (turn): a turn was cancelled or failed; messages were trimmed. `held`: see section 5.
- `clean` (terminal): the turn found something left in the accumulator. "replaced": what the turn
  returns is not what it streamed; the property is about what was streamed. `lost` (spinner): an
  unfinished line was erased when the spinner's task ended, at an approval or at the turn's end.
- `alone` (usage): no two records were counted at once. `kills` (folders): a terminal was closed in a command.
- `abandoned`, `outdated` (knowledge): an upload was cancelled while its shielded
  task ran on; the cache was filled from a count made before an upload was done.
  `Elsewhere`: chunks of another chat's upload may stand in place of this one's, and what a chat
  finds in its cache is right for its own uploads only.
- `overlapped` (filing): two
  tasks were between counting and writing.
- `passed`, `mixed`, `shrunk` (clusters): a rebuild failed or a count was overtaken, two
  rebuilds overlapped, rows were deleted. `behind`: another chat has written to the namespace since
  this one's store read it. `crossed`, `deceived` (faiss): operations overlapped on a key or with a change of
  length, or another chat changed the table; a crash left a file that looks right. `switched`: rows
  from before the last change of length are not in the index. `opened`: over rows of two lengths a
  backend may not be opened. `moved` (search): a row was replaced or deleted.
- `broken` (history): the exchange was deleted, undone or renamed while its turn went on or
  a thread still had an answer to save, or was pruned then with good reason: `MaxSessions`
  other sessions had been active since when it was selected (`due`).

## 7 Proofs

Forty-five theorems in six modules, over some 745 lemmas (those about lists in a seventh,
`ListProofs`), checked by TLAPS for all
values of the constants, from the named assumptions of the modules. Each safety property
follows from an inductive invariant that adds what the property does not say. The theorems
about parts of MCGateway and MCHost are stated of the composition too: a behaviour follows
one service or task, so each part takes its own steps or none, and the invariants of the
parts are an invariant together. For most properties that is the specification the run
checks; a run's fairness plays no role.

- `AgentRunnerProofs`: `TypeCorrect`, `ApprovalTheorem`, `OnceTheorem`, `QuietTheorem`,
  `ServedTheorem`. Whether a decision fits the call at the gate depends on who may be
  waiting. `SerialInv` holds until runs overlap and has three parts. `Control`: one loop is
  in progress, it is a run (a resume call never has to re-enter the loop), `_active_run` is
  its future, and status "waiting" means that it stands at its gate. `Answers`: the pending
  action, and the decision in store, are about the call it stands at. `Executions`: what was
  executed was decided on, is there once, and precedes the request in progress.
  `ActiveIsLive`: the future in `_active_run` is of a run that goes on or was cancelled.
- `ChatPoolProofs`: `PoolKeepsItsBooks`, `TurnsAreSerial`, `TurnsKeepTheirStores`,
  `TurnsKnowTheirSession`, from `Invariant`, which has seven parts. `ProgramInv`: a request
  is at a step of its program and holds what the rest of it needs. `PoolInv`: an entry per
  session and per instance; a victim has left the pool and is in one hand, so that every
  instance made is pooled, on its way to be closed, or closed. `LockInv`: the queue of a
  lock has exactly the requests that owe it a release and those that close its instance;
  whoever is in a turn is at its head. `BindingInv`: until its session is `gone`, an
  instance that a request holds is the entry of the id it asked for, and writes the session
  of that entry. `ContextInv`: an entry that stands knows all that its session has saved;
  and `TypeOK`, `IdsInv`.
- `TurnPipelineProofs`: `CallsTheorem`, from `CallsInv`: in the loop a request was made per
  iteration, a recovery leads out of it and so do the verifier and its correction, so that
  each of the three adds one. `RequestsTheorem`, from `ConversationInv`: a conversation is
  complete but while tools run, and then it ends with the calls they answer; what a trim
  keeps ends with what the whole one ended with.
  - `UsageTheorem`, from `UsageInv` and `BudgetInv`. What a range of records costs is a
    recursive function over the numbers of the records, so that one record more adds what it
    costs (`AddedMore`) and the sum stays in its range (`AddedMost`); while
    threads were alone, a counter has what the calls counted so far cost, and what a thread
    has loaded is the counter (`ExactAlone`); otherwise it never has more (`NeverOver`). Of a
    prompt, each chunk taken fitted the budget, and the loop ends early only at one that does
    not.
  - `TerminalTheorem`, from `FoldersInv`, `PickerInv`, `TextInv` and `ScreenInv`. `Orderly`:
    what the terminal shows or holds back are parts of what arrived, each once and in the
    order in which they arrived. `Faithful`: while a turn is clean, what is shown or waits is
    exactly what its complete lines of text hold, as code where an odd number of fences comes
    before. Two lists with the same members in the same order are the same (`SameList`), and
    therefore what is shown is what was streamed. Of the spinners only the task of
    the last turn may not be over (`OneSpinner`), nothing spins but while a turn waits for its
    first piece (`StillsWithout`), and text on the last line is of a turn that had it.
- `ClientsProofs`: `BusTheorem` is the refinement of EventLog, from `BusInv`. The buffer is
  a run of the log that ends where the log does, or a full one; what waits in a reader's
  queue is of the log, in order and after what it has received, and without a gap until the
  reader is `lost`. `StreamsTheorem`, from `StreamsInv`: a chat has a bus of its own, the
  bus of an agent that is not `crowded` is that of the turn in progress, and only a client
  that leaves cuts a turn short. `ClientTheorem` and, of the whole page, `WebClientTheorem`, from
  one invariant per part; `PartsAreTyped` has the types of all of them.
  - `ClientInv`: requests and answers are numbered as they are made (`SavedIsCounted`,
    `RequestsArePlaced`), the newest answer drawn is what is shown (`ViewIsNewest`), one turn
    streams at a time until they are `crossed`, and while nobody interferes all that is under
    way is of the active conversation, whose last load has it as it is (`Undisturbed`). Only
    the last part makes the view right, and it needs both history variables: a load can be of
    another conversation after the user has moved, and of an older state after a stop.
  - `LinesInv`: what the reader keeps is the last line of what it has read, and its events are
    those of the lines before; so splitting a text at any point and in the rest gives the
    lines of the whole. `WindowInv`: whoever left the bottom is below the top of what is shown,
    and a frame that restores a place knows the message that was there. `RowsInv`: until a
    session was removed, the sessions that no one used since are in the list or in the page
    under way, up to the offset. `PicturesInv`: a picture is drawn as long as it is attached,
    and afterwards in one message, removed, or dropped with a message that had no text.
- `ListProofs`: what `Filter` keeps, in order and each element of it once (`FilterIs`), from two
  lemmas on counting up a finite range, for recursive functions (`CountingUp`, `RecursionExists`).
- `GatewayProofs`, of the stores: `StoreTypeCorrect`, `NeverTornTheorem` (for any number of processes) from
  `SaveInv`: until two processes had the temporary file open at once, it has one writer,
  which is about to publish all of its map. `DurabilityTheorem` is the refinement of
  DurableMap by a single process, from `SoleInv`: a single process never races, and has no
  items in progress while idle; each step of the file operations maps to a step of the map
  or to none.
- `GatewayProofs`, of the services of MCGateway:
  - `RateTheorem`. The bound is not inductive, `Credit` is: what a client got through in the
    window and what its bucket would give it now never exceed the bound together. A bucket
    is full before it may be removed, by the assumption `Capacity <= Rate * MaxIdle`, which
    the code's numbers satisfy (20, 10 and 3600).
  - `AnswersTheorem`. An answer is saved long after it was asked for, so the invariant adds
    what holds of the pending ones: `Pending`, whoever may still answer finds the question
    in the session the answer goes to, unless somebody broke the exchange; `Shape`, a
    question is before what answers it, so that an undo, which takes the last messages,
    takes no question from under its answer; `Rightly`, a prune selects only sessions that
    others have outrun.
  - `UnreadTheorem`, an action property: a prune takes one message, a read one or the oldest
    when none is read (`PrunedFacts`).
  - `AgentsTheorem`. `DelegationInv`: runs are numbered as they begin, whoever waits is
    waited for by its caller, and the list of agents says so until a cancellation.
    `ServersInv`: while a chat collects tools (`Collected`), those it has are of loaded
    servers that have answered; one that chats or runs an agent offers what it has
    (`Announced`). `FilesInv`: a path that has not strayed is in memory or under a route,
    never both; the permissions keep memory out of what they protect, and so a search finds each
    file once and as it reads. `MailInv`: the list is
    what callers were told of.
  - `InformedTheorem`. `CalendarInv`: a server that is not `apart` holds what the file has; the
    rest is about the algorithm. Busy times have one sorted order (a finite set of pairs has a
    first one), merging them in that order keeps what is free and separates what is busy, and
    the sweep then lists each window that is long enough and nothing else. `PlansInv`: the
    last note of the heading is what the last run was told. `ContextInv` says of the messages
    of a context (`ContextRight`): each message of the agent is in it or was shown before it
    was cut (`Remembers`), a call that is not open or torn is followed by its results
    (`CallsDone`), a result is of a call before it or one that was summarized (`ResultsOf`), and
    the last message with a memory version has the newest (`Fresh`). A summary keeps all of
    them (`CutRight`): it takes the system messages and the end of the rest, whatever it drops
    is archived, and was shown to the model, of a long message the beginning.
  - `RewardsTheorem`, the refinement of DurableMap by the rewards log, from `RewardsInv`.
    What is stored under a key is in the last line that has the key (`FoundAppend`,
    `FoundSpoilt`, `FoundOne`). A namespace that is in use has no file of the old format any
    more, so that a line that was cut off is never behind a migration; between the snapshot
    of a migration and its unlink, the snapshot has all that the old file has; and what an
    append has still to write has a value. Values that a reader would cut in two are lost where the log
    is read again, so at a restart: until then the map in memory has them, and the snapshot of a
    migration has every key of the old file or comes back as junk. A step of the log stores keys, or what was
    `frail` is lost with at most one key besides.
  - `ServicesTheorem`: the composition implements the limiter, the history and the bus
    between agents. `ServicesTypeCorrect`: every variable of it keeps its type.
- `GatewayProofs`, of retrieval: `UploadsTheorem`, `TextsTheorem`, `ClustersTheorem` and `FaissTheorem`
  of the parts, `RetrievalTheorem` of MCGateway. `KnowledgeInv`: until an upload is
  abandoned, a task of this chat that runs is the one in flight and the last to have begun, so that of
  this chat only it writes; a count that found nothing is from after the last
  upload was done or known to be late. `IndexInv`: the numbers of the texts have no gaps, and the one task between
  counting and writing has the first free one (by pigeonhole: a row is of a text that was
  filed). `VectorInv`: of a namespace that is not `behind`, rows that no cluster has are fewer than make a rebuild, or a rebuild
  is under way that reads them. `FaissInv`: the index differs from the table by what is
  under way: a row to be added is not in it, a row to be taken out is; writers work side by
  side only to add rows of different keys. `MisfitsAlone`: a writer whose vector has another length
  works alone and has the last row, so that it begins the index anew; `FileFits`: a file of another
  length than the index exists only while its one writer saves.
- `HostProofs`: of the tasks of MCHost.
  - `CronTypeCorrect`, `MirrorTheorem`, `NeverLostTheorem`, and `CronsTheorem` of the host.
    The inductive part, `InFlight`, says that a job of the current tick is in memory unless
    it was removed. Without it the `finally` of a run could put its job alone into an
    emptied dictionary, and the stored others would not be loaded any more.
  - `ContainedTheorem`, from `ShellInv`: a reader keeps what it takes up to the cap, and one
    that came to the end of its pipe will find no more in it, since nobody opens a pipe
    again.
  - `StorageTheorem`. `DocumentsInv`: whoever is about to write a row has stored its bytes
    (`BytesFirst`) and whoever edits has a row to edit (`RowsStay`). `JsonInv`: while one
    host has the history, its copy and what it saves are the whole of it, wherever the
    process ends; while no two savers of keys are `mixed`, what a saver has read is what is
    stored, and whatever it writes is encrypted with the secret there is. `MemoryInv`: no
    stamp is later than the clock, and a cached hash with the stamp and size of the file is
    that of its text.
  - `AnswersTheorem` (of the model's client; not the one in GatewayProofs), from `AsksInv`:
    the target that a request is under way to was selected since its call, as is the target
    now.
  - `ScoresTheorem`, from `RewardInv`. `Recording`: what an observer has recorded of its turn is
    one event for each result among what it has read, and one with the whole text once it has
    read the done; what it has read is a beginning of what was told, all of it when it ended and
    any part when it was cut off; no event is of a later turn. Of the scores it says that more of what is good never lowers a
    score (`ScoreGrows`, `TotalGrows`), and that a score stays in its bounds: sums of
    weighted halves, each with a bound of its own (`Weighs`).
  - `VerdictsTheorem`, from `EvalInv`: each result tells what it was decided by and is of a scenario that was read, and the
    stage of the run how many results there are.

Two proof attempts showed that a property was wrong as it stood. `ContextComplete` fails
with four tasks, which TLC confirmed: a history put into an instance overwrites the turn in
progress there; `outdated` says so now (section 8). And `CommandIsContained` held a
condition with ENABLED, which belongs to `WorkIsDone`. The proofs also needed assumptions on
sentinels (`Gone`, `NoIndex`, `NoText`) that model values satisfy, each next to its
constants; TLC evaluates them.

Only model-checked, and why:

- Liveness, and what is said with ENABLED, is out of the prover's reach: `RunsEnd`,
  `ResumeIsAnswered`, `EveryRequestEnds`, `StreamsEnd`, `WorkIsDone`, `TurnsEnd`.
- What a fold over a sequence computes needs an induction that the installed provers cannot
  instantiate. Where the proofs need what a recursion computes, it is a recursive function
  over a finite range (`Filter`, `Merge`, `Sweep`, `Split`, `Added`), about which
  `CountingUp` and `RecursionExists` can be used: their induction is over a set, not over a
  predicate. `PiecesAreRight` and `ToolCallsAreWhole` (in `TextsAreFound`) are compared with
  a definition by quantifiers over the bounded inputs of the runs.
- Not attempted: `ReadingIsRight` and `SearchIsRight` (in `TextsAreFound`), and `HostTypeOK`
  as a whole (the invariants above include the types of their own modules).

## 8 What was found

Six runs expect a violation; each states what a comment, document or test of the
repository says.

1. *AgentRunnerOverlap* (`runner.py:456`): with two runs of one agent, the first waiter takes the decision that was made about the second one's call.
2. *ChatPoolTwice* (`chat_pool.py:118`): an entry is popped before its lock is free; a second instance then runs a turn of the same session beside the first.
3. *CronRestart* (`crons.py:149`): after a restart nothing starts the loop and a tick does not load the stored jobs.
4. *StoreShared* (`store.py:126`): gateway and tool servers each keep the first preferences they read, and undo each other's writes.
5. *TurnPipelineVerify* (`turn_pipeline.py:137`): `tool_used` is reset before the answer that follows tools is finalized, so it is never verified.
6. *EditsFirst* (`store.py:79`): `edit_document` is documented to replace the first occurrence (`documents.py:39`, and
   `skills/document-store/SKILL.md:10`), and replaces every occurrence.

Observed on the way, and either in a model as an exempted case or outside of what
is modelled:

**Agents.**
- A stop, or a resume that loses against the timeout, leaves the event set, and the
  next run's first gate fails without asking. `stop()` does not stop a run that is not at
  the gate. A resume after a cancelled run waits for ever. A batch abandoned at the
  gate, a failed and a stopped run leave tool calls without results in the history.
- Delegation: cancelled agents stay listed as "running"; the interpreter's subprocess
  survives a cancellation until its own timer; `task()` raises the depth twice; the
  general-purpose subagent gets no tools; document and builtin tools reach agents only by
  the prefix of their name; routers of agents never refresh.
- Context: the first run with a scoped memory block loses the system prompt; the memory file
  may be reverted after a summary has dropped newer versions; a cut can separate
  results from their calls; `keep_messages` below 5 would lose messages; the memory
  middleware documents editing memory with file tools, which go to the virtual backend and
  are not persisted; a summary is made from the first 200 characters of each message (`runner.py:364`), and
  the archive with the rest is never read back; to-do lists are shared by all runs of an agent, plans and progress of earlier
  runs stay in the system message, ids may repeat, and `get_todos` is documented but never offered.
- Folders: a `create` that was cut short leaves an agent that can neither be created again nor paused; "Rejected. Reason
  logged." though the reason is written nowhere; an approval may settle a newer pause than its user was asked about.
- Memory scopes (`memory.py:13`, "not an overlap of others"): `("memory","a")` with `b/x` and
  `("memory","a","b")` with `x` are one file, and `list_files` shows nested scopes.
- Virtual files: a copy in memory under a route reappears after a delete; listings flatten
  nested directories, so equal names hide each other; a search matches files in memory by a glob or a piece
  of their whole path, files on the disk by a piece of their name (`backend.py:251`, `257`), and without a root
  no file under a route; the discovery guard never sees the virtual file tools.
- `POST /runs` says "stateless run (no thread persistence)" (`langgraph.py:280`), but the turn is saved.

**Chats and turns.**
- Pool: a request that has its instance may find it closed; a deleted session comes
  back when a turn that held it ends; an instance rebuilt after eviction starts
  without the session's history (`factory.py:108`); `POST /threads` renames the active
  instance, so that two instances write one session; a skill is activated outside the lock.
  A history that is loaded into an instance during a turn on it overwrites what the turn has
  added, and the next turn does not know of it.
- Turn: trimming can leave tool results without their calls; `context_budget`
  is a property and is called (`turn_pipeline.py:98`), so with a `PromptBudget`, which is always
  set, nothing is ever retrieved into a prompt; the history keeps the raw answer, not the
  moderated or revised one; the end by `max_iterations` pushes no `done`; intent-routed
  requests push it twice. A document or an approval that never comes holds the turn, and its chat's lock, for
  ever. Replies that replace what was streamed (a fallback after a broken stream, a revised, corrected,
  stopped or blocked one) are never shown on the terminal (`turn_renderer.py:107`), while the text they replace stays.
- Model client: `update_provider`'s new client loses the 120 s timeout; `rstrip("/v1")` strips
  characters, not a suffix; embedding errors by HTTP status return `[]` and are not retried;
  embeddings use the chat's current model, so a switch mixes vectors of two models in
  one store; `compress_schema` drops tool parameters named "description" or "default".
- Usage: the counters lose overlapping additions; the monitor's fallback is used by
  nobody; a plan is over budget with an overflow of 0 when the input alone fills the window; a base
  above the budget breaks "never exceeds".

**Streams and clients.**
- Bus: a full queue drops `done`, whose reader then waits for ever; the phase DONE
  follows `done` and is read by nobody; observers are cancelled when the
  client's stream ends, before they have read everything (`chat.py:158`).
- `/ws` hangs after a blocked, exhausted or raising turn and never notices that the client left; on
  an agent's stream the runner's own `done` precedes "Agent completed" and interrupts, which
  never reach the client; `runner.bus` stays the old one for a later resume.
- Web client: late loads overwrite the view; retry and edit ignore the streaming flag; a double
  send can create two conversations; an edit is not persisted; undo after a switch shows the
  old conversation; a used or removed session makes the next page of the list skip or repeat one; a rename changes the
  server's id but not the client's, so that the conversation opens empty; scrolling up in the old
  messages while another conversation's are to come can leave an empty list; a picture read but
  not yet drawn when a message is sent is in none, one still being read goes with a later message;
  a message of pictures without text is cleared by the composer (`Composer.jsx:51`) and dropped by `send`
  (`useChat.js:140`); a broken connection ends the turn on the page while the server may go on and save it;
  `onSend` failing loses the text; `runAgent` (`App.jsx:87`) is undefined; the search panel gets no `onResultClick`.
- Terminal: any fence closes a code block; a block opened without lines stays open for the next
  turn, and a cancelled or raising turn leaves its buffer to it; the spinner's task clears the current line up to
  0.1 s after `clear()`, and `stop()` clears it at the end of a turn, so that the last unfinished
  line of an answer is erased; after a failing `send()` it may clear the prompt.

**Stores.**
- Cron: a job removed while it runs is stored again by its `finally`; the due list is
  taken once per tick; waiting for the chat's lock and the history is outside of the
  300 s; a failed store write is only logged.
- Store: a torn line of the rewards log swallows the next acknowledged entry. Entries are written
  with their characters as they are and read with `splitlines()` (`store.py:175`), so that one with U+0085, U+2028 or
  U+2029 is lost with the next start, and a snapshot with one is lost whole. Rewards are listed with the
  limit before the filters; a call is recorded twice as "tool_call", and one with an empty
  result as "running" for ever (`chat.py:47`).
- Retrieval: a second upload of a file while the first is indexed is answered with the
  first one's result, whatever its content; a shorter file leaves the tail of the longer
  one; a cancelled upload mixes chunks; "empty" may be kept 30 s too long; two
  filing tasks overwrite each other.
- Every chat has a store and a pipeline of its own over one table (`chat.py:92`, `95`): another chat's cache
  may say for 30 s that nothing is there, two chats that index one file at once may mix its chunks, and the
  clusters of one fall behind what the others write.
- Clusters: deletions keep the count off the multiples of fifty, overlapping writes skip one, overlapping
  rebuilds pair the keys of one namespace with another's name, a failed build is swallowed, a small
  namespace's rebuild resets another's clusters. faiss: a file of equal count is accepted after a
  crash in a replace; a rebuild between a row and its add duplicates an id; overlapping first inserts lose one.
  When the embedding model changes the length of its vectors, the rows before drop out of the index, and a backend
  whose table has rows of two lengths cannot be opened again.
  A replaced row moves to the end of the table, so that a running search may meet it twice and skip another.
- Chunks: by sentences a piece may be twice `max_chars`, and the first one may be contained in the next; by tokens
  the loop would not end if the overlap reached the chunk size.
- History: undo, rename, fork and delete take no lock (`history.py:138`): in the middle of a
  turn they leave its answer without its question; a rename to a name in use merges
  two sessions; a prune deletes a session that came back to life between its SELECT
  and its DELETE.
- Files: `store.py`'s `_lock` is taken by nobody; credentials torn by a crash make the next save drop
  all other keys; a torn history file loses the seed too; free windows may reach beyond `to_time`; `update_event` stores dates as they are
  spelled, which `free_slots` does not find; nor does it see the rest of an event that goes past midnight; a calendar
  file that cannot be read is taken for empty and written over (`calendar.py:54`).
- File tree: one file deleted between `listdir` and `stat` fails the whole tree; a link met before its
  directory leaves the directory shown empty, and a deeper one can hide files beyond `max_depth`; the
  404 of `routers/files.py` is turned into a 500.

**Elsewhere.**
- Servers: two started at once may pick one free port; `add_server` never connects, so `/load` and
  `/reload` give a server without tools and say that it was loaded; the sse transport never
  launches its command; the tools endpoints take no user.
- Shell: a timeout or cancellation after the shell was reaped leaves its children alive; children that hold the pipes
  cost the whole output.
- A pool made only by requests with a session id is not registered for closing at shutdown
  (`vajra_gate/__init__.py:74`); `/api/skills/output-schemas` cannot be reached.
- Evaluation: a scenario file that cannot be read or has no name is left out with a warning, and the run may exit 0
  (`eval/runner.py:47`); a golden file that does not parse fails `--smoke` but is ignored by a live run, which lets
  the judge decide; one raising scenario loses the report; a run without scenarios exits 0; a judge's
  `"pass": "false"` counts as true.

## 9 What is not modelled

- Numbers that are only computed: embeddings, distances and prices (the models choose them
  once), the metrics over rewards, benchmarks.
- Texts: prompts, themes, completers and layout of the terminal; which intent, skill or
  schema a request suits; path patterns, the deny rules of shell commands and the checks of
  addresses; pydantic types.
- What has no state or one statement: flights, media and health over fixed data, quotes, single file operations of the gateway, headers and logging, roots.
- What cannot be reached or has no caller (two that have none are in the models, as they share state or
  code with what has: `hybrid_search` in TextSearch, the monitor's fallback in UsageMeter): the agent panel and run dialog of the web client,
  HistoryManager, `search_page`, `tune`, `delete_document`, `configure`.
- What is outside: the SDKs of model providers and of MCP, SQLite itself (a statement is atomic,
  a committed one durable), the browser's rendering.
- The gateway's start and shutdown, intent routing, activation of skills, the search panel, custom
  `--chat` modules and the cache of model capabilities. Each component's `note` in
  `PROJECT.json` says what is left of it.
