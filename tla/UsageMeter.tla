------------------------------ MODULE UsageMeter ------------------------------
(***************************************************************************)
(* services/usage.py and services/token_monitor.py: what the turns of a      *)
(* chat cost.  UsageTracker.record runs in a thread of the executor: it    *)
(* inserts a row under the store's lock and then adds to two counters      *)
(* without it.  A turn awaits its records one after the other, but a       *)
(* cancelled one leaves its record to its thread, and the next turn may    *)
(* begin.  The monitor keeps the latest samples, the terminal prints what  *)
(* the counters gained in a turn.                                          *)
(*                                                                         *)
(* A cost is a multiple of a counter and goes with it.  At the end are the *)
(* budgets of services/prompt_budget.py.                                   *)
(***************************************************************************)
EXTENDS Naturals, Sequences, FiniteSets, SequencesExt, FiniteSetsExt, Lists

CONSTANTS
  Records,    \* calls of async_record, in the order they are made: 1..n
  MaxTokens,  \* bound: tokens of a call, each way
  MaxRecent,  \* TokenMonitor.max_recent
  Warn, Hard, \* TokenMonitor.warn_threshold, hard_threshold
  MaxMetered, \* bound: turns
  MaxWindow,  \* bound: tokens of a prompt's window
  MaxChunks   \* bound: chunks retrieved for a prompt

ASSUME UsageAssumption ==
  /\ Records \in Nat /\ MaxTokens \in Nat /\ MaxMetered \in Nat
  /\ MaxWindow \in Nat /\ MaxChunks \in Nat
  /\ MaxRecent \in Nat \ {0} /\ Warn \in Nat \ {0} /\ Hard \in Nat /\ Warn <= Hard

Ids   == 1..Records
Sides == {"input", "output"}

VARIABLES
  tokens,   \* what each call costs: chosen once
  made,     \* calls made so far
  thread,   \* where the thread of each is
  loaded,   \* what it has read of the counter it is adding to
  log,      \* usage_log
  counter,  \* _session_input and _session_output
  connected, \* the connection is open
  samples,  \* TokenMonitor._samples
  turn,     \* the turn under way, and the call it awaits
  metered,  \* turns begun
  bill,     \* what the terminal printed of the turns that ended
  alone     \* history: no thread has run beside another's, or beside a turn not its own

usageVars ==
  <<tokens, made, thread, loaded, log, counter, connected, samples, turn, metered, bill, alone>>

NoTurn == [before |-> [s \in Sides |-> 0], awaits |-> 0, calls |-> {}, runs |-> FALSE]

UsageTypeOK ==
  /\ tokens \in [Ids -> [Sides -> 0..MaxTokens]] /\ made \in 0..Records
  /\ thread \in [Ids -> {"none", "insert", "input", "input+", "output", "output+", "done", "failed"}]
  /\ loaded \in [Ids -> 0 .. Records * MaxTokens]
  /\ log \in Seq(Ids) /\ counter \in [Sides -> 0 .. Records * MaxTokens]
  /\ connected \in BOOLEAN /\ samples \in Seq(Ids) /\ metered \in 0..MaxMetered
  /\ turn.awaits \in 0..Records /\ turn.calls \subseteq Ids /\ turn.runs \in BOOLEAN
  /\ alone \in BOOLEAN

UsageInit ==
  /\ tokens \in [Ids -> [Sides -> 0..MaxTokens]] /\ made = 0
  /\ thread = [r \in Ids |-> "none"] /\ loaded = [r \in Ids |-> 0]
  /\ log = <<>> /\ counter = [s \in Sides |-> 0] /\ connected = TRUE /\ samples = <<>>
  /\ turn = NoTurn /\ metered = 0 /\ bill = <<>> /\ alone = TRUE

-----------------------------------------------------------------------------
Live(r) == thread[r] \notin {"none", "done", "failed"}

(* What the calls in a set cost on one side.                                 *)
Added(costs, rs, side) ==
  LET upTo[n \in 0..Records] ==
        IF n = 0 THEN 0 ELSE IF n \in rs THEN upTo[n - 1] + costs[n][side] ELSE upTo[n - 1]
  IN  upTo[Records]

Sum(rs, side) == Added(tokens, rs, side)

BeginTurn ==
  /\ ~turn.runs /\ metered < MaxMetered /\ metered' = metered + 1
  /\ turn' = [NoTurn EXCEPT !.before = counter, !.runs = TRUE]
  /\ alone' = (alone /\ \A r \in Ids : ~Live(r))
  /\ UNCHANGED <<tokens, made, thread, loaded, log, counter, connected, samples, bill>>

(* async_record: the executor has a free thread.                             *)
Call ==
  /\ turn.runs /\ turn.awaits = 0 /\ made < Records
  /\ made' = made + 1
  /\ thread' = [thread EXCEPT ![made + 1] = "insert"]
  /\ turn' = [turn EXCEPT !.awaits = made + 1, !.calls = @ \cup {made + 1}]
  /\ UNCHANGED <<tokens, loaded, log, counter, connected, samples, metered, bill, alone>>

InsertTwice(r) ==  \* mutant
  /\ thread[r] = "insert" /\ connected
  /\ log' = log \o <<r, r>> /\ thread' = [thread EXCEPT ![r] = "input"]
  /\ UNCHANGED <<tokens, made, loaded, counter, connected, samples, turn, metered, bill, alone>>

(* The row, with the lock; a tracker that was closed raises.                 *)
Insert(r) ==
  /\ thread[r] = "insert"
  /\ IF connected THEN log' = Append(log, r) /\ thread' = [thread EXCEPT ![r] = "input"]
             ELSE thread' = [thread EXCEPT ![r] = "failed"] /\ UNCHANGED log
  /\ UNCHANGED <<tokens, made, loaded, counter, connected, samples, turn, metered, bill, alone>>

(* += is a read and a write.                                                 *)
ReadCounter(r, side) ==
  /\ thread[r] = side
  /\ loaded' = [loaded EXCEPT ![r] = counter[side]]
  /\ thread' = [thread EXCEPT ![r] = IF side = "input" THEN "input+" ELSE "output+"]
  /\ UNCHANGED <<tokens, made, log, counter, connected, samples, turn, metered, bill, alone>>

WriteCounter(r, side) ==
  /\ thread[r] = IF side = "input" THEN "input+" ELSE "output+"
  /\ counter' = [counter EXCEPT ![side] = loaded[r] + tokens[r][side]]
  /\ thread' = [thread EXCEPT ![r] = IF side = "input" THEN "output" ELSE "done"]
  /\ loaded' = [loaded EXCEPT ![r] = 0]
  /\ UNCHANGED <<tokens, made, log, connected, samples, turn, metered, bill, alone>>

Newest(s) == IF Len(s) > MaxRecent THEN Tail(s) ELSE s

(* The call returns: the model call's tokens go to the monitor, those of the *)
(* verifier and of a recovery do not.                                        *)
Recorded ==
  /\ turn.runs /\ turn.awaits # 0 /\ thread[turn.awaits] = "done"
  /\ samples' = Newest(Append(samples, turn.awaits)) \/ samples' = samples
  /\ turn' = [turn EXCEPT !.awaits = 0]
  /\ UNCHANGED <<tokens, made, thread, loaded, log, counter, connected, metered, bill, alone>>

(* send() returns; the terminal prints the difference.                       *)
CountTurn ==
  /\ turn.runs /\ turn.awaits = 0
  /\ turn' = NoTurn
  /\ bill' = Append(bill, [calls |-> turn.calls, alone |-> alone,
                           gain  |-> [s \in Sides |-> counter[s] - turn.before[s]]])
  /\ UNCHANGED <<tokens, made, thread, loaded, log, counter, connected, samples, metered, alone>>

(* The turn is cancelled, or the call raised: its thread is not stopped.     *)
AbandonTurn ==
  /\ turn.runs /\ turn' = NoTurn
  /\ UNCHANGED <<tokens, made, thread, loaded, log, counter, connected, samples, metered, bill, alone>>

(* close() waits for the lock only.                                          *)
Close ==
  /\ connected /\ connected' = FALSE /\ metered > 0
  /\ UNCHANGED <<tokens, made, thread, loaded, log, counter, samples, turn, metered, bill, alone>>

UsageNext ==
  \/ BeginTurn \/ Call \/ Recorded \/ CountTurn \/ AbandonTurn \/ Close
  \/ \E r \in Ids : Insert(r) \/ \E s \in Sides : ReadCounter(r, s) \/ WriteCounter(r, s)

-----------------------------------------------------------------------------
(* session_summary_for and total_summary read the rows: each call whose      *)
(* record succeeded is there once, in whatever order the threads ran.        *)
RowsAreRight ==
  /\ IsInjective(log)
  /\ \A r \in Ids : thread[r] \notin {"none", "insert", "failed"} <=> r \in ToSet(log)

(* session_summary reads the counters: they never show more than the rows,   *)
(* and the same once all threads are done, unless two of them overlapped, as *)
(* only the record of an abandoned turn can.                                 *)
CountersAreRight ==
  \A s \in Sides :
    /\ counter[s] <= Sum(ToSet(log), s)
    /\ alone /\ (\A r \in Ids : ~Live(r)) => counter[s] = Sum(ToSet(log), s)

(* The tokens printed after a turn are those of its own calls.               *)
BillIsRight ==
  \A b \in ToSet(bill) : b.alone => \A s \in Sides : b.gain[s] = Sum(b.calls, s)

(* The monitor's window holds calls that were recorded, oldest first.        *)
WindowIsRight ==
  /\ Len(samples) <= MaxRecent /\ ToSet(samples) \subseteq ToSet(log)
  /\ \A i, j \in DOMAIN samples : i < j => samples[i] < samples[j]

(* What is read off the window; nothing but tests reads it yet.              *)
Total(r) == tokens[r]["input"] + tokens[r]["output"]

WarnFirst(total) ==  \* mutant
  CASE total >= Warn -> "warn" [] total >= Hard /\ total < Warn -> "critical" [] OTHER -> "ok"

Classify(total) == CASE total >= Hard -> "critical" [] total >= Warn /\ total < Hard -> "warn" [] OTHER -> "ok"

Hits(level) == Len(Filter(samples, [i \in DOMAIN samples |-> Classify(Total(samples[i])) = level]))

Status ==
  [count    |-> Len(samples),
   average  |-> [s \in Sides |-> Sum(ToSet(samples), s) \div Len(samples)],
   max      |-> Max({Total(r) : r \in ToSet(samples)}),
   level    |-> Classify(Total(Last(samples))),
   warnings |-> Hits("warn"), critical |-> Hits("critical")]

ShouldFallBack ==
  \/ Classify(Total(Last(samples))) \in {"warn", "critical"}
  \/ (Sum(ToSet(samples), "input") + Sum(ToSet(samples), "output")) \div Len(samples) >= Warn

FallbackAction ==
  CASE Classify(Total(Last(samples))) = "critical" -> "truncate"
    [] Classify(Total(Last(samples))) = "warn" -> "compress"
    [] OTHER -> "none"

(* The answers agree: a caller is told to truncate at the hard threshold and *)
(* not before, is told what to do only when something should be done, and    *)
(* something should be done only when a call in the window was over the      *)
(* warning threshold; and the largest call has the gravest level.            *)
MonitorIsRight ==
  samples # <<>> =>
    /\ FallbackAction = "truncate" <=> Total(Last(samples)) >= Hard
    /\ FallbackAction # "none" => ShouldFallBack
    /\ ShouldFallBack => Status.max >= Warn /\ Status.warnings + Status.critical > 0
    /\ Classify(Status.max) = "critical" <=> Status.critical > 0
    /\ Status.average["input"] + Status.average["output"] <= Status.max

-----------------------------------------------------------------------------
(* PromptBudget and TokenAwareSampler: a prompt is its fixed part (the       *)
(* system prompt and the question) and as many of the ranked chunks as fit.  *)
(* What the first k chunks cost, joined, is any number that grows with k.    *)
VARIABLES
  prompt,   \* the request: chosen once
  at,       \* chunks that fit_context has looked at
  chosen,   \* len(selected)
  estimate  \* total_est, of the prompt so far

budgetVars == <<prompt, at, chosen, estimate>>

Rising(n) == {f \in [1..n -> 0..MaxWindow] : \A i, j \in 1..n : i < j => f[i] <= f[j]}

Prompts == [max : 0..MaxWindow, reserve : 0..MaxWindow, base : 0..MaxWindow,
            joined : UNION {Rising(n) : n \in 0..MaxChunks}]

NoPrompt == [max |-> 0, reserve |-> 0, base |-> 0, joined |-> <<>>]

(* context_budget                                                            *)
Budget == IF prompt.max > prompt.reserve THEN prompt.max - prompt.reserve ELSE 0

BudgetTypeOK ==
  /\ prompt \in Prompts /\ at \in 0 .. MaxChunks + 1 /\ chosen \in 0..MaxChunks
  /\ estimate \in 0 .. 2 * MaxWindow

BudgetInit == prompt \in Prompts /\ at = 0 /\ chosen = 0 /\ estimate = prompt.base

SkipTooLong ==  \* mutant
  /\ at < Len(prompt.joined) /\ at' = at + 1
  /\ LET candidate == prompt.base + prompt.joined[at + 1] IN
     IF chosen > 0 /\ candidate > Budget THEN UNCHANGED <<chosen, estimate>>
     ELSE chosen' = chosen + 1 /\ estimate' = candidate
  /\ UNCHANGED prompt

(* fit_context: the first chunk that does not fit ends the loop.             *)
TakeChunk ==
  /\ at < Len(prompt.joined)
  /\ LET candidate == prompt.base + prompt.joined[at + 1] IN
     IF candidate > Budget
     THEN at' = Len(prompt.joined) /\ UNCHANGED <<chosen, estimate>>
     ELSE at' = at + 1 /\ chosen' = chosen + 1 /\ estimate' = candidate
  /\ UNCHANGED prompt

BudgetNext == TakeChunk

Assembled == prompt # NoPrompt /\ at = Len(prompt.joined)

(* suggest_top_k, its own loop over the same chunks.                         *)
SuggestTopK ==
  LET Fits(i) == prompt.base + prompt.joined[i] <= Budget
  IN Cardinality({k \in DOMAIN prompt.joined : \A i \in 1..k : Fits(i)})

NeedsFallback == estimate > Budget

(* plan, for an input of prompt.base tokens and an output of prompt.reserve. *)
MaxOutput == IF prompt.max > prompt.base THEN prompt.max - prompt.base ELSE 1
Overflow  == IF prompt.reserve > MaxOutput THEN prompt.reserve - MaxOutput ELSE 0
PlanFits  == prompt.base + prompt.reserve <= prompt.max

(* select_model, from models with these windows: the first that fits in the  *)
(* order of their windows.                                                   *)
SelectModel(windows) ==
  LET sorted  == Filter([w \in 1..MaxWindow |-> w], [w \in 1..MaxWindow |-> w \in windows])
      fitting == Filter(sorted, [i \in DOMAIN sorted |-> prompt.base + 1 <= sorted[i]])
  IN IF fitting = <<>> THEN 0 ELSE Head(fitting)

(* What was put together is within the budget, unless the fixed part alone   *)
(* is over it; the next chunk would not have fit, and the number suggested   *)
(* for a search is the number of chunks taken.  The output planned leaves    *)
(* room for the input, and the overflow says by how much the request was     *)
(* over, unless the input fills the window alone.  And the model selected is *)
(* the smallest that has room.                                               *)
BudgetIsKept ==
  Assembled =>
    /\ NeedsFallback <=> prompt.base > Budget
    /\ NeedsFallback => chosen = 0
    /\ chosen < Len(prompt.joined) => prompt.base + prompt.joined[chosen + 1] > Budget
    /\ SuggestTopK = chosen
    /\ prompt.base < prompt.max => (PlanFits <=> Overflow = 0) /\ prompt.base + MaxOutput = prompt.max
    /\ \A windows \in SUBSET (1..MaxWindow) :
         IF SelectModel(windows) = 0 THEN \A w \in windows : w <= prompt.base
         ELSE \A w \in windows : w < SelectModel(windows) => w <= prompt.base

(* What the turns cost is counted, and what a prompt may hold; and every     *)
(* state is well typed.                                                      *)
UsageIsCounted ==
  /\ UsageTypeOK /\ BudgetTypeOK
  /\ RowsAreRight /\ CountersAreRight /\ BillIsRight /\ WindowIsRight /\ MonitorIsRight
  /\ BudgetIsKept
=============================================================================
