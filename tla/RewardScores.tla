----------------------------- MODULE RewardScores -----------------------------
(***************************************************************************)
(* vajra_gate/services/reward: what an action is worth.  An evaluator gives*)
(* each of seven dimensions a base, the engine adds to it for what the     *)
(* context says, clamps the sum and weighs the seven.  _reward_observer of *)
(* vajra_gate/chat.py turns the events of a turn into actions, and the     *)
(* tracker lists what was recorded.                                        *)
(*                                                                         *)
(* Scores are hundredths, weights tenths; a context is the set of what is  *)
(* true in it, its attempt and its tokens (of 8192, in halves).            *)
(***************************************************************************)
EXTENDS Integers, Sequences, FiniteSets, Lists

CONSTANTS
  MaxFlags,       \* bound: what is true in a context
  Sessions,
  Limit,          \* of a listing
  MaxTools,       \* bound: tool calls of a turn
  MaxTokenEvents,  \* bound: pieces of an answer
  MaxTurns        \* bound: turns

ASSUME RewardAssumption ==
  Sessions # {} /\ MaxFlags \in Nat /\ Limit \in Nat /\ MaxTools \in Nat /\ MaxTokenEvents \in Nat /\ MaxTurns \in Nat

Weights ==
  [nishkama |-> 12, yoga |-> 10, guna_karma |-> 8, akarma |-> 7, uddhara |-> 9,
   shanti |-> 10, samaarpana |-> 11]
Dimensions == DOMAIN Weights

Actions ==
  {"response", "tool_call", "tool_result", "error", "retry", "refusal", "feedback",
   "session_start", "session_end", "unknown"}

Virtues ==
  {"handled_gracefully", "is_retry", "precision", "tool_name", "correct_classification",
   "organized_output", "automated_process", "behind_the_scenes_work", "learning_occurred",
   "self_correction", "improvement", "calm_response", "impartial", "ethical_refusal",
   "is_legitimate_refusal", "deferred_to_human", "content", "retry_possible", "liked", "helpful",
   "messages"}
Faults ==
  {"frustration", "blames_external", "invalid_args", "slow", "misclassification",
   "unnecessary_action", "missed_optimization", "degradation", "bias", "agitation",
   "harmful_action", "exceeded_authority", "failed", "disliked", "unhelpful"}
Flags == Virtues \cup Faults \cup {"error"}

VARIABLES
  action, context,  \* an action to evaluate
  events,           \* recorded: session, action, in order
  reply,            \* reply_parts of the turn's observer
  turn,             \* the turn the observer follows
  calls,            \* its tool calls, and whether it is over
  told,             \* what the turn has pushed to the bus
  seen,             \* how much of it the observer has read
  watch             \* the observer: "reading", "ended" with the done, or "cut"

observerVars == <<events, reply, seen, watch>>
turnVars     == <<turn, calls, told>>
rewardVars   == <<action, context, observerVars, turnVars>>

Contexts == [true : SUBSET Flags, attempt : 1..6, halves : 0..3]
Recorded == [session : Sessions, action : Actions, parts : Nat, turn : 0..MaxTurns]

(* A tool event is "running" or "done"; an empty result counts as "running". *)
Pushed == {"runs", "result", "tokens", "done"}

RewardTypeOK ==
  /\ action \in Actions /\ context \in Contexts
  /\ events \in Seq(Recorded) /\ reply \in Nat /\ turn \in 0..MaxTurns
  /\ calls \in [session : Sessions, asked : 0..MaxTools, running : BOOLEAN, over : BOOLEAN]
  /\ told \in Seq(Pushed) /\ seen \in 0..Len(told) /\ watch \in {"reading", "ended", "cut"}

NoCalls == [session |-> CHOOSE s \in Sessions : TRUE, asked |-> 0, running |-> FALSE, over |-> TRUE]

RewardInit ==
  /\ action \in Actions
  /\ context \in [true : {{}}, attempt : IF action = "retry" THEN 1..6 ELSE {1}, halves : 0..3]
  /\ events = <<>> /\ reply = 0 /\ turn = 0 /\ calls = NoCalls
  /\ told = <<>> /\ seen = 0 /\ watch = "cut"

-----------------------------------------------------------------------------
If(b, x, y) == IF b THEN x ELSE y
Gain(c, f, n) == If(f \in c.true, n, 0)

GracelessError(c) ==  \* mutant
  IF "error" \in c.true THEN If("handled_gracefully" \in c.true, -30, 40) ELSE 0

(* _nishkama                                                                 *)
ErrorGain(c) ==
  IF "error" \in c.true THEN If("handled_gracefully" \in c.true, 40, -30) ELSE 0

(* _yoga: half a point for 8192 tokens, and no more.                         *)
TokenGain(c) == If(c.halves < 2, 25 * c.halves, 50)

(* What the engine adds to the base of a dimension.                          *)
Adjustment(d, c) ==
  CASE d = "nishkama" ->
         ErrorGain(c) + Gain(c, "is_retry", 30) + Gain(c, "frustration", -50) + Gain(c, "blames_external", -40)
    [] d = "yoga" ->
         TokenGain(c) + Gain(c, "invalid_args", -30) + Gain(c, "slow", -20) + Gain(c, "precision", 20)
    [] d = "guna_karma" ->
         Gain(c, "tool_name", 20) + Gain(c, "correct_classification", 30)
         + Gain(c, "misclassification", -40) + Gain(c, "organized_output", 20)
    [] d = "akarma" ->
         Gain(c, "automated_process", 30) + Gain(c, "behind_the_scenes_work", 20)
         + Gain(c, "unnecessary_action", -40) + Gain(c, "missed_optimization", -20)
    [] d = "uddhara" ->
         Gain(c, "learning_occurred", 40) + Gain(c, "self_correction", 50) + Gain(c, "improvement", 30)
         + Gain(c, "degradation", -50)
    [] d = "shanti" ->
         Gain(c, "handled_gracefully", 30) + Gain(c, "calm_response", 30) + Gain(c, "bias", -50)
         + Gain(c, "agitation", -40) + Gain(c, "impartial", 20)
    [] d = "samaarpana" ->
         Gain(c, "ethical_refusal", 50) + Gain(c, "is_legitimate_refusal", 30) + Gain(c, "harmful_action", -70)
         + Gain(c, "exceeded_authority", -50) + Gain(c, "deferred_to_human", 40)

Seven(n, y, g, a, u, s, p) ==
  [nishkama |-> n, yoga |-> y, guna_karma |-> g, akarma |-> a, uddhara |-> u,
   shanti |-> s, samaarpana |-> p]

ResponseBase(c) ==
  If("content" \in c.true, Seven(40, 50, 30, 20, 20, 40, 20), Seven(-20, -30, -20, 20, -10, 0, 20))

ToolCallBase(c) ==
  If("invalid_args" \in c.true, Seven(30, -30, -30, 20, 10, 30, 20), Seven(30, 50, 50, 20, 10, 30, 20))

ToolResultBase(c) ==
  If("failed" \in c.true, Seven(10, 10, -20, 30, 0, 10, 30), Seven(30, 50, 30, 30, 20, 30, 30))

ErrorBase(c) ==
  If("handled_gracefully" \in c.true,
     Seven(30, 10, 0, 20, If("retry_possible" \in c.true, 30, 0), 50, 20),
     Seven(-20, -20, 0, -10, 0, -30, -20))

RetryBase(c) ==
  LET yoga == 50 - 8 * If(c.attempt < 5, c.attempt, 5)
      failed == "failed" \in c.true
  IN  Seven(70, If(yoga < 0, 0, yoga), If(failed, 10, 30), 20, If(failed, 20, 50), 50, 30)

RefusalBase(c) ==
  If("is_legitimate_refusal" \in c.true, Seven(0, 20, 30, 10, 10, 30, 50), Seven(0, 20, -20, 10, 10, -20, -50))

(* was_helpful is taken from the rating if the context does not say.         *)
FeedbackBase(c) ==
  LET liked    == "liked" \in c.true
      disliked == "disliked" \in c.true
      helpful  == "helpful" \in c.true \/ (liked /\ "unhelpful" \notin c.true)
  IN  Seven(0, If(liked, 30, If(disliked, -10, 0)), 10, 0, If(liked, 50, If(disliked, -30, 0)),
            If(helpful, 20, If(disliked, -20, 0)), If(helpful, 30, If(disliked, -20, 0)))

SessionEnd(c) ==
  If("messages" \in c.true, Seven(30, 20, 20, 10, 10, 30, 20), Seven(30, 20, -10, 10, 10, 30, 0))

Base(act, c) ==
  CASE act = "response" -> ResponseBase(c)      [] act = "tool_call" -> ToolCallBase(c)
    [] act = "tool_result" -> ToolResultBase(c) [] act = "error" -> ErrorBase(c)
    [] act = "retry" -> RetryBase(c)            [] act = "refusal" -> RefusalBase(c)
    [] act = "feedback" -> FeedbackBase(c)

Clamp(x) == If(x > 100, 100, If(x < -100, -100, x))

(* evaluate: the two ends of a session and what is unknown have no context.  *)
Score(act, c, d) ==
  CASE act = "session_end" -> SessionEnd(c)[d]
    [] act \in {"session_start", "unknown"} -> 0
    [] OTHER -> Clamp(Base(act, c)[d] + Adjustment(d, c))

(* total, times the sum of the weights.                                      *)
Weighed(act, c, d) == Weights[d] * Score(act, c, d)
Total(act, c) ==
  Weighed(act, c, "nishkama") + Weighed(act, c, "yoga") + Weighed(act, c, "guna_karma") + Weighed(act, c, "akarma")
  + Weighed(act, c, "uddhara") + Weighed(act, c, "shanti") + Weighed(act, c, "samaarpana")

-----------------------------------------------------------------------------
(* A like excludes a dislike, and a helpful answer an unhelpful one.         *)
Possible(fs) == ~({"liked", "disliked"} \subseteq fs) /\ ~({"helpful", "unhelpful"} \subseteq fs)
With(c, f) == [c EXCEPT !.true = @ \cup {f}]

SayMore ==
  /\ Cardinality(context.true) < MaxFlags
  /\ \E f \in Flags \ context.true :
       Possible(context.true \cup {f}) /\ context' = With(context, f)
  /\ UNCHANGED <<action, observerVars, turnVars>>

-----------------------------------------------------------------------------
(* A turn pushes to its bus; the client's stream and the observer read from  *)
(* it, each at its own pace.  The queues hold 1000 events and are not full   *)
(* here.                                                                     *)
Told(kind) == {i \in DOMAIN told : told[i] = kind}
Push(kind) == told' = Append(told, kind)

BeginTurn(s) ==
  /\ calls.over /\ watch # "reading" /\ turn < MaxTurns /\ turn' = turn + 1
  /\ calls' = [NoCalls EXCEPT !.over = FALSE, !.session = s]
  /\ told' = <<>> /\ seen' = 0 /\ reply' = 0 /\ watch' = "reading"
  /\ UNCHANGED <<action, context, events>>

ToolRuns ==
  /\ ~calls.over /\ ~calls.running /\ calls.asked < MaxTools
  /\ calls' = [calls EXCEPT !.running = TRUE, !.asked = @ + 1] /\ Push("runs")
  /\ UNCHANGED <<action, context, observerVars, turn>>

ToolReturns ==
  /\ calls.running
  /\ calls' = [calls EXCEPT !.running = FALSE] /\ (Push("runs") \/ Push("result"))
  /\ UNCHANGED <<action, context, observerVars, turn>>

Tokens ==
  /\ ~calls.over /\ Cardinality(Told("tokens")) < MaxTokenEvents /\ Push("tokens")
  /\ UNCHANGED <<action, context, observerVars, turn, calls>>

(* run_chat's finally, whether the turn succeeded or not.                    *)
CallsOver == [calls EXCEPT !.over = TRUE, !.running = FALSE]
TurnOver ==
  /\ ~calls.over /\ calls' = CallsOver /\ Push("done")
  /\ UNCHANGED <<action, context, observerVars, turn>>

RecordTheRest ==  \* mutant
  /\ watch = "reading" /\ watch' = "cut" /\ calls' = CallsOver
  /\ events' = Append(events, [session |-> calls.session, action |-> "response", parts |-> reply, turn |-> turn])
  /\ UNCHANGED <<action, context, reply, seen, turn, told>>

(* The client's stream ends, with the done or when the client leaves: the    *)
(* turn and the observer are cancelled, wherever the observer is.            *)
StreamEnds ==
  /\ watch = "reading" /\ watch' = "cut" /\ calls' = CallsOver
  /\ UNCHANGED <<action, context, events, reply, seen, turn, told>>

-----------------------------------------------------------------------------
(* _reward_observer: what it records of the next event it reads.             *)
Following == told[seen + 1]
Note(act, parts) == [session |-> calls.session, action |-> act, parts |-> parts, turn |-> turn]

ResultOfEveryStatus ==  \* mutant
  CASE Following \in {"runs", "result"} -> <<Note("tool_call", 0), Note("tool_result", 0)>>
    [] Following = "done" /\ reply > 0  -> <<Note("response", reply)>>
    [] OTHER                        -> <<>>

Notes ==
  CASE Following = "runs"              -> <<Note("tool_call", 0)>>
    [] Following = "result"            -> <<Note("tool_call", 0), Note("tool_result", 0)>>
    [] Following = "done" /\ reply > 0 -> <<Note("response", reply)>>
    [] OTHER                       -> <<>>

Observe ==
  /\ watch = "reading" /\ seen < Len(told) /\ seen' = seen + 1
  /\ events' = events \o Notes
  /\ reply' = IF Following = "tokens" THEN reply + 1 ELSE reply
  /\ watch' = IF Following = "done" THEN "ended" ELSE watch
  /\ UNCHANGED <<action, context, turnVars>>

(* The store raises, before or after it has the entry: the observer ends.    *)
RecordFails ==
  /\ watch = "reading" /\ seen < Len(told) /\ Notes # <<>> /\ watch' = "cut"
  /\ \E kept \in {<<>>, <<Head(Notes)>>, Notes} : events' = events \o kept
  /\ UNCHANGED <<action, context, reply, seen, turnVars>>

ObserverNext ==
  \/ \E s \in Sessions : BeginTurn(s)
  \/ ToolRuns \/ ToolReturns \/ Tokens \/ TurnOver \/ StreamEnds \/ Observe \/ RecordFails

-----------------------------------------------------------------------------
(* list_events: the newest of all sessions first, then those asked for.      *)
NewestEvents == [i \in 1 .. If(Len(events) > Limit, Limit, Len(events)) |-> events[Len(events) + 1 - i]]
Listed(s) == Filter(NewestEvents, [i \in DOMAIN NewestEvents |-> NewestEvents[i].session = s])

Better(f, x, y) == If(f \in Virtues, x >= y, x <= y)

InRange(x) == x \in -6700 .. 6700

Tells(f) ==
  LET more == With(context, f)
  IN  /\ \A d \in Dimensions : Better(f, Score(action, more, d), Score(action, context, d))
      /\ Better(f, Total(action, more), Total(action, context))

(* "Scores range [-1.0, 1.0]: positive means the action aligns with the      *)
(* teaching, negative means it violates it" (engine.py:34): whatever a       *)
(* context says already, one more virtue lowers no dimension and not the     *)
(* total, one more fault raises none, and the total stays in the range.      *)
ScoresAreFair ==
  /\ InRange(Total(action, context))
  /\ \A f \in (Virtues \cup Faults) \ context.true : Possible(context.true \cup {f}) => Tells(f)

Of(t, act) == {i \in DOMAIN events : events[i].turn = t /\ events[i].action = act}

(* What is recorded of a turn is what happened: never more results than its  *)
(* calls returned, and an answer at most once and whole, never the part an   *)
(* observer had read when it was cut off.  An observer that got to read the  *)
(* done has recorded every result, and the answer if there was any text; one *)
(* that was cancelled with the client's stream, which may end first, or that *)
(* could not store an entry, has missed the rest.                            *)
TurnIsRecorded ==
  LET results == Cardinality(Of(turn, "tool_result"))
      answers == Cardinality(Of(turn, "response"))
  IN  turn > 0 =>
        /\ results <= Cardinality(Told("result")) /\ answers <= 1
        /\ \A i \in Of(turn, "response") : events[i].parts = Cardinality(Told("tokens"))
        /\ watch = "ended" =>
             results = Cardinality(Told("result")) /\ answers = If(Told("tokens") = {}, 0, 1)

(* While there are no more events than its limit, a listing has all events   *)
(* of its session and no others, each once, the newest first.                *)
ListingIsRight ==
  \A s \in Sessions :
    /\ \A k \in DOMAIN Listed(s) : Listed(s)[k].session = s
    /\ Len(events) <= Limit =>
         LET own == {i \in DOMAIN events : events[i].session = s}
         IN  \E place \in [DOMAIN Listed(s) -> own] :
               /\ \A k, l \in DOMAIN place : k < l => place[k] > place[l]
               /\ \A i \in own : \E k \in DOMAIN place : place[k] = i
               /\ \A k \in DOMAIN place : Listed(s)[k] = events[place[k]]
=============================================================================
