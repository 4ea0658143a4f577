---------------------------- MODULE TurnPipeline ----------------------------
(***************************************************************************)
(* mcp_cli/services/session/turn_pipeline.py, with recovery.py,            *)
(* tool_runner.py, the trim() of context_manager.py and the send() of      *)
(* chat.py around it: the turns of one chat, one after the other (its      *)
(* callers hold its lock).  A step ends where the code awaits the model, a *)
(* tool or the verifier; there a turn may also be cancelled or fail.       *)
(*                                                                         *)
(* A message is its role and the number of tool calls it makes.  Token     *)
(* counts are not modelled: a conversation may be over the budget at any   *)
(* length, and is when it is longer than MaxMessages.                      *)
(***************************************************************************)
EXTENDS Naturals, Sequences

CONSTANTS
  MaxIterations,  \* max_tool_iterations
  MaxCorrections, \* MAX_CORRECTION_ATTEMPTS
  MaxBatch,       \* bound: tool calls in one message
  MaxMessages,    \* bound: messages that may fit the token budget
  MaxTurns        \* bound: turns of the chat

ASSUME ConstantsAssumption ==
  /\ MaxIterations \in Nat \ {0} /\ MaxCorrections \in Nat
  /\ MaxBatch \in Nat \ {0} /\ MaxMessages \in Nat \ {0, 1} /\ MaxTurns \in Nat

VARIABLES
  config,      \* what the chat was built with
  messages,    \* the conversation sent to the model
  pc,          \* what the turn is waiting for
  held,        \* what has no timeout: a document the message names, or a person's approval
  iterations, toolUsed, prevToolUsed,    \* of the loop
  recoveryAttempted, correctionAttempts, \* of the RecoveryHandler
  reply,       \* the last message of the model
  left,        \* tool calls of it still to run
  text,        \* the answer on its way through the verifier
  ragContext,  \* was context retrieved?
  turns,       \* turns begun
  calls,       \* history: requests to the model in this turn
  ranTools,    \* history: a tool was run in this turn
  verified,    \* history: the verifier was asked in this turn
  answer,      \* what the last turn returned
  cut,         \* history: a turn was cancelled or failed
  compacted    \* history: messages were trimmed

loopVars == <<iterations, toolUsed, prevToolUsed, recoveryAttempted, correctionAttempts>>
turnVars == <<ragContext, turns, ranTools, verified>>
outcome  == <<answer, cut>>
vars == <<config, messages, pc, held, loopVars, reply, left, text, turnVars, calls, outcome, compacted>>

Configs == [format : BOOLEAN, verifier : BOOLEAN, moderation : BOOLEAN, budget : BOOLEAN]
Texts   == {"none", "reply", "recovered", "revised", "corrected", "stopped", "blocked"}
Roles   == {"system", "user", "assistant", "tool"}
Waits   == {"idle", "retrieve", "loop", "model", "recover", "tools", "verify", "correct"}
Replies == {"none", "calls", "text", "malformed", "empty"}

Least(a, b) == IF a < b THEN a ELSE b

(* Requests that one turn may make: one per iteration, a recovery, a         *)
(* verification and its correction.                                          *)
MaxCalls == MaxIterations + 3

TypeOK ==
  /\ config \in Configs /\ pc \in Waits /\ reply \in Replies /\ text \in Texts
  /\ messages \in Seq([role : Roles, calls : 0..MaxBatch])
  /\ iterations \in 0..MaxIterations + 1
  /\ {held, toolUsed, prevToolUsed, recoveryAttempted, ragContext, ranTools, verified, cut, compacted}
       \subseteq BOOLEAN
  /\ held => pc \in {"retrieve", "tools"}
  /\ correctionAttempts \in 0..MaxCorrections
  /\ left \in 0..MaxBatch /\ (left > 0 <=> pc = "tools")
  /\ turns \in 0..MaxTurns /\ calls \in 0..MaxCalls + 1
  /\ answer \in Texts

Msg(role, n) == [role |-> role, calls |-> n]

Init ==
  /\ config \in Configs
  /\ messages = <<>> /\ pc = "idle" /\ held = FALSE /\ reply = "none" /\ text = "none"
  /\ iterations = 0 /\ toolUsed = FALSE /\ prevToolUsed = FALSE
  /\ recoveryAttempted = FALSE /\ correctionAttempts = 0 /\ left = 0
  /\ ragContext = FALSE /\ turns = 0 /\ calls = 0 /\ ranTools = FALSE /\ verified = FALSE
  /\ answer = "none" /\ cut = FALSE /\ compacted = FALSE

-----------------------------------------------------------------------------
(* send(): a new RecoveryHandler and TurnPipeline, and retrieval begins,     *)
(* with the documents the message names, which their server may never send.  *)
(* Blocked input never gets here and changes nothing.                        *)
Send ==
  /\ pc = "idle" /\ turns < MaxTurns /\ pc' = "retrieve" /\ held' \in BOOLEAN
  /\ turns' = turns + 1
  /\ iterations' = 0 /\ toolUsed' = FALSE /\ prevToolUsed' = FALSE
  /\ recoveryAttempted' = FALSE /\ correctionAttempts' = 0
  /\ calls' = 0 /\ ranTools' = FALSE /\ verified' = FALSE /\ ragContext' = FALSE
  /\ answer' = "none"
  /\ UNCHANGED <<config, messages, reply, left, text, cut, compacted>>

(* The documents come, or what a person was asked is answered.               *)
Released ==
  /\ held /\ held' = FALSE
  /\ UNCHANGED <<config, messages, pc, loopVars, reply, left, text, turnVars, calls, outcome, compacted>>

(* With a PromptBudget, context_budget() calls what is a property, and the   *)
(* exception is taken for a failed retrieval.  Otherwise there may be chunks *)
(* that are similar enough, and what fails is as if there were none.         *)
Retrievals == IF config.budget THEN {FALSE} ELSE BOOLEAN

Retrieved ==
  /\ pc = "retrieve" /\ ~held /\ pc' = "loop"
  /\ ragContext' \in Retrievals
  /\ messages' = Append(messages, Msg("user", 0))
  /\ UNCHANGED <<config, held, loopVars, reply, left, text, turns, ranTools, verified, calls, outcome, compacted>>

(* trim: all of it if it fits; two messages if the tools' schemas leave no   *)
(* room; otherwise a summary and some of the last messages, which are all of *)
(* them only if there are no more than two, shortened.                       *)
LastOnes(m, n) == SubSeq(m, Len(m) - n + 1, Len(m))
Trimmed(m) ==
  (IF Len(m) <= MaxMessages THEN {m} ELSE {})
    \cup (IF Len(m) > 2 THEN {LastOnes(m, 2)} ELSE {})
    \cup {<<Msg("system", 0)>> \o LastOnes(m, n) :
            n \in {k \in 1..Least(Len(m), MaxMessages - 1) : k < Len(m) \/ k <= 2}}

Trim(m) == messages' \in Trimmed(m) /\ compacted' = (compacted \/ messages' # m)

(* Moderation of what a turn returns: a pattern of the filter may match.     *)
Moderated(t) == {t} \cup IF config.moderation THEN {"blocked"} ELSE {}

Return(t) ==
  /\ pc' = "idle" /\ text' = "none"
  /\ answer' \in Moderated(t)
  /\ UNCHANGED cut

OneMore == iterations > MaxIterations  \* mutant

Exhausted == iterations = MaxIterations

(* The top of the loop.                                                      *)
Iterate ==
  /\ pc = "loop"
  /\ iterations' = Least(iterations, MaxIterations) + 1
  /\ prevToolUsed' = toolUsed /\ toolUsed' = FALSE
  /\ Trim(messages)
  /\ IF Exhausted THEN Return("stopped") /\ UNCHANGED calls
                  ELSE /\ pc' = "model" /\ calls' = Least(calls, MaxCalls) + 1
                       /\ UNCHANGED <<text, outcome>>
  /\ UNCHANGED <<config, held, recoveryAttempted, correctionAttempts, reply, left, turnVars>>

-----------------------------------------------------------------------------
(* _finalize_output: the verifier, or moderation at once.                    *)
VerifierWanted == config.verifier /\ (toolUsed \/ ragContext)

Finalize(t) ==
  IF VerifierWanted
  THEN /\ pc' = "verify" /\ text' = t
       /\ calls' = Least(calls, MaxCalls) + 1 /\ verified' = TRUE
       /\ UNCHANGED outcome
  ELSE Return(t) /\ UNCHANGED <<calls, verified>>

(* Only JSON can fail to have the format: what does not parse, as an empty   *)
(* reply, is valid.                                                          *)
Invalid(r) == config.format /\ r = "malformed"

MayRetry == correctionAttempts < MaxCorrections

SameQuestion(r, m) ==  \* mutant
  IF Invalid(r) /\ MayRetry
  THEN /\ correctionAttempts' = correctionAttempts + 1
       /\ messages' = m /\ pc' = "loop"
       /\ UNCHANGED <<text, calls, verified, outcome>>
  ELSE /\ messages' = m /\ Finalize("reply")
       /\ UNCHANGED correctionAttempts

(* An answer without tool calls: it is returned, unless it does not have the *)
(* required format and another try is allowed.                               *)
Conclude(r, m) ==
  IF Invalid(r) /\ MayRetry
  THEN /\ correctionAttempts' = correctionAttempts + 1
       /\ messages' = Append(m, Msg("user", 0)) /\ pc' = "loop"
       /\ UNCHANGED <<text, calls, verified, outcome>>
  ELSE /\ messages' = m /\ Finalize("reply")
       /\ UNCHANGED correctionAttempts

(* What the model may stream: tool calls, or a text, perhaps of no words; a  *)
(* stream that breaks is asked for again as a whole.                         *)
Batches == 1..MaxBatch
Answered == {"text", "empty"} \cup IF config.format THEN {"malformed"} ELSE {}

(* The model calls tools; a person may be asked to approve of the first.     *)
ToolCalls ==
  /\ pc = "model" /\ pc' = "tools" /\ reply' = "calls" /\ held' \in BOOLEAN
  /\ \E n \in Batches :
       /\ messages' = Append(messages, Msg("assistant", n))
       /\ left' = n
  /\ toolUsed' = TRUE /\ ranTools' = TRUE
  /\ UNCHANGED <<config, iterations, prevToolUsed, recoveryAttempted, correctionAttempts, text,
                 ragContext, turns, verified, calls, outcome, compacted>>

(* The model answers.  Nothing at all after tools is a silent failure, which *)
(* is asked about once more, without tools.                                  *)
Silent(r) == prevToolUsed /\ r = "empty" /\ ~recoveryAttempted

Answers ==
  /\ pc = "model"
  /\ reply' \in Answered
  /\ LET m == Append(messages, Msg("assistant", 0)) IN
       IF Silent(reply')
       THEN /\ pc' = "recover" /\ recoveryAttempted' = TRUE
            /\ calls' = Least(calls, MaxCalls) + 1 /\ messages' = m
            /\ UNCHANGED <<correctionAttempts, text, verified, outcome>>
       ELSE /\ Conclude(reply', m)
            /\ recoveryAttempted' = (recoveryAttempted /\ ~prevToolUsed)
  /\ UNCHANGED <<config, held, iterations, toolUsed, prevToolUsed, left, ragContext, turns, ranTools, compacted>>

Recovered ==
  /\ pc = "recover"
  /\ messages' = Append(messages, Msg("assistant", 0))
  /\ Finalize("recovered")
  /\ UNCHANGED <<config, held, loopVars, reply, left, ragContext, turns, ranTools, compacted>>

(* The recovery is empty as well.                                            *)
NotRecovered ==
  /\ pc = "recover" /\ recoveryAttempted' = FALSE
  /\ Conclude("empty", messages)
  /\ UNCHANGED <<config, held, iterations, toolUsed, prevToolUsed, reply, left, ragContext, turns, ranTools, compacted>>

FirstOnly == [i \in 1..1 |-> Msg("tool", 0)]  \* mutant

(* execute_tool_calls: whether a tool answers, fails, times out, is unknown, *)
(* blocked or denied, it has a result; the results join the conversation     *)
(* when there is one for every call.                                         *)
Results == [i \in 1..messages[Len(messages)].calls |-> Msg("tool", 0)]

NoTimeout == pc = "tools" /\ UNCHANGED vars  \* mutant

ToolReturns ==
  /\ pc = "tools" /\ ~held /\ left' = left - 1
  /\ IF left' > 0 THEN held' \in BOOLEAN /\ UNCHANGED <<pc, messages, compacted>>
                  ELSE held' = FALSE /\ pc' = "loop" /\ Trim(messages \o Results)
  /\ UNCHANGED <<config, loopVars, reply, text, turnVars, calls, outcome>>

(* The verifier accepts the answer, or gives a better one; one that fails or *)
(* answers no JSON accepts.                                                  *)
Verdicts == {text, "revised"}

Verdict ==
  /\ pc = "verify"
  /\ \E t \in Verdicts : Return(t)
  /\ UNCHANGED <<config, held, messages, loopVars, reply, left, turnVars, calls, compacted>>

(* The verifier has objections: one more try, if corrections are left.       *)
Objections ==
  /\ pc = "verify" /\ MayRetry
  /\ correctionAttempts' = correctionAttempts + 1
  /\ pc' = "correct" /\ calls' = Least(calls, MaxCalls) + 1
  /\ UNCHANGED <<config, held, messages, iterations, toolUsed, prevToolUsed, recoveryAttempted, reply, left,
                 text, turnVars, outcome, compacted>>

Corrected ==
  /\ pc = "correct"
  /\ \E t \in {text, "corrected"} : Return(t)
  /\ UNCHANGED <<config, held, messages, loopVars, reply, left, turnVars, calls, compacted>>

(* The turn is cancelled, or the model, the history or the usage file fails; *)
(* the conversation stays as it is.  Failures of the verifier and of         *)
(* retrieval are no failures of the turn.                                    *)
CutOff ==
  /\ pc # "idle" /\ pc' = "idle" /\ held' = FALSE
  /\ left' = 0 /\ text' = "none" /\ cut' = TRUE
  /\ UNCHANGED <<config, messages, loopVars, reply, turnVars, calls, answer, compacted>>

Step ==
  \/ Retrieved \/ Iterate \/ ToolCalls \/ Answers \/ Recovered \/ NotRecovered
  \/ ToolReturns \/ Verdict \/ Objections \/ Corrected

Next == Send \/ Step \/ Released \/ CutOff

(* The model and the verifier answer or time out, and so does every tool.    *)
(* Documents and people have no timeout: nothing is assumed of Released.     *)
Spec == Init /\ [][Next]_vars /\ WF_vars(Step)

-----------------------------------------------------------------------------
(* Every tool call the model is shown has all of its results, right after    *)
(* it, and every result its call: without this a provider refuses the        *)
(* request, and every later one.  Trimming and a turn cut off break it.      *)
Complete(m) ==
  /\ \A i \in DOMAIN m : \A j \in 1..m[i].calls : i + j \in DOMAIN m /\ m[i + j].role = "tool"
  /\ \A i \in DOMAIN m : m[i].role = "tool" => \E j \in 1..i - 1 : j + m[j].calls >= i

ConversationComplete == pc \in {"model", "recover"} /\ ~cut /\ ~compacted => Complete(messages)

(* However tool calls, silent failures, retries and corrections mix, a turn  *)
(* makes a bounded number of requests.                                       *)
CallsBounded == calls <= MaxCalls

(* Every request of the loop asks something: it ends with what the user said *)
(* or a tool answered, never with what the model itself said, even after     *)
(* retries, trimming and turns cut off.                                      *)
RequestsAsk == pc = "model" => messages # <<>> /\ messages[Len(messages)].role \in {"user", "tool"}

(* A provider accepts every request: its calls have their results and it     *)
(* asks something; there are not too many; and every state is well typed.    *)
RequestsAccepted == TypeOK /\ ConversationComplete /\ RequestsAsk /\ CallsBounded

(* Every turn ends, unless it waits forever for a document or for a person:  *)
(* no mix of retries, batches and corrections keeps it going.                *)
TurnsEnd == []<>~held => (pc # "idle" ~> pc = "idle")

(* An answer given after using tools was verified: test_verifier_runs_when_  *)
(* tool_used (tests/test_chat_pipeline.py:241).                              *)
ToolAnswersVerified ==
  pc = "idle" /\ config.verifier /\ ranTools /\ answer \in {"reply", "recovered"} => verified
=============================================================================
