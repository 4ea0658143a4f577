------------------------- MODULE TurnPipelineProofs -------------------------
(***************************************************************************)
(* The requests that a turn makes of the model are bounded, and each has   *)
(* the results of all calls, for any limits on iterations and corrections  *)
(* and conversations of any length; what the turns cost is counted, and    *)
(* what a prompt may hold, for any number of records, tokens and chunks;   *)
(* and the terminal shows any answers as they are, and its spinner, picker *)
(* and agents' folders are right, for any turns, models and terminals.     *)
(***************************************************************************)
EXTENDS MCTurns, ListProofs, FiniteSetTheorems, TLAPS

Looping == {"retrieve", "loop", "model", "tools"}

(* In the loop there was one request per iteration; a recovery leads out of  *)
(* it, since an empty reply needs no second try, and so do the verifier and  *)
(* its correction.                                                           *)
CallsInv ==
  /\ pc \in Waits /\ iterations \in Nat /\ calls \in Nat /\ calls <= MaxCalls
  /\ pc # "idle" => iterations <= MaxIterations
  /\ pc \in Looping   => calls = iterations
  /\ pc = "recover"   => calls <= iterations + 1
  /\ pc = "verify"    => calls <= iterations + 2

USE ConstantsAssumption DEF MaxCalls, Least, Looping, Waits

(* Finalizing an answer, from the loop or after a recovery, makes at most    *)
(* one more request and ends the turn or waits for the verifier.             *)
LEMMA FinalizeCalls ==
  ASSUME CallsInv, NEW t, Finalize(t), pc \in {"model", "recover"}
  PROVE  /\ pc' \in {"idle", "verify"} /\ calls' \in Nat
         /\ calls' <= iterations + 2 /\ calls' <= MaxCalls
<1>1. CASE VerifierWanted
  BY <1>1 DEF CallsInv, Finalize
<1>2. CASE ~VerifierWanted
  BY <1>2 DEF CallsInv, Finalize, Return
<1>3. QED
  BY <1>1, <1>2

LEMMA AnswersCalls == ASSUME CallsInv, Answers PROVE CallsInv'
<1> DEFINE m == Append(messages, Msg("assistant", 0))
<1>1. iterations' = iterations /\ pc = "model"
  BY DEF Answers
<1>2. CASE Silent(reply')
  BY <1>1, <1>2 DEF CallsInv, Answers
<1>3. CASE ~Silent(reply')
  <2>1. Conclude(reply', m)
    BY <1>3 DEF Answers
  <2>2. CASE Invalid(reply') /\ MayRetry
    BY <1>1, <2>1, <2>2 DEF CallsInv, Conclude
  <2>3. CASE ~(Invalid(reply') /\ MayRetry)
    <3>1. Finalize("reply")
      BY <2>1, <2>3 DEF Conclude
    <3>2. QED
      BY <1>1, <3>1, FinalizeCalls DEF CallsInv
  <2>4. QED
    BY <2>2, <2>3
<1>4. QED
  BY <1>2, <1>3

LEMMA RecoveryCalls == ASSUME CallsInv, Recovered \/ NotRecovered PROVE CallsInv'
<1>1. iterations' = iterations /\ pc = "recover"
  BY DEF Recovered, NotRecovered, loopVars
<1>2. \E t : Finalize(t)
  <2>1. CASE Recovered
    BY <2>1 DEF Recovered
  <2>2. CASE NotRecovered
    <3>1. ~Invalid("empty")
      BY DEF Invalid
    <3>2. QED
      BY <2>2, <3>1 DEF NotRecovered, Conclude
  <2>3. QED
    BY <2>1, <2>2
<1>3. QED
  BY <1>1, <1>2, FinalizeCalls DEF CallsInv

LEMMA IterateCalls == ASSUME CallsInv, Iterate PROVE CallsInv'
<1>1. CASE Exhausted
  BY <1>1 DEF CallsInv, Iterate, Return
<1>2. CASE ~Exhausted
  BY <1>2 DEF CallsInv, Iterate, Exhausted
<1>3. QED
  BY <1>1, <1>2

LEMMA VerifierCalls == ASSUME CallsInv, Verdict \/ Objections \/ Corrected PROVE CallsInv'
<1>1. CASE Verdict
  BY <1>1 DEF CallsInv, Verdict, Return, loopVars
<1>2. CASE Objections
  BY <1>2 DEF CallsInv, Objections
<1>3. CASE Corrected
  BY <1>3 DEF CallsInv, Corrected, Return, loopVars
<1>4. QED
  BY <1>1, <1>2, <1>3

LEMMA StepCalls == CallsInv /\ [Next]_vars => CallsInv'
<1> SUFFICES ASSUME CallsInv, [Next]_vars PROVE CallsInv'
  OBVIOUS
<1>1. CASE UNCHANGED vars
  BY <1>1 DEF CallsInv, vars, loopVars
<1>2. CASE Send
  BY <1>2 DEF CallsInv, Send
<1>3. CASE Retrieved
  BY <1>3 DEF CallsInv, Retrieved, loopVars
<1>4. CASE ToolCalls
  BY <1>4 DEF CallsInv, ToolCalls
<1>5. CASE ToolReturns
  BY <1>5 DEF CallsInv, ToolReturns, loopVars
<1>6. CASE CutOff
  BY <1>6 DEF CallsInv, CutOff, loopVars
<1>7. CASE Released
  BY <1>7 DEF CallsInv, Released, loopVars
<1>8. QED
  BY <1>1, <1>2, <1>3, <1>4, <1>5, <1>6, <1>7, IterateCalls, AnswersCalls, RecoveryCalls, VerifierCalls
     DEF Next, Step

(* A turn makes at most MaxIterations + 3 requests of the model.             *)
THEOREM CallsTheorem == Spec => []CallsBounded
<1>1. Init => CallsInv
  BY DEF Init, CallsInv
<1>2. CallsInv => CallsBounded
  BY DEF CallsInv, CallsBounded
<1>3. QED
  BY <1>1, <1>2, StepCalls, PTL DEF Spec

-----------------------------------------------------------------------------
(* Conversations: what trimming keeps, and what completes a conversation.    *)
Message == [role : Roles, calls : 0..MaxBatch]
Ending(m, roles) == m # <<>> /\ m[Len(m)].role \in roles

LEMMA MessageTypes ==
  /\ \A role \in Roles : \A n \in 0..MaxBatch : Msg(role, n) \in Message
                                               /\ Msg(role, n).role = role /\ Msg(role, n).calls = n
  /\ 0 \in 0..MaxBatch /\ {"system", "user", "assistant", "tool"} = Roles
BY DEF Msg, Message, Roles

LEMMA LastMessages ==
  ASSUME NEW m \in Seq(Message), NEW n \in 1..Len(m)
  PROVE  LastOnes(m, n) \in Seq(Message) /\ Len(LastOnes(m, n)) = n /\ LastOnes(m, n)[n] = m[Len(m)]
<1>1. Len(m) \in Nat /\ Len(m) - n + 1 \in 1..Len(m)
  OBVIOUS
<1>2. /\ LastOnes(m, n) = SubSeq(m, Len(m) - n + 1, Len(m))
      /\ Len(SubSeq(m, Len(m) - n + 1, Len(m))) = n
      /\ SubSeq(m, Len(m) - n + 1, Len(m))[n] = m[Len(m)]
  BY <1>1 DEF LastOnes
<1>3. SubSeq(m, Len(m) - n + 1, Len(m)) \in Seq(Message)
  BY <1>1
<1> QED
  BY <1>2, <1>3

LEMMA TrimmedKeeps ==
  ASSUME NEW m \in Seq(Message), m # <<>>, NEW q \in Trimmed(m)
  PROVE  q \in Seq(Message) /\ q # <<>> /\ q[Len(q)] = m[Len(m)]
<1>1. Len(m) \in Nat /\ Len(m) >= 1
  OBVIOUS
<1>2. CASE q = m
  BY <1>1, <1>2
<1>3. CASE Len(m) > 2 /\ q = LastOnes(m, 2)
  <2>1. 2 \in 1..Len(m)
    BY <1>1, <1>3
  <2> QED
    BY <1>3, <2>1, LastMessages
<1>4. ASSUME NEW n \in 1..Least(Len(m), MaxMessages - 1), q = <<Msg("system", 0)>> \o LastOnes(m, n)
      PROVE  q \in Seq(Message) /\ q # <<>> /\ q[Len(q)] = m[Len(m)]
  <2>1. n \in 1..Len(m)
    BY <1>1
  <2>2. LastOnes(m, n) \in Seq(Message) /\ Len(LastOnes(m, n)) = n /\ LastOnes(m, n)[n] = m[Len(m)]
    BY <2>1, LastMessages
  <2>3. Msg("system", 0) \in Message
    BY MessageTypes
  <2> DEFINE p == LastOnes(m, n)
             s == Msg("system", 0)
  <2> HIDE DEF p, s
  <2>4. p \in Seq(Message) /\ Len(p) = n /\ p[n] = m[Len(m)] /\ s \in Message /\ q = <<s>> \o p /\ n \in Nat /\ n >= 1
    BY <1>4, <2>1, <2>2, <2>3 DEF p, s
  <2>5. q \in Seq(Message) /\ Len(q) = n + 1 /\ q[n + 1] = p[n]
    BY <2>4
  <2> QED
    BY <2>4, <2>5
<1> QED
  BY <1>2, <1>3, <1>4 DEF Trimmed

LEMMA CompleteAppend ==
  ASSUME NEW m \in Seq(Message), Complete(m), NEW role \in Roles \ {"tool"}
  PROVE  Complete(Append(m, Msg(role, 0)))
<1> DEFINE x == Msg(role, 0)
           p == Append(m, x)
<1>1. x.role # "tool" /\ x.calls = 0 /\ x \in Message
  BY MessageTypes
<1> HIDE DEF x
<1>2. /\ DOMAIN p = 1..Len(m) + 1 /\ p[Len(m) + 1] = x /\ \A i \in 1..Len(m) : p[i] = m[i]
      /\ Len(m) \in Nat /\ DOMAIN m = 1..Len(m)
  BY <1>1
<1> HIDE DEF p
<1>3. ASSUME NEW i \in DOMAIN p, NEW j \in 1..p[i].calls PROVE i + j \in DOMAIN p /\ p[i + j].role = "tool"
  <2>1. i # Len(m) + 1
    BY <1>1, <1>2, <1>3
  <2>2. i \in DOMAIN m /\ p[i] = m[i]
    BY <1>2, <2>1
  <2>3. i + j \in DOMAIN m /\ m[i + j].role = "tool"
    BY <1>3, <2>2 DEF Complete
  <2> QED
    BY <1>2, <2>3
<1>4. ASSUME NEW i \in DOMAIN p, p[i].role = "tool" PROVE \E j \in 1..i - 1 : j + p[j].calls >= i
  <2>1. i # Len(m) + 1
    BY <1>1, <1>2, <1>4
  <2>2. i \in DOMAIN m /\ p[i] = m[i]
    BY <1>2, <2>1
  <2>3. PICK j \in 1..i - 1 : j + m[j].calls >= i
    BY <1>4, <2>2 DEF Complete
  <2>4. j \in 1..Len(m)
    BY <1>2, <2>2
  <2> QED
    BY <1>2, <2>3, <2>4
<1> QED
  BY <1>3, <1>4 DEF Complete, p, x

(* The calls of a message, followed by as many results.                      *)
LEMMA CompleteResults ==
  ASSUME NEW m \in Seq(Message), Complete(m), NEW n \in 1..MaxBatch
  PROVE  Complete(Append(m, Msg("assistant", n)) \o [i \in 1..n |-> Msg("tool", 0)])
<1> DEFINE x == Msg("assistant", n)
           r == Msg("tool", 0)
           s == [i \in 1..n |-> r]
           p == Append(m, x) \o s
<1>1. x.role = "assistant" /\ x.calls = n /\ x \in Message /\ r.role = "tool" /\ r.calls = 0 /\ r \in Message
  <2>1. "assistant" \in Roles /\ "tool" \in Roles /\ n \in 0..MaxBatch /\ 0 \in 0..MaxBatch
    BY DEF Roles
  <2> QED
    BY <2>1, MessageTypes
<1> HIDE DEF x, r
<1>2. s \in Seq(Message) /\ Len(s) = n /\ \A i \in 1..n : s[i] = r
  BY <1>1
<1> HIDE DEF s
<1>3. /\ DOMAIN p = 1..Len(m) + 1 + n /\ p[Len(m) + 1] = x
      /\ \A i \in 1..Len(m) : p[i] = m[i]
      /\ \A i \in Len(m) + 2..Len(m) + 1 + n : p[i] = r
      /\ Len(m) \in Nat /\ DOMAIN m = 1..Len(m) /\ n \in Nat
  BY <1>1, <1>2
<1> HIDE DEF p
<1>4. ASSUME NEW i \in DOMAIN p, NEW j \in 1..p[i].calls PROVE i + j \in DOMAIN p /\ p[i + j].role = "tool"
  <2>1. CASE i \in 1..Len(m)
    <3>1. i \in DOMAIN m /\ j \in 1..m[i].calls
      BY <1>3, <2>1
    <3>2. i + j \in DOMAIN m /\ m[i + j].role = "tool"
      BY <3>1 DEF Complete
    <3> QED
      BY <1>3, <3>2
  <2>2. CASE i = Len(m) + 1
    BY <1>1, <1>3, <2>2
  <2>3. CASE i \in Len(m) + 2..Len(m) + 1 + n
    BY <1>1, <1>3, <2>3
  <2> QED
    BY <1>3, <2>1, <2>2, <2>3
<1>5. ASSUME NEW i \in DOMAIN p, p[i].role = "tool" PROVE \E j \in 1..i - 1 : j + p[j].calls >= i
  <2>1. CASE i \in 1..Len(m)
    <3>1. i \in DOMAIN m /\ m[i].role = "tool"
      BY <1>3, <1>5, <2>1
    <3>2. PICK j \in 1..i - 1 : j + m[j].calls >= i
      BY <3>1 DEF Complete
    <3>3. j \in 1..Len(m)
      BY <1>3, <2>1
    <3> QED
      BY <1>3, <3>2, <3>3
  <2>2. CASE i = Len(m) + 1
    BY <1>1, <1>3, <1>5, <2>2
  <2>3. CASE i \in Len(m) + 2..Len(m) + 1 + n
    <3>1. Len(m) + 1 \in 1..i - 1 /\ Len(m) + 1 + p[Len(m) + 1].calls >= i
      BY <1>1, <1>3, <2>3
    <3> QED
      BY <3>1
  <2> QED
    BY <1>3, <2>1, <2>2, <2>3
<1>6. Complete(p)
  BY <1>4, <1>5 DEF Complete
<1> QED
  BY <1>6 DEF p, s, x, r

-----------------------------------------------------------------------------
(* Types.                                                                    *)
TypeRest ==
  /\ config \in Configs /\ pc \in Waits /\ reply \in Replies /\ text \in Texts
  /\ iterations \in 0..MaxIterations + 1
  /\ toolUsed \in BOOLEAN /\ prevToolUsed \in BOOLEAN /\ recoveryAttempted \in BOOLEAN
  /\ ragContext \in BOOLEAN /\ ranTools \in BOOLEAN /\ verified \in BOOLEAN
  /\ cut \in BOOLEAN /\ compacted \in BOOLEAN
  /\ correctionAttempts \in 0..MaxCorrections
  /\ left \in 0..MaxBatch /\ (left > 0 <=> pc = "tools")
  /\ turns \in 0..MaxTurns /\ calls \in 0..MaxCalls + 1
  /\ answer \in Texts

(* What has no timeout is a document or an approval.                         *)
HeldFits == held \in BOOLEAN /\ (held => pc \in {"retrieve", "tools"})

LEMMA TypeSplit == TypeOK <=> TypeRest /\ HeldFits /\ messages \in Seq(Message)
BY DEF TypeOK, TypeRest, HeldFits, Message

LEMMA HeldKeeps == HeldFits /\ [Next]_vars => HeldFits'
<1> SUFFICES ASSUME HeldFits, [Next]_vars PROVE HeldFits'
  OBVIOUS
<1>1. ASSUME held' = FALSE PROVE HeldFits'
  BY <1>1, Zenon DEF HeldFits
<1>2. ASSUME held' = held, pc \notin {"retrieve", "tools"} PROVE HeldFits'
  BY <1>1, <1>2, Zenon DEF HeldFits
<1>3. ASSUME held' \in BOOLEAN, pc' \in {"retrieve", "tools"} PROVE HeldFits'
  BY <1>3, Zenon DEF HeldFits
<1>4. CASE Send
  BY <1>3, <1>4 DEF Send
<1>5. CASE Retrieved
  <2>1. held' = held /\ ~held
    BY <1>5 DEF Retrieved
  <2> QED
    BY <1>1, <2>1, Zenon DEF HeldFits
<1>6. CASE Iterate \/ Answers \/ Recovered \/ NotRecovered \/ Verdict \/ Objections \/ Corrected
  <2>1. held' = held /\ pc \in {"loop", "model", "recover", "verify", "correct"}
    BY <1>6 DEF Iterate, Answers, Recovered, NotRecovered, Verdict, Objections, Corrected
  <2> QED
    BY <1>2, <2>1
<1>7. CASE ToolCalls
  BY <1>3, <1>7 DEF ToolCalls
<1>8. CASE ToolReturns
  <2>1. CASE left' > 0
    BY <1>3, <1>8, <2>1 DEF ToolReturns
  <2>2. CASE ~(left' > 0)
    BY <1>1, <1>8, <2>2 DEF ToolReturns
  <2> QED
    BY <2>1, <2>2
<1>9. CASE Released \/ CutOff
  BY <1>1, <1>9 DEF Released, CutOff
<1>10. CASE UNCHANGED vars
  BY <1>10 DEF HeldFits, vars
<1> QED
  BY <1>4, <1>5, <1>6, <1>7, <1>8, <1>9, <1>10 DEF Next, Step

LEMMA ReturnTypes ==
  ASSUME NEW t \in Texts, Return(t), TypeRest
  PROVE  pc' = "idle" /\ text' \in Texts /\ answer' \in Texts /\ cut' \in BOOLEAN
BY DEF Return, Moderated, Texts, TypeRest

LEMMA FinalizeTypes ==
  ASSUME NEW t \in Texts, Finalize(t), TypeRest
  PROVE  /\ pc' \in {"idle", "verify"} /\ text' \in Texts /\ answer' \in Texts /\ cut' \in BOOLEAN
         /\ calls' \in 0..MaxCalls + 1 /\ verified' \in BOOLEAN
<1>1. CASE VerifierWanted
  BY <1>1 DEF Finalize, TypeRest, outcome
<1>2. CASE ~VerifierWanted
  BY <1>2, ReturnTypes DEF Finalize, TypeRest
<1> QED
  BY <1>1, <1>2

LEMMA ConcludeTypes ==
  ASSUME NEW r, NEW m \in Seq(Message), Conclude(r, m), TypeRest
  PROVE  /\ pc' \in {"loop", "idle", "verify"} /\ text' \in Texts /\ answer' \in Texts /\ cut' \in BOOLEAN
         /\ calls' \in 0..MaxCalls + 1 /\ verified' \in BOOLEAN /\ correctionAttempts' \in 0..MaxCorrections
         /\ messages' = m \/ (pc' = "loop" /\ messages' = Append(m, Msg("user", 0)))
         /\ pc' = "loop" => messages' = Append(m, Msg("user", 0))
<1>1. CASE Invalid(r) /\ MayRetry
  BY <1>1 DEF Conclude, MayRetry, outcome, TypeRest
<1>2. CASE ~(Invalid(r) /\ MayRetry)
  <2>1. messages' = m /\ Finalize("reply") /\ UNCHANGED correctionAttempts /\ "reply" \in Texts
    BY <1>2 DEF Conclude, Texts
  <2> QED
    BY <2>1, FinalizeTypes DEF TypeRest
<1> QED
  BY <1>1, <1>2

LEMMA TypeRestStep ==
  ASSUME TypeRest, messages \in Seq(Message), [Next]_vars
  PROVE  TypeRest'
<1>0. Append(messages, Msg("assistant", 0)) \in Seq(Message)
  <2>1. "assistant" \in Roles /\ 0 \in 0..MaxBatch
    BY DEF Roles
  <2>2. Msg("assistant", 0) \in Message
    BY <2>1, MessageTypes
  <2> HIDE DEF Message
  <2> QED
    BY <2>2
<1>1. CASE Send
  <2>1. "none" \in Texts /\ 0 \in 0..MaxIterations + 1 /\ 0 \in 0..MaxCorrections /\ 0 \in 0..MaxCalls + 1
    BY DEF Texts
  <2>2. turns' \in 0..MaxTurns
    BY <1>1 DEF Send, TypeRest
  <2> QED
    BY <1>1, <2>1, <2>2 DEF Send, TypeRest
<1>2. CASE Retrieved
  BY <1>2 DEF Retrieved, Retrievals, TypeRest, loopVars, outcome
<1>3. CASE Iterate
  <2>1. compacted' \in BOOLEAN
    BY <1>3 DEF Iterate, Trim, TypeRest
  <2>2. CASE Exhausted
    <3>1. Return("stopped") /\ UNCHANGED <<config, recoveryAttempted, correctionAttempts, reply, left, turnVars, calls>>
      BY <1>3, <2>2 DEF Iterate
    <3>2. "stopped" \in Texts
      BY DEF Texts
    <3>3. pc' = "idle" /\ text' \in Texts /\ answer' \in Texts /\ cut' \in BOOLEAN
      BY <3>1, <3>2, ReturnTypes
    <3>4. iterations' \in 0..MaxIterations + 1 /\ prevToolUsed' = toolUsed /\ toolUsed' = FALSE /\ pc = "loop"
      BY <1>3 DEF Iterate, TypeRest
    <3> QED
      BY <2>1, <3>1, <3>3, <3>4 DEF turnVars, TypeRest
  <2>3. CASE ~Exhausted
    <3>1. /\ UNCHANGED <<config, recoveryAttempted, correctionAttempts, reply, left, turnVars, text, outcome>>
          /\ pc' = "model" /\ calls' = Least(calls, MaxCalls) + 1
      BY <1>3, <2>3 DEF Iterate
    <3>2. iterations' \in 0..MaxIterations + 1 /\ prevToolUsed' = toolUsed /\ toolUsed' = FALSE /\ pc = "loop"
      BY <1>3 DEF Iterate, TypeRest
    <3>3. calls' \in 0..MaxCalls + 1
      BY <3>1 DEF TypeRest
    <3> QED
      BY <2>1, <3>1, <3>2, <3>3 DEF turnVars, outcome, TypeRest
  <2> QED
    BY <2>2, <2>3
<1>4. CASE ToolCalls
  BY <1>4 DEF ToolCalls, Batches, TypeRest, Replies, outcome
<1>5. CASE Answers
  <2>1. reply' \in Replies /\ pc = "model" /\ UNCHANGED <<config, iterations, toolUsed, prevToolUsed, left, ragContext, turns, ranTools, compacted>>
    BY <1>5 DEF Answers, Answered, Replies
  <2>2. CASE Silent(reply')
    BY <1>5, <2>1, <2>2 DEF Answers, outcome, TypeRest
  <2>3. CASE ~Silent(reply')
    <3>1. Conclude(reply', Append(messages, Msg("assistant", 0))) /\ recoveryAttempted' = (recoveryAttempted /\ ~prevToolUsed)
      BY <1>5, <2>3 DEF Answers
    <3> QED
      BY <1>0, <2>1, <3>1, ConcludeTypes DEF TypeRest
  <2> QED
    BY <2>2, <2>3
<1>6. CASE Recovered
  <2>1. Finalize("recovered") /\ "recovered" \in Texts
    BY <1>6 DEF Recovered, Texts
  <2> QED
    BY <1>6, <2>1, FinalizeTypes DEF Recovered, loopVars, TypeRest
<1>7. CASE NotRecovered
  <2>1. Conclude("empty", messages)
    BY <1>7 DEF NotRecovered
  <2> QED
    BY <1>7, <2>1, ConcludeTypes DEF NotRecovered, TypeRest
<1>8. CASE ToolReturns
  <2>1. compacted' \in BOOLEAN
    BY <1>8 DEF ToolReturns, Trim, TypeRest
  <2> QED
    BY <1>8, <2>1 DEF ToolReturns, loopVars, turnVars, outcome, TypeRest
<1>9. CASE Verdict
  <2>1. PICK t \in Verdicts : Return(t)
    BY <1>9 DEF Verdict
  <2>2. t \in Texts
    BY DEF Verdicts, Texts, TypeRest
  <2> QED
    BY <1>9, <2>1, <2>2, ReturnTypes DEF Verdict, loopVars, turnVars, TypeRest
<1>10. CASE Objections
  BY <1>10 DEF Objections, MayRetry, turnVars, outcome, TypeRest
<1>11. CASE Corrected
  <2>1. PICK t \in {text, "corrected"} : Return(t)
    BY <1>11 DEF Corrected
  <2>2. t \in Texts
    BY DEF Texts, TypeRest
  <2> QED
    BY <1>11, <2>1, <2>2, ReturnTypes DEF Corrected, loopVars, turnVars, TypeRest
<1>12. CASE CutOff
  BY <1>12 DEF CutOff, loopVars, turnVars, TypeRest, Texts
<1>13. CASE UNCHANGED vars
  BY <1>13 DEF vars, loopVars, turnVars, outcome, TypeRest
<1>14. CASE Released
  BY <1>14 DEF Released, loopVars, turnVars, outcome, TypeRest
<1> QED
  BY <1>1, <1>2, <1>3, <1>4, <1>5, <1>6, <1>7, <1>8, <1>9, <1>10, <1>11, <1>12, <1>13, <1>14 DEF Next, Step

-----------------------------------------------------------------------------
(* The conversation when a request is made of it: its last message asks      *)
(* something, and while tools are run it ends with the calls they answer.    *)
RequestInv ==
  /\ pc \in {"loop", "model"} => Ending(messages, {"user", "tool"})
  /\ pc = "tools" => \E m \in Seq(Message), n \in 1..MaxBatch :
       messages = Append(m, Msg("assistant", n)) /\ (~cut /\ ~compacted => Complete(m))
  /\ pc # "tools" /\ ~cut /\ ~compacted => Complete(messages)

ConversationInv == TypeRest /\ messages \in Seq(Message) /\ RequestInv

LEMMA TrimKeeps ==
  ASSUME NEW m \in Seq(Message), m # <<>>, Trim(m)
  PROVE  /\ messages' \in Seq(Message) /\ messages' # <<>> /\ messages'[Len(messages')] = m[Len(m)]
         /\ ~compacted' => ~compacted /\ messages' = m
BY TrimmedKeeps DEF Trim

(* Appending a message of the user or the model that calls no tool.          *)
LEMMA AppendKeeps ==
  ASSUME NEW m \in Seq(Message), NEW role \in {"user", "assistant"}
  PROVE  /\ Append(m, Msg(role, 0)) \in Seq(Message)
         /\ Append(m, Msg(role, 0)) # <<>>
         /\ Append(m, Msg(role, 0))[Len(Append(m, Msg(role, 0)))].role = role
         /\ Complete(m) => Complete(Append(m, Msg(role, 0)))
<1>1. role \in Roles \ {"tool"} /\ 0 \in 0..MaxBatch
  BY DEF Roles
<1>2. Msg(role, 0) \in Message /\ Msg(role, 0).role = role
  BY <1>1, MessageTypes
<1> DEFINE x == Msg(role, 0)
<1> HIDE DEF x, Message
<1>3. x \in Message /\ x.role = role
  BY <1>2 DEF x
<1>4. Append(m, x) \in Seq(Message) /\ Len(Append(m, x)) = Len(m) + 1 /\ Append(m, x)[Len(m) + 1] = x /\ Append(m, x) # <<>>
  BY <1>3
<1>5. Complete(m) => Complete(Append(m, x))
  BY <1>1, CompleteAppend DEF x
<1> QED
  BY <1>3, <1>4, <1>5 DEF x

LEMMA ConcludeKeeps ==
  ASSUME NEW r, NEW m \in Seq(Message), Conclude(r, m), TypeRest, ~cut /\ ~compacted => Complete(m),
         compacted' = compacted
  PROVE  messages' \in Seq(Message) /\ RequestInv'
<1>1. /\ pc' \in {"loop", "idle", "verify"} /\ cut' = cut
      /\ messages' = m \/ (pc' = "loop" /\ messages' = Append(m, Msg("user", 0)))
      /\ pc' = "loop" => messages' = Append(m, Msg("user", 0))
  <2>1. UNCHANGED cut
    BY DEF Conclude, Finalize, Return, outcome
  <2> QED
    BY <2>1, ConcludeTypes
<1>2. /\ Append(m, Msg("user", 0)) \in Seq(Message) /\ Ending(Append(m, Msg("user", 0)), {"user", "tool"})
      /\ Complete(m) => Complete(Append(m, Msg("user", 0)))
  BY AppendKeeps DEF Ending
<1> QED
  BY <1>1, <1>2 DEF RequestInv

LEMMA ConversationStep ==
  ASSUME ConversationInv, [Next]_vars
  PROVE  messages' \in Seq(Message) /\ RequestInv'
<1>0. TypeRest /\ messages \in Seq(Message) /\ RequestInv /\ TypeRest'
  BY TypeRestStep DEF ConversationInv
<1>a. ASSUME messages' = messages, pc' \notin {"loop", "model", "tools"}, pc # "tools" \/ cut', cut' = cut \/ cut', compacted' = compacted,
             cut => cut'
      PROVE  messages' \in Seq(Message) /\ RequestInv'
  BY <1>0, <1>a DEF RequestInv
<1>1. CASE Send \/ CutOff \/ Verdict \/ Objections \/ Corrected
  <2>1. CASE Send
    BY <1>a, <2>1 DEF Send
  <2>2. CASE CutOff
    BY <1>0, <1>a, <2>2 DEF CutOff, RequestInv
  <2>3. CASE Verdict
    BY <1>a, <2>3 DEF Verdict, Return
  <2>4. CASE Objections
    BY <1>a, <2>4 DEF Objections, outcome
  <2>5. CASE Corrected
    BY <1>a, <2>5 DEF Corrected, Return
  <2> QED
    BY <1>1, <2>1, <2>2, <2>3, <2>4, <2>5
<1>2. CASE Retrieved
  <2>1. /\ pc = "retrieve" /\ pc' = "loop" /\ messages' = Append(messages, Msg("user", 0))
        /\ cut' = cut /\ compacted' = compacted
    BY <1>2 DEF Retrieved, outcome
  <2>2. /\ Append(messages, Msg("user", 0)) \in Seq(Message) /\ Ending(Append(messages, Msg("user", 0)), {"user", "tool"})
        /\ Complete(messages) => Complete(Append(messages, Msg("user", 0)))
    BY <1>0, AppendKeeps DEF Ending
  <2> QED
    BY <1>0, <2>1, <2>2 DEF RequestInv
<1>3. CASE Iterate
  <2>1. pc = "loop" /\ pc' \in {"idle", "model"} /\ Trim(messages) /\ cut' = cut
    BY <1>3 DEF Iterate, Return, outcome
  <2>2. Ending(messages, {"user", "tool"})
    BY <1>0, <2>1 DEF RequestInv
  <2>3. messages # <<>>
    BY <2>2 DEF Ending
  <2>4. /\ messages' \in Seq(Message) /\ messages' # <<>> /\ messages'[Len(messages')] = messages[Len(messages)]
        /\ ~compacted' => ~compacted /\ messages' = messages
    BY <1>0, <2>1, <2>3, TrimKeeps
  <2>5. Ending(messages', {"user", "tool"})
    BY <2>2, <2>4 DEF Ending
  <2> QED
    BY <1>0, <2>1, <2>4, <2>5 DEF RequestInv
<1>4. CASE ToolCalls
  <2>1. pc = "model" /\ pc' = "tools" /\ cut' = cut /\ compacted' = compacted
    BY <1>4 DEF ToolCalls, outcome
  <2>2. PICK n \in 1..MaxBatch : messages' = Append(messages, Msg("assistant", n))
    BY <1>4 DEF ToolCalls, Batches
  <2>3. Msg("assistant", n) \in Message
    <3>1. "assistant" \in Roles /\ n \in 0..MaxBatch
      BY DEF Roles
    <3> QED
      BY <3>1, MessageTypes
  <2>4. messages' \in Seq(Message)
    BY <1>0, <2>2, <2>3
  <2> QED
    BY <1>0, <2>1, <2>2, <2>4 DEF RequestInv
<1>5. CASE Answers
  <2> DEFINE m == Append(messages, Msg("assistant", 0))
  <2>1. pc = "model" /\ compacted' = compacted
    BY <1>5 DEF Answers
  <2>2. m \in Seq(Message) /\ (~cut /\ ~compacted => Complete(m))
    BY <1>0, <2>1, AppendKeeps DEF RequestInv
  <2>3. CASE Silent(reply')
    <3>1. messages' = m /\ pc' = "recover" /\ cut' = cut
      BY <1>5, <2>3 DEF Answers, outcome
    <3> HIDE DEF m
    <3> QED
      BY <2>1, <2>2, <3>1 DEF RequestInv
  <2>4. CASE ~Silent(reply')
    <3>1. Conclude(reply', m)
      BY <1>5, <2>4 DEF Answers
    <3> HIDE DEF m
    <3> QED
      BY <1>0, <2>1, <2>2, <3>1, ConcludeKeeps
  <2> QED
    BY <2>3, <2>4
<1>6. CASE Recovered
  <2>1. /\ messages' = Append(messages, Msg("assistant", 0)) /\ pc = "recover" /\ compacted' = compacted
        /\ Finalize("recovered") /\ "recovered" \in Texts
    BY <1>6 DEF Recovered, Texts
  <2>2. pc' \in {"idle", "verify"} /\ cut' = cut
    BY <2>1 DEF Finalize, Return, outcome
  <2>3. /\ messages' \in Seq(Message)
        /\ Complete(messages) => Complete(messages')
    BY <1>0, <2>1, AppendKeeps
  <2> QED
    BY <1>0, <2>1, <2>2, <2>3 DEF RequestInv
<1>7. CASE NotRecovered
  <2>1. Conclude("empty", messages) /\ pc = "recover" /\ compacted' = compacted
    BY <1>7 DEF NotRecovered
  <2> QED
    BY <1>0, <2>1, ConcludeKeeps DEF RequestInv
<1>8. CASE ToolReturns
  <2>1. pc = "tools" /\ left' = left - 1 /\ cut' = cut
    BY <1>8 DEF ToolReturns, outcome
  <2>2. PICK m \in Seq(Message), n \in 1..MaxBatch :
          messages = Append(m, Msg("assistant", n)) /\ (~cut /\ ~compacted => Complete(m))
    BY <1>0, <2>1 DEF RequestInv
  <2>3. CASE left' > 0
    <3>1. UNCHANGED <<pc, messages, compacted>>
      BY <1>8, <2>3 DEF ToolReturns
    <3> QED
      BY <1>0, <2>1, <2>2, <3>1 DEF RequestInv
  <2>4. CASE ~(left' > 0)
    <3> DEFINE s == [i \in 1..n |-> Msg("tool", 0)]
               q == messages \o s
    <3>1. Results = s
      <4>1. "assistant" \in Roles /\ n \in 0..MaxBatch
        BY DEF Roles
      <4>2. Msg("assistant", n) \in Message /\ Msg("assistant", n).calls = n
        BY <4>1, MessageTypes
      <4> DEFINE x == Msg("assistant", n)
      <4> HIDE DEF x, Message
      <4>3. Append(m, x)[Len(Append(m, x))] = x
        BY <4>2 DEF x
      <4>4. messages[Len(messages)].calls = n
        BY <2>2, <4>2, <4>3 DEF x
      <4> QED
        BY <4>4 DEF Results
    <3>2. pc' = "loop" /\ Trim(q)
      BY <1>8, <2>4, <3>1 DEF ToolReturns
    <3>3. Msg("tool", 0) \in Message /\ Msg("tool", 0).role = "tool"
      <4>1. "tool" \in Roles /\ 0 \in 0..MaxBatch
        BY DEF Roles
      <4> QED
        BY <4>1, MessageTypes
    <3>4. s \in Seq(Message) /\ Len(s) = n /\ s[n].role = "tool"
      <4> DEFINE r == Msg("tool", 0)
      <4>1. r \in Message /\ r.role = "tool"
        BY <3>3
      <4> HIDE DEF r, Message
      <4>2. [i \in 1..n |-> r] \in Seq(Message) /\ Len([i \in 1..n |-> r]) = n /\ [i \in 1..n |-> r][n] = r
        BY <4>1
      <4> QED
        BY <4>1, <4>2 DEF r
    <3>5. ~cut /\ ~compacted => Complete(q)
      BY <2>2, CompleteResults
    <3> HIDE DEF s, Message
    <3>6. q \in Seq(Message) /\ Len(q) = Len(messages) + n /\ q[Len(messages) + n] = s[n] /\ q # <<>>
      BY <1>0, <3>4
    <3>7. q[Len(q)].role = "tool"
      BY <3>4, <3>6
    <3> HIDE DEF q
    <3>8. /\ messages' \in Seq(Message) /\ messages' # <<>> /\ messages'[Len(messages')] = q[Len(q)]
          /\ ~compacted' => ~compacted /\ messages' = q
      BY <3>2, <3>6, TrimKeeps
    <3>9. Ending(messages', {"user", "tool"})
      BY <3>7, <3>8 DEF Ending
    <3> QED
      BY <2>1, <3>2, <3>5, <3>8, <3>9 DEF RequestInv
  <2> QED
    BY <2>3, <2>4
<1>9. CASE UNCHANGED vars
  BY <1>0, <1>9 DEF vars, outcome, RequestInv
<1>10. CASE Released
  BY <1>0, <1>10 DEF Released, outcome, RequestInv
<1> QED
  BY <1>1, <1>2, <1>3, <1>4, <1>5, <1>6, <1>7, <1>8, <1>9, <1>10 DEF Next, Step

(* A provider accepts every request that a turn makes: tool calls have all   *)
(* of their results unless the turn was cut off or messages were trimmed,    *)
(* the last message always asks something, and requests are bounded.         *)
THEOREM RequestsTheorem == Spec => []RequestsAccepted
<1>0. Init => HeldFits
  BY Zenon DEF Init, HeldFits
<1>1. Init => ConversationInv /\ CallsInv
  <2>1. SUFFICES ASSUME Init PROVE ConversationInv /\ CallsInv
    OBVIOUS
  <2>2. TypeRest
    <3>1. "none" \in Texts /\ "none" \in Replies /\ 0 \in 0..MaxIterations + 1 /\ 0 \in 0..MaxCorrections
          /\ 0 \in 0..MaxCalls + 1 /\ 0 \in 0..MaxBatch /\ 0 \in 0..MaxTurns
      BY DEF Texts, Replies
    <3>2. /\ config \in Configs /\ reply = "none" /\ text = "none" /\ answer = "none" /\ pc = "idle" /\ iterations = 0
          /\ correctionAttempts = 0 /\ left = 0 /\ turns = 0 /\ calls = 0
      BY <2>1 DEF Init
    <3>3. /\ toolUsed = FALSE /\ prevToolUsed = FALSE /\ recoveryAttempted = FALSE /\ ragContext = FALSE
          /\ ranTools = FALSE /\ verified = FALSE /\ cut = FALSE /\ compacted = FALSE
      BY <2>1 DEF Init
    <3>4. /\ toolUsed \in BOOLEAN /\ prevToolUsed \in BOOLEAN /\ recoveryAttempted \in BOOLEAN
          /\ ragContext \in BOOLEAN /\ ranTools \in BOOLEAN /\ verified \in BOOLEAN
          /\ cut \in BOOLEAN /\ compacted \in BOOLEAN
      BY <3>3
    <3> QED
      BY <3>1, <3>2, <3>4 DEF TypeRest
  <2>3. messages \in Seq(Message) /\ messages = <<>> /\ pc = "idle"
    BY <2>1 DEF Init
  <2>4. Complete(<<>>)
    BY DEF Complete
  <2> QED
    BY <2>1, <2>2, <2>3, <2>4 DEF ConversationInv, RequestInv, CallsInv, Init
<1>2. ConversationInv /\ [Next]_vars => ConversationInv'
  BY ConversationStep, TypeRestStep DEF ConversationInv
<1>3. ConversationInv /\ CallsInv /\ HeldFits => RequestsAccepted
  BY TypeSplit DEF ConversationInv, RequestInv, CallsInv, RequestsAccepted, ConversationComplete, RequestsAsk,
                   CallsBounded, Ending
<1> QED
  BY <1>0, <1>1, <1>2, <1>3, StepCalls, HeldKeeps, PTL DEF Spec

HIDE ConstantsAssumption DEF MaxCalls, Least, Looping, Waits

-----------------------------------------------------------------------------
(* What the calls of a set cost together: one call more adds its cost, and a *)
(* larger set costs no less.                                                 *)
Costs == [Ids -> [Sides -> 0..MaxTokens]]

RunsUp(up, t, rs, s) ==
  /\ up \in [0..Records -> Nat] /\ up[0] = 0
  /\ \A i \in Ids : up[i] = IF i \in rs THEN up[i - 1] + t[i][s] ELSE up[i - 1]

LEMMA CostIs == ASSUME NEW t \in Costs, NEW s \in Sides, NEW i \in Ids PROVE t[i][s] \in Nat /\ t[i][s] \in 0..MaxTokens
BY UsageAssumption DEF Costs

LEMMA IdsAre == Records \in Nat /\ Ids = 1..Records /\ MaxTokens \in Nat
BY UsageAssumption DEF Ids

LEMMA AddedRuns ==
  ASSUME NEW t \in Costs, NEW s \in Sides, NEW rs
  PROVE  \E up : RunsUp(up, t, rs, s) /\ Added(t, rs, s) = up[Records]
<1> DEFINE n == Records
           Is(h) == h = [i \in 0..n |-> IF i = 0 THEN 0 ELSE IF i \in rs THEN h[i - 1] + t[i][s] ELSE h[i - 1]]
<1>1. n \in Nat /\ \A i \in 1..n : t[i][s] \in Nat
  BY IdsAre, CostIs
<1>2. Added(t, rs, s) = (CHOOSE h : Is(h))[n]
  BY DEF Added
<1>0. Ids = 1..n
  BY IdsAre
<1> HIDE DEF n
<1>3. PICK adds : \A i \in 1..n, q \in Nat : adds[i][q] = IF i \in rs THEN q + t[i][s] ELSE q
  <2> DEFINE adds == [i \in 1..n |-> [q \in Nat |-> IF i \in rs THEN q + t[i][s] ELSE q]]
  <2>1. \A i \in 1..n, q \in Nat : adds[i][q] = IF i \in rs THEN q + t[i][s] ELSE q
    OBVIOUS
  <2> HIDE DEF adds
  <2> QED
    BY <2>1
<1>4. PICK f : Unfolds(f, adds, n, Nat, 0)
  <2>1. ASSUME NEW i \in 1..n, NEW q \in Nat PROVE adds[i][q] \in Nat
    BY <1>1, <1>3
  <2>2. StepsWithin(adds, n, Nat)
    BY <2>1 DEF StepsWithin
  <2> QED
    BY <1>1, <2>2, RecursionExists
<1>5. ASSUME NEW i \in 1..n
      PROVE  f[i] = IF i \in rs THEN f[i - 1] + t[i][s] ELSE f[i - 1]
  <2>1. i - 1 \in 0..n
    BY <1>1
  <2>2. f[i - 1] \in Nat
    BY <1>4, <2>1 DEF Unfolds
  <2> QED
    BY <1>3, <1>4, <2>2 DEF Unfolds
<1>6. Is(f)
  <2>1. ASSUME NEW i \in 0..n
        PROVE  f[i] = IF i = 0 THEN 0 ELSE IF i \in rs THEN f[i - 1] + t[i][s] ELSE f[i - 1]
    <3>1. i = 0 \/ i \in 1..n
      BY <1>1
    <3> QED
      BY <1>4, <1>5, <3>1 DEF Unfolds
  <2>2. f = [i \in 0..n |-> f[i]]
    BY <1>4 DEF Unfolds
  <2> QED
    BY <2>1, <2>2
<1>7. Is(CHOOSE h : Is(h))
  BY <1>6
<1> DEFINE g == CHOOSE h : Is(h)
<1>8. \A i \in 0..n : g[i] = IF i = 0 THEN 0 ELSE IF i \in rs THEN g[i - 1] + t[i][s] ELSE g[i - 1]
  BY <1>7
<1> HIDE DEF g
<1>9. \A i \in 0..n : g[i] = f[i]
  <2> DEFINE holds == {i \in 0..n : g[i] = f[i]}
  <2>1. 0 \in holds
    BY <1>1, <1>4, <1>8 DEF Unfolds
  <2>2. ASSUME NEW i \in 1..n, i - 1 \in holds PROVE i \in holds
    <3>1. g[i - 1] = f[i - 1] /\ i \in 0..n /\ i # 0
      BY <1>1, <2>2
    <3> QED
      BY <1>5, <1>8, <3>1
  <2> HIDE DEF holds
  <2>3. \A i \in 0..n : i \in holds
    BY <1>1, <2>1, <2>2, CountingUp
  <2> QED
    BY <2>3 DEF holds
<1>10. Added(t, rs, s) = f[n]
  <2>1. g[n] = f[n]
    BY <1>1, <1>9
  <2> QED
    BY <1>2, <2>1 DEF g
<1>11. RunsUp(f, t, rs, s)
  BY <1>0, <1>4, <1>5 DEF n, Unfolds, RunsUp
<1> QED
  BY <1>10, <1>11 DEF n

LEMMA AddedNat == ASSUME NEW t \in Costs, NEW s \in Sides, NEW rs PROVE Added(t, rs, s) \in Nat
<1>1. PICK up : RunsUp(up, t, rs, s) /\ Added(t, rs, s) = up[Records]
  BY AddedRuns
<1> QED
  BY <1>1, IdsAre DEF RunsUp

LEMMA AddedNone == ASSUME NEW t \in Costs, NEW s \in Sides PROVE Added(t, {}, s) = 0
<1>1. PICK up : RunsUp(up, t, {}, s) /\ Added(t, {}, s) = up[Records]
  BY AddedRuns
<1> DEFINE holds == {i \in 0..Records : up[i] = 0}
<1>2. 0 \in holds
  BY <1>1, IdsAre DEF RunsUp
<1>3. ASSUME NEW i \in 1..Records, i - 1 \in holds PROVE i \in holds
  BY <1>1, <1>3, IdsAre DEF RunsUp
<1> HIDE DEF holds
<1>4. \A i \in 0..Records : i \in holds
  BY <1>2, <1>3, IdsAre, CountingUp
<1> QED
  BY <1>1, <1>4, IdsAre DEF holds

LEMMA AddedLess ==
  ASSUME NEW t \in Costs, NEW s \in Sides, NEW rs, NEW qs, rs \subseteq qs
  PROVE  Added(t, rs, s) <= Added(t, qs, s)
<1>1. PICK up : RunsUp(up, t, rs, s) /\ Added(t, rs, s) = up[Records]
  BY AddedRuns
<1>2. PICK vp : RunsUp(vp, t, qs, s) /\ Added(t, qs, s) = vp[Records]
  BY AddedRuns
<1> DEFINE holds == {i \in 0..Records : up[i] <= vp[i]}
<1>3. 0 \in holds
  BY <1>1, <1>2, IdsAre DEF RunsUp
<1>4. ASSUME NEW i \in 1..Records, i - 1 \in holds PROVE i \in holds
  <2>1. /\ up[i] = (IF i \in rs THEN up[i - 1] + t[i][s] ELSE up[i - 1])
        /\ i - 1 \in 0..Records /\ i \in 0..Records /\ up \in [0..Records -> Nat]
    BY <1>1, IdsAre DEF RunsUp
  <2>4. /\ vp[i] = (IF i \in qs THEN vp[i - 1] + t[i][s] ELSE vp[i - 1])
        /\ vp \in [0..Records -> Nat]
    BY <1>2, IdsAre DEF RunsUp
  <2>0. up[i - 1] <= vp[i - 1]
    BY <1>4
  <2>2. up[i - 1] \in Nat /\ vp[i - 1] \in Nat /\ t[i][s] \in Nat
    BY <2>1, <2>4, IdsAre, CostIs
  <2>3. up[i] <= vp[i]
    BY <2>0, <2>1, <2>2, <2>4
  <2> QED
    BY <2>1, <2>3
<1> HIDE DEF holds
<1>5. \A i \in 0..Records : i \in holds
  BY <1>3, <1>4, IdsAre, CountingUp
<1>6. Records \in holds
  BY <1>5, IdsAre
<1> QED
  BY <1>1, <1>2, <1>6 DEF holds

LEMMA AddedMore ==
  ASSUME NEW t \in Costs, NEW s \in Sides, NEW rs, NEW r \in Ids, r \notin rs
  PROVE  Added(t, rs \cup {r}, s) = Added(t, rs, s) + t[r][s]
<1>1. PICK up : RunsUp(up, t, rs, s) /\ Added(t, rs, s) = up[Records]
  BY AddedRuns
<1>2. PICK vp : RunsUp(vp, t, rs \cup {r}, s) /\ Added(t, rs \cup {r}, s) = vp[Records]
  BY AddedRuns
<1> DEFINE holds == {i \in 0..Records : vp[i] = IF i < r THEN up[i] ELSE up[i] + t[r][s]}
<1>3. 0 \in holds
  BY <1>1, <1>2, IdsAre DEF RunsUp
<1>4. ASSUME NEW i \in 1..Records, i - 1 \in holds PROVE i \in holds
  <2>1. i \in Ids /\ i - 1 \in 0..Records /\ i \in 0..Records
    BY IdsAre
  <2>2. /\ up[i] = (IF i \in rs THEN up[i - 1] + t[i][s] ELSE up[i - 1])
        /\ up \in [0..Records -> Nat]
    BY <1>1, <2>1 DEF RunsUp
  <2>3. /\ vp[i] = (IF i \in rs \cup {r} THEN vp[i - 1] + t[i][s] ELSE vp[i - 1])
        /\ vp \in [0..Records -> Nat]
    BY <1>2, <2>1 DEF RunsUp
  <2>4. vp[i - 1] = (IF i - 1 < r THEN up[i - 1] ELSE up[i - 1] + t[r][s])
    BY <1>4
  <2>5. up[i - 1] \in Nat /\ vp[i - 1] \in Nat
    BY <2>1, <2>2, <2>3
  <2>6. t[i][s] \in Nat
    BY IdsAre, CostIs
  <2>7. t[r][s] \in Nat
    BY CostIs
  <2>8. r \in Nat
    BY IdsAre
  <2>9. CASE i < r
    BY <2>1, <2>2, <2>3, <2>4, <2>5, <2>6, <2>7, <2>8, <2>9
  <2>10. CASE i = r
    BY <2>1, <2>2, <2>3, <2>4, <2>5, <2>6, <2>7, <2>8, <2>10
  <2>11. CASE i > r
    BY <2>1, <2>2, <2>3, <2>4, <2>5, <2>6, <2>7, <2>8, <2>11
  <2> QED
    BY <2>8, <2>9, <2>10, <2>11
<1> HIDE DEF holds
<1>5. \A i \in 0..Records : i \in holds
  BY <1>3, <1>4, IdsAre, CountingUp
<1>6. Records \in holds /\ ~(Records < r)
  BY <1>5, IdsAre
<1> QED
  BY <1>1, <1>2, <1>6 DEF holds

LEMMA TimesMore == ASSUME NEW i \in Nat \ {0}, NEW m \in Nat PROVE (i - 1) * m + m = i * m
OBVIOUS

LEMMA AddedMost ==
  ASSUME NEW t \in Costs, NEW s \in Sides, NEW rs
  PROVE  Added(t, rs, s) \in 0 .. Records * MaxTokens
<1>1. PICK up : RunsUp(up, t, rs, s) /\ Added(t, rs, s) = up[Records]
  BY AddedRuns
<1> DEFINE holds == {i \in 0..Records : up[i] <= i * MaxTokens}
<1>3. 0 \in holds
  BY <1>1, IdsAre DEF RunsUp
<1>4. ASSUME NEW i \in 1..Records, i - 1 \in holds PROVE i \in holds
  <2>1. /\ up[i] = (IF i \in rs THEN up[i - 1] + t[i][s] ELSE up[i - 1])
        /\ i - 1 \in 0..Records /\ i \in 0..Records /\ up[i - 1] <= (i - 1) * MaxTokens
        /\ up \in [0..Records -> Nat]
    BY <1>1, <1>4, IdsAre DEF RunsUp
  <2>2. up[i - 1] \in Nat /\ t[i][s] \in 0..MaxTokens /\ i \in Nat \ {0}
    BY <2>1, IdsAre, CostIs
  <2>3. PICK p \in Int, q \in Int : p = (i - 1) * MaxTokens /\ q = i * MaxTokens /\ p + MaxTokens = q
    <3>1. (i - 1) * MaxTokens + MaxTokens = i * MaxTokens
      BY <2>2, IdsAre, TimesMore
    <3>2. (i - 1) * MaxTokens \in Int /\ i * MaxTokens \in Int
      BY <2>2, IdsAre
    <3> QED
      BY <3>1, <3>2
  <2>4. up[i] <= q
    BY <2>1, <2>2, <2>3, IdsAre
  <2> QED
    BY <2>1, <2>3, <2>4
<1> HIDE DEF holds
<1>5. \A i \in 0..Records : i \in holds
  BY <1>3, <1>4, IdsAre, CountingUp
<1>6. Records \in holds
  BY <1>5, IdsAre
<1> QED
  BY <1>1, <1>6, IdsAre, AddedNat DEF holds

(* Both sides of some calls together are at most their number times the      *)
(* largest of them.                                                          *)
LEMMA AddedBoth ==
  ASSUME NEW t \in Costs, NEW rs \in SUBSET Ids, NEW m \in Nat, \A r \in rs : t[r]["input"] + t[r]["output"] <= m
  PROVE  Cardinality(rs) \in Nat /\ Added(t, rs, "input") + Added(t, rs, "output") <= Cardinality(rs) * m
<1>0. "input" \in Sides /\ "output" \in Sides
  BY DEF Sides
<1>1. PICK up : RunsUp(up, t, rs, "input") /\ Added(t, rs, "input") = up[Records]
  BY <1>0, AddedRuns
<1>2. PICK vp : RunsUp(vp, t, rs, "output") /\ Added(t, rs, "output") = vp[Records]
  BY <1>0, AddedRuns
<1> DEFINE C(i) == Cardinality(rs \cap (1..i))
           holds == {i \in 0..Records : C(i) \in Nat /\ up[i] + vp[i] <= C(i) * m}
<1>3. 0 \in holds
  <2>1. rs \cap (1..0) = {}
    OBVIOUS
  <2>2. C(0) = 0
    BY <2>1, FS_EmptySet
  <2> QED
    BY <1>1, <1>2, <2>2, IdsAre DEF RunsUp
<1>4. ASSUME NEW i \in 1..Records, i - 1 \in holds PROVE i \in holds
  <2>1. /\ up[i] = (IF i \in rs THEN up[i - 1] + t[i]["input"] ELSE up[i - 1])
        /\ vp[i] = (IF i \in rs THEN vp[i - 1] + t[i]["output"] ELSE vp[i - 1])
        /\ i - 1 \in 0..Records /\ i \in 0..Records
        /\ up \in [0..Records -> Nat] /\ vp \in [0..Records -> Nat]
    BY <1>1, <1>2, IdsAre DEF RunsUp
  <2>2. up[i - 1] \in Nat /\ vp[i - 1] \in Nat /\ t[i]["input"] \in Nat /\ t[i]["output"] \in Nat
    BY <1>0, <2>1, IdsAre, CostIs
  <2>3. PICK c \in Nat : c = C(i - 1) /\ up[i - 1] + vp[i - 1] <= c * m
    BY <1>4
  <2>4. CASE i \in rs
    <3>1. rs \cap (1..i) = (rs \cap (1..(i - 1))) \cup {i} /\ i \notin rs \cap (1..(i - 1))
      BY <2>4, IdsAre
    <3>2. IsFiniteSet(rs \cap (1..(i - 1)))
      <4>1. IsFiniteSet(1..(i - 1)) /\ rs \cap (1..(i - 1)) \subseteq 1..(i - 1)
        BY <2>1, FS_Interval
      <4> QED
        BY <4>1, FS_Subset
    <3>3. C(i) = c + 1
      BY <2>3, <3>1, <3>2, FS_AddElement
    <3>4. PICK p \in Int, q \in Int : p = c * m /\ q = (c + 1) * m /\ p + m = q
      <4>1. (c + 1 - 1) * m + m = (c + 1) * m
        BY TimesMore
      <4>2. c + 1 - 1 = c
        OBVIOUS
      <4>3. c * m \in Int /\ (c + 1) * m \in Int
        OBVIOUS
      <4> QED
        BY <4>1, <4>2, <4>3
    <3>5. up[i] + vp[i] <= q
      <4>1. t[i]["input"] + t[i]["output"] <= m
        BY <2>4
      <4>2. up[i] = up[i - 1] + t[i]["input"] /\ vp[i] = vp[i - 1] + t[i]["output"]
        BY <2>1, <2>4
      <4>3. up[i - 1] + vp[i - 1] <= p
        BY <2>3, <3>4
      <4> QED
        BY <2>2, <3>4, <4>1, <4>2, <4>3
    <3> QED
      BY <2>1, <3>3, <3>4, <3>5
  <2>5. CASE i \notin rs
    <3>1. rs \cap (1..i) = rs \cap (1..(i - 1))
      BY <2>5, IdsAre
    <3> QED
      BY <2>1, <2>3, <2>5, <3>1
  <2> QED
    BY <2>4, <2>5
<1>5. rs \cap (1..Records) = rs
  BY IdsAre
<1> HIDE DEF holds
<1>6. \A i \in 0..Records : i \in holds
  BY <1>3, <1>4, IdsAre, CountingUp
<1>7. Records \in holds
  BY <1>6, IdsAre
<1> QED
  BY <1>1, <1>2, <1>5, <1>7 DEF holds

-----------------------------------------------------------------------------
(* The usage of the turns.  A call is past a side when its thread has added  *)
(* its tokens to that counter.                                               *)
PastOf(s)   == IF s = "input" THEN {"output", "output+", "done"} ELSE {"done"}
Adding(s)   == IF s = "input" THEN "input+" ELSE "output+"
Past(th, s) == {r \in Ids : th[r] \in PastOf(s)}
Threads     == {"none", "insert", "input", "input+", "output", "output+", "done", "failed"}
MeteredTurn == [before : [Sides -> Nat], awaits : 0..Records, calls : SUBSET Ids, runs : BOOLEAN]
Bills       == [calls : SUBSET Ids, alone : BOOLEAN, gain : [Sides -> Int]]

(* Calls are made in order, and of a turn's calls all are done but the one   *)
(* it awaits, which is the last that was made.                               *)
CallsInOrder ==
  /\ \A r \in Ids : r > made <=> thread[r] = "none"
  /\ ~turn.runs => turn.awaits = 0
  /\ turn.runs => \A c \in turn.calls : c = turn.awaits \/ thread[c] = "done"
  /\ turn.awaits # 0 => turn.awaits = made /\ turn.awaits \in turn.calls

(* No counter, and nothing read of it, is over the calls past it.            *)
NeverOver ==
  \A s \in Sides :
    /\ counter[s] <= Added(tokens, Past(thread, s), s)
    /\ \A r \in Ids : thread[r] = Adding(s) => loaded[r] <= Added(tokens, Past(thread, s), s)

(* While threads were alone, at most one is under way, that of the call the  *)
(* turn awaits if a turn runs, and the counters are exact.                   *)
ExactAlone ==
  alone =>
    /\ \A r, q \in Ids : Live(r) /\ Live(q) => r = q
    /\ turn.runs => \A r \in Ids : Live(r) => r = turn.awaits
    /\ \A s \in Sides :
         /\ counter[s] = Added(tokens, Past(thread, s), s)
         /\ \A r \in Ids : thread[r] = Adding(s) => loaded[r] = counter[s]
         /\ turn.runs => counter[s] = turn.before[s] + Added(tokens, turn.calls \cap Past(thread, s), s)

(* The samples are calls before the one awaited.                             *)
SamplesInOrder ==
  /\ WindowIsRight
  /\ \A i \in DOMAIN samples : samples[i] <= made /\ (turn.awaits # 0 => samples[i] < turn.awaits)

UsageInv ==
  /\ UsageTypeOK /\ turn \in MeteredTurn /\ bill \in Seq(Bills)
  /\ CallsInOrder /\ RowsAreRight /\ NeverOver /\ ExactAlone /\ SamplesInOrder /\ BillIsRight

LEMMA SidesAre == Sides = {"input", "output"}
BY DEF Sides

LEMMA NoTurnIs == NoTurn \in MeteredTurn /\ NoTurn.awaits = 0 /\ NoTurn.runs = FALSE /\ NoTurn.calls = {}
<1>1. [s \in Sides |-> 0] \in [Sides -> Nat] /\ 0 \in 0..Records
  BY IdsAre
<1> QED
  BY <1>1 DEF NoTurn, MeteredTurn

LEMMA UsageInitInv == UsageInit => UsageInv
<1> SUFFICES ASSUME UsageInit PROVE UsageInv
  OBVIOUS
<1>0. /\ tokens \in Costs /\ made = 0 /\ thread = [r \in Ids |-> "none"] /\ loaded = [r \in Ids |-> 0]
      /\ log = <<>> /\ counter = [s \in Sides |-> 0] /\ connected = TRUE /\ samples = <<>>
      /\ turn = NoTurn /\ metered = 0 /\ bill = <<>> /\ alone = TRUE
  BY DEF UsageInit, Costs
<1>1. 0 \in 0 .. Records * MaxTokens /\ 0 \in 0..Records /\ 0 \in 0..MaxMetered
  <2>1. Records * MaxTokens \in Nat
    BY IdsAre
  <2> QED
    BY <2>1, UsageAssumption
<1>2. UsageTypeOK /\ turn \in MeteredTurn /\ bill \in Seq(Bills)
  BY <1>0, <1>1, NoTurnIs DEF UsageTypeOK, Costs, MeteredTurn
<1>3. CallsInOrder
  BY <1>0, NoTurnIs, IdsAre DEF CallsInOrder
<1>4. DOMAIN log = {} /\ DOMAIN samples = {} /\ DOMAIN bill = {} /\ ToSet(samples) = {} /\ ToSet(log) = {}
      /\ ToSet(bill) = {} /\ Len(samples) = 0
  BY <1>0 DEF ToSet
<1>5. RowsAreRight /\ SamplesInOrder /\ BillIsRight
  BY <1>0, <1>4, UsageAssumption DEF RowsAreRight, SamplesInOrder, BillIsRight, WindowIsRight, IsInjective
<1>6. \A s \in Sides : Past(thread, s) = {} /\ Added(tokens, Past(thread, s), s) = 0
  <2>1. \A s \in Sides : Past(thread, s) = {}
    BY <1>0 DEF Past, PastOf
  <2> QED
    BY <1>0, <2>1, AddedNone
<1>7. NeverOver
  BY <1>0, <1>6 DEF NeverOver, Adding
<1>8. ExactAlone
  BY <1>0, <1>6, NoTurnIs DEF ExactAlone, Adding, Live
<1> QED
  BY <1>2, <1>3, <1>5, <1>7, <1>8 DEF UsageInv

(* The rows are right after a thread moves, if it has or gets its row.       *)
LEMMA UsageTypes ==
  ASSUME UsageInv
  PROVE  /\ tokens \in Costs /\ made \in 0..Records /\ thread \in [Ids -> Threads]
         /\ loaded \in [Ids -> Nat] /\ log \in Seq(Ids) /\ counter \in [Sides -> Nat]
         /\ samples \in Seq(Ids) /\ turn \in MeteredTurn /\ bill \in Seq(Bills) /\ alone \in BOOLEAN
         /\ made \in Nat
<1>1. Records * MaxTokens \in Nat
  BY IdsAre
<1>2. loaded \in [Ids -> Nat] /\ counter \in [Sides -> Nat]
  BY <1>1 DEF UsageInv, UsageTypeOK
<1> QED
  BY <1>2, IdsAre DEF UsageInv, UsageTypeOK, Costs, Threads

(* What keeps the counters and threads as they are.                          *)
LEMMA BeginTurnInv == ASSUME UsageInv, BeginTurn PROVE UsageInv'
<1>0. /\ turn' = [NoTurn EXCEPT !.before = counter, !.runs = TRUE] /\ metered' \in 0..MaxMetered
      /\ alone' = (alone /\ \A r \in Ids : ~Live(r))
      /\ UNCHANGED <<tokens, made, thread, loaded, log, counter, connected, samples, bill>>
  BY UsageAssumption DEF BeginTurn, UsageInv, UsageTypeOK
<1>1. /\ turn' \in MeteredTurn /\ turn'.before = counter /\ turn'.runs = TRUE /\ turn'.calls = {} /\ turn'.awaits = 0
  BY <1>0, UsageTypes, NoTurnIs DEF MeteredTurn
<1>2. UsageTypeOK'
  BY <1>0, <1>1 DEF UsageInv, UsageTypeOK, MeteredTurn, Live
<1>3. CallsInOrder' /\ RowsAreRight' /\ NeverOver' /\ SamplesInOrder' /\ BillIsRight'
  BY <1>0, <1>1 DEF UsageInv, CallsInOrder, RowsAreRight, NeverOver, SamplesInOrder, WindowIsRight, BillIsRight, Sum
<1>4. ExactAlone'
  <2> SUFFICES ASSUME alone, \A r \in Ids : ~Live(r) PROVE ExactAlone'
    BY <1>0 DEF ExactAlone
  <2>1. \A r \in Ids : ~Live(r)'
    BY <1>0 DEF Live
  <2>2. ASSUME NEW s \in Sides
        PROVE  counter[s] = turn'.before[s] + Added(tokens, turn'.calls \cap Past(thread, s), s)
    <3>1. turn'.calls \cap Past(thread, s) = {}
      BY <1>1
    <3>2. Added(tokens, turn'.calls \cap Past(thread, s), s) = 0
      BY <3>1, UsageTypes, AddedNone
    <3>3. counter[s] \in Nat
      BY UsageTypes
    <3> QED
      BY <1>1, <3>2, <3>3
  <2> QED
    BY <1>0, <2>1, <2>2 DEF UsageInv, ExactAlone
<1> QED
  BY <1>0, <1>1, <1>2, <1>3, <1>4 DEF UsageInv

LEMMA AbandonTurnInv == ASSUME UsageInv, AbandonTurn PROVE UsageInv'
<1>0. /\ turn' = NoTurn
      /\ UNCHANGED <<tokens, made, thread, loaded, log, counter, connected, samples, metered, bill, alone>>
  BY DEF AbandonTurn
<1>1. UsageTypeOK'
  BY <1>0, NoTurnIs DEF UsageInv, UsageTypeOK, MeteredTurn
<1>2. CallsInOrder' /\ RowsAreRight' /\ NeverOver' /\ SamplesInOrder' /\ BillIsRight'
  BY <1>0, NoTurnIs DEF UsageInv, CallsInOrder, RowsAreRight, NeverOver, SamplesInOrder, WindowIsRight, BillIsRight, Sum
<1>3. ExactAlone'
  BY <1>0, NoTurnIs DEF UsageInv, ExactAlone, Live
<1> QED
  BY <1>0, <1>1, <1>2, <1>3, NoTurnIs DEF UsageInv

LEMMA CloseInv == ASSUME UsageInv, Close PROVE UsageInv'
<1>0. /\ connected' \in BOOLEAN
      /\ UNCHANGED <<tokens, made, thread, loaded, log, counter, samples, turn, metered, bill, alone>>
  BY DEF Close
<1>1. UsageTypeOK'
  BY <1>0 DEF UsageInv, UsageTypeOK
<1>2. CallsInOrder' /\ RowsAreRight' /\ NeverOver' /\ SamplesInOrder' /\ BillIsRight'
  BY <1>0 DEF UsageInv, CallsInOrder, RowsAreRight, NeverOver, SamplesInOrder, WindowIsRight, BillIsRight, Sum
<1>3. ExactAlone'
  BY <1>0 DEF UsageInv, ExactAlone, Live
<1> QED
  BY <1>0, <1>1, <1>2, <1>3 DEF UsageInv

(* The terminal's bill: no call of the turn is under way.                    *)
LEMMA CountTurnInv == ASSUME UsageInv, CountTurn PROVE UsageInv'
<1> DEFINE b == [calls |-> turn.calls, alone |-> alone, gain |-> [s \in Sides |-> counter[s] - turn.before[s]]]
<1>0. /\ turn' = NoTurn /\ bill' = Append(bill, b) /\ turn.runs /\ turn.awaits = 0
      /\ UNCHANGED <<tokens, made, thread, loaded, log, counter, connected, samples, metered, alone>>
  BY DEF CountTurn
<1>1. UsageTypeOK'
  BY <1>0, NoTurnIs DEF UsageInv, UsageTypeOK, MeteredTurn
<1>2. CallsInOrder' /\ RowsAreRight' /\ NeverOver' /\ SamplesInOrder'
  BY <1>0, NoTurnIs DEF UsageInv, CallsInOrder, RowsAreRight, NeverOver, SamplesInOrder, WindowIsRight
<1>3. ExactAlone'
  BY <1>0, NoTurnIs DEF UsageInv, ExactAlone, Live
<1>4. b \in Bills
  <2>1. [s \in Sides |-> counter[s] - turn.before[s]] \in [Sides -> Int]
    BY UsageTypes DEF MeteredTurn
  <2> QED
    BY <2>1, UsageTypes DEF Bills, MeteredTurn
<1>5. b.alone => \A s \in Sides : b.gain[s] = Added(tokens, b.calls, s)
  <2> SUFFICES ASSUME alone, NEW s \in Sides
               PROVE  counter[s] - turn.before[s] = Added(tokens, turn.calls, s)
    OBVIOUS
  <2>1. \A c \in turn.calls : c \in Ids /\ thread[c] = "done"
    BY <1>0, IdsAre, UsageTypes DEF UsageInv, CallsInOrder, MeteredTurn
  <2>2. turn.calls \cap Past(thread, s) = turn.calls
    BY <2>1 DEF Past, PastOf
  <2>3. counter[s] = turn.before[s] + Added(tokens, turn.calls, s)
    BY <1>0, <2>2 DEF UsageInv, ExactAlone
  <2>4. turn.before[s] \in Nat /\ counter[s] \in Nat /\ Added(tokens, turn.calls, s) \in Nat
    BY UsageTypes, AddedNat DEF MeteredTurn
  <2> QED
    BY <2>3, <2>4
<1>6. PICK x \in Bills : x = b
  BY <1>4
<1> HIDE DEF b
<1>7. bill' \in Seq(Bills) /\ ToSet(bill') \subseteq ToSet(bill) \cup {x}
  <2>1. /\ bill \in Seq(Bills) /\ bill' = Append(bill, x) /\ Len(bill) \in Nat /\ DOMAIN bill = 1..Len(bill)
    BY <1>0, <1>6, UsageTypes
  <2>2. /\ bill' \in Seq(Bills) /\ DOMAIN bill' = 1..Len(bill) + 1 /\ bill'[Len(bill) + 1] = x
        /\ \A i \in 1..Len(bill) : bill'[i] = bill[i]
    BY <2>1
  <2> QED
    BY <2>1, <2>2 DEF ToSet
<1>8. BillIsRight'
  <2> SUFFICES ASSUME NEW c \in ToSet(bill'), c.alone, NEW s \in Sides PROVE c.gain[s] = Added(tokens, c.calls, s)
    BY <1>0 DEF BillIsRight, Sum
  <2> QED
    BY <1>5, <1>6, <1>7 DEF UsageInv, BillIsRight, Sum
<1> QED
  BY <1>0, <1>1, <1>2, <1>3, <1>7, <1>8, NoTurnIs DEF UsageInv

(* The monitor's window, of which the oldest sample may go.                  *)
LEMMA NewestKeeps ==
  ASSUME NEW s \in Seq(Ids), Len(s) <= MaxRecent, NEW r \in Ids, NEW m \in Nat, r <= m,
         \A i, j \in DOMAIN s : i < j => s[i] < s[j], \A i \in DOMAIN s : s[i] < r
  PROVE  LET w == Newest(Append(s, r))
         IN  /\ w \in Seq(Ids) /\ Len(w) <= MaxRecent /\ ToSet(w) \subseteq ToSet(s) \cup {r}
             /\ \A i, j \in DOMAIN w : i < j => w[i] < w[j]
             /\ \A i \in DOMAIN w : w[i] <= m
<1>1. PICK q : q = Append(s, r)
  OBVIOUS
<1>2. /\ q \in Seq(Ids) /\ Len(q) = Len(s) + 1 /\ Len(s) \in Nat /\ DOMAIN q = 1..Len(s) + 1 /\ DOMAIN s = 1..Len(s)
      /\ q[Len(s) + 1] = r /\ \A i \in 1..Len(s) : q[i] = s[i]
  BY <1>1
<1>3. \A i \in DOMAIN s : s[i] \in Nat
  BY IdsAre, <1>2
<1>0. r \in Nat
  BY IdsAre
<1>4. /\ \A i, j \in DOMAIN q : i < j => q[i] < q[j]
      /\ \A i \in DOMAIN q : q[i] <= m /\ q[i] \in ToSet(s) \cup {r}
  <2>1. \A i \in DOMAIN q : (i \in DOMAIN s /\ q[i] = s[i] /\ q[i] < r) \/ (i = Len(s) + 1 /\ q[i] = r)
    BY <1>2
  <2>2. \A i \in DOMAIN q : q[i] <= m /\ q[i] \in ToSet(s) \cup {r}
    BY <1>0, <1>3, <2>1 DEF ToSet
  <2>3. \A i, j \in DOMAIN q : i < j => q[i] < q[j]
    BY <1>2, <2>1
  <2> QED
    BY <2>2, <2>3
<1>5. PICK w : w = Newest(Append(s, r))
  OBVIOUS
<1>6. MaxRecent \in Nat \ {0}
  BY UsageAssumption
<1>7. CASE Len(q) > MaxRecent
  <2>1. w = Tail(q) /\ q # <<>>
    BY <1>1, <1>2, <1>5, <1>7 DEF Newest
  <2>2. w \in Seq(Ids) /\ Len(w) = Len(s) /\ DOMAIN w = 1..Len(s) /\ \A i \in 1..Len(s) : w[i] = q[i + 1]
    BY <1>2, <2>1
  <2>3. \A i \in 1..Len(s) : i + 1 \in DOMAIN q
    BY <1>2
  <2>4. \A i, j \in DOMAIN w : i < j => w[i] < w[j]
    <3> SUFFICES ASSUME NEW i \in 1..Len(s), NEW j \in 1..Len(s), i < j PROVE w[i] < w[j]
      BY <2>2
    <3>1. i + 1 < j + 1 /\ i + 1 \in DOMAIN q /\ j + 1 \in DOMAIN q
      BY <2>3
    <3> QED
      BY <1>4, <2>2, <3>1
  <2>5. \A i \in DOMAIN w : w[i] <= m /\ w[i] \in ToSet(s) \cup {r}
    BY <1>4, <2>2, <2>3
  <2> QED
    BY <1>5, <2>2, <2>4, <2>5 DEF ToSet
<1>8. CASE ~(Len(q) > MaxRecent)
  <2>1. w = q /\ Len(q) <= MaxRecent
    BY <1>1, <1>2, <1>5, <1>6, <1>8 DEF Newest
  <2> QED
    BY <1>2, <1>4, <1>5, <2>1 DEF ToSet
<1> QED
  BY <1>7, <1>8

LEMMA RecordedInv == ASSUME UsageInv, Recorded PROVE UsageInv'
<1>0. /\ turn.runs /\ turn.awaits # 0 /\ thread[turn.awaits] = "done"
      /\ (samples' = Newest(Append(samples, turn.awaits)) \/ samples' = samples)
      /\ turn' = [turn EXCEPT !.awaits = 0]
      /\ UNCHANGED <<tokens, made, thread, loaded, log, counter, connected, metered, bill, alone>>
  BY DEF Recorded
<1>1. PICK r \in Ids : r = turn.awaits /\ r = made /\ r \in turn.calls
  BY <1>0, UsageTypes, IdsAre DEF UsageInv, CallsInOrder, MeteredTurn
<1>2. /\ turn' \in MeteredTurn /\ turn'.awaits = 0 /\ turn'.runs = turn.runs /\ turn'.calls = turn.calls
      /\ turn'.before = turn.before
  <2>1. 0 \in 0..Records /\ turn \in MeteredTurn
    BY IdsAre, UsageTypes
  <2>2. turn' = [turn EXCEPT !.awaits = 0]
    BY <1>0
  <2> QED
    BY <2>1, <2>2 DEF MeteredTurn
<1>3. /\ samples' \in Seq(Ids) /\ Len(samples') <= MaxRecent /\ ToSet(samples') \subseteq ToSet(samples) \cup {r}
      /\ \A i, j \in DOMAIN samples' : i < j => samples'[i] < samples'[j]
      /\ \A i \in DOMAIN samples' : samples'[i] <= made
  <2>1. CASE samples' = samples
    BY <2>1, UsageTypes DEF UsageInv, SamplesInOrder, WindowIsRight
  <2>2. CASE samples' = Newest(Append(samples, turn.awaits))
    <3>1. /\ samples \in Seq(Ids) /\ Len(samples) <= MaxRecent /\ made \in Nat /\ r <= made
          /\ \A i, j \in DOMAIN samples : i < j => samples[i] < samples[j]
          /\ \A i \in DOMAIN samples : samples[i] < r
      BY <1>0, <1>1, UsageTypes DEF UsageInv, SamplesInOrder, WindowIsRight
    <3> QED
      BY <1>1, <2>2, <3>1, NewestKeeps
  <2> QED
    BY <1>0, <2>1, <2>2
<1>4. r \in ToSet(log)
  BY <1>0, <1>1 DEF UsageInv, RowsAreRight
<1>5. SamplesInOrder'
  BY <1>0, <1>2, <1>3, <1>4 DEF UsageInv, SamplesInOrder, WindowIsRight
<1>6. UsageTypeOK'
  BY <1>0, <1>2, <1>3 DEF UsageInv, UsageTypeOK, MeteredTurn
<1>7. CallsInOrder' /\ RowsAreRight' /\ NeverOver' /\ BillIsRight'
  BY <1>0, <1>1, <1>2 DEF UsageInv, CallsInOrder, RowsAreRight, NeverOver, BillIsRight, Sum
<1>8. ExactAlone'
  <2>1. ASSUME alone, NEW q \in Ids, Live(q) PROVE FALSE
    <3>1. q = r
      BY <1>0, <1>1, <2>1 DEF UsageInv, ExactAlone
    <3> QED
      BY <1>0, <1>1, <2>1, <3>1 DEF Live
  <2>2. \A q \in Ids : Live(q)' <=> Live(q)
    BY <1>0 DEF Live
  <2> QED
    BY <1>0, <1>2, <2>1, <2>2 DEF UsageInv, ExactAlone
<1> QED
  BY <1>0, <1>2, <1>5, <1>6, <1>7, <1>8 DEF UsageInv

(* A thread moves without passing a counter.                                 *)
LEMMA PastStays ==
  ASSUME NEW th \in [Ids -> Threads], NEW r \in Ids, NEW v \in Threads,
         \A s \in Sides : v \in PastOf(s) <=> th[r] \in PastOf(s)
  PROVE  \A s \in Sides : Past([th EXCEPT ![r] = v], s) = Past(th, s)
BY DEF Past

LEMMA CallInv == ASSUME UsageInv, Call PROVE UsageInv'
<1>0. PICK r : r = made + 1
  OBVIOUS
<1>1. /\ turn.runs /\ turn.awaits = 0 /\ made < Records /\ made' = r
      /\ thread' = [thread EXCEPT ![r] = "insert"] /\ turn' = [turn EXCEPT !.awaits = r, !.calls = turn.calls \cup {r}]
      /\ UNCHANGED <<tokens, loaded, log, counter, connected, samples, metered, bill, alone>>
  BY <1>0 DEF Call
<1>2. r \in Ids /\ thread[r] = "none" /\ r > made /\ made \in Nat
  BY <1>0, <1>1, IdsAre, UsageTypes DEF UsageInv, CallsInOrder
<1>3. /\ turn' \in MeteredTurn /\ turn'.awaits = r /\ turn'.runs = TRUE /\ turn'.calls = turn.calls \cup {r}
      /\ turn'.before = turn.before
  <2>1. r \in 0..Records /\ turn \in MeteredTurn /\ turn.calls \cup {r} \in SUBSET Ids /\ turn.runs = TRUE
    BY <1>1, <1>2, IdsAre, UsageTypes DEF MeteredTurn
  <2>2. turn' = [turn EXCEPT !.awaits = r, !.calls = turn.calls \cup {r}]
    BY <1>1
  <2> QED
    BY <2>1, <2>2 DEF MeteredTurn
<1>4. thread' \in [Ids -> Threads] /\ thread'[r] = "insert" /\ \A q \in Ids \ {r} : thread'[q] = thread[q]
  BY <1>1, <1>2, UsageTypes DEF Threads
<1>5. UsageTypeOK'
  BY <1>1, <1>2, <1>3, <1>4, IdsAre DEF UsageInv, UsageTypeOK, MeteredTurn, Threads
<1>6. CallsInOrder'
  <2>1. \A q \in Ids : q > r <=> thread'[q] = "none"
    <3> SUFFICES ASSUME NEW q \in Ids PROVE q > r <=> thread'[q] = "none"
      OBVIOUS
    <3>1. q > made <=> thread[q] = "none"
      BY DEF UsageInv, CallsInOrder
    <3>2. q \in Nat /\ (q > r <=> q > made /\ q # r)
      BY <1>0, <1>2, IdsAre
    <3> QED
      BY <1>4, <3>1, <3>2
  <2>2. \A c \in turn'.calls : c = r \/ thread'[c] = "done"
    <3> SUFFICES ASSUME NEW c \in turn.calls, c # r PROVE thread'[c] = "done"
      BY <1>3
    <3>1. c \in Ids /\ c # 0
      BY UsageTypes, IdsAre DEF MeteredTurn
    <3>2. thread[c] = "done"
      BY <1>1, <3>1 DEF UsageInv, CallsInOrder
    <3> QED
      BY <1>4, <3>1, <3>2
  <2> QED
    BY <1>1, <1>3, <2>1, <2>2 DEF CallsInOrder
<1>7. RowsAreRight'
  BY <1>1, <1>2, <1>4 DEF UsageInv, RowsAreRight
<1>8. SamplesInOrder'
  <2>1. \A i \in DOMAIN samples : samples[i] <= made /\ samples[i] \in Nat
    BY UsageTypes, IdsAre DEF UsageInv, SamplesInOrder
  <2>2. \A i \in DOMAIN samples : samples[i] <= r /\ samples[i] < r
    BY <1>2, <2>1, IdsAre
  <2> QED
    BY <1>1, <1>3, <2>2 DEF UsageInv, SamplesInOrder, WindowIsRight
<1>9. BillIsRight'
  BY <1>1 DEF UsageInv, BillIsRight, Sum
<1>10. \A s \in Sides : Past(thread', s) = Past(thread, s) /\ r \notin Past(thread, s)
  BY <1>2, <1>4 DEF Past, PastOf
<1>11. NeverOver'
  BY <1>1, <1>2, <1>4, <1>10 DEF UsageInv, NeverOver, Adding
<1>12. ExactAlone'
  <2> SUFFICES ASSUME alone PROVE ExactAlone'
    BY <1>1 DEF ExactAlone
  <2>1. \A q \in Ids : ~Live(q)
    <3> SUFFICES ASSUME NEW q \in Ids, Live(q) PROVE FALSE
      OBVIOUS
    <3>1. q = 0
      BY <1>1 DEF UsageInv, ExactAlone
    <3> QED
      BY <3>1, IdsAre
  <2>2. \A q \in Ids : Live(q)' => q = r
    BY <1>4, <2>1 DEF Live
  <2>3. \A s \in Sides : turn'.calls \cap Past(thread', s) = turn.calls \cap Past(thread, s)
    BY <1>3, <1>10
  <2>4. \A s \in Sides : \A q \in Ids : thread'[q] = Adding(s) => thread[q] = Adding(s)
    BY <1>4 DEF Adding
  <2> QED
    BY <1>1, <1>3, <1>10, <2>2, <2>3, <2>4 DEF UsageInv, ExactAlone
<1> QED
  BY <1>1, <1>3, <1>5, <1>6, <1>7, <1>8, <1>9, <1>11, <1>12, UsageTypes DEF UsageInv

(* A thread moves on, and its call is not awaited in another way.            *)
LEMMA ThreadMoves ==
  ASSUME UsageInv, NEW r \in Ids, NEW v \in Threads, Live(r), v # "none",
         thread' = [thread EXCEPT ![r] = v], UNCHANGED <<made, turn>>
  PROVE  /\ CallsInOrder' /\ thread' \in [Ids -> Threads] /\ thread'[r] = v
         /\ \A q \in Ids \ {r} : thread'[q] = thread[q]
         /\ \A q \in Ids : Live(q)' => Live(q)
<1>1. thread' \in [Ids -> Threads] /\ thread'[r] = v /\ \A q \in Ids \ {r} : thread'[q] = thread[q]
  BY UsageTypes
<1>2. thread[r] # "none" /\ thread[r] # "done"
  BY DEF Live
<1>3. \A q \in Ids : q > made <=> thread'[q] = "none"
  BY <1>1, <1>2 DEF UsageInv, CallsInOrder
<1>4. turn.runs => \A c \in turn.calls : c = turn.awaits \/ thread'[c] = "done"
  <2>1. turn.calls \subseteq Ids
    BY UsageTypes DEF MeteredTurn
  <2> QED
    BY <1>1, <1>2, <2>1 DEF UsageInv, CallsInOrder
<1>5. \A q \in Ids : Live(q)' => Live(q)
  BY <1>1 DEF Live
<1> QED
  BY <1>1, <1>3, <1>4, <1>5 DEF UsageInv, CallsInOrder

LEMMA InsertInv == ASSUME UsageInv, NEW r \in Ids, Insert(r) PROVE UsageInv'
<1>0. thread[r] = "insert"
      /\ UNCHANGED <<tokens, made, loaded, counter, connected, samples, turn, metered, bill, alone>>
  BY DEF Insert
<1>1. PICK v \in {"input", "failed"} :
        /\ thread' = [thread EXCEPT ![r] = v]
        /\ log' = IF v = "input" THEN Append(log, r) ELSE log
  BY DEF Insert
<1>2. /\ CallsInOrder' /\ thread' \in [Ids -> Threads] /\ thread'[r] = v
      /\ \A q \in Ids \ {r} : thread'[q] = thread[q]
      /\ \A q \in Ids : Live(q)' => Live(q)
  <2>1. Live(r) /\ v \in Threads /\ v # "none"
    BY <1>0 DEF Live, Threads
  <2> QED
    BY <1>0, <1>1, <2>1, ThreadMoves
<1>3. r \notin ToSet(log)
  BY <1>0 DEF UsageInv, RowsAreRight
<1>4. /\ log' \in Seq(Ids) /\ IsInjective(log') /\ ToSet(log) \subseteq ToSet(log')
      /\ ToSet(log') = IF v = "input" THEN ToSet(log) \cup {r} ELSE ToSet(log)
  <2>1. /\ log \in Seq(Ids) /\ IsInjective(log) /\ Len(log) \in Nat /\ DOMAIN log = 1..Len(log)
    BY UsageTypes DEF UsageInv, RowsAreRight
  <2>2. CASE v = "input"
    <3>1. log' = Append(log, r)
      BY <1>1, <2>2
    <3>2. /\ log' \in Seq(Ids) /\ DOMAIN log' = 1..Len(log) + 1 /\ log'[Len(log) + 1] = r
          /\ \A i \in 1..Len(log) : log'[i] = log[i]
      BY <2>1, <3>1
    <3>3. \A i \in DOMAIN log' : i \in DOMAIN log \/ i = Len(log) + 1
      BY <2>1, <3>2
    <3>4. \A i \in DOMAIN log : log[i] # r /\ i \in DOMAIN log' /\ log'[i] = log[i]
      BY <1>3, <2>1, <3>2 DEF ToSet
    <3>5. Len(log) + 1 \in DOMAIN log'
      BY <2>1, <3>2
    <3>6. IsInjective(log')
      BY <2>1, <3>2, <3>3, <3>4 DEF IsInjective
    <3>7. ToSet(log') = ToSet(log) \cup {r}
      BY <3>2, <3>3, <3>4, <3>5 DEF ToSet
    <3> QED
      BY <2>2, <3>2, <3>6, <3>7
  <2>3. CASE v # "input"
    BY <1>1, <2>1, <2>3
  <2> QED
    BY <2>2, <2>3
<1>5. UsageTypeOK'
  BY <1>0, <1>2, <1>4 DEF UsageInv, UsageTypeOK, Threads
<1>6. RowsAreRight'
  <2>1. \A q \in Ids : thread'[q] \notin {"none", "insert", "failed"} <=> q \in ToSet(log')
    BY <1>0, <1>1, <1>2, <1>3, <1>4 DEF UsageInv, RowsAreRight
  <2> QED
    BY <1>4, <2>1 DEF RowsAreRight
<1>7. SamplesInOrder'
  BY <1>0, <1>4 DEF UsageInv, SamplesInOrder, WindowIsRight
<1>8. BillIsRight'
  BY <1>0 DEF UsageInv, BillIsRight, Sum
<1>9. \A s \in Sides : Past(thread', s) = Past(thread, s)
  BY <1>0, <1>2 DEF Past, PastOf
<1>10. \A s \in Sides : \A q \in Ids : thread'[q] = Adding(s) => thread[q] = Adding(s)
  BY <1>1, <1>2 DEF Adding
<1>11. NeverOver'
  BY <1>0, <1>9, <1>10 DEF UsageInv, NeverOver
<1>12. ExactAlone'
  BY <1>0, <1>2, <1>9, <1>10 DEF UsageInv, ExactAlone
<1> QED
  BY <1>0, <1>2, <1>5, <1>6, <1>7, <1>8, <1>11, <1>12, UsageTypes DEF UsageInv

LEMMA ReadCounterInv == ASSUME UsageInv, NEW r \in Ids, NEW s \in Sides, ReadCounter(r, s) PROVE UsageInv'
<1>0. /\ thread[r] = s /\ loaded' = [loaded EXCEPT ![r] = counter[s]]
      /\ thread' = [thread EXCEPT ![r] = Adding(s)]
      /\ UNCHANGED <<tokens, made, log, counter, connected, samples, turn, metered, bill, alone>>
  BY DEF ReadCounter, Adding
<1>1. s = "input" \/ s = "output"
  BY DEF Sides
<1>2. /\ CallsInOrder' /\ thread' \in [Ids -> Threads] /\ thread'[r] = Adding(s)
      /\ \A q \in Ids \ {r} : thread'[q] = thread[q]
      /\ \A q \in Ids : Live(q)' => Live(q)
  <2>1. Live(r) /\ Adding(s) \in Threads /\ Adding(s) # "none"
    BY <1>0, <1>1 DEF Live, Threads, Adding
  <2> QED
    BY <1>0, <2>1, ThreadMoves
<1>3. loaded'[r] = counter[s] /\ \A q \in Ids \ {r} : loaded'[q] = loaded[q]
  BY <1>0, UsageTypes
<1>4. UsageTypeOK'
  BY <1>0, <1>2 DEF UsageInv, UsageTypeOK, Threads
<1>5. RowsAreRight'
  BY <1>0, <1>1, <1>2 DEF UsageInv, RowsAreRight, Adding
<1>6. SamplesInOrder'
  BY <1>0 DEF UsageInv, SamplesInOrder, WindowIsRight
<1>7. BillIsRight'
  BY <1>0 DEF UsageInv, BillIsRight, Sum
<1>8. \A t \in Sides : Past(thread', t) = Past(thread, t)
  BY <1>0, <1>1, <1>2 DEF Past, PastOf, Adding
<1>9. \A t \in Sides : \A q \in Ids \ {r} : thread'[q] = Adding(t) => thread[q] = Adding(t)
  BY <1>2
<1>10. \A t \in Sides : thread'[r] = Adding(t) => t = s
  BY <1>1, <1>2, SidesAre DEF Adding
<1>11. NeverOver'
  BY <1>0, <1>3, <1>8, <1>9, <1>10 DEF UsageInv, NeverOver
<1>12. ExactAlone'
  BY <1>0, <1>2, <1>3, <1>8, <1>9, <1>10 DEF UsageInv, ExactAlone
<1> QED
  BY <1>0, <1>2, <1>4, <1>5, <1>6, <1>7, <1>11, <1>12, UsageTypes DEF UsageInv

LEMMA WriteCounterInv == ASSUME UsageInv, NEW r \in Ids, NEW s \in Sides, WriteCounter(r, s) PROVE UsageInv'
<1> DEFINE v == IF s = "input" THEN "output" ELSE "done"
<1>0. /\ thread[r] = Adding(s) /\ counter' = [counter EXCEPT ![s] = loaded[r] + tokens[r][s]]
      /\ thread' = [thread EXCEPT ![r] = v] /\ loaded' = [loaded EXCEPT ![r] = 0]
      /\ UNCHANGED <<tokens, made, log, connected, samples, turn, metered, bill, alone>>
  BY DEF WriteCounter, Adding
<1>1. s = "input" \/ s = "output"
  BY DEF Sides
<1>2. /\ CallsInOrder' /\ thread' \in [Ids -> Threads] /\ thread'[r] = v
      /\ \A q \in Ids \ {r} : thread'[q] = thread[q]
      /\ \A q \in Ids : Live(q)' => Live(q)
  <2>1. Live(r) /\ v \in Threads /\ v # "none"
    BY <1>0, <1>1 DEF Live, Threads, Adding
  <2>2. PICK x \in Threads : x = v
    BY <2>1
  <2> HIDE DEF v
  <2> QED
    BY <1>0, <2>1, ThreadMoves
<1>3. /\ counter'[s] = loaded[r] + tokens[r][s] /\ \A t \in Sides \ {s} : counter'[t] = counter[t]
      /\ loaded'[r] = 0 /\ \A q \in Ids \ {r} : loaded'[q] = loaded[q]
  BY <1>0, UsageTypes
<1>4. /\ Past(thread', s) = Past(thread, s) \cup {r} /\ r \notin Past(thread, s)
      /\ \A t \in Sides \ {s} : Past(thread', t) = Past(thread, t)
  BY <1>0, <1>1, <1>2, SidesAre DEF Past, PastOf, Adding
<1>5. /\ Added(tokens, Past(thread', s), s) = Added(tokens, Past(thread, s), s) + tokens[r][s]
      /\ Added(tokens, Past(thread, s), s) \in Nat /\ tokens[r][s] \in Nat /\ loaded[r] \in Nat
  <2>1. tokens \in Costs /\ loaded[r] \in Nat
    BY UsageTypes
  <2> QED
    BY <1>4, <2>1, AddedMore, AddedNat, CostIs
<1>6. \A t \in Sides : \A q \in Ids : thread'[q] = Adding(t) => q # r /\ thread[q] = Adding(t)
  BY <1>1, <1>2 DEF Adding
<1>7. NeverOver'
  <2> SUFFICES ASSUME NEW t \in Sides
               PROVE  /\ counter'[t] <= Added(tokens, Past(thread', t), t)
                      /\ \A q \in Ids : thread'[q] = Adding(t) => loaded'[q] <= Added(tokens, Past(thread', t), t)
    BY <1>0 DEF NeverOver
  <2>1. CASE t = s
    <3>1. counter'[s] <= Added(tokens, Past(thread', s), s)
      BY <1>0, <1>3, <1>5 DEF UsageInv, NeverOver
    <3>2. ASSUME NEW q \in Ids, thread'[q] = Adding(s) PROVE loaded'[q] <= Added(tokens, Past(thread', s), s)
      <4>1. q # r /\ thread[q] = Adding(s) /\ loaded'[q] = loaded[q] /\ loaded[q] \in Nat
        BY <1>3, <1>6, <3>2, UsageTypes
      <4>2. loaded[q] <= Added(tokens, Past(thread, s), s)
        BY <4>1 DEF UsageInv, NeverOver
      <4> QED
        BY <1>5, <4>1, <4>2
    <3> QED
      BY <2>1, <3>1, <3>2
  <2>2. CASE t # s
    BY <1>3, <1>4, <1>6, <2>2 DEF UsageInv, NeverOver
  <2> QED
    BY <2>1, <2>2
<1>8. UsageTypeOK'
  <2>1. counter' \in [Sides -> Nat] /\ loaded' \in [Ids -> 0 .. Records * MaxTokens]
    <3>1. 0 \in 0 .. Records * MaxTokens
      BY IdsAre
    <3> QED
      BY <1>0, <1>5, <3>1, UsageTypes DEF UsageInv, UsageTypeOK
  <2>2. \A t \in Sides : counter'[t] \in 0 .. Records * MaxTokens
    <3> SUFFICES ASSUME NEW t \in Sides PROVE counter'[t] \in 0 .. Records * MaxTokens
      OBVIOUS
    <3>1. counter'[t] <= Added(tokens, Past(thread', t), t)
      BY <1>0, <1>7 DEF NeverOver
    <3>2. Added(tokens, Past(thread', t), t) \in 0 .. Records * MaxTokens
      BY UsageTypes, AddedMost
    <3>3. counter'[t] \in Nat /\ Records * MaxTokens \in Nat
      BY <2>1, IdsAre
    <3> QED
      BY <3>1, <3>2, <3>3
  <2>3. counter' \in [Sides -> 0 .. Records * MaxTokens]
    BY <2>1, <2>2
  <2> QED
    BY <1>0, <1>2, <2>1, <2>3 DEF UsageInv, UsageTypeOK, Threads
<1>9. RowsAreRight'
  BY <1>0, <1>1, <1>2 DEF UsageInv, RowsAreRight, Adding
<1>10. SamplesInOrder'
  BY <1>0 DEF UsageInv, SamplesInOrder, WindowIsRight
<1>11. BillIsRight'
  BY <1>0 DEF UsageInv, BillIsRight, Sum
<1>12. ExactAlone'
  <2> SUFFICES ASSUME alone PROVE ExactAlone'
    BY <1>0 DEF ExactAlone
  <2>0. Live(r)
    BY <1>0, <1>1 DEF Live, Adding
  <2>1. loaded[r] = counter[s] /\ counter[s] = Added(tokens, Past(thread, s), s)
    BY <1>0 DEF UsageInv, ExactAlone
  <2>2. counter'[s] = Added(tokens, Past(thread', s), s)
    BY <1>3, <1>5, <2>1
  <2>3. \A t \in Sides, q \in Ids : thread'[q] # Adding(t)
    <3> SUFFICES ASSUME NEW t \in Sides, NEW q \in Ids, thread'[q] = Adding(t) PROVE FALSE
      OBVIOUS
    <3>1. q # r /\ thread[q] = Adding(t)
      BY <1>6
    <3>2. Live(q)
      BY <3>1 DEF Live, Adding
    <3> QED
      BY <2>0, <3>1, <3>2 DEF UsageInv, ExactAlone
  <2>4. ASSUME turn.runs PROVE counter'[s] = turn.before[s] + Added(tokens, turn.calls \cap Past(thread', s), s)
    <3>1. r = turn.awaits
      BY <2>0, <2>4 DEF UsageInv, ExactAlone
    <3>2. r \in turn.calls
      BY <3>1, IdsAre DEF UsageInv, CallsInOrder
    <3>3. PICK ps : ps = turn.calls \cap Past(thread, s)
      OBVIOUS
    <3>4. turn.calls \cap Past(thread', s) = ps \cup {r} /\ r \notin ps
      BY <1>4, <3>2, <3>3
    <3>5. Added(tokens, ps \cup {r}, s) = Added(tokens, ps, s) + tokens[r][s] /\ Added(tokens, ps, s) \in Nat
      BY <3>4, UsageTypes, AddedMore, AddedNat
    <3>6. counter[s] = turn.before[s] + Added(tokens, ps, s) /\ turn.before[s] \in Nat
      BY <2>4, <3>3, UsageTypes DEF UsageInv, ExactAlone, MeteredTurn
    <3>7. counter'[s] = counter[s] + tokens[r][s]
      BY <1>3, <2>1
    <3>8. Added(tokens, turn.calls \cap Past(thread', s), s) = Added(tokens, ps, s) + tokens[r][s]
      BY <3>4, <3>5
    <3> QED
      BY <1>5, <3>5, <3>6, <3>7, <3>8
  <2>5. \A t \in Sides :
          /\ counter'[t] = Added(tokens, Past(thread', t), t)
          /\ turn.runs => counter'[t] = turn.before[t] + Added(tokens, turn.calls \cap Past(thread', t), t)
    <3> SUFFICES ASSUME NEW t \in Sides
                 PROVE  /\ counter'[t] = Added(tokens, Past(thread', t), t)
                        /\ turn.runs => counter'[t] = turn.before[t] + Added(tokens, turn.calls \cap Past(thread', t), t)
      OBVIOUS
    <3>1. CASE t = s
      BY <2>2, <2>4, <3>1
    <3>2. CASE t # s
      <4>1. counter'[t] = counter[t] /\ Past(thread', t) = Past(thread, t)
        BY <1>3, <1>4, <3>2
      <4> QED
        BY <4>1 DEF UsageInv, ExactAlone
    <3> QED
      BY <3>1, <3>2
  <2>6. /\ \A p, q \in Ids : Live(p)' /\ Live(q)' => p = q
        /\ turn.runs => \A q \in Ids : Live(q)' => q = turn.awaits
    BY <1>2 DEF UsageInv, ExactAlone
  <2> QED
    BY <1>0, <2>3, <2>5, <2>6 DEF ExactAlone
<1> HIDE DEF v
<1> QED
  BY <1>0, <1>2, <1>7, <1>8, <1>9, <1>10, <1>11, <1>12, UsageTypes DEF UsageInv

LEMMA UsageStepInv == UsageInv /\ [UsageNext]_usageVars => UsageInv'
<1> SUFFICES ASSUME UsageInv, [UsageNext]_usageVars PROVE UsageInv'
  OBVIOUS
<1>1. CASE UNCHANGED usageVars
  <2>1. UsageTypeOK' /\ turn' \in MeteredTurn /\ bill' \in Seq(Bills)
    BY <1>1 DEF usageVars, UsageInv, UsageTypeOK
  <2>2. CallsInOrder' /\ RowsAreRight' /\ NeverOver' /\ SamplesInOrder' /\ BillIsRight'
    BY <1>1 DEF usageVars, UsageInv, CallsInOrder, RowsAreRight, NeverOver, SamplesInOrder, WindowIsRight, BillIsRight, Sum
  <2>3. ExactAlone'
    BY <1>1 DEF usageVars, UsageInv, ExactAlone, Live
  <2> QED
    BY <2>1, <2>2, <2>3 DEF UsageInv
<1> QED
  BY <1>1, BeginTurnInv, CallInv, RecordedInv, CountTurnInv, AbandonTurnInv, CloseInv, InsertInv, ReadCounterInv,
     WriteCounterInv DEF UsageNext

(* Once all threads are done, the calls past a side are those with a row.    *)
LEMMA UsageInvCounts == UsageInv => CountersAreRight
<1> SUFFICES ASSUME UsageInv, NEW s \in Sides
             PROVE  /\ counter[s] <= Sum(ToSet(log), s)
                    /\ alone /\ (\A r \in Ids : ~Live(r)) => counter[s] = Sum(ToSet(log), s)
  BY DEF CountersAreRight
<1>1. ToSet(log) \subseteq Ids
  BY UsageTypes DEF ToSet
<1>2. Past(thread, s) \subseteq ToSet(log)
  BY DEF UsageInv, RowsAreRight, Past, PastOf
<1>3. counter[s] <= Sum(ToSet(log), s)
  <2>1. /\ Added(tokens, Past(thread, s), s) <= Added(tokens, ToSet(log), s)
        /\ Added(tokens, Past(thread, s), s) \in Nat /\ Added(tokens, ToSet(log), s) \in Nat /\ counter[s] \in Nat
    BY <1>2, UsageTypes, AddedLess, AddedNat
  <2>2. counter[s] <= Added(tokens, Past(thread, s), s)
    BY DEF UsageInv, NeverOver
  <2> QED
    BY <2>1, <2>2 DEF Sum
<1>4. ASSUME alone, \A r \in Ids : ~Live(r) PROVE counter[s] = Sum(ToSet(log), s)
  <2>1. ASSUME NEW r \in ToSet(log) PROVE r \in Past(thread, s)
    <3>1. r \in Ids /\ thread[r] \notin {"none", "insert", "failed"}
      BY <1>1, <2>1 DEF UsageInv, RowsAreRight
    <3>2. thread[r] = "done"
      BY <1>4, <3>1 DEF Live
    <3> QED
      BY <3>1, <3>2 DEF Past, PastOf
  <2>2. Past(thread, s) = ToSet(log)
    BY <1>2, <2>1
  <2> QED
    BY <1>4, <2>2 DEF UsageInv, ExactAlone, Sum
<1> QED
  BY <1>3, <1>4

-----------------------------------------------------------------------------
(* The monitor.  Averages are rounded down.                                  *)
LEMMA TimesLess == ASSUME NEW p \in Int, NEW q \in Int, NEW n \in Nat \ {0}, p * n <= q * n PROVE p <= q
OBVIOUS

LEMMA TimesKeep == ASSUME NEW p \in Int, NEW q \in Int, NEW n \in Nat, p <= q PROVE p * n <= q * n
OBVIOUS

LEMMA QuotientIs ==
  ASSUME NEW a \in Nat, NEW n \in Nat \ {0}
  PROVE  a \div n \in Nat /\ (a \div n) * n <= a
OBVIOUS

LEMMA AverageIs ==
  ASSUME NEW a \in Nat, NEW b \in Nat, NEW m \in Nat, NEW n \in Nat \ {0}, a + b <= n * m
  PROVE  /\ a \div n \in Nat /\ b \div n \in Nat /\ (a + b) \div n \in Nat
         /\ (a \div n) + (b \div n) <= m /\ (a + b) \div n <= m
<1>1. PICK p \in Nat : p = a \div n /\ p * n <= a
  BY QuotientIs
<1>2. PICK q \in Nat : q = b \div n /\ q * n <= b
  BY QuotientIs
<1>3. PICK t \in Nat : t = (a + b) \div n /\ t * n <= a + b
  <2>1. a + b \in Nat
    OBVIOUS
  <2> QED
    BY <2>1, QuotientIs
<1>4. n * m = m * n /\ m * n \in Int
  OBVIOUS
<1>5. (p + q) * n = p * n + q * n /\ p * n \in Int /\ q * n \in Int /\ t * n \in Int
  OBVIOUS
<1>6. (p + q) * n <= m * n /\ t * n <= m * n
  BY <1>1, <1>2, <1>3, <1>4, <1>5
<1>7. p + q <= m /\ t <= m
  BY <1>6, TimesLess
<1> QED
  BY <1>1, <1>2, <1>3, <1>7

LEMMA MaxIs ==
  ASSUME NEW S, S # {}, NEW b \in Nat, S \subseteq 0..b
  PROVE  Max(S) \in S /\ \A y \in S : y <= Max(S)
<1> DEFINE T == {k \in 0..b : b - k \in S}
<1>1. T \subseteq Nat /\ T # {}
  <2>1. PICK y \in S : TRUE
    OBVIOUS
  <2>2. b - (b - y) = y /\ b - y \in 0..b
    OBVIOUS
  <2> QED
    BY <2>2
<1>2. PICK k \in T : \A j \in T : k <= j
  <2> HIDE DEF T
  <2> QED
    BY <1>1, SmallestOf
<1>3. ASSUME NEW y \in S PROVE b - k >= y
  <2>1. b - y \in T
    <3>1. b - (b - y) = y /\ b - y \in 0..b
      OBVIOUS
    <3> QED
      BY <3>1
  <2>2. k <= b - y
    BY <1>2, <2>1
  <2> QED
    BY <2>2
<1>4. b - k \in S /\ \A y \in S : b - k >= y
  BY <1>3
<1>5. Max(S) \in S /\ \A y \in S : Max(S) >= y
  BY <1>4 DEF Max
<1>6. \A y \in S : y \in Int
  OBVIOUS
<1> QED
  BY <1>5, <1>6

LEMMA HitsAre ==
  ASSUME samples \in Seq(Ids), NEW level
  PROVE  /\ Hits(level) \in Nat
         /\ Hits(level) > 0 <=> \E i \in DOMAIN samples : Classify(Total(samples[i])) = level
<1>1. PICK keep : keep = [i \in DOMAIN samples |-> Classify(Total(samples[i])) = level]
  OBVIOUS
<1>2. DOMAIN samples = 1..Len(samples) /\ keep \in [1..Len(samples) -> BOOLEAN]
      /\ \A i \in DOMAIN samples : keep[i] <=> Classify(Total(samples[i])) = level
  <2>1. DOMAIN samples = 1..Len(samples)
    OBVIOUS
  <2> QED
    BY <1>1, <2>1
<1>3. PICK w : w = Filter(samples, keep)
  OBVIOUS
<1>4. w \in Seq(Ids) /\ \E spot : Picks(spot, w, samples, keep)
  BY <1>2, <1>3, FilterIs
<1>5. PICK spot : Picks(spot, w, samples, keep)
  BY <1>4
<1>6. Hits(level) = Len(w) /\ Len(w) \in Nat
  BY <1>1, <1>3, <1>4 DEF Hits
<1>7. ASSUME Len(w) > 0 PROVE \E i \in DOMAIN samples : Classify(Total(samples[i])) = level
  <2>1. 1 \in 1..Len(w)
    BY <1>6, <1>7
  <2>2. spot[1] \in DOMAIN samples /\ keep[spot[1]]
    BY <1>2, <1>5, <2>1 DEF Picks
  <2> QED
    BY <1>2, <2>2
<1>8. ASSUME NEW i \in DOMAIN samples, Classify(Total(samples[i])) = level PROVE Len(w) > 0
  <2>1. PICK j \in 1..Len(w) : spot[j] = i
    BY <1>2, <1>5, <1>8 DEF Picks
  <2> QED
    BY <1>6, <2>1
<1> QED
  BY <1>6, <1>7, <1>8

LEMMA ClassifyIs ==
  ASSUME NEW n \in Nat
  PROVE  /\ Classify(n) = "critical" <=> n >= Hard
         /\ Classify(n) \in {"warn", "critical"} <=> n >= Warn
         /\ Classify(n) \in {"ok", "warn", "critical"}
BY UsageAssumption DEF Classify

LEMMA UsageInvMonitor == UsageInv => MonitorIsRight
<1> SUFFICES ASSUME UsageInv, samples # <<>> PROVE MonitorIsRight
  BY DEF MonitorIsRight
<1> DEFINE n == Len(samples)
           S == ToSet(samples)
           T == {Total(r) : r \in S}
           m == Max(T)
<1>1. samples \in Seq(Ids) /\ n \in Nat \ {0} /\ DOMAIN samples = 1..n /\ S \subseteq Ids /\ S # {}
  <2>1. samples \in Seq(Ids) /\ n \in Nat \ {0} /\ DOMAIN samples = 1..n
    BY UsageTypes
  <2> QED
    BY <2>1 DEF ToSet
<1>2. \A r \in Ids : Total(r) \in 0 .. 2 * MaxTokens
  <2> SUFFICES ASSUME NEW r \in Ids PROVE Total(r) \in 0 .. 2 * MaxTokens
    OBVIOUS
  <2>1. tokens[r]["input"] \in 0..MaxTokens /\ tokens[r]["output"] \in 0..MaxTokens
    BY SidesAre, UsageTypes, CostIs
  <2> QED
    BY <2>1, IdsAre DEF Total
<1>3. m \in T /\ \A y \in T : y <= m
  <2>1. T # {} /\ T \subseteq 0 .. 2 * MaxTokens /\ 2 * MaxTokens \in Nat
    BY <1>1, <1>2, IdsAre
  <2> HIDE DEF T
  <2> QED
    BY <2>1, MaxIs
<1> HIDE DEF m
<1>4. m \in Nat /\ \A i \in 1..n : Total(samples[i]) <= m /\ Total(samples[i]) \in Nat
  <2>1. \A i \in 1..n : samples[i] \in S /\ samples[i] \in Ids
    BY <1>1 DEF ToSet
  <2> QED
    BY <1>1, <1>2, <1>3, <2>1, IdsAre
<1>5. PICK top \in 1..n : Total(samples[top]) = m
  <2>1. PICK r \in S : Total(r) = m
    BY <1>3
  <2> QED
    BY <1>1, <2>1 DEF ToSet
<1>6. Last(samples) = samples[n] /\ n \in 1..n
  BY <1>1 DEF Last
<1>7. PICK l \in Nat : l = Total(Last(samples)) /\ l <= m
  BY <1>4, <1>6
<1>8. PICK a \in Nat, b \in Nat :
        /\ a = Sum(S, "input") /\ b = Sum(S, "output") /\ a + b <= n * m
  <2>1. S \in SUBSET Ids /\ tokens \in Costs /\ \A r \in S : tokens[r]["input"] + tokens[r]["output"] <= m
    BY <1>1, <1>3, UsageTypes DEF Total
  <2>2. Cardinality(S) \in Nat /\ Sum(S, "input") + Sum(S, "output") <= Cardinality(S) * m
    BY <1>4, <2>1, AddedBoth DEF Sum
  <2>3. Sum(S, "input") \in Nat /\ Sum(S, "output") \in Nat
    BY <2>1, SidesAre, AddedNat DEF Sum
  <2>4. Cardinality(S) <= n
    <3>1. samples \in Surjection(1..n, S)
      BY <1>1 DEF Surjection, ToSet
    <3> QED
      BY <1>1, <3>1, FS_SurjCardinalityBound DEF ExistsSurjection
  <2>5. Cardinality(S) * m <= n * m /\ Cardinality(S) * m \in Int /\ n * m \in Int
    BY <1>1, <1>4, <2>2, <2>4, TimesKeep
  <2> QED
    BY <2>2, <2>3, <2>5
<1>9. PICK x \in Nat, y \in Nat, z \in Nat :
        x = a \div n /\ y = b \div n /\ z = (a + b) \div n /\ x + y <= m /\ z <= m
  <2>1. n \in Nat \ {0} /\ m \in Nat /\ a + b <= n * m
    BY <1>1, <1>4, <1>8
  <2>2. /\ a \div n \in Nat /\ b \div n \in Nat /\ (a + b) \div n \in Nat
        /\ (a \div n) + (b \div n) <= m /\ (a + b) \div n <= m
    BY <2>1, AverageIs
  <2> QED
    BY <2>2
<1>10. Status.max = m /\ Status.warnings = Hits("warn") /\ Status.critical = Hits("critical")
       /\ Status.average["input"] = x /\ Status.average["output"] = y
  BY <1>8, <1>9, SidesAre DEF Status, m
<1>11. FallbackAction = "truncate" <=> l >= Hard
  BY <1>7, ClassifyIs DEF FallbackAction
<1>12. FallbackAction # "none" => ShouldFallBack
  BY <1>7, ClassifyIs DEF FallbackAction, ShouldFallBack
<1>13. ShouldFallBack => m >= Warn
  <2>1. ShouldFallBack => l >= Warn \/ z >= Warn
    BY <1>7, <1>8, <1>9, ClassifyIs DEF ShouldFallBack
  <2> QED
    BY <1>4, <1>7, <1>9, <2>1, UsageAssumption
<1>14. Hits("warn") \in Nat /\ Hits("critical") \in Nat
  BY <1>1, HitsAre
<1>15. m >= Warn => Hits("warn") + Hits("critical") > 0
  <2>1. m >= Warn => Classify(Total(samples[top])) \in {"warn", "critical"} /\ top \in DOMAIN samples
    BY <1>1, <1>4, <1>5, ClassifyIs
  <2>2. m >= Warn => Hits("warn") > 0 \/ Hits("critical") > 0
    BY <1>1, <2>1, HitsAre
  <2> QED
    BY <1>14, <2>2
<1>16. Classify(m) = "critical" <=> Hits("critical") > 0
  <2>1. ASSUME m >= Hard PROVE Hits("critical") > 0
    <3>1. Classify(Total(samples[top])) = "critical" /\ top \in DOMAIN samples
      BY <1>1, <1>4, <1>5, <2>1, ClassifyIs
    <3> QED
      BY <1>1, <3>1, HitsAre
  <2>2. ASSUME Hits("critical") > 0 PROVE m >= Hard
    <3>1. PICK i \in 1..n : Classify(Total(samples[i])) = "critical"
      BY <1>1, <2>2, HitsAre
    <3>2. Total(samples[i]) >= Hard
      BY <1>4, <3>1, ClassifyIs
    <3> QED
      BY <1>4, <3>2, UsageAssumption
  <2> QED
    BY <1>4, <2>1, <2>2, ClassifyIs
<1> QED
  BY <1>7, <1>9, <1>10, <1>11, <1>12, <1>13, <1>15, <1>16 DEF MonitorIsRight

-----------------------------------------------------------------------------
(* The budget of a prompt: what was taken fits, and the loop ended early     *)
(* only at a chunk that does not.                                            *)
BudgetInv ==
  /\ BudgetTypeOK /\ chosen <= at /\ at <= Len(prompt.joined)
  /\ estimate = (IF chosen = 0 THEN prompt.base ELSE prompt.base + prompt.joined[chosen])
  /\ \A i \in 1..chosen : prompt.base + prompt.joined[i] <= Budget
  /\ at # chosen => /\ at = Len(prompt.joined) /\ chosen < at
                    /\ prompt.base + prompt.joined[chosen + 1] > Budget

LEMMA PromptIs ==
  ASSUME prompt \in Prompts
  PROVE  /\ prompt.max \in 0..MaxWindow /\ prompt.reserve \in 0..MaxWindow /\ prompt.base \in 0..MaxWindow
         /\ Budget \in Nat /\ MaxWindow \in Nat /\ MaxChunks \in Nat
         /\ Len(prompt.joined) \in 0..MaxChunks /\ DOMAIN prompt.joined = 1..Len(prompt.joined)
         /\ \A i \in 1..Len(prompt.joined) : prompt.joined[i] \in 0..MaxWindow
         /\ \A i, j \in 1..Len(prompt.joined) : i < j => prompt.joined[i] <= prompt.joined[j]
<1>1. MaxWindow \in Nat /\ MaxChunks \in Nat
  BY UsageAssumption
<1>2. prompt.max \in 0..MaxWindow /\ prompt.reserve \in 0..MaxWindow /\ prompt.base \in 0..MaxWindow
      /\ prompt.joined \in UNION {Rising(n) : n \in 0..MaxChunks}
  BY DEF Prompts
<1>3. PICK n \in 0..MaxChunks : prompt.joined \in Rising(n)
  BY <1>2
<1>4. PICK f : f = prompt.joined
  OBVIOUS
<1>5. f \in [1..n -> 0..MaxWindow] /\ \A i, j \in 1..n : i < j => f[i] <= f[j]
  BY <1>3, <1>4 DEF Rising
<1>6. Len(f) = n /\ DOMAIN f = 1..n
  BY <1>1, <1>5
<1>7. Budget \in Nat
  BY <1>1, <1>2 DEF Budget
<1> QED
  BY <1>1, <1>2, <1>4, <1>5, <1>6, <1>7

LEMMA BudgetInitInv == BudgetInit => BudgetInv
<1> SUFFICES ASSUME BudgetInit PROVE BudgetInv
  OBVIOUS
<1>1. prompt \in Prompts /\ at = 0 /\ chosen = 0 /\ estimate = prompt.base
  BY DEF BudgetInit
<1>2. /\ 0 \in 0 .. MaxChunks + 1 /\ 0 \in 0..MaxChunks /\ prompt.base \in 0 .. 2 * MaxWindow
      /\ 0 <= Len(prompt.joined)
  BY <1>1, PromptIs
<1> QED
  BY <1>1, <1>2 DEF BudgetInv, BudgetTypeOK

LEMMA BudgetStepInv == BudgetInv /\ [BudgetNext]_budgetVars => BudgetInv'
<1> SUFFICES ASSUME BudgetInv, [BudgetNext]_budgetVars PROVE BudgetInv'
  OBVIOUS
<1>0. /\ prompt \in Prompts /\ at \in Nat /\ chosen \in Nat /\ estimate \in Nat
      /\ prompt' = prompt /\ Budget' = Budget
  <2>1. prompt \in Prompts /\ at \in Nat /\ chosen \in Nat /\ estimate \in Nat
    BY UsageAssumption DEF BudgetInv, BudgetTypeOK
  <2>2. prompt' = prompt
    BY DEF BudgetNext, TakeChunk, budgetVars
  <2> QED
    BY <2>1, <2>2 DEF Budget
<1>1. CASE TakeChunk
  <2>1. PICK d \in Nat : d = prompt.base + prompt.joined[at + 1] /\ d \in 0 .. 2 * MaxWindow
    <3>1. at + 1 \in 1..Len(prompt.joined)
      BY <1>0, <1>1, PromptIs DEF TakeChunk
    <3> QED
      BY <1>0, <3>1, PromptIs
  <2>2. at < Len(prompt.joined) /\ at = chosen
    BY <1>0, <1>1, PromptIs DEF TakeChunk, BudgetInv
  <2>3. CASE d > Budget
    <3>1. at' = Len(prompt.joined) /\ chosen' = chosen /\ estimate' = estimate
      BY <1>1, <2>1, <2>3 DEF TakeChunk
    <3>2. BudgetTypeOK'
      BY <1>0, <3>1, PromptIs DEF BudgetInv, BudgetTypeOK
    <3> QED
      BY <1>0, <2>1, <2>2, <2>3, <3>1, <3>2, PromptIs DEF BudgetInv
  <2>4. CASE ~(d > Budget)
    <3>1. at' = at + 1 /\ chosen' = chosen + 1 /\ estimate' = d
      BY <1>1, <2>1, <2>4 DEF TakeChunk
    <3>2. d <= Budget /\ chosen' # 0 /\ chosen' = at' /\ chosen' \in 0..MaxChunks /\ at' <= Len(prompt.joined)
      BY <1>0, <2>1, <2>2, <2>4, <3>1, PromptIs
    <3>3. BudgetTypeOK'
      BY <1>0, <2>1, <3>1, <3>2, PromptIs DEF BudgetInv, BudgetTypeOK
    <3>4. \A i \in 1..chosen' : prompt.base + prompt.joined[i] <= Budget
      <4> SUFFICES ASSUME NEW i \in 1..chosen + 1 PROVE prompt.base + prompt.joined[i] <= Budget
        BY <3>1
      <4>1. i \in 1..chosen \/ i = at + 1
        BY <1>0, <2>2
      <4> QED
        BY <2>1, <3>2, <4>1 DEF BudgetInv
    <3>5. estimate' = prompt.base + prompt.joined[chosen']
      BY <2>1, <2>2, <3>1
    <3> QED
      BY <1>0, <3>2, <3>3, <3>4, <3>5 DEF BudgetInv
  <2> QED
    BY <2>3, <2>4
<1>2. CASE UNCHANGED budgetVars
  BY <1>0, <1>2 DEF budgetVars, BudgetInv, BudgetTypeOK
<1> QED
  BY <1>1, <1>2 DEF BudgetNext

(* The model selected is the first that fits, of all in their order.         *)
LEMMA SelectedIs ==
  ASSUME prompt \in Prompts, NEW windows \in SUBSET (1..MaxWindow)
  PROVE  IF SelectModel(windows) = 0 THEN \A w \in windows : w <= prompt.base
         ELSE \A w \in windows : w < SelectModel(windows) => w <= prompt.base
<1>0. MaxWindow \in Nat /\ prompt.base \in Nat
  BY PromptIs
<1>1. PICK n \in Nat : n = MaxWindow /\ prompt.base \in Nat
  BY <1>0
<1> DEFINE all == [w \in 1..n |-> w]
           wanted == [w \in 1..n |-> w \in windows]
<1>2. /\ all \in Seq(1..n) /\ Len(all) = n /\ wanted \in [1..Len(all) -> BOOLEAN]
      /\ \A w \in 1..n : all[w] = w /\ (wanted[w] <=> w \in windows)
  <2>1. all \in [1..n -> 1..n]
    OBVIOUS
  <2>2. all \in Seq(1..n) /\ Len(all) = n
    BY <1>1, <2>1
  <2>3. wanted \in [1..n -> BOOLEAN]
    OBVIOUS
  <2>4. \A w \in 1..n : all[w] = w
    OBVIOUS
  <2>5. \A w \in 1..n : wanted[w] <=> w \in windows
    OBVIOUS
  <2> HIDE DEF all, wanted
  <2> QED
    BY <2>2, <2>3, <2>4, <2>5
<1>3. PICK sorted : sorted = Filter(all, wanted)
  OBVIOUS
<1> HIDE DEF all, wanted
<1>4. sorted \in Seq(1..n) /\ \E spot : Picks(spot, sorted, all, wanted)
  BY <1>2, <1>3, FilterIs
<1>5. PICK spot : Picks(spot, sorted, all, wanted)
  BY <1>4
<1>6. DOMAIN sorted = 1..Len(sorted) /\ Len(sorted) \in Nat /\ \A i \in 1..Len(sorted) : sorted[i] \in 1..n
  <2>1. sorted \in Seq(1..n)
    BY <1>4
  <2> QED
    BY <2>1
<1>7. /\ \A i \in 1..Len(sorted) : sorted[i] = spot[i] /\ sorted[i] \in windows
      /\ \A i, j \in 1..Len(sorted) : i < j => sorted[i] < sorted[j]
      /\ \A w \in windows : \E i \in 1..Len(sorted) : sorted[i] = w
  <2>1. /\ spot \in [1..Len(sorted) -> 1..n]
        /\ \A i \in 1..Len(sorted) : wanted[spot[i]] /\ sorted[i] = all[spot[i]]
        /\ \A i, j \in 1..Len(sorted) : i < j => spot[i] < spot[j]
        /\ \A w \in 1..n : wanted[w] => \E i \in 1..Len(sorted) : spot[i] = w
    BY <1>2, <1>5 DEF Picks
  <2>2. \A i \in 1..Len(sorted) : spot[i] \in 1..n
    BY <2>1
  <2>3. \A i \in 1..Len(sorted) : sorted[i] = spot[i] /\ sorted[i] \in windows
    BY <1>2, <2>1, <2>2
  <2>4. \A w \in windows : w \in 1..n
    BY <1>1
  <2> QED
    BY <1>2, <2>1, <2>3, <2>4
<1>8. PICK fits : fits = [i \in DOMAIN sorted |-> prompt.base + 1 <= sorted[i]]
  OBVIOUS
<1>9. fits \in [1..Len(sorted) -> BOOLEAN] /\ \A i \in 1..Len(sorted) : fits[i] <=> prompt.base + 1 <= sorted[i]
  <2>1. fits = [i \in 1..Len(sorted) |-> prompt.base + 1 <= sorted[i]]
    BY <1>6, <1>8
  <2>2. fits \in [1..Len(sorted) -> BOOLEAN]
    BY <2>1
  <2>3. \A i \in 1..Len(sorted) : fits[i] <=> prompt.base + 1 <= sorted[i]
    BY <2>1
  <2> QED
    BY <2>2, <2>3
<1>10. PICK fitting : fitting = Filter(sorted, fits)
  OBVIOUS
<1>11. fitting \in Seq(1..n) /\ \E at2 : Picks(at2, fitting, sorted, fits)
  BY <1>4, <1>9, <1>10, FilterIs
<1>12. PICK where : Picks(where, fitting, sorted, fits)
  BY <1>11
<1>13. SelectModel(windows) = IF fitting = <<>> THEN 0 ELSE Head(fitting)
  BY <1>1, <1>3, <1>8, <1>10 DEF SelectModel, all, wanted
<1>14. /\ where \in [1..Len(fitting) -> 1..Len(sorted)]
       /\ \A i \in 1..Len(fitting) : fits[where[i]] /\ fitting[i] = sorted[where[i]]
       /\ \A i, j \in 1..Len(fitting) : i < j => where[i] < where[j]
       /\ \A k \in 1..Len(sorted) : fits[k] => \E i \in 1..Len(fitting) : where[i] = k
  BY <1>12 DEF Picks
<1>15. CASE fitting = <<>>
  <2>1. Len(fitting) = 0 /\ SelectModel(windows) = 0
    BY <1>13, <1>15
  <2>2. ASSUME NEW w \in windows PROVE w <= prompt.base
    <3>1. PICK i \in 1..Len(sorted) : sorted[i] = w
      BY <1>7
    <3>2. ~fits[i]
      BY <1>14, <2>1
    <3>3. w \in Nat
      BY <1>6, <3>1
    <3> QED
      BY <1>1, <1>9, <3>1, <3>2, <3>3
  <2> QED
    BY <2>1, <2>2
<1>16. CASE fitting # <<>>
  <2>1. Len(fitting) \in Nat \ {0} /\ Head(fitting) = fitting[1] /\ 1 \in 1..Len(fitting)
    BY <1>11, <1>16
  <2>2. PICK k \in 1..Len(sorted) : k = where[1] /\ fits[k] /\ Head(fitting) = sorted[k]
    BY <1>14, <2>1
  <2>3. SelectModel(windows) = sorted[k] /\ sorted[k] \in 1..n
    BY <1>6, <1>13, <1>16, <2>2
  <2>4. ASSUME NEW w \in windows, w < sorted[k] PROVE w <= prompt.base
    <3>1. PICK i \in 1..Len(sorted) : sorted[i] = w
      BY <1>7
    <3>2. i < k
      <4>1. i # k /\ ~(k < i)
        <5>1. w \in Nat /\ sorted[k] \in Nat
          BY <1>6, <2>3, <3>1
        <5>2. k < i => sorted[k] < sorted[i]
          BY <1>7
        <5> QED
          BY <2>4, <3>1, <5>1, <5>2
      <4> QED
        BY <4>1, <1>6
    <3>3. ~fits[i]
      <4> SUFFICES ASSUME fits[i] PROVE FALSE
        OBVIOUS
      <4>1. PICK j \in 1..Len(fitting) : where[j] = i
        BY <1>14
      <4>2. j = 1 \/ 1 < j
        BY <2>1
      <4>3. 1 < j => where[1] < where[j]
        BY <1>14, <2>1
      <4> QED
        BY <1>6, <2>2, <3>2, <4>1, <4>2, <4>3
    <3>4. w \in Nat
      BY <1>6, <3>1
    <3> QED
      BY <1>1, <1>9, <3>1, <3>3, <3>4
  <2> QED
    BY <1>1, <2>3, <2>4
<1> QED
  BY <1>15, <1>16

LEMMA BudgetInvKept == BudgetInv => BudgetIsKept
<1> SUFFICES ASSUME BudgetInv, at = Len(prompt.joined) PROVE BudgetIsKept
  BY DEF BudgetIsKept, Assembled
<1> DEFINE n == Len(prompt.joined)
<1>0. prompt \in Prompts /\ chosen \in Nat /\ n \in Nat /\ chosen <= n /\ estimate \in Nat
      /\ prompt.base \in Nat /\ Budget \in Nat /\ DOMAIN prompt.joined = 1..n
      /\ \A i \in 1..n : prompt.joined[i] \in Nat
  BY UsageAssumption, PromptIs DEF BudgetInv, BudgetTypeOK
<1>1. chosen < n => prompt.base + prompt.joined[chosen + 1] > Budget
  BY <1>0 DEF BudgetInv
<1>2. chosen > 0 => prompt.base + prompt.joined[chosen] <= Budget /\ estimate = prompt.base + prompt.joined[chosen]
                    /\ prompt.joined[chosen] \in Nat
  BY <1>0 DEF BudgetInv
<1>3. chosen = 0 => estimate = prompt.base
  BY DEF BudgetInv
<1>4. (NeedsFallback <=> prompt.base > Budget) /\ (NeedsFallback => chosen = 0)
  BY <1>0, <1>2, <1>3 DEF NeedsFallback
<1>5. SuggestTopK = chosen
  <2> DEFINE Fits(i) == prompt.base + prompt.joined[i] <= Budget
  <2>1. {k \in 1..n : \A i \in 1..k : Fits(i)} = 1..chosen
    <3>1. \A i \in 1..chosen : Fits(i)
      BY DEF BudgetInv
    <3>2. ASSUME NEW k \in 1..n, \A i \in 1..k : Fits(i) PROVE k \in 1..chosen
      <4> SUFFICES ASSUME k > chosen PROVE FALSE
        BY <1>0
      <4>1. chosen + 1 \in 1..k /\ chosen < n /\ chosen + 1 \in 1..n
        BY <1>0
      <4>2. Fits(chosen + 1)
        BY <3>2, <4>1
      <4> QED
        BY <1>0, <1>1, <4>1, <4>2
    <3>3. \A k \in 1..chosen : k \in 1..n /\ \A i \in 1..k : i \in 1..chosen
      BY <1>0
    <3> QED
      BY <3>1, <3>2, <3>3
  <2>2. Cardinality(1..chosen) = chosen
    BY <1>0, FS_Interval
  <2> QED
    BY <1>0, <2>1, <2>2 DEF SuggestTopK
<1>6. prompt.base < prompt.max => (PlanFits <=> Overflow = 0) /\ prompt.base + MaxOutput = prompt.max
  BY <1>0, PromptIs DEF PlanFits, Overflow, MaxOutput
<1>7. \A windows \in SUBSET (1..MaxWindow) :
        IF SelectModel(windows) = 0 THEN \A w \in windows : w <= prompt.base
        ELSE \A w \in windows : w < SelectModel(windows) => w <= prompt.base
  BY <1>0, SelectedIs
<1> QED
  BY <1>1, <1>4, <1>5, <1>6, <1>7 DEF BudgetIsKept

-----------------------------------------------------------------------------
(* The agents' folders.  A terminal that fills a folder has made it; a flag  *)
(* is the newest pause of its agent, and nobody has settled that; who was    *)
(* asked about a pause was asked about one that is no newer.                 *)
Numbered(n) ==
  /\ flag \in [Folders -> 0..n] /\ newest \in [Folders -> 0..n]
  /\ about \in [Consoles -> 0..n] /\ settled \in Seq((0..n) \X (0..n))

FoldersTyped ==
  /\ parts \in [Folders -> SUBSET Parts] /\ step \in [Consoles -> Steps]
  /\ with \in [Consoles -> Folders] /\ pauses \in 0..MaxPauses /\ kills \in 0..MaxKills

FillsFolder ==
  \A c \in Consoles :
    /\ step[c] \in {"fill", "finish"} => "folder" \in parts[with[c]]
    /\ step[c] = "finish" => "files" \in parts[with[c]]

FoldersWhole ==
  \A a \in Folders :
    kills = 0 /\ Exists(a) /\ parts[a] # Parts =>
      \E c \in Consoles : with[c] = a /\ step[c] \in {"fill", "finish"}

AskedBefore ==
  \A c \in Consoles :
    step[c] \in {"approve", "reason", "reject"} => about[c] \in 1 .. newest[with[c]]

FlagsOpen ==
  /\ \A a \in Folders : flag[a] # 0 =>
       flag[a] = newest[a] /\ \A i \in DOMAIN settled : settled[i][1] # flag[a]
  /\ \A a, b \in Folders : a # b /\ newest[a] = newest[b] => newest[a] = 0
  /\ \A a \in Folders : flag[a] # newest[a] =>
       flag[a] = 0 /\ \E i \in DOMAIN settled : settled[i][1] = newest[a]

SettledOnce ==
  /\ \A i, j \in DOMAIN settled : i # j => settled[i][1] # settled[j][1]
  /\ \A i \in DOMAIN settled : settled[i][2] \in 1 .. settled[i][1]

FoldersInv ==
  /\ Numbered(pauses) /\ FoldersTyped /\ FillsFolder /\ FoldersWhole
  /\ AskedBefore /\ FlagsOpen /\ SettledOnce

LEMMA FoldersInitInv == FoldersInit => FoldersInv
<1> SUFFICES ASSUME FoldersInit PROVE FoldersInv
  OBVIOUS
<1> USE FoldersAssumption DEF FoldersInit
<1>1. Numbered(pauses)
  BY DEF Numbered
<1>2. (CHOOSE a \in Folders : TRUE) \in Folders
  OBVIOUS
<1>3. FoldersTyped
  BY <1>2 DEF FoldersTyped, Parts, Steps
<1>4. FillsFolder /\ FoldersWhole /\ AskedBefore
  BY <1>2 DEF FillsFolder, FoldersWhole, AskedBefore, Exists
<1>5. FlagsOpen /\ SettledOnce
  BY DEF FlagsOpen, SettledOnce
<1> QED
  BY <1>1, <1>3, <1>4, <1>5 DEF FoldersInv

(* Making and filling folders.                                               *)
LEMMA MadeKeeps ==
  ASSUME FoldersInv, NEW c \in Consoles,
         MakeFolder(c) \/ FillFolder(c) \/ FinishFolder(c)
  PROVE  FoldersInv'
<1> USE DEF FoldersInv, MakeFolder, FillFolder, FinishFolder, Made, Goes
<1>1. Numbered(pauses)' /\ FlagsOpen' /\ SettledOnce'
  BY DEF Numbered, FlagsOpen, SettledOnce
<1>2. with[c] \in Folders /\ parts[with[c]] \subseteq Parts /\ step[c] \in Steps
  BY DEF FoldersTyped
<1>3. FoldersTyped'
  BY <1>2 DEF FoldersTyped, Parts, Steps
<1>4. FillsFolder'
  BY DEF FillsFolder, FoldersTyped
<1>5. FoldersWhole'
  <2> SUFFICES ASSUME NEW a \in Folders, kills = 0, "folder" \in parts'[a], parts'[a] # Parts
               PROVE  \E d \in Consoles : with'[d] = a /\ step'[d] \in {"fill", "finish"}
    BY DEF FoldersWhole, Exists
  <2>1. CASE with[c] = a /\ ~FinishFolder(c)
    <3>1. step'[c] \in {"fill", "finish"}
      BY <2>1 DEF FoldersTyped
    <3> QED
      BY <2>1, <3>1
  <2>2. CASE with[c] = a /\ FinishFolder(c)
    <3>1. parts'[a] = parts[a] \cup {"interrupted"} /\ "folder" \in parts[a] /\ "files" \in parts[a]
      BY <2>2, <1>2 DEF FoldersTyped, FillsFolder
    <3> QED
      BY <1>2, <2>2, <3>1 DEF Parts
  <2>3. CASE with[c] # a
    <3>1. parts'[a] = parts[a]
      BY <2>3 DEF FoldersTyped
    <3>2. PICK d \in Consoles : with[d] = a /\ step[d] \in {"fill", "finish"}
      BY <3>1 DEF FoldersWhole, Exists
    <3>3. step'[d] = step[d] /\ with'[d] = with[d]
      BY <2>3, <3>2 DEF FoldersTyped
    <3> QED
      BY <3>2, <3>3
  <2> QED
    BY <2>1, <2>2, <2>3
<1>6. AskedBefore'
  BY DEF AskedBefore, FoldersTyped
<1> QED
  BY <1>1, <1>3, <1>4, <1>5, <1>6

(* A terminal that goes on, or back, without changing anything of an agent.  *)
LEMMA GoingKeeps ==
  ASSUME FoldersInv, NEW c \in Consoles, NEW to \in Steps \ {"fill", "finish"},
         step[c] \notin {"fill", "finish"} \/ kills' # 0,
         step' = [step EXCEPT ![c] = to],
         kills' \in 0..MaxKills, kills' >= kills,
         with' \in [Consoles -> Folders], \A d \in Consoles : d # c => with'[d] = with[d],
         about' \in [Consoles -> 0..pauses], \A d \in Consoles : d # c => about'[d] = about[d],
         to \in {"approve", "reason", "reject"} => about'[c] \in 1 .. newest[with'[c]],
         UNCHANGED <<parts, flag, newest, pauses, settled>>
  PROVE  FoldersInv'
<1> USE DEF FoldersInv
<1>1. Numbered(pauses)' /\ FlagsOpen' /\ SettledOnce'
  BY DEF Numbered, FlagsOpen, SettledOnce
<1>2. FoldersTyped'
  BY DEF FoldersTyped
<1>3. \A d \in Consoles : step'[d] = IF d = c THEN to ELSE step[d]
  BY DEF FoldersTyped
<1>4. FillsFolder'
  BY <1>3 DEF FillsFolder
<1>5. FoldersWhole'
  <2> SUFFICES ASSUME NEW a \in Folders, kills' = 0, "folder" \in parts[a], parts[a] # Parts
               PROVE  \E d \in Consoles : with'[d] = a /\ step'[d] \in {"fill", "finish"}
    BY DEF FoldersWhole, Exists
  <2>1. kills = 0
    BY DEF FoldersTyped
  <2>2. PICK d \in Consoles : with[d] = a /\ step[d] \in {"fill", "finish"}
    BY <2>1 DEF FoldersWhole, Exists
  <2> QED
    BY <1>3, <2>2
<1>6. AskedBefore'
  BY <1>3 DEF AskedBefore
<1> QED
  BY <1>1, <1>2, <1>4, <1>5, <1>6

LEMMA AskingKeeps ==
  ASSUME FoldersInv, NEW c \in Consoles,
         \/ Create(c) \/ AskPause(c) \/ AskApprove(c) \/ AskReject(c)
         \/ GiveReason(c) \/ Decline(c) \/ Kill(c)
  PROVE  FoldersInv'
<1> USE DEF FoldersInv
<1>0. FoldersTyped /\ Numbered(pauses) /\ kills \in Nat
  BY DEF FoldersTyped
<1>1. CASE Create(c)
  <2>1. PICK a \in Folders : with' = [with EXCEPT ![c] = a]
    BY <1>1 DEF Create
  <2>2. with' \in [Consoles -> Folders] /\ \A d \in Consoles : d # c => with'[d] = with[d]
    BY <1>0, <2>1 DEF FoldersTyped
  <2>3. /\ step[c] = "ready" /\ step' = [step EXCEPT ![c] = "make"]
        /\ UNCHANGED <<parts, flag, about, newest, pauses, settled, kills>>
    BY <1>1 DEF Create, Goes
  <2>4. "make" \in Steps \ {"fill", "finish"}
    BY DEF Steps
  <2>5. kills' \in 0..MaxKills /\ kills' >= kills /\ about' \in [Consoles -> 0..pauses]
    BY <1>0, <2>3 DEF FoldersTyped, Numbered
  <2> HIDE DEF FoldersInv
  <2> QED
    BY <2>2, <2>3, <2>4, <2>5, GoingKeeps
<1>2. ASSUME NEW a \in Folders, NEW question \in {"pause", "approve", "reason"}, Asks(c, a, question),
             question # "pause" => flag[a] # 0
      PROVE  FoldersInv'
  <2>1. with' = [with EXCEPT ![c] = a] /\ about' = [about EXCEPT ![c] = newest[a]]
    BY <1>2 DEF Asks
  <2>2. newest[a] \in 0..pauses /\ flag[a] \in 0..pauses
    BY <1>0 DEF Numbered
  <2>3. /\ with' \in [Consoles -> Folders] /\ with'[c] = a
        /\ \A d \in Consoles : d # c => with'[d] = with[d]
    BY <1>0, <2>1 DEF FoldersTyped
  <2>4. /\ about' \in [Consoles -> 0..pauses] /\ about'[c] = newest[a]
        /\ \A d \in Consoles : d # c => about'[d] = about[d]
    BY <1>0, <2>1, <2>2 DEF Numbered
  <2>5. /\ step[c] = "ready" /\ step' = [step EXCEPT ![c] = question]
        /\ UNCHANGED <<parts, flag, newest, pauses, settled, kills>>
    BY <1>2 DEF Asks, Goes
  <2>6. question \in Steps \ {"fill", "finish"}
    BY <1>2 DEF Steps
  <2>7. kills' \in 0..MaxKills /\ kills' >= kills
    BY <1>0, <2>5 DEF FoldersTyped
  <2>8. question \in {"approve", "reason", "reject"} => about'[c] \in 1 .. newest[with'[c]]
    <3>1. question # "pause" => newest[a] # 0 /\ newest[a] \in Nat
      BY <1>2, <2>2 DEF FlagsOpen
    <3> QED
      BY <2>3, <2>4, <3>1
  <2> HIDE DEF FoldersInv
  <2> QED
    BY <2>3, <2>4, <2>5, <2>6, <2>7, <2>8, GoingKeeps
<1>3. CASE GiveReason(c) \/ Decline(c) \/ Kill(c)
  <2>1. PICK to \in {"reject", "ready"} :
          /\ step' = [step EXCEPT ![c] = to] /\ (to = "reject" => step[c] = "reason")
          /\ step[c] \notin {"fill", "finish"} \/ kills' # 0
          /\ kills' \in 0..MaxKills /\ kills' >= kills
          /\ UNCHANGED <<parts, flag, with, about, newest, pauses, settled>>
    <3>1. CASE GiveReason(c)
      BY <1>0, <3>1 DEF GiveReason, Goes, FoldersTyped
    <3>2. CASE Decline(c)
      BY <1>0, <3>2 DEF Decline, FoldersTyped
    <3>3. CASE Kill(c)
      BY <1>0, <3>3, FoldersAssumption DEF Kill, FoldersTyped
    <3> QED
      BY <1>3, <3>1, <3>2, <3>3
  <2>2. with' \in [Consoles -> Folders] /\ about' \in [Consoles -> 0..pauses]
    BY <1>0, <2>1 DEF FoldersTyped, Numbered
  <2>3. to \in {"approve", "reason", "reject"} => about'[c] \in 1 .. newest[with'[c]]
    BY <2>1 DEF AskedBefore
  <2>4. to \in Steps \ {"fill", "finish"}
    BY DEF Steps
  <2> HIDE DEF FoldersInv
  <2> QED
    BY <2>1, <2>2, <2>3, <2>4, GoingKeeps
<1>4. CASE AskPause(c)
  BY <1>2, <1>4 DEF AskPause
<1>5. CASE AskApprove(c)
  BY <1>2, <1>5 DEF AskApprove
<1>6. CASE AskReject(c)
  BY <1>2, <1>6 DEF AskReject
<1> QED
  BY <1>1, <1>3, <1>4, <1>5, <1>6

(* A new pause has a number that nothing has.                                *)
LEMMA NumberedMore == ASSUME Numbered(pauses), pauses \in Nat PROVE Numbered(pauses + 1)
<1>1. 0..pauses \subseteq 0 .. pauses + 1
  OBVIOUS
<1>2. (0..pauses) \X (0..pauses) \subseteq (0 .. pauses + 1) \X (0 .. pauses + 1)
  BY <1>1
<1>3. settled \in Seq((0 .. pauses + 1) \X (0 .. pauses + 1))
  <2>1. settled \in [1..Len(settled) -> (0..pauses) \X (0..pauses)] /\ Len(settled) \in Nat
    BY DEF Numbered
  <2>2. settled \in [1..Len(settled) -> (0 .. pauses + 1) \X (0 .. pauses + 1)]
    BY <1>2, <2>1
  <2> QED
    BY <2>1, <2>2
<1> QED
  BY <1>1, <1>3 DEF Numbered

LEMMA PauseKeeps ==
  ASSUME FoldersInv, NEW c \in Consoles, Pause(c)
  PROVE  FoldersInv'
<1> USE DEF FoldersInv
<1>0. FoldersTyped /\ Numbered(pauses) /\ pauses \in Nat /\ with[c] \in Folders
  BY DEF FoldersTyped
<1>1. /\ step' = [step EXCEPT ![c] = "ready"] /\ step[c] = "pause" /\ "ready" \in Steps \ {"fill", "finish"}
      /\ UNCHANGED <<parts, with, about, settled, kills>>
  BY DEF Pause, Goes, Steps
<1>2. CASE "interrupted" \notin parts[with[c]]
  <2>1. UNCHANGED <<flag, newest, pauses>>
    BY <1>2 DEF Pause
  <2>2. with' \in [Consoles -> Folders] /\ about' \in [Consoles -> 0..pauses] /\ kills' \in 0..MaxKills /\ kills' >= kills
    BY <1>0, <1>1 DEF FoldersTyped, Numbered
  <2> HIDE DEF FoldersInv
  <2> QED
    BY <1>1, <2>1, <2>2, GoingKeeps
<1>3. CASE "interrupted" \in parts[with[c]]
  <2> DEFINE n == pauses + 1
             a == with[c]
  <2>1. pauses' = n /\ flag' = [flag EXCEPT ![a] = n] /\ newest' = [newest EXCEPT ![a] = n] /\ n \in 0..MaxPauses
    BY <1>0, <1>3, FoldersAssumption DEF Pause, FoldersTyped
  <2>2. Numbered(n)
    BY <1>0, NumberedMore
  <2>3. Numbered(pauses)'
    BY <1>0, <1>1, <2>1, <2>2 DEF Numbered
  <2>4. FoldersTyped'
    BY <1>0, <1>1, <2>1 DEF FoldersTyped
  <2>5. \A d \in Consoles : step'[d] = IF d = c THEN "ready" ELSE step[d]
    BY <1>0, <1>1 DEF FoldersTyped
  <2>6. FillsFolder'
    BY <1>1, <2>5 DEF FillsFolder
  <2>7. FoldersWhole'
    <3> SUFFICES ASSUME NEW b \in Folders, kills = 0, "folder" \in parts[b], parts[b] # Parts
                 PROVE  \E d \in Consoles : with'[d] = b /\ step'[d] \in {"fill", "finish"}
      BY <1>1 DEF FoldersWhole, Exists
    <3>1. PICK d \in Consoles : with[d] = b /\ step[d] \in {"fill", "finish"}
      BY DEF FoldersWhole, Exists
    <3> QED
      BY <1>1, <2>5, <3>1
  <2>8. \A b \in Folders :
          /\ flag'[b] = (IF b = a THEN n ELSE flag[b]) /\ newest'[b] = (IF b = a THEN n ELSE newest[b])
          /\ flag[b] \in 0..pauses /\ newest[b] \in 0..pauses
    BY <1>0, <2>1 DEF Numbered
  <2>9. AskedBefore'
    <3> SUFFICES ASSUME NEW d \in Consoles, step'[d] \in {"approve", "reason", "reject"}
                 PROVE  about[d] \in 1 .. newest'[with[d]]
      BY <1>1 DEF AskedBefore
    <3>1. about[d] \in 1 .. newest[with[d]] /\ with[d] \in Folders
      BY <1>0, <2>5 DEF AskedBefore, FoldersTyped
    <3> QED
      BY <1>0, <2>8, <3>1
  <2>10. \A i \in DOMAIN settled : settled[i][1] \in 0..pauses
    BY <1>0 DEF Numbered
  <2> HIDE DEF a
  <2>11. FlagsOpen'
    <3>1. \A b \in Folders : flag'[b] # 0 =>
            flag'[b] = newest'[b] /\ \A i \in DOMAIN settled : settled[i][1] # flag'[b]
      BY <1>0, <2>8, <2>10 DEF FlagsOpen
    <3>2. \A b, d \in Folders : b # d /\ newest'[b] = newest'[d] => newest'[b] = 0
      BY <1>0, <2>8 DEF FlagsOpen
    <3>3. \A b \in Folders : flag'[b] # newest'[b] =>
            flag'[b] = 0 /\ \E i \in DOMAIN settled : settled[i][1] = newest'[b]
      BY <1>0, <2>8 DEF FlagsOpen
    <3> QED
      BY <1>1, <3>1, <3>2, <3>3 DEF FlagsOpen
  <2>12. SettledOnce'
    BY <1>1 DEF SettledOnce
  <2> QED
    BY <2>3, <2>4, <2>6, <2>7, <2>9, <2>11, <2>12
<1> QED
  BY <1>2, <1>3

(* The pause that was found is settled, once; if another terminal has taken  *)
(* it, nothing is.                                                           *)
LEMMA SettleKeeps ==
  ASSUME FoldersInv, NEW c \in Consoles, Settle(c)
  PROVE  FoldersInv'
<1> USE DEF FoldersInv
<1> DEFINE a == with[c]
<1>0. FoldersTyped /\ Numbered(pauses) /\ pauses \in Nat /\ a \in Folders
  BY DEF FoldersTyped
<1>1. /\ step' = [step EXCEPT ![c] = "ready"] /\ step[c] \in {"approve", "reject"}
      /\ "ready" \in Steps \ {"fill", "finish"}
      /\ UNCHANGED <<parts, with, about, newest, pauses, kills>>
  BY DEF Settle, Steps
<1>2. CASE flag[a] = 0
  <2>1. UNCHANGED <<flag, settled>>
    BY <1>2 DEF Settle, TakeFlag
  <2>2. with' \in [Consoles -> Folders] /\ about' \in [Consoles -> 0..pauses] /\ kills' \in 0..MaxKills /\ kills' >= kills
    BY <1>0, <1>1 DEF FoldersTyped, Numbered
  <2> HIDE DEF FoldersInv
  <2> QED
    BY <1>1, <2>1, <2>2, GoingKeeps
<1>3. CASE flag[a] # 0
  <2> DEFINE f == flag[a]
             n == Len(settled) + 1
  <2>1. flag' = [flag EXCEPT ![a] = 0] /\ settled' = Append(settled, <<f, about[c]>>)
    BY <1>3 DEF Settle, TakeFlag
  <2>2. f \in 1..pauses /\ about[c] \in 0..pauses
    BY <1>0, <1>3 DEF Numbered
  <2>3. settled' \in Seq((0..pauses) \X (0..pauses)) /\ flag' \in [Folders -> 0..pauses]
    BY <1>0, <2>1, <2>2 DEF Numbered
  <2>4. Numbered(pauses)'
    BY <1>0, <1>1, <2>3 DEF Numbered
  <2>5. FoldersTyped'
    BY <1>0, <1>1 DEF FoldersTyped
  <2>6. \A d \in Consoles : step'[d] = IF d = c THEN "ready" ELSE step[d]
    BY <1>0, <1>1 DEF FoldersTyped
  <2>7. FillsFolder'
    BY <1>1, <2>6 DEF FillsFolder
  <2>8. FoldersWhole'
    <3> SUFFICES ASSUME NEW b \in Folders, kills = 0, "folder" \in parts[b], parts[b] # Parts
                 PROVE  \E d \in Consoles : with'[d] = b /\ step'[d] \in {"fill", "finish"}
      BY <1>1 DEF FoldersWhole, Exists
    <3>1. PICK d \in Consoles : with[d] = b /\ step[d] \in {"fill", "finish"}
      BY DEF FoldersWhole, Exists
    <3> QED
      BY <1>1, <2>6, <3>1
  <2>9. AskedBefore'
    BY <1>1, <2>6 DEF AskedBefore
  <2>10. /\ DOMAIN settled = 1..Len(settled) /\ Len(settled) \in Nat /\ DOMAIN settled' = 1..n
         /\ \A i \in DOMAIN settled : settled'[i] = settled[i]
         /\ settled'[n] = <<f, about[c]>>
    BY <1>0, <2>1 DEF Numbered
  <2>11. \A i \in DOMAIN settled' : i \in DOMAIN settled \/ i = n
    BY <2>10
  <2>17. n \in DOMAIN settled' /\ DOMAIN settled \subseteq DOMAIN settled'
    BY <2>10
  <2>12. f = newest[a] /\ about[c] \in 1..f /\ \A i \in DOMAIN settled : settled[i][1] # f
    BY <1>0, <1>1, <1>3 DEF FlagsOpen, AskedBefore
  <2>13. \A b \in Folders : flag'[b] = (IF b = a THEN 0 ELSE flag[b]) /\ newest'[b] = newest[b]
    BY <1>0, <1>1, <2>1 DEF Numbered
  <2> HIDE DEF a, f, n
  <2>14. settled'[n][1] = f /\ settled'[n][2] = about[c]
    BY <2>10
  <2>15. FlagsOpen'
    <3>1. ASSUME NEW b \in Folders, flag'[b] # 0
          PROVE  flag'[b] = newest'[b] /\ \A i \in DOMAIN settled' : settled'[i][1] # flag'[b]
      <4>1. b # a /\ flag'[b] = flag[b] /\ flag[b] = newest[b]
        BY <2>13, <3>1 DEF FlagsOpen
      <4>2. flag[b] # f
        BY <1>0, <2>2, <2>12, <3>1, <4>1 DEF FlagsOpen
      <4>3. \A i \in DOMAIN settled : settled[i][1] # flag[b]
        BY <3>1, <4>1 DEF FlagsOpen
      <4> QED
        BY <2>10, <2>11, <2>13, <2>14, <4>1, <4>2, <4>3
    <3>2. \A b, d \in Folders : b # d /\ newest'[b] = newest'[d] => newest'[b] = 0
      BY <2>13 DEF FlagsOpen
    <3>3. ASSUME NEW b \in Folders, flag'[b] # newest'[b]
          PROVE  flag'[b] = 0 /\ \E i \in DOMAIN settled' : settled'[i][1] = newest'[b]
      <4>1. CASE b = a
        <5>1. n \in DOMAIN settled' /\ settled'[n][1] = newest'[b]
          BY <2>12, <2>13, <2>14, <2>17, <4>1
        <5> QED
          BY <2>13, <4>1, <5>1
      <4>2. CASE b # a
        <5>1. PICK i \in DOMAIN settled : settled[i][1] = newest[b]
          BY <2>13, <3>3, <4>2 DEF FlagsOpen
        <5>2. i \in DOMAIN settled' /\ settled'[i][1] = newest'[b]
          BY <2>10, <2>13, <2>17, <5>1
        <5> QED
          BY <2>13, <3>3, <4>2, <5>2 DEF FlagsOpen
      <4> QED
        BY <4>1, <4>2
    <3> QED
      BY <3>1, <3>2, <3>3 DEF FlagsOpen
  <2>16. SettledOnce'
    BY <2>10, <2>11, <2>12, <2>14 DEF SettledOnce
  <2> QED
    BY <2>4, <2>5, <2>7, <2>8, <2>9, <2>15, <2>16
<1> QED
  BY <1>2, <1>3

LEMMA FoldersStepInv == FoldersInv /\ [FoldersNext]_folderVars => FoldersInv'
<1> SUFFICES ASSUME FoldersInv, [FoldersNext]_folderVars PROVE FoldersInv'
  OBVIOUS
<1>1. CASE UNCHANGED folderVars
  BY <1>1 DEF folderVars, FoldersInv, Numbered, FoldersTyped, FillsFolder, FoldersWhole, Exists,
              AskedBefore, FlagsOpen, SettledOnce
<1>2. CASE FoldersNext
  BY <1>2, MadeKeeps, AskingKeeps, PauseKeeps, SettleKeeps DEF FoldersNext
<1> QED
  BY <1>1, <1>2

LEMMA FoldersInvRight == FoldersInv => FoldersTypeOK /\ FoldersAreRight
<1> SUFFICES ASSUME FoldersInv PROVE FoldersTypeOK /\ FoldersAreRight
  OBVIOUS
<1>1. FoldersTypeOK
  BY DEF FoldersInv, FoldersTyped, Numbered, FoldersTypeOK
<1>2. ToSet(settled) = {settled[i] : i \in DOMAIN settled}
  BY DEF ToSet
<1>3. /\ \A s \in ToSet(settled) : s[2] \in 1..s[1]
      /\ \A a \in Folders :
           flag[a] # newest[a] => flag[a] = 0 /\ \E s \in ToSet(settled) : s[1] = newest[a]
  BY <1>2 DEF FoldersInv, SettledOnce, FlagsOpen
<1> QED
  BY <1>1, <1>3 DEF FoldersInv, FoldersWhole, SettledOnce, FoldersAreRight

-----------------------------------------------------------------------------
(* The model picker: its list is of models offered, and the mark is in it.   *)
PickerInv == PickerTypeOK /\ PickIsShown

LEMMA ListIs == ASSUME NEW ms \in SUBSET (1..Offered) PROVE InOrder(ms) \in Seq(1..Offered)
<1>1. PICK all : all = [m \in 1..Offered |-> m]
  OBVIOUS
<1>2. PICK keep : keep = [m \in 1..Offered |-> m \in ms]
  OBVIOUS
<1>3. all \in Seq(1..Offered) /\ Len(all) = Offered /\ keep \in [1..Len(all) -> BOOLEAN]
  BY <1>1, <1>2, TerminalAssumption
<1>4. Filter(all, keep) \in Seq(1..Offered)
  BY <1>3, FilterIs
<1> QED
  BY <1>1, <1>2, <1>4 DEF InOrder

LEMMA FoundIs == ASSUME PickerTypeOK PROVE found \in Seq(1..Offered) /\ Len(found) \in Nat
BY ListIs DEF PickerTypeOK

LEMMA PickerInitInv == PickerInit => PickerInv
<1> SUFFICES ASSUME PickerInit PROVE PickerInv
  OBVIOUS
<1>1. PickerTypeOK
  BY TerminalAssumption DEF PickerInit, PickerTypeOK
<1>2. found # <<>> => marked < Len(found)
  BY <1>1, FoundIs DEF PickerInit
<1> QED
  BY <1>1, <1>2 DEF PickerInv, PickerInit, PickIsShown

LEMMA PickerStepInv == PickerInv /\ [PickerNext]_pickerVars => PickerInv'
<1> SUFFICES ASSUME PickerInv, [PickerNext]_pickerVars PROVE PickerInv'
  OBVIOUS
<1>0. PickerTypeOK /\ PickIsShown /\ found \in Seq(1..Offered) /\ Len(found) \in Nat
  BY FoundIs DEF PickerInv
<1>1. CASE UNCHANGED pickerVars
  BY <1>0, <1>1 DEF pickerVars, PickerInv, PickerTypeOK, PickIsShown
<1>2. ASSUME NEW models \in SUBSET (1..Offered), SearchFor(models) PROVE PickerInv'
  <2>1. PickerTypeOK'
    BY <1>0, <1>2 DEF SearchFor, MarkFor, PickerTypeOK
  <2>2. found' \in Seq(1..Offered)
    BY <1>2, ListIs DEF SearchFor
  <2>3. PickIsShown'
    BY <1>0, <1>2, <2>2 DEF SearchFor, MarkFor, PickIsShown
  <2> QED
    BY <2>1, <2>3 DEF PickerInv
<1>3. CASE MoveUp \/ MoveDown
  <2>1. PICK n \in Nat : /\ n > 0 /\ n = Len(found)
                         /\ marked' = (marked + n - 1) % n \/ marked' = (marked + 1) % n
                         /\ picker = "open" /\ UNCHANGED <<found, picker, picked>>
    <3>1. found # <<>> /\ Len(found) > 0
      BY <1>0, <1>3 DEF MoveUp, MoveDown
    <3> QED
      BY <1>0, <1>3, <3>1 DEF MoveUp, MoveDown
  <2>2. marked' \in Nat /\ marked' < n
    <3>1. marked + n - 1 \in Nat /\ marked + 1 \in Nat
      BY <1>0, <2>1 DEF PickerTypeOK
    <3> QED
      BY <2>1, <3>1
  <2>3. PickerTypeOK' /\ PickIsShown'
    BY <1>0, <2>1, <2>2 DEF PickerTypeOK, PickIsShown
  <2> QED
    BY <2>3 DEF PickerInv
<1>4. CASE Confirm
  <2>1. picker = "open" /\ picker' = "entered" /\ UNCHANGED <<found, marked>>
    BY <1>4 DEF Confirm
  <2>2. CASE marked < Len(found)
    <3>1. picked' = found[marked + 1] /\ marked + 1 \in 1..Len(found) /\ found # <<>>
      BY <1>0, <1>4, <2>2 DEF Confirm, PickerTypeOK
    <3>2. picked' \in ToSet(found) /\ picked' \in 0..Offered
      BY <1>0, <3>1, TerminalAssumption DEF ToSet
    <3>3. PickerTypeOK' /\ PickIsShown'
      BY <1>0, <2>1, <2>2, <3>1, <3>2 DEF PickerTypeOK, PickIsShown
    <3> QED
      BY <3>3 DEF PickerInv
  <2>3. CASE ~(marked < Len(found))
    <3>1. picked' = picked /\ picked = 0 /\ found = <<>>
      BY <1>0, <1>4, <2>1, <2>3 DEF Confirm, PickIsShown
    <3>2. PickerTypeOK' /\ PickIsShown'
      BY <1>0, <2>1, <3>1 DEF PickerTypeOK, PickIsShown
    <3> QED
      BY <3>2 DEF PickerInv
  <2> QED
    BY <2>2, <2>3
<1>5. CASE CancelPicker
  BY <1>0, <1>5 DEF CancelPicker, PickerInv, PickerTypeOK, PickIsShown
<1> QED
  BY <1>1, <1>2, <1>3, <1>4, <1>5 DEF PickerNext

-----------------------------------------------------------------------------
(* What the terminal shows.  The parts that were shown and those held back   *)
(* are in the order in which they came (Orderly); and as long as a turn that *)
(* found the accumulator clean goes on, each part of its complete lines is   *)
(* in one of the places, where it will be shown as what it is (Faithful).    *)
Place(p) == IF p.end THEN 2 * p.line ELSE 2 * p.line - 1

Before(p, q) == p.turn < q.turn \/ (p.turn = q.turn /\ Place(p) < Place(q))

Prior(A, B) == \A p \in A, q \in B : Before(p, q)

RisingParts(q) == \A i, j \in DOMAIN q : i < j => Before(q[i], q[j])

RisingShown(o) == \A i, j \in DOMAIN o : i < j => Before(o[i].part, o[j].part)

PartsShown(o) == {o[i].part : i \in DOMAIN o}

As(A, code) == {[part |-> p, code |-> code] : p \in A}

LEMMA ElemsIn == ASSUME NEW X, NEW q \in Seq(X) PROVE ToSet(q) \subseteq X
BY DEF ToSet

LEMMA JoinIs ==
  ASSUME NEW X, NEW q \in Seq(X), NEW r \in Seq(X)
  PROVE  /\ q \o r \in Seq(X) /\ ToSet(q \o r) = ToSet(q) \cup ToSet(r)
         /\ q \o r = <<>> <=> q = <<>> /\ r = <<>>
<1>1. PICK m \in Nat : m = Len(q)
  OBVIOUS
<1>2. PICK n \in Nat : n = Len(r)
  OBVIOUS
<1>3. PICK v : v = q \o r
  OBVIOUS
<1>4. /\ v \in Seq(X) /\ Len(v) = m + n
      /\ \A i \in 1..m : v[i] = q[i]
      /\ \A i \in 1..n : v[m + i] = r[i]
  BY <1>1, <1>2, <1>3
<1>0. DOMAIN v = 1 .. m + n /\ DOMAIN q = 1..m /\ DOMAIN r = 1..n
  BY <1>1, <1>2, <1>4
<1>5. ToSet(v) = {v[i] : i \in 1 .. m + n} /\ ToSet(q) = {q[i] : i \in 1..m} /\ ToSet(r) = {r[i] : i \in 1..n}
  BY <1>0 DEF ToSet
<1>6. \A i \in 1 .. m + n : i \in 1..m \/ (i - m \in 1..n /\ i = m + (i - m))
  OBVIOUS
<1>7. \A i \in 1..n : m + i \in 1 .. m + n
  OBVIOUS
<1>8. \A i \in 1..m : i \in 1 .. m + n
  OBVIOUS
<1>9. ToSet(v) \subseteq ToSet(q) \cup ToSet(r)
  <2> SUFFICES ASSUME NEW i \in 1 .. m + n PROVE v[i] \in ToSet(q) \cup ToSet(r)
    BY <1>5
  <2>1. CASE i \in 1..m
    BY <1>4, <1>5, <2>1
  <2>2. CASE i - m \in 1..n /\ i = m + (i - m)
    <3>1. v[m + (i - m)] = r[i - m]
      BY <1>4, <2>2
    <3> QED
      BY <1>5, <2>2, <3>1
  <2> QED
    BY <1>6, <2>1, <2>2
<1>10. ToSet(q) \subseteq ToSet(v)
  BY <1>4, <1>5, <1>8
<1>11. ToSet(r) \subseteq ToSet(v)
  <2> SUFFICES ASSUME NEW i \in 1..n PROVE r[i] \in ToSet(v)
    BY <1>5
  <2>1. v[m + i] = r[i] /\ m + i \in 1 .. m + n
    BY <1>4, <1>7
  <2> QED
    BY <1>5, <2>1
<1>12. v = <<>> <=> q = <<>> /\ r = <<>>
  <2>1. (v = <<>> <=> m + n = 0) /\ (q = <<>> <=> m = 0) /\ (r = <<>> <=> n = 0)
    BY <1>1, <1>2, <1>4
  <2> QED
    BY <2>1
<1> QED
  BY <1>3, <1>4, <1>9, <1>10, <1>11, <1>12

LEMMA JoinRises ==
  ASSUME NEW q \in Seq(Part), NEW r \in Seq(Part), RisingParts(q), RisingParts(r), Prior(ToSet(q), ToSet(r))
  PROVE  RisingParts(q \o r)
<1>1. PICK m \in Nat : m = Len(q)
  OBVIOUS
<1>2. PICK n \in Nat : n = Len(r)
  OBVIOUS
<1>3. PICK v : v = q \o r
  OBVIOUS
<1>4. /\ Len(v) = m + n /\ DOMAIN v = 1 .. m + n
      /\ \A i \in 1..m : v[i] = q[i]
      /\ \A i \in 1..n : v[m + i] = r[i]
  BY <1>1, <1>2, <1>3
<1>5. (\A i \in 1..m : q[i] \in ToSet(q)) /\ (\A i \in 1..n : r[i] \in ToSet(r))
  BY <1>1, <1>2 DEF ToSet
<1> SUFFICES ASSUME NEW i \in 1 .. m + n, NEW j \in 1 .. m + n, i < j PROVE Before(v[i], v[j])
  BY <1>3, <1>4 DEF RisingParts
<1>6. CASE j \in 1..m
  <2>1. i \in 1..m
    BY <1>6
  <2> QED
    BY <1>1, <1>4, <1>6, <2>1 DEF RisingParts
<1>7. CASE i \in 1..m /\ j - m \in 1..n
  <2>1. v[m + (j - m)] = r[j - m] /\ m + (j - m) = j
    BY <1>4, <1>7
  <2> QED
    BY <1>4, <1>5, <1>7, <2>1 DEF Prior
<1>8. CASE i - m \in 1..n /\ j - m \in 1..n
  <2>1. v[m + (j - m)] = r[j - m] /\ m + (j - m) = j /\ v[m + (i - m)] = r[i - m] /\ m + (i - m) = i
    BY <1>4, <1>8
  <2>2. i - m < j - m
    OBVIOUS
  <2> QED
    BY <1>2, <1>8, <2>1, <2>2 DEF RisingParts
<1> QED
  BY <1>6, <1>7, <1>8

(* Printing parts after what was shown.                                      *)
LEMMA PrintIs ==
  ASSUME NEW o \in Seq(Shown), NEW r \in Seq(Part), NEW code \in BOOLEAN
  PROVE  /\ o \o Printed(r, code) \in Seq(Shown)
         /\ ToSet(o \o Printed(r, code)) = ToSet(o) \cup As(ToSet(r), code)
         /\ PartsShown(o \o Printed(r, code)) = PartsShown(o) \cup ToSet(r)
<1>1. PICK w : w = Printed(r, code)
  OBVIOUS
<1>2. w = [i \in 1..Len(r) |-> [part |-> r[i], code |-> code]]
  BY <1>1 DEF Printed
<1>3. w \in Seq(Shown) /\ DOMAIN w = 1..Len(r)
  BY <1>2 DEF Shown
<1>4. ToSet(w) = As(ToSet(r), code)
  <2>1. DOMAIN r = 1..Len(r) /\ \A i \in 1..Len(r) : w[i] = [part |-> r[i], code |-> code]
    BY <1>2
  <2>2. ToSet(w) = {[part |-> r[i], code |-> code] : i \in 1..Len(r)}
    BY <1>3, <2>1 DEF ToSet
  <2>3. ToSet(r) = {r[i] : i \in 1..Len(r)}
    BY <2>1 DEF ToSet
  <2> QED
    BY <2>2, <2>3 DEF As
<1>5. o \o w \in Seq(Shown) /\ ToSet(o \o w) = ToSet(o) \cup ToSet(w)
  BY <1>3, JoinIs
<1>6. \A q : PartsShown(q) = {x.part : x \in ToSet(q)}
  BY DEF PartsShown, ToSet
<1>7. {x.part : x \in As(ToSet(r), code)} = ToSet(r)
  <2>1. \A x \in As(ToSet(r), code) : x.part \in ToSet(r)
    BY DEF As
  <2>2. \A q \in ToSet(r) : [part |-> q, code |-> code] \in As(ToSet(r), code) /\ [part |-> q, code |-> code].part = q
    BY DEF As
  <2> HIDE DEF As
  <2> QED
    BY <2>1, <2>2
<1>8. PartsShown(o \o w) = PartsShown(o) \cup ToSet(r)
  BY <1>4, <1>5, <1>6, <1>7
<1> QED
  BY <1>1, <1>4, <1>5, <1>8

LEMMA PrintRises ==
  ASSUME NEW o \in Seq(Shown), NEW r \in Seq(Part), NEW code \in BOOLEAN,
         RisingShown(o), RisingParts(r), Prior(PartsShown(o), ToSet(r))
  PROVE  RisingShown(o \o Printed(r, code))
<1>1. PICK m \in Nat : m = Len(o)
  OBVIOUS
<1>2. PICK n \in Nat : n = Len(r)
  OBVIOUS
<1>3. PICK w : w = Printed(r, code)
  OBVIOUS
<1>4. w = [i \in 1..n |-> [part |-> r[i], code |-> code]]
  BY <1>2, <1>3 DEF Printed
<1>5. w \in Seq(Shown) /\ Len(w) = n
  BY <1>2, <1>4 DEF Shown
<1>12. \A i \in 1..n : w[i].part = r[i]
  BY <1>4
<1>13. \A i, j \in 1..n : i < j => Before(r[i], r[j])
  BY <1>2 DEF RisingParts
<1>6. PICK v : v = o \o w
  OBVIOUS
<1>7. /\ Len(v) = m + n /\ DOMAIN v = 1 .. m + n
      /\ \A i \in 1..m : v[i] = o[i]
      /\ \A i \in 1..n : v[m + i] = w[i]
  <2>1. w \in Seq(Shown) /\ Len(w) = n
    BY <1>5
  <2>2. Len(o \o w) = Len(o) + Len(w) /\ DOMAIN (o \o w) = 1 .. Len(o) + Len(w)
    BY <2>1
  <2>3. \A i \in 1..Len(o) : (o \o w)[i] = o[i]
    BY <2>1
  <2>4. \A i \in 1..Len(w) : (o \o w)[Len(o) + i] = w[i]
    BY <2>1
  <2> QED
    BY <1>1, <1>6, <2>1, <2>2, <2>3, <2>4
<1>8. (\A i \in 1..m : o[i].part \in PartsShown(o)) /\ (\A i \in 1..n : r[i] \in ToSet(r))
  BY <1>1, <1>2 DEF ToSet, PartsShown
<1> SUFFICES ASSUME NEW i \in 1 .. m + n, NEW j \in 1 .. m + n, i < j PROVE Before(v[i].part, v[j].part)
  BY <1>3, <1>6, <1>7 DEF RisingShown
<1>9. CASE j \in 1..m
  <2>1. i \in 1..m
    BY <1>9
  <2> QED
    BY <1>1, <1>7, <1>9, <2>1 DEF RisingShown
<1>10. CASE i \in 1..m /\ j - m \in 1..n
  <2>1. v[m + (j - m)] = w[j - m] /\ m + (j - m) = j
    BY <1>7, <1>10
  <2> QED
    BY <1>7, <1>8, <1>10, <1>12, <2>1 DEF Prior
<1>11. CASE i - m \in 1..n /\ j - m \in 1..n
  <2>1. v[m + (j - m)] = w[j - m] /\ m + (j - m) = j /\ v[m + (i - m)] = w[i - m] /\ m + (i - m) = i
    BY <1>7, <1>11
  <2>2. i - m < j - m
    OBVIOUS
  <2> QED
    BY <1>11, <1>12, <1>13, <2>1, <2>2
<1> QED
  BY <1>9, <1>10, <1>11

(* A list is determined by its members and their order.                      *)
LEMMA SameList ==
  ASSUME NEW X, NEW rank \in [X -> Nat], NEW v \in Seq(X), NEW w \in Seq(X), ToSet(v) = ToSet(w),
         \A i, j \in DOMAIN v : i < j => rank[v[i]] < rank[v[j]],
         \A i, j \in DOMAIN w : i < j => rank[w[i]] < rank[w[j]]
  PROVE  v = w
<1>1. PICK m \in Nat : m = Len(v)
  OBVIOUS
<1>2. PICK n \in Nat : n = Len(w)
  OBVIOUS
<1>0. /\ \A i \in 1..m : v[i] \in X /\ rank[v[i]] \in Nat
      /\ \A i \in 1..n : w[i] \in X /\ rank[w[i]] \in Nat
      /\ DOMAIN v = 1..m /\ DOMAIN w = 1..n
  BY <1>1, <1>2
<1>3. (\A i \in 1..m : \E j \in 1..n : v[i] = w[j]) /\ (\A i \in 1..n : \E j \in 1..m : w[i] = v[j])
  <2>1. ToSet(v) = {v[i] : i \in 1..m} /\ ToSet(w) = {w[i] : i \in 1..n}
    BY <1>0 DEF ToSet
  <2> QED
    BY <2>1
<1> DEFINE holds == {i \in 0 .. m + n : \A j \in 1..i : j \in 1..m \/ j \in 1..n => j \in 1..m /\ j \in 1..n /\ v[j] = w[j]}
<1>4. 0 \in holds
  OBVIOUS
<1>5. ASSUME NEW i \in 1 .. m + n, i - 1 \in holds PROVE i \in holds
  <2>1. \A j \in 1 .. i - 1 : j \in 1..m \/ j \in 1..n => j \in 1..m /\ j \in 1..n /\ v[j] = w[j]
    BY <1>5
  <2>2. ASSUME i \in 1..m
        PROVE  \E k \in 1..n : k >= i /\ w[k] = v[i] /\ i \in 1..n /\ rank[w[i]] <= rank[v[i]]
    <3>1. PICK k \in 1..n : v[i] = w[k]
      BY <1>3, <2>2
    <3>2. ~(k < i)
      <4> SUFFICES ASSUME k < i PROVE FALSE
        OBVIOUS
      <4>1. k \in 1 .. i - 1
        OBVIOUS
      <4>2. k \in 1..m /\ v[k] = w[k]
        BY <2>1, <4>1
      <4>3. rank[v[k]] < rank[v[i]]
        BY <1>0, <2>2, <4>2
      <4> QED
        BY <1>0, <2>2, <3>1, <4>2, <4>3
    <3>3. i \in 1..n /\ (k = i \/ i < k)
      BY <3>2
    <3>5. CASE i < k
      <4>1. rank[w[i]] < rank[w[k]]
        BY <1>0, <3>3, <3>5
      <4> QED
        BY <1>0, <3>1, <3>2, <3>3, <4>1
    <3>6. CASE k = i
      BY <1>0, <3>1, <3>3, <3>6
    <3> QED
      BY <3>3, <3>5, <3>6
  <2>3. ASSUME i \in 1..n
        PROVE  \E k \in 1..m : k >= i /\ v[k] = w[i] /\ i \in 1..m /\ rank[v[i]] <= rank[w[i]]
    <3>1. PICK k \in 1..m : w[i] = v[k]
      BY <1>3, <2>3
    <3>2. ~(k < i)
      <4> SUFFICES ASSUME k < i PROVE FALSE
        OBVIOUS
      <4>1. k \in 1 .. i - 1
        OBVIOUS
      <4>2. k \in 1..n /\ v[k] = w[k]
        BY <2>1, <4>1
      <4>3. rank[w[k]] < rank[w[i]]
        BY <1>0, <2>3, <4>2
      <4> QED
        BY <1>0, <2>3, <3>1, <4>2, <4>3
    <3>3. i \in 1..m /\ (k = i \/ i < k)
      BY <3>2
    <3>5. CASE i < k
      <4>1. rank[v[i]] < rank[v[k]]
        BY <1>0, <3>3, <3>5
      <4> QED
        BY <1>0, <3>1, <3>2, <3>3, <4>1
    <3>6. CASE k = i
      BY <1>0, <3>1, <3>3, <3>6
    <3> QED
      BY <3>3, <3>5, <3>6
  <2>4. i \in 1..m \/ i \in 1..n => i \in 1..m /\ i \in 1..n
    BY <2>2, <2>3
  <2>5. ASSUME i \in 1..m, i \in 1..n PROVE v[i] = w[i]
    <3>1. PICK k \in 1..m : k >= i /\ v[k] = w[i] /\ rank[v[i]] <= rank[w[i]]
      BY <2>3, <2>5
    <3>2. rank[w[i]] <= rank[v[i]]
      BY <2>2, <2>5
    <3>3. ~(i < k)
      <4> SUFFICES ASSUME i < k PROVE FALSE
        OBVIOUS
      <4>1. rank[v[i]] < rank[v[k]]
        BY <1>0, <2>5
      <4> QED
        BY <1>0, <2>5, <3>1, <3>2, <4>1
    <3>4. k = i
      BY <3>1, <3>3
    <3> QED
      BY <3>1, <3>4
  <2>6. \A j \in 1..i : j \in 1 .. i - 1 \/ j = i
    OBVIOUS
  <2>7. i \in 0 .. m + n
    OBVIOUS
  <2> QED
    BY <2>1, <2>4, <2>5, <2>6, <2>7
<1> HIDE DEF holds
<1>6. m + n \in holds
  <2>1. m + n \in Nat /\ \A i \in 1 .. m + n : i - 1 \in holds => i \in holds
    BY <1>5
  <2>2. \A i \in 0 .. m + n : i \in holds
    BY <1>4, <2>1, CountingUp
  <2> QED
    BY <2>1, <2>2
<1>7. \A j \in 1 .. m + n : j \in 1..m \/ j \in 1..n => j \in 1..m /\ j \in 1..n /\ v[j] = w[j]
  BY <1>6 DEF holds
<1>8. m = n
  <2>1. m # 0 => m \in 1..n
    <3>1. m # 0 => m \in 1 .. m + n /\ m \in 1..m
      OBVIOUS
    <3> QED
      BY <1>7, <3>1
  <2>2. n # 0 => n \in 1..m
    <3>1. n # 0 => n \in 1 .. m + n /\ n \in 1..n
      OBVIOUS
    <3> QED
      BY <1>7, <3>1
  <2> QED
    BY <2>1, <2>2
<1>9. \A j \in 1..m : v[j] = w[j]
  BY <1>7, <1>8
<1>10. v \in [1..m -> X] /\ w \in [1..m -> X]
  <2>1. v \in [1..m -> X]
    BY <1>1
  <2>2. w \in [1..n -> X]
    BY <1>2
  <2> QED
    BY <1>8, <2>1, <2>2
<1> QED
  BY <1>9, <1>10

-----------------------------------------------------------------------------
(* The parts of an answer come by their places.                              *)
KindOf(a, p) == a[p.turn].lines[p.line]

Size(a, t) == LET n == Len(a[t].lines) IN IF n > 0 /\ ~a[t].whole THEN 2 * n - 1 ELSE 2 * n

Piece(t, i) == [turn |-> t, line |-> (i + 1) \div 2, end |-> i % 2 = 0]

AnswerLists == [1..Turns -> AnswerTexts]

LEMMA AnswerIs ==
  ASSUME NEW a \in AnswerLists, NEW t \in 1..Turns
  PROVE  /\ Len(a[t].lines) \in 0..MaxLines /\ a[t].whole \in BOOLEAN
         /\ \A l \in 1..Len(a[t].lines) : a[t].lines[l] \in {"text", "fence"}
         /\ Size(a, t) \in Nat /\ Size(a, t) <= 2 * MaxLines
<1>1. a[t] \in AnswerTexts
  BY DEF AnswerLists
<1>2. PICK n \in 0..MaxLines : a[t].lines \in [1..n -> {"text", "fence"}]
  BY <1>1 DEF AnswerTexts
<1>3. a[t].lines \in Seq({"text", "fence"}) /\ Len(a[t].lines) = n /\ n \in Nat
  BY <1>2, TerminalAssumption
<1>4. a[t].whole \in BOOLEAN
  BY <1>1 DEF AnswerTexts
<1>5. \A l \in 1..n : a[t].lines[l] \in {"text", "fence"}
  BY <1>2
<1>6. Size(a, t) \in {2 * n, 2 * n - 1} /\ (Size(a, t) = 2 * n - 1 => n > 0)
  BY <1>3 DEF Size
<1> QED
  BY <1>2, <1>3, <1>4, <1>5, <1>6, TerminalAssumption

LEMMA Halves ==
  ASSUME NEW i \in Nat
  PROVE  /\ (i + 1) \div 2 \in Nat
         /\ (i = 2 * ((i + 1) \div 2) /\ i % 2 = 0) \/ (i = 2 * ((i + 1) \div 2) - 1 /\ i % 2 = 1)
OBVIOUS

LEMMA PieceIs ==
  ASSUME NEW t \in 1..Turns, NEW i \in 1 .. 2 * MaxLines
  PROVE  /\ Piece(t, i) \in Part /\ Piece(t, i).turn = t /\ Place(Piece(t, i)) = i
         /\ Piece(t, i).line = (i + 1) \div 2 /\ (Piece(t, i).end <=> i % 2 = 0)
<1>1. PICK h \in 1..MaxLines : h = (i + 1) \div 2 /\ ((i = 2 * h /\ i % 2 = 0) \/ (i = 2 * h - 1 /\ i % 2 = 1))
  <2>1. MaxLines \in Nat
    BY TerminalAssumption
  <2>2. PICK h : h = (i + 1) \div 2
    OBVIOUS
  <2>3. i \in Nat /\ i >= 1 /\ i <= 2 * MaxLines
    BY <2>1
  <2>4. h \in Nat /\ ((i = 2 * h /\ i % 2 = 0) \/ (i = 2 * h - 1 /\ i % 2 = 1))
    BY <2>2, <2>3, Halves
  <2>5. h \in 1..MaxLines
    BY <2>1, <2>3, <2>4
  <2> QED
    BY <2>2, <2>4, <2>5
<1>2. Piece(t, i) = [turn |-> t, line |-> h, end |-> i % 2 = 0]
  BY <1>1 DEF Piece
<1>3. Piece(t, i) \in Part
  <2>1. \A e \in BOOLEAN : [turn |-> t, line |-> h, end |-> e] \in Part
    BY DEF Part
  <2> QED
    BY <1>2, <2>1
<1>4. Piece(t, i).turn = t /\ Piece(t, i).line = h /\ (Piece(t, i).end <=> i % 2 = 0)
  <2>1. Piece(t, i).turn = t /\ Piece(t, i).line = h
    BY <1>2
  <2>2. Piece(t, i).end = (i % 2 = 0)
    BY DEF Piece
  <2> QED
    BY <2>1, <2>2
<1>5. Place(Piece(t, i)) = i
  BY <1>1, <1>4 DEF Place
<1> QED
  BY <1>1, <1>3, <1>4, <1>5

LEMMA PartsAre ==
  ASSUME NEW t \in 1..Turns, answers \in AnswerLists
  PROVE  PartsOf(t) = [i \in 1..Size(answers, t) |-> Piece(t, i)]
BY DEF PartsOf, Size, Piece

(* The states of the renderer.                                               *)
Renderers == [rest : Seq(Part), open : BOOLEAN, block : Seq(Part), pending : Seq(Part), out : Seq(Shown)]

LEMMA RendererIs ==
  ASSUME NEW u \in Seq(Part), NEW v \in BOOLEAN, NEW w \in Seq(Part), NEW x \in Seq(Part), NEW y \in Seq(Shown)
  PROVE  [rest |-> u, open |-> v, block |-> w, pending |-> x, out |-> y] \in Renderers
BY DEF Renderers

LEMMA NoParts == <<>> \in Seq(Part) /\ <<>> \in Seq(Shown) /\ TRUE \in BOOLEAN /\ FALSE \in BOOLEAN
OBVIOUS

(* What one part does, by cases: came is the line it may end.                *)
Fed(s, came, p, r) ==
  \/ /\ ~p.end /\ r.rest = came
     /\ r.open = s.open /\ r.block = s.block /\ r.pending = s.pending /\ r.out = s.out
  \/ /\ p.end /\ IsFence(came) /\ ~s.open
     /\ r.rest = <<>> /\ r.open = TRUE /\ r.block = <<>> /\ r.pending = s.pending /\ r.out = s.out
  \/ /\ p.end /\ IsFence(came) /\ s.open
     /\ r.rest = <<>> /\ r.open = FALSE /\ r.block = <<>> /\ r.pending = <<>>
     /\ r.out = (s.out \o Printed(s.pending, FALSE)) \o Printed(s.block, TRUE)
  \/ /\ p.end /\ ~IsFence(came) /\ s.open
     /\ r.rest = <<>> /\ r.open = s.open /\ r.block = s.block \o came
     /\ r.pending = s.pending /\ r.out = s.out
  \/ /\ p.end /\ ~IsFence(came) /\ ~s.open
     /\ r.rest = <<>> /\ r.open = s.open /\ r.block = s.block
     /\ r.pending = s.pending \o came /\ r.out = s.out

LEMMA FeedIs ==
  ASSUME NEW s \in Renderers, NEW p \in Part, NEW r, r = FeedPart(s, p)
  PROVE  r \in Renderers /\ Fed(s, Append(s.rest, p), p, r)
<1> DEFINE came == Append(s.rest, p)
<1>0. /\ s.rest \in Seq(Part) /\ s.open \in BOOLEAN /\ s.block \in Seq(Part) /\ s.pending \in Seq(Part)
      /\ s.out \in Seq(Shown) /\ came \in Seq(Part) /\ p.end \in BOOLEAN
  BY DEF Renderers, Part
<1>1. s = [rest |-> s.rest, open |-> s.open, block |-> s.block, pending |-> s.pending, out |-> s.out]
  BY DEF Renderers
<1> DEFINE fed2 == [s EXCEPT !.rest = <<>>]
<1>2. fed2 = [rest |-> <<>>, open |-> s.open, block |-> s.block, pending |-> s.pending, out |-> s.out]
  BY <1>1
<1> HIDE DEF fed2
<1>3. CASE ~p.end
  <2>1. r = [rest |-> came, open |-> s.open, block |-> s.block, pending |-> s.pending, out |-> s.out]
    BY <1>1, <1>3 DEF FeedPart
  <2> HIDE DEF came
  <2>2. r \in Renderers
    BY <1>0, <2>1, RendererIs, NoParts
  <2>3. r.rest = came /\ r.open = s.open /\ r.block = s.block /\ r.pending = s.pending /\ r.out = s.out
    BY <2>1
  <2> QED
    BY <1>3, <2>2, <2>3 DEF came, Fed
<1>4. CASE p.end
  <2>1. r = FeedLine(fed2, came)
    BY <1>4 DEF FeedPart, fed2
  <2> HIDE DEF came
  <2>2. CASE IsFence(came) /\ ~s.open
    <3>1. r = [fed2 EXCEPT !.open = TRUE, !.block = <<>>]
      BY <1>2, <2>1, <2>2 DEF FeedLine
    <3>2. r = [rest |-> <<>>, open |-> TRUE, block |-> <<>>, pending |-> s.pending, out |-> s.out]
      BY <1>2, <3>1
    <3>5. [rest |-> <<>>, open |-> TRUE, block |-> <<>>, pending |-> s.pending, out |-> s.out] \in Renderers
      BY <1>0, RendererIs, NoParts
    <3>3. r \in Renderers
      BY <3>2, <3>5
    <3>4. r.rest = <<>> /\ r.open = TRUE /\ r.block = <<>> /\ r.pending = s.pending /\ r.out = s.out
      BY <3>2
    <3> QED
      BY <1>4, <2>2, <3>3, <3>4 DEF came, Fed
  <2>3. CASE IsFence(came) /\ s.open
    <3> DEFINE o == (s.out \o Printed(s.pending, FALSE)) \o Printed(s.block, TRUE)
    <3>1. r = EmitBlock(fed2, s.block)
      BY <1>2, <2>1, <2>3 DEF FeedLine
    <3>2. r = [rest |-> <<>>, open |-> FALSE, block |-> <<>>, pending |-> <<>>, out |-> o]
      BY <1>2, <3>1 DEF EmitBlock
    <3>3. o \in Seq(Shown)
      BY <1>0, PrintIs
    <3> HIDE DEF o
    <3>6. [rest |-> <<>>, open |-> FALSE, block |-> <<>>, pending |-> <<>>, out |-> o] \in Renderers
      BY <3>3, RendererIs, NoParts
    <3>4. r \in Renderers
      BY <3>2, <3>6
    <3>5. r.rest = <<>> /\ r.open = FALSE /\ r.block = <<>> /\ r.pending = <<>> /\ r.out = o
      BY <3>2
    <3> QED
      BY <1>4, <2>3, <3>4, <3>5 DEF came, o, Fed
  <2>4. CASE ~IsFence(came) /\ s.open
    <3>1. r = [fed2 EXCEPT !.block = fed2.block \o came]
      BY <1>2, <2>1, <2>4 DEF FeedLine
    <3>2. r = [rest |-> <<>>, open |-> s.open, block |-> s.block \o came, pending |-> s.pending, out |-> s.out]
      BY <1>2, <3>1
    <3> DEFINE more == s.block \o came
    <3>3. more \in Seq(Part)
      BY <1>0, JoinIs
    <3> HIDE DEF more
    <3>5. r = [rest |-> <<>>, open |-> s.open, block |-> more, pending |-> s.pending, out |-> s.out]
      BY <3>2 DEF more
    <3>7. s.open \in BOOLEAN /\ s.pending \in Seq(Part) /\ s.out \in Seq(Shown) /\ <<>> \in Seq(Part)
      BY <1>0
    <3>8. [rest |-> <<>>, open |-> s.open, block |-> more, pending |-> s.pending, out |-> s.out] \in Renderers
      BY <3>3, <3>7, RendererIs
    <3>4. r \in Renderers
      BY <3>5, <3>8
    <3>6. r.rest = <<>> /\ r.open = s.open /\ r.pending = s.pending /\ r.block = more /\ r.out = s.out
      BY <3>5
    <3> QED
      BY <1>4, <2>4, <3>4, <3>6 DEF came, more, Fed
  <2>5. CASE ~IsFence(came) /\ ~s.open
    <3>1. r = [fed2 EXCEPT !.pending = fed2.pending \o came]
      BY <1>2, <2>1, <2>5 DEF FeedLine
    <3>2. r = [rest |-> <<>>, open |-> s.open, block |-> s.block, pending |-> s.pending \o came, out |-> s.out]
      BY <1>2, <3>1
    <3> DEFINE more == s.pending \o came
    <3>3. more \in Seq(Part)
      BY <1>0, JoinIs
    <3> HIDE DEF more
    <3>5. r = [rest |-> <<>>, open |-> s.open, block |-> s.block, pending |-> more, out |-> s.out]
      BY <3>2 DEF more
    <3>7. s.open \in BOOLEAN /\ s.block \in Seq(Part) /\ s.out \in Seq(Shown) /\ <<>> \in Seq(Part)
      BY <1>0
    <3>8. [rest |-> <<>>, open |-> s.open, block |-> s.block, pending |-> more, out |-> s.out] \in Renderers
      BY <3>3, <3>7, RendererIs
    <3>4. r \in Renderers
      BY <3>5, <3>8
    <3>6. r.rest = <<>> /\ r.open = s.open /\ r.block = s.block /\ r.pending = more /\ r.out = s.out
      BY <3>5
    <3> QED
      BY <1>4, <2>5, <3>4, <3>6 DEF came, more, Fed
  <2> QED
    BY <1>0, <2>2, <2>3, <2>4, <2>5
<1> QED
  BY <1>0, <1>3, <1>4

(* The order of the parts, and that all of them have come.                   *)
Came(t, k) == {p \in Part : p.turn < t \/ (p.turn = t /\ Place(p) <= k)}

Orderly(s, t, k) ==
  /\ RisingParts(s.pending) /\ RisingParts(s.block) /\ RisingParts(s.rest) /\ RisingShown(s.out)
  /\ Prior(PartsShown(s.out), ToSet(s.pending) \cup ToSet(s.block) \cup ToSet(s.rest))
  /\ Prior(ToSet(s.pending), ToSet(s.block) \cup ToSet(s.rest))
  /\ Prior(ToSet(s.block), ToSet(s.rest))
  /\ PartsShown(s.out) \cup ToSet(s.pending) \cup ToSet(s.block) \cup ToSet(s.rest) \subseteq Came(t, k)
  /\ ~s.open => s.block = <<>>

LEMMA AppendIs ==
  ASSUME NEW q \in Seq(Part), NEW p \in Part
  PROVE  /\ Append(q, p) \in Seq(Part) /\ ToSet(Append(q, p)) = ToSet(q) \cup {p} /\ Append(q, p) # <<>>
         /\ RisingParts(q) /\ Prior(ToSet(q), {p}) => RisingParts(Append(q, p))
<1>1. PICK v : v = <<p>>
  OBVIOUS
<1>4. v \in Seq(Part)
  BY <1>1
<1>2. Append(q, p) = q \o v
  BY <1>1
<1>3. ToSet(v) = {p} /\ RisingParts(v) /\ v # <<>>
  <2>1. DOMAIN v = {1} /\ v[1] = p /\ v # <<>>
    BY <1>1
  <2> QED
    BY <2>1 DEF ToSet, RisingParts
<1>5. q \o v \in Seq(Part) /\ ToSet(q \o v) = ToSet(q) \cup ToSet(v) /\ q \o v # <<>>
  BY <1>3, <1>4, JoinIs
<1>6. RisingParts(q) /\ Prior(ToSet(q), {p}) => RisingParts(q \o v)
  BY <1>3, <1>4, JoinRises
<1> QED
  BY <1>2, <1>3, <1>5, <1>6

LEMMA NoneIs == ToSet(<<>>) = {} /\ RisingParts(<<>>) /\ PartsShown(<<>>) = {}
BY DEF ToSet, RisingParts, PartsShown

LEMMA CameBefore ==
  ASSUME NEW t \in Nat, NEW k \in Nat, NEW p \in Part, p.turn = t, Place(p) = k + 1
  PROVE  Prior(Came(t, k), {p}) /\ p \in Came(t, k + 1) /\ Came(t, k) \subseteq Came(t, k + 1)
<1>1. \A q \in Part : q.turn \in Nat /\ Place(q) \in Int
  BY TerminalAssumption DEF Part, Place
<1>2. \A q \in Came(t, k) : q \in Part /\ (q.turn < t \/ (q.turn = t /\ Place(q) <= k))
  BY DEF Came
<1>3. Prior(Came(t, k), {p})
  BY <1>1, <1>2 DEF Prior, Before
<1>4. p \in Came(t, k + 1)
  BY DEF Came
<1>5. Came(t, k) \subseteq Came(t, k + 1)
  BY <1>1 DEF Came
<1> QED
  BY <1>3, <1>4, <1>5

LEMMA OrderlyIs ==
  ASSUME NEW s, NEW t, NEW k
  PROVE  LET P == PartsShown(s.out)
             Q == ToSet(s.pending)
             B == ToSet(s.block)
             R == ToSet(s.rest)
         IN  Orderly(s, t, k) <=>
               /\ RisingParts(s.pending) /\ RisingParts(s.block) /\ RisingParts(s.rest) /\ RisingShown(s.out)
               /\ Prior(P, Q) /\ Prior(P, B) /\ Prior(P, R) /\ Prior(Q, B) /\ Prior(Q, R) /\ Prior(B, R)
               /\ P \cup Q \cup B \cup R \subseteq Came(t, k) /\ (~s.open => s.block = <<>>)
<1> DEFINE P == PartsShown(s.out)
           Q == ToSet(s.pending)
           B == ToSet(s.block)
           R == ToSet(s.rest)
<1>1. Orderly(s, t, k) <=>
        /\ RisingParts(s.pending) /\ RisingParts(s.block) /\ RisingParts(s.rest) /\ RisingShown(s.out)
        /\ Prior(P, Q \cup B \cup R) /\ Prior(Q, B \cup R) /\ Prior(B, R)
        /\ P \cup Q \cup B \cup R \subseteq Came(t, k) /\ (~s.open => s.block = <<>>)
  BY DEF Orderly
<1> HIDE DEF P, Q, B, R
<1>2. Prior(P, Q \cup B \cup R) <=> Prior(P, Q) /\ Prior(P, B) /\ Prior(P, R)
  BY DEF Prior
<1>3. Prior(Q, B \cup R) <=> Prior(Q, B) /\ Prior(Q, R)
  BY DEF Prior
<1> QED
  BY <1>1, <1>2, <1>3 DEF P, Q, B, R

LEMMA FeedOrderly ==
  ASSUME NEW s \in Renderers, NEW t \in Nat, NEW k \in Nat, NEW p \in Part, p.turn = t, Place(p) = k + 1,
         Orderly(s, t, k)
  PROVE  Orderly(FeedPart(s, p), t, k + 1)
<1> DEFINE came == Append(s.rest, p)
           P == PartsShown(s.out)
           Q == ToSet(s.pending)
           B == ToSet(s.block)
           R == ToSet(s.rest)
<1>0. /\ s.rest \in Seq(Part) /\ s.open \in BOOLEAN /\ s.block \in Seq(Part) /\ s.pending \in Seq(Part)
      /\ s.out \in Seq(Shown)
  BY DEF Renderers
<1>1. /\ RisingParts(s.pending) /\ RisingParts(s.block) /\ RisingParts(s.rest) /\ RisingShown(s.out)
      /\ Prior(P, Q) /\ Prior(P, B) /\ Prior(P, R) /\ Prior(Q, B) /\ Prior(Q, R) /\ Prior(B, R)
      /\ P \cup Q \cup B \cup R \subseteq Came(t, k) /\ (~s.open => s.block = <<>>)
  BY OrderlyIs
<1>2. /\ came \in Seq(Part) /\ ToSet(came) = R \cup {p}
      /\ (RisingParts(s.rest) /\ Prior(R, {p}) => RisingParts(came))
  BY <1>0, AppendIs
<1>3. PICK r : r = FeedPart(s, p)
  OBVIOUS
<1>4. Prior(Came(t, k), {p}) /\ p \in Came(t, k + 1) /\ Came(t, k) \subseteq Came(t, k + 1)
  BY CameBefore
<1>5. Prior(P, {p}) /\ Prior(Q, {p}) /\ Prior(B, {p}) /\ Prior(R, {p})
  <2>1. P \subseteq Came(t, k) /\ Q \subseteq Came(t, k) /\ B \subseteq Came(t, k) /\ R \subseteq Came(t, k)
    BY <1>1
  <2> HIDE DEF P, Q, B, R
  <2> QED
    BY <1>4, <2>1 DEF Prior
<1>6. RisingParts(came) /\ Prior(P, ToSet(came)) /\ Prior(Q, ToSet(came)) /\ Prior(B, ToSet(came))
  <2>1. RisingParts(came)
    BY <1>1, <1>2, <1>5
  <2> HIDE DEF P, Q, B, R, came
  <2>2. Prior(P, R \cup {p}) /\ Prior(Q, R \cup {p}) /\ Prior(B, R \cup {p})
    BY <1>1, <1>5 DEF Prior
  <2> QED
    BY <1>2, <2>1, <2>2
<1>7. P \cup Q \cup B \cup ToSet(came) \subseteq Came(t, k + 1)
  BY <1>1, <1>2, <1>4
<1>8. \/ /\ r.rest = came /\ r.open = s.open /\ r.block = s.block /\ r.pending = s.pending /\ r.out = s.out
      \/ r.rest = <<>> /\ r.open = TRUE /\ r.block = <<>> /\ r.pending = s.pending /\ r.out = s.out
      \/ /\ r.rest = <<>> /\ r.open = FALSE /\ r.block = <<>> /\ r.pending = <<>>
         /\ r.out = (s.out \o Printed(s.pending, FALSE)) \o Printed(s.block, TRUE)
      \/ /\ s.open /\ r.rest = <<>> /\ r.open = s.open /\ r.block = s.block \o came
         /\ r.pending = s.pending /\ r.out = s.out
      \/ /\ ~s.open /\ r.rest = <<>> /\ r.open = s.open /\ r.block = s.block
         /\ r.pending = s.pending \o came /\ r.out = s.out
  <2>1. Fed(s, came, p, r)
    BY <1>3, FeedIs
  <2> HIDE DEF P, Q, B, R, came
  <2> QED
    BY <2>1 DEF Fed
<1> HIDE DEF came, P, Q, B, R
<1> SUFFICES Orderly(r, t, k + 1)
  BY <1>3
<1>14. \A A : Prior({}, A) /\ Prior(A, {})
  BY DEF Prior
<1>9. CASE r.rest = came /\ r.open = s.open /\ r.block = s.block /\ r.pending = s.pending /\ r.out = s.out
  BY <1>1, <1>6, <1>7, <1>9, OrderlyIs DEF P, Q, B
<1>10. CASE r.rest = <<>> /\ r.open = TRUE /\ r.block = <<>> /\ r.pending = s.pending /\ r.out = s.out
  <2>1. P \cup Q \cup {} \cup {} \subseteq Came(t, k + 1)
    BY <1>7
  <2> QED
    BY <1>1, <1>10, <1>14, <2>1, NoneIs, OrderlyIs DEF P, Q
<1>11. CASE /\ r.rest = <<>> /\ r.open = FALSE /\ r.block = <<>> /\ r.pending = <<>>
            /\ r.out = (s.out \o Printed(s.pending, FALSE)) \o Printed(s.block, TRUE)
  <2>1. PICK o : o = s.out \o Printed(s.pending, FALSE)
    OBVIOUS
  <2>2. o \in Seq(Shown) /\ PartsShown(o) = P \cup Q /\ RisingShown(o)
    BY <1>0, <1>1, <2>1, PrintIs, PrintRises, NoParts DEF P, Q
  <2>3. Prior(P \cup Q, B)
    BY <1>1 DEF Prior
  <2>4. PartsShown(r.out) = (P \cup Q) \cup B
    <3>1. PartsShown(o \o Printed(s.block, TRUE)) = PartsShown(o) \cup ToSet(s.block)
      BY <1>0, <2>2, PrintIs, NoParts
    <3> QED
      BY <1>11, <2>1, <2>2, <3>1 DEF B
  <2>7. RisingShown(o \o Printed(s.block, TRUE))
    BY <1>0, <1>1, <2>2, <2>3, PrintRises, NoParts DEF B
  <2>5. PartsShown(r.out) \cup {} \cup {} \cup {} \subseteq Came(t, k + 1)
    BY <1>7, <2>4
  <2> QED
    BY <1>11, <1>14, <2>1, <2>5, <2>7, NoneIs, OrderlyIs
<1>12. CASE /\ s.open /\ r.rest = <<>> /\ r.open = s.open /\ r.block = s.block \o came
            /\ r.pending = s.pending /\ r.out = s.out
  <2>1. ToSet(r.block) = B \cup ToSet(came)
    BY <1>0, <1>2, <1>12, JoinIs DEF B
  <2>2. RisingParts(r.block)
    BY <1>0, <1>1, <1>2, <1>6, <1>12, JoinRises DEF B
  <2>3. Prior(P, B \cup ToSet(came)) /\ Prior(Q, B \cup ToSet(came))
    BY <1>1, <1>6 DEF Prior
  <2>4. P \cup Q \cup (B \cup ToSet(came)) \cup {} \subseteq Came(t, k + 1)
    BY <1>7
  <2> QED
    BY <1>1, <1>12, <1>14, <2>1, <2>2, <2>3, <2>4, NoneIs, OrderlyIs DEF P, Q
<1>13. CASE /\ ~s.open /\ r.rest = <<>> /\ r.open = s.open /\ r.block = s.block
            /\ r.pending = s.pending \o came /\ r.out = s.out
  <2>1. ToSet(r.pending) = Q \cup ToSet(came)
    BY <1>0, <1>2, <1>13, JoinIs DEF Q
  <2>2. RisingParts(r.pending)
    BY <1>0, <1>1, <1>2, <1>6, <1>13, JoinRises DEF Q
  <2>3. r.block = <<>>
    BY <1>1, <1>13
  <2>4. Prior(P, Q \cup ToSet(came))
    BY <1>1, <1>6 DEF Prior
  <2>5. P \cup (Q \cup ToSet(came)) \cup {} \cup {} \subseteq Came(t, k + 1)
    BY <1>7
  <2> QED
    BY <1>1, <1>13, <1>14, <2>1, <2>2, <2>3, <2>4, <2>5, NoneIs, OrderlyIs DEF P
<1> QED
  BY <1>8, <1>9, <1>10, <1>11, <1>12, <1>13

(* What the renderer's other operations do.                                  *)
LEMMA PartsOfRenderer ==
  ASSUME NEW s \in Renderers
  PROVE  /\ s.rest \in Seq(Part) /\ s.open \in BOOLEAN /\ s.block \in Seq(Part)
         /\ s.pending \in Seq(Part) /\ s.out \in Seq(Shown)
BY DEF Renderers

LEMMA ShapeOfRenderer ==
  ASSUME NEW s \in Renderers
  PROVE  s = [rest |-> s.rest, open |-> s.open, block |-> s.block, pending |-> s.pending, out |-> s.out]
BY DEF Renderers

LEMMA EmitBlockIs ==
  ASSUME NEW s \in Renderers, NEW lines
  PROVE  EmitBlock(s, lines)
           = [rest |-> s.rest, open |-> FALSE, block |-> <<>>, pending |-> <<>>,
              out |-> (s.out \o Printed(s.pending, FALSE)) \o Printed(lines, TRUE)]
<1>1. PICK z : z = (s.out \o Printed(s.pending, FALSE)) \o Printed(lines, TRUE)
  OBVIOUS
<1>2. EmitBlock(s, lines) = [s EXCEPT !.out = z, !.pending = <<>>, !.open = FALSE, !.block = <<>>]
  BY <1>1 DEF EmitBlock
<1>3. s = [rest |-> s.rest, open |-> s.open, block |-> s.block, pending |-> s.pending, out |-> s.out]
  BY ShapeOfRenderer
<1>4. EmitBlock(s, lines) = [rest |-> s.rest, open |-> FALSE, block |-> <<>>, pending |-> <<>>, out |-> z]
  BY <1>2, <1>3
<1> QED
  BY <1>1, <1>4

LEMMA DropIs ==
  ASSUME NEW s \in Renderers, NEW r, r = [s EXCEPT !.pending = <<>>]
  PROVE  /\ r \in Renderers
         /\ r.rest = s.rest /\ r.open = s.open /\ r.block = s.block /\ r.pending = <<>> /\ r.out = s.out
<1>0. /\ s.rest \in Seq(Part) /\ s.open \in BOOLEAN /\ s.block \in Seq(Part) /\ s.out \in Seq(Shown)
  BY PartsOfRenderer
<1>00. s = [rest |-> s.rest, open |-> s.open, block |-> s.block, pending |-> s.pending, out |-> s.out]
  BY ShapeOfRenderer
<1>1. r = [rest |-> s.rest, open |-> s.open, block |-> s.block, pending |-> <<>>, out |-> s.out]
  BY <1>00
<1>2. r \in Renderers
  <2>1. <<>> \in Seq(Part)
    BY NoParts
  <2>2. [rest |-> s.rest, open |-> s.open, block |-> s.block, pending |-> <<>>, out |-> s.out] \in Renderers
    BY <1>0, <2>1, RendererIs
  <2> QED
    BY <1>1, <2>2
<1>3. r.rest = s.rest /\ r.open = s.open /\ r.block = s.block /\ r.pending = <<>> /\ r.out = s.out
  BY <1>1
<1> QED
  BY <1>2, <1>3

LEMMA FlushNowIs ==
  ASSUME NEW s \in Renderers, NEW r, r = FlushNow(s)
  PROVE  /\ r \in Renderers
         /\ r.rest = s.rest /\ r.open = s.open /\ r.block = s.block /\ r.pending = <<>>
         /\ r.out = s.out \o Printed(s.pending, FALSE)
<1>0. /\ s.rest \in Seq(Part) /\ s.open \in BOOLEAN /\ s.block \in Seq(Part)
      /\ s.pending \in Seq(Part) /\ s.out \in Seq(Shown)
  BY PartsOfRenderer
<1>00. s = [rest |-> s.rest, open |-> s.open, block |-> s.block, pending |-> s.pending, out |-> s.out]
  BY ShapeOfRenderer
<1> DEFINE o == s.out \o Printed(s.pending, FALSE)
<1>1. r = [rest |-> s.rest, open |-> s.open, block |-> s.block, pending |-> <<>>, out |-> o]
  BY <1>00 DEF FlushNow
<1>2. o \in Seq(Shown)
  BY <1>0, PrintIs, NoParts
<1> HIDE DEF o
<1>3. r \in Renderers
  <2>1. <<>> \in Seq(Part)
    BY NoParts
  <2>2. [rest |-> s.rest, open |-> s.open, block |-> s.block, pending |-> <<>>, out |-> o] \in Renderers
    BY <1>0, <1>2, <2>1, RendererIs
  <2> QED
    BY <1>1, <2>2
<1>4. r.rest = s.rest /\ r.open = s.open /\ r.block = s.block /\ r.pending = <<>> /\ r.out = o
  BY <1>1
<1> QED
  BY <1>3, <1>4 DEF o

(* The flush at the end of a turn renders a block that has lines, or else    *)
(* gives the line that has not ended to the text.                            *)
LEMMA FlushBlockIs ==
  ASSUME NEW s \in Renderers, NEW r, r = FlushBlock(s)
  PROVE  /\ r \in Renderers
         /\ \/ /\ s.open /\ s.block # <<>>
               /\ r.rest = <<>> /\ r.open = FALSE /\ r.block = <<>> /\ r.pending = <<>>
               /\ r.out = (s.out \o Printed(s.pending, FALSE)) \o Printed(s.block \o s.rest, TRUE)
            \/ /\ ~s.open \/ s.block = <<>>
               /\ r.rest = <<>> /\ r.open = s.open /\ r.block = s.block
               /\ r.pending = s.pending \o s.rest /\ r.out = s.out
<1>0. /\ s.rest \in Seq(Part) /\ s.open \in BOOLEAN /\ s.block \in Seq(Part)
      /\ s.pending \in Seq(Part) /\ s.out \in Seq(Shown)
  BY PartsOfRenderer
<1>00. s = [rest |-> s.rest, open |-> s.open, block |-> s.block, pending |-> s.pending, out |-> s.out]
  BY ShapeOfRenderer
<1>1. CASE s.open /\ s.block # <<>>
  <2> DEFINE lines == s.block \o s.rest
             o == (s.out \o Printed(s.pending, FALSE)) \o Printed(lines, TRUE)
  <2>1. lines \in Seq(Part)
    BY <1>0, JoinIs
  <2>2. r = [EmitBlock(s, lines) EXCEPT !.rest = <<>>]
    BY <1>1 DEF FlushBlock
  <2> HIDE DEF lines
  <2>3. EmitBlock(s, lines) = [rest |-> s.rest, open |-> FALSE, block |-> <<>>, pending |-> <<>>, out |-> o]
    BY EmitBlockIs
  <2>4. s.out \o Printed(s.pending, FALSE) \in Seq(Shown)
    BY <1>0, PrintIs, NoParts
  <2>5. o \in Seq(Shown)
    BY <2>1, <2>4, PrintIs, NoParts
  <2> HIDE DEF o
  <2>9. EmitBlock(s, lines) = [rest |-> s.rest, open |-> FALSE, block |-> <<>>, pending |-> <<>>, out |-> o]
    BY <2>3
  <2>6. r = [rest |-> <<>>, open |-> FALSE, block |-> <<>>, pending |-> <<>>, out |-> o]
    <3>1. PICK e : e = EmitBlock(s, lines)
      OBVIOUS
    <3>2. e = [rest |-> s.rest, open |-> FALSE, block |-> <<>>, pending |-> <<>>, out |-> o]
      BY <2>9, <3>1
    <3>3. r = [e EXCEPT !.rest = <<>>]
      BY <2>2, <3>1
    <3> QED
      BY <3>2, <3>3
  <2>7. r \in Renderers
    BY <2>5, <2>6, RendererIs, NoParts
  <2>8. r.rest = <<>> /\ r.open = FALSE /\ r.block = <<>> /\ r.pending = <<>> /\ r.out = o
    BY <2>6
  <2> QED
    BY <1>1, <2>7, <2>8 DEF o, lines
<1>2. CASE ~s.open \/ s.block = <<>>
  <2> DEFINE more == s.pending \o s.rest
  <2>1. more \in Seq(Part)
    BY <1>0, JoinIs
  <2>2. r = [s EXCEPT !.pending = more, !.rest = <<>>]
    BY <1>2 DEF FlushBlock
  <2> HIDE DEF more
  <2>3. r = [rest |-> <<>>, open |-> s.open, block |-> s.block, pending |-> more, out |-> s.out]
    BY <1>00, <2>2
  <2>4. r \in Renderers
    <3>1. <<>> \in Seq(Part)
      BY NoParts
    <3>2. [rest |-> <<>>, open |-> s.open, block |-> s.block, pending |-> more, out |-> s.out] \in Renderers
      BY <1>0, <2>1, <3>1, RendererIs
    <3> QED
      BY <2>3, <3>2
  <2>5. r.rest = <<>> /\ r.open = s.open /\ r.block = s.block /\ r.pending = more /\ r.out = s.out
    BY <2>3
  <2> QED
    BY <1>2, <2>4, <2>5 DEF more
<1> QED
  BY <1>0, <1>1, <1>2

LEMMA DropOrderly ==
  ASSUME NEW s \in Renderers, NEW t, NEW k, Orderly(s, t, k)
  PROVE  Orderly([s EXCEPT !.pending = <<>>], t, k)
<1>1. PICK r : r = [s EXCEPT !.pending = <<>>]
  OBVIOUS
<1>2. r.rest = s.rest /\ r.open = s.open /\ r.block = s.block /\ r.pending = <<>> /\ r.out = s.out
  BY <1>1, DropIs
<1> DEFINE P == PartsShown(s.out)
           Q == ToSet(s.pending)
           B == ToSet(s.block)
           R == ToSet(s.rest)
<1>3. /\ RisingParts(s.pending) /\ RisingParts(s.block) /\ RisingParts(s.rest) /\ RisingShown(s.out)
      /\ Prior(P, Q) /\ Prior(P, B) /\ Prior(P, R) /\ Prior(Q, B) /\ Prior(Q, R) /\ Prior(B, R)
      /\ P \cup Q \cup B \cup R \subseteq Came(t, k) /\ (~s.open => s.block = <<>>)
  BY OrderlyIs
<1> HIDE DEF P, Q, B, R
<1>4. (\A A : Prior({}, A) /\ Prior(A, {})) /\ P \cup {} \cup B \cup R \subseteq Came(t, k)
  BY <1>3 DEF Prior
<1>5. Orderly(r, t, k)
  BY <1>2, <1>3, <1>4, NoneIs, OrderlyIs DEF P, B, R
<1> QED
  BY <1>1, <1>5

LEMMA FlushNowOrderly ==
  ASSUME NEW s \in Renderers, NEW t, NEW k, Orderly(s, t, k)
  PROVE  Orderly(FlushNow(s), t, k)
<1>1. PICK r : r = FlushNow(s)
  OBVIOUS
<1>2. /\ r.rest = s.rest /\ r.open = s.open /\ r.block = s.block /\ r.pending = <<>>
      /\ r.out = s.out \o Printed(s.pending, FALSE)
  BY <1>1, FlushNowIs
<1> DEFINE P == PartsShown(s.out)
           Q == ToSet(s.pending)
           B == ToSet(s.block)
           R == ToSet(s.rest)
<1>3. /\ RisingParts(s.pending) /\ RisingParts(s.block) /\ RisingParts(s.rest) /\ RisingShown(s.out)
      /\ Prior(P, Q) /\ Prior(P, B) /\ Prior(P, R) /\ Prior(Q, B) /\ Prior(Q, R) /\ Prior(B, R)
      /\ P \cup Q \cup B \cup R \subseteq Came(t, k) /\ (~s.open => s.block = <<>>)
  BY OrderlyIs
<1>4. s.pending \in Seq(Part) /\ s.out \in Seq(Shown)
  BY PartsOfRenderer
<1>5. PartsShown(r.out) = P \cup Q
  <2>1. PartsShown(s.out \o Printed(s.pending, FALSE)) = PartsShown(s.out) \cup ToSet(s.pending)
    BY <1>4, PrintIs, NoParts
  <2> QED
    BY <1>2, <2>1 DEF P, Q
<1>6. RisingShown(r.out)
  BY <1>2, <1>3, <1>4, PrintRises, NoParts DEF P, Q
<1> HIDE DEF P, Q, B, R
<1>7. (\A A : Prior({}, A) /\ Prior(A, {})) /\ (P \cup Q) \cup {} \cup B \cup R \subseteq Came(t, k)
  BY <1>3 DEF Prior
<1>8. Prior(P \cup Q, B) /\ Prior(P \cup Q, R)
  BY <1>3 DEF Prior
<1>9. Orderly(r, t, k)
  BY <1>2, <1>3, <1>5, <1>6, <1>7, <1>8, NoneIs, OrderlyIs DEF B, R
<1> QED
  BY <1>1, <1>9

LEMMA FlushBlockOrderly ==
  ASSUME NEW s \in Renderers, NEW t, NEW k, Orderly(s, t, k)
  PROVE  Orderly(FlushBlock(s), t, k)
<1>1. PICK r : r = FlushBlock(s)
  OBVIOUS
<1>2. \/ /\ s.open /\ s.block # <<>>
         /\ r.rest = <<>> /\ r.open = FALSE /\ r.block = <<>> /\ r.pending = <<>>
         /\ r.out = (s.out \o Printed(s.pending, FALSE)) \o Printed(s.block \o s.rest, TRUE)
      \/ /\ ~s.open \/ s.block = <<>>
         /\ r.rest = <<>> /\ r.open = s.open /\ r.block = s.block
         /\ r.pending = s.pending \o s.rest /\ r.out = s.out
  BY <1>1, FlushBlockIs
<1> DEFINE P == PartsShown(s.out)
           Q == ToSet(s.pending)
           B == ToSet(s.block)
           R == ToSet(s.rest)
<1>3. /\ RisingParts(s.pending) /\ RisingParts(s.block) /\ RisingParts(s.rest) /\ RisingShown(s.out)
      /\ Prior(P, Q) /\ Prior(P, B) /\ Prior(P, R) /\ Prior(Q, B) /\ Prior(Q, R) /\ Prior(B, R)
      /\ P \cup Q \cup B \cup R \subseteq Came(t, k) /\ (~s.open => s.block = <<>>)
  BY OrderlyIs
<1>4. /\ s.pending \in Seq(Part) /\ s.block \in Seq(Part) /\ s.rest \in Seq(Part) /\ s.out \in Seq(Shown)
      /\ s.open \in BOOLEAN
  BY PartsOfRenderer
<1>0. \A A : Prior({}, A) /\ Prior(A, {})
  BY DEF Prior
<1>5. CASE /\ s.open /\ s.block # <<>>
           /\ r.rest = <<>> /\ r.open = FALSE /\ r.block = <<>> /\ r.pending = <<>>
           /\ r.out = (s.out \o Printed(s.pending, FALSE)) \o Printed(s.block \o s.rest, TRUE)
  <2>1. PICK o : o = s.out \o Printed(s.pending, FALSE)
    OBVIOUS
  <2>2. o \in Seq(Shown) /\ PartsShown(o) = P \cup Q /\ RisingShown(o)
    BY <1>3, <1>4, <2>1, PrintIs, PrintRises, NoParts DEF P, Q
  <2>3. PICK l : l = s.block \o s.rest
    OBVIOUS
  <2>4. l \in Seq(Part) /\ ToSet(l) = B \cup R /\ RisingParts(l)
    BY <1>3, <1>4, <2>3, JoinIs, JoinRises DEF B, R
  <2> HIDE DEF P, Q, B, R
  <2>5. Prior(P \cup Q, B \cup R)
    BY <1>3 DEF Prior
  <2>6. PartsShown(r.out) = (P \cup Q) \cup (B \cup R) /\ RisingShown(r.out)
    <3>1. r.out = o \o Printed(l, TRUE)
      BY <1>5, <2>1, <2>3
    <3> QED
      BY <2>2, <2>4, <2>5, <3>1, PrintIs, PrintRises, NoParts
  <2>7. ((P \cup Q) \cup (B \cup R)) \cup {} \cup {} \cup {} \subseteq Came(t, k)
    BY <1>3
  <2>8. Orderly(r, t, k)
    BY <1>0, <1>5, <2>6, <2>7, NoneIs, OrderlyIs
  <2> QED
    BY <1>1, <2>8
<1>6. CASE /\ ~s.open \/ s.block = <<>>
           /\ r.rest = <<>> /\ r.open = s.open /\ r.block = s.block
           /\ r.pending = s.pending \o s.rest /\ r.out = s.out
  <2>1. ToSet(r.pending) = Q \cup R /\ RisingParts(r.pending)
    BY <1>3, <1>4, <1>6, JoinIs, JoinRises DEF Q, R
  <2>2. s.block = <<>> /\ r.block = <<>>
    BY <1>3, <1>6
  <2> HIDE DEF P, Q, B, R
  <2>3. Prior(P, Q \cup R)
    BY <1>3 DEF Prior
  <2>4. P \cup (Q \cup R) \cup {} \cup {} \subseteq Came(t, k)
    BY <1>3
  <2>5. PartsShown(r.out) = P /\ RisingShown(r.out)
    BY <1>3, <1>6 DEF P
  <2>6. Orderly(r, t, k)
    BY <1>0, <1>6, <2>1, <2>2, <2>3, <2>4, <2>5, NoneIs, OrderlyIs
  <2> QED
    BY <1>1, <2>6
<1> QED
  BY <1>2, <1>5, <1>6

LEMMA OrderlyLater ==
  ASSUME NEW s, NEW t \in Nat, NEW k \in Nat, Orderly(s, t, k)
  PROVE  Orderly(s, t + 1, 0)
<1>1. Came(t, k) \subseteq Came(t + 1, 0)
  <2>1. \A q \in Part : q.turn \in Nat
    BY TerminalAssumption DEF Part
  <2> QED
    BY <2>1 DEF Came
<1> QED
  BY <1>1 DEF Orderly

(* What is shown of a turn whose parts are not held back any more stays.     *)
Held(s) == ToSet(s.pending) \cup ToSet(s.block) \cup ToSet(s.rest)

ShownOf(o, u) == {x \in ToSet(o) : x.part.turn = u}

Quiet(s, u) == \A p \in Held(s) : p.turn # u

Follows(s, r, N) ==
  /\ Held(r) \subseteq Held(s) \cup N
  /\ \E A, B \in SUBSET Held(s) : ToSet(r.out) = ToSet(s.out) \cup As(A, FALSE) \cup As(B, TRUE)

LEMMA QuietStays ==
  ASSUME NEW s, NEW r, NEW N, NEW u, Follows(s, r, N), Quiet(s, u), \A p \in N : p.turn # u
  PROVE  Quiet(r, u) /\ ShownOf(r.out, u) = ShownOf(s.out, u)
<1>1. Quiet(r, u)
  <2> USE DEF Quiet, Follows
  <2> HIDE DEF Held
  <2> QED
    OBVIOUS
<1>2. PICK A \in SUBSET Held(s), B \in SUBSET Held(s) :
        ToSet(r.out) = ToSet(s.out) \cup As(A, FALSE) \cup As(B, TRUE)
  BY DEF Follows
<1>3. \A x \in As(A, FALSE) \cup As(B, TRUE) : x.part \in Held(s)
  BY DEF As
<1>4. \A x \in As(A, FALSE) \cup As(B, TRUE) : x.part.turn # u
  BY <1>3 DEF Quiet
<1> QED
  BY <1>1, <1>2, <1>4 DEF ShownOf

LEMMA NoneAs == \A code : As({}, code) = {}
BY DEF As

LEMMA PrintsAll ==
  ASSUME NEW o \in Seq(Shown), NEW q \in Seq(Part), NEW r \in Seq(Part)
  PROVE  ToSet((o \o Printed(q, FALSE)) \o Printed(r, TRUE))
           = ToSet(o) \cup As(ToSet(q), FALSE) \cup As(ToSet(r), TRUE)
<1>1. PICK v : v = o \o Printed(q, FALSE)
  OBVIOUS
<1>2. v \in Seq(Shown) /\ ToSet(v) = ToSet(o) \cup As(ToSet(q), FALSE)
  BY <1>1, PrintIs, NoParts
<1>3. ToSet(v \o Printed(r, TRUE)) = ToSet(v) \cup As(ToSet(r), TRUE)
  BY <1>2, PrintIs, NoParts
<1> QED
  BY <1>1, <1>2, <1>3

LEMMA FeedFollows ==
  ASSUME NEW s \in Renderers, NEW p \in Part
  PROVE  Follows(s, FeedPart(s, p), {p})
<1>1. PICK r : r = FeedPart(s, p)
  OBVIOUS
<1>2. PICK came : came = Append(s.rest, p)
  OBVIOUS
<1>3. /\ s.rest \in Seq(Part) /\ s.block \in Seq(Part) /\ s.pending \in Seq(Part) /\ s.out \in Seq(Shown)
  BY PartsOfRenderer
<1>4. came \in Seq(Part) /\ ToSet(came) = ToSet(s.rest) \cup {p}
  BY <1>2, <1>3, AppendIs
<1>5. Fed(s, came, p, r)
  BY <1>1, <1>2, FeedIs
<1>6. Held(r) \subseteq Held(s) \cup {p}
  <2>1. ToSet(s.block \o came) = ToSet(s.block) \cup ToSet(came)
    BY <1>3, <1>4, JoinIs
  <2>2. ToSet(s.pending \o came) = ToSet(s.pending) \cup ToSet(came)
    BY <1>3, <1>4, JoinIs
  <2>3. r.block \in {s.block, <<>>, s.block \o came}
    BY <1>5 DEF Fed
  <2>4. r.pending \in {s.pending, <<>>, s.pending \o came}
    BY <1>5 DEF Fed
  <2>5. r.rest \in {came, <<>>}
    BY <1>5 DEF Fed
  <2>6. ToSet(r.block) \subseteq Held(s) \cup {p}
    BY <1>4, <2>1, <2>3, NoneIs DEF Held
  <2>7. ToSet(r.pending) \subseteq Held(s) \cup {p}
    BY <1>4, <2>2, <2>4, NoneIs DEF Held
  <2>8. ToSet(r.rest) \subseteq Held(s) \cup {p}
    BY <1>4, <2>5, NoneIs DEF Held
  <2> QED
    BY <2>6, <2>7, <2>8 DEF Held
<1>7. r.out = s.out \/ r.out = (s.out \o Printed(s.pending, FALSE)) \o Printed(s.block, TRUE)
  BY <1>5 DEF Fed
<1>8. CASE r.out = s.out
  <2>1. ToSet(r.out) = ToSet(s.out) \cup As({}, FALSE) \cup As({}, TRUE)
    BY <1>8, NoneAs
  <2> QED
    BY <1>1, <1>6, <2>1 DEF Follows
<1>9. CASE r.out = (s.out \o Printed(s.pending, FALSE)) \o Printed(s.block, TRUE)
  <2>1. ToSet(r.out) = ToSet(s.out) \cup As(ToSet(s.pending), FALSE) \cup As(ToSet(s.block), TRUE)
    <3>1. ToSet((s.out \o Printed(s.pending, FALSE)) \o Printed(s.block, TRUE))
            = ToSet(s.out) \cup As(ToSet(s.pending), FALSE) \cup As(ToSet(s.block), TRUE)
      BY <1>3, PrintsAll
    <3> QED
      BY <1>9, <3>1
  <2>2. ToSet(s.pending) \subseteq Held(s) /\ ToSet(s.block) \subseteq Held(s)
    BY DEF Held
  <2> QED
    BY <1>1, <1>6, <2>1, <2>2 DEF Follows
<1> QED
  BY <1>7, <1>8, <1>9

LEMMA DropFollows ==
  ASSUME NEW s \in Renderers
  PROVE  Follows(s, [s EXCEPT !.pending = <<>>], {})
<1>1. PICK r : r = [s EXCEPT !.pending = <<>>]
  OBVIOUS
<1>2. r.rest = s.rest /\ r.block = s.block /\ r.pending = <<>> /\ r.out = s.out
  BY <1>1, DropIs
<1>3. Held(r) \subseteq Held(s) \cup {}
  BY <1>2, NoneIs DEF Held
<1>4. ToSet(r.out) = ToSet(s.out) \cup As({}, FALSE) \cup As({}, TRUE)
  BY <1>2, NoneAs
<1> QED
  BY <1>1, <1>3, <1>4 DEF Follows

LEMMA FlushNowFollows ==
  ASSUME NEW s \in Renderers
  PROVE  /\ Follows(s, FlushNow(s), {})
         /\ ToSet(FlushNow(s).out) = ToSet(s.out) \cup As(ToSet(s.pending), FALSE)
<1>1. PICK r : r = FlushNow(s)
  OBVIOUS
<1>2. /\ r.rest = s.rest /\ r.block = s.block /\ r.pending = <<>>
      /\ r.out = s.out \o Printed(s.pending, FALSE)
  BY <1>1, FlushNowIs
<1>3. Held(r) \subseteq Held(s) \cup {} /\ ToSet(s.pending) \subseteq Held(s)
  BY <1>2, NoneIs DEF Held
<1>4. ToSet(r.out) = ToSet(s.out) \cup As(ToSet(s.pending), FALSE)
  <2>1. s.pending \in Seq(Part) /\ s.out \in Seq(Shown)
    BY PartsOfRenderer
  <2> QED
    BY <1>2, <2>1, PrintIs, NoParts
<1>5. ToSet(r.out) = ToSet(s.out) \cup As(ToSet(s.pending), FALSE) \cup As({}, TRUE)
  BY <1>4, NoneAs
<1> QED
  BY <1>1, <1>3, <1>4, <1>5 DEF Follows

LEMMA FlushBlockFollows ==
  ASSUME NEW s \in Renderers
  PROVE  Follows(s, FlushBlock(s), {})
<1>1. PICK r : r = FlushBlock(s)
  OBVIOUS
<1>2. \/ /\ s.open /\ s.block # <<>>
         /\ r.rest = <<>> /\ r.open = FALSE /\ r.block = <<>> /\ r.pending = <<>>
         /\ r.out = (s.out \o Printed(s.pending, FALSE)) \o Printed(s.block \o s.rest, TRUE)
      \/ /\ ~s.open \/ s.block = <<>>
         /\ r.rest = <<>> /\ r.open = s.open /\ r.block = s.block
         /\ r.pending = s.pending \o s.rest /\ r.out = s.out
  BY <1>1, FlushBlockIs
<1>3. /\ s.rest \in Seq(Part) /\ s.block \in Seq(Part) /\ s.pending \in Seq(Part) /\ s.out \in Seq(Shown)
  BY PartsOfRenderer
<1>4. CASE /\ r.rest = <<>> /\ r.block = <<>> /\ r.pending = <<>>
           /\ r.out = (s.out \o Printed(s.pending, FALSE)) \o Printed(s.block \o s.rest, TRUE)
  <2>1. PICK l : l = s.block \o s.rest
    OBVIOUS
  <2>2. l \in Seq(Part) /\ ToSet(l) = ToSet(s.block) \cup ToSet(s.rest)
    BY <1>3, <2>1, JoinIs
  <2>3. ToSet(r.out) = ToSet(s.out) \cup As(ToSet(s.pending), FALSE) \cup As(ToSet(l), TRUE)
    <3>1. ToSet((s.out \o Printed(s.pending, FALSE)) \o Printed(l, TRUE))
            = ToSet(s.out) \cup As(ToSet(s.pending), FALSE) \cup As(ToSet(l), TRUE)
      <4>1. s.out \in Seq(Shown) /\ s.pending \in Seq(Part) /\ l \in Seq(Part)
        BY <1>3, <2>2
      <4> QED
        BY <4>1, PrintsAll
    <3> QED
      BY <1>4, <2>1, <3>1
  <2>4. ToSet(s.pending) \subseteq Held(s) /\ ToSet(l) \subseteq Held(s)
    BY <2>2 DEF Held
  <2>5. Held(r) \subseteq Held(s) \cup {}
    BY <1>4, NoneIs DEF Held
  <2> QED
    BY <1>1, <2>3, <2>4, <2>5 DEF Follows
<1>5. CASE r.rest = <<>> /\ r.block = s.block /\ r.pending = s.pending \o s.rest /\ r.out = s.out
  <2>1. ToSet(r.pending) = ToSet(s.pending) \cup ToSet(s.rest)
    BY <1>3, <1>5, JoinIs
  <2>2. Held(r) \subseteq Held(s) \cup {}
    BY <1>5, <2>1, NoneIs DEF Held
  <2>3. ToSet(r.out) = ToSet(s.out) \cup As({}, FALSE) \cup As({}, TRUE)
    BY <1>5, NoneAs
  <2> QED
    BY <1>1, <2>2, <2>3 DEF Follows
<1> QED
  BY <1>2, <1>4, <1>5

-----------------------------------------------------------------------------
(* A clean turn: what has been printed and what waits to be are the parts of *)
(* the complete lines that are text, as code when an odd number of fences is *)
(* before them.                                                              *)
InCode(a, t, l) == Cardinality({m \in 1 .. l - 1 : a[t].lines[m] = "fence"}) % 2 = 1

LineParts(t, l) == {Piece(t, 2 * l - 1), Piece(t, 2 * l)}

Whole(a, t, h) ==
  UNION {As(LineParts(t, l), InCode(a, t, l)) : l \in {m \in 1..h : a[t].lines[m] = "text"}}

Due(s, t) == As(ToSet(s.pending), FALSE) \cup As(ToSet(s.block), TRUE) \cup ShownOf(s.out, t)

Faithful(a, s, t, k) ==
  /\ s.rest = IF k % 2 = 1 THEN <<Piece(t, k)>> ELSE <<>>
  /\ s.open <=> InCode(a, t, k \div 2 + 1)
  /\ ~s.open => s.block = <<>>
  /\ s.open => k \div 2 > 0 /\ (s.block = <<>> <=> a[t].lines[k \div 2] = "fence")
  /\ Due(s, t) = Whole(a, t, k \div 2)

LEMMA Odd == ASSUME NEW n \in Nat PROVE (n + 1) % 2 = 1 <=> ~(n % 2 = 1)
OBVIOUS

LEMMA CodeFrom ==
  ASSUME NEW a, NEW t
  PROVE  /\ ~InCode(a, t, 1)
         /\ \A h \in Nat \ {0} :
              InCode(a, t, h + 1) <=> IF a[t].lines[h] = "fence" THEN ~InCode(a, t, h) ELSE InCode(a, t, h)
<1> DEFINE F(l) == {m \in 1 .. l - 1 : a[t].lines[m] = "fence"}
<1>1. ~InCode(a, t, 1)
  <2>1. F(1) = {}
    OBVIOUS
  <2>2. Cardinality({}) = 0
    BY FS_EmptySet
  <2> QED
    BY <2>1, <2>2 DEF InCode
<1>2. ASSUME NEW h \in Nat \ {0}
      PROVE  InCode(a, t, h + 1) <=> IF a[t].lines[h] = "fence" THEN ~InCode(a, t, h) ELSE InCode(a, t, h)
  <2>1. F(h + 1) = IF a[t].lines[h] = "fence" THEN F(h) \cup {h} ELSE F(h)
    OBVIOUS
  <2>2. IsFiniteSet(F(h)) /\ h \notin F(h)
    <3>1. IsFiniteSet(1 .. h - 1)
      BY FS_Interval
    <3> QED
      BY <3>1, FS_Subset
  <2>3. InCode(a, t, h + 1) <=> Cardinality(F(h + 1)) % 2 = 1
    BY DEF InCode
  <2>4. InCode(a, t, h) <=> Cardinality(F(h)) % 2 = 1
    BY DEF InCode
  <2> HIDE DEF F
  <2>5. PICK n \in Nat : n = Cardinality(F(h))
    BY <2>2, FS_CardinalityType
  <2>6. Cardinality(F(h) \cup {h}) = n + 1
    BY <2>2, <2>5, FS_AddElement
  <2>7. CASE a[t].lines[h] = "fence"
    BY <2>1, <2>3, <2>4, <2>5, <2>6, <2>7, Odd
  <2>8. CASE a[t].lines[h] # "fence"
    BY <2>1, <2>3, <2>4, <2>8
  <2> QED
    BY <2>7, <2>8
<1> QED
  BY <1>1, <1>2

LEMMA WholeGrows ==
  ASSUME NEW a, NEW t, NEW h \in Nat
  PROVE  /\ Whole(a, t, 0) = {}
         /\ Whole(a, t, h + 1) = IF a[t].lines[h + 1] = "text"
                                 THEN Whole(a, t, h) \cup As(LineParts(t, h + 1), InCode(a, t, h + 1))
                                 ELSE Whole(a, t, h)
<1> DEFINE T(n) == {m \in 1..n : a[t].lines[m] = "text"}
           E(l) == As(LineParts(t, l), InCode(a, t, l))
<1>1. T(0) = {} /\ T(h + 1) = IF a[t].lines[h + 1] = "text" THEN T(h) \cup {h + 1} ELSE T(h)
  OBVIOUS
<1>2. \A n : Whole(a, t, n) = UNION {E(l) : l \in T(n)}
  BY DEF Whole
<1> HIDE DEF T, E
<1>3. \A n, x : x \in Whole(a, t, n) <=> \E l \in T(n) : x \in E(l)
  BY <1>2
<1>4. Whole(a, t, 0) = {}
  BY <1>1, <1>3
<1>5. CASE a[t].lines[h + 1] = "text"
  <2>1. T(h + 1) = T(h) \cup {h + 1}
    BY <1>1, <1>5
  <2>2. \A x : x \in Whole(a, t, h + 1) <=> x \in Whole(a, t, h) \/ x \in E(h + 1)
    BY <1>3, <2>1
  <2>3. Whole(a, t, h + 1) = Whole(a, t, h) \cup E(h + 1)
    BY <2>2
  <2> QED
    BY <1>4, <1>5, <2>3 DEF E
<1>6. CASE a[t].lines[h + 1] # "text"
  <2>1. T(h + 1) = T(h)
    BY <1>1, <1>6
  <2>2. \A x : x \in Whole(a, t, h + 1) <=> x \in Whole(a, t, h)
    BY <1>3, <2>1
  <2>3. Whole(a, t, h + 1) = Whole(a, t, h)
    BY <2>2
  <2> QED
    BY <1>4, <1>6, <2>3
<1> QED
  BY <1>5, <1>6

LEMMA WholeOf ==
  ASSUME NEW a, NEW t \in 1..Turns, NEW h \in 0..MaxLines
  PROVE  \A x \in Whole(a, t, h) : x.part.turn = t
<1> SUFFICES ASSUME NEW l \in 1..h, NEW x \in As(LineParts(t, l), InCode(a, t, l)) PROVE x.part.turn = t
  BY DEF Whole
<1>1. x.part \in LineParts(t, l)
  BY DEF As
<1>2. \A i : Piece(t, i).turn = t
  BY DEF Piece
<1> QED
  BY <1>1, <1>2 DEF LineParts

LEMMA TwoParts ==
  ASSUME NEW q \in Seq(Part), NEW p \in Part, q = <<>>
  PROVE  Append(q, p) = <<p>>
OBVIOUS

LEMMA SecondPart ==
  ASSUME NEW p \in Part, NEW q \in Part, NEW came, came = Append(<<q>>, p)
  PROVE  /\ came \in Seq(Part) /\ ToSet(came) = {q, p} /\ came # <<>>
         /\ IsFence(came) <=> Kind(q) = "fence"
<1>1. PICK v : v = <<q>>
  OBVIOUS
<1>2. v \in Seq(Part) /\ Len(v) = 1 /\ v[1] = q
  BY <1>1
<1>3. ToSet(v) = {q}
  BY <1>2 DEF ToSet
<1>4. came = Append(v, p)
  BY <1>1
<1>5. Len(came) = 2 /\ came[1] = q
  BY <1>2, <1>4
<1>6. came \in Seq(Part) /\ ToSet(came) = ToSet(v) \cup {p} /\ came # <<>>
  BY <1>2, <1>4, AppendIs
<1> QED
  BY <1>3, <1>5, <1>6 DEF IsFence

(* The text printed and the block printed are what was due.                  *)
LEMMA EmitsDue ==
  ASSUME NEW s, NEW r, NEW t, NEW W, Due(s, t) = W, \A x \in W : x.part.turn = t,
         ToSet(r.out) = ToSet(s.out) \cup As(ToSet(s.pending), FALSE) \cup As(ToSet(s.block), TRUE),
         ToSet(r.pending) = {}, ToSet(r.block) = {}
  PROVE  Due(r, t) = W
<1> DEFINE Q == As(ToSet(s.pending), FALSE)
           B == As(ToSet(s.block), TRUE)
<1>1. Q \cup B \cup ShownOf(s.out, t) = W
  BY DEF Due
<1>2. Due(r, t) = ShownOf(r.out, t)
  BY NoneAs DEF Due
<1>3. ToSet(r.out) = ToSet(s.out) \cup Q \cup B
  OBVIOUS
<1> HIDE DEF Q, B
<1>4. \A x \in Q \cup B : x.part.turn = t
  BY <1>1
<1>5. ShownOf(r.out, t) = ShownOf(s.out, t) \cup Q \cup B
  BY <1>3, <1>4 DEF ShownOf
<1> QED
  BY <1>1, <1>2, <1>5

LEMMA FeedFaithful ==
  ASSUME answers \in AnswerLists, NEW t \in 1..Turns, NEW s \in Renderers,
         NEW k \in Nat, k + 1 <= Size(answers, t), Faithful(answers, s, t, k)
  PROVE  Faithful(answers, FeedPart(s, Piece(t, k + 1)), t, k + 1)
<1>1. PICK p : p = Piece(t, k + 1)
  OBVIOUS
<1>2. PICK r : r = FeedPart(s, p)
  OBVIOUS
<1>3. PICK L : L = answers[t].lines
  OBVIOUS
<1>4. PICK h : h = k \div 2
  OBVIOUS
<1>5. /\ h \in Nat /\ (k % 2 = 1 \/ k % 2 = 0)
      /\ k % 2 = 0 => k = 2 * h /\ (k + 1) % 2 = 1 /\ (k + 1) \div 2 = h
      /\ k % 2 = 1 => k = 2 * h + 1 /\ (k + 1) % 2 = 0 /\ (k + 1) \div 2 = h + 1
  BY <1>4
<1>6. Size(answers, t) <= 2 * MaxLines /\ Size(answers, t) \in Nat /\ MaxLines \in Nat
  BY AnswerIs, TerminalAssumption
<1>7. k + 1 \in 1 .. 2 * MaxLines
  BY <1>6
<1>8. p \in Part /\ (p.end <=> k % 2 = 1)
  BY <1>1, <1>5, <1>7, PieceIs
<1>9. PICK came : came = Append(s.rest, p)
  OBVIOUS
<1>10. Fed(s, came, p, r)
  BY <1>2, <1>8, <1>9, FeedIs
<1>11. /\ s.rest = IF k % 2 = 1 THEN <<Piece(t, k)>> ELSE <<>>
       /\ s.open <=> InCode(answers, t, h + 1)
       /\ ~s.open => s.block = <<>>
       /\ s.open => h > 0 /\ (s.block = <<>> <=> L[h] = "fence")
       /\ Due(s, t) = Whole(answers, t, h)
  BY <1>3, <1>4 DEF Faithful
<1>12. /\ s.rest \in Seq(Part) /\ s.block \in Seq(Part) /\ s.pending \in Seq(Part) /\ s.out \in Seq(Shown)
       /\ s.open \in BOOLEAN
  BY PartsOfRenderer
<1>13. CASE k % 2 = 0
  <2>1. s.rest = <<>> /\ ~p.end
    BY <1>8, <1>11, <1>13
  <2>2. came = <<p>>
    BY <1>8, <1>9, <1>12, <2>1, TwoParts
  <2>3. r.rest = came /\ r.open = s.open /\ r.block = s.block /\ r.pending = s.pending /\ r.out = s.out
    BY <1>10, <2>1 DEF Fed
  <2>4. Due(r, t) = Due(s, t)
    BY <2>3 DEF Due
  <2>5. /\ r.rest = IF (k + 1) % 2 = 1 THEN <<Piece(t, k + 1)>> ELSE <<>>
        /\ r.open <=> InCode(answers, t, (k + 1) \div 2 + 1)
        /\ ~r.open => r.block = <<>>
        /\ r.open => (k + 1) \div 2 > 0 /\ (r.block = <<>> <=> L[(k + 1) \div 2] = "fence")
        /\ Due(r, t) = Whole(answers, t, (k + 1) \div 2)
    BY <1>1, <1>5, <1>11, <1>13, <2>2, <2>3, <2>4
  <2> QED
    BY <1>1, <1>2, <1>3, <2>5 DEF Faithful
<1>14. CASE k % 2 = 1
  <2>1. PICK q : q = Piece(t, k)
    OBVIOUS
  <2>2. k \in 1 .. 2 * MaxLines /\ k = 2 * h + 1 /\ h + 1 \in 1..Len(L)
    <3>1. Size(answers, t) <= 2 * Len(L) /\ Len(L) \in Nat
      BY <1>3, AnswerIs DEF Size
    <3> QED
      BY <1>5, <1>6, <1>14, <3>1
  <2>3. q \in Part /\ q.turn = t /\ q.line = h + 1
    BY <1>5, <1>14, <2>1, <2>2, PieceIs
  <2>4. p.end /\ came = Append(<<q>>, p)
    BY <1>8, <1>9, <1>11, <1>14, <2>1
  <2>5. ToSet(came) = {q, p} /\ came \in Seq(Part) /\ came # <<>> /\ (IsFence(came) <=> L[h + 1] = "fence")
    <3>1. /\ came \in Seq(Part) /\ ToSet(came) = {q, p} /\ came # <<>>
          /\ IsFence(came) <=> Kind(q) = "fence"
      BY <1>8, <2>3, <2>4, SecondPart
    <3>2. Kind(q) = L[h + 1]
      BY <1>3, <2>3 DEF Kind
    <3> QED
      BY <3>1, <3>2
  <2>6. L[h + 1] \in {"text", "fence"}
    BY <1>3, <2>2, AnswerIs
  <2>7. InCode(answers, t, h + 2) <=> IF L[h + 1] = "fence" THEN ~InCode(answers, t, h + 1) ELSE InCode(answers, t, h + 1)
    <3>1. h + 1 \in Nat \ {0} /\ (h + 1) + 1 = h + 2
      BY <1>5
    <3>2. InCode(answers, t, (h + 1) + 1)
            <=> IF answers[t].lines[h + 1] = "fence" THEN ~InCode(answers, t, h + 1) ELSE InCode(answers, t, h + 1)
      BY <3>1, CodeFrom
    <3> QED
      BY <1>3, <3>1, <3>2
  <2>8. Whole(answers, t, h + 1)
          = IF L[h + 1] = "text" THEN Whole(answers, t, h) \cup As({q, p}, InCode(answers, t, h + 1))
            ELSE Whole(answers, t, h)
    <3>1. LineParts(t, h + 1) = {q, p}
      <4>1. 2 * (h + 1) - 1 = k /\ 2 * (h + 1) = k + 1
        BY <1>5, <2>2
      <4> QED
        BY <1>1, <2>1, <4>1 DEF LineParts
    <3>2. Whole(answers, t, h + 1)
            = IF answers[t].lines[h + 1] = "text"
              THEN Whole(answers, t, h) \cup As(LineParts(t, h + 1), InCode(answers, t, h + 1))
              ELSE Whole(answers, t, h)
      BY <1>5, WholeGrows
    <3> QED
      BY <1>3, <3>1, <3>2
  <2>9. SUFFICES /\ r.rest = <<>>
                 /\ r.open <=> InCode(answers, t, h + 2)
                 /\ ~r.open => r.block = <<>>
                 /\ r.open => r.block = <<>> <=> L[h + 1] = "fence"
                 /\ Due(r, t) = Whole(answers, t, h + 1)
    <3>3. (k + 1) \div 2 = h + 1 /\ (k + 1) % 2 = 0 /\ h \in Nat
      BY <1>5, <1>14
    <3>4. (h + 1) + 1 = h + 2 /\ h + 1 > 0
      BY <3>3
    <3>1. (k + 1) \div 2 = h + 1 /\ (h + 1) + 1 = h + 2 /\ h + 1 > 0 /\ (k + 1) % 2 = 0
      BY <3>3, <3>4
    <3>2. /\ r.rest = IF (k + 1) % 2 = 1 THEN <<Piece(t, k + 1)>> ELSE <<>>
          /\ r.open <=> InCode(answers, t, (k + 1) \div 2 + 1)
          /\ ~r.open => r.block = <<>>
          /\ r.open => (k + 1) \div 2 > 0 /\ (r.block = <<>> <=> L[(k + 1) \div 2] = "fence")
          /\ Due(r, t) = Whole(answers, t, (k + 1) \div 2)
      BY <2>9, <3>1
    <3> QED
      BY <1>1, <1>2, <1>3, <3>2 DEF Faithful
  <2>10. CASE L[h + 1] = "fence" /\ ~s.open
    <3>1. r.rest = <<>> /\ r.open = TRUE /\ r.block = <<>> /\ r.pending = s.pending /\ r.out = s.out
      BY <2>4, <2>5, <2>10, <1>10 DEF Fed
    <3>2. Due(r, t) = Due(s, t)
      BY <1>11, <2>10, <3>1 DEF Due
    <3> QED
      BY <1>11, <2>7, <2>8, <2>10, <3>1, <3>2
  <2>11. CASE L[h + 1] = "fence" /\ s.open
    <3>1. /\ r.rest = <<>> /\ r.open = FALSE /\ r.block = <<>> /\ r.pending = <<>>
          /\ r.out = (s.out \o Printed(s.pending, FALSE)) \o Printed(s.block, TRUE)
      BY <2>4, <2>5, <2>11, <1>10 DEF Fed
    <3>2. ToSet(r.out) = ToSet(s.out) \cup As(ToSet(s.pending), FALSE) \cup As(ToSet(s.block), TRUE)
      <4>1. ToSet((s.out \o Printed(s.pending, FALSE)) \o Printed(s.block, TRUE))
              = ToSet(s.out) \cup As(ToSet(s.pending), FALSE) \cup As(ToSet(s.block), TRUE)
        <5>1. s.out \in Seq(Shown) /\ s.pending \in Seq(Part) /\ s.block \in Seq(Part)
          BY <1>12
        <5> QED
          BY <5>1, PrintsAll
      <4> QED
        BY <3>1, <4>1
    <3>3. h \in 0..MaxLines
      BY <1>5, <1>6, <2>2
    <3>4. Due(r, t) = Whole(answers, t, h)
      <4>1. \A x \in Whole(answers, t, h) : x.part.turn = t
        BY <3>3, WholeOf
      <4>2. ToSet(r.pending) = {} /\ ToSet(r.block) = {} /\ Due(s, t) = Whole(answers, t, h)
        BY <1>11, <3>1, NoneIs
      <4> QED
        BY <3>2, <4>1, <4>2, EmitsDue
    <3> QED
      BY <1>11, <2>7, <2>8, <2>11, <3>1, <3>4
  <2>12. CASE L[h + 1] = "text" /\ s.open
    <3>1. /\ r.rest = <<>> /\ r.open = s.open /\ r.block = s.block \o came
          /\ r.pending = s.pending /\ r.out = s.out
      BY <2>4, <2>5, <2>12, <1>10 DEF Fed
    <3>6. ToSet(s.block \o came) = ToSet(s.block) \cup ToSet(came)
      BY <1>12, <2>5, JoinIs
    <3>7. s.block \o came = <<>> <=> s.block = <<>> /\ came = <<>>
      BY <1>12, <2>5, JoinIs
    <3>2. ToSet(r.block) = ToSet(s.block) \cup {q, p} /\ r.block # <<>>
      BY <2>5, <3>1, <3>6, <3>7
    <3>3. As(ToSet(r.block), TRUE) = As(ToSet(s.block), TRUE) \cup As({q, p}, TRUE)
      <4>1. As(ToSet(s.block) \cup {q, p}, TRUE) = As(ToSet(s.block), TRUE) \cup As({q, p}, TRUE)
        BY DEF As
      <4> QED
        BY <3>2, <4>1
    <3>4. Due(r, t) = Due(s, t) \cup As({q, p}, TRUE)
      BY <3>1, <3>3 DEF Due
    <3>5. InCode(answers, t, h + 1) = TRUE
      BY <1>11, <2>12 DEF InCode
    <3> QED
      BY <1>11, <2>7, <2>8, <2>12, <3>1, <3>2, <3>4, <3>5
  <2>13. CASE L[h + 1] = "text" /\ ~s.open
    <3>1. /\ r.rest = <<>> /\ r.open = s.open /\ r.block = s.block
          /\ r.pending = s.pending \o came /\ r.out = s.out
      BY <2>4, <2>5, <2>13, <1>10 DEF Fed
    <3>6. ToSet(s.pending \o came) = ToSet(s.pending) \cup ToSet(came)
      BY <1>12, <2>5, JoinIs
    <3>7. s.pending \o came = <<>> <=> s.pending = <<>> /\ came = <<>>
      BY <1>12, <2>5, JoinIs
    <3>2. ToSet(r.pending) = ToSet(s.pending) \cup {q, p}
      BY <2>5, <3>1, <3>6, <3>7
    <3>3. As(ToSet(r.pending), FALSE) = As(ToSet(s.pending), FALSE) \cup As({q, p}, FALSE)
      <4>1. As(ToSet(s.pending) \cup {q, p}, FALSE) = As(ToSet(s.pending), FALSE) \cup As({q, p}, FALSE)
        BY DEF As
      <4> QED
        BY <3>2, <4>1
    <3>4. Due(r, t) = Due(s, t) \cup As({q, p}, FALSE)
      BY <3>1, <3>3 DEF Due
    <3>5. InCode(answers, t, h + 1) = FALSE
      BY <1>11, <2>13 DEF InCode
    <3> QED
      BY <1>11, <2>7, <2>8, <2>13, <3>1, <3>4, <3>5
  <2> QED
    BY <1>12, <2>6, <2>10, <2>11, <2>12, <2>13
<1> QED
  BY <1>5, <1>13, <1>14

(* A chunk is fed part by part.                                              *)
LEMMA FeedRuns ==
  ASSUME NEW s \in Renderers, NEW q \in Seq(Part)
  PROVE  \E f \in [0..Len(q) -> Renderers] :
           /\ f[0] = s
           /\ \A i \in 1..Len(q) : f[i] = FeedPart(f[i - 1], q[i])
           /\ Feed(s, q) = f[Len(q)]
<1> DEFINE n == Len(q)
           Is(h) == h = [i \in 0..n |-> IF i = 0 THEN s ELSE FeedPart(h[i - 1], q[i])]
<1>1. n \in Nat /\ \A i \in 1..n : q[i] \in Part
  OBVIOUS
<1>2. Feed(s, q) = (CHOOSE h : Is(h))[n]
  BY DEF Feed
<1> HIDE DEF n
<1>3. PICK feeding : \A i \in 1..n, r \in Renderers : feeding[i][r] = FeedPart(r, q[i])
  <2> DEFINE feeding == [i \in 1..n |-> [r \in Renderers |-> FeedPart(r, q[i])]]
  <2>1. \A i \in 1..n, r \in Renderers : feeding[i][r] = FeedPart(r, q[i])
    OBVIOUS
  <2> HIDE DEF feeding
  <2> QED
    BY <2>1
<1>4. PICK f : Unfolds(f, feeding, n, Renderers, s)
  <2>1. ASSUME NEW i \in 1..n, NEW r \in Renderers PROVE feeding[i][r] \in Renderers
    <3>1. q[i] \in Part
      BY <1>1
    <3>2. FeedPart(r, q[i]) \in Renderers
      BY <3>1, FeedIs
    <3> QED
      BY <1>3, <3>2
  <2>2. StepsWithin(feeding, n, Renderers)
    BY <2>1 DEF StepsWithin
  <2> QED
    BY <1>1, <2>2, RecursionExists
<1>5. ASSUME NEW i \in 1..n
      PROVE  f[i] = FeedPart(f[i - 1], q[i])
  <2>1. i - 1 \in 0..n
    BY <1>1
  <2>2. f[i - 1] \in Renderers
    BY <1>4, <2>1 DEF Unfolds
  <2> QED
    BY <1>3, <1>4, <2>2 DEF Unfolds
<1>6. Is(f)
  <2>1. ASSUME NEW i \in 0..n
        PROVE  f[i] = IF i = 0 THEN s ELSE FeedPart(f[i - 1], q[i])
    <3>1. i = 0 \/ i \in 1..n
      BY <1>1
    <3> QED
      BY <1>4, <1>5, <3>1 DEF Unfolds
  <2>2. f = [i \in 0..n |-> f[i]]
    BY <1>4 DEF Unfolds
  <2> QED
    BY <2>1, <2>2
<1>7. Is(CHOOSE h : Is(h))
  BY <1>6
<1> DEFINE g == CHOOSE h : Is(h)
<1>8. \A i \in 0..n : g[i] = IF i = 0 THEN s ELSE FeedPart(g[i - 1], q[i])
  BY <1>7
<1> HIDE DEF g
<1>9. \A i \in 0..n : g[i] = f[i]
  <2> DEFINE holds == {i \in 0..n : g[i] = f[i]}
  <2>1. 0 \in holds
    BY <1>1, <1>4, <1>8 DEF Unfolds
  <2>2. ASSUME NEW i \in 1..n, i - 1 \in holds PROVE i \in holds
    <3>1. g[i - 1] = f[i - 1] /\ i \in 0..n /\ i # 0
      BY <1>1, <2>2
    <3> QED
      BY <1>5, <1>8, <3>1
  <2> HIDE DEF holds
  <2>3. \A i \in 0..n : i \in holds
    BY <1>1, <2>1, <2>2, CountingUp
  <2> QED
    BY <2>3 DEF holds
<1>10. Feed(s, q) = f[n]
  <2>1. g[n] = f[n]
    BY <1>1, <1>9
  <2> QED
    BY <1>2, <2>1 DEF g
<1> QED
  BY <1>4, <1>5, <1>10 DEF n, Unfolds

(* The parts of a chunk are the ones that come next.                         *)
LEMMA ChunkIs ==
  ASSUME answers \in AnswerLists, NEW t \in 1..Turns, NEW k \in Nat, NEW n \in k + 1 .. Len(PartsOf(t))
  PROVE  /\ n <= Size(answers, t)
         /\ SubSeq(PartsOf(t), k + 1, n) \in Seq(Part)
         /\ Len(SubSeq(PartsOf(t), k + 1, n)) = n - k
         /\ \A i \in 1 .. n - k : SubSeq(PartsOf(t), k + 1, n)[i] = Piece(t, k + i)
<1>1. PICK z : z = Size(answers, t)
  OBVIOUS
<1>2. z \in Nat /\ z <= 2 * MaxLines /\ MaxLines \in Nat
  BY <1>1, AnswerIs, TerminalAssumption
<1>3. PICK v : v = PartsOf(t)
  OBVIOUS
<1>4. v = [i \in 1..z |-> Piece(t, i)]
  BY <1>1, <1>3, PartsAre
<1>5. \A i \in 1..z : Piece(t, i) \in Part
  BY <1>2, PieceIs
<1>6. v \in Seq(Part) /\ Len(v) = z /\ \A i \in 1..z : v[i] = Piece(t, i)
  BY <1>2, <1>4, <1>5
<1>7. n \in Nat /\ n <= z /\ k + 1 <= n
  BY <1>2, <1>3, <1>6
<1>8. PICK w : w = SubSeq(v, k + 1, n)
  OBVIOUS
<1>9. Len(w) = n - k /\ \A i \in 1 .. n - k : w[i] = v[k + i]
  BY <1>6, <1>7, <1>8
<1>10. \A i \in 1 .. n - k : k + i \in 1..z
  BY <1>2, <1>7
<1>11. \A i \in 1 .. n - k : w[i] = Piece(t, k + i)
  BY <1>6, <1>9, <1>10
<1>12. w \in Seq(Part)
  BY <1>6, <1>7, <1>8
<1> QED
  BY <1>1, <1>3, <1>7, <1>8, <1>9, <1>11, <1>12

(* So what holds part by part holds chunk by chunk.                          *)
LEMMA ChunkFed ==
  ASSUME answers \in AnswerLists, NEW t \in 1..Turns, NEW s \in Renderers, NEW k \in Nat, Orderly(s, t, k),
         NEW n \in k + 1 .. Len(PartsOf(t)),
         NEW r, r = Feed(s, SubSeq(PartsOf(t), k + 1, n))
  PROVE  /\ r \in Renderers /\ n <= Size(answers, t) /\ Orderly(r, t, n)
         /\ \A u \in 1 .. t - 1 : Quiet(s, u) => Quiet(r, u)
         /\ \A u \in 1 .. t - 1 : Quiet(s, u) => ShownOf(r.out, u) = ShownOf(s.out, u)
         /\ Faithful(answers, s, t, k) => Faithful(answers, r, t, n)
<1>1. PICK q : q = SubSeq(PartsOf(t), k + 1, n)
  OBVIOUS
<1>2. PICK m : m = n - k
  OBVIOUS
<1>3. q \in Seq(Part) /\ Len(q) = m /\ (\A i \in 1..m : q[i] = Piece(t, k + i)) /\ n <= Size(answers, t)
  BY <1>1, <1>2, ChunkIs
<1>4. PICK z : z = Size(answers, t)
  OBVIOUS
<1>5. z \in Nat /\ z <= 2 * MaxLines /\ MaxLines \in Nat
  BY <1>4, AnswerIs, TerminalAssumption
<1>6. m \in Nat /\ n = k + m /\ k + m <= z
  BY <1>2, <1>3, <1>4, <1>5
<1>7. PICK f \in [0..m -> Renderers] :
        f[0] = s /\ (\A i \in 1..m : f[i] = FeedPart(f[i - 1], q[i])) /\ Feed(s, q) = f[m]
  BY <1>3, FeedRuns
<1>8. t \in Nat
  BY TerminalAssumption
<1> DEFINE Holds(i) ==
      /\ Orderly(f[i], t, k + i)
      /\ \A u \in 1 .. t - 1 : Quiet(s, u) => Quiet(f[i], u) /\ ShownOf(f[i].out, u) = ShownOf(s.out, u)
      /\ Faithful(answers, s, t, k) => Faithful(answers, f[i], t, k + i)
      holds == {i \in 0..m : Holds(i)}
<1>9. 0 \in holds
  <2>1. k + 0 = k /\ 0 \in 0..m
    BY <1>6
  <2> QED
    BY <1>7, <2>1
<1>10. ASSUME NEW i \in 1..m, i - 1 \in holds PROVE i \in holds
  <2>1. PICK j : j = k + (i - 1)
    OBVIOUS
  <2>2. j \in Nat /\ k + i = j + 1 /\ i - 1 \in 0..m /\ i \in 0..m /\ j + 1 <= z
    BY <1>5, <1>6, <2>1
  <2>3. PICK b \in Renderers : b = f[i - 1]
    BY <1>7, <2>2
  <2>4. PICK p : p = Piece(t, j + 1)
    OBVIOUS
  <2>5. f[i] = FeedPart(b, p)
    <3>1. q[i] = p
      BY <1>3, <2>2, <2>4
    <3> QED
      BY <1>7, <2>3, <3>1
  <2>6. p \in Part /\ p.turn = t /\ Place(p) = j + 1
    <3>1. j + 1 \in 1 .. 2 * MaxLines
      BY <1>5, <2>2
    <3> QED
      BY <2>4, <3>1, PieceIs
  <2>7. /\ Orderly(b, t, j)
        /\ \A u \in 1 .. t - 1 : Quiet(s, u) => Quiet(b, u) /\ ShownOf(b.out, u) = ShownOf(s.out, u)
        /\ Faithful(answers, s, t, k) => Faithful(answers, b, t, j)
    BY <1>10, <2>1, <2>3
  <2> HIDE DEF holds
  <2>8. Orderly(f[i], t, j + 1)
    BY <1>8, <2>2, <2>5, <2>6, <2>7, FeedOrderly
  <2>9. ASSUME NEW u \in 1 .. t - 1, Quiet(s, u)
        PROVE  Quiet(f[i], u) /\ ShownOf(f[i].out, u) = ShownOf(s.out, u)
    <3>1. Quiet(b, u) /\ ShownOf(b.out, u) = ShownOf(s.out, u)
      BY <2>7, <2>9
    <3>2. Follows(b, f[i], {p})
      BY <2>5, <2>6, FeedFollows
    <3>3. \A x \in {p} : x.turn # u
      BY <1>8, <2>6
    <3>4. Quiet(f[i], u) /\ ShownOf(f[i].out, u) = ShownOf(b.out, u)
      BY <3>1, <3>2, <3>3, QuietStays
    <3> QED
      BY <3>1, <3>4
  <2>10. ASSUME Faithful(answers, s, t, k) PROVE Faithful(answers, f[i], t, j + 1)
    <3>1. Faithful(answers, b, t, j)
      BY <2>7, <2>10
    <3> QED
      BY <1>4, <2>2, <2>4, <2>5, <3>1, FeedFaithful
  <2>11. Holds(i)
    BY <2>2, <2>8, <2>9, <2>10
  <2> QED
    BY <2>2, <2>11 DEF holds
<1> HIDE DEF holds
<1>11. m \in holds
  <2>1. \A i \in 0..m : i \in holds
    BY <1>6, <1>9, <1>10, CountingUp
  <2> QED
    BY <1>6, <2>1
<1>12. Holds(m)
  BY <1>11 DEF holds
<1>13. f[m] = r /\ f[m] \in Renderers
  BY <1>1, <1>6, <1>7
<1> QED
  BY <1>3, <1>6, <1>12, <1>13

(* What is kept of a list: its members, in their order.                      *)
Keeps(w, s, keep) ==
  /\ \A x : x \in ToSet(w) <=> \E k \in 1..Len(s) : keep[k] /\ x = s[k]
  /\ \A i, j \in 1..Len(w) : i < j =>
       \E k, l \in 1..Len(s) : k < l /\ keep[k] /\ keep[l] /\ w[i] = s[k] /\ w[j] = s[l]

LEMMA KeptAre ==
  ASSUME NEW X, NEW s \in Seq(X), NEW keep \in [1..Len(s) -> BOOLEAN]
  PROVE  Filter(s, keep) \in Seq(X) /\ Keeps(Filter(s, keep), s, keep)
<1>1. PICK w : w = Filter(s, keep)
  OBVIOUS
<1>2. w \in Seq(X) /\ \E spot : Picks(spot, w, s, keep)
  BY <1>1, FilterIs
<1>3. PICK spot : Picks(spot, w, s, keep)
  BY <1>2
<1>4. DOMAIN w = 1..Len(w)
  BY <1>2
<1>5. ASSUME NEW x PROVE x \in ToSet(w) <=> \E k \in 1..Len(s) : keep[k] /\ x = s[k]
  <2>1. x \in ToSet(w) <=> \E i \in 1..Len(w) : x = w[i]
    BY <1>4 DEF ToSet
  <2>2. ASSUME NEW i \in 1..Len(w), x = w[i] PROVE \E k \in 1..Len(s) : keep[k] /\ x = s[k]
    BY <1>3, <2>2 DEF Picks
  <2>3. ASSUME NEW k \in 1..Len(s), keep[k], x = s[k] PROVE \E i \in 1..Len(w) : x = w[i]
    <3>1. PICK i \in 1..Len(w) : spot[i] = k
      BY <1>3, <2>3 DEF Picks
    <3>2. w[i] = s[spot[i]]
      BY <1>3, <3>1 DEF Picks
    <3> QED
      BY <2>3, <3>1, <3>2
  <2> QED
    BY <2>1, <2>2, <2>3
<1>6. ASSUME NEW i \in 1..Len(w), NEW j \in 1..Len(w), i < j
      PROVE  \E k, l \in 1..Len(s) : k < l /\ keep[k] /\ keep[l] /\ w[i] = s[k] /\ w[j] = s[l]
  <2>1. spot[i] \in 1..Len(s) /\ spot[j] \in 1..Len(s) /\ spot[i] < spot[j]
    BY <1>3, <1>6 DEF Picks
  <2>2. keep[spot[i]] /\ w[i] = s[spot[i]] /\ keep[spot[j]] /\ w[j] = s[spot[j]]
    BY <1>3 DEF Picks
  <2> QED
    BY <2>1, <2>2
<1> QED
  BY <1>1, <1>2, <1>5, <1>6 DEF Keeps

RisesAs(v) == \A i, j \in DOMAIN v : i < j => Place(v[i].part) < Place(v[j].part)

LEMMA OwnIs ==
  ASSUME NEW t \in 1..Turns, shown \in Seq(Shown), RisingShown(shown)
  PROVE  Own(t) \in Seq(Shown) /\ ToSet(Own(t)) = ShownOf(shown, t) /\ RisesAs(Own(t))
<1>1. PICK keep : keep = [i \in DOMAIN shown |-> shown[i].part.turn = t]
  OBVIOUS
<1>2. PICK n \in Nat : n = Len(shown)
  OBVIOUS
<1>3. DOMAIN shown = 1..n
  BY <1>2
<1>4. keep \in [1..n -> BOOLEAN] /\ \A i \in 1..n : keep[i] <=> shown[i].part.turn = t
  BY <1>1, <1>3
<1>5. PICK w : w = Filter(shown, keep)
  OBVIOUS
<1>6. w \in Seq(Shown) /\ Keeps(w, shown, keep)
  BY <1>2, <1>4, <1>5, KeptAre
<1>7. \A x : x \in ToSet(w) <=> \E k \in 1..n : keep[k] /\ x = shown[k]
  BY <1>2, <1>6 DEF Keeps
<1>8. \A i, j \in 1..Len(w) : i < j =>
        \E k, l \in 1..n : k < l /\ keep[k] /\ keep[l] /\ w[i] = shown[k] /\ w[j] = shown[l]
  BY <1>2, <1>6 DEF Keeps
<1>9. ToSet(w) = ShownOf(shown, t)
  <2>1. \A x : x \in ToSet(shown) <=> \E k \in 1..n : x = shown[k]
    BY <1>3 DEF ToSet
  <2>2. \A x : x \in ToSet(w) <=> x \in ToSet(shown) /\ x.part.turn = t
    BY <1>4, <1>7, <2>1
  <2> QED
    BY <2>2 DEF ShownOf
<1>10. RisesAs(w)
  <2> SUFFICES ASSUME NEW i \in 1..Len(w), NEW j \in 1..Len(w), i < j
               PROVE  Place(w[i].part) < Place(w[j].part)
    BY <1>6 DEF RisesAs
  <2>1. PICK k \in 1..n, l \in 1..n : k < l /\ keep[k] /\ keep[l] /\ w[i] = shown[k] /\ w[j] = shown[l]
    BY <1>8
  <2>2. Before(shown[k].part, shown[l].part)
    BY <1>3, <2>1 DEF RisingShown
  <2>3. shown[k].part.turn = t /\ shown[l].part.turn = t
    BY <1>4, <2>1
  <2>4. ~(t < t)
    OBVIOUS
  <2> QED
    BY <2>1, <2>2, <2>3, <2>4 DEF Before
<1> QED
  BY <1>1, <1>5, <1>6, <1>9, <1>10 DEF Own

(* What should be seen of an answer, part by part.                           *)
Unended(a, t, l) == l = Len(a[t].lines) /\ ~a[t].whole

SeenAs(a, t, i) ==
  [part |-> Piece(t, i),
   code |-> /\ InCode(a, t, (i + 1) \div 2)
            /\ Unended(a, t, (i + 1) \div 2) => a[t].lines[(i + 1) \div 2 - 1] = "text"]

IsSeen(a, t, i) == a[t].lines[(i + 1) \div 2] = "text" \/ Unended(a, t, (i + 1) \div 2)

LEMMA SeenIs ==
  ASSUME answers \in AnswerLists, NEW t \in 1..Turns, NEW i \in 1..Size(answers, t)
  PROVE  /\ SeenAs(answers, t, i) \in Shown /\ SeenAs(answers, t, i).part = Piece(t, i)
         /\ Piece(t, i) \in Part /\ Place(Piece(t, i)) = i /\ Piece(t, i).turn = t
         /\ Piece(t, i).line = (i + 1) \div 2
<1>1. i \in 1 .. 2 * MaxLines
  <2>1. Size(answers, t) <= 2 * MaxLines /\ Size(answers, t) \in Nat /\ MaxLines \in Nat
    BY AnswerIs, TerminalAssumption
  <2> QED
    BY <2>1
<1>2. /\ Piece(t, i) \in Part /\ Place(Piece(t, i)) = i /\ Piece(t, i).turn = t
      /\ Piece(t, i).line = (i + 1) \div 2
  BY <1>1, PieceIs
<1>3. \A p \in Part, c \in BOOLEAN : [part |-> p, code |-> c] \in Shown /\ [part |-> p, code |-> c].part = p
  BY DEF Shown
<1>4. PICK c \in BOOLEAN :
        c = (/\ InCode(answers, t, (i + 1) \div 2)
             /\ Unended(answers, t, (i + 1) \div 2) => answers[t].lines[(i + 1) \div 2 - 1] = "text")
  BY DEF InCode, Unended
<1>5. SeenAs(answers, t, i) = [part |-> Piece(t, i), code |-> c]
  BY <1>4 DEF SeenAs
<1> QED
  BY <1>2, <1>3, <1>5

LEMMA VisibleIs ==
  ASSUME NEW t \in 1..Turns, answers \in AnswerLists
  PROVE  /\ Visible(t) \in Seq(Shown) /\ RisesAs(Visible(t))
         /\ \A x : x \in ToSet(Visible(t)) <=>
              \E i \in 1..Size(answers, t) : IsSeen(answers, t, i) /\ x = SeenAs(answers, t, i)
<1>1. PICK z : z = Size(answers, t)
  OBVIOUS
<1>2. z \in Nat
  BY <1>1, AnswerIs
<1>3. PICK v : v = PartsOf(t)
  OBVIOUS
<1>4. v = [i \in 1..z |-> Piece(t, i)]
  BY <1>1, <1>3, PartsAre
<1>5. /\ \A i \in 1..z : SeenAs(answers, t, i) \in Shown /\ SeenAs(answers, t, i).part = Piece(t, i)
      /\ \A i \in 1..z : Piece(t, i) \in Part /\ Place(Piece(t, i)) = i /\ Piece(t, i).turn = t
      /\ \A i \in 1..z : Piece(t, i).line = (i + 1) \div 2
  BY <1>1, SeenIs
<1>6. v \in Seq(Part) /\ Len(v) = z /\ DOMAIN v = 1..z /\ \A i \in 1..z : v[i] = Piece(t, i)
  BY <1>2, <1>4, <1>5
<1>7. PICK keep : keep = [i \in DOMAIN v |-> Kind(v[i]) = "text" \/ (v[i].line = Len(answers[t].lines) /\ ~answers[t].whole)]
  OBVIOUS
<1>8. keep \in [1..z -> BOOLEAN] /\ \A i \in 1..z : keep[i] <=> IsSeen(answers, t, i)
  <2>1. keep \in [1..z -> BOOLEAN]
    BY <1>6, <1>7
  <2>2. ASSUME NEW i \in 1..z PROVE keep[i] <=> IsSeen(answers, t, i)
    <3>1. v[i].line = (i + 1) \div 2 /\ v[i].turn = t
      BY <1>5, <1>6
    <3>2. Kind(v[i]) = answers[t].lines[(i + 1) \div 2]
      BY <3>1 DEF Kind
    <3> QED
      BY <1>6, <1>7, <3>1, <3>2 DEF IsSeen, Unended
  <2> QED
    BY <2>1, <2>2
<1>9. PICK w : w = Filter(v, keep)
  OBVIOUS
<1>10. w \in Seq(Part) /\ Keeps(w, v, keep)
  BY <1>6, <1>8, <1>9, KeptAre
<1>11. \A x : x \in ToSet(w) <=> \E k \in 1..z : keep[k] /\ x = v[k]
  BY <1>6, <1>10 DEF Keeps
<1>12. \A i, j \in 1..Len(w) : i < j =>
         \E k, l \in 1..z : k < l /\ keep[k] /\ keep[l] /\ w[i] = v[k] /\ w[j] = v[l]
  BY <1>6, <1>10 DEF Keeps
<1> DEFINE Coded(l) ==
      /\ FencesBefore(t, l) % 2 = 1
      /\ (l = Len(answers[t].lines) /\ ~answers[t].whole) => answers[t].lines[l - 1] = "text"
<1>13. Visible(t) = [i \in DOMAIN w |-> [part |-> w[i], code |-> Coded(w[i].line)]]
  BY <1>3, <1>7, <1>9 DEF Visible
<1>14. ASSUME NEW k \in 1..z
       PROVE  [part |-> v[k], code |-> Coded(v[k].line)] = SeenAs(answers, t, k)
  <2>1. v[k] = Piece(t, k) /\ v[k].line = (k + 1) \div 2
    BY <1>5, <1>6
  <2> QED
    BY <2>1 DEF SeenAs, InCode, Unended, FencesBefore
<1> HIDE DEF Coded
<1>15. PICK y : y = Visible(t)
  OBVIOUS
<1>16. DOMAIN w = 1..Len(w) /\ Len(w) \in Nat
  BY <1>10
<1>17. ASSUME NEW i \in 1..Len(w)
       PROVE  \E k \in 1..z : keep[k] /\ w[i] = v[k] /\ y[i] = SeenAs(answers, t, k)
  <2>1. w[i] \in ToSet(w)
    BY <1>16 DEF ToSet
  <2>2. PICK k \in 1..z : keep[k] /\ w[i] = v[k]
    BY <1>11, <2>1
  <2>3. y[i] = [part |-> v[k], code |-> Coded(v[k].line)]
    BY <1>13, <1>15, <1>16, <2>2
  <2> QED
    BY <1>14, <2>2, <2>3
<1>18. y \in Seq(Shown) /\ DOMAIN y = 1..Len(w)
  <2>1. DOMAIN y = 1..Len(w) /\ y = [i \in 1..Len(w) |-> y[i]]
    BY <1>13, <1>15, <1>16
  <2>2. \A i \in 1..Len(w) : y[i] \in Shown
    BY <1>5, <1>17
  <2>3. y \in [1..Len(w) -> Shown]
    BY <2>1, <2>2
  <2> QED
    BY <1>16, <2>1, <2>3
<1>19. RisesAs(y)
  <2> SUFFICES ASSUME NEW i \in 1..Len(w), NEW j \in 1..Len(w), i < j
               PROVE  Place(y[i].part) < Place(y[j].part)
    BY <1>18 DEF RisesAs
  <2>1. PICK k \in 1..z, l \in 1..z : k < l /\ keep[k] /\ keep[l] /\ w[i] = v[k] /\ w[j] = v[l]
    BY <1>12
  <2>2. y[i] = SeenAs(answers, t, k) /\ y[j] = SeenAs(answers, t, l)
    BY <1>13, <1>14, <1>15, <1>16, <2>1
  <2>3. y[i].part = Piece(t, k) /\ y[j].part = Piece(t, l)
    BY <1>5, <2>2
  <2> QED
    BY <1>5, <2>1, <2>3
<1>20. ASSUME NEW x
       PROVE  x \in ToSet(y) <=> \E i \in 1..z : IsSeen(answers, t, i) /\ x = SeenAs(answers, t, i)
  <2>1. x \in ToSet(y) <=> \E i \in 1..Len(w) : x = y[i]
    BY <1>18 DEF ToSet
  <2>2. ASSUME NEW i \in 1..Len(w), x = y[i]
        PROVE  \E k \in 1..z : IsSeen(answers, t, k) /\ x = SeenAs(answers, t, k)
    BY <1>8, <1>17, <2>2
  <2>3. ASSUME NEW k \in 1..z, IsSeen(answers, t, k), x = SeenAs(answers, t, k)
        PROVE  \E i \in 1..Len(w) : x = y[i]
    <3>1. v[k] \in ToSet(w)
      BY <1>8, <1>11, <2>3
    <3>2. PICK i \in 1..Len(w) : w[i] = v[k]
      BY <1>16, <3>1 DEF ToSet
    <3>3. y[i] = [part |-> v[k], code |-> Coded(v[k].line)]
      BY <1>13, <1>15, <1>16, <3>2
    <3> QED
      BY <1>14, <2>3, <3>3
  <2> QED
    BY <2>1, <2>2, <2>3
<1> QED
  BY <1>1, <1>15, <1>18, <1>19, <1>20

LEMMA WholeIs ==
  ASSUME NEW a, NEW t, NEW h \in Nat, NEW x
  PROVE  x \in Whole(a, t, h) <=>
           \E i \in 1 .. 2 * h : /\ a[t].lines[(i + 1) \div 2] = "text"
                                 /\ x = [part |-> Piece(t, i), code |-> InCode(a, t, (i + 1) \div 2)]
<1> DEFINE Of(l, i) == [part |-> Piece(t, i), code |-> InCode(a, t, l)]
<1>1. x \in Whole(a, t, h) <=>
        \E l \in 1..h : a[t].lines[l] = "text" /\ (x = Of(l, 2 * l - 1) \/ x = Of(l, 2 * l))
  <2>1. x \in Whole(a, t, h) <=>
          \E l \in 1..h : a[t].lines[l] = "text" /\ x \in As(LineParts(t, l), InCode(a, t, l))
    BY DEF Whole
  <2>2. ASSUME NEW l \in 1..h
        PROVE  x \in As(LineParts(t, l), InCode(a, t, l)) <=> x = Of(l, 2 * l - 1) \/ x = Of(l, 2 * l)
    BY DEF As, LineParts
  <2> QED
    BY <2>1, <2>2
<1> HIDE DEF Of
<1>2. ASSUME NEW l \in 1..h, a[t].lines[l] = "text", x = Of(l, 2 * l - 1) \/ x = Of(l, 2 * l)
      PROVE  \E i \in 1 .. 2 * h : a[t].lines[(i + 1) \div 2] = "text" /\ x = Of((i + 1) \div 2, i)
  <2>1. /\ 2 * l - 1 \in 1 .. 2 * h /\ ((2 * l - 1) + 1) \div 2 = l
        /\ 2 * l \in 1 .. 2 * h /\ (2 * l + 1) \div 2 = l
    OBVIOUS
  <2>2. CASE x = Of(l, 2 * l - 1)
    BY <1>2, <2>1, <2>2
  <2>3. CASE x = Of(l, 2 * l)
    BY <1>2, <2>1, <2>3
  <2> QED
    BY <1>2, <2>2, <2>3
<1>3. ASSUME NEW i \in 1 .. 2 * h, a[t].lines[(i + 1) \div 2] = "text", x = Of((i + 1) \div 2, i)
      PROVE  \E l \in 1..h : a[t].lines[l] = "text" /\ (x = Of(l, 2 * l - 1) \/ x = Of(l, 2 * l))
  <2>1. PICK l : l = (i + 1) \div 2
    OBVIOUS
  <2>2. l \in 1..h /\ (i = 2 * l - 1 \/ i = 2 * l)
    BY <2>1
  <2> QED
    BY <1>3, <2>1, <2>2
<1> QED
  BY <1>1, <1>2, <1>3 DEF Of

(* What is due when all of a clean turn has been fed is what should be seen, *)
(* with the part that has not ended.                                         *)
LEMMA DueIsSeen ==
  ASSUME answers \in AnswerLists, NEW t \in 1..Turns, NEW z, z = Size(answers, t),
         NEW s \in Renderers, Faithful(answers, s, t, z), NEW x
  PROVE  x \in ToSet(Visible(t)) <=> x \in Due(s, t) \cup As(ToSet(s.rest), s.open /\ s.block # <<>>)
<1>11. PICK a : a = answers
  OBVIOUS
<1>12. PICK L : L = answers[t].lines
  OBVIOUS
<1>13. PICK n : n = Len(L)
  OBVIOUS
<1>14. PICK h : h = z \div 2
  OBVIOUS
<1>1. /\ n \in 0..MaxLines /\ a[t].whole \in BOOLEAN /\ n \in Nat
      /\ \A l \in 1..n : L[l] \in {"text", "fence"}
  BY <1>11, <1>12, <1>13, AnswerIs, TerminalAssumption
<1>2. IF n > 0 /\ ~a[t].whole THEN z = 2 * n - 1 ELSE z = 2 * n
  BY <1>11, <1>12, <1>13 DEF Size
<1>3. x \in ToSet(Visible(t)) <=> \E i \in 1..z : IsSeen(a, t, i) /\ x = SeenAs(a, t, i)
  BY <1>11, VisibleIs
<1>4. /\ s.rest = IF z % 2 = 1 THEN <<Piece(t, z)>> ELSE <<>>
      /\ s.open <=> InCode(a, t, h + 1)
      /\ ~s.open => s.block = <<>>
      /\ s.open => h > 0 /\ (s.block = <<>> <=> L[h] = "fence")
      /\ Due(s, t) = Whole(a, t, h)
  BY <1>11, <1>12, <1>14 DEF Faithful
<1>10. s.open \in BOOLEAN
  BY PartsOfRenderer
<1>5. ASSUME NEW i \in 1 .. 2 * h, ~Unended(a, t, (i + 1) \div 2)
      PROVE  /\ IsSeen(a, t, i) <=> L[(i + 1) \div 2] = "text"
             /\ SeenAs(a, t, i) = [part |-> Piece(t, i), code |-> InCode(a, t, (i + 1) \div 2)]
  <2>1. IsSeen(a, t, i) <=> L[(i + 1) \div 2] = "text"
    BY <1>5, <1>11, <1>12 DEF IsSeen
  <2>2. InCode(a, t, (i + 1) \div 2) \in BOOLEAN
    BY DEF InCode
  <2>3. SeenAs(a, t, i) = [part |-> Piece(t, i), code |-> InCode(a, t, (i + 1) \div 2)]
    BY <1>5, <2>2 DEF SeenAs
  <2> QED
    BY <2>1, <2>3
<1>6. CASE ~(n > 0 /\ ~a[t].whole)
  <2>1. z = 2 * n /\ h = n /\ z % 2 = 0 /\ h \in Nat /\ z = 2 * h
    BY <1>1, <1>2, <1>6, <1>14
  <2>2. \A i \in 1 .. 2 * h : ~Unended(a, t, (i + 1) \div 2)
    BY <1>1, <1>6, <1>11, <2>1 DEF Unended
  <2>3. x \in ToSet(Visible(t)) <=>
          \E i \in 1 .. 2 * h : /\ L[(i + 1) \div 2] = "text"
                                /\ x = [part |-> Piece(t, i), code |-> InCode(a, t, (i + 1) \div 2)]
    BY <1>3, <1>5, <2>1, <2>2
  <2>4. x \in ToSet(Visible(t)) <=> x \in Whole(a, t, h)
    <3>1. x \in Whole(a, t, h) <=>
            \E i \in 1 .. 2 * h : /\ a[t].lines[(i + 1) \div 2] = "text"
                                  /\ x = [part |-> Piece(t, i), code |-> InCode(a, t, (i + 1) \div 2)]
      BY <2>1, WholeIs
    <3> QED
      BY <1>11, <1>12, <2>3, <3>1
  <2>5. As(ToSet(s.rest), s.open /\ s.block # <<>>) = {}
    <3>1. ToSet(s.rest) = {}
      <4>1. s.rest = <<>>
        BY <1>4, <2>1
      <4> QED
        BY <4>1, NoneIs
    <3> QED
      BY <3>1, NoneAs
  <2> QED
    BY <1>4, <2>4, <2>5
<1>7. CASE n > 0 /\ ~a[t].whole
  <2>11. z = 2 * n - 1 /\ n \in Nat /\ n > 0
    BY <1>1, <1>2, <1>7
  <2>1. h = n - 1 /\ z % 2 = 1 /\ h \in Nat /\ z = 2 * h + 1 /\ (z + 1) \div 2 = n /\ h + 1 = n
    BY <1>14, <2>11
  <2>2. \A i \in 1 .. 2 * h : ~Unended(a, t, (i + 1) \div 2)
    <3>1. \A i \in 1 .. 2 * h : (i + 1) \div 2 # n
      BY <2>1, <2>11
    <3> QED
      BY <1>11, <1>12, <1>13, <3>1 DEF Unended
  <2>3. Unended(a, t, (z + 1) \div 2)
    BY <1>7, <1>11, <1>12, <1>13, <2>1 DEF Unended
  <2> DEFINE c == s.open /\ s.block # <<>>
  <2>4. SeenAs(a, t, z) = [part |-> Piece(t, z), code |-> c]
    <3>1. InCode(a, t, n) /\ L[n - 1] = "text" <=> c
      <4>1. s.open => h \in 1..n
        BY <1>4, <2>1, <2>11
      <4>2. s.open => L[h] \in {"text", "fence"}
        BY <1>1, <4>1
      <4>3. n - 1 = h
        BY <2>1
      <4> QED
        BY <1>4, <1>10, <2>1, <4>2, <4>3
    <3>2. SeenAs(a, t, z) = [part |-> Piece(t, z),
                             code |-> /\ InCode(a, t, n) /\ (Unended(a, t, n) => L[n - 1] = "text")]
      BY <1>11, <1>12, <2>1 DEF SeenAs
    <3>3. (InCode(a, t, n) /\ (Unended(a, t, n) => L[n - 1] = "text")) = c
      BY <2>1, <2>3, <3>1
    <3> QED
      BY <3>2, <3>3
  <2>5. ToSet(s.rest) = {Piece(t, z)}
    <3>1. s.rest = <<Piece(t, z)>>
      BY <1>4, <2>1
    <3>2. DOMAIN s.rest = {1} /\ s.rest[1] = Piece(t, z)
      BY <3>1
    <3> QED
      BY <3>2 DEF ToSet
  <2>6. As(ToSet(s.rest), c) = {SeenAs(a, t, z)}
    <3>1. As({Piece(t, z)}, c) = {[part |-> Piece(t, z), code |-> c]}
      BY DEF As
    <3> QED
      BY <2>4, <2>5, <3>1
  <2> HIDE DEF c
  <2>7. x \in ToSet(Visible(t)) <=>
          \/ \E i \in 1 .. 2 * h : IsSeen(a, t, i) /\ x = SeenAs(a, t, i)
          \/ IsSeen(a, t, z) /\ x = SeenAs(a, t, z)
    <3>1. \A i : i \in 1..z <=> i \in 1 .. 2 * h \/ i = z
      BY <2>1, <2>11
    <3> QED
      BY <1>3, <3>1
  <2>8. IsSeen(a, t, z)
    BY <2>3 DEF IsSeen
  <2>9. x \in Whole(a, t, h) <=> \E i \in 1 .. 2 * h : IsSeen(a, t, i) /\ x = SeenAs(a, t, i)
    <3>1. x \in Whole(a, t, h) <=>
            \E i \in 1 .. 2 * h : /\ a[t].lines[(i + 1) \div 2] = "text"
                                  /\ x = [part |-> Piece(t, i), code |-> InCode(a, t, (i + 1) \div 2)]
      BY <2>1, WholeIs
    <3> QED
      BY <1>5, <1>11, <1>12, <2>2, <3>1
  <2>10. x \in ToSet(Visible(t)) <=> x \in Due(s, t) \/ x \in As(ToSet(s.rest), c)
    BY <1>4, <2>6, <2>7, <2>8, <2>9
  <2> QED
    BY <2>10 DEF c
<1> QED
  BY <1>6, <1>7

(* What has been shown when it returns.                                      *)
LEMMA ReturnShows ==
  ASSUME answers \in AnswerLists, NEW t \in 1..Turns, NEW s \in Renderers, Orderly(s, t, Size(answers, t)),
         NEW r, r = [FlushNow(FlushBlock(s)) EXCEPT !.pending = <<>>]
  PROVE  /\ Held(r) = {}
         /\ Faithful(answers, s, t, Size(answers, t)) => ShownOf(r.out, t) = ToSet(Visible(t))
<1>1. PICK z : z = Size(answers, t)
  OBVIOUS
<1>2. PICK b : b = FlushBlock(s)
  OBVIOUS
<1>3. /\ b \in Renderers
      /\ \/ /\ s.open /\ s.block # <<>>
            /\ b.rest = <<>> /\ b.block = <<>> /\ b.pending = <<>>
            /\ b.out = (s.out \o Printed(s.pending, FALSE)) \o Printed(s.block \o s.rest, TRUE)
         \/ /\ ~s.open \/ s.block = <<>>
            /\ b.rest = <<>> /\ b.block = s.block
            /\ b.pending = s.pending \o s.rest /\ b.out = s.out
  BY <1>2, FlushBlockIs
<1>4. PICK f : f = FlushNow(b)
  OBVIOUS
<1>5. f \in Renderers /\ f.rest = b.rest /\ f.block = b.block
  BY <1>3, <1>4, FlushNowIs
<1>6. ToSet(f.out) = ToSet(b.out) \cup As(ToSet(b.pending), FALSE)
  BY <1>3, <1>4, FlushNowFollows
<1>7. r.rest = b.rest /\ r.block = b.block /\ r.pending = <<>> /\ r.out = f.out
  <2>1. r = [f EXCEPT !.pending = <<>>]
    BY <1>2, <1>4
  <2> QED
    BY <1>5, <2>1, DropIs
<1>8. ~s.open => s.block = <<>>
  BY DEF Orderly
<1>9. s.rest \in Seq(Part) /\ s.block \in Seq(Part) /\ s.pending \in Seq(Part) /\ s.out \in Seq(Shown) /\ s.open \in BOOLEAN
  BY PartsOfRenderer
<1> DEFINE c == s.open /\ s.block # <<>>
<1>10. b.rest = <<>> /\ b.block = <<>>
  BY <1>3, <1>8
<1>11. Held(r) = {}
  BY <1>7, <1>10, NoneIs DEF Held
<1>12. ToSet(r.out) = ToSet(s.out) \cup As(ToSet(s.pending), FALSE) \cup As(ToSet(s.block), TRUE)
                        \cup As(ToSet(s.rest), c)
  <2>1. CASE /\ s.open /\ s.block # <<>> /\ b.pending = <<>>
             /\ b.out = (s.out \o Printed(s.pending, FALSE)) \o Printed(s.block \o s.rest, TRUE)
    <3>1. PICK l : l = s.block \o s.rest
      OBVIOUS
    <3>2. l \in Seq(Part) /\ ToSet(l) = ToSet(s.block) \cup ToSet(s.rest)
      BY <1>9, <3>1, JoinIs
    <3>3. ToSet((s.out \o Printed(s.pending, FALSE)) \o Printed(l, TRUE))
            = ToSet(s.out) \cup As(ToSet(s.pending), FALSE) \cup As(ToSet(l), TRUE)
      <4>1. s.out \in Seq(Shown) /\ s.pending \in Seq(Part) /\ l \in Seq(Part)
        BY <1>9, <3>2
      <4> QED
        BY <4>1, PrintsAll
    <3>4. As(ToSet(l), TRUE) = As(ToSet(s.block), TRUE) \cup As(ToSet(s.rest), TRUE)
      BY <3>2 DEF As
    <3>5. ToSet(b.out) = ToSet(s.out) \cup As(ToSet(s.pending), FALSE) \cup (As(ToSet(s.block), TRUE) \cup As(ToSet(s.rest), TRUE))
      BY <2>1, <3>1, <3>3, <3>4
    <3>6. c = TRUE
      BY <2>1
    <3>7. As(ToSet(b.pending), FALSE) = {}
      <4>1. ToSet(b.pending) = {}
        BY <2>1, NoneIs
      <4> QED
        BY <4>1, NoneAs
    <3> HIDE DEF c
    <3> QED
      BY <1>6, <1>7, <3>5, <3>6, <3>7
  <2>2. CASE /\ ~s.open \/ s.block = <<>>
             /\ b.pending = s.pending \o s.rest /\ b.out = s.out
    <3>1. s.block = <<>>
      BY <1>8, <2>2
    <3>2. c = FALSE
      BY <3>1
    <3>3. ToSet(s.pending \o s.rest) = ToSet(s.pending) \cup ToSet(s.rest)
      BY <1>9, JoinIs
    <3>4. As(ToSet(b.pending), FALSE) = As(ToSet(s.pending), FALSE) \cup As(ToSet(s.rest), FALSE)
      BY <2>2, <3>3 DEF As
    <3>5. As(ToSet(s.block), TRUE) = {}
      <4>1. ToSet(s.block) = {}
        BY <3>1, NoneIs
      <4> QED
        BY <4>1, NoneAs
    <3>6. ToSet(b.out) = ToSet(s.out)
      BY <2>2
    <3> HIDE DEF c
    <3> QED
      BY <1>6, <1>7, <3>2, <3>4, <3>5, <3>6
  <2> QED
    BY <1>3, <2>1, <2>2
<1> HIDE DEF c
<1>13. ASSUME Faithful(answers, s, t, z) PROVE ShownOf(r.out, t) = ToSet(Visible(t))
  <2>1. \A x : x \in ToSet(Visible(t)) <=> x \in Due(s, t) \cup As(ToSet(s.rest), c)
    BY <1>1, <1>13, DueIsSeen DEF c
  <2>2. \A x \in Due(s, t) : x.part.turn = t
    <3>1. Due(s, t) = Whole(answers, t, z \div 2)
      BY <1>13 DEF Faithful
    <3>2. z \div 2 \in 0..MaxLines
      <4>1. z \in Nat /\ z <= 2 * MaxLines /\ MaxLines \in Nat
        BY <1>1, AnswerIs, TerminalAssumption
      <4> QED
        BY <4>1
    <3> QED
      BY <3>1, <3>2, WholeOf
  <2>3. \A x \in As(ToSet(s.rest), c) : x.part.turn = t
    <3>1. s.rest = <<>> \/ s.rest = <<Piece(t, z)>>
      BY <1>13 DEF Faithful
    <3>2. ToSet(s.rest) \subseteq {Piece(t, z)}
      <4>1. CASE s.rest = <<>>
        BY <4>1, NoneIs
      <4>2. CASE s.rest = <<Piece(t, z)>>
        <5>1. DOMAIN s.rest = {1} /\ s.rest[1] = Piece(t, z)
          BY <4>2
        <5> QED
          BY <5>1 DEF ToSet
      <4> QED
        BY <3>1, <4>1, <4>2
    <3>3. Piece(t, z).turn = t
      BY DEF Piece
    <3> QED
      BY <3>2, <3>3 DEF As
  <2> DEFINE Q == As(ToSet(s.pending), FALSE)
             B == As(ToSet(s.block), TRUE)
             R == As(ToSet(s.rest), c)
  <2>4. Due(s, t) = Q \cup B \cup ShownOf(s.out, t)
    BY DEF Due
  <2>5. ToSet(r.out) = ToSet(s.out) \cup Q \cup B \cup R
    BY <1>12
  <2> HIDE DEF Q, B
  <2>6. \A x \in Q \cup B \cup R : x.part.turn = t
    BY <2>2, <2>3, <2>4
  <2> HIDE DEF R
  <2>7. ShownOf(r.out, t) = Due(s, t) \cup R
    BY <2>4, <2>5, <2>6 DEF ShownOf
  <2>8. \A x : x \in ToSet(Visible(t)) <=> x \in Due(s, t) \cup R
    BY <2>1 DEF R
  <2> QED
    BY <2>7, <2>8
<1> QED
  BY <1>1, <1>11, <1>13

-----------------------------------------------------------------------------
(* The invariant: of a turn that has returned nothing is held back, and what *)
(* was shown of it is what should be seen if it was clean.                   *)
PastShown ==
  \A u \in 1 .. now - 1 :
    ends[u] \in {"returned", "replaced"} => Quiet(Renderer, u) /\ (u \in clean => ShownOf(shown, u) = ToSet(Visible(u)))

TextInv ==
  /\ TerminalTypeOK /\ Orderly(Renderer, now, fed)
  /\ now <= Turns => fed <= Size(answers, now)
  /\ \A u \in now..Turns : ends[u] = "none"
  /\ clean \subseteq 1..now
  /\ now \in clean => Faithful(answers, Renderer, now, fed)
  /\ PastShown

LEMMA RendererTyped == ASSUME TerminalTypeOK PROVE Renderer \in Renderers
BY RendererIs DEF TerminalTypeOK, Renderer

LEMMA TextFacts ==
  ASSUME TextInv
  PROVE  /\ Renderer \in Renderers /\ answers \in AnswerLists
         /\ now \in Nat /\ now \in 1 .. Turns + 1 /\ fed \in Nat /\ Turns \in Nat /\ clean \subseteq 1..Turns
         /\ ends \in [1..Turns -> {"none", "returned", "replaced", "cancelled", "raised"}]
BY TerminalAssumption, RendererTyped DEF TextInv, TerminalTypeOK, AnswerLists

LEMMA BecomesIs ==
  ASSUME NEW s \in Renderers, Becomes(s)
  PROVE  /\ Renderer' = s /\ shown' = s.out
         /\ rest' \in Seq(Part) /\ open' \in BOOLEAN /\ block' \in Seq(Part)
         /\ pending' \in Seq(Part) /\ shown' \in Seq(Shown)
<1>1. rest' = s.rest /\ open' = s.open /\ block' = s.block /\ pending' = s.pending /\ shown' = s.out
  BY DEF Becomes
<1>2. Renderer' = [rest |-> s.rest, open |-> s.open, block |-> s.block, pending |-> s.pending, out |-> s.out]
  BY <1>1 DEF Renderer
<1>3. Renderer' = s
  BY <1>2, ShapeOfRenderer
<1> QED
  BY <1>1, <1>3, PartsOfRenderer

LEMMA VisibleStays == ASSUME answers' = answers PROVE \A u : Visible(u)' = Visible(u)
BY DEF Visible, PartsOf, Kind, FencesBefore

LEMMA FreshFaithful ==
  ASSUME NEW s \in Renderers, NEW t \in Nat, NEW k \in Nat, NEW a, Orderly(s, t, k),
         s.rest = <<>>, s.pending = <<>>, ~s.open
  PROVE  Faithful(a, s, t + 1, 0)
<1>1. s.block = <<>>
  BY DEF Orderly
<1>2. ShownOf(s.out, t + 1) = {}
  <2>1. PartsShown(s.out) \subseteq Came(t, k)
    BY DEF Orderly
  <2>2. \A x \in ToSet(s.out) : x.part \in PartsShown(s.out)
    BY DEF ToSet, PartsShown
  <2>3. \A p \in Came(t, k) : p.turn # t + 1
    <3>1. \A p \in Part : p.turn \in Nat
      BY TerminalAssumption DEF Part
    <3> QED
      BY <3>1 DEF Came
  <2> QED
    BY <2>1, <2>2, <2>3 DEF ShownOf
<1>3. Due(s, t + 1) = {}
  BY <1>1, <1>2, NoneIs, NoneAs DEF Due
<1>4. 0 % 2 = 0 /\ 0 \div 2 = 0
  OBVIOUS
<1>5. Whole(a, t + 1, 0) = {} /\ ~InCode(a, t + 1, 1)
  BY WholeGrows, CodeFrom
<1> QED
  BY <1>1, <1>3, <1>4, <1>5 DEF Faithful

LEMMA FlushFaithful ==
  ASSUME answers \in AnswerLists, NEW t \in 1..Turns, NEW s \in Renderers, NEW k \in 0 .. 2 * MaxLines,
         Faithful(answers, s, t, k)
  PROVE  Faithful(answers, FlushNow(s), t, k)
<1>1. PICK r : r = FlushNow(s)
  OBVIOUS
<1>2. r.rest = s.rest /\ r.open = s.open /\ r.block = s.block /\ r.pending = <<>>
  BY <1>1, FlushNowIs
<1>3. ToSet(r.out) = ToSet(s.out) \cup As(ToSet(s.pending), FALSE)
  BY <1>1, FlushNowFollows
<1>4. \A x \in Due(s, t) : x.part.turn = t
  <2>1. k \div 2 \in 0..MaxLines
    BY TerminalAssumption
  <2> QED
    BY <2>1, WholeOf DEF Faithful
<1> DEFINE Q == As(ToSet(s.pending), FALSE)
           B == As(ToSet(s.block), TRUE)
<1>5. Due(s, t) = Q \cup B \cup ShownOf(s.out, t)
  BY DEF Due
<1>6. Due(r, t) = B \cup ShownOf(r.out, t)
  BY <1>2, NoneIs, NoneAs DEF Due
<1>7. ToSet(r.out) = ToSet(s.out) \cup Q
  BY <1>3
<1> HIDE DEF Q, B
<1>8. ShownOf(r.out, t) = ShownOf(s.out, t) \cup Q
  BY <1>4, <1>5, <1>7 DEF ShownOf
<1>9. Due(r, t) = Due(s, t)
  BY <1>5, <1>6, <1>8
<1> QED
  BY <1>1, <1>2, <1>9 DEF Faithful

LEMMA TextInitInv == ASSUME TerminalInit PROVE TextInv
<1>1. /\ answers \in AnswerLists /\ now = 1 /\ fed = 0 /\ rest = <<>> /\ open = FALSE /\ block = <<>>
      /\ pending = <<>> /\ shown = <<>> /\ ends = [t \in 1..Turns |-> "none"] /\ clean = {1}
  BY DEF TerminalInit, AnswerLists
<1>2. Turns \in Nat \ {0} /\ MaxLines \in Nat
  BY TerminalAssumption
<1>3. TerminalTypeOK
  <2>1. now \in 1 .. Turns + 1 /\ fed \in 0 .. 2 * MaxLines /\ clean \subseteq 1..Turns
    BY <1>1, <1>2
  <2>2. rest \in Seq(Part) /\ block \in Seq(Part) /\ pending \in Seq(Part) /\ shown \in Seq(Shown) /\ open \in BOOLEAN
    BY <1>1, NoParts
  <2>3. ends \in [1..Turns -> {"none", "returned", "replaced", "cancelled", "raised"}]
    BY <1>1
  <2> QED
    BY <1>1, <2>1, <2>2, <2>3 DEF TerminalTypeOK, AnswerLists
<1>4. Renderer \in Renderers
  BY <1>3, RendererTyped
<1>5. /\ Renderer.rest = <<>> /\ Renderer.open = FALSE /\ Renderer.block = <<>>
      /\ Renderer.pending = <<>> /\ Renderer.out = <<>>
  BY <1>1 DEF Renderer
<1>6. Orderly(Renderer, 0, 0)
  <2>1. (\A A : Prior({}, A)) /\ RisingShown(<<>>)
    BY DEF Prior, RisingShown
  <2> QED
    BY <1>5, <2>1, NoneIs DEF Orderly
<1>7. Orderly(Renderer, 1, 0)
  BY <1>6, OrderlyLater
<1>8. Faithful(answers, Renderer, 1, 0)
  <2>1. Faithful(answers, Renderer, 0 + 1, 0)
    BY <1>4, <1>5, <1>6, FreshFaithful
  <2> QED
    BY <2>1
<1>9. Size(answers, 1) >= 0
  BY <1>1, <1>2, AnswerIs
<1>10. PastShown
  <2>1. 1 .. now - 1 = {}
    BY <1>1
  <2> QED
    BY <2>1 DEF PastShown
<1>11. (\A u \in now..Turns : ends[u] = "none") /\ clean \subseteq 1..now
  BY <1>1
<1> QED
  BY <1>1, <1>3, <1>7, <1>8, <1>9, <1>10, <1>11 DEF TextInv

LEMMA ChunkKeeps == ASSUME TextInv, Chunk PROVE TextInv'
<1>0. /\ Renderer \in Renderers /\ answers \in AnswerLists
      /\ now \in Nat /\ now \in 1 .. Turns + 1 /\ fed \in Nat /\ Turns \in Nat /\ clean \subseteq 1..Turns
      /\ ends \in [1..Turns -> {"none", "returned", "replaced", "cancelled", "raised"}]
  BY TextFacts
<1>1. /\ now <= Turns /\ answers' = answers /\ now' = now /\ ends' = ends /\ clean' = clean
  BY DEF Chunk
<1>2. now \in 1..Turns
  BY <1>0, <1>1
<1>3. PICK n \in fed + 1 .. Len(PartsOf(now)) :
        LET s == Feed(Renderer, SubSeq(PartsOf(now), fed + 1, n)) IN
        fed' = n /\ (Becomes(s) \/ Becomes(FlushNow(s)))
  BY DEF Chunk
<1>4. PICK s : s = Feed(Renderer, SubSeq(PartsOf(now), fed + 1, n))
  OBVIOUS
<1>5. fed' = n /\ (Becomes(s) \/ Becomes(FlushNow(s)))
  BY <1>3, <1>4
<1>6. Orderly(Renderer, now, fed)
  BY DEF TextInv
<1>7. /\ s \in Renderers /\ n <= Size(answers, now) /\ Orderly(s, now, n)
      /\ \A u \in 1 .. now - 1 : Quiet(Renderer, u) => Quiet(s, u)
      /\ \A u \in 1 .. now - 1 : Quiet(Renderer, u) => ShownOf(s.out, u) = ShownOf(Renderer.out, u)
      /\ Faithful(answers, Renderer, now, fed) => Faithful(answers, s, now, n)
  BY <1>0, <1>2, <1>4, <1>6, ChunkFed
<1>8. n \in 0 .. 2 * MaxLines
  <2>1. Size(answers, now) <= 2 * MaxLines /\ Size(answers, now) \in Nat
    BY <1>0, <1>2, AnswerIs
  <2>2. MaxLines \in Nat
    BY TerminalAssumption
  <2>3. n \in Int /\ n >= fed + 1
    <3>1. Len(PartsOf(now)) \in Nat
      <4>1. PartsOf(now) = [i \in 1..Size(answers, now) |-> Piece(now, i)]
        BY <1>0, <1>2, PartsAre
      <4> QED
        BY <2>1, <4>1
    <3> QED
      BY <1>0, <3>1
  <2> QED
    BY <1>0, <1>7, <2>1, <2>2, <2>3
<1>9. PICK e : /\ e \in Renderers /\ Becomes(e) /\ Orderly(e, now, n)
               /\ \A u \in 1 .. now - 1 : Quiet(Renderer, u) =>
                    Quiet(e, u) /\ ShownOf(e.out, u) = ShownOf(Renderer.out, u)
               /\ Faithful(answers, Renderer, now, fed) => Faithful(answers, e, now, n)
  <2>1. CASE Becomes(s)
    BY <1>7, <2>1
  <2>2. CASE Becomes(FlushNow(s))
    <3>1. PICK e : e = FlushNow(s)
      OBVIOUS
    <3>2. e \in Renderers /\ Orderly(e, now, n) /\ Follows(s, e, {})
      BY <1>7, <3>1, FlushNowIs, FlushNowOrderly, FlushNowFollows
    <3>3. ASSUME NEW u \in 1 .. now - 1, Quiet(Renderer, u)
          PROVE  Quiet(e, u) /\ ShownOf(e.out, u) = ShownOf(Renderer.out, u)
      <4>1. Quiet(s, u) /\ ShownOf(s.out, u) = ShownOf(Renderer.out, u)
        BY <1>7, <3>3
      <4>2. Quiet(e, u) /\ ShownOf(e.out, u) = ShownOf(s.out, u)
        BY <3>2, <4>1, QuietStays
      <4> QED
        BY <4>1, <4>2
    <3>4. Faithful(answers, Renderer, now, fed) => Faithful(answers, e, now, n)
      BY <1>0, <1>2, <1>7, <1>8, <3>1, FlushFaithful
    <3> QED
      BY <2>2, <3>1, <3>2, <3>3, <3>4
  <2> QED
    BY <1>5, <2>1, <2>2
<1>10. /\ Renderer' = e /\ shown' = e.out
       /\ rest' \in Seq(Part) /\ open' \in BOOLEAN /\ block' \in Seq(Part)
       /\ pending' \in Seq(Part) /\ shown' \in Seq(Shown)
  BY <1>9, BecomesIs
<1>11. TerminalTypeOK'
  <2>1. TerminalTypeOK
    BY DEF TextInv
  <2> QED
    BY <1>1, <1>5, <1>8, <1>10, <2>1 DEF TerminalTypeOK
<1>12. PastShown'
  <2>1. SUFFICES ASSUME NEW u \in 1 .. now - 1, ends[u] \in {"returned", "replaced"}
                 PROVE  Quiet(e, u) /\ (u \in clean => ShownOf(e.out, u) = ToSet(Visible(u)))
    <3>1. \A u : ToSet(Visible(u))' = ToSet(Visible(u))
      BY <1>1, VisibleStays
    <3>2. (\A u : Quiet(Renderer, u)' = Quiet(e, u)) /\ \A u : ShownOf(shown, u)' = ShownOf(e.out, u)
      BY <1>10
    <3> QED
      BY <1>1, <2>1, <3>1, <3>2 DEF PastShown
  <2>2. Quiet(Renderer, u) /\ (u \in clean => ShownOf(shown, u) = ToSet(Visible(u)))
    BY <2>1 DEF TextInv, PastShown
  <2>3. Renderer.out = shown
    BY DEF Renderer
  <2> QED
    BY <1>9, <2>2, <2>3
<1>13. now \in clean => Faithful(answers, e, now, n)
  BY <1>9 DEF TextInv
<1>14. /\ (Orderly(Renderer, now, fed))' /\ (now <= Turns => fed <= Size(answers, now))'
       /\ (now \in clean => Faithful(answers, Renderer, now, fed))'
  BY <1>1, <1>5, <1>7, <1>9, <1>10, <1>13
<1>15. (\A u \in now..Turns : ends[u] = "none")' /\ (clean \subseteq 1..now)'
  BY <1>1 DEF TextInv
<1> QED
  BY <1>11, <1>12, <1>14, <1>15 DEF TextInv

LEMMA EndKeeps ==
  ASSUME TextInv, NEW how \in {"returned", "replaced", "cancelled", "raised"}, NEW s \in Renderers, EndTurn(how, s),
         Follows(Renderer, s, {}), Orderly(s, now, fed),
         how \in {"returned", "replaced"} =>
           /\ Held([s EXCEPT !.pending = <<>>]) = {}
           /\ now \in clean => ShownOf([s EXCEPT !.pending = <<>>].out, now) = ToSet(Visible(now))
  PROVE  TextInv'
<1>0. /\ Renderer \in Renderers /\ answers \in AnswerLists
      /\ now \in Nat /\ now \in 1 .. Turns + 1 /\ fed \in Nat /\ Turns \in Nat /\ clean \subseteq 1..Turns
      /\ ends \in [1..Turns -> {"none", "returned", "replaced", "cancelled", "raised"}]
  BY TextFacts
<1>1. PICK e : e = [s EXCEPT !.pending = <<>>]
  OBVIOUS
<1>2. /\ now <= Turns /\ ends' = [ends EXCEPT ![now] = how] /\ Becomes(e) /\ now' = now + 1 /\ fed' = 0
      /\ clean' = (IF now < Turns /\ s.rest = <<>> /\ ~s.open THEN clean \cup {now + 1} ELSE clean)
      /\ answers' = answers
  BY <1>1 DEF EndTurn
<1>3. now \in 1..Turns
  BY <1>0, <1>2
<1>4. /\ e \in Renderers /\ e.rest = s.rest /\ e.open = s.open /\ e.pending = <<>>
  BY <1>1, DropIs
<1>5. Orderly(e, now, fed) /\ Follows(s, e, {})
  BY <1>1, DropOrderly, DropFollows
<1>6. /\ Renderer' = e /\ shown' = e.out
      /\ rest' \in Seq(Part) /\ open' \in BOOLEAN /\ block' \in Seq(Part)
      /\ pending' \in Seq(Part) /\ shown' \in Seq(Shown)
  BY <1>2, <1>4, BecomesIs
<1>7. TerminalTypeOK'
  <2>1. now' \in 1 .. Turns + 1 /\ fed' \in 0 .. 2 * MaxLines
    BY <1>0, <1>2, <1>3, TerminalAssumption
  <2>2. ends' \in [1..Turns -> {"none", "returned", "replaced", "cancelled", "raised"}]
    BY <1>0, <1>2
  <2>3. clean' \subseteq 1..Turns
    BY <1>0, <1>2
  <2>4. answers' \in [1..Turns -> AnswerTexts]
    BY <1>0, <1>2 DEF AnswerLists
  <2> QED
    BY <1>6, <2>1, <2>2, <2>3, <2>4 DEF TerminalTypeOK
<1>8. Orderly(Renderer, now, fed)'
  <2>1. Orderly(e, now + 1, 0)
    BY <1>0, <1>5, OrderlyLater
  <2> QED
    BY <1>2, <1>6, <2>1
<1>9. (now <= Turns => fed <= Size(answers, now))'
  <2>1. ASSUME now + 1 <= Turns PROVE 0 <= Size(answers, now + 1)
    <3>1. now + 1 \in 1..Turns
      BY <1>0, <2>1
    <3> QED
      BY <1>0, <3>1, AnswerIs
  <2> QED
    BY <1>2, <2>1
<1>10. (\A u \in now..Turns : ends[u] = "none")'
  <2>1. \A u \in now + 1 .. Turns : u \in now..Turns /\ u # now /\ u \in 1..Turns
    BY <1>0
  <2>2. \A u \in now..Turns : ends[u] = "none"
    BY DEF TextInv
  <2> QED
    BY <1>0, <1>2, <2>1, <2>2
<1>11. clean \subseteq 1..now
  BY DEF TextInv
<1>12. (clean \subseteq 1..now)'
  BY <1>0, <1>2, <1>11
<1>13. (now \in clean => Faithful(answers, Renderer, now, fed))'
  <2>1. ASSUME now + 1 \in clean' PROVE Faithful(answers, e, now + 1, 0)
    <3>1. now + 1 \notin clean
      BY <1>0, <1>11
    <3>2. s.rest = <<>> /\ ~s.open
      BY <1>2, <2>1, <3>1
    <3> QED
      BY <1>0, <1>4, <1>5, <3>2, FreshFaithful
  <2> QED
    BY <1>2, <1>6, <2>1
<1>14. PastShown'
  <2>1. SUFFICES ASSUME NEW u \in 1..now, ends'[u] \in {"returned", "replaced"}
                 PROVE  Quiet(e, u) /\ (u \in clean' => ShownOf(e.out, u) = ToSet(Visible(u)))
    <3>1. \A u : ToSet(Visible(u))' = ToSet(Visible(u))
      BY <1>2, VisibleStays
    <3>2. (\A u : Quiet(Renderer, u)' = Quiet(e, u)) /\ \A u : ShownOf(shown, u)' = ShownOf(e.out, u)
      BY <1>6
    <3>3. 1 .. now' - 1 = 1..now
      BY <1>0, <1>2
    <3> QED
      BY <2>1, <3>1, <3>2, <3>3 DEF PastShown
  <2>2. u \in clean' => u \in clean
    BY <1>0, <1>2
  <2>3. CASE u = now
    <3>1. how \in {"returned", "replaced"}
      BY <1>0, <1>2, <1>3, <2>1, <2>3
    <3>2. Held(e) = {} /\ (now \in clean => ShownOf(e.out, now) = ToSet(Visible(now)))
      BY <1>1, <3>1
    <3>3. Quiet(e, u)
      BY <3>2 DEF Quiet
    <3> QED
      BY <2>2, <2>3, <3>2, <3>3
  <2>4. CASE u # now
    <3>1. u \in 1 .. now - 1 /\ u \in 1..Turns
      BY <1>0, <2>4
    <3>2. ends[u] \in {"returned", "replaced"}
      BY <1>0, <1>2, <2>1, <2>4, <3>1
    <3>3. Quiet(Renderer, u) /\ (u \in clean => ShownOf(shown, u) = ToSet(Visible(u)))
      BY <3>1, <3>2 DEF TextInv, PastShown
    <3>4. Renderer.out = shown
      BY DEF Renderer
    <3>5. Quiet(s, u) /\ ShownOf(s.out, u) = ShownOf(Renderer.out, u)
      BY <3>3, QuietStays
    <3>6. Quiet(e, u) /\ ShownOf(e.out, u) = ShownOf(s.out, u)
      BY <1>5, <3>5, QuietStays
    <3> QED
      BY <2>2, <3>3, <3>4, <3>5, <3>6
  <2> QED
    BY <2>3, <2>4
<1> QED
  BY <1>7, <1>8, <1>9, <1>10, <1>12, <1>13, <1>14 DEF TextInv

LEMMA FollowsItself == ASSUME NEW s PROVE Follows(s, s, {})
<1>1. ToSet(s.out) = ToSet(s.out) \cup As({}, FALSE) \cup As({}, TRUE)
  BY NoneAs
<1> QED
  BY <1>1 DEF Follows

LEMMA ReturnKeeps == ASSUME TextInv, now <= Turns, TurnReturns PROVE TextInv'
<1>0. /\ Renderer \in Renderers /\ answers \in AnswerLists
      /\ now \in Nat /\ now \in 1 .. Turns + 1 /\ fed \in Nat /\ Turns \in Nat
  BY TextFacts
<1>1. now \in 1..Turns
  BY <1>0
<1>2. fed = Size(answers, now)
  <2>1. PartsOf(now) = [i \in 1..Size(answers, now) |-> Piece(now, i)] /\ Size(answers, now) \in Nat
    BY <1>0, <1>1, PartsAre, AnswerIs
  <2> QED
    BY <2>1 DEF TurnReturns
<1>3. PICK b : b = FlushBlock(Renderer)
  OBVIOUS
<1>4. b \in Renderers
  BY <1>0, <1>3, FlushBlockIs
<1>5. PICK s : s = FlushNow(b)
  OBVIOUS
<1>6. s \in Renderers
  BY <1>4, <1>5, FlushNowIs
<1>7. PICK how \in {"returned", "replaced"} : EndTurn(how, s)
  BY <1>3, <1>5 DEF TurnReturns
<1>8. Orderly(Renderer, now, fed)
  BY DEF TextInv
<1>9. Orderly(s, now, fed)
  BY <1>0, <1>3, <1>4, <1>5, <1>8, FlushBlockOrderly, FlushNowOrderly
<1>10. Follows(Renderer, s, {})
  <2>1. Follows(Renderer, b, {}) /\ Follows(b, s, {})
    BY <1>0, <1>3, <1>4, <1>5, FlushBlockFollows, FlushNowFollows
  <2>2. PICK A \in SUBSET Held(Renderer), B \in SUBSET Held(Renderer) :
          ToSet(b.out) = ToSet(Renderer.out) \cup As(A, FALSE) \cup As(B, TRUE)
    BY <2>1 DEF Follows
  <2>3. PICK C \in SUBSET Held(b), D \in SUBSET Held(b) :
          ToSet(s.out) = ToSet(b.out) \cup As(C, FALSE) \cup As(D, TRUE)
    BY <2>1 DEF Follows
  <2>4. Held(b) \subseteq Held(Renderer) /\ Held(s) \subseteq Held(b)
    BY <2>1 DEF Follows
  <2>5. As(A \cup C, FALSE) = As(A, FALSE) \cup As(C, FALSE)
    BY DEF As
  <2>6. As(B \cup D, TRUE) = As(B, TRUE) \cup As(D, TRUE)
    BY DEF As
  <2>7. ToSet(s.out) = ToSet(Renderer.out) \cup As(A \cup C, FALSE) \cup As(B \cup D, TRUE)
    BY <2>2, <2>3, <2>5, <2>6
  <2>8. A \cup C \in SUBSET Held(Renderer) /\ B \cup D \in SUBSET Held(Renderer)
    BY <2>4
  <2> QED
    BY <2>4, <2>7, <2>8 DEF Follows
<1>11. PICK e : e = [s EXCEPT !.pending = <<>>]
  OBVIOUS
<1>12. e = [FlushNow(FlushBlock(Renderer)) EXCEPT !.pending = <<>>]
  BY <1>3, <1>5, <1>11
<1>13. /\ Held(e) = {}
       /\ Faithful(answers, Renderer, now, Size(answers, now)) => ShownOf(e.out, now) = ToSet(Visible(now))
  BY <1>0, <1>1, <1>2, <1>8, <1>12, ReturnShows
<1>14. now \in clean => Faithful(answers, Renderer, now, fed)
  BY DEF TextInv
<1> QED
  BY <1>2, <1>6, <1>7, <1>9, <1>10, <1>11, <1>13, <1>14, EndKeeps

LEMMA TextStepInv == TextInv /\ [TerminalNext]_terminalVars => TextInv'
<1> SUFFICES ASSUME TextInv, [TerminalNext]_terminalVars PROVE TextInv'
  OBVIOUS
<1>0. Renderer \in Renderers /\ Orderly(Renderer, now, fed)
  BY TextFacts DEF TextInv
<1>1. CASE UNCHANGED terminalVars
  <2>1. /\ answers' = answers /\ now' = now /\ fed' = fed /\ rest' = rest /\ open' = open /\ block' = block
        /\ pending' = pending /\ shown' = shown /\ ends' = ends /\ clean' = clean
    BY <1>1 DEF terminalVars
  <2>2. Renderer' = Renderer /\ TerminalTypeOK'
    BY <2>1 DEF Renderer, TerminalTypeOK, TextInv
  <2>3. PastShown'
    <3>1. \A u : ToSet(Visible(u))' = ToSet(Visible(u))
      BY <2>1, VisibleStays
    <3>2. (\A u : Quiet(Renderer, u)' = Quiet(Renderer, u)) /\ \A u : ShownOf(shown, u)' = ShownOf(shown, u)
      BY <2>1, <2>2
    <3>3. PastShown
      BY DEF TextInv
    <3> QED
      BY <2>1, <3>1, <3>2, <3>3 DEF PastShown
  <2>4. /\ (Orderly(Renderer, now, fed))' /\ (now <= Turns => fed <= Size(answers, now))'
        /\ (now \in clean => Faithful(answers, Renderer, now, fed))'
    BY <2>1, <2>2 DEF TextInv
  <2>5. (\A u \in now..Turns : ends[u] = "none")' /\ (clean \subseteq 1..now)'
    BY <2>1 DEF TextInv
  <2> QED
    BY <2>2, <2>3, <2>4, <2>5 DEF TextInv
<1>2. CASE Chunk
  BY <1>2, ChunkKeeps
<1>3. CASE now <= Turns /\ TurnReturns
  BY <1>3, ReturnKeeps
<1>4. CASE TurnCancelled
  <2>1. PICK s : s = FlushNow(Renderer)
    OBVIOUS
  <2>2. s \in Renderers /\ Orderly(s, now, fed) /\ Follows(Renderer, s, {})
    BY <1>0, <2>1, FlushNowIs, FlushNowOrderly, FlushNowFollows
  <2>3. EndTurn("cancelled", s)
    BY <1>4, <2>1 DEF TurnCancelled
  <2> QED
    BY <2>2, <2>3, EndKeeps
<1>5. CASE TurnRaises
  <2>1. EndTurn("raised", Renderer)
    BY <1>5 DEF TurnRaises
  <2> QED
    BY <1>0, <2>1, FollowsItself, EndKeeps
<1> QED
  BY <1>1, <1>2, <1>3, <1>4, <1>5 DEF TerminalNext

LEMMA TextInvShows == TextInv => TerminalTypeOK /\ TextIsShown
<1> SUFFICES ASSUME TextInv PROVE TextIsShown
  BY DEF TextInv
<1>0. /\ answers \in AnswerLists /\ now \in 1 .. Turns + 1 /\ Turns \in Nat
      /\ RisingShown(shown) /\ shown \in Seq(Shown)
  <2>1. Renderer.out = shown
    BY DEF Renderer
  <2>2. RisingShown(shown)
    BY <2>1 DEF TextInv, Orderly
  <2>3. shown \in Seq(Shown)
    BY DEF TextInv, TerminalTypeOK
  <2> QED
    BY <2>2, <2>3, TextFacts
<1>1. ASSUME NEW t \in 1..Turns, ends[t] \in {"returned", "replaced"}, t \in clean PROVE Own(t) = Visible(t)
  <2>1. t \in 1 .. now - 1
    <3>1. t \notin now..Turns
      BY <1>1 DEF TextInv
    <3> QED
      BY <1>0, <3>1
  <2>2. ShownOf(shown, t) = ToSet(Visible(t))
    BY <1>1, <2>1 DEF TextInv, PastShown
  <2>3. Own(t) \in Seq(Shown) /\ ToSet(Own(t)) = ShownOf(shown, t) /\ RisesAs(Own(t))
    BY <1>0, OwnIs
  <2>4. Visible(t) \in Seq(Shown) /\ RisesAs(Visible(t))
    BY <1>0, VisibleIs
  <2>5. PICK v : v = Own(t)
    OBVIOUS
  <2>6. PICK w : w = Visible(t)
    OBVIOUS
  <2>7. \A x \in Shown : Place(x.part) \in Nat
    BY TerminalAssumption DEF Shown, Part, Place
  <2>8. PICK rank \in [Shown -> Nat] : \A x \in Shown : rank[x] = Place(x.part)
    <3>1. [x \in Shown |-> Place(x.part)] \in [Shown -> Nat]
      BY <2>7
    <3> QED
      BY <3>1
  <2>9. v \in Seq(Shown) /\ w \in Seq(Shown) /\ ToSet(v) = ToSet(w) /\ RisesAs(v) /\ RisesAs(w)
    BY <2>2, <2>3, <2>4, <2>5, <2>6
  <2>10. \A i \in DOMAIN v : v[i] \in Shown
    BY <2>9
  <2>11. \A i \in DOMAIN w : w[i] \in Shown
    BY <2>9
  <2>12. \A i, j \in DOMAIN v : i < j => rank[v[i]] < rank[v[j]]
    BY <2>8, <2>9, <2>10 DEF RisesAs
  <2>13. \A i, j \in DOMAIN w : i < j => rank[w[i]] < rank[w[j]]
    BY <2>8, <2>9, <2>11 DEF RisesAs
  <2>14. v = w
    BY <2>9, <2>12, <2>13, SameList
  <2> QED
    BY <2>5, <2>6, <2>14
<1>2. ASSUME NEW i \in DOMAIN shown, NEW j \in DOMAIN shown, i # j PROVE shown[i].part # shown[j].part
  <2>1. i \in Nat /\ j \in Nat
    BY <1>0
  <2>2. i < j \/ j < i
    BY <1>2, <2>1
  <2>3. Before(shown[i].part, shown[j].part) \/ Before(shown[j].part, shown[i].part)
    BY <1>0, <2>2 DEF RisingShown
  <2>4. shown[i] \in Shown /\ shown[j] \in Shown
    BY <1>0
  <2>5. \A p \in Part : p.turn \in Nat /\ Place(p) \in Int
    BY TerminalAssumption DEF Part, Place
  <2>6. shown[i].part \in Part /\ shown[j].part \in Part
    BY <2>4 DEF Shown
  <2> QED
    BY <2>3, <2>5, <2>6 DEF Before
<1> QED
  BY <1>1, <1>2 DEF TextIsShown

-----------------------------------------------------------------------------
(* The spinner.  Only the task of the last turn is not over; there is none,  *)
(* and nothing spins, but while a turn waits for its first piece; and text   *)
(* on the last line is of a turn that had it.                                *)
OneSpinner ==
  \A t \in 1..Turns :
    (t < spun => tasks[t] = "over") /\ (t = spun => tasks[t] # "none") /\ (t > spun => tasks[t] = "none")

Unstarted == \A t \in 1..Turns : tasks[t] \notin {"new", "sleeping"}

StillsWithout ==
  /\ stage \notin {"turn", "raising"} => ~spinning /\ Unstarted
  /\ started => ~spinning /\ \A t \in 1..Turns : tasks[t] # "new"
  /\ spun = 0 => stage = "idle"

LineIsOf ==
  /\ line = "frame" => stage \in {"turn", "raising"} /\ ~started
  /\ line = "text" => stage \in {"turn", "raising"} /\ started

OneIf(condition) == IF condition THEN 1 ELSE 0

LostAtMost ==
  lost <= asked + OneIf(spun # 0 /\ tasks[spun] = "over") + OneIf(stage \in {"closing", "idle"})

ScreenInv == ScreenTypeOK /\ OneSpinner /\ StillsWithout /\ LineIsOf /\ LostAtMost

USE TerminalAssumption

LEMMA ScreenInitInv == ScreenInit => ScreenInv
<1> SUFFICES ASSUME ScreenInit PROVE ScreenInv
  OBVIOUS
<1>1. /\ spinning = FALSE /\ \A t \in 1..Turns : tasks[t] = "none"
      /\ spun = 0 /\ stage = "idle" /\ started = FALSE /\ line = "prompt" /\ asked = 0 /\ lost = 0
  BY DEF ScreenInit
<1>2. ScreenTypeOK
  <2>1. spinning \in BOOLEAN /\ started \in BOOLEAN
    BY <1>1 DEF ScreenInit
  <2>2. spun \in 0..Turns /\ asked \in 0..MaxAsked /\ lost \in Nat
    BY <1>1 DEF ScreenInit
  <2>3. stage \in {"idle", "turn", "approving", "raising", "closing"} /\ line \in {"empty", "frame", "text", "prompt"}
    BY <1>1 DEF ScreenInit
  <2>4. tasks \in [1..Turns -> {"none", "new", "sleeping", "stopping", "over"}]
    BY <1>1 DEF ScreenInit
  <2> QED
    BY <2>1, <2>2, <2>3, <2>4 DEF ScreenTypeOK
<1>3. OneSpinner /\ StillsWithout /\ LineIsOf
  BY <1>1 DEF OneSpinner, Unstarted, StillsWithout, LineIsOf
<1>4. LostAtMost
  BY <1>1 DEF LostAtMost, OneIf
<1> QED
  BY <1>2, <1>3, <1>4 DEF ScreenInv

(* Of the task that a turn has, stopping it leaves no more than its end.     *)
LEMMA StoppingLeaves ==
  ASSUME ScreenInv, StopSpinner
  PROVE  /\ tasks' \in [1..Turns -> {"none", "new", "sleeping", "stopping", "over"}]
         /\ \A t \in 1..Turns : tasks'[t] = Cancelled(tasks[t]) /\ tasks'[t] \notin {"new", "sleeping"}
         /\ \A t \in 1..Turns : tasks[t] \in {"none", "over"} => tasks'[t] = tasks[t]
         /\ ~spinning'
<1>1. \A t \in 1..Turns : tasks[t] \in {"none", "new", "sleeping", "stopping", "over"}
  BY DEF ScreenInv, ScreenTypeOK
<1>2. \A state \in {"none", "new", "sleeping", "stopping", "over"} :
        /\ Cancelled(state) \in {"none", "stopping", "over"}
        /\ state \in {"none", "over"} => Cancelled(state) = state
  BY DEF Cancelled
<1> QED
  BY <1>1, <1>2 DEF StopSpinner

LEMMA StartKeeps == ASSUME ScreenInv, StartSpinner PROVE ScreenInv'
<1>0. ScreenTypeOK /\ OneSpinner /\ StillsWithout
  BY DEF ScreenInv
<1>1. /\ stage = "idle" /\ spun < Turns /\ spinning' = FALSE /\ spun' = spun + 1 /\ stage' = "turn"
      /\ started' = FALSE /\ line' = "empty" /\ asked' = 0 /\ lost' = 0
  BY DEF StartSpinner
<1>2. /\ \A t \in 1..Turns : tasks'[t] = IF t = spun + 1 THEN "new" ELSE Cancelled(tasks[t])
      /\ tasks' = [t \in 1..Turns |-> tasks'[t]]
  <2> DEFINE all == [t \in 1..Turns |-> Cancelled(tasks[t])]
  <2>1. tasks' = [all EXCEPT ![spun + 1] = "new"]
    BY DEF StartSpinner
  <2> QED
    BY <2>1
<1>3. \A t \in 1..Turns : Cancelled(tasks[t]) = tasks[t] /\ tasks[t] \in {"none", "over"}
  <2>1. \A t \in 1..Turns : tasks[t] \in {"none", "over"}
    BY <1>0, <1>1 DEF ScreenTypeOK, StillsWithout, Unstarted, StartSpinner, Typed
  <2> QED
    BY <2>1 DEF Cancelled
<1>4. tasks' \in [1..Turns -> {"none", "new", "sleeping", "stopping", "over"}]
  BY <1>2, <1>3
<1>5. ScreenTypeOK'
  <2>1. spinning' \in BOOLEAN /\ started' \in BOOLEAN
    BY <1>0, <1>1, <1>4 DEF ScreenTypeOK
  <2>2. spun' \in 0..Turns /\ asked' \in 0..MaxAsked /\ lost' \in Nat
    BY <1>0, <1>1, <1>4 DEF ScreenTypeOK
  <2>3. stage' \in {"idle", "turn", "approving", "raising", "closing"} /\ line' \in {"empty", "frame", "text", "prompt"}
    BY <1>0, <1>1, <1>4 DEF ScreenTypeOK
  <2>4. tasks' \in [1..Turns -> {"none", "new", "sleeping", "stopping", "over"}]
    BY <1>0, <1>1, <1>4 DEF ScreenTypeOK
  <2> QED
    BY <2>1, <2>2, <2>3, <2>4 DEF ScreenTypeOK
<1>6. OneSpinner'
  <2>1. ASSUME NEW t \in 1..Turns
        PROVE  /\ t < spun + 1 => tasks'[t] = "over"
               /\ t = spun + 1 => tasks'[t] # "none"
               /\ t > spun + 1 => tasks'[t] = "none"
    <3>1. spun \in Nat /\ tasks[t] \in {"none", "over"} /\ tasks'[t] = IF t = spun + 1 THEN "new" ELSE tasks[t]
      BY <1>0, <1>2, <1>3 DEF ScreenTypeOK
    <3>2. CASE t < spun + 1
      BY <1>0, <3>1, <3>2 DEF OneSpinner
    <3>3. CASE t > spun + 1
      BY <1>0, <3>1, <3>3 DEF OneSpinner
    <3> QED
      BY <3>1, <3>2, <3>3
  <2> QED
    BY <1>1, <2>1 DEF OneSpinner
<1>7. StillsWithout' /\ LineIsOf' /\ LostAtMost'
  BY <1>0, <1>1 DEF StillsWithout, LineIsOf, LostAtMost, OneIf, ScreenTypeOK
<1> QED
  BY <1>5, <1>6, <1>7 DEF ScreenInv

(* Where no task is new or sleeping, a step that keeps or stops the tasks.   *)
LEMMA StopKeeps ==
  ASSUME ScreenInv, AskApproval \/ SendEnds \/ ErrorPrinted
  PROVE  ScreenInv'
<1>0. ScreenTypeOK /\ OneSpinner /\ StillsWithout /\ LineIsOf /\ LostAtMost
  BY DEF ScreenInv
<1>1. StopSpinner /\ stage \in {"turn", "approving", "raising"} /\ UNCHANGED <<spun, started>>
  BY DEF AskApproval, SendEnds, ErrorPrinted
<1>2. /\ tasks' \in [1..Turns -> {"none", "new", "sleeping", "stopping", "over"}]
      /\ \A t \in 1..Turns : tasks'[t] = Cancelled(tasks[t]) /\ tasks'[t] \notin {"new", "sleeping"}
      /\ \A t \in 1..Turns : tasks[t] \in {"none", "over"} => tasks'[t] = tasks[t]
      /\ spinning' = FALSE
  BY <1>1, StoppingLeaves DEF StopSpinner
<1>3. lost \in Nat /\ asked \in Nat /\ spun \in 1..Turns
  BY <1>0, <1>1 DEF ScreenTypeOK, StillsWithout
<1>4. /\ line' \in {"prompt", "empty"} /\ lost' \in {lost, lost + 1}
      /\ \/ asked' = asked + 1 /\ asked < MaxAsked /\ stage' = "approving"
         \/ asked' = asked /\ stage' \in {"closing", "idle"}
  BY <1>3 DEF AskApproval, SendEnds, ErrorPrinted, Writes
<1>5. ScreenTypeOK'
  <2>1. spinning' \in BOOLEAN /\ started' \in BOOLEAN
    BY <1>0, <1>1, <1>2, <1>3, <1>4 DEF ScreenTypeOK
  <2>2. spun' \in 0..Turns /\ asked' \in 0..MaxAsked /\ lost' \in Nat
    BY <1>0, <1>1, <1>2, <1>3, <1>4 DEF ScreenTypeOK
  <2>3. stage' \in {"idle", "turn", "approving", "raising", "closing"} /\ line' \in {"empty", "frame", "text", "prompt"}
    BY <1>0, <1>1, <1>2, <1>3, <1>4 DEF ScreenTypeOK
  <2>4. tasks' \in [1..Turns -> {"none", "new", "sleeping", "stopping", "over"}]
    BY <1>0, <1>1, <1>2, <1>3, <1>4 DEF ScreenTypeOK
  <2> QED
    BY <2>1, <2>2, <2>3, <2>4 DEF ScreenTypeOK
<1>6. OneSpinner'
  <2>1. \A t \in 1..Turns : tasks[t] # "none" => tasks'[t] # "none"
    BY <1>2 DEF Cancelled
  <2> QED
    BY <1>0, <1>1, <1>2, <2>1 DEF OneSpinner
<1>7. StillsWithout' /\ LineIsOf'
  BY <1>0, <1>1, <1>2, <1>3, <1>4 DEF StillsWithout, Unstarted, LineIsOf
<1>8. LostAtMost'
  <2>1. tasks[spun] = "over" => tasks'[spun] = "over"
    BY <1>2, <1>3
  <2>2. /\ lost <= asked + OneIf(tasks[spun] = "over")
        /\ OneIf(tasks[spun] = "over") <= OneIf(tasks'[spun] = "over")
        /\ OneIf(tasks[spun] = "over") \in {0, 1} /\ OneIf(tasks'[spun] = "over") \in {0, 1}
    <3>1. lost <= asked + OneIf(tasks[spun] = "over") + 0
      BY <1>0, <1>1, <1>3 DEF LostAtMost, OneIf
    <3> QED
      BY <1>3, <2>1, <3>1 DEF OneIf
  <2>3. lost' <= asked' + OneIf(tasks'[spun] = "over") + OneIf(stage' \in {"closing", "idle"})
    <3>1. OneIf(stage' \in {"closing", "idle"}) = IF asked' = asked THEN 1 ELSE 0
      BY <1>3, <1>4 DEF OneIf
    <3> QED
      BY <1>3, <1>4, <2>2, <3>1
  <2> QED
    BY <1>1, <1>3, <2>3 DEF LostAtMost
<1> QED
  BY <1>5, <1>6, <1>7, <1>8 DEF ScreenInv

LEMMA SpinKeeps ==
  ASSUME ScreenInv, NEW t \in 1..Turns, Spin(t)
  PROVE  ScreenInv'
<1>0. ScreenTypeOK /\ OneSpinner /\ StillsWithout /\ LineIsOf /\ LostAtMost
  BY DEF ScreenInv
<1>1. t = spun /\ tasks[t] # "over" /\ UNCHANGED <<spun, stage, started, asked>>
  <2>1. tasks[t] \notin {"none", "over"} /\ spun \in Nat
    BY <1>0 DEF Spin, ScreenTypeOK
  <2> QED
    BY <1>0, <2>1 DEF Spin, OneSpinner
<1>2. lost \in Nat /\ asked \in Nat
  BY <1>0 DEF ScreenTypeOK
<1>3. PICK state \in {"sleeping", "over"} : tasks' = [tasks EXCEPT ![t] = state] /\ line' \in {"frame", "empty"}
  BY DEF Spin, Writes
<1>4. /\ tasks' \in [1..Turns -> {"none", "new", "sleeping", "stopping", "over"}]
      /\ \A u \in 1..Turns : tasks'[u] = IF u = t THEN state ELSE tasks[u]
  BY <1>0, <1>3 DEF ScreenTypeOK
<1>5. OneSpinner'
  BY <1>0, <1>1, <1>3, <1>4 DEF OneSpinner, ScreenTypeOK
<1>6. CASE tasks[t] = "new" \/ (tasks[t] = "sleeping" /\ spinning)
  <2>1. Writes("frame") /\ spinning' = TRUE /\ state = "sleeping"
    BY <1>0, <1>3, <1>4, <1>6 DEF Spin, ScreenTypeOK
  <2>2. ~started /\ stage \in {"turn", "raising"}
    BY <1>0, <1>6 DEF StillsWithout, Unstarted
  <2>3. lost' = lost /\ line' = "frame"
    BY <1>0, <2>1, <2>2 DEF LineIsOf, Writes
  <2>4. ScreenTypeOK'
    BY <1>0, <1>1, <1>4, <2>1, <2>3 DEF ScreenTypeOK
  <2>5. StillsWithout' /\ LineIsOf'
    BY <1>0, <1>1, <2>2, <2>3 DEF StillsWithout, LineIsOf
  <2>6. LostAtMost'
    <3>1. lost <= asked + OneIf(spun # 0 /\ tasks[spun] = "over") + OneIf(stage \in {"closing", "idle"})
      BY <1>0 DEF LostAtMost
    <3>2. OneIf(spun # 0 /\ tasks[spun] = "over") = 0 /\ OneIf(spun # 0 /\ tasks'[spun] = "over") = 0
      BY <1>1, <1>4, <2>1 DEF OneIf
    <3> QED
      BY <1>1, <2>3, <3>1, <3>2 DEF LostAtMost
  <2> QED
    BY <1>5, <2>4, <2>5, <2>6 DEF ScreenInv
<1>7. CASE ~(tasks[t] = "new" \/ (tasks[t] = "sleeping" /\ spinning))
  <2>1. Writes("empty") /\ spinning' = spinning /\ tasks' = [tasks EXCEPT ![t] = "over"]
    BY <1>7 DEF Spin
  <2>2. \A u \in 1..Turns : tasks'[u] = IF u = t THEN "over" ELSE tasks[u]
    BY <1>0, <2>1 DEF ScreenTypeOK
  <2>3. lost' \in {lost, lost + 1} /\ line' = "empty"
    BY <2>1 DEF Writes
  <2>4. ScreenTypeOK'
    BY <1>0, <1>1, <1>2, <1>4, <2>1, <2>3 DEF ScreenTypeOK
  <2>5. StillsWithout' /\ LineIsOf'
    BY <1>0, <1>1, <2>1, <2>2, <2>3 DEF StillsWithout, Unstarted, LineIsOf
  <2>6. LostAtMost'
    <3>1. lost <= asked + OneIf(spun # 0 /\ tasks[spun] = "over") + OneIf(stage \in {"closing", "idle"})
      BY <1>0 DEF LostAtMost
    <3>2. OneIf(spun # 0 /\ tasks[spun] = "over") = 0 /\ OneIf(spun # 0 /\ tasks'[spun] = "over") = 1
      BY <1>1, <2>2 DEF OneIf
    <3>3. OneIf(stage \in {"closing", "idle"}) \in {0, 1}
      BY DEF OneIf
    <3>4. lost' <= asked + 1 + OneIf(stage \in {"closing", "idle"})
      BY <1>2, <2>3, <3>1, <3>2, <3>3
    <3> QED
      BY <1>1, <3>2, <3>4 DEF LostAtMost
  <2> QED
    BY <1>5, <2>4, <2>5, <2>6 DEF ScreenInv
<1> QED
  BY <1>6, <1>7

(* What leaves the tasks as they are.                                        *)
LEMMA ShowingKeeps ==
  ASSUME ScreenInv, PieceComes \/ PhaseComes \/ Approved \/ Closed \/ SendRaises
  PROVE  ScreenInv'
<1>0. ScreenTypeOK /\ OneSpinner /\ StillsWithout /\ LineIsOf /\ LostAtMost
  BY DEF ScreenInv
<1>1. UNCHANGED <<tasks, spun, asked>>
  BY DEF PieceComes, PhaseComes, Approved, Closed, SendRaises
<1>2. OneSpinner'
  BY <1>0, <1>1 DEF OneSpinner
<1>3. lost' = lost
  BY <1>0 DEF PieceComes, PhaseComes, Approved, Closed, SendRaises, Writes, LineIsOf, StillsWithout
<1>4. stage' \in {"closing", "idle"} <=> stage \in {"closing", "idle"}
  BY DEF PieceComes, PhaseComes, Approved, Closed, SendRaises
<1>5. LostAtMost'
  BY <1>0, <1>1, <1>3, <1>4 DEF LostAtMost, OneIf
<1>6. CASE PieceComes
  <2>1. /\ stage = "turn" /\ stage' = "turn" /\ spinning' = FALSE /\ started' = TRUE /\ line' \in {"text", "empty"}
        /\ tasks[spun] # "new"
    BY <1>0, <1>6 DEF PieceComes, ClearSpinner, StillsWithout, ScreenTypeOK
  <2>2. \A t \in 1..Turns : tasks[t] # "new"
    BY <1>0, <2>1 DEF OneSpinner, ScreenTypeOK
  <2>3. ScreenTypeOK'
    BY <1>0, <1>1, <1>3, <2>1 DEF ScreenTypeOK
  <2>4. StillsWithout' /\ LineIsOf'
    BY <1>0, <1>1, <2>1, <2>2 DEF StillsWithout, LineIsOf
  <2> QED
    BY <1>2, <1>5, <2>3, <2>4 DEF ScreenInv
<1>7. CASE PhaseComes
  <2>1. spinning /\ line' = "frame" /\ UNCHANGED <<spinning, stage, started>>
    BY <1>7 DEF PhaseComes, Writes
  <2>2. stage \in {"turn", "raising"} /\ ~started
    BY <1>0, <2>1 DEF StillsWithout
  <2>3. ScreenTypeOK'
    BY <1>0, <1>1, <1>3, <2>1 DEF ScreenTypeOK
  <2>4. StillsWithout' /\ LineIsOf'
    BY <1>0, <1>1, <2>1, <2>2 DEF StillsWithout, Unstarted, LineIsOf
  <2> QED
    BY <1>2, <1>5, <2>3, <2>4 DEF ScreenInv
<1>8. CASE Approved \/ Closed \/ SendRaises
  <2>1. /\ UNCHANGED <<spinning, started>>
        /\ \/ stage = "approving" /\ stage' = "turn" /\ line' = "empty"
           \/ stage = "closing" /\ stage' = "idle" /\ line' = "prompt"
           \/ stage = "turn" /\ stage' = "raising" /\ line' = line
    BY <1>8 DEF Approved, Closed, SendRaises
  <2>2. ScreenTypeOK'
    BY <1>0, <1>1, <1>3, <2>1 DEF ScreenTypeOK
  <2>3. StillsWithout' /\ LineIsOf'
    BY <1>0, <1>1, <2>1 DEF StillsWithout, Unstarted, LineIsOf
  <2> QED
    BY <1>2, <1>5, <2>2, <2>3 DEF ScreenInv
<1> QED
  BY <1>6, <1>7, <1>8

LEMMA ScreenStepInv == ScreenInv /\ [ScreenNext]_screenVars => ScreenInv'
<1> SUFFICES ASSUME ScreenInv, [ScreenNext]_screenVars PROVE ScreenInv'
  OBVIOUS
<1>1. CASE UNCHANGED screenVars
  BY <1>1 DEF screenVars, ScreenInv, ScreenTypeOK, OneSpinner, Unstarted, StillsWithout, LineIsOf,
              LostAtMost, OneIf
<1>2. CASE ScreenNext
  BY <1>2, StartKeeps, StopKeeps, SpinKeeps, ShowingKeeps DEF ScreenNext
<1> QED
  BY <1>1, <1>2

LEMMA ScreenInvRight == ScreenInv => ScreenTypeOK /\ ScreenIsRight
<1> SUFFICES ASSUME ScreenInv PROVE ScreenTypeOK /\ ScreenIsRight
  OBVIOUS
<1>1. lost <= asked + 2
  <2>1. lost <= asked + OneIf(spun # 0 /\ tasks[spun] = "over") + OneIf(stage \in {"closing", "idle"})
    BY DEF ScreenInv, LostAtMost
  <2>3. PICK m : m = OneIf(spun # 0 /\ tasks[spun] = "over")
    OBVIOUS
  <2>4. PICK n : n = OneIf(stage \in {"closing", "idle"})
    OBVIOUS
  <2>5. m \in {0, 1} /\ n \in {0, 1}
    BY <2>3, <2>4 DEF OneIf
  <2>6. lost <= asked + m + n
    BY <2>1, <2>3, <2>4
  <2>7. lost \in Nat /\ asked \in Nat
    BY DEF ScreenInv, ScreenTypeOK
  <2> QED
    BY <2>5, <2>6, <2>7
<1>2. stage = "idle" => ~spinning /\ \A t \in 1..Turns : tasks[t] \notin {"new", "sleeping"}
  BY DEF ScreenInv, StillsWithout, Unstarted
<1> QED
  BY <1>1, <1>2 DEF ScreenInv, LineIsOf, ScreenIsRight

HIDE TerminalAssumption

-----------------------------------------------------------------------------
(* What goes on around a turn: a run follows one aspect, and what the others *)
(* keep stays as it began.                                                   *)
TurnsInv == UsageInv /\ BudgetInv /\ FoldersInv /\ PickerInv /\ TextInv /\ ScreenInv

turnsVars == <<vars, terminalVars, screenVars, pickerVars, usageVars, budgetVars, folderVars, aspect>>

LEMMA TurnsInitInv == InitTurns => TurnsInv
BY UsageInitInv, BudgetInitInv, FoldersInitInv, PickerInitInv, TextInitInv, ScreenInitInv DEF InitTurns, TurnsInv

LEMMA TurnsSteps ==
  ASSUME [NextTurns]_turnsVars
  PROVE  /\ [UsageNext]_usageVars /\ [BudgetNext]_budgetVars /\ [FoldersNext]_folderVars
         /\ [PickerNext]_pickerVars /\ [TerminalNext]_terminalVars /\ [ScreenNext]_screenVars
<1>1. CASE UNCHANGED turnsVars
  BY <1>1 DEF turnsVars
<1>2. CASE NextTurns
  BY <1>2 DEF NextTurns, Still
<1> QED
  BY <1>1, <1>2

LEMMA TurnsInvariant == SpecTurns => []TurnsInv
<1>1. TurnsInv /\ [NextTurns]_turnsVars => TurnsInv'
  BY TurnsSteps, UsageStepInv, BudgetStepInv, FoldersStepInv, PickerStepInv, TextStepInv, ScreenStepInv DEF TurnsInv
<1> QED
  BY <1>1, TurnsInitInv, PTL DEF SpecTurns, turnsVars

(* For any number of records, turns and tokens, whatever turns are abandoned *)
(* and whenever the store is closed: each call that was recorded has its row *)
(* once; the counters never show more than the rows, and they and the bill   *)
(* of a turn are exact unless threads overlapped; the monitor's window, its  *)
(* averages, levels and advice agree; and a prompt of any chunks holds as    *)
(* many as fit its budget.                                                   *)
THEOREM UsageTheorem == SpecTurns => []UsageIsCounted
<1>1. TurnsInv => UsageIsCounted
  BY UsageInvCounts, UsageInvMonitor, BudgetInvKept
     DEF TurnsInv, UsageInv, BudgetInv, SamplesInOrder, UsageIsCounted
<1> QED
  BY <1>1, TurnsInvariant, PTL

(* For any answers, however they are cut into pieces and however the         *)
(* rendering is delayed: a turn that returns has shown every part of its     *)
(* answer once, in order and blocks as code, unless the turn before left     *)
(* something behind; no spinner writes over an answer or a prompt, whichever *)
(* task wakes when; the picker picks what it shows; and what terminals do at *)
(* the same time to an agent's folder leaves it whole.                       *)
THEOREM TerminalTheorem == SpecTurns => []TerminalIsRight
<1>1. TurnsInv => TerminalIsRight
  BY TextInvShows, ScreenInvRight, FoldersInvRight DEF TurnsInv, PickerInv, TerminalIsRight
<1> QED
  BY <1>1, TurnsInvariant, PTL
=============================================================================
