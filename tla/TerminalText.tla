------------------------------ MODULE TerminalText ------------------------------
(***************************************************************************)
(* What the terminal shows of a turn: ui/turn_renderer.py feeds the pieces *)
(* of the answer to ui/codeblock.py, which holds back what may belong to a *)
(* fenced block, and its text to ui/streaming.py, which renders it when 50 *)
(* milliseconds have passed.  The code block accumulator lives as long as  *)
(* the application, the streaming renderer one turn.                       *)
(* Beside the text there is the spinner of ui/messaging.py, a task that    *)
(* writes on the same line; and the model picker of commands/plan.py.      *)
(*                                                                         *)
(* What is shown is what the model streams.  The reply that send() returns *)
(* is not printed: where it is another text (of the request that follows a *)
(* broken stream, revised or corrected by the verifier, stopped after too  *)
(* many iterations, blocked), the reader has seen what was streamed before *)
(* and nothing of it.                                                      *)
(*                                                                         *)
(* A stream is a sequence of lines that are fences or not; a line has two  *)
(* parts, its text and its end, and the pieces are cut between parts.      *)
(***************************************************************************)
EXTENDS Naturals, Sequences, FiniteSets, SequencesExt, Lists

CONSTANTS
  Turns,    \* bound: turns, one after the other
  MaxLines, \* bound: lines of a stream
  MaxAsked, \* bound: approvals asked for in a turn
  Offered   \* models in the picker

ASSUME TerminalAssumption ==
  Turns \in Nat \ {0} /\ MaxLines \in Nat /\ MaxAsked \in Nat /\ Offered \in Nat

VARIABLES
  answers,  \* what reaches on_chunk in each turn: its lines, and whether the last is complete
  now,      \* the turn under way
  fed,      \* parts of it fed so far
  rest,     \* _buf: the line that has not ended
  open,     \* _in_block
  block,    \* _lines
  pending,  \* StreamingRenderer._buf
  shown,    \* what has been printed, part by part
  ends,     \* how each turn ended
  clean     \* history: turns that found the accumulator as it was made

terminalVars == <<answers, now, fed, rest, open, block, pending, shown, ends, clean>>

AnswerTexts == [lines : UNION {[1..n -> {"text", "fence"}] : n \in 0..MaxLines}, whole : BOOLEAN]
Part    == [turn : 1..Turns, line : 1..MaxLines, end : BOOLEAN]
Shown   == [part : Part, code : BOOLEAN]

TerminalTypeOK ==
  /\ answers \in [1..Turns -> AnswerTexts] /\ now \in 1 .. Turns + 1 /\ fed \in 0 .. 2 * MaxLines
  /\ rest \in Seq(Part) /\ open \in BOOLEAN /\ block \in Seq(Part)
  /\ pending \in Seq(Part) /\ shown \in Seq(Shown)
  /\ ends \in [1..Turns -> {"none", "returned", "replaced", "cancelled", "raised"}]
  /\ clean \subseteq 1..Turns

TerminalInit ==
  /\ answers \in [1..Turns -> AnswerTexts]
  /\ now = 1 /\ fed = 0 /\ rest = <<>> /\ open = FALSE /\ block = <<>>
  /\ pending = <<>> /\ shown = <<>>
  /\ ends = [t \in 1..Turns |-> "none"] /\ clean = {1}

-----------------------------------------------------------------------------
PartsOf(t) ==
  LET n == Len(answers[t].lines) IN
  [i \in 1 .. IF n > 0 /\ ~answers[t].whole THEN 2 * n - 1 ELSE 2 * n |->
     [turn |-> t, line |-> (i + 1) \div 2, end |-> i % 2 = 0]]

Kind(p) == answers[p.turn].lines[p.line]

Printed(parts, code) == [i \in DOMAIN parts |-> [part |-> parts[i], code |-> code]]

(* A complete line: the parts since the last end.  One that an earlier turn  *)
(* left unfinished is joined to the next one's first.                        *)
IsFence(line) == Len(line) = 2 /\ Kind(line[1]) = "fence"

OutOfOrder(s, line) == [s EXCEPT !.out = @ \o Printed(line, TRUE), !.open = FALSE, !.block = <<>>]  \* mutant

(* emit_raw: the text before the block first.                                *)
EmitBlock(s, lines) ==
  [s EXCEPT !.out = @ \o Printed(s.pending, FALSE) \o Printed(lines, TRUE),
            !.pending = <<>>, !.open = FALSE, !.block = <<>>]

(* _feed_line                                                                *)
FeedLine(s, line) ==
  CASE IsFence(line) /\ ~s.open -> [s EXCEPT !.open = TRUE, !.block = <<>>]
    [] IsFence(line) /\ s.open  -> EmitBlock(s, s.block)
    [] ~IsFence(line) /\ s.open -> [s EXCEPT !.block = @ \o line]
    [] OTHER -> [s EXCEPT !.pending = @ \o line]

(* feed, part by part: a line is fed when its end comes.                     *)
FeedPart(s, p) ==
  IF p.end THEN FeedLine([s EXCEPT !.rest = <<>>], Append(s.rest, p))
  ELSE [s EXCEPT !.rest = Append(@, p)]

Feed(s, parts) ==
  LET after[i \in 0..Len(parts)] == IF i = 0 THEN s ELSE FeedPart(after[i - 1], parts[i])
  IN  after[Len(parts)]

FlushNow(s) == [s EXCEPT !.out = @ \o Printed(s.pending, FALSE), !.pending = <<>>]

(* flush: a block that has lines is rendered without its closing fence.      *)
FlushBlock(s) ==
  IF s.open /\ s.block # <<>>
  THEN [EmitBlock(s, s.block \o s.rest) EXCEPT !.rest = <<>>]
  ELSE [s EXCEPT !.pending = @ \o s.rest, !.rest = <<>>]

Renderer == [rest |-> rest, open |-> open, block |-> block, pending |-> pending, out |-> shown]

Becomes(s) ==
  /\ rest' = s.rest /\ open' = s.open /\ block' = s.block
  /\ pending' = s.pending /\ shown' = s.out

(* on_chunk: some parts arrive; the throttle lets their text through or not. *)
Chunk ==
  /\ now <= Turns
  /\ \E n \in fed + 1 .. Len(PartsOf(now)) :
       LET s == Feed(Renderer, SubSeq(PartsOf(now), fed + 1, n)) IN
       /\ fed' = n
       /\ Becomes(s) \/ Becomes(FlushNow(s))
  /\ UNCHANGED <<answers, now, ends, clean>>

(* The next turn has a streaming renderer of its own.                        *)
EndTurn(how, s) ==
  /\ now <= Turns
  /\ ends' = [ends EXCEPT ![now] = how]
  /\ Becomes([s EXCEPT !.pending = <<>>])
  /\ now' = now + 1 /\ fed' = 0
  /\ clean' = IF now < Turns /\ s.rest = <<>> /\ ~s.open THEN clean \cup {now + 1} ELSE clean
  /\ UNCHANGED answers

(* send() returns what was streamed, or another reply.                       *)
TurnReturns ==
  /\ fed = Len(PartsOf(now))
  /\ \E how \in {"returned", "replaced"} : EndTurn(how, FlushNow(FlushBlock(Renderer)))

(* Ctrl-C: the text is flushed, the accumulator keeps what it has.           *)
TurnCancelled == EndTurn("cancelled", FlushNow(Renderer))

(* send() raises: an error is printed instead.                               *)
TurnRaises == EndTurn("raised", Renderer)

TerminalNext ==
  Chunk \/ (now <= Turns /\ TurnReturns) \/ TurnCancelled \/ TurnRaises

-----------------------------------------------------------------------------
Own(t) == Filter(shown, [i \in DOMAIN shown |-> shown[i].part.turn = t])

FencesBefore(t, l) == Cardinality({m \in 1 .. l - 1 : answers[t].lines[m] = "fence"})

(* The parts a reader should see of a stream, and which as code.  The last   *)
(* line counts as code if the open block has a line before it, and an        *)
(* unfinished fence is text.                                                 *)
Visible(t) ==
  LET last == Len(answers[t].lines)
      Unfinished(l) == l = last /\ ~answers[t].whole
      Code(l) ==
        /\ FencesBefore(t, l) % 2 = 1
        /\ Unfinished(l) => answers[t].lines[l - 1] = "text"
      Seen(p) == Kind(p) = "text" \/ Unfinished(p.line)
      parts == Filter(PartsOf(t), [i \in DOMAIN PartsOf(t) |-> Seen(PartsOf(t)[i])])
  IN  [i \in DOMAIN parts |-> [part |-> parts[i], code |-> Code(parts[i].line)]]

(* However a stream is cut into pieces and however its rendering is delayed, *)
(* a turn that returns has shown every part that was streamed once, in       *)
(* order, blocks as code: the answer, if it is what was streamed, or else    *)
(* the text it replaces.  Unless the turn before left a block or a line in   *)
(* the accumulator, as one that is cancelled, raises or ends just after an   *)
(* opening fence does.  Nothing is ever shown twice.                         *)
TextIsShown ==
  /\ \A t \in 1..Turns : ends[t] \in {"returned", "replaced"} /\ t \in clean => Own(t) = Visible(t)
  /\ \A i, j \in DOMAIN shown : i # j => shown[i].part # shown[j].part

-----------------------------------------------------------------------------
(* The spinner: each turn starts a task, which writes a frame on the current *)
(* line every 100 milliseconds, until _active is reset or it is cancelled,   *)
(* and clears the line when it ends.                                         *)
VARIABLES
  spinning, \* SpinnerManager._active
  tasks,    \* the task of each turn
  spun,     \* turns begun: _task is the last one's
  stage,    \* what the turn under way is doing
  started,  \* its first piece has come
  line,     \* what is on the last line of the screen
  asked,    \* approvals it has asked for
  lost      \* history: unfinished lines of its answer that were erased

screenVars == <<spinning, tasks, spun, stage, started, line, asked, lost>>

ScreenTypeOK ==
  /\ spinning \in BOOLEAN /\ spun \in 0..Turns /\ started \in BOOLEAN
  /\ tasks \in [1..Turns -> {"none", "new", "sleeping", "stopping", "over"}]
  /\ stage \in {"idle", "turn", "approving", "raising", "closing"}
  /\ line \in {"empty", "frame", "text", "prompt"} /\ asked \in 0..MaxAsked /\ lost \in Nat

ScreenInit ==
  /\ spinning = FALSE /\ tasks = [t \in 1..Turns |-> "none"] /\ spun = 0
  /\ stage = "idle" /\ started = FALSE /\ line = "prompt" /\ asked = 0 /\ lost = 0

Writes(what) == line' = what /\ lost' = IF line = "text" THEN lost + 1 ELSE lost

(* A task that has not begun is cancelled without a trace.                   *)
Cancelled(state) ==
  CASE state = "new" -> "over" [] state = "sleeping" -> "stopping" [] OTHER -> state

StopSpinner == spinning' = FALSE /\ tasks' = [t \in 1..Turns |-> Cancelled(tasks[t])]

(* What a person has typed comes after the loop has run what was cancelled.  *)
Typed == \A t \in 1..Turns : tasks[t] # "stopping"

StartSpinner ==
  /\ stage = "idle" /\ spun < Turns /\ Typed
  /\ spinning' = FALSE
  /\ tasks' = [[t \in 1..Turns |-> Cancelled(tasks[t])] EXCEPT ![spun + 1] = "new"]
  /\ spun' = spun + 1 /\ stage' = "turn" /\ started' = FALSE
  /\ line' = "empty" /\ asked' = 0 /\ lost' = 0

Spin(t) ==
  /\ tasks[t] \in {"new", "sleeping", "stopping"}
  /\ IF tasks[t] = "new" \/ (tasks[t] = "sleeping" /\ spinning)
     THEN Writes("frame") /\ spinning' = TRUE /\ tasks' = [tasks EXCEPT ![t] = "sleeping"]
     ELSE Writes("empty") /\ tasks' = [tasks EXCEPT ![t] = "over"] /\ UNCHANGED spinning
  /\ UNCHANGED <<spun, stage, started, asked>>

LeftSpinning == UNCHANGED spinning  \* mutant

(* clear: the task is left to see that it is over, up to 100 milliseconds    *)
(* later, and to clear the line once more.                                   *)
ClearSpinner == spinning' = FALSE

(* What comes from the model comes after the loop has run the new task.      *)
PieceComes ==
  /\ stage = "turn" /\ tasks[spun] # "new"
  /\ IF started THEN UNCHANGED spinning ELSE ClearSpinner
  /\ started' = TRUE /\ line' \in {"text", "empty"}
  /\ UNCHANGED <<tasks, spun, stage, asked, lost>>

(* A phase or a log of the bus: the status, redrawn if the spinner is active.*)
PhaseComes ==
  /\ stage \in {"turn", "approving", "raising"} /\ spinning
  /\ Writes("frame")
  /\ UNCHANGED <<spinning, tasks, spun, stage, started, asked>>

AskApproval ==
  /\ stage = "turn" /\ tasks[spun] # "new" /\ asked < MaxAsked
  /\ StopSpinner /\ Writes("prompt")
  /\ asked' = asked + 1 /\ stage' = "approving"
  /\ UNCHANGED <<spun, started>>

Approved ==
  /\ stage = "approving" /\ Typed /\ stage' = "turn" /\ line' = "empty"
  /\ UNCHANGED <<spinning, tasks, spun, started, asked, lost>>

(* send() returns, or the turn is cancelled; then the bus is read to its end.*)
SendEnds ==
  /\ stage \in {"turn", "approving"} /\ StopSpinner /\ Writes("empty")
  /\ stage' = "closing" /\ UNCHANGED <<spun, started, asked>>

Closed ==
  /\ stage = "closing" /\ tasks[spun] # "stopping"
  /\ stage' = "idle" /\ line' = "prompt"
  /\ UNCHANGED <<spinning, tasks, spun, started, asked, lost>>

(* send() raises: the bus first, up to two seconds, then the spinner.        *)
SendRaises ==
  /\ stage = "turn" /\ stage' = "raising"
  /\ UNCHANGED <<spinning, tasks, spun, started, line, asked, lost>>

ErrorPrinted ==
  /\ stage = "raising" /\ StopSpinner
  /\ stage' = "idle" /\ line' = "prompt" /\ lost' = IF line = "text" THEN lost + 1 ELSE lost
  /\ UNCHANGED <<spun, started, asked>>

ScreenNext ==
  \/ StartSpinner \/ PieceComes \/ PhaseComes \/ AskApproval \/ Approved
  \/ SendEnds \/ Closed \/ SendRaises \/ ErrorPrinted
  \/ \E t \in 1..Turns : Spin(t)

(* No frame is drawn over the answer or over a prompt, whichever task wakes  *)
(* when; at the prompt no task of the spinner is left but one that ends at   *)
(* once; and of an answer at most the unfinished lines are erased that stood *)
(* when the task ended, when an approval was asked for and when the turn     *)
(* ended: text of the last line is lost so, which the code allows.           *)
ScreenIsRight ==
  /\ line = "frame" => stage \in {"turn", "raising"} /\ ~started
  /\ stage = "idle" => ~spinning /\ \A t \in 1..Turns : tasks[t] \notin {"new", "sleeping"}
  /\ lost <= asked + 2

-----------------------------------------------------------------------------
(* The model picker: the text searched for selects some of the models, kept  *)
(* in their order; the keys move a mark among them.                          *)
VARIABLES
  found,    \* _filtered(): the models that match the search text
  marked,   \* selected_idx
  picker,   \* open, or how it was left
  picked    \* result, 0 for None

pickerVars == <<found, marked, picker, picked>>

InOrder(models) == Filter([m \in 1..Offered |-> m], [m \in 1..Offered |-> m \in models])

PickerTypeOK ==
  /\ found \in {InOrder(ms) : ms \in SUBSET (1..Offered)} /\ marked \in Nat
  /\ picker \in {"open", "entered", "cancelled"} /\ picked \in 0..Offered

PickerInit ==
  found = InOrder(1..Offered) /\ marked = 0 /\ picker = "open" /\ picked = 0

MarkKept(models) == marked  \* mutant

(* on_search_changed                                                         *)
MarkFor(models) == 0

SearchFor(models) ==
  /\ picker = "open" /\ found' = InOrder(models) /\ marked' = MarkFor(models)
  /\ UNCHANGED <<picker, picked>>

MoveUp ==
  /\ picker = "open" /\ found # <<>>
  /\ marked' = (marked + Len(found) - 1) % Len(found)
  /\ UNCHANGED <<found, picker, picked>>

MoveDown ==
  /\ picker = "open" /\ found # <<>>
  /\ marked' = (marked + 1) % Len(found)
  /\ UNCHANGED <<found, picker, picked>>

Confirm ==
  /\ picker = "open" /\ picker' = "entered"
  /\ picked' = IF marked < Len(found) THEN found[marked + 1] ELSE picked
  /\ UNCHANGED <<found, marked>>

CancelPicker == picker = "open" /\ picker' = "cancelled" /\ UNCHANGED <<found, marked, picked>>

PickerNext ==
  \/ \E models \in SUBSET (1..Offered) : SearchFor(models)
  \/ MoveUp \/ MoveDown \/ Confirm \/ CancelPicker

(* However the search narrows the list after the mark has moved, one row is  *)
(* marked as long as there are rows, so that Enter picks a model that is     *)
(* shown; and nothing is picked otherwise.                                   *)
PickIsShown ==
  /\ picker = "open" /\ found # <<>> => marked < Len(found)
  /\ picker = "entered" /\ found # <<>> => picked \in ToSet(found)
  /\ picker # "entered" \/ found = <<>> => picked = 0
=============================================================================
