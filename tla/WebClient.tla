------------------------------ MODULE WebClient ------------------------------
(***************************************************************************)
(* The chat of the web client, canvas_app/frontend/src: hooks/useChat.js   *)
(* and context/ChatContext.jsx.  What it shows is the answer to the last   *)
(* load of a conversation's messages; a load follows every change of the   *)
(* active conversation and every turn.  Between a request and its answer   *)
(* the user goes on clicking, and answers come in any order.               *)
(*                                                                         *)
(* A turn saves the user's message when it starts and the assistant's when *)
(* it ends (TurnPipeline); a conversation is its number of messages.       *)
(***************************************************************************)
EXTENDS Naturals, FiniteSets

CONSTANTS
  Conversations,
  NoConversation,
  Known,      \* the conversations of the list at the start
  MaxSends,   \* bound: messages sent
  MaxLoads    \* bound: loads of messages

ASSUME ClientAssumption ==
  /\ NoConversation \notin Conversations /\ Known \subseteq Conversations
  /\ MaxSends \in Nat /\ MaxLoads \in Nat

Sends == 1..MaxSends
Loads == 1..MaxLoads

VARIABLES
  active,    \* activeConversation
  view,      \* messages: whose, how many, and whether changed by hand since
  streaming, \* the flag that locks the composer
  latest,    \* streamRef: the stream stop() cancels, 0 for none
  sends,     \* each send: its conversation and how far it is
  loads,     \* each load, in the order they were issued
  saved,     \* the server: messages of each conversation, {} when there is none
  opening,   \* conversations being created by the "new" button
  \* History:
  newest,    \* the last load whose answer was shown
  moved,     \* the user has come to this conversation with something under way
  crossed    \* since all was quiet, a turn was stopped, cut off, or started beside another

clientVars == <<active, view, streaming, latest, sends, loads, saved, opening, newest, moved, crossed>>

Places == Conversations \cup {NoConversation}
Counts == 0..2 * MaxSends

SendStates == {"free", "creating", "streaming", "saved", "answered", "untaken", "cut", "over"}
LoadStates == {"free", "asked", "read", "shown", "failed"}

ClientTypeOK ==
  /\ active \in Places
  /\ view \in [of : Places, count : Counts, local : BOOLEAN]
  /\ streaming \in BOOLEAN /\ latest \in Sends \cup {0}
  /\ sends \in [Sends -> [conv : Places, state : SendStates]]
  /\ loads \in [Loads -> [conv : Places, state : LoadStates, count : Counts]]
  /\ saved \in [Conversations -> SUBSET Counts] /\ opening \in 0..1
  /\ newest \in Loads \cup {0} /\ moved \in BOOLEAN /\ crossed \in BOOLEAN

NoSend == [conv |-> NoConversation, state |-> "free"]
NoLoad == [conv |-> NoConversation, state |-> "free", count |-> 0]

ClientInit ==
  /\ active = NoConversation
  /\ view = [of |-> NoConversation, count |-> 0, local |-> FALSE]
  /\ streaming = FALSE /\ latest = 0
  /\ sends = [s \in Sends |-> NoSend] /\ loads = [l \in Loads |-> NoLoad]
  /\ saved = [c \in Conversations |-> IF c \in Known THEN {0} ELSE {}]
  /\ opening = 0 /\ newest = 0 /\ moved = FALSE /\ crossed = FALSE

-----------------------------------------------------------------------------
Exists(c) == saved[c] # {}
Count(c)  == CHOOSE n \in saved[c] : TRUE

Open  == {s \in Sends : sends[s].state \in {"streaming", "saved", "answered"}}
Quiet ==
  /\ \A s \in Sends : sends[s].state \in {"free", "over"}
  /\ \A l \in Loads : loads[l].state \notin {"asked", "read"}

Issued(l, c) == [loads EXCEPT ![l] = [conv |-> c, state |-> "asked", count |-> 0]]
FreeLoads == {l \in Loads : loads[l].state = "free"}
NextLoad  == CHOOSE l \in FreeLoads : \A k \in FreeLoads : l <= k
FreeSends == {s \in Sends : sends[s].state = "free"}
NextSend  == CHOOSE s \in FreeSends : \A k \in FreeSends : s <= k

(* loadMessages: without a conversation the view is emptied at once.         *)
Load(c) ==
  IF c = NoConversation
  THEN view' = [of |-> NoConversation, count |-> 0, local |-> FALSE] /\ UNCHANGED loads
  ELSE FreeLoads # {} /\ loads' = Issued(NextLoad, c) /\ UNCHANGED view

(* The effect of a new active conversation loads it; none leaves the view.   *)
Activate(c) ==
  /\ active' = c
  /\ IF c = active THEN UNCHANGED <<moved, crossed>>
     ELSE moved' = ~Quiet /\ crossed' = (crossed /\ ~Quiet)
  /\ IF c \in {active, NoConversation} THEN UNCHANGED loads
     ELSE FreeLoads # {} /\ loads' = Issued(NextLoad, c)

Select(c) ==
  /\ Exists(c) /\ c # active /\ Activate(c)
  /\ UNCHANGED <<view, streaming, latest, sends, saved, opening, newest>>

(* The button asks the server for a conversation, and shows it when it comes.*)
AskNew ==
  /\ opening = 0 /\ opening' = 1
  /\ UNCHANGED <<active, view, streaming, latest, sends, loads, saved, newest, moved, crossed>>

Fresh == {c \in Conversations \ Known : ~Exists(c) /\ \A s \in Sends : sends[s].conv # c}

ShowNew ==
  /\ opening = 1 /\ opening' = 0
  /\ \E c \in Fresh : saved' = [saved EXCEPT ![c] = {0}] /\ Activate(c)
  /\ UNCHANGED <<view, streaming, latest, sends, newest>>

(* Deleting: the active conversation goes with its entry, its messages stay  *)
(* on the screen.  The request and its answer are one step.                  *)
Delete(c) ==
  /\ Exists(c)
  /\ saved' = [saved EXCEPT ![c] = {}]
  /\ Activate(IF active = c THEN NoConversation ELSE active)
  /\ UNCHANGED <<view, streaming, latest, sends, opening, newest>>

-----------------------------------------------------------------------------
(* runStream: the composer is locked and the message shown before it is sent.*)
Stream(s, c) ==
  /\ sends' = [sends EXCEPT ![s] = [conv |-> c, state |-> "streaming"]]
  /\ streaming' = TRUE /\ latest' = s
  /\ view' = [view EXCEPT !.local = TRUE]
  /\ crossed' = (crossed \/ Open # {})

(* handleSend: without a conversation one is created first, and the composer *)
(* is not locked meanwhile.                                                  *)
Send ==
  /\ ~streaming /\ FreeSends # {}
  /\ IF active # NoConversation THEN Stream(NextSend, active)
     ELSE /\ sends' = [sends EXCEPT ![NextSend].state = "creating"]
          /\ UNCHANGED <<streaming, latest, view, crossed>>
  /\ UNCHANGED <<active, loads, saved, opening, newest, moved>>

(* Retry and edit change the view by hand and do not look at the flag.       *)
Resend ==
  /\ active # NoConversation /\ FreeSends # {} /\ Stream(NextSend, active)
  /\ UNCHANGED <<active, loads, saved, opening, newest, moved>>

(* send returns at once if there is no text, only pictures.                  *)
SendsNothing(s, c) ==
  /\ sends' = [sends EXCEPT ![s] = [conv |-> c, state |-> "over"]]
  /\ UNCHANGED <<streaming, latest, view, crossed>>

Created(s) ==
  /\ sends[s].state = "creating"
  /\ \E c \in Fresh :
       /\ saved' = [saved EXCEPT ![c] = {0}]
       /\ active' = c /\ FreeLoads # {} /\ loads' = Issued(NextLoad, c)
       /\ Stream(s, c) \/ SendsNothing(s, c)
  /\ moved' = (moved \/ active # NoConversation \/ \E r \in Sends \ {s} : sends[r].state = "creating")
  /\ UNCHANGED <<opening, newest>>

Save(s, from, to) ==
  /\ sends[s].state = from
  /\ sends' = [sends EXCEPT ![s].state = to]
  /\ LET c == sends[s].conv IN
       saved' = [saved EXCEPT ![c] = {n + 1 : n \in @}]
  /\ UNCHANGED <<active, view, streaming, latest, loads, opening, newest, moved, crossed>>

TakeMessage(s) == Save(s, "streaming", "saved")
AnswerIt(s)    == Save(s, "saved", "answered")

Forgotten(s) == NoConversation  \* mutant

(* send()'s conversation, given by its caller: the closure may know none.    *)
SentTo(s) == sends[s].conv

(* The stream ends, with the answer or with an error of the server's.        *)
EndStream(s) ==
  /\ s \in Open
  /\ sends' = [sends EXCEPT ![s].state = "over"]
  /\ streaming' = FALSE
  /\ Load(SentTo(s))
  /\ UNCHANGED <<active, latest, saved, opening, newest, moved, crossed>>

(* The client no longer reads a stream; the server may or may not go on with *)
(* the turn.                                                                 *)
Left(state) == IF state = "streaming" THEN "untaken" ELSE IF state = "saved" THEN "cut" ELSE "over"

CutOff(s) ==
  /\ s \in Open
  /\ sends' = [sends EXCEPT ![s].state = Left(@)]
  /\ streaming' = FALSE /\ crossed' = TRUE
  /\ Load(SentTo(s))
  /\ UNCHANGED <<active, saved, opening, newest, moved>>

(* The connection breaks; or stop() aborts the latest stream, and send()     *)
(* goes on behind it and loads.                                              *)
BreakOff(s) == CutOff(s) /\ UNCHANGED latest
Stop        == latest # 0 /\ CutOff(latest) /\ latest' = 0

LateMessage(s) == Save(s, "untaken", "cut")
LateAnswer(s)  == Save(s, "cut", "over")

Dropped(s) ==
  /\ sends[s].state \in {"untaken", "cut"}
  /\ sends' = [sends EXCEPT ![s].state = "over"]
  /\ UNCHANGED <<active, view, streaming, latest, loads, saved, opening, newest, moved, crossed>>

-----------------------------------------------------------------------------
Reply(l) ==
  /\ loads[l].state = "asked"
  /\ loads' = [loads EXCEPT ![l].state = "read",
                            ![l].count = IF Exists(loads[l].conv) THEN Count(loads[l].conv) ELSE 0]
  /\ UNCHANGED <<active, view, streaming, latest, sends, saved, opening, newest, moved, crossed>>

(* An answer is shown when it comes, for whatever conversation it is.        *)
Show(l) ==
  /\ loads[l].state = "read"
  /\ view' = [of |-> loads[l].conv, count |-> loads[l].count, local |-> FALSE]
  /\ loads' = [loads EXCEPT ![l].state = "shown"]
  /\ newest' = l
  /\ UNCHANGED <<active, streaming, latest, sends, saved, opening, moved, crossed>>

LoadFails(l) ==
  /\ loads[l].state \in {"asked", "read"}
  /\ loads' = [loads EXCEPT ![l].state = "failed"]
  /\ UNCHANGED <<active, view, streaming, latest, sends, saved, opening, newest, moved, crossed>>

(* Deleting a message and undoing it change the view only.                   *)
ByHand ==
  /\ active # NoConversation /\ ~view.local
  /\ view' = [view EXCEPT !.local = TRUE]
  /\ UNCHANGED <<active, streaming, latest, sends, loads, saved, opening, newest, moved, crossed>>

ClientNext ==
  \/ \E c \in Conversations : Select(c) \/ Delete(c)
  \/ AskNew \/ ShowNew \/ Send \/ Resend \/ Stop \/ ByHand
  \/ \E s \in Sends :
       \/ Created(s) \/ TakeMessage(s) \/ AnswerIt(s) \/ EndStream(s) \/ BreakOff(s)
       \/ LateMessage(s) \/ LateAnswer(s) \/ Dropped(s)
  \/ \E l \in Loads : Reply(l) \/ Show(l) \/ LoadFails(l)

-----------------------------------------------------------------------------
LastLoad == IF FreeLoads = Loads THEN 0 ELSE CHOOSE l \in Loads \ FreeLoads : \A k \in Loads \ FreeLoads : k <= l

(* With nothing under way the screen shows the active conversation as the    *)
(* server has it.  What can spoil it: the user came to it while a turn or a  *)
(* load was under way, or a turn was stopped, cut off or crossed another     *)
(* since all was quiet; the last answer shown is not that of the last load;  *)
(* or the view was changed by hand since.                                    *)
ViewIsRight ==
  Quiet /\ ~moved /\ ~crossed /\ ~view.local /\ active # NoConversation /\ newest = LastLoad
    => view.of = active /\ Exists(active) /\ view.count = Count(active)

(* The composer is locked exactly while a turn is streamed, unless two are.  *)
ComposerIsRight == ~crossed => (streaming <=> Open # {})
=============================================================================
