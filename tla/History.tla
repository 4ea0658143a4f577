-------------------------------- MODULE History --------------------------------
(***************************************************************************)
(* mcp_cli/services/history.py over sqlite_store.py, with the commands of  *)
(* session_manager.py and the routes of sessions.py that change sessions:  *)
(* one table of messages, which every chat opens with a connection of its  *)
(* own.  A method runs in a thread; a step is one statement or             *)
(* transaction of it.  Under which id a chat saves, and what it remembers, *)
(* is in ChatPool: here a turn of any chat may have any session.           *)
(***************************************************************************)
EXTENDS Naturals, FiniteSets, FiniteSetsExt

CONSTANTS
  Chats, Sessions, \* chats, and the ids that sessions may have
  MaxSessions,     \* max_sessions
  MaxUndone,       \* bound: messages that one undo removes
  MaxSaved         \* bound: messages saved

ASSUME HistoryAssumption == MaxSessions \in Nat /\ MaxUndone \in Nat /\ MaxSaved \in Nat

VARIABLES
  saved,    \* the table: id, timestamp, session, and the timestamp of the exchange's question
  clock,    \* ids given, and the time: it passes when a message is saved
  asking,   \* the turn each chat is in (none or one): its session, when its question was saved
  saving,   \* messages on their way; late: nobody waits for them any more
  doomed,   \* sessions that the chat's prune has selected to delete
  due,      \* history: sessions outrun by MaxSessions others when doomed was selected
  broken    \* history: exchanges taken apart by a request while they were made

historyVars == <<saved, clock, asking, saving, doomed, due, broken>>

Times    == 0..MaxSaved
Messages == [id : Times \ {0}, at : Times \ {0}, session : Sessions, asked : Times \ {0}]

HistoryTypeOK ==
  /\ saved \subseteq Messages /\ clock \in Times
  /\ \A m, n \in saved : m.id = n.id => m = n
  /\ asking \in [Chats -> SUBSET [session : Sessions, asked : Times]]
  /\ saving \subseteq [chat : Chats, session : Sessions, asked : Times, late : BOOLEAN]
  /\ doomed \in [Chats -> SUBSET Sessions] /\ due \in [Chats -> SUBSET Sessions]
  /\ broken \subseteq Times

HistoryInit ==
  /\ saved = {} /\ clock = 0 /\ asking = [c \in Chats |-> {}] /\ saving = {}
  /\ doomed = [c \in Chats |-> {}] /\ due = [c \in Chats |-> {}]
  /\ broken = {}

Of(s) == {m \in saved : m.session = s}

(* Exchanges that may still get an answer: their turn goes on, or one is on  *)
(* its way.                                                                  *)
Unfinished == {t.asked : t \in UNION {asking[c] : c \in Chats}} \cup {w.asked : w \in saving}

Questions(messages) == {m.asked : m \in {n \in messages : n.at = n.asked}}

Breaks(messages) == broken' = broken \cup (Questions(messages) \cap Unfinished)

-----------------------------------------------------------------------------
(* A turn saves the question, and then each message of the model; it goes on *)
(* when the thread has saved it, and pruned.                                 *)
Own(c)     == {w \in saving : w.chat = c /\ ~w.late}
Waiting(c) == Own(c) # {} \/ doomed[c] # {}

Save(c, t) == saving' = saving \cup {[chat |-> c, session |-> t.session, asked |-> t.asked, late |-> FALSE]}

SaveQuestion(c, s) ==
  /\ asking[c] = {} /\ clock < MaxSaved
  /\ \E t \in {[session |-> s, asked |-> 0]} : asking' = [asking EXCEPT ![c] = {t}] /\ Save(c, t)
  /\ UNCHANGED <<saved, clock, doomed, due, broken>>

SaveAnswer(c) ==
  /\ ~Waiting(c) /\ \E t \in asking[c] : Save(c, t)
  /\ UNCHANGED <<saved, clock, asking, doomed, due, broken>>

EndTurn(c) ==
  /\ asking[c] # {} /\ ~Waiting(c) /\ asking' = [asking EXCEPT ![c] = {}]
  /\ UNCHANGED <<saved, clock, saving, doomed, due, broken>>

(* The database stays busy, or the turn is cancelled: what waits for a       *)
(* thread is cancelled with it, what a thread has begun it does.             *)
CutShort(c) ==
  /\ asking[c] # {} /\ Waiting(c) /\ asking' = [asking EXCEPT ![c] = {}]
  /\ \E begun \in {{}, IF \E w \in saving : w.late THEN {} ELSE Own(c)} :
       saving' = (saving \ Own(c)) \cup {[w EXCEPT !.late = TRUE] : w \in begun}
  /\ UNCHANGED <<saved, clock, doomed, due, broken>>

Named(messages)     == {m.session : m \in messages}
Newest(s, messages) == Max({m.at : m \in {n \in messages : n.session = s}})

(* _prune_old_sessions: all but MaxSessions sessions, those that were active *)
(* last; which is not settled when two end with one instant, as a session    *)
(* and its fork do.                                                          *)
Outdated(messages) ==
  LET names == Named(messages)
  IN  {old \in SUBSET names :
         /\ old # {} /\ Cardinality(names \ old) = MaxSessions
         /\ \A s \in old, r \in names \ old : Newest(s, messages) <= Newest(r, messages)}

(* Sessions that MaxSessions others have outrun, or drawn level with.        *)
Outrun(messages) ==
  {s \in Named(messages) : MaxSessions <=
     Cardinality({r \in Named(messages) \ {s} : Newest(s, messages) <= Newest(r, messages)})}

(* save_message, in its thread, behind the chat's lock.  Every hundredth of  *)
(* a chat selects sessions to prune: here any may.                           *)
Written(w) ==
  /\ w \in saving /\ doomed[w.chat] = {} /\ clock < MaxSaved
  /\ clock' = clock + 1 /\ saving' = saving \ {w}
  /\ LET question == IF w.asked = 0 THEN clock' ELSE w.asked
     IN  /\ saved' = saved \cup {[id |-> clock', at |-> clock', session |-> w.session, asked |-> question]}
         /\ asking' = IF w.late THEN asking
                      ELSE [asking EXCEPT ![w.chat] = {[session |-> w.session, asked |-> question]}]
  /\ \/ UNCHANGED <<doomed, due>>
     \/ \E old \in Outdated(saved') :
          doomed' = [doomed EXCEPT ![w.chat] = old] /\ due' = [due EXCEPT ![w.chat] = Outrun(saved')]
  /\ UNCHANGED broken

(* The selected sessions are deleted, with what was saved in them since.     *)
DeleteOutdated(c) ==
  /\ doomed[c] # {} /\ doomed' = [doomed EXCEPT ![c] = {}] /\ due' = [due EXCEPT ![c] = {}]
  /\ saved' = {m \in saved : m.session \notin doomed[c]}
  /\ Breaks({m \in saved : m.session \in doomed[c] \cap due[c]})
  /\ UNCHANGED <<clock, asking, saving>>

-----------------------------------------------------------------------------
(* Renamed to a name in use, two sessions become one.                        *)
RenameSession(s, t) ==
  /\ s # t /\ Of(s) # {} /\ Breaks(Of(s))
  /\ saved' = (saved \ Of(s)) \cup {[m EXCEPT !.session = t] : m \in Of(s)}
  /\ UNCHANGED <<clock, asking, saving, doomed, due>>

DeleteSession(s) ==
  /\ Of(s) # {} /\ Breaks(Of(s)) /\ saved' = saved \ Of(s)
  /\ UNCHANGED <<clock, asking, saving, doomed, due>>

(* undo: the last messages are selected, and deleted by their ids, in one    *)
(* step: what is saved between the two statements is not undone.             *)
FirstOnes(s, n) ==  \* mutant
  {first \in SUBSET Of(s) : Cardinality(first) = n /\ \A m \in first, o \in Of(s) \ first : m.at <= o.at}

LastOnes(s, n) ==
  {last \in SUBSET Of(s) : Cardinality(last) = n /\ \A m \in last, o \in Of(s) \ last : m.at >= o.at}

Undo(s) ==
  /\ \E n \in 1..MaxUndone : \E last \in LastOnes(s, n) :
       saved' = saved \ last /\ Breaks(last)
  /\ UNCHANGED <<clock, asking, saving, doomed, due>>

(* fork: the messages of a session are inserted again, with their            *)
(* timestamps, under a name with the time of day in it.                      *)
Rank(m) == Cardinality({o \in Of(m.session) : o.at < m.at \/ (o.at = m.at /\ o.id <= m.id)})

Fork(s, t) ==
  /\ Of(s) # {} /\ Of(t) = {} /\ clock + Cardinality(Of(s)) <= MaxSaved
  /\ clock' = clock + Cardinality(Of(s))
  /\ saved' = saved \cup {[m EXCEPT !.session = t, !.id = clock + Rank(m)] : m \in Of(s)}
  /\ UNCHANGED <<asking, saving, doomed, due, broken>>

HistoryNext ==
  \/ \E c \in Chats : SaveAnswer(c) \/ EndTurn(c) \/ CutShort(c) \/ DeleteOutdated(c)
  \/ \E c \in Chats, s \in Sessions : SaveQuestion(c, s)
  \/ \E w \in saving : Written(w)
  \/ \E s \in Sessions : DeleteSession(s) \/ Undo(s)
  \/ \E s, t \in Sessions : RenameSession(s, t) \/ Fork(s, t)

HistorySpec == HistoryInit /\ [][HistoryNext]_historyVars

-----------------------------------------------------------------------------
(* Every answer that is kept has its question, in the same session and       *)
(* before it: whatever is pruned, undone, forked, merged or saved late by a  *)
(* thread, unless somebody took the exchange apart while it was made.        *)
AnswersHaveQuestions ==
  \A m \in saved : m.asked \notin broken =>
    \E q \in saved : q.session = m.session /\ q.at = m.asked /\ q.asked = m.asked
=============================================================================
