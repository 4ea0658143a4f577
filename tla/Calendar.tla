------------------------------ MODULE Calendar ------------------------------
(* The servers of setu_bridge.  The calendar: events of one user, held in    *)
(* memory by each server process and saved to one file as a whole; and       *)
(* free_slots, which merges the busy times of a day and lists the windows    *)
(* between them.  The mock mail, below.                                      *)
EXTENDS Naturals, Sequences, SequencesExt, FiniteSetsExt

CONSTANTS
  CalendarHosts,  \* processes that run the calendar server
  Dates,          \* dates of events, as they are spelled
  Padded,         \* those that create_event writes; strptime accepts months and days without their zero
  Starts,         \* start times of events, in some unit
  Lengths,        \* durations of events
  Instants,       \* times a search may begin and end at
  MaxEvents       \* bound: events created in one behaviour

ASSUME InstantsAreNumbers ==
  Padded \subseteq Dates /\ Starts \subseteq Nat /\ Lengths \subseteq Nat \ {0} /\ Instants \subseteq Nat /\ MaxEvents \in Nat

Event == [id : 1..MaxEvents, date : Dates, start : Starts, length : Lengths]

VARIABLES
  events,         \* what each server has in memory
  calendarFile,   \* the file
  created,        \* events created so far
  apart           \* history: servers that hold what the file may not have, or lack what it has

calendarVars == <<events, calendarFile, created, apart>>

CalendarInit ==
  /\ events = [s \in CalendarHosts |-> {}] /\ calendarFile = {}
  /\ created = 0 /\ apart = {}

(* _save: memory has changed already, the file follows or the save fails.    *)
(* Another process knows nothing of it.                                      *)
SaveEvents(s, after) ==
  /\ events' = [events EXCEPT ![s] = after]
  /\ \/ calendarFile' = after /\ apart' = {q \in CalendarHosts \ {s} : q \in apart \/ events[q] # after}
     \/ UNCHANGED calendarFile /\ apart' = apart \cup {s}

CreateEvent(s) ==
  /\ created < MaxEvents /\ created' = created + 1
  /\ \E d \in Padded, t \in Starts, n \in Lengths :
       SaveEvents(s, events[s] \cup {[id |-> created + 1, date |-> d, start |-> t, length |-> n]})

(* update_event stores the date as it is given.                              *)
UpdateEvent(s) ==
  /\ \E e \in events[s] :
       \/ \E d \in Dates : SaveEvents(s, (events[s] \ {e}) \cup {[e EXCEPT !.date = d]})
       \/ \E t \in Starts, n \in Lengths :
            SaveEvents(s, (events[s] \ {e}) \cup {[e EXCEPT !.start = t, !.length = n]})
  /\ UNCHANGED created

DeleteInMemory(s) ==  \* mutant
  /\ \E e \in events[s] : events' = [events EXCEPT ![s] = @ \ {e}]
  /\ UNCHANGED <<calendarFile, created, apart>>

DeleteEvent(s) ==
  /\ \E e \in events[s] : SaveEvents(s, events[s] \ {e})
  /\ UNCHANGED created

(* The process is started again and reads the file.  A file that it cannot   *)
(* read or parse is taken for an empty one, and the next save replaces it.   *)
RestartServer(s) ==
  /\ \/ events' = [events EXCEPT ![s] = calendarFile] /\ apart' = apart \ {s}
     \/ events' = [events EXCEPT ![s] = {}] /\ apart' = apart \cup {s}
  /\ UNCHANGED <<calendarFile, created>>

CalendarNext ==
  \E s \in CalendarHosts : CreateEvent(s) \/ UpdateEvent(s) \/ DeleteEvent(s) \/ RestartServer(s)

-----------------------------------------------------------------------------
(* free_slots of what server s holds.                                        *)
Ends(e) == e.start + e.length

InTime(a, b) == a[1] < b[1] \/ (a[1] = b[1] /\ a[2] =< b[2])

BusyTimes(s, date) ==
  LET times == {<<e.start, Ends(e)>> : e \in {f \in events[s] : f.date = date}}
  IN  CHOOSE q \in [1..Cardinality(times) -> times] :
        \A i, j \in DOMAIN q : i < j => q[i] # q[j] /\ InTime(q[i], q[j])

LastEnd(done, b) ==  \* mutant
  IF done # <<>> /\ b[1] =< Last(done)[2]
  THEN Append(Front(done), <<Last(done)[1], b[2]>>) ELSE Append(done, b)

(* Overlapping and touching busy times become one.                           *)
Merge(done, b) ==
  IF done # <<>> /\ b[1] =< Last(done)[2]
  THEN Append(Front(done), <<Last(done)[1], Max({Last(done)[2], b[2]})>>) ELSE Append(done, b)

Merged(busy) ==
  LET upTo[i \in 0..Len(busy)] == IF i = 0 THEN <<>> ELSE Merge(upTo[i - 1], busy[i])
  IN  upTo[Len(busy)]

(* The gaps between them that are long enough, and the one before the end.   *)
Sweep(w, b, least) ==
  [cursor |-> Max({w.cursor, b[2]}),
   free   |-> IF b[1] > w.cursor /\ b[1] >= w.cursor + least
                THEN Append(w.free, <<w.cursor, b[1]>>) ELSE w.free]

Windows(s, date, from, to, least) ==
  LET busy  == Merged(BusyTimes(s, date))
      upTo[i \in 0..Len(busy)] ==
        IF i = 0 THEN [cursor |-> from, free |-> <<>>] ELSE Sweep(upTo[i - 1], busy[i], least)
      swept == upTo[Len(busy)]
  IN  IF to >= swept.cursor + least THEN Append(swept.free, <<swept.cursor, to>>) ELSE swept.free

-----------------------------------------------------------------------------
CalendarTypeOK ==
  /\ events \in [CalendarHosts -> SUBSET Event] /\ calendarFile \in SUBSET Event
  /\ created \in 0..MaxEvents /\ apart \subseteq CalendarHosts

(* Whatever was created, moved to another time or day, stretched, nested or  *)
(* deleted, the windows of a date that a server finds are free of the events *)
(* the file has for it, which is what a restart brings back, and no stretch  *)
(* of the search that is free and long enough is missing from them.  Exempt  *)
(* are events that free_slots does not see, those of the same day in another *)
(* spelling and those that last from the day before past midnight; the part  *)
(* of a window after the end of the search, which the code adds when an      *)
(* event starts later; and servers whose last save failed or was overwritten *)
(* by another process, or that could not read the file when they began:      *)
(* these are judged by what they have in memory.                             *)
WindowsAreFree ==
  \A s \in CalendarHosts, date \in Dates, from \in Instants, to \in Instants, least \in Lengths : from < to =>
    LET known == IF s \in apart THEN events[s] ELSE calendarFile
        seen  == {e \in known : e.date = date}
        free  == ToSet(Windows(s, date, from, to, least))
    IN /\ \A w \in free : w[1] >= from /\ w[2] >= w[1] + least
       /\ \A w \in free, e \in seen : Ends(e) =< w[1] \/ w[2] =< e.start
       /\ \A t \in from..to :
            (t + least =< to /\ \A e \in seen : Ends(e) =< t \/ t + least =< e.start)
              => \E w \in free : w[1] =< t /\ t + least =< w[2]

-----------------------------------------------------------------------------
(* setu_bridge/mock_mail.py: an inbox that never grows, and one list, of a   *)
(* bounded length, that holds the drafts and what was sent as well.  Nothing *)
(* is taken out of it.  Whoever authenticates does so for all clients, until *)
(* the process is started again.  A message is its id; ids are unique.       *)

CONSTANTS
  Received,    \* the messages of the inbox
  MaxDrafts,   \* _MAX_DRAFTS
  MaxMailed    \* bound: messages made in one behaviour

ASSUME MailAssumption == MaxDrafts \in Nat /\ MaxMailed \in Nat /\ Received \cap Nat = {}

VARIABLES
  mailToken,   \* _AUTH_TOKEN is set
  drafts,      \* _DRAFTS
  seen,        \* the messages whose read is True
  mailed,      \* ids given out
  confirmed,   \* history: the messages that callers were told of, since the process began
  got          \* history: the messages that callers were given, since the process began

mailVars == <<mailToken, drafts, seen, mailed, confirmed, got>>

(* One message of the inbox is read already.                                 *)
Unread == Received \ {CHOOSE r \in Received : TRUE}

MailInit ==
  /\ mailToken = FALSE /\ drafts = <<>> /\ seen = Received \ Unread
  /\ mailed = 0 /\ confirmed = <<>> /\ got = {}

Authenticate ==
  /\ mailToken' = TRUE
  /\ UNCHANGED <<drafts, seen, mailed, confirmed, got>>

RequireAuth == mailToken

MoreThanFull == Len(drafts) > MaxDrafts  \* mutant
DraftsFull == Len(drafts) >= MaxDrafts

(* send_draft and save_draft: the record is appended, and the reply names it.*)
Compose(status) ==
  /\ RequireAuth /\ ~DraftsFull /\ mailed < MaxMailed
  /\ mailed' = mailed + 1
  /\ drafts' = Append(drafts, [id |-> mailed', status |-> status])
  /\ confirmed' = Append(confirmed, [id |-> mailed', status |-> status])
  /\ UNCHANGED <<mailToken, seen, got>>

SendDraft == Compose("sent")
SaveDraft == Compose("draft")

LetterIds(letters) == {l.id : l \in ToSet(letters)}

(* get_message: the inbox is looked through first, then the list.            *)
GetMessage ==
  /\ RequireAuth
  /\ \E id \in Received \cup LetterIds(drafts) : seen' = seen \cup {id} /\ got' = got \cup {id}
  /\ UNCHANGED <<mailToken, drafts, mailed, confirmed>>

MailRestarts ==
  /\ mailToken' = FALSE /\ drafts' = <<>> /\ seen' = Received \ Unread
  /\ confirmed' = <<>> /\ got' = {}
  /\ UNCHANGED mailed

MailNext == Authenticate \/ SendDraft \/ SaveDraft \/ GetMessage \/ MailRestarts

(* list_messages: the ids, and whether each is read.                         *)
FolderList(folder) ==
  IF folder = "drafts" THEN [i \in DOMAIN drafts |-> [id |-> drafts[i].id, read |-> drafts[i].id \in seen]]
  ELSE {[id |-> r, read |-> r \in seen] : r \in Received}

MailTypeOK ==
  /\ mailToken \in BOOLEAN /\ seen \subseteq Received \cup 1..MaxMailed /\ mailed \in 0..MaxMailed
  /\ \A l \in ToSet(drafts) : l.id \in 1..mailed /\ l.status \in {"sent", "draft"}

(* A letter that a caller was told of is listed, in the order they came, and *)
(* is unread as long as nobody was given it; the list holds no others and    *)
(* keeps to its length, with the letters that were sent counted too.         *)
MailIsKept ==
  /\ Len(drafts) =< MaxDrafts /\ drafts = confirmed
  /\ \A l \in ToSet(FolderList("drafts")) : l.read = (l.id \in got)
  /\ \A l \in FolderList("inbox") : l.read = (l.id \in got \/ l.id \notin Unread)
=============================================================================
