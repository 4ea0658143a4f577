------------------------------ MODULE ClientPage ------------------------------
(***************************************************************************)
(* What the web client's page does around a conversation.                  *)
(*                                                                         *)
(* apiStream of canvas_app/frontend/src/api/client.js: the events of a     *)
(* streamed answer, one JSON text per line, out of the pieces in which the *)
(* network hands them over.  A text is a sequence of characters of three   *)
(* kinds: part of an event, part of something that does not parse, and the *)
(* end of a line.                                                          *)
(*                                                                         *)
(* components/Chat/WindowedMessageList.jsx: the last messages, and more of *)
(* the older ones when the user scrolls up.  Heights and places of the     *)
(* scrolled container are counted in messages; a step is an event with the *)
(* renders and effects it leads to.                                        *)
(*                                                                         *)
(* context/ChatContext.jsx: the list of conversations, a page at a time,   *)
(* while they are used, renamed and deleted here and elsewhere.            *)
(*                                                                         *)
(* components/Composer/Composer.jsx: the pictures that are pasted, dropped *)
(* or chosen, which are read while the user goes on.                       *)
(***************************************************************************)
EXTENDS Naturals, FiniteSets, SequencesExt, Lists

CONSTANTS
  MaxText,     \* bound: characters of an answer
  WindowSize,  \* WINDOW_SIZE: 100
  OlderChunk,  \* OLDER_CHUNK_SIZE: 50
  MaxListed,   \* bound: messages of a conversation
  Page,        \* LIMIT: 50
  MaxRows,     \* bound: conversations
  MaxUses,     \* bound: changes of the server's list
  Pictures     \* files attached to messages

ASSUME PageAssumption ==
  /\ MaxText \in Nat /\ MaxListed \in Nat
  /\ WindowSize \in Nat \ {0, 1} /\ OlderChunk \in Nat \ {0}
  /\ Page \in Nat \ {0} /\ MaxRows \in Nat /\ MaxUses \in Nat

Characters == {"good", "junk", "end"}

VARIABLES
  text,   \* the answer, as the server sends it
  taken,  \* characters read so far
  kept,   \* buffer: the unfinished line
  events, \* the lines given to onEvent
  lineState

lineVars == <<text, taken, kept, events, lineState>>

Texts == UNION {[1..n -> Characters] : n \in 0..MaxText}

LinesTypeOK ==
  /\ text \in Texts /\ taken \in 0..Len(text)
  /\ kept \in Seq(Characters) /\ events \in Seq(Seq({"good"}))
  /\ lineState \in {"reading", "ended", "failed"}

LinesInit ==
  /\ text \in Texts /\ taken = 0 /\ kept = <<>> /\ events = <<>> /\ lineState = "reading"

(* buffer.split('\n')                                                        *)
Split(s) ==
  LET upTo[i \in 0..Len(s)] ==
        IF i = 0 THEN << <<>> >>
        ELSE IF s[i] = "end" THEN Append(upTo[i - 1], <<>>)
        ELSE Append(Front(upTo[i - 1]), Append(Last(upTo[i - 1]), s[i]))
  IN  upTo[Len(s)]

(* handleLine: an empty line and one that does not parse are skipped.        *)
Parsed(line) == line # <<>> /\ \A i \in DOMAIN line : line[i] = "good"

Handled(lines) == Filter(lines, [i \in DOMAIN lines |-> Parsed(lines[i])])

AllOf(lines) == lines  \* mutant

(* The last part may go on in the next piece.                                *)
Finished(lines) == Front(lines)

ReadPiece ==
  /\ lineState = "reading" /\ taken < Len(text)
  /\ \E n \in taken + 1 .. Len(text) :
       LET lines == Split(kept \o SubSeq(text, taken + 1, n)) IN
       /\ taken' = n
       /\ kept' = Last(lines)
       /\ events' = events \o Handled(Finished(lines))
  /\ UNCHANGED <<text, lineState>>

EndOfText ==
  /\ lineState = "reading" /\ taken = Len(text)
  /\ events' = events \o Handled(<<kept>>)
  /\ lineState' = "ended" /\ kept' = <<>>
  /\ UNCHANGED <<text, taken>>

(* The connection breaks, or stop() aborts it: the unfinished line is lost.  *)
Break ==
  /\ lineState = "reading" /\ lineState' = "failed"
  /\ UNCHANGED <<text, taken, kept, events>>

LinesNext == ReadPiece \/ EndOfText \/ Break

(* However the answer is cut into pieces, the events are its lines that      *)
(* parse, each once and in order: all of them at its end, those that arrived *)
(* complete before.                                                          *)
LinesSurvive ==
  events = Handled(IF lineState = "ended" THEN Split(text)
                   ELSE Front(Split(SubSeq(text, 1, taken))))

-----------------------------------------------------------------------------
VARIABLES
  listed,     \* messages.length
  first,      \* startIndex: the first message that is shown
  top,        \* scrollTop: messages above the visible part, of those shown
  nearBottom, \* isNearBottomRef
  restoring,  \* the frame that restores the place in older messages: what it
              \* remembers; and history: what was at the top, and whether no
              \* other messages have come since
  awaited,    \* the active conversation has changed, its messages are to come
  astray      \* history: since it changed, the user has scrolled up before
              \* they came, or messages changed while older ones came in

windowVars == <<listed, first, top, nearBottom, restoring, awaited, astray>>

Spots == 0..MaxListed
Frames == [height : Spots, top : Spots, reading : Spots, alone : BOOLEAN]

WindowTypeOK ==
  /\ listed \in Spots /\ first \in Spots /\ top \in Spots /\ nearBottom \in BOOLEAN
  /\ restoring \subseteq Frames /\ awaited \in BOOLEAN /\ astray \in BOOLEAN

WindowInit ==
  /\ listed = 0 /\ first = 0 /\ top = 0 /\ nearBottom = TRUE
  /\ restoring = {} /\ awaited = FALSE /\ astray = FALSE

Less(n, d) == IF n > d THEN n - d ELSE 0

(* visibleMessages: all from the first one.  One of them fits into the       *)
(* container.                                                                *)
Height(n, f) == Less(n, f)
Bottom(n, f) == Less(Height(n, f), 1)

(* The container keeps its place as long as there is one; where there is     *)
(* none it is at the bottom, and a scroll event says so.                     *)
Settle(n, f, t, near) ==
  /\ listed' = n /\ first' = f
  /\ top' = Min({t, Bottom(n, f)})
  /\ nearBottom' = (near \/ t > Bottom(n, f))

(* The effect of a new length: near the bottom the window follows.           *)
Follow(n) == IF nearBottom THEN Less(n, WindowSize) ELSE first

Disturbed ==
  /\ restoring' = {[r EXCEPT !.alone = FALSE] : r \in restoring}
  /\ astray' = (astray \/ restoring # {})

Renders(n) ==
  /\ n \in Spots
  /\ LET f == IF n = listed THEN first ELSE Follow(n)
     IN Settle(n, f, IF nearBottom THEN Bottom(n, f) ELSE top, nearBottom)

(* A turn shows its question, or an edited one in the place of a message and *)
(* those after it; a message is deleted; a turn is over and the conversation *)
(* loaded again, which may miss a question that was blocked.                 *)
Sent       == Renders(listed + 1)
EditOf(m)  == Renders(m + 1)
DeleteOne  == listed > 0 /\ Renders(listed - 1)
Reloaded   == \E n \in {Less(listed, 1), listed, listed + 1} : Renders(n)

MessagesChange ==
  /\ ~awaited
  /\ Sent \/ (\E m \in first .. listed - 1 : EditOf(m)) \/ DeleteOne \/ Reloaded
  /\ Disturbed /\ UNCHANGED awaited

StayUp == nearBottom  \* mutant

(* The effect of another conversation.                                       *)
ToTheBottom == TRUE

SwitchTo ==
  /\ awaited' = TRUE /\ astray' = FALSE
  /\ restoring' = {[r EXCEPT !.alone = FALSE] : r \in restoring}
  /\ Settle(listed, Less(listed, WindowSize), top, ToTheBottom)

(* Its messages come.  (The window may also begin above a message that was   *)
(* searched for, but nothing on the page asks for one: Sidebar gives the     *)
(* search panel no onResultClick.)                                           *)
MessagesCome(n) == awaited /\ awaited' = FALSE /\ Renders(n) /\ Disturbed

(* The user scrolls.  At the top older messages are loaded, unless they are  *)
(* being loaded.                                                             *)
LoadsOlder(t) == t = 0 /\ first > 0 /\ restoring = {}

ScrollTo(t) ==
  /\ t <= Bottom(listed, first)
  /\ nearBottom' = (t = Bottom(listed, first)) /\ top' = t
  /\ IF LoadsOlder(t)
     THEN /\ first' = Less(first, OlderChunk)
          /\ restoring' = {[height |-> Height(listed, first), top |-> t,
                            reading |-> first + t, alone |-> TRUE]}
     ELSE UNCHANGED <<first, restoring>>
  /\ astray' = (astray \/ (awaited /\ ~nearBottom'))
  /\ UNCHANGED <<listed, awaited>>

RestoredFromEnd(r) == r.height  \* mutant

(* The frame after older messages were loaded: as far down as there is more. *)
Restored(r) == Less(r.top + Height(listed, first), r.height)

RestorePlace ==
  /\ \E r \in restoring : Settle(listed, first, Restored(r), nearBottom)
  /\ restoring' = {} /\ UNCHANGED <<awaited, astray>>

WindowNext ==
  \/ MessagesChange \/ SwitchTo \/ RestorePlace
  \/ \E n \in Spots : MessagesCome(n) \/ ScrollTo(n)

(* While a conversation has messages some are shown, whatever is sent,       *)
(* edited, deleted, loaded and switched: except after the user has scrolled  *)
(* up in the old messages while others were to come, or messages changed in  *)
(* the frame in which older ones came in.                                    *)
WindowShowsSome == listed > 0 /\ ~astray => first < listed

(* When older messages come in above, the user goes on reading the same one, *)
(* unless others came in, or went, in the same frame.                        *)
PlaceIsKept == \A r \in restoring : r.alone /\ r.height > 0 => first + Restored(r) = r.reading
-----------------------------------------------------------------------------
Rows == 1..MaxRows

VARIABLES
  recent,   \* the server's sessions, the last used first
  rows,     \* conversations: the client's list
  offset,   \* how many the server has sent
  hasMore,  \* there may be more
  listing,  \* the page on its way, if any
  page,     \* what the server has read for it
  uses,     \* changes of the server's list
  used,     \* history: sessions used, made or renamed since the first page
  slid      \* history: one that was sent was removed, so others moved up

rowVars == <<recent, rows, offset, hasMore, listing, page, uses, used, slid>>

RowsTypeOK ==
  /\ recent \in Seq(Rows) /\ IsInjective(recent) /\ rows \in Seq(Rows)
  /\ offset \in Nat /\ hasMore \in BOOLEAN /\ page \in Seq(Rows)
  /\ listing \in {"first", "more", "none"} /\ uses \in 0..MaxUses
  /\ used \subseteq Rows /\ slid \in BOOLEAN

(* list_summaries: a slice of the sessions by their last activity.           *)
Summaries(n) == SubSeq(recent, n + 1, Min({n + Page, Len(recent)}))

RowsInit ==
  /\ \E n \in 0..MaxRows : recent = [i \in 1..n |-> i]
  /\ rows = <<>> /\ offset = 0 /\ hasMore = TRUE
  /\ listing = "first" /\ page = Summaries(0)
  /\ uses = 0 /\ used = {} /\ slid = FALSE

(* loadMoreConversations; the button is there when there is a list.          *)
AskRows ==
  /\ listing = "none" /\ hasMore /\ rows # <<>>
  /\ listing' = "more" /\ page' = Summaries(offset)
  /\ UNCHANGED <<recent, rows, offset, hasMore, uses, used, slid>>

MoreIfOver(items) == Len(items) > Page  \* mutant

MoreIf(items) == Len(items) >= Page

(* The first page replaces the list, another is added to it.                 *)
ShowRows ==
  /\ listing # "none" /\ listing' = "none" /\ page' = <<>>
  /\ rows' = IF listing = "first" THEN page ELSE rows \o page
  /\ offset' = offset + Len(page) /\ hasMore' = MoreIf(page)
  /\ UNCHANGED <<recent, uses, used, slid>>

RowsFail ==
  /\ listing # "none" /\ listing' = "none" /\ page' = <<>>
  /\ UNCHANGED <<recent, rows, offset, hasMore, uses, used, slid>>

Without(list, c) == Filter(list, [i \in DOMAIN list |-> list[i] # c])

(* Something is saved in a session, which may be a new one.                  *)
UseRow(c) ==
  /\ uses < MaxUses /\ uses' = uses + 1 /\ used' = used \cup {c}
  /\ recent' = <<c>> \o Without(recent, c)
  /\ UNCHANGED <<rows, offset, hasMore, listing, page, slid>>

(* A session is deleted: here, or by another client or a prune, of which     *)
(* this one hears nothing.                                                   *)
DropRow(c, here) ==
  /\ uses < MaxUses /\ uses' = uses + 1
  /\ c \in ToSet(recent) \cup (IF here THEN ToSet(rows) ELSE {})
  /\ recent' = Without(recent, c)
  /\ rows' = IF here THEN Without(rows, c) ELSE rows
  /\ slid' = (slid \/ \E i \in DOMAIN recent : i <= offset + Len(page) /\ recent[i] = c)
  /\ UNCHANGED <<offset, hasMore, listing, page, used>>

(* The server gives the session the new title as its id; the client keeps    *)
(* the old id.                                                               *)
Retitle(c, d) ==
  /\ uses < MaxUses /\ uses' = uses + 1
  /\ c \in ToSet(recent) /\ d \notin ToSet(recent)
  /\ recent' = [i \in DOMAIN recent |-> IF recent[i] = c THEN d ELSE recent[i]]
  /\ used' = used \cup {c, d}
  /\ UNCHANGED <<rows, offset, hasMore, listing, page, slid>>

(* The "new" button puts a conversation on top that has no messages yet.     *)
PutOnTop(c) ==
  /\ uses < MaxUses /\ uses' = uses + 1
  /\ c \notin ToSet(recent) \cup ToSet(rows)
  /\ rows' = <<c>> \o rows /\ used' = used \cup {c}
  /\ UNCHANGED <<recent, offset, hasMore, listing, page, slid>>

RowsNext ==
  \/ AskRows \/ ShowRows \/ RowsFail
  \/ \E c \in Rows : UseRow(c) \/ PutOnTop(c) \/ \E here \in BOOLEAN : DropRow(c, here)
  \/ \E c, d \in Rows : Retitle(c, d)

(* When there is no more to load, every session of the server that has       *)
(* rested since the first page is in the list, unless one that had been sent *)
(* was removed; and while none was used, none is in it twice.                *)
RowsAreWhole ==
  /\ ~hasMore /\ ~slid => ToSet(recent) \ used \subseteq ToSet(rows)
  /\ used = {} => IsInjective(rows)
-----------------------------------------------------------------------------
VARIABLES
  reading,  \* pictures that a FileReader reads
  images,   \* the composer's images
  drawn,    \* those of the last render, which its handlers see
  written,  \* there is text in the composer
  answering,\* streaming, as the composer was told
  posted,   \* the pictures of each message that was sent
  dropped,  \* those of messages without text, which were not
  removed,  \* pictures the user has taken out again
  seen      \* history: pictures that have been drawn

composerVars == <<reading, images, drawn, written, answering, posted, dropped, removed, seen>>

ComposerTypeOK ==
  /\ reading \subseteq Pictures /\ images \in Seq(Pictures) /\ drawn \in Seq(Pictures)
  /\ written \in BOOLEAN /\ answering \in BOOLEAN
  /\ posted \in Seq(Seq(Pictures)) /\ dropped \subseteq Pictures
  /\ removed \subseteq Pictures /\ seen \subseteq Pictures

ComposerInit ==
  /\ reading = {} /\ images = <<>> /\ drawn = <<>> /\ written = FALSE /\ answering = FALSE
  /\ posted = <<>> /\ dropped = {} /\ removed = {} /\ seen = {}

Attached == reading \cup ToSet(images) \cup removed \cup seen

(* addImage, of a paste, a drop or a choice; also while an answer comes.     *)
AddImage(p) ==
  /\ p \notin Attached
  /\ reading' = reading \cup {p}
  /\ UNCHANGED <<images, drawn, written, answering, posted, dropped, removed, seen>>

(* Pictures get their place when they have been read.                        *)
ImageRead(p) ==
  /\ p \in reading /\ reading' = reading \ {p}
  /\ images' = Append(images, p)
  /\ UNCHANGED <<drawn, written, answering, posted, dropped, removed, seen>>

(* A render is not at once.                                                  *)
Draw ==
  /\ drawn # images /\ drawn' = images /\ seen' = seen \cup ToSet(images)
  /\ UNCHANGED <<reading, images, written, answering, posted, dropped, removed>>

(* An event of the user's is rendered before the next; a picture that was    *)
(* read just before is not drawn with it.                                    *)
RemoveImage(p) ==
  /\ p \in ToSet(drawn)
  /\ images' = Without(images, p) /\ drawn' = Without(drawn, p) /\ removed' = removed \cup {p}
  /\ UNCHANGED <<reading, written, answering, posted, dropped, seen>>

(* Typed, or inserted from a template.                                       *)
Write(words) ==
  /\ written' = words /\ written # words
  /\ UNCHANGED <<reading, images, drawn, answering, posted, dropped, removed, seen>>

ImagesStay == drawn  \* mutant

ImagesAfter == <<>>

(* handleSend: what the last render had is given to useChat's send, and all  *)
(* of it is cleared; send returns at once if there is no text.               *)
SendMessage ==
  /\ written \/ drawn # <<>>
  /\ ~answering
  /\ IF written THEN posted' = Append(posted, drawn) /\ UNCHANGED dropped
                ELSE dropped' = dropped \cup ToSet(drawn) /\ UNCHANGED posted
  /\ written' = FALSE /\ images' = ImagesAfter /\ drawn' = ImagesAfter
  /\ UNCHANGED <<reading, answering, removed, seen>>

AnswerTurns ==
  /\ answering' = ~answering /\ posted # <<>>
  /\ UNCHANGED <<reading, images, drawn, written, posted, dropped, removed, seen>>

ComposerNext ==
  \/ \E p \in Pictures : AddImage(p) \/ ImageRead(p) \/ RemoveImage(p)
  \/ \E words \in BOOLEAN : Write(words)
  \/ Draw \/ (Len(posted) < MaxUses /\ SendMessage) \/ AnswerTurns

(* A picture the user has seen in the composer is there until it is taken    *)
(* out or sent with a text, and it is sent once; one still being read goes   *)
(* with a later message.  Exempt are the pictures of a message without text, *)
(* which the composer lets the user send and send() then drops, and those    *)
(* that were read but not drawn when a message was sent, which the composer  *)
(* clears.                                                                   *)
PicturesAreKept ==
  /\ \A p \in seen :
       Cardinality({i \in DOMAIN posted : p \in ToSet(posted[i])})
         = IF p \in ToSet(images) \cup removed \cup dropped THEN 0 ELSE 1
  /\ IsInjective(images)
=============================================================================
