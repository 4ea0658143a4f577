------------------------------ MODULE EventLog ------------------------------
(***************************************************************************)
(* What a NotificationBus promises its subscribers: the events form one    *)
(* log; a subscriber starts somewhere in it, the first one at its          *)
(* beginning, and is given the events from there on, once and in order, up *)
(* to the first "done".  A subscriber that is more than Room events behind *)
(* may miss some; one that never is misses none.                           *)
(***************************************************************************)
EXTENDS Naturals, Sequences

CONSTANTS
  Readers,  \* the subscribers
  Kinds,    \* the types of events
  Room      \* how far a subscriber may fall behind

VARIABLES
  log,    \* the events published
  joined, \* the readers that have subscribed
  at,     \* position in the log of the last event a reader was given
  got,    \* the events each reader has been given
  lost    \* readers that were more than Room events behind

vars == <<log, joined, at, got, lost>>

Event == [seq : Nat \ {0}, kind : Kinds]

Init ==
  /\ log = <<>> /\ joined = {} /\ lost = {}
  /\ at = [r \in Readers |-> 0] /\ got = [r \in Readers |-> <<>>]

Publish ==
  /\ Len(log') > Len(log) /\ SubSeq(log', 1, Len(log)) = log
  /\ lost \subseteq lost'
  /\ \A r \in lost' \ lost : r \in joined /\ Len(log') - at[r] > Room
  /\ UNCHANGED <<joined, at, got>>

Join(r) ==
  /\ r \notin joined /\ joined' = joined \cup {r}
  /\ at'[r] \in 0..Len(log)
  /\ at' = [at EXCEPT ![r] = at'[r]]
  /\ joined = {} => at'[r] = 0
  /\ lost' = IF Len(log) - at'[r] > Room THEN lost \cup {r} ELSE lost
  /\ UNCHANGED <<log, got>>

SawDone(r) == \E i \in DOMAIN got[r] : got[r][i].kind = "done"

Deliver(r) ==
  /\ r \in joined /\ ~SawDone(r)
  /\ \E n \in at[r] + 1 .. Len(log) :
       /\ r \notin lost => n = at[r] + 1
       /\ at' = [at EXCEPT ![r] = n]
       /\ got' = [got EXCEPT ![r] = Append(@, log[n])]
  /\ UNCHANGED <<log, joined, lost>>

Next == Publish \/ \E r \in Readers : Join(r) \/ Deliver(r)

Spec == Init /\ [][Next]_vars
=============================================================================
