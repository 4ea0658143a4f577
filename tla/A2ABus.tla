-------------------------------- MODULE A2ABus --------------------------------
(***************************************************************************)
(* vajra_gate/a2a.py behind the /a2a routes of routers/phase_c.py: agents  *)
(* that register, and the messages they leave for each other.  Every       *)
(* request is one call on the event loop.  Names, capabilities, threads    *)
(* and times are left out; sender and recipient matter only at the moment  *)
(* a message is sent.                                                      *)
(***************************************************************************)
EXTENDS Naturals, Sequences, SequencesExt

CONSTANTS
  Agents,      \* ids; each is drawn once
  MaxMessages, \* max_messages
  MaxSent      \* bound: messages sent

ASSUME A2AAssumption == MaxMessages \in Nat \ {0} /\ MaxSent \in Nat

VARIABLES
  registered, \* _agents
  retired,    \* history: ids that were unregistered
  posted,     \* _messages
  sent        \* messages sent so far, which number the next

a2aVars == <<registered, retired, posted, sent>>

A2ATypeOK ==
  /\ registered \subseteq Agents /\ retired \subseteq Agents \ registered
  /\ posted \in Seq([id : 1..MaxSent, read : BOOLEAN]) /\ Len(posted) <= MaxMessages
  /\ \A i, j \in DOMAIN posted : i < j => posted[i].id < posted[j].id
  /\ sent \in 0..MaxSent

A2AInit == registered = {} /\ retired = {} /\ posted = <<>> /\ sent = 0

Register(a) ==
  /\ a \notin registered \cup retired /\ registered' = registered \cup {a}
  /\ UNCHANGED <<retired, posted, sent>>

Unregister(a) ==
  /\ a \in registered /\ registered' = registered \ {a} /\ retired' = retired \cup {a}
  /\ UNCHANGED <<posted, sent>>

OldestFirst(m) == IF Len(m) <= MaxMessages THEN m ELSE Tail(m)  \* mutant

(* _prune_messages: one message too many; the oldest that was read goes, or  *)
(* the oldest of all.                                                        *)
Pruned(m) ==
  LET read == {i \in DOMAIN m : m[i].read}
      first == IF read = {} THEN 1 ELSE CHOOSE i \in read : \A j \in read : i <= j
  IN  IF Len(m) <= MaxMessages THEN m ELSE RemoveAt(m, first)

Post(s, r) ==
  /\ {s, r} \subseteq registered /\ sent < MaxSent /\ sent' = sent + 1
  /\ posted' = Pruned(Append(posted, [id |-> sent', read |-> FALSE]))
  /\ UNCHANGED <<registered, retired>>

MarkRead(i) ==
  /\ posted' = [posted EXCEPT ![i].read = TRUE]
  /\ UNCHANGED <<registered, retired, sent>>

A2ANext ==
  \/ \E a \in Agents : Register(a) \/ Unregister(a)
  \/ \E s, r \in Agents : Post(s, r)
  \/ \E i \in DOMAIN posted : MarkRead(i)

A2ASpec == A2AInit /\ [][A2ANext]_a2aVars

-----------------------------------------------------------------------------
(* A full bus forgets what was read before anything unread; an unread        *)
(* message is only lost when MaxMessages newer ones are unread as well.      *)
Forgotten(m) == ~m.read /\ \A j \in DOMAIN posted' : posted'[j].id # m.id

UnreadLast ==
  [][\A i \in DOMAIN posted : Forgotten(posted[i]) =>
       /\ Len(posted') = MaxMessages
       /\ \A j \in DOMAIN posted' : ~posted'[j].read /\ posted'[j].id > posted[i].id]_a2aVars
=============================================================================
