---------------------------- MODULE ClientsProofs ----------------------------
(* Theorems about the parts of MCClients: the bus of a request implements    *)
(* EventLog, for any observers, sizes of the queues and numbers of events    *)
(* and heartbeats; streams are their own turns', for any turns; and the web  *)
(* client is right, for any conversations, sends, loads, answers, windows,   *)
(* pages and pictures.                                                       *)
EXTENDS MCClients, ListProofs, SequenceTheorems

-----------------------------------------------------------------------------
(* The bus.  What the log, the buffer and the queues have to do with one     *)
(* another: TypeOK alone says nothing of it, and the promise of EventLog is  *)
(* about nothing else.                                                       *)
LogNumbered == \A n \in DOMAIN log : log[n].seq = n

(* Where a buffer begins in the log.                                         *)
Before(b) == Head(b).seq - 1

(* The buffer is a run of the log, up to its end unless it is full.          *)
IsRun(b, l) ==
  b # <<>> =>
    /\ Head(b).seq > 0
    /\ Before(b) + Len(b) <= Len(l)
    /\ \A i \in 1..Len(b) : b[i] = l[Before(b) + i]
    /\ Before(b) + Len(b) = Len(l) \/ Len(b) = MaxQueue

(* While nobody subscribed nothing was taken from the buffer.                *)
IsFirst(b, l) == IF b = <<>> THEN l = <<>> ELSE Before(b) = 0

BufferInv ==
  /\ IsRun(buffer, log)
  /\ joined = {} => IsFirst(buffer, log)
  /\ queues # {} => buffer = <<>>

ReaderInv ==
  /\ queues \subseteq joined
  /\ \A r \in Readers :
       /\ state[r] = "new" => r \notin joined
       /\ state[r] = "reading" => r \in queues
       /\ state[r] \in {"new", "reading"} => ~HasDone(got[r])
       /\ at[r] <= Len(log)

(* What waits in a queue is of the log, and after what was received.         *)
FromLog(q, l, k) ==
  \A i \in 1..Len(q) :
    q[i] = SyntheticDone \/ (q[i].seq \in k + 1 .. Len(l) /\ q[i] = l[q[i].seq])

InOrder(q) ==
  \A i, j \in 1..Len(q) : i < j /\ q[i].seq # 0 /\ q[j].seq # 0 => q[i].seq < q[j].seq

(* A reader that was never lost misses nothing before a synthetic done.      *)
NoGap(q, l, k) ==
  /\ \A i \in 1..Len(q) : (\A j \in 1..i : q[j].seq # 0) => q[i].seq = k + i
  /\ (\A i \in 1..Len(q) : q[i].seq # 0) => Len(q) = Len(l) - k

QueueInv(r) ==
  /\ FromLog(queue[r], log, at[r]) /\ InOrder(queue[r])
  /\ r \notin lost => NoGap(queue[r], log, at[r])

BusInv ==
  /\ TypeOK /\ LogNumbered /\ BufferInv /\ ReaderInv
  /\ \A r \in Readers : state[r] = "reading" => QueueInv(r)

LEMMA BusConstants ==
  MaxQueue \in Nat /\ MaxQueue > 0 /\ MaxEvents \in Nat /\ MaxBeats \in Nat
    /\ Main \in Readers /\ Observers \subseteq Readers
BY ConstantsAssumption DEF Readers

LEMMA DoneIsEvent == SyntheticDone \in Event /\ SyntheticDone.seq = 0 /\ SyntheticDone.kind = "done"
BY DEF SyntheticDone, Event, Kinds

-----------------------------------------------------------------------------
(* What the operators on sequences of events give.                           *)
LEMMA NumberedEvents ==
  ASSUME log \in Seq(Event), NEW kinds \in Seq(Kinds)
  PROVE  /\ Numbered(kinds) \in Seq(Event) /\ Len(Numbered(kinds)) = Len(kinds)
         /\ \A i \in 1..Len(kinds) : Numbered(kinds)[i].seq = Len(log) + i
<1>1. Len(kinds) \in Nat /\ Len(log) \in Nat
  OBVIOUS
<1>2. \A i \in 1..Len(kinds) : [seq |-> Len(log) + i, kind |-> kinds[i]] \in Event
  BY <1>1 DEF Event
<1>3. Numbered(kinds) \in [1..Len(kinds) -> Event]
  BY <1>2 DEF Numbered
<1> QED
  BY <1>1, <1>3 DEF Numbered

(* Numbered events after numbered events.                                    *)
LEMMA NumbersGoOn ==
  ASSUME NEW l \in Seq(Event), NEW es \in Seq(Event), NEW m, m = l \o es,
         \A n \in 1..Len(l) : l[n].seq = n,
         \A i \in 1..Len(es) : es[i].seq = Len(l) + i
  PROVE  /\ m \in Seq(Event) /\ Len(m) = Len(l) + Len(es)
         /\ \A n \in 1..Len(l) : m[n] = l[n]
         /\ \A i \in 1..Len(es) : m[Len(l) + i] = es[i]
         /\ \A n \in 1..Len(m) : m[n].seq = n
<1>1. Len(l) \in Nat /\ Len(es) \in Nat
  OBVIOUS
<1>2. /\ m \in Seq(Event) /\ Len(m) = Len(l) + Len(es)
      /\ \A n \in 1..Len(l) + Len(es) : m[n] = IF n <= Len(l) THEN l[n] ELSE es[n - Len(l)]
  BY ConcatProperties
<1>3. \A n \in 1..Len(l) : m[n] = l[n]
  BY <1>1, <1>2
<1>4. ASSUME NEW i \in 1..Len(es) PROVE m[Len(l) + i] = es[i]
  <2>1. Len(l) + i \in 1..Len(l) + Len(es) /\ ~(Len(l) + i <= Len(l)) /\ (Len(l) + i) - Len(l) = i
    BY <1>1
  <2> QED
    BY <2>1, <1>2
<1>5. ASSUME NEW n \in 1..Len(m) PROVE m[n].seq = n
  <2>1. n \in Nat /\ n >= 1 /\ n <= Len(l) + Len(es)
    BY <1>1, <1>2
  <2>2. CASE n <= Len(l)
    BY <2>1, <2>2, <1>1, <1>3
  <2>3. CASE n > Len(l)
    <3>1. n - Len(l) \in 1..Len(es) /\ Len(l) + (n - Len(l)) = n
      BY <2>1, <2>3, <1>1
    <3>2. m[n] = es[n - Len(l)] /\ es[n - Len(l)].seq = n
      BY <3>1, <1>4
    <3> QED
      BY <3>2
  <2> QED
    BY <2>1, <2>2, <2>3, <1>1
<1> QED
  BY <1>2, <1>3, <1>4, <1>5

(* Pushed events extend the log and keep its numbers.                        *)
LEMMA LogGrows ==
  ASSUME log \in Seq(Event), LogNumbered, NEW kinds \in Seq(Kinds),
         log' = log \o Numbered(kinds)
  PROVE  /\ log' \in Seq(Event) /\ Len(log') = Len(log) + Len(kinds)
         /\ \A n \in 1..Len(log) : log'[n] = log[n]
         /\ \A i \in 1..Len(kinds) : log'[Len(log) + i] = Numbered(kinds)[i]
         /\ LogNumbered'
<1> DEFINE es == Numbered(kinds)
<1>1. /\ es \in Seq(Event) /\ Len(es) = Len(kinds)
      /\ \A i \in 1..Len(kinds) : es[i].seq = Len(log) + i
  BY NumberedEvents
<1>2. log' = log \o es
  OBVIOUS
<1> HIDE DEF es
<1>3. \A n \in 1..Len(log) : log[n].seq = n
  <2>1. DOMAIN log = 1..Len(log)
    BY LenProperties
  <2> QED
    BY <2>1 DEF LogNumbered
<1>4. /\ log' \in Seq(Event) /\ Len(log') = Len(log) + Len(es)
      /\ \A n \in 1..Len(log) : log'[n] = log[n]
      /\ \A i \in 1..Len(es) : log'[Len(log) + i] = es[i]
      /\ \A n \in 1..Len(log') : log'[n].seq = n
  <2>1. log \in Seq(Event) /\ es \in Seq(Event) /\ \A i \in 1..Len(es) : es[i].seq = Len(log) + i
    BY <1>1
  <2> QED
    BY <2>1, <1>2, <1>3, NumbersGoOn
<1>5. LogNumbered'
  <2>1. DOMAIN log' = 1..Len(log')
    BY <1>4, LenProperties
  <2> QED
    BY <2>1, <1>4 DEF LogNumbered
<1> QED
  BY <1>1, <1>4, <1>5 DEF es

LEMMA ClipKeepsFirst ==
  ASSUME NEW q \in Seq(Event)
  PROVE  /\ Clip(q) \in Seq(Event)
         /\ Len(Clip(q)) = IF Len(q) <= MaxQueue THEN Len(q) ELSE MaxQueue
         /\ \A i \in 1..Len(Clip(q)) : Clip(q)[i] = q[i]
<1>1. CASE Len(q) <= MaxQueue
  BY <1>1 DEF Clip
<1>2. CASE ~(Len(q) <= MaxQueue)
  <2>1. Len(q) \in Nat /\ MaxQueue \in Nat /\ \A i \in 1..MaxQueue : q[i] \in Event
    BY <1>2, BusConstants
  <2>2. /\ SubSeq(q, 1, MaxQueue) \in Seq(Event) /\ Len(SubSeq(q, 1, MaxQueue)) = MaxQueue
        /\ \A i \in 1..MaxQueue : SubSeq(q, 1, MaxQueue)[i] = q[i]
    BY <2>1
  <2> QED
    BY <1>2, <2>2 DEF Clip
<1> QED
  BY <1>1, <1>2

(* A queue after a put: what it held, then what found room.                  *)
LEMMA PutAtEnd ==
  ASSUME NEW q \in Seq(Event), Len(q) <= MaxQueue, NEW es \in Seq(Event), NEW c, c = Clip(q \o es)
  PROVE  /\ c \in Seq(Event) /\ Len(q) <= Len(c) /\ Len(c) <= MaxQueue
         /\ Len(c) <= Len(q) + Len(es)
         /\ Len(c) = MaxQueue \/ Len(c) = Len(q) + Len(es)
         /\ \A i \in 1..Len(q) : c[i] = q[i]
         /\ \A i \in Len(q) + 1 .. Len(c) : i - Len(q) \in 1..Len(es) /\ c[i] = es[i - Len(q)]
<1>1. Len(q) \in Nat /\ Len(es) \in Nat /\ MaxQueue \in Nat
  BY BusConstants
<1>2. /\ q \o es \in Seq(Event) /\ Len(q \o es) = Len(q) + Len(es)
      /\ \A i \in 1..Len(q) + Len(es) : (q \o es)[i] = IF i <= Len(q) THEN q[i] ELSE es[i - Len(q)]
  BY ConcatProperties
<1>3. /\ c \in Seq(Event)
      /\ Len(c) = IF Len(q) + Len(es) <= MaxQueue THEN Len(q) + Len(es) ELSE MaxQueue
      /\ \A i \in 1..Len(c) : c[i] = (q \o es)[i]
  BY <1>2, ClipKeepsFirst
<1>4. Len(q) <= Len(c) /\ Len(c) <= MaxQueue /\ Len(c) <= Len(q) + Len(es)
  BY <1>1, <1>3
<1>5. Len(c) = MaxQueue \/ Len(c) = Len(q) + Len(es)
  BY <1>3
<1>6. \A i \in 1..Len(q) : c[i] = q[i]
  BY <1>1, <1>2, <1>3, <1>4
<1>7. \A i \in Len(q) + 1 .. Len(c) : i - Len(q) \in 1..Len(es) /\ c[i] = es[i - Len(q)]
  BY <1>1, <1>2, <1>3, <1>4
<1> QED
  BY <1>3, <1>4, <1>5, <1>6, <1>7

(* Pushed into a buffer that is a run of the log.                            *)
LEMMA RunGrows ==
  ASSUME NEW l \in Seq(Event), NEW es \in Seq(Event), Len(es) >= 1, NEW m \in Seq(Event),
         Len(m) = Len(l) + Len(es),
         \A n \in 1..Len(l) : m[n] = l[n],
         \A i \in 1..Len(es) : m[Len(l) + i] = es[i] /\ es[i].seq = Len(l) + i,
         NEW b \in Seq(Event), Len(b) <= MaxQueue, IsRun(b, l)
  PROVE  /\ IsRun(Clip(b \o es), m)
         /\ IsFirst(b, l) => IsFirst(Clip(b \o es), m)
<1> DEFINE c == Clip(b \o es)
<1>1. /\ c \in Seq(Event) /\ Len(b) <= Len(c) /\ Len(c) <= MaxQueue
      /\ Len(c) <= Len(b) + Len(es)
      /\ Len(c) = MaxQueue \/ Len(c) = Len(b) + Len(es)
      /\ \A i \in 1..Len(b) : c[i] = b[i]
      /\ \A i \in Len(b) + 1 .. Len(c) : i - Len(b) \in 1..Len(es) /\ c[i] = es[i - Len(b)]
  BY PutAtEnd
<1> HIDE DEF c
<1>2. /\ Len(l) \in Nat /\ Len(es) \in Nat /\ Len(b) \in Nat /\ Len(c) \in Nat
      /\ Len(es) >= 1 /\ Len(c) >= 1 /\ c # <<>> /\ Head(c) = c[1] /\ MaxQueue \in Nat
  <2>1. Len(es) >= 1 /\ Len(es) \in Nat
    OBVIOUS
  <2>2. Len(c) >= 1 /\ Len(c) \in Nat
    BY <2>1, <1>1, BusConstants
  <2> QED
    BY <2>1, <2>2, <1>1, BusConstants
<1>n. Len(l) \in Nat /\ Len(es) \in Nat /\ Len(b) \in Nat /\ Len(c) \in Nat /\ MaxQueue \in Nat
  BY <1>2
<1>3. CASE b = <<>>
  <2>1. Len(b) = 0
    BY <1>3
  <2>2. \A i \in 1..Len(c) : i \in 1..Len(es) /\ c[i] = es[i]
    BY <2>1, <1>1, <1>2
  <2>3. Before(c) = Len(l) /\ Head(c).seq > 0
    <3>1. c[1].seq = Len(l) + 1
      BY <2>2, <1>2
    <3> QED
      BY <3>1, <1>2 DEF Before
  <2>4. \A i \in 1..Len(c) : c[i] = m[Before(c) + i]
    BY <2>2, <2>3
  <2>5. Before(c) + Len(c) <= Len(m) /\ (Before(c) + Len(c) = Len(m) \/ Len(c) = MaxQueue)
    BY <2>1, <2>3, <1>1, <1>2
  <2>6. IsFirst(b, l) => Len(l) = 0
    BY <1>3 DEF IsFirst
  <2> QED
    BY <2>3, <2>4, <2>5, <2>6, <1>2 DEF IsRun, IsFirst, c
<1>4. CASE b # <<>>
  <2>1. Len(b) >= 1 /\ Head(b) = b[1]
    BY <1>4, <1>2, EmptySeq
  <2>2. c[1] = b[1] /\ Head(c) = Head(b) /\ Before(c) = Before(b)
    BY <2>1, <1>1, <1>2 DEF Before
  <2>3. /\ Head(b).seq > 0 /\ Before(b) + Len(b) <= Len(l)
        /\ \A i \in 1..Len(b) : b[i] = l[Before(b) + i]
        /\ Before(b) + Len(b) = Len(l) \/ Len(b) = MaxQueue
    BY <1>4 DEF IsRun
  <2>4. Before(b) \in Nat
    <3>1. Head(b).seq \in Nat
      <4>1. b[1] \in Event
        BY <2>1, <1>2
      <4> QED
        BY <4>1, <2>1 DEF Event
    <3> QED
      BY <3>1, <2>3 DEF Before
  <2> DEFINE p == Before(b)
  <2>5. /\ p \in Nat /\ p + Len(b) <= Len(l)
        /\ \A i \in 1..Len(b) : b[i] = l[p + i]
        /\ p + Len(b) = Len(l) \/ Len(b) = MaxQueue
    BY <2>3, <2>4
  <2>5n. p \in Nat /\ p + Len(b) <= Len(l) /\ (p + Len(b) = Len(l) \/ Len(b) = MaxQueue)
    BY <2>5
  <2> HIDE DEF p
  <2>6. ASSUME NEW i \in 1..Len(c) PROVE c[i] = m[p + i]
    <3>1. CASE i <= Len(b)
      <4>1. i \in 1..Len(b) /\ p + i \in 1..Len(l)
        BY <3>1, <2>5, <1>2
      <4>2. c[i] = l[p + i]
        BY <4>1, <2>5, <1>1
      <4> QED
        BY <4>1, <4>2
    <3>2. CASE i > Len(b)
      <4>1. i - Len(b) \in 1..Len(es) /\ c[i] = es[i - Len(b)]
        BY <3>2, <1>1, <1>2
      <4>2. Len(b) # MaxQueue
        BY <3>2, <1>1, <1>2
      <4>3. Len(l) + (i - Len(b)) = p + i
        BY <4>2, <2>5n, <1>n
      <4> QED
        BY <4>1, <4>3
    <3> QED
      BY <3>1, <3>2, <1>2
  <2>7. p + Len(c) <= Len(m) /\ (p + Len(c) = Len(m) \/ Len(c) = MaxQueue)
    <3>1. /\ Len(c) <= Len(b) + Len(es) /\ Len(c) <= MaxQueue
          /\ Len(b) <= Len(c) /\ Len(b) <= MaxQueue
          /\ Len(c) = MaxQueue \/ Len(c) = Len(b) + Len(es)
      BY <1>1
    <3> DEFINE lb == Len(b)  lc == Len(c)  le == Len(es)  ll == Len(l)  lm == Len(m)
    <3>2. /\ lb \in Nat /\ lc \in Nat /\ le \in Nat /\ ll \in Nat /\ MaxQueue \in Nat
          /\ lc <= lb + le /\ lc <= MaxQueue /\ lb <= lc /\ lb <= MaxQueue /\ p + lb <= ll
      BY <3>1, <2>5n, <1>n
    <3>3. lc = MaxQueue \/ lc = lb + le
      BY <1>1
    <3>4. p + lb = ll \/ lb = MaxQueue
      BY <2>5n
    <3>5. lm = ll + le
      OBVIOUS
    <3> HIDE DEF lb, lc, le, ll, lm
    <3>6. p + lc <= lm /\ (p + lc = lm \/ lc = MaxQueue)
      BY <3>2, <3>3, <3>4, <3>5, <2>5n
    <3> QED
      BY <3>6 DEF lc, lm
  <2>8. Before(c) = p /\ Head(c).seq > 0
    BY <2>2, <2>3 DEF p
  <2>9. IsRun(c, m)
    BY <2>6, <2>7, <2>8 DEF IsRun
  <2>10. IsFirst(b, l) => IsFirst(c, m)
    BY <2>2, <1>2, <1>4 DEF IsFirst
  <2> QED
    BY <2>9, <2>10 DEF c
<1> QED
  BY <1>3, <1>4

(* Pushed into the queue of a reader.                                        *)
LEMMA QueueGrows ==
  ASSUME NEW l \in Seq(Event), NEW es \in Seq(Event), NEW m \in Seq(Event),
         Len(m) = Len(l) + Len(es),
         \A n \in 1..Len(l) : m[n] = l[n],
         \A i \in 1..Len(es) : m[Len(l) + i] = es[i] /\ es[i].seq = Len(l) + i,
         NEW q \in Seq(Event), Len(q) <= MaxQueue, NEW k \in Nat, k <= Len(l),
         FromLog(q, l, k), InOrder(q)
  PROVE  /\ FromLog(Clip(q \o es), m, k) /\ InOrder(Clip(q \o es))
         /\ NoGap(q, l, k) /\ ~(Len(m) - k > MaxQueue) => NoGap(Clip(q \o es), m, k)
<1> DEFINE c == Clip(q \o es)
<1>1. /\ c \in Seq(Event) /\ Len(q) <= Len(c) /\ Len(c) <= MaxQueue
      /\ Len(c) <= Len(q) + Len(es)
      /\ Len(c) = MaxQueue \/ Len(c) = Len(q) + Len(es)
      /\ \A i \in 1..Len(q) : c[i] = q[i]
      /\ \A i \in Len(q) + 1 .. Len(c) : i - Len(q) \in 1..Len(es) /\ c[i] = es[i - Len(q)]
  BY PutAtEnd
<1> HIDE DEF c
<1>2. /\ Len(l) \in Nat /\ Len(es) \in Nat /\ Len(q) \in Nat /\ Len(c) \in Nat /\ MaxQueue \in Nat
  BY <1>1, BusConstants
<1>3. ASSUME NEW i \in 1..Len(c), i > Len(q)
      PROVE  c[i].seq = Len(l) + (i - Len(q)) /\ c[i] = m[c[i].seq] /\ c[i].seq \in k + 1 .. Len(m)
  <2>1. i - Len(q) \in 1..Len(es) /\ c[i] = es[i - Len(q)]
    BY <1>1, <1>2, <1>3
  <2>2. c[i].seq = Len(l) + (i - Len(q)) /\ c[i] = m[Len(l) + (i - Len(q))]
    BY <2>1
  <2>3. Len(l) + (i - Len(q)) \in k + 1 .. Len(m)
    BY <2>1, <1>2
  <2> QED
    BY <2>2, <2>3
<1>4. ASSUME NEW i \in 1..Len(c), i <= Len(q)
      PROVE  /\ i \in 1..Len(q) /\ c[i] = q[i] /\ q[i].seq \in Nat /\ q[i].seq <= Len(l)
             /\ c[i] = SyntheticDone \/ (c[i].seq \in k + 1 .. Len(m) /\ c[i] = m[c[i].seq])
  <2>1. i \in 1..Len(q) /\ c[i] = q[i]
    BY <1>1, <1>2, <1>4
  <2>2. q[i].seq \in Nat
    <3>1. q[i] \in Event
      BY <2>1
    <3> QED
      BY <3>1 DEF Event
  <2>3. CASE q[i] = SyntheticDone
    BY <2>1, <2>2, <2>3, <1>2, DoneIsEvent
  <2>4. CASE q[i].seq \in k + 1 .. Len(l) /\ q[i] = l[q[i].seq]
    <3>1. q[i].seq \in 1..Len(l) /\ q[i].seq \in k + 1 .. Len(m)
      BY <2>4, <1>2
    <3>2. q[i] = m[q[i].seq]
      BY <2>4, <3>1
    <3> QED
      BY <2>1, <2>2, <3>1, <3>2, <1>2
  <2> QED
    BY <2>1, <2>3, <2>4 DEF FromLog
<1>5. FromLog(c, m, k)
  BY <1>2, <1>3, <1>4 DEF FromLog
<1>6. InOrder(c)
  <2> SUFFICES ASSUME NEW i \in 1..Len(c), NEW j \in 1..Len(c), i < j, c[i].seq # 0, c[j].seq # 0
               PROVE  c[i].seq < c[j].seq
    BY DEF InOrder
  <2>1. CASE j <= Len(q)
    <3>1. i <= Len(q)
      BY <2>1, <1>2
    <3> QED
      BY <2>1, <3>1, <1>4 DEF InOrder
  <2>2. CASE j > Len(q) /\ i <= Len(q)
    <3>1. c[j].seq = Len(l) + (j - Len(q))
      BY <2>2, <1>3
    <3>2. c[i].seq \in Nat /\ c[i].seq <= Len(l)
      BY <2>2, <1>4
    <3> QED
      BY <3>1, <3>2, <2>2, <1>2
  <2>3. CASE i > Len(q)
    <3>1. j > Len(q)
      BY <2>3, <1>2
    <3>2. c[i].seq = Len(l) + (i - Len(q)) /\ c[j].seq = Len(l) + (j - Len(q))
      BY <2>3, <3>1, <1>3
    <3> QED
      BY <3>2, <1>2
  <2> QED
    BY <2>1, <2>2, <2>3, <1>2
<1>7. ASSUME NoGap(q, l, k), ~(Len(m) - k > MaxQueue) PROVE NoGap(c, m, k)
  <2>1. (\A i \in 1..Len(q) : q[i].seq # 0) => Len(q) = Len(l) - k
    BY <1>7 DEF NoGap
  <2>2. ASSUME NEW i \in 1..Len(c), \A j \in 1..i : c[j].seq # 0 PROVE c[i].seq = k + i
    <3>1. CASE i <= Len(q)
      <4>1. i \in 1..Len(q) /\ c[i] = q[i] /\ \A j \in 1..i : q[j].seq # 0
        <5>1. i \in 1..Len(q) /\ \A j \in 1..i : j \in 1..Len(q)
          BY <3>1, <1>2
        <5> QED
          BY <5>1, <2>2, <1>1
      <4> QED
        BY <4>1, <1>7 DEF NoGap
    <3>2. CASE i > Len(q)
      <4>1. \A j \in 1..Len(q) : q[j].seq # 0
        <5>1. \A j \in 1..Len(q) : j \in 1..i
          BY <3>2, <1>2
        <5> QED
          BY <5>1, <2>2, <1>1
      <4>2. c[i].seq = Len(l) + (i - Len(q))
        BY <3>2, <1>3
      <4>3. Len(q) = Len(l) - k
        BY <4>1, <2>1
      <4>4. Len(l) + (i - Len(q)) = k + i
        BY <4>3, <1>2
      <4> QED
        BY <4>2, <4>4
    <3> QED
      BY <3>1, <3>2, <1>2
  <2>3. ASSUME \A i \in 1..Len(c) : c[i].seq # 0 PROVE Len(c) = Len(m) - k
    <3>1. \A i \in 1..Len(q) : q[i].seq # 0
      <4>1. \A i \in 1..Len(q) : i \in 1..Len(c)
        BY <1>1, <1>2
      <4> QED
        BY <4>1, <2>3, <1>1
    <3>2. Len(q) = Len(l) - k
      BY <3>1, <2>1
    <3>3. Len(c) <= Len(q) + Len(es) /\ (Len(c) = MaxQueue \/ Len(c) = Len(q) + Len(es))
      BY <1>1
    <3>4. Len(q) + Len(es) <= MaxQueue
      BY <3>2, <1>2, <1>7
    <3>5. Len(c) = Len(q) + Len(es)
      BY <3>3, <3>4, <1>2
    <3>6. Len(m) = Len(l) + Len(es)
      OBVIOUS
    <3>7. Len(m) - k = (Len(l) - k) + Len(es)
      BY <3>6, <1>2
    <3> QED
      BY <3>2, <3>5, <3>7
  <2> QED
    BY <2>2, <2>3 DEF NoGap
<1> QED
  BY <1>5, <1>6, <1>7 DEF c


(* Every push keeps what the log, the buffer and the queues have to do with  *)
(* one another.                                                              *)
LEMMA PushKeepsBus ==
  ASSUME BusInv, NEW kinds \in Seq(Kinds), kinds # <<>>, Broadcast(kinds), state' = state,
         done' \in BOOLEAN, turn' \in {"running", "answered", "cancelled", "over"},
         beats' \in 0..MaxBeats
  PROVE  BusInv'
<1> DEFINE es == Numbered(kinds)
<1>1. /\ log \in Seq(Event) /\ buffer \in Seq(Event) /\ Len(buffer) <= MaxQueue
      /\ \A r \in Readers : queue[r] \in Seq(Event) /\ Len(queue[r]) <= MaxQueue
      /\ \A r \in Readers : at[r] \in Nat /\ at[r] <= Len(log)
      /\ queue \in [Readers -> Seq(Event)] /\ queues \subseteq Readers
  BY DEF BusInv, TypeOK, ReaderInv
<1>2. Len(kinds) >= 1 /\ Len(kinds) \in Nat
  BY EmptySeq
<1>3. /\ es \in Seq(Event) /\ Len(es) = Len(kinds)
      /\ \A i \in 1..Len(es) : es[i].seq = Len(log) + i
  BY <1>1, NumberedEvents
<1>4. /\ log' \in Seq(Event) /\ Len(log') = Len(log) + Len(es)
      /\ \A n \in 1..Len(log) : log'[n] = log[n]
      /\ \A i \in 1..Len(es) : log'[Len(log) + i] = es[i]
      /\ LogNumbered'
  <2>1. LogNumbered /\ log' = log \o Numbered(kinds)
    BY DEF BusInv, Broadcast
  <2> QED
    BY <1>1, <1>3, <2>1, LogGrows
<1>5. /\ IF queues = {} THEN buffer' = Clip(buffer \o es) /\ queue' = queue
         ELSE /\ queue' = [r \in Readers |-> IF r \in queues THEN Clip(queue[r] \o es) ELSE queue[r]]
              /\ buffer' = buffer
      /\ lost' = lost \cup {r \in queues : Len(log') - at[r] > MaxQueue}
      /\ queues' = queues /\ joined' = joined /\ at' = at /\ got' = got
  BY DEF Broadcast, Deposit, history
<1> HIDE DEF es
<1>6. Len(es) >= 1
  BY <1>2, <1>3
<1>7. \A i \in 1..Len(es) : log'[Len(log) + i] = es[i] /\ es[i].seq = Len(log) + i
  BY <1>3, <1>4
<1>8. BufferInv' /\ buffer' \in Seq(Event) /\ Len(buffer') <= MaxQueue
  <2>0. IsRun(buffer, log) /\ (joined = {} => IsFirst(buffer, log)) /\ (queues # {} => buffer = <<>>)
    BY DEF BusInv, BufferInv
  <2>1. CASE queues = {}
    <3>1. buffer' = Clip(buffer \o es)
      BY <1>5, <2>1
    <3>2. IsRun(Clip(buffer \o es), log') /\ (IsFirst(buffer, log) => IsFirst(Clip(buffer \o es), log'))
      BY <1>1, <1>3, <1>4, <1>6, <1>7, <2>0, RunGrows
    <3>3. Clip(buffer \o es) \in Seq(Event) /\ Len(Clip(buffer \o es)) <= MaxQueue
      BY <1>1, <1>3, PutAtEnd
    <3> QED
      BY <3>1, <3>2, <3>3, <2>0, <2>1, <1>5 DEF BufferInv
  <2>2. CASE queues # {}
    <3>1. buffer' = buffer /\ buffer = <<>>
      BY <1>5, <2>0, <2>2
    <3>2. joined # {} /\ joined' = joined
      BY <1>5, <2>2 DEF BusInv, ReaderInv
    <3>3. IsRun(buffer', log')
      BY <3>1 DEF IsRun
    <3> QED
      BY <3>1, <3>2, <3>3, <1>1 DEF BufferInv
  <2> QED
    BY <2>1, <2>2
<1>9. ReaderInv'
  <2>1. Len(log) <= Len(log')
    BY <1>1, <1>3, <1>4
  <2>2. \A r \in Readers : at'[r] <= Len(log')
    BY <1>1, <1>4, <1>5, <2>1
  <2> QED
    BY <2>2, <1>5 DEF BusInv, ReaderInv
<1>10. ASSUME NEW r \in Readers
       PROVE  queue'[r] \in Seq(Event) /\ Len(queue'[r]) <= MaxQueue
  <2>1. queue'[r] = queue[r] \/ queue'[r] = Clip(queue[r] \o es)
    BY <1>5
  <2>2. Clip(queue[r] \o es) \in Seq(Event) /\ Len(Clip(queue[r] \o es)) <= MaxQueue
    BY <1>1, <1>3, PutAtEnd
  <2> QED
    BY <1>1, <2>1, <2>2
<1>11. TypeOK'
  <2>1. queue' \in [Readers -> Seq(Event)]
    <3>1. queue' = [r \in Readers |-> queue'[r]]
      BY <1>1, <1>5
    <3> QED
      BY <3>1, <1>10
  <2>2. lost' \subseteq Readers
    BY <1>1, <1>5 DEF BusInv, TypeOK
  <2> QED
    BY <1>4, <1>5, <1>8, <1>10, <2>1, <2>2 DEF BusInv, TypeOK
<1>12. ASSUME NEW r \in Readers, state'[r] = "reading"
       PROVE  QueueInv(r)'
  <2>1. r \in queues /\ FromLog(queue[r], log, at[r]) /\ InOrder(queue[r])
        /\ (r \notin lost => NoGap(queue[r], log, at[r]))
    BY <1>12 DEF BusInv, ReaderInv, QueueInv
  <2>2. queue'[r] = Clip(queue[r] \o es)
    BY <1>5, <2>1
  <2>3. r \notin lost' => r \notin lost /\ ~(Len(log') - at[r] > MaxQueue)
    BY <1>5, <2>1
  <2>4. /\ FromLog(Clip(queue[r] \o es), log', at[r]) /\ InOrder(Clip(queue[r] \o es))
        /\ NoGap(queue[r], log, at[r]) /\ ~(Len(log') - at[r] > MaxQueue)
             => NoGap(Clip(queue[r] \o es), log', at[r])
    BY <1>1, <1>3, <1>4, <1>7, <2>1, QueueGrows
  <2> QED
    BY <2>1, <2>2, <2>3, <2>4, <1>5 DEF QueueInv
<1> QED
  BY <1>4, <1>8, <1>9, <1>11, <1>12 DEF BusInv

(* The queue of a reader that subscribes: the buffer.                        *)
LEMMA FirstQueue ==
  ASSUME NEW l \in Seq(Event), \A n \in 1..Len(l) : l[n].seq = n,
         NEW b \in Seq(Event), IsRun(b, l), Len(b) <= MaxQueue,
         NEW k, k = IF b = <<>> THEN Len(l) ELSE Before(b)
  PROVE  /\ k \in Nat /\ k <= Len(l) /\ FromLog(b, l, k) /\ InOrder(b)
         /\ \A i \in 1..Len(b) : b[i].seq = k + i
         /\ ~(Len(l) - k > MaxQueue) => NoGap(b, l, k)
         /\ IsFirst(b, l) => k = 0
<1>0. Len(l) \in Nat /\ Len(b) \in Nat /\ MaxQueue \in Nat
  BY BusConstants
<1>1. CASE b = <<>>
  <2>1. Len(b) = 0 /\ k = Len(l)
    BY <1>1
  <2>2. FromLog(b, l, k) /\ InOrder(b)
    BY <2>1 DEF FromLog, InOrder
  <2>3. NoGap(b, l, k)
    BY <2>1, <1>0 DEF NoGap
  <2>4. IsFirst(b, l) => k = 0
    BY <1>1, <2>1 DEF IsFirst
  <2> QED
    BY <2>1, <2>2, <2>3, <2>4, <1>0
<1>2. CASE b # <<>>
  <2>1. /\ k = Before(b) /\ Head(b).seq > 0 /\ k + Len(b) <= Len(l)
        /\ \A i \in 1..Len(b) : b[i] = l[k + i]
        /\ k + Len(b) = Len(l) \/ Len(b) = MaxQueue
    BY <1>2 DEF IsRun
  <2>2. k \in Nat
    <3>1. Head(b) \in Event
      BY <1>2
    <3>2. Head(b).seq \in Nat
      BY <3>1 DEF Event
    <3> QED
      BY <2>1, <3>2 DEF Before
  <2>3. k <= Len(l) /\ \A i \in 1..Len(b) : k + i \in k + 1 .. Len(l) /\ k + i \in 1..Len(l)
    <3> DEFINE nb == Len(b)  nl == Len(l)
    <3>1. nb \in Nat /\ nl \in Nat /\ k + nb <= nl
      BY <1>0, <2>1
    <3> HIDE DEF nb, nl
    <3>2. k <= nl /\ \A i \in 1..nb : k + i \in k + 1 .. nl /\ k + i \in 1..nl
      BY <3>1, <2>2
    <3> QED
      BY <3>2 DEF nb, nl
  <2>4. \A i \in 1..Len(b) : b[i].seq = k + i
    BY <2>1, <2>3
  <2>5. FromLog(b, l, k)
    BY <2>1, <2>3, <2>4 DEF FromLog
  <2>6. InOrder(b)
    BY <2>2, <2>4 DEF InOrder
  <2>7. ~(Len(l) - k > MaxQueue) => Len(b) = Len(l) - k
    <3> DEFINE nb == Len(b)  nl == Len(l)
    <3>1. nb \in Nat /\ nl \in Nat /\ MaxQueue \in Nat /\ k + nb <= nl
      BY <1>0, <2>1
    <3>2. k + nb = nl \/ nb = MaxQueue
      BY <2>1
    <3> HIDE DEF nb, nl
    <3>4. k \in Nat
      BY <2>2
    <3>3. ~(nl - k > MaxQueue) => nb = nl - k
      <4>1. CASE k + nb = nl
        BY <3>1, <3>4, <4>1
      <4>2. CASE nb = MaxQueue
        BY <3>1, <3>4, <4>2
      <4> QED
        BY <3>2, <4>1, <4>2
    <3> QED
      BY <3>3 DEF nb, nl
  <2>8. ~(Len(l) - k > MaxQueue) => NoGap(b, l, k)
    BY <2>4, <2>7 DEF NoGap
  <2>9. IsFirst(b, l) => k = 0
    BY <1>2, <2>1 DEF IsFirst
  <2> QED
    BY <2>2, <2>3, <2>4, <2>5, <2>6, <2>8, <2>9
<1> QED
  BY <1>1, <1>2

(* The same with the done event that events() makes up.                      *)
LEMMA QueueWithDone ==
  ASSUME NEW l \in Seq(Event), NEW b \in Seq(Event), NEW k \in Nat,
         FromLog(b, l, k), InOrder(b)
  PROVE  /\ Append(b, SyntheticDone) \in Seq(Event)
         /\ Len(Append(b, SyntheticDone)) = Len(b) + 1
         /\ FromLog(Append(b, SyntheticDone), l, k) /\ InOrder(Append(b, SyntheticDone))
         /\ (\A i \in 1..Len(b) : b[i].seq = k + i) => NoGap(Append(b, SyntheticDone), l, k)
<1> DEFINE x == SyntheticDone  q == Append(b, x)
<1>1. x \in Event /\ x.seq = 0 /\ x = SyntheticDone
  BY DoneIsEvent
<1> HIDE DEF x
<1>2. Len(b) \in Nat
  OBVIOUS
<1>3. /\ q \in Seq(Event) /\ Len(q) = Len(b) + 1
      /\ \A i \in 1..Len(b) : q[i] = b[i]
      /\ q[Len(b) + 1] = x
  BY <1>1, AppendProperties
<1> HIDE DEF q
<1>4. \A i \in 1..Len(q) : i \in 1..Len(b) \/ i = Len(b) + 1
  BY <1>2, <1>3
<1>5. \A i \in 1..Len(q) : (i \in 1..Len(b) /\ q[i] = b[i]) \/ (i = Len(b) + 1 /\ q[i] = x /\ q[i].seq = 0)
  BY <1>1, <1>3, <1>4
<1>6. FromLog(q, l, k)
  BY <1>1, <1>5 DEF FromLog
<1>7. InOrder(q)
  BY <1>5 DEF InOrder
<1>8. ASSUME \A i \in 1..Len(b) : b[i].seq = k + i PROVE NoGap(q, l, k)
  <2>1. Len(b) + 1 \in 1..Len(q) /\ q[Len(b) + 1].seq = 0
    BY <1>1, <1>2, <1>3
  <2>2. ASSUME NEW i \in 1..Len(q), \A j \in 1..i : q[j].seq # 0 PROVE q[i].seq = k + i
    <3>1. i \in 1..i
      BY <1>2, <1>3
    <3>2. i \in 1..Len(b) /\ q[i] = b[i]
      BY <3>1, <2>2, <1>5
    <3> QED
      BY <3>2, <1>8
  <2>3. ~(\A i \in 1..Len(q) : q[i].seq # 0)
    BY <2>1
  <2> QED
    BY <2>2, <2>3 DEF NoGap
<1> QED
  BY <1>3, <1>6, <1>7, <1>8 DEF q, x

(* What is left in a queue after an event of the log was received.           *)
LEMMA QueueAfter ==
  ASSUME NEW l \in Seq(Event), NEW q \in Seq(Event), q # <<>>, NEW k \in Nat,
         FromLog(q, l, k), InOrder(q), Head(q) # SyntheticDone
  PROVE  /\ Head(q) \in Event /\ Head(q).seq \in k + 1 .. Len(l) /\ Head(q) = l[Head(q).seq]
         /\ Tail(q) \in Seq(Event) /\ Len(Tail(q)) <= Len(q)
         /\ FromLog(Tail(q), l, Head(q).seq) /\ InOrder(Tail(q))
         /\ NoGap(q, l, k) => Head(q).seq = k + 1 /\ NoGap(Tail(q), l, Head(q).seq)
<1> DEFINE t == Tail(q)  n == Head(q).seq
<1>1. /\ Len(q) \in Nat /\ Len(q) >= 1 /\ Head(q) = q[1] /\ Head(q) \in Event
      /\ t \in Seq(Event) /\ Len(t) = Len(q) - 1 /\ \A i \in 1..Len(t) : t[i] = q[i + 1]
  BY EmptySeq, HeadTailProperties
<1>2. n = q[1].seq /\ n \in k + 1 .. Len(l) /\ Head(q) = l[n]
  <2>1. 1 \in 1..Len(q)
    BY <1>1
  <2> QED
    BY <2>1, <1>1 DEF FromLog
<1> HIDE DEF t, n
<1>3. /\ Len(t) \in Nat /\ Len(l) \in Nat /\ n \in Nat /\ n > 0 /\ n > k /\ n <= Len(l)
      /\ \A i \in 1..Len(t) : i + 1 \in 1..Len(q) /\ 1 \in 1..Len(q) /\ 1 < i + 1
  BY <1>1, <1>2
<1>4. FromLog(t, l, n)
  <2> SUFFICES ASSUME NEW i \in 1..Len(t)
               PROVE  t[i] = SyntheticDone \/ (t[i].seq \in n + 1 .. Len(l) /\ t[i] = l[t[i].seq])
    BY DEF FromLog
  <2>1. CASE q[i + 1] = SyntheticDone
    BY <2>1, <1>1
  <2>2. CASE q[i + 1].seq \in k + 1 .. Len(l) /\ q[i + 1] = l[q[i + 1].seq]
    <3>1. q[i + 1].seq # 0 /\ q[1].seq # 0
      BY <2>2, <1>2, <1>3
    <3>2. q[1].seq < q[i + 1].seq
      BY <3>1, <1>3 DEF InOrder
    <3>3. q[i + 1].seq \in n + 1 .. Len(l)
      BY <3>2, <2>2, <1>2, <1>3
    <3> QED
      BY <3>3, <2>2, <1>1
  <2> QED
    BY <2>1, <2>2, <1>3 DEF FromLog
<1>5. InOrder(t)
  <2> SUFFICES ASSUME NEW i \in 1..Len(t), NEW j \in 1..Len(t), i < j, t[i].seq # 0, t[j].seq # 0
               PROVE  t[i].seq < t[j].seq
    BY DEF InOrder
  <2>1. i + 1 \in 1..Len(q) /\ j + 1 \in 1..Len(q) /\ i + 1 < j + 1
    BY <1>3
  <2>2. t[i] = q[i + 1] /\ t[j] = q[j + 1]
    BY <1>1
  <2> QED
    BY <2>1, <2>2 DEF InOrder
<1>6. ASSUME NoGap(q, l, k) PROVE n = k + 1 /\ NoGap(t, l, n)
  <2>1. n = k + 1
    <3>1. 1 \in 1..Len(q) /\ \A j \in 1..1 : j = 1
      BY <1>1
    <3>2. \A j \in 1..1 : q[j].seq # 0
      BY <3>1, <1>2, <1>3
    <3> QED
      BY <3>1, <3>2, <1>2, <1>6 DEF NoGap
  <2>2. ASSUME NEW i \in 1..Len(t), \A j \in 1..i : t[j].seq # 0
        PROVE  \A j \in 1..i + 1 : q[j].seq # 0
    <3> SUFFICES ASSUME NEW j \in 1..i + 1 PROVE q[j].seq # 0
      OBVIOUS
    <3>1. CASE j = 1
      BY <3>1, <1>2, <1>3
    <3>2. CASE j # 1
      <4>1. j - 1 \in 1..i /\ j - 1 \in 1..Len(t) /\ (j - 1) + 1 = j
        BY <3>2, <1>3
      <4>2. t[j - 1] = q[j] /\ t[j - 1].seq # 0
        BY <4>1, <2>2, <1>1
      <4> QED
        BY <4>2
    <3> QED
      BY <3>1, <3>2
  <2>3. ASSUME NEW i \in 1..Len(t), \A j \in 1..i : t[j].seq # 0 PROVE t[i].seq = n + i
    <3>1. q[i + 1].seq = k + (i + 1)
      <4>1. i + 1 \in 1..Len(q)
        BY <1>3
      <4> QED
        BY <4>1, <2>2, <2>3, <1>6 DEF NoGap
    <3>2. k + (i + 1) = n + i
      BY <2>1, <1>3
    <3>3. t[i] = q[i + 1]
      BY <1>1
    <3> QED
      BY <3>1, <3>2, <3>3
  <2>4. ASSUME \A i \in 1..Len(t) : t[i].seq # 0 PROVE Len(t) = Len(l) - n
    <3>1. ASSUME NEW i \in 1..Len(q) PROVE q[i].seq # 0
      <4>1. CASE i = 1
        BY <4>1, <1>2, <1>3
      <4>2. CASE i # 1
        <5>1. i - 1 \in 1..Len(t) /\ (i - 1) + 1 = i
          BY <4>2, <1>1
        <5>2. t[i - 1] = q[i]
          BY <5>1, <1>1
        <5> QED
          BY <5>1, <5>2, <2>4
      <4> QED
        BY <4>1, <4>2
    <3>2. Len(q) = Len(l) - k
      BY <3>1, <1>6 DEF NoGap
    <3> DEFINE lq == Len(q)  ll == Len(l)
    <3>3. lq \in Nat /\ ll \in Nat /\ lq = ll - k /\ Len(t) = lq - 1
      BY <3>2, <1>1, <1>3
    <3> HIDE DEF lq, ll
    <3>4. Len(t) = ll - n
      BY <3>3, <2>1
    <3> QED
      BY <3>4 DEF ll
  <2> QED
    BY <2>1, <2>3, <2>4 DEF NoGap
<1>7. Len(t) <= Len(q)
  BY <1>1
<1> QED
  BY <1>1, <1>2, <1>4, <1>5, <1>6, <1>7 DEF t, n

(* When Main ends nobody reads on.                                           *)
LEMMA NobodyReadsOn ==
  ASSUME TypeOK, NEW how \in {"ended", "failed", "gone"}, CancelOthers(how)
  PROVE  /\ state' \in [Readers -> States]
         /\ turn' \in {"running", "answered", "cancelled", "over"}
         /\ \A r \in Readers : state'[r] \notin {"new", "reading"}
<1>1. "cancelled" \in States /\ "ended" \in States /\ "failed" \in States /\ "gone" \in States
  BY DEF States
<1>2. \A r \in Readers : state'[r] \in States /\ state'[r] \notin {"new", "reading"}
  BY <1>1 DEF CancelOthers, TypeOK
<1>3. state' \in [Readers -> States]
  <2>1. state' = [r \in Readers |-> state'[r]]
    BY DEF CancelOthers
  <2> QED
    BY <2>1, <1>2
<1> QED
  BY <1>2, <1>3 DEF CancelOthers, TypeOK

LEMMA DisconnectKeepsBus ==
  ASSUME BusInv, Disconnect
  PROVE  BusInv'
<1>1. /\ queues' = queues \ {Main} /\ CancelOthers("gone")
      /\ UNCHANGED <<buffer, queue, done, beats, joined, at, got, log, lost>>
  BY DEF Disconnect, history
<1>2. /\ state' \in [Readers -> States] /\ turn' \in {"running", "answered", "cancelled", "over"}
      /\ \A r \in Readers : state'[r] \notin {"new", "reading"}
  BY <1>1, NobodyReadsOn DEF BusInv
<1>3. TypeOK'
  BY <1>1, <1>2 DEF BusInv, TypeOK
<1>4. LogNumbered' /\ BufferInv'
  BY <1>1 DEF BusInv, LogNumbered, BufferInv
<1>5. ReaderInv'
  BY <1>1, <1>2 DEF BusInv, ReaderInv
<1> QED
  BY <1>2, <1>3, <1>4, <1>5 DEF BusInv

LEMMA CancelledKeepsBus ==
  ASSUME BusInv, NEW r \in Readers, Cancelled(r)
  PROVE  BusInv'
<1>1. /\ queues' = queues \ {r} /\ state[r] = "cancelled"
      /\ UNCHANGED <<buffer, queue, done, state, turn, beats, joined, at, got, log, lost>>
  BY DEF Cancelled, taskVars, history
<1>2. TypeOK'
  BY <1>1 DEF BusInv, TypeOK
<1>3. LogNumbered' /\ BufferInv'
  BY <1>1 DEF BusInv, LogNumbered, BufferInv
<1>4. ReaderInv'
  BY <1>1 DEF BusInv, ReaderInv
<1>5. \A s \in Readers : state'[s] = "reading" => QueueInv(s)'
  BY <1>1 DEF BusInv, QueueInv
<1> QED
  BY <1>2, <1>3, <1>4, <1>5 DEF BusInv

LEMMA SubscribeKeepsBus ==
  ASSUME BusInv, NEW r \in Readers, Subscribe(r)
  PROVE  BusInv'
<1> DEFINE full == MissedDone /\ Len(buffer) = MaxQueue
           k == IF buffer = <<>> THEN Len(log) ELSE Before(buffer)
<1>1. /\ log \in Seq(Event) /\ buffer \in Seq(Event) /\ Len(buffer) <= MaxQueue
      /\ queue \in [Readers -> Seq(Event)] /\ at \in [Readers -> Nat]
      /\ state \in [Readers -> States] /\ IsRun(buffer, log)
      /\ \A n \in 1..Len(log) : log[n].seq = n
  <2>1. LogNumbered /\ log \in Seq(Event)
    BY DEF BusInv, TypeOK
  <2>2. DOMAIN log = 1..Len(log)
    BY <2>1, LenProperties
  <2> QED
    BY <2>1, <2>2 DEF BusInv, TypeOK, BufferInv, LogNumbered
<1>2. /\ k \in Nat /\ k <= Len(log) /\ FromLog(buffer, log, k) /\ InOrder(buffer)
      /\ \A i \in 1..Len(buffer) : buffer[i].seq = k + i
      /\ ~(Len(log) - k > MaxQueue) => NoGap(buffer, log, k)
  <2>1. /\ log \in Seq(Event) /\ \A n \in 1..Len(log) : log[n].seq = n
        /\ buffer \in Seq(Event) /\ IsRun(buffer, log) /\ Len(buffer) <= MaxQueue
    BY <1>1
  <2> HIDE DEF full
  <2> QED
    BY <2>1, FirstQueue
<1>3. /\ state[r] = "new" /\ queues' = queues \cup {r}
      /\ queue' = [queue EXCEPT ![r] = IF MissedDone /\ ~full THEN Append(buffer, SyntheticDone) ELSE buffer]
      /\ buffer' = <<>> /\ joined' = joined \cup {r}
      /\ at' = [at EXCEPT ![r] = k]
      /\ lost' = IF Len(log) - at'[r] > MaxQueue THEN lost \cup {r} ELSE lost
      /\ UNCHANGED <<done, beats, got, log>>
  BY DEF Subscribe, Drained, Before
<1>4. IF full /\ r = Main THEN CancelOthers("failed")
      ELSE state' = [state EXCEPT ![r] = IF full THEN "failed" ELSE "reading"] /\ turn' = turn
  BY DEF Subscribe
<1> HIDE DEF k
<1>5. /\ state' \in [Readers -> States] /\ turn' \in {"running", "answered", "cancelled", "over"}
      /\ \A s \in Readers : state'[s] = "new" => state[s] = "new" /\ s # r
      /\ \A s \in Readers \ {r} : state'[s] = "reading" => state[s] = "reading"
      /\ state'[r] = "reading" => ~full
  <2>0. "failed" \in States /\ "reading" \in States
    BY DEF States
  <2>1. CASE full /\ r = Main
    <3>1. CancelOthers("failed")
      BY <1>4, <2>1
    <3> QED
      BY <3>1, NobodyReadsOn DEF BusInv
  <2>2. CASE ~(full /\ r = Main)
    <3>1. state' = [state EXCEPT ![r] = IF full THEN "failed" ELSE "reading"] /\ turn' = turn
      BY <1>4, <2>2
    <3> HIDE DEF full
    <3>2. state' \in [Readers -> States]
      BY <3>1, <2>0, <1>1
    <3> QED
      BY <3>1, <3>2, <1>1 DEF BusInv, TypeOK
  <2> QED
    BY <2>1, <2>2
<1>6. \A s \in Readers \ {r} : queue'[s] = queue[s] /\ at'[s] = at[s] /\ (s \notin lost' => s \notin lost)
  BY <1>1, <1>3
<1>7. /\ at'[r] = k
      /\ queue'[r] = IF MissedDone /\ ~full THEN Append(buffer, SyntheticDone) ELSE buffer
  BY <1>1, <1>3
<1>8. /\ Append(buffer, SyntheticDone) \in Seq(Event)
      /\ Len(Append(buffer, SyntheticDone)) = Len(buffer) + 1
      /\ FromLog(Append(buffer, SyntheticDone), log, k) /\ InOrder(Append(buffer, SyntheticDone))
      /\ NoGap(Append(buffer, SyntheticDone), log, k)
  BY <1>1, <1>2, QueueWithDone
<1>9. queue'[r] \in Seq(Event) /\ Len(queue'[r]) <= MaxQueue
  <2>1. CASE MissedDone /\ ~full
    <3>1. Len(buffer) # MaxQueue
      BY <2>1
    <3>2. Len(buffer) + 1 <= MaxQueue
      BY <3>1, <1>1, BusConstants
    <3> QED
      BY <3>2, <2>1, <1>7, <1>8
  <2>2. CASE ~(MissedDone /\ ~full)
    BY <2>2, <1>1, <1>7
  <2> QED
    BY <2>1, <2>2
<1>10. TypeOK'
  <2>1. queue' \in [Readers -> Seq(Event)] /\ \A s \in Readers : Len(queue'[s]) <= MaxQueue
    <3>1. queue' = [s \in Readers |-> queue'[s]]
      BY <1>1, <1>3
    <3>2. \A s \in Readers : queue'[s] \in Seq(Event) /\ Len(queue'[s]) <= MaxQueue
      BY <1>6, <1>9 DEF BusInv, TypeOK
    <3> QED
      BY <3>1, <3>2
  <2>2. at' \in [Readers -> Nat]
    BY <1>1, <1>2, <1>3
  <2>3. buffer' \in Seq(Event) /\ Len(buffer') <= MaxQueue
    BY <1>3, BusConstants
  <2>4. queues' \subseteq Readers /\ joined' \subseteq Readers /\ lost' \subseteq Readers
    BY <1>3 DEF BusInv, TypeOK
  <2> QED
    BY <2>1, <2>2, <2>3, <2>4, <1>3, <1>5 DEF BusInv, TypeOK
<1>11. LogNumbered' /\ BufferInv'
  BY <1>3 DEF BusInv, LogNumbered, BufferInv, IsRun
<1>12. ReaderInv'
  <2>1. queues' \subseteq joined'
    BY <1>3 DEF BusInv, ReaderInv
  <2>2. ASSUME NEW s \in Readers PROVE at'[s] <= Len(log')
    BY <1>2, <1>3, <1>6, <1>7 DEF BusInv, ReaderInv
  <2>3. ASSUME NEW s \in Readers
        PROVE  /\ state'[s] = "new" => s \notin joined'
               /\ state'[s] = "reading" => s \in queues'
               /\ state'[s] \in {"new", "reading"} => ~HasDone(got'[s])
    <3>1. state'[s] \in {"new", "reading"} => state[s] \in {"new", "reading"}
      BY <1>3, <1>5
    <3> QED
      BY <3>1, <1>3, <1>5 DEF BusInv, ReaderInv
  <2> QED
    BY <2>1, <2>2, <2>3 DEF ReaderInv
<1>13. ASSUME NEW s \in Readers, state'[s] = "reading" PROVE QueueInv(s)'
  <2>1. CASE s # r
    BY <2>1, <1>3, <1>5, <1>6, <1>13 DEF BusInv, QueueInv
  <2>2. CASE s = r
    <3>1. r \notin lost' => ~(Len(log) - k > MaxQueue)
      BY <1>3, <1>7
    <3>2. /\ FromLog(queue'[r], log, k) /\ InOrder(queue'[r])
          /\ r \notin lost' => NoGap(queue'[r], log, k)
      BY <3>1, <1>2, <1>7, <1>8
    <3> QED
      BY <3>2, <2>2, <1>3, <1>7 DEF QueueInv
  <2> QED
    BY <2>1, <2>2
<1> QED
  BY <1>10, <1>11, <1>12, <1>13 DEF BusInv

(* What a reader is given, as the log has it.                                *)
LEMMA GivenFromLog ==
  ASSUME BusInv, NEW r \in Readers, Receive(r), Head(queue[r]) # SyntheticDone
  PROVE  LET e == Head(queue[r]) IN
         /\ e \in Event /\ e.seq \in at[r] + 1 .. Len(log) /\ e = log[e.seq]
         /\ at' = [at EXCEPT ![r] = e.seq] /\ got' = [got EXCEPT ![r] = Append(@, e)]
         /\ Tail(queue[r]) \in Seq(Event) /\ Len(Tail(queue[r])) <= MaxQueue
         /\ FromLog(Tail(queue[r]), log, e.seq) /\ InOrder(Tail(queue[r]))
         /\ r \notin lost => e.seq = at[r] + 1 /\ NoGap(Tail(queue[r]), log, e.seq)
<1> DEFINE e == Head(queue[r])
<1>1. /\ state[r] = "reading" /\ queue[r] # <<>>
      /\ at' = [at EXCEPT ![r] = e.seq] /\ got' = [got EXCEPT ![r] = Append(@, e)]
  BY DEF Receive
<1>2. /\ log \in Seq(Event) /\ queue[r] \in Seq(Event) /\ at[r] \in Nat
      /\ Len(queue[r]) <= MaxQueue
      /\ FromLog(queue[r], log, at[r]) /\ InOrder(queue[r])
      /\ r \notin lost => NoGap(queue[r], log, at[r])
  BY <1>1 DEF BusInv, TypeOK, QueueInv
<1>3. /\ e \in Event /\ e.seq \in at[r] + 1 .. Len(log) /\ e = log[e.seq]
      /\ Tail(queue[r]) \in Seq(Event) /\ Len(Tail(queue[r])) <= Len(queue[r])
      /\ FromLog(Tail(queue[r]), log, e.seq) /\ InOrder(Tail(queue[r]))
      /\ NoGap(queue[r], log, at[r]) => e.seq = at[r] + 1 /\ NoGap(Tail(queue[r]), log, e.seq)
  BY <1>1, <1>2, QueueAfter
<1>4. Len(Tail(queue[r])) <= MaxQueue
  BY <1>2, <1>3, BusConstants
<1> QED
  BY <1>1, <1>2, <1>3, <1>4

LEMMA ReceiveKeepsBus ==
  ASSUME BusInv, NEW r \in Readers, Receive(r)
  PROVE  BusInv'
<1> DEFINE e == Head(queue[r])
<1>1. /\ log \in Seq(Event) /\ queue \in [Readers -> Seq(Event)] /\ at \in [Readers -> Nat]
      /\ got \in [Readers -> Seq(Event)] /\ state \in [Readers -> States]
      /\ queue[r] \in Seq(Event) /\ queue[r] # <<>> /\ Len(queue[r]) <= MaxQueue
      /\ state[r] = "reading"
      /\ queue' = [queue EXCEPT ![r] = Tail(queue[r])]
      /\ IF e = SyntheticDone THEN UNCHANGED <<at, got>>
         ELSE at' = [at EXCEPT ![r] = e.seq] /\ got' = [got EXCEPT ![r] = Append(@, e)]
      /\ IF e.kind # "done" THEN UNCHANGED <<queues, state, turn>>
         ELSE /\ queues' = queues \ {r}
              /\ IF r = Main THEN CancelOthers("ended")
                 ELSE state' = [state EXCEPT ![r] = "ended"] /\ UNCHANGED turn
      /\ UNCHANGED <<buffer, done, beats, joined, log, lost>>
  BY DEF Receive, BusInv, TypeOK
<1>2. e = SyntheticDone => e.kind = "done"
  BY DoneIsEvent
<1>3. e # SyntheticDone =>
        /\ e \in Event /\ e.seq \in at[r] + 1 .. Len(log)
        /\ FromLog(Tail(queue[r]), log, e.seq) /\ InOrder(Tail(queue[r]))
        /\ r \notin lost => NoGap(Tail(queue[r]), log, e.seq)
  BY GivenFromLog
<1>4. Tail(queue[r]) \in Seq(Event) /\ Len(Tail(queue[r])) <= MaxQueue
  <2>1. /\ Tail(queue[r]) \in Seq(Event) /\ Len(Tail(queue[r])) = Len(queue[r]) - 1
        /\ Len(queue[r]) \in Nat
    BY <1>1, HeadTailProperties
  <2> QED
    BY <2>1, <1>1, BusConstants
<1> HIDE DEF e
<1>5. /\ state' \in [Readers -> States] /\ turn' \in {"running", "answered", "cancelled", "over"}
      /\ \A s \in Readers : state'[s] = "new" => state[s] = "new"
      /\ \A s \in Readers : state'[s] = "reading" => state[s] = "reading" /\ (s = r => e.kind # "done")
      /\ queues' \subseteq queues /\ \A s \in queues : s # r => s \in queues'
      /\ e.kind # "done" => queues' = queues
  <2>1. CASE e.kind # "done"
    BY <2>1, <1>1 DEF BusInv, TypeOK
  <2>2. CASE e.kind = "done" /\ r = Main
    <3>1. CancelOthers("ended") /\ queues' = queues \ {r}
      BY <1>1, <2>2
    <3> QED
      BY <3>1, <2>2, NobodyReadsOn DEF BusInv
  <2>3. CASE e.kind = "done" /\ r # Main
    <3>1. state' = [state EXCEPT ![r] = "ended"] /\ turn' = turn /\ queues' = queues \ {r}
      BY <1>1, <2>3
    <3>2. "ended" \in States
      BY DEF States
    <3> QED
      BY <3>1, <3>2, <1>1, <2>3 DEF BusInv, TypeOK
  <2> QED
    BY <2>1, <2>2, <2>3
<1>6. /\ at' \in [Readers -> Nat] /\ at'[r] <= Len(log)
      /\ \A s \in Readers \ {r} : at'[s] = at[s] /\ got'[s] = got[s]
      /\ got' \in [Readers -> Seq(Event)]
      /\ e.kind # "done" => at'[r] = e.seq /\ got'[r] = Append(got[r], e) /\ e \in Event
  <2>1. CASE e = SyntheticDone
    <3>1. at' = at /\ got' = got /\ e.kind = "done"
      BY <2>1, <1>1, <1>2
    <3>2. at[r] <= Len(log)
      BY DEF BusInv, ReaderInv
    <3> QED
      BY <3>1, <3>2, <1>1
  <2>2. CASE e # SyntheticDone
    <3>1. at' = [at EXCEPT ![r] = e.seq] /\ got' = [got EXCEPT ![r] = Append(got[r], e)]
      BY <2>2, <1>1
    <3>2. e \in Event /\ e.seq \in Nat /\ e.seq <= Len(log)
      BY <2>2, <1>1, <1>3
    <3>3. Append(got[r], e) \in Seq(Event)
      BY <3>2, <1>1
    <3> QED
      BY <3>1, <3>2, <3>3, <1>1
  <2> QED
    BY <2>1, <2>2
<1>7. TypeOK'
  <2>1. queue' \in [Readers -> Seq(Event)]
    BY <1>1, <1>4
  <2>2. \A s \in Readers : Len(queue'[s]) <= MaxQueue
    BY <1>1, <1>4 DEF BusInv, TypeOK
  <2>3. queues' \subseteq Readers
    BY <1>5 DEF BusInv, TypeOK
  <2> QED
    BY <2>1, <2>2, <2>3, <1>1, <1>5, <1>6 DEF BusInv, TypeOK
<1>8. LogNumbered' /\ BufferInv'
  BY <1>1, <1>5 DEF BusInv, LogNumbered, BufferInv
<1>9. ReaderInv'
  <2>1. queues' \subseteq joined'
    BY <1>1, <1>5 DEF BusInv, ReaderInv
  <2>2. ASSUME NEW s \in Readers PROVE at'[s] <= Len(log')
    BY <1>1, <1>6 DEF BusInv, ReaderInv
  <2>3. ASSUME NEW s \in Readers
        PROVE  /\ state'[s] = "new" => s \notin joined'
               /\ state'[s] = "reading" => s \in queues'
    <3>1. state[s] = "new" => s \notin joined
      BY DEF BusInv, ReaderInv
    <3>2. state[s] = "reading" => s \in queues
      BY DEF BusInv, ReaderInv
    <3> QED
      BY <3>1, <3>2, <1>1, <1>5
  <2>4. ASSUME NEW s \in Readers, state'[s] \in {"new", "reading"} PROVE ~HasDone(got'[s])
    <3>1. state[s] \in {"new", "reading"} /\ ~HasDone(got[s])
      BY <2>4, <1>5 DEF BusInv, ReaderInv
    <3>2. CASE s # r
      BY <3>1, <3>2, <1>6
    <3>3. CASE s = r
      <4>1. e.kind # "done"
        BY <3>3, <2>4, <1>1, <1>5
      <4>2. got'[r] = Append(got[r], e) /\ got[r] \in Seq(Event) /\ e \in Event
        BY <4>1, <1>1, <1>6
      <4>3. /\ DOMAIN got'[r] = 1..Len(got[r]) + 1 /\ Len(got[r]) \in Nat /\ DOMAIN got[r] = 1..Len(got[r])
            /\ \A i \in 1..Len(got[r]) : got'[r][i] = got[r][i]
            /\ got'[r][Len(got[r]) + 1] = e
        BY <4>2, AppendProperties, LenProperties
      <4> QED
        BY <4>1, <4>3, <3>1, <3>3 DEF HasDone
    <3> QED
      BY <3>2, <3>3
  <2> QED
    BY <2>1, <2>2, <2>3, <2>4 DEF ReaderInv
<1>10. ASSUME NEW s \in Readers, state'[s] = "reading" PROVE QueueInv(s)'
  <2>1. CASE s # r
    BY <2>1, <1>1, <1>5, <1>6, <1>10 DEF BusInv, QueueInv
  <2>2. CASE s = r
    <3>1. e.kind # "done" /\ e # SyntheticDone
      BY <2>2, <1>2, <1>5, <1>10
    <3>2. queue'[r] = Tail(queue[r]) /\ at'[r] = e.seq /\ log' = log /\ lost' = lost
      BY <3>1, <1>1, <1>6
    <3> QED
      BY <3>1, <3>2, <2>2, <1>3 DEF QueueInv
  <2> QED
    BY <2>1, <2>2
<1> QED
  BY <1>7, <1>8, <1>9, <1>10 DEF BusInv

LEMMA BusInvInit == Init => BusInv
<1> SUFFICES ASSUME Init PROVE BusInv
  OBVIOUS
<1>1. /\ buffer = <<>> /\ queues = {} /\ log = <<>> /\ joined = {} /\ lost = {} /\ done = FALSE
      /\ turn = "running" /\ beats = 0
      /\ queue = [r \in Readers |-> <<>>] /\ got = [r \in Readers |-> <<>>]
      /\ state = [r \in Readers |-> "new"] /\ at = [r \in Readers |-> 0]
  BY DEF Init
<1>2. <<>> \in Seq(Event) /\ Len(<<>>) = 0 /\ "new" \in States
  BY DEF States
<1>3. MaxQueue \in Nat /\ MaxBeats \in Nat
  BY BusConstants
<1>4. /\ buffer \in Seq(Event) /\ Len(buffer) <= MaxQueue /\ log \in Seq(Event)
      /\ queue \in [Readers -> Seq(Event)] /\ got \in [Readers -> Seq(Event)]
      /\ \A r \in Readers : Len(queue[r]) <= MaxQueue
  BY <1>1, <1>2, <1>3
<1>5. state \in [Readers -> States] /\ at \in [Readers -> Nat] /\ beats \in 0..MaxBeats
  BY <1>1, <1>2, <1>3
<1>6. TypeOK
  BY <1>1, <1>4, <1>5 DEF TypeOK
<1>7. LogNumbered /\ BufferInv
  BY <1>1 DEF LogNumbered, BufferInv, IsRun, IsFirst
<1>8. ReaderInv
  <2>1. \A r \in Readers : ~HasDone(got[r]) /\ at[r] <= Len(log)
    BY <1>1 DEF HasDone
  <2> QED
    BY <2>1, <1>1 DEF ReaderInv
<1>9. \A r \in Readers : state[r] # "reading"
  BY <1>1
<1> QED
  BY <1>6, <1>7, <1>8, <1>9 DEF BusInv

(* The four actions that push, and what they push.                           *)
LEMMA Pushes ==
  ASSUME TypeOK, Push \/ Answer \/ GiveUp \/ Beat
  PROVE  /\ \E kinds \in Seq(Kinds) : kinds # <<>> /\ Broadcast(kinds)
         /\ state' = state /\ done' \in BOOLEAN
         /\ turn' \in {"running", "answered", "cancelled", "over"} /\ beats' \in 0..MaxBeats
<1>1. "event" \in Kinds /\ "done" \in Kinds /\ "phase" \in Kinds /\ "beat" \in Kinds
  BY DEF Kinds
<1>2. /\ <<"event">> \in Seq(Kinds) /\ <<"done", "phase", "done">> \in Seq(Kinds)
      /\ <<"done">> \in Seq(Kinds) /\ <<"beat">> \in Seq(Kinds)
  BY <1>1
<1>3. /\ <<"event">> # <<>> /\ <<"done", "phase", "done">> # <<>>
      /\ <<"done">> # <<>> /\ <<"beat">> # <<>>
  OBVIOUS
<1>4. CASE Push
  BY <1>2, <1>3, <1>4 DEF Push, taskVars, TypeOK
<1>5. CASE Answer
  BY <1>2, <1>3, <1>5 DEF Answer, TypeOK
<1>6. CASE GiveUp
  BY <1>2, <1>3, <1>6 DEF GiveUp, TypeOK
<1>7. CASE Beat
  <2>1. beats' \in 0..MaxBeats
    BY <1>7, BusConstants DEF Beat, TypeOK
  <2> QED
    BY <2>1, <1>2, <1>3, <1>7 DEF Beat, TypeOK
<1> QED
  BY <1>4, <1>5, <1>6, <1>7

LEMMA BusInvNext == BusInv /\ [Next]_vars => BusInv'
<1> SUFFICES ASSUME BusInv, [Next]_vars PROVE BusInv'
  OBVIOUS
<1>1. CASE Push \/ Answer \/ GiveUp \/ Beat
  <2>1. TypeOK
    BY DEF BusInv
  <2>2. PICK kinds \in Seq(Kinds) : kinds # <<>> /\ Broadcast(kinds)
    BY <1>1, <2>1, Pushes
  <2>3. /\ state' = state /\ done' \in BOOLEAN
        /\ turn' \in {"running", "answered", "cancelled", "over"} /\ beats' \in 0..MaxBeats
    BY <1>1, <2>1, Pushes
  <2> QED
    BY <2>2, <2>3, PushKeepsBus
<1>2. CASE Disconnect
  BY <1>2, DisconnectKeepsBus
<1>3. ASSUME NEW r \in Readers, Subscribe(r) PROVE BusInv'
  BY <1>3, SubscribeKeepsBus
<1>4. ASSUME NEW r \in Readers, Receive(r) PROVE BusInv'
  BY <1>4, ReceiveKeepsBus
<1>5. ASSUME NEW r \in Readers, Cancelled(r) PROVE BusInv'
  BY <1>5, CancelledKeepsBus
<1>6. CASE UNCHANGED vars
  <2>1. /\ UNCHANGED <<buffer, queues, queue, done>> /\ UNCHANGED <<state, turn, beats>>
        /\ UNCHANGED <<joined, at, got, log, lost>>
    BY <1>6 DEF vars, busVars, taskVars, history
  <2>2. TypeOK'
    BY <2>1 DEF BusInv, TypeOK
  <2>3. LogNumbered' /\ BufferInv' /\ ReaderInv'
    BY <2>1 DEF BusInv, LogNumbered, BufferInv, ReaderInv
  <2>4. \A r \in Readers : state'[r] = "reading" => QueueInv(r)'
    BY <2>1 DEF BusInv, QueueInv
  <2> QED
    BY <2>2, <2>3, <2>4 DEF BusInv
<1> QED
  BY <1>1, <1>2, <1>3, <1>4, <1>5, <1>6 DEF Next

(* The inductive invariant of the bus, for any readers and sizes.            *)
THEOREM BusInvariant == Spec => []BusInv
BY BusInvInit, BusInvNext, PTL DEF Spec

-----------------------------------------------------------------------------
(* Step by step the bus does what EventLog does: a push publishes, a         *)
(* subscription joins, an event received is delivered, and what is left      *)
(* (the made up done, the end of a reader) changes nothing of the log.       *)
LEMMA PushPublishes ==
  ASSUME BusInv, NEW kinds \in Seq(Kinds), kinds # <<>>, Broadcast(kinds)
  PROVE  Log!Publish
<1> DEFINE es == Numbered(kinds)
<1>1. log \in Seq(Event) /\ LogNumbered /\ queues \subseteq joined
  BY DEF BusInv, TypeOK, ReaderInv
<1>2. es \in Seq(Event) /\ Len(es) = Len(kinds)
  BY <1>1, NumberedEvents
<1>3. /\ log' = log \o es /\ joined' = joined /\ at' = at /\ got' = got
      /\ lost' = lost \cup {r \in queues : Len(log') - at[r] > MaxQueue}
  BY DEF Broadcast, history
<1>4. Len(kinds) >= 1 /\ Len(kinds) \in Nat
  BY EmptySeq
<1>5. Len(log') > Len(log)
  <2>1. Len(log') = Len(log) + Len(kinds)
    BY <1>1, <1>3, LogGrows
  <2> QED
    BY <2>1, <1>1, <1>4
<1> HIDE DEF es
<1>6. SubSeq(log', 1, Len(log)) = log
  <2>1. CASE log = <<>>
    <3>1. Len(log) = 0
      BY <2>1
    <3>2. SubSeq(log', 1, Len(log)) = <<>>
      BY <3>1, SubSeqEmpty
    <3> QED
      BY <3>2, <2>1
  <2>2. CASE log # <<>>
    <3>1. 1 \in 1..Len(log) /\ Len(log) \in 1..Len(log)
      BY <2>2, <1>1, EmptySeq
    <3>2. SubSeq(log \o es, 1, Len(log)) = SubSeq(log, 1, Len(log))
      BY <3>1, <1>1, <1>2, SubSeqOfConcat1
    <3> QED
      BY <3>2, <1>1, <1>3, SubSeqFull
  <2> QED
    BY <2>1, <2>2
<1>7. lost \subseteq lost' /\ \A r \in lost' \ lost : r \in joined /\ Len(log') - at[r] > MaxQueue
  BY <1>1, <1>3
<1> QED
  BY <1>3, <1>5, <1>6, <1>7 DEF Log!Publish

LEMMA SubscribeJoins ==
  ASSUME BusInv, NEW r \in Readers, Subscribe(r)
  PROVE  Log!Join(r)
<1> DEFINE k == IF buffer = <<>> THEN Len(log) ELSE Before(buffer)
<1>1. /\ log \in Seq(Event) /\ buffer \in Seq(Event) /\ Len(buffer) <= MaxQueue
      /\ IsRun(buffer, log) /\ at \in [Readers -> Nat]
      /\ \A n \in 1..Len(log) : log[n].seq = n
  <2>1. LogNumbered /\ log \in Seq(Event)
    BY DEF BusInv, TypeOK
  <2>2. DOMAIN log = 1..Len(log)
    BY <2>1, LenProperties
  <2> QED
    BY <2>1, <2>2 DEF BusInv, TypeOK, BufferInv, LogNumbered
<1>2. k \in Nat /\ k <= Len(log) /\ (IsFirst(buffer, log) => k = 0)
  BY <1>1, FirstQueue
<1>3. /\ r \notin joined /\ joined' = joined \cup {r} /\ at' = [at EXCEPT ![r] = k]
      /\ lost' = IF Len(log) - at'[r] > MaxQueue THEN lost \cup {r} ELSE lost
      /\ log' = log /\ got' = got
  BY DEF Subscribe, BusInv, ReaderInv, Before
<1>4. joined = {} => IsFirst(buffer, log)
  BY DEF BusInv, BufferInv
<1> HIDE DEF k
<1>5. at'[r] = k
  BY <1>1, <1>3
<1>6. at'[r] \in 0..Len(log)
  BY <1>1, <1>2, <1>5
<1> QED
  BY <1>2, <1>3, <1>4, <1>5, <1>6 DEF Log!Join

LEMMA ReceiveDelivers ==
  ASSUME BusInv, NEW r \in Readers, Receive(r)
  PROVE  Log!Deliver(r) \/ UNCHANGED <<log, joined, at, got, lost>>
<1>1. log' = log /\ joined' = joined /\ lost' = lost /\ state[r] = "reading"
  BY DEF Receive
<1>2. CASE Head(queue[r]) = SyntheticDone
  BY <1>1, <1>2 DEF Receive
<1>3. CASE Head(queue[r]) # SyntheticDone
  <2> DEFINE e == Head(queue[r])
  <2>1. /\ e.seq \in at[r] + 1 .. Len(log) /\ e = log[e.seq]
        /\ at' = [at EXCEPT ![r] = e.seq] /\ got' = [got EXCEPT ![r] = Append(@, e)]
        /\ r \notin lost => e.seq = at[r] + 1
    BY <1>3, GivenFromLog
  <2>2. r \in joined /\ ~HasDone(got[r])
    BY <1>1 DEF BusInv, ReaderInv
  <2>3. ~Log!SawDone(r)
    BY <2>2 DEF HasDone, Log!SawDone
  <2> HIDE DEF e
  <2>4. \E n \in at[r] + 1 .. Len(log) :
          /\ r \notin lost => n = at[r] + 1
          /\ at' = [at EXCEPT ![r] = n]
          /\ got' = [got EXCEPT ![r] = Append(@, log[n])]
    BY <2>1
  <2> QED
    BY <1>1, <2>2, <2>3, <2>4 DEF Log!Deliver
<1> QED
  BY <1>2, <1>3

LEMMA BusStepsAreLogSteps == BusInv /\ [Next]_vars => [Log!Next]_(Log!vars)
<1> SUFFICES ASSUME BusInv, [Next]_vars PROVE Log!Next \/ UNCHANGED <<log, joined, at, got, lost>>
  BY DEF Log!vars
<1>1. CASE Push \/ Answer \/ GiveUp \/ Beat
  <2>1. TypeOK
    BY DEF BusInv
  <2>2. PICK kinds \in Seq(Kinds) : kinds # <<>> /\ Broadcast(kinds)
    BY <1>1, <2>1, Pushes
  <2> QED
    BY <2>2, PushPublishes DEF Log!Next
<1>2. CASE Disconnect
  BY <1>2 DEF Disconnect, history
<1>3. ASSUME NEW r \in Readers, Subscribe(r) PROVE Log!Next
  BY <1>3, SubscribeJoins DEF Log!Next
<1>4. ASSUME NEW r \in Readers, Receive(r) PROVE Log!Next \/ UNCHANGED <<log, joined, at, got, lost>>
  BY <1>4, ReceiveDelivers DEF Log!Next
<1>5. ASSUME NEW r \in Readers, Cancelled(r) PROVE UNCHANGED <<log, joined, at, got, lost>>
  BY <1>5 DEF Cancelled, history
<1>6. CASE UNCHANGED vars
  BY <1>6 DEF vars, history
<1> QED
  BY <1>1, <1>2, <1>3, <1>4, <1>5, <1>6 DEF Next

(* The bus implements an event log: every subscriber is given the events     *)
(* from where it starts, once and in order, the first one from the           *)
(* beginning, and misses none unless it fell a queue behind                  *)
(* (notification_bus.py:16-20).                                              *)
THEOREM BusTheorem == Spec => ImplementsEventLog
<1>1. Init => Log!Init
  BY DEF Init, Log!Init
<1> QED
  BY <1>1, BusInvariant, BusStepsAreLogSteps, PTL DEF Spec, ImplementsEventLog, Log!Spec

-----------------------------------------------------------------------------
(* The streams.  A turn reaches the bus of another stream through what the   *)
(* chat or the agent holds as its bus, so that the invariant says whose bus  *)
(* that is while a turn runs; and a done ends its stream, so that a stream   *)
(* that carries one has its turn over.                                       *)
Events == [of : Streams, kind : {"event", "done"}]
Pipes  == [Streams -> Seq(Events)]

OwnOnly(s, q) == \A i \in 1..Len(q) : q[i].of = s
Silent(q)     == \A i \in 1..Len(q) : q[i].kind # "done"

ChatBusIsOurs ==
  \A s \in Streams :
    (OfChat(s) /\ run[s] = "running" => activeBus = s) /\ (run[s] = "waiting" => OfChat(s))

AgentBusIsOurs ==
  \A s \in Streams : via[s] = "agent" /\ run[s] \in {"asked", "running"} =>
    agentBus = s \/ (s \in crowded /\ agentBus \in crowded)

PipesAreOwn ==
  \A s \in Streams \ crowded :
    OwnOnly(s, pipe[s]) /\ (run[s] # "over" => Silent(pipe[s]))

CutOnlyByClient ==
  \A s \in Streams \ crowded :
    /\ run[s] \in {"dropped", "cancelled"} => reader[s] = "gone"
    /\ reader[s] = "ended" => run[s] = "over"

StreamsInv ==
  StreamsTypeOK /\ ChatBusIsOurs /\ AgentBusIsOurs /\ PipesAreOwn /\ CutOnlyByClient

LEMMA PushedEvent ==
  ASSUME NEW q \in Seq(Events), NEW s \in Streams, NEW kind \in {"event", "done"}
  PROVE  /\ Append(q, Pushed(s, kind)) \in Seq(Events)
         /\ OwnOnly(s, q) => OwnOnly(s, Append(q, Pushed(s, kind)))
         /\ Silent(q) /\ kind = "event" => Silent(Append(q, Pushed(s, kind)))
<1> DEFINE x == Pushed(s, kind)  r == Append(q, x)
<1>1. x \in Events /\ x.of = s /\ x.kind = kind
  BY DEF Pushed, Events
<1> HIDE DEF x
<1>2. /\ r \in Seq(Events) /\ Len(r) = Len(q) + 1 /\ Len(q) \in Nat
      /\ \A i \in 1..Len(q) : r[i] = q[i]
      /\ r[Len(q) + 1] = x
  BY <1>1, AppendProperties
<1>3. \A i \in 1..Len(r) : (i \in 1..Len(q) /\ r[i] = q[i]) \/ r[i] = x
  BY <1>2
<1> HIDE DEF r
<1>4. OwnOnly(s, q) => OwnOnly(s, r)
  BY <1>1, <1>3 DEF OwnOnly
<1>5. Silent(q) /\ kind = "event" => Silent(r)
  BY <1>1, <1>3 DEF Silent
<1> QED
  BY <1>2, <1>4, <1>5 DEF r, x

LEMMA RestOfPipe ==
  ASSUME NEW q \in Seq(Events), q # <<>>, NEW s
  PROVE  /\ Tail(q) \in Seq(Events) /\ Head(q).kind \in {"event", "done"}
         /\ OwnOnly(s, q) => OwnOnly(s, Tail(q))
         /\ Silent(q) => Silent(Tail(q)) /\ Head(q).kind = "event"
<1>1. /\ Tail(q) \in Seq(Events) /\ Len(Tail(q)) = Len(q) - 1 /\ Len(q) \in Nat /\ Len(q) >= 1
      /\ Head(q) = q[1] /\ Head(q) \in Events
      /\ \A i \in 1..Len(Tail(q)) : Tail(q)[i] = q[i + 1]
  BY EmptySeq, HeadTailProperties
<1>2. \A i \in 1..Len(Tail(q)) : i + 1 \in 1..Len(q) /\ Tail(q)[i] = q[i + 1]
  BY <1>1
<1>3. Head(q).kind \in {"event", "done"} /\ 1 \in 1..Len(q)
  BY <1>1 DEF Events
<1> QED
  BY <1>1, <1>2, <1>3 DEF OwnOnly, Silent

(* Pushed by s: into its own bus, or into one that is crowded.               *)
Carries(p, q, s) ==
  /\ q \in Pipes
  /\ \A x \in Streams \ crowded :
       (x # s => q[x] = p[x]) /\ (OwnOnly(x, p[x]) => OwnOnly(x, q[x]))

LEMMA IntoCarries ==
  ASSUME NEW p \in Pipes, NEW s \in Streams, NEW kind \in {"event", "done"},
         NEW bus \in Streams \cup {Nobody}, bus = s \/ bus \in crowded \/ bus = Nobody
  PROVE  /\ Carries(p, Into(p, bus, s, kind), s)
         /\ kind = "event" /\ Silent(p[s]) => s \in crowded \/ Silent(Into(p, bus, s, kind)[s])
<1> DEFINE q == Into(p, bus, s, kind)
<1>1. CASE bus = Nobody
  BY <1>1 DEF Into, Carries
<1>2. CASE bus # Nobody
  <2>1. q = [p EXCEPT ![bus] = Append(p[bus], Pushed(s, kind))]
    BY <1>2 DEF Into
  <2>2. bus \in Streams /\ p[bus] \in Seq(Events) /\ p \in [Streams -> Seq(Events)]
    BY <1>2 DEF Pipes
  <2>3. /\ Append(p[bus], Pushed(s, kind)) \in Seq(Events)
        /\ OwnOnly(s, p[bus]) => OwnOnly(s, Append(p[bus], Pushed(s, kind)))
        /\ Silent(p[bus]) /\ kind = "event" => Silent(Append(p[bus], Pushed(s, kind)))
    BY <2>2, PushedEvent
  <2> DEFINE a == Append(p[bus], Pushed(s, kind))
  <2> HIDE DEF a, q
  <2>4. q = [p EXCEPT ![bus] = a]
    BY <2>1 DEF a
  <2>5. q \in Pipes /\ q[bus] = a /\ \A x \in Streams \ {bus} : q[x] = p[x]
    BY <2>2, <2>3, <2>4 DEF Pipes, a
  <2>6. ASSUME NEW x \in Streams \ crowded
        PROVE  (x # s => q[x] = p[x]) /\ (OwnOnly(x, p[x]) => OwnOnly(x, q[x]))
    <3>1. CASE x = bus
      BY <3>1, <1>2, <2>3, <2>5 DEF a
    <3>2. CASE x # bus
      BY <3>2, <2>5
    <3> QED
      BY <3>1, <3>2
  <2>7. kind = "event" /\ Silent(p[s]) => s \in crowded \/ Silent(q[s])
    <3>1. CASE s = bus
      BY <3>1, <2>3, <2>5 DEF a
    <3>2. CASE s # bus
      BY <3>2, <2>5
    <3> QED
      BY <3>1, <3>2
  <2> QED
    BY <2>5, <2>6, <2>7 DEF Carries, q
<1> QED
  BY <1>1, <1>2

LEMMA CarriesOn ==
  ASSUME NEW p, NEW q, NEW r, NEW s, Carries(p, q, s), Carries(q, r, s)
  PROVE  Carries(p, r, s)
BY DEF Carries

LEMMA SharedBus ==
  ASSUME StreamsInv, NEW s \in Streams, run[s] = "running"
  PROVE  Shared(s) \in Streams \cup {Nobody} /\ (Shared(s) = s \/ Shared(s) \in crowded)
<1>1. CASE OfChat(s)
  BY <1>1 DEF Shared, OfChat, StreamsInv, StreamsTypeOK, ChatBusIsOurs
<1>2. CASE ~OfChat(s) /\ via[s] = "agent"
  BY <1>2 DEF Shared, StreamsInv, StreamsTypeOK, AgentBusIsOurs
<1>3. CASE ~OfChat(s) /\ via[s] # "agent"
  BY <1>3 DEF Shared
<1> QED
  BY <1>1, <1>2, <1>3

LEMMA PipesTyped == StreamsTypeOK => pipe \in Pipes
BY DEF StreamsTypeOK, Pipes, Events

LEMMA StreamsInvInit == StreamsInit => StreamsInv
<1> SUFFICES ASSUME StreamsInit PROVE StreamsInv
  OBVIOUS
<1>1. /\ via \in [Streams -> Gateway \cup Terminal]
      /\ run = [s \in Streams |-> "none"] /\ reader = [s \in Streams |-> "none"]
      /\ pipe = [s \in Streams |-> <<>>] /\ pushes = [s \in Streams |-> 0]
      /\ outcome = [s \in Streams |-> "none"]
      /\ activeBus = Nobody /\ agentBus = Nobody /\ crowded = {}
  BY DEF StreamsInit
<1>2. "none" \in Runs /\ "none" \in Readings /\ "none" \in Outcomes /\ 0 \in 0..MaxPushes
  BY StreamsAssumption DEF Runs, Readings, Outcomes
<1>3. pipe \in Pipes
  BY <1>1 DEF Pipes
<1>4. StreamsTypeOK
  BY <1>1, <1>2, <1>3 DEF StreamsTypeOK, Pipes, Events
<1>5. PipesAreOwn
  BY <1>1 DEF PipesAreOwn, OwnOnly, Silent
<1> QED
  BY <1>1, <1>4, <1>5 DEF StreamsInv, ChatBusIsOurs, AgentBusIsOurs, CutOnlyByClient

(* What a step of stream s does to its run and its reader, when the buses    *)
(* stay whose they are.                                                      *)
LEMMA StreamStep ==
  ASSUME StreamsInv, NEW s \in Streams, NEW how \in Runs, NEW where \in Readings,
         run' = [run EXCEPT ![s] = how], reader' = [reader EXCEPT ![s] = where],
         via' = via, activeBus' = activeBus, agentBus' = agentBus, crowded' = crowded,
         Carries(pipe, pipe', s),
         pushes' \in [Streams -> 0..MaxPushes], outcome' \in [Streams -> Outcomes],
         how = "running" => run[s] = "running" \/ ~OfChat(s), how = "waiting" => OfChat(s),
         how \in {"asked", "running"} /\ via[s] = "agent" => run[s] \in {"asked", "running"},
         s \notin crowded =>
           /\ how # "over" => Silent(pipe'[s])
           /\ how \in {"dropped", "cancelled"} => where = "gone"
           /\ where = "ended" => how = "over"
  PROVE  StreamsInv'
<1>0. /\ run \in [Streams -> Runs] /\ reader \in [Streams -> Readings]
      /\ via \in [Streams -> Gateway \cup Terminal]
  BY DEF StreamsInv, StreamsTypeOK
<1>1. /\ run'[s] = how /\ reader'[s] = where
      /\ \A t \in Streams \ {s} : run'[t] = run[t] /\ reader'[t] = reader[t]
      /\ run' \in [Streams -> Runs] /\ reader' \in [Streams -> Readings]
  BY <1>0
<1>2. StreamsTypeOK'
  BY <1>1 DEF StreamsInv, StreamsTypeOK, Carries, Pipes, Events
<1>3. ChatBusIsOurs'
  BY <1>1 DEF StreamsInv, ChatBusIsOurs, OfChat
<1>4. AgentBusIsOurs'
  BY <1>1 DEF StreamsInv, AgentBusIsOurs
<1>5. PipesAreOwn'
  BY <1>1 DEF StreamsInv, PipesAreOwn, Carries
<1>6. CutOnlyByClient'
  BY <1>1 DEF StreamsInv, CutOnlyByClient
<1> QED
  BY <1>2, <1>3, <1>4, <1>5, <1>6 DEF StreamsInv

LEMMA SameRun ==
  ASSUME StreamsInv, NEW s \in Streams
  PROVE  /\ run = [run EXCEPT ![s] = run[s]] /\ run[s] \in Runs
         /\ reader = [reader EXCEPT ![s] = reader[s]] /\ reader[s] \in Readings
         /\ pipe \in Pipes /\ Carries(pipe, pipe, s)
         /\ pushes \in [Streams -> 0..MaxPushes] /\ outcome \in [Streams -> Outcomes]
         /\ run[s] = "waiting" => OfChat(s)
         /\ s \notin crowded =>
              /\ OwnOnly(s, pipe[s]) /\ (run[s] # "over" => Silent(pipe[s]))
              /\ run[s] \in {"dropped", "cancelled"} => reader[s] = "gone"
              /\ reader[s] = "ended" => run[s] = "over"
<1>1. /\ run \in [Streams -> Runs] /\ reader \in [Streams -> Readings] /\ pipe \in Pipes
      /\ pushes \in [Streams -> 0..MaxPushes] /\ outcome \in [Streams -> Outcomes]
  BY PipesTyped DEF StreamsInv, StreamsTypeOK
<1>2. Carries(pipe, pipe, s)
  BY <1>1 DEF Carries
<1>3. run = [run EXCEPT ![s] = run[s]] /\ reader = [reader EXCEPT ![s] = reader[s]]
  BY <1>1
<1> QED
  BY <1>1, <1>2, <1>3 DEF StreamsInv, ChatBusIsOurs, PipesAreOwn, CutOnlyByClient

LEMMA StreamStates ==
  /\ {"none", "asked", "waiting", "running", "dropped", "cancelled", "over"} = Runs
  /\ {"none", "reading", "awaiting", "ended", "gone"} = Readings
BY DEF Runs, Readings

LEMMA AskKeepsStreams ==
  ASSUME StreamsInv, NEW s \in Streams, Ask(s)
  PROVE  StreamsInv'
<1>1. /\ via[s] = "agent" /\ run[s] = "none" /\ run' = [run EXCEPT ![s] = "asked"]
      /\ agentBus' = s /\ UNCHANGED <<via, reader, pipe, pushes, outcome, activeBus>>
      /\ crowded' = IF Beside(s) = {} THEN crowded ELSE crowded \cup {s} \cup Beside(s)
  BY DEF Ask, Crowd
<1>2. /\ run \in [Streams -> Runs] /\ "asked" \in Runs /\ Beside(s) \subseteq Streams
      /\ crowded \subseteq Streams
  BY StreamStates DEF StreamsInv, StreamsTypeOK, Beside
<1>3. /\ run'[s] = "asked" /\ \A t \in Streams \ {s} : run'[t] = run[t]
      /\ run' \in [Streams -> Runs]
  BY <1>1, <1>2
<1>4. crowded \subseteq crowded' /\ crowded' \subseteq Streams
  BY <1>1, <1>2
<1>5. StreamsTypeOK'
  BY <1>1, <1>3, <1>4 DEF StreamsInv, StreamsTypeOK
<1>6. ChatBusIsOurs'
  BY <1>1, <1>3 DEF StreamsInv, ChatBusIsOurs, OfChat
<1>7. AgentBusIsOurs'
  <2> SUFFICES ASSUME NEW t \in Streams, via[t] = "agent", run'[t] \in {"asked", "running"}, t # s
               PROVE  t \in crowded' /\ s \in crowded'
    BY <1>1 DEF AgentBusIsOurs
  <2>1. t \in Beside(s)
    BY <1>3 DEF Beside
  <2> QED
    BY <2>1, <1>1
<1>8. PipesAreOwn' /\ CutOnlyByClient'
  <2> SUFFICES ASSUME NEW t \in Streams \ crowded'
               PROVE  /\ OwnOnly(t, pipe[t]) /\ (run'[t] # "over" => Silent(pipe[t]))
                      /\ run'[t] \in {"dropped", "cancelled"} => reader[t] = "gone"
                      /\ reader[t] = "ended" => run'[t] = "over"
    BY <1>1 DEF PipesAreOwn, CutOnlyByClient
  <2>1. /\ OwnOnly(t, pipe[t]) /\ (run[t] # "over" => Silent(pipe[t]))
        /\ run[t] \in {"dropped", "cancelled"} => reader[t] = "gone"
        /\ reader[t] = "ended" => run[t] = "over"
    BY <1>4 DEF StreamsInv, PipesAreOwn, CutOnlyByClient
  <2> QED
    BY <2>1, <1>1, <1>3
<1> QED
  BY <1>5, <1>6, <1>7, <1>8 DEF StreamsInv

LEMMA TakeKeepsStreams ==
  ASSUME StreamsInv, NEW s \in Streams, Take(s)
  PROVE  StreamsInv'
<1>1. /\ run[s] = "waiting" /\ run' = [run EXCEPT ![s] = "running"] /\ activeBus' = s
      /\ \A t \in Streams : OfChat(t) => run[t] \notin {"running", "cancelled"}
      /\ UNCHANGED <<via, reader, pipe, pushes, outcome, agentBus, crowded>>
  BY DEF Take, LockFree
<1>2. run \in [Streams -> Runs] /\ "running" \in Runs
  BY StreamStates DEF StreamsInv, StreamsTypeOK
<1>3. /\ run'[s] = "running" /\ \A t \in Streams \ {s} : run'[t] = run[t]
      /\ run' \in [Streams -> Runs]
  BY <1>1, <1>2
<1>4. StreamsTypeOK'
  BY <1>1, <1>3 DEF StreamsInv, StreamsTypeOK
<1>5. ChatBusIsOurs'
  BY <1>1, <1>3 DEF StreamsInv, ChatBusIsOurs, OfChat
<1>6. AgentBusIsOurs'
  <2>1. via[s] # "agent"
    BY <1>1 DEF StreamsInv, ChatBusIsOurs, OfChat
  <2> QED
    BY <2>1, <1>1, <1>3 DEF StreamsInv, AgentBusIsOurs
<1>7. PipesAreOwn' /\ CutOnlyByClient'
  BY <1>1, <1>3 DEF StreamsInv, PipesAreOwn, CutOnlyByClient
<1> QED
  BY <1>4, <1>5, <1>6, <1>7 DEF StreamsInv

LEMMA BeginKeepsStreams ==
  ASSUME StreamsInv, NEW s \in Streams, Begin(s)
  PROVE  StreamsInv'
<1> DEFINE how == IF OfChat(s) THEN "waiting" ELSE "running"
<1>1. /\ run[s] = IF via[s] = "agent" THEN "asked" ELSE "none"
      /\ run' = [run EXCEPT ![s] = how] /\ reader' = [reader EXCEPT ![s] = "reading"]
      /\ UNCHANGED <<via, pipe, pushes, outcome, activeBus, agentBus, crowded>>
  BY DEF Begin
<1>2. how \in Runs /\ "reading" \in Readings /\ how \in {"waiting", "running"}
  BY StreamStates
<1>3. (how = "running" => ~OfChat(s)) /\ (how = "waiting" => OfChat(s))
  OBVIOUS
<1> HIDE DEF how
<1>4. s \notin crowded => Silent(pipe[s])
  BY <1>1, SameRun
<1> QED
  BY <1>1, <1>2, <1>3, <1>4, SameRun, StreamStep

LEMMA EmitKeepsStreams ==
  ASSUME StreamsInv, NEW s \in Streams, Emit(s)
  PROVE  StreamsInv'
<1>1. /\ run[s] = "running" /\ pushes[s] < MaxPushes /\ pushes' = [pushes EXCEPT ![s] = @ + 1]
      /\ UNCHANGED <<via, run, reader, outcome, activeBus, agentBus, crowded>>
  BY DEF Emit
<1>2. PICK bus \in {s, Shared(s)} : pipe' = Into(pipe, bus, s, "event")
  BY DEF Emit
<1>3. bus \in Streams \cup {Nobody} /\ (bus = s \/ bus \in crowded)
  BY <1>1, <1>2, SharedBus
<1>4. /\ Carries(pipe, pipe', s)
      /\ Silent(pipe[s]) => s \in crowded \/ Silent(pipe'[s])
  BY <1>2, <1>3, SameRun, IntoCarries
<1>5. pushes' \in [Streams -> 0..MaxPushes]
  BY <1>1, StreamsAssumption DEF StreamsInv, StreamsTypeOK
<1>6. outcome' \in [Streams -> Outcomes] /\ run' = [run EXCEPT ![s] = run[s]]
      /\ reader' = [reader EXCEPT ![s] = reader[s]]
  BY <1>1, SameRun
<1>7. s \notin crowded =>
        /\ Silent(pipe'[s])
        /\ run[s] \in {"dropped", "cancelled"} => reader[s] = "gone"
        /\ reader[s] = "ended" => run[s] = "over"
  BY <1>1, <1>4, SameRun
<1> QED
  BY <1>1, <1>4, <1>5, <1>6, <1>7, SameRun, StreamStep

(* The pushes of a turn that comes back stay in its stream.                  *)
LEMMA EndCarries ==
  ASSUME StreamsInv, NEW s \in Streams, run[s] = "running", NEW how
  PROVE  Carries(pipe, Closing(s, TurnEnd(s, how)), s)
<1> DEFINE bus == IF OfChat(s) THEN s ELSE Shared(s)
           p == IF Tells(s, how) THEN Into(pipe, bus, s, "done") ELSE pipe
           q == IF how \in {"answered", "exhausted"} THEN Into(p, Shared(s), s, "event") ELSE p
           r == IF via[s] = "socket" THEN q ELSE Into(q, s, s, "done")
<1>1. pipe \in Pipes /\ Carries(pipe, pipe, s)
  BY SameRun
<1>2. /\ bus \in Streams \cup {Nobody} /\ (bus = s \/ bus \in crowded)
      /\ Shared(s) \in Streams \cup {Nobody} /\ (Shared(s) = s \/ Shared(s) \in crowded)
  BY SharedBus
<1>3. Closing(s, TurnEnd(s, how)) = r
  BY DEF Closing, TurnEnd
<1> HIDE DEF bus
<1>4. Carries(pipe, p, s)
  BY <1>1, <1>2, IntoCarries
<1> HIDE DEF p
<1>5. Carries(pipe, q, s)
  <2>1. p \in Pipes
    BY <1>4 DEF Carries
  <2>2. Carries(p, Into(p, Shared(s), s, "event"), s)
    BY <2>1, <1>2, IntoCarries
  <2> QED
    BY <2>2, <1>4, CarriesOn
<1> HIDE DEF q
<1>6. Carries(pipe, r, s)
  <2>1. q \in Pipes
    BY <1>5 DEF Carries
  <2>2. Carries(q, Into(q, s, s, "done"), s)
    BY <2>1, IntoCarries
  <2> QED
    BY <2>2, <1>5, CarriesOn
<1> QED
  BY <1>3, <1>6

LEMMA ReturnKeepsStreams ==
  ASSUME StreamsInv, NEW s \in Streams, Return(s)
  PROVE  StreamsInv'
<1>1. /\ run[s] = "running" /\ run' = [run EXCEPT ![s] = "over"]
      /\ UNCHANGED <<via, reader, pushes, activeBus, agentBus, crowded>>
  BY DEF Return
<1>2. PICK how \in Endings(s) : /\ outcome' = [outcome EXCEPT ![s] = how]
                                /\ pipe' = Closing(s, TurnEnd(s, how))
  BY DEF Return
<1>3. Carries(pipe, pipe', s)
  BY <1>1, <1>2, EndCarries
<1>4. outcome' \in [Streams -> Outcomes]
  <2>1. how \in Outcomes
    BY <1>2 DEF Endings, Outcomes
  <2> QED
    BY <2>1, <1>2, SameRun
<1>5. "over" \in Runs /\ pushes' \in [Streams -> 0..MaxPushes]
  BY <1>1, StreamStates, SameRun
<1>6. reader' = [reader EXCEPT ![s] = reader[s]] /\ reader[s] \in Readings
  BY <1>1, SameRun
<1> QED
  BY <1>1, <1>3, <1>4, <1>5, <1>6, SameRun, StreamStep

LEMMA CancelKeepsStreams ==
  ASSUME StreamsInv, NEW s \in Streams, Cancel(s)
  PROVE  StreamsInv'
<1>1. /\ outcome' = [outcome EXCEPT ![s] = "cancelled"] /\ run' = [run EXCEPT ![s] = "over"]
      /\ pipe' = IF via[s] = "socket" THEN pipe ELSE Into(pipe, s, s, "done")
      /\ UNCHANGED <<via, reader, pushes, activeBus, agentBus, crowded>>
  BY DEF Cancel, Closing
<1>2. Carries(pipe, pipe', s)
  BY <1>1, SameRun, IntoCarries
<1>3. outcome' \in [Streams -> Outcomes]
  <2>1. "cancelled" \in Outcomes
    BY DEF Outcomes
  <2> QED
    BY <2>1, <1>1, SameRun
<1>5. "over" \in Runs /\ pushes' \in [Streams -> 0..MaxPushes]
  BY <1>1, StreamStates, SameRun
<1>6. reader' = [reader EXCEPT ![s] = reader[s]] /\ reader[s] \in Readings
  BY <1>1, SameRun
<1> QED
  BY <1>1, <1>2, <1>3, <1>5, <1>6, SameRun, StreamStep

(* How Cut leaves the run of s.                                              *)
LEMMA CutRun ==
  ASSUME StreamsInv, NEW s \in Streams
  PROVE  \E how \in Runs :
           /\ Cut(s) = [run EXCEPT ![s] = how]
           /\ how = run[s] \/ how \in {"dropped", "cancelled"}
           /\ run[s] = "over" => how = "over"
<1> DEFINE how == CASE run[s] = "running" -> "cancelled" [] run[s] = "waiting" -> "dropped"
                    [] OTHER -> run[s]
<1>1. run[s] \in Runs
  BY SameRun
<1>2. /\ how \in Runs /\ (how = run[s] \/ how \in {"dropped", "cancelled"})
      /\ run[s] = "over" => how = "over"
  BY <1>1, StreamStates
<1>3. Cut(s) = [run EXCEPT ![s] = how]
  BY DEF Cut
<1> HIDE DEF how
<1> QED
  BY <1>2, <1>3

(* Events taken from the pipe of s, or all of them.                          *)
LEMMA LessInPipe ==
  ASSUME StreamsInv, NEW s \in Streams, NEW q \in Seq(Events), pipe' = [pipe EXCEPT ![s] = q],
         crowded' = crowded, OwnOnly(s, pipe[s]) => OwnOnly(s, q)
  PROVE  Carries(pipe, pipe', s) /\ pipe'[s] = q
<1>1. pipe \in [Streams -> Seq(Events)]
  BY SameRun DEF Pipes
<1>2. pipe' \in [Streams -> Seq(Events)] /\ pipe'[s] = q /\ \A x \in Streams \ {s} : pipe'[x] = pipe[x]
  BY <1>1
<1> QED
  BY <1>2 DEF Carries, Pipes

LEMMA ReadKeepsStreams ==
  ASSUME StreamsInv, NEW s \in Streams, Read(s)
  PROVE  StreamsInv'
<1>1. /\ reader[s] = "reading" /\ pipe[s] # <<>> /\ pipe' = [pipe EXCEPT ![s] = Tail(pipe[s])]
      /\ UNCHANGED <<via, pushes, outcome, activeBus, agentBus, crowded>>
  BY DEF Read
<1>2. pipe[s] \in Seq(Events)
  BY SameRun DEF Pipes
<1>3. /\ Tail(pipe[s]) \in Seq(Events) /\ Head(pipe[s]).kind \in {"event", "done"}
      /\ OwnOnly(s, pipe[s]) => OwnOnly(s, Tail(pipe[s]))
      /\ Silent(pipe[s]) => Silent(Tail(pipe[s])) /\ Head(pipe[s]).kind = "event"
  BY <1>1, <1>2, RestOfPipe
<1>4. Carries(pipe, pipe', s) /\ pipe'[s] = Tail(pipe[s])
  BY <1>1, <1>3, LessInPipe
<1>5. pushes' \in [Streams -> 0..MaxPushes] /\ outcome' \in [Streams -> Outcomes]
  BY <1>1, SameRun
<1>6. CASE Head(pipe[s]).kind = "event"
  <2>1. run' = run /\ reader' = reader
    BY <1>6 DEF Read
  <2>2. run' = [run EXCEPT ![s] = run[s]] /\ reader' = [reader EXCEPT ![s] = reader[s]]
    BY <2>1, SameRun
  <2>3. s \notin crowded =>
          /\ run[s] # "over" => Silent(pipe'[s])
          /\ run[s] \in {"dropped", "cancelled"} => reader[s] = "gone"
          /\ reader[s] = "ended" => run[s] = "over"
    BY <1>3, <1>4, SameRun
  <2> QED
    BY <2>2, <2>3, <1>1, <1>4, <1>5, SameRun, StreamStep
<1>7. CASE Head(pipe[s]).kind = "done"
  <2> DEFINE where == IF via[s] \in {"socket", "thread"} THEN "awaiting" ELSE "ended"
  <2>1. /\ reader' = [reader EXCEPT ![s] = where]
        /\ run' = IF via[s] = "agent" THEN Cut(s) ELSE run
    BY <1>7 DEF Read
  <2>2. where \in Readings /\ where # "gone"
    BY StreamStates
  <2> HIDE DEF where
  <2>3. PICK how \in Runs : /\ run' = [run EXCEPT ![s] = how]
                            /\ how = run[s] \/ how \in {"dropped", "cancelled"}
                            /\ run[s] = "over" => how = "over"
    BY <2>1, SameRun, CutRun
  <2>4. s \notin crowded => how = "over"
    BY <2>3, <1>3, <1>7, SameRun
  <2>5. /\ how = "running" => run[s] = "running" \/ ~OfChat(s)
        /\ how = "waiting" => OfChat(s)
        /\ how \in {"asked", "running"} /\ via[s] = "agent" => run[s] \in {"asked", "running"}
    BY <2>3, SameRun
  <2> QED
    BY <2>1, <2>2, <2>3, <2>4, <2>5, <1>1, <1>4, <1>5, StreamStep
<1> QED
  BY <1>3, <1>6, <1>7

LEMMA GiveUpKeepsStreams ==
  ASSUME StreamsInv, NEW s \in Streams, GiveUpReading(s)
  PROVE  StreamsInv'
<1>1. /\ run[s] = "over" /\ reader' = [reader EXCEPT ![s] = "gone"]
      /\ pipe' = [pipe EXCEPT ![s] = <<>>]
      /\ UNCHANGED <<via, run, pushes, outcome, activeBus, agentBus, crowded>>
  BY DEF GiveUpReading
<1>2. <<>> \in Seq(Events) /\ OwnOnly(s, <<>>) /\ "gone" \in Readings
  BY StreamStates DEF OwnOnly
<1>3. Carries(pipe, pipe', s)
  BY <1>1, <1>2, LessInPipe
<1>4. /\ run' = [run EXCEPT ![s] = run[s]]
      /\ pushes' \in [Streams -> 0..MaxPushes] /\ outcome' \in [Streams -> Outcomes]
  BY <1>1, SameRun
<1> QED
  BY <1>1, <1>2, <1>3, <1>4, SameRun, StreamStep

LEMMA CompleteKeepsStreams ==
  ASSUME StreamsInv, NEW s \in Streams, Complete(s)
  PROVE  StreamsInv'
<1>1. /\ run[s] = "over" /\ reader' = [reader EXCEPT ![s] = "ended"]
      /\ UNCHANGED <<via, run, pipe, pushes, outcome, activeBus, agentBus, crowded>>
  BY DEF Complete
<1>2. "ended" \in Readings
  BY StreamStates
<1>3. Carries(pipe, pipe', s)
  BY <1>1, SameRun
<1>4. /\ run' = [run EXCEPT ![s] = run[s]]
      /\ pushes' \in [Streams -> 0..MaxPushes] /\ outcome' \in [Streams -> Outcomes]
  BY <1>1, SameRun
<1> QED
  BY <1>1, <1>2, <1>3, <1>4, SameRun, StreamStep

LEMMA LeaveKeepsStreams ==
  ASSUME StreamsInv, NEW s \in Streams, Leave(s)
  PROVE  StreamsInv'
<1>1. /\ pipe' = [pipe EXCEPT ![s] = <<>>]
      /\ UNCHANGED <<via, pushes, outcome, activeBus, agentBus, crowded>>
  BY DEF Leave
<1>2. <<>> \in Seq(Events) /\ OwnOnly(s, <<>>) /\ Silent(<<>>)
  BY DEF OwnOnly, Silent
<1>3. Carries(pipe, pipe', s) /\ Silent(pipe'[s])
  BY <1>1, <1>2, LessInPipe
<1>4. pushes' \in [Streams -> 0..MaxPushes] /\ outcome' \in [Streams -> Outcomes]
  BY <1>1, SameRun
<1>5. CASE via[s] = "socket"
  <2>1. reader[s] = "reading" /\ reader' = [reader EXCEPT ![s] = "awaiting"] /\ run' = run
    BY <1>5 DEF Leave
  <2>2. run' = [run EXCEPT ![s] = run[s]] /\ "awaiting" \in Readings
    BY <2>1, StreamStates, SameRun
  <2> QED
    BY <2>1, <2>2, <1>1, <1>3, <1>4, SameRun, StreamStep
<1>6. CASE via[s] # "socket"
  <2>1. reader' = [reader EXCEPT ![s] = "gone"] /\ run' = Cut(s)
    BY <1>6 DEF Leave
  <2>2. PICK how \in Runs : /\ run' = [run EXCEPT ![s] = how]
                            /\ how = run[s] \/ how \in {"dropped", "cancelled"}
                            /\ run[s] = "over" => how = "over"
    BY <2>1, CutRun
  <2>3. "gone" \in Readings
    BY StreamStates
  <2>4. /\ how = "running" => run[s] = "running" \/ ~OfChat(s)
        /\ how = "waiting" => OfChat(s)
        /\ how \in {"asked", "running"} /\ via[s] = "agent" => run[s] \in {"asked", "running"}
    BY <2>2, SameRun
  <2> QED
    BY <2>1, <2>2, <2>3, <2>4, <1>1, <1>3, <1>4, StreamStep
<1> QED
  BY <1>5, <1>6

LEMMA StreamsInvNext == StreamsInv /\ [StreamsNext]_streamVars => StreamsInv'
<1> SUFFICES ASSUME StreamsInv, [StreamsNext]_streamVars PROVE StreamsInv'
  OBVIOUS
<1>1. ASSUME NEW s \in Streams, Ask(s) \/ Begin(s) \/ Take(s) PROVE StreamsInv'
  BY <1>1, AskKeepsStreams, BeginKeepsStreams, TakeKeepsStreams
<1>2. ASSUME NEW s \in Streams, Emit(s) \/ Return(s) \/ Cancel(s) PROVE StreamsInv'
  BY <1>2, EmitKeepsStreams, ReturnKeepsStreams, CancelKeepsStreams
<1>3. ASSUME NEW s \in Streams, Read(s) \/ GiveUpReading(s) \/ Complete(s) \/ Leave(s)
      PROVE  StreamsInv'
  BY <1>3, ReadKeepsStreams, GiveUpKeepsStreams, CompleteKeepsStreams, LeaveKeepsStreams
<1>4. CASE UNCHANGED streamVars
  BY <1>4 DEF streamVars, StreamsInv, StreamsTypeOK, ChatBusIsOurs, AgentBusIsOurs, PipesAreOwn,
              CutOnlyByClient, OfChat
<1> QED
  BY <1>1, <1>2, <1>3, <1>4 DEF StreamsNext

LEMMA StreamsInvImplies == StreamsInv => StreamsAreTheirOwn
<1> SUFFICES ASSUME StreamsInv, NEW s \in Streams \ crowded
             PROVE  \A i \in DOMAIN pipe[s] : pipe[s][i].of = s
  BY DEF StreamsInv, CutOnlyByClient, StreamsAreTheirOwn
<1>1. DOMAIN pipe[s] = 1..Len(pipe[s])
  <2>1. pipe[s] \in Seq(Events)
    BY SameRun DEF Pipes
  <2> QED
    BY <2>1, LenProperties
<1> QED
  BY <1>1 DEF StreamsInv, PipesAreOwn, OwnOnly

(* A stream carries the events of its own turn and nobody but its client     *)
(* cuts its turn short, unless turns overlapped on the agent, for any number *)
(* of requests on one chat and one agent.                                    *)
THEOREM StreamsTheorem == StreamsInit /\ [][StreamsNext]_streamVars => []StreamsAreTheirOwn
BY StreamsInvInit, StreamsInvNext, StreamsInvImplies, PTL

-----------------------------------------------------------------------------
(* A list without one of its members.                                        *)
LEMMA WithoutGives ==
  ASSUME NEW X, NEW s \in Seq(X), NEW c
  PROVE  /\ Without(s, c) \in Seq(X) /\ ToSet(Without(s, c)) = ToSet(s) \ {c}
         /\ IsInjective(s) => IsInjective(Without(s, c))
<1> DEFINE keep == [i \in DOMAIN s |-> s[i] # c]
           w == Without(s, c)
<1>1. w = Filter(s, keep)
  BY DEF Without
<1>0. DOMAIN s = 1..Len(s) /\ Len(s) \in Nat
  OBVIOUS
<1>2. DOMAIN s = 1..Len(s) /\ Len(s) \in Nat /\ keep \in [1..Len(s) -> BOOLEAN] /\ \A i \in 1..Len(s) : keep[i] <=> s[i] # c
  <2>1. keep \in [1..Len(s) -> BOOLEAN]
    BY <1>0, Zenon
  <2>2. \A i \in 1..Len(s) : keep[i] <=> s[i] # c
    BY <1>0, Zenon
  <2> QED
    BY <1>0, <2>1, <2>2
<1> HIDE DEF keep, w
<1>3. w \in Seq(X)
  BY <1>1, <1>2, FilterIs
<1>10. PICK spot : Picks(spot, w, s, keep)
  BY <1>1, <1>2, FilterIs
<1>4. /\ spot \in [1..Len(w) -> 1..Len(s)]
      /\ \A i \in 1..Len(w) : keep[spot[i]] /\ w[i] = s[spot[i]]
      /\ \A i, j \in 1..Len(w) : i < j => spot[i] < spot[j]
      /\ \A k \in 1..Len(s) : keep[k] => \E i \in 1..Len(w) : spot[i] = k
  BY <1>10 DEF Picks
<1>5. DOMAIN w = 1..Len(w) /\ Len(w) \in Nat
  BY <1>3
<1>6. ASSUME NEW i \in 1..Len(w) PROVE w[i] \in ToSet(s) \ {c}
  <2>1. spot[i] \in 1..Len(s) /\ keep[spot[i]] /\ w[i] = s[spot[i]]
    BY <1>4, Zenon
  <2>2. s[spot[i]] # c /\ spot[i] \in DOMAIN s
    BY <1>2, <2>1
  <2> QED
    BY <2>1, <2>2 DEF ToSet
<1>7. ASSUME NEW k \in 1..Len(s), s[k] # c PROVE s[k] \in ToSet(w)
  <2>1. keep[k]
    BY <1>2, <1>7
  <2>2. PICK i \in 1..Len(w) : spot[i] = k
    BY <1>4, <2>1
  <2>3. w[i] = s[k] /\ i \in DOMAIN w
    BY <1>4, <1>5, <2>2
  <2> QED
    BY <2>3 DEF ToSet
<1>8. ToSet(w) = ToSet(s) \ {c}
  BY <1>2, <1>5, <1>6, <1>7 DEF ToSet
<1>9. ASSUME IsInjective(s), NEW i \in 1..Len(w), NEW j \in 1..Len(w), w[i] = w[j] PROVE i = j
  <2>1. spot[i] = spot[j]
    BY <1>2, <1>4, <1>9 DEF IsInjective
  <2>2. spot[i] \in Nat /\ spot[j] \in Nat
    BY <1>4
  <2>3. ~(i < j) /\ ~(j < i)
    BY <1>4, <2>1, <2>2
  <2> QED
    BY <1>5, <2>3
<1> QED
  BY <1>3, <1>5, <1>8, <1>9 DEF w, IsInjective

(* Where no member is twice, those behind it move up by one.                 *)
LEMMA WithoutOne ==
  ASSUME NEW X, NEW s \in Seq(X), NEW c, IsInjective(s)
  PROVE  \E j \in Nat \ {0} :
           /\ \A k \in 1..Len(s) : s[k] # c <=> k # j
           /\ Without(s, c) = LeftOut(s, j)
<1> DEFINE keep == [i \in DOMAIN s |-> s[i] # c]
<1>1. Without(s, c) = Filter(s, keep)
  BY DEF Without
<1>0. DOMAIN s = 1..Len(s) /\ Len(s) \in Nat
  OBVIOUS
<1>2. DOMAIN s = 1..Len(s) /\ Len(s) \in Nat /\ keep \in [1..Len(s) -> BOOLEAN] /\ \A i \in 1..Len(s) : keep[i] <=> s[i] # c
  <2>1. keep \in [1..Len(s) -> BOOLEAN]
    BY <1>0, Zenon
  <2>2. \A i \in 1..Len(s) : keep[i] <=> s[i] # c
    BY <1>0, Zenon
  <2> QED
    BY <1>0, <2>1, <2>2
<1>3. PICK j \in Nat \ {0} : \A k \in 1..Len(s) : s[k] # c <=> k # j
  <2>1. CASE \E k \in 1..Len(s) : s[k] = c
    <3>1. PICK j \in 1..Len(s) : s[j] = c
      BY <2>1
    <3>2. \A k \in 1..Len(s) : s[k] # c <=> k # j
      BY <1>2, <3>1 DEF IsInjective
    <3>3. j \in Nat \ {0}
      BY <1>2
    <3> QED
      BY <3>2, <3>3
  <2>2. CASE \A k \in 1..Len(s) : s[k] # c
    <3>1. Len(s) + 1 \in Nat \ {0} /\ \A k \in 1..Len(s) : k # Len(s) + 1
      BY <1>2
    <3> QED
      BY <2>2, <3>1
  <2> QED
    BY <2>1, <2>2
<1> HIDE DEF keep
<1>4. \A k \in 1..Len(s) : keep[k] <=> k # j
  BY <1>2, <1>3
<1> QED
  BY <1>1, <1>2, <1>3, <1>4, FilterBut

LEMMA AppendGives ==
  ASSUME NEW X, NEW s \in Seq(X), NEW x \in X
  PROVE  /\ Append(s, x) \in Seq(X) /\ ToSet(Append(s, x)) = ToSet(s) \cup {x}
         /\ IsInjective(s) /\ x \notin ToSet(s) => IsInjective(Append(s, x))
<1>1. /\ Append(s, x) \in Seq(X) /\ Len(Append(s, x)) = Len(s) + 1 /\ Append(s, x)[Len(s) + 1] = x
      /\ \A i \in 1..Len(s) : Append(s, x)[i] = s[i]
  OBVIOUS
<1>2. DOMAIN s = 1..Len(s) /\ DOMAIN Append(s, x) = 1..Len(s) + 1 /\ Len(s) \in Nat
  BY <1>1
<1> QED
  BY <1>1, <1>2 DEF ToSet, IsInjective

-----------------------------------------------------------------------------
(* The composer: a picture that was seen is drawn as long as it is attached, *)
(* and is in no message before.                                              *)
PostedIn(p) == {i \in DOMAIN posted : p \in ToSet(posted[i])}

PicturesInv ==
  /\ ComposerTypeOK /\ IsInjective(images)
  /\ ToSet(drawn) = seen \cap ToSet(images)
  /\ reading \cap (ToSet(images) \cup seen \cup removed) = {}
  /\ removed \subseteq seen /\ removed \cap ToSet(images) = {}
  /\ dropped \subseteq seen /\ dropped \cap ToSet(images) = {}
  /\ \A p : PostedIn(p) # {} => p \in seen /\ p \notin ToSet(images) \cup removed \cup dropped
  /\ \A p \in seen : p \notin ToSet(images) \cup removed \cup dropped => \E i : PostedIn(p) = {i}

LEMMA PicturesInvInit == ComposerInit => PicturesInv
<1> SUFFICES ASSUME ComposerInit PROVE PicturesInv
  OBVIOUS
<1>1. written \in BOOLEAN /\ answering \in BOOLEAN
  BY Zenon DEF ComposerInit
<1>2. ToSet(<<>>) = {} /\ IsInjective(<<>>) /\ DOMAIN <<>> = {}
  BY DEF ToSet, IsInjective
<1> QED
  BY <1>1, <1>2 DEF ComposerInit, PicturesInv, ComposerTypeOK, PostedIn

LEMMA AddImageKeeps ==
  ASSUME PicturesInv, NEW p \in Pictures, AddImage(p)
  PROVE  PicturesInv'
<1>1. /\ reading' = reading \cup {p} /\ p \notin ToSet(images) \cup removed \cup seen
      /\ UNCHANGED <<images, drawn, written, answering, posted, dropped, removed, seen>>
  BY DEF AddImage, Attached
<1>2. ComposerTypeOK'
  BY <1>1 DEF PicturesInv, ComposerTypeOK
<1>3. \A q : PostedIn(q)' = PostedIn(q)
  BY <1>1 DEF PostedIn
<1> QED
  BY <1>1, <1>2, <1>3 DEF PicturesInv

LEMMA ImageReadKeeps ==
  ASSUME PicturesInv, NEW p \in Pictures, ImageRead(p)
  PROVE  PicturesInv'
<1>1. /\ p \in reading /\ reading' = reading \ {p} /\ images' = Append(images, p)
      /\ UNCHANGED <<drawn, written, answering, posted, dropped, removed, seen>>
  BY DEF ImageRead
<1>2. p \notin ToSet(images) \cup seen \cup removed
  BY <1>1 DEF PicturesInv
<1>3. images' \in Seq(Pictures) /\ ToSet(images') = ToSet(images) \cup {p} /\ IsInjective(images')
  BY <1>1, <1>2, AppendGives DEF PicturesInv, ComposerTypeOK
<1>4. ComposerTypeOK'
  BY <1>1, <1>3 DEF PicturesInv, ComposerTypeOK
<1>5. \A q : PostedIn(q)' = PostedIn(q)
  BY <1>1 DEF PostedIn
<1>6. /\ ToSet(drawn) = seen \cap ToSet(images) /\ removed \subseteq seen /\ dropped \subseteq seen
      /\ removed \cap ToSet(images) = {} /\ dropped \cap ToSet(images) = {}
      /\ reading \cap (ToSet(images) \cup seen \cup removed) = {}
  BY DEF PicturesInv
<1>7. /\ ToSet(drawn') = seen' \cap ToSet(images')
      /\ reading' \cap (ToSet(images') \cup seen' \cup removed') = {}
      /\ removed' \subseteq seen' /\ removed' \cap ToSet(images') = {}
      /\ dropped' \subseteq seen' /\ dropped' \cap ToSet(images') = {}
  BY <1>1, <1>2, <1>3, <1>6
<1>8. \A q : PostedIn(q) # {} => q \in seen /\ q \notin ToSet(images') \cup removed \cup dropped
  BY <1>2, <1>3 DEF PicturesInv
<1>9. \A q \in seen : q \notin ToSet(images') \cup removed \cup dropped => \E i : PostedIn(q) = {i}
  BY <1>3 DEF PicturesInv
<1> QED
  BY <1>1, <1>3, <1>4, <1>5, <1>7, <1>8, <1>9 DEF PicturesInv

LEMMA DrawKeeps ==
  ASSUME PicturesInv, Draw
  PROVE  PicturesInv'
<1>1. /\ drawn' = images /\ seen' = seen \cup ToSet(images)
      /\ UNCHANGED <<reading, images, written, answering, posted, dropped, removed>>
  BY DEF Draw
<1>2. ToSet(images) \subseteq Pictures
  BY DEF PicturesInv, ComposerTypeOK, ToSet
<1>3. ComposerTypeOK'
  BY <1>1, <1>2 DEF PicturesInv, ComposerTypeOK
<1>4. \A q : PostedIn(q)' = PostedIn(q)
  BY <1>1 DEF PostedIn
<1> QED
  BY <1>1, <1>3, <1>4 DEF PicturesInv

LEMMA RemoveImageKeeps ==
  ASSUME PicturesInv, NEW p \in Pictures, RemoveImage(p)
  PROVE  PicturesInv'
<1>1. /\ p \in ToSet(drawn) /\ images' = Without(images, p) /\ drawn' = Without(drawn, p)
      /\ removed' = removed \cup {p}
      /\ UNCHANGED <<reading, written, answering, posted, dropped, seen>>
  BY DEF RemoveImage
<1>2. images' \in Seq(Pictures) /\ ToSet(images') = ToSet(images) \ {p} /\ IsInjective(images')
  BY <1>1, WithoutGives DEF PicturesInv, ComposerTypeOK
<1>3. drawn' \in Seq(Pictures) /\ ToSet(drawn') = ToSet(drawn) \ {p}
  BY <1>1, WithoutGives DEF PicturesInv, ComposerTypeOK
<1>4. ComposerTypeOK'
  BY <1>1, <1>2, <1>3 DEF PicturesInv, ComposerTypeOK
<1>5. \A q : PostedIn(q)' = PostedIn(q)
  BY <1>1 DEF PostedIn
<1>6. p \in seen /\ p \in ToSet(images)
  BY <1>1 DEF PicturesInv
<1>7. \A q : q \in ToSet(images') \cup removed' <=> q \in ToSet(images) \cup removed
  BY <1>1, <1>2, <1>6
<1> QED
  BY <1>1, <1>2, <1>3, <1>4, <1>5, <1>6, <1>7 DEF PicturesInv

LEMMA SendMessageKeeps ==
  ASSUME PicturesInv, SendMessage
  PROVE  PicturesInv'
<1> DEFINE n == Len(posted)
<1>1. /\ written' = FALSE /\ images' = <<>> /\ drawn' = <<>>
      /\ UNCHANGED <<reading, answering, removed, seen>>
  BY DEF SendMessage, ImagesAfter
<1>2. /\ drawn \in Seq(Pictures) /\ posted \in Seq(Seq(Pictures)) /\ dropped \subseteq Pictures
      /\ ToSet(drawn) = seen \cap ToSet(images) /\ seen \subseteq Pictures /\ dropped \subseteq seen
  BY DEF PicturesInv, ComposerTypeOK
<1>3. ToSet(<<>>) = {} /\ IsInjective(<<>>)
  BY DEF ToSet, IsInjective
<1>4. ASSUME posted' \in Seq(Seq(Pictures)), dropped' \subseteq Pictures PROVE ComposerTypeOK'
  <2>1. written' \in BOOLEAN
    BY <1>1, Zenon
  <2>2. <<>> \in Seq(Pictures)
    OBVIOUS
  <2>3. images' \in Seq(Pictures) /\ drawn' \in Seq(Pictures)
    BY <1>1, <2>2
  <2>4. /\ reading' \subseteq Pictures /\ answering' \in BOOLEAN
        /\ removed' \subseteq Pictures /\ seen' \subseteq Pictures
    BY <1>1 DEF PicturesInv, ComposerTypeOK
  <2> QED
    BY <1>4, <2>1, <2>3, <2>4 DEF ComposerTypeOK
<1>5. CASE written
  <2>1. posted' = Append(posted, drawn) /\ dropped' = dropped
    BY <1>5 DEF SendMessage
  <2>2. ComposerTypeOK'
    BY <1>2, <1>4, <2>1
  <2>3. /\ n \in Nat /\ DOMAIN posted = 1..n /\ DOMAIN posted' = 1..n + 1
        /\ posted'[n + 1] = drawn /\ \A i \in 1..n : posted'[i] = posted[i]
    BY <1>2, <2>1
  <2> HIDE DEF n
  <2>4. \A p : PostedIn(p)' = PostedIn(p) \cup (IF p \in ToSet(drawn) THEN {n + 1} ELSE {})
    BY <2>3 DEF PostedIn
  <2>5. ASSUME NEW p, PostedIn(p)' # {} PROVE p \in seen /\ p \notin removed \cup dropped
    BY <2>4, <2>5 DEF PicturesInv
  <2>6. ASSUME NEW p \in seen, p \notin removed \cup dropped PROVE \E i : PostedIn(p)' = {i}
    <3>1. CASE p \in ToSet(images)
      <4>1. p \in ToSet(drawn) /\ PostedIn(p) = {}
        BY <3>1 DEF PicturesInv
      <4> QED
        BY <2>4, <4>1
    <3>2. CASE p \notin ToSet(images)
      <4>1. p \notin ToSet(drawn) /\ \E i : PostedIn(p) = {i}
        BY <2>6, <3>2 DEF PicturesInv
      <4> QED
        BY <2>4, <4>1
    <3> QED
      BY <3>1, <3>2
  <2> QED
    BY <1>1, <1>3, <2>1, <2>2, <2>5, <2>6 DEF PicturesInv
<1>6. CASE ~written
  <2>1. posted' = posted /\ dropped' = dropped \cup ToSet(drawn)
    BY <1>6 DEF SendMessage
  <2>2. ToSet(drawn) \subseteq seen
    BY <1>2
  <2>3. dropped' \subseteq seen
    BY <1>2, <2>1, <2>2
  <2>4. ComposerTypeOK'
    BY <1>2, <1>4, <2>1, <2>3
  <2>5. \A p : PostedIn(p)' = PostedIn(p)
    BY <2>1 DEF PostedIn
  <2>6. ASSUME NEW p, PostedIn(p) # {} PROVE p \in seen /\ p \notin removed \cup dropped'
    BY <1>2, <2>1, <2>6 DEF PicturesInv
  <2>7. ASSUME NEW p \in seen, p \notin removed \cup dropped' PROVE \E i : PostedIn(p) = {i}
    <3>1. p \notin ToSet(images) \cup removed \cup dropped
      BY <1>2, <2>1, <2>7
    <3> QED
      BY <3>1 DEF PicturesInv
  <2> QED
    BY <1>1, <1>3, <2>3, <2>4, <2>5, <2>6, <2>7 DEF PicturesInv
<1> QED
  BY <1>5, <1>6

LEMMA PicturesInvNext == PicturesInv /\ [ComposerNext]_composerVars => PicturesInv'
<1> SUFFICES ASSUME PicturesInv, [ComposerNext]_composerVars PROVE PicturesInv'
  OBVIOUS
<1>1. ASSUME UNCHANGED <<reading, images, drawn, posted, dropped, removed, seen>>,
             written' \in BOOLEAN, answering' \in BOOLEAN
      PROVE  PicturesInv'
  <2>1. ComposerTypeOK'
    BY <1>1 DEF PicturesInv, ComposerTypeOK
  <2>2. \A q : PostedIn(q)' = PostedIn(q)
    BY <1>1 DEF PostedIn
  <2> QED
    BY <1>1, <2>1, <2>2 DEF PicturesInv
<1>2. ASSUME NEW words \in BOOLEAN, Write(words) PROVE PicturesInv'
  BY <1>1, <1>2 DEF Write, PicturesInv, ComposerTypeOK
<1>3. CASE AnswerTurns
  BY <1>1, <1>3 DEF AnswerTurns, PicturesInv, ComposerTypeOK
<1>4. CASE UNCHANGED composerVars
  BY <1>1, <1>4 DEF composerVars, PicturesInv, ComposerTypeOK
<1> QED
  BY <1>2, <1>3, <1>4, AddImageKeeps, ImageReadKeeps, DrawKeeps, RemoveImageKeeps, SendMessageKeeps DEF ComposerNext

LEMMA PicturesInvKeeps == PicturesInv => ComposerTypeOK /\ PicturesAreKept
<1> SUFFICES ASSUME PicturesInv PROVE PicturesAreKept
  BY DEF PicturesInv
<1>1. ASSUME NEW p \in seen
      PROVE  Cardinality(PostedIn(p)) = IF p \in ToSet(images) \cup removed \cup dropped THEN 0 ELSE 1
  <2>1. CASE p \in ToSet(images) \cup removed \cup dropped
    <3>1. PostedIn(p) = {}
      BY <2>1 DEF PicturesInv
    <3> QED
      BY <2>1, <3>1, FS_EmptySet
  <2>2. CASE p \notin ToSet(images) \cup removed \cup dropped
    <3>1. PICK i : PostedIn(p) = {i}
      BY <2>2 DEF PicturesInv
    <3> QED
      BY <2>2, <3>1, FS_Singleton
  <2> QED
    BY <2>1, <2>2
<1> QED
  BY <1>1 DEF PicturesAreKept, PicturesInv, PostedIn

-----------------------------------------------------------------------------
(* The window of messages.  The user who has left the bottom stands below    *)
(* the top of what is shown, unless that is the first message or older ones  *)
(* are coming in; and the frame that restores the place remembers the        *)
(* message that was at the top.                                              *)
WindowInv ==
  /\ WindowTypeOK /\ top <= Bottom(listed, first)
  /\ \A r \in restoring :
       r.top = 0 /\ (r.alone => r.height = Less(listed, r.reading) /\ first < r.reading)
  /\ ~astray =>
       /\ first = 0 \/ first < listed
       /\ awaited => nearBottom
       /\ ~awaited => \A r \in restoring : r.alone /\ r.reading < listed
       /\ ~awaited /\ restoring = {} /\ ~nearBottom /\ first > 0 => top > 0

LEMMA PageConstants ==
  /\ MaxText \in Nat /\ MaxListed \in Nat /\ WindowSize \in Nat /\ WindowSize > 1
  /\ OlderChunk \in Nat /\ OlderChunk > 0 /\ Page \in Nat /\ Page > 0 /\ MaxRows \in Nat /\ MaxUses \in Nat
BY PageAssumption

LEMMA LowerOf ==
  ASSUME NEW a \in Nat, NEW b \in Nat
  PROVE  Min({a, b}) = (IF a <= b THEN a ELSE b)
<1> DEFINE m == IF a <= b THEN a ELSE b
<1>1. m \in {a, b} /\ \A y \in {a, b} : m <= y
  OBVIOUS
<1>2. Min({a, b}) \in {a, b} /\ \A y \in {a, b} : Min({a, b}) <= y
  BY <1>1 DEF Min
<1> QED
  BY <1>1, <1>2

LEMMA LessIs ==
  ASSUME NEW n \in Nat, NEW d \in Nat
  PROVE  Less(n, d) \in Nat /\ Less(n, d) <= n /\ (d <= n => Less(n, d) = n - d) /\ (d >= n => Less(n, d) = 0)
BY DEF Less

LEMMA BottomIs ==
  ASSUME NEW n \in Nat, NEW f \in Nat
  PROVE  /\ Bottom(n, f) \in Nat /\ Bottom(n, f) <= n
         /\ f < n => Bottom(n, f) = n - f - 1 /\ Height(n, f) = n - f
         /\ f >= n => Bottom(n, f) = 0 /\ Height(n, f) = 0
BY DEF Bottom, Height, Less

(* What is settled has its types, and the place is one there is.             *)
LEMMA SettleGives ==
  ASSUME NEW n \in Spots, NEW f \in Spots, NEW t \in Nat, NEW near \in BOOLEAN, Settle(n, f, t, near)
  PROVE  /\ listed' = n /\ first' = f /\ top' \in Spots /\ nearBottom' \in BOOLEAN
         /\ top' <= Bottom(n, f)
         /\ t <= Bottom(n, f) => top' = t
         /\ t > Bottom(n, f) \/ near => nearBottom'
<1>1. Bottom(n, f) \in Nat /\ Bottom(n, f) <= n /\ n <= MaxListed /\ n \in Nat
  BY BottomIs, PageConstants DEF Spots
<1>2. top' = (IF t <= Bottom(n, f) THEN t ELSE Bottom(n, f))
  BY <1>1, LowerOf DEF Settle
<1>3. top' \in Spots /\ top' <= Bottom(n, f) /\ (t <= Bottom(n, f) => top' = t)
  BY <1>1, <1>2, PageConstants DEF Spots
<1>4. nearBottom' = (near \/ t > Bottom(n, f))
  BY DEF Settle
<1>5. nearBottom' \in BOOLEAN /\ (t > Bottom(n, f) \/ near => nearBottom')
  BY <1>4, Zenon
<1> QED
  BY <1>3, <1>5 DEF Settle

LEMMA WindowInvInit == WindowInit => WindowInv
<1> SUFFICES ASSUME WindowInit PROVE WindowInv
  OBVIOUS
<1>1. listed \in Spots /\ first \in Spots /\ top \in Spots /\ restoring \subseteq Frames
  BY PageConstants DEF WindowInit, Spots
<1>2. nearBottom \in BOOLEAN /\ awaited \in BOOLEAN /\ astray \in BOOLEAN
  BY Zenon DEF WindowInit
<1>3. top <= Bottom(listed, first)
  BY BottomIs DEF WindowInit
<1> QED
  BY <1>1, <1>2, <1>3 DEF WindowInit, WindowInv, WindowTypeOK

LEMMA WindowFacts ==
  ASSUME WindowInv
  PROVE  /\ listed \in Nat /\ first \in Nat /\ top \in Nat /\ nearBottom \in BOOLEAN
         /\ listed \in Spots /\ first \in Spots /\ listed <= MaxListed
         /\ awaited \in BOOLEAN /\ astray \in BOOLEAN /\ restoring \subseteq Frames
         /\ \A r \in restoring : r.height \in Nat /\ r.reading \in Nat
BY PageConstants DEF WindowInv, WindowTypeOK, Spots, Frames

LEMMA RendersGives ==
  ASSUME WindowInv, NEW n \in Spots, Renders(n)
  PROVE  /\ listed' = n /\ first' \in Spots /\ top' \in Spots /\ nearBottom' \in BOOLEAN
         /\ top' <= Bottom(n, first')
         /\ nearBottom => nearBottom' /\ ((n = listed /\ first' = first) \/ first' = Less(n, WindowSize))
         /\ ~nearBottom => first' = first /\ (top' = top \/ nearBottom')
<1> DEFINE f == IF n = listed THEN first ELSE Follow(n)
           t == IF nearBottom THEN Bottom(n, f) ELSE top
<1>1. n \in Nat /\ n <= MaxListed /\ MaxListed \in Nat
  BY PageConstants DEF Spots
<1>2. Less(n, WindowSize) \in Nat /\ Less(n, WindowSize) <= n
  BY <1>1, LessIs, PageConstants
<1>3. f \in Spots
  BY <1>1, <1>2, WindowFacts DEF Spots, Follow
<1>4. t \in Nat /\ Settle(n, f, t, nearBottom)
  <2>1. f \in Nat
    BY <1>3 DEF Spots
  <2>2. Bottom(n, f) \in Nat
    BY <1>1, <2>1, BottomIs
  <2>3. t \in Nat
    BY <2>2, WindowFacts
  <2> QED
    BY <2>3 DEF Renders
<1>5. /\ nearBottom => ((n = listed /\ f = first) \/ f = Less(n, WindowSize))
      /\ ~nearBottom => f = first /\ t = top
  BY DEF Follow
<1> HIDE DEF f, t
<1>6. /\ listed' = n /\ first' = f /\ top' \in Spots /\ nearBottom' \in BOOLEAN
      /\ top' <= Bottom(n, f)
      /\ t <= Bottom(n, f) => top' = t
      /\ t > Bottom(n, f) \/ nearBottom => nearBottom'
  BY <1>3, <1>4, SettleGives, WindowFacts
<1>7. Bottom(n, f) \in Nat
  BY <1>1, <1>3, BottomIs DEF Spots
<1> QED
  BY <1>3, <1>4, <1>5, <1>6, <1>7

LEMMA DisturbedGives ==
  ASSUME WindowInv, restoring' = {[r EXCEPT !.alone = FALSE] : r \in restoring}
  PROVE  restoring' \subseteq Frames /\ \A r \in restoring' : r.top = 0 /\ ~r.alone
<1> SUFFICES ASSUME NEW q \in restoring' PROVE q \in Frames /\ q.top = 0 /\ ~q.alone
  OBVIOUS
<1>1. PICK r \in restoring : q = [r EXCEPT !.alone = FALSE]
  OBVIOUS
<1> QED
  BY <1>1 DEF WindowInv, WindowTypeOK, Frames

LEMMA MessagesChangeKeeps ==
  ASSUME WindowInv, MessagesChange
  PROVE  WindowInv'
<1>1. PICK n \in Spots :
        Renders(n) /\ (n > first \/ n \in {listed, listed + 1, Less(listed, 1)})
  <2> \A n : Renders(n) => n \in Spots
    BY DEF Renders
  <2>1. CASE Sent
    BY <2>1 DEF Sent
  <2>2. CASE \E m \in first .. listed - 1 : EditOf(m)
    <3>1. PICK m \in first .. listed - 1 : EditOf(m)
      BY <2>2
    <3> QED
      BY <3>1, WindowFacts DEF EditOf
  <2>3. CASE DeleteOne
    <3>1. Less(listed, 1) = listed - 1
      BY <2>3, WindowFacts DEF DeleteOne, Less
    <3> QED
      BY <2>3, <3>1 DEF DeleteOne
  <2>4. CASE Reloaded
    BY <2>4 DEF Reloaded
  <2> QED
    BY <2>1, <2>2, <2>3, <2>4 DEF MessagesChange
<1>2. /\ restoring' = {[r EXCEPT !.alone = FALSE] : r \in restoring}
      /\ astray' = (astray \/ restoring # {}) /\ ~awaited /\ awaited' = awaited
  BY DEF MessagesChange, Disturbed
<1>3. /\ listed' = n /\ first' \in Spots /\ top' \in Spots /\ nearBottom' \in BOOLEAN
      /\ top' <= Bottom(n, first')
      /\ nearBottom => nearBottom' /\ ((n = listed /\ first' = first) \/ first' = Less(n, WindowSize))
      /\ ~nearBottom => first' = first /\ (top' = top \/ nearBottom')
  BY <1>1, RendersGives
<1>4. restoring' \subseteq Frames /\ \A r \in restoring' : r.top = 0 /\ ~r.alone
  BY <1>2, DisturbedGives
<1>5. astray' \in BOOLEAN
  BY <1>2, Zenon
<1>6. WindowTypeOK' /\ top' <= Bottom(listed', first')
  BY <1>2, <1>3, <1>4, <1>5, WindowFacts DEF WindowTypeOK
<1>7. ASSUME ~astray'
      PROVE  /\ first' = 0 \/ first' < listed'
             /\ restoring' = {}
             /\ ~nearBottom' /\ first' > 0 => top' > 0
  <2>1. ~astray /\ restoring = {} /\ restoring' = {}
    BY <1>2, <1>7
  <2>2. first = 0 \/ first < listed
    BY <2>1 DEF WindowInv
  <2>3. CASE nearBottom
    <3>1. Less(n, WindowSize) = 0 \/ Less(n, WindowSize) < n
      BY PageConstants DEF Less, Spots
    <3> QED
      BY <1>3, <2>1, <2>2, <2>3, <3>1
  <2>4. CASE ~nearBottom /\ first > 0
    <3>1. top > 0 /\ first < listed /\ top <= Bottom(listed, first)
      BY <1>2, <2>1, <2>4 DEF WindowInv
    <3>2. listed - first > 1
      BY <3>1, BottomIs, WindowFacts
    <3>3. first < n
      BY <1>1, <3>2, WindowFacts DEF Spots, Less
    <3> QED
      BY <1>3, <2>1, <2>4, <3>1, <3>3
  <2>5. CASE ~nearBottom /\ first = 0
    BY <1>3, <2>1, <2>5
  <2> QED
    BY <2>3, <2>4, <2>5, WindowFacts
<1> QED
  BY <1>2, <1>4, <1>6, <1>7 DEF WindowInv

LEMMA SwitchToKeeps ==
  ASSUME WindowInv, SwitchTo
  PROVE  WindowInv'
<1> DEFINE f == Less(listed, WindowSize)
<1>1. f \in Spots /\ (f = 0 \/ f < listed)
  BY WindowFacts, PageConstants DEF Less, Spots
<1>2. Settle(listed, f, top, TRUE) /\ awaited' = TRUE /\ astray' = FALSE
  BY DEF SwitchTo, ToTheBottom
<1>3. /\ listed' = listed /\ first' = f /\ top' \in Spots /\ nearBottom' \in BOOLEAN
      /\ top' <= Bottom(listed, f) /\ nearBottom'
  BY <1>1, <1>2, SettleGives, WindowFacts
<1>4. restoring' \subseteq Frames /\ \A r \in restoring' : r.top = 0 /\ ~r.alone
  BY DisturbedGives DEF SwitchTo
<1>5. WindowTypeOK'
  BY <1>1, <1>2, <1>3, <1>4, WindowFacts DEF WindowTypeOK
<1> QED
  BY <1>1, <1>2, <1>3, <1>4, <1>5 DEF WindowInv

LEMMA MessagesComeKeeps ==
  ASSUME WindowInv, NEW n \in Spots, MessagesCome(n)
  PROVE  WindowInv'
<1>1. /\ restoring' = {[r EXCEPT !.alone = FALSE] : r \in restoring}
      /\ astray' = (astray \/ restoring # {}) /\ awaited /\ awaited' = FALSE /\ Renders(n)
  BY DEF MessagesCome, Disturbed
<1>2. /\ listed' = n /\ first' \in Spots /\ top' \in Spots /\ nearBottom' \in BOOLEAN
      /\ top' <= Bottom(n, first')
      /\ nearBottom => nearBottom' /\ ((n = listed /\ first' = first) \/ first' = Less(n, WindowSize))
  BY <1>1, RendersGives
<1>3. restoring' \subseteq Frames /\ \A r \in restoring' : r.top = 0 /\ ~r.alone
  BY <1>1, DisturbedGives
<1>4. astray' \in BOOLEAN
  BY <1>1, Zenon
<1>5. WindowTypeOK' /\ top' <= Bottom(listed', first')
  BY <1>1, <1>2, <1>3, <1>4 DEF WindowTypeOK
<1>6. ASSUME ~astray'
      PROVE  (first' = 0 \/ first' < listed') /\ restoring' = {} /\ nearBottom'
  <2>1. ~astray /\ nearBottom /\ restoring' = {} /\ (first = 0 \/ first < listed)
    BY <1>1, <1>6 DEF WindowInv
  <2>2. Less(n, WindowSize) = 0 \/ Less(n, WindowSize) < n
    BY PageConstants DEF Less, Spots
  <2> QED
    BY <1>2, <2>1, <2>2
<1> QED
  BY <1>1, <1>3, <1>5, <1>6 DEF WindowInv

LEMMA ScrollToKeeps ==
  ASSUME WindowInv, NEW t \in Spots, ScrollTo(t)
  PROVE  WindowInv'
<1>1. /\ t \in Nat /\ t <= Bottom(listed, first) /\ Bottom(listed, first) \in Nat
      /\ top' = t /\ UNCHANGED <<listed, awaited>>
  BY BottomIs, WindowFacts DEF ScrollTo, Spots
<1>2. /\ nearBottom' = (t = Bottom(listed, first))
      /\ astray' = (astray \/ (awaited /\ ~nearBottom'))
  BY DEF ScrollTo
<1>3. nearBottom' \in BOOLEAN /\ astray' \in BOOLEAN
  BY <1>2, Zenon
<1>4. ~astray' => ~astray /\ (awaited => nearBottom')
  BY <1>2
<1>5. CASE LoadsOlder(t)
  <2>1. t = 0 /\ first > 0 /\ restoring = {}
    BY <1>5 DEF LoadsOlder
  <2> DEFINE r == [height |-> Height(listed, first), top |-> t, reading |-> first + t, alone |-> TRUE]
  <2>2. first' = Less(first, OlderChunk) /\ restoring' = {r}
    BY <1>5 DEF ScrollTo
  <2>3. first' \in Spots /\ first' < first
    BY <2>1, <2>2, PageConstants, WindowFacts DEF Less, Spots
  <2>4. r \in Frames /\ r.top = 0 /\ r.height = Less(listed, r.reading) /\ r.reading = first /\ r.alone
    <3>1. Height(listed, first) = Less(listed, first) /\ first + t = first
      BY <2>1, WindowFacts DEF Height
    <3>2. Less(listed, first) \in Nat /\ Less(listed, first) <= listed
      BY LessIs, WindowFacts
    <3>3. Less(listed, first) \in Spots /\ 0 \in Spots
      BY <3>2, WindowFacts, PageConstants DEF Spots
    <3> QED
      BY <2>1, <3>1, <3>3, WindowFacts DEF Frames
  <2>5. WindowTypeOK'
    BY <1>1, <1>3, <2>2, <2>3, <2>4, WindowFacts DEF WindowTypeOK
  <2>6. top' <= Bottom(listed', first')
    BY <1>1, <2>1, <2>3, BottomIs, WindowFacts DEF Spots
  <2>7. ~astray' => (first = 0 \/ first < listed)
    BY <1>4 DEF WindowInv
  <2> HIDE DEF r
  <2>8. \A q \in restoring' :
          q.top = 0 /\ (q.alone => q.height = Less(listed', q.reading) /\ first' < q.reading)
    BY <1>1, <2>2, <2>3, <2>4
  <2>9. ASSUME ~astray'
        PROVE  /\ first' = 0 \/ first' < listed'
               /\ awaited' => nearBottom'
               /\ ~awaited' => \A q \in restoring' : q.alone /\ q.reading < listed'
               /\ restoring' # {}
    <3>1. first < listed
      BY <2>1, <2>7, <2>9
    <3>2. first' < listed'
      BY <1>1, <2>3, <3>1, WindowFacts DEF Spots
    <3> QED
      BY <1>1, <1>4, <2>2, <2>4, <2>9, <3>1, <3>2
  <2> QED
    BY <2>5, <2>6, <2>8, <2>9 DEF WindowInv
<1>6. CASE ~LoadsOlder(t)
  <2>1. UNCHANGED <<first, restoring>>
    BY <1>6 DEF ScrollTo
  <2>2. WindowTypeOK'
    BY <1>1, <1>3, <2>1 DEF WindowInv, WindowTypeOK
  <2>3. restoring = {} /\ first > 0 => t > 0
    BY <1>1, <1>6 DEF LoadsOlder
  <2> QED
    BY <1>1, <1>4, <2>1, <2>2, <2>3 DEF WindowInv
<1> QED
  BY <1>5, <1>6

LEMMA RestorePlaceKeeps ==
  ASSUME WindowInv, RestorePlace
  PROVE  WindowInv'
<1>1. PICK r \in restoring : Settle(listed, first, Restored(r), nearBottom)
  BY DEF RestorePlace
<1>2. restoring' = {} /\ UNCHANGED <<awaited, astray>>
  BY DEF RestorePlace
<1>3. r.top = 0 /\ r.height \in Nat /\ Height(listed, first) \in Nat
  BY WindowFacts, LessIs DEF WindowInv, Height
<1>4. Restored(r) \in Nat
  BY <1>3, LessIs DEF Restored
<1>5. /\ listed' = listed /\ first' = first /\ top' \in Spots /\ nearBottom' \in BOOLEAN
      /\ top' <= Bottom(listed, first)
      /\ Restored(r) <= Bottom(listed, first) => top' = Restored(r)
      /\ Restored(r) > Bottom(listed, first) \/ nearBottom => nearBottom'
  BY <1>1, <1>4, SettleGives, WindowFacts
<1>6. WindowTypeOK'
  BY <1>2, <1>5, WindowFacts DEF WindowTypeOK
<1>7. ASSUME ~astray, ~awaited
      PROVE  Restored(r) > 0
  <2>1. r.alone /\ r.reading < listed /\ r.height = Less(listed, r.reading) /\ first < r.reading /\ r.reading \in Nat
    BY <1>7, WindowFacts DEF WindowInv
  <2>2. r.height = listed - r.reading /\ Height(listed, first) = listed - first
    BY <2>1, WindowFacts DEF Less, Height
  <2> QED
    BY <1>3, <2>1, <2>2, WindowFacts DEF Restored, Less
<1>8. ~astray /\ ~awaited /\ ~nearBottom' => top' > 0
  <2>1. Bottom(listed, first) \in Nat
    BY BottomIs, WindowFacts
  <2> QED
    BY <1>4, <1>5, <1>7, <2>1
<1> QED
  BY <1>2, <1>5, <1>6, <1>8 DEF WindowInv

LEMMA WindowInvNext == WindowInv /\ [WindowNext]_windowVars => WindowInv'
<1> SUFFICES ASSUME WindowInv, [WindowNext]_windowVars PROVE WindowInv'
  OBVIOUS
<1>1. CASE UNCHANGED windowVars
  BY <1>1 DEF windowVars, WindowInv, WindowTypeOK
<1> QED
  BY <1>1, MessagesChangeKeeps, SwitchToKeeps, RestorePlaceKeeps, MessagesComeKeeps, ScrollToKeeps DEF WindowNext

LEMMA WindowInvShows == WindowInv => WindowTypeOK /\ WindowShowsSome /\ PlaceIsKept
<1> SUFFICES ASSUME WindowInv PROVE WindowShowsSome /\ PlaceIsKept
  BY DEF WindowInv
<1>1. WindowShowsSome
  BY WindowFacts DEF WindowInv, WindowShowsSome
<1>2. ASSUME NEW r \in restoring, r.alone, r.height > 0
      PROVE  first + Restored(r) = r.reading
  <2>1. r.top = 0 /\ r.height = Less(listed, r.reading) /\ first < r.reading /\ r.reading \in Nat
    BY <1>2, WindowFacts DEF WindowInv
  <2>2. r.reading < listed /\ r.height = listed - r.reading
    BY <1>2, <2>1, WindowFacts DEF Less
  <2>3. Height(listed, first) = listed - first
    BY <2>1, <2>2, WindowFacts DEF Height, Less
  <2> QED
    BY <2>1, <2>2, <2>3, WindowFacts DEF Restored, Less
<1> QED
  BY <1>1, <1>2 DEF PlaceIsKept

-----------------------------------------------------------------------------
(* The list of conversations.  Until a session that was sent is removed, those *)
(* the server has sent are in the client's list or on their way to it, but for *)
(* the ones used since.                                                        *)
Rested == ToSet(recent) \ used

RowsInv ==
  /\ RowsTypeOK /\ IsInjective(page)
  /\ listing = "none" => page = <<>>
  /\ ~hasMore => listing = "none"
  /\ listing = "first" => offset = 0 /\ ToSet(rows) \subseteq used
  /\ ~slid =>
       /\ \A i \in DOMAIN recent :
            recent[i] \notin used =>
              /\ i <= offset => recent[i] \in ToSet(rows)
              /\ i <= offset + Len(page) => recent[i] \in ToSet(rows) \cup ToSet(page)
       /\ listing # "none" /\ Len(page) < Page => Rested \subseteq ToSet(rows) \cup ToSet(page)
       /\ ~hasMore => Rested \subseteq ToSet(rows)
  /\ used = {} =>
       /\ IsInjective(rows) /\ ToSet(rows) \cap ToSet(page) = {}
       /\ \A i \in DOMAIN recent :
            /\ i > offset => recent[i] \notin ToSet(rows)
            /\ i > offset + Len(page) => recent[i] \notin ToSet(page)

(* Two lists, one behind the other.                                          *)
LEMMA JoinGives ==
  ASSUME NEW X, NEW s \in Seq(X), NEW t \in Seq(X)
  PROVE  /\ s \o t \in Seq(X) /\ ToSet(s \o t) = ToSet(s) \cup ToSet(t)
         /\ IsInjective(s) /\ IsInjective(t) /\ ToSet(s) \cap ToSet(t) = {} => IsInjective(s \o t)
<1> DEFINE j == s \o t
           m == Len(s)
           n == Len(t)
<1>1. /\ j \in Seq(X) /\ m \in Nat /\ n \in Nat /\ DOMAIN s = 1..m /\ DOMAIN t = 1..n /\ DOMAIN j = 1..m + n
      /\ \A i \in 1..m : j[i] = s[i]
      /\ \A i \in 1..n : j[m + i] = t[i]
  OBVIOUS
<1> HIDE DEF j, m, n
<1>2. \A i \in 1..m + n : (i \in 1..m /\ j[i] = s[i]) \/ (i > m /\ i - m \in 1..n /\ j[i] = t[i - m])
  <2> TAKE i \in 1..m + n
  <2>1. CASE i <= m
    BY <1>1, <2>1
  <2>2. CASE i > m
    <3>1. i - m \in 1..n /\ m + (i - m) = i
      BY <1>1, <2>2
    <3> QED
      BY <1>1, <2>2, <3>1
  <2> QED
    BY <1>1, <2>1, <2>2
<1>3. ToSet(j) \subseteq ToSet(s) \cup ToSet(t)
  BY <1>1, <1>2 DEF ToSet
<1>4. ToSet(s) \subseteq ToSet(j)
  BY <1>1 DEF ToSet
<1>5. ToSet(t) \subseteq ToSet(j)
  <2>1. \A i \in 1..n : m + i \in DOMAIN j /\ j[m + i] = t[i]
    BY <1>1
  <2> QED
    BY <1>1, <2>1 DEF ToSet
<1>6. ASSUME IsInjective(s), IsInjective(t), ToSet(s) \cap ToSet(t) = {},
             NEW i \in 1..m + n, NEW k \in 1..m + n, j[i] = j[k]
      PROVE  i = k
  <2>1. \A a \in 1..m, b \in 1..n : s[a] # t[b]
    BY <1>1, <1>6 DEF ToSet
  <2>2. CASE i \in 1..m /\ k \in 1..m
    BY <1>1, <1>6, <2>2 DEF IsInjective
  <2>3. CASE i > m /\ k > m
    <3>1. i - m \in 1..n /\ k - m \in 1..n /\ t[i - m] = t[k - m]
      BY <1>1, <1>2, <1>6, <2>3
    <3>2. i - m = k - m
      BY <1>1, <1>6, <3>1 DEF IsInjective
    <3> QED
      BY <1>1, <3>2
  <2> QED
    BY <1>1, <1>2, <1>6, <2>1, <2>2, <2>3
<1> QED
  BY <1>1, <1>3, <1>4, <1>5, <1>6 DEF j, IsInjective

(* A page is the part of the server's list that begins behind what was sent. *)
LEMMA SummariesGive ==
  ASSUME recent \in Seq(Rows), IsInjective(recent), offset \in Nat
  PROVE  /\ Summaries(offset) \in Seq(Rows) /\ IsInjective(Summaries(offset))
         /\ \A i \in 1..Len(Summaries(offset)) :
              offset + i \in DOMAIN recent /\ Summaries(offset)[i] = recent[offset + i]
         /\ \A k \in DOMAIN recent :
              k > offset /\ (k <= offset + Page \/ Len(Summaries(offset)) < Page)
                => k <= offset + Len(Summaries(offset))
<1> DEFINE n == Len(recent)
           last == IF offset + Page <= n THEN offset + Page ELSE n
           q == Summaries(offset)
<1>1. /\ n \in Nat /\ offset \in Nat /\ Page \in Nat /\ Page > 0 /\ recent \in Seq(Rows) /\ DOMAIN recent = 1..n
  BY PageConstants
<1>2. Min({offset + Page, n}) = last /\ last \in Nat /\ last <= n
  BY <1>1, LowerOf
<1>3. q = SubSeq(recent, offset + 1, last)
  BY <1>2 DEF Summaries
<1> HIDE DEF q
<1>4. /\ q \in Seq(Rows) /\ Len(q) = (IF offset + 1 <= last THEN last - offset ELSE 0)
      /\ \A i \in 1..Len(q) : q[i] = recent[offset + i]
  <2>1. CASE offset + 1 <= last
    <3>1. offset + 1 \in 1..last + 1 /\ last \in 0..n
      BY <1>1, <1>2, <2>1
    <3> HIDE DEF last, n
    <3>2. /\ q \in Seq(Rows) /\ Len(q) = last - (offset + 1) + 1
          /\ \A i \in 1..(last - (offset + 1) + 1) : q[i] = recent[offset + 1 + i - 1]
      BY <1>1, <1>2, <1>3, <2>1
    <3>3. last - (offset + 1) + 1 = last - offset
      BY <1>1, <1>2
    <3>4. \A i \in 1..last - offset : offset + 1 + i - 1 = offset + i
      BY <1>1, <1>2
    <3>5. Len(q) = last - offset /\ \A i \in 1..last - offset : q[i] = recent[offset + i]
      BY <3>2, <3>3, <3>4
    <3> QED
      BY <2>1, <3>2, <3>5
  <2>2. CASE ~(offset + 1 <= last)
    <3>1. q = <<>>
      BY <1>1, <1>2, <1>3, <2>2
    <3> QED
      BY <2>2, <3>1
  <2> QED
    BY <2>1, <2>2
<1>6. DOMAIN q = 1..Len(q) /\ Len(q) \in Nat
  BY <1>4
<1>10. /\ last = (IF offset + Page <= n THEN offset + Page ELSE n)
       /\ Len(q) = (IF offset + 1 <= last THEN last - offset ELSE 0)
  BY <1>4
<1> HIDE DEF last, n
<1>5. ASSUME NEW i \in 1..Len(q) PROVE offset + i \in 1..n
  <2>1. i \in Nat /\ i >= 1 /\ i <= Len(q)
    BY <1>6
  <2>2. offset + 1 <= last /\ Len(q) = last - offset
    BY <1>10, <2>1
  <2>3. offset + i \in Nat /\ offset + i >= 1 /\ offset + i <= last
    BY <1>1, <1>2, <2>1, <2>2
  <2> QED
    BY <1>1, <1>2, <2>3
<1>7. ASSUME NEW i \in 1..Len(q), NEW k \in 1..Len(q), q[i] = q[k] PROVE i = k
  <2>1. offset + i = offset + k
    BY <1>1, <1>4, <1>5, <1>7 DEF IsInjective
  <2> QED
    BY <1>1, <1>6, <2>1
<1>8. IsInjective(q)
  BY <1>6, <1>7 DEF IsInjective
<1>9. \A k \in 1..n : k > offset /\ (k <= offset + Page \/ Len(q) < Page) => k <= offset + Len(q)
  <2> TAKE k \in 1..n
  <2> HAVE k > offset /\ (k <= offset + Page \/ Len(q) < Page)
  <2>1. CASE offset + Page <= n
    BY <1>1, <1>2, <1>10, <2>1
  <2>2. CASE ~(offset + Page <= n)
    <3>1. last = n /\ k <= n /\ k \in Nat
      BY <1>1, <1>10, <2>2
    <3>2. Len(q) = last - offset
      BY <1>1, <1>10, <3>1
    <3> QED
      BY <1>1, <1>6, <3>1, <3>2
  <2> QED
    BY <2>1, <2>2
<1> QED
  BY <1>1, <1>4, <1>5, <1>8, <1>9 DEF q, n

(* A page that has just been read, behind so many of the list, and what it  *)
(* shows.                                                                    *)
PageFits(list, o, p) ==
  /\ IsInjective(list) /\ list \in Seq(Rows) /\ o \in Nat
  /\ p \in Seq(Rows)
  /\ \A i \in 1..Len(p) : o + i \in DOMAIN list /\ p[i] = list[o + i]
  /\ \A k \in DOMAIN list :
       k > o /\ (k <= o + Page \/ Len(p) < Page) => k <= o + Len(p)

LEMMA PageShows ==
  ASSUME NEW list, NEW o, NEW p, PageFits(list, o, p)
  PROVE  /\ \A k \in DOMAIN list :
              /\ k > o /\ k <= o + Len(p) => list[k] \in ToSet(p)
              /\ list[k] \in ToSet(p) => k > o /\ k <= o + Len(p)
         /\ \A x \in ToSet(p) : \E k \in DOMAIN list : k > o /\ list[k] = x
         /\ Len(p) < Page => \A k \in DOMAIN list : k > o => list[k] \in ToSet(p)
<1>1. /\ DOMAIN p = 1..Len(p) /\ Len(p) \in Nat /\ o \in Nat /\ Page \in Nat
      /\ DOMAIN list = 1..Len(list) /\ Len(list) \in Nat
  BY PageConstants DEF PageFits
<1>2. \A i \in 1..Len(p) : o + i \in DOMAIN list /\ p[i] = list[o + i]
  BY DEF PageFits
<1>3. ASSUME NEW k \in DOMAIN list, k > o, k <= o + Len(p) PROVE list[k] \in ToSet(p)
  <2>1. k - o \in 1..Len(p) /\ o + (k - o) = k
    BY <1>1, <1>3
  <2>2. p[k - o] = list[k]
    BY <1>2, <2>1
  <2> QED
    BY <1>1, <2>1, <2>2 DEF ToSet
<1>4. ASSUME NEW k \in DOMAIN list, list[k] \in ToSet(p) PROVE k > o /\ k <= o + Len(p)
  <2>1. PICK i \in 1..Len(p) : p[i] = list[k]
    BY <1>1, <1>4 DEF ToSet
  <2>2. list[o + i] = list[k] /\ o + i \in DOMAIN list
    BY <1>2, <2>1
  <2>3. o + i = k
    BY <2>2 DEF PageFits, IsInjective
  <2> QED
    BY <1>1, <2>1, <2>3
<1>5. ASSUME NEW x \in ToSet(p) PROVE \E k \in DOMAIN list : k > o /\ list[k] = x
  <2>1. PICK i \in 1..Len(p) : p[i] = x
    BY <1>1, <1>5 DEF ToSet
  <2>2. list[o + i] = x /\ o + i \in DOMAIN list /\ o + i > o
    BY <1>1, <1>2, <2>1
  <2> QED
    BY <2>2
<1>6. ASSUME Len(p) < Page, NEW k \in DOMAIN list, k > o PROVE list[k] \in ToSet(p)
  <2>1. k <= o + Len(p)
    BY <1>6 DEF PageFits
  <2> QED
    BY <1>3, <1>6, <2>1
<1> QED
  BY <1>3, <1>4, <1>5, <1>6

(* Behind a member that goes the others move up by one.                      *)
LEMMA MovesUp ==
  ASSUME NEW X, NEW s \in Seq(X), NEW c, IsInjective(s)
  PROVE  \A i \in DOMAIN Without(s, c) :
           \/ i \in DOMAIN s /\ Without(s, c)[i] = s[i]
           \/ /\ i + 1 \in DOMAIN s /\ Without(s, c)[i] = s[i + 1]
              /\ \E k \in DOMAIN s : k <= i /\ s[k] = c
<1> DEFINE n == Len(s)
           w == Without(s, c)
<1>1. n \in Nat /\ DOMAIN s = 1..n
  OBVIOUS
<1>2. PICK j \in Nat \ {0} : (\A k \in 1..n : s[k] # c <=> k # j) /\ w = LeftOut(s, j)
  BY WithoutOne
<1>3. /\ DOMAIN w = 1 .. (IF j <= n THEN n - 1 ELSE n)
      /\ \A i \in DOMAIN w : w[i] = IF i < j THEN s[i] ELSE s[i + 1]
  BY <1>2 DEF LeftOut
<1> HIDE DEF w, n
<1>4. ASSUME NEW i \in DOMAIN w, i < j PROVE i \in 1..n /\ w[i] = s[i]
  BY <1>1, <1>3, <1>4
<1>5. ASSUME NEW i \in DOMAIN w, ~(i < j)
      PROVE  i + 1 \in 1..n /\ w[i] = s[i + 1] /\ j \in 1..n /\ j <= i /\ s[j] = c
  <2>1. CASE j <= n
    BY <1>1, <1>2, <1>3, <1>5, <2>1
  <2>2. CASE ~(j <= n)
    BY <1>1, <1>2, <1>3, <1>5, <2>2
  <2> QED
    BY <2>1, <2>2
<1> QED
  BY <1>1, <1>4, <1>5 DEF w

LEMMA RowsInvInit == RowsInit => RowsInv
<1> SUFFICES ASSUME RowsInit PROVE RowsInv
  OBVIOUS
<1>1. PICK n \in 0..MaxRows : recent = [i \in 1..n |-> i]
  BY DEF RowsInit
<1>2. recent \in Seq(Rows) /\ IsInjective(recent) /\ Len(recent) = n /\ DOMAIN recent = 1..n /\ n \in Nat
  BY <1>1, PageConstants DEF Rows, IsInjective
<1>3. /\ rows = <<>> /\ offset = 0 /\ hasMore = TRUE /\ listing = "first" /\ page = Summaries(offset)
      /\ uses = 0 /\ used = {} /\ slid = FALSE
  BY DEF RowsInit
<1>4. ToSet(rows) = {} /\ IsInjective(rows) /\ rows \in Seq(Rows)
  BY <1>3 DEF ToSet, IsInjective
<1>5. hasMore \in BOOLEAN /\ slid \in BOOLEAN
  BY <1>3, Zenon
<1>6. offset \in Nat /\ uses \in 0..MaxUses
  BY <1>3, PageConstants
<1>7. /\ page \in Seq(Rows) /\ IsInjective(page)
      /\ \A i \in 1..Len(page) : offset + i \in DOMAIN recent /\ page[i] = recent[offset + i]
      /\ \A k \in DOMAIN recent :
           k > offset /\ (k <= offset + Page \/ Len(page) < Page) => k <= offset + Len(page)
  BY <1>2, <1>3, <1>6, SummariesGive
<1>8. RowsTypeOK
  BY <1>2, <1>3, <1>4, <1>5, <1>6, <1>7 DEF RowsTypeOK
<1>9. PageFits(recent, offset, page)
  BY <1>2, <1>3, <1>6, <1>7 DEF PageFits
<1>10. /\ \A k \in DOMAIN recent : k > offset /\ k <= offset + Len(page) => recent[k] \in ToSet(page)
       /\ \A k \in DOMAIN recent : recent[k] \in ToSet(page) => k > offset /\ k <= offset + Len(page)
       /\ Len(page) < Page => \A k \in DOMAIN recent : k > offset => recent[k] \in ToSet(page)
  BY <1>9, PageShows
<1>11. Len(page) \in Nat /\ \A k \in DOMAIN recent : k \in Nat /\ k > 0 /\ k > offset
  BY <1>2, <1>3, <1>7
<1>12. Len(page) < Page => Rested \subseteq ToSet(rows) \cup ToSet(page)
  BY <1>10, <1>11 DEF Rested, ToSet
<1>13. \A i \in DOMAIN recent : recent[i] \notin used =>
            /\ i <= offset => recent[i] \in ToSet(rows)
            /\ i <= offset + Len(page) => recent[i] \in ToSet(rows) \cup ToSet(page)
  BY <1>3, <1>10, <1>11
<1>14. \A i \in DOMAIN recent :
            /\ i > offset => recent[i] \notin ToSet(rows)
            /\ i > offset + Len(page) => recent[i] \notin ToSet(page)
  BY <1>3, <1>4, <1>10, <1>11
<1> QED
  BY <1>3, <1>4, <1>7, <1>8, <1>12, <1>13, <1>14 DEF RowsInv

LEMMA RowsFacts ==
  ASSUME RowsInv
  PROVE  /\ RowsTypeOK /\ recent \in Seq(Rows) /\ rows \in Seq(Rows) /\ page \in Seq(Rows) /\ offset \in Nat
         /\ IsInjective(recent) /\ IsInjective(page) /\ Len(page) \in Nat
         /\ \A i \in DOMAIN recent : i \in Nat /\ i > 0
         /\ ToSet(recent) \subseteq Rows
BY DEF RowsInv, RowsTypeOK, ToSet

LEMMA AskRowsKeeps ==
  ASSUME RowsInv, AskRows
  PROVE  RowsInv'
<1>1. /\ listing = "none" /\ hasMore /\ listing' = "more" /\ page' = Summaries(offset) /\ page = <<>> /\ Len(page) = 0
      /\ recent' = recent /\ rows' = rows /\ offset' = offset /\ hasMore' = hasMore /\ uses' = uses
      /\ used' = used /\ slid' = slid
  BY DEF AskRows, RowsInv
<1>2. /\ page' \in Seq(Rows) /\ IsInjective(page')
      /\ \A i \in 1..Len(page') : offset + i \in DOMAIN recent /\ page'[i] = recent[offset + i]
      /\ \A k \in DOMAIN recent :
           k > offset /\ (k <= offset + Page \/ Len(page') < Page) => k <= offset + Len(page')
  BY <1>1, RowsFacts, SummariesGive
<1>3. PageFits(recent, offset, page')
  BY <1>1, <1>2, RowsFacts DEF PageFits
<1>4. /\ \A k \in DOMAIN recent : k > offset /\ k <= offset + Len(page') => recent[k] \in ToSet(page')
      /\ \A k \in DOMAIN recent : recent[k] \in ToSet(page') => k > offset /\ k <= offset + Len(page')
      /\ \A x \in ToSet(page') : \E k \in DOMAIN recent : k > offset /\ recent[k] = x
      /\ Len(page') < Page => \A k \in DOMAIN recent : k > offset => recent[k] \in ToSet(page')
  BY <1>1, <1>3, PageShows
<1>5. RowsTypeOK'
  BY <1>1, <1>2 DEF RowsInv, RowsTypeOK
<1>6. Len(page') \in Nat /\ offset \in Nat /\ \A k \in DOMAIN recent : k \in Nat
  BY <1>2, RowsFacts
<1>7. ASSUME ~slid
      PROVE  /\ \A i \in DOMAIN recent : recent[i] \notin used =>
                   /\ i <= offset => recent[i] \in ToSet(rows)
                   /\ i <= offset + Len(page') => recent[i] \in ToSet(rows) \cup ToSet(page')
             /\ Len(page') < Page => Rested \subseteq ToSet(rows) \cup ToSet(page')
  <2>1. \A i \in DOMAIN recent : recent[i] \notin used /\ i <= offset => recent[i] \in ToSet(rows)
    BY <1>7 DEF RowsInv
  <2>2. \A i \in DOMAIN recent : i <= offset \/ i > offset
    BY <1>6
  <2>3. Len(page') < Page => Rested \subseteq ToSet(rows) \cup ToSet(page')
    BY <1>4, <2>1, <2>2 DEF Rested, ToSet
  <2> QED
    BY <1>4, <2>1, <2>2, <2>3
<1>8. ASSUME used = {}
      PROVE  /\ IsInjective(rows) /\ ToSet(rows) \cap ToSet(page') = {}
             /\ \A i \in DOMAIN recent :
                  /\ i > offset => recent[i] \notin ToSet(rows)
                  /\ i > offset + Len(page') => recent[i] \notin ToSet(page')
  <2>1. IsInjective(rows) /\ \A i \in DOMAIN recent : i > offset => recent[i] \notin ToSet(rows)
    BY <1>8 DEF RowsInv
  <2>2. ToSet(rows) \cap ToSet(page') = {}
    BY <1>4, <2>1
  <2> QED
    BY <1>4, <1>6, <2>1, <2>2
<1>9. Rested' = Rested
  BY <1>1 DEF Rested
<1> QED
  BY <1>1, <1>2, <1>5, <1>7, <1>8, <1>9 DEF RowsInv

LEMMA ShowRowsKeeps ==
  ASSUME RowsInv, ShowRows
  PROVE  RowsInv'
<1>1. /\ listing # "none" /\ listing' = "none" /\ page' = <<>> /\ Len(page') = 0
      /\ rows' = (IF listing = "first" THEN page ELSE rows \o page)
      /\ offset' = offset + Len(page) /\ hasMore' = (Len(page) >= Page)
      /\ recent' = recent /\ uses' = uses /\ used' = used /\ slid' = slid
  BY DEF ShowRows, MoreIf
<1>2. ToSet(page') = {} /\ IsInjective(page') /\ page' \in Seq(Rows)
  BY <1>1 DEF ToSet, IsInjective
<1>3. /\ rows' \in Seq(Rows)
      /\ ToSet(rows') = (IF listing = "first" THEN ToSet(page) ELSE ToSet(rows) \cup ToSet(page))
  BY <1>1, RowsFacts, JoinGives
<1>4. Len(page) \in Nat /\ offset \in Nat /\ offset' \in Nat /\ Page \in Nat
      /\ \A k \in DOMAIN recent : k \in Nat /\ k > 0
  BY <1>1, RowsFacts, PageConstants
<1>5. hasMore' \in BOOLEAN /\ (~hasMore' => Len(page) < Page)
  <2>1. CASE Len(page) >= Page
    BY <1>1, <2>1
  <2>2. CASE ~(Len(page) >= Page)
    BY <1>1, <1>4, <2>2
  <2> QED
    BY <2>1, <2>2
<1>6. RowsTypeOK'
  BY <1>1, <1>2, <1>3, <1>4, <1>5 DEF RowsInv, RowsTypeOK
<1>7. listing = "first" => offset = 0 /\ ToSet(rows) \subseteq used
  BY DEF RowsInv
<1>8. Rested' = Rested
  BY <1>1 DEF Rested
<1>9. ASSUME ~slid
      PROVE  /\ \A i \in DOMAIN recent : recent[i] \notin used /\ i <= offset + Len(page) => recent[i] \in ToSet(rows')
             /\ Len(page) < Page => Rested \subseteq ToSet(rows')
  <2>1. \A i \in DOMAIN recent : recent[i] \notin used /\ i <= offset + Len(page)
                                     => recent[i] \in ToSet(rows) \cup ToSet(page)
    BY <1>9 DEF RowsInv
  <2>2. Len(page) < Page => Rested \subseteq ToSet(rows) \cup ToSet(page)
    BY <1>1, <1>9 DEF RowsInv
  <2>3. \A x \in ToSet(rows) \cup ToSet(page) : x \notin used => x \in ToSet(rows')
    BY <1>3, <1>7
  <2> QED
    BY <2>1, <2>2, <2>3 DEF Rested
<1>10. ASSUME used = {}
       PROVE  /\ IsInjective(rows')
              /\ \A i \in DOMAIN recent : i > offset + Len(page) => recent[i] \notin ToSet(rows')
  <2>1. /\ IsInjective(rows) /\ ToSet(rows) \cap ToSet(page) = {}
        /\ \A i \in DOMAIN recent :
            /\ i > offset => recent[i] \notin ToSet(rows)
            /\ i > offset + Len(page) => recent[i] \notin ToSet(page)
    BY <1>10 DEF RowsInv
  <2>2. IsInjective(rows')
    BY <1>1, <2>1, RowsFacts, JoinGives
  <2>3. \A i \in DOMAIN recent : i > offset + Len(page) => i > offset
    BY <1>4
  <2> QED
    BY <1>3, <2>1, <2>2, <2>3
<1>11. \A i \in DOMAIN recent : (i <= offset' <=> i <= offset + Len(page)) /\ (i <= offset' + Len(page') <=> i <= offset + Len(page))
                               /\ (i > offset' <=> i > offset + Len(page))
  BY <1>1, <1>4
<1> QED
  BY <1>1, <1>2, <1>6, <1>8, <1>9, <1>10, <1>11, <1>5 DEF RowsInv

LEMMA RowsFailKeeps ==
  ASSUME RowsInv, RowsFail
  PROVE  RowsInv'
<1>1. /\ listing # "none" /\ listing' = "none" /\ page' = <<>> /\ Len(page') = 0
      /\ recent' = recent /\ rows' = rows /\ offset' = offset /\ hasMore' = hasMore /\ uses' = uses
      /\ used' = used /\ slid' = slid
  BY DEF RowsFail
<1>2. ToSet(page') = {} /\ IsInjective(page') /\ page' \in Seq(Rows)
  BY <1>1 DEF ToSet, IsInjective
<1>3. RowsTypeOK'
  BY <1>1, <1>2 DEF RowsInv, RowsTypeOK
<1>4. Rested' = Rested /\ offset + Len(page') = offset
  BY <1>1, RowsFacts DEF Rested
<1> QED
  BY <1>1, <1>2, <1>3, <1>4 DEF RowsInv
LEMMA UseRowKeeps ==
  ASSUME RowsInv, NEW c \in Rows, UseRow(c)
  PROVE  RowsInv'
<1> DEFINE w == Without(recent, c)
<1>1. /\ uses < MaxUses /\ uses' = uses + 1 /\ used' = used \cup {c} /\ recent' = <<c>> \o w
      /\ rows' = rows /\ offset' = offset /\ hasMore' = hasMore /\ listing' = listing /\ page' = page /\ slid' = slid
  BY DEF UseRow
<1>2. /\ w \in Seq(Rows) /\ ToSet(w) = ToSet(recent) \ {c} /\ IsInjective(w)
  BY RowsFacts, WithoutGives
<1>3. \A i \in DOMAIN w :
        \/ i \in DOMAIN recent /\ w[i] = recent[i]
        \/ i + 1 \in DOMAIN recent /\ w[i] = recent[i + 1]
  BY RowsFacts, MovesUp
<1> DEFINE one == <<c>>
<1>4. one \in Seq(Rows) /\ ToSet(one) = {c} /\ IsInjective(one) /\ recent' = one \o w
  BY <1>1 DEF ToSet, IsInjective
<1> HIDE DEF w, one
<1>5. recent' \in Seq(Rows) /\ IsInjective(recent') /\ ToSet(recent') = {c} \cup (ToSet(recent) \ {c})
  <2>1. ToSet(one) \cap ToSet(w) = {}
    BY <1>2, <1>4
  <2> QED
    BY <1>2, <1>4, <2>1, JoinGives
<1>6. /\ DOMAIN w = 1..Len(w) /\ Len(w) \in Nat /\ DOMAIN recent' = 1..Len(w) + 1
      /\ recent'[1] = c /\ \A i \in 2..Len(w) + 1 : recent'[i] = w[i - 1]
  BY <1>1, <1>2
<1>7. \A i \in DOMAIN recent' : recent'[i] # c => \E k \in DOMAIN recent : k <= i /\ recent'[i] = recent[k]
  <2> TAKE i \in DOMAIN recent'
  <2> HAVE recent'[i] # c
  <2>1. i \in 2..Len(w) + 1 /\ i - 1 \in DOMAIN w /\ recent'[i] = w[i - 1] /\ (i - 1) + 1 = i /\ i \in Nat
    BY <1>6
  <2>2. \/ i - 1 \in DOMAIN recent /\ w[i - 1] = recent[i - 1]
        \/ i \in DOMAIN recent /\ w[i - 1] = recent[i]
    BY <1>3, <2>1
  <2> QED
    BY <2>1, <2>2
<1>8. RowsTypeOK'
  BY <1>1, <1>5, PageConstants DEF RowsInv, RowsTypeOK
<1>9. Rested' \subseteq Rested
  BY <1>1, <1>5 DEF Rested
<1>10. \A k \in DOMAIN recent : k \in Nat
  BY RowsFacts
<1>11. \A i \in DOMAIN recent' : i \in Nat
  BY <1>6
<1>12. offset \in Nat /\ Len(page) \in Nat
  BY RowsFacts
<1>13. ASSUME ~slid, NEW i \in DOMAIN recent', recent'[i] \notin used'
       PROVE  /\ i <= offset => recent'[i] \in ToSet(rows)
              /\ i <= offset + Len(page) => recent'[i] \in ToSet(rows) \cup ToSet(page)
  <2>1. PICK k \in DOMAIN recent : k <= i /\ recent'[i] = recent[k]
    BY <1>1, <1>7, <1>13
  <2>2. recent[k] \notin used
    BY <1>1, <1>13, <2>1
  <2>3. /\ k <= offset => recent[k] \in ToSet(rows)
        /\ k <= offset + Len(page) => recent[k] \in ToSet(rows) \cup ToSet(page)
    BY <1>13, <2>2 DEF RowsInv
  <2> QED
    BY <1>10, <1>11, <1>12, <2>1, <2>3
<1> QED
  BY <1>1, <1>8, <1>9, <1>13 DEF RowsInv

LEMMA DropRowKeeps ==
  ASSUME RowsInv, NEW c \in Rows, NEW here \in BOOLEAN, DropRow(c, here)
  PROVE  RowsInv'
<1> DEFINE w == Without(recent, c)
           v == Without(rows, c)
<1>1. /\ uses < MaxUses /\ uses' = uses + 1 /\ recent' = w /\ rows' = (IF here THEN v ELSE rows)
      /\ slid' = (slid \/ \E i \in DOMAIN recent : i <= offset + Len(page) /\ recent[i] = c)
      /\ offset' = offset /\ hasMore' = hasMore /\ listing' = listing /\ page' = page /\ used' = used
  BY DEF DropRow
<1>2. /\ w \in Seq(Rows) /\ ToSet(w) = ToSet(recent) \ {c} /\ IsInjective(w)
      /\ v \in Seq(Rows) /\ ToSet(v) = ToSet(rows) \ {c} /\ (IsInjective(rows) => IsInjective(v))
  BY RowsFacts, WithoutGives
<1>3. \A i \in DOMAIN w :
        \/ i \in DOMAIN recent /\ w[i] = recent[i]
        \/ /\ i + 1 \in DOMAIN recent /\ w[i] = recent[i + 1]
           /\ \E k \in DOMAIN recent : k <= i /\ recent[k] = c
  BY RowsFacts, MovesUp
<1>4. DOMAIN w = 1..Len(w) /\ Len(w) \in Nat
  BY <1>2
<1> HIDE DEF w, v
<1>5. slid' \in BOOLEAN /\ (~slid' => ~slid /\ \A i \in DOMAIN recent : i <= offset + Len(page) => recent[i] # c)
  BY <1>1, Zenon
<1>6. /\ rows' \in Seq(Rows) /\ ToSet(rows') \subseteq ToSet(rows) /\ ToSet(rows) \ {c} \subseteq ToSet(rows')
      /\ IsInjective(rows) => IsInjective(rows')
  <2>1. rows \in Seq(Rows)
    BY RowsFacts
  <2> QED
    BY <1>1, <1>2, <2>1
<1>7. RowsTypeOK'
  BY <1>1, <1>2, <1>5, <1>6, PageConstants DEF RowsInv, RowsTypeOK
<1>8. Rested' = Rested \ {c} /\ \A i \in DOMAIN recent' : recent'[i] # c
  <2>1. Rested' = Rested \ {c}
    BY <1>1, <1>2 DEF Rested
  <2>2. \A i \in DOMAIN recent' : recent'[i] \in ToSet(recent')
    BY DEF ToSet
  <2> QED
    BY <1>1, <1>2, <2>1, <2>2
<1>9. /\ \A i \in DOMAIN recent : i \in Nat
      /\ \A i \in DOMAIN recent' : i \in Nat
      /\ offset \in Nat /\ Len(page) \in Nat
  BY <1>1, <1>4, RowsFacts
<1>10. ASSUME ~slid', NEW i \in DOMAIN recent', recent'[i] \notin used
       PROVE  /\ i <= offset => recent'[i] \in ToSet(rows')
              /\ i <= offset + Len(page) => recent'[i] \in ToSet(rows') \cup ToSet(page)
  <2>1. CASE i <= offset + Len(page)
    <3>1. i \in DOMAIN recent /\ recent'[i] = recent[i]
      <4>1. SUFFICES ASSUME NEW k \in DOMAIN recent, k <= i, recent[k] = c PROVE FALSE
        BY <1>1, <1>3
      <4>2. k <= offset + Len(page)
        BY <1>9, <2>1, <4>1
      <4> QED
        BY <1>5, <1>10, <4>1, <4>2
    <3>2. /\ i <= offset => recent[i] \in ToSet(rows)
          /\ i <= offset + Len(page) => recent[i] \in ToSet(rows) \cup ToSet(page)
      BY <1>5, <1>10, <3>1 DEF RowsInv
    <3> QED
      BY <1>6, <1>8, <3>1, <3>2
  <2>2. CASE ~(i <= offset + Len(page))
    BY <1>9, <2>2
  <2> QED
    BY <2>1, <2>2
<1>11. ASSUME ~slid'
       PROVE  /\ listing # "none" /\ Len(page) < Page => Rested' \subseteq ToSet(rows') \cup ToSet(page)
              /\ ~hasMore => Rested' \subseteq ToSet(rows')
  <2>1. /\ listing # "none" /\ Len(page) < Page => Rested \subseteq ToSet(rows) \cup ToSet(page)
        /\ ~hasMore => Rested \subseteq ToSet(rows)
    BY <1>5, <1>11 DEF RowsInv
  <2> QED
    BY <1>6, <1>8, <2>1
<1>12. ASSUME used = {}
       PROVE  /\ IsInjective(rows') /\ ToSet(rows') \cap ToSet(page) = {}
              /\ \A i \in DOMAIN recent' :
                   /\ i > offset => recent'[i] \notin ToSet(rows')
                   /\ i > offset + Len(page) => recent'[i] \notin ToSet(page)
  <2>1. /\ IsInjective(rows) /\ ToSet(rows) \cap ToSet(page) = {}
        /\ \A i \in DOMAIN recent :
            /\ i > offset => recent[i] \notin ToSet(rows)
            /\ i > offset + Len(page) => recent[i] \notin ToSet(page)
    BY <1>12 DEF RowsInv
  <2>2. \A i \in DOMAIN recent' : \E k \in DOMAIN recent : k >= i /\ recent'[i] = recent[k]
    <3> TAKE i \in DOMAIN recent'
    <3>1. \/ i \in DOMAIN recent /\ recent'[i] = recent[i]
          \/ i + 1 \in DOMAIN recent /\ recent'[i] = recent[i + 1]
      BY <1>1, <1>3
    <3>2. i \in Nat
      BY <1>9
    <3> QED
      BY <3>1, <3>2
  <2>3. ASSUME NEW i \in DOMAIN recent'
        PROVE  /\ i > offset => recent'[i] \notin ToSet(rows')
               /\ i > offset + Len(page) => recent'[i] \notin ToSet(page)
    <3>1. PICK k \in DOMAIN recent : k >= i /\ recent'[i] = recent[k]
      BY <2>2
    <3>2. (i > offset => k > offset) /\ (i > offset + Len(page) => k > offset + Len(page))
      BY <1>9, <3>1
    <3> QED
      BY <1>6, <2>1, <3>1, <3>2
  <2> QED
    BY <1>6, <2>1, <2>3
<1>13. listing = "first" => ToSet(rows') \subseteq used
  BY <1>6 DEF RowsInv
<1> QED
  BY <1>1, <1>7, <1>10, <1>11, <1>12, <1>13 DEF RowsInv

LEMMA RetitleKeeps ==
  ASSUME RowsInv, NEW c \in Rows, NEW d \in Rows, Retitle(c, d)
  PROVE  RowsInv'
<1>1. /\ uses < MaxUses /\ uses' = uses + 1 /\ c \in ToSet(recent) /\ d \notin ToSet(recent)
      /\ recent' = [i \in DOMAIN recent |-> IF recent[i] = c THEN d ELSE recent[i]]
      /\ used' = used \cup {c, d}
      /\ rows' = rows /\ offset' = offset /\ hasMore' = hasMore /\ listing' = listing /\ page' = page /\ slid' = slid
  BY DEF Retitle
<1>2. /\ recent \in Seq(Rows) /\ DOMAIN recent = 1..Len(recent) /\ Len(recent) \in Nat /\ IsInjective(recent)
      /\ \A i \in DOMAIN recent : recent[i] \in Rows
  BY RowsFacts
<1>3. recent' \in [1..Len(recent) -> Rows]
  BY <1>1, <1>2
<1>4. recent' \in Seq(Rows) /\ DOMAIN recent' = DOMAIN recent
  BY <1>1, <1>2, <1>3
<1>5. \A i \in DOMAIN recent : recent[i] # d
  BY <1>1 DEF ToSet
<1>6. IsInjective(recent')
  BY <1>1, <1>2, <1>4, <1>5 DEF IsInjective
<1>7. \A i \in DOMAIN recent' : recent'[i] = recent[i] \/ recent'[i] = d
  BY <1>1, <1>4
<1>8. RowsTypeOK'
  BY <1>1, <1>4, <1>6, PageConstants DEF RowsInv, RowsTypeOK
<1>9. Rested' \subseteq Rested
  BY <1>1, <1>4, <1>7 DEF Rested, ToSet
<1> QED
  BY <1>1, <1>4, <1>7, <1>8, <1>9 DEF RowsInv

LEMMA PutOnTopKeeps ==
  ASSUME RowsInv, NEW c \in Rows, PutOnTop(c)
  PROVE  RowsInv'
<1>1. /\ uses < MaxUses /\ uses' = uses + 1
      /\ rows' = <<c>> \o rows /\ used' = used \cup {c}
      /\ recent' = recent /\ offset' = offset /\ hasMore' = hasMore /\ listing' = listing /\ page' = page /\ slid' = slid
  BY DEF PutOnTop
<1> DEFINE one == <<c>>
<1>2. one \in Seq(Rows) /\ ToSet(one) = {c} /\ rows' = one \o rows
  BY <1>1 DEF ToSet
<1> HIDE DEF one
<1>3. rows' \in Seq(Rows) /\ ToSet(rows') = {c} \cup ToSet(rows)
  BY <1>2, RowsFacts, JoinGives
<1>4. RowsTypeOK'
  BY <1>1, <1>3, PageConstants DEF RowsInv, RowsTypeOK
<1>5. Rested' \subseteq Rested
  BY <1>1 DEF Rested
<1> QED
  BY <1>1, <1>3, <1>4, <1>5 DEF RowsInv

LEMMA RowsInvNext == RowsInv /\ [RowsNext]_rowVars => RowsInv'
<1> SUFFICES ASSUME RowsInv, [RowsNext]_rowVars PROVE RowsInv'
  OBVIOUS
<1>1. CASE UNCHANGED rowVars
  BY <1>1 DEF rowVars, RowsInv, RowsTypeOK, Rested
<1>2. CASE RowsNext
  BY <1>2, AskRowsKeeps, ShowRowsKeeps, RowsFailKeeps, UseRowKeeps, DropRowKeeps, RetitleKeeps, PutOnTopKeeps
     DEF RowsNext
<1> QED
  BY <1>1, <1>2

LEMMA RowsInvShows == RowsInv => RowsTypeOK /\ RowsAreWhole
BY DEF RowsInv, RowsAreWhole, Rested

-----------------------------------------------------------------------------
(* Lines.  What SubSeq, Front and Last give.                                 *)
LEMMA FrontIs ==
  ASSUME NEW X, NEW s \in Seq(X), s # <<>>
  PROVE  /\ Front(s) \in Seq(X) /\ Last(s) \in X /\ Last(s) = s[Len(s)]
         /\ Len(Front(s)) = Len(s) - 1 /\ \A i \in 1..Len(s) - 1 : Front(s)[i] = s[i]
         /\ s = Append(Front(s), Last(s))
<1> DEFINE n == Len(s)
<1>1. n \in Nat /\ n > 0 /\ n \in 1..n /\ \A i \in 1..n : s[i] \in X
  OBVIOUS
<1>2. Front(s) = SubSeq(s, 1, n - 1) /\ Last(s) = s[n]
  BY DEF Front, Last
<1>3. \A i \in 1..n - 1 : s[i] \in X
  BY <1>1
<1>4. 1 \in Int /\ n - 1 \in Int
  BY <1>1
<1> HIDE DEF n
<1>5. /\ Front(s) \in Seq(X) /\ Len(Front(s)) = (IF 1 <= n - 1 THEN n - 1 - 1 + 1 ELSE 0)
      /\ \A i \in 1 .. n - 1 - 1 + 1 : Front(s)[i] = s[1 + i - 1]
  BY <1>2, <1>3, <1>4, SubSeqProperties
<1>6. Len(Front(s)) = n - 1 /\ \A i \in 1..n - 1 : Front(s)[i] = s[i]
  BY <1>1, <1>5
<1>7. Last(s) \in X
  BY <1>1, <1>2
<1>8. /\ Append(Front(s), Last(s)) \in Seq(X) /\ Len(Append(Front(s), Last(s))) = n
      /\ Append(Front(s), Last(s))[n] = s[n]
      /\ \A i \in 1..n - 1 : Append(Front(s), Last(s))[i] = s[i]
  BY <1>1, <1>2, <1>5, <1>6, <1>7
<1>9. \A i \in 1..n : Append(Front(s), Last(s))[i] = s[i]
  BY <1>1, <1>8
<1>10. Append(Front(s), Last(s)) = s
  BY <1>8, <1>9, SeqEqual DEF n
<1> QED
  BY <1>2, <1>5, <1>6, <1>7, <1>10 DEF n

LEMMA AppendIs ==
  ASSUME NEW X, NEW s \in Seq(X), NEW x \in X
  PROVE  /\ Append(s, x) \in Seq(X) /\ Append(s, x) # <<>> /\ Len(Append(s, x)) = Len(s) + 1
         /\ Append(s, x)[Len(s) + 1] = x /\ \A i \in 1..Len(s) : Append(s, x)[i] = s[i]
         /\ Front(Append(s, x)) = s /\ Last(Append(s, x)) = x
<1> DEFINE a == Append(s, x)
<1>1. /\ a \in Seq(X) /\ Len(a) = Len(s) + 1 /\ Len(s) \in Nat
      /\ a[Len(s) + 1] = x /\ \A i \in 1..Len(s) : a[i] = s[i]
  OBVIOUS
<1> HIDE DEF a
<1>2. a # <<>>
  BY <1>1
<1>3. /\ Front(a) \in Seq(X) /\ Len(Front(a)) = Len(a) - 1 /\ Last(a) = a[Len(a)]
      /\ \A i \in 1..Len(a) - 1 : Front(a)[i] = a[i]
  BY <1>1, <1>2, FrontIs
<1>4. Len(Front(a)) = Len(s) /\ \A i \in 1..Len(Front(a)) : Front(a)[i] = s[i]
  BY <1>1, <1>3
<1>5. Front(a) = s
  BY <1>3, <1>4, SeqEqual
<1> QED
  BY <1>1, <1>2, <1>3, <1>5 DEF a

(* What is at the end of two lists is at the end of the second.              *)
LEMMA JoinEnds ==
  ASSUME NEW X, NEW s \in Seq(X), NEW t \in Seq(X), t # <<>>
  PROVE  s \o t # <<>> /\ Front(s \o t) = s \o Front(t) /\ Last(s \o t) = Last(t)
<1> DEFINE j == s \o t
           m == Len(s)
           n == Len(t)
<1>1. /\ j \in Seq(X) /\ m \in Nat /\ n \in Nat /\ n > 0 /\ Len(j) = m + n
      /\ \A i \in 1..m + n : j[i] = IF i <= m THEN s[i] ELSE t[i - m]
  OBVIOUS
<1>2. /\ Front(t) \in Seq(X) /\ Len(Front(t)) = n - 1 /\ Last(t) = t[n]
      /\ \A i \in 1..n - 1 : Front(t)[i] = t[i]
  BY FrontIs
<1> HIDE DEF j, m, n
<1>3. j # <<>>
  BY <1>1
<1>4. /\ Front(j) \in Seq(X) /\ Len(Front(j)) = m + n - 1 /\ Last(j) = j[m + n]
      /\ \A i \in 1..m + n - 1 : Front(j)[i] = j[i]
  <2>1. /\ Front(j) \in Seq(X) /\ Len(Front(j)) = Len(j) - 1 /\ Last(j) = j[Len(j)]
        /\ \A i \in 1..Len(j) - 1 : Front(j)[i] = j[i]
    BY <1>1, <1>3, FrontIs
  <2> QED
    BY <1>1, <2>1
<1>5. Last(j) = Last(t)
  BY <1>1, <1>2, <1>4
<1> DEFINE k == s \o Front(t)
<1>6. /\ k \in Seq(X) /\ Len(k) = m + (n - 1)
      /\ \A i \in 1..m + (n - 1) : k[i] = IF i <= m THEN s[i] ELSE Front(t)[i - m]
  <2>1. /\ k \in Seq(X) /\ Len(k) = Len(s) + Len(Front(t))
        /\ \A i \in 1..Len(s) + Len(Front(t)) : k[i] = IF i <= Len(s) THEN s[i] ELSE Front(t)[i - Len(s)]
    BY <1>2, ConcatProperties
  <2> HIDE DEF k
  <2> QED
    BY <1>2, <2>1 DEF m
<1> HIDE DEF k
<1>7. Len(Front(j)) = Len(k) /\ Len(k) = m + n - 1
  BY <1>1, <1>4, <1>6
<1>8. ASSUME NEW i \in 1..m + n - 1 PROVE Front(j)[i] = k[i]
  <2>1. i \in 1..m + n /\ i \in 1..m + (n - 1) /\ Front(j)[i] = j[i]
    BY <1>1, <1>4
  <2>2. CASE i <= m
    BY <1>1, <1>6, <2>1, <2>2
  <2>3. CASE ~(i <= m)
    <3>1. i - m \in 1..n - 1
      BY <1>1, <2>3
    <3> QED
      BY <1>1, <1>2, <1>6, <2>1, <2>3, <3>1
  <2> QED
    BY <2>2, <2>3
<1>9. Front(j) = k
  BY <1>4, <1>6, <1>7, <1>8, SeqEqual
<1> QED
  BY <1>3, <1>5, <1>9 DEF j, k

-----------------------------------------------------------------------------
(* split() goes through a text once: the lines it has so far and the next    *)
(* character give those it has then.                                         *)
Letters == Characters \ {"end"}

Words == Seq(Letters)

Lines == {q \in Seq(Seq(Letters)) : q # <<>>}

Taking(q, c) == IF c = "end" THEN Append(q, <<>>) ELSE Append(Front(q), Append(Last(q), c))

LEMMA TakingGives ==
  ASSUME NEW q \in Lines, NEW c \in Characters
  PROVE  Taking(q, c) \in Lines
<1>1. q \in Seq(Seq(Letters)) /\ q # <<>> /\ Front(q) \in Seq(Seq(Letters)) /\ Last(q) \in Seq(Letters)
  BY FrontIs DEF Lines
<1>2. CASE c = "end"
  <2>1. <<>> \in Seq(Letters)
    OBVIOUS
  <2> QED
    BY <1>1, <1>2, <2>1, AppendIs DEF Taking, Lines
<1>3. CASE c # "end"
  <2>1. c \in Letters
    BY <1>3 DEF Letters
  <2>2. Append(Last(q), c) \in Seq(Letters)
    BY <1>1, <2>1, AppendIs
  <2> DEFINE f == Front(q)
             l == Append(Last(q), c)
  <2> HIDE DEF f, l
  <2>3. f \in Seq(Seq(Letters)) /\ l \in Seq(Letters)
    BY <1>1, <2>2 DEF f, l
  <2>4. Append(f, l) \in Seq(Seq(Letters)) /\ Append(f, l) # <<>>
    BY <2>3
  <2> QED
    BY <1>3, <2>4 DEF Taking, Lines, f, l
<1> QED
  BY <1>2, <1>3

LEMMA SplitRuns ==
  ASSUME NEW s \in Seq(Characters)
  PROVE  \E up \in [0..Len(s) -> Lines] :
           /\ up[0] = << <<>> >>
           /\ \A i \in 1..Len(s) : up[i] = Taking(up[i - 1], s[i])
           /\ Split(s) = up[Len(s)]
<1> DEFINE n == Len(s)
           Is(h) == h = [i \in 0..n |->
                           IF i = 0 THEN << <<>> >>
                           ELSE IF s[i] = "end" THEN Append(h[i - 1], <<>>)
                           ELSE Append(Front(h[i - 1]), Append(Last(h[i - 1]), s[i]))]
<1>1. n \in Nat /\ \A i \in 1..n : s[i] \in Characters
  OBVIOUS
<1>2. Split(s) = (CHOOSE h : Is(h))[n]
  BY DEF Split
<1>11. << <<>> >> \in Lines
  <2>1. <<>> \in Seq(Letters)
    OBVIOUS
  <2> DEFINE e == <<>>
  <2>2. e \in Seq(Letters)
    BY <2>1
  <2> HIDE DEF e
  <2>3. <<e>> \in Seq(Seq(Letters)) /\ <<e>> # <<>>
    BY <2>2
  <2> QED
    BY <2>3 DEF Lines, e
<1> HIDE DEF n
<1>3. PICK step : \A i \in 1..n, q \in Lines : step[i][q] = Taking(q, s[i])
  <2> DEFINE step == [i \in 1..n |-> [q \in Lines |-> Taking(q, s[i])]]
  <2>1. \A i \in 1..n, q \in Lines : step[i][q] = Taking(q, s[i])
    OBVIOUS
  <2> HIDE DEF step
  <2> QED
    BY <2>1
<1>4. PICK f : Unfolds(f, step, n, Lines, << <<>> >>)
  <2>1. ASSUME NEW i \in 1..n, NEW q \in Lines PROVE step[i][q] \in Lines
    <3>1. s[i] \in Characters
      BY <1>1
    <3> QED
      BY <1>3, <3>1, TakingGives
  <2>2. StepsWithin(step, n, Lines)
    BY <2>1 DEF StepsWithin
  <2> QED
    BY <1>1, <1>11, <2>2, RecursionExists
<1>5. ASSUME NEW i \in 1..n
      PROVE  f[i] = Taking(f[i - 1], s[i])
  <2>1. i - 1 \in 0..n
    BY <1>1
  <2>2. f[i - 1] \in Lines
    BY <1>4, <2>1 DEF Unfolds
  <2> QED
    BY <1>3, <1>4, <2>2 DEF Unfolds
<1>6. Is(f)
  <2>1. ASSUME NEW i \in 0..n
        PROVE  f[i] = IF i = 0 THEN << <<>> >>
                      ELSE IF s[i] = "end" THEN Append(f[i - 1], <<>>)
                      ELSE Append(Front(f[i - 1]), Append(Last(f[i - 1]), s[i]))
    <3>1. i = 0 \/ (i # 0 /\ i \in 1..n)
      BY <1>1
    <3>2. f[0] = << <<>> >>
      BY <1>4 DEF Unfolds
    <3> QED
      BY <1>5, <3>1, <3>2 DEF Taking
  <2>2. f = [i \in 0..n |-> f[i]]
    BY <1>4 DEF Unfolds
  <2> QED
    BY <2>1, <2>2
<1>7. Is(CHOOSE h : Is(h))
  BY <1>6
<1> DEFINE g == CHOOSE h : Is(h)
<1>8. /\ g[0] = << <<>> >>
      /\ \A i \in 1..n : g[i] = Taking(g[i - 1], s[i])
  <2>1. \A i \in 1..n : i # 0 /\ i \in 0..n
    BY <1>1
  <2>2. 0 \in 0..n
    BY <1>1
  <2>3. g = [i \in 0..n |->
               IF i = 0 THEN << <<>> >>
               ELSE IF s[i] = "end" THEN Append(g[i - 1], <<>>)
               ELSE Append(Front(g[i - 1]), Append(Last(g[i - 1]), s[i]))]
    BY <1>7
  <2> HIDE DEF g
  <2> QED
    BY <2>1, <2>2, <2>3 DEF Taking
<1> HIDE DEF g
<1>9. \A i \in 0..n : g[i] = f[i]
  <2> DEFINE holds == {i \in 0..n : g[i] = f[i]}
  <2>1. 0 \in holds
    BY <1>1, <1>4, <1>8 DEF Unfolds
  <2>2. ASSUME NEW i \in 1..n, i - 1 \in holds PROVE i \in holds
    <3>1. g[i - 1] = f[i - 1] /\ i \in 0..n /\ i # 0
      BY <1>1, <2>2
    <3> QED
      BY <1>5, <1>8, <3>1
  <2> HIDE DEF holds
  <2>3. \A i \in 0..n : i \in holds
    BY <1>1, <2>1, <2>2, CountingUp
  <2> QED
    BY <2>3 DEF holds
<1>10. Split(s) = f[n]
  <2>1. g[n] = f[n]
    BY <1>1, <1>9
  <2> QED
    BY <1>2, <2>1 DEF g
<1> QED
  BY <1>4, <1>5, <1>10 DEF n, Unfolds

LEMMA SplitNext ==
  ASSUME NEW s \in Seq(Characters), NEW c \in Characters
  PROVE  Split(s) \in Lines /\ Split(Append(s, c)) = Taking(Split(s), c) /\ Split(<<>>) = << <<>> >>
<1> DEFINE n == Len(s)
           a == Append(s, c)
<1>1. n \in Nat /\ a \in Seq(Characters) /\ Len(a) = n + 1 /\ a[n + 1] = c /\ \A i \in 1..n : a[i] = s[i]
  OBVIOUS
<1>2. PICK up \in [0..n -> Lines] :
        up[0] = << <<>> >> /\ (\A i \in 1..n : up[i] = Taking(up[i - 1], s[i])) /\ Split(s) = up[n]
  BY SplitRuns
<1> HIDE DEF a
<1>3. PICK on \in [0..n + 1 -> Lines] :
        on[0] = << <<>> >> /\ (\A i \in 1..n + 1 : on[i] = Taking(on[i - 1], a[i])) /\ Split(a) = on[n + 1]
  <2>1. \E on \in [0..Len(a) -> Lines] :
          /\ on[0] = << <<>> >>
          /\ \A i \in 1..Len(a) : on[i] = Taking(on[i - 1], a[i])
          /\ Split(a) = on[Len(a)]
    BY <1>1, SplitRuns
  <2> QED
    BY <1>1, <2>1
<1> HIDE DEF n
<1> DEFINE holds == {i \in 0..n : on[i] = up[i]}
<1>4. 0 \in holds
  BY <1>1, <1>2, <1>3
<1>5. ASSUME NEW i \in 1..n, i - 1 \in holds PROVE i \in holds
  <2>1. on[i - 1] = up[i - 1] /\ i \in 0..n /\ i \in 1..n + 1 /\ a[i] = s[i]
    BY <1>1, <1>5
  <2> QED
    BY <1>2, <1>3, <2>1
<1> HIDE DEF holds
<1>6. \A i \in 0..n : i \in holds
  BY <1>1, <1>4, <1>5, CountingUp
<1>7. on[n] = up[n] /\ up[n] \in Lines
  BY <1>1, <1>2, <1>6 DEF holds
<1>8. n + 1 \in 1..n + 1 /\ (n + 1) - 1 = n
  BY <1>1
<1>9. on[n + 1] = Taking(on[n], c)
  BY <1>1, <1>3, <1>8
<1>10. Split(<<>>) = << <<>> >>
  <2>1. <<>> \in Seq(Characters) /\ Len(<<>>) = 0
    OBVIOUS
  <2>2. \E h \in [0..Len(<<>>) -> Lines] :
          /\ h[0] = << <<>> >>
          /\ \A i \in 1..Len(<<>>) : h[i] = Taking(h[i - 1], <<>>[i])
          /\ Split(<<>>) = h[Len(<<>>)]
    BY <2>1, SplitRuns
  <2> QED
    BY <2>1, <2>2
<1> QED
  BY <1>2, <1>3, <1>7, <1>9, <1>10 DEF a
LEMMA PrefixIs ==
  ASSUME NEW X, NEW s \in Seq(X)
  PROVE  /\ SubSeq(s, 1, 0) = <<>> /\ SubSeq(s, 1, Len(s)) = s
         /\ \A i \in 0..Len(s) : SubSeq(s, 1, i) \in Seq(X)
         /\ \A i \in 1..Len(s) : SubSeq(s, 1, i) = Append(SubSeq(s, 1, i - 1), s[i]) /\ s[i] \in X
<1> DEFINE n == Len(s)
<1>1. n \in Nat /\ \A i \in 1..n : s[i] \in X
  OBVIOUS
<1>2. SubSeq(s, 1, 0) = <<>> /\ SubSeq(s, 1, n) = s
  BY SubSeqEmpty, SubSeqFull
<1> HIDE DEF n
<1> DEFINE p(i) == SubSeq(s, 1, i)
<1>3. ASSUME NEW i \in 0..n
      PROVE  p(i) \in Seq(X) /\ Len(p(i)) = i /\ \A k \in 1..i : p(i)[k] = s[k]
  <2>1. 1 \in Int /\ i \in Int /\ \A k \in 1..i : s[k] \in X
    BY <1>1
  <2>2. p(i) \in Seq(X) /\ Len(p(i)) = (IF 1 <= i THEN i - 1 + 1 ELSE 0) /\ \A k \in 1..i - 1 + 1 : p(i)[k] = s[1 + k - 1]
    BY <2>1, SubSeqProperties
  <2> HIDE DEF p
  <2> QED
    BY <1>1, <2>1, <2>2
<1> HIDE DEF p
<1>4. ASSUME NEW i \in 1..n PROVE p(i) = Append(p(i - 1), s[i]) /\ s[i] \in X
  <2>1. i - 1 \in 0..n /\ i \in 0..n /\ i \in Nat /\ s[i] \in X
    BY <1>1
  <2>2. /\ p(i) \in Seq(X) /\ Len(p(i)) = i /\ \A k \in 1..i : p(i)[k] = s[k]
        /\ p(i - 1) \in Seq(X) /\ Len(p(i - 1)) = i - 1 /\ \A k \in 1..i - 1 : p(i - 1)[k] = s[k]
    BY <1>3, <2>1
  <2> DEFINE a == Append(p(i - 1), s[i])
  <2>3. /\ a \in Seq(X) /\ Len(a) = i /\ a[i] = s[i] /\ \A k \in 1..i - 1 : a[k] = s[k]
    BY <2>1, <2>2
  <2> HIDE DEF a
  <2>4. \A k \in 1..i : p(i)[k] = a[k]
    BY <2>1, <2>2, <2>3
  <2>5. p(i) = a
    BY <2>2, <2>3, <2>4, SeqEqual
  <2> QED
    BY <2>1, <2>5 DEF a
<1> QED
  BY <1>2, <1>3, <1>4 DEF n, p

(* A text without the end of a line is one.                                  *)
LEMMA SplitOne ==
  ASSUME NEW s \in Seq(Letters)
  PROVE  Split(s) = <<s>>
<1> DEFINE n == Len(s)
           p(i) == SubSeq(s, 1, i)
           holds == {i \in 0..n : Split(p(i)) = <<p(i)>>}
<1>1. n \in Nat
  OBVIOUS
<1>2. /\ p(0) = <<>> /\ p(n) = s /\ \A i \in 0..n : p(i) \in Seq(Letters)
      /\ \A i \in 1..n : p(i) = Append(p(i - 1), s[i]) /\ s[i] \in Letters
  BY PrefixIs
<1> HIDE DEF n, p
<1>3. <<>> \in Seq(Characters) /\ "good" \in Characters
  BY DEF Characters
<1>4. 0 \in holds
  <2>1. p(0) = <<>> /\ Split(<<>>) = << <<>> >>
    BY <1>2, <1>3, SplitNext
  <2>2. Split(p(0)) = <<p(0)>> /\ 0 \in 0..n
    BY <1>1, <2>1
  <2> QED
    BY <2>2
<1>5. ASSUME NEW i \in 1..n, i - 1 \in holds PROVE i \in holds
  <2> DEFINE q == p(i - 1)
             c == s[i]
  <2>1. q \in Seq(Letters) /\ p(i) = Append(q, c) /\ c \in Letters /\ Split(q) = <<q>> /\ i \in 0..n
    <3>1. i - 1 \in 0..n /\ i \in 0..n
      BY <1>1
    <3> QED
      BY <1>2, <1>5, <3>1, Zenon
  <2> HIDE DEF q, c
  <2>2. q \in Seq(Characters) /\ c \in Characters /\ c # "end"
    BY <2>1 DEF Letters
  <2>3. Split(p(i)) = Taking(<<q>>, c)
    BY <2>1, <2>2, SplitNext
  <2>4. Front(<<q>>) = <<>> /\ Last(<<q>>) = q
    <3>1. <<q>> = Append(<<>>, q) /\ <<>> \in Seq(Seq(Letters))
      OBVIOUS
    <3> QED
      BY <2>1, <3>1 DEF Front, Last
  <2>5. Taking(<<q>>, c) = Append(<<>>, Append(q, c))
    BY <2>2, <2>4 DEF Taking
  <2> HIDE DEF p
  <2>6. Append(<<>>, Append(q, c)) = <<Append(q, c)>>
    OBVIOUS
  <2> QED
    BY <2>1, <2>3, <2>5, <2>6
<1> HIDE DEF holds
<1>6. \A i \in 0..n : i \in holds
  <2>1. \A i \in 1..n : i - 1 \in holds => i \in holds
    BY <1>5
  <2> QED
    BY <1>1, <1>4, <2>1, CountingUp
<1>7. Split(p(n)) = <<p(n)>>
  BY <1>1, <1>6 DEF holds
<1> QED
  BY <1>2, <1>7

LEMMA TakingJoin ==
  ASSUME NEW f \in Seq(Words), NEW q \in Lines, NEW c \in Characters
  PROVE  Taking(f \o q, c) = f \o Taking(q, c)
<1>1. q \in Seq(Words) /\ q # <<>>
  BY DEF Lines, Words
<1>2. Front(q) \in Seq(Words) /\ Last(q) \in Words
  BY <1>1, FrontIs
<1>3. Front(f \o q) = f \o Front(q) /\ Last(f \o q) = Last(q)
  BY <1>1, JoinEnds
<1>4. CASE c = "end"
  <2> DEFINE e == <<>>
  <2>1. e \in Words
    BY DEF Words
  <2> HIDE DEF e
  <2>2. Append(f \o q, e) = f \o Append(q, e)
    BY <1>1, <2>1
  <2> QED
    BY <1>4, <2>2 DEF Taking, e
<1>5. CASE c # "end"
  <2> DEFINE l == Append(Last(q), c)
             g == Front(q)
  <2>1. l \in Words /\ g \in Seq(Words)
    BY <1>2, <1>5 DEF Letters, Words
  <2> HIDE DEF l, g
  <2>2. Append(f \o g, l) = f \o Append(g, l)
    BY <2>1
  <2>3. Taking(f \o q, c) = Append(f \o g, l) /\ Taking(q, c) = Append(g, l)
    BY <1>3, <1>5 DEF Taking, l, g
  <2> QED
    BY <2>2, <2>3
<1> QED
  BY <1>4, <1>5

(* Where a text is cut does not matter, if what follows the last line end is *)
(* kept.                                                                     *)
LEMMA SplitJoin ==
  ASSUME NEW s \in Seq(Characters), NEW b \in Seq(Characters)
  PROVE  Split(s \o b) = Front(Split(s)) \o Split(Last(Split(s)) \o b)
<1> DEFINE n == Len(b)
           p(i) == SubSeq(b, 1, i)
           f == Front(Split(s))
           k == Last(Split(s))
           holds == {i \in 0..n : Split(s \o p(i)) = f \o Split(k \o p(i))}
<1>1. n \in Nat /\ "good" \in Characters
  BY DEF Characters
<1>2. /\ p(0) = <<>> /\ p(n) = b /\ \A i \in 0..n : p(i) \in Seq(Characters)
      /\ \A i \in 1..n : p(i) = Append(p(i - 1), b[i]) /\ b[i] \in Characters
  BY PrefixIs
<1>3. Split(s) \in Seq(Seq(Letters)) /\ Split(s) # <<>>
  BY <1>1, SplitNext DEF Lines
<1>4. f \in Seq(Seq(Letters)) /\ k \in Seq(Letters) /\ Split(s) = Append(f, k)
  BY <1>3, FrontIs
<1> HIDE DEF n, p, f, k
<1>5. k \in Seq(Characters)
  BY <1>4 DEF Letters
<1>6. 0 \in holds
  <2>1. s \o p(0) = s /\ k \o p(0) = k
    BY <1>2, <1>4, ConcatEmptySeq
  <2>2. Split(k) = <<k>>
    BY <1>4, SplitOne
  <2>3. f \o <<k>> = Append(f, k)
    BY <1>4
  <2> QED
    <3>1. 0 \in 0..n
      BY <1>1
    <3> QED
      BY <1>4, <2>1, <2>2, <2>3, <3>1, Zenon
<1>7. ASSUME NEW i \in 1..n, i - 1 \in holds PROVE i \in holds
  <2> DEFINE q == p(i - 1)
             c == b[i]
  <2>1. /\ q \in Seq(Characters) /\ p(i) = Append(q, c) /\ c \in Characters /\ i \in 0..n
        /\ Split(s \o q) = f \o Split(k \o q)
    <3>1. i - 1 \in 0..n /\ i \in 0..n
      BY <1>1
    <3> QED
      BY <1>2, <1>7, <3>1, Zenon
  <2> HIDE DEF q, c
  <2>2. s \o p(i) = Append(s \o q, c) /\ k \o p(i) = Append(k \o q, c)
    <3>1. s \o Append(q, c) = Append(s \o q, c)
      BY <2>1
    <3>2. k \o Append(q, c) = Append(k \o q, c)
      BY <1>5, <2>1
    <3> QED
      BY <2>1, <3>1, <3>2
  <2>3. s \o q \in Seq(Characters) /\ k \o q \in Seq(Characters)
    BY <1>5, <2>1, ConcatProperties
  <2>4. /\ Split(s \o p(i)) = Taking(Split(s \o q), c)
        /\ Split(k \o p(i)) = Taking(Split(k \o q), c) /\ Split(k \o q) \in Lines
    BY <2>1, <2>2, <2>3, SplitNext
  <2>5. Taking(f \o Split(k \o q), c) = f \o Taking(Split(k \o q), c)
    BY <1>4, <2>1, <2>4, TakingJoin DEF Words
  <2> QED
    BY <2>1, <2>4, <2>5
<1> HIDE DEF holds
<1>8. \A i \in 0..n : i \in holds
  <2>1. \A i \in 1..n : i - 1 \in holds => i \in holds
    BY <1>7
  <2> QED
    BY <1>1, <1>6, <2>1, CountingUp
<1>9. Split(s \o p(n)) = f \o Split(k \o p(n))
  BY <1>1, <1>8 DEF holds
<1> QED
  BY <1>2, <1>9 DEF f, k
LEMMA JoinOne ==
  \A s, t \in Seq(Words), x \in Words : Append(s \o t, x) = s \o Append(t, x)
OBVIOUS

-----------------------------------------------------------------------------
(* The lines of two lists are handled one list after the other.              *)
LEMMA HandledRuns ==
  ASSUME NEW s \in Seq(Words)
  PROVE  \E up \in [0..Len(s) -> Seq(Words)] :
           /\ up[0] = <<>>
           /\ \A i \in 1..Len(s) : up[i] = IF Parsed(s[i]) THEN Append(up[i - 1], s[i]) ELSE up[i - 1]
           /\ Handled(s) = up[Len(s)]
<1> DEFINE keep == [i \in DOMAIN s |-> Parsed(s[i])]
           n == Len(s)
<1>1. n \in Nat /\ DOMAIN s = 1..n
  OBVIOUS
<1>2. Handled(s) = Filter(s, keep)
  BY DEF Handled
<1>3. \A i \in 1..n : Parsed(s[i]) \in BOOLEAN
  BY Zenon DEF Parsed
<1>4. keep \in [1..n -> BOOLEAN] /\ \A i \in 1..n : keep[i] <=> Parsed(s[i])
  <2>1. keep \in [1..n -> BOOLEAN]
    BY <1>1, <1>3, Zenon
  <2>2. \A i \in 1..n : keep[i] <=> Parsed(s[i])
    BY <1>1, Zenon
  <2> QED
    BY <2>1, <2>2
<1> HIDE DEF keep
<1>5. PICK up \in [0..n -> Seq(Words)] :
         /\ up[0] = <<>>
         /\ \A i \in 1..n : up[i] = IF keep[i] THEN Append(up[i - 1], s[i]) ELSE up[i - 1]
         /\ Filter(s, keep) = up[n]
  BY <1>4, FilterRuns
<1>6. \A i \in 1..n : up[i] = IF Parsed(s[i]) THEN Append(up[i - 1], s[i]) ELSE up[i - 1]
  BY <1>4, <1>5, Zenon
<1> QED
  BY <1>2, <1>5, <1>6

LEMMA HandledJoin ==
  ASSUME NEW a \in Seq(Words), NEW b \in Seq(Words)
  PROVE  Handled(a \o b) = Handled(a) \o Handled(b)
<1> DEFINE m == Len(a)
           n == Len(b)
           j == a \o b
<1>1. /\ j \in Seq(Words) /\ m \in Nat /\ n \in Nat /\ Len(j) = m + n
      /\ \A i \in 1..m + n : j[i] = IF i <= m THEN a[i] ELSE b[i - m]
  BY ConcatProperties
<1>2. PICK ua \in [0..m -> Seq(Words)] :
        /\ ua[0] = <<>> /\ Handled(a) = ua[m]
        /\ \A i \in 1..m : ua[i] = IF Parsed(a[i]) THEN Append(ua[i - 1], a[i]) ELSE ua[i - 1]
  BY HandledRuns
<1>3. PICK ub \in [0..n -> Seq(Words)] :
        /\ ub[0] = <<>> /\ Handled(b) = ub[n]
        /\ \A i \in 1..n : ub[i] = IF Parsed(b[i]) THEN Append(ub[i - 1], b[i]) ELSE ub[i - 1]
  BY HandledRuns
<1> HIDE DEF j
<1>4. PICK uj \in [0..Len(j) -> Seq(Words)] :
        /\ uj[0] = <<>> /\ Handled(j) = uj[Len(j)]
        /\ \A i \in 1..Len(j) : uj[i] = IF Parsed(j[i]) THEN Append(uj[i - 1], j[i]) ELSE uj[i - 1]
  BY <1>1, HandledRuns
<1> HIDE DEF m, n
<1>5. /\ Handled(j) = uj[m + n]
      /\ \A i \in 1..m : uj[i] = IF Parsed(a[i]) THEN Append(uj[i - 1], a[i]) ELSE uj[i - 1]
      /\ \A i \in 1..n : uj[m + i] = IF Parsed(b[i]) THEN Append(uj[m + i - 1], b[i]) ELSE uj[m + i - 1]
  <2>1. \A i \in 1..m : i \in 1..Len(j) /\ j[i] = a[i]
    BY <1>1
  <2>2. ASSUME NEW i \in 1..n PROVE m + i \in 1..Len(j) /\ j[m + i] = b[i]
    <3>1. m + i \in 1..m + n /\ ~(m + i <= m) /\ (m + i) - m = i
      BY <1>1
    <3> QED
      BY <1>1, <3>1
  <2>3. Handled(j) = uj[m + n]
    BY <1>1, <1>4
  <2>4. ASSUME NEW i \in 1..m PROVE uj[i] = IF Parsed(a[i]) THEN Append(uj[i - 1], a[i]) ELSE uj[i - 1]
    BY <1>4, <2>1, Zenon
  <2>5. ASSUME NEW i \in 1..n PROVE uj[m + i] = IF Parsed(b[i]) THEN Append(uj[m + i - 1], b[i]) ELSE uj[m + i - 1]
    <3>1. m + i \in 1..Len(j) /\ j[m + i] = b[i]
      BY <2>2
    <3>2. uj[m + i] = IF Parsed(j[m + i]) THEN Append(uj[m + i - 1], j[m + i]) ELSE uj[m + i - 1]
      <4>1. \A k \in 1..Len(j) : uj[k] = IF Parsed(j[k]) THEN Append(uj[k - 1], j[k]) ELSE uj[k - 1]
        BY <1>4
      <4> DEFINE k == m + i
      <4>2. k \in 1..Len(j)
        BY <3>1
      <4> HIDE DEF k
      <4>3. uj[k] = IF Parsed(j[k]) THEN Append(uj[k - 1], j[k]) ELSE uj[k - 1]
        BY <4>1, <4>2, Zenon
      <4>4. k - 1 = m + i - 1
        BY <1>1 DEF k
      <4> QED
        BY <4>3, <4>4, Zenon DEF k
    <3> QED
      BY <3>1, <3>2, Zenon
  <2> QED
    BY <2>3, <2>4, <2>5
<1>6. \A i \in 0..m : uj[i] = ua[i]
  <2> DEFINE holds == {i \in 0..m : uj[i] = ua[i]}
  <2>1. 0 \in holds
    BY <1>1, <1>2, <1>4
  <2>2. ASSUME NEW i \in 1..m, i - 1 \in holds PROVE i \in holds
    <3>1. i \in 0..m
      BY <1>1
    <3> QED
      BY <1>2, <1>5, <2>2, <3>1
  <2> HIDE DEF holds
  <2>3. \A i \in 0..m : i \in holds
    BY <1>1, <2>1, <2>2, CountingUp
  <2> QED
    BY <2>3 DEF holds
<1> DEFINE ha == ua[m]
<1>7. uj[m] = ha
  BY <1>1, <1>2, <1>6
<1>10. ha \in Seq(Words)
  BY <1>1, <1>2
<1> HIDE DEF ha
<1>8. \A i \in 0..n : uj[m + i] = ha \o ub[i]
  <2> DEFINE holds == {i \in 0..n : uj[m + i] = ha \o ub[i]}
  <2>1. 0 \in holds
    <3>1. m + 0 = m /\ 0 \in 0..n /\ ub[0] = <<>>
      BY <1>1, <1>3
    <3>2. ha \o <<>> = ha
      BY <1>10, ConcatEmptySeq
    <3> QED
      BY <1>7, <3>1, <3>2
  <2>2. ASSUME NEW i \in 1..n, i - 1 \in holds PROVE i \in holds
    <3> DEFINE q == ub[i - 1]
               x == b[i]
    <3>1. i \in 0..n /\ i - 1 \in 0..n /\ m + (i - 1) = m + i - 1
      BY <1>1
    <3>2. q \in Seq(Words) /\ x \in Words
      <4>1. q \in Seq(Words)
        BY <1>3, <3>1
      <4>2. x \in Words
        BY DEF n
      <4> QED
        BY <4>1, <4>2
    <3>3. uj[m + i - 1] = ha \o q
      BY <2>2, <3>1
    <3> HIDE DEF q, x, holds
    <3>4. Append(ha \o q, x) = ha \o Append(q, x)
      BY <1>10, <3>2, JoinOne, Zenon
    <3>5. /\ uj[m + i] = IF Parsed(x) THEN Append(ha \o q, x) ELSE ha \o q
          /\ ub[i] = IF Parsed(x) THEN Append(q, x) ELSE q
      BY <1>3, <1>5, <3>3 DEF q, x
    <3>6. uj[m + i] = ha \o ub[i]
      BY <3>4, <3>5
    <3> QED
      BY <3>1, <3>6 DEF holds
  <2> HIDE DEF holds
  <2>3. \A i \in 0..n : i \in holds
    <3>1. \A i \in 1..n : i - 1 \in holds => i \in holds
      BY <2>2
    <3> QED
      BY <1>1, <2>1, <3>1, CountingUp
  <2> QED
    BY <2>3 DEF holds
<1>9. uj[m + n] = ha \o ub[n]
  <2>1. n \in 0..n
    BY <1>1
  <2> QED
    BY <1>8, <2>1
<1> QED
  BY <1>2, <1>3, <1>5, <1>9 DEF j, ha

(* Events have no character that does not parse.                             *)
LEMMA HandledGives ==
  ASSUME NEW s \in Seq(Words)
  PROVE  Handled(s) \in Seq(Seq({"good"}))
<1> DEFINE keep == [i \in DOMAIN s |-> Parsed(s[i])]
           n == Len(s)
           w == Handled(s)
<1>1. n \in Nat /\ DOMAIN s = 1..n /\ \A i \in 1..n : s[i] \in Words
  OBVIOUS
<1>2. Handled(s) = Filter(s, keep)
  BY DEF Handled
<1>3. \A i \in 1..n : Parsed(s[i]) \in BOOLEAN
  BY Zenon DEF Parsed
<1>4. keep \in [1..n -> BOOLEAN] /\ \A i \in 1..n : keep[i] <=> Parsed(s[i])
  <2>1. keep \in [1..n -> BOOLEAN]
    BY <1>1, <1>3, Zenon
  <2>2. \A i \in 1..n : keep[i] <=> Parsed(s[i])
    BY <1>1, Zenon
  <2> QED
    BY <2>1, <2>2
<1> HIDE DEF keep
<1>5. w \in Seq(Words) /\ \E spot : Picks(spot, w, s, keep)
  BY <1>2, <1>4, FilterIs
<1> HIDE DEF w
<1>6. PICK spot : Picks(spot, w, s, keep)
  BY <1>5
<1>7. ASSUME NEW i \in 1..Len(w) PROVE w[i] \in Seq({"good"})
  <2>1. spot[i] \in 1..n /\ keep[spot[i]] /\ w[i] = s[spot[i]]
    BY <1>6, Zenon DEF Picks
  <2>2. w[i] \in Words /\ Parsed(w[i])
    BY <1>1, <1>4, <2>1
  <2>3. \A k \in DOMAIN w[i] : w[i][k] = "good"
    BY <2>2 DEF Parsed
  <2> QED
    BY <2>2, <2>3 DEF Words
<1>8. w \in [1..Len(w) -> Seq({"good"})] /\ Len(w) \in Nat
  <2>1. Len(w) \in Nat /\ DOMAIN w = 1..Len(w) /\ w = [i \in 1..Len(w) |-> w[i]]
    BY <1>5
  <2> QED
    BY <1>7, <2>1
<1> DEFINE G == Seq({"good"})
<1> HIDE DEF G
<1>9. w \in Seq(G)
  BY <1>8 DEF G
<1> QED
  BY <1>9 DEF G, w
-----------------------------------------------------------------------------
(* The line reader: the unfinished line is the last one of what was read, and *)
(* the events are those before it.                                           *)
LinesRead == Split(SubSeq(text, 1, taken))

LinesInv ==
  /\ text \in Texts /\ taken \in 0..Len(text) /\ events \in Seq(Seq({"good"})) /\ kept \in Seq(Characters)
  /\ lineState \in {"reading", "ended", "failed"}
  /\ lineState = "reading" => kept = Last(LinesRead)
  /\ lineState # "ended" => events = Handled(Front(LinesRead))
  /\ lineState = "ended" => events = Handled(Split(text))

LEMMA TextsAre ==
  ASSUME NEW t \in Texts
  PROVE  t \in Seq(Characters)
BY DEF Texts

LEMMA LinesReadIs ==
  ASSUME NEW t \in Texts, NEW n \in 0..Len(t)
  PROVE  /\ SubSeq(t, 1, n) \in Seq(Characters)
         /\ Split(SubSeq(t, 1, n)) \in Seq(Words) /\ Split(SubSeq(t, 1, n)) # <<>>
         /\ Front(Split(SubSeq(t, 1, n))) \in Seq(Words) /\ Last(Split(SubSeq(t, 1, n))) \in Words
         /\ Last(Split(SubSeq(t, 1, n))) \in Seq(Characters)
<1>1. t \in Seq(Characters)
  BY TextsAre
<1>2. SubSeq(t, 1, n) \in Seq(Characters)
  BY <1>1, PrefixIs
<1> DEFINE l == Split(SubSeq(t, 1, n))
<1>3. "good" \in Characters
  BY DEF Characters
<1>4. l \in Seq(Words) /\ l # <<>>
  BY <1>2, <1>3, SplitNext DEF Lines, Words
<1> HIDE DEF l
<1>5. Front(l) \in Seq(Words) /\ Last(l) \in Words
  BY <1>4, FrontIs
<1>6. Last(l) \in Seq(Characters)
  BY <1>5 DEF Words, Letters
<1> QED
  BY <1>2, <1>4, <1>5, <1>6 DEF l

LEMMA LinesInvInit == LinesInit => LinesInv
<1> SUFFICES ASSUME LinesInit PROVE LinesInv
  OBVIOUS
<1>1. text \in Texts /\ taken = 0 /\ kept = <<>> /\ events = <<>> /\ lineState = "reading" /\ text \in Seq(Characters)
  BY TextsAre DEF LinesInit
<1>2. SubSeq(text, 1, 0) = <<>> /\ 0 \in 0..Len(text)
  BY <1>1, PrefixIs
<1>3. <<>> \in Seq(Characters) /\ "good" \in Characters
  BY DEF Characters
<1>4. LinesRead = << <<>> >>
  BY <1>1, <1>2, <1>3, SplitNext DEF LinesRead
<1>5. Last(<< <<>> >>) = <<>> /\ Front(<< <<>> >>) = <<>>
  BY DEF Last, Front
<1>6. Handled(<<>>) = <<>>
  <2>1. <<>> \in Seq(Words) /\ Len(<<>>) = 0
    OBVIOUS
  <2>2. \E up \in [0..Len(<<>>) -> Seq(Words)] :
          /\ up[0] = <<>>
          /\ \A i \in 1..Len(<<>>) : up[i] = IF Parsed(<<>>[i]) THEN Append(up[i - 1], <<>>[i]) ELSE up[i - 1]
          /\ Handled(<<>>) = up[Len(<<>>)]
    BY <2>1, HandledRuns
  <2> QED
    BY <2>1, <2>2
<1>7. events \in Seq(Seq({"good"}))
  BY <1>1
<1> QED
  BY <1>1, <1>2, <1>3, <1>4, <1>5, <1>6, <1>7 DEF LinesInv

LEMMA ReadPieceKeeps ==
  ASSUME LinesInv, ReadPiece
  PROVE  LinesInv'
<1>1. /\ lineState = "reading" /\ taken < Len(text) /\ text' = text /\ lineState' = lineState
      /\ text \in Texts /\ taken \in 0..Len(text) /\ text \in Seq(Characters) /\ Len(text) \in Nat
      /\ events \in Seq(Seq({"good"})) /\ kept = Last(LinesRead) /\ events = Handled(Front(LinesRead))
  BY TextsAre DEF LinesInv, ReadPiece
<1>2. PICK n \in taken + 1 .. Len(text) :
        /\ taken' = n
        /\ kept' = Last(Split(kept \o SubSeq(text, taken + 1, n)))
        /\ events' = events \o Handled(Front(Split(kept \o SubSeq(text, taken + 1, n))))
  BY DEF ReadPiece, Finished
<1>3. n \in 0..Len(text) /\ n \in Nat /\ taken \in Nat /\ taken < n
  BY <1>1, <1>2
<1> DEFINE a == SubSeq(text, 1, taken)
           b == SubSeq(text, taken + 1, n)
           lines == Split(kept \o b)
           f == Front(Split(a))
<1>4. a \in Seq(Characters) /\ f \in Seq(Words) /\ kept = Last(Split(a)) /\ kept \in Seq(Characters)
  BY <1>1, LinesReadIs DEF LinesRead
<1>5. b \in Seq(Characters) /\ SubSeq(text, 1, n) = a \o b
  <2> DEFINE j == a \o b
             c == SubSeq(text, 1, n)
  <2>1. \A i \in 1..Len(text) : text[i] \in Characters
    BY <1>1
  <2>2. /\ a \in Seq(Characters) /\ Len(a) = taken /\ \A i \in 1..taken : a[i] = text[i]
    <3>1. 1 \in Int /\ taken \in Int /\ \A i \in 1..taken : text[i] \in Characters
      BY <1>1, <1>3, <2>1
    <3>2. Len(a) = (IF 1 <= taken THEN taken - 1 + 1 ELSE 0) /\ \A i \in 1..taken - 1 + 1 : a[i] = text[1 + i - 1]
      BY <3>1, SubSeqProperties
    <3> HIDE DEF a
    <3> QED
      BY <1>3, <1>4, <3>2
  <2>3. /\ c \in Seq(Characters) /\ Len(c) = n /\ \A i \in 1..n : c[i] = text[i]
    <3>1. 1 \in Int /\ n \in Int /\ \A i \in 1..n : text[i] \in Characters
      BY <1>1, <1>3, <2>1
    <3>2. /\ c \in Seq(Characters)
          /\ Len(c) = (IF 1 <= n THEN n - 1 + 1 ELSE 0) /\ \A i \in 1..n - 1 + 1 : c[i] = text[1 + i - 1]
      BY <3>1, SubSeqProperties
    <3> HIDE DEF c
    <3> QED
      BY <1>3, <3>2
  <2>4. /\ b \in Seq(Characters) /\ Len(b) = n - taken /\ \A i \in 1..n - taken : b[i] = text[taken + i]
    <3>1. taken + 1 \in Int /\ n \in Int /\ \A i \in taken + 1 .. n : text[i] \in Characters
      BY <1>1, <1>3, <2>1
    <3>2. /\ b \in Seq(Characters)
          /\ Len(b) = (IF taken + 1 <= n THEN n - (taken + 1) + 1 ELSE 0)
          /\ \A i \in 1..n - (taken + 1) + 1 : b[i] = text[taken + 1 + i - 1]
      BY <3>1, SubSeqProperties
    <3> HIDE DEF b
    <3> QED
      BY <1>3, <3>2
  <2> HIDE DEF a, b, c
  <2>5. /\ j \in Seq(Characters) /\ Len(j) = taken + (n - taken)
        /\ \A i \in 1..taken + (n - taken) : j[i] = IF i <= taken THEN a[i] ELSE b[i - taken]
    <3>1. /\ j \in Seq(Characters) /\ Len(j) = Len(a) + Len(b)
          /\ \A i \in 1..Len(a) + Len(b) : j[i] = IF i <= Len(a) THEN a[i] ELSE b[i - Len(a)]
      BY <2>2, <2>4, ConcatProperties
    <3> HIDE DEF j
    <3> QED
      BY <2>2, <2>4, <3>1
  <2> HIDE DEF j
  <2>6. ASSUME NEW i \in 1..n PROVE c[i] = j[i]
    <3>1. CASE i <= taken
      BY <1>3, <2>2, <2>3, <2>5, <3>1
    <3>2. CASE ~(i <= taken)
      <4>1. i - taken \in 1..n - taken /\ taken + (i - taken) = i /\ i \in 1..taken + (n - taken)
        BY <1>3, <3>2
      <4>2. j[i] = b[i - taken] /\ b[i - taken] = text[i]
        BY <2>4, <2>5, <3>2, <4>1
      <4> QED
        BY <2>3, <4>2
    <3> QED
      BY <3>1, <3>2
  <2>7. Len(c) = Len(j) /\ Len(c) = n
    BY <1>3, <2>3, <2>5
  <2>8. c = j
    <3>1. c \in Seq(Characters) /\ j \in Seq(Characters)
      BY <2>3, <2>5
    <3>2. \A i \in 1..Len(c) : c[i] = j[i]
      BY <2>6, <2>7
    <3> QED
      BY <2>7, <3>1, <3>2, SeqEqual
  <2> QED
    BY <2>4, <2>8 DEF c, j
<1>6. LinesRead' = Split(SubSeq(text, 1, n))
  BY <1>1, <1>2 DEF LinesRead
<1> HIDE DEF a, b
<1>7. LinesRead' = f \o lines
  <2>1. Split(a \o b) = Front(Split(a)) \o Split(Last(Split(a)) \o b)
    BY <1>4, <1>5, SplitJoin
  <2> QED
    BY <1>4, <1>5, <1>6, <2>1
<1>8. kept \o b \in Seq(Characters) /\ "good" \in Characters
  BY <1>4, <1>5, ConcatProperties DEF Characters
<1>9. lines \in Seq(Words) /\ lines # <<>>
  BY <1>8, SplitNext DEF Lines, Words
<1>10. kept' = Last(lines) /\ events' = events \o Handled(Front(lines)) /\ events = Handled(f)
  BY <1>1, <1>2 DEF b, a, LinesRead
<1> HIDE DEF lines, f
<1>11. Front(LinesRead') = f \o Front(lines) /\ Last(LinesRead') = Last(lines)
  BY <1>4, <1>7, <1>9, JoinEnds
<1>12. Front(lines) \in Seq(Words) /\ Last(lines) \in Words
  BY <1>9, FrontIs
<1>13. events' = Handled(Front(LinesRead'))
  BY <1>4, <1>10, <1>11, <1>12, HandledJoin
<1>14. events' \in Seq(Seq({"good"}))
  <2>1. f \o Front(lines) \in Seq(Words)
    BY <1>4, <1>12, ConcatProperties
  <2> QED
    BY <1>11, <1>13, <2>1, HandledGives
<1>15. kept' \in Seq(Characters)
  BY <1>10, <1>12 DEF Words, Letters
<1> QED
  BY <1>1, <1>2, <1>3, <1>10, <1>11, <1>13, <1>14, <1>15 DEF LinesInv

LEMMA EndOfTextKeeps ==
  ASSUME LinesInv, EndOfText
  PROVE  LinesInv'
<1>1. /\ lineState = "reading" /\ taken = Len(text) /\ text' = text /\ lineState' = "ended" /\ kept' = <<>> /\ taken' = taken
      /\ text \in Texts /\ taken \in 0..Len(text) /\ text \in Seq(Characters)
      /\ events = Handled(Front(LinesRead)) /\ events' = events \o Handled(<<kept>>) /\ kept = Last(LinesRead)
  BY TextsAre DEF LinesInv, EndOfText
<1> DEFINE l == Split(text)
<1>2. LinesRead = l
  BY <1>1, PrefixIs DEF LinesRead
<1>3. l \in Seq(Words) /\ l # <<>> /\ Front(l) \in Seq(Words) /\ Last(l) \in Words
  BY <1>1, <1>2, LinesReadIs DEF LinesRead
<1> HIDE DEF l
<1>4. l = Append(Front(l), Last(l))
  BY <1>3, FrontIs
<1>5. <<Last(l)>> \in Seq(Words) /\ Append(Front(l), Last(l)) = Front(l) \o <<Last(l)>>
  BY <1>3
<1>6. events' = Handled(l)
  BY <1>1, <1>2, <1>3, <1>4, <1>5, HandledJoin
<1>7. events' \in Seq(Seq({"good"}))
  BY <1>3, <1>6, HandledGives
<1>8. kept' \in Seq(Characters)
  BY <1>1
<1> QED
  BY <1>1, <1>6, <1>7, <1>8 DEF LinesInv, l

LEMMA LinesInvNext == LinesInv /\ [LinesNext]_lineVars => LinesInv'
<1> SUFFICES ASSUME LinesInv, [LinesNext]_lineVars PROVE LinesInv'
  OBVIOUS
<1>1. CASE UNCHANGED lineVars
  BY <1>1 DEF lineVars, LinesInv, LinesRead
<1>2. CASE Break
  BY <1>2 DEF Break, LinesInv, LinesRead
<1> QED
  BY <1>1, <1>2, ReadPieceKeeps, EndOfTextKeeps DEF LinesNext

LEMMA LinesInvShows == LinesInv => LinesTypeOK /\ LinesSurvive
BY DEF LinesInv, LinesTypeOK, LinesSurvive, LinesRead

-----------------------------------------------------------------------------
(* The web client's chat.  A conversation has at most two messages of each   *)
(* send.                                                                     *)
SentOnce(c)  == {s \in Sends : sends[s].conv = c /\ sends[s].state \in {"saved", "cut", "answered", "over"}}
SentTwice(c) == {s \in Sends : sends[s].conv = c /\ sends[s].state \in {"answered", "over"}}

SavedIsCounted ==
  \A c \in Conversations :
    /\ \A m, n \in saved[c] : m = n
    /\ \A n \in saved[c] : n <= Cardinality(SentOnce(c)) + Cardinality(SentTwice(c))

UnderWay(l) == loads[l].state \in {"asked", "read"}

(* Sends and loads know their conversation, and loads are issued in order.   *)
RequestsArePlaced ==
  /\ \A s \in Sends : sends[s].state \in {"streaming", "saved", "answered", "untaken", "cut"} => sends[s].conv \in Conversations
  /\ \A l \in Loads : loads[l].state # "free" => loads[l].conv \in Conversations
  /\ \A k, l \in Loads : k < l /\ loads[k].state = "free" => loads[l].state = "free"

ViewIsNewest ==
  newest # 0 =>
    /\ loads[newest].state = "shown"
    /\ view.local \/ (view.of = loads[newest].conv /\ view.count = loads[newest].count)

ComposerInv ==
  /\ Open = {} => ~streaming
  /\ ~crossed => /\ \A r, s \in Open : r = s
                 /\ streaming <=> Open # {}
                 /\ \A s \in Sends : sends[s].state \notin {"untaken", "cut"}

(* The last load is of the active conversation as it is.                     *)
LastIsOfActive ==
  \E l \in Loads :
    /\ loads[l].state # "free" /\ \A k \in Loads : k > l => loads[k].state = "free"
    /\ loads[l].conv = active
    /\ loads[l].state \in {"read", "shown"} => loads[l].count = Count(active)

(* While nobody interferes all that is under way is the active one's.        *)
Undisturbed ==
  ~moved /\ ~crossed =>
    /\ \A s \in Sends : sends[s].state = "creating" => active = NoConversation
    /\ \A s \in Open : sends[s].conv = active
    /\ \A l \in Loads : UnderWay(l) => loads[l].conv = active
    /\ active # NoConversation => Exists(active)
    /\ active # NoConversation /\ Open = {} => LastIsOfActive

ClientInv ==
  ClientTypeOK /\ SavedIsCounted /\ RequestsArePlaced /\ ViewIsNewest /\ ComposerInv /\ Undisturbed

USE ClientAssumption DEF Sends, Loads, Places

LEMMA ClientInvInit == ClientInit => ClientInv
<1> SUFFICES ASSUME ClientInit PROVE ClientInv
  OBVIOUS
<1>1. ClientTypeOK
  <2>1. 0 \in Counts
    BY DEF Counts
  <2>2. sends \in [Sends -> [conv : Places, state : SendStates]]
    BY DEF ClientInit, NoSend, SendStates
  <2>3. loads \in [Loads -> [conv : Places, state : LoadStates, count : Counts]]
    BY <2>1 DEF ClientInit, NoLoad, LoadStates
  <2>4. saved \in [Conversations -> SUBSET Counts]
    BY <2>1 DEF ClientInit
  <2>5. view \in [of : Places, count : Counts, local : BOOLEAN]
    BY <2>1 DEF ClientInit
  <2>6. active \in Places /\ latest \in Sends \cup {0} /\ opening \in 0..1 /\ newest \in Loads \cup {0}
    BY DEF ClientInit
  <2>7. streaming \in BOOLEAN /\ moved \in BOOLEAN /\ crossed \in BOOLEAN
    BY Zenon DEF ClientInit
  <2> QED
    BY <2>2, <2>3, <2>4, <2>5, <2>6, <2>7 DEF ClientTypeOK
<1>2. SavedIsCounted
  <2> SUFFICES ASSUME NEW c \in Conversations
               PROVE  0 <= Cardinality(SentOnce(c)) + Cardinality(SentTwice(c))
    BY DEF SavedIsCounted, ClientInit
  <2>1. SentOnce(c) = {} /\ SentTwice(c) = {}
    BY DEF ClientInit, SentOnce, SentTwice, NoSend
  <2> QED
    BY <2>1, FS_EmptySet
<1>3. RequestsArePlaced /\ ViewIsNewest /\ ComposerInv /\ Undisturbed
  BY DEF ClientInit, RequestsArePlaced, ViewIsNewest, ComposerInv, Undisturbed, Open, NoSend, NoLoad, UnderWay
<1> QED
  BY <1>1, <1>2, <1>3 DEF ClientInv

(* What is counted of a conversation grows with a send's progress.           *)
LEMMA SendsFinite ==
  ASSUME NEW c
  PROVE  IsFiniteSet(SentOnce(c)) /\ IsFiniteSet(SentTwice(c)) /\ IsFiniteSet(SentOnce(c)') /\ IsFiniteSet(SentTwice(c)')
         /\ Cardinality(SentOnce(c)) \in 0..MaxSends /\ Cardinality(SentTwice(c)) \in 0..MaxSends
         /\ Cardinality(SentOnce(c)') \in 0..MaxSends /\ Cardinality(SentTwice(c)') \in 0..MaxSends
<1>1. IsFiniteSet(1..MaxSends) /\ Cardinality(1..MaxSends) = MaxSends
  BY FS_Interval
<1>2. ASSUME NEW T, T \subseteq 1..MaxSends PROVE IsFiniteSet(T) /\ Cardinality(T) \in 0..MaxSends
  <2>1. IsFiniteSet(T) /\ Cardinality(T) <= MaxSends
    BY <1>1, <1>2, FS_Subset
  <2> QED
    BY <2>1, FS_CardinalityType
<1> QED
  BY <1>2 DEF SentOnce, SentTwice

LEMMA SendsAreCounted ==
  ASSUME NEW c
  PROVE  /\ Cardinality(SentOnce(c)) \in Nat /\ Cardinality(SentTwice(c)) \in Nat
         /\ Cardinality(SentOnce(c)') \in Nat /\ Cardinality(SentTwice(c)') \in Nat
BY SendsFinite

LEMMA SavedCounts ==
  ASSUME ClientTypeOK, SavedIsCounted
  PROVE  saved \in [Conversations -> SUBSET Nat]
         /\ \A c \in Conversations : \A n \in saved[c] : n \in Counts
  BY DEF ClientTypeOK, Counts

LEMMA CountOf ==
  ASSUME NEW c, NEW n \in saved[c], \A m \in saved[c] : m = n
  PROVE  Count(c) = n
  BY DEF Count

(* Conversations come and go while the sends stay.                           *)
LEMMA SavedStays ==
  ASSUME ClientTypeOK, SavedIsCounted, UNCHANGED sends,
         \A c \in Conversations : saved'[c] \in {saved[c], {}, {0}}
  PROVE  SavedIsCounted'
<1> SUFFICES ASSUME NEW c \in Conversations
             PROVE  /\ \A m, n \in saved'[c] : m = n
                    /\ \A n \in saved'[c] : n <= Cardinality(SentOnce(c)') + Cardinality(SentTwice(c)')
  BY DEF SavedIsCounted
<1>1. SentOnce(c)' = SentOnce(c) /\ SentTwice(c)' = SentTwice(c)
  BY DEF SentOnce, SentTwice
<1>2. CASE saved'[c] = saved[c]
  BY <1>1, <1>2 DEF SavedIsCounted
<1>3. CASE saved'[c] \in {{}, {0}}
  BY <1>3, SendsAreCounted
<1> QED
  BY <1>2, <1>3

(* A send goes on without a message.                                         *)
LEMMA SavedAfterSend ==
  ASSUME ClientTypeOK, SavedIsCounted, NEW s \in Sends,
         sends' \in [Sends -> [conv : Places, state : SendStates]],
         \A r \in Sends \ {s} : sends'[r] = sends[r],
         sends[s].state \in {"free", "creating", "streaming", "untaken"} \/ sends'[s].conv = sends[s].conv,
         sends[s].state \in {"saved", "cut", "answered", "over"} => sends'[s].state \in {"saved", "cut", "answered", "over"},
         sends[s].state \in {"answered", "over"} => sends'[s].state \in {"answered", "over"},
         \A c \in Conversations : saved'[c] \in {saved[c], {}, {0}}
  PROVE  SavedIsCounted'
<1> SUFFICES ASSUME NEW c \in Conversations
             PROVE  /\ \A m, n \in saved'[c] : m = n
                    /\ \A n \in saved'[c] : n <= Cardinality(SentOnce(c)') + Cardinality(SentTwice(c)')
  BY DEF SavedIsCounted
<1>1. SentOnce(c) \subseteq SentOnce(c)' /\ SentTwice(c) \subseteq SentTwice(c)'
  BY DEF SentOnce, SentTwice
<1>2. Cardinality(SentOnce(c)) <= Cardinality(SentOnce(c)') /\ Cardinality(SentTwice(c)) <= Cardinality(SentTwice(c)')
  BY <1>1, SendsFinite, FS_Subset
<1>3. CASE saved'[c] = saved[c]
  BY <1>2, <1>3, SendsFinite, SavedCounts DEF SavedIsCounted
<1>4. CASE saved'[c] \in {{}, {0}}
  BY <1>4, SendsFinite
<1> QED
  BY <1>3, <1>4

(* A message is saved: one more of a conversation whose send goes on.        *)
LEMMA SavedAfterMessage ==
  ASSUME ClientTypeOK, SavedIsCounted, NEW s \in Sends, NEW from, NEW to, Save(s, from, to),
         <<from, to>> \in {<<"streaming", "saved">>, <<"saved", "answered">>, <<"untaken", "cut">>, <<"cut", "over">>}
  PROVE  SavedIsCounted' /\ saved' \in [Conversations -> SUBSET Counts]
<1>0. PICK c : c = sends[s].conv
  OBVIOUS
<1>1. /\ sends[s].state = from /\ sends' = [sends EXCEPT ![s].state = to]
      /\ saved' = [saved EXCEPT ![c] = {n + 1 : n \in @}]
  BY <1>0 DEF Save
<1>2. /\ sends'[s].conv = c /\ sends'[s].state = to
      /\ \A r \in Sends \ {s} : sends'[r] = sends[r]
  BY <1>0, <1>1 DEF ClientTypeOK
<1>3. ASSUME NEW d \in Conversations
      PROVE  SentOnce(d) \subseteq SentOnce(d)' /\ SentTwice(d) \subseteq SentTwice(d)'
  BY <1>0, <1>1, <1>2 DEF SentOnce, SentTwice
<1>4. ASSUME NEW d \in Conversations
      PROVE  Cardinality(SentOnce(d)) <= Cardinality(SentOnce(d)') /\ Cardinality(SentTwice(d)) <= Cardinality(SentTwice(d)')
  BY <1>3, SendsFinite, FS_Subset
<1>5. Cardinality(SentOnce(c)) + Cardinality(SentTwice(c)) < Cardinality(SentOnce(c)') + Cardinality(SentTwice(c)')
  <2>1. CASE from \in {"streaming", "untaken"}
    <3>1. SentOnce(c)' = SentOnce(c) \cup {s} /\ s \notin SentOnce(c) /\ SentTwice(c)' = SentTwice(c)
      BY <1>0, <1>1, <1>2, <2>1 DEF SentOnce, SentTwice
    <3>2. Cardinality(SentOnce(c)') = Cardinality(SentOnce(c)) + 1
      BY <3>1, SendsFinite, FS_AddElement
    <3> QED
      BY <3>1, <3>2, SendsAreCounted
  <2>2. CASE from \notin {"streaming", "untaken"}
    <3>1. SentTwice(c)' = SentTwice(c) \cup {s} /\ s \notin SentTwice(c) /\ SentOnce(c)' = SentOnce(c)
      BY <1>0, <1>1, <1>2, <2>2 DEF SentOnce, SentTwice
    <3>2. Cardinality(SentTwice(c)') = Cardinality(SentTwice(c)) + 1
      BY <3>1, SendsFinite, FS_AddElement
    <3> QED
      BY <3>1, <3>2, SendsAreCounted
  <2> QED
    BY <2>1, <2>2
<1>6. ASSUME NEW d \in Conversations
      PROVE  /\ \A m, n \in saved'[d] : m = n
             /\ \A n \in saved'[d] : n \in Nat /\ n <= Cardinality(SentOnce(d)') + Cardinality(SentTwice(d)')
  <2>1. CASE d = c
    <3>1. saved'[d] = {n + 1 : n \in saved[c]}
      BY <1>1, <2>1 DEF ClientTypeOK
    <3>2. \A n \in saved[c] : n \in Nat /\ n <= Cardinality(SentOnce(c)) + Cardinality(SentTwice(c))
      BY <2>1, SavedCounts DEF SavedIsCounted
    <3>3. ASSUME NEW n \in saved'[d]
          PROVE  n \in Nat /\ n <= Cardinality(SentOnce(d)') + Cardinality(SentTwice(d)')
      <4>1. PICK m \in saved[c] : n = m + 1
        BY <3>1
      <4>2. m \in Nat /\ m <= Cardinality(SentOnce(c)) + Cardinality(SentTwice(c))
        BY <3>2, <4>1
      <4>3. n <= Cardinality(SentOnce(c)') + Cardinality(SentTwice(c)')
        BY <1>5, <4>1, <4>2, SendsAreCounted
      <4> QED
        BY <2>1, <4>1, <4>2, <4>3
    <3> QED
      BY <2>1, <3>1, <3>3 DEF SavedIsCounted
  <2>2. CASE d # c
    <3>1. saved'[d] = saved[d]
      BY <1>1, <2>2 DEF ClientTypeOK
    <3> QED
      BY <1>4, <3>1, SendsFinite, SavedCounts DEF SavedIsCounted
  <2> QED
    BY <2>1, <2>2
<1>7. ASSUME NEW d \in Conversations, NEW n \in saved'[d] PROVE n \in Counts
  BY <1>6, SendsFinite DEF Counts
<1>8. saved' \in [Conversations -> SUBSET Counts]
  <2>1. saved' = [d \in Conversations |-> saved'[d]]
    BY <1>1 DEF ClientTypeOK
  <2> QED
    BY <1>7, <2>1
<1> QED
  BY <1>6, <1>8 DEF SavedIsCounted

(* The next load and the next send are free ones, and the next load is the   *)
(* first of them.                                                            *)
LEMMA NextLoadIsFirst ==
  ASSUME ClientTypeOK, FreeLoads # {}
  PROVE  NextLoad \in Loads /\ loads[NextLoad].state = "free"
         /\ \A k \in Loads : loads[k].state = "free" => NextLoad <= k
<1> FreeLoads \subseteq Nat
  BY DEF FreeLoads
<1>1. PICK l \in FreeLoads : \A k \in FreeLoads : l <= k
  BY SmallestOf
<1>2. NextLoad \in FreeLoads /\ \A k \in FreeLoads : NextLoad <= k
  BY <1>1 DEF NextLoad
<1> QED
  BY <1>2 DEF FreeLoads

LEMMA NextSendIsFree ==
  ASSUME ClientTypeOK, FreeSends # {}
  PROVE  NextSend \in Sends /\ sends[NextSend].state = "free"
<1> FreeSends \subseteq Nat
  BY DEF FreeSends
<1>1. PICK l \in FreeSends : \A k \in FreeSends : l <= k
  BY SmallestOf
<1>2. NextSend \in FreeSends
  BY <1>1 DEF NextSend
<1> QED
  BY <1>2 DEF FreeSends

(* A new load is the last one, and the others stay.                          *)
LEMMA IssuedIsLast ==
  ASSUME ClientTypeOK, RequestsArePlaced, FreeLoads # {}, NEW c \in Conversations, loads' = Issued(NextLoad, c)
  PROVE  /\ loads' \in [Loads -> [conv : Places, state : LoadStates, count : Counts]]
         /\ NextLoad \in Loads /\ loads[NextLoad].state = "free"
         /\ loads'[NextLoad] = [conv |-> c, state |-> "asked", count |-> 0]
         /\ \A k \in Loads \ {NextLoad} : loads'[k] = loads[k]
         /\ \A k \in Loads : k > NextLoad => loads'[k].state = "free"
         /\ \A k, l \in Loads : k < l /\ loads'[k].state = "free" => loads'[l].state = "free"
         /\ \A l \in Loads : loads'[l].state # "free" => loads'[l].conv \in Conversations
<1>1. NextLoad \in Loads /\ loads[NextLoad].state = "free" /\ \A k \in Loads : loads[k].state = "free" => NextLoad <= k
  BY NextLoadIsFirst
<1> DEFINE r == [conv |-> c, state |-> "asked", count |-> 0]
<1>2. r \in [conv : Places, state : LoadStates, count : Counts]
  BY DEF LoadStates, Counts
<1>3. loads' = [loads EXCEPT ![NextLoad] = r]
  BY DEF Issued
<1>4. loads'[NextLoad] = r /\ \A k \in Loads \ {NextLoad} : loads'[k] = loads[k]
  BY <1>1, <1>3 DEF ClientTypeOK
<1>5. loads' \in [Loads -> [conv : Places, state : LoadStates, count : Counts]]
  BY <1>1, <1>2, <1>3 DEF ClientTypeOK
<1>6. \A k \in Loads : k > NextLoad => loads'[k].state = "free"
  BY <1>1, <1>4 DEF RequestsArePlaced
<1>7. \A k, l \in Loads : k < l /\ loads'[k].state = "free" => loads'[l].state = "free"
  <2> SUFFICES ASSUME NEW k \in Loads, NEW l \in Loads, k < l, loads'[k].state = "free" PROVE loads'[l].state = "free"
    OBVIOUS
  <2>1. k # NextLoad
    BY <1>4
  <2>2. loads[k].state = "free" /\ NextLoad <= k
    BY <1>1, <1>4, <2>1
  <2>3. l > NextLoad
    BY <1>1, <2>2
  <2> QED
    BY <1>6, <2>3
<1> QED
  BY <1>1, <1>4, <1>5, <1>6, <1>7 DEF RequestsArePlaced

(* A load is issued: the requests know their conversation still, and the     *)
(* view is of the same answer.                                               *)
LEMMA LoadIsIssued ==
  ASSUME ClientTypeOK, RequestsArePlaced, ViewIsNewest, FreeLoads # {},
         NEW c \in Conversations, loads' = Issued(NextLoad, c),
         newest' = newest, view' = view \/ view'.local,
         \A s \in Sends : sends'[s].state \in {"streaming", "saved", "answered", "untaken", "cut"} => sends'[s].conv \in Conversations
  PROVE  RequestsArePlaced' /\ ViewIsNewest'
<1>1. RequestsArePlaced'
  BY IssuedIsLast DEF RequestsArePlaced
<1>2. ASSUME newest # 0
      PROVE  loads'[newest] = loads[newest] /\ loads[newest].state = "shown"
  BY <1>2, IssuedIsLast DEF ClientTypeOK, ViewIsNewest
<1>3. ViewIsNewest'
  BY <1>2 DEF ViewIsNewest
<1> QED
  BY <1>1, <1>3

LEMMA NewLoadIsOfActive ==
  ASSUME ClientTypeOK, RequestsArePlaced, FreeLoads # {},
         active' \in Conversations, loads' = Issued(NextLoad, active')
  PROVE  LastIsOfActive'
<1>1. /\ NextLoad \in Loads /\ loads'[NextLoad] = [conv |-> active', state |-> "asked", count |-> 0]
      /\ \A k \in Loads : k > NextLoad => loads'[k].state = "free"
  BY IssuedIsLast
<1> QED
  BY <1>1 DEF LastIsOfActive

(* The user comes to a conversation: undisturbed only when all was quiet.    *)
LEMMA ActivateKeeps ==
  ASSUME ClientInv, NEW c \in Conversations, c # active, Activate(c),
         UNCHANGED <<view, streaming, latest, sends, newest>>, opening' \in 0..1,
         saved' \in [Conversations -> SUBSET Counts], saved'[c] # {},
         \A d \in Conversations : saved'[d] \in {saved[d], {}, {0}}
  PROVE  ClientInv'
<1>1. /\ active' = c /\ moved' = ~Quiet /\ crossed' = (crossed /\ ~Quiet)
      /\ FreeLoads # {} /\ loads' = Issued(NextLoad, c)
  BY DEF Activate
<1>2. loads' \in [Loads -> [conv : Places, state : LoadStates, count : Counts]]
  BY <1>1, IssuedIsLast DEF ClientInv
<1>3. moved' \in BOOLEAN /\ crossed' \in BOOLEAN
  BY <1>1, Zenon
<1>4. ClientTypeOK'
  BY <1>1, <1>2, <1>3 DEF ClientInv, ClientTypeOK
<1>5. SavedIsCounted'
  BY SavedStays DEF ClientInv
<1>6. RequestsArePlaced' /\ ViewIsNewest'
  BY <1>1, LoadIsIssued DEF ClientInv, RequestsArePlaced
<1>7. Open' = Open
  BY DEF Open
<1>8. Quiet => Open = {} /\ \A s \in Sends : sends[s].state \notin {"untaken", "cut", "creating"}
  BY DEF Quiet, Open
<1>9. ComposerInv'
  BY <1>1, <1>7, <1>8 DEF ClientInv, ComposerInv
<1>10. Undisturbed'
  <2> SUFFICES ASSUME Quiet PROVE Undisturbed'
    BY <1>1 DEF Undisturbed
  <2>1. \A s \in Sends : sends'[s].state # "creating"
    BY <1>8
  <2>2. \A s \in Open' : sends'[s].conv = active'
    BY <1>7, <1>8
  <2>3. \A l \in Loads : UnderWay(l)' => loads'[l].conv = active'
    <3>1. \A l \in Loads \ {NextLoad} : ~UnderWay(l)'
      BY <1>1, IssuedIsLast DEF ClientInv, UnderWay, Quiet
    <3>2. loads'[NextLoad] = [conv |-> c, state |-> "asked", count |-> 0]
      BY <1>1, IssuedIsLast DEF ClientInv
    <3>3. loads'[NextLoad].conv = active'
      BY <1>1, <3>2
    <3> QED
      BY <3>1, <3>3
  <2>4. LastIsOfActive'
    BY <1>1, NewLoadIsOfActive DEF ClientInv
  <2> QED
    BY <1>1, <2>1, <2>2, <2>3, <2>4 DEF Undisturbed, Exists
<1> QED
  BY <1>4, <1>5, <1>6, <1>9, <1>10 DEF ClientInv

LEMMA SelectKeeps ==
  ASSUME ClientInv, NEW c \in Conversations, Select(c)
  PROVE  ClientInv'
BY ActivateKeeps DEF Select, ClientInv, ClientTypeOK, Exists

LEMMA ShowNewKeeps ==
  ASSUME ClientInv, ShowNew
  PROVE  ClientInv'
<1>1. PICK c \in Fresh : saved' = [saved EXCEPT ![c] = {0}] /\ Activate(c)
  BY DEF ShowNew
<1>2. c \in Conversations /\ saved[c] = {}
  BY <1>1 DEF Fresh, Exists
<1>3. 0 \in Counts
  BY DEF Counts
<1>4. /\ saved' \in [Conversations -> SUBSET Counts] /\ saved'[c] = {0}
      /\ \A d \in Conversations : saved'[d] \in {saved[d], {}, {0}}
      /\ \A d \in Conversations \ {c} : saved'[d] = saved[d]
  BY <1>1, <1>2, <1>3 DEF ClientInv, ClientTypeOK
<1>5. UNCHANGED <<view, streaming, latest, sends, newest>> /\ opening' \in 0..1
  BY DEF ShowNew
<1>6. CASE c # active
  BY <1>1, <1>2, <1>4, <1>5, <1>6, ActivateKeeps
<1>7. CASE c = active
  <2>1. UNCHANGED <<active, moved, crossed, loads>>
    BY <1>1, <1>7 DEF Activate
  <2>2. moved \/ crossed
    BY <1>2, <1>7 DEF ClientInv, Undisturbed, Exists
  <2>3. ClientTypeOK'
    BY <1>4, <1>5, <2>1 DEF ClientInv, ClientTypeOK
  <2>4. SavedIsCounted'
    BY <1>4, <1>5, SavedStays DEF ClientInv
  <2>5. RequestsArePlaced' /\ ViewIsNewest' /\ ComposerInv'
    BY <1>5, <2>1 DEF ClientInv, RequestsArePlaced, ViewIsNewest, ComposerInv, Open
  <2>6. Undisturbed'
    BY <2>1, <2>2 DEF Undisturbed
  <2> QED
    BY <2>3, <2>4, <2>5, <2>6 DEF ClientInv
<1> QED
  BY <1>6, <1>7

LEMMA DeleteKeeps ==
  ASSUME ClientInv, NEW c \in Conversations, Delete(c)
  PROVE  ClientInv'
<1>1. /\ saved' = [saved EXCEPT ![c] = {}]
      /\ UNCHANGED <<view, streaming, latest, sends, opening, newest>>
  BY DEF Delete
<1>2. /\ saved' \in [Conversations -> SUBSET Counts]
      /\ \A d \in Conversations : saved'[d] \in {saved[d], {}, {0}}
      /\ \A d \in Conversations \ {c} : saved'[d] = saved[d]
  BY <1>1 DEF ClientInv, ClientTypeOK
<1>3. SavedIsCounted'
  BY <1>1, <1>2, SavedStays DEF ClientInv
<1>4. CASE active = c
  <2>1. /\ active' = NoConversation /\ UNCHANGED loads
        /\ moved' = ~Quiet /\ crossed' = (crossed /\ ~Quiet)
    BY <1>4 DEF Delete, Activate
  <2>2. moved' \in BOOLEAN /\ crossed' \in BOOLEAN
    BY <2>1, Zenon
  <2>3. ClientTypeOK'
    BY <1>1, <1>2, <2>1, <2>2 DEF ClientInv, ClientTypeOK
  <2>4. RequestsArePlaced' /\ ViewIsNewest'
    BY <1>1, <2>1 DEF ClientInv, RequestsArePlaced, ViewIsNewest
  <2>5. Quiet => Open = {} /\ \A s \in Sends : sends[s].state \notin {"untaken", "cut", "creating"}
    BY DEF Quiet, Open
  <2>6. Open' = Open
    BY <1>1 DEF Open
  <2>7. ComposerInv'
    BY <1>1, <2>1, <2>5, <2>6 DEF ClientInv, ComposerInv
  <2>8. Undisturbed'
    BY <1>1, <2>1, <2>5, <2>6 DEF Undisturbed, UnderWay, Quiet
  <2> QED
    BY <1>3, <2>3, <2>4, <2>7, <2>8 DEF ClientInv
<1>5. CASE active # c
  <2>1. UNCHANGED <<active, loads, moved, crossed>>
    BY <1>5 DEF Delete, Activate
  <2>2. ClientTypeOK'
    BY <1>1, <1>2, <2>1 DEF ClientInv, ClientTypeOK
  <2>3. RequestsArePlaced' /\ ViewIsNewest' /\ ComposerInv'
    BY <1>1, <2>1 DEF ClientInv, RequestsArePlaced, ViewIsNewest, ComposerInv, Open
  <2>4. active # NoConversation => saved'[active] = saved[active]
    BY <1>2, <1>5 DEF ClientInv, ClientTypeOK
  <2>5. Undisturbed'
    BY <1>1, <2>1, <2>4 DEF ClientInv, Undisturbed, UnderWay, Open, Exists, LastIsOfActive, Count
  <2> QED
    BY <1>3, <2>2, <2>3, <2>5 DEF ClientInv
<1> QED
  BY <1>4, <1>5

(* A stream begins in the active conversation.                               *)
LEMMA StreamKeeps ==
  ASSUME ClientInv, active # NoConversation, FreeSends # {}, Stream(NextSend, active),
         UNCHANGED <<active, loads, saved, opening, newest, moved>>
  PROVE  ClientInv'
<1>1. NextSend \in Sends /\ sends[NextSend].state = "free"
  BY NextSendIsFree DEF ClientInv
<1>2. active \in Conversations
  BY DEF ClientInv, ClientTypeOK
<1>3. /\ sends' = [sends EXCEPT ![NextSend] = [conv |-> active, state |-> "streaming"]]
      /\ streaming' = TRUE /\ latest' = NextSend /\ view' = [view EXCEPT !.local = TRUE]
      /\ crossed' = (crossed \/ Open # {})
  BY DEF Stream
<1>4. /\ sends' \in [Sends -> [conv : Places, state : SendStates]]
      /\ sends'[NextSend] = [conv |-> active, state |-> "streaming"]
      /\ \A r \in Sends \ {NextSend} : sends'[r] = sends[r]
  BY <1>1, <1>2, <1>3 DEF ClientInv, ClientTypeOK, SendStates
<1>5. view' \in [of : Places, count : Counts, local : BOOLEAN] /\ view'.local
  BY <1>3 DEF ClientInv, ClientTypeOK
<1>6. streaming' \in BOOLEAN /\ crossed' \in BOOLEAN
  BY <1>3, Zenon
<1>7. ClientTypeOK'
  BY <1>1, <1>3, <1>4, <1>5, <1>6 DEF ClientInv, ClientTypeOK
<1>8. SavedIsCounted'
  BY <1>1, <1>4, SavedAfterSend DEF ClientInv
<1>9. RequestsArePlaced' /\ ViewIsNewest'
  BY <1>2, <1>4, <1>5 DEF ClientInv, RequestsArePlaced, ViewIsNewest
<1>10. Open' = Open \cup {NextSend}
  BY <1>1, <1>4 DEF Open
<1>11. ComposerInv'
  BY <1>3, <1>4, <1>10 DEF ClientInv, ComposerInv
<1>12. Undisturbed'
  <2> SUFFICES ASSUME ~moved', ~crossed' PROVE Undisturbed'
    BY DEF Undisturbed
  <2>1. ~moved /\ ~crossed /\ Open = {}
    BY <1>3
  <2>2. \A s \in Sends : sends'[s].state # "creating"
    BY <1>4, <2>1 DEF ClientInv, Undisturbed
  <2>3. \A s \in Open' : sends'[s].conv = active'
    BY <1>4, <1>10, <2>1
  <2>4. \A l \in Loads : UnderWay(l)' => loads'[l].conv = active'
    BY <2>1 DEF ClientInv, Undisturbed, UnderWay
  <2>5. Exists(active)' /\ Open' # {}
    BY <1>10, <2>1 DEF ClientInv, Undisturbed, Exists
  <2> QED
    BY <2>2, <2>3, <2>4, <2>5 DEF Undisturbed
<1> QED
  BY <1>7, <1>8, <1>9, <1>11, <1>12 DEF ClientInv

LEMMA SendKeeps ==
  ASSUME ClientInv, Send
  PROVE  ClientInv'
<1>1. CASE active # NoConversation
  BY <1>1, StreamKeeps DEF Send
<1>2. CASE active = NoConversation
  <2>1. NextSend \in Sends /\ sends[NextSend].state = "free"
    BY NextSendIsFree DEF Send, ClientInv
  <2>2. /\ sends' = [sends EXCEPT ![NextSend].state = "creating"]
        /\ UNCHANGED <<active, streaming, latest, view, crossed, loads, saved, opening, newest, moved>>
    BY <1>2 DEF Send
  <2>3. /\ sends' \in [Sends -> [conv : Places, state : SendStates]]
        /\ sends'[NextSend].state = "creating"
        /\ \A r \in Sends \ {NextSend} : sends'[r] = sends[r]
    BY <2>1, <2>2 DEF ClientInv, ClientTypeOK, SendStates
  <2>4. ClientTypeOK'
    BY <2>2, <2>3 DEF ClientInv, ClientTypeOK
  <2>5. SavedIsCounted'
    BY <2>1, <2>2, <2>3, SavedAfterSend DEF ClientInv
  <2>6. RequestsArePlaced' /\ ViewIsNewest'
    BY <2>2, <2>3 DEF ClientInv, RequestsArePlaced, ViewIsNewest
  <2>7. Open' = Open /\ \A s \in Open : sends'[s] = sends[s]
    BY <2>1, <2>3 DEF Open
  <2>8. ComposerInv'
    BY <2>2, <2>3, <2>7 DEF ClientInv, ComposerInv
  <2>9. Undisturbed'
    BY <1>2, <2>2, <2>3, <2>7 DEF ClientInv, Undisturbed, UnderWay
  <2> QED
    BY <2>4, <2>5, <2>6, <2>8, <2>9 DEF ClientInv
<1> QED
  BY <1>1, <1>2

LEMMA ResendKeeps ==
  ASSUME ClientInv, Resend
  PROVE  ClientInv'
BY StreamKeeps DEF Resend

(* The conversation of a first message is created.                           *)
LEMMA CreatedKeeps ==
  ASSUME ClientInv, NEW s \in Sends, NEW c \in Fresh,
         sends[s].state = "creating", saved' = [saved EXCEPT ![c] = {0}],
         active' = c, FreeLoads # {}, loads' = Issued(NextLoad, c), Stream(s, c),
         moved' = (moved \/ active # NoConversation \/ \E r \in Sends \ {s} : sends[r].state = "creating"),
         UNCHANGED <<opening, newest>>
  PROVE  ClientInv'
<1>1. /\ saved' = [saved EXCEPT ![c] = {0}]
      /\ active' = c /\ FreeLoads # {} /\ loads' = Issued(NextLoad, c)
      /\ Stream(s, c)
  OBVIOUS
<1>2. c \in Conversations /\ saved[c] = {}
  BY <1>1 DEF Fresh, Exists
<1>3. 0 \in Counts
  BY DEF Counts
<1>4. /\ saved' \in [Conversations -> SUBSET Counts] /\ saved'[c] = {0}
      /\ \A d \in Conversations : saved'[d] \in {saved[d], {}, {0}}
  BY <1>1, <1>2, <1>3 DEF ClientInv, ClientTypeOK
<1>5. /\ sends' = [sends EXCEPT ![s] = [conv |-> c, state |-> "streaming"]]
      /\ streaming' = TRUE /\ latest' = s /\ view' = [view EXCEPT !.local = TRUE]
      /\ crossed' = (crossed \/ Open # {})
  BY <1>1 DEF Stream
<1>6. /\ sends[s].state = "creating"
      /\ moved' = (moved \/ active # NoConversation \/ \E r \in Sends \ {s} : sends[r].state = "creating")
      /\ UNCHANGED <<opening, newest>>
  OBVIOUS
<1>7. /\ sends' \in [Sends -> [conv : Places, state : SendStates]]
      /\ sends'[s] = [conv |-> c, state |-> "streaming"]
      /\ \A r \in Sends \ {s} : sends'[r] = sends[r]
  BY <1>2, <1>5 DEF ClientInv, ClientTypeOK, SendStates
<1>8. view' \in [of : Places, count : Counts, local : BOOLEAN] /\ view'.local
  BY <1>5 DEF ClientInv, ClientTypeOK
<1>9. streaming' \in BOOLEAN /\ crossed' \in BOOLEAN /\ moved' \in BOOLEAN
  BY <1>5, <1>6, Zenon
<1>10. loads' \in [Loads -> [conv : Places, state : LoadStates, count : Counts]]
  BY <1>1, <1>2, IssuedIsLast DEF ClientInv
<1>11. ClientTypeOK'
  BY <1>1, <1>2, <1>4, <1>5, <1>6, <1>7, <1>8, <1>9, <1>10 DEF ClientInv, ClientTypeOK
<1>12. SavedIsCounted'
  BY <1>4, <1>6, <1>7, SavedAfterSend DEF ClientInv
<1>13. RequestsArePlaced' /\ ViewIsNewest'
  <2>1. \A r \in Sends : sends'[r].state \in {"streaming", "saved", "answered", "untaken", "cut"} => sends'[r].conv \in Conversations
    BY <1>2, <1>7 DEF ClientInv, RequestsArePlaced
  <2> QED
    BY <1>1, <1>2, <1>6, <1>8, <2>1, LoadIsIssued DEF ClientInv
<1>14. Open' = Open \cup {s}
  BY <1>7 DEF Open
<1>15. ComposerInv'
  BY <1>5, <1>7, <1>14 DEF ClientInv, ComposerInv
<1>16. Undisturbed'
  <2> SUFFICES ASSUME ~moved', ~crossed' PROVE Undisturbed'
    BY DEF Undisturbed
  <2>1. ~moved /\ ~crossed /\ active = NoConversation /\ Open = {} /\ \A r \in Sends \ {s} : sends[r].state # "creating"
    BY <1>5, <1>6
  <2>2. \A r \in Sends : sends'[r].state # "creating"
    BY <1>7, <2>1
  <2>3. \A r \in Open' : sends'[r].conv = active'
    BY <1>1, <1>7, <1>14, <2>1
  <2>4. \A l \in Loads : ~UnderWay(l)
    BY <2>1 DEF ClientInv, Undisturbed, RequestsArePlaced, UnderWay
  <2>5. \A l \in Loads \ {NextLoad} : ~UnderWay(l)'
    BY <1>1, <1>2, <2>4, IssuedIsLast DEF ClientInv, UnderWay
  <2>6. loads'[NextLoad].conv = active'
    <3>1. loads'[NextLoad] = [conv |-> c, state |-> "asked", count |-> 0]
      BY <1>1, <1>2, IssuedIsLast DEF ClientInv
    <3> QED
      BY <1>1, <3>1
  <2>7. saved'[active'] # {} /\ Open' # {}
    BY <1>1, <1>4, <1>14
  <2> QED
    BY <2>2, <2>3, <2>5, <2>6, <2>7 DEF Undisturbed, Exists
<1> QED
  BY <1>11, <1>12, <1>13, <1>15, <1>16 DEF ClientInv

(* It is created, and its message is not sent: it has no text.               *)
LEMMA EmptyKeeps ==
  ASSUME ClientInv, NEW s \in Sends, NEW c \in Fresh,
         sends[s].state = "creating", saved' = [saved EXCEPT ![c] = {0}],
         active' = c, FreeLoads # {}, loads' = Issued(NextLoad, c), SendsNothing(s, c),
         moved' = (moved \/ active # NoConversation \/ \E r \in Sends \ {s} : sends[r].state = "creating"),
         UNCHANGED <<opening, newest>>
  PROVE  ClientInv'
<1>1. /\ sends' = [sends EXCEPT ![s] = [conv |-> c, state |-> "over"]]
      /\ UNCHANGED <<streaming, latest, view, crossed>>
  BY DEF SendsNothing
<1>2. c \in Conversations /\ saved[c] = {}
  BY DEF Fresh, Exists
<1>3. 0 \in Counts
  BY DEF Counts
<1>4. /\ saved' \in [Conversations -> SUBSET Counts] /\ saved'[c] = {0}
      /\ \A d \in Conversations : saved'[d] \in {saved[d], {}, {0}}
  BY <1>2, <1>3 DEF ClientInv, ClientTypeOK
<1>5. /\ sends' \in [Sends -> [conv : Places, state : SendStates]]
      /\ sends'[s] = [conv |-> c, state |-> "over"]
      /\ \A r \in Sends \ {s} : sends'[r] = sends[r]
  BY <1>1, <1>2 DEF ClientInv, ClientTypeOK, SendStates
<1>6. moved' \in BOOLEAN
  BY Zenon
<1>7. loads' \in [Loads -> [conv : Places, state : LoadStates, count : Counts]]
  BY <1>2, IssuedIsLast DEF ClientInv
<1>8. ClientTypeOK'
  BY <1>1, <1>2, <1>4, <1>5, <1>6, <1>7 DEF ClientInv, ClientTypeOK
<1>9. SavedIsCounted'
  BY <1>4, <1>5, SavedAfterSend DEF ClientInv
<1>10. RequestsArePlaced' /\ ViewIsNewest'
  <2>1. \A r \in Sends : sends'[r].state \in {"streaming", "saved", "answered", "untaken", "cut"} => sends'[r].conv \in Conversations
    BY <1>5 DEF ClientInv, RequestsArePlaced
  <2> QED
    BY <1>1, <1>2, <2>1, LoadIsIssued DEF ClientInv
<1>11. Open' = Open /\ \A r \in Open : sends'[r] = sends[r]
  BY <1>5 DEF Open
<1>12. ComposerInv'
  BY <1>1, <1>5, <1>11 DEF ClientInv, ComposerInv
<1>13. Undisturbed'
  <2> SUFFICES ASSUME ~moved', ~crossed' PROVE Undisturbed'
    BY DEF Undisturbed
  <2>1. ~moved /\ ~crossed /\ active = NoConversation /\ \A r \in Sends \ {s} : sends[r].state # "creating"
    BY <1>1
  <2>2. Open = {}
    BY <2>1 DEF ClientInv, Undisturbed, RequestsArePlaced, Open
  <2>3. \A r \in Sends : sends'[r].state # "creating"
    BY <1>5, <2>1
  <2>4. \A l \in Loads : ~UnderWay(l)
    BY <2>1 DEF ClientInv, Undisturbed, RequestsArePlaced, UnderWay
  <2>5. \A l \in Loads \ {NextLoad} : ~UnderWay(l)'
    BY <1>2, <2>4, IssuedIsLast DEF ClientInv, UnderWay
  <2>6. loads'[NextLoad].conv = active'
    <3>1. loads'[NextLoad] = [conv |-> c, state |-> "asked", count |-> 0]
      BY <1>2, IssuedIsLast DEF ClientInv
    <3> QED
      BY <3>1
  <2>7. saved'[active'] # {}
    BY <1>4
  <2>8. LastIsOfActive'
    BY <1>2, NewLoadIsOfActive DEF ClientInv
  <2> QED
    BY <1>11, <2>2, <2>3, <2>5, <2>6, <2>7, <2>8 DEF Undisturbed, Exists
<1> QED
  BY <1>8, <1>9, <1>10, <1>12, <1>13 DEF ClientInv

(* A message is saved of a stream, or of one that was cut.                   *)
LEMMA SaveKeeps ==
  ASSUME ClientInv, NEW s \in Sends, NEW from, NEW to, Save(s, from, to),
         <<from, to>> \in {<<"streaming", "saved">>, <<"saved", "answered">>, <<"untaken", "cut">>, <<"cut", "over">>}
  PROVE  ClientInv'
<1>1. /\ sends[s].state = from /\ sends' = [sends EXCEPT ![s].state = to]
      /\ saved' = [saved EXCEPT ![sends[s].conv] = {n + 1 : n \in @}]
      /\ UNCHANGED <<active, view, streaming, latest, loads, opening, newest, moved, crossed>>
  BY DEF Save
<1>2. /\ sends' \in [Sends -> [conv : Places, state : SendStates]]
      /\ sends'[s].conv = sends[s].conv /\ sends'[s].state = to
      /\ \A r \in Sends \ {s} : sends'[r] = sends[r]
  BY <1>1 DEF ClientInv, ClientTypeOK, SendStates
<1>3. SavedIsCounted' /\ saved' \in [Conversations -> SUBSET Counts]
  BY SavedAfterMessage DEF ClientInv
<1>4. ClientTypeOK'
  BY <1>1, <1>2, <1>3 DEF ClientInv, ClientTypeOK
<1>5. RequestsArePlaced' /\ ViewIsNewest'
  BY <1>1, <1>2 DEF ClientInv, RequestsArePlaced, ViewIsNewest
<1>6. CASE from \in {"untaken", "cut"}
  <2>1. crossed /\ Open' = Open
    BY <1>1, <1>2, <1>6 DEF ClientInv, ComposerInv, Open
  <2>2. ComposerInv' /\ Undisturbed'
    BY <1>1, <2>1 DEF ClientInv, ComposerInv, Undisturbed
  <2> QED
    BY <1>3, <1>4, <1>5, <2>2 DEF ClientInv
<1>7. CASE from \notin {"untaken", "cut"}
  <2>1. Open' = Open /\ s \in Open
    BY <1>1, <1>2, <1>7 DEF Open
  <2>2. ComposerInv'
    BY <1>1, <1>2, <1>7, <2>1 DEF ClientInv, ComposerInv
  <2>3. \A c \in Conversations : Exists(c) => saved'[c] # {}
    <3> SUFFICES ASSUME NEW c \in Conversations, NEW n \in saved[c] PROVE saved'[c] # {}
      BY DEF Exists
    <3>1. CASE c = sends[s].conv
      <4>1. saved'[c] = {m + 1 : m \in saved[c]}
        BY <1>1, <3>1 DEF ClientInv, ClientTypeOK
      <4>2. n + 1 \in saved'[c]
        BY <4>1
      <4> QED
        BY <4>2
    <3>2. CASE c # sends[s].conv
      BY <1>1, <3>2 DEF ClientInv, ClientTypeOK
    <3> QED
      BY <3>1, <3>2
  <2>4. active \in Conversations => (Exists(active) => Exists(active)')
    BY <1>1, <2>3 DEF Exists
  <2>5. Undisturbed'
    BY <1>1, <1>2, <1>7, <2>1, <2>4 DEF ClientInv, ClientTypeOK, Undisturbed, UnderWay
  <2> QED
    BY <1>3, <1>4, <1>5, <2>2, <2>5 DEF ClientInv
<1> QED
  BY <1>6, <1>7

(* A stream ends, or is stopped: the conversation it is of is loaded.        *)
LEMMA StreamLoads ==
  ASSUME ClientInv, NEW s \in Open, NEW how \in {"untaken", "cut", "over"},
         sends' = [sends EXCEPT ![s].state = how],
         how = "untaken" => sends[s].state = "streaming", how = "cut" => sends[s].state = "saved",
         Load(SentTo(s)), UNCHANGED <<active, saved, opening, newest>>
  PROVE  /\ sends' \in [Sends -> [conv : Places, state : SendStates]]
         /\ sends'[s].state = how /\ \A r \in Sends \ {s} : sends'[r] = sends[r]
         /\ sends[s].conv \in Conversations
         /\ FreeLoads # {} /\ loads' = Issued(NextLoad, sends[s].conv) /\ UNCHANGED view
         /\ loads' \in [Loads -> [conv : Places, state : LoadStates, count : Counts]]
         /\ SavedIsCounted' /\ RequestsArePlaced' /\ ViewIsNewest'
         /\ Open' = Open \ {s}
<1>1. s \in Sends /\ sends[s].state \in {"streaming", "saved", "answered"} /\ sends[s].conv \in Conversations
  BY DEF Open, ClientInv, RequestsArePlaced
<1>2. /\ sends' \in [Sends -> [conv : Places, state : SendStates]]
      /\ sends'[s].state = how /\ sends'[s].conv = sends[s].conv
      /\ \A r \in Sends \ {s} : sends'[r] = sends[r]
  BY <1>1 DEF ClientInv, ClientTypeOK, SendStates
<1>3. FreeLoads # {} /\ loads' = Issued(NextLoad, sends[s].conv) /\ UNCHANGED view
  BY <1>1 DEF Load, SentTo
<1>4. loads' \in [Loads -> [conv : Places, state : LoadStates, count : Counts]]
  BY <1>1, <1>3, IssuedIsLast DEF ClientInv
<1>5. SavedIsCounted'
  BY <1>1, <1>2, SavedAfterSend DEF ClientInv
<1>6. \A r \in Sends : sends'[r].state \in {"streaming", "saved", "answered", "untaken", "cut"} => sends'[r].conv \in Conversations
  BY <1>1, <1>2 DEF ClientInv, RequestsArePlaced
<1>7. RequestsArePlaced' /\ ViewIsNewest'
  BY <1>1, <1>3, <1>6, LoadIsIssued DEF ClientInv
<1>8. Open' = Open \ {s}
  BY <1>1, <1>2 DEF Open
<1> QED
  BY <1>1, <1>2, <1>3, <1>4, <1>5, <1>7, <1>8

LEMMA EndStreamKeeps ==
  ASSUME ClientInv, NEW s \in Sends, EndStream(s)
  PROVE  ClientInv'
<1>1. /\ s \in Open /\ sends' = [sends EXCEPT ![s].state = "over"] /\ streaming' = FALSE /\ Load(SentTo(s))
      /\ UNCHANGED <<active, latest, saved, opening, newest, moved, crossed>>
  BY DEF EndStream, Open
<1>2. /\ sends' \in [Sends -> [conv : Places, state : SendStates]]
      /\ sends'[s].state = "over" /\ \A r \in Sends \ {s} : sends'[r] = sends[r]
      /\ sends[s].conv \in Conversations
      /\ FreeLoads # {} /\ loads' = Issued(NextLoad, sends[s].conv) /\ UNCHANGED view
      /\ loads' \in [Loads -> [conv : Places, state : LoadStates, count : Counts]]
      /\ SavedIsCounted' /\ RequestsArePlaced' /\ ViewIsNewest'
      /\ Open' = Open \ {s}
  BY <1>1, StreamLoads
<1>3. ClientTypeOK'
  BY <1>1, <1>2 DEF ClientInv, ClientTypeOK
<1>4. ~crossed => Open' = {} /\ \A r \in Sends : sends'[r].state \notin {"untaken", "cut"}
  BY <1>1, <1>2 DEF ClientInv, ComposerInv
<1>5. ComposerInv'
  BY <1>1, <1>4 DEF ComposerInv
<1>6. Undisturbed'
  <2> SUFFICES ASSUME ~moved, ~crossed PROVE Undisturbed'
    BY <1>1 DEF Undisturbed
  <2>1. sends[s].conv = active /\ active \in Conversations /\ Open' = {}
    BY <1>1, <1>2, <1>4 DEF ClientInv, Undisturbed
  <2>2. \A r \in Sends : sends'[r].state # "creating"
    BY <1>2, <2>1 DEF ClientInv, Undisturbed
  <2>3. \A l \in Loads : UnderWay(l)' => loads'[l].conv = active'
    <3>1. \A l \in Loads \ {NextLoad} : loads'[l] = loads[l]
      BY <1>2, IssuedIsLast DEF ClientInv
    <3>2. loads'[NextLoad] = [conv |-> sends[s].conv, state |-> "asked", count |-> 0]
      BY <1>2, IssuedIsLast DEF ClientInv
    <3>3. \A l \in Loads \ {NextLoad} : UnderWay(l)' => loads'[l].conv = active'
      BY <1>1, <3>1 DEF ClientInv, Undisturbed, UnderWay
    <3> QED
      BY <1>1, <2>1, <3>2, <3>3
  <2>4. LastIsOfActive'
    BY <1>1, <1>2, <2>1, NewLoadIsOfActive DEF ClientInv
  <2>5. Exists(active)'
    BY <1>1, <2>1 DEF ClientInv, Undisturbed, Exists
  <2> QED
    BY <2>1, <2>2, <2>3, <2>4, <2>5 DEF Undisturbed
<1> QED
  BY <1>2, <1>3, <1>5, <1>6 DEF ClientInv

LEMMA CutOffKeeps ==
  ASSUME ClientInv, NEW s \in Sends, CutOff(s), latest' \in {latest, 0}
  PROVE  ClientInv'
<1>1. PICK how \in {"untaken", "cut", "over"} :
        /\ how = "untaken" => sends[s].state = "streaming"
        /\ how = "cut" => sends[s].state = "saved"
        /\ sends' = [sends EXCEPT ![s].state = how]
  <2>1. /\ Left(sends[s].state) \in {"untaken", "cut", "over"}
        /\ Left(sends[s].state) = "untaken" => sends[s].state = "streaming"
        /\ Left(sends[s].state) = "cut" => sends[s].state = "saved"
    BY DEF Left
  <2>2. sends' = [sends EXCEPT ![s].state = Left(sends[s].state)]
    BY DEF CutOff, ClientInv, ClientTypeOK
  <2> QED
    BY <2>1, <2>2
<1>2. /\ s \in Open /\ streaming' = FALSE /\ crossed' = TRUE /\ Load(SentTo(s))
      /\ UNCHANGED <<active, saved, opening, newest, moved>>
  BY DEF CutOff
<1>3. /\ sends' \in [Sends -> [conv : Places, state : SendStates]]
      /\ UNCHANGED view
      /\ loads' \in [Loads -> [conv : Places, state : LoadStates, count : Counts]]
      /\ SavedIsCounted' /\ RequestsArePlaced' /\ ViewIsNewest'
  BY <1>1, <1>2, StreamLoads
<1>4. ClientTypeOK'
  BY <1>2, <1>3 DEF ClientInv, ClientTypeOK
<1>5. ComposerInv' /\ Undisturbed'
  BY <1>2 DEF ComposerInv, Undisturbed
<1> QED
  BY <1>3, <1>4, <1>5 DEF ClientInv

LEMMA DroppedKeeps ==
  ASSUME ClientInv, NEW s \in Sends, Dropped(s)
  PROVE  ClientInv'
<1>1. /\ sends[s].state \in {"untaken", "cut"} /\ sends' = [sends EXCEPT ![s].state = "over"]
      /\ UNCHANGED <<active, view, streaming, latest, loads, saved, opening, newest, moved, crossed>>
  BY DEF Dropped
<1>2. /\ sends' \in [Sends -> [conv : Places, state : SendStates]]
      /\ sends'[s].conv = sends[s].conv /\ sends'[s].state = "over"
      /\ \A r \in Sends \ {s} : sends'[r] = sends[r]
  BY <1>1 DEF ClientInv, ClientTypeOK, SendStates
<1>3. ClientTypeOK'
  BY <1>1, <1>2 DEF ClientInv, ClientTypeOK
<1>4. SavedIsCounted'
  BY <1>1, <1>2, SavedAfterSend DEF ClientInv
<1>5. RequestsArePlaced' /\ ViewIsNewest'
  BY <1>1, <1>2 DEF ClientInv, RequestsArePlaced, ViewIsNewest
<1>6. crossed /\ Open' = Open
  BY <1>1, <1>2 DEF ClientInv, ComposerInv, Open
<1>7. ComposerInv' /\ Undisturbed'
  BY <1>1, <1>6 DEF ClientInv, ComposerInv, Undisturbed
<1> QED
  BY <1>3, <1>4, <1>5, <1>7 DEF ClientInv

-----------------------------------------------------------------------------
(* The loads come back.  What becomes of the last one is what matters.       *)
LEMMA LoadGoesOn ==
  ASSUME ClientInv, NEW l \in Loads,
         loads' \in [Loads -> [conv : Places, state : LoadStates, count : Counts]],
         \A k \in Loads \ {l} : loads'[k] = loads[k],
         loads'[l].conv = loads[l].conv, UnderWay(l), loads'[l].state \in {"read", "shown", "failed"},
         loads'[l].state \in {"read", "shown"} =>
           \/ loads[l].state = "read" /\ loads'[l].count = loads[l].count
           \/ loads[l].conv = active /\ Exists(active) => loads'[l].count = Count(active),
         view' \in [of : Places, count : Counts, local : BOOLEAN], newest' \in Loads \cup {0}, ViewIsNewest',
         UNCHANGED <<active, streaming, latest, sends, saved, opening, moved, crossed>>
  PROVE  ClientInv'
<1>1. ClientTypeOK'
  BY DEF ClientInv, ClientTypeOK
<1>2. SavedIsCounted'
  BY SavedStays DEF ClientInv
<1>3. RequestsArePlaced'
  BY DEF ClientInv, RequestsArePlaced, UnderWay
<1>4. ComposerInv' /\ Open' = Open
  BY DEF ClientInv, ComposerInv, Open
<1>5. Undisturbed'
  <2> SUFFICES ASSUME ~moved, ~crossed PROVE Undisturbed'
    BY DEF Undisturbed
  <2>1. \A k \in Loads : UnderWay(k)' => loads'[k].conv = active'
    BY DEF ClientInv, Undisturbed, UnderWay
  <2>2. ASSUME active # NoConversation, Open = {}
        PROVE  LastIsOfActive'
    <3>1. Exists(active)
      BY <2>2 DEF ClientInv, Undisturbed
    <3>2. PICK k \in Loads :
            /\ loads[k].state # "free" /\ \A j \in Loads : j > k => loads[j].state = "free"
            /\ loads[k].conv = active
            /\ loads[k].state \in {"read", "shown"} => loads[k].count = Count(active)
      BY <2>2 DEF ClientInv, Undisturbed, LastIsOfActive
    <3>3. \A j \in Loads : j > k => j # l
      BY <3>2 DEF UnderWay
    <3>4. loads'[k].state # "free" /\ \A j \in Loads : j > k => loads'[j].state = "free"
      BY <3>2, <3>3
    <3>5. loads'[k].conv = active' /\ Count(active)' = Count(active)
      BY <3>2 DEF Count
    <3>6. loads'[k].state \in {"read", "shown"} => loads'[k].count = Count(active)'
      BY <3>1, <3>2, <3>5
    <3> QED
      BY <3>4, <3>5, <3>6 DEF LastIsOfActive
  <2> QED
    BY <1>4, <2>1, <2>2 DEF ClientInv, Undisturbed, Exists
<1> QED
  BY <1>1, <1>2, <1>3, <1>4, <1>5 DEF ClientInv

LEMMA ReplyKeeps ==
  ASSUME ClientInv, NEW l \in Loads, Reply(l)
  PROVE  ClientInv'
<1> DEFINE n == IF Exists(loads[l].conv) THEN Count(loads[l].conv) ELSE 0
<1>1. /\ loads[l].state = "asked" /\ loads' = [loads EXCEPT ![l].state = "read", ![l].count = n]
      /\ UNCHANGED <<active, view, streaming, latest, sends, saved, opening, newest, moved, crossed>>
  BY DEF Reply
<1>2. loads[l].conv \in Conversations
  BY <1>1 DEF ClientInv, RequestsArePlaced
<1>3. n \in Counts
  <2>1. ASSUME Exists(loads[l].conv) PROVE Count(loads[l].conv) \in Counts
    <3>1. PICK m : m \in saved[loads[l].conv]
      BY <2>1 DEF Exists
    <3>2. Count(loads[l].conv) \in saved[loads[l].conv]
      BY <3>1 DEF Count
    <3> QED
      BY <1>2, <3>2 DEF ClientInv, ClientTypeOK
  <2>2. 0 \in Counts
    BY DEF Counts
  <2> QED
    BY <2>1, <2>2
<1>4. /\ loads' \in [Loads -> [conv : Places, state : LoadStates, count : Counts]]
      /\ loads'[l].conv = loads[l].conv /\ loads'[l].state = "read" /\ loads'[l].count = n
      /\ \A k \in Loads \ {l} : loads'[k] = loads[k]
  BY <1>1, <1>3 DEF ClientInv, ClientTypeOK, LoadStates
<1>5. loads[l].conv = active /\ Exists(active) => n = Count(active)
  OBVIOUS
<1>6. ViewIsNewest'
  BY <1>1, <1>4 DEF ClientInv, ClientTypeOK, ViewIsNewest
<1>7. view' \in [of : Places, count : Counts, local : BOOLEAN] /\ newest' \in Loads \cup {0}
  BY <1>1 DEF ClientInv, ClientTypeOK
<1> HIDE DEF n
<1> QED
  BY <1>1, <1>4, <1>5, <1>6, <1>7, LoadGoesOn DEF UnderWay

LEMMA ShowKeeps ==
  ASSUME ClientInv, NEW l \in Loads, Show(l)
  PROVE  ClientInv'
<1>1. /\ loads[l].state = "read" /\ loads' = [loads EXCEPT ![l].state = "shown"]
      /\ view' = [of |-> loads[l].conv, count |-> loads[l].count, local |-> FALSE] /\ newest' = l
      /\ UNCHANGED <<active, streaming, latest, sends, saved, opening, moved, crossed>>
  BY DEF Show
<1>2. /\ loads' \in [Loads -> [conv : Places, state : LoadStates, count : Counts]]
      /\ loads'[l].conv = loads[l].conv /\ loads'[l].state = "shown" /\ loads'[l].count = loads[l].count
      /\ \A k \in Loads \ {l} : loads'[k] = loads[k]
  BY <1>1 DEF ClientInv, ClientTypeOK, LoadStates
<1>3. ViewIsNewest'
  BY <1>1, <1>2 DEF ViewIsNewest
<1>4. view' \in [of : Places, count : Counts, local : BOOLEAN] /\ newest' \in Loads \cup {0}
  BY <1>1 DEF ClientInv, ClientTypeOK
<1> QED
  BY <1>1, <1>2, <1>3, <1>4, LoadGoesOn DEF UnderWay

LEMMA LoadFailsKeeps ==
  ASSUME ClientInv, NEW l \in Loads, LoadFails(l)
  PROVE  ClientInv'
<1>1. /\ UnderWay(l) /\ loads' = [loads EXCEPT ![l].state = "failed"]
      /\ UNCHANGED <<active, view, streaming, latest, sends, saved, opening, newest, moved, crossed>>
  BY DEF LoadFails, UnderWay
<1>2. /\ loads' \in [Loads -> [conv : Places, state : LoadStates, count : Counts]]
      /\ loads'[l].conv = loads[l].conv /\ loads'[l].state = "failed"
      /\ \A k \in Loads \ {l} : loads'[k] = loads[k]
  BY <1>1 DEF ClientInv, ClientTypeOK, LoadStates
<1>3. ViewIsNewest'
  BY <1>1, <1>2 DEF ClientInv, ClientTypeOK, ViewIsNewest, UnderWay
<1>4. view' \in [of : Places, count : Counts, local : BOOLEAN] /\ newest' \in Loads \cup {0}
  BY <1>1 DEF ClientInv, ClientTypeOK
<1> QED
  BY <1>1, <1>2, <1>3, <1>4, LoadGoesOn

LEMMA ClientStays ==
  ASSUME ClientInv, UNCHANGED <<active, streaming, latest, sends, loads, saved, newest, moved, crossed>>,
         view' = view \/ view' = [view EXCEPT !.local = TRUE], opening' \in 0..1
  PROVE  ClientInv'
<1>1. view' \in [of : Places, count : Counts, local : BOOLEAN] /\ (view' = view \/ view'.local)
  BY DEF ClientInv, ClientTypeOK
<1>2. ClientTypeOK'
  BY <1>1 DEF ClientInv, ClientTypeOK
<1>3. SavedIsCounted'
  BY SavedStays DEF ClientInv
<1>4. RequestsArePlaced' /\ ViewIsNewest' /\ ComposerInv'
  BY <1>1 DEF ClientInv, RequestsArePlaced, ViewIsNewest, ComposerInv, Open
<1>5. Undisturbed'
  BY DEF ClientInv, Undisturbed, LastIsOfActive, Open, UnderWay, Exists, Count
<1> QED
  BY <1>2, <1>3, <1>4, <1>5 DEF ClientInv

LEMMA ClientInvNext == ClientInv /\ [ClientNext]_clientVars => ClientInv'
<1> SUFFICES ASSUME ClientInv, [ClientNext]_clientVars PROVE ClientInv'
  OBVIOUS
<1>1. ASSUME NEW c \in Conversations, Select(c) \/ Delete(c) PROVE ClientInv'
  BY <1>1, SelectKeeps, DeleteKeeps
<1>2. CASE AskNew
  BY <1>2, ClientStays DEF AskNew
<1>3. CASE ByHand
  BY <1>3, ClientStays DEF ByHand, ClientInv, ClientTypeOK
<1>4. CASE ShowNew \/ Send \/ Resend
  BY <1>4, ShowNewKeeps, SendKeeps, ResendKeeps
<1>5. CASE Stop
  <2>1. latest \in Sends /\ CutOff(latest) /\ latest' = 0
    BY <1>5 DEF Stop, ClientInv, ClientTypeOK
  <2> QED
    BY <2>1, CutOffKeeps
<1>6. ASSUME NEW s \in Sends, Created(s) \/ EndStream(s) \/ BreakOff(s) \/ Dropped(s) PROVE ClientInv'
  <2>1. CASE Created(s)
    BY <2>1, CreatedKeeps, EmptyKeeps DEF Created
  <2>2. CASE BreakOff(s)
    BY <2>2, CutOffKeeps DEF BreakOff
  <2> QED
    BY <1>6, <2>1, <2>2, EndStreamKeeps, DroppedKeeps
<1>7. ASSUME NEW s \in Sends, TakeMessage(s) \/ AnswerIt(s) \/ LateMessage(s) \/ LateAnswer(s) PROVE ClientInv'
  BY <1>7, SaveKeeps DEF TakeMessage, AnswerIt, LateMessage, LateAnswer
<1>8. ASSUME NEW l \in Loads, Reply(l) \/ Show(l) \/ LoadFails(l) PROVE ClientInv'
  BY <1>8, ReplyKeeps, ShowKeeps, LoadFailsKeeps
<1>9. CASE UNCHANGED clientVars
  BY <1>9, ClientStays DEF clientVars, ClientInv, ClientTypeOK
<1> QED
  BY <1>1, <1>2, <1>3, <1>4, <1>5, <1>6, <1>7, <1>8, <1>9 DEF ClientNext

(* The last load is the one the invariant speaks of, when it was shown.      *)
LEMMA ClientInvIsRight == ClientInv => ViewIsRight /\ ComposerIsRight
<1> SUFFICES ASSUME ClientInv PROVE ViewIsRight /\ ComposerIsRight
  OBVIOUS
<1>1. ComposerIsRight
  BY DEF ClientInv, ComposerInv, ComposerIsRight
<1>2. ASSUME Quiet, ~moved, ~crossed, ~view.local, active # NoConversation, newest = LastLoad
      PROVE  view.of = active /\ Exists(active) /\ view.count = Count(active)
  <2>1. Open = {}
    BY <1>2 DEF Quiet, Open
  <2>2. Exists(active) /\ LastIsOfActive
    BY <1>2, <2>1 DEF ClientInv, Undisturbed
  <2>3. PICK l \in Loads :
          /\ loads[l].state # "free" /\ \A k \in Loads : k > l => loads[k].state = "free"
          /\ loads[l].conv = active
          /\ loads[l].state \in {"read", "shown"} => loads[l].count = Count(active)
    BY <2>2 DEF LastIsOfActive
  <2>4. FreeLoads # Loads /\ l \in Loads \ FreeLoads /\ \A k \in Loads \ FreeLoads : k <= l
    BY <2>3 DEF FreeLoads
  <2>5. LastLoad \in Loads \ FreeLoads /\ l <= LastLoad
    BY <2>4 DEF LastLoad
  <2>6. LastLoad = l
    BY <2>4, <2>5
  <2>7. newest # 0 /\ newest = l
    BY <1>2, <2>6
  <2> QED
    BY <1>2, <2>2, <2>3, <2>7 DEF ClientInv, ViewIsNewest
<1> QED
  BY <1>1, <1>2 DEF ViewIsRight

(* The screen shows the active conversation as the server has it once all is *)
(* quiet, and the composer is locked exactly while a turn is streamed: with  *)
(* any conversations, sends and loads.                                       *)
THEOREM ClientTheorem ==
  ClientInit /\ [][ClientNext]_clientVars => [](ClientTypeOK /\ ViewIsRight /\ ComposerIsRight)
<1>1. ClientInv => ClientTypeOK
  BY DEF ClientInv
<1> QED
  BY <1>1, ClientInvInit, ClientInvNext, ClientInvIsRight, PTL

-----------------------------------------------------------------------------
(* All parts together: a part that is not followed stands still.             *)
PartsInv ==
  /\ BusInv /\ StreamsInv /\ ClientInv /\ LinesInv /\ WindowInv /\ RowsInv /\ PicturesInv

LEMMA PartsInvInit == InitParts => PartsInv
BY BusInvInit, StreamsInvInit, ClientInvInit, LinesInvInit, WindowInvInit, RowsInvInit, PicturesInvInit
   DEF InitParts, PartsInv

LEMMA PartsStep ==
  ASSUME [NextParts]_partVars
  PROVE  /\ [Next]_vars /\ [StreamsNext]_streamVars /\ [ClientNext]_clientVars /\ [LinesNext]_lineVars
         /\ [WindowNext]_windowVars /\ [RowsNext]_rowVars /\ [ComposerNext]_composerVars
<1>1. CASE UNCHANGED partVars
  BY <1>1 DEF partVars
<1>2. CASE NextParts
  BY <1>2 DEF NextParts, Aside
<1> QED
  BY <1>1, <1>2

LEMMA PartsInvNext == PartsInv /\ [NextParts]_partVars => PartsInv'
<1> SUFFICES ASSUME PartsInv, [NextParts]_partVars PROVE PartsInv'
  OBVIOUS
<1>1. /\ [Next]_vars /\ [StreamsNext]_streamVars /\ [ClientNext]_clientVars /\ [LinesNext]_lineVars
      /\ [WindowNext]_windowVars /\ [RowsNext]_rowVars /\ [ComposerNext]_composerVars
  BY PartsStep
<1> QED
  BY <1>1, BusInvNext, StreamsInvNext, ClientInvNext, LinesInvNext, WindowInvNext, RowsInvNext, PicturesInvNext
     DEF PartsInv

LEMMA PartsInvShows == PartsInv => PartsTypeOK /\ WebClientIsRight
BY ClientInvIsRight, LinesInvShows, WindowInvShows, RowsInvShows, PicturesInvKeeps
   DEF PartsInv, PartsTypeOK, WebClientIsRight, BusInv, StreamsInv, ClientInv

(* Every variable of the bus, of the streams and of the web client keeps its *)
(* type.                                                                     *)
THEOREM PartsAreTyped == SpecParts => []PartsTypeOK
BY PartsInvInit, PartsInvNext, PartsInvShows, PTL DEF SpecParts

(* The web client shows what the server has, locks its composer while a turn *)
(* is streamed, reads every line of an answer however the network cuts it,   *)
(* shows some of the messages and keeps the user's place in them, lists      *)
(* every conversation, and sends each picture once: for any numbers of       *)
(* conversations, sends, loads, messages and pictures, and any text.         *)
THEOREM WebClientTheorem == SpecParts => []WebClientIsRight
BY PartsInvInit, PartsInvNext, PartsInvShows, PTL DEF SpecParts

=============================================================================
