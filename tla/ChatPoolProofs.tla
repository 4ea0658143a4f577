---------------------------- MODULE ChatPoolProofs ----------------------------
(* Theorems about ChatPool, for any sessions, tasks and kinds of requests,   *)
(* any size of the pool and any number of instances.                         *)
EXTENDS ChatPool, SequenceTheorems, TLAPS

(* The pool as a set: the order of its entries matters to _evict_lru only.   *)
Pool == Range(entries)

Getters   == {"get", "active", "lookup", "create"}
Using     == {"current", "exists", "list", "read", "erase", "adopt", "acquire",
              "turn", "release", "activate", "rename", "finish"}
Ends      == {"turn", "release", "finish"}
UnderLock == {"adopt", "turn", "release", "activate", "finish"}

(* What is left of a request, once it has the lock of its instance.          *)
Owes(q) == (\E i \in DOMAIN q : q[i] \in Ends) /\ \A i \in DOMAIN q : q[i] # "acquire"

(* The order of steps that all requests have in common.                      *)
WellOrdered(q) ==
  /\ \A i \in DOMAIN q : q[i] \in {"close", "closing"} => i = 1
  /\ \A i \in DOMAIN q : q[i] = "finish" => Len(q) = 1
  /\ \A i \in DOMAIN q : q[i] = "acquire" =>
       /\ \A j \in DOMAIN q : i < j => q[j] \in UnderLock
       /\ \E j \in DOMAIN q : i < j /\ q[j] \in Ends
  /\ \A i, j \in DOMAIN q : i < j /\ q[i] \in Ends => q[j] = "activate"
  /\ Owes(q) => \A i \in DOMAIN q : q[i] \in UnderLock
  /\ \A i, k \in DOMAIN q : i < k /\ q[i] = "active" /\ q[k] = "adopt"
       => \E j \in DOMAIN q : i < j /\ j < k /\ q[j] = "get"

(* No step uses an instance before one has got it; none adopts an id before  *)
(* the instance of that id was asked for.                                    *)
GetsFirst(q) ==
  \A i \in DOMAIN q : q[i] \in Using => \E j \in DOMAIN q : j < i /\ q[j] \in Getters
AsksFirst(q) ==
  \A i \in DOMAIN q : q[i] = "adopt" => \E j \in DOMAIN q : j < i /\ q[j] = "get"

Next1(t, steps) == todo[t] # <<>> /\ Head(todo[t]) \in steps

ProgramOK(t) ==
  /\ WellOrdered(todo[t])
  /\ held[t] = NoChat => GetsFirst(todo[t])
  /\ AsksFirst(todo[t]) \/ want[t] = arg[t]
  /\ outcome[t] # "none" => todo[t] = <<>>

ProgramInv == \A t \in Tasks : ProgramOK(t)

(* The books of the pool.                                                    *)
PoolInv ==
  /\ \A e, f \in Pool : e.sid = f.sid \/ e.chat = f.chat => e = f
  /\ IsInjective(entries)
  /\ \A e \in Pool : e.chat \in 1..made /\ e.chat \notin closed /\ e.sid \in KnownIds
  /\ closed \subseteq 1..made
  /\ \A t \in Tasks : victim[t].chat # NoChat =>
       /\ victim[t].chat \in 1..made /\ victim[t].chat \notin closed
       /\ \A e \in Pool : e.chat # victim[t].chat
       /\ \A u \in Tasks : victim[u].chat = victim[t].chat => u = t
  /\ \A t \in Tasks : victim[t].chat # NoChat <=> Next1(t, {"close", "closing"})
  /\ \A c \in 1..made : c \in closed \/ Closing(c) \/ \E e \in Pool : e.chat = c
  /\ Len(entries) =< MaxSize
       \/ (Len(entries) = MaxSize + 1 /\ running # NoTask /\ Next1(running, {"evictLru"}))

IdsInv ==
  /\ \A t \in Tasks : held[t] =< made /\ arg[t] \in KnownIds /\ want[t] \in KnownIds
  /\ active \in KnownIds /\ gone \subseteq KnownIds

(* Who is in the queue of a lock: tasks that owe it a release, and tasks     *)
(* that are closing its instance.                                            *)
Queued(t, c) ==
  \/ Owes(todo[t]) /\ held[t] = c
  \/ Next1(t, {"closing"}) /\ victim[t].chat = c

LockInv ==
  /\ \A c \in Chats : IsInjective(locks[c]) /\ \A t \in Tasks : t \in Range(locks[c]) <=> Queued(t, c)
  /\ running # NoTask => todo[running] # <<>> /\ ~Waits(running)
  /\ \A t \in Tasks : InTurn(t) => locks[held[t]] # <<>> /\ Head(locks[held[t]]) = t

(* The instance that a request got is the entry of the id it asked for, and  *)
(* an instance that writes a session is the entry of that session.           *)
Kept(s, c) == s \in gone \/ \E e \in Pool : e.sid = s /\ e.chat = c

BindingInv ==
  /\ \A t \in Tasks :
       held[t] # NoChat /\ todo[t] # <<>> /\ ~Next1(t, {"lookup", "create"}) => Kept(want[t], held[t])
  /\ \A t \in Tasks : outcome[t] = "closed" => want[t] \in gone
  /\ \A t \in Tasks : held[t] # NoChat => Kept(sidOf[held[t]], held[t])
  /\ \A e \in Pool : Kept(sidOf[e.chat], e.chat)
  /\ \A t \in Tasks : InTurn(t) => Kept(turn[t].sid, held[t]) /\ held[t] \notin closed

Done(s) == {u \in rows[s] : outcome[u] = "ok"}

ContextInv ==
  /\ \A s \in Ids : rows[s] # {} => s \in gone \/ \E e \in Pool : e.sid = s
  /\ \A s \in Ids : \A u \in rows[s] : todo[u] = <<>> \/ (InTurn(u) /\ turn[u].sid = s)
  /\ \A t \in Tasks : InTurn(t) => sidOf[held[t]] \in {turn[t].sid} \cup gone \cup outdated
  /\ \A t \in Tasks : InTurn(t) /\ turn[t].sid \notin gone \cup outdated =>
       t \in turn[t].ctx /\ Done(turn[t].sid) \subseteq turn[t].ctx
  /\ \A e \in Pool : sidOf[e.chat] = e.sid /\ e.sid \notin gone \cup outdated =>
       Done(e.sid) \subseteq messages[e.chat]

IInv == TypeOK /\ ProgramInv /\ PoolInv /\ IdsInv /\ LockInv /\ BindingInv /\ ContextInv

-----------------------------------------------------------------------------
(* Sequences without repetitions: adding at the end, taking the first, and   *)
(* taking one out.                                                           *)
LEMMA InRange ==
  ASSUME NEW S, NEW q \in Seq(S)
  PROVE  /\ Range(q) \subseteq S
         /\ \A x : x \in Range(q) <=> \E i \in 1..Len(q) : q[i] = x
         /\ DOMAIN q = 1..Len(q) /\ Len(q) \in Nat
         /\ q # <<>> => Len(q) >= 1 /\ Head(q) = q[1] /\ Head(q) \in Range(q)
         /\ q = <<>> => Range(q) = {}
BY DEF Range

LEMMA Appending ==
  ASSUME NEW S, NEW q \in Seq(S), NEW x \in S
  PROVE  /\ Append(q, x) \in Seq(S) /\ Append(q, x) # <<>> /\ Len(Append(q, x)) = Len(q) + 1
         /\ Range(Append(q, x)) = Range(q) \cup {x}
         /\ IsInjective(q) /\ x \notin Range(q) => IsInjective(Append(q, x))
         /\ q # <<>> => Head(Append(q, x)) = Head(q)
         /\ q = <<>> => Head(Append(q, x)) = x
<1> DEFINE p == Append(q, x)
<1>1. /\ p \in Seq(S) /\ p # <<>> /\ Len(p) = Len(q) + 1 /\ p[Len(q) + 1] = x
      /\ \A i \in 1..Len(q) : p[i] = q[i]
  BY AppendProperties
<1>2. /\ DOMAIN p = 1..Len(p) /\ DOMAIN q = 1..Len(q) /\ Len(q) \in Nat
      /\ \A y : y \in Range(p) <=> \E i \in 1..Len(p) : p[i] = y
      /\ \A y : y \in Range(q) <=> \E i \in 1..Len(q) : q[i] = y
  BY <1>1, InRange
<1>3. Range(p) = Range(q) \cup {x}
  <2>1. \A y \in Range(p) : y \in Range(q) \cup {x}
    BY <1>1, <1>2
  <2>2. \A y \in Range(q) : y \in Range(p)
    BY <1>1, <1>2
  <2>3. x \in Range(p)
    BY <1>1, <1>2
  <2> QED
    BY <2>1, <2>2, <2>3
<1>4. IsInjective(q) /\ x \notin Range(q) => IsInjective(p)
  BY <1>1, <1>2 DEF IsInjective
<1>5. /\ q # <<>> => Head(p) = Head(q)
      /\ q = <<>> => Head(p) = x
  BY HeadTailAppend
<1> QED
  BY <1>1, <1>3, <1>4, <1>5

LEMMA Tailing ==
  ASSUME NEW S, NEW q \in Seq(S), q # <<>>
  PROVE  /\ Head(q) \in S /\ Tail(q) \in Seq(S) /\ Len(Tail(q)) = Len(q) - 1
         /\ Range(q) = Range(Tail(q)) \cup {Head(q)}
         /\ IsInjective(q) => IsInjective(Tail(q)) /\ Head(q) \notin Range(Tail(q))
<1> DEFINE p == Tail(q)
<1>1. /\ Head(q) \in S /\ p \in Seq(S) /\ Len(p) = Len(q) - 1
      /\ \A i \in 1..Len(p) : p[i] = q[i + 1]
  BY HeadTailProperties
<1>2. /\ DOMAIN p = 1..Len(p) /\ DOMAIN q = 1..Len(q) /\ Len(q) \in Nat /\ Len(q) >= 1
      /\ \A y : y \in Range(p) <=> \E i \in 1..Len(p) : p[i] = y
      /\ \A y : y \in Range(q) <=> \E i \in 1..Len(q) : q[i] = y
      /\ Head(q) = q[1]
  BY <1>1, InRange
<1>3. \A j \in 1..Len(q) : j = 1 \/ \E i \in 1..Len(p) : p[i] = q[j]
  <2> SUFFICES ASSUME NEW j \in 1..Len(q), j # 1 PROVE \E i \in 1..Len(p) : p[i] = q[j]
    OBVIOUS
  <2>1. j - 1 \in 1..Len(p) /\ p[j - 1] = q[j]
    BY <1>1, <1>2
  <2> QED
    BY <2>1
<1>4. Range(q) = Range(p) \cup {Head(q)}
  <2>1. \A y \in Range(q) : y \in Range(p) \cup {Head(q)}
    BY <1>2, <1>3
  <2>2. \A y \in Range(p) : y \in Range(q)
    BY <1>1, <1>2
  <2>3. Head(q) \in Range(q)
    BY <1>2
  <2> QED
    BY <2>1, <2>2, <2>3
<1>5. IsInjective(q) => IsInjective(p) /\ Head(q) \notin Range(p)
  BY <1>1, <1>2 DEF IsInjective
<1> QED
  BY <1>1, <1>4, <1>5

LEMMA Removing ==
  ASSUME NEW S, NEW q \in Seq(S), NEW i \in 1..Len(q), IsInjective(q)
  PROVE  /\ RemoveAt(q, i) \in Seq(S) /\ Len(RemoveAt(q, i)) = Len(q) - 1
         /\ Range(RemoveAt(q, i)) = Range(q) \ {q[i]}
         /\ IsInjective(RemoveAt(q, i))
         /\ i >= 2 => RemoveAt(q, i) # <<>> /\ Head(RemoveAt(q, i)) = Head(q)
<1> DEFINE a == SubSeq(q, 1, i - 1)
           b == SubSeq(q, i + 1, Len(q))
           p == RemoveAt(q, i)
<1>1. Len(q) \in Nat /\ DOMAIN q = 1..Len(q) /\ \A j \in 1..Len(q) : q[j] \in S
  BY ElementOfSeq, LenProperties
<1>2. a \in Seq(S) /\ Len(a) = i - 1 /\ \A j \in 1..(i - 1) : a[j] = q[j]
  <2>1. 1 \in Int /\ i - 1 \in Int /\ \A j \in 1..(i - 1) : q[j] \in S
    BY <1>1
  <2> HIDE DEF a
  <2>2. /\ a \in Seq(S) /\ Len(a) = IF 1 <= i - 1 THEN (i - 1) - 1 + 1 ELSE 0
        /\ \A j \in 1..((i - 1) - 1 + 1) : a[j] = q[1 + j - 1]
    BY <2>1, SubSeqProperties DEF a
  <2> QED
    BY <2>2, <1>1
<1>3. b \in Seq(S) /\ Len(b) = Len(q) - i /\ \A j \in 1..(Len(q) - i) : b[j] = q[i + j]
  <2>1. i + 1 \in Int /\ Len(q) \in Int /\ \A j \in (i + 1)..Len(q) : q[j] \in S
    BY <1>1
  <2> HIDE DEF b
  <2>2. /\ b \in Seq(S) /\ Len(b) = IF i + 1 <= Len(q) THEN Len(q) - (i + 1) + 1 ELSE 0
        /\ \A j \in 1..(Len(q) - (i + 1) + 1) : b[j] = q[(i + 1) + j - 1]
    BY <2>1, SubSeqProperties DEF b
  <2>5. i \in Int /\ Len(q) \in Int /\ i <= Len(q)
    BY <1>1
  <2>3. Len(b) = Len(q) - i /\ Len(q) - (i + 1) + 1 = Len(q) - i
    BY <2>2, <2>5
  <2>4. ASSUME NEW j \in 1..(Len(q) - i) PROVE b[j] = q[i + j]
    <3>1. b[j] = q[(i + 1) + j - 1]
      BY <2>2, <2>3
    <3>2. (i + 1) + j - 1 = i + j
      BY <1>1
    <3> QED
      BY <3>1, <3>2
  <2> QED
    BY <2>2, <2>3, <2>4
<1>4. /\ p \in Seq(S) /\ Len(p) = Len(a) + Len(b)
      /\ \A j \in 1..(Len(a) + Len(b)) : p[j] = IF j <= Len(a) THEN a[j] ELSE b[j - Len(a)]
  <2> HIDE DEF a, b
  <2>1. p = a \o b
    BY DEF RemoveAt, a, b
  <2>2. /\ a \o b \in Seq(S) /\ Len(a \o b) = Len(a) + Len(b)
        /\ \A j \in 1..(Len(a) + Len(b)) : (a \o b)[j] = IF j <= Len(a) THEN a[j] ELSE b[j - Len(a)]
    BY <1>2, <1>3, ConcatProperties
  <2> QED
    BY <2>1, <2>2
<1> HIDE DEF a, b, p
<1>5. /\ Len(p) = Len(q) - 1
      /\ \A j \in 1..Len(p) : p[j] = IF j < i THEN q[j] ELSE q[j + 1]
  BY <1>1, <1>2, <1>3, <1>4
<1>6. /\ DOMAIN p = 1..Len(p)
      /\ \A y : y \in Range(p) <=> \E j \in 1..Len(p) : p[j] = y
      /\ \A y : y \in Range(q) <=> \E j \in 1..Len(q) : q[j] = y
  BY <1>4, InRange
<1>7. Range(p) = Range(q) \ {q[i]}
  <2>1. ASSUME NEW y \in Range(p) PROVE y \in Range(q) \ {q[i]}
    <3>1. PICK j \in 1..Len(p) : p[j] = y
      BY <1>6, <2>1
    <3>2. PICK k \in 1..Len(q) : k # i /\ q[k] = y
      BY <1>1, <1>5, <3>1
    <3> QED
      BY <3>2, <1>1, <1>6 DEF IsInjective
  <2>2. ASSUME NEW y \in Range(q), y # q[i] PROVE y \in Range(p)
    <3>1. PICK k \in 1..Len(q) : k # i /\ q[k] = y
      BY <1>6, <2>2
    <3>2. CASE k < i
      BY <3>1, <3>2, <1>1, <1>5, <1>6
    <3>3. CASE k > i
      <4>1. k - 1 \in 1..Len(p) /\ p[k - 1] = y
        BY <3>1, <3>3, <1>1, <1>5
      <4> QED
        BY <4>1, <1>6
    <3> QED
      BY <3>1, <3>2, <3>3, <1>1
  <2> QED
    BY <2>1, <2>2
<1>8. IsInjective(p)
  <2> SUFFICES ASSUME NEW j \in 1..Len(p), NEW k \in 1..Len(p), p[j] = p[k] PROVE j = k
    BY <1>6 DEF IsInjective
  <2> QED
    BY <1>1, <1>5 DEF IsInjective
<1>9. i >= 2 => p # <<>> /\ Head(p) = Head(q)
  <2> SUFFICES ASSUME i >= 2 PROVE p # <<>> /\ Head(p) = Head(q)
    OBVIOUS
  <2>1. Len(p) >= 1 /\ p[1] = q[1]
    BY <1>1, <1>5
  <2>2. p # <<>> /\ q # <<>>
    BY <2>1, <1>1, EmptySeq
  <2> QED
    BY <2>1, <2>2, <1>4, InRange
<1> QED
  BY <1>4, <1>5, <1>7, <1>8, <1>9 DEF p

-----------------------------------------------------------------------------
(* What is left of a request after its first step, and with another step put *)
(* before it.                                                                *)
NoCloseNorFinish(q) == \A i \in DOMAIN q : q[i] \notin {"close", "closing", "finish"}

LEMMA Suffix ==
  ASSUME NEW q \in Seq(Steps), q # <<>>
  PROVE  /\ Tail(q) \in Seq(Steps) /\ Head(q) \in Steps /\ Head(q) = q[1]
         /\ DOMAIN q = 1..Len(q) /\ DOMAIN Tail(q) = 1..Len(Tail(q))
         /\ Len(q) \in Nat /\ Len(q) >= 1 /\ Len(Tail(q)) = Len(q) - 1
         /\ \A i \in 1..Len(Tail(q)) : Tail(q)[i] = q[i + 1]
BY HeadTailProperties, InRange

LEMMA OwesRest ==
  ASSUME NEW q \in Seq(Steps), q # <<>>, WellOrdered(q)
  PROVE  /\ Head(q) = "acquire" => Owes(Tail(q)) /\ ~Owes(q)
         /\ Head(q) \in Ends => ~Owes(Tail(q)) /\ Owes(q)
         /\ Head(q) \notin Ends \cup {"acquire"} => (Owes(Tail(q)) <=> Owes(q))
         /\ Head(q) \notin UnderLock => ~Owes(q)
         /\ NoCloseNorFinish(Tail(q))
<1> DEFINE p == Tail(q)
<1>1. /\ DOMAIN q = 1..Len(q) /\ DOMAIN p = 1..Len(p) /\ Len(q) \in Nat /\ Len(q) >= 1
      /\ Len(p) = Len(q) - 1 /\ Head(q) = q[1] /\ \A i \in 1..Len(p) : p[i] = q[i + 1]
  BY Suffix
<1>2. \A j \in 1..Len(q) : j = 1 \/ (j - 1 \in 1..Len(p) /\ p[j - 1] = q[j])
  BY <1>1
<1> HIDE DEF p
<1>3. ASSUME Head(q) = "acquire" PROVE Owes(p) /\ ~Owes(q)
  <2>1. PICK j \in DOMAIN q : 1 < j /\ q[j] \in Ends
    BY <1>1, <1>3 DEF WellOrdered
  <2>2. \A k \in DOMAIN q : 1 < k => q[k] \in UnderLock
    BY <1>1, <1>3 DEF WellOrdered
  <2>3. \A i \in DOMAIN p : p[i] # "acquire"
    BY <1>1, <2>2 DEF UnderLock
  <2>4. j - 1 \in DOMAIN p /\ p[j - 1] \in Ends
    BY <1>1, <1>2, <2>1
  <2> QED
    BY <1>1, <1>3, <2>3, <2>4 DEF Owes
<1>4. ASSUME Head(q) \in Ends PROVE ~Owes(p) /\ Owes(q)
  <2>1. \A j \in DOMAIN q : 1 < j => q[j] = "activate"
    BY <1>1, <1>4 DEF WellOrdered
  <2>2. \A i \in DOMAIN p : p[i] = "activate"
    BY <1>1, <2>1
  <2>3. \A j \in DOMAIN q : q[j] # "acquire"
    BY <1>1, <1>4, <2>1 DEF Ends
  <2> QED
    BY <1>1, <1>4, <2>2, <2>3 DEF Owes, Ends
<1>5. ASSUME Head(q) \notin Ends \cup {"acquire"} PROVE Owes(p) <=> Owes(q)
  <2>1. \A S : (\E i \in DOMAIN q : q[i] \in S) <=> (q[1] \in S \/ \E i \in DOMAIN p : p[i] \in S)
    BY <1>1, <1>2
  <2>2. /\ (\E i \in DOMAIN q : q[i] \in Ends) <=> (\E i \in DOMAIN p : p[i] \in Ends)
        /\ (\E i \in DOMAIN q : q[i] \in {"acquire"}) <=> (\E i \in DOMAIN p : p[i] \in {"acquire"})
    BY <1>1, <1>5, <2>1
  <2> QED
    BY <2>2 DEF Owes
<1>6. ASSUME Head(q) \notin UnderLock PROVE ~Owes(q)
  BY <1>1, <1>6 DEF WellOrdered
<1>7. NoCloseNorFinish(p)
  BY <1>1 DEF WellOrdered, NoCloseNorFinish
<1> QED
  BY <1>3, <1>4, <1>5, <1>6, <1>7 DEF p

LEMMA RestOrdered ==
  ASSUME NEW q \in Seq(Steps), q # <<>>, WellOrdered(q)
  PROVE  WellOrdered(Tail(q))
<1> DEFINE p == Tail(q)
<1>1. /\ DOMAIN q = 1..Len(q) /\ DOMAIN p = 1..Len(p) /\ Len(q) \in Nat /\ Len(q) >= 1
      /\ Len(p) = Len(q) - 1 /\ Head(q) = q[1] /\ \A i \in 1..Len(p) : p[i] = q[i + 1]
  BY Suffix
<1>2. \A j \in 1..Len(q) : j = 1 \/ (j - 1 \in 1..Len(p) /\ p[j - 1] = q[j])
  BY <1>1
<1>3. NoCloseNorFinish(p) /\ (Owes(p) => Owes(q) \/ Head(q) = "acquire")
  BY OwesRest
<1> HIDE DEF p
<1>4. \A i \in DOMAIN p : p[i] \in {"close", "closing"} => i = 1
  BY <1>3 DEF NoCloseNorFinish
<1>5. \A i \in DOMAIN p : p[i] = "finish" => Len(p) = 1
  BY <1>3 DEF NoCloseNorFinish
<1>6. ASSUME NEW i \in DOMAIN p, p[i] = "acquire"
      PROVE  /\ \A j \in DOMAIN p : i < j => p[j] \in UnderLock
             /\ \E j \in DOMAIN p : i < j /\ p[j] \in Ends
  <2>1. /\ \A j \in DOMAIN q : i + 1 < j => q[j] \in UnderLock
        /\ \E j \in DOMAIN q : i + 1 < j /\ q[j] \in Ends
    BY <1>1, <1>6 DEF WellOrdered
  <2>2. \A j \in DOMAIN p : i < j => p[j] \in UnderLock
    BY <1>1, <2>1
  <2>3. PICK k \in DOMAIN q : i + 1 < k /\ q[k] \in Ends
    BY <2>1
  <2>4. k - 1 \in DOMAIN p /\ i < k - 1 /\ p[k - 1] \in Ends
    BY <1>1, <1>2, <2>3
  <2> QED
    BY <2>2, <2>4
<1>7. \A i, j \in DOMAIN p : i < j /\ p[i] \in Ends => p[j] = "activate"
  BY <1>1 DEF WellOrdered
<1>8. Owes(p) => \A i \in DOMAIN p : p[i] \in UnderLock
  <2>1. CASE Owes(q)
    BY <2>1, <1>1 DEF WellOrdered
  <2>2. CASE Head(q) = "acquire"
    BY <2>2, <1>1 DEF WellOrdered
  <2> QED
    BY <1>3, <2>1, <2>2
<1>9. ASSUME NEW i \in DOMAIN p, NEW k \in DOMAIN p, i < k, p[i] = "active", p[k] = "adopt"
      PROVE  \E j \in DOMAIN p : i < j /\ j < k /\ p[j] = "get"
  <2>3. i + 1 \in DOMAIN q /\ k + 1 \in DOMAIN q /\ i + 1 < k + 1 /\ q[i + 1] = "active" /\ q[k + 1] = "adopt"
    BY <1>1, <1>9
  <2>1. PICK j \in DOMAIN q : i + 1 < j /\ j < k + 1 /\ q[j] = "get"
    BY <2>3 DEF WellOrdered
  <2>2. j - 1 \in DOMAIN p /\ i < j - 1 /\ j - 1 < k /\ p[j - 1] = "get"
    BY <1>1, <1>2, <2>1
  <2> QED
    BY <2>2
<1> QED
  BY <1>4, <1>5, <1>6, <1>7, <1>8, <1>9 DEF WellOrdered, p

LEMMA RestGets ==
  ASSUME NEW q \in Seq(Steps), q # <<>>
  PROVE  /\ GetsFirst(q) => Head(q) \notin Using
         /\ GetsFirst(q) /\ Head(q) \notin Getters => GetsFirst(Tail(q))
         /\ AsksFirst(q) => Head(q) # "adopt"
         /\ AsksFirst(q) /\ Head(q) # "get" => AsksFirst(Tail(q))
         /\ WellOrdered(q) /\ Head(q) = "active" => AsksFirst(Tail(q))
<1> DEFINE p == Tail(q)
<1>1. /\ DOMAIN q = 1..Len(q) /\ DOMAIN p = 1..Len(p) /\ Len(q) \in Nat /\ Len(q) >= 1
      /\ Len(p) = Len(q) - 1 /\ Head(q) = q[1] /\ \A i \in 1..Len(p) : p[i] = q[i + 1]
  BY Suffix
<1>2. \A j \in 1..Len(q) : j = 1 \/ (j - 1 \in 1..Len(p) /\ p[j - 1] = q[j])
  BY <1>1
<1> HIDE DEF p
<1>3. /\ GetsFirst(q) => Head(q) \notin Using
      /\ AsksFirst(q) => Head(q) # "adopt"
  BY <1>1 DEF GetsFirst, AsksFirst
<1>4. ASSUME GetsFirst(q), Head(q) \notin Getters PROVE GetsFirst(p)
  <2> SUFFICES ASSUME NEW i \in DOMAIN p, p[i] \in Using
               PROVE  \E j \in DOMAIN p : j < i /\ p[j] \in Getters
    BY DEF GetsFirst
  <2>1. PICK j \in DOMAIN q : j < i + 1 /\ q[j] \in Getters
    BY <1>1, <1>4 DEF GetsFirst
  <2>2. j - 1 \in DOMAIN p /\ j - 1 < i /\ p[j - 1] \in Getters
    BY <1>1, <1>2, <1>4, <2>1
  <2> QED
    BY <2>2
<1>5. ASSUME AsksFirst(q), Head(q) # "get" PROVE AsksFirst(p)
  <2> SUFFICES ASSUME NEW i \in DOMAIN p, p[i] = "adopt"
               PROVE  \E j \in DOMAIN p : j < i /\ p[j] = "get"
    BY DEF AsksFirst
  <2>1. PICK j \in DOMAIN q : j < i + 1 /\ q[j] = "get"
    BY <1>1, <1>5 DEF AsksFirst
  <2>2. j - 1 \in DOMAIN p /\ j - 1 < i /\ p[j - 1] = "get"
    BY <1>1, <1>2, <1>5, <2>1
  <2> QED
    BY <2>2
<1>6. ASSUME WellOrdered(q), Head(q) = "active" PROVE AsksFirst(p)
  <2> SUFFICES ASSUME NEW i \in DOMAIN p, p[i] = "adopt"
               PROVE  \E j \in DOMAIN p : j < i /\ p[j] = "get"
    BY DEF AsksFirst
  <2>1. PICK j \in DOMAIN q : 1 < j /\ j < i + 1 /\ q[j] = "get"
    BY <1>1, <1>6 DEF WellOrdered
  <2>2. j - 1 \in DOMAIN p /\ j - 1 < i /\ p[j - 1] = "get"
    BY <1>1, <1>2, <2>1
  <2> QED
    BY <2>2
<1> QED
  BY <1>3, <1>4, <1>5, <1>6 DEF p

Inserted == {"lookup", "create", "evictLru", "close", "closing", "list"}

LEMMA Inserting ==
  ASSUME NEW q \in Seq(Steps), NEW x \in Inserted,
         WellOrdered(q), ~Owes(q), NoCloseNorFinish(q)
  PROVE  /\ <<x>> \o q \in Seq(Steps) /\ <<x>> \o q # <<>> /\ Head(<<x>> \o q) = x
         /\ WellOrdered(<<x>> \o q) /\ ~Owes(<<x>> \o q)
         /\ GetsFirst(q) /\ x # "list" => GetsFirst(<<x>> \o q)
         /\ x \in Getters => GetsFirst(<<x>> \o q)
         /\ AsksFirst(q) => AsksFirst(<<x>> \o q)
         /\ <<x>> \o q # <<"finish">>
<1> DEFINE p == <<x>> \o q
<1>1. x \in Steps /\ <<x>> \in Seq(Steps) /\ Len(<<x>>) = 1
  BY DEF Inserted, Steps, Awaited
<1>2. /\ p \in Seq(Steps) /\ Len(p) = 1 + Len(q)
      /\ \A i \in 1..(1 + Len(q)) : p[i] = IF i <= 1 THEN <<x>>[i] ELSE q[i - 1]
  BY <1>1, ConcatProperties
<1>3. /\ DOMAIN q = 1..Len(q) /\ DOMAIN p = 1..Len(p) /\ Len(q) \in Nat
      /\ Len(p) = Len(q) + 1 /\ p[1] = x /\ \A i \in DOMAIN q : p[i + 1] = q[i]
  BY <1>2, LenProperties
<1>4. \A i \in DOMAIN p : i = 1 \/ (i - 1 \in DOMAIN q /\ p[i] = q[i - 1])
  BY <1>2, <1>3
<1>5. p # <<>> /\ Head(p) = x
  BY <1>2, <1>3, InRange
<1> HIDE DEF p
<1>6. x \notin UnderLock \cup Ends \cup {"acquire", "active", "adopt", "finish"}
  BY DEF Inserted, UnderLock, Ends
<1>7. ~Owes(p)
  <2>1. \A S : (\E i \in DOMAIN p : p[i] \in S) <=> (p[1] \in S \/ \E i \in DOMAIN q : q[i] \in S)
    BY <1>3, <1>4
  <2>2. /\ (\E i \in DOMAIN p : p[i] \in Ends) <=> (\E i \in DOMAIN q : q[i] \in Ends)
        /\ (\E i \in DOMAIN p : p[i] \in {"acquire"}) <=> (\E i \in DOMAIN q : q[i] \in {"acquire"})
    BY <1>3, <1>6, <2>1
  <2> QED
    BY <2>2 DEF Owes
<1>8. WellOrdered(p)
  <2>1. \A i \in DOMAIN p : p[i] \in {"close", "closing"} => i = 1
    BY <1>4 DEF NoCloseNorFinish
  <2>2. \A i \in DOMAIN p : p[i] = "finish" => Len(p) = 1
    BY <1>3, <1>4, <1>6 DEF NoCloseNorFinish
  <2>3. ASSUME NEW i \in DOMAIN p, p[i] = "acquire"
        PROVE  /\ \A j \in DOMAIN p : i < j => p[j] \in UnderLock
               /\ \E j \in DOMAIN p : i < j /\ p[j] \in Ends
    <3>1. i - 1 \in DOMAIN q /\ q[i - 1] = "acquire"
      BY <1>3, <1>4, <1>6, <2>3
    <3>2. /\ \A j \in DOMAIN q : i - 1 < j => q[j] \in UnderLock
          /\ \E j \in DOMAIN q : i - 1 < j /\ q[j] \in Ends
      BY <3>1 DEF WellOrdered
    <3>3. \A j \in DOMAIN p : i < j => p[j] \in UnderLock
      BY <1>3, <1>4, <3>1, <3>2
    <3>4. PICK k \in DOMAIN q : i - 1 < k /\ q[k] \in Ends
      BY <3>2
    <3>5. k + 1 \in DOMAIN p /\ i < k + 1 /\ p[k + 1] \in Ends
      BY <1>3, <3>4
    <3> QED
      BY <3>3, <3>5
  <2>4. ASSUME NEW i \in DOMAIN p, NEW j \in DOMAIN p, i < j, p[i] \in Ends
        PROVE  p[j] = "activate"
    <3>1. i - 1 \in DOMAIN q /\ q[i - 1] \in Ends /\ j - 1 \in DOMAIN q /\ p[j] = q[j - 1]
      BY <1>3, <1>4, <1>6, <2>4
    <3> QED
      BY <3>1, <1>3, <2>4 DEF WellOrdered
  <2>5. ASSUME NEW i \in DOMAIN p, NEW k \in DOMAIN p, i < k, p[i] = "active", p[k] = "adopt"
        PROVE  \E j \in DOMAIN p : i < j /\ j < k /\ p[j] = "get"
    <3>1. i - 1 \in DOMAIN q /\ q[i - 1] = "active" /\ k - 1 \in DOMAIN q /\ q[k - 1] = "adopt"
      BY <1>3, <1>4, <1>6, <2>5
    <3>2. PICK j \in DOMAIN q : i - 1 < j /\ j < k - 1 /\ q[j] = "get"
      BY <3>1, <1>3, <2>5 DEF WellOrdered
    <3>3. j + 1 \in DOMAIN p /\ i < j + 1 /\ j + 1 < k /\ p[j + 1] = "get"
      BY <1>3, <3>2
    <3> QED
      BY <3>3
  <2> QED
    BY <2>1, <2>2, <2>3, <2>4, <2>5, <1>7 DEF WellOrdered
<1>9. x \in Getters => GetsFirst(p)
  <2> SUFFICES ASSUME x \in Getters, NEW i \in DOMAIN p, p[i] \in Using
               PROVE  \E j \in DOMAIN p : j < i /\ p[j] \in Getters
    BY DEF GetsFirst
  <2>1. i # 1
    BY <1>3 DEF Getters, Using
  <2> QED
    BY <2>1, <1>3
<1>10. ASSUME GetsFirst(q), x # "list" PROVE GetsFirst(p)
  <2> SUFFICES ASSUME NEW i \in DOMAIN p, p[i] \in Using
               PROVE  \E j \in DOMAIN p : j < i /\ p[j] \in Getters
    BY DEF GetsFirst
  <2>1. i # 1
    BY <1>3, <1>10 DEF Inserted, Using
  <2>2. PICK j \in DOMAIN q : j < i - 1 /\ q[j] \in Getters
    BY <1>4, <1>10, <2>1 DEF GetsFirst
  <2>3. j + 1 \in DOMAIN p /\ j + 1 < i /\ p[j + 1] \in Getters
    BY <1>3, <2>2
  <2> QED
    BY <2>3
<1>11. ASSUME AsksFirst(q) PROVE AsksFirst(p)
  <2> SUFFICES ASSUME NEW i \in DOMAIN p, p[i] = "adopt"
               PROVE  \E j \in DOMAIN p : j < i /\ p[j] = "get"
    BY DEF AsksFirst
  <2>1. i # 1
    BY <1>3, <1>6
  <2>2. PICK j \in DOMAIN q : j < i - 1 /\ q[j] = "get"
    BY <1>4, <1>11, <2>1 DEF AsksFirst
  <2>3. j + 1 \in DOMAIN p /\ j + 1 < i /\ p[j + 1] = "get"
    BY <1>3, <2>2
  <2> QED
    BY <2>3
<1>12. p # <<"finish">>
  BY <1>3, <1>6
<1> QED
  BY <1>2, <1>5, <1>7, <1>8, <1>9, <1>10, <1>11, <1>12 DEF p

LEMMA Programs ==
  ASSUME NEW op \in Requests
  PROVE  LET q == Program[op]
         IN  /\ q \in Seq(Steps) /\ q # <<>> /\ WellOrdered(q) /\ GetsFirst(q) /\ AsksFirst(q)
             /\ ~Owes(q) /\ NoCloseNorFinish(q) /\ q # <<"finish">>
             /\ Head(q) \in {"get", "active"}
<1> DEFINE Good(q) ==
      /\ q \in Seq(Steps) /\ q # <<>> /\ WellOrdered(q) /\ GetsFirst(q) /\ AsksFirst(q)
      /\ ~Owes(q) /\ NoCloseNorFinish(q) /\ q # <<"finish">> /\ Head(q) \in {"get", "active"}
<1> USE DEF WellOrdered, GetsFirst, AsksFirst, Owes, NoCloseNorFinish, Steps, Awaited,
            Ends, UnderLock, Getters, Using
<1>1. Good(ChatSteps) BY DEF ChatSteps
<1>2. Good(NewSteps) BY DEF NewSteps
<1>3. Good(SwitchSteps) BY DEF SwitchSteps
<1>4. Good(DeleteSteps) BY DEF DeleteSteps
<1>5. Good(CreateSteps) BY DEF CreateSteps
<1>6. Good(CronSteps) BY DEF CronSteps
<1>7. Good(LookSteps) BY DEF LookSteps
<1>8. Good(WaitSteps) BY DEF WaitSteps
<1>9. Good(StreamSteps) BY DEF StreamSteps
<1>10. Good(RunSteps) BY DEF RunSteps
<1>11. Good(ReplySteps) BY DEF ReplySteps
<1>12. Good(ModelSteps) BY DEF ModelSteps
<1>13. Program[op] \in {ChatSteps, NewSteps, SwitchSteps, DeleteSteps, CreateSteps, CronSteps, LookSteps,
                        WaitSteps, StreamSteps, RunSteps, ReplySteps, ModelSteps}
  BY DEF Program, Requests
<1> HIDE DEF Good, WellOrdered, GetsFirst, AsksFirst, Owes, NoCloseNorFinish
<1>14. Good(Program[op])
  BY <1>1, <1>2, <1>3, <1>4, <1>5, <1>6, <1>7, <1>8, <1>9, <1>10, <1>11, <1>12, <1>13
<1> QED
  BY <1>14 DEF Good

-----------------------------------------------------------------------------
(* What every step of a task does to what is left of its request.            *)
LEMMA Constants ==
  /\ NoTask \notin Tasks /\ MaxSize \in Nat \ {0} /\ MaxChats \in Nat \ {0}
  /\ Default \in Ids /\ Sessions \subseteq Ids /\ Ops \subseteq Requests
  /\ NoChat \notin Chats /\ \A c \in Chats : c \in Nat /\ c # NoChat
BY ConstantsAssumption DEF Ids, Chats, NoChat

LEMMA EntryFacts ==
  ASSUME TypeOK, NEW s, Has(s)
  PROVE  /\ PlaceOf(s) \in 1..Len(entries) /\ EntryOf(s) = entries[PlaceOf(s)]
         /\ EntryOf(s) \in Pool /\ EntryOf(s) \in Entry /\ EntryOf(s).sid = s
         /\ EntryOf(s).sid \in Ids /\ EntryOf(s).chat \in Chats /\ EntryOf(s).chat # NoChat
<1>1. /\ PlaceOf(s) \in DOMAIN entries /\ entries[PlaceOf(s)].sid = s
      /\ EntryOf(s) = entries[PlaceOf(s)]
  BY DEF Has, PlaceOf, EntryOf
<1>2. entries \in Seq(Entry)
  BY DEF TypeOK
<1>3. DOMAIN entries = 1..Len(entries) /\ Range(entries) \subseteq Entry
  BY <1>2, InRange
<1>4. entries[PlaceOf(s)] \in Range(entries)
  BY <1>1 DEF Range
<1>5. EntryOf(s) \in Entry
  BY <1>1, <1>3, <1>4
<1>6. EntryOf(s).sid \in Ids /\ EntryOf(s).chat \in Chats
  BY <1>5 DEF Entry
<1> QED
  BY <1>1, <1>3, <1>4, <1>5, <1>6, Constants DEF Pool
LEMMA StepFacts ==
  ASSUME TypeOK, ProgramInv, LockInv, NEW t \in Tasks, NEW x, At(t, x)
  PROVE  /\ todo[t] \in Seq(Steps) /\ todo[t] # <<>> /\ Head(todo[t]) = x /\ outcome[t] = "none"
         /\ Rest(t) \in Seq(Steps) /\ WellOrdered(Rest(t)) /\ NoCloseNorFinish(Rest(t))
         /\ Rest(t) # <<"finish">>
         /\ x \in Using => held[t] \in Chats
         /\ ~Waits(t) /\ running \in {t, NoTask}
         /\ x = "acquire" => Owes(Rest(t)) /\ ~Owes(todo[t])
         /\ x \in Ends => ~Owes(Rest(t)) /\ Owes(todo[t])
         /\ x \notin Ends \cup {"acquire"} => (Owes(Rest(t)) <=> Owes(todo[t]))
         /\ x \notin UnderLock => ~Owes(todo[t])
<1> DEFINE q == todo[t]
<1>1. /\ q \in Seq(Steps) /\ q # <<>> /\ Head(q) = x /\ WellOrdered(q) /\ outcome[t] = "none"
      /\ held[t] = NoChat => GetsFirst(q)
  BY DEF TypeOK, At, ProgramInv, ProgramOK
<1>2. /\ Rest(t) = Tail(q) /\ Tail(q) \in Seq(Steps) /\ WellOrdered(Tail(q)) /\ NoCloseNorFinish(Tail(q))
  BY <1>1, Suffix, OwesRest, RestOrdered DEF Rest
<1>3. Tail(q) # <<"finish">>
  <2>1. 1 \in DOMAIN <<"finish">> /\ <<"finish">>[1] = "finish"
    OBVIOUS
  <2>2. "finish" \in {"close", "closing", "finish"}
    OBVIOUS
  <2> HIDE DEF q
  <2> QED
    BY <1>2, <2>1, <2>2 DEF NoCloseNorFinish
<1>4. x \in Using => held[t] \in Chats
  <2>1. held[t] \in Chats \cup {NoChat}
    BY DEF TypeOK
  <2>2. GetsFirst(q) => x \notin Using
    BY <1>1, RestGets
  <2> QED
    BY <1>1, <2>1, <2>2
<1>5. running \in {t, NoTask} /\ ~Waits(t)
  <2>1. CASE running = t
    BY <2>1, Constants DEF LockInv
  <2>2. CASE Free /\ ~Waits(t)
    BY <2>2 DEF Free
  <2> QED
    BY <2>1, <2>2 DEF At
<1> HIDE DEF q
<1>6. /\ x = "acquire" => Owes(Tail(q)) /\ ~Owes(q)
      /\ x \in Ends => ~Owes(Tail(q)) /\ Owes(q)
      /\ x \notin Ends \cup {"acquire"} => (Owes(Tail(q)) <=> Owes(q))
      /\ x \notin UnderLock => ~Owes(q)
  BY <1>1, OwesRest
<1> QED
  BY <1>1, <1>2, <1>3, <1>4, <1>5, <1>6 DEF q

LEMMA HeadOfRest ==
  ASSUME NEW q \in Seq(Steps), NoCloseNorFinish(q), q # <<>>
  PROVE  Head(q) \notin {"close", "closing", "finish"}
<1>1. q[1] \notin {"close", "closing", "finish"} /\ Head(q) = q[1]
  BY Suffix DEF NoCloseNorFinish
<1> QED
  BY <1>1
LEMMA Going ==
  ASSUME TypeOK, NEW t \in Tasks, NEW q \in Seq(Steps), outcome[t] = "none",
         GoOn(t, q) \/ (q = <<>> /\ \E r \in {"failed", "missing", "closed"} : End(t, r))
  PROVE  /\ todo' = [todo EXCEPT ![t] = q] /\ todo'[t] = q
         /\ \A u \in Tasks \ {t} : todo'[u] = todo[u] /\ outcome'[u] = outcome[u]
         /\ outcome'[t] # "none" <=> q = <<>>
         /\ running' \in {t, NoTask} /\ (running' = t => q # <<>>)
         /\ outcome' \in [Tasks -> {"none", "ok", "failed", "missing", "closed"}]
         /\ GoOn(t, q) => outcome'[t] \in {"none", "ok"}
<1>1. todo \in [Tasks -> Seq(Steps)] /\ outcome \in [Tasks -> {"none", "ok", "failed", "missing", "closed"}]
  BY DEF TypeOK
<1>2. CASE GoOn(t, q) /\ q = <<>>
  BY <1>1, <1>2, Constants DEF GoOn
<1>3. CASE GoOn(t, q) /\ q # <<>>
  BY <1>1, <1>3, Constants DEF GoOn
<1>4. ASSUME q = <<>>, NEW r \in {"failed", "missing", "closed"}, End(t, r)
      PROVE  /\ todo' = [todo EXCEPT ![t] = q] /\ todo'[t] = q
             /\ \A u \in Tasks \ {t} : todo'[u] = todo[u] /\ outcome'[u] = outcome[u]
             /\ outcome'[t] # "none" /\ running' = NoTask
             /\ outcome' \in [Tasks -> {"none", "ok", "failed", "missing", "closed"}]
  BY <1>1, <1>4 DEF End
<1>5. CASE q = <<>> /\ ~GoOn(t, q)
  BY <1>4, <1>5, Constants
<1> QED
  BY <1>2, <1>3, <1>5

LEMMA ProgramFrame ==
  ASSUME TypeOK, ProgramInv, NEW t \in Tasks, NEW q \in Seq(Steps),
         todo' = [todo EXCEPT ![t] = q], WellOrdered(q),
         \A u \in Tasks \ {t} :
           held'[u] = held[u] /\ want'[u] = want[u] /\ arg'[u] = arg[u] /\ outcome'[u] = outcome[u],
         held'[t] = NoChat => GetsFirst(q),
         AsksFirst(q) \/ want'[t] = arg'[t],
         outcome'[t] # "none" => q = <<>>
  PROVE  ProgramInv'
<1> SUFFICES ASSUME NEW u \in Tasks PROVE ProgramOK(u)'
  BY DEF ProgramInv
<1>1. CASE u = t
  <2>1. todo'[t] = q
    BY DEF TypeOK
  <2> QED
    BY <1>1, <2>1 DEF ProgramOK
<1>2. CASE u # t
  <2>1. todo'[u] = todo[u]
    BY <1>2 DEF TypeOK
  <2>2. ProgramOK(u)
    BY DEF ProgramInv
  <2> QED
    BY <1>2, <2>1, <2>2 DEF ProgramOK
<1> QED
  BY <1>1, <1>2

(* A step that leaves the ids and the instance of the request alone.         *)
LEMMA ProgramRest ==
  ASSUME TypeOK, ProgramInv, LockInv, NEW t \in Tasks, NEW x \in Steps \ Getters, At(t, x),
         UNCHANGED <<arg, want, held>>, GoOn(t, Rest(t))
  PROVE  ProgramInv'
<1>1. /\ Rest(t) \in Seq(Steps) /\ WellOrdered(Rest(t)) /\ outcome[t] = "none"
      /\ todo[t] \in Seq(Steps) /\ todo[t] # <<>> /\ Head(todo[t]) = x
  BY StepFacts
<1>2. /\ todo' = [todo EXCEPT ![t] = Rest(t)]
      /\ \A u \in Tasks \ {t} : outcome'[u] = outcome[u]
      /\ outcome'[t] # "none" => Rest(t) = <<>>
  BY <1>1, Going
<1>3. /\ held'[t] = NoChat => GetsFirst(Rest(t))
      /\ AsksFirst(Rest(t)) \/ want'[t] = arg'[t]
  BY <1>1, RestGets DEF ProgramInv, ProgramOK, Rest, Getters
<1> QED
  BY <1>1, <1>2, <1>3, ProgramFrame

LEMMA Insertion ==
  ASSUME TypeOK, ProgramInv, LockInv, NEW t \in Tasks, NEW x \in Steps, At(t, x),
         x \notin UnderLock \cup {"acquire"}, NEW y \in Inserted, GoOn(t, <<y>> \o Rest(t))
  PROVE  LET q == <<y>> \o Rest(t)
         IN  /\ q \in Seq(Steps) /\ q # <<>> /\ Head(q) = y /\ ~Owes(q) /\ q # <<"finish">>
             /\ todo' = [todo EXCEPT ![t] = q] /\ outcome' = outcome /\ outcome[t] = "none"
             /\ running' = IF y \in Awaited THEN NoTask ELSE t
<1> DEFINE q == <<y>> \o Rest(t)
<1>1. /\ Rest(t) \in Seq(Steps) /\ WellOrdered(Rest(t)) /\ NoCloseNorFinish(Rest(t)) /\ ~Owes(Rest(t))
      /\ outcome[t] = "none"
  BY StepFacts DEF Ends, UnderLock
<1>2. q \in Seq(Steps) /\ q # <<>> /\ Head(q) = y /\ ~Owes(q) /\ q # <<"finish">>
  BY <1>1, Inserting
<1>3. GoOn(t, q)
  OBVIOUS
<1> HIDE DEF q
<1>4. todo' = [todo EXCEPT ![t] = q] /\ outcome' = outcome /\ running' = IF y \in Awaited THEN NoTask ELSE t
  BY <1>2, <1>3 DEF GoOn
<1> QED
  BY <1>1, <1>2, <1>4 DEF q
(* _evict_lru goes back to its loop after a close.                           *)
LEMMA CloseLru ==
  ASSUME TypeOK, ProgramInv, LockInv, NEW t \in Tasks, At(t, "evictLru"), GoOn(t, <<"close">> \o todo[t])
  PROVE  LET q == <<"close">> \o todo[t]
         IN  /\ q \in Seq(Steps) /\ q # <<>> /\ Head(q) = "close" /\ ~Owes(q) /\ q # <<"finish">>
             /\ WellOrdered(q)
             /\ GetsFirst(todo[t]) => GetsFirst(q)
             /\ AsksFirst(todo[t]) => AsksFirst(q)
             /\ todo' = [todo EXCEPT ![t] = q] /\ outcome' = outcome /\ outcome[t] = "none"
             /\ running' = t
<1> DEFINE p == todo[t]
           q == <<"close">> \o p
<1>1. /\ p \in Seq(Steps) /\ p # <<>> /\ Head(p) = "evictLru" /\ WellOrdered(p) /\ ~Owes(p)
      /\ outcome[t] = "none"
  BY StepFacts DEF UnderLock, ProgramInv, ProgramOK
<1>2. NoCloseNorFinish(p)
  <2>1. NoCloseNorFinish(Tail(p))
    BY <1>1, OwesRest
  <2>2. /\ DOMAIN p = 1..Len(p) /\ DOMAIN Tail(p) = 1..Len(Tail(p)) /\ Len(p) \in Nat
        /\ Len(Tail(p)) = Len(p) - 1 /\ p[1] = "evictLru" /\ \A i \in 1..Len(Tail(p)) : Tail(p)[i] = p[i + 1]
    BY <1>1, Suffix
  <2> HIDE DEF p
  <2>3. \A i \in DOMAIN p : i = 1 \/ (i - 1 \in DOMAIN Tail(p) /\ p[i] = Tail(p)[i - 1])
    BY <2>2
  <2> QED
    BY <2>1, <2>2, <2>3 DEF NoCloseNorFinish
<1>3. /\ q \in Seq(Steps) /\ q # <<>> /\ Head(q) = "close" /\ ~Owes(q) /\ q # <<"finish">>
      /\ WellOrdered(q)
      /\ GetsFirst(p) => GetsFirst(q)
      /\ AsksFirst(p) => AsksFirst(q)
  BY <1>1, <1>2, Inserting DEF Inserted
<1>4. GoOn(t, q)
  OBVIOUS
<1> HIDE DEF q
<1>5. todo' = [todo EXCEPT ![t] = q] /\ outcome' = outcome /\ running' = t
  BY <1>3, <1>4 DEF GoOn, Awaited
<1> QED
  BY <1>1, <1>3, <1>5 DEF q
(* The same with a step put before the rest.                                 *)
LEMMA ProgramInsert ==
  ASSUME TypeOK, ProgramInv, LockInv, NEW t \in Tasks, NEW x \in Steps, At(t, x),
         x \notin UnderLock \cup {"acquire"}, NEW y \in Inserted,
         x \in Getters => y \in Getters \/ held'[t] # NoChat,
         y = "list" => held[t] # NoChat,
         x # "get", UNCHANGED <<arg, want>>,
         \A u \in Tasks \ {t} : held'[u] = held[u] /\ outcome'[u] = outcome[u],
         held'[t] = NoChat => held[t] = NoChat,
         todo' = [todo EXCEPT ![t] = <<y>> \o Rest(t)],
         outcome'[t] = "none"
  PROVE  ProgramInv'
<1>1. /\ Rest(t) \in Seq(Steps) /\ WellOrdered(Rest(t)) /\ NoCloseNorFinish(Rest(t))
      /\ todo[t] \in Seq(Steps) /\ todo[t] # <<>> /\ Head(todo[t]) = x /\ ~Owes(Rest(t))
  BY StepFacts DEF Ends, UnderLock
<1> DEFINE q == <<y>> \o Rest(t)
<1>2. /\ q \in Seq(Steps) /\ WellOrdered(q)
      /\ GetsFirst(Rest(t)) /\ y # "list" => GetsFirst(q)
      /\ y \in Getters => GetsFirst(q)
      /\ AsksFirst(Rest(t)) => AsksFirst(q)
  BY <1>1, Inserting
<1>3. /\ held[t] = NoChat /\ x \notin Getters => GetsFirst(Rest(t))
      /\ AsksFirst(Rest(t)) \/ want[t] = arg[t]
  BY <1>1, RestGets DEF ProgramInv, ProgramOK, Rest
<1> HIDE DEF q
<1>4. /\ held'[t] = NoChat => GetsFirst(q)
      /\ AsksFirst(q) \/ want'[t] = arg'[t]
      /\ \A u \in Tasks \ {t} : want'[u] = want[u] /\ arg'[u] = arg[u]
      /\ outcome'[t] # "none" => q = <<>>
  BY <1>2, <1>3
<1>5. todo' = [todo EXCEPT ![t] = q]
  BY DEF q
<1> QED
  BY <1>2, <1>4, <1>5, ProgramFrame
LEMMA EmptyProgram ==
  /\ <<>> \in Seq(Steps) /\ WellOrdered(<<>>) /\ GetsFirst(<<>>) /\ AsksFirst(<<>>) /\ ~Owes(<<>>)
BY DEF WellOrdered, GetsFirst, AsksFirst, Owes

LEMMA FinishProgram ==
  LET q == <<"finish">>
  IN  q \in Seq(Steps) /\ WellOrdered(q) /\ AsksFirst(q) /\ Owes(q) /\ q # <<>> /\ Head(q) = "finish"
BY DEF WellOrdered, AsksFirst, Owes, Steps, Awaited, Ends, UnderLock

(* A request that ends.                                                      *)
LEMMA ProgramEnds ==
  ASSUME TypeOK, ProgramInv, NEW t \in Tasks, UNCHANGED <<arg, want, held>>,
         NEW r \in {"failed", "missing", "closed"}, End(t, r)
  PROVE  ProgramInv'
<1>1. /\ todo' = [todo EXCEPT ![t] = <<>>]
      /\ \A u \in Tasks \ {t} : outcome'[u] = outcome[u]
  BY DEF End, TypeOK
<1> QED
  BY <1>1, EmptyProgram, ProgramFrame

LEMMA ProgramInitially == Init => ProgramInv
<1> DEFINE q == <<"start">>
<1>1. q \in Seq(Steps) /\ WellOrdered(q) /\ GetsFirst(q) /\ AsksFirst(q)
  BY DEF WellOrdered, GetsFirst, AsksFirst, Owes, Steps, Awaited, Ends, UnderLock, Using
<1> HIDE DEF q
<1>2. Init => \A t \in Tasks : todo[t] = q /\ outcome[t] = "none"
  BY DEF Init, q
<1> QED
  BY <1>1, <1>2 DEF ProgramInv, ProgramOK

LEMMA ProgramStep ==
  ASSUME TypeOK, ProgramInv, LockInv, [Next]_vars
  PROVE  ProgramInv'
<1>1. CASE UNCHANGED vars
  BY <1>1 DEF vars, taskVars, ProgramInv, ProgramOK
<1>2. ASSUME NEW t \in Tasks, NEW op \in Ops, NEW s \in Ids, Start(t, op, s) PROVE ProgramInv'
  <2>1. /\ Program[op] \in Seq(Steps) /\ Program[op] # <<>> /\ WellOrdered(Program[op])
        /\ GetsFirst(Program[op]) /\ AsksFirst(Program[op])
    BY Programs, Constants
  <2>2. At(t, "start") /\ outcome[t] = "none"
    BY <1>2, StepFacts DEF Start
  <2>3. /\ todo' = [todo EXCEPT ![t] = Program[op]]
        /\ \A u \in Tasks \ {t} : outcome'[u] = outcome[u]
        /\ outcome'[t] # "none" => Program[op] = <<>>
    BY <1>2, <2>1, <2>2, Going DEF Start
  <2>4. UNCHANGED <<held, want>> /\ \A u \in Tasks \ {t} : arg'[u] = arg[u]
    BY <1>2 DEF Start, TypeOK
  <2> QED
    BY <2>1, <2>3, <2>4, ProgramFrame
<1>3. ASSUME NEW t \in Tasks, Want(t, "get", arg[t]) \/ Want(t, "active", active) PROVE ProgramInv'
  <2>1. PICK x \in {"get", "active"} : At(t, x) /\ (x = "get" => want' = [want EXCEPT ![t] = arg[t]])
    BY <1>3 DEF Want
  <2>2. /\ Rest(t) \in Seq(Steps) /\ WellOrdered(Rest(t)) /\ NoCloseNorFinish(Rest(t)) /\ outcome[t] = "none"
        /\ todo[t] \in Seq(Steps) /\ todo[t] # <<>> /\ Head(todo[t]) = x /\ ~Owes(Rest(t))
    BY <2>1, StepFacts DEF Ends, UnderLock
  <2> DEFINE q == <<"lookup">> \o Rest(t)
  <2>3. /\ q \in Seq(Steps) /\ q # <<>> /\ WellOrdered(q) /\ GetsFirst(q)
        /\ AsksFirst(Rest(t)) => AsksFirst(q)
    BY <2>2, Inserting DEF Inserted, Getters
  <2>4. AsksFirst(q) \/ want'[t] = arg[t]
    <3>1. CASE x = "active"
      BY <3>1, <2>2, <2>3, RestGets DEF ProgramInv, ProgramOK, Rest
    <3>2. CASE x = "get"
      BY <3>2, <2>1 DEF TypeOK
    <3> QED
      BY <3>1, <3>2
  <2>5. /\ GoOn(t, q) /\ UNCHANGED <<arg, held>> /\ \A u \in Tasks \ {t} : want'[u] = want[u]
    BY <1>3 DEF Want, TypeOK
  <2> HIDE DEF q
  <2>6. /\ todo' = [todo EXCEPT ![t] = q]
        /\ \A u \in Tasks \ {t} : outcome'[u] = outcome[u]
        /\ outcome'[t] # "none" => q = <<>>
    BY <2>2, <2>3, <2>5, Going
  <2> QED
    BY <2>3, <2>4, <2>5, <2>6, ProgramFrame
<1>4. ASSUME NEW t \in Tasks, Found(t) PROVE ProgramInv'
  <2>1. At(t, "lookup") /\ GoOn(t, Rest(t)) /\ UNCHANGED <<arg, want>>
    BY <1>4 DEF Found
  <2>2. /\ Rest(t) \in Seq(Steps) /\ WellOrdered(Rest(t)) /\ outcome[t] = "none"
        /\ todo[t] \in Seq(Steps) /\ todo[t] # <<>> /\ Head(todo[t]) = "lookup"
    BY <2>1, StepFacts
  <2>3. held'[t] # NoChat /\ \A u \in Tasks \ {t} : held'[u] = held[u]
    <3>1. EntryOf(want[t]).chat # NoChat
      BY <1>4, EntryFacts DEF Found
    <3> QED
      BY <1>4, <3>1 DEF Found, TypeOK
  <2>4. AsksFirst(Rest(t)) \/ want'[t] = arg'[t]
    BY <2>1, <2>2, RestGets DEF ProgramInv, ProgramOK, Rest
  <2>5. /\ todo' = [todo EXCEPT ![t] = Rest(t)]
        /\ \A u \in Tasks \ {t} : outcome'[u] = outcome[u]
        /\ outcome'[t] # "none" => Rest(t) = <<>>
    BY <2>1, <2>2, Going
  <2> QED
    BY <2>1, <2>2, <2>3, <2>4, <2>5, ProgramFrame
<1>5. ASSUME NEW t \in Tasks, NotFound(t) PROVE ProgramInv'
  <2>1. At(t, "lookup") /\ GoOn(t, <<"create">> \o Rest(t)) /\ UNCHANGED <<arg, want, held>>
    BY <1>5 DEF NotFound
  <2> QED
    BY <2>1, Insertion, ProgramInsert DEF Steps, Awaited, Inserted, Getters, UnderLock
<1>6. ASSUME NEW t \in Tasks, Created(t) PROVE ProgramInv'
  <2>1. At(t, "create") /\ GoOn(t, <<"evictLru">> \o Rest(t)) /\ UNCHANGED <<arg, want>>
    BY <1>6 DEF Created
  <2>2. held'[t] # NoChat /\ \A u \in Tasks \ {t} : held'[u] = held[u]
    <3>1. CASE Has(want[t])
      BY <1>6, <3>1, EntryFacts DEF Created, Duplicate, Registered, TypeOK
    <3>2. CASE ~Has(want[t])
      <4>1. made + 1 # NoChat
        BY Constants DEF TypeOK, NoChat
      <4> QED
        BY <1>6, <3>2, <4>1 DEF Created, Duplicate, TypeOK
    <3> QED
      BY <3>1, <3>2
  <2>3. /\ "create" \in Steps /\ "create" \notin UnderLock \cup {"acquire"} /\ "evictLru" \in Inserted
        /\ todo' = [todo EXCEPT ![t] = <<"evictLru">> \o Rest(t)] /\ outcome' = outcome /\ outcome[t] = "none"
    BY <2>1, Insertion DEF Steps, Awaited, Inserted, Getters, UnderLock
  <2> QED
    BY <2>1, <2>2, <2>3, ProgramInsert
<1>7. ASSUME NEW t \in Tasks, CreatedNew(t) PROVE ProgramInv'
  <2>1. At(t, "createNew") /\ GoOn(t, <<"evictLru">> \o Rest(t)) /\ UNCHANGED <<arg, want, held>>
    BY <1>7 DEF CreatedNew
  <2> QED
    BY <2>1, Insertion, ProgramInsert DEF Steps, Awaited, Inserted, Getters, UnderLock
<1>8. ASSUME NEW t \in Tasks, EvictLru(t) PROVE ProgramInv'
  <2>1. At(t, "evictLru") /\ UNCHANGED <<arg, want, held>>
    BY <1>8 DEF EvictLru
  <2>2. CASE GoOn(t, Rest(t))
    BY <2>1, <2>2, ProgramRest DEF Steps, Awaited, Getters
  <2>3. CASE GoOn(t, <<"close">> \o todo[t])
    BY <2>1, <2>3, CloseLru, ProgramFrame DEF ProgramInv, ProgramOK
  <2> QED
    BY <1>8, <2>2, <2>3 DEF EvictLru
<1>9. ASSUME NEW t \in Tasks, Evict(t) PROVE ProgramInv'
  <2>1. At(t, "evict") /\ UNCHANGED <<arg, want, held>>
        /\ (GoOn(t, Rest(t)) \/ GoOn(t, <<"close">> \o Rest(t)))
    BY <1>9 DEF Evict
  <2>2. CASE GoOn(t, Rest(t))
    BY <2>1, <2>2, ProgramRest DEF Steps, Awaited, Getters
  <2>3. CASE GoOn(t, <<"close">> \o Rest(t))
    <3>1. /\ "evict" \in Steps /\ "evict" \notin UnderLock \cup {"acquire"} \cup Getters
          /\ "close" \in Inserted /\ "evict" # "get" /\ "close" # "list"
      BY DEF Steps, Awaited, Inserted, Getters, UnderLock
    <3>2. todo' = [todo EXCEPT ![t] = <<"close">> \o Rest(t)] /\ outcome' = outcome /\ outcome[t] = "none"
      BY <2>1, <2>3, <3>1, Insertion
    <3> QED
      BY <2>1, <3>1, <3>2, ProgramInsert
  <2> QED
    BY <2>1, <2>2, <2>3
<1>10. ASSUME NEW t \in Tasks, LockToClose(t) PROVE ProgramInv'
  <2>1. At(t, "close") /\ UNCHANGED <<arg, want, held, outcome>>
        /\ todo' = [todo EXCEPT ![t] = <<"closing">> \o Rest(t)]
    BY <1>10 DEF LockToClose
  <2>2. outcome[t] = "none"
    BY <2>1, StepFacts
  <2>3. "close" \in Steps \ Getters /\ "close" \notin UnderLock \cup {"acquire"} /\ "closing" \in Inserted
    BY DEF Steps, Awaited, Inserted, Getters, UnderLock
  <2> QED
    BY <2>1, <2>2, <2>3, ProgramInsert
<1>11. ASSUME NEW t \in Tasks,
               Close(t) \/ SetCurrent(t) \/ Later(t) \/ Adopt(t) \/ Release(t) \/ Activate(t) \/ Rename(t)
       PROVE  ProgramInv'
  <2>1. PICK x \in {"closing", "current", "later", "adopt", "release", "activate", "rename"} : At(t, x)
    BY <1>11 DEF Close, SetCurrent, Later, Adopt, Release, Activate, Rename
  <2>2. GoOn(t, Rest(t)) /\ UNCHANGED <<arg, want, held>>
    BY <1>11 DEF Close, SetCurrent, Later, Adopt, Release, Activate, Rename
  <2>3. x \in Steps \ Getters
    BY DEF Steps, Awaited, Getters
  <2> QED
    BY <2>1, <2>2, <2>3, ProgramRest
<1>12. ASSUME NEW t \in Tasks, Exists(t) PROVE ProgramInv'
  <2>1. At(t, "exists") /\ UNCHANGED <<arg, want, held>>
        /\ (GoOn(t, Rest(t)) \/ GoOn(t, <<"list">> \o Rest(t)))
    BY <1>12 DEF Exists
  <2>2. held[t] # NoChat
    BY <2>1, StepFacts, Constants DEF Using
  <2>3. CASE GoOn(t, Rest(t))
    BY <2>1, <2>3, ProgramRest DEF Steps, Awaited, Getters
  <2>4. CASE GoOn(t, <<"list">> \o Rest(t))
    <3>1. /\ "exists" \in Steps /\ "exists" \notin UnderLock \cup {"acquire"} \cup Getters
          /\ "list" \in Inserted /\ "exists" # "get"
      BY DEF Steps, Awaited, Inserted, Getters, UnderLock
    <3>2. todo' = [todo EXCEPT ![t] = <<"list">> \o Rest(t)] /\ outcome' = outcome /\ outcome[t] = "none"
      BY <2>1, <2>4, <3>1, Insertion
    <3> QED
      BY <2>1, <2>2, <3>1, <3>2, ProgramInsert
  <2> QED
    BY <2>1, <2>3, <2>4
<1>13. ASSUME NEW t \in Tasks, List(t) \/ Read(t) \/ Erase(t) \/ Refuse(t) \/ TurnFails(t) \/ GiveUp(t)
       PROVE  ProgramInv'
  <2>1. /\ UNCHANGED <<arg, want, held>>
        /\ \/ \E r \in {"failed", "missing", "closed"} : End(t, r)
           \/ GoOn(t, Rest(t)) /\ \E x \in {"list", "read", "erase"} : At(t, x)
    BY <1>13 DEF List, Read, Erase, Refuse, TurnFails, GiveUp
  <2> QED
    BY <2>1, ProgramRest, ProgramEnds DEF Steps, Awaited, Getters
<1>14. ASSUME NEW t \in Tasks, Acquire(t) PROVE ProgramInv'
  <2>1. At(t, "acquire") /\ UNCHANGED <<arg, want, held, outcome>> /\ todo' = [todo EXCEPT ![t] = Rest(t)]
    BY <1>14 DEF Acquire
  <2>2. /\ Rest(t) \in Seq(Steps) /\ WellOrdered(Rest(t)) /\ outcome[t] = "none"
        /\ todo[t] \in Seq(Steps) /\ todo[t] # <<>> /\ Head(todo[t]) = "acquire"
    BY <2>1, StepFacts
  <2>3. /\ held'[t] = NoChat => GetsFirst(Rest(t))
        /\ AsksFirst(Rest(t)) \/ want'[t] = arg'[t]
    BY <2>1, <2>2, RestGets DEF ProgramInv, ProgramOK, Rest, Getters
  <2> QED
    BY <2>1, <2>2, <2>3, ProgramFrame
<1>15. ASSUME NEW t \in Tasks, Turn(t) PROVE ProgramInv'
  <2>1. At(t, "turn") /\ UNCHANGED <<arg, want, held>> /\ (End(t, "closed") \/ GoOn(t, <<"finish">>))
    BY <1>15 DEF Turn
  <2>2. CASE End(t, "closed")
    BY <2>1, <2>2, ProgramEnds
  <2>3. CASE GoOn(t, <<"finish">>)
    <3>1. outcome[t] = "none" /\ held[t] # NoChat
      BY <2>1, StepFacts, Constants DEF Using
    <3>2. /\ todo' = [todo EXCEPT ![t] = <<"finish">>] /\ outcome'[t] = "none"
          /\ \A u \in Tasks \ {t} : outcome'[u] = outcome[u]
      BY <2>3, <3>1, FinishProgram, Going
    <3> QED
      BY <2>1, <3>1, <3>2, FinishProgram, ProgramFrame
  <2> QED
    BY <2>1, <2>2, <2>3
<1>16. ASSUME NEW t \in Tasks, Finish(t) PROVE ProgramInv'
  <2>1. At(t, "finish") /\ UNCHANGED <<arg, want, held>> /\ GoOn(t, <<>>)
    BY <1>16 DEF Finish
  <2>2. /\ todo' = [todo EXCEPT ![t] = <<>>]
        /\ \A u \in Tasks \ {t} : outcome'[u] = outcome[u]
    BY <2>1, StepFacts, EmptyProgram, Going
  <2> QED
    BY <2>1, <2>2, EmptyProgram, ProgramFrame
<1> QED
  BY <1>1, <1>2, <1>3, <1>4, <1>5, <1>6, <1>7, <1>8, <1>9, <1>10, <1>11, <1>12, <1>13, <1>14, <1>15, <1>16
  DEF Next, Step, Get

-----------------------------------------------------------------------------
(* The entries after a lookup, an eviction and a registration.               *)
LEMMA EntriesFacts ==
  ASSUME TypeOK, PoolInv, NEW s
  PROVE  /\ Without(s) \in Seq(Entry) /\ IsInjective(Without(s))
         /\ Has(s) => /\ Range(Without(s)) = Pool \ {EntryOf(s)} /\ Len(Without(s)) = Len(entries) - 1
                      /\ Touch(s) \in Seq(Entry) /\ IsInjective(Touch(s))
                      /\ Range(Touch(s)) = Pool /\ Len(Touch(s)) = Len(entries)
         /\ ~Has(s) => Without(s) = entries
         /\ Has(s) <=> \E e \in Pool : e.sid = s
         /\ Len(entries) \in Nat /\ Pool \subseteq Entry
<1>1. entries \in Seq(Entry) /\ IsInjective(entries)
  BY DEF TypeOK, PoolInv
<1>2. Len(entries) \in Nat /\ Pool \subseteq Entry /\ DOMAIN entries = 1..Len(entries)
  BY <1>1, InRange DEF Pool
<1>3. Has(s) <=> \E e \in Pool : e.sid = s
  BY DEF Has, Pool, Range
<1>4. CASE ~Has(s)
  <2>1. Without(s) = entries
    BY <1>4 DEF Without
  <2> QED
    BY <2>1, <1>1, <1>2, <1>3, <1>4
<1>5. CASE Has(s)
  <2> DEFINE q == RemoveAt(entries, PlaceOf(s))
  <2>1. PlaceOf(s) \in 1..Len(entries) /\ EntryOf(s) = entries[PlaceOf(s)] /\ EntryOf(s) \in Entry /\ EntryOf(s) \in Pool
    BY <1>5, EntryFacts
  <2>2. q \in Seq(Entry) /\ Len(q) = Len(entries) - 1 /\ Range(q) = Pool \ {EntryOf(s)} /\ IsInjective(q)
    BY <1>1, <2>1, Removing DEF Pool
  <2>3. Without(s) = q
    BY <1>5 DEF Without
  <2> HIDE DEF q
  <2>4. EntryOf(s) \notin Range(q)
    BY <2>2
  <2>5. /\ Append(q, EntryOf(s)) \in Seq(Entry) /\ Len(Append(q, EntryOf(s))) = Len(q) + 1
        /\ Range(Append(q, EntryOf(s))) = Range(q) \cup {EntryOf(s)} /\ IsInjective(Append(q, EntryOf(s)))
    BY <2>1, <2>2, <2>4, Appending
  <2>6. Touch(s) = Append(q, EntryOf(s))
    BY <2>3 DEF Touch
  <2>7. Range(Touch(s)) = (Pool \ {EntryOf(s)}) \cup {EntryOf(s)} /\ Len(Touch(s)) = Len(entries) - 1 + 1
    BY <2>2, <2>5, <2>6
  <2> HIDE DEF Pool
  <2>8. Range(Touch(s)) = Pool
    BY <2>1, <2>7
  <2>9. Len(Touch(s)) = Len(entries)
    BY <1>2, <2>7
  <2> QED
    BY <1>2, <1>3, <1>5, <2>2, <2>3, <2>5, <2>6, <2>8, <2>9
<1> QED
  BY <1>4, <1>5

(* A step that takes no instance in or out: what it leaves of the request.   *)
QuietStep(t, q) ==
  /\ todo[t] # <<>> /\ ~Next1(t, {"close", "closing"}) /\ (Next1(t, {"evictLru"}) => ~TooMany)
  /\ q \in Seq(Steps) /\ (q # <<>> => Head(q) \notin {"close", "closing"})
  /\ todo' = [todo EXCEPT ![t] = q]
  /\ Range(entries') = Pool /\ Len(entries') = Len(entries) /\ IsInjective(entries')
  /\ UNCHANGED <<made, closed, victim>> /\ issued \subseteq issued' /\ gone \subseteq gone'
  /\ running \in {t, NoTask} /\ running' \in {t, NoTask}

QuietAction(t) ==
  \/ \E op \in Ops, s \in Ids : Start(t, op, s)
  \/ Get(t) \/ Found(t) \/ NotFound(t) \/ SetCurrent(t) \/ Later(t) \/ Exists(t) \/ List(t)
  \/ Read(t) \/ Adopt(t) \/ Acquire(t) \/ Release(t) \/ Activate(t) \/ Erase(t) \/ Rename(t)
  \/ Turn(t) \/ Refuse(t) \/ Finish(t) \/ TurnFails(t) \/ GiveUp(t)
  \/ EvictLru(t) /\ ~TooMany
  \/ Evict(t) /\ ~Has(arg[t])

LEMMA QuietActions ==
  ASSUME TypeOK, ProgramInv, LockInv, PoolInv, NEW t \in Tasks, QuietAction(t)
  PROVE  \E q \in Seq(Steps) : QuietStep(t, q)
<1> DEFINE Books ==
      /\ Range(entries') = Pool /\ Len(entries') = Len(entries) /\ IsInjective(entries')
      /\ UNCHANGED <<made, closed, victim>> /\ issued \subseteq issued' /\ gone \subseteq gone'
    Stay(q) ==
      /\ q \in Seq(Steps) /\ (q # <<>> => Head(q) \notin {"close", "closing"})
      /\ todo' = [todo EXCEPT ![t] = q] /\ running' \in {t, NoTask}
<1>a. Books
  <2>1. UNCHANGED entries => Range(entries') = Pool /\ Len(entries') = Len(entries) /\ IsInjective(entries')
    BY DEF Pool, PoolInv
  <2>2. Found(t) => /\ Range(entries') = Pool /\ Len(entries') = Len(entries) /\ IsInjective(entries')
                    /\ UNCHANGED <<made, closed, victim, issued, gone>>
    BY EntriesFacts DEF Found, chatVars, history
  <2>3. ASSUME ~Found(t)
        PROVE  UNCHANGED <<entries, made, closed, victim>> /\ issued \subseteq issued' /\ gone \subseteq gone'
    <3> USE DEF poolVars, chatVars, history
    <3>1. ASSUME NEW op \in Ops, NEW s \in Ids, Start(t, op, s)
          PROVE  UNCHANGED <<entries, made, closed, victim>> /\ issued \subseteq issued' /\ gone \subseteq gone'
      BY <3>1 DEF Start
    <3>2. ASSUME Get(t) \/ NotFound(t) \/ SetCurrent(t) \/ Later(t) \/ Exists(t) \/ List(t) \/ Read(t) \/ Adopt(t)
          PROVE  UNCHANGED <<entries, made, closed, victim>> /\ issued \subseteq issued' /\ gone \subseteq gone'
      BY <3>2 DEF Get, Want, NotFound, SetCurrent, Later, Exists, List, Read, Adopt
    <3>3. ASSUME Acquire(t) \/ Release(t) \/ Activate(t) \/ Erase(t) \/ Rename(t)
          PROVE  UNCHANGED <<entries, made, closed, victim>> /\ issued \subseteq issued' /\ gone \subseteq gone'
      BY <3>3 DEF Acquire, Release, Activate, Erase, Rename
    <3>4. ASSUME Turn(t) \/ Refuse(t) \/ Finish(t) \/ TurnFails(t) \/ GiveUp(t)
          PROVE  UNCHANGED <<entries, made, closed, victim>> /\ issued \subseteq issued' /\ gone \subseteq gone'
      BY <3>4 DEF Turn, Refuse, Finish, TurnFails, GiveUp
    <3>5. ASSUME (EvictLru(t) /\ ~TooMany) \/ (Evict(t) /\ ~Has(arg[t]))
          PROVE  UNCHANGED <<entries, made, closed, victim>> /\ issued \subseteq issued' /\ gone \subseteq gone'
      BY <3>5 DEF EvictLru, Evict
    <3> QED
      BY <2>3, <3>1, <3>2, <3>3, <3>4, <3>5 DEF QuietAction
  <2>4. CASE Found(t)
    BY <2>2, <2>4
  <2>5. CASE ~Found(t)
    BY <2>1, <2>3, <2>5
  <2> QED
    BY <2>4, <2>5
<1> HIDE DEF Books
<1>b. ASSUME NEW x \in Steps \ {"close", "closing"}, At(t, x), x = "evictLru" => ~TooMany,
             NEW q, Stay(q)
      PROVE  QuietStep(t, q)
  <2>1. todo[t] # <<>> /\ Head(todo[t]) = x /\ running \in {t, NoTask}
    BY <1>b, StepFacts
  <2> QED
    BY <1>a, <1>b, <2>1 DEF QuietStep, Books, Next1
<1>c. ASSUME NEW x \in Steps, At(t, x), GoOn(t, Rest(t)) PROVE Stay(Rest(t))
  <2>1. Rest(t) \in Seq(Steps) /\ NoCloseNorFinish(Rest(t)) /\ outcome[t] = "none"
    BY <1>c, StepFacts
  <2>2. todo' = [todo EXCEPT ![t] = Rest(t)] /\ running' \in {t, NoTask}
    BY <1>c, <2>1, Going
  <2>3. Rest(t) # <<>> => Head(Rest(t)) \notin {"close", "closing"}
    BY <2>1, HeadOfRest
  <2> QED
    BY <2>1, <2>2, <2>3
<1>d. ASSUME NEW r, End(t, r) PROVE Stay(<<>>)
  BY <1>d, EmptyProgram DEF End
<1>e. ASSUME NEW x \in Steps, At(t, x), x \notin UnderLock \cup {"acquire"}, NEW y \in {"lookup", "create", "list"},
             GoOn(t, <<y>> \o Rest(t))
      PROVE  Stay(<<y>> \o Rest(t))
  <2>1. y \in Inserted
    BY DEF Inserted
  <2>2. /\ <<y>> \o Rest(t) \in Seq(Steps) /\ Head(<<y>> \o Rest(t)) = y
        /\ todo' = [todo EXCEPT ![t] = <<y>> \o Rest(t)]
        /\ running' = IF y \in Awaited THEN NoTask ELSE t
    BY <1>e, <2>1, Insertion
  <2> QED
    BY <2>2
<1> HIDE DEF Stay
<1>1. ASSUME NEW op \in Ops, NEW s \in Ids, Start(t, op, s) PROVE \E q \in Seq(Steps) : QuietStep(t, q)
  <2>1. At(t, "start") /\ outcome[t] = "none" /\ GoOn(t, Program[op])
    BY <1>1, StepFacts DEF Start
  <2>2. Program[op] \in Seq(Steps) /\ Program[op] # <<>> /\ Head(Program[op]) \in {"get", "active"}
    BY Programs, Constants
  <2>3. todo' = [todo EXCEPT ![t] = Program[op]] /\ running' \in {t, NoTask}
    BY <2>1, <2>2, Going
  <2> HIDE DEF Program
  <2>4. Stay(Program[op])
    BY <2>2, <2>3 DEF Stay
  <2>5. QuietStep(t, Program[op])
    BY <2>1, <2>4, <1>b DEF Steps, Awaited
  <2> QED
    BY <2>2, <2>5
<1>2. ASSUME Get(t) PROVE \E q \in Seq(Steps) : QuietStep(t, q)
  <2>1. PICK x \in {"get", "active"} : At(t, x) /\ GoOn(t, <<"lookup">> \o Rest(t))
    BY <1>2 DEF Get, Want
  <2>2. x \in Steps \ {"close", "closing"} /\ x # "evictLru" /\ x \notin UnderLock \cup {"acquire"}
    BY DEF Steps, UnderLock
  <2>3. Stay(<<"lookup">> \o Rest(t))
    BY <2>1, <2>2, <1>e
  <2>4. QuietStep(t, <<"lookup">> \o Rest(t))
    BY <2>1, <2>2, <2>3, <1>b
  <2> QED
    BY <2>3, <2>4 DEF Stay
<1>3. ASSUME NotFound(t) \/ Exists(t) PROVE \E q \in Seq(Steps) : QuietStep(t, q)
  <2>1. PICK x \in {"lookup", "exists"}, y \in {"create", "list"} :
          At(t, x) /\ (GoOn(t, <<y>> \o Rest(t)) \/ GoOn(t, Rest(t)))
    BY <1>3 DEF NotFound, Exists
  <2>2. x \in Steps \ {"close", "closing"} /\ x # "evictLru" /\ x \notin UnderLock \cup {"acquire"}
    BY DEF Steps, UnderLock
  <2>3. CASE GoOn(t, <<y>> \o Rest(t))
    <3>1. Stay(<<y>> \o Rest(t))
      BY <2>1, <2>2, <2>3, <1>e
    <3>2. QuietStep(t, <<y>> \o Rest(t))
      BY <2>1, <2>2, <3>1, <1>b
    <3> QED
      BY <3>1, <3>2 DEF Stay
  <2>4. CASE GoOn(t, Rest(t))
    <3>1. Stay(Rest(t))
      BY <2>1, <2>2, <2>4, <1>c
    <3>2. QuietStep(t, Rest(t))
      BY <2>1, <2>2, <3>1, <1>b
    <3> QED
      BY <3>1, <3>2 DEF Stay
  <2> QED
    BY <2>1, <2>3, <2>4
<1>4. ASSUME \/ Found(t) \/ SetCurrent(t) \/ Later(t) \/ List(t) \/ Read(t) \/ Adopt(t) \/ Release(t)
             \/ Activate(t) \/ Erase(t) \/ Rename(t) \/ Refuse(t) \/ TurnFails(t)
      PROVE  \E q \in Seq(Steps) : QuietStep(t, q)
  <2>1. PICK x \in {"lookup", "current", "later", "list", "read", "adopt", "release", "activate", "erase",
                    "rename", "turn", "finish"} :
          At(t, x) /\ (GoOn(t, Rest(t)) \/ \E r \in {"failed", "missing", "closed"} : End(t, r))
    <3>1. CASE Found(t) \/ SetCurrent(t) \/ Later(t) \/ List(t) \/ Read(t) \/ Adopt(t)
      BY <3>1 DEF Found, SetCurrent, Later, List, Read, Adopt
    <3>2. CASE Release(t) \/ Activate(t) \/ Erase(t) \/ Rename(t) \/ Refuse(t) \/ TurnFails(t)
      BY <3>2 DEF Release, Activate, Erase, Rename, Refuse, TurnFails
    <3> QED
      BY <1>4, <3>1, <3>2
  <2>2. x \in Steps \ {"close", "closing"} /\ x # "evictLru"
    BY DEF Steps, Awaited
  <2>3. PICK q \in {<<>>, Rest(t)} : Stay(q)
    BY <2>1, <2>2, <1>c, <1>d
  <2>4. QuietStep(t, q)
    BY <2>1, <2>2, <2>3, <1>b
  <2> QED
    BY <2>3, <2>4 DEF Stay
<1>5. ASSUME GiveUp(t) PROVE \E q \in Seq(Steps) : QuietStep(t, q)
  <2>1. running = NoTask /\ todo[t] = <<"turn">> /\ End(t, "failed")
    BY <1>5 DEF GiveUp, Free
  <2>2. todo[t] # <<>> /\ Head(todo[t]) = "turn"
    BY <2>1
  <2>3. Stay(<<>>)
    BY <2>1, <1>d
  <2>4. QuietStep(t, <<>>)
    BY <2>1, <2>2, <2>3, <1>a DEF QuietStep, Next1, Books, Stay
  <2> QED
    BY <2>4, EmptyProgram
<1>6. ASSUME Acquire(t) PROVE \E q \in Seq(Steps) : QuietStep(t, q)
  <2>1. At(t, "acquire") /\ todo' = [todo EXCEPT ![t] = Rest(t)] /\ running' \in {t, NoTask}
    BY <1>6 DEF Acquire
  <2>2. Rest(t) \in Seq(Steps) /\ NoCloseNorFinish(Rest(t))
    BY <2>1, StepFacts
  <2>3. Stay(Rest(t))
    BY <2>1, <2>2, HeadOfRest DEF Stay
  <2>4. QuietStep(t, Rest(t))
    BY <2>1, <2>3, <1>b DEF Steps
  <2> QED
    BY <2>2, <2>4
<1>7. ASSUME Turn(t) \/ Finish(t) PROVE \E q \in Seq(Steps) : QuietStep(t, q)
  <2>1. PICK x \in {"turn", "finish"}, q \in {<<>>, <<"finish">>} : 
          At(t, x) /\ (GoOn(t, q) \/ (End(t, "closed") /\ q = <<>>))
    BY <1>7 DEF Turn, Finish
  <2>2. q \in Seq(Steps) /\ (q # <<>> => Head(q) = "finish")
    BY EmptyProgram, FinishProgram
  <2>3. outcome[t] = "none" /\ x \in Steps \ {"close", "closing"} /\ x # "evictLru"
    BY <2>1, StepFacts DEF Steps, Awaited
  <2>4. todo' = [todo EXCEPT ![t] = q] /\ running' \in {t, NoTask}
    BY <2>1, <2>2, <2>3, Going
  <2>5. QuietStep(t, q)
    BY <2>1, <2>2, <2>3, <2>4, <1>b DEF Stay
  <2> QED
    BY <2>2, <2>5
<1>8. ASSUME (EvictLru(t) /\ ~TooMany) \/ (Evict(t) /\ ~Has(arg[t]))
      PROVE  \E q \in Seq(Steps) : QuietStep(t, q)
  <2>1. PICK x \in {"evictLru", "evict"} : At(t, x) /\ GoOn(t, Rest(t)) /\ (x = "evictLru" => ~TooMany)
    BY <1>8 DEF EvictLru, Evict
  <2>2. x \in Steps \ {"close", "closing"}
    BY DEF Steps
  <2>3. Stay(Rest(t))
    BY <2>1, <2>2, <1>c
  <2>4. QuietStep(t, Rest(t))
    BY <2>1, <2>2, <2>3, <1>b
  <2> QED
    BY <2>3, <2>4 DEF Stay
<1> QED
  BY <1>1, <1>2, <1>3, <1>4, <1>5, <1>6, <1>7, <1>8 DEF QuietAction

-----------------------------------------------------------------------------
(* The books of the pool.                                                    *)
LEMMA PoolFrame ==
  ASSUME TypeOK, PoolInv, NEW t \in Tasks, NEW q, QuietStep(t, q)
  PROVE  PoolInv'
<1>1. /\ todo[t] # <<>> /\ ~Next1(t, {"close", "closing"}) /\ (Next1(t, {"evictLru"}) => ~TooMany)
      /\ (q # <<>> => Head(q) \notin {"close", "closing"})
      /\ todo'[t] = q /\ \A u \in Tasks \ {t} : todo'[u] = todo[u]
      /\ Pool' = Pool /\ Len(entries') = Len(entries) /\ IsInjective(entries')
      /\ made' = made /\ closed' = closed /\ victim' = victim /\ issued \subseteq issued'
      /\ running \in {t, NoTask}
  BY DEF QuietStep, TypeOK, Pool
<1>2. KnownIds \subseteq KnownIds'
  BY <1>1 DEF KnownIds
<1>3. \A u \in Tasks : Next1(u, {"close", "closing"})' <=> Next1(u, {"close", "closing"})
  <2> SUFFICES ASSUME NEW u \in Tasks PROVE Next1(u, {"close", "closing"})' <=> Next1(u, {"close", "closing"})
    OBVIOUS
  <2>1. CASE u = t
    BY <1>1, <2>1 DEF Next1
  <2>2. CASE u # t
    BY <1>1, <2>2 DEF Next1
  <2> QED
    BY <2>1, <2>2
<1>4. Len(entries) =< MaxSize
  <2>1. CASE running = NoTask
    BY <2>1 DEF PoolInv
  <2>2. CASE running = t
    <3>1. Next1(t, {"evictLru"}) => Len(entries) =< MaxSize
      BY <1>1, EntriesFacts, Constants DEF TooMany
    <3> QED
      BY <3>1, <2>2 DEF PoolInv
  <2> QED
    BY <1>1, <2>1, <2>2
<1>5. /\ (\A e, f \in Pool : e.sid = f.sid \/ e.chat = f.chat => e = f)'
      /\ IsInjective(entries)'
      /\ (closed \subseteq 1..made)'
      /\ (Len(entries) =< MaxSize)'
  BY <1>1, <1>4 DEF PoolInv
<1>6. (\A e \in Pool : e.chat \in 1..made /\ e.chat \notin closed /\ e.sid \in KnownIds)'
  BY <1>1, <1>2 DEF PoolInv
<1>7. (\A u \in Tasks : victim[u].chat # NoChat =>
         /\ victim[u].chat \in 1..made /\ victim[u].chat \notin closed
         /\ \A e \in Pool : e.chat # victim[u].chat
         /\ \A v \in Tasks : victim[v].chat = victim[u].chat => v = u)'
  BY <1>1 DEF PoolInv
<1>8. (\A u \in Tasks : victim[u].chat # NoChat <=> Next1(u, {"close", "closing"}))'
  BY <1>1, <1>3 DEF PoolInv
<1>9. (\A c \in 1..made : c \in closed \/ Closing(c) \/ \E e \in Pool : e.chat = c)'
  BY <1>1 DEF PoolInv, Closing
<1> QED
  BY <1>5, <1>6, <1>7, <1>8, <1>9 DEF PoolInv

LEMMA NewEntry ==
  ASSUME TypeOK, PoolInv, NEW s \in Ids, ~Has(s), made < MaxChats,
         entries' = Append(Without(s), [sid |-> s, chat |-> made + 1])
  PROVE  /\ [sid |-> s, chat |-> made + 1] \in Entry /\ [sid |-> s, chat |-> made + 1] \notin Pool
         /\ Pool' = Pool \cup {[sid |-> s, chat |-> made + 1]}
         /\ IsInjective(entries') /\ entries' \in Seq(Entry) /\ Len(entries') = Len(entries) + 1
         /\ \A f \in Pool : f.sid # s /\ f.chat # made + 1
<1> DEFINE e == [sid |-> s, chat |-> made + 1]
<1>1. made + 1 \in Chats /\ made \in Nat
  BY Constants DEF TypeOK, Chats
<1>2. e \in Entry /\ e.sid = s /\ e.chat = made + 1
  BY <1>1 DEF Entry
<1>3. Without(s) = entries /\ entries \in Seq(Entry) /\ IsInjective(entries) /\ \A f \in Pool : f.sid # s
  BY EntriesFacts DEF TypeOK, PoolInv
<1>4. \A f \in Pool : f.chat # made + 1
  BY <1>1 DEF PoolInv
<1> HIDE DEF e
<1>5. e \notin Pool
  BY <1>2, <1>3
<1>6. entries' = Append(entries, e)
  BY <1>3 DEF e
<1>7. /\ entries' \in Seq(Entry) /\ Len(entries') = Len(entries) + 1
      /\ Range(entries') = Range(entries) \cup {e} /\ IsInjective(entries')
  BY <1>2, <1>3, <1>5, <1>6, Appending DEF Pool
<1> QED
  BY <1>2, <1>3, <1>4, <1>5, <1>7 DEF Pool, e

(* An instance that did not exist before becomes the entry of a session.     *)
LEMMA Registering ==
  ASSUME TypeOK, PoolInv, NEW t \in Tasks, NEW q, NEW s \in Ids, ~Has(s), s \in KnownIds',
         made < MaxChats, made' = made + 1, UNCHANGED <<closed, victim>>, issued \subseteq issued',
         entries' = Append(Without(s), [sid |-> s, chat |-> made + 1]),
         todo[t] # <<>>, ~Next1(t, {"close", "closing", "evictLru"}), running \in {t, NoTask},
         todo' = [todo EXCEPT ![t] = q], q # <<>>, Head(q) = "evictLru", running' = t
  PROVE  PoolInv'
<1> DEFINE e == [sid |-> s, chat |-> made + 1]
<1>1. /\ e \notin Pool /\ Pool' = Pool \cup {e} /\ e.sid = s /\ e.chat = made + 1
      /\ IsInjective(entries') /\ entries' \in Seq(Entry) /\ Len(entries') = Len(entries) + 1
      /\ \A f \in Pool : f.sid # s /\ f.chat # made + 1
  BY NewEntry
<1> HIDE DEF e
<1>2. /\ todo'[t] = q /\ \A u \in Tasks \ {t} : todo'[u] = todo[u]
      /\ made \in Nat /\ made' = made + 1 /\ 1..made \subseteq 1..made' /\ made + 1 \in 1..made'
      /\ \A c \in 1..made' : c \in 1..made \/ c = made + 1
      /\ made + 1 \notin 1..made
      /\ KnownIds \subseteq KnownIds'
  BY DEF TypeOK, KnownIds
<1>3. (\A f, g \in Pool : f.sid = g.sid \/ f.chat = g.chat => f = g)'
  BY <1>1 DEF PoolInv
<1>4. (\A f \in Pool : f.chat \in 1..made /\ f.chat \notin closed /\ f.sid \in KnownIds)'
  <2>1. e.chat \in 1..made' /\ e.chat \notin closed' /\ e.sid \in KnownIds'
    BY <1>1, <1>2 DEF PoolInv
  <2>2. \A f \in Pool : f.chat \in 1..made' /\ f.chat \notin closed' /\ f.sid \in KnownIds'
    BY <1>2 DEF PoolInv
  <2> QED
    BY <1>1, <2>1, <2>2
<1>5. (closed \subseteq 1..made)'
  BY <1>2 DEF PoolInv
<1>6. (\A u \in Tasks : victim[u].chat # NoChat =>
         /\ victim[u].chat \in 1..made /\ victim[u].chat \notin closed
         /\ \A f \in Pool : f.chat # victim[u].chat
         /\ \A v \in Tasks : victim[v].chat = victim[u].chat => v = u)'
  <2> SUFFICES ASSUME NEW u \in Tasks, victim[u].chat # NoChat
               PROVE  /\ victim[u].chat \in 1..made' /\ victim[u].chat \notin closed
                      /\ \A f \in Pool' : f.chat # victim[u].chat
                      /\ \A v \in Tasks : victim[v].chat = victim[u].chat => v = u
    OBVIOUS
  <2>1. /\ victim[u].chat \in 1..made /\ victim[u].chat \notin closed
        /\ \A f \in Pool : f.chat # victim[u].chat
        /\ \A v \in Tasks : victim[v].chat = victim[u].chat => v = u
    BY DEF PoolInv
  <2> QED
    BY <1>1, <1>2, <2>1
<1>7. (\A u \in Tasks : victim[u].chat # NoChat <=> Next1(u, {"close", "closing"}))'
  <2> SUFFICES ASSUME NEW u \in Tasks PROVE victim[u].chat # NoChat <=> Next1(u, {"close", "closing"})'
    OBVIOUS
  <2>1. victim[u].chat # NoChat <=> Next1(u, {"close", "closing"})
    BY DEF PoolInv
  <2>2. CASE u = t
    BY <1>2, <2>1, <2>2 DEF Next1
  <2>3. CASE u # t
    BY <1>2, <2>1, <2>3 DEF Next1
  <2> QED
    BY <2>2, <2>3
<1>8. (\A c \in 1..made : c \in closed \/ Closing(c) \/ \E f \in Pool : f.chat = c)'
  <2> SUFFICES ASSUME NEW c \in 1..made' PROVE c \in closed \/ Closing(c)' \/ \E f \in Pool' : f.chat = c
    OBVIOUS
  <2>1. CASE c \in 1..made
    BY <2>1, <1>1 DEF PoolInv, Closing
  <2>2. CASE c = made + 1
    BY <2>2, <1>1
  <2> QED
    BY <1>2, <2>1, <2>2
<1>9. (Len(entries) =< MaxSize \/ (Len(entries) = MaxSize + 1 /\ running # NoTask /\ Next1(running, {"evictLru"})))'
  <2>1. Len(entries) =< MaxSize
    BY DEF PoolInv, Next1
  <2>2. running' # NoTask /\ Next1(running, {"evictLru"})'
    BY <1>2, Constants DEF Next1
  <2>3. Len(entries) \in Nat /\ MaxSize \in Nat
    BY EntriesFacts, Constants
  <2>4. Len(entries') =< MaxSize \/ Len(entries') = MaxSize + 1
    BY <1>1, <2>1, <2>3
  <2> QED
    BY <2>2, <2>4
<1> QED
  BY <1>1, <1>3, <1>4, <1>5, <1>6, <1>7, <1>8, <1>9 DEF PoolInv

(* An entry is taken out to be closed.                                       *)
LEMMA Evicting ==
  ASSUME TypeOK, PoolInv, NEW t \in Tasks, NEW q, NEW e \in Pool,
         Pool' = Pool \ {e}, IsInjective(entries'), Len(entries') = Len(entries) - 1,
         victim' = [victim EXCEPT ![t] = e], UNCHANGED <<made, closed, issued>>,
         ~Next1(t, {"close", "closing"}),
         todo' = [todo EXCEPT ![t] = q], q # <<>>, Head(q) = "close"
  PROVE  PoolInv'
<1>1. /\ todo'[t] = q /\ \A u \in Tasks \ {t} : todo'[u] = todo[u]
      /\ victim'[t] = e /\ \A u \in Tasks \ {t} : victim'[u] = victim[u]
      /\ e \in Entry /\ e.chat # NoChat /\ KnownIds' = KnownIds
  BY EntriesFacts, Constants DEF TypeOK, KnownIds, Entry
<1>2. victim[t].chat = NoChat
  BY DEF PoolInv
<1>3. /\ (\A f, g \in Pool : f.sid = g.sid \/ f.chat = g.chat => f = g)'
      /\ (\A f \in Pool : f.chat \in 1..made /\ f.chat \notin closed /\ f.sid \in KnownIds)'
      /\ (closed \subseteq 1..made)'
  BY <1>1 DEF PoolInv
<1>4. (\A u \in Tasks : victim[u].chat # NoChat =>
         /\ victim[u].chat \in 1..made /\ victim[u].chat \notin closed
         /\ \A f \in Pool : f.chat # victim[u].chat
         /\ \A v \in Tasks : victim[v].chat = victim[u].chat => v = u)'
  <2>1. /\ e.chat \in 1..made /\ e.chat \notin closed
        /\ \A f \in Pool : f.chat = e.chat => f = e
        /\ \A u \in Tasks \ {t} : victim[u].chat # e.chat
    BY <1>1 DEF PoolInv
  <2> SUFFICES ASSUME NEW u \in Tasks, victim'[u].chat # NoChat
               PROVE  /\ victim'[u].chat \in 1..made /\ victim'[u].chat \notin closed
                      /\ \A f \in Pool' : f.chat # victim'[u].chat
                      /\ \A v \in Tasks : victim'[v].chat = victim'[u].chat => v = u
    OBVIOUS
  <2>2. CASE u = t
    BY <1>1, <2>1, <2>2
  <2>3. CASE u # t
    <3>1. /\ victim[u].chat \in 1..made /\ victim[u].chat \notin closed
          /\ \A f \in Pool : f.chat # victim[u].chat
          /\ \A v \in Tasks : victim[v].chat = victim[u].chat => v = u
      BY <1>1, <2>3 DEF PoolInv
    <3> QED
      BY <1>1, <2>3, <2>1, <3>1
  <2> QED
    BY <2>2, <2>3
<1>5. (\A u \in Tasks : victim[u].chat # NoChat <=> Next1(u, {"close", "closing"}))'
  <2> SUFFICES ASSUME NEW u \in Tasks PROVE victim'[u].chat # NoChat <=> Next1(u, {"close", "closing"})'
    OBVIOUS
  <2>1. victim[u].chat # NoChat <=> Next1(u, {"close", "closing"})
    BY DEF PoolInv
  <2>2. CASE u = t
    BY <1>1, <2>2 DEF Next1
  <2>3. CASE u # t
    BY <1>1, <2>1, <2>3 DEF Next1
  <2> QED
    BY <2>2, <2>3
<1>6. (\A c \in 1..made : c \in closed \/ Closing(c) \/ \E f \in Pool : f.chat = c)'
  <2> SUFFICES ASSUME NEW c \in 1..made
               PROVE  c \in closed \/ (\E u \in Tasks : victim'[u].chat = c) \/ \E f \in Pool' : f.chat = c
    BY DEF Closing
  <2>1. CASE c \in closed
    BY <2>1
  <2>2. CASE Closing(c)
    <3>1. PICK u \in Tasks : victim[u].chat = c
      BY <2>2 DEF Closing
    <3>2. u # t
      BY <3>1, <1>2 DEF NoChat
    <3> QED
      BY <3>1, <3>2, <1>1
  <2>3. CASE \E f \in Pool : f.chat = c
    BY <2>3, <1>1
  <2> QED
    BY <2>1, <2>2, <2>3 DEF PoolInv
<1>7. (Len(entries) =< MaxSize)'
  BY EntriesFacts, Constants DEF PoolInv
<1> QED
  BY <1>3, <1>4, <1>5, <1>6, <1>7 DEF PoolInv

(* The entry that _evict_lru takes out.                                      *)
LEMMA Oldest ==
  ASSUME TypeOK, PoolInv, TooMany
  PROVE  /\ Head(entries) \in Pool /\ Head(entries) \in Entry
         /\ Tail(entries) \in Seq(Entry) /\ IsInjective(Tail(entries))
         /\ Range(Tail(entries)) = Pool \ {Head(entries)} /\ Len(Tail(entries)) = Len(entries) - 1
<1>1. entries \in Seq(Entry) /\ IsInjective(entries) /\ Len(entries) > 0
  BY EntriesFacts, Constants DEF TypeOK, PoolInv, TooMany
<1>2. entries # <<>>
  BY <1>1, EmptySeq
<1>3. /\ Head(entries) \in Entry /\ Tail(entries) \in Seq(Entry) /\ IsInjective(Tail(entries))
      /\ Len(Tail(entries)) = Len(entries) - 1
      /\ Pool = Range(Tail(entries)) \cup {Head(entries)} /\ Head(entries) \notin Range(Tail(entries))
  BY <1>1, <1>2, Tailing DEF Pool
<1> QED
  BY <1>3

(* An instance that was built in vain is closed at once.                     *)
LEMMA Discarding ==
  ASSUME TypeOK, PoolInv, NEW t \in Tasks, NEW q, Pool' = Pool, IsInjective(entries'), Len(entries') = Len(entries),
         made < MaxChats, made' = made + 1, closed' = closed \cup {made + 1}, UNCHANGED <<victim, issued>>,
         todo[t] # <<>>, ~Next1(t, {"close", "closing", "evictLru"}), running \in {t, NoTask},
         todo' = [todo EXCEPT ![t] = q], q # <<>>, Head(q) = "evictLru"
  PROVE  PoolInv'
<1>1. /\ todo'[t] = q /\ \A u \in Tasks \ {t} : todo'[u] = todo[u]
      /\ made \in Nat /\ 1..made \subseteq 1..made' /\ made + 1 \in 1..made' /\ made + 1 \notin 1..made
      /\ \A c \in 1..made' : c \in 1..made \/ c = made + 1
      /\ KnownIds' = KnownIds /\ victim' = victim
  BY DEF TypeOK, KnownIds
<1>2. (\A f, g \in Pool : f.sid = g.sid \/ f.chat = g.chat => f = g)'
  BY DEF PoolInv
<1>3. (\A f \in Pool : f.chat \in 1..made /\ f.chat \notin closed /\ f.sid \in KnownIds)'
  BY <1>1 DEF PoolInv
<1>4. (closed \subseteq 1..made)'
  BY <1>1 DEF PoolInv
<1>5. (\A u \in Tasks : victim[u].chat # NoChat =>
         /\ victim[u].chat \in 1..made /\ victim[u].chat \notin closed
         /\ \A f \in Pool : f.chat # victim[u].chat
         /\ \A v \in Tasks : victim[v].chat = victim[u].chat => v = u)'
  <2> SUFFICES ASSUME NEW u \in Tasks, victim[u].chat # NoChat
               PROVE  /\ victim[u].chat \in 1..made' /\ victim[u].chat \notin closed'
                      /\ \A f \in Pool : f.chat # victim[u].chat
                      /\ \A v \in Tasks : victim[v].chat = victim[u].chat => v = u
    BY <1>1
  <2>1. /\ victim[u].chat \in 1..made /\ victim[u].chat \notin closed
        /\ \A f \in Pool : f.chat # victim[u].chat
        /\ \A v \in Tasks : victim[v].chat = victim[u].chat => v = u
    BY DEF PoolInv
  <2> QED
    BY <1>1, <2>1
<1>6. (\A u \in Tasks : victim[u].chat # NoChat <=> Next1(u, {"close", "closing"}))'
  <2> SUFFICES ASSUME NEW u \in Tasks PROVE victim[u].chat # NoChat <=> Next1(u, {"close", "closing"})'
    BY <1>1
  <2>1. victim[u].chat # NoChat <=> Next1(u, {"close", "closing"})
    BY DEF PoolInv
  <2>2. CASE u = t
    BY <1>1, <2>1, <2>2 DEF Next1
  <2>3. CASE u # t
    BY <1>1, <2>1, <2>3 DEF Next1
  <2> QED
    BY <2>2, <2>3
<1>7. (\A c \in 1..made : c \in closed \/ Closing(c) \/ \E f \in Pool : f.chat = c)'
  BY <1>1 DEF PoolInv, Closing
<1>8. (Len(entries) =< MaxSize)'
  BY DEF PoolInv, Next1
<1> QED
  BY <1>2, <1>3, <1>4, <1>5, <1>6, <1>7, <1>8 DEF PoolInv

(* The lock of a victim is asked for: nothing in the books changes.          *)
LEMMA Asking ==
  ASSUME TypeOK, PoolInv, NEW t \in Tasks, NEW q, UNCHANGED <<entries, made, closed, victim, issued>>,
         Next1(t, {"close"}), todo' = [todo EXCEPT ![t] = q], q # <<>>, Head(q) = "closing",
         running \in {t, NoTask}
  PROVE  PoolInv'
<1>1. /\ todo'[t] = q /\ \A u \in Tasks \ {t} : todo'[u] = todo[u]
      /\ KnownIds' = KnownIds /\ Pool' = Pool
  BY DEF TypeOK, KnownIds, Pool
<1>2. (\A u \in Tasks : victim[u].chat # NoChat <=> Next1(u, {"close", "closing"}))'
  <2> SUFFICES ASSUME NEW u \in Tasks PROVE victim[u].chat # NoChat <=> Next1(u, {"close", "closing"})'
    OBVIOUS
  <2>1. victim[u].chat # NoChat <=> Next1(u, {"close", "closing"})
    BY DEF PoolInv
  <2>2. CASE u = t
    BY <1>1, <2>1, <2>2 DEF Next1
  <2>3. CASE u # t
    BY <1>1, <2>1, <2>3 DEF Next1
  <2> QED
    BY <2>2, <2>3
<1>3. (Len(entries) =< MaxSize)'
  BY DEF PoolInv, Next1
<1>4. /\ (\A f, g \in Pool : f.sid = g.sid \/ f.chat = g.chat => f = g)'
      /\ IsInjective(entries)'
      /\ (\A f \in Pool : f.chat \in 1..made /\ f.chat \notin closed /\ f.sid \in KnownIds)'
      /\ (closed \subseteq 1..made)'
  BY <1>1 DEF PoolInv
<1>5. (\A u \in Tasks : victim[u].chat # NoChat =>
         /\ victim[u].chat \in 1..made /\ victim[u].chat \notin closed
         /\ \A f \in Pool : f.chat # victim[u].chat
         /\ \A v \in Tasks : victim[v].chat = victim[u].chat => v = u)'
  BY <1>1 DEF PoolInv
<1>6. (\A c \in 1..made : c \in closed \/ Closing(c) \/ \E f \in Pool : f.chat = c)'
  BY <1>1 DEF PoolInv, Closing
<1> QED
  BY <1>2, <1>3, <1>4, <1>5, <1>6 DEF PoolInv

(* The victim is closed.                                                     *)
LEMMA ClosingDone ==
  ASSUME TypeOK, PoolInv, NEW t \in Tasks, NEW q, UNCHANGED <<entries, made, issued>>,
         Next1(t, {"closing"}), closed' = closed \cup {victim[t].chat}, victim' = [victim EXCEPT ![t] = NoEntry],
         todo' = [todo EXCEPT ![t] = q], q # <<>> => Head(q) \notin {"close", "closing"}, running \in {t, NoTask}
  PROVE  PoolInv'
<1> DEFINE c0 == victim[t].chat
<1>1. /\ todo'[t] = q /\ \A u \in Tasks \ {t} : todo'[u] = todo[u]
      /\ KnownIds' = KnownIds /\ Pool' = Pool
      /\ victim'[t] = NoEntry /\ NoEntry.chat = NoChat /\ \A u \in Tasks \ {t} : victim'[u] = victim[u]
  BY DEF TypeOK, KnownIds, Pool, NoEntry
<1>2. c0 # NoChat
  BY DEF PoolInv, Next1
<1>3. /\ c0 \in 1..made /\ c0 \notin closed /\ (\A f \in Pool : f.chat # c0)
      /\ \A u \in Tasks : victim[u].chat = c0 => u = t
  BY <1>2 DEF PoolInv
<1> HIDE DEF c0
<1>4. (\A u \in Tasks : victim[u].chat # NoChat <=> Next1(u, {"close", "closing"}))'
  <2> SUFFICES ASSUME NEW u \in Tasks PROVE victim'[u].chat # NoChat <=> Next1(u, {"close", "closing"})'
    OBVIOUS
  <2>1. victim[u].chat # NoChat <=> Next1(u, {"close", "closing"})
    BY DEF PoolInv
  <2>2. CASE u = t
    BY <1>1, <2>2 DEF Next1
  <2>3. CASE u # t
    BY <1>1, <2>1, <2>3 DEF Next1
  <2> QED
    BY <2>2, <2>3
<1>5. (Len(entries) =< MaxSize)'
  BY DEF PoolInv, Next1
<1>6. closed' = closed \cup {c0}
  BY DEF c0
<1>7. /\ (\A f, g \in Pool : f.sid = g.sid \/ f.chat = g.chat => f = g)'
      /\ IsInjective(entries)'
      /\ (\A f \in Pool : f.chat \in 1..made /\ f.chat \notin closed /\ f.sid \in KnownIds)'
      /\ (closed \subseteq 1..made)'
  BY <1>1, <1>3, <1>6 DEF PoolInv
<1>8. (\A u \in Tasks : victim[u].chat # NoChat =>
         /\ victim[u].chat \in 1..made /\ victim[u].chat \notin closed
         /\ \A f \in Pool : f.chat # victim[u].chat
         /\ \A v \in Tasks : victim[v].chat = victim[u].chat => v = u)'
  <2> SUFFICES ASSUME NEW u \in Tasks, victim'[u].chat # NoChat
               PROVE  /\ victim'[u].chat \in 1..made /\ victim'[u].chat \notin closed'
                      /\ \A f \in Pool : f.chat # victim'[u].chat
                      /\ \A v \in Tasks : victim'[v].chat = victim'[u].chat => v = u
    BY <1>1
  <2>1. u # t /\ victim'[u] = victim[u]
    BY <1>1
  <2>2. /\ victim[u].chat \in 1..made /\ victim[u].chat \notin closed
        /\ \A f \in Pool : f.chat # victim[u].chat
        /\ \A v \in Tasks : victim[v].chat = victim[u].chat => v = u
    BY <2>1 DEF PoolInv
  <2>3. victim[u].chat # c0
    BY <2>1, <1>3
  <2> QED
    BY <1>1, <1>6, <2>1, <2>2, <2>3
<1>9. (\A c \in 1..made : c \in closed \/ Closing(c) \/ \E f \in Pool : f.chat = c)'
  <2> SUFFICES ASSUME NEW c \in 1..made
               PROVE  c \in closed' \/ (\E u \in Tasks : victim'[u].chat = c) \/ \E f \in Pool : f.chat = c
    BY <1>1 DEF Closing
  <2>1. CASE Closing(c)
    <3>1. PICK u \in Tasks : victim[u].chat = c
      BY <2>1 DEF Closing
    <3>2. u = t => c = c0
      BY <3>1 DEF c0
    <3> QED
      BY <3>1, <3>2, <1>1, <1>6
  <2>2. CASE ~Closing(c)
    BY <1>6, <2>2 DEF PoolInv
  <2> QED
    BY <2>1, <2>2
<1> QED
  BY <1>4, <1>5, <1>7, <1>8, <1>9 DEF PoolInv

(* Steps that change the books leave this of the request.                    *)
LEMMA BusySteps ==
  ASSUME TypeOK, ProgramInv, LockInv, NEW t \in Tasks
  PROVE  /\ Created(t) \/ CreatedNew(t) =>
              LET q == <<"evictLru">> \o Rest(t)
              IN  /\ q \in Seq(Steps) /\ q # <<>> /\ Head(q) = "evictLru" /\ ~Owes(q) /\ q # <<"finish">>
                  /\ todo' = [todo EXCEPT ![t] = q] /\ outcome' = outcome /\ running' = t
                  /\ todo[t] # <<>> /\ Head(todo[t]) \in {"create", "createNew"} /\ running \in {t, NoTask}
                  /\ ~Owes(todo[t])
         /\ (EvictLru(t) /\ TooMany) \/ (Evict(t) /\ Has(arg[t])) =>
              \E q \in Seq(Steps) :
                  /\ q # <<>> /\ Head(q) = "close" /\ ~Owes(q) /\ q # <<"finish">>
                  /\ todo' = [todo EXCEPT ![t] = q] /\ outcome' = outcome /\ running' = t
                  /\ todo[t] # <<>> /\ Head(todo[t]) \in {"evict", "evictLru"} /\ running \in {t, NoTask}
                  /\ ~Owes(todo[t])
         /\ LockToClose(t) =>
              LET q == <<"closing">> \o Rest(t)
              IN  /\ q \in Seq(Steps) /\ q # <<>> /\ Head(q) = "closing" /\ ~Owes(q) /\ q # <<"finish">>
                  /\ todo' = [todo EXCEPT ![t] = q] /\ outcome' = outcome /\ running' \in {t, NoTask}
                  /\ todo[t] # <<>> /\ Head(todo[t]) = "close" /\ running \in {t, NoTask}
                  /\ ~Owes(todo[t])
         /\ Close(t) =>
              LET q == Rest(t)
              IN  /\ q \in Seq(Steps) /\ (q # <<>> => Head(q) \notin {"close", "closing"}) /\ ~Owes(q)
                  /\ q # <<"finish">>
                  /\ todo' = [todo EXCEPT ![t] = q] /\ running' \in {t, NoTask}
                  /\ \A u \in Tasks \ {t} : outcome'[u] = outcome[u]
                  /\ outcome'[t] \in {"none", "ok"} /\ (outcome'[t] # "none" => q = <<>>)
                  /\ (running' = t => q # <<>>)
                  /\ todo[t] # <<>> /\ Head(todo[t]) = "closing" /\ running \in {t, NoTask}
                  /\ ~Owes(todo[t]) /\ ~Waits(t)
<1>1. ASSUME Created(t) \/ CreatedNew(t)
      PROVE  LET q == <<"evictLru">> \o Rest(t)
             IN  /\ q \in Seq(Steps) /\ q # <<>> /\ Head(q) = "evictLru" /\ ~Owes(q) /\ q # <<"finish">>
                 /\ todo' = [todo EXCEPT ![t] = q] /\ outcome' = outcome /\ running' = t
                 /\ todo[t] # <<>> /\ Head(todo[t]) \in {"create", "createNew"} /\ running \in {t, NoTask}
                 /\ ~Owes(todo[t])
  <2>1. PICK x \in {"create", "createNew"} : At(t, x) /\ GoOn(t, <<"evictLru">> \o Rest(t))
    BY <1>1 DEF Created, CreatedNew
  <2>2. /\ x \in Steps /\ x \notin UnderLock \cup {"acquire"} /\ "evictLru" \in Inserted
        /\ "evictLru" \notin Awaited
    BY DEF Steps, Awaited, UnderLock, Inserted
  <2>3. todo[t] # <<>> /\ Head(todo[t]) = x /\ running \in {t, NoTask} /\ ~Owes(todo[t])
    BY <2>1, <2>2, StepFacts
  <2> QED
    BY <2>1, <2>2, <2>3, Insertion
<1>2. ASSUME EvictLru(t) /\ TooMany
      PROVE  \E q \in Seq(Steps) :
                  /\ q # <<>> /\ Head(q) = "close" /\ ~Owes(q) /\ q # <<"finish">>
                  /\ todo' = [todo EXCEPT ![t] = q] /\ outcome' = outcome /\ running' = t
                  /\ todo[t] # <<>> /\ Head(todo[t]) \in {"evict", "evictLru"} /\ running \in {t, NoTask}
                  /\ ~Owes(todo[t])
  <2>1. At(t, "evictLru") /\ GoOn(t, <<"close">> \o todo[t])
    BY <1>2 DEF EvictLru
  <2>2. todo[t] # <<>> /\ Head(todo[t]) = "evictLru" /\ running \in {t, NoTask} /\ ~Owes(todo[t])
    BY <2>1, StepFacts DEF UnderLock
  <2> QED
    BY <2>1, <2>2, CloseLru
<1>3. ASSUME Evict(t) /\ Has(arg[t])
      PROVE  \E q \in Seq(Steps) :
                  /\ q # <<>> /\ Head(q) = "close" /\ ~Owes(q) /\ q # <<"finish">>
                  /\ todo' = [todo EXCEPT ![t] = q] /\ outcome' = outcome /\ running' = t
                  /\ todo[t] # <<>> /\ Head(todo[t]) \in {"evict", "evictLru"} /\ running \in {t, NoTask}
                  /\ ~Owes(todo[t])
  <2>1. At(t, "evict") /\ GoOn(t, <<"close">> \o Rest(t))
    BY <1>3 DEF Evict
  <2>2. /\ "evict" \in Steps /\ "evict" \notin UnderLock \cup {"acquire"} /\ "close" \in Inserted
        /\ "close" \notin Awaited
    BY DEF Steps, Awaited, UnderLock, Inserted
  <2>3. todo[t] # <<>> /\ Head(todo[t]) = "evict" /\ running \in {t, NoTask} /\ ~Owes(todo[t])
    BY <2>1, <2>2, StepFacts
  <2> QED
    BY <2>1, <2>2, <2>3, Insertion
<1>4. ASSUME LockToClose(t)
      PROVE  LET q == <<"closing">> \o Rest(t)
             IN  /\ q \in Seq(Steps) /\ q # <<>> /\ Head(q) = "closing" /\ ~Owes(q) /\ q # <<"finish">>
                 /\ todo' = [todo EXCEPT ![t] = q] /\ outcome' = outcome /\ running' \in {t, NoTask}
                 /\ todo[t] # <<>> /\ Head(todo[t]) = "close" /\ running \in {t, NoTask}
                 /\ ~Owes(todo[t])
  <2>1. /\ At(t, "close") /\ todo' = [todo EXCEPT ![t] = <<"closing">> \o Rest(t)]
        /\ outcome' = outcome /\ running' \in {t, NoTask}
    BY <1>4 DEF LockToClose
  <2>2. /\ todo[t] # <<>> /\ Head(todo[t]) = "close" /\ running \in {t, NoTask} /\ ~Owes(todo[t])
        /\ Rest(t) \in Seq(Steps) /\ WellOrdered(Rest(t)) /\ NoCloseNorFinish(Rest(t)) /\ ~Owes(Rest(t))
    BY <2>1, StepFacts DEF UnderLock, Ends
  <2> QED
    BY <2>1, <2>2, Inserting DEF Inserted
<1>5. ASSUME Close(t)
      PROVE  LET q == Rest(t)
              IN  /\ q \in Seq(Steps) /\ (q # <<>> => Head(q) \notin {"close", "closing"}) /\ ~Owes(q)
                  /\ q # <<"finish">>
                  /\ todo' = [todo EXCEPT ![t] = q] /\ running' \in {t, NoTask}
                  /\ \A u \in Tasks \ {t} : outcome'[u] = outcome[u]
                  /\ outcome'[t] \in {"none", "ok"} /\ (outcome'[t] # "none" => q = <<>>)
                  /\ (running' = t => q # <<>>)
                  /\ todo[t] # <<>> /\ Head(todo[t]) = "closing" /\ running \in {t, NoTask}
                  /\ ~Owes(todo[t]) /\ ~Waits(t)
  <2>1. At(t, "closing") /\ GoOn(t, Rest(t))
    BY <1>5 DEF Close
  <2>2. /\ todo[t] # <<>> /\ Head(todo[t]) = "closing" /\ running \in {t, NoTask} /\ ~Owes(todo[t])
        /\ Rest(t) \in Seq(Steps) /\ NoCloseNorFinish(Rest(t)) /\ ~Owes(Rest(t)) /\ Rest(t) # <<"finish">>
        /\ outcome[t] = "none" /\ ~Waits(t)
    BY <2>1, StepFacts DEF UnderLock, Ends
  <2>3. /\ todo' = [todo EXCEPT ![t] = Rest(t)] /\ running' \in {t, NoTask}
        /\ \A u \in Tasks \ {t} : outcome'[u] = outcome[u]
        /\ outcome'[t] \in {"none", "ok"} /\ (outcome'[t] # "none" => Rest(t) = <<>>)
        /\ (running' = t => Rest(t) # <<>>)
    BY <2>1, <2>2, Going
  <2> QED
    BY <2>2, <2>3, HeadOfRest
<1> QED
  BY <1>1, <1>2, <1>3, <1>4, <1>5

LEMMA PoolInitially == Init => PoolInv
<1> SUFFICES ASSUME Init PROVE PoolInv
  OBVIOUS
<1> DEFINE q == <<"start">>
<1>1. q # <<>> /\ Head(q) \notin {"close", "closing"}
  OBVIOUS
<1> HIDE DEF q
<1>2. /\ entries = <<>> /\ made = 0 /\ closed = {}
      /\ \A t \in Tasks : victim[t].chat = NoChat /\ todo[t] = q
  BY DEF Init, NoEntry, q
<1>3. Pool = {} /\ IsInjective(entries) /\ Len(entries) = 0
  BY <1>2 DEF Pool, Range, IsInjective
<1>4. 1..made = {}
  BY <1>2
<1>5. \A t \in Tasks : ~Next1(t, {"close", "closing"})
  BY <1>1, <1>2 DEF Next1
<1> QED
  BY <1>2, <1>3, <1>4, <1>5, Constants DEF PoolInv

BusyAction(t) ==
  \/ Created(t) \/ CreatedNew(t) \/ LockToClose(t) \/ Close(t)
  \/ EvictLru(t) /\ TooMany
  \/ Evict(t) /\ Has(arg[t])

LEMMA ActionKinds ==
  ASSUME [Next]_vars
  PROVE  UNCHANGED vars \/ \E t \in Tasks : QuietAction(t) \/ BusyAction(t)
BY DEF Next, Step, QuietAction, BusyAction

LEMMA PoolStep ==
  ASSUME TypeOK, ProgramInv, LockInv, PoolInv, IdsInv, [Next]_vars
  PROVE  PoolInv'
<1>1. CASE UNCHANGED vars
  BY <1>1 DEF vars, poolVars, chatVars, taskVars, PoolInv, Pool, Next1, KnownIds, Closing
<1>2. ASSUME NEW t \in Tasks, QuietAction(t) PROVE PoolInv'
  BY <1>2, QuietActions, PoolFrame
<1>3. ASSUME NEW t \in Tasks, Created(t), ~Has(want[t]) PROVE PoolInv'
  <2>1. /\ made < MaxChats /\ made' = made + 1 /\ UNCHANGED <<closed, victim, issued>>
        /\ entries' = Append(Without(want[t]), [sid |-> want[t], chat |-> made + 1])
    BY <1>3 DEF Created, Build, Duplicate
  <2>2. want[t] \in Ids /\ want[t] \in KnownIds'
    BY <2>1 DEF TypeOK, IdsInv, KnownIds
  <2>3. PICK q \in Seq(Steps) :
           /\ q # <<>> /\ Head(q) = "evictLru" /\ todo' = [todo EXCEPT ![t] = q] /\ running' = t
           /\ todo[t] # <<>> /\ Head(todo[t]) \in {"create", "createNew"} /\ running \in {t, NoTask}
    BY <1>3, BusySteps
  <2> QED
    BY <1>3, <2>1, <2>2, <2>3, Registering DEF Next1
<1>4. ASSUME NEW t \in Tasks, Created(t), Has(want[t]) PROVE PoolInv'
  <2>1. /\ made < MaxChats /\ made' = made + 1 /\ closed' = closed \cup {made + 1} /\ UNCHANGED <<victim, issued>>
        /\ entries' = Touch(want[t])
    BY <1>4 DEF Created, Build, Duplicate
  <2>2. Pool' = Pool /\ IsInjective(entries') /\ Len(entries') = Len(entries)
    BY <1>4, <2>1, EntriesFacts DEF Pool
  <2>3. PICK q \in Seq(Steps) :
           /\ q # <<>> /\ Head(q) = "evictLru" /\ todo' = [todo EXCEPT ![t] = q]
           /\ todo[t] # <<>> /\ Head(todo[t]) \in {"create", "createNew"} /\ running \in {t, NoTask}
    BY <1>4, BusySteps
  <2> QED
    BY <2>1, <2>2, <2>3, Discarding DEF Next1
<1>5. ASSUME NEW t \in Tasks, CreatedNew(t) PROVE PoolInv'
  <2>1. PICK s \in Fresh \ issued :
          /\ made < MaxChats /\ made' = made + 1 /\ UNCHANGED <<closed, victim>> /\ issued' = issued \cup {s}
          /\ entries' = Append(Without(s), [sid |-> s, chat |-> made + 1])
    BY <1>5 DEF CreatedNew, Build
  <2>2. s \in Ids /\ s \in KnownIds' /\ ~Has(s)
    BY <2>1, EntriesFacts, ConstantsAssumption DEF Ids, KnownIds, PoolInv
  <2>3. PICK q \in Seq(Steps) :
           /\ q # <<>> /\ Head(q) = "evictLru" /\ todo' = [todo EXCEPT ![t] = q] /\ running' = t
           /\ todo[t] # <<>> /\ Head(todo[t]) \in {"create", "createNew"} /\ running \in {t, NoTask}
    BY <1>5, BusySteps
  <2> QED
    BY <2>1, <2>2, <2>3, Registering DEF Next1
<1>6. ASSUME NEW t \in Tasks, EvictLru(t) /\ TooMany PROVE PoolInv'
  <2>1. victim' = [victim EXCEPT ![t] = Head(entries)] /\ entries' = Tail(entries) /\ UNCHANGED <<made, closed, issued>>
    BY <1>6 DEF EvictLru, chatVars
  <2>2. PICK q \in Seq(Steps) :
           /\ q # <<>> /\ Head(q) = "close" /\ todo' = [todo EXCEPT ![t] = q]
           /\ todo[t] # <<>> /\ Head(todo[t]) \in {"evict", "evictLru"}
    BY <1>6, BusySteps
  <2> QED
    BY <1>6, <2>1, <2>2, Oldest, Evicting DEF Next1, Pool
<1>7. ASSUME NEW t \in Tasks, Evict(t) /\ Has(arg[t]) PROVE PoolInv'
  <2>1. /\ victim' = [victim EXCEPT ![t] = EntryOf(arg[t])] /\ entries' = Without(arg[t])
        /\ UNCHANGED <<made, closed, issued>>
    BY <1>7 DEF Evict, chatVars
  <2>2. PICK q \in Seq(Steps) :
           /\ q # <<>> /\ Head(q) = "close" /\ todo' = [todo EXCEPT ![t] = q]
           /\ todo[t] # <<>> /\ Head(todo[t]) \in {"evict", "evictLru"}
    BY <1>7, BusySteps
  <2>3. /\ EntryOf(arg[t]) \in Pool /\ Pool' = Pool \ {EntryOf(arg[t])}
        /\ IsInjective(entries') /\ Len(entries') = Len(entries) - 1
    BY <1>7, <2>1, EntriesFacts, EntryFacts DEF Pool
  <2> QED
    BY <2>1, <2>2, <2>3, Evicting DEF Next1
<1>8. ASSUME NEW t \in Tasks, LockToClose(t) PROVE PoolInv'
  <2>1. UNCHANGED <<entries, made, closed, victim, issued>>
    BY <1>8 DEF LockToClose, poolVars
  <2>2. PICK q \in Seq(Steps) :
           /\ q # <<>> /\ Head(q) = "closing" /\ todo' = [todo EXCEPT ![t] = q]
           /\ todo[t] # <<>> /\ Head(todo[t]) = "close" /\ running \in {t, NoTask}
    BY <1>8, BusySteps
  <2> QED
    BY <2>1, <2>2, Asking DEF Next1
<1>9. ASSUME NEW t \in Tasks, Close(t) PROVE PoolInv'
  <2>1. /\ UNCHANGED <<entries, made, issued>> /\ closed' = closed \cup {victim[t].chat}
        /\ victim' = [victim EXCEPT ![t] = NoEntry]
    BY <1>9 DEF Close
  <2>2. PICK q \in Seq(Steps) :
           /\ q # <<>> => Head(q) \notin {"close", "closing"}
           /\ todo' = [todo EXCEPT ![t] = q]
           /\ todo[t] # <<>> /\ Head(todo[t]) = "closing" /\ running \in {t, NoTask}
    BY <1>9, BusySteps
  <2> QED
    BY <2>1, <2>2, ClosingDone DEF Next1
<1> QED
  BY <1>1, <1>2, <1>3, <1>4, <1>5, <1>6, <1>7, <1>8, <1>9, ActionKinds DEF BusyAction

-----------------------------------------------------------------------------
(* Ids are known before they are used, and instances built.                  *)
LEMMA IdsInitially == Init => IdsInv
BY ConstantsAssumption DEF Init, IdsInv, KnownIds, NoChat

LEMMA IdsFrame ==
  ASSUME TypeOK, IdsInv, NEW t \in Tasks, made =< made', made' \in Nat, issued \subseteq issued',
         held'[t] = held[t] \/ held'[t] =< made',
         want'[t] = want[t] \/ want'[t] \in KnownIds', arg'[t] = arg[t] \/ arg'[t] \in KnownIds',
         \A u \in Tasks \ {t} : held'[u] = held[u] /\ want'[u] = want[u] /\ arg'[u] = arg[u],
         active' = active \/ active' \in KnownIds', \A s \in gone' : s \in gone \/ s \in KnownIds'
  PROVE  IdsInv'
<1>1. KnownIds \subseteq KnownIds'
  BY DEF KnownIds
<1>2. made \in Nat /\ \A u \in Tasks : held[u] \in Nat
  BY Constants DEF TypeOK, NoChat
<1>3. \A u \in Tasks : held'[u] =< made'
  BY <1>2 DEF IdsInv
<1>4. \A u \in Tasks : arg'[u] \in KnownIds' /\ want'[u] \in KnownIds'
  BY <1>1 DEF IdsInv
<1>5. active' \in KnownIds' /\ gone' \subseteq KnownIds'
  BY <1>1 DEF IdsInv
<1> QED
  BY <1>3, <1>4, <1>5 DEF IdsInv

LEMMA IdsStep ==
  ASSUME TypeOK, ProgramInv, LockInv, PoolInv, IdsInv, [Next]_vars
  PROVE  IdsInv'
<1>0. /\ made \in Nat /\ \A e \in Pool : e.chat =< made /\ e.sid \in KnownIds
      /\ Default \in KnownIds /\ \A u \in Tasks : want[u] \in KnownIds /\ arg[u] \in KnownIds
      /\ active \in KnownIds /\ \A s \in gone : s \in KnownIds
      /\ issued \subseteq issued' => KnownIds \subseteq KnownIds'
  BY ConstantsAssumption DEF TypeOK, PoolInv, IdsInv, KnownIds
<1>1. CASE UNCHANGED vars
  BY <1>1 DEF vars, poolVars, taskVars, history, IdsInv, KnownIds
<1> USE DEF poolVars, chatVars, history
<1>2. ASSUME NEW t \in Tasks, NEW op \in Ops, NEW s \in Ids, Start(t, op, s) PROVE IdsInv'
  <2>1. /\ UNCHANGED <<made, held, want, active, gone>> /\ issued \subseteq issued' /\ arg' = [arg EXCEPT ![t] = s]
        /\ s \in KnownIds'
    BY <1>2 DEF Start, KnownIds
  <2> QED
    BY <1>0, <2>1, IdsFrame DEF TypeOK
<1>3. ASSUME NEW t \in Tasks, Want(t, "get", arg[t]) \/ Want(t, "active", active) PROVE IdsInv'
  <2>1. /\ UNCHANGED <<made, held, arg, active, gone, issued>>
        /\ (want' = [want EXCEPT ![t] = arg[t]] \/ want' = [want EXCEPT ![t] = active])
    BY <1>3 DEF Want
  <2>2. want'[t] \in KnownIds' /\ \A u \in Tasks \ {t} : want'[u] = want[u]
    BY <1>0, <2>1 DEF TypeOK
  <2> QED
    BY <1>0, <2>1, <2>2, IdsFrame
<1>4. ASSUME NEW t \in Tasks, Found(t) PROVE IdsInv'
  <2>1. UNCHANGED <<made, want, arg, active, gone, issued>> /\ held' = [held EXCEPT ![t] = EntryOf(want[t]).chat]
    BY <1>4 DEF Found
  <2>2. EntryOf(want[t]) \in Pool
    BY <1>4, EntryFacts DEF Found
  <2>3. held'[t] =< made /\ \A u \in Tasks \ {t} : held'[u] = held[u]
    BY <1>0, <2>1, <2>2 DEF TypeOK
  <2> QED
    BY <1>0, <2>1, <2>3, IdsFrame
<1>5. ASSUME NEW t \in Tasks, Created(t) PROVE IdsInv'
  <2>1. /\ UNCHANGED <<want, arg, active, gone, issued>> /\ made' = made + 1
        /\ \/ held' = [held EXCEPT ![t] = made + 1]
           \/ Has(want[t]) /\ held' = [held EXCEPT ![t] = EntryOf(want[t]).chat]
    BY <1>5 DEF Created, Build, Duplicate, Registered
  <2>2. Has(want[t]) => EntryOf(want[t]).chat =< made
    BY <1>0, EntryFacts
  <2>3. held'[t] =< made' /\ \A u \in Tasks \ {t} : held'[u] = held[u]
    <3>1. CASE held' = [held EXCEPT ![t] = made + 1]
      BY <1>0, <2>1, <3>1 DEF TypeOK
    <3>2. CASE Has(want[t]) /\ held' = [held EXCEPT ![t] = EntryOf(want[t]).chat]
      <4>1. held'[t] = EntryOf(want[t]).chat /\ \A u \in Tasks \ {t} : held'[u] = held[u]
        BY <3>2 DEF TypeOK
      <4>2. EntryOf(want[t]).chat \in Nat
        BY <3>2, EntryFacts, Constants
      <4> QED
        BY <1>0, <2>1, <2>2, <3>2, <4>1, <4>2
    <3> QED
      BY <2>1, <3>1, <3>2
  <2> QED
    BY <1>0, <2>1, <2>3, IdsFrame
<1>6. ASSUME NEW t \in Tasks, CreatedNew(t) PROVE IdsInv'
  <2>1. PICK s \in Fresh \ issued :
          UNCHANGED <<want, arg, held, gone>> /\ made' = made + 1 /\ issued' = issued \cup {s} /\ active' = s
    BY <1>6 DEF CreatedNew, Build
  <2>2. active' \in KnownIds'
    BY <2>1 DEF KnownIds
  <2> QED
    BY <1>0, <2>1, <2>2, IdsFrame
<1>7. ASSUME NEW t \in Tasks, EvictLru(t) PROVE IdsInv'
  <2>1. UNCHANGED <<want, arg, held, made, issued, active>> /\ (gone' = gone \/ (TooMany /\ gone' = gone \cup {Head(entries).sid}))
    BY <1>7 DEF EvictLru
  <2>2. \A s \in gone' : s \in gone \/ s \in KnownIds'
    BY <1>0, <2>1, Oldest
  <2> QED
    BY <1>0, <2>1, <2>2, IdsFrame
<1>8. ASSUME NEW t \in Tasks, Evict(t) \/ Close(t) PROVE IdsInv'
  <2>1. /\ UNCHANGED <<want, arg, held, made, issued>> /\ (gone' = gone \/ gone' = gone \cup {arg[t]})
        /\ active' \in {active, Default}
    BY <1>8 DEF Evict, Close, ClearStale
  <2>2. active' \in KnownIds' /\ \A s \in gone' : s \in gone \/ s \in KnownIds'
    BY <1>0, <2>1
  <2> QED
    BY <1>0, <2>1, <2>2, IdsFrame
<1>9. ASSUME NEW t \in Tasks, Rename(t) PROVE IdsInv'
  <2>1. PICK s \in Fresh \ issued :
          UNCHANGED <<want, arg, held, made, active>> /\ issued' = issued \cup {s} /\ gone' = gone \cup {s}
    BY <1>9 DEF Rename
  <2>2. \A r \in gone' : r \in gone \/ r \in KnownIds'
    BY <2>1 DEF KnownIds
  <2> QED
    BY <1>0, <2>1, <2>2, IdsFrame
<1>10. ASSUME NEW t \in Tasks, Activate(t) PROVE IdsInv'
  <2>1. UNCHANGED <<want, arg, held, made, issued, gone>> /\ active' = arg[t]
    BY <1>10 DEF Activate
  <2> QED
    BY <1>0, <2>1, IdsFrame
<1>11. ASSUME NEW t \in Tasks,
              \/ NotFound(t) \/ LockToClose(t) \/ SetCurrent(t) \/ Later(t) \/ Exists(t) \/ List(t) \/ Read(t)
              \/ Adopt(t) \/ Acquire(t) \/ Release(t)
       PROVE  IdsInv'
  <2>1. UNCHANGED <<want, arg, held, made, issued, active, gone>>
    BY <1>11 DEF NotFound, LockToClose, SetCurrent, Later, Exists, List, Read, Adopt, Acquire, Release
  <2> QED
    BY <1>0, <2>1, IdsFrame
<1>12. ASSUME NEW t \in Tasks, Erase(t) \/ Turn(t) \/ Refuse(t) \/ Finish(t) \/ TurnFails(t) \/ GiveUp(t)
       PROVE  IdsInv'
  <2>1. UNCHANGED <<want, arg, held, made, issued, active, gone>>
    BY <1>12 DEF Erase, Turn, Refuse, Finish, TurnFails, GiveUp
  <2> QED
    BY <1>0, <2>1, IdsFrame
<1> QED
  BY <1>1, <1>2, <1>3, <1>4, <1>5, <1>6, <1>7, <1>8, <1>9, <1>10, <1>11, <1>12 DEF Next, Step, Get

-----------------------------------------------------------------------------
(* The queues of the locks.                                                  *)
Others(t) == \A u \in Tasks \ {t} : todo'[u] = todo[u] /\ held'[u] = held[u] /\ victim'[u] = victim[u]

LEMMA Holder ==
  ASSUME TypeOK, NEW t \in Tasks, NEW c \in Chats, ~Waits(t), t \in Range(locks[c])
  PROVE  locks[c] # <<>> /\ Head(locks[c]) = t
<1>1. locks[c] \in Seq(Tasks)
  BY DEF TypeOK
<1>2. PICK i \in 1..Len(locks[c]) : locks[c][i] = t
  BY <1>1, InRange
<1>3. Len(locks[c]) \in Nat
  BY <1>1
<1>4. i = 1
  BY <1>2, <1>3 DEF Waits
<1>5. locks[c] # <<>>
  BY <1>1, <1>2, <1>3
<1> QED
  BY <1>1, <1>2, <1>4, <1>5, InRange

LEMMA QueueFrame ==
  ASSUME NEW t \in Tasks, Others(t)
  PROVE  \A u \in Tasks \ {t} : /\ \A c \in Chats : Queued(u, c)' <=> Queued(u, c)
                                /\ InTurn(u)' <=> InTurn(u)
BY DEF Others, Queued, Next1, InTurn

LEMMA QueueSame ==
  ASSUME TypeOK, NEW t \in Tasks, NEW q, todo' = [todo EXCEPT ![t] = q], Owes(q) <=> Owes(todo[t]),
         Owes(q) => held'[t] = held[t], ~Next1(t, {"closing"}), q # <<>> => Head(q) # "closing"
  PROVE  \A c \in Chats : Queued(t, c)' <=> Queued(t, c)
<1>1. todo'[t] = q
  BY DEF TypeOK
<1> QED
  BY <1>1 DEF Queued, Next1

LEMMA LockFrame ==
  ASSUME TypeOK, LockInv, NEW t \in Tasks, Others(t), locks' = locks,
         \A c \in Chats : Queued(t, c)' <=> Queued(t, c),
         InTurn(t)' => Owes(todo[t]) /\ held'[t] = held[t] /\ held[t] \in Chats,
         ~Waits(t), running' \in {t, NoTask}, running' = t => todo'[t] # <<>>
  PROVE  LockInv'
<1>1. \A u \in Tasks : \A c \in Chats : Queued(u, c)' <=> Queued(u, c)
  BY QueueFrame
<1>2. (\A c \in Chats : IsInjective(locks[c]) /\ \A u \in Tasks : u \in Range(locks[c]) <=> Queued(u, c))'
  BY <1>1 DEF LockInv
<1>3. (running # NoTask => todo[running] # <<>> /\ ~Waits(running))'
  BY DEF Waits
<1>4. ASSUME NEW u \in Tasks, InTurn(u)' PROVE (locks[held[u]] # <<>> /\ Head(locks[held[u]]) = u)'
  <2>1. CASE u = t
    <3>1. Queued(t, held[t])
      BY <1>4, <2>1 DEF Queued
    <3>2. t \in Range(locks[held[t]])
      BY <1>4, <2>1, <3>1 DEF LockInv
    <3> QED
      BY <1>4, <2>1, <3>2, Holder
  <2>2. CASE u # t
    BY <1>4, <2>2, QueueFrame DEF LockInv, Others
  <2> QED
    BY <2>1, <2>2
<1> QED
  BY <1>2, <1>3, <1>4 DEF LockInv

LEMMA EnterLock ==
  ASSUME TypeOK, LockInv, NEW t \in Tasks, NEW c \in Chats, Others(t), locks' = Enter(t, c),
         \A d \in Chats : ~Queued(t, d), \A d \in Chats : Queued(t, d)' <=> d = c, ~InTurn(t)',
         ~Waits(t), running' \in {t, NoTask}, running' = t => todo'[t] # <<>> /\ locks[c] = <<>>
  PROVE  LockInv'
<1>1. locks[c] \in Seq(Tasks) /\ IsInjective(locks[c]) /\ t \notin Range(locks[c])
  BY DEF TypeOK, LockInv
<1>2. /\ locks'[c] = Append(locks[c], t) /\ \A d \in Chats \ {c} : locks'[d] = locks[d]
  BY DEF Enter, TypeOK
<1>3. /\ locks'[c] \in Seq(Tasks) /\ locks'[c] # <<>> /\ Len(locks'[c]) = Len(locks[c]) + 1
      /\ Range(locks'[c]) = Range(locks[c]) \cup {t} /\ IsInjective(locks'[c])
      /\ locks[c] # <<>> => Head(locks'[c]) = Head(locks[c])
  BY <1>1, <1>2, Appending
<1>4. ASSUME NEW d \in Chats
      PROVE  IsInjective(locks'[d]) /\ \A u \in Tasks : u \in Range(locks'[d]) <=> Queued(u, d)'
  <2>1. \A u \in Tasks \ {t} : Queued(u, d)' <=> Queued(u, d)
    BY QueueFrame
  <2>2. IsInjective(locks[d]) /\ \A u \in Tasks : u \in Range(locks[d]) <=> Queued(u, d)
    BY DEF LockInv
  <2>3. CASE d = c
    BY <1>3, <2>1, <2>2, <2>3
  <2>4. CASE d # c
    BY <1>2, <2>1, <2>2, <2>4
  <2> QED
    BY <2>3, <2>4
<1>5. (running # NoTask => todo[running] # <<>> /\ ~Waits(running))'
  <2> SUFFICES ASSUME running' = t PROVE todo'[t] # <<>> /\ ~Waits(t)'
    OBVIOUS
  <2>1. ASSUME NEW d \in Chats, NEW i \in 2..Len(locks'[d]) PROVE locks'[d][i] # t
    <3>1. CASE d = c
      <4>1. Len(locks[c]) = 0
        OBVIOUS
      <4> QED
        BY <1>3, <2>1, <3>1, <4>1
    <3>2. CASE d # c
      BY <1>2, <2>1, <3>2 DEF Waits
    <3> QED
      BY <3>1, <3>2
  <2> QED
    BY <2>1 DEF Waits
<1>6. ASSUME NEW u \in Tasks, InTurn(u)' PROVE (locks[held[u]] # <<>> /\ Head(locks[held[u]]) = u)'
  <2>1. u # t /\ InTurn(u) /\ held'[u] = held[u]
    BY <1>6, QueueFrame DEF Others
  <2>2. locks[held[u]] # <<>> /\ Head(locks[held[u]]) = u
    BY <2>1 DEF LockInv
  <2>3. CASE held[u] = c
    BY <1>3, <2>1, <2>2, <2>3
  <2>4. CASE held[u] # c
    <3>1. locks'[held[u]] = locks[held[u]]
      BY <1>2, <2>4 DEF Enter
    <3> QED
      BY <2>1, <2>2, <3>1
  <2> QED
    BY <2>3, <2>4
<1>7. (\A d \in Chats : IsInjective(locks[d]) /\ \A u \in Tasks : u \in Range(locks[d]) <=> Queued(u, d))'
  BY <1>4
<1> QED
  BY <1>5, <1>6, <1>7 DEF LockInv

LEMMA LeaveLock ==
  ASSUME TypeOK, LockInv, NEW t \in Tasks, NEW c \in Chats, Others(t), locks' = Leave(c),
         \A d \in Chats : Queued(t, d) <=> d = c, \A d \in Chats : ~Queued(t, d)', ~InTurn(t)',
         ~Waits(t), running' \in {t, NoTask}, running' = t => todo'[t] # <<>>
  PROVE  LockInv' /\ locks[c] # <<>>
<1>1. locks[c] \in Seq(Tasks) /\ IsInjective(locks[c]) /\ t \in Range(locks[c])
  BY DEF TypeOK, LockInv
<1>2. locks[c] # <<>> /\ Head(locks[c]) = t
  BY <1>1, Holder
<1>3. /\ locks'[c] = Tail(locks[c]) /\ \A d \in Chats \ {c} : locks'[d] = locks[d]
  BY DEF Leave, TypeOK
<1>4. /\ locks'[c] \in Seq(Tasks) /\ Range(locks[c]) = Range(locks'[c]) \cup {t}
      /\ IsInjective(locks'[c]) /\ t \notin Range(locks'[c])
  BY <1>1, <1>2, <1>3, Tailing
<1>5. ASSUME NEW d \in Chats
      PROVE  IsInjective(locks'[d]) /\ \A u \in Tasks : u \in Range(locks'[d]) <=> Queued(u, d)'
  <2>1. \A u \in Tasks \ {t} : Queued(u, d)' <=> Queued(u, d)
    BY QueueFrame
  <2>2. IsInjective(locks[d]) /\ \A u \in Tasks : u \in Range(locks[d]) <=> Queued(u, d)
    BY DEF LockInv
  <2>3. CASE d = c
    BY <1>4, <2>1, <2>2, <2>3
  <2>4. CASE d # c
    BY <1>3, <2>1, <2>2, <2>4
  <2> QED
    BY <2>3, <2>4
<1>6. (running # NoTask => todo[running] # <<>> /\ ~Waits(running))'
  <2> SUFFICES ASSUME running' = t PROVE todo'[t] # <<>> /\ ~Waits(t)'
    OBVIOUS
  <2>1. ASSUME NEW d \in Chats, NEW i \in 2..Len(locks'[d]) PROVE locks'[d][i] # t
    <3>1. CASE d = c
      <4>1. i \in 1..Len(locks'[c])
        BY <1>4, <2>1, <3>1
      <4>2. locks'[c][i] \in Range(locks'[c])
        BY <1>4, <4>1, InRange
      <4> QED
        BY <1>4, <3>1, <4>2
    <3>2. CASE d # c
      BY <1>3, <2>1, <3>2 DEF Waits
    <3> QED
      BY <3>1, <3>2
  <2> QED
    BY <2>1 DEF Waits
<1>7. ASSUME NEW u \in Tasks, InTurn(u)' PROVE (locks[held[u]] # <<>> /\ Head(locks[held[u]]) = u)'
  <2>1. u # t /\ InTurn(u) /\ held'[u] = held[u]
    BY <1>7, QueueFrame DEF Others
  <2>2. locks[held[u]] # <<>> /\ Head(locks[held[u]]) = u
    BY <2>1 DEF LockInv
  <2>3. held[u] # c
    BY <1>2, <2>1, <2>2
  <2>4. locks'[held[u]] = locks[held[u]]
    BY <2>3 DEF Leave
  <2> QED
    BY <2>1, <2>2, <2>4
<1>8. (\A d \in Chats : IsInjective(locks[d]) /\ \A u \in Tasks : u \in Range(locks[d]) <=> Queued(u, d))'
  BY <1>5
<1> QED
  BY <1>2, <1>6, <1>7, <1>8 DEF LockInv

(* The client of a waiting request leaves the queue.                         *)
LEMMA LeaveQueue ==
  ASSUME TypeOK, ProgramInv, LockInv, NEW t \in Tasks, GiveUp(t)
  PROVE  LockInv'
<1> DEFINE c == held[t]
           p == <<"turn">>
<1>1. /\ todo[t] = p /\ todo' = [todo EXCEPT ![t] = <<>>] /\ running' = NoTask /\ UNCHANGED <<held, victim>>
  BY DEF GiveUp, End
<1>2. Owes(p) /\ ~GetsFirst(p) /\ Head(p) # "closing" /\ p # <<"finish">>
  BY DEF Owes, Ends, GetsFirst, Using, Getters
<1>3. c \in Chats
  BY <1>1, <1>2 DEF TypeOK, ProgramInv, ProgramOK
<1> HIDE DEF p, c
<1>4. Others(t) /\ todo'[t] = <<>>
  BY <1>1 DEF Others, TypeOK
<1>5. /\ \A d \in Chats : Queued(t, d) <=> d = c
      /\ \A d \in Chats : ~Queued(t, d)'
      /\ ~InTurn(t)'
  BY <1>1, <1>2, <1>4, EmptyProgram DEF Queued, Next1, InTurn, c
<1>6. locks[c] \in Seq(Tasks) /\ IsInjective(locks[c]) /\ t \in Range(locks[c])
  BY <1>3, <1>5 DEF TypeOK, LockInv
<1>7. PICK i \in 2..Len(locks[c]) : locks[c][i] = t /\ locks' = [locks EXCEPT ![c] = RemoveAt(@, i)]
  BY DEF GiveUp, c
<1>8. /\ locks'[c] = RemoveAt(locks[c], i) /\ \A d \in Chats \ {c} : locks'[d] = locks[d]
  BY <1>3, <1>7 DEF TypeOK
<1>9. i \in 1..Len(locks[c]) /\ i >= 2 /\ Len(locks[c]) \in Nat
  BY <1>6, <1>7
<1>10. /\ locks'[c] \in Seq(Tasks) /\ Range(locks'[c]) = Range(locks[c]) \ {t} /\ IsInjective(locks'[c])
       /\ locks'[c] # <<>> /\ Head(locks'[c]) = Head(locks[c])
  BY <1>6, <1>7, <1>8, <1>9, Removing
<1>11. ASSUME NEW d \in Chats
       PROVE  IsInjective(locks'[d]) /\ \A u \in Tasks : u \in Range(locks'[d]) <=> Queued(u, d)'
  <2>1. \A u \in Tasks \ {t} : Queued(u, d)' <=> Queued(u, d)
    BY <1>4, QueueFrame
  <2>2. IsInjective(locks[d]) /\ \A u \in Tasks : u \in Range(locks[d]) <=> Queued(u, d)
    BY DEF LockInv
  <2>3. CASE d = c
    BY <1>5, <1>10, <2>1, <2>2, <2>3
  <2>4. CASE d # c
    BY <1>5, <1>8, <2>1, <2>2, <2>4
  <2> QED
    BY <2>3, <2>4
<1>12. ASSUME NEW u \in Tasks, InTurn(u)' PROVE (locks[held[u]] # <<>> /\ Head(locks[held[u]]) = u)'
  <2>1. u # t /\ InTurn(u) /\ held'[u] = held[u]
    BY <1>4, <1>5, <1>12, QueueFrame DEF Others
  <2>2. locks[held[u]] # <<>> /\ Head(locks[held[u]]) = u
    BY <2>1 DEF LockInv
  <2>3. CASE held[u] = c
    BY <1>10, <2>1, <2>2, <2>3
  <2>4. CASE held[u] # c
    <3>1. locks'[held[u]] = locks[held[u]]
      BY <1>7, <2>4
    <3> QED
      BY <2>1, <2>2, <3>1
  <2> QED
    BY <2>3, <2>4
<1>13. (\A d \in Chats : IsInjective(locks[d]) /\ \A u \in Tasks : u \in Range(locks[d]) <=> Queued(u, d))'
  BY <1>11
<1> QED
  BY <1>1, <1>12, <1>13 DEF LockInv

LEMMA LocksInitially == Init => LockInv
<1> SUFFICES ASSUME Init PROVE LockInv
  OBVIOUS
<1> DEFINE q == <<"start">>
<1>1. q # <<>> /\ Head(q) # "closing" /\ ~Owes(q) /\ q # <<"finish">>
  BY DEF Owes, Ends
<1> HIDE DEF q
<1>2. /\ running = NoTask /\ \A t \in Tasks : todo[t] = q
      /\ \A c \in Chats : locks[c] = <<>>
  BY DEF Init, q
<1>3. IsInjective(<<>>) /\ Range(<<>>) = {}
  BY DEF IsInjective, Range
<1> QED
  BY <1>1, <1>2, <1>3 DEF LockInv, Queued, Next1, InTurn

(* The victim of a request that is closing it.                               *)
LEMMA VictimFacts ==
  ASSUME TypeOK, PoolInv, NEW t \in Tasks, Next1(t, {"close", "closing"})
  PROVE  /\ victim[t] \in Entry /\ victim[t].chat \in Chats /\ victim[t].chat \in 1..made
         /\ victim[t].chat \notin closed /\ \A e \in Pool : e.chat # victim[t].chat
<1>1. victim[t].chat # NoChat /\ victim[t] \in Entry \cup {NoEntry}
  BY DEF PoolInv, TypeOK
<1>2. victim[t] \in Entry
  BY <1>1 DEF NoEntry
<1>3. /\ victim[t].chat \in 1..made /\ victim[t].chat \notin closed /\ \A e \in Pool : e.chat # victim[t].chat
  BY <1>1 DEF PoolInv
<1> QED
  BY <1>2, <1>3 DEF Entry

(* Steps that touch no lock, taken with and without one.                     *)
LEMMA LockRest ==
  ASSUME TypeOK, ProgramInv, LockInv, NEW t \in Tasks, NEW x \in Steps, At(t, x),
         x \notin Ends \cup {"acquire", "closing"}, UNCHANGED <<locks, victim, held>>, GoOn(t, Rest(t))
  PROVE  LockInv'
<1>1. /\ Rest(t) \in Seq(Steps) /\ NoCloseNorFinish(Rest(t)) /\ Rest(t) # <<"finish">> /\ outcome[t] = "none"
      /\ todo[t] # <<>> /\ Head(todo[t]) = x /\ ~Waits(t) /\ (Owes(Rest(t)) <=> Owes(todo[t]))
  BY StepFacts
<1>2. /\ todo' = [todo EXCEPT ![t] = Rest(t)] /\ todo'[t] = Rest(t)
      /\ \A u \in Tasks \ {t} : todo'[u] = todo[u]
      /\ running' \in {t, NoTask} /\ (running' = t => Rest(t) # <<>>)
  BY <1>1, Going
<1>3. Others(t) /\ ~InTurn(t)'
  BY <1>1, <1>2 DEF Others, InTurn
<1>4. Rest(t) # <<>> => Head(Rest(t)) # "closing"
  BY <1>1, HeadOfRest
<1>5. \A c \in Chats : Queued(t, c)' <=> Queued(t, c)
  BY <1>1, <1>2, <1>4, QueueSame DEF Next1
<1> QED
  BY <1>1, <1>2, <1>3, <1>5, LockFrame

LEMMA LockFree ==
  ASSUME TypeOK, LockInv, NEW t \in Tasks, NEW q, todo' = [todo EXCEPT ![t] = q], ~Owes(q), ~Owes(todo[t]),
         locks' = locks, victim' = victim \/ \A u \in Tasks \ {t} : victim'[u] = victim[u],
         \A u \in Tasks \ {t} : held'[u] = held[u], ~Next1(t, {"closing"}), q # <<>> => Head(q) # "closing",
         q # <<"finish">>, ~Waits(t), running' \in {t, NoTask}, running' = t => q # <<>>
  PROVE  LockInv'
<1>1. todo'[t] = q /\ Others(t) /\ ~InTurn(t)'
  BY DEF TypeOK, Others, InTurn
<1>2. \A c \in Chats : Queued(t, c)' <=> Queued(t, c)
  BY QueueSame
<1> QED
  BY <1>1, <1>2, LockFrame

LEMMA LockLeave ==
  ASSUME TypeOK, ProgramInv, LockInv, NEW t \in Tasks, NEW x \in Ends, At(t, x), NEW q \in {<<>>, Rest(t)},
         locks' = Leave(held[t]), UNCHANGED <<held, victim>>, todo' = [todo EXCEPT ![t] = q],
         running' \in {t, NoTask}, running' = t => q # <<>>
  PROVE  LockInv' /\ locks[held[t]] # <<>>
<1>1. /\ Rest(t) \in Seq(Steps) /\ NoCloseNorFinish(Rest(t)) /\ Rest(t) # <<"finish">>
      /\ todo[t] # <<>> /\ Head(todo[t]) = x /\ ~Waits(t) /\ ~Owes(Rest(t)) /\ Owes(todo[t])
      /\ held[t] \in Chats
  BY StepFacts DEF Ends, Using
<1>2. q \in Seq(Steps) /\ ~Owes(q) /\ q # <<"finish">> /\ (q # <<>> => Head(q) # "closing")
  <2>1. CASE q = <<>>
    BY <2>1, EmptyProgram
  <2>2. CASE q = Rest(t)
    BY <2>2, <1>1, HeadOfRest
  <2> QED
    BY <2>1, <2>2
<1>3. Others(t) /\ todo'[t] = q /\ ~InTurn(t)'
  BY <1>2 DEF Others, InTurn, TypeOK
<1>4. /\ \A d \in Chats : Queued(t, d) <=> d = held[t]
      /\ \A d \in Chats : ~Queued(t, d)'
  BY <1>1, <1>2, <1>3 DEF Queued, Next1, Ends
<1> QED
  BY <1>1, <1>3, <1>4, LeaveLock

LEMMA LockClose ==
  ASSUME TypeOK, ProgramInv, LockInv, PoolInv, NEW t \in Tasks, Close(t)
  PROVE  LockInv' /\ locks[victim[t].chat] # <<>>
<1>1. locks' = Leave(victim[t].chat) /\ UNCHANGED held /\ victim' = [victim EXCEPT ![t] = NoEntry]
  BY DEF Close
<1>2. PICK q \in Seq(Steps) :
           /\ (q # <<>> => Head(q) \notin {"close", "closing"}) /\ ~Owes(q) /\ q # <<"finish">>
           /\ todo' = [todo EXCEPT ![t] = q] /\ running' \in {t, NoTask} /\ (running' = t => q # <<>>)
           /\ todo[t] # <<>> /\ Head(todo[t]) = "closing" /\ ~Owes(todo[t]) /\ ~Waits(t)
  BY BusySteps
<1>3. Others(t) /\ todo'[t] = q /\ ~InTurn(t)'
  BY <1>1, <1>2 DEF Others, InTurn, TypeOK
<1>4. victim[t].chat \in Chats
  BY <1>2, VictimFacts DEF Next1
<1>5. /\ \A d \in Chats : Queued(t, d) <=> d = victim[t].chat
      /\ \A d \in Chats : ~Queued(t, d)'
  BY <1>2, <1>3 DEF Queued, Next1
<1> QED
  BY <1>1, <1>2, <1>3, <1>4, <1>5, LeaveLock

LEMMA LockStep ==
  ASSUME TypeOK, ProgramInv, LockInv, PoolInv, [Next]_vars
  PROVE  LockInv'
<1>1. CASE UNCHANGED vars
  BY <1>1 DEF vars, chatVars, taskVars, LockInv, Queued, Next1, InTurn, Waits
<1> USE DEF chatVars
<1>2. ASSUME NEW t \in Tasks, NEW op \in Ops, NEW s \in Ids, Start(t, op, s) PROVE LockInv'
  <2>1. At(t, "start") /\ GoOn(t, Program[op]) /\ UNCHANGED <<locks, victim, held>>
    BY <1>2 DEF Start
  <2>2. /\ Program[op] \in Seq(Steps) /\ Program[op] # <<>> /\ ~Owes(Program[op]) /\ Program[op] # <<"finish">>
        /\ Head(Program[op]) \in {"get", "active"}
    BY Programs, Constants
  <2>3. outcome[t] = "none" /\ todo[t] # <<>> /\ Head(todo[t]) = "start" /\ ~Waits(t) /\ ~Owes(todo[t])
    BY <2>1, StepFacts DEF UnderLock
  <2>4. todo' = [todo EXCEPT ![t] = Program[op]] /\ running' \in {t, NoTask}
    BY <2>1, <2>2, <2>3, Going
  <2> HIDE DEF Program
  <2> QED
    BY <2>1, <2>2, <2>3, <2>4, LockFree DEF Next1
<1>3. ASSUME NEW t \in Tasks, NEW x \in {"get", "active", "lookup", "exists"}, NEW y \in {"lookup", "create", "list"},
             At(t, x), GoOn(t, <<y>> \o Rest(t)), UNCHANGED <<locks, victim, held>>
      PROVE  LockInv'
  <2>1. x \in Steps /\ x \notin UnderLock \cup {"acquire"} /\ y \in Inserted
    BY DEF Steps, UnderLock, Inserted
  <2>2. PICK q \in Seq(Steps) :
          /\ q # <<>> /\ Head(q) = y /\ ~Owes(q) /\ q # <<"finish">>
          /\ todo' = [todo EXCEPT ![t] = q] /\ running' \in {t, NoTask}
    BY <1>3, <2>1, Insertion
  <2>3. todo[t] # <<>> /\ Head(todo[t]) = x /\ ~Waits(t) /\ ~Owes(todo[t])
    BY <1>3, <2>1, StepFacts
  <2> QED
    BY <1>3, <2>2, <2>3, LockFree DEF Next1
<1>4. ASSUME NEW t \in Tasks, Found(t) PROVE LockInv'
  <2>1. At(t, "lookup") /\ GoOn(t, Rest(t)) /\ UNCHANGED <<locks, victim>> /\ \A u \in Tasks \ {t} : held'[u] = held[u]
    BY <1>4 DEF Found, TypeOK
  <2>2. /\ Rest(t) \in Seq(Steps) /\ NoCloseNorFinish(Rest(t)) /\ Rest(t) # <<"finish">> /\ outcome[t] = "none"
        /\ todo[t] # <<>> /\ Head(todo[t]) = "lookup" /\ ~Waits(t) /\ ~Owes(Rest(t)) /\ ~Owes(todo[t])
    BY <2>1, StepFacts DEF Ends, UnderLock
  <2>3. /\ todo' = [todo EXCEPT ![t] = Rest(t)] /\ running' \in {t, NoTask} /\ (running' = t => Rest(t) # <<>>)
    BY <2>1, <2>2, Going
  <2>4. Rest(t) # <<>> => Head(Rest(t)) # "closing"
    BY <2>2, HeadOfRest
  <2> QED
    BY <2>1, <2>2, <2>3, <2>4, LockFree DEF Next1
<1>5. ASSUME NEW t \in Tasks,
             NEW x \in {"current", "later", "exists", "list", "read", "adopt", "activate", "erase", "rename",
                        "evictLru", "evict"},
             At(t, x), GoOn(t, Rest(t)), UNCHANGED <<locks, victim, held>>
      PROVE  LockInv'
  <2>1. x \in Steps /\ x \notin Ends \cup {"acquire", "closing"}
    BY DEF Steps, Awaited, Ends
  <2> QED
    BY <1>5, <2>1, LockRest
<1>6. ASSUME NEW t \in Tasks, NEW x \in {"list", "read", "erase"}, NEW r, At(t, x), End(t, r),
             UNCHANGED <<locks, victim, held>>
      PROVE  LockInv'
  <2>1. x \notin UnderLock /\ x # "closing"
    BY DEF UnderLock
  <2>2. todo[t] # <<>> /\ Head(todo[t]) = x /\ ~Waits(t) /\ ~Owes(todo[t])
    BY <1>6, <2>1, StepFacts
  <2>3. todo' = [todo EXCEPT ![t] = <<>>] /\ running' = NoTask
    BY <1>6 DEF End
  <2>4. <<>> # <<"finish">> /\ ~Owes(<<>>)
    BY EmptyProgram
  <2>5. ~Next1(t, {"closing"})
    BY <2>1, <2>2 DEF Next1
  <2> QED
    BY <1>6, <2>2, <2>3, <2>4, <2>5, Constants, LockFree
<1>7. ASSUME NEW t \in Tasks, Created(t) \/ CreatedNew(t) PROVE LockInv'
  <2>1. UNCHANGED <<locks, victim>> /\ \A u \in Tasks \ {t} : held'[u] = held[u]
    BY <1>7 DEF Created, CreatedNew, TypeOK
  <2>2. PICK q \in Seq(Steps) :
          /\ q # <<>> /\ Head(q) = "evictLru" /\ ~Owes(q) /\ q # <<"finish">>
          /\ todo' = [todo EXCEPT ![t] = q] /\ running' = t
          /\ todo[t] # <<>> /\ Head(todo[t]) \in {"create", "createNew"} /\ ~Owes(todo[t])
    BY <1>7, BusySteps
  <2>3. ~Waits(t)
    BY <1>7, StepFacts DEF Created, CreatedNew
  <2> QED
    BY <2>1, <2>2, <2>3, LockFree DEF Next1
<1>8. ASSUME NEW t \in Tasks, (EvictLru(t) /\ TooMany) \/ (Evict(t) /\ Has(arg[t])) PROVE LockInv'
  <2>1. UNCHANGED <<locks, held>> /\ \A u \in Tasks \ {t} : victim'[u] = victim[u]
    BY <1>8 DEF EvictLru, Evict, TypeOK
  <2>2. PICK q \in Seq(Steps) :
          /\ q # <<>> /\ Head(q) = "close" /\ ~Owes(q) /\ q # <<"finish">>
          /\ todo' = [todo EXCEPT ![t] = q] /\ running' = t
          /\ todo[t] # <<>> /\ Head(todo[t]) \in {"evict", "evictLru"} /\ ~Owes(todo[t])
    BY <1>8, BusySteps
  <2>3. ~Waits(t)
    BY <1>8, StepFacts DEF EvictLru, Evict
  <2> QED
    BY <2>1, <2>2, <2>3, LockFree DEF Next1
<1>9. ASSUME NEW t \in Tasks, LockToClose(t) PROVE LockInv'
  <2> DEFINE c == victim[t].chat
  <2>1. /\ locks' = Enter(t, c) /\ UNCHANGED <<held, victim>> /\ At(t, "close")
        /\ running' = t => locks[c] = <<>>
    BY <1>9, Constants DEF LockToClose
  <2>2. PICK q \in Seq(Steps) :
          /\ q # <<>> /\ Head(q) = "closing" /\ ~Owes(q) /\ q # <<"finish">>
          /\ todo' = [todo EXCEPT ![t] = q] /\ running' \in {t, NoTask}
          /\ todo[t] # <<>> /\ Head(todo[t]) = "close" /\ ~Owes(todo[t])
    BY <1>9, BusySteps
  <2>3. ~Waits(t)
    BY <2>1, StepFacts
  <2>4. c \in Chats
    BY <2>2, VictimFacts DEF Next1
  <2>5. Others(t) /\ todo'[t] = q /\ ~InTurn(t)' /\ victim'[t].chat = c
    BY <2>1, <2>2 DEF Others, InTurn, TypeOK
  <2> HIDE DEF c
  <2>6. /\ \A d \in Chats : ~Queued(t, d)
        /\ \A d \in Chats : Queued(t, d)' <=> d = c
    BY <2>2, <2>5 DEF Queued, Next1
  <2> QED
    BY <2>1, <2>2, <2>3, <2>4, <2>5, <2>6, EnterLock
<1>10. ASSUME NEW t \in Tasks, Acquire(t) PROVE LockInv'
  <2> DEFINE c == held[t]
  <2>1. /\ locks' = Enter(t, c) /\ UNCHANGED <<held, victim>> /\ At(t, "acquire")
        /\ running' \in {t, NoTask} /\ (running' = t => locks[c] = <<>>)
        /\ todo' = [todo EXCEPT ![t] = Rest(t)]
    BY <1>10, Constants DEF Acquire
  <2>2. /\ Rest(t) \in Seq(Steps) /\ NoCloseNorFinish(Rest(t)) /\ Rest(t) # <<"finish">>
        /\ todo[t] # <<>> /\ Head(todo[t]) = "acquire" /\ ~Waits(t) /\ Owes(Rest(t)) /\ ~Owes(todo[t])
        /\ c \in Chats
    BY <2>1, StepFacts DEF Using
  <2>3. Rest(t) # <<>>
    BY <2>2, EmptyProgram
  <2>4. Others(t) /\ todo'[t] = Rest(t) /\ ~InTurn(t)' /\ held'[t] = c
    BY <2>1, <2>2 DEF Others, InTurn, TypeOK
  <2> HIDE DEF c
  <2>5. Head(Rest(t)) # "closing"
    BY <2>2, <2>3, HeadOfRest
  <2>6. /\ \A d \in Chats : ~Queued(t, d)
        /\ \A d \in Chats : Queued(t, d)' <=> d = c
    BY <2>2, <2>3, <2>4, <2>5 DEF Queued, Next1
  <2> QED
    BY <2>1, <2>2, <2>3, <2>4, <2>6, EnterLock
<1>11. ASSUME NEW t \in Tasks, Release(t) PROVE LockInv'
  <2>1. At(t, "release") /\ GoOn(t, Rest(t)) /\ locks' = Leave(held[t]) /\ UNCHANGED <<held, victim>>
    BY <1>11 DEF Release
  <2>2. todo' = [todo EXCEPT ![t] = Rest(t)] /\ running' \in {t, NoTask} /\ (running' = t => Rest(t) # <<>>)
    BY <2>1, StepFacts, Going
  <2> QED
    BY <2>1, <2>2, LockLeave DEF Ends
<1>12. ASSUME NEW t \in Tasks, NEW x \in {"turn", "finish"}, At(t, x), locks' = Leave(held[t]), UNCHANGED <<held, victim>>,
              GoOn(t, <<>>) \/ \E r : End(t, r)
       PROVE  LockInv'
  <2>1. todo' = [todo EXCEPT ![t] = <<>>] /\ running' = NoTask
    BY <1>12 DEF GoOn, End
  <2> QED
    BY <1>12, <2>1, Constants, LockLeave DEF Ends
<1>13. ASSUME NEW t \in Tasks, At(t, "turn"), GoOn(t, <<"finish">>), UNCHANGED <<locks, held, victim>>
       PROVE  LockInv'
  <2> DEFINE q == <<"finish">>
  <2>1. q \in Seq(Steps) /\ Owes(q) /\ q # <<>> /\ Head(q) = "finish"
    BY FinishProgram
  <2> HIDE DEF q
  <2>2. todo[t] # <<>> /\ Head(todo[t]) = "turn" /\ ~Waits(t) /\ Owes(todo[t]) /\ held[t] \in Chats /\ outcome[t] = "none"
    BY <1>13, StepFacts DEF Ends, Using
  <2>3. GoOn(t, q)
    BY <1>13 DEF q
  <2>4. todo' = [todo EXCEPT ![t] = q] /\ todo'[t] = q /\ running' \in {t, NoTask}
    BY <2>1, <2>2, <2>3, Going
  <2>5. Others(t)
    BY <1>13, <2>4 DEF Others, TypeOK
  <2>6. \A c \in Chats : Queued(t, c)' <=> Queued(t, c)
    BY <1>13, <2>1, <2>2, <2>4, QueueSame DEF Next1
  <2> QED
    BY <1>13, <2>1, <2>2, <2>4, <2>5, <2>6, LockFrame
<1>14. ASSUME NEW t \in Tasks, Get(t) \/ NotFound(t) \/ Exists(t) PROVE LockInv'
  BY <1>14, <1>3, <1>5 DEF Get, Want, NotFound, Exists
<1>15. ASSUME NEW t \in Tasks, SetCurrent(t) \/ Later(t) \/ Adopt(t) \/ Activate(t) \/ Rename(t) PROVE LockInv'
  BY <1>15, <1>5 DEF SetCurrent, Later, Adopt, Activate, Rename
<1>16. ASSUME NEW t \in Tasks, List(t) \/ Read(t) \/ Erase(t) PROVE LockInv'
  BY <1>16, <1>5, <1>6 DEF List, Read, Erase
<1>17. ASSUME NEW t \in Tasks, EvictLru(t) \/ Evict(t) PROVE LockInv'
  BY <1>17, <1>5, <1>8 DEF EvictLru, Evict
<1>18. ASSUME NEW t \in Tasks, Turn(t) \/ Refuse(t) \/ Finish(t) \/ TurnFails(t) PROVE LockInv'
  BY <1>18, <1>12, <1>13 DEF Turn, Refuse, Finish, TurnFails
<1> QED
  BY <1>1, <1>2, <1>4, <1>7, <1>9, <1>10, <1>11, <1>14, <1>15, <1>16, <1>17, <1>18, LockClose, LeaveQueue
  DEF Next, Step

-----------------------------------------------------------------------------
(* Every variable keeps its type.                                            *)
TypeTasks ==
  /\ todo \in [Tasks -> Seq(Steps)] /\ running \in Tasks \cup {NoTask}
  /\ outcome \in [Tasks -> {"none", "ok", "failed", "missing", "closed"}]

TypePool ==
  /\ entries \in Seq(Entry) /\ made \in 0..MaxChats
  /\ active \in Ids /\ current \in Chats \cup {NoChat} /\ indexing \subseteq Chats /\ issued \subseteq Fresh

TypeChats ==
  /\ closed \subseteq Chats /\ sidOf \in [Chats -> Ids] /\ messages \in [Chats -> SUBSET Tasks]
  /\ locks \in [Chats -> Seq(Tasks)] /\ rows \in [Ids -> SUBSET Tasks]

TypeRequests ==
  /\ arg \in [Tasks -> Ids] /\ want \in [Tasks -> Ids]
  /\ held \in [Tasks -> Chats \cup {NoChat}] /\ loaded \in [Tasks -> SUBSET Tasks]
  /\ victim \in [Tasks -> Entry \cup {NoEntry}] /\ turn \in [Tasks -> [sid : Ids, ctx : SUBSET Tasks]]
  /\ gone \subseteq Ids /\ outdated \subseteq Ids

LEMMA TypeParts == TypeOK <=> TypeTasks /\ TypePool /\ TypeChats /\ TypeRequests
BY DEF TypeOK, TypeTasks, TypePool, TypeChats, TypeRequests

LEMMA Excepting ==
  ASSUME NEW A, NEW B, NEW f \in [A -> B], NEW k, NEW v, k \in A => v \in B
  PROVE  [f EXCEPT ![k] = v] \in [A -> B]
OBVIOUS

LEMMA TypeTasksStep ==
  ASSUME TypeOK, ProgramInv, LockInv, PoolInv, [Next]_vars
  PROVE  TypeTasks'
<1>1. CASE UNCHANGED vars
  BY <1>1, TypeParts DEF vars, taskVars, TypeTasks
<1>2. ASSUME NEW t \in Tasks, NEW q \in Seq(Steps), todo' = [todo EXCEPT ![t] = q], running' \in {t, NoTask}
      PROVE  todo' \in [Tasks -> Seq(Steps)] /\ running' \in Tasks \cup {NoTask}
  BY <1>2 DEF TypeOK
<1>3. ASSUME NEW t \in Tasks, QuietAction(t)
      PROVE  todo' \in [Tasks -> Seq(Steps)] /\ running' \in Tasks \cup {NoTask}
  BY <1>2, <1>3, QuietActions DEF QuietStep
<1>4. ASSUME NEW t \in Tasks, BusyAction(t)
      PROVE  todo' \in [Tasks -> Seq(Steps)] /\ running' \in Tasks \cup {NoTask}
  <2>1. PICK q \in Seq(Steps) : todo' = [todo EXCEPT ![t] = q] /\ running' \in {t, NoTask}
    BY <1>4, BusySteps DEF BusyAction
  <2> QED
    BY <1>2, <2>1
<1>5. ASSUME NEW t \in Tasks, (\E q : GoOn(t, q)) \/ (\E r \in {"failed", "missing", "closed"} : End(t, r)) \/ outcome' = outcome
      PROVE  outcome' \in [Tasks -> {"none", "ok", "failed", "missing", "closed"}]
  BY <1>5 DEF TypeOK, GoOn, End
<1>6. ASSUME NEW t \in Tasks, (\E op \in Ops, s \in Ids : Start(t, op, s)) \/ Step(t) \/ GiveUp(t)
      PROVE  outcome' \in [Tasks -> {"none", "ok", "failed", "missing", "closed"}]
  <2>1. CASE \E op \in Ops, s \in Ids : Start(t, op, s)
    BY <1>5, <2>1 DEF Start
  <2>2. CASE Get(t) \/ Found(t) \/ NotFound(t) \/ Created(t) \/ CreatedNew(t) \/ EvictLru(t) \/ Evict(t) \/ LockToClose(t) \/ Close(t)
    BY <1>5, <2>2 DEF Get, Want, Found, NotFound, Created, CreatedNew, EvictLru, Evict, LockToClose, Close
  <2>3. CASE SetCurrent(t) \/ Later(t) \/ Exists(t) \/ List(t) \/ Read(t) \/ Adopt(t) \/ Acquire(t) \/ Release(t) \/ Activate(t)
    BY <1>5, <2>3 DEF SetCurrent, Later, Exists, List, Read, Adopt, Acquire, Release, Activate
  <2>4. CASE Erase(t) \/ Rename(t) \/ Turn(t) \/ Refuse(t) \/ Finish(t) \/ TurnFails(t) \/ GiveUp(t)
    BY <1>5, <2>4 DEF Erase, Rename, Turn, Refuse, Finish, TurnFails, GiveUp
  <2> QED
    BY <1>6, <2>1, <2>2, <2>3, <2>4 DEF Step
<1>7. CASE Next
  <2>1. PICK t \in Tasks : (\E op \in Ops, s \in Ids : Start(t, op, s)) \/ Step(t) \/ GiveUp(t)
    BY <1>7 DEF Next
  <2>2. QuietAction(t) \/ BusyAction(t)
    BY <2>1 DEF Step, QuietAction, BusyAction
  <2> QED
    BY <1>3, <1>4, <1>6, <2>1, <2>2 DEF TypeTasks
<1> QED
  BY <1>1, <1>7

LEMMA TypePoolStep ==
  ASSUME TypeOK, ProgramInv, LockInv, PoolInv, [Next]_vars
  PROVE  TypePool'
<1>0. TypePool /\ TypeRequests /\ Default \in Ids
  BY TypeParts, Constants
<1>1. CASE UNCHANGED vars
  BY <1>0, <1>1 DEF vars, poolVars, TypePool
<1> USE DEF poolVars
<1>2. ASSUME NEW t \in Tasks, NEW op \in Ops, NEW s \in Ids, Start(t, op, s) PROVE TypePool'
  BY <1>0, <1>2 DEF Start, TypePool
<1>3. ASSUME NEW t \in Tasks, Found(t) PROVE TypePool'
  BY <1>0, <1>3, EntriesFacts DEF Found, TypePool
<1>4. ASSUME NEW t \in Tasks, NEW s \in Ids, Build(s), ~Has(s), entries' = Append(Without(s), [sid |-> s, chat |-> made + 1])
      PROVE  entries' \in Seq(Entry) /\ made' \in 0..MaxChats
  <2>1. entries' \in Seq(Entry)
    BY <1>4, NewEntry DEF Build
  <2>2. made' \in 0..MaxChats
    BY <1>0, <1>4, Constants DEF Build, TypePool
  <2> QED
    BY <2>1, <2>2
<1>5. ASSUME NEW t \in Tasks, Created(t) PROVE TypePool'
  <2>1. want[t] \in Ids /\ Build(want[t]) /\ UNCHANGED <<active, current, issued, indexing>>
    BY <1>5 DEF Created, TypeOK
  <2>2. CASE Has(want[t])
    <3>1. entries' \in Seq(Entry)
      BY <1>5, <2>2, EntriesFacts DEF Created, Duplicate
    <3>2. made' \in 0..MaxChats
      BY <1>0, <2>1, Constants DEF Build, TypePool
    <3> QED
      BY <1>0, <2>1, <3>1, <3>2 DEF TypePool
  <2>3. CASE ~Has(want[t])
    <3>1. entries' = Append(Without(want[t]), [sid |-> want[t], chat |-> made + 1])
      BY <1>5, <2>3 DEF Created, Duplicate
    <3> QED
      BY <1>0, <1>4, <2>1, <2>3, <3>1 DEF TypePool
  <2> QED
    BY <2>2, <2>3
<1>6. ASSUME NEW t \in Tasks, CreatedNew(t) PROVE TypePool'
  <2>1. PICK s \in Fresh \ issued :
          /\ Build(s) /\ UNCHANGED <<current, indexing>> /\ issued' = issued \cup {s} /\ active' = s
          /\ entries' = Append(Without(s), [sid |-> s, chat |-> made + 1])
    BY <1>6 DEF CreatedNew
  <2>2. s \in Ids /\ ~Has(s)
    BY <2>1, EntriesFacts, ConstantsAssumption DEF Ids, KnownIds, PoolInv
  <2> QED
    BY <1>0, <1>4, <2>1, <2>2 DEF TypePool
<1>7. ASSUME NEW t \in Tasks, EvictLru(t) \/ Evict(t) \/ Close(t) PROVE TypePool'
  <2>1. /\ UNCHANGED <<made, issued, indexing>> /\ active' \in {active, Default} /\ current' \in {current, NoChat}
        /\ entries' = entries \/ entries' = Without(arg[t]) \/ (TooMany /\ entries' = Tail(entries))
    BY <1>7 DEF EvictLru, Evict, Close, ClearStale
  <2>2. entries' \in Seq(Entry)
    BY <1>0, <2>1, EntriesFacts, Oldest DEF TypePool
  <2> QED
    BY <1>0, <2>1, <2>2 DEF TypePool
<1>8. ASSUME NEW t \in Tasks, SetCurrent(t) \/ Activate(t) PROVE TypePool'
  BY <1>0, <1>8 DEF SetCurrent, Activate, TypePool, TypeRequests
<1>9. ASSUME NEW t \in Tasks, Rename(t) PROVE TypePool'
  BY <1>0, <1>9 DEF Rename, TypePool
<1>10. ASSUME NEW t \in Tasks, Turn(t) PROVE TypePool'
  <2>1. held[t] \in Chats
    BY <1>10, StepFacts DEF Turn, Using
  <2> QED
    BY <1>0, <1>10, <2>1 DEF Turn, TypePool
<1>11. ASSUME NEW t \in Tasks,
              \/ Get(t) \/ NotFound(t) \/ LockToClose(t) \/ Later(t) \/ Exists(t) \/ List(t) \/ Read(t)
              \/ Adopt(t) \/ Acquire(t) \/ Release(t)
       PROVE  TypePool'
  <2>1. UNCHANGED poolVars
    BY <1>11 DEF Get, Want, NotFound, LockToClose, Later, Exists, List, Read, Adopt, Acquire, Release
  <2> QED
    BY <1>0, <2>1 DEF TypePool
<1>12. ASSUME NEW t \in Tasks, Erase(t) \/ Refuse(t) \/ Finish(t) \/ TurnFails(t) \/ GiveUp(t) PROVE TypePool'
  <2>1. UNCHANGED poolVars
    BY <1>12 DEF Erase, Refuse, Finish, TurnFails, GiveUp
  <2> QED
    BY <1>0, <2>1 DEF TypePool
<1> QED
  BY <1>1, <1>2, <1>3, <1>5, <1>6, <1>7, <1>8, <1>9, <1>10, <1>11, <1>12 DEF Next, Step

LEMMA TypeChatsStep ==
  ASSUME TypeOK, ProgramInv, LockInv, PoolInv, [Next]_vars
  PROVE  TypeChats'
<1>0. TypeChats /\ TypeRequests
  BY TypeParts
<1>1. CASE UNCHANGED vars
  BY <1>0, <1>1 DEF vars, chatVars, TypeChats
<1> USE DEF chatVars
<1>2. ASSUME NEW t \in Tasks, NEW op \in Ops, NEW s \in Ids, Start(t, op, s) PROVE TypeChats'
  <2>1. UNCHANGED <<chatVars, rows>>
    BY <1>2 DEF Start
  <2> QED
    BY <1>0, <2>1 DEF TypeChats
<1>3. ASSUME NEW t \in Tasks, Created(t) \/ CreatedNew(t) PROVE TypeChats'
  <2>1. PICK s \in Ids :
          /\ made < MaxChats /\ sidOf' = [sidOf EXCEPT ![made + 1] = s] /\ UNCHANGED <<messages, locks, rows>>
          /\ closed' = closed \/ closed' = closed \cup {made + 1}
    BY <1>0, <1>3 DEF Created, CreatedNew, Build, TypeRequests, Ids
  <2>2. made + 1 \in Chats
    BY <2>1, Constants DEF TypeOK, Chats
  <2> QED
    BY <1>0, <2>1, <2>2 DEF TypeChats
<1>4. ASSUME NEW t \in Tasks, Close(t) PROVE TypeChats'
  <2>1. victim[t].chat \in Chats /\ locks[victim[t].chat] # <<>>
    BY <1>4, BusySteps, VictimFacts, LockClose DEF Next1
  <2>2. locks' \in [Chats -> Seq(Tasks)]
    BY <1>0, <1>4, <2>1 DEF Close, Leave, TypeChats
  <2>3. closed' \subseteq Chats /\ UNCHANGED <<sidOf, messages, rows>>
    BY <1>0, <1>4, <2>1 DEF Close, TypeChats
  <2> QED
    BY <1>0, <2>2, <2>3 DEF TypeChats
<1>5. ASSUME NEW t \in Tasks, Adopt(t) \/ Rename(t) PROVE TypeChats'
  <2>1. /\ UNCHANGED <<closed, locks, rows>>
        /\ \E s \in Ids : sidOf' = [sidOf EXCEPT ![held[t]] = s]
        /\ \E m \in SUBSET Tasks : messages' = [messages EXCEPT ![held[t]] = m]
    BY <1>0, <1>5 DEF Adopt, Rename, TypeRequests, Ids
  <2> QED
    BY <1>0, <2>1 DEF TypeChats
<1>6. ASSUME NEW t \in Tasks, Acquire(t) \/ LockToClose(t) PROVE TypeChats'
  <2>1. /\ UNCHANGED <<closed, sidOf, messages, rows>> /\ \E c : locks' = Enter(t, c)
    BY <1>6 DEF Acquire, LockToClose
  <2>2. PICK c : locks' = [locks EXCEPT ![c] = Append(locks[c], t)]
    BY <2>1 DEF Enter
  <2>3. c \in Chats => Append(locks[c], t) \in Seq(Tasks)
    BY <1>0 DEF TypeChats
  <2>4. locks' \in [Chats -> Seq(Tasks)]
    BY <1>0, <2>2, <2>3, Excepting DEF TypeChats
  <2> QED
    BY <1>0, <2>1, <2>4 DEF TypeChats
<1>7. ASSUME NEW t \in Tasks, locks' = Leave(held[t]), NEW x \in Ends, At(t, x), NEW q \in {<<>>, Rest(t)},
             UNCHANGED <<held, victim>>, todo' = [todo EXCEPT ![t] = q], running' \in {t, NoTask},
             running' = t => q # <<>>
      PROVE  locks' \in [Chats -> Seq(Tasks)]
  <2>1. locks[held[t]] # <<>>
    BY <1>7, LockLeave
  <2>2. held[t] \in Chats => Tail(locks[held[t]]) \in Seq(Tasks)
    BY <1>0, <2>1 DEF TypeChats
  <2>3. locks' = [locks EXCEPT ![held[t]] = Tail(locks[held[t]])]
    BY <1>7 DEF Leave
  <2> QED
    BY <1>0, <2>2, <2>3, Excepting DEF TypeChats
<1>8. ASSUME NEW t \in Tasks, Release(t) PROVE TypeChats'
  <2>1. /\ At(t, "release") /\ GoOn(t, Rest(t)) /\ locks' = Leave(held[t]) /\ UNCHANGED <<held, victim>>
        /\ UNCHANGED <<closed, sidOf, messages, rows>>
    BY <1>8 DEF Release
  <2>2. todo' = [todo EXCEPT ![t] = Rest(t)] /\ running' \in {t, NoTask} /\ (running' = t => Rest(t) # <<>>)
    BY <2>1, StepFacts, Going
  <2>3. locks' \in [Chats -> Seq(Tasks)]
    BY <2>1, <2>2, <1>7 DEF Ends
  <2> QED
    BY <1>0, <2>1, <2>3 DEF TypeChats
<1>9. ASSUME NEW t \in Tasks, NEW x \in {"turn", "finish"}, At(t, x), locks' = Leave(held[t]), UNCHANGED <<held, victim>>,
             GoOn(t, <<>>) \/ \E r : End(t, r)
      PROVE  locks' \in [Chats -> Seq(Tasks)]
  <2>1. todo' = [todo EXCEPT ![t] = <<>>] /\ running' = NoTask
    BY <1>9 DEF GoOn, End
  <2> QED
    BY <1>7, <1>9, <2>1, Constants DEF Ends
<1>10. ASSUME NEW t \in Tasks, Refuse(t) \/ Finish(t) \/ TurnFails(t) PROVE TypeChats'
  <2>1. locks' \in [Chats -> Seq(Tasks)]
    BY <1>9, <1>10 DEF Refuse, Finish, TurnFails
  <2>2. closed' \subseteq Chats /\ UNCHANGED sidOf
    BY <1>0, <1>10 DEF Refuse, Finish, TurnFails, TypeChats
  <2>3. /\ messages' = messages \/ messages' = [messages EXCEPT ![held[t]] = turn[t].ctx]
        /\ rows' = rows \/ rows' = [rows EXCEPT ![turn[t].sid] = @ \cup {t}]
    BY <1>10 DEF Refuse, Finish, TurnFails
  <2>4. turn[t].ctx \in SUBSET Tasks
    BY <1>0 DEF TypeRequests
  <2>5. messages' \in [Chats -> SUBSET Tasks]
    BY <1>0, <2>3, <2>4, Excepting DEF TypeChats
  <2>6. rows' \in [Ids -> SUBSET Tasks]
    BY <1>0, <2>3 DEF TypeChats
  <2> QED
    BY <1>0, <2>1, <2>2, <2>5, <2>6 DEF TypeChats
<1>11. ASSUME NEW t \in Tasks, Turn(t) PROVE TypeChats'
  <2>1. locks' \in [Chats -> Seq(Tasks)]
    <3>1. CASE held[t] \in closed
      BY <1>9, <1>11, <3>1 DEF Turn
    <3>2. CASE held[t] \notin closed
      BY <1>0, <1>11, <3>2 DEF Turn, TypeChats
    <3> QED
      BY <3>1, <3>2
  <2>2. /\ UNCHANGED <<closed, sidOf>> /\ messages' = [messages EXCEPT ![held[t]] = @ \cup {t}]
        /\ rows' = rows \/ rows' = [rows EXCEPT ![sidOf[held[t]]] = @ \cup {t}]
    BY <1>11 DEF Turn
  <2>3. messages' \in [Chats -> SUBSET Tasks]
    BY <1>0, <2>2 DEF TypeChats
  <2>4. rows' \in [Ids -> SUBSET Tasks]
    BY <1>0, <2>2 DEF TypeChats
  <2> QED
    BY <1>0, <2>1, <2>2, <2>3, <2>4 DEF TypeChats
<1>12. ASSUME NEW t \in Tasks, Erase(t) PROVE TypeChats'
  <2>1. UNCHANGED chatVars /\ (rows' = rows \/ rows' = [rows EXCEPT ![arg[t]] = {}])
    BY <1>12 DEF Erase
  <2> QED
    BY <1>0, <2>1 DEF TypeChats
<1>13. ASSUME NEW t \in Tasks, GiveUp(t) PROVE TypeChats'
  <2>1. PICK i \in 2..Len(locks[held[t]]) : locks' = [locks EXCEPT ![held[t]] = RemoveAt(@, i)]
    BY <1>13 DEF GiveUp
  <2>2. UNCHANGED <<closed, sidOf, messages, rows>>
    BY <1>13 DEF GiveUp
  <2>3. \A c \in Chats : c = held[t] => RemoveAt(locks[c], i) \in Seq(Tasks)
    <3> SUFFICES ASSUME NEW c \in Chats, c = held[t] PROVE RemoveAt(locks[c], i) \in Seq(Tasks)
      OBVIOUS
    <3>1. locks[c] \in Seq(Tasks) /\ IsInjective(locks[c])
      BY <1>0 DEF TypeChats, LockInv
    <3>2. i \in 1..Len(locks[c])
      BY <2>1, <3>1
    <3> QED
      BY <3>1, <3>2, Removing
  <2>4. locks' \in [Chats -> Seq(Tasks)]
    BY <1>0, <2>1, <2>3 DEF TypeChats
  <2> QED
    BY <1>0, <2>2, <2>4 DEF TypeChats
<1>14. ASSUME NEW t \in Tasks,
              \/ Get(t) \/ Found(t) \/ NotFound(t) \/ EvictLru(t) \/ Evict(t) \/ SetCurrent(t)
              \/ Later(t) \/ Exists(t) \/ List(t) \/ Read(t) \/ Activate(t)
       PROVE  TypeChats'
  <2>1. UNCHANGED <<chatVars, rows>>
    BY <1>14 DEF Get, Want, Found, NotFound, EvictLru, Evict, SetCurrent, Later, Exists, List, Read, Activate
  <2> QED
    BY <1>0, <2>1 DEF TypeChats
<1> QED
  BY <1>1, <1>2, <1>3, <1>4, <1>5, <1>6, <1>8, <1>10, <1>11, <1>12, <1>13, <1>14 DEF Next, Step

LEMMA TypeRequestsStep ==
  ASSUME TypeOK, ProgramInv, LockInv, PoolInv, [Next]_vars
  PROVE  TypeRequests'
<1>0. TypePool /\ TypeChats /\ TypeRequests /\ Default \in Ids
  BY TypeParts, Constants
<1>1. CASE UNCHANGED vars
  BY <1>0, <1>1 DEF vars, taskVars, history, TypeRequests
<1> USE DEF history
<1>2. ASSUME NEW t \in Tasks, NEW op \in Ops, NEW s \in Ids, Start(t, op, s) PROVE TypeRequests'
  BY <1>0, <1>2 DEF Start, TypeRequests
<1>3. ASSUME NEW t \in Tasks, Get(t) PROVE TypeRequests'
  BY <1>0, <1>3 DEF Get, Want, TypeRequests, TypePool
<1>4. ASSUME NEW t \in Tasks, Found(t) PROVE TypeRequests'
  BY <1>0, <1>4, EntryFacts DEF Found, TypeRequests
<1>5. ASSUME NEW t \in Tasks, Created(t) PROVE TypeRequests'
  <2>1. /\ made < MaxChats /\ UNCHANGED <<arg, want, loaded, victim, turn, history>>
        /\ \/ held' = [held EXCEPT ![t] = made + 1]
           \/ Has(want[t]) /\ held' = [held EXCEPT ![t] = EntryOf(want[t]).chat]
    BY <1>5 DEF Created, Build, Duplicate, Registered
  <2>2. made + 1 \in Chats
    BY <2>1, Constants DEF TypeOK, Chats
  <2>3. held' \in [Tasks -> Chats \cup {NoChat}]
    BY <1>0, <2>1, <2>2, EntryFacts DEF TypeRequests
  <2> QED
    BY <1>0, <2>1, <2>3 DEF TypeRequests
<1>6. ASSUME NEW t \in Tasks, CreatedNew(t) \/ NotFound(t) \/ SetCurrent(t) \/ Later(t) \/ Exists(t) \/ List(t) PROVE TypeRequests'
  <2>1. UNCHANGED <<arg, want, held, loaded, victim, turn, history>>
    BY <1>6 DEF CreatedNew, NotFound, SetCurrent, Later, Exists, List
  <2> QED
    BY <1>0, <2>1 DEF TypeRequests
<1>7. ASSUME NEW t \in Tasks, EvictLru(t) \/ Evict(t) PROVE TypeRequests'
  <2>1. /\ UNCHANGED <<arg, want, held, loaded, turn, outdated>>
        /\ victim' = victim \/ \E e \in Entry : victim' = [victim EXCEPT ![t] = e]
        /\ gone' = gone \/ \E s \in Ids : gone' = gone \cup {s}
    <3>1. ASSUME TooMany PROVE Head(entries) \in Entry /\ Head(entries).sid \in Ids
      BY <3>1, Oldest DEF Entry
    <3>2. ASSUME Has(arg[t]) PROVE EntryOf(arg[t]) \in Entry /\ arg[t] \in Ids
      BY <1>0, <3>2, EntryFacts DEF TypeRequests
    <3> QED
      BY <1>7, <3>1, <3>2 DEF EvictLru, Evict
  <2> QED
    BY <1>0, <2>1 DEF TypeRequests
<1>8. ASSUME NEW t \in Tasks, Close(t) \/ LockToClose(t) PROVE TypeRequests'
  <2>1. /\ UNCHANGED <<arg, want, held, loaded, turn, history>>
        /\ victim' = victim \/ victim' = [victim EXCEPT ![t] = NoEntry]
    BY <1>8 DEF Close, LockToClose
  <2> QED
    BY <1>0, <2>1 DEF TypeRequests
<1>9. ASSUME NEW t \in Tasks, Read(t) PROVE TypeRequests'
  <2>1. rows[arg[t]] \in SUBSET Tasks
    BY <1>0 DEF TypeRequests, TypeChats
  <2>2. /\ UNCHANGED <<arg, want, held, victim, turn, history>>
        /\ loaded' = loaded \/ loaded' = [loaded EXCEPT ![t] = rows[arg[t]]]
    BY <1>9 DEF Read
  <2> QED
    BY <1>0, <2>1, <2>2 DEF TypeRequests
<1>10. ASSUME NEW t \in Tasks, Adopt(t) PROVE TypeRequests'
  <2>1. UNCHANGED <<arg, want, held, loaded, victim, turn, gone>> /\ outdated' \subseteq outdated \cup {arg[t]}
    BY <1>10 DEF Adopt
  <2> QED
    BY <1>0, <2>1 DEF TypeRequests
<1>11. ASSUME NEW t \in Tasks, Rename(t) PROVE TypeRequests'
  <2>1. UNCHANGED <<arg, want, held, loaded, victim, turn, outdated>> /\ \E s \in Ids : gone' = gone \cup {s}
    BY <1>11 DEF Rename, Ids
  <2> QED
    BY <1>0, <2>1 DEF TypeRequests
<1>12. ASSUME NEW t \in Tasks, Turn(t) PROVE TypeRequests'
  <2>1. held[t] \in Chats
    BY <1>12, StepFacts DEF Turn, Using
  <2>2. [sid |-> sidOf[held[t]], ctx |-> messages[held[t]] \cup {t}] \in [sid : Ids, ctx : SUBSET Tasks]
    BY <1>0, <2>1 DEF TypeChats
  <2>3. /\ UNCHANGED <<arg, want, held, loaded, victim, history>>
        /\ turn' = turn \/ turn' = [turn EXCEPT ![t] = [sid |-> sidOf[held[t]], ctx |-> messages[held[t]] \cup {t}]]
    BY <1>12 DEF Turn
  <2> QED
    BY <1>0, <2>2, <2>3 DEF TypeRequests
<1>13. ASSUME NEW t \in Tasks,
              \/ Acquire(t) \/ Release(t) \/ Activate(t) \/ Erase(t) \/ Refuse(t) \/ Finish(t) \/ TurnFails(t) \/ GiveUp(t)
       PROVE  TypeRequests'
  <2>1. UNCHANGED <<arg, want, held, loaded, victim, turn, history>>
    BY <1>13 DEF Acquire, Release, Activate, Erase, Refuse, Finish, TurnFails, GiveUp
  <2> QED
    BY <1>0, <2>1 DEF TypeRequests
<1> QED
  BY <1>1, <1>2, <1>3, <1>4, <1>5, <1>6, <1>7, <1>8, <1>9, <1>10, <1>11, <1>12, <1>13 DEF Next, Step

LEMMA TypeStep ==
  ASSUME TypeOK, ProgramInv, LockInv, PoolInv, [Next]_vars
  PROVE  TypeOK'
<1>1. TypeTasks' /\ TypePool' /\ TypeChats' /\ TypeRequests'
  BY TypeTasksStep, TypePoolStep, TypeChatsStep, TypeRequestsStep
<1> QED
  BY <1>1 DEF TypeOK, TypeTasks, TypePool, TypeChats, TypeRequests

LEMMA TypeInitially == Init => TypeOK
<1> SUFFICES ASSUME Init PROVE TypeOK
  OBVIOUS
<1>1. <<"start">> \in Seq(Steps) /\ <<>> \in Seq(Entry) /\ <<>> \in Seq(Tasks)
  BY DEF Steps
<1> QED
  BY <1>1, Constants DEF Init, TypeOK, NoTurn

-----------------------------------------------------------------------------
(* What one step of a task may change, whatever the step.                    *)
TakesStep(t) == (\E op \in Ops, s \in Ids : Start(t, op, s)) \/ Step(t) \/ GiveUp(t)

LEMMA OthersStay ==
  ASSUME TypeOK, NEW t \in Tasks, TakesStep(t)
  PROVE  \A u \in Tasks \ {t} :
           /\ todo'[u] = todo[u] /\ outcome'[u] = outcome[u] /\ held'[u] = held[u]
           /\ want'[u] = want[u] /\ turn'[u] = turn[u] /\ victim'[u] = victim[u]
<1> DEFINE Requests4 == \A u \in Tasks \ {t} :
                          held'[u] = held[u] /\ want'[u] = want[u] /\ turn'[u] = turn[u] /\ victim'[u] = victim[u]
           Programs2 == \A u \in Tasks \ {t} : todo'[u] = todo[u] /\ outcome'[u] = outcome[u]
<1>a. /\ todo \in [Tasks -> Seq(Steps)] /\ outcome \in [Tasks -> {"none", "ok", "failed", "missing", "closed"}]
      /\ held \in [Tasks -> Chats \cup {NoChat}] /\ want \in [Tasks -> Ids]
      /\ turn \in [Tasks -> [sid : Ids, ctx : SUBSET Tasks]] /\ victim \in [Tasks -> Entry \cup {NoEntry}]
  BY DEF TypeOK
<1>b. ASSUME NEW q, GoOn(t, q) PROVE Programs2
  BY <1>a, <1>b DEF GoOn
<1>c. ASSUME NEW r, End(t, r) PROVE Programs2
  BY <1>a, <1>c DEF End
<1>1. ASSUME NEW op \in Ops, NEW s \in Ids, Start(t, op, s) PROVE Requests4 /\ Programs2
  BY <1>a, <1>b, <1>1 DEF Start
<1>2. CASE Get(t) \/ Found(t) \/ NotFound(t)
  BY <1>a, <1>b, <1>2 DEF Get, Want, Found, NotFound
<1>3. CASE Created(t) \/ CreatedNew(t)
  BY <1>a, <1>b, <1>3 DEF Created, CreatedNew
<1>4. CASE EvictLru(t) \/ Evict(t) \/ Close(t)
  BY <1>a, <1>b, <1>4 DEF EvictLru, Evict, Close
<1>5. CASE LockToClose(t) \/ Acquire(t)
  BY <1>a, <1>5 DEF LockToClose, Acquire
<1>6. CASE SetCurrent(t) \/ Later(t) \/ Exists(t) \/ Adopt(t) \/ Release(t) \/ Activate(t) \/ Rename(t)
  BY <1>a, <1>b, <1>6 DEF SetCurrent, Later, Exists, Adopt, Release, Activate, Rename
<1>7. CASE List(t) \/ Read(t) \/ Erase(t)
  BY <1>a, <1>b, <1>c, <1>7 DEF List, Read, Erase
<1>8. CASE Turn(t)
  BY <1>a, <1>b, <1>c, <1>8 DEF Turn
<1>9. CASE Refuse(t) \/ Finish(t) \/ TurnFails(t) \/ GiveUp(t)
  BY <1>a, <1>b, <1>c, <1>9 DEF Refuse, Finish, TurnFails, GiveUp
<1> QED
  BY <1>1, <1>2, <1>3, <1>4, <1>5, <1>6, <1>7, <1>8, <1>9 DEF TakesStep, Step

(* How a request may end, and when a turn begins.                            *)
LEMMA StepEnds ==
  ASSUME TypeOK, ProgramInv, LockInv, NEW t \in Tasks, TakesStep(t)
  PROVE  /\ todo[t] # <<>> /\ outcome[t] = "none"
         /\ outcome'[t] # "none" => todo'[t] = <<>>
         /\ outcome'[t] = "closed" => held[t] \in closed /\ ~Next1(t, {"lookup", "create"}) /\ held[t] \in Chats
         /\ outcome'[t] = "ok" => GoOn(t, <<>>)
         /\ InTurn(t)' => Turn(t) /\ held[t] \notin closed
<1>0. ASSUME NEW x, At(t, x) PROVE todo[t] # <<>> /\ Head(todo[t]) = x /\ outcome[t] = "none"
  BY <1>0, StepFacts
<1>a. todo \in [Tasks -> Seq(Steps)] /\ outcome \in [Tasks -> {"none", "ok", "failed", "missing", "closed"}]
  BY DEF TypeOK
<1>b. ASSUME NEW q, GoOn(t, q), outcome[t] = "none"
      PROVE  /\ todo'[t] = q /\ outcome'[t] \in {"none", "ok"} /\ (outcome'[t] # "none" => q = <<>>)
  BY <1>a, <1>b DEF GoOn
<1>c. ASSUME NEW r, End(t, r) PROVE todo'[t] = <<>> /\ outcome'[t] = r
  BY <1>a, <1>c DEF End
<1>d. <<>> # <<"finish">>
  BY EmptyProgram, FinishProgram
<1>e. ASSUME NEW x, At(t, x), GoOn(t, Rest(t)) \/ todo' = [todo EXCEPT ![t] = Rest(t)] PROVE ~InTurn(t)'
  BY <1>a, <1>b, <1>e, StepFacts DEF InTurn
<1>f. ASSUME NEW x, At(t, x), GoOn(t, Rest(t))
      PROVE  /\ todo[t] # <<>> /\ outcome[t] = "none" /\ ~InTurn(t)'
             /\ outcome'[t] \in {"none", "ok"} /\ (outcome'[t] # "none" => todo'[t] = <<>> /\ GoOn(t, <<>>))
  BY <1>0, <1>b, <1>e, <1>f
<1>g. ASSUME NEW x, At(t, x), NEW q, GoOn(t, q), q # <<>>, q # <<"finish">>
      PROVE  /\ todo[t] # <<>> /\ outcome[t] = "none" /\ ~InTurn(t)' /\ outcome'[t] = "none"
  BY <1>0, <1>b, <1>g DEF InTurn
<1>h. ASSUME NEW x, At(t, x), NEW r \in {"failed", "missing"}, End(t, r)
      PROVE  /\ todo[t] # <<>> /\ outcome[t] = "none" /\ ~InTurn(t)'
             /\ outcome'[t] = r /\ todo'[t] = <<>>
  <2>1. todo'[t] = <<>> /\ outcome'[t] = r
    BY <1>c, <1>h
  <2> QED
    BY <1>0, <1>d, <1>h, <2>1 DEF InTurn
<1>i. ASSUME NEW x, x \in Using, x \notin {"lookup", "create"}, At(t, x), End(t, "closed"), held[t] \in closed
      PROVE  /\ todo[t] # <<>> /\ outcome[t] = "none" /\ ~InTurn(t)' /\ todo'[t] = <<>> /\ outcome'[t] = "closed"
             /\ held[t] \in closed /\ ~Next1(t, {"lookup", "create"}) /\ held[t] \in Chats
  BY <1>0, <1>c, <1>d, <1>i, StepFacts DEF InTurn, Next1
<1>1. ASSUME NEW op \in Ops, NEW s \in Ids, Start(t, op, s)
      PROVE  todo[t] # <<>> /\ outcome[t] = "none" /\ ~InTurn(t)' /\ outcome'[t] = "none"
  <2>1. Program[op] # <<>> /\ Program[op] # <<"finish">>
    BY Programs, Constants
  <2>2. At(t, "start") /\ GoOn(t, Program[op])
    BY <1>1 DEF Start
  <2> HIDE DEF Program
  <2> QED
    BY <1>g, <2>1, <2>2
<1>2. ASSUME NEW x \in {"get", "active", "lookup", "exists"}, NEW y \in {"lookup", "create", "list"},
             At(t, x), GoOn(t, <<y>> \o Rest(t))
      PROVE  todo[t] # <<>> /\ outcome[t] = "none" /\ ~InTurn(t)' /\ outcome'[t] = "none"
  <2>1. x \in Steps /\ x \notin UnderLock \cup {"acquire"} /\ y \in Inserted
    BY DEF Steps, UnderLock, Inserted
  <2>2. <<y>> \o Rest(t) # <<>> /\ <<y>> \o Rest(t) # <<"finish">>
    BY <1>2, <2>1, Insertion
  <2> QED
    BY <1>2, <1>g, <2>2
<1>3. CASE Get(t) \/ NotFound(t) \/ Exists(t)
  BY <1>2, <1>3, <1>f DEF Get, Want, NotFound, Exists
<1>4. ASSUME Created(t) \/ CreatedNew(t) \/ (EvictLru(t) /\ TooMany) \/ (Evict(t) /\ Has(arg[t])) \/ LockToClose(t)
      PROVE  todo[t] # <<>> /\ outcome[t] = "none" /\ ~InTurn(t)' /\ outcome'[t] = "none"
  <2>1. PICK q : q # <<>> /\ q # <<"finish">> /\ todo' = [todo EXCEPT ![t] = q] /\ outcome' = outcome /\ todo[t] # <<>>
    BY <1>4, BusySteps
  <2>2. outcome[t] = "none"
    BY <2>1 DEF ProgramInv, ProgramOK
  <2> QED
    BY <1>a, <2>1, <2>2 DEF InTurn
<1>5. CASE (EvictLru(t) /\ ~TooMany) \/ (Evict(t) /\ ~Has(arg[t])) \/ Close(t)
  BY <1>5, <1>f DEF EvictLru, Evict, Close
<1>6. CASE Found(t) \/ SetCurrent(t) \/ Later(t) \/ Adopt(t) \/ Release(t) \/ Activate(t) \/ Rename(t)
  BY <1>6, <1>f DEF Found, SetCurrent, Later, Adopt, Release, Activate, Rename
<1>7. CASE List(t) \/ Read(t) \/ Erase(t)
  <2>1. "list" \in Using /\ "read" \in Using /\ "erase" \in Using
    BY DEF Using
  <2>2. CASE List(t)
    BY <2>2, <2>1, <1>f, <1>h, <1>i DEF List
  <2>3. CASE Read(t)
    BY <2>3, <2>1, <1>f, <1>i DEF Read
  <2>4. CASE Erase(t)
    BY <2>4, <2>1, <1>f, <1>i DEF Erase
  <2> QED
    BY <1>7, <2>2, <2>3, <2>4
<1>8. CASE Acquire(t)
  <2>1. At(t, "acquire") /\ todo' = [todo EXCEPT ![t] = Rest(t)] /\ outcome' = outcome
    BY <1>8 DEF Acquire
  <2> QED
    BY <2>1, <1>0, <1>e
<1>9. CASE Refuse(t) \/ TurnFails(t)
  BY <1>9, <1>h DEF Refuse, TurnFails
<1>10. CASE Turn(t)
  <2>1. CASE held[t] \in closed
    BY <1>10, <2>1, <1>i DEF Turn, Using
  <2>2. CASE held[t] \notin closed
    <3>1. At(t, "turn") /\ GoOn(t, <<"finish">>) /\ <<"finish">> # <<>>
      BY <1>10, <2>2 DEF Turn
    <3> QED
      BY <1>0, <1>b, <1>10, <2>2, <3>1
  <2> QED
    BY <2>1, <2>2
<1>11. CASE Finish(t)
  <2>1. At(t, "finish") /\ GoOn(t, <<>>)
    BY <1>11 DEF Finish
  <2> QED
    BY <2>1, <1>0, <1>b, <1>d DEF InTurn
<1>12. CASE GiveUp(t)
  <2>1. End(t, "failed") /\ todo[t] # <<>>
    BY <1>12 DEF GiveUp
  <2>2. outcome[t] = "none"
    BY <2>1 DEF ProgramInv, ProgramOK
  <2> QED
    BY <2>1, <2>2, <1>c, <1>d DEF InTurn
<1> QED
  BY <1>1, <1>3, <1>4, <1>5, <1>6, <1>7, <1>8, <1>9, <1>10, <1>11, <1>12 DEF TakesStep, Step

(* What a step may do to the pool: entries go with their ids, new ones are   *)
(* of instances just built.                                                  *)
LEMMA PoolEvolves ==
  ASSUME TypeOK, ProgramInv, LockInv, PoolInv, IdsInv, NEW t \in Tasks, TakesStep(t)
  PROVE  /\ \A s \in gone : s \in gone'
         /\ \A e \in Pool : e \in Pool' \/ e.sid \in gone'
         /\ \A e \in Pool' : e \in Pool \/ (/\ e.chat = made + 1 /\ made + 1 \in Chats
                                            /\ sidOf' = [sidOf EXCEPT ![made + 1] = e.sid]
                                            /\ ~Has(e.sid) /\ (e.sid = want[t] \/ e.sid \in Fresh \ issued)
                                            /\ Created(t) \/ CreatedNew(t))
         /\ \A c \in closed' : \/ c \in closed
                               \/ c = made + 1
                               \/ Close(t) /\ c = victim[t].chat
<1>1. CASE QuietAction(t)
  <2>1. Pool' = Pool /\ closed' = closed /\ gone \subseteq gone'
    BY <1>1, QuietActions DEF QuietStep, Pool
  <2> QED
    BY <2>1
<1>2. CASE Created(t) /\ Has(want[t])
  <2>1. Pool' = Pool /\ closed' = closed \cup {made + 1} /\ gone' = gone
    BY <1>2, EntriesFacts DEF Created, Build, Duplicate, history, Pool
  <2> QED
    BY <2>1
<1>3. ASSUME NEW s \in Ids, Build(s), ~Has(s), entries' = Append(Without(s), [sid |-> s, chat |-> made + 1]), closed' = closed, gone' = gone,
             s = want[t] \/ s \in Fresh \ issued, Created(t) \/ CreatedNew(t)
      PROVE  /\ \A r \in gone : r \in gone'
             /\ \A e \in Pool : e \in Pool' \/ e.sid \in gone'
             /\ \A e \in Pool' : e \in Pool \/ (/\ e.chat = made + 1 /\ made + 1 \in Chats
                                                /\ sidOf' = [sidOf EXCEPT ![made + 1] = e.sid]
                                                /\ ~Has(e.sid) /\ (e.sid = want[t] \/ e.sid \in Fresh \ issued)
                                                /\ Created(t) \/ CreatedNew(t))
             /\ closed' = closed
  <2> DEFINE n == [sid |-> s, chat |-> made + 1]
  <2>1. Pool' = Pool \cup {n}
    BY <1>3, NewEntry DEF Build
  <2>2. sidOf' = [sidOf EXCEPT ![made + 1] = s] /\ made + 1 \in Chats
    BY <1>3, Constants DEF Build, TypeOK, Chats
  <2>3. n.sid = s /\ n.chat = made + 1
    OBVIOUS
  <2> HIDE DEF n
  <2>4. ASSUME NEW e \in Pool', e \notin Pool
        PROVE  /\ e.chat = made + 1 /\ made + 1 \in Chats /\ sidOf' = [sidOf EXCEPT ![made + 1] = e.sid]
               /\ ~Has(e.sid) /\ (e.sid = want[t] \/ e.sid \in Fresh \ issued)
    <3>1. e = n
      BY <2>1, <2>4
    <3>2. e.sid = s /\ e.chat = made + 1
      BY <2>3, <3>1
    <3> QED
      BY <1>3, <2>2, <3>2
  <2> QED
    BY <1>3, <2>1, <2>4
<1>4. CASE Created(t) /\ ~Has(want[t])
  <2>1. want[t] \in Ids
    BY DEF TypeOK
  <2>2. /\ Build(want[t]) /\ entries' = Append(Without(want[t]), [sid |-> want[t], chat |-> made + 1])
        /\ closed' = closed /\ gone' = gone
    BY <1>4 DEF Created, Duplicate, history
  <2> QED
    BY <1>3, <1>4, <2>1, <2>2
<1>5. CASE CreatedNew(t)
  <2>1. PICK s \in Fresh \ issued :
          Build(s) /\ entries' = Append(Without(s), [sid |-> s, chat |-> made + 1]) /\ closed' = closed /\ gone' = gone
    BY <1>5 DEF CreatedNew, history
  <2>2. s \in Ids /\ ~Has(s)
    BY <2>1, EntriesFacts, ConstantsAssumption DEF Ids, KnownIds, PoolInv
  <2> QED
    BY <1>3, <1>5, <2>1, <2>2
<1>6. CASE EvictLru(t) /\ TooMany
  <2>1. entries' = Tail(entries) /\ gone' = gone \cup {Head(entries).sid} /\ closed' = closed
    BY <1>6 DEF EvictLru, chatVars
  <2>2. Pool' = Pool \ {Head(entries)}
    BY <1>6, <2>1, Oldest DEF Pool
  <2> QED
    BY <2>1, <2>2
<1>7. CASE Evict(t) /\ Has(arg[t])
  <2>1. entries' = Without(arg[t]) /\ gone' = gone \cup {arg[t]} /\ closed' = closed
    BY <1>7 DEF Evict, chatVars
  <2>2. Pool' = Pool \ {EntryOf(arg[t])} /\ EntryOf(arg[t]).sid = arg[t]
    BY <1>7, <2>1, EntriesFacts, EntryFacts DEF Pool
  <2> QED
    BY <2>1, <2>2
<1>8. CASE LockToClose(t) \/ Close(t)
  <2>1. Pool' = Pool /\ gone' = gone /\ (closed' = closed \/ (Close(t) /\ closed' = closed \cup {victim[t].chat}))
    BY <1>8 DEF LockToClose, Close, poolVars, history, Pool
  <2> QED
    BY <2>1
<1> QED
  BY <1>1, <1>2, <1>4, <1>5, <1>6, <1>7, <1>8 DEF TakesStep, Step, QuietAction

KeptNext(s, c) == s \in gone' \/ \E e \in Pool' : e.sid = s /\ e.chat = c

LEMMA KeptFrame ==
  ASSUME TypeOK, ProgramInv, LockInv, PoolInv, IdsInv, NEW t \in Tasks, TakesStep(t), NEW s, NEW c, Kept(s, c)
  PROVE  KeptNext(s, c)
<1>1. /\ \A r \in gone : r \in gone'
      /\ \A e \in Pool : e \in Pool' \/ e.sid \in gone'
  BY PoolEvolves
<1> QED
  BY <1>1 DEF Kept, KeptNext

-----------------------------------------------------------------------------
(* Which instance serves which session.                                      *)
LEMMA SidOfSteps ==
  ASSUME TypeOK, ProgramInv, LockInv, PoolInv, IdsInv, BindingInv, NEW t \in Tasks, TakesStep(t), NEW c \in Chats
  PROVE  \/ sidOf'[c] = sidOf[c]
         \/ KeptNext(sidOf'[c], c) /\ (sidOf'[c] \in gone' \/ Adopt(t))
         \/ c = made + 1
<1>1. CASE Adopt(t)
  <2>1. At(t, "adopt") /\ sidOf' = [sidOf EXCEPT ![held[t]] = arg[t]]
    BY <1>1 DEF Adopt
  <2>2. held[t] \in Chats /\ todo[t] # <<>> /\ Head(todo[t]) = "adopt" /\ todo[t] \in Seq(Steps)
    BY <2>1, StepFacts DEF Using
  <2>3. want[t] = arg[t]
    BY <2>2, RestGets DEF ProgramInv, ProgramOK
  <2>4. Kept(arg[t], held[t])
    BY <2>2, <2>3, Constants DEF BindingInv, Next1
  <2>6. UNCHANGED <<entries, gone, arg, held>>
    BY <1>1 DEF Adopt, poolVars
  <2>7. CASE c = held[t]
    <3>1. sidOf'[c] = arg[t]
      BY <2>1, <2>7 DEF TypeOK
    <3> QED
      BY <1>1, <2>4, <2>6, <2>7, <3>1 DEF Kept, KeptNext, Pool
  <2>8. CASE c # held[t]
    BY <2>1, <2>8 DEF TypeOK
  <2> QED
    BY <2>7, <2>8
<1>2. CASE Rename(t)
  <2>1. PICK s \in Fresh \ issued : sidOf' = [sidOf EXCEPT ![held[t]] = s] /\ gone' = gone \cup {s}
    BY <1>2 DEF Rename
  <2> QED
    BY <2>1 DEF TypeOK, KeptNext
<1>3. CASE Created(t) \/ CreatedNew(t)
  <2>1. PICK s : sidOf' = [sidOf EXCEPT ![made + 1] = s]
    BY <1>3 DEF Created, CreatedNew, Build
  <2> QED
    BY <2>1 DEF TypeOK
<1>4. CASE (\E op \in Ops, s \in Ids : Start(t, op, s)) \/ Get(t) \/ Found(t) \/ NotFound(t) \/ EvictLru(t) \/ Evict(t)
           \/ LockToClose(t) \/ Close(t) \/ SetCurrent(t)
  BY <1>4 DEF Start, Get, Want, Found, NotFound, EvictLru, Evict, LockToClose, Close, SetCurrent, chatVars
<1>5. CASE Later(t) \/ Exists(t) \/ List(t) \/ Read(t) \/ Acquire(t) \/ Release(t) \/ Activate(t) \/ Erase(t)
  BY <1>5 DEF Later, Exists, List, Read, Acquire, Release, Activate, Erase, chatVars
<1>6. CASE Turn(t) \/ Refuse(t) \/ Finish(t) \/ TurnFails(t) \/ GiveUp(t)
  BY <1>6 DEF Turn, Refuse, Finish, TurnFails, GiveUp
<1> QED
  BY <1>1, <1>2, <1>3, <1>4, <1>5, <1>6 DEF TakesStep, Step

LEMMA SidKept ==
  ASSUME TypeOK, ProgramInv, LockInv, PoolInv, IdsInv, BindingInv, NEW t \in Tasks, TakesStep(t),
         NEW c \in Chats, c =< made, Kept(sidOf[c], c)
  PROVE  KeptNext(sidOf'[c], c)
<1>1. c # made + 1
  BY Constants DEF TypeOK
<1>2. KeptNext(sidOf[c], c)
  BY KeptFrame
<1> QED
  BY <1>1, <1>2, SidOfSteps

(* A request gets the instance of the id it asked for.                       *)
LEMMA HeldSteps ==
  ASSUME TypeOK, ProgramInv, LockInv, PoolInv, IdsInv, BindingInv, NEW t \in Tasks, TakesStep(t),
         held'[t] # held[t] \/ Found(t) \/ Created(t)
  PROVE  /\ Found(t) \/ Created(t)
         /\ held'[t] \in Chats /\ KeptNext(want'[t], held'[t])
         /\ KeptNext(sidOf'[held'[t]], held'[t])
<1>1. Found(t) \/ Created(t)
  <2>1. (\E op \in Ops, s \in Ids : Start(t, op, s)) => held' = held
    BY DEF Start
  <2>2. Get(t) \/ NotFound(t) \/ CreatedNew(t) \/ EvictLru(t) \/ Evict(t) \/ LockToClose(t) \/ Close(t) => held' = held
    BY DEF Get, Want, NotFound, CreatedNew, EvictLru, Evict, LockToClose, Close
  <2>3. SetCurrent(t) \/ Later(t) \/ Exists(t) \/ List(t) \/ Read(t) \/ Adopt(t) \/ Acquire(t) \/ Release(t) => held' = held
    BY DEF SetCurrent, Later, Exists, List, Read, Adopt, Acquire, Release
  <2>4. Activate(t) \/ Erase(t) \/ Rename(t) \/ Turn(t) \/ Refuse(t) \/ Finish(t) \/ TurnFails(t) \/ GiveUp(t) => held' = held
    BY DEF Activate, Erase, Rename, Turn, Refuse, Finish, TurnFails, GiveUp
  <2> QED
    BY <2>1, <2>2, <2>3, <2>4 DEF TakesStep, Step
<1>2. CASE Found(t) \/ (Created(t) /\ Has(want[t]))
  <2> DEFINE e == EntryOf(want[t])
  <2>1. Has(want[t]) /\ held' = [held EXCEPT ![t] = e.chat] /\ want' = want /\ entries' = Touch(want[t]) /\ gone' = gone
    BY <1>2 DEF Found, Created, Duplicate, Registered, history
  <2>2. e \in Pool /\ e.sid = want[t] /\ e.chat \in Chats /\ Pool' = Pool
    BY <2>1, EntryFacts, EntriesFacts DEF Pool
  <2>3. held'[t] = e.chat
    BY <2>1 DEF TypeOK
  <2> HIDE DEF e
  <2>4. Kept(sidOf[e.chat], e.chat) /\ e.chat =< made
    BY <2>2 DEF BindingInv, PoolInv
  <2>5. KeptNext(sidOf'[e.chat], e.chat)
    BY <2>2, <2>4, SidKept
  <2>6. KeptNext(want'[t], e.chat)
    BY <2>1, <2>2 DEF KeptNext
  <2> QED
    BY <1>1, <2>2, <2>3, <2>5, <2>6
<1>3. CASE Created(t) /\ ~Has(want[t])
  <2>1. /\ held' = [held EXCEPT ![t] = made + 1] /\ want' = want /\ made < MaxChats
        /\ entries' = Append(Without(want[t]), [sid |-> want[t], chat |-> made + 1])
        /\ sidOf' = [sidOf EXCEPT ![made + 1] = want[t]]
    BY <1>3 DEF Created, Duplicate, Build
  <2>2. want[t] \in Ids /\ made + 1 \in Chats
    BY <2>1, Constants DEF TypeOK, Chats
  <2>3. Pool' = Pool \cup {[sid |-> want[t], chat |-> made + 1]}
    BY <1>3, <2>1, <2>2, NewEntry
  <2> DEFINE n == [sid |-> want[t], chat |-> made + 1]
  <2>4. KeptNext(want[t], made + 1)
    <3>1. n \in Pool' /\ n.sid = want[t] /\ n.chat = made + 1
      BY <2>3
    <3> HIDE DEF n
    <3> QED
      BY <3>1 DEF KeptNext
  <2>5. held'[t] = made + 1 /\ sidOf'[made + 1] = want[t]
    BY <2>1, <2>2 DEF TypeOK
  <2> QED
    BY <1>1, <2>1, <2>2, <2>4, <2>5
<1> QED
  BY <1>1, <1>2, <1>3

LEMMA WantSteps ==
  ASSUME TypeOK, ProgramInv, LockInv, NEW t \in Tasks, TakesStep(t)
  PROVE  \/ want'[t] = want[t] /\ (~Next1(t, {"lookup", "create"}) \/ Next1(t, {"lookup", "create"})' \/ held'[t] # held[t]
                                    \/ Found(t) \/ Created(t))
         \/ Next1(t, {"lookup"})'
<1>0. ASSUME NEW x, At(t, x), x \notin {"lookup", "create"} PROVE ~Next1(t, {"lookup", "create"})
  BY <1>0, StepFacts DEF Next1
<1>1. ASSUME NEW op \in Ops, NEW s \in Ids, Start(t, op, s) PROVE want'[t] = want[t] /\ ~Next1(t, {"lookup", "create"})
  BY <1>0, <1>1 DEF Start
<1>2. ASSUME NEW x \in {"get", "active", "lookup"}, NEW y \in {"lookup", "create"}, At(t, x), GoOn(t, <<y>> \o Rest(t))
      PROVE  Next1(t, {y})'
  <2>1. x \in Steps /\ x \notin UnderLock \cup {"acquire"} /\ y \in Inserted
    BY DEF Steps, UnderLock, Inserted
  <2>2. PICK q \in Seq(Steps) : q # <<>> /\ Head(q) = y /\ todo' = [todo EXCEPT ![t] = q]
    BY <1>2, <2>1, Insertion
  <2> QED
    BY <2>2 DEF Next1, TypeOK
<1>3. CASE Get(t)
  BY <1>2, <1>3 DEF Get, Want
<1>4. CASE NotFound(t)
  <2>1. Next1(t, {"create"})' /\ want' = want
    BY <1>2, <1>4 DEF NotFound
  <2> QED
    BY <2>1 DEF Next1
<1>5. CASE CreatedNew(t) \/ EvictLru(t) \/ Evict(t) \/ LockToClose(t) \/ Close(t) \/ SetCurrent(t) \/ Later(t) \/ Exists(t)
  BY <1>0, <1>5 DEF CreatedNew, EvictLru, Evict, LockToClose, Close, SetCurrent, Later, Exists
<1>6. CASE List(t) \/ Read(t) \/ Adopt(t) \/ Acquire(t) \/ Release(t) \/ Activate(t) \/ Erase(t) \/ Rename(t)
  BY <1>0, <1>6 DEF List, Read, Adopt, Acquire, Release, Activate, Erase, Rename
<1>7. CASE Turn(t) \/ Refuse(t) \/ Finish(t) \/ TurnFails(t)
  BY <1>0, <1>7 DEF Turn, Refuse, Finish, TurnFails
<1>8. CASE GiveUp(t)
  BY <1>8 DEF GiveUp, Next1
<1>9. CASE Found(t) \/ Created(t)
  BY <1>9 DEF Found, Created
<1> QED
  BY <1>1, <1>3, <1>4, <1>5, <1>6, <1>7, <1>8, <1>9 DEF TakesStep, Step

LEMMA BindingOfRequests ==
  ASSUME TypeOK, ProgramInv, LockInv, PoolInv, IdsInv, BindingInv, NEW t \in Tasks, TakesStep(t)
  PROVE  \A u \in Tasks : held'[u] # NoChat /\ todo'[u] # <<>> /\ ~Next1(u, {"lookup", "create"})'
                            => KeptNext(want'[u], held'[u])
<1>1. SUFFICES ASSUME NEW u \in Tasks, held'[u] # NoChat, todo'[u] # <<>>, ~Next1(u, {"lookup", "create"})'
               PROVE  KeptNext(want'[u], held'[u])
  OBVIOUS
<1>2. CASE u # t
  <2>1. todo'[u] = todo[u] /\ held'[u] = held[u] /\ want'[u] = want[u]
    BY <1>2, OthersStay
  <2>2. ~Next1(u, {"lookup", "create"})
    BY <1>1, <2>1 DEF Next1
  <2>3. Kept(want[u], held[u])
    BY <1>1, <2>1, <2>2 DEF BindingInv
  <2> QED
    BY <2>1, <2>3, KeptFrame
<1>3. CASE u = t
  <2>1. CASE held'[t] # held[t] \/ Found(t) \/ Created(t)
    BY <1>3, <2>1, HeldSteps
  <2>2. CASE held'[t] = held[t] /\ ~Found(t) /\ ~Created(t)
    <3>1. ~Next1(t, {"lookup"})'
      BY <1>1, <1>3 DEF Next1
    <3>2. want'[t] = want[t] /\ ~Next1(t, {"lookup", "create"})
      BY <1>1, <1>3, <2>2, <3>1, WantSteps
    <3>3. todo[t] # <<>>
      BY StepEnds
    <3>4. Kept(want[t], held[t])
      BY <1>1, <1>3, <2>2, <3>2, <3>3 DEF BindingInv
    <3> QED
      BY <1>3, <2>2, <3>2, <3>4, KeptFrame
  <2> QED
    BY <2>1, <2>2
<1> QED
  BY <1>2, <1>3

(* A request that finds its instance closed asked for an id that is gone.    *)
LEMMA ClosedIsGone ==
  ASSUME TypeOK, ProgramInv, LockInv, PoolInv, IdsInv, BindingInv, NEW t \in Tasks, TakesStep(t)
  PROVE  \A u \in Tasks : outcome'[u] = "closed" => want'[u] \in gone'
<1>1. SUFFICES ASSUME NEW u \in Tasks, outcome'[u] = "closed" PROVE want'[u] \in gone'
  OBVIOUS
<1>2. \A s \in gone : s \in gone'
  BY PoolEvolves
<1>3. CASE u # t
  BY <1>1, <1>2, <1>3, OthersStay DEF BindingInv
<1>4. CASE u = t
  <2>1. /\ todo[t] # <<>> /\ todo'[t] = <<>> /\ held[t] \in closed /\ held[t] \in Chats
        /\ ~Next1(t, {"lookup", "create"})
    BY <1>1, <1>4, StepEnds
  <2>2. Kept(want[t], held[t])
    BY <2>1, Constants DEF BindingInv
  <2>3. want[t] \in gone
    BY <2>1, <2>2 DEF Kept, PoolInv
  <2>4. ~Found(t) /\ ~Created(t)
    BY <2>1, StepFacts DEF Found, Created, Next1
  <2>5. want'[t] = want[t]
    BY <2>1, <2>4, WantSteps DEF Next1
  <2> QED
    BY <1>2, <1>4, <2>3, <2>5
<1> QED
  BY <1>3, <1>4

LEMMA BindingOfInstances ==
  ASSUME TypeOK, ProgramInv, LockInv, PoolInv, IdsInv, BindingInv, TypeOK', NEW t \in Tasks, TakesStep(t)
  PROVE  /\ \A u \in Tasks : held'[u] # NoChat => KeptNext(sidOf'[held'[u]], held'[u])
         /\ \A e \in Pool' : KeptNext(sidOf'[e.chat], e.chat)
<1>1. ASSUME NEW u \in Tasks, held'[u] # NoChat PROVE KeptNext(sidOf'[held'[u]], held'[u])
  <2>1. CASE u = t /\ held'[t] # held[t]
    BY <2>1, HeldSteps
  <2>2. CASE held'[u] = held[u]
    <3>1. Kept(sidOf[held[u]], held[u]) /\ held[u] \in Chats /\ held[u] =< made
      BY <1>1, <2>2 DEF BindingInv, IdsInv, TypeOK
    <3> QED
      BY <2>2, <3>1, SidKept
  <2> QED
    BY <2>1, <2>2, OthersStay
<1>2. ASSUME NEW e \in Pool' PROVE KeptNext(sidOf'[e.chat], e.chat)
  <2>1. CASE e \in Pool
    <3>1. Kept(sidOf[e.chat], e.chat) /\ e.chat \in 1..made
      BY <2>1 DEF BindingInv, PoolInv
    <3>2. e.chat \in Chats /\ e.chat =< made
      BY <3>1, Constants DEF TypeOK, Chats
    <3> QED
      BY <3>1, <3>2, SidKept
  <2>2. CASE e \notin Pool
    <3>1. e.chat = made + 1 /\ made + 1 \in Chats /\ sidOf' = [sidOf EXCEPT ![made + 1] = e.sid]
      BY <2>2, PoolEvolves
    <3>2. sidOf'[e.chat] = e.sid
      BY <3>1 DEF TypeOK
    <3> QED
      BY <3>2 DEF KeptNext
  <2> QED
    BY <2>1, <2>2
<1> QED
  BY <1>1, <1>2

LEMMA BindingOfTurns ==
  ASSUME TypeOK, ProgramInv, LockInv, PoolInv, IdsInv, BindingInv, NEW t \in Tasks, TakesStep(t)
  PROVE  \A u \in Tasks : InTurn(u)' => KeptNext(turn'[u].sid, held'[u]) /\ held'[u] \notin closed'
<1>1. SUFFICES ASSUME NEW u \in Tasks, InTurn(u)'
               PROVE  KeptNext(turn'[u].sid, held'[u]) /\ held'[u] \notin closed'
  OBVIOUS
<1>2. CASE u = t
  <2>1. Turn(t) /\ held[t] \notin closed
    BY <1>1, <1>2, StepEnds
  <2>2. /\ turn' = [turn EXCEPT ![t] = [sid |-> sidOf[held[t]], ctx |-> messages[held[t]] \cup {t}]]
        /\ held' = held /\ closed' = closed /\ At(t, "turn")
    BY <2>1 DEF Turn
  <2>3. turn'[t].sid = sidOf[held[t]]
    BY <2>2 DEF TypeOK
  <2>4. held[t] \in Chats
    BY <2>2, StepFacts DEF Using
  <2>5. Kept(sidOf[held[t]], held[t])
    BY <2>4, Constants DEF BindingInv
  <2>6. KeptNext(sidOf[held[t]], held[t])
    BY <2>5, KeptFrame
  <2> QED
    BY <1>2, <2>1, <2>2, <2>3, <2>6
<1>3. CASE u # t
  <2>1. todo'[u] = todo[u] /\ held'[u] = held[u] /\ turn'[u] = turn[u]
    BY <1>3, OthersStay
  <2>2. InTurn(u)
    BY <1>1, <2>1 DEF InTurn
  <2>3. Kept(turn[u].sid, held[u]) /\ held[u] \notin closed /\ held[u] =< made
    BY <2>2 DEF BindingInv, IdsInv
  <2>4. KeptNext(turn[u].sid, held[u])
    BY <2>3, KeptFrame
  <2>5. held[u] # made + 1
    BY <2>3 DEF TypeOK, Chats
  <2>6. ASSUME Close(t), held[u] = victim[t].chat PROVE FALSE
    <3>1. At(t, "closing")
      BY <2>6 DEF Close
    <3>2. todo[t] # <<>> /\ Head(todo[t]) = "closing" /\ ~Waits(t)
      BY <3>1, StepFacts
    <3>3. Next1(t, {"closing"}) /\ Next1(t, {"close", "closing"})
      BY <3>2 DEF Next1
    <3>4. victim[t].chat \in Chats
      BY <3>3, VictimFacts
    <3>5. t \in Range(locks[victim[t].chat])
      BY <3>3, <3>4 DEF LockInv, Queued
    <3>6. Head(locks[victim[t].chat]) = t
      BY <3>2, <3>4, <3>5, Holder
    <3>7. Head(locks[held[u]]) = u
      BY <2>2 DEF LockInv
    <3> QED
      BY <1>3, <2>6, <3>6, <3>7
  <2>7. held[u] \notin closed'
    BY <2>3, <2>5, <2>6, PoolEvolves
  <2> QED
    BY <2>1, <2>4, <2>7
<1> QED
  BY <1>2, <1>3

LEMMA BindingStep ==
  ASSUME TypeOK, ProgramInv, LockInv, PoolInv, IdsInv, BindingInv, TypeOK', [Next]_vars
  PROVE  BindingInv'
<1>1. ASSUME NEW t \in Tasks, TakesStep(t) PROVE BindingInv'
  BY <1>1, BindingOfRequests, ClosedIsGone, BindingOfInstances, BindingOfTurns DEF BindingInv, Kept, KeptNext
<1>2. CASE UNCHANGED vars
  BY <1>2 DEF vars, poolVars, chatVars, taskVars, history, BindingInv, Kept, Pool, Next1, InTurn
<1> QED
  BY <1>1, <1>2 DEF Next, TakesStep

LEMMA BindingInitially == Init => BindingInv
<1> SUFFICES ASSUME Init PROVE BindingInv
  OBVIOUS
<1>1. /\ \A t \in Tasks : held[t] = NoChat /\ outcome[t] = "none" /\ todo[t] = <<"start">>
      /\ entries = <<>>
  BY DEF Init
<1>2. Pool = {}
  BY <1>1, EmptyProgram DEF Pool, Range
<1>3. \A t \in Tasks : ~InTurn(t)
  BY <1>1 DEF InTurn
<1> QED
  BY <1>1, <1>2, <1>3 DEF BindingInv

-----------------------------------------------------------------------------
(* What a turn knows of its session.                                         *)
LEMMA RowsSteps ==
  ASSUME TypeOK, ProgramInv, LockInv, NEW t \in Tasks, TakesStep(t)
  PROVE  /\ \A s \in outdated : s \in outdated'
         /\ \A s \in Ids : \A u \in rows'[s] :
              \/ u \in rows[s]
              \/ u = t /\ Turn(t) /\ held[t] \notin closed /\ s = sidOf[held[t]]
              \/ u = t /\ Finish(t) /\ s = turn[t].sid
<1>1. ASSUME NEW op \in Ops, NEW s \in Ids, Start(t, op, s) PROVE rows' = rows /\ outdated' = outdated
  BY <1>1 DEF Start, history
<1>2. CASE Get(t) \/ Found(t) \/ NotFound(t) \/ Created(t) \/ CreatedNew(t) \/ EvictLru(t) \/ Evict(t)
           \/ LockToClose(t) \/ Close(t)
  BY <1>2 DEF Get, Want, Found, NotFound, Created, CreatedNew, EvictLru, Evict, LockToClose, Close, history
<1>3. CASE SetCurrent(t) \/ Later(t) \/ Exists(t) \/ List(t) \/ Read(t) \/ Acquire(t) \/ Release(t) \/ Activate(t)
           \/ Rename(t)
  BY <1>3 DEF SetCurrent, Later, Exists, List, Read, Acquire, Release, Activate, Rename, history
<1>4. CASE Adopt(t)
  BY <1>4 DEF Adopt
<1>5. CASE Erase(t)
  BY <1>5 DEF Erase, history, TypeOK
<1>6. CASE Refuse(t) \/ TurnFails(t) \/ GiveUp(t)
  BY <1>6 DEF Refuse, TurnFails, GiveUp, history
<1>7. CASE Turn(t)
  <2>1. outdated' = outdated
    BY <1>7 DEF Turn, history
  <2>2. CASE held[t] \in closed
    BY <1>7, <2>1, <2>2 DEF Turn
  <2>3. CASE held[t] \notin closed
    <3>1. rows' = [rows EXCEPT ![sidOf[held[t]]] = @ \cup {t}]
      BY <1>7, <2>3 DEF Turn
    <3> QED
      BY <1>7, <2>1, <2>3, <3>1 DEF TypeOK
  <2> QED
    BY <2>2, <2>3
<1>8. CASE Finish(t)
  <2>1. outdated' = outdated /\ rows' = [rows EXCEPT ![turn[t].sid] = @ \cup {t}]
    BY <1>8 DEF Finish, history
  <2> QED
    BY <1>8, <2>1 DEF TypeOK
<1> QED
  BY <1>1, <1>2, <1>3, <1>4, <1>5, <1>6, <1>7, <1>8 DEF TakesStep, Step

LEMMA MessagesSteps ==
  ASSUME TypeOK, ProgramInv, LockInv, NEW t \in Tasks, TakesStep(t), NEW c \in Chats
  PROVE  \/ messages[c] \subseteq messages'[c] /\ (sidOf'[c] = sidOf[c] \/ c = made + 1)
         \/ held[t] = c /\ (Adopt(t) \/ Rename(t) \/ Finish(t) \/ TurnFails(t))
<1>1. ASSUME NEW op \in Ops, NEW s \in Ids, Start(t, op, s) PROVE messages' = messages /\ sidOf' = sidOf
  BY <1>1 DEF Start, chatVars
<1>2. CASE Get(t) \/ Found(t) \/ NotFound(t) \/ EvictLru(t) \/ Evict(t) \/ LockToClose(t) \/ Close(t)
  BY <1>2 DEF Get, Want, Found, NotFound, EvictLru, Evict, LockToClose, Close, chatVars
<1>3. CASE Created(t) \/ CreatedNew(t)
  <2>1. PICK s : sidOf' = [sidOf EXCEPT ![made + 1] = s] /\ messages' = messages
    BY <1>3 DEF Created, CreatedNew, Build
  <2> QED
    BY <2>1 DEF TypeOK
<1>4. CASE SetCurrent(t) \/ Later(t) \/ Exists(t) \/ List(t) \/ Read(t) \/ Acquire(t) \/ Release(t) \/ Activate(t)
           \/ Erase(t)
  BY <1>4 DEF SetCurrent, Later, Exists, List, Read, Acquire, Release, Activate, Erase, chatVars
<1>5. CASE Adopt(t)
  BY <1>5 DEF Adopt, TypeOK
<1>6. CASE Rename(t)
  BY <1>6 DEF Rename, TypeOK
<1>7. CASE Finish(t) \/ TurnFails(t)
  BY <1>7 DEF Finish, TurnFails, TypeOK
<1>8. CASE Turn(t)
  BY <1>8 DEF Turn, TypeOK
<1>9. CASE Refuse(t) \/ GiveUp(t)
  BY <1>9 DEF Refuse, GiveUp
<1> QED
  BY <1>1, <1>2, <1>3, <1>4, <1>5, <1>6, <1>7, <1>8, <1>9 DEF TakesStep, Step

(* A task in a turn takes no step but the end of the turn.                   *)
LEMMA TurnEnds ==
  ASSUME TypeOK, ProgramInv, LockInv, NEW t \in Tasks, TakesStep(t), InTurn(t)
  PROVE  Finish(t) \/ TurnFails(t)
<1>1. todo[t] # <<>> /\ Head(todo[t]) = "finish" /\ todo[t] # <<"turn">>
  <2>1. <<"finish">> # <<>> /\ Head(<<"finish">>) = "finish" /\ Head(<<"turn">>) = "turn"
    OBVIOUS
  <2> QED
    BY <2>1 DEF InTurn
<1>2. ASSUME NEW x, At(t, x) PROVE x = "finish"
  BY <1>1, <1>2 DEF At
<1>3. ~Get(t) /\ ~Found(t) /\ ~NotFound(t) /\ ~Created(t) /\ ~CreatedNew(t) /\ ~EvictLru(t) /\ ~Evict(t)
      /\ ~LockToClose(t) /\ ~Close(t)
  BY <1>2 DEF Get, Want, Found, NotFound, Created, CreatedNew, EvictLru, Evict, LockToClose, Close
<1>4. /\ ~SetCurrent(t) /\ ~Later(t) /\ ~Exists(t) /\ ~List(t) /\ ~Read(t) /\ ~Adopt(t) /\ ~Acquire(t) /\ ~Release(t)
      /\ ~Activate(t) /\ ~Erase(t) /\ ~Rename(t)
  BY <1>2 DEF SetCurrent, Later, Exists, List, Read, Adopt, Acquire, Release, Activate, Erase, Rename
<1>5. ~Turn(t) /\ ~Refuse(t) /\ ~GiveUp(t) /\ \A op \in Ops, s \in Ids : ~Start(t, op, s)
  BY <1>1, <1>2 DEF Turn, Refuse, GiveUp, Start
<1> QED
  BY <1>3, <1>4, <1>5 DEF TakesStep, Step

LEMMA AtFinish ==
  ASSUME TypeOK, ProgramInv, LockInv, NEW t \in Tasks, Finish(t) \/ TurnFails(t)
  PROVE  InTurn(t) /\ todo'[t] = <<>>
<1>1. At(t, "finish") /\ (GoOn(t, <<>>) \/ End(t, "failed"))
  BY DEF Finish, TurnFails
<1>2. todo[t] \in Seq(Steps) /\ todo[t] # <<>> /\ Head(todo[t]) = "finish" /\ WellOrdered(todo[t])
  BY <1>1, StepFacts DEF ProgramInv, ProgramOK
<1>3. Len(todo[t]) = 1
  <2>1. 1 \in DOMAIN todo[t] /\ todo[t][1] = "finish"
    BY <1>2
  <2> QED
    BY <1>2, <2>1 DEF WellOrdered
<1>4. todo[t] = <<"finish">>
  BY <1>2, <1>3
<1> QED
  BY <1>1, <1>4 DEF InTurn, GoOn, End, TypeOK

(* Only the end of a turn adds to the finished turns of its session.         *)
LEMMA DoneSteps ==
  ASSUME TypeOK, ProgramInv, LockInv, ContextInv, NEW t \in Tasks, TakesStep(t), NEW s \in Ids,
         NEW u \in rows'[s], outcome'[u] = "ok"
  PROVE  u \in Done(s) \/ (u = t /\ Finish(t) /\ InTurn(t) /\ s = turn[t].sid)
<1>1. CASE u # t
  <2>1. u \in rows[s]
    BY <1>1, RowsSteps
  <2>2. u \in Tasks
    BY <2>1 DEF TypeOK
  <2>3. outcome'[u] = outcome[u]
    BY <1>1, <2>2, OthersStay
  <2> QED
    BY <2>1, <2>3 DEF Done
<1>2. CASE u = t
  <2>1. GoOn(t, <<>>) /\ todo[t] # <<>> /\ todo'[t] = <<>>
    BY <1>2, StepEnds
  <2>2. CASE t \in rows[s]
    <3>1. InTurn(t) /\ turn[t].sid = s
      BY <2>1, <2>2 DEF ContextInv
    <3>2. Finish(t) \/ TurnFails(t)
      BY <3>1, TurnEnds
    <3>3. ~TurnFails(t)
      BY <1>2 DEF TurnFails, End, TypeOK
    <3> QED
      BY <1>2, <3>1, <3>2, <3>3
  <2>3. CASE t \notin rows[s]
    <3>1. (Turn(t) /\ held[t] \notin closed) \/ (Finish(t) /\ s = turn[t].sid)
      BY <1>2, <2>3, RowsSteps
    <3>2. ASSUME Turn(t), held[t] \notin closed PROVE FALSE
      <4>1. GoOn(t, <<"finish">>)
        BY <3>2 DEF Turn
      <4>2. todo'[t] = <<"finish">>
        BY <4>1 DEF GoOn, TypeOK
      <4> QED
        BY <2>1, <4>2, EmptyProgram, FinishProgram
    <3> QED
      BY <1>2, <3>1, <3>2, AtFinish
  <2> QED
    BY <2>2, <2>3
<1> QED
  BY <1>1, <1>2

LEMMA RowsAreOfEntries ==
  ASSUME TypeOK, ProgramInv, LockInv, PoolInv, IdsInv, BindingInv, ContextInv, NEW t \in Tasks, TakesStep(t)
  PROVE  \A s \in Ids : rows'[s] # {} => s \in gone' \/ \E e \in Pool' : e.sid = s
<1>1. SUFFICES ASSUME NEW s \in Ids, NEW u \in rows'[s] PROVE \E c : KeptNext(s, c)
  BY DEF KeptNext
<1>2. CASE u \in rows[s]
  <2>1. PICK c : Kept(s, c)
    BY <1>2 DEF ContextInv, Kept
  <2> QED
    BY <2>1, KeptFrame
<1>3. CASE Turn(t) /\ s = sidOf[held[t]]
  <2>1. held[t] \in Chats
    BY <1>3, StepFacts DEF Turn, Using
  <2>2. Kept(s, held[t])
    BY <1>3, <2>1, Constants DEF BindingInv
  <2> QED
    BY <2>2, KeptFrame
<1>4. CASE Finish(t) /\ s = turn[t].sid
  <2>1. Kept(s, held[t])
    BY <1>4, AtFinish DEF BindingInv
  <2> QED
    BY <2>1, KeptFrame
<1> QED
  BY <1>2, <1>3, <1>4, RowsSteps

LEMMA RowsAreOfTurns ==
  ASSUME TypeOK, ProgramInv, LockInv, ContextInv, NEW t \in Tasks, TakesStep(t)
  PROVE  \A s \in Ids : \A u \in rows'[s] : todo'[u] = <<>> \/ (InTurn(u)' /\ turn'[u].sid = s)
<1>1. SUFFICES ASSUME NEW s \in Ids, NEW u \in rows'[s] PROVE todo'[u] = <<>> \/ (InTurn(u)' /\ turn'[u].sid = s)
  OBVIOUS
<1>2. CASE u # t
  <2>1. u \in rows[s]
    BY <1>2, RowsSteps
  <2>2. u \in Tasks
    BY <2>1 DEF TypeOK
  <2>3. todo'[u] = todo[u] /\ turn'[u] = turn[u]
    BY <1>2, <2>2, OthersStay
  <2> QED
    BY <2>1, <2>3 DEF ContextInv, InTurn
<1>3. CASE u = t
  <2>1. todo[t] # <<>>
    BY StepEnds
  <2>2. CASE t \in rows[s] \/ Finish(t)
    <3>1. InTurn(t) \/ Finish(t)
      BY <2>1, <2>2 DEF ContextInv
    <3> QED
      BY <1>3, <3>1, TurnEnds, AtFinish
  <2>3. CASE Turn(t) /\ held[t] \notin closed /\ s = sidOf[held[t]]
    <3>1. /\ turn' = [turn EXCEPT ![t] = [sid |-> sidOf[held[t]], ctx |-> messages[held[t]] \cup {t}]]
          /\ GoOn(t, <<"finish">>)
      BY <2>3 DEF Turn
    <3>2. turn'[t].sid = s /\ todo'[t] = <<"finish">>
      BY <2>3, <3>1 DEF TypeOK, GoOn
    <3> QED
      BY <1>3, <3>2 DEF InTurn
  <2> QED
    BY <1>3, <2>2, <2>3, RowsSteps
<1> QED
  BY <1>2, <1>3

(* While a turn is in progress its instance keeps the turn's id, or one with *)
(* a history that is not kept up with.                                       *)
LEMMA SidsOfTurns ==
  ASSUME TypeOK, ProgramInv, LockInv, PoolInv, IdsInv, BindingInv, ContextInv, NEW t \in Tasks, TakesStep(t)
  PROVE  \A u \in Tasks : InTurn(u)' => sidOf'[held'[u]] \in {turn'[u].sid} \cup gone' \cup outdated'
<1>1. SUFFICES ASSUME NEW u \in Tasks, InTurn(u)'
               PROVE  sidOf'[held'[u]] \in {turn'[u].sid} \cup gone' \cup outdated'
  OBVIOUS
<1>2. CASE u = t
  <2>1. Turn(t) /\ held[t] \notin closed
    BY <1>1, <1>2, StepEnds
  <2>2. /\ turn' = [turn EXCEPT ![t] = [sid |-> sidOf[held[t]], ctx |-> messages[held[t]] \cup {t}]]
        /\ held' = held /\ sidOf' = sidOf
    BY <2>1 DEF Turn
  <2> QED
    BY <1>2, <2>2 DEF TypeOK
<1>3. CASE u # t
  <2>1. todo'[u] = todo[u] /\ held'[u] = held[u] /\ turn'[u] = turn[u]
    BY <1>3, OthersStay
  <2>2. InTurn(u)
    BY <1>1, <2>1 DEF InTurn
  <2>3. /\ \A s \in gone : s \in gone'
        /\ \A s \in outdated : s \in outdated'
    BY PoolEvolves, RowsSteps
  <2>4. sidOf[held[u]] \in {turn[u].sid} \cup gone \cup outdated
    BY <2>2 DEF ContextInv
  <2>5. held[u] \in Chats /\ held[u] # made + 1
    <3>1. locks[held[u]] # <<>> /\ Head(locks[held[u]]) = u /\ Kept(turn[u].sid, held[u]) /\ held[u] =< made
      BY <2>2 DEF LockInv, BindingInv, IdsInv
    <3>2. todo[u] # <<>> /\ todo[u] \in Seq(Steps) /\ Head(todo[u]) = "finish"
      <4>1. <<"finish">> # <<>> /\ Head(<<"finish">>) = "finish"
        OBVIOUS
      <4>2. todo[u] \in Seq(Steps)
        BY DEF TypeOK
      <4> QED
        BY <2>2, <4>1, <4>2 DEF InTurn
    <3>3. GetsFirst(todo[u]) => "finish" \notin Using
      BY <3>2, RestGets
    <3>4. held[u] # NoChat
      BY <3>3 DEF ProgramInv, ProgramOK, Using
    <3> QED
      BY <3>1, <3>4, Constants DEF TypeOK
  <2>6. CASE Adopt(t)
    <3>1. sidOf' = [sidOf EXCEPT ![held[t]] = arg[t]]
      BY <2>6 DEF Adopt
    <3>2. CASE held[t] # held[u]
      BY <2>1, <2>3, <2>4, <2>5, <3>1, <3>2 DEF TypeOK
    <3>3. CASE held[t] = held[u]
      <4>1. sidOf'[held[u]] = arg[t]
        BY <2>5, <3>1, <3>3 DEF TypeOK
      <4>2. turn[u].sid # arg[t] => Overwritten(t)
        BY <2>2, <3>3 DEF Overwritten
      <4>3. Overwritten(t) => arg[t] \in outdated'
        BY <2>6 DEF Adopt
      <4> QED
        BY <2>1, <4>1, <4>2, <4>3
    <3> QED
      BY <3>2, <3>3
  <2>7. CASE ~Adopt(t)
    <3>1. sidOf'[held[u]] = sidOf[held[u]] \/ sidOf'[held[u]] \in gone'
      BY <2>5, <2>7, SidOfSteps
    <3> QED
      BY <2>1, <2>3, <2>4, <3>1
  <2> QED
    BY <2>6, <2>7
<1> QED
  BY <1>2, <1>3

DoneNext(s) == {u \in rows'[s] : outcome'[u] = "ok"}

LEMMA ContextsOfTurns ==
  ASSUME TypeOK, ProgramInv, LockInv, PoolInv, IdsInv, BindingInv, ContextInv, NEW t \in Tasks, TakesStep(t)
  PROVE  \A u \in Tasks : InTurn(u)' /\ turn'[u].sid \notin gone' \cup outdated' =>
           u \in turn'[u].ctx /\ DoneNext(turn'[u].sid) \subseteq turn'[u].ctx
<1>1. SUFFICES ASSUME NEW u \in Tasks, InTurn(u)', turn'[u].sid \notin gone' \cup outdated'
               PROVE  u \in turn'[u].ctx /\ DoneNext(turn'[u].sid) \subseteq turn'[u].ctx
  OBVIOUS
<1>2. turn'[u].sid \notin gone \cup outdated
  BY <1>1, PoolEvolves, RowsSteps
<1>3. CASE u = t
  <2>1. Turn(t) /\ held[t] \notin closed
    BY <1>1, <1>3, StepEnds
  <2>2. /\ turn' = [turn EXCEPT ![t] = [sid |-> sidOf[held[t]], ctx |-> messages[held[t]] \cup {t}]]
        /\ At(t, "turn") /\ GoOn(t, <<"finish">>)
    BY <2>1 DEF Turn
  <2>3. turn'[t].sid = sidOf[held[t]] /\ turn'[t].ctx = messages[held[t]] \cup {t}
    BY <2>2 DEF TypeOK
  <2>4. held[t] \in Chats /\ Head(todo[t]) = "turn" /\ todo[t] # <<>>
    BY <2>2, StepFacts DEF Using
  <2>5. Kept(sidOf[held[t]], held[t]) /\ sidOf[held[t]] \in Ids
    BY <2>4, Constants DEF BindingInv, TypeOK
  <2>6. PICK e \in Pool : e.sid = sidOf[held[t]] /\ e.chat = held[t]
    BY <1>2, <1>3, <2>3, <2>5 DEF Kept
  <2>7. Done(sidOf[held[t]]) \subseteq messages[held[t]]
    BY <1>2, <1>3, <2>3, <2>6 DEF ContextInv
  <2>8. ~InTurn(t)
    BY <2>4 DEF InTurn
  <2>9. ASSUME NEW v \in rows'[sidOf[held[t]]], outcome'[v] = "ok" PROVE v \in Done(sidOf[held[t]])
    BY <2>5, <2>8, <2>9, DoneSteps
  <2> QED
    BY <1>3, <2>3, <2>7, <2>9 DEF DoneNext
<1>4. CASE u # t
  <2>1. todo'[u] = todo[u] /\ held'[u] = held[u] /\ turn'[u] = turn[u]
    BY <1>4, OthersStay
  <2>2. InTurn(u) /\ turn[u].sid \in Ids
    BY <1>1, <2>1 DEF InTurn, TypeOK
  <2>3. u \in turn[u].ctx /\ Done(turn[u].sid) \subseteq turn[u].ctx
    BY <1>2, <2>1, <2>2 DEF ContextInv
  <2>4. ~(InTurn(t) /\ turn[t].sid = turn[u].sid)
    <3>1. SUFFICES ASSUME InTurn(t), turn[t].sid = turn[u].sid PROVE FALSE
      OBVIOUS
    <3>2. Kept(turn[u].sid, held[u]) /\ Kept(turn[u].sid, held[t])
      BY <2>2, <3>1 DEF BindingInv
    <3>3. held[u] = held[t]
      BY <1>2, <2>1, <3>2 DEF Kept, PoolInv
    <3>4. Head(locks[held[u]]) = u /\ Head(locks[held[t]]) = t
      BY <2>2, <3>1 DEF LockInv
    <3> QED
      BY <1>4, <3>3, <3>4
  <2>5. ASSUME NEW v \in rows'[turn[u].sid], outcome'[v] = "ok" PROVE v \in Done(turn[u].sid)
    BY <2>2, <2>4, <2>5, DoneSteps
  <2> QED
    BY <2>1, <2>3, <2>5 DEF DoneNext
<1> QED
  BY <1>3, <1>4

LEMMA ContextsOfInstances ==
  ASSUME TypeOK, ProgramInv, LockInv, PoolInv, IdsInv, BindingInv, ContextInv, NEW t \in Tasks, TakesStep(t)
  PROVE  \A e \in Pool' : sidOf'[e.chat] = e.sid /\ e.sid \notin gone' \cup outdated' =>
           DoneNext(e.sid) \subseteq messages'[e.chat]
<1>1. SUFFICES ASSUME NEW e \in Pool', sidOf'[e.chat] = e.sid, e.sid \notin gone' \cup outdated',
                      NEW u \in rows'[e.sid], outcome'[u] = "ok"
               PROVE  u \in messages'[e.chat]
  BY DEF DoneNext
<1> DEFINE s == e.sid
           c == e.chat
<1>2. s \notin gone /\ s \notin outdated
  BY <1>1, PoolEvolves, RowsSteps
<1>3. CASE e \notin Pool
  <2>1. /\ Created(t) \/ CreatedNew(t)
        /\ ~Has(s) /\ (s = want[t] \/ s \in Fresh \ issued)
    BY <1>3, PoolEvolves
  <2>2. rows' = rows /\ s \in Ids
    BY <2>1 DEF Created, CreatedNew, TypeOK, Ids
  <2>3. \E f \in Pool : f.sid = s
    BY <1>1, <1>2, <2>2 DEF ContextInv
  <2>4. Has(s)
    BY <2>3 DEF Has, Pool, Range
  <2> QED
    BY <2>1, <2>4
<1>4. CASE e \in Pool
  <2>1. c \in 1..made /\ c \in Chats /\ c # made + 1 /\ s \in Ids
    <3>1. c \in 1..made /\ s \in KnownIds
      BY <1>4 DEF PoolInv
    <3> QED
      BY <3>1, Constants DEF TypeOK, Chats, KnownIds, Ids
  <2>2. u \in Done(s) \/ (u = t /\ Finish(t) /\ InTurn(t) /\ s = turn[t].sid)
    BY <1>1, <2>1, DoneSteps
  <2>3. u \in Done(s) => u \in rows[s]
    BY DEF Done
  <2>4. CASE Adopt(t) /\ held[t] = c
    <3>1. /\ sidOf' = [sidOf EXCEPT ![c] = arg[t]] /\ messages' = [messages EXCEPT ![c] = loaded[t]]
          /\ outdated' = IF loaded[t] # rows[arg[t]] \/ Overwritten(t) THEN outdated \cup {arg[t]} ELSE outdated
          /\ At(t, "adopt")
      BY <2>4 DEF Adopt
    <3>2. arg[t] = s /\ messages'[c] = loaded[t]
      BY <1>1, <2>1, <3>1 DEF TypeOK
    <3>3. loaded[t] = rows[s]
      BY <1>1, <3>1, <3>2
    <3>4. ~Finish(t)
      BY <3>1 DEF Finish, At
    <3> QED
      BY <2>2, <2>3, <3>2, <3>3, <3>4
  <2>5. CASE Rename(t) /\ held[t] = c
    <3>1. PICK r \in Fresh \ issued : sidOf' = [sidOf EXCEPT ![c] = r] /\ gone' = gone \cup {r}
      BY <2>5 DEF Rename
    <3>2. s = r
      BY <1>1, <2>1, <3>1 DEF TypeOK
    <3> QED
      BY <1>1, <3>1, <3>2
  <2>6. CASE (Finish(t) \/ TurnFails(t)) /\ held[t] = c
    <3>1. InTurn(t)
      BY <2>6, AtFinish
    <3>2. sidOf' = sidOf /\ messages' = [messages EXCEPT ![c] = turn[t].ctx]
      BY <2>6 DEF Finish, TurnFails
    <3>3. s = turn[t].sid
      BY <1>1, <1>2, <2>6, <3>1, <3>2 DEF ContextInv
    <3>4. t \in turn[t].ctx /\ Done(s) \subseteq turn[t].ctx
      BY <1>2, <3>1, <3>3 DEF ContextInv
    <3>5. messages'[c] = turn[t].ctx
      BY <2>1, <3>2 DEF TypeOK
    <3> QED
      BY <2>2, <3>4, <3>5
  <2>7. CASE messages[c] \subseteq messages'[c] /\ sidOf'[c] = sidOf[c] /\ (Finish(t) => held[t] # c)
    <3>1. Done(s) \subseteq messages[c]
      BY <1>1, <1>2, <1>4, <2>7 DEF ContextInv
    <3>2. ASSUME Finish(t), InTurn(t), s = turn[t].sid PROVE FALSE
      <4>1. Kept(s, held[t])
        BY <3>2 DEF BindingInv
      <4>2. held[t] = c
        BY <1>2, <1>4, <4>1 DEF Kept, PoolInv
      <4> QED
        BY <2>7, <3>2, <4>2
    <3> QED
      BY <2>2, <2>7, <3>1, <3>2
  <2> QED
    BY <2>1, <2>4, <2>5, <2>6, <2>7, MessagesSteps
<1> QED
  BY <1>3, <1>4

LEMMA ContextStep ==
  ASSUME TypeOK, ProgramInv, LockInv, PoolInv, IdsInv, BindingInv, ContextInv, [Next]_vars
  PROVE  ContextInv'
<1>1. ASSUME NEW t \in Tasks, TakesStep(t) PROVE ContextInv'
  BY <1>1, RowsAreOfEntries, RowsAreOfTurns, SidsOfTurns, ContextsOfTurns, ContextsOfInstances
     DEF ContextInv, Done, DoneNext
<1>2. CASE UNCHANGED vars
  BY <1>2 DEF vars, poolVars, chatVars, taskVars, history, ContextInv, Pool, InTurn, Done
<1> QED
  BY <1>1, <1>2 DEF Next, TakesStep

LEMMA ContextInitially == Init => ContextInv
<1> SUFFICES ASSUME Init PROVE ContextInv
  OBVIOUS
<1>1. /\ \A t \in Tasks : todo[t] = <<"start">>
      /\ \A s \in Ids : rows[s] = {}
      /\ entries = <<>>
  BY DEF Init
<1>2. Pool = {}
  BY <1>1, EmptyProgram DEF Pool, Range
<1>3. \A t \in Tasks : ~InTurn(t)
  BY <1>1 DEF InTurn
<1> QED
  BY <1>1, <1>2, <1>3 DEF ContextInv

-----------------------------------------------------------------------------
(* The theorems.                                                             *)

(* The invariant: the pool's books, the queues of the locks, which instance  *)
(* serves which session and what each context knows, in every state that     *)
(* the pool and its requests can reach.                                      *)
THEOREM Invariant == Spec => []IInv
<1>1. Init => IInv
  BY TypeInitially, ProgramInitially, PoolInitially, IdsInitially, LocksInitially, BindingInitially, ContextInitially
  DEF IInv
<1>2. IInv /\ [Next]_vars => IInv'
  <2>1. SUFFICES ASSUME IInv, [Next]_vars PROVE IInv'
    OBVIOUS
  <2>2. TypeOK /\ ProgramInv /\ PoolInv /\ IdsInv /\ LockInv /\ BindingInv /\ ContextInv
    BY <2>1 DEF IInv
  <2>3. TypeOK'
    BY <2>1, <2>2, TypeStep
  <2>4. ProgramInv' /\ PoolInv' /\ IdsInv' /\ LockInv'
    BY <2>1, <2>2, ProgramStep, PoolStep, IdsStep, LockStep
  <2>5. BindingInv' /\ ContextInv'
    BY <2>1, <2>2, <2>3, BindingStep, ContextStep
  <2> QED
    BY <2>3, <2>4, <2>5 DEF IInv
<1> QED
  BY <1>1, <1>2, PTL DEF Spec

(* The pool keeps its books: it is bounded, no instance is lost between      *)
(* racing get calls, evictions and closings, none is registered twice or     *)
(* when closed, and nobody uses a closed one unless the pool evicted it.     *)
THEOREM PoolKeepsItsBooks == Spec => []PoolIsSound
<1>1. IInv => PoolIsSound
  <2>1. SUFFICES ASSUME IInv PROVE PoolIsSound
    OBVIOUS
  <2>2. TypeOK /\ PoolInv /\ BindingInv
    BY <2>1 DEF IInv
  <2>3. PoolBounded
    <3>1. Len(entries) \in Nat /\ MaxSize \in Nat
      BY <2>2, Constants DEF TypeOK
    <3> QED
      BY <2>2, <3>1 DEF PoolInv, PoolBounded, Free
  <2>4. DOMAIN entries = 1..Len(entries) /\ \A i \in DOMAIN entries : entries[i] \in Pool
    BY <2>2 DEF TypeOK, Pool, Range
  <2>5. ASSUME NEW c \in 1..made
        PROVE  (\E i \in DOMAIN entries : entries[i].chat = c) <=> c \notin closed /\ ~Closing(c)
    <3>1. (\E i \in DOMAIN entries : entries[i].chat = c) <=> \E e \in Pool : e.chat = c
      BY DEF Pool, Range
    <3>2. c # NoChat
      BY <2>2 DEF TypeOK, NoChat
    <3>3. (\E e \in Pool : e.chat = c) => c \notin closed /\ ~Closing(c)
      BY <2>2, <3>2 DEF PoolInv, Closing
    <3>4. c \notin closed /\ ~Closing(c) => \E e \in Pool : e.chat = c
      BY <2>2, <2>5 DEF PoolInv
    <3> QED
      BY <3>1, <3>3, <3>4
  <2>6. \A i, j \in DOMAIN entries : entries[i].sid = entries[j].sid => i = j
    BY <2>2, <2>4 DEF PoolInv, IsInjective
  <2>7. NothingLeaks
    BY <2>5, <2>6 DEF NothingLeaks
  <2>8. NothingClosedIsUsed
    BY <2>2 DEF BindingInv, NothingClosedIsUsed
  <2> QED
    BY <2>2, <2>3, <2>7, <2>8 DEF PoolIsSound
<1> QED
  BY <1>1, Invariant, PTL

(* Two requests are never in a turn of one session together, whatever other  *)
(* sessions do, as long as the session has kept its instance.                *)
THEOREM TurnsAreSerial == Spec => []SerialWhileKept
<1>1. IInv => SerialWhileKept
  <2>1. SUFFICES ASSUME IInv, NEW t \in Tasks, NEW u \in Tasks, turn[t].sid \notin gone,
                        InTurn(t), InTurn(u), turn[t].sid = turn[u].sid
                 PROVE  t = u
    BY DEF SerialWhileKept, Serial
  <2>2. Kept(turn[t].sid, held[t]) /\ Kept(turn[t].sid, held[u])
    BY <2>1 DEF IInv, BindingInv
  <2>3. held[t] = held[u]
    BY <2>1, <2>2 DEF IInv, PoolInv, Kept
  <2>4. Head(locks[held[t]]) = t /\ Head(locks[held[u]]) = u
    BY <2>1 DEF IInv, LockInv
  <2> QED
    BY <2>3, <2>4
<1> QED
  BY <1>1, Invariant, PTL

(* An instance is never closed while a turn on it is in progress: _close_    *)
(* entry waits for the lock that the turn holds.                             *)
THEOREM TurnsKeepTheirStores == Spec => NoCloseInTurn
<1>1. IInv /\ IInv' /\ [Next]_vars => [\A t \in Tasks : InTurn(t) /\ InTurn(t)' => held[t] \notin closed']_vars
  <2>1. SUFFICES ASSUME IInv, IInv', Next, NEW u \in Tasks, InTurn(u), InTurn(u)'
                 PROVE  held[u] \notin closed'
    OBVIOUS
  <2>2. PICK t \in Tasks : TakesStep(t)
    BY <2>1 DEF Next, TakesStep
  <2>3. TypeOK /\ ProgramInv /\ LockInv
    BY <2>1 DEF IInv
  <2>4. CASE u = t
    <3>1. todo'[t] = <<>>
      BY <2>1, <2>2, <2>3, <2>4, TurnEnds, AtFinish
    <3> QED
      BY <2>1, <2>4, <3>1, EmptyProgram, FinishProgram DEF InTurn
  <2>5. CASE u # t
    <3>1. held'[u] = held[u]
      BY <2>2, <2>3, <2>5, OthersStay
    <3>2. held'[u] \notin closed'
      BY <2>1 DEF IInv, BindingInv
    <3> QED
      BY <3>1, <3>2
  <2> QED
    BY <2>4, <2>5
<1> QED
  BY <1>1, Invariant, PTL DEF Spec, NoCloseInTurn

(* A turn begins with every finished turn of its session in its context.     *)
THEOREM TurnsKnowTheirSession == Spec => ContextComplete
<1>1. IInv /\ [Next]_vars =>
        [\A t \in Tasks : ~InTurn(t) /\ InTurn(t)' /\ turn'[t].sid \notin gone \cup outdated
           => {u \in rows[turn'[t].sid] : outcome[u] = "ok"} \subseteq turn'[t].ctx]_vars
  <2>1. SUFFICES ASSUME IInv, Next, NEW u \in Tasks, ~InTurn(u), InTurn(u)', turn'[u].sid \notin gone \cup outdated
                 PROVE  Done(turn'[u].sid) \subseteq turn'[u].ctx
    BY DEF Done
  <2>2. PICK t \in Tasks : TakesStep(t)
    BY <2>1 DEF Next, TakesStep
  <2>3. TypeOK /\ ProgramInv /\ LockInv /\ PoolInv /\ IdsInv /\ BindingInv /\ ContextInv
    BY <2>1 DEF IInv
  <2>4. u = t
    BY <2>1, <2>2, <2>3, OthersStay DEF InTurn
  <2>5. Turn(t) /\ held[t] \notin closed
    BY <2>1, <2>2, <2>3, <2>4, StepEnds
  <2>6. turn' = [turn EXCEPT ![t] = [sid |-> sidOf[held[t]], ctx |-> messages[held[t]] \cup {t}]] /\ At(t, "turn")
    BY <2>5 DEF Turn
  <2>7. turn'[t].sid = sidOf[held[t]] /\ turn'[t].ctx = messages[held[t]] \cup {t}
    BY <2>3, <2>6 DEF TypeOK
  <2>8. held[t] \in Chats
    BY <2>3, <2>6, StepFacts DEF Using
  <2>9. Kept(sidOf[held[t]], held[t])
    BY <2>3, <2>8, Constants DEF BindingInv
  <2>10. PICK e \in Pool : e.sid = sidOf[held[t]] /\ e.chat = held[t]
    BY <2>1, <2>4, <2>7, <2>9 DEF Kept
  <2>11. Done(sidOf[held[t]]) \subseteq messages[held[t]]
    BY <2>1, <2>3, <2>4, <2>7, <2>10 DEF ContextInv
  <2> QED
    BY <2>4, <2>7, <2>11
<1> QED
  BY <1>1, Invariant, PTL DEF Spec, ContextComplete
=============================================================================
