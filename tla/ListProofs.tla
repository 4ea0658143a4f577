------------------------------ MODULE ListProofs ------------------------------
(* What the operators of Lists give, and the induction over the natural      *)
(* numbers that proofs about recursive functions need.                       *)
EXTENDS Lists, FiniteSetTheorems, WellFoundedInduction, TLAPS

LEMMA SmallestOf ==
  ASSUME NEW T, T \subseteq Nat, T # {}
  PROVE  \E x \in T : \A y \in T : x <= y
<1>1. PICK x \in T : \A y \in T : <<y, x>> \notin OpToRel(<, Nat)
  BY WFMin, NatLessThanWellFounded
<1>2. ASSUME NEW y \in T PROVE x <= y
  <2>1. x \in Nat /\ y \in Nat
    OBVIOUS
  <2>2. ~(y < x)
    BY <1>1, <2>1 DEF OpToRel
  <2> QED
    BY <2>1, <2>2
<1> QED
  BY <1>2

(* Counting up: what holds at 0 and goes on holds up to n.  holds is a set,  *)
(* for a lemma cannot be about an arbitrary predicate here.                  *)
LEMMA CountingUp ==
  ASSUME NEW n \in Nat, NEW holds, 0 \in holds,
         \A i \in 1..n : i - 1 \in holds => i \in holds
  PROVE  \A i \in 0..n : i \in holds
<1> SUFFICES ASSUME ~(\A i \in 0..n : i \in holds) PROVE FALSE
  OBVIOUS
<1> DEFINE bad == {i \in 0..n : i \notin holds}
<1>0. bad \subseteq Nat /\ bad # {}
  OBVIOUS
<1> HIDE DEF bad
<1>1. PICK x \in bad : \A y \in bad : x <= y
  BY <1>0, SmallestOf
<1> USE DEF bad
<1>2. x # 0 /\ x \in 1..n
  BY <1>1
<1>3. x - 1 \in 0..n /\ ~(x <= x - 1)
  BY <1>2
<1>4. x - 1 \in holds
  BY <1>1, <1>3
<1> QED
  BY <1>1, <1>2, <1>4

(* A function is defined by its first value and by what it does from each    *)
(* number to the next.                                                       *)
StepsWithin(step, n, X) == \A i \in 1..n, q \in X : step[i][q] \in X

Unfolds(f, step, n, X, base) ==
  f \in [0..n -> X] /\ f[0] = base /\ \A i \in 1..n : f[i] = step[i][f[i - 1]]

LEMMA RecursionExists ==
  ASSUME NEW n \in Nat, NEW X, NEW base \in X, NEW step, StepsWithin(step, n, X)
  PROVE  \E f : Unfolds(f, step, n, X, base)
<1> DEFINE holds == {m \in 0..n : \E f : Unfolds(f, step, m, X, base)}
<1>1. 0 \in holds
  <2> DEFINE f == [i \in 0..0 |-> base]
  <2>1. Unfolds(f, step, 0, X, base)
    BY DEF Unfolds
  <2> HIDE DEF f
  <2> QED
    BY <2>1
<1>2. ASSUME NEW m \in 1..n, m - 1 \in holds PROVE m \in holds
  <2>1. PICK f : Unfolds(f, step, m - 1, X, base)
    BY <1>2
  <2> DEFINE g == [i \in 0..m |-> IF i = m THEN step[m][f[m - 1]] ELSE f[i]]
  <2>2. m - 1 \in 0..m - 1 /\ f[m - 1] \in X
    BY <2>1 DEF Unfolds
  <2>3. step[m][f[m - 1]] \in X
    BY <2>2 DEF StepsWithin
  <2>4. g \in [0..m -> X] /\ g[0] = base
    BY <2>1, <2>3 DEF Unfolds
  <2>5. ASSUME NEW i \in 1..m PROVE g[i] = step[i][g[i - 1]]
    <3>1. i \in 0..m /\ i - 1 \in 0..m - 1 /\ i - 1 \in 0..m /\ i - 1 # m
      OBVIOUS
    <3>2. g[i - 1] = f[i - 1]
      BY <3>1
    <3>3. CASE i = m
      BY <3>1, <3>2, <3>3
    <3>4. CASE i # m
      <4>1. i \in 1..m - 1 /\ g[i] = f[i]
        BY <3>1, <3>4
      <4> QED
        BY <2>1, <3>2, <4>1 DEF Unfolds
    <3> QED
      BY <3>3, <3>4
  <2> HIDE DEF g
  <2>6. Unfolds(g, step, m, X, base)
    BY <2>4, <2>5 DEF Unfolds
  <2>7. m \in 0..n
    OBVIOUS
  <2> QED
    BY <2>6, <2>7
<1> HIDE DEF holds
<1>3. n \in holds
  BY <1>1, <1>2, CountingUp
<1> QED
  BY <1>3 DEF holds

-----------------------------------------------------------------------------
(* filter() goes through a list once.                                        *)
LEMMA FilterRuns ==
  ASSUME NEW X, NEW s \in Seq(X), NEW keep \in [1..Len(s) -> BOOLEAN]
  PROVE  \E up \in [0..Len(s) -> Seq(X)] :
           /\ up[0] = <<>>
           /\ \A i \in 1..Len(s) : up[i] = IF keep[i] THEN Append(up[i - 1], s[i]) ELSE up[i - 1]
           /\ Filter(s, keep) = up[Len(s)]
<1> DEFINE n == Len(s)
           Is(h) == h = [i \in 0..n |-> IF i = 0 THEN <<>> ELSE IF keep[i] THEN Append(h[i - 1], s[i]) ELSE h[i - 1]]
<1>1. n \in Nat /\ <<>> \in Seq(X) /\ \A i \in 1..n : s[i] \in X
  OBVIOUS
<1>2. Filter(s, keep) = (CHOOSE h : Is(h))[n]
  BY DEF Filter
<1> HIDE DEF n
<1>3. PICK step : \A i \in 1..n, q \in Seq(X) : step[i][q] = IF keep[i] THEN Append(q, s[i]) ELSE q
  <2> DEFINE step == [i \in 1..n |-> [q \in Seq(X) |-> IF keep[i] THEN Append(q, s[i]) ELSE q]]
  <2>1. \A i \in 1..n, q \in Seq(X) : step[i][q] = IF keep[i] THEN Append(q, s[i]) ELSE q
    OBVIOUS
  <2> HIDE DEF step
  <2> QED
    BY <2>1
<1>4. PICK f : Unfolds(f, step, n, Seq(X), <<>>)
  <2>1. ASSUME NEW i \in 1..n, NEW q \in Seq(X) PROVE step[i][q] \in Seq(X)
    <3>1. s[i] \in X /\ Append(q, s[i]) \in Seq(X)
      BY <1>1
    <3> QED
      BY <1>3, <3>1
  <2>2. StepsWithin(step, n, Seq(X))
    BY <2>1 DEF StepsWithin
  <2> QED
    BY <1>1, <2>2, RecursionExists
<1>5. ASSUME NEW i \in 1..n
      PROVE  f[i] = IF keep[i] THEN Append(f[i - 1], s[i]) ELSE f[i - 1]
  <2>1. i - 1 \in 0..n
    BY <1>1
  <2>2. f[i - 1] \in Seq(X)
    BY <1>4, <2>1 DEF Unfolds
  <2> QED
    BY <1>3, <1>4, <2>2 DEF Unfolds
<1>6. Is(f)
  <2>1. ASSUME NEW i \in 0..n
        PROVE  f[i] = IF i = 0 THEN <<>> ELSE IF keep[i] THEN Append(f[i - 1], s[i]) ELSE f[i - 1]
    <3>1. i = 0 \/ i \in 1..n
      BY <1>1
    <3> QED
      BY <1>4, <1>5, <3>1 DEF Unfolds
  <2>2. f = [i \in 0..n |-> f[i]]
    BY <1>4 DEF Unfolds
  <2> QED
    BY <2>1, <2>2
<1>7. Is(CHOOSE h : Is(h))
  BY <1>6
<1> DEFINE g == CHOOSE h : Is(h)
<1>8. \A i \in 0..n : g[i] = IF i = 0 THEN <<>> ELSE IF keep[i] THEN Append(g[i - 1], s[i]) ELSE g[i - 1]
  BY <1>7
<1> HIDE DEF g
<1>9. \A i \in 0..n : g[i] = f[i]
  <2> DEFINE holds == {i \in 0..n : g[i] = f[i]}
  <2>1. 0 \in holds
    BY <1>1, <1>4, <1>8 DEF Unfolds
  <2>2. ASSUME NEW i \in 1..n, i - 1 \in holds PROVE i \in holds
    <3>1. g[i - 1] = f[i - 1] /\ i \in 0..n /\ i # 0
      BY <1>1, <2>2
    <3> QED
      BY <1>5, <1>8, <3>1
  <2> HIDE DEF holds
  <2>3. \A i \in 0..n : i \in holds
    BY <1>1, <2>1, <2>2, CountingUp
  <2> QED
    BY <2>3 DEF holds
<1>10. Filter(s, keep) = f[n]
  <2>1. g[n] = f[n]
    BY <1>1, <1>9
  <2> QED
    BY <1>2, <2>1 DEF g
<1> QED
  BY <1>4, <1>5, <1>10 DEF n, Unfolds

(* What it gives: the kept members, each once and in order.                  *)
Picks(spot, w, s, keep) ==
  /\ spot \in [1..Len(w) -> 1..Len(s)]
  /\ \A i \in 1..Len(w) : keep[spot[i]] /\ w[i] = s[spot[i]]
  /\ \A i, j \in 1..Len(w) : i < j => spot[i] < spot[j]
  /\ \A k \in 1..Len(s) : keep[k] => \E i \in 1..Len(w) : spot[i] = k

LEMMA FilterIs ==
  ASSUME NEW X, NEW s \in Seq(X), NEW keep \in [1..Len(s) -> BOOLEAN]
  PROVE  Filter(s, keep) \in Seq(X) /\ \E spot : Picks(spot, Filter(s, keep), s, keep)
<1> DEFINE n == Len(s)
<1>1. PICK up \in [0..n -> Seq(X)] :
        /\ up[0] = <<>>
        /\ \A i \in 1..n : up[i] = IF keep[i] THEN Append(up[i - 1], s[i]) ELSE up[i - 1]
        /\ Filter(s, keep) = up[n]
  BY FilterRuns
<1> DEFINE Maps(spot, m) ==
             /\ spot \in [1..Len(up[m]) -> 1..m]
             /\ \A i \in 1..Len(up[m]) : keep[spot[i]] /\ up[m][i] = s[spot[i]]
             /\ \A i, j \in 1..Len(up[m]) : i < j => spot[i] < spot[j]
             /\ \A k \in 1..m : keep[k] => \E i \in 1..Len(up[m]) : spot[i] = k
           holds == {m \in 0..n : \E spot : Maps(spot, m)}
<1>2. n \in Nat /\ \A i \in 1..n : s[i] \in X
  OBVIOUS
<1> HIDE DEF n
<1>3. 0 \in holds
  <2> DEFINE spot == [i \in 1..0 |-> i]
  <2>1. Len(up[0]) = 0
    BY <1>1
  <2>2. Maps(spot, 0)
    BY <2>1
  <2> HIDE DEF spot, Maps
  <2> QED
    BY <1>2, <2>2
<1>4. ASSUME NEW m \in 1..n, m - 1 \in holds PROVE m \in holds
  <2>1. PICK spot : Maps(spot, m - 1)
    BY <1>4
  <2>2. m \in 0..n /\ m \in Nat /\ m - 1 \in 0..n /\ up[m - 1] \in Seq(X) /\ s[m] \in X
    BY <1>1, <1>2
  <2> DEFINE l == Len(up[m - 1])
  <2>3. l \in Nat
    BY <2>2
  <2>4. /\ spot \in [1..l -> 1..m - 1]
        /\ \A i \in 1..l : keep[spot[i]] /\ up[m - 1][i] = s[spot[i]]
        /\ \A i, j \in 1..l : i < j => spot[i] < spot[j]
        /\ \A k \in 1..m - 1 : keep[k] => \E i \in 1..l : spot[i] = k
    BY <2>1
  <2>5. CASE ~keep[m]
    <3>1. up[m] = up[m - 1]
      BY <1>1, <2>5
    <3>2. spot \in [1..l -> 1..m]
      BY <2>2, <2>4
    <3>3. \A k \in 1..m : keep[k] => \E i \in 1..l : spot[i] = k
      BY <2>2, <2>4, <2>5
    <3>4. Maps(spot, m)
      BY <2>4, <3>1, <3>2, <3>3
    <3> HIDE DEF Maps
    <3> QED
      BY <2>2, <3>4
  <2>6. CASE keep[m]
    <3> HIDE DEF l
    <3> DEFINE more == [i \in 1..l + 1 |-> IF i = l + 1 THEN m ELSE spot[i]]
    <3>1. up[m] = Append(up[m - 1], s[m])
      BY <1>1, <2>6
    <3>2. Len(up[m]) = l + 1 /\ up[m][l + 1] = s[m] /\ \A i \in 1..l : up[m][i] = up[m - 1][i]
      BY <2>2, <3>1 DEF l
    <3>3. \A i \in 1..l : i \in 1..l + 1 /\ i # l + 1
      BY <2>3
    <3>4. \A i \in 1..l : more[i] = spot[i] /\ spot[i] \in 1..m - 1
      BY <2>4, <3>3
    <3>5. l + 1 \in 1..l + 1 /\ more[l + 1] = m
      BY <2>3
    <3>6. \A i \in 1..l + 1 : i = l + 1 \/ i \in 1..l
      BY <2>3
    <3>7. more \in [1..l + 1 -> 1..m]
      BY <2>2, <2>4, <3>6
    <3> HIDE DEF more
    <3>8. \A i \in 1..l + 1 : keep[more[i]] /\ up[m][i] = s[more[i]]
      BY <2>4, <2>6, <3>2, <3>4, <3>5, <3>6
    <3>9. ASSUME NEW i \in 1..l + 1, NEW j \in 1..l + 1, i < j PROVE more[i] < more[j]
      <4>1. i \in 1..l
        BY <2>3, <3>9
      <4>2. CASE j = l + 1
        BY <2>2, <3>4, <3>5, <4>1, <4>2
      <4>3. CASE j \in 1..l
        BY <2>4, <3>4, <3>9, <4>1, <4>3
      <4> QED
        BY <3>6, <4>2, <4>3
    <3>10. ASSUME NEW k \in 1..m, keep[k] PROVE \E i \in 1..l + 1 : more[i] = k
      <4>1. CASE k = m
        BY <3>5, <4>1
      <4>2. CASE k # m
        <5>1. k \in 1..m - 1
          BY <2>2, <4>2
        <5>2. PICK i \in 1..l : spot[i] = k
          BY <2>4, <3>10, <5>1
        <5> QED
          BY <3>3, <3>4, <5>2
      <4> QED
        BY <4>1, <4>2
    <3>11. Maps(more, m)
      BY <3>2, <3>7, <3>8, <3>9, <3>10
    <3> HIDE DEF Maps
    <3> QED
      BY <2>2, <3>11
  <2> QED
    BY <2>5, <2>6
<1> HIDE DEF holds
<1>5. n \in holds
  <2>1. n \in Nat /\ \A i \in 1..n : i - 1 \in holds => i \in holds
    BY <1>2, <1>4
  <2>2. \A i \in 0..n : i \in holds
    BY <1>3, <2>1, CountingUp
  <2> QED
    BY <2>1, <2>2
<1>6. PICK spot : Maps(spot, n)
  BY <1>5 DEF holds
<1>7. Filter(s, keep) = up[n] /\ Filter(s, keep) \in Seq(X)
  BY <1>1, <1>2
<1>8. Picks(spot, Filter(s, keep), s, keep)
  BY <1>6, <1>7 DEF n, Picks
<1> QED
  BY <1>7, <1>8

(* All but one are kept, or all.                                             *)
LeftOut(s, j) ==
  [i \in 1 .. (IF j <= Len(s) THEN Len(s) - 1 ELSE Len(s)) |-> IF i < j THEN s[i] ELSE s[i + 1]]

LEMMA FilterBut ==
  ASSUME NEW X, NEW s \in Seq(X), NEW keep \in [1..Len(s) -> BOOLEAN], NEW j \in Nat \ {0},
         \A k \in 1..Len(s) : keep[k] <=> k # j
  PROVE  Filter(s, keep) = LeftOut(s, j)
<1> DEFINE n == Len(s)
<1>1. PICK up \in [0..n -> Seq(X)] :
        /\ up[0] = <<>>
        /\ \A i \in 1..n : up[i] = IF keep[i] THEN Append(up[i - 1], s[i]) ELSE up[i - 1]
        /\ Filter(s, keep) = up[n]
  BY FilterRuns
<1> DEFINE left(m) == IF j <= m THEN m - 1 ELSE m
           But(m) == [i \in 1..left(m) |-> IF i < j THEN s[i] ELSE s[i + 1]]
           holds == {m \in 0..n : up[m] = But(m)}
<1>2. n \in Nat /\ \A i \in 1..n : s[i] \in X
  OBVIOUS
<1>0. \A k \in 1..n : keep[k] <=> k # j
  OBVIOUS
<1> HIDE DEF n
<1>3. 0 \in holds
  <2>1. left(0) = 0
    OBVIOUS
  <2>2. But(0) = <<>>
    BY <2>1
  <2> QED
    BY <1>1, <1>2, <2>2
<1>4. ASSUME NEW m \in 1..n, m - 1 \in holds PROVE m \in holds
  <2>1. up[m - 1] = But(m - 1) /\ m \in Nat /\ m >= 1 /\ s[m] \in X /\ m \in 0..n
    BY <1>2, <1>4
  <2>2. CASE m = j
    <3>1. up[m] = But(m - 1)
      BY <1>0, <1>1, <2>1, <2>2
    <3>2. left(m) = left(m - 1)
      BY <2>1, <2>2
    <3> QED
      BY <2>1, <3>1, <3>2
  <2>3. CASE m # j
    <3>1. up[m] = Append(But(m - 1), s[m])
      BY <1>0, <1>1, <2>1, <2>3
    <3>2. PICK l \in Nat : l = left(m) /\ left(m - 1) = l - 1 /\ l >= 1
      BY <2>1, <2>3
    <3>3. But(m - 1) = [i \in 1..l - 1 |-> IF i < j THEN s[i] ELSE s[i + 1]]
      BY <3>2
    <3>4. But(m) = [i \in 1..l |-> IF i < j THEN s[i] ELSE s[i + 1]]
      BY <3>2
    <3>5. (IF l < j THEN s[l] ELSE s[l + 1]) = s[m]
      BY <2>1, <2>3, <3>2
    <3> HIDE DEF But, left
    <3>6. up[m] = [i \in 1..l |-> IF i = l THEN s[m] ELSE But(m - 1)[i]]
      BY <3>1, <3>2, <3>3
    <3>7. ASSUME NEW i \in 1..l
          PROVE  (IF i = l THEN s[m] ELSE But(m - 1)[i]) = IF i < j THEN s[i] ELSE s[i + 1]
      <4>1. i # l => i \in 1..l - 1
        BY <3>2
      <4> QED
        BY <3>3, <3>5, <4>1
    <3>8. up[m] = But(m)
      BY <3>4, <3>6, <3>7
    <3> QED
      BY <2>1, <3>8
  <2> QED
    BY <2>2, <2>3
<1> HIDE DEF holds
<1>5. n \in holds
  <2>1. n \in Nat /\ \A i \in 1..n : i - 1 \in holds => i \in holds
    BY <1>2, <1>4
  <2>2. \A i \in 0..n : i \in holds
    BY <1>3, <2>1, CountingUp
  <2> QED
    BY <2>1, <2>2
<1>6. up[n] = But(n)
  BY <1>5 DEF holds
<1> QED
  BY <1>1, <1>6 DEF n, LeftOut
=============================================================================
