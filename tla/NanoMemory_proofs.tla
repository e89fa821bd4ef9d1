--------------------------- MODULE NanoMemory_proofs ---------------------------
(***************************************************************************)
(* No step touches an object whose memory is gone, and the two ends of     *)
(* every connection agree: under TS_Policy_Safe the first whatever the     *)
(* clients call, and both under every policy for disciplined clients.      *)
(***************************************************************************)
EXTENDS NanoLifetime_proofs, FiniteSetTheorems

-------------------------------------------------------------------------------
(* What insert and remove do to the number of connections *)

\* Where the elements of a vector go when one is inserted after equal keys.
LEMMA InsertedAt ==
  ASSUME NEW s \in Seq(Connection), InOrder(s), NEW k \in Slots, NEW o \in Objects
  PROVE  LET p == UpperBound(s, k)
             r == Inserted(s, k, o) IN
         /\ p \in 0..Len(s) /\ Len(r) = Len(s) + 1
         /\ \A j \in 1..Len(r) :
              r[j] = IF j <= p THEN s[j] ELSE IF j = p + 1 THEN [slot |-> k, obs |-> o] ELSE s[j - 1]
<1> DEFINE p == UpperBound(s, k)
           e == [slot |-> k, obs |-> o]
           before == SubSeq(s, 1, p)
           after == SubSeq(s, p + 1, Len(s))
<1>0. Len(s) \in Nat /\ e \in Connection
  BY DEF Connection
<1>1. p \in 0..Len(s)
  BY UpperBoundSplits
<1> HIDE DEF p, e
<1>2. Inserted(s, k, o) = before \o <<e>> \o after
  <2>1. (p + 1) - 1 = p
    BY <1>1
  <2> QED
    BY <2>1 DEF Inserted, InsertAt, p, e
<1>3. before \in Seq(Connection) /\ Len(before) = p /\ \A i \in 1..p : before[i] = s[i]
  <2>0. 1 \in Nat \ {0} /\ p \in 0..Len(s)
    BY <1>0, <1>1
  <2>1. /\ before \in Seq(Connection)
        /\ Len(before) = IF 1 <= p THEN p - 1 + 1 ELSE 0
        /\ \A i \in 1..Len(before) : before[i] = s[1 + i - 1]
    BY <2>0, PartInOrder
  <2>2. Len(before) = p
    BY <1>1, <2>1
  <2> QED
    BY <1>1, <2>1, <2>2
<1>4. /\ after \in Seq(Connection) /\ Len(after) = Len(s) - p
      /\ \A i \in 1..(Len(s) - p) : after[i] = s[p + i]
  <2>0. p + 1 \in Nat \ {0} /\ Len(s) \in 0..Len(s)
    BY <1>0, <1>1
  <2>1. /\ after \in Seq(Connection)
        /\ Len(after) = IF p + 1 <= Len(s) THEN Len(s) - (p + 1) + 1 ELSE 0
        /\ \A i \in 1..Len(after) : after[i] = s[p + 1 + i - 1]
    BY <2>0, PartInOrder
  <2>2. Len(after) = Len(s) - p
    BY <1>0, <1>1, <2>1
  <2> QED
    BY <1>0, <1>1, <2>1, <2>2
<1> DEFINE front == before \o <<e>>
<1>5. /\ front \in Seq(Connection) /\ Len(front) = p + 1
      /\ \A i \in 1..(p + 1) : front[i] = IF i <= p THEN s[i] ELSE e
  <2>1. <<e>> \in Seq(Connection) /\ Len(<<e>>) = 1 /\ <<e>>[1] = e
    BY <1>0
  <2>2. /\ front \in Seq(Connection) /\ Len(front) = Len(before) + 1
        /\ \A i \in 1..(Len(before) + 1) :
              front[i] = IF i <= Len(before) THEN before[i] ELSE <<e>>[i - Len(before)]
    BY <1>3, <2>1, ConcatProperties
  <2>3. \A i \in 1..(p + 1) : i <= p \/ i - p = 1
    BY <1>1
  <2> QED
    BY <1>1, <1>3, <2>1, <2>2, <2>3
<1> HIDE DEF front, after
<1> DEFINE r == front \o after
<1>6. /\ Len(r) = p + 1 + (Len(s) - p)
      /\ \A i \in 1..(p + 1 + (Len(s) - p)) : r[i] = IF i <= p + 1 THEN front[i] ELSE after[i - (p + 1)]
  <2>1. /\ Len(r) = Len(front) + Len(after)
        /\ \A i \in 1..(Len(front) + Len(after)) :
             r[i] = IF i <= Len(front) THEN front[i] ELSE after[i - Len(front)]
    BY <1>4, <1>5, ConcatProperties
  <2> QED
    BY <1>4, <1>5, <2>1
<1>7. Len(r) = Len(s) + 1
  BY <1>0, <1>1, <1>6
<1>8. ASSUME NEW j \in 1..Len(r)
      PROVE  r[j] = IF j <= p THEN s[j] ELSE IF j = p + 1 THEN e ELSE s[j - 1]
  <2>1. CASE j <= p + 1
    <3>1. j \in 1..(p + 1) /\ r[j] = front[j]
      BY <1>0, <1>1, <1>6, <1>7, <2>1
    <3>2. j <= p \/ j = p + 1
      BY <1>1, <2>1
    <3> QED
      BY <1>1, <1>5, <3>1, <3>2
  <2>2. CASE j > p + 1
    <3>1. j - (p + 1) \in 1..(Len(s) - p) /\ p + (j - (p + 1)) = j - 1 /\ ~(j <= p) /\ j # p + 1
      BY <1>0, <1>1, <1>7, <2>2
    <3>2. r[j] = after[j - (p + 1)]
      BY <1>0, <1>1, <1>6, <1>7, <2>2
    <3> QED
      BY <1>4, <3>1, <3>2
  <2> QED
    BY <1>1, <1>7, <2>1, <2>2
<1> QED
  BY <1>1, <1>2, <1>7, <1>8 DEF front, e, p

\* Where they go when all with one key are removed, and that these lie together.
LEMMA RemovedAt ==
  ASSUME NEW s \in Seq(Connection), InOrder(s), NEW k \in Slots
  PROVE  LET l == LowerBound(s, k)
             p == UpperBound(s, k)
             r == Removed(s, k) IN
         /\ l \in 0..p /\ p \in 0..Len(s) /\ Len(r) = Len(s) - (p - l)
         /\ \A j \in 1..Len(r) : r[j] = IF j <= l THEN s[j] ELSE s[j + (p - l)]
         /\ \A i \in 1..Len(s) : s[i].slot = k <=> l < i /\ i <= p
<1> DEFINE l == LowerBound(s, k)
           p == UpperBound(s, k)
           before == SubSeq(s, 1, l)
           after == SubSeq(s, p + 1, Len(s))
<1>0. Len(s) \in Nat /\ Z[k] \in Nat
  BY OrderAssumption
<1>1. /\ l \in 0..Len(s) /\ \A i \in 1..l : Z[s[i].slot] < Z[k]
      /\ \A i \in (l + 1)..Len(s) : Z[s[i].slot] >= Z[k]
  BY LowerBoundSplits
<1>2. /\ p \in 0..Len(s) /\ \A i \in 1..p : Z[s[i].slot] <= Z[k]
      /\ \A i \in (p + 1)..Len(s) : Z[s[i].slot] > Z[k]
  BY UpperBoundSplits
<1> HIDE DEF l, p
<1>3. \A i \in 1..Len(s) : Z[s[i].slot] \in Nat /\ s[i].slot \in Slots
  BY Ranks DEF Connection
<1>4. l <= p
  <2> SUFFICES ASSUME p < l PROVE FALSE
    BY <1>1, <1>2
  <2>1. l \in (p + 1)..Len(s) /\ l \in 1..l /\ l \in 1..Len(s)
    BY <1>1, <1>2
  <2>2. Z[s[l].slot] < Z[k] /\ Z[s[l].slot] > Z[k] /\ Z[s[l].slot] \in Nat
    BY <1>1, <1>2, <1>3, <2>1
  <2> QED
    BY <1>0, <2>2
<1>5. ASSUME NEW i \in 1..Len(s) PROVE s[i].slot = k <=> l < i /\ i <= p
  <2>1. s[i].slot = k <=> Z[s[i].slot] = Z[k]
    BY <1>3, OrderAssumption
  <2>2. CASE i <= l
    <3>1. i \in 1..l
      BY <1>1, <2>2
    <3>2. Z[s[i].slot] < Z[k]
      BY <1>1, <3>1
    <3> QED
      BY <1>0, <1>1, <1>3, <2>1, <2>2, <3>2
  <2>3. CASE i > p
    <3>1. i \in (p + 1)..Len(s)
      BY <1>2, <2>3
    <3>2. Z[s[i].slot] > Z[k]
      BY <1>2, <3>1
    <3> QED
      BY <1>0, <1>2, <1>3, <2>1, <2>3, <3>2
  <2>4. CASE l < i /\ i <= p
    <3>1. i \in (l + 1)..Len(s) /\ i \in 1..p
      BY <1>1, <1>2, <2>4
    <3>2. Z[s[i].slot] >= Z[k] /\ Z[s[i].slot] <= Z[k]
      BY <1>1, <1>2, <3>1
    <3> QED
      BY <1>0, <1>3, <2>1, <2>4, <3>2
  <2> QED
    BY <1>1, <1>2, <2>2, <2>3, <2>4
<1>6. before \in Seq(Connection) /\ Len(before) = l /\ \A i \in 1..l : before[i] = s[i]
  <2>0. 1 \in Nat \ {0} /\ l \in 0..Len(s)
    BY <1>0, <1>1
  <2>1. /\ before \in Seq(Connection)
        /\ Len(before) = IF 1 <= l THEN l - 1 + 1 ELSE 0
        /\ \A i \in 1..Len(before) : before[i] = s[1 + i - 1]
    BY <2>0, PartInOrder
  <2>2. Len(before) = l
    BY <1>1, <2>1
  <2> QED
    BY <1>1, <2>1, <2>2
<1>7. /\ after \in Seq(Connection) /\ Len(after) = Len(s) - p
      /\ \A i \in 1..(Len(s) - p) : after[i] = s[p + i]
  <2>0. p + 1 \in Nat \ {0} /\ Len(s) \in 0..Len(s)
    BY <1>0, <1>2
  <2>1. /\ after \in Seq(Connection)
        /\ Len(after) = IF p + 1 <= Len(s) THEN Len(s) - (p + 1) + 1 ELSE 0
        /\ \A i \in 1..Len(after) : after[i] = s[p + 1 + i - 1]
    BY <2>0, PartInOrder
  <2>2. Len(after) = Len(s) - p
    BY <1>0, <1>2, <2>1
  <2>3. ASSUME NEW i \in 1..(Len(s) - p) PROVE after[i] = s[p + i]
    <3>1. after[i] = s[p + 1 + i - 1]
      BY <2>1, <2>2, <2>3
    <3>2. p + 1 + i - 1 = p + i
      BY <1>0, <1>2, <2>3
    <3> QED
      BY <3>1, <3>2
  <2> QED
    BY <2>1, <2>2, <2>3
<1> HIDE DEF before, after
<1> DEFINE r == before \o after
<1>8. /\ Len(r) = l + (Len(s) - p)
      /\ \A i \in 1..(l + (Len(s) - p)) : r[i] = IF i <= l THEN before[i] ELSE after[i - l]
  <2>1. /\ Len(r) = Len(before) + Len(after)
        /\ \A i \in 1..(Len(before) + Len(after)) :
             r[i] = IF i <= Len(before) THEN before[i] ELSE after[i - Len(before)]
    BY <1>6, <1>7, ConcatProperties
  <2> QED
    BY <1>6, <1>7, <2>1
<1>9. Len(r) = Len(s) - (p - l)
  BY <1>0, <1>1, <1>2, <1>8
<1>10. ASSUME NEW j \in 1..Len(r) PROVE r[j] = IF j <= l THEN s[j] ELSE s[j + (p - l)]
  <2>1. CASE j <= l
    <3>1. j \in 1..l /\ r[j] = before[j]
      BY <1>0, <1>1, <1>2, <1>8, <2>1
    <3> QED
      BY <1>6, <2>1, <3>1
  <2>2. CASE j > l
    <3>1. j - l \in 1..(Len(s) - p) /\ p + (j - l) = j + (p - l) /\ ~(j <= l)
      BY <1>0, <1>1, <1>2, <1>8, <2>2
    <3>2. r[j] = after[j - l]
      BY <1>0, <1>1, <1>2, <1>8, <3>1
    <3> QED
      BY <1>7, <3>1, <3>2
  <2> QED
    BY <1>1, <1>9, <2>1, <2>2
<1>11. Removed(s, k) = r
  BY DEF Removed, before, after, l, p
<1>12. l \in 0..p
  BY <1>1, <1>2, <1>4
<1> QED
  BY <1>2, <1>5, <1>9, <1>10, <1>11, <1>12 DEF l, p

\* How many connections with a key there are.
Num(s, k) == Cardinality({i \in 1..Len(s) : s[i].slot = k})

\* Numbers that are moved up keep their number.
LEMMA Moved ==
  ASSUME NEW n \in Nat, NEW A \in SUBSET (1..n), NEW B, NEW f \in [A -> B],
         \A i, j \in A : f[i] = f[j] => i = j,
         \A j \in B : \E i \in A : f[i] = j
  PROVE  IsFiniteSet(A) /\ IsFiniteSet(B) /\ Cardinality(B) = Cardinality(A)
<1>1. IsFiniteSet(A)
  <2>1. 1 \in Int /\ n \in Int
    OBVIOUS
  <2>2. IsFiniteSet(1..n)
    BY <2>1, FS_Interval
  <2> QED
    BY <2>2, FS_Subset
<1>2. f \in Bijection(A, B)
  BY DEF Bijection, Injection, Surjection, IsInjective
<1> QED
  BY <1>1, <1>2, FS_Bijection DEF ExistsBijection
LEMMA NumOK ==
  ASSUME NEW s \in Seq(Connection), NEW k
  PROVE  /\ Num(s, k) \in Nat /\ IsFiniteSet({i \in 1..Len(s) : s[i].slot = k})
         /\ Num(s, k) = 0 <=> \A i \in 1..Len(s) : s[i].slot # k
<1> DEFINE A == {i \in 1..Len(s) : s[i].slot = k}
<1>1. A \in SUBSET (1..Len(s)) /\ 1 \in Int /\ Len(s) \in Int
  OBVIOUS
<1>2. IsFiniteSet(A)
  BY <1>1, FS_Interval, FS_Subset
<1>3. A = {} <=> \A i \in 1..Len(s) : s[i].slot # k
  OBVIOUS
<1> QED
  BY <1>2, <1>3, FS_CardinalityType, FS_EmptySet DEF Num

\* connect adds one connection with its key and none with another.
LEMMA NumInserted ==
  ASSUME NEW s \in Seq(Connection), InOrder(s), NEW k \in Slots, NEW o \in Objects, NEW j
  PROVE  Num(Inserted(s, k, o), j) = IF j = k THEN Num(s, j) + 1 ELSE Num(s, j)
<1> DEFINE p == UpperBound(s, k)
           r == Inserted(s, k, o)
           A == {i \in 1..Len(s) : s[i].slot = j}
           B == {i \in 1..Len(r) : r[i].slot = j}
           M == B \ {p + 1}
           f == [i \in A |-> IF i <= p THEN i ELSE i + 1]
<1>0. Len(s) \in Nat
  OBVIOUS
<1>1. /\ p \in 0..Len(s) /\ Len(r) = Len(s) + 1
      /\ \A i \in 1..(Len(s) + 1) :
           r[i] = IF i <= p THEN s[i] ELSE IF i = p + 1 THEN [slot |-> k, obs |-> o] ELSE s[i - 1]
  BY InsertedAt
<1> HIDE DEF p, r
<1>2. r[p + 1].slot = k /\ p + 1 \in 1..Len(r)
  <2>1. p + 1 \in 1..(Len(s) + 1) /\ ~(p + 1 <= p)
    BY <1>0, <1>1
  <2>2. r[p + 1] = [slot |-> k, obs |-> o]
    BY <1>1, <2>1
  <2> QED
    BY <1>1, <2>1, <2>2
<1>3. \A i \in A : f[i] \in M
  <2> SUFFICES ASSUME NEW i \in A PROVE f[i] \in M
    OBVIOUS
  <2>1. CASE i <= p
    <3>1. i \in 1..(Len(s) + 1) /\ r[i] = s[i] /\ i # p + 1
      BY <1>0, <1>1, <2>1
    <3> QED
      BY <1>1, <2>1, <3>1
  <2>2. CASE ~(i <= p)
    <3>1. i + 1 \in 1..(Len(s) + 1) /\ ~(i + 1 <= p) /\ i + 1 # p + 1 /\ i + 1 - 1 = i
      BY <1>0, <1>1, <2>2
    <3>2. r[i + 1] = s[i]
      BY <1>1, <3>1
    <3> QED
      BY <1>1, <2>2, <3>1, <3>2
  <2> QED
    BY <2>1, <2>2
<1>4. f \in [A -> M] /\ \A i, m \in A : f[i] = f[m] => i = m
  <2>1. f \in [A -> M]
    BY <1>3
  <2>2. \A i, m \in A : f[i] = f[m] => i = m
    BY <1>0, <1>1
  <2> QED
    BY <2>1, <2>2
<1>5. ASSUME NEW m \in M PROVE \E i \in A : f[i] = m
  <2>0. m \in 1..(Len(s) + 1) /\ r[m].slot = j /\ m # p + 1
    BY <1>1
  <2>1. CASE m <= p
    <3>1. m \in 1..Len(s) /\ r[m] = s[m]
      BY <1>0, <1>1, <2>0, <2>1
    <3>2. m \in A
      BY <2>0, <3>1
    <3> QED
      BY <2>1, <3>2
  <2>2. CASE ~(m <= p)
    <3>1. m - 1 \in 1..Len(s) /\ r[m] = s[m - 1] /\ ~(m - 1 <= p) /\ m - 1 + 1 = m
      BY <1>0, <1>1, <2>0, <2>2
    <3>2. m - 1 \in A
      BY <2>0, <3>1
    <3>3. f[m - 1] = m
      BY <3>1, <3>2
    <3> QED
      BY <3>2, <3>3
  <2> QED
    BY <2>1, <2>2
<1> HIDE DEF f
<1>6. IsFiniteSet(A) /\ IsFiniteSet(M) /\ Cardinality(M) = Cardinality(A)
  <2>1. A \in SUBSET (1..Len(s))
    OBVIOUS
  <2> HIDE DEF A, M
  <2> QED
    BY <1>0, <1>4, <1>5, <2>1, Moved
<1>7. CASE j = k
  <2>1. B = M \cup {p + 1}
    BY <1>2, <1>7
  <2>2. Cardinality(M \cup {p + 1}) = Cardinality(M) + 1
    BY <1>6, FS_AddElement
  <2> HIDE DEF M
  <2>3. Cardinality(B) = Cardinality(A) + 1
    BY <1>6, <2>1, <2>2
  <2> QED
    BY <1>7, <2>3 DEF Num, r
<1>8. CASE j # k
  <2>1. B = M
    BY <1>2, <1>8
  <2>2. Cardinality(B) = Cardinality(A)
    BY <1>6, <2>1
  <2> QED
    BY <1>8, <2>2 DEF Num, r
<1> QED
  BY <1>7, <1>8

\* disconnect leaves no connection with its key and all with other keys.
LEMMA NumRemoved ==
  ASSUME NEW s \in Seq(Connection), InOrder(s), NEW k \in Slots, NEW j
  PROVE  Num(Removed(s, k), j) = IF j = k THEN 0 ELSE Num(s, j)
<1> DEFINE l == LowerBound(s, k)
           p == UpperBound(s, k)
           r == Removed(s, k)
           A == {i \in 1..Len(s) : s[i].slot = j}
           B == {i \in 1..Len(r) : r[i].slot = j}
           f == [i \in A |-> IF i <= l THEN i ELSE i - (p - l)]
<1>0. Len(s) \in Nat /\ r \in Seq(Connection)
  BY RemovedInOrder
<1>1. /\ l \in 0..p /\ p \in 0..Len(s) /\ Len(r) = Len(s) - (p - l)
      /\ \A i \in 1..Len(r) : r[i] = IF i <= l THEN s[i] ELSE s[i + (p - l)]
      /\ \A i \in 1..Len(s) : s[i].slot = k <=> l < i /\ i <= p
  BY RemovedAt
<1> HIDE DEF l, p, r
<1>2. CASE j = k
  <2>1. ASSUME NEW i \in 1..Len(r) PROVE r[i].slot # k
    <3>1. CASE i <= l
      <4>1. i \in 1..Len(s) /\ r[i] = s[i]
        BY <1>0, <1>1, <3>1
      <4> QED
        BY <1>1, <3>1, <4>1
    <3>2. CASE ~(i <= l)
      <4>1. i + (p - l) \in 1..Len(s) /\ r[i] = s[i + (p - l)] /\ ~(i + (p - l) <= p)
        BY <1>0, <1>1, <3>2
      <4> QED
        BY <1>1, <4>1
    <3> QED
      BY <3>1, <3>2
  <2> QED
    BY <1>0, <1>2, <2>1, NumOK DEF r
<1>3. CASE j # k
  <2>0. \A i \in A : i \in 1..Len(s) /\ s[i].slot = j /\ (i <= l \/ i > p)
    BY <1>0, <1>1, <1>3
  <2>1. \A i \in A : f[i] \in B
    <3> SUFFICES ASSUME NEW i \in A PROVE f[i] \in B
      OBVIOUS
    <3>1. CASE i <= l
      <4>1. i \in 1..Len(r) /\ r[i] = s[i]
        BY <1>0, <1>1, <2>0, <3>1
      <4> QED
        BY <2>0, <3>1, <4>1
    <3>2. CASE ~(i <= l)
      <4>1. i - (p - l) \in 1..Len(r) /\ ~(i - (p - l) <= l) /\ i - (p - l) + (p - l) = i
        BY <1>0, <1>1, <2>0, <3>2
      <4>2. r[i - (p - l)] = s[i]
        BY <1>1, <4>1
      <4> QED
        BY <2>0, <3>2, <4>1, <4>2
    <3> QED
      BY <3>1, <3>2
  <2>2. f \in [A -> B]
    BY <2>1
  <2>3. \A i, m \in A : f[i] = f[m] => i = m
    BY <1>0, <1>1, <2>0
  <2>4. ASSUME NEW m \in B PROVE \E i \in A : f[i] = m
    <3>1. CASE m <= l
      <4>1. m \in 1..Len(s) /\ r[m] = s[m]
        BY <1>0, <1>1, <3>1
      <4>2. m \in A
        BY <4>1
      <4> QED
        BY <3>1, <4>2
    <3>2. CASE ~(m <= l)
      <4>1. /\ m + (p - l) \in 1..Len(s) /\ r[m] = s[m + (p - l)]
            /\ ~(m + (p - l) <= l) /\ m + (p - l) - (p - l) = m
        BY <1>0, <1>1, <3>2
      <4>2. m + (p - l) \in A
        BY <4>1
      <4>3. f[m + (p - l)] = m
        BY <1>0, <1>1, <4>1, <4>2
      <4> QED
        BY <4>2, <4>3
    <3> QED
      BY <3>1, <3>2
  <2> HIDE DEF f
  <2>5. A \in SUBSET (1..Len(s))
    OBVIOUS
  <2>6. Cardinality(B) = Cardinality(A)
    <3> HIDE DEF A, B
    <3> QED
      BY <1>0, <2>2, <2>3, <2>4, <2>5, Moved
  <2> QED
    BY <1>3, <2>6 DEF Num, r
<1> QED
  BY <1>2, <1>3
-------------------------------------------------------------------------------
(* The frames after a step *)

LEMMA PushFrames ==
  ASSUME Stacks, NEW t \in Threads, NEW f \in Frame, Push(t, f)
  PROVE  \A u \in Threads :
           /\ Len(stack'[u]) = IF u = t THEN Len(stack[t]) + 1 ELSE Len(stack[u])
           /\ \A i \in 1..Len(stack'[u]) :
                IF u = t /\ i = Len(stack[t]) + 1 THEN stack'[u][i] = f
                ELSE i \in 1..Len(stack[u]) /\ stack'[u][i] = stack[u][i]
           /\ \A i \in 1..Len(stack[u]) : i \in 1..Len(stack'[u]) /\ stack'[u][i] = stack[u][i]
<1>1. /\ Len(stack[t]) \in Nat /\ Len(stack'[t]) = Len(stack[t]) + 1
      /\ \A i \in 1..Len(stack[t]) : stack'[t][i] = stack[t][i]
      /\ stack'[t][Len(stack[t]) + 1] = f
      /\ \A u \in Threads \ {t} : stack'[u] = stack[u]
  BY PushStack
<1>2. \A i \in 1..(Len(stack[t]) + 1) : i = Len(stack[t]) + 1 \/ i \in 1..Len(stack[t])
  BY <1>1
<1>3. \A i \in 1..Len(stack[t]) : i \in 1..(Len(stack[t]) + 1) /\ i # Len(stack[t]) + 1
  BY <1>1
<1> QED
  BY <1>1, <1>2, <1>3

LEMMA ContinueFrames ==
  ASSUME Stacks, NEW t \in Threads, stack[t] # <<>>, NEW f \in Frame, Continue(t, f)
  PROVE  \A u \in Threads :
           /\ Len(stack'[u]) = Len(stack[u])
           /\ \A i \in 1..Len(stack[u]) :
                stack'[u][i] = IF u = t /\ i = Len(stack[t]) THEN f ELSE stack[u][i]
<1>1. /\ Len(stack[t]) \in Nat \ {0} /\ Len(stack'[t]) = Len(stack[t])
      /\ \A i \in 1..(Len(stack[t]) - 1) : stack'[t][i] = stack[t][i]
      /\ stack'[t][Len(stack[t])] = f
      /\ \A u \in Threads \ {t} : stack'[u] = stack[u]
  BY ContinueStack
<1>2. \A i \in 1..Len(stack[t]) : i = Len(stack[t]) \/ i \in 1..(Len(stack[t]) - 1)
  BY <1>1
<1> QED
  BY <1>1, <1>2

LEMMA PopFrames ==
  ASSUME Stacks, NEW t \in Threads, stack[t] # <<>>, Pop(t)
  PROVE  \A u \in Threads :
           /\ Len(stack'[u]) = IF u = t THEN Len(stack[t]) - 1 ELSE Len(stack[u])
           /\ \A i \in 1..Len(stack'[u]) :
                /\ i \in 1..Len(stack[u]) /\ stack'[u][i] = stack[u][i]
                /\ u = t => i # Len(stack[t])
           /\ \A i \in 1..Len(stack[u]) :
                (u = t /\ i = Len(stack[t])) \/ (i \in 1..Len(stack'[u]) /\ stack'[u][i] = stack[u][i])
<1>1. /\ Len(stack[t]) \in Nat \ {0} /\ Len(stack'[t]) = Len(stack[t]) - 1
      /\ \A i \in 1..(Len(stack[t]) - 1) : stack'[t][i] = stack[t][i]
      /\ \A u \in Threads \ {t} : stack'[u] = stack[u]
  BY PopStack
<1>2. \A i \in 1..Len(stack[t]) : i = Len(stack[t]) \/ i \in 1..(Len(stack[t]) - 1)
  BY <1>1
<1>3. \A i \in 1..(Len(stack[t]) - 1) : i \in 1..Len(stack[t]) /\ i # Len(stack[t])
  BY <1>1
<1>4. ASSUME NEW u \in Threads, u # t PROVE stack'[u] = stack[u]
  BY <1>1, <1>4
<1> QED
  BY <1>1, <1>2, <1>3, <1>4

-------------------------------------------------------------------------------
(* What a step of a call in progress does to its frame and to lives *)

\* The program points before a loop.
Waiting == {"lock", "reset", "drain"}

\* The innermost call goes on as f.
Goes(t, f) ==
  LET g == Top(t) IN
  /\ f \in Frame /\ Continue(t, f)
  /\ f.op = g.op /\ f.obj = g.obj /\ f.slot = g.slot
  /\ f.op = "fire" => /\ f.pc \in {"loop", "slot"}
                      /\ f.list = g.list \/ f.list = connections[f.obj]
  /\ f.op \in Sweep /\ f.pc = "peer" => Current(f).obs # f.obj
  /\ f.pc \in Waiting => g.pc \in Waiting /\ f.idx = g.idx
  /\ \A o \in Objects : life'[o] = life[o] \/ (g.op = "destroy" /\ g.obj = o)

\* The innermost call returns.
Returns(t) ==
  LET g == Top(t) IN
  /\ Pop(t)
  /\ \A o \in Objects : IF g.op = "destroy" /\ g.obj = o THEN life'[o] = "dead" ELSE life'[o] = life[o]

LEMMA GotoGoes ==
  ASSUME Typed, NEW t \in Threads, stack[t] # <<>>, NEW pc \in PCs, Goto(t, pc),
         \A o \in Objects : life'[o] = life[o] \/ (Top(t).op = "destroy" /\ Top(t).obj = o),
         Top(t).op = "fire" => pc = "slot", pc \in Waiting => Top(t).pc \in Waiting,
         Top(t).op \in Sweep /\ pc = "peer" => Current(Top(t)).obs # Top(t).obj
  PROVE  \E f : Goes(t, f)
<1> DEFINE f == [Top(t) EXCEPT !.pc = pc]
<1>1. Top(t) \in Frame
  BY TopOK
<1>2. /\ f \in Frame /\ f.pc = pc /\ f.op = Top(t).op /\ f.obj = Top(t).obj /\ f.slot = Top(t).slot
      /\ f.list = Top(t).list /\ f.idx = Top(t).idx
  BY <1>1, GotoFrame
<1>3. Continue(t, f)
  BY DEF Goto
<1> HIDE DEF f
<1>4. Current(f) = Current(Top(t))
  BY <1>2 DEF Current
<1> QED
  BY <1>2, <1>3, <1>4 DEF Goes

LEMMA NextGoes ==
  ASSUME Typed, NEW t \in Threads, stack[t] # <<>>, NextConnection(t), life' = life
  PROVE  \E f : Goes(t, f)
<1> DEFINE f == [Top(t) EXCEPT !.pc = "loop", !.idx = @ + 1]
<1>1. Top(t) \in Frame
  BY TopOK
<1>2. /\ f \in Frame /\ f.pc = "loop" /\ f.op = Top(t).op /\ f.obj = Top(t).obj /\ f.slot = Top(t).slot
      /\ f.list = Top(t).list
  BY <1>1, NextFrame
<1>3. Continue(t, f)
  BY DEF NextConnection
<1> HIDE DEF f
<1> QED
  BY <1>2, <1>3 DEF Goes, Waiting

LEMMA StartGoes ==
  ASSUME Typed, NEW t \in Threads, stack[t] # <<>>, life' = life,
         Continue(t, [Top(t) EXCEPT !.pc = "loop", !.list = connections[Top(t).obj]])
  PROVE  \E f : Goes(t, f)
<1> DEFINE f == [Top(t) EXCEPT !.pc = "loop", !.list = connections[Top(t).obj]]
<1>1. Top(t) \in Frame /\ Top(t).obj \in Objects
  BY TopOK DEF Frame
<1>2. connections[Top(t).obj] \in Seq(Connection)
  BY <1>1, TypedParts, VectorsInOrder
<1>3. /\ f \in Frame /\ f.pc = "loop" /\ f.op = Top(t).op /\ f.obj = Top(t).obj /\ f.slot = Top(t).slot
      /\ f.list = connections[Top(t).obj]
  BY <1>1, <1>2, StartFrame
<1> HIDE DEF f
<1> QED
  BY <1>3 DEF Goes, Waiting, f

LEMMA StepGoes ==
  ASSUME Typed, NEW t \in Threads, Step(t)
  PROVE  /\ stack[t] # <<>>
         /\ Returns(t) \/ \E f : Goes(t, f)
         /\ budget' = budget
<1> DEFINE g == Top(t)
<1>0. {"peer", "slot", "drain", "lock"} \subseteq PCs
  BY DEF PCs
<1>1. CASE InsertHalf(t) \/ RemoveHalf(t)
  <2>1. /\ stack[t] # <<>> /\ g.op \in {"connect", "disconnect"} /\ HalfDone(t)
        /\ life' = life /\ budget' = budget
    BY <1>1, AtTop DEF InsertHalf, RemoveHalf
  <2>2. g.op # "destroy" /\ g.op # "fire" /\ g.op \notin Sweep
    BY <2>1 DEF Sweep
  <2>3. CASE Pop(t)
    BY <2>1, <2>2, <2>3 DEF Returns
  <2>4. CASE Goto(t, "peer")
    BY <1>0, <2>1, <2>2, <2>4, GotoGoes DEF Waiting
  <2> QED
    BY <2>1, <2>3, <2>4 DEF HalfDone
<1>2. CASE StartEmission(t) \/ StartSweep(t)
  BY <1>2, AtTop, StartGoes DEF StartEmission, StartSweep
<1>3. CASE SkipSlot(t) \/ SlotReturns(t) \/ SkipPeer(t) \/ RemovePeer(t)
  BY <1>3, AtTop, NextGoes DEF SkipSlot, SlotReturns, SkipPeer, RemovePeer
<1>4. CASE CallSlot(t)
  <2>1. stack[t] # <<>> /\ g.op = "fire" /\ Goto(t, "slot") /\ life' = life /\ budget' = budget
    BY <1>4, AtTop DEF CallSlot
  <2>2. g.op \notin Sweep
    BY <2>1 DEF Sweep
  <2> QED
    BY <1>0, <2>1, <2>2, GotoGoes DEF Waiting
<1>5. CASE VisitPeer(t)
  <2>1. stack[t] # <<>> /\ g.op \in Sweep /\ Goto(t, "peer") /\ life' = life /\ budget' = budget
    BY <1>5, AtTop DEF VisitPeer
  <2>2. g.op # "fire" /\ Current(g).obs # g.obj
    BY <1>5, <2>1 DEF VisitPeer, Visiting, Sweep
  <2> QED
    BY <1>0, <2>1, <2>2, GotoGoes DEF Waiting
<1>6. CASE ResetTracker(t) \/ Drained(t)
  <2>1. /\ stack[t] # <<>> /\ g.op = "destroy" /\ g.obj \in Objects /\ budget' = budget
        /\ g.pc \in Waiting
    BY <1>6, AtTop DEF ResetTracker, Drained, Waiting
  <2>2. \A o \in Objects : life'[o] = life[o] \/ g.obj = o
    BY <1>6, TypedParts DEF ResetTracker, Drained, Others
  <2>3. CASE Goto(t, "drain")
    BY <1>0, <2>1, <2>2, <2>3, GotoGoes
  <2>4. CASE Goto(t, "lock")
    BY <1>0, <2>1, <2>2, <2>4, GotoGoes
  <2> QED
    BY <1>6, <2>1, <2>3, <2>4 DEF ResetTracker, Drained
<1>7. CASE EndEmission(t)
  <2>1. stack[t] # <<>> /\ g.op = "fire" /\ Pop(t) /\ life' = life /\ budget' = budget
    BY <1>7, AtTop DEF EndEmission, EmissionOver
  <2> QED
    BY <2>1 DEF Returns
<1>8. CASE EndSweep(t)
  <2>1. stack[t] # <<>> /\ g.obj \in Objects /\ Pop(t) /\ budget' = budget
    BY <1>8, AtTop DEF EndSweep
  <2>2. life' = IF g.op = "destroy" THEN [life EXCEPT ![g.obj] = "dead"] ELSE life
    BY <1>8 DEF EndSweep
  <2>3. \A o \in Objects : IF g.op = "destroy" /\ g.obj = o THEN life'[o] = "dead" ELSE life'[o] = life[o]
    BY <2>1, <2>2, TypedParts DEF Others
  <2> QED
    BY <2>1, <2>3 DEF Returns
<1> QED
  BY <1>1, <1>2, <1>3, <1>4, <1>5, <1>6, <1>7, <1>8 DEF Step

-------------------------------------------------------------------------------
(* The calls in progress *)

\* Only the innermost call of a thread is not an emission inside a slot.
Below ==
  \A t \in Threads : \A i \in 1..Len(stack[t]) :
    i # Len(stack[t]) => stack[t][i].op = "fire" /\ stack[t][i].pc = "slot"

CallOf(f) == [op |-> f.op, obj |-> f.obj, slot |-> f.slot]

SomeSlotCalls == UNION {SlotCalls[k] : k \in Slots}

\* Every call in progress is one that the clients make, where they make it.
Called ==
  \A t \in Threads : \A i \in 1..Len(stack[t]) :
    CallOf(stack[t][i]) \in IF i = 1 THEN TopCalls[t] ELSE SomeSlotCalls

\* Where a call needs the objects it names.
Naming(f) ==
  f.op \in {"connect", "disconnect", "disconnect_all"} \/ (f.op = "fire" /\ f.pc = "lock")

NamedAlive ==
  \A t \in Threads : \A i \in 1..Len(stack[t]) :
    Naming(stack[t][i]) => \A o \in Named(stack[t][i]) \cap Objects : life[o] = "alive"

\* An object between life and death is in a destructor.
UnderDestruction ==
  \A o \in Objects : life[o] \notin {"alive", "dead"} =>
    \E t \in Threads : \E i \in 1..Len(stack[t]) : stack[t][i].op = "destroy" /\ stack[t][i].obj = o

\* A sweep visits others.
PeersOther ==
  \A t \in Threads : \A i \in 1..Len(stack[t]) :
    stack[t][i].op \in Sweep /\ stack[t][i].pc = "peer" => Current(stack[t][i]).obs # stack[t][i].obj

\* Loops begin at the first connection.
FromTheFirst ==
  \A t \in Threads : \A i \in 1..Len(stack[t]) : stack[t][i].pc \in Waiting => stack[t][i].idx = 1

Frames == Below /\ Called /\ NamedAlive /\ UnderDestruction /\ PeersOther /\ FromTheFirst

\* A client calls, from a thread or from a slot.
Calls(t, c) ==
  /\ c \in Call /\ CallOK(c) /\ Begin(t, c)
  /\ IF stack[t] = <<>> THEN c \in TopCalls[t]
     ELSE Top(t).op = "fire" /\ Top(t).pc = "slot" /\ c \in SomeSlotCalls

LEMMA ClientsCall ==
  ASSUME Typed, NEW t \in Threads, CallFromThread(t) \/ CallFromSlot(t)
  PROVE  \E c : Calls(t, c)
<1>1. CASE CallFromThread(t)
  <2>1. PICK c \in TopCalls[t] : Begin(t, c)
    BY <1>1 DEF CallFromThread
  <2>2. CallOK(c) /\ c \in Call
    BY <2>1, CallsOK DEF CallOK
  <2> QED
    BY <1>1, <2>1, <2>2 DEF Calls, CallFromThread
<1>2. CASE CallFromSlot(t)
  <2> DEFINE f == Top(t)
  <2>1. stack[t] # <<>> /\ f.op = "fire" /\ f.pc = "slot" /\ f \in Frame /\ FrameOK(f)
    BY <1>2, AtTop DEF CallFromSlot
  <2>2. f.idx \in 1..Len(f.list)
    BY <2>1 DEF FrameOK
  <2>3. Current(f).slot \in Slots
    BY <2>1, <2>2, CurrentOK
  <2>4. PICK c \in SlotCalls[Current(f).slot] : Begin(t, c)
    BY <1>2 DEF CallFromSlot
  <2>5. CallOK(c) /\ c \in Call /\ c \in SomeSlotCalls
    BY <2>3, <2>4, CallsOK DEF CallOK, SomeSlotCalls
  <2> QED
    BY <2>1, <2>4, <2>5 DEF Calls
<1> QED
  BY <1>1, <1>2

\* The frame that a call begins with.
FirstFrame(c) ==
  [op |-> c.op, obj |-> c.obj, slot |-> c.slot, pc |-> FirstPC(c.op), list |-> <<>>, idx |-> 1]

LEMMA FirstFrameOK ==
  ASSUME NEW t, NEW c, Calls(t, c)
  PROVE  LET f == FirstFrame(c) IN
         /\ f \in Frame /\ Push(t, f) /\ CallOf(f) = c /\ Named(f) = Named(c)
         /\ f.op = c.op /\ f.obj = c.obj /\ f.slot = c.slot /\ f.pc = FirstPC(c.op)
         /\ f.list = <<>> /\ f.idx = 1 /\ f.pc \in {"self", "lock", "reset"}
<1> DEFINE f == FirstFrame(c)
<1>1. c \in Call /\ c = [op |-> c.op, obj |-> c.obj, slot |-> c.slot]
  BY DEF Calls, Call
<1>2. FirstPC(c.op) \in {"self", "lock", "reset"}
  BY DEF FirstPC
<1>3. /\ f.op = c.op /\ f.obj = c.obj /\ f.slot = c.slot /\ f.pc = FirstPC(c.op)
      /\ f.list = <<>> /\ f.idx = 1
  BY DEF FirstFrame
<1>4. f \in Frame
  BY <1>1, <1>2 DEF Frame, FirstFrame, Call
<1>5. Push(t, f)
  BY DEF Calls, Begin, FirstFrame
<1>6. CallOf(f) = c /\ Named(f) = Named(c)
  BY <1>1, <1>3 DEF CallOf, Named
<1> QED
  BY <1>2, <1>3, <1>4, <1>5, <1>6

LEMMA BeginFrames ==
  ASSUME LInv, Frames, NEW t \in Threads, NEW c, Calls(t, c)
  PROVE  Frames'
<1> DEFINE f == FirstFrame(c)
           n == Len(stack[t])
<1>1. /\ f \in Frame /\ Push(t, f) /\ CallOf(f) = c /\ Named(f) = Named(c)
      /\ f.op = c.op /\ f.obj = c.obj /\ f.pc \in {"self", "lock", "reset"} /\ f.idx = 1
  BY FirstFrameOK
<1> HIDE DEF f
<1>2. Stacks /\ stack[t] \in Seq(Frame) /\ n \in Nat
  BY TypedParts DEF LInv, Stacks
<1>3. \A u \in Threads :
        /\ Len(stack'[u]) = IF u = t THEN n + 1 ELSE Len(stack[u])
        /\ \A i \in 1..Len(stack'[u]) :
             IF u = t /\ i = n + 1 THEN stack'[u][i] = f
             ELSE i \in 1..Len(stack[u]) /\ stack'[u][i] = stack[u][i]
        /\ \A i \in 1..Len(stack[u]) : i \in 1..Len(stack'[u]) /\ stack'[u][i] = stack[u][i]
  BY <1>1, <1>2, PushFrames
<1>4. \A i \in 1..n : stack[t][i].op = "fire" /\ stack[t][i].pc = "slot"
  <2> SUFFICES ASSUME NEW i \in 1..n PROVE stack[t][i].op = "fire" /\ stack[t][i].pc = "slot"
    OBVIOUS
  <2>1. stack[t] # <<>> /\ Top(t) = stack[t][n]
    BY <1>2 DEF Top, Last
  <2> QED
    BY <2>1 DEF Calls, Frames, Below
<1>5. c.obj \in Objects /\ Permitted(t, c)
      /\ life' = IF c.op = "destroy" THEN [life EXCEPT ![c.obj] = "dying"] ELSE life
  BY DEF Calls, Begin, Call
<1>6. \A o \in Objects : life'[o] = IF c.op = "destroy" /\ o = c.obj THEN "dying" ELSE life[o]
  BY <1>5, TypedParts DEF LInv, Others
<1>7. Below'
  <2> SUFFICES ASSUME NEW u \in Threads, NEW i \in 1..Len(stack'[u]), i # Len(stack'[u])
               PROVE  stack'[u][i].op = "fire" /\ stack'[u][i].pc = "slot"
    BY DEF Below
  <2> QED
    BY <1>3, <1>4 DEF Frames, Below
<1>8. Called'
  <2> SUFFICES ASSUME NEW u \in Threads, NEW i \in 1..Len(stack'[u])
               PROVE  CallOf(stack'[u][i]) \in IF i = 1 THEN TopCalls[u] ELSE SomeSlotCalls
    BY DEF Called, CallOf
  <2>1. CASE u = t /\ i = n + 1
    <3>1. n + 1 = 1 <=> stack[t] = <<>>
      BY <1>2, EmptySeq
    <3> QED
      BY <1>1, <1>3, <2>1, <3>1 DEF Calls
  <2>2. CASE ~(u = t /\ i = n + 1)
    BY <1>3, <2>2 DEF Frames, Called
  <2> QED
    BY <2>1, <2>2
<1>9. NamedAlive'
  <2> SUFFICES ASSUME NEW u \in Threads, NEW i \in 1..Len(stack'[u]), Naming(stack'[u][i]),
                      NEW o \in Named(stack'[u][i]) \cap Objects
               PROVE  life'[o] = "alive"
    BY DEF NamedAlive, Naming, Named
  <2>1. CASE u = t /\ i = n + 1
    <3>1. stack'[u][i] = f /\ c.op # "destroy"
      BY <1>1, <1>3, <2>1 DEF Naming
    <3>2. life[o] = "alive"
      BY <1>1, <1>5, <3>1 DEF Permitted
    <3> QED
      BY <1>6, <3>1, <3>2
  <2>2. CASE ~(u = t /\ i = n + 1)
    <3>1. i \in 1..Len(stack[u]) /\ stack'[u][i] = stack[u][i]
      BY <1>3, <2>2
    <3>2. life[o] = "alive"
      BY <3>1 DEF Frames, NamedAlive
    <3>3. u # t
      BY <1>4, <3>1 DEF Naming
    <3>4. DOMAIN stack[u] = 1..Len(stack[u])
      BY <1>2 DEF Stacks
    <3>5. c.op = "destroy" => o # c.obj
      BY <1>5, <3>1, <3>3, <3>4 DEF Permitted
    <3> QED
      BY <1>6, <3>2, <3>5
  <2> QED
    BY <2>1, <2>2
<1>10. UnderDestruction'
  <2> SUFFICES ASSUME NEW o \in Objects, life'[o] \notin {"alive", "dead"}
               PROVE  \E u \in Threads : \E i \in 1..Len(stack'[u]) :
                        stack'[u][i].op = "destroy" /\ stack'[u][i].obj = o
    BY DEF UnderDestruction
  <2>1. CASE c.op = "destroy" /\ o = c.obj
    <3>1. n + 1 \in 1..Len(stack'[t])
      BY <1>2, <1>3
    <3> QED
      BY <1>1, <1>3, <2>1, <3>1
  <2>2. CASE ~(c.op = "destroy" /\ o = c.obj)
    <3>1. PICK u \in Threads : \E i \in 1..Len(stack[u]) :
            stack[u][i].op = "destroy" /\ stack[u][i].obj = o
      BY <1>6, <2>2 DEF Frames, UnderDestruction
    <3> QED
      BY <1>3, <3>1
  <2> QED
    BY <2>1, <2>2
<1>11. PeersOther'
  <2> SUFFICES ASSUME NEW u \in Threads, NEW i \in 1..Len(stack'[u]),
                      stack'[u][i].op \in Sweep, stack'[u][i].pc = "peer"
               PROVE  Current(stack'[u][i]).obs # stack'[u][i].obj
    BY DEF PeersOther, Current
  <2> QED
    BY <1>1, <1>3 DEF Frames, PeersOther
<1>12. FromTheFirst'
  BY <1>1, <1>3 DEF Frames, FromTheFirst
<1> QED
  BY <1>7, <1>8, <1>9, <1>10, <1>11, <1>12 DEF Frames

LEMMA StepFrames ==
  ASSUME LInv, Frames, NEW t \in Threads, Step(t)
  PROVE  Frames'
<1> DEFINE g == Top(t)
           n == Len(stack[t])
<1>1. stack[t] # <<>> /\ (Returns(t) \/ \E f : Goes(t, f))
  BY StepGoes DEF LInv
<1>2. Stacks /\ n \in Nat \ {0} /\ g = stack[t][n] /\ g.obj \in Objects
  BY <1>1, TopOK DEF LInv, Top, Last, Frame
<1>3. g.op = "destroy" => life[g.obj] # "alive"
  BY <1>2 DEF LInv, StageOK, Stage
\* Nobody needs what the step takes away.
<1>4. \A u \in Threads : \A i \in 1..Len(stack[u]) :
        Naming(stack[u][i]) => \A o \in Named(stack[u][i]) \cap Objects :
          life[o] = "alive" /\ ~(g.op = "destroy" /\ g.obj = o)
  BY <1>3 DEF Frames, NamedAlive
<1>5. ASSUME NEW f, Goes(t, f) PROVE Frames'
  <2>1. \A u \in Threads :
          /\ Len(stack'[u]) = Len(stack[u])
          /\ \A i \in 1..Len(stack[u]) :
               stack'[u][i] = IF u = t /\ i = n THEN f ELSE stack[u][i]
    BY <1>1, <1>2, <1>5, ContinueFrames DEF Goes
  <2>2. /\ CallOf(f) = CallOf(g) /\ Named(f) = Named(g) /\ f.op = g.op /\ f.obj = g.obj
        /\ Naming(f) => Naming(g)
        /\ f.op \in Sweep /\ f.pc = "peer" => Current(f).obs # f.obj
        /\ f.pc \in Waiting => g.pc \in Waiting /\ f.idx = g.idx
        /\ \A o \in Objects : life'[o] = life[o] \/ (g.op = "destroy" /\ g.obj = o)
    BY <1>5 DEF Goes, CallOf, Named, Naming
  <2>3. Below'
    BY <2>1 DEF Frames, Below
  <2>4. Called'
    <3> SUFFICES ASSUME NEW u \in Threads, NEW i \in 1..Len(stack'[u])
                 PROVE  CallOf(stack'[u][i]) \in IF i = 1 THEN TopCalls[u] ELSE SomeSlotCalls
      BY DEF Called, CallOf
    <3>1. i \in 1..Len(stack[u]) /\ CallOf(stack'[u][i]) = CallOf(stack[u][i])
      BY <1>2, <2>1, <2>2
    <3> QED
      BY <3>1 DEF Frames, Called
  <2>5. NamedAlive'
    <3> SUFFICES ASSUME NEW u \in Threads, NEW i \in 1..Len(stack'[u]), Naming(stack'[u][i]),
                        NEW o \in Named(stack'[u][i]) \cap Objects
                 PROVE  life'[o] = "alive"
      BY DEF NamedAlive, Naming, Named
    <3>1. /\ i \in 1..Len(stack[u]) /\ Naming(stack[u][i])
          /\ Named(stack'[u][i]) = Named(stack[u][i])
      BY <1>2, <2>1, <2>2
    <3> QED
      BY <1>4, <2>2, <3>1
  <2>6. UnderDestruction'
    <3> SUFFICES ASSUME NEW o \in Objects, life'[o] \notin {"alive", "dead"}
                 PROVE  \E u \in Threads : \E i \in 1..Len(stack'[u]) :
                          stack'[u][i].op = "destroy" /\ stack'[u][i].obj = o
      BY DEF UnderDestruction
    <3>1. PICK u \in Threads : \E i \in 1..Len(stack[u]) :
            stack[u][i].op = "destroy" /\ stack[u][i].obj = o
      <4>1. CASE life'[o] = life[o]
        BY <4>1 DEF Frames, UnderDestruction
      <4>2. CASE g.op = "destroy" /\ g.obj = o
        BY <1>2, <4>2
      <4> QED
        BY <2>2, <4>1, <4>2
    <3>2. PICK i \in 1..Len(stack[u]) : stack[u][i].op = "destroy" /\ stack[u][i].obj = o
      BY <3>1
    <3> QED
      BY <1>2, <2>1, <2>2, <3>2
  <2>7. PeersOther'
    <3> SUFFICES ASSUME NEW u \in Threads, NEW i \in 1..Len(stack'[u]),
                        stack'[u][i].op \in Sweep, stack'[u][i].pc = "peer"
                 PROVE  Current(stack'[u][i]).obs # stack'[u][i].obj
      BY DEF PeersOther, Current
    <3> QED
      BY <2>1, <2>2 DEF Frames, PeersOther
  <2>8. FromTheFirst'
    BY <1>2, <2>1, <2>2 DEF Frames, FromTheFirst
  <2> QED
    BY <2>3, <2>4, <2>5, <2>6, <2>7, <2>8 DEF Frames
<1>6. CASE Returns(t)
  <2>1. \A u \in Threads :
          /\ Len(stack'[u]) = IF u = t THEN n - 1 ELSE Len(stack[u])
          /\ \A i \in 1..Len(stack'[u]) :
               /\ i \in 1..Len(stack[u]) /\ stack'[u][i] = stack[u][i]
               /\ u = t => i # n
          /\ \A i \in 1..Len(stack[u]) :
               (u = t /\ i = n) \/ (i \in 1..Len(stack'[u]) /\ stack'[u][i] = stack[u][i])
    BY <1>1, <1>2, <1>6, PopFrames DEF Returns
  <2>2. \A o \in Objects :
          IF g.op = "destroy" /\ g.obj = o THEN life'[o] = "dead" ELSE life'[o] = life[o]
    BY <1>6 DEF Returns
  <2>3. Below'
    <3> SUFFICES ASSUME NEW u \in Threads, NEW i \in 1..Len(stack'[u]), i # Len(stack'[u])
                 PROVE  stack'[u][i].op = "fire" /\ stack'[u][i].pc = "slot"
      BY DEF Below
    <3>1. i \in 1..Len(stack[u]) /\ stack'[u][i] = stack[u][i] /\ i # Len(stack[u])
      BY <2>1
    <3> QED
      BY <3>1 DEF Frames, Below
  <2>4. Called'
    <3> SUFFICES ASSUME NEW u \in Threads, NEW i \in 1..Len(stack'[u])
                 PROVE  CallOf(stack'[u][i]) \in IF i = 1 THEN TopCalls[u] ELSE SomeSlotCalls
      BY DEF Called, CallOf
    <3> QED
      BY <2>1 DEF Frames, Called
  <2>5. NamedAlive'
    <3> SUFFICES ASSUME NEW u \in Threads, NEW i \in 1..Len(stack'[u]), Naming(stack'[u][i]),
                        NEW o \in Named(stack'[u][i]) \cap Objects
                 PROVE  life'[o] = "alive"
      BY DEF NamedAlive, Naming, Named
    <3>1. i \in 1..Len(stack[u]) /\ stack'[u][i] = stack[u][i]
      BY <2>1
    <3> QED
      BY <1>4, <2>2, <3>1
  <2>6. UnderDestruction'
    <3> SUFFICES ASSUME NEW o \in Objects, life'[o] \notin {"alive", "dead"}
                 PROVE  \E u \in Threads : \E i \in 1..Len(stack'[u]) :
                          stack'[u][i].op = "destroy" /\ stack'[u][i].obj = o
      BY DEF UnderDestruction
    <3>1. life'[o] = life[o] /\ ~(g.op = "destroy" /\ g.obj = o)
      BY <2>2
    <3>2. PICK u \in Threads : \E i \in 1..Len(stack[u]) :
            stack[u][i].op = "destroy" /\ stack[u][i].obj = o
      BY <3>1 DEF Frames, UnderDestruction
    <3> QED
      BY <1>2, <2>1, <3>1, <3>2
  <2>7. PeersOther'
    <3> SUFFICES ASSUME NEW u \in Threads, NEW i \in 1..Len(stack'[u]),
                        stack'[u][i].op \in Sweep, stack'[u][i].pc = "peer"
                 PROVE  Current(stack'[u][i]).obs # stack'[u][i].obj
      BY DEF PeersOther, Current
    <3> QED
      BY <2>1 DEF Frames, PeersOther
  <2>8. FromTheFirst'
    BY <2>1 DEF Frames, FromTheFirst
  <2> QED
    BY <2>3, <2>4, <2>5, <2>6, <2>7, <2>8 DEF Frames
<1> QED
  BY <1>1, <1>5, <1>6

-------------------------------------------------------------------------------
(* What a step does to the vectors *)

\* insert, remove and clear, by thread t on object o.
InsertsAt(t, o) ==
  /\ InsertHalf(t) /\ o = Edited(Top(t))
  /\ connections'[o] = Inserted(connections[o], Top(t).slot, Remembered(Top(t)))

RemovesAt(t, o) ==
  \/ /\ RemoveHalf(t) /\ o = Edited(Top(t))
     /\ connections'[o] = Removed(connections[o], Top(t).slot)
  \/ /\ RemovePeer(t) /\ o = Current(Top(t)).obs
     /\ connections'[o] = Removed(connections[o], Current(Top(t)).slot)

ClearsAt(t, o) == EndSweep(t) /\ o = Top(t).obj /\ connections'[o] = <<>>

LEMMA StepEdits ==
  ASSUME Typed, NEW t \in Threads, Step(t), NEW o \in Objects
  PROVE  connections'[o] = connections[o] \/ InsertsAt(t, o) \/ RemovesAt(t, o) \/ ClearsAt(t, o)
<1>0. connections \in [Objects -> Seq(Connection)]
  BY TypedParts DEF Vectors
<1>1. CASE InsertHalf(t)
  <2>1. connections' = [connections EXCEPT ![Edited(Top(t))]
                          = Inserted(connections[Edited(Top(t))], Top(t).slot, Remembered(Top(t)))]
    BY <1>1 DEF InsertHalf
  <2> QED
    BY <1>0, <1>1, <2>1 DEF InsertsAt
<1>2. CASE RemoveHalf(t)
  <2>1. connections' = [connections EXCEPT ![Edited(Top(t))]
                          = Removed(connections[Edited(Top(t))], Top(t).slot)]
    BY <1>2 DEF RemoveHalf
  <2> QED
    BY <1>0, <1>2, <2>1 DEF RemovesAt
<1>3. CASE RemovePeer(t)
  <2>1. connections' = [connections EXCEPT ![Current(Top(t)).obs]
                          = Removed(connections[Current(Top(t)).obs], Current(Top(t)).slot)]
    BY <1>3 DEF RemovePeer
  <2> QED
    BY <1>0, <1>3, <2>1 DEF RemovesAt
<1>4. CASE EndSweep(t)
  <2>1. connections' = [connections EXCEPT ![Top(t).obj] = <<>>]
    BY <1>4 DEF EndSweep
  <2> QED
    BY <1>0, <1>4, <2>1 DEF ClearsAt
<1>5. CASE StartEmission(t) \/ CallSlot(t) \/ SkipSlot(t) \/ SlotReturns(t) \/ EndEmission(t)
  BY <1>5 DEF StartEmission, CallSlot, SkipSlot, SlotReturns, EndEmission
<1>6. CASE ResetTracker(t) \/ Drained(t) \/ StartSweep(t) \/ VisitPeer(t) \/ SkipPeer(t)
  BY <1>6 DEF ResetTracker, Drained, StartSweep, VisitPeer, SkipPeer
<1> QED
  BY <1>1, <1>2, <1>3, <1>4, <1>5, <1>6 DEF Step

\* The innermost call, when it edits.
LEMMA InsertTop ==
  ASSUME Typed, NEW t \in Threads, InsertHalf(t) \/ RemoveHalf(t)
  PROVE  LET f == Top(t) IN
         /\ stack[t] # <<>> /\ f \in Frame /\ FrameOK(f)
         /\ f.op = IF InsertHalf(t) THEN "connect" ELSE "disconnect"
         /\ f.pc \in {"self", "peer"} /\ f.slot \in Slots /\ f.obj \in Signals
         /\ f.pc = "peer" => f.slot \in MemberSlots
         /\ Edited(f) \in Objects /\ Remembered(f) \in Objects
<1> DEFINE f == Top(t)
<1>1. /\ stack[t] # <<>> /\ f \in Frame /\ FrameOK(f)
      /\ f.op = IF InsertHalf(t) THEN "connect" ELSE "disconnect"
  BY AtTop DEF InsertHalf, RemoveHalf
<1>2. f.op \in {"connect", "disconnect"}
  BY <1>1
<1> QED
  BY <1>1, <1>2, EditedOK DEF FrameOK

LEMMA PeerTop ==
  ASSUME Typed, NEW t \in Threads, RemovePeer(t)
  PROVE  LET f == Top(t) IN
         /\ stack[t] # <<>> /\ f \in Frame /\ FrameOK(f) /\ f.op \in Sweep /\ f.pc = "peer"
         /\ f.idx \in 1..Len(f.list) /\ Current(f) \in Connection
         /\ Current(f).slot \in Slots /\ Current(f).obs \in Objects
<1>1. /\ stack[t] # <<>> /\ Top(t) \in Frame /\ FrameOK(Top(t)) /\ Top(t).op \in Sweep
      /\ Top(t).pc = "peer"
  BY AtTop DEF RemovePeer
<1>2. Top(t).idx \in 1..Len(Top(t).list)
  BY <1>1 DEF FrameOK
<1> QED
  BY <1>1, <1>2, CurrentOK

\* Every connection after a step was there before or is the one inserted.
LEMMA StepElements ==
  ASSUME Typed, NEW t \in Threads, Step(t), NEW o \in Objects, NEW j \in 1..Len(connections'[o])
  PROVE  \/ \E i \in 1..Len(connections[o]) : connections'[o][j] = connections[o][i]
         \/ /\ InsertsAt(t, o)
            /\ connections'[o][j] = [slot |-> Top(t).slot, obs |-> Remembered(Top(t))]
<1> DEFINE s == connections[o]
           f == Top(t)
<1>0. s \in Seq(Connection) /\ InOrder(s) /\ Len(s) \in Nat
  BY TypedParts, VectorsInOrder
<1>1. CASE connections'[o] = s
  BY <1>1
<1>2. CASE InsertsAt(t, o)
  <2>1. f.slot \in Slots /\ Remembered(f) \in Objects
    BY <1>2, InsertTop DEF InsertsAt
  <2>2. PICK p \in 0..Len(s) :
          /\ Len(connections'[o]) = Len(s) + 1
          /\ \A i \in 1..(Len(s) + 1) :
               connections'[o][i] = IF i <= p THEN s[i]
                                    ELSE IF i = p + 1 THEN [slot |-> f.slot, obs |-> Remembered(f)]
                                    ELSE s[i - 1]
    <3> DEFINE p == UpperBound(s, f.slot)
               r == Inserted(s, f.slot, Remembered(f))
    <3>1. /\ p \in 0..Len(s) /\ Len(r) = Len(s) + 1
          /\ \A i \in 1..Len(r) :
               r[i] = IF i <= p THEN s[i]
                      ELSE IF i = p + 1 THEN [slot |-> f.slot, obs |-> Remembered(f)]
                      ELSE s[i - 1]
      BY <1>0, <2>1, InsertedAt
    <3>2. connections'[o] = r
      BY <1>2 DEF InsertsAt
    <3> HIDE DEF p, r
    <3> QED
      BY <3>1, <3>2
  <2>3. j \in 1..(Len(s) + 1)
    BY <2>2
  <2>4. CASE j <= p
    <3>1. j \in 1..Len(s)
      BY <1>0, <2>3, <2>4
    <3> QED
      BY <2>2, <2>3, <2>4, <3>1
  <2>5. CASE j = p + 1
    BY <1>2, <2>2, <2>3, <2>5
  <2>6. CASE j > p + 1
    <3>1. j - 1 \in 1..Len(s) /\ ~(j <= p) /\ j # p + 1
      BY <1>0, <2>3, <2>6
    <3> QED
      BY <2>2, <2>3, <3>1
  <2> QED
    BY <2>3, <2>4, <2>5, <2>6
<1>3. CASE RemovesAt(t, o)
  <2>1. PICK k \in Slots : connections'[o] = Removed(s, k)
    BY <1>3, InsertTop, PeerTop DEF RemovesAt
  <2>2. PICK l \in Nat, p \in Nat :
          /\ l \in 0..p /\ p \in 0..Len(s)
          /\ Len(connections'[o]) = Len(s) - (p - l)
          /\ \A i \in 1..Len(connections'[o]) : connections'[o][i] = IF i <= l THEN s[i] ELSE s[i + (p - l)]
    <3> DEFINE l == LowerBound(s, k)
               p == UpperBound(s, k)
    <3>1. /\ l \in 0..p /\ p \in 0..Len(s) /\ Len(Removed(s, k)) = Len(s) - (p - l)
          /\ \A i \in 1..Len(Removed(s, k)) : Removed(s, k)[i] = IF i <= l THEN s[i] ELSE s[i + (p - l)]
      BY <1>0, RemovedAt
    <3> HIDE DEF l, p
    <3>2. l \in Nat /\ p \in Nat
      BY <3>1
    <3> QED
      BY <2>1, <3>1, <3>2
  <2>3. CASE j <= l
    <3>1. j \in 1..Len(s)
      BY <1>0, <2>2, <2>3
    <3> QED
      BY <2>2, <2>3, <3>1
  <2>4. CASE ~(j <= l)
    <3>1. j + (p - l) \in 1..Len(s)
      BY <1>0, <2>2, <2>4
    <3> QED
      BY <2>2, <2>4, <3>1
  <2> QED
    BY <2>3, <2>4
<1>4. CASE ClearsAt(t, o)
  BY <1>4 DEF ClearsAt
<1> QED
  BY <1>1, <1>2, <1>3, <1>4, StepEdits

\* Whom a connection names, seen from the object that lists it.
EntryOK(o, e) ==
  IF o \in Signals THEN e.obs = Receiver(o, e.slot)
  ELSE e.slot \in MemberSlots /\ Owner[e.slot] = o /\ e.obs \in Signals

Entries == \A o \in Objects : \A i \in 1..Len(connections[o]) : EntryOK(o, connections[o][i])

LEMMA StepEntries ==
  ASSUME Typed, Entries, NEW t \in Threads, Step(t)
  PROVE  Entries'
<1> SUFFICES ASSUME NEW o \in Objects, NEW j \in 1..Len(connections'[o])
             PROVE  EntryOK(o, connections'[o][j])
  BY DEF Entries, EntryOK, Receiver
<1>1. CASE \E i \in 1..Len(connections[o]) : connections'[o][j] = connections[o][i]
  BY <1>1 DEF Entries
<1>2. CASE /\ InsertsAt(t, o)
           /\ connections'[o][j] = [slot |-> Top(t).slot, obs |-> Remembered(Top(t))]
  <2> DEFINE f == Top(t)
             e == connections'[o][j]
  <2>1. /\ o = Edited(f) /\ e.slot = f.slot /\ e.obs = Remembered(f)
        /\ f.pc \in {"self", "peer"} /\ f.obj \in Signals
        /\ f.pc = "peer" => f.slot \in MemberSlots
    BY <1>2, InsertTop DEF InsertsAt
  <2>2. CASE f.pc = "self"
    <3>1. o = f.obj /\ e.obs = Receiver(f.obj, f.slot)
      BY <2>1, <2>2 DEF Edited, Remembered
    <3> QED
      BY <2>1, <3>1 DEF EntryOK
  <2>3. CASE f.pc = "peer"
    <3>1. o = Owner[f.slot] /\ e.obs = f.obj
      BY <2>1, <2>3 DEF Edited, Remembered
    <3>2. f.slot \in MemberSlots /\ o \notin Signals
      BY <2>1, <2>3, <3>1, ObjectsAssumption
    <3> QED
      BY <2>1, <3>1, <3>2 DEF EntryOK
  <2> QED
    BY <2>1, <2>2, <2>3
<1> QED
  BY <1>1, <1>2, StepElements

-------------------------------------------------------------------------------
(* The lists of the loops *)

\* A loop of a signal over its connections.
OverReceivers(f) ==
  f.obj \in Signals /\ \A j \in 1..Len(f.list) : f.list[j].obs = Receiver(f.obj, f.list[j].slot)

FiresOK ==
  \A t \in Threads : \A i \in 1..Len(stack[t]) :
    stack[t][i].op = "fire" => OverReceivers(stack[t][i])

Sweeping(f) == f.op \in Sweep /\ f.pc \in {"loop", "peer"}

\* A sweep runs over the vector itself.
SweepStable ==
  \A t \in Threads : \A i \in 1..Len(stack[t]) :
    Sweeping(stack[t][i]) => connections[stack[t][i].obj] = stack[t][i].list

LEMMA BeginLists ==
  ASSUME Typed, FiresOK, SweepStable, NEW t \in Threads, NEW c, Calls(t, c)
  PROVE  FiresOK' /\ SweepStable'
<1> DEFINE f == FirstFrame(c)
           n == Len(stack[t])
<1>1. /\ f \in Frame /\ Push(t, f) /\ f.list = <<>>
      /\ f.op = c.op /\ f.obj = c.obj /\ f.pc \in {"self", "lock", "reset"}
  BY FirstFrameOK
<1>2. (f.op = "fire" => f.obj \in Signals) /\ connections' = connections
  BY <1>1 DEF Calls, CallOK, Begin
<1> HIDE DEF f
<1>3. \A u \in Threads : \A i \in 1..Len(stack'[u]) :
        IF u = t /\ i = n + 1 THEN stack'[u][i] = f
        ELSE i \in 1..Len(stack[u]) /\ stack'[u][i] = stack[u][i]
  BY <1>1, TypedParts, PushFrames
<1>4. f.op = "fire" => OverReceivers(f)
  BY <1>1, <1>2 DEF OverReceivers
<1>5. FiresOK'
  <2> SUFFICES ASSUME NEW u \in Threads, NEW i \in 1..Len(stack'[u]), stack'[u][i].op = "fire"
               PROVE  OverReceivers(stack'[u][i])
    BY DEF FiresOK, OverReceivers, Receiver
  <2> QED
    BY <1>3, <1>4 DEF FiresOK
<1>6. SweepStable'
  <2> SUFFICES ASSUME NEW u \in Threads, NEW i \in 1..Len(stack'[u]), Sweeping(stack'[u][i])
               PROVE  connections'[stack'[u][i].obj] = stack'[u][i].list
    BY DEF SweepStable, Sweeping
  <2> QED
    BY <1>1, <1>2, <1>3 DEF SweepStable, Sweeping
<1> QED
  BY <1>5, <1>6

LEMMA StepFires ==
  ASSUME Typed, Entries, FiresOK, NEW t \in Threads, Step(t)
  PROVE  FiresOK'
<1> DEFINE g == Top(t)
           n == Len(stack[t])
<1>1. stack[t] # <<>> /\ (Returns(t) \/ \E f : Goes(t, f))
  BY StepGoes
<1>2. Stacks /\ n \in Nat \ {0} /\ g = stack[t][n] /\ g.obj \in Objects
  BY <1>1, TopOK DEF Top, Last, Frame
<1> SUFFICES ASSUME NEW u \in Threads, NEW i \in 1..Len(stack'[u]), stack'[u][i].op = "fire"
             PROVE  OverReceivers(stack'[u][i])
  BY DEF FiresOK, OverReceivers, Receiver
<1>3. ASSUME NEW f, Goes(t, f) PROVE OverReceivers(stack'[u][i])
  <2>1. \A w \in Threads :
          /\ Len(stack'[w]) = Len(stack[w])
          /\ \A j \in 1..Len(stack[w]) :
               stack'[w][j] = IF w = t /\ j = n THEN f ELSE stack[w][j]
    BY <1>1, <1>2, <1>3, ContinueFrames DEF Goes
  <2>2. CASE u = t /\ i = n
    <3>1. /\ stack'[u][i] = f /\ f.op = "fire" /\ g.op = "fire" /\ f.obj = g.obj
          /\ f.list = g.list \/ f.list = connections[f.obj]
      BY <1>3, <2>1, <2>2 DEF Goes
    <3>2. OverReceivers(g)
      BY <1>2, <3>1 DEF FiresOK
    <3>3. \A j \in 1..Len(connections[g.obj]) :
            connections[g.obj][j].obs = Receiver(g.obj, connections[g.obj][j].slot)
      BY <1>2, <3>2 DEF Entries, EntryOK, OverReceivers
    <3> QED
      BY <3>1, <3>2, <3>3 DEF OverReceivers
  <2>3. CASE ~(u = t /\ i = n)
    <3>1. i \in 1..Len(stack[u]) /\ stack'[u][i] = stack[u][i]
      BY <2>1, <2>3
    <3> QED
      BY <3>1 DEF FiresOK
  <2> QED
    BY <2>2, <2>3
<1>4. CASE Returns(t)
  <2>1. i \in 1..Len(stack[u]) /\ stack'[u][i] = stack[u][i]
    BY <1>1, <1>2, <1>4, PopFrames DEF Returns
  <2> QED
    BY <2>1 DEF FiresOK
<1> QED
  BY <1>1, <1>3, <1>4

\* With mutexes nobody else edits a vector under a loop; without them there is
\* one thread, and its innermost call is the sweep itself, which edits others.
LEMMA StepSweeps ==
  ASSUME LockInv, Stable, Frames, SweepStable, NEW t \in Threads, Step(t), Frames', LockInv', Stable'
  PROVE  SweepStable'
<1>0. Typed /\ Typed'
  BY DEF LockInv
<1> SUFFICES ASSUME NEW u \in Threads, NEW i \in 1..Len(stack'[u]), Sweeping(stack'[u][i])
             PROVE  connections'[stack'[u][i].obj] = stack'[u][i].list
  BY DEF SweepStable, Sweeping
<1>1. CASE Locks
  BY <1>1 DEF Stable, InPlace, Sweeping
<1>2. CASE ~Locks
  <2> DEFINE g == Top(t)
             n == Len(stack[t])
             h == stack'[u][i]
  <2>1. u = t
    BY <1>2, PolicyAssumption, ThreadsAssumption DEF Locks
  <2>2. i = Len(stack'[t])
    <3>1. ~(stack'[u][i].op = "fire")
      BY DEF Sweeping, Sweep
    <3> QED
      BY <2>1, <3>1 DEF Frames, Below
  <2>3. stack[t] # <<>> /\ (Returns(t) \/ \E f : Goes(t, f))
    BY <1>0, StepGoes
  <2>4. Stacks /\ n \in Nat \ {0} /\ g = stack[t][n] /\ g.obj \in Objects
    BY <1>0, <2>3, TopOK DEF Top, Last, Frame
  <2>5. ~Returns(t)
    <3> SUFFICES ASSUME Returns(t) PROVE FALSE
      OBVIOUS
    <3>1. i \in 1..Len(stack[t]) /\ stack'[t][i] = stack[t][i] /\ i # n
      BY <2>1, <2>3, <2>4, PopFrames DEF Returns
    <3>2. stack[t][i].op = "fire"
      BY <3>1 DEF Frames, Below
    <3> QED
      BY <2>1, <3>1, <3>2 DEF Sweeping, Sweep
  <2>6. PICK f : Goes(t, f)
    BY <2>3, <2>5
  <2>7. h = f /\ f.obj = g.obj /\ f.op = g.op /\ f.obj \in Objects
    BY <2>1, <2>2, <2>3, <2>4, <2>6, ContinueFrames DEF Goes
  <2>8. g.op \in Sweep
    BY <2>7 DEF Sweeping
  <2>9. CASE StartSweep(t)
    <3>1. Continue(t, [g EXCEPT !.pc = "loop", !.list = connections[g.obj]]) /\ connections' = connections
      BY <2>9 DEF StartSweep
    <3>2. connections[g.obj] \in Seq(Connection) /\ g \in Frame
      BY <1>0, <2>3, <2>4, TopOK, TypedParts, VectorsInOrder
    <3>3. /\ [g EXCEPT !.pc = "loop", !.list = connections[g.obj]] \in Frame
          /\ [g EXCEPT !.pc = "loop", !.list = connections[g.obj]].list = connections[g.obj]
      BY <3>2, StartFrame
    <3>4. stack'[t][n] = [g EXCEPT !.pc = "loop", !.list = connections[g.obj]]
      BY <2>3, <2>4, <3>1, <3>3, ContinueFrames
    <3>5. stack'[t][n] = f
      BY <2>3, <2>4, <2>6, ContinueFrames DEF Goes
    <3> QED
      BY <2>7, <3>1, <3>3, <3>4, <3>5
  <2>10. CASE VisitPeer(t) \/ SkipPeer(t) \/ RemovePeer(t)
    <3>1. g.pc \in {"loop", "peer"} /\ g \in Frame
      BY <1>0, <2>10, AtTop DEF VisitPeer, SkipPeer, RemovePeer
    <3>2. connections[g.obj] = g.list
      BY <2>4, <2>8, <3>1 DEF SweepStable, Sweeping
    <3>3. f.list = g.list
      <4>1. "peer" \in PCs
        BY DEF PCs
      <4>2. CASE Goto(t, "peer")
        <5>1. [g EXCEPT !.pc = "peer"] \in Frame /\ [g EXCEPT !.pc = "peer"].list = g.list
          BY <3>1, <4>1, GotoFrame
        <5>2. stack'[t][n] = [g EXCEPT !.pc = "peer"]
          BY <2>3, <2>4, <4>2, <5>1, ContinueFrames DEF Goto
        <5>3. stack'[t][n] = f
          BY <2>3, <2>4, <2>6, ContinueFrames DEF Goes
        <5> QED
          BY <5>1, <5>2, <5>3
      <4>3. CASE NextConnection(t)
        <5> DEFINE x == [g EXCEPT !.pc = "loop", !.idx = @ + 1]
        <5>1. x \in Frame /\ x.list = g.list
          BY <3>1, NextFrame
        <5>2. Continue(t, x)
          BY <4>3 DEF NextConnection
        <5> HIDE DEF x
        <5>3. stack'[t][n] = x
          BY <2>3, <2>4, <5>1, <5>2, ContinueFrames
        <5>4. stack'[t][n] = f
          BY <2>3, <2>4, <2>6, ContinueFrames DEF Goes
        <5> QED
          BY <5>1, <5>3, <5>4
      <4> QED
        BY <2>10, <4>2, <4>3 DEF VisitPeer, SkipPeer, RemovePeer
    <3>4. connections'[g.obj] = connections[g.obj]
      <4>1. CASE RemovePeer(t)
        <5>1. g.pc = "peer" /\ Current(g).obs # g.obj
          BY <1>0, <2>4, <2>8, <4>1, PeerTop DEF Frames, PeersOther
        <5>2. connections' = [connections EXCEPT ![Current(g).obs]
                                = Removed(connections[Current(g).obs], Current(g).slot)]
          BY <4>1 DEF RemovePeer
        <5> QED
          BY <1>0, <2>4, <5>1, <5>2, TypedParts DEF Vectors
      <4>2. CASE VisitPeer(t) \/ SkipPeer(t)
        BY <4>2 DEF VisitPeer, SkipPeer
      <4> QED
        BY <2>10, <4>1, <4>2
    <3> QED
      BY <2>7, <3>2, <3>3, <3>4
  <2>11. CASE ResetTracker(t) \/ Drained(t)
    <3>1. Counted
      BY <1>0, <2>11, AtTop DEF ResetTracker, Drained, FrameOK, Sweep
    <3> QED
      BY <1>2, <3>1 DEF Locks, Counted
  <2>12. CASE EndSweep(t)
    <3>1. Pop(t)
      BY <2>12 DEF EndSweep
    <3>2. Len(stack'[t]) = n - 1 /\ Len(stack'[t]) = n
      BY <2>3, <2>4, <2>6, <3>1, PopFrames, ContinueFrames DEF Goes
    <3> QED
      BY <2>4, <3>2
  <2>13. CASE InsertHalf(t) \/ RemoveHalf(t)
    BY <1>0, <2>8, <2>13, InsertTop DEF Sweep
  <2>14. CASE StartEmission(t) \/ CallSlot(t) \/ SkipSlot(t) \/ SlotReturns(t) \/ EndEmission(t)
    <3>1. g.op = "fire"
      BY <1>0, <2>14, AtTop DEF StartEmission, CallSlot, SkipSlot, SlotReturns, EndEmission,
                   EmissionOver
    <3> QED
      BY <2>8, <3>1 DEF Sweep
  <2> QED
    BY <2>9, <2>10, <2>11, <2>12, <2>13, <2>14 DEF Step
<1> QED
  BY <1>1, <1>2

-------------------------------------------------------------------------------
(* What holds whatever the clients call *)

Always == LockInv /\ Stable /\ LInv /\ Frames /\ Entries /\ FiresOK /\ SweepStable

LEMMA InitAlways == Init => Always
<1> SUFFICES ASSUME Init PROVE Always
  OBVIOUS
<1>1. \A t \in Threads : 1..Len(stack[t]) = {}
  <2>1. \A t \in Threads : Len(stack[t]) = 0
    BY DEF Init
  <2> QED
    BY <2>1
<1>2. \A o \in Objects : life[o] = "alive" /\ 1..Len(connections[o]) = {}
  <2>1. \A o \in Objects : Len(connections[o]) = 0
    BY DEF Init
  <2> QED
    BY <2>1 DEF Init
<1>3. Frames
  BY <1>1, <1>2 DEF Frames, Below, Called, NamedAlive, UnderDestruction, PeersOther, FromTheFirst
<1>4. Entries /\ FiresOK /\ SweepStable
  BY <1>1, <1>2 DEF Entries, FiresOK, SweepStable
<1> QED
  BY <1>3, <1>4, InitLockInv, InitLInv DEF Always

LEMMA NextAlways == Always /\ [Next]_vars => Always'
<1> SUFFICES ASSUME Always, [Next]_vars PROVE Always'
  OBVIOUS
<1>0. Typed
  BY DEF Always, LockInv
<1>1. LockInv' /\ Stable' /\ LInv'
  BY NextLockInv, NextLInv DEF Always
<1>2. ASSUME NEW t \in Threads, CallFromThread(t) \/ CallFromSlot(t) PROVE Always'
  <2>1. PICK c : Calls(t, c)
    BY <1>0, <1>2, ClientsCall
  <2>2. Frames'
    BY <2>1, BeginFrames DEF Always
  <2>3. FiresOK' /\ SweepStable'
    BY <1>0, <2>1, BeginLists DEF Always
  <2>4. connections' = connections
    BY <2>1 DEF Calls, Begin
  <2>5. Entries'
    BY <2>4 DEF Always, Entries, EntryOK, Receiver
  <2> QED
    BY <1>1, <2>2, <2>3, <2>5 DEF Always
<1>3. ASSUME NEW t \in Threads, Step(t) PROVE Always'
  <2>1. Frames'
    BY <1>3, StepFrames DEF Always
  <2>2. FiresOK' /\ Entries'
    BY <1>0, <1>3, StepFires, StepEntries DEF Always
  <2>3. SweepStable'
    BY <1>1, <1>3, <2>1, StepSweeps DEF Always
  <2> QED
    BY <1>1, <2>1, <2>2, <2>3 DEF Always
<1>4. CASE UNCHANGED vars
  <2>1. Frames'
    BY <1>4 DEF Always, vars, Frames, Below, Called, CallOf, NamedAlive, Naming, Named,
                UnderDestruction, PeersOther, FromTheFirst, Current
  <2>2. FiresOK' /\ SweepStable'
    BY <1>4 DEF Always, vars, FiresOK, OverReceivers, Receiver, SweepStable, Sweeping
  <2>3. Entries'
    BY <1>4 DEF Always, vars, Entries, EntryOK, Receiver
  <2> QED
    BY <1>1, <2>1, <2>2, <2>3 DEF Always
<1> QED
  BY <1>2, <1>3, <1>4 DEF Next, Rest

\* Which of the objects that a thread touches next are in question: the calls
\* name the others, or are their destructors.
InQuestion(t) ==
  LET f == Top(t) IN
  IF f.op = "fire" /\ f.pc \in {"loop", "slot"}
  THEN (IF ByRef THEN {f.obj} ELSE {}) \cup
       (IF f.pc = "slot" \/ (~AtEnd(f) /\ Observed(Current(f).obs))
        THEN {Receiver(f.obj, Current(f).slot)} \cap Foos ELSE {})
  ELSE IF f.op \in Sweep /\ f.pc = "peer" THEN {Current(f).obs} ELSE {}

LEMMA DefinedWhen ==
  ASSUME Always, NEW t \in Threads, stack[t] # <<>> => \A o \in InQuestion(t) : life[o] # "dead"
  PROVE  Defined(t)
<1> DEFINE f == Top(t)
           n == Len(stack[t])
<1>1. CASE stack[t] = <<>>
  BY <1>1 DEF Defined, Touched
<1>2. CASE stack[t] # <<>>
  <2>1. /\ n \in Nat \ {0} /\ f = stack[t][n] /\ f \in Frame /\ FrameOK(f) /\ f.obj \in Objects
        /\ n \in 1..n
    BY <1>2, TopOK DEF Always, LInv, Top, Last, Frame
  <2>2. Naming(f) => \A o \in Named(f) \cap Objects : life[o] = "alive"
    BY <2>1 DEF Always, Frames, NamedAlive
  <2>3. CASE f.op \in {"connect", "disconnect"}
    <3>0. f.op # "fire" /\ f.op \notin Sweep
      BY <2>3 DEF Sweep
    <3>1. Touched(t) = {Edited(f)}
      BY <1>2, <2>3, <3>0 DEF Touched
    <3>2. Edited(f) \in Objects /\ Edited(f) \in Named(f)
      BY <2>1, <2>3, EditedOK DEF FrameOK, Edited, Named
    <3>3. life[Edited(f)] = "alive"
      BY <2>2, <2>3, <3>2 DEF Naming
    <3> QED
      BY <3>1, <3>3 DEF Defined
  <2>4. CASE f.op = "fire"
    <3>1. CASE f.pc = "lock"
      <4>1. Touched(t) = {f.obj}
        BY <1>2, <2>4, <3>1 DEF Touched
      <4>2. life[f.obj] = "alive"
        BY <2>1, <2>2, <2>4, <3>1 DEF Naming, Named
      <4> QED
        BY <4>1, <4>2 DEF Defined
    <3>2. CASE f.pc \in {"loop", "slot"}
      <4>1. Touched(t) = InQuestion(t)
        BY <1>2, <2>4, <3>2 DEF Touched, InQuestion
      <4> QED
        BY <1>2, <4>1 DEF Defined
    <3> QED
      BY <2>1, <2>4, <3>1, <3>2 DEF FrameOK
  <2>5. CASE f.op \in Sweep
    <3>1. life[f.obj] # "dead"
      <4>1. CASE f.op = "destroy"
        BY <2>1, <4>1 DEF Always, LInv, StageOK, Stage
      <4>2. CASE f.op = "disconnect_all"
        BY <2>1, <2>2, <4>2 DEF Naming, Named
      <4> QED
        BY <2>5, <4>1, <4>2 DEF Sweep
    <3>2. f.op # "fire" /\ f.op \notin {"connect", "disconnect"}
      BY <2>5 DEF Sweep
    <3>3. CASE f.pc = "peer"
      <4>1. Touched(t) = {f.obj} \cup InQuestion(t)
        BY <1>2, <2>5, <3>2, <3>3 DEF Touched, InQuestion
      <4> QED
        BY <1>2, <3>1, <4>1 DEF Defined
    <3>4. CASE f.pc # "peer"
      <4>1. Touched(t) = {f.obj}
        BY <1>2, <2>5, <3>2, <3>4 DEF Touched
      <4> QED
        BY <3>1, <4>1 DEF Defined
    <3> QED
      BY <3>3, <3>4
  <2>6. f.op \in {"connect", "disconnect", "fire"} \cup Sweep
    BY <2>1 DEF Frame, Sweep
  <2> QED
    BY <2>3, <2>4, <2>5, <2>6
<1> QED
  BY <1>1, <1>2

\* What an emission or a sweep locks has not gone.
LEMMA CountedSafe == Always /\ Counted => NoUseAfterFree
<1> SUFFICES ASSUME Always, Counted, NEW t \in Threads PROVE Defined(t)
  BY DEF NoUseAfterFree
<1> DEFINE f == Top(t)
           n == Len(stack[t])
<1>1. ASSUME stack[t] # <<>>, NEW o \in InQuestion(t) PROVE life[o] # "dead"
  <2>1. /\ n \in Nat \ {0} /\ f = stack[t][n] /\ f \in Frame /\ FrameOK(f) /\ f.obj \in Objects
        /\ n \in 1..n
    BY <1>1, TopOK DEF Always, LInv, Top, Last, Frame
  <2>2. ~ByRef
    BY DEF ByRef, Counted
  <2>3. CASE f.op = "fire"
    <3>1. /\ f.pc = "slot" \/ (~AtEnd(f) /\ Observed(Current(f).obs))
          /\ o = Receiver(f.obj, Current(f).slot)
      BY <1>1, <2>2, <2>3 DEF InQuestion, Sweep
    <3>2. f.idx \in Nat /\ f.idx # 0 /\ Len(f.list) \in Nat
      BY <2>1 DEF FrameOK, Frame
    <3>3. f.idx \in 1..Len(f.list)
      <4>1. CASE f.pc = "slot"
        BY <2>1, <2>3, <4>1 DEF FrameOK
      <4>2. CASE ~AtEnd(f)
        BY <3>2, <4>2 DEF AtEnd
      <4> QED
        BY <3>1, <4>1, <4>2
    <3>4. Current(f).obs = o
      <4>1. OverReceivers(f)
        BY <2>1, <2>3 DEF Always, FiresOK
      <4> QED
        BY <3>1, <3>3, <4>1 DEF OverReceivers, Current
    <3>5. Current(f).obs \in Objects
      BY <2>1, <3>3, CurrentOK
    <3>6. CASE f.pc = "slot"
      <4>1. HoldsRef(f)
        BY <2>3, <3>6 DEF HoldsRef
      <4> QED
        BY <2>1, <3>4, <4>1 DEF Always, LInv, Visited, Gone
    <3>7. CASE f.pc # "slot"
      <4>1. Lockable(o)
        BY <3>1, <3>4, <3>7 DEF Observed
      <4> QED
        BY <3>4, <3>5, <4>1, LockableNotGone DEF Always, LInv, Gone
    <3> QED
      BY <3>6, <3>7
  <2>4. CASE f.op # "fire"
    <3>1. f.op \in Sweep /\ f.pc = "peer" /\ o = Current(f).obs
      BY <1>1, <2>4 DEF InQuestion
    <3>2. HoldsRef(f)
      BY <3>1 DEF HoldsRef
    <3> QED
      BY <2>1, <3>1, <3>2 DEF Always, LInv, Visited, Gone
  <2> QED
    BY <2>3, <2>4
<1> QED
  BY <1>1, DefinedWhen

\* Under TS_Policy_Safe no thread ever touches an object whose memory is gone,
\* whatever the clients call from threads and from slots.
THEOREM CountedMemorySafe == Counted => (Spec => []NoUseAfterFree)
<1> SUFFICES ASSUME Counted PROVE Spec => []NoUseAfterFree
  OBVIOUS
<1> QED
  BY InitAlways, NextAlways, CountedSafe, PTL DEF Spec

-------------------------------------------------------------------------------
(* Disciplined clients *)

CONSTANTS Home, Keeper              \* the signal and the thread of each member slot

Discipline ==
  /\ Home \in [MemberSlots -> Signals] /\ Keeper \in [MemberSlots -> Threads]
  /\ Disciplined(Home, Keeper)

\* What the discipline says of a call in progress.
Obeys(t, c, inSlot) ==
  /\ \A k \in MemberSlots :
       /\ c.op \in {"connect", "disconnect"} /\ c.slot = k => c.obj = Home[k] /\ t = Keeper[k]
       /\ c.op \in Sweep /\ c.obj \in Ends(Home, k) => t = Keeper[k]
  /\ inSlot => /\ ByRef => c.op = "fire"
               /\ c.op = "destroy" /\ c.obj \in Foos => Counted

LEMMA ClientsObey ==
  ASSUME Discipline, NEW t \in Threads
  PROVE  /\ \A c \in TopCalls[t] : Obeys(t, c, FALSE)
         /\ \A c \in SomeSlotCalls : Obeys(t, c, TRUE)
<1>1. \A c \in TopCalls[t] \cup SomeSlotCalls : \A k \in MemberSlots :
         /\ c.op \in {"connect", "disconnect"} /\ c.slot = k => c.obj = Home[k] /\ t = Keeper[k]
         /\ c.op \in Sweep /\ c.obj \in Ends(Home, k) => t = Keeper[k]
  BY DEF Discipline, Disciplined, SomeSlotCalls
<1>2. \A c \in SomeSlotCalls : /\ ByRef => c.op = "fire"
                               /\ c.op = "destroy" /\ c.obj \in Foos => Counted
  BY DEF Discipline, Disciplined, SomeSlotCalls, ByRef
<1> QED
  BY <1>1, <1>2 DEF Obeys

LEMMA FramesObey ==
  ASSUME Discipline, Called, NEW t \in Threads, NEW i \in 1..Len(stack[t])
  PROVE  Obeys(t, stack[t][i], i # 1)
<1> DEFINE f == stack[t][i]
<1>1. CallOf(f) \in IF i = 1 THEN TopCalls[t] ELSE SomeSlotCalls
  BY DEF Called
<1>2. CallOf(f).op = f.op /\ CallOf(f).obj = f.obj /\ CallOf(f).slot = f.slot
  BY DEF CallOf
<1> HIDE DEF f
<1>3. Obeys(t, CallOf(f), i # 1)
  <2>1. CASE i = 1
    BY <1>1, <2>1, ClientsObey DEF Obeys
  <2>2. CASE i # 1
    BY <1>1, <2>2, ClientsObey DEF Obeys
  <2> QED
    BY <2>1, <2>2
<1>4. Obeys(t, f, i # 1)
  BY <1>2, <1>3 DEF Obeys
<1> QED
  BY <1>4 DEF f

\* The two ends of a member slot.
LEMMA EndsOK ==
  ASSUME Discipline, NEW k \in MemberSlots
  PROVE  /\ Home[k] \in Signals /\ Owner[k] \in Foos /\ Keeper[k] \in Threads
         /\ Home[k] \in Objects /\ Owner[k] \in Objects /\ Home[k] # Owner[k]
         /\ k \in Slots /\ Ends(Home, k) = {Home[k], Owner[k]}
         /\ Owner[k] \notin Signals /\ Home[k] \notin Foos
BY ObjectsAssumption DEF Discipline, Objects, Ends

EntryHome(o, e) ==
  e.slot \in MemberSlots => IF o \in Signals THEN o = Home[e.slot] ELSE e.obs = Home[e.slot]

\* Connections of a member slot lie at its two ends only.
HomeEntries ==
  \A o \in Objects : \A i \in 1..Len(connections[o]) : EntryHome(o, connections[o][i])

LEMMA StepHomeEntries ==
  ASSUME Discipline, Always, HomeEntries, NEW t \in Threads, Step(t)
  PROVE  HomeEntries'
<1>0. Typed
  BY DEF Always, LockInv
<1> SUFFICES ASSUME NEW o \in Objects, NEW j \in 1..Len(connections'[o])
             PROVE  EntryHome(o, connections'[o][j])
  BY DEF HomeEntries, EntryHome
<1>1. CASE \E i \in 1..Len(connections[o]) : connections'[o][j] = connections[o][i]
  BY <1>1 DEF HomeEntries
<1>2. CASE /\ InsertsAt(t, o)
           /\ connections'[o][j] = [slot |-> Top(t).slot, obs |-> Remembered(Top(t))]
  <2> DEFINE f == Top(t)
             e == connections'[o][j]
  <2>1. /\ o = Edited(f) /\ e.slot = f.slot /\ e.obs = Remembered(f) /\ stack[t] # <<>>
        /\ f.pc \in {"self", "peer"} /\ f.obj \in Signals /\ f.op = "connect"
        /\ f.pc = "peer" => f.slot \in MemberSlots
    BY <1>0, <1>2, InsertTop DEF InsertsAt
  <2>2. f.slot \in MemberSlots => f.obj = Home[f.slot]
    <3>1. f = stack[t][Len(stack[t])] /\ Len(stack[t]) \in 1..Len(stack[t])
      BY <1>0, <2>1, TopOK DEF Top, Last
    <3>2. Obeys(t, f, Len(stack[t]) # 1)
      BY <3>1, FramesObey DEF Always, Frames
    <3> QED
      BY <2>1, <3>2 DEF Obeys
  <2>3. CASE f.pc = "self"
    <3>1. o = f.obj
      BY <2>1, <2>3 DEF Edited
    <3> QED
      BY <2>1, <2>2, <3>1 DEF EntryHome
  <2>4. CASE f.pc = "peer"
    <3>1. o = Owner[f.slot] /\ e.obs = f.obj
      BY <2>1, <2>4 DEF Edited, Remembered
    <3>2. f.slot \in MemberSlots /\ o \notin Signals
      BY <2>1, <2>4, <3>1, ObjectsAssumption
    <3> QED
      BY <2>1, <2>2, <3>1, <3>2 DEF EntryHome
  <2> QED
    BY <2>1, <2>3, <2>4
<1> QED
  BY <1>0, <1>1, <1>2, StepElements

\* What a connection in a vector says.
LEMMA Listed ==
  ASSUME Discipline, Typed, Entries, HomeEntries, NEW o \in Objects, NEW i \in 1..Len(connections[o])
  PROVE  LET e == connections[o][i] IN
         /\ e \in Connection /\ e.slot \in Slots /\ e.obs \in Objects
         /\ e.slot \notin MemberSlots => e.obs = o
         /\ e.slot \in MemberSlots =>
              \/ o = Home[e.slot] /\ e.obs = Owner[e.slot]
              \/ o = Owner[e.slot] /\ e.obs = Home[e.slot]
<1> DEFINE e == connections[o][i]
<1>1. connections[o] \in Seq(Connection)
  BY TypedParts, VectorsInOrder
<1>2. e \in Connection /\ e.slot \in Slots /\ e.obs \in Objects
  <2>1. \A s \in Seq(Connection) : \A j \in 1..Len(s) : s[j] \in Connection
    OBVIOUS
  <2>2. e \in Connection
    BY <1>1, <2>1
  <2> QED
    BY <2>2 DEF Connection
<1>3. EntryOK(o, e) /\ EntryHome(o, e)
  BY DEF Entries, HomeEntries
<1> QED
  BY <1>2, <1>3 DEF EntryOK, EntryHome, Receiver

\* How often a member slot is listed.
Listings(o, k) == Num(connections[o], k)

LEMMA ListingsOK ==
  ASSUME Typed, NEW o \in Objects, NEW k
  PROVE  /\ Listings(o, k) \in Nat
         /\ \A i \in 1..Len(connections[o]) : connections[o][i].slot = k => Listings(o, k) # 0
         /\ Listings(o, k) = 0 <=> \A i \in 1..Len(connections[o]) : connections[o][i].slot # k
<1>1. connections[o] \in Seq(Connection)
  BY TypedParts, VectorsInOrder
<1> QED
  BY <1>1, NumOK DEF Listings

\* The frame and the thread of a step, and what the discipline says of them.
LEMMA TopObeys ==
  ASSUME Discipline, Always, NEW t \in Threads, stack[t] # <<>>
  PROVE  LET f == Top(t)
             n == Len(stack[t]) IN
         /\ Typed /\ Stacks /\ n \in Nat \ {0} /\ n \in 1..n /\ f = stack[t][n]
         /\ f \in Frame /\ FrameOK(f) /\ f.obj \in Objects
         /\ Obeys(t, f, n # 1)
<1>1. Typed /\ Called
  BY DEF Always, LockInv, Frames
<1>2. /\ Stacks /\ Len(stack[t]) \in Nat \ {0} /\ Top(t) = stack[t][Len(stack[t])]
      /\ Top(t) \in Frame /\ FrameOK(Top(t)) /\ Top(t).obj \in Objects
  BY <1>1, TopOK DEF Top, Last, Frame
<1>3. Len(stack[t]) \in 1..Len(stack[t])
  BY <1>2
<1> QED
  BY <1>1, <1>2, <1>3, FramesObey

\* The peer that a sweep edits is the other end of the slot.
LEMMA PeerIsEnd ==
  ASSUME Discipline, Always, HomeEntries, NEW t \in Threads, stack[t] # <<>>,
         Sweeping(Top(t)), ~AtEnd(Top(t))
  PROVE  LET f == Top(t)
             e == Current(f) IN
         /\ f.idx \in 1..Len(connections[f.obj]) /\ e = connections[f.obj][f.idx]
         /\ e \in Connection /\ e.slot \in Slots /\ e.obs \in Objects
         /\ e.slot \notin MemberSlots => e.obs = f.obj
         /\ e.slot \in MemberSlots =>
              \/ f.obj = Home[e.slot] /\ e.obs = Owner[e.slot]
              \/ f.obj = Owner[e.slot] /\ e.obs = Home[e.slot]
<1> DEFINE f == Top(t)
           n == Len(stack[t])
<1>1. Typed /\ n \in 1..n /\ f = stack[t][n] /\ f \in Frame /\ FrameOK(f) /\ f.obj \in Objects
  BY TopObeys
<1>2. connections[f.obj] = f.list
  BY <1>1 DEF Always, SweepStable
<1>3. f.idx \in Nat /\ f.idx # 0 /\ Len(f.list) \in Nat
  BY <1>1 DEF FrameOK, Frame
<1>4. f.idx \in 1..Len(f.list)
  BY <1>3 DEF AtEnd
<1>5. Current(f) = connections[f.obj][f.idx]
  BY <1>2 DEF Current
<1>6. Entries
  BY DEF Always
<1> HIDE DEF f
<1>7. f.idx \in 1..Len(connections[f.obj])
  BY <1>2, <1>4
<1> QED
  BY <1>1, <1>5, <1>6, <1>7, Listed DEF f

\* A remove at the peer is within the reach of the loop.
LEMMA PeerSweeps ==
  ASSUME Typed, NEW t \in Threads, RemovePeer(t)
  PROVE  stack[t] # <<>> /\ Sweeping(Top(t)) /\ ~AtEnd(Top(t))
<1>1. /\ stack[t] # <<>> /\ Top(t) \in Frame /\ Top(t).op \in Sweep /\ Top(t).pc = "peer"
      /\ Top(t).idx \in 1..Len(Top(t).list)
  BY PeerTop
<1>2. ~AtEnd(Top(t))
  BY <1>1 DEF AtEnd, Frame
<1> QED
  BY <1>1, <1>2 DEF Sweeping

\* A step leaves the listings of a slot alone that it is not about.
About(t, k) ==
  LET f == Top(t) IN
  \/ (InsertHalf(t) \/ RemoveHalf(t)) /\ f.slot = k
  \/ RemovePeer(t) /\ Current(f).slot = k
  \/ EndSweep(t) /\ f.obj \in Ends(Home, k)

LEMMA StepLeaves ==
  ASSUME Discipline, Typed, NEW t \in Threads, Step(t), NEW k \in MemberSlots, ~About(t, k),
         NEW o \in Ends(Home, k)
  PROVE  Num(connections'[o], k) = Listings(o, k)
<1> DEFINE s == connections[o]
           f == Top(t)
<1>0. o \in Objects /\ k \in Slots
  BY EndsOK
<1>1. s \in Seq(Connection) /\ InOrder(s)
  BY <1>0, TypedParts, VectorsInOrder
<1>2. CASE connections'[o] = s
  BY <1>2 DEF Listings
<1>3. CASE InsertsAt(t, o)
  <2>1. f.slot \in Slots /\ Remembered(f) \in Objects /\ f.slot # k
    BY <1>3, InsertTop DEF InsertsAt, About
  <2>2. connections'[o] = Inserted(s, f.slot, Remembered(f))
    BY <1>3 DEF InsertsAt
  <2> HIDE DEF f
  <2> QED
    BY <1>1, <2>1, <2>2, NumInserted DEF Listings
<1>4. CASE RemovesAt(t, o)
  <2>1. PICK j \in Slots : j # k /\ connections'[o] = Removed(s, j)
    BY <1>4, InsertTop, PeerTop DEF RemovesAt, About
  <2> QED
    BY <1>1, <2>1, NumRemoved DEF Listings
<1>5. CASE ClearsAt(t, o)
  BY <1>5 DEF ClearsAt, About
<1> QED
  BY <1>0, <1>2, <1>3, <1>4, <1>5, StepEdits

\* Only its keeper is ever about a slot.
LEMMA AboutKept ==
  ASSUME Discipline, Always, HomeEntries, NEW t \in Threads, NEW k \in MemberSlots, About(t, k)
  PROVE  t = Keeper[k]
<1> DEFINE f == Top(t)
<1>0. Typed
  BY DEF Always, LockInv
<1>1. CASE (InsertHalf(t) \/ RemoveHalf(t)) /\ f.slot = k
  <2>1. stack[t] # <<>> /\ f.op \in {"connect", "disconnect"}
    BY <1>0, <1>1, InsertTop
  <2>2. Obeys(t, f, Len(stack[t]) # 1)
    BY <2>1, TopObeys
  <2> QED
    BY <1>1, <2>1, <2>2 DEF Obeys
<1>2. CASE RemovePeer(t) /\ Current(f).slot = k
  <2>1. stack[t] # <<>> /\ Sweeping(f) /\ ~AtEnd(f)
    BY <1>0, <1>2, PeerSweeps
  <2>2. f.obj \in Ends(Home, k)
    BY <1>2, <2>1, PeerIsEnd DEF Ends
  <2>3. Obeys(t, f, Len(stack[t]) # 1)
    BY <2>1, TopObeys
  <2> QED
    BY <2>1, <2>2, <2>3 DEF Obeys, Sweeping
<1>3. CASE EndSweep(t) /\ f.obj \in Ends(Home, k)
  <2>1. stack[t] # <<>> /\ f.op \in Sweep
    BY <1>0, <1>3, AtTop DEF EndSweep
  <2>2. Obeys(t, f, Len(stack[t]) # 1)
    BY <2>1, TopObeys
  <2> QED
    BY <1>3, <2>1, <2>2 DEF Obeys
<1> QED
  BY <1>1, <1>2, <1>3 DEF About

-------------------------------------------------------------------------------
(* The two ends of a slot *)

\* A loop has passed the connections of a slot.
Swept(f, k) == \E j \in 1..Len(f.list) : j < f.idx /\ f.list[j].slot = k

\* How often the signal and the observer list a slot while its keeper is in f.
Half(f, k, ns, nf) ==
  IF f.op \in {"connect", "disconnect"} /\ f.pc = "peer" /\ f.slot = k
  THEN IF f.op = "connect" THEN ns = nf + 1 ELSE ns = 0
  ELSE IF Sweeping(f) /\ f.obj \in Ends(Home, k) /\ Swept(f, k)
  THEN IF f.obj = Home[k] THEN nf = 0 ELSE ns = 0
  ELSE ns = nf

\* The two ends agree but for the call its keeper is in the middle of.
Halfway(k) ==
  LET ns == Listings(Home[k], k)
      nf == Listings(Owner[k], k) IN
  IF stack[Keeper[k]] = <<>> THEN ns = nf ELSE Half(Top(Keeper[k]), k, ns, nf)

Halves == \A k \in MemberSlots : Halfway(k)

\* What is dead is not listed, nor does it list anything.
DeadEmpty ==
  \A k \in MemberSlots : \A o \in Ends(Home, k) :
    life[o] = "dead" => Listings(Home[k], k) = 0 /\ Listings(Owner[k], k) = 0

\* Outside the two halves of an edit and a sweep under way the ends agree.
LEMMA HalfEven ==
  ASSUME NEW f, NEW k, NEW ns, NEW nf,
         ~(f.op \in {"connect", "disconnect"} /\ f.pc = "peer" /\ f.slot = k),
         ~(Sweeping(f) /\ f.obj \in Ends(Home, k) /\ Swept(f, k))
  PROVE  Half(f, k, ns, nf) <=> ns = nf
BY DEF Half

LEMMA HalfOfFire ==
  ASSUME NEW f, f.op = "fire", NEW k, NEW ns, NEW nf
  PROVE  Half(f, k, ns, nf) <=> ns = nf
BY HalfEven DEF Sweeping, Sweep

LEMMA ContinueTop ==
  ASSUME Stacks, NEW t \in Threads, stack[t] # <<>>, NEW f \in Frame, Continue(t, f)
  PROVE  /\ stack'[t] # <<>> /\ Top(t)' = f
         /\ \A u \in Threads \ {t} : stack'[u] = stack[u]
<1>1. /\ Stacks' /\ Len(stack[t]) \in Nat \ {0} /\ Len(stack'[t]) = Len(stack[t])
      /\ stack'[t][Len(stack[t])] = f
      /\ \A u \in Threads \ {t} : stack'[u] = stack[u]
  BY ContinueStack
<1>2. stack'[t] # <<>>
  BY <1>1, EmptySeq
<1> QED
  BY <1>1, <1>2 DEF Top, Last

LEMMA PopTop ==
  ASSUME Stacks, Below, NEW t \in Threads, stack[t] # <<>>, Pop(t)
  PROVE  /\ stack'[t] # <<>> => Top(t)'.op = "fire"
         /\ \A u \in Threads \ {t} : stack'[u] = stack[u]
<1>1. /\ Stacks' /\ Len(stack[t]) \in Nat \ {0} /\ Len(stack'[t]) = Len(stack[t]) - 1
      /\ \A i \in 1..(Len(stack[t]) - 1) : stack'[t][i] = stack[t][i]
      /\ \A u \in Threads \ {t} : stack'[u] = stack[u]
  BY PopStack
<1>2. ASSUME stack'[t] # <<>> PROVE Top(t)'.op = "fire"
  <2>1. Len(stack'[t]) # 0
    <3>1. stack'[t] \in Seq(Frame)
      BY <1>1 DEF Stacks
    <3> QED
      BY <1>2, <3>1
  <2> DEFINE m == Len(stack'[t])
  <2>2. m \in 1..Len(stack[t]) /\ m \in 1..(Len(stack[t]) - 1) /\ m # Len(stack[t])
    <3>1. \A x \in Nat \ {0} : x - 1 # 0 => x - 1 \in 1..x /\ x - 1 \in 1..(x - 1) /\ x - 1 # x
      OBVIOUS
    <3>2. Len(stack[t]) \in Nat \ {0} /\ Len(stack'[t]) = Len(stack[t]) - 1
      BY <1>1
    <3> QED
      BY <2>1, <3>1, <3>2
  <2>3. Top(t)' = stack[t][m]
    BY <1>1, <2>2 DEF Top, Last
  <2> QED
    BY <2>2, <2>3 DEF Below
<1> QED
  BY <1>1, <1>2

LEMMA PushTop ==
  ASSUME Stacks, NEW t \in Threads, NEW f \in Frame, Push(t, f)
  PROVE  /\ stack'[t] # <<>> /\ Top(t)' = f
         /\ \A u \in Threads \ {t} : stack'[u] = stack[u]
<1>1. /\ Stacks' /\ Len(stack[t]) \in Nat /\ Len(stack'[t]) = Len(stack[t]) + 1
      /\ stack'[t][Len(stack[t]) + 1] = f
      /\ \A u \in Threads \ {t} : stack'[u] = stack[u]
  BY PushStack
<1>2. stack'[t] # <<>>
  <2>1. stack'[t] \in Seq(Frame)
    BY <1>1 DEF Stacks
  <2>2. Len(stack'[t]) # 0
    BY <1>1
  <2> QED
    BY <2>1, <2>2
<1> QED
  BY <1>1, <1>2 DEF Top, Last

\* After the last step of a call the ends must agree.
LEMMA HalfPops ==
  ASSUME Stacks, Below, NEW t \in Threads, stack[t] # <<>>, Pop(t), NEW k \in MemberSlots, t = Keeper[k],
         Listings(Home[k], k)' = Listings(Owner[k], k)'
  PROVE  Halfway(k)'
<1>1. stack'[t] # <<>> => Top(t)'.op = "fire"
  BY PopTop
<1> DEFINE f == Top(t)'
           ns == Listings(Home[k], k)'
           nf == Listings(Owner[k], k)'
<1>2. CASE stack'[t] = <<>>
  BY <1>2 DEF Halfway
<1>3. CASE stack'[t] # <<>>
  <2>1. Half(f, k, ns, nf)
    <3>1. f.op = "fire" /\ ns = nf
      BY <1>1, <1>3
    <3> HIDE DEF f, ns, nf
    <3> QED
      BY <3>1, HalfOfFire
  <2>2. Half(Top(t), k, Listings(Home[k], k), Listings(Owner[k], k))'
    BY <2>1 DEF Half, Sweeping, Swept
  <2> QED
    BY <1>3, <2>2 DEF Halfway
<1> QED
  BY <1>2, <1>3

\* After another step they must agree as the new frame says.
LEMMA HalfContinues ==
  ASSUME Stacks, NEW t \in Threads, stack[t] # <<>>, NEW f \in Frame, Continue(t, f),
         NEW k \in MemberSlots, t = Keeper[k],
         Half(f, k, Listings(Home[k], k)', Listings(Owner[k], k)')
  PROVE  Halfway(k)'
<1>1. stack'[t] # <<>> /\ Top(t)' = f
  BY ContinueTop
<1>2. Half(Top(t), k, Listings(Home[k], k), Listings(Owner[k], k))'
  BY <1>1 DEF Half, Sweeping, Swept
<1> QED
  BY <1>1, <1>2 DEF Halfway

\* Nobody else's step is about the slot.
LEMMA OthersLeave ==
  ASSUME Discipline, Always, HomeEntries, NEW k \in MemberSlots, Halfway(k),
         NEW t \in Threads, Step(t), t # Keeper[k]
  PROVE  Halfway(k)'
<1>0. Typed /\ Stacks /\ Below
  BY TypedParts DEF Always, LockInv, Frames
<1>1. ~About(t, k)
  BY AboutKept
<1>2. Home[k] \in Ends(Home, k) /\ Owner[k] \in Ends(Home, k) /\ Keeper[k] \in Threads
  BY EndsOK DEF Ends
<1>3. /\ Listings(Home[k], k)' = Listings(Home[k], k)
      /\ Listings(Owner[k], k)' = Listings(Owner[k], k)
  BY <1>0, <1>1, <1>2, StepLeaves DEF Listings
<1>4. stack[t] # <<>> /\ (Returns(t) \/ \E f : Goes(t, f))
  BY <1>0, StepGoes
<1>5. stack'[Keeper[k]] = stack[Keeper[k]]
  <2>1. \A u \in Threads \ {t} : stack'[u] = stack[u]
    BY <1>0, <1>4, PopTop, ContinueTop DEF Returns, Goes
  <2> QED
    BY <1>2, <2>1
<1>6. Top(Keeper[k])' = Top(Keeper[k])
  BY <1>5 DEF Top
<1> QED
  BY <1>3, <1>5, <1>6 DEF Halfway, Half, Sweeping, Swept

\* What the two halves of an edit do at the ends of their slot.
LEMMA EditCounts ==
  ASSUME Discipline, Typed, NEW t \in Threads, InsertHalf(t) \/ RemoveHalf(t),
         NEW k \in MemberSlots, Top(t).slot = k, NEW o \in Ends(Home, k)
  PROVE  Listings(o, k)' = IF o # Edited(Top(t)) THEN Listings(o, k)
                           ELSE IF Top(t).op = "connect" THEN Listings(o, k) + 1 ELSE 0
<1> DEFINE f == Top(t)
           x == Edited(f)
           s == connections[x]
<1>1. /\ stack[t] # <<>> /\ f.op = IF InsertHalf(t) THEN "connect" ELSE "disconnect"
      /\ f.slot \in Slots /\ x \in Objects /\ Remembered(f) \in Objects
  BY InsertTop
<1>2. o \in Objects
  BY EndsOK
<1>3. connections \in [Objects -> Seq(Connection)] /\ s \in Seq(Connection) /\ InOrder(s)
  BY <1>1, TypedParts, VectorsInOrder DEF Vectors
<1>4. CASE InsertHalf(t)
  <2>1. connections' = [connections EXCEPT ![x] = Inserted(s, f.slot, Remembered(f))]
    BY <1>4 DEF InsertHalf
  <2> HIDE DEF f, x
  <2>2. connections'[o] = IF o = x THEN Inserted(s, f.slot, Remembered(f)) ELSE connections[o]
    BY <1>2, <1>3, <2>1
  <2>3. Num(Inserted(s, f.slot, Remembered(f)), f.slot) = Num(s, f.slot) + 1
    BY <1>1, <1>3, NumInserted
  <2>4. f.op = "connect" /\ f.slot = k
    BY <1>1, <1>4 DEF f
  <2> QED
    BY <2>2, <2>3, <2>4 DEF Listings, f, x
<1>5. CASE ~InsertHalf(t) /\ RemoveHalf(t)
  <2>1. connections' = [connections EXCEPT ![x] = Removed(s, f.slot)]
    BY <1>5 DEF RemoveHalf
  <2> HIDE DEF f, x
  <2>2. connections'[o] = IF o = x THEN Removed(s, f.slot) ELSE connections[o]
    BY <1>2, <1>3, <2>1
  <2>3. Num(Removed(s, f.slot), f.slot) = 0
    BY <1>1, <1>3, NumRemoved
  <2>4. f.op # "connect" /\ f.slot = k
    BY <1>1, <1>5 DEF f
  <2> QED
    BY <2>2, <2>3, <2>4 DEF Listings, f, x
<1> QED
  BY <1>4, <1>5

LEMMA EditHalves ==
  ASSUME Discipline, Always, NEW k \in MemberSlots, Halfway(k),
         NEW t \in Threads, t = Keeper[k], InsertHalf(t) \/ RemoveHalf(t)
  PROVE  Halfway(k)'
<1> DEFINE f == Top(t)
           h == [f EXCEPT !.pc = "peer"]
           ns == Listings(Home[k], k)
           nf == Listings(Owner[k], k)
<1>0. Typed /\ Stacks /\ Below /\ Step(t)
  BY TypedParts DEF Always, LockInv, Frames, Step
<1>1. /\ stack[t] # <<>> /\ f \in Frame /\ f.op \in {"connect", "disconnect"}
      /\ f.pc \in {"self", "peer"} /\ f.obj \in Signals
  BY <1>0, InsertTop
<1>2. Half(f, k, ns, nf)
  BY <1>1 DEF Halfway
<1>3. f.slot = k => f.obj = Home[k]
  <2>1. Obeys(t, f, Len(stack[t]) # 1)
    BY <1>1, TopObeys
  <2> QED
    BY <1>1, <2>1 DEF Obeys
<1>4. HalfDone(t)
  BY DEF InsertHalf, RemoveHalf
<1>5. Home[k] \in Ends(Home, k) /\ Owner[k] \in Ends(Home, k) /\ Home[k] # Owner[k]
  BY EndsOK
<1>6. ns \in Nat /\ nf \in Nat
  BY <1>0, EndsOK, ListingsOK
<1>7. /\ h \in Frame /\ h.pc = "peer" /\ h.op = f.op /\ h.slot = f.slot
  <2>1. "peer" \in PCs
    BY DEF PCs
  <2> QED
    BY <1>1, <2>1, GotoFrame
<1>8. f.op \notin Sweep
  BY <1>1 DEF Sweep
<1>9. Goto(t, "peer") => Continue(t, h)
  BY DEF Goto
<1>10. CASE f.slot # k
  <2>1. ~About(t, k)
    <3>1. f.op = "connect" \/ f.op = "disconnect"
      BY <1>1
    <3>2. ~RemovePeer(t) /\ ~EndSweep(t)
      BY <1>0, <1>8, PeerTop, AtTop DEF EndSweep
    <3> QED
      BY <1>10, <3>2 DEF About
  <2>2. ns' = ns /\ nf' = nf
    BY <1>0, <1>5, <2>1, StepLeaves DEF Listings
  <2>3. ns = nf
    BY <1>2, <1>8, <1>10 DEF Half, Sweeping
  <2>4. Half(h, k, ns', nf')
    <3>1. h.slot # k /\ h.op \notin Sweep /\ ns' = nf'
      BY <1>7, <1>8, <1>10, <2>2, <2>3
    <3> HIDE DEF h, ns, nf
    <3> QED
      BY <3>1 DEF Half, Sweeping
  <2>5. CASE Pop(t)
    BY <1>0, <1>1, <2>2, <2>3, <2>5, HalfPops
  <2>6. CASE Goto(t, "peer")
    <3>1. Continue(t, h)
      BY <1>9, <2>6
    <3> HIDE DEF h
    <3> QED
      BY <1>0, <1>1, <1>7, <2>4, <3>1, HalfContinues
  <2> QED
    BY <1>4, <2>5, <2>6 DEF HalfDone
<1>11. CASE f.slot = k /\ f.pc = "self"
  <2>1. Edited(f) = Home[k]
    BY <1>3, <1>11 DEF Edited
  <2>2. nf' = nf /\ ns' = IF f.op = "connect" THEN ns + 1 ELSE 0
    BY <1>0, <1>5, <1>11, <2>1, EditCounts
  <2>3. ns = nf
    BY <1>2, <1>8, <1>11 DEF Half, Sweeping
  <2>4. Half(h, k, ns', nf')
    <3>1. /\ h.op \in {"connect", "disconnect"} /\ h.pc = "peer" /\ h.slot = k
          /\ ns' = IF h.op = "connect" THEN nf' + 1 ELSE 0
      BY <1>1, <1>7, <1>11, <2>2, <2>3
    <3> HIDE DEF h, ns, nf
    <3> QED
      BY <3>1 DEF Half
  <2>5. Continue(t, h)
    BY <1>4, <1>9, <1>11 DEF HalfDone
  <2> HIDE DEF h
  <2> QED
    BY <1>0, <1>1, <1>7, <2>4, <2>5, HalfContinues
<1>12. CASE f.slot = k /\ f.pc = "peer"
  <2>1. Edited(f) = Owner[k]
    BY <1>12 DEF Edited
  <2>2. ns' = ns /\ nf' = IF f.op = "connect" THEN nf + 1 ELSE 0
    BY <1>0, <1>5, <1>12, <2>1, EditCounts
  <2>3. IF f.op = "connect" THEN ns = nf + 1 ELSE ns = 0
    BY <1>1, <1>2, <1>12 DEF Half
  <2>4. Pop(t)
    BY <1>4, <1>12 DEF HalfDone
  <2>5. ns' = nf'
    BY <2>2, <2>3
  <2> QED
    BY <1>0, <1>1, <2>4, <2>5, HalfPops
<1> QED
  BY <1>1, <1>10, <1>11, <1>12

\* Steps that keep the vectors, between frames that need the ends to agree.
LEMMA EvenHalves ==
  ASSUME Stacks, Below, NEW t \in Threads, stack[t] # <<>>, connections' = connections,
         NEW k \in MemberSlots, t = Keeper[k], Halfway(k), Top(t).op # "connect", Top(t).op # "disconnect",
         ~Sweeping(Top(t)),
         \/ Pop(t)
         \/ \E f \in Frame : Continue(t, f) /\ f.op = Top(t).op /\ (Sweeping(f) => ~Swept(f, k))
  PROVE  Halfway(k)'
<1> DEFINE g == Top(t)
           ns == Listings(Home[k], k)
           nf == Listings(Owner[k], k)
<1>1. Half(g, k, ns, nf)
  BY DEF Halfway
<1>2. ns = nf
  BY <1>1 DEF Half
<1>3. ns' = ns /\ nf' = nf
  BY DEF Listings
<1>4. CASE Pop(t)
  BY <1>2, <1>3, <1>4, HalfPops
<1>5. CASE \E f \in Frame : Continue(t, f) /\ f.op = Top(t).op /\ (Sweeping(f) => ~Swept(f, k))
  <2>1. PICK f \in Frame : Continue(t, f) /\ f.op = Top(t).op /\ (Sweeping(f) => ~Swept(f, k))
    BY <1>5
  <2>2. Half(f, k, ns', nf')
    <3>1. ns' = nf' /\ f.op # "connect" /\ f.op # "disconnect"
      BY <1>2, <1>3, <2>1
    <3> HIDE DEF ns, nf
    <3> QED
      BY <2>1, <3>1 DEF Half
  <2> QED
    BY <2>1, <2>2, HalfContinues
<1> QED
  BY <1>4, <1>5

\* A sweep never skips a connection of a member slot: its peer is alive, or
\* its keeper would be destroying it and not be in this sweep.
LEMMA PeerVisited ==
  ASSUME Discipline, Always, HomeEntries, DeadEmpty, NEW t \in Threads, SkipPeer(t)
  PROVE  Current(Top(t)).slot \notin MemberSlots
<1> DEFINE g == Top(t)
           e == Current(g)
           k == e.slot
           n == Len(stack[t])
<1> SUFFICES ASSUME k \in MemberSlots PROVE FALSE
  OBVIOUS
<1>0. Typed /\ Stacks
  BY TypedParts DEF Always, LockInv
<1>1. stack[t] # <<>> /\ g.op \in Sweep /\ g.pc = "loop" /\ ~AtEnd(g) /\ ~Visiting(g.obj, e.obs)
  BY <1>0, AtTop DEF SkipPeer
<1>2. Sweeping(g)
  BY <1>1 DEF Sweeping
<1>3. /\ g.idx \in 1..Len(connections[g.obj]) /\ connections[g.obj][g.idx].slot = k
      /\ e.obs \in Objects
      /\ (g.obj = Home[k] /\ e.obs = Owner[k]) \/ (g.obj = Owner[k] /\ e.obs = Home[k])
  BY <1>1, <1>2, PeerIsEnd
<1>4. /\ e.obs # g.obj /\ e.obs \in Ends(Home, k) /\ g.obj \in Ends(Home, k) /\ g.obj \in Objects
  BY <1>3, EndsOK DEF Ends
<1>5. ~Lockable(e.obs)
  BY <1>1, <1>4 DEF Visiting
<1>6. life[e.obs] # "alive"
  BY <1>5 DEF Lockable
<1>7. life[e.obs] # "dead"
  <2>1. Listings(g.obj, k) # 0
    BY <1>0, <1>3, <1>4, ListingsOK
  <2>2. g.obj = Home[k] \/ g.obj = Owner[k]
    BY <1>3
  <2> QED
    BY <1>4, <2>1, <2>2 DEF DeadEmpty
<1>8. PICK u \in Threads : \E i \in 1..Len(stack[u]) : stack[u][i].op = "destroy" /\ stack[u][i].obj = e.obs
  BY <1>3, <1>6, <1>7 DEF Always, Frames, UnderDestruction
<1>9. PICK i \in 1..Len(stack[u]) : stack[u][i].op = "destroy" /\ stack[u][i].obj = e.obs
  BY <1>8
<1>10. u = Keeper[k]
  <2>1. Obeys(u, stack[u][i], i # 1)
    BY FramesObey DEF Always, Frames
  <2> QED
    BY <1>4, <1>9, <2>1 DEF Obeys, Sweep
<1>11. t = Keeper[k] /\ g = stack[t][n]
  <2>1. Obeys(t, g, n # 1) /\ g = stack[t][n]
    BY <1>1, TopObeys
  <2> QED
    BY <1>1, <1>4, <2>1 DEF Obeys
<1>12. i = n
  BY <1>9, <1>10, <1>11 DEF Always, Frames, Below
<1> QED
  BY <1>4, <1>9, <1>10, <1>11, <1>12

\* The loop goes past a connection.
LEMMA SweptNext ==
  ASSUME NEW g \in Frame, FrameOK(g), ~AtEnd(g), NEW h, h.list = g.list, h.idx = g.idx + 1, NEW k
  PROVE  Swept(h, k) <=> Swept(g, k) \/ Current(g).slot = k
<1>1. g.idx \in Nat /\ g.idx # 0 /\ Len(g.list) \in Nat
  BY DEF FrameOK, Frame
<1>2. g.idx \in 1..Len(g.list)
  BY <1>1 DEF AtEnd
<1>3. \A j \in 1..Len(g.list) : j < g.idx + 1 <=> j < g.idx \/ j = g.idx
  BY <1>1
<1> QED
  BY <1>2, <1>3 DEF Swept, Current

LEMMA SkipHalves ==
  ASSUME Discipline, Always, HomeEntries, DeadEmpty, NEW k \in MemberSlots, Halfway(k),
         NEW t \in Threads, t = Keeper[k], SkipPeer(t) \/ VisitPeer(t)
  PROVE  Halfway(k)'
<1> DEFINE g == Top(t)
           ns == Listings(Home[k], k)
           nf == Listings(Owner[k], k)
<1>0. Typed /\ Stacks
  BY TypedParts DEF Always, LockInv
<1>1. /\ stack[t] # <<>> /\ g.op \in Sweep /\ g.pc = "loop" /\ ~AtEnd(g)
      /\ g \in Frame /\ FrameOK(g) /\ ns' = ns /\ nf' = nf
  BY <1>0, AtTop DEF SkipPeer, VisitPeer, Listings
<1>2. Half(g, k, ns, nf)
  BY <1>1 DEF Halfway
<1>3. ASSUME NEW h \in Frame, Continue(t, h), h.op = g.op, h.obj = g.obj, h.pc \in {"loop", "peer"},
             Swept(h, k) <=> Swept(g, k)
      PROVE  Halfway(k)'
  <2>1. g.op \notin {"connect", "disconnect"} /\ Sweeping(g) /\ Sweeping(h)
    BY <1>1, <1>3 DEF Sweeping, Sweep
  <2>2. Half(h, k, ns, nf)
    BY <1>2, <1>3, <2>1 DEF Half
  <2>3. Half(h, k, ns', nf')
    BY <1>1, <2>2
  <2> QED
    BY <1>0, <1>1, <1>3, <2>3, HalfContinues
<1>4. CASE VisitPeer(t)
  <2> DEFINE h == [g EXCEPT !.pc = "peer"]
  <2>1. h \in Frame /\ h.pc = "peer" /\ h.op = g.op /\ h.obj = g.obj /\ h.list = g.list /\ h.idx = g.idx
    <3>1. "peer" \in PCs
      BY DEF PCs
    <3> QED
      BY <1>1, <3>1, GotoFrame
  <2>2. Continue(t, h)
    BY <1>4 DEF VisitPeer, Goto
  <2> HIDE DEF h, g
  <2>3. Swept(h, k) <=> Swept(g, k)
    BY <2>1 DEF Swept
  <2> QED
    BY <1>3, <2>1, <2>2, <2>3
<1>5. CASE SkipPeer(t)
  <2> DEFINE h == [g EXCEPT !.pc = "loop", !.idx = @ + 1]
  <2>1. h \in Frame /\ h.pc = "loop" /\ h.op = g.op /\ h.obj = g.obj /\ h.list = g.list /\ h.idx = g.idx + 1
    BY <1>1, NextFrame
  <2>2. Continue(t, h)
    BY <1>5 DEF SkipPeer, NextConnection
  <2>3. Current(g).slot # k
    BY <1>5, PeerVisited
  <2> HIDE DEF h, g
  <2>4. Swept(h, k) <=> Swept(g, k)
    BY <1>1, <2>1, <2>3, SweptNext DEF g
  <2> QED
    BY <1>3, <2>1, <2>2, <2>4
<1> QED
  BY <1>4, <1>5

LEMMA RemoveHalves ==
  ASSUME Discipline, Always, HomeEntries, NEW k \in MemberSlots, Halfway(k),
         NEW t \in Threads, t = Keeper[k], RemovePeer(t)
  PROVE  Halfway(k)'
<1> DEFINE g == Top(t)
           e == Current(g)
           h == [g EXCEPT !.pc = "loop", !.idx = @ + 1]
           ns == Listings(Home[k], k)
           nf == Listings(Owner[k], k)
<1>0. Typed /\ Stacks /\ Step(t)
  BY TypedParts DEF Always, LockInv, Step
<1>1. /\ stack[t] # <<>> /\ g.op \in Sweep /\ g.pc = "peer" /\ ~AtEnd(g) /\ Sweeping(g)
      /\ g \in Frame /\ FrameOK(g) /\ e.slot \in Slots /\ e.obs \in Objects
  BY <1>0, PeerTop, PeerSweeps
<1>2. Half(g, k, ns, nf)
  BY <1>1 DEF Halfway
<1>3. h \in Frame /\ h.pc = "loop" /\ h.op = g.op /\ h.obj = g.obj /\ h.list = g.list /\ h.idx = g.idx + 1
  BY <1>1, NextFrame
<1>4. Continue(t, h)
  BY DEF RemovePeer, NextConnection
<1>5. Swept(h, k) <=> Swept(g, k) \/ e.slot = k
  <2> HIDE DEF h
  <2> QED
    BY <1>1, <1>3, SweptNext
<1>6. g.op \notin {"connect", "disconnect"}
  BY <1>1 DEF Sweep
<1>7. Home[k] \in Ends(Home, k) /\ Owner[k] \in Ends(Home, k) /\ Home[k] # Owner[k]
  BY EndsOK
<1> HIDE DEF h
<1>8. Sweeping(h)
  BY <1>1, <1>3 DEF Sweeping
<1>9. CASE e.slot # k
  <2>1. ~About(t, k)
    <3>1. ~InsertHalf(t) /\ ~RemoveHalf(t)
      BY <1>0, <1>6, InsertTop
    <3>2. ~EndSweep(t)
      BY <1>0, <1>1, AtTop DEF EndSweep
    <3> QED
      BY <1>9, <3>1, <3>2 DEF About
  <2>2. ns' = ns /\ nf' = nf
    BY <1>0, <1>7, <2>1, StepLeaves DEF Listings
  <2>3. Half(h, k, ns, nf)
    BY <1>1, <1>2, <1>3, <1>5, <1>6, <1>8, <1>9 DEF Half
  <2>4. Half(h, k, ns', nf')
    BY <2>2, <2>3
  <2> QED
    BY <1>0, <1>1, <1>3, <1>4, <2>4, HalfContinues
<1>10. CASE e.slot = k
  <2>1. (g.obj = Home[k] /\ e.obs = Owner[k]) \/ (g.obj = Owner[k] /\ e.obs = Home[k])
    BY <1>1, <1>10, PeerIsEnd
  <2>2. (e.obs = Home[k] => ns' = 0) /\ (e.obs = Owner[k] => nf' = 0)
    <3>1. /\ connections \in [Objects -> Seq(Connection)] /\ connections[e.obs] \in Seq(Connection)
          /\ InOrder(connections[e.obs])
      BY <1>0, <1>1, TypedParts, VectorsInOrder DEF Vectors
    <3>2. connections' = [connections EXCEPT ![e.obs] = Removed(connections[e.obs], e.slot)]
      BY DEF RemovePeer
    <3> HIDE DEF e
    <3>3. connections'[e.obs] = Removed(connections[e.obs], k)
      BY <1>1, <1>10, <3>1, <3>2
    <3>4. Num(connections'[e.obs], k) = 0
      BY <1>1, <1>10, <3>1, <3>3, NumRemoved
    <3> QED
      BY <3>4 DEF Listings
  <2>3. Half(h, k, ns', nf')
    BY <1>3, <1>5, <1>6, <1>7, <1>8, <1>10, <2>1, <2>2 DEF Half, Ends
  <2> QED
    BY <1>0, <1>1, <1>3, <1>4, <2>3, HalfContinues
<1> QED
  BY <1>9, <1>10

\* The end of a sweep finds the other end swept too.
LEMMA EndSweeps ==
  ASSUME Discipline, Always, HomeEntries, NEW k \in MemberSlots, Halfway(k),
         NEW t \in Threads, t = Keeper[k], EndSweep(t)
  PROVE  /\ Halfway(k)'
         /\ Top(t).obj \in Ends(Home, k) => Listings(Home[k], k)' = 0 /\ Listings(Owner[k], k)' = 0
<1> DEFINE g == Top(t)
           o == g.obj
           ns == Listings(Home[k], k)
           nf == Listings(Owner[k], k)
<1>0. Typed /\ Stacks /\ Below /\ Step(t)
  BY TypedParts DEF Always, LockInv, Frames, Step
<1>1. /\ stack[t] # <<>> /\ g.op \in Sweep /\ g.pc = "loop" /\ AtEnd(g) /\ Pop(t)
      /\ g \in Frame /\ FrameOK(g) /\ o \in Objects
  BY <1>0, AtTop DEF EndSweep
<1>2. Half(g, k, ns, nf)
  BY <1>1 DEF Halfway
<1>3. g.op \notin {"connect", "disconnect"} /\ Sweeping(g)
  BY <1>1 DEF Sweep, Sweeping
<1>4. Home[k] \in Ends(Home, k) /\ Owner[k] \in Ends(Home, k) /\ Home[k] # Owner[k]
      /\ Home[k] \in Objects /\ Owner[k] \in Objects
  BY EndsOK
<1>5. CASE o \notin Ends(Home, k)
  <2>1. ~About(t, k)
    <3>1. ~InsertHalf(t) /\ ~RemoveHalf(t) /\ ~RemovePeer(t)
      BY <1>0, <1>1, <1>3, InsertTop, PeerTop
    <3> QED
      BY <1>5, <3>1 DEF About
  <2>2. ns' = ns /\ nf' = nf
    BY <1>0, <1>4, <2>1, StepLeaves DEF Listings
  <2>3. ns = nf
    BY <1>2, <1>3, <1>5 DEF Half
  <2> QED
    BY <1>0, <1>1, <1>5, <2>2, <2>3, HalfPops
<1>6. CASE o \in Ends(Home, k)
  <2>1. /\ connections' = [connections EXCEPT ![o] = <<>>]
        /\ connections \in [Objects -> Seq(Connection)]
    BY <1>0, TypedParts DEF EndSweep, Vectors
  <2>2. \A x \in Ends(Home, k) : connections'[x] = IF x = o THEN <<>> ELSE connections[x]
    BY <1>4, <2>1 DEF Ends
  <2>3. Num(<<>>, k) = 0
    <3>1. <<>> \in Seq(Connection) /\ 1..Len(<<>>) = {}
      OBVIOUS
    <3> QED
      BY <3>1, NumOK
  <2>4. ns' = (IF Home[k] = o THEN 0 ELSE ns) /\ nf' = (IF Owner[k] = o THEN 0 ELSE nf)
    BY <1>4, <2>2, <2>3 DEF Listings
  <2>5. o = Home[k] \/ o = Owner[k]
    BY <1>6 DEF Ends
  <2>6. (o = Home[k] => nf = 0) /\ (o = Owner[k] => ns = 0)
    <3>1. CASE Swept(g, k)
      BY <1>2, <1>3, <1>4, <1>6, <3>1 DEF Half
    <3>2. CASE ~Swept(g, k)
      <4>1. ns = nf
        BY <1>2, <1>3, <3>2 DEF Half
      <4>2. connections[o] = g.list
        <5>1. g = stack[t][Len(stack[t])] /\ Len(stack[t]) \in 1..Len(stack[t])
          BY <1>1, TopObeys
        <5> QED
          BY <1>3, <5>1 DEF Always, SweepStable
      <4>3. \A j \in 1..Len(g.list) : j < g.idx
        BY <1>1 DEF AtEnd, Frame
      <4>4. \A j \in 1..Len(connections[o]) : connections[o][j].slot # k
        BY <3>2, <4>2, <4>3 DEF Swept
      <4>5. Listings(o, k) = 0
        BY <1>0, <1>1, <4>4, ListingsOK
      <4> QED
        BY <2>5, <4>1, <4>5
    <3> QED
      BY <3>1, <3>2
  <2>7. ns' = 0 /\ nf' = 0
    BY <1>4, <2>4, <2>5, <2>6
  <2> QED
    BY <1>0, <1>1, <2>7, HalfPops
<1> QED
  BY <1>5, <1>6

LEMMA KeeperHalves ==
  ASSUME Discipline, Always, HomeEntries, DeadEmpty, NEW k \in MemberSlots, Halfway(k),
         NEW t \in Threads, t = Keeper[k], Step(t)
  PROVE  Halfway(k)'
<1> DEFINE g == Top(t)
<1>0. Typed /\ Stacks /\ Below
  BY TypedParts DEF Always, LockInv, Frames
<1>1. CASE InsertHalf(t) \/ RemoveHalf(t)
  BY <1>1, EditHalves
<1>2. CASE SkipPeer(t) \/ VisitPeer(t)
  BY <1>2, SkipHalves
<1>3. CASE RemovePeer(t)
  BY <1>3, RemoveHalves
<1>4. CASE EndSweep(t)
  BY <1>4, EndSweeps
<1>5. CASE StartEmission(t) \/ CallSlot(t) \/ SkipSlot(t) \/ SlotReturns(t) \/ EndEmission(t)
  <2>1. stack[t] # <<>> /\ g.op = "fire" /\ connections' = connections
    BY <1>0, <1>5, AtTop DEF StartEmission, CallSlot, SkipSlot, SlotReturns, EndEmission,
                   EmissionOver
  <2>2. ~Sweeping(g)
    BY <2>1 DEF Sweeping, Sweep
  <2>3. Returns(t) \/ \E f : Goes(t, f)
    BY <1>0, StepGoes
  <2>4. Pop(t) \/ \E f \in Frame : Continue(t, f) /\ f.op = Top(t).op /\ (Sweeping(f) => ~Swept(f, k))
    <3>1. ASSUME NEW f, Goes(t, f)
          PROVE  f \in Frame /\ Continue(t, f) /\ f.op = g.op /\ ~Sweeping(f)
      BY <2>1, <3>1 DEF Goes, Sweeping, Sweep
    <3> QED
      BY <2>3, <3>1 DEF Returns
  <2> QED
    BY <1>0, <2>1, <2>2, <2>4, EvenHalves
<1>6. CASE ResetTracker(t) \/ Drained(t)
  <2>1. stack[t] # <<>> /\ g.op = "destroy" /\ g.pc \in {"reset", "drain"} /\ connections' = connections
        /\ g \in Frame
    BY <1>0, <1>6, AtTop DEF ResetTracker, Drained
  <2>2. ~Sweeping(g)
    BY <2>1 DEF Sweeping
  <2>3. PICK pc \in {"drain", "lock"} : Goto(t, pc)
    BY <1>6 DEF ResetTracker, Drained
  <2> DEFINE f == [g EXCEPT !.pc = pc]
  <2>4. f \in Frame /\ f.op = g.op /\ f.pc = pc
    <3>1. pc \in PCs
      BY DEF PCs
    <3> QED
      BY <2>1, <3>1, GotoFrame
  <2>5. Continue(t, f)
    BY <2>3 DEF Goto
  <2> HIDE DEF f
  <2>6. ~Sweeping(f)
    BY <2>4 DEF Sweeping
  <2> QED
    BY <1>0, <2>1, <2>2, <2>4, <2>5, <2>6, EvenHalves
<1>7. CASE StartSweep(t)
  <2>1. stack[t] # <<>> /\ g.op \in Sweep /\ g.pc = "lock" /\ connections' = connections
        /\ g \in Frame /\ g.obj \in Objects
    BY <1>0, <1>7, AtTop DEF StartSweep
  <2>2. ~Sweeping(g) /\ g.op # "connect" /\ g.op # "disconnect"
    BY <2>1 DEF Sweeping, Sweep
  <2>3. g.idx = 1
    <3>1. g = stack[t][Len(stack[t])] /\ Len(stack[t]) \in 1..Len(stack[t])
      BY <2>1, TopObeys
    <3> QED
      BY <2>1, <3>1 DEF Always, Frames, FromTheFirst, Waiting
  <2> DEFINE f == [g EXCEPT !.pc = "loop", !.list = connections[g.obj]]
  <2>4. f \in Frame /\ f.op = g.op /\ f.idx = 1 /\ f.list \in Seq(Connection)
    <3>1. connections[g.obj] \in Seq(Connection)
      BY <1>0, <2>1, TypedParts, VectorsInOrder
    <3> DEFINE v == connections[g.obj]
    <3>2. v \in Seq(Connection) /\ f = [g EXCEPT !.pc = "loop", !.list = v]
      BY <3>1
    <3> HIDE DEF v, f
    <3>3. f \in Frame /\ f.op = g.op /\ f.idx = g.idx /\ f.list = v
      BY <2>1, <3>2, StartFrame
    <3> QED
      BY <2>3, <3>2, <3>3
  <2>5. Continue(t, f)
    BY <1>7 DEF StartSweep
  <2> HIDE DEF f
  <2>6. ~Swept(f, k)
    BY <2>4 DEF Swept
  <2> QED
    BY <1>0, <2>1, <2>2, <2>4, <2>5, <2>6, EvenHalves
<1> QED
  BY <1>1, <1>2, <1>3, <1>4, <1>5, <1>6, <1>7 DEF Step

LEMMA BeginHalves ==
  ASSUME Discipline, Always, NEW k \in MemberSlots, Halfway(k), NEW t \in Threads, NEW c, Calls(t, c)
  PROVE  Halfway(k)'
<1> DEFINE f == FirstFrame(c)
           ns == Listings(Home[k], k)
           nf == Listings(Owner[k], k)
<1>1. f \in Frame /\ Push(t, f) /\ f.pc \in {"self", "lock", "reset"}
  BY FirstFrameOK
<1>2. Stacks /\ connections' = connections
  BY TypedParts DEF Always, LockInv, Calls, Begin
<1> HIDE DEF f
<1>3. ns' = ns /\ nf' = nf
  BY <1>2 DEF Listings
<1>4. /\ stack'[t] # <<>> /\ Top(t)' = f
      /\ \A u \in Threads \ {t} : stack'[u] = stack[u]
  BY <1>1, <1>2, PushTop
<1>5. CASE t = Keeper[k]
  <2>1. ns = nf
    <3>1. CASE stack[t] = <<>>
      BY <1>5, <3>1 DEF Halfway
    <3>2. CASE stack[t] # <<>>
      <4>1. Half(Top(t), k, ns, nf) /\ Top(t).op = "fire"
        BY <1>5, <3>2 DEF Halfway, Calls
      <4> HIDE DEF ns, nf
      <4> QED
        BY <4>1, HalfOfFire
    <3> QED
      BY <3>1, <3>2
  <2>2. f.pc \notin {"peer", "loop"}
    BY <1>1
  <2>3. Half(f, k, ns', nf')
    BY <1>3, <2>1, <2>2 DEF Half, Sweeping
  <2>4. Half(Top(t), k, ns, nf)'
    BY <1>4, <2>3 DEF Half, Sweeping, Swept
  <2> QED
    BY <1>4, <1>5, <2>4 DEF Halfway
<1>6. CASE t # Keeper[k]
  <2>1. stack'[Keeper[k]] = stack[Keeper[k]]
    BY <1>4, <1>6, EndsOK
  <2>2. Top(Keeper[k])' = Top(Keeper[k])
    BY <2>1 DEF Top
  <2> QED
    BY <1>3, <2>1, <2>2 DEF Halfway, Half, Sweeping, Swept
<1> QED
  BY <1>5, <1>6

\* Nobody lists a slot of a dead object again.
LEMMA StepDeadEmpty ==
  ASSUME Discipline, Always, HomeEntries, Halves, DeadEmpty, NEW t \in Threads, Step(t)
  PROVE  DeadEmpty'
<1> SUFFICES ASSUME NEW k \in MemberSlots, NEW o \in Ends(Home, k), life'[o] = "dead"
             PROVE  Listings(Home[k], k)' = 0 /\ Listings(Owner[k], k)' = 0
  BY DEF DeadEmpty
<1> DEFINE g == Top(t)
           ns == Listings(Home[k], k)
           nf == Listings(Owner[k], k)
<1>0. Typed /\ stack[t] # <<>>
  BY StepGoes DEF Always, LockInv
<1>1. Home[k] \in Ends(Home, k) /\ Owner[k] \in Ends(Home, k) /\ o \in Objects
  BY EndsOK
<1>2. CASE life[o] = "dead"
  <2>1. ns = 0 /\ nf = 0
    BY <1>2 DEF DeadEmpty
  <2>2. CASE ~About(t, k)
    BY <1>0, <1>1, <2>1, <2>2, StepLeaves DEF Listings
  <2>3. CASE About(t, k)
    <3>1. t = Keeper[k] /\ Halfway(k)
      BY <2>3, AboutKept DEF Halves
    <3>2. CASE (InsertHalf(t) \/ RemoveHalf(t)) /\ g.slot = k
      <4>1. /\ g.op \in {"connect", "disconnect"} /\ g = stack[t][Len(stack[t])]
            /\ Len(stack[t]) \in 1..Len(stack[t]) /\ Obeys(t, g, Len(stack[t]) # 1)
        BY <1>0, <3>2, InsertTop, TopObeys
      <4>2. Named(g) = Ends(Home, k)
        BY <3>2, <4>1 DEF Obeys, Named, Ends
      <4>3. life[o] = "alive"
        BY <1>1, <4>1, <4>2 DEF Always, Frames, NamedAlive, Naming
      <4> QED
        BY <1>2, <4>3
    <3>3. CASE RemovePeer(t) /\ Current(g).slot = k
      <4>1. /\ stack[t] # <<>> /\ Sweeping(g) /\ ~AtEnd(g) /\ g.obj \in Objects
        BY <1>0, <3>3, PeerSweeps, TopObeys
      <4>2. /\ g.idx \in 1..Len(connections[g.obj]) /\ connections[g.obj][g.idx].slot = k
            /\ g.obj = Home[k] \/ g.obj = Owner[k]
        BY <3>3, <4>1, PeerIsEnd
      <4>3. Listings(g.obj, k) # 0
        BY <1>0, <4>1, <4>2, ListingsOK
      <4> QED
        BY <2>1, <4>2, <4>3
    <3>4. CASE EndSweep(t) /\ g.obj \in Ends(Home, k)
      BY <3>1, <3>4, EndSweeps
    <3> QED
      BY <2>3, <3>2, <3>3, <3>4 DEF About
  <2> QED
    BY <2>2, <2>3
<1>3. CASE life[o] # "dead"
  <2>1. life \in [Objects -> {"alive", "dying", "reset", "expired", "dead"}]
    BY <1>0, TypedParts DEF Others
  <2>2. EndSweep(t) /\ g.op = "destroy" /\ g.obj = o
    <3>1. life' # life
      BY <1>3
    <3>2. ResetTracker(t) \/ Drained(t) \/ EndSweep(t)
      BY <3>1 DEF Step, InsertHalf, RemoveHalf, StartEmission, CallSlot, SkipSlot, SlotReturns,
                  EndEmission, StartSweep, VisitPeer, SkipPeer, RemovePeer
    <3>3. ~ResetTracker(t) /\ ~Drained(t)
      <4>1. \A x \in {"reset", "expired"} : life' # [life EXCEPT ![g.obj] = x]
        BY <1>1, <1>3, <2>1
      <4> QED
        BY <4>1 DEF ResetTracker, Drained
    <3>4. life' = IF g.op = "destroy" THEN [life EXCEPT ![g.obj] = "dead"] ELSE life
      BY <3>2, <3>3 DEF EndSweep
    <3> QED
      BY <1>1, <1>3, <2>1, <3>1, <3>2, <3>3, <3>4
  <2>3. t = Keeper[k]
    <3>1. Obeys(t, g, Len(stack[t]) # 1)
      BY <1>0, TopObeys
    <3> QED
      BY <2>2, <3>1 DEF Obeys, Sweep
  <2> QED
    BY <2>2, <2>3, EndSweeps DEF Halves
<1> QED
  BY <1>2, <1>3

-------------------------------------------------------------------------------
(* Emissions of disciplined clients *)

\* An emission over the vector itself has its signal for as long as it runs.
FiringAlive ==
  ByRef => \A t \in Threads : \A i \in 1..Len(stack[t]) :
    stack[t][i].op = "fire" => life[stack[t][i].obj] = "alive"

OwnersThere(f) ==
  \A j \in 1..Len(f.list) : f.list[j].slot \in MemberSlots => life[Owner[f.list[j].slot]] # "dead"

\* The receivers of an emission without mutexes outlive it.
ListsAlive ==
  ~Locks => \A t \in Threads : \A i \in 1..Len(stack[t]) :
    stack[t][i].op = "fire" => OwnersThere(stack[t][i])

Emitting(f) == ByRef /\ f.op = "fire" /\ f.pc \in {"loop", "slot"}

\* An emission over the vector itself sees it unchanged.
FireStable ==
  \A t \in Threads : \A i \in 1..Len(stack[t]) :
    Emitting(stack[t][i]) => connections[stack[t][i].obj] = stack[t][i].list

Fires == FiringAlive /\ ListsAlive /\ FireStable

\* A call that begins inside a slot destroys nothing that an emission needs.
LEMMA BeginFires ==
  ASSUME Discipline, Always, Fires, NEW t \in Threads, NEW c, Calls(t, c)
  PROVE  Fires'
<1> DEFINE f == FirstFrame(c)
           n == Len(stack[t])
<1>0. Typed /\ Stacks /\ n \in Nat
  BY TypedParts DEF Always, LockInv, Stacks
<1>1. /\ f \in Frame /\ Push(t, f) /\ f.list = <<>> /\ Named(f) = Named(c)
      /\ f.op = c.op /\ f.obj = c.obj /\ f.pc \in {"self", "lock", "reset"}
  BY FirstFrameOK
<1> HIDE DEF f
<1>2. /\ c.obj \in Objects /\ Permitted(t, c) /\ connections' = connections
      /\ life' = IF c.op = "destroy" THEN [life EXCEPT ![c.obj] = "dying"] ELSE life
  BY DEF Calls, Begin, Call
<1>3. \A o \in Objects : life'[o] = IF c.op = "destroy" /\ o = c.obj THEN "dying" ELSE life[o]
  BY <1>0, <1>2, TypedParts DEF Others
<1>4. \A u \in Threads : \A i \in 1..Len(stack'[u]) :
        IF u = t /\ i = n + 1 THEN stack'[u][i] = f
        ELSE i \in 1..Len(stack[u]) /\ stack'[u][i] = stack[u][i]
  BY <1>0, <1>1, PushFrames
<1>5. \A u \in Threads : \A i \in 1..Len(stack[u]) : stack[u][i].obj \in Objects
  BY <1>0, FrameAt
<1>6. FiringAlive'
  <2> SUFFICES ASSUME ByRef, NEW u \in Threads, NEW i \in 1..Len(stack'[u]), stack'[u][i].op = "fire"
               PROVE  life'[stack'[u][i].obj] = "alive"
    BY DEF FiringAlive, ByRef
  <2>1. CASE u = t /\ i = n + 1
    <3>1. stack'[u][i] = f
      BY <1>4, <2>1
    <3>2. c.op # "destroy" /\ life[c.obj] = "alive"
      BY <1>1, <1>2, <3>1 DEF Permitted, Named
    <3> QED
      BY <1>1, <1>2, <1>3, <3>1, <3>2
  <2>2. CASE ~(u = t /\ i = n + 1)
    <3> DEFINE h == stack[u][i]
    <3>1. i \in 1..Len(stack[u]) /\ stack'[u][i] = h
      BY <1>4, <2>2
    <3>2. life[h.obj] = "alive" /\ h.obj \in Objects
      BY <1>5, <3>1 DEF Fires, FiringAlive
    <3>3. ~(c.op = "destroy" /\ h.obj = c.obj)
      <4> SUFFICES ASSUME c.op = "destroy", h.obj = c.obj PROVE FALSE
        OBVIOUS
      <4>1. CASE u = t
        <5>1. stack[t] # <<>>
          BY <3>1, <4>1
        <5>2. c \in SomeSlotCalls
          BY <5>1 DEF Calls
        <5>3. Obeys(t, c, TRUE)
          BY <5>2, ClientsObey
        <5> QED
          BY <5>3 DEF Obeys
      <4>2. CASE u # t
        <5>1. c.obj \notin Named(h)
          <6>1. DOMAIN stack[u] = 1..Len(stack[u])
            BY <1>0 DEF Stacks
          <6> QED
            BY <1>2, <3>1, <4>2, <6>1 DEF Permitted
        <5> QED
          BY <5>1 DEF Named
      <4> QED
        BY <4>1, <4>2
    <3> QED
      BY <1>3, <3>1, <3>2, <3>3
  <2> QED
    BY <2>1, <2>2
<1>7. ListsAlive'
  <2> SUFFICES ASSUME ~Locks, NEW u \in Threads, NEW i \in 1..Len(stack'[u]), stack'[u][i].op = "fire",
                      NEW j \in 1..Len(stack'[u][i].list), stack'[u][i].list[j].slot \in MemberSlots
               PROVE  life'[Owner[stack'[u][i].list[j].slot]] # "dead"
    BY DEF ListsAlive, OwnersThere, Locks
  <2>1. CASE u = t /\ i = n + 1
    BY <1>1, <1>4, <2>1
  <2>2. CASE ~(u = t /\ i = n + 1)
    <3> DEFINE h == stack[u][i]
               o == Owner[h.list[j].slot]
    <3>1. i \in 1..Len(stack[u]) /\ stack'[u][i] = h
      BY <1>4, <2>2
    <3>2. life[o] # "dead"
      BY <3>1 DEF Fires, ListsAlive, OwnersThere
    <3>3. o \in Objects
      BY <3>1, ObjectsAssumption DEF Objects
    <3> QED
      BY <1>3, <3>1, <3>2, <3>3
  <2> QED
    BY <2>1, <2>2
<1>8. FireStable'
  <2> SUFFICES ASSUME NEW u \in Threads, NEW i \in 1..Len(stack'[u]), Emitting(stack'[u][i])
               PROVE  connections'[stack'[u][i].obj] = stack'[u][i].list
    BY DEF FireStable, Emitting, ByRef
  <2> QED
    BY <1>1, <1>2, <1>4 DEF Fires, FireStable, Emitting
<1> QED
  BY <1>6, <1>7, <1>8 DEF Fires

\* No step of a call ends what an emission needs.
LEMMA StepFiringAlive ==
  ASSUME Always, FiringAlive, NEW t \in Threads, Step(t)
  PROVE  FiringAlive'
<1> DEFINE g == Top(t)
           n == Len(stack[t])
<1>0. Typed /\ Stacks
  BY TypedParts DEF Always, LockInv
<1>1. stack[t] # <<>> /\ (Returns(t) \/ \E f : Goes(t, f))
  BY <1>0, StepGoes
<1>2. n \in Nat \ {0} /\ g = stack[t][n] /\ g.obj \in Objects /\ n \in 1..n
  BY <1>0, <1>1, TopOK DEF Top, Last, Frame
<1> SUFFICES ASSUME ByRef, NEW u \in Threads, NEW i \in 1..Len(stack'[u]), stack'[u][i].op = "fire"
             PROVE  life'[stack'[u][i].obj] = "alive"
  BY DEF FiringAlive, ByRef
<1>3. \E j \in 1..Len(stack[u]) : /\ stack[u][j].op = "fire"
                                  /\ stack'[u][i].obj = stack[u][j].obj
  <2>1. ASSUME NEW f, Goes(t, f) PROVE \E j \in 1..Len(stack[u]) : stack[u][j].op = "fire" /\ stack'[u][i].obj = stack[u][j].obj
    <3>1. i \in 1..Len(stack[u]) /\ stack'[u][i] = IF u = t /\ i = n THEN f ELSE stack[u][i]
      BY <1>0, <1>1, <2>1, ContinueFrames DEF Goes
    <3>2. f.op = g.op /\ f.obj = g.obj
      BY <2>1 DEF Goes
    <3>3. stack[u][i].op = "fire" /\ stack'[u][i].obj = stack[u][i].obj
      BY <1>2, <3>1, <3>2
    <3> QED
      BY <3>1, <3>3
  <2>2. CASE Returns(t)
    <3>1. i \in 1..Len(stack[u]) /\ stack'[u][i] = stack[u][i]
      BY <1>0, <1>1, <2>2, PopFrames DEF Returns
    <3> QED
      BY <3>1
  <2> QED
    BY <1>1, <2>1, <2>2
<1>4. PICK j \in 1..Len(stack[u]) : stack[u][j].op = "fire" /\ stack'[u][i].obj = stack[u][j].obj
  BY <1>3
<1> DEFINE o == stack[u][j].obj
<1>5. life[o] = "alive" /\ o \in Objects
  BY <1>0, <1>4, FrameAt DEF FiringAlive
<1>6. ~(g.op = "destroy" /\ g.obj = o)
  BY <1>2, <1>5 DEF Always, LInv, StageOK, Stage
<1>7. life'[o] = life[o] \/ (g.op = "destroy" /\ g.obj = o)
  BY <1>1, <1>5 DEF Goes, Returns
<1> QED
  BY <1>4, <1>5, <1>6, <1>7

\* The connections of a signal are to observers that are there.
LEMMA OwnersListed ==
  ASSUME Discipline, Typed, Entries, HomeEntries, DeadEmpty, NEW o \in Signals, NEW j \in 1..Len(connections[o]),
         connections[o][j].slot \in MemberSlots
  PROVE  life[Owner[connections[o][j].slot]] # "dead"
<1> DEFINE k == connections[o][j].slot
<1>1. o \in Objects
  BY DEF Objects
<1>2. o = Home[k] /\ Owner[k] \in Ends(Home, k)
  <2>1. o # Owner[k]
    BY EndsOK
  <2> QED
    BY <1>1, <2>1, Listed, EndsOK DEF Ends
<1>3. Listings(o, k) # 0
  BY <1>1, ListingsOK
<1> QED
  BY <1>2, <1>3 DEF DeadEmpty

LEMMA StepListsAlive ==
  ASSUME Discipline, Always, HomeEntries, DeadEmpty, ListsAlive, NEW t \in Threads, Step(t)
  PROVE  ListsAlive'
<1> DEFINE g == Top(t)
           n == Len(stack[t])
<1>0. Typed /\ Stacks /\ Entries
  BY TypedParts DEF Always, LockInv
<1>1. stack[t] # <<>> /\ (Returns(t) \/ \E f : Goes(t, f))
  BY <1>0, StepGoes
<1>2. /\ n \in Nat \ {0} /\ g = stack[t][n] /\ g.obj \in Objects /\ n \in 1..n
      /\ Obeys(t, g, n # 1)
  BY <1>1, TopObeys
<1> SUFFICES ASSUME ~Locks, NEW u \in Threads, NEW i \in 1..Len(stack'[u]), stack'[u][i].op = "fire",
                    NEW j \in 1..Len(stack'[u][i].list), stack'[u][i].list[j].slot \in MemberSlots
             PROVE  life'[Owner[stack'[u][i].list[j].slot]] # "dead"
  BY DEF ListsAlive, OwnersThere, Locks
<1> DEFINE h == stack'[u][i]
           o == Owner[h.list[j].slot]
<1>3. o \in Objects /\ o \in Foos
  BY ObjectsAssumption DEF Objects
<1>4. u = t /\ ~Counted
  BY PolicyAssumption, ThreadsAssumption DEF Locks, Counted
<1>5. ASSUME NEW f, Goes(t, f) PROVE life'[o] # "dead"
  <2>1. i \in 1..Len(stack[t]) /\ Len(stack'[t]) = n /\ h = IF i = n THEN f ELSE stack[t][i]
    BY <1>0, <1>1, <1>4, <1>5, ContinueFrames DEF Goes
  <2>2. CASE i = n
    <3>1. h = f /\ g.op = "fire" /\ f.obj = g.obj /\ (f.list = g.list \/ f.list = connections[f.obj])
      BY <1>5, <2>1, <2>2 DEF Goes
    <3>2. life[o] # "dead"
      <4>1. CASE f.list = g.list
        <5>1. OwnersThere(g)
          BY <1>2, <3>1 DEF ListsAlive
        <5> QED
          BY <3>1, <4>1, <5>1 DEF OwnersThere
      <4>2. CASE f.list = connections[f.obj]
        <5>1. f.obj \in Signals
          <6>1. OverReceivers(g)
            BY <1>2, <3>1 DEF Always, FiresOK
          <6> QED
            BY <3>1, <6>1 DEF OverReceivers
        <5> QED
          BY <1>0, <3>1, <4>2, <5>1, OwnersListed
      <4> QED
        BY <3>1, <4>1, <4>2
    <3>3. life'[o] = life[o]
      BY <1>3, <1>5, <3>1 DEF Goes
    <3> QED
      BY <3>2, <3>3
  \* The innermost call of a slot edits no lives.
  <2>3. CASE i # n
    <3>1. h = stack[t][i] /\ n # 1
      BY <1>2, <2>1, <2>3
    <3>2. life[o] # "dead"
      BY <2>1, <3>1 DEF ListsAlive, OwnersThere
    <3>3. ~(g.op = "destroy" /\ g.obj = o)
      BY <1>2, <1>3, <1>4, <3>1 DEF Obeys
    <3>4. life'[o] = life[o]
      BY <1>3, <1>5, <3>3 DEF Goes
    <3> QED
      BY <3>2, <3>4
  <2> QED
    BY <2>2, <2>3
<1>6. CASE Returns(t)
  <2>1. i \in 1..Len(stack[t]) /\ h = stack[t][i] /\ i # n
    BY <1>0, <1>1, <1>4, <1>6, PopFrames DEF Returns
  <2>2. n # 1
    BY <1>2, <2>1
  <2>3. life[o] # "dead"
    BY <2>1 DEF ListsAlive, OwnersThere
  <2>4. ~(g.op = "destroy" /\ g.obj = o)
    BY <1>2, <1>3, <1>4, <2>2 DEF Obeys
  <2>5. life'[o] = life[o]
    BY <1>3, <1>6, <2>4 DEF Returns
  <2> QED
    BY <2>3, <2>5
<1> QED
  BY <1>1, <1>5, <1>6

LEMMA StepFireStable ==
  ASSUME Discipline, Always, Stable', FireStable, NEW t \in Threads, Step(t)
  PROVE  FireStable'
<1> DEFINE g == Top(t)
           n == Len(stack[t])
<1>0. Typed /\ Stacks
  BY TypedParts DEF Always, LockInv
<1>1. stack[t] # <<>> /\ (Returns(t) \/ \E f : Goes(t, f))
  BY <1>0, StepGoes
<1>2. /\ n \in Nat \ {0} /\ g = stack[t][n] /\ g.obj \in Objects /\ n \in 1..n /\ g \in Frame
      /\ Obeys(t, g, n # 1)
  BY <1>1, TopObeys
<1> SUFFICES ASSUME NEW u \in Threads, NEW i \in 1..Len(stack'[u]), Emitting(stack'[u][i])
             PROVE  connections'[stack'[u][i].obj] = stack'[u][i].list
  BY DEF FireStable, Emitting, ByRef
<1> DEFINE h == stack'[u][i]
<1>3. CASE Locks
  BY <1>3 DEF Stable, InPlace, Emitting
<1>4. CASE ~Locks
  <2>1. u = t /\ ByRef /\ h.op = "fire"
    BY <1>4, PolicyAssumption, ThreadsAssumption DEF Locks, Emitting
  <2>2. CASE g.op # "fire"
    <3>1. n = 1
      BY <1>2, <2>1, <2>2 DEF Obeys
    <3>2. CASE Returns(t)
      <4>1. i \in 1..Len(stack[t]) /\ i # n
        BY <1>0, <1>1, <2>1, <3>2, PopFrames DEF Returns
      <4> QED
        BY <3>1, <4>1
    <3>3. ASSUME NEW f, Goes(t, f) PROVE FALSE
      <4>1. i \in 1..Len(stack[t]) /\ h = IF i = n THEN f ELSE stack[t][i]
        BY <1>0, <1>1, <2>1, <3>3, ContinueFrames DEF Goes
      <4>2. h = f /\ f.op = g.op
        BY <3>1, <3>3, <4>1 DEF Goes
      <4> QED
        BY <2>1, <2>2, <4>2
    <3> QED
      BY <1>1, <3>2, <3>3
  <2>3. CASE g.op = "fire"
    <3>0. g.op \notin Sweep /\ g.op \notin {"connect", "disconnect", "destroy"}
      BY <2>3 DEF Sweep
    <3>1. StartEmission(t) \/ CallSlot(t) \/ SkipSlot(t) \/ SlotReturns(t) \/ EndEmission(t)
      BY <1>0, <3>0, InsertTop, AtTop DEF Step, ResetTracker, Drained, StartSweep, VisitPeer, SkipPeer,
         RemovePeer, EndSweep
    <3>2. connections' = connections
      BY <3>1 DEF StartEmission, CallSlot, SkipSlot, SlotReturns, EndEmission
    \* A frame that was there sees the same vector.
    <3>3. ASSUME i \in 1..Len(stack[t]), h = stack[t][i] PROVE connections'[h.obj] = h.list
      BY <2>1, <3>2, <3>3 DEF FireStable
    <3>4. ASSUME NEW f \in Frame, Continue(t, f), f.obj = g.obj,
                 f.list = connections[g.obj] \/ (f.list = g.list /\ g.pc \in {"loop", "slot"})
          PROVE  connections'[h.obj] = h.list
      <4>1. i \in 1..Len(stack[t]) /\ h = IF i = n THEN f ELSE stack[t][i]
        BY <1>0, <1>1, <2>1, <3>4, ContinueFrames
      <4>2. f.list = connections[f.obj]
        <5>1. ASSUME g.pc \in {"loop", "slot"} PROVE connections[g.obj] = g.list
          BY <1>2, <2>1, <2>3, <5>1 DEF FireStable, Emitting
        <5> QED
          BY <3>4, <5>1
      <4>3. CASE i = n
        BY <3>2, <4>1, <4>2, <4>3
      <4>4. CASE i # n
        BY <3>3, <4>1, <4>4
      <4> QED
        BY <4>3, <4>4
    <3>5. CASE StartEmission(t)
      <4> DEFINE f == [g EXCEPT !.pc = "loop", !.list = connections[g.obj]]
      <4>1. f \in Frame /\ f.obj = g.obj /\ f.list = connections[g.obj]
        <5>1. connections[g.obj] \in Seq(Connection)
          BY <1>0, <1>2, TypedParts, VectorsInOrder
        <5> QED
          BY <1>2, <5>1, StartFrame
      <4>2. Continue(t, f)
        BY <3>5 DEF StartEmission
      <4> HIDE DEF f
      <4> QED
        BY <3>4, <4>1, <4>2
    <3>6. CASE CallSlot(t)
      <4> DEFINE f == [g EXCEPT !.pc = "slot"]
      <4>1. f \in Frame /\ f.obj = g.obj /\ f.list = g.list
        <5>1. "slot" \in PCs
          BY DEF PCs
        <5> QED
          BY <1>2, <5>1, GotoFrame
      <4>2. Continue(t, f) /\ g.pc = "loop"
        BY <1>0, <3>6, AtTop DEF CallSlot, Goto
      <4> HIDE DEF f
      <4> QED
        BY <3>4, <4>1, <4>2
    <3>7. CASE SkipSlot(t) \/ SlotReturns(t)
      <4> DEFINE f == [g EXCEPT !.pc = "loop", !.idx = @ + 1]
      <4>1. f \in Frame /\ f.obj = g.obj /\ f.list = g.list
        BY <1>2, NextFrame
      <4>2. Continue(t, f) /\ g.pc \in {"loop", "slot"}
        BY <1>0, <3>7, AtTop DEF SkipSlot, SlotReturns, NextConnection
      <4> HIDE DEF f
      <4> QED
        BY <3>4, <4>1, <4>2
    <3>8. CASE EndEmission(t)
      <4>1. Pop(t)
        BY <3>8 DEF EndEmission
      <4>2. i \in 1..Len(stack[t]) /\ h = stack[t][i]
        BY <1>0, <1>1, <2>1, <4>1, PopFrames
      <4> QED
        BY <3>3, <4>2
    <3> QED
      BY <3>1, <3>5, <3>6, <3>7, <3>8
  <2> QED
    BY <2>2, <2>3
<1> QED
  BY <1>3, <1>4

-------------------------------------------------------------------------------
(* What disciplined clients can rely on *)

Kept == Always /\ HomeEntries /\ Halves /\ DeadEmpty /\ Fires

LEMMA InitKept == Discipline /\ Init => Kept
<1> SUFFICES ASSUME Discipline, Init PROVE Kept
  OBVIOUS
<1>1. \A t \in Threads : stack[t] = <<>> /\ 1..Len(stack[t]) = {}
  <2>1. \A t \in Threads : stack[t] = <<>> /\ Len(stack[t]) = 0
    BY DEF Init
  <2> QED
    BY <2>1
<1>2. \A o \in Objects : life[o] = "alive" /\ connections[o] = <<>> /\ 1..Len(connections[o]) = {}
  <2>1. \A o \in Objects : connections[o] = <<>> /\ Len(connections[o]) = 0
    BY DEF Init
  <2> QED
    BY <2>1 DEF Init
<1>3. HomeEntries
  BY <1>2 DEF HomeEntries
<1>4. Halves
  BY <1>1, <1>2, EndsOK DEF Halves, Halfway, Listings
<1>5. DeadEmpty
  BY <1>2, EndsOK DEF DeadEmpty
<1>6. Fires
  BY <1>1 DEF Fires, FiringAlive, ListsAlive, FireStable
<1> QED
  BY <1>3, <1>4, <1>5, <1>6, InitAlways DEF Kept

LEMMA NextKept == Discipline /\ Kept /\ [Next]_vars => Kept'
<1> SUFFICES ASSUME Discipline, Kept, [Next]_vars PROVE Kept'
  OBVIOUS
<1>0. Always /\ HomeEntries /\ Halves /\ DeadEmpty /\ Fires /\ Typed /\ Always'
  BY NextAlways DEF Kept, Always, LockInv
<1>1. ASSUME NEW t \in Threads, CallFromThread(t) \/ CallFromSlot(t) PROVE Kept'
  <2>1. PICK c : Calls(t, c)
    BY <1>0, <1>1, ClientsCall
  <2>2. connections' = connections
    BY <2>1 DEF Calls, Begin
  <2>3. HomeEntries'
    BY <1>0, <2>2 DEF HomeEntries, EntryHome
  <2>4. Halves'
    <3>1. ASSUME NEW k \in MemberSlots PROVE Halfway(k)'
      BY <1>0, <2>1, BeginHalves DEF Halves
    <3> QED
      BY <3>1 DEF Halves
  <2>5. DeadEmpty'
    <3> SUFFICES ASSUME NEW k \in MemberSlots, NEW o \in Ends(Home, k), life'[o] = "dead"
                 PROVE  Listings(Home[k], k)' = 0 /\ Listings(Owner[k], k)' = 0
      BY DEF DeadEmpty
    <3>1. o \in Objects
      BY EndsOK
    <3>2. life[o] = "dead"
      <4>1. life' = IF c.op = "destroy" THEN [life EXCEPT ![c.obj] = "dying"] ELSE life
        BY <2>1 DEF Calls, Begin
      <4>2. life \in [Objects -> {"alive", "dying", "reset", "expired", "dead"}]
        BY <1>0, TypedParts DEF Others
      <4> QED
        BY <3>1, <4>1, <4>2
    <3> QED
      BY <1>0, <2>2, <3>2 DEF DeadEmpty, Listings
  <2>6. Fires'
    BY <1>0, <2>1, BeginFires
  <2> QED
    BY <1>0, <2>3, <2>4, <2>5, <2>6 DEF Kept
<1>2. ASSUME NEW t \in Threads, Step(t) PROVE Kept'
  <2>1. HomeEntries'
    BY <1>0, <1>2, StepHomeEntries
  <2>2. Halves'
    <3>1. ASSUME NEW k \in MemberSlots PROVE Halfway(k)'
      <4>1. CASE t = Keeper[k]
        BY <1>0, <1>2, <4>1, KeeperHalves DEF Halves
      <4>2. CASE t # Keeper[k]
        BY <1>0, <1>2, <4>2, OthersLeave DEF Halves
      <4> QED
        BY <4>1, <4>2
    <3> QED
      BY <3>1 DEF Halves
  <2>3. DeadEmpty'
    BY <1>0, <1>2, StepDeadEmpty
  <2>4. FiringAlive' /\ ListsAlive'
    BY <1>0, <1>2, StepFiringAlive, StepListsAlive DEF Fires
  <2>5. FireStable'
    BY <1>0, <1>2, StepFireStable DEF Fires, Always
  <2> QED
    BY <1>0, <2>1, <2>2, <2>3, <2>4, <2>5 DEF Kept, Fires
<1>3. CASE UNCHANGED vars
  <2>1. HomeEntries' /\ DeadEmpty'
    BY <1>0, <1>3 DEF vars, HomeEntries, EntryHome, DeadEmpty, Listings
  <2>2. Halves'
    BY <1>0, <1>3 DEF vars, Halves, Halfway, Half, Listings, Top, Sweeping, Swept
  <2>3. Fires'
    BY <1>0, <1>3 DEF vars, Fires, FiringAlive, ListsAlive, OwnersThere, FireStable, Emitting
  <2> QED
    BY <1>0, <2>1, <2>2, <2>3 DEF Kept
<1> QED
  BY <1>1, <1>2, <1>3 DEF Next, Rest

LEMMA KeptSafe == Discipline /\ Kept => NoUseAfterFree
<1> SUFFICES ASSUME Discipline, Kept PROVE NoUseAfterFree
  OBVIOUS
<1>0. Always /\ HomeEntries /\ DeadEmpty /\ Fires /\ Typed /\ Entries
  BY DEF Kept, Always, LockInv
<1>1. CASE Counted
  BY <1>0, <1>1, CountedSafe
<1>2. CASE ~Counted
  <2> SUFFICES ASSUME NEW t \in Threads PROVE Defined(t)
    BY DEF NoUseAfterFree
  <2> DEFINE f == Top(t)
             n == Len(stack[t])
  <2>1. ASSUME stack[t] # <<>>, NEW o \in InQuestion(t) PROVE life[o] # "dead"
    <3>1. n \in 1..n /\ f = stack[t][n] /\ f \in Frame /\ FrameOK(f) /\ f.obj \in Objects
      BY <1>0, <2>1, TopObeys
    <3>2. CASE f.op = "fire" /\ f.pc \in {"loop", "slot"}
      <4>1. \/ ByRef /\ o = f.obj
            \/ (f.pc = "slot" \/ ~AtEnd(f)) /\ o = Receiver(f.obj, Current(f).slot) /\ o \in Foos
        BY <2>1, <3>2 DEF InQuestion
      <4>2. CASE ByRef /\ o = f.obj
        BY <1>0, <3>1, <3>2, <4>2 DEF Fires, FiringAlive
      <4>3. CASE /\ f.pc = "slot" \/ ~AtEnd(f)
                 /\ o = Receiver(f.obj, Current(f).slot) /\ o \in Foos
        <5>1. f.idx \in 1..Len(f.list)
          <6>1. f.idx \in Nat /\ f.idx # 0 /\ Len(f.list) \in Nat
            BY <3>1 DEF FrameOK, Frame
          <6> QED
            BY <3>1, <3>2, <4>3, <6>1 DEF AtEnd, FrameOK
        <5>2. f.obj \in Signals
          <6>1. OverReceivers(f)
            BY <1>0, <3>1, <3>2 DEF Always, FiresOK
          <6> QED
            BY <6>1 DEF OverReceivers
        <5>3. Current(f).slot \in MemberSlots /\ o = Owner[Current(f).slot]
          BY <4>3, <5>2, ObjectsAssumption DEF Receiver
        <5>4. CASE ~Locks
          <6>1. OwnersThere(f)
            BY <1>0, <3>1, <3>2, <5>4 DEF Fires, ListsAlive
          <6> QED
            BY <5>1, <5>3, <6>1 DEF OwnersThere, Current
        <5>5. CASE Locks
          <6>1. Emitting(f)
            BY <1>2, <3>2, <5>5, PolicyAssumption DEF Emitting, Locks, Counted, ByRef
          <6>2. connections[f.obj] = f.list
            BY <1>0, <3>1, <6>1 DEF Fires, FireStable
          <6> HIDE DEF f
          <6> QED
            BY <1>0, <5>1, <5>2, <5>3, <6>2, OwnersListed DEF Current
        <5> QED
          BY <5>4, <5>5
      <4> QED
        BY <4>1, <4>2, <4>3
    <3>3. CASE ~(f.op = "fire" /\ f.pc \in {"loop", "slot"})
      <4>1. f.op \in Sweep /\ f.pc = "peer" /\ o = Current(f).obs
        BY <2>1, <3>3 DEF InQuestion
      <4>2. Sweeping(f) /\ ~AtEnd(f)
        <5>1. f.idx \in 1..Len(f.list)
          BY <3>1, <4>1 DEF FrameOK
        <5> QED
          BY <3>1, <4>1, <5>1 DEF Sweeping, AtEnd, Frame
      <4>3. o # f.obj
        BY <1>0, <3>1, <4>1 DEF Always, Frames, PeersOther
      <4> DEFINE k == Current(f).slot
      <4>4. /\ f.idx \in 1..Len(connections[f.obj]) /\ connections[f.obj][f.idx].slot = k
            /\ k \in MemberSlots
            /\ (f.obj = Home[k] /\ o = Owner[k]) \/ (f.obj = Owner[k] /\ o = Home[k])
        BY <1>0, <2>1, <4>1, <4>2, <4>3, PeerIsEnd
      <4>5. Listings(f.obj, k) # 0
        BY <1>0, <3>1, <4>4, ListingsOK
      <4>6. o \in Ends(Home, k)
        BY <4>4 DEF Ends
      <4> QED
        BY <1>0, <4>4, <4>5, <4>6 DEF DeadEmpty
    <3> QED
      BY <3>2, <3>3
  <2> QED
    BY <1>0, <2>1, DefinedWhen
<1> QED
  BY <1>1, <1>2

LEMMA KeptStable == Discipline /\ Kept => IteratorsStable
<1> SUFFICES ASSUME Discipline, Kept, NEW t \in Threads, NEW i \in DOMAIN stack[t], InPlace(stack[t][i])
             PROVE  connections[stack[t][i].obj] = stack[t][i].list
  BY DEF IteratorsStable
<1>1. i \in 1..Len(stack[t])
  BY TypedParts DEF Kept, Always, LockInv, Stacks
<1> QED
  BY <1>1 DEF Kept, Always, Fires, SweepStable, FireStable, InPlace, Sweeping, Emitting

LEMMA KeptMirrored == Discipline /\ Kept => Mirrored
<1> SUFFICES ASSUME Discipline, Kept, Quiet, NEW o \in Objects, life[o] = "alive",
                    NEW i \in DOMAIN connections[o], connections[o][i].obs # o
             PROVE  LET e == connections[o][i] IN
                    /\ life[e.obs] = "alive"
                    /\ Count(connections[o], e.slot, e.obs) = Count(connections[e.obs], e.slot, o)
  BY DEF Mirrored
<1> DEFINE e == connections[o][i]
           k == e.slot
           p == e.obs
<1>0. /\ Typed /\ Entries /\ HomeEntries /\ Halves /\ DeadEmpty
      /\ \A x \in Objects : connections[x] \in Seq(Connection)
  BY TypedParts, VectorsInOrder DEF Kept, Always, LockInv
<1>1. i \in 1..Len(connections[o])
  BY <1>0
<1>2. /\ k \in MemberSlots /\ k \in Slots /\ p \in Objects
      /\ (o = Home[k] /\ p = Owner[k]) \/ (o = Owner[k] /\ p = Home[k])
  BY <1>0, <1>1, Listed
<1>3. Listings(o, k) # 0
  BY <1>0, <1>1, ListingsOK
<1>4. life[p] = "alive"
  <2>1. life[p] # "dead"
    <3>1. p \in Ends(Home, k)
      BY <1>2 DEF Ends
    <3> QED
      BY <1>0, <1>2, <1>3, <3>1 DEF DeadEmpty
  <2>2. \A t \in Threads : 1..Len(stack[t]) = {}
    BY DEF Quiet
  <2> QED
    BY <1>2, <2>1, <2>2 DEF Kept, Always, Frames, UnderDestruction
<1>5. Listings(Home[k], k) = Listings(Owner[k], k)
  <2>1. stack[Keeper[k]] = <<>>
    BY <1>2, EndsOK DEF Quiet
  <2> QED
    BY <1>0, <1>2, <2>1 DEF Halves, Halfway
\* At an end, the connections with this key are those to the other end.
<1>6. ASSUME NEW x \in Objects, NEW y \in Objects,
             (x = Home[k] /\ y = Owner[k]) \/ (x = Owner[k] /\ y = Home[k])
      PROVE  Count(connections[x], k, y) = Listings(x, k)
  <2> DEFINE s == connections[x]
  <2>1. \A j \in 1..Len(s) : s[j] = [slot |-> k, obs |-> y] <=> s[j].slot = k
    <3> SUFFICES ASSUME NEW j \in 1..Len(s), s[j].slot = k PROVE s[j] = [slot |-> k, obs |-> y]
      OBVIOUS
    <3>1. s[j] \in Connection /\ s[j].obs = y
      <4>1. /\ s[j] \in Connection
            /\ \/ x = Home[k] /\ s[j].obs = Owner[k]
               \/ x = Owner[k] /\ s[j].obs = Home[k]
        BY <1>0, <1>2, Listed
      <4>2. Home[k] # Owner[k]
        BY <1>2, EndsOK
      <4> QED
        BY <1>6, <4>1, <4>2
    <3> QED
      BY <3>1 DEF Connection
  <2>2. DOMAIN s = 1..Len(s)
    BY <1>0
  <2>3. {j \in DOMAIN s : s[j] = [slot |-> k, obs |-> y]} = {j \in 1..Len(s) : s[j].slot = k}
    BY <2>1, <2>2
  <2> QED
    BY <2>3 DEF Count, Listings, Num
<1>7. Count(connections[o], k, p) = Listings(o, k) /\ Count(connections[p], k, o) = Listings(p, k)
  BY <1>2, <1>6
<1>8. Listings(o, k) = Listings(p, k)
  BY <1>2, <1>5
<1> QED
  BY <1>4, <1>7, <1>8

\* Disciplined clients touch no object whose memory is gone, under any policy.
THEOREM DisciplinedMemorySafe == Discipline => (Spec => []NoUseAfterFree)
<1> SUFFICES ASSUME Discipline PROVE Spec => []NoUseAfterFree
  OBVIOUS
<1>1. Init => Kept
  BY InitKept
<1>2. Kept /\ [Next]_vars => Kept'
  BY NextKept
<1>3. Kept => NoUseAfterFree
  BY KeptSafe
<1> QED
  BY <1>1, <1>2, <1>3, PTL DEF Spec

\* Between their calls both ends of every connection agree on it: no order of
\* connect, disconnect, sweeps and destructors leaves one half behind.
THEOREM DisciplinedMirrored == Discipline => (Spec => []Mirrored)
<1> SUFFICES ASSUME Discipline PROVE Spec => []Mirrored
  OBVIOUS
<1>1. Init => Kept
  BY InitKept
<1>2. Kept /\ [Next]_vars => Kept'
  BY NextKept
<1>3. Kept => Mirrored
  BY KeptMirrored
<1> QED
  BY <1>1, <1>2, <1>3, PTL DEF Spec

\* No vector changes under a loop that runs over it, with or without mutexes.
THEOREM DisciplinedIteratorsStable == Discipline => (Spec => []IteratorsStable)
<1> SUFFICES ASSUME Discipline PROVE Spec => []IteratorsStable
  OBVIOUS
<1>1. Init => Kept
  BY InitKept
<1>2. Kept /\ [Next]_vars => Kept'
  BY NextKept
<1>3. Kept => IteratorsStable
  BY KeptStable
<1> QED
  BY <1>1, <1>2, <1>3, PTL DEF Spec

-------------------------------------------------------------------------------
(* Disciplined clients whose slots make no calls *)

SlotsSilent == \A k \in Slots : SlotCalls[k] = {}

\* Then every thread is inside of one call at most.
LEMMA OneCall ==
  ASSUME SlotsSilent, Kept, NEW t \in Threads, NEW i \in 1..Len(stack[t])
  PROVE  i = 1 /\ Len(stack[t]) = 1 /\ stack[t] # <<>> /\ stack[t][i] = Top(t)
<1>1. \A j \in 1..Len(stack[t]) : j = 1
  <2>1. SomeSlotCalls = {}
    BY DEF SlotsSilent, SomeSlotCalls
  <2>2. \A j \in 1..Len(stack[t]) : CallOf(stack[t][j]) \in IF j = 1 THEN TopCalls[t] ELSE SomeSlotCalls
    BY DEF Kept, Always, Frames, Called
  <2> QED
    BY <2>1, <2>2
<1>2. Stacks
  BY TypedParts DEF Kept, Always, LockInv
<1>3. stack[t] \in Seq(Frame) /\ Len(stack[t]) \in Nat
  BY <1>2 DEF Stacks
<1>4. Len(stack[t]) \in 1..Len(stack[t])
  BY <1>3
<1>5. Len(stack[t]) = 1 /\ i = 1
  BY <1>1, <1>4
<1>6. Top(t) = stack[t][1]
  BY <1>5 DEF Top, Last
<1>7. stack[t] # <<>>
  BY <1>5
<1> QED
  BY <1>5, <1>6, <1>7

\* Whoever has a mutex and waits is in a sweep, at a peer.
LEMMA HolderWaits ==
  ASSUME SlotsSilent, Kept, NEW o \in Objects, NEW u \in mutex[o], WaitsFor(u) # {}
  PROVE  /\ u \in Threads /\ stack[u] # <<>> /\ Top(u).obj = o
         /\ Top(u).op \in Sweep /\ Top(u).pc = "peer"
<1>0. LockInv /\ Typed
  BY DEF Kept, Always, LockInv
<1>1. u \in Threads
  BY <1>0, TypedParts DEF Others
<1>2. PICK i \in 1..Len(stack[u]) : Holder(u, i, o)
  BY <1>0, <1>1 DEF LockInv, MutexOK
<1> DEFINE f == Top(u)
<1>3. stack[u] # <<>> /\ Holds(f, o)
  <2>1. stack[u][i] = f /\ stack[u] # <<>>
    BY <1>1, OneCall
  <2> QED
    BY <1>2, <2>1 DEF Holder
<1> HIDE DEF f
<1>4. CASE f.op = "fire" /\ f.pc \in {"loop", "slot"}
  <2>1. f.op \notin {"connect", "disconnect"} /\ f.op \notin Sweep /\ f.pc # "lock" /\ f.pc # "drain"
    BY <1>4 DEF Sweep
  <2>2. WaitsFor(u) = {}
    BY <2>1 DEF WaitsFor, f
  <2> QED
    BY <2>2
<1>5. CASE f.op \in Sweep /\ f.pc = "loop"
  <2>1. f.op \notin {"connect", "disconnect"} /\ f.pc # "lock" /\ f.pc # "drain" /\ f.pc # "peer"
    BY <1>5 DEF Sweep
  <2>2. WaitsFor(u) = {}
    BY <2>1 DEF WaitsFor, f
  <2> QED
    BY <2>2
<1>6. CASE f.op \in Sweep /\ f.pc = "peer"
  BY <1>1, <1>3, <1>6 DEF Holds, f
<1> QED
  BY <1>3, <1>4, <1>5, <1>6 DEF Holds

\* The peer that it waits for is held by an emission, which waits for nobody.
LEMMA SweepWaits ==
  ASSUME Discipline, SlotsSilent, Kept, NEW u \in Threads, stack[u] # <<>>,
         Top(u).op \in Sweep, Top(u).pc = "peer", NEW v \in WaitsFor(u)
  PROVE  WaitsFor(v) = {}
<1> DEFINE f == Top(u)
           p == Current(f).obs
           k == Current(f).slot
<1>0. Always /\ HomeEntries /\ Typed
  BY DEF Kept, Always, LockInv
<1>1. v \in mutex[p]
  <2>1. f.op \notin {"connect", "disconnect"} /\ f.pc # "lock"
    BY DEF Sweep
  <2> QED
    BY <2>1 DEF WaitsFor
<1>2. /\ f \in Frame /\ FrameOK(f) /\ f = stack[u][Len(stack[u])] /\ Len(stack[u]) \in 1..Len(stack[u])
      /\ Obeys(u, f, Len(stack[u]) # 1)
  BY <1>0, TopObeys
<1>3. Sweeping(f) /\ ~AtEnd(f)
  <2>1. f.idx \in 1..Len(f.list)
    BY <1>2 DEF FrameOK
  <2> QED
    BY <1>2, <2>1 DEF Sweeping, AtEnd, Frame
<1>4. p # f.obj
  BY <1>0, <1>2 DEF Always, Frames, PeersOther
<1>5. /\ k \in MemberSlots /\ p \in Objects
      /\ (f.obj = Home[k] /\ p = Owner[k]) \/ (f.obj = Owner[k] /\ p = Home[k])
  BY <1>0, <1>3, <1>4, PeerIsEnd
<1>6. p \in Ends(Home, k) /\ f.obj \in Ends(Home, k)
  BY <1>5 DEF Ends
<1> SUFFICES ASSUME WaitsFor(v) # {} PROVE FALSE
  OBVIOUS
<1>7. v \in Threads /\ stack[v] # <<>> /\ Top(v).obj = p /\ Top(v).op \in Sweep
  BY <1>1, <1>5, HolderWaits
<1>8. Obeys(v, Top(v), Len(stack[v]) # 1)
  BY <1>0, <1>7, TopObeys
<1>9. v = Keeper[k] /\ u = Keeper[k]
  BY <1>2, <1>5, <1>6, <1>7, <1>8 DEF Obeys
<1> QED
  BY <1>4, <1>7, <1>9

\* A visitor of an object under destruction waits for nobody.
LEMMA VisitorFree ==
  ASSUME Discipline, SlotsSilent, Kept, NEW t \in Threads, stack[t] # <<>>, Top(t).pc = "drain",
         NEW u \in Threads, NEW i \in 1..Len(stack[u]), HoldsRef(stack[u][i]),
         Current(stack[u][i]).obs = Top(t).obj
  PROVE  WaitsFor(u) = {}
<1> DEFINE f == Top(u)
           g == Top(t)
           k == Current(f).slot
<1>0. Always /\ HomeEntries /\ Typed
  BY DEF Kept, Always, LockInv
<1>1. stack[u] # <<>> /\ stack[u][i] = f
  BY OneCall
<1>2. /\ f \in Frame /\ FrameOK(f) /\ f = stack[u][Len(stack[u])] /\ Len(stack[u]) \in 1..Len(stack[u])
      /\ Obeys(u, f, Len(stack[u]) # 1) /\ g \in Frame /\ FrameOK(g) /\ Obeys(t, g, Len(stack[t]) # 1)
  BY <1>0, <1>1, TopObeys
<1>3. f.op \in Sweep \cup {"fire"} /\ f.pc \in {"slot", "peer"}
  BY <1>1 DEF HoldsRef
<1>4. f.op \notin {"connect", "disconnect"} /\ f.pc # "lock" /\ f.pc # "drain"
  BY <1>3 DEF Sweep
<1>5. CASE ~(f.op \in Sweep /\ f.pc = "peer")
  BY <1>1, <1>4, <1>5 DEF WaitsFor
<1>6. CASE f.op \in Sweep /\ f.pc = "peer"
  <2>1. g.op \in Sweep
    BY <1>2 DEF FrameOK, Frame, Sweep
  <2>2. Sweeping(f) /\ ~AtEnd(f)
    <3>1. f.idx \in 1..Len(f.list)
      BY <1>2, <1>6 DEF FrameOK
    <3> QED
      BY <1>2, <1>6, <3>1 DEF Sweeping, AtEnd, Frame
  <2>3. Current(f).obs # f.obj
    BY <1>0, <1>2, <1>6 DEF Always, Frames, PeersOther
  <2>4. /\ k \in MemberSlots
        /\ \/ f.obj = Home[k] /\ Current(f).obs = Owner[k]
           \/ f.obj = Owner[k] /\ Current(f).obs = Home[k]
    BY <1>0, <1>1, <2>2, <2>3, PeerIsEnd
  <2>5. g.obj \in Ends(Home, k) /\ f.obj \in Ends(Home, k)
    BY <1>1, <2>4 DEF Ends
  <2>6. t = Keeper[k] /\ u = Keeper[k]
    BY <1>2, <1>6, <2>1, <2>4, <2>5 DEF Obeys
  <2> QED
    BY <1>6, <2>6
<1> QED
  BY <1>5, <1>6

\* A thread that is waited for waits for nobody, or only for such that do.
LEMMA WaitsEnd ==
  ASSUME Discipline, SlotsSilent, Kept, NEW t \in Threads, NEW u \in WaitsFor(t), NEW v \in WaitsFor(u)
  PROVE  WaitsFor(v) = {}
<1> DEFINE f == Top(t)
<1>0. Always /\ Typed /\ Stacks
  BY TypedParts DEF Kept, Always, LockInv
<1>1. stack[t] # <<>>
  BY DEF WaitsFor
<1>2. /\ f \in Frame /\ FrameOK(f) /\ f.obj \in Objects
  BY <1>0, <1>1, TopOK DEF Frame
<1>3. CASE \E o \in Objects : u \in mutex[o]
  <2>1. /\ u \in Threads /\ stack[u] # <<>> /\ Top(u).op \in Sweep /\ Top(u).pc = "peer"
    BY <1>3, HolderWaits
  <2> QED
    BY <2>1, SweepWaits
<1>4. CASE f.pc = "drain" /\ u \in {r[1] : r \in Refs(f.obj)}
  <2>1. PICK r \in Refs(f.obj) : u = r[1]
    BY <1>4
  <2>2. PICK w \in Threads : \E i \in 1..Len(stack[w]) :
          r = <<w, i>> /\ HoldsRef(stack[w][i]) /\ Current(stack[w][i]).obs = f.obj
    BY <1>0, <2>1, RefsAreFrames
  <2>3. u = w
    BY <2>1, <2>2
  <2>4. WaitsFor(u) = {}
    BY <1>1, <1>4, <2>2, <2>3, VisitorFree
  <2> QED
    BY <2>4
<1>5. (\E o \in Objects : u \in mutex[o]) \/ (f.pc = "drain" /\ u \in {r[1] : r \in Refs(f.obj)})
  <2>1. CASE f.op \in {"connect", "disconnect"}
    <3>0. f.pc # "lock" /\ f.pc # "drain" /\ f.op \notin Sweep
      BY <1>2, <2>1 DEF FrameOK, Sweep
    <3>1. WaitsFor(t) = mutex[Edited(f)]
      BY <1>1, <2>1, <3>0 DEF WaitsFor
    <3> QED
      BY <1>2, <2>1, <3>1, EditedOK
  <2>2. CASE f.op \notin {"connect", "disconnect"} /\ f.pc = "lock"
    <3>1. WaitsFor(t) = mutex[f.obj]
      BY <1>1, <2>2 DEF WaitsFor
    <3> QED
      BY <1>2, <3>1
  <2>3. CASE f.op \notin {"connect", "disconnect"} /\ f.pc # "lock" /\ f.op \in Sweep /\ f.pc = "peer"
    <3>1. WaitsFor(t) = mutex[Current(f).obs]
      BY <1>1, <2>3 DEF WaitsFor
    <3>2. Current(f).obs \in Objects
      <4>1. f.idx \in 1..Len(f.list)
        BY <1>2, <2>3 DEF FrameOK
      <4> QED
        BY <1>2, <4>1, CurrentOK
    <3> QED
      BY <3>1, <3>2
  <2>4. CASE f.op \notin {"connect", "disconnect"} /\ f.pc # "lock" /\ ~(f.op \in Sweep /\ f.pc = "peer")
    BY <1>1, <2>4 DEF WaitsFor
  <2> QED
    BY <2>1, <2>2, <2>3, <2>4
<1> QED
  BY <1>3, <1>4, <1>5

LEMMA KeptFree == Discipline /\ SlotsSilent /\ Kept => NoWaitCycle
<1> SUFFICES ASSUME Discipline, SlotsSilent, Kept, NEW w \in (SUBSET Threads) \ {{}}
             PROVE  \E t \in w : WaitsFor(t) \cap w = {}
  BY DEF NoWaitCycle
<1> SUFFICES ASSUME \A t \in w : \E u \in WaitsFor(t) : u \in w
             PROVE  FALSE
  OBVIOUS
<1>1. \E t : t \in w
  OBVIOUS
<1>2. PICK t : t \in w /\ t \in Threads
  BY <1>1
<1>3. PICK u \in WaitsFor(t) : u \in w
  BY <1>2
<1>4. PICK v \in WaitsFor(u) : v \in w
  BY <1>3
<1>5. WaitsFor(v) = {}
  BY <1>2, <1>3, <1>4, WaitsEnd
<1> QED
  BY <1>4, <1>5

\* Disciplined clients whose slots make no calls, as in the benchmarks, never
\* wait for each other in a circle, neither for mutexes nor for visitors.
THEOREM DisciplinedNoDeadlock == Discipline /\ SlotsSilent => (Spec => []NoWaitCycle)
<1> SUFFICES ASSUME Discipline, SlotsSilent PROVE Spec => []NoWaitCycle
  OBVIOUS
<1>1. Init => Kept
  BY InitKept
<1>2. Kept /\ [Next]_vars => Kept'
  BY NextKept
<1>3. Kept => NoWaitCycle
  BY KeptFree
<1> QED
  BY <1>1, <1>2, <1>3, PTL DEF Spec
================================================================================
