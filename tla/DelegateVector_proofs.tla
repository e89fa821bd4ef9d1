------------------------- MODULE DelegateVector_proofs -------------------------
(***************************************************************************)
(* Z_Order is the Morton order, and insert and remove keep a vector sorted *)
(* by it and complete, for words and vectors of every length.              *)
(***************************************************************************)
EXTENDS DelegateVector, FiniteSetTheorems, SequenceTheorems, WellFoundedInduction, TLAPS

-------------------------------------------------------------------------------
(* The order of binary numbers *)

\* The numbers of n bits.
Binary(n) == [0..(n - 1) -> {0, 1}]

\* The highest bit at which two numbers differ.
Differ(v, w, i) == v[i] # w[i] /\ \A j \in DOMAIN v : i < j => v[j] = w[j]

LEMMA Highest ==
  ASSUME NEW n \in Nat, NEW v \in Binary(n), NEW w \in Binary(n), v # w
  PROVE  \E i \in 0..(n - 1) : Differ(v, w, i)
<1> DEFINE T == {m \in Nat : m <= n - 1 /\ v[n - 1 - m] # w[n - 1 - m]}
<1>1. DOMAIN v = 0..(n - 1) /\ DOMAIN w = 0..(n - 1)
  BY DEF Binary
<1>2. PICK i \in 0..(n - 1) : v[i] # w[i]
  BY <1>1 DEF Binary
<1>3. n - 1 - i \in T
  <2>1. n - 1 - i \in Nat /\ n - 1 - (n - 1 - i) = i /\ n - 1 - i <= n - 1
    BY <1>2
  <2> QED
    BY <1>2, <2>1
<1>4. T \subseteq Nat /\ T # {}
  BY <1>3
<1>5. PICK m \in T : \A y \in T : ~(<<y, m>> \in OpToRel(<, Nat))
  <2> HIDE DEF T
  <2> QED
    BY <1>4, NatLessThanWellFounded, WFMin
<1>6. \A y \in T : ~(y < m)
  BY <1>5 DEF OpToRel
<1>7. m \in Nat /\ n - 1 - m \in 0..(n - 1) /\ v[n - 1 - m] # w[n - 1 - m]
  OBVIOUS
<1>8. ASSUME NEW j \in 0..(n - 1), n - 1 - m < j PROVE v[j] = w[j]
  <2>1. n - 1 - j \in Nat /\ n - 1 - j < m /\ n - 1 - j <= n - 1 /\ n - 1 - (n - 1 - j) = j
    BY <1>7, <1>8
  <2>2. n - 1 - j \notin T
    BY <1>6, <2>1
  <2> QED
    BY <2>1, <2>2
<1> QED
  BY <1>1, <1>7, <1>8 DEF Differ

\* The number with the smaller bit there is the smaller.
LEMMA BelowAt ==
  ASSUME NEW n \in Nat, NEW v \in Binary(n), NEW w \in Binary(n),
         NEW i \in 0..(n - 1), Differ(v, w, i)
  PROVE  Below(v, w) <=> v[i] < w[i]
<1>1. DOMAIN v = 0..(n - 1)
  BY DEF Binary
<1>2. \A j \in 0..(n - 1) : v[j] \in Nat /\ w[j] \in Nat
  BY DEF Binary
<1>3. ASSUME NEW j \in 0..(n - 1), v[j] < w[j], \A m \in 0..(n - 1) : j < m => v[m] = w[m]
      PROVE  j = i
  <2>1. ~(i < j)
    <3> SUFFICES ASSUME i < j PROVE FALSE
      OBVIOUS
    <3>1. v[j] = w[j]
      BY <1>1 DEF Differ
    <3>2. v[j] \in Nat /\ v[j] < w[j]
      BY <1>2, <1>3
    <3> QED
      BY <3>1, <3>2
  <2>2. ~(j < i)
    BY <1>3 DEF Differ
  <2> QED
    BY <2>1, <2>2
<1>4. Below(v, w) => v[i] < w[i]
  BY <1>1, <1>3 DEF Below
<1>5. v[i] < w[i] => Below(v, w)
  BY <1>1 DEF Below, Differ
<1> QED
  BY <1>4, <1>5

LEMMA BelowItself ==
  ASSUME NEW n \in Nat, NEW v \in Binary(n)
  PROVE  ~Below(v, v)
BY DEF Below, Binary

LEMMA BelowTotal ==
  ASSUME NEW n \in Nat, NEW v \in Binary(n), NEW w \in Binary(n)
  PROVE  v = w \/ Below(v, w) \/ Below(w, v)
<1> SUFFICES ASSUME v # w PROVE Below(v, w) \/ Below(w, v)
  OBVIOUS
<1>1. PICK i \in 0..(n - 1) : Differ(v, w, i)
  BY Highest
<1>2. Differ(w, v, i)
  BY <1>1 DEF Differ, Binary
<1>3. (Below(v, w) <=> v[i] < w[i]) /\ (Below(w, v) <=> w[i] < v[i])
  BY <1>1, <1>2, BelowAt
<1>4. v[i] \in Nat /\ w[i] \in Nat /\ v[i] # w[i]
  BY <1>1 DEF Differ, Binary
<1> QED
  BY <1>3, <1>4

LEMMA BelowTransitive ==
  ASSUME NEW n \in Nat, NEW u \in Binary(n), NEW v \in Binary(n), NEW w \in Binary(n),
         Below(u, v), Below(v, w)
  PROVE  Below(u, w)
<1>1. DOMAIN u = 0..(n - 1) /\ DOMAIN v = 0..(n - 1)
  BY DEF Binary
<1>2. \A j \in 0..(n - 1) : u[j] \in {0, 1} /\ v[j] \in {0, 1} /\ w[j] \in {0, 1}
  BY DEF Binary
<1>3. PICK i \in 0..(n - 1) : u[i] < v[i] /\ \A j \in 0..(n - 1) : i < j => u[j] = v[j]
  BY <1>1 DEF Below
<1>4. PICK m \in 0..(n - 1) : v[m] < w[m] /\ \A j \in 0..(n - 1) : m < j => v[j] = w[j]
  BY <1>1 DEF Below
<1>5. CASE i < m
  <2>1. u[m] < w[m]
    BY <1>3, <1>4, <1>5
  <2>2. \A j \in 0..(n - 1) : m < j => u[j] = w[j]
    BY <1>3, <1>4, <1>5
  <2> QED
    BY <1>1, <2>1, <2>2 DEF Below
<1>6. CASE m < i
  <2>1. u[i] < w[i]
    BY <1>3, <1>4, <1>6
  <2>2. \A j \in 0..(n - 1) : i < j => u[j] = w[j]
    BY <1>3, <1>4, <1>6
  <2> QED
    BY <1>1, <2>1, <2>2 DEF Below
<1>7. CASE i = m
  BY <1>2, <1>3, <1>4, <1>7
<1> QED
  BY <1>5, <1>6, <1>7

-------------------------------------------------------------------------------
(* Z_Order *)

LEMMA WordsAreBinary == Bits \in Nat \ {0} /\ Word = Binary(Bits) /\ Word # {}
<1>1. Bits \in Nat \ {0}
  BY SizesAssumption
<1>2. [i \in 0..(Bits - 1) |-> 0] \in Word
  BY DEF Word
<1> QED
  BY <1>1, <1>2 DEF Word, Binary

\* The bits of a Morton code.
LEMMA MortonBits ==
  ASSUME NEW a \in Key
  PROVE  /\ Morton(a) \in Binary(2 * Bits)
         /\ \A i \in 0..(Bits - 1) :
              /\ 2 * i \in 0..(2 * Bits - 1) /\ Morton(a)[2 * i] = a[2][i]
              /\ 2 * i + 1 \in 0..(2 * Bits - 1) /\ Morton(a)[2 * i + 1] = a[1][i]
<1>0. Bits \in Nat \ {0} /\ a[1] \in Binary(Bits) /\ a[2] \in Binary(Bits)
  BY WordsAreBinary DEF Key
<1>1. \A j \in 0..(2 * Bits - 1) : j \div 2 \in 0..(Bits - 1)
  BY <1>0
<1>2. Morton(a) \in Binary(2 * Bits)
  <2>1. \A j \in 0..(2 * Bits - 1) : a[1][j \div 2] \in {0, 1} /\ a[2][j \div 2] \in {0, 1}
    BY <1>0, <1>1 DEF Binary
  <2> QED
    BY <2>1 DEF Morton, Binary
<1>3. ASSUME NEW i \in 0..(Bits - 1)
      PROVE  /\ 2 * i \in 0..(2 * Bits - 1) /\ Morton(a)[2 * i] = a[2][i]
             /\ 2 * i + 1 \in 0..(2 * Bits - 1) /\ Morton(a)[2 * i + 1] = a[1][i]
  <2>1. /\ 2 * i \in 0..(2 * Bits - 1) /\ (2 * i) % 2 # 1 /\ (2 * i) \div 2 = i
        /\ 2 * i + 1 \in 0..(2 * Bits - 1) /\ (2 * i + 1) % 2 = 1 /\ (2 * i + 1) \div 2 = i
    BY <1>0
  <2> QED
    BY <2>1 DEF Morton
<1> QED
  BY <1>2, <1>3

LEMMA MortonPlaces ==
  ASSUME NEW j \in 0..(2 * Bits - 1)
  PROVE  \E i \in 0..(Bits - 1) : j = 2 * i \/ j = 2 * i + 1
<1>1. Bits \in Nat \ {0}
  BY WordsAreBinary
<1>2. j \div 2 \in 0..(Bits - 1) /\ (j = 2 * (j \div 2) \/ j = 2 * (j \div 2) + 1)
  BY <1>1
<1> QED
  BY <1>2

LEMMA XorBits ==
  ASSUME NEW n \in Nat, NEW v \in Binary(n), NEW w \in Binary(n)
  PROVE  /\ ExclusiveOr(v, w) \in Binary(n)
         /\ \A i \in 0..(n - 1) : ExclusiveOr(v, w)[i] = IF v[i] = w[i] THEN 0 ELSE 1
BY DEF ExclusiveOr, Binary

\* The instances differ at the higher bit, or at the same.
LEMMA InstanceLeads ==
  ASSUME NEW a \in Key, NEW b \in Key, NEW i \in 0..(Bits - 1), Differ(a[1], b[1], i),
         \A j \in 0..(Bits - 1) : i < j => a[2][j] = b[2][j]
  PROVE  (Less(a, b) <=> a[1][i] < b[1][i]) /\ (Below(Morton(a), Morton(b)) <=> a[1][i] < b[1][i])
<1> DEFINE x == ExclusiveOr(a[1], b[1])
           y == ExclusiveOr(a[2], b[2])
           z == ExclusiveOr(x, y)
<1>0. /\ Bits \in Nat \ {0} /\ 2 * Bits \in Nat
      /\ a[1] \in Binary(Bits) /\ a[2] \in Binary(Bits)
      /\ b[1] \in Binary(Bits) /\ b[2] \in Binary(Bits)
  BY WordsAreBinary DEF Key
<1>1. /\ DOMAIN a[1] = 0..(Bits - 1)
      /\ a[1][i] # b[1][i] /\ \A j \in 0..(Bits - 1) : i < j => a[1][j] = b[1][j]
  BY <1>0 DEF Differ, Binary
<1>2. /\ x \in Binary(Bits) /\ y \in Binary(Bits)
      /\ \A j \in 0..(Bits - 1) : x[j] = IF a[1][j] = b[1][j] THEN 0 ELSE 1
      /\ \A j \in 0..(Bits - 1) : y[j] = IF a[2][j] = b[2][j] THEN 0 ELSE 1
  BY <1>0, XorBits
<1> HIDE DEF x, y
<1>3. z \in Binary(Bits) /\ \A j \in 0..(Bits - 1) : z[j] = IF x[j] = y[j] THEN 0 ELSE 1
  BY <1>0, <1>2, XorBits
<1> HIDE DEF z
<1>4. DOMAIN x = 0..(Bits - 1) /\ y[i] \in {0, 1}
  BY <1>2 DEF Binary
<1>5. x[i] = 1 /\ \A j \in 0..(Bits - 1) : i < j => x[j] = 0 /\ y[j] = 0
  BY <1>1, <1>2
<1>6. ~(Below(x, y) /\ Below(x, z))
  <2>1. CASE y[i] = 0
    <3>1. Differ(x, y, i)
      BY <1>4, <1>5, <2>1 DEF Differ
    <3> QED
      BY <1>0, <1>2, <1>5, <2>1, <3>1, BelowAt
  <2>2. CASE y[i] = 1
    <3>1. z[i] = 0 /\ \A j \in 0..(Bits - 1) : i < j => z[j] = 0
      BY <1>3, <1>5, <2>2
    <3>2. Differ(x, z, i)
      BY <1>4, <1>5, <3>1 DEF Differ
    <3> QED
      BY <1>0, <1>2, <1>3, <1>5, <3>1, <3>2, BelowAt
  <2> QED
    BY <1>4, <2>1, <2>2
<1>7. Less(a, b) <=> Below(a[1], b[1])
  BY <1>6 DEF Less, x, y, z
<1>8. Below(a[1], b[1]) <=> a[1][i] < b[1][i]
  BY <1>0, BelowAt
<1>9. /\ Morton(a) \in Binary(2 * Bits) /\ Morton(b) \in Binary(2 * Bits)
      /\ 2 * i + 1 \in 0..(2 * Bits - 1)
      /\ Morton(a)[2 * i + 1] = a[1][i] /\ Morton(b)[2 * i + 1] = b[1][i]
  BY MortonBits
<1>10. ASSUME NEW m \in 0..(2 * Bits - 1), 2 * i + 1 < m PROVE Morton(a)[m] = Morton(b)[m]
  <2>1. PICK q \in 0..(Bits - 1) : m = 2 * q \/ m = 2 * q + 1
    BY MortonPlaces
  <2>2. i < q
    BY <1>0, <1>10, <2>1
  <2>3. a[1][q] = b[1][q] /\ a[2][q] = b[2][q]
    BY <1>1, <2>2
  <2> QED
    BY <2>1, <2>3, MortonBits
<1>11. Differ(Morton(a), Morton(b), 2 * i + 1)
  <2>1. DOMAIN Morton(a) = 0..(2 * Bits - 1)
    BY DEF Morton
  <2> QED
    BY <1>1, <1>9, <1>10, <2>1 DEF Differ
<1>12. Below(Morton(a), Morton(b)) <=> a[1][i] < b[1][i]
  BY <1>0, <1>9, <1>11, BelowAt
<1> QED
  BY <1>7, <1>8, <1>12

\* The functions differ at a higher bit than the instances do.
LEMMA FunctionLeads ==
  ASSUME NEW a \in Key, NEW b \in Key, NEW i \in 0..(Bits - 1), Differ(a[2], b[2], i),
         \A j \in 0..(Bits - 1) : i <= j => a[1][j] = b[1][j]
  PROVE  (Less(a, b) <=> a[2][i] < b[2][i]) /\ (Below(Morton(a), Morton(b)) <=> a[2][i] < b[2][i])
<1> DEFINE x == ExclusiveOr(a[1], b[1])
           y == ExclusiveOr(a[2], b[2])
           z == ExclusiveOr(x, y)
<1>0. /\ Bits \in Nat \ {0} /\ 2 * Bits \in Nat
      /\ a[1] \in Binary(Bits) /\ a[2] \in Binary(Bits)
      /\ b[1] \in Binary(Bits) /\ b[2] \in Binary(Bits)
  BY WordsAreBinary DEF Key
<1>1. /\ DOMAIN a[2] = 0..(Bits - 1)
      /\ a[2][i] # b[2][i] /\ \A j \in 0..(Bits - 1) : i < j => a[2][j] = b[2][j]
  BY <1>0 DEF Differ, Binary
<1>2. /\ x \in Binary(Bits) /\ y \in Binary(Bits)
      /\ \A j \in 0..(Bits - 1) : x[j] = IF a[1][j] = b[1][j] THEN 0 ELSE 1
      /\ \A j \in 0..(Bits - 1) : y[j] = IF a[2][j] = b[2][j] THEN 0 ELSE 1
  BY <1>0, XorBits
<1> HIDE DEF x, y
<1>3. z \in Binary(Bits) /\ \A j \in 0..(Bits - 1) : z[j] = IF x[j] = y[j] THEN 0 ELSE 1
  BY <1>0, <1>2, XorBits
<1> HIDE DEF z
<1>4. /\ x[i] = 0 /\ y[i] = 1 /\ z[i] = 1
      /\ \A j \in 0..(Bits - 1) : i < j => x[j] = 0 /\ y[j] = 0 /\ z[j] = 0
  <2>1. x[i] = 0 /\ y[i] = 1 /\ \A j \in 0..(Bits - 1) : i < j => x[j] = 0 /\ y[j] = 0
    BY <1>1, <1>2
  <2> QED
    BY <1>3, <2>1
<1>5. Below(x, y) /\ Below(x, z)
  <2>1. DOMAIN x = 0..(Bits - 1)
    BY <1>2 DEF Binary
  <2> QED
    BY <1>4, <2>1 DEF Below
<1>6. Less(a, b) <=> Below(a[2], b[2])
  BY <1>5 DEF Less, x, y, z
<1>7. Below(a[2], b[2]) <=> a[2][i] < b[2][i]
  BY <1>0, BelowAt
<1>8. /\ Morton(a) \in Binary(2 * Bits) /\ Morton(b) \in Binary(2 * Bits)
      /\ 2 * i \in 0..(2 * Bits - 1)
      /\ Morton(a)[2 * i] = a[2][i] /\ Morton(b)[2 * i] = b[2][i]
  BY MortonBits
<1>9. ASSUME NEW m \in 0..(2 * Bits - 1), 2 * i < m PROVE Morton(a)[m] = Morton(b)[m]
  <2>1. PICK q \in 0..(Bits - 1) : m = 2 * q \/ m = 2 * q + 1
    BY MortonPlaces
  <2>2. CASE m = 2 * q
    <3>1. i < q
      BY <1>0, <1>9, <2>2
    <3>2. a[2][q] = b[2][q]
      BY <1>1, <3>1
    <3> QED
      BY <2>2, <3>2, MortonBits
  <2>3. CASE m = 2 * q + 1
    <3>1. i <= q
      BY <1>0, <1>9, <2>3
    <3>2. a[1][q] = b[1][q]
      BY <3>1
    <3> QED
      BY <2>3, <3>2, MortonBits
  <2> QED
    BY <2>1, <2>2, <2>3
<1>10. Differ(Morton(a), Morton(b), 2 * i)
  <2>1. DOMAIN Morton(a) = 0..(2 * Bits - 1)
    BY DEF Morton
  <2> QED
    BY <1>1, <1>8, <1>9, <2>1 DEF Differ
<1>11. Below(Morton(a), Morton(b)) <=> a[2][i] < b[2][i]
  BY <1>0, <1>8, <1>10, BelowAt
<1> QED
  BY <1>6, <1>7, <1>11

\* What differs at the higher bit decides, in Z_Order as in the Morton code.
THEOREM ZOrderIsMorton ==
  ASSUME NEW a \in Key, NEW b \in Key
  PROVE  Less(a, b) <=> Below(Morton(a), Morton(b))
<1>0. /\ Bits \in Nat \ {0} /\ 2 * Bits \in Nat /\ a = <<a[1], a[2]>> /\ b = <<b[1], b[2]>>
      /\ a[1] \in Binary(Bits) /\ a[2] \in Binary(Bits)
      /\ b[1] \in Binary(Bits) /\ b[2] \in Binary(Bits)
  BY WordsAreBinary DEF Key
<1>d. DOMAIN a[1] = 0..(Bits - 1) /\ DOMAIN a[2] = 0..(Bits - 1)
  BY <1>0 DEF Binary
<1>1. CASE a[1] = b[1] /\ a[2] = b[2]
  <2>1. a = b
    BY <1>0, <1>1
  <2>2. ~Below(a[1], b[1]) /\ ~Below(a[2], b[2])
    BY <1>0, <1>1, BelowItself
  <2>3. ~Less(a, b)
    BY <2>2 DEF Less
  <2>4. ~Below(Morton(a), Morton(b))
    BY <1>0, <2>1, MortonBits, BelowItself
  <2> QED
    BY <2>3, <2>4
<1>2. CASE a[1] # b[1] /\ a[2] = b[2]
  <2>1. PICK i \in 0..(Bits - 1) : Differ(a[1], b[1], i)
    BY <1>0, <1>2, Highest
  <2> QED
    BY <1>2, <2>1, InstanceLeads
<1>3. CASE a[1] = b[1] /\ a[2] # b[2]
  <2>1. PICK i \in 0..(Bits - 1) : Differ(a[2], b[2], i)
    BY <1>0, <1>3, Highest
  <2> QED
    BY <1>3, <2>1, FunctionLeads
<1>4. CASE a[1] # b[1] /\ a[2] # b[2]
  <2>1. PICK i \in 0..(Bits - 1) : Differ(a[1], b[1], i)
    BY <1>0, <1>4, Highest
  <2>2. PICK m \in 0..(Bits - 1) : Differ(a[2], b[2], m)
    BY <1>0, <1>4, Highest
  <2>3. CASE m <= i
    <3>1. \A j \in 0..(Bits - 1) : i < j => a[2][j] = b[2][j]
      BY <1>d, <2>2, <2>3 DEF Differ
    <3> QED
      BY <2>1, <3>1, InstanceLeads
  <2>4. CASE i < m
    <3>1. \A j \in 0..(Bits - 1) : m <= j => a[1][j] = b[1][j]
      BY <1>d, <2>1, <2>4 DEF Differ
    <3> QED
      BY <2>2, <3>1, FunctionLeads
  <2> QED
    BY <2>3, <2>4
<1> QED
  BY <1>1, <1>2, <1>3, <1>4

\* Keys with the same code are the same.
LEMMA MortonTells ==
  ASSUME NEW a \in Key, NEW b \in Key, Morton(a) = Morton(b)
  PROVE  a = b
<1>0. /\ a = <<a[1], a[2]>> /\ b = <<b[1], b[2]>>
      /\ a[1] \in Binary(Bits) /\ a[2] \in Binary(Bits)
      /\ b[1] \in Binary(Bits) /\ b[2] \in Binary(Bits)
  BY WordsAreBinary DEF Key
<1>1. \A i \in 0..(Bits - 1) : a[1][i] = b[1][i] /\ a[2][i] = b[2][i]
  BY MortonBits
<1>2. /\ a[1] = [i \in 0..(Bits - 1) |-> a[1][i]] /\ a[2] = [i \in 0..(Bits - 1) |-> a[2][i]]
      /\ b[1] = [i \in 0..(Bits - 1) |-> b[1][i]] /\ b[2] = [i \in 0..(Bits - 1) |-> b[2][i]]
  BY <1>0 DEF Binary
<1>3. a[1] = b[1] /\ a[2] = b[2]
  BY <1>1, <1>2
<1> QED
  BY <1>0, <1>3

\* Z_Order is a strict total order of the keys.
LEMMA ZOrderTotal ==
  /\ \A a \in Key : ~Less(a, a)
  /\ \A a, b \in Key : a = b \/ Less(a, b) \/ Less(b, a)
  /\ \A a, b, c \in Key : Less(a, b) /\ Less(b, c) => Less(a, c)
  /\ \A a, b \in Key : ~(Less(a, b) /\ Less(b, a))
<1>0. 2 * Bits \in Nat
  BY WordsAreBinary
<1>1. ASSUME NEW a \in Key PROVE ~Less(a, a)
  BY <1>0, MortonBits, BelowItself, ZOrderIsMorton
<1>2. ASSUME NEW a \in Key, NEW b \in Key PROVE a = b \/ Less(a, b) \/ Less(b, a)
  BY <1>0, MortonBits, BelowTotal, MortonTells, ZOrderIsMorton
<1>3. ASSUME NEW a \in Key, NEW b \in Key, NEW c \in Key, Less(a, b), Less(b, c)
      PROVE  Less(a, c)
  <2>1. Below(Morton(a), Morton(b)) /\ Below(Morton(b), Morton(c))
    BY <1>3, ZOrderIsMorton
  <2>2. Below(Morton(a), Morton(c))
    BY <1>0, <2>1, MortonBits, BelowTransitive
  <2> QED
    BY <2>2, ZOrderIsMorton
<1> QED
  BY <1>1, <1>2, <1>3

-------------------------------------------------------------------------------
(* Edits of a vector *)

\* A part of a vector.
LEMMA Part ==
  ASSUME NEW s \in Seq(Key), NEW m \in Nat \ {0}, NEW n \in 0..Len(s)
  PROVE  /\ SubSeq(s, m, n) \in Seq(Key)
         /\ Len(SubSeq(s, m, n)) = IF m <= n THEN n - m + 1 ELSE 0
         /\ \A i \in 1..Len(SubSeq(s, m, n)) : SubSeq(s, m, n)[i] = s[m + i - 1]
<1> DEFINE r == SubSeq(s, m, n)
<1>0. Len(s) \in Nat
  OBVIOUS
<1>1. \A i \in m..n : s[i] \in Key
  BY <1>0, ElementOfSeq
<1>2. /\ r \in Seq(Key)
      /\ Len(r) = IF m <= n THEN n - m + 1 ELSE 0
      /\ \A i \in 1..(n - m + 1) : r[i] = s[m + i - 1]
  BY <1>0, <1>1, SubSeqProperties
<1>3. \A i \in 1..Len(r) : i \in 1..(n - m + 1)
  BY <1>0, <1>2
<1> QED
  BY <1>2, <1>3

\* Where elements go when one is inserted.
LEMMA InsertedAt ==
  ASSUME NEW s \in Seq(Key), NEW p \in 0..Len(s), NEW e \in Key
  PROVE  LET r == InsertAt(s, p + 1, e) IN
         /\ r \in Seq(Key) /\ Len(r) = Len(s) + 1
         /\ \A j \in 1..Len(r) : r[j] = IF j <= p THEN s[j] ELSE IF j = p + 1 THEN e ELSE s[j - 1]
<1> DEFINE before == SubSeq(s, 1, p)
           after == SubSeq(s, p + 1, Len(s))
<1>0. Len(s) \in Nat
  OBVIOUS
<1>1. p \in 0..Len(s)
  OBVIOUS
<1>2. InsertAt(s, p + 1, e) = before \o <<e>> \o after
  <2>1. (p + 1) - 1 = p
    BY <1>1
  <2> QED
    BY <2>1 DEF InsertAt
<1>3. before \in Seq(Key) /\ Len(before) = p /\ \A i \in 1..p : before[i] = s[i]
  <2>0. 1 \in Nat \ {0} /\ p \in 0..Len(s)
    BY <1>0, <1>1
  <2>1. /\ before \in Seq(Key)
        /\ Len(before) = IF 1 <= p THEN p - 1 + 1 ELSE 0
        /\ \A i \in 1..Len(before) : before[i] = s[1 + i - 1]
    BY <2>0, Part
  <2>2. Len(before) = p
    BY <1>1, <2>1
  <2> QED
    BY <1>1, <2>1, <2>2
<1>4. /\ after \in Seq(Key) /\ Len(after) = Len(s) - p
      /\ \A i \in 1..(Len(s) - p) : after[i] = s[p + i]
  <2>0. p + 1 \in Nat \ {0} /\ Len(s) \in 0..Len(s)
    BY <1>0, <1>1
  <2>1. /\ after \in Seq(Key)
        /\ Len(after) = IF p + 1 <= Len(s) THEN Len(s) - (p + 1) + 1 ELSE 0
        /\ \A i \in 1..Len(after) : after[i] = s[p + 1 + i - 1]
    BY <2>0, Part
  <2>2. Len(after) = Len(s) - p
    BY <1>0, <1>1, <2>1
  <2> QED
    BY <1>0, <1>1, <2>1, <2>2
<1> DEFINE front == before \o <<e>>
<1>5. /\ front \in Seq(Key) /\ Len(front) = p + 1
      /\ \A i \in 1..(p + 1) : front[i] = IF i <= p THEN s[i] ELSE e
  <2>1. <<e>> \in Seq(Key) /\ Len(<<e>>) = 1 /\ <<e>>[1] = e
    BY <1>0
  <2>2. /\ front \in Seq(Key) /\ Len(front) = Len(before) + 1
        /\ \A i \in 1..(Len(before) + 1) :
              front[i] = IF i <= Len(before) THEN before[i] ELSE <<e>>[i - Len(before)]
    BY <1>3, <2>1, ConcatProperties
  <2>3. \A i \in 1..(p + 1) : i <= p \/ i - p = 1
    BY <1>1
  <2> QED
    BY <1>1, <1>3, <2>1, <2>2, <2>3
<1> HIDE DEF front, after
<1> DEFINE r == front \o after
<1>6. /\ Len(r) = p + 1 + (Len(s) - p)
      /\ \A i \in 1..(p + 1 + (Len(s) - p)) : r[i] = IF i <= p + 1 THEN front[i] ELSE after[i - (p + 1)]
  <2>1. /\ Len(r) = Len(front) + Len(after)
        /\ \A i \in 1..(Len(front) + Len(after)) :
             r[i] = IF i <= Len(front) THEN front[i] ELSE after[i - Len(front)]
    BY <1>4, <1>5, ConcatProperties
  <2> QED
    BY <1>4, <1>5, <2>1
<1>7. Len(r) = Len(s) + 1
  BY <1>0, <1>1, <1>6
<1>8. ASSUME NEW j \in 1..Len(r)
      PROVE  r[j] = IF j <= p THEN s[j] ELSE IF j = p + 1 THEN e ELSE s[j - 1]
  <2>1. CASE j <= p + 1
    <3>1. j \in 1..(p + 1) /\ r[j] = front[j]
      BY <1>0, <1>1, <1>6, <1>7, <2>1
    <3>2. j <= p \/ j = p + 1
      BY <1>1, <2>1
    <3> QED
      BY <1>1, <1>5, <3>1, <3>2
  <2>2. CASE j > p + 1
    <3>1. j - (p + 1) \in 1..(Len(s) - p) /\ p + (j - (p + 1)) = j - 1 /\ ~(j <= p) /\ j # p + 1
      BY <1>0, <1>1, <1>7, <2>2
    <3>2. r[j] = after[j - (p + 1)]
      BY <1>0, <1>1, <1>6, <1>7, <2>2
    <3> QED
      BY <1>4, <3>1, <3>2
  <2> QED
    BY <1>1, <1>7, <2>1, <2>2
<1>9. r \in Seq(Key)
  BY <1>4, <1>5, ConcatProperties
<1>10. InsertAt(s, p + 1, e) = r
  BY <1>2 DEF front
<1> HIDE DEF r
<1> QED
  BY <1>7, <1>8, <1>9, <1>10

\* Where they go when some in a row are removed.
LEMMA RemovedAt ==
  ASSUME NEW s \in Seq(Key), NEW p \in 0..Len(s), NEW l \in 0..p
  PROVE  LET r == SubSeq(s, 1, l) \o SubSeq(s, p + 1, Len(s)) IN
         /\ r \in Seq(Key) /\ Len(r) = Len(s) - (p - l)
         /\ \A j \in 1..Len(r) : r[j] = IF j <= l THEN s[j] ELSE s[j + (p - l)]
<1> DEFINE before == SubSeq(s, 1, l)
           after == SubSeq(s, p + 1, Len(s))
<1>0. Len(s) \in Nat
  OBVIOUS
<1>1. l \in 0..Len(s) /\ l <= p
  BY <1>0
<1>2. p \in 0..Len(s)
  OBVIOUS
<1>6. before \in Seq(Key) /\ Len(before) = l /\ \A i \in 1..l : before[i] = s[i]
  <2>0. 1 \in Nat \ {0} /\ l \in 0..Len(s)
    BY <1>0, <1>1
  <2>1. /\ before \in Seq(Key)
        /\ Len(before) = IF 1 <= l THEN l - 1 + 1 ELSE 0
        /\ \A i \in 1..Len(before) : before[i] = s[1 + i - 1]
    BY <2>0, Part
  <2>2. Len(before) = l
    BY <1>1, <2>1
  <2> QED
    BY <1>1, <2>1, <2>2
<1>7. /\ after \in Seq(Key) /\ Len(after) = Len(s) - p
      /\ \A i \in 1..(Len(s) - p) : after[i] = s[p + i]
  <2>0. p + 1 \in Nat \ {0} /\ Len(s) \in 0..Len(s)
    BY <1>0, <1>2
  <2>1. /\ after \in Seq(Key)
        /\ Len(after) = IF p + 1 <= Len(s) THEN Len(s) - (p + 1) + 1 ELSE 0
        /\ \A i \in 1..Len(after) : after[i] = s[p + 1 + i - 1]
    BY <2>0, Part
  <2>2. Len(after) = Len(s) - p
    BY <1>0, <1>2, <2>1
  <2> QED
    BY <1>0, <1>2, <2>1, <2>2
<1> HIDE DEF before, after
<1> DEFINE r == before \o after
<1>8. /\ Len(r) = l + (Len(s) - p)
      /\ \A i \in 1..(l + (Len(s) - p)) : r[i] = IF i <= l THEN before[i] ELSE after[i - l]
  <2>1. /\ Len(r) = Len(before) + Len(after)
        /\ \A i \in 1..(Len(before) + Len(after)) :
             r[i] = IF i <= Len(before) THEN before[i] ELSE after[i - Len(before)]
    BY <1>6, <1>7, ConcatProperties
  <2> QED
    BY <1>6, <1>7, <2>1
<1>9. Len(r) = Len(s) - (p - l)
  BY <1>0, <1>1, <1>2, <1>8
<1>10. ASSUME NEW j \in 1..Len(r) PROVE r[j] = IF j <= l THEN s[j] ELSE s[j + (p - l)]
  <2>1. CASE j <= l
    <3>1. j \in 1..l /\ r[j] = before[j]
      BY <1>0, <1>1, <1>2, <1>8, <2>1
    <3> QED
      BY <1>6, <2>1, <3>1
  <2>2. CASE j > l
    <3>1. j - l \in 1..(Len(s) - p) /\ p + (j - l) = j + (p - l) /\ ~(j <= l)
      BY <1>0, <1>1, <1>2, <1>8, <2>2
    <3>2. r[j] = after[j - l]
      BY <1>0, <1>1, <1>2, <1>8, <3>1
    <3> QED
      BY <1>7, <3>1, <3>2
  <2> QED
    BY <1>1, <1>9, <2>1, <2>2
<1>11. r \in Seq(Key)
  BY <1>6, <1>7, ConcatProperties
<1> QED
  BY <1>9, <1>10, <1>11 DEF before, after

-------------------------------------------------------------------------------
(* How often a key is in a vector *)

Num(s, k) == Cardinality({i \in 1..Len(s) : s[i] = k})

\* Numbers that are moved up keep their number.
LEMMA Moved ==
  ASSUME NEW n \in Nat, NEW A \in SUBSET (1..n), NEW B, NEW f \in [A -> B],
         \A i, j \in A : f[i] = f[j] => i = j,
         \A j \in B : \E i \in A : f[i] = j
  PROVE  IsFiniteSet(A) /\ IsFiniteSet(B) /\ Cardinality(B) = Cardinality(A)
<1>1. IsFiniteSet(A)
  <2>1. 1 \in Int /\ n \in Int
    OBVIOUS
  <2>2. IsFiniteSet(1..n)
    BY <2>1, FS_Interval
  <2> QED
    BY <2>2, FS_Subset
<1>2. f \in Bijection(A, B)
  BY DEF Bijection, Injection, Surjection, IsInjective
<1> QED
  BY <1>1, <1>2, FS_Bijection DEF ExistsBijection

LEMMA NumInserted ==
  ASSUME NEW s \in Seq(Key), NEW p \in 0..Len(s), NEW k \in Key, NEW j
  PROVE  Num(InsertAt(s, p + 1, k), j) = IF j = k THEN Num(s, j) + 1 ELSE Num(s, j)
<1> DEFINE r == InsertAt(s, p + 1, k)
           A == {i \in 1..Len(s) : s[i] = j}
           B == {i \in 1..Len(r) : r[i] = j}
           M == B \ {p + 1}
           f == [i \in A |-> IF i <= p THEN i ELSE i + 1]
<1>0. Len(s) \in Nat
  OBVIOUS
<1>1. /\ p \in 0..Len(s) /\ Len(r) = Len(s) + 1
      /\ \A i \in 1..(Len(s) + 1) :
           r[i] = IF i <= p THEN s[i] ELSE IF i = p + 1 THEN k ELSE s[i - 1]
  <2>1. /\ Len(r) = Len(s) + 1
        /\ \A i \in 1..Len(r) :
             r[i] = IF i <= p THEN s[i] ELSE IF i = p + 1 THEN k ELSE s[i - 1]
    BY InsertedAt
  <2> HIDE DEF r
  <2> QED
    BY <2>1
<1> HIDE DEF r
<1>2. r[p + 1] = k /\ p + 1 \in 1..Len(r)
  <2>1. p + 1 \in 1..(Len(s) + 1) /\ ~(p + 1 <= p)
    BY <1>0, <1>1
  <2>2. r[p + 1] = k
    BY <1>1, <2>1
  <2> QED
    BY <1>1, <2>1, <2>2
<1>3. \A i \in A : f[i] \in M
  <2> SUFFICES ASSUME NEW i \in A PROVE f[i] \in M
    OBVIOUS
  <2>1. CASE i <= p
    <3>1. i \in 1..(Len(s) + 1) /\ r[i] = s[i] /\ i # p + 1
      BY <1>0, <1>1, <2>1
    <3> QED
      BY <1>1, <2>1, <3>1
  <2>2. CASE ~(i <= p)
    <3>1. i + 1 \in 1..(Len(s) + 1) /\ ~(i + 1 <= p) /\ i + 1 # p + 1 /\ i + 1 - 1 = i
      BY <1>0, <1>1, <2>2
    <3>2. r[i + 1] = s[i]
      BY <1>1, <3>1
    <3> QED
      BY <1>1, <2>2, <3>1, <3>2
  <2> QED
    BY <2>1, <2>2
<1>4. f \in [A -> M] /\ \A i, m \in A : f[i] = f[m] => i = m
  <2>1. f \in [A -> M]
    BY <1>3
  <2>2. \A i, m \in A : f[i] = f[m] => i = m
    BY <1>0, <1>1
  <2> QED
    BY <2>1, <2>2
<1>5. ASSUME NEW m \in M PROVE \E i \in A : f[i] = m
  <2>0. m \in 1..(Len(s) + 1) /\ r[m] = j /\ m # p + 1
    BY <1>1
  <2>1. CASE m <= p
    <3>1. m \in 1..Len(s) /\ r[m] = s[m]
      BY <1>0, <1>1, <2>0, <2>1
    <3>2. m \in A
      BY <2>0, <3>1
    <3> QED
      BY <2>1, <3>2
  <2>2. CASE ~(m <= p)
    <3>1. m - 1 \in 1..Len(s) /\ r[m] = s[m - 1] /\ ~(m - 1 <= p) /\ m - 1 + 1 = m
      BY <1>0, <1>1, <2>0, <2>2
    <3>2. m - 1 \in A
      BY <2>0, <3>1
    <3>3. f[m - 1] = m
      BY <3>1, <3>2
    <3> QED
      BY <3>2, <3>3
  <2> QED
    BY <2>1, <2>2
<1> HIDE DEF f
<1>6. IsFiniteSet(A) /\ IsFiniteSet(M) /\ Cardinality(M) = Cardinality(A)
  <2>1. A \in SUBSET (1..Len(s))
    OBVIOUS
  <2> HIDE DEF A, M
  <2> QED
    BY <1>0, <1>4, <1>5, <2>1, Moved
<1>7. CASE j = k
  <2>1. B = M \cup {p + 1}
    BY <1>2, <1>7
  <2>2. Cardinality(M \cup {p + 1}) = Cardinality(M) + 1
    BY <1>6, FS_AddElement
  <2> HIDE DEF M
  <2>3. Cardinality(B) = Cardinality(A) + 1
    BY <1>6, <2>1, <2>2
  <2> QED
    BY <1>7, <2>3 DEF Num, r
<1>8. CASE j # k
  <2>1. B = M
    BY <1>2, <1>8
  <2>2. Cardinality(B) = Cardinality(A)
    BY <1>6, <2>1
  <2> QED
    BY <1>8, <2>2 DEF Num, r
<1> QED
  BY <1>7, <1>8

LEMMA NumZero ==
  ASSUME NEW s, NEW k, \A i \in 1..Len(s) : s[i] # k
  PROVE  Num(s, k) = 0
<1>1. {i \in 1..Len(s) : s[i] = k} = {}
  OBVIOUS
<1> QED
  BY <1>1, FS_EmptySet DEF Num

LEMMA NumRemoved ==
  ASSUME NEW s \in Seq(Key), NEW p \in 0..Len(s), NEW l \in 0..p, NEW k,
         \A i \in 1..Len(s) : s[i] = k <=> l < i /\ i <= p, NEW j
  PROVE  /\ j = k => Num(SubSeq(s, 1, l) \o SubSeq(s, p + 1, Len(s)), j) = 0
         /\ j # k => Num(SubSeq(s, 1, l) \o SubSeq(s, p + 1, Len(s)), j) = Num(s, j)
<1> DEFINE r == SubSeq(s, 1, l) \o SubSeq(s, p + 1, Len(s))
           A == {i \in 1..Len(s) : s[i] = j}
           B == {i \in 1..Len(r) : r[i] = j}
           f == [i \in A |-> IF i <= l THEN i ELSE i - (p - l)]
<1>0. Len(s) \in Nat
  OBVIOUS
<1>1. /\ l \in 0..p /\ p \in 0..Len(s) /\ Len(r) = Len(s) - (p - l)
      /\ \A i \in 1..Len(r) : r[i] = IF i <= l THEN s[i] ELSE s[i + (p - l)]
      /\ \A i \in 1..Len(s) : s[i] = k <=> l < i /\ i <= p
  BY RemovedAt
<1> HIDE DEF r
<1>2. CASE j = k
  <2>1. ASSUME NEW i \in 1..Len(r) PROVE r[i] # k
    <3>1. CASE i <= l
      <4>1. i \in 1..Len(s) /\ r[i] = s[i]
        BY <1>0, <1>1, <3>1
      <4> QED
        BY <1>1, <3>1, <4>1
    <3>2. CASE ~(i <= l)
      <4>1. i + (p - l) \in 1..Len(s) /\ r[i] = s[i + (p - l)] /\ ~(i + (p - l) <= p)
        BY <1>0, <1>1, <3>2
      <4> QED
        BY <1>1, <4>1
    <3> QED
      BY <3>1, <3>2
  <2> QED
    BY <1>2, <2>1, NumZero DEF r
<1>3. CASE j # k
  <2>0. \A i \in A : i \in 1..Len(s) /\ s[i] = j /\ (i <= l \/ i > p)
    BY <1>0, <1>1, <1>3
  <2>1. \A i \in A : f[i] \in B
    <3> SUFFICES ASSUME NEW i \in A PROVE f[i] \in B
      OBVIOUS
    <3>1. CASE i <= l
      <4>1. i \in 1..Len(r) /\ r[i] = s[i]
        BY <1>0, <1>1, <2>0, <3>1
      <4> QED
        BY <2>0, <3>1, <4>1
    <3>2. CASE ~(i <= l)
      <4>1. i - (p - l) \in 1..Len(r) /\ ~(i - (p - l) <= l) /\ i - (p - l) + (p - l) = i
        BY <1>0, <1>1, <2>0, <3>2
      <4>2. r[i - (p - l)] = s[i]
        BY <1>1, <4>1
      <4> QED
        BY <2>0, <3>2, <4>1, <4>2
    <3> QED
      BY <3>1, <3>2
  <2>2. f \in [A -> B]
    BY <2>1
  <2>3. \A i, m \in A : f[i] = f[m] => i = m
    BY <1>0, <1>1, <2>0
  <2>4. ASSUME NEW m \in B PROVE \E i \in A : f[i] = m
    <3>1. CASE m <= l
      <4>1. m \in 1..Len(s) /\ r[m] = s[m]
        BY <1>0, <1>1, <3>1
      <4>2. m \in A
        BY <4>1
      <4> QED
        BY <3>1, <4>2
    <3>2. CASE ~(m <= l)
      <4>1. /\ m + (p - l) \in 1..Len(s) /\ r[m] = s[m + (p - l)]
            /\ ~(m + (p - l) <= l) /\ m + (p - l) - (p - l) = m
        BY <1>0, <1>1, <3>2
      <4>2. m + (p - l) \in A
        BY <4>1
      <4>3. f[m + (p - l)] = m
        BY <1>0, <1>1, <4>1, <4>2
      <4> QED
        BY <4>2, <4>3
    <3> QED
      BY <3>1, <3>2
  <2> HIDE DEF f
  <2>5. A \in SUBSET (1..Len(s))
    OBVIOUS
  <2>6. Cardinality(B) = Cardinality(A)
    <3> HIDE DEF A, B
    <3> QED
      BY <1>0, <2>2, <2>3, <2>4, <2>5, Moved
  <2> QED
    BY <1>3, <2>6 DEF Num, r
<1> QED
  BY <1>2, <1>3

-------------------------------------------------------------------------------
(* The searches and the vector *)

Call == [op : {"insert", "remove"}, key : Key, bound : {"lower", "upper"},
         first : Nat, len : Nat, lower : Nat]

Typed == /\ connections \in Seq(Key)
         /\ listed \in [Key -> Nat]
         /\ search \in {Idle} \cup Call

SortedKeys ==
  \A i, j \in 1..Len(connections) : i < j => ~Less(connections[j], connections[i])

\* What a search has passed lies on the right side of the position searched,
\* and the lower bound it brings along is one.
SearchOK ==
  search # Idle =>
    /\ search.op = "insert" => search.bound = "upper"
    /\ search.first \in 0..Len(connections) /\ search.len \in 0..(Len(connections) - search.first)
    /\ \A i \in 1..search.first : Ahead(connections[i])
    /\ \A i \in (search.first + search.len + 1)..Len(connections) : ~Ahead(connections[i])
    /\ search.op = "remove" /\ search.bound = "upper" =>
         /\ search.lower \in 0..Len(connections)
         /\ \A i \in 1..search.lower : Less(connections[i], search.key)
         /\ \A i \in (search.lower + 1)..Len(connections) : ~Less(connections[i], search.key)

Counted == \A key \in Key : listed[key] = Num(connections, key)

Inv == Typed /\ SortedKeys /\ SearchOK /\ Counted

LEMMA CallOK ==
  ASSUME Typed
  PROVE  /\ Len(connections) \in Nat /\ DOMAIN connections = 1..Len(connections)
         /\ \A i \in 1..Len(connections) : connections[i] \in Key
         /\ search = Idle \/ (search \in Call /\ search # Idle)
<1>1. \A s \in Call : s.op # "none"
  BY DEF Call
<1>2. Idle.op = "none"
  BY DEF Idle
<1>3. \A i \in 1..Len(connections) : connections[i] \in Key
  BY ElementOfSeq DEF Typed
<1>4. Len(connections) \in Nat /\ DOMAIN connections = 1..Len(connections)
  BY DEF Typed
<1>5. search = Idle \/ (search \in Call /\ search # Idle)
  BY <1>1, <1>2 DEF Typed
<1> QED
  BY <1>3, <1>4, <1>5

\* Before an element that is behind the position searched all are.
LEMMA AheadBefore ==
  ASSUME Typed, SortedKeys, search \in Call,
         NEW i \in 1..Len(connections), NEW j \in 1..Len(connections), i < j, Ahead(connections[j])
  PROVE  Ahead(connections[i])
<1>1. connections[i] \in Key /\ connections[j] \in Key /\ search.key \in Key
  BY CallOK DEF Call
<1>2. connections[i] = connections[j] \/ Less(connections[i], connections[j])
  <2>1. ~Less(connections[j], connections[i])
    BY DEF SortedKeys
  <2> QED
    BY <1>1, <2>1, ZOrderTotal
<1>3. CASE search.bound = "lower"
  <2>1. Less(connections[j], search.key)
    BY <1>3 DEF Ahead
  <2>2. Less(connections[i], search.key)
    BY <1>1, <1>2, <2>1, ZOrderTotal
  <2> QED
    BY <1>3, <2>2 DEF Ahead
<1>4. CASE search.bound # "lower"
  <2>1. ~Less(search.key, connections[j])
    BY <1>4 DEF Ahead
  <2>2. ~Less(search.key, connections[i])
    BY <1>1, <1>2, <2>1, ZOrderTotal
  <2> QED
    BY <1>4, <2>2 DEF Ahead
<1> QED
  BY <1>3, <1>4

LEMMA InitInv == Init => Inv
<1> SUFFICES ASSUME Init PROVE Inv
  OBVIOUS
<1>1. connections = <<>> /\ Len(connections) = 0 /\ 1..Len(connections) = {}
  <2>1. connections = <<>> /\ Len(connections) = 0
    BY DEF Init
  <2> QED
    BY <2>1
<1>2. Typed
  BY DEF Init, Typed
<1>3. SortedKeys /\ SearchOK
  BY <1>1 DEF Init, SortedKeys, SearchOK
<1>4. Counted
  BY <1>1, NumZero DEF Init, Counted
<1> QED
  BY <1>2, <1>3, <1>4 DEF Inv

\* A search begins with the whole vector.
LEMMA BeginOK ==
  ASSUME Inv, NEW op \in {"insert", "remove"}, NEW key \in Key, NEW bound \in {"lower", "upper"},
         NEW lower \in Nat, SearchFor(op, key, bound, lower), UNCHANGED <<connections, listed>>,
         op = "insert" => bound = "upper",
         op = "remove" /\ bound = "upper" =>
           /\ lower \in 0..Len(connections)
           /\ \A i \in 1..lower : Less(connections[i], key)
           /\ \A i \in (lower + 1)..Len(connections) : ~Less(connections[i], key)
  PROVE  Inv'
<1>1. /\ search' \in Call /\ search'.op = op /\ search'.key = key /\ search'.bound = bound
      /\ search'.first = 0 /\ search'.len = Len(connections) /\ search'.lower = lower
  BY CallOK DEF Inv, SearchFor, Call
<1>2. Typed' /\ SortedKeys' /\ Counted'
  BY <1>1 DEF Inv, Typed, SortedKeys, Counted
<1>3. SearchOK'
  <2>1. Len(connections) \in Nat /\ 1..0 = {} /\ (0 + Len(connections) + 1)..Len(connections) = {}
    BY CallOK DEF Inv
  <2> QED
    BY <1>1, <2>1 DEF SearchOK
<1> QED
  BY <1>2, <1>3 DEF Inv

LEMMA BeginInsertOK == ASSUME Inv, NEW key \in Key, BeginInsert(key) PROVE Inv'
BY BeginOK DEF BeginInsert

LEMMA BeginRemoveOK == ASSUME Inv, NEW key \in Key, BeginRemove(key) PROVE Inv'
BY BeginOK DEF BeginRemove

LEMMA FindUpperOK == ASSUME Inv, FindUpper PROVE Inv'
<1>1. /\ search \in Call /\ search # Idle /\ search.op = "remove" /\ search.bound = "lower"
      /\ search.len = 0
  BY CallOK DEF FindUpper, Found, Inv
<1>2. search.key \in Key /\ search.first \in Nat /\ search.first + 0 + 1 = search.first + 1
  BY <1>1 DEF Call
<1>3. /\ search.first \in 0..Len(connections)
      /\ \A i \in 1..search.first : Less(connections[i], search.key)
      /\ \A i \in (search.first + 1)..Len(connections) : ~Less(connections[i], search.key)
  BY <1>1, <1>2 DEF Inv, SearchOK, Ahead
<1> QED
  BY <1>1, <1>2, <1>3, BeginOK DEF FindUpper

\* Where the middle of a range is.
LEMMA Middle ==
  ASSUME NEW n \in Nat, NEW f \in 0..n, NEW m \in 1..(n - f), NEW h \in 0..(m - 1)
  PROVE  /\ h \in Nat /\ f + h \in Nat /\ f + h + 1 \in 1..n
         /\ m - h - 1 \in Nat /\ m - h - 1 \in 0..(n - (f + h + 1)) /\ h \in 0..(n - f)
         /\ f + h + 1 + (m - h - 1) + 1 = f + m + 1
<1>1. n \in Int /\ f \in Int /\ m \in Int /\ h \in Int
  OBVIOUS
<1>2. 0 <= h /\ h < m /\ m <= n - f /\ 0 <= f
  OBVIOUS
<1> QED
  BY <1>1, <1>2

\* A turn of the loop keeps what it has passed on the right sides.
LEMMA HalveOK == ASSUME Inv, Halve PROVE Inv'
<1> DEFINE half == search.len \div 2
           mid == search.first + half
           n == Len(connections)
<1>1. search \in Call /\ search # Idle /\ n \in Nat
  BY CallOK DEF Halve, Inv
<1>2. /\ search.first \in 0..n /\ search.len \in 1..(n - search.first)
      /\ \A i \in 1..search.first : Ahead(connections[i])
      /\ \A i \in (search.first + search.len + 1)..n : ~Ahead(connections[i])
  BY <1>1 DEF Halve, Inv, SearchOK
<1>a. half \in 0..(search.len - 1)
  <2>1. \A m \in Nat \ {0} : m \div 2 \in 0..(m - 1)
    OBVIOUS
  <2>2. search.len \in Nat \ {0}
    BY <1>1, <1>2
  <2> QED
    BY <2>1, <2>2
<1>3. /\ half \in 0..(search.len - 1) /\ half \in Nat
      /\ mid + 1 \in 1..n /\ mid \in Nat /\ search.len - half - 1 \in Nat
      /\ search.len - half - 1 \in 0..(n - (mid + 1))
  <2> HIDE DEF half, n
  <2> QED
    BY <1>1, <1>2, <1>a, Middle
<1>4. Typed /\ SortedKeys /\ SearchOK /\ Counted
  BY DEF Inv
<1>5. CASE Ahead(connections[mid + 1])
  <2>1. search' = [search EXCEPT !.first = mid + 1, !.len = @ - half - 1]
    BY <1>5 DEF Halve
  <2>2. /\ search' \in Call /\ search'.op = search.op /\ search'.key = search.key
        /\ search'.bound = search.bound /\ search'.lower = search.lower
        /\ search'.first = mid + 1 /\ search'.len = search.len - half - 1
    <3> DEFINE p == mid + 1
               q == search.len - half - 1
    <3>1. p \in Nat /\ q \in Nat /\ search' = [search EXCEPT !.first = p, !.len = q]
      BY <1>1, <1>3, <2>1
    <3> HIDE DEF p, q
    <3>2. /\ search' \in Call /\ search'.op = search.op /\ search'.key = search.key
          /\ search'.bound = search.bound /\ search'.lower = search.lower
          /\ search'.first = p /\ search'.len = q
      BY <1>1, <3>1 DEF Call
    <3> QED
      BY <3>2 DEF p, q
  <2>3. connections' = connections /\ listed' = listed
    BY DEF Halve
  <2>4. mid + 1 \in 0..n /\ search.len - half - 1 \in 0..(n - (mid + 1))
    <3>1. mid + 1 \in 0..n
      <4> HIDE DEF mid
      <4> QED
        BY <1>1, <1>3
    <3> QED
      BY <1>3, <3>1
  <2>5. ASSUME NEW i \in 1..(mid + 1) PROVE Ahead(connections[i])
    <3>1. i = mid + 1 \/ (i \in 1..n /\ i < mid + 1)
      BY <1>1, <1>3
    <3> HIDE DEF mid
    <3> QED
      BY <1>1, <1>3, <1>4, <1>5, <3>1, AheadBefore
  <2>6. (mid + 1) + (search.len - half - 1) + 1 = search.first + search.len + 1
    <3> HIDE DEF half
    <3>1. half \in Int /\ search.first \in Int /\ search.len \in Int
      BY <1>1, <1>2, <1>3
    <3> QED
      BY <3>1
  <2>7. \A e : Ahead(e)' <=> Ahead(e)
    BY <2>2 DEF Ahead
  <2> HIDE DEF mid, half, n
  <2>8. SearchOK'
    <3>1. /\ search'.op = "insert" => search'.bound = "upper"
          /\ search'.op = "remove" /\ search'.bound = "upper" =>
               /\ search'.lower \in 0..Len(connections')
               /\ \A i \in 1..search'.lower : Less(connections'[i], search'.key)
               /\ \A i \in (search'.lower + 1)..Len(connections') : ~Less(connections'[i], search'.key)
      BY <1>1, <1>4, <2>2, <2>3 DEF SearchOK
    <3>2. /\ search'.first \in 0..Len(connections')
          /\ search'.len \in 0..(Len(connections') - search'.first)
      BY <2>2, <2>3, <2>4 DEF n
    <3>3. /\ \A i \in 1..search'.first : Ahead(connections[i])
          /\ \A i \in (search'.first + search'.len + 1)..Len(connections') : ~Ahead(connections[i])
      BY <1>2, <2>2, <2>3, <2>5, <2>6 DEF n
    <3> QED
      BY <2>2, <2>3, <3>1, <3>2, <3>3 DEF SearchOK, Ahead
  <2>9. Typed' /\ SortedKeys' /\ Counted'
    BY <1>4, <2>2, <2>3 DEF Typed, SortedKeys, Counted
  <2> QED
    BY <2>8, <2>9 DEF Inv
<1>6. CASE ~Ahead(connections[mid + 1])
  <2>1. search' = [search EXCEPT !.len = half]
    BY <1>6 DEF Halve
  <2>2. /\ search' \in Call /\ search'.op = search.op /\ search'.key = search.key
        /\ search'.bound = search.bound /\ search'.lower = search.lower
        /\ search'.first = search.first /\ search'.len = half
    <3>1. half \in Nat
      BY <1>3
    <3> HIDE DEF half
    <3> QED
      BY <1>1, <2>1, <3>1 DEF Call
  <2>3. connections' = connections /\ listed' = listed
    BY DEF Halve
  <2>4. half \in 0..(n - search.first)
    BY <1>1, <1>2, <1>3
  <2>5. ASSUME NEW i \in (search.first + half + 1)..n PROVE ~Ahead(connections[i])
    <3>1. i = mid + 1 \/ (i \in 1..n /\ mid + 1 < i)
      BY <1>1, <1>2, <1>3
    <3> HIDE DEF mid
    <3> QED
      BY <1>1, <1>3, <1>4, <1>6, <3>1, AheadBefore
  <2> HIDE DEF mid, half, n
  <2>8. SearchOK'
    <3>1. /\ search'.op = "insert" => search'.bound = "upper"
          /\ search'.op = "remove" /\ search'.bound = "upper" =>
               /\ search'.lower \in 0..Len(connections')
               /\ \A i \in 1..search'.lower : Less(connections'[i], search'.key)
               /\ \A i \in (search'.lower + 1)..Len(connections') : ~Less(connections'[i], search'.key)
      BY <1>1, <1>4, <2>2, <2>3 DEF SearchOK
    <3>2. /\ search'.first \in 0..Len(connections')
          /\ search'.len \in 0..(Len(connections') - search'.first)
      BY <1>2, <2>2, <2>3, <2>4 DEF n
    <3>3. /\ \A i \in 1..search'.first : Ahead(connections[i])
          /\ \A i \in (search'.first + search'.len + 1)..Len(connections') : ~Ahead(connections[i])
      BY <1>2, <2>2, <2>3, <2>5 DEF n
    <3> QED
      BY <2>2, <2>3, <3>1, <3>2, <3>3 DEF SearchOK, Ahead
  <2>9. Typed' /\ SortedKeys' /\ Counted'
    BY <1>4, <2>2, <2>3 DEF Typed, SortedKeys, Counted
  <2> QED
    BY <2>8, <2>9 DEF Inv
<1> QED
  BY <1>5, <1>6

\* emplace puts a key behind all that are not greater.
LEMMA InsertOK == ASSUME Inv, Insert PROVE Inv'
<1> DEFINE s == connections
           n == Len(connections)
           p == search.first
           k == search.key
           r == InsertAt(s, p + 1, k)
<1>1. search \in Call /\ search # Idle /\ k \in Key /\ n \in Nat /\ s \in Seq(Key)
  <2>1. search \in Call /\ search # Idle /\ n \in Nat /\ s \in Seq(Key)
    BY CallOK DEF Insert, Inv, Typed
  <2> QED
    BY <2>1 DEF Call
<1>2. /\ p \in 0..n
      /\ \A i \in 1..p : ~Less(k, s[i])
      /\ \A i \in (p + 1)..n : Less(k, s[i])
  <2>1. search.bound = "upper" /\ search.len = 0
    BY DEF Insert, Found
  <2>2. p \in 0..n /\ p + 0 + 1 = p + 1
    BY <1>1 DEF Inv, SearchOK
  <2> QED
    BY <1>1, <2>1, <2>2 DEF Inv, SearchOK, Ahead
<1>3. connections' = r /\ listed' = [listed EXCEPT ![k] = @ + 1] /\ search' = Idle
  BY DEF Insert
<1>4. \A i, j \in 1..n : i < j => ~Less(s[j], s[i])
  BY DEF Inv, SortedKeys
<1>5. \A i \in 1..n : s[i] \in Key
  BY CallOK DEF Inv
<1> HIDE DEF s, n, p, k
<1>6. /\ r \in Seq(Key) /\ Len(r) = n + 1
      /\ \A j \in 1..(n + 1) : r[j] = IF j <= p THEN s[j] ELSE IF j = p + 1 THEN k ELSE s[j - 1]
  <2>0. n = Len(s)
    BY DEF s, n
  <2>1. /\ r \in Seq(Key) /\ Len(r) = Len(s) + 1
        /\ \A j \in 1..Len(r) : r[j] = IF j <= p THEN s[j] ELSE IF j = p + 1 THEN k ELSE s[j - 1]
    <3>1. p \in 0..Len(s)
      BY <1>2, <2>0
    <3> QED
      BY <1>1, <3>1, InsertedAt
  <2> HIDE DEF r
  <2> QED
    BY <2>0, <2>1
<1>7. \A j : Num(r, j) = IF j = k THEN Num(s, j) + 1 ELSE Num(s, j)
  <2>1. n = Len(s)
    BY DEF s, n
  <2> QED
    BY <1>1, <1>2, <2>1, NumInserted
<1> HIDE DEF r
<1>8. ASSUME NEW i \in 1..(n + 1), NEW j \in 1..(n + 1), i < j PROVE ~Less(r[j], r[i])
  <2>1. CASE j <= p
    <3>1. i \in 1..n /\ j \in 1..n /\ i <= p
      BY <1>1, <1>2, <1>8, <2>1
    <3> QED
      BY <1>4, <1>6, <1>8, <2>1, <3>1
  <2>2. CASE j = p + 1
    <3>1. i \in 1..p /\ i <= p /\ ~(j <= p)
      BY <1>1, <1>2, <1>8, <2>2
    <3> QED
      BY <1>2, <1>6, <1>8, <2>2, <3>1
  <2>3. CASE j > p + 1 /\ i = p + 1
    <3>1. j - 1 \in (p + 1)..n /\ j - 1 \in 1..n /\ ~(j <= p) /\ j # p + 1 /\ ~(i <= p)
      BY <1>1, <1>2, <1>8, <2>3
    <3>2. Less(k, s[j - 1]) /\ r[i] = k /\ r[j] = s[j - 1]
      BY <1>2, <1>6, <1>8, <2>3, <3>1
    <3> QED
      BY <1>1, <1>5, <3>1, <3>2, ZOrderTotal
  <2>4. CASE j > p + 1 /\ i <= p
    <3>1. j - 1 \in 1..n /\ i \in 1..n /\ i < j - 1 /\ ~(j <= p) /\ j # p + 1
      BY <1>1, <1>2, <1>8, <2>4
    <3> QED
      BY <1>4, <1>6, <1>8, <2>4, <3>1
  <2>5. CASE j > p + 1 /\ i > p + 1
    <3>1. /\ j - 1 \in 1..n /\ i - 1 \in 1..n /\ i - 1 < j - 1
          /\ ~(j <= p) /\ j # p + 1 /\ ~(i <= p) /\ i # p + 1
      BY <1>1, <1>2, <1>8, <2>5
    <3> QED
      BY <1>4, <1>6, <1>8, <3>1
  <2> QED
    BY <1>1, <1>2, <2>1, <2>2, <2>3, <2>4, <2>5
<1>9. Typed' /\ SearchOK'
  BY <1>1, <1>3, <1>6 DEF Inv, Typed, SearchOK
<1>10. SortedKeys'
  BY <1>3, <1>6, <1>8 DEF SortedKeys
<1>11. Counted'
  <2> SUFFICES ASSUME NEW key \in Key PROVE listed'[key] = Num(connections', key)
    BY DEF Counted
  <2>1. listed \in [Key -> Nat] /\ listed[key] = Num(s, key)
    BY DEF Inv, Typed, Counted, s
  <2> QED
    BY <1>1, <1>3, <1>7, <2>1
<1> QED
  BY <1>9, <1>10, <1>11 DEF Inv

\* erase removes the keys that are neither smaller nor greater, and these are
\* those that are equal.
LEMMA EraseOK == ASSUME Inv, Erase PROVE Inv'
<1> DEFINE s == connections
           n == Len(connections)
           l == search.lower
           p == search.first
           k == search.key
           r == SubSeq(s, 1, l) \o SubSeq(s, p + 1, n)
<1>1. search \in Call /\ search # Idle /\ k \in Key /\ n \in Nat /\ s \in Seq(Key)
  <2>1. search \in Call /\ search # Idle /\ n \in Nat /\ s \in Seq(Key)
    BY CallOK DEF Erase, Inv, Typed
  <2> QED
    BY <2>1 DEF Call
<1>2. /\ p \in 0..n
      /\ \A i \in 1..p : ~Less(k, s[i])
      /\ \A i \in (p + 1)..n : Less(k, s[i])
  <2>1. search.bound = "upper" /\ search.len = 0
    BY DEF Erase, Found
  <2>2. p \in 0..n /\ p + 0 + 1 = p + 1
    BY <1>1 DEF Inv, SearchOK
  <2> QED
    BY <1>1, <2>1, <2>2 DEF Inv, SearchOK, Ahead
<1>3. /\ l \in 0..n
      /\ \A i \in 1..l : Less(s[i], k)
      /\ \A i \in (l + 1)..n : ~Less(s[i], k)
  BY <1>1 DEF Erase, Found, Inv, SearchOK
<1>4. connections' = r /\ listed' = [listed EXCEPT ![k] = 0] /\ search' = Idle
  BY DEF Erase
<1>5. \A i, j \in 1..n : i < j => ~Less(s[j], s[i])
  BY DEF Inv, SortedKeys
<1>6. \A i \in 1..n : s[i] \in Key
  BY CallOK DEF Inv
<1>n. n = Len(s)
  OBVIOUS
<1> HIDE DEF s, n, l, p, k
<1>7. l \in 0..p
  <2> SUFFICES ASSUME p < l PROVE FALSE
    BY <1>2, <1>3
  <2>1. l \in (p + 1)..n /\ l \in 1..l /\ l \in 1..n
    BY <1>1, <1>2, <1>3
  <2>2. Less(k, s[l]) /\ Less(s[l], k)
    BY <1>2, <1>3, <2>1
  <2> QED
    BY <1>1, <1>6, <2>1, <2>2, ZOrderTotal
<1>8. ASSUME NEW i \in 1..n PROVE s[i] = k <=> l < i /\ i <= p
  <2>1. CASE i <= l
    <3>1. i \in 1..l
      BY <1>3, <2>1
    <3>2. Less(s[i], k)
      BY <1>3, <3>1
    <3>3. s[i] # k
      BY <1>1, <3>2, ZOrderTotal
    <3> QED
      BY <1>3, <2>1, <3>3
  <2>2. CASE i > p
    <3>1. i \in (p + 1)..n
      BY <1>1, <1>2, <2>2
    <3>2. Less(k, s[i])
      BY <1>2, <3>1
    <3>3. s[i] # k
      BY <1>1, <3>2, ZOrderTotal
    <3> QED
      BY <1>2, <2>2, <3>3
  <2>3. CASE l < i /\ i <= p
    <3>1. i \in (l + 1)..n /\ i \in 1..p
      BY <1>1, <1>2, <1>3, <2>3
    <3>2. ~Less(s[i], k) /\ ~Less(k, s[i])
      BY <1>2, <1>3, <3>1
    <3> QED
      BY <1>1, <1>6, <2>3, <3>2, ZOrderTotal
  <2> QED
    BY <1>2, <1>3, <2>1, <2>2, <2>3
<1>9. /\ r \in Seq(Key) /\ Len(r) = n - (p - l)
      /\ \A j \in 1..Len(r) : r[j] = IF j <= l THEN s[j] ELSE s[j + (p - l)]
  <2>1. p \in 0..Len(s) /\ r = SubSeq(s, 1, l) \o SubSeq(s, p + 1, Len(s))
    BY <1>2, <1>n
  <2> HIDE DEF r
  <2>2. /\ r \in Seq(Key) /\ Len(r) = Len(s) - (p - l)
        /\ \A j \in 1..Len(r) : r[j] = IF j <= l THEN s[j] ELSE s[j + (p - l)]
    BY <1>1, <1>7, <2>1, RemovedAt
  <2> QED
    BY <1>n, <2>2
<1>10. \A j : Num(r, j) = IF j = k THEN 0 ELSE Num(s, j)
  <2>1. p \in 0..Len(s) /\ r = SubSeq(s, 1, l) \o SubSeq(s, p + 1, Len(s))
    BY <1>2, <1>n
  <2>2. \A i \in 1..Len(s) : s[i] = k <=> l < i /\ i <= p
    BY <1>8, <1>n
  <2> HIDE DEF r
  <2>3. ASSUME NEW j
        PROVE  /\ j = k => Num(SubSeq(s, 1, l) \o SubSeq(s, p + 1, Len(s)), j) = 0
               /\ j # k => Num(SubSeq(s, 1, l) \o SubSeq(s, p + 1, Len(s)), j) = Num(s, j)
    <3>1. l \in 0..p /\ p \in 0..Len(s) /\ s \in Seq(Key)
      BY <1>1, <1>7, <2>1
    <3> QED
      BY <2>2, <3>1, NumRemoved
  <2> QED
    BY <2>1, <2>3
<1> HIDE DEF r
<1>11. ASSUME NEW i \in 1..Len(r), NEW j \in 1..Len(r), i < j PROVE ~Less(r[j], r[i])
  <2>1. \A m \in 1..Len(r) : m \in 1..n /\ m + (p - l) \in 1..n
    BY <1>1, <1>2, <1>7, <1>9
  <2>2. CASE j <= l
    <3>1. i <= l
      BY <1>7, <1>11, <2>2
    <3> QED
      BY <1>5, <1>9, <1>11, <2>1, <2>2, <3>1
  <2>3. CASE ~(j <= l) /\ i <= l
    <3>1. i < j + (p - l)
      BY <1>2, <1>7, <1>9, <1>11
    <3> QED
      BY <1>5, <1>9, <1>11, <2>1, <2>3, <3>1
  <2>4. CASE ~(j <= l) /\ ~(i <= l)
    <3>1. i + (p - l) < j + (p - l)
      BY <1>2, <1>7, <1>9, <1>11
    <3> QED
      BY <1>5, <1>9, <1>11, <2>1, <2>4, <3>1
  <2> QED
    BY <2>2, <2>3, <2>4
<1>12. Typed' /\ SearchOK'
  BY <1>1, <1>4, <1>9 DEF Inv, Typed, SearchOK
<1>13. SortedKeys'
  BY <1>4, <1>11 DEF SortedKeys
<1>14. Counted'
  <2> SUFFICES ASSUME NEW key \in Key PROVE listed'[key] = Num(connections', key)
    BY DEF Counted
  <2>1. listed \in [Key -> Nat] /\ listed[key] = Num(s, key)
    BY DEF Inv, Typed, Counted, s
  <2> QED
    BY <1>1, <1>4, <1>10, <2>1
<1> QED
  BY <1>12, <1>13, <1>14 DEF Inv

LEMMA NextInv == Inv /\ [Next]_vars => Inv'
<1> SUFFICES ASSUME Inv, [Next]_vars PROVE Inv'
  OBVIOUS
<1>1. CASE Next
  BY <1>1, BeginInsertOK, BeginRemoveOK, HalveOK, FindUpperOK, InsertOK, EraseOK DEF Next
<1>2. CASE UNCHANGED vars
  BY <1>2 DEF vars, Inv, Typed, SortedKeys, SearchOK, Counted, Ahead
<1> QED
  BY <1>1, <1>2

-------------------------------------------------------------------------------
(* Theorems *)

\* Whatever keys the searches meet, Z_Order compares them by their Morton code.
THEOREM ComparesAsMorton == Spec => []ComparesByMorton
<1>1. Init => Inv
  BY InitInv
<1>2. Inv /\ [Next]_vars => Inv'
  BY NextInv
<1>3. Inv => ComparesByMorton
  <2> SUFFICES ASSUME Inv PROVE ComparesByMorton
    OBVIOUS
  <2>1. Compared \subseteq Key
    <3>1. ToSet(connections) \subseteq Key
      BY CallOK DEF Inv, ToSet
    <3>2. search # Idle => search.key \in Key
      BY CallOK DEF Inv, Call
    <3> QED
      BY <3>1, <3>2 DEF Compared
  <2> QED
    BY <2>1, ZOrderIsMorton DEF ComparesByMorton
<1> QED
  BY <1>1, <1>2, <1>3, PTL DEF Spec

\* The vector is sorted by the Morton code between any two calls and in each.
THEOREM StaysSorted == Spec => []SortedByMorton
<1>1. Init => Inv
  BY InitInv
<1>2. Inv /\ [Next]_vars => Inv'
  BY NextInv
<1>3. Inv => SortedByMorton
  BY CallOK, ZOrderIsMorton DEF Inv, SortedKeys, SortedByMorton
<1> QED
  BY <1>1, <1>2, <1>3, PTL DEF Spec

\* No call loses a key, leaves one behind or takes another with it.
THEOREM KeysAreKept == Spec => []KeepsTheKeys
<1>1. Init => Inv
  BY InitInv
<1>2. Inv /\ [Next]_vars => Inv'
  BY NextInv
<1>3. Inv => KeepsTheKeys
  BY CallOK DEF Inv, Counted, Num, KeepsTheKeys
<1> QED
  BY <1>1, <1>2, <1>3, PTL DEF Spec
===============================================================================
