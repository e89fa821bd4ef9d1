--------------------------- MODULE NanoSignal_proofs ---------------------------
(***************************************************************************)
(* What holds of NanoSignal for every policy, every set of threads,        *)
(* signals, observers and slots, and whatever the clients call.            *)
(***************************************************************************)
EXTENDS NanoSignal, SequenceTheorems, WellFoundedInduction, TLAPS

-------------------------------------------------------------------------------
(* Sorted vectors *)

\* A vector that is sorted by Z_Order.
InOrder(s) == \A i, j \in DOMAIN s : i < j => Z[s[i].slot] <= Z[s[j].slot]

\* A set of numbers that is not empty has a least element.
LEMMA Least ==
  ASSUME NEW T, T \subseteq Nat, T # {}
  PROVE  \E x \in T : \A y \in T : x <= y
<1>1. PICK x \in T : \A y \in T : ~(<<y, x>> \in OpToRel(<, Nat))
  BY NatLessThanWellFounded, WFMin
<1>2. \A y \in T : ~(y < x)
  BY <1>1 DEF OpToRel
<1> QED
  BY <1>2

\* The key of every connection has a rank.
LEMMA Ranks ==
  ASSUME NEW s \in Seq(Connection), NEW i \in 1..Len(s)
  PROVE  s[i] \in Connection /\ Z[s[i].slot] \in Nat
<1>1. s[i] \in Connection
  BY ElementOfSeq
<1> QED
  BY <1>1, OrderAssumption DEF Connection

\* std::upper_bound finds its place in a sorted vector.
LEMMA UpperBoundSplits ==
  ASSUME NEW s \in Seq(Connection), InOrder(s), NEW k \in Slots
  PROVE  /\ UpperBound(s, k) \in 0..Len(s)
         /\ \A i \in 1..UpperBound(s, k) : Z[s[i].slot] <= Z[k]
         /\ \A i \in (UpperBound(s, k) + 1)..Len(s) : Z[s[i].slot] > Z[k]
<1> DEFINE T == {i \in 1..(Len(s) + 1) : i = Len(s) + 1 \/ Z[s[i].slot] > Z[k]}
           P(p) == /\ \A i \in 1..p : Z[s[i].slot] <= Z[k]
                   /\ \A i \in (p + 1)..Len(s) : Z[s[i].slot] > Z[k]
<1>0. Len(s) \in Nat /\ DOMAIN s = 1..Len(s) /\ Z[k] \in Nat
  BY OrderAssumption
<1>1. Len(s) + 1 \in T /\ T \subseteq Nat
  BY <1>0
<1>2. PICK x \in T : \A y \in T : x <= y
  BY <1>1, Least
<1>3. x - 1 \in 0..Len(s)
  BY <1>0, <1>2
<1>4. \A i \in 1..(x - 1) : Z[s[i].slot] <= Z[k]
  <2> SUFFICES ASSUME NEW i \in 1..(x - 1) PROVE Z[s[i].slot] <= Z[k]
    OBVIOUS
  <2>1. i \in 1..Len(s) /\ i < x
    BY <1>0, <1>3
  <2>2. i \notin T
    BY <1>0, <1>2, <2>1
  <2> QED
    BY <1>0, <2>1, <2>2, Ranks
<1>5. \A i \in ((x - 1) + 1)..Len(s) : Z[s[i].slot] > Z[k]
  <2> SUFFICES ASSUME NEW i \in x..Len(s) PROVE Z[s[i].slot] > Z[k]
    BY <1>0, <1>2
  <2>1. x \in 1..Len(s) /\ i \in 1..Len(s)
    BY <1>0, <1>2
  <2>2. Z[s[x].slot] > Z[k]
    BY <1>0, <1>2, <2>1
  <2>3. x < i => Z[s[x].slot] <= Z[s[i].slot]
    BY <1>0, <2>1 DEF InOrder
  <2>4. Z[s[x].slot] \in Nat /\ Z[s[i].slot] \in Nat /\ (x < i \/ x = i)
    BY <1>0, <2>1, Ranks
  <2> QED
    BY <1>0, <2>2, <2>3, <2>4
<1>6. \E p \in 0..Len(s) : P(p)
  BY <1>3, <1>4, <1>5
<1>7. UpperBound(s, k) = CHOOSE p \in 0..Len(s) : P(p)
  BY DEF UpperBound
<1> HIDE DEF P
<1>8. UpperBound(s, k) \in 0..Len(s) /\ P(UpperBound(s, k))
  BY <1>6, <1>7
<1> QED
  BY <1>8 DEF P

\* std::lower_bound finds its place, which is not behind the upper bound.
LEMMA LowerBoundSplits ==
  ASSUME NEW s \in Seq(Connection), InOrder(s), NEW k \in Slots
  PROVE  /\ LowerBound(s, k) \in 0..Len(s)
         /\ \A i \in 1..LowerBound(s, k) : Z[s[i].slot] < Z[k]
         /\ \A i \in (LowerBound(s, k) + 1)..Len(s) : Z[s[i].slot] >= Z[k]
<1> DEFINE T == {i \in 1..(Len(s) + 1) : i = Len(s) + 1 \/ Z[s[i].slot] >= Z[k]}
           P(p) == /\ \A i \in 1..p : Z[s[i].slot] < Z[k]
                   /\ \A i \in (p + 1)..Len(s) : Z[s[i].slot] >= Z[k]
<1>0. Len(s) \in Nat /\ DOMAIN s = 1..Len(s) /\ Z[k] \in Nat
  BY OrderAssumption
<1>1. Len(s) + 1 \in T /\ T \subseteq Nat
  BY <1>0
<1>2. PICK x \in T : \A y \in T : x <= y
  BY <1>1, Least
<1>3. x - 1 \in 0..Len(s)
  BY <1>0, <1>2
<1>4. \A i \in 1..(x - 1) : Z[s[i].slot] < Z[k]
  <2> SUFFICES ASSUME NEW i \in 1..(x - 1) PROVE Z[s[i].slot] < Z[k]
    OBVIOUS
  <2>1. i \in 1..Len(s) /\ i < x
    BY <1>0, <1>3
  <2>2. i \notin T
    BY <1>0, <1>2, <2>1
  <2> QED
    BY <1>0, <2>1, <2>2, Ranks
<1>5. \A i \in ((x - 1) + 1)..Len(s) : Z[s[i].slot] >= Z[k]
  <2> SUFFICES ASSUME NEW i \in x..Len(s) PROVE Z[s[i].slot] >= Z[k]
    BY <1>0, <1>2
  <2>1. x \in 1..Len(s) /\ i \in 1..Len(s)
    BY <1>0, <1>2
  <2>2. Z[s[x].slot] >= Z[k]
    BY <1>0, <1>2, <2>1
  <2>3. x < i => Z[s[x].slot] <= Z[s[i].slot]
    BY <1>0, <2>1 DEF InOrder
  <2>4. Z[s[x].slot] \in Nat /\ Z[s[i].slot] \in Nat /\ (x < i \/ x = i)
    BY <1>0, <2>1, Ranks
  <2> QED
    BY <1>0, <2>2, <2>3, <2>4
<1>6. \E p \in 0..Len(s) : P(p)
  BY <1>3, <1>4, <1>5
<1>7. LowerBound(s, k) = CHOOSE p \in 0..Len(s) : P(p)
  BY DEF LowerBound
<1> HIDE DEF P
<1>8. LowerBound(s, k) \in 0..Len(s) /\ P(LowerBound(s, k))
  BY <1>6, <1>7
<1> QED
  BY <1>8 DEF P

\* Two sorted vectors of which the first ranks nowhere above the second make
\* one sorted vector.
LEMMA ConcatInOrder ==
  ASSUME NEW s \in Seq(Connection), NEW w \in Seq(Connection), InOrder(s), InOrder(w),
         \A i \in 1..Len(s), j \in 1..Len(w) : Z[s[i].slot] <= Z[w[j].slot]
  PROVE  s \o w \in Seq(Connection) /\ InOrder(s \o w)
<1> DEFINE r == s \o w
<1>1. /\ r \in Seq(Connection) /\ Len(r) = Len(s) + Len(w)
      /\ \A i \in 1..(Len(s) + Len(w)) : r[i] = IF i <= Len(s) THEN s[i] ELSE w[i - Len(s)]
  BY ConcatProperties
<1>2. Len(s) \in Nat /\ Len(w) \in Nat
  OBVIOUS
<1>3. ASSUME NEW i \in 1..Len(r), NEW j \in 1..Len(r), i < j
      PROVE  Z[r[i].slot] <= Z[r[j].slot]
  <2>1. CASE j <= Len(s)
    <3>1. i \in 1..Len(s) /\ j \in 1..Len(s) /\ DOMAIN s = 1..Len(s)
      BY <1>1, <1>2, <1>3, <2>1
    <3>2. Z[s[i].slot] <= Z[s[j].slot]
      BY <1>3, <3>1 DEF InOrder
    <3> QED
      BY <1>1, <1>2, <1>3, <2>1, <3>1, <3>2
  <2>2. CASE i <= Len(s) /\ j > Len(s)
    <3>1. j - Len(s) \in 1..Len(w) /\ i \in 1..Len(s)
      BY <1>1, <1>2, <1>3, <2>2
    <3>2. r[i] = s[i] /\ r[j] = w[j - Len(s)]
      BY <1>1, <1>2, <2>2
    <3>3. Z[s[i].slot] <= Z[w[j - Len(s)].slot]
      BY <3>1
    <3> QED
      BY <3>2, <3>3
  <2>3. CASE i > Len(s)
    <3>1. j - Len(s) \in 1..Len(w) /\ i - Len(s) \in 1..Len(w) /\ i - Len(s) < j - Len(s)
      BY <1>1, <1>2, <1>3, <2>3
    <3>2. Z[w[i - Len(s)].slot] <= Z[w[j - Len(s)].slot]
      BY <1>2, <3>1 DEF InOrder
    <3>3. r[i] = w[i - Len(s)] /\ r[j] = w[j - Len(s)]
      BY <1>1, <1>2, <1>3, <2>3
    <3> QED
      BY <3>2, <3>3
  <2> QED
    BY <1>1, <1>2, <1>3, <2>1, <2>2, <2>3
<1> QED
  BY <1>1, <1>3 DEF InOrder

\* A part of a sorted vector is sorted.
LEMMA PartInOrder ==
  ASSUME NEW s \in Seq(Connection), InOrder(s), NEW m \in Nat \ {0}, NEW n \in 0..Len(s)
  PROVE  /\ SubSeq(s, m, n) \in Seq(Connection) /\ InOrder(SubSeq(s, m, n))
         /\ Len(SubSeq(s, m, n)) = IF m <= n THEN n - m + 1 ELSE 0
         /\ \A i \in 1..Len(SubSeq(s, m, n)) :
              m + i - 1 \in m..n /\ SubSeq(s, m, n)[i] = s[m + i - 1]
<1> DEFINE r == SubSeq(s, m, n)
<1>0. Len(s) \in Nat /\ DOMAIN s = 1..Len(s)
  OBVIOUS
<1>1. \A i \in m..n : s[i] \in Connection
  BY <1>0, ElementOfSeq
<1>2. /\ r \in Seq(Connection)
      /\ Len(r) = IF m <= n THEN n - m + 1 ELSE 0
      /\ \A i \in 1..(n - m + 1) : r[i] = s[m + i - 1]
  BY <1>0, <1>1, SubSeqProperties
<1>3. \A i \in 1..Len(r) : i \in 1..(n - m + 1) /\ m + i - 1 \in m..n /\ r[i] = s[m + i - 1]
  BY <1>0, <1>2
<1>4. ASSUME NEW i \in 1..Len(r), NEW j \in 1..Len(r), i < j
      PROVE  Z[r[i].slot] <= Z[r[j].slot]
  <2>1. m + i - 1 \in DOMAIN s /\ m + j - 1 \in DOMAIN s /\ m + i - 1 < m + j - 1
    BY <1>0, <1>3, <1>4
  <2>2. Z[s[m + i - 1].slot] <= Z[s[m + j - 1].slot]
    BY <2>1 DEF InOrder
  <2> QED
    BY <1>3, <2>2
<1>5. DOMAIN r = 1..Len(r)
  BY <1>2
<1>6. InOrder(r)
  BY <1>4, <1>5 DEF InOrder
<1> QED
  BY <1>2, <1>3, <1>6

\* Observer::insert keeps a sorted vector sorted.
LEMMA InsertedInOrder ==
  ASSUME NEW s \in Seq(Connection), InOrder(s), NEW k \in Slots, NEW o \in Objects
  PROVE  Inserted(s, k, o) \in Seq(Connection) /\ InOrder(Inserted(s, k, o))
<1> DEFINE p == UpperBound(s, k)
           e == [slot |-> k, obs |-> o]
           before == SubSeq(s, 1, p)
           after == SubSeq(s, p + 1, Len(s))
<1>0. Len(s) \in Nat /\ e \in Connection /\ e.slot = k /\ Z[k] \in Nat
  BY OrderAssumption DEF Connection
<1>1. /\ p \in 0..Len(s)
      /\ \A i \in 1..p : Z[s[i].slot] <= Z[k]
      /\ \A i \in (p + 1)..Len(s) : Z[s[i].slot] > Z[k]
  BY UpperBoundSplits
<1> HIDE DEF p
<1>2. Inserted(s, k, o) = before \o <<e>> \o after
  <2>1. (p + 1) - 1 = p
    BY <1>1
  <2> QED
    BY <2>1 DEF Inserted, InsertAt, p
<1>3. /\ before \in Seq(Connection) /\ InOrder(before)
      /\ Len(before) = p
      /\ \A i \in 1..p : before[i] = s[i]
  <2>0. 1 \in Nat \ {0} /\ p \in 0..Len(s)
    BY <1>0, <1>1
  <2>1. /\ before \in Seq(Connection) /\ InOrder(before)
        /\ Len(before) = IF 1 <= p THEN p - 1 + 1 ELSE 0
        /\ \A i \in 1..Len(before) : before[i] = s[1 + i - 1]
    BY <2>0, PartInOrder
  <2>2. Len(before) = p
    BY <1>1, <2>1
  <2> QED
    BY <1>1, <2>1, <2>2
<1>4. /\ after \in Seq(Connection) /\ InOrder(after)
      /\ \A i \in 1..Len(after) : Z[k] <= Z[after[i].slot]
  <2>0. p + 1 \in Nat \ {0} /\ Len(s) \in 0..Len(s)
    BY <1>0, <1>1
  <2>1. /\ after \in Seq(Connection) /\ InOrder(after)
        /\ \A i \in 1..Len(after) : p + 1 + i - 1 \in (p + 1)..Len(s) /\ after[i] = s[p + 1 + i - 1]
    BY <2>0, PartInOrder
  <2>2. ASSUME NEW i \in 1..Len(after) PROVE Z[k] <= Z[after[i].slot]
    <3>1. Z[s[p + 1 + i - 1].slot] > Z[k] /\ after[i] = s[p + 1 + i - 1]
      BY <1>1, <2>1
    <3>2. Z[after[i].slot] \in Nat
      BY <2>1, Ranks
    <3>3. Z[after[i].slot] > Z[k]
      BY <3>1
    <3> HIDE DEF after
    <3> QED
      BY <1>0, <3>2, <3>3
  <2> QED
    BY <2>1, <2>2
<1> DEFINE front == before \o <<e>>
<1>5. /\ front \in Seq(Connection) /\ InOrder(front)
      /\ \A i \in 1..Len(front) : Z[front[i].slot] <= Z[k]
  <2>1. <<e>> \in Seq(Connection) /\ Len(<<e>>) = 1 /\ <<e>>[1] = e /\ InOrder(<<e>>)
    BY <1>0 DEF InOrder
  <2>2. \A i \in 1..Len(before), j \in 1..Len(<<e>>) : Z[before[i].slot] <= Z[<<e>>[j].slot]
    BY <1>1, <1>3, <2>1
  <2>3. front \in Seq(Connection) /\ InOrder(front)
    BY <1>3, <2>1, <2>2, ConcatInOrder
  <2>4. Len(front) = p + 1 /\ \A i \in 1..(p + 1) : front[i] = IF i <= p THEN s[i] ELSE e
    <3>1. /\ Len(front) = Len(before) + 1
          /\ \A i \in 1..(Len(before) + 1) :
                front[i] = IF i <= Len(before) THEN before[i] ELSE <<e>>[i - Len(before)]
      BY <1>3, <2>1, ConcatProperties
    <3>2. \A i \in 1..(p + 1) : i <= p \/ i - p = 1
      BY <1>1
    <3> QED
      BY <1>1, <1>3, <2>1, <3>1, <3>2
  <2>5. ASSUME NEW i \in 1..Len(front) PROVE Z[front[i].slot] <= Z[k]
    <3>1. CASE i <= p
      BY <1>1, <2>4, <3>1
    <3>2. CASE ~(i <= p)
      <4>1. front[i] = e
        BY <2>4, <3>2
      <4> HIDE DEF e, front
      <4> QED
        BY <1>0, <4>1
    <3> QED
      BY <3>1, <3>2
  <2> QED
    BY <2>3, <2>5
<1> HIDE DEF front, after
<1>6. \A i \in 1..Len(front), j \in 1..Len(after) : Z[front[i].slot] <= Z[after[j].slot]
  <2> SUFFICES ASSUME NEW i \in 1..Len(front), NEW j \in 1..Len(after)
               PROVE  Z[front[i].slot] <= Z[after[j].slot]
    OBVIOUS
  <2>1. Z[front[i].slot] \in Nat /\ Z[after[j].slot] \in Nat
    BY <1>4, <1>5, Ranks
  <2> QED
    BY <1>0, <1>4, <1>5, <2>1
<1>7. front \o after \in Seq(Connection) /\ InOrder(front \o after)
  BY <1>4, <1>5, <1>6, ConcatInOrder
<1> QED
  BY <1>2, <1>7 DEF front, after

\* Observer::remove keeps a sorted vector sorted.
LEMMA RemovedInOrder ==
  ASSUME NEW s \in Seq(Connection), InOrder(s), NEW k \in Slots
  PROVE  Removed(s, k) \in Seq(Connection) /\ InOrder(Removed(s, k))
<1> DEFINE l == LowerBound(s, k)
           p == UpperBound(s, k)
           before == SubSeq(s, 1, l)
           after == SubSeq(s, p + 1, Len(s))
<1>0. Len(s) \in Nat /\ Z[k] \in Nat
  BY OrderAssumption
<1>1. l \in 0..Len(s) /\ \A i \in 1..l : Z[s[i].slot] < Z[k]
  BY LowerBoundSplits
<1>2. p \in 0..Len(s) /\ \A i \in (p + 1)..Len(s) : Z[s[i].slot] > Z[k]
  BY UpperBoundSplits
<1> HIDE DEF l, p
<1>3. /\ before \in Seq(Connection) /\ InOrder(before)
      /\ \A i \in 1..Len(before) : 1 + i - 1 \in 1..l /\ before[i] = s[1 + i - 1]
  <2>0. 1 \in Nat \ {0} /\ l \in 0..Len(s)
    BY <1>0, <1>1
  <2> QED
    BY <2>0, PartInOrder
<1>4. /\ after \in Seq(Connection) /\ InOrder(after)
      /\ \A i \in 1..Len(after) : p + 1 + i - 1 \in (p + 1)..Len(s) /\ after[i] = s[p + 1 + i - 1]
  <2>0. p + 1 \in Nat \ {0} /\ Len(s) \in 0..Len(s)
    BY <1>0, <1>2
  <2> QED
    BY <2>0, PartInOrder
<1> HIDE DEF before, after
<1>5. \A i \in 1..Len(before), j \in 1..Len(after) : Z[before[i].slot] <= Z[after[j].slot]
  <2> SUFFICES ASSUME NEW i \in 1..Len(before), NEW j \in 1..Len(after)
               PROVE  Z[before[i].slot] <= Z[after[j].slot]
    OBVIOUS
  <2>1. Z[before[i].slot] \in Nat /\ Z[after[j].slot] \in Nat
    BY <1>3, <1>4, Ranks
  <2>2. Z[before[i].slot] < Z[k] /\ Z[after[j].slot] > Z[k]
    BY <1>1, <1>2, <1>3, <1>4
  <2> QED
    BY <1>0, <2>1, <2>2
<1>6. before \o after \in Seq(Connection) /\ InOrder(before \o after)
  BY <1>3, <1>4, <1>5, ConcatInOrder
<1> QED
  BY <1>6 DEF Removed, before, after, l, p

-------------------------------------------------------------------------------
(* Frames *)

\* Which program points an operation has, and what holds at them.
FrameOK(f) ==
  /\ f.idx # 0
  /\ f.op \in {"connect", "disconnect"} =>
       /\ f.pc \in {"self", "peer"} /\ f.obj \in Signals /\ f.slot \in Slots
       /\ f.pc = "peer" => f.slot \in MemberSlots
  /\ f.op = "fire" => f.pc \in {"lock", "loop", "slot"}
  /\ f.op \in Sweep =>
       /\ f.pc \in {"lock", "loop", "peer", "reset", "drain"}
       /\ f.pc \in {"reset", "drain"} => f.op = "destroy" /\ Counted
  /\ f.op \in Sweep \cup {"fire"} /\ f.pc \in {"slot", "peer"} => f.idx \in 1..Len(f.list)

FramesOK == \A t \in Threads : \A i \in 1..Len(stack[t]) : FrameOK(stack[t][i])

\* The invariant behind type correctness: the binary searches need sorted
\* vectors to return a position at all.
Typed == TypeOK /\ Sorted /\ FramesOK

PCs == {"self", "peer", "lock", "loop", "slot", "reset", "drain"}

\* The three ways in which a step rewrites the innermost frame.
LEMMA GotoFrame ==
  ASSUME NEW f \in Frame, NEW pc \in PCs
  PROVE  LET g == [f EXCEPT !.pc = pc] IN
         /\ g \in Frame /\ g.pc = pc /\ g.op = f.op /\ g.obj = f.obj /\ g.slot = f.slot
         /\ g.list = f.list /\ g.idx = f.idx
BY DEF Frame, PCs

LEMMA NextFrame ==
  ASSUME NEW f \in Frame
  PROVE  LET g == [f EXCEPT !.pc = "loop", !.idx = @ + 1] IN
         /\ g \in Frame /\ g.pc = "loop" /\ g.op = f.op /\ g.obj = f.obj /\ g.slot = f.slot
         /\ g.list = f.list /\ g.idx = f.idx + 1
<1> DEFINE n == f.idx + 1
           g == [f EXCEPT !.pc = "loop", !.idx = n]
<1>1. n \in Nat
  BY DEF Frame
<1> HIDE DEF n
<1>2. /\ g \in Frame /\ g.pc = "loop" /\ g.op = f.op /\ g.obj = f.obj /\ g.slot = f.slot
      /\ g.list = f.list /\ g.idx = n
  BY <1>1 DEF Frame
<1>3. [f EXCEPT !.pc = "loop", !.idx = @ + 1] = g
  BY DEF Frame, n
<1> QED
  BY <1>2, <1>3 DEF n

LEMMA StartFrame ==
  ASSUME NEW f \in Frame, NEW l \in Seq(Connection)
  PROVE  LET g == [f EXCEPT !.pc = "loop", !.list = l] IN
         /\ g \in Frame /\ g.pc = "loop" /\ g.op = f.op /\ g.obj = f.obj /\ g.slot = f.slot
         /\ g.list = l /\ g.idx = f.idx
BY DEF Frame

-------------------------------------------------------------------------------
(* Stacks *)

Stacks == stack \in [Threads -> Seq(Frame)]

\* A call pushes a frame and leaves the others where they are.
LEMMA PushStack ==
  ASSUME Stacks, NEW t \in Threads, NEW f \in Frame, Push(t, f)
  PROVE  /\ Stacks'
         /\ Len(stack[t]) \in Nat
         /\ Len(stack'[t]) = Len(stack[t]) + 1
         /\ \A i \in 1..Len(stack[t]) : stack'[t][i] = stack[t][i]
         /\ stack'[t][Len(stack[t]) + 1] = f
         /\ \A u \in Threads \ {t} : stack'[u] = stack[u]
<1>1. stack[t] \in Seq(Frame)
  BY DEF Stacks
<1>2. stack'[t] = Append(stack[t], f) /\ \A u \in Threads \ {t} : stack'[u] = stack[u]
  BY DEF Push, Stacks
<1>3. /\ Append(stack[t], f) \in Seq(Frame)
      /\ Len(Append(stack[t], f)) = Len(stack[t]) + 1
      /\ \A i \in 1..Len(stack[t]) : Append(stack[t], f)[i] = stack[t][i]
      /\ Append(stack[t], f)[Len(stack[t]) + 1] = f
  BY <1>1, AppendProperties
<1>4. Stacks'
  BY <1>2, <1>3 DEF Push, Stacks
<1> QED
  BY <1>1, <1>2, <1>3, <1>4

\* A return pops the innermost frame.
LEMMA PopStack ==
  ASSUME Stacks, NEW t \in Threads, stack[t] # <<>>, Pop(t)
  PROVE  /\ Stacks'
         /\ Len(stack[t]) \in Nat \ {0}
         /\ Len(stack'[t]) = Len(stack[t]) - 1
         /\ \A i \in 1..(Len(stack[t]) - 1) : stack'[t][i] = stack[t][i]
         /\ \A u \in Threads \ {t} : stack'[u] = stack[u]
<1>1. stack[t] \in Seq(Frame) /\ Len(stack[t]) \in Nat \ {0}
  BY EmptySeq DEF Stacks
<1>2. stack'[t] = Front(stack[t]) /\ \A u \in Threads \ {t} : stack'[u] = stack[u]
  BY DEF Pop, Stacks
<1>3. /\ Front(stack[t]) \in Seq(Frame)
      /\ Len(Front(stack[t])) = Len(stack[t]) - 1
      /\ \A i \in 1..(Len(stack[t]) - 1) : Front(stack[t])[i] = stack[t][i]
  <2>1. \A i \in 1..(Len(stack[t]) - 1) : stack[t][i] \in Frame
    BY <1>1, ElementOfSeq
  <2>2. /\ SubSeq(stack[t], 1, Len(stack[t]) - 1) \in Seq(Frame)
        /\ Len(SubSeq(stack[t], 1, Len(stack[t]) - 1))
             = IF 1 <= Len(stack[t]) - 1 THEN Len(stack[t]) - 1 - 1 + 1 ELSE 0
        /\ \A i \in 1..(Len(stack[t]) - 1 - 1 + 1) :
             SubSeq(stack[t], 1, Len(stack[t]) - 1)[i] = stack[t][1 + i - 1]
    BY <1>1, <2>1, SubSeqProperties
  <2> QED
    BY <1>1, <2>2 DEF Front
<1>4. Stacks'
  BY <1>2, <1>3 DEF Pop, Stacks
<1> QED
  BY <1>1, <1>2, <1>3, <1>4

\* A step inside a call replaces the innermost frame.
LEMMA ContinueStack ==
  ASSUME Stacks, NEW t \in Threads, stack[t] # <<>>, NEW f \in Frame, Continue(t, f)
  PROVE  /\ Stacks'
         /\ Len(stack[t]) \in Nat \ {0}
         /\ Len(stack'[t]) = Len(stack[t])
         /\ \A i \in 1..(Len(stack[t]) - 1) : stack'[t][i] = stack[t][i]
         /\ stack'[t][Len(stack[t])] = f
         /\ \A u \in Threads \ {t} : stack'[u] = stack[u]
<1>1. stack[t] \in Seq(Frame) /\ Len(stack[t]) \in Nat \ {0}
  BY EmptySeq DEF Stacks
<1>2. stack'[t] = Append(Front(stack[t]), f) /\ \A u \in Threads \ {t} : stack'[u] = stack[u]
  BY DEF Continue, Stacks
<1>3. /\ Front(stack[t]) \in Seq(Frame)
      /\ Len(Front(stack[t])) = Len(stack[t]) - 1
      /\ \A i \in 1..(Len(stack[t]) - 1) : Front(stack[t])[i] = stack[t][i]
  <2>1. \A i \in 1..(Len(stack[t]) - 1) : stack[t][i] \in Frame
    BY <1>1, ElementOfSeq
  <2>2. /\ SubSeq(stack[t], 1, Len(stack[t]) - 1) \in Seq(Frame)
        /\ Len(SubSeq(stack[t], 1, Len(stack[t]) - 1))
             = IF 1 <= Len(stack[t]) - 1 THEN Len(stack[t]) - 1 - 1 + 1 ELSE 0
        /\ \A i \in 1..(Len(stack[t]) - 1 - 1 + 1) :
             SubSeq(stack[t], 1, Len(stack[t]) - 1)[i] = stack[t][1 + i - 1]
    BY <1>1, <2>1, SubSeqProperties
  <2> QED
    BY <1>1, <2>2 DEF Front
<1>4. /\ Append(Front(stack[t]), f) \in Seq(Frame)
      /\ Len(Append(Front(stack[t]), f)) = Len(stack[t])
      /\ \A i \in 1..(Len(stack[t]) - 1) : Append(Front(stack[t]), f)[i] = stack[t][i]
      /\ Append(Front(stack[t]), f)[Len(stack[t])] = f
  BY <1>1, <1>3, AppendProperties
<1>5. Stacks'
  BY <1>2, <1>4 DEF Continue, Stacks
<1> QED
  BY <1>1, <1>2, <1>4, <1>5

\* What is known of the innermost frame.
LEMMA TopOK ==
  ASSUME Typed, NEW t \in Threads, stack[t] # <<>>
  PROVE  Stacks /\ Len(stack[t]) \in Nat \ {0} /\ Top(t) \in Frame /\ FrameOK(Top(t))
<1>1. Stacks /\ stack[t] \in Seq(Frame)
  BY DEF Typed, TypeOK, Stacks
<1>2. Len(stack[t]) \in Nat \ {0}
  BY <1>1, EmptySeq
<1>3. stack[t][Len(stack[t])] \in Frame
  BY <1>1, <1>2, ElementOfSeq
<1> QED
  BY <1>1, <1>2, <1>3 DEF Typed, FramesOK, Top, Last

\* What is known of the connection a loop has reached.
LEMMA CurrentOK ==
  ASSUME NEW f \in Frame, FrameOK(f), f.idx \in 1..Len(f.list)
  PROVE  Current(f) \in Connection /\ Current(f).slot \in Slots /\ Current(f).obs \in Objects
<1>1. f.list \in Seq(Connection)
  BY DEF Frame
<1>2. Current(f) \in Connection
  BY <1>1, ElementOfSeq DEF Current
<1> QED
  BY <1>2 DEF Connection

-------------------------------------------------------------------------------
(* Type correctness *)

LEMMA PushOK ==
  ASSUME Typed, NEW t \in Threads, NEW f \in Frame, FrameOK(f), Push(t, f)
  PROVE  Stacks' /\ FramesOK'
<1>1. Stacks /\ FramesOK
  BY DEF Typed, TypeOK, Stacks
<1>2. /\ Stacks' /\ Len(stack[t]) \in Nat /\ Len(stack'[t]) = Len(stack[t]) + 1
      /\ \A i \in 1..Len(stack[t]) : stack'[t][i] = stack[t][i]
      /\ stack'[t][Len(stack[t]) + 1] = f
      /\ \A u \in Threads \ {t} : stack'[u] = stack[u]
  BY <1>1, PushStack
<1>3. ASSUME NEW u \in Threads, NEW i \in 1..Len(stack'[u]) PROVE FrameOK(stack'[u][i])
  <2>1. CASE u # t
    BY <1>1, <1>2, <1>3, <2>1 DEF FramesOK
  <2>2. CASE u = t /\ i = Len(stack[t]) + 1
    BY <1>2, <2>2
  <2>3. CASE u = t /\ i # Len(stack[t]) + 1
    <3>1. i \in 1..Len(stack[t])
      BY <1>2, <1>3, <2>3
    <3> QED
      BY <1>1, <1>2, <2>3, <3>1 DEF FramesOK
  <2> QED
    BY <2>1, <2>2, <2>3
<1> QED
  BY <1>2, <1>3 DEF FramesOK

LEMMA PopOK ==
  ASSUME Typed, NEW t \in Threads, stack[t] # <<>>, Pop(t)
  PROVE  Stacks' /\ FramesOK'
<1>1. Stacks /\ FramesOK
  BY DEF Typed, TypeOK, Stacks
<1>2. /\ Stacks' /\ Len(stack[t]) \in Nat \ {0} /\ Len(stack'[t]) = Len(stack[t]) - 1
      /\ \A i \in 1..(Len(stack[t]) - 1) : stack'[t][i] = stack[t][i]
      /\ \A u \in Threads \ {t} : stack'[u] = stack[u]
  BY <1>1, PopStack
<1>3. ASSUME NEW u \in Threads, NEW i \in 1..Len(stack'[u]) PROVE FrameOK(stack'[u][i])
  <2>1. CASE u # t
    BY <1>1, <1>2, <1>3, <2>1 DEF FramesOK
  <2>2. CASE u = t
    <3>1. i \in 1..(Len(stack[t]) - 1) /\ i \in 1..Len(stack[t])
      BY <1>2, <1>3, <2>2
    <3> QED
      BY <1>1, <1>2, <2>2, <3>1 DEF FramesOK
  <2> QED
    BY <2>1, <2>2
<1> QED
  BY <1>2, <1>3 DEF FramesOK

LEMMA ContinueOK ==
  ASSUME Typed, NEW t \in Threads, stack[t] # <<>>, NEW f \in Frame, FrameOK(f), Continue(t, f)
  PROVE  Stacks' /\ FramesOK'
<1>1. Stacks /\ FramesOK
  BY DEF Typed, TypeOK, Stacks
<1>2. /\ Stacks' /\ Len(stack[t]) \in Nat \ {0} /\ Len(stack'[t]) = Len(stack[t])
      /\ \A i \in 1..(Len(stack[t]) - 1) : stack'[t][i] = stack[t][i]
      /\ stack'[t][Len(stack[t])] = f
      /\ \A u \in Threads \ {t} : stack'[u] = stack[u]
  BY <1>1, ContinueStack
<1>3. ASSUME NEW u \in Threads, NEW i \in 1..Len(stack'[u]) PROVE FrameOK(stack'[u][i])
  <2>1. CASE u # t
    BY <1>1, <1>2, <1>3, <2>1 DEF FramesOK
  <2>2. CASE u = t /\ i = Len(stack[t])
    BY <1>2, <2>2
  <2>3. CASE u = t /\ i # Len(stack[t])
    <3>1. i \in 1..(Len(stack[t]) - 1) /\ i \in 1..Len(stack[t])
      BY <1>2, <1>3, <2>3
    <3> QED
      BY <1>1, <1>2, <2>3, <3>1 DEF FramesOK
  <2> QED
    BY <2>1, <2>2, <2>3
<1> QED
  BY <1>2, <1>3 DEF FramesOK

\* The vectors of a state, as far as types and order go.
Vectors == connections \in [Objects -> Seq(Connection)] /\ Sorted

LEMMA VectorsInOrder ==
  ASSUME Vectors, NEW o \in Objects
  PROVE  connections[o] \in Seq(Connection) /\ InOrder(connections[o])
BY DEF Vectors, Sorted, InOrder

\* One vector is replaced by a sorted one.
LEMMA EditOK ==
  ASSUME Vectors, NEW o \in Objects, NEW s \in Seq(Connection), InOrder(s),
         connections' = [connections EXCEPT ![o] = s]
  PROVE  Vectors'
<1>1. connections' \in [Objects -> Seq(Connection)]
  BY DEF Vectors
<1>2. ASSUME NEW p \in Objects, NEW i \in DOMAIN connections'[p],
             NEW j \in DOMAIN connections'[p], i < j
      PROVE  Z[connections'[p][i].slot] <= Z[connections'[p][j].slot]
  <2>1. CASE p = o
    <3>1. connections'[p] = s
      BY <2>1 DEF Vectors
    <3> QED
      BY <1>2, <3>1 DEF InOrder
  <2>2. CASE p # o
    <3>1. connections'[p] = connections[p]
      BY <2>2 DEF Vectors
    <3> QED
      BY <1>2, <3>1 DEF Vectors, Sorted
  <2> QED
    BY <2>1, <2>2
<1> QED
  BY <1>1, <1>2 DEF Vectors, Sorted

\* A step that edits no vector.
LEMMA SameVectors ==
  ASSUME Vectors, connections' = connections
  PROVE  Vectors'
BY DEF Vectors, Sorted

\* Nothing else is typed by more than its own assignment.
Others ==
  /\ life \in [Objects -> {"alive", "dying", "reset", "expired", "dead"}]
  /\ mutex \in [Objects -> SUBSET Threads]
  /\ budget \in [Threads -> Nat]

LEMMA TypedParts == Typed <=> Others /\ Vectors /\ Stacks /\ FramesOK
BY DEF Typed, TypeOK, Others, Vectors, Stacks

LEMMA InitTyped == Init => Typed
<1> SUFFICES ASSUME Init PROVE Typed
  OBVIOUS
<1>1. Others
  BY CallsAssumption DEF Init, Others
<1>2. Vectors
  BY DEF Init, Vectors, Sorted
<1>3. Stacks /\ FramesOK
  BY DEF Init, Stacks, FramesOK
<1> QED
  BY <1>1, <1>2, <1>3, TypedParts

\* What the assumption on the clients says of one call.
CallOK(c) ==
  /\ c \in Call
  /\ c.op \in {"connect", "disconnect", "fire"} => c.obj \in Signals
  /\ c.op \in {"connect", "disconnect"} => c.slot \in Slots

LEMMA CallsOK ==
  /\ \A t \in Threads : \A c \in TopCalls[t] : CallOK(c)
  /\ \A k \in Slots : \A c \in SlotCalls[k] : CallOK(c)
<1> DEFINE Top_ == UNION {TopCalls[t] : t \in Threads}
           Slot_ == UNION {SlotCalls[k] : k \in Slots}
<1>1. \A c \in Top_ \cup Slot_ :
        /\ c.op \in {"connect", "disconnect", "fire"} => c.obj \in Signals
        /\ c.op \in {"connect", "disconnect"} <=> c.slot \in Slots
  BY CallsAssumption
<1>2. ASSUME NEW t \in Threads, NEW c \in TopCalls[t] PROVE c \in Call /\ c \in Top_
  BY CallsAssumption
<1>3. ASSUME NEW k \in Slots, NEW c \in SlotCalls[k] PROVE c \in Call /\ c \in Slot_
  BY CallsAssumption
<1> HIDE DEF Top_, Slot_
<1>4. ASSUME NEW t \in Threads, NEW c \in TopCalls[t] PROVE CallOK(c)
  BY <1>1, <1>2 DEF CallOK
<1>5. ASSUME NEW k \in Slots, NEW c \in SlotCalls[k] PROVE CallOK(c)
  BY <1>1, <1>3 DEF CallOK
<1> QED
  BY <1>4, <1>5

\* A call that a client may make begins with a good frame.
LEMMA BeginTyped ==
  ASSUME Typed, NEW t \in Threads, NEW c, CallOK(c), Begin(t, c)
  PROVE  Typed'
<1> DEFINE f == [op |-> c.op, obj |-> c.obj, slot |-> c.slot,
                 pc |-> FirstPC(c.op), list |-> <<>>, idx |-> 1]
<1>1. /\ c.op \in {"connect", "disconnect", "fire", "disconnect_all", "destroy"}
      /\ c.obj \in Objects /\ c.slot \in Slots \cup {"none"}
      /\ c.op \in {"connect", "disconnect"} => c.obj \in Signals /\ c.slot \in Slots
  BY DEF CallOK, Call
<1>2. FirstPC(c.op) \in {"self", "lock", "reset"}
  BY DEF FirstPC
<1>3. f \in Frame
  BY <1>1, <1>2 DEF Frame
<1>4. FrameOK(f)
  BY <1>1 DEF FrameOK, FirstPC, Sweep
<1>5. Stacks' /\ FramesOK'
  BY <1>3, <1>4, PushOK DEF Begin
<1>6. Vectors'
  BY TypedParts, SameVectors DEF Begin
<1>7. Others'
  <2>1. budget' \in [Threads -> Nat]
    BY TypedParts DEF Begin, Others
  <2>2. life' \in [Objects -> {"alive", "dying", "reset", "expired", "dead"}]
    BY <1>1, TypedParts DEF Begin, Others
  <2> QED
    BY <2>1, <2>2, TypedParts DEF Begin, Others
<1> QED
  BY <1>5, <1>6, <1>7, TypedParts, PTL

\* What the guard of an action says of the innermost frame.
LEMMA AtTop ==
  ASSUME Typed, NEW t \in Threads, NEW op, NEW pc, At(t, op, pc)
  PROVE  /\ stack[t] # <<>> /\ Top(t).op \in op /\ Top(t).pc = pc
         /\ Top(t) \in Frame /\ FrameOK(Top(t)) /\ Top(t).obj \in Objects
<1>1. Top(t) \in Frame /\ FrameOK(Top(t))
  BY TopOK DEF At
<1> QED
  BY <1>1 DEF At, Frame

\* The innermost frame goes on to another program point.
LEMMA GotoTyped ==
  ASSUME Typed, NEW t \in Threads, stack[t] # <<>>, NEW pc \in PCs,
         FrameOK([Top(t) EXCEPT !.pc = pc]), Goto(t, pc)
  PROVE  Stacks' /\ FramesOK'
<1>1. [Top(t) EXCEPT !.pc = pc] \in Frame
  BY TopOK, GotoFrame
<1> QED
  BY <1>1, ContinueOK DEF Goto

\* The loop of the innermost frame goes on to its next connection.
LEMMA NextConnectionTyped ==
  ASSUME Typed, NEW t \in Threads, stack[t] # <<>>, Top(t).op \in Sweep \cup {"fire"},
         NextConnection(t)
  PROVE  Stacks' /\ FramesOK'
<1> DEFINE f == Top(t)
           g == [f EXCEPT !.pc = "loop", !.idx = @ + 1]
<1>1. f \in Frame /\ FrameOK(f)
  BY TopOK
<1>2. g \in Frame /\ g.pc = "loop" /\ g.op = f.op /\ g.idx = f.idx + 1
  BY <1>1, NextFrame
<1>3. f.idx \in Nat
  BY <1>1 DEF Frame
<1> HIDE DEF g
<1>4. FrameOK(g)
  BY <1>1, <1>2, <1>3 DEF FrameOK, Sweep
<1> QED
  BY <1>2, <1>4, ContinueOK DEF NextConnection, g

\* The loop of the innermost frame starts.
LEMMA StartTyped ==
  ASSUME Typed, NEW t \in Threads, stack[t] # <<>>, Top(t).op \in Sweep \cup {"fire"},
         Continue(t, [Top(t) EXCEPT !.pc = "loop", !.list = connections[Top(t).obj]])
  PROVE  Stacks' /\ FramesOK'
<1> DEFINE f == Top(t)
           g == [f EXCEPT !.pc = "loop", !.list = connections[f.obj]]
<1>1. f \in Frame /\ FrameOK(f) /\ f.obj \in Objects
  BY TopOK DEF Frame
<1>2. connections[f.obj] \in Seq(Connection)
  BY <1>1, TypedParts, VectorsInOrder
<1>3. g \in Frame /\ g.pc = "loop" /\ g.op = f.op /\ g.idx = f.idx
  BY <1>1, <1>2, StartFrame
<1> HIDE DEF g
<1>4. FrameOK(g)
  BY <1>1, <1>3 DEF FrameOK, Sweep
<1> QED
  BY <1>3, <1>4, ContinueOK DEF g

\* The halves of connect and disconnect name an object and a slot.
LEMMA EditedOK ==
  ASSUME NEW f \in Frame, FrameOK(f), f.op \in {"connect", "disconnect"}
  PROVE  f.slot \in Slots /\ Edited(f) \in Objects /\ Remembered(f) \in Objects
<1>1. f.obj \in Objects /\ f.slot \in Slots /\ f.pc \in {"self", "peer"}
      /\ (f.pc = "peer" => f.slot \in MemberSlots)
  BY DEF FrameOK, Frame
<1>2. \A k \in MemberSlots : Owner[k] \in Objects
  BY ObjectsAssumption DEF Objects
<1> QED
  BY <1>1, <1>2 DEF Edited, Remembered, Receiver

LEMMA HalfDoneTyped ==
  ASSUME Typed, NEW t \in Threads, stack[t] # <<>>, Top(t).op \in {"connect", "disconnect"},
         HalfDone(t)
  PROVE  Stacks' /\ FramesOK'
<1>1. CASE Top(t).pc = "self" /\ Top(t).slot \in MemberSlots
  <2> DEFINE g == [Top(t) EXCEPT !.pc = "peer"]
  <2>1. Top(t) \in Frame /\ FrameOK(Top(t)) /\ "peer" \in PCs
    BY TopOK DEF PCs
  <2>2. /\ g.pc = "peer" /\ g.op = Top(t).op /\ g.obj = Top(t).obj
        /\ g.slot = Top(t).slot /\ g.idx = Top(t).idx
    BY <2>1, GotoFrame
  <2> HIDE DEF g
  <2>3. FrameOK(g)
    BY <1>1, <2>1, <2>2 DEF FrameOK, Sweep
  <2> QED
    BY <1>1, <2>1, <2>3, GotoTyped DEF HalfDone, g
<1>2. CASE ~(Top(t).pc = "self" /\ Top(t).slot \in MemberSlots)
  BY <1>2, PopOK DEF HalfDone
<1> QED
  BY <1>1, <1>2

LEMMA InsertTyped ==
  ASSUME Typed, NEW t \in Threads, InsertHalf(t)
  PROVE  Typed'
<1> DEFINE f == Top(t)
<1>1. /\ stack[t] # <<>> /\ f \in Frame /\ FrameOK(f)
      /\ f.op \in {"connect", "disconnect"}
  BY AtTop DEF InsertHalf
<1>2. f.slot \in Slots /\ Edited(f) \in Objects /\ Remembered(f) \in Objects
  BY <1>1, EditedOK
<1>3. connections' = [connections EXCEPT ![Edited(f)]
                        = Inserted(connections[Edited(f)], f.slot, Remembered(f))]
  BY DEF InsertHalf
<1>4. Vectors'
  <2>1. Vectors
    BY TypedParts
  <2>2. connections[Edited(f)] \in Seq(Connection) /\ InOrder(connections[Edited(f)])
    BY <1>2, <2>1, VectorsInOrder
  <2> QED
    BY <1>2, <1>3, <2>1, <2>2, InsertedInOrder, EditOK
<1>5. Stacks' /\ FramesOK'
  BY <1>1, HalfDoneTyped DEF InsertHalf
<1>6. Others'
  BY TypedParts DEF InsertHalf, Others
<1> QED
  BY <1>4, <1>5, <1>6, TypedParts, PTL

LEMMA RemoveTyped ==
  ASSUME Typed, NEW t \in Threads, RemoveHalf(t)
  PROVE  Typed'
<1> DEFINE f == Top(t)
<1>1. /\ stack[t] # <<>> /\ f \in Frame /\ FrameOK(f)
      /\ f.op \in {"connect", "disconnect"}
  BY AtTop DEF RemoveHalf
<1>2. f.slot \in Slots /\ Edited(f) \in Objects
  BY <1>1, EditedOK
<1>3. connections' = [connections EXCEPT ![Edited(f)] = Removed(connections[Edited(f)], f.slot)]
  BY DEF RemoveHalf
<1>4. Vectors'
  <2>1. Vectors
    BY TypedParts
  <2>2. connections[Edited(f)] \in Seq(Connection) /\ InOrder(connections[Edited(f)])
    BY <1>2, <2>1, VectorsInOrder
  <2> QED
    BY <1>2, <1>3, <2>1, <2>2, RemovedInOrder, EditOK
<1>5. Stacks' /\ FramesOK'
  BY <1>1, HalfDoneTyped DEF RemoveHalf
<1>6. Others'
  BY TypedParts DEF RemoveHalf, Others
<1> QED
  BY <1>4, <1>5, <1>6, TypedParts, PTL

\* A step that leaves the vectors alone and moves the mutexes and the lives
\* within their types.
LEMMA QuietTyped ==
  ASSUME Typed, connections' = connections, Stacks', FramesOK',
         life' \in [Objects -> {"alive", "dying", "reset", "expired", "dead"}],
         mutex' \in [Objects -> SUBSET Threads],
         budget' = budget
  PROVE  Typed'
<1>1. Vectors'
  BY TypedParts, SameVectors
<1>2. Others'
  BY TypedParts DEF Others
<1> QED
  BY <1>1, <1>2, TypedParts, PTL

LEMMA EmissionTyped ==
  ASSUME Typed, NEW t \in Threads,
         StartEmission(t) \/ CallSlot(t) \/ SkipSlot(t) \/ SlotReturns(t) \/ EndEmission(t)
  PROVE  Typed'
<1> DEFINE f == Top(t)
<1>0. Others
  BY TypedParts
<1>1. CASE StartEmission(t)
  <2>1. stack[t] # <<>> /\ f.op = "fire" /\ f.obj \in Objects
    BY <1>1, AtTop DEF StartEmission
  <2>2. Stacks' /\ FramesOK'
    BY <1>1, <2>1, StartTyped DEF StartEmission
  <2>3. mutex' \in [Objects -> SUBSET Threads]
    BY <1>0, <1>1, <2>1 DEF StartEmission, Acquire, Others
  <2> QED
    BY <1>0, <1>1, <2>2, <2>3, QuietTyped DEF StartEmission, Others
<1>2. CASE CallSlot(t)
  <2> DEFINE g == [f EXCEPT !.pc = "slot"]
  <2>1. stack[t] # <<>> /\ f.op = "fire" /\ f \in Frame /\ FrameOK(f) /\ "slot" \in PCs
    BY <1>2, AtTop DEF CallSlot, PCs
  <2>2. /\ g.pc = "slot" /\ g.op = f.op /\ g.obj = f.obj /\ g.slot = f.slot
        /\ g.list = f.list /\ g.idx = f.idx
    BY <2>1, GotoFrame
  <2>3. f.idx \in 1..Len(f.list)
    <3>1. f.idx \in Nat /\ f.idx # 0 /\ Len(f.list) \in Nat
      BY <2>1 DEF FrameOK, Frame
    <3> QED
      BY <1>2, <3>1 DEF CallSlot, AtEnd
  <2> HIDE DEF g
  <2>4. FrameOK(g)
    BY <2>1, <2>2, <2>3 DEF FrameOK, Sweep
  <2>5. Stacks' /\ FramesOK'
    BY <1>2, <2>1, <2>4, GotoTyped DEF CallSlot, g
  <2> QED
    BY <1>0, <1>2, <2>5, QuietTyped DEF CallSlot, Others
<1>3. CASE SkipSlot(t)
  <2>1. Stacks' /\ FramesOK'
    BY <1>3, AtTop, NextConnectionTyped DEF SkipSlot
  <2> QED
    BY <1>0, <1>3, <2>1, QuietTyped DEF SkipSlot, Others
<1>4. CASE SlotReturns(t)
  <2>1. Stacks' /\ FramesOK'
    BY <1>4, AtTop, NextConnectionTyped DEF SlotReturns
  <2> QED
    BY <1>0, <1>4, <2>1, QuietTyped DEF SlotReturns, Others
<1>5. CASE EndEmission(t)
  <2>1. stack[t] # <<>> /\ f.obj \in Objects
    BY <1>5, AtTop DEF EndEmission, EmissionOver
  <2>2. Stacks' /\ FramesOK'
    BY <1>5, <2>1, PopOK DEF EndEmission
  <2>3. mutex' \in [Objects -> SUBSET Threads]
    BY <1>0, <1>5, <2>1 DEF EndEmission, Release, Others
  <2> QED
    BY <1>0, <1>5, <2>2, <2>3, QuietTyped DEF EndEmission, Others
<1> QED
  BY <1>1, <1>2, <1>3, <1>4, <1>5

\* The two steps before the mutex of a destructor.
LEMMA WaitTyped ==
  ASSUME Typed, NEW t \in Threads, ResetTracker(t) \/ Drained(t)
  PROVE  Typed'
<1> DEFINE f == Top(t)
<1>0. Others
  BY TypedParts
<1>1. ASSUME NEW pc \in {"drain", "lock"}, NEW from \in {"reset", "drain"},
             At(t, {"destroy"}, from), Goto(t, pc)
      PROVE  Stacks' /\ FramesOK'
  <2> DEFINE g == [f EXCEPT !.pc = pc]
  <2>1. /\ stack[t] # <<>> /\ f.op = "destroy" /\ f.pc = from /\ f \in Frame /\ FrameOK(f)
        /\ pc \in PCs
    BY <1>1, AtTop DEF PCs
  <2>2. /\ g.pc = pc /\ g.op = f.op /\ g.obj = f.obj /\ g.slot = f.slot
        /\ g.list = f.list /\ g.idx = f.idx
    BY <2>1, GotoFrame
  <2> HIDE DEF g
  <2>3. FrameOK(g)
    BY <1>1, <2>1, <2>2 DEF FrameOK, Sweep
  <2> QED
    BY <1>1, <2>1, <2>3, GotoTyped DEF g
<1>2. CASE ResetTracker(t)
  <2>1. Stacks' /\ FramesOK'
    BY <1>1, <1>2 DEF ResetTracker
  <2>2. life' \in [Objects -> {"alive", "dying", "reset", "expired", "dead"}]
    BY <1>0, <1>2 DEF ResetTracker, Others
  <2> QED
    BY <1>0, <1>2, <2>1, <2>2, QuietTyped DEF ResetTracker, Others
<1>3. CASE Drained(t)
  <2>1. Stacks' /\ FramesOK'
    BY <1>1, <1>3 DEF Drained
  <2>2. life' \in [Objects -> {"alive", "dying", "reset", "expired", "dead"}]
    BY <1>0, <1>3 DEF Drained, Others
  <2> QED
    BY <1>0, <1>3, <2>1, <2>2, QuietTyped DEF Drained, Others
<1> QED
  BY <1>2, <1>3

LEMMA SweepTyped ==
  ASSUME Typed, NEW t \in Threads,
         StartSweep(t) \/ VisitPeer(t) \/ SkipPeer(t) \/ RemovePeer(t) \/ EndSweep(t)
  PROVE  Typed'
<1> DEFINE f == Top(t)
<1>0. Others /\ Vectors
  BY TypedParts
<1>1. CASE StartSweep(t)
  <2>1. stack[t] # <<>> /\ f.op \in Sweep /\ f.obj \in Objects
    BY <1>1, AtTop DEF StartSweep
  <2>2. Stacks' /\ FramesOK'
    BY <1>1, <2>1, StartTyped DEF StartSweep
  <2>3. mutex' \in [Objects -> SUBSET Threads]
    BY <1>0, <1>1, <2>1 DEF StartSweep, Acquire, Others
  <2> QED
    BY <1>0, <1>1, <2>2, <2>3, QuietTyped DEF StartSweep, Others
<1>2. CASE VisitPeer(t)
  <2> DEFINE g == [f EXCEPT !.pc = "peer"]
  <2>1. stack[t] # <<>> /\ f.op \in Sweep /\ f \in Frame /\ FrameOK(f) /\ "peer" \in PCs
    BY <1>2, AtTop DEF VisitPeer, PCs
  <2>2. /\ g.pc = "peer" /\ g.op = f.op /\ g.obj = f.obj /\ g.slot = f.slot
        /\ g.list = f.list /\ g.idx = f.idx
    BY <2>1, GotoFrame
  <2>3. f.idx \in 1..Len(f.list)
    <3>1. f.idx \in Nat /\ f.idx # 0 /\ Len(f.list) \in Nat
      BY <2>1 DEF FrameOK, Frame
    <3> QED
      BY <1>2, <3>1 DEF VisitPeer, AtEnd
  <2> HIDE DEF g
  <2>4. FrameOK(g)
    BY <2>1, <2>2, <2>3 DEF FrameOK, Sweep
  <2>5. Stacks' /\ FramesOK'
    BY <1>2, <2>1, <2>4, GotoTyped DEF VisitPeer, g
  <2> QED
    BY <1>0, <1>2, <2>5, QuietTyped DEF VisitPeer, Others
<1>3. CASE SkipPeer(t)
  <2>1. Stacks' /\ FramesOK'
    BY <1>3, AtTop, NextConnectionTyped DEF SkipPeer
  <2> QED
    BY <1>0, <1>3, <2>1, QuietTyped DEF SkipPeer, Others
<1>4. CASE RemovePeer(t)
  <2> DEFINE e == Current(f)
  <2>1. /\ stack[t] # <<>> /\ f.op \in Sweep /\ f.pc = "peer" /\ f \in Frame /\ FrameOK(f)
    BY <1>4, AtTop DEF RemovePeer
  <2>2. f.idx \in 1..Len(f.list)
    BY <2>1 DEF FrameOK
  <2>3. e.slot \in Slots /\ e.obs \in Objects
    BY <2>1, <2>2, CurrentOK
  <2>4. connections' = [connections EXCEPT ![e.obs] = Removed(connections[e.obs], e.slot)]
    BY <1>4 DEF RemovePeer
  <2> HIDE DEF e
  <2>5. connections[e.obs] \in Seq(Connection) /\ InOrder(connections[e.obs])
    BY <1>0, <2>3, VectorsInOrder
  <2>6. Vectors'
    BY <1>0, <2>3, <2>4, <2>5, RemovedInOrder, EditOK
  <2>7. Stacks' /\ FramesOK'
    BY <1>4, <2>1, NextConnectionTyped DEF RemovePeer
  <2>8. Others'
    BY <1>0, <1>4 DEF RemovePeer, Others
  <2> QED
    BY <2>6, <2>7, <2>8, TypedParts, PTL
<1>5. CASE EndSweep(t)
  <2>1. stack[t] # <<>> /\ f.obj \in Objects
    BY <1>5, AtTop DEF EndSweep
  <2>2. Stacks' /\ FramesOK'
    BY <1>5, <2>1, PopOK DEF EndSweep
  <2>3. Vectors'
    <3>1. connections' = [connections EXCEPT ![f.obj] = <<>>]
      BY <1>5 DEF EndSweep
    <3>2. <<>> \in Seq(Connection) /\ InOrder(<<>>)
      BY DEF InOrder
    <3> QED
      BY <1>0, <2>1, <3>1, <3>2, EditOK
  <2>4. Others'
    <3>1. mutex' \in [Objects -> SUBSET Threads]
      BY <1>0, <1>5, <2>1 DEF EndSweep, Release, Others
    <3>2. life' \in [Objects -> {"alive", "dying", "reset", "expired", "dead"}]
      BY <1>0, <1>5, <2>1 DEF EndSweep, Others
    <3> QED
      BY <1>0, <1>5, <3>1, <3>2 DEF EndSweep, Others
  <2> QED
    BY <2>2, <2>3, <2>4, TypedParts, PTL
<1> QED
  BY <1>1, <1>2, <1>3, <1>4, <1>5

\* What clients may call is a call of the right kind.
LEMMA ClientCalls ==
  ASSUME Typed, NEW t \in Threads, CallFromThread(t) \/ CallFromSlot(t)
  PROVE  \E c : CallOK(c) /\ Begin(t, c)
<1>1. CASE CallFromThread(t)
  BY <1>1, CallsOK DEF CallFromThread
<1>2. CASE CallFromSlot(t)
  <2> DEFINE f == Top(t)
  <2>1. f.op = "fire" /\ f.pc = "slot" /\ f \in Frame /\ FrameOK(f)
    BY <1>2, AtTop DEF CallFromSlot
  <2>2. f.idx \in 1..Len(f.list)
    BY <2>1 DEF FrameOK
  <2>3. Current(f).slot \in Slots
    BY <2>1, <2>2, CurrentOK
  <2> QED
    BY <1>2, <2>3, CallsOK DEF CallFromSlot
<1> QED
  BY <1>1, <1>2

LEMMA NextTyped == Typed /\ [Next]_vars => Typed'
<1> SUFFICES ASSUME Typed, [Next]_vars PROVE Typed'
  OBVIOUS
<1>1. ASSUME NEW t \in Threads, CallFromThread(t) \/ CallFromSlot(t) PROVE Typed'
  <2>1. PICK c : CallOK(c) /\ Begin(t, c)
    BY <1>1, ClientCalls
  <2> QED
    BY <2>1, BeginTyped
<1>2. ASSUME NEW t \in Threads, Step(t) PROVE Typed'
  BY <1>2, InsertTyped, RemoveTyped, EmissionTyped, WaitTyped, SweepTyped DEF Step
<1>3. CASE UNCHANGED vars
  <2>1. Stacks' /\ FramesOK'
    BY <1>3, TypedParts DEF vars, Stacks, FramesOK
  <2> QED
    BY <1>3, <2>1, TypedParts, QuietTyped DEF vars, Others
<1> QED
  BY <1>1, <1>2, <1>3 DEF Next, Rest

\* Every state is well typed: every program point is one its operation has, and
\* every loop that is inside a slot or an edit stands at an element of its list.
THEOREM TypeCorrect == Spec => []TypeOK
<1>1. Typed => TypeOK
  BY DEF Typed
<1> QED
  BY <1>1, InitTyped, NextTyped, PTL DEF Spec

\* Every vector is sorted, so that every binary search of insert and remove is
\* defined.
THEOREM AlwaysSorted == Spec => []Sorted
<1>1. Typed => Sorted
  BY DEF Typed
<1> QED
  BY <1>1, InitTyped, NextTyped, PTL DEF Spec

-------------------------------------------------------------------------------
(* Mutexes: each is held by the one call that will give it back, and while *)
(* it is held the vector it guards does not change                         *)

\* The i-th call of thread u holds the mutex of o.
Holder(u, i, o) == i \in 1..Len(stack[u]) /\ Holds(stack[u][i], o)

\* LockDiscipline, call by call.
MutexOK ==
  \A o \in Objects : \A u \in Threads : u \in mutex[o] <=> \E i \in 1..Len(stack[u]) : Holder(u, i, o)

OneHolder ==
  \A o \in Objects : \A u, w \in Threads : \A i \in 1..Len(stack[u]), j \in 1..Len(stack[w]) :
    Holder(u, i, o) /\ Holder(w, j, o) => u = w /\ i = j

LockInv == Typed /\ MutexOK /\ OneHolder

-------------------------------------------------------------------------------
(* Holders *)

LEMMA DisciplineParts == LockInv => LockDiscipline
<1> SUFFICES ASSUME LockInv, NEW o \in Objects
             PROVE  LET holders == {v \in UNION {{t} \X DOMAIN stack[t] : t \in Threads} :
                                      Holds(stack[v[1]][v[2]], o)}
                    IN  /\ mutex[o] = {v[1] : v \in holders}
                        /\ \A v, w \in holders : v = w
  BY DEF LockDiscipline
<1> DEFINE holders == {v \in UNION {{t} \X DOMAIN stack[t] : t \in Threads} :
                         Holds(stack[v[1]][v[2]], o)}
<1>1. mutex[o] \subseteq Threads
  BY TypedParts DEF LockInv, Others
<1>2. \A t \in Threads : DOMAIN stack[t] = 1..Len(stack[t])
  BY TypedParts DEF LockInv, Stacks
<1>3. \A t, i : <<t, i>>[1] = t /\ <<t, i>>[2] = i
  OBVIOUS
<1>4. \A v : v \in holders <=> \E t \in Threads : \E i \in 1..Len(stack[t]) : v = <<t, i>> /\ Holder(t, i, o)
  BY <1>2, <1>3 DEF Holder
<1> HIDE DEF holders
<1>5. mutex[o] = {v[1] : v \in holders}
  <2>1. ASSUME NEW u \in mutex[o] PROVE \E v \in holders : v[1] = u
    <3>1. PICK i \in 1..Len(stack[u]) : Holder(u, i, o)
      BY <1>1, <2>1 DEF LockInv, MutexOK
    <3>2. <<u, i>> \in holders /\ <<u, i>>[1] = u
      BY <1>1, <1>4, <3>1
    <3> QED
      BY <3>2
  <2>2. ASSUME NEW v \in holders PROVE v[1] \in mutex[o]
    <3>1. PICK t \in Threads : \E i \in 1..Len(stack[t]) : v = <<t, i>> /\ Holder(t, i, o)
      BY <1>4, <2>2
    <3>2. t \in mutex[o]
      BY <3>1 DEF LockInv, MutexOK
    <3> QED
      BY <3>1, <3>2
  <2> QED
    BY <2>1, <2>2
<1>6. ASSUME NEW v \in holders, NEW w \in holders PROVE v = w
  <2>1. PICK t \in Threads : \E i \in 1..Len(stack[t]) : v = <<t, i>> /\ Holder(t, i, o)
    BY <1>4, <1>6
  <2>2. PICK i \in 1..Len(stack[t]) : v = <<t, i>> /\ Holder(t, i, o)
    BY <2>1
  <2>3. PICK u \in Threads : \E j \in 1..Len(stack[u]) : w = <<u, j>> /\ Holder(u, j, o)
    BY <1>4, <1>6
  <2>4. PICK j \in 1..Len(stack[u]) : w = <<u, j>> /\ Holder(u, j, o)
    BY <2>3
  <2>5. t = u /\ i = j
    BY <2>2, <2>4 DEF LockInv, OneHolder
  <2> QED
    BY <2>2, <2>4, <2>5
<1> QED
  BY <1>5, <1>6 DEF holders

\* A free mutex has no holder.
LEMMA FreeUnheld ==
  ASSUME LockInv, NEW o \in Objects, mutex[o] = {}
  PROVE  \A u \in Threads : \A i : ~Holder(u, i, o)
BY DEF LockInv, MutexOK, Holder

\* The holders after each of the three ways to change a stack.
LEMMA HoldersContinue ==
  ASSUME Stacks, NEW t \in Threads, stack[t] # <<>>, NEW f \in Frame, Continue(t, f)
  PROVE  \A u \in Threads : \A i, o :
           Holder(u, i, o)' <=> IF u = t /\ i = Len(stack[t]) THEN Holds(f, o) ELSE Holder(u, i, o)
<1> DEFINE n == Len(stack[t])
<1>1. /\ n \in Nat \ {0} /\ Len(stack'[t]) = n
      /\ \A i \in 1..(n - 1) : stack'[t][i] = stack[t][i]
      /\ stack'[t][n] = f
      /\ \A u \in Threads \ {t} : stack'[u] = stack[u]
  BY ContinueStack
<1> HIDE DEF n
<1> SUFFICES ASSUME NEW u \in Threads, NEW i, NEW o
             PROVE  Holder(u, i, o)' <=> IF u = t /\ i = n THEN Holds(f, o) ELSE Holder(u, i, o)
  BY DEF n
<1>2. CASE u # t
  <2>1. stack'[u] = stack[u]
    BY <1>1, <1>2
  <2> QED
    BY <1>2, <2>1 DEF Holder, Holds
<1>3. CASE u = t /\ i = n
  <2>1. n \in 1..n
    BY <1>1
  <2> QED
    BY <1>1, <1>3, <2>1 DEF Holder, Holds
<1>4. CASE u = t /\ i # n
  <2>1. i \in 1..n => i \in 1..(n - 1)
    BY <1>1, <1>4
  <2> QED
    BY <1>1, <1>4, <2>1 DEF Holder, Holds, n
<1> QED
  BY <1>2, <1>3, <1>4

LEMMA HoldersPop ==
  ASSUME Stacks, NEW t \in Threads, stack[t] # <<>>, Pop(t)
  PROVE  \A u \in Threads : \A i, o :
           Holder(u, i, o)' <=> Holder(u, i, o) /\ ~(u = t /\ i = Len(stack[t]))
<1> DEFINE n == Len(stack[t])
<1>1. /\ n \in Nat \ {0} /\ Len(stack'[t]) = n - 1
      /\ \A i \in 1..(n - 1) : stack'[t][i] = stack[t][i]
      /\ \A u \in Threads \ {t} : stack'[u] = stack[u]
  BY PopStack
<1> HIDE DEF n
<1> SUFFICES ASSUME NEW u \in Threads, NEW i, NEW o
             PROVE  Holder(u, i, o)' <=> Holder(u, i, o) /\ ~(u = t /\ i = n)
  BY DEF n
<1>2. CASE u # t
  <2>1. stack'[u] = stack[u]
    BY <1>1, <1>2
  <2> QED
    BY <1>2, <2>1 DEF Holder, Holds
<1>3. CASE u = t
  <2>1. i \in 1..(n - 1) <=> i \in 1..n /\ i # n
    BY <1>1
  <2> QED
    BY <1>1, <1>3, <2>1 DEF Holder, Holds, n
<1> QED
  BY <1>2, <1>3

LEMMA HoldersPush ==
  ASSUME Stacks, NEW t \in Threads, NEW f \in Frame, Push(t, f), \A o : ~Holds(f, o)
  PROVE  \A u \in Threads : \A i, o : Holder(u, i, o)' <=> Holder(u, i, o)
<1> DEFINE n == Len(stack[t])
<1>1. /\ n \in Nat /\ Len(stack'[t]) = n + 1
      /\ \A i \in 1..n : stack'[t][i] = stack[t][i]
      /\ stack'[t][n + 1] = f
      /\ \A u \in Threads \ {t} : stack'[u] = stack[u]
  BY PushStack
<1> HIDE DEF n
<1> SUFFICES ASSUME NEW u \in Threads, NEW i, NEW o
             PROVE  Holder(u, i, o)' <=> Holder(u, i, o)
  OBVIOUS
<1>2. CASE u # t
  <2>1. stack'[u] = stack[u]
    BY <1>1, <1>2
  <2> QED
    BY <1>2, <2>1 DEF Holder, Holds
<1>3. CASE u = t
  <2>1. i \in 1..(n + 1) <=> i \in 1..n \/ i = n + 1
    BY <1>1
  <2>2. i = n + 1 => ~Holds(stack'[u][i], o) /\ i \notin 1..n
    BY <1>1, <1>3
  <2>3. i \in 1..n => stack'[u][i] = stack[u][i]
    BY <1>1, <1>3
  <2>4. Holder(u, i, o)' <=> i \in 1..(n + 1) /\ Holds(stack'[u][i], o)
    BY <1>1, <1>3 DEF Holder, Holds
  <2>5. Holder(u, i, o) <=> i \in 1..n /\ Holds(stack[u][i], o)
    BY <1>3 DEF Holder, n
  <2> QED
    BY <2>1, <2>2, <2>3, <2>4, <2>5
<1> QED
  BY <1>2, <1>3

-------------------------------------------------------------------------------
(* How a step changes mutexes and holders together *)

LEMMA MutexKept ==
  ASSUME LockInv, mutex' = mutex,
         \A u \in Threads : \A i : \A o \in Objects : Holder(u, i, o)' <=> Holder(u, i, o)
  PROVE  MutexOK' /\ OneHolder'
<1>1. \A u \in Threads : \A i, o : Holder(u, i, o)' => i \in 1..Len(stack'[u])
  BY DEF Holder
<1>2. \A u \in Threads : \A i, o : Holder(u, i, o) => i \in 1..Len(stack[u])
  BY DEF Holder
<1>3. MutexOK'
  BY <1>1, <1>2 DEF MutexOK, LockInv
<1>4. OneHolder'
  BY <1>1, <1>2 DEF OneHolder, LockInv
<1> QED
  BY <1>3, <1>4

LEMMA MutexTaken ==
  ASSUME LockInv, NEW t \in Threads, NEW o \in Objects,
         mutex[o] = {}, mutex' = [mutex EXCEPT ![o] = {t}],
         \A u \in Threads : \A i : \A p \in Objects :
           Holder(u, i, p)' <=> Holder(u, i, p) \/ (u = t /\ i = Len(stack[t]) /\ p = o)
  PROVE  MutexOK' /\ OneHolder'
<1>1. \A u \in Threads : \A i, p : Holder(u, i, p)' => i \in 1..Len(stack'[u])
  BY DEF Holder
<1>2. \A u \in Threads : \A i, p : Holder(u, i, p) => i \in 1..Len(stack[u])
  BY DEF Holder
<1>3. \A u \in Threads : \A i : ~Holder(u, i, o)
  BY FreeUnheld
<1>4. \A p \in Objects : mutex'[p] = IF p = o THEN {t} ELSE mutex[p]
  BY TypedParts DEF LockInv, Others
<1>5. ASSUME NEW p \in Objects, NEW u \in Threads
      PROVE  u \in mutex'[p] <=> \E i : Holder(u, i, p)'
  <2>1. u \in mutex[p] <=> \E i : Holder(u, i, p)
    BY <1>2 DEF LockInv, MutexOK
  <2>2. PICK n : n = Len(stack[t])
    OBVIOUS
  <2>3. Holder(t, n, o)'
    BY <2>2
  <2> QED
    BY <1>3, <1>4, <2>1, <2>2, <2>3
<1>6. MutexOK'
  BY <1>1, <1>5 DEF MutexOK
<1>7. OneHolder'
  BY <1>1, <1>2, <1>3 DEF OneHolder, LockInv
<1> QED
  BY <1>6, <1>7

LEMMA MutexGiven ==
  ASSUME LockInv, NEW t \in Threads, NEW o \in Objects,
         Holder(t, Len(stack[t]), o), mutex' = [mutex EXCEPT ![o] = {}],
         \A u \in Threads : \A i : \A p \in Objects :
           Holder(u, i, p)' <=> Holder(u, i, p) /\ ~(u = t /\ i = Len(stack[t]) /\ p = o)
  PROVE  MutexOK' /\ OneHolder'
<1>1. \A u \in Threads : \A i, p : Holder(u, i, p)' => i \in 1..Len(stack'[u])
  BY DEF Holder
<1>2. \A u \in Threads : \A i, p : Holder(u, i, p) => i \in 1..Len(stack[u])
  BY DEF Holder
<1>3. \A u \in Threads : \A i : Holder(u, i, o) => u = t /\ i = Len(stack[t])
  BY <1>2 DEF LockInv, OneHolder
<1>4. \A p \in Objects : mutex'[p] = IF p = o THEN {} ELSE mutex[p]
  BY TypedParts DEF LockInv, Others
<1>5. ASSUME NEW p \in Objects, NEW u \in Threads
      PROVE  u \in mutex'[p] <=> \E i : Holder(u, i, p)'
  <2>1. u \in mutex[p] <=> \E i : Holder(u, i, p)
    BY <1>2 DEF LockInv, MutexOK
  <2> QED
    BY <1>3, <1>4, <2>1
<1>6. MutexOK'
  BY <1>1, <1>5 DEF MutexOK
<1>7. OneHolder'
  BY <1>1, <1>2 DEF OneHolder, LockInv
<1> QED
  BY <1>6, <1>7

-------------------------------------------------------------------------------
(* Loops by reference *)

\* Under a locking policy the loops over the vector itself hold its mutex.
LEMMA InPlaceHolds == ASSUME Locks, NEW f PROVE InPlace(f) <=> Holds(f, f.obj)
BY DEF InPlace, Holds

\* IteratorsStable, call by call.
Stable ==
  Locks => \A u \in Threads : \A i \in 1..Len(stack[u]) :
    InPlace(stack[u][i]) => connections[stack[u][i].obj] = stack[u][i].list

LEMMA StableParts == Typed /\ Stable => (Locks => IteratorsStable)
<1> SUFFICES ASSUME Typed, Stable, Locks PROVE IteratorsStable
  OBVIOUS
<1>1. \A t \in Threads : DOMAIN stack[t] = 1..Len(stack[t])
  BY TypedParts DEF Stacks
<1> QED
  BY <1>1 DEF IteratorsStable, Stable

\* A step of thread t changes only vectors that no other loop runs over.
EditsOwn(t) ==
  \A p \in Objects : connections'[p] = connections[p] \/
    \A u \in Threads : \A i : Holder(u, i, p) => u = t /\ i = Len(stack[t])

\* A frame that the step does not touch.
LEMMA StableKept ==
  ASSUME LockInv, Stable, Locks, NEW t \in Threads, EditsOwn(t),
         NEW u \in Threads, NEW i \in 1..Len(stack[u]), ~(u = t /\ i = Len(stack[t])),
         InPlace(stack[u][i])
  PROVE  connections'[stack[u][i].obj] = stack[u][i].list
<1> DEFINE f == stack[u][i]
<1>1. f \in Frame
  BY TypedParts, ElementOfSeq DEF LockInv, Stacks
<1>2. f.obj \in Objects
  BY <1>1 DEF Frame
<1>3. Holder(u, i, f.obj)
  BY InPlaceHolds DEF Holder
<1>4. connections'[f.obj] = connections[f.obj]
  BY <1>2, <1>3 DEF EditsOwn
<1> QED
  BY <1>4 DEF Stable

LEMMA StableContinue ==
  ASSUME LockInv, Stable, NEW t \in Threads, stack[t] # <<>>, NEW f \in Frame, Continue(t, f),
         EditsOwn(t), Locks /\ InPlace(f) => connections'[f.obj] = f.list
  PROVE  Stable'
<1> SUFFICES ASSUME Locks, NEW u \in Threads, NEW i \in 1..Len(stack'[u]), InPlace(stack'[u][i])
             PROVE  connections'[stack'[u][i].obj] = stack'[u][i].list
  BY DEF Stable, InPlace
<1>1. /\ Len(stack[t]) \in Nat \ {0} /\ Len(stack'[t]) = Len(stack[t])
      /\ \A j \in 1..(Len(stack[t]) - 1) : stack'[t][j] = stack[t][j]
      /\ stack'[t][Len(stack[t])] = f
      /\ \A w \in Threads \ {t} : stack'[w] = stack[w]
  BY TypedParts, ContinueStack DEF LockInv
<1>2. CASE u # t
  BY <1>1, <1>2, StableKept
<1>3. CASE u = t /\ i = Len(stack[t])
  BY <1>1, <1>3
<1>4. CASE u = t /\ i # Len(stack[t])
  <2>1. i \in 1..(Len(stack[t]) - 1) /\ i \in 1..Len(stack[t])
    BY <1>1, <1>4
  <2>2. stack'[u][i] = stack[u][i]
    BY <1>1, <1>4, <2>1
  <2> QED
    BY <1>4, <2>1, <2>2, StableKept
<1> QED
  BY <1>2, <1>3, <1>4

LEMMA StablePop ==
  ASSUME LockInv, Stable, NEW t \in Threads, stack[t] # <<>>, Pop(t), EditsOwn(t)
  PROVE  Stable'
<1> SUFFICES ASSUME Locks, NEW u \in Threads, NEW i \in 1..Len(stack'[u]), InPlace(stack'[u][i])
             PROVE  connections'[stack'[u][i].obj] = stack'[u][i].list
  BY DEF Stable, InPlace
<1>1. /\ Len(stack[t]) \in Nat \ {0} /\ Len(stack'[t]) = Len(stack[t]) - 1
      /\ \A j \in 1..(Len(stack[t]) - 1) : stack'[t][j] = stack[t][j]
      /\ \A w \in Threads \ {t} : stack'[w] = stack[w]
  BY TypedParts, PopStack DEF LockInv
<1>2. CASE u # t
  BY <1>1, <1>2, StableKept
<1>3. CASE u = t
  <2>1. i \in 1..(Len(stack[t]) - 1) /\ i \in 1..Len(stack[t]) /\ i # Len(stack[t])
    BY <1>1, <1>3
  <2>2. stack'[u][i] = stack[u][i]
    BY <1>1, <1>3, <2>1
  <2> QED
    BY <1>3, <2>1, <2>2, StableKept
<1> QED
  BY <1>2, <1>3

LEMMA StablePush ==
  ASSUME LockInv, Stable, NEW t \in Threads, NEW f \in Frame, Push(t, f), ~InPlace(f),
         connections' = connections
  PROVE  Stable'
<1> SUFFICES ASSUME Locks, NEW u \in Threads, NEW i \in 1..Len(stack'[u]), InPlace(stack'[u][i])
             PROVE  connections'[stack'[u][i].obj] = stack'[u][i].list
  BY DEF Stable, InPlace
<1>1. /\ Len(stack[t]) \in Nat /\ Len(stack'[t]) = Len(stack[t]) + 1
      /\ \A j \in 1..Len(stack[t]) : stack'[t][j] = stack[t][j]
      /\ stack'[t][Len(stack[t]) + 1] = f
      /\ \A w \in Threads \ {t} : stack'[w] = stack[w]
  BY TypedParts, PushStack DEF LockInv
<1>2. CASE u # t
  BY <1>1, <1>2 DEF Stable
<1>3. CASE u = t
  <2>1. i # Len(stack[t]) + 1
    BY <1>1, <1>3
  <2>2. i \in 1..Len(stack[t])
    BY <1>1, <1>3, <2>1
  <2>3. stack'[u][i] = stack[u][i]
    BY <1>1, <1>3, <2>2
  <2> QED
    BY <1>3, <2>2, <2>3 DEF Stable
<1> QED
  BY <1>2, <1>3

-------------------------------------------------------------------------------
(* The actions *)

Good == MutexOK /\ OneHolder /\ Stable

LEMMA InitGood == Init => Good
<1> SUFFICES ASSUME Init PROVE Good
  OBVIOUS
<1>1. \A t \in Threads : Len(stack[t]) = 0
  BY DEF Init
<1>2. \A t \in Threads : 1..Len(stack[t]) = {}
  BY <1>1
<1> QED
  BY <1>2 DEF Good, Init, MutexOK, OneHolder, Stable

\* Steps inside a call that hold what they held and edit nothing.
LEMMA GoodContinue ==
  ASSUME LockInv, Stable, NEW t \in Threads, stack[t] # <<>>, NEW f \in Frame, Continue(t, f),
         mutex' = mutex, EditsOwn(t),
         \A o : Holds(f, o) <=> Holds(Top(t), o),
         Locks /\ InPlace(f) => connections'[f.obj] = f.list
  PROVE  Good'
<1>1. Stacks /\ Len(stack[t]) \in Nat \ {0} /\ Top(t) = stack[t][Len(stack[t])]
  BY TopOK DEF LockInv, Top, Last
<1>2. \A o : Holder(t, Len(stack[t]), o) <=> Holds(Top(t), o)
  BY <1>1 DEF Holder
<1>3. \A u \in Threads : \A i, o : Holder(u, i, o)' <=> Holder(u, i, o)
  BY <1>1, <1>2, HoldersContinue
<1>4. MutexOK' /\ OneHolder'
  BY <1>3, MutexKept
<1>5. Stable'
  BY StableContinue
<1> QED
  BY <1>4, <1>5 DEF Good

\* Steps that return from a call that held nothing.
LEMMA GoodPop ==
  ASSUME LockInv, Stable, NEW t \in Threads, stack[t] # <<>>, Pop(t),
         mutex' = mutex, EditsOwn(t), \A o : ~Holds(Top(t), o)
  PROVE  Good'
<1>1. Stacks /\ Len(stack[t]) \in Nat \ {0} /\ Top(t) = stack[t][Len(stack[t])]
  BY TopOK DEF LockInv, Top, Last
<1>2. \A o : ~Holder(t, Len(stack[t]), o)
  BY <1>1 DEF Holder
<1>3. \A u \in Threads : \A i, o : Holder(u, i, o)' <=> Holder(u, i, o)
  BY <1>1, <1>2, HoldersPop
<1>4. MutexOK' /\ OneHolder'
  BY <1>3, MutexKept
<1>5. Stable'
  BY StablePop
<1> QED
  BY <1>4, <1>5 DEF Good

LEMMA EditsNothing == ASSUME NEW t, connections' = connections PROVE EditsOwn(t)
BY DEF EditsOwn

\* A vector is only edited under its own mutex, which is then held by nobody.
LEMMA EditsFree ==
  ASSUME LockInv, Locks, NEW t, NEW o \in Objects, MutexFree(o), NEW s,
         connections' = [connections EXCEPT ![o] = s]
  PROVE  EditsOwn(t)
<1>1. mutex[o] = {}
  BY DEF MutexFree
<1>2. \A u \in Threads : \A i : ~Holder(u, i, o)
  BY <1>1, FreeUnheld
<1>3. \A p \in Objects : p = o \/ connections'[p] = connections[p]
  BY TypedParts DEF LockInv, Vectors
<1> QED
  BY <1>2, <1>3 DEF EditsOwn

\* Without mutexes nobody holds one.
LEMMA NoLocksNoHolder == ~Locks => \A u, i, o : ~Holder(u, i, o)
BY DEF Holder, Holds

LEMMA EditsSafe ==
  ASSUME LockInv, NEW t, NEW o \in Objects, MutexFree(o), NEW s,
         connections' = [connections EXCEPT ![o] = s]
  PROVE  EditsOwn(t)
<1>1. CASE Locks
  BY <1>1, EditsFree
<1>2. CASE ~Locks
  BY <1>2, NoLocksNoHolder DEF EditsOwn
<1> QED
  BY <1>1, <1>2

LEMMA BeginGood ==
  ASSUME LockInv, Stable, NEW t \in Threads, NEW c, CallOK(c), Begin(t, c)
  PROVE  Good'
<1> DEFINE f == [op |-> c.op, obj |-> c.obj, slot |-> c.slot,
                 pc |-> FirstPC(c.op), list |-> <<>>, idx |-> 1]
<1>1. /\ c.op \in {"connect", "disconnect", "fire", "disconnect_all", "destroy"}
      /\ c.obj \in Objects /\ c.slot \in Slots \cup {"none"}
  BY DEF CallOK, Call
<1>2. FirstPC(c.op) \in {"self", "lock", "reset"}
  BY DEF FirstPC
<1>3. f \in Frame /\ f.pc = FirstPC(c.op)
  BY <1>1, <1>2 DEF Frame
<1>4. Push(t, f) /\ mutex' = mutex /\ connections' = connections
  BY DEF Begin
<1> HIDE DEF f
<1>5. ~InPlace(f) /\ \A o : ~Holds(f, o)
  BY <1>2, <1>3 DEF InPlace, Holds
<1>6. \A u \in Threads : \A i, o : Holder(u, i, o)' <=> Holder(u, i, o)
  BY <1>3, <1>4, <1>5, TypedParts, HoldersPush DEF LockInv
<1>7. MutexOK' /\ OneHolder'
  BY <1>4, <1>6, MutexKept
<1>8. Stable'
  BY <1>3, <1>4, <1>5, StablePush
<1> QED
  BY <1>7, <1>8 DEF Good

LEMMA HalfGood ==
  ASSUME LockInv, Stable, NEW t \in Threads, InsertHalf(t) \/ RemoveHalf(t)
  PROVE  Good'
<1> DEFINE f == Top(t)
           g == [f EXCEPT !.pc = "peer"]
<1>1. /\ stack[t] # <<>> /\ f.op \in {"connect", "disconnect"}
      /\ f \in Frame /\ FrameOK(f)
  BY AtTop DEF InsertHalf, RemoveHalf, LockInv
<1>2. HalfDone(t) /\ mutex' = mutex /\ MutexFree(Edited(f))
  BY DEF InsertHalf, RemoveHalf
<1>3. \E s : connections' = [connections EXCEPT ![Edited(f)] = s]
  BY DEF InsertHalf, RemoveHalf
<1>4. EditsOwn(t)
  BY <1>1, <1>2, <1>3, EditedOK, EditsSafe
<1>5. \A o : ~Holds(f, o)
  BY <1>1 DEF Holds, Sweep
<1>6. CASE Goto(t, "peer")
  <2>1. g \in Frame /\ g.op = f.op
    BY <1>1, GotoFrame DEF PCs
  <2>2. Continue(t, g)
    BY <1>6 DEF Goto
  <2> HIDE DEF g
  <2>3. ~InPlace(g) /\ \A o : ~Holds(g, o)
    BY <1>1, <2>1 DEF InPlace, Holds, Sweep
  <2> QED
    BY <1>1, <1>2, <1>4, <1>5, <2>1, <2>2, <2>3, GoodContinue
<1>7. CASE Pop(t)
  BY <1>1, <1>2, <1>4, <1>5, <1>7, GoodPop
<1> QED
  BY <1>2, <1>6, <1>7 DEF HalfDone

\* A loop goes on: by reference it runs over what it ran over before.
LEMMA LoopGood ==
  ASSUME LockInv, Stable, NEW t \in Threads, stack[t] # <<>>, NEW f \in Frame, Continue(t, f),
         mutex' = mutex, EditsOwn(t), Locks /\ InPlace(Top(t)) => connections'[f.obj] = connections[f.obj],
         f.obj = Top(t).obj, f.list = Top(t).list, InPlace(f) <=> InPlace(Top(t))
  PROVE  Good'
<1>1. InPlace(f) <=> InPlace(Top(t))
  OBVIOUS
<1>2. \A o : Holds(f, o) <=> Holds(Top(t), o)
  BY DEF Holds, InPlace
<1>3. Stacks /\ Len(stack[t]) \in Nat \ {0} /\ Top(t) = stack[t][Len(stack[t])]
  BY TopOK DEF LockInv, Top, Last
<1>4. Locks /\ InPlace(Top(t)) => connections[Top(t).obj] = Top(t).list
  BY <1>3 DEF Stable
<1>5. Locks /\ InPlace(f) => connections'[f.obj] = f.list
  BY <1>1, <1>4
<1> QED
  BY <1>2, <1>5, GoodContinue

\* A loop by reference begins under the mutex that it takes.
LEMMA StartGood ==
  ASSUME LockInv, Stable, NEW t \in Threads, stack[t] # <<>>, Top(t).pc = "lock",
         Top(t).op = "fire" \/ Top(t).op \in Sweep,
         Continue(t, [Top(t) EXCEPT !.pc = "loop", !.list = connections[Top(t).obj]]),
         MutexFree(Top(t).obj), connections' = connections,
         IF Top(t).op \in Sweep \/ ByRef THEN Acquire(t, Top(t).obj) ELSE mutex' = mutex
  PROVE  Good'
<1> DEFINE n == Len(stack[t])
           o == Top(t).obj
           f == [Top(t) EXCEPT !.pc = "loop", !.list = connections[o]]
<1>1. Top(t) \in Frame /\ o \in Objects /\ Stacks /\ Top(t) = stack[t][n] /\ n \in Nat \ {0}
  BY TopOK DEF LockInv, Frame, Top, Last
<1>2. connections[o] \in Seq(Connection)
  BY <1>1, TypedParts, VectorsInOrder DEF LockInv
<1>3. /\ f \in Frame /\ f.pc = "loop" /\ f.op = Top(t).op /\ f.obj = o
      /\ f.list = connections[o]
  BY <1>1, <1>2, StartFrame
<1> HIDE DEF f
<1>4. \A p : ~Holds(Top(t), p)
  BY DEF Holds
<1>5. EditsOwn(t)
  BY EditsNothing
<1>6. CASE Locks /\ (Top(t).op \in Sweep \/ ByRef)
  <2>1. mutex[o] = {} /\ mutex' = [mutex EXCEPT ![o] = {t}]
    BY <1>6 DEF MutexFree, Acquire
  <2>2. \A p : Holds(f, p) <=> p = o
    BY <1>3, <1>6 DEF Holds
  <2>3. \A p : ~Holder(t, n, p)
    BY <1>1, <1>4 DEF Holder
  <2>4. \A u \in Threads : \A i : \A p \in Objects :
          Holder(u, i, p)' <=> Holder(u, i, p) \/ (u = t /\ i = n /\ p = o)
    BY <1>1, <1>3, <2>2, <2>3, HoldersContinue DEF f
  <2>5. MutexOK' /\ OneHolder'
    BY <1>1, <2>1, <2>4, MutexTaken
  <2>6. Stable'
    BY <1>3, <1>5, StableContinue DEF f
  <2> QED
    BY <2>5, <2>6 DEF Good
<1>7. CASE ~(Locks /\ (Top(t).op \in Sweep \/ ByRef))
  <2>1. mutex' = mutex
    BY <1>7 DEF Acquire
  <2>2. \A p : ~Holds(f, p)
    BY <1>3, <1>7 DEF Holds
  <2>3. connections'[f.obj] = f.list
    BY <1>3
  <2> QED
    BY <1>3, <1>4, <1>5, <2>1, <2>2, <2>3, GoodContinue DEF f
<1> QED
  BY <1>6, <1>7

\* The call that held a mutex gives it back as it returns.
LEMMA EndGood ==
  ASSUME LockInv, Stable, NEW t \in Threads, stack[t] # <<>>, Pop(t), EditsOwn(t),
         Holds(Top(t), Top(t).obj), mutex' = [mutex EXCEPT ![Top(t).obj] = {}]
  PROVE  Good'
<1>1. Stacks /\ Len(stack[t]) \in Nat \ {0} /\ Top(t) = stack[t][Len(stack[t])] /\ Top(t) \in Frame
  BY TopOK DEF LockInv, Top, Last
<1>2. PICK o \in Objects : o = Top(t).obj
  BY <1>1 DEF Frame
<1>3. \A p : Holder(t, Len(stack[t]), p) <=> p = o
  BY <1>1, <1>2 DEF Holder, Holds
<1>4. \A u \in Threads : \A i, p : Holder(u, i, p)' <=> Holder(u, i, p) /\ ~(u = t /\ i = Len(stack[t]))
  BY <1>1, HoldersPop
<1>5. \A u \in Threads : \A i : \A p \in Objects :
        Holder(u, i, p)' <=> Holder(u, i, p) /\ ~(u = t /\ i = Len(stack[t]) /\ p = o)
  BY <1>3, <1>4
<1>6. Holder(t, Len(stack[t]), o) /\ mutex' = [mutex EXCEPT ![o] = {}]
  BY <1>2, <1>3
<1>7. MutexOK' /\ OneHolder'
  BY <1>5, <1>6, MutexGiven
<1>8. Stable'
  BY StablePop
<1> QED
  BY <1>7, <1>8 DEF Good

LEMMA EmissionGood ==
  ASSUME LockInv, Stable, NEW t \in Threads,
         StartEmission(t) \/ CallSlot(t) \/ SkipSlot(t) \/ SlotReturns(t) \/ EndEmission(t)
  PROVE  Good'
<1> DEFINE f == Top(t)
           g == [f EXCEPT !.pc = "slot"]
           h == [f EXCEPT !.pc = "loop", !.idx = @ + 1]
<1>1. /\ stack[t] # <<>> /\ f.op = "fire" /\ f \in Frame
      /\ f.obj \in Objects /\ f.pc \in {"lock", "loop", "slot"}
  BY AtTop DEF LockInv, StartEmission, CallSlot, SkipSlot, SlotReturns, EndEmission,
                EmissionOver
<1>2. connections' = connections
  BY DEF StartEmission, CallSlot, SkipSlot, SlotReturns, EndEmission
<1>3. EditsOwn(t)
  BY <1>2, EditsNothing
<1>4. /\ g \in Frame /\ g.pc = "slot" /\ g.op = f.op /\ g.obj = f.obj /\ g.list = f.list
  <2>1. "slot" \in PCs
    BY DEF PCs
  <2> QED
    BY <1>1, <2>1, GotoFrame
<1>5. /\ h \in Frame /\ h.pc = "loop" /\ h.op = f.op /\ h.obj = f.obj /\ h.list = f.list
  BY <1>1, NextFrame
<1>6. CASE StartEmission(t)
  <2>1. f.op \notin Sweep
    BY <1>1 DEF Sweep
  <2>2. f.pc = "lock" /\ MutexFree(f.obj)
    BY <1>6 DEF StartEmission, At
  <2>3. IF ByRef THEN Acquire(t, f.obj) ELSE mutex' = mutex
    BY <1>6 DEF StartEmission
  <2>4. Continue(t, [f EXCEPT !.pc = "loop", !.list = connections[f.obj]])
    BY <1>6 DEF StartEmission
  <2> QED
    BY <1>1, <1>2, <2>1, <2>2, <2>3, <2>4, StartGood
<1>7. CASE CallSlot(t)
  <2>1. Continue(t, g) /\ mutex' = mutex /\ f.pc = "loop" /\ connections' = connections
    BY <1>7 DEF CallSlot, Goto, At
  <2> HIDE DEF g
  <2>2. InPlace(g) <=> InPlace(f)
    BY <1>1, <1>4, <2>1 DEF InPlace, Sweep
  <2> QED
    BY <1>1, <1>4, <2>1, <2>2, EditsNothing, LoopGood
<1>8. CASE SkipSlot(t) \/ SlotReturns(t)
  <2>1. /\ Continue(t, h) /\ mutex' = mutex /\ f.pc \in {"loop", "slot"}
        /\ connections' = connections
    BY <1>8 DEF SkipSlot, SlotReturns, NextConnection, At
  <2> HIDE DEF h
  <2>2. InPlace(h) <=> InPlace(f)
    BY <1>1, <1>5, <2>1 DEF InPlace, Sweep
  <2> QED
    BY <1>1, <1>5, <2>1, <2>2, EditsNothing, LoopGood
<1>9. CASE EndEmission(t)
  <2>1. Pop(t) /\ f.pc \in {"loop", "slot"}
    BY <1>9 DEF EndEmission, EmissionOver, At
  <2>2. CASE ByRef /\ Locks
    <3>1. mutex' = [mutex EXCEPT ![f.obj] = {}]
      BY <1>9, <2>2 DEF EndEmission, Release
    <3>2. Holds(f, f.obj)
      BY <1>1, <2>1, <2>2 DEF Holds
    <3> QED
      BY <1>1, <1>3, <2>1, <3>1, <3>2, EndGood
  <2>3. CASE ~(ByRef /\ Locks)
    <3>1. mutex' = mutex
      BY <1>9, <2>3 DEF EndEmission, Release
    <3>2. \A o : ~Holds(f, o)
      BY <1>1, <2>3 DEF Holds, Sweep
    <3> QED
      BY <1>1, <1>3, <2>1, <3>1, <3>2, GoodPop
  <2> QED
    BY <2>2, <2>3
<1> QED
  BY <1>6, <1>7, <1>8, <1>9

LEMMA WaitGood ==
  ASSUME LockInv, Stable, NEW t \in Threads, ResetTracker(t) \/ Drained(t)
  PROVE  Good'
<1>1. /\ stack[t] # <<>> /\ Top(t) \in Frame /\ Top(t).pc \in {"reset", "drain"}
  BY AtTop DEF LockInv, ResetTracker, Drained
<1>2. PICK pc \in {"drain", "lock"} : Goto(t, pc)
  BY DEF ResetTracker, Drained
<1> DEFINE f == [Top(t) EXCEPT !.pc = pc]
<1>3. f \in Frame /\ f.pc = pc
  <2>1. pc \in PCs
    BY DEF PCs
  <2> QED
    BY <1>1, <2>1, GotoFrame
<1>4. Continue(t, f)
  BY <1>2 DEF Goto
<1> HIDE DEF f
<1>5. mutex' = mutex /\ EditsOwn(t)
  BY EditsNothing DEF ResetTracker, Drained
<1>6. ~InPlace(f) /\ (\A o : ~Holds(f, o)) /\ \A o : ~Holds(Top(t), o)
  BY <1>1, <1>3 DEF InPlace, Holds
<1> QED
  BY <1>1, <1>3, <1>4, <1>5, <1>6, GoodContinue

LEMMA SweepGood ==
  ASSUME LockInv, Stable, NEW t \in Threads,
         StartSweep(t) \/ VisitPeer(t) \/ SkipPeer(t) \/ RemovePeer(t) \/ EndSweep(t)
  PROVE  Good'
<1> DEFINE f == Top(t)
           g == [f EXCEPT !.pc = "peer"]
           h == [f EXCEPT !.pc = "loop", !.idx = @ + 1]
<1>1. /\ stack[t] # <<>> /\ f.op \in Sweep /\ f \in Frame /\ FrameOK(f) /\ f.obj \in Objects
  BY AtTop DEF LockInv, StartSweep, VisitPeer, SkipPeer, RemovePeer, EndSweep
<1>2. /\ g \in Frame /\ g.pc = "peer" /\ g.op = f.op /\ g.obj = f.obj /\ g.list = f.list
  <2>1. "peer" \in PCs
    BY DEF PCs
  <2> QED
    BY <1>1, <2>1, GotoFrame
<1>3. /\ h \in Frame /\ h.pc = "loop" /\ h.op = f.op /\ h.obj = f.obj /\ h.list = f.list
  BY <1>1, NextFrame
<1>4. CASE StartSweep(t)
  <2>1. f.pc = "lock" /\ MutexFree(f.obj) /\ Acquire(t, f.obj) /\ connections' = connections
    BY <1>4 DEF StartSweep, At
  <2>2. Continue(t, [f EXCEPT !.pc = "loop", !.list = connections[f.obj]])
    BY <1>4 DEF StartSweep
  <2> QED
    BY <1>1, <2>1, <2>2, StartGood
<1>5. CASE VisitPeer(t)
  <2>1. Continue(t, g) /\ mutex' = mutex /\ f.pc = "loop" /\ connections' = connections
    BY <1>5 DEF VisitPeer, Goto, At
  <2> HIDE DEF g
  <2>2. InPlace(g) <=> InPlace(f)
    BY <1>1, <1>2, <2>1 DEF InPlace, Sweep
  <2> QED
    BY <1>1, <1>2, <2>1, <2>2, EditsNothing, LoopGood
<1>6. CASE SkipPeer(t)
  <2>1. Continue(t, h) /\ mutex' = mutex /\ f.pc = "loop" /\ connections' = connections
    BY <1>6 DEF SkipPeer, NextConnection, At
  <2> HIDE DEF h
  <2>2. InPlace(h) <=> InPlace(f)
    BY <1>1, <1>3, <2>1 DEF InPlace, Sweep
  <2> QED
    BY <1>1, <1>3, <2>1, <2>2, EditsNothing, LoopGood
\* The peer is another object, or its mutex would not be free.
<1>7. CASE RemovePeer(t)
  <2> DEFINE p == Current(f).obs
  <2>1. Continue(t, h) /\ mutex' = mutex /\ f.pc = "peer" /\ MutexFree(p)
    BY <1>7 DEF RemovePeer, NextConnection, At
  <2>2. p \in Objects
    <3>1. f.idx \in 1..Len(f.list)
      BY <1>1, <2>1 DEF FrameOK
    <3> QED
      BY <1>1, <3>1, CurrentOK
  <2>3. \E s : connections' = [connections EXCEPT ![p] = s]
    BY <1>7 DEF RemovePeer
  <2> HIDE DEF p, h
  <2>4. EditsOwn(t)
    BY <2>1, <2>2, <2>3, EditsSafe
  <2>5. Locks => connections'[f.obj] = connections[f.obj]
    <3>1. Len(stack[t]) \in Nat \ {0} /\ Top(t) = stack[t][Len(stack[t])]
      BY <1>1, TopOK DEF LockInv, Top, Last
    <3>2. Locks => Holder(t, Len(stack[t]), f.obj)
      BY <1>1, <2>1, <3>1 DEF Holder, Holds
    <3>3. Locks => p # f.obj
      BY <1>1, <2>1, <3>2, FreeUnheld DEF MutexFree
    <3>4. p # f.obj => connections'[f.obj] = connections[f.obj]
      BY <1>1, <2>3, TypedParts DEF LockInv, Vectors
    <3> QED
      BY <3>3, <3>4
  <2>6. InPlace(h) <=> InPlace(f)
    BY <1>1, <1>3, <2>1 DEF InPlace, Sweep
  <2> QED
    BY <1>1, <1>3, <2>1, <2>4, <2>5, <2>6, LoopGood
<1>8. CASE EndSweep(t)
  <2>1. Pop(t) /\ f.pc = "loop"
    BY <1>8 DEF EndSweep, At
  <2>2. connections' = [connections EXCEPT ![f.obj] = <<>>]
    BY <1>8 DEF EndSweep
  <2>3. \A p \in Objects : p # f.obj => connections'[p] = connections[p]
    BY <1>1, <2>2, TypedParts DEF LockInv, Vectors
  <2>4. CASE Locks
    <3>1. mutex' = [mutex EXCEPT ![f.obj] = {}]
      BY <1>8, <2>4 DEF EndSweep, Release
    <3>2. Holds(f, f.obj)
      BY <1>1, <2>1, <2>4 DEF Holds
    <3>3. EditsOwn(t)
      <4>1. Len(stack[t]) \in Nat \ {0} /\ Top(t) = stack[t][Len(stack[t])]
        BY <1>1, TopOK DEF LockInv, Top, Last
      <4>2. Holder(t, Len(stack[t]), f.obj) /\ Len(stack[t]) \in 1..Len(stack[t])
        BY <3>2, <4>1 DEF Holder
      <4>3. \A u \in Threads : \A i : Holder(u, i, f.obj) => i \in 1..Len(stack[u])
        BY DEF Holder
      <4>4. \A u \in Threads : \A i : Holder(u, i, f.obj) => u = t /\ i = Len(stack[t])
        BY <1>1, <4>2, <4>3 DEF LockInv, OneHolder
      <4> QED
        BY <2>3, <4>4 DEF EditsOwn
    <3> QED
      BY <1>1, <2>1, <3>1, <3>2, <3>3, EndGood
  <2>5. CASE ~Locks
    <3>1. mutex' = mutex
      BY <1>8, <2>5 DEF EndSweep, Release
    <3>2. (\A o : ~Holds(f, o)) /\ EditsOwn(t)
      BY <2>5, NoLocksNoHolder DEF Holds, EditsOwn
    <3> QED
      BY <1>1, <2>1, <3>1, <3>2, GoodPop
  <2> QED
    BY <2>4, <2>5
<1> QED
  BY <1>4, <1>5, <1>6, <1>7, <1>8

LEMMA NextGood == LockInv /\ Stable /\ [Next]_vars => Good'
<1> SUFFICES ASSUME LockInv, Stable, [Next]_vars PROVE Good'
  OBVIOUS
<1>1. ASSUME NEW t \in Threads, CallFromThread(t) \/ CallFromSlot(t) PROVE Good'
  <2>1. PICK c : CallOK(c) /\ Begin(t, c)
    BY <1>1, ClientCalls DEF LockInv
  <2> QED
    BY <2>1, BeginGood
<1>2. ASSUME NEW t \in Threads, Step(t) PROVE Good'
  BY <1>2, HalfGood, EmissionGood, WaitGood, SweepGood DEF Step
<1>3. CASE UNCHANGED vars
  <2>1. \A u \in Threads : \A i, o : Holder(u, i, o)' <=> Holder(u, i, o)
    BY <1>3 DEF vars, Holder, Holds
  <2>2. MutexOK' /\ OneHolder'
    BY <1>3, <2>1, MutexKept DEF vars
  <2>3. Stable'
    BY <1>3 DEF vars, Stable, InPlace
  <2> QED
    BY <2>2, <2>3 DEF Good
<1> QED
  BY <1>1, <1>2, <1>3 DEF Next, Rest

LEMMA NextLockInv == LockInv /\ Stable /\ [Next]_vars => LockInv' /\ Stable'
BY NextTyped, NextGood DEF LockInv, Good

LEMMA InitLockInv == Init => LockInv /\ Stable
BY InitTyped, InitGood DEF LockInv, Good

\* Every mutex is held by exactly the loops that will give it back, and by at
\* most one of them, on every path through connect, fire, disconnect and
\* ~Observer.
THEOREM MutexesHeldOnce == Spec => []LockDiscipline
<1>1. LockInv => LockDiscipline
  BY DisciplineParts
<1> QED
  BY <1>1, InitLockInv, NextLockInv, PTL DEF Spec

\* Under TS_Policy and TS_Policy_Safe no vector changes under for_each by
\* reference or under disconnect_all: their iterators stay valid.
THEOREM LockedIteratorsStable == Spec => [](Locks => IteratorsStable)
<1>1. LockInv /\ Stable => (Locks => IteratorsStable)
  BY StableParts DEF LockInv
<1> QED
  BY <1>1, InitLockInv, NextLockInv, PTL DEF Spec
===============================================================================
