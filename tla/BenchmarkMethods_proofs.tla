------------------------ MODULE BenchmarkMethods_proofs ------------------------
(***************************************************************************)
(* Subjects, Foos and workers in the benchmark algorithms, for every test  *)
(* size, time limit, clock, number of workers and faulty library.          *)
(*                                                                         *)
(* The places of a script where Foos may be alive and those where the      *)
(* Subject is complete are two intervals, one inside the other, which no   *)
(* jump of a loop enters or leaves.  The invariant says that the Foos and  *)
(* the Subjects really are where the intervals allow them.                 *)
(***************************************************************************)
EXTENDS BenchmarkMethods, FiniteSetTheorems, TLAPS

\* Where Foos may be alive, and where the Subject is complete.
FoosSpan ==
  [construction |-> {},   destruction |-> {},   connection |-> 3..7,
   disconnect   |-> 3..6, reconnect   |-> 3..7, emission   |-> 3..9,
   combined     |-> 4..8, threaded    |-> {},   validation |-> 3..7]

SubjectSpan ==
  [construction |-> 4..5,  destruction |-> 3..4,  connection |-> 3..8,
   disconnect   |-> 3..8,  reconnect   |-> 2..9,  emission   |-> 3..10,
   combined     |-> 3..11, threaded    |-> 2..5,  validation |-> 3..10]

\* The places F of a script are those from the construction of the Foos to
\* their destruction.
FoosShape(c, F) ==
  /\ F \subseteq DOMAIN c
  /\ \A p \in DOMAIN c : c[p] = "foos" => p \in F
  /\ \A p \in F : c[p] \notin {"loop", "next"} /\ (c[p] # "~foos" => p + 1 \in F)

\* The places S are those after the construction of the Subject, up to its
\* destruction.
SubjectShape(c, S) ==
  /\ S \subseteq DOMAIN c \ {1}
  /\ \A p \in DOMAIN c : c[p] = "subjects" => p \notin S /\ p + 1 \in S
  /\ \A p \in DOMAIN c : c[p] = "~subjects" => p \in S /\ p + 1 \notin S
  /\ \A p \in DOMAIN c : c[p] \notin {"subjects", "~subjects"} => (p \in S <=> p + 1 \in S)

\* The loop of a script neither enters nor leaves the life of its Subject.
LoopShape(c, S) ==
  /\ \A p \in DOMAIN c : c[p] = "loop" =>
       Where(c, "next") \in DOMAIN c /\ (p \in S <=> Where(c, "next") + 1 \in S)
  /\ \A p \in DOMAIN c : c[p] = "next" =>
       Where(c, "loop") \in DOMAIN c /\ (p \in S <=> Where(c, "loop") \in S)

\* The workers live inside the life of the Subject.
CrewShape(c, S) ==
  /\ \A p \in DOMAIN c : c[p] \in {"spawn", "get", "join"} => p \in S
  /\ \A p \in DOMAIN c : c[p] = "spawn" => p + 1 \in DOMAIN c /\ c[p + 1] = "get"
  /\ \A p \in DOMAIN c : c[p] = "get" => p + 1 \in DOMAIN c /\ c[p + 1] = "join"

\* The places A are those between the end of a sample and the increment of the
\* loop; the method returns after the loop, has no workers and passes no verdict.
PaceShape(c, A) ==
  LET last == Where(c, "next") IN
  /\ A \subseteq 2..last /\ last \in DOMAIN c /\ c[last] = "next"
  /\ \A p \in DOMAIN c : c[p] = "count" => p \notin A /\ p + 1 \in A
  /\ \A p \in DOMAIN c : c[p] = "next" => p \in A /\ p = last /\ Where(c, "loop") \in 1..(last - 1) \ A
  /\ \A p \in DOMAIN c : c[p] \notin {"count", "next"} => (p \in A <=> p + 1 \in A)
  /\ \A p \in DOMAIN c : c[p] = "return" => p > last
  /\ \A p \in DOMAIN c : c[p] = "loop" => p \notin A
  /\ \A p \in DOMAIN c : c[p] \notin {"spawn", "get", "join", "verdict"}

\* The places S are those after things have all been made, one after another,
\* up to where they are dropped.
PairShape(c, make, drop, S) ==
  /\ S \subseteq DOMAIN c \ {1}
  /\ \A p \in DOMAIN c : c[p] = make => p \notin S /\ p + 1 \in S
  /\ \A p \in DOMAIN c : c[p] = drop => p \in S /\ p + 1 \notin S
  /\ \A p \in DOMAIN c : c[p] \notin {make, drop} => (p \in S <=> p + 1 \in S)
  /\ \A p \in DOMAIN c : c[p] = "loop" => (p \in S <=> Where(c, "next") + 1 \in S)
  /\ \A p \in DOMAIN c : c[p] = "next" => (p \in S <=> Where(c, "loop") \in S)

\* The Foos are complete at the places A, and all connected at the places B.
StockShape(c, A, B) ==
  /\ PairShape(c, "foos", "~foos", A) /\ PairShape(c, "connect", "~foos", B)
  /\ B \subseteq A
  /\ \A p \in DOMAIN c : c[p] = "connect" => p \in A

\* The timer of a sample runs at the places W, and sees the operation op at the
\* first of them.
SampleShape(c, W, op) ==
  /\ \A p \in DOMAIN c : c[p] = "reset" => p + 1 \in DOMAIN c /\ c[p + 1] = op
  /\ \A p \in W : p \in DOMAIN c /\ c[p] \in {op, "draw", "count"}
  /\ \A p \in DOMAIN c : p + 1 \in W => c[p] \in {"reset", op, "draw"}
  /\ \A p \in DOMAIN c : c[p] \in {op, "draw"} => p + 1 \in DOMAIN c /\ c[p + 1] # op
  /\ \A p \in DOMAIN c : c[p] \in {op, "draw", "count"} => p \in W
  /\ \A p \in DOMAIN c : c[p] = "loop" => Where(c, "next") + 1 \notin W
  /\ \A p \in DOMAIN c : c[p] = "next" => Where(c, "loop") \notin W
  /\ 1 \notin W

\* All of this for the script of a method.
Shaped(c, F, S) ==
  /\ Len(c) \in Nat /\ DOMAIN c = 1..Len(c)
  /\ FoosShape(c, F) /\ SubjectShape(c, S) /\ LoopShape(c, S) /\ CrewShape(c, S)
  /\ F \subseteq S
  /\ \A p \in F : c[p] # "~subjects"

LEMMA WhereIs ==
  ASSUME NEW c, NEW op, NEW k \in DOMAIN c, c[k] = op, \A i \in DOMAIN c : c[i] = op => i = k
  PROVE  Where(c, op) = k
  BY DEF Where

LEMMA ShapeOfConstruction ==
  /\ Shaped(Construction, {}, 4..5) /\ PaceShape(Construction, 5..6)
  /\ StockShape(Construction, {}, {}) /\ SampleShape(Construction, 3..4, "subjects")
<1> DEFINE c == Construction
<1>1. Len(c) = 7 /\ DOMAIN c = 1..7
  BY DEF Construction
<1>2. /\ c[1] = "loop" /\ c[2] = "reset" /\ c[3] = "subjects" /\ c[4] = "count"
      /\ c[5] = "~subjects" /\ c[6] = "next" /\ c[7] = "return"
  BY DEF Construction
<1> HIDE DEF c
<1>3. Where(c, "next") = 6
  BY <1>1, <1>2, WhereIs
<1>4. Where(c, "loop") = 1
  BY <1>1, <1>2, WhereIs
<1>5. FoosShape(c, {})
  BY <1>1, <1>2 DEF FoosShape
<1>6. SubjectShape(c, 4..5)
  BY <1>1, <1>2 DEF SubjectShape
<1>7. LoopShape(c, 4..5)
  BY <1>1, <1>2, <1>3, <1>4 DEF LoopShape
<1>8. CrewShape(c, 4..5)
  BY <1>1, <1>2 DEF CrewShape
<1>9. PaceShape(c, 5..6)
  BY <1>1, <1>2, <1>3, <1>4 DEF PaceShape
<1>10. StockShape(c, {}, {})
  BY <1>1, <1>2, <1>3, <1>4 DEF StockShape, PairShape
<1>11. SampleShape(c, 3..4, "subjects")
  BY <1>1, <1>2, <1>3, <1>4 DEF SampleShape
<1> QED
  BY <1>1, <1>2, <1>5, <1>6, <1>7, <1>8, <1>9, <1>10, <1>11 DEF Shaped, c

LEMMA ShapeOfDestruction ==
  /\ Shaped(Destruction, {}, 3..4) /\ PaceShape(Destruction, 6..6)
  /\ StockShape(Destruction, {}, {}) /\ SampleShape(Destruction, 4..5, "~subjects")
<1> DEFINE c == Destruction
<1>1. Len(c) = 7 /\ DOMAIN c = 1..7
  BY DEF Destruction
<1>2. /\ c[1] = "loop" /\ c[2] = "subjects" /\ c[3] = "reset" /\ c[4] = "~subjects"
      /\ c[5] = "count" /\ c[6] = "next" /\ c[7] = "return"
  BY DEF Destruction
<1> HIDE DEF c
<1>3. Where(c, "next") = 6
  BY <1>1, <1>2, WhereIs
<1>4. Where(c, "loop") = 1
  BY <1>1, <1>2, WhereIs
<1>5. FoosShape(c, {})
  BY <1>1, <1>2 DEF FoosShape
<1>6. SubjectShape(c, 3..4)
  BY <1>1, <1>2 DEF SubjectShape
<1>7. LoopShape(c, 3..4)
  BY <1>1, <1>2, <1>3, <1>4 DEF LoopShape
<1>8. CrewShape(c, 3..4)
  BY <1>1, <1>2 DEF CrewShape
<1>9. PaceShape(c, 6..6)
  BY <1>1, <1>2, <1>3, <1>4 DEF PaceShape
<1>10. StockShape(c, {}, {})
  BY <1>1, <1>2, <1>3, <1>4 DEF StockShape, PairShape
<1>11. SampleShape(c, 4..5, "~subjects")
  BY <1>1, <1>2, <1>3, <1>4 DEF SampleShape
<1> QED
  BY <1>1, <1>2, <1>5, <1>6, <1>7, <1>8, <1>9, <1>10, <1>11 DEF Shaped, c

LEMMA ShapeOfConnection ==
  /\ Shaped(Connection, 3..7, 3..8) /\ PaceShape(Connection, 7..9)
  /\ StockShape(Connection, 4..7, 6..7) /\ SampleShape(Connection, 5..6, "connect")
<1> DEFINE c == Connection
<1>1. Len(c) = 10 /\ DOMAIN c = 1..10
  BY DEF Connection
<1>2. /\ c[1] = "loop" /\ c[2] = "subjects" /\ c[3] = "foos" /\ c[4] = "reset"
      /\ c[5] = "connect" /\ c[6] = "count" /\ c[7] = "~foos" /\ c[8] = "~subjects"
      /\ c[9] = "next" /\ c[10] = "return"
  BY DEF Connection
<1> HIDE DEF c
<1>3. Where(c, "next") = 9
  BY <1>1, <1>2, WhereIs
<1>4. Where(c, "loop") = 1
  BY <1>1, <1>2, WhereIs
<1>5. FoosShape(c, 3..7)
  BY <1>1, <1>2 DEF FoosShape
<1>6. SubjectShape(c, 3..8)
  BY <1>1, <1>2 DEF SubjectShape
<1>7. LoopShape(c, 3..8)
  BY <1>1, <1>2, <1>3, <1>4 DEF LoopShape
<1>8. CrewShape(c, 3..8)
  BY <1>1, <1>2 DEF CrewShape
<1>9. PaceShape(c, 7..9)
  BY <1>1, <1>2, <1>3, <1>4 DEF PaceShape
<1>10. StockShape(c, 4..7, 6..7)
  BY <1>1, <1>2, <1>3, <1>4 DEF StockShape, PairShape
<1>11. SampleShape(c, 5..6, "connect")
  BY <1>1, <1>2, <1>3, <1>4 DEF SampleShape
<1> QED
  BY <1>1, <1>2, <1>5, <1>6, <1>7, <1>8, <1>9, <1>10, <1>11 DEF Shaped, c

LEMMA ShapeOfDisconnect ==
  /\ Shaped(Disconnect, 3..6, 3..8) /\ PaceShape(Disconnect, 8..9)
  /\ StockShape(Disconnect, 4..6, 5..6) /\ SampleShape(Disconnect, 6..7, "~foos")
<1> DEFINE c == Disconnect
<1>1. Len(c) = 10 /\ DOMAIN c = 1..10
  BY DEF Disconnect
<1>2. /\ c[1] = "loop" /\ c[2] = "subjects" /\ c[3] = "foos" /\ c[4] = "connect"
      /\ c[5] = "reset" /\ c[6] = "~foos" /\ c[7] = "count" /\ c[8] = "~subjects"
      /\ c[9] = "next" /\ c[10] = "return"
  BY DEF Disconnect
<1> HIDE DEF c
<1>3. Where(c, "next") = 9
  BY <1>1, <1>2, WhereIs
<1>4. Where(c, "loop") = 1
  BY <1>1, <1>2, WhereIs
<1>5. FoosShape(c, 3..6)
  BY <1>1, <1>2 DEF FoosShape
<1>6. SubjectShape(c, 3..8)
  BY <1>1, <1>2 DEF SubjectShape
<1>7. LoopShape(c, 3..8)
  BY <1>1, <1>2, <1>3, <1>4 DEF LoopShape
<1>8. CrewShape(c, 3..8)
  BY <1>1, <1>2 DEF CrewShape
<1>9. PaceShape(c, 8..9)
  BY <1>1, <1>2, <1>3, <1>4 DEF PaceShape
<1>10. StockShape(c, 4..6, 5..6)
  BY <1>1, <1>2, <1>3, <1>4 DEF StockShape, PairShape
<1>11. SampleShape(c, 6..7, "~foos")
  BY <1>1, <1>2, <1>3, <1>4 DEF SampleShape
<1> QED
  BY <1>1, <1>2, <1>5, <1>6, <1>7, <1>8, <1>9, <1>10, <1>11 DEF Shaped, c

LEMMA ShapeOfReconnect ==
  /\ Shaped(Reconnect, 3..7, 2..9) /\ PaceShape(Reconnect, 7..8)
  /\ StockShape(Reconnect, 4..7, 6..7) /\ SampleShape(Reconnect, 5..6, "connect")
<1> DEFINE c == Reconnect
<1>1. Len(c) = 10 /\ DOMAIN c = 1..10
  BY DEF Reconnect
<1>2. /\ c[1] = "subjects" /\ c[2] = "loop" /\ c[3] = "foos" /\ c[4] = "reset"
      /\ c[5] = "connect" /\ c[6] = "count" /\ c[7] = "~foos" /\ c[8] = "next"
      /\ c[9] = "~subjects" /\ c[10] = "return"
  BY DEF Reconnect
<1> HIDE DEF c
<1>3. Where(c, "next") = 8
  BY <1>1, <1>2, WhereIs
<1>4. Where(c, "loop") = 2
  BY <1>1, <1>2, WhereIs
<1>5. FoosShape(c, 3..7)
  BY <1>1, <1>2 DEF FoosShape
<1>6. SubjectShape(c, 2..9)
  BY <1>1, <1>2 DEF SubjectShape
<1>7. LoopShape(c, 2..9)
  BY <1>1, <1>2, <1>3, <1>4 DEF LoopShape
<1>8. CrewShape(c, 2..9)
  BY <1>1, <1>2 DEF CrewShape
<1>9. PaceShape(c, 7..8)
  BY <1>1, <1>2, <1>3, <1>4 DEF PaceShape
<1>10. StockShape(c, 4..7, 6..7)
  BY <1>1, <1>2, <1>3, <1>4 DEF StockShape, PairShape
<1>11. SampleShape(c, 5..6, "connect")
  BY <1>1, <1>2, <1>3, <1>4 DEF SampleShape
<1> QED
  BY <1>1, <1>2, <1>5, <1>6, <1>7, <1>8, <1>9, <1>10, <1>11 DEF Shaped, c

LEMMA ShapeOfEmission ==
  /\ Shaped(Emission, 3..9, 3..10) /\ PaceShape(Emission, 9..11)
  /\ StockShape(Emission, 4..9, 5..9) /\ SampleShape(Emission, 6..8, "emit")
<1> DEFINE c == Emission
<1>1. Len(c) = 12 /\ DOMAIN c = 1..12
  BY DEF Emission
<1>2. /\ c[1] = "loop" /\ c[2] = "subjects" /\ c[3] = "foos" /\ c[4] = "connect"
      /\ c[5] = "reset" /\ c[6] = "emit" /\ c[7] = "draw" /\ c[8] = "count"
      /\ c[9] = "~foos" /\ c[10] = "~subjects" /\ c[11] = "next" /\ c[12] = "return"
  BY DEF Emission
<1> HIDE DEF c
<1>3. Where(c, "next") = 11
  BY <1>1, <1>2, WhereIs
<1>4. Where(c, "loop") = 1
  BY <1>1, <1>2, WhereIs
<1>5. FoosShape(c, 3..9)
  BY <1>1, <1>2 DEF FoosShape
<1>6. SubjectShape(c, 3..10)
  BY <1>1, <1>2 DEF SubjectShape
<1>7. LoopShape(c, 3..10)
  BY <1>1, <1>2, <1>3, <1>4 DEF LoopShape
<1>8. CrewShape(c, 3..10)
  BY <1>1, <1>2 DEF CrewShape
<1>9. PaceShape(c, 9..11)
  BY <1>1, <1>2, <1>3, <1>4 DEF PaceShape
<1>10. StockShape(c, 4..9, 5..9)
  BY <1>1, <1>2, <1>3, <1>4 DEF StockShape, PairShape
<1>11. SampleShape(c, 6..8, "emit")
  BY <1>1, <1>2, <1>3, <1>4 DEF SampleShape
<1> QED
  BY <1>1, <1>2, <1>5, <1>6, <1>7, <1>8, <1>9, <1>10, <1>11 DEF Shaped, c

LEMMA ShapeOfCombined ==
  /\ Shaped(Combined, 4..8, 3..11) /\ PaceShape(Combined, 10..10)
  /\ StockShape(Combined, 5..8, 6..8)
<1> DEFINE c == Combined
<1>1. Len(c) = 12 /\ DOMAIN c = 1..12
  BY DEF Combined
<1>2. /\ c[1] = "reset" /\ c[2] = "subjects" /\ c[3] = "loop" /\ c[4] = "foos"
      /\ c[5] = "connect" /\ c[6] = "emit" /\ c[7] = "draw" /\ c[8] = "~foos"
      /\ c[9] = "count" /\ c[10] = "next" /\ c[11] = "~subjects" /\ c[12] = "return"
  BY DEF Combined
<1> HIDE DEF c
<1>3. Where(c, "next") = 10
  BY <1>1, <1>2, WhereIs
<1>4. Where(c, "loop") = 3
  BY <1>1, <1>2, WhereIs
<1>5. FoosShape(c, 4..8)
  BY <1>1, <1>2 DEF FoosShape
<1>6. SubjectShape(c, 3..11)
  BY <1>1, <1>2 DEF SubjectShape
<1>7. LoopShape(c, 3..11)
  BY <1>1, <1>2, <1>3, <1>4 DEF LoopShape
<1>8. CrewShape(c, 3..11)
  BY <1>1, <1>2 DEF CrewShape
<1>9. PaceShape(c, 10..10)
  BY <1>1, <1>2, <1>3, <1>4 DEF PaceShape
<1>10. StockShape(c, 5..8, 6..8)
  BY <1>1, <1>2, <1>3, <1>4 DEF StockShape, PairShape
<1> QED
  BY <1>1, <1>2, <1>5, <1>6, <1>7, <1>8, <1>9, <1>10 DEF Shaped, c

LEMMA ShapeOfThreaded ==
  /\ Shaped(Threaded, {}, 2..5)
  /\ StockShape(Threaded, {}, {})
<1> DEFINE c == Threaded
<1>1. Len(c) = 6 /\ DOMAIN c = 1..6
  BY DEF Threaded
<1>2. /\ c[1] = "subjects" /\ c[2] = "spawn" /\ c[3] = "get" /\ c[4] = "join"
      /\ c[5] = "~subjects" /\ c[6] = "return"
  BY DEF Threaded
<1> HIDE DEF c
<1>5. FoosShape(c, {})
  BY <1>1, <1>2 DEF FoosShape
<1>6. SubjectShape(c, 2..5)
  BY <1>1, <1>2 DEF SubjectShape
<1>7. LoopShape(c, 2..5)
  BY <1>1, <1>2 DEF LoopShape
<1>8. CrewShape(c, 2..5)
  BY <1>1, <1>2 DEF CrewShape
<1>10. StockShape(c, {}, {})
  BY <1>1, <1>2 DEF StockShape, PairShape
<1> QED
  BY <1>1, <1>2, <1>5, <1>6, <1>7, <1>8, <1>10 DEF Shaped, c

LEMMA ShapeOfValidation ==
  /\ Shaped(Validation, 3..7, 3..10)
  /\ \A p \in DOMAIN Validation : Validation[p] \notin {"return", "spawn", "reset", "count"}
  /\ StockShape(Validation, 4..7, 5..7)
<1> DEFINE c == Validation
<1>1. Len(c) = 12 /\ DOMAIN c = 1..12
  BY DEF Validation
<1>2. /\ c[1] = "loop" /\ c[2] = "subjects" /\ c[3] = "foos" /\ c[4] = "connect"
      /\ c[5] = "emit" /\ c[6] = "draw" /\ c[7] = "~foos" /\ c[8] = "emit"
      /\ c[9] = "draw" /\ c[10] = "~subjects" /\ c[11] = "next" /\ c[12] = "verdict"
  BY DEF Validation
<1> HIDE DEF c
<1>3. Where(c, "next") = 11
  BY <1>1, <1>2, WhereIs
<1>4. Where(c, "loop") = 1
  BY <1>1, <1>2, WhereIs
<1>5. FoosShape(c, 3..7)
  BY <1>1, <1>2 DEF FoosShape
<1>6. SubjectShape(c, 3..10)
  BY <1>1, <1>2 DEF SubjectShape
<1>7. LoopShape(c, 3..10)
  BY <1>1, <1>2, <1>3, <1>4 DEF LoopShape
<1>8. CrewShape(c, 3..10)
  BY <1>1, <1>2 DEF CrewShape
<1>9. \A p \in DOMAIN c : c[p] \notin {"return", "spawn", "reset", "count"}
  BY <1>1, <1>2
<1>10. StockShape(c, 4..7, 5..7)
  BY <1>1, <1>2, <1>3, <1>4 DEF StockShape, PairShape
<1> QED
  BY <1>1, <1>2, <1>5, <1>6, <1>7, <1>8, <1>9, <1>10 DEF Shaped, c

\* Every method is shaped like this.
LEMMA Shapes == \A m \in Methods : Shaped(Scripts[m], FoosSpan[m], SubjectSpan[m])
<1>1. Methods = {"construction", "destruction", "connection", "disconnect", "reconnect",
                 "emission", "combined", "threaded", "validation"}
  BY DEF Methods, Scripts
<1>2. Shaped(Scripts["construction"], FoosSpan["construction"], SubjectSpan["construction"])
  BY ShapeOfConstruction DEF Scripts, FoosSpan, SubjectSpan
<1>3. Shaped(Scripts["destruction"], FoosSpan["destruction"], SubjectSpan["destruction"])
  BY ShapeOfDestruction DEF Scripts, FoosSpan, SubjectSpan
<1>4. Shaped(Scripts["connection"], FoosSpan["connection"], SubjectSpan["connection"])
  BY ShapeOfConnection DEF Scripts, FoosSpan, SubjectSpan
<1>5. Shaped(Scripts["disconnect"], FoosSpan["disconnect"], SubjectSpan["disconnect"])
  BY ShapeOfDisconnect DEF Scripts, FoosSpan, SubjectSpan
<1>6. Shaped(Scripts["reconnect"], FoosSpan["reconnect"], SubjectSpan["reconnect"])
  BY ShapeOfReconnect DEF Scripts, FoosSpan, SubjectSpan
<1>7. Shaped(Scripts["emission"], FoosSpan["emission"], SubjectSpan["emission"])
  BY ShapeOfEmission DEF Scripts, FoosSpan, SubjectSpan
<1>8. Shaped(Scripts["combined"], FoosSpan["combined"], SubjectSpan["combined"])
  BY ShapeOfCombined DEF Scripts, FoosSpan, SubjectSpan
<1>9. Shaped(Scripts["threaded"], FoosSpan["threaded"], SubjectSpan["threaded"])
  BY ShapeOfThreaded DEF Scripts, FoosSpan, SubjectSpan
<1>10. Shaped(Scripts["validation"], FoosSpan["validation"], SubjectSpan["validation"])
  BY ShapeOfValidation DEF Scripts, FoosSpan, SubjectSpan
<1> QED
  BY <1>1, <1>2, <1>3, <1>4, <1>5, <1>6, <1>7, <1>8, <1>9, <1>10

\* Where a sample has been taken that the loop has not counted yet.
AfterSpan ==
  [construction |-> 5..6, destruction |-> 6..6,  connection |-> 7..9, disconnect |-> 8..9,
   reconnect    |-> 7..8, emission    |-> 9..11, combined   |-> 10..10]

Sampled == DOMAIN AfterSpan

LEMMA PaceShapes == Sampled \subseteq Methods /\ \A m \in Sampled : PaceShape(Scripts[m], AfterSpan[m])
<1>1. Sampled = {"construction", "destruction", "connection", "disconnect", "reconnect",
                 "emission", "combined"}
  BY DEF Sampled, AfterSpan
<1>2. Sampled \subseteq Methods
  BY <1>1 DEF Methods, Scripts
<1>3. PaceShape(Scripts["construction"], AfterSpan["construction"])
  BY ShapeOfConstruction DEF Scripts, AfterSpan
<1>4. PaceShape(Scripts["destruction"], AfterSpan["destruction"])
  BY ShapeOfDestruction DEF Scripts, AfterSpan
<1>5. PaceShape(Scripts["connection"], AfterSpan["connection"])
  BY ShapeOfConnection DEF Scripts, AfterSpan
<1>6. PaceShape(Scripts["disconnect"], AfterSpan["disconnect"])
  BY ShapeOfDisconnect DEF Scripts, AfterSpan
<1>7. PaceShape(Scripts["reconnect"], AfterSpan["reconnect"])
  BY ShapeOfReconnect DEF Scripts, AfterSpan
<1>8. PaceShape(Scripts["emission"], AfterSpan["emission"])
  BY ShapeOfEmission DEF Scripts, AfterSpan
<1>9. PaceShape(Scripts["combined"], AfterSpan["combined"])
  BY ShapeOfCombined DEF Scripts, AfterSpan
<1> QED
  BY <1>1, <1>2, <1>3, <1>4, <1>5, <1>6, <1>7, <1>8, <1>9

-------------------------------------------------------------------------------
(* The scripts of the workers, and of exceptions *)

LEMMA ShapeOfContext ==
  /\ Len(Context) = 10
  /\ \A p \in 1..10 : Context[p] \in {"copy", "loop", "foos", "connect", "emit", "draw", "~foos",
                                      "count", "next", "finish"}
  /\ \A p \in 1..10 : Context[p] = "foos" <=> p = 3
  /\ \A p \in 1..10 : Context[p] = "~foos" <=> p = 7
  /\ \A p \in 1..10 : Context[p] = "finish" <=> p = 10
  /\ \A p \in 1..10 : Context[p] = "loop" <=> p = 2
  /\ \A p \in 1..10 : Context[p] = "next" <=> p = 9
  /\ Where(Context, "loop") = 2
  /\ Where(Context, "next") = 9
<1> DEFINE c == Context
<1>1. Len(c) = 10 /\ DOMAIN c = 1..10
  BY DEF Context
<1>2. /\ c[1] = "copy" /\ c[2] = "loop" /\ c[3] = "foos" /\ c[4] = "connect"
      /\ c[5] = "emit" /\ c[6] = "draw" /\ c[7] = "~foos" /\ c[8] = "count"
      /\ c[9] = "next" /\ c[10] = "finish"
  BY DEF Context
<1> HIDE DEF c
<1>3. Where(c, "next") = 9
  BY <1>1, <1>2, WhereIs
<1>4. Where(c, "loop") = 2
  BY <1>1, <1>2, WhereIs
<1>5. /\ \A p \in 1..10 : c[p] \in {"copy", "loop", "foos", "connect", "emit", "draw", "~foos",
                                    "count", "next", "finish"}
      /\ \A p \in 1..10 : c[p] = "foos" <=> p = 3
      /\ \A p \in 1..10 : c[p] = "~foos" <=> p = 7
      /\ \A p \in 1..10 : c[p] = "finish" <=> p = 10
      /\ \A p \in 1..10 : c[p] = "loop" <=> p = 2
      /\ \A p \in 1..10 : c[p] = "next" <=> p = 9
  BY <1>2
<1> QED
  BY <1>1, <1>3, <1>4, <1>5 DEF c

LEMMA StockOfContext == StockShape(Context, 4..7, 5..7)
<1> DEFINE c == Context
<1>1. Len(c) = 10 /\ DOMAIN c = 1..10
  BY DEF Context
<1>2. /\ c[1] = "copy" /\ c[2] = "loop" /\ c[3] = "foos" /\ c[4] = "connect"
      /\ c[5] = "emit" /\ c[6] = "draw" /\ c[7] = "~foos" /\ c[8] = "count"
      /\ c[9] = "next" /\ c[10] = "finish"
  BY DEF Context
<1> HIDE DEF c
<1>3. Where(c, "loop") = 2 /\ Where(c, "next") = 9
  BY <1>1, <1>2, WhereIs
<1>4. StockShape(c, 4..7, 5..7)
  BY <1>1, <1>2, <1>3 DEF StockShape, PairShape
<1> QED
  BY <1>4 DEF c

WorkerUnwinds == <<"~foos", "fail">>

MainUnwinds == <<"join", "~foos", "~subjects", "throw">>

LEMMA ShapeOfUnwinding ==
  /\ Len(WorkerUnwinds) = 2
  /\ WorkerUnwinds[1] = "~foos" /\ WorkerUnwinds[2] = "fail"
  /\ Len(MainUnwinds) = 4
  /\ MainUnwinds[1] = "join" /\ MainUnwinds[2] = "~foos"
  /\ MainUnwinds[3] = "~subjects" /\ MainUnwinds[4] = "throw"
  /\ Unwind(Main) = MainUnwinds
  /\ \A w \in Workers : Unwind(w) = WorkerUnwinds
  /\ Main \notin Workers
<1>1. Main \notin Workers
  BY SizesAssumption DEF Main, Workers
<1> QED
  BY <1>1 DEF WorkerUnwinds, MainUnwinds, Unwind

-------------------------------------------------------------------------------
(* The invariant *)

\* A worker has Foos only between the two ends of their vector.
WorkerOK(w) ==
  \/ /\ code[w] = <<>>
     /\ pc[w] = 1
     /\ foos[w] = 0
     /\ future[w] # "running"
  \/ /\ code[w] = Context
     /\ pc[w] \in 1..10
     /\ future[w] = "running"
     /\ foos[w] > 0 => pc[w] \in 3..7
  \/ /\ code[w] = WorkerUnwinds
     /\ pc[w] \in 1..2
     /\ future[w] = "running"
     /\ foos[w] > 0 => pc[w] = 1

\* The main thread has called no method yet, or the stub of one.
NoScript ==
  /\ code[Main] = <<>>
  /\ pc[Main] = 1
  /\ foos[Main] = 0
  /\ subjects = 0
  /\ Running = {}

\* It is in, or at the end of, the script of a method.
InMethod ==
  /\ method \in Methods
  /\ code[Main] = Scripts[method]
  /\ pc[Main] \in 1..(Len(Scripts[method]) + 1)
  /\ foos[Main] > 0 => pc[Main] \in FoosSpan[method]
  /\ pc[Main] \in SubjectSpan[method] => subjects > 0
  /\ subjects > 0 => pc[Main] \in SubjectSpan[method] \/ At(Main, "subjects")
  /\ Running # {} => At(Main, "spawn") \/ At(Main, "get") \/ At(Main, "join")

\* It leaves the scopes of a method after an exception.
InUnwinding ==
  /\ code[Main] = MainUnwinds
  /\ pc[Main] \in 1..5
  /\ foos[Main] > 0 => pc[Main] <= 2 /\ subjects > 0
  /\ subjects > 0 => pc[Main] <= 3
  /\ Running # {} => pc[Main] = 1 /\ subjects > 0

\* The workers that have been started are the first ones.
InOrder == \E n \in 0..crew : Started = 1..n

\* The scripts there are.
Codes == {<<>>, Context, WorkerUnwinds, MainUnwinds} \cup {Scripts[m] : m \in Methods}

\* What a future may hold.
Held == {"none", "running", "value", "error", "taken", "lost"}

Typed ==
  /\ subjects \in Nat
  /\ foos \in [Threads -> Nat]
  /\ pc \in [Threads -> Nat]
  /\ code \in [Threads -> Codes]
  /\ future \in [Workers -> Held]
  /\ crew \in 0..MaxWorkers

InPlace ==
  /\ Typed
  /\ InOrder
  /\ \A w \in Workers : WorkerOK(w)
  /\ NoScript \/ InMethod \/ InUnwinding

\* The invariant says what the properties say.
LEMMA InPlaceSuffices == InPlace => SubjectOutlivesFoos /\ LeavesNothing
<1> SUFFICES ASSUME InPlace PROVE SubjectOutlivesFoos /\ LeavesNothing
  OBVIOUS
<1>1. Threads = {Main} \cup Workers /\ Main \in Threads
  BY DEF Threads
<1>2. \A w \in Workers : foos[w] > 0 => w \in Running
  BY <1>1, ShapeOfUnwinding DEF InPlace, Typed, WorkerOK, Running
<1>3. \A w \in Workers : w \notin Running => foos[w] = 0
  BY <1>1, <1>2 DEF InPlace, Typed
<1>4. CASE NoScript
  BY <1>1, <1>2, <1>3, <1>4 DEF NoScript, SubjectOutlivesFoos, LeavesNothing
<1>5. CASE InMethod
  <2> DEFINE c == Scripts[method]
             S == SubjectSpan[method]
             F == FoosSpan[method]
  <2>1. Shaped(c, F, S)
    BY <1>5, Shapes DEF InMethod
  <2>2. At(Main, "spawn") \/ At(Main, "get") \/ At(Main, "join") => pc[Main] \in S
    <3>1. At(Main, "spawn") \/ At(Main, "get") \/ At(Main, "join") =>
            pc[Main] \in DOMAIN c /\ c[pc[Main]] \in {"spawn", "get", "join"}
      BY <1>5, <2>1 DEF InMethod, At, Shaped
    <3> QED
      BY <2>1, <3>1 DEF Shaped, CrewShape
  <2>3. F \subseteq S
    BY <2>1 DEF Shaped
  <2>4. SubjectOutlivesFoos
    BY <1>1, <1>2, <1>5, <2>2, <2>3 DEF InMethod, SubjectOutlivesFoos
  <2>5. ASSUME Idle PROVE pc[Main] \notin DOMAIN c /\ pc[Main] > Len(c)
    BY <1>5, <2>1, <2>5 DEF InMethod, Shaped, Idle
  <2>6. ASSUME Idle PROVE pc[Main] \notin S /\ pc[Main] \notin F /\ ~At(Main, "subjects") /\ Running = {}
    <3>1. pc[Main] \notin S /\ pc[Main] \notin F
      BY <2>1, <2>5, <2>6 DEF Shaped, SubjectShape, FoosShape
    <3>2. \A op : ~At(Main, op)
      BY <1>5, <2>1, <2>5, <2>6 DEF InMethod, At, Shaped
    <3> QED
      BY <1>5, <3>1, <3>2 DEF InMethod
  <2>7. Idle => subjects = 0 /\ foos[Main] = 0
    BY <1>1, <1>5, <2>6 DEF InMethod, InPlace, Typed
  <2>8. LeavesNothing
    BY <1>1, <1>3, <2>6, <2>7 DEF LeavesNothing
  <2> QED
    BY <2>4, <2>8
<1>6. CASE InUnwinding
  <2>1. SubjectOutlivesFoos
    BY <1>1, <1>2, <1>6 DEF InUnwinding, SubjectOutlivesFoos
  <2>2. Idle => pc[Main] = 5
    BY <1>6, ShapeOfUnwinding DEF InUnwinding, Idle
  <2>3. Idle => Running = {} /\ subjects = 0 /\ foos[Main] = 0
    BY <1>1, <1>6, <2>2 DEF InUnwinding, InPlace, Typed
  <2> QED
    BY <1>1, <1>3, <2>1, <2>3 DEF LeavesNothing
<1> QED
  BY <1>4, <1>5, <1>6 DEF InPlace

-------------------------------------------------------------------------------
(* What the steps of a thread do to the invariant *)

LEMMA ThreadSets == Threads = {Main} \cup Workers /\ Main \in Threads /\ Main \notin Workers
  BY ShapeOfUnwinding DEF Threads

\* A step of the main thread that leaves the workers alone.
LEMMA MainMoves ==
  ASSUME InPlace, Typed', crew' = crew, future' = future,
         \A w \in Workers : code'[w] = code[w] /\ pc'[w] = pc[w] /\ foos'[w] = foos[w],
         NoScript' \/ InMethod' \/ InUnwinding'
  PROVE  InPlace'
<1>1. \A w \in Workers : WorkerOK(w)'
  BY DEF InPlace, WorkerOK
<1>2. InOrder'
  BY DEF InPlace, InOrder, Started
<1> QED
  BY <1>1, <1>2 DEF InPlace

\* A step of a worker that leaves everybody else alone.
LEMMA WorkerMoves ==
  ASSUME InPlace, NEW w \in Workers, Typed', UNCHANGED <<method, subjects, crew>>,
         future[w] = "running", future'[w] # "none",
         \A t \in Threads : t # w => code'[t] = code[t] /\ pc'[t] = pc[t] /\ foos'[t] = foos[t],
         \A v \in Workers : v # w => future'[v] = future[v],
         WorkerOK(w)'
  PROVE  InPlace'
<1>1. \A v \in Workers : WorkerOK(v)'
  <2> SUFFICES ASSUME NEW v \in Workers PROVE WorkerOK(v)'
    OBVIOUS
  <2>1. CASE v = w
    BY <2>1
  <2>2. CASE v # w
    BY <2>2, ThreadSets DEF InPlace, WorkerOK
  <2> QED
    BY <2>1, <2>2
<1>2. Started' = Started
  BY DEF Started
<1>3. InOrder'
  BY <1>2 DEF InPlace, InOrder
<1>4. Running' \subseteq Running
  BY DEF Running
<1>5. code'[Main] = code[Main] /\ pc'[Main] = pc[Main] /\ foos'[Main] = foos[Main]
  BY ThreadSets
<1>6. \A op : At(Main, op)' <=> At(Main, op)
  BY <1>5 DEF At
<1>7. NoScript => NoScript'
  BY <1>4, <1>5 DEF NoScript
<1>8. InMethod => InMethod'
  BY <1>4, <1>5, <1>6 DEF InMethod
<1>9. InUnwinding => InUnwinding'
  BY <1>4, <1>5 DEF InUnwinding
<1> QED
  BY <1>1, <1>3, <1>7, <1>8, <1>9 DEF InPlace

\* Inside a method the main thread goes on to the next operation, or stays
\* with one that is not complete.
LEMMA Advances ==
  ASSUME InPlace, InMethod, NEW op, At(Main, op), Running' = {},
         op \notin {"foos", "~foos", "subjects", "~subjects", "loop", "next"},
         UNCHANGED <<method, subjects>>, code'[Main] = code[Main], foos'[Main] = foos[Main],
         pc'[Main] \in {pc[Main], pc[Main] + 1}
  PROVE  InMethod'
<1> DEFINE c == Scripts[method]
           p == pc[Main]
           S == SubjectSpan[method]
           F == FoosSpan[method]
<1>1. Shaped(c, F, S) /\ code[Main] = c
  BY Shapes DEF InMethod
<1>2. p \in DOMAIN c /\ c[p] = op
  BY <1>1 DEF At, InMethod, Shaped
<1>3. \A q \in {p, p + 1} : q \in 1..(Len(c) + 1)
  BY <1>1, <1>2 DEF Shaped
<1>4. p \in F => p + 1 \in F
  BY <1>1, <1>2 DEF Shaped, FoosShape
<1>5. p \in S <=> p + 1 \in S
  BY <1>1, <1>2 DEF Shaped, SubjectShape
<1>6. ~At(Main, "subjects")
  BY <1>1, <1>2 DEF At
<1> QED
  BY <1>3, <1>4, <1>5, <1>6 DEF InMethod

\* The loop goes round.
LEMMA Jumps ==
  ASSUME InPlace, InMethod, Loop(Main) \/ Increment(Main)
  PROVE  InMethod' /\ pc'[Main] \in Nat
<1> DEFINE c == Scripts[method]
           p == pc[Main]
           S == SubjectSpan[method]
           F == FoosSpan[method]
<1>1. Shaped(c, F, S) /\ code[Main] = c
  BY Shapes DEF InMethod
<1>2. p \in DOMAIN c /\ c[p] \in {"loop", "next"}
  BY <1>1 DEF Loop, Increment, At, InMethod, Shaped
<1>3. \A op \in {"subjects", "spawn", "get", "join"} : ~At(Main, op)
  BY <1>1, <1>2 DEF At
<1>4. Running = {}
  BY <1>3 DEF InMethod
<1>5. p \notin F
  BY <1>1, <1>2 DEF Shaped, FoosShape
<1>6. foos[Main] = 0
  BY <1>5, ThreadSets DEF InMethod, InPlace, Typed
<1>7. pc \in [Threads -> Nat] /\ Main \in Threads
  BY ThreadSets DEF InPlace, Typed
<1>8. /\ pc'[Main] \in 1..(Len(c) + 1)
      /\ p \in S <=> pc'[Main] \in S
  <2>1. CASE Loop(Main) /\ Continues(Main)
    <3>1. pc'[Main] = p + 1 /\ c[p] = "loop"
      BY <1>1, <1>7, <2>1 DEF Loop, Done, Goto, At
    <3> QED
      BY <1>1, <1>2, <3>1 DEF Shaped, SubjectShape
  <2>2. CASE Loop(Main) /\ ~Continues(Main)
    <3>1. pc'[Main] = Where(c, "next") + 1 /\ c[p] = "loop"
      BY <1>1, <1>7, <2>2 DEF Loop, Goto, At
    <3> QED
      BY <1>1, <1>2, <3>1 DEF Shaped, LoopShape
  <2>3. CASE Increment(Main)
    <3>1. pc'[Main] = Where(c, "loop") /\ c[p] = "next"
      BY <1>1, <1>7, <2>3 DEF Increment, Goto, At
    <3> QED
      BY <1>1, <1>2, <3>1 DEF Shaped, LoopShape
  <2> QED
    BY <2>1, <2>2, <2>3
<1>9. UNCHANGED <<method, subjects, foos, future, code>>
  BY DEF Loop, Increment, Done, Goto, scope
<1>10. Running' = {}
  BY <1>4, <1>9 DEF Running
<1> HIDE DEF c, p, S, F
<1>11. subjects > 0 => pc'[Main] \in S
  BY <1>3, <1>8 DEF InMethod, S, p
<1>12. pc'[Main] \in S => subjects > 0
  BY <1>8 DEF InMethod, S, p
<1>13. Len(c) \in Nat
  BY <1>1 DEF Shaped
<1> QED
  BY <1>6, <1>8, <1>9, <1>10, <1>11, <1>12, <1>13 DEF InMethod, S, c

-------------------------------------------------------------------------------
(* The main thread inside a method *)

\* Subjects are made and destroyed at the borders of their span, and Foos
\* inside theirs.
LEMMA NewSubjectInMethod ==
  ASSUME InPlace, InMethod, NewSubject(Main)
  PROVE  InMethod'
<1> DEFINE c == Scripts[method]
           p == pc[Main]
           S == SubjectSpan[method]
           F == FoosSpan[method]
<1>1. Shaped(c, F, S) /\ code[Main] = c
  BY Shapes DEF InMethod
<1>2. p \in DOMAIN c /\ c[p] = "subjects"
  BY <1>1 DEF NewSubject, At, InMethod, Shaped
<1>3. p \notin S /\ p + 1 \in S /\ p \notin F
  BY <1>1, <1>2 DEF Shaped, SubjectShape
<1>4. p \in 1..(Len(c) + 1) /\ p + 1 \in 1..(Len(c) + 1) /\ Len(c) \in Nat
  BY <1>1, <1>2 DEF Shaped
<1>5. foos[Main] = 0 /\ subjects' > 0
  BY <1>3, ThreadSets DEF InMethod, InPlace, Typed, NewSubject
<1>6. UNCHANGED <<method, foos, future, code>>
  BY DEF NewSubject, DoneIf, Done, Goto, control
<1>7. pc'[Main] \in {p, p + 1}
  BY ThreadSets DEF NewSubject, DoneIf, Done, Goto, control, InPlace, Typed
<1>8. Running = {}
  BY <1>1, <1>2 DEF InMethod, At
<1>9. Running' = {}
  BY <1>6, <1>8 DEF Running
<1>10. pc'[Main] = p => At(Main, "subjects")'
  BY <1>1, <1>2, <1>6 DEF Shaped, At
<1> QED
  BY <1>3, <1>4, <1>5, <1>6, <1>7, <1>9, <1>10 DEF InMethod

LEMMA DropSubjectInMethod ==
  ASSUME InPlace, InMethod, DropSubject(Main)
  PROVE  InMethod'
<1> DEFINE c == Scripts[method]
           p == pc[Main]
           S == SubjectSpan[method]
           F == FoosSpan[method]
<1>1. Shaped(c, F, S) /\ code[Main] = c
  BY Shapes DEF InMethod
<1>2. p \in DOMAIN c /\ c[p] = "~subjects"
  BY <1>1 DEF DropSubject, At, InMethod, Shaped
<1>3. p \in S /\ p + 1 \notin S /\ p \notin F
  BY <1>1, <1>2 DEF Shaped, SubjectShape
<1>4. p \in 1..(Len(c) + 1) /\ p + 1 \in 1..(Len(c) + 1) /\ Len(c) \in Nat
  BY <1>1, <1>2 DEF Shaped
<1>5. foos[Main] = 0 /\ subjects \in Nat \ {0} /\ subjects' = subjects - 1
  BY <1>3, ThreadSets DEF InMethod, InPlace, Typed, DropSubject
<1>6. UNCHANGED <<method, foos, future, code>>
  BY DEF DropSubject, DoneIf, Done, Goto, control
<1>7. pc'[Main] = IF subjects <= 1 THEN p + 1 ELSE p
  BY ThreadSets DEF DropSubject, DoneIf, Done, Goto, control, InPlace, Typed
<1>8. Running = {}
  BY <1>1, <1>2 DEF InMethod, At
<1>9. Running' = {}
  BY <1>6, <1>8 DEF Running
<1>10. subjects' > 0 <=> pc'[Main] = p
  BY <1>4, <1>5, <1>7
<1> QED
  BY <1>3, <1>4, <1>5, <1>6, <1>7, <1>9, <1>10 DEF InMethod

LEMMA NewFooInMethod ==
  ASSUME InPlace, InMethod, NewFoo(Main)
  PROVE  InMethod'
<1> DEFINE c == Scripts[method]
           p == pc[Main]
           S == SubjectSpan[method]
           F == FoosSpan[method]
<1>1. Shaped(c, F, S) /\ code[Main] = c
  BY Shapes DEF InMethod
<1>2. p \in DOMAIN c /\ c[p] = "foos"
  BY <1>1 DEF NewFoo, At, InMethod, Shaped
<1>3. p \in F /\ p + 1 \in F /\ p \in S /\ p + 1 \in S
  BY <1>1, <1>2 DEF Shaped, FoosShape
<1>4. p \in 1..(Len(c) + 1) /\ p + 1 \in 1..(Len(c) + 1) /\ Len(c) \in Nat
  BY <1>1, <1>2 DEF Shaped
<1>5. subjects > 0 /\ UNCHANGED <<method, subjects, future, code>>
  BY <1>3 DEF InMethod, NewFoo, DoneIf, Done, Goto, control
<1>6. pc'[Main] \in {p, p + 1}
  BY ThreadSets DEF NewFoo, DoneIf, Done, Goto, control, InPlace, Typed
<1>7. Running = {}
  BY <1>1, <1>2 DEF InMethod, At
<1>8. Running' = {}
  BY <1>5, <1>7 DEF Running
<1> QED
  BY <1>3, <1>4, <1>5, <1>6, <1>8 DEF InMethod

LEMMA DropFooInMethod ==
  ASSUME InPlace, InMethod, DropFoo(Main)
  PROVE  InMethod'
<1> DEFINE c == Scripts[method]
           p == pc[Main]
           S == SubjectSpan[method]
           F == FoosSpan[method]
<1>1. Shaped(c, F, S) /\ code[Main] = c
  BY Shapes DEF InMethod
<1>2. p \in DOMAIN c /\ c[p] = "~foos"
  BY <1>1 DEF DropFoo, At, InMethod, Shaped
<1>3. p \in S <=> p + 1 \in S
  BY <1>1, <1>2 DEF Shaped, SubjectShape
<1>4. p \in 1..(Len(c) + 1) /\ p + 1 \in 1..(Len(c) + 1) /\ Len(c) \in Nat
  BY <1>1, <1>2 DEF Shaped
<1>5. UNCHANGED <<method, subjects, future, code>>
  BY DEF DropFoo, DoneIf, Done, Goto, control
<1>6. foos[Main] \in Nat /\ foos'[Main] = IF foos[Main] = 0 THEN 0 ELSE foos[Main] - 1
  BY ThreadSets DEF DropFoo, InPlace, Typed
<1>7. pc'[Main] = IF foos[Main] <= 1 THEN p + 1 ELSE p
  BY ThreadSets DEF DropFoo, DoneIf, Done, Goto, control, InPlace, Typed
<1>8. foos'[Main] > 0 => foos[Main] > 0 /\ pc'[Main] = p
  BY <1>6, <1>7
<1>9. ~At(Main, "subjects") /\ Running = {}
  BY <1>1, <1>2 DEF InMethod, At
<1>10. Running' = {}
  BY <1>5, <1>9 DEF Running
<1> QED
  BY <1>3, <1>4, <1>5, <1>7, <1>8, <1>9, <1>10 DEF InMethod

\* An exception of the main thread.
LEMMA ThrowInMethod ==
  ASSUME InPlace, InMethod, Throw(Main)
  PROVE  InUnwinding'
<1> DEFINE c == Scripts[method]
           p == pc[Main]
           S == SubjectSpan[method]
           F == FoosSpan[method]
<1>1. Shaped(c, F, S) /\ code[Main] = c
  BY Shapes DEF InMethod
<1>2. code'[Main] = MainUnwinds /\ pc'[Main] = 1 /\ UNCHANGED <<subjects, foos, future>>
  BY ThreadSets, ShapeOfUnwinding DEF Throw, Run, scope, InPlace, Typed
<1>3. foos[Main] > 0 => subjects > 0
  BY <1>1 DEF InMethod, Shaped
<1>4. Running # {} => subjects > 0
  <2>1. At(Main, "spawn") \/ At(Main, "get") \/ At(Main, "join") =>
          p \in DOMAIN c /\ c[p] \in {"spawn", "get", "join"}
    BY <1>1 DEF At, InMethod, Shaped
  <2>2. At(Main, "spawn") \/ At(Main, "get") \/ At(Main, "join") => p \in S
    BY <1>1, <2>1 DEF Shaped, CrewShape
  <2> QED
    BY <2>2 DEF InMethod
<1>5. Running' = Running
  BY <1>2 DEF Running
<1> QED
  BY <1>2, <1>3, <1>4, <1>5 DEF InUnwinding
-------------------------------------------------------------------------------
(* The steps of the main thread *)

LEMMA NothingToDo == ASSUME NoScript, NEW op PROVE ~At(Main, op)
  BY DEF NoScript, At

LEMMA UnwindingOps ==
  ASSUME InUnwinding, NEW op, At(Main, op)
  PROVE  \/ pc[Main] = 1 /\ op = "join"
         \/ pc[Main] = 2 /\ op = "~foos"
         \/ pc[Main] = 3 /\ op = "~subjects"
         \/ pc[Main] = 4 /\ op = "throw"
<1>1. pc[Main] \in 1..4 /\ op = MainUnwinds[pc[Main]]
  BY ShapeOfUnwinding DEF InUnwinding, At
<1> QED
  BY <1>1, ShapeOfUnwinding

\* Operations that only measure, call the library, or wait.
LEMMA QuietSteps ==
  ASSUME InPlace, NEW op, At(Main, op),
         op \in {"reset", "count", "connect", "emit", "draw", "join", "return", "verdict", "throw"},
         op = "join" => Running = {},
         UNCHANGED <<method, subjects, foos, future, crew, code>>,
         \/ pc' = [pc EXCEPT ![Main] = pc[Main] + 1]
         \/ op = "connect" /\ pc' = pc
  PROVE  InPlace'
<1>1. pc'[Main] \in {pc[Main], pc[Main] + 1} /\ (op # "connect" => pc'[Main] = pc[Main] + 1)
  BY ThreadSets DEF InPlace, Typed
<1>2. Typed'
  BY ThreadSets DEF InPlace, Typed
<1>3. \A w \in Workers : code'[w] = code[w] /\ pc'[w] = pc[w] /\ foos'[w] = foos[w]
  BY ThreadSets DEF InPlace, Typed
<1>4. Running' = Running
  BY DEF Running
<1>5. CASE InMethod
  <2>1. op # "join" => ~At(Main, "spawn") /\ ~At(Main, "get") /\ ~At(Main, "join")
    BY DEF At
  <2>2. Running' = {}
    BY <1>4, <1>5, <2>1 DEF InMethod
  <2>3. InMethod'
    BY <1>1, <1>5, <2>2, Advances
  <2> QED
    BY <1>2, <1>3, <2>3, MainMoves
<1>6. CASE InUnwinding
  <2>1. (pc[Main] = 1 /\ op = "join") \/ (pc[Main] = 4 /\ op = "throw")
    BY <1>6, UnwindingOps
  <2>2. pc'[Main] = pc[Main] + 1
    BY <1>1, <2>1
  <2>3. pc[Main] = 1 => Running' = {}
    BY <1>4, <2>1
  <2>4. InUnwinding'
    BY <1>4, <1>6, <2>1, <2>2, <2>3 DEF InUnwinding
  <2> QED
    BY <1>2, <1>3, <2>4, MainMoves
<1> QED
  BY <1>5, <1>6, NothingToDo DEF InPlace

LEMMA StartedInOrder ==
  ASSUME InPlace
  PROVE  \E n \in 0..crew : Started = 1..n /\ Cardinality(Started) = n
<1>1. PICK n \in 0..crew : Started = 1..n
  BY DEF InPlace, InOrder
<1>2. n \in Nat
  BY <1>1, SizesAssumption DEF InPlace, Typed
<1>3. CASE n = 0
  BY <1>1, <1>3, FS_EmptySet, 1..0 = {}
<1>4. CASE n > 0
  BY <1>1, <1>2, <1>4, FS_Interval
<1> QED
  BY <1>2, <1>3, <1>4

\* The next worker, or no more: the main thread stays inside the Subject.
LEMMA SpawnSteps ==
  ASSUME InPlace, Spawn
  PROVE  InPlace'
<1> DEFINE c == Scripts[method]
           p == pc[Main]
           S == SubjectSpan[method]
           F == FoosSpan[method]
<1>1. InMethod
  BY NothingToDo, UnwindingOps DEF InPlace, Spawn
<1>2. Shaped(c, F, S) /\ code[Main] = c
  BY <1>1, Shapes DEF InMethod
<1>3. p \in DOMAIN c /\ c[p] = "spawn" /\ At(Main, "spawn")
  BY <1>1, <1>2 DEF Spawn, At, InMethod, Shaped
<1>4. p \in S /\ p + 1 \in S /\ p + 1 \in DOMAIN c /\ c[p + 1] = "get"
  BY <1>2, <1>3 DEF Shaped, SubjectShape, CrewShape
<1>5. subjects > 0 /\ (p \in F => p + 1 \in F)
  BY <1>1, <1>2, <1>3, <1>4 DEF InMethod, Shaped, FoosShape
<1>6. UNCHANGED <<method, subjects, foos, crew>>
  BY DEF Spawn, scope
<1>7. CASE Cardinality(Started) = crew
  <2>1. UNCHANGED <<future, code>> /\ pc' = [pc EXCEPT ![Main] = p + 1]
    BY <1>7 DEF Spawn, Done, Goto
  <2>2. pc'[Main] = p + 1 /\ \A w \in Workers : pc'[w] = pc[w]
    BY <2>1, ThreadSets DEF InPlace, Typed
  <2>3. Typed'
    BY <1>6, <2>1, ThreadSets DEF InPlace, Typed
  <2>4. At(Main, "get")'
    BY <1>2, <1>4, <2>1, <2>2 DEF At, Shaped
  <2>5. InMethod'
    BY <1>1, <1>2, <1>4, <1>5, <1>6, <2>1, <2>2, <2>4 DEF InMethod, Shaped
  <2> QED
    BY <1>6, <2>1, <2>2, <2>3, <2>5, MainMoves
<1>8. CASE Cardinality(Started) # crew
  <2> DEFINE w == Cardinality(Started) + 1
  <2>1. PICK n \in 0..crew : Started = 1..n /\ Cardinality(Started) = n
    BY StartedInOrder
  <2>2. Cardinality(1..n) = n
    BY <2>1
  <2>3. w = n + 1 /\ n < crew
    BY <1>8, <2>1, <2>2 DEF InPlace, Typed
  <2>4. w \in Workers /\ future[w] = "none"
    <3>1. w \in Workers
      BY <2>1, <2>3, SizesAssumption DEF InPlace, Typed, Workers
    <3>2. w \notin Started
      BY <2>1, <2>3
    <3> QED
      BY <3>1, <3>2 DEF Started
  <2>5. /\ future' = [future EXCEPT ![w] = "running"]
        /\ code' = [code EXCEPT ![w] = Context]
        /\ pc' = [pc EXCEPT ![w] = 1]
    BY <1>8 DEF Spawn, Run
  <2> HIDE DEF w
  <2>6. Typed'
    <3>1. w \in Threads /\ Context \in Codes
      BY <2>4, ThreadSets, Zenon DEF Codes
    <3>2. code' \in [Threads -> Codes] /\ future' \in [Workers -> Held]
      BY <2>5, <3>1 DEF InPlace, Typed, Held
    <3>3. pc' \in [Threads -> Nat]
      BY <2>5, <3>1 DEF InPlace, Typed
    <3> QED
      BY <1>6, <3>2, <3>3 DEF InPlace, Typed
  <2>7. code[w] = <<>> /\ foos[w] = 0
    BY <2>4, ShapeOfContext, ShapeOfUnwinding DEF InPlace, WorkerOK
  <2>8. \A v \in Workers : WorkerOK(v)'
    <3> SUFFICES ASSUME NEW v \in Workers PROVE WorkerOK(v)'
      OBVIOUS
    <3>1. CASE v = w
      <4>1. code'[w] = Context /\ pc'[w] = 1 /\ future'[w] = "running" /\ foos'[w] = 0
        BY <1>6, <2>4, <2>5, <2>7, ThreadSets DEF InPlace, Typed
      <4> QED
        BY <3>1, <4>1 DEF WorkerOK
    <3>2. CASE v # w
      BY <1>6, <2>4, <2>5, <3>2, ThreadSets DEF InPlace, Typed, WorkerOK
    <3> QED
      BY <3>1, <3>2
  <2>9. Started' = 1..(n + 1)
    <3>1. Started' = Started \cup {w}
      BY <2>4, <2>5 DEF Started, InPlace, Typed
    <3>2. n \in Nat
      BY <2>1, SizesAssumption DEF InPlace, Typed
    <3> QED
      BY <2>1, <2>3, <3>1, <3>2
  <2>10. InOrder'
    <3>1. n + 1 \in 0..crew
      BY <2>1, <2>3 DEF InPlace, Typed
    <3> QED
      BY <1>6, <2>9, <3>1 DEF InOrder
  <2>11. code'[Main] = code[Main] /\ pc'[Main] = pc[Main]
    BY <2>4, <2>5, ThreadSets DEF InPlace, Typed
  <2>12. At(Main, "spawn")'
    BY <1>3, <2>11 DEF At
  <2>13. InMethod'
    BY <1>1, <1>4, <1>5, <1>6, <2>11, <2>12 DEF InMethod
  <2> QED
    BY <2>6, <2>8, <2>10, <2>13 DEF InPlace
<1> QED
  BY <1>7, <1>8

\* The main thread takes a result, waits for no more, or throws what a worker
\* has thrown.
LEMMA GetSteps ==
  ASSUME InPlace, Get
  PROVE  InPlace'
<1> DEFINE c == Scripts[method]
           p == pc[Main]
           S == SubjectSpan[method]
           F == FoosSpan[method]
           left == {w \in Started : future[w] \notin {"taken", "lost"}}
           w == CHOOSE w \in left : \A v \in left : w <= v
<1>1. InMethod
  BY NothingToDo, UnwindingOps DEF InPlace, Get
<1>2. Shaped(c, F, S) /\ code[Main] = c
  BY <1>1, Shapes DEF InMethod
<1>3. p \in DOMAIN c /\ c[p] = "get" /\ At(Main, "get")
  BY <1>1, <1>2 DEF Get, At, InMethod, Shaped
<1>4. p \in S /\ p + 1 \in S /\ p + 1 \in DOMAIN c /\ c[p + 1] = "join"
  BY <1>2, <1>3 DEF Shaped, SubjectShape, CrewShape
<1>5. subjects > 0 /\ (p \in F => p + 1 \in F)
  BY <1>1, <1>2, <1>3, <1>4 DEF InMethod, Shaped, FoosShape
<1>6. UNCHANGED <<method, subjects, foos, crew>>
  BY DEF Get, scope
<1>7. CASE left = {}
  <2>1. UNCHANGED <<future, code>> /\ pc' = [pc EXCEPT ![Main] = p + 1]
    BY <1>7 DEF Get, Done, Goto
  <2>2. pc'[Main] = p + 1 /\ \A v \in Workers : pc'[v] = pc[v]
    BY <2>1, ThreadSets DEF InPlace, Typed
  <2>3. Typed'
    BY <1>6, <2>1, ThreadSets DEF InPlace, Typed
  <2>4. At(Main, "join")'
    BY <1>2, <1>4, <2>1, <2>2 DEF At, Shaped
  <2>5. InMethod'
    BY <1>1, <1>2, <1>4, <1>5, <1>6, <2>1, <2>2, <2>4 DEF InMethod, Shaped
  <2> QED
    BY <1>6, <2>1, <2>2, <2>3, <2>5, MainMoves
<1>8. CASE left # {}
  <2>1. /\ future[w] \in {"value", "error"}
        /\ future' = [future EXCEPT ![w] = IF @ = "value" THEN "taken" ELSE "lost"]
        /\ IF future[w] = "error" THEN Run(Main, Unwind(Main)) ELSE UNCHANGED control
    BY <1>8 DEF Get
  <2> HIDE DEF w, left
  <2>2. future' \in [Workers -> Held]
    BY <2>1 DEF InPlace, Typed, Held
  <2>3. \A v \in Workers : \/ future'[v] = future[v]
                           \/ future[v] \in {"value", "error"} /\ future'[v] \in {"taken", "lost"}
    BY <2>1 DEF InPlace, Typed
  <2>4. Started' = Started /\ Running' = Running
    BY <2>3 DEF Started, Running
  <2>5. InOrder'
    BY <1>6, <2>4 DEF InPlace, InOrder
  <2>6. \A v \in Workers : future'[v] = "running" <=> future[v] = "running"
    BY <2>3
  <2>7. CASE future[w] = "value"
    <3>1. UNCHANGED <<pc, code>>
      BY <2>1, <2>7 DEF control
    <3>2. Typed'
      BY <1>6, <2>2, <3>1 DEF InPlace, Typed
    <3>3. \A v \in Workers : WorkerOK(v)'
      BY <1>6, <2>6, <3>1 DEF InPlace, WorkerOK
    <3>4. InMethod'
      BY <1>1, <1>6, <2>4, <3>1 DEF InMethod, At
    <3> QED
      BY <2>5, <3>2, <3>3, <3>4 DEF InPlace
  <2>8. CASE future[w] = "error"
    <3>1. code' = [code EXCEPT ![Main] = MainUnwinds] /\ pc' = [pc EXCEPT ![Main] = 1]
      BY <2>1, <2>8, ShapeOfUnwinding DEF Run
    <3>2. code'[Main] = MainUnwinds /\ pc'[Main] = 1
      BY <3>1, ThreadSets DEF InPlace, Typed
    <3>3. \A v \in Workers : code'[v] = code[v] /\ pc'[v] = pc[v]
      BY <3>1, ThreadSets DEF InPlace, Typed
    <3>4. Typed'
      <4>1. code' \in [Threads -> Codes]
        BY <3>1, ThreadSets DEF InPlace, Typed, Codes
      <4>2. pc' \in [Threads -> Nat]
        BY <3>1, ThreadSets DEF InPlace, Typed
      <4> QED
        BY <1>6, <2>2, <4>1, <4>2 DEF InPlace, Typed
    <3>5. \A v \in Workers : WorkerOK(v)'
      BY <1>6, <2>6, <3>3 DEF InPlace, WorkerOK
    <3>6. InUnwinding'
      BY <1>5, <1>6, <3>2 DEF InUnwinding
    <3> QED
      BY <2>5, <3>4, <3>5, <3>6 DEF InPlace
  <2> QED
    BY <2>1, <2>7, <2>8
<1> QED
  BY <1>7, <1>8

LEMMA MainJumps ==
  ASSUME InPlace, Loop(Main) \/ Increment(Main)
  PROVE  InPlace'
<1>1. InMethod
  BY NothingToDo, UnwindingOps DEF InPlace, Loop, Increment
<1>2. InMethod' /\ pc'[Main] \in Nat
  BY <1>1, Jumps
<1>3. UNCHANGED <<subjects, foos, crew, future, code>>
  BY DEF Loop, Increment, Done, Goto, scope
<1>4. \E i : pc' = [pc EXCEPT ![Main] = i]
  BY DEF Loop, Increment, Done, Goto
<1>5. pc' \in [Threads -> Nat] /\ \A w \in Workers : pc'[w] = pc[w]
  BY <1>2, <1>4, ThreadSets DEF InPlace, Typed
<1>6. Typed'
  BY <1>3, <1>5 DEF InPlace, Typed
<1> QED
  BY <1>2, <1>3, <1>5, <1>6, MainMoves

LEMMA MainSubjects ==
  ASSUME InPlace, NewSubject(Main) \/ DropSubject(Main)
  PROVE  InPlace'
<1>1. UNCHANGED <<foos, crew, future, code>>
  BY DEF NewSubject, DropSubject, DoneIf, Done, Goto, control
<1>2. pc' = pc \/ pc' = [pc EXCEPT ![Main] = pc[Main] + 1]
  BY DEF NewSubject, DropSubject, DoneIf, Done, Goto, control
<1>3. subjects' \in Nat
  BY DEF NewSubject, DropSubject, InPlace, Typed
<1>4. pc' \in [Threads -> Nat] /\ \A w \in Workers : pc'[w] = pc[w]
  BY <1>2, ThreadSets DEF InPlace, Typed
<1>5. Typed'
  BY <1>1, <1>3, <1>4 DEF InPlace, Typed
<1>6. CASE InMethod
  BY <1>1, <1>4, <1>5, <1>6, NewSubjectInMethod, DropSubjectInMethod, MainMoves
<1>7. CASE InUnwinding
  <2>1. DropSubject(Main) /\ pc[Main] = 3
    BY <1>7, UnwindingOps DEF NewSubject, DropSubject
  <2>2. subjects \in Nat /\ foos[Main] \in Nat
    BY ThreadSets DEF InPlace, Typed
  <2>3. foos[Main] = 0 /\ Running' = {}
    BY <1>1, <1>7, <2>1, <2>2 DEF InUnwinding, Running
  <2>4. /\ subjects' = IF subjects = 0 THEN 0 ELSE subjects - 1
        /\ pc'[Main] = IF subjects <= 1 THEN 4 ELSE 3
    BY <2>1, ThreadSets DEF DropSubject, DoneIf, Done, Goto, control, InPlace, Typed
  <2>5. pc'[Main] \in 1..5 /\ (subjects' > 0 => pc'[Main] <= 3)
    BY <2>2, <2>4
  <2>6. InUnwinding'
    BY <1>1, <1>7, <2>3, <2>5 DEF InUnwinding
  <2> QED
    BY <1>1, <1>4, <1>5, <2>6, MainMoves
<1> QED
  BY <1>6, <1>7, NothingToDo DEF InPlace, NewSubject, DropSubject

LEMMA MainFoos ==
  ASSUME InPlace, NewFoo(Main) \/ DropFoo(Main)
  PROVE  InPlace'
<1>1. UNCHANGED <<subjects, crew, future, code>>
  BY DEF NewFoo, DropFoo, DoneIf, Done, Goto, control
<1>2. pc' = pc \/ pc' = [pc EXCEPT ![Main] = pc[Main] + 1]
  BY DEF NewFoo, DropFoo, DoneIf, Done, Goto, control
<1>3. foos[Main] \in Nat
  BY ThreadSets DEF InPlace, Typed
<1>4. \/ foos' = foos
      \/ foos' = [foos EXCEPT ![Main] = foos[Main] + 1]
      \/ foos[Main] # 0 /\ foos' = [foos EXCEPT ![Main] = foos[Main] - 1]
  BY DEF NewFoo, DropFoo
<1>5. foos' \in [Threads -> Nat] /\ \A w \in Workers : foos'[w] = foos[w]
  BY <1>3, <1>4, ThreadSets DEF InPlace, Typed
<1>6. pc' \in [Threads -> Nat] /\ \A w \in Workers : pc'[w] = pc[w]
  BY <1>2, ThreadSets DEF InPlace, Typed
<1>7. Typed'
  BY <1>1, <1>5, <1>6 DEF InPlace, Typed
<1>8. CASE InMethod
  BY <1>1, <1>5, <1>6, <1>7, <1>8, NewFooInMethod, DropFooInMethod, MainMoves
<1>9. CASE InUnwinding
  <2>1. DropFoo(Main) /\ pc[Main] = 2
    BY <1>9, UnwindingOps DEF NewFoo, DropFoo
  <2>2. /\ foos'[Main] = IF foos[Main] = 0 THEN 0 ELSE foos[Main] - 1
        /\ pc'[Main] = IF foos[Main] <= 1 THEN 3 ELSE 2
    BY <2>1, ThreadSets DEF DropFoo, DoneIf, Done, Goto, control, InPlace, Typed
  <2>3. pc'[Main] \in 1..3 /\ (foos'[Main] > 0 => foos[Main] > 0 /\ pc'[Main] <= 2)
    BY <1>3, <2>2
  <2>4. Running' = {}
    BY <1>1, <1>9, <2>1 DEF InUnwinding, Running
  <2>5. InUnwinding'
    BY <1>1, <1>9, <2>3, <2>4 DEF InUnwinding
  <2> QED
    BY <1>1, <1>5, <1>6, <1>7, <2>5, MainMoves
<1> QED
  BY <1>8, <1>9, NothingToDo DEF InPlace, NewFoo, DropFoo

LEMMA MainThrows ==
  ASSUME InPlace, Throw(Main)
  PROVE  InPlace'
<1>1. InMethod
  BY NothingToDo, UnwindingOps DEF InPlace, Throw, MayThrow
<1>2. InUnwinding'
  BY <1>1, ThrowInMethod
<1>3. code' = [code EXCEPT ![Main] = MainUnwinds] /\ pc' = [pc EXCEPT ![Main] = 1]
  BY ShapeOfUnwinding DEF Throw, Run
<1>4. UNCHANGED <<subjects, foos, crew, future>>
  BY DEF Throw, scope
<1>5. code' \in [Threads -> Codes] /\ \A w \in Workers : code'[w] = code[w]
  BY <1>3, ThreadSets DEF InPlace, Typed, Codes
<1>6. pc' \in [Threads -> Nat] /\ \A w \in Workers : pc'[w] = pc[w]
  BY <1>3, ThreadSets DEF InPlace, Typed
<1>7. Typed'
  BY <1>4, <1>5, <1>6 DEF InPlace, Typed
<1> QED
  BY <1>2, <1>4, <1>5, <1>6, <1>7, MainMoves

\* Every step of the main thread inside a method.
LEMMA MainSteps ==
  ASSUME InPlace, Step(Main)
  PROVE  InPlace'
<1>1. CASE Loop(Main) \/ Increment(Main)
  BY <1>1, MainJumps
<1>2. CASE Reset(Main)
  <2>1. At(Main, "reset")
    BY <1>2 DEF Reset
  <2>2. /\ UNCHANGED <<method, subjects, foos, future, crew, code>>
        /\ pc' = [pc EXCEPT ![Main] = pc[Main] + 1]
    BY <1>2 DEF Reset, Done, Goto, scope
  <2> QED
    BY <2>1, <2>2, QuietSteps
<1>3. CASE Count(Main)
  <2>1. At(Main, "count")
    BY <1>3 DEF Count
  <2>2. /\ UNCHANGED <<method, subjects, foos, future, crew, code>>
        /\ pc' = [pc EXCEPT ![Main] = pc[Main] + 1]
    BY <1>3 DEF Count, Done, Goto, scope
  <2> QED
    BY <2>1, <2>2, QuietSteps
<1>4. CASE NewSubject(Main) \/ DropSubject(Main)
  BY <1>4, MainSubjects
<1>5. CASE NewFoo(Main) \/ DropFoo(Main)
  BY <1>5, MainFoos
<1>6. CASE Connect(Main)
  <2>1. At(Main, "connect") /\ UNCHANGED <<method, subjects, foos, future, crew, code>>
    BY <1>6 DEF Connect, DoneIf, Done, Goto, control
  <2>2. pc' = [pc EXCEPT ![Main] = pc[Main] + 1] \/ pc' = pc
    BY <1>6 DEF Connect, DoneIf, Done, Goto, control
  <2> QED
    BY <2>1, <2>2, QuietSteps
<1>7. CASE Emit(Main)
  <2>1. At(Main, "emit")
    BY <1>7 DEF Emit
  <2>2. /\ UNCHANGED <<method, subjects, foos, future, crew, code>>
        /\ pc' = [pc EXCEPT ![Main] = pc[Main] + 1]
    BY <1>7 DEF Emit, Done, Goto, scope
  <2> QED
    BY <2>1, <2>2, QuietSteps
<1>8. CASE Draw(Main)
  <2>1. At(Main, "draw")
    BY <1>8 DEF Draw
  <2>2. /\ UNCHANGED <<method, subjects, foos, future, crew, code>>
        /\ pc' = [pc EXCEPT ![Main] = pc[Main] + 1]
    BY <1>8 DEF Draw, Done, Goto, scope
  <2> QED
    BY <2>1, <2>2, QuietSteps
<1>9. CASE Throw(Main)
  BY <1>9, MainThrows
<1>10. CASE Spawn
  BY <1>10, SpawnSteps
<1>11. CASE Get
  BY <1>11, GetSteps
<1>12. CASE Join
  <2>1. At(Main, "join") /\ Running = {}
    BY <1>12 DEF Join, Running
  <2>2. /\ UNCHANGED <<method, subjects, foos, future, crew, code>>
        /\ pc' = [pc EXCEPT ![Main] = pc[Main] + 1]
    BY <1>12 DEF Join, Done, Goto, scope
  <2> QED
    BY <2>1, <2>2, QuietSteps
<1>13. CASE Return
  <2>1. At(Main, "return")
    BY <1>13 DEF Return
  <2>2. /\ UNCHANGED <<method, subjects, foos, future, crew, code>>
        /\ pc' = [pc EXCEPT ![Main] = pc[Main] + 1]
    BY <1>13 DEF Return, Done, Goto, scope
  <2> QED
    BY <2>1, <2>2, QuietSteps
<1>14. CASE Verdict
  <2>1. At(Main, "verdict")
    BY <1>14 DEF Verdict
  <2>2. /\ UNCHANGED <<method, subjects, foos, future, crew, code>>
        /\ pc' = [pc EXCEPT ![Main] = pc[Main] + 1]
    BY <1>14 DEF Verdict, Done, Goto, scope
  <2> QED
    BY <2>1, <2>2, QuietSteps
<1>15. CASE Escape
  <2>1. At(Main, "throw")
    BY <1>15 DEF Escape
  <2>2. /\ UNCHANGED <<method, subjects, foos, future, crew, code>>
        /\ pc' = [pc EXCEPT ![Main] = pc[Main] + 1]
    BY <1>15 DEF Escape, Done, Goto, scope
  <2> QED
    BY <2>1, <2>2, QuietSteps
<1> QED
  BY <1>1, <1>2, <1>3, <1>4, <1>5, <1>6, <1>7, <1>8, <1>9, <1>10, <1>11, <1>12, <1>13, <1>14,
     <1>15 DEF Step

-------------------------------------------------------------------------------
(* The steps of the workers *)

\* What a worker that is about to do something is.
LEMMA WorkerAt ==
  ASSUME InPlace, NEW w \in Workers, NEW op, At(w, op)
  PROVE  /\ future[w] = "running"
         /\ \/ code[w] = Context /\ pc[w] \in 1..10 /\ op = Context[pc[w]]
            \/ /\ code[w] = WorkerUnwinds /\ pc[w] \in 1..2 /\ op = WorkerUnwinds[pc[w]]
<1>1. code[w] = <<>> => pc[w] # 1
  BY DEF At
<1> QED
  BY <1>1 DEF InPlace, WorkerOK, At

\* A worker only moves inside its script.
LEMMA WorkerAdvances ==
  ASSUME InPlace, NEW w \in Workers, NEW op, At(w, op), NEW i \in Nat, NEW k \in Nat,
         UNCHANGED <<method, subjects, crew, future, code>>,
         pc' = [pc EXCEPT ![w] = i], foos' = [foos EXCEPT ![w] = k],
         WorkerOK(w)'
  PROVE  InPlace'
<1>1. w \in Threads /\ future[w] = "running"
  BY ThreadSets, WorkerAt
<1>2. Typed'
  BY <1>1 DEF InPlace, Typed
<1>3. \A t \in Threads : t # w => pc'[t] = pc[t] /\ foos'[t] = foos[t]
  BY DEF InPlace, Typed
<1> QED
  BY <1>1, <1>2, <1>3, WorkerMoves

\* Operations of a worker that touch no Foo.
LEMMA WorkerQuiet ==
  ASSUME InPlace, NEW w \in Workers, NEW op, At(w, op),
         op \in {"copy", "connect", "emit", "draw", "count", "reset"},
         UNCHANGED <<method, subjects, foos, crew, future, code>>,
         pc' = pc \/ pc' = [pc EXCEPT ![w] = pc[w] + 1]
  PROVE  InPlace'
<1>1. code[w] = Context /\ pc[w] \in 1..10 /\ op = Context[pc[w]] /\ future[w] = "running"
  BY WorkerAt, ShapeOfUnwinding
<1>2. pc[w] \notin {7, 10}
  BY <1>1, ShapeOfContext
<1>3. w \in Threads /\ pc'[w] \in {pc[w], pc[w] + 1} /\ pc'[w] \in Nat /\ foos[w] \in Nat
  BY ThreadSets DEF InPlace, Typed
<1>4. pc' = [pc EXCEPT ![w] = pc'[w]] /\ foos' = [foos EXCEPT ![w] = foos[w]]
  BY <1>3 DEF InPlace, Typed
<1>5. foos[w] > 0 => pc[w] \in 3..7
  BY <1>1, ShapeOfContext, ShapeOfUnwinding DEF InPlace, WorkerOK
<1>6. pc'[w] \in 1..10 /\ (foos[w] > 0 => pc'[w] \in 3..7)
  BY <1>1, <1>2, <1>3, <1>5
<1>7. WorkerOK(w)'
  BY <1>1, <1>6 DEF WorkerOK
<1> QED
  BY <1>3, <1>4, <1>7, WorkerAdvances

\* The loop of a worker goes round outside the life of its Foos.
LEMMA WorkerJumps ==
  ASSUME InPlace, NEW w \in Workers, Loop(w) \/ Increment(w)
  PROVE  InPlace'
<1>1. PICK op \in {"loop", "next"} : At(w, op)
  BY DEF Loop, Increment
<1>2. code[w] = Context /\ pc[w] \in 1..10 /\ op = Context[pc[w]] /\ future[w] = "running"
  BY <1>1, WorkerAt, ShapeOfUnwinding
<1>3. pc[w] \in {2, 9}
  BY <1>1, <1>2, ShapeOfContext
<1>4. w \in Threads /\ foos[w] \in Nat
  BY ThreadSets DEF InPlace, Typed
<1>5. foos[w] = 0
  BY <1>2, <1>3, <1>4, ShapeOfContext, ShapeOfUnwinding DEF InPlace, WorkerOK
<1>6. UNCHANGED <<method, subjects, foos, crew, future, code>>
  BY DEF Loop, Increment, Done, Goto, scope
<1>7. \E i \in 1..10 : pc' = [pc EXCEPT ![w] = i]
  <2>1. CASE Loop(w)
    <3>1. pc[w] = 2
      BY <1>2, <2>1, <1>3, ShapeOfContext DEF Loop, At
    <3>2. pc' = [pc EXCEPT ![w] = 3] \/ pc' = [pc EXCEPT ![w] = 10]
      BY <1>2, <2>1, <3>1, ShapeOfContext DEF Loop, Done, Goto
    <3> QED
      BY <3>2
  <2>2. CASE Increment(w)
    <3>1. pc' = [pc EXCEPT ![w] = 2]
      BY <1>2, <2>2, ShapeOfContext DEF Increment, Goto
    <3> QED
      BY <3>1
  <2> QED
    BY <2>1, <2>2
<1>8. PICK i \in 1..10 : pc' = [pc EXCEPT ![w] = i]
  BY <1>7
<1>9. pc'[w] = i
  BY <1>4, <1>8 DEF InPlace, Typed
<1>10. WorkerOK(w)'
  BY <1>2, <1>5, <1>6, <1>9 DEF WorkerOK
<1>11. foos' = [foos EXCEPT ![w] = foos[w]]
  BY <1>4, <1>6 DEF InPlace, Typed
<1>12. i \in Nat
  OBVIOUS
<1> QED
  BY <1>1, <1>4, <1>6, <1>8, <1>10, <1>11, <1>12, WorkerAdvances

LEMMA WorkerFoos ==
  ASSUME InPlace, NEW w \in Workers, NewFoo(w) \/ DropFoo(w)
  PROVE  InPlace'
<1>1. w \in Threads /\ foos[w] \in Nat /\ pc[w] \in Nat
  BY ThreadSets DEF InPlace, Typed
<1>2. UNCHANGED <<method, subjects, crew, future, code>>
  BY DEF NewFoo, DropFoo, DoneIf, Done, Goto, control
<1>3. CASE NewFoo(w)
  <2>1. At(w, "foos")
    BY <1>3 DEF NewFoo
  <2>2. code[w] = Context /\ pc[w] = 3 /\ future[w] = "running"
    BY <2>1, WorkerAt, ShapeOfContext, ShapeOfUnwinding
  <2>3. \E i \in {3, 4} : pc' = [pc EXCEPT ![w] = i]
    <3>1. pc' = pc \/ pc' = [pc EXCEPT ![w] = 4]
      BY <1>3, <2>2 DEF NewFoo, DoneIf, Done, Goto, control
    <3>2. pc = [pc EXCEPT ![w] = 3]
      BY <2>2 DEF InPlace, Typed
    <3> QED
      BY <3>1, <3>2
  <2>4. PICK i \in {3, 4} : pc' = [pc EXCEPT ![w] = i]
    BY <2>3
  <2>5. foos' = [foos EXCEPT ![w] = foos[w] + 1]
    BY <1>3 DEF NewFoo
  <2>6. pc'[w] = i
    BY <1>1, <2>4 DEF InPlace, Typed
  <2>7. WorkerOK(w)'
    BY <1>2, <2>2, <2>6 DEF WorkerOK
  <2>8. i \in Nat /\ foos[w] + 1 \in Nat
    BY <1>1
  <2> QED
    BY <1>2, <2>1, <2>4, <2>5, <2>7, <2>8, WorkerAdvances
<1>4. CASE DropFoo(w)
  <2>1. At(w, "~foos")
    BY <1>4 DEF DropFoo
  <2> DEFINE k == IF foos[w] = 0 THEN 0 ELSE foos[w] - 1
             i == IF foos[w] <= 1 THEN pc[w] + 1 ELSE pc[w]
  <2>2. /\ k \in Nat /\ i \in Nat
        /\ k > 0 => i = pc[w]
        /\ i \in {pc[w], pc[w] + 1}
    BY <1>1
  <2>3. foos' = [foos EXCEPT ![w] = k]
    BY <1>1, <1>4 DEF DropFoo, InPlace, Typed
  <2>4. pc' = [pc EXCEPT ![w] = i]
    <3>1. pc = [pc EXCEPT ![w] = pc[w]]
      BY <1>1 DEF InPlace, Typed
    <3>2. IF foos[w] <= 1 THEN pc' = [pc EXCEPT ![w] = pc[w] + 1] ELSE pc' = pc
      BY <1>4 DEF DropFoo, DoneIf, Done, Goto, control
    <3> QED
      BY <3>1, <3>2
  <2> HIDE DEF k, i
  <2>5. pc'[w] = i /\ foos'[w] = k
    BY <1>1, <2>3, <2>4 DEF InPlace, Typed
  <2>6. \/ code[w] = Context /\ pc[w] = 7
        \/ code[w] = WorkerUnwinds /\ pc[w] = 1
    BY <2>1, WorkerAt, ShapeOfContext, ShapeOfUnwinding
  <2>7. future[w] = "running"
    BY <2>1, WorkerAt
  <2>8. WorkerOK(w)'
    <3>1. CASE code[w] = Context /\ pc[w] = 7
      <4>1. i \in 1..10 /\ (k > 0 => i \in 3..7)
        BY <2>2, <3>1
      <4> QED
        BY <1>2, <2>5, <2>7, <3>1, <4>1 DEF WorkerOK
    <3>2. CASE code[w] = WorkerUnwinds /\ pc[w] = 1
      <4>1. i \in 1..2 /\ (k > 0 => i = 1)
        BY <2>2, <3>2
      <4> QED
        BY <1>2, <2>5, <2>7, <3>2, <4>1 DEF WorkerOK
    <3> QED
      BY <2>6, <3>1, <3>2
  <2> QED
    BY <1>2, <2>1, <2>2, <2>3, <2>4, <2>8, WorkerAdvances
<1> QED
  BY <1>3, <1>4

\* A worker leaves its loop after an exception, or its script with a result.
LEMMA WorkerLeaves ==
  ASSUME InPlace, NEW w \in Workers, Throw(w) \/ Finish(w)
  PROVE  InPlace'
<1>1. w \in Threads /\ foos[w] \in Nat
  BY ThreadSets DEF InPlace, Typed
<1>2. UNCHANGED <<method, subjects, foos, crew>>
  BY DEF Throw, Finish, scope
<1>3. future[w] = "running"
  BY WorkerAt DEF Throw, Finish
<1>4. CASE Throw(w)
  <2>1. future' = future /\ Run(w, WorkerUnwinds)
    BY <1>4, ShapeOfUnwinding DEF Throw
  <2>2. WorkerUnwinds \in Codes
    BY DEF Codes
  <2>3. code' \in [Threads -> Codes] /\ pc' \in [Threads -> Nat]
    BY <2>1, <2>2 DEF Run, InPlace, Typed
  <2>4. Typed'
    BY <1>2, <2>1, <2>3 DEF InPlace, Typed
  <2>5. \A t \in Threads : t # w => code'[t] = code[t] /\ pc'[t] = pc[t] /\ foos'[t] = foos[t]
    BY <1>2, <2>1 DEF Run, InPlace, Typed
  <2>6. code'[w] = WorkerUnwinds /\ pc'[w] = 1
    BY <1>1, <2>1 DEF Run, InPlace, Typed
  <2>7. WorkerOK(w)'
    BY <1>3, <2>1, <2>6 DEF WorkerOK
  <2> QED
    BY <1>2, <1>3, <2>1, <2>4, <2>5, <2>7, WorkerMoves
<1>5. CASE Finish(w)
  <2>1. foos[w] = 0
    <3>1. PICK op \in {"finish", "fail"} : At(w, op)
      BY <1>5 DEF Finish
    <3>2. \/ code[w] = Context /\ pc[w] = 10
          \/ code[w] = WorkerUnwinds /\ pc[w] = 2
      BY <3>1, WorkerAt, ShapeOfContext, ShapeOfUnwinding
    <3> QED
      BY <1>1, <1>3, <3>2, ShapeOfContext, ShapeOfUnwinding DEF InPlace, WorkerOK
  <2>2. Run(w, <<>>) /\ \E e \in {"value", "error"} : future' = [future EXCEPT ![w] = e]
    BY <1>5 DEF Finish
  <2>3. <<>> \in Codes
    BY DEF Codes
  <2>4. code' \in [Threads -> Codes] /\ pc' \in [Threads -> Nat]
    BY <2>2, <2>3 DEF Run, InPlace, Typed
  <2>5. future' \in [Workers -> Held]
    BY <2>2 DEF InPlace, Typed, Held
  <2>6. Typed'
    BY <1>2, <2>4, <2>5 DEF InPlace, Typed
  <2>7. \A t \in Threads : t # w => code'[t] = code[t] /\ pc'[t] = pc[t] /\ foos'[t] = foos[t]
    BY <1>2, <2>2 DEF Run, InPlace, Typed
  <2>8. code'[w] = <<>> /\ pc'[w] = 1
    BY <1>1, <2>2 DEF Run, InPlace, Typed
  <2>9. future'[w] \in {"value", "error"} /\ \A v \in Workers : v # w => future'[v] = future[v]
    BY <2>2 DEF InPlace, Typed
  <2>10. WorkerOK(w)'
    BY <1>2, <2>1, <2>8, <2>9 DEF WorkerOK
  <2> QED
    BY <1>2, <1>3, <2>6, <2>7, <2>9, <2>10, WorkerMoves
<1> QED
  BY <1>4, <1>5

\* Every step of a worker.
LEMMA WorkerSteps ==
  ASSUME InPlace, NEW w \in Workers, Step(w)
  PROVE  InPlace'
<1>1. w # Main
  BY ThreadSets
<1>2. CASE Loop(w) \/ Increment(w)
  BY <1>2, WorkerJumps
<1>3. CASE Reset(w)
  BY <1>3, WorkerQuiet DEF Reset, Done, Goto, scope
<1>4. CASE Count(w)
  BY <1>4, WorkerQuiet DEF Count, Done, Goto, scope
<1>5. CASE NewSubject(w) \/ DropSubject(w)
  BY <1>5, WorkerAt, ShapeOfContext, ShapeOfUnwinding DEF NewSubject, DropSubject
<1>6. CASE NewFoo(w) \/ DropFoo(w)
  BY <1>6, WorkerFoos
<1>7. CASE Connect(w)
  BY <1>7, WorkerQuiet DEF Connect, DoneIf, Done, Goto, control
<1>8. CASE Emit(w)
  BY <1>8, WorkerQuiet DEF Emit, Done, Goto, scope
<1>9. CASE Draw(w)
  BY <1>9, WorkerQuiet DEF Draw, Done, Goto, scope
<1>10. CASE Throw(w) \/ Finish(w)
  BY <1>10, WorkerLeaves
<1>11. CASE Copy(w)
  BY <1>11, WorkerQuiet DEF Copy, Done, Goto, scope
<1> QED
  BY <1>1, <1>2, <1>3, <1>4, <1>5, <1>6, <1>7, <1>8, <1>9, <1>10, <1>11 DEF Step

-------------------------------------------------------------------------------
(* The invariant holds *)

\* The next method starts from nothing.
LEMMA CallSteps ==
  ASSUME InPlace, NEW m \in Methods, Call(m)
  PROVE  InPlace'
<1>1. Running = {} /\ subjects = 0 /\ \A t \in Threads : foos[t] = 0
  BY InPlaceSuffices DEF Call, LeavesNothing
<1>2. UNCHANGED <<subjects, foos, crew>> /\ method' = m /\ Run(Main, Scripts[m])
  BY DEF Call, scope
<1>3. future' = [w \in Workers |-> "none"]
  BY DEF Call
<1>4. code'[Main] = Scripts[m] /\ pc'[Main] = 1
  BY <1>2, ThreadSets DEF Run, InPlace, Typed
<1>5. \A w \in Workers : code'[w] = code[w] /\ pc'[w] = pc[w]
  BY <1>2, ThreadSets DEF Run, InPlace, Typed
<1>6. Scripts[m] \in Codes
  BY DEF Codes
<1>7. code' \in [Threads -> Codes] /\ pc' \in [Threads -> Nat]
  BY <1>2, <1>6 DEF Run, InPlace, Typed
<1>8. Typed'
  BY <1>2, <1>3, <1>7 DEF InPlace, Typed, Held
<1>9. Started' = {} /\ Running' = {}
  BY <1>3 DEF Started, Running
<1>10. InOrder'
  <2>1. 0 \in 0..crew' /\ 1..0 = {}
    BY <1>2, SizesAssumption DEF InPlace, Typed
  <2> QED
    BY <1>9, <2>1 DEF InOrder
<1>11. \A w \in Workers : WorkerOK(w)'
  <2> SUFFICES ASSUME NEW w \in Workers PROVE WorkerOK(w)'
    OBVIOUS
  <2>1. future[w] # "running" /\ foos[w] = 0
    BY <1>1, ThreadSets DEF Running
  <2>2. code[w] = <<>> /\ pc[w] = 1
    BY <2>1 DEF InPlace, WorkerOK
  <2> QED
    BY <1>2, <1>3, <1>5, <2>1, <2>2 DEF WorkerOK
<1>12. InMethod'
  <2>1. Shaped(Scripts[m], FoosSpan[m], SubjectSpan[m])
    BY Shapes
  <2>2. 1 \notin SubjectSpan[m] /\ Len(Scripts[m]) \in Nat
    BY <2>1 DEF Shaped, SubjectShape
  <2>3. 1 \in 1..(Len(Scripts[m]) + 1)
    BY <2>2
  <2> QED
    BY <1>1, <1>2, <1>4, <1>9, <2>2, <2>3, ThreadSets DEF InMethod
<1> QED
  BY <1>8, <1>10, <1>11, <1>12 DEF InPlace

LEMMA CallStubSteps ==
  ASSUME InPlace, CallStub
  PROVE  InPlace'
<1>1. Running = {} /\ subjects = 0 /\ foos[Main] = 0
  BY InPlaceSuffices, ThreadSets DEF CallStub, LeavesNothing
<1>2. UNCHANGED <<subjects, foos, crew, future>> /\ Run(Main, <<>>)
  BY DEF CallStub, scope
<1>3. code'[Main] = <<>> /\ pc'[Main] = 1
  BY <1>2, ThreadSets DEF Run, InPlace, Typed
<1>4. \A w \in Workers : code'[w] = code[w] /\ pc'[w] = pc[w]
  BY <1>2, ThreadSets DEF Run, InPlace, Typed
<1>5. <<>> \in Codes
  BY DEF Codes
<1>6. code' \in [Threads -> Codes] /\ pc' \in [Threads -> Nat]
  BY <1>2, <1>5 DEF Run, InPlace, Typed
<1>7. Typed'
  BY <1>2, <1>6 DEF InPlace, Typed
<1>8. NoScript'
  BY <1>1, <1>2, <1>3 DEF NoScript, Running
<1> QED
  BY <1>2, <1>4, <1>7, <1>8, MainMoves

LEMMA InitInPlace == Init => InPlace
<1> SUFFICES ASSUME Init PROVE InPlace
  OBVIOUS
<1>1. <<>> \in Codes
  BY DEF Codes
<1>2. Typed
  BY <1>1 DEF Init, Typed, Held
<1>3. Started = {} /\ Running = {}
  BY DEF Init, Started, Running
<1>4. InOrder
  <2>1. 0 \in 0..crew /\ 1..0 = {}
    BY SizesAssumption DEF Init
  <2> QED
    BY <1>3, <2>1 DEF InOrder
<1>5. \A w \in Workers : WorkerOK(w)
  BY ThreadSets DEF Init, WorkerOK
<1>6. NoScript
  BY <1>3, ThreadSets DEF Init, NoScript
<1> QED
  BY <1>2, <1>4, <1>5, <1>6 DEF InPlace

LEMMA NextInPlace == InPlace /\ [Next]_vars => InPlace'
<1> SUFFICES ASSUME InPlace, [Next]_vars PROVE InPlace'
  OBVIOUS
<1>1. CASE \E m \in Methods : Call(m)
  BY <1>1, CallSteps
<1>2. CASE CallStub
  BY <1>2, CallStubSteps
<1>3. CASE Step(Main)
  BY <1>3, MainSteps
<1>4. CASE \E w \in Workers : Step(w)
  BY <1>4, WorkerSteps
<1>5. CASE UNCHANGED vars
  <2>1. UNCHANGED <<method, code, pc, subjects, foos, crew, future>>
    BY <1>5 DEF vars, control, scope
  <2>2. UNCHANGED <<Typed, InOrder>>
    BY <2>1 DEF Typed, InOrder, Started
  <2>3. \A w \in Workers : WorkerOK(w)'
    BY <2>1 DEF InPlace, WorkerOK
  <2>4. UNCHANGED <<NoScript, InMethod, InUnwinding>>
    BY <2>1 DEF NoScript, InMethod, InUnwinding, Running, At
  <2> QED
    BY <2>2, <2>3, <2>4 DEF InPlace
<1> QED
  BY <1>1, <1>2, <1>3, <1>4, <1>5, ThreadSets DEF Next

\* "Must make sure Subject lives longer than Foo": in no method and on no path
\* of an exception of any thread is a Foo alive, or a worker running, without
\* the Subject.
THEOREM FoosInsideSubject == Spec => []SubjectOutlivesFoos
  BY InitInPlace, NextInPlace, InPlaceSuffices, PTL DEF Spec

\* However a method is left, none of its workers still runs when it has
\* returned, and no Subject and no Foo of it is left.
THEOREM NothingLeft == Spec => []LeavesNothing
  BY InitInPlace, NextInPlace, InPlaceSuffices, PTL DEF Spec

\* The static generator is not thread safe: while the main thread draws from
\* it no worker copies it.
THEOREM GeneratorNotShared == Spec => []NoSharedDraws
<1>1. InPlace => NoSharedDraws
  <2> SUFFICES ASSUME InPlace, NEW t \in Threads, NEW u \in Threads, t # u, At(t, "draw"),
                      UsesStatic(t)
               PROVE  ~At(u, "copy") /\ ~(At(u, "draw") /\ UsesStatic(u))
    BY DEF NoSharedDraws
  <2>1. t = Main /\ u \in Workers /\ ~UsesStatic(u)
    BY ThreadSets DEF UsesStatic
  <2>2. InMethod
    BY <2>1, NothingToDo, UnwindingOps DEF InPlace
  <2>3. Running = {}
    BY <2>1, <2>2 DEF InMethod, At
  <2> QED
    BY <2>1, <2>3, WorkerAt DEF Running
<1> QED
  BY <1>1, InitInPlace, NextInPlace, PTL DEF Spec

-------------------------------------------------------------------------------
(* Samples and the counter of the loop *)

\* The main thread is in a method of its own that takes samples.
Sampling == method \in Sampled /\ code[Main] = Scripts[method]

\* The counter is one ahead of the samples, except between the end of a sample
\* and the increment of the loop; time passes only in samples, and the loop
\* ends with at least one.
Paced ==
  /\ samples \in [Threads -> Nat]
  /\ count \in [Threads -> Nat]
  /\ elapsed \in [Threads -> Nat]
  /\ Sampling =>
       /\ pc[Main] \in AfterSpan[method] => count[Main] = samples[Main]
       /\ pc[Main] \notin AfterSpan[method] => count[Main] = samples[Main] + 1
       /\ samples[Main] = 0 => elapsed[Main] = 0
       /\ pc[Main] > Where(code[Main], "next") => samples[Main] # 0

\* Steps that take no sample and do not go round.
LEMMA KeepsPace ==
  ASSUME InPlace, Paced, method' = method,
         samples' \in [Threads -> Nat], samples'[Main] = samples[Main],
         count' \in [Threads -> Nat], count'[Main] = count[Main],
         elapsed' \in [Threads -> Nat], elapsed'[Main] = elapsed[Main],
         \/ code'[Main] = code[Main] /\ pc'[Main] = pc[Main]
         \/ /\ code'[Main] = code[Main] /\ pc'[Main] = pc[Main] + 1
            /\ \E op : At(Main, op) /\ op \notin {"count", "next"}
         \/ code'[Main] = MainUnwinds
  PROVE  Paced'
<1> DEFINE A == AfterSpan[method]
           last == Where(code[Main], "next")
<1>2. CASE code'[Main] = code[Main] /\ pc'[Main] = pc[Main]
  BY <1>2 DEF Paced, Sampling
<1>3. CASE /\ code'[Main] = code[Main] /\ pc'[Main] = pc[Main] + 1
           /\ \E op : At(Main, op) /\ op \notin {"count", "next"}
  <2>1. SUFFICES ASSUME Sampling PROVE Paced'
    BY <1>3 DEF Paced, Sampling
  <2>2. PaceShape(Scripts[method], A) /\ Shaped(Scripts[method], FoosSpan[method], SubjectSpan[method])
    BY <2>1, PaceShapes, Shapes DEF Sampling
  <2>3. pc[Main] \in DOMAIN code[Main] /\ code[Main][pc[Main]] \notin {"count", "next"}
    <3>1. pc[Main] \in Nat \ {0}
      BY <2>1, <2>2, ShapeOfUnwinding, ThreadSets DEF InPlace, Typed, NoScript, InMethod, InUnwinding
    <3> QED
      BY <1>3, <2>1, <2>2, <3>1 DEF At, Sampling, Shaped
  <2>4. pc[Main] \in A <=> pc[Main] + 1 \in A
    BY <2>1, <2>2, <2>3 DEF PaceShape, Sampling
  <2>5. pc[Main] + 1 > last => pc[Main] > last
    <3>1. last \in DOMAIN code[Main] /\ code[Main][last] = "next"
      BY <2>1, <2>2 DEF PaceShape, Sampling
    <3> QED
      BY <2>1, <2>2, <2>3, <3>1 DEF Sampling, Shaped
  <2> HIDE DEF A, last
  <2>6. Sampling' /\ method' = method /\ code'[Main] = code[Main]
    BY <1>3, <2>1 DEF Sampling
  <2> QED
    BY <1>3, <2>1, <2>4, <2>5, <2>6 DEF Paced, A, last
<1>4. CASE code'[Main] = MainUnwinds
  <2>1. ~Sampling'
    <3> SUFFICES ASSUME method \in Sampled, Scripts[method] = MainUnwinds PROVE FALSE
      BY <1>4 DEF Sampling
    <3>1. PaceShape(MainUnwinds, A)
      BY PaceShapes
    <3>2. 1 \in DOMAIN MainUnwinds
      BY DEF MainUnwinds
    <3> QED
      BY <3>1, <3>2, ShapeOfUnwinding DEF PaceShape
  <2> QED
    BY <2>1 DEF Paced
<1> QED
  BY <1>2, <1>3, <1>4

\* What a step of the main thread inside a method that takes samples is about.
LEMMA SamplingAt ==
  ASSUME InPlace, Sampling, NEW op, At(Main, op)
  PROVE  /\ PaceShape(code[Main], AfterSpan[method])
         /\ Len(code[Main]) \in Nat /\ DOMAIN code[Main] = 1..Len(code[Main])
         /\ pc[Main] \in DOMAIN code[Main] /\ code[Main][pc[Main]] = op
<1>1. PaceShape(Scripts[method], AfterSpan[method]) /\ Shaped(Scripts[method], FoosSpan[method], SubjectSpan[method])
  BY PaceShapes, Shapes DEF Sampling
<1>2. pc[Main] \in Nat \ {0}
  BY <1>1, ShapeOfUnwinding, ThreadSets DEF InPlace, Typed, NoScript, InMethod, InUnwinding
<1> QED
  BY <1>1, <1>2 DEF At, Sampling, Shaped

\* The end of a sample.
LEMMA CountKeepsPace ==
  ASSUME InPlace, Paced, Count(Main)
  PROVE  Paced'
<1>1. Main \in Threads /\ Ticks \subseteq Nat
  BY ThreadSets, TicksAssumption
<1>2. PICK tick \in Ticks : elapsed' = [elapsed EXCEPT ![Main] = @ + tick]
  BY DEF Count
<1>3. samples' = [samples EXCEPT ![Main] = @ + 1] /\ count' = count
  BY DEF Count
<1>4. UNCHANGED <<method, code>> /\ pc' = [pc EXCEPT ![Main] = pc[Main] + 1] /\ At(Main, "count")
  BY DEF Count, Done, Goto
<1>5. samples' \in [Threads -> Nat] /\ count' \in [Threads -> Nat] /\ elapsed' \in [Threads -> Nat]
  <2>1. elapsed[Main] + tick \in Nat /\ samples[Main] + 1 \in Nat
    BY <1>1 DEF Paced
  <2> QED
    BY <1>1, <1>2, <1>3, <2>1 DEF Paced
<1>6. samples'[Main] = samples[Main] + 1 /\ samples[Main] \in Nat /\ pc'[Main] = pc[Main] + 1
  BY <1>1, <1>3, <1>4 DEF Paced, InPlace, Typed
<1>7. SUFFICES ASSUME Sampling
               PROVE  /\ pc'[Main] \in AfterSpan[method] => count[Main] = samples'[Main]
                      /\ pc'[Main] \in AfterSpan[method]
                      /\ samples'[Main] # 0
  BY <1>3, <1>4, <1>5 DEF Paced, Sampling
<1>8. pc[Main] \notin AfterSpan[method] /\ pc[Main] + 1 \in AfterSpan[method]
  BY <1>4, <1>7, SamplingAt DEF PaceShape
<1> QED
  BY <1>6, <1>7, <1>8 DEF Paced

\* The loop goes on, or ends with a sample or more.
LEMMA LoopKeepsPace ==
  ASSUME InPlace, Paced, Loop(Main)
  PROVE  Paced'
<1>1. UNCHANGED <<method, code, count, samples, elapsed>> /\ At(Main, "loop")
  BY DEF Loop, loop, Done, Goto
<1>2. SUFFICES ASSUME Sampling PROVE Paced'
  BY <1>1 DEF Paced, Sampling
<1> DEFINE c == code[Main]
           A == AfterSpan[method]
           last == Where(c, "next")
<1>3. PaceShape(c, A) /\ pc[Main] \in DOMAIN c /\ c[pc[Main]] = "loop" /\ Len(c) \in Nat /\ DOMAIN c = 1..Len(c)
  BY <1>1, <1>2, SamplingAt
<1>4. CASE Continues(Main)
  <2>1. code'[Main] = code[Main] /\ pc'[Main] = pc[Main] + 1
    BY <1>1, <1>4, ThreadSets DEF Loop, Done, Goto, InPlace, Typed
  <2> QED
    BY <1>1, <2>1, KeepsPace DEF Paced
<1>5. CASE ~Continues(Main)
  <2>1. pc'[Main] = last + 1
    BY <1>5, ThreadSets DEF Loop, Goto, InPlace, Typed
  <2>2. pc[Main] \notin A /\ last \in Nat /\ last + 1 \notin A
    BY <1>3 DEF PaceShape
  <2>3. ~(elapsed[Main] < Limit)
    <3>1. method # "validation"
      BY <1>2 DEF Sampling, Sampled, AfterSpan
    <3> QED
      BY <1>5, <3>1 DEF Continues
  <2>4. samples[Main] # 0
    BY <1>2, <2>3, SizesAssumption DEF Paced
  <2>5. count[Main] = samples[Main] + 1
    BY <1>2, <2>2 DEF Paced
  <2> QED
    BY <1>1, <1>2, <2>1, <2>2, <2>4, <2>5 DEF Paced, Sampling
<1> QED
  BY <1>4, <1>5

\* The increment of the loop.
LEMMA IncrementKeepsPace ==
  ASSUME InPlace, Paced, Increment(Main)
  PROVE  Paced'
<1>1. UNCHANGED <<method, code, samples, elapsed>> /\ At(Main, "next")
  BY DEF Increment, Goto
<1>2. count' = [count EXCEPT ![Main] = @ + 1]
  BY DEF Increment
<1>3. Main \in Threads /\ count' \in [Threads -> Nat] /\ count'[Main] = count[Main] + 1
  BY <1>2, ThreadSets DEF Paced
<1>4. SUFFICES ASSUME Sampling PROVE Paced'
  BY <1>1, <1>3 DEF Paced, Sampling
<1> DEFINE c == code[Main]
           A == AfterSpan[method]
           last == Where(c, "next")
           first == Where(c, "loop")
<1>5. PaceShape(c, A) /\ pc[Main] \in DOMAIN c /\ c[pc[Main]] = "next" /\ Len(c) \in Nat /\ DOMAIN c = 1..Len(c)
  BY <1>1, <1>4, SamplingAt
<1>6. pc'[Main] = first
  BY <1>3 DEF Increment, Goto, InPlace, Typed
<1>7. pc[Main] \in A /\ first \notin A /\ ~(first > last)
  BY <1>5 DEF PaceShape
<1>8. count'[Main] = samples[Main] + 1
  BY <1>3, <1>4, <1>7 DEF Paced
<1> QED
  BY <1>1, <1>3, <1>4, <1>6, <1>7, <1>8 DEF Paced, Sampling

LEMMA InitPaced == Init => Paced
  BY ThreadSets DEF Init, Paced, Sampling, Sampled, AfterSpan

\* A method starts with the counter at one.
LEMMA CallPaced ==
  ASSUME InPlace, NEW m \in Methods, Call(m)
  PROVE  Paced'
<1>1. /\ count' = [t \in Threads |-> 1] /\ elapsed' = [t \in Threads |-> 0]
      /\ samples' = [t \in Threads |-> 0] /\ method' = m
  BY DEF Call
<1>2. code'[Main] = Scripts[m] /\ pc'[Main] = 1
  BY ThreadSets DEF Call, Run, InPlace, Typed
<1>3. ASSUME m \in Sampled
      PROVE  1 \notin AfterSpan[m] /\ ~(1 > Where(Scripts[m], "next"))
  <2>1. PaceShape(Scripts[m], AfterSpan[m]) /\ Shaped(Scripts[m], FoosSpan[m], SubjectSpan[m])
    BY <1>3, PaceShapes, Shapes
  <2> QED
    BY <2>1 DEF PaceShape, Shaped
<1> QED
  BY <1>1, <1>2, <1>3, ThreadSets DEF Paced, Sampling

\* Every step of the main thread keeps the pace.
LEMMA MainPaced ==
  ASSUME InPlace, Paced, Step(Main)
  PROVE  Paced'
<1>1. CASE Loop(Main) \/ Increment(Main) \/ Count(Main)
  BY <1>1, LoopKeepsPace, IncrementKeepsPace, CountKeepsPace
<1>2. ASSUME NEW op, At(Main, op), op \notin {"count", "next"}, UNCHANGED <<method, code, loop>>,
             pc' = pc \/ pc' = [pc EXCEPT ![Main] = pc[Main] + 1]
      PROVE  Paced'
  <2>1. pc'[Main] \in {pc[Main], pc[Main] + 1}
    BY <1>2, ThreadSets DEF InPlace, Typed
  <2> QED
    BY <1>2, <2>1, KeepsPace DEF Paced, loop
<1>3. CASE Reset(Main)
  BY <1>2, <1>3 DEF Reset, Done, Goto
<1>4. CASE NewSubject(Main)
  BY <1>2, <1>4 DEF NewSubject, DoneIf, Done, Goto, control
<1>5. CASE DropSubject(Main)
  BY <1>2, <1>5 DEF DropSubject, DoneIf, Done, Goto, control
<1>6. CASE NewFoo(Main)
  BY <1>2, <1>6 DEF NewFoo, DoneIf, Done, Goto, control
<1>7. CASE DropFoo(Main)
  BY <1>2, <1>7 DEF DropFoo, DoneIf, Done, Goto, control
<1>8. CASE Connect(Main)
  BY <1>2, <1>8 DEF Connect, DoneIf, Done, Goto, control
<1>9. CASE Emit(Main)
  BY <1>2, <1>9 DEF Emit, Done, Goto
<1>10. CASE Draw(Main)
  BY <1>2, <1>10 DEF Draw, Done, Goto
<1>11. CASE Join
  BY <1>2, <1>11 DEF Join, Done, Goto
<1>12. CASE Return
  BY <1>2, <1>12 DEF Return, Done, Goto
<1>13. CASE Verdict
  BY <1>2, <1>13 DEF Verdict, Done, Goto
<1>14. CASE Escape
  BY <1>2, <1>14 DEF Escape, Done, Goto
<1>15. CASE Throw(Main)
  <2>1. UNCHANGED <<method, loop>> /\ code'[Main] = MainUnwinds
    BY <1>15, ShapeOfUnwinding, ThreadSets DEF Throw, Run, InPlace, Typed
  <2> QED
    BY <2>1, KeepsPace DEF Paced, loop
<1>16. CASE Spawn \/ Get
  <2>1. UNCHANGED <<method, loop>> /\ (At(Main, "spawn") \/ At(Main, "get"))
    BY <1>16 DEF Spawn, Get
  <2>2. ~Sampling
    BY <2>1, SamplingAt DEF PaceShape
  <2>3. code'[Main] \in {code[Main], MainUnwinds}
    <3>1. CASE Spawn
      <4>1. Cardinality(Started) + 1 # Main
        BY StartedInOrder, SizesAssumption DEF Main, InPlace, Typed
      <4> QED
        BY <3>1, <4>1, ThreadSets DEF Spawn, Run, Done, Goto, InPlace, Typed
    <3>2. CASE Get
      BY <3>2, ThreadSets, ShapeOfUnwinding DEF Get, Run, Done, Goto, control, InPlace, Typed
    <3> QED
      BY <1>16, <3>1, <3>2
  <2>4. CASE code'[Main] = MainUnwinds
    BY <2>1, <2>4, KeepsPace DEF Paced, loop
  <2>5. CASE code'[Main] = code[Main]
    BY <2>1, <2>2, <2>5 DEF Paced, Sampling, loop
  <2> QED
    BY <2>3, <2>4, <2>5
<1> QED
  BY <1>1, <1>3, <1>4, <1>5, <1>6, <1>7, <1>8, <1>9, <1>10, <1>11, <1>12, <1>13, <1>14, <1>15,
     <1>16 DEF Step

\* The workers count in variables of their own.
LEMMA WorkerPaced ==
  ASSUME InPlace, Paced, NEW w \in Workers, Step(w)
  PROVE  Paced'
<1>1. w \in Threads /\ w # Main /\ Main \in Threads
  BY ThreadSets
<1>2. method' = method
  BY <1>1 DEF Step, Loop, Increment, Reset, Count, NewSubject, DropSubject, NewFoo, DropFoo, Connect,
     Emit, Draw, Throw, Copy, Finish
<1>3. \/ control' = control
      \/ code' = code /\ \E i : pc' = [pc EXCEPT ![w] = i]
      \/ \E script : Run(w, script)
  BY <1>1 DEF Step, Loop, Increment, Reset, Count, NewSubject, DropSubject, NewFoo, DropFoo, Connect,
     Emit, Draw, Throw, Copy, Finish, DoneIf, Done, Goto
<1>4. pc'[Main] = pc[Main] /\ code'[Main] = code[Main]
  BY <1>1, <1>3 DEF control, Run, InPlace, Typed
<1>5. /\ samples' \in [Threads -> Nat] /\ samples'[Main] = samples[Main]
      /\ count' \in [Threads -> Nat] /\ count'[Main] = count[Main]
      /\ elapsed' \in [Threads -> Nat] /\ elapsed'[Main] = elapsed[Main]
  <2>1. CASE Count(w)
    <3>1. PICK tick \in Ticks : elapsed' = [elapsed EXCEPT ![w] = @ + tick]
      BY <2>1 DEF Count
    <3>2. samples' = [samples EXCEPT ![w] = @ + 1] /\ count' = count
      BY <2>1 DEF Count
    <3>3. elapsed[w] + tick \in Nat /\ samples[w] + 1 \in Nat
      BY <1>1, TicksAssumption DEF Paced
    <3> QED
      BY <1>1, <3>1, <3>2, <3>3 DEF Paced
  <2>2. CASE Increment(w)
    <3>1. count' = [count EXCEPT ![w] = @ + 1] /\ samples' = samples /\ elapsed' = elapsed
      BY <2>2 DEF Increment
    <3> QED
      BY <1>1, <3>1 DEF Paced
  <2>3. CASE UNCHANGED loop
    BY <2>3 DEF loop, Paced
  <2>4. UNCHANGED loop \/ Count(w) \/ Increment(w)
    BY <1>1 DEF Step, Loop, Reset, NewSubject, DropSubject, NewFoo, DropFoo, Connect, Emit, Draw,
       Throw, Copy, Finish
  <2> QED
    BY <2>1, <2>2, <2>3, <2>4
<1> QED
  BY <1>2, <1>4, <1>5, KeepsPace

LEMMA NextPaced == InPlace /\ Paced /\ [Next]_vars => Paced'
<1> SUFFICES ASSUME InPlace, Paced, [Next]_vars PROVE Paced'
  OBVIOUS
<1>1. CASE \E m \in Methods : Call(m)
  BY <1>1, CallPaced
<1>2. CASE CallStub
  <2>1. method' = "threaded" /\ "threaded" \notin Sampled
    BY <1>2 DEF CallStub, Sampled, AfterSpan
  <2> QED
    BY <1>2, <2>1 DEF CallStub, loop, Paced, Sampling
<1>3. CASE Step(Main)
  BY <1>3, MainPaced
<1>4. CASE \E w \in Workers : Step(w)
  BY <1>4, WorkerPaced
<1>5. CASE UNCHANGED vars
  BY <1>5 DEF vars, control, loop, Paced, Sampling
<1> QED
  BY <1>1, <1>2, <1>3, <1>4, <1>5, ThreadSets DEF Next

\* A quotient by one more than the samples is off by less than a factor of
\* two, and by what the division of integers cuts off.
LEMMA OffByOne ==
  ASSUME NEW e \in Nat, NEW s \in Nat \ {0}
  PROVE  /\ (e \div (s + 1)) * s <= e /\ e < 2 * s * ((e \div (s + 1)) + 1)
         /\ e \div (s + 1) = 0 <=> e <= s
<1> DEFINE q == e \div (s + 1)
<1>1. q \in Nat /\ (s + 1) * q <= e /\ e < (s + 1) * (q + 1)
  OBVIOUS
<1> HIDE DEF q
<1>2. (s + 1) * q = q * s + q
  BY <1>1
<1>3. (s + 1) * (q + 1) <= 2 * s * (q + 1)
  BY <1>1
<1>4. q * s <= e /\ e < 2 * s * (q + 1)
  BY <1>1, <1>2, <1>3
<1>5. q = 0 <=> e <= s
  <2>1. CASE q = 0
    BY <1>1, <2>1
  <2>2. CASE q # 0
    <3>1. q * s >= 0 /\ q * s >= s
      BY <1>1, <2>2
    <3> QED
      BY <1>1, <1>2, <2>2, <3>1
  <2> QED
    BY <2>1, <2>2
<1> QED
  BY <1>4, <1>5 DEF q

\* The score of a method of one thread divides by the counter of the loop, one
\* too many: the sample it is of is no longer than the mean of the samples and
\* longer than half of it less one tick, and 0 exactly when the mean is at most
\* one tick.
THEOREM ScoreOfSamples == Spec => []ScoreWithinTwofold
<1>1. InPlace /\ Paced => ScoreWithinTwofold
  <2> SUFFICES ASSUME InPlace, Paced, At(Main, "return"), method # "threaded"
               PROVE  /\ PerSample(elapsed[Main], count[Main]) * samples[Main] <= elapsed[Main]
                      /\ elapsed[Main] < 2 * samples[Main] * (PerSample(elapsed[Main], count[Main]) + 1)
                      /\ PerSample(elapsed[Main], count[Main]) = 0 <=> elapsed[Main] <= samples[Main]
    BY DEF ScoreWithinTwofold
  <2>1. InMethod
    BY NothingToDo, UnwindingOps DEF InPlace
  <2>2. Sampling
    <3>1. pc[Main] \in DOMAIN Scripts[method] /\ Scripts[method][pc[Main]] = "return"
      BY <2>1, Shapes DEF InMethod, At, Shaped
    <3>2. method # "validation"
      BY <3>1, ShapeOfValidation DEF Scripts
    <3>3. method \in Sampled
      BY <2>1, <3>2 DEF InMethod, Methods, Scripts, Sampled, AfterSpan
    <3> QED
      BY <2>1, <3>3 DEF InMethod, Sampling
  <2>3. PaceShape(code[Main], AfterSpan[method]) /\ pc[Main] \in DOMAIN code[Main] /\ code[Main][pc[Main]] = "return"
    BY <2>2, SamplingAt
  <2>4. pc[Main] \notin AfterSpan[method] /\ pc[Main] > Where(code[Main], "next")
    BY <2>3 DEF PaceShape
  <2>5. samples[Main] # 0 /\ count[Main] = samples[Main] + 1 /\ samples[Main] \in Nat /\ elapsed[Main] \in Nat
    BY <2>2, <2>4, ThreadSets DEF Paced
  <2> QED
    BY <2>5, OffByOne DEF PerSample
<1> QED
  BY <1>1, InitInPlace, NextInPlace, InitPaced, NextPaced, PTL DEF Spec

-------------------------------------------------------------------------------
(* The results of the workers *)

Numbers == {"number", "inf", "nan"}

\* `threaded` leaves its loop over the futures only with every result, unless
\* by an exception, and has no score before.
Collected ==
  method = "threaded" =>
    /\ code[Main] # Threaded => outcome \notin Numbers
    /\ code[Main] = Threaded =>
         /\ pc[Main] <= 6 => outcome \notin Numbers
         /\ \A w \in Workers : future[w] # "lost"
         /\ pc[Main] > 2 => Started = 1..crew
         /\ pc[Main] > 3 => \A w \in Started : future[w] = "taken"
         /\ outcome = "nan" => crew = 0

LEMMA CollectedSuffices == InPlace /\ Collected => EveryWorkerCounts
<1> SUFFICES ASSUME InPlace, Collected, method = "threaded", outcome \in Numbers
             PROVE  Results = 1..crew /\ (outcome = "nan" => crew = 0)
  BY DEF EveryWorkerCounts, Numbers
<1>1. pc[Main] \in Nat
  BY ThreadSets DEF InPlace, Typed
<1>2. code[Main] = Threaded /\ ~(pc[Main] <= 6)
  BY DEF Collected
<1>3. pc[Main] > 2 /\ pc[Main] > 3
  BY <1>1, <1>2
<1>4. Results = Started /\ Started = 1..crew
  BY <1>2, <1>3 DEF Collected, Results, Started
<1> QED
  BY <1>2, <1>4 DEF Collected

LEMMA ThreadedAt ==
  /\ Len(Threaded) = 6 /\ Threaded # MainUnwinds /\ Threaded # <<>>
  /\ Threaded[1] = "subjects" /\ Threaded[2] = "spawn" /\ Threaded[3] = "get"
  /\ Threaded[4] = "join" /\ Threaded[5] = "~subjects" /\ Threaded[6] = "return"
<1>1. Len(Threaded) = 6
  BY DEF Threaded
<1>2. /\ Threaded[1] = "subjects" /\ Threaded[2] = "spawn" /\ Threaded[3] = "get"
      /\ Threaded[4] = "join" /\ Threaded[5] = "~subjects" /\ Threaded[6] = "return"
  BY DEF Threaded
<1>3. Threaded # MainUnwinds
  BY <1>1, ShapeOfUnwinding
<1>4. Threaded # <<>>
  BY <1>1
<1> QED
  BY <1>1, <1>2, <1>3, <1>4

\* What the main thread is about inside `threaded`.
LEMMA ThreadedOps ==
  ASSUME InPlace, code[Main] = Threaded, NEW op, At(Main, op)
  PROVE  \/ pc[Main] = 1 /\ op = "subjects"
         \/ pc[Main] = 2 /\ op = "spawn"
         \/ pc[Main] = 3 /\ op = "get"
         \/ pc[Main] = 4 /\ op = "join"
         \/ pc[Main] = 5 /\ op = "~subjects"
         \/ pc[Main] = 6 /\ op = "return"
<1>1. InMethod
  BY ThreadedAt DEF InPlace, NoScript, InUnwinding
<1>2. pc[Main] \in 1..6 /\ op = Threaded[pc[Main]]
  BY <1>1, ThreadedAt DEF InMethod, At
<1> QED
  BY <1>2, ThreadedAt

\* Steps of the main thread that neither start a worker, nor take a result,
\* nor return.
LEMMA KeepsCollection ==
  ASSUME InPlace, Collected, UNCHANGED <<method, code, future, crew>>,
         outcome' = outcome \/ outcome' \notin Numbers,
         NEW op, At(Main, op), op \notin {"spawn", "get", "return"},
         pc'[Main] \in {pc[Main], pc[Main] + 1} \/ op \in {"loop", "next"}
  PROVE  Collected'
<1>1. Started' = Started
  BY DEF Started
<1>2. CASE code[Main] # Threaded
  BY <1>2 DEF Collected
<1>3. CASE code[Main] = Threaded
  <2>1. pc[Main] \in {1, 4, 5} /\ pc'[Main] \in {pc[Main], pc[Main] + 1}
    BY <1>3, ThreadedOps
  <2>2. /\ pc[Main] <= 6
        /\ pc'[Main] > 2 => pc[Main] > 2
        /\ pc'[Main] > 3 => pc[Main] > 3
    BY <2>1
  <2>3. method = "threaded" => outcome' \notin Numbers
    BY <1>3, <2>2 DEF Collected
  <2>4. "nan" \in Numbers
    BY DEF Numbers
  <2> QED
    BY <1>1, <1>3, <2>2, <2>3, <2>4 DEF Collected
<1> QED
  BY <1>2, <1>3

\* An exception leaves the method without a score.
LEMMA UnwindingCollected ==
  ASSUME InPlace, Collected, method' = method, outcome' = outcome, code'[Main] = MainUnwinds,
         NEW op, At(Main, op)
  PROVE  Collected'
<1>1. method = "threaded" => outcome \notin Numbers
  <2>1. CASE code[Main] # Threaded
    BY <2>1 DEF Collected
  <2>2. CASE code[Main] = Threaded
    <3>1. pc[Main] \in 1..6
      BY <2>2, ThreadedOps
    <3> QED
      BY <2>2, <3>1 DEF Collected
  <2> QED
    BY <2>1, <2>2
<1> QED
  BY <1>1, ThreadedAt DEF Collected

LEMMA SpawnCollects ==
  ASSUME InPlace, Collected, Spawn
  PROVE  Collected'
<1>1. UNCHANGED <<method, outcome, crew>> /\ At(Main, "spawn")
  BY DEF Spawn
<1>2. PICK n \in 0..crew : Started = 1..n /\ Cardinality(Started) = n
  BY StartedInOrder
<1>3. CASE Cardinality(Started) = crew
  <2>1. UNCHANGED <<code, future>> /\ pc'[Main] = pc[Main] + 1
    BY <1>3, ThreadSets DEF Spawn, Done, Goto, InPlace, Typed
  <2>2. Started' = 1..crew
    BY <1>2, <1>3, <2>1 DEF Started
  <2>3. CASE code[Main] = Threaded
    <3>1. pc[Main] = 2 /\ pc'[Main] = 3
      BY <1>1, <2>1, <2>3, ThreadedOps
    <3> QED
      BY <1>1, <2>1, <2>2, <2>3, <3>1 DEF Collected
  <2>4. CASE code[Main] # Threaded
    BY <1>1, <2>1, <2>4 DEF Collected
  <2> QED
    BY <2>3, <2>4
<1>4. CASE Cardinality(Started) # crew
  <2> DEFINE w == Cardinality(Started) + 1
  <2>1. w # Main
    BY <1>2, SizesAssumption DEF Main, InPlace, Typed
  <2>2. future' = [future EXCEPT ![w] = "running"] /\ Run(w, Context)
    BY <1>4 DEF Spawn
  <2> HIDE DEF w
  <2>3. code'[Main] = code[Main] /\ pc'[Main] = pc[Main]
    BY <2>1, <2>2, ThreadSets DEF Run, InPlace, Typed
  <2>4. CASE code[Main] = Threaded
    <3>1. pc[Main] = 2
      BY <1>1, <2>4, ThreadedOps
    <3>2. method = "threaded" => \A v \in Workers : future'[v] # "lost"
      BY <2>2, <2>4 DEF Collected, InPlace, Typed
    <3> QED
      BY <1>1, <2>3, <2>4, <3>1, <3>2 DEF Collected
  <2>5. CASE code[Main] # Threaded
    BY <1>1, <2>3, <2>5 DEF Collected
  <2> QED
    BY <2>4, <2>5
<1> QED
  BY <1>3, <1>4

LEMMA GetCollects ==
  ASSUME InPlace, Collected, Get
  PROVE  Collected'
<1> DEFINE left == {w \in Started : future[w] \notin {"taken", "lost"}}
           w == CHOOSE w \in left : \A v \in left : w <= v
<1>1. UNCHANGED <<method, outcome, crew>> /\ At(Main, "get")
  BY DEF Get
<1>2. CASE left = {}
  <2>1. UNCHANGED <<code, future>> /\ pc'[Main] = pc[Main] + 1
    BY <1>2, ThreadSets DEF Get, Done, Goto, InPlace, Typed
  <2>2. Started' = Started
    BY <2>1 DEF Started
  <2>3. CASE code[Main] = Threaded
    <3>1. pc[Main] = 3 /\ pc'[Main] = 4
      BY <1>1, <2>1, <2>3, ThreadedOps
    <3>2. method = "threaded" => \A v \in Started : future[v] = "taken"
      BY <1>2, <2>3 DEF Collected, Started
    <3> QED
      BY <1>1, <2>1, <2>2, <2>3, <3>1, <3>2 DEF Collected
  <2>4. CASE code[Main] # Threaded
    BY <1>1, <2>1, <2>4 DEF Collected
  <2> QED
    BY <2>3, <2>4
<1>3. CASE left # {}
  <2>1. /\ future[w] \in {"value", "error"}
        /\ future' = [future EXCEPT ![w] = IF @ = "value" THEN "taken" ELSE "lost"]
        /\ IF future[w] = "error" THEN Run(Main, Unwind(Main)) ELSE UNCHANGED control
    BY <1>3 DEF Get
  <2> HIDE DEF w, left
  <2>2. CASE future[w] = "error"
    <3>1. code'[Main] = MainUnwinds
      BY <2>1, <2>2, ThreadSets, ShapeOfUnwinding DEF Run, InPlace, Typed
    <3> QED
      BY <1>1, <3>1, UnwindingCollected
  <2>3. CASE future[w] = "value"
    <3>1. UNCHANGED <<code, pc>> /\ future' = [future EXCEPT ![w] = "taken"]
      BY <2>1, <2>3 DEF control
    <3>2. \A v \in Workers : \/ future'[v] = future[v]
                             \/ future[v] = "value" /\ future'[v] = "taken"
      BY <2>3, <3>1 DEF InPlace, Typed
    <3>3. Started' = Started
      BY <3>2 DEF Started
    <3>4. CASE code[Main] = Threaded
      <4>1. pc[Main] = 3
        BY <1>1, <3>4, ThreadedOps
      <4> QED
        BY <1>1, <3>1, <3>2, <3>3, <3>4, <4>1 DEF Collected
    <3>5. CASE code[Main] # Threaded
      BY <1>1, <3>1, <3>5 DEF Collected
    <3> QED
      BY <3>4, <3>5
  <2> QED
    BY <2>1, <2>2, <2>3
<1> QED
  BY <1>2, <1>3

\* The score of `threaded` is not a number only without results.
LEMMA ReturnCollects ==
  ASSUME InPlace, Collected, Return
  PROVE  Collected'
<1>1. UNCHANGED <<method, code, future, crew>> /\ At(Main, "return") /\ outcome' = Score
  BY DEF Return, Done, Goto
<1>2. Started' = Started
  BY <1>1 DEF Started
<1>3. SUFFICES ASSUME method = "threaded" PROVE Collected'
  BY <1>1 DEF Collected
<1>4. code[Main] = Threaded
  BY <1>1, <1>3, NothingToDo, UnwindingOps DEF InPlace, InMethod, Scripts
<1>5. pc[Main] = 6 /\ pc'[Main] = 7
  <2>1. pc[Main] = 6
    BY <1>1, <1>4, ThreadedOps
  <2>2. pc'[Main] = pc[Main] + 1
    BY ThreadSets DEF Return, Done, Goto, InPlace, Typed
  <2> QED
    BY <2>1, <2>2
<1>6. Started = 1..crew /\ \A w \in Started : future[w] = "taken"
  BY <1>3, <1>4, <1>5 DEF Collected
<1>7. outcome' = "nan" => crew = 0
  <2>1. outcome' = "nan" => Results = {}
    BY <1>1, <1>3 DEF Score
  <2>2. Results = 1..crew
    BY <1>6 DEF Results, Started
  <2>3. crew \in Nat
    BY SizesAssumption DEF InPlace, Typed
  <2>4. crew # 0 => 1 \in 1..crew
    BY <2>3
  <2> QED
    BY <2>1, <2>2, <2>4
<1> QED
  BY <1>1, <1>2, <1>3, <1>4, <1>5, <1>6, <1>7 DEF Collected

LEMMA MainCollects ==
  ASSUME InPlace, Collected, Step(Main)
  PROVE  Collected'
<1>1. ASSUME NEW op, At(Main, op), op \notin {"spawn", "get", "return"},
             UNCHANGED <<method, code, future, crew>>, outcome' = outcome \/ outcome' \notin Numbers,
             pc' = pc \/ pc' = [pc EXCEPT ![Main] = pc[Main] + 1]
      PROVE  Collected'
  <2>1. pc'[Main] \in {pc[Main], pc[Main] + 1}
    BY <1>1, ThreadSets DEF InPlace, Typed
  <2> QED
    BY <1>1, <2>1, KeepsCollection
<1>2. CASE Loop(Main)
  BY <1>2, KeepsCollection DEF Loop, Done, Goto
<1>3. CASE Increment(Main)
  BY <1>3, KeepsCollection DEF Increment, Goto
<1>4. CASE Reset(Main)
  BY <1>1, <1>4 DEF Reset, Done, Goto
<1>5. CASE Count(Main)
  BY <1>1, <1>5 DEF Count, Done, Goto
<1>6. CASE NewSubject(Main)
  BY <1>1, <1>6 DEF NewSubject, DoneIf, Done, Goto, control
<1>7. CASE DropSubject(Main)
  BY <1>1, <1>7 DEF DropSubject, DoneIf, Done, Goto, control
<1>8. CASE NewFoo(Main)
  BY <1>1, <1>8 DEF NewFoo, DoneIf, Done, Goto, control
<1>9. CASE DropFoo(Main)
  BY <1>1, <1>9 DEF DropFoo, DoneIf, Done, Goto, control
<1>10. CASE Connect(Main)
  BY <1>1, <1>10 DEF Connect, DoneIf, Done, Goto, control
<1>11. CASE Emit(Main)
  BY <1>1, <1>11 DEF Emit, Done, Goto
<1>12. CASE Draw(Main)
  BY <1>1, <1>12 DEF Draw, Done, Goto
<1>13. CASE Throw(Main)
  <2>1. UNCHANGED <<method, outcome>> /\ code'[Main] = MainUnwinds
    BY <1>13, ShapeOfUnwinding, ThreadSets DEF Throw, Run, InPlace, Typed
  <2> QED
    BY <1>13, <2>1, UnwindingCollected DEF Throw
<1>14. CASE Join
  BY <1>1, <1>14 DEF Join, Done, Goto
<1>15. CASE Verdict
  <2>1. outcome' \notin Numbers
    BY <1>15 DEF Verdict, Numbers
  <2> QED
    BY <1>1, <1>15, <2>1 DEF Verdict, Done, Goto
<1>16. CASE Escape
  <2>1. outcome' \notin Numbers
    BY <1>16 DEF Escape, Numbers
  <2> QED
    BY <1>1, <1>16, <2>1 DEF Escape, Done, Goto
<1> QED
  BY <1>2, <1>3, <1>4, <1>5, <1>6, <1>7, <1>8, <1>9, <1>10, <1>11, <1>12, <1>13, <1>14, <1>15,
     <1>16, SpawnCollects, GetCollects, ReturnCollects DEF Step

\* A worker that still runs has not been collected.
LEMMA WorkerCollected ==
  ASSUME InPlace, Collected, NEW w \in Workers, Step(w)
  PROVE  Collected'
<1>1. w \in Threads /\ w # Main /\ Main \in Threads
  BY ThreadSets
<1>2. UNCHANGED <<method, outcome, crew>>
  BY <1>1 DEF Step, Loop, Increment, Reset, Count, NewSubject, DropSubject, NewFoo, DropFoo, Connect,
     Emit, Draw, Throw, Copy, Finish
<1>3. \/ control' = control
      \/ code' = code /\ \E i : pc' = [pc EXCEPT ![w] = i]
      \/ \E script : Run(w, script)
  BY <1>1 DEF Step, Loop, Increment, Reset, Count, NewSubject, DropSubject, NewFoo, DropFoo, Connect,
     Emit, Draw, Throw, Copy, Finish, DoneIf, Done, Goto
<1>4. pc'[Main] = pc[Main] /\ code'[Main] = code[Main]
  BY <1>1, <1>3 DEF control, Run, InPlace, Typed
<1>5. CASE future' = future
  BY <1>2, <1>4, <1>5 DEF Collected, Started
<1>6. CASE Finish(w)
  <2>1. future[w] = "running"
    BY <1>6, WorkerAt DEF Finish
  <2>2. \A v \in Workers : \/ future'[v] = future[v]
                           \/ v = w /\ future'[v] \in {"value", "error"}
    BY <1>6 DEF Finish, InPlace, Typed
  <2>3. Started' = Started
    BY <2>1, <2>2 DEF Started
  <2>4. method = "threaded" /\ code[Main] = Threaded => ~(pc[Main] > 3)
    BY <2>1 DEF Collected, Started
  <2> QED
    BY <1>2, <1>4, <2>2, <2>3, <2>4 DEF Collected
<1>7. future' = future \/ Finish(w)
  BY <1>1 DEF Step, Loop, Increment, Reset, Count, NewSubject, DropSubject, NewFoo, DropFoo, Connect,
     Emit, Draw, Throw, Copy
<1> QED
  BY <1>5, <1>6, <1>7

LEMMA NextCollected == InPlace /\ Collected /\ [Next]_vars => Collected'
<1> SUFFICES ASSUME InPlace, Collected, [Next]_vars PROVE Collected'
  OBVIOUS
<1>1. CASE \E m \in Methods : Call(m)
  <2>1. PICK m \in Methods : Call(m)
    BY <1>1
  <2>2. pc'[Main] = 1 /\ outcome' = "none" /\ \A w \in Workers : future'[w] = "none"
    BY <2>1, ThreadSets DEF Call, Run, InPlace, Typed
  <2>3. "none" \notin Numbers
    BY DEF Numbers
  <2> QED
    BY <2>2, <2>3 DEF Collected
<1>2. CASE CallStub
  <2>1. code'[Main] = <<>> /\ outcome' = "zero"
    BY <1>2, ThreadSets DEF CallStub, Run, InPlace, Typed
  <2> QED
    BY <2>1, ThreadedAt DEF Collected, Numbers
<1>3. CASE Step(Main)
  BY <1>3, MainCollects
<1>4. CASE \E w \in Workers : Step(w)
  BY <1>4, WorkerCollected
<1>5. CASE UNCHANGED vars
  BY <1>5 DEF vars, control, Collected, Started
<1> QED
  BY <1>1, <1>2, <1>3, <1>4, <1>5, ThreadSets DEF Next

\* The score of `threaded` is the average of all its workers, and not a number
\* only if there are none, whatever its workers and its library throw.
THEOREM NobodyAveragedAway == Spec => []EveryWorkerCounts
<1>1. Init => Collected
  BY DEF Init, Collected
<1> QED
  BY <1>1, InitInPlace, NextInPlace, NextCollected, CollectedSuffices, PTL DEF Spec

-------------------------------------------------------------------------------
(* The Subjects, the Foos and their connections, one by one *)

\* Where all the Foos of a round are alive, and where all are connected.
StockSpan ==
  [construction |-> {},   destruction |-> {},   connection |-> 4..7,
   disconnect   |-> 4..6, reconnect   |-> 4..7, emission   |-> 4..9,
   combined     |-> 5..8, threaded    |-> {},   validation |-> 4..7]

WiredSpan ==
  [construction |-> {},   destruction |-> {},   connection |-> 6..7,
   disconnect   |-> 5..6, reconnect   |-> 6..7, emission   |-> 5..9,
   combined     |-> 6..8, threaded    |-> {},   validation |-> 5..7]

Stock(t) == IF t = Main THEN StockSpan[method] ELSE 4..7

Wired(t) == IF t = Main THEN WiredSpan[method] ELSE 5..7

\* The thread is in the script of a method, or of a worker.
Scripted(t) ==
  IF t = Main THEN method \in Methods /\ code[Main] = Scripts[method] ELSE code[t] = Context

OpAt(c, p, op) == p \in DOMAIN c /\ c[p] = op

\* How many of n things there are at a place of a script: they are made one
\* after another before the span S, and dropped at its end.
Filled(c, p, make, drop, S, x, n) ==
  IF OpAt(c, p, make) THEN x \in 0..(n - 1)
  ELSE IF OpAt(c, p, drop) THEN x \in 1..n
  ELSE IF p \in S THEN x = n ELSE x = 0

\* The Foos of a thread and their connections are there where its script has
\* them, and die together.
FoosFilled(t) ==
  /\ Filled(code[t], pc[t], "foos", "~foos", Stock(t), foos[t], N)
  /\ Filled(code[t], pc[t], "connect", "~foos", Wired(t), linked[t], N)
  /\ pc[t] \in Wired(t) => linked[t] = foos[t]

SubjectsFilled ==
  Filled(code[Main], pc[Main], "subjects", "~subjects", SubjectSpan[method], subjects, WantedSubjects)

Stocked ==
  /\ linked \in [Threads -> Nat]
  /\ \A t \in Threads : linked[t] <= foos[t]
  /\ \A t \in Threads : Scripted(t) => FoosFilled(t)
  /\ Scripted(Main) => SubjectsFilled
  /\ Running # {} => method = "threaded"

LEMMA StockShapes ==
  /\ \A m \in Methods : StockShape(Scripts[m], StockSpan[m], WiredSpan[m])
  /\ StockShape(Context, 4..7, 5..7)
<1>1. Methods = {"construction", "destruction", "connection", "disconnect", "reconnect",
                 "emission", "combined", "threaded", "validation"}
  BY DEF Methods, Scripts
<1>2. StockShape(Scripts["construction"], StockSpan["construction"], WiredSpan["construction"])
  BY ShapeOfConstruction DEF Scripts, StockSpan, WiredSpan
<1>3. StockShape(Scripts["destruction"], StockSpan["destruction"], WiredSpan["destruction"])
  BY ShapeOfDestruction DEF Scripts, StockSpan, WiredSpan
<1>4. StockShape(Scripts["connection"], StockSpan["connection"], WiredSpan["connection"])
  BY ShapeOfConnection DEF Scripts, StockSpan, WiredSpan
<1>5. StockShape(Scripts["disconnect"], StockSpan["disconnect"], WiredSpan["disconnect"])
  BY ShapeOfDisconnect DEF Scripts, StockSpan, WiredSpan
<1>6. StockShape(Scripts["reconnect"], StockSpan["reconnect"], WiredSpan["reconnect"])
  BY ShapeOfReconnect DEF Scripts, StockSpan, WiredSpan
<1>7. StockShape(Scripts["emission"], StockSpan["emission"], WiredSpan["emission"])
  BY ShapeOfEmission DEF Scripts, StockSpan, WiredSpan
<1>8. StockShape(Scripts["combined"], StockSpan["combined"], WiredSpan["combined"])
  BY ShapeOfCombined DEF Scripts, StockSpan, WiredSpan
<1>9. StockShape(Scripts["threaded"], StockSpan["threaded"], WiredSpan["threaded"])
  BY ShapeOfThreaded DEF Scripts, StockSpan, WiredSpan
<1>10. StockShape(Scripts["validation"], StockSpan["validation"], WiredSpan["validation"])
  BY ShapeOfValidation DEF Scripts, StockSpan, WiredSpan
<1>11. StockShape(Context, 4..7, 5..7)
  BY StockOfContext
<1> QED
  BY <1>1, <1>2, <1>3, <1>4, <1>5, <1>6, <1>7, <1>8, <1>9, <1>10, <1>11

LEMMA PairOfSubjects ==
  ASSUME NEW m \in Methods
  PROVE  PairShape(Scripts[m], "subjects", "~subjects", SubjectSpan[m])
<1>1. Shaped(Scripts[m], FoosSpan[m], SubjectSpan[m])
  BY Shapes
<1> QED
  BY <1>1 DEF Shaped, SubjectShape, LoopShape, PairShape

\* Operations that neither make nor drop, the jumps of the loop among them.
LEMMA FilledStays ==
  ASSUME NEW c, NEW make, NEW drop, NEW S, PairShape(c, make, drop, S), NEW n \in Nat \ {0}, NEW x,
         NEW p \in DOMAIN c, c[p] \notin {make, drop}, NEW q,
         \/ q = p + 1
         \/ c[p] = "loop" /\ q = Where(c, "next") + 1
         \/ c[p] = "next" /\ q = Where(c, "loop"),
         Filled(c, p, make, drop, S, x, n)
  PROVE  Filled(c, q, make, drop, S, x, n) /\ (q \in S <=> p \in S)
<1>1. q \in S <=> p \in S
  BY DEF PairShape
<1>2. x = IF p \in S THEN n ELSE 0
  BY DEF Filled, OpAt
<1>3. OpAt(c, q, make) => q \notin S
  BY DEF PairShape, OpAt
<1>4. OpAt(c, q, drop) => q \in S
  BY DEF PairShape, OpAt
<1> QED
  BY <1>1, <1>2, <1>3, <1>4 DEF Filled

LEMMA FilledMakes ==
  ASSUME NEW c, NEW make, NEW drop, NEW S, PairShape(c, make, drop, S), NEW n \in Nat \ {0}, NEW x,
         NEW p, OpAt(c, p, make), Filled(c, p, make, drop, S, x, n)
  PROVE  /\ x \in 0..(n - 1)
         /\ Filled(c, IF x + 1 = n THEN p + 1 ELSE p, make, drop, S, x + 1, n)
<1>1. x \in 0..(n - 1)
  BY DEF Filled
<1>2. p + 1 \in S /\ ~OpAt(c, p + 1, make)
  BY DEF PairShape, OpAt
<1>3. CASE x + 1 = n
  BY <1>1, <1>2, <1>3 DEF Filled
<1>4. CASE x + 1 # n
  BY <1>1, <1>4 DEF Filled
<1> QED
  BY <1>1, <1>3, <1>4

LEMMA FilledDrops ==
  ASSUME NEW c, NEW make, NEW drop, make # drop, NEW S, PairShape(c, make, drop, S),
         NEW n \in Nat \ {0}, NEW x,
         NEW p, OpAt(c, p, drop), Filled(c, p, make, drop, S, x, n)
  PROVE  /\ x \in 1..n
         /\ Filled(c, IF x <= 1 THEN p + 1 ELSE p, make, drop, S, x - 1, n)
<1>1. ~OpAt(c, p, make)
  BY DEF OpAt
<1>2. x \in 1..n
  BY <1>1 DEF Filled
<1>3. p + 1 \notin S /\ ~OpAt(c, p + 1, drop)
  BY DEF PairShape, OpAt
<1>4. CASE x <= 1
  BY <1>2, <1>3, <1>4 DEF Filled
<1>5. CASE ~(x <= 1)
  BY <1>1, <1>2, <1>5 DEF Filled
<1> QED
  BY <1>2, <1>4, <1>5

LEMMA NotUnwinding ==
  /\ \A m \in Methods : Scripts[m] # MainUnwinds
  /\ Context # WorkerUnwinds /\ Context # <<>>
<1>1. ASSUME NEW m \in Methods, Scripts[m] = MainUnwinds PROVE FALSE
  <2>1. Shaped(MainUnwinds, FoosSpan[m], SubjectSpan[m])
    BY <1>1, Shapes
  <2>2. 1 \in DOMAIN MainUnwinds /\ MainUnwinds[1] = "join"
    BY ShapeOfUnwinding DEF MainUnwinds
  <2> QED
    BY <2>1, <2>2 DEF Shaped, CrewShape, SubjectShape
<1> QED
  BY <1>1, ShapeOfContext, ShapeOfUnwinding

\* Where a thread is in its script.
LEMMA ScriptedAt ==
  ASSUME InPlace, NEW t \in Threads, Scripted(t)
  PROVE  /\ StockShape(code[t], Stock(t), Wired(t))
         /\ t = Main => PairShape(code[Main], "subjects", "~subjects", SubjectSpan[method])
         /\ pc[t] \in Nat \ {0} /\ pc \in [Threads -> Nat]
         /\ \A op : At(t, op) <=> OpAt(code[t], pc[t], op)
<1>1. pc[t] \in Nat \ {0} /\ pc \in [Threads -> Nat]
  <2>1. pc \in [Threads -> Nat]
    BY DEF InPlace, Typed
  <2>2. CASE t = Main
    BY <2>1, <2>2 DEF InPlace, NoScript, InMethod, InUnwinding
  <2>3. CASE t \in Workers
    BY <2>1, <2>3 DEF InPlace, WorkerOK
  <2> QED
    BY <2>1, <2>2, <2>3, ThreadSets
<1>2. StockShape(code[t], Stock(t), Wired(t))
  BY StockShapes DEF Scripted, Stock, Wired
<1>3. t = Main => PairShape(code[Main], "subjects", "~subjects", SubjectSpan[method])
  BY PairOfSubjects DEF Scripted
<1>4. Len(code[t]) \in Nat /\ DOMAIN code[t] = 1..Len(code[t])
  <2>1. CASE t = Main
    BY <2>1, Shapes DEF Scripted, Shaped
  <2>2. CASE t # Main
    BY <2>2 DEF Scripted, Context
  <2> QED
    BY <2>1, <2>2
<1>5. \A op : At(t, op) <=> OpAt(code[t], pc[t], op)
  BY <1>1, <1>4 DEF At, OpAt
<1> QED
  BY <1>1, <1>2, <1>3, <1>5

\* The thread goes on in its script, or stays where it is.
Advance(t, op) ==
  /\ At(t, op)
  /\ code' = code
  /\ \/ pc' = pc
     \/ pc' = [pc EXCEPT ![t] = pc[t] + 1]
     \/ op = "loop" /\ pc' = [pc EXCEPT ![t] = Where(code[t], "next") + 1]
     \/ op = "next" /\ pc' = [pc EXCEPT ![t] = Where(code[t], "loop")]

Stuff == {"subjects", "~subjects", "foos", "~foos", "connect"}

\* The steps there are, as far as the Subjects and the Foos go.
LEMMA StepKinds ==
  ASSUME NEW t \in Threads, Step(t)
  PROVE  /\ method' = method
         /\ \/ \E op : Advance(t, op) /\ op \notin Stuff /\ UNCHANGED <<subjects, foos, linked>>
            \/ NewSubject(t) \/ DropSubject(t) \/ NewFoo(t) \/ DropFoo(t) \/ Connect(t)
            \/ \E script \in {Unwind(t), <<>>} :
                 Run(t, script) /\ UNCHANGED <<subjects, foos, linked>>
            \/ t = Main /\ Spawn /\ Cardinality(Started) # crew
<1>1. method' = method
  BY DEF Step, Loop, Increment, Reset, Count, NewSubject, DropSubject, NewFoo, DropFoo, Connect, Emit,
     Draw, Throw, Spawn, Get, Join, Return, Verdict, Escape, Copy, Finish
<1> DEFINE Quiet == \E op : Advance(t, op) /\ op \notin Stuff /\ UNCHANGED <<subjects, foos, linked>>
           Leaves == \E script \in {Unwind(t), <<>>} :
                       Run(t, script) /\ UNCHANGED <<subjects, foos, linked>>
<1>2. ASSUME NEW op, At(t, op), op \notin Stuff, Done(t), UNCHANGED <<subjects, foos, linked>>
      PROVE  Quiet
  BY <1>2 DEF Advance, Done, Goto
<1>3. CASE Loop(t)
  <2>1. Advance(t, "loop") /\ "loop" \notin Stuff /\ UNCHANGED <<subjects, foos, linked>>
    BY <1>3 DEF Loop, Advance, Done, Goto, scope, Stuff
  <2> QED
    BY <1>1, <2>1
<1>4. CASE Increment(t)
  <2>1. Advance(t, "next") /\ "next" \notin Stuff /\ UNCHANGED <<subjects, foos, linked>>
    BY <1>4 DEF Increment, Advance, Goto, scope, Stuff
  <2> QED
    BY <1>1, <2>1
<1>5. CASE Reset(t)
  BY <1>2, <1>5 DEF Reset, scope, Stuff
<1>6. CASE Count(t)
  BY <1>2, <1>6 DEF Count, scope, Stuff
<1>7. CASE Emit(t)
  BY <1>2, <1>7 DEF Emit, scope, Stuff
<1>8. CASE Draw(t)
  BY <1>2, <1>8 DEF Draw, scope, Stuff
<1>9. CASE Throw(t)
  <2>1. Leaves
    BY <1>9 DEF Throw, scope
  <2> QED
    BY <1>1, <2>1
<1>10. CASE t = Main /\ Spawn
  BY <1>1, <1>2, <1>10 DEF Spawn, scope, Stuff
<1>11. CASE t = Main /\ Get
  <2>1. CASE Done(Main)
    BY <1>2, <1>11, <2>1 DEF Get, scope, Stuff
  <2>2. CASE Run(Main, Unwind(Main))
    <3>1. Leaves
      BY <1>11, <2>2 DEF Get, scope
    <3> QED
      BY <1>1, <3>1
  <2>3. CASE UNCHANGED control
    <3>1. Advance(t, "get") /\ "get" \notin Stuff /\ UNCHANGED <<subjects, foos, linked>>
      BY <1>11, <2>3 DEF Get, Advance, control, scope, Stuff
    <3> QED
      BY <1>1, <3>1
  <2> QED
    BY <1>11, <2>1, <2>2, <2>3 DEF Get
<1>12. CASE t = Main /\ (Join \/ Return \/ Verdict \/ Escape)
  BY <1>2, <1>12 DEF Join, Return, Verdict, Escape, scope, Stuff
<1>13. CASE Copy(t)
  BY <1>2, <1>13 DEF Copy, scope, Stuff
<1>14. CASE Finish(t)
  <2>1. Leaves
    BY <1>14 DEF Finish, scope
  <2> QED
    BY <1>1, <2>1
<1> QED
  BY <1>1, <1>3, <1>4, <1>5, <1>6, <1>7, <1>8, <1>9, <1>10, <1>11, <1>12, <1>13, <1>14 DEF Step

LEMMA QuietFilled ==
  ASSUME InPlace, NEW t \in Threads, Scripted(t), FoosFilled(t), method' = method,
         NEW op, Advance(t, op), op \notin {"foos", "~foos", "connect"},
         foos'[t] = foos[t], linked'[t] = linked[t]
  PROVE  FoosFilled(t)'
<1> DEFINE c == code[t]
           p == pc[t]
           q == pc'[t]
<1>1. StockShape(c, Stock(t), Wired(t)) /\ p \in DOMAIN c /\ c[p] = op /\ pc \in [Threads -> Nat]
  BY ScriptedAt DEF Advance, OpAt
<1>2. /\ code'[t] = c
      /\ \/ q = p
         \/ q = p + 1
         \/ c[p] = "loop" /\ q = Where(c, "next") + 1
         \/ c[p] = "next" /\ q = Where(c, "loop")
  BY <1>1 DEF Advance
<1>3. Stock(t)' = Stock(t) /\ Wired(t)' = Wired(t)
  BY DEF Stock, Wired
<1>4. CASE q = p
  BY <1>2, <1>3, <1>4 DEF FoosFilled
<1>5. CASE q # p
  <2> HIDE DEF c, p, q
  <2>1. /\ Filled(c, p, "foos", "~foos", Stock(t), foos[t], N)
        /\ Filled(c, p, "connect", "~foos", Wired(t), linked[t], N)
        /\ p \in Wired(t) => linked[t] = foos[t]
    BY DEF FoosFilled, c, p
  <2>2. Filled(c, q, "foos", "~foos", Stock(t), foos[t], N)
    BY <1>1, <1>2, <1>5, <2>1, FilledStays, SizesAssumption DEF StockShape
  <2>3. Filled(c, q, "connect", "~foos", Wired(t), linked[t], N) /\ (q \in Wired(t) <=> p \in Wired(t))
    BY <1>1, <1>2, <1>5, <2>1, FilledStays, SizesAssumption DEF StockShape
  <2> QED
    BY <1>2, <1>3, <2>1, <2>2, <2>3 DEF FoosFilled, c, q
<1> QED
  BY <1>4, <1>5

LEMMA NewFooFilled ==
  ASSUME InPlace, Stocked, NEW t \in Threads, Scripted(t), NewFoo(t)
  PROVE  FoosFilled(t)'
<1> DEFINE c == code[t]
           p == pc[t]
           A == Stock(t)
           B == Wired(t)
<1>1. /\ StockShape(c, A, B) /\ p \in DOMAIN c /\ c[p] = "foos" /\ OpAt(c, p, "foos")
      /\ pc \in [Threads -> Nat]
  BY ScriptedAt DEF NewFoo, OpAt
<1>2. Filled(c, p, "foos", "~foos", A, foos[t], N) /\ Filled(c, p, "connect", "~foos", B, linked[t], N)
  BY DEF Stocked, FoosFilled
<1>3. /\ UNCHANGED <<method, code, linked>>
      /\ foos'[t] = foos[t] + 1
      /\ pc'[t] = IF foos[t] + 1 = N THEN p + 1 ELSE p
  BY <1>1 DEF NewFoo, DoneIf, Done, Goto, control, InPlace, Typed
<1>4. Stock(t)' = A /\ Wired(t)' = B
  BY <1>3 DEF Stock, Wired
<1> HIDE DEF c, p, A, B
<1>5. Filled(c, pc'[t], "foos", "~foos", A, foos'[t], N)
  BY <1>1, <1>2, <1>3, FilledMakes, SizesAssumption DEF StockShape
<1>6. p \notin A /\ p \notin B
  BY <1>1 DEF StockShape, PairShape
<1>7. p + 1 \notin B /\ Filled(c, p + 1, "connect", "~foos", B, linked[t], N)
  BY <1>1, <1>2, <1>6, FilledStays, SizesAssumption DEF StockShape
<1> QED
  BY <1>2, <1>3, <1>4, <1>5, <1>6, <1>7 DEF FoosFilled, c

LEMMA ConnectFilled ==
  ASSUME InPlace, Stocked, NEW t \in Threads, Scripted(t), Connect(t)
  PROVE  FoosFilled(t)' /\ linked[t] < foos[t]
<1> DEFINE c == code[t]
           p == pc[t]
           A == Stock(t)
           B == Wired(t)
<1>1. /\ StockShape(c, A, B) /\ p \in DOMAIN c /\ c[p] = "connect" /\ OpAt(c, p, "connect")
      /\ pc \in [Threads -> Nat]
  BY ScriptedAt DEF Connect, OpAt
<1>2. Filled(c, p, "foos", "~foos", A, foos[t], N) /\ Filled(c, p, "connect", "~foos", B, linked[t], N)
  BY DEF Stocked, FoosFilled
<1>3. /\ UNCHANGED <<method, code, foos>>
      /\ linked'[t] = linked[t] + 1
      /\ pc'[t] = IF linked[t] + 1 = foos[t] THEN p + 1 ELSE p
  BY <1>1 DEF Connect, DoneIf, Done, Goto, control, Stocked
<1>4. Stock(t)' = A /\ Wired(t)' = B
  BY <1>3 DEF Stock, Wired
<1> HIDE DEF c, p, A, B
<1>5. foos[t] = N
  BY <1>1, <1>2 DEF StockShape, Filled, OpAt
<1>6. linked[t] \in 0..(N - 1) /\ Filled(c, pc'[t], "connect", "~foos", B, linked'[t], N)
  BY <1>1, <1>2, <1>3, <1>5, FilledMakes, SizesAssumption DEF StockShape
<1>7. p \notin B
  BY <1>1 DEF StockShape, PairShape
<1>8. Filled(c, p + 1, "foos", "~foos", A, foos[t], N)
  BY <1>1, <1>2, FilledStays, SizesAssumption DEF StockShape
<1>9. linked[t] < foos[t]
  BY <1>5, <1>6, SizesAssumption
<1> QED
  BY <1>2, <1>3, <1>4, <1>6, <1>7, <1>8, <1>9 DEF FoosFilled, c

LEMMA DropFooFilled ==
  ASSUME InPlace, Stocked, NEW t \in Threads, Scripted(t), DropFoo(t)
  PROVE  FoosFilled(t)'
<1> DEFINE c == code[t]
           p == pc[t]
           A == Stock(t)
           B == Wired(t)
<1>1. /\ StockShape(c, A, B) /\ p \in DOMAIN c /\ c[p] = "~foos" /\ OpAt(c, p, "~foos")
      /\ pc \in [Threads -> Nat]
  BY ScriptedAt DEF DropFoo, OpAt
<1>2. /\ Filled(c, p, "foos", "~foos", A, foos[t], N) /\ Filled(c, p, "connect", "~foos", B, linked[t], N)
      /\ p \in B => linked[t] = foos[t]
  BY DEF Stocked, FoosFilled
<1>3. p \in B /\ p + 1 \notin B
  BY <1>1 DEF StockShape, PairShape
<1>4. linked[t] = foos[t] /\ foos[t] \in 1..N
  BY <1>1, <1>2, <1>3, FilledDrops, SizesAssumption DEF StockShape
<1>5. /\ UNCHANGED <<method, code>>
      /\ foos'[t] = foos[t] - 1 /\ linked'[t] = linked[t] - 1
      /\ pc'[t] = IF foos[t] <= 1 THEN p + 1 ELSE p
  BY <1>1, <1>4, SizesAssumption DEF DropFoo, DoneIf, Done, Goto, control, InPlace, Typed, Stocked
<1>6. Stock(t)' = A /\ Wired(t)' = B
  BY <1>5 DEF Stock, Wired
<1> HIDE DEF c, p, A, B
<1>7. Filled(c, pc'[t], "foos", "~foos", A, foos'[t], N)
  BY <1>1, <1>2, <1>5, FilledDrops, SizesAssumption DEF StockShape
<1>8. Filled(c, pc'[t], "connect", "~foos", B, linked'[t], N)
  BY <1>1, <1>2, <1>4, <1>5, FilledDrops, SizesAssumption DEF StockShape
<1> QED
  BY <1>4, <1>5, <1>6, <1>7, <1>8 DEF FoosFilled, c

LEMMA FilledStarts ==
  ASSUME NEW c, NEW make, NEW drop, NEW S, PairShape(c, make, drop, S), NEW n \in Nat \ {0}
  PROVE  Filled(c, 1, make, drop, S, 0, n) /\ 1 \notin S
<1>1. 1 \notin S /\ ~OpAt(c, 1, drop)
  BY DEF PairShape, OpAt
<1> QED
  BY <1>1 DEF Filled

LEMMA SubjectsWanted == WantedSubjects \in Nat \ {0}
<1>1. N * N \in Nat \ {0}
  BY SizesAssumption
<1> QED
  BY <1>1 DEF WantedSubjects

LEMMA QuietSubjects ==
  ASSUME InPlace, Scripted(Main), SubjectsFilled, UNCHANGED <<method, subjects>>,
         NEW op, Advance(Main, op), op \notin {"subjects", "~subjects"}
  PROVE  SubjectsFilled'
<1> DEFINE c == code[Main]
           p == pc[Main]
           q == pc'[Main]
           S == SubjectSpan[method]
<1>1. PairShape(c, "subjects", "~subjects", S) /\ p \in DOMAIN c /\ c[p] = op /\ pc \in [Threads -> Nat]
  BY ScriptedAt, ThreadSets DEF Advance, OpAt
<1>2. /\ code'[Main] = c
      /\ \/ q = p
         \/ q = p + 1
         \/ c[p] = "loop" /\ q = Where(c, "next") + 1
         \/ c[p] = "next" /\ q = Where(c, "loop")
  BY <1>1, ThreadSets DEF Advance
<1>3. WantedSubjects' = WantedSubjects
  BY DEF WantedSubjects
<1>4. CASE q = p
  BY <1>2, <1>3, <1>4 DEF SubjectsFilled
<1>5. CASE q # p
  <2> HIDE DEF c, p, q, S
  <2>1. Filled(c, p, "subjects", "~subjects", S, subjects, WantedSubjects)
    BY DEF SubjectsFilled, c, p, S
  <2>2. Filled(c, q, "subjects", "~subjects", S, subjects, WantedSubjects)
    BY <1>1, <1>2, <1>5, <2>1, FilledStays, SubjectsWanted
  <2> QED
    BY <1>2, <1>3, <2>2 DEF SubjectsFilled, c, q, S
<1> QED
  BY <1>4, <1>5

LEMMA NewSubjectFilled ==
  ASSUME InPlace, Scripted(Main), SubjectsFilled, NewSubject(Main)
  PROVE  SubjectsFilled' /\ subjects \in 0..(WantedSubjects - 1)
<1> DEFINE c == code[Main]
           p == pc[Main]
           S == SubjectSpan[method]
<1>1. /\ PairShape(c, "subjects", "~subjects", S) /\ OpAt(c, p, "subjects") /\ pc \in [Threads -> Nat]
  BY ScriptedAt, ThreadSets DEF NewSubject
<1>2. /\ UNCHANGED <<method, code>>
      /\ subjects' = subjects + 1
      /\ pc'[Main] = IF subjects + 1 = WantedSubjects THEN p + 1 ELSE p
  BY <1>1, ThreadSets DEF NewSubject, DoneIf, Done, Goto, control
<1>3. WantedSubjects' = WantedSubjects
  BY <1>2 DEF WantedSubjects
<1> HIDE DEF c, p, S
<1>4. Filled(c, p, "subjects", "~subjects", S, subjects, WantedSubjects)
  BY DEF SubjectsFilled, c, p, S
<1>5. /\ subjects \in 0..(WantedSubjects - 1)
      /\ Filled(c, pc'[Main], "subjects", "~subjects", S, subjects', WantedSubjects)
  BY <1>1, <1>2, <1>4, FilledMakes, SubjectsWanted
<1> QED
  BY <1>2, <1>3, <1>5 DEF SubjectsFilled, c, S

LEMMA DropSubjectFilled ==
  ASSUME InPlace, Scripted(Main), SubjectsFilled, DropSubject(Main)
  PROVE  SubjectsFilled' /\ subjects \in 1..WantedSubjects
<1> DEFINE c == code[Main]
           p == pc[Main]
           S == SubjectSpan[method]
<1>1. /\ PairShape(c, "subjects", "~subjects", S) /\ OpAt(c, p, "~subjects") /\ pc \in [Threads -> Nat]
  BY ScriptedAt, ThreadSets DEF DropSubject
<1>2. Filled(c, p, "subjects", "~subjects", S, subjects, WantedSubjects)
  BY DEF SubjectsFilled
<1>3. subjects \in 1..WantedSubjects
  BY <1>1, <1>2, FilledDrops, SubjectsWanted
<1>4. /\ UNCHANGED <<method, code>>
      /\ subjects' = subjects - 1
      /\ pc'[Main] = IF subjects <= 1 THEN p + 1 ELSE p
  BY <1>1, <1>3, SubjectsWanted, ThreadSets DEF DropSubject, DoneIf, Done, Goto, control
<1>5. WantedSubjects' = WantedSubjects
  BY <1>4 DEF WantedSubjects
<1> HIDE DEF c, p, S
<1>6. Filled(c, pc'[Main], "subjects", "~subjects", S, subjects', WantedSubjects)
  BY <1>1, <1>2, <1>4, FilledDrops, SubjectsWanted
<1> QED
  BY <1>3, <1>4, <1>5, <1>6 DEF SubjectsFilled, c, S

\* Steps that leave the Foos of a thread where they are.
LEMMA OthersFilled ==
  ASSUME Stocked, NEW t \in Threads, method' = method, code'[t] = code[t], pc'[t] = pc[t],
         foos'[t] = foos[t], linked'[t] = linked[t]
  PROVE  Scripted(t)' => FoosFilled(t)'
  BY DEF Stocked, Scripted, FoosFilled, Stock, Wired

\* A worker has no business with the Subject.
LEMMA WorkerOps ==
  ASSUME InPlace, NEW w \in Workers, NEW op, At(w, op)
  PROVE  op \notin {"subjects", "~subjects", "reset"} /\ Running # {}
<1>1. /\ future[w] = "running"
      /\ \/ code[w] = Context /\ pc[w] \in 1..10 /\ op = Context[pc[w]]
         \/ code[w] = WorkerUnwinds /\ pc[w] \in 1..2 /\ op = WorkerUnwinds[pc[w]]
  BY WorkerAt
<1>2. Running # {}
  BY <1>1 DEF Running
<1> QED
  BY <1>1, <1>2, ShapeOfContext, ShapeOfUnwinding

LEMMA ScriptsNotEmpty == \A m \in Methods : Scripts[m] # <<>> /\ (1 \in DOMAIN Scripts[m])
<1>1. Methods = {"construction", "destruction", "connection", "disconnect", "reconnect",
                 "emission", "combined", "threaded", "validation"}
  BY DEF Methods, Scripts
<1>2. ASSUME NEW c, Len(c) > 0, DOMAIN c = 1..Len(c), Len(c) \in Nat PROVE c # <<>> /\ 1 \in DOMAIN c
  BY <1>2
<1>3. /\ Len(Construction) > 0 /\ Len(Destruction) > 0 /\ Len(Connection) > 0 /\ Len(Disconnect) > 0
      /\ Len(Reconnect) > 0 /\ Len(Emission) > 0 /\ Len(Combined) > 0 /\ Len(Threaded) > 0
      /\ Len(Validation) > 0
  BY DEF Construction, Destruction, Connection, Disconnect, Reconnect, Emission, Combined, Threaded,
     Validation
<1>4. \A m \in Methods : Len(Scripts[m]) > 0
  BY <1>1, <1>3 DEF Scripts
<1> QED
  BY <1>2, <1>4, Shapes DEF Shaped

LEMMA LeftScript ==
  ASSUME method' = method, code'[Main] \in {Unwind(Main), <<>>}
  PROVE  ~Scripted(Main)'
<1> SUFFICES ASSUME method \in Methods, code'[Main] = Scripts[method] PROVE FALSE
  BY DEF Scripted
<1>1. Scripts[method] # MainUnwinds /\ Scripts[method] # <<>>
  BY NotUnwinding, ScriptsNotEmpty
<1> QED
  BY <1>1, ShapeOfUnwinding

\* A worker is started that had not been, in `threaded`.
LEMMA SpawnsNext ==
  ASSUME InPlace, Spawn, Cardinality(Started) # crew
  PROVE  \E w \in Workers : /\ future[w] = "none"
                            /\ future' = [future EXCEPT ![w] = "running"]
                            /\ code' = [code EXCEPT ![w] = Context]
                            /\ pc' = [pc EXCEPT ![w] = 1]
<1>1. PICK n \in 0..crew : Started = 1..n /\ Cardinality(Started) = n
  BY StartedInOrder
<1> DEFINE w == n + 1
<1>2. w \in Workers /\ w \notin Started
  BY <1>1, SizesAssumption DEF Workers, InPlace, Typed
<1>3. future[w] = "none"
  BY <1>2 DEF Started
<1>4. future' = [future EXCEPT ![w] = "running"] /\ Run(w, Context)
  BY <1>1 DEF Spawn
<1> QED
  BY <1>2, <1>3, <1>4 DEF Run

LEMMA SpawnLeavesMain ==
  ASSUME InPlace, Spawn, Cardinality(Started) # crew
  PROVE  code'[Main] = code[Main] /\ pc'[Main] = pc[Main] /\ UNCHANGED scope
<1>1. PICK w \in Workers : code' = [code EXCEPT ![w] = Context] /\ pc' = [pc EXCEPT ![w] = 1]
  BY SpawnsNext
<1> QED
  BY <1>1, ThreadSets DEF InPlace, Typed, Spawn

LEMMA SpawnsInThreaded ==
  ASSUME InPlace, At(Main, "spawn")
  PROVE  method = "threaded" /\ code[Main] = Threaded
<1>1. InMethod
  BY NothingToDo, UnwindingOps DEF InPlace
<1>2. pc[Main] \in DOMAIN Scripts[method] /\ Scripts[method][pc[Main]] = "spawn"
  BY <1>1, Shapes DEF InMethod, At, Shaped
<1>3. method \notin Sampled
  BY <1>2, PaceShapes DEF PaceShape
<1>4. method # "validation"
  BY <1>2, ShapeOfValidation DEF Scripts
<1>5. method = "threaded"
  BY <1>1, <1>3, <1>4 DEF InMethod, Methods, Scripts, Sampled, AfterSpan
<1> QED
  BY <1>1, <1>5 DEF InMethod, Scripts

LEMMA WorkerSteppingRuns ==
  ASSUME InPlace, NEW w \in Workers, Step(w)
  PROVE  Running # {}
<1>1. \E op : At(w, op)
  BY ThreadSets DEF Step, Loop, Increment, Reset, Count, NewSubject, DropSubject, NewFoo, DropFoo, Connect,
     Emit, Draw, Throw, Copy, Finish
<1> QED
  BY <1>1, WorkerAt DEF Running

LEMMA MainStartsNobody ==
  ASSUME InPlace, Step(Main), ~(Spawn /\ Cardinality(Started) # crew)
  PROVE  Running' \subseteq Running
<1>1. CASE UNCHANGED future
  BY <1>1 DEF Running
<1>2. CASE Get
  <2>1. future' = future \/ \E w : future' = [future EXCEPT ![w] = IF @ = "value" THEN "taken" ELSE "lost"]
    BY <1>2 DEF Get
  <2> QED
    BY <2>1 DEF Running, InPlace, Typed
<1>3. CASE Spawn
  BY <1>1, <1>3 DEF Spawn
<1>4. UNCHANGED future \/ Get \/ Spawn
  BY ThreadSets DEF Step, Loop, Increment, Reset, Count, NewSubject, DropSubject, NewFoo, DropFoo, Connect,
     Emit, Draw, Throw, Join, Return, Verdict, Escape
<1> QED
  BY <1>1, <1>2, <1>3, <1>4

\* Whoever steps, the others keep what they have.
LEMMA StepStocked ==
  ASSUME InPlace, Stocked, NEW t \in Threads, Step(t)
  PROVE  Stocked'
<1> DEFINE Quiet == \E op : Advance(t, op) /\ op \notin Stuff /\ UNCHANGED <<subjects, foos, linked>>
           Leaves == \E script \in {Unwind(t), <<>>} :
                       Run(t, script) /\ UNCHANGED <<subjects, foos, linked>>
           Spawns == t = Main /\ Spawn /\ Cardinality(Started) # crew
<1>1. /\ method' = method
      /\ \/ Quiet \/ NewSubject(t) \/ DropSubject(t) \/ NewFoo(t) \/ DropFoo(t) \/ Connect(t)
         \/ Leaves \/ Spawns
  BY StepKinds
<1> HIDE DEF Quiet, Leaves, Spawns
<1>2. linked \in [Threads -> Nat] /\ foos \in [Threads -> Nat] /\ pc \in [Threads -> Nat]
      /\ code \in [Threads -> Codes] /\ subjects \in Nat
  BY DEF Stocked, InPlace, Typed
<1>3. ~Spawns => code' = [code EXCEPT ![t] = code'[t]] /\ pc' = [pc EXCEPT ![t] = pc'[t]]
  BY <1>1, <1>2 DEF Quiet, Leaves, Advance, NewSubject, DropSubject, NewFoo, DropFoo, Connect, DoneIf,
     Done, Goto, control, Run
<1>4. \A u \in Threads : u # t => foos'[u] = foos[u] /\ linked'[u] = linked[u]
  BY <1>1, <1>2 DEF Quiet, Leaves, Spawns, NewSubject, DropSubject, NewFoo, DropFoo, Connect, Spawn, scope
<1>5. linked' \in [Threads -> Nat] /\ linked'[t] <= foos'[t]
  <2>1. CASE Connect(t)
    <3>1. Scripted(t)
      <4>1. CASE t = Main
        BY <2>1, <4>1, NothingToDo, UnwindingOps DEF Connect, InPlace, InMethod, Scripted
      <4>2. CASE t \in Workers
        BY <2>1, <4>2, WorkerAt, ShapeOfUnwinding, ThreadSets DEF Connect, Scripted
      <4> QED
        BY <4>1, <4>2, ThreadSets
    <3>2. linked[t] < foos[t]
      BY <2>1, <3>1, ConnectFilled
    <3> QED
      BY <1>2, <2>1, <3>2 DEF Connect
  <2>2. CASE DropFoo(t)
    <3>1. linked[t] <= foos[t] /\ linked[t] \in Nat /\ foos[t] \in Nat
      BY <1>2 DEF Stocked
    <3>2. /\ foos'[t] = IF foos[t] = 0 THEN 0 ELSE foos[t] - 1
          /\ linked' = [linked EXCEPT ![t] = IF linked[t] = 0 THEN 0 ELSE linked[t] - 1]
      BY <1>2, <2>2 DEF DropFoo
    <3>3. (IF linked[t] = 0 THEN 0 ELSE linked[t] - 1) \in Nat
      BY <3>1
    <3> QED
      BY <1>2, <3>1, <3>2, <3>3
  <2>3. CASE NewFoo(t)
    <3>1. linked[t] <= foos[t] /\ linked[t] \in Nat /\ foos[t] \in Nat
      BY <1>2 DEF Stocked
    <3> QED
      BY <1>2, <2>3, <3>1 DEF NewFoo
  <2>4. CASE UNCHANGED <<foos, linked>>
    BY <2>4 DEF Stocked
  <2> QED
    BY <1>1, <2>1, <2>2, <2>3, <2>4 DEF Quiet, Leaves, Spawns, NewSubject, DropSubject, Spawn, scope
<1>6. Scripted(t)' => FoosFilled(t)'
  <2>1. CASE Quiet
    <3>1. code' = code
      BY <2>1 DEF Quiet, Advance
    <3>2. Scripted(t)' => Scripted(t)
      BY <1>1, <3>1 DEF Scripted
    <3> QED
      BY <1>1, <2>1, <3>2, QuietFilled DEF Quiet, Stocked, Stuff
  <2>2. CASE NewSubject(t) \/ DropSubject(t)
    <3>1. \E op : Advance(t, op) /\ op \in {"subjects", "~subjects"}
      BY <2>2 DEF NewSubject, DropSubject, Advance, DoneIf, Done, Goto, control
    <3>2. UNCHANGED <<foos, linked, code>>
      BY <2>2 DEF NewSubject, DropSubject, DoneIf, Done, Goto, control
    <3>3. Scripted(t)' => Scripted(t)
      BY <1>1, <3>2 DEF Scripted
    <3> QED
      BY <1>1, <3>1, <3>2, <3>3, QuietFilled DEF Stocked
  <2>3. CASE NewFoo(t) \/ DropFoo(t) \/ Connect(t)
    <3>1. code' = code
      BY <2>3 DEF NewFoo, DropFoo, Connect, DoneIf, Done, Goto, control
    <3>2. Scripted(t)' => Scripted(t)
      BY <1>1, <3>1 DEF Scripted
    <3> QED
      BY <2>3, <3>2, NewFooFilled, DropFooFilled, ConnectFilled
  <2>4. CASE Leaves
    <3>1. code'[t] \in {Unwind(t), <<>>}
      BY <1>2, <2>4 DEF Leaves, Run
    <3>2. CASE t = Main
      BY <1>1, <3>1, <3>2, LeftScript
    <3>3. CASE t \in Workers
      BY <3>1, <3>3, NotUnwinding, ShapeOfUnwinding, ThreadSets DEF Scripted
    <3> QED
      BY <3>2, <3>3, ThreadSets
  <2>5. CASE Spawns
    <3>1. code'[Main] = code[Main] /\ pc'[Main] = pc[Main] /\ UNCHANGED <<foos, linked>>
      BY <2>5, SpawnLeavesMain DEF Spawns, scope
    <3> QED
      BY <1>1, <2>5, <3>1, OthersFilled DEF Spawns
  <2> QED
    BY <1>1, <2>1, <2>2, <2>3, <2>4, <2>5
<1>7. ASSUME NEW u \in Threads, u # t PROVE Scripted(u)' => FoosFilled(u)'
  <2>1. CASE ~Spawns
    <3>1. code'[u] = code[u] /\ pc'[u] = pc[u]
      BY <1>2, <1>3, <1>7, <2>1
    <3> QED
      BY <1>1, <1>4, <1>7, <3>1, OthersFilled
  <2>2. CASE Spawns
    <3>1. PICK w \in Workers : /\ future[w] = "none"
                               /\ future' = [future EXCEPT ![w] = "running"]
                               /\ code' = [code EXCEPT ![w] = Context]
                               /\ pc' = [pc EXCEPT ![w] = 1]
      BY <2>2, SpawnsNext DEF Spawns
    <3>2. CASE u # w
      BY <1>1, <1>2, <1>4, <1>7, <3>1, <3>2, OthersFilled
    <3>3. CASE u = w
      <4>1. foos[w] = 0 /\ linked[w] = 0
        <5>1. foos[w] = 0
          BY <3>1, ThreadSets DEF InPlace, WorkerOK
        <5> QED
          BY <1>2, <5>1, ThreadSets DEF Stocked
      <4>2. code'[w] = Context /\ pc'[w] = 1 /\ w # Main /\ foos'[w] = 0 /\ linked'[w] = 0
        BY <1>2, <1>4, <1>7, <3>1, <3>3, <4>1, ThreadSets
      <4>3. /\ Filled(Context, 1, "foos", "~foos", 4..7, 0, N)
            /\ Filled(Context, 1, "connect", "~foos", 5..7, 0, N)
        BY StockShapes, FilledStarts, SizesAssumption DEF StockShape
      <4> QED
        BY <3>3, <4>2, <4>3 DEF FoosFilled, Stock, Wired
    <3> QED
      BY <3>2, <3>3
  <2> QED
    BY <2>1, <2>2
<1>8. Scripted(Main)' => SubjectsFilled'
  <2>1. CASE t = Main
    <3>1. CASE Quiet
      <4>1. Scripted(Main)' => Scripted(Main)
        BY <1>1, <3>1 DEF Scripted, Quiet, Advance
      <4> QED
        BY <1>1, <2>1, <3>1, <4>1, QuietSubjects DEF Quiet, Stocked, Stuff
    <3>2. CASE NewFoo(t) \/ DropFoo(t) \/ Connect(t)
      <4>1. \E op : Advance(t, op) /\ op \in {"foos", "~foos", "connect"}
        BY <3>2 DEF NewFoo, DropFoo, Connect, Advance, DoneIf, Done, Goto, control
      <4>2. UNCHANGED <<subjects, code>>
        BY <3>2 DEF NewFoo, DropFoo, Connect, DoneIf, Done, Goto, control
      <4>3. Scripted(Main)' => Scripted(Main)
        BY <1>1, <4>2 DEF Scripted
      <4> QED
        BY <1>1, <2>1, <4>1, <4>2, <4>3, QuietSubjects DEF Stocked
    <3>3. CASE NewSubject(t) \/ DropSubject(t)
      <4>1. code' = code
        BY <3>3 DEF NewSubject, DropSubject, DoneIf, Done, Goto, control
      <4>2. Scripted(Main)' => Scripted(Main)
        BY <1>1, <4>1 DEF Scripted
      <4> QED
        BY <2>1, <3>3, <4>2, NewSubjectFilled, DropSubjectFilled DEF Stocked
    <3>4. CASE Leaves
      <4>1. code'[Main] \in {Unwind(Main), <<>>}
        BY <1>2, <2>1, <3>4, ThreadSets DEF Leaves, Run
      <4> QED
        BY <1>1, <4>1, LeftScript
    <3>5. CASE Spawns
      <4>1. code'[Main] = code[Main] /\ pc'[Main] = pc[Main] /\ subjects' = subjects
        BY <3>5, SpawnLeavesMain DEF Spawns, scope
      <4> QED
        BY <1>1, <4>1 DEF Stocked, Scripted, SubjectsFilled, WantedSubjects
    <3> QED
      BY <1>1, <3>1, <3>2, <3>3, <3>4, <3>5
  <2>2. CASE t \in Workers
    <3>1. ~NewSubject(t) /\ ~DropSubject(t) /\ ~Spawns
      BY <2>2, WorkerOps, ThreadSets DEF NewSubject, DropSubject, Spawns
    <3>2. subjects' = subjects
      BY <1>1, <3>1 DEF Quiet, Leaves, NewFoo, DropFoo, Connect
    <3>3. code'[Main] = code[Main] /\ pc'[Main] = pc[Main]
      BY <1>2, <1>3, <2>2, <3>1, ThreadSets
    <3> QED
      BY <1>1, <3>2, <3>3 DEF Stocked, Scripted, SubjectsFilled, WantedSubjects
  <2> QED
    BY <2>1, <2>2, ThreadSets
<1>9. Running' # {} => method' = "threaded"
  <2>1. CASE t \in Workers
    <3>1. Running # {}
      BY <2>1, WorkerSteppingRuns
    <3> QED
      BY <1>1, <3>1 DEF Stocked
  <2>2. CASE t = Main /\ ~Spawns
    <3>1. Running' \subseteq Running
      BY <2>2, MainStartsNobody DEF Spawns
    <3> QED
      BY <1>1, <3>1 DEF Stocked
  <2>3. CASE t = Main /\ Spawns
    BY <1>1, <2>3, SpawnsInThreaded DEF Spawns, Spawn
  <2> QED
    BY <2>1, <2>2, <2>3, ThreadSets
<1> QED
  BY <1>4, <1>5, <1>6, <1>7, <1>8, <1>9 DEF Stocked

LEMMA InitStocked == Init => Stocked
<1> SUFFICES ASSUME Init PROVE Stocked
  OBVIOUS
<1>1. linked = [t \in Threads |-> 0] /\ foos = [t \in Threads |-> 0] /\ code = [t \in Threads |-> <<>>]
  BY DEF Init
<1>2. ~Scripted(Main)
  BY <1>1, ScriptsNotEmpty, ThreadSets DEF Scripted
<1>3. \A w \in Workers : ~Scripted(w)
  BY <1>1, NotUnwinding, ThreadSets DEF Scripted
<1>4. Running = {}
  BY DEF Init, Running
<1> QED
  BY <1>1, <1>2, <1>3, <1>4, ThreadSets DEF Stocked

\* At a call everything is gone, and the script begins with nothing.
LEMMA NothingAtCall ==
  ASSUME InPlace, Stocked, Idle
  PROVE  /\ Running = {} /\ subjects = 0
         /\ \A t \in Threads : foos[t] = 0 /\ linked[t] = 0
         /\ \A w \in Workers : code[w] = <<>>
<1>1. Running = {} /\ subjects = 0 /\ \A t \in Threads : foos[t] = 0
  BY InPlaceSuffices DEF LeavesNothing
<1>2. \A t \in Threads : linked[t] = 0
  BY <1>1 DEF Stocked
<1>3. \A w \in Workers : code[w] = <<>>
  BY <1>1 DEF Running, InPlace, WorkerOK
<1> QED
  BY <1>1, <1>2, <1>3

LEMMA CallStocked ==
  ASSUME InPlace, Stocked, NEW m \in Methods, Call(m)
  PROVE  Stocked'
<1>1. /\ subjects = 0
      /\ \A t \in Threads : foos[t] = 0 /\ linked[t] = 0
      /\ \A w \in Workers : code[w] = <<>>
  BY NothingAtCall DEF Call
<1>2. UNCHANGED <<subjects, foos, linked>> /\ method' = m /\ Run(Main, Scripts[m])
      /\ future' = [w \in Workers |-> "none"]
  BY DEF Call, scope
<1>3. /\ code'[Main] = Scripts[m] /\ pc'[Main] = 1
      /\ \A w \in Workers : code'[w] = code[w]
  BY <1>2, ThreadSets DEF Run, InPlace, Typed
<1>4. \A w \in Workers : ~Scripted(w)'
  BY <1>1, <1>3, NotUnwinding, ThreadSets DEF Scripted
<1>5. FoosFilled(Main)'
  <2>1. StockShape(Scripts[m], StockSpan[m], WiredSpan[m])
    BY StockShapes
  <2>2. /\ Filled(Scripts[m], 1, "foos", "~foos", StockSpan[m], 0, N)
        /\ Filled(Scripts[m], 1, "connect", "~foos", WiredSpan[m], 0, N)
    BY <2>1, FilledStarts, SizesAssumption DEF StockShape
  <2>3. foos'[Main] = 0 /\ linked'[Main] = 0
    BY <1>1, <1>2, ThreadSets
  <2> QED
    BY <1>2, <1>3, <2>2, <2>3 DEF FoosFilled, Stock, Wired
<1>6. SubjectsFilled'
  <2>1. WantedSubjects' \in Nat \ {0}
    <3>1. N * N \in Nat \ {0}
      BY SizesAssumption
    <3> QED
      BY <3>1 DEF WantedSubjects
  <2>2. Filled(Scripts[m], 1, "subjects", "~subjects", SubjectSpan[m], 0, WantedSubjects')
    BY <2>1, PairOfSubjects, FilledStarts
  <2> QED
    BY <1>1, <1>2, <1>3, <2>2 DEF SubjectsFilled
<1>7. Running' = {}
  BY <1>2 DEF Running
<1> QED
  BY <1>1, <1>2, <1>4, <1>5, <1>6, <1>7, ThreadSets DEF Stocked

LEMMA CallStubStocked ==
  ASSUME InPlace, Stocked, CallStub
  PROVE  Stocked'
<1>1. Running = {} /\ \A w \in Workers : code[w] = <<>>
  BY NothingAtCall DEF CallStub
<1>2. UNCHANGED <<foos, linked, future>> /\ Run(Main, <<>>)
  BY DEF CallStub, scope
<1>3. code'[Main] = <<>> /\ \A w \in Workers : code'[w] = <<>>
  BY <1>1, <1>2, ThreadSets DEF Run, InPlace, Typed
<1>4. ~Scripted(Main)' /\ \A w \in Workers : ~Scripted(w)'
  BY <1>3, ScriptsNotEmpty, NotUnwinding, ThreadSets DEF Scripted
<1>5. Running' = {}
  BY <1>1, <1>2 DEF Running
<1> QED
  BY <1>2, <1>4, <1>5, ThreadSets DEF Stocked

LEMMA NextStocked == InPlace /\ Stocked /\ [Next]_vars => Stocked'
<1> SUFFICES ASSUME InPlace, Stocked, [Next]_vars PROVE Stocked'
  OBVIOUS
<1>1. CASE \E m \in Methods : Call(m)
  BY <1>1, CallStocked
<1>2. CASE CallStub
  BY <1>2, CallStubStocked
<1>3. CASE \E t \in Threads : Step(t)
  BY <1>3, StepStocked
<1>4. CASE UNCHANGED vars
  BY <1>4 DEF vars, control, scope, Stocked, Scripted, FoosFilled, SubjectsFilled, Stock, Wired,
     WantedSubjects, Running
<1> QED
  BY <1>1, <1>2, <1>3, <1>4 DEF Next

-------------------------------------------------------------------------------
(* The validation *)

InValidation == method = "validation" /\ code[Main] = Validation

\* Connections outlive their Foos only in libraries that forget to disconnect,
\* and none is left when the Subject is gone.
StraysCounted ==
  /\ strays # 0 => /\ "sticky" \in fault
                   /\ InValidation \/ (code[Main] = MainUnwinds /\ pc[Main] <= 3)
  /\ InValidation /\ "sticky" \in fault =>
       strays = IF pc[Main] = 7 THEN N - linked[Main] ELSE IF pc[Main] \in 8..10 THEN N ELSE 0

\* The draws that the emissions so far should have made.
Due == N * (count[Main] - 1) + (IF pc[Main] \in 7..11 THEN N ELSE 0)

\* The draws agree with what went wrong, and a library that forgets to
\* disconnect has been found out in the first round.
Judged ==
  /\ wrong \subseteq {"few", "many"}
  /\ wrong = {} => draws = Due
  /\ wrong = {"few"} => draws < Due
  /\ wrong = {"many"} => draws > Due
  /\ "sticky" \in fault /\ (count[Main] > 1 \/ pc[Main] \in 10..11) =>
       "many" \in wrong \/ (N = 1 /\ "loses" \in fault)
  /\ pc[Main] > 11 => count[Main] > N
  /\ pc[Main] <= 12 => outcome \notin {"passed", "failed"}

Judging ==
  /\ draws \in Nat /\ count \in [Threads -> Nat \ {0}]
  /\ method # "validation" /\ code[Main] # <<>> => fault = {}
  /\ StraysCounted
  /\ InValidation => Judged
  /\ ValidationDetects

LEMMA ValidationIs ==
  /\ Len(Validation) = 12 /\ DOMAIN Validation = 1..12
  /\ Validation[1] = "loop" /\ Validation[2] = "subjects" /\ Validation[3] = "foos"
  /\ Validation[4] = "connect" /\ Validation[5] = "emit" /\ Validation[6] = "draw"
  /\ Validation[7] = "~foos" /\ Validation[8] = "emit" /\ Validation[9] = "draw"
  /\ Validation[10] = "~subjects" /\ Validation[11] = "next" /\ Validation[12] = "verdict"
  /\ Where(Validation, "loop") = 1 /\ Where(Validation, "next") = 11
<1> DEFINE c == Validation
<1>1. Len(c) = 12 /\ DOMAIN c = 1..12
  BY DEF Validation
<1>2. /\ c[1] = "loop" /\ c[2] = "subjects" /\ c[3] = "foos" /\ c[4] = "connect"
      /\ c[5] = "emit" /\ c[6] = "draw" /\ c[7] = "~foos" /\ c[8] = "emit"
      /\ c[9] = "draw" /\ c[10] = "~subjects" /\ c[11] = "next" /\ c[12] = "verdict"
  BY DEF Validation
<1> HIDE DEF c
<1>3. Where(c, "loop") = 1 /\ Where(c, "next") = 11
  BY <1>1, <1>2, WhereIs
<1> QED
  BY <1>1, <1>2, <1>3 DEF c

\* Where the validation is, and what it has there.
LEMMA ValidationAt ==
  ASSUME InPlace, Stocked, InValidation
  PROVE  /\ pc[Main] \in 1..13 /\ Main \in Threads /\ pc \in [Threads -> Nat]
         /\ \A op : At(Main, op) => pc[Main] \in 1..12 /\ Validation[pc[Main]] = op
         /\ pc[Main] = 6 => linked[Main] = N
         /\ pc[Main] = 7 => linked[Main] \in 1..N
         /\ pc[Main] \in 8..13 => linked[Main] = 0
         /\ pc[Main] = 10 => subjects = 1
<1>1. Scripted(Main) /\ Scripts[method] = Validation /\ method \in Methods
  BY DEF InValidation, Scripted, Methods, Scripts
<1>2. code[Main] # <<>> /\ code[Main] # MainUnwinds
  BY <1>1, ScriptsNotEmpty, NotUnwinding DEF InValidation
<1>3. pc[Main] \in 1..13
  BY <1>1, <1>2, ValidationIs DEF InPlace, NoScript, InMethod, InUnwinding
<1>4. ASSUME NEW op, At(Main, op) PROVE pc[Main] \in 1..12 /\ Validation[pc[Main]] = op
  BY <1>3, <1>4, ValidationIs DEF At, InValidation
<1>5. /\ Filled(Validation, pc[Main], "foos", "~foos", 4..7, foos[Main], N)
      /\ Filled(Validation, pc[Main], "connect", "~foos", 5..7, linked[Main], N)
      /\ Filled(Validation, pc[Main], "subjects", "~subjects", 3..10, subjects, 1)
  <2>1. FoosFilled(Main) /\ SubjectsFilled
    BY <1>1, ThreadSets DEF Stocked
  <2>2. WantedSubjects = 1
    BY DEF WantedSubjects, InValidation
  <2>3. Stock(Main) = 4..7 /\ Wired(Main) = 5..7 /\ SubjectSpan[method] = 3..10
    BY DEF Stock, Wired, StockSpan, WiredSpan, SubjectSpan, InValidation
  <2> QED
    BY <2>1, <2>2, <2>3 DEF FoosFilled, SubjectsFilled, InValidation
<1>6. pc[Main] = 6 => linked[Main] = N
  BY <1>5, ValidationIs DEF Filled, OpAt
<1>7. pc[Main] = 7 => linked[Main] \in 1..N
  BY <1>5, ValidationIs DEF Filled, OpAt
<1>8. pc[Main] \in 8..13 => linked[Main] = 0
  <2>1. SUFFICES ASSUME pc[Main] \in 8..13 PROVE linked[Main] = 0
    OBVIOUS
  <2>2. ~OpAt(Validation, pc[Main], "connect") /\ ~OpAt(Validation, pc[Main], "~foos") /\ pc[Main] \notin 5..7
    BY <2>1, ValidationIs DEF OpAt
  <2> QED
    BY <1>5, <2>2 DEF Filled
<1>9. pc[Main] = 10 => subjects = 1
  BY <1>5, ValidationIs DEF Filled, OpAt
<1> QED
  BY <1>3, <1>4, <1>6, <1>7, <1>8, <1>9, ThreadSets DEF InPlace, Typed

\* Steps of the validation that neither draw nor count a round.
LEMMA KeepsJudgment ==
  ASSUME InPlace, Stocked, Judging, InValidation,
         UNCHANGED <<method, code, count, fault, wrong, draws, outcome>>,
         NEW q \in Nat, pc'[Main] = q,
         q \in 7..11 <=> pc[Main] \in 7..11,
         q \in 10..11 => pc[Main] \in 10..11,
         q > 11 => pc[Main] > 11 \/ count[Main] > N,
         q <= 12 => pc[Main] <= 12,
         StraysCounted'
  PROVE  Judging'
<1>1. Due' = Due
  BY DEF Due
<1>2. Judged'
  BY <1>1 DEF Judging, Judged
<1>3. ValidationDetects'
  BY DEF Judging, ValidationDetects
<1> QED
  BY <1>2, <1>3 DEF Judging

\* The steps of the validation, one after the other.
LEMMA ValidationMoves ==
  ASSUME InPlace, Stocked, Judging, InValidation, pc[Main] \in 1..12,
         Loop(Main) \/ NewSubject(Main) \/ NewFoo(Main) \/ Connect(Main) \/ Emit(Main)
           \/ DropFoo(Main) \/ DropSubject(Main)
  PROVE  Judging'
<1> DEFINE p == pc[Main]
           q == pc'[Main]
<1>1. /\ p \in 1..13 /\ Main \in Threads /\ pc \in [Threads -> Nat]
      /\ \A op : At(Main, op) => p \in 1..12 /\ Validation[p] = op
      /\ p = 6 => linked[Main] = N
      /\ p = 7 => linked[Main] \in 1..N
      /\ p \in 8..13 => linked[Main] = 0
      /\ p = 10 => subjects = 1
  BY ValidationAt
<1>2. UNCHANGED <<method, code, count, fault, wrong, draws, outcome>>
  BY DEF Loop, NewSubject, NewFoo, Connect, Emit, DropFoo, DropSubject, DoneIf, Done, Goto, control, loop,
     check
<1>3. InValidation' /\ linked[Main] \in Nat /\ N \in Nat \ {0} /\ count[Main] \in Nat
  BY <1>1, <1>2, SizesAssumption DEF InValidation, Stocked, Judging
<1>4. CASE Loop(Main)
  <2>1. p = 1 /\ UNCHANGED strays
    BY <1>1, <1>4, ValidationIs DEF Loop, scope
  <2>2. q = 2 \/ (q = 12 /\ ~(count[Main] <= N))
    BY <1>1, <1>4, <2>1, ValidationIs DEF Loop, Continues, Done, Goto, InValidation
  <2>3. StraysCounted'
    BY <1>2, <1>3, <2>1, <2>2 DEF Judging, StraysCounted
  <2> QED
    BY <1>2, <1>3, <2>1, <2>2, <2>3, KeepsJudgment
<1>5. CASE NewSubject(Main) \/ NewFoo(Main) \/ Connect(Main) \/ Emit(Main)
  <2>1. /\ p \in {2, 3, 4, 5, 8} /\ UNCHANGED strays
        /\ q = p \/ q = p + 1
    BY <1>1, <1>5, ValidationIs DEF NewSubject, NewFoo, Connect, Emit, DoneIf, Done, Goto, control, scope
  <2>2. StraysCounted'
    <3>1. q # 7 /\ (q \in 8..10 <=> p \in 8..10) /\ p # 7
      BY <2>1
    <3>2. "sticky" \in fault => strays = IF p \in 8..10 THEN N ELSE 0
      BY <3>1 DEF Judging, StraysCounted
    <3>3. strays # 0 => "sticky" \in fault
      BY DEF Judging, StraysCounted
    <3> HIDE DEF p, q
    <3> QED
      BY <1>2, <1>3, <2>1, <3>1, <3>2, <3>3 DEF StraysCounted, q
  <2> QED
    BY <1>2, <1>3, <2>1, <2>2, KeepsJudgment
<1>6. CASE DropFoo(Main)
  <2>1. p = 7 /\ linked[Main] \in 1..N /\ foos[Main] = linked[Main]
    <3>1. p = 7
      BY <1>1, <1>6, ValidationIs DEF DropFoo
    <3>2. foos[Main] = linked[Main]
      <4>1. Scripted(Main) /\ pc[Main] \in Wired(Main)
        BY <3>1 DEF Scripted, InValidation, Methods, Scripts, Wired, WiredSpan
      <4> QED
        BY <1>1, <4>1 DEF Stocked, FoosFilled
    <3> QED
      BY <1>1, <3>1, <3>2
  <2>2. /\ linked'[Main] = linked[Main] - 1
        /\ strays' = IF "sticky" \in fault THEN strays + 1 ELSE strays
        /\ q = IF linked[Main] <= 1 THEN 8 ELSE 7
    BY <1>1, <1>3, <1>6, <2>1 DEF DropFoo, DoneIf, Done, Goto, control, Stocked
  <2>3. "sticky" \in fault => strays = N - linked[Main]
    BY <2>1 DEF Judging, StraysCounted
  <2>4. StraysCounted'
    BY <1>2, <1>3, <2>1, <2>2, <2>3 DEF Judging, StraysCounted
  <2> QED
    BY <1>2, <1>3, <2>1, <2>2, <2>4, KeepsJudgment
<1>7. CASE DropSubject(Main)
  <2>1. p = 10 /\ subjects = 1 /\ strays' = 0 /\ q = 11
    BY <1>1, <1>7, ValidationIs DEF DropSubject, DoneIf, Done, Goto
  <2>2. StraysCounted'
    BY <1>2, <1>3, <2>1 DEF Judging, StraysCounted
  <2> QED
    BY <1>2, <1>3, <2>1, <2>2, KeepsJudgment
<1> QED
  BY <1>4, <1>5, <1>6, <1>7

\* A round is counted.
LEMMA ValidationCounts ==
  ASSUME InPlace, Stocked, Judging, InValidation, Increment(Main)
  PROVE  Judging'
<1>1. /\ Main \in Threads /\ pc \in [Threads -> Nat]
      /\ \A op : At(Main, op) => pc[Main] \in 1..12 /\ Validation[pc[Main]] = op
  BY ValidationAt
<1>2. pc[Main] = 11
  BY <1>1, ValidationIs DEF Increment
<1>3. UNCHANGED <<method, code, strays, linked, fault, wrong, draws, outcome>>
  BY DEF Increment, Goto, scope, check
<1>4. /\ count' = [count EXCEPT ![Main] = @ + 1] /\ pc'[Main] = 1
  BY <1>1, ValidationIs DEF Increment, Goto, InValidation
<1>5. count' \in [Threads -> Nat \ {0}] /\ count'[Main] = count[Main] + 1 /\ count[Main] \in Nat \ {0}
  BY <1>1, <1>4 DEF Judging
<1>6. Due' = Due
  <2>1. N * (count[Main] - 1) + N = N * ((count[Main] + 1) - 1)
    BY <1>5, SizesAssumption
  <2>2. Due = N * (count[Main] - 1) + N
    BY <1>2 DEF Due
  <2>3. Due' = N * ((count[Main] + 1) - 1) + 0
    BY <1>4, <1>5 DEF Due
  <2>4. N * ((count[Main] + 1) - 1) \in Int
    BY <1>5, SizesAssumption
  <2> QED
    BY <2>1, <2>2, <2>3, <2>4
<1>7. Judged
  BY DEF Judging
<1>8. Judged'
  BY <1>2, <1>3, <1>4, <1>6, <1>7 DEF Judged
<1>9. StraysCounted'
  BY <1>2, <1>3, <1>4 DEF Judging, StraysCounted, InValidation
<1>10. ValidationDetects'
  BY <1>3 DEF Judging, ValidationDetects
<1> QED
  BY <1>3, <1>5, <1>8, <1>9, <1>10 DEF Judging

\* An emission draws.
LEMMA ValidationDraws ==
  ASSUME InPlace, Stocked, Judging, InValidation, Draw(Main)
  PROVE  Judging'
<1> DEFINE p == pc[Main]
           all == linked[Main] + strays
<1>1. /\ Main \in Threads /\ pc \in [Threads -> Nat]
      /\ \A op : At(Main, op) => p \in 1..12 /\ Validation[p] = op
      /\ p = 6 => linked[Main] = N
      /\ p \in 8..13 => linked[Main] = 0
  BY ValidationAt
<1>2. p \in {6, 9} /\ pc'[Main] = p + 1
  BY <1>1, ValidationIs DEF Draw, Done, Goto
<1>3. UNCHANGED <<method, code, strays, linked, count, fault, outcome>>
  BY DEF Draw, Done, Goto, scope, loop
<1>4. PICK calls \in Calls :
        /\ draws' = draws + calls
        /\ wrong' = wrong \cup (IF calls < linked[Main] THEN {"few"} ELSE {})
                          \cup (IF calls > linked[Main] THEN {"many"} ELSE {})
  BY DEF Draw, InValidation
<1>5. /\ N \in Nat \ {0} /\ draws \in Nat /\ count[Main] \in Nat \ {0}
      /\ strays = IF p = 9 /\ "sticky" \in fault THEN N ELSE 0
      /\ linked[Main] = IF p = 6 THEN N ELSE 0
  BY <1>1, <1>2, SizesAssumption DEF Judging, StraysCounted
<1>6. /\ calls \in Nat
      /\ p = 9 /\ "sticky" \in fault => calls > 0 \/ (N = 1 /\ "loses" \in fault)
  <2>1. all \in Nat
    BY <1>5
  <2>2. \/ calls = all
        \/ calls = all - 1 /\ all > 0 /\ "loses" \in fault
        \/ calls = all + 1
    BY DEF Calls
  <2>3. p = 9 /\ "sticky" \in fault => all = N
    BY <1>5
  <2> QED
    BY <1>5, <2>1, <2>2, <2>3
<1>7. Due' = Due + linked[Main] /\ Due \in Int
  <2>1. N * (count[Main] - 1) \in Int
    BY <1>5
  <2>2. count'[Main] = count[Main]
    BY <1>3
  <2>3. CASE p = 6
    BY <1>2, <1>5, <2>1, <2>2, <2>3 DEF Due
  <2>4. CASE p = 9
    BY <1>2, <1>5, <2>1, <2>2, <2>4 DEF Due
  <2> QED
    BY <1>2, <2>3, <2>4
<1>8. Judged /\ outcome \notin {"passed", "failed"}
  BY <1>2 DEF Judging, Judged
<1>9. /\ "few" \in wrong' <=> "few" \in wrong \/ calls < linked[Main]
      /\ "many" \in wrong' <=> "many" \in wrong \/ calls > linked[Main]
      /\ wrong' \subseteq {"few", "many"}
  BY <1>4, <1>8 DEF Judged
<1>10. Judged'
  <2> DEFINE w == wrong
             v == wrong'
             d == Due
             e == Due'
             k == linked[Main]
  <2>1. w = {} => draws = d
    BY <1>8 DEF Judged
  <2>2. w = {"few"} => draws < d
    BY <1>8 DEF Judged
  <2>3. w = {"many"} => draws > d
    BY <1>8 DEF Judged
  <2>4. /\ e = d + k /\ d \in Int /\ k \in Nat /\ draws' = draws + calls
        /\ draws \in Nat /\ calls \in Nat
    BY <1>4, <1>5, <1>6, <1>7
  <2>5. w \subseteq {"few", "many"}
    BY <1>8 DEF Judged
  <2> HIDE DEF w, v, d, e, k
  <2>6. /\ "few" \in v <=> "few" \in w \/ calls < k
        /\ "many" \in v <=> "many" \in w \/ calls > k
        /\ v \subseteq {"few", "many"}
    BY <1>9 DEF v, w, k
  <2>7. v = {} => draws' = e
    <3>1. v = {} => w = {} /\ calls = k
      BY <2>4, <2>5, <2>6
    <3> QED
      BY <2>1, <2>4, <3>1
  <2>8. v = {"few"} => draws' < e
    <3> SUFFICES ASSUME v = {"few"} PROVE draws' < e
      OBVIOUS
    <3>1. "many" \notin w /\ calls <= k
      BY <2>4, <2>6
    <3>2. "few" \in w \/ calls < k
      BY <2>6
    <3>3. w = {} \/ w = {"few"}
      BY <2>5, <3>1
    <3> QED
      BY <2>1, <2>2, <2>4, <3>1, <3>2, <3>3
  <2>9. v = {"many"} => draws' > e
    <3> SUFFICES ASSUME v = {"many"} PROVE draws' > e
      OBVIOUS
    <3>1. "few" \notin w /\ calls >= k
      BY <2>4, <2>6
    <3>2. "many" \in w \/ calls > k
      BY <2>6
    <3>3. w = {} \/ w = {"many"}
      BY <2>5, <3>1
    <3> QED
      BY <2>1, <2>3, <2>4, <3>1, <3>2, <3>3
  <2>10. "sticky" \in fault /\ (count[Main] > 1 \/ pc'[Main] \in 10..11) =>
           "many" \in v \/ (N = 1 /\ "loses" \in fault)
    <3>1. "sticky" \in fault /\ count[Main] > 1 => "many" \in w \/ (N = 1 /\ "loses" \in fault)
      BY <1>8 DEF Judged, w
    <3>2. pc'[Main] \in 10..11 => p = 9
      BY <1>2
    <3>3. p = 9 => k = 0
      BY <1>5 DEF k
    <3> QED
      BY <1>6, <2>4, <2>6, <3>1, <3>2, <3>3
  <2> QED
    BY <1>2, <1>3, <1>8, <2>6, <2>7, <2>8, <2>9, <2>10 DEF Judged, v, e
<1>11. StraysCounted'
  BY <1>2, <1>3, <1>5 DEF Judging, StraysCounted, InValidation
<1>12. ValidationDetects'
  BY <1>3, <1>8 DEF ValidationDetects
<1>13. draws' \in Nat
  BY <1>4, <1>5, <1>6
<1> QED
  BY <1>3, <1>10, <1>11, <1>12, <1>13 DEF Judging

LEMMA VerdictOfValidation ==
  ASSUME InMethod, At(Main, "verdict")
  PROVE  InValidation
<1>1. pc[Main] \in DOMAIN Scripts[method] /\ Scripts[method][pc[Main]] = "verdict"
  BY Shapes DEF InMethod, At, Shaped
<1>2. method \notin Sampled
  BY <1>1, PaceShapes DEF PaceShape
<1>3. method # "threaded"
  <2>1. \A i \in 1..6 : Threaded[i] # "verdict"
    BY ThreadedAt
  <2>2. DOMAIN Threaded = 1..6
    BY DEF Threaded
  <2>3. Scripts["threaded"] = Threaded
    BY DEF Scripts
  <2> QED
    BY <1>1, <2>1, <2>2, <2>3
<1>4. method = "validation"
  BY <1>2, <1>3 DEF InMethod, Methods, Scripts, Sampled, AfterSpan
<1> QED
  BY <1>4 DEF InMethod, InValidation, Scripts

\* The verdict is what the draws say.
LEMMA VerdictDetects ==
  ASSUME InPlace, Stocked, Judging, Verdict
  PROVE  Judging'
<1>1. InMethod
  BY NothingToDo, UnwindingOps DEF InPlace, Verdict
<1>2. InValidation
  BY <1>1, VerdictOfValidation DEF Verdict
<1>3. /\ Main \in Threads /\ pc \in [Threads -> Nat]
      /\ \A op : At(Main, op) => pc[Main] \in 1..12 /\ Validation[pc[Main]] = op
  BY <1>2, ValidationAt
<1>4. pc[Main] = 12 /\ pc'[Main] = 13
  BY <1>3, ValidationIs DEF Verdict, Done, Goto
<1>5. UNCHANGED <<method, code, strays, linked, count, fault, wrong, draws>>
  BY DEF Verdict, Done, Goto, scope, loop, check
<1>6. Judged /\ count[Main] \in Nat \ {0} /\ N \in Nat \ {0} /\ draws \in Nat
  BY <1>2, <1>3, SizesAssumption DEF Judging
<1>7. Due' = Due /\ Due = N * (count[Main] - 1)
  <2>1. N * (count[Main] - 1) \in Int
    BY <1>6
  <2> QED
    BY <1>4, <1>5, <2>1 DEF Due
<1>8. outcome' = IF draws = Due THEN "passed" ELSE "failed"
  BY <1>7 DEF Verdict
<1>9. Judged'
  BY <1>4, <1>5, <1>6, <1>7 DEF Judged
<1>10. count[Main] > 1
  BY <1>4, <1>6 DEF Judged
<1>11. ValidationDetects'
  <2>1. Due \in Int
    BY <1>6, <1>7
  <2>2. outcome' = "failed" => wrong # {}
    BY <1>6, <1>8 DEF Judged
  <2>3. outcome' = "passed" => draws = Due
    BY <1>8
  <2>4. outcome' = "passed" => wrong # {"few"} /\ wrong # {"many"}
    BY <1>6, <2>1, <2>3 DEF Judged
  <2>5. wrong \in {{}, {"few"}, {"many"}, {"few", "many"}}
    BY <1>6 DEF Judged
  <2>6. outcome' = "passed" /\ "sticky" \in fault =>
          "few" \in wrong \/ (N = 1 /\ "loses" \in fault)
    BY <1>6, <1>10, <2>4, <2>5 DEF Judged
  <2> QED
    BY <1>5, <2>2, <2>4, <2>5, <2>6 DEF ValidationDetects
<1>12. StraysCounted'
  BY <1>4, <1>5 DEF Judging, StraysCounted, InValidation
<1> QED
  BY <1>5, <1>9, <1>11, <1>12 DEF Judging

\* An exception leaves the validation without a verdict.
LEMMA ThrowJudges ==
  ASSUME InPlace, Judging, Throw(Main)
  PROVE  Judging'
<1>1. UNCHANGED <<method, strays, count, fault, wrong, draws, outcome>>
  BY DEF Throw, scope, loop, check
<1>2. code'[Main] = MainUnwinds /\ pc'[Main] = 1
  BY ThreadSets, ShapeOfUnwinding DEF Throw, Run, InPlace, Typed
<1>3. ~InValidation'
  BY <1>2, NotUnwinding DEF InValidation, Methods, Scripts
<1>4. method # "validation" => fault = {}
  <2>1. InMethod \/ InUnwinding
    BY NothingToDo DEF InPlace, Throw, MayThrow
  <2>2. code[Main] # <<>>
    BY <2>1, ScriptsNotEmpty, ShapeOfUnwinding DEF InMethod, InUnwinding
  <2> QED
    BY <2>2 DEF Judging
<1>5. StraysCounted'
  BY <1>1, <1>2, <1>3 DEF Judging, StraysCounted
<1>6. ValidationDetects'
  BY <1>1 DEF Judging, ValidationDetects
<1> QED
  BY <1>1, <1>3, <1>4, <1>5, <1>6 DEF Judging

\* The main thread outside the validation.
LEMMA ElsewhereJudges ==
  ASSUME InPlace, Stocked, Judging, ~InValidation, Step(Main)
  PROVE  Judging'
<1>1. Main \in Threads /\ pc \in [Threads -> Nat] /\ code \in [Threads -> Codes] /\ count \in [Threads -> Nat \ {0}]
  BY ThreadSets DEF InPlace, Typed, Judging
<1>2. \E op : At(Main, op)
  BY DEF Step, Loop, Increment, Reset, Count, NewSubject, DropSubject, NewFoo, DropFoo, Connect, Emit,
     Draw, Throw, Spawn, Get, Join, Return, Verdict, Escape, Copy, Finish
<1>3. code[Main] # <<>>
  BY <1>2 DEF At, InPlace, NoScript, InMethod, InUnwinding
<1>4. InMethod \/ InUnwinding
  BY <1>2, NothingToDo DEF InPlace
<1>5. method # "validation" => fault = {}
  BY <1>3 DEF Judging
<1>6. InMethod => method # "validation" /\ fault = {} /\ strays = 0
  BY <1>5 DEF InMethod, InValidation, Scripts, Judging, StraysCounted
<1>7. ~Draw(Main) \/ UNCHANGED <<draws, wrong>>
  BY <1>4, <1>6, UnwindingOps DEF Draw
<1>8. UNCHANGED <<method, fault, draws, wrong>>
  BY <1>7, ThreadSets DEF Step, Loop, Increment, Reset, Count, NewSubject, DropSubject, NewFoo, DropFoo,
     Connect, Emit, Draw, Throw, Spawn, Get, Join, Return, Verdict, Escape, Copy, Finish, check
<1>9. code'[Main] \in {code[Main], MainUnwinds, <<>>}
  <2>1. CASE Spawn
    BY <2>1, SpawnLeavesMain DEF Spawn, Done, Goto
  <2>2. CASE UNCHANGED code
    BY <2>2
  <2>3. CASE Run(Main, Unwind(Main))
    BY <1>1, <2>3, ShapeOfUnwinding DEF Run
  <2> QED
    BY <2>1, <2>2, <2>3, ThreadSets DEF Step, Loop, Increment, Reset, Count, NewSubject, DropSubject, NewFoo,
       DropFoo, Connect, Emit, Draw, Throw, Get, Join, Return, Verdict, Escape, DoneIf, Done, Goto,
       control
<1>10. ~InValidation'
  BY <1>8, <1>9, NotUnwinding, ScriptsNotEmpty DEF InValidation, Methods, Scripts
<1>11. count' \in [Threads -> Nat \ {0}]
  BY <1>1, ThreadSets DEF Step, Loop, Increment, Reset, Count, NewSubject, DropSubject, NewFoo, DropFoo,
     Connect, Emit, Draw, Throw, Spawn, Get, Join, Return, Verdict, Escape, loop
<1>12. outcome' \notin {"passed", "failed"} \/ outcome' = outcome
  <2>1. ~Verdict
    BY <1>4, VerdictOfValidation, UnwindingOps DEF Verdict
  <2>2. Score \notin {"passed", "failed"}
    BY DEF Score
  <2> QED
    BY <2>1, <2>2, ThreadSets DEF Step, Loop, Increment, Reset, Count, NewSubject, DropSubject, NewFoo,
       DropFoo, Connect, Emit, Draw, Throw, Spawn, Get, Join, Return, Escape
<1>13. ValidationDetects'
  BY <1>8, <1>12 DEF Judging, ValidationDetects
<1>14. StraysCounted'
  <2>1. CASE InMethod
    <3>1. strays' = 0
      BY <1>6, <2>1, ThreadSets DEF Step, Loop, Increment, Reset, Count, NewSubject, DropSubject, NewFoo,
         DropFoo, Connect, Emit, Draw, Throw, Spawn, Get, Join, Return, Verdict, Escape, scope
    <3> QED
      BY <1>10, <3>1 DEF StraysCounted
  <2>2. CASE InUnwinding
    <3>1. Join \/ DropFoo(Main) \/ DropSubject(Main) \/ Escape
      BY <2>2, UnwindingOps, ThreadSets DEF Step, Loop, Increment, Reset, Count, NewSubject, NewFoo, Connect,
         Emit, Draw, Throw, MayThrow, Spawn, Get, Return, Verdict
    <3>2. code'[Main] = MainUnwinds /\ UNCHANGED code
      BY <2>2, <3>1 DEF Join, DropFoo, DropSubject, Escape, DoneIf, Done, Goto, control, InUnwinding
    <3>3. CASE Join
      <4>1. pc'[Main] = 2 /\ strays' = strays
        BY <1>1, <2>2, <3>3, UnwindingOps DEF Join, Done, Goto, scope
      <4> QED
        BY <1>8, <1>10, <3>2, <4>1 DEF StraysCounted, Judging
    <3>4. CASE DropFoo(Main)
      <4>1. pc'[Main] \in {2, 3} /\ (strays' # 0 => strays # 0 \/ "sticky" \in fault)
        BY <1>1, <2>2, <3>4, UnwindingOps DEF DropFoo, DoneIf, Done, Goto, control
      <4> QED
        BY <1>8, <1>10, <3>2, <4>1 DEF StraysCounted, Judging
    <3>5. CASE DropSubject(Main)
      BY <1>10, <3>5 DEF DropSubject, StraysCounted
    <3>6. CASE Escape
      <4>1. pc[Main] = 4 /\ strays' = strays
        BY <2>2, <3>6, UnwindingOps DEF Escape, scope
      <4>2. strays = 0
        BY <4>1 DEF StraysCounted, Judging, InValidation
      <4> QED
        BY <1>10, <4>1, <4>2 DEF StraysCounted
    <3> QED
      BY <3>1, <3>3, <3>4, <3>5, <3>6
  <2> QED
    BY <1>4, <2>1, <2>2
<1>15. draws' \in Nat
  BY <1>8 DEF Judging
<1> QED
  BY <1>3, <1>5, <1>8, <1>10, <1>11, <1>13, <1>14, <1>15 DEF Judging

LEMMA MainJudges ==
  ASSUME InPlace, Stocked, Judging, Step(Main)
  PROVE  Judging'
<1>1. CASE InValidation
  <2>1. \A op : At(Main, op) => pc[Main] \in 1..12 /\ Validation[pc[Main]] = op
    BY <1>1, ValidationAt
  <2>2. \A op \in {"reset", "count", "spawn", "get", "join", "return", "throw"} : ~At(Main, op)
    BY <2>1, ValidationIs
  <2>3. \/ Loop(Main) \/ NewSubject(Main) \/ NewFoo(Main) \/ Connect(Main) \/ Emit(Main)
        \/ DropFoo(Main) \/ DropSubject(Main)
        \/ Increment(Main) \/ Draw(Main) \/ Throw(Main) \/ Verdict
    BY <2>2, ThreadSets DEF Step, Reset, Count, Spawn, Get, Join, Return, Escape
  <2>4. pc[Main] \in 1..12
    <3>1. \E op : At(Main, op)
      BY <2>3 DEF Loop, NewSubject, NewFoo, Connect, Emit, DropFoo, DropSubject, Increment, Draw, Throw,
         Verdict
    <3> QED
      BY <2>1, <3>1
  <2> QED
    BY <1>1, <2>3, <2>4, ValidationMoves, ValidationCounts, ValidationDraws, ThrowJudges, VerdictDetects
<1>2. CASE ~InValidation
  BY <1>2, ElsewhereJudges
<1> QED
  BY <1>1, <1>2

\* The workers have nothing to do with a validation.
LEMMA WorkerJudges ==
  ASSUME InPlace, Stocked, Judging, NEW w \in Workers, Step(w)
  PROVE  Judging'
<1>1. Running # {} /\ method = "threaded"
  BY WorkerSteppingRuns DEF Stocked
<1>2. code[Main] # <<>>
  <2>1. InMethod \/ InUnwinding
    BY <1>1 DEF InPlace, NoScript
  <2> QED
    BY <2>1, ScriptsNotEmpty, ShapeOfUnwinding DEF InMethod, InUnwinding
<1>3. fault = {} /\ strays = 0
  BY <1>1, <1>2 DEF Judging, StraysCounted
<1>4. w \in Threads /\ w # Main /\ Main \in Threads
  BY ThreadSets
<1>5. ~DropSubject(w)
  BY WorkerOps DEF DropSubject
<1>6. UNCHANGED <<method, fault, wrong, draws, outcome, strays>>
  BY <1>1, <1>3, <1>4, <1>5 DEF Step, Loop, Increment, Reset, Count, NewSubject, NewFoo, DropFoo, Connect,
     Emit, Draw, Throw, Copy, Finish, scope, check
<1>7. count' \in [Threads -> Nat \ {0}]
  BY <1>4, <1>5 DEF Step, Loop, Increment, Reset, Count, NewSubject, NewFoo, DropFoo, Connect,
     Emit, Draw, Throw, Copy, Finish, loop, Judging
<1>8. ~InValidation' /\ ValidationDetects'
  BY <1>1, <1>6 DEF InValidation, Judging, ValidationDetects
<1>9. StraysCounted'
  BY <1>3, <1>6, <1>8 DEF StraysCounted
<1> QED
  BY <1>3, <1>6, <1>7, <1>8, <1>9 DEF Judging

LEMMA CallJudges ==
  ASSUME InPlace, Stocked, Judging, NEW m \in Methods, Call(m)
  PROVE  Judging'
<1>1. /\ method' = m /\ wrong' = {} /\ draws' = 0 /\ outcome' = "none" /\ strays' = strays
      /\ count' = [t \in Threads |-> 1] /\ Idle
      /\ fault' \in IF m = "validation" THEN SUBSET Faults ELSE {{}}
  BY DEF Call, scope
<1>2. code'[Main] = Scripts[m] /\ pc'[Main] = 1
  BY ThreadSets DEF Call, Run, InPlace, Typed
<1>3. strays = 0
  <2>1. ASSUME InValidation PROVE strays = 0
    <3>1. pc[Main] \in 1..13 /\ pc[Main] > 12
      BY <1>1, <2>1, ValidationAt, ValidationIs DEF Idle, InValidation
    <3> QED
      BY <2>1, <3>1 DEF Judging, StraysCounted
  <2>2. ASSUME code[Main] = MainUnwinds PROVE ~(pc[Main] <= 3)
    BY <1>1, <2>2, ThreadSets, ShapeOfUnwinding DEF Idle, InPlace, Typed
  <2> QED
    BY <2>1, <2>2 DEF Judging, StraysCounted
<1>4. count'[Main] = 1 /\ count' \in [Threads -> Nat \ {0}]
  BY <1>1, ThreadSets
<1>5. Judged'
  <2>1. Due' = 0
    BY <1>2, <1>4, SizesAssumption DEF Due
  <2> QED
    BY <1>1, <1>2, <1>4, <2>1 DEF Judged
<1>6. StraysCounted'
  BY <1>1, <1>2, <1>3 DEF StraysCounted
<1>7. ValidationDetects'
  BY <1>1 DEF ValidationDetects
<1> QED
  BY <1>1, <1>4, <1>5, <1>6, <1>7 DEF Judging

LEMMA CallStubJudges ==
  ASSUME InPlace, Stocked, Judging, CallStub
  PROVE  Judging'
<1>1. /\ method' = "threaded" /\ outcome' = "zero" /\ Idle
      /\ UNCHANGED <<wrong, draws, strays, count, fault>>
  BY DEF CallStub, scope, loop, check
<1>2. code'[Main] = <<>>
  BY ThreadSets DEF CallStub, Run, InPlace, Typed
<1>3. strays = 0
  <2>1. ASSUME InValidation PROVE strays = 0
    <3>1. pc[Main] \in 1..13 /\ pc[Main] > 12
      BY <1>1, <2>1, ValidationAt, ValidationIs DEF Idle, InValidation
    <3> QED
      BY <2>1, <3>1 DEF Judging, StraysCounted
  <2>2. ASSUME code[Main] = MainUnwinds PROVE ~(pc[Main] <= 3)
    BY <1>1, <2>2, ThreadSets, ShapeOfUnwinding DEF Idle, InPlace, Typed
  <2> QED
    BY <2>1, <2>2 DEF Judging, StraysCounted
<1> QED
  BY <1>1, <1>2, <1>3 DEF Judging, InValidation, StraysCounted, ValidationDetects

LEMMA InitJudging == Init => Judging
<1> SUFFICES ASSUME Init PROVE Judging
  OBVIOUS
<1>1. /\ draws = 0 /\ count = [t \in Threads |-> 1] /\ strays = 0 /\ outcome = "none" /\ fault = {}
      /\ method = "none"
  BY DEF Init
<1> QED
  BY <1>1 DEF Judging, StraysCounted, InValidation, ValidationDetects

LEMMA NextJudging == InPlace /\ Stocked /\ Judging /\ [Next]_vars => Judging'
<1> SUFFICES ASSUME InPlace, Stocked, Judging, [Next]_vars PROVE Judging'
  OBVIOUS
<1>1. CASE \E m \in Methods : Call(m)
  BY <1>1, CallJudges
<1>2. CASE CallStub
  BY <1>2, CallStubJudges
<1>3. CASE Step(Main)
  BY <1>3, MainJudges
<1>4. CASE \E w \in Workers : Step(w)
  BY <1>4, WorkerJudges
<1>5. CASE UNCHANGED vars
  BY <1>5 DEF vars, control, scope, loop, check, Judging, StraysCounted, InValidation, Judged, Due,
     ValidationDetects
<1> QED
  BY <1>1, <1>2, <1>3, <1>4, <1>5, ThreadSets DEF Next

\* A library fails the validation only if one of its emissions went wrong, and
\* passes in spite of one only if the others make up for it; the second
\* emission finds out the libraries that forget to disconnect, in every test
\* of more than one Foo.
THEOREM FaultyLibrariesFail == Spec => []ValidationDetects
<1>1. Judging => ValidationDetects
  BY DEF Judging
<1> QED
  BY <1>1, InitInPlace, NextInPlace, InitStocked, NextStocked, InitJudging, NextJudging, PTL DEF Spec

-------------------------------------------------------------------------------
(* What the timers have seen *)

\* Where the timer of a sample runs, and the one operation it is to see.
Windows ==
  [construction |-> 3..4, destruction |-> 4..5, connection |-> 5..6, disconnect |-> 6..7,
   reconnect    |-> 5..6, emission    |-> 6..8]

Named ==
  [construction |-> "subjects", destruction |-> "~subjects", connection |-> "connect",
   disconnect   |-> "~foos",    reconnect   |-> "connect",   emission   |-> "emit"]

\* The methods that reset their timer for every sample.
Fresh == DOMAIN Windows

\* How often a thread has done an operation that it is still doing, and how
\* often it does it.
Progress(t, op) ==
  CASE op = "subjects"  -> subjects
    [] op = "~subjects" -> WantedSubjects - subjects
    [] op = "connect"   -> linked[t]
    [] op = "~foos"     -> N - foos[t]
    [] OTHER            -> 0

Units(op) == IF op \in {"subjects", "~subjects"} THEN WantedSubjects ELSE N

\* The timer of a sample has seen what the method is named for, and nothing else.
FreshTimer ==
  method \in Fresh /\ code[Main] = Scripts[method] /\ pc[Main] \in Windows[method] =>
    \A op \in Timable :
      timed[Main][op] = IF op # Named[method] THEN 0
                        ELSE IF At(Main, op) THEN Progress(Main, op) ELSE Units(op)

\* The threads that run the loop of the combined methods, and where it starts.
Rounds(t) ==
  IF t = Main THEN method = "combined" /\ code[Main] = Combined ELSE code[t] = Context

LoopAt(t) == IF t = Main THEN 3 ELSE 2

\* Their timer has seen N of everything in each sample taken, and of the round
\* that is under way what was done so far; the emissions of a worker also call
\* the Foos of others.
RoundTimer(t) ==
  LET place == pc[t] - LoopAt(t)
      past  == N * samples[t]
  IN  /\ place < 0 => samples[t] = 0
      /\ timed[t]["connect"] =
           past + (IF place = 2 THEN linked[t] ELSE IF place \in 3..6 THEN N ELSE 0)
      /\ timed[t]["emit"] >= past + (IF place \in 4..6 THEN N ELSE 0)
      /\ t = Main => timed[t]["emit"] = past + (IF place \in 4..6 THEN N ELSE 0)
      /\ timed[t]["~foos"] =
           past + (IF place = 5 THEN N - foos[t] ELSE IF place = 6 THEN N ELSE 0)

Clocked == timed \in [Threads -> [Timable -> Nat]] /\ samples \in [Threads -> Nat]

Timed ==
  /\ Clocked
  /\ FreshTimer
  /\ \A t \in Threads : Rounds(t) => RoundTimer(t)
  /\ \A w \in Workers : future[w] = "none" =>
       samples[w] = 0 /\ \A op \in Timable : timed[w][op] = 0

\* An emission makes some number of calls.
LEMMA EmissionEnds == IsFiniteSet(Connected) /\ Cardinality(Connected) \in Nat
<1>1. N \in Nat \ {0} /\ MaxWorkers \in Nat
  BY SizesAssumption
<1>2. IsFiniteSet(0..MaxWorkers) /\ IsFiniteSet(1..N)
  BY <1>1, FS_Interval
<1>3. Threads = 0..MaxWorkers
  BY <1>1 DEF Threads, Workers, Main
<1>4. IsFiniteSet(Threads \X (1..N))
  BY <1>2, <1>3, FS_Product
<1>5. Connected \in SUBSET (Threads \X (1..N))
  BY DEF Connected
<1> QED
  BY <1>4, <1>5, FS_Subset, FS_CardinalityType

\* It calls the Foos of its thread, and where nobody else has any these are all.
LEMMA EmissionCalls ==
  ASSUME Stocked, NEW t \in Threads, linked[t] = N
  PROVE  /\ Cardinality(Connected) >= N
         /\ (\A u \in Threads \ {t} : linked[u] = 0) => Cardinality(Connected) = N
<1> DEFINE mine == {t} \X (1..N)
<1>1. N \in Nat \ {0} /\ linked \in [Threads -> Nat]
  BY SizesAssumption DEF Stocked
<1>2. Cardinality(mine) = N
  <2>1. IsFiniteSet({t}) /\ Cardinality({t}) = 1
    BY FS_Singleton
  <2>2. IsFiniteSet(1..N) /\ Cardinality(1..N) = N
    BY <1>1, FS_Interval
  <2>3. Cardinality(mine) = Cardinality({t}) * Cardinality(1..N)
    BY <2>1, <2>2, FS_Product
  <2> QED
    BY <1>1, <2>1, <2>2, <2>3
<1>3. mine \in SUBSET Connected
  BY <1>1 DEF Connected
<1>4. Cardinality(mine) <= Cardinality(Connected)
  BY <1>3, EmissionEnds, FS_Subset
<1>5. ASSUME \A u \in Threads \ {t} : linked[u] = 0 PROVE Connected = mine
  BY <1>1, <1>3, <1>5 DEF Connected
<1> QED
  BY <1>2, <1>4, <1>5, EmissionEnds

\* Outside `threaded` only the main thread has Foos.
LEMMA NoOthers ==
  ASSUME InPlace, Stocked, method # "threaded"
  PROVE  \A u \in Threads \ {Main} : linked[u] = 0
<1> SUFFICES ASSUME NEW u \in Workers PROVE linked[u] = 0
  BY ThreadSets
<1>1. Running = {} /\ u \in Threads
  BY ThreadSets DEF Stocked
<1>2. foos[u] = 0
  BY <1>1 DEF InPlace, WorkerOK, Running
<1> QED
  BY <1>1, <1>2 DEF Stocked

LEMMA SampleShapes ==
  /\ Fresh = {"construction", "destruction", "connection", "disconnect", "reconnect", "emission"}
  /\ \A m \in Fresh : /\ SampleShape(Scripts[m], Windows[m], Named[m])
                      /\ Promised[m] = {Named[m]}
                      /\ m \in Methods
                      /\ Named[m] \in {"subjects", "~subjects", "connect", "~foos", "emit"}
                      /\ Named[m] = "emit" => m = "emission"
                      /\ m \in {"construction", "destruction"} <=> Named[m] \in {"subjects", "~subjects"}
<1>1. Fresh = {"construction", "destruction", "connection", "disconnect", "reconnect", "emission"}
  BY DEF Fresh, Windows
<1>2. \A m \in Fresh : /\ Promised[m] = {Named[m]}
                       /\ m \in Methods
                       /\ Named[m] \in {"subjects", "~subjects", "connect", "~foos", "emit"}
                       /\ Named[m] = "emit" => m = "emission"
                       /\ m \in {"construction", "destruction"} <=> Named[m] \in {"subjects", "~subjects"}
  BY <1>1 DEF Promised, Named, Methods, Scripts
<1>3. SampleShape(Scripts["construction"], Windows["construction"], Named["construction"])
  BY ShapeOfConstruction DEF Scripts, Windows, Named
<1>4. SampleShape(Scripts["destruction"], Windows["destruction"], Named["destruction"])
  BY ShapeOfDestruction DEF Scripts, Windows, Named
<1>5. SampleShape(Scripts["connection"], Windows["connection"], Named["connection"])
  BY ShapeOfConnection DEF Scripts, Windows, Named
<1>6. SampleShape(Scripts["disconnect"], Windows["disconnect"], Named["disconnect"])
  BY ShapeOfDisconnect DEF Scripts, Windows, Named
<1>7. SampleShape(Scripts["reconnect"], Windows["reconnect"], Named["reconnect"])
  BY ShapeOfReconnect DEF Scripts, Windows, Named
<1>8. SampleShape(Scripts["emission"], Windows["emission"], Named["emission"])
  BY ShapeOfEmission DEF Scripts, Windows, Named
<1> QED
  BY <1>1, <1>2, <1>3, <1>4, <1>5, <1>6, <1>7, <1>8

\* A timer sees an operation.
LEMMA SeesOne ==
  ASSUME Clocked, NEW t \in Threads, NEW op \in Timable, NEW n \in Nat, Sees(t, op, n)
  PROVE  /\ timed' \in [Threads -> [Timable -> Nat]]
         /\ timed'[t][op] = timed[t][op] + n
         /\ \A o \in Timable \ {op} : timed'[t][o] = timed[t][o]
         /\ \A u \in Threads \ {t} : timed'[u] = timed[u]
<1> DEFINE row == [timed[t] EXCEPT ![op] = timed[t][op] + n]
<1>1. timed' = [timed EXCEPT ![t] = row]
  BY DEF Sees
<1>2. timed[t] \in [Timable -> Nat] /\ timed[t][op] + n \in Nat
  BY DEF Clocked
<1>3. row \in [Timable -> Nat] /\ row[op] = timed[t][op] + n
      /\ \A o \in Timable \ {op} : row[o] = timed[t][o]
  BY <1>2
<1> HIDE DEF row
<1>4. timed'[t] = row /\ timed' \in [Threads -> [Timable -> Nat]]
      /\ \A u \in Threads \ {t} : timed'[u] = timed[u]
  BY <1>1, <1>3 DEF Clocked
<1> QED
  BY <1>3, <1>4

\* The steps there are, as far as the timers go.
LEMMA TimerKinds ==
  ASSUME NEW t \in Threads, Step(t)
  PROVE  \/ \E op : /\ Advance(t, op) /\ op \notin Timable \cup {"reset", "count"}
                    /\ UNCHANGED <<subjects, foos, linked, timed, samples>>
         \/ Reset(t) \/ Count(t)
         \/ NewSubject(t) \/ DropSubject(t) \/ NewFoo(t) \/ DropFoo(t) \/ Connect(t) \/ Emit(t)
         \/ \E script \in {Unwind(t), <<>>} : Run(t, script) /\ UNCHANGED <<timed, samples>>
         \/ t = Main /\ Spawn /\ Cardinality(Started) # crew /\ UNCHANGED <<timed, samples>>
<1> DEFINE same == UNCHANGED <<subjects, foos, linked, timed, samples>>
           Quiet == \E op : Advance(t, op) /\ op \notin Timable \cup {"reset", "count"} /\ same
           Leaves == \E script \in {Unwind(t), <<>>} : Run(t, script) /\ UNCHANGED <<timed, samples>>
<1>1. ASSUME NEW op, At(t, op), op \notin Timable \cup {"reset", "count"}, Done(t), same
      PROVE  Quiet
  BY <1>1 DEF Advance, Done, Goto
<1>2. CASE Loop(t)
  <2>1. Advance(t, "loop") /\ "loop" \notin Timable \cup {"reset", "count"} /\ same
    BY <1>2 DEF Loop, Advance, Done, Goto, scope, loop, Timable
  <2> QED
    BY <2>1
<1>3. CASE Increment(t)
  <2>1. Advance(t, "next") /\ "next" \notin Timable \cup {"reset", "count"} /\ same
    BY <1>3 DEF Increment, Advance, Goto, scope, Timable
  <2> QED
    BY <2>1
<1>4. CASE Draw(t)
  BY <1>1, <1>4 DEF Draw, scope, loop, Timable
<1>5. CASE Throw(t)
  BY <1>5 DEF Throw, loop
<1>6. CASE t = Main /\ Spawn
  BY <1>1, <1>6 DEF Spawn, scope, loop, Timable
<1>7. CASE t = Main /\ Get
  <2>1. CASE Done(Main)
    BY <1>1, <1>7, <2>1 DEF Get, scope, loop, Timable
  <2>2. CASE Run(Main, Unwind(Main))
    BY <1>7, <2>2 DEF Get, loop
  <2>3. CASE UNCHANGED control
    <3>1. Advance(t, "get") /\ "get" \notin Timable \cup {"reset", "count"} /\ same
      BY <1>7, <2>3 DEF Get, Advance, control, scope, loop, Timable
    <3> QED
      BY <3>1
  <2> QED
    BY <1>7, <2>1, <2>2, <2>3 DEF Get
<1>8. CASE t = Main /\ (Join \/ Return \/ Verdict \/ Escape)
  BY <1>1, <1>8 DEF Join, Return, Verdict, Escape, scope, loop, Timable
<1>9. CASE Copy(t)
  BY <1>1, <1>9 DEF Copy, scope, loop, Timable
<1>10. CASE Finish(t)
  BY <1>10 DEF Finish, loop
<1> QED
  BY <1>2, <1>3, <1>4, <1>5, <1>6, <1>7, <1>8, <1>9, <1>10 DEF Step

\* Nobody touches the timer of another thread.
LEMMA OwnTimer ==
  ASSUME InPlace, Stocked, Clocked, NEW t \in Threads, Step(t)
  PROVE  Clocked' /\ \A u \in Threads \ {t} : timed'[u] = timed[u] /\ samples'[u] = samples[u]
<1> DEFINE Goal == Clocked' /\ \A u \in Threads \ {t} : timed'[u] = timed[u] /\ samples'[u] = samples[u]
<1>1. ASSUME NEW op \in Timable, NEW n \in Nat, Sees(t, op, n), samples' = samples PROVE Goal
  BY <1>1, SeesOne DEF Clocked
<1>2. CASE UNCHANGED <<timed, samples>>
  BY <1>2 DEF Clocked
<1>3. CASE Reset(t)
  <2>1. [op \in Timable |-> 0] \in [Timable -> Nat]
    OBVIOUS
  <2> QED
    BY <1>3, <2>1 DEF Reset, loop, Clocked
<1>4. CASE Count(t)
  BY <1>4 DEF Count, Clocked
<1>5. CASE NewSubject(t) \/ NewFoo(t) \/ Connect(t)
  BY <1>1, <1>5 DEF NewSubject, NewFoo, Connect, loop, Timable
<1>6. CASE DropSubject(t)
  BY <1>1, <1>2, <1>6 DEF DropSubject, loop, Timable
<1>7. CASE DropFoo(t)
  BY <1>1, <1>2, <1>7 DEF DropFoo, loop, Timable
<1>8. CASE Emit(t)
  BY <1>1, <1>8, EmissionEnds DEF Emit, loop, Timable
<1> QED
  BY <1>2, <1>3, <1>4, <1>5, <1>6, <1>7, <1>8, TimerKinds

\* Where the main thread is in a method that resets its timer.
LEMMA FreshAt ==
  ASSUME InPlace, method \in Fresh, code[Main] = Scripts[method]
  PROVE  /\ SampleShape(code[Main], Windows[method], Named[method])
         /\ DOMAIN code[Main] = 1..Len(code[Main]) /\ Len(code[Main]) \in Nat
         /\ Main \in Threads /\ pc \in [Threads -> Nat] /\ foos[Main] \in Nat
         /\ Scripted(Main)
         /\ \A op : At(Main, op) => OpAt(code[Main], pc[Main], op)
<1>1. method \in Methods /\ SampleShape(Scripts[method], Windows[method], Named[method])
  BY SampleShapes
<1>2. DOMAIN Scripts[method] = 1..Len(Scripts[method]) /\ Len(Scripts[method]) \in Nat
  BY <1>1, Shapes DEF Shaped
<1>3. Main \in Threads /\ pc \in [Threads -> Nat] /\ foos[Main] \in Nat /\ Scripted(Main)
  BY <1>1, ThreadSets DEF InPlace, Typed, Scripted
<1> QED
  BY <1>1, <1>2, <1>3, ScriptedAt

\* The sample begins before its operation.
LEMMA ResetBegins ==
  ASSUME InPlace, Stocked, method \in Fresh, code[Main] = Scripts[method], At(Main, "reset")
  PROVE  Progress(Main, Named[method]) = 0
<1> DEFINE c == code[Main]
           p == pc[Main]
           o == Named[method]
<1>1. /\ OpAt(c, p, "reset") /\ p + 1 \in DOMAIN c /\ c[p + 1] = o
      /\ PairShape(c, "subjects", "~subjects", SubjectSpan[method])
      /\ StockShape(c, Stock(Main), Wired(Main))
  BY FreshAt, ScriptedAt DEF SampleShape, OpAt
<1>2. /\ Filled(c, p, "subjects", "~subjects", SubjectSpan[method], subjects, WantedSubjects)
      /\ Filled(c, p, "foos", "~foos", Stock(Main), foos[Main], N)
      /\ Filled(c, p, "connect", "~foos", Wired(Main), linked[Main], N)
  BY FreshAt DEF Stocked, SubjectsFilled, FoosFilled
<1> HIDE DEF c, p, o
<1>3. CASE o = "subjects"
  <2>1. p \notin SubjectSpan[method]
    BY <1>1, <1>3 DEF PairShape, OpAt
  <2> QED
    BY <1>1, <1>2, <1>3, <2>1 DEF Progress, Filled, OpAt, o
<1>4. CASE o = "~subjects"
  <2>1. p \in SubjectSpan[method]
    BY <1>1, <1>4 DEF PairShape, OpAt
  <2>2. subjects = WantedSubjects
    BY <1>1, <1>2, <2>1 DEF Filled, OpAt
  <2> QED
    BY <1>4, <2>2, SubjectsWanted DEF Progress, o
<1>5. CASE o = "connect"
  <2>1. p \notin Wired(Main)
    BY <1>1, <1>5 DEF StockShape, PairShape, OpAt
  <2> QED
    BY <1>1, <1>2, <1>5, <2>1 DEF Progress, Filled, OpAt, o
<1>6. CASE o = "~foos"
  <2>1. p \in Stock(Main)
    BY <1>1, <1>6 DEF StockShape, PairShape, OpAt
  <2>2. foos[Main] = N
    BY <1>1, <1>2, <2>1 DEF Filled, OpAt
  <2> QED
    BY <1>6, <2>2, SizesAssumption DEF Progress, o
<1>7. CASE o = "emit"
  BY <1>7 DEF Progress, o
<1> QED
  BY <1>3, <1>4, <1>5, <1>6, <1>7, SampleShapes DEF o

\* The operation that the method is named for, done once more.
LEMMA NamedOnce ==
  ASSUME InPlace, Stocked, Clocked, method \in Fresh, code[Main] = Scripts[method],
         NEW op \in Timable, op = Named[method], At(Main, op), Step(Main),
         timed[Main][op] = Progress(Main, op), pc[Main] \in Windows[method],
         NewSubject(Main) \/ DropSubject(Main) \/ NewFoo(Main) \/ DropFoo(Main) \/ Connect(Main) \/ Emit(Main)
  PROVE  /\ \A x \in Timable \ {op} : timed'[Main][x] = timed[Main][x]
         /\ UNCHANGED <<method, code>>
         /\ \/ pc'[Main] = pc[Main] /\ timed'[Main][op] = Progress(Main, op)'
            \/ pc'[Main] = pc[Main] + 1 /\ timed'[Main][op] = Units(op)
<1> DEFINE c == code[Main]
           p == pc[Main]
           Goal == /\ \A x \in Timable \ {op} : timed'[Main][x] = timed[Main][x]
                   /\ \/ pc'[Main] = pc[Main] /\ timed'[Main][op] = Progress(Main, op)'
                      \/ pc'[Main] = pc[Main] + 1 /\ timed'[Main][op] = Units(op)
<1>1. /\ Main \in Threads /\ pc \in [Threads -> Nat] /\ OpAt(c, p, op) /\ Scripted(Main)
      /\ foos \in [Threads -> Nat] /\ linked \in [Threads -> Nat]
  BY FreshAt DEF Stocked, InPlace, Typed
<1>2. /\ SubjectsFilled /\ FoosFilled(Main) /\ N \in Nat \ {0} /\ WantedSubjects \in Nat \ {0}
      /\ StockShape(c, Stock(Main), Wired(Main))
      /\ PairShape(c, "subjects", "~subjects", SubjectSpan[method])
  BY <1>1, SizesAssumption, SubjectsWanted, ScriptedAt DEF Stocked
<1>3. \A x : At(Main, x) => x = op
  BY DEF At
<1>4. UNCHANGED <<method, code>> /\ WantedSubjects' = WantedSubjects
  BY DEF NewSubject, DropSubject, NewFoo, DropFoo, Connect, Emit, DoneIf, Done, Goto, control, WantedSubjects
<1>5. CASE NewSubject(Main)
  <2>1. op = "subjects" /\ timed[Main][op] = subjects
    BY <1>3, <1>5 DEF NewSubject, Progress
  <2>2. subjects \in 0..(WantedSubjects - 1)
    BY <1>1, <1>2, <2>1 DEF SubjectsFilled, Filled
  <2>3. /\ timed'[Main][op] = subjects + 1 /\ subjects' = subjects + 1
        /\ \A x \in Timable \ {op} : timed'[Main][x] = timed[Main][x]
    <3>1. Sees(Main, op, 1) /\ subjects' = subjects + 1
      BY <1>5, <2>1 DEF NewSubject
    <3>2. op \in Timable /\ 1 \in Nat
      BY <1>2
    <3>3. /\ timed'[Main][op] = timed[Main][op] + 1
          /\ \A x \in Timable \ {op} : timed'[Main][x] = timed[Main][x]
      BY <1>1, <3>1, <3>2, SeesOne
    <3> QED
      BY <2>1, <3>1, <3>3
  <2>4. pc'[Main] = IF subjects + 1 = WantedSubjects THEN p + 1 ELSE p
    BY <1>1, <1>5 DEF NewSubject, DoneIf, Done, Goto, control
  <2> QED
    BY <1>4, <2>1, <2>3, <2>4 DEF Progress, Units
<1>6. CASE DropSubject(Main)
  <2>1. op = "~subjects" /\ timed[Main][op] = WantedSubjects - subjects
    BY <1>3, <1>6 DEF DropSubject, Progress
  <2>2. subjects \in 1..WantedSubjects
    BY <1>1, <1>2, <1>6, DropSubjectFilled
  <2>3. Sees(Main, "~subjects", 1) /\ subjects' = subjects - 1
    BY <1>2, <1>6, <2>2 DEF DropSubject
  <2>4. /\ timed'[Main][op] = timed[Main][op] + 1
        /\ \A x \in Timable \ {op} : timed'[Main][x] = timed[Main][x]
    BY <1>1, <2>1, <2>3, SeesOne
  <2>5. pc'[Main] = IF subjects <= 1 THEN p + 1 ELSE p
    BY <1>1, <1>6 DEF DropSubject, DoneIf, Done, Goto, control
  <2>6. timed'[Main][op] = WantedSubjects - subjects'
    BY <1>2, <2>1, <2>2, <2>3, <2>4
  <2>7. subjects <= 1 => timed'[Main][op] = WantedSubjects
    BY <1>2, <2>2, <2>3, <2>6
  <2> QED
    BY <1>4, <2>1, <2>4, <2>5, <2>6, <2>7 DEF Progress, Units
<1>7. CASE NewFoo(Main)
  BY <1>3, <1>7, SampleShapes DEF NewFoo
<1>8. CASE DropFoo(Main)
  <2>1. op = "~foos" /\ timed[Main][op] = N - foos[Main]
    BY <1>3, <1>8 DEF DropFoo, Progress
  <2>2. foos[Main] \in 1..N
    BY <1>1, <1>2, <2>1, FilledDrops DEF FoosFilled, StockShape
  <2>3. Sees(Main, "~foos", 1) /\ foos'[Main] = foos[Main] - 1
    BY <1>1, <1>2, <1>8, <2>2 DEF DropFoo
  <2>4. /\ timed'[Main][op] = timed[Main][op] + 1
        /\ \A x \in Timable \ {op} : timed'[Main][x] = timed[Main][x]
    BY <1>1, <2>1, <2>3, SeesOne
  <2>5. pc'[Main] = IF foos[Main] <= 1 THEN p + 1 ELSE p
    BY <1>1, <1>8 DEF DropFoo, DoneIf, Done, Goto, control
  <2>6. timed'[Main][op] = N - foos'[Main]
    BY <1>2, <2>1, <2>2, <2>3, <2>4
  <2>7. foos[Main] <= 1 => timed'[Main][op] = N
    BY <1>2, <2>2, <2>3, <2>6
  <2> QED
    BY <1>4, <2>1, <2>4, <2>5, <2>6, <2>7 DEF Progress, Units
<1>9. CASE Connect(Main)
  <2>1. op = "connect" /\ timed[Main][op] = linked[Main]
    BY <1>3, <1>9 DEF Connect, Progress
  <2>2. foos[Main] = N
    BY <1>1, <1>2, <2>1 DEF FoosFilled, StockShape, Filled, OpAt
  <2>3. Sees(Main, "connect", 1) /\ linked'[Main] = linked[Main] + 1
    BY <1>1, <1>9 DEF Connect
  <2>4. /\ timed'[Main][op] = linked[Main] + 1
        /\ \A x \in Timable \ {op} : timed'[Main][x] = timed[Main][x]
    BY <1>1, <2>1, <2>3, SeesOne
  <2>5. pc'[Main] = IF linked[Main] + 1 = N THEN p + 1 ELSE p
    BY <1>1, <1>9, <2>2 DEF Connect, DoneIf, Done, Goto, control
  <2> QED
    BY <1>4, <2>1, <2>3, <2>4, <2>5 DEF Progress, Units
<1>10. CASE Emit(Main)
  <2>1. op = "emit" /\ timed[Main][op] = 0 /\ method = "emission"
    BY <1>3, <1>10, SampleShapes DEF Emit, Progress
  <2>2. linked[Main] = N
    <3>1. p \in Wired(Main)
      BY <2>1 DEF Wired, Windows, WiredSpan
    <3> QED
      BY <1>1, <1>2, <2>1, <3>1 DEF FoosFilled, Filled, OpAt
  <2>3. /\ timed'[Main][op] = 0 + N
        /\ \A x \in Timable \ {op} : timed'[Main][x] = timed[Main][x]
    <3>1. Cardinality(Connected) = N
      BY <1>1, <2>1, <2>2, EmissionCalls, NoOthers
    <3>2. Sees(Main, op, N)
      BY <1>10, <2>1, <3>1 DEF Emit
    <3>3. op \in Timable /\ N \in Nat
      BY <1>2
    <3> QED
      BY <1>1, <2>1, <3>2, <3>3, SeesOne
  <2>4. pc'[Main] = p + 1
    BY <1>1, <1>10 DEF Emit, Done, Goto
  <2> QED
    BY <1>2, <1>4, <2>1, <2>3, <2>4 DEF Units
<1> QED
  BY <1>4, <1>5, <1>6, <1>7, <1>8, <1>9, <1>10

\* The timer of a sample, through the steps of the method.
LEMMA FreshSteps ==
  ASSUME InPlace, Stocked, Timed, Step(Main)
  PROVE  FreshTimer'
<1>1. method' = method
  BY StepKinds, ThreadSets
<1>2. SUFFICES ASSUME method \in Fresh, code'[Main] = Scripts[method], pc'[Main] \in Windows[method],
                      NEW x \in Timable
               PROVE  timed'[Main][x] = IF x # Named[method] THEN 0
                                        ELSE IF At(Main, x)' THEN Progress(Main, x)' ELSE Units(x)'
  BY <1>1 DEF FreshTimer
<1>3. code'[Main] = code[Main]
  <2>1. ~Scripted(Main)' \/ code'[Main] = code[Main]
    <3>1. CASE \E script \in {Unwind(Main), <<>>} : Run(Main, script)
      <4>1. code'[Main] \in {Unwind(Main), <<>>}
        BY <3>1, ThreadSets DEF Run, InPlace, Typed
      <4> QED
        BY <1>1, <4>1, LeftScript
    <3>2. CASE UNCHANGED code
      BY <3>2
    <3>3. CASE Spawn /\ Cardinality(Started) # crew
      BY <3>3, SpawnLeavesMain
    <3> QED
      BY <3>1, <3>2, <3>3, StepKinds, ThreadSets DEF Advance, NewSubject, DropSubject, NewFoo, DropFoo,
         Connect, DoneIf, Done, Goto, control
  <2> QED
    BY <1>1, <1>2, <2>1, SampleShapes DEF Scripted
<1>0. PICK o \in Timable : o = Named[method]
  BY <1>2, SampleShapes DEF Timable
<1> DEFINE c == code[Main]
           p == pc[Main]
           q == pc'[Main]
           W == Windows[method]
<1>4. /\ SampleShape(c, W, o) /\ DOMAIN c = 1..Len(c) /\ Len(c) \in Nat
      /\ \A op : At(Main, op) => OpAt(c, p, op)
      /\ Main \in Threads /\ pc \in [Threads -> Nat] /\ Clocked
  BY <1>0, <1>2, <1>3, FreshAt DEF Timed
<1>5. q \in DOMAIN c /\ q \in W /\ \A op : At(Main, op)' <=> c[q] = op
  BY <1>2, <1>3, <1>4 DEF SampleShape, At
<1>6. Units(x)' = Units(x)
  BY <1>1 DEF Units, WantedSubjects
<1>7. p \in W => timed[Main][x] = IF x # o THEN 0 ELSE IF At(Main, x) THEN Progress(Main, x) ELSE Units(x)
  BY <1>0, <1>2, <1>3 DEF Timed, FreshTimer
<1>8. CASE \E op : /\ Advance(Main, op) /\ op \notin Timable \cup {"reset", "count"}
                   /\ UNCHANGED <<subjects, foos, linked, timed, samples>>
  <2>1. PICK op : Advance(Main, op) /\ op \notin Timable \cup {"reset", "count"}
    BY <1>8
  <2>2. UNCHANGED <<subjects, foos, linked, timed>>
    BY <1>8
  <2>3. p \in DOMAIN c /\ c[p] = op /\ At(Main, op)
    BY <1>4, <2>1 DEF Advance, OpAt
  <2>4. \/ q = p
        \/ q = p + 1
        \/ c[p] = "loop" /\ q = Where(c, "next") + 1
        \/ c[p] = "next" /\ q = Where(c, "loop")
    BY <1>4, <2>1, <2>3 DEF Advance
  <2>5. (q = p \/ q = p + 1) /\ op # o
    BY <1>4, <1>5, <2>1, <2>3, <2>4 DEF SampleShape
  <2>6. op = "draw" /\ p \in W
    BY <1>4, <1>5, <2>1, <2>3, <2>5 DEF SampleShape, Timable
  <2>7. c[q] # o
    BY <1>4, <2>3, <2>5, <2>6 DEF SampleShape
  <2>8. ~At(Main, o) /\ ~At(Main, o)'
    <3>1. ~At(Main, o)
      BY <2>3, <2>5 DEF At
    <3> QED
      BY <1>5, <2>7, <3>1
  <2> QED
    BY <1>0, <1>6, <1>7, <2>2, <2>6, <2>8
<1>9. CASE Reset(Main)
  <2>1. At(Main, "reset") /\ q = p + 1 /\ timed'[Main][x] = 0 /\ UNCHANGED <<subjects, foos, linked>>
    BY <1>4, <1>9 DEF Reset, Done, Goto, scope, Clocked
  <2>2. c[q] = o
    BY <1>4, <2>1 DEF SampleShape, OpAt
  <2>3. Progress(Main, o) = 0
    BY <1>0, <1>2, <1>3, <2>1, ResetBegins
  <2>4. Progress(Main, o)' = 0
    BY <1>1, <2>1, <2>3 DEF Progress, WantedSubjects
  <2> QED
    BY <1>0, <1>5, <2>1, <2>2, <2>4
<1>10. CASE Count(Main)
  <2>1. At(Main, "count") /\ q = p + 1
    BY <1>4, <1>10 DEF Count, Done, Goto
  <2> QED
    BY <1>4, <1>5, <2>1 DEF SampleShape, OpAt, Timable
<1>11. CASE \/ NewSubject(Main) \/ DropSubject(Main) \/ NewFoo(Main) \/ DropFoo(Main) \/ Connect(Main)
            \/ Emit(Main)
  <2>1. PICK op \in Timable : At(Main, op) /\ (q = p \/ q = p + 1)
    BY <1>4, <1>11 DEF NewSubject, DropSubject, NewFoo, DropFoo, Connect, Emit, DoneIf, Done, Goto, control,
       Timable
  <2>2. op = o /\ p \in W
    BY <1>4, <1>5, <2>1 DEF SampleShape, OpAt, Timable
  <2>3. timed[Main][o] = Progress(Main, o)
    BY <1>0, <1>2, <1>3, <1>4, <2>1, <2>2 DEF Timed, FreshTimer
  <2>4. /\ \A y \in Timable \ {o} : timed'[Main][y] = timed[Main][y]
        /\ \/ q = p /\ timed'[Main][o] = Progress(Main, o)'
           \/ q = p + 1 /\ timed'[Main][o] = Units(o)
    BY <1>0, <1>2, <1>3, <1>4, <1>11, <2>1, <2>2, <2>3, NamedOnce
  <2>5. CASE x # o
    BY <1>0, <1>7, <2>2, <2>4, <2>5
  <2>6. CASE x = o /\ q = p
    <3>1. At(Main, o)' /\ timed'[Main][o] = Progress(Main, o)'
      BY <1>4, <1>5, <2>1, <2>2, <2>4, <2>6 DEF OpAt
    <3> QED
      BY <1>0, <2>6, <3>1
  <2>7. CASE x = o /\ q = p + 1
    <3>1. ~At(Main, o)' /\ timed'[Main][o] = Units(o)
      BY <1>4, <1>5, <2>1, <2>2, <2>4, <2>7 DEF SampleShape, OpAt
    <3> QED
      BY <1>0, <1>6, <2>7, <3>1
  <2> QED
    BY <2>1, <2>5, <2>6, <2>7
<1>12. CASE \E script \in {Unwind(Main), <<>>} : Run(Main, script) /\ UNCHANGED <<timed, samples>>
  <2>1. code'[Main] \in {Unwind(Main), <<>>}
    BY <1>4, <1>12 DEF Run, InPlace, Typed
  <2> QED
    BY <1>1, <1>2, <2>1, LeftScript, SampleShapes DEF Scripted
<1>13. CASE Spawn /\ Cardinality(Started) # crew
  BY <1>2, <1>13, SpawnsInThreaded, SampleShapes DEF Spawn
<1> QED
  BY <1>4, <1>8, <1>9, <1>10, <1>11, <1>12, <1>13, TimerKinds

\* The operations of a round, in their places of the loop, and how many Foos
\* there are.
LEMMA RoundAt ==
  ASSUME InPlace, Stocked, NEW t \in Threads, Rounds(t)
  PROVE  LET place == pc[t] - LoopAt(t) IN
         /\ pc \in [Threads -> Nat] /\ foos[t] \in Nat /\ linked[t] \in Nat
         /\ \A op : At(t, op) =>
              /\ op = "loop"    <=> place = 0
              /\ op = "foos"    <=> place = 1
              /\ op = "connect" <=> place = 2
              /\ op = "emit"    <=> place = 3
              /\ op = "draw"    <=> place = 4
              /\ op = "~foos"   <=> place = 5
              /\ op = "count"   <=> place = 6
              /\ op = "next"    <=> place = 7
              /\ op = "reset"   => place = -2
              /\ op \in {"subjects", "copy"} => place = -1
              /\ op \notin {"spawn", "get", "join", "verdict"}
         /\ Where(code[t], "next") = LoopAt(t) + 7 /\ Where(code[t], "loop") = LoopAt(t)
         /\ place = 1 => linked[t] = 0
         /\ place = 2 => foos[t] = N /\ linked[t] \in 0..(N - 1)
         /\ place \in 3..4 => foos[t] = N /\ linked[t] = N
         /\ place = 5 => foos[t] \in 1..N
<1>1. pc \in [Threads -> Nat] /\ foos[t] \in Nat /\ linked[t] \in Nat /\ N \in Nat \ {0}
  BY SizesAssumption DEF InPlace, Typed, Stocked
<1>2. CASE t = Main
  <2> DEFINE c == Combined
  <2>1. Len(c) = 12 /\ DOMAIN c = 1..12
    BY DEF Combined
  <2>2. /\ c[1] = "reset" /\ c[2] = "subjects" /\ c[3] = "loop" /\ c[4] = "foos"
        /\ c[5] = "connect" /\ c[6] = "emit" /\ c[7] = "draw" /\ c[8] = "~foos"
        /\ c[9] = "count" /\ c[10] = "next" /\ c[11] = "~subjects" /\ c[12] = "return"
    BY DEF Combined
  <2> HIDE DEF c
  <2>3. Where(c, "next") = 10 /\ Where(c, "loop") = 3
    BY <2>1, <2>2, WhereIs
  <2>4. code[t] = c /\ method = "combined" /\ LoopAt(t) = 3 /\ Scripted(t)
    BY <1>2 DEF Rounds, LoopAt, c, Scripted, Methods, Scripts
  <2>5. pc[t] \in Nat \ {0} /\ \A op : At(t, op) => OpAt(c, pc[t], op)
    BY <2>4, ScriptedAt
  <2>6. /\ Filled(c, pc[t], "foos", "~foos", 5..8, foos[t], N)
        /\ Filled(c, pc[t], "connect", "~foos", 6..8, linked[t], N)
    BY <1>2, <2>4 DEF Stocked, FoosFilled, Stock, Wired, StockSpan, WiredSpan
  <2>7. \A op : At(t, op) =>
          /\ op = "loop"    <=> pc[t] = 3
          /\ op = "foos"    <=> pc[t] = 4
          /\ op = "connect" <=> pc[t] = 5
          /\ op = "emit"    <=> pc[t] = 6
          /\ op = "draw"    <=> pc[t] = 7
          /\ op = "~foos"   <=> pc[t] = 8
          /\ op = "count"   <=> pc[t] = 9
          /\ op = "next"    <=> pc[t] = 10
          /\ op = "reset"   => pc[t] = 1
          /\ op \in {"subjects", "copy"} => pc[t] = 2
          /\ op \notin {"spawn", "get", "join", "verdict"}
    BY <2>1, <2>2, <2>5 DEF OpAt
  <2>8. /\ pc[t] = 4 => linked[t] = 0
        /\ pc[t] = 5 => foos[t] = N /\ linked[t] \in 0..(N - 1)
        /\ pc[t] \in 6..7 => foos[t] = N /\ linked[t] = N
        /\ pc[t] = 8 => foos[t] \in 1..N
    BY <2>1, <2>2, <2>6 DEF Filled, OpAt
  <2> QED
    BY <1>1, <2>3, <2>4, <2>5, <2>7, <2>8
<1>3. CASE t # Main
  <2> DEFINE c == Context
  <2>1. Len(c) = 10 /\ DOMAIN c = 1..10
    BY DEF Context
  <2>2. /\ c[1] = "copy" /\ c[2] = "loop" /\ c[3] = "foos" /\ c[4] = "connect"
        /\ c[5] = "emit" /\ c[6] = "draw" /\ c[7] = "~foos" /\ c[8] = "count"
        /\ c[9] = "next" /\ c[10] = "finish"
    BY DEF Context
  <2> HIDE DEF c
  <2>3. Where(c, "next") = 9 /\ Where(c, "loop") = 2
    BY <2>1, <2>2, WhereIs
  <2>4. code[t] = c /\ LoopAt(t) = 2 /\ Scripted(t)
    BY <1>3 DEF Rounds, LoopAt, c, Scripted
  <2>5. pc[t] \in Nat \ {0} /\ \A op : At(t, op) => OpAt(c, pc[t], op)
    BY <2>4, ScriptedAt
  <2>6. /\ Filled(c, pc[t], "foos", "~foos", 4..7, foos[t], N)
        /\ Filled(c, pc[t], "connect", "~foos", 5..7, linked[t], N)
    BY <1>3, <2>4 DEF Stocked, FoosFilled, Stock, Wired
  <2>7. \A op : At(t, op) =>
          /\ op = "loop"    <=> pc[t] = 2
          /\ op = "foos"    <=> pc[t] = 3
          /\ op = "connect" <=> pc[t] = 4
          /\ op = "emit"    <=> pc[t] = 5
          /\ op = "draw"    <=> pc[t] = 6
          /\ op = "~foos"   <=> pc[t] = 7
          /\ op = "count"   <=> pc[t] = 8
          /\ op = "next"    <=> pc[t] = 9
          /\ op \in {"subjects", "copy"} => pc[t] = 1
          /\ op \notin {"reset", "spawn", "get", "join", "verdict"}
    BY <2>1, <2>2, <2>5 DEF OpAt
  <2>8. /\ pc[t] = 3 => linked[t] = 0
        /\ pc[t] = 4 => foos[t] = N /\ linked[t] \in 0..(N - 1)
        /\ pc[t] \in 5..6 => foos[t] = N /\ linked[t] = N
        /\ pc[t] = 7 => foos[t] \in 1..N
    BY <2>1, <2>2, <2>6 DEF Filled, OpAt
  <2> QED
    BY <1>1, <2>3, <2>4, <2>5, <2>7, <2>8
<1> QED
  BY <1>2, <1>3

\* The timer of the combined methods, through the steps of the thread.
LEMMA RoundSteps ==
  ASSUME InPlace, Stocked, Timed, NEW t \in Threads, Rounds(t), Step(t), code'[t] = code[t]
  PROVE  RoundTimer(t)'
<1> DEFINE b == LoopAt(t)
           place == pc[t] - b
           past == N * samples[t]
           next == pc'[t] - b
<1>1. /\ pc \in [Threads -> Nat] /\ foos[t] \in Nat /\ linked[t] \in Nat /\ samples[t] \in Nat
      /\ timed[t] \in [Timable -> Nat] /\ N \in Nat \ {0} /\ Clocked /\ b \in {2, 3} /\ b' = b
      /\ foos \in [Threads -> Nat] /\ linked \in [Threads -> Nat]
      /\ "connect" \in Timable /\ "emit" \in Timable /\ "~foos" \in Timable
      /\ "subjects" \in Timable /\ "~subjects" \in Timable /\ "foos" \in Timable
  BY SizesAssumption DEF InPlace, Typed, Stocked, Timed, Clocked, LoopAt, Timable
<1>2. /\ \A op : At(t, op) =>
           /\ op = "loop"    <=> place = 0
           /\ op = "foos"    <=> place = 1
           /\ op = "connect" <=> place = 2
           /\ op = "emit"    <=> place = 3
           /\ op = "draw"    <=> place = 4
           /\ op = "~foos"   <=> place = 5
           /\ op = "count"   <=> place = 6
           /\ op = "next"    <=> place = 7
           /\ op = "reset"   => place = -2
           /\ op \in {"subjects", "copy"} => place = -1
           /\ op \notin {"spawn", "get", "join", "verdict"}
      /\ Where(code[t], "next") = b + 7 /\ Where(code[t], "loop") = b
      /\ place = 1 => linked[t] = 0
      /\ place = 2 => foos[t] = N /\ linked[t] \in 0..(N - 1)
      /\ place \in 3..4 => foos[t] = N /\ linked[t] = N
      /\ place = 5 => foos[t] \in 1..N
  BY RoundAt
<1>3. /\ place < 0 => samples[t] = 0
      /\ timed[t]["connect"] =
           past + (IF place = 2 THEN linked[t] ELSE IF place \in 3..6 THEN N ELSE 0)
      /\ timed[t]["emit"] >= past + (IF place \in 4..6 THEN N ELSE 0)
      /\ t = Main => timed[t]["emit"] = past + (IF place \in 4..6 THEN N ELSE 0)
      /\ timed[t]["~foos"] =
           past + (IF place = 5 THEN N - foos[t] ELSE IF place = 6 THEN N ELSE 0)
  BY DEF Timed, RoundTimer
<1>4. past \in Nat /\ place \in Int /\ (samples[t] = 0 => past = 0) /\ N * (samples[t] + 1) = past + N
  BY <1>1
<1>5. SUFFICES
        /\ next < 0 => samples'[t] = 0
        /\ timed'[t]["connect"] =
             N * samples'[t] + (IF next = 2 THEN linked'[t] ELSE IF next \in 3..6 THEN N ELSE 0)
        /\ timed'[t]["emit"] >= N * samples'[t] + (IF next \in 4..6 THEN N ELSE 0)
        /\ t = Main => timed'[t]["emit"] = N * samples'[t] + (IF next \in 4..6 THEN N ELSE 0)
        /\ timed'[t]["~foos"] =
             N * samples'[t] + (IF next = 5 THEN N - foos'[t] ELSE IF next = 6 THEN N ELSE 0)
  BY <1>1 DEF RoundTimer
<1> HIDE DEF b
<1>6. CASE \E op : /\ Advance(t, op) /\ op \notin Timable \cup {"reset", "count"}
                   /\ UNCHANGED <<subjects, foos, linked, timed, samples>>
  <2>1. PICK op : Advance(t, op) /\ op \notin Timable \cup {"reset", "count"}
    BY <1>6
  <2>2. UNCHANGED <<foos, linked, timed, samples>>
    BY <1>6
  <2>3. At(t, op)
    BY <2>1 DEF Advance
  <2>4. place \notin {1, 2, 3, 5, 6}
    BY <1>1, <1>2, <2>1, <2>3
  <2>5. \/ next = place
        \/ next = place + 1
        \/ place = 0 /\ next = 8
        \/ place = 7 /\ next = 0
    BY <1>1, <1>2, <2>1, <2>3 DEF Advance
  <2>7. CASE next = place
    BY <1>3, <2>2, <2>7
  <2>8. CASE next = place + 1 /\ place = 4
    BY <1>1, <1>2, <1>3, <1>4, <2>2, <2>8
  <2>9. CASE next = place + 1 /\ place # 4
    BY <1>1, <1>2, <1>3, <1>4, <2>2, <2>4, <2>9
  <2>10. CASE (place = 0 /\ next = 8) \/ (place = 7 /\ next = 0)
    BY <1>1, <1>3, <1>4, <2>2, <2>10
  <2> QED
    BY <2>5, <2>7, <2>8, <2>9, <2>10
<1>7. CASE Reset(t)
  <2>1. At(t, "reset") /\ samples' = samples /\ timed'[t] = [op \in Timable |-> 0] /\ pc'[t] = pc[t] + 1
    BY <1>1, <1>7 DEF Reset, Done, Goto, loop, Clocked
  <2>2. place = -2 /\ next = -1 /\ samples'[t] = 0
    <3>1. place = -2
      BY <1>2, <2>1
    <3>2. next = place + 1
      BY <1>1, <2>1
    <3> QED
      BY <1>3, <2>1, <3>1, <3>2
  <2>3. timed'[t]["connect"] = 0 /\ timed'[t]["emit"] = 0 /\ timed'[t]["~foos"] = 0
    BY <1>1, <2>1
  <2>4. N * samples'[t] = 0
    BY <1>1, <2>2
  <2> QED
    BY <2>2, <2>3, <2>4
<1>8. CASE Count(t)
  <2>1. At(t, "count") /\ samples'[t] = samples[t] + 1 /\ timed' = timed /\ pc'[t] = pc[t] + 1
    BY <1>1, <1>8 DEF Count, Done, Goto, Clocked
  <2>2. place = 6 /\ next = 7
    BY <1>1, <1>2, <2>1
  <2> QED
    BY <1>1, <1>3, <1>4, <2>1, <2>2
<1>9. CASE NewSubject(t) \/ DropSubject(t)
  <2>1. PICK op \in {"subjects", "~subjects"} : At(t, op) /\ (timed' = timed \/ Sees(t, op, 1))
    BY <1>9 DEF NewSubject, DropSubject
  <2>2. timed'[t]["connect"] = timed[t]["connect"] /\ timed'[t]["emit"] = timed[t]["emit"]
        /\ timed'[t]["~foos"] = timed[t]["~foos"]
    BY <1>1, <2>1, SeesOne
  <2>3. UNCHANGED <<foos, linked, samples>> /\ (pc'[t] = pc[t] \/ pc'[t] = pc[t] + 1)
    BY <1>1, <1>9 DEF NewSubject, DropSubject, DoneIf, Done, Goto, control, loop
  <2>4. place \notin 0..7
    BY <1>1, <1>2, <2>1
  <2>5. next = place \/ next = place + 1
    BY <1>1, <2>3
  <2> QED
    BY <1>1, <1>3, <1>4, <2>2, <2>3, <2>4, <2>5
<1>10. CASE NewFoo(t)
  <2>1. At(t, "foos") /\ UNCHANGED <<linked, samples>> /\ (pc'[t] = pc[t] \/ pc'[t] = pc[t] + 1)
        /\ Sees(t, "foos", 1)
    BY <1>1, <1>10 DEF NewFoo, DoneIf, Done, Goto, control, loop
  <2>2. timed'[t]["connect"] = timed[t]["connect"] /\ timed'[t]["emit"] = timed[t]["emit"]
        /\ timed'[t]["~foos"] = timed[t]["~foos"]
    BY <1>1, <2>1, SeesOne
  <2>3. place = 1 /\ linked[t] = 0 /\ next \in {1, 2}
    BY <1>1, <1>2, <2>1
  <2> QED
    BY <1>1, <1>3, <1>4, <2>1, <2>2, <2>3
<1>11. CASE Connect(t)
  <2>1. /\ At(t, "connect") /\ UNCHANGED <<foos, samples>> /\ linked'[t] = linked[t] + 1
        /\ pc'[t] = IF linked[t] + 1 = foos[t] THEN pc[t] + 1 ELSE pc[t]
        /\ Sees(t, "connect", 1)
    BY <1>1, <1>11 DEF Connect, DoneIf, Done, Goto, control, loop
  <2>2. timed'[t]["connect"] = timed[t]["connect"] + 1 /\ timed'[t]["emit"] = timed[t]["emit"]
        /\ timed'[t]["~foos"] = timed[t]["~foos"]
    BY <1>1, <2>1, SeesOne
  <2>3. place = 2 /\ next = (IF linked[t] + 1 = N THEN 3 ELSE 2)
    BY <1>1, <1>2, <2>1
  <2> QED
    BY <1>1, <1>3, <1>4, <2>1, <2>2, <2>3
<1>12. CASE Emit(t)
  <2> DEFINE n == Cardinality(Connected)
  <2>1. At(t, "emit") /\ UNCHANGED <<foos, linked, samples>> /\ pc'[t] = pc[t] + 1
        /\ Sees(t, "emit", n)
    BY <1>1, <1>12 DEF Emit, Done, Goto, loop, scope
  <2>2. place = 3 /\ next = 4 /\ linked[t] = N
    BY <1>1, <1>2, <2>1
  <2>3. n \in Nat /\ n >= N /\ (t = Main => n = N)
    <3>1. t = Main => method # "threaded"
      BY DEF Rounds
    <3> QED
      BY <2>2, <3>1, EmissionEnds, EmissionCalls, NoOthers
  <2> HIDE DEF n
  <2>4. timed'[t]["connect"] = timed[t]["connect"] /\ timed'[t]["emit"] = timed[t]["emit"] + n
        /\ timed'[t]["~foos"] = timed[t]["~foos"]
    BY <1>1, <2>1, <2>3, SeesOne
  <2>5. /\ timed[t]["emit"] \in Nat /\ timed[t]["emit"] >= past
        /\ t = Main => timed[t]["emit"] = past
    BY <1>1, <1>3, <1>4, <2>2
  <2>6. timed'[t]["emit"] >= past + N /\ (t = Main => timed'[t]["emit"] = past + N)
    BY <1>1, <1>4, <2>3, <2>4, <2>5
  <2>7. timed'[t]["connect"] = past + N /\ timed'[t]["~foos"] = past
    BY <1>3, <1>4, <2>2, <2>4
  <2>8. N * samples'[t] = past
    BY <2>1
  <2> QED
    BY <1>1, <1>4, <2>2, <2>6, <2>7, <2>8
<1>13. CASE DropFoo(t)
  <2>1. At(t, "~foos") /\ samples' = samples
    BY <1>13 DEF DropFoo, loop
  <2>2. place = 5 /\ foos[t] \in 1..N
    BY <1>1, <1>2, <2>1
  <2>3. foos'[t] = foos[t] - 1 /\ Sees(t, "~foos", 1)
        /\ pc'[t] = IF foos[t] <= 1 THEN pc[t] + 1 ELSE pc[t]
    BY <1>1, <1>13, <2>2 DEF DropFoo, DoneIf, Done, Goto, control
  <2>4. timed'[t]["connect"] = timed[t]["connect"] /\ timed'[t]["emit"] = timed[t]["emit"]
        /\ timed'[t]["~foos"] = timed[t]["~foos"] + 1
    BY <1>1, <2>3, SeesOne
  <2>5. next = (IF foos[t] <= 1 THEN 6 ELSE 5)
    BY <1>1, <2>2, <2>3
  <2> QED
    BY <1>1, <1>3, <1>4, <2>1, <2>2, <2>3, <2>4, <2>5
<1>14. CASE \E script \in {Unwind(t), <<>>} : Run(t, script) /\ UNCHANGED <<timed, samples>>
  <2>1. code'[t] \in {Unwind(t), <<>>}
    BY <1>14 DEF Run, InPlace, Typed
  <2>2. code[t] \notin {Unwind(t), <<>>}
    BY NotUnwinding, ScriptsNotEmpty, ShapeOfUnwinding, ThreadSets DEF Rounds, Scripts, Methods
  <2> QED
    BY <2>1, <2>2
<1>15. CASE t = Main /\ Spawn
  BY <1>2, <1>15 DEF Spawn
<1> QED
  BY <1>6, <1>7, <1>8, <1>9, <1>10, <1>11, <1>12, <1>13, <1>14, <1>15, TimerKinds

\* What a step leaves of the other threads; a worker may be started.
LEMMA OthersStay ==
  ASSUME InPlace, Stocked, NEW t \in Threads, Step(t), NEW u \in Threads, u # t
  PROVE  /\ foos'[u] = foos[u] /\ linked'[u] = linked[u]
         /\ \/ code'[u] = code[u] /\ pc'[u] = pc[u]
            \/ u \in Workers /\ future[u] = "none" /\ code'[u] = Context /\ pc'[u] = 1
<1> DEFINE Spawns == t = Main /\ Spawn /\ Cardinality(Started) # crew
<1>1. linked \in [Threads -> Nat] /\ foos \in [Threads -> Nat] /\ pc \in [Threads -> Nat]
      /\ code \in [Threads -> Codes]
  BY DEF Stocked, InPlace, Typed
<1>2. foos'[u] = foos[u] /\ linked'[u] = linked[u]
  BY <1>1, StepKinds DEF NewSubject, DropSubject, NewFoo, DropFoo, Connect, Spawn, scope
<1>3. CASE ~Spawns
  BY <1>1, <1>2, <1>3, StepKinds DEF Advance, NewSubject, DropSubject, NewFoo, DropFoo, Connect, DoneIf,
     Done, Goto, control, Run
<1>4. CASE Spawns
  <2>1. PICK w \in Workers : /\ future[w] = "none"
                             /\ code' = [code EXCEPT ![w] = Context]
                             /\ pc' = [pc EXCEPT ![w] = 1]
    BY <1>4, SpawnsNext
  <2>2. CASE u = w
    BY <1>1, <1>2, <2>1, <2>2
  <2>3. CASE u # w
    BY <1>1, <1>2, <2>1, <2>3
  <2> QED
    BY <2>2, <2>3
<1> QED
  BY <1>3, <1>4

\* A worker that has not been started was not the one to step.
LEMMA NobodyUnspawns ==
  ASSUME InPlace, NEW t \in Threads, Step(t), NEW w \in Workers, future'[w] = "none"
  PROVE  future[w] = "none" /\ w # t
<1>1. future \in [Workers -> Held]
  BY DEF InPlace, Typed
<1>2. UNCHANGED future \/ Spawn \/ Get \/ (t \in Workers /\ Finish(t))
  BY ThreadSets DEF Step, Loop, Increment, Reset, Count, NewSubject, DropSubject, NewFoo, DropFoo, Connect,
     Emit, Draw, Throw, Join, Return, Verdict, Escape, Copy
<1>3. t \in Workers => future[t] = "running"
  <2> SUFFICES ASSUME t \in Workers PROVE future[t] = "running"
    OBVIOUS
  <2>1. \E op : At(t, op)
    BY ThreadSets DEF Step, Loop, Increment, Reset, Count, NewSubject, DropSubject, NewFoo, DropFoo, Connect,
       Emit, Draw, Throw, Copy, Finish
  <2> QED
    BY <2>1, WorkerAt
<1>4. CASE Spawn
  <2>1. future' = future \/ \E v : future' = [future EXCEPT ![v] = "running"]
    BY <1>4 DEF Spawn
  <2> QED
    BY <1>1, <1>3, <2>1
<1>5. CASE Get
  <2>1. future' = future \/ \E v : future' = [future EXCEPT ![v] = IF @ = "value" THEN "taken" ELSE "lost"]
    BY <1>5 DEF Get
  <2> QED
    BY <1>1, <1>3, <2>1
<1>6. CASE t \in Workers /\ Finish(t)
  <2>1. future'[w] = IF w = t THEN (IF At(t, "finish") THEN "value" ELSE "error") ELSE future[w]
    BY <1>1, <1>6 DEF Finish
  <2> QED
    BY <2>1
<1>7. CASE UNCHANGED future
  BY <1>3, <1>7
<1> QED
  BY <1>2, <1>4, <1>5, <1>6, <1>7

\* Before its first round a timer has seen nothing of it.
LEMMA RoundBegins ==
  ASSUME NEW t \in Threads, pc'[t] = 1, samples'[t] = 0,
         \A op \in Timable : timed'[t][op] = 0
  PROVE  RoundTimer(t)'
<1>1. LoopAt(t)' = LoopAt(t) /\ LoopAt(t) \in {2, 3} /\ N * samples'[t] = 0
  BY SizesAssumption DEF LoopAt
<1>2. pc'[t] - LoopAt(t) \in {-2, -1}
  BY <1>1
<1>3. timed'[t]["connect"] = 0 /\ timed'[t]["emit"] = 0 /\ timed'[t]["~foos"] = 0
  BY DEF Timable
<1> QED
  BY <1>1, <1>2, <1>3 DEF RoundTimer

LEMMA StepTimed ==
  ASSUME InPlace, Stocked, Timed, NEW t \in Threads, Step(t)
  PROVE  Timed'
<1>1. Clocked' /\ \A u \in Threads \ {t} : timed'[u] = timed[u] /\ samples'[u] = samples[u]
  BY OwnTimer DEF Timed
<1>2. method' = method
  BY StepKinds
<1>3. FreshTimer'
  <2>1. CASE t = Main
    BY <2>1, FreshSteps
  <2>2. CASE t \in Workers
    BY <1>2, <2>2, WorkerSteppingRuns, SampleShapes DEF Stocked, FreshTimer
  <2> QED
    BY <2>1, <2>2, ThreadSets
<1>4. Rounds(t)' => RoundTimer(t)'
  <2>1. CASE code'[t] = code[t]
    BY <1>2, <2>1, RoundSteps DEF Rounds
  <2>2. CASE code'[t] # code[t]
    <3>1. code \in [Threads -> Codes]
      BY DEF InPlace, Typed
    <3>2. code'[t] \in {Unwind(t), <<>>}
      <4>1. CASE \E script \in {Unwind(t), <<>>} : Run(t, script)
        BY <3>1, <4>1 DEF Run
      <4>2. CASE t = Main /\ Spawn /\ Cardinality(Started) # crew
        BY <2>2, <4>2, SpawnLeavesMain
      <4> QED
        BY <2>2, <4>1, <4>2, StepKinds DEF Advance, NewSubject, DropSubject, NewFoo, DropFoo, Connect,
           DoneIf, Done, Goto, control
    <3>3. ~Rounds(t)'
      <4>1. CASE t = Main
        <5>1. "combined" \in Methods /\ Scripts["combined"] = Combined
          BY DEF Methods, Scripts
        <5> QED
          BY <3>2, <4>1, <5>1, NotUnwinding, ScriptsNotEmpty, ShapeOfUnwinding DEF Rounds
      <4>2. CASE t \in Workers
        BY <3>2, <4>2, NotUnwinding, ShapeOfUnwinding, ThreadSets DEF Rounds
      <4> QED
        BY <4>1, <4>2, ThreadSets
    <3> QED
      BY <3>3
  <2> QED
    BY <2>1, <2>2
<1>5. ASSUME NEW u \in Threads, u # t PROVE Rounds(u)' => RoundTimer(u)'
  <2>1. foos'[u] = foos[u] /\ linked'[u] = linked[u] /\ timed'[u] = timed[u] /\ samples'[u] = samples[u]
    BY <1>1, <1>5, OthersStay
  <2>2. CASE code'[u] = code[u] /\ pc'[u] = pc[u]
    BY <1>2, <2>1, <2>2 DEF Timed, Rounds, RoundTimer, LoopAt
  <2>3. CASE u \in Workers /\ future[u] = "none" /\ pc'[u] = 1
    BY <2>1, <2>3, RoundBegins DEF Timed
  <2> QED
    BY <1>5, <2>2, <2>3, OthersStay
<1>6. ASSUME NEW w \in Workers, future'[w] = "none"
      PROVE  samples'[w] = 0 /\ \A op \in Timable : timed'[w][op] = 0
  BY <1>1, <1>6, NobodyUnspawns, ThreadSets DEF Timed
<1> QED
  BY <1>1, <1>3, <1>4, <1>5, <1>6 DEF Timed

\* At a call the timers are forgotten.
LEMMA CallTimed ==
  ASSUME InPlace, Stocked, NEW m \in Methods, Call(m)
  PROVE  Timed'
<1> DEFINE zero == [op \in Timable |-> 0]
<1>1. timed' = [t \in Threads |-> zero] /\ samples' = [t \in Threads |-> 0] /\ method' = m /\ Idle
  BY DEF Call
<1>2. code'[Main] = Scripts[m] /\ pc'[Main] = 1 /\ \A w \in Workers : code'[w] = code[w]
  BY ThreadSets DEF Call, Run, InPlace, Typed
<1>3. zero \in [Timable -> Nat] /\ \A op \in Timable : zero[op] = 0
  OBVIOUS
<1>4. \A t \in Threads : timed'[t] = zero /\ samples'[t] = 0
  BY <1>1
<1> HIDE DEF zero
<1>5. Clocked'
  BY <1>1, <1>3 DEF Clocked
<1>6. FreshTimer'
  BY <1>1, <1>2, SampleShapes DEF FreshTimer, SampleShape
<1>7. RoundTimer(Main)'
  BY <1>2, <1>3, <1>4, RoundBegins, ThreadSets
<1>8. \A w \in Workers : ~Rounds(w)'
  BY <1>1, <1>2, NothingAtCall, NotUnwinding, ThreadSets DEF Rounds
<1>9. \A w \in Workers : samples'[w] = 0 /\ \A op \in Timable : timed'[w][op] = 0
  BY <1>3, <1>4, ThreadSets
<1> QED
  BY <1>5, <1>6, <1>7, <1>8, <1>9, ThreadSets DEF Timed

LEMMA CallStubTimed ==
  ASSUME InPlace, Stocked, Timed, CallStub
  PROVE  Timed'
<1>1. UNCHANGED <<timed, samples, future>> /\ method' = "threaded" /\ Idle
  BY DEF CallStub, loop
<1>2. \A w \in Workers : code'[w] = code[w]
  BY ThreadSets DEF CallStub, Run, InPlace, Typed
<1>3. \A w \in Workers : ~Rounds(w)'
  BY <1>1, <1>2, NothingAtCall, NotUnwinding, ThreadSets DEF Rounds
<1>4. ~Rounds(Main)'
  BY <1>1 DEF Rounds
<1>5. FreshTimer'
  BY <1>1, SampleShapes DEF FreshTimer
<1> QED
  BY <1>1, <1>3, <1>4, <1>5, ThreadSets DEF Timed, Clocked

LEMMA InitTimed == Init => Timed
<1> SUFFICES ASSUME Init PROVE Timed
  OBVIOUS
<1> DEFINE zero == [op \in Timable |-> 0]
<1>1. timed = [t \in Threads |-> zero] /\ samples = [t \in Threads |-> 0] /\ method = "none"
      /\ code = [t \in Threads |-> <<>>]
  BY DEF Init
<1>2. zero \in [Timable -> Nat] /\ \A op \in Timable : zero[op] = 0
  OBVIOUS
<1> HIDE DEF zero
<1>3. Clocked
  BY <1>1, <1>2 DEF Clocked
<1>4. FreshTimer
  BY <1>1, SampleShapes DEF FreshTimer
<1>5. \A t \in Threads : ~Rounds(t)
  BY <1>1, NotUnwinding DEF Rounds
<1>6. \A w \in Workers : samples[w] = 0 /\ \A op \in Timable : timed[w][op] = 0
  BY <1>1, <1>2, ThreadSets
<1> QED
  BY <1>3, <1>4, <1>5, <1>6 DEF Timed

LEMMA NextTimed == InPlace /\ Stocked /\ Timed /\ [Next]_vars => Timed'
<1> SUFFICES ASSUME InPlace, Stocked, Timed, [Next]_vars PROVE Timed'
  OBVIOUS
<1>1. CASE \E m \in Methods : Call(m)
  BY <1>1, CallTimed
<1>2. CASE CallStub
  BY <1>2, CallStubTimed
<1>3. CASE \E t \in Threads : Step(t)
  BY <1>3, StepTimed
<1>4. CASE UNCHANGED vars
  BY <1>4 DEF vars, control, scope, loop, Timed, Clocked, FreshTimer, At, Progress, Units, WantedSubjects,
     Rounds, RoundTimer
<1> QED
  BY <1>1, <1>2, <1>3, <1>4 DEF Next

\* Who reads a timer.
LEMMA CountsIn ==
  ASSUME InPlace, NEW t \in Threads, At(t, "count")
  PROVE  \/ t = Main /\ method \in Fresh /\ code[Main] = Scripts[method]
         \/ t = Main /\ method = "combined" /\ Rounds(t)
         \/ t \in Workers /\ Running # {} /\ Rounds(t)
<1>1. CASE t = Main
  <2>1. InMethod
    BY <1>1, NothingToDo, UnwindingOps DEF InPlace
  <2>2. pc[Main] \in DOMAIN Scripts[method] /\ Scripts[method][pc[Main]] = "count"
    BY <1>1, <2>1, Shapes DEF InMethod, At, Shaped
  <2>3. method # "validation"
    BY <2>2, ShapeOfValidation DEF Scripts
  <2>4. method # "threaded"
    <3>1. \A p \in DOMAIN Threaded : Threaded[p] # "count"
      BY DEF Threaded
    <3> QED
      BY <2>2, <3>1 DEF Scripts
  <2>5. method \in Fresh \/ method = "combined"
    BY <2>1, <2>3, <2>4, SampleShapes DEF InMethod, Methods, Scripts
  <2>6. Scripts["combined"] = Combined
    BY DEF Scripts
  <2> QED
    BY <1>1, <2>1, <2>5, <2>6 DEF InMethod, Rounds
<1>2. CASE t \in Workers
  BY <1>2, WorkerAt, WorkerOps, ShapeOfUnwinding, ThreadSets DEF Rounds
<1> QED
  BY <1>1, <1>2, ThreadSets

LEMMA TimedSuffices == InPlace /\ Stocked /\ Timed => MeasuresWhatItSays
<1> SUFFICES ASSUME InPlace, Stocked, Timed, NEW t \in Threads, At(t, "count")
             PROVE  LET units  == IF method \in {"construction", "destruction"} THEN N * N ELSE N
                        rounds == IF method \in {"combined", "threaded"} THEN samples[t] + 1 ELSE 1
                    IN  /\ \A op \in Promised[method] :
                             IF method = "threaded" /\ op = "emit" THEN timed[t][op] >= units * rounds
                                                                  ELSE timed[t][op] = units * rounds
                        /\ method \notin {"combined", "threaded"} =>
                             \A op \in Timable \ Promised[method] : timed[t][op] = 0
  BY DEF MeasuresWhatItSays
<1>1. N \in Nat /\ samples[t] \in Nat
  BY SizesAssumption DEF Timed, Clocked
<1>2. CASE t = Main /\ method \in Fresh /\ code[Main] = Scripts[method]
  <2> DEFINE o == Named[method]
  <2>1. /\ SampleShape(code[Main], Windows[method], o) /\ OpAt(code[Main], pc[Main], "count")
        /\ Promised[method] = {o} /\ method \notin {"combined", "threaded"}
        /\ o \in Timable /\ o # "count"
        /\ method \in {"construction", "destruction"} <=> o \in {"subjects", "~subjects"}
    BY <1>2, FreshAt, SampleShapes DEF Timable
  <2>2. pc[Main] \in Windows[method] /\ ~At(Main, o)
    BY <1>2, <2>1 DEF SampleShape, OpAt, At
  <2>3. timed[Main][o] = Units(o) /\ \A op \in Timable \ {o} : timed[Main][op] = 0
    BY <1>2, <2>1, <2>2 DEF Timed, FreshTimer
  <2>4. Units(o) = IF method \in {"construction", "destruction"} THEN N * N ELSE N
    BY <2>1 DEF Units, WantedSubjects
  <2>5. \A n \in Int : n * 1 = n
    OBVIOUS
  <2>6. N * N \in Int
    BY <1>1
  <2> HIDE DEF o
  <2> QED
    BY <1>1, <1>2, <2>1, <2>3, <2>4, <2>5, <2>6
<1>3. CASE Rounds(t) /\ method \in {"combined", "threaded"}
  <2>1. pc[t] - LoopAt(t) = 6
    BY <1>3, RoundAt
  <2>2. /\ timed[t]["connect"] = N * samples[t] + N /\ timed[t]["emit"] >= N * samples[t] + N
        /\ timed[t]["~foos"] = N * samples[t] + N
        /\ method # "threaded" => timed[t]["emit"] = N * samples[t] + N
    <3>1. method # "threaded" => t = Main
      <4>1. t \in Workers => Running # {}
        BY <1>3, CountsIn, ThreadSets
      <4> QED
        BY <4>1, ThreadSets DEF Stocked
    <3> QED
      BY <1>3, <2>1, <3>1 DEF Timed, RoundTimer
  <2>3. N * (samples[t] + 1) = N * samples[t] + N
    BY <1>1
  <2>4. Promised[method] = {"connect", "emit", "~foos"} /\ method \notin {"construction", "destruction"}
    BY <1>3 DEF Promised
  <2> QED
    BY <1>3, <2>2, <2>3, <2>4
<1> QED
  BY <1>2, <1>3, CountsIn DEF Stocked

\* A timer that is read has seen what the method is named for, whoever throws
\* and however the threads take turns: exactly that in the methods of one
\* thread, and in `threaded` each worker its own N connections and
\* disconnections a round, and emissions that call its own N Foos or more.
THEOREM TimersSeeWhatTheyName == Spec => []MeasuresWhatItSays
  BY InitInPlace, NextInPlace, InitStocked, NextStocked, InitTimed, NextTimed, TimedSuffices, PTL DEF Spec
===============================================================================
