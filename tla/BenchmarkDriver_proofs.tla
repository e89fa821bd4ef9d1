------------------------ MODULE BenchmarkDriver_proofs ------------------------
(***************************************************************************)
(* Theorems about the benchmark program, for every list of libraries and   *)
(* of methods, every number of test sizes, and any methods that may throw. *)
(***************************************************************************)
EXTENDS BenchmarkDriver, FiniteSetTheorems, WellFoundedInduction, TLAPS

-------------------------------------------------------------------------------
(* The lock around s_current_results *)

\* Who copies or assigns the shared results holds the lock, and the report is
\* written when the IO thread has ended.
Locked ==
  /\ main = "publish" => mutex = "main"
  /\ io = "copy" => mutex = "io"
  /\ main \in {"open", "table", "metrics", "plotly", "exit"} => io = "done"

LEMMA LockedInductive == Locked /\ [Next]_vars => Locked'
<1> SUFFICES ASSUME Locked, [Next]_vars PROVE Locked'
  OBVIOUS
<1> USE DEF Locked
<1>1. ASSUME Priority PROVE Locked'
  BY <1>1 DEF Priority, shared, thread
<1>2. ASSUME Validate PROVE Locked'
  BY <1>2 DEF Validate, shared, thread
<1>3. ASSUME ValidationThrows PROVE Locked'
  BY <1>3 DEF ValidationThrows, shared, thread
<1>4. ASSUME Launch PROVE Locked'
  BY <1>4 DEF Launch, shared
<1>5. ASSUME Again PROVE Locked'
  BY <1>5 DEF Again, shared, thread
<1>6. ASSUME RunAll PROVE Locked'
  BY <1>6 DEF RunAll, shared, thread
<1>7. ASSUME BeginMethod PROVE Locked'
  BY <1>7 DEF BeginMethod, shared, thread
<1>8. ASSUME EndMethod PROVE Locked'
  BY <1>8 DEF EndMethod, shared, thread
<1>9. ASSUME Throw PROVE Locked'
  BY <1>9 DEF Throw, Proceed, shared, thread
<1>10. ASSUME PostLock PROVE Locked'
  BY <1>10 DEF PostLock, thread
<1>11. ASSUME PostAssign PROVE Locked'
  BY <1>11 DEF PostAssign, thread
<1>12. ASSUME Check PROVE Locked'
  BY <1>12 DEF Check, Proceed, shared, thread
<1>13. ASSUME Join PROVE Locked'
  BY <1>13 DEF Join, shared, thread
<1>14. ASSUME Open PROVE Locked'
  BY <1>14 DEF Open, shared, thread
<1>15. ASSUME Table PROVE Locked'
  BY <1>15 DEF Table, shared, thread
<1>16. ASSUME Metrics PROVE Locked'
  BY <1>16 DEF Metrics, shared, thread
<1>17. ASSUME Plot PROVE Locked'
  BY <1>17 DEF Plot, shared, thread
<1>18. ASSUME Exit PROVE Locked'
  BY <1>18 DEF Exit, shared, thread
<1>19. ASSUME KeyPressed PROVE Locked'
  BY <1>19 DEF KeyPressed, shared
<1>20. ASSUME Redraw PROVE Locked'
  BY <1>20 DEF Redraw
<1>21. ASSUME Copy PROVE Locked'
  BY <1>21 DEF Copy
<1>22. ASSUME Stop PROVE Locked'
  BY <1>22 DEF Stop
<1>23. ASSUME Type \/ Close PROVE Locked'
  BY <1>23 DEF Type, Close, shared, thread
<1>24. ASSUME Abort PROVE Locked'
  BY <1>24 DEF Abort, shared
<1>25. CASE UNCHANGED vars
  BY <1>25 DEF vars, shared, thread
<1> QED
  BY <1>1, <1>2, <1>3, <1>4, <1>5, <1>6, <1>7, <1>8, <1>9, <1>10, <1>11, <1>12, <1>13,
     <1>14, <1>15, <1>16, <1>17, <1>18, <1>19, <1>20, <1>21, <1>22, <1>23, <1>24,
     <1>25
  DEF Next, Main, IO, Rest

\* Nothing is torn: the shared results are never read by one thread while the
\* other assigns them, and the final report, which is written without the lock,
\* is written alone (benchmark.cpp:90, 142, 495, 520).
THEOREM NothingTorn == Spec => []NoTornResults
<1>1. Init => Locked
  BY DEF Init, Locked
<1>2. Locked => NoTornResults
  BY DEF Locked, NoTornResults
<1> QED
  BY <1>1, <1>2, LockedInductive, PTL DEF Spec

-------------------------------------------------------------------------------
(* The end of a run after the key *)

\* A method has been begun after the key only by a run that will end with it:
\* main() and run_all_benchmarks() begin nothing more.
Prompt ==
  /\ late \in {0, 1}
  /\ late = 1 => esc
  /\ main \in {"run", "bench"} => late = 0

LEMMA PromptInductive == Prompt /\ [Next]_vars => Prompt'
<1> SUFFICES ASSUME Prompt, [Next]_vars PROVE Prompt'
  OBVIOUS
<1> USE DEF Prompt
<1>1. ASSUME \/ Priority \/ Validate \/ ValidationThrows \/ Launch \/ EndMethod
             \/ Abort \/ Join \/ Open \/ Table \/ Metrics \/ Plot \/ Exit
      PROVE  Prompt'
  BY <1>1 DEF Priority, Validate, ValidationThrows, Launch, EndMethod, Abort, Join, Open,
              Table, Metrics, Plot, Exit, shared
<1>2. ASSUME Again PROVE Prompt'
  BY <1>2 DEF Again, shared
<1>3. ASSUME RunAll PROVE Prompt'
  BY <1>3 DEF RunAll, shared
<1>4. ASSUME BeginMethod PROVE Prompt'
  BY <1>4 DEF BeginMethod, shared
<1>5. ASSUME Throw PROVE Prompt'
  BY <1>5 DEF Throw, Proceed, shared
<1>6. ASSUME PostLock \/ PostAssign PROVE Prompt'
  BY <1>6 DEF PostLock, PostAssign
<1>7. ASSUME Check PROVE Prompt'
  BY <1>7 DEF Check, Proceed, shared
<1>8. ASSUME KeyPressed \/ Redraw \/ Copy \/ Stop PROVE Prompt'
  BY <1>8 DEF KeyPressed, Redraw, Copy, Stop, shared
<1>9. ASSUME Type \/ Close PROVE Prompt'
  BY <1>9 DEF Type, Close, shared
<1>10. CASE UNCHANGED vars
  BY <1>10 DEF vars, shared
<1> QED
  BY <1>1, <1>2, <1>3, <1>4, <1>5, <1>6, <1>7, <1>8, <1>9, <1>10 DEF Next, Main, IO, Rest

\* After the key at most one more method of a library is begun
\* (benchmark.cpp:93, 99, 507).
THEOREM OneMoreMethod == Spec => []PromptExit
<1>1. Init => Prompt
  BY DEF Init, Prompt
<1>2. Prompt => PromptExit
  BY DEF Prompt, PromptExit
<1> QED
  BY <1>1, <1>2, PromptInductive, PTL DEF Spec

-------------------------------------------------------------------------------
(* The shared results only grow *)

\* Samples of one library, its entry, and results, as far as their order
\* needs it.
Tables == [ToSet(Methods) -> [1..Sizes -> Nat]]

Entries == [listed : BOOLEAN, entered : SUBSET STRING, samples : Tables]

Some == [ToSet(Libs) -> Entries]

\* The entry e contains all that the entry f contains.
Covers(e, f) ==
  /\ f.listed => e.listed
  /\ \A m \in ToSet(Methods) : \A size \in 1..Sizes : e.samples[m][size] >= f.samples[m][size]

CoversAll(r, s) == \A lib \in ToSet(Libs) : Covers(r[lib], s[lib])

\* While a run works on its results, these contain the published ones, of
\* which they began as a copy.
Grown ==
  /\ at \in [size : Nat, lib : Nat, method : 1..Len(Methods)]
  /\ results \in Some
  /\ current \in Some
  /\ main \in {"bench", "measuring", "post", "publish", "check"} => CoversAll(results, current)

LEMMA CoversSelf == ASSUME NEW e \in Entries PROVE Covers(e, e)
<1>1. \A m \in ToSet(Methods) : \A size \in 1..Sizes : e.samples[m][size] \in Nat
  BY DEF Entries, Tables
<1>2. \A m \in ToSet(Methods) : \A size \in 1..Sizes : e.samples[m][size] >= e.samples[m][size]
  BY <1>1
<1> QED
  BY <1>2 DEF Covers

\* Making an entry keeps everything.
LEMMA EnteredGrows ==
  ASSUME NEW r \in Some, NEW s \in Some, CoversAll(r, s), NEW lib, NEW m \in STRING
  PROVE  Entered(r, lib, m) \in Some /\ CoversAll(Entered(r, lib, m), s)
<1> DEFINE e == Entered(r, lib, m)
<1>1. CASE lib \notin ToSet(Libs)
  <2>1. e = r
    BY <1>1 DEF Entered, Some
  <2> QED
    BY <2>1
<1>2. CASE lib \in ToSet(Libs)
  <2> DEFINE f == [r[lib] EXCEPT !.listed = TRUE, !.entered = @ \cup {m}]
  <2>1. r[lib] \in Entries /\ s[lib] \in Entries
    BY <1>2 DEF Some
  <2>2. f \in Entries /\ f.listed /\ f.samples = r[lib].samples
    BY <2>1 DEF Entries
  <2>3. e = [r EXCEPT ![lib] = f]
    BY <1>2 DEF Entered, Some
  <2>4. Covers(r[lib], s[lib])
    BY <1>2 DEF CoversAll
  <2>5. Covers(f, s[lib])
    BY <2>2, <2>4 DEF Covers
  <2> HIDE DEF e, f
  <2>6. e \in Some
    BY <1>2, <2>2, <2>3 DEF Some
  <2>7. \A l \in ToSet(Libs) : Covers(e[l], s[l])
    BY <1>2, <2>3, <2>5 DEF Some, CoversAll
  <2> QED
    BY <2>6, <2>7 DEF e, CoversAll
<1> QED
  BY <1>1, <1>2

\* One more sample leaves the others alone.
LEMMA MoreSamples ==
  ASSUME NEW old \in Tables, NEW m, NEW size
  PROVE  LET new == [old EXCEPT ![m][size] = IF @ < MaxSamples THEN @ + 1 ELSE @] IN
         new \in Tables /\ \A n \in ToSet(Methods) : \A z \in 1..Sizes : new[n][z] >= old[n][z]
<1> DEFINE more == IF old[m][size] < MaxSamples THEN old[m][size] + 1 ELSE old[m][size]
           row  == [old[m] EXCEPT ![size] = more]
           new  == [old EXCEPT ![m] = row]
<1>0. \A n \in ToSet(Methods) : old[n] \in [1..Sizes -> Nat]
  BY DEF Tables
<1>1. ASSUME NEW n \in ToSet(Methods), NEW z \in 1..Sizes
      PROVE  old[n][z] \in Nat /\ old[n][z] >= old[n][z]
  <2>1. old[n] \in [1..Sizes -> Nat]
    BY <1>0
  <2>2. old[n][z] \in Nat
    BY <2>1
  <2> HIDE DEF more, row, new
  <2> QED
    BY <2>2
<1>2. CASE m \notin ToSet(Methods)
  <2>1. new = old
    BY <1>2 DEF Tables
  <2> QED
    BY <1>1, <2>1
<1>3. CASE m \in ToSet(Methods)
  <2>1. size \in 1..Sizes => more \in Nat /\ more >= old[m][size]
    BY <1>1, <1>3, DriverAssumption
  <2> HIDE DEF more
  <2>2. row \in [1..Sizes -> Nat] /\ \A z \in 1..Sizes : row[z] >= old[m][z]
    BY <1>0, <1>1, <1>3, <2>1
  <2> HIDE DEF row
  <2>3. new \in Tables
    BY <1>3, <2>2 DEF Tables
  <2>4. \A n \in ToSet(Methods) : \A z \in 1..Sizes : new[n][z] >= old[n][z]
    BY <1>1, <1>3, <2>2 DEF Tables
  <2> QED
    BY <2>3, <2>4 DEF more, row
<1> QED
  BY <1>2, <1>3

\* So does recording a sample.
LEMMA SampledGrows ==
  ASSUME NEW r \in Some, NEW s \in Some, CoversAll(r, s), NEW lib, NEW m, NEW size
  PROVE  Sampled(r, lib, m, size) \in Some /\ CoversAll(Sampled(r, lib, m, size), s)
<1> DEFINE e == Sampled(r, lib, m, size)
<1>1. CASE lib \notin ToSet(Libs)
  <2>1. e = r
    BY <1>1 DEF Sampled, Some
  <2> QED
    BY <2>1
<1>2. CASE lib \in ToSet(Libs)
  <2> DEFINE old == r[lib].samples
             new == [old EXCEPT ![m][size] = IF @ < MaxSamples THEN @ + 1 ELSE @]
             f   == [r[lib] EXCEPT !.samples = new]
  <2>1. r[lib] \in Entries /\ s[lib] \in Entries /\ old \in Tables /\ s[lib].samples \in Tables
    BY <1>2 DEF Some, Entries
  <2>2. new \in Tables /\ \A n \in ToSet(Methods) : \A z \in 1..Sizes : new[n][z] >= old[n][z]
    BY <2>1, MoreSamples
  <2>3. \A n \in ToSet(Methods) : \A z \in 1..Sizes : new[n][z] >= old[n][z]
    BY <2>2
  <2>4. f \in Entries /\ f.listed = r[lib].listed /\ f.samples = new
    BY <2>1, <2>2 DEF Entries
  <2>5. e = [r EXCEPT ![lib] = f]
    BY <1>2 DEF Sampled, Some
  <2>6. Covers(r[lib], s[lib])
    BY <1>2 DEF CoversAll
  <2>7. \A n \in ToSet(Methods) : \A z \in 1..Sizes : old[n][z] >= s[lib].samples[n][z]
    BY <2>6 DEF Covers
  <2> HIDE DEF e, f, new, old
  <2>8. ASSUME NEW n \in ToSet(Methods), NEW z \in 1..Sizes
        PROVE  new[n][z] \in Nat /\ old[n][z] \in Nat /\ s[lib].samples[n][z] \in Nat
    BY <2>1, <2>2 DEF Tables
  <2>9. \A n \in ToSet(Methods) : \A z \in 1..Sizes : new[n][z] >= s[lib].samples[n][z]
    BY <2>3, <2>7, <2>8
  <2>10. s[lib].listed => f.listed
    BY <2>4, <2>6 DEF Covers
  <2>11. Covers(f, s[lib])
    BY <2>4, <2>9, <2>10 DEF Covers
  <2>12. e \in Some
    BY <1>2, <2>4, <2>5 DEF Some
  <2>13. \A l \in ToSet(Libs) : Covers(e[l], s[l])
    BY <1>2, <2>5, <2>11 DEF Some, CoversAll
  <2> QED
    BY <2>12, <2>13 DEF e, CoversAll
<1> QED
  BY <1>1, <1>2

Position == [size : Nat, lib : Nat, method : 1..Len(Methods)]

LEMMA MethodNames == Len(Methods) \in Nat \ {0} /\ \A i \in 1..Len(Methods) : Methods[i] \in STRING
  BY DriverAssumption

LEMMA Positions ==
  ASSUME at \in Position
  PROVE  /\ NextLib \in Position
         /\ NextMethod \in Position
         /\ [at EXCEPT !.lib = @ + 1] \in Position
         /\ Method \in STRING
<1>1. NextLib \in Position
  BY MethodNames DEF NextLib, Position
<1>2. NextMethod \in Position
  <2>1. CASE at.method = Len(Methods)
    BY <1>1, <2>1 DEF NextMethod
  <2>2. CASE at.method # Len(Methods)
    BY MethodNames, <2>2 DEF NextMethod, Position
  <2> QED
    BY <2>1, <2>2
<1>3. [at EXCEPT !.lib = @ + 1] \in Position
  BY DEF Position
<1>4. Method \in STRING
  BY MethodNames DEF Method, Position
<1> QED
  BY <1>1, <1>2, <1>3, <1>4

LEMMA StartsInPosition == Start \in Position
  BY MethodNames DEF Start, Position

LEMMA GrownInitially == Init => Grown
<1> SUFFICES ASSUME Init PROVE Grown
  OBVIOUS
<1>1. None \in Some
  BY DriverAssumption DEF None, Some, Entries, Tables
<1> QED
  BY <1>1, StartsInPosition DEF Init, Grown, Position

\* Every step keeps the order between the two results, and publishes only
\* results that contain what was published before.
LEMMA GrownInductive == Grown /\ [Next]_vars => Grown' /\ CoversAll(current', current)
<1> SUFFICES ASSUME Grown, [Next]_vars PROVE Grown' /\ CoversAll(current', current)
  OBVIOUS
<1>0. /\ at \in Position /\ results \in Some /\ current \in Some
      /\ CoversAll(current, current) /\ CoversAll(results, results)
  <2>1. \A r \in Some : CoversAll(r, r)
    BY CoversSelf DEF CoversAll, Some
  <2> QED
    BY <2>1 DEF Grown, Position
<1> USE <1>0 DEF Grown, Position
<1>1. ASSUME Priority \/ Validate \/ ValidationThrows \/ Launch \/ Join \/ Open
             \/ Abort \/ Table \/ Metrics \/ Plot \/ Exit
      PROVE  Grown' /\ CoversAll(current', current)
  <2>1. at' \in Position
    BY <1>1, Positions, StartsInPosition
    DEF Priority, Validate, ValidationThrows, Abort, Launch, Join, Open, Table, Metrics, Plot,
        Exit
  <2>2. results' = results /\ current' = current
    BY <1>1
    DEF Priority, Validate, ValidationThrows, Abort, Launch, Join, Open, Table, Metrics, Plot,
        Exit, shared
  <2>3. main' \notin {"bench", "measuring", "post", "publish", "check"}
    BY <1>1
    DEF Priority, Validate, ValidationThrows, Abort, Launch, Join, Open, Table, Metrics, Plot,
        Exit
  <2> QED
    BY <2>1, <2>2, <2>3
<1>2. ASSUME Again PROVE Grown' /\ CoversAll(current', current)
  BY <1>2 DEF Again, shared
<1>3. ASSUME RunAll PROVE Grown' /\ CoversAll(current', current)
  BY <1>3, StartsInPosition DEF RunAll, shared
<1>4. ASSUME BeginMethod PROVE Grown' /\ CoversAll(current', current)
  <2>1. CoversAll(results, current) /\ Method \in STRING
    BY <1>4, Positions DEF BeginMethod
  <2>2. results' \in Some /\ CoversAll(results', current)
    BY <1>4, <2>1, EnteredGrows DEF BeginMethod
  <2> QED
    BY <1>4, <2>2 DEF BeginMethod, shared
<1>5. ASSUME EndMethod PROVE Grown' /\ CoversAll(current', current)
  <2>1. CoversAll(results, current)
    BY <1>5 DEF EndMethod
  <2>2. results' \in Some /\ CoversAll(results', current)
    BY <1>5, <2>1, SampledGrows DEF EndMethod
  <2> QED
    BY <1>5, <2>2 DEF EndMethod, shared
<1>6. ASSUME Throw PROVE Grown' /\ CoversAll(current', current)
  BY <1>6, Positions DEF Throw, Proceed, shared
<1>7. ASSUME PostLock PROVE Grown' /\ CoversAll(current', current)
  BY <1>7 DEF PostLock
<1>8. ASSUME PostAssign PROVE Grown' /\ CoversAll(current', current)
  BY <1>8 DEF PostAssign
<1>9. ASSUME Check PROVE Grown' /\ CoversAll(current', current)
  BY <1>9, Positions DEF Check, Proceed, shared
<1>10. ASSUME KeyPressed \/ Redraw \/ Copy \/ Stop \/ Type \/ Close
       PROVE  Grown' /\ CoversAll(current', current)
  BY <1>10 DEF KeyPressed, Redraw, Copy, Stop, Type, Close, shared
<1>11. CASE UNCHANGED vars
  BY <1>11 DEF vars, shared
<1> QED
  BY <1>1, <1>2, <1>3, <1>4, <1>5, <1>6, <1>7, <1>8, <1>9, <1>10, <1>11
  DEF Next, Main, IO, Rest

\* What the report shows only grows, over all the runs and whatever throws: a
\* run begins with a copy of what is published (benchmark.cpp:142) and only
\* adds to it until it publishes (benchmark.cpp:91).
THEOREM NothingShownIsLost == Spec => ShownOnlyGrows
<1>1. Grown /\ [Next]_vars =>
        [\A lib \in ToSet(Libs) :
           /\ current[lib].listed => current'[lib].listed
           /\ \A m \in ToSet(Methods) : \A size \in 1..Sizes :
                current'[lib].samples[m][size] >= current[lib].samples[m][size]]_vars
  BY GrownInductive DEF CoversAll, Covers
<1> QED
  BY <1>1, GrownInitially, GrownInductive, PTL DEF Spec, ShownOnlyGrows

-------------------------------------------------------------------------------
(* The sums of the plot *)

\* What holds of 0 and passes from each number to the next holds of all.
LEMMA SetInduction ==
  ASSUME NEW S \in SUBSET Nat, 0 \in S, \A n \in S : n + 1 \in S
  PROVE  S = Nat
<1> DEFINE R == {ss \in Nat \X Nat : ss[1] < ss[2]}
           T == Nat \ S
<1>1. SUFFICES ASSUME T # {} PROVE FALSE
  OBVIOUS
<1>2. IsWellFoundedOn(R, Nat)
  BY NatLessThanWellFounded DEF OpToRel
<1>3. \E x \in T : \A y \in T : <<y, x>> \notin R
  <2>1. T \subseteq Nat
    OBVIOUS
  <2> HIDE DEF R, T
  <2> QED
    BY <1>1, <1>2, <2>1, WFMin
<1>4. PICK x \in T : \A y \in T : ~(y < x)
  BY <1>3
<1>5. x # 0 /\ x - 1 \in Nat
  BY <1>4
<1>6. x - 1 \in S
  BY <1>4, <1>5
<1> QED
  BY <1>4, <1>5, <1>6

\* The sums of the first terms of g.
Partial(g, n) == {s \in [0..n -> Nat] : s = [m \in 0..n |-> IF m = 0 THEN 0 ELSE s[m - 1] + g[m]]}

\* The sums of n terms exist.
LEMMA SumsExist ==
  ASSUME NEW K \in Nat, NEW g \in [1..K -> Nat], NEW n \in 0..K
  PROVE  Partial(g, n) # {}
<1> DEFINE S == {k \in Nat : k <= K => Partial(g, k) # {}}
<1>1. Partial(g, 0) # {}
  <2> DEFINE s == [m \in 0..0 |-> 0]
  <2>1. s \in [0..0 -> Nat]
    OBVIOUS
  <2>2. s = [m \in 0..0 |-> IF m = 0 THEN 0 ELSE s[m - 1] + g[m]]
    OBVIOUS
  <2> HIDE DEF s
  <2> QED
    BY <2>1, <2>2 DEF Partial
<1>2. ASSUME NEW k \in Nat, k + 1 <= K, Partial(g, k) # {} PROVE Partial(g, k + 1) # {}
  <2>1. PICK s \in [0..k -> Nat] : s = [m \in 0..k |-> IF m = 0 THEN 0 ELSE s[m - 1] + g[m]]
    BY <1>2 DEF Partial
  <2> DEFINE t == [m \in 0..(k + 1) |-> IF m <= k THEN s[m] ELSE s[k] + g[k + 1]]
  <2>2. t \in [0..(k + 1) -> Nat]
    <3>1. s[k] + g[k + 1] \in Nat
      <4>1. s[k] \in Nat /\ g[k + 1] \in Nat
        BY <1>2
      <4> QED
        BY <4>1
    <3>2. \A m \in 0..(k + 1) : m <= k => s[m] \in Nat
      OBVIOUS
    <3> QED
      BY <3>1, <3>2
  <2>3. ASSUME NEW m \in 0..(k + 1) PROVE t[m] = IF m = 0 THEN 0 ELSE t[m - 1] + g[m]
    <3>1. \A i \in 0..k : s[i] = IF i = 0 THEN 0 ELSE s[i - 1] + g[i]
      BY <2>1
    <3>2. CASE m = k + 1
      <4>1. t[m] = s[k] + g[k + 1] /\ t[k] = s[k]
        BY <3>2
      <4> QED
        BY <4>1, <3>2
    <3>3. CASE m # k + 1
      <4>1. m \in 0..k /\ t[m] = s[m] /\ (m # 0 => t[m - 1] = s[m - 1])
        BY <3>3
      <4> QED
        BY <4>1, <3>1
    <3> QED
      BY <3>2, <3>3
  <2>4. t = [m \in 0..(k + 1) |-> IF m = 0 THEN 0 ELSE t[m - 1] + g[m]]
    BY <2>2, <2>3
  <2> HIDE DEF t
  <2> QED
    BY <2>2, <2>4 DEF Partial
<1>3. S = Nat
  <2>1. S \in SUBSET Nat /\ 0 \in S
    BY <1>1
  <2>2. ASSUME NEW k \in S PROVE k + 1 \in S
    <3>1. k \in Nat /\ (k <= K => Partial(g, k) # {})
      OBVIOUS
    <3>2. k + 1 <= K => Partial(g, k + 1) # {}
      BY <1>2, <3>1
    <3> QED
      BY <3>1, <3>2
  <2> HIDE DEF S
  <2> QED
    BY <2>1, <2>2, SetInduction
<1> QED
  BY <1>3

\* Whatever follows the rule of the sums is a sequence of numbers.
LEMMA SumsAreNumbers ==
  ASSUME NEW K \in Nat, NEW g \in [1..K -> Nat],
         NEW s, s = [m \in 0..K |-> IF m = 0 THEN 0 ELSE s[m - 1] + g[m]]
  PROVE  s \in [0..K -> Nat]
<1> DEFINE S == {k \in Nat : k <= K => s[k] \in Nat}
<1>1. \A m \in 0..K : s[m] = IF m = 0 THEN 0 ELSE s[m - 1] + g[m]
  OBVIOUS
<1>2. ASSUME NEW k \in S PROVE k + 1 \in S
  <2>1. k \in Nat /\ (k <= K => s[k] \in Nat)
    OBVIOUS
  <2>2. ASSUME k + 1 <= K PROVE s[k + 1] \in Nat
    <3>1. s[k + 1] = s[k] + g[k + 1]
      BY <1>1, <2>1, <2>2
    <3>2. s[k] \in Nat /\ g[k + 1] \in Nat
      BY <2>1, <2>2
    <3> QED
      BY <3>1, <3>2
  <2> QED
    BY <2>1, <2>2
<1>3. S = Nat
  <2>1. S \in SUBSET Nat /\ 0 \in S
    BY <1>1
  <2> HIDE DEF S
  <2> QED
    BY <1>2, <2>1, SetInduction
<1>4. ASSUME NEW m \in 0..K PROVE s[m] \in Nat
  <2>1. m \in Nat /\ m <= K
    OBVIOUS
  <2>2. m \in S
    <3> HIDE DEF S
    <3> QED
      BY <1>3, <2>1
  <2> QED
    BY <2>1, <2>2
<1> QED
  BY <1>4

\* The sums of the plot: each is the one before and one more term.
LEMMA SumsStep ==
  ASSUME NEW r \in Some, NEW size \in 1..Sizes, NEW lib \in ToSet(Libs)
  PROVE  /\ Sums(r, size, lib) \in [0..Len(Methods) -> Nat]
         /\ Sums(r, size, lib)[0] = 0
         /\ \A n \in 1..Len(Methods) :
              Sums(r, size, lib)[n] = Sums(r, size, lib)[n - 1] + Term(r, size, lib, Methods[n])
<1> DEFINE g == [n \in 1..Len(Methods) |-> Term(r, size, lib, Methods[n])]
<1>0. Len(Methods) \in Nat
  BY MethodNames
<1>1. g \in [1..Len(Methods) -> Nat]
  <2>1. ASSUME NEW n \in 1..Len(Methods) PROVE Term(r, size, lib, Methods[n]) \in Nat
    <3>1. r[lib].samples \in [ToSet(Methods) -> [1..Sizes -> Nat]]
      BY DEF Some, Entries, Tables
    <3>2. Methods[n] \in ToSet(Methods)
      BY DriverAssumption DEF ToSet
    <3>3. r[lib].samples[Methods[n]][size] \in Nat
      BY <3>1, <3>2
    <3> QED
      BY <3>3 DEF Term
  <2> QED
    BY <2>1
<1>2. PICK s : s = [m \in 0..Len(Methods) |-> IF m = 0 THEN 0 ELSE s[m - 1] + g[m]]
  <2> HIDE DEF g
  <2>1. Partial(g, Len(Methods)) # {}
    BY <1>0, <1>1, SumsExist
  <2> QED
    BY <2>1 DEF Partial
<1>3. \A s1 : (s1 = [m \in 0..Len(Methods) |-> IF m = 0 THEN 0 ELSE s1[m - 1] + g[m]]) <=>
              (s1 = [m \in 0..Len(Methods) |->
                       IF m = 0 THEN 0 ELSE s1[m - 1] + Term(r, size, lib, Methods[m])])
  <2> TAKE s1
  <2> DEFINE u == [m \in 0..Len(Methods) |-> IF m = 0 THEN 0 ELSE s1[m - 1] + g[m]]
             v == [m \in 0..Len(Methods) |->
                     IF m = 0 THEN 0 ELSE s1[m - 1] + Term(r, size, lib, Methods[m])]
  <2>1. \A m \in 0..Len(Methods) : m # 0 => g[m] = Term(r, size, lib, Methods[m])
    BY <1>0
  <2> HIDE DEF g
  <2>2. \A m \in 0..Len(Methods) : u[m] = v[m]
    BY <2>1
  <2>3. u = v
    BY <2>2
  <2> QED
    BY <2>3
<1>4. Sums(r, size, lib) = [m \in 0..Len(Methods) |->
         IF m = 0 THEN 0
         ELSE Sums(r, size, lib)[m - 1] + Term(r, size, lib, Methods[m])]
  <2>1. \E s1 : s1 = [m \in 0..Len(Methods) |->
                       IF m = 0 THEN 0 ELSE s1[m - 1] + Term(r, size, lib, Methods[m])]
    BY <1>2, <1>3
  <2> QED
    BY <2>1 DEF Sums
<1>5. Sums(r, size, lib) \in [0..Len(Methods) -> Nat]
  <2>1. Sums(r, size, lib) =
          [m \in 0..Len(Methods) |-> IF m = 0 THEN 0 ELSE Sums(r, size, lib)[m - 1] + g[m]]
    BY <1>3, <1>4
  <2> HIDE DEF g
  <2> QED
    BY <1>0, <1>1, <2>1, SumsAreNumbers
<1>6. Sums(r, size, lib)[0] = 0
  BY <1>0, <1>4
<1>7. ASSUME NEW n \in 1..Len(Methods)
      PROVE  Sums(r, size, lib)[n] = Sums(r, size, lib)[n - 1] + Term(r, size, lib, Methods[n])
  <2> DEFINE t == Sums(r, size, lib)
  <2>1. n \in 0..Len(Methods) /\ n # 0
    BY <1>0
  <2>2. \A m \in 0..Len(Methods) :
          t[m] = IF m = 0 THEN 0 ELSE t[m - 1] + Term(r, size, lib, Methods[m])
    BY <1>4
  <2> HIDE DEF t
  <2>3. t[n] = t[n - 1] + Term(r, size, lib, Methods[n])
    BY <2>1, <2>2
  <2> QED
    BY <2>3 DEF t
<1> QED
  BY <1>5, <1>6, <1>7

\* The first n methods.
FirstMethods(n) == {Methods[j] : j \in 1..n}

LEMMA FirstMethodsStep ==
  ASSUME NEW n \in Nat, n + 1 <= Len(Methods)
  PROVE  /\ FirstMethods(n + 1) = FirstMethods(n) \cup {Methods[n + 1]}
         /\ Methods[n + 1] \notin FirstMethods(n)
<1>0. Len(Methods) \in Nat /\ DOMAIN Methods = 1..Len(Methods)
  BY DriverAssumption
<1>1. 1..(n + 1) = (1..n) \cup {n + 1}
  OBVIOUS
<1>2. Methods[n + 1] \notin FirstMethods(n)
  BY <1>0, DriverAssumption DEF FirstMethods, IsInjective
<1> QED
  BY <1>1, <1>2 DEF FirstMethods

\* All of them are the methods.
LEMMA AllMethods == FirstMethods(Len(Methods)) = ToSet(Methods)
  BY DriverAssumption DEF FirstMethods, ToSet

\* A set of methods is finite, and grows by one when it takes one more.
LEMMA MethodsCount ==
  ASSUME NEW C, NEW n \in 0..Len(Methods)
  PROVE  IsFiniteSet(C \cap FirstMethods(n)) /\ Cardinality(C \cap FirstMethods(n)) \in Nat
<1> DEFINE S == {k \in Nat : k <= Len(Methods) => IsFiniteSet(C \cap FirstMethods(k))}
<1>0. Len(Methods) \in Nat
  BY MethodNames
<1>1. 0 \in S
  <2>1. C \cap FirstMethods(0) = {}
    BY DEF FirstMethods
  <2> QED
    BY <2>1, FS_EmptySet
<1>2. ASSUME NEW k \in S PROVE k + 1 \in S
  <2>1. k \in Nat /\ (k <= Len(Methods) => IsFiniteSet(C \cap FirstMethods(k)))
    OBVIOUS
  <2>2. ASSUME k + 1 <= Len(Methods) PROVE IsFiniteSet(C \cap FirstMethods(k + 1))
    <3>1. \/ C \cap FirstMethods(k + 1) = C \cap FirstMethods(k)
          \/ C \cap FirstMethods(k + 1) = (C \cap FirstMethods(k)) \cup {Methods[k + 1]}
      BY <2>1, <2>2, FirstMethodsStep
    <3>2. IsFiniteSet(C \cap FirstMethods(k))
      BY <1>0, <2>1, <2>2
    <3> QED
      BY <3>1, <3>2, FS_AddElement
  <2> QED
    BY <2>1, <2>2
<1>3. S = Nat
  <2>1. S \in SUBSET Nat
    OBVIOUS
  <2> HIDE DEF S
  <2> QED
    BY <1>1, <1>2, <2>1, SetInduction
<1>4. n \in S
  <2> HIDE DEF S
  <2> QED
    BY <1>0, <1>3
<1>5. IsFiniteSet(C \cap FirstMethods(n))
  BY <1>4, <1>0
<1> QED
  BY <1>5, FS_CardinalityType

\* Two libraries with the same methods, whose samples of a size are at most one
\* apart in each: then the sums are at most as many apart as there are methods.
LEMMA SumsApart ==
  ASSUME NEW r \in Some, NEW size \in 1..Sizes, NEW a \in ToSet(Libs), NEW b \in ToSet(Libs),
         Counted(r, a) = Counted(r, b), Counted(r, a) \subseteq ToSet(Methods),
         \A m \in ToSet(Methods) : r[a].samples[m][size] <= r[b].samples[m][size] + 1
  PROVE  Sums(r, size, a)[Len(Methods)] - Sums(r, size, b)[Len(Methods)]
           <= Cardinality(Counted(r, a))
<1> DEFINE K == Len(Methods)
           C == Counted(r, a)
           card(n) == Cardinality(C \cap FirstMethods(n))
           sa == Sums(r, size, a)
           sb == Sums(r, size, b)
           S == {k \in Nat : k <= K => sa[k] - sb[k] <= card(k)}
<1>0. K \in Nat
  BY MethodNames
<1>1. /\ sa \in [0..K -> Nat] /\ sa[0] = 0
      /\ \A n \in 1..K : sa[n] = sa[n - 1] + Term(r, size, a, Methods[n])
      /\ sb \in [0..K -> Nat] /\ sb[0] = 0
      /\ \A n \in 1..K : sb[n] = sb[n - 1] + Term(r, size, b, Methods[n])
  BY SumsStep
<1> HIDE DEF sa, sb
<1>c. ASSUME NEW n \in 0..K PROVE IsFiniteSet(C \cap FirstMethods(n)) /\ card(n) \in Nat
  <2> HIDE DEF C
  <2> QED
    BY MethodsCount
<1>2. 0 \in S
  <2>1. card(0) \in Nat
    BY <1>0, <1>c
  <2> HIDE DEF card
  <2> QED
    BY <1>1, <2>1
<1>3. ASSUME NEW k \in S PROVE k + 1 \in S
  <2>1. k \in Nat /\ (k <= K => sa[k] - sb[k] <= card(k))
    OBVIOUS
  <2>2. ASSUME k + 1 <= K PROVE sa[k + 1] - sb[k + 1] <= card(k + 1)
    <3> DEFINE m  == Methods[k + 1]
               ta == Term(r, size, a, m)
               tb == Term(r, size, b, m)
    <3>0. k \in 0..K /\ k <= K /\ k + 1 \in 1..K /\ (k + 1) - 1 = k
      BY <1>0, <2>1, <2>2
    <3>1. sa[k] \in Nat /\ sb[k] \in Nat /\ sa[k] - sb[k] <= card(k)
      <4> HIDE DEF card, K
      <4>1. sa[k] - sb[k] <= card(k)
        BY <2>1, <3>0
      <4> QED
        BY <1>1, <3>0, <4>1
    <3>2. sa[k + 1] = sa[k] + ta /\ sb[k + 1] = sb[k] + tb
      <4> HIDE DEF K
      <4> QED
        BY <1>1, <3>0
    <3>3. m \in ToSet(Methods)
      BY <2>1, <2>2, DriverAssumption DEF ToSet
    <3>4. ASSUME NEW l \in ToSet(Libs) PROVE r[l].samples[m][size] \in Nat
      <4>1. r[l].samples \in [ToSet(Methods) -> [1..Sizes -> Nat]]
        BY DEF Some, Entries, Tables
      <4> QED
        BY <3>3, <4>1
    <3>5. CASE m \in C
      <4>1. /\ C \cap FirstMethods(k + 1) = (C \cap FirstMethods(k)) \cup {m}
            /\ m \notin C \cap FirstMethods(k)
        BY <2>1, <2>2, <3>5, FirstMethodsStep
      <4>2. IsFiniteSet(C \cap FirstMethods(k)) /\ card(k) \in Nat
        <5>1. k \in 0..K
          BY <1>0, <2>1, <2>2
        <5> HIDE DEF card, C
        <5> QED
          BY <1>c, <5>1
      <4>3. card(k + 1) = card(k) + 1
        <5> HIDE DEF C, m
        <5> QED
          BY <4>1, <4>2, FS_AddElement
      <4>4. ta = r[a].samples[m][size] /\ tb = r[b].samples[m][size]
        BY <3>5 DEF Term
      <4>5. ta \in Nat /\ tb \in Nat /\ ta <= tb + 1
        BY <3>3, <3>4, <4>4
      <4> HIDE DEF ta, tb, card, K, C, m
      <4> QED
        BY <3>1, <3>2, <4>2, <4>3, <4>5
    <3>6. CASE m \notin C
      <4>1. C \cap FirstMethods(k + 1) = C \cap FirstMethods(k)
        BY <2>1, <2>2, <3>6, FirstMethodsStep
      <4>2. card(k + 1) = card(k)
        BY <4>1
      <4>3. ta = 0 /\ tb = 0
        BY <3>6 DEF Term
      <4> HIDE DEF ta, tb, card, K, C, m
      <4> QED
        BY <3>1, <3>2, <4>2, <4>3
    <3> QED
      BY <3>5, <3>6
  <2> HIDE DEF card
  <2> QED
    BY <2>1, <2>2
<1>4. S = Nat
  <2>1. S \in SUBSET Nat
    OBVIOUS
  <2> HIDE DEF S
  <2> QED
    BY <1>2, <1>3, <2>1, SetInduction
<1>5. K \in S
  <2> HIDE DEF S
  <2> QED
    BY <1>0, <1>4
<1>6. sa[K] - sb[K] <= card(K)
  <2> HIDE DEF card
  <2> QED
    BY <1>0, <1>5
<1>7. C \cap FirstMethods(K) = C
  BY AllMethods
<1> QED
  BY <1>6, <1>7 DEF sa, sb

-------------------------------------------------------------------------------
(* Where the loops of the main thread are *)

\* Inside run_all_benchmarks.
Running == {"bench", "measuring", "post", "publish", "check"}

\* The loop variables stay inside their lists.
InPlace ==
  /\ at \in Position
  /\ main \in Running => at.size \in 1..Sizes /\ at.lib \in 1..Len(Libs)
  /\ main \in {"validate", "metrics"} => at.lib \in 1..Len(Libs)
  /\ main \in {"priority", "open", "table"} => at = Start

LEMMA LibNames ==
  /\ Len(Libs) \in Nat \ {0}
  /\ DOMAIN Libs = 1..Len(Libs)
  /\ ToSet(Libs) = {Libs[i] : i \in 1..Len(Libs)}
  /\ \A i, j \in 1..Len(Libs) : Libs[i] = Libs[j] => i = j
  BY DriverAssumption DEF ToSet, IsInjective

LEMMA InPlaceInitially == Init => InPlace
  BY StartsInPosition DEF Init, InPlace, Running

LEMMA InPlaceInductive == InPlace /\ [Next]_vars => InPlace'
<1> SUFFICES ASSUME InPlace, [Next]_vars PROVE InPlace'
  OBVIOUS
<1> USE DEF InPlace, Running
<1>0. /\ Start \in Position /\ Start.lib = 1 /\ Start.size = 1
      /\ 1 \in 1..Len(Libs) /\ 1 \in 1..Sizes
      /\ at \in Position
      /\ NextLib \in Position /\ NextMethod \in Position /\ [at EXCEPT !.lib = @ + 1] \in Position
  BY StartsInPosition, LibNames, Positions, DriverAssumption DEF Start
<1>1. ASSUME main \in Running
      PROVE  /\ NextLib.size <= Sizes => NextLib.size \in 1..Sizes /\ NextLib.lib \in 1..Len(Libs)
             /\ NextMethod.size <= Sizes =>
                  NextMethod.size \in 1..Sizes /\ NextMethod.lib \in 1..Len(Libs)
  <2>1. at.size \in 1..Sizes /\ at.lib \in 1..Len(Libs)
    BY <1>1
  <2>2. NextLib.size <= Sizes => NextLib.size \in 1..Sizes /\ NextLib.lib \in 1..Len(Libs)
    BY <1>0, <2>1, LibNames, DriverAssumption DEF NextLib
  <2>3. CASE at.method = Len(Methods)
    BY <2>2, <2>3 DEF NextMethod
  <2>4. CASE at.method # Len(Methods)
    BY <1>0, <2>1, <2>2, <2>4 DEF NextMethod, Position
  <2> QED
    BY <2>2, <2>3, <2>4
<1>2. ASSUME Priority \/ Launch \/ Again \/ RunAll \/ Join \/ Open \/ Table \/ Plot \/ Exit
             \/ ValidationThrows \/ Abort
      PROVE  InPlace'
  BY <1>0, <1>2 DEF Priority, Launch, Again, RunAll, Join, Open, Table, Plot, Exit,
                    ValidationThrows, Abort
<1>3. ASSUME Validate \/ Metrics PROVE InPlace'
  <2>1. at.lib \in 1..Len(Libs) /\ main \in {"validate", "metrics"}
    BY <1>3 DEF Validate, Metrics
  <2>2. CASE at.lib = Len(Libs)
    BY <1>0, <1>3, <2>2 DEF Validate, Metrics
  <2>3. CASE at.lib # Len(Libs)
    <3>1. at' = [at EXCEPT !.lib = @ + 1] /\ main' = main
      BY <1>3, <2>3 DEF Validate, Metrics
    <3>2. at'.lib \in 1..Len(Libs)
      BY <2>1, <2>3, <3>1, LibNames DEF Position
    <3> QED
      BY <1>0, <2>1, <3>1, <3>2
  <2> QED
    BY <2>2, <2>3
<1>4. ASSUME BeginMethod \/ EndMethod \/ PostLock \/ PostAssign PROVE InPlace'
  BY <1>4 DEF BeginMethod, EndMethod, PostLock, PostAssign
<1>5. ASSUME Throw PROVE InPlace'
  <2>1. /\ main = "measuring" /\ at' = NextLib
        /\ main' = IF NextLib.size > Sizes THEN "again" ELSE "bench"
    BY <1>5 DEF Throw, Proceed
  <2>2. NextLib.size \in Nat /\ Sizes \in Nat
    BY <1>0, DriverAssumption DEF Position
  <2>3. main' = "bench" => at'.size \in 1..Sizes /\ at'.lib \in 1..Len(Libs)
    BY <1>1, <2>1, <2>2
  <2> QED
    BY <1>0, <2>1, <2>3
<1>6. ASSUME Check PROVE InPlace'
  <2>1. main = "check" /\ main' \in {"again", "bench"}
    BY <1>6 DEF Check, Proceed
  <2>2. CASE esc
    BY <1>6, <2>2 DEF Check
  <2>3. CASE ~esc
    <3>1. at' = NextMethod /\ main' = IF NextMethod.size > Sizes THEN "again" ELSE "bench"
      BY <1>6, <2>3 DEF Check, Proceed
    <3>2. NextMethod.size \in Nat /\ Sizes \in Nat
      BY <1>0, DriverAssumption DEF Position
    <3>3. main' = "bench" => at'.size \in 1..Sizes /\ at'.lib \in 1..Len(Libs)
      BY <1>1, <2>1, <3>1, <3>2
    <3> QED
      BY <1>0, <2>1, <3>1, <3>3
  <2> QED
    BY <2>2, <2>3
<1>7. ASSUME KeyPressed \/ Redraw \/ Copy \/ Stop \/ Type \/ Close \/ UNCHANGED vars PROVE InPlace'
  BY <1>7 DEF KeyPressed, Redraw, Copy, Stop, Type, Close, vars
<1> QED
  BY <1>2, <1>3, <1>4, <1>5, <1>6, <1>7 DEF Next, Main, IO, Rest

-------------------------------------------------------------------------------
(* The libraries are measured in turn *)

\* The measurement of the i-th library, the j-th method and the size z comes
\* before the position that has size x, library y and method w.
Earlier(i, j, z, x, y, w) ==
  \/ z < x
  \/ z = x /\ i < y
  \/ z = x /\ i = y /\ j < w

\* The measurements before a position of the loops, and those up to and with it.
DoneBefore(p) ==
  {t \in (1..Len(Libs)) \X (1..Len(Methods)) \X (1..Sizes) :
     Earlier(t[1], t[2], t[3], p.size, p.lib, p.method)}

DoneWith(p) == DoneBefore(p) \cup {<<p.lib, p.method, p.size>>}

\* The samples of a library, a method and a size, by their numbers.
Sample(r, i, j, z) == r[Libs[i]].samples[Methods[j]][z]

Up(n) == IF n < MaxSamples THEN n + 1 ELSE n

\* Of two libraries that have not thrown, the one that is ahead by a measurement
\* is ahead by a sample, and none when neither is.
Even(r, done, bad) ==
  \A i, k \in 1..Len(Libs) : \A j \in 1..Len(Methods) : \A z \in 1..Sizes :
    (Libs[i] \notin bad /\ Libs[k] \notin bad) =>
      /\ (<<i, j, z>> \in done <=> <<k, j, z>> \in done) => Sample(r, i, j, z) = Sample(r, k, j, z)
      /\ (<<i, j, z>> \in done /\ <<k, j, z>> \notin done) =>
           Sample(r, i, j, z) = Up(Sample(r, k, j, z))

\* No library that has not thrown is more than a sample ahead of another.
OneApart(r, bad) ==
  \A i, k \in 1..Len(Libs) : \A j \in 1..Len(Methods) : \A z \in 1..Sizes :
    (Libs[i] \notin bad /\ Libs[k] \notin bad) => Sample(r, i, j, z) <= Sample(r, k, j, z) + 1

\* One more method, library or size later one more measurement is earlier.
LEMMA AfterMethod ==
  ASSUME NEW i \in Nat, NEW j \in Nat, NEW z \in Nat, NEW x \in Nat, NEW y \in Nat, NEW w \in Nat
  PROVE  Earlier(i, j, z, x, y, w + 1) <=> Earlier(i, j, z, x, y, w) \/ (z = x /\ i = y /\ j = w)
  BY DEF Earlier

LEMMA AfterLib ==
  ASSUME NEW i \in Nat, NEW j \in Nat \ {0}, NEW z \in Nat,
         NEW x \in Nat, NEW y \in Nat, NEW w \in Nat, j <= w
  PROVE  Earlier(i, j, z, x, y + 1, 1) <=> Earlier(i, j, z, x, y, w) \/ (z = x /\ i = y /\ j = w)
  BY DEF Earlier

LEMMA AfterSize ==
  ASSUME NEW i \in Nat \ {0}, NEW j \in Nat \ {0}, NEW z \in Nat,
         NEW x \in Nat, NEW y \in Nat, NEW w \in Nat, j <= w, i <= y
  PROVE  Earlier(i, j, z, x + 1, 1, 1) <=> Earlier(i, j, z, x, y, w) \/ (z = x /\ i = y /\ j = w)
  BY DEF Earlier

\* When the rest of a library is skipped, those of the others that are earlier
\* stay the same.
LEMMA SkipLib ==
  ASSUME NEW i \in Nat, NEW j \in Nat \ {0}, NEW z \in Nat,
         NEW x \in Nat, NEW y \in Nat, NEW w \in Nat, i # y
  PROVE  Earlier(i, j, z, x, y + 1, 1) <=> Earlier(i, j, z, x, y, w)
  BY DEF Earlier

LEMMA SkipSize ==
  ASSUME NEW i \in Nat \ {0}, NEW j \in Nat \ {0}, NEW z \in Nat,
         NEW x \in Nat, NEW y \in Nat, NEW w \in Nat, i < y
  PROVE  Earlier(i, j, z, x + 1, 1, 1) <=> Earlier(i, j, z, x, y, w)
  BY DEF Earlier

LEMMA InDoneBefore ==
  ASSUME NEW p, NEW i \in 1..Len(Libs), NEW j \in 1..Len(Methods), NEW z \in 1..Sizes
  PROVE  <<i, j, z>> \in DoneBefore(p) <=> Earlier(i, j, z, p.size, p.lib, p.method)
  BY DEF DoneBefore

\* The position that follows on one of the loops.
LEMMA NextPositions ==
  ASSUME at \in Position
  PROVE  /\ at.method # Len(Methods) =>
              /\ NextMethod.size = at.size /\ NextMethod.lib = at.lib
              /\ NextMethod.method = at.method + 1
         /\ at.method = Len(Methods) => NextMethod = NextLib
         /\ at.lib # Len(Libs) =>
              NextLib.size = at.size /\ NextLib.lib = at.lib + 1 /\ NextLib.method = 1
         /\ at.lib = Len(Libs) =>
              NextLib.size = at.size + 1 /\ NextLib.lib = 1 /\ NextLib.method = 1
  BY DEF NextMethod, NextLib, Position

\* The next position comes right after this one.
LEMMA DoneNextMethod ==
  ASSUME at \in Position, at.size \in 1..Sizes, at.lib \in 1..Len(Libs)
  PROVE  DoneBefore(NextMethod) = DoneWith(at)
<1>0. Len(Libs) \in Nat /\ Len(Methods) \in Nat /\ Sizes \in Nat
  BY LibNames, MethodNames, DriverAssumption
<1>1. at.size \in Nat /\ at.lib \in Nat /\ at.method \in 1..Len(Methods)
  BY DEF Position
<1>2. ASSUME NEW i \in 1..Len(Libs), NEW j \in 1..Len(Methods), NEW z \in 1..Sizes
      PROVE  <<i, j, z>> \in DoneBefore(NextMethod) <=> <<i, j, z>> \in DoneWith(at)
  <2> DEFINE here == z = at.size /\ i = at.lib /\ j = at.method
             with == Earlier(i, j, z, at.size, at.lib, at.method) \/ here
  <2>1. <<i, j, z>> \in DoneBefore(NextMethod) <=>
          Earlier(i, j, z, NextMethod.size, NextMethod.lib, NextMethod.method)
    BY InDoneBefore
  <2>2. <<i, j, z>> \in DoneWith(at) <=> with
    <3>1. <<i, j, z>> = <<at.lib, at.method, at.size>> <=> here
      OBVIOUS
    <3>2. <<i, j, z>> \in DoneBefore(at) <=> Earlier(i, j, z, at.size, at.lib, at.method)
      BY InDoneBefore
    <3> QED
      BY <3>1, <3>2 DEF DoneWith
  <2>3. /\ i \in Nat \ {0} /\ j \in Nat \ {0} /\ z \in Nat
        /\ at.size \in Nat /\ at.lib \in Nat /\ at.method \in Nat
        /\ j <= Len(Methods) /\ i <= Len(Libs)
    BY <1>0, <1>1
  <2>4. Earlier(i, j, z, NextMethod.size, NextMethod.lib, NextMethod.method) <=> with
    <3>1. CASE at.method # Len(Methods)
      <4>1. Earlier(i, j, z, at.size, at.lib, at.method + 1) <=> with
        BY <2>3, AfterMethod
      <4>2. /\ NextMethod.size = at.size /\ NextMethod.lib = at.lib
            /\ NextMethod.method = at.method + 1
        BY <3>1, NextPositions
      <4> QED
        BY <4>1, <4>2
    <3>2. CASE at.method = Len(Methods) /\ at.lib # Len(Libs)
      <4>1. Earlier(i, j, z, at.size, at.lib + 1, 1) <=> with
        <5>1. j <= at.method
          BY <2>3, <3>2
        <5> QED
          BY <2>3, <5>1, AfterLib
      <4>2. NextMethod.size = at.size /\ NextMethod.lib = at.lib + 1 /\ NextMethod.method = 1
        BY <3>2, NextPositions
      <4> QED
        BY <4>1, <4>2
    <3>3. CASE at.method = Len(Methods) /\ at.lib = Len(Libs)
      <4>1. Earlier(i, j, z, at.size + 1, 1, 1) <=> with
        <5>1. j <= at.method /\ i <= at.lib
          BY <2>3, <3>3
        <5> QED
          BY <2>3, <5>1, AfterSize
      <4>2. NextMethod.size = at.size + 1 /\ NextMethod.lib = 1 /\ NextMethod.method = 1
        BY <3>3, NextPositions
      <4> QED
        BY <4>1, <4>2
    <3> QED
      BY <3>1, <3>2, <3>3
  <2> QED
    BY <2>1, <2>2, <2>4
<1> DEFINE all == (1..Len(Libs)) \X (1..Len(Methods)) \X (1..Sizes)
<1>3. DoneBefore(NextMethod) \subseteq all
  BY DEF DoneBefore
<1>4. DoneWith(at) \subseteq all
  BY <1>1 DEF DoneBefore, DoneWith
<1>5. ASSUME NEW t \in all PROVE t \in DoneBefore(NextMethod) <=> t \in DoneWith(at)
  <2>1. PICK i \in 1..Len(Libs), j \in 1..Len(Methods), z \in 1..Sizes : t = <<i, j, z>>
    OBVIOUS
  <2> QED
    BY <1>2, <2>1
<1> HIDE DEF all
<1> QED
  BY <1>3, <1>4, <1>5

\* Skipping the rest of a library changes nothing for the others.
LEMMA DoneNextLib ==
  ASSUME at \in Position, at.size \in 1..Sizes, at.lib \in 1..Len(Libs),
         NEW i \in 1..Len(Libs), NEW j \in 1..Len(Methods), NEW z \in 1..Sizes, i # at.lib
  PROVE  <<i, j, z>> \in DoneBefore(NextLib) <=> <<i, j, z>> \in DoneBefore(at)
<1> DEFINE before == Earlier(i, j, z, at.size, at.lib, at.method)
<1>1. <<i, j, z>> \in DoneBefore(NextLib) <=>
        Earlier(i, j, z, NextLib.size, NextLib.lib, NextLib.method)
  BY InDoneBefore
<1>2. <<i, j, z>> \in DoneBefore(at) <=> before
  BY InDoneBefore
<1>3. /\ i \in Nat \ {0} /\ j \in Nat \ {0} /\ z \in Nat
      /\ at.size \in Nat /\ at.lib \in Nat /\ at.method \in Nat
      /\ Len(Libs) \in Nat /\ i <= Len(Libs)
  BY LibNames, MethodNames, DriverAssumption DEF Position
<1>4. Earlier(i, j, z, NextLib.size, NextLib.lib, NextLib.method) <=> before
  <2>1. CASE at.lib # Len(Libs)
    <3>1. Earlier(i, j, z, at.size, at.lib + 1, 1) <=> before
      BY <1>3, SkipLib
    <3>2. NextLib.size = at.size /\ NextLib.lib = at.lib + 1 /\ NextLib.method = 1
      BY <2>1, NextPositions
    <3> QED
      BY <3>1, <3>2
  <2>2. CASE at.lib = Len(Libs)
    <3>1. Earlier(i, j, z, at.size + 1, 1, 1) <=> before
      <4>1. i < at.lib
        BY <1>3, <2>2
      <4> QED
        BY <1>3, <4>1, SkipSize
    <3>2. NextLib.size = at.size + 1 /\ NextLib.lib = 1 /\ NextLib.method = 1
      BY <2>2, NextPositions
    <3> QED
      BY <3>1, <3>2
  <2> QED
    BY <2>1, <2>2
<1> QED
  BY <1>1, <1>2, <1>4

LEMMA DoneNothing == DoneBefore(Start) = {}
<1>1. Len(Libs) \in Nat /\ Len(Methods) \in Nat /\ Sizes \in Nat
  BY LibNames, MethodNames, DriverAssumption
<1> QED
  BY <1>1 DEF DoneBefore, Earlier, Start

LEMMA DoneAll ==
  ASSUME NEW p \in Position, p.size > Sizes,
         NEW i \in 1..Len(Libs), NEW j \in 1..Len(Methods), NEW z \in 1..Sizes
  PROVE  <<i, j, z>> \in DoneBefore(p)
<1>1. Len(Libs) \in Nat /\ Len(Methods) \in Nat /\ Sizes \in Nat /\ p.size \in Nat
  BY LibNames, MethodNames, DriverAssumption DEF Position
<1> QED
  BY <1>1 DEF DoneBefore, Earlier

\* What is done matters only for the libraries that have not thrown, and more
\* may throw.
LEMMA EvenOthers ==
  ASSUME NEW r, NEW done, NEW bad, Even(r, done, bad), NEW more, NEW worse, bad \subseteq worse,
         \A i \in 1..Len(Libs) : \A j \in 1..Len(Methods) : \A z \in 1..Sizes :
           Libs[i] \notin worse => (<<i, j, z>> \in done <=> <<i, j, z>> \in more)
  PROVE  Even(r, more, worse)
  BY DEF Even

\* When all is done, nobody is ahead.
LEMMA EvenAll ==
  ASSUME NEW r, NEW done, NEW bad, Even(r, done, bad),
         \A i \in 1..Len(Libs) : \A j \in 1..Len(Methods) : \A z \in 1..Sizes : <<i, j, z>> \in done
  PROVE  Even(r, {}, bad)
<1>1. ASSUME NEW i \in 1..Len(Libs), NEW k \in 1..Len(Libs), NEW j \in 1..Len(Methods),
             NEW z \in 1..Sizes, Libs[i] \notin bad, Libs[k] \notin bad
      PROVE  Sample(r, i, j, z) = Sample(r, k, j, z)
  <2>1. <<i, j, z>> \in done /\ <<k, j, z>> \in done
    OBVIOUS
  <2> QED
    BY <1>1, <2>1 DEF Even
<1> QED
  BY <1>1 DEF Even

LEMMA SamplesAreNumbers ==
  ASSUME NEW r \in Some, NEW i \in 1..Len(Libs), NEW j \in 1..Len(Methods), NEW z \in 1..Sizes
  PROVE  Sample(r, i, j, z) \in Nat
<1>1. Libs[i] \in ToSet(Libs) /\ Methods[j] \in ToSet(Methods)
  BY DriverAssumption DEF ToSet
<1>2. r[Libs[i]].samples \in [ToSet(Methods) -> [1..Sizes -> Nat]]
  BY <1>1 DEF Some, Entries, Tables
<1> QED
  BY <1>1, <1>2 DEF Sample

\* Who is ahead is ahead by one sample.
LEMMA EvenApart ==
  ASSUME NEW r \in Some, NEW done, NEW bad, Even(r, done, bad)
  PROVE  OneApart(r, bad)
<1>1. ASSUME NEW i \in 1..Len(Libs), NEW k \in 1..Len(Libs), NEW j \in 1..Len(Methods),
             NEW z \in 1..Sizes, Libs[i] \notin bad, Libs[k] \notin bad
      PROVE  Sample(r, i, j, z) <= Sample(r, k, j, z) + 1
  <2> DEFINE a == Sample(r, i, j, z)
             b == Sample(r, k, j, z)
  <2>1. a \in Nat /\ b \in Nat
    BY SamplesAreNumbers
  <2>2. a = b \/ a = Up(b) \/ b = Up(a)
    BY <1>1 DEF Even
  <2> HIDE DEF a, b
  <2>3. a <= b + 1
    BY <2>1, <2>2, DriverAssumption DEF Up
  <2> QED
    BY <2>3 DEF a, b
<1> QED
  BY <1>1 DEF OneApart

\* An entry has no sample.
LEMMA EnteredSample ==
  ASSUME NEW r \in Some, NEW lib, NEW m,
         NEW i \in 1..Len(Libs), NEW j \in 1..Len(Methods), NEW z \in 1..Sizes
  PROVE  Sample(Entered(r, lib, m), i, j, z) = Sample(r, i, j, z)
<1>1. Libs[i] \in ToSet(Libs)
  BY DriverAssumption DEF ToSet
<1>2. r[Libs[i]] \in Entries
  BY <1>1 DEF Some
<1>3. Entered(r, lib, m)[Libs[i]].samples = r[Libs[i]].samples
  BY <1>1, <1>2 DEF Entered, Some, Entries
<1> QED
  BY <1>3 DEF Sample

\* A measurement adds a sample to its own.
LEMMA SampledSample ==
  ASSUME NEW r \in Some, NEW a \in 1..Len(Libs), NEW b \in 1..Len(Methods), NEW c \in 1..Sizes,
         NEW i \in 1..Len(Libs), NEW j \in 1..Len(Methods), NEW z \in 1..Sizes
  PROVE  Sample(Sampled(r, Libs[a], Methods[b], c), i, j, z) =
           IF <<i, j, z>> = <<a, b, c>> THEN Up(Sample(r, i, j, z)) ELSE Sample(r, i, j, z)
<1> DEFINE s   == Sampled(r, Libs[a], Methods[b], c)
           old == r[Libs[a]].samples
           new == [old EXCEPT ![Methods[b]][c] = IF @ < MaxSamples THEN @ + 1 ELSE @]
<1>1. Libs[a] \in ToSet(Libs) /\ Libs[i] \in ToSet(Libs) /\ (Libs[i] = Libs[a] => i = a)
  BY LibNames
<1>2. /\ Methods[b] \in ToSet(Methods) /\ Methods[j] \in ToSet(Methods)
      /\ Methods[j] = Methods[b] => j = b
  BY DriverAssumption DEF ToSet, IsInjective
<1>3. r[Libs[a]] \in Entries /\ old \in [ToSet(Methods) -> [1..Sizes -> Nat]]
  BY <1>1 DEF Some, Entries, Tables
<1>4. s[Libs[i]].samples = IF i = a THEN new ELSE r[Libs[i]].samples
  BY <1>1, <1>3 DEF Sampled, Some, Entries
<1>5. new[Methods[j]][z] = IF j = b /\ z = c THEN Up(old[Methods[j]][z]) ELSE old[Methods[j]][z]
  BY <1>2, <1>3 DEF Up
<1> HIDE DEF s, new
<1>6. CASE i = a
  BY <1>4, <1>5, <1>6 DEF Sample, s
<1>7. CASE i # a
  BY <1>4, <1>7 DEF Sample, s
<1> QED
  BY <1>6, <1>7

LEMMA EvenEntered ==
  ASSUME NEW r \in Some, NEW lib, NEW m, NEW done, NEW bad, Even(r, done, bad)
  PROVE  Even(Entered(r, lib, m), done, bad)
  BY EnteredSample DEF Even

LEMMA EvenSampled ==
  ASSUME NEW r \in Some, NEW bad, at \in Position, at.size \in 1..Sizes, at.lib \in 1..Len(Libs),
         Even(r, DoneBefore(at), bad)
  PROVE  Even(Sampled(r, Lib, Method, at.size), DoneWith(at), bad)
<1> DEFINE s == Sampled(r, Lib, Method, at.size)
           a == at.lib
           b == at.method
           c == at.size
<1>0. b \in 1..Len(Methods) /\ Len(Libs) \in Nat /\ Len(Methods) \in Nat /\ Sizes \in Nat
  BY LibNames, MethodNames, DriverAssumption DEF Position
<1>1. \A i \in 1..Len(Libs) : \A j \in 1..Len(Methods) : \A z \in 1..Sizes :
        Sample(s, i, j, z) =
          IF <<i, j, z>> = <<a, b, c>> THEN Up(Sample(r, i, j, z)) ELSE Sample(r, i, j, z)
  <2>1. a \in 1..Len(Libs) /\ c \in 1..Sizes /\ s = Sampled(r, Libs[a], Methods[b], c)
    BY DEF Lib, Method
  <2> HIDE DEF s, a, b, c
  <2> QED
    BY <1>0, <2>1, SampledSample
<1>2. <<a, b, c>> \notin DoneBefore(at)
  BY <1>0 DEF DoneBefore, Earlier
<1>3. DoneWith(at) = DoneBefore(at) \cup {<<a, b, c>>}
  BY DEF DoneWith
<1> HIDE DEF s, a, b, c
<1> QED
  BY <1>1, <1>2, <1>3 DEF Even, s

\* Between the runs nobody is ahead, and during a run who has been measured is.
Turns ==
  /\ main \in {"priority", "validate", "validated", "run"} => Even(current, {}, failed)
  /\ main = "again" => (esc \/ Even(current, {}, failed))
  /\ main \in {"bench", "measuring", "post", "publish"} => Even(current, DoneBefore(at), failed)
  /\ main = "check" => Even(current, DoneWith(at), failed)
  /\ main \in {"bench", "measuring"} => Even(results, DoneBefore(at), failed)
  /\ main \in {"post", "publish", "check"} => Even(results, DoneWith(at), failed)
  /\ OneApart(current, failed)

LEMMA TurnsInitially == Init => Turns
<1> SUFFICES ASSUME Init PROVE Turns
  OBVIOUS
<1>1. \A i \in 1..Len(Libs) : \A j \in 1..Len(Methods) : \A z \in 1..Sizes :
        Sample(None, i, j, z) = 0
  <2>1. ASSUME NEW i \in 1..Len(Libs), NEW j \in 1..Len(Methods), NEW z \in 1..Sizes
        PROVE  Sample(None, i, j, z) = 0
    <3>1. Libs[i] \in ToSet(Libs) /\ Methods[j] \in ToSet(Methods)
      BY DriverAssumption DEF ToSet
    <3> QED
      BY <3>1 DEF Sample, None
  <2> QED
    BY <2>1
<1>2. Even(None, {}, failed)
  BY <1>1 DEF Even
<1>3. OneApart(None, failed)
  <2> HIDE DEF None
  <2>1. \A i, k \in 1..Len(Libs) : \A j \in 1..Len(Methods) : \A z \in 1..Sizes :
          Sample(None, i, j, z) <= Sample(None, k, j, z) + 1
    BY <1>1
  <2> QED
    BY <2>1 DEF OneApart
<1> QED
  BY <1>2, <1>3 DEF Init, Turns

LEMMA TurnsInductive == Turns /\ Grown /\ InPlace /\ [Next]_vars => Turns'
<1> SUFFICES ASSUME Turns, Grown, InPlace, [Next]_vars PROVE Turns'
  OBVIOUS
<1>0. /\ results \in Some /\ current \in Some /\ at \in Position
      /\ main \in Running => at.size \in 1..Sizes /\ at.lib \in 1..Len(Libs)
  BY DEF Grown, InPlace, Position
<1>1. ASSUME Priority \/ Validate \/ ValidationThrows \/ Launch \/ Join \/ Open
             \/ Abort \/ Table \/ Metrics \/ Plot \/ Exit
      PROVE  Turns'
  <2>1. current' = current /\ failed' = failed
    BY <1>1
    DEF Priority, Validate, ValidationThrows, Abort, Launch, Join, Open, Table, Metrics, Plot,
        Exit, shared
  <2>2. \/ main' \notin Running \cup {"priority", "validate", "validated", "run", "again"}
        \/ /\ main \in {"priority", "validate", "validated"}
           /\ main' \in {"validate", "validated", "again"}
    BY <1>1
    DEF Priority, Validate, ValidationThrows, Abort, Launch, Join, Open, Table, Metrics, Plot,
        Exit, Running
  <2> QED
    BY <2>1, <2>2 DEF Turns, Running
<1>2. ASSUME Again PROVE Turns'
  BY <1>2 DEF Again, shared, Turns
<1>3. ASSUME RunAll PROVE Turns'
  <2>1. /\ main = "run" /\ main' = "bench" /\ results' = current /\ current' = current
        /\ at' = Start /\ failed' = failed
    BY <1>3 DEF RunAll, shared
  <2>2. Even(current, DoneBefore(Start), failed)
    BY <2>1, DoneNothing DEF Turns
  <2> QED
    BY <2>1, <2>2 DEF Turns
<1>4. ASSUME BeginMethod PROVE Turns'
  <2>1. /\ main = "bench" /\ main' = "measuring" /\ results' = Entered(results, Lib, Method)
        /\ current' = current /\ at' = at /\ failed' = failed
    BY <1>4 DEF BeginMethod, shared
  <2>2. Even(results', DoneBefore(at), failed)
    BY <1>0, <2>1, EvenEntered DEF Turns
  <2> QED
    BY <2>1, <2>2 DEF Turns
<1>5. ASSUME EndMethod PROVE Turns'
  <2>1. /\ main = "measuring" /\ main' = "post" /\ current' = current /\ at' = at
        /\ results' = Sampled(results, Lib, Method, at.size) /\ failed' = failed
    BY <1>5 DEF EndMethod, shared
  <2>2. Even(results', DoneWith(at), failed)
    BY <1>0, <2>1, EvenSampled DEF Turns, Running
  <2> QED
    BY <2>1, <2>2 DEF Turns
<1>6. ASSUME Throw PROVE Turns'
  <2>1. /\ main = "measuring" /\ Proceed(NextLib) /\ results' = results /\ current' = current
        /\ failed' = failed \cup {Lib} /\ NextLib \in Position
    BY <1>0, <1>6, Positions DEF Throw, shared
  <2>2. ASSUME NEW r, Even(r, DoneBefore(at), failed) PROVE Even(r, DoneBefore(NextLib), failed')
    <3>1. ASSUME NEW i \in 1..Len(Libs), NEW j \in 1..Len(Methods), NEW z \in 1..Sizes,
                 Libs[i] \notin failed'
          PROVE  <<i, j, z>> \in DoneBefore(at) <=> <<i, j, z>> \in DoneBefore(NextLib)
      <4>1. i # at.lib
        BY <2>1, <3>1 DEF Lib
      <4> QED
        BY <1>0, <2>1, <4>1, DoneNextLib DEF Running
    <3> QED
      BY <2>1, <2>2, <3>1, EvenOthers
  <2>3. Even(current, DoneBefore(NextLib), failed') /\ Even(results, DoneBefore(NextLib), failed')
    BY <2>1, <2>2 DEF Turns
  <2>4. OneApart(current, failed')
    BY <1>0, <2>3, EvenApart
  <2>5. NextLib.size > Sizes => Even(current, {}, failed')
    BY <2>1, <2>3, DoneAll, EvenAll
  <2> QED
    BY <2>1, <2>3, <2>4, <2>5 DEF Turns, Proceed
<1>7. ASSUME PostLock PROVE Turns'
  BY <1>7 DEF PostLock, Turns
<1>8. ASSUME PostAssign PROVE Turns'
  <2>1. /\ main = "publish" /\ main' = "check" /\ results' = results /\ current' = results
        /\ at' = at /\ failed' = failed
    BY <1>8 DEF PostAssign
  <2>2. Even(results, DoneWith(at), failed)
    BY <2>1 DEF Turns
  <2>3. OneApart(results, failed)
    BY <1>0, <2>2, EvenApart
  <2> QED
    BY <2>1, <2>2, <2>3 DEF Turns
<1>9. ASSUME Check PROVE Turns'
  <2>1. /\ main = "check" /\ results' = results /\ current' = current /\ failed' = failed
        /\ esc' = esc /\ NextMethod \in Position
    BY <1>0, <1>9, Positions DEF Check, shared
  <2>2. CASE esc
    BY <1>9, <2>1, <2>2 DEF Check, Turns
  <2>3. CASE ~esc
    <3>1. Proceed(NextMethod)
      BY <1>9, <2>3 DEF Check
    <3>2. /\ Even(current, DoneBefore(NextMethod), failed)
          /\ Even(results, DoneBefore(NextMethod), failed)
      BY <1>0, <2>1, DoneNextMethod DEF Turns, Running
    <3>3. NextMethod.size > Sizes => Even(current, {}, failed)
      BY <2>1, <3>2, DoneAll, EvenAll
    <3> QED
      BY <2>1, <3>1, <3>2, <3>3 DEF Turns, Proceed
  <2> QED
    BY <2>2, <2>3
<1>10. ASSUME KeyPressed \/ Redraw \/ Copy \/ Type \/ Close PROVE Turns'
  BY <1>10 DEF KeyPressed, Redraw, Copy, Type, Close, shared, Turns
<1>11. ASSUME Stop PROVE Turns'
  BY <1>11 DEF Stop, Turns
<1>12. CASE UNCHANGED vars
  BY <1>12 DEF vars, shared, Turns
<1> QED
  BY <1>1, <1>2, <1>3, <1>4, <1>5, <1>6, <1>7, <1>8, <1>9, <1>10, <1>11, <1>12
  DEF Next, Main, IO, Rest

-------------------------------------------------------------------------------
(* The methods a library has entries for are the first ones *)

FirstOnes(r) ==
  \A lib \in ToSet(Libs) : \E n \in 0..Len(Methods) : r[lib].entered = FirstMethods(n)

\* Where the main thread is in a library, the methods before have been entered.
InTurn ==
  /\ FirstOnes(current)
  /\ FirstOnes(results)
  /\ main = "bench" => FirstMethods(at.method - 1) \subseteq results[Lib].entered
  /\ main \in {"measuring", "post", "publish", "check"} =>
       FirstMethods(at.method) \subseteq results[Lib].entered

\* More of the first methods are more methods.
LEMMA FirstMethodsOrder ==
  ASSUME NEW p \in 0..Len(Methods), NEW n \in 0..Len(Methods)
  PROVE  /\ p <= n => FirstMethods(p) \subseteq FirstMethods(n)
         /\ FirstMethods(p) \subseteq FirstMethods(n) => p <= n
<1>0. Len(Methods) \in Nat /\ DOMAIN Methods = 1..Len(Methods)
  BY DriverAssumption
<1>1. ASSUME p <= n PROVE FirstMethods(p) \subseteq FirstMethods(n)
  BY <1>0, <1>1 DEF FirstMethods
<1>2. ASSUME FirstMethods(p) \subseteq FirstMethods(n), n < p PROVE FALSE
  <2>1. Methods[n + 1] \in FirstMethods(p)
    BY <1>0, <1>2 DEF FirstMethods
  <2>2. Methods[n + 1] \notin FirstMethods(n)
    BY <1>0, <1>2, FirstMethodsStep
  <2> QED
    BY <1>2, <2>1, <2>2
<1> QED
  BY <1>0, <1>1, <1>2

\* The next method is entered.
LEMMA EnteredNext ==
  ASSUME NEW r \in Some, FirstOnes(r), NEW lib \in ToSet(Libs), NEW b \in 1..Len(Methods),
         FirstMethods(b - 1) \subseteq r[lib].entered
  PROVE  /\ FirstOnes(Entered(r, lib, Methods[b]))
         /\ FirstMethods(b) \subseteq Entered(r, lib, Methods[b])[lib].entered
<1> DEFINE e == Entered(r, lib, Methods[b])
<1>0. Len(Methods) \in Nat /\ b - 1 \in 0..Len(Methods) /\ b \in 0..Len(Methods)
  BY MethodNames
<1>1. \A l \in ToSet(Libs) :
        e[l].entered = IF l = lib THEN r[l].entered \cup {Methods[b]} ELSE r[l].entered
  BY DEF Entered, Some, Entries
<1>2. PICK n \in 0..Len(Methods) : r[lib].entered = FirstMethods(n)
  BY DEF FirstOnes
<1>3. b - 1 <= n
  BY <1>0, <1>2, FirstMethodsOrder
<1>4. FirstMethods(b) = FirstMethods(b - 1) \cup {Methods[b]}
  BY <1>0, FirstMethodsStep
<1>5. \E p \in 0..Len(Methods) : e[lib].entered = FirstMethods(p)
  <2>1. CASE n = b - 1
    BY <1>0, <1>1, <1>2, <1>4, <2>1
  <2>2. CASE n # b - 1
    <3>1. b <= n
      BY <1>0, <1>3, <2>2
    <3>2. FirstMethods(b) \subseteq FirstMethods(n)
      BY <1>0, <3>1, FirstMethodsOrder
    <3> QED
      BY <1>1, <1>2, <1>4, <3>2
  <2> QED
    BY <2>1, <2>2
<1> HIDE DEF e
<1>6. FirstOnes(e)
  BY <1>1, <1>5 DEF FirstOnes
<1>7. FirstMethods(b) \subseteq e[lib].entered
  BY <1>1, <1>4
<1> QED
  BY <1>6, <1>7 DEF e

\* A sample is no entry.
LEMMA SampledEntered ==
  ASSUME NEW r \in Some, NEW lib, NEW m, NEW z
  PROVE  \A l \in ToSet(Libs) :
           /\ Sampled(r, lib, m, z)[l].entered = r[l].entered
           /\ Sampled(r, lib, m, z)[l].listed = r[l].listed
  BY DEF Sampled, Some, Entries

LEMMA LibIsLib == at.lib \in 1..Len(Libs) => Lib \in ToSet(Libs)
  BY LibNames DEF Lib

LEMMA InTurnInitially == Init => InTurn
<1>1. FirstMethods(0) = {}
  BY DEF FirstMethods
<1>2. 0 \in 0..Len(Methods)
  BY MethodNames
<1>3. FirstOnes(None)
  BY <1>1, <1>2 DEF FirstOnes, None
<1> QED
  BY <1>3 DEF Init, InTurn

LEMMA InTurnInductive == InTurn /\ Grown /\ InPlace /\ [Next]_vars => InTurn'
<1> SUFFICES ASSUME InTurn, Grown, InPlace, [Next]_vars PROVE InTurn'
  OBVIOUS
<1>0. /\ results \in Some /\ current \in Some /\ at \in Position
      /\ main \in Running => at.size \in 1..Sizes /\ at.lib \in 1..Len(Libs)
      /\ FirstMethods(0) = {} /\ 1 - 1 = 0
  BY DEF Grown, InPlace, Position, FirstMethods
<1>1. ASSUME Priority \/ Validate \/ ValidationThrows \/ Launch \/ Again \/ Join \/ Open
             \/ Abort \/ Table \/ Metrics \/ Plot \/ Exit
      PROVE  InTurn'
  <2>1. results' = results /\ current' = current /\ main' \notin Running
    BY <1>1
    DEF Priority, Validate, ValidationThrows, Abort, Launch, Again, Join, Open, Table, Metrics,
        Plot, Exit, shared, Running
  <2> QED
    BY <2>1 DEF InTurn, FirstOnes, Running
<1>2. ASSUME RunAll PROVE InTurn'
  <2>1. results' = current /\ current' = current /\ main' = "bench" /\ at'.method = 1
    BY <1>2 DEF RunAll, shared, Start
  <2> QED
    BY <1>0, <2>1 DEF InTurn, FirstOnes
<1>3. ASSUME BeginMethod PROVE InTurn'
  <2>1. /\ main = "bench" /\ main' = "measuring" /\ results' = Entered(results, Lib, Method)
        /\ current' = current /\ at' = at
    BY <1>3 DEF BeginMethod, shared
  <2>2. Lib \in ToSet(Libs) /\ at.method \in 1..Len(Methods) /\ Method = Methods[at.method]
    BY <1>0, <2>1, LibIsLib DEF Running, Position, Method
  <2>3. FirstMethods(at.method - 1) \subseteq results[Lib].entered /\ FirstOnes(results)
    BY <2>1 DEF InTurn
  <2>4. FirstOnes(results') /\ FirstMethods(at.method) \subseteq results'[Lib].entered
    BY <1>0, <2>1, <2>2, <2>3, EnteredNext
  <2>5. Lib' = Lib
    BY <2>1 DEF Lib
  <2> QED
    BY <2>1, <2>4, <2>5 DEF InTurn, FirstOnes
<1>4. ASSUME EndMethod PROVE InTurn'
  <2>1. /\ main = "measuring" /\ main' = "post" /\ current' = current /\ at' = at
        /\ results' = Sampled(results, Lib, Method, at.size)
    BY <1>4 DEF EndMethod, shared
  <2>2. \A l \in ToSet(Libs) : results'[l].entered = results[l].entered
    BY <1>0, <2>1, SampledEntered
  <2>3. Lib' = Lib /\ Lib \in ToSet(Libs)
    BY <1>0, <2>1, LibIsLib DEF Lib, Running
  <2> QED
    BY <2>1, <2>2, <2>3 DEF InTurn, FirstOnes
<1>5. ASSUME Throw PROVE InTurn'
  <2>1. /\ results' = results /\ current' = current /\ at'.method = 1
        /\ main' \in {"again", "bench"}
    BY <1>5 DEF Throw, Proceed, shared, NextLib
  <2> QED
    BY <1>0, <2>1 DEF InTurn, FirstOnes
<1>6. ASSUME PostLock PROVE InTurn'
  BY <1>6 DEF PostLock, InTurn, FirstOnes, Lib
<1>7. ASSUME PostAssign PROVE InTurn'
  BY <1>7 DEF PostAssign, InTurn, FirstOnes, Lib
<1>8. ASSUME Check PROVE InTurn'
  <2>1. main = "check" /\ results' = results /\ current' = current /\ main' \in {"again", "bench"}
    BY <1>8 DEF Check, Proceed, shared
  <2>2. FirstOnes(current') /\ FirstOnes(results')
    BY <2>1 DEF InTurn, FirstOnes
  <2>3. ASSUME main' = "bench" PROVE FirstMethods(at'.method - 1) \subseteq results'[Lib'].entered
    <3>1. at' = NextMethod
      BY <1>8, <2>3 DEF Check, Proceed
    <3>2. CASE at.method = Len(Methods)
      <4>1. at'.method = 1
        BY <3>1, <3>2 DEF NextMethod, NextLib
      <4> QED
        BY <1>0, <4>1
    <3>3. CASE at.method # Len(Methods)
      <4>1. at'.method = at.method + 1 /\ at'.lib = at.lib /\ at.method \in Nat
        BY <1>0, <3>1, <3>3 DEF NextMethod, Position
      <4>2. Lib' = Lib /\ at'.method - 1 = at.method
        BY <4>1 DEF Lib
      <4> QED
        BY <2>1, <4>2 DEF InTurn
    <3> QED
      BY <3>2, <3>3
  <2> QED
    BY <2>1, <2>2, <2>3 DEF InTurn
<1>9. ASSUME KeyPressed \/ Redraw \/ Copy \/ Stop \/ Type \/ Close PROVE InTurn'
  BY <1>9 DEF KeyPressed, Redraw, Copy, Stop, Type, Close, shared, InTurn, FirstOnes, Lib
<1>10. CASE UNCHANGED vars
  BY <1>10 DEF vars, shared, InTurn, FirstOnes, Lib
<1> QED
  BY <1>1, <1>2, <1>3, <1>4, <1>5, <1>6, <1>7, <1>8, <1>9, <1>10 DEF Next, Main, IO, Rest

\* Of two libraries one has all the methods of the other, so with as many
\* methods they have the same.
LEMMA SameCounted ==
  ASSUME NEW r, FirstOnes(r), NEW a \in ToSet(Libs), NEW b \in ToSet(Libs),
         Cardinality(Counted(r, a)) = Cardinality(Counted(r, b))
  PROVE  Counted(r, a) = Counted(r, b)
<1>0. Len(Methods) \in Nat
  BY MethodNames
<1>1. PICK n \in 0..Len(Methods) : r[a].entered = FirstMethods(n)
  BY DEF FirstOnes
<1>2. PICK p \in 0..Len(Methods) : r[b].entered = FirstMethods(p)
  BY DEF FirstOnes
<1>3. IsFiniteSet(Counted(r, a)) /\ IsFiniteSet(Counted(r, b))
  <2>1. \A q \in 0..Len(Methods) : IsFiniteSet(FirstMethods(q) \cap FirstMethods(q))
    BY MethodsCount
  <2>2. IsFiniteSet(FirstMethods(n)) /\ IsFiniteSet(FirstMethods(p))
    BY <2>1
  <2> QED
    BY <1>1, <1>2, <2>2, FS_Difference DEF Counted
<1>4. CASE n <= p
  <2>1. Counted(r, a) \subseteq Counted(r, b)
    BY <1>1, <1>2, <1>4, FirstMethodsOrder DEF Counted
  <2> QED
    BY <1>3, <2>1, FS_Subset
<1>5. CASE p <= n
  <2>1. Counted(r, b) \subseteq Counted(r, a)
    BY <1>1, <1>2, <1>5, FirstMethodsOrder DEF Counted
  <2> QED
    BY <1>3, <2>1, FS_Subset
<1> QED
  BY <1>0, <1>4, <1>5

LEMMA FairlyDrawn == Turns /\ InTurn /\ Grown => PlotlyFair
<1> SUFFICES ASSUME Turns, InTurn, Grown, NEW size \in 1..Sizes,
                    NEW a \in DOMAIN Plotly(current, size) \ failed,
                    NEW b \in DOMAIN Plotly(current, size) \ failed,
                    Plotly(current, size)[a].ops = Plotly(current, size)[b].ops
             PROVE  Plotly(current, size)[a].terms - Plotly(current, size)[b].terms
                      <= Plotly(current, size)[a].ops
  BY DEF PlotlyFair
<1>1. a \in ToSet(Libs) /\ b \in ToSet(Libs) /\ a \notin failed /\ b \notin failed
  BY DEF Plotly
<1>2. \A l \in {a, b} :
        /\ Plotly(current, size)[l].terms = Sums(current, size, l)[Len(Methods)]
        /\ Plotly(current, size)[l].ops = Cardinality(Counted(current, l))
  BY DEF Plotly
<1>3. FirstOnes(current) /\ OneApart(current, failed) /\ current \in Some
  BY DEF InTurn, Turns, Grown
<1>4. Counted(current, a) = Counted(current, b)
  BY <1>1, <1>2, <1>3, SameCounted
<1>5. Counted(current, a) \subseteq ToSet(Methods)
  <2>1. \A n \in 0..Len(Methods) : FirstMethods(n) \subseteq ToSet(Methods)
    BY DriverAssumption DEF FirstMethods, ToSet
  <2> QED
    BY <1>1, <1>3, <2>1 DEF FirstOnes, Counted
<1>6. ASSUME NEW m \in ToSet(Methods)
      PROVE  current[a].samples[m][size] <= current[b].samples[m][size] + 1
  <2>1. PICK i \in 1..Len(Libs), k \in 1..Len(Libs) : a = Libs[i] /\ b = Libs[k]
    BY <1>1, LibNames
  <2>2. PICK j \in 1..Len(Methods) : m = Methods[j]
    BY DriverAssumption DEF ToSet
  <2> QED
    BY <1>1, <1>3, <2>1, <2>2 DEF OneApart, Sample
<1> QED
  BY <1>1, <1>2, <1>3, <1>4, <1>5, <1>6, SumsApart

\* The plot is fair (benchmark.cpp:345): whatever throws and whenever the key
\* comes, two libraries that have not thrown and have as many methods are drawn
\* from sums that are no more than one sample a method apart.
THEOREM DrawnFairly == Spec => []PlotlyFair
<1>1. Grown /\ [Next]_vars => Grown'
  BY GrownInductive
<1> QED
  BY <1>1, GrownInitially, InPlaceInitially, InPlaceInductive, TurnsInitially, TurnsInductive,
     InTurnInitially, InTurnInductive, FairlyDrawn, PTL DEF Spec

-------------------------------------------------------------------------------
(* The rows of the table *)

\* The rows.
RowSet == [key : STRING, name : STRING]

LEMMA OrderNames ==
  /\ Len(Order) \in Nat
  /\ DOMAIN Order = 1..Len(Order)
  /\ ToSet(Order) = {Order[i] : i \in 1..Len(Order)}
  /\ ToSet(Order) = ToSet(Libs)
  /\ \A i \in 1..Len(Order) : Order[i] \in STRING
  /\ \A i, j \in 1..Len(Order) : Order[i] = Order[j] => i = j
<1>1. Order \in Seq(STRING) /\ IsInjective(Order) /\ ToSet(Order) = ToSet(Libs)
  BY DriverAssumption
<1>2. /\ Len(Order) \in Nat /\ DOMAIN Order = 1..Len(Order)
      /\ \A i \in 1..Len(Order) : Order[i] \in STRING
  BY <1>1
<1> QED
  BY <1>1, <1>2 DEF ToSet, IsInjective

\* One more library makes a list of rows from a list of rows.
LEMMA WithRowType ==
  ASSUME NEW r, NEW rows \in Seq(RowSet), NEW lib \in STRING
  PROVE  WithRow(r, rows, lib) \in Seq(RowSet)
<1> DEFINE same == {i \in DOMAIN rows : SameKey(r, rows[i].key, lib)}
<1>1. CASE ~r[lib].listed
  BY <1>1 DEF WithRow
<1>2. CASE r[lib].listed /\ same = {}
  <2>1. WithRow(r, rows, lib) = Append(rows, [key |-> lib, name |-> lib])
    BY <1>2 DEF WithRow
  <2>2. [key |-> lib, name |-> lib] \in RowSet
    BY DEF RowSet
  <2> QED
    BY <2>1, <2>2
<1>3. CASE r[lib].listed /\ same # {}
  <2> DEFINE c == CHOOSE i \in same : TRUE
  <2>1. c \in DOMAIN rows
    BY <1>3
  <2>2. WithRow(r, rows, lib) = [rows EXCEPT ![c].name = lib]
    BY <1>3 DEF WithRow
  <2> HIDE DEF c
  <2>3. [rows[c] EXCEPT !.name = lib] \in RowSet
    <3>1. rows[c] \in RowSet
      BY <2>1
    <3> QED
      BY <3>1 DEF RowSet
  <2>4. [rows EXCEPT ![c].name = lib] \in Seq(RowSet)
    BY <2>1, <2>3
  <2> QED
    BY <2>2, <2>4
<1> QED
  BY <1>1, <1>2, <1>3

\* The rows after each of the first n libraries of the map.
PartialRows(r, n) ==
  {rows \in [0..n -> Seq(RowSet)] :
     rows = [m \in 0..n |-> IF m = 0 THEN <<>> ELSE WithRow(r, rows[m - 1], Order[m])]}

\* The rows after n libraries exist.
LEMMA RowsExist ==
  ASSUME NEW r
  PROVE  PartialRows(r, Len(Order)) # {}
<1> DEFINE L == Len(Order)
           S == {k \in Nat : k <= L => PartialRows(r, k) # {}}
<1>0. L \in Nat /\ \A i \in 1..L : Order[i] \in STRING
  BY OrderNames
<1>1. PartialRows(r, 0) # {}
  <2> DEFINE s == [m \in 0..0 |-> <<>>]
  <2>1. s \in [0..0 -> Seq(RowSet)]
    OBVIOUS
  <2>2. s = [m \in 0..0 |-> IF m = 0 THEN <<>> ELSE WithRow(r, s[m - 1], Order[m])]
    OBVIOUS
  <2> HIDE DEF s
  <2> QED
    BY <2>1, <2>2 DEF PartialRows
<1>2. ASSUME NEW k \in Nat, k + 1 <= L, PartialRows(r, k) # {} PROVE PartialRows(r, k + 1) # {}
  <2>1. PICK s \in [0..k -> Seq(RowSet)] :
          s = [m \in 0..k |-> IF m = 0 THEN <<>> ELSE WithRow(r, s[m - 1], Order[m])]
    BY <1>2 DEF PartialRows
  <2> DEFINE last == WithRow(r, s[k], Order[k + 1])
             t == [m \in 0..(k + 1) |-> IF m <= k THEN s[m] ELSE last]
  <2>2. t \in [0..(k + 1) -> Seq(RowSet)]
    <3>1. s[k] \in Seq(RowSet) /\ Order[k + 1] \in STRING
      BY <1>0, <1>2
    <3>2. last \in Seq(RowSet)
      BY <3>1, WithRowType
    <3>3. \A m \in 0..(k + 1) : m <= k => s[m] \in Seq(RowSet)
      OBVIOUS
    <3> HIDE DEF last
    <3> QED
      BY <3>2, <3>3
  <2>3. ASSUME NEW m \in 0..(k + 1)
        PROVE  t[m] = IF m = 0 THEN <<>> ELSE WithRow(r, t[m - 1], Order[m])
    <3>1. \A i \in 0..k : s[i] = IF i = 0 THEN <<>> ELSE WithRow(r, s[i - 1], Order[i])
      BY <2>1
    <3>2. CASE m = k + 1
      <4>1. t[m] = last /\ t[k] = s[k]
        BY <3>2
      <4> QED
        BY <4>1, <3>2
    <3>3. CASE m # k + 1
      <4>1. m \in 0..k /\ t[m] = s[m] /\ (m # 0 => t[m - 1] = s[m - 1])
        BY <3>3
      <4> QED
        BY <4>1, <3>1
    <3> QED
      BY <3>2, <3>3
  <2> HIDE DEF last, t
  <2>4. t = [m \in 0..(k + 1) |-> IF m = 0 THEN <<>> ELSE WithRow(r, t[m - 1], Order[m])]
    BY <2>2, <2>3
  <2> QED
    BY <2>2, <2>4 DEF PartialRows
<1>3. S = Nat
  <2>1. S \in SUBSET Nat /\ 0 \in S
    BY <1>1
  <2>2. ASSUME NEW k \in S PROVE k + 1 \in S
    <3>1. k \in Nat /\ (k <= L => PartialRows(r, k) # {})
      OBVIOUS
    <3>2. k + 1 <= L => PartialRows(r, k + 1) # {}
      BY <1>0, <1>2, <3>1
    <3> QED
      BY <3>1, <3>2
  <2> HIDE DEF S
  <2> QED
    BY <2>1, <2>2, SetInduction
<1>4. L \in S
  <2> HIDE DEF S
  <2> QED
    BY <1>0, <1>3
<1> QED
  BY <1>0, <1>4

\* The rows after each library are those before it with its own.
LEMMA RowsStep ==
  ASSUME NEW r
  PROVE  /\ Rows(r)[0] = <<>>
         /\ \A n \in 1..Len(Order) : Rows(r)[n] = WithRow(r, Rows(r)[n - 1], Order[n])
<1>0. Len(Order) \in Nat
  BY OrderNames
<1>1. \E s : s = [m \in 0..Len(Order) |-> IF m = 0 THEN <<>> ELSE WithRow(r, s[m - 1], Order[m])]
  <2>1. PICK s \in PartialRows(r, Len(Order)) : TRUE
    BY RowsExist
  <2> QED
    BY <2>1 DEF PartialRows
<1>2. Rows(r) =
        [m \in 0..Len(Order) |-> IF m = 0 THEN <<>> ELSE WithRow(r, Rows(r)[m - 1], Order[m])]
  BY <1>1 DEF Rows
<1> DEFINE s == Rows(r)
<1>3. \A m \in 0..Len(Order) : s[m] = IF m = 0 THEN <<>> ELSE WithRow(r, s[m - 1], Order[m])
  BY <1>2
<1>4. \A n \in 1..Len(Order) : n \in 0..Len(Order) /\ n # 0
  BY <1>0
<1>5. 0 \in 0..Len(Order)
  BY <1>0
<1> HIDE DEF s
<1>6. s[0] = <<>> /\ \A n \in 1..Len(Order) : s[n] = WithRow(r, s[n - 1], Order[n])
  BY <1>3, <1>4, <1>5
<1> QED
  BY <1>6 DEF s

LEMMA ReportIsList == ASSUME NEW r PROVE Report(r) \in Seq(RowSet)
<1> DEFINE L == Len(Order)
           S == {k \in Nat : k <= L => Rows(r)[k] \in Seq(RowSet)}
<1>0. L \in Nat /\ \A i \in 1..L : Order[i] \in STRING
  BY OrderNames
<1>1. ASSUME NEW k \in S PROVE k + 1 \in S
  <2>1. k \in Nat /\ (k <= L => Rows(r)[k] \in Seq(RowSet))
    OBVIOUS
  <2>2. ASSUME k + 1 <= L PROVE Rows(r)[k + 1] \in Seq(RowSet)
    <3>1. k + 1 \in 1..L /\ k <= L /\ (k + 1) - 1 = k
      BY <1>0, <2>1, <2>2
    <3>2. Rows(r)[k + 1] = WithRow(r, Rows(r)[k], Order[k + 1])
      BY <3>1, RowsStep
    <3>3. Rows(r)[k] \in Seq(RowSet) /\ Order[k + 1] \in STRING
      BY <1>0, <2>1, <3>1
    <3> QED
      BY <3>2, <3>3, WithRowType
  <2> QED
    BY <2>1, <2>2
<1>2. S = Nat
  <2>1. S \in SUBSET Nat /\ 0 \in S
    <3>1. Rows(r)[0] = <<>> /\ <<>> \in Seq(RowSet)
      BY RowsStep
    <3> QED
      BY <3>1
  <2> HIDE DEF S
  <2> QED
    BY <1>1, <2>1, SetInduction
<1>3. L \in S
  <2> HIDE DEF S
  <2> QED
    BY <1>0, <1>2
<1> QED
  BY <1>0, <1>3 DEF Report

-------------------------------------------------------------------------------
(* How many rows there are *)

\* Those of the first n libraries of the map that have entries, and of these
\* the ones with some total.
Seen(r, n) == {lib \in {Order[j] : j \in 1..n} : r[lib].listed}

SeenWith(r, n, score) == {lib \in Seen(r, n) : Score(r, lib) = score}

\* The first of them has a total that is not a number.
NanLeads(r, n) ==
  \E k \in 1..n : /\ r[Order[k]].listed /\ Score(r, Order[k]) = "nan"
                  /\ \A j \in 1..(k - 1) : ~r[Order[j]].listed

\* The rows have as many keys as the numbers among the totals, and one for zero.
RowsFit(r, n, rows) ==
  /\ rows \in Seq(RowSet)
  /\ NanLeads(r, n) => Len(rows) = 1 /\ Score(r, rows[1].key) = "nan"
  /\ ~NanLeads(r, n) =>
       /\ Len(rows) = Cardinality(SeenWith(r, n, "number"))
                        + (IF SeenWith(r, n, "zero") = {} THEN 0 ELSE 1)
       /\ \A i \in 1..Len(rows) : Score(r, rows[i].key) # "nan"
       /\ SeenWith(r, n, "zero") # {} <=> \E i \in 1..Len(rows) : Score(r, rows[i].key) = "zero"
       /\ Seen(r, n) # {} => Len(rows) > 0

\* One more library that has entries adds a row with its key, or keeps the keys.
LEMMA WithRowKeys ==
  ASSUME NEW r, NEW rows \in Seq(RowSet), NEW lib \in STRING, r[lib].listed
  PROVE  LET new == WithRow(r, rows, lib) IN
         /\ (\A i \in 1..Len(rows) : ~SameKey(r, rows[i].key, lib)) =>
              /\ Len(new) = Len(rows) + 1 /\ new[Len(rows) + 1].key = lib
              /\ \A i \in 1..Len(rows) : new[i].key = rows[i].key
         /\ (\E i \in 1..Len(rows) : SameKey(r, rows[i].key, lib)) =>
              /\ Len(new) = Len(rows)
              /\ \A i \in 1..Len(rows) : new[i].key = rows[i].key
<1> DEFINE same == {i \in DOMAIN rows : SameKey(r, rows[i].key, lib)}
           new == WithRow(r, rows, lib)
<1>0. /\ DOMAIN rows = 1..Len(rows) /\ Len(rows) \in Nat
      /\ \A i \in 1..Len(rows) : rows[i] \in RowSet
  OBVIOUS
<1>1. ASSUME \A i \in 1..Len(rows) : ~SameKey(r, rows[i].key, lib)
      PROVE  /\ Len(new) = Len(rows) + 1 /\ new[Len(rows) + 1].key = lib
             /\ \A i \in 1..Len(rows) : new[i].key = rows[i].key
  <2> DEFINE row == [key |-> lib, name |-> lib]
  <2>1. same = {}
    BY <1>0, <1>1
  <2>2. new = Append(rows, row)
    BY <2>1 DEF WithRow
  <2>3. row \in RowSet /\ row.key = lib
    BY DEF RowSet
  <2> HIDE DEF new, row
  <2> QED
    BY <1>0, <2>2, <2>3
<1>2. ASSUME \E i \in 1..Len(rows) : SameKey(r, rows[i].key, lib)
      PROVE  Len(new) = Len(rows) /\ \A i \in 1..Len(rows) : new[i].key = rows[i].key
  <2> DEFINE c == CHOOSE i \in same : TRUE
  <2>1. same # {}
    BY <1>0, <1>2
  <2>2. c \in 1..Len(rows)
    BY <1>0, <2>1
  <2>3. new = [rows EXCEPT ![c].name = lib]
    BY <2>1 DEF WithRow
  <2> HIDE DEF c, new, same
  <2>4. [rows[c] EXCEPT !.name = lib].key = rows[c].key
    BY <1>0, <2>2 DEF RowSet
  <2>5. /\ DOMAIN new = DOMAIN rows
        /\ \A i \in 1..Len(rows) :
             new[i] = IF i = c THEN [rows[c] EXCEPT !.name = lib] ELSE rows[i]
    BY <1>0, <2>3
  <2>6. new \in Seq(RowSet)
    <3>1. [rows[c] EXCEPT !.name = lib] \in RowSet
      BY <1>0, <2>2 DEF RowSet
    <3> QED
      BY <2>2, <2>3, <3>1
  <2>7. Len(new) = Len(rows)
    BY <1>0, <2>5, <2>6
  <2> QED
    BY <2>4, <2>5, <2>7
<1> QED
  BY <1>1, <1>2

\* What one more library adds to those that have been seen.
LEMMA SeenStep ==
  ASSUME NEW r, NEW k \in Nat, k + 1 <= Len(Order)
  PROVE  LET lib == Order[k + 1] IN
         /\ ~r[lib].listed => /\ Seen(r, k + 1) = Seen(r, k)
                              /\ NanLeads(r, k + 1) <=> NanLeads(r, k)
         /\ r[lib].listed => /\ Seen(r, k + 1) = Seen(r, k) \cup {lib} /\ lib \notin Seen(r, k)
                             /\ NanLeads(r, k + 1) <=>
                                  NanLeads(r, k) \/ (Seen(r, k) = {} /\ Score(r, lib) = "nan")
<1> DEFINE lib == Order[k + 1]
<1>0. /\ Len(Order) \in Nat /\ 1..(k + 1) = 1..k \cup {k + 1} /\ (k + 1) - 1 = k
      /\ \A j \in 1..k : j \in 1..Len(Order) /\ j # k + 1
      /\ k + 1 \in 1..Len(Order)
  BY OrderNames
<1>1. \A j \in 1..k : Order[j] # lib
  BY <1>0, OrderNames
<1>2. (Seen(r, k) = {}) <=> (\A j \in 1..k : ~r[Order[j]].listed)
  BY DEF Seen
<1> HIDE DEF lib
<1>3. ASSUME ~r[lib].listed
      PROVE  Seen(r, k + 1) = Seen(r, k) /\ (NanLeads(r, k + 1) <=> NanLeads(r, k))
  <2>1. Seen(r, k + 1) = Seen(r, k)
    BY <1>0, <1>3 DEF Seen, lib
  <2>2. NanLeads(r, k + 1) <=> NanLeads(r, k)
    BY <1>0, <1>3 DEF NanLeads, lib
  <2> QED
    BY <2>1, <2>2
<1>4. ASSUME r[lib].listed
      PROVE  /\ Seen(r, k + 1) = Seen(r, k) \cup {lib} /\ lib \notin Seen(r, k)
             /\ NanLeads(r, k + 1) <=> NanLeads(r, k) \/ (Seen(r, k) = {} /\ Score(r, lib) = "nan")
  <2>1. Seen(r, k + 1) = Seen(r, k) \cup {lib}
    BY <1>0, <1>4 DEF Seen, lib
  <2>2. lib \notin Seen(r, k)
    BY <1>1 DEF Seen
  <2>3. NanLeads(r, k + 1) <=>
          NanLeads(r, k) \/ (Score(r, lib) = "nan" /\ \A j \in 1..k : ~r[Order[j]].listed)
    BY <1>0, <1>4 DEF NanLeads, lib
  <2> QED
    BY <1>2, <2>1, <2>2, <2>3
<1> QED
  BY <1>3, <1>4 DEF lib

LEMMA SeenFinite ==
  ASSUME NEW r, NEW k \in Nat, NEW score
  PROVE  IsFiniteSet(SeenWith(r, k, score)) /\ Cardinality(SeenWith(r, k, score)) \in Nat
<1>1. IsFiniteSet(1..k)
  BY FS_Interval
<1>2. IsFiniteSet({Order[j] : j \in 1..k})
  <2> DEFINE names == {Order[j] : j \in 1..k}
             f     == [j \in 1..k |-> Order[j]]
  <2>1. f \in Surjection(1..k, names)
    BY DEF Surjection
  <2> HIDE DEF names, f
  <2>2. IsFiniteSet(names)
    BY <1>1, <2>1, FS_Surjection
  <2> QED
    BY <2>2 DEF names
<1>3. SeenWith(r, k, score) \subseteq {Order[j] : j \in 1..k}
  BY DEF SeenWith, Seen
<1>4. IsFiniteSet(SeenWith(r, k, score))
  BY <1>2, <1>3, FS_Subset
<1> QED
  BY <1>4, FS_CardinalityType

\* The rows fit the libraries seen also after one more.
LEMMA RowsFitStep ==
  ASSUME NEW r, NEW k \in Nat, k + 1 <= Len(Order), NEW old, RowsFit(r, k, old)
  PROVE  RowsFit(r, k + 1, WithRow(r, old, Order[k + 1]))
<1> DEFINE lib == Order[k + 1]
           new == WithRow(r, old, lib)
           n   == k + 1
<1>0. /\ lib \in STRING /\ old \in Seq(RowSet) /\ Len(old) \in Nat /\ n \in Nat
      /\ \A i \in 1..(Len(old) + 1) : i \in 1..Len(old) \/ i = Len(old) + 1
  <2>1. k + 1 \in 1..Len(Order)
    BY OrderNames
  <2>2. old \in Seq(RowSet)
    BY DEF RowsFit
  <2> QED
    BY <2>1, <2>2, OrderNames
<1>1. new \in Seq(RowSet)
  BY <1>0, WithRowType
<1>2. Score(r, lib) \in {"nan", "zero", "number"}
  BY DEF Score
<1>3. /\ ~r[lib].listed => /\ Seen(r, n) = Seen(r, k)
                           /\ NanLeads(r, n) <=> NanLeads(r, k)
      /\ r[lib].listed => /\ Seen(r, n) = Seen(r, k) \cup {lib} /\ lib \notin Seen(r, k)
                          /\ NanLeads(r, n) <=>
                               NanLeads(r, k) \/ (Seen(r, k) = {} /\ Score(r, lib) = "nan")
  BY SeenStep
<1>4. ASSUME r[lib].listed
      PROVE  /\ (\A i \in 1..Len(old) : ~SameKey(r, old[i].key, lib)) =>
                  /\ Len(new) = Len(old) + 1 /\ new[Len(old) + 1].key = lib
                  /\ \A i \in 1..Len(old) : new[i].key = old[i].key
             /\ (\E i \in 1..Len(old) : SameKey(r, old[i].key, lib)) =>
                  /\ Len(new) = Len(old)
                  /\ \A i \in 1..Len(old) : new[i].key = old[i].key
  <2>1. lib \in STRING /\ old \in Seq(RowSet) /\ r[lib].listed
    BY <1>0, <1>4
  <2> HIDE DEF lib
  <2> QED
    BY <2>1, WithRowKeys
<1>5. ~r[lib].listed => new = old
  BY DEF WithRow
<1>6. ASSUME r[lib].listed, NEW score
      PROVE  SeenWith(r, n, score) =
               SeenWith(r, k, score) \cup (IF Score(r, lib) = score THEN {lib} ELSE {})
  BY <1>3, <1>6 DEF SeenWith
<1>7. /\ Cardinality(SeenWith(r, k, "number")) \in Nat
      /\ r[lib].listed =>
           Cardinality(SeenWith(r, k, "number") \cup {lib})
             = Cardinality(SeenWith(r, k, "number")) + 1
  <2>1. IsFiniteSet(SeenWith(r, k, "number")) /\ Cardinality(SeenWith(r, k, "number")) \in Nat
    BY SeenFinite
  <2>2. r[lib].listed => lib \notin SeenWith(r, k, "number")
    BY <1>3 DEF SeenWith
  <2> QED
    BY <2>1, <2>2, FS_AddElement
<1> DEFINE numbers == Cardinality(SeenWith(r, k, "number"))
           zeros   == SeenWith(r, k, "zero")
<1>8. /\ NanLeads(r, k) => Len(old) = 1 /\ Score(r, old[1].key) = "nan"
      /\ ~NanLeads(r, k) =>
           /\ Len(old) = numbers + (IF zeros = {} THEN 0 ELSE 1)
           /\ \A i \in 1..Len(old) : Score(r, old[i].key) # "nan"
           /\ zeros # {} <=> \E i \in 1..Len(old) : Score(r, old[i].key) = "zero"
           /\ Seen(r, k) # {} => Len(old) > 0
  BY DEF RowsFit
<1> HIDE DEF lib, new, n
<1>9. CASE ~r[lib].listed
  <2>1. \A score : SeenWith(r, n, score) = SeenWith(r, k, score)
    BY <1>3, <1>9 DEF SeenWith
  <2>2. RowsFit(r, n, new)
    BY <1>1, <1>3, <1>5, <1>8, <1>9, <2>1 DEF RowsFit
  <2> QED
    BY <2>2 DEF lib, new, n
<1>10. CASE r[lib].listed /\ NanLeads(r, k)
  <2>0. Len(old) = 1 /\ Score(r, old[1].key) = "nan"
    BY <1>8, <1>10
  <2>1. SameKey(r, old[1].key, lib) /\ 1 \in 1..Len(old)
    BY <2>0 DEF SameKey
  <2>2. Len(new) = 1 /\ new[1].key = old[1].key
    BY <1>4, <1>10, <2>0, <2>1
  <2>3. RowsFit(r, n, new)
    BY <1>1, <1>3, <1>10, <2>0, <2>2 DEF RowsFit
  <2> QED
    BY <2>3 DEF lib, new, n
<1>11. CASE r[lib].listed /\ ~NanLeads(r, k) /\ Seen(r, k) = {} /\ Score(r, lib) = "nan"
  <2>1. numbers = 0 /\ zeros = {}
    BY <1>11, FS_EmptySet DEF SeenWith
  <2>2. Len(old) = 0
    BY <1>8, <1>11, <2>1
  <2>3. Len(new) = 1 /\ new[1].key = lib
    BY <1>4, <1>11, <2>2
  <2>4. RowsFit(r, n, new)
    BY <1>1, <1>3, <1>11, <2>3 DEF RowsFit
  <2> QED
    BY <2>4 DEF lib, new, n
<1>12. CASE r[lib].listed /\ ~NanLeads(r, k) /\ Seen(r, k) # {} /\ Score(r, lib) = "nan"
  <2>1. SameKey(r, old[1].key, lib) /\ 1 \in 1..Len(old)
    BY <1>0, <1>8, <1>12 DEF SameKey
  <2>2. Len(new) = Len(old) /\ \A i \in 1..Len(old) : new[i].key = old[i].key
    BY <1>4, <1>12, <2>1
  <2>3. SeenWith(r, n, "number") = SeenWith(r, k, "number") /\ SeenWith(r, n, "zero") = zeros
    BY <1>6, <1>12
  <2>4. ~NanLeads(r, n) /\ Seen(r, n) # {}
    BY <1>3, <1>12
  <2>5. RowsFit(r, n, new)
    BY <1>1, <1>8, <1>12, <2>2, <2>3, <2>4 DEF RowsFit
  <2> QED
    BY <2>5 DEF lib, new, n
<1>13. CASE r[lib].listed /\ ~NanLeads(r, k) /\ Score(r, lib) = "number"
  <2>1. \A i \in 1..Len(old) : ~SameKey(r, old[i].key, lib)
    BY <1>8, <1>13 DEF SameKey
  <2>2. /\ Len(new) = Len(old) + 1 /\ new[Len(old) + 1].key = lib
        /\ \A i \in 1..Len(old) : new[i].key = old[i].key
    BY <1>4, <1>13, <2>1
  <2>3. Cardinality(SeenWith(r, n, "number")) = numbers + 1 /\ SeenWith(r, n, "zero") = zeros
    BY <1>6, <1>7, <1>13
  <2>4. ~NanLeads(r, n)
    BY <1>3, <1>13
  <2>5. \A i \in 1..Len(new) : i \in 1..Len(old) \/ i = Len(old) + 1
    BY <1>0, <2>2
  <2>6. Len(old) + 1 \in 1..Len(new) /\ \A i \in 1..Len(old) : i \in 1..Len(new)
    BY <1>0, <2>2
  <2>7. Len(new) = Cardinality(SeenWith(r, n, "number")) + (IF zeros = {} THEN 0 ELSE 1)
        /\ Len(new) > 0
    BY <1>0, <1>7, <1>8, <1>13, <2>2, <2>3
  <2>8. \A i \in 1..Len(new) : Score(r, new[i].key) # "nan"
    BY <1>8, <1>13, <2>2, <2>5
  <2>9. zeros # {} <=> \E i \in 1..Len(new) : Score(r, new[i].key) = "zero"
    BY <1>8, <1>13, <2>2, <2>5, <2>6
  <2>10. RowsFit(r, n, new)
    BY <1>1, <2>3, <2>4, <2>7, <2>8, <2>9 DEF RowsFit
  <2> QED
    BY <2>10 DEF lib, new, n
<1>14. CASE r[lib].listed /\ ~NanLeads(r, k) /\ Score(r, lib) = "zero"
  <2>1. SeenWith(r, n, "number") = SeenWith(r, k, "number") /\ SeenWith(r, n, "zero") # {}
    BY <1>6, <1>14
  <2>2. ~NanLeads(r, n)
    BY <1>3, <1>14
  <2>3. CASE zeros = {}
    <3>1. \A i \in 1..Len(old) : ~SameKey(r, old[i].key, lib)
      BY <1>8, <1>14, <2>3 DEF SameKey
    <3>2. /\ Len(new) = Len(old) + 1 /\ new[Len(old) + 1].key = lib
          /\ \A i \in 1..Len(old) : new[i].key = old[i].key
      BY <1>4, <1>14, <3>1
    <3>3. \A i \in 1..Len(new) : i \in 1..Len(old) \/ i = Len(old) + 1
      BY <1>0, <3>2
    <3>4. Len(old) + 1 \in 1..Len(new)
      BY <1>0, <3>2
    <3>5. Len(new) = numbers + 1 /\ Len(new) > 0
      BY <1>0, <1>7, <1>8, <1>14, <2>3, <3>2
    <3>6. \A i \in 1..Len(new) : Score(r, new[i].key) # "nan"
      BY <1>8, <1>14, <3>2, <3>3
    <3>7. \E i \in 1..Len(new) : Score(r, new[i].key) = "zero"
      BY <1>14, <3>2, <3>4
    <3>8. Len(new) = Cardinality(SeenWith(r, n, "number"))
                       + (IF SeenWith(r, n, "zero") = {} THEN 0 ELSE 1)
      BY <2>1, <3>5
    <3> HIDE DEF numbers, zeros
    <3>9. RowsFit(r, n, new)
      BY <1>1, <2>1, <2>2, <3>5, <3>6, <3>7, <3>8 DEF RowsFit
    <3> QED
      BY <3>9 DEF lib, new, n
  <2>4. CASE zeros # {}
    <3>1. \E i \in 1..Len(old) : SameKey(r, old[i].key, lib)
      BY <1>8, <1>14, <2>4 DEF SameKey
    <3>2. Len(new) = Len(old) /\ \A i \in 1..Len(old) : new[i].key = old[i].key
      BY <1>4, <1>14, <3>1
    <3>3. Len(new) = numbers + 1 /\ Len(new) > 0
      BY <1>7, <1>8, <1>14, <2>4, <3>2
    <3>4. Len(new) = Cardinality(SeenWith(r, n, "number"))
                       + (IF SeenWith(r, n, "zero") = {} THEN 0 ELSE 1)
      BY <2>1, <3>3
    <3>5. \A i \in 1..Len(new) : Score(r, new[i].key) # "nan"
      BY <1>8, <1>14, <3>2
    <3>6. \E i \in 1..Len(new) : Score(r, new[i].key) = "zero"
      BY <1>8, <1>14, <2>4, <3>2
    <3> HIDE DEF numbers, zeros
    <3>7. RowsFit(r, n, new)
      BY <1>1, <2>1, <2>2, <3>3, <3>4, <3>5, <3>6 DEF RowsFit
    <3> QED
      BY <3>7 DEF lib, new, n
  <2> QED
    BY <2>3, <2>4
<1> QED
  BY <1>2, <1>9, <1>10, <1>11, <1>12, <1>13, <1>14

\* The rows of the table fit all the libraries.
LEMMA TableFits == ASSUME NEW r PROVE RowsFit(r, Len(Order), Report(r))
<1> DEFINE L == Len(Order)
           S == {k \in Nat : k <= L => RowsFit(r, k, Rows(r)[k])}
<1>0. L \in Nat
  BY OrderNames
<1>1. RowsFit(r, 0, Rows(r)[0])
  <2>1. Rows(r)[0] = <<>>
    BY RowsStep
  <2>2. Seen(r, 0) = {} /\ ~NanLeads(r, 0)
    BY DEF Seen, NanLeads
  <2>3. SeenWith(r, 0, "number") = {} /\ SeenWith(r, 0, "zero") = {}
    BY <2>2 DEF SeenWith
  <2>4. Cardinality(SeenWith(r, 0, "number")) = 0
    BY <2>3, FS_EmptySet
  <2>5. <<>> \in Seq(RowSet) /\ Len(<<>>) = 0
    OBVIOUS
  <2> DEFINE rows == Rows(r)[0]
  <2>6. rows \in Seq(RowSet) /\ Len(rows) = 0
    BY <2>1, <2>5
  <2> HIDE DEF rows
  <2>7. \A i \in 1..Len(rows) : FALSE
    BY <2>6
  <2>8. RowsFit(r, 0, rows)
    BY <2>2, <2>3, <2>4, <2>6, <2>7 DEF RowsFit
  <2> QED
    BY <2>8 DEF rows
<1>2. ASSUME NEW k \in S PROVE k + 1 \in S
  <2>1. k \in Nat /\ (k <= L => RowsFit(r, k, Rows(r)[k]))
    OBVIOUS
  <2>2. ASSUME k + 1 <= L PROVE RowsFit(r, k + 1, Rows(r)[k + 1])
    <3>1. k + 1 \in 1..L /\ k <= L /\ (k + 1) - 1 = k
      BY <1>0, <2>1, <2>2
    <3>2. Rows(r)[k + 1] = WithRow(r, Rows(r)[k], Order[k + 1])
      BY <3>1, RowsStep
    <3>3. RowsFit(r, k, Rows(r)[k])
      BY <2>1, <3>1
    <3> HIDE DEF S
    <3> QED
      BY <2>1, <2>2, <3>2, <3>3, RowsFitStep
  <2> QED
    BY <2>1, <2>2
<1>3. S = Nat
  <2>1. S \in SUBSET Nat /\ 0 \in S
    BY <1>1
  <2> HIDE DEF S
  <2> QED
    BY <1>2, <2>1, SetInduction
<1>4. L \in S
  <2> HIDE DEF S
  <2> QED
    BY <1>0, <1>3
<1> QED
  BY <1>0, <1>4 DEF Report

-------------------------------------------------------------------------------
(* As long as nothing throws *)

\* All the methods of the i-th library have been entered.
Full(r, i) == r[Libs[i]].entered = ToSet(Methods)

\* A library is begun when those before it have all their methods.
InOrder(r) ==
  \A i, k \in 1..Len(Libs) : (i < k /\ r[Libs[k]].listed) => Full(r, i)

\* What has been entered has been measured.
Measured(r, but) ==
  \A lib \in ToSet(Libs) : \A m \in r[lib].entered :
    <<lib, m>> \in but \/ \E z \in 1..Sizes : r[lib].samples[m][z] # 0

\* No method with entries that counts answers NaN.
Answered(r) == \A lib \in ToSet(Libs) : \A m \in Counted(r, lib) : <<lib, m>> \notin Unscored

\* Two libraries in such results never have the same key.
LEMMA OwnKeys ==
  ASSUME NEW r, InOrder(r), Measured(r, {}), Answered(r),
         NEW a \in ToSet(Libs), NEW b \in ToSet(Libs), a # b, r[a].listed, r[b].listed
  PROVE  ~SameKey(r, a, b)
<1>1. ASSUME NEW l \in ToSet(Libs) PROVE Score(r, l) \in {"zero", "number"}
  <2>1. ASSUME NEW m \in Counted(r, l) PROVE ~NoAverage(r, l, m)
    <3>1. m \in r[l].entered /\ <<l, m>> \notin Unscored
      BY <1>1, <2>1 DEF Answered, Counted
    <3>2. \E z \in 1..Sizes : r[l].samples[m][z] # 0
      BY <1>1, <3>1 DEF Measured
    <3> QED
      BY <3>1, <3>2 DEF NoAverage
  <2> QED
    BY <2>1 DEF Score
<1>2. ASSUME NEW i \in 1..Len(Libs), Full(r, i) PROVE Score(r, Libs[i]) = "number"
  <2>1. Libs[i] \in ToSet(Libs)
    BY LibNames
  <2>2. Counted(r, Libs[i]) # {}
    BY <1>2, DriverAssumption DEF Full, Counted
  <2>3. Score(r, Libs[i]) # "zero"
    BY <1>1, <2>1, <2>2 DEF Score
  <2> QED
    BY <1>1, <2>1, <2>3
<1>3. PICK i, k \in 1..Len(Libs) : a = Libs[i] /\ b = Libs[k]
  BY LibNames
<1>4. i < k \/ k < i
  BY <1>3
<1>5. Score(r, a) = "number" \/ Score(r, b) = "number"
  BY <1>2, <1>3, <1>4 DEF InOrder
<1>6. Score(r, a) # "nan" /\ Score(r, b) # "nan"
  BY <1>1
<1> QED
  BY <1>5, <1>6 DEF SameKey

\* So every library in them has a row of its own.
LEMMA OwnRows ==
  ASSUME NEW r, InOrder(r), Measured(r, {}), Answered(r)
  PROVE  {Report(r)[i].name : i \in DOMAIN Report(r)} = {lib \in ToSet(Libs) : r[lib].listed}
<1> DEFINE L == Len(Order)
           rows == Rows(r)
           Good(k) == /\ rows[k] \in Seq(RowSet)
                      /\ \A i \in 1..Len(rows[k]) : rows[k][i].key = rows[k][i].name
                      /\ {rows[k][i].name : i \in 1..Len(rows[k])} =
                           {lib \in {Order[j] : j \in 1..k} : r[lib].listed}
           S == {k \in Nat : k <= L => Good(k)}
<1>0. L \in Nat /\ \A i \in 1..L : Order[i] \in STRING
  BY OrderNames
<1>r. rows[0] = <<>> /\ \A n \in 1..L : rows[n] = WithRow(r, rows[n - 1], Order[n])
  BY RowsStep
<1> HIDE DEF rows
<1>1. Good(0)
  BY <1>r
<1>2. ASSUME NEW k \in Nat, k + 1 <= L, Good(k) PROVE Good(k + 1)
  <2> DEFINE lib == Order[k + 1]
             old == rows[k]
             same == {i \in DOMAIN old : SameKey(r, old[i].key, lib)}
  <2>1. rows[k + 1] = WithRow(r, old, lib)
    <3>1. k + 1 \in 1..L /\ (k + 1) - 1 = k
      BY <1>0, <1>2
    <3> QED
      BY <1>r, <3>1
  <2>2. {l \in {Order[j] : j \in 1..(k + 1)} : r[l].listed} =
          {l \in {Order[j] : j \in 1..k} : r[l].listed} \cup {l \in {lib} : r[l].listed}
    <3>1. 1..(k + 1) = 1..k \cup {k + 1}
      BY <1>2
    <3> QED
      BY <3>1
  <2>3. CASE ~r[lib].listed
    <3>1. rows[k + 1] = old
      BY <2>1, <2>3 DEF WithRow
    <3>2. {l \in {lib} : r[l].listed} = {}
      BY <2>3
    <3> HIDE DEF lib
    <3> QED
      BY <1>2, <2>2, <3>1, <3>2
  <2>4. CASE r[lib].listed
    <3>1. same = {}
      <4>1. ASSUME NEW i \in DOMAIN old PROVE ~SameKey(r, old[i].key, lib)
        <5>1. i \in 1..Len(old)
          BY <1>2
        <5>2. PICK j \in 1..k : old[i].name = Order[j]
          BY <1>2, <5>1
        <5>3. old[i].key = Order[j] /\ j \in 1..L /\ k + 1 \in 1..L /\ j # k + 1
          BY <1>0, <1>2, <5>1, <5>2
        <5>4. r[Order[j]].listed
          BY <1>2, <5>1, <5>2
        <5>5. Order[j] \in ToSet(Libs) /\ lib \in ToSet(Libs) /\ Order[j] # lib
          BY <5>3, OrderNames
        <5> QED
          BY <2>4, <5>3, <5>4, <5>5, OwnKeys
      <4> QED
        BY <4>1
    <3>2. rows[k + 1] = Append(old, [key |-> lib, name |-> lib])
      BY <2>1, <2>4, <3>1 DEF WithRow
    <3>3. lib \in STRING /\ old \in Seq(RowSet)
      BY <1>0, <1>2
    <3>4. [key |-> lib, name |-> lib] \in RowSet
      BY <3>3 DEF RowSet
    <3> DEFINE new == rows[k + 1]
               row == [key |-> lib, name |-> lib]
    <3>5. /\ new \in Seq(RowSet) /\ Len(new) = Len(old) + 1 /\ Len(old) \in Nat
          /\ \A i \in 1..Len(old) : new[i] = old[i]
          /\ new[Len(old) + 1] = row
      <4> HIDE DEF row, lib, old
      <4> QED
        BY <3>2, <3>3, <3>4 DEF row
    <3>6. row.key = lib /\ row.name = lib
      OBVIOUS
    <3> HIDE DEF new, row
    <3>7. \A i \in 1..Len(new) : i \in 1..Len(old) \/ i = Len(old) + 1
      BY <3>5
    <3>8. \A i \in 1..Len(new) : new[i].key = new[i].name
      BY <1>2, <3>5, <3>6, <3>7
    <3>9. {new[i].name : i \in 1..Len(new)} = {old[i].name : i \in 1..Len(old)} \cup {lib}
      <4>1. 1..Len(new) = (1..Len(old)) \cup {Len(old) + 1}
        BY <3>5
      <4>2. {new[i].name : i \in 1..Len(old)} = {old[i].name : i \in 1..Len(old)}
        BY <3>5
      <4> HIDE DEF old
      <4> QED
        BY <3>5, <3>6, <4>1, <4>2
    <3>10. {l \in {lib} : r[l].listed} = {lib}
      BY <2>4
    <3> QED
      BY <1>2, <2>2, <3>5, <3>8, <3>9, <3>10 DEF new
  <2> QED
    BY <2>3, <2>4
<1> HIDE DEF Good
<1>3. S = Nat
  <2>1. S \in SUBSET Nat /\ 0 \in S
    BY <1>1
  <2>2. ASSUME NEW k \in S PROVE k + 1 \in S
    <3>1. k \in Nat /\ (k <= L => Good(k))
      OBVIOUS
    <3>2. k + 1 <= L => Good(k + 1)
      BY <1>0, <1>2, <3>1
    <3> QED
      BY <3>1, <3>2
  <2> HIDE DEF S
  <2> QED
    BY <2>1, <2>2, SetInduction
<1>4. L \in S
  <2> HIDE DEF S
  <2> QED
    BY <1>0, <1>3
<1>5. Good(L)
  BY <1>0, <1>4
<1>6. Report(r) = rows[L] /\ ToSet(Libs) = {Order[j] : j \in 1..L}
  BY OrderNames DEF Report, rows
<1>7. DOMAIN rows[L] = 1..Len(rows[L])
  BY <1>5 DEF Good
<1>8. {Report(r)[i].name : i \in DOMAIN Report(r)} = {rows[L][i].name : i \in 1..Len(rows[L])}
  <2> HIDE DEF L
  <2> QED
    BY <1>6, <1>7
<1>9. {rows[L][i].name : i \in 1..Len(rows[L])} = {lib \in ToSet(Libs) : r[lib].listed}
  BY <1>5, <1>6 DEF Good
<1> QED
  BY <1>8, <1>9

\* As long as nothing throws, the libraries are begun one after the other, and
\* what is published has been measured.
Orderly ==
  failed = {} =>
    /\ InOrder(current)
    /\ Measured(current, {})
    /\ main \in Running => (InOrder(results) /\ \A i \in 1..(at.lib - 1) : Full(results, i))
    /\ main \in {"bench", "post", "publish", "check"} => Measured(results, {})
    /\ main = "measuring" => Measured(results, {<<Lib, Method>>})

LEMMA OrderlyInitially == Init => Orderly
<1> SUFFICES ASSUME Init PROVE Orderly
  OBVIOUS
<1>1. \A l \in ToSet(Libs) : ~None[l].listed /\ None[l].entered = {}
  BY DEF None
<1>2. \A i \in 1..Len(Libs) : Libs[i] \in ToSet(Libs)
  BY LibNames
<1>3. InOrder(None) /\ Measured(None, {})
  BY <1>1, <1>2 DEF InOrder, Measured
<1> QED
  BY <1>3 DEF Init, Orderly, Running

\* The entry of the next method.
LEMMA OrderlyBegin ==
  ASSUME NEW r \in Some, at \in Position, at.lib \in 1..Len(Libs),
         InOrder(r), \A i \in 1..(at.lib - 1) : Full(r, i), Measured(r, {})
  PROVE  LET e == Entered(r, Lib, Method) IN
         InOrder(e) /\ (\A i \in 1..(at.lib - 1) : Full(e, i)) /\ Measured(e, {<<Lib, Method>>})
<1> DEFINE e == Entered(r, Lib, Method)
<1>0. /\ Lib \in ToSet(Libs) /\ Method \in ToSet(Methods) /\ Lib = Libs[at.lib] /\ Len(Libs) \in Nat
      /\ \A i \in 1..Len(Libs) : Libs[i] \in ToSet(Libs)
      /\ \A i, k \in 1..Len(Libs) : Libs[i] = Libs[k] => i = k
  <2>1. Methods \in Seq(STRING) /\ at.method \in 1..Len(Methods)
    BY DriverAssumption DEF Position
  <2>2. Method \in ToSet(Methods)
    BY <2>1 DEF Method, ToSet
  <2> QED
    BY <2>2, LibNames DEF Lib
<1>1. \A l \in ToSet(Libs) :
        /\ e[l].entered = IF l = Lib THEN r[l].entered \cup {Method} ELSE r[l].entered
        /\ e[l].listed = (l = Lib \/ r[l].listed)
        /\ e[l].samples = r[l].samples
  <2>1. r \in [ToSet(Libs) -> Entries]
    BY DEF Some
  <2>2. ASSUME NEW l \in ToSet(Libs), l # Lib PROVE e[l] = r[l]
    BY <2>1, <2>2 DEF Entered
  <2>3. e[Lib] = [r[Lib] EXCEPT !.listed = TRUE, !.entered = @ \cup {Method}] /\ r[Lib] \in Entries
    BY <1>0, <2>1 DEF Entered
  <2>4. /\ e[Lib].entered = r[Lib].entered \cup {Method} /\ e[Lib].listed = TRUE
        /\ e[Lib].samples = r[Lib].samples
    BY <2>3 DEF Entries
  <2>5. \A l \in ToSet(Libs) : r[l].listed \in BOOLEAN
    BY <2>1 DEF Entries
  <2> HIDE DEF e
  <2> QED
    BY <2>2, <2>4, <2>5
<1> HIDE DEF e
<1>2. ASSUME NEW i \in 1..Len(Libs), Full(r, i) PROVE Full(e, i)
  <2>1. Libs[i] \in ToSet(Libs) /\ r[Libs[i]].entered = ToSet(Methods)
    BY <1>0, <1>2 DEF Full
  <2>2. e[Libs[i]].entered = ToSet(Methods) \cup {Method} \/ e[Libs[i]].entered = ToSet(Methods)
    BY <1>1, <2>1
  <2> QED
    BY <1>0, <2>2 DEF Full
<1>3. ASSUME NEW i \in 1..Len(Libs), NEW k \in 1..Len(Libs), i < k, e[Libs[k]].listed
      PROVE  Full(e, i)
  <2>1. CASE Libs[k] = Lib
    <3>1. i \in 1..(at.lib - 1)
      BY <1>0, <1>3, <2>1
    <3> QED
      BY <1>2, <3>1
  <2>2. CASE Libs[k] # Lib
    <3>1. r[Libs[k]].listed
      BY <1>0, <1>1, <1>3, <2>2
    <3> QED
      BY <1>2, <1>3, <3>1 DEF InOrder
  <2> QED
    BY <2>1, <2>2
<1>4. \A i \in 1..(at.lib - 1) : Full(e, i)
  BY <1>0, <1>2
<1>5. Measured(e, {<<Lib, Method>>})
  <2>1. ASSUME NEW l \in ToSet(Libs), NEW m \in e[l].entered, <<l, m>> # <<Lib, Method>>
        PROVE  \E z \in 1..Sizes : e[l].samples[m][z] # 0
    <3>1. m \in r[l].entered
      BY <1>1, <2>1
    <3>2. \E z \in 1..Sizes : r[l].samples[m][z] # 0
      BY <3>1 DEF Measured
    <3> QED
      BY <1>1, <3>2
  <2> QED
    BY <2>1 DEF Measured
<1> QED
  BY <1>3, <1>4, <1>5 DEF InOrder, e

\* The sample of the method.
LEMMA OrderlyEnd ==
  ASSUME NEW r \in Some, at \in Position, at.lib \in 1..Len(Libs), at.size \in 1..Sizes,
         FirstOnes(r), InOrder(r), \A i \in 1..(at.lib - 1) : Full(r, i),
         Measured(r, {<<Lib, Method>>})
  PROVE  LET s == Sampled(r, Lib, Method, at.size) IN
         InOrder(s) /\ (\A i \in 1..(at.lib - 1) : Full(s, i)) /\ Measured(s, {})
<1> DEFINE s == Sampled(r, Lib, Method, at.size)
<1>0. /\ Len(Libs) \in Nat /\ \A i \in 1..Len(Libs) : Libs[i] \in ToSet(Libs)
      /\ at.method \in 1..Len(Methods) /\ Lib = Libs[at.lib] /\ Method = Methods[at.method]
      /\ \A l \in ToSet(Libs) : \E i \in 1..Len(Libs) : l = Libs[i]
  BY LibNames DEF Position, Lib, Method
<1>1. \A l \in ToSet(Libs) : s[l].entered = r[l].entered /\ s[l].listed = r[l].listed
  BY SampledEntered
<1>2. \A i \in 1..Len(Libs) : \A j \in 1..Len(Methods) : \A z \in 1..Sizes :
        Sample(s, i, j, z) =
          IF <<i, j, z>> = <<at.lib, at.method, at.size>> THEN Up(Sample(r, i, j, z))
          ELSE Sample(r, i, j, z)
  <2> DEFINE a == at.lib
             b == at.method
             c == at.size
  <2>1. /\ a \in 1..Len(Libs) /\ b \in 1..Len(Methods) /\ c \in 1..Sizes
        /\ s = Sampled(r, Libs[a], Methods[b], c)
    BY <1>0
  <2> HIDE DEF s, a, b, c
  <2>2. \A i \in 1..Len(Libs) : \A j \in 1..Len(Methods) : \A z \in 1..Sizes :
          Sample(s, i, j, z) =
            IF <<i, j, z>> = <<a, b, c>> THEN Up(Sample(r, i, j, z)) ELSE Sample(r, i, j, z)
    BY <2>1, SampledSample
  <2> QED
    BY <2>2 DEF a, b, c
<1> HIDE DEF s
<1>3. InOrder(s) /\ \A i \in 1..(at.lib - 1) : Full(s, i)
  <2>1. \A i \in 1..Len(Libs) : Full(r, i) => Full(s, i)
    BY <1>0, <1>1 DEF Full
  <2>2. InOrder(s)
    BY <1>0, <1>1, <2>1 DEF InOrder
  <2> QED
    BY <1>0, <2>1, <2>2
<1>4. ASSUME NEW l \in ToSet(Libs), NEW m \in s[l].entered
      PROVE  \E z \in 1..Sizes : s[l].samples[m][z] # 0
  <2>0. m \in r[l].entered
    BY <1>1
  <2>1. PICK i \in 1..Len(Libs) : l = Libs[i]
    BY <1>0
  <2>2. PICK j \in 1..Len(Methods) : m = Methods[j]
    BY <2>0 DEF FirstOnes, FirstMethods
  <2>3. CASE <<l, m>> = <<Lib, Method>>
    <3>0. Libs[i] = Libs[at.lib] /\ Methods[j] = Methods[at.method]
      BY <1>0, <2>1, <2>2, <2>3
    <3>1. i = at.lib /\ j = at.method
      <4>1. \A p, q \in 1..Len(Methods) : Methods[p] = Methods[q] => p = q
        BY DriverAssumption DEF IsInjective
      <4> QED
        BY <1>0, <3>0, <4>1, LibNames
    <3>2. /\ Sample(s, i, j, at.size) = Up(Sample(r, i, j, at.size))
          /\ Sample(r, i, j, at.size) \in Nat
      BY <1>2, <3>1, SamplesAreNumbers
    <3>3. Sample(s, i, j, at.size) # 0
      BY <3>2, DriverAssumption DEF Up
    <3> QED
      BY <2>1, <2>2, <3>3 DEF Sample
  <2>4. CASE <<l, m>> # <<Lib, Method>>
    <3>1. PICK z \in 1..Sizes : Sample(r, i, j, z) # 0
      BY <2>0, <2>1, <2>2, <2>4 DEF Measured, Sample
    <3>2. Sample(s, i, j, z) = Sample(r, i, j, z)
      BY <1>0, <1>2, <2>1, <2>2, <2>4
    <3> QED
      BY <2>1, <2>2, <3>1, <3>2 DEF Sample
  <2> QED
    BY <2>3, <2>4
<1> QED
  BY <1>3, <1>4 DEF Measured, s

LEMMA OrderlyInductive == Orderly /\ Grown /\ InPlace /\ InTurn /\ [Next]_vars => Orderly'
<1> SUFFICES ASSUME Orderly, Grown, InPlace, InTurn, [Next]_vars PROVE Orderly'
  OBVIOUS
<1>0. /\ results \in Some /\ current \in Some /\ at \in Position
      /\ main \in Running => at.size \in 1..Sizes /\ at.lib \in 1..Len(Libs)
  BY DEF Grown, InPlace, Position
<1>1. ASSUME Priority \/ Validate \/ ValidationThrows \/ Launch \/ Again \/ Join \/ Open
             \/ Abort \/ Table \/ Metrics \/ Plot \/ Exit
      PROVE  Orderly'
  <2>1. current' = current /\ main' \notin Running /\ failed' = failed
    BY <1>1
    DEF Priority, Validate, ValidationThrows, Abort, Launch, Again, Join, Open, Table, Metrics,
        Plot, Exit, shared, Running
  <2> QED
    BY <2>1 DEF Orderly, Running, InOrder, Measured, Full
<1>2. ASSUME RunAll PROVE Orderly'
  <2>1. /\ results' = current /\ current' = current /\ main' = "bench" /\ at'.lib = 1
        /\ failed' = failed
    BY <1>2 DEF RunAll, shared, Start
  <2>2. \A i \in 1..(at'.lib - 1) : FALSE
    BY <2>1
  <2> QED
    BY <2>1, <2>2 DEF Orderly, Running, InOrder, Measured, Full
<1>3. ASSUME BeginMethod PROVE Orderly'
  <2>1. /\ main = "bench" /\ main' = "measuring" /\ results' = Entered(results, Lib, Method)
        /\ current' = current /\ at' = at /\ failed' = failed
    BY <1>3 DEF BeginMethod, shared
  <2>2. Lib' = Lib /\ Method' = Method
    BY <2>1 DEF Lib, Method
  <2>3. ASSUME failed = {}
        PROVE  /\ InOrder(results') /\ (\A i \in 1..(at.lib - 1) : Full(results', i))
               /\ Measured(results', {<<Lib, Method>>})
    BY <1>0, <2>1, <2>3, OrderlyBegin DEF Orderly, Running
  <2> QED
    BY <2>1, <2>2, <2>3 DEF Orderly, Running, InOrder, Measured, Full
<1>4. ASSUME EndMethod PROVE Orderly'
  <2>1. /\ main = "measuring" /\ main' = "post" /\ current' = current /\ at' = at
        /\ results' = Sampled(results, Lib, Method, at.size) /\ failed' = failed
    BY <1>4 DEF EndMethod, shared
  <2>2. ASSUME failed = {}
        PROVE  /\ InOrder(results') /\ (\A i \in 1..(at.lib - 1) : Full(results', i))
               /\ Measured(results', {})
    BY <1>0, <2>1, <2>2, OrderlyEnd DEF Orderly, Running, InTurn
  <2> QED
    BY <2>1, <2>2 DEF Orderly, Running, InOrder, Measured, Full
<1>5. ASSUME Throw PROVE Orderly'
  <2>1. failed' # {}
    BY <1>5 DEF Throw
  <2> QED
    BY <2>1 DEF Orderly
<1>6. ASSUME PostLock PROVE Orderly'
  BY <1>6 DEF PostLock, Orderly, Running, InOrder, Measured, Full
<1>7. ASSUME PostAssign PROVE Orderly'
  BY <1>7 DEF PostAssign, Orderly, Running, InOrder, Measured, Full
<1>8. ASSUME Check PROVE Orderly'
  <2>1. /\ main = "check" /\ results' = results /\ current' = current
        /\ main' \in {"again", "bench"} /\ failed' = failed
    BY <1>8 DEF Check, Proceed, shared
  <2>2. ASSUME main' = "bench", failed = {} PROVE \A i \in 1..(at'.lib - 1) : Full(results, i)
    <3>1. at' = NextMethod /\ Len(Libs) \in Nat
      BY <1>8, <2>2, LibNames DEF Check, Proceed
    <3>2. \A i \in 1..(at.lib - 1) : Full(results, i)
      BY <2>1, <2>2 DEF Orderly, Running
    <3>3. CASE at.method # Len(Methods)
      <4>1. at'.lib = at.lib
        BY <1>0, <3>1, <3>3 DEF NextMethod, Position
      <4> QED
        BY <3>2, <4>1
    <3>4. CASE at.method = Len(Methods) /\ at.lib = Len(Libs)
      <4>1. at'.lib = 1
        BY <3>1, <3>4 DEF NextMethod, NextLib
      <4> QED
        BY <4>1
    <3>5. CASE at.method = Len(Methods) /\ at.lib # Len(Libs)
      <4>1. at'.lib = at.lib + 1 /\ at.lib \in 1..Len(Libs)
        BY <1>0, <2>1, <3>1, <3>5 DEF NextMethod, NextLib, Running
      <4>2. FirstMethods(Len(Methods)) \subseteq results[Lib].entered
        BY <2>1, <3>5 DEF InTurn
      <4>3. \E n \in 0..Len(Methods) : results[Lib].entered = FirstMethods(n)
        BY <4>1, LibIsLib DEF InTurn, FirstOnes
      <4>4. \A n \in 0..Len(Methods) : FirstMethods(n) \subseteq ToSet(Methods)
        BY DriverAssumption DEF FirstMethods, ToSet
      <4>5. Full(results, at.lib)
        BY <4>2, <4>3, <4>4, AllMethods DEF Full, Lib
      <4>6. \A i \in 1..(at'.lib - 1) : i \in 1..(at.lib - 1) \/ i = at.lib
        BY <3>1, <4>1
      <4> QED
        BY <3>2, <4>5, <4>6
    <3> QED
      BY <3>3, <3>4, <3>5
  <2> QED
    BY <2>1, <2>2 DEF Orderly, Running, InOrder, Measured, Full
<1>9. ASSUME KeyPressed \/ Redraw \/ Copy \/ Stop \/ Type \/ Close PROVE Orderly'
  BY <1>9 DEF KeyPressed, Redraw, Copy, Stop, Type, Close, shared, Orderly, InOrder, Measured,
              Full, Lib, Method
<1>10. CASE UNCHANGED vars
  BY <1>10 DEF vars, shared, Orderly, InOrder, Measured, Full, Lib, Method
<1> QED
  BY <1>1, <1>2, <1>3, <1>4, <1>5, <1>6, <1>7, <1>8, <1>9, <1>10 DEF Next, Main, IO, Rest

-------------------------------------------------------------------------------
(* The lines of the report *)

\* The lines of the table and of the metrics.
Kinds == {"row", "metrics", "cut"}

Lines == Seq(Kinds \X STRING)

\* The last n lines are those of the metrics of the first n libraries, and the
\* others are rows of the table.
Headed(lines, n) ==
  LET first == Len(lines) - n IN
  /\ first >= 0
  /\ \A i \in 1..first : lines[i][1] = "row"
  /\ \A i \in 1..n : lines[first + i][1] \in {"metrics", "cut"} /\ lines[first + i][2] = Libs[i]

\* What has been reported so far.
Written ==
  /\ main \notin {"metrics", "plotly", "exit", "end", "terminated"} => report = <<>>
  /\ main = "metrics" => report \in Lines /\ Headed(report, at.lib - 1)
  /\ main = "plotly" => report \in Lines /\ Headed(report, Len(Libs))

\* One more row of the metrics.
LEMMA OneMoreLine ==
  ASSUME NEW lines \in Lines, NEW n \in Nat, Headed(lines, n), n + 1 <= Len(Libs),
         NEW kind \in {"metrics", "cut"}
  PROVE  LET more == lines \o <<<<kind, Libs[n + 1]>>>> IN more \in Lines /\ Headed(more, n + 1)
<1> DEFINE line == <<kind, Libs[n + 1]>>
           more == lines \o <<line>>
<1>1. line \in Kinds \X STRING
  <2>1. Len(Libs) \in Nat /\ \A i \in 1..Len(Libs) : Libs[i] \in STRING
    BY DriverAssumption
  <2>2. n + 1 \in 1..Len(Libs)
    BY <2>1
  <2>3. kind \in Kinds /\ Libs[n + 1] \in STRING
    BY <2>1, <2>2 DEF Kinds
  <2> QED
    BY <2>3
<1>2. line[1] = kind /\ line[2] = Libs[n + 1]
  OBVIOUS
<1> HIDE DEF line
<1>3. /\ more \in Lines /\ Len(lines) \in Nat /\ Len(more) = Len(lines) + 1
      /\ \A i \in 1..Len(lines) : more[i] = lines[i]
      /\ more[Len(lines) + 1] = line
  BY <1>1 DEF Lines
<1> HIDE DEF more
<1> DEFINE first == Len(lines) - n
<1>4. /\ first \in Nat /\ Len(more) - (n + 1) = first /\ \A i \in 1..first : lines[i][1] = "row"
      /\ \A i \in 1..n : lines[first + i][1] \in {"metrics", "cut"} /\ lines[first + i][2] = Libs[i]
  BY <1>3 DEF Headed
<1>5. ASSUME NEW i \in 1..first PROVE more[i][1] = "row"
  <2>1. i \in 1..Len(lines)
    BY <1>3, <1>4
  <2> QED
    BY <1>3, <1>4, <2>1
<1>6. ASSUME NEW i \in 1..(n + 1)
      PROVE  more[first + i][1] \in {"metrics", "cut"} /\ more[first + i][2] = Libs[i]
  <2>1. CASE i = n + 1
    <3>1. first + i = Len(lines) + 1
      BY <1>3, <2>1
    <3> QED
      BY <1>2, <1>3, <2>1, <3>1
  <2>2. CASE i # n + 1
    <3>1. i \in 1..n /\ first + i \in 1..Len(lines)
      BY <1>3, <1>4, <2>2
    <3> QED
      BY <1>3, <1>4, <3>1
  <2> QED
    BY <2>1, <2>2
<1>7. Headed(more, n + 1)
  BY <1>4, <1>5, <1>6 DEF Headed
<1> QED
  BY <1>3, <1>7 DEF more, line

LEMMA WrittenInductive == Written /\ InPlace /\ [Next]_vars => Written'
<1> SUFFICES ASSUME Written, InPlace, [Next]_vars PROVE Written'
  OBVIOUS
<1>1. ASSUME Table PROVE Written'
  <2>1. /\ main = "table" /\ main' = "metrics" /\ at' = at /\ at.lib = 1 /\ report = <<>>
        /\ report' = report \o [i \in DOMAIN Report(current) |-> <<"row", Report(current)[i].name>>]
    BY <1>1 DEF Table, Tee, InPlace, Start, Written
  <2> DEFINE rows == Report(current)
             lines == [i \in DOMAIN rows |-> <<"row", rows[i].name>>]
  <2>2. rows \in Seq(RowSet)
    BY ReportIsList
  <2> HIDE DEF rows
  <2>3. /\ DOMAIN rows = 1..Len(rows) /\ Len(rows) \in Nat
        /\ \A i \in 1..Len(rows) : rows[i].name \in STRING
    <3>1. /\ DOMAIN rows = 1..Len(rows) /\ Len(rows) \in Nat
          /\ \A i \in 1..Len(rows) : rows[i] \in RowSet
      BY <2>2
    <3> QED
      BY <3>1 DEF RowSet
  <2>4. lines \in Lines /\ \A i \in 1..Len(lines) : lines[i][1] = "row"
    <3>1. \A i \in 1..Len(rows) : <<"row", rows[i].name>> \in Kinds \X STRING
      BY <2>3 DEF Kinds
    <3>2. lines \in [1..Len(rows) -> Kinds \X STRING]
      BY <2>3, <3>1
    <3>3. lines \in Lines /\ Len(lines) = Len(rows)
      <4> HIDE DEF lines
      <4> QED
        BY <2>3, <3>2 DEF Lines
    <3>4. \A i \in 1..Len(rows) : lines[i][1] = "row"
      BY <2>3
    <3> QED
      BY <3>3, <3>4
  <2> HIDE DEF lines
  <2>5. report' = lines
    BY <2>1, <2>4 DEF Lines, lines, rows
  <2>6. Headed(lines, 0)
    BY <2>4 DEF Headed, Lines
  <2> QED
    BY <2>1, <2>4, <2>5, <2>6 DEF Written
<1>2. ASSUME Metrics PROVE Written'
  <2>1. /\ main = "metrics" /\ at.lib \in 1..Len(Libs) /\ Len(Libs) \in Nat
        /\ report \in Lines /\ Headed(report, at.lib - 1)
    BY <1>2, LibNames DEF Metrics, InPlace, Written
  <2>2. PICK kind \in {"metrics", "cut"} : report' = report \o <<<<kind, Libs[at.lib]>>>>
    BY <1>2 DEF Metrics, Tee
  <2>3. at.lib - 1 \in Nat /\ (at.lib - 1) + 1 = at.lib
    BY <2>1
  <2>4. report' \in Lines /\ Headed(report', at.lib)
    <3> DEFINE n == at.lib - 1
    <3>1. n \in Nat /\ n + 1 = at.lib /\ n + 1 <= Len(Libs) /\ Headed(report, n)
      BY <2>1, <2>3
    <3> HIDE DEF n
    <3>2. report \o <<<<kind, Libs[n + 1]>>>> \in Lines
      BY <2>1, <3>1, OneMoreLine
    <3>3. Headed(report \o <<<<kind, Libs[n + 1]>>>>, n + 1)
      BY <2>1, <3>1, OneMoreLine
    <3> QED
      BY <2>2, <3>1, <3>2, <3>3
  <2>5. CASE at.lib = Len(Libs)
    BY <1>2, <2>4, <2>5 DEF Metrics, Written
  <2>6. CASE at.lib # Len(Libs)
    <3>1. main' = "metrics" /\ at' = [at EXCEPT !.lib = @ + 1]
      BY <1>2, <2>1, <2>6 DEF Metrics
    <3>2. at'.lib = at.lib + 1
      BY <3>1 DEF InPlace, Position
    <3>3. at'.lib - 1 = at.lib
      BY <2>1, <3>2
    <3> QED
      BY <2>4, <3>1, <3>3 DEF Written
  <2> QED
    BY <2>5, <2>6
<1>3. ASSUME Plot \/ Exit \/ ValidationThrows \/ Abort PROVE Written'
  BY <1>3 DEF Plot, Exit, ValidationThrows, Abort, Written
<1>4. ASSUME Priority \/ Validate \/ Launch \/ Again \/ RunAll \/ BeginMethod \/ EndMethod
             \/ Throw \/ PostLock \/ PostAssign \/ Check \/ Join \/ Open
      PROVE  Written'
  <2>1. /\ main \notin {"metrics", "plotly", "exit", "end", "terminated"}
        /\ main' \notin {"metrics", "plotly", "end", "terminated"} /\ report' = report
    BY <1>4
    DEF Priority, Validate, Launch, Again, RunAll, BeginMethod, EndMethod, Throw, PostLock,
        PostAssign, Check, Join, Open, Proceed
  <2> QED
    BY <2>1 DEF Written
<1>5. ASSUME KeyPressed \/ Redraw \/ Copy \/ Stop \/ Type \/ Close \/ UNCHANGED vars
      PROVE  Written'
  BY <1>5 DEF KeyPressed, Redraw, Copy, Stop, Type, Close, vars, Written, Headed
<1> QED
  BY <1>1, <1>2, <1>3, <1>4, <1>5 DEF Next, Main, IO, Rest

LEMMA AllReported == Orderly /\ Written => ReportsComplete
<1> SUFFICES ASSUME Orderly, Written PROVE ReportsComplete
  OBVIOUS
<1>1. failed = {} /\ Answered(current) =>
        {Report(current)[i].name : i \in DOMAIN Report(current)} =
          {lib \in ToSet(Libs) : current[lib].listed}
  BY OwnRows DEF Orderly
<1>2. main = "plotly" => Headed(report, Len(Libs))
  BY DEF Written
<1>3. Len(Report(current)) =
        IF NanFirst THEN 1
        ELSE Cardinality(Listed("number")) + (IF Listed("zero") = {} THEN 0 ELSE 1)
  <2>1. RowsFit(current, Len(Order), Report(current))
    BY TableFits
  <2>2. \A score : SeenWith(current, Len(Order), score) = Listed(score)
    BY OrderNames DEF SeenWith, Seen, Listed
  <2>3. NanLeads(current, Len(Order)) <=> NanFirst
    <3>1. \A n \in 1..Len(Order) :
            Order[n] \in Listed("nan") <=>
              (current[Order[n]].listed /\ Score(current, Order[n]) = "nan")
      BY OrderNames DEF Listed
    <3> QED
      BY <3>1, OrderNames DEF NanLeads, NanFirst
  <2> QED
    BY <2>1, <2>2, <2>3 DEF RowsFit
<1> QED
  BY <1>1, <1>2, <1>3 DEF ReportsComplete, Headed, Answered

\* The reports are complete (benchmark.cpp:293, 400): as long as nothing has
\* thrown or answered NaN every library with results has its row; whatever has,
\* a library is left out of the table only for a total that is a NaN, or that
\* it has none, or after a NaN that comes first in the map (benchmark.cpp:420);
\* and the metrics name all of them in order.
THEOREM NothingLeftOut == Spec => []ReportsComplete
<1>1. Grown /\ [Next]_vars => Grown'
  BY GrownInductive
<1>2. Init => Written
  BY DEF Init, Written
<1> QED
  BY <1>1, <1>2, GrownInitially, InPlaceInitially, InPlaceInductive, InTurnInitially,
     InTurnInductive, OrderlyInitially, OrderlyInductive, WrittenInductive, AllReported, PTL
  DEF Spec
===============================================================================
