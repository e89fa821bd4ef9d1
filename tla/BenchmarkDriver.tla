---------------------------- MODULE BenchmarkDriver ----------------------------
(***************************************************************************)
(* The benchmark program (benchmark.cpp).  The main thread waits for a     *)
(* character, validates the libraries, waits again, and then runs every    *)
(* method of every library again and again, publishing its results after   *)
(* each method; an IO thread redraws the report from the published results *)
(* once a second; an input thread waits for a character, after which the   *)
(* IO thread tells the main thread to stop.  At last the main thread       *)
(* writes the report and waits for one more character.                     *)
(*                                                                         *)
(* Of a result only the test size is kept, and whether it is a number: the *)
(* number of results and the scores that are not numbers decide whether an *)
(* average is a number.  All other scores are taken to be finite and the   *)
(* totals of different libraries to be different.                          *)
(***************************************************************************)
EXTENDS Integers, FiniteSets, Sequences, SequencesExt

CONSTANTS
  Libs,                             \* the libraries, in the order they are run
  Order,                            \* the libraries, in the order of the maps, that
                                    \* of the addresses of their names
  Methods,                          \* the methods, in the order they are run
  Sizes,                            \* how many test sizes a run has
  MayThrow,                         \* methods that may throw: <<library, method>>
  Unscored,                         \* those that answer NaN on this machine, as
                                    \* threaded does without processors to spare
  MaxSamples,                       \* samples counted of one method and size (a
                                    \* bound)
  MaxAhead                          \* characters that are typed ahead (a bound)

\* The methods whose name begins with '[' do not count for the total.
Bracketed == {"constr", "destr"}

ASSUME DriverAssumption ==
  /\ Sizes \in Nat \ {0}
  /\ MaxSamples \in Nat \ {0}
  /\ MaxAhead \in Nat \ {0}
  /\ Libs \in Seq(STRING) \ {<<>>} /\ IsInjective(Libs)
  /\ Order \in Seq(STRING) /\ IsInjective(Order) /\ ToSet(Order) = ToSet(Libs)
  /\ Methods \in Seq(STRING) \ {<<>>} /\ IsInjective(Methods)
  /\ ToSet(Methods) \ Bracketed # {}
  /\ MayThrow \subseteq ToSet(Libs) \X ToSet(Methods)
  /\ Unscored \subseteq ToSet(Libs) \X ToSet(Methods)

VARIABLES
  main,                             \* where the main thread is
  at,                               \* its loop variables: size, library, method
  results,                          \* its own results
  current,                          \* s_current_results, shared
  mutex,                            \* s_io_mutex
  esc,                              \* s_esc_pressed
  late,                             \* methods of the library that is being run
                                    \* begun since s_esc_pressed was set
  io,                               \* where the IO thread is
  key,                              \* the input thread has its character
  ahead,                            \* characters typed that nobody has read yet
  closed,                           \* the standard input has come to its end
  failed,                           \* libraries that have thrown
  report                            \* the final report, line by line

shared == <<current, mutex, esc>>
thread == <<io, key>>
input == <<ahead, closed>>
vars == <<main, at, results, shared, late, thread, input, failed, report>>

-------------------------------------------------------------------------------
(* Results *)

\* Of each library, whether it is in the map of results, the methods it has
\* entries for, and how many samples of each test size these have.
None == [lib \in ToSet(Libs) |->
           [listed  |-> FALSE,
            entered |-> {},
            samples |-> [m \in ToSet(Methods) |-> [size \in 1..Sizes |-> 0]]]]

\* lib_results[method]: the entry is made before the method is run.
Entered(r, lib, m) == [r EXCEPT ![lib].listed = TRUE, ![lib].entered = @ \cup {m}]

\* emplace_back of a sample, which is a NaN for the Unscored methods.
Sampled(r, lib, m, size) ==
  [r EXCEPT ![lib].samples[m][size] = IF @ < MaxSamples THEN @ + 1 ELSE @]

Counted(r, lib) == r[lib].entered \ Bracketed

\* The average of a method is a NaN: it divides by zero samples, or adds up
\* samples that are NaN.
NoAverage(r, lib, m) ==
  <<lib, m>> \in Unscored \/ \A size \in 1..Sizes : r[lib].samples[m][size] = 0

\* The total of a library.
Score(r, lib) ==
  IF \E m \in Counted(r, lib) : NoAverage(r, lib, m) THEN "nan"
  ELSE IF Counted(r, lib) = {} THEN "zero" ELSE "number"

\* Two keys of result_order are the same key: a NaN is the same as all.
SameKey(r, a, b) ==
  \/ "nan" \in {Score(r, a), Score(r, b)}
  \/ Score(r, a) = "zero" /\ Score(r, b) = "zero"

\* result_order after one more library: it takes a row of its own, or the
\* row whose key is the same as its own (the lowest such key in the code; which
\* one it is does not change how many rows there are).
WithRow(r, rows, lib) ==
  IF ~r[lib].listed THEN rows
  ELSE LET same == {i \in DOMAIN rows : SameKey(r, rows[i].key, lib)} IN
       IF same = {} THEN Append(rows, [key |-> lib, name |-> lib])
       ELSE [rows EXCEPT ![CHOOSE i \in same : TRUE].name = lib]

\* output_reports: the rows after each of the libraries.
Rows(r) ==
  LET rows[n \in 0..Len(Order)] == IF n = 0 THEN <<>> ELSE WithRow(r, rows[n - 1], Order[n])
  IN rows

\* The rows of the report of some results.
Report(r) == Rows(r)[Len(Order)]

\* The samples of a method that the plot of a test size adds up.
Term(r, size, lib, m) == IF m \in Counted(r, lib) THEN r[lib].samples[m][size] ELSE 0

\* Their sum after each of the methods.
Sums(r, size, lib) ==
  LET sums[n \in 0..Len(Methods)] ==
        IF n = 0 THEN 0 ELSE sums[n - 1] + Term(r, size, lib, Methods[n])
  IN sums

\* output_plotly_reports: the point of a library for a test size is the sum of
\* its samples of this size divided by its number of methods.
Plotly(r, size) ==
  [lib \in {l \in ToSet(Libs) : r[l].listed} |->
     [terms |-> Sums(r, size, lib)[Len(Methods)], ops |-> Cardinality(Counted(r, lib))]]

Start == [size |-> 1, lib |-> 1, method |-> 1]

Init ==
  /\ main = "priority"
  /\ at = Start
  /\ results = None
  /\ current = None
  /\ mutex = "free"
  /\ esc = FALSE
  /\ late = 0
  /\ io = "off"
  /\ key = FALSE
  /\ ahead = 0
  /\ closed = FALSE
  /\ failed = {}
  /\ report = <<>>

-------------------------------------------------------------------------------
(* The standard input *)

\* The user types a character, or the input ends.  Characters that were
\* typed too early wait for the next reader.
Type ==
  /\ ahead < MaxAhead
  /\ ahead' = ahead + 1
  /\ UNCHANGED <<main, at, results, shared, late, thread, closed, failed, report>>

Close ==
  /\ ~closed
  /\ closed' = TRUE
  /\ UNCHANGED <<main, at, results, shared, late, thread, ahead, failed, report>>

\* std::cin.get() returns with a character, or because there are no more.
CanGet == ahead > 0 \/ closed

Get == ahead' = IF ahead > 0 THEN ahead - 1 ELSE 0

-------------------------------------------------------------------------------
(* The start of the main thread *)

\* "Change the CPU priority now: [paused]"
Priority ==
  /\ main = "priority"
  /\ CanGet
  /\ Get
  /\ main' = "validate"
  /\ UNCHANGED <<at, results, shared, late, thread, closed, failed, report>>

\* run_all_validation_tests: one library after the other says what it says.
Validate ==
  /\ main = "validate"
  /\ IF at.lib = Len(Libs) THEN main' = "validated" /\ at' = Start
     ELSE main' = main /\ at' = [at EXCEPT !.lib = @ + 1]
  /\ UNCHANGED <<results, shared, late, thread, input, failed, report>>

\* Nobody catches what a validation throws.
ValidationThrows ==
  /\ main = "validate"
  /\ \E m \in ToSet(Methods) : <<Libs[at.lib], m>> \in MayThrow
  /\ main' = "terminated"
  /\ UNCHANGED <<at, results, shared, late, thread, input, failed, report>>

\* "Validation complete: [paused]", and then the other threads are started.
Launch ==
  /\ main = "validated"
  /\ CanGet
  /\ Get
  /\ main' = "again"
  /\ io' = "wait"
  /\ UNCHANGED <<at, results, shared, late, key, closed, failed, report>>

-------------------------------------------------------------------------------
(* The runs of the main thread *)

Lib == Libs[at.lib]

Method == Methods[at.method]

\* The next method to run in the order of the loops, or the end of the run.
NextLib == [size   |-> IF at.lib = Len(Libs) THEN at.size + 1 ELSE at.size,
            lib    |-> IF at.lib = Len(Libs) THEN 1 ELSE at.lib + 1,
            method |-> 1]

NextMethod ==
  IF at.method = Len(Methods) THEN NextLib ELSE [at EXCEPT !.method = @ + 1]

Proceed(next) ==
  /\ at' = next
  /\ main' = IF next.size > Sizes THEN "again" ELSE "bench"

\* The for loop of main(), which also doubles its limits.
Again ==
  /\ main = "again"
  /\ main' = IF esc THEN "join" ELSE "run"
  /\ UNCHANGED <<at, results, shared, late, thread, input, failed, report>>

\* Mutant: every run starts from scratch.
RunAllFromNothing ==
  /\ main = "run"
  /\ mutex = "free"
  /\ results' = None
  /\ at' = Start
  /\ main' = "bench"
  /\ UNCHANGED <<shared, late, thread, input, failed, report>>

\* run_all_benchmarks: copy the shared results under the lock.
RunAll ==
  /\ main = "run"
  /\ mutex = "free"
  /\ results' = current
  /\ at' = Start
  /\ main' = "bench"
  /\ UNCHANGED <<shared, late, thread, input, failed, report>>

\* The entry of the method is made and the method begins.
BeginMethod ==
  /\ main = "bench"
  /\ results' = Entered(results, Lib, Method)
  /\ main' = "measuring"
  /\ late' = IF esc /\ late < 2 THEN late + 1 ELSE late
  /\ UNCHANGED <<at, shared, thread, input, failed, report>>

\* Mutant: the samples of the first test size are not recorded.
EndMethodLate ==
  /\ main = "measuring"
  /\ results' = IF at.size = 1 THEN results ELSE Sampled(results, Lib, Method, at.size)
  /\ main' = "post"
  /\ UNCHANGED <<at, shared, late, thread, input, failed, report>>

\* best_of returns and the sample is recorded, whether it is a number or not.
EndMethod ==
  /\ main = "measuring"
  /\ results' = Sampled(results, Lib, Method, at.size)
  /\ main' = "post"
  /\ UNCHANGED <<at, shared, late, thread, input, failed, report>>

\* Mutant: a library that throws ends the run.
ThrowStops ==
  /\ main = "measuring"
  /\ <<Lib, Method>> \in MayThrow
  /\ main' = "again"
  /\ late' = 0
  /\ failed' = failed \cup {Lib}
  /\ UNCHANGED <<at, results, shared, thread, input, report>>

\* The method throws a std::exception: the rest of the library is skipped and
\* nothing is posted.
Throw ==
  /\ main = "measuring"
  /\ <<Lib, Method>> \in MayThrow
  /\ Proceed(NextLib)
  /\ late' = 0
  /\ failed' = failed \cup {Lib}
  /\ UNCHANGED <<results, shared, thread, input, report>>

\* What it throws is no std::exception: nobody catches it, and the program ends
\* with all its threads.
Abort ==
  /\ main = "measuring"
  /\ <<Lib, Method>> \in MayThrow
  /\ main' = "terminated"
  /\ io' = "off"
  /\ UNCHANGED <<at, results, shared, late, key, input, failed, report>>

\* Mutant: the lock is forgotten.
PostUnlocked ==
  /\ main = "post"
  /\ main' = "publish"
  /\ UNCHANGED <<at, results, shared, late, thread, input, failed, report>>

\* post_benchmark_method_update: lock, assign, unlock, look at the key.
PostLock ==
  /\ main = "post"
  /\ mutex = "free"
  /\ mutex' = "main"
  /\ main' = "publish"
  /\ UNCHANGED <<at, results, current, esc, late, thread, input, failed, report>>

PostAssign ==
  /\ main = "publish"
  /\ current' = results
  /\ mutex' = "free"
  /\ main' = "check"
  /\ UNCHANGED <<at, results, esc, late, thread, input, failed, report>>

\* Mutant: the answer of the update is not looked at.
CheckNothing ==
  /\ main = "check"
  /\ Proceed(NextMethod)
  /\ UNCHANGED <<results, shared, late, thread, input, failed, report>>

\* The answer of the update: go on, or leave run_all_benchmarks.
Check ==
  /\ main = "check"
  /\ IF esc THEN main' = "again" /\ UNCHANGED at ELSE Proceed(NextMethod)
  /\ UNCHANGED <<results, shared, late, thread, input, failed, report>>

\* a1.get(), after which s_current_results is read without the lock.
Join ==
  /\ main = "join"
  /\ io = "done"
  /\ main' = "open"
  /\ at' = Start
  /\ UNCHANGED <<results, shared, late, thread, input, failed, report>>

-------------------------------------------------------------------------------
(* The final report *)

\* operator<< of the tuple of streams: every line goes to both of them.
Tee(lines) == report' = report \o lines

\* std::ofstream: without the file nothing is reported at all.
Open ==
  /\ main = "open"
  /\ main' \in {"table", "exit"}
  /\ UNCHANGED <<at, results, shared, late, thread, input, failed, report>>

Table ==
  /\ main = "table"
  /\ Tee([i \in DOMAIN Report(current) |-> <<"row", Report(current)[i].name>>])
  /\ main' = "metrics"
  /\ UNCHANGED <<at, results, shared, late, thread, input, failed>>

\* output_metrics_report: a row for each library, which is cut short when its
\* object file cannot be looked at.
Metrics ==
  /\ main = "metrics"
  /\ \E whole \in BOOLEAN : Tee(<<<<IF whole THEN "metrics" ELSE "cut", Libs[at.lib]>>>>)
  /\ IF at.lib = Len(Libs) THEN main' = "plotly" /\ at' = Start
     ELSE main' = main /\ at' = [at EXCEPT !.lib = @ + 1]
  /\ UNCHANGED <<results, shared, late, thread, input, failed>>

\* output_plotly_reports, and the date of the end.
Plot ==
  /\ main = "plotly"
  /\ Tee([size \in 1..Sizes |-> <<"plot", Plotly(current, size)>>])
  /\ main' = "exit"
  /\ UNCHANGED <<at, results, shared, late, thread, input, failed>>

\* The last std::cin.get().
Exit ==
  /\ main = "exit"
  /\ CanGet
  /\ Get
  /\ main' = "end"
  /\ UNCHANGED <<at, results, shared, late, thread, closed, failed, report>>

Main ==
  \/ Priority \/ Validate \/ ValidationThrows \/ Launch
  \/ Again \/ RunAll \/ BeginMethod \/ EndMethod \/ Throw \/ Abort
  \/ PostLock \/ PostAssign \/ Check \/ Join
  \/ Open \/ Table \/ Metrics \/ Plot \/ Exit

-------------------------------------------------------------------------------
(* The IO thread and the input thread *)

\* The std::cin.get() of the input thread.
KeyPressed ==
  /\ io # "off"
  /\ ~key
  /\ CanGet
  /\ Get
  /\ key' = TRUE
  /\ UNCHANGED <<main, at, results, shared, late, io, closed, failed, report>>

\* a2.wait_for times out: take the lock for the copy.
Redraw ==
  /\ io = "wait"
  /\ mutex = "free"
  /\ mutex' = "io"
  /\ io' = "copy"
  /\ UNCHANGED <<main, at, results, current, esc, late, key, input, failed, report>>

Copy ==
  /\ io = "copy"
  /\ mutex' = "free"
  /\ io' = "wait"
  /\ UNCHANGED <<main, at, results, current, esc, late, key, input, failed, report>>

\* Mutant: the flag is not stored.
StopSilently ==
  /\ io = "wait"
  /\ key
  /\ io' = "done"
  /\ UNCHANGED <<main, at, results, shared, late, key, input, failed, report>>

\* a2 is ready: store the flag and end.
Stop ==
  /\ io = "wait"
  /\ key
  /\ esc' = TRUE
  /\ io' = "done"
  /\ UNCHANGED <<main, at, results, current, mutex, late, key, input, failed, report>>

IO == KeyPressed \/ Redraw \/ Copy \/ Stop

Over == main \in {"end", "terminated"}

Rest == Over /\ UNCHANGED vars

Next == Main \/ IO \/ Type \/ Close \/ Rest

Spec == Init /\ [][Next]_vars

\* The threads are scheduled; a wait that finds the key ready reports it, so
\* that Stop is fair by itself and not crowded out by redraws.  Nobody is
\* obliged to type.  The lock is a spin lock: only because the main thread
\* publishes rarely does it come by, hence strong fairness of PostLock and of
\* the copy at the start of a run.
FairSpec ==
  /\ Spec
  /\ WF_vars(Main) /\ SF_vars(PostLock) /\ SF_vars(RunAll)
  /\ WF_vars(KeyPressed) /\ WF_vars(Copy) /\ SF_vars(Stop)

-------------------------------------------------------------------------------
(* Properties *)

\* s_current_results is never read by one thread while the other assigns it,
\* also in the final report, which is written without the lock.
NoTornResults ==
  /\ ~(main = "publish" /\ io = "copy")
  /\ main \in {"open", "table", "metrics", "plotly", "exit"} => io = "done"

\* What the IO thread is shown only grows: no later state of the shared
\* results lacks a sample or a library that an earlier one had, over all the
\* runs, also after a library has thrown.
ShownOnlyGrows ==
  [][\A lib \in ToSet(Libs) :
       /\ current[lib].listed => current'[lib].listed
       /\ \A m \in ToSet(Methods) : \A size \in 1..Sizes :
            current'[lib].samples[m][size] >= current[lib].samples[m][size]]_vars

Listed(score) == {lib \in ToSet(Libs) : current[lib].listed /\ Score(current, lib) = score}

\* The first library of the map has a total that is not a number.
NanFirst ==
  \E n \in DOMAIN Order :
    Order[n] \in Listed("nan") /\ \A k \in 1..(n - 1) : ~current[Order[k]].listed

\* No report drops a library by accident.  As long as nothing has thrown and no
\* method with results answers NaN, every library in the results has a row of
\* its own: no set of partial results meets an average of no samples, nor two
\* libraries without a total.  In all results, also those of libraries that
\* throw or answer NaN, a total that is a number has its row, those without a
\* total share one, and a NaN has none, unless it comes first in the map: then
\* all the others fall into its row.  The metrics, the last lines before the
\* plot, name every library once and in order, also when some object files
\* cannot be looked at.
ReportsComplete ==
  /\ failed = {} /\ (\A lib \in ToSet(Libs) : \A m \in Counted(current, lib) :
                      <<lib, m>> \notin Unscored) =>
       {Report(current)[i].name : i \in DOMAIN Report(current)} =
         {lib \in ToSet(Libs) : current[lib].listed}
  /\ Len(Report(current)) =
       IF NanFirst THEN 1
       ELSE Cardinality(Listed("number")) + (IF Listed("zero") = {} THEN 0 ELSE 1)
  /\ main = "plotly" =>
       LET first == Len(report) - Len(Libs) IN
       /\ first >= 0
       /\ \A i \in 1..first : report[i][1] = "row"
       /\ \A i \in 1..Len(Libs) :
            report[first + i][1] \in {"metrics", "cut"} /\ report[first + i][2] = Libs[i]

\* Libraries with the same methods in the results, of which neither has
\* thrown, are drawn from the same samples up to one a method: the sums of the
\* plot are not divided by the number of runs, so anything else would rank a
\* library by how often it was run.
PlotlyFair ==
  \A size \in 1..Sizes :
    LET plot == Plotly(current, size) IN
    \A a, b \in DOMAIN plot \ failed :
      plot[a].ops = plot[b].ops => plot[a].terms - plot[b].terms <= plot[a].ops

\* After the key at most one more method of a library is begun, the one that
\* was already decided on; only a library that throws, and so is never asked
\* about the key, lets the run go on to the next library.
PromptExit == late <= 1

\* Whoever keeps typing, or ends the input, brings the program to its end:
\* no pause and no thread takes a character that it has no use for, and the
\* stop reaches a main thread that publishes.
KeyEndsProgram == []<>CanGet => <>Over
===============================================================================
