--------------------------- MODULE BenchmarkMethods ---------------------------
(***************************************************************************)
(* The benchmark algorithms (benchmark.hpp): the main thread calls the      *)
(* validation and the timed methods of a library one after another.  A     *)
(* method is a script, a sequence of operations in which the destructors   *)
(* at the end of each scope are written out; the operations from "loop" to *)
(* "next" are its loop.  `threaded` runs its loop on worker threads that   *)
(* share the Subject of the main thread.                                   *)
(*                                                                         *)
(* The libraries are outside: creating a Subject or a Foo, connecting and  *)
(* emitting may throw, and the validation meets libraries that lose or     *)
(* repeat calls or forget to disconnect.  The clock gives each reading a   *)
(* number of ticks.                                                        *)
(***************************************************************************)
EXTENDS Integers, FiniteSets, Sequences, SequencesExt

CONSTANTS
  N,                                \* the test size
  Limit,                            \* s_timer_limit, in ticks
  Ticks,                            \* what a clock reading may add
  MaxStill,                         \* how long the clock may stand still (a bound)
  MaxWorkers,                       \* at most so many workers
  Faults                            \* what may be wrong with a library

ASSUME SizesAssumption == N \in Nat \ {0} /\ Limit \in Nat \ {0} /\ MaxWorkers \in Nat

\* The clock moves on some time, but two readings may be the same.
ASSUME TicksAssumption == Ticks \subseteq Nat /\ Ticks \ {0} # {} /\ MaxStill \in Nat

ASSUME FaultsAssumption == Faults \subseteq {"loses", "repeats", "sticky"}

Workers == 1..MaxWorkers

Main == 0

Threads == {Main} \cup Workers

VARIABLES
  method,                           \* the method that was called last
  code, pc,                         \* the script of each thread, and where it is
  subjects,                         \* Subjects that are alive
  foos,                             \* Foos that are alive, of each thread
  linked,                           \* of these, connected to the Subject
  strays,                           \* connections of Foos that are dead
  timed,                            \* what each timer has seen since its reset
  count, elapsed, samples,          \* the variables of each loop; the samples
                                    \* that were really taken
  crew,                             \* hardware_concurrency() / 2
  future,                           \* what each future holds
  fault, wrong, draws,              \* validation: the faults of the library, how
                                    \* its emissions erred, draws from the rng
  outcome                           \* what the last method came to

control == <<code, pc>>
scope == <<subjects, foos, linked, strays>>
loop == <<count, elapsed, samples>>
check == <<fault, wrong, draws>>
vars == <<method, control, scope, timed, loop, crew, future, check, outcome>>

-------------------------------------------------------------------------------
(* The methods *)

Construction ==
  <<"loop", "reset", "subjects", "count", "~subjects", "next", "return">>

Destruction ==
  <<"loop", "subjects", "reset", "~subjects", "count", "next", "return">>

\* Mutant: the Subject is declared after the Foos.
ConnectionFoosFirst ==
  <<"loop", "foos", "subjects", "reset", "connect", "count", "~subjects", "~foos", "next",
    "return">>

Connection ==
  <<"loop", "subjects", "foos", "reset", "connect", "count", "~foos", "~subjects", "next",
    "return">>

\* Mutant: the sample ends after the Subject is gone too.
DisconnectLate ==
  <<"loop", "subjects", "foos", "connect", "reset", "~foos", "~subjects", "count", "next",
    "return">>

Disconnect ==
  <<"loop", "subjects", "foos", "connect", "reset", "~foos", "count", "~subjects", "next",
    "return">>

Reconnect ==
  <<"subjects", "loop", "foos", "reset", "connect", "count", "~foos", "next", "~subjects",
    "return">>

Emission ==
  <<"loop", "subjects", "foos", "connect", "reset", "emit", "draw", "count", "~foos",
    "~subjects", "next", "return">>

\* The timer is read in the increment of the loop, after the Foos are gone.
Combined ==
  <<"reset", "subjects", "loop", "foos", "connect", "emit", "draw", "~foos", "count", "next",
    "~subjects", "return">>

\* `threaded` itself starts its workers, waits for their results, and leaves
\* its futures and its Subject, in this order.
Threaded == <<"subjects", "spawn", "get", "join", "~subjects", "return">>

\* The lambda that each worker runs: its own generator, its own timer.
Context ==
  <<"copy", "loop", "foos", "connect", "emit", "draw", "~foos", "count", "next", "finish">>

\* Mutant: there is no second emission.
ValidationOnce ==
  <<"loop", "subjects", "foos", "connect", "emit", "draw", "~foos", "~subjects", "next",
    "verdict">>

\* Every Subject is fired twice, with its Foos and without them.
Validation ==
  <<"loop", "subjects", "foos", "connect", "emit", "draw", "~foos", "emit", "draw",
    "~subjects", "next", "verdict">>

Scripts ==
  [construction |-> Construction, destruction |-> Destruction, connection |-> Connection,
   disconnect   |-> Disconnect,   reconnect   |-> Reconnect,   emission   |-> Emission,
   combined     |-> Combined,     threaded    |-> Threaded,    validation |-> Validation]

Methods == DOMAIN Scripts

\* Mutant: a worker that has thrown starts over.
UnwindRetry(t) ==
  IF t = Main THEN <<"join", "~foos", "~subjects", "throw">> ELSE <<"~foos">> \o Tail(Context)

\* An exception leaves the scopes in the reverse order of their declarations;
\* that of a worker is kept in its future.
Unwind(t) ==
  IF t = Main THEN <<"join", "~foos", "~subjects", "throw">> ELSE <<"~foos", "fail">>

-------------------------------------------------------------------------------
(* Steps of a thread *)

\* The thread is about to do, or is doing, this operation.
At(t, op) == pc[t] <= Len(code[t]) /\ code[t][pc[t]] = op

\* Where a script has the head or the foot of its loop.
Where(script, op) == CHOOSE i \in DOMAIN script : script[i] = op

Goto(t, i) == pc' = [pc EXCEPT ![t] = i] /\ UNCHANGED code

Done(t) == Goto(t, pc[t] + 1)

DoneIf(t, last) == IF last THEN Done(t) ELSE UNCHANGED control

\* The thread leaves its script for another one.
Run(t, script) == code' = [code EXCEPT ![t] = script] /\ pc' = [pc EXCEPT ![t] = 1]

\* Operations that the timers see.
Timable == {"subjects", "~subjects", "foos", "~foos", "connect", "emit"}

Sees(t, op, n) == timed' = [timed EXCEPT ![t][op] = @ + n]

\* The vectors of `construction` and `destruction` hold N * N Subjects.
WantedSubjects == IF method \in {"construction", "destruction"} THEN N * N ELSE 1

Idle == pc[Main] > Len(code[Main])

Started == {w \in Workers : future[w] # "none"}

Init ==
  /\ method = "none"
  /\ code = [t \in Threads |-> <<>>]
  /\ pc = [t \in Threads |-> 1]
  /\ subjects = 0
  /\ foos = [t \in Threads |-> 0]
  /\ linked = [t \in Threads |-> 0]
  /\ strays = 0
  /\ timed = [t \in Threads |-> [op \in Timable |-> 0]]
  /\ samples = [t \in Threads |-> 0]
  /\ count = [t \in Threads |-> 1]
  /\ elapsed = [t \in Threads |-> 0]
  /\ crew \in 0..MaxWorkers
  /\ future = [w \in Workers |-> "none"]
  /\ fault = {}
  /\ wrong = {}
  /\ draws = 0
  /\ outcome = "none"

\* The main thread calls a method: its loop starts with fresh variables.  What
\* the static timer saw of earlier methods is forgotten here, every method
\* resets it before it reads it.
Call(m) ==
  /\ Idle
  /\ method' = m
  /\ Run(Main, Scripts[m])
  /\ timed' = [t \in Threads |-> [op \in Timable |-> 0]]
  /\ count' = [t \in Threads |-> 1]
  /\ elapsed' = [t \in Threads |-> 0]
  /\ samples' = [t \in Threads |-> 0]
  /\ future' = [w \in Workers |-> "none"]
  /\ fault' \in IF m = "validation" THEN SUBSET Faults ELSE {{}}
  /\ wrong' = {}
  /\ draws' = 0
  /\ outcome' = "none"
  /\ UNCHANGED <<scope, crew>>

\* The adapter of a library that is not thread safe answers 0.0 by itself.
CallStub ==
  /\ Idle
  /\ method' = "threaded"
  /\ outcome' = "zero"
  /\ Run(Main, <<>>)
  /\ UNCHANGED <<scope, timed, loop, crew, future, check>>

\* The condition of the loop: time for the methods, rounds for the validation.
Continues(t) ==
  IF t = Main /\ method = "validation" THEN count[t] <= N ELSE elapsed[t] < Limit

Loop(t) ==
  /\ At(t, "loop")
  /\ IF Continues(t) THEN Done(t) ELSE Goto(t, Where(code[t], "next") + 1)
  /\ UNCHANGED <<method, scope, timed, loop, crew, future, check, outcome>>

\* Mutant: the loop counts twice.
IncrementTwice(t) ==
  /\ At(t, "next")
  /\ count' = [count EXCEPT ![t] = @ + 2]
  /\ Goto(t, Where(code[t], "loop"))
  /\ UNCHANGED <<method, scope, timed, elapsed, samples, crew, future, check, outcome>>

\* The increment of the loop.
Increment(t) ==
  /\ At(t, "next")
  /\ count' = [count EXCEPT ![t] = @ + 1]
  /\ Goto(t, Where(code[t], "loop"))
  /\ UNCHANGED <<method, scope, timed, elapsed, samples, crew, future, check, outcome>>

\* ChronoTimer::reset.
Reset(t) ==
  /\ At(t, "reset")
  /\ timed' = [timed EXCEPT ![t] = [op \in Timable |-> 0]]
  /\ Done(t)
  /\ UNCHANGED <<method, scope, loop, crew, future, check, outcome>>

\* ChronoTimer::count, which ends a sample.  A sample shorter than the tick of
\* the clock adds nothing; at most MaxStill samples more than ticks do.
Count(t) ==
  /\ At(t, "count")
  /\ \E tick \in Ticks : /\ tick # 0 \/ samples[t] < elapsed[t] + MaxStill
                         /\ elapsed' = [elapsed EXCEPT ![t] = @ + tick]
  /\ samples' = [samples EXCEPT ![t] = @ + 1]
  /\ Done(t)
  /\ UNCHANGED <<method, scope, timed, count, crew, future, check, outcome>>

NewSubject(t) ==
  /\ At(t, "subjects")
  /\ subjects' = subjects + 1
  /\ Sees(t, "subjects", 1)
  /\ DoneIf(t, subjects + 1 = WantedSubjects)
  /\ UNCHANGED <<method, foos, linked, strays, loop, crew, future, check, outcome>>

\* A Subject dies, and with it the connections it knows of.
DropSubject(t) ==
  /\ At(t, "~subjects")
  /\ IF subjects = 0 THEN UNCHANGED <<subjects, timed>>
     ELSE subjects' = subjects - 1 /\ Sees(t, "~subjects", 1)
  /\ strays' = 0
  /\ DoneIf(t, subjects <= 1)
  /\ UNCHANGED <<method, foos, linked, loop, crew, future, check, outcome>>

NewFoo(t) ==
  /\ At(t, "foos")
  /\ foos' = [foos EXCEPT ![t] = @ + 1]
  /\ Sees(t, "foos", 1)
  /\ DoneIf(t, foos[t] + 1 = N)
  /\ UNCHANGED <<method, subjects, linked, strays, loop, crew, future, check, outcome>>

Connect(t) ==
  /\ At(t, "connect")
  /\ linked' = [linked EXCEPT ![t] = @ + 1]
  /\ Sees(t, "connect", 1)
  /\ DoneIf(t, linked[t] + 1 = foos[t])
  /\ UNCHANGED <<method, subjects, foos, strays, loop, crew, future, check, outcome>>

\* The first Foo of the vector dies, and its connection with it unless the
\* library forgets to disconnect.
DropFoo(t) ==
  /\ At(t, "~foos")
  /\ IF foos[t] = 0 THEN UNCHANGED <<foos, timed>>
     ELSE foos' = [foos EXCEPT ![t] = @ - 1] /\ Sees(t, "~foos", 1)
  /\ linked' = [linked EXCEPT ![t] = IF @ = 0 THEN 0 ELSE @ - 1]
  /\ strays' = IF "sticky" \in fault /\ linked[t] > 0 THEN strays + 1 ELSE strays
  /\ DoneIf(t, foos[t] <= 1)
  /\ UNCHANGED <<method, subjects, loop, crew, future, check, outcome>>

\* Mutant: the workers draw from the static generator too.
UsesStaticAlways(t) == TRUE

\* emission and combined draw from s_rng, the others from a generator of
\* their own.
UsesStatic(t) == t = Main /\ method # "validation"

\* The Foos of all threads that are connected to the Subject they share.
Connected == {v \in Threads \X (1..N) : v[2] <= linked[v[1]]}

\* emit_method calls the slots of everybody who is connected, the Foos of the
\* other workers among them; how a faulty library errs is left to Draw.
Emit(t) ==
  /\ At(t, "emit")
  /\ Sees(t, "emit", Cardinality(Connected))
  /\ Done(t)
  /\ UNCHANGED <<method, scope, loop, crew, future, check, outcome>>

\* The calls an emission may make, each of which draws from the generator.
Calls ==
  LET all == linked[Main] + strays IN
  {all} \cup (IF "loses" \in fault /\ all > 0 THEN {all - 1} ELSE {})
        \cup (IF "repeats" \in fault /\ all > 0 THEN {all + 1} ELSE {})

Draw(t) ==
  /\ At(t, "draw")
  /\ IF method = "validation"
     THEN \E calls \in Calls :
            /\ draws' = draws + calls
            /\ wrong' = wrong \cup (IF calls < linked[Main] THEN {"few"} ELSE {})
                              \cup (IF calls > linked[Main] THEN {"many"} ELSE {})
     ELSE UNCHANGED <<draws, wrong>>
  /\ Done(t)
  /\ UNCHANGED <<method, scope, timed, loop, crew, future, fault, outcome>>

\* Operations of a library and of the system that may fail.
MayThrow == {"subjects", "foos", "connect", "draw", "spawn"}

Throw(t) ==
  /\ \E op \in MayThrow : At(t, op)
  /\ Run(t, Unwind(t))
  /\ UNCHANGED <<method, scope, timed, loop, crew, future, check, outcome>>

-------------------------------------------------------------------------------
(* The threaded method *)

\* std::async starts the next worker, until the crew is complete.
Spawn ==
  /\ At(Main, "spawn")
  /\ IF Cardinality(Started) = crew THEN Done(Main) /\ UNCHANGED future
     ELSE LET w == Cardinality(Started) + 1 IN
          /\ future' = [future EXCEPT ![w] = "running"]
          /\ Run(w, Context)
  /\ UNCHANGED <<method, scope, timed, loop, crew, check, outcome>>

\* The worker copies s_rng and makes its timer.
Copy(t) ==
  /\ At(t, "copy")
  /\ Done(t)
  /\ UNCHANGED <<method, scope, timed, loop, crew, future, check, outcome>>

\* The worker returns its score, or its exception.
Finish(w) ==
  /\ At(w, "finish") \/ At(w, "fail")
  /\ future' = [future EXCEPT ![w] = IF At(w, "finish") THEN "value" ELSE "error"]
  /\ Run(w, <<>>)
  /\ UNCHANGED <<method, scope, timed, loop, crew, check, outcome>>

\* Mutant: an exception is swallowed.
GetAnyway ==
  /\ At(Main, "get")
  /\ LET left == {w \in Started : future[w] \notin {"taken", "lost"}} IN
     IF left = {} THEN Done(Main) /\ UNCHANGED future
     ELSE LET w == CHOOSE w \in left : \A v \in left : w <= v IN
          /\ future[w] \in {"value", "error"}
          /\ future' = [future EXCEPT ![w] = IF @ = "value" THEN "taken" ELSE "lost"]
          /\ UNCHANGED control
  /\ UNCHANGED <<method, scope, timed, loop, crew, check, outcome>>

\* future_result.get() in the order of the workers: it waits, and throws what
\* the worker has thrown.
Get ==
  /\ At(Main, "get")
  /\ LET left == {w \in Started : future[w] \notin {"taken", "lost"}} IN
     IF left = {} THEN Done(Main) /\ UNCHANGED future
     ELSE LET w == CHOOSE w \in left : \A v \in left : w <= v IN
          /\ future[w] \in {"value", "error"}
          /\ future' = [future EXCEPT ![w] = IF @ = "value" THEN "taken" ELSE "lost"]
          /\ IF future[w] = "error" THEN Run(Main, Unwind(Main)) ELSE UNCHANGED control
  /\ UNCHANGED <<method, scope, timed, loop, crew, check, outcome>>

\* Mutant: the destructor of a future does not wait.
JoinNobody ==
  /\ At(Main, "join")
  /\ Done(Main)
  /\ UNCHANGED <<method, scope, timed, loop, crew, future, check, outcome>>

\* The destructors of the futures of std::async wait for their workers.
Join ==
  /\ At(Main, "join")
  /\ \A w \in Workers : future[w] # "running"
  /\ Done(Main)
  /\ UNCHANGED <<method, scope, timed, loop, crew, future, check, outcome>>

-------------------------------------------------------------------------------
(* Results *)

\* calculate_score divides N by this quotient of integers.
PerSample(e, c) == e \div c

\* The results the main thread has collected.
Results == {w \in Workers : future[w] = "taken"}

\* A score as far as it is a number: the average of no results is 0.0 / 0.
Score ==
  IF method = "threaded"
  THEN IF Results = {} THEN "nan"
       ELSE IF \E w \in Results : PerSample(elapsed[w], count[w]) = 0 THEN "inf" ELSE "number"
  ELSE IF PerSample(elapsed[Main], count[Main]) = 0 THEN "inf" ELSE "number"

Return ==
  /\ At(Main, "return")
  /\ outcome' = Score
  /\ Done(Main)
  /\ UNCHANGED <<method, scope, timed, loop, crew, future, check>>

\* The generator against one that has discarded N draws a round.
Verdict ==
  /\ At(Main, "verdict")
  /\ outcome' = IF draws = N * (count[Main] - 1) THEN "passed" ELSE "failed"
  /\ Done(Main)
  /\ UNCHANGED <<method, scope, timed, loop, crew, future, check>>

\* The exception leaves the method.
Escape ==
  /\ At(Main, "throw")
  /\ outcome' = "thrown"
  /\ Done(Main)
  /\ UNCHANGED <<method, scope, timed, loop, crew, future, check>>

Step(t) ==
  \/ Loop(t) \/ Increment(t) \/ Reset(t) \/ Count(t)
  \/ NewSubject(t) \/ DropSubject(t) \/ NewFoo(t) \/ DropFoo(t)
  \/ Connect(t) \/ Emit(t) \/ Draw(t) \/ Throw(t)
  \/ t = Main /\ (Spawn \/ Get \/ Join \/ Return \/ Verdict \/ Escape)
  \/ t # Main /\ (Copy(t) \/ Finish(t))

Next == (\E m \in Methods : Call(m)) \/ CallStub \/ (\E t \in Threads : Step(t))

Spec == Init /\ [][Next]_vars

\* Every thread that runs is scheduled.
FairSpec == Spec /\ \A t \in Threads : WF_vars(Step(t))

-------------------------------------------------------------------------------
(* Properties *)

Running == {w \in Workers : future[w] = "running"}

\* "Must make sure Subject lives longer than Foo": no Foo of any thread is
\* alive without a Subject, and no worker runs without one, in no method and
\* on no path of an exception.
SubjectOutlivesFoos ==
  (\E t \in Threads : foos[t] > 0) \/ Running # {} => subjects > 0

\* A method leaves nothing behind, however it is left: no worker that still
\* runs into the next method, no Subject and no Foo.
LeavesNothing ==
  Idle => /\ Running = {}
          /\ subjects = 0
          /\ \A t \in Threads : foos[t] = 0

\* The static generator is not thread safe: nobody draws from it while
\* somebody else draws from it or copies it.
NoSharedDraws ==
  \A t, u \in Threads :
    t # u /\ At(t, "draw") /\ UsesStatic(t) =>
      ~At(u, "copy") /\ ~(At(u, "draw") /\ UsesStatic(u))

\* What the README's table of algorithms says is sampled, for one round of N.
Promised ==
  [construction |-> {"subjects"}, destruction |-> {"~subjects"}, connection |-> {"connect"},
   disconnect   |-> {"~foos"},    reconnect   |-> {"connect"},   emission   |-> {"emit"},
   combined     |-> {"connect", "emit", "~foos"},
   threaded     |-> {"connect", "emit", "~foos"}]

\* When a timer is read, it has seen exactly the operations the method is
\* named for, N or N * N of them per sample; the combined methods see
\* everything, from their first sample on.  An emission of `threaded` calls N
\* slots or more: the Foos of the other workers are connected too.
MeasuresWhatItSays ==
  \A t \in Threads : At(t, "count") =>
    LET units  == IF method \in {"construction", "destruction"} THEN N * N ELSE N
        rounds == IF method \in {"combined", "threaded"} THEN samples[t] + 1 ELSE 1
    IN  /\ \A op \in Promised[method] :
             IF method = "threaded" /\ op = "emit" THEN timed[t][op] >= units * rounds
                                                  ELSE timed[t][op] = units * rounds
        /\ method \notin {"combined", "threaded"} =>
             \A op \in Timable \ Promised[method] : timed[t][op] = 0

\* The counter is one ahead of the samples, and the quotient is an integer:
\* the sample that a score is of is no longer than the mean of the samples,
\* and longer than half of that mean less one tick.  It is 0, and the score
\* infinite, exactly when the mean is one tick or less.
ScoreWithinTwofold ==
  At(Main, "return") /\ method # "threaded" =>
    LET sample == PerSample(elapsed[Main], count[Main])
        taken  == samples[Main]
    IN  /\ sample * taken <= elapsed[Main]
        /\ elapsed[Main] < 2 * taken * (sample + 1)
        /\ sample = 0 <=> elapsed[Main] <= taken

\* A library fails only if one of its emissions made a wrong number of calls,
\* and passes in spite of one only if others err the other way; one whose
\* connections outlive their Foos passes only if it also makes too few calls,
\* or if the one dead Foo of a round was not called by chance.
ValidationDetects ==
  /\ outcome = "failed" => wrong # {}
  /\ outcome = "passed" => wrong \in {{}, {"few", "many"}}
  /\ outcome = "passed" /\ "sticky" \in fault => "few" \in wrong \/ (N = 1 /\ "loses" \in fault)

\* The score of `threaded` is the average of all workers, and not a number
\* only if there are none; an exception of a worker is never averaged away.
EveryWorkerCounts ==
  method = "threaded" /\ outcome \in {"number", "inf", "nan"} =>
    Results = 1..crew /\ (outcome = "nan" => crew = 0)

\* Every method comes to an end, also when workers and libraries throw.
MethodsReturn == ~Idle ~> Idle
===============================================================================
