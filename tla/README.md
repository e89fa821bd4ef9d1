# Verification of signal-slot-benchmarks

The repository compares signal and slot libraries for C++. It holds a benchmark
program, a feature-test program, adapters, and about forty vendored libraries.
The one library that is the authors' own is nano-signal-slot, and the benchmark
program uses its spin lock for its own threads. These modules model that
library, its lifetime protocol and its locks, the algorithms that measure a
library, and the program around them. `PROJECT.json` says which lines each
definition stands for.

## The system

| component | state | operations | what is hard | correct when |
|---|---|---|---|---|
| spin mutex (`nano_mutex.hpp`, `libfastsignals/spin_mutex.h`) | one atomic flag | `lock`, `unlock` | two threads in the gap between the load and the exchange; a flag left up | one thread inside, the flag is up exactly then, somebody gets in |
| tracker of `TS_Policy_Safe` (`nano_mutex.hpp`) | `shared_ptr` to itself, use count | `observed`, `visiting`, `before_disconnect_all` | a visit that begins while the destructor waits | nobody visits what is gone, the destructor returns once visits stop |
| delegate keys (`nano_function.hpp`, `nano_observer.hpp`) | two words per key | `Z_Order`, binary search, insert, erase | a comparison that is not an order corrupts the vector | the order is the Morton order, edits lose and invent nothing |
| `Observer` and `Signal` (`nano_observer.hpp`, `nano_signal_slot.hpp`) | sorted vector of connections on both ends, a mutex per object | `connect`, `disconnect`, `fire`, `fire_accumulate`, `disconnect_all`, `~Observer` | slots that call back, the two halves of a connection, two mutexes at once, objects that die during an emission | both ends agree, no iterator and no object is used after its end, every call returns |
| benchmark algorithms (`benchmark.hpp`) | Subject and Foos of a scope, a timer, a counter, the futures of the workers | the validation, eight timed methods, `calculate_score` | exceptions at any operation, workers on the Subject of another thread, a counter that is not the number of samples | nothing outlives its scope, every sample is of what the method is named for, no worker is lost |
| benchmark driver (`benchmark.cpp`, `benchmark_utility.hpp`) | `s_current_results`, `s_io_mutex`, `s_esc_pressed`, the standard input | validate, run a method, publish, copy, redraw, stop, report | the shared results, a method that throws, characters typed ahead, averages of nothing | nothing torn, nothing lost, complete reports, keys end the program |
| adapters (`benchmark/hpp`, `benchmark/cpp`) | none of their own | connect, emit, handler; a stub of `threaded` | libraries that are not thread safe | part of the algorithms |
| feature tests (`tests.cpp`, `tests/`) | an outcome per test and library | run in a child process, record an outcome | a child that crashes or exits early | not modelled |
| vendored libraries (`benchmark/lib/`) | one connection list each | connect, emit, disconnect | rcu list of cs_signal, safe list of obs, copy on write of sigslot | the environment of the algorithms |

How they interact. `Signal` derives from `Observer`, so a connection between a
signal and a member function of an observer is written in two vectors, each
guarded by the mutex of its object. An emission walks the signal's vector and
calls slots, which may call the library again on the same thread. A destructor
walks its own vector and edits the vectors of its peers. Under
`TS_Policy_Safe` a receiver is kept alive during its slot by the use count of
its tracker, for which its destructor waits. A benchmark method creates a
Subject and its Foos, connects and emits through the adapter of a library and
reads its timer; the driver calls the methods of all libraries one after the
other, catches what they throw, and publishes to the IO thread through
`s_io_mutex`, which is a `Nano::Spin_Mutex`.

## Modules

Abstract specifications:

- `AbstractLock`: at most one owner, taken from those that want the lock.
- `Lifetime`: an object is owned, released, expired, freed; visits can only
  begin before it has expired, and it expires only when nobody visits.

Detailed specifications:

- `SpinMutex`: `lock()` as its separate atomic steps (the load that sees the
  flag down, the exchange), for any set of threads. `TestFirst` selects the
  lock of nano-signal-slot or the one of libfastsignals, which has no load.
  Refines `AbstractLock`.
- `Tracker`: the use count of one object, any set of visitors, and the two
  nested loops of `before_disconnect_all`. Refines `Lifetime`.
- `DelegateVector`: `Z_Order` on words of `Bits` bits, the halving loops of
  `std::lower_bound` and `std::upper_bound` turn by turn, insert and erase on
  vectors. A word is the function of its bits, so that `<` and `^` are about
  the bits; `MCDelegateVector` has TLC compare them with those of integers.
- `NanoSignal`: the core. Every object has its vector, its mutex and its stage
  of life; every thread has a stack of calls, because a slot runs on top of the
  emission that called it. `Policy` selects one of the four policies of
  `nano_mutex.hpp`. Inside, keys are compared by a rank `Z`, which
  `DelegateVector` justifies, a mutex is taken and given back in one step each,
  which `SpinMutex` justifies, and the use count is the set of frames that hold
  a reference, which `Tracker` justifies.
- `BenchmarkMethods`: the validation and the eight timed methods of
  `benchmark.hpp`, each a script of operations in which the destructors at the
  end of a scope are written out, run by the main thread and by the workers of
  `threaded`; what a library does wrong or throws is the environment.
- `BenchmarkDriver`: the main thread, the IO thread and the input thread, from
  the first pause to the last, with the reports. Here a method is one step that
  returns or throws, which `BenchmarkMethods` justifies: a method leaves nothing
  behind, and always comes to an end.

`MC...` modules give the constants of each specification small values, and
`..._proofs` modules hold the theorems: `SpinMutex_proofs`, `Tracker_proofs`,
`BenchmarkMethods_proofs`, `BenchmarkDriver_proofs`, `DelegateVector_proofs`,
and, about `NanoSignal`, `NanoSignal_proofs`, `NanoLifetime_proofs` and
`NanoMemory_proofs`.

### How NanoSignal corresponds to the code

| action | code |
|---|---|
| `CallFromThread`, `CallFromSlot` | a client calls the library, from a thread or from a slot |
| `InsertHalf`, `RemoveHalf` | one critical section of `insert` or `remove`; `connect` and `disconnect` of a member function are two of them |
| `StartEmission` | `lock_guard`, `copy_or_ref`: by reference the mutex stays taken, by copy it is given back with the copy |
| `CallSlot`, `SkipSlot`, `SlotReturns` | the body of `for_each` |
| `EndEmission` | the end of `for_each`, or a slot that throws out of it: both give up the guard, the copy and the references (`EmissionOver`); a slot that made the emission may catch the exception or be left by it |
| `ResetTracker`, `Drained` | `before_disconnect_all` of `TS_Policy_Safe` |
| `StartSweep`, `VisitPeer`, `SkipPeer`, `RemovePeer`, `EndSweep` | `disconnect_all`, also as the second half of `~Observer` |

`fire_accumulate` is `fire`: what it does with the values does not touch the
library. The clients may do anything `TopCalls` and `SlotCalls` allow, subject
to `Permitted`: the objects a call names are alive when it begins, and nobody
destroys an object that another thread is naming in a call. These are the rules
of C++, not of the library. A step on a dead object is no step of the model:
`NoUseAfterFree` says that no thread gets to such a step. It is about memory: a
slot uses its observer until it returns, and the observer has to be there, at
least its `Observer` base. Whether the derived part is still there, whose member
the slot is, `SlotsOnWholeObservers` asks.

### How BenchmarkMethods corresponds to the code

| operation of a script | action | code |
|---|---|---|
| `"subjects"`, `"foos"` | `NewSubject`, `NewFoo` | one element of a vector is constructed; the vectors of `construction` and `destruction` hold N * N Subjects |
| `"~subjects"`, `"~foos"` | `DropSubject`, `DropFoo` | the end of a scope, in reverse order of the declarations: one element dies |
| `"connect"` | `Connect` | `connect_method` for one Foo |
| `"emit"`, `"draw"` | `Emit`, `Draw` | `emit_method`, which calls the connected Foos of all threads on the Subject (`Connected`): in `threaded` the workers share one; and the generator that the handlers call |
| `"reset"`, `"count"` | `Reset`, `Count` | `ChronoTimer`; the end of a sample adds to `elapsed` |
| `"loop"`, `"next"` | `Loop`, `Increment` | the condition and the increment of the `for` loop |
| `"return"`, `"verdict"` | `Return`, `Verdict` | `calculate_score`, `validation_assert` |
| `"spawn"`, `"get"`, `"join"` | `Spawn`, `Get`, `Join` | `std::async`, `future::get`, and the destructors of the futures, which wait |
| `"copy"`, `"finish"`, `"fail"` | `Copy`, `Finish` | the lambda of a worker: the generator it copies, its result or exception |
| any operation of a library, or `"spawn"` | `Throw` | an exception; `Unwind` is the script of the destructors it runs, and `"throw"` (`Escape`) where it leaves the method |

`Call` starts a method when the last one has been left, in any order and any
number of times; `CallStub` is the `threaded` of an adapter whose library is not
thread safe. Three faults of a library matter to the validation: it loses a
call, repeats a call, or keeps a connection of a Foo that has died (`"sticky"`).

### How BenchmarkDriver corresponds to the code

| action | code |
|---|---|
| `Type`, `Close` | the user types a character, which the next `std::cin.get()` takes, or ends the input |
| `Priority`, `Launch`, `Exit` | the three pauses of `main()` |
| `Validate`, `ValidationThrows` | `run_all_validation_tests`, which nobody guards against exceptions |
| `Again` | the `for` loop of `main()` |
| `RunAll` | `run_all_benchmarks` copies `s_current_results` under the lock |
| `BeginMethod`, `EndMethod`, `Throw` | `run_benchmark_class`: the entry is made, the method returns or throws a `std::exception` |
| `Abort` | it throws anything else, which nobody catches |
| `PostLock`, `PostAssign`, `Check` | `post_benchmark_method_update` |
| `KeyPressed`, `Redraw`, `Copy`, `Stop` | the input thread; the IO thread, which waits a second for it |
| `Join`, `Open`, `Table`, `Metrics`, `Plot` | the end: the future of the IO thread, and the reports, each to both streams |

Of a result the number of samples is kept, because an average of no samples is
not a number and a NaN as the key of a `std::map` is the same key as all others.
A sample can be a NaN itself: `threaded` averages nothing on a machine without
processors to spare. Which methods answer so, `Unscored` says. The maps are
ordered by the addresses of the names (their key is a `const char*`), which
`Order` gives; the compiler chooses it. Other scores are taken to be finite and
totals to be different from each other, and from that of a library that has only
results in brackets.

## Runs

| run | asks | result |
|---|---|---|
| `spin_nano` | does the lock exclude, refine the abstract lock, and let somebody in | holds, 6 threads |
| `tracker` | is the count exact, is nobody left, does a destructor return once visits stop | holds, 6 visitors |
| `delegate_vector` | is `Z_Order` the Morton order, do edits keep vectors sorted and complete | holds, all words of 2 bits, all vectors up to 4 |
| `threaded_ts` | the threaded benchmark under `TS_Policy`, slots that throw included: locks, iterators, memory, both ends, return | holds, 2 threads, 4 calls each; see below for what is unsafe here |
| `hostile_tss` | the same under `TS_Policy_Safe` with a slot that fires again and destroys the other observer, not its own; every object refines `Lifetime` | holds, 2 threads, 3 calls each |
| `whole_st` | every sequence of five calls of the interface under `ST_Policy`, no slot on two signals | holds |
| `reentrant_sts` | slots edit, fire and destroy the emitting signal under `ST_Policy_Safe`, and destroy no observer | holds, 6 calls |
| `methods` | the validation and the eight methods in any order, with up to two workers, exceptions at every operation and faulty libraries: scopes, workers, the generator, what is sampled, the score, the verdict, the end | holds, 2 Foos |
| `driver` | nothing torn, nothing shown is lost, the rows of the table, a fair plot, a key ends the program promptly | holds, 3 libraries, 3 methods, 2 sizes, one method may throw, one answers NaN |
| `shared_slot` | one slot on two signals | `NoUseAfterFree` fails |
| `tss_cross` | `disconnect_all` from both ends at once | `NoWaitCycle` fails |
| `half_destroyed` | an emission under `TS_Policy_Safe` while its receiver is destroyed | `SlotsOnWholeObservers` fails |

The three failures are in the code, and `PROJECT.json` quotes the line each
contradicts:

1. `remove()` erases every connection with the delegate key. An observer with
   one slot on two signals forgets both when one disconnects, and the other
   keeps calling it after its destruction.
2. `disconnect_all` takes the peer's mutex while it holds its own, so a signal
   and an observer that do it to each other wait for ever.
3. `~Observer` waits for its visitors, but runs after the destructor of the
   derived class. An emission of another thread still runs slots of the derived
   class in between.

What the code allows plainly, and no passing run therefore asks about:

- The README of the library says of `TS_Policy` (line 146) that it is not safe to
  destruct connected observers from different threads. The threaded benchmark
  does just that: every worker destroys its own Foos while the others emit from
  the Subject that all are connected to (`benchmark.hpp:214-228`, with `Nss_ts`).
  `threaded_ts` asks what is left then, and it is a good deal: an emission holds
  the mutex of the signal, for which `~Observer` has to wait, so that no memory is
  used after its end, both ends agree and every call returns. What is unsafe is
  what `half_destroyed` shows for `TS_Policy_Safe` and what holds for `TS_Policy`
  as well: slots run on observers of which only the base is left (TLC refutes
  `SlotsOnWholeObservers` with the clients of `threaded_ts` too). The handlers of
  the benchmark use nothing of the derived class. A sweep of both ends at once deadlocks under
  `TS_Policy` as it does in `tss_cross`.
- `connect` and `disconnect` edit the two ends in two critical sections. Two
  threads that connect and disconnect the same slot can leave an observer with
  a connection its signal does not have. In `threaded_ts` each thread has slots
  of its own.
- Under `TS_Policy_Safe` a slot that destroys its own observer waits for itself;
  under `ST_Policy_Safe` a slot that destroys another observer of the same
  emission leaves it in the copy. The client sets of `hostile_tss` and
  `reentrant_sts` stay clear of these.
- `run_benchmark_class` makes a method's entry before the method runs. If it
  throws the first time, the average is 0/0; and `threaded` without workers
  answers NaN. Either way the total of the library is a NaN, and as a key of the
  table it is the same as any other: it takes over the row of the library with
  the lowest total, or, when it comes first in the map, all later libraries fall
  into its row. `ReportsComplete` says how many rows this leaves, and that every
  library has its own as long as it does not happen.
- A library that throws in one run and not in another has another number of
  samples than the rest, and the plot adds them up without dividing.
  `PlotlyFair` is about the libraries that have not thrown.
- The table has nothing in it when the key was pressed before anything was
  measured. An exception of a validation, or one that is no `std::exception`,
  ends the program without a report. For `KeyEndsProgram` these are ends of the
  program like any other.
- `calculate_score` divides by a counter that is one ahead of the samples, and
  divides integers. `ScoreWithinTwofold` says how far off this is: the sample
  that the score is of lies between half of the mean less one tick of the clock
  and the mean, and it is 0, and the score infinite, exactly when the mean is no
  longer than a tick.
- The validation compares a number of draws, so that a lost call and a repeated
  one cancel: `ValidationDetects` says exactly what passes. With one Foo a round
  even a library that calls dead Foos can pass by losing exactly those calls;
  with two or more it has to lose one to a living Foo as well.
- In `threaded` all workers share one Subject. An emission of one calls the Foos
  of all, so that a worker is timed for N slot calls a sample or more:
  `MeasuresWhatItSays` asks for exactly N of everything but these.
- With one processor `threaded` has no worker and averages nothing:
  `EveryWorkerCounts` says that this is the only way to a NaN.

### Bounds

`MaxCalls` bounds the calls of a thread, and with it stacks and vectors. Three
calls are enough to connect, fire and destroy on one thread while the other
does the same or calls back from a slot; five are enough for two connections, a
disconnection, a destruction and an emission. One signal and two observers
suffice for the threaded scenarios because the signal is where threads meet;
the single-threaded run has two signals. Six threads at a spin lock allow a
waiter to be overtaken twice with others in between. Two-bit words make all
cases of the comparison happen: differing bits of the same, of a higher and of
a lower significance in either word.

In `methods` a vector of two Foos can be half built and half destroyed. A sample
takes no tick, one, or three, of which one is enough: a loop has one sample, or
more when the clock stands still, and the mean can be below a tick, a tick, and
above. Of two workers one can throw while the other runs, in either order of the
futures, and one emits while the other connects or drops its Foos. There is no
bound on the number of methods that are called.

In `driver`, `MaxSamples` only stops the counting of samples, of which zero or
not is what matters, and with `MaxAhead` two characters can wait at once, one for
a pause and one for a reader it was not meant for; each run repeats the sizes,
and there is no bound on the number of runs. The library that may throw stands
between two others, so that what follows it and what came before it can both be
lost. The one that answers NaN is run last, so that the table is complete until
then, and comes first in the map, so that its NaN takes all rows; the NaN of a
library that has thrown comes last.

### Fairness

A thread inside a library call or a slot keeps being scheduled: weak fairness
of its steps. Nobody is obliged to make a call. Weak fairness suffices for the
mutexes of `NanoSignal` since the calls that compete for them are finitely
many. In `SpinMutex` it gives only that somebody enters; a single waiter may
starve, and the code promises nothing else. In `Tracker` visits need not stop,
so the return of the destructor is stated for visits that do. In
`BenchmarkMethods` every thread that runs is scheduled (weak fairness of the
steps of each), and the clock stands still for at most `MaxStill` samples more
than it has moved ticks. The code does not guarantee this: on a clock too coarse
for a single sample the loops of `benchmark.hpp` never end, and `MethodsReturn`
is for clocks that do move. The main thread calls methods for ever. In `BenchmarkDriver` nobody is obliged to type: what is
promised, is promised to those who keep typing. The spin lock is fair to the
main thread (strong fairness of `PostLock` and `RunAll`) because the IO thread
holds it for one copy a second, and a wait that finds the key ready reports it
(strong fairness of `Stop`).

## Proofs

`SpinMutex_proofs`, for every set of threads and both locks: type correctness,
`MutualExclusion`, `NoOrphanedFlag` and the refinement of `AbstractLock`. The
inductive invariant adds to the exclusion that the flag is up exactly while
somebody is inside.

`Tracker_proofs`, for every finite set of visitors: type correctness,
`CountIsExact`, `NobodyLeft` and the refinement of `Lifetime`. The inductive
invariant ties the count to the set of visitors and says that an expired count
stays expired; the finiteness of the set of visitors is the assumption.

`DelegateVector_proofs`, for words of every width and vectors of every length.
`ZOrderIsMorton`: the highest bit at which two words differ decides `<` between
them (`Highest`, `BelowAt`); whether that bit is the instance's
(`InstanceLeads`) or the function's (`FunctionLeads`) decides which word
`Z_Order` looks at, and which bit of the Morton codes differs first. So the
comparison is a strict total order (`ZOrderTotal`), without which the standard
searches are undefined. The inductive invariant says that what a search has
passed lies on the right sides of the position searched (`SearchOK`), which a
turn of the loop keeps because the vector is sorted (`AheadBefore`); from it
follow `SortedByMorton` (`StaysSorted`) and, with lemmas about how often a key is
in a vector after an edit, `KeepsTheKeys` (`KeysAreKept`). With this `NanoSignal`
may take the rank of a key and the bounds of the searches as given: its `Z` is
the Morton code.

`NanoSignal_proofs`, for every policy, every set of threads and objects and
whatever the clients call: `TypeOK` (`TypeCorrect`) and `Sorted`
(`AlwaysSorted`). The two have to be proved together: the binary searches return
a position at all only on a sorted vector, and what an edit leaves is a sequence
of connections only if they do. The lemmas about the searches, insertion and
removal come first. The inductive invariant `Typed` adds `FramesOK`: which
program points each operation has, and that a loop that is inside a slot or an
edit of a peer stands at an element of its list. The assumptions are those of
the module: `Z` tells keys apart, only signals have connect, disconnect and
fire, and the single-threaded policies have one thread.

The same module has `LockDiscipline` (`MutexesHeldOnce`), and
`IteratorsStable` for the policies with mutexes (`LockedIteratorsStable`).
`LockDiscipline` is inductive once it is said call by call (`MutexOK`,
`OneHolder`) together with `Typed`; a vector is then only edited while nobody
holds its mutex or by the one call that does, as that call ends.

`NanoLifetime_proofs`: `VisitedStays` (`VisitedObjectsStay`), and that no
object is ever inside two destructors (`DestroyedOnce`). `VisitedStays` is not
inductive by itself: an object could be let go by a destructor that did not
wait. The invariant `LInv` says that every destructor in progress is at the
stage of its object (`StageOK`) and is the only one (`OneDestructor`), so that
the only step that lets an object go is `Drained`, which has seen that nobody
holds a reference, and `CallSlot` and `VisitPeer` take references only to
objects that have not gone. Here `Permitted` is used: a client destroys only
what is alive. From the same invariant follows, for `TS_Policy_Safe`, that every
object implements `Lifetime` (`LifetimesImplemented`): each step changes the
references to an object by at most the one of the frame on top
(`ContinueRefs`, `PushRefs`, `PopRefs`), which is a step of the abstract visitor
of that depth of that thread. The stacks are at most `MaxCalls` deep (`Depth`),
so that these visitors are a set given in advance.

`NanoMemory_proofs` is about the memory, of which the observer of a slot is a part
for as long as the slot runs. Under `TS_Policy_Safe` `NoUseAfterFree`
holds whatever clients and slots call (`CountedMemorySafe`). Under the other
policies it does not, as the violation runs show, and the benchmarks rely on
how they use the library. `Disciplined` in `NanoSignal` says how: a member slot
is connected to one signal only (`Home`); one thread (`Keeper`) connects and
disconnects it and destroys both its ends; and slots, where the policy emits
over the vector itself, only fire, and otherwise destroy no observer unless it
is counted. TLC evaluates (`SomeAreDisciplined` in `MCNanoSignal`) that the
clients of `threaded_ts`, `whole_st`, `reentrant_sts` and `half_destroyed` obey
it, and those of `hostile_tss`, `shared_slot` and `tss_cross` do not. For
disciplined clients, of any number and with calls in any order, are proved `NoUseAfterFree` (`DisciplinedMemorySafe`), `Mirrored`
(`DisciplinedMirrored`), `IteratorsStable` without the mutexes too
(`DisciplinedIteratorsStable`) and, when slots make no calls, `NoWaitCycle`
(`DisciplinedNoDeadlock`). The inductive invariant `Kept` has besides the above

- `HomeEntries`: a member slot is listed at its two ends only;
- `Halves`: the two ends list it equally often, except while its keeper is
  between the two halves of a connect or disconnect, or inside a sweep that has
  passed it. A disconnect or a sweep removes *all* the connections of a slot on
  the other side, so that this is about numbers and not about membership: it
  needs the lemmas at the head of the module about how often a slot is in a
  vector after `Inserted` and `Removed`, and that a sweep that meets a slot twice
  finds the other side empty the second time;
- `DeadEmpty`: what is dead is listed nowhere, which is why nobody is led to it;
- `Fires`: an emission over the vector itself sees it unchanged and has its
  signal, and without mutexes its receivers, for as long as it runs.

When slots make no calls, who holds a mutex and waits is in a sweep
(`HolderWaits`). Only the keeper of a connection sweeps either end of it, so that
whoever has the peer that the sweep waits for waits for nobody (`SweepWaits`),
and no chain of waits is longer than two (`WaitsEnd`).

`BenchmarkMethods_proofs`, for every test size, time limit, clock, number of
workers and set of faults:

- `SubjectOutlivesFoos` (`FoosInsideSubject`) and `LeavesNothing`
  (`NothingLeft`). In every script the places where Foos may be alive
  (`FoosSpan`) lie inside those where the Subject is complete (`SubjectSpan`).
  The lemmas `ShapeOf...` show, script by script, that both spans begin at a
  construction and end at a destruction, that no jump of a loop enters or leaves
  one, and that workers live inside the second (`Shaped`). The inductive
  invariant `InPlace` then says that Foos and Subjects are where the spans allow
  them, in the methods, in the workers and in the scripts of exceptions. That
  the vectors hold what was constructed needs no counting: a destructor is left
  only when nothing remains.
- `NoSharedDraws` (`GeneratorNotShared`) follows from `InPlace`: while a worker
  runs, the main thread is at its futures.
- `ScoreWithinTwofold` (`ScoreOfSamples`). `Paced` says that the counter is one
  ahead of the samples except between the end of a sample and the increment of
  the loop (`AfterSpan`), and that time passes only in samples, so that the loop
  ends with at least one; the rest is arithmetic (`OffByOne`), with the case in
  which the score is infinite.
- `EveryWorkerCounts` (`NobodyAveragedAway`). `Collected` says that `threaded`
  gets past its loop over the futures only with a result of every worker that
  was started, and past its start only with the whole crew.
- `ValidationDetects` and `MeasuresWhatItSays` need the numbers that the
  properties above do without. `Stocked` has them for every place of every
  script: how many Foos there are and how many are connected (`Filled`), which
  the lemmas about making and dropping one thing after another keep
  (`FilledMakes`, `FilledDrops`, `FilledStays`), whatever the other threads do
  (`StepStocked`).
- `ValidationDetects` (`FaultyLibrariesFail`). `Judging` relates the draws to
  those that are due in every place of a round: fewer if only too few calls were
  made, more if only too many, and the connections of dead Foos (`strays`)
  number N when the second emission counts them (`StraysCounted`). That N is
  more than one decides whether a library can hide them, which is why the
  property makes an exception of N = 1: the attempt to prove it without one
  failed, and TLC has the run in which the only dead Foo is not called.
- `MeasuresWhatItSays` (`TimersSeeWhatTheyName`). `FreshTimer` says what the
  timer of a method that resets it for every sample has seen at each place where
  it runs (`Windows`), `RoundTimer` what the timers of `combined` and of each
  worker have seen in each place of their loop: N of everything in the samples
  taken, and of the round under way what was done so far. The calls of slots in
  `threaded` are counted from below: those of the worker's own Foos are among
  those that `Connected` has.

`BenchmarkDriver_proofs`, for every list of libraries and methods, every number
of sizes and whatever may throw: `NoTornResults` (`NothingTorn`), from the
invariant that whoever is inside a critical section has the mutex (`Locked`);
`PromptExit` (`OneMoreMethod`), from where the main thread can be when it has
begun a method after the key (`Prompt`); and `ShownOnlyGrows`
(`NothingShownIsLost`), from the invariant that the results of the main thread
have everything the published ones have (`Grown`).

`PlotlyFair` and `ReportsComplete` are about a sum and a list that grow with the
methods and the libraries, and need induction over them. The library's induction
theorems cannot be applied, but a set of numbers that has 0 and with each number
the next is all of them (`SetInduction`, from the well-foundedness of `<`), and
with it the recursive functions `Sums` and `Rows` are shown to exist and to take
one step at a time (`SumsStep`, `RowsStep`).

- `PlotlyFair` (`DrawnFairly`). The libraries take turns: of two that have not
  thrown, one has one sample more of a method and size exactly when it comes
  before, and the other after, the position of the loops (`Turns`, `Even`). What a
  library has entered is always the first few methods (`InTurn`), so that as
  many counted methods are the same methods (`SameCounted`), and sums over the same
  methods, one apart in each, are at most as many apart as there are methods
  (`SumsApart`).
- `ReportsComplete` (`NothingLeftOut`). As long as nothing has thrown, a library
  is begun only when those before it have all their methods, and what has been
  entered has been measured, except by the method that runs (`Orderly`). So, when
  no method answers NaN, no key of the table is a NaN, at most one is that of a
  library without a total, and every library adds a row of its own (`OwnKeys`,
  `OwnRows`). The number of rows holds of any results, in no need of an invariant:
  `RowsFit` relates the rows after the first libraries of the map to their totals,
  and one more library keeps it, by what its total is (`RowsFitStep`). The metrics
  are in the invariant `Written`. The first part needs a method that counts for
  the total, and libraries and methods of different names, which
  `DriverAssumption` says.

Model-checked only: liveness (`SomebodyEnters`, `QuietDestructorReturns`,
`CallsReturn`, `MethodsReturn`, `KeyEndsProgram`), which the prover does not
reach; and `NoWaitCycle` of clients whose slots call the library. That the clients of a run are disciplined is
evaluated by TLC, for the clients there are.

## Not modelled

- Memory orders weaker than sequential consistency, except for the stale
  loads of the spin lock, which the model has already (see `SpinMutex`).
- Allocation in nano-signal-slot does not fail. An `emplace` that throws in the
  second half of `connect` would leave the first half behind, and one in the copy
  of `copy_or_ref` would leave `fire` before it has called anybody.
- Delegates of lambdas and functors are `Slots` without an owner; their
  construction and what they capture is not modelled.
- Values passed to slots, accumulated results, the layout of reports and the
  measured numbers themselves.
- The feature tests: each runs one small program in a child process and maps its
  exit code to a cell of a table, without state that lasts from one to the next.
- The vendored libraries (sigslot, cs_signal, obs, neolib, jl_signal and the
  others) are third-party code. The benchmark sees of them what
  `BenchmarkMethods` takes as environment: they may throw, and the validation
  meets those that lose, repeat or keep calls. Of libfastsignals only the spin
  lock is modelled, which is the one of nano-signal-slot without its load.
- What is particular to one adapter: names, and the calls into its library.
- Build files, results and documents.
