------------------------------- MODULE SpinMutex -------------------------------
(***************************************************************************)
(* The two spin locks of the repository.                                   *)
(*                                                                         *)
(*   TestFirst = TRUE   Nano::Spin_Mutex (nano_mutex.hpp): test and        *)
(*                      test-and-set, an inner loop of relaxed loads       *)
(*                      followed by an atomic exchange.                    *)
(*   TestFirst = FALSE  is::signals::detail::spin_mutex (spin_mutex.h):    *)
(*                      test_and_set in a loop, no load before it.         *)
(*                                                                         *)
(* Nano::Spin_Mutex is the default mutex of both thread-safe policies of   *)
(* nano-signal-slot and the s_io_mutex of the benchmark driver.            *)
(*                                                                         *)
(* A relaxed load may be answered with an older value of the flag.  A      *)
(* stale TRUE only delays the thread, and a stale FALSE only sends it to   *)
(* the exchange, where it is told the truth: both are already possible     *)
(* here because the load and the exchange are separate steps.              *)
(***************************************************************************)
CONSTANTS Threads,                  \* the threads that share the mutex
          TestFirst                 \* which of the two locks (see above)

ASSUME TestFirstAssumption == TestFirst \in BOOLEAN

VARIABLES locked,                   \* std::atomic_bool locked / atomic_flag m_busy
          pc                        \* where each thread is with respect to the lock

vars == <<locked, pc>>

\* Where lock() starts: the load of the inner loop, or the exchange.
Entry == IF TestFirst THEN "load" ELSE "exchange"

Init ==
  /\ locked = FALSE
  /\ pc = [t \in Threads |-> "outside"]

Goto(t, from, to) ==
  /\ pc[t] = from
  /\ pc' = [pc EXCEPT ![t] = to]

\* A thread calls lock().
Call(t) ==
  /\ Goto(t, "outside", Entry)
  /\ UNCHANGED locked

\* locked.load(relaxed) answers false and the inner loop is left.  While it
\* answers true the thread yields and reads again, which changes nothing.
LoadFalse(t) ==
  /\ ~locked
  /\ Goto(t, "load", "exchange")
  /\ UNCHANGED locked

\* Mutant: the exchange is taken for a plain store, its result is ignored.
ExchangeIgnored(t) ==
  /\ Goto(t, "exchange", "inside")
  /\ locked' = TRUE

\* locked.exchange(true, acquire) / m_busy.test_and_set(acquire): one atomic
\* step that sets the flag and tells what it was.
Exchange(t) ==
  /\ locked' = TRUE
  /\ IF locked THEN Goto(t, "exchange", Entry) ELSE Goto(t, "exchange", "inside")

\* Mutant: unlock() returns without the store.
UnlockNoStore(t) ==
  /\ Goto(t, "inside", "outside")
  /\ UNCHANGED locked

\* unlock(): the release store of false.
Unlock(t) ==
  /\ Goto(t, "inside", "outside")
  /\ locked' = FALSE

Lock(t) == LoadFalse(t) \/ Exchange(t)

Next == \E t \in Threads : Call(t) \/ Lock(t) \/ Unlock(t)

\* Scheduling: a thread inside lock() or inside its critical section keeps
\* being scheduled (the critical sections of this code are finite); nothing
\* obliges a thread to ask for the lock.
Fairness == \A t \in Threads : WF_vars(Lock(t)) /\ WF_vars(Unlock(t))

Spec == Init /\ [][Next]_vars

FairSpec == Spec /\ Fairness

-------------------------------------------------------------------------------
\* Mapping to the abstract lock.
Inside == {t \in Threads : pc[t] = "inside"}

Waiting == {t \in Threads : pc[t] \in {"load", "exchange"}}

Abstract == INSTANCE AbstractLock WITH owner <- Inside, wanting <- Waiting

TypeOK ==
  /\ locked \in BOOLEAN
  /\ pc \in [Threads -> {"outside", "load", "exchange", "inside"}]

\* Two threads are never between lock() and unlock() together, and while the
\* flag is down nobody is: the data races the callers rely on being excluded
\* (the connections of a Nano::Observer, s_current_results, m_ids) need both.
MutualExclusion ==
  /\ \A t, u \in Threads : pc[t] = "inside" /\ pc[u] = "inside" => t = u
  /\ ~locked => \A t \in Threads : pc[t] # "inside"

\* The flag is up only while somebody is inside: a failed exchange stores
\* true over true and must never leave the lock taken with no owner, which
\* would make every later lock() spin for ever.
NoOrphanedFlag == locked => \E t \in Threads : pc[t] = "inside"

\* The spin lock is an implementation of the abstract lock.
ImplementsLock == Abstract!Spec

\* Lock-freedom: while threads wait, somebody keeps entering.  Nothing
\* stronger holds: one particular waiter may lose every race.
SomebodyEnters ==
  (\E t \in Threads : pc[t] \in {"load", "exchange"}) ~> (\E t \in Threads : pc[t] = "inside")
===============================================================================
