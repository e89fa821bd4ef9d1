-------------------------------- MODULE Tracker --------------------------------
(***************************************************************************)
(* The lifetime protocol of Nano::TS_Policy_Safe (nano_mutex.hpp) for one  *)
(* object: a shared_ptr `tracker` that owns nothing but itself, the        *)
(* weak_ptr copies that connections keep of it, and the destructor that    *)
(* resets the tracker and spins until the last visitor has gone.           *)
(*                                                                         *)
(* shared_ptr and weak_ptr are the standard library's: `refs` is the use   *)
(* count of the control block, kept beside the holders it counts; lock()   *)
(* is one atomic step that fails at zero.  A visitor's own steps are a     *)
(* lock() (observed or visiting), the visit, and the release of the        *)
(* reference at the end of the if statement.                               *)
(***************************************************************************)
EXTENDS Naturals, FiniteSets

CONSTANT Visitors                   \* threads that emit to, or sweep, the object

ASSUME VisitorsAssumption == IsFiniteSet(Visitors)

VARIABLES tracker,                  \* the object still holds its own reference
          refs,                     \* use count of the control block
          at,                       \* where each visitor is: "away" or "visiting"
          dtor                      \* where the destructor is

vars == <<tracker, refs, at, dtor>>

Init ==
  /\ tracker = TRUE
  /\ refs = 1
  /\ at = [v \in Visitors |-> "away"]
  /\ dtor = "alive"

\* Mutant: the reference is taken without looking at the count.
BlindVisit(v) ==
  /\ at[v] = "away"
  /\ at' = [at EXCEPT ![v] = "visiting"]
  /\ refs' = refs + 1
  /\ UNCHANGED <<tracker, dtor>>

\* Mutant: the visitor keeps a plain pointer, which is not counted.
UncountedVisit(v) ==
  /\ at[v] = "away"
  /\ refs # 0
  /\ at' = [at EXCEPT ![v] = "visiting"]
  /\ UNCHANGED <<tracker, refs, dtor>>

\* observer.lock() of observed() or visiting() succeeds.  When it fails the
\* slot is skipped and nothing changes.
Visit(v) ==
  /\ at[v] = "away"
  /\ refs # 0
  /\ at' = [at EXCEPT ![v] = "visiting"]
  /\ refs' = refs + 1
  /\ UNCHANGED <<tracker, dtor>>

\* The Shared_Ptr of the visit goes out of scope.
Leave(v) ==
  /\ at[v] = "visiting"
  /\ at' = [at EXCEPT ![v] = "away"]
  /\ refs' = refs - 1
  /\ UNCHANGED <<tracker, dtor>>

\* ~Observer enters before_disconnect_all: ping is a weak_ptr, which does not
\* count; then the tracker is reset.
Reset ==
  /\ dtor = "alive"
  /\ dtor' = "ping"
  /\ tracker' = FALSE
  /\ refs' = refs - 1
  /\ UNCHANGED at

\* Mutant: the destructor looks at the count once and does not wait.
ImpatientExpired ==
  /\ dtor = "ping"
  /\ dtor' = "lock"
  /\ UNCHANGED <<tracker, refs, at>>

\* ping.expired() answers true and the inner loop is left.
Expired ==
  /\ dtor = "ping"
  /\ refs = 0
  /\ dtor' = "lock"
  /\ UNCHANGED <<tracker, refs, at>>

\* Mutant: the outer loop is read as a do-while that runs while ping is dead.
PingAgain ==
  /\ dtor = "lock"
  /\ dtor' = IF refs # 0 THEN "disconnect" ELSE "ping"
  /\ UNCHANGED <<tracker, refs, at>>

\* The condition of the outer loop, ping.lock(): a reference obtained here
\* would be dropped at once and the loop entered again.
PingLock ==
  /\ dtor = "lock"
  /\ dtor' = IF refs # 0 THEN "ping" ELSE "disconnect"
  /\ UNCHANGED <<tracker, refs, at>>

\* disconnect_all() has run and the memory of the object is released.
Free ==
  /\ dtor = "disconnect"
  /\ dtor' = "freed"
  /\ UNCHANGED <<tracker, refs, at>>

Destructor == Expired \/ PingLock \/ Free

Next ==
  \/ \E v \in Visitors : Visit(v) \/ Leave(v)
  \/ Reset \/ Destructor

\* A visit ends and a destructor that has begun keeps being scheduled; nobody
\* is obliged to visit and nobody is obliged to destroy the object.
Fairness == WF_vars(Destructor) /\ \A v \in Visitors : WF_vars(Leave(v))

Spec == Init /\ [][Next]_vars

FairSpec == Spec /\ Fairness

-------------------------------------------------------------------------------
Present == {v \in Visitors : at[v] = "visiting"}

Phase ==
  IF dtor = "alive" THEN "owned"
  ELSE IF dtor = "ping" THEN "released"
  ELSE IF dtor = "freed" THEN "freed" ELSE "expired"

Abstract == INSTANCE Lifetime WITH phase <- Phase, visiting <- Present

TypeOK ==
  /\ tracker \in BOOLEAN
  /\ refs \in Nat
  /\ at \in [Visitors -> {"away", "visiting"}]
  /\ dtor \in {"alive", "ping", "lock", "disconnect", "freed"}

\* The use count counts the tracker and the visitors, no more and no less.
CountIsExact == refs = Cardinality(Present) + (IF tracker THEN 1 ELSE 0)

\* Once the destructor has left the inner loop nobody visits the object: the
\* memory goes away under nobody's feet, and ping.lock() (the outer loop)
\* never finds a reference, because an expired control block stays expired.
NobodyLeft == dtor \in {"lock", "disconnect", "freed"} => refs = 0 /\ Present = {}

\* The protocol keeps the abstract promise.
ImplementsLifetime == Abstract!Spec

\* If visits stop starting, a destructor that has begun gets through.  While
\* they keep overlapping it need not: a visit that starts after the reset still
\* finds the object lockable if an earlier one lingers.
QuietDestructorReturns ==
  <>[][\A v \in Visitors : ~Visit(v)]_vars => (dtor = "ping" ~> dtor = "freed")
===============================================================================
