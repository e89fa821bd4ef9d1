------------------------------ MODULE NanoSignal ------------------------------
(***************************************************************************)
(* nano-signal-slot: signals, observers and the threads that connect,      *)
(* disconnect, fire and destroy them (nano_signal_slot.hpp,                *)
(* nano_observer.hpp), under each of the four policies of nano_mutex.hpp:  *)
(*                                                                         *)
(*   "ST"   ST_Policy        one thread, emission over the live vector     *)
(*   "TS"   TS_Policy        a mutex, held during the whole emission       *)
(*   "STS"  ST_Policy_Safe   one thread, emission over a copy              *)
(*   "TSS"  TS_Policy_Safe   a mutex, released after the copy; receivers   *)
(*                           are locked by reference counting              *)
(*                                                                         *)
(* A signal is itself an observer: both keep a sorted vector of            *)
(* connections, and a connection of a member function is listed twice, by  *)
(* the signal and by the receiver.                                         *)
(*                                                                         *)
(* Every thread has a stack of calls, because a slot may call the library  *)
(* again.  What clients call is a parameter: TopCalls from the threads,    *)
(* SlotCalls from inside a slot, at most MaxCalls of them per thread.      *)
(***************************************************************************)
EXTENDS Naturals, FiniteSets, Sequences, SequencesExt

CONSTANTS
  Policy,                           \* one of the four above
  Threads,                          \* the threads of the program
  Signals, Foos,                    \* Nano::Signal objects and other observers
  Slots,                            \* delegate keys: (instance, function) pairs
  Owner,                            \* the observer a member slot belongs to; the
                                    \* slots outside its domain are functors
  Z,                                \* rank of a delegate key in the Z_Order
  TopCalls, SlotCalls,              \* what threads and slots may call
  MaxCalls                          \* calls a thread makes in all (a bound)

Objects == Signals \cup Foos

MemberSlots == DOMAIN Owner

Call == [op : {"connect", "disconnect", "fire", "disconnect_all", "destroy"},
         obj : Objects, slot : Slots \cup {"none"}]

ASSUME PolicyAssumption == Policy \in {"ST", "TS", "STS", "TSS"}

\* The single-threaded policies are for programs with one thread.
ASSUME ThreadsAssumption ==
  Policy \in {"ST", "STS"} => \A t, u \in Threads : t = u

ASSUME ObjectsAssumption ==
  /\ Signals \cap Foos = {}
  /\ "none" \notin Slots
  /\ MemberSlots \subseteq Slots
  /\ Owner \in [MemberSlots -> Foos]

\* Z_Order tells any two delegate keys apart (checked in ZOrder).
ASSUME OrderAssumption ==
  /\ Z \in [Slots -> Nat]
  /\ \A k, l \in Slots : Z[k] = Z[l] => k = l

\* Only signals have connect, disconnect and fire, and they need a slot.
ASSUME CallsAssumption ==
  /\ MaxCalls \in Nat
  /\ TopCalls \in [Threads -> SUBSET Call]
  /\ SlotCalls \in [Slots -> SUBSET Call]
  /\ \A c \in (UNION {TopCalls[t] : t \in Threads}) \cup (UNION {SlotCalls[k] : k \in Slots}) :
       /\ c.op \in {"connect", "disconnect", "fire"} => c.obj \in Signals
       /\ c.op \in {"connect", "disconnect"} <=> c.slot \in Slots

VARIABLES
  life,                             \* how far each object is towards its end
  connections,                      \* Observer::connections of each object
  mutex,                            \* {} or the thread that holds the mutex
  stack,                            \* the calls each thread is inside of
  budget                            \* calls each thread may still make

vars == <<life, connections, mutex, stack, budget>>

-------------------------------------------------------------------------------
(* Policies *)

Locks == Policy \in {"TS", "TSS"}   \* lock_guard() returns a real guard

\* Mutant: only TS_Policy_Safe copies the vector.
RefUnlessCounted == Policy # "TSS"

ByRef == Policy \in {"ST", "TS"}    \* copy_or_ref() returns a reference

Counted == Policy = "TSS"           \* Weak_Ptr is a std::weak_ptr

MutexFree(o) == Locks => mutex[o] = {}

Acquire(t, o) == mutex' = IF Locks THEN [mutex EXCEPT ![o] = {t}] ELSE mutex

Release(o) == mutex' = IF Locks THEN [mutex EXCEPT ![o] = {}] ELSE mutex

-------------------------------------------------------------------------------
(* The sorted vector *)

Connection == [slot : Slots, obs : Objects]

\* std::lower_bound and std::upper_bound with Z_Order, as the number of
\* elements before the iterator they return.  Both need a sorted range.
LowerBound(s, k) ==
  CHOOSE p \in 0..Len(s) : /\ \A i \in 1..p : Z[s[i].slot] < Z[k]
                           /\ \A i \in (p + 1)..Len(s) : Z[s[i].slot] >= Z[k]

UpperBound(s, k) ==
  CHOOSE p \in 0..Len(s) : /\ \A i \in 1..p : Z[s[i].slot] <= Z[k]
                           /\ \A i \in (p + 1)..Len(s) : Z[s[i].slot] > Z[k]

\* Mutant: push_back.
InsertedLast(s, k, o) == Append(s, [slot |-> k, obs |-> o])

\* insert: emplace at the upper bound, after the equal keys.
Inserted(s, k, o) == InsertAt(s, UpperBound(s, k) + 1, [slot |-> k, obs |-> o])

\* remove: erase the equal range, every connection with this key.
Removed(s, k) == SubSeq(s, 1, LowerBound(s, k)) \o SubSeq(s, UpperBound(s, k) + 1, Len(s))

-------------------------------------------------------------------------------
(* Calls in progress *)

\* list and idx are the range a loop runs over and its position; a loop by
\* reference runs over the vector itself, which list is then a record of.
Frame == [op : {"connect", "disconnect", "fire", "disconnect_all", "destroy"},
          obj : Objects,
          slot : Slots \cup {"none"},
          pc : {"self", "peer", "lock", "loop", "slot", "reset", "drain"},
          list : Seq(Connection),
          idx : Nat]

Top(t) == Last(stack[t])

Push(t, f) == stack' = [stack EXCEPT ![t] = Append(@, f)]

Pop(t) == stack' = [stack EXCEPT ![t] = Front(@)]

Continue(t, f) == stack' = [stack EXCEPT ![t] = Append(Front(@), f)]

Goto(t, pc) == Continue(t, [Top(t) EXCEPT !.pc = pc])

NextConnection(t) == Continue(t, [Top(t) EXCEPT !.pc = "loop", !.idx = @ + 1])

Current(f) == f.list[f.idx]

AtEnd(f) == f.idx > Len(f.list)

\* disconnect_all is also the second half of ~Observer.
Sweep == {"disconnect_all", "destroy"}

\* The objects the client's own expression names: they must stay alive.
Named(c) == {c.obj} \cup (IF c.slot \in MemberSlots THEN {Owner[c.slot]} ELSE {})

-------------------------------------------------------------------------------
(* Reference counts of TS_Policy_Safe *)

\* A Shared_Ptr lives from the test of the if statement to the end of its
\* body: during a slot, or during the removal from a peer.
HoldsRef(f) == f.op \in Sweep \cup {"fire"} /\ f.pc \in {"slot", "peer"}

Refs(o) ==
  {v \in UNION {{t} \X DOMAIN stack[t] : t \in Threads} :
     LET f == stack[v[1]][v[2]] IN HoldsRef(f) /\ Current(f).obs = o}

\* weak_ptr::lock() succeeds: the tracker is there, or somebody holds a
\* reference that keeps its control block alive after the reset.
Lockable(o) == life[o] \in {"alive", "dying"} \/ Refs(o) # {}

\* Mutants: the receiver is never locked; every peer is taken for oneself;
\* oneself is taken for a peer.
ObservedAlways(o) == TRUE

VisitingNobody(o, p) == FALSE

VisitingSelf(o, p) == Counted => Lockable(p)

Observed(o) == Counted => Lockable(o)

Visiting(o, p) == p # o /\ (Counted => Lockable(p))

-------------------------------------------------------------------------------
(* Memory *)

\* Mutant: the slot is recorded where its instance belongs.
SlotAsReceiver(s, k) == k

\* The observer that is recorded with a slot: its instance if that is an
\* observer too, the signal itself otherwise (insert_sfinae).
Receiver(s, k) == IF k \in MemberSlots THEN Owner[k] ELSE s

\* The object whose vector is edited next, and what it is told to remember.
Edited(f) == IF f.pc = "self" THEN f.obj ELSE Owner[f.slot]

Remembered(f) == IF f.pc = "self" THEN Receiver(f.obj, f.slot) ELSE f.obj

\* The objects whose memory the next step of a thread reads or writes.  The
\* emissions over a copy do not touch their signal again.  A member slot uses
\* its observer until it returns.
Touched(t) ==
  IF stack[t] = <<>> THEN {}
  ELSE LET f == Top(t) IN
    CASE f.op \in {"connect", "disconnect"} -> {Edited(f)}
      [] f.op = "fire" /\ f.pc = "lock"     -> {f.obj}
      [] f.op = "fire" /\ f.pc \in {"loop", "slot"} ->
           (IF ByRef THEN {f.obj} ELSE {}) \cup
           (IF f.pc = "slot" \/ (~AtEnd(f) /\ Observed(Current(f).obs))
            THEN {Receiver(f.obj, Current(f).slot)} \cap Foos ELSE {})
      [] f.op \in Sweep /\ f.pc = "peer"    -> {f.obj, Current(f).obs}
      [] OTHER                              -> {f.obj}

\* A step on a dead object is undefined behaviour and no step of this model:
\* NoUseAfterFree says that no thread ever gets there.
Defined(t) == \A o \in Touched(t) : life[o] # "dead"

\* The innermost call of a thread is one of these operations, at this point.
At(t, op, pc) == stack[t] # <<>> /\ Top(t).op \in op /\ Top(t).pc = pc /\ Defined(t)

Init ==
  /\ life = [o \in Objects |-> "alive"]
  /\ connections = [o \in Objects |-> <<>>]
  /\ mutex = [o \in Objects |-> {}]
  /\ stack = [t \in Threads |-> <<>>]
  /\ budget = [t \in Threads |-> MaxCalls]

-------------------------------------------------------------------------------
(* Calling the library *)

\* What a C++ client must see to: the objects it names are alive, and it does
\* not destroy an object that another thread is naming in a call.
Permitted(t, c) ==
  /\ \A o \in Named(c) : life[o] = "alive"
  /\ c.op = "destroy" =>
       \A u \in Threads \ {t} : \A i \in DOMAIN stack[u] : c.obj \notin Named(stack[u][i])

\* The first thing each operation does.
FirstPC(op) ==
  IF op \in {"connect", "disconnect"} THEN "self"
  ELSE IF op = "destroy" /\ Counted THEN "reset" ELSE "lock"

\* When ~Observer is entered the destructor of the derived class has run.
Begin(t, c) ==
  /\ budget[t] > 0
  /\ Permitted(t, c)
  /\ budget' = [budget EXCEPT ![t] = @ - 1]
  /\ life' = IF c.op = "destroy" THEN [life EXCEPT ![c.obj] = "dying"] ELSE life
  /\ Push(t, [op |-> c.op, obj |-> c.obj, slot |-> c.slot,
              pc |-> FirstPC(c.op), list |-> <<>>, idx |-> 1])
  /\ UNCHANGED <<connections, mutex>>

CallFromThread(t) == stack[t] = <<>> /\ \E c \in TopCalls[t] : Begin(t, c)

CallFromSlot(t) ==
  /\ At(t, {"fire"}, "slot")
  /\ \E c \in SlotCalls[Current(Top(t)).slot] : Begin(t, c)

-------------------------------------------------------------------------------
(* Signal::connect and Signal::disconnect *)

\* Mutant: the peer is never told.
OneHalf(t) == Pop(t)

\* The two halves of insert_sfinae and remove_sfinae are separate critical
\* sections; a functor or a free function has only the first.
HalfDone(t) ==
  IF Top(t).pc = "self" /\ Top(t).slot \in MemberSlots THEN Goto(t, "peer") ELSE Pop(t)

\* Observer::insert: lock, find, emplace, unlock.
InsertHalf(t) ==
  /\ \E pc \in {"self", "peer"} : At(t, {"connect"}, pc)
  /\ LET f == Top(t) IN
       /\ MutexFree(Edited(f))
       /\ connections' = [connections EXCEPT ![Edited(f)] = Inserted(@, f.slot, Remembered(f))]
  /\ HalfDone(t)
  /\ UNCHANGED <<life, mutex, budget>>

\* Observer::remove: lock, find, erase, unlock.
RemoveHalf(t) ==
  /\ \E pc \in {"self", "peer"} : At(t, {"disconnect"}, pc)
  /\ LET f == Top(t) IN
       /\ MutexFree(Edited(f))
       /\ connections' = [connections EXCEPT ![Edited(f)] = Removed(@, f.slot)]
  /\ HalfDone(t)
  /\ UNCHANGED <<life, mutex, budget>>

-------------------------------------------------------------------------------
(* Signal::fire and Signal::fire_accumulate: Observer::for_each *)

\* Mutants: the guard is a temporary that dies at once; the lock is not sunk
\* into the copy and nobody gives it back.
StartEmissionUnguarded(t) ==
  /\ At(t, {"fire"}, "lock")
  /\ MutexFree(Top(t).obj)
  /\ Continue(t, [Top(t) EXCEPT !.pc = "loop", !.list = connections[Top(t).obj]])
  /\ UNCHANGED <<life, connections, mutex, budget>>

StartEmissionUnsunk(t) ==
  /\ At(t, {"fire"}, "lock")
  /\ LET o == Top(t).obj IN
       /\ MutexFree(o)
       /\ Acquire(t, o)
       /\ Continue(t, [Top(t) EXCEPT !.pc = "loop", !.list = connections[o]])
  /\ UNCHANGED <<life, connections, budget>>

\* lock_guard(), copy_or_ref(): TS keeps the mutex, TSS sinks it into the copy.
StartEmission(t) ==
  /\ At(t, {"fire"}, "lock")
  /\ LET o == Top(t).obj IN
       /\ MutexFree(o)
       /\ IF ByRef THEN Acquire(t, o) ELSE UNCHANGED mutex
       /\ Continue(t, [Top(t) EXCEPT !.pc = "loop", !.list = connections[o]])
  /\ UNCHANGED <<life, connections, budget>>

\* observed() holds and the slot is entered.
CallSlot(t) ==
  /\ At(t, {"fire"}, "loop")
  /\ ~AtEnd(Top(t))
  /\ Observed(Current(Top(t)).obs)
  /\ Goto(t, "slot")
  /\ UNCHANGED <<life, connections, mutex, budget>>

\* The receiver has expired: its slot is skipped.
SkipSlot(t) ==
  /\ At(t, {"fire"}, "loop")
  /\ ~AtEnd(Top(t))
  /\ ~Observed(Current(Top(t)).obs)
  /\ NextConnection(t)
  /\ UNCHANGED <<life, connections, mutex, budget>>

SlotReturns(t) ==
  /\ At(t, {"fire"}, "slot")
  /\ NextConnection(t)
  /\ UNCHANGED <<life, connections, mutex, budget>>

\* The list is at its end, or a slot throws: the exception leaves for_each,
\* and the slot that has called it, if any, may catch it or throw it on.
EmissionOver(t) ==
  \/ At(t, {"fire"}, "loop") /\ AtEnd(Top(t))
  \/ At(t, {"fire"}, "slot")

\* Mutant: the mutex is given back only at the end of the list.
EndEmissionLocked(t) ==
  /\ EmissionOver(t)
  /\ IF ByRef /\ Top(t).pc = "loop" THEN Release(Top(t).obj) ELSE UNCHANGED mutex
  /\ Pop(t)
  /\ UNCHANGED <<life, connections, budget>>

\* The guard, the references and the copy are given up on both ways out.
EndEmission(t) ==
  /\ EmissionOver(t)
  /\ IF ByRef THEN Release(Top(t).obj) ELSE UNCHANGED mutex
  /\ Pop(t)
  /\ UNCHANGED <<life, connections, budget>>

-------------------------------------------------------------------------------
(* Observer::~Observer and Observer::disconnect_all *)

\* before_disconnect_all of TS_Policy_Safe: tracker.reset().
ResetTracker(t) ==
  /\ At(t, {"destroy"}, "reset")
  /\ life' = [life EXCEPT ![Top(t).obj] = "reset"]
  /\ Goto(t, "drain")
  /\ UNCHANGED <<connections, mutex, budget>>

\* Mutant: the destructor does not wait for its visitors.
DrainedAtOnce(t) ==
  /\ At(t, {"destroy"}, "drain")
  /\ life' = [life EXCEPT ![Top(t).obj] = "expired"]
  /\ Goto(t, "lock")
  /\ UNCHANGED <<connections, mutex, budget>>

\* before_disconnect_all returns: the last reference is gone (see Tracker).
Drained(t) ==
  /\ At(t, {"destroy"}, "drain")
  /\ Refs(Top(t).obj) = {}
  /\ life' = [life EXCEPT ![Top(t).obj] = "expired"]
  /\ Goto(t, "lock")
  /\ UNCHANGED <<connections, mutex, budget>>

StartSweep(t) ==
  /\ At(t, Sweep, "lock")
  /\ LET o == Top(t).obj IN
       /\ MutexFree(o)
       /\ Acquire(t, o)
       /\ Continue(t, [Top(t) EXCEPT !.pc = "loop", !.list = connections[o]])
  /\ UNCHANGED <<life, connections, budget>>

\* visiting() yields the peer: the sweep goes on to its remove().
VisitPeer(t) ==
  /\ At(t, Sweep, "loop")
  /\ ~AtEnd(Top(t))
  /\ Visiting(Top(t).obj, Current(Top(t)).obs)
  /\ Goto(t, "peer")
  /\ UNCHANGED <<life, connections, mutex, budget>>

\* The connection is the object's own, or its peer has expired.
SkipPeer(t) ==
  /\ At(t, Sweep, "loop")
  /\ ~AtEnd(Top(t))
  /\ ~Visiting(Top(t).obj, Current(Top(t)).obs)
  /\ NextConnection(t)
  /\ UNCHANGED <<life, connections, mutex, budget>>

\* The peer's remove(), under the peer's own mutex and still under ours.
RemovePeer(t) ==
  /\ At(t, Sweep, "peer")
  /\ LET e == Current(Top(t)) IN
       /\ MutexFree(e.obs)
       /\ connections' = [connections EXCEPT ![e.obs] = Removed(@, e.slot)]
  /\ NextConnection(t)
  /\ UNCHANGED <<life, mutex, budget>>

\* connections.clear(); a destructor then gives the memory back.
EndSweep(t) ==
  /\ At(t, Sweep, "loop")
  /\ AtEnd(Top(t))
  /\ LET o == Top(t).obj IN
       /\ connections' = [connections EXCEPT ![o] = <<>>]
       /\ Release(o)
       /\ life' = IF Top(t).op = "destroy" THEN [life EXCEPT ![o] = "dead"] ELSE life
  /\ Pop(t)
  /\ UNCHANGED budget

-------------------------------------------------------------------------------
(* Whole program *)

\* The steps the library and the slots owe once a call has begun.
Step(t) ==
  \/ InsertHalf(t) \/ RemoveHalf(t)
  \/ StartEmission(t) \/ CallSlot(t) \/ SkipSlot(t) \/ SlotReturns(t) \/ EndEmission(t)
  \/ ResetTracker(t) \/ Drained(t)
  \/ StartSweep(t) \/ VisitPeer(t) \/ SkipPeer(t) \/ RemovePeer(t) \/ EndSweep(t)

Quiet == \A t \in Threads : stack[t] = <<>>

\* No call is in progress and the clients make no more.
Rest == Quiet /\ UNCHANGED vars

Next == (\E t \in Threads : CallFromThread(t) \/ CallFromSlot(t) \/ Step(t)) \/ Rest

Spec == Init /\ [][Next]_vars

\* A thread inside the library or inside a slot keeps being scheduled, and a
\* slot that makes no more calls returns.  Weak fairness is enough for the
\* mutexes because the calls that compete for them are finitely many.
FairSpec == Spec /\ \A t \in Threads : WF_vars(Step(t))

-------------------------------------------------------------------------------
(* Properties *)

TypeOK ==
  /\ life \in [Objects -> {"alive", "dying", "reset", "expired", "dead"}]
  /\ connections \in [Objects -> Seq(Connection)]
  /\ mutex \in [Objects -> SUBSET Threads]
  /\ stack \in [Threads -> Seq(Frame)]
  /\ budget \in [Threads -> Nat]

\* The vectors stay sorted by Z_Order whatever the clients do: the binary
\* searches of insert and remove are undefined on any other vector.
Sorted ==
  \A o \in Objects : \A i, j \in DOMAIN connections[o] :
    i < j => Z[connections[o][i].slot] <= Z[connections[o][j].slot]

\* The loops that hold the mutex of their object while they run.
Holds(f, o) ==
  /\ Locks /\ f.obj = o
  /\ \/ f.op = "fire" /\ ByRef /\ f.pc \in {"loop", "slot"}
     \/ f.op \in Sweep /\ f.pc \in {"loop", "peer"}

\* A mutex is held by exactly one call of exactly one thread, and by none
\* when it is free: every path through the library gives back what it took.
LockDiscipline ==
  \A o \in Objects :
    LET holders == {v \in UNION {{t} \X DOMAIN stack[t] : t \in Threads} :
                      Holds(stack[v[1]][v[2]], o)}
    IN  /\ mutex[o] = {v[1] : v \in holders}
        /\ \A v, w \in holders : v = w

\* The loops that run over the vector itself.
InPlace(f) == \/ f.op = "fire" /\ ByRef /\ f.pc \in {"loop", "slot"}
              \/ f.op \in Sweep /\ f.pc \in {"loop", "peer"}

\* No vector changes under a loop that runs over it by reference: for_each of
\* the policies without copies and disconnect_all keep valid iterators.
IteratorsStable ==
  \A t \in Threads : \A i \in DOMAIN stack[t] :
    LET f == stack[t][i] IN InPlace(f) => connections[f.obj] = f.list

\* No step of any thread touches an object whose memory is gone: the signal it
\* emits over, the peer it edits, or the observer of a slot while the slot runs.
\* Whether the derived part of that observer is still there is another question
\* (SlotsOnWholeObservers).
NoUseAfterFree == \A t \in Threads : Defined(t)

\* While TS_Policy_Safe runs a slot or edits a peer, that object stays.
VisitedStays ==
  Counted => \A o \in Objects : life[o] \in {"expired", "dead"} => Refs(o) = {}

\* A slot runs only on an observer whose destruction has not begun: from then
\* on the derived class, which the slot is a member of, is gone.
SlotsOnWholeObservers ==
  \A t \in Threads : \A i \in DOMAIN stack[t] :
    LET f == stack[t][i] IN
    f.op = "fire" /\ f.pc = "slot" /\ Current(f).slot \in MemberSlots =>
      life[Owner[Current(f).slot]] = "alive"

Count(s, k, o) == Cardinality({i \in DOMAIN s : s[i] = [slot |-> k, obs |-> o]})

\* When no call is in progress both sides of every member connection agree
\* on it, and no living object remembers a dead one: the two halves of
\* connect and disconnect are never left apart.
Mirrored ==
  Quiet => \A o \in Objects : life[o] = "alive" =>
    \A i \in DOMAIN connections[o] :
      LET e == connections[o][i] IN
      e.obs # o => /\ life[e.obs] = "alive"
                   /\ Count(connections[o], e.slot, e.obs) = Count(connections[e.obs], e.slot, o)

\* Whom a thread waits for: the holder of the mutex it needs, or the visitors
\* of the object it destroys.
WaitsFor(t) ==
  IF stack[t] = <<>> THEN {}
  ELSE LET f == Top(t) IN
    CASE f.op \in {"connect", "disconnect"} -> mutex[Edited(f)]
      [] f.pc = "lock"                      -> mutex[f.obj]
      [] f.op \in Sweep /\ f.pc = "peer"    -> mutex[Current(f).obs]
      [] f.pc = "drain"                     -> {v[1] : v \in Refs(f.obj)}
      [] OTHER                              -> {}

\* Threads never wait for one another in a circle, nor for themselves.
NoWaitCycle ==
  \A w \in (SUBSET Threads) \ {{}} : \E t \in w : WaitsFor(t) \cap w = {}

\* Every call returns.
CallsReturn == \A t \in Threads : stack[t] # <<>> ~> stack[t] = <<>>

\* The phases of the abstract lifetime.
Phase(o) ==
  IF life[o] \in {"alive", "dying"} THEN "owned"
  ELSE IF life[o] = "reset" THEN "released"
  ELSE IF life[o] = "expired" THEN "expired" ELSE "freed"

Lifetime(o) == INSTANCE Lifetime WITH
  Visitors <- Threads \X (1..MaxCalls), phase <- Phase(o), visiting <- Refs(o)

\* Every object lives and dies as the abstract lifetime says: this is
\* \A o \in Objects : Lifetime(o)!Spec, with the quantifier inside the box.
ImplementsLifetime ==
  /\ \A o \in Objects : Lifetime(o)!Init
  /\ [][\A o \in Objects : [Lifetime(o)!Next]_(Lifetime(o)!vars)]_vars

-------------------------------------------------------------------------------
(* Clients *)

Ends(Home, k) == {Home[k], Owner[k]}

\* How the benchmarks use the library, in general: every member slot k belongs
\* to one signal, Home[k], one thread, Keeper[k], connects and disconnects it
\* and destroys what it connects, and slots do no more than the policy bears.
Disciplined(Home, Keeper) ==
  /\ \A t \in Threads :
       \A c \in TopCalls[t] \cup UNION {SlotCalls[k] : k \in Slots} : \A k \in MemberSlots :
         /\ c.op \in {"connect", "disconnect"} /\ c.slot = k => c.obj = Home[k] /\ t = Keeper[k]
         /\ c.op \in Sweep /\ c.obj \in Ends(Home, k) => t = Keeper[k]
  /\ \A k \in Slots : \A c \in SlotCalls[k] :
       /\ Policy \in {"ST", "TS"} => c.op = "fire"
       /\ c.op = "destroy" /\ c.obj \in Foos => Counted
===============================================================================
