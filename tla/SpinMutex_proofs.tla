--------------------------- MODULE SpinMutex_proofs ---------------------------
(***************************************************************************)
(* What the spin locks guarantee for every number of threads, and that     *)
(* they implement the abstract lock.                                       *)
(***************************************************************************)
EXTENDS SpinMutex, TLAPS

\* The program counters and the flag keep their types.
LEMMA TypeInductive == TypeOK /\ [Next]_vars => TypeOK'
<1> SUFFICES ASSUME TypeOK, [Next]_vars PROVE TypeOK'
  OBVIOUS
<1> USE TestFirstAssumption DEF TypeOK, Goto, Entry
<1>1. ASSUME NEW t \in Threads, Call(t) PROVE TypeOK'
  BY <1>1 DEF Call
<1>2. ASSUME NEW t \in Threads, LoadFalse(t) PROVE TypeOK'
  BY <1>2 DEF LoadFalse
<1>3. ASSUME NEW t \in Threads, Exchange(t) PROVE TypeOK'
  BY <1>3 DEF Exchange
<1>4. ASSUME NEW t \in Threads, Unlock(t) PROVE TypeOK'
  BY <1>4 DEF Unlock
<1>5. CASE UNCHANGED vars
  BY <1>5 DEF vars
<1> QED
  BY <1>1, <1>2, <1>3, <1>4, <1>5 DEF Next, Lock

THEOREM Typing == Spec => []TypeOK
<1>1. Init => TypeOK
  BY DEF Init, TypeOK
<1> QED
  BY <1>1, TypeInductive, PTL DEF Spec

-------------------------------------------------------------------------------
\* The flag and the critical section tell the same story: together
\* MutualExclusion and NoOrphanedFlag are inductive, neither is alone.
Agreement == MutualExclusion /\ NoOrphanedFlag

LEMMA AgreementInductive == TypeOK /\ Agreement /\ [Next]_vars => Agreement'
<1> SUFFICES ASSUME TypeOK, Agreement, [Next]_vars PROVE Agreement'
  OBVIOUS
<1> USE DEF TypeOK, Agreement, MutualExclusion, NoOrphanedFlag, Goto, Entry
<1>1. ASSUME NEW t \in Threads, Call(t) PROVE Agreement'
  BY <1>1 DEF Call
<1>2. ASSUME NEW t \in Threads, LoadFalse(t) PROVE Agreement'
  BY <1>2 DEF LoadFalse
<1>3. ASSUME NEW t \in Threads, Exchange(t) PROVE Agreement'
  <2>1. CASE locked
    <3>1. PICK u \in Threads : pc[u] = "inside"
      BY <2>1
    <3>2. pc'[u] = "inside" /\ \A v \in Threads : pc'[v] = "inside" => pc[v] = "inside"
      BY <1>3, <2>1, <3>1 DEF Exchange
    <3> QED
      BY <1>3, <2>1, <3>1, <3>2 DEF Exchange
  <2>2. CASE ~locked
    BY <1>3, <2>2 DEF Exchange
  <2> QED
    BY <2>1, <2>2
<1>4. ASSUME NEW t \in Threads, Unlock(t) PROVE Agreement'
  BY <1>4 DEF Unlock
<1>5. CASE UNCHANGED vars
  BY <1>5 DEF vars
<1> QED
  BY <1>1, <1>2, <1>3, <1>4, <1>5 DEF Next, Lock

\* Two threads are never in the critical section together, and the flag is
\* never down while one is inside.
THEOREM Exclusion == Spec => []MutualExclusion
<1>1. Init => Agreement
  BY DEF Init, Agreement, MutualExclusion, NoOrphanedFlag
<1>2. Agreement => MutualExclusion
  BY DEF Agreement
<1> QED
  BY <1>1, <1>2, Typing, AgreementInductive, PTL DEF Spec

\* The flag is never left up by a thread whose exchange failed.
THEOREM FlagHasOwner == Spec => []NoOrphanedFlag
<1>1. Init => Agreement
  BY DEF Init, Agreement, MutualExclusion, NoOrphanedFlag
<1>2. Agreement => NoOrphanedFlag
  BY DEF Agreement
<1> QED
  BY <1>1, <1>2, Typing, AgreementInductive, PTL DEF Spec

-------------------------------------------------------------------------------
\* Every step of the spin lock is a step of the abstract lock or changes
\* nothing of it: the loads and the failed exchanges are invisible.
LEMMA StepRefines == TypeOK /\ Agreement /\ [Next]_vars => [Abstract!Next]_(Abstract!vars)
<1> SUFFICES ASSUME TypeOK, Agreement, [Next]_vars
             PROVE  [Abstract!Next]_(Abstract!vars)
  OBVIOUS
<1> USE TestFirstAssumption DEF Goto, Entry, Inside, Waiting, TypeOK
<1>1. ASSUME NEW t \in Threads, Call(t) PROVE Abstract!Request(t)
  BY <1>1 DEF Call, Abstract!Request
<1>2. ASSUME NEW t \in Threads, LoadFalse(t) PROVE UNCHANGED Abstract!vars
  BY <1>2 DEF LoadFalse, Abstract!vars
<1>3. ASSUME NEW t \in Threads, Exchange(t), locked PROVE UNCHANGED Abstract!vars
  BY <1>3 DEF Exchange, Abstract!vars
<1>4. ASSUME NEW t \in Threads, Exchange(t), ~locked PROVE Abstract!Acquire(t)
  <2>1. Inside = {}
    BY <1>4 DEF Agreement, MutualExclusion
  <2>2. Inside' = {t}
    BY <1>4, <2>1 DEF Exchange
  <2>3. t \in Waiting /\ Waiting' = Waiting \ {t}
    BY <1>4 DEF Exchange
  <2> QED
    BY <2>1, <2>2, <2>3 DEF Abstract!Acquire
<1>5. ASSUME NEW t \in Threads, Unlock(t) PROVE Abstract!Release(t)
  BY <1>5 DEF Unlock, Abstract!Release
<1>6. CASE UNCHANGED vars
  BY <1>6 DEF vars, Abstract!vars
<1> QED
  BY <1>1, <1>2, <1>3, <1>4, <1>5, <1>6 DEF Next, Lock, Abstract!Next

\* Both spin locks implement the abstract lock, for any set of threads.
THEOREM Refinement == Spec => ImplementsLock
<1>1. Init => Agreement /\ Abstract!Init
  BY DEF Init, Agreement, MutualExclusion, NoOrphanedFlag, Abstract!Init, Inside, Waiting
<1> QED
  BY <1>1, Typing, AgreementInductive, StepRefines, PTL DEF Spec, ImplementsLock, Abstract!Spec
===============================================================================
