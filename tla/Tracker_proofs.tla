---------------------------- MODULE Tracker_proofs ----------------------------
(***************************************************************************)
(* The lifetime protocol of TS_Policy_Safe is right for any number of      *)
(* visitors: what is freed is not being visited, and the protocol          *)
(* implements the abstract lifetime.                                       *)
(***************************************************************************)
EXTENDS Tracker, FiniteSetTheorems, TLAPS

\* The tracker is held exactly until the reset.
TrackerHeld == tracker <=> dtor = "alive"

\* The inductive invariant.  The count must be exact to know that zero means
\* nobody, and the phases after the inner loop must imply zero to know that
\* no lock() succeeds any more.
IInv == TypeOK /\ TrackerHeld /\ CountIsExact /\ NobodyLeft

\* The visitors are finitely many, so that counting them makes sense.
LEMMA PresentFinite == IsFiniteSet(Present) /\ Cardinality(Present) \in Nat
BY VisitorsAssumption, FS_Subset, FS_CardinalityType DEF Present

\* One more visitor counts one more, one fewer counts one fewer.
LEMMA CountAfterVisit ==
  ASSUME TypeOK, NEW v \in Visitors, at[v] = "away", at' = [at EXCEPT ![v] = "visiting"]
  PROVE  /\ Present' = Present \cup {v}
         /\ Cardinality(Present') = Cardinality(Present) + 1
<1>1. Present' = Present \cup {v} /\ v \notin Present
  BY DEF TypeOK, Present
<1> QED
  BY <1>1, PresentFinite, FS_AddElement

LEMMA CountAfterLeave ==
  ASSUME TypeOK, NEW v \in Visitors, at[v] = "visiting", at' = [at EXCEPT ![v] = "away"]
  PROVE  /\ Present' = Present \ {v}
         /\ Cardinality(Present') = Cardinality(Present) - 1
         /\ Cardinality(Present) # 0
<1>1. Present' = Present \ {v} /\ v \in Present
  BY DEF TypeOK, Present
<1>2. Cardinality(Present') = Cardinality(Present) - 1
  BY <1>1, PresentFinite, FS_RemoveElement
<1>3. Cardinality(Present) # 0
  BY <1>1, PresentFinite, FS_EmptySet
<1> QED
  BY <1>1, <1>2, <1>3

LEMMA InitIInv == Init => IInv
<1> SUFFICES ASSUME Init PROVE IInv
  OBVIOUS
<1>1. Present = {} /\ Cardinality(Present) = 0
  BY FS_EmptySet DEF Init, Present
<1> QED
  BY <1>1 DEF Init, IInv, TypeOK, TrackerHeld, CountIsExact, NobodyLeft

LEMMA IInvInductive == IInv /\ [Next]_vars => IInv'
<1> SUFFICES ASSUME IInv, [Next]_vars PROVE IInv'
  OBVIOUS
<1> USE DEF IInv, TypeOK, TrackerHeld, CountIsExact, NobodyLeft
<1>0. Cardinality(Present) \in Nat /\ (Cardinality(Present) = 0 <=> Present = {})
  BY PresentFinite, FS_EmptySet
<1>1. ASSUME NEW v \in Visitors, Visit(v) PROVE IInv'
  <2>1. Cardinality(Present') = Cardinality(Present) + 1
    BY <1>1, CountAfterVisit DEF Visit
  <2> QED
    BY <1>0, <1>1, <2>1 DEF Visit
<1>2. ASSUME NEW v \in Visitors, Leave(v) PROVE IInv'
  <2>1. Cardinality(Present') = Cardinality(Present) - 1 /\ Cardinality(Present) # 0
    BY <1>2, CountAfterLeave DEF Leave
  <2>2. Present # {}
    BY <1>0, <2>1
  <2> QED
    BY <1>0, <1>2, <2>1, <2>2 DEF Leave
<1>3. CASE Reset
  <2>1. Present' = Present
    BY <1>3 DEF Reset, Present
  <2>2. tracker /\ ~tracker' /\ dtor = "alive"
    BY <1>3 DEF Reset
  <2>3. refs = Cardinality(Present) + 1
    BY <2>2
  <2>4. CountIsExact'
    BY <1>0, <1>3, <2>1, <2>2, <2>3 DEF Reset
  <2>5. TypeOK'
    <3>1. refs' \in Nat
      BY <1>0, <1>3, <2>3, SMT DEF Reset
    <3>2. tracker' \in BOOLEAN
      BY <1>3, Zenon DEF Reset
    <3>3. at' \in [Visitors -> {"away", "visiting"}] /\ dtor' = "ping"
      BY <1>3 DEF Reset
    <3> QED
      BY <3>1, <3>2, <3>3
  <2>6. TrackerHeld' /\ NobodyLeft'
    BY <1>3, <2>2 DEF Reset
  <2> QED
    BY <2>4, <2>5, <2>6
<1>4. CASE Destructor
  <2>1. Present' = Present
    BY <1>4 DEF Destructor, Expired, PingLock, Free, Present
  <2>2. CASE Expired
    BY <1>0, <2>1, <2>2 DEF Expired
  <2>3. CASE PingLock
    BY <1>0, <2>1, <2>3 DEF PingLock
  <2>4. CASE Free
    BY <1>0, <2>1, <2>4 DEF Free
  <2> QED
    BY <1>4, <2>2, <2>3, <2>4 DEF Destructor
<1>5. CASE UNCHANGED vars
  BY <1>5 DEF vars, Present
<1> QED
  BY <1>1, <1>2, <1>3, <1>4, <1>5 DEF Next

THEOREM Invariance == Spec => []IInv
BY InitIInv, IInvInductive, PTL DEF Spec

\* The use count is the tracker plus the visitors, at every moment.
THEOREM ExactCount == Spec => []CountIsExact
<1>1. IInv => CountIsExact
  BY DEF IInv
<1> QED
  BY <1>1, Invariance, PTL

\* Nobody visits the object once the destructor has left its inner loop, so
\* that the memory is never freed under a visitor.
THEOREM Undisturbed == Spec => []NobodyLeft
<1>1. IInv => NobodyLeft
  BY DEF IInv
<1> QED
  BY <1>1, Invariance, PTL

-------------------------------------------------------------------------------
\* Every step of the protocol is a step of the abstract lifetime or none.
LEMMA StepRefines == IInv /\ [Next]_vars => [Abstract!Next]_(Abstract!vars)
<1> SUFFICES ASSUME IInv, [Next]_vars
             PROVE  [Abstract!Next]_(Abstract!vars)
  OBVIOUS
<1> USE DEF IInv, TypeOK, TrackerHeld, CountIsExact, NobodyLeft, Phase
<1>0. Cardinality(Present) \in Nat /\ (Cardinality(Present) = 0 <=> Present = {})
  BY PresentFinite, FS_EmptySet
<1>1. ASSUME NEW v \in Visitors, Visit(v) PROVE Abstract!Visit(v)
  <2>1. v \notin Present /\ Present' = Present \cup {v}
    BY <1>1, CountAfterVisit DEF Visit, Present
  <2>2. Phase' = Phase
    BY <1>1 DEF Visit
  <2>3. \/ Phase = "owned"
        \/ Phase = "released" /\ Present # {}
    BY <1>0, <1>1 DEF Visit
  <2> QED
    BY <2>1, <2>2, <2>3 DEF Abstract!Visit
<1>2. ASSUME NEW v \in Visitors, Leave(v) PROVE Abstract!Leave(v)
  <2>1. v \in Present /\ Present' = Present \ {v}
    BY <1>2, CountAfterLeave DEF Leave, Present
  <2>2. Phase' = Phase
    BY <1>2 DEF Leave
  <2> QED
    BY <2>1, <2>2 DEF Abstract!Leave
<1>3. CASE Reset
  BY <1>3 DEF Reset, Present, Abstract!Next, Abstract!Release
<1>4. CASE Expired
  BY <1>0, <1>4 DEF Expired, Present, Abstract!Next, Abstract!Expire
<1>5. CASE PingLock
  BY <1>5 DEF PingLock, Present, Abstract!vars
<1>6. CASE Free
  BY <1>6 DEF Free, Present, Abstract!Next, Abstract!Free
<1>7. CASE UNCHANGED vars
  BY <1>7 DEF vars, Present, Abstract!vars
<1> QED
  BY <1>1, <1>2, <1>3, <1>4, <1>5, <1>6, <1>7 DEF Next, Destructor, Abstract!Next

\* The tracker protocol implements the abstract lifetime.
THEOREM Refinement == Spec => ImplementsLifetime
<1>1. Init => Abstract!Init
  BY DEF Init, Abstract!Init, Phase, Present
<1> QED
  BY <1>1, Invariance, StepRefines, PTL DEF Spec, ImplementsLifetime, Abstract!Spec
===============================================================================
