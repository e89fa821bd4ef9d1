-------------------------- MODULE NanoLifetime_proofs --------------------------
(***************************************************************************)
(* No object is destroyed twice, an object that TS_Policy_Safe has let go  *)
(* of is not in a slot or an edit of anybody, and every object lives and   *)
(* dies as module Lifetime says: for every set of threads and objects, and *)
(* whatever the clients call.                                              *)
(***************************************************************************)
EXTENDS NanoSignal_proofs

\* How far an object is when its destructor is at a program point.
Stage(pc) ==
  IF ~Counted THEN "dying"
  ELSE IF pc = "reset" THEN "dying" ELSE IF pc = "drain" THEN "reset" ELSE "expired"

\* Every destructor is at the stage of its object, and it is the only one.
StageOK ==
  \A t \in Threads : \A i \in 1..Len(stack[t]) :
    stack[t][i].op = "destroy" => life[stack[t][i].obj] = Stage(stack[t][i].pc)

OneDestructor ==
  \A t, u \in Threads : \A i \in 1..Len(stack[t]), j \in 1..Len(stack[u]) :
    stack[t][i].op = "destroy" /\ stack[u][j].op = "destroy" /\ stack[t][i].obj = stack[u][j].obj
      => t = u /\ i = j

Gone == {"expired", "dead"}

\* VisitedStays, frame by frame.
Visited ==
  Counted => \A t \in Threads : \A i \in 1..Len(stack[t]) :
    HoldsRef(stack[t][i]) => life[Current(stack[t][i]).obs] \notin Gone

\* The inductive invariant: the destructor that takes an object to its end has
\* seen all references go, because nobody else moves its object.
LInv == Typed /\ StageOK /\ OneDestructor /\ Visited

-------------------------------------------------------------------------------
(* References *)

LEMMA RefsAreFrames ==
  ASSUME Stacks, NEW o, NEW v
  PROVE  v \in Refs(o) <=>
           \E t \in Threads : \E i \in 1..Len(stack[t]) :
             v = <<t, i>> /\ HoldsRef(stack[t][i]) /\ Current(stack[t][i]).obs = o
<1>1. \A t \in Threads : DOMAIN stack[t] = 1..Len(stack[t])
  BY DEF Stacks
<1>2. v \in UNION {{t} \X DOMAIN stack[t] : t \in Threads}
        <=> \E t \in Threads : \E i \in 1..Len(stack[t]) : v = <<t, i>>
  BY <1>1
<1>3. v \in Refs(o) <=>
        /\ v \in UNION {{t} \X DOMAIN stack[t] : t \in Threads}
        /\ HoldsRef(stack[v[1]][v[2]]) /\ Current(stack[v[1]][v[2]]).obs = o
  BY DEF Refs
<1>4. \A t, i : <<t, i>>[1] = t /\ <<t, i>>[2] = i
  OBVIOUS
<1> QED
  BY <1>2, <1>3, <1>4

LEMMA NoRefs ==
  ASSUME Stacks, NEW o
  PROVE  Refs(o) = {} <=>
           \A t \in Threads : \A i \in 1..Len(stack[t]) :
             ~(HoldsRef(stack[t][i]) /\ Current(stack[t][i]).obs = o)
BY RefsAreFrames

LEMMA FrameAt ==
  ASSUME Stacks, NEW t \in Threads, NEW i \in 1..Len(stack[t])
  PROVE  stack[t][i] \in Frame /\ stack[t][i].obj \in Objects
<1>1. stack[t] \in Seq(Frame)
  BY DEF Stacks
<1>2. stack[t][i] \in Frame
  BY <1>1, ElementOfSeq
<1> QED
  BY <1>2 DEF Frame

\* The observer that a frame refers to is an object.
LEMMA HeldOK ==
  ASSUME Typed, NEW t \in Threads, NEW i \in 1..Len(stack[t]), HoldsRef(stack[t][i])
  PROVE  Current(stack[t][i]).obs \in Objects
<1> DEFINE f == stack[t][i]
<1>1. stack[t] \in Seq(Frame) /\ FrameOK(f)
  BY DEF Typed, TypeOK, FramesOK
<1>2. f \in Frame
  BY <1>1, ElementOfSeq
<1>3. f.idx \in 1..Len(f.list)
  BY <1>1 DEF FrameOK, HoldsRef
<1> QED
  BY <1>1, <1>2, <1>3, CurrentOK

LEMMA VisitedIsVisitedStays == Typed /\ Visited => VisitedStays
<1> SUFFICES ASSUME Typed, Visited, Counted, NEW o \in Objects, life[o] \in Gone
             PROVE  Refs(o) = {}
  BY DEF VisitedStays, Gone
<1>1. Stacks
  BY TypedParts
<1> QED
  BY <1>1, NoRefs DEF Visited

\* An object that can be locked has not gone.
LEMMA LockableNotGone ==
  ASSUME Typed, Visited, Counted, NEW o \in Objects, Lockable(o)
  PROVE  life[o] \notin Gone
<1>1. CASE life[o] \in {"alive", "dying"}
  BY <1>1 DEF Gone
<1>2. CASE Refs(o) # {}
  <2>1. life[o] \notin {"expired", "dead"}
    BY <1>2, VisitedIsVisitedStays DEF VisitedStays
  <2> QED
    BY <2>1 DEF Gone
<1> QED
  BY <1>1, <1>2 DEF Lockable

-------------------------------------------------------------------------------
(* How a step changes the innermost frame *)

\* The frames of a thread before a step that replaces its innermost frame f.
LEMMA DtorsContinue ==
  ASSUME Typed, StageOK, OneDestructor,
         NEW t \in Threads, stack[t] # <<>>, NEW f \in Frame, Continue(t, f),
         f.op = Top(t).op, f.obj = Top(t).obj,
         \A o \in Objects : life'[o] = IF f.op = "destroy" /\ o = f.obj THEN Stage(f.pc) ELSE life[o]
  PROVE  StageOK' /\ OneDestructor'
<1> DEFINE n == Len(stack[t])
<1>0. Stacks /\ Top(t) = stack[t][n]
  BY TypedParts DEF Top, Last
<1>1. /\ n \in Nat \ {0} /\ Len(stack'[t]) = n
      /\ \A i \in 1..(n - 1) : stack'[t][i] = stack[t][i]
      /\ stack'[t][n] = f
      /\ \A u \in Threads \ {t} : stack'[u] = stack[u]
  BY <1>0, ContinueStack
<1> HIDE DEF n
<1>2. ASSUME NEW u \in Threads, NEW i \in 1..Len(stack'[u])
      PROVE  /\ i \in 1..Len(stack[u])
             /\ stack'[u][i].op = stack[u][i].op /\ stack'[u][i].obj = stack[u][i].obj
             /\ (u = t /\ i = n) \/ stack'[u][i] = stack[u][i]
  <2>1. CASE u # t
    BY <1>1, <1>2, <2>1
  <2>2. CASE u = t /\ i = n
    BY <1>0, <1>1, <1>2, <2>2 DEF n
  <2>3. CASE u = t /\ i # n
    <3>1. i \in 1..(n - 1) /\ i \in 1..n
      BY <1>1, <1>2, <2>3
    <3> QED
      BY <1>1, <2>3, <3>1 DEF n
  <2> QED
    BY <2>1, <2>2, <2>3
<1>3. OneDestructor'
  <2> SUFFICES ASSUME NEW u \in Threads, NEW w \in Threads,
                      NEW i \in 1..Len(stack'[u]), NEW j \in 1..Len(stack'[w]),
                      stack'[u][i].op = "destroy", stack'[w][j].op = "destroy",
                      stack'[u][i].obj = stack'[w][j].obj
               PROVE  u = w /\ i = j
    BY DEF OneDestructor
  <2>1. /\ i \in 1..Len(stack[u]) /\ stack[u][i].op = "destroy"
        /\ stack'[u][i].obj = stack[u][i].obj
    BY <1>2
  <2>2. /\ j \in 1..Len(stack[w]) /\ stack[w][j].op = "destroy"
        /\ stack'[w][j].obj = stack[w][j].obj
    BY <1>2
  <2>3. stack[u][i].obj = stack[w][j].obj
    BY <2>1, <2>2
  <2> QED
    BY <2>1, <2>2, <2>3 DEF OneDestructor
<1>4. ASSUME NEW u \in Threads, NEW i \in 1..Len(stack'[u]), stack'[u][i].op = "destroy"
      PROVE  life'[stack'[u][i].obj] = Stage(stack'[u][i].pc)
  <2>1. f.obj \in Objects
    BY DEF Frame
  <2>2. CASE u = t /\ i = n
    BY <1>1, <1>4, <2>1, <2>2
  <2>3. CASE ~(u = t /\ i = n)
    <3>1. stack'[u][i] = stack[u][i] /\ i \in 1..Len(stack[u])
      BY <1>2, <2>3
    <3>2. stack[u][i].obj \in Objects
      BY <1>0, <3>1, FrameAt
    <3>3. ~(f.op = "destroy" /\ stack[u][i].obj = f.obj)
      <4>1. n \in 1..Len(stack[t])
        BY <1>1 DEF n
      <4> QED
        BY <1>0, <1>4, <2>3, <3>1, <4>1 DEF OneDestructor
    <3>4. life'[stack[u][i].obj] = life[stack[u][i].obj]
      BY <3>2, <3>3
    <3> QED
      BY <1>4, <3>1, <3>4 DEF StageOK
  <2> QED
    BY <2>2, <2>3
<1> QED
  BY <1>3, <1>4 DEF StageOK

\* A step that returns from the innermost call; a destructor that returns
\* leaves its object dead.
LEMMA DtorsPop ==
  ASSUME Typed, StageOK, OneDestructor,
         NEW t \in Threads, stack[t] # <<>>, Pop(t),
         \A o \in Objects : life'[o] = life[o] \/ (Top(t).op = "destroy" /\ o = Top(t).obj)
  PROVE  StageOK' /\ OneDestructor'
<1> DEFINE n == Len(stack[t])
<1>0. Stacks /\ Top(t) = stack[t][n]
  BY TypedParts DEF Top, Last
<1>1. /\ n \in Nat \ {0} /\ Len(stack'[t]) = n - 1
      /\ \A i \in 1..(n - 1) : stack'[t][i] = stack[t][i]
      /\ \A u \in Threads \ {t} : stack'[u] = stack[u]
  BY <1>0, PopStack
<1> HIDE DEF n
<1>2. ASSUME NEW u \in Threads, NEW i \in 1..Len(stack'[u])
      PROVE  i \in 1..Len(stack[u]) /\ stack'[u][i] = stack[u][i] /\ ~(u = t /\ i = n)
  <2>1. CASE u # t
    BY <1>1, <1>2, <2>1
  <2>2. CASE u = t
    <3>1. i \in 1..(n - 1) /\ i \in 1..n
      BY <1>1, <1>2, <2>2
    <3> QED
      BY <1>1, <2>2, <3>1 DEF n
  <2> QED
    BY <2>1, <2>2
<1>3. OneDestructor'
  <2> SUFFICES ASSUME NEW u \in Threads, NEW w \in Threads,
                      NEW i \in 1..Len(stack'[u]), NEW j \in 1..Len(stack'[w]),
                      stack'[u][i].op = "destroy", stack'[w][j].op = "destroy",
                      stack'[u][i].obj = stack'[w][j].obj
               PROVE  u = w /\ i = j
    BY DEF OneDestructor
  <2>1. i \in 1..Len(stack[u]) /\ stack'[u][i] = stack[u][i]
    BY <1>2
  <2>2. j \in 1..Len(stack[w]) /\ stack'[w][j] = stack[w][j]
    BY <1>2
  <2> QED
    BY <2>1, <2>2 DEF OneDestructor
<1>4. ASSUME NEW u \in Threads, NEW i \in 1..Len(stack'[u]), stack'[u][i].op = "destroy"
      PROVE  life'[stack'[u][i].obj] = Stage(stack'[u][i].pc)
  <2>1. stack'[u][i] = stack[u][i] /\ i \in 1..Len(stack[u]) /\ ~(u = t /\ i = n)
    BY <1>2
  <2>2. stack[u][i].obj \in Objects
    BY <1>0, <2>1, FrameAt
  <2>3. ~(Top(t).op = "destroy" /\ stack[u][i].obj = Top(t).obj)
    <3>1. n \in 1..Len(stack[t])
      BY <1>1 DEF n
    <3> QED
      BY <1>0, <1>4, <2>1, <3>1 DEF OneDestructor
  <2>4. life'[stack[u][i].obj] = life[stack[u][i].obj]
    BY <2>2, <2>3
  <2> QED
    BY <1>4, <2>1, <2>4 DEF StageOK
<1> QED
  BY <1>3, <1>4 DEF StageOK

\* A call begins; a destructor that begins finds its object alive, so that no
\* other destructor of it can be there.
LEMMA DtorsPush ==
  ASSUME Typed, StageOK, OneDestructor,
         NEW t \in Threads, NEW f \in Frame, Push(t, f),
         f.op = "destroy" => life[f.obj] = "alive" /\ Stage(f.pc) = "dying",
         \A o \in Objects : life'[o] = IF f.op = "destroy" /\ o = f.obj THEN "dying" ELSE life[o]
  PROVE  StageOK' /\ OneDestructor'
<1> DEFINE n == Len(stack[t]) + 1
<1>0. Stacks /\ f.obj \in Objects
  BY TypedParts DEF Frame
<1>1. /\ n \in Nat /\ Len(stack'[t]) = n
      /\ \A i \in 1..(n - 1) : i \in 1..Len(stack[t]) /\ stack'[t][i] = stack[t][i]
      /\ stack'[t][n] = f
      /\ \A u \in Threads \ {t} : stack'[u] = stack[u]
  BY <1>0, PushStack
<1> HIDE DEF n
<1>2. ASSUME NEW u \in Threads, NEW i \in 1..Len(stack'[u]), ~(u = t /\ i = n)
      PROVE  i \in 1..Len(stack[u]) /\ stack'[u][i] = stack[u][i]
  <2>1. CASE u # t
    BY <1>1, <1>2, <2>1
  <2>2. CASE u = t
    <3>1. i \in 1..(n - 1)
      BY <1>1, <1>2, <2>2
    <3> QED
      BY <1>1, <2>2, <3>1
  <2> QED
    BY <2>1, <2>2
\* No older frame destroys the object of a new destructor.
<1>3. ASSUME NEW u \in Threads, NEW i \in 1..Len(stack'[u]), ~(u = t /\ i = n),
             stack'[u][i].op = "destroy"
      PROVE  stack'[u][i].obj \in Objects /\ ~(f.op = "destroy" /\ stack'[u][i].obj = f.obj)
  <2>1. i \in 1..Len(stack[u]) /\ stack'[u][i] = stack[u][i]
    BY <1>2, <1>3
  <2>2. stack[u][i].obj \in Objects
    BY <1>0, <2>1, FrameAt
  <2>3. life[stack[u][i].obj] # "alive"
    BY <1>3, <2>1 DEF StageOK, Stage
  <2> QED
    BY <2>1, <2>2, <2>3
<1>4. OneDestructor'
  <2> SUFFICES ASSUME NEW u \in Threads, NEW w \in Threads,
                      NEW i \in 1..Len(stack'[u]), NEW j \in 1..Len(stack'[w]),
                      stack'[u][i].op = "destroy", stack'[w][j].op = "destroy",
                      stack'[u][i].obj = stack'[w][j].obj
               PROVE  u = w /\ i = j
    BY DEF OneDestructor
  <2>1. CASE u = t /\ i = n
    BY <1>1, <1>3, <2>1
  <2>2. CASE w = t /\ j = n
    BY <1>1, <1>3, <2>2
  <2>3. CASE ~(u = t /\ i = n) /\ ~(w = t /\ j = n)
    <3>1. i \in 1..Len(stack[u]) /\ stack'[u][i] = stack[u][i]
      BY <1>2, <2>3
    <3>2. j \in 1..Len(stack[w]) /\ stack'[w][j] = stack[w][j]
      BY <1>2, <2>3
    <3> QED
      BY <3>1, <3>2 DEF OneDestructor
  <2> QED
    BY <2>1, <2>2, <2>3
<1>5. ASSUME NEW u \in Threads, NEW i \in 1..Len(stack'[u]), stack'[u][i].op = "destroy"
      PROVE  life'[stack'[u][i].obj] = Stage(stack'[u][i].pc)
  <2>1. CASE u = t /\ i = n
    BY <1>0, <1>1, <1>5, <2>1
  <2>2. CASE ~(u = t /\ i = n)
    <3>1. i \in 1..Len(stack[u]) /\ stack'[u][i] = stack[u][i]
      BY <1>2, <2>2
    <3>2. life'[stack[u][i].obj] = life[stack[u][i].obj]
      BY <1>3, <1>5, <2>2, <3>1
    <3> QED
      BY <1>5, <3>1, <3>2 DEF StageOK
  <2> QED
    BY <2>1, <2>2
<1> QED
  BY <1>4, <1>5 DEF StageOK

\* An object only goes when nobody holds a reference to it.
GoesUnheld == Counted => \A o \in Objects : life'[o] \in Gone => life[o] \in Gone \/ Refs(o) = {}

\* A frame that a step does not touch keeps a good reference.
LEMMA VisitedKept ==
  ASSUME Typed, Visited, GoesUnheld, Counted,
         NEW u \in Threads, NEW i \in 1..Len(stack[u]), HoldsRef(stack[u][i])
  PROVE  life'[Current(stack[u][i]).obs] \notin Gone
<1> DEFINE o == Current(stack[u][i]).obs
<1>1. o \in Objects
  BY HeldOK
<1>2. life[o] \notin Gone
  BY DEF Visited
<1>3. Refs(o) # {}
  BY TypedParts, NoRefs
<1> QED
  BY <1>1, <1>2, <1>3 DEF GoesUnheld

LEMMA VisitedContinue ==
  ASSUME Typed, Visited, GoesUnheld,
         NEW t \in Threads, stack[t] # <<>>, NEW f \in Frame, Continue(t, f),
         Counted /\ HoldsRef(f) => life'[Current(f).obs] \notin Gone
  PROVE  Visited'
<1> SUFFICES ASSUME Counted, NEW u \in Threads, NEW i \in 1..Len(stack'[u]), HoldsRef(stack'[u][i])
             PROVE  life'[Current(stack'[u][i]).obs] \notin Gone
  BY DEF Visited
<1>1. /\ Len(stack[t]) \in Nat \ {0} /\ Len(stack'[t]) = Len(stack[t])
      /\ \A j \in 1..(Len(stack[t]) - 1) : stack'[t][j] = stack[t][j]
      /\ stack'[t][Len(stack[t])] = f
      /\ \A w \in Threads \ {t} : stack'[w] = stack[w]
  BY TypedParts, ContinueStack
<1>2. CASE u # t
  BY <1>1, <1>2, VisitedKept
<1>3. CASE u = t /\ i = Len(stack[t])
  BY <1>1, <1>3
<1>4. CASE u = t /\ i # Len(stack[t])
  <2>1. i \in 1..(Len(stack[t]) - 1) /\ i \in 1..Len(stack[t])
    BY <1>1, <1>4
  <2>2. stack'[u][i] = stack[u][i]
    BY <1>1, <1>4, <2>1
  <2> QED
    BY <1>4, <2>1, <2>2, VisitedKept
<1> QED
  BY <1>2, <1>3, <1>4

LEMMA VisitedPop ==
  ASSUME Typed, Visited, GoesUnheld, NEW t \in Threads, stack[t] # <<>>, Pop(t)
  PROVE  Visited'
<1> SUFFICES ASSUME Counted, NEW u \in Threads, NEW i \in 1..Len(stack'[u]), HoldsRef(stack'[u][i])
             PROVE  life'[Current(stack'[u][i]).obs] \notin Gone
  BY DEF Visited
<1>1. /\ Len(stack[t]) \in Nat \ {0} /\ Len(stack'[t]) = Len(stack[t]) - 1
      /\ \A j \in 1..(Len(stack[t]) - 1) : stack'[t][j] = stack[t][j]
      /\ \A w \in Threads \ {t} : stack'[w] = stack[w]
  BY TypedParts, PopStack
<1>2. CASE u # t
  BY <1>1, <1>2, VisitedKept
<1>3. CASE u = t
  <2>1. i \in 1..(Len(stack[t]) - 1) /\ i \in 1..Len(stack[t])
    BY <1>1, <1>3
  <2>2. stack'[u][i] = stack[u][i]
    BY <1>1, <1>3, <2>1
  <2> QED
    BY <1>3, <2>1, <2>2, VisitedKept
<1> QED
  BY <1>2, <1>3

LEMMA VisitedPush ==
  ASSUME Typed, Visited, GoesUnheld, NEW t \in Threads, NEW f \in Frame, Push(t, f), ~HoldsRef(f)
  PROVE  Visited'
<1> SUFFICES ASSUME Counted, NEW u \in Threads, NEW i \in 1..Len(stack'[u]), HoldsRef(stack'[u][i])
             PROVE  life'[Current(stack'[u][i]).obs] \notin Gone
  BY DEF Visited
<1>1. /\ Len(stack[t]) \in Nat /\ Len(stack'[t]) = Len(stack[t]) + 1
      /\ \A j \in 1..Len(stack[t]) : stack'[t][j] = stack[t][j]
      /\ stack'[t][Len(stack[t]) + 1] = f
      /\ \A w \in Threads \ {t} : stack'[w] = stack[w]
  BY TypedParts, PushStack
<1>2. CASE u # t
  BY <1>1, <1>2, VisitedKept
<1>3. CASE u = t
  <2>1. i # Len(stack[t]) + 1
    BY <1>1, <1>3
  <2>2. i \in 1..Len(stack[t])
    BY <1>1, <1>3, <2>1
  <2>3. stack'[u][i] = stack[u][i]
    BY <1>1, <1>3, <2>2
  <2> QED
    BY <1>3, <2>2, <2>3, VisitedKept
<1> QED
  BY <1>2, <1>3

-------------------------------------------------------------------------------
(* The actions *)

\* Steps that go on in the same call and change no life.
LEMMA LifeContinue ==
  ASSUME LInv, NEW t \in Threads, stack[t] # <<>>, NEW f \in Frame, Continue(t, f),
         f.op = Top(t).op, f.obj = Top(t).obj, life' = life,
         f.op = "destroy" => Stage(f.pc) = Stage(Top(t).pc),
         Counted /\ HoldsRef(f) => life[Current(f).obs] \notin Gone
  PROVE  StageOK' /\ OneDestructor' /\ Visited'
<1>1. Stacks /\ Len(stack[t]) \in Nat \ {0} /\ Top(t) = stack[t][Len(stack[t])]
  BY TopOK DEF LInv, Top, Last
<1>2. f.op = "destroy" => life[f.obj] = Stage(f.pc)
  BY <1>1 DEF LInv, StageOK
<1>3. \A o \in Objects : life'[o] = IF f.op = "destroy" /\ o = f.obj THEN Stage(f.pc) ELSE life[o]
  BY <1>2
<1>4. StageOK' /\ OneDestructor'
  BY <1>3, DtorsContinue DEF LInv
<1>5. GoesUnheld
  BY DEF GoesUnheld
<1>6. Visited'
  BY <1>5, VisitedContinue DEF LInv
<1> QED
  BY <1>4, <1>6

\* The same for the two ways in which most steps go on.
LEMMA LifeGoto ==
  ASSUME LInv, NEW t \in Threads, stack[t] # <<>>, NEW pc \in PCs, Goto(t, pc), life' = life,
         Top(t).op = "destroy" => Stage(pc) = Stage(Top(t).pc),
         Counted /\ Top(t).op \in Sweep \cup {"fire"} /\ pc \in {"slot", "peer"}
           => life[Current(Top(t)).obs] \notin Gone
  PROVE  StageOK' /\ OneDestructor' /\ Visited'
<1> DEFINE f == [Top(t) EXCEPT !.pc = pc]
<1>1. Top(t) \in Frame
  BY TopOK DEF LInv
<1>2. /\ f \in Frame /\ f.pc = pc /\ f.op = Top(t).op /\ f.obj = Top(t).obj
      /\ f.list = Top(t).list /\ f.idx = Top(t).idx
  BY <1>1, GotoFrame
<1>3. Continue(t, f)
  BY DEF Goto
<1> HIDE DEF f
<1>4. Current(f) = Current(Top(t))
  BY <1>2 DEF Current
<1>5. Counted /\ HoldsRef(f) => life[Current(f).obs] \notin Gone
  BY <1>2, <1>4 DEF HoldsRef
<1> QED
  BY <1>2, <1>3, <1>5, LifeContinue

LEMMA LifeNext ==
  ASSUME LInv, NEW t \in Threads, stack[t] # <<>>, NextConnection(t), life' = life,
         Top(t).pc \in {"loop", "slot", "peer"}
  PROVE  StageOK' /\ OneDestructor' /\ Visited'
<1> DEFINE f == [Top(t) EXCEPT !.pc = "loop", !.idx = @ + 1]
<1>1. Top(t) \in Frame
  BY TopOK DEF LInv
<1>2. f \in Frame /\ f.pc = "loop" /\ f.op = Top(t).op /\ f.obj = Top(t).obj
  BY <1>1, NextFrame
<1>3. Continue(t, f)
  BY DEF NextConnection
<1> HIDE DEF f
<1>4. ~HoldsRef(f) /\ Stage(f.pc) = Stage(Top(t).pc)
  BY <1>2 DEF HoldsRef, Stage
<1> QED
  BY <1>2, <1>3, <1>4, LifeContinue

LEMMA LifeStart ==
  ASSUME LInv, NEW t \in Threads, stack[t] # <<>>, life' = life, Top(t).pc = "lock",
         Continue(t, [Top(t) EXCEPT !.pc = "loop", !.list = connections[Top(t).obj]])
  PROVE  StageOK' /\ OneDestructor' /\ Visited'
<1> DEFINE f == [Top(t) EXCEPT !.pc = "loop", !.list = connections[Top(t).obj]]
<1>1. Top(t) \in Frame /\ Top(t).obj \in Objects
  BY TopOK DEF LInv, Frame
<1>2. connections[Top(t).obj] \in Seq(Connection)
  BY <1>1, TypedParts, VectorsInOrder DEF LInv
<1>3. f \in Frame /\ f.pc = "loop" /\ f.op = Top(t).op /\ f.obj = Top(t).obj
  BY <1>1, <1>2, StartFrame
<1> HIDE DEF f
<1>4. ~HoldsRef(f) /\ Stage(f.pc) = Stage(Top(t).pc)
  BY <1>3 DEF HoldsRef, Stage
<1> QED
  BY <1>3, <1>4, LifeContinue DEF f

\* Steps that return from a call and change no life.
LEMMA LifePop ==
  ASSUME LInv, NEW t \in Threads, stack[t] # <<>>, Pop(t), life' = life
  PROVE  StageOK' /\ OneDestructor' /\ Visited'
<1>1. StageOK' /\ OneDestructor'
  BY DtorsPop DEF LInv
<1>2. GoesUnheld
  BY DEF GoesUnheld
<1> QED
  BY <1>1, <1>2, VisitedPop DEF LInv

Life == StageOK /\ OneDestructor /\ Visited

LEMMA InitLife == Init => Life
<1> SUFFICES ASSUME Init PROVE Life
  OBVIOUS
<1>1. \A t \in Threads : Len(stack[t]) = 0
  BY DEF Init
<1>2. \A t \in Threads : 1..Len(stack[t]) = {}
  BY <1>1
<1> QED
  BY <1>2 DEF Life, StageOK, OneDestructor, Visited

\* A destructor begins on an object that is alive, and holds no reference.
LEMMA BeginLife ==
  ASSUME LInv, NEW t \in Threads, NEW c, CallOK(c), Begin(t, c)
  PROVE  Life'
<1> DEFINE f == [op |-> c.op, obj |-> c.obj, slot |-> c.slot,
                 pc |-> FirstPC(c.op), list |-> <<>>, idx |-> 1]
<1>1. /\ c.op \in {"connect", "disconnect", "fire", "disconnect_all", "destroy"}
      /\ c.obj \in Objects /\ c.slot \in Slots \cup {"none"}
  BY DEF CallOK, Call
<1>2. FirstPC(c.op) \in {"self", "lock", "reset"}
  BY DEF FirstPC
<1>3. f \in Frame /\ f.op = c.op /\ f.obj = c.obj /\ f.pc = FirstPC(c.op)
  BY <1>1, <1>2 DEF Frame
<1>4. Push(t, f)
  BY DEF Begin
<1>5. life[c.obj] = "alive"
  BY DEF Begin, Permitted, Named
<1>6. c.op = "destroy" => Stage(FirstPC(c.op)) = "dying"
  BY DEF Stage, FirstPC
<1> HIDE DEF f
<1>7. \A o \in Objects : life'[o] = IF f.op = "destroy" /\ o = f.obj THEN "dying" ELSE life[o]
  BY <1>1, <1>3, TypedParts DEF Begin, LInv, Others
<1>8. StageOK' /\ OneDestructor'
  BY <1>3, <1>4, <1>5, <1>6, <1>7, DtorsPush DEF LInv
<1>9. GoesUnheld
  <2>1. \A o \in Objects : life'[o] \in Gone => life[o] \in Gone
    BY <1>7 DEF Gone
  <2> QED
    BY <2>1 DEF GoesUnheld
<1>10. ~HoldsRef(f)
  BY <1>2, <1>3 DEF HoldsRef
<1> QED
  BY <1>3, <1>4, <1>8, <1>9, <1>10, VisitedPush DEF LInv, Life

LEMMA HalfLife ==
  ASSUME LInv, NEW t \in Threads, InsertHalf(t) \/ RemoveHalf(t)
  PROVE  Life'
<1>1. stack[t] # <<>> /\ Top(t).op \in {"connect", "disconnect"}
  BY AtTop DEF InsertHalf, RemoveHalf, LInv
<1>2. HalfDone(t) /\ life' = life
  BY DEF InsertHalf, RemoveHalf
<1>3. CASE Goto(t, "peer")
  <2>1. "peer" \in PCs /\ Top(t).op # "destroy" /\ Top(t).op \notin Sweep \cup {"fire"}
    BY <1>1 DEF PCs, Sweep
  <2> QED
    BY <1>1, <1>2, <1>3, <2>1, LifeGoto DEF Life
<1>4. CASE Pop(t)
  BY <1>1, <1>2, <1>4, LifePop DEF Life
<1> QED
  BY <1>2, <1>3, <1>4 DEF HalfDone

\* What a loop has reached is the connection of an object.
LEMMA ReachedOK ==
  ASSUME Typed, NEW t \in Threads, stack[t] # <<>>, Top(t).op \in Sweep \cup {"fire"}, ~AtEnd(Top(t))
  PROVE  Current(Top(t)).obs \in Objects
<1> DEFINE f == Top(t)
<1>1. f \in Frame /\ FrameOK(f)
  BY TopOK
<1>2. f.idx \in Nat /\ f.idx # 0 /\ Len(f.list) \in Nat
  BY <1>1 DEF FrameOK, Frame
<1>3. f.idx \in 1..Len(f.list)
  BY <1>2 DEF AtEnd
<1> QED
  BY <1>1, <1>3, CurrentOK

LEMMA EmissionLife ==
  ASSUME LInv, NEW t \in Threads,
         StartEmission(t) \/ CallSlot(t) \/ SkipSlot(t) \/ SlotReturns(t) \/ EndEmission(t)
  PROVE  Life'
<1>0. Typed
  BY DEF LInv
<1>1. CASE StartEmission(t)
  BY <1>0, <1>1, AtTop, LifeStart DEF StartEmission, Life
<1>2. CASE CallSlot(t)
  <2>1. stack[t] # <<>> /\ Top(t).op = "fire" /\ "slot" \in PCs
    BY <1>0, <1>2, AtTop DEF CallSlot, PCs
  <2>2. Current(Top(t)).obs \in Objects
    BY <1>0, <1>2, <2>1, ReachedOK DEF CallSlot
  <2>3. Counted => Lockable(Current(Top(t)).obs)
    BY <1>2 DEF CallSlot, Observed
  <2>4. Counted => life[Current(Top(t)).obs] \notin Gone
    BY <2>2, <2>3, LockableNotGone DEF LInv
  <2> QED
    BY <1>2, <2>1, <2>4, LifeGoto DEF CallSlot, Life
<1>3. CASE SkipSlot(t)
  BY <1>0, <1>3, AtTop, LifeNext DEF SkipSlot, Life
<1>4. CASE SlotReturns(t)
  BY <1>0, <1>4, AtTop, LifeNext DEF SlotReturns, Life
<1>5. CASE EndEmission(t)
  BY <1>0, <1>5, AtTop, LifePop DEF EndEmission, EmissionOver, Life
<1> QED
  BY <1>1, <1>2, <1>3, <1>4, <1>5

\* The two steps of a destructor that give its object away: only the second
\* lets it go, and finds it free of references.
LEMMA WaitLife ==
  ASSUME LInv, NEW t \in Threads, ResetTracker(t) \/ Drained(t)
  PROVE  Life'
<1> DEFINE o == Top(t).obj
<1>0. Typed
  BY DEF LInv
<1>1. /\ stack[t] # <<>> /\ Top(t).op = "destroy" /\ Top(t) \in Frame /\ o \in Objects
      /\ Top(t).pc \in {"reset", "drain"} /\ FrameOK(Top(t))
  BY <1>0, AtTop DEF ResetTracker, Drained
<1>2. Counted
  BY <1>1 DEF FrameOK, Sweep
<1>3. ASSUME NEW pc \in {"drain", "lock"}, Goto(t, pc), life' = [life EXCEPT ![o] = Stage(pc)],
             Stage(pc) \in Gone => Refs(o) = {}
      PROVE  Life'
  <2> DEFINE f == [Top(t) EXCEPT !.pc = pc]
  <2>1. f \in Frame /\ f.pc = pc /\ f.op = Top(t).op /\ f.obj = Top(t).obj
    <3>1. pc \in PCs
      BY DEF PCs
    <3> QED
      BY <1>1, <3>1, GotoFrame
  <2>2. Continue(t, f)
    BY <1>3 DEF Goto
  <2> HIDE DEF f
  <2>3. \A p \in Objects : life'[p] = IF f.op = "destroy" /\ p = f.obj THEN Stage(f.pc) ELSE life[p]
    BY <1>0, <1>1, <1>3, <2>1, TypedParts DEF Others
  <2>4. StageOK' /\ OneDestructor'
    BY <1>1, <2>1, <2>2, <2>3, DtorsContinue DEF LInv
  <2>5. GoesUnheld
    BY <1>1, <1>3, <2>1, <2>3 DEF GoesUnheld
  <2>6. ~HoldsRef(f)
    BY <1>3, <2>1 DEF HoldsRef
  <2> QED
    BY <1>1, <2>1, <2>2, <2>4, <2>5, <2>6, VisitedContinue DEF LInv, Life
<1>4. CASE ResetTracker(t)
  <2>1. Stage("drain") = "reset" /\ "reset" \notin Gone
    BY <1>2 DEF Stage, Gone
  <2> QED
    BY <1>3, <1>4, <2>1 DEF ResetTracker
<1>5. CASE Drained(t)
  <2>1. Stage("lock") = "expired"
    BY <1>2 DEF Stage
  <2> QED
    BY <1>3, <1>5, <2>1 DEF Drained
<1> QED
  BY <1>4, <1>5

LEMMA SweepLife ==
  ASSUME LInv, NEW t \in Threads,
         StartSweep(t) \/ VisitPeer(t) \/ SkipPeer(t) \/ RemovePeer(t) \/ EndSweep(t)
  PROVE  Life'
<1>0. Typed
  BY DEF LInv
<1>1. CASE StartSweep(t)
  BY <1>0, <1>1, AtTop, LifeStart DEF StartSweep, Life
<1>2. CASE VisitPeer(t)
  <2>1. stack[t] # <<>> /\ Top(t).op \in Sweep /\ Top(t).pc = "loop" /\ "peer" \in PCs
    BY <1>0, <1>2, AtTop DEF VisitPeer, PCs
  <2>2. Current(Top(t)).obs \in Objects
    BY <1>0, <1>2, <2>1, ReachedOK DEF VisitPeer
  <2>3. Counted => Lockable(Current(Top(t)).obs)
    BY <1>2 DEF VisitPeer, Visiting
  <2>4. Counted => life[Current(Top(t)).obs] \notin Gone
    BY <2>2, <2>3, LockableNotGone DEF LInv
  <2>5. Stage("peer") = Stage("loop")
    BY DEF Stage
  <2> QED
    BY <1>2, <2>1, <2>4, <2>5, LifeGoto DEF VisitPeer, Life
<1>3. CASE SkipPeer(t)
  BY <1>0, <1>3, AtTop, LifeNext DEF SkipPeer, Life
<1>4. CASE RemovePeer(t)
  BY <1>0, <1>4, AtTop, LifeNext DEF RemovePeer, Life
<1>5. CASE EndSweep(t)
  <2> DEFINE o == Top(t).obj
  <2>1. stack[t] # <<>> /\ Top(t).pc = "loop" /\ o \in Objects /\ Pop(t)
    BY <1>0, <1>5, AtTop DEF EndSweep
  <2>2. life' = IF Top(t).op = "destroy" THEN [life EXCEPT ![o] = "dead"] ELSE life
    BY <1>5 DEF EndSweep
  <2>3. \A p \in Objects : life'[p] = life[p] \/ (Top(t).op = "destroy" /\ p = o)
    BY <1>0, <2>2, TypedParts DEF Others
  <2>4. StageOK' /\ OneDestructor'
    BY <2>1, <2>3, DtorsPop DEF LInv
  <2>5. Counted /\ Top(t).op = "destroy" => life[o] \in Gone
    <3>1. Len(stack[t]) \in Nat \ {0} /\ Top(t) = stack[t][Len(stack[t])]
      BY <1>0, <2>1, TopOK DEF Top, Last
    <3>2. Top(t).op = "destroy" => life[o] = Stage("loop")
      BY <2>1, <3>1 DEF LInv, StageOK
    <3>3. Counted => Stage("loop") = "expired"
      BY DEF Stage
    <3> QED
      BY <3>2, <3>3 DEF Gone
  <2>6. GoesUnheld
    BY <2>3, <2>5 DEF GoesUnheld
  <2> QED
    BY <1>0, <2>1, <2>4, <2>6, VisitedPop DEF LInv, Life
<1> QED
  BY <1>1, <1>2, <1>3, <1>4, <1>5

LEMMA NextLife == LInv /\ [Next]_vars => Life'
<1> SUFFICES ASSUME LInv, [Next]_vars PROVE Life'
  OBVIOUS
<1>1. ASSUME NEW t \in Threads, CallFromThread(t) \/ CallFromSlot(t) PROVE Life'
  <2>1. PICK c : CallOK(c) /\ Begin(t, c)
    BY <1>1, ClientCalls DEF LInv
  <2> QED
    BY <2>1, BeginLife
<1>2. ASSUME NEW t \in Threads, Step(t) PROVE Life'
  BY <1>2, HalfLife, EmissionLife, WaitLife, SweepLife DEF Step
<1>3. CASE UNCHANGED vars
  BY <1>3 DEF vars, LInv, Life, StageOK, OneDestructor, Visited
<1> QED
  BY <1>1, <1>2, <1>3 DEF Next, Rest

LEMMA InitLInv == Init => LInv
BY InitTyped, InitLife DEF LInv, Life

LEMMA NextLInv == LInv /\ [Next]_vars => LInv'
BY NextTyped, NextLife DEF LInv, Life

\* An object that TS_Policy_Safe has let go of is in no slot and in no edit of
\* any thread: Shared_Ptr keeps what for_each and disconnect_all work on.
THEOREM VisitedObjectsStay == Spec => []VisitedStays
<1>1. LInv => VisitedStays
  BY VisitedIsVisitedStays DEF LInv
<1> QED
  BY <1>1, InitLInv, NextLInv, PTL DEF Spec

\* However the clients call, at most one ~Observer runs on an object, and the
\* object is at the stage of its life that the destructor's position says.
THEOREM DestroyedOnce == Spec => [](OneDestructor /\ StageOK)
<1>1. LInv => OneDestructor /\ StageOK
  BY DEF LInv
<1> QED
  BY <1>1, InitLInv, NextLInv, PTL DEF Spec

-------------------------------------------------------------------------------
(* The refinement of Lifetime *)

\* Every call that a thread is inside of is paid for.
Depth == \A t \in Threads : Len(stack[t]) + budget[t] <= MaxCalls

LEMMA RefFrames ==
  Stacks => \A o, v : v \in Refs(o) <=>
    \E t \in Threads : \E i \in 1..Len(stack[t]) :
      v = <<t, i>> /\ HoldsRef(stack[t][i]) /\ Current(stack[t][i]).obs = o
BY RefsAreFrames

LEMMA RefFramesNext ==
  Stacks' => \A o, v : v \in Refs(o)' <=>
    \E t \in Threads : \E i \in 1..Len(stack'[t]) :
      v = <<t, i>> /\ HoldsRef(stack'[t][i]) /\ Current(stack'[t][i]).obs = o
<1>1. (Stacks => \A o, v : v \in Refs(o) <=>
    \E t \in Threads : \E i \in 1..Len(stack[t]) :
      v = <<t, i>> /\ HoldsRef(stack[t][i]) /\ Current(stack[t][i]).obs = o)'
  BY RefFrames, PTL
<1> QED
  BY <1>1

LEMMA InitAbstract == Init => \A o \in Objects : Lifetime(o)!Init
<1> SUFFICES ASSUME Init, NEW o \in Objects PROVE Lifetime(o)!Init
  OBVIOUS
<1>1. life[o] = "alive"
  BY DEF Init
<1>2. \A t \in Threads : stack[t] = <<>>
  BY DEF Init
<1>3. Refs(o) = {}
  BY <1>2 DEF Refs
<1> QED
  BY <1>1, <1>3 DEF Lifetime!Init, Phase

-------------------------------------------------------------------------------
(* How a step changes the references to an object *)

Here(t) == <<t, Len(stack[t])>>

\* A call that begins holds no reference yet.
LEMMA PushRefs ==
  ASSUME Stacks, NEW t \in Threads, NEW f \in Frame, Push(t, f), ~HoldsRef(f), NEW o
  PROVE  Refs(o)' = Refs(o)
<1>1. /\ Stacks' /\ Len(stack[t]) \in Nat /\ Len(stack'[t]) = Len(stack[t]) + 1
      /\ \A j \in 1..Len(stack[t]) : stack'[t][j] = stack[t][j]
      /\ stack'[t][Len(stack[t]) + 1] = f
      /\ \A u \in Threads \ {t} : stack'[u] = stack[u]
  BY PushStack
<1>2. ASSUME NEW u \in Threads, NEW i \in 1..Len(stack[u])
      PROVE  i \in 1..Len(stack'[u]) /\ stack'[u][i] = stack[u][i]
  BY <1>1
<1>3. ASSUME NEW u \in Threads, NEW i \in 1..Len(stack'[u]), HoldsRef(stack'[u][i])
      PROVE  i \in 1..Len(stack[u])
  <2>1. CASE u # t
    BY <1>1, <1>3, <2>1
  <2>2. CASE u = t
    <3>1. i # Len(stack[t]) + 1
      BY <1>1, <1>3, <2>2
    <3> QED
      BY <1>1, <1>3, <2>2, <3>1
  <2> QED
    BY <2>1, <2>2
<1>4. ASSUME NEW v PROVE v \in Refs(o)' <=> v \in Refs(o)
  BY <1>1, <1>2, <1>3, RefFrames, RefFramesNext
<1> QED
  BY <1>4

\* A step inside a call changes at most the reference of that call.
LEMMA ContinueRefs ==
  ASSUME Stacks, NEW t \in Threads, stack[t] # <<>>, NEW f \in Frame, Continue(t, f), NEW o
  PROVE  Refs(o)' = (Refs(o) \ {Here(t)}) \cup
                    (IF HoldsRef(f) /\ Current(f).obs = o THEN {Here(t)} ELSE {})
<1> DEFINE n == Len(stack[t])
<1>1. /\ Stacks' /\ n \in Nat \ {0} /\ Len(stack'[t]) = n
      /\ \A j \in 1..(n - 1) : stack'[t][j] = stack[t][j]
      /\ stack'[t][n] = f
      /\ \A u \in Threads \ {t} : stack'[u] = stack[u]
  BY ContinueStack
<1>2. Here(t) = <<t, n>>
  BY DEF Here
<1>3. n = Len(stack[t])
  OBVIOUS
<1> HIDE DEF n
<1>4. ASSUME NEW u \in Threads, NEW i, ~(u = t /\ i = n)
      PROVE  /\ i \in 1..Len(stack'[u]) <=> i \in 1..Len(stack[u])
             /\ i \in 1..Len(stack[u]) => stack'[u][i] = stack[u][i]
  <2>1. CASE u # t
    BY <1>1, <2>1
  <2>2. CASE u = t
    <3>1. i \in 1..n => i \in 1..(n - 1)
      BY <1>1, <1>4, <2>2
    <3> QED
      BY <1>1, <1>3, <2>2, <3>1
  <2> QED
    BY <2>1, <2>2
<1>5. n \in 1..Len(stack'[t])
  BY <1>1
<1>6. ASSUME NEW v PROVE
        v \in Refs(o)' <=>
          \/ v \in Refs(o) /\ v # <<t, n>>
          \/ v = <<t, n>> /\ HoldsRef(f) /\ Current(f).obs = o
  <2>1. CASE v = <<t, n>>
    <3>1. \A u, i : <<u, i>> = <<t, n>> => u = t /\ i = n
      OBVIOUS
    <3> QED
      BY <1>1, <1>5, <2>1, <3>1, RefFramesNext
  <2>2. CASE v # <<t, n>>
    <3>1. \A u \in Threads : \A i : v = <<u, i>> =>
            /\ i \in 1..Len(stack'[u]) <=> i \in 1..Len(stack[u])
            /\ i \in 1..Len(stack[u]) => stack'[u][i] = stack[u][i]
      BY <1>4, <2>2
    <3>2. v \in Refs(o) <=> \E u \in Threads : \E i \in 1..Len(stack[u]) :
            v = <<u, i>> /\ HoldsRef(stack[u][i]) /\ Current(stack[u][i]).obs = o
      BY RefFrames
    <3>3. v \in Refs(o)' <=> \E u \in Threads : \E i \in 1..Len(stack'[u]) :
            v = <<u, i>> /\ HoldsRef(stack'[u][i]) /\ Current(stack'[u][i]).obs = o
      BY <1>1, RefFramesNext
    <3>4. ASSUME v \in Refs(o) PROVE v \in Refs(o)'
      <4>1. PICK u \in Threads : \E i \in 1..Len(stack[u]) :
              v = <<u, i>> /\ HoldsRef(stack[u][i]) /\ Current(stack[u][i]).obs = o
        BY <3>2, <3>4
      <4>2. PICK i \in 1..Len(stack[u]) :
              v = <<u, i>> /\ HoldsRef(stack[u][i]) /\ Current(stack[u][i]).obs = o
        BY <4>1
      <4>3. i \in 1..Len(stack'[u]) /\ stack'[u][i] = stack[u][i]
        BY <3>1, <4>2
      <4> QED
        BY <3>3, <4>2, <4>3
    <3>5. ASSUME v \in Refs(o)' PROVE v \in Refs(o)
      <4>1. PICK u \in Threads : \E i \in 1..Len(stack'[u]) :
              v = <<u, i>> /\ HoldsRef(stack'[u][i]) /\ Current(stack'[u][i]).obs = o
        BY <3>3, <3>5
      <4>2. PICK i \in 1..Len(stack'[u]) :
              v = <<u, i>> /\ HoldsRef(stack'[u][i]) /\ Current(stack'[u][i]).obs = o
        BY <4>1
      <4>3. i \in 1..Len(stack[u]) /\ stack'[u][i] = stack[u][i]
        BY <3>1, <4>2
      <4> QED
        BY <3>2, <4>2, <4>3
    <3> QED
      BY <2>2, <3>4, <3>5
  <2> QED
    BY <2>1, <2>2
<1> QED
  BY <1>2, <1>6

\* A call that returns gives its reference back.
LEMMA PopRefs ==
  ASSUME Stacks, NEW t \in Threads, stack[t] # <<>>, Pop(t), NEW o
  PROVE  Refs(o)' = Refs(o) \ {Here(t)}
<1> DEFINE n == Len(stack[t])
<1>1. /\ Stacks' /\ n \in Nat \ {0} /\ Len(stack'[t]) = n - 1
      /\ \A j \in 1..(n - 1) : stack'[t][j] = stack[t][j]
      /\ \A u \in Threads \ {t} : stack'[u] = stack[u]
  BY PopStack
<1>2. Here(t) = <<t, n>>
  BY DEF Here
<1>3. n = Len(stack[t])
  OBVIOUS
<1> HIDE DEF n
<1>4. ASSUME NEW u \in Threads, NEW i
      PROVE  /\ i \in 1..Len(stack'[u]) <=> i \in 1..Len(stack[u]) /\ ~(u = t /\ i = n)
             /\ i \in 1..Len(stack'[u]) => stack'[u][i] = stack[u][i]
  <2>1. CASE u # t
    BY <1>1, <2>1
  <2>2. CASE u = t
    <3>1. i \in 1..n /\ i # n <=> i \in 1..(n - 1)
      BY <1>1
    <3> QED
      BY <1>1, <1>3, <2>2, <3>1
  <2> QED
    BY <2>1, <2>2
<1>5. ASSUME NEW v PROVE v \in Refs(o)' <=> v \in Refs(o) /\ v # <<t, n>>
  <2>1. \A u, i : <<u, i>> = <<t, n>> <=> u = t /\ i = n
    OBVIOUS
  <2> QED
    BY <1>1, <1>4, <2>1, RefFrames, RefFramesNext
<1> QED
  BY <1>2, <1>5

LEMMA HereRefs ==
  ASSUME Typed, NEW t \in Threads, stack[t] # <<>>, NEW o
  PROVE  Here(t) \in Refs(o) <=> HoldsRef(Top(t)) /\ Current(Top(t)).obs = o
<1>1. Stacks /\ Len(stack[t]) \in 1..Len(stack[t]) /\ Top(t) = stack[t][Len(stack[t])]
  BY TopOK DEF Top, Last
<1>2. \A u, i : <<u, i>> = <<t, Len(stack[t])>> <=> u = t /\ i = Len(stack[t])
  OBVIOUS
<1> QED
  BY <1>1, <1>2, RefFrames DEF Here

-------------------------------------------------------------------------------
(* Calls are paid for *)

LEMMA DepthBegins ==
  ASSUME Typed, Depth, NEW t \in Threads, NEW c, CallOK(c), Begin(t, c)
  PROVE  Depth'
<1> DEFINE f == [op |-> c.op, obj |-> c.obj, slot |-> c.slot,
                 pc |-> FirstPC(c.op), list |-> <<>>, idx |-> 1]
<1>1. f \in Frame
  BY DEF CallOK, Call, FirstPC, Frame
<1>2. Push(t, f)
  BY DEF Begin
<1> HIDE DEF f
<1>3. /\ Len(stack[t]) \in Nat /\ Len(stack'[t]) = Len(stack[t]) + 1
      /\ \A u \in Threads \ {t} : stack'[u] = stack[u]
  BY <1>1, <1>2, PushStack, TypedParts
<1>4. /\ budget \in [Threads -> Nat] /\ budget[t] > 0
      /\ budget' = [budget EXCEPT ![t] = @ - 1]
  BY DEF Begin, Typed, TypeOK
<1>5. budget'[t] = budget[t] - 1 /\ \A u \in Threads \ {t} : budget'[u] = budget[u]
  BY <1>4
<1>6. Len(stack'[t]) + budget'[t] = Len(stack[t]) + budget[t]
  BY <1>3, <1>4, <1>5
<1> QED
  BY <1>3, <1>5, <1>6 DEF Depth

LEMMA DepthContinues ==
  ASSUME Typed, Depth, NEW t \in Threads, stack[t] # <<>>, budget' = budget,
         Pop(t) \/ \E f \in Frame : Continue(t, f)
  PROVE  Depth'
<1>1. /\ Len(stack[t]) \in Nat \ {0} /\ Len(stack'[t]) \in {Len(stack[t]), Len(stack[t]) - 1}
      /\ \A u \in Threads \ {t} : stack'[u] = stack[u]
  BY PopStack, ContinueStack, TypedParts
<1>2. budget[t] \in Nat /\ MaxCalls \in Nat
  BY CallsAssumption DEF Typed, TypeOK
<1>3. Len(stack'[t]) + budget[t] <= Len(stack[t]) + budget[t]
  BY <1>1, <1>2
<1>4. Len(stack'[t]) + budget[t] <= MaxCalls
  BY <1>1, <1>2, <1>3 DEF Depth
<1> QED
  BY <1>1, <1>4 DEF Depth

LEMMA HereIsVisitor ==
  ASSUME Typed, Depth, NEW t \in Threads, stack[t] # <<>>
  PROVE  Here(t) \in Threads \X (1..MaxCalls)
<1>1. Len(stack[t]) \in Nat \ {0} /\ budget[t] \in Nat /\ MaxCalls \in Nat
  BY TopOK, CallsAssumption DEF Typed, TypeOK
<1>2. Len(stack[t]) + budget[t] <= MaxCalls
  BY DEF Depth
<1>3. Len(stack[t]) \in 1..MaxCalls
  BY <1>1, <1>2
<1> QED
  BY <1>3 DEF Here

-------------------------------------------------------------------------------
(* Every step is a step of the abstract lifetime of at most one object *)

Stays(o) == Phase(o)' = Phase(o) /\ Refs(o)' = Refs(o)

\* A step of the abstract lifetime of o, or none.
Abstractly(o) == [Lifetime(o)!Next]_(Lifetime(o)!vars)

LEMMA StaysAbstractly == ASSUME NEW o, Stays(o) PROVE Abstractly(o)
BY DEF Stays, Abstractly, Lifetime!vars

\* Steps that change neither a life nor a reference.
LEMMA IdleContinue ==
  ASSUME Typed, NEW t \in Threads, stack[t] # <<>>, NEW f \in Frame, Continue(t, f),
         ~HoldsRef(f), ~HoldsRef(Top(t)), NEW o
  PROVE  Refs(o)' = Refs(o)
<1>1. Refs(o)' = Refs(o) \ {Here(t)}
  BY ContinueRefs, TypedParts
<1>2. Here(t) \notin Refs(o)
  BY HereRefs
<1> QED
  BY <1>1, <1>2

LEMMA IdlePop ==
  ASSUME Typed, NEW t \in Threads, stack[t] # <<>>, Pop(t), ~HoldsRef(Top(t)), NEW o
  PROVE  Refs(o)' = Refs(o)
<1>1. Refs(o)' = Refs(o) \ {Here(t)}
  BY PopRefs, TypedParts
<1>2. Here(t) \notin Refs(o)
  BY HereRefs
<1> QED
  BY <1>1, <1>2

\* Loops that go on to their next element, or begin.
LEMMA IdleLoop ==
  ASSUME Typed, NEW t \in Threads, stack[t] # <<>>, life' = life, ~HoldsRef(Top(t)),
         \/ NextConnection(t)
         \/ Continue(t, [Top(t) EXCEPT !.pc = "loop", !.list = connections[Top(t).obj]]),
         NEW o
  PROVE  Stays(o)
<1>1. Top(t) \in Frame /\ Top(t).obj \in Objects
  BY TopOK DEF Frame
<1>2. Phase(o)' = Phase(o)
  BY DEF Phase
<1>3. CASE NextConnection(t)
  <2> DEFINE f == [Top(t) EXCEPT !.pc = "loop", !.idx = @ + 1]
  <2>1. f \in Frame /\ f.pc = "loop"
    BY <1>1, NextFrame
  <2>2. Continue(t, f)
    BY <1>3 DEF NextConnection
  <2> HIDE DEF f
  <2> QED
    BY <1>2, <2>1, <2>2, IdleContinue DEF Stays, HoldsRef
<1>4. CASE Continue(t, [Top(t) EXCEPT !.pc = "loop", !.list = connections[Top(t).obj]])
  <2> DEFINE f == [Top(t) EXCEPT !.pc = "loop", !.list = connections[Top(t).obj]]
  <2>1. connections[Top(t).obj] \in Seq(Connection)
    BY <1>1, TypedParts, VectorsInOrder
  <2>2. f \in Frame /\ f.pc = "loop"
    BY <1>1, <2>1, StartFrame
  <2>3. Continue(t, f)
    BY <1>4
  <2> HIDE DEF f
  <2> QED
    BY <1>2, <2>2, <2>3, IdleContinue DEF Stays, HoldsRef
<1> QED
  BY <1>3, <1>4

\* A reference to o is taken: a visit begins.
LEMMA TakesRef ==
  ASSUME LInv, Depth, Counted, NEW t \in Threads, stack[t] # <<>>, life' = life,
         NEW pc \in {"slot", "peer"}, Goto(t, pc), Top(t).op \in Sweep \cup {"fire"},
         ~HoldsRef(Top(t)), Current(Top(t)).obs \in Objects, Lockable(Current(Top(t)).obs),
         NEW o \in Objects
  PROVE  Abstractly(o)
<1> DEFINE f == [Top(t) EXCEPT !.pc = pc]
           p == Current(Top(t)).obs
<1>1. Typed /\ Stacks /\ Visited /\ Top(t) \in Frame
  BY TopOK DEF LInv
<1>2. pc \in PCs
  BY DEF PCs
<1>3. /\ f \in Frame /\ f.pc = pc /\ f.op = Top(t).op /\ f.list = Top(t).list /\ f.idx = Top(t).idx
  BY <1>1, <1>2, GotoFrame
<1>4. Continue(t, f)
  BY DEF Goto
<1> HIDE DEF f
<1>5. HoldsRef(f) /\ Current(f).obs = p
  BY <1>3 DEF HoldsRef, Current
<1>6. Here(t) \notin Refs(o)
  BY <1>1, HereRefs
<1>7. Phase(o)' = Phase(o)
  BY DEF Phase
<1>8. CASE o # p
  <2>1. ~(HoldsRef(f) /\ Current(f).obs = o)
    BY <1>5, <1>8
  <2>2. Refs(o)' = Refs(o)
    <3>1. Refs(o)' = Refs(o) \ {Here(t)}
      BY <1>1, <1>3, <1>4, <2>1, ContinueRefs
    <3> QED
      BY <1>6, <3>1
  <2> QED
    BY <1>7, <2>2, StaysAbstractly DEF Stays
<1>9. CASE o = p
  <2>1. Refs(o)' = Refs(o) \cup {Here(t)}
    BY <1>1, <1>3, <1>4, <1>5, <1>6, <1>9, ContinueRefs
  <2>2. life[o] \notin Gone
    BY <1>1, <1>9, LockableNotGone
  <2>3. Phase(o) = "owned" \/ (Phase(o) = "released" /\ Refs(o) # {})
    <3>1. life[o] \in {"alive", "dying", "reset", "expired", "dead"}
      BY <1>1 DEF Typed, TypeOK
    <3> QED
      BY <1>9, <2>2, <3>1 DEF Lockable, Phase, Gone
  <2>4. Here(t) \in Threads \X (1..MaxCalls)
    BY <1>1, HereIsVisitor
  <2>5. Lifetime(o)!Visit(Here(t))
    BY <1>6, <1>7, <2>1, <2>3 DEF Lifetime!Visit
  <2> QED
    BY <2>4, <2>5 DEF Abstractly, Lifetime!Next
<1> QED
  BY <1>8, <1>9

\* The reference is given back, if there was one: the visit ends.
LEMMA LeavesAbstractly ==
  ASSUME LInv, Depth, NEW t \in Threads, stack[t] # <<>>, life' = life, NEW o \in Objects,
         Refs(o)' = Refs(o) \ {Here(t)}
  PROVE  Abstractly(o)
<1>1. Phase(o)' = Phase(o)
  BY DEF Phase
<1>2. CASE Here(t) \notin Refs(o)
  BY <1>1, <1>2, StaysAbstractly DEF Stays
<1>3. CASE Here(t) \in Refs(o)
  <2>1. Here(t) \in Threads \X (1..MaxCalls)
    BY HereIsVisitor DEF LInv
  <2>2. Lifetime(o)!Leave(Here(t))
    BY <1>1, <1>3 DEF Lifetime!Leave
  <2> QED
    BY <2>1, <2>2 DEF Abstractly, Lifetime!Next
<1> QED
  BY <1>2, <1>3

\* A loop that goes on gives the reference to its last element back.
LEMMA GivesRefBack ==
  ASSUME LInv, Depth, NEW t \in Threads, stack[t] # <<>>, life' = life, NextConnection(t),
         HoldsRef(Top(t)), NEW o \in Objects
  PROVE  Abstractly(o)
<1> DEFINE f == [Top(t) EXCEPT !.pc = "loop", !.idx = @ + 1]
<1>1. Typed /\ Stacks /\ Top(t) \in Frame
  BY TopOK DEF LInv
<1>2. f \in Frame /\ f.pc = "loop"
  BY <1>1, NextFrame
<1>3. Continue(t, f)
  BY DEF NextConnection
<1> HIDE DEF f
<1>4. ~HoldsRef(f)
  BY <1>2 DEF HoldsRef
<1> QED
  BY <1>1, <1>2, <1>3, <1>4, ContinueRefs, LeavesAbstractly

\* A call that begins: a destructor only marks its object, which still owns
\* its tracker.
LEMMA BeginAbstractly ==
  ASSUME LInv, NEW t \in Threads, NEW c, CallOK(c), Begin(t, c), NEW o \in Objects
  PROVE  Abstractly(o)
<1> DEFINE f == [op |-> c.op, obj |-> c.obj, slot |-> c.slot,
                 pc |-> FirstPC(c.op), list |-> <<>>, idx |-> 1]
<1>1. f \in Frame /\ ~HoldsRef(f)
  BY DEF CallOK, Call, FirstPC, Frame, HoldsRef
<1>2. Push(t, f)
  BY DEF Begin
<1> HIDE DEF f
<1>3. Refs(o)' = Refs(o)
  BY <1>1, <1>2, PushRefs, TypedParts DEF LInv
<1>4. life[c.obj] = "alive"
  BY DEF Begin, Permitted, Named
<1>5. Phase(o)' = Phase(o)
  BY <1>4 DEF Begin, Phase, LInv, Typed, TypeOK
<1> QED
  BY <1>3, <1>5, StaysAbstractly DEF Stays

LEMMA HalfAbstractly ==
  ASSUME LInv, NEW t \in Threads, InsertHalf(t) \/ RemoveHalf(t), NEW o \in Objects
  PROVE  Abstractly(o)
<1>0. Typed
  BY DEF LInv
<1>1. stack[t] # <<>> /\ Top(t).op \in {"connect", "disconnect"} /\ Top(t) \in Frame
  BY <1>0, AtTop DEF InsertHalf, RemoveHalf
<1>2. HalfDone(t) /\ Phase(o)' = Phase(o)
  BY DEF InsertHalf, RemoveHalf, Phase
<1>3. ~HoldsRef(Top(t))
  BY <1>1 DEF HoldsRef, Sweep
<1>4. CASE Goto(t, "peer")
  <2> DEFINE f == [Top(t) EXCEPT !.pc = "peer"]
  <2>1. f \in Frame /\ f.op = Top(t).op
    BY <1>1, GotoFrame DEF PCs
  <2>2. Continue(t, f)
    BY <1>4 DEF Goto
  <2> HIDE DEF f
  <2>3. ~HoldsRef(f)
    BY <1>1, <2>1 DEF HoldsRef, Sweep
  <2>4. Refs(o)' = Refs(o)
    BY <1>0, <1>1, <1>3, <2>1, <2>2, <2>3, IdleContinue
  <2> QED
    BY <1>2, <2>4, StaysAbstractly DEF Stays
<1>5. CASE Pop(t)
  BY <1>0, <1>1, <1>2, <1>3, <1>5, IdlePop, StaysAbstractly DEF Stays
<1> QED
  BY <1>2, <1>4, <1>5 DEF HalfDone

LEMMA EmissionAbstractly ==
  ASSUME LInv, Depth, Counted, NEW t \in Threads, NEW o \in Objects,
         StartEmission(t) \/ CallSlot(t) \/ SkipSlot(t) \/ SlotReturns(t) \/ EndEmission(t)
  PROVE  Abstractly(o)
<1>0. Typed
  BY DEF LInv
<1>1. CASE StartEmission(t)
  <2>1. stack[t] # <<>> /\ ~HoldsRef(Top(t))
    BY <1>0, <1>1, AtTop DEF StartEmission, HoldsRef
  <2> QED
    BY <1>0, <1>1, <2>1, IdleLoop, StaysAbstractly DEF StartEmission
<1>2. CASE CallSlot(t)
  <2>1. stack[t] # <<>> /\ Top(t).op = "fire" /\ Top(t).pc = "loop"
    BY <1>0, <1>2, AtTop DEF CallSlot
  <2>2. Current(Top(t)).obs \in Objects
    BY <1>0, <1>2, <2>1, ReachedOK DEF CallSlot
  <2>3. Lockable(Current(Top(t)).obs)
    BY <1>2 DEF CallSlot, Observed
  <2>4. ~HoldsRef(Top(t))
    BY <2>1 DEF HoldsRef
  <2> QED
    BY <1>2, <2>1, <2>2, <2>3, <2>4, TakesRef DEF CallSlot
<1>3. CASE SkipSlot(t)
  <2>1. stack[t] # <<>> /\ ~HoldsRef(Top(t))
    BY <1>0, <1>3, AtTop DEF SkipSlot, HoldsRef
  <2> QED
    BY <1>0, <1>3, <2>1, IdleLoop, StaysAbstractly DEF SkipSlot
<1>4. CASE SlotReturns(t)
  <2>1. stack[t] # <<>> /\ HoldsRef(Top(t))
    BY <1>0, <1>4, AtTop DEF SlotReturns, HoldsRef
  <2> QED
    BY <1>4, <2>1, GivesRefBack DEF SlotReturns
<1>5. CASE EndEmission(t)
  <2>1. stack[t] # <<>> /\ Pop(t) /\ life' = life
    BY <1>0, <1>5, AtTop DEF EndEmission, EmissionOver
  <2>2. Refs(o)' = Refs(o) \ {Here(t)}
    BY <1>0, <2>1, PopRefs, TypedParts
  <2> QED
    BY <2>1, <2>2, LeavesAbstractly
<1> QED
  BY <1>1, <1>2, <1>3, <1>4, <1>5

\* The destructor gives its own reference away, and later finds that nobody
\* else has one.
LEMMA WaitAbstractly ==
  ASSUME LInv, Counted, NEW t \in Threads, NEW o \in Objects, ResetTracker(t) \/ Drained(t)
  PROVE  Abstractly(o)
<1> DEFINE p == Top(t).obj
           n == Len(stack[t])
<1>0. Typed /\ StageOK
  BY DEF LInv
<1>1. /\ stack[t] # <<>> /\ Top(t).op = "destroy" /\ Top(t) \in Frame /\ p \in Objects
      /\ Top(t).pc \in {"reset", "drain"}
  BY <1>0, AtTop DEF ResetTracker, Drained
<1>2. life[p] = Stage(Top(t).pc)
  <2>1. n \in 1..Len(stack[t]) /\ Top(t) = stack[t][n]
    BY <1>0, <1>1, TopOK DEF Top, Last
  <2> HIDE DEF n
  <2> QED
    BY <1>0, <1>1, <2>1 DEF StageOK
<1>3. life \in [Objects -> {"alive", "dying", "reset", "expired", "dead"}]
  BY <1>0 DEF Typed, TypeOK
<1>4. Refs(o)' = Refs(o)
  <2>1. ASSUME NEW pc \in {"drain", "lock"}, Goto(t, pc) PROVE Refs(o)' = Refs(o)
    <3> DEFINE f == [Top(t) EXCEPT !.pc = pc]
    <3>0. pc \in PCs
      BY DEF PCs
    <3>1. f \in Frame /\ f.pc = pc
      BY <1>1, <3>0, GotoFrame
    <3>2. Continue(t, f)
      BY <2>1 DEF Goto
    <3> HIDE DEF f
    <3>3. ~HoldsRef(f) /\ ~HoldsRef(Top(t))
      BY <1>1, <3>1 DEF HoldsRef
    <3> QED
      BY <1>0, <1>1, <3>1, <3>2, <3>3, IdleContinue
  <2> QED
    BY <2>1 DEF ResetTracker, Drained
<1>5. CASE ResetTracker(t)
  <2>1. life[p] = "dying" /\ life' = [life EXCEPT ![p] = "reset"]
    BY <1>0, <1>2, <1>5, AtTop DEF ResetTracker, Stage
  <2>2. CASE o # p
    BY <1>1, <1>3, <1>4, <2>1, <2>2, StaysAbstractly DEF Stays, Phase
  <2>3. CASE o = p
    <3>1. Phase(o) = "owned" /\ Phase(o)' = "released"
      BY <1>1, <1>3, <2>1, <2>3 DEF Phase
    <3> QED
      BY <1>4, <3>1 DEF Abstractly, Lifetime!Next, Lifetime!Release
  <2> QED
    BY <2>2, <2>3
<1>6. CASE Drained(t)
  <2>1. life[p] = "reset" /\ life' = [life EXCEPT ![p] = "expired"] /\ Refs(p) = {}
    BY <1>0, <1>2, <1>6, AtTop DEF Drained, Stage
  <2>2. CASE o # p
    BY <1>1, <1>3, <1>4, <2>1, <2>2, StaysAbstractly DEF Stays, Phase
  <2>3. CASE o = p
    <3>1. Phase(o) = "released" /\ Phase(o)' = "expired"
      BY <1>1, <1>3, <2>1, <2>3 DEF Phase
    <3> QED
      BY <1>4, <2>1, <2>3, <3>1 DEF Abstractly, Lifetime!Next, Lifetime!Expire
  <2> QED
    BY <2>2, <2>3
<1> QED
  BY <1>5, <1>6

LEMMA SweepAbstractly ==
  ASSUME LInv, Depth, Counted, NEW t \in Threads, NEW o \in Objects,
         StartSweep(t) \/ VisitPeer(t) \/ SkipPeer(t) \/ RemovePeer(t) \/ EndSweep(t)
  PROVE  Abstractly(o)
<1>0. Typed
  BY DEF LInv
<1>1. CASE StartSweep(t)
  <2>1. stack[t] # <<>> /\ ~HoldsRef(Top(t))
    BY <1>0, <1>1, AtTop DEF StartSweep, HoldsRef
  <2> QED
    BY <1>0, <1>1, <2>1, IdleLoop, StaysAbstractly DEF StartSweep
<1>2. CASE VisitPeer(t)
  <2>1. stack[t] # <<>> /\ Top(t).op \in Sweep /\ Top(t).pc = "loop"
    BY <1>0, <1>2, AtTop DEF VisitPeer
  <2>2. Current(Top(t)).obs \in Objects
    BY <1>0, <1>2, <2>1, ReachedOK DEF VisitPeer
  <2>3. Lockable(Current(Top(t)).obs)
    BY <1>2 DEF VisitPeer, Visiting
  <2>4. ~HoldsRef(Top(t))
    BY <2>1 DEF HoldsRef
  <2> QED
    BY <1>2, <2>1, <2>2, <2>3, <2>4, TakesRef DEF VisitPeer
<1>3. CASE SkipPeer(t)
  <2>1. stack[t] # <<>> /\ ~HoldsRef(Top(t))
    BY <1>0, <1>3, AtTop DEF SkipPeer, HoldsRef
  <2> QED
    BY <1>0, <1>3, <2>1, IdleLoop, StaysAbstractly DEF SkipPeer
<1>4. CASE RemovePeer(t)
  <2>1. stack[t] # <<>> /\ HoldsRef(Top(t))
    BY <1>0, <1>4, AtTop DEF RemovePeer, HoldsRef
  <2> QED
    BY <1>4, <2>1, GivesRefBack DEF RemovePeer
<1>5. CASE EndSweep(t)
  <2> DEFINE p == Top(t).obj
             n == Len(stack[t])
  <2>1. /\ stack[t] # <<>> /\ Top(t).pc = "loop" /\ p \in Objects /\ Pop(t)
        /\ life \in [Objects -> {"alive", "dying", "reset", "expired", "dead"}]
    BY <1>0, <1>5, AtTop DEF EndSweep, Typed, TypeOK
  <2>2. Refs(o)' = Refs(o)
    <3>1. ~HoldsRef(Top(t))
      BY <2>1 DEF HoldsRef
    <3> QED
      BY <1>0, <2>1, <3>1, IdlePop
  <2>3. life' = IF Top(t).op = "destroy" THEN [life EXCEPT ![p] = "dead"] ELSE life
    BY <1>5 DEF EndSweep
  <2>4. CASE Top(t).op = "destroy" /\ o = p
    <3>1. n \in 1..n /\ Top(t) = stack[t][n]
      BY <1>0, <2>1, TopOK DEF Top, Last
    <3>2. life[o] = Stage("loop")
      BY <2>1, <2>4, <3>1 DEF LInv, StageOK
    <3>3. Phase(o) = "expired" /\ Phase(o)' = "freed"
      BY <2>1, <2>3, <2>4, <3>2 DEF Stage, Phase
    <3> QED
      BY <2>2, <3>3 DEF Abstractly, Lifetime!Next, Lifetime!Free
  <2>5. CASE ~(Top(t).op = "destroy" /\ o = p)
    <3>1. life'[o] = life[o]
      BY <2>1, <2>3, <2>5
    <3>2. Phase(o)' = Phase(o)
      BY <3>1 DEF Phase
    <3> QED
      BY <2>2, <3>2, StaysAbstractly DEF Stays
  <2> QED
    BY <2>4, <2>5
<1> QED
  BY <1>1, <1>2, <1>3, <1>4, <1>5

LEMMA NextAbstractly ==
  LInv /\ Depth /\ Counted /\ [Next]_vars => \A o \in Objects : Abstractly(o)
<1> SUFFICES ASSUME LInv, Depth, Counted, [Next]_vars, NEW o \in Objects PROVE Abstractly(o)
  OBVIOUS
<1>1. ASSUME NEW t \in Threads, CallFromThread(t) \/ CallFromSlot(t) PROVE Abstractly(o)
  <2>1. PICK c : CallOK(c) /\ Begin(t, c)
    BY <1>1, ClientCalls DEF LInv
  <2> QED
    BY <2>1, BeginAbstractly
<1>2. ASSUME NEW t \in Threads, Step(t) PROVE Abstractly(o)
  BY <1>2, HalfAbstractly, EmissionAbstractly, WaitAbstractly, SweepAbstractly DEF Step
<1>3. CASE UNCHANGED vars
  BY <1>3, StaysAbstractly DEF vars, Stays, Phase, Refs
<1> QED
  BY <1>1, <1>2, <1>3 DEF Next, Rest

LEMMA InitDepth == Init => Depth
BY CallsAssumption DEF Init, Depth

\* No step but a call from a client makes a stack longer.
LEMMA NextDepth == Typed /\ Depth /\ [Next]_vars => Depth'
<1> SUFFICES ASSUME Typed, Depth, [Next]_vars PROVE Depth'
  OBVIOUS
<1>1. ASSUME NEW t \in Threads, CallFromThread(t) \/ CallFromSlot(t) PROVE Depth'
  <2>1. PICK c : CallOK(c) /\ Begin(t, c)
    BY <1>1, ClientCalls
  <2> QED
    BY <2>1, DepthBegins
<1>2. ASSUME NEW t \in Threads, Step(t) PROVE Depth'
  <2>1. stack[t] # <<>> /\ budget' = budget
    BY <1>2, AtTop DEF Step, InsertHalf, RemoveHalf, StartEmission, CallSlot, SkipSlot, SlotReturns,
       EndEmission, EmissionOver, ResetTracker, Drained, StartSweep, VisitPeer, SkipPeer, RemovePeer,
       EndSweep
  <2>2. Top(t) \in Frame /\ Top(t).obj \in Objects
    BY <2>1, TopOK DEF Frame
  <2>3. connections[Top(t).obj] \in Seq(Connection)
    BY <2>2, TypedParts, VectorsInOrder
  <2>4. \A pc \in PCs : [Top(t) EXCEPT !.pc = pc] \in Frame
    BY <2>2, GotoFrame
  <2>5. [Top(t) EXCEPT !.pc = "loop", !.idx = @ + 1] \in Frame
    BY <2>2, NextFrame
  <2>6. [Top(t) EXCEPT !.pc = "loop", !.list = connections[Top(t).obj]] \in Frame
    BY <2>2, <2>3, StartFrame
  <2>7. Pop(t) \/ \E f \in Frame : Continue(t, f)
    BY <1>2, <2>4, <2>5, <2>6
       DEF PCs, Goto, NextConnection, HalfDone,
       Step, InsertHalf, RemoveHalf, StartEmission, CallSlot, SkipSlot, SlotReturns,
       EndEmission, ResetTracker, Drained, StartSweep, VisitPeer, SkipPeer, RemovePeer, EndSweep
  <2> QED
    BY <2>1, <2>7, DepthContinues
<1>3. CASE UNCHANGED vars
  BY <1>3 DEF vars, Depth
<1> QED
  BY <1>1, <1>2, <1>3 DEF Next, Rest

\* Under TS_Policy_Safe every object of a program lives and dies as the abstract
\* lifetime says: a visit begins only while the object can still be locked, and
\* nothing is freed while a slot or a peer is inside of it.
THEOREM LifetimesImplemented == Counted => (Spec => ImplementsLifetime)
<1>1. SUFFICES ASSUME Counted PROVE Spec => ImplementsLifetime
  OBVIOUS
<1>2. LInv /\ Depth /\ [Next]_vars => \A o \in Objects : [Lifetime(o)!Next]_(Lifetime(o)!vars)
  BY <1>1, NextAbstractly DEF Abstractly
<1>3. LInv /\ Depth /\ [Next]_vars => LInv' /\ Depth'
  BY NextLInv, NextDepth DEF LInv
<1>4. Init => LInv /\ Depth /\ \A o \in Objects : Lifetime(o)!Init
  BY InitLInv, InitDepth, InitAbstract
<1> QED
  BY <1>2, <1>3, <1>4, PTL DEF Spec, ImplementsLifetime
================================================================================
