----------------------------- MODULE MCNanoSignal -----------------------------
(***************************************************************************)
(* Small programs for NanoSignal.  A configuration picks who exists, what  *)
(* each thread may call and what each slot may call.                       *)
(***************************************************************************)
EXTENDS NanoSignal, TLC

CONSTANTS t1, t2, s1, s2, f1, f2, k1, k2, k3, u

Two == {t1, t2}

\* k1 is a slot of f1, k2 and k3 are slots of f2 and u is a functor.
MCOwner == k1 :> f1 @@ k2 :> f2 @@ k3 :> f2

MCZ == k1 :> 2 @@ k2 :> 1 @@ k3 :> 3 @@ u :> 4

C(op, o) == [op |-> op, obj |-> o, slot |-> "none"]
CK(op, s, k) == [op |-> op, obj |-> s, slot |-> k]

Silent == [k \in Slots |-> {}]

OnlySlot(k, calls) == [Silent EXCEPT ![k] = calls]

\* The `threaded` benchmark: every thread connects its own observer to a
\* shared signal, fires it and destroys its observer.
ThreadedTop ==
  t1 :> {CK("connect", s1, k1), C("fire", s1), C("destroy", f1)} @@
  t2 :> {CK("connect", s1, k2), C("fire", s1), C("destroy", f2)}

\* One thread that uses the whole interface; no slot is ever connected to
\* two signals.
WholeInterface ==
  t1 :> ({CK(op, s1, k) : op \in {"connect", "disconnect"}, k \in {k1, k2, u}} \cup
         {CK("connect", s2, k3)} \cup
         {C("fire", s1), C("fire", s2), C("disconnect_all", s1), C("disconnect_all", f2),
          C("destroy", s1), C("destroy", f1)})

\* Slots that use the library while it emits, short of destroying observers:
\* k1 edits the running emission and fires again, k2 destroys the signal.
ReentrantTop ==
  t1 :> {CK("connect", s1, k1), CK("connect", s1, k2), C("fire", s1)}

ReentrantSlots ==
  [Silent EXCEPT
     ![k1] = {CK("disconnect", s1, k1), CK("disconnect", s1, k2), CK("connect", s1, k2),
              CK("connect", s1, u), C("fire", s1)},
     ![k2] = {C("destroy", s1), C("disconnect_all", s1)}]

\* The same with a slot that fires again and destroys the other thread's
\* observer, and a thread that disconnects its own.
HostileTop ==
  t1 :> {CK("connect", s1, k1), C("fire", s1), CK("disconnect", s1, k1), C("destroy", f1)} @@
  t2 :> {CK("connect", s1, k2), C("fire", s1), C("destroy", f2)}

HostileSlots == OnlySlot(k1, {C("destroy", f2), C("fire", s1)})

\* One slot on two signals, one of which is disconnected or destroyed.
SharedTop ==
  t1 :> {CK("connect", s1, k1), CK("connect", s2, k1), CK("disconnect", s1, k1),
         C("destroy", f1), C("fire", s2)}

\* Both ends of a connection cut everything at once.
CrossTop ==
  t1 :> {CK("connect", s1, k1), C("disconnect_all", s1)} @@
  t2 :> {C("disconnect_all", f1)}

\* These clients are disciplined, so that what is proved of such clients is
\* about them; HostileTop, SharedTop and CrossTop are not.
ASSUME SomeAreDisciplined ==
  TopCalls \in {ThreadedTop, WholeInterface, ReentrantTop} <=>
    \E Home \in [MemberSlots -> Signals], Keeper \in [MemberSlots -> Threads] :
      Disciplined(Home, Keeper)
===============================================================================
