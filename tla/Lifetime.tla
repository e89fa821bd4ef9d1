------------------------------- MODULE Lifetime -------------------------------
(***************************************************************************)
(* What Nano::TS_Policy_Safe promises about the lifetime of one observed   *)
(* object: whoever visits it (calls one of its slots or edits its          *)
(* connections) finds it whole, and it goes away only when nobody visits   *)
(* it and nobody can start to.  How visitors are counted and how the       *)
(* destructor waits is left to Tracker (one object, step by step) and to   *)
(* NanoSignal (every object of a program).                                 *)
(***************************************************************************)
CONSTANT Visitors                   \* everything that may hold a reference

VARIABLES phase,                    \* how far the object is towards its end
          visiting                  \* the visitors that hold a reference now

vars == <<phase, visiting>>

Phases == {"owned",                 \* the object holds its own tracker
           "released",              \* the destructor has reset the tracker
           "expired",               \* the last reference is gone
           "freed"}                 \* the memory of the object is gone

Init == phase = "owned" /\ visiting = {}

\* A reference is taken while the object owns itself or somebody visits it.
Visit(v) ==
  /\ v \notin visiting
  /\ \/ phase = "owned"
     \/ phase = "released" /\ visiting # {}
  /\ visiting' = visiting \cup {v}
  /\ UNCHANGED phase

Leave(v) ==
  /\ v \in visiting
  /\ visiting' = visiting \ {v}
  /\ UNCHANGED phase

Release ==
  /\ phase = "owned"
  /\ phase' = "released"
  /\ UNCHANGED visiting

Expire ==
  /\ phase = "released" /\ visiting = {}
  /\ phase' = "expired"
  /\ UNCHANGED visiting

Free ==
  /\ phase = "expired"
  /\ phase' = "freed"
  /\ UNCHANGED visiting

Next ==
  \/ \E v \in Visitors : Visit(v) \/ Leave(v)
  \/ Release \/ Expire \/ Free

Spec == Init /\ [][Next]_vars
===============================================================================
