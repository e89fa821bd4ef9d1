----------------------------- MODULE AbstractLock -----------------------------
(***************************************************************************)
(* What every lock of the repository promises to its clients (the          *)
(* BasicLockable requirement quoted in nano_mutex.hpp): a thread asks for  *)
(* the lock, is granted it while nobody owns it, and gives it back.  How   *)
(* the lock waits is left out; SpinMutex shows how it is done.             *)
(***************************************************************************)
CONSTANT Threads                    \* the threads that share one lock

VARIABLES owner,                    \* {} or the singleton of the thread inside
          wanting                   \* threads between calling lock() and its return

vars == <<owner, wanting>>

Init == owner = {} /\ wanting = {}

\* A thread that does not own the lock calls lock().
Request(t) ==
  /\ t \notin owner \cup wanting
  /\ wanting' = wanting \cup {t}
  /\ UNCHANGED owner

\* lock() returns: only while nobody owns the lock.
Acquire(t) ==
  /\ t \in wanting
  /\ owner = {}
  /\ owner' = {t}
  /\ wanting' = wanting \ {t}

\* unlock(), called by the owner.
Release(t) ==
  /\ t \in owner
  /\ owner' = owner \ {t}
  /\ UNCHANGED wanting

Next == \E t \in Threads : Request(t) \/ Acquire(t) \/ Release(t)

Spec == Init /\ [][Next]_vars

===============================================================================
