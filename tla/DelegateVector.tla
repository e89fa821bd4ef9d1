---------------------------- MODULE DelegateVector ----------------------------
(***************************************************************************)
(* The vector of connections of a Nano::Observer and the comparison that   *)
(* keeps it sorted.  A Delegate_Key is a pair of machine words (instance,  *)
(* function); Z_Order compares two keys without computing their Morton     *)
(* code, by finding the word in which they differ at the higher bit.       *)
(*                                                                         *)
(* NanoSignal takes for granted that the order tells keys apart and that   *)
(* the binary searches find the equal range; here words are their bits,    *)
(* and the searches halve the vector step by step, under the mutex of one  *)
(* critical section.                                                       *)
(***************************************************************************)
EXTENDS Integers, FiniteSets, Sequences, SequencesExt

CONSTANTS Bits,                     \* width of a machine word
          MaxLen                    \* longest vector (a bound)

ASSUME SizesAssumption == Bits \in Nat \ {0} /\ MaxLen \in Nat

\* A word, from its lowest bit up.
Word == [0..(Bits - 1) -> {0, 1}]

Key == Word \X Word

VARIABLES connections,              \* the vector, here of keys
          listed,                   \* how often each key was inserted and kept
          search                    \* the call in progress and its binary search

vars == <<connections, listed, search>>

Idle == [op |-> "none"]

Search == {Idle} \cup
  [op : {"insert", "remove"}, key : Key, bound : {"lower", "upper"},
   first : 0..MaxLen, len : 0..MaxLen, lower : 0..MaxLen]

-------------------------------------------------------------------------------
(* Keys *)

\* Operators < and ^ of unsigned integers.
Below(v, w) == \E i \in DOMAIN v : v[i] < w[i] /\ \A j \in DOMAIN v : i < j => v[j] = w[j]

ExclusiveOr(v, w) == [i \in DOMAIN v |-> IF v[i] = w[i] THEN 0 ELSE 1]

\* Mutants: the well-known shortcut without its first test, and one that
\* looks at the function pointer only when the instances agree.
ShortcutLess(lhs, rhs) ==
  LET x == ExclusiveOr(lhs[1], rhs[1])
      y == ExclusiveOr(lhs[2], rhs[2])
      k == IF Below(x, ExclusiveOr(x, y)) THEN 2 ELSE 1
  IN  Below(lhs[k], rhs[k])

LexicographicLess(lhs, rhs) ==
  LET k == IF lhs[1] = rhs[1] THEN 2 ELSE 1 IN Below(lhs[k], rhs[k])

\* Z_Order::operator().
Less(lhs, rhs) ==
  LET x == ExclusiveOr(lhs[1], rhs[1])
      y == ExclusiveOr(lhs[2], rhs[2])
      k == IF Below(x, y) /\ Below(x, ExclusiveOr(x, y)) THEN 2 ELSE 1
  IN  Below(lhs[k], rhs[k])

-------------------------------------------------------------------------------
(* insert and remove *)

Init ==
  /\ connections = <<>>
  /\ listed = [key \in Key |-> 0]
  /\ search = Idle

\* std::upper_bound and std::lower_bound begin with the whole vector.
SearchFor(op, key, bound, lower) ==
  search' = [op |-> op, key |-> key, bound |-> bound,
             first |-> 0, len |-> Len(connections), lower |-> lower]

BeginInsert(key) ==
  /\ search = Idle /\ Len(connections) < MaxLen
  /\ SearchFor("insert", key, "upper", 0)
  /\ UNCHANGED <<connections, listed>>

BeginRemove(key) ==
  /\ search = Idle
  /\ SearchFor("remove", key, "lower", 0)
  /\ UNCHANGED <<connections, listed>>

\* The position searched lies behind an element.
Ahead(e) ==
  IF search.bound = "lower" THEN Less(e, search.key) ELSE ~Less(search.key, e)

\* One turn of the loop of a search.
Halve ==
  /\ search # Idle /\ search.len > 0
  /\ LET half == search.len \div 2
         mid  == search.first + half
     IN  search' = IF Ahead(connections[mid + 1])
                   THEN [search EXCEPT !.first = mid + 1, !.len = @ - half - 1]
                   ELSE [search EXCEPT !.len = half]
  /\ UNCHANGED <<connections, listed>>

Found(op, bound) == search.op = op /\ search.bound = bound /\ search.len = 0

\* Observer::insert: emplace.
Insert ==
  /\ search # Idle /\ Found("insert", "upper")
  /\ connections' = InsertAt(connections, search.first + 1, search.key)
  /\ listed' = [listed EXCEPT ![search.key] = @ + 1]
  /\ search' = Idle

\* std::equal_range: the upper bound after the lower one.
FindUpper ==
  /\ search # Idle /\ Found("remove", "lower")
  /\ SearchFor("remove", search.key, "upper", search.first)
  /\ UNCHANGED <<connections, listed>>

\* Mutant: only the first element of the equal range is erased.
EraseOne ==
  /\ search # Idle /\ Found("remove", "upper")
  /\ connections' = IF search.lower < search.first
                    THEN RemoveAt(connections, search.lower + 1) ELSE connections
  /\ listed' = [listed EXCEPT ![search.key] = 0]
  /\ search' = Idle

\* Observer::remove: erase.
Erase ==
  /\ search # Idle /\ Found("remove", "upper")
  /\ connections' = SubSeq(connections, 1, search.lower)
                      \o SubSeq(connections, search.first + 1, Len(connections))
  /\ listed' = [listed EXCEPT ![search.key] = 0]
  /\ search' = Idle

Next ==
  \/ \E key \in Key : BeginInsert(key) \/ BeginRemove(key)
  \/ Halve \/ FindUpper
  \/ Insert \/ Erase

Spec == Init /\ [][Next]_vars

-------------------------------------------------------------------------------
(* Properties *)

\* The Morton code of a key: the bits of both words interleaved, the instance
\* in the higher places.
Morton(key) ==
  [j \in 0..(2 * Bits - 1) |-> IF j % 2 = 1 THEN key[1][j \div 2] ELSE key[2][j \div 2]]

\* The keys that the searches compare.
Compared == ToSet(connections) \cup (IF search = Idle THEN {} ELSE {search.key})

\* Z_Order, which never computes a Morton code, compares keys by it: among
\* the keys the searches meet it is a strict total order, without which they
\* mean nothing.
ComparesByMorton ==
  \A a, b \in Compared : Less(a, b) <=> Below(Morton(a), Morton(b))

\* The vector stays sorted through every mixture of inserts and erasures.
SortedByMorton ==
  \A i, j \in DOMAIN connections :
    i < j => ~Below(Morton(connections[j]), Morton(connections[i]))

\* insert and remove keep exactly the keys they should: nothing is lost to a
\* search that looked on the wrong side, no erased key lingers and no other
\* key is erased with it.
KeepsTheKeys ==
  \A key \in Key : listed[key] = Cardinality({i \in DOMAIN connections : connections[i] = key})
===============================================================================
