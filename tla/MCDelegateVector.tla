--------------------------- MODULE MCDelegateVector ---------------------------
EXTENDS DelegateVector, FiniteSetsExt, Bitwise

\* The number with these bits.
Value(w) == MapThenSumSet(LAMBDA i : w[i] * 2^i, DOMAIN w)

\* The operators on bits are those of unsigned integers.
ASSUME BitsAreNumbers ==
  \A v, w \in Word : /\ Below(v, w) <=> Value(v) < Value(w)
                     /\ Value(ExclusiveOr(v, w)) = Value(v) ^^ Value(w)
===============================================================================
