\* Words of two bits already order keys by either word at either bit.
CONSTANTS
  Bits = 2
  MaxLen = 4
SPECIFICATION Spec
INVARIANTS ComparesByMorton SortedByMorton KeepsTheKeys
