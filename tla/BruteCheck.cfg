\* Bytes of two bits, elements of two bytes; the sweep is over sixteen pairs.
SPECIFICATION BruteSpec
CONSTANTS
  B = 4
  N = 2
INVARIANTS
  RowRight
  OnchipRight
  BruteExact
PROPERTIES
  TableKept
