\* P = 2^5 - 3, elements of 6 bits, scalars of two 3-bit bytes.
SPECIFICATION FairSpec
CONSTANTS
  P = 29
  C = 3
  A24 = 3
  NB = 2
  W = 3
  Cofactor = 1
  BasePoint = 9
  InputU <- SmallU
  InputScalar <- AllScalars
  Leftover <- SmallLeftover
INVARIANTS
  TypeOK
  OperandContract
  LoopInvariant
  ResultCorrect
PROPERTIES
  ImplementsLadder
  CallReturns
