\* One field for all byte loops; three interchangeable buffers for the masked ones.
SPECIFICATION ByteSpec
CONSTANTS
  P = 3886
  C = 2
  A24 = 65
  B = 6
  N = 5
  Operands <- MCOperands
  Unroll = 5
  SqrDmaKs = {0, 3}
  Buffers = {b1, b2, b3}
  Top = 254
  Other = {"x25_z2", "x25_result"}
SYMMETRY Interchangeable
INVARIANTS
  RowsExact
  SumsExact
  NoCarryLost
  FoldsExact
  A24Exact
  DecisionRight
  OperationExact
  InverseRight
  FrameKept
