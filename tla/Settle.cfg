\* The shipped spin bound, and up to three transfers under way.
SPECIFICATION SettleFairSpec
CONSTANTS
  Iter = 8
  MaxPending = 3
INVARIANTS
  NothingUnderWay
  VerifyRecorded
PROPERTIES
  NoHastyTimeout
  SettleReturns
