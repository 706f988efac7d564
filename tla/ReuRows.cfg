\* Two rows to a bank, four rows; at most one transfer fails.
SPECIFICATION Spec
CONSTANTS
  RB = 2
  MaxFailures = 1
INVARIANTS
  RowRight
  ProbeVerdict
PROPERTIES
  ForeignBanksKept
