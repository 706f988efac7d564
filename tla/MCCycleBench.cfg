\* Timers of 8 values, an interrupt every 5 cycles, batches of 3.
SPECIFICATION CycleSpec
CONSTANTS
  Base = 8
  Digit = 4
  Period = 5
  Handler = 2
  Steals = 2
  BatchN = 3
  Body <- MCBody
INVARIANTS
  CycleCountRight
  JiffiesRight
  CallerRestored
