\* The instance of MCCycleBench.cfg, against what the documentation says of the display.
SPECIFICATION CycleSpec
CONSTANTS
  Base = 8
  Digit = 4
  Period = 5
  Handler = 2
  Steals = 2
  BatchN = 3
  Body <- MCBody
INVARIANT FiguresUndisturbed
