\* What the restore comment of reu_probe promises.
SPECIFICATION Spec
CONSTANTS
  RB = 2
  MaxFailures = 1
INVARIANTS ProbeUndisturbed
