\* A source tree that assembles, one edited from it and one that does not assemble; two settings
\* of the knobs, interchangeable; an edit and another make during a recording.
SPECIFICATION Spec
CONSTANTS
  Sources = {tree1, tree2, broken}
  Broken = {broken}
  Knobs = {plain, tuned}
  MaxEdits = 1
  MaxMakes = 1
SYMMETRY Interchangeable
INVARIANT RebuiltFirst
