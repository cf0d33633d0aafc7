SPECIFICATION Spec
CONSTANTS
  Editors = {e1}
  Slots = {s1, s2}
  MaxEdits = 3
  Idle = Idle
SYMMETRY Symmetry
 
PROPERTY ImplementsAtomicFiles
CHECK_DEADLOCK FALSE
