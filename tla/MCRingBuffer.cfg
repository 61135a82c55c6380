CONSTANTS
  Event = {e1, e2, e3}
  Nil = Nil
  Capacity = 3
  BatchSize = 2
SPECIFICATION Spec
INVARIANTS
  TypeOK
  WindowInv
PROPERTY RefinesFIFO
