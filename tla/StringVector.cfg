SPECIFICATION Spec
CONSTANTS
  Vectors = {v1, v2}
  Buffers = {b1, b2}
  Ids = {i1, i2, i3}
  Null = Null
  Junk = Junk
  Internal = Internal
  InternalSize = 2
  DefaultCapacity = 1
  Texts <- MCTexts
  Capacities = {0}
  MaxText = 2
  MaxLength = 2
INVARIANTS TypeOK VectorsInBounds OwnedOnce
PROPERTY ImplementsLists
SYMMETRY Interchangeable
CHECK_DEADLOCK FALSE
