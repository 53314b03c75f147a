SPECIFICATION Spec
CONSTANTS
  Vectors = {v1, v2}
  Buffers = {b1, b2}
  Ids = {i1, i2, i3}
  Null = Null
  Junk = Junk
  Internal = Internal
  InternalSize = 3
  DefaultCapacity = 1
  Texts <- MCTexts
  Capacities = {0}
  MaxText = 3
  MaxLength = 2
INVARIANT TerminatorInPlace
SYMMETRY Interchangeable
CHECK_DEADLOCK FALSE
