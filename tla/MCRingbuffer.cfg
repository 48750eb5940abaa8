\* Three bytes of room (not a power of two) and requests of up to four.
CONSTANTS
  Byte = {0, 1}
  Size = 3
  Word = 6
  Request <- RequestUpTo4
SPECIFICATION Spec
INVARIANTS TypeOK CopiesInBounds
PROPERTY ImplementsFifo
