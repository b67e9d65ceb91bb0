CONSTANTS
  MAXINT = 1
  ObjectSize = {0, 1, 3}
  MaxObjects = 3
SPECIFICATION SizesSpec

INVARIANTS
    SizesAreOfUpdate
