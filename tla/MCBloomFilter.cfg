CONSTANTS
    f1 = f1
    f2 = f2
    b1 = b1
    b2 = b2
    e1 = e1
    e2 = e2
    Filter = {f1, f2}
    Block = {b1, b2}
    Element = {e1, e2}
    MaxK = 2
    Size <- MCSize
    MaxSize = 31
    MaxUInt = 8
    Hash <- MCHash
    MaxHeld = 2
SPECIFICATION Spec
SYMMETRY Symmetry

INVARIANTS
    NoFalseNegatives
