CONSTANTS
    zero = zero
    six = six
    large = large
    other = other
    Ref = {one}
    one = one
    NoFile = NoFile
    AnyContent = AnyContent
    Name = {zero, six, large, other}
    IndexOf <- MCIndexOf
    NoIndex <- MCNoIndex
    Options <- MCOptions
    Present <- MCPresent
    Timestamps <- MCTimestamps
SPECIFICATION ClientSpec

INVARIANTS
    CheckAgrees

PROPERTIES
    CleanupIsExact
