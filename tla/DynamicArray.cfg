\* Three keys in an array that starts with one pair and is doubled twice;
\* eight strings are four sets, so that one of them replaces a value, before, between or
\* after the doublings.
SPECIFICATION Spec
CONSTANTS
    Keys = {k1, k2, k3}
    MaxObjects = 8
    InitialSize = 1
    Nil = Nil
INVARIANTS TypeOK WithinCapacity PairsAreSeparate RegionIsOfItsValue
PROPERTY IsMap
CHECK_DEADLOCK FALSE
