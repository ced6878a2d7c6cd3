SPECIFICATION Spec
CONSTANTS
    Keys = {k1}
    MaxObjects = 4
    InitialSize = 1
    Nil = Nil
INVARIANT EverythingIsFreed
CHECK_DEADLOCK FALSE
