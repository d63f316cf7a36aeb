\* One timeline in the pipe, two in the caller's hands, one in the server's.
CONSTANTS
    NULL = NULL
    Sizes <- MCSizes
    MaxPipe = 2
    MaxHeld = 3
    MaxStray = 2
VIEW Shape
SPECIFICATION Spec
INVARIANTS TypeOK NoFault SingleOwner OnlyEmptyArraysLeak
CHECK_DEADLOCK FALSE
