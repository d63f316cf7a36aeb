\* A timeline whose ident was never set.
CONSTANTS
    NULL = NULL
    IdentModulus = 16
    TickModulus = 64
    Peers = {p1}
    Produced <- MCUnnamed
    Requests <- MCAsk
    Timeouts <- MCNone
    MaxQueue = 1
    MaxPipe = 1
SPECIFICATION Spec
PROPERTIES AnswerIsCurrent
