\* Frames that end too early.
CONSTANTS
    NULL = NULL
    IdentModulus = 16
    TickModulus = 32
    Sources <- MCSources
    Statuses <- MCStatuses
    Foreign <- MCCut
    Edited <- MCNone
    MaxWire = 2
SPECIFICATION Spec
INVARIANTS MalformedIsReported
