\* A client that is sent ERROR.
CONSTANTS
    NULL = NULL
    Connects <- MCFilled
    Calls <- MCEnd
    Answers <- MCRefused
    MaxPipe = 2
SPECIFICATION FairSpec
PROPERTIES DestroyReturns
CHECK_DEADLOCK FALSE
