\* Everything owner and server may do; the actor may stay
\* in a send or end while its owner goes on.
CONSTANTS
    NULL = NULL
    Connects <- MCEither
    Calls <- MCAll
    Answers <- MCAnswers
    MaxPipe = 2
SPECIFICATION FairSpec
INVARIANTS TypeOK FlushIsComplete DestroyedAfterEnd AsksOnce
PROPERTIES DestroyReturnsWhileAlive
CHECK_DEADLOCK FALSE
