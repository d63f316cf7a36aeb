\* A client, another peer, two timelines.
CONSTANTS
    NULL = NULL
    IdentModulus = 16
    TickModulus = 64
    client = client
    Peers = {client, p2}
    Produced <- MCTwo
    Calls <- MCCalls
    MaxQueue = 1
    MaxPipe = 1
SPECIFICATION Spec
INVARIANTS OneAnswer ReceivedWasPublished GivesUpWhenTold LateComersAreServed
PROPERTIES ServerIsServer ClientIsClient
CHECK_DEADLOCK FALSE
