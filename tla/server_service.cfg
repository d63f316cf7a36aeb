\* Two peers sharing the codec object, requests that queue up behind answers: the register of TimelineService.
CONSTANTS
    NULL = NULL
    IdentModulus = 16
    TickModulus = 64
    Peers = {p1, p2}
    Produced <- MCTwo
    Requests <- MCOthers
    Timeouts <- MCNone
    MaxQueue = 2
    MaxPipe = 1
SYMMETRY MCSymmetry
SPECIFICATION Spec
INVARIANTS TypeOK NoDanglingTicket QuiescentId AnswersWerePublished CacheCoherent
PROPERTIES AnswerIsCurrent ImplementsService
