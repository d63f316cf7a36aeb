\* Encode, send, receive and decode, with whole and cut frames of other senders
\* and texts written by hand in between.
CONSTANTS
    NULL = NULL
    IdentModulus = 16
    TickModulus = 32
    Sources <- MCSources
    Statuses <- MCStatuses
    Foreign <- MCForeign
    Edited <- MCEdited
    MaxWire = 2
SPECIFICATION Spec
INVARIANTS TypeOK RoundTrip SentCanBeDecoded
PROPERTIES TextKeepsMessage
