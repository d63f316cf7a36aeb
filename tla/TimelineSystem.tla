--------------------------- MODULE TimelineSystem ---------------------------
(***************************************************************************)
(* A timeline client and the timeline server it talks to, composed over    *)
(* the network between its DEALER and the server's ROUTER.  Other peers,   *)
(* the server's caller and the client's owner do what they do in           *)
(* DaxTimelineServer and DaxTimelineClient; only what these two modules    *)
(* assume of each other is replaced by the other module: the client's      *)
(* SEND_TIMELINE is what comes in from the peer "client", and what goes    *)
(* out to it is what the client receives.  Neither process is interrupted. *)
(***************************************************************************)
EXTENDS DaxTimeline

CONSTANTS Peers,        \* identities of the sockets that talk to the ROUTER
          client,       \* the one that is the DEALER of the client
          Produced,     \* the timelines the server's caller hands over
          Calls,        \* what the owner may do with the client
          MaxQueue,     \* bound: messages in flight between a peer and the server
          MaxPipe       \* bound: commands, messages, frames in one queue

\* What the two sides take each other to send.
Requests == {[frame |-> BareFrame(SEND_TIMELINE), parts |-> 1]}
Answers  == {SendFrame(Encode(Produced[i], NewCodec)) : i \in DOMAIN Produced}
            \cup {SendFrame(WithId(WithStatus(NewCodec, NOT_FOUND), ERROR))}

Timeouts == {}          \* the server's configuration stays as it is
Connects == {TRUE}      \* the hook connect_to_server connects the DEALER

VARIABLES timeline, message, clients, ticket, timeout, loop, leftover,
          interrupted, caller, made, pipe, published, inbox, outbox, gone,
          owner, loc, state, fsm_stopped, cmessage, cmdpipe, replies, msgpipe,
          dealer, requested, cinterrupted,
          late      \* history: the client asked after the first publication

Server == INSTANCE DaxTimelineServer
Client == INSTANCE DaxTimelineClient WITH message     <- cmessage,
                                          interrupted <- cinterrupted

\* What the two modules assume of their constants.
ASSUME SystemAssumption ==
    /\ client \in Peers
    /\ Produced \in Seq(Timeline)
    /\ NULL \notin Timeline /\ NULL \notin Chunk
    /\ Calls \subseteq Client!Call
    /\ MaxQueue \in Nat \ {0}
    /\ MaxPipe \in Nat \ {0}

serverVars == <<timeline, message, clients, ticket, timeout, loop, leftover,
                interrupted, caller, made, pipe, published, inbox, outbox, gone>>
clientVars == <<owner, loc, state, fsm_stopped, cmessage, cmdpipe, replies,
                msgpipe, dealer, requested, cinterrupted>>
vars == <<serverVars, clientVars, late>>

Init == Server!Init /\ Client!Init /\ late = FALSE

-----------------------------------------------------------------------------
(* Steps of both. *)

\* The client's SEND_TIMELINE.  After the end of the server the DEALER keeps
\* it for a peer that does not come back.
Asks ==
    /\ Client!HandleConnect
    /\ requested' > requested
    /\ late' = (published # <<>>)
    /\ IF loop = "exited" THEN UNCHANGED serverVars
       ELSE /\ inbox' = [inbox EXCEPT ![client] =
                            Append(@, [frame |-> SendFrame(cmessage'),
                                       parts |-> 1])]
            /\ UNCHANGED <<timeline, message, clients, ticket, timeout, loop,
                           leftover, interrupted, caller, made, pipe, published,
                           outbox, gone>>

\* An answer arrives.
Delivers ==
    /\ Len(dealer) < MaxPipe
    /\ Client!MsgpipeOpen
    /\ Server!PeerRecv(client)
    /\ dealer' = Append(dealer, Head(outbox[client]))
    /\ UNCHANGED <<owner, loc, state, fsm_stopped, cmessage, cmdpipe, replies,
                   msgpipe, requested, cinterrupted, late>>

\* The client closes its DEALER.
Leaves == Client!CloseSockets /\ Server!PeerLeave(client) /\ UNCHANGED late

(* Steps of one side. *)

ServerSide ==
    /\ \/ \E p \in Peers \ {client} : \/ Server!PeerSend(p)
                                      \/ Server!PeerRecv(p)
                                      \/ Server!PeerLeave(p)
       \/ \E p \in Peers : \/ Server!HandleProtocol(p)
                           \/ Server!TicketElapses(p)
                           \/ Server!ClientExpires(p)
       \/ Server!CallerNewTimeline
       \/ Server!CallerDestroys
       \/ Server!HandlePipe
       \/ Server!StartDrain
       \/ Server!EndDrain
    /\ UNCHANGED <<clientVars, late>>

ClientSide ==
    /\ \/ \E call \in Calls : Client!Begin(call)
       \/ Client!OwnerStep
       \/ Client!HandleCmdpipe /\ requested' = requested
       \/ Client!StartHandler
       \/ Client!EndHandler
       \/ Client!ReadMsgpipe
       \/ Client!ReadDealer
       \/ Client!SignalEnd
       \/ Client!CloseCmdpipe
    /\ UNCHANGED <<serverVars, late>>

\* Both are over.
Over == loop = "exited" /\ loc = "ended" /\ UNCHANGED vars

Next == Asks \/ Delivers \/ Leaves \/ ServerSide \/ ClientSide \/ Over

Spec == Init /\ [][Next]_vars

\* Both sides are as fair as they are alone, and the network delivers.
Fairness == Server!Fairness /\ Client!Fairness /\ WF_vars(Delivers)

FairSpec == Spec /\ Fairness

-----------------------------------------------------------------------------
(* Properties. *)

\* Each side is the environment the other was modelled with: the client sends
\* what a peer may send, when it may; what reaches the client are frames of
\* "Answers", after it asked.  So what the two modules promise holds here.
ServerIsServer == Server!Init /\ [][Server!Next]_serverVars
ClientIsClient == Client!Init /\ [][Client!Next]_clientVars

Answered == cmessage.id \in {TIMELINE, ERROR}

\* One request, one answer: between the two sides there is never more than what
\* the client asked for, the answer it has got included.
OneAnswer ==
    Len(inbox[client]) + Len(outbox[client]) + Len(dealer)
        + (IF Answered THEN 1 ELSE 0) <= requested

\* The timeline a client has received is one that was published, in all its
\* fields, through both codec objects and whatever other peers asked for.
ReceivedWasPublished ==
    cmessage.id = TIMELINE =>
        \E i \in DOMAIN published : SendFrame(cmessage) = published[i]

\* A client whose owner does not destroy it gives up for one reason only: the
\* server told it that there is no timeline.
GivesUpWhenTold ==
    loc = "leaving" /\ owner \notin {"collect", "gone"}
        => cmessage.id = ERROR /\ cmessage.status = NOT_FOUND

\* Who asks after the first publication is served: there is no gap between the
\* two channels, in which one who came too late for the publication were told
\* that there is no timeline.
LateComersAreServed == late => cmessage.id # ERROR

\* What the safety of the whole rests on: no timeline of the caller has the
\* ident of an empty codec object, and none shares its ident with another.
DistinctIdents == Server!IdentsAreSet /\ Server!IdentsIdentify

\* Who asks gets an answer, unless one of the two goes first, whatever the
\* server's caller and the other peers do.
AskedIsAnswered ==
    requested > 0 ~> (Answered \/ loop = "exited" \/ ~Client!Running)
=============================================================================
