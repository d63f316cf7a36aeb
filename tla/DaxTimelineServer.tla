------------------------- MODULE DaxTimelineServer --------------------------
(***************************************************************************)
(* The timeline server actor: dax_timeline_server.c with the engine        *)
(* generated around it (dax_timeline_server_engine.inc).  One thread runs  *)
(* a reactor over three things: the pipe from its caller, the ROUTER       *)
(* socket its peers talk to, and one expiry ticket per client record.      *)
(* Callbacks do not overlap, but they share one codec object, "message",   *)
(* into which every peer's message is received and from which every        *)
(* answer is sent.                                                         *)
(***************************************************************************)
EXTENDS DaxTimeline

CONSTANTS Peers,        \* identities of the sockets that talk to the ROUTER
          Produced,     \* the timelines the caller hands over, in this order
          Requests,     \* what peers may send: [frame |-> ., parts |-> .]
          Timeouts,     \* the values the caller may SET server/timeout to
          MaxQueue,     \* bound: messages in flight between a peer and the server
          MaxPipe       \* bound: commands in the pipe

DefaultTimeout == 60000

\* One data part, or two as a REQ socket sends them.  More parts, the third of
\* which would be read as the message behind a wrong routing id, are left out.
Request == [frame : Frame, parts : 1..2]

ASSUME ServerAssumption ==
    /\ Produced \in Seq(Timeline)
    /\ NULL \notin Timeline /\ NULL \notin Chunk
    /\ Requests \subseteq Request
    /\ Timeouts \subseteq Nat
    /\ MaxQueue \in Nat \ {0}
    /\ MaxPipe \in Nat \ {0}

VARIABLES
    timeline,       \* server_t.timeline
    message,        \* s_server_t.message, the shared codec object
    clients,        \* keys of s_server_t.clients
    ticket,         \* ticket[p]: expiry ticket of p's client record
    timeout,        \* s_server_t.timeout
    loop,           \* where the reactor is
    leftover,       \* a part of the last multipart message is still unread
    interrupted,    \* zsys_interrupted
    caller,         \* "live", or "destroying" once it destroys the actor
    made,           \* how many of Produced the caller has handed over
    pipe,           \* commands in the pipe
    published,      \* frames sent on the PUB socket
    inbox,          \* inbox[p]: messages of p the ROUTER holds
    outbox,         \* outbox[p]: answers on their way to p
    gone            \* peers that closed their socket

serverVars == <<timeline, message, clients, ticket, timeout, loop, leftover>>
callerVars == <<caller, made>>
netVars    == <<inbox, outbox, gone>>
vars == <<serverVars, callerVars, netVars, pipe, published, interrupted>>

Command == [method : {"NEW TIMELINE"}, timeline : Timeline]
             \cup [method : {"SET"}, value : Nat]
             \cup [method : {"$TERM"}]

TypeOK ==
    /\ timeline \in {NULL} \cup Timeline
    /\ message \in Codec
    /\ clients \subseteq Peers
    /\ ticket \in [Peers -> {"none", "armed", "due"}]
    /\ timeout \in Nat
    /\ loop \in {"poll", "draining", "exited"}
    /\ leftover \in BOOLEAN
    /\ interrupted \in BOOLEAN
    /\ caller \in {"live", "destroying"}
    /\ made \in 0..Len(Produced)
    /\ pipe \in Seq(Command)
    /\ published \in Seq(Frame)
    /\ inbox \in [Peers -> Seq(Requests)]
    /\ outbox \in [Peers -> Seq(Frame)]
    /\ gone \subseteq Peers

\* s_server_new and server_initialize.
Init ==
    /\ timeline = NULL
    /\ message = NewCodec
    /\ clients = {}
    /\ ticket = [p \in Peers |-> "none"]
    /\ timeout = DefaultTimeout
    /\ loop = "poll"
    /\ leftover = FALSE
    /\ interrupted = FALSE
    /\ caller = "live"
    /\ made = 0
    /\ pipe = <<>>
    /\ published = <<>>
    /\ inbox = [p \in Peers |-> <<>>]
    /\ outbox = [p \in Peers |-> <<>>]
    /\ gone = {}

-----------------------------------------------------------------------------
(* The peers: sockets outside the actor. *)

InFlight(p) == Len(inbox[p]) + Len(outbox[p])

PeerSend(p) ==
    /\ loop # "exited"
    /\ p \notin gone
    /\ InFlight(p) < MaxQueue
    /\ \E r \in Requests : inbox' = [inbox EXCEPT ![p] = Append(@, r)]
    /\ UNCHANGED <<serverVars, callerVars, outbox, gone, pipe, published,
                   interrupted>>

PeerRecv(p) ==
    /\ outbox[p] # <<>>
    /\ outbox' = [outbox EXCEPT ![p] = Tail(@)]
    /\ UNCHANGED <<serverVars, callerVars, inbox, gone, pipe, published,
                   interrupted>>

\* The socket closes: what was on its way to it is dropped, what it sent is
\* still delivered.
PeerLeave(p) ==
    /\ p \notin gone
    /\ gone' = gone \cup {p}
    /\ outbox' = [outbox EXCEPT ![p] = <<>>]
    /\ UNCHANGED <<serverVars, callerVars, inbox, pipe, published, interrupted>>

-----------------------------------------------------------------------------
(* The caller: the thread that owns the actor. *)

CallerSends(command) ==
    /\ loop # "exited"
    /\ Len(pipe) < MaxPipe
    /\ pipe' = Append(pipe, command)
    /\ UNCHANGED <<serverVars, netVars, published, interrupted>>

\* zsock_send (server, "sp", "NEW TIMELINE", tl); tl = NULL;
CallerNewTimeline ==
    /\ caller = "live"
    /\ made < Len(Produced)
    /\ CallerSends([method |-> "NEW TIMELINE", timeline |-> Produced[made + 1]])
    /\ made' = made + 1
    /\ UNCHANGED caller

CallerSet(v) ==
    /\ caller = "live"
    /\ CallerSends([method |-> "SET", value |-> v])
    /\ UNCHANGED callerVars

\* zactor_destroy asks the actor to end.
CallerDestroys ==
    /\ caller = "live"
    /\ CallerSends([method |-> "$TERM"])
    /\ caller' = "destroying"
    /\ UNCHANGED made

\* The process gets SIGINT.
Signal ==
    /\ ~interrupted
    /\ interrupted' = TRUE
    /\ UNCHANGED <<serverVars, callerVars, netVars, pipe, published>>

-----------------------------------------------------------------------------
(* The reactor ends: zloop_start returns and s_server_destroy frees the    *)
(* client records, their tickets, the timeline and the sockets, whose      *)
(* unsent answers are dropped.                                             *)

Exit ==
    /\ loop' = "exited"
    /\ timeline' = NULL
    /\ message' = NewCodec
    /\ clients' = {}
    /\ ticket' = [p \in Peers |-> "none"]
    /\ leftover' = FALSE
    /\ pipe' = <<>>
    /\ inbox' = [p \in Peers |-> <<>>]
    /\ \E kept \in [Peers -> 0..MaxQueue] :
          /\ \A p \in Peers : kept[p] <= Len(outbox[p])
          /\ outbox' = [p \in Peers |-> SubSeq(outbox[p], 1, kept[p])]
    /\ UNCHANGED <<timeout, callerVars, gone, published, interrupted>>

\* A poll or a receive that returns because of the signal.
Interrupted == loop # "exited" /\ interrupted /\ Exit

-----------------------------------------------------------------------------
(* The pipe: s_server_handle_pipe and server_method.  One command per      *)
(* callback.                                                               *)

PipeReady(method) == /\ loop = "poll"
                     /\ pipe # <<>>
                     /\ Head(pipe).method = method

\* Mutants: the new timeline is published and not kept; it is not published.
HandleNewTimelineUnkept ==
    /\ PipeReady("NEW TIMELINE")
    /\ published' = Append(published,
                           SendFrame(Encode(Head(pipe).timeline, NewCodec)))
    /\ pipe' = Tail(pipe)
    /\ UNCHANGED <<timeline, message, clients, ticket, timeout, loop, leftover,
                   callerVars, netVars, interrupted>>
HandleNewTimelineSilently ==
    /\ PipeReady("NEW TIMELINE")
    /\ timeline' = Head(pipe).timeline
    /\ pipe' = Tail(pipe)
    /\ UNCHANGED <<message, clients, ticket, timeout, loop, leftover, published,
                   callerVars, netVars, interrupted>>

\* NEW TIMELINE: replace the timeline, then publish it from a fresh codec.  A
\* command without a frame, or with one that holds no pointer, is reported and
\* used all the same, which stops the process; nobody in the tree sends one.
HandleNewTimeline ==
    /\ PipeReady("NEW TIMELINE")
    /\ timeline' = Head(pipe).timeline
    /\ published' = Append(published,
                           SendFrame(Encode(Head(pipe).timeline, NewCodec)))
    /\ pipe' = Tail(pipe)
    /\ UNCHANGED <<message, clients, ticket, timeout, loop, leftover,
                   callerVars, netVars, interrupted>>

\* SET server/timeout, then s_server_config_global.  Tickets that exist stay.
HandleSet ==
    /\ PipeReady("SET")
    /\ timeout' = Head(pipe).value
    /\ pipe' = Tail(pipe)
    /\ UNCHANGED <<timeline, message, clients, ticket, loop, leftover,
                   callerVars, netVars, published, interrupted>>

\* Mutant: $TERM is looked for behind other commands.
HandleTermAtOnce ==
    /\ loop = "poll"
    /\ pipe # <<>>
    /\ pipe[Len(pipe)].method = "$TERM"
    /\ Exit

HandleTerm == PipeReady("$TERM") /\ Exit

HandlePipe == HandleNewTimeline \/ HandleSet \/ HandleTerm

-----------------------------------------------------------------------------
(* The ROUTER: s_server_handle_protocol receives as long as the socket has *)
(* input, so nothing else runs in between.                                 *)

Pending == leftover \/ \E p \in Peers : inbox[p] # <<>>

\* Mutant: the pipe has priority over the peers.
StartDrainWhenPipeIdle ==
    /\ loop = "poll"
    /\ Pending
    /\ pipe = <<>>
    /\ loop' = "draining"
    /\ UNCHANGED <<timeline, message, clients, ticket, timeout, leftover,
                   callerVars, netVars, pipe, published, interrupted>>

StartDrain ==
    /\ loop = "poll"
    /\ Pending
    /\ loop' = "draining"
    /\ UNCHANGED <<timeline, message, clients, ticket, timeout, leftover,
                   callerVars, netVars, pipe, published, interrupted>>

EndDrain ==
    /\ loop = "draining"
    /\ ~Pending
    /\ loop' = "poll"
    /\ UNCHANGED <<timeline, message, clients, ticket, timeout, leftover,
                   callerVars, netVars, pipe, published, interrupted>>

\* The unread part is taken for a routing id with no message behind it: -1.
BrokenEnvelope == loop = "draining" /\ leftover /\ Exit

\* s_client_new arms a ticket if timeouts are in use when the record is made;
\* later input resets the ticket the record has, if any.
TicketOnInput(p) ==
    IF p \in clients
    THEN IF ticket[p] = "none" THEN "none" ELSE "armed"
    ELSE IF timeout = 0 THEN "none" ELSE "armed"

Remember(p) == /\ clients' = clients \cup {p}
               /\ ticket' = [ticket EXCEPT ![p] = TicketOnInput(p)]

\* Mutant: the ticket outlives the record.
ForgetButTicket(p) == clients' = clients \ {p} /\ UNCHANGED ticket

\* terminate: zhash_delete runs s_client_destroy, which deletes the ticket.
Forget(p) == /\ clients' = clients \ {p}
             /\ ticket' = [ticket EXCEPT ![p] = "none"]

\* The codec object after the head of p's queue has been received into it.
Received(p) == RecvInto(message, Head(inbox[p]).frame)
Rc(p)       == RecvRc(Head(inbox[p]).frame)

Receive(p) ==
    /\ loop = "draining"
    /\ ~leftover
    /\ inbox[p] # <<>>
    /\ inbox' = [inbox EXCEPT ![p] = Tail(@)]
    /\ leftover' = (Head(inbox[p]).parts > 1)
    /\ UNCHANGED <<timeline, timeout, loop, callerVars, gone, pipe, published,
                   interrupted>>

\* Mutant: the answer goes out twice.
AnswerTwice(p, m) ==
    /\ message' = m
    /\ outbox' = IF p \in gone THEN outbox
                 ELSE [outbox EXCEPT ![p] = @ \o <<SendFrame(m), SendFrame(m)>>]

\* Set the id and the sender's routing id, send.  A ROUTER drops what is for
\* a peer that has gone.
Answer(p, m) ==
    /\ message' = m
    /\ outbox' = IF p \in gone THEN outbox
                 ELSE [outbox EXCEPT ![p] = Append(@, SendFrame(m))]

\* Mutants: the ident alone is brought up to date; only an object that never
\* held a timeline is encoded into.
CheckCurrentIdentOnly(m) ==
    [m EXCEPT !.ident = Unsigned(timeline.ident, IdentModulus)]
CheckCurrentOnce(m) == IF m.ident # 0 THEN m ELSE Encode(timeline, m)

\* check_current: encode unless the object seems to hold the timeline already.
CheckCurrent(m) ==
    IF m.ident = Unsigned(timeline.ident, IdentModulus) THEN m
    ELSE Encode(timeline, m)

\* s_protocol_event.
IsRequest(m) == m.id = SEND_TIMELINE

\* Malformed: "continue", after the record was made and its ticket reset.
Discard(p) ==
    /\ Receive(p)
    /\ Rc(p) = -2
    /\ Remember(p)
    /\ message' = Received(p)
    /\ UNCHANGED outbox

\* start, SEND_TIMELINE: check current, send TIMELINE, terminate.
ServeTimeline(p) ==
    /\ Receive(p)
    /\ Rc(p) = 0 /\ IsRequest(Received(p))
    /\ timeline # NULL
    /\ Answer(p, WithId(CheckCurrent(Received(p)), TIMELINE))
    /\ Forget(p)

\* Mutants: no_timeline sets no status; it sends nothing.
NoTimelineUntold(p) ==
    /\ Receive(p)
    /\ Rc(p) = 0 /\ IsRequest(Received(p))
    /\ timeline = NULL
    /\ Answer(p, WithId(Received(p), ERROR))
    /\ Remember(p)
NoTimelineSilently(p) ==
    /\ Receive(p)
    /\ Rc(p) = 0 /\ IsRequest(Received(p))
    /\ timeline = NULL
    /\ message' = Received(p)
    /\ Remember(p)
    /\ UNCHANGED outbox

\* start, no_timeline: send ERROR; the record stays.
NoTimeline(p) ==
    /\ Receive(p)
    /\ Rc(p) = 0 /\ IsRequest(Received(p))
    /\ timeline = NULL
    /\ Answer(p, WithId(WithStatus(Received(p), NOT_FOUND), ERROR))
    /\ Remember(p)

\* start, any other message: signal_command_invalid is empty; send ERROR,
\* terminate.
Refuse(p) ==
    /\ Receive(p)
    /\ Rc(p) = 0 /\ ~IsRequest(Received(p))
    /\ Answer(p, WithId(Received(p), ERROR))
    /\ Forget(p)

HandleProtocol(p) ==
    Discard(p) \/ ServeTimeline(p) \/ NoTimeline(p) \/ Refuse(p)

-----------------------------------------------------------------------------
(* Expiry. *)

TicketElapses(p) ==
    /\ ticket[p] = "armed"
    /\ ticket' = [ticket EXCEPT ![p] = "due"]
    /\ UNCHANGED <<timeline, message, clients, timeout, loop, leftover,
                   callerVars, netVars, pipe, published, interrupted>>

\* Mutant: the ticket is dead but the record is kept.
ClientExpiresInPart(p) ==
    /\ loop = "poll"
    /\ ticket[p] = "due"
    /\ ticket' = [ticket EXCEPT ![p] = "none"]
    /\ UNCHANGED <<clients, timeline, message, timeout, loop, leftover,
                   callerVars, netVars, pipe, published, interrupted>>

\* s_client_handle_ticket: expired, terminate.
ClientExpires(p) ==
    /\ loop = "poll"
    /\ ticket[p] = "due"
    /\ Forget(p)
    /\ UNCHANGED <<timeline, message, timeout, loop, leftover, callerVars,
                   netVars, pipe, published, interrupted>>

-----------------------------------------------------------------------------
\* The actor has returned; its thread is over.
Exited == loop = "exited" /\ UNCHANGED vars

Next ==
    \/ \E p \in Peers : \/ PeerSend(p)
                        \/ PeerRecv(p)
                        \/ PeerLeave(p)
                        \/ HandleProtocol(p)
                        \/ TicketElapses(p)
                        \/ ClientExpires(p)
    \/ CallerNewTimeline
    \/ \E v \in Timeouts : CallerSet(v)
    \/ CallerDestroys
    \/ Signal
    \/ Interrupted
    \/ HandlePipe
    \/ StartDrain
    \/ EndDrain
    \/ BrokenEnvelope
    \/ Exited

Spec == Init /\ [][Next]_vars

\* Fairness.  The actor's thread keeps running, and zloop, each time it polls,
\* calls the handlers of everything that is ready: what is ready again and
\* again at a poll is handled (SF), and so is a due ticket.  The ROUTER takes
\* its peers' messages in turn (SF for each peer).  Time passes (WF).
\* Nothing is assumed of peers, of the caller or of the signal.
Fairness ==
    /\ SF_vars(HandlePipe)
    /\ WF_vars(StartDrain)
    /\ WF_vars(EndDrain)
    /\ WF_vars(BrokenEnvelope)
    /\ WF_vars(Interrupted)
    /\ \A p \in Peers : /\ SF_vars(HandleProtocol(p))
                        /\ WF_vars(TicketElapses(p))
                        /\ SF_vars(ClientExpires(p))

FairSpec == Spec /\ Fairness

-----------------------------------------------------------------------------
(* Properties. *)

\* A ticket in the reactor always has a client record behind it: the callback
\* s_client_handle_ticket never runs on a record that was freed, whichever of
\* answer, refusal, expiry and new contact from the same peer came last.
NoDanglingTicket == \A p \in Peers : ticket[p] # "none" => p \in clients

\* Between callbacks the shared codec object never says SEND_TIMELINE: only
\* then is a frame too short to have a message id, which recv reports as a
\* success with the previous id, never taken for a request.
QuiescentId == message.id # SEND_TIMELINE

Contents(m) == <<m.sot, m.epochs, m.times>>

\* The test by which check_current skips the encoding is sound: whenever the
\* shared object has the ident of the current timeline, it has its intervals
\* and start too, through any order of replacements and messages, those with
\* timelines of other producers in them included, whole or cut short, which
\* are received over whatever is there.  A peer that sends another timeline
\* under an ident of the caller's breaks it (PeersKeepIdents).
CacheCoherent ==
    timeline # NULL /\ message.ident = Unsigned(timeline.ident, IdentModulus)
        => Contents(message) = Contents(Encode(timeline, message))

\* A TIMELINE answer is, octet for octet, a frame that was published before:
\* the reply path (shared codec, cached contents) and the publishing path (a
\* fresh codec) never disagree, and no peer gets ahead of the subscribers.
AnswersWerePublished ==
    \A p \in Peers : \A i \in DOMAIN outbox[p] :
        outbox[p][i].id = TIMELINE =>
            \E j \in DOMAIN published : outbox[p][i] = published[j]

\* What an answer tells its peer.
AnswerOf(f) ==
    IF f.id = TIMELINE
    THEN [ident |-> f.ident, sot |-> f.sot, epochs |-> f.epochs,
          times |-> f.times]
    ELSE [error |-> TRUE]

ViewOf(t) == [ident  |-> Unsigned(t.ident, IdentModulus),
              sot    |-> Unsigned(t.sot, TickModulus),
              epochs |-> t.epochs,
              times  |-> t.times]

\* When a TIMELINE answer leaves the server it tells of the timeline that is
\* current in that very step.
AnswerIsCurrent ==
    [][\A p \in Peers :
          Len(outbox'[p]) > Len(outbox[p]) =>
              LET f == outbox'[p][Len(outbox'[p])]
              IN  f.id = TIMELINE => /\ timeline # NULL
                                     /\ AnswerOf(f) = ViewOf(timeline)]_vars

\* The server's state as TimelineService has it.
NoView == [none |-> TRUE]

CurrentView == IF timeline = NULL THEN NoView ELSE ViewOf(timeline)

QuestionOf(r) == IF WellFormed(r.frame) /\ r.frame.id = SEND_TIMELINE
                 THEN "request" ELSE "other"

Questions == [p \in Peers |->
                [i \in DOMAIN inbox[p] |-> QuestionOf(inbox[p][i])]]

Told == [p \in Peers |-> [i \in DOMAIN outbox[p] |-> AnswerOf(outbox[p][i])]]

Serving == loop # "exited"

\* The server implements the register of TimelineService.
Service == INSTANCE TimelineService WITH
    Views    <- {ViewOf(Produced[i]) : i \in DOMAIN Produced},
    None     <- NoView,
    Sorry    <- [error |-> TRUE],
    current  <- CurrentView,
    asked    <- Questions,
    answers  <- Told,
    departed <- gone,
    serving  <- Serving

ImplementsService == Service!Spec

\* A peer's message is eventually read, or the server has ended (stated for
\* peers that wait for an answer before they send again, MaxQueue = 1).
MessagesAreRead ==
    \A p \in Peers : inbox[p] # <<>> ~> (inbox[p] = <<>> \/ loop = "exited")

\* The drain of the ROUTER comes to an end again and again.  Nothing but the
\* peers' silence makes it so: as long as some message is waiting, the drain
\* goes on and neither the pipe nor a ticket is looked at.
DrainsEnd == []<>(loop # "draining")

\* The record of a peer that went away does not outlive its ticket, whatever
\* else the other peers and the caller do meanwhile.
DepartedAreForgotten ==
    DrainsEnd => \A p \in Peers :
        (p \in gone /\ ticket[p] # "none") ~> (p \notin clients)

\* Once the caller destroys the actor, it ends, and by then every timeline that
\* was handed over is published, each once and in order: what is in the pipe
\* in front of $TERM is not lost, whatever the peers send meanwhile, unless an
\* interrupt or a broken envelope ends the reactor first.
TermEndsServer ==
    DrainsEnd /\ []~interrupted /\ []~leftover =>
        (caller = "destroying" ~>
            /\ loop = "exited"
            /\ published = [i \in 1..made |->
                               SendFrame(Encode(Produced[i], NewCodec))])

\* The server ends because it was told to.  A message in two parts is enough to
\* end it otherwise.
EndsOnlyWhenTold ==
    loop = "exited" => caller = "destroying" \/ interrupted

-----------------------------------------------------------------------------
(* What the properties rest on. *)

Handed == {Produced[i] : i \in DOMAIN Produced}

HandedIdents == {Unsigned(t.ident, IdentModulus) : t \in Handed}

\* A peer's TIMELINE message, whole or cut short, has an ident that none of the
\* caller's timelines has, or is one of them as it was published.  Its creation
\* time is 0, for dax_timeline_encode does not set it.
PeersKeepIdents ==
    \A r \in Requests : Carries(r.frame, TIMELINE, IdentRead) =>
        /\ r.frame.created = 0
        /\ \/ r.frame.ident \notin HandedIdents
           \/ \E t \in Handed : r.frame = SendFrame(Encode(t, NewCodec))

\* No timeline has the ident of a codec object that was never filled.
IdentsAreSet == 0 \notin HandedIdents

\* The ident identifies: two timelines that share it on the wire look alike.
IdentsIdentify ==
    \A t, u \in Handed :
        Unsigned(t.ident, IdentModulus) = Unsigned(u.ident, IdentModulus)
            => ViewOf(t) = ViewOf(u)
=============================================================================
