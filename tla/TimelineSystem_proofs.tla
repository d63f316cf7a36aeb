------------------------ MODULE TimelineSystem_proofs ------------------------
(* What TLAPS proves of TimelineSystem, for every value of its constants.    *)
(* What was proved of each side alone is used here of the side as it is in   *)
(* the composition, once the side is shown to take only steps of its own.    *)
EXTENDS TimelineSystem, DaxTimeline_proofs

S == INSTANCE DaxTimelineServer_refinement
C == INSTANCE DaxTimelineClient_proofs WITH message     <- cmessage,
                                            interrupted <- cinterrupted

-----------------------------------------------------------------------------
(* The two sides as their proofs have them. *)

\* S and Server are one module, and C and Client another, instantiated alike.
LEMMA SameServer == /\ Server!Init <=> S!Init
                    /\ Server!Next <=> S!Next
                    /\ S!vars = Server!vars
<1>1. S!vars = Server!vars
  BY DEF Server!vars, S!vars, Server!serverVars, S!serverVars,
         Server!callerVars, S!callerVars, Server!netVars, S!netVars
<1>2. Server!Init <=> S!Init
  BY DEF Server!Init, S!Init, Server!DefaultTimeout, S!DefaultTimeout,
      Server!NewCodec, S!NewCodec
<1>3. Server!Next <=> S!Next
  BY Zenon
  DEF Server!Next, S!Next, Server!HandlePipe, S!HandlePipe,
      Server!HandleProtocol, S!HandleProtocol, Server!Exited, S!Exited,
      Server!PeerSend, S!PeerSend, Server!InFlight, S!InFlight,
      Server!PeerRecv, S!PeerRecv, Server!PeerLeave, S!PeerLeave,
      Server!TicketElapses, S!TicketElapses, Server!ClientExpires,
      S!ClientExpires, Server!Discard, S!Discard, Server!Receive, S!Receive,
      Server!Received, S!Received, Server!Rc, S!Rc, Server!Remember,
      S!Remember, Server!TicketOnInput, S!TicketOnInput, Server!ServeTimeline,
      S!ServeTimeline, Server!NoTimeline, S!NoTimeline, Server!Refuse,
      S!Refuse, Server!Forget, S!Forget, Server!Answer, S!Answer,
      Server!CheckCurrent, S!CheckCurrent, Server!IsRequest, S!IsRequest,
      Server!CallerNewTimeline, S!CallerNewTimeline, Server!CallerSends,
      S!CallerSends, Server!CallerSet, S!CallerSet, Server!CallerDestroys,
      S!CallerDestroys, Server!Signal, S!Signal, Server!Interrupted,
      S!Interrupted, Server!Exit, S!Exit, Server!HandleNewTimeline,
      S!HandleNewTimeline, Server!PipeReady, S!PipeReady, Server!HandleSet,
      S!HandleSet, Server!HandleTerm, S!HandleTerm, Server!StartDrain,
      S!StartDrain, Server!EndDrain, S!EndDrain, Server!Pending, S!Pending,
      Server!BrokenEnvelope, S!BrokenEnvelope, Server!serverVars, S!serverVars,
      Server!callerVars, S!callerVars, Server!netVars, S!netVars, Server!vars,
      S!vars, Server!Encode, S!Encode, Server!Unsigned, S!Unsigned,
      Server!TIMELINE, S!TIMELINE, Server!SEND_TIMELINE, S!SEND_TIMELINE,
      Server!ERROR, S!ERROR, Server!NOT_FOUND, S!NOT_FOUND,
      Server!SignatureRead, S!SignatureRead, Server!IdRead, S!IdRead,
      Server!IdentRead, S!IdentRead, Server!CreatedRead, S!CreatedRead,
      Server!SotRead, S!SotRead, Server!EpochsSize, S!EpochsSize,
      Server!EpochsRead, S!EpochsRead, Server!TimesSize, S!TimesSize,
      Server!TimesRead, S!TimesRead, Server!StatusRead, S!StatusRead,
      Server!ReasonRead, S!ReasonRead, Server!OnWire, S!OnWire,
      Server!FullLength, S!FullLength, Server!Reaches, S!Reaches,
      Server!Carries, S!Carries, Server!SendFrame, S!SendFrame,
      Server!RecvInto, S!RecvInto, Server!RecvRc, S!RecvRc, Server!NewCodec,
      S!NewCodec, Server!WithId, S!WithId, Server!WithStatus, S!WithStatus
<1> QED
  BY <1>1, <1>2, <1>3

LEMMA SameClient == /\ Client!Init <=> C!Init
                    /\ Client!Next <=> C!Next
                    /\ C!vars = Client!vars
<1>1. C!vars = Client!vars
  BY Zenon
  DEF Client!vars, C!vars, Client!machineVars, C!machineVars, Client!pipeVars,
      C!pipeVars
<1>2. Client!Init <=> C!Init
  BY Zenon
  DEF Client!Init, C!Init, Client!NewCodec, C!NewCodec
<1>3. Client!Next <=> C!Next
  BY Zenon
  DEF Client!Next, C!Next, Client!Waiting, C!Waiting, Client!Sending,
      C!Sending, Client!Begin, C!Begin, Client!OwnerStep, C!OwnerStep,
      Client!OwnerSends, C!OwnerSends, Client!SendCommand, C!SendCommand,
      Client!SendMessage, C!SendMessage, Client!AcceptReply, C!AcceptReply,
      Client!ReadConnected, C!ReadConnected, Client!WaitForSignal,
      C!WaitForSignal, Client!SendTerm, C!SendTerm, Client!OwnerReads,
      C!OwnerReads, Client!CmdpipeOpen, C!CmdpipeOpen, Client!MsgpipeOpen,
      C!MsgpipeOpen, Client!ActorStep, C!ActorStep, Client!HandleCmdpipe,
      C!HandleCmdpipe, Client!HandleConnect, C!HandleConnect,
      Client!HandleConnected, C!HandleConnected, Client!HandleSetVerbose,
      C!HandleSetVerbose, Client!HandleTerm, C!HandleTerm, Client!TakeCommand,
      C!TakeCommand, Client!ExecuteConnect, C!ExecuteConnect,
      Client!StartHandler, C!StartHandler, Client!EndHandler, C!EndHandler,
      Client!ReadMsgpipe, C!ReadMsgpipe, Client!ReadDealer, C!ReadDealer,
      Client!Interrupted, C!Interrupted, Client!CloseSockets, C!CloseSockets,
      Client!SignalEnd, C!SignalEnd, Client!CloseCmdpipe, C!CloseCmdpipe,
      Client!ServerSends, C!ServerSends, Client!Signal, C!Signal,
      Client!AfterInterrupt, C!AfterInterrupt, Client!machineVars,
      C!machineVars, Client!pipeVars, C!pipeVars, Client!vars, C!vars,
      Client!TIMELINE, C!TIMELINE, Client!SEND_TIMELINE, C!SEND_TIMELINE,
      Client!ERROR, C!ERROR, Client!NOT_FOUND, C!NOT_FOUND,
      Client!SignatureRead, C!SignatureRead, Client!IdRead, C!IdRead,
      Client!IdentRead, C!IdentRead, Client!CreatedRead, C!CreatedRead,
      Client!SotRead, C!SotRead, Client!EpochsSize, C!EpochsSize,
      Client!EpochsRead, C!EpochsRead, Client!TimesSize, C!TimesSize,
      Client!TimesRead, C!TimesRead, Client!StatusRead, C!StatusRead,
      Client!ReasonRead, C!ReasonRead, Client!OnWire, C!OnWire,
      Client!FullLength, C!FullLength, Client!Reaches, C!Reaches,
      Client!Carries, C!Carries, Client!SendFrame, C!SendFrame,
      Client!RecvInto, C!RecvInto, Client!RecvRc, C!RecvRc, Client!NewCodec,
      C!NewCodec, Client!WithId, C!WithId, Client!WithStatus, C!WithStatus
<1> QED
  BY <1>1, <1>2, <1>3

-----------------------------------------------------------------------------
(* The codec, in its five copies. *)

\* The operators of the two sides are the system's own.
LEMMA SameCodec ==
  /\ Server!NewCodec = NewCodec /\ S!NewCodec = NewCodec
  /\ Client!NewCodec = NewCodec
  /\ \A m : /\ Server!SendFrame(m) = SendFrame(m) /\ S!SendFrame(m) = SendFrame(m)
            /\ Client!SendFrame(m) = SendFrame(m)
  /\ \A m, n : /\ S!WithId(m, n) = WithId(m, n)
               /\ Client!WithId(m, n) = WithId(m, n)
               /\ S!WithStatus(m, n) = WithStatus(m, n)
  /\ \A m, f : Client!RecvInto(m, f) = RecvInto(m, f)
  /\ \A f : Client!RecvRc(f) = RecvRc(f)
  /\ \A t, m : S!Encode(t, m) = Encode(t, m)
<1>1. /\ Server!NewCodec = NewCodec /\ S!NewCodec = NewCodec
      /\ Client!NewCodec = NewCodec
  BY DEF NewCodec, Server!NewCodec, S!NewCodec, Client!NewCodec
<1>2. \A m : /\ Server!SendFrame(m) = SendFrame(m)
             /\ S!SendFrame(m) = SendFrame(m)
             /\ Client!SendFrame(m) = SendFrame(m)
  BY Zenon
  DEF SendFrame, Server!SendFrame, S!SendFrame, Client!SendFrame,
      OnWire, Server!OnWire, S!OnWire, Client!OnWire,
      FullLength, Server!FullLength, S!FullLength, Client!FullLength,
      TIMELINE, Server!TIMELINE, S!TIMELINE, Client!TIMELINE,
      ERROR, Server!ERROR, S!ERROR, Client!ERROR,
      TimesRead, Server!TimesRead, S!TimesRead, Client!TimesRead,
      ReasonRead, Server!ReasonRead, S!ReasonRead, Client!ReasonRead,
      IdRead, Server!IdRead, S!IdRead, Client!IdRead
<1>3. \A m, n : /\ S!WithId(m, n) = WithId(m, n)
                /\ Client!WithId(m, n) = WithId(m, n)
                /\ S!WithStatus(m, n) = WithStatus(m, n)
  BY Zenon DEF WithId, S!WithId, Client!WithId, WithStatus, S!WithStatus
<1>4. \A m, f : Client!RecvInto(m, f) = RecvInto(m, f)
  BY Zenon
  DEF RecvInto, Client!RecvInto, Carries, Client!Carries, Reaches,
      Client!Reaches, TIMELINE, Client!TIMELINE, ERROR, Client!ERROR,
      SignatureRead, Client!SignatureRead, IdRead, Client!IdRead,
      IdentRead, Client!IdentRead, CreatedRead, Client!CreatedRead,
      SotRead, Client!SotRead, EpochsRead, Client!EpochsRead,
      TimesRead, Client!TimesRead, StatusRead, Client!StatusRead
<1>5. \A f : Client!RecvRc(f) = RecvRc(f)
  BY Zenon
  DEF RecvRc, Client!RecvRc, Carries, Client!Carries, Reaches,
      Client!Reaches, TIMELINE, Client!TIMELINE, ERROR, Client!ERROR,
      SEND_TIMELINE, Client!SEND_TIMELINE, SignatureRead, Client!SignatureRead,
      IdRead, Client!IdRead, EpochsSize, Client!EpochsSize,
      TimesSize, Client!TimesSize
<1>6. \A t, m : S!Encode(t, m) = Encode(t, m)
  BY Zenon DEF Encode, S!Encode, Unsigned, S!Unsigned, TIMELINE, S!TIMELINE
<1> QED
  BY <1>1, <1>2, <1>3, <1>4, <1>5, <1>6

NoTimelineFrame == SendFrame(WithId(WithStatus(NewCodec, NOT_FOUND), ERROR))

\* The timelines of the caller, encoded, are whole TIMELINE messages.
LEMMA EncodedTimelines ==
  ASSUME NEW i \in DOMAIN Produced
  PROVE  /\ Encode(Produced[i], NewCodec) \in Codec
         /\ Encode(Produced[i], NewCodec).id = TIMELINE
         /\ Produced[i].epochs \in Chunk /\ Produced[i].times \in Chunk
         /\ Encode(Produced[i], NewCodec).epochs = Produced[i].epochs
         /\ Encode(Produced[i], NewCodec).times = Produced[i].times
         /\ Encode(Produced[i], NewCodec).created = 0
<1>1. Produced[i] \in Timeline
  BY SystemAssumption, LenProperties
<1>2. Encode(Produced[i], NewCodec) \in Codec
  BY <1>1, NewCodecType, EncodeType
<1> QED
  BY <1>1, <1>2 DEF Encode, NewCodec, Timeline

\* What an answer is, and what the client makes of it: received into whatever
\* codec object, a TIMELINE answer leaves an object that would be sent as that
\* very frame.
LEMMA AnswerFrames ==
  ASSUME NEW f \in Answers
  PROVE  /\ f \in Frame
         /\ RecvRc(f) = 0
         /\ \/ f.id = TIMELINE
            \/ f.id = ERROR /\ f.status = NOT_FOUND
         /\ \A m \in Codec :
               /\ RecvInto(m, f).id = f.id
               /\ f.id = TIMELINE => SendFrame(RecvInto(m, f)) = f
               /\ f.id = ERROR => RecvInto(m, f).status = NOT_FOUND
<1> USE DEF TIMELINE, ERROR, NOT_FOUND
<1>1. CASE f = NoTimelineFrame
  <2>1. /\ WithId(WithStatus(NewCodec, NOT_FOUND), ERROR) \in Codec
        /\ WithId(WithStatus(NewCodec, NOT_FOUND), ERROR).id = ERROR
        /\ WithId(WithStatus(NewCodec, NOT_FOUND), ERROR).status = NOT_FOUND
    <3>1. ASSUME NEW m \in Codec
          PROVE  /\ WithId(WithStatus(m, NOT_FOUND), ERROR).id = ERROR
                 /\ WithId(WithStatus(m, NOT_FOUND), ERROR).status = NOT_FOUND
      BY DEF WithId, WithStatus, Codec
    <3>2. WithId(WithStatus(NewCodec, NOT_FOUND), ERROR) \in Codec
      <4>1. WithStatus(NewCodec, NOT_FOUND) \in Codec
        BY NewCodecType, WithType
      <4> QED
        BY <4>1, WithType
    <3> QED
      BY <3>1, <3>2, NewCodecType
  <2>2. f \in Frame
    BY <1>1, <2>1, SendFrameType DEF NoTimelineFrame
  <2>3. /\ f.signature = TRUE /\ f.id = ERROR /\ f.status = NOT_FOUND
        /\ f.held = ReasonRead
    BY <1>1, <2>1 DEF NoTimelineFrame, SendFrame, FullLength
  <2> QED
    BY <2>2, <2>3 DEF RecvRc, RecvInto, Carries, Reaches, SignatureRead, IdRead,
                      StatusRead, ReasonRead, SEND_TIMELINE
<1>2. ASSUME NEW i \in DOMAIN Produced,
             f = SendFrame(Encode(Produced[i], NewCodec))
      PROVE  /\ f \in Frame
             /\ RecvRc(f) = 0
             /\ f.id = TIMELINE
             /\ \A m \in Codec : /\ RecvInto(m, f).id = f.id
                                 /\ SendFrame(RecvInto(m, f)) = f
  <2> DEFINE e == Encode(Produced[i], NewCodec)
  <2>1. /\ e \in Codec /\ e.id = TIMELINE
        /\ OnWire(e.epochs) = e.epochs /\ OnWire(e.times) = e.times
        /\ e.epochs \in Chunk /\ e.times \in Chunk
    BY EncodedTimelines, SystemAssumption DEF OnWire
  <2>2. f \in Frame
    BY <1>2, <2>1, SendFrameType
  <2> HIDE DEF e
  <2>3. f = SendFrame(e)
    BY <1>2 DEF e
  <2>4. /\ f.signature = TRUE /\ f.id = TIMELINE /\ f.held = TimesRead
        /\ f.status = 0
        /\ f = [signature |-> TRUE, id |-> TIMELINE, ident |-> f.ident,
                created |-> f.created, sot |-> f.sot, epochs |-> f.epochs,
                times |-> f.times, status |-> 0, held |-> TimesRead]
        /\ f.epochs \in Chunk /\ f.times \in Chunk
    BY <2>1, <2>3 DEF SendFrame, FullLength
  <2>5. RecvRc(f) = 0
    BY <2>4 DEF RecvRc, Carries, Reaches, SignatureRead, IdRead, TimesRead,
                EpochsSize, TimesSize, SEND_TIMELINE
  <2>6. ASSUME NEW m \in Codec
        PROVE  /\ RecvInto(m, f).id = TIMELINE
               /\ RecvInto(m, f).ident = f.ident
               /\ RecvInto(m, f).created = f.created
               /\ RecvInto(m, f).sot = f.sot
               /\ RecvInto(m, f).epochs = f.epochs
               /\ RecvInto(m, f).times = f.times
    BY <2>4 DEF RecvInto, Carries, Reaches, SignatureRead, IdRead, IdentRead,
                CreatedRead, SotRead, EpochsRead, TimesRead
  <2>7. ASSUME NEW m \in Codec PROVE SendFrame(RecvInto(m, f)) = f
    <3>1. OnWire(f.epochs) = f.epochs /\ OnWire(f.times) = f.times
      BY <2>4, SystemAssumption DEF OnWire
    <3> QED
      BY <2>4, <2>6, <3>1 DEF SendFrame, FullLength
  <2> QED
    BY <2>2, <2>4, <2>5, <2>6, <2>7
<1> QED
  BY <1>1, <1>2 DEF Answers, NoTimelineFrame

-----------------------------------------------------------------------------
(* What holds of every state. *)

\* Each side's own invariants.
ServerInv == /\ S!TypeOK
             /\ S!CacheInv
             /\ S!PublishedInv
             /\ S!PublishedIsKept

ClientInv == C!TypeOK /\ C!AskInv

\* Between the two: never more answers than requests, and no answer that was
\* not published; a DEALER that has gone has no one behind it.
LinkInv ==
    /\ OneAnswer
    /\ client \in gone => ~Client!MsgpipeOpen
    /\ \A i \in DOMAIN outbox[client] : outbox[client][i] \in Answers
    /\ \A i \in DOMAIN dealer : dealer[i].id = TIMELINE =>
          \E j \in DOMAIN published : dealer[i] = published[j]
    /\ ReceivedWasPublished

\* Of one who asked after the first publication: no refusal is on its way.
LateInv ==
    late => /\ published # <<>>
            /\ \A i \in DOMAIN outbox[client] : outbox[client][i].id # ERROR
            /\ \A i \in DOMAIN dealer : dealer[i].id # ERROR
            /\ cmessage.id # ERROR

\* The client leaves because of the answer, or of a $TERM, which only destroy
\* sends.
LeaveInv ==
    /\ GivesUpWhenTold
    /\ \A i \in DOMAIN cmdpipe :
          cmdpipe[i] = "$TERM" => owner \in {"collect", "gone"}

SystemInv == ServerInv /\ ClientInv /\ LinkInv /\ LateInv /\ LeaveInv

-----------------------------------------------------------------------------
(* Each side takes steps of its own only. *)

\* The composition keeps what the two modules assume of their constants.
LEMMA SidesAssume ==
  /\ S!ServerAssumption /\ S!ModulusAssumption /\ C!ClientAssumption
  /\ S!OnlyRequests
<1>1. S!Timeline = Timeline /\ S!Chunk = Chunk
  BY DEF S!Timeline, Timeline, S!Chunk, Chunk
<1>2. S!Frame = Frame /\ C!Frame = Frame
  BY DEF S!Frame, C!Frame, Frame, S!Chunk, C!Chunk, Chunk,
         S!TimesRead, C!TimesRead, TimesRead
<1>3. /\ BareFrame(SEND_TIMELINE) \in Frame
      /\ S!BareFrame(S!SEND_TIMELINE) = BareFrame(SEND_TIMELINE)
  <2>1. <<>> \in Chunk
    BY EmptySeq DEF Chunk
  <2> QED
    BY <2>1 DEF S!BareFrame, BareFrame, S!SEND_TIMELINE, SEND_TIMELINE,
                S!IdRead, IdRead, Frame, TimesRead
<1>4. Requests \subseteq S!Request
  BY <1>2, <1>3 DEF Requests, S!Request
<1>5. S!ServerAssumption
  BY <1>1, <1>4, SystemAssumption DEF S!ServerAssumption, Timeouts
<1>6. Calls \subseteq C!Call
  BY SystemAssumption DEF C!Call, Client!Call
<1>7. C!ClientAssumption
  BY <1>2, <1>6, AnswerFrames, SystemAssumption DEF C!ClientAssumption, Connects
<1>8. S!OnlyRequests
  BY <1>3 DEF S!OnlyRequests, Requests
<1>9. S!ModulusAssumption
  BY ModulusAssumption DEF S!ModulusAssumption
<1> QED
  BY <1>5, <1>7, <1>8, <1>9

\* The types of what the two sides share.
LEMMA SharedTypes ==
  ASSUME S!TypeOK, C!TypeOK
  PROVE  /\ inbox \in [Peers -> Seq(Requests)]
         /\ outbox \in [Peers -> Seq(Frame)]
         /\ published \in Seq(Frame)
         /\ inbox[client] \in Seq(Requests) /\ Len(inbox[client]) \in Nat
         /\ outbox[client] \in Seq(Frame) /\ Len(outbox[client]) \in Nat
         /\ dealer \in Seq(Answers) /\ Len(dealer) \in Nat
         /\ cmessage \in Codec
         /\ requested \in Nat
<1>1. S!Frame = Frame
  BY DEF S!Frame, Frame, S!Chunk, Chunk, S!TimesRead, TimesRead
<1>2. C!Codec = Codec
  BY DEF C!Codec, Codec, C!Chunk, Chunk
<1> QED
  BY <1>1, <1>2, SystemAssumption, LenProperties DEF S!TypeOK, C!TypeOK

LEMMA SharedInbox ==
  ASSUME S!TypeOK
  PROVE  /\ inbox \in [Peers -> Seq(Requests)]
         /\ inbox[client] \in Seq(Requests) /\ Len(inbox[client]) \in Nat
  BY SystemAssumption, LenProperties DEF S!TypeOK

\* CONNECT asks in the first state of the machine only, and with the connected
\* DEALER always.
LEMMA ConnectAsks ==
  ASSUME C!TypeOK, Client!HandleConnect
  PROVE  /\ UNCHANGED <<owner, replies, msgpipe, dealer, cinterrupted>>
         /\ loc = "poll" /\ loc' = "poll"
         /\ cmdpipe # <<>> /\ cmdpipe' = Tail(cmdpipe)
         /\ \/ /\ state = "start" /\ requested' = requested + 1
               /\ cmessage' = WithId(cmessage, SEND_TIMELINE)
            \/ UNCHANGED <<requested, cmessage>>
<1>1. /\ UNCHANGED <<owner, replies, msgpipe, dealer, cinterrupted>>
      /\ loc = "poll" /\ cmdpipe # <<>> /\ cmdpipe' = Tail(cmdpipe)
      /\ Client!ExecuteConnect
  BY DEF Client!HandleConnect, Client!TakeCommand
<1>2. FALSE \notin Connects
  BY DEF Connects
<1>3. Client!WithId(cmessage, Client!SEND_TIMELINE)
         = WithId(cmessage, SEND_TIMELINE)
  BY SameCodec DEF Client!SEND_TIMELINE, SEND_TIMELINE
<1>4. /\ loc' = "poll"
      /\ \/ /\ state = "start" /\ requested' = requested + 1
            /\ cmessage' = WithId(cmessage, SEND_TIMELINE)
         \/ UNCHANGED <<requested, cmessage>>
  <2>1. CASE fsm_stopped
    BY <1>1, <2>1, Zenon DEF Client!ExecuteConnect, Client!machineVars
  <2>2. CASE ~fsm_stopped /\ state = "start"
    BY <1>1, <1>2, <1>3, <2>2, Zenon DEF Client!ExecuteConnect
  <2>3. CASE ~fsm_stopped /\ state # "start"
    BY <1>1, <2>3, Zenon DEF Client!ExecuteConnect
  <2> QED
    BY <2>1, <2>2, <2>3
<1> QED
  BY <1>1, <1>4

LEMMA SumOfThree ==
  ASSUME NEW a \in Nat, NEW b \in Nat, NEW c \in Nat
  PROVE  /\ a + b + c \in Nat
         /\ a + b + c = 0 => a = 0 /\ b = 0 /\ c = 0
  OBVIOUS

LEMMA SumGrows ==
  ASSUME NEW a \in Nat, NEW b \in Nat, NEW c \in Nat,
         NEW x \in Nat, NEW y \in Nat, x + y <= a + b
  PROVE  x + y + c <= a + b + c
  OBVIOUS

LEMMA SumMoves ==
  ASSUME NEW a \in Nat, NEW b \in Nat, NEW c \in Nat
  PROVE  a + (b - 1) + (c + 1) = a + b + c
  OBVIOUS

LEMMA SumTaken ==
  ASSUME NEW a \in Nat, NEW b \in Nat, NEW c \in Nat, NEW x,
         x = a + b + (c - 1)
  PROVE  x + 1 = a + b + c
  OBVIOUS

LEMMA SumAsked ==
  ASSUME NEW b \in Nat, NEW u \in {0, 1}, b <= 1, u = 0 PROVE b + u <= 1
  OBVIOUS

LEMMA SumShrinks ==
  ASSUME NEW a \in Nat, NEW b \in Nat, NEW c \in Nat
  PROVE  a + 0 + 0 <= a + b + c
  OBVIOUS

\* OneAnswer, by its two parts: what is on the way and what has arrived.
OnTheWay == Len(inbox[client]) + Len(outbox[client]) + Len(dealer)
Arrived  == IF Answered THEN 1 ELSE 0

LEMMA ArrivedIsOne ==
  /\ Arrived \in {0, 1} /\ (Answered <=> Arrived = 1)
  /\ Arrived' \in {0, 1} /\ (Answered' <=> Arrived' = 1)
<1>1. 0 # 1
  OBVIOUS
<1> QED
  BY <1>1, Zenon DEF Arrived

LEMMA OneAnswerSum ==
  /\ OneAnswer <=> OnTheWay + Arrived <= requested
  /\ OneAnswer' <=> OnTheWay' + Arrived' <= requested'
  BY Zenon DEF OneAnswer, OnTheWay, Arrived

LEMMA SumFalls ==
  ASSUME NEW a \in Nat, NEW b \in Nat, NEW t \in {0, 1}, NEW u \in {0, 1},
         NEW r \in Nat, a + t <= r,
         b + 1 = a \/ (b <= a /\ (u = t \/ u = 0))
  PROVE  b + u <= r
  OBVIOUS

\* The client asks once, with nothing on the way and no answer received, and
\* what it sends is a request that the server's module expects.
LEMMA AsksInState ==
  ASSUME ServerInv, ClientInv, LinkInv, Asks
  PROVE  /\ requested = 0 /\ requested' = 1
         /\ cmessage' = WithId(cmessage, SEND_TIMELINE)
         /\ UNCHANGED <<owner, dealer>>
         /\ loc = "poll" /\ loc' = "poll"
         /\ cmdpipe # <<>> /\ cmdpipe' = Tail(cmdpipe)
         /\ Len(inbox[client]) = 0 /\ Len(outbox[client]) = 0
         /\ Len(dealer) = 0 /\ ~Answered
         /\ client \notin gone
<1>1. Client!HandleConnect /\ requested' > requested
  BY DEF Asks
<1>2. C!TypeOK /\ C!AskInv
  BY DEF ClientInv
<1>3. requested \in Nat
  BY <1>2 DEF C!TypeOK
<1>4. state = "start" /\ cmessage' = WithId(cmessage, SEND_TIMELINE)
      /\ requested' = requested + 1
  BY <1>1, <1>2, <1>3, ConnectAsks
<1>5. requested = 0
  BY <1>2, <1>4 DEF C!AskInv
<1>6. /\ Len(inbox[client]) = 0 /\ Len(outbox[client]) = 0
      /\ Len(dealer) = 0 /\ ~Answered
  <2>1. /\ Len(inbox[client]) \in Nat /\ Len(outbox[client]) \in Nat
        /\ Len(dealer) \in Nat
    BY SharedTypes DEF ServerInv, ClientInv
  <2>2. OnTheWay + Arrived <= 0
    BY <1>5, OneAnswerSum DEF LinkInv
  <2>3. OnTheWay \in Nat
    BY <2>1, SumOfThree DEF OnTheWay
  <2>4. Arrived \in {0, 1} /\ (Answered <=> Arrived = 1)
    BY ArrivedIsOne
  <2>5. Arrived = 0 /\ OnTheWay = 0
    BY <2>2, <2>3, <2>4
  <2>6. ~Answered
    BY <2>4, <2>5
  <2> QED
    BY <2>1, <2>5, <2>6, SumOfThree DEF OnTheWay
<1>7. client \notin gone
  BY <1>1, <1>2, ConnectAsks DEF LinkInv, Client!MsgpipeOpen
<1> QED
  BY <1>1, <1>2, <1>4, <1>5, <1>6, <1>7, ConnectAsks

LEMMA AsksIsPeerSend ==
  ASSUME ServerInv, ClientInv, LinkInv, Asks
  PROVE  IF loop = "exited" THEN UNCHANGED serverVars
         ELSE Server!PeerSend(client)
<1>1. CASE loop = "exited"
  BY <1>1 DEF Asks
<1>2. CASE loop # "exited"
  <2>1. Server!InFlight(client) < MaxQueue
    <3>1. Len(inbox[client]) = 0 /\ Len(outbox[client]) = 0
      BY AsksInState
    <3> QED
      BY <3>1, SystemAssumption DEF Server!InFlight
  <2>2. SendFrame(cmessage') = BareFrame(SEND_TIMELINE)
    <3>1. cmessage' \in Codec /\ cmessage'.id = SEND_TIMELINE
      <4>1. cmessage \in Codec
        BY SharedTypes DEF ServerInv, ClientInv
      <4>2. cmessage' = WithId(cmessage, SEND_TIMELINE)
        BY AsksInState
      <4>3. SEND_TIMELINE \in Nat
        BY DEF SEND_TIMELINE
      <4> QED
        BY <4>1, <4>2, <4>3, WithType, WithIdSets
    <3> QED
      BY <3>1 DEF SendFrame, BareFrame, FullLength, TIMELINE, SEND_TIMELINE,
                  ERROR
  <2>3. \E r \in Requests : inbox' = [inbox EXCEPT ![client] = Append(@, r)]
    BY <1>2, <2>2 DEF Asks, Requests
  <2> QED
    BY <1>2, <2>1, <2>3, AsksInState
    DEF Asks, Server!PeerSend, Server!serverVars, Server!callerVars
<1> QED
  BY <1>1, <1>2

\* An answer arrives only at a client that has asked, and is one that the
\* client's module expects.
LEMMA DeliversInState ==
  ASSUME ServerInv, ClientInv, LinkInv, Delivers
  PROVE  /\ outbox[client] # <<>>
         /\ Head(outbox[client]) \in Answers
         /\ \E i \in DOMAIN outbox[client] : Head(outbox[client]) = outbox[client][i]
         /\ outbox'[client] = Tail(outbox[client])
         /\ dealer' = Append(dealer, Head(outbox[client]))
         /\ UNCHANGED <<inbox, requested, cmessage, late, published, owner, loc,
                        cmdpipe, gone>>
         /\ requested > 0
<1>1. /\ outbox[client] # <<>>
      /\ outbox' = [outbox EXCEPT ![client] = Tail(@)]
      /\ UNCHANGED <<inbox, published, gone>>
  BY DEF Delivers, Server!PeerRecv
<1>2. /\ outbox \in [Peers -> Seq(Frame)] /\ outbox[client] \in Seq(Frame)
      /\ Len(inbox[client]) \in Nat /\ Len(outbox[client]) \in Nat
      /\ Len(dealer) \in Nat /\ requested \in Nat
  BY SharedTypes DEF ServerInv, ClientInv
<1>3. outbox'[client] = Tail(outbox[client])
  BY <1>1, <1>2, SystemAssumption
<1>4. 1 \in DOMAIN outbox[client] /\ Head(outbox[client]) = outbox[client][1]
  BY <1>1, <1>2, TailPlaces
<1>5. Head(outbox[client]) \in Answers
  BY <1>4 DEF LinkInv
<1>6. requested > 0
  <2>1. Len(outbox[client]) # 0
    BY <1>1, <1>2, EmptySeq
  <2>2. OnTheWay \in Nat /\ OnTheWay # 0
    BY <1>2, <2>1, SumOfThree DEF OnTheWay
  <2>3. OnTheWay + Arrived <= requested /\ Arrived \in {0, 1}
    BY OneAnswerSum, ArrivedIsOne DEF LinkInv
  <2> QED
    BY <1>2, <2>2, <2>3
<1> QED
  BY <1>1, <1>3, <1>4, <1>5, <1>6 DEF Delivers

LEMMA ServerTakesSteps ==
  ASSUME ServerInv, ClientInv, LinkInv, [Next]_vars
  PROVE  [Server!Next]_serverVars
<1>1. CASE Asks
  BY <1>1, AsksIsPeerSend, SystemAssumption DEF Server!Next
<1>2. CASE Delivers \/ Leaves
  BY <1>2, SystemAssumption DEF Delivers, Leaves, Server!Next
<1>3. CASE ServerSide
  BY <1>3 DEF ServerSide, Server!Next
<1>4. CASE ClientSide \/ Over \/ UNCHANGED vars
  BY <1>4 DEF ClientSide, Over, vars
<1> QED
  BY <1>1, <1>2, <1>3, <1>4 DEF Next

LEMMA ClientTakesSteps ==
  ASSUME ServerInv, ClientInv, LinkInv, [Next]_vars
  PROVE  [Client!Next]_clientVars
<1>1. CASE Asks
  BY <1>1 DEF Asks, Client!Next, Client!ActorStep, Client!HandleCmdpipe
<1>2. CASE Delivers
  <2>1. Client!ServerSends
    BY <1>2, DeliversInState
    DEF Delivers, Client!ServerSends, Client!machineVars, Client!pipeVars
  <2> QED
    BY <2>1 DEF Client!Next
<1>3. CASE Leaves
  BY <1>3 DEF Leaves, Client!Next, Client!ActorStep
<1>4. CASE ClientSide
  BY <1>4 DEF ClientSide, Client!Next, Client!ActorStep
<1>5. CASE ServerSide \/ Over \/ UNCHANGED vars
  BY <1>5 DEF ServerSide, Over, vars
<1> QED
  BY <1>1, <1>2, <1>3, <1>4, <1>5 DEF Next

LEMMA SameIdents == DistinctIdents => S!IdentsAreSet /\ S!IdentsIdentify
<1>1. S!Handed = Server!Handed
  BY DEF S!Handed, Server!Handed
<1>2. \A i, m : S!Unsigned(i, m) = Server!Unsigned(i, m)
  BY DEF S!Unsigned, Server!Unsigned
<1>3. \A t : S!ViewOf(t) = Server!ViewOf(t)
  BY Zenon DEF S!ViewOf, Server!ViewOf, S!Unsigned, Server!Unsigned
<1>4. S!HandedIdents = Server!HandedIdents
  BY <1>1, <1>2 DEF S!HandedIdents, Server!HandedIdents
<1> QED
  BY <1>1, <1>2, <1>3, <1>4
  DEF DistinctIdents, S!IdentsAreSet, S!IdentsIdentify,
      Server!IdentsAreSet, Server!IdentsIdentify

\* So each side keeps its own invariants.
LEMMA ServerInvStep ==
  ASSUME DistinctIdents,
         ServerInv, ClientInv, LinkInv, [Next]_vars
  PROVE  [S!Next]_(S!vars) /\ ServerInv'
<1>1. [S!Next]_(S!vars)
  <2>1. UNCHANGED serverVars => UNCHANGED S!vars
    BY DEF serverVars, S!vars, S!serverVars, S!callerVars, S!netVars
  <2> QED
    BY <2>1, ServerTakesSteps, SameServer
<1>2. S!PeersKeepIdents
  BY SidesAssume, S!AskersKeepIdents
<1>3. S!TypeOK'
  BY <1>1, SidesAssume, S!TypeStep DEF ServerInv
<1>4. S!CacheInv'
  BY <1>1, <1>2, SidesAssume, SameIdents, S!CacheInvStep DEF ServerInv
<1>5. S!PublishedInv'
  BY <1>1, <1>2, SidesAssume, SameIdents, S!PublishedInvStep DEF ServerInv
<1>6. S!PublishedIsKept'
  BY <1>1, SidesAssume, S!PublishedIsKeptStep DEF ServerInv
<1> QED
  BY <1>1, <1>3, <1>4, <1>5, <1>6 DEF ServerInv

LEMMA ClientInvStep ==
  ASSUME ServerInv, ClientInv, LinkInv, [Next]_vars PROVE ClientInv'
<1>1. [C!Next]_(C!vars)
  <2>1. UNCHANGED clientVars => UNCHANGED C!vars
    BY DEF clientVars, C!vars, C!machineVars, C!pipeVars
  <2> QED
    BY <2>1, ClientTakesSteps, SameClient
<1>2. C!TypeOK'
  BY <1>1, SidesAssume, C!TypeStep DEF ClientInv
<1>3. C!AskInv'
  BY <1>1, SidesAssume, C!AskStep DEF ClientInv
<1> QED
  BY <1>2, <1>3 DEF ClientInv

-----------------------------------------------------------------------------
(* What the steps of one side do to the other. *)

\* The client's message changes with what it receives only.
LEMMA ClientSideOutcomes ==
  ASSUME ClientInv, ClientSide
  PROVE  /\ UNCHANGED <<serverVars, late, requested>>
         /\ Client!MsgpipeOpen' => Client!MsgpipeOpen
         /\ Client!ReadDealer \/ UNCHANGED <<cmessage, dealer>>
<1> DEFINE Quiet == UNCHANGED <<requested, cmessage, dealer>>
                    /\ (Client!MsgpipeOpen' => Client!MsgpipeOpen)
<1> USE DEF Client!MsgpipeOpen, Client!machineVars
<1>1. ASSUME NEW call \in Calls, Client!Begin(call) PROVE Quiet
  BY <1>1 DEF Client!Begin
<1>2. ASSUME Client!OwnerStep PROVE Quiet
  BY <1>2 DEF Client!OwnerStep, Client!OwnerSends, Client!SendCommand,
              Client!SendMessage, Client!AcceptReply, Client!ReadConnected,
              Client!WaitForSignal, Client!OwnerReads, Client!SendTerm
<1>3. ASSUME Client!HandleCmdpipe, requested' = requested PROVE Quiet
  <2>1. C!TypeOK /\ requested \in Nat
    BY DEF ClientInv, C!TypeOK
  <2>2. ASSUME Client!HandleConnect PROVE Quiet
    BY <1>3, <2>1, <2>2, ConnectAsks
  <2>3. ASSUME \/ Client!HandleConnected \/ Client!HandleSetVerbose
               \/ Client!HandleTerm
        PROVE  Quiet
    BY <2>3 DEF Client!HandleConnected, Client!HandleSetVerbose,
                Client!HandleTerm, Client!TakeCommand
  <2> QED
    BY <1>3, <2>2, <2>3 DEF Client!HandleCmdpipe
<1>4. ASSUME \/ Client!StartHandler \/ Client!EndHandler \/ Client!ReadMsgpipe
             \/ Client!SignalEnd \/ Client!CloseCmdpipe
      PROVE  Quiet
  BY <1>4 DEF Client!StartHandler, Client!EndHandler, Client!ReadMsgpipe,
              Client!SignalEnd, Client!CloseCmdpipe
<1>5. ASSUME Client!ReadDealer
      PROVE  requested' = requested /\ (Client!MsgpipeOpen' => Client!MsgpipeOpen)
  BY <1>5 DEF Client!ReadDealer
<1>6. UNCHANGED <<serverVars, late>>
  BY DEF ClientSide
<1> QED
  BY <1>1, <1>2, <1>3, <1>4, <1>5, <1>6 DEF ClientSide

\* What the client makes of an answer.
LEMMA ReadDealerOutcome ==
  ASSUME ServerInv, ClientInv, Client!ReadDealer
  PROVE  /\ dealer # <<>> /\ dealer' = Tail(dealer)
         /\ \E i \in DOMAIN dealer :
               /\ cmessage'.id = dealer[i].id
               /\ cmessage'.id = TIMELINE => SendFrame(cmessage') = dealer[i]
         /\ cmessage'.id \in {TIMELINE, ERROR}
         /\ cmessage'.id = ERROR => cmessage'.status = NOT_FOUND
         /\ UNCHANGED <<owner, cmdpipe>>
         /\ loc' = loc \/ (loc' = "leaving" /\ cmessage'.id = ERROR)
<1>1. dealer \in Seq(Answers) /\ cmessage \in Codec
  BY SharedTypes DEF ServerInv, ClientInv
<1>2. /\ loc = "dealer" /\ dealer # <<>> /\ dealer' = Tail(dealer)
      /\ cmessage' = RecvInto(cmessage, Head(dealer))
      /\ UNCHANGED <<owner, cmdpipe>>
      /\ loc' = IF RecvRc(Head(dealer)) = 0 /\ cmessage'.id = TIMELINE
                THEN loc ELSE "leaving"
  BY SameCodec
  DEF Client!ReadDealer, Client!pipeVars, Client!TIMELINE, TIMELINE
<1>3. /\ 1 \in DOMAIN dealer /\ Head(dealer) = dealer[1]
      /\ Head(dealer) \in Answers
  BY <1>1, <1>2, TailPlaces, HeadTailProperties
<1>4. /\ RecvRc(Head(dealer)) = 0
      /\ cmessage'.id = Head(dealer).id
      /\ cmessage'.id = TIMELINE => SendFrame(cmessage') = Head(dealer)
      /\ cmessage'.id \in {TIMELINE, ERROR}
      /\ cmessage'.id = ERROR => cmessage'.status = NOT_FOUND
  BY <1>1, <1>2, <1>3, AnswerFrames
<1> QED
  BY <1>2, <1>3, <1>4

\* The server and the other peers put no request into the client's mouth.
LEMMA ServerSideAsksNothing ==
  ASSUME ServerInv, ServerSide
  PROVE  /\ Len(inbox'[client]) <= Len(inbox[client])
         /\ client \in gone' => client \in gone
<1> DEFINE Goal == /\ Len(inbox'[client]) <= Len(inbox[client])
                   /\ client \in gone' => client \in gone
<1>1. /\ inbox \in [Peers -> Seq(Requests)] /\ inbox[client] \in Seq(Requests)
      /\ Len(inbox[client]) \in Nat /\ client \in Peers
  BY SharedInbox, SystemAssumption DEF ServerInv
<1>2. ASSUME inbox'[client] = inbox[client] \/ inbox'[client] = <<>>
      PROVE  Len(inbox'[client]) <= Len(inbox[client])
  <2>1. Len(inbox'[client]) = Len(inbox[client]) \/ Len(inbox'[client]) = 0
    BY <1>2, EmptySeq
  <2> QED
    BY <1>1, <2>1
<1>3. ASSUME NEW p \in Peers \ {client},
             \/ Server!PeerSend(p) \/ Server!PeerRecv(p) \/ Server!PeerLeave(p)
      PROVE  Goal
  <2>1. inbox'[client] = inbox[client] /\ (client \in gone' => client \in gone)
    BY <1>1, <1>3 DEF Server!PeerSend, Server!PeerRecv, Server!PeerLeave
  <2> QED
    BY <1>2, <2>1
<1>4. ASSUME NEW p \in Peers, Server!HandleProtocol(p) PROVE Goal
  <2>1. /\ inbox[p] # <<>>
        /\ inbox' = [inbox EXCEPT ![p] = Tail(@)]
        /\ gone' = gone
    BY <1>4 DEF Server!HandleProtocol, Server!Discard, Server!ServeTimeline,
                Server!NoTimeline, Server!Refuse, Server!Receive
  <2>2. CASE p # client
    BY <1>1, <1>2, <2>1, <2>2
  <2>3. CASE p = client
    <3>1. inbox'[client] = Tail(inbox[client]) /\ inbox[client] # <<>>
      BY <1>1, <2>1, <2>3
    <3>2. Len(inbox'[client]) = Len(inbox[client]) - 1
      BY <1>1, <3>1, HeadTailProperties
    <3> QED
      BY <1>1, <2>1, <3>2
  <2> QED
    BY <2>2, <2>3
<1>5. ASSUME UNCHANGED <<inbox, gone>> PROVE Goal
  BY <1>2, <1>5
<1>6. ASSUME NEW p \in Peers, Server!TicketElapses(p) \/ Server!ClientExpires(p)
      PROVE  Goal
  BY <1>5, <1>6 DEF Server!TicketElapses, Server!ClientExpires, Server!netVars
<1>7. CASE \/ Server!CallerNewTimeline \/ Server!CallerDestroys
           \/ Server!HandleNewTimeline \/ Server!HandleSet
           \/ Server!StartDrain \/ Server!EndDrain
  BY <1>5, <1>7 DEF Server!CallerNewTimeline, Server!CallerDestroys,
                    Server!CallerSends, Server!HandleNewTimeline,
                    Server!HandleSet, Server!StartDrain, Server!EndDrain,
                    Server!netVars
<1>8. CASE Server!HandleTerm
  <2>1. inbox'[client] = <<>> /\ gone' = gone
    BY <1>1, <1>8 DEF Server!HandleTerm, Server!Exit
  <2> QED
    BY <1>2, <2>1
<1> QED
  BY <1>3, <1>4, <1>6, <1>7, <1>8 DEF ServerSide, Server!HandlePipe

\* What a step of the server's side may put on its way to the client.
LEMMA ServerSideAnswers ==
  ASSUME DistinctIdents,
         ServerInv, ClientInv, LinkInv, ServerSide
  PROVE  /\ OnTheWay' <= OnTheWay
         /\ \A i \in DOMAIN outbox'[client] :
               \/ \E k \in DOMAIN outbox[client] :
                     outbox'[client][i] = outbox[client][k]
               \/ outbox'[client][i] \in Answers /\ outbox'[client][i].id = TIMELINE
               \/ outbox'[client][i] = NoTimelineFrame /\ published = <<>>
<1> DEFINE Old(f) == \E k \in DOMAIN outbox[client] : f = outbox[client][k]
           Served(f) == f \in Answers /\ f.id = TIMELINE
           Refused(f) == f = NoTimelineFrame /\ published = <<>>
<1>1. /\ S!TypeOK /\ S!CacheInv /\ S!PublishedInv /\ S!PublishedIsKept
      /\ C!TypeOK
  BY DEF ServerInv, ClientInv
<1>2. Next /\ UNCHANGED dealer
  BY DEF Next, ServerSide, clientVars
<1>3. [S!Next]_(S!vars) /\ S!TypeOK'
  BY <1>2, ServerInvStep DEF ServerInv
<1>4. outbox[client] \in Seq(Frame) /\ client \in Peers
  BY <1>1, SharedTypes, SystemAssumption
<1>5. OnTheWay' <= OnTheWay
  <2>1. /\ Len(inbox[client]) \in Nat /\ Len(outbox[client]) \in Nat
        /\ Len(dealer) \in Nat
    BY <1>1, SharedTypes
  <2>2. Len(inbox'[client]) \in Nat /\ Len(outbox'[client]) \in Nat
    <3>1. /\ inbox'[client] \in Seq(Requests)
          /\ outbox'[client] \in Seq(S!Frame)
      BY <1>3, SystemAssumption DEF S!TypeOK
    <3> QED
      BY <3>1, LenProperties
  <2>3. ~S!PeerSend(client)
    <3>1. ASSUME NEW r \in Requests,
                 inbox' = [inbox EXCEPT ![client] = Append(@, r)]
          PROVE  FALSE
      <4>1. inbox'[client] = Append(inbox[client], r)
        BY <1>1, <3>1, SharedTypes, SystemAssumption
      <4>2. Len(inbox'[client]) = Len(inbox[client]) + 1
        BY <1>1, <4>1, SharedTypes, AppendProperties
      <4>3. Len(inbox'[client]) <= Len(inbox[client])
        BY ServerSideAsksNothing
      <4> QED
        BY <2>1, <4>2, <4>3
    <3> QED
      BY <3>1 DEF S!PeerSend
  <2>4. Len(inbox'[client]) + Len(outbox'[client])
           <= Len(inbox[client]) + Len(outbox[client])
    BY <1>1, <1>3, <1>4, <2>3, SidesAssume, S!TrafficOnlyFalls
  <2> QED
    BY <1>2, <2>1, <2>2, <2>4, SumGrows DEF OnTheWay
<1>6. /\ \A t : S!SendFrame(S!Encode(t, S!NewCodec))
                   = SendFrame(Encode(t, NewCodec))
      /\ S!NotFoundFrame = NoTimelineFrame
  BY SameCodec DEF S!NotFoundFrame, NoTimelineFrame, S!NOT_FOUND, NOT_FOUND,
                   S!ERROR, ERROR
<1>7. \/ /\ timeline # NULL /\ timeline \in S!Handed
         /\ outbox'[client]
               = Append(outbox[client], SendFrame(Encode(timeline, NewCodec)))
      \/ /\ timeline = NULL /\ loop # "exited"
         /\ outbox'[client] = Append(outbox[client], NoTimelineFrame)
      \/ \A i \in DOMAIN outbox'[client] : Old(outbox'[client][i])
  BY <1>1, <1>3, <1>4, <1>6, SidesAssume, SameIdents, S!AnswersToAskers
<1>8. CASE /\ timeline \in S!Handed
           /\ outbox'[client]
                 = Append(outbox[client], SendFrame(Encode(timeline, NewCodec)))
  <2>1. PICK j \in DOMAIN Produced : timeline = Produced[j]
    BY <1>8 DEF S!Handed
  <2>2. Served(SendFrame(Encode(timeline, NewCodec)))
    BY <2>1, EncodedTimelines DEF Answers, SendFrame
  <2>3. SendFrame(Encode(timeline, NewCodec)) \in Frame
    BY <2>2, AnswerFrames
  <2>4. ASSUME NEW i \in DOMAIN outbox'[client]
        PROVE  Old(outbox'[client][i]) \/ Served(outbox'[client][i])
    BY <1>4, <1>8, <2>2, <2>3, <2>4, AppendPlaces
  <2> QED
    BY <1>5, <2>4
<1>9. CASE /\ timeline = NULL /\ loop # "exited"
           /\ outbox'[client] = Append(outbox[client], NoTimelineFrame)
  <2>1. published = <<>>
    BY <1>1, <1>9 DEF S!PublishedIsKept
  <2>2. NoTimelineFrame \in Frame
    BY AnswerFrames DEF Answers, NoTimelineFrame
  <2>3. ASSUME NEW i \in DOMAIN outbox'[client]
        PROVE  Old(outbox'[client][i]) \/ Refused(outbox'[client][i])
    BY <1>4, <1>9, <2>1, <2>2, <2>3, AppendPlaces
  <2> QED
    BY <1>5, <2>3
<1> QED
  BY <1>5, <1>7, <1>8, <1>9

-----------------------------------------------------------------------------
(* Every step keeps what holds between the two. *)

\* Leaving, the client drops what it was sent.
LEMMA LeavesOutcome ==
  ASSUME S!TypeOK, Leaves
  PROVE  /\ outbox'[client] = <<>> /\ dealer' = <<>>
         /\ cmessage' = NewCodec
         /\ loc' = "closed"
         /\ UNCHANGED <<inbox, published, requested, owner, cmdpipe, late>>
<1>1. outbox \in [Peers -> Seq(S!Frame)] /\ client \in Peers
  BY SystemAssumption DEF S!TypeOK
<1> QED
  BY <1>1, SameCodec DEF Leaves, Server!PeerLeave, Client!CloseSockets

\* Asking puts one request on its way, or none if the server has ended.
LEMMA AsksOutcome ==
  ASSUME ServerInv, ClientInv, LinkInv, Asks
  PROVE  /\ OnTheWay' \in 0..1
         /\ cmessage'.id = SEND_TIMELINE
         /\ UNCHANGED <<outbox, published, gone>>
<1>1. /\ Len(inbox[client]) = 0 /\ Len(outbox[client]) = 0
      /\ Len(dealer) = 0 /\ dealer' = dealer
      /\ cmessage' = WithId(cmessage, SEND_TIMELINE)
  BY AsksInState
<1>2. cmessage'.id = SEND_TIMELINE
  <2>1. cmessage \in Codec
    BY SharedTypes DEF ServerInv, ClientInv
  <2>2. SEND_TIMELINE \in Nat
    BY DEF SEND_TIMELINE
  <2> QED
    BY <1>1, <2>1, <2>2, WithIdSets
<1>3. CASE loop = "exited"
  <2>1. UNCHANGED <<inbox, outbox, published, gone>>
    BY <1>3, AsksIsPeerSend DEF serverVars
  <2>2. OnTheWay' = 0 + 0 + 0
    BY <1>1, <2>1 DEF OnTheWay
  <2> QED
    BY <1>2, <2>1, <2>2
<1>4. CASE loop # "exited"
  <2>1. Server!PeerSend(client)
    BY <1>4, AsksIsPeerSend
  <2>2. /\ inbox \in [Peers -> Seq(Requests)] /\ inbox[client] \in Seq(Requests)
        /\ client \in Peers
    BY SharedInbox, SystemAssumption DEF ServerInv
  <2>3. PICK r \in Requests : inbox'[client] = Append(inbox[client], r)
    BY <2>1, <2>2 DEF Server!PeerSend
  <2>4. Len(inbox'[client]) = 1
    BY <1>1, <2>2, <2>3, AppendProperties
  <2>5. UNCHANGED <<outbox, published, gone>>
    BY <2>1 DEF Server!PeerSend
  <2> QED
    BY <1>1, <1>2, <2>4, <2>5 DEF OnTheWay
<1> QED
  BY <1>3, <1>4

\* What was published stays published, in the composition too.
LEMMA PublishedStays ==
  ASSUME ServerInv, ClientInv, LinkInv, [S!Next]_(S!vars), NEW f,
         \E j \in DOMAIN published : f = published[j]
  PROVE  \E j \in DOMAIN published' : f = published'[j]
<1>1. \A j \in DOMAIN published :
         j \in DOMAIN published' /\ published'[j] = published[j]
  BY SidesAssume, S!PublishedGrows DEF ServerInv
<1> QED
  BY <1>1

LEMMA OneAnswerStep ==
  ASSUME DistinctIdents,
         ServerInv, ClientInv, LinkInv, [Next]_vars
  PROVE  OneAnswer'
<1>1. /\ Len(inbox[client]) \in Nat /\ Len(outbox[client]) \in Nat
      /\ Len(dealer) \in Nat /\ requested \in Nat
      /\ outbox[client] \in Seq(Frame) /\ dealer \in Seq(Answers)
  BY SharedTypes DEF ServerInv, ClientInv
<1>2. OnTheWay \in Nat
  BY <1>1, SumOfThree DEF OnTheWay
<1>3. OnTheWay' \in Nat
  <2>1. ServerInv' /\ ClientInv'
    BY ServerInvStep, ClientInvStep
  <2>2. /\ inbox'[client] \in Seq(Requests)
        /\ outbox'[client] \in Seq(S!Frame)
        /\ dealer' \in Seq(Answers)
    BY <2>1, SystemAssumption DEF ServerInv, ClientInv, S!TypeOK, C!TypeOK
  <2>3. /\ Len(inbox'[client]) \in Nat /\ Len(outbox'[client]) \in Nat
        /\ Len(dealer') \in Nat
    BY <2>2, LenProperties
  <2> QED
    BY <2>3, SumOfThree DEF OnTheWay
<1>4. /\ OnTheWay + Arrived <= requested
      /\ Arrived \in {0, 1} /\ Arrived' \in {0, 1}
      /\ Answered <=> Arrived = 1
      /\ Answered' <=> Arrived' = 1
  BY OneAnswerSum, ArrivedIsOne DEF LinkInv
<1>5. ASSUME \/ OnTheWay' + 1 = OnTheWay
             \/ OnTheWay' <= OnTheWay /\ (Arrived' = Arrived \/ Arrived' = 0),
             requested' = requested
      PROVE  OneAnswer'
  <2>1. OnTheWay' + Arrived' <= requested
    BY <1>1, <1>2, <1>3, <1>4, <1>5, SumFalls
  <2> QED
    BY <1>5, <2>1, OneAnswerSum
<1>6. ASSUME OnTheWay' <= OnTheWay, UNCHANGED <<requested, cmessage>>
      PROVE  OneAnswer'
  <2>1. Arrived' = Arrived
    BY <1>6 DEF Arrived, Answered
  <2> QED
    BY <1>5, <1>6, <2>1
<1>7. CASE Asks
  <2>1. requested' = 1 /\ OnTheWay' <= 1
    BY <1>7, AsksInState, AsksOutcome
  <2>2. ~Answered'
    BY <1>7, AsksOutcome DEF Answered, TIMELINE, SEND_TIMELINE, ERROR
  <2>3. Arrived' = 0
    BY <1>4, <2>2
  <2>4. OnTheWay' + Arrived' <= 1
    BY <1>3, <1>4, <2>1, <2>3, SumAsked
  <2> QED
    BY <2>1, <2>4, OneAnswerSum
<1>8. CASE Delivers
  <2>1. /\ outbox[client] # <<>> /\ outbox'[client] = Tail(outbox[client])
        /\ dealer' = Append(dealer, Head(outbox[client]))
        /\ Head(outbox[client]) \in Answers
        /\ UNCHANGED <<inbox, requested, cmessage>>
    BY <1>8, DeliversInState
  <2>2. /\ Len(outbox'[client]) = Len(outbox[client]) - 1
        /\ Len(dealer') = Len(dealer) + 1
    BY <1>1, <2>1, HeadTailProperties, AppendProperties
  <2>3. OnTheWay' = Len(inbox[client]) + (Len(outbox[client]) - 1)
                       + (Len(dealer) + 1)
    BY <2>1, <2>2 DEF OnTheWay
  <2>4. OnTheWay' = OnTheWay
    BY <1>1, <2>3, SumMoves DEF OnTheWay
  <2> QED
    BY <1>2, <1>6, <2>1, <2>4
<1>9. CASE Leaves
  <2>1. /\ Len(outbox'[client]) = 0 /\ Len(dealer') = 0
        /\ UNCHANGED <<inbox, requested>>
    BY <1>9, LeavesOutcome, EmptySeq DEF ServerInv
  <2>2. ~Answered'
    BY <1>9, LeavesOutcome DEF ServerInv, Answered, NewCodec, TIMELINE, ERROR
  <2>3. OnTheWay' = Len(inbox[client]) + 0 + 0
    BY <2>1 DEF OnTheWay
  <2>4. OnTheWay' <= OnTheWay
    BY <1>1, <2>3, SumShrinks DEF OnTheWay
  <2>5. Arrived' = 0
    BY <1>4, <2>2
  <2> QED
    BY <1>5, <2>1, <2>4, <2>5
<1>10. CASE ServerSide
  <2>1. OnTheWay' <= OnTheWay
    BY <1>10, ServerSideAnswers
  <2>2. UNCHANGED <<requested, cmessage>>
    BY <1>10 DEF ServerSide, clientVars
  <2> QED
    BY <1>6, <2>1, <2>2
<1>11. CASE ClientSide
  <2>1. UNCHANGED <<inbox, outbox, requested>>
    BY <1>11, ClientSideOutcomes DEF serverVars
  <2>2. CASE UNCHANGED <<cmessage, dealer>>
    <3>1. OnTheWay' = OnTheWay
      BY <2>1, <2>2 DEF OnTheWay
    <3> QED
      BY <1>2, <1>6, <2>1, <2>2, <3>1
  <2>3. CASE Client!ReadDealer
    <3>1. dealer # <<>> /\ dealer' = Tail(dealer)
      BY <2>3, ReadDealerOutcome
    <3>2. Len(dealer') = Len(dealer) - 1
      BY <1>1, <3>1, HeadTailProperties
    <3>3. OnTheWay' = Len(inbox[client]) + Len(outbox[client])
                         + (Len(dealer) - 1)
      BY <2>1, <3>2 DEF OnTheWay
    <3>4. OnTheWay = Len(inbox[client]) + Len(outbox[client]) + Len(dealer)
      BY DEF OnTheWay
    <3>5. OnTheWay' + 1 = OnTheWay
      BY <1>1, <3>3, <3>4, SumTaken
    <3> QED
      BY <1>5, <2>1, <3>5
  <2> QED
    BY <1>11, <2>2, <2>3, ClientSideOutcomes
<1>12. CASE Over \/ UNCHANGED vars
  <2>1. UNCHANGED <<inbox, outbox, dealer, requested, cmessage>>
    BY <1>12 DEF Over, vars, serverVars, clientVars
  <2>2. OnTheWay' = OnTheWay
    BY <2>1 DEF OnTheWay
  <2> QED
    BY <1>2, <1>6, <2>1, <2>2
<1> QED
  BY <1>7, <1>8, <1>9, <1>10, <1>11, <1>12 DEF Next

\* A DEALER that has gone has no one behind it.
LEMMA GoneStep ==
  ASSUME ServerInv, ClientInv, LinkInv, [Next]_vars
  PROVE  client \in gone' => ~Client!MsgpipeOpen'
<1>1. client \in gone => ~Client!MsgpipeOpen
  BY DEF LinkInv
<1>2. CASE Asks
  BY <1>2, AsksInState, AsksOutcome
<1>3. CASE Delivers
  BY <1>1, <1>3, DeliversInState DEF Client!MsgpipeOpen
<1>4. CASE Leaves
  BY <1>4, LeavesOutcome DEF ServerInv, Client!MsgpipeOpen
<1>5. CASE ServerSide
  <2>1. client \in gone' => client \in gone
    BY <1>5, ServerSideAsksNothing
  <2>2. loc' = loc
    BY <1>5 DEF ServerSide, clientVars
  <2> QED
    BY <1>1, <2>1, <2>2 DEF Client!MsgpipeOpen
<1>6. CASE ClientSide
  <2>1. gone' = gone /\ (Client!MsgpipeOpen' => Client!MsgpipeOpen)
    BY <1>6, ClientSideOutcomes DEF serverVars
  <2> QED
    BY <1>1, <2>1
<1>7. CASE Over \/ UNCHANGED vars
  BY <1>1, <1>7 DEF Over, vars, serverVars, clientVars, Client!MsgpipeOpen
<1> QED
  BY <1>2, <1>3, <1>4, <1>5, <1>6, <1>7 DEF Next

\* What is in the two queues towards the client, and in its codec object: each
\* new element of the first is an answer of the server, each of the second was
\* in the first, and what is received was in the second.
LEMMA QueuesStep ==
  ASSUME DistinctIdents,
         ServerInv, ClientInv, LinkInv, [Next]_vars
  PROVE  /\ \A i \in DOMAIN outbox'[client] :
               \/ \E k \in DOMAIN outbox[client] :
                     outbox'[client][i] = outbox[client][k]
               \/ outbox'[client][i] \in Answers /\ outbox'[client][i].id = TIMELINE
               \/ outbox'[client][i] = NoTimelineFrame /\ published = <<>>
         /\ \A i \in DOMAIN dealer' :
               \/ \E k \in DOMAIN dealer : dealer'[i] = dealer[k]
               \/ \E k \in DOMAIN outbox[client] : dealer'[i] = outbox[client][k]
         /\ \/ cmessage' = cmessage
            \/ cmessage'.id \notin {TIMELINE, ERROR}
            \/ \E k \in DOMAIN dealer :
                  /\ cmessage'.id = dealer[k].id
                  /\ cmessage'.id = TIMELINE => SendFrame(cmessage') = dealer[k]
<1> DEFINE Out == \A i \in DOMAIN outbox'[client] :
                     \/ \E k \in DOMAIN outbox[client] :
                           outbox'[client][i] = outbox[client][k]
                     \/ /\ outbox'[client][i] \in Answers
                        /\ outbox'[client][i].id = TIMELINE
                     \/ outbox'[client][i] = NoTimelineFrame /\ published = <<>>
           In == \A i \in DOMAIN dealer' :
                    \/ \E k \in DOMAIN dealer : dealer'[i] = dealer[k]
                    \/ \E k \in DOMAIN outbox[client] :
                          dealer'[i] = outbox[client][k]
           Got == \/ cmessage' = cmessage
                  \/ cmessage'.id \notin {TIMELINE, ERROR}
                  \/ \E k \in DOMAIN dealer :
                        /\ cmessage'.id = dealer[k].id
                        /\ cmessage'.id = TIMELINE =>
                              SendFrame(cmessage') = dealer[k]
<1>1. outbox[client] \in Seq(Frame) /\ dealer \in Seq(Answers)
  BY SharedTypes DEF ServerInv, ClientInv
<1>2. UNCHANGED outbox => Out
  OBVIOUS
<1>3. UNCHANGED dealer => In
  OBVIOUS
<1>4. UNCHANGED cmessage => Got
  OBVIOUS
<1>5. CASE Asks
  <2>1. UNCHANGED <<outbox, dealer>>
    BY <1>5, AsksInState, AsksOutcome
  <2>2. Got
    BY <1>5, AsksOutcome DEF SEND_TIMELINE, TIMELINE, ERROR
  <2> QED
    BY <1>2, <1>3, <2>1, <2>2
<1>6. CASE Delivers
  <2>1. Out
    <3>1. /\ outbox[client] # <<>>
          /\ outbox'[client] = Tail(outbox[client])
      BY <1>6, DeliversInState
    <3>2. \A i \in DOMAIN Tail(outbox[client]) :
             \E k \in DOMAIN outbox[client] :
                Tail(outbox[client])[i] = outbox[client][k]
      BY <1>1, <3>1, TailPlaces
    <3> QED
      BY <3>1, <3>2
  <2>2. In
    <3>1. /\ dealer' = Append(dealer, Head(outbox[client]))
          /\ Head(outbox[client]) \in Answers
          /\ \E k \in DOMAIN outbox[client] :
                Head(outbox[client]) = outbox[client][k]
      BY <1>6, DeliversInState
    <3> QED
      BY <1>1, <3>1, AppendPlaces
  <2>3. UNCHANGED cmessage
    BY <1>6, DeliversInState
  <2> QED
    BY <1>4, <2>1, <2>2, <2>3
<1>7. CASE Leaves
  <2>1. outbox'[client] = <<>> /\ dealer' = <<>> /\ cmessage' = NewCodec
    BY <1>7, LeavesOutcome DEF ServerInv
  <2>2. Got
    BY <2>1 DEF NewCodec, TIMELINE, ERROR
  <2> QED
    BY <2>1, <2>2, EmptyHasNoPlaces
<1>8. CASE ServerSide
  <2>1. Out
    BY <1>8, ServerSideAnswers
  <2>2. UNCHANGED <<dealer, cmessage>>
    BY <1>8 DEF ServerSide, clientVars
  <2> QED
    BY <1>3, <1>4, <2>1, <2>2
<1>9. CASE ClientSide
  <2>1. UNCHANGED outbox
    BY <1>9, ClientSideOutcomes DEF serverVars
  <2>2. CASE UNCHANGED <<cmessage, dealer>>
    BY <1>2, <1>3, <1>4, <2>1, <2>2
  <2>3. CASE Client!ReadDealer
    <3>1. In
      BY <1>1, <2>3, ReadDealerOutcome, TailPlaces
    <3>2. Got
      BY <2>3, ReadDealerOutcome
    <3> QED
      BY <1>2, <2>1, <3>1, <3>2
  <2> QED
    BY <1>9, <2>2, <2>3, ClientSideOutcomes
<1>10. CASE Over \/ UNCHANGED vars
  <2>1. UNCHANGED <<outbox, dealer, cmessage>>
    BY <1>10 DEF Over, vars, serverVars, clientVars
  <2> QED
    BY <1>2, <1>3, <1>4, <2>1
<1> QED
  BY <1>5, <1>6, <1>7, <1>8, <1>9, <1>10 DEF Next

LEMMA LinkInvStep ==
  ASSUME DistinctIdents,
         ServerInv, ClientInv, LinkInv, [Next]_vars
  PROVE  LinkInv'
<1>1. ServerInv' /\ [S!Next]_(S!vars)
  BY ServerInvStep
<1>2. ASSUME NEW f, \E j \in DOMAIN published : f = published[j]
      PROVE  \E j \in DOMAIN published' : f = published'[j]
  BY <1>1, <1>2, PublishedStays
<1>3. \A i \in DOMAIN outbox'[client] : outbox'[client][i] \in Answers
  <2>1. NoTimelineFrame \in Answers
    BY DEF Answers, NoTimelineFrame
  <2>2. \A k \in DOMAIN outbox[client] : outbox[client][k] \in Answers
    BY DEF LinkInv
  <2> QED
    BY <2>1, <2>2, QueuesStep
<1>4. ASSUME NEW k \in DOMAIN outbox[client], outbox[client][k].id = TIMELINE
      PROVE  \E j \in DOMAIN published : outbox[client][k] = published[j]
  <2>1. S!TIMELINE = TIMELINE
    BY DEF S!TIMELINE, TIMELINE
  <2> QED
    BY <1>4, <2>1, SystemAssumption
    DEF ServerInv, S!PublishedInv, S!AnswersWerePublished
<1>5. \A i \in DOMAIN dealer' : dealer'[i].id = TIMELINE =>
         \E j \in DOMAIN published' : dealer'[i] = published'[j]
  <2>1. ASSUME NEW i \in DOMAIN dealer', dealer'[i].id = TIMELINE
        PROVE  \E j \in DOMAIN published : dealer'[i] = published[j]
    BY <1>4, <2>1, QueuesStep DEF LinkInv
  <2> QED
    BY <1>2, <2>1
<1>6. ReceivedWasPublished'
  <2>1. ASSUME cmessage'.id = TIMELINE
        PROVE  \E j \in DOMAIN published : SendFrame(cmessage') = published[j]
    BY <2>1, QueuesStep DEF LinkInv, ReceivedWasPublished
  <2>2. ASSUME cmessage'.id = TIMELINE
        PROVE  \E j \in DOMAIN published' : SendFrame(cmessage') = published'[j]
    BY <1>2, <2>1, <2>2
  <2> QED
    BY <2>2 DEF ReceivedWasPublished
<1> QED
  BY <1>3, <1>5, <1>6, OneAnswerStep, GoneStep DEF LinkInv

LEMMA LateInvStep ==
  ASSUME DistinctIdents,
         ServerInv, ClientInv, LinkInv, LateInv, [Next]_vars
  PROVE  LateInv'
<1>1. [S!Next]_(S!vars) /\ published \in Seq(Frame)
  BY ServerInvStep, SharedTypes DEF ServerInv, ClientInv
<1>2. published # <<>> => published' # <<>>
  <2>1. published # <<>> => 1 \in DOMAIN published
    BY <1>1, TailPlaces
  <2>2. 1 \in DOMAIN published => 1 \in DOMAIN published'
    BY <1>1, SidesAssume, S!PublishedGrows DEF ServerInv
  <2> QED
    BY <2>1, <2>2, EmptyHasNoPlaces
<1>3. ASSUME late, UNCHANGED late PROVE LateInv'
  <2>1. /\ published # <<>>
        /\ \A i \in DOMAIN outbox[client] : outbox[client][i].id # ERROR
        /\ \A i \in DOMAIN dealer : dealer[i].id # ERROR
        /\ cmessage.id # ERROR
    BY <1>3 DEF LateInv
  <2>2. \A i \in DOMAIN outbox'[client] : outbox'[client][i].id # ERROR
    BY <2>1, QueuesStep DEF TIMELINE, ERROR
  <2>3. \A i \in DOMAIN dealer' : dealer'[i].id # ERROR
    BY <2>1, QueuesStep
  <2>4. cmessage'.id # ERROR
    BY <2>1, QueuesStep
  <2> QED
    BY <1>2, <2>1, <2>2, <2>3, <2>4 DEF LateInv
<1>4. CASE Asks
  <2>1. /\ Len(outbox[client]) = 0 /\ Len(dealer) = 0
        /\ UNCHANGED <<outbox, dealer, published>>
        /\ cmessage'.id = SEND_TIMELINE
    BY <1>4, AsksInState, AsksOutcome
  <2>2. DOMAIN outbox[client] = {} /\ DOMAIN dealer = {}
    <3>1. outbox[client] \in Seq(Frame) /\ dealer \in Seq(Answers)
      BY SharedTypes DEF ServerInv, ClientInv
    <3>2. outbox[client] = <<>> /\ dealer = <<>>
      BY <2>1, <3>1, EmptySeq
    <3> QED
      BY <3>2, EmptyHasNoPlaces
  <2>3. late' = (published # <<>>)
    BY <1>4 DEF Asks
  <2>4. late' => published' # <<>>
    BY <2>1, <2>3, Zenon
  <2>5. cmessage'.id # ERROR
    BY <2>1 DEF SEND_TIMELINE, ERROR
  <2> QED
    BY <2>1, <2>2, <2>4, <2>5 DEF LateInv
<1>5. ASSUME UNCHANGED late PROVE LateInv'
  BY <1>3, <1>5 DEF LateInv
<1>6. CASE Delivers \/ Leaves \/ ServerSide \/ ClientSide \/ Over \/ UNCHANGED vars
  BY <1>5, <1>6 DEF Delivers, Leaves, ServerSide, ClientSide, Over, vars
<1> QED
  BY <1>4, <1>6 DEF Next

LEMMA LeaveInvStep ==
  ASSUME ServerInv, ClientInv, LinkInv, LeaveInv, [Next]_vars
  PROVE  LeaveInv'
<1> DEFINE Term(q) == \E i \in DOMAIN q : q[i] = "$TERM"
           Ending == owner \in {"collect", "gone"}
<1>1. /\ cmdpipe \in Seq(C!Command)
      /\ Term(cmdpipe) => Ending
      /\ loc = "leaving" /\ ~Ending
            => cmessage.id = ERROR /\ cmessage.status = NOT_FOUND
  BY DEF ClientInv, C!TypeOK, LeaveInv, GivesUpWhenTold
<1>2. ASSUME \/ Term(cmdpipe') => Ending'
             \/ (Term(cmdpipe') => Term(cmdpipe)) /\ (Ending => Ending'),
             \/ loc' # "leaving"
             \/ Ending'
             \/ cmessage'.id = ERROR /\ cmessage'.status = NOT_FOUND
             \/ loc = "leaving" /\ UNCHANGED cmessage /\ ~Ending
      PROVE  LeaveInv'
  BY <1>1, <1>2 DEF LeaveInv, GivesUpWhenTold
<1>3. ASSUME UNCHANGED <<owner, cmdpipe>>,
             \/ loc' # "leaving"
             \/ cmessage'.id = ERROR /\ cmessage'.status = NOT_FOUND
             \/ UNCHANGED <<loc, cmessage>>
      PROVE  LeaveInv'
  BY <1>1, <1>3 DEF LeaveInv, GivesUpWhenTold
<1>4. ASSUME cmdpipe # <<>>, cmdpipe' = Tail(cmdpipe), UNCHANGED owner
      PROVE  /\ (Term(cmdpipe') => Term(cmdpipe)) /\ (Ending => Ending')
             /\ Head(cmdpipe) = "$TERM" => Ending
  <2>1. /\ Head(cmdpipe) = cmdpipe[1] /\ 1 \in DOMAIN cmdpipe
        /\ \A i \in DOMAIN Tail(cmdpipe) :
              \E j \in DOMAIN cmdpipe : Tail(cmdpipe)[i] = cmdpipe[j]
    BY <1>1, <1>4, TailPlaces
  <2> QED
    BY <1>1, <1>4, <2>1
<1>5. CASE Asks
  <2>1. /\ cmdpipe # <<>> /\ cmdpipe' = Tail(cmdpipe) /\ UNCHANGED owner
        /\ loc' = "poll"
    BY <1>5, AsksInState
  <2> QED
    BY <1>2, <1>4, <2>1
<1>6. CASE Delivers \/ Leaves \/ ServerSide \/ Over \/ UNCHANGED vars
  <2>1. CASE Delivers
    BY <1>3, <2>1, DeliversInState
  <2>2. CASE Leaves
    BY <1>3, <2>2, LeavesOutcome DEF ServerInv
  <2>3. CASE ServerSide \/ Over \/ UNCHANGED vars
    BY <1>3, <2>3 DEF ServerSide, Over, vars, clientVars
  <2> QED
    BY <1>6, <2>1, <2>2, <2>3
<1>7. ASSUME NEW call \in Calls, Client!Begin(call) PROVE LeaveInv'
  <2>1. /\ owner = "free"
        /\ UNCHANGED <<loc, cmessage, cmdpipe>>
    BY <1>7 DEF Client!Begin, Client!machineVars, Client!pipeVars
  <2> QED
    BY <1>2, <2>1
<1>8. CASE Client!OwnerStep
  <2>1. UNCHANGED <<loc, cmessage>>
    BY <1>8 DEF Client!OwnerStep, Client!OwnerSends, Client!SendCommand,
                Client!SendMessage, Client!AcceptReply, Client!ReadConnected,
                Client!WaitForSignal, Client!OwnerReads, Client!SendTerm,
                Client!machineVars
  <2>2. ASSUME NEW call \in {"connect", "CONNECT", "connected", "set_verbose"},
               NEW command \in C!Command \ {"$TERM"}, NEW then,
               Client!SendCommand(call, command, then)
        PROVE  LeaveInv'
    <3>1. owner = call /\ cmdpipe' = Append(cmdpipe, command)
      BY <2>2 DEF Client!SendCommand
    <3>2. ~Ending /\ ~Term(cmdpipe)
      BY <1>1, <3>1
    <3>3. ~Term(cmdpipe')
      BY <1>1, <3>1, <3>2, AppendPlaces
    <3> QED
      BY <1>2, <2>1, <3>2, <3>3
  <2>3. ASSUME UNCHANGED cmdpipe, Ending => Ending' PROVE LeaveInv'
    BY <1>2, <2>1, <2>3
  <2>4. ASSUME NEW call \in {"post", "flush"}, NEW text, NEW then,
               Client!SendMessage(call, text, then)
        PROVE  LeaveInv'
    BY <2>3, <2>4 DEF Client!SendMessage
  <2>5. CASE Client!OwnerSends
    BY <1>8, <2>2, <2>4, <2>5 DEF Client!OwnerSends, C!Command
  <2>6. CASE Client!AcceptReply \/ Client!ReadConnected
    BY <2>3, <2>6 DEF Client!AcceptReply, Client!ReadConnected, Client!OwnerReads
  <2>7. CASE \/ Client!WaitForSignal("flushing", "term")
             \/ Client!WaitForSignal("collect", "gone")
    BY <2>3, <2>7 DEF Client!WaitForSignal, Client!OwnerReads
  <2>8. CASE Client!SendTerm
    <3>1. Ending'
      BY <2>8 DEF Client!SendTerm
    <3> QED
      BY <1>2, <3>1
  <2> QED
    BY <1>8, <2>5, <2>6, <2>7, <2>8 DEF Client!OwnerStep
<1>9. CASE Client!HandleCmdpipe
  <2>1. /\ cmdpipe # <<>> /\ cmdpipe' = Tail(cmdpipe) /\ UNCHANGED owner
        /\ loc = "poll"
        /\ loc' # "leaving" \/ Head(cmdpipe) = "$TERM"
    <3>1. CASE Client!HandleConnect
      BY <3>1, ConnectAsks DEF ClientInv
    <3>2. CASE \/ Client!HandleConnected \/ Client!HandleSetVerbose
               \/ Client!HandleTerm
      BY <3>2 DEF Client!HandleConnected, Client!HandleSetVerbose,
                  Client!HandleTerm, Client!TakeCommand
    <3> QED
      BY <1>9, <3>1, <3>2 DEF Client!HandleCmdpipe
  <2> QED
    BY <1>2, <1>4, <2>1
<1>10. CASE Client!ReadDealer
  <2>1. /\ UNCHANGED <<owner, cmdpipe>>
        /\ loc' = loc \/ (loc' = "leaving" /\ cmessage'.id = ERROR)
        /\ cmessage'.id = ERROR => cmessage'.status = NOT_FOUND
    BY <1>10, ReadDealerOutcome
  <2>2. loc = "dealer"
    BY <1>10 DEF Client!ReadDealer
  <2> QED
    BY <1>3, <2>1, <2>2
<1>11. CASE \/ Client!StartHandler \/ Client!EndHandler \/ Client!ReadMsgpipe
            \/ Client!SignalEnd
  BY <1>3, <1>11 DEF Client!StartHandler, Client!EndHandler,
                     Client!ReadMsgpipe, Client!SignalEnd,
                     Client!machineVars, Client!pipeVars
<1>12. CASE Client!CloseCmdpipe
  <2>1. cmdpipe' = <<>> /\ loc' # "leaving"
    BY <1>12 DEF Client!CloseCmdpipe
  <2>2. ~Term(cmdpipe')
    BY <2>1, EmptyHasNoPlaces
  <2> QED
    BY <1>2, <2>1, <2>2
<1>13. CASE ClientSide
  BY <1>7, <1>8, <1>9, <1>10, <1>11, <1>12, <1>13 DEF ClientSide
<1> QED
  BY <1>5, <1>6, <1>13 DEF Next

-----------------------------------------------------------------------------
(* The theorems. *)

LEMMA SystemInvInit ==
  ASSUME DistinctIdents, Init PROVE SystemInv
<1>1. S!Init /\ C!Init
  BY SameServer, SameClient DEF Init
<1>2. ServerInv
  <2>1. S!TypeOK
    BY <1>1, SidesAssume, S!TypeInit
  <2>2. S!CacheInv /\ S!PublishedInv /\ S!PublishedIsKept
    BY <1>1, SidesAssume, SameIdents, S!AnswersInit
  <2> QED
    BY <2>1, <2>2 DEF ServerInv
<1>3. ClientInv
  BY <1>1, SidesAssume, C!TypeInit, C!AskInit DEF ClientInv
<1>4. /\ inbox[client] = <<>> /\ outbox[client] = <<>> /\ dealer = <<>>
      /\ gone = {} /\ requested = 0 /\ cmessage = NewCodec /\ late = FALSE
      /\ loc = "poll" /\ cmdpipe = <<>>
  BY SameCodec, SystemAssumption DEF Init, Server!Init, Client!Init
<1>5. ~Answered /\ cmessage.id # TIMELINE
  BY <1>4 DEF Answered, NewCodec, TIMELINE, ERROR
<1>6. OneAnswer
  <2>1. OnTheWay = 0 + 0 + 0
    BY <1>4, EmptySeq DEF OnTheWay
  <2>2. Arrived = 0
    BY <1>5, ArrivedIsOne
  <2> QED
    BY <1>4, <2>1, <2>2, OneAnswerSum
<1>7. LinkInv
  BY <1>4, <1>5, <1>6, EmptyHasNoPlaces DEF LinkInv, ReceivedWasPublished
<1>8. LateInv /\ LeaveInv
  BY <1>4, EmptyHasNoPlaces DEF LateInv, LeaveInv, GivesUpWhenTold
<1> QED
  BY <1>2, <1>3, <1>7, <1>8 DEF SystemInv

LEMMA SystemInvStep ==
  ASSUME DistinctIdents PROVE SystemInv /\ [Next]_vars => SystemInv'
  BY ServerInvStep, ClientInvStep, LinkInvStep, LateInvStep, LeaveInvStep
  DEF SystemInv

LEMMA SystemInvHolds ==
  ASSUME DistinctIdents PROVE Spec => []SystemInv
  BY SystemInvInit, SystemInvStep, PTL DEF Spec

\* The client and the network between the two are a peer as the server's module
\* has peers: alone or with the client, the server goes through the same states.
THEOREM TheServerIsTheServer ==
  ASSUME DistinctIdents PROVE Spec => ServerIsServer
<1>1. Init => Server!Init
  BY DEF Init
<1>2. SystemInv /\ [Next]_vars => [Server!Next]_serverVars
  BY ServerTakesSteps DEF SystemInv
<1> QED
  BY <1>1, <1>2, SystemInvHolds, PTL DEF Spec, ServerIsServer

\* The server, its caller and the network are a server as the client's module
\* has it: one that sends what is in Answers, to a client that has asked.
THEOREM TheClientIsTheClient ==
  ASSUME DistinctIdents PROVE Spec => ClientIsClient
<1>1. Init => Client!Init
  BY DEF Init
<1>2. SystemInv /\ [Next]_vars => [Client!Next]_clientVars
  BY ClientTakesSteps DEF SystemInv
<1> QED
  BY <1>1, <1>2, SystemInvHolds, PTL DEF Spec, ClientIsClient

\* One request, one answer.
THEOREM AtMostOneAnswer ==
  ASSUME DistinctIdents PROVE Spec => []OneAnswer
<1>1. SystemInv => OneAnswer
  BY DEF SystemInv, LinkInv
<1> QED
  BY <1>1, SystemInvHolds, PTL

\* What a client has received was published.
THEOREM ReceivedIsPublished ==
  ASSUME DistinctIdents PROVE Spec => []ReceivedWasPublished
<1>1. SystemInv => ReceivedWasPublished
  BY DEF SystemInv, LinkInv
<1> QED
  BY <1>1, SystemInvHolds, PTL

\* A client gives up because it was told that there is no timeline, or because
\* its owner ends it.
THEOREM GivesUpOnlyWhenTold ==
  ASSUME DistinctIdents PROVE Spec => []GivesUpWhenTold
<1>1. SystemInv => GivesUpWhenTold
  BY DEF SystemInv, LeaveInv
<1> QED
  BY <1>1, SystemInvHolds, PTL

\* Who asks after the first publication is never told that there is no timeline.
THEOREM LateComersGetTimelines ==
  ASSUME DistinctIdents PROVE Spec => []LateComersAreServed
<1>1. SystemInv => LateComersAreServed
  BY DEF SystemInv, LateInv, LateComersAreServed
<1> QED
  BY <1>1, SystemInvHolds, PTL

\* In the system too the server is the register: what the client and the other
\* peers are told is what the register would tell them, in the order in which
\* they asked.
THEOREM SystemServesRegister ==
  ASSUME DistinctIdents PROVE Spec => S!ImplementsService
<1>1. S!ServerAssumption /\ S!ModulusAssumption /\ S!PeersKeepIdents
      /\ S!IdentsAreSet /\ S!IdentsIdentify
  BY SidesAssume, SameIdents, S!AskersKeepIdents
<1>2. S!Spec => S!ImplementsService
  BY <1>1, S!ServerImplementsService
<1>3. Init => S!Init
  BY SameServer DEF Init
<1>4. SystemInv /\ [Next]_vars => [S!Next]_(S!vars)
  <2>1. UNCHANGED serverVars => UNCHANGED S!vars
    BY DEF serverVars, S!vars, S!serverVars, S!callerVars, S!netVars
  <2> QED
    BY <2>1, ServerTakesSteps, SameServer DEF SystemInv
<1>5. Spec => S!Spec
  BY <1>3, <1>4, SystemInvHolds, PTL DEF Spec, S!Spec
<1> QED
  BY <1>2, <1>5, PTL

=============================================================================
