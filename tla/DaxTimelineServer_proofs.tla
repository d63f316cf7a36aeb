---------------------- MODULE DaxTimelineServer_proofs ----------------------
(* What TLAPS proves of DaxTimelineServer, for every value of its constants. *)
EXTENDS DaxTimelineServer, DaxTimeline_proofs

-----------------------------------------------------------------------------
(* Type correctness. *)

\* Ending the reactor from a well-typed state: whatever part of the answers on
\* their way is kept.
LEMMA ExitType == TypeOK /\ Exit => TypeOK'
<1> SUFFICES ASSUME TypeOK, Exit PROVE TypeOK'
  OBVIOUS
<1>1. outbox' \in [Peers -> Seq(Frame)]
  <2>1. PICK kept \in [Peers -> 0..MaxQueue] :
          /\ \A p \in Peers : kept[p] <= Len(outbox[p])
          /\ outbox' = [p \in Peers |-> SubSeq(outbox[p], 1, kept[p])]
    BY DEF Exit
  <2>2. ASSUME NEW p \in Peers PROVE SubSeq(outbox[p], 1, kept[p]) \in Seq(Frame)
    <3>1. /\ kept[p] \in Int
          /\ kept[p] <= Len(outbox[p])
          /\ outbox[p] \in Seq(Frame)
      BY <2>1, ServerAssumption DEF TypeOK
    <3>2. \A i \in 1..kept[p] : outbox[p][i] \in Frame
      BY <3>1
    <3> QED
      BY <3>1, <3>2, SubSeqProperties
  <2> QED
    BY <2>1, <2>2
<1>2. inbox' \in [Peers -> Seq(Requests)]
  BY DEF Exit
<1>3. pipe' \in Seq(Command)
  BY DEF Exit
<1> QED
  BY <1>1, <1>2, <1>3, NewCodecType DEF TypeOK, Exit, callerVars

\* Receiving a message of p: what every branch of the handler has in common.
LEMMA ReceiveType ==
  ASSUME TypeOK, NEW p \in Peers, Receive(p)
  PROVE  /\ Received(p) \in Codec
         /\ inbox' \in [Peers -> Seq(Requests)]
         /\ leftover' \in BOOLEAN
         /\ UNCHANGED <<timeline, timeout, loop, caller, made, gone, pipe,
                        published, interrupted>>
<1>1. /\ Head(inbox[p]) \in Requests
      /\ Tail(inbox[p]) \in Seq(Requests)
  BY HeadTailProperties DEF TypeOK, Receive
<1>2. Head(inbox[p]).frame \in Frame
  BY <1>1, ServerAssumption DEF Request
<1>3. Received(p) \in Codec
  BY <1>2, RecvIntoType DEF Received, TypeOK
<1> QED
  BY <1>1, <1>3 DEF Receive, TypeOK, callerVars

\* Answering with any codec object, to a peer present or gone.
LEMMA AnswerType ==
  ASSUME TypeOK, NEW p \in Peers, NEW m \in Codec, Answer(p, m)
  PROVE  message' \in Codec /\ outbox' \in [Peers -> Seq(Frame)]
<1>1. Append(outbox[p], SendFrame(m)) \in Seq(Frame)
  BY SendFrameType, AppendProperties DEF TypeOK
<1> QED
  BY <1>1 DEF Answer, TypeOK

\* Making a record or resetting its ticket keeps the table and the tickets typed.
LEMMA RememberType ==
  ASSUME TypeOK, NEW p \in Peers, Remember(p)
  PROVE  /\ clients' \subseteq Peers
         /\ ticket' \in [Peers -> {"none", "armed", "due"}]
  BY DEF Remember, TicketOnInput, TypeOK

\* Deleting a record does so too.
LEMMA ForgetType ==
  ASSUME TypeOK, NEW p \in Peers, Forget(p)
  PROVE  /\ clients' \subseteq Peers
         /\ ticket' \in [Peers -> {"none", "armed", "due"}]
  BY DEF Forget, TypeOK

\* Handling one message, whichever way it goes, keeps every type.
LEMMA HandleProtocolType ==
  ASSUME TypeOK, NEW p \in Peers, HandleProtocol(p)
  PROVE  TypeOK'
<1>1. CASE Discard(p)
  BY <1>1, ReceiveType, RememberType DEF Discard, TypeOK
<1>2. CASE ServeTimeline(p)
  <2>1. Received(p) \in Codec
    BY <1>2, ReceiveType DEF ServeTimeline
  <2>2. timeline \in Timeline
    BY <1>2 DEF ServeTimeline, TypeOK
  <2>3. CheckCurrent(Received(p)) \in Codec
    BY <2>1, <2>2, EncodeType DEF CheckCurrent
  <2>4. WithId(CheckCurrent(Received(p)), TIMELINE) \in Codec
    BY <2>3, WithType DEF TIMELINE
  <2> QED
    BY <1>2, <2>4, ReceiveType, AnswerType, ForgetType DEF ServeTimeline, TypeOK
<1>3. CASE NoTimeline(p)
  <2>1. Received(p) \in Codec
    BY <1>3, ReceiveType DEF NoTimeline
  <2>2. WithStatus(Received(p), NOT_FOUND) \in Codec
    BY <2>1, WithType DEF NOT_FOUND
  <2>3. WithId(WithStatus(Received(p), NOT_FOUND), ERROR) \in Codec
    BY <2>2, WithType DEF ERROR
  <2> QED
    BY <1>3, <2>3, ReceiveType, AnswerType, RememberType DEF NoTimeline, TypeOK
<1>4. CASE Refuse(p)
  <2>1. Received(p) \in Codec
    BY <1>4, ReceiveType DEF Refuse
  <2>2. WithId(Received(p), ERROR) \in Codec
    BY <2>1, WithType DEF ERROR
  <2> QED
    BY <1>4, <2>2, ReceiveType, AnswerType, ForgetType DEF Refuse, TypeOK
<1> QED
  BY <1>1, <1>2, <1>3, <1>4 DEF HandleProtocol

\* So does handling one command of the pipe.
LEMMA HandlePipeType == TypeOK /\ HandlePipe => TypeOK'
<1> SUFFICES ASSUME TypeOK, HandlePipe PROVE TypeOK'
  OBVIOUS
<1>1. ASSUME pipe # <<>>
      PROVE  Head(pipe) \in Command /\ Tail(pipe) \in Seq(Command)
  BY <1>1, HeadTailProperties DEF TypeOK
<1>2. CASE HandleNewTimeline
  <2>1. Head(pipe).timeline \in Timeline
    BY <1>1, <1>2 DEF HandleNewTimeline, PipeReady, Command
  <2>2. SendFrame(Encode(Head(pipe).timeline, NewCodec)) \in Frame
    BY <2>1, NewCodecType, EncodeType, SendFrameType
  <2>3. published' \in Seq(Frame)
    BY <1>2, <2>2, AppendProperties DEF HandleNewTimeline, TypeOK
  <2> QED
    BY <1>1, <1>2, <2>1, <2>3
    DEF HandleNewTimeline, PipeReady, TypeOK, callerVars, netVars
<1>3. CASE HandleSet
  <2>1. Head(pipe).value \in Nat
    BY <1>1, <1>3 DEF HandleSet, PipeReady, Command
  <2> QED
    BY <1>1, <1>3, <2>1
    DEF HandleSet, PipeReady, TypeOK, callerVars, netVars
<1>4. CASE HandleTerm
  BY <1>4, ExitType DEF HandleTerm
<1> QED
  BY <1>2, <1>3, <1>4 DEF HandlePipe

\* So do the caller's steps, which put commands into the pipe.
LEMMA CallerType ==
  ASSUME TypeOK,
         \/ CallerNewTimeline
         \/ \E v \in Timeouts : CallerSet(v)
         \/ CallerDestroys
  PROVE  TypeOK'
<1>1. ASSUME NEW c \in Command, CallerSends(c) PROVE pipe' \in Seq(Command)
  BY <1>1, AppendProperties DEF CallerSends, TypeOK
<1>2. CASE CallerNewTimeline
  <2>1. /\ Produced \in Seq(Timeline)
        /\ made \in 0..Len(Produced)
        /\ made < Len(Produced)
        /\ made' = made + 1
    BY <1>2, ServerAssumption DEF CallerNewTimeline, TypeOK
  <2>2. made + 1 \in 1..Len(Produced)
    BY <2>1
  <2>3. Produced[made + 1] \in Timeline
    BY <2>1, <2>2
  <2>4. [method |-> "NEW TIMELINE", timeline |-> Produced[made + 1]] \in Command
    BY <2>3 DEF Command
  <2>5. pipe' \in Seq(Command)
    BY <1>1, <1>2, <2>4 DEF CallerNewTimeline
  <2>6. made' \in 0..Len(Produced)
    BY <2>1, <2>2
  <2> QED
    BY <1>2, <2>5, <2>6
    DEF CallerNewTimeline, CallerSends, TypeOK, serverVars, netVars
<1>3. ASSUME NEW v \in Timeouts, CallerSet(v) PROVE TypeOK'
  <2>1. v \in Nat
    BY ServerAssumption
  <2>2. [method |-> "SET", value |-> v] \in Command
    BY <2>1 DEF Command
  <2>3. pipe' \in Seq(Command)
    BY <1>1, <1>3, <2>2 DEF CallerSet
  <2> QED
    BY <1>3, <2>3
    DEF CallerSet, CallerSends, TypeOK, serverVars, callerVars, netVars
<1>4. CASE CallerDestroys
  <2>1. [method |-> "$TERM"] \in Command
    BY DEF Command
  <2>2. pipe' \in Seq(Command)
    BY <1>1, <1>4, <2>1 DEF CallerDestroys
  <2> QED
    BY <1>4, <2>2
    DEF CallerDestroys, CallerSends, TypeOK, serverVars, netVars
<1> QED
  BY <1>2, <1>3, <1>4

\* So do the peers' steps, which put messages into the ROUTER or leave.
LEMMA PeerType ==
  ASSUME TypeOK, NEW p \in Peers, PeerSend(p) \/ PeerRecv(p) \/ PeerLeave(p)
  PROVE  TypeOK'
<1> USE DEF TypeOK, serverVars, callerVars
<1>1. CASE PeerSend(p)
  <2>1. ASSUME NEW r \in Requests PROVE Append(inbox[p], r) \in Seq(Requests)
    BY AppendProperties
  <2> QED
    BY <1>1, <2>1 DEF PeerSend
<1>2. CASE PeerRecv(p)
  <2>1. Tail(outbox[p]) \in Seq(Frame)
    BY <1>2, HeadTailProperties DEF PeerRecv
  <2> QED
    BY <1>2, <2>1 DEF PeerRecv
<1>3. CASE PeerLeave(p)
  BY <1>3 DEF PeerLeave
<1> QED
  BY <1>1, <1>2, <1>3

\* Every step keeps every type.
LEMMA TypeStep == ASSUME TypeOK, [Next]_vars PROVE TypeOK'
<1>1. ASSUME NEW p \in Peers, PeerSend(p) \/ PeerRecv(p) \/ PeerLeave(p)
      PROVE  TypeOK'
  BY <1>1, PeerType
<1>2. ASSUME NEW p \in Peers, HandleProtocol(p) PROVE TypeOK'
  BY <1>2, HandleProtocolType
<1>3. ASSUME NEW p \in Peers, TicketElapses(p) PROVE TypeOK'
  BY <1>3 DEF TicketElapses, TypeOK, callerVars, netVars
<1>4. ASSUME NEW p \in Peers, ClientExpires(p) PROVE TypeOK'
  BY <1>4 DEF ClientExpires, Forget, TypeOK, callerVars, netVars
<1>5. CASE CallerNewTimeline \/ (\E v \in Timeouts : CallerSet(v))
             \/ CallerDestroys
  BY <1>5, CallerType
<1>6. CASE Signal
  BY <1>6 DEF Signal, TypeOK, serverVars, callerVars, netVars
<1>7. CASE Interrupted \/ BrokenEnvelope
  BY <1>7, ExitType DEF Interrupted, BrokenEnvelope
<1>8. CASE HandlePipe
  BY <1>8, HandlePipeType
<1>9. CASE StartDrain \/ EndDrain
  BY <1>9 DEF StartDrain, EndDrain, TypeOK, callerVars, netVars
<1>10. CASE UNCHANGED vars
  BY <1>10 DEF TypeOK, vars, serverVars, callerVars, netVars
<1> QED
  BY <1>1, <1>2, <1>3, <1>4, <1>5, <1>6, <1>7, <1>8, <1>9, <1>10
  DEF Next, Exited

LEMMA TypeInit == Init => TypeOK
<1> SUFFICES ASSUME Init PROVE TypeOK
  OBVIOUS
<1>1. /\ message \in Codec
      /\ timeout \in Nat
      /\ published \in Seq(Frame)
      /\ pipe \in Seq(Command)
  BY NewCodecType DEF Init, DefaultTimeout
<1>2. /\ inbox \in [Peers -> Seq(Requests)]
      /\ outbox \in [Peers -> Seq(Frame)]
  BY DEF Init
<1>3. made \in 0..Len(Produced)
  BY ServerAssumption DEF Init
<1> QED
  BY <1>1, <1>2, <1>3 DEF Init, TypeOK

\* Every variable keeps its type, whatever the peers send.
THEOREM TypeCorrect == Spec => []TypeOK
<1>1. Init => TypeOK
  BY TypeInit
<1>2. TypeOK /\ [Next]_vars => TypeOK'
  BY TypeStep
<1> QED
  BY <1>1, <1>2, PTL DEF Spec

-----------------------------------------------------------------------------
(* Tickets and records. *)

\* No ticket in the reactor outlives the client record its callback uses.
THEOREM TicketsHaveRecords == Spec => []NoDanglingTicket
<1>1. Init => NoDanglingTicket
  BY DEF Init, NoDanglingTicket
<1>2. TypeOK /\ NoDanglingTicket /\ [Next]_vars => NoDanglingTicket'
  <2> SUFFICES ASSUME TypeOK, NoDanglingTicket, [Next]_vars
               PROVE  NoDanglingTicket'
    OBVIOUS
  <2> USE DEF NoDanglingTicket
  <2>1. ASSUME NEW p \in Peers, Remember(p) \/ Forget(p)
        PROVE  NoDanglingTicket'
    BY <2>1 DEF Remember, TicketOnInput, Forget, TypeOK
  <2>2. ASSUME NEW p \in Peers, HandleProtocol(p) \/ ClientExpires(p)
        PROVE  NoDanglingTicket'
    BY <2>1, <2>2 DEF HandleProtocol, Discard, ServeTimeline, NoTimeline,
                      Refuse, ClientExpires
  <2>3. ASSUME NEW p \in Peers, TicketElapses(p) PROVE NoDanglingTicket'
    BY <2>3 DEF TicketElapses, TypeOK
  <2>4. CASE Exit
    BY <2>4 DEF Exit
  <2>5. CASE UNCHANGED <<clients, ticket>>
    BY <2>5
  <2>6. ASSUME NEW p \in Peers, PeerSend(p) \/ PeerRecv(p) \/ PeerLeave(p)
        PROVE  UNCHANGED <<clients, ticket>>
    BY <2>6 DEF PeerSend, PeerRecv, PeerLeave, serverVars
  <2>7. ASSUME CallerNewTimeline \/ (\E v \in Timeouts : CallerSet(v))
               \/ CallerDestroys \/ Signal
        PROVE  UNCHANGED <<clients, ticket>>
    BY <2>7 DEF CallerNewTimeline, CallerSet, CallerDestroys, CallerSends,
                Signal, serverVars
  <2>8. ASSUME HandleNewTimeline \/ HandleSet \/ StartDrain \/ EndDrain
               \/ UNCHANGED vars
        PROVE  UNCHANGED <<clients, ticket>>
    BY <2>8 DEF HandleNewTimeline, HandleSet, StartDrain, EndDrain, vars,
                serverVars
  <2>9. ASSUME HandleTerm \/ Interrupted \/ BrokenEnvelope PROVE Exit
    BY <2>9 DEF HandleTerm, Interrupted, BrokenEnvelope
  <2> QED
    BY <2>2, <2>3, <2>4, <2>5, <2>6, <2>7, <2>8, <2>9
    DEF Next, HandlePipe, Exited
<1> QED
  BY <1>1, <1>2, TypeCorrect, PTL DEF Spec

-----------------------------------------------------------------------------
(* What a step can do to the shared codec object. *)

\* Everything but an incoming message and the end of the reactor leaves the
\* shared object alone.
LEMMA MessageChanges ==
  ASSUME [Next]_vars
  PROVE  \/ UNCHANGED message
         \/ message' = NewCodec
         \/ \E p \in Peers : HandleProtocol(p)
<1>1. ASSUME NEW p \in Peers,
             \/ PeerSend(p) \/ PeerRecv(p) \/ PeerLeave(p)
             \/ TicketElapses(p) \/ ClientExpires(p)
      PROVE  UNCHANGED message
  BY <1>1 DEF PeerSend, PeerRecv, PeerLeave, TicketElapses, ClientExpires,
              serverVars
<1>2. ASSUME \/ CallerNewTimeline
             \/ \E v \in Timeouts : CallerSet(v)
             \/ CallerDestroys
             \/ Signal
      PROVE  UNCHANGED message
  BY <1>2 DEF CallerNewTimeline, CallerSet, CallerDestroys, CallerSends,
              Signal, serverVars
<1>3. ASSUME \/ HandleNewTimeline \/ HandleSet \/ StartDrain \/ EndDrain
             \/ UNCHANGED vars
      PROVE  UNCHANGED message
  BY <1>3 DEF HandleNewTimeline, HandleSet, StartDrain, EndDrain, vars,
              serverVars
<1>4. ASSUME HandleTerm \/ Interrupted \/ BrokenEnvelope
      PROVE  message' = NewCodec
  BY <1>4 DEF HandleTerm, Interrupted, BrokenEnvelope, Exit
<1> QED
  BY <1>1, <1>2, <1>3, <1>4 DEF Next, HandlePipe, Exited

\* What the handler leaves in the shared object, branch by branch.
LEMMA MessageAfterProtocol ==
  ASSUME NEW p \in Peers, HandleProtocol(p)
  PROVE  \/ message' = Received(p) /\ Rc(p) = -2
         \/ /\ timeline # NULL
            /\ message' = WithId(CheckCurrent(Received(p)), TIMELINE)
         \/ message' = WithId(WithStatus(Received(p), NOT_FOUND), ERROR)
         \/ message' = WithId(Received(p), ERROR)
  BY DEF HandleProtocol, Discard, ServeTimeline, NoTimeline, Refuse, Answer

\* A frame recv calls malformed does not leave a request's id behind.
LEMMA MalformedIsNoRequest ==
  ASSUME NEW m \in Codec, m.id # SEND_TIMELINE, NEW f \in Frame,
         RecvRc(f) = -2
  PROVE  RecvInto(m, f).id # SEND_TIMELINE
  BY DEF RecvRc, RecvInto, Reaches, Carries, SignatureRead, IdRead, TIMELINE,
         SEND_TIMELINE, ERROR, Frame

\* Between callbacks the shared object never looks like a request, so a frame
\* too short to carry an id is never answered with the timeline.
THEOREM NeverLeftAsRequest == Spec => []QuiescentId
<1>1. Init => QuiescentId
  BY DEF Init, QuiescentId, NewCodec, SEND_TIMELINE
<1>2. TypeOK /\ QuiescentId /\ [Next]_vars => QuiescentId'
  <2> SUFFICES ASSUME TypeOK, QuiescentId, [Next]_vars PROVE QuiescentId'
    OBVIOUS
  <2>1. CASE UNCHANGED message
    BY <2>1 DEF QuiescentId
  <2>2. CASE message' = NewCodec
    BY <2>2 DEF QuiescentId, NewCodec, SEND_TIMELINE
  <2>3. ASSUME NEW p \in Peers, HandleProtocol(p) PROVE QuiescentId'
    <3>0. inbox[p] # <<>> /\ TypeOK
      BY <2>3 DEF HandleProtocol, Discard, ServeTimeline, NoTimeline, Refuse,
                  Receive
    <3>1. Head(inbox[p]) \in Requests
      BY <3>0, HeadTailProperties DEF TypeOK
    <3>2. Head(inbox[p]).frame \in Frame
      BY <3>1, ServerAssumption DEF Request
    <3>3. Received(p) \in Codec
      BY <3>2, RecvIntoType DEF Received, TypeOK
    <3>4. CASE message' = Received(p) /\ Rc(p) = -2
      BY <3>2, <3>4, MalformedIsNoRequest DEF Received, Rc, QuiescentId, TypeOK
    <3>5. CASE /\ timeline # NULL
               /\ message' = WithId(CheckCurrent(Received(p)), TIMELINE)
      <4>1. CheckCurrent(Received(p)) \in Codec
        BY <3>3, <3>5, EncodeType DEF CheckCurrent, TypeOK
      <4> QED
        BY <3>5, <4>1, WithIdSets DEF QuiescentId, TIMELINE, SEND_TIMELINE
    <3>6. CASE message' = WithId(WithStatus(Received(p), NOT_FOUND), ERROR)
      <4>1. WithStatus(Received(p), NOT_FOUND) \in Codec
        BY <3>3, WithType DEF NOT_FOUND
      <4> QED
        BY <3>6, <4>1, WithIdSets DEF QuiescentId, ERROR, SEND_TIMELINE
    <3>7. CASE message' = WithId(Received(p), ERROR)
      BY <3>3, <3>7, WithIdSets DEF QuiescentId, ERROR, SEND_TIMELINE
    <3> QED
      BY <2>3, <3>4, <3>5, <3>6, <3>7, MessageAfterProtocol
  <2> QED
    BY <2>1, <2>2, <2>3, MessageChanges
<1> QED
  BY <1>1, <1>2, TypeCorrect, PTL DEF Spec

-----------------------------------------------------------------------------
(* The cache in the shared codec object. *)

\* Codec object m holds timeline t.
Holds(m, t) == /\ m.ident = Unsigned(t.ident, IdentModulus)
               /\ m.sot = Unsigned(t.sot, TickModulus)
               /\ m.epochs = t.epochs
               /\ m.times = t.times

\* What m says under an ident of the caller's timelines is what that timeline
\* says; under other idents it may say anything.
Faithful(m) == m.ident \in HandedIdents => \E t \in Handed : Holds(m, t)

\* The inductive form of CacheCoherent: whose ident the shared object has, the
\* contents are that one's, whichever of the caller's timelines is current; and
\* the current timeline and those in the pipe are the caller's.
CacheInv ==
    /\ timeline # NULL => timeline \in Handed
    /\ \A i \in DOMAIN pipe :
          pipe[i].method = "NEW TIMELINE" => pipe[i].timeline \in Handed
    /\ Faithful(message)

\* The fields of an encoded timeline.
LEMMA EncodeSets ==
  ASSUME NEW t \in Timeline, NEW m \in Codec
  PROVE  /\ Holds(Encode(t, m), t)
         /\ Encode(t, m).created = m.created
  BY DEF Encode, Holds, Codec

\* What was handed over is a timeline.
LEMMA HandedAreTimelines == Handed \subseteq Timeline
  BY ServerAssumption DEF Handed

\* The chunks of a timeline are sent as they are.
LEMMA ChunksAreSent ==
  ASSUME NEW t \in Timeline
  PROVE  OnWire(t.epochs) = t.epochs /\ OnWire(t.times) = t.times
<1>1. t.epochs \in Chunk /\ t.times \in Chunk
  BY DEF Timeline
<1> QED
  BY <1>1, ServerAssumption DEF OnWire

\* A received message takes no ident of the caller's for anything else, and
\* brings no creation time.
LEMMA ReceivedIsFaithful ==
  ASSUME PeersKeepIdents, TypeOK, NEW p \in Peers, inbox[p] # <<>>,
         Faithful(message)
  PROVE  /\ Received(p) \in Codec
         /\ Faithful(Received(p))
         /\ message.created = 0 => Received(p).created = 0
<1> DEFINE f == Head(inbox[p]).frame
<1>1. Head(inbox[p]) \in Requests
  BY HeadTailProperties DEF TypeOK
<1>2. f \in Frame
  BY <1>1, ServerAssumption DEF Request
<1>3. Received(p) \in Codec /\ Received(p) = RecvInto(message, f)
  BY <1>2, RecvIntoType DEF Received, TypeOK
<1>4. Carries(f, TIMELINE, IdentRead) =>
        /\ f.created = 0
        /\ \/ f.ident \notin HandedIdents
           \/ \E t \in Handed : f = SendFrame(Encode(t, NewCodec))
  BY <1>1 DEF PeersKeepIdents
<1> HIDE DEF f
<1>5. ASSUME NEW n \in {CreatedRead, SotRead, EpochsRead, TimesRead},
             ~Carries(f, TIMELINE, IdentRead)
      PROVE  ~Carries(f, TIMELINE, n)
  BY <1>2, <1>5 DEF Carries, Reaches, Frame, SignatureRead, IdentRead,
              CreatedRead, SotRead, EpochsRead, TimesRead
<1>6. CASE ~Carries(f, TIMELINE, IdentRead)
  <2>1. /\ Received(p).ident = message.ident
        /\ Received(p).created = message.created
        /\ Received(p).sot = message.sot
        /\ Received(p).epochs = message.epochs
        /\ Received(p).times = message.times
    BY <1>3, <1>5, <1>6 DEF RecvInto
  <2> QED
    BY <1>3, <2>1 DEF Faithful, Holds
<1>7. CASE Carries(f, TIMELINE, IdentRead)
  <2>1. Received(p).ident = f.ident
    BY <1>3, <1>7 DEF RecvInto
  <2>2. message.created = 0 => Received(p).created = 0
    BY <1>3, <1>4, <1>7 DEF RecvInto
  <2>3. ASSUME NEW t \in Handed, f = SendFrame(Encode(t, NewCodec))
        PROVE  Holds(Received(p), t)
    <3> DEFINE e == Encode(t, NewCodec)
    <3>1. t \in Timeline /\ NewCodec \in Codec
      BY HandedAreTimelines, NewCodecType
    <3>2. e.id = TIMELINE /\ Holds(e, t) /\ f = SendFrame(e)
      BY <2>3, <3>1, EncodeSets DEF Encode, Codec
    <3> HIDE DEF e
    <3>3. OnWire(e.epochs) = t.epochs /\ OnWire(e.times) = t.times
      BY <3>1, <3>2, ChunksAreSent DEF Holds
    <3>4. /\ f.ident = Unsigned(t.ident, IdentModulus)
          /\ f.sot = Unsigned(t.sot, TickModulus)
          /\ f.epochs = t.epochs
          /\ f.times = t.times
          /\ f.id = TIMELINE /\ f.signature = TRUE /\ f.held = TimesRead
      BY <3>2, <3>3 DEF SendFrame, Holds, FullLength
    <3>5. \A n \in {IdentRead, SotRead, EpochsRead, TimesRead} :
             Carries(f, TIMELINE, n)
      BY <3>4 DEF Carries, Reaches, IdentRead, SotRead, EpochsRead, TimesRead
    <3> QED
      BY <1>3, <3>4, <3>5 DEF RecvInto, Holds
  <2> QED
    BY <1>3, <1>4, <1>7, <2>1, <2>2, <2>3 DEF Faithful
<1> QED
  BY <1>6, <1>7

\* After any message the shared object is as faithful as it was.
LEMMA FieldsAfterProtocol ==
  ASSUME PeersKeepIdents, TypeOK, CacheInv, NEW p \in Peers, HandleProtocol(p)
  PROVE  /\ message.created = 0 => message'.created = 0
         /\ Faithful(message')
<1>0. inbox[p] # <<>>
  BY DEF HandleProtocol, Discard, ServeTimeline, NoTimeline, Refuse, Receive
<1>1. /\ Received(p) \in Codec
      /\ Faithful(Received(p))
      /\ message.created = 0 => Received(p).created = 0
  BY <1>0, ReceivedIsFaithful DEF CacheInv
<1>2. CASE message' = Received(p)
  BY <1>1, <1>2
<1>3. CASE /\ timeline # NULL
           /\ message' = WithId(CheckCurrent(Received(p)), TIMELINE)
  <2>1. timeline \in Timeline /\ timeline \in Handed
    BY <1>3 DEF TypeOK, CacheInv
  <2>2. CASE CheckCurrent(Received(p)) = Received(p)
    BY <1>1, <1>3, <2>2, WithIdSets DEF TIMELINE, Faithful, Holds
  <2>3. CASE CheckCurrent(Received(p)) = Encode(timeline, Received(p))
    <3>1. Encode(timeline, Received(p)) \in Codec
      BY <1>1, <2>1, EncodeType
    <3>2. /\ Holds(message', timeline)
          /\ message'.created = Received(p).created
      BY <1>1, <1>3, <2>1, <2>3, <3>1, WithIdSets, EncodeSets
      DEF Holds, TIMELINE
    <3> QED
      BY <1>1, <2>1, <3>2 DEF Faithful
  <2> QED
    BY <2>2, <2>3 DEF CheckCurrent
<1>4. CASE message' = WithId(WithStatus(Received(p), NOT_FOUND), ERROR)
  <2>1. /\ WithStatus(Received(p), NOT_FOUND) \in Codec
        /\ WithStatus(Received(p), NOT_FOUND).ident = Received(p).ident
        /\ WithStatus(Received(p), NOT_FOUND).created = Received(p).created
        /\ WithStatus(Received(p), NOT_FOUND).sot = Received(p).sot
        /\ WithStatus(Received(p), NOT_FOUND).epochs = Received(p).epochs
        /\ WithStatus(Received(p), NOT_FOUND).times = Received(p).times
    BY <1>1 DEF WithStatus, Codec, NOT_FOUND
  <2> QED
    BY <1>1, <1>4, <2>1, WithIdSets DEF ERROR, Faithful, Holds
<1>5. CASE message' = WithId(Received(p), ERROR)
  BY <1>1, <1>5, WithIdSets DEF ERROR, Faithful, Holds
<1> QED
  BY <1>2, <1>3, <1>4, <1>5, MessageAfterProtocol

\* The current timeline and the timelines in the pipe are ones that were
\* handed over.
Provenance ==
    /\ timeline # NULL => timeline \in Handed
    /\ \A i \in DOMAIN pipe :
          pipe[i].method = "NEW TIMELINE" => pipe[i].timeline \in Handed

\* The caller hands over the next of its timelines.
LEMMA NewTimelineIsCommand ==
  ASSUME TypeOK, CallerNewTimeline
  PROVE  /\ [method |-> "NEW TIMELINE", timeline |-> Produced[made + 1]] \in Command
         /\ Produced[made + 1] \in Handed
<1>1. /\ Produced \in Seq(Timeline)
      /\ made \in 0..Len(Produced)
      /\ made < Len(Produced)
  BY ServerAssumption DEF CallerNewTimeline, TypeOK
<1>2. made + 1 \in 1..Len(Produced)
  BY <1>1
<1>3. DOMAIN Produced = 1..Len(Produced)
  BY <1>1, LenProperties
<1>4. Produced[made + 1] \in Handed /\ Produced[made + 1] \in Timeline
  BY <1>2, <1>3, HandedAreTimelines DEF Handed
<1> QED
  BY <1>4 DEF Command

\* What was handed over stays handed over, through the pipe and into the
\* server.
LEMMA ProvenanceStep ==
  ASSUME TypeOK, Provenance, [Next]_vars PROVE Provenance'
<1>0. pipe \in Seq(Command)
  BY DEF TypeOK
<1>1. ASSUME NEW c \in Command, CallerSends(c),
             c.method = "NEW TIMELINE" => c.timeline \in Handed
      PROVE  Provenance'
  <2>1. pipe' = Append(pipe, c) /\ timeline' = timeline
    BY <1>1 DEF CallerSends, serverVars
  <2>2. \A i \in DOMAIN pipe' :
           pipe'[i] = c \/ (i \in DOMAIN pipe /\ pipe'[i] = pipe[i])
    BY <1>0, <2>1, AppendPlaces
  <2> QED
    BY <1>1, <2>1, <2>2 DEF Provenance
<1>2. CASE CallerNewTimeline
  <2>1. /\ [method |-> "NEW TIMELINE", timeline |-> Produced[made + 1]] \in Command
        /\ Produced[made + 1] \in Handed
    BY <1>2, NewTimelineIsCommand
  <2> QED
    BY <1>1, <1>2, <2>1 DEF CallerNewTimeline
<1>3. ASSUME NEW v \in Timeouts, CallerSet(v) PROVE Provenance'
  <2>1. v \in Nat
    BY ServerAssumption
  <2>2. [method |-> "SET", value |-> v] \in Command
    BY <2>1 DEF Command
  <2> QED
    BY <1>1, <1>3, <2>2 DEF CallerSet
<1>4. CASE CallerDestroys
  <2>1. [method |-> "$TERM"] \in Command
    BY DEF Command
  <2> QED
    BY <1>1, <1>4, <2>1 DEF CallerDestroys
<1>5. ASSUME pipe # <<>>, pipe' = Tail(pipe),
             timeline' = timeline \/ timeline' \in Handed
      PROVE  Provenance'
  <2>1. \A i \in DOMAIN pipe' : \E j \in DOMAIN pipe : pipe'[i] = pipe[j]
    BY <1>0, <1>5, TailPlaces
  <2> QED
    BY <1>5, <2>1 DEF Provenance
<1>6. CASE HandleNewTimeline
  <2>1. pipe # <<>>
    BY <1>6 DEF HandleNewTimeline, PipeReady
  <2>2. timeline' \in Handed
    BY <1>0, <1>6, <2>1, TailPlaces
    DEF HandleNewTimeline, PipeReady, Provenance
  <2> QED
    BY <1>5, <1>6, <2>1, <2>2 DEF HandleNewTimeline
<1>7. CASE HandleSet
  BY <1>5, <1>7 DEF HandleSet, PipeReady
<1>8. CASE Exit
  <2>1. timeline' = NULL /\ pipe' = <<>>
    BY <1>8 DEF Exit
  <2>2. DOMAIN <<>> = {}
    BY EmptyHasNoPlaces
  <2> QED
    BY <2>1, <2>2 DEF Provenance
<1>9. CASE UNCHANGED <<pipe, timeline>>
  BY <1>9 DEF Provenance
<1>10. ASSUME NEW p \in Peers,
              \/ PeerSend(p) \/ PeerRecv(p) \/ PeerLeave(p) \/ HandleProtocol(p)
              \/ TicketElapses(p) \/ ClientExpires(p)
       PROVE  UNCHANGED <<pipe, timeline>>
  BY <1>10 DEF PeerSend, PeerRecv, PeerLeave, HandleProtocol, Discard,
               ServeTimeline, NoTimeline, Refuse, Receive, TicketElapses,
               ClientExpires, serverVars
<1>11. ASSUME Signal \/ StartDrain \/ EndDrain \/ UNCHANGED vars
       PROVE  UNCHANGED <<pipe, timeline>>
  BY <1>11 DEF Signal, StartDrain, EndDrain, vars, serverVars
<1>12. ASSUME HandleTerm \/ Interrupted \/ BrokenEnvelope PROVE Exit
  BY <1>12 DEF HandleTerm, Interrupted, BrokenEnvelope
<1> QED
  BY <1>2, <1>3, <1>4, <1>6, <1>7, <1>8, <1>9, <1>10, <1>11, <1>12
  DEF Next, HandlePipe, Exited

\* Every step keeps the shared object faithful.
LEMMA CacheInvStep ==
  ASSUME PeersKeepIdents, IdentsAreSet, TypeOK, CacheInv, [Next]_vars
  PROVE  CacheInv'
<1>1. Provenance'
  BY ProvenanceStep DEF CacheInv, Provenance
<1>2. Faithful(message')
  <2>1. CASE UNCHANGED message
    BY <2>1 DEF CacheInv
  <2>2. CASE message' = NewCodec
    BY <2>2 DEF NewCodec, Faithful, IdentsAreSet
  <2>3. ASSUME NEW p \in Peers, HandleProtocol(p) PROVE Faithful(message')
    BY <2>3, FieldsAfterProtocol
  <2> QED
    BY <2>1, <2>2, <2>3, MessageChanges
<1> QED
  BY <1>1, <1>2 DEF CacheInv, Provenance, Faithful, Holds

\* Under an ident of the caller's, the shared object holds that timeline.
THEOREM CacheHoldsOneTimeline ==
  ASSUME PeersKeepIdents, IdentsAreSet PROVE Spec => []CacheInv
<1>1. Init => CacheInv
  BY EmptyHasNoPlaces DEF Init, CacheInv, NewCodec, Faithful, IdentsAreSet
<1>2. TypeOK /\ CacheInv /\ [Next]_vars => CacheInv'
  BY CacheInvStep
<1> QED
  BY <1>1, <1>2, TypeCorrect, PTL DEF Spec

\* check_current's test is sound when idents identify, no timeline has ident
\* zero, and peers take no ident of the caller's for a timeline of their own.
THEOREM CacheIsCoherent ==
  ASSUME PeersKeepIdents, IdentsAreSet, IdentsIdentify
  PROVE  Spec => []CacheCoherent
<1>1. TypeOK /\ CacheInv => CacheCoherent
  <2> SUFFICES ASSUME TypeOK, CacheInv, timeline # NULL,
                      message.ident = Unsigned(timeline.ident, IdentModulus)
               PROVE  Contents(message) = Contents(Encode(timeline, message))
    BY DEF CacheCoherent
  <2>1. timeline \in Handed /\ timeline \in Timeline /\ message \in Codec
    BY HandedAreTimelines DEF CacheInv, TypeOK
  <2>2. PICK t \in Handed : Holds(message, t)
    BY <2>1 DEF CacheInv, Faithful, HandedIdents
  <2>3. ViewOf(t) = ViewOf(timeline)
    BY <2>1, <2>2 DEF Holds, IdentsIdentify
  <2>4. Holds(message, timeline)
    BY <2>2, <2>3 DEF Holds, ViewOf
  <2>5. Holds(Encode(timeline, message), timeline)
    BY <2>1, EncodeSets
  <2> QED
    BY <2>4, <2>5 DEF Contents, Holds
<1> QED
  BY <1>1, CacheHoldsOneTimeline, TypeCorrect, PTL

-----------------------------------------------------------------------------
(* What leaves the server. *)

\* Two codec objects that hold the same timeline and say TIMELINE are sent as
\* the same frame.
LEMMA SameFrame ==
  ASSUME NEW t \in Timeline, NEW m \in Codec, Holds(m, t), m.id = TIMELINE,
         m.created = 0
  PROVE  SendFrame(m) = SendFrame(Encode(t, NewCodec))
<1>1. NewCodec \in Codec
  BY NewCodecType
<1>2. /\ Encode(t, NewCodec).id = TIMELINE
      /\ Holds(Encode(t, NewCodec), t)
      /\ Encode(t, NewCodec).created = 0
  <2>1. Encode(t, NewCodec).id = TIMELINE
    BY <1>1 DEF Encode, Codec
  <2>2. NewCodec.created = 0
    BY DEF NewCodec
  <2> QED
    BY <1>1, <2>1, <2>2, EncodeSets
<1>3. TIMELINE # ERROR
  BY DEF TIMELINE, ERROR
<1> QED
  BY <1>2, <1>3 DEF Holds, SendFrame

\* Only NEW TIMELINE and the end of the actor change the current timeline.
LEMMA TimelineChanges ==
  ASSUME [Next]_vars
  PROVE  HandleNewTimeline \/ timeline' = timeline \/ timeline' = NULL
<1>1. ASSUME NEW p \in Peers,
             \/ PeerSend(p) \/ PeerRecv(p) \/ PeerLeave(p) \/ HandleProtocol(p)
             \/ TicketElapses(p) \/ ClientExpires(p)
      PROVE  timeline' = timeline
  BY <1>1 DEF PeerSend, PeerRecv, PeerLeave, HandleProtocol, Discard,
              ServeTimeline, NoTimeline, Refuse, Receive, TicketElapses,
              ClientExpires, serverVars
<1>2. ASSUME \/ CallerNewTimeline \/ (\E v \in Timeouts : CallerSet(v))
             \/ CallerDestroys \/ Signal \/ HandleSet \/ StartDrain
             \/ EndDrain \/ UNCHANGED vars
      PROVE  timeline' = timeline
  BY <1>2 DEF CallerNewTimeline, CallerSet, CallerDestroys, CallerSends, Signal,
              HandleSet, StartDrain, EndDrain, vars, serverVars
<1>3. ASSUME HandleTerm \/ Interrupted \/ BrokenEnvelope PROVE timeline' = NULL
  BY <1>3 DEF HandleTerm, Interrupted, BrokenEnvelope, Exit
<1> QED
  BY <1>1, <1>2, <1>3 DEF Next, HandlePipe, Exited

\* The shared object of a TIMELINE answer holds the current timeline, whether it
\* was encoded for this answer or for an earlier one.
LEMMA ServedHoldsCurrent ==
  ASSUME PeersKeepIdents, IdentsAreSet, IdentsIdentify, TypeOK, CacheInv,
         NEW p \in Peers, ServeTimeline(p)
  PROVE  /\ message' \in Codec
         /\ message'.id = TIMELINE
         /\ timeline \in Timeline
         /\ Holds(message', timeline)
<1>1. /\ inbox[p] # <<>>
      /\ timeline # NULL
      /\ message' = WithId(CheckCurrent(Received(p)), TIMELINE)
  BY DEF ServeTimeline, Receive, Answer
<1>2. Received(p) \in Codec /\ Faithful(Received(p))
  BY <1>1, ReceivedIsFaithful DEF CacheInv
<1>3. timeline \in Timeline /\ timeline \in Handed
  BY <1>1 DEF TypeOK, CacheInv
<1>4. CheckCurrent(Received(p)) \in Codec /\ Holds(CheckCurrent(Received(p)), timeline)
  <2>1. CASE Received(p).ident = Unsigned(timeline.ident, IdentModulus)
    <3>1. PICK t \in Handed : Holds(Received(p), t)
      BY <1>2, <1>3, <2>1 DEF Faithful, HandedIdents
    <3>2. ViewOf(t) = ViewOf(timeline)
      BY <1>2, <1>3, <2>1, <3>1 DEF Holds, IdentsIdentify
    <3>3. Holds(Received(p), timeline)
      BY <3>1, <3>2 DEF Holds, ViewOf
    <3> QED
      BY <1>2, <2>1, <3>3 DEF CheckCurrent, Holds
  <2>2. CASE Received(p).ident # Unsigned(timeline.ident, IdentModulus)
    BY <1>2, <1>3, <2>2, EncodeSets, EncodeType DEF CheckCurrent
  <2> QED
    BY <2>1, <2>2
<1>5. /\ WithId(CheckCurrent(Received(p)), TIMELINE) \in Codec
      /\ WithId(CheckCurrent(Received(p)), TIMELINE).id = TIMELINE
      /\ Holds(WithId(CheckCurrent(Received(p)), TIMELINE), timeline)
  BY <1>4, WithIdSets, WithType DEF Holds, TIMELINE
<1> QED
  BY <1>1, <1>3, <1>5 DEF Holds

\* What a step may do to the answers on their way to one peer: put a TIMELINE
\* answer behind them, put another answer behind them, or lose some.
LEMMA OutboxChanges ==
  ASSUME TypeOK, [Next]_vars, NEW p \in Peers
  PROVE  \/ /\ ServeTimeline(p)
            /\ outbox'[p] = Append(outbox[p], SendFrame(message'))
         \/ \E f \in Frame : /\ f.id = ERROR /\ outbox'[p] = Append(outbox[p], f)
                             /\ NoTimeline(p) \/ Refuse(p)
                             /\ f = SendFrame(message')
         \/ /\ Len(outbox'[p]) <= Len(outbox[p])
            /\ \A i \in DOMAIN outbox'[p] :
                  \E k \in DOMAIN outbox[p] : outbox'[p][i] = outbox[p][k]
<1> DEFINE Fewer == /\ Len(outbox'[p]) <= Len(outbox[p])
                    /\ \A i \in DOMAIN outbox'[p] :
                          \E k \in DOMAIN outbox[p] : outbox'[p][i] = outbox[p][k]
<1>1. outbox[p] \in Seq(Frame) /\ Len(outbox[p]) \in Nat
  BY LenProperties DEF TypeOK
<1>2. ASSUME outbox'[p] = outbox[p] PROVE Fewer
  BY <1>1, <1>2
<1>3. ASSUME outbox'[p] = <<>> PROVE Fewer
  <2>1. Len(outbox'[p]) = 0 /\ DOMAIN outbox'[p] = {}
    BY <1>3, EmptySeq, EmptyHasNoPlaces
  <2> QED
    BY <1>1, <2>1
<1>4. ASSUME outbox[p] # <<>>, outbox'[p] = Tail(outbox[p]) PROVE Fewer
  <2>1. Len(outbox'[p]) = Len(outbox[p]) - 1
    BY <1>1, <1>4, HeadTailProperties
  <2>2. \A i \in DOMAIN outbox'[p] :
           \E k \in DOMAIN outbox[p] : outbox'[p][i] = outbox[p][k]
    BY <1>1, <1>4, TailPlaces
  <2> QED
    BY <1>1, <2>1, <2>2
<1>5. ASSUME Exit PROVE Fewer
  <2>1. PICK kept \in [Peers -> 0..MaxQueue] :
          /\ kept[p] <= Len(outbox[p])
          /\ outbox'[p] = SubSeq(outbox[p], 1, kept[p])
    BY <1>5 DEF Exit
  <2>2. kept[p] \in Nat
    BY <2>1, ServerAssumption
  <2> QED
    BY <1>1, <2>1, <2>2, PrefixPlaces
<1>6. ASSUME UNCHANGED outbox PROVE Fewer
  BY <1>2, <1>6
<1>7. ASSUME NEW q \in Peers, q # p,
             \/ PeerRecv(q) \/ PeerLeave(q) \/ HandleProtocol(q)
      PROVE  Fewer
  <2>1. outbox'[p] = outbox[p]
    BY <1>7 DEF PeerRecv, PeerLeave, HandleProtocol, Discard, ServeTimeline,
                NoTimeline, Refuse, Answer, TypeOK
  <2> QED
    BY <1>2, <2>1
<1>8. ASSUME PeerRecv(p) \/ PeerLeave(p) PROVE Fewer
  <2>1. CASE PeerRecv(p)
    BY <1>4, <2>1 DEF PeerRecv, TypeOK
  <2>2. CASE PeerLeave(p)
    BY <1>3, <2>2 DEF PeerLeave, TypeOK
  <2> QED
    BY <1>8, <2>1, <2>2
<1>9. ASSUME HandleProtocol(p)
      PROVE  \/ Fewer
             \/ /\ ServeTimeline(p)
                /\ outbox'[p] = Append(outbox[p], SendFrame(message'))
             \/ \E f \in Frame : /\ f.id = ERROR /\ outbox'[p] = Append(outbox[p], f)
                                 /\ NoTimeline(p) \/ Refuse(p)
                                 /\ f = SendFrame(message')
  <2>1. CASE Discard(p)
    BY <1>6, <2>1 DEF Discard
  <2>2. ASSUME NEW m, Answer(p, m), outbox' # outbox
        PROVE  outbox'[p] = Append(outbox[p], SendFrame(message')) /\ message' = m
    BY <2>2 DEF Answer, TypeOK
  <2>3. CASE ServeTimeline(p)
    BY <1>6, <2>2, <2>3 DEF ServeTimeline
  <2>4. CASE NoTimeline(p) \/ Refuse(p)
    <3>1. message' \in Codec
      BY <2>4, HandleProtocolType DEF HandleProtocol, TypeOK
    <3>2. PICK n \in Codec : Answer(p, WithId(n, ERROR))
      <4>1. Received(p) \in Codec
        BY <2>4, ReceiveType DEF NoTimeline, Refuse
      <4>2. WithStatus(Received(p), NOT_FOUND) \in Codec
        BY <4>1, WithType DEF NOT_FOUND
      <4> QED
        BY <2>4, <4>1, <4>2 DEF NoTimeline, Refuse
    <3>3. SendFrame(message') \in Frame
      BY <3>1, SendFrameType
    <3>4. message'.id = ERROR
      BY <3>2, WithIdSets DEF Answer, ERROR
    <3>5. SendFrame(message').id = ERROR
      BY <3>4 DEF SendFrame
    <3> QED
      BY <1>6, <2>2, <2>4, <3>2, <3>3, <3>5
  <2> QED
    BY <1>9, <2>1, <2>3, <2>4 DEF HandleProtocol
<1>10. ASSUME NEW q \in Peers, PeerSend(q) \/ TicketElapses(q) \/ ClientExpires(q)
       PROVE  UNCHANGED outbox
  BY <1>10 DEF PeerSend, TicketElapses, ClientExpires, netVars
<1>11. ASSUME \/ CallerNewTimeline \/ (\E v \in Timeouts : CallerSet(v))
              \/ CallerDestroys \/ Signal \/ HandleNewTimeline \/ HandleSet
              \/ StartDrain \/ EndDrain \/ UNCHANGED vars
       PROVE  UNCHANGED outbox
  BY <1>11 DEF CallerNewTimeline, CallerSet, CallerDestroys, CallerSends, Signal,
               HandleNewTimeline, HandleSet, StartDrain, EndDrain, vars, netVars
<1>12. ASSUME HandleTerm \/ Interrupted \/ BrokenEnvelope PROVE Exit
  BY <1>12 DEF HandleTerm, Interrupted, BrokenEnvelope
<1> HIDE DEF Fewer
<1>13. \/ Fewer
       \/ /\ ServeTimeline(p)
          /\ outbox'[p] = Append(outbox[p], SendFrame(message'))
       \/ \E f \in Frame : /\ f.id = ERROR /\ outbox'[p] = Append(outbox[p], f)
                           /\ NoTimeline(p) \/ Refuse(p)
                           /\ f = SendFrame(message')
  BY <1>5, <1>6, <1>7, <1>8, <1>9, <1>10, <1>11, <1>12
  DEF Next, HandlePipe, Exited
<1> QED
  BY <1>13 DEF Fewer

\* NEW TIMELINE publishes the frame of the timeline it installs.
LEMMA NewTimelinePublishes ==
  ASSUME TypeOK, HandleNewTimeline
  PROVE  /\ timeline' \in Timeline
         /\ SendFrame(Encode(timeline', NewCodec)) \in Frame
         /\ published' = Append(published, SendFrame(Encode(timeline', NewCodec)))
<1>1. /\ pipe \in Seq(Command)
      /\ pipe # <<>>
      /\ Head(pipe).method = "NEW TIMELINE"
      /\ timeline' = Head(pipe).timeline
  BY DEF HandleNewTimeline, PipeReady, TypeOK
<1>2. Head(pipe) \in Command
  BY <1>1, HeadTailProperties
<1>3. timeline' \in Timeline
  BY <1>1, <1>2 DEF Command
<1>4. SendFrame(Encode(timeline', NewCodec)) \in Frame
  BY <1>3, NewCodecType, EncodeType, SendFrameType
<1> QED
  BY <1>1, <1>3, <1>4 DEF HandleNewTimeline

\* What was published stays published.
LEMMA PublishedGrows ==
  ASSUME TypeOK, [Next]_vars
  PROVE  \A j \in DOMAIN published :
            j \in DOMAIN published' /\ published'[j] = published[j]
<1>1. published \in Seq(Frame)
  BY DEF TypeOK
<1>2. CASE HandleNewTimeline
  <2>1. PICK f \in Frame : published' = Append(published, f)
    BY <1>2, NewTimelinePublishes
  <2> QED
    BY <1>1, <2>1, AppendKeeps
<1>3. CASE UNCHANGED published
  BY <1>3
<1>4. ASSUME NEW p \in Peers,
             \/ PeerSend(p) \/ PeerRecv(p) \/ PeerLeave(p) \/ HandleProtocol(p)
             \/ TicketElapses(p) \/ ClientExpires(p)
      PROVE  UNCHANGED published
  BY <1>4 DEF PeerSend, PeerRecv, PeerLeave, HandleProtocol, Discard,
              ServeTimeline, NoTimeline, Refuse, Receive, TicketElapses,
              ClientExpires
<1>5. ASSUME \/ CallerNewTimeline \/ (\E v \in Timeouts : CallerSet(v))
             \/ CallerDestroys \/ Signal \/ Interrupted \/ BrokenEnvelope
             \/ HandleSet \/ HandleTerm \/ StartDrain \/ EndDrain
             \/ UNCHANGED vars
      PROVE  UNCHANGED published
  BY <1>5 DEF CallerNewTimeline, CallerSet, CallerDestroys, CallerSends, Signal,
              Interrupted, BrokenEnvelope, HandleSet, HandleTerm, Exit,
              StartDrain, EndDrain, vars
<1> QED
  BY <1>2, <1>3, <1>4, <1>5 DEF Next, HandlePipe, Exited

\* What AnswersWerePublished rests on beside CacheInv: the current timeline was
\* published, and no creation time is in the shared object.
PublishedInv ==
    /\ message.created = 0
    /\ timeline # NULL =>
          \E j \in DOMAIN published :
             published[j] = SendFrame(Encode(timeline, NewCodec))
    /\ AnswersWerePublished

\* Every step keeps it.
LEMMA PublishedInvStep ==
  ASSUME PeersKeepIdents, IdentsAreSet, IdentsIdentify,
         TypeOK, CacheInv, PublishedInv, [Next]_vars
  PROVE  PublishedInv'
<1>1. message'.created = 0
  <2>1. CASE message' = NewCodec
    BY <2>1 DEF NewCodec
  <2>2. CASE UNCHANGED message
    BY <2>2 DEF PublishedInv
  <2>3. ASSUME NEW p \in Peers, HandleProtocol(p) PROVE message'.created = 0
    BY <2>3, FieldsAfterProtocol DEF PublishedInv
  <2> QED
    BY <2>1, <2>2, <2>3, MessageChanges
<1>2. timeline' # NULL =>
         \E j \in DOMAIN published' :
            published'[j] = SendFrame(Encode(timeline', NewCodec))
  <2>1. CASE HandleNewTimeline
    <3>1. published \in Seq(Frame)
      BY DEF TypeOK
    <3> QED
      BY <2>1, <3>1, NewTimelinePublishes, AppendKeeps
  <2>2. ASSUME timeline' = timeline \/ timeline' = NULL
        PROVE  timeline' # NULL =>
                  \E j \in DOMAIN published' :
                     published'[j] = SendFrame(Encode(timeline', NewCodec))
    BY <2>2, PublishedGrows DEF PublishedInv
  <2> QED
    BY <2>1, <2>2, TimelineChanges
<1>3. ASSUME NEW p \in Peers, NEW i \in DOMAIN outbox'[p],
             outbox'[p][i].id = TIMELINE
      PROVE  \E j \in DOMAIN published' : outbox'[p][i] = published'[j]
  <2>1. outbox[p] \in Seq(Frame)
    BY DEF TypeOK
  <2>2. ASSUME NEW k \in DOMAIN outbox[p], outbox'[p][i] = outbox[p][k]
        PROVE  \E j \in DOMAIN published' : outbox'[p][i] = published'[j]
    BY <1>3, <2>2, PublishedGrows DEF PublishedInv, AnswersWerePublished
  <2>3. CASE /\ ServeTimeline(p)
             /\ outbox'[p] = Append(outbox[p], SendFrame(message'))
    <3>1. /\ message' \in Codec
          /\ message'.id = TIMELINE
          /\ timeline \in Timeline
          /\ Holds(message', timeline)
      BY <2>3, ServedHoldsCurrent
    <3>2. SendFrame(message') = SendFrame(Encode(timeline, NewCodec))
      BY <1>1, <3>1, SameFrame
    <3>3. \E j \in DOMAIN published' : SendFrame(message') = published'[j]
      <4>1. timeline # NULL
        BY <2>3 DEF ServeTimeline
      <4> QED
        BY <3>2, <4>1, PublishedGrows DEF PublishedInv
    <3>4. SendFrame(message') \in Frame
      BY <3>1, SendFrameType
    <3>5. \/ outbox'[p][i] = SendFrame(message')
          \/ i \in DOMAIN outbox[p] /\ outbox'[p][i] = outbox[p][i]
      BY <2>1, <2>3, <3>4, AppendPlaces
    <3> QED
      BY <2>2, <3>3, <3>5
  <2>4. ASSUME NEW f \in Frame, f.id = ERROR, outbox'[p] = Append(outbox[p], f)
        PROVE  \E j \in DOMAIN published' : outbox'[p][i] = published'[j]
    <3>1. \/ outbox'[p][i] = f
          \/ i \in DOMAIN outbox[p] /\ outbox'[p][i] = outbox[p][i]
      BY <2>1, <2>4, AppendPlaces
    <3>2. f.id # TIMELINE
      BY <2>4 DEF ERROR, TIMELINE
    <3> QED
      BY <1>3, <2>2, <3>1, <3>2
  <2> QED
    BY <2>2, <2>3, <2>4, OutboxChanges
<1> QED
  BY <1>1, <1>2, <1>3 DEF PublishedInv, AnswersWerePublished

\* No peer is answered what was not published, nor anything that differs from
\* what was.
THEOREM AnswersArePublished ==
  ASSUME PeersKeepIdents, IdentsAreSet, IdentsIdentify
  PROVE  Spec => []AnswersWerePublished
<1>1. Init => PublishedInv
  BY EmptyHasNoPlaces DEF Init, PublishedInv, AnswersWerePublished, NewCodec
<1>2. TypeOK /\ CacheInv /\ PublishedInv /\ [Next]_vars => PublishedInv'
  BY PublishedInvStep
<1>3. PublishedInv => AnswersWerePublished
  BY DEF PublishedInv
<1> QED
  BY <1>1, <1>2, <1>3, TypeCorrect, CacheHoldsOneTimeline, PTL DEF Spec

\* A TIMELINE answer tells of the timeline that is current as it is sent.
THEOREM AnswersAreCurrent ==
  ASSUME PeersKeepIdents, IdentsAreSet, IdentsIdentify
  PROVE  Spec => AnswerIsCurrent
<1> DEFINE TellsCurrent(p) ==
      Len(outbox'[p]) > Len(outbox[p]) =>
          LET f == outbox'[p][Len(outbox'[p])]
          IN  f.id = TIMELINE => /\ timeline # NULL
                                 /\ AnswerOf(f) = ViewOf(timeline)
<1>1. ASSUME TypeOK, CacheInv, [Next]_vars, NEW p \in Peers PROVE TellsCurrent(p)
  <2>1. outbox[p] \in Seq(Frame) /\ Len(outbox[p]) \in Nat
    BY <1>1, LenProperties DEF TypeOK
  <2>2. CASE /\ ServeTimeline(p)
             /\ outbox'[p] = Append(outbox[p], SendFrame(message'))
    <3>1. /\ message' \in Codec
          /\ message'.id = TIMELINE
          /\ timeline \in Timeline
          /\ Holds(message', timeline)
      BY <1>1, <2>2, ServedHoldsCurrent
    <3>2. outbox'[p][Len(outbox'[p])] = SendFrame(message')
      BY <2>1, <2>2, <3>1, SendFrameType, AppendProperties
    <3>3. timeline # NULL
      BY <2>2 DEF ServeTimeline
    <3>4. AnswerOf(SendFrame(message')) = ViewOf(timeline)
      BY <3>1, ChunksAreSent DEF AnswerOf, ViewOf, SendFrame, Holds
    <3> QED
      BY <3>2, <3>3, <3>4
  <2>3. ASSUME NEW f \in Frame, f.id = ERROR, outbox'[p] = Append(outbox[p], f)
        PROVE  TellsCurrent(p)
    <3>1. outbox'[p][Len(outbox'[p])] = f
      BY <2>1, <2>3, AppendProperties
    <3>2. f.id # TIMELINE
      BY <2>3 DEF ERROR, TIMELINE
    <3> QED
      BY <3>1, <3>2
  <2>4. CASE Len(outbox'[p]) <= Len(outbox[p])
    <3>1. Len(outbox'[p]) \in Nat
      <4>1. outbox'[p] \in Seq(Frame)
        BY <1>1, TypeStep DEF TypeOK
      <4> QED
        BY <4>1, LenProperties
    <3> QED
      BY <2>1, <2>4, <3>1
  <2> QED
    BY <1>1, <2>2, <2>3, <2>4, OutboxChanges
<1>2. TypeOK /\ CacheInv /\ [Next]_vars => [\A p \in Peers : TellsCurrent(p)]_vars
  BY <1>1
<1> QED
  BY <1>2, TypeCorrect, CacheHoldsOneTimeline, PTL DEF Spec, AnswerIsCurrent

-----------------------------------------------------------------------------
(* Peers that only ask, as the timeline client does. *)

OnlyRequests ==
    \A r \in Requests : r = [frame |-> BareFrame(SEND_TIMELINE), parts |-> 1]

NotFoundFrame == SendFrame(WithId(WithStatus(NewCodec, NOT_FOUND), ERROR))

\* They send no timelines.
LEMMA AskersKeepIdents == ASSUME OnlyRequests PROVE PeersKeepIdents
  BY DEF OnlyRequests, PeersKeepIdents, BareFrame, Carries, TIMELINE,
         SEND_TIMELINE

\* Their messages are all understood.
LEMMA RequestsAreUnderstood ==
  ASSUME OnlyRequests, TypeOK, NEW p \in Peers, inbox[p] # <<>>
  PROVE  Rc(p) = 0 /\ IsRequest(Received(p))
<1>1. Head(inbox[p]) \in Requests
  BY HeadTailProperties DEF TypeOK
<1>2. Head(inbox[p]).frame = BareFrame(SEND_TIMELINE)
  BY <1>1 DEF OnlyRequests
<1>3. /\ Head(inbox[p]).frame.signature = TRUE
      /\ Head(inbox[p]).frame.id = SEND_TIMELINE
      /\ Head(inbox[p]).frame.held = IdRead
  BY <1>2 DEF BareFrame
<1>4. Rc(p) = 0
  BY <1>3 DEF Rc, RecvRc, Reaches, Carries, TIMELINE, SEND_TIMELINE, ERROR,
              SignatureRead, IdRead
<1>5. Received(p).id = SEND_TIMELINE
  BY <1>3 DEF Received, RecvInto, Reaches, SignatureRead, IdRead
<1> QED
  BY <1>4, <1>5 DEF IsRequest

\* Without a timeline they get one and the same frame, whatever was in the
\* shared object.
LEMMA NotFoundIsTold ==
  ASSUME TypeOK, NEW p \in Peers, NoTimeline(p)
  PROVE  SendFrame(message') = NotFoundFrame
<1>1. /\ Received(p) \in Codec
      /\ message' = WithId(WithStatus(Received(p), NOT_FOUND), ERROR)
  BY ReceiveType DEF NoTimeline, Answer
<1>2. ASSUME NEW m \in Codec
      PROVE  /\ WithId(WithStatus(m, NOT_FOUND), ERROR).id = ERROR
             /\ WithId(WithStatus(m, NOT_FOUND), ERROR).status = NOT_FOUND
  BY DEF WithId, WithStatus, Codec
<1>3. ERROR # TIMELINE
  BY DEF ERROR, TIMELINE
<1>4. /\ message'.id = ERROR
      /\ message'.status = NOT_FOUND
      /\ WithId(WithStatus(NewCodec, NOT_FOUND), ERROR).id = ERROR
      /\ WithId(WithStatus(NewCodec, NOT_FOUND), ERROR).status = NOT_FOUND
  BY <1>1, <1>2, NewCodecType
<1> QED
  BY <1>3, <1>4 DEF SendFrame, NotFoundFrame

\* What such a peer can be sent: the frame of the timeline that is current, or,
\* as long as there is none, the frame that says so.
LEMMA AnswersToAskers ==
  ASSUME OnlyRequests, IdentsAreSet, IdentsIdentify,
         TypeOK, CacheInv, PublishedInv, [Next]_vars, NEW p \in Peers
  PROVE  \/ /\ timeline # NULL /\ timeline \in Handed
            /\ outbox'[p] = Append(outbox[p], SendFrame(Encode(timeline, NewCodec)))
         \/ /\ timeline = NULL /\ loop # "exited"
            /\ outbox'[p] = Append(outbox[p], NotFoundFrame)
         \/ \A i \in DOMAIN outbox'[p] :
               \E k \in DOMAIN outbox[p] : outbox'[p][i] = outbox[p][k]
<1>1. CASE /\ ServeTimeline(p)
           /\ outbox'[p] = Append(outbox[p], SendFrame(message'))
  <2>1. /\ message' \in Codec
        /\ message'.id = TIMELINE
        /\ timeline \in Timeline
        /\ Holds(message', timeline)
    BY <1>1, AskersKeepIdents, ServedHoldsCurrent
  <2>2. message'.created = 0
    BY <1>1, AskersKeepIdents, FieldsAfterProtocol
    DEF HandleProtocol, PublishedInv
  <2>3. SendFrame(message') = SendFrame(Encode(timeline, NewCodec))
    BY <2>1, <2>2, SameFrame
  <2>4. timeline # NULL /\ timeline \in Handed
    BY <1>1 DEF ServeTimeline, CacheInv
  <2> QED
    BY <1>1, <2>3, <2>4
<1>2. ~Refuse(p)
  <2>1. Refuse(p) => inbox[p] # <<>> /\ ~IsRequest(Received(p))
    BY DEF Refuse, Receive
  <2> QED
    BY <2>1, RequestsAreUnderstood
<1>3. CASE NoTimeline(p) /\ outbox'[p] = Append(outbox[p], SendFrame(message'))
  <2>1. timeline = NULL /\ loop # "exited"
    BY <1>3 DEF NoTimeline, Receive
  <2> QED
    BY <1>3, <2>1, NotFoundIsTold
<1> QED
  BY <1>1, <1>2, <1>3, OutboxChanges

LEMMA Sums ==
  ASSUME NEW a \in Nat, NEW b \in Nat, NEW c \in Nat, NEW d \in Nat,
         (a <= c /\ b <= d) \/ (a = c - 1 /\ b <= d + 1)
  PROVE  a + b <= c + d
  OBVIOUS

\* Only sending puts something on the way between a peer and the server: a
\* message is answered at most once.
LEMMA TrafficOnlyFalls ==
  ASSUME TypeOK, [Next]_vars, NEW p \in Peers, ~PeerSend(p)
  PROVE  Len(inbox'[p]) + Len(outbox'[p]) <= Len(inbox[p]) + Len(outbox[p])
<1> DEFINE Falls == Len(inbox'[p]) + Len(outbox'[p])
                       <= Len(inbox[p]) + Len(outbox[p])
<1>1. /\ inbox[p] \in Seq(Requests) /\ Len(inbox[p]) \in Nat
      /\ outbox[p] \in Seq(Frame) /\ Len(outbox[p]) \in Nat
      /\ inbox'[p] \in Seq(Requests) /\ Len(inbox'[p]) \in Nat
      /\ outbox'[p] \in Seq(Frame) /\ Len(outbox'[p]) \in Nat
  <2>1. TypeOK'
    BY TypeStep
  <2> QED
    BY <2>1, LenProperties DEF TypeOK
<1>2. ASSUME inbox'[p] = inbox[p] \/ inbox'[p] = <<>>,
             Len(outbox'[p]) <= Len(outbox[p])
      PROVE  Falls
  <2>1. Len(inbox'[p]) = Len(inbox[p]) \/ Len(inbox'[p]) = 0
    BY <1>2, EmptySeq
  <2>2. Len(inbox'[p]) <= Len(inbox[p])
    BY <1>1, <2>1
  <2> QED
    BY <1>1, <1>2, <2>2, Sums
<1>3. ASSUME HandleProtocol(p) PROVE Falls
  <2>1. /\ inbox[p] # <<>>
        /\ inbox'[p] = Tail(inbox[p])
    BY <1>3 DEF HandleProtocol, Discard, ServeTimeline, NoTimeline, Refuse,
                Receive, TypeOK
  <2>2. Len(inbox'[p]) = Len(inbox[p]) - 1
    BY <1>1, <2>1, HeadTailProperties
  <2>3. \/ \E f \in Frame : outbox'[p] = Append(outbox[p], f)
        \/ Len(outbox'[p]) <= Len(outbox[p])
    <3>1. ServeTimeline(p) => SendFrame(message') \in Frame
      <4>1. TypeOK'
        BY TypeStep
      <4> QED
        BY <4>1, SendFrameType DEF TypeOK
    <3> QED
      BY <3>1, OutboxChanges
  <2>4. Len(outbox'[p]) <= Len(outbox[p]) + 1
    <3>1. ASSUME NEW f \in Frame, outbox'[p] = Append(outbox[p], f)
          PROVE  Len(outbox'[p]) = Len(outbox[p]) + 1
      BY <1>1, <3>1, AppendProperties
    <3> QED
      BY <1>1, <2>3, <3>1
  <2> QED
    BY <1>1, <2>2, <2>4, Sums
<1>4. ASSUME ~HandleProtocol(p) PROVE Len(outbox'[p]) <= Len(outbox[p])
  BY <1>4, OutboxChanges DEF HandleProtocol
<1>5. ASSUME NEW q \in Peers, q # p, PeerSend(q) \/ HandleProtocol(q)
      PROVE  inbox'[p] = inbox[p]
  BY <1>5 DEF PeerSend, HandleProtocol, Discard, ServeTimeline, NoTimeline,
              Refuse, Receive, TypeOK
<1>6. ASSUME NEW q \in Peers,
             PeerRecv(q) \/ PeerLeave(q) \/ TicketElapses(q) \/ ClientExpires(q)
      PROVE  inbox' = inbox
  BY <1>6 DEF PeerRecv, PeerLeave, TicketElapses, ClientExpires, netVars
<1>7. ASSUME \/ CallerNewTimeline \/ (\E v \in Timeouts : CallerSet(v))
             \/ CallerDestroys \/ Signal \/ HandleNewTimeline \/ HandleSet
             \/ StartDrain \/ EndDrain \/ UNCHANGED vars
      PROVE  inbox' = inbox
  BY <1>7 DEF CallerNewTimeline, CallerSet, CallerDestroys, CallerSends, Signal,
              HandleNewTimeline, HandleSet, StartDrain, EndDrain, vars, netVars
<1>8. ASSUME HandleTerm \/ Interrupted \/ BrokenEnvelope
      PROVE  inbox'[p] = <<>>
  BY <1>8 DEF HandleTerm, Interrupted, BrokenEnvelope, Exit
<1> HIDE DEF Falls
<1>9. Falls
  BY <1>2, <1>3, <1>4, <1>5, <1>6, <1>7, <1>8 DEF Next, HandlePipe, Exited
<1> QED
  BY <1>9 DEF Falls

\* Once something was published there is a current timeline, until the end.
PublishedIsKept == loop # "exited" /\ published # <<>> => timeline # NULL

LEMMA PublishedIsKeptStep ==
  ASSUME TypeOK, PublishedIsKept, [Next]_vars PROVE PublishedIsKept'
<1> USE DEF PublishedIsKept
<1>1. CASE HandleNewTimeline
  <2>1. timeline' # NULL
    BY <1>1, NewTimelinePublishes, ServerAssumption
  <2> QED
    BY <2>1
<1>2. CASE HandleTerm \/ Interrupted \/ BrokenEnvelope
  BY <1>2 DEF HandleTerm, Interrupted, BrokenEnvelope, Exit
<1>3. ASSUME UNCHANGED <<timeline, published>>, loop' # "exited" => loop # "exited"
      PROVE  PublishedIsKept'
  BY <1>3
<1>4. ASSUME NEW p \in Peers,
             \/ PeerSend(p) \/ PeerRecv(p) \/ PeerLeave(p) \/ HandleProtocol(p)
             \/ TicketElapses(p) \/ ClientExpires(p)
      PROVE  PublishedIsKept'
  BY <1>3, <1>4 DEF PeerSend, PeerRecv, PeerLeave, HandleProtocol, Discard,
                    ServeTimeline, NoTimeline, Refuse, Receive, TicketElapses,
                    ClientExpires, serverVars
<1>5. CASE \/ CallerNewTimeline \/ (\E v \in Timeouts : CallerSet(v))
           \/ CallerDestroys \/ Signal \/ HandleSet \/ StartDrain \/ EndDrain
           \/ UNCHANGED vars
  BY <1>3, <1>5 DEF CallerNewTimeline, CallerSet, CallerDestroys, CallerSends,
                    Signal, HandleSet, StartDrain, EndDrain, vars, serverVars
<1> QED
  BY <1>1, <1>2, <1>4, <1>5 DEF Next, HandlePipe, Exited

\* What holds of the answers as the actor starts.
LEMMA AnswersInit ==
  ASSUME IdentsAreSet PROVE Init => CacheInv /\ PublishedInv /\ PublishedIsKept
  BY EmptyHasNoPlaces
  DEF Init, CacheInv, PublishedInv, AnswersWerePublished, PublishedIsKept,
      NewCodec, Faithful, IdentsAreSet
=============================================================================
