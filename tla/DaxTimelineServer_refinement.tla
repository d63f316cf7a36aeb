-------------------- MODULE DaxTimelineServer_refinement ---------------------
(* The server implements TimelineService, for every value of the constants:  *)
(* each step of DaxTimelineServer is a step of the register or no step of it. *)
EXTENDS DaxTimelineServer_proofs

-----------------------------------------------------------------------------
(* The mapped queues. *)

AsQuestion == [r \in Requests |-> QuestionOf(r)]
AsAnswer   == [f \in Frame |-> AnswerOf(f)]

\* The queues b of all peers, each element as g has it.
Seen(g, b) == [p \in Peers |-> Mapped(g, b[p])]

\* The service's questions and answers are the server's queues so seen.
LEMMA QuestionsAreSeen ==
  ASSUME NEW b \in [Peers -> Seq(Requests)]
  PROVE  [p \in Peers |-> [i \in DOMAIN b[p] |-> QuestionOf(b[p][i])]]
            = Seen(AsQuestion, b)
<1>1. ASSUME NEW p \in Peers
      PROVE  [i \in DOMAIN b[p] |-> QuestionOf(b[p][i])]
                = Mapped(AsQuestion, b[p])
  <2>1. \A i \in DOMAIN b[p] : b[p][i] \in Requests
    BY LenProperties
  <2>2. \A i \in DOMAIN b[p] : QuestionOf(b[p][i]) = AsQuestion[b[p][i]]
    BY <2>1 DEF AsQuestion
  <2> QED
    BY <2>2 DEF Mapped
<1> QED
  BY <1>1 DEF Seen

LEMMA AnswersAreSeen ==
  ASSUME NEW b \in [Peers -> Seq(Frame)]
  PROVE  [p \in Peers |-> [i \in DOMAIN b[p] |-> AnswerOf(b[p][i])]]
            = Seen(AsAnswer, b)
<1>1. ASSUME NEW p \in Peers
      PROVE  [i \in DOMAIN b[p] |-> AnswerOf(b[p][i])] = Mapped(AsAnswer, b[p])
  <2>1. \A i \in DOMAIN b[p] : b[p][i] \in Frame
    BY LenProperties
  <2>2. \A i \in DOMAIN b[p] : AnswerOf(b[p][i]) = AsAnswer[b[p][i]]
    BY <2>1 DEF AsAnswer
  <2> QED
    BY <2>2 DEF Mapped
<1> QED
  BY <1>1 DEF Seen

\* So they are before and after a step between well-typed states.
LEMMA ServiceQueues ==
  ASSUME TypeOK, TypeOK'
  PROVE  /\ Questions = Seen(AsQuestion, inbox)
         /\ Questions' = Seen(AsQuestion, inbox')
         /\ Told = Seen(AsAnswer, outbox)
         /\ Told' = Seen(AsAnswer, outbox')
<1>1. /\ inbox \in [Peers -> Seq(Requests)]
      /\ inbox' \in [Peers -> Seq(Requests)]
      /\ outbox \in [Peers -> Seq(Frame)]
      /\ outbox' \in [Peers -> Seq(Frame)]
  BY DEF TypeOK
<1>2. Questions = Seen(AsQuestion, inbox)
  BY <1>1, QuestionsAreSeen DEF Questions
<1>3. Questions' = Seen(AsQuestion, inbox')
  BY <1>1, QuestionsAreSeen DEF Questions
<1>4. Told = Seen(AsAnswer, outbox)
  BY <1>1, AnswersAreSeen DEF Told
<1>5. Told' = Seen(AsAnswer, outbox')
  BY <1>1, AnswersAreSeen DEF Told
<1> QED
  BY <1>2, <1>3, <1>4, <1>5

\* An empty queue looks empty.
LEMMA SeenEmpty == ASSUME NEW g PROVE Mapped(g, <<>>) = <<>>
<1>1. <<>> \in Seq({})
  BY EmptySeq
<1> QED
  BY <1>1, MappedEmpty

-----------------------------------------------------------------------------
(* Steps the service does not see, and the steps of the peers. *)

\* What does not touch the timeline, the queues, the departed and the end of
\* the reactor is no step of the service.
LEMMA Unseen ==
  ASSUME UNCHANGED <<timeline, inbox, outbox, gone>>,
         loop' = loop \/ (loop # "exited" /\ loop' # "exited")
  PROVE  UNCHANGED Service!vars
<1>1. UNCHANGED <<CurrentView, Questions, Told>>
  BY DEF CurrentView, Questions, Told
<1>2. UNCHANGED Serving
  BY DEF Serving
<1> QED
  BY <1>1, <1>2 DEF Service!vars

\* The rest of the service's state while a peer talks to the ROUTER.
LEMMA PeersLeaveTheRest ==
  ASSUME UNCHANGED <<timeline, loop>>
  PROVE  UNCHANGED CurrentView /\ UNCHANGED Serving
  BY DEF CurrentView, Serving

LEMMA PeerSendAsks ==
  ASSUME TypeOK, TypeOK', NEW p \in Peers, PeerSend(p)
  PROVE  \E q \in Service!Question : Service!Ask(p, q)
<1>1. PICK r \in Requests : inbox' = [inbox EXCEPT ![p] = Append(@, r)]
  BY DEF PeerSend
<1>2. AsQuestion[r] \in Service!Question
  BY DEF AsQuestion, QuestionOf, Service!Question
<1>3. Questions' = [Questions EXCEPT ![p] = Append(@, AsQuestion[r])]
  <2>1. DOMAIN inbox = Peers /\ inbox[p] \in Seq(Requests)
    BY DEF TypeOK
  <2>2. Seen(AsQuestion, inbox')
           = [Seen(AsQuestion, inbox) EXCEPT ![p] = Append(@, AsQuestion[r])]
    <3>1. Mapped(AsQuestion, Append(inbox[p], r))
             = Append(Mapped(AsQuestion, inbox[p]), AsQuestion[r])
      BY <2>1, MappedAppend
    <3> QED
      BY <1>1, <2>1, <3>1 DEF Seen
  <2> QED
    BY <2>2, ServiceQueues, Zenon
<1>4. UNCHANGED <<Told, gone>> /\ p \notin gone
  BY DEF PeerSend, Told
<1>5. UNCHANGED CurrentView /\ UNCHANGED Serving /\ Serving
  BY PeersLeaveTheRest DEF PeerSend, serverVars, Serving
<1> QED
  BY <1>2, <1>3, <1>4, <1>5 DEF Service!Ask

LEMMA PeerRecvTakes ==
  ASSUME TypeOK, TypeOK', NEW p \in Peers, PeerRecv(p) PROVE Service!Take(p)
<1>1. /\ DOMAIN outbox = Peers /\ outbox[p] \in Seq(Frame)
      /\ outbox[p] # <<>>
      /\ outbox' = [outbox EXCEPT ![p] = Tail(@)]
  BY DEF PeerRecv, TypeOK
<1>2. Told[p] # <<>> /\ Told' = [Told EXCEPT ![p] = Tail(@)]
  <2>1. /\ Seen(AsAnswer, outbox)[p] # <<>>
        /\ Seen(AsAnswer, outbox')
              = [Seen(AsAnswer, outbox) EXCEPT ![p] = Tail(@)]
    <3>1. /\ Mapped(AsAnswer, outbox[p]) # <<>>
          /\ Mapped(AsAnswer, Tail(outbox[p])) = Tail(Mapped(AsAnswer, outbox[p]))
      BY <1>1, MappedTail
    <3> QED
      BY <1>1, <3>1 DEF Seen
  <2> QED
    BY <2>1, ServiceQueues, Zenon
<1>3. UNCHANGED <<Questions, gone>>
  BY DEF PeerRecv, Questions
<1>4. UNCHANGED CurrentView /\ UNCHANGED Serving
  BY PeersLeaveTheRest DEF PeerRecv, serverVars
<1> QED
  BY <1>2, <1>3, <1>4 DEF Service!Take

LEMMA PeerLeaveLeaves ==
  ASSUME TypeOK, TypeOK', NEW p \in Peers, PeerLeave(p) PROVE Service!Leave(p)
<1>1. Told' = [Told EXCEPT ![p] = <<>>]
  <2>1. outbox' = [outbox EXCEPT ![p] = <<>>] /\ outbox \in [Peers -> Seq(Frame)]
    BY DEF PeerLeave, TypeOK
  <2>2. Seen(AsAnswer, outbox') = [Seen(AsAnswer, outbox) EXCEPT ![p] = <<>>]
    BY <2>1, SeenEmpty DEF Seen
  <2> QED
    BY <2>2, ServiceQueues
<1>2. /\ UNCHANGED Questions
      /\ p \notin gone
      /\ gone' = gone \cup {p}
  BY DEF PeerLeave, Questions
<1>3. UNCHANGED CurrentView /\ UNCHANGED Serving
  BY PeersLeaveTheRest DEF PeerLeave, serverVars
<1> QED
  BY <1>1, <1>2, <1>3 DEF Service!Leave

-----------------------------------------------------------------------------
(* The steps of the server. *)

\* NEW TIMELINE installs the view of one of the timelines handed over.
LEMMA NewTimelineInstalls ==
  ASSUME TypeOK, CacheInv, HandleNewTimeline
  PROVE  \E v \in {ViewOf(Produced[i]) : i \in DOMAIN Produced} :
            Service!Install(v)
<1>1. /\ pipe \in Seq(Command)
      /\ pipe # <<>>
      /\ Head(pipe).method = "NEW TIMELINE"
      /\ timeline' = Head(pipe).timeline
      /\ loop = "poll" /\ loop' = loop
  BY DEF HandleNewTimeline, PipeReady, TypeOK
<1>2. timeline' \in Handed
  BY <1>1, TailPlaces DEF CacheInv
<1>3. timeline' # NULL
  BY <1>2, HandedAreTimelines, ServerAssumption
<1>4. ViewOf(timeline') \in {ViewOf(Produced[i]) : i \in DOMAIN Produced}
  BY <1>2 DEF Handed
<1>5. CurrentView' = ViewOf(timeline')
  BY <1>3 DEF CurrentView
<1>6. UNCHANGED <<Questions, Told, gone>>
  BY DEF HandleNewTimeline, netVars, Questions, Told
<1>7. Serving /\ UNCHANGED Serving
  BY <1>1 DEF Serving
<1> QED
  BY <1>4, <1>5, <1>6, <1>7 DEF Service!Install

\* Whatever the handler makes of it, receiving takes the first question.
LEMMA ReceiveReads ==
  ASSUME TypeOK, TypeOK', NEW p \in Peers, Receive(p)
  PROVE  /\ Head(inbox[p]) \in Requests
         /\ Head(inbox[p]).frame \in Frame
         /\ Questions[p] # <<>>
         /\ Head(Questions[p]) = QuestionOf(Head(inbox[p]))
         /\ Questions' = [Questions EXCEPT ![p] = Tail(@)]
         /\ Serving /\ UNCHANGED Serving
         /\ UNCHANGED CurrentView
         /\ UNCHANGED gone
<1>1. /\ DOMAIN inbox = Peers /\ inbox[p] \in Seq(Requests)
      /\ inbox[p] # <<>>
      /\ inbox' = [inbox EXCEPT ![p] = Tail(@)]
      /\ loop = "draining"
      /\ UNCHANGED <<timeline, loop, gone>>
  BY DEF Receive, TypeOK
<1>2. Head(inbox[p]) \in Requests
  BY <1>1, HeadTailProperties
<1>3. Head(inbox[p]).frame \in Frame
  BY <1>2, ServerAssumption DEF Request
<1>4. /\ Questions[p] # <<>>
      /\ Head(Questions[p]) = AsQuestion[Head(inbox[p])]
      /\ Questions' = [Questions EXCEPT ![p] = Tail(@)]
  <2>1. /\ Seen(AsQuestion, inbox)[p] # <<>>
        /\ Head(Seen(AsQuestion, inbox)[p]) = AsQuestion[Head(inbox[p])]
        /\ Seen(AsQuestion, inbox')
              = [Seen(AsQuestion, inbox) EXCEPT ![p] = Tail(@)]
    <3>1. /\ Mapped(AsQuestion, inbox[p]) # <<>>
          /\ Head(Mapped(AsQuestion, inbox[p])) = AsQuestion[Head(inbox[p])]
          /\ Mapped(AsQuestion, Tail(inbox[p])) = Tail(Mapped(AsQuestion, inbox[p]))
      BY <1>1, MappedTail
    <3> QED
      BY <1>1, <3>1 DEF Seen
  <2> QED
    BY <2>1, ServiceQueues, Zenon
<1>5. AsQuestion[Head(inbox[p])] = QuestionOf(Head(inbox[p]))
  BY <1>2 DEF AsQuestion
<1>6. Serving /\ UNCHANGED Serving
  BY <1>1 DEF Serving
<1>7. UNCHANGED CurrentView
  BY <1>1 DEF CurrentView
<1> QED
  BY <1>1, <1>2, <1>3, <1>4, <1>5, <1>6, <1>7

\* Sending m puts what m says behind the answers of a peer that is there.
LEMMA AnswerTells ==
  ASSUME TypeOK, TypeOK', NEW p \in Peers, NEW m \in Codec, Answer(p, m)
  PROVE  Told' = IF p \in gone THEN Told
                 ELSE [Told EXCEPT ![p] = Append(@, AnswerOf(SendFrame(m)))]
<1>1. SendFrame(m) \in Frame
  BY SendFrameType
<1>2. AsAnswer[SendFrame(m)] = AnswerOf(SendFrame(m))
  BY <1>1 DEF AsAnswer
<1>3. CASE p \in gone
  BY <1>3, ServiceQueues DEF Answer
<1>4. CASE p \notin gone
  <2>1. /\ DOMAIN outbox = Peers /\ outbox[p] \in Seq(Frame)
        /\ outbox' = [outbox EXCEPT ![p] = Append(@, SendFrame(m))]
    BY <1>4 DEF Answer, TypeOK
  <2>2. Seen(AsAnswer, outbox')
           = [Seen(AsAnswer, outbox) EXCEPT
                 ![p] = Append(@, AsAnswer[SendFrame(m)])]
    <3>1. Mapped(AsAnswer, Append(outbox[p], SendFrame(m)))
             = Append(Mapped(AsAnswer, outbox[p]), AsAnswer[SendFrame(m)])
      BY <1>1, <2>1, MappedAppend
    <3> QED
      BY <2>1, <3>1 DEF Seen
  <2>3. Told' = [Told EXCEPT ![p] = Append(@, AsAnswer[SendFrame(m)])]
    BY <2>2, ServiceQueues, Zenon
  <2> QED
    BY <1>2, <1>4, <2>3
<1> QED
  BY <1>3, <1>4

\* recv and the engine agree with the service about what is a request: the
\* shared object says SEND_TIMELINE after a success only if this message did.
LEMMA RequestIsRequest ==
  ASSUME TypeOK, QuiescentId, NEW p \in Peers, Head(inbox[p]).frame \in Frame
  PROVE  QuestionOf(Head(inbox[p])) =
            IF Rc(p) = 0 /\ IsRequest(Received(p)) THEN "request" ELSE "other"
<1> DEFINE f == Head(inbox[p]).frame
<1>1. WellFormed(f) /\ f.id = SEND_TIMELINE
         <=> f.id = SEND_TIMELINE /\ f.signature /\ f.held >= IdRead
  BY DEF WellFormed, FullLength, TIMELINE, SEND_TIMELINE, ERROR
<1>2. f.signature \in BOOLEAN /\ f.held \in 0..TimesRead /\ f.id \in Nat
  BY DEF Frame
<1>3. Reaches(f, IdRead) <=> f.held >= IdRead /\ f.signature
  BY <1>2 DEF Reaches, IdRead, SignatureRead
<1>4. Received(p).id = IF Reaches(f, IdRead) THEN f.id ELSE message.id
  BY DEF Received, RecvInto
<1>5. IsRequest(Received(p)) <=> Reaches(f, IdRead) /\ f.id = SEND_TIMELINE
  BY <1>4 DEF IsRequest, QuiescentId
<1>6. Reaches(f, IdRead) /\ f.id = SEND_TIMELINE => Rc(p) = 0
  BY <1>2, <1>3 DEF Rc, RecvRc, Reaches, Carries, SignatureRead, IdRead,
                    TIMELINE, SEND_TIMELINE, ERROR
<1> QED
  BY <1>1, <1>3, <1>5, <1>6 DEF QuestionOf

\* Malformed: the service ignores something that is no request.
LEMMA DiscardIgnores ==
  ASSUME TypeOK, TypeOK', QuiescentId, NEW p \in Peers, Discard(p)
  PROVE  Service!IgnoreOther(p)
<1>1. Receive(p) /\ Rc(p) = -2 /\ UNCHANGED outbox
  BY DEF Discard
<1>2. Head(Questions[p]) = "other"
  BY <1>1, ReceiveReads, RequestIsRequest
<1>3. UNCHANGED Told
  BY <1>1 DEF Told
<1> QED
  BY <1>1, <1>2, <1>3, ReceiveReads DEF Service!IgnoreOther

\* Answering with an ERROR is apologising.
LEMMA ErrorApologises ==
  ASSUME NEW m \in Codec
  PROVE  AnswerOf(SendFrame(WithId(m, ERROR))) = [error |-> TRUE]
<1>1. WithId(m, ERROR).id = ERROR
  BY WithIdSets DEF ERROR
<1>2. SendFrame(WithId(m, ERROR)).id = ERROR
  BY <1>1 DEF SendFrame
<1>3. ERROR # TIMELINE
  BY DEF ERROR, TIMELINE
<1> QED
  BY <1>2, <1>3 DEF AnswerOf

LEMMA RefuseRefuses ==
  ASSUME TypeOK, TypeOK', QuiescentId, NEW p \in Peers, Refuse(p)
  PROVE  Service!RefuseOther(p)
<1>1. /\ Receive(p)
      /\ ~IsRequest(Received(p))
      /\ Answer(p, WithId(Received(p), ERROR))
  BY DEF Refuse
<1>2. Received(p) \in Codec /\ WithId(Received(p), ERROR) \in Codec
  BY <1>1, ReceiveType, WithType DEF ERROR
<1>3. Head(Questions[p]) = "other"
  BY <1>1, ReceiveReads, RequestIsRequest
<1>4. Told' = IF p \in gone THEN Told
              ELSE [Told EXCEPT ![p] = Append(@, [error |-> TRUE])]
  BY <1>1, <1>2, AnswerTells, ErrorApologises
<1> QED
  BY <1>1, <1>3, <1>4, ReceiveReads DEF Service!RefuseOther, Service!Reply

\* Without a timeline, a request gets an apology.
LEMMA NoTimelineAnswers ==
  ASSUME TypeOK, TypeOK', QuiescentId, NEW p \in Peers, NoTimeline(p)
  PROVE  Service!AnswerRequest(p)
<1> DEFINE m == WithStatus(Received(p), NOT_FOUND)
<1>1. /\ Receive(p)
      /\ Rc(p) = 0 /\ IsRequest(Received(p))
      /\ timeline = NULL
      /\ Answer(p, WithId(m, ERROR))
  BY DEF NoTimeline
<1>2. m \in Codec
  BY <1>1, ReceiveType, WithType DEF NOT_FOUND
<1> HIDE DEF m
<1>3. WithId(m, ERROR) \in Codec
  BY <1>2, WithType DEF ERROR
<1>4. Head(Questions[p]) = "request"
  BY <1>1, ReceiveReads, RequestIsRequest
<1>5. Told' = IF p \in gone THEN Told
              ELSE [Told EXCEPT ![p] = Append(@, [error |-> TRUE])]
  BY <1>1, <1>2, <1>3, AnswerTells, ErrorApologises
<1>6. CurrentView = NoView
  BY <1>1 DEF CurrentView
<1> QED
  BY <1>1, <1>4, <1>5, <1>6, ReceiveReads
  DEF Service!AnswerRequest, Service!Reply

\* With one, it gets the view of the current one, from whatever was in the
\* shared object before.
LEMMA ServeAnswers ==
  ASSUME PeersKeepIdents, IdentsAreSet, IdentsIdentify,
         TypeOK, TypeOK', QuiescentId, CacheInv, NEW p \in Peers,
         ServeTimeline(p)
  PROVE  Service!AnswerRequest(p)
<1> DEFINE m == WithId(CheckCurrent(Received(p)), TIMELINE)
<1>1. /\ Receive(p)
      /\ Rc(p) = 0 /\ IsRequest(Received(p))
      /\ timeline # NULL
      /\ Answer(p, m)
      /\ message' = m
  BY DEF ServeTimeline, Answer
<1> HIDE DEF m
<1>2. m \in Codec /\ m.id = TIMELINE /\ timeline \in Timeline
      /\ Holds(m, timeline)
  BY <1>1, ServedHoldsCurrent
<1>3. Head(Questions[p]) = "request"
  BY <1>1, ReceiveReads, RequestIsRequest
<1>4. AnswerOf(SendFrame(m)) = ViewOf(timeline)
  BY <1>2, ChunksAreSent DEF AnswerOf, ViewOf, SendFrame, Holds
<1>5. CurrentView = ViewOf(timeline) /\ CurrentView # NoView
  BY <1>1 DEF CurrentView, ViewOf, NoView
<1>6. Told' = IF p \in gone THEN Told
              ELSE [Told EXCEPT ![p] = Append(@, CurrentView)]
  BY <1>1, <1>2, <1>4, <1>5, AnswerTells
<1> QED
  BY <1>1, <1>3, <1>5, <1>6, ReceiveReads
  DEF Service!AnswerRequest, Service!Reply

\* The end of the reactor is the end of the service.
LEMMA ExitStops ==
  ASSUME TypeOK, TypeOK', loop # "exited", Exit PROVE Service!Stop
<1>1. Serving /\ Serving' = FALSE
  BY DEF Exit, Serving
<1>2. CurrentView' = NoView
  BY DEF Exit, CurrentView
<1>3. Questions' = [p \in Peers |-> <<>>]
  <2>1. inbox' = [p \in Peers |-> <<>>]
    BY DEF Exit
  <2> QED
    BY <2>1, ServiceQueues, SeenEmpty DEF Seen
<1>4. DOMAIN Told' = Peers
  BY DEF Told
<1>5. ASSUME NEW p \in Peers
      PROVE  \E n \in 0..Len(Told[p]) : Told'[p] = SubSeq(Told[p], 1, n)
  <2>1. PICK kept \in [Peers -> 0..MaxQueue] :
          /\ kept[p] <= Len(outbox[p])
          /\ outbox'[p] = SubSeq(outbox[p], 1, kept[p])
    BY DEF Exit
  <2>2. kept[p] \in Nat /\ outbox[p] \in Seq(Frame)
    BY <2>1, ServerAssumption DEF TypeOK
  <2>3. Told[p] = Mapped(AsAnswer, outbox[p])
        /\ Told'[p] = Mapped(AsAnswer, outbox'[p])
    BY ServiceQueues DEF Seen
  <2>4. Told'[p] = SubSeq(Told[p], 1, kept[p])
    BY <2>1, <2>2, <2>3, MappedPrefix
  <2>5. Len(Told[p]) = Len(outbox[p]) /\ Len(outbox[p]) \in Nat
    BY <2>2, <2>3, MappedPlaces, LenProperties
  <2> QED
    BY <2>1, <2>2, <2>4, <2>5
<1>6. UNCHANGED gone
  BY DEF Exit
<1> QED
  BY <1>1, <1>2, <1>3, <1>4, <1>5, <1>6 DEF Service!Stop

-----------------------------------------------------------------------------
(* The refinement. *)

\* Every step of the server is a step of the service or none.
LEMMA ServiceStep ==
  ASSUME PeersKeepIdents, IdentsAreSet, IdentsIdentify,
         TypeOK, QuiescentId, CacheInv, [Next]_vars
  PROVE  [Service!Next]_(Service!vars)
<1>0. TypeOK'
  BY TypeStep
<1>1. ASSUME NEW p \in Peers, PeerSend(p) \/ PeerRecv(p) \/ PeerLeave(p)
      PROVE  Service!Next
  BY <1>0, <1>1, PeerSendAsks, PeerRecvTakes, PeerLeaveLeaves DEF Service!Next
<1>2. ASSUME NEW p \in Peers, HandleProtocol(p) PROVE Service!Next
  BY <1>0, <1>2, DiscardIgnores, ServeAnswers, NoTimelineAnswers, RefuseRefuses
  DEF HandleProtocol, Service!Next
<1>3. ASSUME HandleNewTimeline PROVE Service!Next
  BY <1>3, NewTimelineInstalls DEF Service!Next
<1>4. ASSUME HandleTerm \/ Interrupted \/ BrokenEnvelope PROVE Service!Next
  <2>1. loop # "exited" /\ Exit
    BY <1>4 DEF HandleTerm, PipeReady, Interrupted, BrokenEnvelope
  <2> QED
    BY <1>0, <2>1, ExitStops DEF Service!Next
<1>5. ASSUME \/ \E p \in Peers : TicketElapses(p) \/ ClientExpires(p)
             \/ CallerNewTimeline \/ (\E v \in Timeouts : CallerSet(v))
             \/ CallerDestroys \/ Signal \/ HandleSet \/ UNCHANGED vars
      PROVE  UNCHANGED Service!vars
  <2>1. UNCHANGED <<timeline, inbox, outbox, gone, loop>>
    BY <1>5 DEF TicketElapses, ClientExpires, CallerNewTimeline, CallerSet,
                CallerDestroys, CallerSends, Signal, HandleSet, vars,
                serverVars, netVars
  <2> QED
    BY <2>1, Unseen
<1>6. ASSUME StartDrain \/ EndDrain PROVE UNCHANGED Service!vars
  <2>1. /\ UNCHANGED <<timeline, inbox, outbox, gone>>
        /\ loop # "exited" /\ loop' # "exited"
    BY <1>6 DEF StartDrain, EndDrain, netVars
  <2> QED
    BY <2>1, Unseen
<1> QED
  BY <1>1, <1>2, <1>3, <1>4, <1>5, <1>6 DEF Next, HandlePipe, Exited

\* The server implements the register: with peers that take none of the
\* caller's idents, and timelines whose idents identify, every answer on its way is
\* the one the register would give, in the order of the questions, for every
\* number of peers and timelines and every length of the queues.
THEOREM ServerImplementsService ==
  ASSUME PeersKeepIdents, IdentsAreSet, IdentsIdentify
  PROVE  Spec => ImplementsService
<1>1. Init => Service!Init
  <2> SUFFICES ASSUME Init PROVE Service!Init
    OBVIOUS
  <2>1. CurrentView = NoView /\ Serving = TRUE /\ gone = {}
    BY DEF Init, CurrentView, Serving
  <2>2. Questions = [p \in Peers |-> <<>>]
    <3>1. inbox \in [Peers -> Seq(Requests)] /\ inbox = [p \in Peers |-> <<>>]
      BY DEF Init
    <3> QED
      BY <3>1, QuestionsAreSeen, SeenEmpty DEF Questions, Seen
  <2>3. Told = [p \in Peers |-> <<>>]
    <3>1. outbox \in [Peers -> Seq(Frame)] /\ outbox = [p \in Peers |-> <<>>]
      BY DEF Init
    <3> QED
      BY <3>1, AnswersAreSeen, SeenEmpty DEF Told, Seen
  <2> QED
    BY <2>1, <2>2, <2>3 DEF Service!Init
<1>2. TypeOK /\ QuiescentId /\ CacheInv /\ [Next]_vars
         => [Service!Next]_(Service!vars)
  BY ServiceStep
<1> QED
  BY <1>1, <1>2, TypeCorrect, NeverLeftAsRequest, CacheHoldsOneTimeline, PTL
  DEF Spec, ImplementsService, Service!Spec
=============================================================================
