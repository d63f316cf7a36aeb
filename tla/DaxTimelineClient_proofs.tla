---------------------- MODULE DaxTimelineClient_proofs ----------------------
(* What TLAPS proves of DaxTimelineClient, for every value of its constants. *)
EXTENDS DaxTimelineClient, DaxTimeline_proofs

-----------------------------------------------------------------------------
(* Type correctness. *)

\* The machine on CONNECT, whatever its state: it asks only from "start", and
\* does not stay there if it does.
LEMMA ConnectOutcomes ==
  ASSUME ExecuteConnect
  PROVE  /\ loc' = "poll" \/ loc' = "sending"
         /\ fsm_stopped' = fsm_stopped \/ fsm_stopped' = TRUE
         /\ message' = message \/ message' = WithId(message, SEND_TIMELINE)
         /\ \/ state' = state /\ requested' = requested
            \/ /\ state = "start" /\ state' = "listening"
               /\ requested' = requested + 1
<1>1. CASE fsm_stopped
  BY <1>1, Zenon DEF ExecuteConnect, machineVars
<1>2. CASE ~fsm_stopped /\ state = "start"
  BY <1>2, Zenon DEF ExecuteConnect
<1>3. CASE ~fsm_stopped /\ state # "start"
  BY <1>3, Zenon DEF ExecuteConnect
<1> QED
  BY <1>1, <1>2, <1>3

\* The owner's steps keep every type.
LEMMA OwnerType ==
  ASSUME TypeOK, (\E call \in Calls : Begin(call)) \/ OwnerStep
  PROVE  TypeOK'
<1> USE DEF TypeOK, machineVars, pipeVars, Sending, Waiting
<1>1. ASSUME NEW call \in Calls, Begin(call) PROVE TypeOK'
  BY <1>1, ClientAssumption DEF Begin, Call
<1>2. ASSUME NEW call, NEW command \in Command, NEW then \in Waiting \cup {"free"},
             SendCommand(call, command, then)
      PROVE  TypeOK'
  BY <1>2, AppendProperties DEF SendCommand
<1>3. ASSUME NEW call, NEW text \in {"message", "$FLUSH"},
             NEW then \in Waiting \cup {"free"}, SendMessage(call, text, then)
      PROVE  TypeOK'
  BY <1>3, AppendProperties DEF SendMessage
<1>4. CASE OwnerSends
  BY <1>2, <1>3, <1>4 DEF OwnerSends, Command
<1>5. ASSUME NEW then \in {"free", "term", "gone"} \cup Waiting, OwnerReads(then)
      PROVE  TypeOK'
  BY <1>5, HeadTailProperties DEF OwnerReads
<1>6. CASE AcceptReply \/ ReadConnected
  BY <1>5, <1>6 DEF AcceptReply, ReadConnected
<1>7. CASE WaitForSignal("flushing", "term") \/ WaitForSignal("collect", "gone")
  BY <1>5, <1>7 DEF WaitForSignal
<1>8. CASE SendTerm
  BY <1>8, AppendProperties DEF SendTerm, Command
<1> QED
  BY <1>1, <1>4, <1>6, <1>7, <1>8 DEF OwnerStep

\* So do the actor's.
LEMMA ActorType == TypeOK /\ ActorStep => TypeOK'
<1> SUFFICES ASSUME TypeOK, ActorStep PROVE TypeOK'
  OBVIOUS
<1> USE DEF TypeOK, machineVars, pipeVars
<1>1. ASSUME NEW command, TakeCommand(command)
      PROVE  cmdpipe' \in Seq(Command) /\ UNCHANGED <<owner, msgpipe, dealer, interrupted>>
  BY <1>1, HeadTailProperties DEF TakeCommand
<1>2. CASE HandleConnect
  <2>1. WithId(message, SEND_TIMELINE) \in Codec
    BY WithType DEF SEND_TIMELINE
  <2>2. /\ cmdpipe' \in Seq(Command)
        /\ UNCHANGED <<owner, msgpipe, dealer, interrupted, replies>>
    BY <1>1, <1>2 DEF HandleConnect
  <2>3. /\ loc' \in {"poll", "sending"}
        /\ state' \in {"start", "listening"}
        /\ fsm_stopped' \in BOOLEAN
        /\ message' \in Codec
        /\ requested' \in Nat
    <3>1. ExecuteConnect
      BY <1>2 DEF HandleConnect
    <3>2. loc' \in {"poll", "sending"}
      BY <3>1, ConnectOutcomes
    <3>3. state' \in {"start", "listening"} /\ requested' \in Nat
      BY <3>1, ConnectOutcomes
    <3>4. fsm_stopped' \in BOOLEAN
      BY <3>1, ConnectOutcomes, Zenon
    <3>5. message' \in Codec
      BY <2>1, <3>1, ConnectOutcomes, Zenon
    <3> QED
      BY <3>2, <3>3, <3>4, <3>5
  <2> QED
    BY <2>2, <2>3
<1>3. CASE HandleConnected
  BY <1>1, <1>3, AppendProperties DEF HandleConnected, Reply
<1>4. CASE HandleSetVerbose
  BY <1>1, <1>4 DEF HandleSetVerbose
<1>5. CASE HandleTerm
  BY <1>1, <1>5 DEF HandleTerm
<1>6. CASE StartHandler \/ EndHandler \/ Interrupted
  BY <1>6 DEF StartHandler, EndHandler, Interrupted
<1>7. CASE ReadMsgpipe
  BY <1>7, HeadTailProperties, AppendProperties DEF ReadMsgpipe, Reply
<1>8. CASE ReadDealer
  <2>1. Head(dealer) \in Answers /\ Tail(dealer) \in Seq(Answers)
    BY <1>8, HeadTailProperties DEF ReadDealer
  <2>2. RecvInto(message, Head(dealer)) \in Codec
    BY <2>1, RecvIntoType, ClientAssumption
  <2> QED
    BY <1>8, <2>1, <2>2 DEF ReadDealer
<1>9. CASE CloseSockets
  BY <1>9, NewCodecType DEF CloseSockets
<1>10. CASE SignalEnd
  <2>1. Append(replies, "signal") \in Seq(Reply)
    BY AppendProperties DEF Reply
  <2> QED
    BY <1>10, <2>1 DEF SignalEnd
<1>11. CASE CloseCmdpipe
  BY <1>11 DEF CloseCmdpipe
<1> QED
  BY <1>2, <1>3, <1>4, <1>5, <1>6, <1>7, <1>8, <1>9, <1>10, <1>11
  DEF ActorStep, HandleCmdpipe

\* Every step keeps every type.
LEMMA TypeStep == ASSUME TypeOK, [Next]_vars PROVE TypeOK'
<1>1. CASE ServerSends
  BY <1>1, AppendProperties DEF ServerSends, TypeOK, machineVars, pipeVars
<1>2. CASE Signal
  BY <1>2 DEF Signal, AfterInterrupt, TypeOK, pipeVars, Sending, Waiting
<1>3. CASE UNCHANGED vars
  BY <1>3 DEF TypeOK, vars, machineVars, pipeVars
<1> QED
  BY <1>1, <1>2, <1>3, OwnerType, ActorType DEF Next

LEMMA TypeInit == Init => TypeOK
<1> SUFFICES ASSUME Init PROVE TypeOK
  OBVIOUS
<1> QED
  BY NewCodecType, EmptySeq DEF Init, TypeOK

\* Every variable keeps its type, whatever the owner calls and the server sends.
THEOREM TypeCorrect == Spec => []TypeOK
<1>1. Init => TypeOK
  BY TypeInit
<1>2. TypeOK /\ [Next]_vars => TypeOK'
  BY TypeStep
<1> QED
  BY <1>1, <1>2, PTL DEF Spec
-----------------------------------------------------------------------------
(* The server is asked once. *)

\* What AsksOnce rests on: who has not left "start" has not asked.
AskInv == AsksOnce /\ (state = "start" => requested = 0)

LEMMA AskInit == Init => AskInv
  BY DEF Init, AskInv, AsksOnce

\* Every step keeps it.
LEMMA AskStep == ASSUME TypeOK, AskInv, [Next]_vars PROVE AskInv'
<1> USE DEF AskInv, AsksOnce, machineVars
<1>1. CASE HandleConnect
  <2>1. \/ state' = state /\ requested' = requested
        \/ /\ state = "start" /\ state' = "listening"
           /\ requested' = requested + 1
    BY <1>1, ConnectOutcomes, Zenon DEF HandleConnect
  <2> QED
    BY <2>1 DEF TypeOK
<1>2. CASE HandleConnected \/ HandleSetVerbose \/ HandleTerm
  BY <1>2 DEF HandleConnected, HandleSetVerbose, HandleTerm
<1>3. CASE \/ StartHandler \/ EndHandler \/ ReadMsgpipe \/ ReadDealer
           \/ Interrupted \/ CloseSockets \/ SignalEnd \/ CloseCmdpipe
  BY <1>3 DEF StartHandler, EndHandler, ReadMsgpipe, ReadDealer, Interrupted,
              CloseSockets, SignalEnd, CloseCmdpipe
<1>4. ASSUME NEW call \in Calls, Begin(call) PROVE AskInv'
  BY <1>4 DEF Begin
<1>5. CASE OwnerStep
  BY <1>5 DEF OwnerStep, OwnerSends, SendCommand, SendMessage, AcceptReply,
              ReadConnected, WaitForSignal, OwnerReads, SendTerm
<1>6. CASE ServerSends
  BY <1>6 DEF ServerSends
<1>7. CASE Signal
  BY <1>7 DEF Signal
<1>8. CASE UNCHANGED vars
  BY <1>8 DEF vars
<1> QED
  BY <1>1, <1>2, <1>3, <1>4, <1>5, <1>6, <1>7, <1>8
  DEF Next, ActorStep, HandleCmdpipe

\* However often CONNECT is sent, whether or not there is a connection, and
\* whatever stops the machine, SEND_TIMELINE goes out at most once.
THEOREM AsksAtMostOnce == Spec => []AsksOnce
<1>1. Init => AskInv
  BY AskInit
<1>2. TypeOK /\ AskInv /\ [Next]_vars => AskInv'
  BY AskStep
<1>3. AskInv => AsksOnce
  BY DEF AskInv
<1> QED
  BY <1>1, <1>2, <1>3, TypeCorrect, PTL DEF Spec

-----------------------------------------------------------------------------
(* The end of the client: the handshake over two pipes. *)

\* The end of the actor's thread has been signalled.
Over == loc \in {"signalled", "ended"}

\* $FLUSH is the last message in its pipe, its sender waits for the answer,
\* and there is none yet.
FlushPending ==
    \A i \in DOMAIN msgpipe : msgpipe[i] = "$FLUSH" =>
        /\ i = Len(msgpipe)
        /\ owner = "flushing"
        /\ Over \/ \A j \in DOMAIN replies : replies[j] # "signal"

\* Before the end of the thread there is at most one signal, the answer to
\* $FLUSH: the message pipe is empty and the owner still waits for it.
FlushAnswered ==
    Over \/ \A i \in DOMAIN replies : replies[i] = "signal" =>
        /\ owner = "flushing"
        /\ msgpipe = <<>>
        /\ \A j \in DOMAIN replies : replies[j] = "signal" => j = i

\* Past the flush the message pipe is empty, and stays so.
FlushedIsEmpty == owner \in {"term", "collect", "gone"} => msgpipe = <<>>

\* The inductive form of FlushIsComplete and DestroyedAfterEnd: as long as the
\* process is not interrupted, each signal has one meaning.
HandshakeInv ==
    /\ ~MsgpipeOpen => msgpipe = <<>>
    /\ ~interrupted => /\ FlushPending
                       /\ FlushAnswered
                       /\ FlushedIsEmpty
                       /\ DestroyedAfterEnd

\* The owner's steps keep it.
LEMMA OwnerHandshake ==
  ASSUME TypeOK, HandshakeInv, ~interrupted,
         (\E call \in Calls : Begin(call)) \/ OwnerStep
  PROVE  HandshakeInv'
<1>0. /\ replies \in Seq(Reply)
      /\ msgpipe \in Seq({"message", "$FLUSH"})
      /\ UNCHANGED <<loc, interrupted>>
  BY DEF TypeOK, Begin, OwnerStep, OwnerSends, SendCommand, SendMessage,
         AcceptReply, ReadConnected, WaitForSignal, OwnerReads, SendTerm
<1>1. /\ ~MsgpipeOpen => msgpipe = <<>>
      /\ FlushPending /\ FlushAnswered /\ FlushedIsEmpty /\ DestroyedAfterEnd
  BY DEF HandshakeInv
<1> USE DEF FlushPending, FlushAnswered, FlushedIsEmpty, DestroyedAfterEnd,
            MsgpipeOpen, Over
<1>2. ASSUME UNCHANGED <<replies, msgpipe>>, owner # "flushing",
             owner' \notin {"term", "collect", "gone"}
      PROVE  HandshakeInv'
  BY <1>0, <1>1, <1>2 DEF HandshakeInv
<1>3. ASSUME NEW call \in Calls, Begin(call) PROVE HandshakeInv'
  <2>1. owner = "free" /\ owner' \in Call \cup {"flush"}
    BY <1>3, ClientAssumption DEF Begin
  <2> QED
    BY <1>2, <1>3, <2>1 DEF Begin, Call, pipeVars
<1>4. ASSUME NEW call, NEW command, NEW then, SendCommand(call, command, then),
             call # "flushing", then \notin {"term", "collect", "gone"}
      PROVE  HandshakeInv'
  BY <1>2, <1>4 DEF SendCommand
<1>5. CASE SendMessage("post", "message", "free")
  <2>1. /\ owner = "post" /\ owner' = "free"
        /\ msgpipe' = Append(msgpipe, "message")
        /\ UNCHANGED replies /\ MsgpipeOpen
    BY <1>5 DEF SendMessage
  <2>2. \A i \in DOMAIN msgpipe' : msgpipe'[i] # "$FLUSH"
    BY <1>0, <1>1, <2>1, AppendExtends
  <2> QED
    BY <1>0, <1>1, <2>1, <2>2 DEF HandshakeInv
<1>6. CASE SendMessage("flush", "$FLUSH", "flushing")
  <2>1. /\ owner = "flush" /\ owner' = "flushing"
        /\ msgpipe' = Append(msgpipe, "$FLUSH")
        /\ UNCHANGED replies /\ MsgpipeOpen
    BY <1>6 DEF SendMessage
  <2>2. \A i \in DOMAIN msgpipe' : msgpipe'[i] = "$FLUSH" => i = Len(msgpipe')
    BY <1>0, <1>1, <2>1, AppendExtends
  <2>3. \A j \in DOMAIN replies : replies[j] # "signal"
    BY <1>1, <2>1
  <2> QED
    BY <1>0, <1>1, <2>1, <2>2, <2>3 DEF HandshakeInv
<1>7. ASSUME NEW then, OwnerReads(then)
      PROVE  /\ replies # <<>> /\ Head(replies) = replies[1] /\ 1 \in DOMAIN replies
             /\ UNCHANGED msgpipe /\ owner' = then
             /\ \A i \in DOMAIN replies' : /\ i + 1 \in DOMAIN replies
                                           /\ i \in Nat \ {0}
                                           /\ replies'[i] = replies[i + 1]
  BY <1>0, <1>7, TailShifts DEF OwnerReads
<1>8. ASSUME NEW then, OwnerReads(then), owner # "flushing",
             then \notin {"term", "collect", "gone"} \/ then = owner
      PROVE  HandshakeInv'
  BY <1>0, <1>1, <1>7, <1>8 DEF HandshakeInv
<1>9. CASE AcceptReply \/ ReadConnected
  BY <1>8, <1>9 DEF AcceptReply, ReadConnected
<1>10. CASE WaitForSignal("flushing", "term")
  <2>1. owner = "flushing" /\ OwnerReads(IF Head(replies) = "signal" THEN "term" ELSE "flushing")
    BY <1>10 DEF WaitForSignal
  <2>2. CASE Head(replies) = "signal"
    <3>1. msgpipe = <<>> /\ owner' = "term"
      BY <1>1, <1>7, <2>1, <2>2
    <3>2. Over \/ \A i \in DOMAIN replies' : replies'[i] # "signal"
      BY <1>1, <1>7, <2>1, <2>2
    <3> QED
      BY <1>0, <1>1, <1>7, <2>1, <3>1, <3>2, EmptyHasNoPlaces DEF HandshakeInv
  <2>3. CASE Head(replies) # "signal"
    <3>1. owner' = "flushing" /\ UNCHANGED msgpipe
      BY <1>7, <2>1, <2>3
    <3>2. FlushPending'
      BY <1>0, <1>1, <1>7, <2>1, <3>1
    <3>3. FlushAnswered'
      BY <1>0, <1>1, <1>7, <2>1, <3>1
    <3> QED
      BY <1>0, <1>1, <3>1, <3>2, <3>3 DEF HandshakeInv
  <2> QED
    BY <2>2, <2>3
<1>11. CASE SendTerm
  <2>1. /\ owner = "term" /\ UNCHANGED <<replies, msgpipe>>
        /\ owner' = "collect" \/ (owner' = "gone" /\ loc = "ended")
    BY <1>11 DEF SendTerm, CmdpipeOpen
  <2> QED
    BY <1>0, <1>1, <2>1 DEF HandshakeInv
<1>12. CASE WaitForSignal("collect", "gone")
  <2>1. owner = "collect" /\ OwnerReads(IF Head(replies) = "signal" THEN "gone" ELSE "collect")
    BY <1>12 DEF WaitForSignal
  <2>2. CASE Head(replies) = "signal"
    <3>1. Over /\ owner' = "gone"
      BY <1>1, <1>7, <2>1, <2>2
    <3> QED
      BY <1>0, <1>1, <1>7, <2>1, <3>1 DEF HandshakeInv
  <2>3. CASE Head(replies) # "signal"
    BY <1>8, <2>1, <2>3
  <2> QED
    BY <2>2, <2>3
<1> QED
  BY <1>3, <1>4, <1>5, <1>6, <1>9, <1>10, <1>11, <1>12 DEF OwnerStep, OwnerSends

\* So do the actor's.
LEMMA ActorHandshake ==
  ASSUME TypeOK, HandshakeInv, ~interrupted, ActorStep
  PROVE  HandshakeInv'
<1>0. /\ replies \in Seq(Reply)
      /\ msgpipe \in Seq({"message", "$FLUSH"})
      /\ UNCHANGED <<owner, interrupted>>
  BY DEF TypeOK, ActorStep, HandleCmdpipe, HandleConnect, HandleConnected,
         HandleSetVerbose, HandleTerm, TakeCommand, StartHandler, EndHandler,
         ReadMsgpipe, ReadDealer, Interrupted, CloseSockets, SignalEnd, CloseCmdpipe
<1>1. /\ ~MsgpipeOpen => msgpipe = <<>>
      /\ FlushPending /\ FlushAnswered /\ FlushedIsEmpty /\ DestroyedAfterEnd
  BY DEF HandshakeInv
<1> USE DEF FlushPending, FlushAnswered, FlushedIsEmpty, DestroyedAfterEnd,
            MsgpipeOpen, Over
<1>2. ASSUME UNCHANGED <<replies, msgpipe>>,
             loc \in {"poll", "msgpipe", "dealer"},
             loc' \in {"poll", "msgpipe", "dealer", "sending", "leaving"}
      PROVE  HandshakeInv'
  BY <1>0, <1>1, <1>2 DEF HandshakeInv
<1>3. CASE HandleConnect
  <2>1. loc' = "poll" \/ loc' = "sending"
    BY <1>3, ConnectOutcomes, Zenon DEF HandleConnect
  <2> QED
    BY <1>2, <1>3, <2>1 DEF HandleConnect, TakeCommand
<1>4. CASE HandleSetVerbose \/ HandleTerm
  BY <1>2, <1>4 DEF HandleSetVerbose, HandleTerm, TakeCommand
<1>5. CASE HandleConnected
  <2>1. /\ loc = "poll" /\ loc' = loc /\ UNCHANGED msgpipe
        /\ replies' = Append(replies, "connected?") /\ "connected?" \in Reply
    BY <1>5 DEF HandleConnected, TakeCommand, Reply
  <2>2. \A i \in DOMAIN replies' : replies'[i] = "signal" =>
            i \in DOMAIN replies /\ replies[i] = "signal"
    BY <1>0, <2>1, AppendExtends
  <2> QED
    BY <1>0, <1>1, <2>1, <2>2 DEF HandshakeInv
<1>6. CASE StartHandler \/ EndHandler \/ Interrupted
  BY <1>2, <1>6 DEF StartHandler, EndHandler, Interrupted, pipeVars
<1>7. CASE ReadMsgpipe
  <2>1. /\ loc = "msgpipe" /\ loc' = loc /\ msgpipe # <<>>
        /\ msgpipe' = Tail(msgpipe)
        /\ replies' = IF Head(msgpipe) = "$FLUSH" THEN Append(replies, "signal")
                      ELSE replies
    BY <1>7 DEF ReadMsgpipe
  <2>2. /\ Len(msgpipe) \in Nat \ {0} /\ DOMAIN msgpipe = 1..Len(msgpipe)
        /\ Head(msgpipe) = msgpipe[1]
        /\ Len(msgpipe') = Len(msgpipe) - 1
        /\ DOMAIN msgpipe' = 1..(Len(msgpipe) - 1)
        /\ \A i \in 1..(Len(msgpipe) - 1) : msgpipe'[i] = msgpipe[i + 1]
        /\ Len(msgpipe) = 1 => msgpipe' = <<>>
    BY <1>0, <2>1, TailShifts
  <2>3. CASE Head(msgpipe) = "$FLUSH"
    <3>1. /\ msgpipe' = <<>> /\ owner = "flushing"
          /\ \A j \in DOMAIN replies : replies[j] # "signal"
      BY <1>1, <2>1, <2>2, <2>3
    <3>2. replies' = Append(replies, "signal") /\ "signal" \in Reply
      BY <2>1, <2>3 DEF Reply
    <3>3. \A i, j \in DOMAIN replies' :
             replies'[i] = "signal" /\ replies'[j] = "signal" => j = i
      BY <1>0, <3>1, <3>2, AppendExtends
    <3> QED
      BY <1>0, <1>1, <2>1, <3>1, <3>3, EmptyHasNoPlaces DEF HandshakeInv
  <2>4. CASE Head(msgpipe) # "$FLUSH"
    <3>1. UNCHANGED replies
      BY <2>1, <2>4
    <3>2. FlushPending'
      BY <1>0, <1>1, <2>1, <2>2, <3>1
    <3>3. FlushAnswered'
      BY <1>0, <1>1, <2>1, <3>1
    <3> QED
      BY <1>0, <1>1, <2>1, <3>1, <3>2, <3>3 DEF HandshakeInv
  <2> QED
    BY <2>3, <2>4
<1>8. CASE ReadDealer
  <2>1. loc = "dealer" /\ loc' \in {"dealer", "leaving"}
    BY <1>8 DEF ReadDealer
  <2> QED
    BY <1>2, <1>8, <2>1 DEF ReadDealer, pipeVars
<1>9. CASE CloseSockets
  <2>1. /\ loc = "leaving" /\ loc' = "closed" /\ msgpipe' = <<>>
        /\ UNCHANGED replies
    BY <1>9 DEF CloseSockets
  <2> QED
    BY <1>0, <1>1, <2>1, EmptyHasNoPlaces DEF HandshakeInv
<1>10. CASE SignalEnd \/ CloseCmdpipe
  <2>1. /\ loc \in {"closed", "signalled"} /\ loc' \in {"signalled", "ended"}
        /\ UNCHANGED msgpipe
    BY <1>10 DEF SignalEnd, CloseCmdpipe
  <2> QED
    BY <1>0, <1>1, <2>1, EmptyHasNoPlaces DEF HandshakeInv
<1> QED
  BY <1>3, <1>4, <1>5, <1>6, <1>7, <1>8, <1>9, <1>10 DEF ActorStep, HandleCmdpipe

\* And an interrupt ends what it says, but for the closed message pipe.
LEMMA HandshakeStep ==
  ASSUME TypeOK, HandshakeInv, [Next]_vars PROVE HandshakeInv'
<1>1. CASE ~interrupted /\ ((\E call \in Calls : Begin(call)) \/ OwnerStep)
  BY <1>1, OwnerHandshake
<1>2. CASE ~interrupted /\ ActorStep
  BY <1>2, ActorHandshake
<1>3. CASE ServerSends \/ UNCHANGED vars
  BY <1>3 DEF HandshakeInv, FlushPending, FlushAnswered, FlushedIsEmpty,
              DestroyedAfterEnd, MsgpipeOpen, Over, ServerSends, pipeVars, vars
<1>4. ASSUME interrupted', ~MsgpipeOpen' => msgpipe' = <<>> PROVE HandshakeInv'
  BY <1>4 DEF HandshakeInv
<1>5. CASE Signal
  <2>1. interrupted' /\ UNCHANGED msgpipe /\ (MsgpipeOpen => MsgpipeOpen')
    BY <1>5 DEF Signal, MsgpipeOpen, pipeVars
  <2> QED
    BY <1>4, <2>1 DEF HandshakeInv
<1>6. CASE interrupted /\ ((\E call \in Calls : Begin(call)) \/ OwnerStep)
  <2>1. interrupted' /\ loc' = loc /\ (msgpipe' = msgpipe \/ MsgpipeOpen)
    BY <1>6 DEF Begin, OwnerStep, OwnerSends, SendCommand, SendMessage,
                AcceptReply, ReadConnected, WaitForSignal, OwnerReads, SendTerm,
                pipeVars
  <2> QED
    BY <1>4, <2>1 DEF HandshakeInv, MsgpipeOpen
<1>7. CASE interrupted /\ ActorStep
  <2>1. interrupted'
    BY <1>7 DEF ActorStep, HandleCmdpipe, HandleConnect, HandleConnected,
         HandleSetVerbose, HandleTerm, TakeCommand, StartHandler, EndHandler,
         ReadMsgpipe, ReadDealer, Interrupted, CloseSockets, SignalEnd, CloseCmdpipe
  <2>2. CASE HandleCmdpipe \/ StartHandler \/ EndHandler \/ ReadMsgpipe
             \/ ReadDealer \/ Interrupted
    <3>1. ASSUME HandleConnect PROVE loc' = "poll" \/ loc' = "sending"
      BY <3>1, ConnectOutcomes, Zenon DEF HandleConnect
    <3>2. MsgpipeOpen'
      BY <2>2, <3>1 DEF HandleCmdpipe, HandleConnected, HandleSetVerbose,
         HandleTerm, TakeCommand, StartHandler, EndHandler, ReadMsgpipe,
         ReadDealer, Interrupted, MsgpipeOpen
    <3> QED
      BY <1>4, <2>1, <3>2
  <2>3. CASE CloseSockets
    BY <1>4, <2>1, <2>3 DEF CloseSockets
  <2>4. CASE SignalEnd \/ CloseCmdpipe
    BY <1>4, <2>1, <2>4 DEF SignalEnd, CloseCmdpipe, HandshakeInv, MsgpipeOpen
  <2> QED
    BY <1>7, <2>2, <2>3, <2>4 DEF ActorStep
<1> QED
  BY <1>1, <1>2, <1>3, <1>5, <1>6, <1>7 DEF Next

\* The signals of the command pipe are never mistaken for each other.
LEMMA HandshakeHolds == Spec => []HandshakeInv
<1>1. Init => HandshakeInv
  BY EmptyHasNoPlaces DEF Init, HandshakeInv, FlushPending, FlushAnswered,
     FlushedIsEmpty, DestroyedAfterEnd, MsgpipeOpen, Over
<1>2. TypeOK /\ HandshakeInv /\ [Next]_vars => HandshakeInv'
  BY HandshakeStep
<1> QED
  BY <1>1, <1>2, TypeCorrect, PTL DEF Spec

\* When destroy goes on to end the actor, the actor has read every message,
\* for pipes of any length and any calls before.
THEOREM FlushCompletes == Spec => []FlushIsComplete
<1>1. HandshakeInv => FlushIsComplete
  BY DEF HandshakeInv, FlushedIsEmpty, FlushIsComplete
<1> QED
  BY <1>1, HandshakeHolds, PTL

\* When destroy returns, the actor's thread is past its sockets.
THEOREM DestroyReturnsAfterEnd == Spec => []DestroyedAfterEnd
<1>1. HandshakeInv => DestroyedAfterEnd
  BY DEF HandshakeInv, DestroyedAfterEnd
<1> QED
  BY <1>1, HandshakeHolds, PTL
=============================================================================
