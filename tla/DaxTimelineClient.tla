------------------------- MODULE DaxTimelineClient --------------------------
(***************************************************************************)
(* The timeline client: its owner's API object and its actor               *)
(* (dax_timeline_client.c, dax_timeline_client_engine.inc), two threads    *)
(* joined by a command pipe, read and written by both, and a message pipe  *)
(* from owner to actor.  The hook connect_to_server is empty in the        *)
(* repository, which leaves the DEALER without a peer; "Connects" says     *)
(* which outcomes an application's version of it may have.                 *)
(***************************************************************************)
EXTENDS DaxTimelineCodec

CONSTANTS Connects,     \* whether connect_to_server connects the DEALER
          Calls,        \* what the owner may do with its object
          Answers,      \* frames the server may send
          MaxPipe       \* bound: commands, messages or frames in one queue

Call == {"connect",         \* dax_timeline_client_connect
         "CONNECT",         \* the command alone, through the actor's handle
         "connected",       \* dax_timeline_client_connected
         "set_verbose",     \* dax_timeline_client_set_verbose
         "post",            \* a message of one's own into the message pipe
         "destroy"}         \* dax_timeline_client_destroy

ASSUME ClientAssumption == /\ Connects \subseteq BOOLEAN
                           /\ Calls \subseteq Call
                           /\ Answers \subseteq Frame
                           /\ MaxPipe \in Nat \ {0}

VARIABLES
    owner,          \* where the owner's thread is
    loc,            \* where the actor's thread is
    state,          \* s_client_t.state
    fsm_stopped,    \* s_client_t.fsm_stopped
    message,        \* s_client_t.message
    cmdpipe,        \* commands on their way to the actor
    replies,        \* the same pipe in the other direction
    msgpipe,        \* messages on their way to the actor
    dealer,         \* frames the DEALER holds
    requested,      \* how many SEND_TIMELINE went out
    interrupted     \* zsys_interrupted

machineVars == <<state, fsm_stopped, message, requested>>
pipeVars    == <<cmdpipe, replies, msgpipe>>
vars == <<owner, loc, machineVars, pipeVars, dealer, interrupted>>

Waiting == {"await reply", "await answer", "flushing", "collect"}
Sending == {"connect", "CONNECT", "connected", "set_verbose", "post", "flush"}

Command == {"CONNECT", "$CONNECTED", "SET VERBOSE", "$TERM"}
Reply   == {"connected?", "signal"}

TypeOK ==
    /\ owner \in {"free", "term", "gone"} \cup Sending \cup Waiting
    /\ loc \in {"poll", "msgpipe", "dealer", "sending", "leaving", "closed",
                "signalled", "ended"}
    /\ state \in {"start", "listening"}
    /\ fsm_stopped \in BOOLEAN
    /\ message \in Codec
    /\ cmdpipe \in Seq(Command)
    /\ replies \in Seq(Reply)
    /\ msgpipe \in Seq({"message", "$FLUSH"})
    /\ dealer \in Seq(Answers)
    /\ requested \in Nat
    /\ interrupted \in BOOLEAN

\* dax_timeline_client_new and s_client_new have returned.
Init ==
    /\ owner = "free"
    /\ loc = "poll"
    /\ state = "start"
    /\ fsm_stopped = FALSE
    /\ message = NewCodec
    /\ cmdpipe = <<>>
    /\ replies = <<>>
    /\ msgpipe = <<>>
    /\ dealer = <<>>
    /\ requested = 0
    /\ interrupted = FALSE

\* A pipe takes messages as long as the actor has not closed its end.
CmdpipeOpen == loc # "ended"
MsgpipeOpen == loc \notin {"closed", "signalled", "ended"}

-----------------------------------------------------------------------------
(* The owner. *)

\* destroy skips the flush once the process was interrupted.
Begin(call) ==
    /\ owner = "free"
    /\ owner' = IF call # "destroy" THEN call
                ELSE IF interrupted THEN "term" ELSE "flush"
    /\ UNCHANGED <<loc, machineVars, pipeVars, dealer, interrupted>>

\* A send waits until the pipe has room, and for ever if it was closed.
SendCommand(call, command, then) ==
    /\ owner = call
    /\ CmdpipeOpen
    /\ Len(cmdpipe) < MaxPipe
    /\ cmdpipe' = Append(cmdpipe, command)
    /\ owner' = then
    /\ UNCHANGED <<loc, machineVars, replies, msgpipe, dealer, interrupted>>

SendMessage(call, text, then) ==
    /\ owner = call
    /\ MsgpipeOpen
    /\ Len(msgpipe) < MaxPipe
    /\ msgpipe' = Append(msgpipe, text)
    /\ owner' = then
    /\ UNCHANGED <<loc, machineVars, cmdpipe, replies, dealer, interrupted>>

\* connect() waits for no reply once the process was interrupted.
OwnerSends ==
    \/ SendCommand("connect", "CONNECT",
                   IF interrupted THEN "free" ELSE "await reply")
    \/ SendCommand("CONNECT", "CONNECT", "free")
    \/ SendCommand("connected", "$CONNECTED", "await answer")
    \/ SendCommand("set_verbose", "SET VERBOSE", "free")
    \/ SendMessage("post", "message", "free")
    \/ SendMessage("flush", "$FLUSH", "flushing")

\* The owner takes the next reply from the actor.
OwnerReads(then) ==
    /\ replies # <<>>
    /\ replies' = Tail(replies)
    /\ owner' = then
    /\ UNCHANGED <<loc, machineVars, cmdpipe, msgpipe, dealer, interrupted>>

\* s_accept_reply, in its wait, discards what is not CONNECTED or FAILURE, and
\* looks at the interrupt after each reply.
AcceptReply ==
    /\ owner = "await reply"
    /\ OwnerReads(IF interrupted \/ Head(replies) \in {"CONNECTED", "FAILURE"}
                  THEN "free" ELSE owner)

\* connected() takes the next reply for its answer.
ReadConnected == owner = "await answer" /\ OwnerReads("free")

\* zsock_wait discards what is not a signal.
WaitForSignal(at, then) ==
    /\ owner = at
    /\ OwnerReads(IF Head(replies) = "signal" THEN then ELSE owner)

\* zactor_destroy: $TERM is sent without waiting for room; if the pipe is
\* closed, the thread is taken to be over.
SendTerm ==
    /\ owner = "term"
    /\ IF CmdpipeOpen
       THEN cmdpipe' = Append(cmdpipe, "$TERM") /\ owner' = "collect"
       ELSE UNCHANGED cmdpipe /\ owner' = "gone"
    /\ UNCHANGED <<loc, machineVars, replies, msgpipe, dealer, interrupted>>

OwnerStep == \/ OwnerSends
             \/ AcceptReply
             \/ ReadConnected
             \/ WaitForSignal("flushing", "term")
             \/ SendTerm
             \/ WaitForSignal("collect", "gone")

-----------------------------------------------------------------------------
(* The actor's machine. *)

\* Mutants: the machine does not move on, or loses its state.
ExecuteConnectStaying ==
    /\ loc' = "poll"
    /\ UNCHANGED <<state, fsm_stopped>>
    /\ IF fsm_stopped THEN UNCHANGED <<message, requested>>
       ELSE message' = WithId(message, SEND_TIMELINE) /\ requested' = requested + 1
ExecuteConnectLost ==
    /\ loc' = "poll"
    /\ state' = IF state = "start" THEN "listening" ELSE "none"
    /\ UNCHANGED <<fsm_stopped, message, requested>>

\* s_client_execute (connect_event).  Without a connection the send of
\* SEND_TIMELINE waits for a peer that never comes.
ExecuteConnect ==
    IF fsm_stopped
    THEN loc' = "poll" /\ UNCHANGED machineVars
    ELSE IF state = "start"
    THEN /\ message' = WithId(message, SEND_TIMELINE)
         /\ UNCHANGED fsm_stopped
         /\ \/ /\ TRUE \in Connects
               /\ requested' = requested + 1
               /\ state' = "listening"
               /\ loc' = "poll"
            \/ /\ FALSE \in Connects
               /\ loc' = "sending"
               /\ UNCHANGED <<requested, state>>
    ELSE /\ fsm_stopped' = TRUE
         /\ loc' = "poll"
         /\ UNCHANGED <<state, message, requested>>

-----------------------------------------------------------------------------
(* The actor's reactor. *)

TakeCommand(command) ==
    /\ loc = "poll"
    /\ cmdpipe # <<>>
    /\ Head(cmdpipe) = command
    /\ cmdpipe' = Tail(cmdpipe)
    /\ UNCHANGED <<owner, msgpipe, dealer, interrupted>>

HandleConnect == TakeCommand("CONNECT") /\ ExecuteConnect /\ UNCHANGED replies

HandleConnected == /\ TakeCommand("$CONNECTED")
                   /\ replies' = Append(replies, "connected?")
                   /\ UNCHANGED <<loc, machineVars>>

\* An int is stored where the one-octet flag "verbose" is: the flags connected,
\* terminated and fsm_stopped behind it get the other octets of v, zero, or on
\* a big-endian machine the last of them gets v.
HandleSetVerbose ==
    /\ TakeCommand("SET VERBOSE")
    /\ \E v \in BOOLEAN : fsm_stopped' \in {FALSE, v}
    /\ UNCHANGED <<loc, state, message, requested, replies>>

HandleTerm == /\ TakeCommand("$TERM")
              /\ loc' = "leaving"
              /\ UNCHANGED <<machineVars, replies>>

HandleCmdpipe ==
    HandleConnect \/ HandleConnected \/ HandleSetVerbose \/ HandleTerm

\* The handlers of the message pipe and of the DEALER read as long as there is
\* something; nothing else of the actor runs in between.
StartHandler == /\ loc = "poll"
                /\ \/ msgpipe # <<>> /\ loc' = "msgpipe"
                   \/ dealer # <<>> /\ loc' = "dealer"
                /\ UNCHANGED <<owner, machineVars, pipeVars, dealer, interrupted>>

EndHandler == /\ \/ loc = "msgpipe" /\ msgpipe = <<>>
                 \/ loc = "dealer" /\ dealer = <<>>
              /\ loc' = "poll"
              /\ UNCHANGED <<owner, machineVars, pipeVars, dealer, interrupted>>

\* Mutants: every message is taken for $FLUSH, none is.
ReadMsgpipeSignalAll ==
    /\ loc = "msgpipe"
    /\ msgpipe # <<>>
    /\ msgpipe' = Tail(msgpipe)
    /\ replies' = Append(replies, "signal")
    /\ UNCHANGED <<owner, loc, machineVars, cmdpipe, dealer, interrupted>>
ReadMsgpipeSilently ==
    /\ loc = "msgpipe"
    /\ msgpipe # <<>>
    /\ msgpipe' = Tail(msgpipe)
    /\ UNCHANGED <<owner, loc, machineVars, cmdpipe, replies, dealer, interrupted>>

\* $FLUSH is acknowledged, anything else discarded.
ReadMsgpipe ==
    /\ loc = "msgpipe"
    /\ msgpipe # <<>>
    /\ msgpipe' = Tail(msgpipe)
    /\ replies' = IF Head(msgpipe) = "$FLUSH" THEN Append(replies, "signal")
                  ELSE replies
    /\ UNCHANGED <<owner, loc, machineVars, cmdpipe, dealer, interrupted>>

\* Any result of recv but success ends the reactor, and so does any message
\* but TIMELINE; for TIMELINE the machine runs the empty forward_timeline.
ReadDealer ==
    /\ loc = "dealer"
    /\ dealer # <<>>
    /\ dealer' = Tail(dealer)
    /\ message' = RecvInto(message, Head(dealer))
    /\ loc' = IF RecvRc(Head(dealer)) = 0 /\ message'.id = TIMELINE
              THEN loc ELSE "leaving"
    /\ UNCHANGED <<owner, state, fsm_stopped, requested, pipeVars, interrupted>>

\* zloop sees the interrupt at its next poll.
Interrupted == /\ loc = "poll"
               /\ interrupted
               /\ loc' = "leaving"
               /\ UNCHANGED <<owner, machineVars, pipeVars, dealer, interrupted>>

\* s_client_destroy closes the message pipe and the DEALER; then the thread
\* signals its end and closes the command pipe.
CloseSockets == /\ loc = "leaving"
                /\ loc' = "closed"
                /\ msgpipe' = <<>>
                /\ dealer' = <<>>
                /\ message' = NewCodec
                /\ UNCHANGED <<owner, state, fsm_stopped, requested, cmdpipe,
                               replies, interrupted>>

SignalEnd == /\ loc = "closed"
             /\ loc' = "signalled"
             /\ replies' = Append(replies, "signal")
             /\ UNCHANGED <<owner, machineVars, cmdpipe, msgpipe, dealer,
                            interrupted>>

CloseCmdpipe == /\ loc = "signalled"
                /\ loc' = "ended"
                /\ cmdpipe' = <<>>
                /\ UNCHANGED <<owner, machineVars, replies, msgpipe, dealer,
                               interrupted>>

-----------------------------------------------------------------------------
(* The server and the process. *)

\* The server sends to those who asked.
ServerSends == /\ requested > 0
               /\ MsgpipeOpen
               /\ Len(dealer) < MaxPipe
               /\ \E f \in Answers : dealer' = Append(dealer, f)
               /\ UNCHANGED <<owner, loc, machineVars, pipeVars, interrupted>>

\* Where an interrupted call of the owner goes on.
AfterInterrupt == [place \in Sending \cup Waiting |->
    IF place = "flush" \/ place = "flushing" THEN "term"
    ELSE IF place = "collect" THEN "gone"
    ELSE IF place = "connected" THEN "await answer"
    ELSE "free"]

\* SIGINT interrupts a blocking call of the thread that gets it, if there is
\* one.
Signal ==
    /\ ~interrupted
    /\ interrupted' = TRUE
    /\ \/ UNCHANGED <<owner, loc, state>>
       \/ /\ owner \in DOMAIN AfterInterrupt
          /\ owner' = AfterInterrupt[owner]
          /\ UNCHANGED <<loc, state>>
       \/ /\ loc = "sending"
          /\ loc' = "poll"
          /\ state' = "listening"
          /\ UNCHANGED owner
    /\ UNCHANGED <<fsm_stopped, message, requested, pipeVars, dealer>>

ActorStep == \/ HandleCmdpipe
             \/ StartHandler
             \/ EndHandler
             \/ ReadMsgpipe
             \/ ReadDealer
             \/ Interrupted
             \/ CloseSockets
             \/ SignalEnd
             \/ CloseCmdpipe

Next == \/ \E call \in Calls : Begin(call)
        \/ OwnerStep
        \/ ActorStep
        \/ ServerSends
        \/ Signal

Spec == Init /\ [][Next]_vars

\* Fairness: both threads keep running; the reactor, each time it polls, calls
\* the handlers of everything that is ready.  The owner need not call
\* anything, the server need not answer.
Fairness == /\ WF_vars(OwnerStep)
            /\ WF_vars(ActorStep)
            /\ SF_vars(HandleCmdpipe)
            /\ SF_vars(StartHandler /\ loc' = "msgpipe")
            /\ SF_vars(StartHandler /\ loc' = "dealer")

FairSpec == Spec /\ Fairness

-----------------------------------------------------------------------------
(* Properties. *)

Running == loc \in {"poll", "msgpipe", "dealer", "sending"}

\* When destroy goes on to end the actor, everything that was put into the
\* message pipe before has been read: the handshake over two pipes does what
\* it is for.
FlushIsComplete ==
    owner \in {"term", "collect"} /\ Running /\ ~interrupted
        => msgpipe = <<>>

\* When destroy is done with the actor, the actor has left its reactor and
\* freed its sockets, whichever signals were in the pipe before.
DestroyedAfterEnd == owner = "gone" /\ ~interrupted => loc \in {"signalled", "ended"}

\* However often CONNECT is sent, and whatever else is, the server is asked
\* once.
AsksOnce == requested <= 1

\* The actor has left its reactor although nobody told it to.
Deserted == ~Running /\ owner \notin {"collect", "gone"}

\* In a process that is not interrupted destroy returns, unless the actor never
\* gets out of a handler.
DestroyReturns ==
    []~interrupted /\ []<>(loc \notin {"dealer", "msgpipe", "sending"})
        => (owner \in {"flush", "flushing", "term", "collect"} ~> owner = "gone")

\* The same of an actor that lives until its owner ends it, whatever calls,
\* commands, messages and answers came before.
DestroyReturnsWhileAlive == []~Deserted => DestroyReturns
=============================================================================
