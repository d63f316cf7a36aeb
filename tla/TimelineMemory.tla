--------------------------- MODULE TimelineMemory ---------------------------
(***************************************************************************)
(* Who owns which heap block: timeline objects and their two arrays, codec *)
(* objects and their routing id and two chunks.  The caller's thread works *)
(* with the two classes (dax_timeline.c, dax_timeline_codec.c) and hands a *)
(* timeline to the server's thread as a raw pointer in a pipe; the server  *)
(* (dax_timeline_server.c and its engine) owns it from then on.  Contents  *)
(* are left out, but for the size of a timeline, which its code looks at   *)
(* before it frees.                                                        *)
(***************************************************************************)
EXTENDS Integers, Sequences, FiniteSets, Functions

CONSTANTS NULL,
          Sizes,        \* numbers of intervals
          MaxPipe,      \* bound: commands in the pipe
          MaxHeld,      \* bound: objects in the caller's hands at a time
          MaxStray      \* bound: blocks that nothing points to any more

VARIABLES
    heap,       \* the live blocks: pointer -> the fields that matter
    ptr,        \* ptr[x]: what the variable x of a thread points to
    pipe,       \* timelines in NEW TIMELINE commands
    dropped,    \* timelines in commands that were never read
    running     \* the actor runs

vars == <<heap, ptr, pipe, dropped, running>>

CallerVars == {"tl", "tl2",             \* dax_timeline_t *
               "codec", "chunk"}        \* dax_timeline_codec_t *, zchunk_t *
ServerVars == {"timeline", "message",   \* server_t.timeline, s_server_t.message
               "client"}                \* routing id of a peer's client record

\* A pointer names the kind of its block; FAULT becomes live when a block that
\* is not is read or freed.
FAULT == <<"fault", 1>>
Pointer == {"timeline", "int[]", "int64_t[]", "codec", "chunk", "frame"} \X (Nat \ {0})
Fields ==      [size : Nat, epochs : Pointer \cup {NULL}, times : Pointer \cup {NULL}]
          \cup [routing_id : Pointer \cup {NULL}, epochs : Pointer \cup {NULL},
                times : Pointer \cup {NULL}]
          \cup [size : Nat]

ASSUME MemoryAssumption == /\ NULL \notin Pointer
                           /\ Sizes \subseteq Nat
                           /\ MaxPipe \in Nat \ {0}
                           /\ MaxHeld \in Nat
                           /\ MaxStray \in Nat

TypeOK ==
    /\ DOMAIN heap \subseteq Pointer \cup {FAULT}
    /\ \A p \in DOMAIN heap : heap[p] \in Fields
    /\ DOMAIN ptr = CallerVars \cup ServerVars
    /\ \A x \in DOMAIN ptr : ptr[x] \in Pointer \cup {NULL}
    /\ pipe \in Seq(Pointer)
    /\ dropped \subseteq Pointer
    /\ running \in BOOLEAN

-----------------------------------------------------------------------------
(* The allocator.  Operators map the heap before to the heap after. *)

\* malloc hands out the first place of the kind that is free.
Fresh(h, kind) ==
    LET taken == {p[2] : p \in {q \in DOMAIN h : q[1] = kind}}
    IN  <<kind, CHOOSE n \in 1..(Cardinality(taken) + 1) :
                    n \notin taken /\ 1..(n - 1) \subseteq taken>>

Put(h, p, fields) == [q \in DOMAIN h \cup {p} |-> IF q = p THEN fields ELSE h[q]]

Read(h, pointers) ==
    IF pointers \subseteq DOMAIN h THEN h ELSE Put(h, FAULT, [size |-> 0])

\* free, zchunk_destroy, zframe_destroy.
Free(h, p) == IF p = NULL THEN h
              ELSE Restrict(Read(h, {p}), DOMAIN Read(h, {p}) \ {p})

\* A chunk, or the frame of a routing id.
Octets == [size |-> 1]

-----------------------------------------------------------------------------
(* dax_timeline. *)

NewTimeline == [size |-> 0, epochs |-> NULL, times |-> NULL]

\* Both arrays are allocated, whatever n is.
GiveArrays(h, t, n) ==
    LET e == Fresh(h, "int[]")
        m == Fresh(h, "int64_t[]")
    IN  Put(Put(Put(h, e, [size |-> n]), m, [size |-> n]), t,
            [size |-> n, epochs |-> e, times |-> m])

\* They are freed only if there is something in them.
FreeArrays(h, t) ==
    IF h[t].size = 0 THEN h ELSE Free(Free(h, h[t].epochs), h[t].times)

SetIntervals(h, t, n) == GiveArrays(FreeArrays(h, t), t, n)

DestroyTimeline(h, t) == IF t = NULL THEN h ELSE Free(FreeArrays(h, t), t)

\* The new timeline t of decode and dup has arrays only if there are intervals.
CopyTo(h, t, n) == IF n = 0 THEN Put(h, t, NewTimeline) ELSE GiveArrays(h, t, n)

DupTo(h, t, other) ==
    CopyTo(Read(h, IF h[other].size = 0 THEN {other}
                   ELSE {other, h[other].epochs, h[other].times}), t, h[other].size)

-----------------------------------------------------------------------------
(* dax_timeline_codec. *)

NewCodec == [routing_id |-> NULL, epochs |-> NULL, times |-> NULL]

DestroyCodec(h, c) ==
    IF c = NULL THEN h
    ELSE Free(Free(Free(Free(h, h[c].routing_id), h[c].epochs), h[c].times), c)

\* Mutant: the chunk that was there is not destroyed.
SetChunkOver(h, c, field, chunk) == [h EXCEPT ![c][field] = chunk]

\* set_epochs, set_times: the codec object takes the chunk.
SetChunk(h, c, field, chunk) == [Free(h, h[c][field]) EXCEPT ![c][field] = chunk]

SetNewChunk(h, c, field) ==
    LET freed == Free(h, h[c][field])
        chunk == Fresh(freed, "chunk")
    IN  [Put(freed, chunk, Octets) EXCEPT ![c][field] = chunk]

\* Mutant: the frame is not duplicated.
SetRoutingIdShared(h, c, frame) ==
    [Free(h, h[c].routing_id) EXCEPT ![c].routing_id = frame]

\* set_routing_id: the codec object keeps a duplicate of the frame.
SetRoutingId(h, c, frame) ==
    LET freed == Free(h, h[c].routing_id)
        copy  == Fresh(freed, "frame")
    IN  IF frame = NULL THEN [freed EXCEPT ![c].routing_id = NULL]
        ELSE [Put(Read(freed, {frame}), copy, Octets)
                 EXCEPT ![c].routing_id = copy]

\* dax_timeline_encode: both chunks are made before either is set.
Encode(h, t, c) ==
    LET read == Read(h, IF h[t].size = 0 THEN {t} ELSE {t, h[t].epochs, h[t].times})
        e    == Fresh(read, "chunk")
        with == Put(read, e, Octets)
        m    == Fresh(with, "chunk")
    IN  SetChunk(SetChunk(Put(with, m, Octets), c, "epochs", e),
                 c, "times", m)

\* decode needs both chunks (and asserts that they are of one length); so does
\* dup, for zchunk_dup asserts that there is a chunk.
HasChunks(h, c) == h[c].epochs # NULL /\ h[c].times # NULL

DecodeTo(h, t, c, n) == CopyTo(Read(h, {h[c].epochs, h[c].times}), t, n)

DupCodec(h, c) ==
    LET copy == Fresh(h, "codec")
        bare == SetRoutingId(Put(h, copy, NewCodec), copy, h[c].routing_id)
    IN  SetNewChunk(SetNewChunk(Read(bare, {h[c].epochs, h[c].times}),
                                copy, "epochs"), copy, "times")

\* recv of a frame whose first k chunks are there; a ROUTER puts the sender's
\* routing id in front.
Recv(h, c, router, k) ==
    LET freed == Free(h, h[c].routing_id)
        frame == Fresh(freed, "frame")
        start == IF router
                 THEN [Put(freed, frame, Octets) EXCEPT ![c].routing_id = frame]
                 ELSE h
        first == IF k > 0 THEN SetNewChunk(start, c, "epochs") ELSE start
    IN  IF k > 1 THEN SetNewChunk(first, c, "times") ELSE first

-----------------------------------------------------------------------------
(* Ownership. *)

\* The fields of a live block that own what they point to; the arrays of a
\* timeline are its own as long as it has a size.
Owning(p, block) ==
    IF p[1] = "codec" THEN {"routing_id", "epochs", "times"}
    ELSE IF p[1] = "timeline" /\ block.size > 0 THEN {"epochs", "times"}
    ELSE {}

\* Who holds what: variables, places in the pipe, dropped commands, fields.
Holdings == {h \in
         {<<"variable", x, ptr[x]>> : x \in DOMAIN ptr}
    \cup {<<"pipe", i, pipe[i]>> : i \in DOMAIN pipe}
    \cup {<<"dropped", p, p>> : p \in dropped}
    \cup UNION {{<<q[1], <<q[2], f>>, heap[q][f]>> : f \in Owning(q, heap[q])} :
                    q \in DOMAIN heap} : h[3] # NULL}

\* Blocks in no one's hands.
Stray == DOMAIN heap \ {h[3] : h \in Holdings}

Init ==
    /\ heap = [p \in {<<"codec", 1>>} |-> NewCodec]
    /\ ptr = [x \in CallerVars \cup ServerVars |->
                 IF x = "message" THEN <<"codec", 1>> ELSE NULL]
    /\ pipe = <<>>
    /\ dropped = {}
    /\ running = TRUE

-----------------------------------------------------------------------------
(* The caller's thread. *)

Caller(h, x, p) == /\ ptr' = [ptr EXCEPT ![x] = p]
                   /\ Cardinality({y \in CallerVars : ptr'[y] # NULL}) <= MaxHeld
                   /\ heap' = h
                   /\ UNCHANGED <<pipe, dropped, running>>

CallerNew(x) ==
    /\ ptr[x] = NULL
    /\ LET t == Fresh(heap, "timeline")
       IN  Caller(Put(heap, t, NewTimeline), x, t)

CallerSetIntervals(x, n) ==
    /\ ptr[x] # NULL
    /\ Cardinality(Stray) < MaxStray
    /\ Caller(SetIntervals(heap, ptr[x], n), x, ptr[x])

CallerDestroy(x) ==
    ptr[x] # NULL /\ Caller(DestroyTimeline(heap, ptr[x]), x, NULL)

\* tl2 = dax_timeline_dup (tl)
CallerDup ==
    /\ ptr["tl"] # NULL /\ ptr["tl2"] = NULL
    /\ LET t == Fresh(heap, "timeline")
       IN  Caller(DupTo(heap, t, ptr["tl"]), "tl2", t)

CallerNewCodec ==
    /\ ptr["codec"] = NULL
    /\ LET c == Fresh(heap, "codec") IN Caller(Put(heap, c, NewCodec), "codec", c)

CallerDestroyCodec ==
    ptr["codec"] # NULL /\ Caller(DestroyCodec(heap, ptr["codec"]), "codec", NULL)

CallerEncode ==
    /\ ptr["tl"] # NULL /\ ptr["codec"] # NULL
    /\ Caller(Encode(heap, ptr["tl"], ptr["codec"]), "tl", ptr["tl"])

CallerDecode(n) ==
    /\ ptr["tl2"] = NULL /\ ptr["codec"] # NULL
    /\ HasChunks(heap, ptr["codec"])
    /\ LET t == Fresh(heap, "timeline")
       IN  Caller(DecodeTo(heap, t, ptr["codec"], n), "tl2", t)

\* copy = dax_timeline_codec_dup (codec), in the place of the original.
CallerDupCodec ==
    /\ ptr["codec"] # NULL /\ HasChunks(heap, ptr["codec"])
    /\ Caller(DestroyCodec(DupCodec(heap, ptr["codec"]), ptr["codec"]), "codec",
              Fresh(heap, "codec"))

CallerRecv(k) ==
    /\ ptr["codec"] # NULL
    /\ Caller(Recv(heap, ptr["codec"], FALSE, k), "codec", ptr["codec"])

\* chunk = get_epochs (codec), get_times (codec)
CallerGetChunk(field) ==
    /\ ptr["codec"] # NULL /\ ptr["chunk"] = NULL
    /\ Caller([heap EXCEPT ![ptr["codec"]][field] = NULL], "chunk",
              heap[ptr["codec"]][field])

\* set_epochs (codec, &chunk), set_times (codec, &chunk)
CallerSetChunk(field) ==
    /\ ptr["codec"] # NULL
    /\ Caller(SetChunk(heap, ptr["codec"], field, ptr["chunk"]), "chunk", NULL)

CallerDestroyChunk ==
    ptr["chunk"] # NULL /\ Caller(Free(heap, ptr["chunk"]), "chunk", NULL)

\* Mutants: there need not be a timeline to hand over; the caller keeps it.
HandOverNothing ==
    /\ running /\ Len(pipe) < MaxPipe
    /\ pipe' = Append(pipe, ptr["tl"])
    /\ ptr' = [ptr EXCEPT !["tl"] = NULL]
    /\ UNCHANGED <<heap, dropped, running>>
HandOverAndKeep ==
    /\ running /\ ptr["tl"] # NULL /\ Len(pipe) < MaxPipe
    /\ pipe' = Append(pipe, ptr["tl"])
    /\ UNCHANGED <<heap, ptr, dropped, running>>

\* zsock_send (server, "sp", "NEW TIMELINE", tl); tl = NULL;
HandOver ==
    /\ running /\ ptr["tl"] # NULL /\ Len(pipe) < MaxPipe
    /\ pipe' = Append(pipe, ptr["tl"])
    /\ ptr' = [ptr EXCEPT !["tl"] = NULL]
    /\ UNCHANGED <<heap, dropped, running>>

-----------------------------------------------------------------------------
(* The server's thread. *)

\* A fresh codec object takes the timeline, is sent, and is destroyed.
Publish(h, t) == LET c == Fresh(h, "codec")
                 IN  DestroyCodec(Encode(Put(h, c, NewCodec), t, c), c)

\* server_method, NEW TIMELINE.
Install(old, new) == Publish(DestroyTimeline(heap, old), new)

HandleNewTimeline ==
    /\ running /\ pipe # <<>>
    /\ heap' = Install(ptr["timeline"], Head(pipe))
    /\ ptr' = [ptr EXCEPT !["timeline"] = Head(pipe)]
    /\ pipe' = Tail(pipe)
    /\ UNCHANGED <<dropped, running>>

\* recv into the shared codec object, s_client_new unless there is a record;
\* then the message is discarded, or s_client_execute encodes unless the shared
\* object seems up to date, sets the record's routing id in it and sends it,
\* and unless there is no timeline the record is freed.
HandleProtocol(k) ==
    LET received == Recv(heap, ptr["message"], TRUE, k)
        known    == ptr["client"] # NULL
        client   == IF known THEN ptr["client"] ELSE Fresh(received, "frame")
        made     == IF known THEN received ELSE Put(received, client, Octets)
        sent(h)  == SetRoutingId(h, ptr["message"], client)
        encoded  == Encode(made, ptr["timeline"], ptr["message"])
    IN  /\ running
        /\ \/ heap' = made /\ ptr' = [ptr EXCEPT !["client"] = client]
           \/ /\ ptr["timeline"] = NULL
              /\ heap' = sent(made) /\ ptr' = [ptr EXCEPT !["client"] = client]
           \/ /\ \/ heap' = Free(sent(made), client)
                 \/ ptr["timeline"] # NULL /\ heap' = Free(sent(encoded), client)
              /\ ptr' = [ptr EXCEPT !["client"] = NULL]
        /\ UNCHANGED <<pipe, dropped, running>>

\* The record's ticket: s_client_destroy.
ClientExpires ==
    /\ running /\ ptr["client"] # NULL
    /\ heap' = Free(heap, ptr["client"])
    /\ ptr' = [ptr EXCEPT !["client"] = NULL]
    /\ UNCHANGED <<pipe, dropped, running>>

\* server_terminate.
Terminate(h) == DestroyTimeline(h, ptr["timeline"])

\* s_server_destroy.  The frames in the pipe go, what their
\* pointers point to stays.
Exit ==
    /\ running
    /\ running' = FALSE
    /\ heap' = Terminate(Free(DestroyCodec(heap, ptr["message"]), ptr["client"]))
    /\ ptr' = [x \in DOMAIN ptr |-> IF x \in ServerVars THEN NULL ELSE ptr[x]]
    /\ dropped' = {pipe[i] : i \in DOMAIN pipe}
    /\ pipe' = <<>>

Next == \/ \E x \in {"tl", "tl2"} : \/ CallerNew(x)
                                    \/ \E n \in Sizes : CallerSetIntervals(x, n)
                                    \/ CallerDestroy(x)
        \/ CallerDup
        \/ CallerNewCodec \/ CallerDestroyCodec \/ CallerDupCodec
        \/ CallerEncode
        \/ \E n \in Sizes : CallerDecode(n)
        \/ \E k \in 0..2 : CallerRecv(k) \/ HandleProtocol(k)
        \/ \E field \in {"epochs", "times"} : CallerGetChunk(field)
                                              \/ CallerSetChunk(field)
        \/ CallerDestroyChunk
        \/ HandOver
        \/ HandleNewTimeline
        \/ ClientExpires
        \/ Exit

Spec == Init /\ [][Next]_vars

-----------------------------------------------------------------------------
(* Properties. *)

\* No block is read or freed that is not live, in any order of calls and of
\* the two threads.
NoFault == FAULT \notin DOMAIN heap

\* A block has one owner, a variable of one of the threads, a place in the
\* pipe or a field of a live object, and no pointer outlives its block: so the
\* threads, which use no lock, never touch the same block.
SingleOwner ==
    /\ \A g, h \in Holdings : g[3] = h[3] => g = h
    /\ \A h \in Holdings : h[3] \in DOMAIN heap

\* Nothing leaks but what set_intervals allocates for no intervals, which no
\* code frees; and timelines whose command the actor did not get to read,
\* which are in "dropped".
OnlyEmptyArraysLeak ==
    \A p \in Stray : p[1] \in {"int[]", "int64_t[]"} /\ heap[p].size = 0
=============================================================================
