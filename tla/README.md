# daxnet in TLA+

Specifications of the DAX timeline protocol of this repository: the wire codec,
the timeline class, and the timeline server and client with the engines generated
around them, each alone, by value and by the memory they use, and the two joined by
the network.
The modules are checked with TLC on small instances; type correctness, every safety
invariant and action property that a run checks, and the refinement of the abstract
service are proved with TLAPS for every value of the constants.

Paths below are relative to the repository; "engine" is
`src/dax_timeline_server_engine.inc`, "client engine" is
`src/dax_timeline_client_engine.inc`.

## 1. Inventory of the system

| component | state it keeps | operations | who it talks to |
|---|---|---|---|
| **timeline class** `src/dax_timeline.c` | ident, created, start of time, arrays of epochs and end times | new, destroy, setters, encode, decode, dup, print | encode and decode go through a codec object |
| **timeline codec** `src/dax_timeline_codec.c` | one object with the fields of all three messages (TIMELINE, SEND_TIMELINE, ERROR), a routing id | new, destroy, recv, send, setters and getters, dup, zpl text form, print | ZeroMQ sockets |
| **timeline server** `src/dax_timeline_server.c`, engine | current timeline, one shared codec object, table of client records with expiry tickets, timeout, configuration tree, port, PUB and ROUTER sockets | pipe: `NEW TIMELINE`, `BIND`, `BIND PUB`, `PORT`, `SET`, `LOAD`, `SAVE`, `VERBOSE`, `$TERM`; ROUTER: one machine per client record; timers: ticket expiry, configuration monitor | the caller through the actor's pipe, peers through the ROUTER, subscribers through PUB |
| **timeline client** `src/dax_timeline_client.c`, `..._client_engine.inc` | machine state, codec object, arguments, flags (connected, terminated, stopped) | API: connect, set verbose, destroy; dealer messages; wakeup timer | its caller through two pipes, the server through a DEALER |
| **zyre peer template** `src/zproto_zyrepeer_c.gsl` | a generator's template for peer actors on a Zyre network | generated code, none in this tree | |
| **notes** `doc/*.org` | design text: how timelines are made, found and published | | |
| **selftests, build, API descriptions** | | | |

How they interact. The caller makes a timeline and hands the *pointer* to the
server through the pipe (`NEW TIMELINE`). The server destroys the timeline it
had, keeps the new one, encodes it into a *fresh* codec object and publishes it.
A peer asks with SEND_TIMELINE. The engine receives the message into its *one*
codec object, finds or makes the record of the peer and runs its machine;
`check_current` encodes the current timeline into the same codec object, unless
the ident in there says that this was done before; the object is sent back to
the routing id and the record is deleted. Without a timeline the peer gets ERROR
and the record stays until its ticket expires. Anything else the peer sends gets
ERROR too.

What is hard about it:

* the shared codec object. It is the receive buffer of every peer, the send
  buffer of every answer, and a cache of the encoded timeline, all at once. recv
  overwrites only what the incoming frame has, and stops anywhere in a frame that
  ends early. Nothing in the code says which field belongs to whom at which time;
* two ways out for the same data, publication and answer, encoded apart;
* records, table and tickets in the reactor, freed by answers, refusals, expiry
  and the end of the actor, in any order with new messages;
* a reactor whose protocol handler drains the socket: nothing else runs as long
  as peers keep sending;
* the end of the actor, at any poll or receive, by `$TERM` or by a signal, with
  commands, messages and answers still in flight;
* the client's owner and actor talk over two pipes, one of them in both
  directions; three different events (the flush was read, the actor ended, the
  answer to $TERM) are the same signal on it, and every call of the owner blocks;
* a configuration tree that commands and a monitor replace between any two
  callbacks, kept by pointer in two places, beside values derived from it and the
  file it came from, which others may write;
* raw pointers handed over between threads, frames and chunks that are copied,
  lent, taken or given away by convention; signed values in unsigned fields.

What makes each component correct:

* memory: every block has one owner, nothing dead is read or freed, nothing leaks;
* class: decode after encode gives what dup gives; decode's assertion and
  pointers are safe on every timeline that was encoded, whatever the codec object
  held before;
* codec: recv reports what is not a whole message; nothing of an earlier message
  shows up in a later one;
* server: it is a register (`TimelineService`): answers in the order of the
  requests, at most one each, with the timeline current when it is answered; the
  cache is coherent; both channels agree; no ticket outlives its record; it ends
  when it is told to, with what it was handed published; messages get read, records
  go away;
* its configuration: replies in step with questions, a port that is bound, derived
  values that follow the tree, a tree that differs from its file only where the
  monitor sees it, no dangling pointer;
* client: destruction reads what was sent before it, ends the actor before it
  frees anything, and returns; connect ends with a reply; the server is asked
  once;
* both together: each is the environment the other was written for, one request has
  one answer, what arrives was published, who asks is answered.

`PROJECT.json` lists the hazards, each at its line, with the properties that
cover it or the reason why none does yet.

## 2. Modules

| module | models | by |
|---|---|---|
| `DaxTimelineCodec` | the codec: `NewCodec`, `SendFrame`, `RecvInto`, `RecvRc` | pure operators |
| `DaxTimeline` | the class: `Encode`, `Decode`, `Dup`, the conversions `Unsigned` and `Signed` | pure operators, EXTENDS the codec |
| `DaxTimelineCodecText` | the text form of the codec (zpl): `Zpl`, `NewZpl` | pure operators, EXTENDS `DaxTimeline` for the conversions |
| `TimelineTransfer` | one producer's and one consumer's codec object, reused for message after message, with a wire and a text between them | state machine, EXTENDS `DaxTimelineCodecText` |
| `DaxTimelineServer` | the server actor with its peers and its caller | state machine, EXTENDS `DaxTimeline` |
| `DaxTimelineClient` | the client's API object, its actor, the two pipes between them | state machine, EXTENDS the codec |
| `ServerConfig` | the commands and the monitor that configure the server | state machine |
| `TimelineMemory` | the heap blocks of class, codec and server, and who owns them | state machine |
| `TimelineSystem` | client and server over the network | state machine, INSTANCEs `DaxTimelineServer` and `DaxTimelineClient` |
| `TimelineService` | what the server promises: a register | abstract state machine |
| `DaxTimeline_proofs` | lemmas on the operators of codec, class and text, and on queues | EXTENDS `DaxTimelineCodecText`, TLAPS |
| `DaxTimelineServer_proofs`, `DaxTimelineClient_proofs`, `TimelineTransfer_proofs` | theorems about the three state machines | EXTEND their machine and `DaxTimeline_proofs` |
| `DaxTimelineServer_refinement` | the server implements the service | EXTENDS `DaxTimelineServer_proofs` |
| `TimelineSystem_proofs` | theorems about both together | EXTENDS `TimelineSystem`, INSTANCEs the proofs of the two sides |
| `ServerConfig_proofs`, `TimelineMemory_proofs` | theorems about the configuration, and about the memory | EXTEND their machine, TLAPS |
| `MC...` | instances for TLC | definitions of constants |

### Codec and class

A frame is a record of the fields it may have plus `held`: how many of recv's
reads it has the bytes for. So a truncated frame is the same record with a
smaller `held`, and all of recv is one question, `Reaches(f, n)`: does reading
get as far as the n-th read? The codec object is a record of the fields; chunks
are sequences of array elements, or `NULL` before they were ever set. Octets,
byte order and the printable reason are left out; widths are not: `ident` and
`sot` go through `Unsigned(i, modulus)` and back through `Signed`, with the
moduli 2^32 and 2^64 as the constants `IdentModulus` and `TickModulus`.

recv's result is the code's: 0 unless the signature or the id is wrong or a
chunk is cut. The GET macros jump to the error exit without touching `rc`, so
the other truncations return 0 (see finding `transfer_cut`).

### Text form and transfer

The text of a codec object is a tree of strings; `Text` keeps the message name
and the value each field reads as, or `NULL` for a field that is not there or
does not read as what it should be. Numbers are written with `%ld` of the value
converted to `long` and read with `strtoll`: on the platforms this runs on, `long` is as
wide as `created` and `sot`, so the text has the signed value of those fields and
the plain value of the narrower `ident`. Hexadecimal digits are left out, and so
is the saturation of numbers beyond `long`, which `zpl` never writes.
`CanZpl` is the assertion `zpl` meets in a TIMELINE whose chunks were never set.

`TimelineTransfer` has one codec object `out` on the producer's side and one, `in`, on
the consumer's, the `wire` and the `file` between them. `Send` and `Recv`, or `Save` and
`Load`, take a message across; `SendForeign` and `Edit` put in what others write: whole
timelines of other senders, malformed frames, and frames cut short that recv accepts,
whose leftovers stay in `in`. The history (`held`, and `about` beside every frame and
text, NULL if it is not the producer's) says which timeline is meant, so that
`RoundTrip` can compare. What others send has no promise: a TIMELINE of theirs that is
cut before its chunks is accepted with 0 (`transfer_cut`), and `dax_timeline_decode`
stops at its assertion on it (`DecodeTimeline` is not enabled there).

### Server

| variable | in the code |
|---|---|
| `timeline` | `server_t.timeline` |
| `message` | `s_server_t.message`, the shared codec object |
| `clients`, `ticket` | keys of `s_server_t.clients`; `s_client_t.ticket` and what the reactor has of it: none, armed, or due (elapsed, callback not run yet) |
| `timeout` | `s_server_t.timeout` |
| `loop` | where the reactor is: at its poll, inside the `while` of `s_server_handle_protocol`, or gone |
| `leftover` | a part of the last multipart message is unread |
| `interrupted` | CZMQ's signal flag |
| `pipe`, `published`, `inbox`, `outbox` | the actor's pipe, the PUB socket, and per peer the two directions of the ROUTER |
| `caller`, `made`, `gone` | the environment: has the caller asked to destroy the actor, how many timelines did it hand over, which peers closed their socket |

Each action is one callback of the reactor, or one turn of the loop in
`s_server_handle_protocol`, complete: `ServeTimeline(p)`, for instance, receives
into `message`, finds or makes the record, resets its ticket, runs the machine
through `check_current`, sends, and deletes the record and its ticket.
`NoTimeline(p)` goes through the exception raised by `check_current` to the
ERROR answer and keeps the record. `Refuse(p)` is the machine's `*` event with
the empty `signal_command_invalid`. `Discard(p)` is the `continue` after -2, with
the record already made. Why `message` says nothing of the routing id: every
answer sets it first.

`Exit` is everything from `return -1` of a handler to the return of the actor
function. ZeroMQ may or may not deliver the last answers before the ROUTER is
destroyed: any prefix of each outbox stays.

An unread message part (a peer with a REQ socket sends an empty delimiter part
before its data) is modelled because the code reacts to it: the next recv takes
it for a routing id without a message (`BrokenEnvelope`). Messages of three or more
parts, whose third part would be read as a message behind a wrong routing id, are left
out, and so are the commands `NEW TIMELINE` without a frame or with one of the wrong
size, which `server_method` reports and then uses all the same; no caller in the tree
sends one.

### Client

| variable | in the code |
|---|---|
| `owner` | where the thread that owns the `dax_timeline_client_t` is: free, in the send of a call, waiting for a reply, or in one of the steps of `destroy` |
| `loc` | where the actor's thread is: at zloop's poll, in the `while` of one of the two draining handlers, in a send that waits, or in one of the steps after the reactor |
| `state`, `fsm_stopped`, `message` | the members of `s_client_t` |
| `cmdpipe`, `replies` | the command pipe, owner to actor and back |
| `msgpipe` | the message pipe; the actor never writes to it |
| `dealer`, `requested` | what the server sent and was not read; how often it was asked |
| `interrupted` | `zsys_interrupted` |

`connect_to_server`, `forward_timeline` and `signal_internal_error` are empty in
the repository. An empty `connect_to_server` leaves the DEALER without a peer,
so the send of SEND_TIMELINE waits; `Connects` says which outcomes it may have:
`{FALSE}` is the client as it is, TRUE an application that filled the function in,
both one whose connection may fail. A pipe accepts messages as
long as the other end is open and blocks the sender for ever afterwards, except
for `zactor_destroy`, which sends without waiting. `Signal` is SIGINT: it sets the
flag and ends at most one blocking call, since one thread gets it; a thread that
blocks later is not woken by it. `s_accept_reply` looks at the flag first: a `connect`
that sends after the interrupt returns without waiting (`OwnerSends`), one that waits
already may return or go on (`AfterInterrupt`).

`terminated` is not a variable: it is set only by `$TERM` and by an unknown
message, and both handlers return -1 in the same call. `connected` is never set
to true, so `connected()` always answers no. The timers of the engine have no
user in this machine.

### Configuration

| variable | in the code |
|---|---|
| `config` | `s_server_t.config`: the options anything reads, the file it was loaded from, and the file's time and size when they were last taken; `settled` and `unsaved` are history: the file had not been written in that same second, something was SET since |
| `appConfig` | `server_t.config`: the same tree, or freed memory |
| `verbose`, `timeout`, `port` | the members of `s_server_t` |
| `bound` | which endpoints the ROUTER and the PUB socket are bound to, and which others use |
| `pipe`, `replies` | the actor's pipe in both directions; `asked` is history: the caller's questions without a reply |
| `disk` | each file's contents, NULL if it cannot be read, its time in seconds and its size |
| `now` | the clock that stamps files |

Every command of `s_server_handle_pipe` is an action, with `server_method`'s `BIND PUB`
and "no reply" for what it does not know, and so is a turn of the monitor that finds
something to do. `zsock_bind` is a choice: an ephemeral port is any free one, a port in
use is -1, and an ipc path (an endpoint without a port) is unlinked and bound afresh
whoever has it. A bind section without an endpoint fails in `zsock_bind` as one in use
does, and is not told apart from it. `Edit` writes any contents of any size at the
present second; `zconfig_has_changed` is `Changed`, the comparison of seconds and sizes.
`zconfig_save` may fail; if it writes the tree's own file it takes the new time and
size. What the module shows of the code that its reader may not expect:

* verbose is sticky: loading a tree that does not want it leaves it on; only SET
  server/animate turns it off;
* a LOAD that fails frees the tree the application points to and applies nothing, so
  timeout and verbose stay those of the old tree (`AppHasFileTree` and
  `DerivedFollowsTree` say that this is the *only* way it comes to that);
* LOAD and reload run the bind sections again: binding what is bound already fails,
  and `port` is -1 from then on although the ROUTER listens. `PortIsBound` is the
  direction that does hold;
* nothing is ever unbound before the end;
* a reload drops what was SET and not saved, and SAVE over somebody's edit loses the
  edit;
* the monitor's test is as good as the file's time: `TreeIsFile` says that a tree which
  differs from its file is one that was SET, or one the test reports, *if* the file had
  rested for a second when it was read. A file that is read in the second it was
  written in, and written again in that second to the same size, stays different
  from the tree with nobody to notice: TLC finds that at once without the premise
  `settled`. Nor is it said *when* the monitor looks, for the drain of the ROUTER
  runs no timers;
* the code that publishes the current timeline to a new PUB endpoint stands behind
  a `return`, so `HandleBindPub` publishes nothing.

### Memory

`heap` maps the live blocks to those of their fields that are pointers, and to the
size, which the class looks at before it frees. Each function of class and codec is
an operator from heap to heap (`SetIntervals`, `DestroyCodec`, `Recv`, ...), the
caller may call any of them in any order on two timelines, a codec object and a
chunk, and the server's callbacks are compositions of the same operators.
A read or free of a block that is not live makes `FAULT` live. `HandOver` is
`zsock_send (server, "sp", "NEW TIMELINE", tl); tl = NULL;`. Contents, tickets and
the configuration tree are left out, and one client record stands for all, as a
record shares no block with another.

What it shows: a timeline set to no intervals keeps two arrays of size zero that
nothing frees; timelines in commands that the actor did not get to read are lost.
Two uses of the classes are left out since their code rules them out: `decode` and
`dup` of a codec object without chunks, which stop at an assertion, and
`set_intervals` with the object's own arrays, which reads what it just freed.

### Client and server together

`TimelineSystem` has the variables of both modules, those of the client with other
names where they clash (`cmessage`, `cinterrupted`). The client is the peer
`client` of the server: `Asks` is the client's step that sends and the arrival in
the server's inbox, `Delivers` takes an answer from the server's outbox into the
DEALER, `Leaves` closes the socket on both sides; all other steps are one side's
own. `ServerIsServer` and `ClientIsClient` say that what each module assumed of its
environment (requests, limits and order on one side, `Answers` and "nothing before
it was asked" on the other) is what the other does, so the properties of each module
hold in the system. A request sent to a server that ended stays with the DEALER.
Neither process is interrupted, and the server's configuration does not change.

### The abstract service

`TimelineService` has no codec objects, records, timers or sockets: `current`,
the questions still open, the answers not yet taken, who has left, and whether
the service runs. `DaxTimelineServer!Service` instantiates it with a refinement
mapping: `current` is the view of `timeline`; a message in the `inbox` is a
"request" if it is a whole SEND_TIMELINE; answers are the frames in the `outbox`
with everything but ident, start and intervals dropped (`NoView` before the first
timeline, `CurrentView`, `Questions`, `Told`, `Serving`). `ImplementsService`
says that every behaviour of the server is one of the register. It is the one
property that speaks of order, loss, duplication and contents together.

## 3. Runs

| run | instance | checks |
|---|---|---|
| `server_service` | 2 peers, up to 2 messages in flight each, 2 timelines, empty frames, a timeline of another producer cut in its last chunk | `TypeOK`, `NoDanglingTicket`, `QuiescentId`, `AnswersWerePublished`, `CacheCoherent`, `AnswerIsCurrent`, `ImplementsService` |
| `server_liveness` | 2 peers, fair specification, two commands in the pipe, messages in two parts, timeout changeable to 0 | `MessagesAreRead`, `DepartedAreForgotten`, `TermEndsServer` |
| `config` | all commands, one file with three contents of two sizes that others may write, one of them unreadable, two seconds, a port and an ipc path to bind, the path in use | `TypeOK`, `RepliesMatchQuestions`, `PortIsBound`, `AppHasFileTree`, `DerivedFollowsTree`, `TreeIsFile` |
| `memory` | sizes 0 and 2, three objects in the caller's hands, two in the pipe | `TypeOK`, `NoFault`, `SingleOwner`, `OnlyEmptyArraysLeak` |
| `system` | the client, another peer, 2 timelines | `OneAnswer`, `ReceivedWasPublished`, `GivesUpWhenTold`, `LateComersAreServed`, `ServerIsServer`, `ClientIsClient` |
| `system_liveness` | the client alone with the server, 2 timelines, fair specification | `AskedIsAnswered` |
| `transfer` | 3 timelines with the extremes of both signed widths, foreign frames: an unknown id, a whole timeline with unpaired chunks, and timelines cut before the id, between the chunks and in the last one; texts with no end times or too few | `TypeOK`, `RoundTrip`, `SentCanBeDecoded`, `TextKeepsMessage` |
| `client` | every API call, command and message of the owner, an interrupt, a connection that may fail, a server that sends TIMELINE, ERROR and malformed frames; fair specification | `TypeOK`, `FlushIsComplete`, `DestroyedAfterEnd`, `AsksOnce`, `DestroyReturnsWhileAlive` |
| `server_unnamed`, `server_req`, `transfer_cut`, `client_halted` | see findings | one violated property each |

Bounds and why they are enough. `MaxQueue` bounds the messages in flight between one
peer and the server (both directions together); with 2, a request waits behind another
one and behind an answer, so a reordering, a duplicate or an answer from an older state
shows. `MaxPipe` is 1 in `server_service`: the server handles one command per callback
whatever is behind it, and what a longer pipe adds to those properties is only a later
arrival, which a slow caller gives too. It is 2 in `server_liveness`, where
`TermEndsServer` is about what is in the pipe in front of `$TERM`. Two peers are the
fewest that share the codec object, and they are interchangeable (`MCSymmetry`; the run
with symmetry checks no liveness). Two timelines give "none, one, another", so the
shared object meets no timeline, a fresh one and a stale one; that the cache is right
after any number of replacements is proved (section 5). Frames are one per distinct
outcome of recv and of the machine. `IdentModulus` is 16 and `TickModulus` 64 (32 in the
transfer runs); the timelines have values on both sides of zero, and the transfer runs
the extremes of their ranges. `CacheCoherent`, the answers and the register are promises
to peers whose TIMELINE messages, if they send any, have idents of their own
(`PeersKeepIdents`, section 5): `server_service` has such a message, cut short, received
over the cache between requests. Type correctness, `NoDanglingTicket` and `QuiescentId`
need no assumption and are proved for frames of every kind.

In the client's runs two commands, two messages and two frames fit: a call's
command waits behind another one, `$FLUSH` behind a message, an ERROR behind a
timeline.

In `config`, two commands or replies fit between caller and actor, so that a
question waits behind a LOAD, or behind another question; two readable contents of
the file differ in every option, the third cannot be read. Two seconds (`MaxTime` is
1) and two sizes give a file written before and in the second of a load, and written
again later or in the same second, to the same or another size. In `memory`,
`MaxHeld` bounds the objects in the caller's hands, `MaxStray` the blocks it may lose
through `set_intervals`; two of each size of object meet, and a block is shared as
soon as two places have it. States that differ only in the places of their blocks
on the heap are the same to TLC (`VIEW Shape` in `MCTimelineMemory`): the code cannot
see an address, and the view keeps the values of the three properties.
In `system` one message per peer is in flight, which is the most a client sends; the
run for liveness leaves the other peer out, since with it the graph is too large for
the fairness of two reactors, and what other peers do to a message that waits is
`MessagesAreRead` in `server_liveness`.

The end of the server's actor is a stuttering step (`Exited`), so deadlock is
checked in its runs and in the transfer's. In the client's runs it is not: the
owner may have nothing more to do after `destroy`, and a call may wait for ever
on an actor that ended, which is what `DestroyReturns` is
about. `memory` and `system` may stop as well: at the end of the actor with nothing
in the caller's hands but full bounds, and with an owner that waits in `destroy`.

### Fairness

`FairSpec` assumes: the actor's thread runs (weak fairness of the drain's start
and end and of the exits); zloop calls, at each poll, the handler of everything
that is ready, so a command or a due ticket that is ready again and again is
handled (strong fairness of `HandlePipe` and `ClientExpires`); the ROUTER takes
its peers' messages in turn (strong fairness per peer); time passes. Nothing is
assumed of peers, of the caller or of the signal.

This does not give the server a chance to look at the pipe: the handler drains
the socket, and peers that never stop sending keep it there. The code has no
remedy, so `TermEndsServer` and `DepartedAreForgotten` have the premise
`DrainsEnd`, that the drain ends again and again. It is not implied by fairness,
and without it both are false. `TermEndsServer` says more than that the actor ends:
what was handed over before `$TERM` is published by then. So it also has the premises
that no interrupt and no broken envelope ends the reactor first. `MessagesAreRead`
needs no premise.

The client's `FairSpec` assumes that both threads keep running and that zloop, each time
it polls, calls the handlers of what is ready. The owner need not call anything and the
server need not answer. `DestroyReturns` has two premises. The client's handlers drain
as well, and a send without a connection waits, so the actor must get out of them again
and again. And the process must not be interrupted: with an interrupt the actor may end
while `destroy` waits for the flush; `destroy` then takes the signal of the actor's end
for the acknowledgement, and may wait for another one that does not come.
`DestroyReturnsWhileAlive` adds that the actor does not leave by itself, which is what
`client_halted` is about.

`ServerConfig` states no fairness: the monitor is a timer of the same reactor, which a
drain keeps waiting. `TimelineSystem` is as fair as its two sides, and the network
delivers.

### Findings

* `server_unnamed`: a timeline whose ident was never set is served as an empty
  TIMELINE, since the fresh codec object has ident 0 as well
  (`src/dax_timeline_server.c:286`).
* `server_req`: one message from a REQ socket, which a note names as a possible
  client, ends the server.
* `transfer_cut`: recv returns 0 for most truncated frames.
* `client_halted`: the server's answer "not found" ends the client's actor, and
  `dax_timeline_client_destroy` never returns. That needs an application whose
  `connect_to_server` connects; with the empty stub of the repository nothing is asked.

Seen in the models, without a run of their own: `dax_timeline_client_connect` never
returns unless the process is interrupted, for the machine has no action that
replies and `timeout` is not used; SET VERBOSE stores an int over four one-octet
flags of the client's engine, one of which says that its machine has stopped
(`HandleSetVerbose`).

In two places a stub leaves a field without a value: the refusal of an unexpected
message sends the status that is left in the shared object, 0 at first
(`signal_command_invalid` is empty), and `created` is 0 in every message
(`dax_timeline_encode` does not set it).

## 4. Mutants

Each property of a passing run has a mutant in `PROJECT.json`: an operator
beside the original (`...Silently`, `...InPart`, `...AsIs`), in the way a
plausible slip would change the code, under which TLC finds the property
violated.

## 5. Proofs

Each theorem has an inductive invariant of its own where the property is not one;
it was an invariant of a TLC run before it was proved. The assumptions in the last
column are definitions of the modules, true in the passing runs.

### Transfer

`TimelineTransfer_proofs` proves, for any timelines, frames and texts of others,
length of the wire and field widths (`ModulusAssumption`, `TransferAssumption`):

| theorem | says | assumes |
|---|---|---|
| `TypeCorrect` | `Spec => []TypeOK` | |
| `TransferIsDuplicate` | `Spec => []RoundTrip` | `SourcesFit` |
| `SentIsDecoded` | `Spec => []SentCanBeDecoded` | `SourcesPaired` |
| `TextIsFaithful` | `Spec => TextKeepsMessage` | |

They rest on two arithmetic facts in `DaxTimeline_proofs`, `SignedUnsigned` and
`UnsignedSigned`: each conversion undoes the other for every modulus, even or odd.
`RoundTrip` speaks of the decoded timeline only; `TransferInv` says of every object on
the way (the producer's codec object, each frame, the text, the consumer's codec object)
that it tells the timeline it is about, if it is about one of the producer's: its four
transfer fields are those of that timeline. For a frame that means that recv accepts it
and reads all of it (`Sound`), so whatever was in the consumer's object before is gone,
what a cut frame left there included (`RecvTells`). Nothing is assumed of what others
put on the wire or into the file. `SourcesFit` is the range of C's `int32_t` and
`int64_t`; `SourcesPaired` is what `set_intervals`, the only way to set them, makes so.
Both are needed: a start outside its width comes back as another one, and decode asserts
that the chunks are paired.

### Server

`DaxTimelineServer_proofs` proves, for any peers, timelines, requests, bounds and
field widths (`ModulusAssumption`, `ServerAssumption`):

| theorem | says | argument |
|---|---|---|
| `TypeCorrect` | `Spec => []TypeOK` | inductive as it stands; lemmas on the codec operators (`SendFrameType`, `RecvIntoType`, `EncodeType`), then one lemma per group of actions |
| `TicketsHaveRecords` | `Spec => []NoDanglingTicket` | inductive with `TypeOK` |
| `NeverLeftAsRequest` | `Spec => []QuiescentId` | every way through the machine sets the id before the callback ends; a discarded message has another id (`MalformedIsNoRequest`), which is where the order of recv's reads matters |
| `CacheIsCoherent` | `Spec => []CacheCoherent` if `PeersKeepIdents`, `IdentsAreSet` and `IdentsIdentify` | from `CacheInv` (`CacheHoldsOneTimeline`), see below |
| `AnswersArePublished` | `Spec => []AnswersWerePublished`, same assumptions | `PublishedInv`, see below |
| `AnswersAreCurrent` | `Spec => AnswerIsCurrent`, same assumptions | from `CacheInv` and `CacheCoherent`: what a step appends to an outbox is sent by `ServeTimeline` |

`CacheCoherent` alone is not inductive: it speaks only of the current timeline, and the
next one to be installed may have the ident the shared object happens to hold, with
other contents. `CacheInv` remembers where the contents came from: if the shared object
has the ident of *any* timeline the caller handed over, it holds all four fields of that
one (`Faithful`), and `timeline` and the commands in the pipe are the caller's. Under
other idents it may hold anything, half of another producer's timeline included. Each
message leaves that so (`ReceivedIsFaithful`, which is where `PeersKeepIdents` is used),
and serving replaces all the fields (`FieldsAfterProtocol`). When the idents then agree,
the timelines do, by `IdentsIdentify`, which the protocol's header promises of the ident
("uniquely identifies this timeline"). The three assumptions are needed: without
`IdentsAreSet` TLC shows `server_unnamed`; and a peer that sends a TIMELINE with an
ident of the caller's and other intervals writes it into the cache, from where it is
answered to others. `PeersKeepIdents` also says that `created` is 0 in a peer's
TIMELINE, as `dax_timeline_encode` leaves it.

`AnswersWerePublished` compares frames of two codec objects. `PublishedInv` says that
the frame of the current timeline, encoded into a fresh object, has been published, that
`created` is 0 in the shared object (nothing sets it, `PeersKeepIdents`), and that every
answer on its way was published. Serving encodes nothing, and sends what `CacheInv`
knows to be the current timeline's fields, or encodes them; either way the frame is the
one a fresh object gives (`ServedHoldsCurrent`, `SameFrame`). `published` only grows
(`PublishedGrows`).

`DaxTimelineServer_refinement` proves `ServerImplementsService`, which is `Spec =>
ImplementsService` under the same three assumptions. The queues of the register are
those of the server seen through a function, frame by frame (`Seen`, `Mapped`), and
appending, taking the head and keeping a prefix commute with that (`MappedAppend`,
`MappedTail`, `MappedPrefix` in `DaxTimeline_proofs`). Then there is one lemma per kind
of step: `PeerSendAsks`, `PeerRecvTakes`, `PeerLeaveLeaves`, `NewTimelineInstalls`,
`DiscardIgnores`, `RefuseRefuses`, `NoTimelineAnswers`, `ServeAnswers`, `ExitStops`;
tickets, settings, drains and the caller are stutters. `ServeAnswers` is where the cache
counts: the answer is the view of the current timeline whether or not it was encoded
anew, by `CacheInv`; `RequestIsRequest` is where `QuiescentId` does, since a frame
without an id must not be taken for a question.

### Client

`DaxTimelineClient_proofs` proves, for any calls, answers, outcomes of the connection
and lengths of the pipes (`ClientAssumption`):

| theorem | says | argument |
|---|---|---|
| `TypeCorrect` | `Spec => []TypeOK` | inductive; owner's and actor's steps apart |
| `AsksAtMostOnce` | `Spec => []AsksOnce` | `AskInv`: in state "start" nothing was asked yet, and the machine never returns there |
| `FlushCompletes` | `Spec => []FlushIsComplete` | `HandshakeInv`, see below |
| `DestroyReturnsAfterEnd` | `Spec => []DestroyedAfterEnd` | `HandshakeInv` |

The answer to `$FLUSH`, the end of the actor and the acknowledgement of `$TERM` are
one and the same signal. `HandshakeInv` tells them apart: as long as the actor has not
ended, there is no signal while `$FLUSH` is in the message pipe, where nothing comes
behind it (`FlushPending`); there is at most one, which means that the pipe is empty and
the owner still waits for it (`FlushAnswered`); and what was emptied stays so
(`FlushedIsEmpty`). So a signal that `destroy` reads after that is the end's. All of it
holds unless the process is interrupted, and says so.

### Client and server together

`TimelineSystem_proofs` proves, for any number of other peers, any timelines with
`DistinctIdents`, and `SystemAssumption`:

| theorem | says | argument |
|---|---|---|
| `TheServerIsTheServer`, `TheClientIsTheClient` | `Spec => ServerIsServer`, `Spec => ClientIsClient` | each step of the system is a step of each side or leaves it alone; `LinkInv` says that no answer arrives but one that was asked for and that the client's module knows (`Answers`) |
| `SystemServesRegister` | `Spec => S!ImplementsService` | the server's refinement, whose assumptions the system's constants meet (`SidesAssume`, `SameIdents`) |
| `AtMostOneAnswer` | `Spec => []OneAnswer` | a sum: requests and answers on their way, in the DEALER and read are at most the requests made; each step moves one of them along (`TrafficOnlyFalls`, `SumMoves`) |
| `ReceivedIsPublished` | `Spec => []ReceivedWasPublished` | `LinkInv`, over the server's `PublishedInv` |
| `GivesUpOnlyWhenTold` | `Spec => []GivesUpWhenTold` | `LeaveInv` |
| `LateComersGetTimelines` | `Spec => []LateComersAreServed` | `LateInv`: to a client that asked after the first publication no refusal is on its way |

The invariants of the two sides are not proved again. The proofs modules of both are
instantiated, and their lemmas about a step used of the steps that the side takes here.

### Configuration

`ServerConfig_proofs` proves, for any endpoints, files, contents, settings and
length of the pipe (`ConfigAssumption`):

| theorem | says | argument |
|---|---|---|
| `AppHasFileTreeHolds`, `DerivedFollowsTreeHolds` | `Spec => []AppHasFileTree`, `Spec => []DerivedFollowsTree` | their conjunction `Follows`, kept by every command and by the monitor |
| `TreeIsFileHolds` | `Spec => []TreeIsFile` | `FileInv`, see below |
| `TypeCorrect` | `Spec => []TypeOK` | inductive with `Shape`; a LOAD binds any number of sections (`SectionsStay`) |
| `RepliesMatch` | `Spec => []RepliesMatchQuestions` | `InStep`: who the replies are for, followed by the questions still in the pipe, is `asked` |
| `PortStaysBound` | `Spec => []PortIsBound` | a bind keeps what listens (`StillBound`) and a positive port it returns is bound (`BindListens`); along all sections by `IterationStays` |

All rest on `ShapeHolds`: tree, disk, clock and pipe have their types (`PutType` for SET).
`TreeIsFile` needs one more fact, and `FileInv` adds it: the status of a settled tree
is of an earlier second than the present one. So whoever writes the file from then on
stamps it with another time, and the test sees it (`FileInvEdit`); SAVE stamps the tree
and the file alike, and leaves the tree unsettled (`FileInvSave`).

What the bind sections do, and which commands in a pipe are questions, are functions
defined by recursion over a sequence. The prover cannot instantiate an induction
theorem, for that takes an operator; `NatSetInduction` states induction for a *set*
of numbers, from the well-foundedness of `<`, and `IterationExists` and
`IterationStays` say of any such function over `0..n` that it exists and what it
keeps. `QuestionsAppend` and `QuestionsTail` follow.

### Memory

`TimelineMemory_proofs` proves, for any sizes and bounds (`MemoryAssumption`):

| theorem | says |
|---|---|
| `TypeCorrect` | `Spec => []TypeOK` |
| `NothingDeadIsTouched` | `Spec => []NoFault` |
| `BlocksHaveOneOwner` | `Spec => []SingleOwner` |
| `NothingElseLeaks` | `Spec => []OnlyEmptyArraysLeak` |

The argument follows the code, function by function. `InOrder(h, R)` says of a heap `h`
and the set `R` of the pointers into it from outside: blocks have the fields of their
kind; outside pointers and fields point to live blocks, no two to the same one; what
nothing points to is an empty array. Three lemmas say how that changes: `PutKeepsOrder`
(a block is allocated or rewritten: what it held goes to the outside, what it holds
comes from there), `FreeKeepsOrder` (a block that holds nothing and is held by the
outside goes), `EmptyArrayMayLeak`. Each function of the two classes gets a lemma with
the effect on `R` that its contract has: `SetChunkKeepsOrder` takes the chunk from the
outside, `EncodeKeepsOrder` leaves `R` as it is, `DupCodecKeepsOrder` adds the
duplicate. In the middle of a destructor fields dangle, so the heap is in order only but
for one block; `EmptiedAt` says that. `IInv` is `InOrder(heap, Roots)` with `Roots` the
variables of both threads, the pipe and the dropped commands, no two of them alike
(`Apart`), and one lemma per action keeps it. That malloc returns a place that is free
is proved too, from the heap being finite (`FreshIsFree`).

### Model-checked only

Liveness and everything with fairness, which the prover does not reach: `MessagesAreRead`,
`DepartedAreForgotten`, `TermEndsServer`, `AskedIsAnswered` and
`DestroyReturnsWhileAlive`; and that the four findings are violations. No safety
property of a passing run is left without a theorem.

## 6. Not modelled, and the plan

Not modelled for good: printing and logging, the printable reason, octets and
byte order, selftest drivers, build files, and the notes in `doc/`, which
describe programs that are not in this tree. Wakeup events, reference counts,
zombies and broadcast of the server's engine, and heartbeat, expiry and wakeup timers
of the client's, are functions for an application's own actions; the actions of this
tree call none of them (only `s_satisfy_pedantic_compilers` names them), so there is
no behaviour of theirs to model. The Zyre peer template generates an actor from a
machine that is not in the tree.

Left to do: a proof of the steps that the liveness properties rest on (a message ahead
in an inbox is read, a due ticket is taken), as far as that goes without fairness; and
the composition of `ServerConfig` with `DaxTimelineServer`, which share the actor's pipe
and `timeout`.
