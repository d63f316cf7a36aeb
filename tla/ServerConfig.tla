---------------------------- MODULE ServerConfig ----------------------------
(***************************************************************************)
(* How the timeline server is configured while it runs: the commands BIND, *)
(* BIND PUB, PORT, LOAD (CONFIGURE), SAVE, SET and VERBOSE in its pipe,    *)
(* the configuration tree they work on, the file the tree was loaded from  *)
(* and the monitor that reloads it, and what is derived from the tree: the *)
(* client timeout, the verbose flag, the bound endpoints, the port, and    *)
(* the pointer to the tree that the application context server_t keeps.    *)
(* What the server does for its peers is in DaxTimelineServer.             *)
(***************************************************************************)
EXTENDS Integers, Sequences

CONSTANTS NULL,
          ANY,          \* the endpoint that asks for an ephemeral port
          Port,         \* Port[e]: what zsock_bind returns for endpoint e
          InUse,        \* endpoints bound by other processes
          Files,        \* configuration files
          Written,      \* what others write into them; NULL is unreadable
          Sizes,        \* how many octets a file may have
          Settings,     \* what the caller may SET: [path |-> ., value |-> .]
          MaxTime,      \* bound: the last second of the clock
          MaxPipe       \* bound: commands in the pipe, replies not yet read

Endpoints == DOMAIN Port

\* The part of the tree that something reads.
Options == [verbose  : BOOLEAN,                 \* server/verbose
            timeout  : Nat \cup {NULL},         \* server/timeout, or not there
            binds    : Seq(Endpoints \cup {ANY})] \* dax_timeline_server/bind
Setting ==      [path : {"server/verbose"}, value : BOOLEAN]
           \cup [path : {"server/timeout"}, value : Nat]
           \cup [path : {"server/animate"}, value : BOOLEAN]
           \cup [path : {"bind/endpoint"},  value : Endpoints \cup {ANY}]

ASSUME ConfigAssumption ==
    /\ Port \in [Endpoints -> Nat]
    /\ ANY \notin Endpoints
    /\ InUse \subseteq Endpoints
    /\ NULL \notin Files /\ NULL \notin Nat /\ NULL \notin Options
    /\ Written \subseteq Options \cup {NULL}
    /\ Sizes \subseteq Nat /\ Sizes # {}
    /\ Settings \subseteq Setting
    /\ MaxTime \in Nat
    /\ MaxPipe \in Nat \ {0}

VARIABLES
    config,     \* s_server_t.config: options, its file and what is known of it
    appConfig,  \* server_t.config: "current", or "freed" if it dangles
    verbose,    \* s_server_t.verbose
    timeout,    \* s_server_t.timeout
    port,       \* s_server_t.port
    bound,      \* bound[e]: which socket is bound to e
    pipe,       \* commands on their way to the actor
    replies,    \* replies on their way to the caller
    asked,      \* history: what the caller asked and has no reply to yet
    disk,       \* disk[f]: the options in f, NULL if f cannot be read; its status
    now,        \* the clock by which files are stamped, in seconds
    running     \* the reactor runs

derived == <<verbose, timeout, port, bound>>
vars == <<config, appConfig, derived, pipe, replies, asked, disk, now,
          running>>

Question == {"PORT", "BIND PUB"}

Command ==      [method : {"BIND", "BIND PUB"}, endpoint : Endpoints \cup {ANY}]
           \cup [method : {"LOAD", "SAVE"}, file : Files]
           \cup [method : {"SET"}, setting : Settings]
           \cup [method : {"PORT", "VERBOSE", "NEW TIMELINE", "$TERM"}]

\* What the file system has of a file, by zfile.
Stored == [options : Options \cup {NULL},
           time    : Nat,               \* of the last write, st_mtime
           size    : Nat]               \* st_size

Tree == [options : Options,
         file    : Files \cup {NULL},
         time    : Nat,                 \* zfile's "modified" and "cursize": the
         size    : Nat,                 \* file's status when it was last taken
         settled : BOOLEAN,             \* history: taken after the second of
                                        \* the file's last write
         unsaved : BOOLEAN]             \* history: SET since load or save

TypeOK ==
    /\ config \in Tree
    /\ appConfig \in {"current", "freed"}
    /\ verbose \in BOOLEAN
    /\ timeout \in Nat
    /\ port \in Nat \cup {-1}
    /\ bound \in [Endpoints -> {"free", "router", "pub", "other"}]
    /\ pipe \in Seq(Command)
    /\ replies \in Seq([to : Question, port : Nat \cup {-1}])
    /\ asked \in Seq(Question)
    /\ disk \in [Files -> Stored]
    /\ now \in Nat
    /\ running \in BOOLEAN

-----------------------------------------------------------------------------
(* The tree and what is derived from it. *)

Empty == [options |-> [verbose |-> FALSE, timeout |-> NULL, binds |-> <<>>],
          file |-> NULL, time |-> 0, size |-> 0, settled |-> FALSE,
          unsaved |-> FALSE]

Readable(f) == disk[f].options # NULL

\* Mutant: options the file does not have are kept.
LoadedOver(f) == [options |-> [disk[f].options EXCEPT
                      !.timeout = IF @ = NULL THEN config.options.timeout ELSE @],
                  file |-> f, time |-> disk[f].time, size |-> disk[f].size,
                  settled |-> disk[f].time < now, unsaved |-> FALSE]

\* zconfig_load of a file that reads: the options and the file's status.
Loaded(f) == [options |-> disk[f].options, file |-> f,
              time |-> disk[f].time, size |-> disk[f].size,
              settled |-> disk[f].time < now, unsaved |-> FALSE]

\* Mutant: no default.
TimeoutOfTree(options) == options.timeout

TimeoutOf(options) == IF options.timeout = NULL THEN 60000 ELSE options.timeout

\* Mutant: the tree is not asked about verbose.
ConfigGlobalTimeout(options, flag) ==
    /\ verbose' = flag
    /\ timeout' = TimeoutOf(options)

\* s_server_config_global, given the verbose flag so far.
ConfigGlobal(options, flag) ==
    /\ verbose' = (flag \/ options.verbose)
    /\ timeout' = TimeoutOf(options)

\* Where zsock_bind can bind e.  What has no port is an ipc path, which is
\* unlinked and bound afresh, whoever had it.
Bindable(there, e) ==
    IF e = ANY THEN {x \in Endpoints : there.bound[x] = "free" /\ Port[x] > 0}
    ELSE {x \in Endpoints : x = e /\ (there.bound[x] = "free" \/ Port[x] = 0)}

\* Mutant: the port asked for is remembered, whether or not it was got.
BindAsked(there, socket, e) ==
    IF Bindable(there, e) = {}
    THEN {[there EXCEPT !.port = IF e = ANY THEN -1 ELSE Port[e]]}
    ELSE {[port |-> Port[x], bound |-> [there.bound EXCEPT ![x] = socket]] :
              x \in Bindable(there, e)}

\* zsock_bind: the [port, bound] it may lead to from there.
Bind(there, socket, e) ==
    IF Bindable(there, e) = {} THEN {[there EXCEPT !.port = -1]}
    ELSE {[port |-> Port[x], bound |-> [there.bound EXCEPT ![x] = socket]] :
              x \in Bindable(there, e)}

\* The bind sections, one after the other.  One that names no endpoint fails
\* like one whose endpoint is in use.
BindSections(binds) ==
    LET reached[n \in 0 .. Len(binds)] ==
            IF n = 0 THEN {[port |-> port, bound |-> bound]}
            ELSE UNION {Bind(t, "router", binds[n]) : t \in reached[n - 1]}
    IN  reached[Len(binds)]

\* s_server_config_service.
ConfigService(options) ==
    /\ \E t \in BindSections(options.binds) : port' = t.port /\ bound' = t.bound
    /\ ConfigGlobal(options, verbose)

\* Mutant: the application is not told.
InstallQuietly(f) == /\ config' = Loaded(f)
                     /\ ConfigService(disk[f].options)
                     /\ appConfig' = "freed"

\* A tree read from f takes the place of the one there was, is applied, and is
\* handed to the application.
Install(f) == /\ config' = Loaded(f)
              /\ ConfigService(disk[f].options)
              /\ appConfig' = "current"

\* s_server_new, server_initialize.
Init ==
    /\ config = Empty
    /\ appConfig = "current"
    /\ verbose = FALSE
    /\ timeout = TimeoutOf(Empty.options)
    /\ port = 0
    /\ bound = [e \in Endpoints |-> IF e \in InUse THEN "other" ELSE "free"]
    /\ pipe = <<>>
    /\ replies = <<>>
    /\ asked = <<>>
    /\ disk \in [Files -> [options : Written, time : {0}, size : Sizes]]
    /\ now = 0
    /\ running = TRUE

-----------------------------------------------------------------------------
(* The caller, and whoever writes the files. *)

CallerSends ==
    /\ running
    /\ Len(pipe) + Len(replies) < MaxPipe
    /\ \E c \in Command :
          /\ pipe' = Append(pipe, c)
          /\ asked' = IF c.method \in Question THEN Append(asked, c.method)
                      ELSE asked
    /\ UNCHANGED <<config, appConfig, derived, replies, disk, now, running>>

CallerReads ==
    /\ replies # <<>>
    /\ replies' = Tail(replies)
    /\ asked' = Tail(asked)
    /\ UNCHANGED <<config, appConfig, derived, pipe, disk, now, running>>

\* Others write the file: with whatever contents and size, at this second.
Edit(f) ==
    /\ running
    /\ \E written \in [options : Written, time : {now}, size : Sizes] :
          disk' = [disk EXCEPT ![f] = written]
    /\ UNCHANGED <<config, appConfig, derived, pipe, replies, asked, now, running>>

Tick ==
    /\ running
    /\ now < MaxTime
    /\ now' = now + 1
    /\ UNCHANGED <<config, appConfig, derived, pipe, replies, asked, disk, running>>

-----------------------------------------------------------------------------
(* The actor: s_server_handle_pipe, server_method, s_watch_server_config.  *)

Take(method) == /\ running
                /\ pipe # <<>>
                /\ Head(pipe).method = method
                /\ pipe' = Tail(pipe)
                /\ UNCHANGED <<asked, now>>

HandleVerbose ==
    /\ Take("VERBOSE")
    /\ verbose' = TRUE
    /\ UNCHANGED <<config, appConfig, timeout, port, bound, replies, disk, running>>

HandleBind ==
    /\ Take("BIND")
    /\ \E t \in Bind([port |-> port, bound |-> bound], "router",
                     Head(pipe).endpoint) : port' = t.port /\ bound' = t.bound
    /\ UNCHANGED <<config, appConfig, verbose, timeout, replies, disk, running>>

HandlePort ==
    /\ Take("PORT")
    /\ replies' = Append(replies, [to |-> "PORT", port |-> port])
    /\ UNCHANGED <<config, appConfig, derived, disk, running>>

\* Mutant: only a success is reported.
BindPubReplySuccess(n) ==
    IF n < 0 THEN replies ELSE Append(replies, [to |-> "BIND PUB", port |-> n])

\* server_method: the endpoint, or FAILURE and the port.
BindPubReply(n) == Append(replies, [to |-> "BIND PUB", port |-> n])

\* BIND PUB answers and returns; the publishing of the current timeline that
\* is written behind the return never happens.
HandleBindPub ==
    /\ Take("BIND PUB")
    /\ \E t \in Bind([port |-> port, bound |-> bound], "pub",
                     Head(pipe).endpoint) :
          /\ bound' = t.bound
          /\ replies' = BindPubReply(t.port)
    /\ UNCHANGED <<config, appConfig, verbose, timeout, port, disk, running>>

\* NEW TIMELINE, or a method the server does not have: no reply.
HandleMethod ==
    /\ Take("NEW TIMELINE")
    /\ UNCHANGED <<config, appConfig, derived, replies, disk, running>>

\* A file that cannot be read leaves a new, empty tree, which is neither
\* applied nor handed to the application.
HandleLoad ==
    /\ Take("LOAD")
    /\ IF Readable(Head(pipe).file) THEN Install(Head(pipe).file)
       ELSE /\ config' = Empty
            /\ appConfig' = "freed"
            /\ UNCHANGED derived
    /\ UNCHANGED <<replies, disk, running>>

\* zconfig_put.
Put(options, s) ==
    IF s.path = "server/verbose" THEN [options EXCEPT !.verbose = s.value]
    ELSE IF s.path = "server/timeout" THEN [options EXCEPT !.timeout = s.value]
    ELSE IF s.path = "bind/endpoint" THEN [options EXCEPT
             !.binds = IF @ = <<>> THEN <<s.value>> ELSE [@ EXCEPT ![1] = s.value]]
    ELSE options  \* server/animate

HandleSet ==
    /\ Take("SET")
    /\ LET s == Head(pipe).setting
           options == Put(config.options, s)
       IN  /\ config' = [config EXCEPT !.options = options, !.unsaved = TRUE]
           /\ ConfigGlobal(options, IF s.path = "server/animate" THEN s.value
                                    ELSE verbose)
    /\ UNCHANGED <<appConfig, port, bound, replies, disk, running>>

\* zconfig_save writes the file and, if it is the one the tree came from, takes
\* its new status; it may fail, which nobody is told.
HandleSave ==
    /\ Take("SAVE")
    /\ LET f == Head(pipe).file
       IN  \/ \E saved \in [options : {config.options}, time : {now}, size : Sizes] :
                 /\ disk' = [disk EXCEPT ![f] = saved]
                 /\ config' = IF f # config.file THEN config
                              ELSE [config EXCEPT !.time = now,
                                                  !.size = saved.size,
                                                  !.settled = FALSE,
                                                  !.unsaved = FALSE]
           \/ UNCHANGED <<disk, config>>
    /\ UNCHANGED <<appConfig, derived, replies, running>>

\* $TERM: the reactor ends, tree and sockets are freed; what else is in the
\* pipe is never read.
HandleTerm ==
    /\ Take("$TERM")
    /\ running' = FALSE
    /\ config' = Empty
    /\ bound' = [e \in Endpoints |-> IF bound[e] = "other" THEN "other" ELSE "free"]
    /\ UNCHANGED <<appConfig, verbose, timeout, port, replies, disk>>

HandlePipe == \/ HandleVerbose \/ HandleBind \/ HandlePort \/ HandleBindPub
              \/ HandleMethod \/ HandleLoad \/ HandleSet \/ HandleSave
              \/ HandleTerm

\* Mutant: the time is not looked at.
ChangedSize(tree) == disk[tree.file].size # tree.size

\* zconfig_has_changed: the file's time, in seconds, or its size is another one.
Changed(tree) == \/ disk[tree.file].time # tree.time
                 \/ disk[tree.file].size # tree.size

\* The tree came from a file, which changed and can be read; if it cannot, the
\* tree stays, to be tried again.
ReloadDue == config.file # NULL /\ Changed(config) /\ Readable(config.file)

\* Once a second.
WatchConfig ==
    /\ running
    /\ ReloadDue
    /\ Install(config.file)
    /\ UNCHANGED <<pipe, replies, asked, disk, now, running>>

\* The actor has returned.
Ended == ~running /\ UNCHANGED vars

Next == \/ CallerSends
        \/ CallerReads
        \/ \E f \in Files : Edit(f)
        \/ Tick
        \/ HandlePipe
        \/ WatchConfig
        \/ Ended

Spec == Init /\ [][Next]_vars

-----------------------------------------------------------------------------
(* Properties. *)

QuestionsIn(commands) ==
    LET among[n \in 0 .. Len(commands)] ==
            IF n = 0 THEN <<>>
            ELSE IF commands[n].method \in Question
                 THEN Append(among[n - 1], commands[n].method)
                 ELSE among[n - 1]
    IN  among[Len(commands)]

\* A caller that asks again before it reads finds the replies in step with its
\* questions: PORT and BIND PUB send one reply each, failures included, and no
\* other command sends any, whatever is loaded or reloaded in between.
RepliesMatchQuestions ==
    running => [i \in DOMAIN replies |-> replies[i].to] \o QuestionsIn(pipe)
                   = asked

Listening(n) == \E e \in Endpoints : bound[e] = "router" /\ Port[e] = n

\* A positive port, remembered or told, is one the ROUTER listens on: never
\* that of the PUB socket, nor one a bind section or command asked for in vain.
PortIsBound ==
    running => /\ port > 0 => Listening(port)
               /\ \A i \in DOMAIN replies :
                     replies[i].to = "PORT" /\ replies[i].port > 0
                         => Listening(replies[i].port)

\* The application's pointer dangles only after a LOAD that failed: whenever
\* the tree came from a file, by LOAD or by the monitor, and through every SET
\* and SAVE since, the application has that tree.
AppHasFileTree == running /\ config.file # NULL => appConfig = "current"

\* What the server goes by is what its tree says: the timeout is the tree's,
\* unless the tree is the empty one of a failed LOAD; and verbose is on if the
\* tree wants it on, though SET server/animate can turn the flag off.
DerivedFollowsTree ==
    running => /\ timeout # TimeoutOf(config.options) =>
                      config.file = NULL /\ appConfig = "freed"
               /\ config.options.verbose => verbose

\* The monitor compares times in seconds, and sizes.  If the file had rested
\* for a second when its status was taken, that is enough: as long as the test
\* says "unchanged" and nothing was SET, tree and file agree, whichever of load,
\* reload, save, edits by others and times at which the file could not be read
\* came last.  A file that was read in the second in which it was written may be
\* written again in that second, to the same size, and nobody notices.
TreeIsFile ==
    config.file # NULL /\ config.settled /\ ~config.unsaved =>
        Changed(config) \/ ~Readable(config.file)
            \/ config.options = disk[config.file].options
=============================================================================
