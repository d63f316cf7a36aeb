------------------------- MODULE ServerConfig_proofs ------------------------
(***************************************************************************)
(* Theorems about ServerConfig, for any endpoints, files, settings and     *)
(* bounds: the application's pointer, the derived values and the file      *)
(* follow the configuration tree, types are kept, replies stay in step     *)
(* with questions, and the port is one the ROUTER listens on.              *)
(***************************************************************************)
EXTENDS ServerConfig, WellFoundedInduction, TLAPS

\* What the invariants need of the types: of the tree, of the files and of the
\* commands that name them, and of the clock.
Shape ==
    /\ config \in Tree
    /\ disk \in [Files -> Stored]
    /\ now \in Nat
    /\ pipe \in Seq(Command)

\* Putting a setting into options gives options.
LEMMA PutType == ASSUME NEW o \in Options, NEW s \in Setting
                 PROVE  Put(o, s) \in Options
<1>1. CASE s.path = "server/verbose"
  BY <1>1 DEF Put, Options, Setting
<1>2. CASE s.path = "server/timeout"
  BY <1>2 DEF Put, Options, Setting
<1>3. CASE s.path = "server/animate"
  BY <1>3 DEF Put, Options, Setting
<1>4. CASE s.path = "bind/endpoint"
  <2>1. s.value \in Endpoints \cup {ANY}
    BY <1>4 DEF Setting
  <2>2. <<s.value>> \in Seq(Endpoints \cup {ANY})
    BY <2>1
  <2>3. o.binds # <<>> => [o.binds EXCEPT ![1] = s.value]
                              \in Seq(Endpoints \cup {ANY})
    BY <2>1 DEF Options
  <2> QED
    BY <1>4, <2>2, <2>3 DEF Put, Options
<1> QED
  BY <1>1, <1>2, <1>3, <1>4 DEF Setting

\* What others write is a file.
LEMMA WrittenIsStored ==
  ASSUME NEW n \in Nat
  PROVE  [options : Written, time : {n}, size : Sizes] \subseteq Stored
BY ConfigAssumption DEF Stored

\* The shape is kept.
THEOREM ShapeHolds == Spec => []Shape
<1>1. Init => Shape
  <2> SUFFICES ASSUME Init PROVE Shape
    OBVIOUS
  <2>1. Empty \in Tree
    BY DEF Empty, Options, Tree
  <2>2. [options : Written, time : {0}, size : Sizes] \subseteq Stored
    BY WrittenIsStored
  <2> QED
    BY <2>1, <2>2 DEF Init, Shape
<1>2. Shape /\ [Next]_vars => Shape'
  <2> SUFFICES ASSUME Shape, [Next]_vars PROVE Shape'
    OBVIOUS
  <2> USE DEF Shape
  <2>e. Empty \in Tree
    BY DEF Empty, Options, Tree
  <2>i. \A f \in Files : Readable(f) => Loaded(f) \in Tree /\ Loaded(f).file = f
    BY DEF Loaded, Readable, Stored, Tree
  <2>p. ASSUME pipe # <<>>, pipe' = Tail(pipe)
        PROVE  Head(pipe) \in Command /\ pipe' \in Seq(Command)
    BY <2>p
  <2>1. CASE CallerSends
    BY <2>1 DEF CallerSends
  <2>2. CASE CallerReads \/ Tick
    BY <2>2 DEF CallerReads, Tick, derived
  <2>3. ASSUME NEW f \in Files, Edit(f) PROVE Shape'
    <3>1. [options : Written, time : {now}, size : Sizes] \subseteq Stored
      BY WrittenIsStored
    <3> QED
      BY <2>3, <3>1 DEF Edit
  <2>4. CASE HandleVerbose \/ HandleBind \/ HandlePort \/ HandleBindPub \/ HandleMethod
    BY <2>4, <2>p DEF HandleVerbose, HandleBind, HandlePort, HandleBindPub,
                      HandleMethod, Take, derived
  <2>5. CASE HandleLoad
    <3>1. Head(pipe).file \in Files
      BY <2>5, <2>p DEF HandleLoad, Take, Command
    <3> QED
      BY <2>5, <2>p, <2>e, <2>i, <3>1 DEF HandleLoad, Take, Install
  <2>6. CASE HandleSet
    <3>1. Head(pipe).setting \in Setting
      BY <2>6, <2>p, ConfigAssumption DEF HandleSet, Take, Command
    <3>2. Put(config.options, Head(pipe).setting) \in Options
      BY <3>1, PutType DEF Tree
    <3> QED
      BY <2>6, <2>p, <3>2 DEF HandleSet, Take, Tree
  <2>7. CASE HandleSave
    <3>1. [options : {config.options}, time : {now}, size : Sizes] \subseteq Stored
      BY ConfigAssumption DEF Stored, Tree
    <3>2. ASSUME NEW n \in Nat
          PROVE  [config EXCEPT !.time = now, !.size = n, !.settled = FALSE,
                                !.unsaved = FALSE] \in Tree
      BY <3>2 DEF Tree
    <3>3. \A saved \in Stored : saved.size \in Nat
      BY DEF Stored
    <3>4. config' \in Tree /\ disk' \in [Files -> Stored]
      BY <2>7, <3>1, <3>2, <3>3 DEF HandleSave
    <3> QED
      BY <2>7, <2>p, <3>4 DEF HandleSave, Take
  <2>8. CASE HandleTerm
    BY <2>8, <2>p, <2>e DEF HandleTerm, Take
  <2>9. CASE WatchConfig
    <3>1. config.file \in Files
      BY <2>9 DEF WatchConfig, ReloadDue, Tree
    <3> QED
      BY <2>9, <2>i, <3>1 DEF WatchConfig, ReloadDue, Install
  <2>10. CASE UNCHANGED vars
    BY <2>10 DEF vars
  <2> QED
    BY <2>1, <2>2, <2>3, <2>4, <2>5, <2>6, <2>7, <2>8, <2>9, <2>10
    DEF Next, HandlePipe, Ended
<1> QED
  BY <1>1, <1>2, PTL DEF Spec

-----------------------------------------------------------------------------
(* What the application and the server go by follows the tree. *)

\* The invariant behind the first two properties is their conjunction: each
\* step keeps it by itself.
Follows == AppHasFileTree /\ DerivedFollowsTree

\* Whatever is loaded, reloaded, set, saved or edited, in any order, the
\* application's pointer is good while the tree is a file's, and the timeout
\* and the verbose flag are those of the tree, unless a LOAD has failed.
THEOREM FollowsHolds == Spec => []Follows
<1>1. Init => Follows
  BY DEF Init, Follows, AppHasFileTree, DerivedFollowsTree, Empty
<1>2. Shape /\ Follows /\ [Next]_vars => Follows'
  <2> SUFFICES ASSUME Shape, Follows, [Next]_vars PROVE Follows'
    OBVIOUS
  <2> USE DEF Follows, AppHasFileTree, DerivedFollowsTree, derived
  <2>i. ASSUME NEW f, Install(f) PROVE Follows'
    BY <2>i DEF Install, ConfigService, ConfigGlobal, Loaded
  <2>1. CASE CallerSends
    BY <2>1 DEF CallerSends
  <2>2. CASE CallerReads \/ Tick
    BY <2>2 DEF CallerReads, Tick
  <2>3. ASSUME NEW f \in Files, Edit(f) PROVE Follows'
    BY <2>3 DEF Edit
  <2>4. CASE HandleVerbose \/ HandleBind \/ HandlePort \/ HandleBindPub \/ HandleMethod
    BY <2>4 DEF HandleVerbose, HandleBind, HandlePort, HandleBindPub,
                HandleMethod, Take
  <2>5. CASE HandleLoad
    <3>1. Empty.file = NULL /\ ~Empty.options.verbose
      BY DEF Empty
    <3> QED
      BY <2>5, <2>i, <3>1 DEF HandleLoad, Take
  <2>6. CASE HandleSet
    <3> DEFINE s == Head(pipe).setting
               options == Put(config.options, s)
    <3>1. config'.options = options /\ config'.file = config.file
      BY <2>6 DEF HandleSet, Shape, Tree
    <3>2. timeout' = TimeoutOf(options) /\ (options.verbose => verbose')
      BY <2>6 DEF HandleSet, ConfigGlobal
    <3>3. appConfig' = appConfig /\ running' = running
      BY <2>6 DEF HandleSet
    <3> QED
      BY <3>1, <3>2, <3>3
  <2>7. CASE HandleSave
    <3>1. config'.options = config.options /\ config'.file = config.file
      BY <2>7 DEF HandleSave, Shape, Tree
    <3> QED
      BY <2>7, <3>1 DEF HandleSave, Take
  <2>8. CASE HandleTerm
    BY <2>8 DEF HandleTerm
  <2>9. CASE WatchConfig
    BY <2>9, <2>i DEF WatchConfig
  <2>10. CASE UNCHANGED vars
    BY <2>10 DEF vars
  <2> QED
    BY <2>1, <2>2, <2>3, <2>4, <2>5, <2>6, <2>7, <2>8, <2>9, <2>10
    DEF Next, HandlePipe, Ended
<1> QED
  BY <1>1, <1>2, ShapeHolds, PTL DEF Spec

\* The application never holds a freed tree while the server's is a file's.
THEOREM AppHasFileTreeHolds == Spec => []AppHasFileTree
<1>1. Follows => AppHasFileTree
  BY DEF Follows
<1> QED
  BY <1>1, FollowsHolds, PTL

\* The timeout and the verbose flag are the tree's, but after a failed LOAD.
THEOREM DerivedFollowsTreeHolds == Spec => []DerivedFollowsTree
<1>1. Follows => DerivedFollowsTree
  BY DEF Follows
<1> QED
  BY <1>1, FollowsHolds, PTL

-----------------------------------------------------------------------------
(* Tree and file. *)

\* The inductive form of TreeIsFile: a status taken when the file had rested is
\* of an earlier second, so whatever is written from now on has another time.
FileInv == /\ TreeIsFile
           /\ config.file # NULL /\ config.settled => config.time < now

\* Nothing but time passes.
LEMMA FileInvKept ==
  ASSUME Shape, FileInv, UNCHANGED <<config, disk>>, now' \in Nat, now' >= now
  PROVE  FileInv'
<1>1. TreeIsFile'
  BY DEF FileInv, TreeIsFile, Changed, Readable
<1>2. config.time \in Nat /\ now \in Nat
  BY DEF Shape, Tree
<1> QED
  BY <1>1, <1>2 DEF FileInv

\* Others write a file.
LEMMA FileInvEdit ==
  ASSUME Shape, FileInv, NEW f \in Files, Edit(f) PROVE FileInv'
<1>1. PICK written \in [options : Written, time : {now}, size : Sizes] :
             disk' = [disk EXCEPT ![f] = written]
  BY DEF Edit
<1>2. UNCHANGED <<config, now>>
  BY DEF Edit
<1>3. disk'[f].time = now /\ \A g \in Files : g # f => disk'[g] = disk[g]
  BY <1>1 DEF Shape
<1>4. config.file \in Files \cup {NULL} /\ config.time \in Nat /\ now \in Nat
  BY DEF Shape, Tree
<1>5. CASE config.file = f /\ config.settled
  <2>1. disk'[config.file].time # config.time
    BY <1>3, <1>4, <1>5, ConfigAssumption DEF FileInv
  <2> QED
    BY <1>2, <2>1 DEF FileInv, TreeIsFile, Changed
<1>6. CASE config.file # f \/ ~config.settled
  BY <1>2, <1>3, <1>4, <1>6 DEF FileInv, TreeIsFile, Changed, Readable
<1> QED
  BY <1>5, <1>6

\* The server saves the tree.
LEMMA FileInvSave == ASSUME Shape, FileInv, HandleSave PROVE FileInv'
<1> DEFINE f == Head(pipe).file
<1>1. now' = now /\ config.file \in Files \cup {NULL}
  BY DEF HandleSave, Take, Shape, Tree
<1>2. CASE UNCHANGED <<disk, config>>
  BY <1>1, <1>2, FileInvKept DEF Shape
<1>3. ASSUME NEW saved, disk' = [disk EXCEPT ![f] = saved], f # config.file,
             config' = config
      PROVE  FileInv'
  <2>1. \A g \in Files : g # f => disk'[g] = disk[g]
    BY <1>3 DEF Shape
  <2> QED
    BY <1>1, <1>3, <2>1 DEF FileInv, TreeIsFile, Changed, Readable
<1>4. ASSUME NEW saved,
             config' = [config EXCEPT !.time = now, !.size = saved.size,
                                      !.settled = FALSE, !.unsaved = FALSE]
      PROVE  FileInv'
  <2>1. config'.settled = FALSE
    BY <1>4 DEF Shape, Tree
  <2> QED
    BY <2>1 DEF FileInv, TreeIsFile
<1> HIDE DEF f
<1>5. \/ \E saved : /\ disk' = [disk EXCEPT ![f] = saved]
                    /\ config' = IF f # config.file THEN config
                                 ELSE [config EXCEPT !.time = now,
                                                     !.size = saved.size,
                                                     !.settled = FALSE,
                                                     !.unsaved = FALSE]
      \/ UNCHANGED <<disk, config>>
  BY DEF HandleSave, f
<1> QED
  BY <1>2, <1>3, <1>4, <1>5

\* The monitor's test is sound for a file that had rested for a second when it
\* was loaded: unless the test finds the file changed, or the file cannot be
\* read, a tree in which nothing was SET since is what the file says.
THEOREM TreeIsFileHolds == Spec => []TreeIsFile
<1>1. Init => FileInv
  BY DEF Init, FileInv, TreeIsFile, Empty
<1>2. Shape /\ FileInv /\ [Next]_vars => FileInv'
  <2> SUFFICES ASSUME Shape, FileInv, [Next]_vars PROVE FileInv'
    OBVIOUS
  <2>n. now \in Nat
    BY DEF Shape
  <2>k. ASSUME UNCHANGED <<config, disk, now>> PROVE FileInv'
    BY <2>k, <2>n, FileInvKept
  <2>i. ASSUME NEW f, Install(f), UNCHANGED <<disk, now>> PROVE FileInv'
    <3>1. /\ config'.options = disk[f].options /\ config'.file = f
          /\ config'.time = disk[f].time
          /\ config'.settled = (disk[f].time < now)
      BY <2>i DEF Install, Loaded
    <3> QED
      BY <2>i, <3>1 DEF FileInv, TreeIsFile
  <2>e. ASSUME config' = Empty PROVE FileInv'
    BY <2>e DEF Empty, FileInv, TreeIsFile
  <2>1. CASE CallerSends \/ CallerReads
    BY <2>1, <2>k DEF CallerSends, CallerReads
  <2>2. CASE Tick
    <3>1. now' \in Nat /\ now' >= now /\ UNCHANGED <<config, disk>>
      BY <2>2, <2>n DEF Tick
    <3> QED
      BY <3>1, FileInvKept
  <2>3. ASSUME NEW f \in Files, Edit(f) PROVE FileInv'
    BY <2>3, FileInvEdit
  <2>4. CASE HandleVerbose \/ HandleBind \/ HandlePort \/ HandleBindPub \/ HandleMethod
    BY <2>4, <2>k DEF HandleVerbose, HandleBind, HandlePort, HandleBindPub,
                      HandleMethod, Take
  <2>5. CASE HandleLoad
    BY <2>5, <2>i, <2>e DEF HandleLoad, Take
  <2>6. CASE HandleSet
    <3>1. config'.unsaved /\ UNCHANGED <<disk, now>>
          /\ config'.file = config.file /\ config'.time = config.time
          /\ config'.settled = config.settled
      BY <2>6 DEF HandleSet, Take, Shape, Tree
    <3> QED
      BY <3>1 DEF FileInv, TreeIsFile
  <2>7. CASE HandleSave
    BY <2>7, FileInvSave
  <2>8. CASE HandleTerm
    BY <2>8, <2>e DEF HandleTerm
  <2>9. CASE WatchConfig
    BY <2>9, <2>i DEF WatchConfig
  <2>10. CASE UNCHANGED vars
    BY <2>10, <2>k DEF vars
  <2> QED
    BY <2>1, <2>2, <2>3, <2>4, <2>5, <2>6, <2>7, <2>8, <2>9, <2>10
    DEF Next, HandlePipe, Ended
<1>3. FileInv => TreeIsFile
  BY DEF FileInv
<1> QED
  BY <1>1, <1>2, <1>3, ShapeHolds, PTL DEF Spec
-----------------------------------------------------------------------------
(* Induction over numbers, and functions defined by iteration, for the bind *)
(* sections of a tree and the commands in a pipe.                           *)

\* A set of numbers that holds zero and every successor holds them all.
LEMMA NatSetInduction ==
    ASSUME NEW T \in SUBSET Nat, 0 \in T, \A n \in T : n + 1 \in T
    PROVE  T = Nat
<1> DEFINE Rest == Nat \ T
           Less == OpToRel(<, Nat)
<1> SUFFICES ASSUME Rest # {} PROVE FALSE
  OBVIOUS
<1>1. \E x \in Rest : \A y \in Rest : <<y, x>> \notin Less
  <2> HIDE DEF Less
  <2>1. IsWellFoundedOn(Less, Nat)
    BY NatLessThanWellFounded DEF Less
  <2>2. Rest \subseteq Nat
    OBVIOUS
  <2> QED
    BY <2>1, <2>2, WFMin
<1>2. PICK x \in Rest : \A y \in Rest : <<y, x>> \notin Less
  BY <1>1
<1>3. x # 0 /\ x - 1 \in Nat /\ x - 1 \notin T
  <2>1. x \in Nat /\ x # 0
    OBVIOUS
  <2>2. x - 1 \in Nat /\ (x - 1) + 1 = x
    BY <2>1
  <2> QED
    BY <2>1, <2>2
<1>4. <<x - 1, x>> \in Less
  <2>1. x - 1 < x
    BY <1>3
  <2> QED
    BY <1>3, <2>1 DEF OpToRel
<1> QED
  BY <1>2, <1>3, <1>4

\* f is what the steps make of base, one after the other.
Iterates(f, n, base, step) ==
    f[0] = base /\ \A i \in 1..n : f[i] = step[i][f[i - 1]]

Iterable(n, S, base, step) == \E f \in [0..n -> S] : Iterates(f, n, base, step)

\* There is such an f.
LEMMA IterationExists ==
    ASSUME NEW n \in Nat, NEW S, NEW base \in S, NEW step \in [1..n -> [S -> S]]
    PROVE  Iterable(n, S, base, step)
<1> DEFINE Good(k) == \E f \in [0..k -> S] : Iterates(f, k, base, step)
           T == {k \in Nat : k <= n => Good(k)}
<1>1. Good(0)
  <2> DEFINE f == [i \in 0..0 |-> base]
  <2>1. f \in [0..0 -> S] /\ Iterates(f, 0, base, step)
    BY DEF Iterates
  <2> QED
    BY <2>1
<1>2. ASSUME NEW k \in Nat, k + 1 <= n, Good(k) PROVE Good(k + 1)
  <2>1. PICK f \in [0..k -> S] :
               f[0] = base /\ \A i \in 1..k : f[i] = step[i][f[i - 1]]
    BY <1>2 DEF Iterates
  <2> DEFINE g == [i \in 0..(k + 1) |->
                       IF i = k + 1 THEN step[k + 1][f[k]] ELSE f[i]]
  <2>2. step[k + 1] \in [S -> S]
    BY <1>2
  <2>3. g \in [0..(k + 1) -> S]
    BY <2>2
  <2>4. g[0] = base
    BY <2>1
  <2>5. ASSUME NEW i \in 1..(k + 1) PROVE g[i] = step[i][g[i - 1]]
    <3>1. CASE i = k + 1
      <4>1. g[i - 1] = f[k]
        BY <3>1
      <4> QED
        BY <3>1, <4>1
    <3>2. CASE i # k + 1
      <4>1. i \in 1..k /\ i \in 0..k /\ i - 1 \in 0..k
        BY <3>2
      <4>2. g[i] = f[i] /\ g[i - 1] = f[i - 1]
        BY <4>1
      <4> QED
        BY <4>1, <4>2, <2>1
    <3> QED
      BY <3>1, <3>2
  <2> HIDE DEF g
  <2> QED
    BY <2>3, <2>4, <2>5 DEF Iterates
<1>3. T = Nat
  <2> HIDE DEF Good
  <2>1. 0 \in T
    BY <1>1
  <2>2. ASSUME NEW k \in T PROVE k + 1 \in T
    BY <2>2, <1>2
  <2>3. T \in SUBSET Nat
    OBVIOUS
  <2> HIDE DEF T
  <2> QED
    BY <2>1, <2>2, <2>3, NatSetInduction
<1> QED
  BY <1>3 DEF Iterable

\* Where the steps lead from a set to itself they lead nowhere else.
LEMMA IterationStays ==
    ASSUME NEW n \in Nat, NEW S, NEW f, f[0] \in S,
           \A i \in 1..n : f[i - 1] \in S => f[i] \in S
    PROVE  \A i \in 0..n : f[i] \in S
<1> DEFINE T == {k \in Nat : k <= n => f[k] \in S}
<1>1. 0 \in T
  OBVIOUS
<1>2. ASSUME NEW k \in T PROVE k + 1 \in T
  <2> SUFFICES ASSUME k + 1 <= n PROVE f[k + 1] \in S
    OBVIOUS
  <2>1. k + 1 \in 1..n /\ (k + 1) - 1 = k /\ f[k] \in S
    OBVIOUS
  <2> QED
    BY <2>1
<1>3. T \in SUBSET Nat
  OBVIOUS
<1>4. T = Nat
  <2> HIDE DEF T
  <2> QED
    BY <1>1, <1>2, <1>3, NatSetInduction
<1> QED
  BY <1>4
-----------------------------------------------------------------------------
(* Binding. *)

Sockets == {"free", "router", "pub", "other"}

\* What a bind may find and leave.
Places == [port : Nat \cup {-1}, bound : [Endpoints -> Sockets]]

\* What zsock_bind leads to is of that type.
LEMMA BindType ==
    ASSUME NEW t \in Places, NEW socket \in Sockets, NEW e
    PROVE  Bind(t, socket, e) \subseteq Places
<1> DEFINE free == Bindable(t, e)
<1>0. /\ free \subseteq Endpoints
      /\ \A x \in free : t.bound[x] = "free" \/ Port[x] = 0
  BY DEF Bindable
<1>1. CASE free = {}
  <2>1. Bind(t, socket, e) = {[t EXCEPT !.port = -1]}
    BY <1>1 DEF Bind
  <2>2. [t EXCEPT !.port = -1] \in Places
    BY DEF Places
  <2> QED
    BY <2>1, <2>2
<1>2. CASE free # {}
  <2>1. Bind(t, socket, e) = {[port |-> Port[x],
                               bound |-> [t.bound EXCEPT ![x] = socket]] : x \in free}
    BY <1>2 DEF Bind
  <2>2. ASSUME NEW x \in free
        PROVE  [port |-> Port[x], bound |-> [t.bound EXCEPT ![x] = socket]] \in Places
    BY <1>0, ConfigAssumption DEF Places
  <2> QED
    BY <2>1, <2>2
<1> QED
  BY <1>1, <1>2

\* The port of t is one the ROUTER listens on there.
Listens(t) ==
    t.port > 0 => \E x \in Endpoints : t.bound[x] = "router" /\ Port[x] = t.port

\* The ports the ROUTER listens on in t it listens on in u.
StillBound(t, u) ==
    \A x \in Endpoints :
        Port[x] > 0 /\ t.bound[x] = "router" => u.bound[x] = "router"

\* A bind gives back the port it got or -1, and takes no port away.
LEMMA BindListens ==
    ASSUME NEW t \in Places, NEW socket \in Sockets, NEW e,
           NEW u \in Bind(t, socket, e)
    PROVE  /\ StillBound(t, u)
           /\ socket = "router" => Listens(u)
<1> DEFINE free == Bindable(t, e)
<1>0. /\ free \subseteq Endpoints
      /\ \A x \in free : t.bound[x] = "free" \/ Port[x] = 0
  BY DEF Bindable
<1>1. CASE free = {}
  <2>1. u = [t EXCEPT !.port = -1]
    BY <1>1 DEF Bind
  <2>2. u.port = -1 /\ u.bound = t.bound
    BY <2>1 DEF Places
  <2> QED
    BY <2>2 DEF StillBound, Listens
<1>2. CASE free # {}
  <2>1. PICK x \in free : u = [port |-> Port[x],
                               bound |-> [t.bound EXCEPT ![x] = socket]]
    BY <1>2 DEF Bind
  <2>2. u.port = Port[x] /\ u.bound = [t.bound EXCEPT ![x] = socket]
    BY <2>1
  <2>3. /\ x \in Endpoints
        /\ t.bound[x] = "free" \/ Port[x] = 0
        /\ t.bound \in [Endpoints -> Sockets]
    BY <1>0 DEF Places
  <2>4. u.bound[x] = socket /\ \A y \in Endpoints : y # x => u.bound[y] = t.bound[y]
    BY <2>2, <2>3
  <2> HIDE DEF free
  <2> QED
    BY <2>2, <2>3, <2>4 DEF StillBound, Listens
<1> QED
  BY <1>1, <1>2

\* The sections of a tree lead to where each of their binds may lead: they stay
\* in any set of places that binding the ROUTER does not leave.
LEMMA SectionsStay ==
    ASSUME NEW binds \in Seq(Endpoints \cup {ANY}), NEW K \in SUBSET Places,
           [port |-> port, bound |-> bound] \in K,
           \A t \in K, e \in Endpoints \cup {ANY} : Bind(t, "router", e) \subseteq K
    PROVE  BindSections(binds) \subseteq K
<1> DEFINE n == Len(binds)
           S == SUBSET K
           start == {[port |-> port, bound |-> bound]}
           Next1(i, R) == UNION {Bind(t, "router", binds[i]) : t \in R}
           step == [i \in 1..n |-> [R \in S |-> Next1(i, R)]]
           table(g) == [k \in 0..n |-> IF k = 0 THEN start ELSE Next1(k, g[k - 1])]
           reached == CHOOSE g : g = table(g)
<1>1. n \in Nat /\ start \in S
  OBVIOUS
<1>2. ASSUME NEW i \in 1..n, NEW R \in S PROVE Next1(i, R) \in S
  <2>1. binds[i] \in Endpoints \cup {ANY}
    OBVIOUS
  <2> QED
    BY <2>1
<1>3. PICK f \in [0..n -> S] : Iterates(f, n, start, step)
  <2>1. step \in [1..n -> [S -> S]]
    BY <1>2
  <2> HIDE DEF n, S, start, step
  <2> QED
    BY <1>1, <2>1, IterationExists DEF Iterable
<1>4. f = table(f)
  <2>1. \A i \in 1..n : f[i - 1] \in S
    OBVIOUS
  <2> HIDE DEF S, Next1, start
  <2>2. \A i \in 1..n : f[i] = Next1(i, f[i - 1])
    BY <1>3, <2>1 DEF Iterates
  <2>3. f[0] = start
    BY <1>3 DEF Iterates
  <2>4. f = [k \in 0..n |-> f[k]]
    OBVIOUS
  <2> QED
    BY <2>2, <2>3, <2>4
<1>5. reached = table(reached)
  <2> HIDE DEF table
  <2> QED
    BY <1>4
<1>6. BindSections(binds) = reached[n]
  BY DEF BindSections
<1> HIDE DEF reached
<1>7. /\ \A k \in 0..n : reached[k] = table(reached)[k]
      /\ table(reached)[0] = start
      /\ \A k \in 1..n : table(reached)[k] = Next1(k, reached[k - 1])
  <2> HIDE DEF Next1, start
  <2>1. table(reached)[0] = start
    BY <1>1
  <2>2. \A k \in 1..n : table(reached)[k] = Next1(k, reached[k - 1])
    BY <1>1
  <2> HIDE DEF table
  <2> QED
    BY <1>5, <2>1, <2>2
<1> HIDE DEF table
<1>8. reached[0] = start
  BY <1>7, <1>1
<1>9. ASSUME NEW i \in 1..n, reached[i - 1] \in S PROVE reached[i] \in S
  <2>1. reached[i] = Next1(i, reached[i - 1])
    BY <1>7
  <2> HIDE DEF Next1, S
  <2> QED
    BY <2>1, <1>2, <1>9
<1>10. \A i \in 0..n : reached[i] \in S
  <2> HIDE DEF n, S, start
  <2> QED
    BY <1>1, <1>8, <1>9, IterationStays
<1> QED
  BY <1>1, <1>6, <1>10
-----------------------------------------------------------------------------
(* The questions among the commands in a pipe. *)

\* f holds the questions among the first commands of s, for each number of them.
Among(f, s) ==
    /\ f \in [0..Len(s) -> Seq(Question)]
    /\ f[0] = <<>>
    /\ \A i \in 1..Len(s) :
          f[i] = IF s[i].method \in Question THEN Append(f[i - 1], s[i].method)
                 ELSE f[i - 1]

LEMMA QuestionsUnfold ==
    ASSUME NEW s \in Seq(Command)
    PROVE  \E f : Among(f, s) /\ QuestionsIn(s) = f[Len(s)]
<1> DEFINE n == Len(s)
           S == Seq(Question)
           start == <<>>
           With(k, q) == IF s[k].method \in Question THEN Append(q, s[k].method)
                         ELSE q
           step == [k \in 1..n |-> [q \in S |-> With(k, q)]]
           table(g) == [k \in 0..n |-> IF k = 0 THEN start ELSE With(k, g[k - 1])]
           among == CHOOSE g : g = table(g)
<1>1. n \in Nat /\ start \in S
  OBVIOUS
<1>2. ASSUME NEW k \in 1..n, NEW q \in S PROVE With(k, q) \in S
  OBVIOUS
<1>3. PICK f \in [0..n -> S] : Iterates(f, n, start, step)
  <2>1. step \in [1..n -> [S -> S]]
    BY <1>2
  <2> HIDE DEF n, S, start, step
  <2> QED
    BY <1>1, <2>1, IterationExists DEF Iterable
<1>4. f = table(f)
  <2>1. \A i \in 1..n : f[i - 1] \in S
    OBVIOUS
  <2> HIDE DEF S, With, start
  <2>2. \A i \in 1..n : f[i] = With(i, f[i - 1])
    BY <1>3, <2>1 DEF Iterates
  <2>3. f[0] = start
    BY <1>3 DEF Iterates
  <2>4. f = [k \in 0..n |-> f[k]]
    OBVIOUS
  <2> QED
    BY <2>2, <2>3, <2>4
<1>5. among = table(among)
  <2> HIDE DEF table
  <2> QED
    BY <1>4
<1>6. QuestionsIn(s) = among[n]
  BY DEF QuestionsIn
<1> HIDE DEF among
<1>7. /\ DOMAIN among = 0..n
      /\ among[0] = start
      /\ \A k \in 1..n : among[k] = With(k, among[k - 1])
  <2> HIDE DEF With, start
  <2>1. /\ DOMAIN table(among) = 0..n
        /\ table(among)[0] = start
        /\ \A k \in 1..n : table(among)[k] = With(k, among[k - 1])
    BY <1>1
  <2>2. among = [k \in 0..n |-> among[k]]
    BY <1>5
  <2> HIDE DEF table
  <2> QED
    BY <1>5, <2>1
<1>8. among = [k \in 0..n |-> among[k]]
  <2> HIDE DEF With, start
  <2> QED
    BY <1>5
<1>9. \A k \in 0..n : among[k] \in S
  <2>1. ASSUME NEW k \in 1..n, among[k - 1] \in S PROVE among[k] \in S
    <3> HIDE DEF With, S
    <3> QED
      BY <2>1, <1>2, <1>7
  <2>2. among[0] \in S
    BY <1>1, <1>7
  <2> HIDE DEF n, S
  <2> QED
    BY <1>1, <2>1, <2>2, IterationStays
<1>10. among \in [0..n -> S]
  <2> HIDE DEF S
  <2> QED
    BY <1>8, <1>9
<1>11. Among(among, s)
  BY <1>7, <1>10 DEF Among
<1> QED
  BY <1>6, <1>11

LEMMA QuestionsType ==
    ASSUME NEW s \in Seq(Command)
    PROVE  QuestionsIn(s) \in Seq(Question)
<1>1. PICK f : Among(f, s) /\ QuestionsIn(s) = f[Len(s)]
  BY QuestionsUnfold
<1>2. Len(s) \in 0..Len(s)
  OBVIOUS
<1> QED
  BY <1>1, <1>2 DEF Among

LEMMA NoQuestions == QuestionsIn(<<>>) = <<>>
<1>1. <<>> \in Seq(Command) /\ Len(<<>>) = 0
  OBVIOUS
<1>2. PICK f : Among(f, <<>>) /\ QuestionsIn(<<>>) = f[Len(<<>>)]
  BY <1>1, QuestionsUnfold
<1> QED
  BY <1>1, <1>2 DEF Among

\* A command that is appended comes last.
LEMMA QuestionsAppend ==
    ASSUME NEW s \in Seq(Command), NEW c \in Command
    PROVE  QuestionsIn(Append(s, c)) =
               IF c.method \in Question THEN Append(QuestionsIn(s), c.method)
               ELSE QuestionsIn(s)
<1> DEFINE u == Append(s, c)
           n == Len(s)
<1>1. /\ u \in Seq(Command) /\ Len(u) = n + 1 /\ u[n + 1] = c /\ n \in Nat
      /\ \A i \in 1..n : u[i] = s[i]
  OBVIOUS
<1> HIDE DEF u
<1>2. PICK f : Among(f, s) /\ QuestionsIn(s) = f[n]
  BY QuestionsUnfold
<1>3. PICK g : Among(g, u) /\ QuestionsIn(u) = g[n + 1]
  BY <1>1, QuestionsUnfold
<1> HIDE DEF n
<1> DEFINE T == {k \in Nat : k <= n => g[k] = f[k]}
<1>4. 0 \in T
  BY <1>2, <1>3 DEF Among
<1>5. ASSUME NEW k \in T PROVE k + 1 \in T
  <2> SUFFICES ASSUME k + 1 <= n PROVE g[k + 1] = f[k + 1]
    OBVIOUS
  <2>1. k \in Nat /\ g[k] = f[k] /\ k + 1 \in 1..n /\ k + 1 \in 1..(n + 1) /\ (k + 1) - 1 = k
    BY <1>1
  <2>2. f[k + 1] = IF s[k + 1].method \in Question THEN Append(f[k], s[k + 1].method)
                   ELSE f[k]
    BY <1>2, <2>1 DEF Among, n
  <2>3. g[k + 1] = IF u[k + 1].method \in Question THEN Append(g[k], u[k + 1].method)
                   ELSE g[k]
    BY <1>1, <1>3, <2>1 DEF Among
  <2> QED
    BY <1>1, <2>1, <2>2, <2>3
<1>6. T = Nat
  <2>1. T \in SUBSET Nat
    OBVIOUS
  <2> HIDE DEF T
  <2> QED
    BY <1>4, <1>5, <2>1, NatSetInduction
<1>7. g[n] = f[n]
  BY <1>1, <1>6
<1>8. g[n + 1] = IF c.method \in Question THEN Append(g[n], c.method) ELSE g[n]
  <2>1. n + 1 \in 1..Len(u) /\ (n + 1) - 1 = n
    BY <1>1
  <2> QED
    BY <1>1, <1>3, <2>1 DEF Among
<1> QED
  BY <1>2, <1>3, <1>7, <1>8 DEF u

\* The command that is taken came first.
LEMMA QuestionsTail ==
    ASSUME NEW s \in Seq(Command), s # <<>>
    PROVE  QuestionsIn(s) =
               (IF Head(s).method \in Question THEN <<Head(s).method>> ELSE <<>>)
                   \o QuestionsIn(Tail(s))
<1> DEFINE u == Tail(s)
           n == Len(u)
           h == IF Head(s).method \in Question THEN <<Head(s).method>> ELSE <<>>
<1> SUFFICES QuestionsIn(s) = h \o QuestionsIn(u)
  OBVIOUS
<1>1. /\ u \in Seq(Command) /\ Len(s) = n + 1 /\ s[1] = Head(s) /\ n \in Nat
      /\ \A i \in 1..n : u[i] = s[i + 1]
      /\ h \in Seq(Question)
  OBVIOUS
<1> HIDE DEF u
<1>2. PICK f : Among(f, s) /\ QuestionsIn(s) = f[n + 1]
  BY <1>1, QuestionsUnfold
<1>3. PICK g : Among(g, u) /\ QuestionsIn(u) = g[n]
  BY <1>1, QuestionsUnfold
<1> HIDE DEF n, h
<1> DEFINE T == {k \in Nat : k <= n => f[k + 1] = h \o g[k]}
<1>4. 0 \in T
  <2>1. f[1] = IF Head(s).method \in Question THEN Append(f[0], Head(s).method)
               ELSE f[0]
    <3>1. 1 \in 1..Len(s) /\ 1 - 1 = 0
      BY <1>1
    <3> QED
      BY <1>1, <1>2, <3>1 DEF Among
  <2>2. f[0] = <<>> /\ g[0] = <<>>
    BY <1>2, <1>3 DEF Among
  <2>3. f[1] = h
    BY <2>1, <2>2 DEF h
  <2>4. h \o <<>> = h
    BY <1>1
  <2>5. f[0 + 1] = h \o g[0]
    BY <2>2, <2>3, <2>4
  <2> HIDE DEF h
  <2> QED
    BY <2>5
<1>5. ASSUME NEW k \in T PROVE k + 1 \in T
  <2>0. (k + 1) + 1 = k + 2
    OBVIOUS
  <2> SUFFICES ASSUME k + 1 <= n PROVE f[k + 2] = h \o g[k + 1]
    BY <2>0
  <2>1. /\ k \in Nat /\ f[k + 1] = h \o g[k] /\ k \in 0..n
        /\ k + 1 \in 1..n /\ (k + 1) - 1 = k
        /\ k + 2 \in 1..(n + 1) /\ (k + 2) - 1 = k + 1
    BY <1>1
  <2> HIDE DEF T
  <2>2. f[k + 2] = IF s[k + 2].method \in Question
                   THEN Append(f[k + 1], s[k + 2].method) ELSE f[k + 1]
    BY <1>1, <1>2, <2>1 DEF Among
  <2>3. g[k + 1] = IF u[k + 1].method \in Question THEN Append(g[k], u[k + 1].method)
                   ELSE g[k]
    BY <1>1, <1>3, <2>1 DEF Among, n
  <2>4. u[k + 1] = s[k + 2]
    BY <1>1, <2>1
  <2>5. g[k] \in Seq(Question)
    BY <1>3, <2>1 DEF Among, n
  <2>6. \A m \in Question : h \o Append(g[k], m) = Append(h \o g[k], m)
    BY <1>1, <2>5
  <2> QED
    BY <2>1, <2>2, <2>3, <2>4, <2>6
<1>6. T = Nat
  <2>1. T \in SUBSET Nat
    OBVIOUS
  <2> HIDE DEF T
  <2> QED
    BY <1>4, <1>5, <2>1, NatSetInduction
<1>7. f[n + 1] = h \o g[n]
  <2>1. n \in T
    BY <1>1, <1>6
  <2> QED
    BY <2>1
<1> QED
  BY <1>2, <1>3, <1>7
-----------------------------------------------------------------------------
(* Types, and replies in step with questions. *)

LEMMA Concatenations ==
    ASSUME NEW S, NEW a \in Seq(S), NEW b \in Seq(S), NEW m \in S
    PROVE  /\ a \o Append(b, m) = Append(a \o b, m)
           /\ Append(a, m) \o b = a \o (<<m>> \o b)
           /\ a # <<>> => Tail(a \o b) = Tail(a) \o b
           /\ <<>> \o b = b
<1>1. a \o Append(b, m) = Append(a \o b, m)
  OBVIOUS
<1>2. Append(a, m) \o b = a \o (<<m>> \o b)
  OBVIOUS
<1>3. a # <<>> => Tail(a \o b) = Tail(a) \o b
  OBVIOUS
<1>4. <<>> \o b = b
  OBVIOUS
<1> QED
  BY <1>1, <1>2, <1>3, <1>4

LEMMA Appended ==
    ASSUME NEW S, NEW a \in Seq(S), NEW x \in S
    PROVE  \A i \in DOMAIN Append(a, x) :
               \/ Append(a, x)[i] = x
               \/ i \in DOMAIN a /\ Append(a, x)[i] = a[i]
<1> DEFINE u == Append(a, x)
<1> SUFFICES \A i \in DOMAIN u : \/ u[i] = x
                                 \/ i \in DOMAIN a /\ u[i] = a[i]
  OBVIOUS
<1>1. /\ u \in Seq(S) /\ Len(u) = Len(a) + 1 /\ u[Len(a) + 1] = x
      /\ \A i \in 1..Len(a) : u[i] = a[i]
  OBVIOUS
<1> HIDE DEF u
<1>2. DOMAIN u = 1..(Len(a) + 1) /\ DOMAIN a = 1..Len(a) /\ Len(a) \in Nat
  BY <1>1
<1>3. TAKE i \in DOMAIN u
<1>4. i = Len(a) + 1 \/ i \in 1..Len(a)
  BY <1>2
<1> QED
  BY <1>1, <1>2, <1>4

Reply == [to : Question, port : Nat \cup {-1}]

\* The questions that replies answer.
AnsweredBy(sent) == [i \in DOMAIN sent |-> sent[i].to]

LEMMA AnsweredByFacts ==
    ASSUME NEW r \in Seq(Reply), NEW n \in Reply
    PROVE  /\ AnsweredBy(r) \in Seq(Question)
           /\ AnsweredBy(Append(r, n)) = Append(AnsweredBy(r), n.to)
           /\ r # <<>> => /\ AnsweredBy(r) # <<>>
                          /\ AnsweredBy(Tail(r)) = Tail(AnsweredBy(r))
<1>1. /\ AnsweredBy(r) \in Seq(Question) /\ Len(AnsweredBy(r)) = Len(r)
      /\ \A i \in 1..Len(r) : AnsweredBy(r)[i] = r[i].to
  <2>1. \A i \in 1..Len(r) : r[i] \in Reply /\ r[i].to \in Question
    <3>1. \A i \in 1..Len(r) : r[i] \in Reply
      OBVIOUS
    <3>2. \A x \in Reply : x.to \in Question
      BY DEF Reply
    <3> QED
      BY <3>1, <3>2
  <2> QED
    BY <2>1 DEF AnsweredBy
<1>2. AnsweredBy(Append(r, n)) = Append(AnsweredBy(r), n.to)
  BY <1>1 DEF AnsweredBy
<1>3. r # <<>> => AnsweredBy(r) # <<>>
  BY <1>1
<1>4. r # <<>> => AnsweredBy(Tail(r)) = Tail(AnsweredBy(r))
  BY <1>1 DEF AnsweredBy
<1> QED
  BY <1>1, <1>2, <1>3, <1>4

\* Running or not: what was asked is what is answered already, and then what is
\* still in the pipe.
InStep == AnsweredBy(replies) \o QuestionsIn(pipe) = asked

LEMMA InStepStep ==
    ASSUME TypeOK, InStep, [Next]_vars
    PROVE  InStep'
<1> DEFINE answered == AnsweredBy(replies)
           questions == QuestionsIn(pipe)
<1>1. answered \in Seq(Question) /\ questions \in Seq(Question)
  <2>1. pipe \in Seq(Command) /\ replies \in Seq(Reply)
    BY DEF TypeOK, Reply
  <2>2. [to |-> "PORT", port |-> -1] \in Reply
    BY DEF Reply, Question
  <2> QED
    BY <2>1, <2>2, AnsweredByFacts, QuestionsType
<1>0. /\ pipe \in Seq(Command) /\ replies \in Seq(Reply)
      /\ pipe # <<>> => QuestionsIn(Tail(pipe)) \in Seq(Question)
  <2>1. pipe \in Seq(Command) /\ replies \in Seq(Reply)
    BY DEF TypeOK, Reply
  <2>2. pipe # <<>> => Tail(pipe) \in Seq(Command)
    BY <2>1
  <2> QED
    BY <2>1, <2>2, QuestionsType
<1>2. ASSUME pipe # <<>>, pipe' = Tail(pipe), asked' = asked, replies' = replies,
             Head(pipe).method \notin Question
      PROVE  InStep'
  <2>1. questions = <<>> \o QuestionsIn(Tail(pipe))
    BY <1>0, <1>2, QuestionsTail
  <2>2. QuestionsIn(Tail(pipe)) \in Seq(Question)
    BY <1>0, <1>2
  <2>3. questions = QuestionsIn(Tail(pipe))
    BY <2>1, <2>2
  <2> QED
    BY <1>2, <2>3 DEF InStep
<1>3. ASSUME pipe # <<>>, pipe' = Tail(pipe), asked' = asked,
             NEW r \in Reply, replies' = Append(replies, r),
             Head(pipe).method = r.to
      PROVE  InStep'
  <2> DEFINE rest == QuestionsIn(Tail(pipe))
  <2>1. r.to \in Question
    BY DEF Reply
  <2>2. questions = <<r.to>> \o rest
    BY <1>0, <1>3, <2>1, QuestionsTail
  <2>3. rest \in Seq(Question)
    BY <1>0, <1>3
  <2>4. AnsweredBy(replies') = Append(answered, r.to)
    BY <1>3, AnsweredByFacts DEF TypeOK, Reply
  <2> HIDE DEF rest, answered, questions
  <2>5. Append(answered, r.to) \o rest = answered \o (<<r.to>> \o rest)
    BY <1>1, <2>1, <2>3, Concatenations
  <2>6. AnsweredBy(replies') \o QuestionsIn(pipe') = answered \o questions
    BY <1>3, <2>2, <2>4, <2>5 DEF rest
  <2> QED
    BY <1>3, <2>6 DEF InStep, answered, questions
<1>4. CASE CallerSends
  <2>1. PICK c \in Command :
            /\ pipe' = Append(pipe, c)
            /\ asked' = IF c.method \in Question THEN Append(asked, c.method)
                        ELSE asked
    BY <1>4 DEF CallerSends
  <2>2. QuestionsIn(pipe') = IF c.method \in Question
                             THEN Append(questions, c.method) ELSE questions
    BY <2>1, QuestionsAppend DEF TypeOK
  <2>3. AnsweredBy(replies') = answered
    BY <1>4 DEF CallerSends
  <2> HIDE DEF answered, questions
  <2>4. asked = answered \o questions
    BY DEF InStep, answered, questions
  <2>5. CASE c.method \in Question
    <3>1. answered \o Append(questions, c.method) = Append(asked, c.method)
      BY <1>1, <2>4, <2>5, Concatenations
    <3> QED
      BY <2>1, <2>2, <2>3, <2>5, <3>1 DEF InStep
  <2>6. CASE c.method \notin Question
    BY <2>1, <2>2, <2>3, <2>4, <2>6 DEF InStep
  <2> QED
    BY <2>5, <2>6
<1>5. CASE CallerReads
  <2>1. replies # <<>> /\ replies' = Tail(replies) /\ asked' = Tail(asked) /\ pipe' = pipe
    BY <1>5 DEF CallerReads
  <2>2. answered # <<>> /\ AnsweredBy(replies') = Tail(answered)
    <3>1. [to |-> "PORT", port |-> -1] \in Reply
      BY DEF Reply, Question
    <3> QED
      BY <2>1, <3>1, AnsweredByFacts DEF TypeOK, Reply
  <2> HIDE DEF answered, questions
  <2>3. asked = answered \o questions
    BY DEF InStep, answered, questions
  <2>4. Tail(asked) = Tail(answered) \o questions
    <3>1. "PORT" \in Question
      BY DEF Question
    <3> QED
      BY <1>1, <2>2, <2>3, <3>1, Concatenations
  <2> QED
    BY <2>1, <2>2, <2>4 DEF InStep, questions
<1>6. ASSUME NEW f \in Files, Edit(f) PROVE InStep'
  BY <1>6 DEF Edit, InStep
<1>7. CASE HandlePort
  <2>1. [to |-> "PORT", port |-> port] \in Reply
    BY DEF TypeOK, Reply, Question
  <2>2. /\ pipe # <<>> /\ pipe' = Tail(pipe) /\ asked' = asked
        /\ Head(pipe).method = "PORT"
        /\ replies' = Append(replies, [to |-> "PORT", port |-> port])
    BY <1>7 DEF HandlePort, Take
  <2> QED
    BY <1>3, <2>1, <2>2
<1>8. CASE HandleBindPub
  <2>1. PICK t \in Bind([port |-> port, bound |-> bound], "pub", Head(pipe).endpoint) :
            replies' = BindPubReply(t.port)
    BY <1>8 DEF HandleBindPub
  <2>2. t \in Places
    BY BindType DEF TypeOK, Places, Sockets
  <2>3. [to |-> "BIND PUB", port |-> t.port] \in Reply
    BY <2>2 DEF Reply, Question, Places
  <2>4. /\ pipe # <<>> /\ pipe' = Tail(pipe) /\ asked' = asked
        /\ Head(pipe).method = "BIND PUB"
        /\ replies' = Append(replies, [to |-> "BIND PUB", port |-> t.port])
    BY <1>8, <2>1 DEF HandleBindPub, Take, BindPubReply
  <2> QED
    BY <1>3, <2>3, <2>4
<1>9. CASE HandleVerbose \/ HandleBind \/ HandleMethod \/ HandleLoad \/ HandleSet
           \/ HandleSave \/ HandleTerm
  <2>1. /\ pipe # <<>> /\ pipe' = Tail(pipe) /\ asked' = asked /\ replies' = replies
        /\ Head(pipe).method \notin Question
    BY <1>9 DEF HandleVerbose, HandleBind, HandleMethod, HandleLoad, HandleSet,
                HandleSave, HandleTerm, Take, Question
  <2> QED
    BY <1>2, <2>1
<1>10. CASE WatchConfig
  BY <1>10 DEF WatchConfig, InStep
<1>11. CASE Tick \/ UNCHANGED vars
  BY <1>11 DEF Tick, vars, InStep
<1> QED
  BY <1>4, <1>5, <1>6, <1>7, <1>8, <1>9, <1>10, <1>11
  DEF Next, HandlePipe, Ended
\* What a tree says makes a timeout.
LEMMA TimeoutType == ASSUME NEW o \in Options PROVE TimeoutOf(o) \in Nat
BY DEF TimeoutOf, Options

\* Applying a tree keeps the types of what is derived from it.
LEMMA ServiceType ==
    ASSUME TypeOK, NEW o \in Options, ConfigService(o)
    PROVE  /\ verbose' \in BOOLEAN /\ timeout' \in Nat
           /\ port' \in Nat \cup {-1} /\ bound' \in [Endpoints -> Sockets]
<1>1. verbose' \in BOOLEAN
  <2>1. verbose' = (verbose \/ o.verbose)
    BY DEF ConfigService, ConfigGlobal
  <2>2. verbose \in BOOLEAN /\ o.verbose \in BOOLEAN
    BY DEF TypeOK, Options
  <2> QED
    BY <2>1, <2>2, Zenon
<1>2. timeout' \in Nat
  BY TimeoutType DEF ConfigService, ConfigGlobal
<1>3. BindSections(o.binds) \subseteq Places
  <2>1. [port |-> port, bound |-> bound] \in Places
    BY DEF TypeOK, Places, Sockets
  <2>2. \A t \in Places, e \in Endpoints \cup {ANY} : Bind(t, "router", e) \subseteq Places
    BY BindType DEF Sockets
  <2>3. o.binds \in Seq(Endpoints \cup {ANY})
    BY DEF Options
  <2> QED
    BY <2>1, <2>2, <2>3, SectionsStay
<1>4. PICK t \in BindSections(o.binds) : port' = t.port /\ bound' = t.bound
  BY DEF ConfigService
<1>5. t \in Places
  BY <1>3
<1> QED
  BY <1>1, <1>2, <1>4, <1>5 DEF Places

LEMMA TypeInit == Init => TypeOK
<1> SUFFICES ASSUME Init PROVE TypeOK
  OBVIOUS
<1>1. Empty.options \in Options
  BY DEF Empty, Options
<1>2. config \in Tree /\ now \in Nat
  BY <1>1 DEF Init, Empty, Tree
<1>3. timeout \in Nat
  BY <1>1, TimeoutType DEF Init
<1>4. disk \in [Files -> Stored]
  <2>1. [options : Written, time : {0}, size : Sizes] \subseteq Stored
    BY WrittenIsStored
  <2> QED
    BY <2>1 DEF Init
<1>5. bound \in [Endpoints -> Sockets]
  BY DEF Init, Sockets
<1>6. /\ appConfig \in {"current", "freed"} /\ verbose \in BOOLEAN
      /\ port \in Nat \cup {-1} /\ running \in BOOLEAN
  BY DEF Init
<1>7. /\ pipe \in Seq(Command) /\ asked \in Seq(Question)
      /\ replies \in Seq([to : Question, port : Nat \cup {-1}])
  BY DEF Init
<1> QED
  BY <1>2, <1>3, <1>4, <1>5, <1>6, <1>7 DEF TypeOK, Sockets

\* One step keeps the types.
LEMMA TypeStep ==
    ASSUME TypeOK, Shape, Shape', InStep, [Next]_vars
    PROVE  TypeOK'
<1> DEFINE Rest ==
        /\ appConfig \in {"current", "freed"}
        /\ verbose \in BOOLEAN
        /\ timeout \in Nat
        /\ port \in Nat \cup {-1}
        /\ bound \in [Endpoints -> Sockets]
        /\ replies \in Seq(Reply)
        /\ asked \in Seq(Question)
        /\ running \in BOOLEAN
<1>1. Rest
  BY DEF TypeOK, Sockets, Reply
<1>0. pipe # <<>> => Head(pipe) \in Command
  BY DEF TypeOK
<1> SUFFICES Rest'
  BY DEF TypeOK, Shape, Sockets, Reply
<1>2. ASSUME NEW f \in Files, Readable(f), Install(f),
             UNCHANGED <<replies, asked, running>>
      PROVE  Rest'
  <2>1. disk[f].options \in Options
    BY <1>2 DEF TypeOK, Readable, Stored
  <2> QED
    BY <1>1, <1>2, <2>1, ServiceType DEF Install
<1>3. CASE CallerSends
  BY <1>1, <1>3 DEF CallerSends, derived
<1>4. CASE CallerReads
  <2>1. asked # <<>>
    <3>1. AnsweredBy(replies) \in Seq(Question) /\ AnsweredBy(replies) # <<>>
      <4>1. [to |-> "PORT", port |-> -1] \in Reply
        BY DEF Reply, Question
      <4> QED
        BY <1>1, <1>4, <4>1, AnsweredByFacts DEF CallerReads
    <3>2. QuestionsIn(pipe) \in Seq(Question)
      BY QuestionsType DEF TypeOK
    <3> QED
      BY <3>1, <3>2 DEF InStep
  <2>2. replies' \in Seq(Reply) /\ asked' \in Seq(Question)
    BY <1>1, <1>4, <2>1 DEF CallerReads
  <2> QED
    BY <1>1, <1>4, <2>2 DEF CallerReads, derived
<1>5. ASSUME NEW f \in Files, Edit(f) PROVE Rest'
  BY <1>1, <1>5 DEF Edit, derived
<1>6. CASE HandleVerbose \/ HandleMethod
  BY <1>1, <1>6 DEF HandleVerbose, HandleMethod, Take, derived
<1>7. CASE HandleBind
  <2>1. [port |-> port, bound |-> bound] \in Places
    BY <1>1 DEF Places
  <2>2. PICK t \in Bind([port |-> port, bound |-> bound], "router", Head(pipe).endpoint) :
            port' = t.port /\ bound' = t.bound
    BY <1>7 DEF HandleBind
  <2>3. t \in Places
    BY <2>1, BindType DEF Sockets
  <2> QED
    BY <1>1, <1>7, <2>2, <2>3 DEF HandleBind, Take, Places
<1>8. CASE HandlePort
  <2>1. [to |-> "PORT", port |-> port] \in Reply
    BY <1>1 DEF Reply, Question
  <2> QED
    BY <1>1, <1>8, <2>1 DEF HandlePort, Take, derived
<1>9. CASE HandleBindPub
  <2>1. [port |-> port, bound |-> bound] \in Places
    BY <1>1 DEF Places
  <2>2. PICK t \in Bind([port |-> port, bound |-> bound], "pub", Head(pipe).endpoint) :
            bound' = t.bound /\ replies' = BindPubReply(t.port)
    BY <1>9 DEF HandleBindPub
  <2>3. t \in Places
    BY <2>1, BindType DEF Sockets
  <2>4. [to |-> "BIND PUB", port |-> t.port] \in Reply
    BY <2>3 DEF Reply, Question, Places
  <2>5. replies' \in Seq(Reply)
    <3> DEFINE r == [to |-> "BIND PUB", port |-> t.port]
    <3>1. replies' = Append(replies, r)
      BY <2>2 DEF BindPubReply
    <3>2. replies \in Seq(Reply)
      BY <1>1
    <3>3. r \in Reply
      BY <2>4
    <3> HIDE DEF r
    <3> QED
      BY <3>1, <3>2, <3>3
  <2> QED
    BY <1>1, <1>9, <2>2, <2>3, <2>5 DEF HandleBindPub, Take, Places
<1>10. CASE HandleLoad
  <2>1. Head(pipe).file \in Files
    <3>1. Head(pipe) \in Command /\ Head(pipe).method = "LOAD"
      BY <1>0, <1>10 DEF HandleLoad, Take
    <3> QED
      BY <3>1 DEF Command
  <2>2. UNCHANGED <<replies, asked, running>>
    BY <1>10 DEF HandleLoad, Take
  <2>3. CASE Readable(Head(pipe).file)
    BY <1>2, <1>10, <2>1, <2>2, <2>3 DEF HandleLoad
  <2>4. CASE ~Readable(Head(pipe).file)
    BY <1>1, <1>10, <2>2, <2>4 DEF HandleLoad, derived
  <2> QED
    BY <2>3, <2>4
<1>11. CASE HandleSet
  <2> DEFINE s == Head(pipe).setting
             o == Put(config.options, s)
             flag == IF s.path = "server/animate" THEN s.value ELSE verbose
  <2>1. s \in Setting
    <3>1. Head(pipe) \in Command /\ Head(pipe).method = "SET"
      BY <1>0, <1>11 DEF HandleSet, Take
    <3> QED
      BY <3>1, ConfigAssumption DEF Command
  <2>2. o \in Options
    <3>1. config.options \in Options
      BY DEF TypeOK, Tree
    <3> QED
      BY <2>1, <3>1, PutType
  <2>3. flag \in BOOLEAN
    <3>1. s.path = "server/animate" => s.value \in BOOLEAN
      BY <2>1 DEF Setting
    <3>2. verbose \in BOOLEAN
      BY <1>1
    <3> HIDE DEF s
    <3> QED
      BY <3>1, <3>2, Zenon
  <2>4. verbose' = (flag \/ o.verbose) /\ timeout' = TimeoutOf(o)
    BY <1>11 DEF HandleSet, ConfigGlobal
  <2>5. o.verbose \in BOOLEAN
    BY <2>2 DEF Options
  <2> HIDE DEF flag, o
  <2>6. verbose' \in BOOLEAN /\ timeout' \in Nat
    <3>1. verbose' \in BOOLEAN
      BY <2>3, <2>4, <2>5, Zenon
    <3> QED
      BY <2>2, <2>4, <3>1, TimeoutType
  <2> QED
    BY <1>1, <1>11, <2>6 DEF HandleSet, Take
<1>12. CASE HandleSave
  BY <1>1, <1>12 DEF HandleSave, Take, derived
<1>13. CASE HandleTerm
  <2>1. bound' \in [Endpoints -> Sockets]
    BY <1>13 DEF HandleTerm, Sockets
  <2> QED
    BY <1>1, <1>13, <2>1 DEF HandleTerm, Take
<1>14. CASE WatchConfig
  <2>1. config.file \in Files
    BY <1>14 DEF WatchConfig, ReloadDue, Shape, Tree
  <2> QED
    BY <1>2, <1>14, <2>1 DEF WatchConfig, ReloadDue
<1>15. CASE Tick \/ UNCHANGED vars
  BY <1>1, <1>15 DEF Tick, vars, derived
<1> QED
  BY <1>3, <1>4, <1>5, <1>6, <1>7, <1>8, <1>9, <1>10, <1>11, <1>12, <1>13, <1>14, <1>15
  DEF Next, HandlePipe, Ended
-----------------------------------------------------------------------------
(* The port is one the ROUTER listens on. *)

\* A place where the ROUTER listens on all it did, and on the port if that
\* changed, keeps the property.
LEMMA PortIsBoundKept ==
    ASSUME PortIsBound, running,
           StillBound([port |-> port, bound |-> bound], [port |-> port', bound |-> bound']),
           Listens([port |-> port', bound |-> bound']),
           UNCHANGED replies
    PROVE  PortIsBound'
<1>1. \A n : n > 0 /\ Listening(n) => Listening(n)'
  BY DEF Listening, StillBound
<1>2. (port > 0 => Listening(port))'
  BY DEF Listens, Listening
<1> QED
  BY <1>1, <1>2 DEF PortIsBound

\* One step keeps the port bound.
LEMMA PortIsBoundStep ==
    ASSUME TypeOK, Shape, PortIsBound, [Next]_vars
    PROVE  PortIsBound'
<1> DEFINE here == [port |-> port, bound |-> bound]
<1>1. here \in Places
  BY DEF TypeOK, Places, Sockets
<1>2. ASSUME running, UNCHANGED replies, NEW t \in Bind(here, "router", Head(pipe).endpoint),
             port' = t.port, bound' = t.bound
      PROVE  PortIsBound'
  <2>1. t \in Places /\ StillBound(here, t) /\ Listens(t)
    BY <1>1, <1>2, BindType, BindListens DEF Sockets
  <2>2. t = [port |-> port', bound |-> bound']
    BY <1>2, <2>1 DEF Places
  <2> QED
    BY <1>2, <2>1, <2>2, PortIsBoundKept
<1>3. ASSUME running, UNCHANGED replies, NEW f \in Files, Readable(f), Install(f)
      PROVE  PortIsBound'
  <2> DEFINE K == {t \in Places : StillBound(here, t) /\ Listens(t)}
  <2>1. here \in K
    <3>1. StillBound(here, here)
      BY DEF StillBound
    <3>2. Listens(here)
      BY <1>3 DEF PortIsBound, Listening, Listens
    <3> QED
      BY <1>1, <3>1, <3>2
  <2>2. ASSUME NEW t \in K, NEW e \in Endpoints \cup {ANY},
               NEW u \in Bind(t, "router", e)
        PROVE  u \in K
    <3>1. u \in Places /\ StillBound(t, u) /\ Listens(u)
      BY BindType, BindListens DEF Sockets
    <3>2. StillBound(here, u)
      BY <3>1 DEF StillBound
    <3> QED
      BY <3>1, <3>2
  <2>3. disk[f].options.binds \in Seq(Endpoints \cup {ANY})
    <3>1. disk[f].options \in Options
      BY <1>3 DEF TypeOK, Readable, Stored
    <3> QED
      BY <3>1 DEF Options
  <2>4. BindSections(disk[f].options.binds) \subseteq K
    <3>1. K \in SUBSET Places
      OBVIOUS
    <3>2. \A t \in K, e \in Endpoints \cup {ANY} : Bind(t, "router", e) \subseteq K
      BY <2>2
    <3> HIDE DEF K
    <3> QED
      BY <2>1, <2>3, <3>1, <3>2, SectionsStay
  <2>5. PICK t \in BindSections(disk[f].options.binds) : port' = t.port /\ bound' = t.bound
    BY <1>3 DEF Install, ConfigService
  <2>6. t \in Places /\ StillBound(here, t) /\ Listens(t)
    BY <2>4
  <2>7. t = [port |-> port', bound |-> bound']
    BY <2>5, <2>6 DEF Places
  <2> QED
    BY <1>3, <2>6, <2>7, PortIsBoundKept
<1>4. ASSUME UNCHANGED <<port, bound, running>>,
             \A i \in DOMAIN replies' : \/ replies'[i].to = "BIND PUB"
                                        \/ replies'[i].port = port
                                        \/ \E j \in DOMAIN replies : replies'[i] = replies[j]
      PROVE  PortIsBound'
  <2>1. \A n : Listening(n)' <=> Listening(n)
    BY <1>4 DEF Listening
  <2> SUFFICES ASSUME running' PROVE PortIsBound'
    BY DEF PortIsBound
  <2>2. running /\ (port > 0 => Listening(port))
    BY <1>4 DEF PortIsBound
  <2>3. ASSUME NEW i \in DOMAIN replies', replies'[i].to = "PORT", replies'[i].port > 0
        PROVE  Listening(replies'[i].port)
    <3>1. replies'[i].to # "BIND PUB"
      BY <2>3
    <3>2. CASE replies'[i].port = port
      BY <2>2, <2>3, <3>2
    <3>3. CASE \E j \in DOMAIN replies : replies'[i] = replies[j]
      BY <2>2, <2>3, <3>3 DEF PortIsBound
    <3> QED
      BY <1>4, <3>1, <3>2, <3>3
  <2> QED
    BY <1>4, <2>1, <2>2, <2>3 DEF PortIsBound
<1>5. replies \in Seq(Reply)
  BY DEF TypeOK, Reply
<1>6. CASE CallerSends
  BY <1>4, <1>6 DEF CallerSends, derived
<1>7. CASE CallerReads
  <2>1. \A i \in DOMAIN Tail(replies) : i + 1 \in DOMAIN replies /\ Tail(replies)[i] = replies[i + 1]
    BY <1>5, <1>7 DEF CallerReads
  <2> QED
    BY <1>4, <1>7, <2>1 DEF CallerReads, derived
<1>8. ASSUME NEW f \in Files, Edit(f) PROVE PortIsBound'
  BY <1>4, <1>8 DEF Edit, derived
<1>9. CASE HandleVerbose \/ HandleMethod \/ HandleSet \/ HandleSave
  BY <1>4, <1>9 DEF HandleVerbose, HandleMethod, HandleSet, HandleSave, derived
<1>10. CASE HandleBind
  BY <1>2, <1>10 DEF HandleBind, Take
<1>11. CASE HandlePort
  <2> DEFINE r == [to |-> "PORT", port |-> port]
  <2>1. replies' = Append(replies, r) /\ UNCHANGED <<port, bound, running>> /\ r.port = port
    BY <1>11 DEF HandlePort, derived
  <2>r. r \in Reply
    BY DEF TypeOK, Reply, Question
  <2> HIDE DEF r
  <2>2. \A i \in DOMAIN replies' : \/ replies'[i] = r
                                   \/ i \in DOMAIN replies /\ replies'[i] = replies[i]
    BY <1>5, <2>1, <2>r, Appended
  <2> QED
    BY <1>4, <2>1, <2>2
<1>12. CASE HandleBindPub
  <2>1. PICK t \in Bind(here, "pub", Head(pipe).endpoint) :
            bound' = t.bound /\ replies' = BindPubReply(t.port)
    BY <1>12 DEF HandleBindPub
  <2> DEFINE r == [to |-> "BIND PUB", port |-> t.port]
  <2>2. replies' = Append(replies, r) /\ r.to = "BIND PUB"
    BY <2>1 DEF BindPubReply
  <2>r. r \in Reply
    <3>1. t \in Places
      BY <1>1, BindType DEF Sockets
    <3> QED
      BY <3>1 DEF Places, Reply, Question
  <2> HIDE DEF r
  <2>3. \A i \in DOMAIN replies' : \/ replies'[i] = r
                                   \/ i \in DOMAIN replies /\ replies'[i] = replies[i]
    <3>1. replies' = Append(replies, r)
      BY <2>2
    <3>2. \A i \in DOMAIN Append(replies, r) :
              \/ Append(replies, r)[i] = r
              \/ i \in DOMAIN replies /\ Append(replies, r)[i] = replies[i]
      BY <1>5, <2>r, Appended
    <3> QED
      BY <3>1, <3>2, Zenon
  <2>4. StillBound(here, t)
    BY <1>1, BindListens DEF Sockets
  <2>5. \A n : n > 0 /\ Listening(n) => Listening(n)'
    BY <2>1, <2>4 DEF Listening, StillBound
  <2>6. port' = port /\ running
    BY <1>12 DEF HandleBindPub, Take
  <2>7. ASSUME NEW i \in DOMAIN replies', replies'[i].to = "PORT", replies'[i].port > 0
        PROVE  Listening(replies'[i].port)
    <3>1. i \in DOMAIN replies /\ replies'[i] = replies[i]
      BY <2>2, <2>3, <2>7
    <3> QED
      BY <2>6, <2>7, <3>1 DEF PortIsBound
  <2> QED
    BY <2>5, <2>6, <2>7 DEF PortIsBound
<1>13. CASE HandleLoad
  <2>1. UNCHANGED <<replies, running>> /\ running
    BY <1>13 DEF HandleLoad, Take
  <2>2. CASE ~Readable(Head(pipe).file)
    BY <1>4, <1>13, <2>1, <2>2 DEF HandleLoad, derived
  <2>3. CASE Readable(Head(pipe).file)
    <3>1. Head(pipe) \in Command /\ Head(pipe).method = "LOAD"
      BY <1>13 DEF HandleLoad, Take, TypeOK
    <3>2. Head(pipe).file \in Files
      BY <3>1 DEF Command
    <3> QED
      BY <1>3, <1>13, <2>1, <2>3, <3>2 DEF HandleLoad
  <2> QED
    BY <2>2, <2>3
<1>14. CASE HandleTerm
  BY <1>14 DEF HandleTerm, PortIsBound
<1>15. CASE WatchConfig
  BY <1>3, <1>15 DEF WatchConfig, ReloadDue, Shape, Tree
<1>16. CASE Tick \/ UNCHANGED vars
  BY <1>4, <1>16 DEF Tick, vars, derived
<1> QED
  BY <1>6, <1>7, <1>8, <1>9, <1>10, <1>11, <1>12, <1>13, <1>14, <1>15, <1>16
  DEF Next, HandlePipe, Ended
-----------------------------------------------------------------------------
(* The three together. *)

Inv == TypeOK /\ InStep /\ PortIsBound

LEMMA InvInit == Init => Inv
<1> SUFFICES ASSUME Init PROVE Inv
  OBVIOUS
<1>1. TypeOK
  BY TypeInit
<1>2. InStep
  <2>1. AnsweredBy(<<>>) = <<>> /\ <<>> \o <<>> = <<>>
    BY DEF AnsweredBy
  <2> QED
    BY <2>1, NoQuestions DEF Init, InStep
<1>3. PortIsBound
  BY DEF Init, PortIsBound
<1> QED
  BY <1>1, <1>2, <1>3 DEF Inv

LEMMA InvStep == Shape /\ Shape' /\ Inv /\ [Next]_vars => Inv'
BY TypeStep, InStepStep, PortIsBoundStep DEF Inv

LEMMA InvHolds == Spec => []Inv
BY InvInit, InvStep, ShapeHolds, PTL DEF Spec

\* Every part of the configuration keeps its type, through any commands, files
\* and binds.
THEOREM TypeCorrect == Spec => []TypeOK
<1>1. Inv => TypeOK
  BY DEF Inv
<1> QED
  BY <1>1, InvHolds, PTL

\* However far a caller asks ahead of its reading, the replies come in the order
\* of the questions, one each.
THEOREM RepliesMatch == Spec => []RepliesMatchQuestions
<1>1. Inv => RepliesMatchQuestions
  BY DEF Inv, InStep, AnsweredBy, RepliesMatchQuestions
<1> QED
  BY <1>1, InvHolds, PTL

\* A positive port, remembered or told, is one the ROUTER listens on, for any
\* number of bind sections, loads and reloads.
THEOREM PortStaysBound == Spec => []PortIsBound
<1>1. Inv => PortIsBound
  BY DEF Inv
<1> QED
  BY <1>1, InvHolds, PTL
=============================================================================
