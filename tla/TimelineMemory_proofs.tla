------------------------ MODULE TimelineMemory_proofs ------------------------
(***************************************************************************)
(* Theorems about TimelineMemory, for any sizes and any number of blocks:  *)
(* no dead block is touched, every block has one owner, and nothing leaks  *)
(* but empty arrays.  The argument goes operation by operation: each one   *)
(* takes a heap that is in order, seen from the pointers outside it, to    *)
(* one that is.                                                            *)
(***************************************************************************)
EXTENDS TimelineMemory, FiniteSetTheorems, WellFoundedInduction, TLAPS

\* The pointers of a kind, and the kinds of blocks that hold nothing.
Kind(k) == {k} \X (Nat \ {0})

LeafKinds == {"int[]", "int64_t[]", "chunk", "frame"}

TimelineBlock == [size : Nat, epochs : Kind("int[]") \cup {NULL},
                  times : Kind("int64_t[]") \cup {NULL}]
CodecBlock == [routing_id : Kind("frame") \cup {NULL},
               epochs : Kind("chunk") \cup {NULL}, times : Kind("chunk") \cup {NULL}]
LeafBlock == [size : Nat]

\* What a block of each kind is.
Fit(p, b) ==
    /\ p[1] = "timeline" => /\ b \in TimelineBlock
                            /\ b.size > 0 => b.epochs # NULL /\ b.times # NULL
    /\ p[1] = "codec" => b \in CodecBlock
    /\ p[1] \in LeafKinds => b \in LeafBlock

\* The heap is one of blocks of their kinds.
Shaped(h) ==
    /\ IsFiniteSet(DOMAIN h)
    /\ DOMAIN h \subseteq Pointer
    /\ h = [p \in DOMAIN h |-> h[p]]
    /\ \A p \in DOMAIN h : Fit(p, h[p])

\* The field f of q owns the block at p.
Owns(h, q, f, p) ==
    q \in DOMAIN h /\ f \in Owning(q, h[q]) /\ h[q][f] = p /\ p # NULL

\* What the block b at p holds; what the block at p holds, if there is one.
Held(p, b) == {b[f] : f \in Owning(p, b)} \ {NULL}
HeldIn(h, p) == IF p \in DOMAIN h THEN Held(p, h[p]) ELSE {}

\* What set_intervals leaves behind.
EmptyArray(h, p) == p[1] \in {"int[]", "int64_t[]"} /\ h[p].size = 0

\* The heap h is in order, if R are the pointers into it from outside: they and
\* the fields of its blocks point to live blocks, each to another, and only
\* empty arrays have no pointer to them.
InOrder(h, R) ==
    /\ Shaped(h)
    /\ R \subseteq DOMAIN h
    /\ \A q, f, p : Owns(h, q, f, p) => p \in DOMAIN h /\ p \notin R
    /\ \A q, f, r, g, p : Owns(h, q, f, p) /\ Owns(h, r, g, p) => q = r /\ f = g
    /\ \A p \in DOMAIN h : \/ p \in R
                           \/ \E q, f : Owns(h, q, f, p)
                           \/ EmptyArray(h, p)

-----------------------------------------------------------------------------
(* The allocator. *)

\* A set of numbers that is not empty has a least one.
LEMMA LeastNumber ==
    ASSUME NEW T \in SUBSET Nat, T # {}
    PROVE  \E x \in T : \A y \in T : x <= y
<1> DEFINE Less == OpToRel(<, Nat)
<1>1. \E x \in T : \A y \in T : <<y, x>> \notin Less
  <2> HIDE DEF Less
  <2>1. IsWellFoundedOn(Less, Nat)
    BY NatLessThanWellFounded DEF Less
  <2> QED
    BY <2>1, WFMin
<1>2. ASSUME NEW x \in T, NEW y \in T, <<y, x>> \notin Less PROVE x <= y
  <2>1. ~ (y < x)
    BY <1>2 DEF OpToRel
  <2> QED
    BY <2>1
<1> QED
  BY <1>1, <1>2

\* malloc finds a free place of the kind.
LEMMA FreshIsFree ==
    ASSUME NEW h, NEW kind, IsFiniteSet(DOMAIN h), DOMAIN h \subseteq Pointer
    PROVE  /\ Fresh(h, kind) \notin DOMAIN h
           /\ Fresh(h, kind) \in Kind(kind)
<1> DEFINE mine == {q \in DOMAIN h : q[1] = kind}
           taken == {p[2] : p \in mine}
           k == Cardinality(taken)
           First(n) == n \notin taken /\ 1..(n - 1) \subseteq taken
<1>1. IsFiniteSet(taken) /\ k \in Nat
  <2>1. IsFiniteSet(mine)
    BY FS_Subset
  <2> HIDE DEF mine
  <2>2. IsFiniteSet(taken)
    <3> DEFINE number == [p \in mine |-> p[2]]
    <3>1. number \in Surjection(mine, taken)
      BY DEF Surjection
    <3> HIDE DEF number, taken
    <3> QED
      BY <2>1, <3>1, FS_Surjection
  <2> QED
    BY <2>2, FS_CardinalityType
<1>2. (1..(k + 1)) \ taken # {}
  <2> SUFFICES ASSUME 1..(k + 1) \subseteq taken PROVE FALSE
    OBVIOUS
  <2> HIDE DEF taken
  <2>1. Cardinality(1..(k + 1)) <= k
    BY <1>1, FS_Subset
  <2>2. Cardinality(1..(k + 1)) = k + 1
    BY <1>1, FS_Interval
  <2> QED
    BY <1>1, <2>1, <2>2
<1>3. PICK x \in (1..(k + 1)) \ taken : \A y \in (1..(k + 1)) \ taken : x <= y
  <2> DEFINE T == (1..(k + 1)) \ taken
  <2>1. T \in SUBSET Nat
    BY <1>1
  <2> HIDE DEF T
  <2> QED
    BY <1>2, <2>1, LeastNumber DEF T
<1>4. First(x)
  <2> HIDE DEF taken
  <2>1. x \in 1..(k + 1) /\ x \notin taken
    OBVIOUS
  <2>2. ASSUME NEW y \in 1..(x - 1) PROVE y \in taken
    <3>1. y \in 1..(k + 1) /\ ~ (x <= y)
      BY <1>1, <2>1
    <3> QED
      BY <1>3, <3>1
  <2> QED
    BY <2>1, <2>2
<1> DEFINE n == CHOOSE i \in 1..(k + 1) : First(i)
<1>5. n \in 1..(k + 1) /\ First(n)
  <2> HIDE DEF First
  <2> QED
    BY <1>4
<1>6. Fresh(h, kind) = <<kind, n>>
  BY DEF Fresh
<1> HIDE DEF n
<1>7. <<kind, n>> \in Kind(kind)
  BY <1>1, <1>5 DEF Kind
<1>8. <<kind, n>> \notin DOMAIN h
  <2> SUFFICES ASSUME <<kind, n>> \in DOMAIN h PROVE FALSE
    OBVIOUS
  <2>1. <<kind, n>> \in mine
    OBVIOUS
  <2>2. n \in taken
    BY <2>1
  <2> QED
    BY <1>5, <2>2
<1> QED
  BY <1>6, <1>7, <1>8

\* free takes the block at p out of the heap and leaves the rest.
LEMMA FreeIs ==
    ASSUME NEW h, NEW p \in DOMAIN h, p # NULL
    PROVE  Free(h, p) = [q \in DOMAIN h \ {p} |-> h[q]]
<1>1. Read(h, {p}) = h
  BY DEF Read
<1> QED
  BY <1>1 DEF Free, Restrict

LEMMA NullIsNoPointer == NULL \notin Pointer
BY MemoryAssumption

\* A block points to other blocks than itself, and to blocks of other kinds.
LEMMA HeldArePointers ==
    ASSUME NEW p \in Pointer, NEW b, Fit(p, b)
    PROVE  /\ Held(p, b) \subseteq Pointer
           /\ p \notin Held(p, b)
<1> SUFFICES ASSUME NEW x \in Held(p, b) PROVE x \in Pointer /\ x # p
  OBVIOUS
<1>1. PICK f \in Owning(p, b) : x = b[f] /\ x # NULL
  BY DEF Held
<1>2. CASE p[1] = "codec"
  <2>1. b \in CodecBlock /\ f \in {"routing_id", "epochs", "times"}
    BY <1>1, <1>2 DEF Fit, Owning
  <2>2. x \in Kind("frame") \cup Kind("chunk")
    BY <1>1, <2>1 DEF CodecBlock
  <2> QED
    BY <1>2, <2>2 DEF Kind, Pointer
<1>3. CASE p[1] = "timeline"
  <2>1. b \in TimelineBlock /\ f \in {"epochs", "times"}
    BY <1>1, <1>3 DEF Fit, Owning
  <2>2. x \in Kind("int[]") \cup Kind("int64_t[]")
    BY <1>1, <2>1 DEF TimelineBlock
  <2> QED
    BY <1>3, <2>2 DEF Kind, Pointer
<1> QED
  BY <1>1, <1>2, <1>3 DEF Owning

\* A block that is new or that an outside pointer points to is written.  What
\* it held goes to the outside; what it holds now comes from there.
LEMMA PutKeepsOrder ==
    ASSUME NEW h, NEW R, InOrder(h, R), NEW p \in Pointer, NEW b, Fit(p, b),
           p \in R \/ p \notin DOMAIN h,
           Held(p, b) \subseteq R \cup HeldIn(h, p),
           \A f, g \in Owning(p, b) : b[f] = b[g] /\ b[f] # NULL => f = g
    PROVE  InOrder(Put(h, p, b),
                   ((R \cup HeldIn(h, p)) \ Held(p, b)) \cup {p})
<1> DEFINE N == Put(h, p, b)
           old == HeldIn(h, p)
           S == ((R \cup old) \ Held(p, b)) \cup {p}
<1>1. /\ DOMAIN N = DOMAIN h \cup {p}
      /\ N[p] = b
      /\ \A q \in DOMAIN h : q # p => N[q] = h[q]
      /\ N = [q \in DOMAIN N |-> N[q]]
  BY DEF Put
<1> HIDE DEF N
<1>2. Shaped(N)
  <2>1. IsFiniteSet(DOMAIN N)
    BY <1>1, FS_AddElement DEF InOrder, Shaped
  <2>2. \A q \in DOMAIN N : Fit(q, N[q])
    BY <1>1 DEF InOrder, Shaped
  <2> QED
    BY <1>1, <2>1, <2>2 DEF InOrder, Shaped
<1>3. \A q, f, x : Owns(N, q, f, x) <=>
          \/ q = p /\ f \in Owning(p, b) /\ b[f] = x /\ x # NULL
          \/ q # p /\ Owns(h, q, f, x)
  BY <1>1 DEF Owns
<1>4. \A x : x \in old <=> \E f : Owns(h, p, f, x)
  BY DEF HeldIn, Held, Owns
<1>5. \A x : x \in Held(p, b) <=> \E f \in Owning(p, b) : b[f] = x /\ x # NULL
  BY DEF Held
<1>6. old \subseteq DOMAIN h /\ old \cap R = {}
  BY <1>4 DEF InOrder
<1>7. p \notin Held(p, b) /\ Held(p, b) \subseteq R \cup old
  BY HeldArePointers
<1> HIDE DEF old
<1>8. S \subseteq DOMAIN N
  BY <1>1, <1>6 DEF InOrder
<1>9. ASSUME NEW q, NEW f, NEW x, Owns(N, q, f, x)
      PROVE  x \in DOMAIN N /\ x \notin S
  <2>1. CASE q = p
    <3>1. x \in Held(p, b)
      BY <1>3, <1>5, <1>9, <2>1
    <3> QED
      BY <1>1, <1>6, <1>7, <3>1 DEF InOrder
  <2>2. CASE q # p
    <3>1. Owns(h, q, f, x)
      BY <1>3, <1>9, <2>2
    <3>2. x \in DOMAIN h /\ x \notin R
      BY <3>1 DEF InOrder
    <3>3. x \notin old
      BY <1>4, <2>2, <3>1 DEF InOrder
    <3> QED
      BY <1>1, <3>2, <3>3
  <2> QED
    BY <2>1, <2>2
<1>10. ASSUME NEW q, NEW f, NEW r, NEW g, NEW x, Owns(N, q, f, x), Owns(N, r, g, x)
       PROVE  q = r /\ f = g
  <2>1. ASSUME NEW i, NEW j, NEW k, Owns(N, p, i, x), Owns(N, j, k, x), j # p
        PROVE  FALSE
    <3>1. x \in R \cup old
      BY <1>3, <1>5, <1>7, <2>1
    <3>2. Owns(h, j, k, x)
      BY <1>3, <2>1
    <3>3. x \notin R
      BY <3>2 DEF InOrder
    <3> QED
      BY <1>4, <2>1, <3>1, <3>2, <3>3 DEF InOrder
  <2>2. CASE q = p /\ r = p
    BY <1>3, <1>10, <2>2
  <2>3. CASE q # p /\ r # p
    BY <1>3, <1>10, <2>3 DEF InOrder
  <2> QED
    BY <1>10, <2>1, <2>2, <2>3
<1>11. ASSUME NEW x \in DOMAIN N
       PROVE  x \in S \/ (\E q, f : Owns(N, q, f, x)) \/ EmptyArray(N, x)
  <2>1. CASE x = p \/ x \in R \/ x \in old
    BY <1>3, <1>5, <2>1
  <2>2. CASE x # p /\ \E q, f : Owns(h, q, f, x)
    BY <1>3, <1>4, <2>1, <2>2
  <2>3. CASE x # p /\ EmptyArray(h, x)
    BY <1>1, <2>3 DEF EmptyArray
  <2> QED
    BY <1>1, <2>1, <2>2, <2>3 DEF InOrder
<1> QED
  BY <1>2, <1>8, <1>9, <1>10, <1>11 DEF InOrder, N, old

\* A block that only an outside pointer points to, and that holds nothing, is
\* freed.
LEMMA FreeKeepsOrder ==
    ASSUME NEW h, NEW R, InOrder(h, R), NEW p \in R, Held(p, h[p]) = {}
    PROVE  InOrder(Free(h, p), R \ {p})
<1> DEFINE N == Free(h, p)
<1>1. p \in DOMAIN h /\ p # NULL
  BY NullIsNoPointer DEF InOrder, Shaped
<1>2. N = [q \in DOMAIN h \ {p} |-> h[q]]
  BY <1>1, FreeIs
<1>3. /\ DOMAIN N = DOMAIN h \ {p}
      /\ \A q \in DOMAIN N : N[q] = h[q]
      /\ N = [q \in DOMAIN N |-> N[q]]
  BY <1>2
<1> HIDE DEF N
<1>4. Shaped(N)
  <2>1. IsFiniteSet(DOMAIN N)
    BY <1>3, FS_Subset DEF InOrder, Shaped
  <2> QED
    BY <1>3, <2>1 DEF InOrder, Shaped
<1>5. \A q, f, x : ~ (Owns(h, q, f, x) /\ q = p)
  BY DEF Held, Owns
<1>6. \A q, f, x : Owns(N, q, f, x) <=> Owns(h, q, f, x)
  BY <1>3, <1>5 DEF Owns
<1>7. R \ {p} \subseteq DOMAIN N
  BY <1>3 DEF InOrder
<1>8. \A q, f, x : Owns(N, q, f, x) => x \in DOMAIN N /\ x \notin R \ {p}
  BY <1>3, <1>6 DEF InOrder
<1>9. \A q, f, r, g, x : Owns(N, q, f, x) /\ Owns(N, r, g, x) => q = r /\ f = g
  BY <1>6 DEF InOrder
<1>10. ASSUME NEW x \in DOMAIN N
       PROVE  x \in R \ {p} \/ (\E q, f : Owns(N, q, f, x)) \/ EmptyArray(N, x)
  BY <1>3, <1>6 DEF InOrder, EmptyArray
<1> QED
  BY <1>4, <1>7, <1>8, <1>9, <1>10 DEF InOrder, N

\* An outside pointer to an empty array may be forgotten.
LEMMA EmptyArrayMayLeak ==
    ASSUME NEW h, NEW R, InOrder(h, R), NEW p, EmptyArray(h, p)
    PROVE  InOrder(h, R \ {p})
BY DEF InOrder

\* What is outside is live, and is not held.
LEMMA RootsAreLive ==
    ASSUME NEW h, NEW R, InOrder(h, R)
    PROVE  /\ R \subseteq DOMAIN h
           /\ DOMAIN h \subseteq Pointer
           /\ NULL \notin R /\ NULL \notin DOMAIN h
           /\ \A q \in DOMAIN h : /\ Held(q, h[q]) \subseteq DOMAIN h \ R
                                  /\ HeldIn(h, q) = Held(q, h[q])
                                  /\ Fit(q, h[q])
<1>1. R \subseteq DOMAIN h /\ DOMAIN h \subseteq Pointer
  BY DEF InOrder, Shaped
<1>2. ASSUME NEW q \in DOMAIN h, NEW x \in Held(q, h[q]) PROVE x \in DOMAIN h \ R
  <2>1. PICK f : Owns(h, q, f, x)
    BY <1>2 DEF Held, Owns
  <2> QED
    BY <2>1 DEF InOrder
<1> QED
  BY <1>1, <1>2, NullIsNoPointer DEF HeldIn, InOrder, Shaped

LEMMA LeafHoldsNothing ==
    ASSUME NEW p, NEW b, p[1] \in LeafKinds
    PROVE  Held(p, b) = {}
BY DEF LeafKinds, Held, Owning

\* free, zchunk_destroy and zframe_destroy of a pointer that may be NULL.
LEMMA FreeLeaf ==
    ASSUME NEW h, NEW R, InOrder(h, R), NEW p \in R \cup {NULL},
           p = NULL \/ p[1] \in LeafKinds
    PROVE  /\ InOrder(Free(h, p), R \ {p})
           /\ DOMAIN Free(h, p) = DOMAIN h \ {p}
           /\ \A q \in DOMAIN h \ {p} : Free(h, p)[q] = h[q]
<1>1. NULL \notin R /\ NULL \notin DOMAIN h /\ R \subseteq DOMAIN h
  BY RootsAreLive
<1>2. CASE p = NULL
  <2>1. Free(h, p) = h
    BY <1>2 DEF Free
  <2>2. R \ {p} = R /\ DOMAIN h \ {p} = DOMAIN h
    BY <1>1, <1>2
  <2> QED
    BY <2>1, <2>2
<1>3. CASE p # NULL
  <2>1. Held(p, h[p]) = {}
    BY <1>3, LeafHoldsNothing
  <2>2. Free(h, p) = [q \in DOMAIN h \ {p} |-> h[q]]
    BY <1>1, <1>3, FreeIs
  <2> QED
    BY <1>1, <1>3, <2>1, <2>2, FreeKeepsOrder
<1> QED
  BY <1>2, <1>3

LEMMA FreshDependsOnDomain ==
    ASSUME NEW h, NEW g, DOMAIN h = DOMAIN g, NEW kind
    PROVE  Fresh(h, kind) = Fresh(g, kind)
BY DEF Fresh

\* A new block that holds nothing.
LEMMA NewBlock ==
    ASSUME NEW h, NEW R, InOrder(h, R), NEW p \in Pointer, p \notin DOMAIN h,
           NEW b, Fit(p, b), Held(p, b) = {}
    PROVE  /\ InOrder(Put(h, p, b), R \cup {p})
           /\ p \notin R
<1>1. HeldIn(h, p) = {}
  BY DEF HeldIn
<1>2. \A f, g \in Owning(p, b) : b[f] = b[g] /\ b[f] # NULL => f = g
  BY DEF Held
<1>3. InOrder(Put(h, p, b), ((R \cup HeldIn(h, p)) \ Held(p, b)) \cup {p})
  BY <1>1, <1>2, PutKeepsOrder
<1>4. ((R \cup HeldIn(h, p)) \ Held(p, b)) \cup {p} = R \cup {p}
  BY <1>1
<1> QED
  BY <1>3, <1>4, RootsAreLive

\* malloc, zchunk_new, zframe_dup.
LEMMA NewLeaf ==
    ASSUME NEW h, NEW R, InOrder(h, R), NEW kind \in LeafKinds, NEW n \in Nat
    PROVE  LET p == Fresh(h, kind)
           IN  /\ p \in Kind(kind) /\ p \in Pointer
               /\ p \notin DOMAIN h /\ p \notin R
               /\ InOrder(Put(h, p, [size |-> n]), R \cup {p})
<1> DEFINE p == Fresh(h, kind)
<1>1. p \notin DOMAIN h /\ p \in Kind(kind)
  BY FreshIsFree DEF InOrder, Shaped
<1> HIDE DEF p
<1>2. p \in Pointer /\ p[1] = kind
  BY <1>1 DEF Kind, Pointer, LeafKinds
<1>3. Fit(p, [size |-> n])
  BY <1>2 DEF Fit, LeafBlock, LeafKinds
<1>4. Held(p, [size |-> n]) = {}
  BY <1>2, LeafHoldsNothing
<1> QED
  BY <1>1, <1>2, <1>3, <1>4, NewBlock DEF p

-----------------------------------------------------------------------------
(* dax_timeline_codec. *)

\* The pointers in a codec object, and the kind of block each is for.
CodecFields == {"routing_id", "epochs", "times"}

KindIn(f) == IF f = "routing_id" THEN "frame" ELSE "chunk"

LEMMA CodecFits ==
    ASSUME NEW c \in Kind("codec"), NEW b
    PROVE  /\ c \in Pointer
           /\ Fit(c, b) <=> b \in CodecBlock
           /\ Held(c, b) = {b[f] : f \in CodecFields} \ {NULL}
           /\ Owning(c, b) = CodecFields
<1>1. c[1] = "codec" /\ c \in Pointer
  BY DEF Kind, Pointer
<1> QED
  BY <1>1 DEF Fit, Held, Owning, CodecFields, LeafKinds

LEMMA CodecBlockFields ==
    ASSUME NEW b \in CodecBlock, NEW f \in CodecFields
    PROVE  /\ b[f] \in Kind(KindIn(f)) \cup {NULL}
           /\ b[f] = NULL \/ b[f][1] \in LeafKinds
           /\ \A v \in Kind(KindIn(f)) \cup {NULL} : [b EXCEPT ![f] = v] \in CodecBlock
           /\ \A v : /\ [b EXCEPT ![f] = v][f] = v
                     /\ \A g \in CodecFields : g # f => [b EXCEPT ![f] = v][g] = b[g]
<1>1. b[f] \in Kind(KindIn(f)) \cup {NULL}
  BY DEF CodecBlock, CodecFields, KindIn
<1>2. b[f] = NULL \/ b[f][1] \in LeafKinds
  BY <1>1 DEF Kind, KindIn, LeafKinds
<1>3. ASSUME NEW v \in Kind(KindIn(f)) \cup {NULL} PROVE [b EXCEPT ![f] = v] \in CodecBlock
  BY DEF CodecBlock, CodecFields, KindIn
<1>4. \A v : /\ [b EXCEPT ![f] = v][f] = v
             /\ \A g \in CodecFields : g # f => [b EXCEPT ![f] = v][g] = b[g]
  BY DEF CodecBlock, CodecFields
<1> QED
  BY <1>1, <1>2, <1>3, <1>4

\* The fields of a live codec object.
LEMMA CodecInHand ==
    ASSUME NEW h, NEW R, InOrder(h, R), NEW c \in R, c \in Kind("codec")
    PROVE  /\ c \in DOMAIN h
           /\ h[c] \in CodecBlock
           /\ \A f \in CodecFields :
                 h[c][f] # NULL => /\ h[c][f] \in DOMAIN h
                                   /\ h[c][f] \notin R
                                   /\ \A g \in CodecFields :
                                         h[c][g] = h[c][f] => g = f
<1>1. c \in DOMAIN h /\ h[c] \in CodecBlock
  BY CodecFits, RootsAreLive
<1>2. Owning(c, h[c]) = CodecFields
  BY CodecFits
<1>3. \A f \in CodecFields : h[c][f] # NULL => Owns(h, c, f, h[c][f])
  BY <1>1, <1>2 DEF Owns
<1>4. \A f, g \in CodecFields : h[c][f] # NULL /\ h[c][g] = h[c][f] => g = f
  BY <1>3 DEF InOrder
<1> QED
  BY <1>1, <1>3, <1>4 DEF InOrder

\* One field of a codec object gives away what it held and takes what was
\* outside.
LEMMA SetField ==
    ASSUME NEW h, NEW R, InOrder(h, R), NEW c \in R, c \in Kind("codec"),
           NEW f \in CodecFields, NEW v \in Kind(KindIn(f)) \cup {NULL},
           v \in R \/ v = NULL
    PROVE  InOrder([h EXCEPT ![c][f] = v], (R \cup ({h[c][f]} \ {NULL})) \ {v})
<1> DEFINE b == [h[c] EXCEPT ![f] = v]
           old == h[c][f]
           S == (R \cup ({old} \ {NULL})) \ {v}
<1>1. /\ c \in DOMAIN h /\ h[c] \in CodecBlock
      /\ \A g \in CodecFields :
            h[c][g] # NULL => /\ h[c][g] \in DOMAIN h
                              /\ h[c][g] \notin R
                              /\ \A k \in CodecFields : h[c][k] = h[c][g] => k = g
  BY CodecInHand
<1>2. /\ b \in CodecBlock
      /\ b[f] = v
      /\ \A g \in CodecFields : g # f => b[g] = h[c][g]
  BY <1>1, CodecBlockFields
<1>3. [h EXCEPT ![c][f] = v] = Put(h, c, b)
  <2>1. h = [q \in DOMAIN h |-> h[q]]
    BY DEF InOrder, Shaped
  <2>2. [h EXCEPT ![c][f] = v] = [h EXCEPT ![c] = b]
    BY <1>1, <2>1
  <2>3. DOMAIN h \cup {c} = DOMAIN h
    BY <1>1
  <2> HIDE DEF b
  <2> QED
    BY <1>1, <2>1, <2>2, <2>3 DEF Put
<1> HIDE DEF b
<1>4. /\ c \in Pointer
      /\ Fit(c, b)
      /\ Held(c, b) = {b[g] : g \in CodecFields} \ {NULL}
      /\ HeldIn(h, c) = {h[c][g] : g \in CodecFields} \ {NULL}
      /\ Owning(c, b) = CodecFields
  BY <1>1, <1>2, CodecFits DEF HeldIn
<1>5. Held(c, b) \subseteq R \cup HeldIn(h, c)
  BY <1>2, <1>4
<1>6. \A g, k \in Owning(c, b) : b[g] = b[k] /\ b[g] # NULL => g = k
  BY <1>1, <1>2, <1>4
<1>7. InOrder(Put(h, c, b), ((R \cup HeldIn(h, c)) \ Held(c, b)) \cup {c})
  BY <1>4, <1>5, <1>6, PutKeepsOrder
<1>8. ((R \cup HeldIn(h, c)) \ Held(c, b)) \cup {c} = S
  <2>1. c # v /\ NULL \notin R
    BY RootsAreLive DEF Kind, KindIn
  <2>2. ASSUME NEW x \in HeldIn(h, c), x \notin Held(c, b) PROVE x \in S
    <3>1. PICK g \in CodecFields : x = h[c][g] /\ x # NULL
      BY <1>4, <2>2
    <3>2. g = f
      BY <1>2, <1>4, <2>2, <3>1
    <3>3. x # v
      BY <1>1, <2>1, <3>1
    <3> QED
      BY <3>1, <3>2, <3>3
  <2>3. ASSUME NEW x \in R, x \notin Held(c, b) PROVE x \in S
    <3>1. x # v
      BY <1>2, <1>4, <2>1, <2>3
    <3> QED
      BY <3>1
  <2>4. ASSUME NEW x \in S, x # c
        PROVE  x \in R \cup HeldIn(h, c) /\ x \notin Held(c, b)
    <3>1. x \in R \cup HeldIn(h, c)
      BY <1>4
    <3>2. \A g \in CodecFields : x # b[g]
      BY <1>1, <1>2, <2>1, <2>4
    <3> QED
      BY <1>4, <3>1, <3>2
  <2>5. c \in S
    BY <2>1
  <2> QED
    BY <2>2, <2>3, <2>4, <2>5
<1> QED
  BY <1>3, <1>7, <1>8

\* set_epochs, set_times.
LEMMA SetChunkKeepsOrder ==
    ASSUME NEW h, NEW R, InOrder(h, R), NEW c \in R, c \in Kind("codec"),
           NEW f \in {"epochs", "times"}, NEW v \in Kind("chunk") \cup {NULL},
           v \in R \/ v = NULL
    PROVE  InOrder(SetChunk(h, c, f, v), R \ {v})
<1> DEFINE old == h[c][f]
           h1 == [h EXCEPT ![c][f] = v]
           R1 == (R \cup ({old} \ {NULL})) \ {v}
<1>1. /\ c \in DOMAIN h /\ h[c] \in CodecBlock
      /\ f \in CodecFields /\ KindIn(f) = "chunk"
      /\ old # NULL => old \notin R
      /\ NULL \notin R
      /\ h = [q \in DOMAIN h |-> h[q]]
  BY CodecInHand, RootsAreLive DEF CodecFields, KindIn, InOrder, Shaped
<1>2. InOrder(h1, R1)
  BY <1>1, SetField
<1>3. old = NULL \/ old[1] \in LeafKinds
  BY <1>1, CodecBlockFields
<1>4. old \in R1 \cup {NULL}
  BY <1>1
<1>5. InOrder(Free(h1, old), R1 \ {old})
  BY <1>2, <1>3, <1>4, FreeLeaf
<1>6. R1 \ {old} = R \ {v}
  BY <1>1
<1>7. Free(h1, old) = SetChunk(h, c, f, v)
  <2>1. CASE old = NULL
    BY <2>1 DEF Free, SetChunk
  <2>2. CASE old # NULL
    <3>1. old \in DOMAIN h /\ old # c
      BY <1>1, <2>2, CodecInHand
    <3>2. Free(h, old) = [q \in DOMAIN h \ {old} |-> h[q]]
      BY <2>2, <3>1, FreeIs
    <3>3. Free(h1, old) = [q \in DOMAIN h \ {old} |-> h1[q]]
      <4>1. DOMAIN h1 = DOMAIN h
        OBVIOUS
      <4> HIDE DEF h1, old
      <4> QED
        BY <2>2, <3>1, <4>1, FreeIs
    <3>4. SetChunk(h, c, f, v) = [Free(h, old) EXCEPT ![c][f] = v]
      BY DEF SetChunk
    <3> QED
      BY <1>1, <3>1, <3>2, <3>3, <3>4
  <2> QED
    BY <2>1, <2>2
<1> QED
  BY <1>5, <1>6, <1>7

\* What SetNewChunk, a ROUTER's recv and set_routing_id have in common: what
\* was in the field is freed, and a new block takes its place.
Renewed(h, c, f) ==
    LET freed == Free(h, h[c][f])
        new   == Fresh(freed, KindIn(f))
    IN  [Put(freed, new, Octets) EXCEPT ![c][f] = new]

LEMMA RenewedKeepsOrder ==
    ASSUME NEW h, NEW R, InOrder(h, R), NEW c \in R, c \in Kind("codec"),
           NEW f \in CodecFields
    PROVE  /\ InOrder(Renewed(h, c, f), R)
           /\ R \subseteq DOMAIN Free(h, h[c][f])
           /\ \A q \in R : q # c => Renewed(h, c, f)[q] = h[q]
<1> DEFINE old == h[c][f]
           h1 == [h EXCEPT ![c][f] = NULL]
           R1 == R \cup ({old} \ {NULL})
           h2 == Free(h1, old)
           freed == Free(h, old)
           new == Fresh(freed, KindIn(f))
           h3 == Put(h2, new, Octets)
           h4 == [h3 EXCEPT ![c][f] = new]
<1>1. /\ c \in DOMAIN h /\ h[c] \in CodecBlock
      /\ old # NULL => old \in DOMAIN h /\ old \notin R /\ old # c
      /\ NULL \notin R /\ NULL \notin DOMAIN h
      /\ R \subseteq DOMAIN h
      /\ h = [q \in DOMAIN h |-> h[q]]
  BY CodecInHand, RootsAreLive DEF InOrder, Shaped
<1>2. InOrder(h1, R1)
  <2>1. InOrder(h1, R1 \ {NULL})
    BY SetField
  <2>2. R1 \ {NULL} = R1
    BY <1>1
  <2> QED
    BY <2>1, <2>2
<1>3. /\ InOrder(h2, R)
      /\ DOMAIN h2 = DOMAIN h \ {old}
      /\ \A q \in DOMAIN h \ {old} : h2[q] = h1[q]
  <2>1. old = NULL \/ old[1] \in LeafKinds
    BY <1>1, CodecBlockFields
  <2>2. R1 \ {old} = R /\ old \in R1 \cup {NULL}
    BY <1>1
  <2>3. DOMAIN h1 = DOMAIN h
    OBVIOUS
  <2> HIDE DEF h1, R1, old
  <2> QED
    BY <1>2, <2>1, <2>2, <2>3, FreeLeaf
<1>4. /\ freed = [q \in DOMAIN h \ {old} |-> h[q]]
      /\ DOMAIN freed = DOMAIN h2
  <2>1. CASE old = NULL
    <3>1. DOMAIN h \ {old} = DOMAIN h /\ freed = h
      BY <1>1, <2>1 DEF Free
    <3> QED
      BY <1>1, <1>3, <3>1
  <2>2. CASE old # NULL
    <3>1. freed = [q \in DOMAIN h \ {old} |-> h[q]]
      BY <1>1, <2>2, FreeIs
    <3> QED
      BY <1>3, <3>1
  <2> QED
    BY <2>1, <2>2
<1> HIDE DEF h2, freed
<1>5. /\ new \in Kind(KindIn(f))
      /\ new \notin DOMAIN h2 /\ new \notin R
      /\ InOrder(h3, R \cup {new})
  <2>1. new = Fresh(h2, KindIn(f))
    BY <1>4, FreshDependsOnDomain
  <2>2. KindIn(f) \in LeafKinds
    BY DEF KindIn, LeafKinds
  <2> QED
    BY <1>3, <2>1, <2>2, NewLeaf DEF Octets
<1> HIDE DEF new
<1>6. c \in DOMAIN h2 /\ c # new /\ h2[c] = [h[c] EXCEPT ![f] = NULL]
  BY <1>1, <1>3, <1>5
<1>7. /\ DOMAIN h3 = DOMAIN h2 \cup {new}
      /\ h3[new] = Octets
      /\ \A q \in DOMAIN h2 : h3[q] = h2[q]
      /\ h3 = [q \in DOMAIN h3 |-> h3[q]]
  BY <1>5 DEF Put
<1>8. InOrder(h4, R)
  <2>1. h3[c][f] = NULL
    BY <1>1, <1>6, <1>7, CodecBlockFields
  <2>2. InOrder(h4, ((R \cup {new}) \cup ({h3[c][f]} \ {NULL})) \ {new})
    <3> HIDE DEF h3
    <3> QED
      BY <1>5, SetField
  <2>3. ((R \cup {new}) \cup ({h3[c][f]} \ {NULL})) \ {new} = R
    BY <1>5, <2>1
  <2> QED
    BY <2>2, <2>3
<1>9. h4 = Renewed(h, c, f)
  <2> DEFINE g3 == Put(freed, new, Octets)
             g4 == [g3 EXCEPT ![c][f] = new]
  <2>1. Renewed(h, c, f) = g4
    BY DEF Renewed, new, freed
  <2>2. /\ DOMAIN g3 = DOMAIN h3
        /\ g3 = [q \in DOMAIN g3 |-> g3[q]]
        /\ g3[new] = Octets
        /\ \A q \in DOMAIN h2 : g3[q] = h[q]
    <3>1. /\ DOMAIN g3 = DOMAIN freed \cup {new}
          /\ g3 = [q \in DOMAIN g3 |-> g3[q]]
          /\ g3[new] = Octets
          /\ \A q \in DOMAIN freed : q # new => g3[q] = freed[q]
      BY DEF Put
    <3> HIDE DEF g3, h3
    <3> QED
      BY <1>3, <1>4, <1>5, <1>7, <3>1
  <2>3. \A q \in DOMAIN h2 : q # c => h2[q] = h[q]
    BY <1>1, <1>3
  <2>4. [h3[c] EXCEPT ![f] = new] = [g3[c] EXCEPT ![f] = new]
    <3>1. h3[c] = [h[c] EXCEPT ![f] = NULL] /\ g3[c] = h[c]
      BY <1>6, <1>7, <2>2
    <3> HIDE DEF g3, h3
    <3> QED
      BY <1>1, <3>1 DEF CodecBlock
  <2> HIDE DEF g3, h3
  <2>5. c \in DOMAIN h3
    BY <1>6, <1>7
  <2>6. h4 = [q \in DOMAIN h3 |-> IF q = c THEN [h3[c] EXCEPT ![f] = new] ELSE h3[q]]
    BY <1>7, <2>5
  <2>7. g4 = [q \in DOMAIN g3 |-> IF q = c THEN [g3[c] EXCEPT ![f] = new] ELSE g3[q]]
    BY <2>2, <2>5
  <2>8. \A q \in DOMAIN h3 : q # c => h3[q] = g3[q]
    BY <1>7, <2>2, <2>3
  <2> HIDE DEF g4
  <2> QED
    BY <2>1, <2>2, <2>4, <2>6, <2>7, <2>8
<1>10. \A q \in R : q # c => h4[q] = h[q]
  <2>1. R \subseteq DOMAIN h2
    BY <1>3 DEF InOrder
  <2> HIDE DEF h3
  <2> QED
    BY <1>1, <1>3, <1>5, <1>6, <1>7, <2>1
<1>11. R \subseteq DOMAIN freed
  BY <1>3, <1>4 DEF InOrder
<1> QED
  BY <1>8, <1>9, <1>10, <1>11 DEF freed

-----------------------------------------------------------------------------
(* Blocks whose contents dangle while their last owner lets go of them. *)

\* The heaps h and g differ in what is in c, at most.
Alike(h, g, c) ==
    /\ DOMAIN h = DOMAIN g
    /\ h = [q \in DOMAIN h |-> h[q]]
    /\ g = [q \in DOMAIN g |-> g[q]]
    /\ \A q \in DOMAIN h : q # c => h[q] = g[q]

\* But for what is in c, h is in order with nothing in c.
EmptiedAt(h, R, c) == \E g : InOrder(g, R) /\ Alike(h, g, c) /\ Held(c, g[c]) = {}

LEMMA FreeAlike ==
    ASSUME NEW h, NEW g, NEW c, Alike(h, g, c), NEW p, p = NULL \/ p \in DOMAIN h
    PROVE  /\ Alike(Free(h, p), Free(g, p), c)
           /\ p = c /\ p # NULL => Free(h, p) = Free(g, p)
<1>1. CASE p = NULL
  BY <1>1 DEF Free
<1>2. CASE p # NULL
  <2>1. /\ Free(h, p) = [q \in DOMAIN h \ {p} |-> h[q]]
        /\ Free(g, p) = [q \in DOMAIN g \ {p} |-> g[q]]
    BY <1>2, FreeIs DEF Alike
  <2> QED
    BY <2>1 DEF Alike
<1> QED
  BY <1>1, <1>2

\* One of the things that c held is freed.
LEMMA FreeHeld ==
    ASSUME NEW h, NEW g, NEW R, NEW c \in R, InOrder(g, R), Alike(h, g, c),
           NEW p \in R \cup {NULL}, p = NULL \/ p[1] \in LeafKinds,
           c[1] \notin LeafKinds
    PROVE  /\ InOrder(Free(g, p), R \ {p})
           /\ Alike(Free(h, p), Free(g, p), c)
           /\ Free(g, p)[c] = g[c]
           /\ c \in R \ {p}
<1>1. R \subseteq DOMAIN g /\ NULL \notin R /\ DOMAIN h = DOMAIN g
  BY RootsAreLive DEF Alike
<1>2. p # c
  BY <1>1
<1> QED
  BY <1>1, <1>2, FreeLeaf, FreeAlike

LEMMA EmptyingIt ==
    ASSUME NEW h, NEW R, InOrder(h, R), NEW c \in R, NEW b, Fit(c, b),
           Held(c, b) = {}
    PROVE  /\ InOrder(Put(h, c, b), R \cup Held(c, h[c]))
           /\ Alike(h, Put(h, c, b), c)
           /\ Put(h, c, b)[c] = b
<1>1. c \in DOMAIN h /\ c \in Pointer /\ h = [q \in DOMAIN h |-> h[q]]
  BY RootsAreLive DEF InOrder, Shaped
<1>2. \A f, g \in Owning(c, b) : b[f] = b[g] /\ b[f] # NULL => f = g
  BY DEF Held
<1>3. InOrder(Put(h, c, b), ((R \cup HeldIn(h, c)) \ Held(c, b)) \cup {c})
  BY <1>1, <1>2, PutKeepsOrder
<1>4. ((R \cup HeldIn(h, c)) \ Held(c, b)) \cup {c} = R \cup Held(c, h[c])
  BY <1>1 DEF HeldIn
<1>5. Alike(h, Put(h, c, b), c) /\ Put(h, c, b)[c] = b
  <2>1. DOMAIN h \cup {c} = DOMAIN h
    BY <1>1
  <2> QED
    BY <1>1, <2>1 DEF Alike, Put
<1> QED
  BY <1>3, <1>4, <1>5

LEMMA FreeEmptied ==
    ASSUME NEW h, NEW R, NEW c \in R, EmptiedAt(h, R, c)
    PROVE  InOrder(Free(h, c), R \ {c})
<1>1. PICK g : InOrder(g, R) /\ Alike(h, g, c) /\ Held(c, g[c]) = {}
  BY DEF EmptiedAt
<1>2. c \in DOMAIN h /\ c # NULL
  BY <1>1, RootsAreLive DEF Alike
<1>3. Free(h, c) = Free(g, c)
  BY <1>1, <1>2, FreeAlike
<1> QED
  BY <1>1, <1>3, FreeKeepsOrder

LEMMA NewCodecIsEmpty ==
    ASSUME NEW c \in Kind("codec")
    PROVE  Fit(c, NewCodec) /\ Held(c, NewCodec) = {}
<1>1. NewCodec \in CodecBlock /\ \A f \in CodecFields : NewCodec[f] = NULL
  BY DEF NewCodec, CodecBlock, CodecFields
<1> QED
  BY <1>1, CodecFits

\* dax_timeline_codec_destroy.
LEMMA DestroyCodecKeepsOrder ==
    ASSUME NEW h, NEW R, InOrder(h, R), NEW c \in R, c \in Kind("codec")
    PROVE  InOrder(DestroyCodec(h, c), R \ {c})
<1> DEFINE r == h[c].routing_id
           e == h[c].epochs
           m == h[c].times
           g0 == Put(h, c, NewCodec)
           g1 == Free(g0, r)
           g2 == Free(g1, e)
           g3 == Free(g2, m)
           h1 == Free(h, r)
           h2 == Free(h1, e)
           h3 == Free(h2, m)
           R0 == R \cup Held(c, h[c])
           R1 == R0 \ {r}
           R2 == R1 \ {e}
<1>1. /\ c \in DOMAIN h /\ h[c] \in CodecBlock /\ c # NULL /\ c[1] \notin LeafKinds
      /\ NULL \notin R
  BY CodecInHand, RootsAreLive DEF Kind, LeafKinds
<1>2. /\ r = NULL \/ r[1] \in LeafKinds
      /\ e = NULL \/ e[1] \in LeafKinds
      /\ m = NULL \/ m[1] \in LeafKinds
      /\ r # NULL => r \notin R /\ r # e /\ r # m
      /\ e # NULL => e \notin R /\ e # m
      /\ m # NULL => m \notin R
  <2>1. r = h[c]["routing_id"] /\ e = h[c]["epochs"] /\ m = h[c]["times"]
    OBVIOUS
  <2> HIDE DEF r, e, m
  <2> QED
    BY <1>1, <2>1, CodecInHand, CodecBlockFields DEF CodecFields
<1>3. Held(c, h[c]) = {r, e, m} \ {NULL}
  BY CodecFits DEF CodecFields
<1>4. InOrder(g0, R0) /\ Alike(h, g0, c) /\ g0[c] = NewCodec
  BY NewCodecIsEmpty, EmptyingIt
<1> HIDE DEF r, e, m, g0
<1>5. InOrder(g1, R1) /\ Alike(h1, g1, c) /\ g1[c] = NewCodec /\ c \in R1
  <2>1. r \in R0 \cup {NULL} /\ c \in R0
    BY <1>3
  <2> QED
    BY <1>1, <1>2, <1>4, <2>1, FreeHeld
<1> HIDE DEF g1, h1
<1>6. InOrder(g2, R2) /\ Alike(h2, g2, c) /\ g2[c] = NewCodec /\ c \in R2
  <2>1. e \in R1 \cup {NULL}
    BY <1>2, <1>3
  <2> HIDE DEF R1
  <2> QED
    BY <1>1, <1>2, <1>5, <2>1, FreeHeld
<1> HIDE DEF g2, h2
<1>7. InOrder(g3, R2 \ {m}) /\ Alike(h3, g3, c) /\ g3[c] = NewCodec
  <2>1. m \in R2 \cup {NULL}
    BY <1>2, <1>3
  <2> HIDE DEF R2
  <2> QED
    BY <1>1, <1>2, <1>6, <2>1, FreeHeld
<1>8. R2 \ {m} = R
  BY <1>1, <1>2, <1>3
<1>9. EmptiedAt(h3, R, c)
  <2> HIDE DEF h3, g3
  <2> QED
    BY <1>7, <1>8, NewCodecIsEmpty DEF EmptiedAt
<1>10. DestroyCodec(h, c) = Free(h3, c)
  BY <1>1 DEF DestroyCodec, h1, h2, r, e, m
<1> QED
  BY <1>9, <1>10, FreeEmptied

-----------------------------------------------------------------------------
(* dax_timeline. *)

LEMMA NewTimelineIsEmpty ==
    ASSUME NEW t \in Kind("timeline")
    PROVE  /\ t \in Pointer /\ t[1] = "timeline" /\ t[1] \notin LeafKinds
           /\ Fit(t, NewTimeline) /\ Held(t, NewTimeline) = {}
<1>1. t \in Pointer /\ t[1] = "timeline"
  BY DEF Kind, Pointer
<1>2. NewTimeline \in TimelineBlock /\ NewTimeline.size = 0
  BY DEF NewTimeline, TimelineBlock
<1> QED
  BY <1>1, <1>2 DEF Fit, Held, Owning, LeafKinds

\* A live timeline has a size, and holds its two arrays if that is not 0.
LEMMA TimelineInHand ==
    ASSUME NEW h, NEW R, InOrder(h, R), NEW t \in R, t \in Kind("timeline")
    PROVE  /\ t \in DOMAIN h
           /\ h[t].size \in Nat
           /\ h[t].size = 0 => Held(t, h[t]) = {}
           /\ h[t].size # 0 =>
                 /\ Held(t, h[t]) = {h[t].epochs, h[t].times}
                 /\ h[t].epochs \in Kind("int[]") /\ h[t].times \in Kind("int64_t[]")
                 /\ {h[t].epochs, h[t].times} \subseteq DOMAIN h \ R
<1> DEFINE b == h[t]
<1>1. t \in DOMAIN h /\ Fit(t, b) /\ Held(t, b) \subseteq DOMAIN h \ R
  BY RootsAreLive
<1>2. t[1] = "timeline"
  BY DEF Kind
<1> HIDE DEF b
<1>3. b \in TimelineBlock /\ (b.size > 0 => b.epochs # NULL /\ b.times # NULL)
  BY <1>1, <1>2 DEF Fit
<1>4. b.size \in Nat
  BY <1>3 DEF TimelineBlock
<1>5. CASE b.size = 0
  <2>1. Held(t, b) = {}
    BY <1>2, <1>5 DEF Held, Owning
  <2> QED
    BY <1>1, <1>4, <1>5, <2>1 DEF b
<1>6. CASE b.size # 0
  <2>1. b.size > 0
    BY <1>4, <1>6
  <2>2. Owning(t, b) = {"epochs", "times"}
    BY <1>2, <2>1 DEF Owning
  <2>3. Held(t, b) = {b.epochs, b.times}
    BY <1>3, <2>1, <2>2 DEF Held
  <2>4. b.epochs \in Kind("int[]") /\ b.times \in Kind("int64_t[]")
    BY <1>3, <2>1 DEF TimelineBlock
  <2> QED
    BY <1>1, <1>4, <1>6, <2>3, <2>4 DEF b
<1> QED
  BY <1>5, <1>6

\* The arrays of a timeline are freed, if it has a size.
LEMMA FreeArraysEmpties ==
    ASSUME NEW h, NEW R, InOrder(h, R), NEW t \in R, t \in Kind("timeline")
    PROVE  EmptiedAt(FreeArrays(h, t), R, t)
<1> DEFINE e == h[t].epochs
           m == h[t].times
           g0 == Put(h, t, NewTimeline)
           g1 == Free(g0, e)
           g2 == Free(g1, m)
           h1 == Free(h, e)
           h2 == Free(h1, m)
<1>1. /\ t \in DOMAIN h
      /\ h[t].size = 0 => Held(t, h[t]) = {}
      /\ h[t].size # 0 => /\ Held(t, h[t]) = {e, m}
                          /\ e \in Kind("int[]") /\ m \in Kind("int64_t[]")
                          /\ {e, m} \subseteq DOMAIN h \ R
  BY TimelineInHand
<1>2. CASE h[t].size = 0
  <2>1. FreeArrays(h, t) = h
    BY <1>2 DEF FreeArrays
  <2>2. Alike(h, h, t)
    BY DEF Alike, InOrder, Shaped
  <2> QED
    BY <1>1, <1>2, <2>1, <2>2 DEF EmptiedAt
<1>3. CASE h[t].size # 0
  <2>1. InOrder(g0, R \cup {e, m}) /\ Alike(h, g0, t) /\ g0[t] = NewTimeline
    BY <1>1, <1>3, EmptyingIt, NewTimelineIsEmpty
  <2>2. e[1] \in LeafKinds /\ m[1] \in LeafKinds /\ e # m /\ t[1] \notin LeafKinds
    BY <1>1, <1>3 DEF Kind, LeafKinds
  <2>3. e \notin R /\ m \notin R
    BY <1>1, <1>3
  <2> HIDE DEF e, m, g0
  <2>4. /\ InOrder(g1, (R \cup {e, m}) \ {e}) /\ Alike(h1, g1, t)
        /\ g1[t] = NewTimeline /\ t \in (R \cup {e, m}) \ {e}
    BY <2>1, <2>2, FreeHeld
  <2> HIDE DEF g1, h1
  <2>5. /\ InOrder(g2, ((R \cup {e, m}) \ {e}) \ {m}) /\ Alike(h2, g2, t)
        /\ g2[t] = NewTimeline
    BY <2>2, <2>4, FreeHeld
  <2>6. ((R \cup {e, m}) \ {e}) \ {m} = R
    BY <2>3
  <2>7. FreeArrays(h, t) = h2
    BY <1>3 DEF FreeArrays, h1, e, m
  <2> HIDE DEF g2, h2
  <2> QED
    BY <2>5, <2>6, <2>7, NewTimelineIsEmpty DEF EmptiedAt
<1> QED
  BY <1>2, <1>3

\* dax_timeline_destroy.
LEMMA DestroyTimelineKeepsOrder ==
    ASSUME NEW h, NEW R, InOrder(h, R), NEW t \in R \cup {NULL},
           t \in Kind("timeline") \cup {NULL}
    PROVE  InOrder(DestroyTimeline(h, t), R \ {t})
<1>1. NULL \notin R /\ R \subseteq Pointer
  BY RootsAreLive
<1>2. CASE t = NULL
  <2>1. R \ {t} = R
    BY <1>1, <1>2
  <2> QED
    BY <1>2, <2>1 DEF DestroyTimeline
<1>3. CASE t # NULL
  BY <1>3, FreeArraysEmpties, FreeEmptied DEF DestroyTimeline
<1> QED
  BY <1>2, <1>3

\* A timeline that is new or holds nothing gets its two arrays.
LEMMA GiveArraysKeepsOrder ==
    ASSUME NEW h, NEW R, InOrder(h, R), NEW t \in Kind("timeline"),
           \/ t \notin DOMAIN h
           \/ t \in R /\ Held(t, h[t]) = {},
           NEW n \in Nat
    PROVE  InOrder(GiveArrays(h, t, n), R \cup {t})
<1> DEFINE e == Fresh(h, "int[]")
           m == Fresh(h, "int64_t[]")
           array == [size |-> n]
           h1 == Put(h, e, array)
           h2 == Put(h1, m, array)
           b == [size |-> n, epochs |-> e, times |-> m]
           h3 == Put(h2, t, b)
<1>1. /\ e \in Kind("int[]") /\ e \in Pointer /\ e \notin DOMAIN h /\ e \notin R
      /\ InOrder(h1, R \cup {e})
      /\ m \in Kind("int64_t[]") /\ m \in Pointer /\ m \notin DOMAIN h /\ m \notin R
  <2>1. "int[]" \in LeafKinds /\ "int64_t[]" \in LeafKinds
    BY DEF LeafKinds
  <2> QED
    BY <2>1, NewLeaf
<1> HIDE DEF e, m
<1>2. /\ e[1] = "int[]" /\ m[1] = "int64_t[]" /\ t[1] = "timeline"
      /\ e # m /\ e # t /\ m # t /\ t \in Pointer
      /\ e # NULL /\ m # NULL
  BY <1>1, NullIsNoPointer DEF Kind, Pointer
<1>3. InOrder(h2, R \cup {e, m})
  <2>1. m \notin DOMAIN h1
    BY <1>1, <1>2 DEF Put
  <2>2. Fit(m, array)
    BY <1>2 DEF Fit, LeafBlock, LeafKinds
  <2>3. Held(m, array) = {}
    BY <1>2, LeafHoldsNothing DEF LeafKinds
  <2>4. InOrder(h2, (R \cup {e}) \cup {m})
    <3> HIDE DEF h1, array
    <3> QED
      BY <1>1, <2>1, <2>2, <2>3, NewBlock
  <2>5. (R \cup {e}) \cup {m} = R \cup {e, m}
    OBVIOUS
  <2> QED
    BY <2>4, <2>5
<1>4. /\ DOMAIN h2 = DOMAIN h \cup {e, m}
      /\ h2[e] = array /\ h2[m] = array
      /\ \A q \in DOMAIN h : h2[q] = h[q]
  BY <1>1, <1>2 DEF Put
<1>5. b \in TimelineBlock /\ b.size = n /\ b.epochs = e /\ b.times = m
  BY <1>1 DEF TimelineBlock
<1> HIDE DEF b, h2
<1>6. Fit(t, b)
  BY <1>2, <1>5 DEF Fit, LeafKinds
<1>7. HeldIn(h2, t) = {} /\ (t \in R \cup {e, m} \/ t \notin DOMAIN h2)
  BY <1>2, <1>4 DEF HeldIn
<1>8. CASE n = 0
  <2>1. Owning(t, b) = {}
    BY <1>2, <1>5, <1>8 DEF Owning
  <2>2. Held(t, b) = {}
    BY <2>1 DEF Held
  <2>3. InOrder(h3, ((R \cup {e, m}) \ {}) \cup {t})
    <3>1. (R \cup {e, m}) \cup HeldIn(h2, t) = R \cup {e, m}
      BY <1>7
    <3>2. InOrder(h3, (((R \cup {e, m}) \cup HeldIn(h2, t)) \ Held(t, b)) \cup {t})
      BY <1>2, <1>3, <1>6, <1>7, <2>1, <2>2, PutKeepsOrder
    <3> QED
      BY <2>2, <3>1, <3>2
  <2>4. EmptyArray(h3, e) /\ EmptyArray(h3, m)
    BY <1>2, <1>4, <1>8 DEF EmptyArray, Put
  <2> HIDE DEF h3
  <2>5. InOrder(h3, ((((R \cup {e, m}) \ {}) \cup {t}) \ {e}) \ {m})
    BY <2>3, <2>4, EmptyArrayMayLeak
  <2>6. ((((R \cup {e, m}) \ {}) \cup {t}) \ {e}) \ {m} = R \cup {t}
    BY <1>1, <1>2
  <2> QED
    BY <2>5, <2>6 DEF GiveArrays, h3, h2, b, e, m
<1>9. CASE n > 0
  <2>1. Owning(t, b) = {"epochs", "times"}
    BY <1>2, <1>5, <1>9 DEF Owning
  <2>2. Held(t, b) = {e, m}
    BY <1>2, <1>5, <2>1 DEF Held
  <2>3. \A f, g \in Owning(t, b) : b[f] = b[g] /\ b[f] # NULL => f = g
    BY <1>2, <1>5, <2>1
  <2>4. InOrder(h3, (((R \cup {e, m}) \cup HeldIn(h2, t)) \ Held(t, b)) \cup {t})
    BY <1>2, <1>3, <1>6, <1>7, <2>2, <2>3, PutKeepsOrder
  <2>5. (((R \cup {e, m}) \cup HeldIn(h2, t)) \ Held(t, b)) \cup {t} = R \cup {t}
    BY <1>1, <1>7, <2>2
  <2> QED
    BY <2>4, <2>5 DEF GiveArrays, h3, h2, b, e, m
<1> QED
  BY <1>8, <1>9

\* dax_timeline_set_intervals.
LEMMA SetIntervalsKeepsOrder ==
    ASSUME NEW h, NEW R, InOrder(h, R), NEW t \in R, t \in Kind("timeline"),
           NEW n \in Nat
    PROVE  InOrder(SetIntervals(h, t, n), R)
<1> DEFINE f == FreeArrays(h, t)
<1>1. PICK g : InOrder(g, R) /\ Alike(f, g, t) /\ Held(t, g[t]) = {}
  BY FreeArraysEmpties DEF EmptiedAt
<1> HIDE DEF f
<1>2. InOrder(GiveArrays(g, t, n), R \cup {t})
  BY <1>1, GiveArraysKeepsOrder
<1>3. GiveArrays(f, t, n) = GiveArrays(g, t, n)
  <2>1. \A kind : Fresh(f, kind) = Fresh(g, kind)
    BY <1>1, FreshDependsOnDomain DEF Alike
  <2> DEFINE e == Fresh(g, "int[]")
             m == Fresh(g, "int64_t[]")
             b == [size |-> n, epochs |-> e, times |-> m]
             array == [size |-> n]
  <2>2. /\ GiveArrays(f, t, n) = Put(Put(Put(f, e, array), m, array), t, b)
        /\ GiveArrays(g, t, n) = Put(Put(Put(g, e, array), m, array), t, b)
    BY <2>1 DEF GiveArrays
  <2> HIDE DEF e, m, b, array
  <2> QED
    BY <1>1, <2>2 DEF Put, Alike
<1>4. R \cup {t} = R
  OBVIOUS
<1> QED
  BY <1>2, <1>3, <1>4 DEF SetIntervals, f

\* The new timeline of dax_timeline_decode and dax_timeline_dup.
LEMMA CopyToKeepsOrder ==
    ASSUME NEW h, NEW R, InOrder(h, R), NEW t \in Kind("timeline"),
           t \notin DOMAIN h, NEW n \in Nat
    PROVE  InOrder(CopyTo(h, t, n), R \cup {t})
BY NewBlock, NewTimelineIsEmpty, GiveArraysKeepsOrder DEF CopyTo

\* dax_timeline_dup and dax_timeline_encode read the arrays of a timeline.
LEMMA TimelineIsRead ==
    ASSUME NEW h, NEW R, InOrder(h, R), NEW t \in R, t \in Kind("timeline")
    PROVE  Read(h, IF h[t].size = 0 THEN {t} ELSE {t, h[t].epochs, h[t].times}) = h
BY TimelineInHand DEF Read

LEMMA DupToKeepsOrder ==
    ASSUME NEW h, NEW R, InOrder(h, R), NEW t \in Kind("timeline"),
           t \notin DOMAIN h, NEW other \in R, other \in Kind("timeline")
    PROVE  InOrder(DupTo(h, t, other), R \cup {t})
<1> DEFINE n == h[other].size
<1>1. DupTo(h, t, other) = CopyTo(h, t, n)
  BY TimelineIsRead DEF DupTo
<1>2. n \in Nat
  BY TimelineInHand
<1> HIDE DEF n
<1> QED
  BY <1>1, <1>2, CopyToKeepsOrder

-----------------------------------------------------------------------------
(* Messages: what works with several objects. *)

LEMMA SetNewChunkIsRenewed ==
    ASSUME NEW h, NEW c, NEW f \in {"epochs", "times"}
    PROVE  SetNewChunk(h, c, f) = Renewed(h, c, f) /\ f \in CodecFields
BY DEF SetNewChunk, Renewed, KindIn, CodecFields

LEMMA NewCodecObject ==
    ASSUME NEW h, NEW R, InOrder(h, R)
    PROVE  LET c == Fresh(h, "codec")
           IN  /\ c \in Kind("codec") /\ c \notin DOMAIN h /\ c \notin R
               /\ InOrder(Put(h, c, NewCodec), R \cup {c})
<1> DEFINE c == Fresh(h, "codec")
<1>1. c \notin DOMAIN h /\ c \in Kind("codec")
  BY FreshIsFree DEF InOrder, Shaped
<1> HIDE DEF c
<1>2. c \in Pointer
  BY <1>1, CodecFits
<1> QED
  BY <1>1, <1>2, NewCodecIsEmpty, NewBlock DEF c

LEMMA NewTimelineObject ==
    ASSUME NEW h, NEW R, InOrder(h, R)
    PROVE  LET t == Fresh(h, "timeline")
           IN  /\ t \in Kind("timeline") /\ t \notin DOMAIN h /\ t \notin R
               /\ InOrder(Put(h, t, NewTimeline), R \cup {t})
<1> DEFINE t == Fresh(h, "timeline")
<1>1. t \notin DOMAIN h /\ t \in Kind("timeline")
  BY FreshIsFree DEF InOrder, Shaped
<1> HIDE DEF t
<1> QED
  BY <1>1, NewTimelineIsEmpty, NewBlock DEF t

\* dax_timeline_encode.
LEMMA EncodeKeepsOrder ==
    ASSUME NEW h, NEW R, InOrder(h, R), NEW t \in R, t \in Kind("timeline"),
           NEW c \in R, c \in Kind("codec")
    PROVE  InOrder(Encode(h, t, c), R)
<1> DEFINE e == Fresh(h, "chunk")
           h1 == Put(h, e, Octets)
           m == Fresh(h1, "chunk")
           h2 == Put(h1, m, Octets)
           h3 == SetChunk(h2, c, "epochs", e)
           h4 == SetChunk(h3, c, "times", m)
<1>1. "chunk" \in LeafKinds
  BY DEF LeafKinds
<1>2. e \in Kind("chunk") /\ e \notin R /\ InOrder(h1, R \cup {e})
  BY <1>1, NewLeaf DEF Octets
<1> HIDE DEF e, h1
<1>3. m \in Kind("chunk") /\ m \notin R \cup {e} /\ InOrder(h2, (R \cup {e}) \cup {m})
  BY <1>1, <1>2, NewLeaf DEF Octets
<1> HIDE DEF m, h2
<1>4. InOrder(h3, ((R \cup {e}) \cup {m}) \ {e})
  BY <1>2, <1>3, SetChunkKeepsOrder
<1>5. ((R \cup {e}) \cup {m}) \ {e} = R \cup {m}
  BY <1>2, <1>3
<1> HIDE DEF h3
<1>6. InOrder(h4, (R \cup {m}) \ {m})
  BY <1>3, <1>4, <1>5, SetChunkKeepsOrder
<1>7. (R \cup {m}) \ {m} = R
  BY <1>3
<1>8. Encode(h, t, c) = h4
  BY TimelineIsRead DEF Encode, e, h1, m, h2, h3
<1> QED
  BY <1>6, <1>7, <1>8

\* dax_timeline_decode.
LEMMA DecodeToKeepsOrder ==
    ASSUME NEW h, NEW R, InOrder(h, R), NEW t \in Kind("timeline"),
           t \notin DOMAIN h, NEW c \in R, c \in Kind("codec"), HasChunks(h, c),
           NEW n \in Nat
    PROVE  InOrder(DecodeTo(h, t, c, n), R \cup {t})
<1>1. {h[c].epochs, h[c].times} \subseteq DOMAIN h
  <2>1. h[c].epochs = h[c]["epochs"] /\ h[c].times = h[c]["times"]
    OBVIOUS
  <2> QED
    BY <2>1, CodecInHand DEF HasChunks, CodecFields
<1>2. Read(h, {h[c].epochs, h[c].times}) = h
  BY <1>1 DEF Read
<1> QED
  BY <1>2, CopyToKeepsOrder DEF DecodeTo

\* set_routing_id, with a frame that someone else keeps.
LEMMA SetRoutingIdKeepsOrder ==
    ASSUME NEW h, NEW R, InOrder(h, R), NEW c \in R, c \in Kind("codec"),
           NEW frame \in R
    PROVE  InOrder(SetRoutingId(h, c, frame), R)
<1>1. InOrder(Renewed(h, c, "routing_id"), R) /\ R \subseteq DOMAIN Free(h, h[c]["routing_id"])
  BY RenewedKeepsOrder DEF CodecFields
<1>2. Read(Free(h, h[c].routing_id), {frame}) = Free(h, h[c].routing_id)
  BY <1>1 DEF Read
<1>3. frame # NULL
  BY RootsAreLive
<1>4. SetRoutingId(h, c, frame) = Renewed(h, c, "routing_id")
  BY <1>2, <1>3 DEF SetRoutingId, Renewed, KindIn
<1> QED
  BY <1>1, <1>4

\* dax_timeline_codec_recv.
LEMMA RecvKeepsOrder ==
    ASSUME NEW h, NEW R, InOrder(h, R), NEW c \in R, c \in Kind("codec"),
           NEW router \in BOOLEAN, NEW k \in Nat
    PROVE  InOrder(Recv(h, c, router, k), R)
<1> DEFINE start == IF router THEN Renewed(h, c, "routing_id") ELSE h
           first == IF k > 0 THEN SetNewChunk(start, c, "epochs") ELSE start
           last == IF k > 1 THEN SetNewChunk(first, c, "times") ELSE first
<1>1. InOrder(start, R)
  BY RenewedKeepsOrder DEF CodecFields
<1>2. Recv(h, c, router, k) = last
  BY DEF Recv, Renewed, KindIn
<1> HIDE DEF start
<1>3. InOrder(first, R)
  BY <1>1, RenewedKeepsOrder, SetNewChunkIsRenewed
<1> HIDE DEF first
<1>4. InOrder(last, R)
  BY <1>3, RenewedKeepsOrder, SetNewChunkIsRenewed
<1> QED
  BY <1>2, <1>4

\* dax_timeline_codec_dup, of an object with both chunks.
LEMMA DupCodecKeepsOrder ==
    ASSUME NEW h, NEW R, InOrder(h, R), NEW c \in R, c \in Kind("codec"),
           HasChunks(h, c)
    PROVE  LET copy == Fresh(h, "codec")
           IN  copy \notin R /\ InOrder(DupCodec(h, c), R \cup {copy})
<1> DEFINE copy == Fresh(h, "codec")
           S == R \cup {copy}
           h1 == Put(h, copy, NewCodec)
           r == h[c].routing_id
           bare == SetRoutingId(h1, copy, r)
           h2 == SetNewChunk(bare, copy, "epochs")
           h3 == SetNewChunk(h2, copy, "times")
<1>1. /\ copy \in Kind("codec") /\ copy \notin DOMAIN h /\ copy \notin R
      /\ InOrder(h1, S)
  BY NewCodecObject
<1> HIDE DEF copy
<1>2. /\ DOMAIN h1 = DOMAIN h \cup {copy}
      /\ h1[copy] = NewCodec
      /\ \A q \in DOMAIN h : h1[q] = h[q]
  BY <1>1 DEF Put
<1>3. c \in DOMAIN h /\ c # copy
  BY <1>1, RootsAreLive
<1>4. Free(h1, h1[copy].routing_id) = h1 /\ h1[copy]["routing_id"] = h1[copy].routing_id
  <2>1. h1[copy].routing_id = NULL
    BY <1>2 DEF NewCodec
  <2> HIDE DEF h1
  <2> QED
    BY <2>1 DEF Free
<1> HIDE DEF h1
<1>5. InOrder(bare, S) /\ bare[c] = h[c]
  <2>1. CASE r = NULL
    <3>1. bare = [h1 EXCEPT ![copy]["routing_id"] = NULL]
      BY <1>4, <2>1 DEF SetRoutingId
    <3>2. h1[copy]["routing_id"] = NULL
      BY <1>2 DEF NewCodec
    <3>3. InOrder(bare, (S \cup ({h1[copy]["routing_id"]} \ {NULL})) \ {NULL})
      <4> HIDE DEF bare, S
      <4>1. copy \in S
        BY DEF S
      <4>2. "routing_id" \in CodecFields
        BY DEF CodecFields
      <4> QED
        BY <1>1, <3>1, <4>1, <4>2, SetField
    <3>4. (S \cup ({h1[copy]["routing_id"]} \ {NULL})) \ {NULL} = S
      <4>1. NULL \notin S
        BY <1>1, RootsAreLive
      <4> QED
        BY <3>2, <4>1
    <3>5. bare[c] = h[c]
      BY <1>2, <1>3, <3>1
    <3> QED
      BY <3>3, <3>4, <3>5
  <2>2. CASE r # NULL
    <3>1. r \in DOMAIN h1
      <4>1. r = h[c]["routing_id"]
        OBVIOUS
      <4>2. r \in DOMAIN h
        BY <2>2, <4>1, CodecInHand DEF CodecFields
      <4> QED
        BY <1>2, <4>2
    <3>2. bare = Renewed(h1, copy, "routing_id")
      <4> HIDE DEF r
      <4> QED
        BY <1>4, <2>2, <3>1 DEF SetRoutingId, Read, Renewed, KindIn
    <3>3. /\ InOrder(Renewed(h1, copy, "routing_id"), S)
          /\ \A q \in S : q # copy => Renewed(h1, copy, "routing_id")[q] = h1[q]
      BY <1>1, RenewedKeepsOrder DEF CodecFields
    <3> QED
      BY <1>2, <1>3, <3>2, <3>3
  <2> QED
    BY <2>1, <2>2
<1> HIDE DEF bare
<1>6. Read(bare, {h[c].epochs, h[c].times}) = bare
  <2>1. c \in S /\ HasChunks(bare, c)
    BY <1>5 DEF HasChunks
  <2>2. {bare[c]["epochs"], bare[c]["times"]} \subseteq DOMAIN bare
    BY <1>5, <2>1, CodecInHand DEF HasChunks, CodecFields
  <2> QED
    BY <1>5, <2>2 DEF Read
<1>7. InOrder(h2, S)
  BY <1>1, <1>5, RenewedKeepsOrder, SetNewChunkIsRenewed
<1> HIDE DEF h2
<1>8. InOrder(h3, S)
  BY <1>1, <1>7, RenewedKeepsOrder, SetNewChunkIsRenewed
<1>9. DupCodec(h, c) = h3
  BY <1>6 DEF DupCodec, bare, h1, h2, copy
<1> QED
  BY <1>1, <1>8, <1>9 DEF copy

\* A codec object is made to send one timeline.
LEMMA PublishKeepsOrder ==
    ASSUME NEW h, NEW R, InOrder(h, R), NEW t \in R, t \in Kind("timeline")
    PROVE  InOrder(Publish(h, t), R)
<1> DEFINE c == Fresh(h, "codec")
           h1 == Put(h, c, NewCodec)
<1>1. c \in Kind("codec") /\ c \notin R /\ InOrder(h1, R \cup {c})
  BY NewCodecObject
<1> HIDE DEF c, h1
<1>2. InOrder(Encode(h1, t, c), R \cup {c})
  BY <1>1, EncodeKeepsOrder
<1>3. InOrder(DestroyCodec(Encode(h1, t, c), c), (R \cup {c}) \ {c})
  BY <1>1, <1>2, DestroyCodecKeepsOrder
<1>4. (R \cup {c}) \ {c} = R
  BY <1>1
<1>5. Publish(h, t) = DestroyCodec(Encode(h1, t, c), c)
  BY DEF Publish, c, h1
<1> QED
  BY <1>3, <1>4, <1>5

-----------------------------------------------------------------------------
(* The inductive invariant: the heap is in order, seen from the variables of *)
(* the threads, the pipe and the commands that were dropped; and no two of   *)
(* these point to one block.                                                 *)

\* The variables of both threads, and the kind of block each is for.
Variables == CallerVars \cup ServerVars

KindOf(x) == IF x \in {"tl", "tl2", "timeline"} THEN "timeline"
             ELSE IF x \in {"codec", "message"} THEN "codec"
             ELSE IF x = "chunk" THEN "chunk" ELSE "frame"

\* What points into the heap from outside.
Roots == ({ptr[x] : x \in Variables} \cup {pipe[i] : i \in DOMAIN pipe} \cup dropped)
            \ {NULL}

\* Each points to a block of its kind; the server keeps its codec object.
PointersFit ==
    /\ ptr \in [Variables -> Pointer \cup {NULL}]
    /\ \A x \in Variables : ptr[x] \in Kind(KindOf(x)) \cup {NULL}
    /\ pipe \in Seq(Kind("timeline"))
    /\ dropped \subseteq Kind("timeline")
    /\ running \in BOOLEAN
    /\ running => ptr["message"] # NULL /\ dropped = {}

\* No two of them point to one block.
Apart ==
    /\ \A x, y \in Variables : ptr[x] = ptr[y] /\ ptr[x] # NULL => x = y
    /\ \A i, j \in DOMAIN pipe : pipe[i] = pipe[j] => i = j
    /\ \A x \in Variables : \A i \in DOMAIN pipe : ptr[x] # pipe[i]
    /\ \A x \in Variables : ptr[x] \notin dropped
    /\ \A i \in DOMAIN pipe : pipe[i] \notin dropped

IInv == PointersFit /\ Apart /\ InOrder(heap, Roots)

LEMMA KindPointers == ASSUME NEW x \in Variables
                      PROVE  Kind(KindOf(x)) \subseteq Pointer
BY DEF Kind, Pointer, KindOf

LEMMA VariablesAre ==
    /\ Variables = {"tl", "tl2", "codec", "chunk", "timeline", "message", "client"}
    /\ KindOf("tl") = "timeline" /\ KindOf("tl2") = "timeline"
    /\ KindOf("timeline") = "timeline"
    /\ KindOf("codec") = "codec" /\ KindOf("message") = "codec"
    /\ KindOf("chunk") = "chunk" /\ KindOf("client") = "frame"
BY DEF Variables, CallerVars, ServerVars, KindOf

LEMMA VariableInHand ==
    ASSUME IInv, NEW x \in Variables
    PROVE  /\ ptr[x] \in Kind(KindOf(x)) \cup {NULL}
           /\ ptr[x] # NULL => ptr[x] \in Roots
           /\ NULL \notin Roots
           /\ InOrder(heap, Roots)
           /\ Roots \subseteq DOMAIN heap
BY RootsAreLive DEF IInv, PointersFit, Roots

\* One variable is given another pointer.
LEMMA Assigned ==
    ASSUME IInv, NEW x \in Variables \ {"message"},
           NEW v \in Kind(KindOf(x)) \cup {NULL}, v \notin Roots \/ v = ptr[x],
           ptr' = [ptr EXCEPT ![x] = v], UNCHANGED <<pipe, dropped, running>>,
           InOrder(heap', (Roots \ {ptr[x]}) \cup ({v} \ {NULL}))
    PROVE  IInv'
<1>1. /\ x \in Variables /\ DOMAIN ptr = Variables
      /\ ptr'[x] = v
      /\ \A y \in Variables : y # x => ptr'[y] = ptr[y]
      /\ pipe' = pipe /\ dropped' = dropped /\ running' = running
  BY DEF IInv, PointersFit
<1>2. \/ v = NULL
      \/ v = ptr[x]
      \/ /\ \A y \in Variables : v # ptr[y]
         /\ \A i \in DOMAIN pipe : v # pipe[i]
         /\ v \notin dropped
  BY DEF Roots
<1>3. NULL \notin dropped /\ \A i \in DOMAIN pipe : pipe[i] # NULL
  <2>1. Kind("timeline") \subseteq Pointer
    BY DEF Kind, Pointer
  <2>2. \A i \in DOMAIN pipe : pipe[i] \in Kind("timeline")
    BY DEF IInv, PointersFit
  <2> QED
    BY <2>1, <2>2, NullIsNoPointer DEF IInv, PointersFit
<1>4. PointersFit'
  <2>1. ptr' \in [Variables -> Pointer \cup {NULL}]
    BY KindPointers DEF IInv, PointersFit
  <2>2. \A y \in Variables : ptr'[y] \in Kind(KindOf(y)) \cup {NULL}
    BY <1>1 DEF IInv, PointersFit
  <2>3. running' => ptr'["message"] # NULL
    BY <1>1, VariablesAre DEF IInv, PointersFit
  <2> QED
    BY <1>1, <2>1, <2>2, <2>3 DEF IInv, PointersFit
<1>5. Apart'
  <2>1. ASSUME NEW y \in Variables, NEW z \in Variables, ptr'[y] = ptr'[z], ptr'[y] # NULL
        PROVE  y = z
    BY <1>1, <1>2, <2>1 DEF IInv, Apart
  <2>2. \A y \in Variables : \A i \in DOMAIN pipe : ptr'[y] # pipe[i]
    BY <1>1, <1>2, <1>3 DEF IInv, Apart
  <2>3. \A y \in Variables : ptr'[y] \notin dropped
    BY <1>1, <1>2, <1>3 DEF IInv, Apart
  <2> QED
    BY <1>1, <2>1, <2>2, <2>3 DEF IInv, Apart
<1>6. Roots' = (Roots \ {ptr[x]}) \cup ({v} \ {NULL})
  <2>1. Roots' = ({ptr'[y] : y \in Variables} \cup {pipe[i] : i \in DOMAIN pipe}
                     \cup dropped) \ {NULL}
    BY <1>1 DEF Roots
  <2>2. ASSUME NEW p \in Roots' PROVE p \in (Roots \ {ptr[x]}) \cup ({v} \ {NULL})
    <3>1. CASE \E y \in Variables : p = ptr'[y]
      <4>1. PICK y \in Variables : p = ptr'[y]
        BY <3>1
      <4>2. CASE y = x
        BY <1>1, <2>1, <2>2, <4>1, <4>2
      <4>3. CASE y # x
        <5>1. p = ptr[y] /\ p # NULL
          BY <1>1, <2>1, <2>2, <4>1, <4>3
        <5>2. p # ptr[x]
          BY <1>1, <4>3, <5>1 DEF IInv, Apart
        <5> QED
          BY <5>1, <5>2 DEF Roots
      <4> QED
        BY <4>2, <4>3
    <3>2. CASE \E i \in DOMAIN pipe : p = pipe[i]
      BY <1>1, <2>1, <2>2, <3>2 DEF IInv, Apart, Roots
    <3>3. CASE p \in dropped
      BY <1>1, <2>1, <2>2, <3>3 DEF IInv, Apart, Roots
    <3> QED
      BY <2>1, <2>2, <3>1, <3>2, <3>3
  <2>3. ASSUME NEW p \in Roots, p # ptr[x] PROVE p \in Roots'
    <3>1. CASE \E y \in Variables : p = ptr[y]
      BY <1>1, <2>1, <2>3, <3>1 DEF Roots
    <3> QED
      BY <2>1, <2>3, <3>1 DEF Roots
  <2>4. v # NULL => v \in Roots'
    BY <1>1, <2>1
  <2> QED
    BY <2>2, <2>3, <2>4
<1> QED
  BY <1>4, <1>5, <1>6 DEF IInv

-----------------------------------------------------------------------------
(* Every step keeps it: the caller's thread. *)

LEMMA CallerKeepsIInv ==
    ASSUME IInv, NEW x \in CallerVars, NEW v \in Kind(KindOf(x)) \cup {NULL},
           v \notin Roots \/ v = ptr[x], NEW h, Caller(h, x, v),
           InOrder(h, (Roots \ {ptr[x]}) \cup ({v} \ {NULL}))
    PROVE  IInv'
<1>1. x \in Variables \ {"message"}
  BY DEF Variables, CallerVars
<1> QED
  BY <1>1, Assigned DEF Caller

\* The variable keeps its pointer.
LEMMA CallerWorks ==
    ASSUME IInv, NEW x \in CallerVars, ptr[x] # NULL, NEW h, Caller(h, x, ptr[x]),
           InOrder(h, Roots)
    PROVE  IInv'
<1>1. x \in Variables
  BY DEF Variables
<1>2. (Roots \ {ptr[x]}) \cup ({ptr[x]} \ {NULL}) = Roots
  BY <1>1, VariableInHand
<1> QED
  BY <1>1, <1>2, VariableInHand, CallerKeepsIInv

\* The variable gets a first pointer.
LEMMA CallerGets ==
    ASSUME IInv, NEW x \in CallerVars, ptr[x] = NULL,
           NEW v \in Kind(KindOf(x)), v \notin Roots,
           NEW h, Caller(h, x, v), InOrder(h, Roots \cup {v})
    PROVE  IInv'
<1>1. x \in Variables
  BY DEF Variables
<1>2. v # NULL
  BY <1>1, KindPointers, NullIsNoPointer
<1>3. (Roots \ {ptr[x]}) \cup ({v} \ {NULL}) = Roots \cup {v}
  BY <1>1, <1>2, VariableInHand
<1> QED
  BY <1>3, CallerKeepsIInv

\* The variable's pointer goes.
LEMMA CallerDrops ==
    ASSUME IInv, NEW x \in CallerVars, NEW h, Caller(h, x, NULL),
           InOrder(h, Roots \ {ptr[x]})
    PROVE  IInv'
<1>1. x \in Variables
  BY DEF Variables
<1>2. (Roots \ {ptr[x]}) \cup ({NULL} \ {NULL}) = Roots \ {ptr[x]}
  OBVIOUS
<1> QED
  BY <1>1, <1>2, VariableInHand, CallerKeepsIInv

LEMMA TimelineVariables ==
    ASSUME IInv, NEW x \in {"tl", "tl2"}
    PROVE  /\ x \in CallerVars /\ x \in Variables /\ KindOf(x) = "timeline"
           /\ ptr[x] # NULL => ptr[x] \in Roots /\ ptr[x] \in Kind("timeline")
           /\ InOrder(heap, Roots)
BY VariableInHand DEF Variables, CallerVars, KindOf

LEMMA CodecVariable ==
    ASSUME IInv, NEW x \in {"codec", "message"}
    PROVE  /\ x \in Variables /\ KindOf(x) = "codec"
           /\ ptr[x] # NULL => ptr[x] \in Roots /\ ptr[x] \in Kind("codec")
           /\ InOrder(heap, Roots)
BY VariableInHand DEF Variables, CallerVars, ServerVars, KindOf

LEMMA CallerNewStep ==
    ASSUME IInv, NEW x \in {"tl", "tl2"}, CallerNew(x) PROVE IInv'
<1> DEFINE t == Fresh(heap, "timeline")
<1>1. /\ t \in Kind("timeline") /\ t \notin Roots
      /\ InOrder(Put(heap, t, NewTimeline), Roots \cup {t})
  BY TimelineVariables, NewTimelineObject
<1>2. ptr[x] = NULL /\ Caller(Put(heap, t, NewTimeline), x, t)
  BY DEF CallerNew
<1> HIDE DEF t
<1> QED
  BY <1>1, <1>2, TimelineVariables, CallerGets

LEMMA CallerSetIntervalsStep ==
    ASSUME IInv, NEW x \in {"tl", "tl2"}, NEW n \in Sizes, CallerSetIntervals(x, n)
    PROVE  IInv'
<1>1. n \in Nat
  BY MemoryAssumption
<1> QED
  BY <1>1, TimelineVariables, SetIntervalsKeepsOrder, CallerWorks
     DEF CallerSetIntervals

LEMMA CallerDestroyStep ==
    ASSUME IInv, NEW x \in {"tl", "tl2"}, CallerDestroy(x) PROVE IInv'
BY TimelineVariables, DestroyTimelineKeepsOrder, CallerDrops DEF CallerDestroy

LEMMA CallerDupStep == ASSUME IInv, CallerDup PROVE IInv'
<1> DEFINE t == Fresh(heap, "timeline")
           h == DupTo(heap, t, ptr["tl"])
<1>1. /\ ptr["tl"] # NULL /\ ptr["tl2"] = NULL
      /\ Caller(h, "tl2", t)
  BY DEF CallerDup
<1>2. t \in Kind("timeline") /\ t \notin DOMAIN heap /\ t \notin Roots
  BY TimelineVariables, NewTimelineObject
<1> HIDE DEF t
<1>3. InOrder(h, Roots \cup {t})
  BY <1>1, <1>2, TimelineVariables, DupToKeepsOrder
<1> HIDE DEF h
<1> QED
  BY <1>1, <1>2, <1>3, TimelineVariables, CallerGets

LEMMA CallerNewCodecStep == ASSUME IInv, CallerNewCodec PROVE IInv'
<1> DEFINE c == Fresh(heap, "codec")
<1>1. /\ c \in Kind("codec") /\ c \notin Roots
      /\ InOrder(Put(heap, c, NewCodec), Roots \cup {c})
  BY CodecVariable, NewCodecObject
<1>2. ptr["codec"] = NULL /\ Caller(Put(heap, c, NewCodec), "codec", c)
  BY DEF CallerNewCodec
<1>3. "codec" \in CallerVars
  BY DEF CallerVars
<1> HIDE DEF c
<1> QED
  BY <1>1, <1>2, <1>3, VariablesAre, CallerGets

LEMMA CallerDestroyCodecStep == ASSUME IInv, CallerDestroyCodec PROVE IInv'
<1>1. "codec" \in CallerVars
  BY DEF CallerVars
<1> QED
  BY <1>1, CodecVariable, DestroyCodecKeepsOrder, CallerDrops DEF CallerDestroyCodec

LEMMA CallerEncodeStep == ASSUME IInv, CallerEncode PROVE IInv'
BY TimelineVariables, CodecVariable, EncodeKeepsOrder, CallerWorks DEF CallerEncode

LEMMA CallerDecodeStep ==
    ASSUME IInv, NEW n \in Sizes, CallerDecode(n) PROVE IInv'
<1> DEFINE t == Fresh(heap, "timeline")
           h == DecodeTo(heap, t, ptr["codec"], n)
<1>1. /\ ptr["codec"] # NULL /\ ptr["tl2"] = NULL
      /\ HasChunks(heap, ptr["codec"])
      /\ Caller(h, "tl2", t)
      /\ n \in Nat
  BY MemoryAssumption DEF CallerDecode
<1>2. t \in Kind("timeline") /\ t \notin DOMAIN heap /\ t \notin Roots
  BY TimelineVariables, NewTimelineObject
<1> HIDE DEF t
<1>3. InOrder(h, Roots \cup {t})
  BY <1>1, <1>2, CodecVariable, DecodeToKeepsOrder
<1> HIDE DEF h
<1> QED
  BY <1>1, <1>2, <1>3, TimelineVariables, CallerGets

LEMMA CallerDupCodecStep == ASSUME IInv, CallerDupCodec PROVE IInv'
<1> DEFINE c == ptr["codec"]
           copy == Fresh(heap, "codec")
           h1 == DupCodec(heap, c)
           h2 == DestroyCodec(h1, c)
<1>1. /\ c # NULL /\ HasChunks(heap, c)
      /\ Caller(h2, "codec", copy)
  BY DEF CallerDupCodec
<1>2. /\ c \in Roots /\ c \in Kind("codec") /\ InOrder(heap, Roots)
      /\ KindOf("codec") = "codec" /\ "codec" \in CallerVars
  BY <1>1, CodecVariable DEF CallerVars
<1>3. copy \notin Roots /\ copy \in Kind("codec") /\ InOrder(h1, Roots \cup {copy})
  BY <1>1, <1>2, NewCodecObject, DupCodecKeepsOrder
<1> HIDE DEF copy, h1
<1>4. InOrder(h2, (Roots \cup {copy}) \ {c})
  BY <1>2, <1>3, DestroyCodecKeepsOrder
<1>5. copy # NULL
  BY <1>3, CodecFits, NullIsNoPointer
<1>6. (Roots \cup {copy}) \ {c} = (Roots \ {c}) \cup ({copy} \ {NULL})
  BY <1>2, <1>3, <1>5
<1> HIDE DEF h2
<1> QED
  BY <1>1, <1>2, <1>3, <1>4, <1>6, CallerKeepsIInv

LEMMA CallerRecvStep == ASSUME IInv, NEW k \in 0..2, CallerRecv(k) PROVE IInv'
<1>1. "codec" \in CallerVars /\ k \in Nat
  BY DEF CallerVars
<1> QED
  BY <1>1, CodecVariable, RecvKeepsOrder, CallerWorks DEF CallerRecv

LEMMA CallerGetChunkStep ==
    ASSUME IInv, NEW field \in {"epochs", "times"}, CallerGetChunk(field) PROVE IInv'
<1> DEFINE c == ptr["codec"]
           old == heap[c][field]
           h == [heap EXCEPT ![c][field] = NULL]
<1>1. c # NULL /\ ptr["chunk"] = NULL /\ Caller(h, "chunk", old)
  BY DEF CallerGetChunk
<1>2. c \in Roots /\ c \in Kind("codec") /\ InOrder(heap, Roots) /\ NULL \notin Roots
  BY <1>1, CodecVariable, RootsAreLive
<1>3. /\ field \in CodecFields /\ KindIn(field) = "chunk"
      /\ "chunk" \in CallerVars /\ KindOf("chunk") = "chunk"
  BY VariablesAre DEF CodecFields, KindIn, CallerVars
<1>4. old \in Kind("chunk") \cup {NULL} /\ old \notin Roots
  BY <1>2, <1>3, CodecInHand, CodecBlockFields
<1>5. InOrder(h, (Roots \cup ({old} \ {NULL})) \ {NULL})
  BY <1>2, <1>3, SetField
<1>6. (Roots \cup ({old} \ {NULL})) \ {NULL}
         = (Roots \ {ptr["chunk"]}) \cup ({old} \ {NULL})
  BY <1>1, <1>2
<1> HIDE DEF old, h
<1> QED
  BY <1>1, <1>3, <1>4, <1>5, <1>6, CallerKeepsIInv

LEMMA ChunkVariable ==
    ASSUME IInv
    PROVE  /\ "chunk" \in CallerVars
           /\ ptr["chunk"] \in Kind("chunk") \cup {NULL}
           /\ ptr["chunk"] \in Roots \/ ptr["chunk"] = NULL
<1>1. "chunk" \in Variables
  BY VariablesAre
<1> QED
  BY <1>1, VariablesAre, VariableInHand DEF CallerVars

LEMMA CallerSetChunkStep ==
    ASSUME IInv, NEW field \in {"epochs", "times"}, CallerSetChunk(field) PROVE IInv'
BY ChunkVariable, CodecVariable, SetChunkKeepsOrder, CallerDrops DEF CallerSetChunk

LEMMA CallerDestroyChunkStep == ASSUME IInv, CallerDestroyChunk PROVE IInv'
<1>1. ptr["chunk"] # NULL => ptr["chunk"][1] \in LeafKinds
  BY ChunkVariable DEF Kind, LeafKinds
<1> QED
  BY <1>1, ChunkVariable, CodecVariable, FreeLeaf, CallerDrops DEF CallerDestroyChunk

LEMMA HandOverStep == ASSUME IInv, HandOver PROVE IInv'
<1> DEFINE tl == ptr["tl"]
           n == Len(pipe)
<1>1. /\ tl # NULL /\ tl \in Kind("timeline") /\ "tl" \in Variables
      /\ n \in Nat /\ DOMAIN pipe = 1..n
      /\ DOMAIN ptr = Variables
  BY TimelineVariables DEF HandOver, IInv, PointersFit
<1>2. /\ pipe' = Append(pipe, tl)
      /\ ptr' = [ptr EXCEPT !["tl"] = NULL]
      /\ heap' = heap /\ dropped' = dropped /\ running' = running
  BY DEF HandOver
<1>3. /\ pipe' \in Seq(Kind("timeline"))
      /\ DOMAIN pipe' = 1..(n + 1)
      /\ pipe'[n + 1] = tl
      /\ \A i \in DOMAIN pipe : i \in DOMAIN pipe' /\ pipe'[i] = pipe[i] /\ i # n + 1
      /\ \A i \in DOMAIN pipe' : i = n + 1 \/ i \in DOMAIN pipe
  <2>1. pipe \in Seq(Kind("timeline"))
    BY DEF IInv, PointersFit
  <2> HIDE DEF tl
  <2> QED
    BY <1>1, <1>2, <2>1
<1>4. /\ ptr'["tl"] = NULL
      /\ \A x \in Variables : x # "tl" => ptr'[x] = ptr[x]
  BY <1>1, <1>2
<1> HIDE DEF n
<1>5. PointersFit'
  <2>1. ptr' \in [Variables -> Pointer \cup {NULL}]
    BY <1>2 DEF IInv, PointersFit
  <2> QED
    BY <1>2, <1>3, <1>4, <2>1, VariablesAre DEF IInv, PointersFit
<1>6. NULL \notin dropped /\ \A i \in DOMAIN pipe : pipe[i] # NULL
  <2>1. Kind("timeline") \subseteq Pointer
    BY DEF Kind, Pointer
  <2>2. \A i \in DOMAIN pipe : pipe[i] \in Kind("timeline")
    BY DEF IInv, PointersFit
  <2> QED
    BY <2>1, <2>2, NullIsNoPointer DEF IInv, PointersFit
<1>7. /\ \A x \in Variables : x # "tl" => ptr[x] # tl
      /\ \A i \in DOMAIN pipe : pipe[i] # tl
      /\ tl \notin dropped
  BY <1>1 DEF IInv, Apart
<1>8. Apart'
  <2>1. \A x, y \in Variables : ptr'[x] = ptr'[y] /\ ptr'[x] # NULL => x = y
    BY <1>4 DEF IInv, Apart
  <2>2. \A i, j \in DOMAIN pipe' : pipe'[i] = pipe'[j] => i = j
    BY <1>3, <1>7 DEF IInv, Apart
  <2>3. ASSUME NEW x \in Variables, NEW i \in DOMAIN pipe' PROVE ptr'[x] # pipe'[i]
    <3>1. CASE i = n + 1
      BY <1>1, <1>3, <1>4, <1>7, <3>1
    <3>2. CASE i \in DOMAIN pipe
      BY <1>3, <1>4, <1>6, <3>2 DEF IInv, Apart
    <3> QED
      BY <1>3, <3>1, <3>2
  <2>4. \A x \in Variables : ptr'[x] \notin dropped
    BY <1>4, <1>6 DEF IInv, Apart
  <2>5. \A i \in DOMAIN pipe' : pipe'[i] \notin dropped
    BY <1>3, <1>7 DEF IInv, Apart
  <2> QED
    BY <1>2, <2>1, <2>2, <2>3, <2>4, <2>5 DEF Apart
<1>9. Roots' = Roots
  <2>1. Roots' = ({ptr'[x] : x \in Variables} \cup {pipe'[i] : i \in DOMAIN pipe'}
                     \cup dropped) \ {NULL}
    BY <1>2 DEF Roots
  <2>2. ASSUME NEW p \in Roots PROVE p \in Roots'
    <3>1. CASE \E x \in Variables : p = ptr[x]
      <4>1. CASE p = tl
        <5>1. n + 1 \in DOMAIN pipe'
          BY <1>1, <1>3
        <5> QED
          BY <1>1, <1>3, <2>1, <4>1, <5>1
      <4>2. CASE p # tl
        BY <1>4, <2>1, <2>2, <3>1, <4>2 DEF Roots
      <4> QED
        BY <4>1, <4>2
    <3>2. CASE \E i \in DOMAIN pipe : p = pipe[i]
      BY <1>3, <2>1, <2>2, <3>2 DEF Roots
    <3> QED
      BY <2>1, <2>2, <3>1, <3>2 DEF Roots
  <2>3. ASSUME NEW p \in Roots' PROVE p \in Roots
    <3>1. CASE \E x \in Variables : p = ptr'[x]
      BY <1>4, <2>1, <2>3, <3>1 DEF Roots
    <3>2. CASE \E i \in DOMAIN pipe' : p = pipe'[i]
      BY <1>1, <1>3, <2>1, <2>3, <3>2 DEF Roots
    <3> QED
      BY <2>1, <2>3, <3>1, <3>2 DEF Roots
  <2> QED
    BY <2>2, <2>3
<1> QED
  BY <1>2, <1>5, <1>8, <1>9 DEF IInv

-----------------------------------------------------------------------------
(* The server's thread. *)

LEMMA HandleNewTimelineStep == ASSUME IInv, HandleNewTimeline PROVE IInv'
<1> DEFINE old == ptr["timeline"]
           new == Head(pipe)
           n == Len(pipe)
<1>1. /\ "timeline" \in Variables
      /\ old \in Kind("timeline") \cup {NULL}
      /\ old \in Roots \/ old = NULL
      /\ InOrder(heap, Roots) /\ NULL \notin Roots
      /\ DOMAIN ptr = Variables
  <2>1. "timeline" \in Variables /\ KindOf("timeline") = "timeline"
    BY VariablesAre
  <2> QED
    BY <2>1, VariableInHand DEF IInv, PointersFit
<1>2. /\ running /\ pipe # <<>>
      /\ heap' = Install(old, new)
      /\ ptr' = [ptr EXCEPT !["timeline"] = new]
      /\ pipe' = Tail(pipe)
      /\ dropped' = dropped /\ running' = running
  BY DEF HandleNewTimeline
<1>3. /\ n \in Nat \ {0} /\ DOMAIN pipe = 1..n
      /\ pipe' \in Seq(Kind("timeline"))
      /\ DOMAIN pipe' = 1..(n - 1)
      /\ 1 \in DOMAIN pipe /\ pipe[1] = new /\ new \in Kind("timeline")
      /\ \A i \in DOMAIN pipe' : i + 1 \in DOMAIN pipe /\ pipe'[i] = pipe[i + 1]
      /\ \A i \in DOMAIN pipe : i = 1 \/ (i - 1 \in DOMAIN pipe' /\ pipe'[i - 1] = pipe[i])
  <2>1. pipe \in Seq(Kind("timeline"))
    BY DEF IInv, PointersFit
  <2> QED
    BY <1>2, <2>1
<1>4. new # NULL /\ new \in Roots /\ new # old
  <2>1. new # NULL
    BY <1>3, NullIsNoPointer DEF Kind, Pointer
  <2> QED
    BY <1>1, <1>3, <2>1 DEF IInv, Apart, Roots
<1>5. InOrder(heap', Roots \ {old})
  <2>1. InOrder(DestroyTimeline(heap, old), Roots \ {old})
    BY <1>1, DestroyTimelineKeepsOrder
  <2>2. new \in Roots \ {old}
    BY <1>4
  <2> HIDE DEF old, new
  <2> QED
    BY <1>2, <1>3, <2>1, <2>2, PublishKeepsOrder DEF Install
<1> HIDE DEF n, new
<1>6. /\ ptr'["timeline"] = new
      /\ \A x \in Variables : x # "timeline" => ptr'[x] = ptr[x]
  BY <1>1, <1>2
<1>7. PointersFit'
  <2>1. ptr' \in [Variables -> Pointer \cup {NULL}]
    BY <1>2, <1>3 DEF IInv, PointersFit, Kind, Pointer
  <2> QED
    BY <1>2, <1>3, <1>6, <2>1, VariablesAre DEF IInv, PointersFit
<1>8. /\ \A x \in Variables : ptr[x] # new
      /\ \A i \in DOMAIN pipe' : pipe'[i] # new
      /\ new \notin dropped
  BY <1>3 DEF IInv, Apart
<1>9. Apart'
  <2>1. \A x, y \in Variables : ptr'[x] = ptr'[y] /\ ptr'[x] # NULL => x = y
    BY <1>6, <1>8 DEF IInv, Apart
  <2>2. \A i, j \in DOMAIN pipe' : pipe'[i] = pipe'[j] => i = j
    BY <1>3 DEF IInv, Apart
  <2>3. \A x \in Variables, i \in DOMAIN pipe' : ptr'[x] # pipe'[i]
    BY <1>3, <1>6, <1>8 DEF IInv, Apart
  <2>4. \A x \in Variables : ptr'[x] \notin dropped
    BY <1>6, <1>8 DEF IInv, Apart
  <2>5. \A i \in DOMAIN pipe' : pipe'[i] \notin dropped
    BY <1>3 DEF IInv, Apart
  <2> QED
    BY <1>2, <2>1, <2>2, <2>3, <2>4, <2>5 DEF Apart
<1>10. Roots' = Roots \ {old}
  <2>1. Roots' = ({ptr'[x] : x \in Variables} \cup {pipe'[i] : i \in DOMAIN pipe'}
                     \cup dropped) \ {NULL}
    BY <1>2 DEF Roots
  <2>2. ASSUME NEW p \in Roots \ {old} PROVE p \in Roots'
    <3>1. CASE \E x \in Variables : p = ptr[x]
      BY <1>6, <2>1, <2>2, <3>1 DEF Roots
    <3>2. CASE \E i \in DOMAIN pipe : p = pipe[i]
      BY <1>1, <1>3, <1>6, <2>1, <2>2, <3>2 DEF Roots
    <3> QED
      BY <2>1, <2>2, <3>1, <3>2 DEF Roots
  <2>3. ASSUME NEW p \in Roots' PROVE p \in Roots \ {old}
    <3>1. CASE \E x \in Variables : p = ptr'[x]
      BY <1>1, <1>4, <1>6, <2>1, <2>3, <3>1 DEF Roots, IInv, Apart
    <3>2. CASE \E i \in DOMAIN pipe' : p = pipe'[i]
      BY <1>1, <1>3, <2>1, <2>3, <3>2 DEF Roots, IInv, Apart
    <3>3. CASE p \in dropped
      BY <1>1, <2>1, <2>3, <3>3 DEF Roots, IInv, Apart
    <3> QED
      BY <2>1, <2>3, <3>1, <3>2, <3>3
  <2> QED
    BY <2>2, <2>3
<1> QED
  BY <1>5, <1>7, <1>9, <1>10 DEF IInv

LEMMA ClientVariable ==
    ASSUME IInv
    PROVE  /\ "client" \in Variables \ {"message"} /\ KindOf("client") = "frame"
           /\ ptr["client"] \in Kind("frame") \cup {NULL}
           /\ ptr["client"] \in Roots \/ ptr["client"] = NULL
           /\ ptr["client"] # NULL => ptr["client"][1] \in LeafKinds
<1>1. /\ "client" \in Variables \ {"message"} /\ KindOf("client") = "frame"
      /\ ptr["client"] \in Kind("frame") \cup {NULL}
      /\ ptr["client"] \in Roots \/ ptr["client"] = NULL
  BY VariablesAre, VariableInHand
<1>2. ptr["client"] # NULL => ptr["client"][1] \in LeafKinds
  BY <1>1 DEF Kind, LeafKinds
<1> QED
  BY <1>1, <1>2

LEMMA ClientExpiresStep == ASSUME IInv, ClientExpires PROVE IInv'
<1> DEFINE client == ptr["client"]
<1>1. /\ client # NULL /\ heap' = Free(heap, client)
      /\ ptr' = [ptr EXCEPT !["client"] = NULL]
      /\ UNCHANGED <<pipe, dropped, running>>
  BY DEF ClientExpires
<1>2. client \in Roots /\ client[1] \in LeafKinds /\ InOrder(heap, Roots)
  BY <1>1, ClientVariable, CodecVariable
<1>3. InOrder(heap', Roots \ {client})
  <2> HIDE DEF client
  <2> QED
    BY <1>1, <1>2, FreeLeaf
<1>4. (Roots \ {client}) \cup ({NULL} \ {NULL}) = Roots \ {client}
  OBVIOUS
<1>5. NULL \notin Roots
  BY <1>2, RootsAreLive
<1> QED
  BY <1>1, <1>3, <1>4, <1>5, ClientVariable, Assigned

LEMMA HandleProtocolStep ==
    ASSUME IInv, NEW k \in 0..2, HandleProtocol(k) PROVE IInv'
<1> DEFINE c == ptr["message"]
           t == ptr["timeline"]
           received == Recv(heap, c, TRUE, k)
           known == ptr["client"] # NULL
           client == IF known THEN ptr["client"] ELSE Fresh(received, "frame")
           made == IF known THEN received ELSE Put(received, client, Octets)
           sent(h) == SetRoutingId(h, c, client)
           encoded == Encode(made, t, c)
           C == Roots \cup {client}
<1>1. running /\ UNCHANGED <<pipe, dropped, running>>
  BY DEF HandleProtocol
<1>2. \/ heap' = made /\ ptr' = [ptr EXCEPT !["client"] = client]
      \/ heap' = sent(made) /\ ptr' = [ptr EXCEPT !["client"] = client]
      \/ heap' = Free(sent(made), client) /\ ptr' = [ptr EXCEPT !["client"] = NULL]
      \/ /\ t # NULL
         /\ heap' = Free(sent(encoded), client) /\ ptr' = [ptr EXCEPT !["client"] = NULL]
  BY DEF HandleProtocol
<1>3. c \in Roots /\ c \in Kind("codec") /\ InOrder(heap, Roots) /\ NULL \notin Roots
  <2>1. c # NULL
    BY <1>1 DEF IInv, PointersFit
  <2> QED
    BY <2>1, CodecVariable, RootsAreLive
<1>4. t # NULL => t \in Roots /\ t \in Kind("timeline")
  BY VariablesAre, VariableInHand
<1> HIDE DEF c, t
<1>5. InOrder(received, Roots)
  <2>1. k \in Nat /\ TRUE \in BOOLEAN
    OBVIOUS
  <2> QED
    BY <1>3, <2>1, RecvKeepsOrder
<1> HIDE DEF received
<1>6. /\ InOrder(made, C) /\ client \in Kind("frame")
      /\ client \notin Roots \/ client = ptr["client"]
  <2>1. CASE known
    <3>1. C = Roots
      BY <2>1, ClientVariable
    <3> QED
      BY <1>5, <2>1, <3>1, ClientVariable
  <2>2. CASE ~ known
    <3>1. "frame" \in LeafKinds
      BY DEF LeafKinds
    <3> QED
      BY <1>5, <2>2, <3>1, NewLeaf DEF Octets
  <2> QED
    BY <2>1, <2>2
<1> HIDE DEF made
<1>7. ASSUME NEW h, InOrder(h, C) PROVE InOrder(sent(h), C)
  <2> HIDE DEF client
  <2> QED
    BY <1>3, <1>7, SetRoutingIdKeepsOrder
<1>8. t # NULL => InOrder(encoded, C)
  <2> HIDE DEF client
  <2> QED
    BY <1>3, <1>4, <1>6, EncodeKeepsOrder
<1>9. ASSUME NEW h, InOrder(h, C) PROVE InOrder(Free(h, client), C \ {client})
  <2>1. client[1] \in LeafKinds
    BY <1>6 DEF Kind, LeafKinds
  <2> HIDE DEF client
  <2> QED
    BY <1>9, <2>1, FreeLeaf
<1>10. client # NULL
  BY <1>6, NullIsNoPointer DEF Kind, Pointer
<1>11. /\ (Roots \ {ptr["client"]}) \cup ({client} \ {NULL}) = C
       /\ (Roots \ {ptr["client"]}) \cup ({NULL} \ {NULL}) = C \ {client}
  BY <1>3, <1>6, <1>10, ClientVariable
<1> HIDE DEF client, encoded, sent, C
<1>12. CASE InOrder(heap', C) /\ ptr' = [ptr EXCEPT !["client"] = client]
  BY <1>1, <1>6, <1>11, <1>12, ClientVariable, Assigned
<1>13. CASE InOrder(heap', C \ {client}) /\ ptr' = [ptr EXCEPT !["client"] = NULL]
  BY <1>1, <1>3, <1>11, <1>13, ClientVariable, Assigned
<1> QED
  BY <1>2, <1>6, <1>7, <1>8, <1>9, <1>12, <1>13

LEMMA ExitStep == ASSUME IInv, Exit PROVE IInv'
<1> DEFINE c == ptr["message"]
           client == ptr["client"]
           t == ptr["timeline"]
           h1 == DestroyCodec(heap, c)
           h2 == Free(h1, client)
           R1 == Roots \ {c}
           R2 == R1 \ {client}
           R3 == R2 \ {t}
<1>1. /\ running /\ running' = FALSE
      /\ heap' = DestroyTimeline(h2, t)
      /\ ptr' = [x \in DOMAIN ptr |-> IF x \in ServerVars THEN NULL ELSE ptr[x]]
      /\ dropped' = {pipe[i] : i \in DOMAIN pipe}
      /\ pipe' = <<>>
  BY DEF Exit, Terminate
<1>2. c \in Roots /\ c \in Kind("codec") /\ InOrder(heap, Roots) /\ NULL \notin Roots
  <2>1. c # NULL
    BY <1>1 DEF IInv, PointersFit
  <2> QED
    BY <2>1, CodecVariable, RootsAreLive
<1>3. /\ t \in Roots \/ t = NULL
      /\ t \in Kind("timeline") \cup {NULL}
      /\ client \in Roots \/ client = NULL
      /\ client = NULL \/ client[1] \in LeafKinds
      /\ client # NULL => client # c
      /\ t # NULL => t # c /\ t # client
  <2>1. {"timeline", "client", "message"} \subseteq Variables
    BY VariablesAre
  <2>2. /\ client # NULL => client # c
        /\ t # NULL => t # c /\ t # client
    BY <2>1 DEF IInv, Apart
  <2> QED
    BY <2>1, <2>2, VariablesAre, VariableInHand, ClientVariable
<1>4. DOMAIN ptr = Variables
  BY DEF IInv, PointersFit
<1>5. InOrder(heap', R3)
  <2> HIDE DEF c, t, client
  <2>1. InOrder(h1, R1)
    BY <1>2, DestroyCodecKeepsOrder
  <2> HIDE DEF h1
  <2>2. InOrder(h2, R2)
    <3>1. client \in R1 \cup {NULL}
      BY <1>3
    <3> HIDE DEF R1
    <3> QED
      BY <1>3, <2>1, <3>1, FreeLeaf
  <2> HIDE DEF h2
  <2>3. t \in R2 \cup {NULL}
    BY <1>3
  <2> HIDE DEF R2
  <2> QED
    BY <1>1, <1>3, <2>2, <2>3, DestroyTimelineKeepsOrder
<1>6. \A x \in Variables : ptr'[x] = IF x \in ServerVars THEN NULL ELSE ptr[x]
  BY <1>1, <1>4
<1>7. dropped = {} /\ \A i \in DOMAIN pipe : pipe[i] \in Kind("timeline") /\ pipe[i] # NULL
  <2>1. Kind("timeline") \subseteq Pointer
    BY DEF Kind, Pointer
  <2> QED
    BY <1>1, <2>1, NullIsNoPointer DEF IInv, PointersFit
<1>8. PointersFit'
  <2>1. ptr' \in [Variables -> Pointer \cup {NULL}]
    BY <1>1, <1>4 DEF IInv, PointersFit
  <2>2. \A x \in Variables : ptr'[x] \in Kind(KindOf(x)) \cup {NULL}
    BY <1>6 DEF IInv, PointersFit
  <2>3. pipe' \in Seq(Kind("timeline")) /\ dropped' \subseteq Kind("timeline")
    BY <1>1, <1>7
  <2> HIDE DEF c, t, client
  <2> QED
    BY <1>1, <2>1, <2>2, <2>3 DEF PointersFit
<1>9. Apart'
  <2>1. \A x, y \in Variables : ptr'[x] = ptr'[y] /\ ptr'[x] # NULL => x = y
    BY <1>6 DEF IInv, Apart
  <2>2. DOMAIN pipe' = {}
    BY <1>1
  <2>3. \A x \in Variables : ptr'[x] \notin dropped'
    BY <1>1, <1>6, <1>7 DEF IInv, Apart
  <2> QED
    BY <2>1, <2>2, <2>3 DEF Apart
<1>10. Roots' = R3
  <2>1. Roots' = ({ptr'[x] : x \in Variables} \cup {pipe[i] : i \in DOMAIN pipe}) \ {NULL}
    <3>1. {pipe'[i] : i \in DOMAIN pipe'} = {}
      BY <1>1
    <3> QED
      BY <1>1, <3>1 DEF Roots
  <2>2. ServerVars = {"timeline", "message", "client"} /\ ServerVars \subseteq Variables
    BY DEF ServerVars, Variables
  <2>3. ASSUME NEW p \in Roots' PROVE p \in R3
    <3>1. CASE \E x \in Variables : p = ptr'[x]
      <4>1. PICK x \in Variables : p = ptr'[x]
        BY <3>1
      <4>2. x \notin ServerVars /\ p = ptr[x] /\ p # NULL
        BY <1>6, <2>1, <2>3, <4>1
      <4>3. p # c /\ p # client /\ p # t
        BY <2>2, <4>2 DEF IInv, Apart
      <4> QED
        BY <4>2, <4>3 DEF Roots
    <3>2. CASE \E i \in DOMAIN pipe : p = pipe[i]
      <4>1. p # c /\ p # client /\ p # t
        BY <2>2, <3>2 DEF IInv, Apart
      <4> QED
        BY <1>7, <3>2, <4>1 DEF Roots
    <3> QED
      BY <2>1, <2>3, <3>1, <3>2
  <2>4. ASSUME NEW p \in R3 PROVE p \in Roots'
    <3>1. CASE \E x \in Variables : p = ptr[x]
      <4>1. PICK x \in Variables : p = ptr[x]
        BY <3>1
      <4>2. x \notin ServerVars
        BY <2>2, <2>4, <4>1
      <4> QED
        BY <1>6, <2>1, <2>4, <4>1, <4>2 DEF Roots
    <3> QED
      BY <1>7, <2>1, <2>4, <3>1 DEF Roots
  <2> QED
    BY <2>3, <2>4
<1> QED
  BY <1>5, <1>8, <1>9, <1>10 DEF IInv

-----------------------------------------------------------------------------
(* The theorems. *)

LEMMA InitHolds == ASSUME Init PROVE IInv
<1> DEFINE c == <<"codec", 1>>
<1>1. c \in Kind("codec") /\ c \in Pointer /\ c # NULL /\ c[1] = "codec"
  BY NullIsNoPointer DEF Kind, Pointer
<1>2. /\ heap = [p \in {c} |-> NewCodec]
      /\ ptr = [x \in Variables |-> IF x = "message" THEN c ELSE NULL]
      /\ pipe = <<>> /\ dropped = {} /\ running = TRUE
  BY DEF Init, Variables
<1> HIDE DEF c
<1>3. /\ "message" \in Variables /\ KindOf("message") = "codec"
      /\ ptr["message"] = c
      /\ \A x \in Variables : x # "message" => ptr[x] = NULL
  BY <1>2, VariablesAre
<1>4. PointersFit
  <2>1. ptr \in [Variables -> Pointer \cup {NULL}]
    BY <1>1, <1>2
  <2>2. pipe \in Seq(Kind("timeline")) /\ dropped \subseteq Kind("timeline")
    BY <1>2
  <2> QED
    BY <1>1, <1>2, <1>3, <2>1, <2>2 DEF PointersFit
<1>5. DOMAIN pipe = {}
  BY <1>2
<1>6. Apart
  BY <1>2, <1>3, <1>5 DEF Apart
<1>7. Roots = {c}
  BY <1>1, <1>2, <1>3, <1>5 DEF Roots
<1>8. InOrder(heap, {c})
  <2>1. Fit(c, NewCodec) /\ Held(c, NewCodec) = {}
    BY <1>1, NewCodecIsEmpty
  <2>2. DOMAIN heap = {c} /\ heap[c] = NewCodec
    BY <1>2
  <2>3. Shaped(heap)
    BY <1>1, <1>2, <2>1, <2>2, FS_Singleton DEF Shaped
  <2>4. \A q, f, p : ~ Owns(heap, q, f, p)
    BY <2>1, <2>2 DEF Owns, Held
  <2> QED
    BY <2>2, <2>3, <2>4 DEF InOrder
<1> QED
  BY <1>4, <1>6, <1>7, <1>8 DEF IInv

LEMMA StutterStep == ASSUME IInv, UNCHANGED vars PROVE IInv'
BY DEF vars, IInv, PointersFit, Apart, Roots

LEMMA InvHolds == Spec => []IInv
<1>1. Init => IInv
  BY InitHolds
<1>2. IInv /\ [Next]_vars => IInv'
  <2> SUFFICES ASSUME IInv, [Next]_vars PROVE IInv'
    OBVIOUS
  <2>1. ASSUME NEW x \in {"tl", "tl2"},
               \/ CallerNew(x)
               \/ \E n \in Sizes : CallerSetIntervals(x, n)
               \/ CallerDestroy(x)
        PROVE  IInv'
    BY <2>1, CallerNewStep, CallerSetIntervalsStep, CallerDestroyStep
  <2>2. ASSUME NEW k \in 0..2, CallerRecv(k) \/ HandleProtocol(k) PROVE IInv'
    BY <2>2, CallerRecvStep, HandleProtocolStep
  <2>3. ASSUME NEW field \in {"epochs", "times"},
               CallerGetChunk(field) \/ CallerSetChunk(field)
        PROVE  IInv'
    BY <2>3, CallerGetChunkStep, CallerSetChunkStep
  <2> QED
    BY <2>1, <2>2, <2>3, StutterStep, CallerDupStep, CallerNewCodecStep,
       CallerDestroyCodecStep, CallerDupCodecStep, CallerEncodeStep,
       CallerDecodeStep, CallerDestroyChunkStep, HandOverStep,
       HandleNewTimelineStep, ClientExpiresStep, ExitStep
       DEF Next
<1> QED
  BY <1>1, <1>2, PTL DEF Spec

LEMMA BlocksAreFields == ASSUME NEW p \in Pointer, NEW b, Fit(p, b) PROVE b \in Fields
<1>1. CASE p[1] = "timeline"
  <2>1. b \in TimelineBlock
    BY <1>1 DEF Fit
  <2> QED
    BY <2>1 DEF TimelineBlock, Kind, Pointer, Fields
<1>2. CASE p[1] = "codec"
  <2>1. b \in CodecBlock
    BY <1>2 DEF Fit
  <2> QED
    BY <2>1 DEF CodecBlock, Kind, Pointer, Fields
<1>3. CASE p[1] \in LeafKinds
  <2>1. b \in LeafBlock
    BY <1>3 DEF Fit
  <2> QED
    BY <2>1 DEF LeafBlock, Fields
<1>4. p[1] \in {"timeline", "codec"} \cup LeafKinds
  BY DEF Pointer, LeafKinds
<1> QED
  BY <1>1, <1>2, <1>3, <1>4

\* The heap is one of timelines, arrays, codec objects, chunks and frames, and
\* every pointer is NULL or one of malloc's.
THEOREM TypeCorrect == Spec => []TypeOK
<1>1. IInv => TypeOK
  <2> SUFFICES ASSUME IInv PROVE TypeOK
    OBVIOUS
  <2>1. InOrder(heap, Roots)
    BY DEF IInv
  <2>2. \A p \in DOMAIN heap : p \in Pointer /\ heap[p] \in Fields
    BY <2>1, RootsAreLive, BlocksAreFields
  <2>3. Kind("timeline") \subseteq Pointer
    BY DEF Kind, Pointer
  <2>4. pipe \in Seq(Pointer) /\ dropped \subseteq Pointer
    BY <2>3 DEF IInv, PointersFit
  <2>5. DOMAIN ptr = CallerVars \cup ServerVars
    BY DEF IInv, PointersFit, Variables
  <2>6. \A x \in DOMAIN ptr : ptr[x] \in Pointer \cup {NULL}
    BY DEF IInv, PointersFit
  <2> QED
    BY <2>2, <2>4, <2>5, <2>6 DEF TypeOK, IInv, PointersFit
<1> QED
  BY <1>1, InvHolds, PTL

\* Neither thread ever reads or frees a block that is not live: whatever the
\* caller does with its timelines and codec objects before and after it hands
\* one over, in whatever order the server takes them, answers and exits.
THEOREM NothingDeadIsTouched == Spec => []NoFault
<1>1. IInv => NoFault
  <2>1. FAULT \notin Pointer
    BY DEF FAULT, Pointer
  <2> QED
    BY <2>1, RootsAreLive DEF IInv, NoFault
<1> QED
  BY <1>1, InvHolds, PTL

\* Whoever holds a pointer is outside, or the field of a live block.
LEMMA HoldersAre ==
    ASSUME IInv, NEW h \in Holdings
    PROVE  \/ /\ h[3] \in Roots
              /\ \/ \E x \in Variables : h = <<"variable", x, ptr[x]>>
                 \/ \E i \in DOMAIN pipe : h = <<"pipe", i, pipe[i]>>
                 \/ \E p \in dropped : h = <<"dropped", p, p>>
           \/ \E q, f : /\ Owns(heap, q, f, h[3])
                        /\ h = <<q[1], <<q[2], f>>, heap[q][f]>>
<1>1. h[3] # NULL
  BY DEF Holdings
<1>2. CASE \E x \in DOMAIN ptr : h = <<"variable", x, ptr[x]>>
  BY <1>1, <1>2 DEF IInv, PointersFit, Roots
<1>3. CASE \E i \in DOMAIN pipe : h = <<"pipe", i, pipe[i]>>
  BY <1>1, <1>3 DEF Roots
<1>4. CASE \E p \in dropped : h = <<"dropped", p, p>>
  BY <1>1, <1>4 DEF Roots
<1>5. CASE \E q \in DOMAIN heap : \E f \in Owning(q, heap[q]) :
              h = <<q[1], <<q[2], f>>, heap[q][f]>>
  BY <1>1, <1>5 DEF Owns
<1> QED
  BY <1>2, <1>3, <1>4, <1>5 DEF Holdings

\* A block has one owner, and no pointer outlives its block: the two threads,
\* which use no lock, never have the same one in hand.
THEOREM BlocksHaveOneOwner == Spec => []SingleOwner
<1>1. ASSUME IInv PROVE SingleOwner
  <2>1. InOrder(heap, Roots)
    BY <1>1 DEF IInv
  <2>2. ASSUME NEW h \in Holdings PROVE h[3] \in DOMAIN heap
    BY <1>1, <2>1, HoldersAre DEF InOrder
  <2>3. ASSUME NEW g \in Holdings, NEW h \in Holdings, g[3] = h[3] PROVE g = h
    <3> DEFINE Out(k) == \/ \E x \in Variables : k = <<"variable", x, ptr[x]>>
                         \/ \E i \in DOMAIN pipe : k = <<"pipe", i, pipe[i]>>
                         \/ \E p \in dropped : k = <<"dropped", p, p>>
               In(k) == \E q, f : /\ Owns(heap, q, f, k[3])
                                  /\ k = <<q[1], <<q[2], f>>, heap[q][f]>>
    <3>1. (g[3] \in Roots /\ Out(g)) \/ In(g)
      BY <1>1, HoldersAre
    <3>2. (h[3] \in Roots /\ Out(h)) \/ In(h)
      BY <1>1, HoldersAre
    <3>3. \A k \in {g, h} : In(k) => k[3] \notin Roots
      BY <2>1 DEF InOrder
    <3>4. CASE In(g) /\ In(h)
      BY <2>1, <2>3, <3>4 DEF InOrder
    <3>5. CASE Out(g) /\ Out(h) /\ g[3] \in Roots
      <4>1. g[3] # NULL
        BY <3>5 DEF Roots
      <4> QED
        BY <1>1, <2>3, <3>5, <4>1 DEF IInv, Apart
    <3> HIDE DEF Out, In
    <3> QED
      BY <2>3, <3>1, <3>2, <3>3, <3>4, <3>5
  <2> QED
    BY <2>2, <2>3 DEF SingleOwner
<1> QED
  BY <1>1, InvHolds, PTL

\* What is lost is an array of no intervals, which set_intervals allocates and
\* no code frees; all else is in someone's hands, or was in the pipe at exit.
THEOREM NothingElseLeaks == Spec => []OnlyEmptyArraysLeak
<1>1. ASSUME IInv PROVE OnlyEmptyArraysLeak
  <2> SUFFICES ASSUME NEW p \in Stray
               PROVE  p[1] \in {"int[]", "int64_t[]"} /\ heap[p].size = 0
    BY DEF OnlyEmptyArraysLeak
  <2>1. p \in DOMAIN heap /\ \A h \in Holdings : h[3] # p
    BY DEF Stray
  <2>2. p # NULL
    BY <1>1, <2>1, RootsAreLive DEF IInv
  <2>3. p \notin Roots
    <3>1. \A x \in DOMAIN ptr : ptr[x] # p
      <4> SUFFICES ASSUME NEW x \in DOMAIN ptr, ptr[x] = p PROVE FALSE
        OBVIOUS
      <4>1. <<"variable", x, ptr[x]>> \in Holdings
        BY <2>2 DEF Holdings
      <4> QED
        BY <2>1, <4>1
    <3>2. \A i \in DOMAIN pipe : pipe[i] # p
      <4> SUFFICES ASSUME NEW i \in DOMAIN pipe, pipe[i] = p PROVE FALSE
        OBVIOUS
      <4>1. <<"pipe", i, pipe[i]>> \in Holdings
        BY <2>2 DEF Holdings
      <4> QED
        BY <2>1, <4>1
    <3>3. p \notin dropped
      <4> SUFFICES ASSUME p \in dropped PROVE FALSE
        OBVIOUS
      <4>1. <<"dropped", p, p>> \in Holdings
        BY <2>2 DEF Holdings
      <4> QED
        BY <2>1, <4>1
    <3> QED
      BY <1>1, <3>1, <3>2, <3>3 DEF Roots, IInv, PointersFit
  <2>4. \A q, f : ~ Owns(heap, q, f, p)
    <3> SUFFICES ASSUME NEW q, NEW f, Owns(heap, q, f, p) PROVE FALSE
      OBVIOUS
    <3> DEFINE h == <<q[1], <<q[2], f>>, heap[q][f]>>
    <3>1. q \in DOMAIN heap /\ f \in Owning(q, heap[q]) /\ heap[q][f] = p
      BY DEF Owns
    <3>2. h[3] = p
      BY <3>1
    <3>3. h \in UNION {{<<r[1], <<r[2], g>>, heap[r][g]>> : g \in Owning(r, heap[r])} :
                          r \in DOMAIN heap}
      BY <3>1
    <3> HIDE DEF h
    <3>4. h \in Holdings
      BY <2>2, <3>2, <3>3 DEF Holdings
    <3> QED
      BY <2>1, <3>2, <3>4
  <2>5. EmptyArray(heap, p)
    BY <1>1, <2>1, <2>3, <2>4 DEF IInv, InOrder
  <2> QED
    BY <2>5 DEF EmptyArray
<1> QED
  BY <1>1, InvHolds, PTL
=============================================================================
