------------------------- MODULE DaxTimeline_proofs -------------------------
(* What TLAPS proves of the operators of the codec, its text form and the   *)
(* timeline class; the proofs about the state machines rest on it.          *)
EXTENDS DaxTimelineCodecText, SequenceTheorems, TLAPS

-----------------------------------------------------------------------------
(* The operators of the codec and of the timeline class keep their types. *)

\* Sending any codec object writes a frame, the NULL chunks included.
LEMMA SendFrameType == ASSUME NEW m \in Codec PROVE SendFrame(m) \in Frame
<1>1. /\ OnWire(m.epochs) \in Chunk
      /\ OnWire(m.times) \in Chunk
      /\ <<>> \in Chunk
  BY DEF OnWire, Codec, Chunk
<1>2. FullLength(m.id) \in 0..TimesRead
  BY DEF FullLength, TimesRead, ReasonRead, IdRead
<1> QED
  BY <1>1, <1>2 DEF SendFrame, Codec, Frame

\* Receiving any frame, whole or not, leaves a codec object.
LEMMA RecvIntoType ==
  ASSUME NEW m \in Codec, NEW f \in Frame PROVE RecvInto(m, f) \in Codec
  BY DEF RecvInto, Codec, Frame

\* Encoding a timeline into a codec object leaves a codec object.
LEMMA EncodeType ==
  ASSUME NEW t \in Timeline, NEW m \in Codec PROVE Encode(t, m) \in Codec
<1>1. /\ Unsigned(t.ident, IdentModulus) \in Nat
      /\ Unsigned(t.sot, TickModulus) \in Nat
  BY ModulusAssumption DEF Unsigned, Timeline
<1> QED
  BY <1>1 DEF Encode, Codec, Timeline, TIMELINE

\* Setting the id or the status of a codec object.
LEMMA WithType ==
  ASSUME NEW m \in Codec, NEW n \in Nat
  PROVE  WithId(m, n) \in Codec /\ WithStatus(m, n) \in Codec
  BY DEF WithId, WithStatus, Codec

\* set_id writes the id and nothing else.
LEMMA WithIdSets ==
  ASSUME NEW m \in Codec, NEW n \in Nat
  PROVE  /\ WithId(m, n).id = n
         /\ WithId(m, n).ident = m.ident
         /\ WithId(m, n).created = m.created
         /\ WithId(m, n).sot = m.sot
         /\ WithId(m, n).epochs = m.epochs
         /\ WithId(m, n).times = m.times
  BY DEF WithId, Codec

\* A fresh codec object.
LEMMA NewCodecType == NewCodec \in Codec
  BY DEF NewCodec, Codec

-----------------------------------------------------------------------------
(* The conversions between signed and unsigned fields. *)

\* Dividing with remainder a number that is at most one modulus away.
LEMMA Remainder ==
  ASSUME NEW m \in Nat \ {0}, NEW i \in Int, -m <= i, i < m
  PROVE  i % m = IF i < 0 THEN i + m ELSE i
<1>1. i % m \in 0..(m - 1)
  OBVIOUS
<1> QED
  BY <1>1

\* A signed number survives its way through an unsigned field of any width.
LEMMA SignedUnsigned ==
  ASSUME NEW m \in Nat \ {0}, NEW i \in Int, Fits(i, m)
  PROVE  Signed(Unsigned(i, m), m) = i
  BY Remainder DEF Signed, Unsigned, Fits

\* An unsigned number survives its way through a signed text of its width.
LEMMA UnsignedSigned ==
  ASSUME NEW m \in Nat \ {0}, NEW u \in 0..(m - 1)
  PROVE  Unsigned(Signed(u, m), m) = u
  BY Remainder DEF Signed, Unsigned

\* What decode makes of a codec object with both chunks is a timeline.
LEMMA DecodeType ==
  ASSUME NEW m \in Codec, CanDecode(m) PROVE Decode(m) \in Timeline
<1>1. /\ Signed(m.ident, IdentModulus) \in Int
      /\ Signed(m.sot, TickModulus) \in Int
  BY ModulusAssumption DEF Signed, Codec
<1>2. m.epochs \in Chunk /\ m.times \in Chunk
  BY DEF CanDecode, Codec
<1>3. NewTimeline \in Timeline
  BY DEF NewTimeline, Timeline, Chunk
<1> QED
  BY <1>1, <1>2, <1>3 DEF Decode, Timeline

\* The transfer fields of m (a codec object or a frame) are those of t.
Tells(m, t) == /\ m.ident = Unsigned(t.ident, IdentModulus)
               /\ m.sot = Unsigned(t.sot, TickModulus)
               /\ m.epochs = t.epochs
               /\ m.times = t.times

\* Encoding sets the fields it should, within their width, and the id.
LEMMA EncodeTells ==
  ASSUME NEW t \in Timeline, NEW m \in Codec
  PROVE  /\ Encode(t, m).id = TIMELINE
         /\ Encode(t, m).created = m.created
         /\ Encode(t, m).ident \in 0..(IdentModulus - 1)
         /\ Encode(t, m).sot \in 0..(TickModulus - 1)
         /\ Tells(Encode(t, m), t)
<1>1. /\ Unsigned(t.ident, IdentModulus) \in 0..(IdentModulus - 1)
      /\ Unsigned(t.sot, TickModulus) \in 0..(TickModulus - 1)
  BY ModulusAssumption DEF Unsigned, Timeline
<1> QED
  BY <1>1 DEF Encode, Tells, Codec

\* Decoding fields that tell of a timeline gives its duplicate.
LEMMA DecodeTells ==
  ASSUME NEW t \in Timeline, NEW m \in Codec, Tells(m, t),
         Fits(t.ident, IdentModulus), Fits(t.sot, TickModulus)
  PROVE  Decode(m) = Dup(t)
<1>1. /\ Signed(m.ident, IdentModulus) = t.ident
      /\ Signed(m.sot, TickModulus) = t.sot
  BY SignedUnsigned, ModulusAssumption DEF Tells, Timeline
<1>2. m.epochs = t.epochs /\ m.times = t.times
  BY DEF Tells
<1> QED
  BY <1>1, <1>2 DEF Decode, Dup, NewTimeline, Timeline

-----------------------------------------------------------------------------
(* The text form. *)

\* The text of a codec object is one.
LEMMA ZplType == ASSUME NEW m \in Codec, CanZpl(m) PROVE Zpl(m) \in Text
<1>1. /\ Signed(m.created, TickModulus) \in Int
      /\ Signed(m.sot, TickModulus) \in Int
  BY ModulusAssumption DEF Signed, Codec
<1> QED
  BY <1>1 DEF Zpl, CanZpl, Text, Codec

\* What new_zpl makes of a text is a codec object.
LEMMA NewZplType ==
  ASSUME NEW t \in Text, CanNewZpl(t) PROVE NewZpl(t) \in Codec
<1>1. t.message = TIMELINE => /\ t.ident \in Int
                              /\ t.created \in Int
                              /\ t.sot \in Int
                              /\ t.epochs \in Chunk
                              /\ t.times \in Chunk
  BY DEF CanNewZpl, Text, TIMELINE, SEND_TIMELINE, ERROR
<1>2. t.message = ERROR => t.status \in Nat
  BY DEF CanNewZpl, Text, TIMELINE, SEND_TIMELINE, ERROR
<1>3. t.message \in Nat
  BY DEF CanNewZpl, TIMELINE, SEND_TIMELINE, ERROR
<1>4. /\ Fields(t).ident \in Int
      /\ Fields(t).created \in Int
      /\ Fields(t).sot \in Int
  BY <1>1 DEF Fields, NewCodec
<1>5. /\ Unsigned(Fields(t).ident, IdentModulus) \in Nat
      /\ Unsigned(Fields(t).created, TickModulus) \in Nat
      /\ Unsigned(Fields(t).sot, TickModulus) \in Nat
  BY <1>4, ModulusAssumption DEF Unsigned
<1>6. /\ Fields(t).id \in Nat
      /\ Fields(t).epochs \in {NULL} \cup Chunk
      /\ Fields(t).times \in {NULL} \cup Chunk
      /\ Fields(t).status \in Nat
  BY <1>1, <1>2, <1>3 DEF Fields, NewCodec
<1> QED
  BY <1>5, <1>6 DEF NewZpl, Fields, Codec

\* The numbers of codec object m have the width of their fields.
InWidth(m) == /\ m.ident \in 0..(IdentModulus - 1)
              /\ m.created \in 0..(TickModulus - 1)
              /\ m.sot \in 0..(TickModulus - 1)

\* What a message has is still there in the object made of its text.
LEMMA TextFields ==
  ASSUME NEW m \in Codec, InWidth(m),
         m.id \in {TIMELINE, SEND_TIMELINE, ERROR}
  PROVE  /\ NewZpl(Zpl(m)).id = m.id
         /\ m.id = TIMELINE =>
               /\ NewZpl(Zpl(m)).ident = m.ident
               /\ NewZpl(Zpl(m)).created = m.created
               /\ NewZpl(Zpl(m)).sot = m.sot
               /\ NewZpl(Zpl(m)).epochs = m.epochs
               /\ NewZpl(Zpl(m)).times = m.times
         /\ m.id = ERROR => NewZpl(Zpl(m)).status = m.status
<1>1. Unsigned(m.ident, IdentModulus) = m.ident
  BY Remainder, ModulusAssumption DEF Unsigned, InWidth
<1>2. /\ Unsigned(Signed(m.created, TickModulus), TickModulus) = m.created
      /\ Unsigned(Signed(m.sot, TickModulus), TickModulus) = m.sot
  BY UnsignedSigned, ModulusAssumption DEF InWidth
<1> QED
  BY <1>1, <1>2 DEF NewZpl, Fields, Zpl

\* The text of whatever is in a codec object makes an object that sends the
\* same frame.
LEMMA TextRoundTrip ==
  ASSUME NEW m \in Codec, InWidth(m),
         m.id \in {TIMELINE, SEND_TIMELINE, ERROR}
  PROVE  /\ NewZpl(Zpl(m)).id = m.id
         /\ SendFrame(NewZpl(Zpl(m))) = SendFrame(m)
  BY TextFields DEF SendFrame

-----------------------------------------------------------------------------
(* Queues: where an element was, before something was put in or taken out. *)

\* An empty queue has no elements.
LEMMA EmptyHasNoPlaces == DOMAIN <<>> = {}
<1>1. <<>> \in Seq({}) /\ Len(<<>>) = 0
  BY EmptySeq
<1>2. DOMAIN <<>> = 1..Len(<<>>)
  BY <1>1, LenProperties
<1> QED
  BY <1>1, <1>2

\* Where the elements of a queue are after one was put behind them.
LEMMA AppendPlaces ==
  ASSUME NEW S, NEW s \in Seq(S), NEW e \in S, NEW t, t = Append(s, e)
  PROVE  \A i \in DOMAIN t : t[i] = e \/ (i \in DOMAIN s /\ t[i] = s[i])
<1>1. /\ DOMAIN s = 1..Len(s)
      /\ Len(s) \in Nat
  BY LenProperties
<1>2. /\ Append(s, e) \in Seq(S)
      /\ Len(Append(s, e)) = Len(s) + 1
      /\ \A i \in 1..Len(s) : Append(s, e)[i] = s[i]
      /\ Append(s, e)[Len(s) + 1] = e
  BY AppendProperties
<1>3. DOMAIN Append(s, e) = 1..(Len(s) + 1)
  BY <1>2, LenProperties
<1> QED
  BY <1>1, <1>2, <1>3

\* What is in a queue stays in its place when something is put behind it.
LEMMA AppendKeeps ==
  ASSUME NEW S, NEW s \in Seq(S), NEW e \in S, NEW t, t = Append(s, e)
  PROVE  /\ \A i \in DOMAIN s : i \in DOMAIN t /\ t[i] = s[i]
         /\ \E i \in DOMAIN t : t[i] = e
<1>1. /\ DOMAIN s = 1..Len(s)
      /\ Len(s) \in Nat
  BY LenProperties
<1>2. /\ t \in Seq(S)
      /\ Len(t) = Len(s) + 1
      /\ \A i \in 1..Len(s) : t[i] = s[i]
      /\ t[Len(s) + 1] = e
  BY AppendProperties
<1>3. DOMAIN t = 1..(Len(s) + 1)
  BY <1>2, LenProperties
<1> QED
  BY <1>1, <1>2, <1>3

\* Where the elements of a queue come from after its head was taken.
LEMMA TailPlaces ==
  ASSUME NEW S, NEW s \in Seq(S), s # <<>>
  PROVE  /\ Head(s) = s[1] /\ 1 \in DOMAIN s
         /\ \A i \in DOMAIN Tail(s) : \E j \in DOMAIN s : Tail(s)[i] = s[j]
<1>1. /\ DOMAIN s = 1..Len(s)
      /\ Len(s) \in Nat
      /\ Len(s) # 0
  BY LenProperties, EmptySeq
<1>2. /\ Tail(s) \in Seq(S)
      /\ Len(Tail(s)) = Len(s) - 1
      /\ \A i \in 1..Len(Tail(s)) : Tail(s)[i] = s[i + 1]
  BY HeadTailProperties
<1>3. DOMAIN Tail(s) = 1..(Len(s) - 1)
  BY <1>2, LenProperties
<1>4. \A i \in 1..(Len(s) - 1) : i + 1 \in DOMAIN s
  BY <1>1
<1>5. Head(s) = s[1] /\ 1 \in DOMAIN s
  BY <1>1
<1> QED
  BY <1>2, <1>3, <1>4, <1>5

\* The elements of a queue move up one place when its head is taken.
LEMMA TailShifts ==
  ASSUME NEW S, NEW s \in Seq(S), s # <<>>
  PROVE  /\ Len(s) \in Nat \ {0}
         /\ DOMAIN s = 1..Len(s)
         /\ Head(s) = s[1]
         /\ Tail(s) \in Seq(S)
         /\ Len(Tail(s)) = Len(s) - 1
         /\ DOMAIN Tail(s) = 1..(Len(s) - 1)
         /\ \A i \in 1..(Len(s) - 1) : Tail(s)[i] = s[i + 1]
         /\ Len(s) = 1 => Tail(s) = <<>>
<1>1. /\ DOMAIN s = 1..Len(s)
      /\ Len(s) \in Nat \ {0}
  BY LenProperties, EmptySeq
<1>2. /\ Tail(s) \in Seq(S)
      /\ Len(Tail(s)) = Len(s) - 1
      /\ \A i \in 1..Len(Tail(s)) : Tail(s)[i] = s[i + 1]
  BY HeadTailProperties
<1>3. DOMAIN Tail(s) = 1..(Len(s) - 1)
  BY <1>2, LenProperties
<1>4. Len(s) = 1 => Tail(s) = <<>>
  <2>1. Len(s) = 1 => Len(Tail(s)) = 0
    BY <1>2
  <2> QED
    BY <1>2, <2>1, EmptySeq
<1>5. Head(s) = s[1]
  BY <1>1
<1> QED
  BY <1>1, <1>2, <1>3, <1>4, <1>5

\* The elements of a queue keep their places when one is put behind them.
LEMMA AppendExtends ==
  ASSUME NEW S, NEW s \in Seq(S), NEW e \in S
  PROVE  /\ Len(s) \in Nat
         /\ DOMAIN s = 1..Len(s)
         /\ Append(s, e) \in Seq(S)
         /\ Len(Append(s, e)) = Len(s) + 1
         /\ DOMAIN Append(s, e) = 1..(Len(s) + 1)
         /\ \A i \in 1..Len(s) : Append(s, e)[i] = s[i]
         /\ Append(s, e)[Len(s) + 1] = e
<1>1. /\ Len(s) \in Nat
      /\ DOMAIN s = 1..Len(s)
  BY LenProperties
<1>2. /\ Append(s, e) \in Seq(S)
      /\ Len(Append(s, e)) = Len(s) + 1
      /\ \A i \in 1..Len(s) : Append(s, e)[i] = s[i]
      /\ Append(s, e)[Len(s) + 1] = e
  BY AppendProperties
<1>3. DOMAIN Append(s, e) = 1..(Len(s) + 1)
  BY <1>2, LenProperties
<1> QED
  BY <1>1, <1>2, <1>3

\* Where the elements of a queue are after its end was lost.
LEMMA PrefixPlaces ==
  ASSUME NEW S, NEW s \in Seq(S), NEW n \in Nat, n <= Len(s)
  PROVE  /\ Len(SubSeq(s, 1, n)) <= Len(s)
         /\ \A i \in DOMAIN SubSeq(s, 1, n) :
               \E k \in DOMAIN s : SubSeq(s, 1, n)[i] = s[k]
<1>1. /\ DOMAIN s = 1..Len(s)
      /\ Len(s) \in Nat
      /\ s \in [1..Len(s) -> S]
  BY LenProperties
<1>2. \A i \in 1..n : s[i] \in S
  BY <1>1
<1>3. /\ SubSeq(s, 1, n) \in Seq(S)
      /\ Len(SubSeq(s, 1, n)) = n
      /\ \A i \in 1..n : SubSeq(s, 1, n)[i] = s[i]
  BY <1>2, SubSeqProperties
<1>4. DOMAIN SubSeq(s, 1, n) = 1..n
  BY <1>3, LenProperties
<1> QED
  BY <1>1, <1>3, <1>4

-----------------------------------------------------------------------------
(* Queues through the eyes of an observer, who sees each element as g has it. *)

Mapped(g, s) == [i \in DOMAIN s |-> g[s[i]]]

\* The observer sees a queue of what can be seen.
LEMMA MappedType ==
  ASSUME NEW g, NEW S, NEW s \in Seq(S), NEW T, \A x \in S : g[x] \in T
  PROVE  Mapped(g, s) \in Seq(T)
<1>1. /\ DOMAIN s = 1..Len(s)
      /\ Len(s) \in Nat
      /\ \A i \in 1..Len(s) : s[i] \in S
  BY LenProperties
<1>2. Mapped(g, s) \in [1..Len(s) -> T]
  BY <1>1 DEF Mapped
<1> QED
  BY <1>1, <1>2, SeqDef

\* It is as long as the queue is.
LEMMA MappedPlaces ==
  ASSUME NEW g, NEW S, NEW s \in Seq(S)
  PROVE  /\ Len(Mapped(g, s)) = Len(s)
         /\ \A i \in 1..Len(s) : Mapped(g, s)[i] = g[s[i]]
<1> DEFINE T == {g[x] : x \in S}
<1>1. Mapped(g, s) \in Seq(T)
  BY MappedType
<1>2. /\ DOMAIN s = 1..Len(s)
      /\ Len(s) \in Nat
  BY LenProperties
<1>3. DOMAIN Mapped(g, s) = 1..Len(s)
  BY <1>2 DEF Mapped
<1> HIDE DEF T
<1>4. /\ DOMAIN Mapped(g, s) = 1..Len(Mapped(g, s))
      /\ Len(Mapped(g, s)) \in Nat
  BY <1>1, LenProperties
<1>5. Len(Mapped(g, s)) = Len(s)
  BY <1>2, <1>3, <1>4
<1> QED
  BY <1>2, <1>5 DEF Mapped

\* An empty queue looks empty, and no other does.
LEMMA MappedEmpty ==
  ASSUME NEW g, NEW S, NEW s \in Seq(S)
  PROVE  Mapped(g, s) = <<>> <=> s = <<>>
<1> DEFINE T == {g[x] : x \in S}
<1>0. Mapped(g, s) \in Seq(T)
  BY MappedType
<1> HIDE DEF T
<1>1. Len(Mapped(g, s)) = Len(s)
  BY MappedPlaces
<1>2. s # <<>> => Len(s) # 0
  BY EmptySeq
<1>3. Mapped(g, s) # <<>> => Len(Mapped(g, s)) # 0
  BY <1>0, EmptySeq
<1>4. Len(<<>>) = 0
  BY EmptySeq
<1> QED
  BY <1>1, <1>2, <1>3, <1>4

\* Putting an element behind a queue looks like that.
LEMMA MappedAppend ==
  ASSUME NEW g, NEW S, NEW s \in Seq(S), NEW e \in S
  PROVE  Mapped(g, Append(s, e)) = Append(Mapped(g, s), g[e])
<1> DEFINE T == {g[x] : x \in S}
<1>0. ASSUME NEW q \in Seq(S)
      PROVE  /\ Mapped(g, q) \in Seq(T)
             /\ Len(Mapped(g, q)) = Len(q)
             /\ \A i \in 1..Len(q) : Mapped(g, q)[i] = g[q[i]]
  <2>1. Mapped(g, q) \in Seq(T)
    BY MappedType
  <2> QED
    BY <2>1, MappedPlaces
<1> DEFINE a == Append(s, e)
<1>1. /\ a \in Seq(S)
      /\ Len(a) = Len(s) + 1
      /\ Len(s) \in Nat
      /\ \A i \in 1..Len(s) : a[i] = s[i]
      /\ a[Len(s) + 1] = e
  BY AppendExtends
<1>2. g[e] \in T
  OBVIOUS
<1> HIDE DEF a, T
<1>3. /\ Mapped(g, a) \in Seq(T)
      /\ Len(Mapped(g, a)) = Len(a)
      /\ \A i \in 1..Len(a) : Mapped(g, a)[i] = g[a[i]]
  BY <1>0, <1>1
<1>4. /\ Mapped(g, s) \in Seq(T)
      /\ Len(Mapped(g, s)) = Len(s)
      /\ \A i \in 1..Len(s) : Mapped(g, s)[i] = g[s[i]]
  BY <1>0
<1>5. /\ Append(Mapped(g, s), g[e]) \in Seq(T)
      /\ Len(Append(Mapped(g, s), g[e])) = Len(s) + 1
      /\ \A i \in 1..Len(s) : Append(Mapped(g, s), g[e])[i] = Mapped(g, s)[i]
      /\ Append(Mapped(g, s), g[e])[Len(s) + 1] = g[e]
  <2>1. /\ Append(Mapped(g, s), g[e]) \in Seq(T)
        /\ Len(Append(Mapped(g, s), g[e])) = Len(Mapped(g, s)) + 1
        /\ \A i \in 1..Len(Mapped(g, s)) :
              Append(Mapped(g, s), g[e])[i] = Mapped(g, s)[i]
        /\ Append(Mapped(g, s), g[e])[Len(Mapped(g, s)) + 1] = g[e]
    BY <1>2, <1>4, AppendProperties
  <2> QED
    BY <1>4, <2>1
<1>6. \A i \in 1..(Len(s) + 1) :
         Mapped(g, a)[i] = Append(Mapped(g, s), g[e])[i]
  BY <1>1, <1>3, <1>4, <1>5
<1>7. Mapped(g, a) = Append(Mapped(g, s), g[e])
  BY <1>1, <1>3, <1>5, <1>6, SeqEqual
<1> QED
  BY <1>7 DEF a

\* So does taking the head.
LEMMA MappedTail ==
  ASSUME NEW g, NEW S, NEW s \in Seq(S), s # <<>>
  PROVE  /\ Mapped(g, s) # <<>>
         /\ Head(Mapped(g, s)) = g[Head(s)]
         /\ Mapped(g, Tail(s)) = Tail(Mapped(g, s))
<1> DEFINE T == {g[x] : x \in S}
<1>0. ASSUME NEW q \in Seq(S)
      PROVE  /\ Mapped(g, q) \in Seq(T)
             /\ Len(Mapped(g, q)) = Len(q)
             /\ \A i \in 1..Len(q) : Mapped(g, q)[i] = g[q[i]]
  <2>1. Mapped(g, q) \in Seq(T)
    BY MappedType
  <2> QED
    BY <2>1, MappedPlaces
<1> DEFINE r == Tail(s)
           m == Mapped(g, s)
<1>1. /\ Len(s) \in Nat \ {0}
      /\ Head(s) = s[1]
      /\ r \in Seq(S)
      /\ Len(r) = Len(s) - 1
      /\ \A i \in 1..(Len(s) - 1) : r[i] = s[i + 1]
  BY TailShifts
<1>2. /\ m \in Seq(T)
      /\ Len(m) = Len(s)
      /\ \A i \in 1..Len(s) : m[i] = g[s[i]]
  BY <1>0
<1>3. m # <<>>
  BY MappedEmpty
<1> HIDE DEF T, r, m
<1>4. /\ Head(m) = m[1]
      /\ Tail(m) \in Seq(T)
      /\ Len(Tail(m)) = Len(m) - 1
      /\ \A i \in 1..(Len(m) - 1) : Tail(m)[i] = m[i + 1]
  BY <1>2, <1>3, TailShifts
<1>5. /\ Mapped(g, r) \in Seq(T)
      /\ Len(Mapped(g, r)) = Len(r)
      /\ \A i \in 1..Len(r) : Mapped(g, r)[i] = g[r[i]]
  BY <1>0, <1>1
<1>6. \A i \in 1..(Len(s) - 1) : Mapped(g, r)[i] = Tail(m)[i]
  BY <1>1, <1>2, <1>4, <1>5
<1>7. Mapped(g, r) = Tail(m)
  BY <1>1, <1>2, <1>4, <1>5, <1>6, SeqEqual
<1>8. Head(m) = g[Head(s)]
  BY <1>1, <1>2, <1>4
<1> QED
  BY <1>3, <1>7, <1>8 DEF r, m

\* And losing the end.
LEMMA MappedPrefix ==
  ASSUME NEW g, NEW S, NEW s \in Seq(S), NEW n \in Nat, n <= Len(s)
  PROVE  Mapped(g, SubSeq(s, 1, n)) = SubSeq(Mapped(g, s), 1, n)
<1> DEFINE T == {g[x] : x \in S}
<1>0. ASSUME NEW q \in Seq(S)
      PROVE  /\ Mapped(g, q) \in Seq(T)
             /\ Len(Mapped(g, q)) = Len(q)
             /\ \A i \in 1..Len(q) : Mapped(g, q)[i] = g[q[i]]
  <2>1. Mapped(g, q) \in Seq(T)
    BY MappedType
  <2> QED
    BY <2>1, MappedPlaces
<1> DEFINE r == SubSeq(s, 1, n)
           m == Mapped(g, s)
           l == SubSeq(m, 1, n)
<1>1. /\ m \in Seq(T)
      /\ Len(m) = Len(s)
      /\ \A i \in 1..Len(s) : m[i] = g[s[i]]
      /\ Len(s) \in Nat
  BY <1>0, LenProperties
<1> HIDE DEF T, m
<1>2. /\ \A i \in 1..n : s[i] \in S
      /\ \A i \in 1..n : m[i] \in T
  BY <1>1, LenProperties
<1>3. r \in Seq(S) /\ Len(r) = n /\ \A i \in 1..n : r[i] = s[i]
  BY <1>2, SubSeqProperties
<1>4. l \in Seq(T) /\ Len(l) = n /\ \A i \in 1..n : l[i] = m[i]
  BY <1>2, SubSeqProperties
<1> HIDE DEF r, l
<1>5. /\ Mapped(g, r) \in Seq(T)
      /\ Len(Mapped(g, r)) = Len(r)
      /\ \A i \in 1..Len(r) : Mapped(g, r)[i] = g[r[i]]
  BY <1>0, <1>3
<1>6. \A i \in 1..n : Mapped(g, r)[i] = l[i]
  BY <1>1, <1>3, <1>4, <1>5
<1>7. Mapped(g, r) = l
  BY <1>3, <1>4, <1>5, <1>6, SeqEqual
<1> QED
  BY <1>7 DEF r, l, m
=============================================================================
