---------------------- MODULE TimelineTransfer_proofs -----------------------
(* What TLAPS proves of TimelineTransfer, for every width of the codec's     *)
(* fields, every set of timelines and every length of the wire.              *)
EXTENDS TimelineTransfer, DaxTimeline_proofs

-----------------------------------------------------------------------------
(* Type correctness. *)

\* An element of the wire.
Envelope == [frame : Frame, about : Subject]

LEMMA TypeInit == Init => TypeOK
<1> SUFFICES ASSUME Init PROVE TypeOK
  OBVIOUS
<1>1. wire \in Seq([frame : Frame, about : Subject])
  BY DEF Init
<1> QED
  BY <1>1, NewCodecType DEF Init, TypeOK, Subject

\* Putting a frame on the wire.
LEMMA OnTheWayType ==
  ASSUME TypeOK, NEW frame \in Frame, NEW about \in Subject,
         OnTheWay(frame, about)
  PROVE  TypeOK'
<1>1. [frame |-> frame, about |-> about] \in Envelope
  BY DEF Envelope
<1>2. wire' \in Seq(Envelope)
  BY <1>1, AppendProperties DEF OnTheWay, TypeOK, Envelope
<1> QED
  BY <1>2 DEF OnTheWay, TypeOK, Envelope

\* Every step keeps every type.
LEMMA TypeStep == ASSUME TypeOK, [Next]_vars PROVE TypeOK'
<1>1. ASSUME NEW t \in Sources, EncodeTimeline(t) PROVE TypeOK'
  <2>1. t \in Timeline /\ out \in Codec
    BY <1>1, TransferAssumption DEF TypeOK
  <2> QED
    BY <1>1, <2>1, EncodeType DEF EncodeTimeline, TypeOK, Subject
<1>2. ASSUME NEW id \in {TIMELINE, SEND_TIMELINE, ERROR}, SetId(id)
      PROVE  TypeOK'
  BY <1>2, WithType DEF SetId, TypeOK, TIMELINE, SEND_TIMELINE, ERROR
<1>3. ASSUME NEW s \in Statuses, SetStatus(s) PROVE TypeOK'
  <2>1. s \in Nat
    BY TransferAssumption
  <2> QED
    BY <1>3, <2>1, WithType DEF SetStatus, TypeOK
<1>4. CASE Send
  BY <1>4, SendFrameType, OnTheWayType DEF Send, About, TypeOK, Subject
<1>5. ASSUME NEW f \in Foreign, SendForeign(f) PROVE TypeOK'
  BY <1>5, TransferAssumption, OnTheWayType DEF SendForeign, Subject
<1>6. CASE Recv
  <2>1. wire \in Seq(Envelope) /\ wire # <<>>
    BY <1>6 DEF Recv, TypeOK, Envelope
  <2>2. Head(wire) \in Envelope /\ Tail(wire) \in Seq(Envelope)
    BY <2>1, HeadTailProperties
  <2>3. RecvInto(in, Head(wire).frame) \in Codec
    BY <2>2, RecvIntoType DEF TypeOK, Envelope
  <2>4. RecvRc(Head(wire).frame) \in {0, -2}
    BY DEF RecvRc
  <2> QED
    BY <1>6, <2>2, <2>3, <2>4 DEF Recv, TypeOK, Envelope
<1>7. CASE Save
  <2>1. Zpl(out) \in Text /\ About \in Subject
    BY <1>7, ZplType DEF Save, TypeOK, About, Subject
  <2> QED
    BY <1>7, <2>1 DEF Save, TypeOK
<1>8. ASSUME NEW t \in Edited, Edit(t) PROVE TypeOK'
  BY <1>8, TransferAssumption DEF Edit, TypeOK, Subject
<1>9. CASE Load
  <2>1. file \in [text : Text, about : Subject] /\ CanNewZpl(file.text)
    BY <1>9 DEF Load, TypeOK
  <2>2. NewZpl(file.text) \in Codec
    BY <2>1, NewZplType
  <2> QED
    BY <1>9, <2>1, <2>2 DEF Load, TypeOK
<1>10. CASE DecodeTimeline
  <2>1. in \in Codec /\ CanDecode(in)
    BY <1>10 DEF DecodeTimeline, TypeOK
  <2>2. Decode(in) \in Timeline
    BY <2>1, DecodeType
  <2> QED
    BY <1>10, <2>2 DEF DecodeTimeline, TypeOK
<1>11. CASE UNCHANGED vars
  BY <1>11 DEF vars, TypeOK
<1> QED
  BY <1>1, <1>2, <1>3, <1>4, <1>5, <1>6, <1>7, <1>8, <1>9, <1>10, <1>11
  DEF Next

\* Whatever comes over the wire or out of the file, both codec objects and the
\* decoded timeline are of their types.
THEOREM TypeCorrect == Spec => []TypeOK
<1>1. Init => TypeOK
  BY TypeInit
<1>2. TypeOK /\ [Next]_vars => TypeOK'
  BY TypeStep
<1> QED
  BY <1>1, <1>2, PTL DEF Spec

-----------------------------------------------------------------------------
(* What every object on the way says of the timeline it is about. *)

\* A frame about a timeline the producer had is one that recv accepts, reads as
\* a whole TIMELINE, and finds that timeline in.
Sound(envelope) ==
    envelope.about # NULL =>
        /\ RecvRc(envelope.frame) = 0
        /\ Reaches(envelope.frame, TimesRead)
        /\ envelope.frame.id = TIMELINE
        /\ Tells(envelope.frame, envelope.about)

OutTells == /\ InWidth(out)
            /\ out.id = TIMELINE => held # NULL
            /\ held # NULL => Tells(out, held)

WireTells == \A n \in DOMAIN wire : Sound(wire[n])

FileTells ==
    file # NULL /\ file.about # NULL
        => /\ file.text.message = TIMELINE
           /\ Tells(NewZpl(file.text), file.about)

InTells == last # NULL /\ last.about # NULL
           => rc = 0 /\ in.id = TIMELINE /\ Tells(in, last.about)

\* What was decoded is what the codec object still holds.
GotFromIn == got # NULL => last # NULL /\ got = Decode(in)

TransferInv == OutTells /\ WireTells /\ FileTells /\ InTells /\ GotFromIn

LEMMA TransferInit == Init => TransferInv
  BY EmptyHasNoPlaces, ModulusAssumption
  DEF Init, TransferInv, OutTells, WireTells, FileTells, InTells, GotFromIn,
      NewCodec, InWidth, TIMELINE

\* Putting a sound frame on the wire.
LEMMA OnTheWayTells ==
  ASSUME TypeOK, TransferInv, NEW frame \in Frame, NEW about \in Subject,
         OnTheWay(frame, about), Sound([frame |-> frame, about |-> about])
  PROVE  TransferInv'
<1>1. [frame |-> frame, about |-> about] \in Envelope /\ wire \in Seq(Envelope)
  BY DEF Envelope, TypeOK
<1>2. WireTells'
  BY <1>1, AppendPlaces DEF OnTheWay, TransferInv, WireTells
<1> QED
  BY <1>2 DEF OnTheWay, TransferInv, OutTells, FileTells, InTells, GotFromIn

\* The frame written for the producer's codec object is sound.
LEMMA SendIsSound ==
  ASSUME TypeOK, TransferInv
  PROVE  Sound([frame |-> SendFrame(out), about |-> About])
<1> SUFFICES ASSUME About # NULL
             PROVE  /\ RecvRc(SendFrame(out)) = 0
                    /\ Reaches(SendFrame(out), TimesRead)
                    /\ SendFrame(out).id = TIMELINE
                    /\ Tells(SendFrame(out), About)
  BY DEF Sound
<1>1. out.id = TIMELINE /\ About = held /\ Tells(out, held)
  BY DEF About, TransferInv, OutTells
<1>2. held \in Timeline
  BY <1>1, TransferAssumption DEF TypeOK, Subject
<1>3. out.epochs # NULL /\ out.times # NULL
  BY <1>1, <1>2, TransferAssumption DEF Tells, Timeline
<1>4. SendFrame(out).id = TIMELINE /\ SendFrame(out).signature
  BY <1>1 DEF SendFrame
<1>5. SendFrame(out).held = TimesRead
  BY <1>1 DEF SendFrame, FullLength
<1>6. Reaches(SendFrame(out), TimesRead)
  BY <1>4, <1>5 DEF Reaches, TimesRead
<1>7. RecvRc(SendFrame(out)) = 0
  BY <1>4, <1>5 DEF RecvRc, TimesRead, TimesSize, EpochsSize
<1>8. Tells(SendFrame(out), held)
  BY <1>1, <1>3 DEF Tells, SendFrame, OnWire
<1> QED
  BY <1>1, <1>4, <1>6, <1>7, <1>8

\* Reading a sound frame.
LEMMA RecvTells ==
  ASSUME TypeOK, TransferInv, Recv PROVE TransferInv'
<1>1. wire \in Seq(Envelope) /\ wire # <<>>
  BY DEF Recv, TypeOK, Envelope
<1>2. /\ Head(wire) = wire[1] /\ 1 \in DOMAIN wire
      /\ \A i \in DOMAIN Tail(wire) : \E j \in DOMAIN wire : Tail(wire)[i] = wire[j]
  BY <1>1, TailPlaces
<1>3. Head(wire) \in Envelope
  BY <1>1, HeadTailProperties
<1>4. Sound(Head(wire))
  BY <1>2 DEF TransferInv, WireTells
<1>5. WireTells'
  BY <1>2 DEF Recv, TransferInv, WireTells
<1>6. ASSUME last'.about # NULL
      PROVE  rc' = 0 /\ in'.id = TIMELINE /\ Tells(in', last'.about)
  <2> DEFINE frame == Head(wire).frame
  <2>1. /\ rc' = RecvRc(frame)
        /\ in' = RecvInto(in, frame)
        /\ last' = Head(wire)
    BY DEF Recv
  <2>2. /\ RecvRc(frame) = 0
        /\ Reaches(frame, TimesRead)
        /\ frame.id = TIMELINE
        /\ Tells(frame, Head(wire).about)
    BY <1>4, <1>6, <2>1 DEF Sound
  <2>3. Reaches(frame, IdRead)
        /\ \A n \in SignatureRead..TimesRead : Carries(frame, TIMELINE, n)
    <3>1. frame.held \in Nat
      BY <1>3 DEF Envelope, Frame
    <3> QED
      BY <2>2, <3>1 DEF Carries, Reaches, SignatureRead, IdRead, TimesRead
  <2>4. /\ in'.id = frame.id
        /\ in'.ident = frame.ident
        /\ in'.sot = frame.sot
        /\ in'.epochs = frame.epochs
        /\ in'.times = frame.times
    BY <2>1, <2>3
    DEF RecvInto, SignatureRead, IdentRead, SotRead, EpochsRead, TimesRead
  <2> QED
    BY <2>1, <2>2, <2>4 DEF Tells
<1>7. OutTells' /\ FileTells' /\ GotFromIn'
  BY DEF Recv, TransferInv, OutTells, FileTells, GotFromIn
<1> QED
  BY <1>5, <1>6, <1>7 DEF TransferInv, InTells

\* Saving the producer's codec object.
LEMMA SaveTells ==
  ASSUME TypeOK, TransferInv, Save PROVE TransferInv'
<1>1. ASSUME file'.about # NULL
      PROVE  /\ file'.text.message = TIMELINE
             /\ Tells(NewZpl(file'.text), file'.about)
  <2>1. file'.text = Zpl(out) /\ file'.about = About
    BY DEF Save
  <2>2. out.id = TIMELINE /\ About = held /\ Tells(out, held) /\ InWidth(out)
    BY <1>1, <2>1 DEF About, TransferInv, OutTells
  <2>3. Zpl(out).message = TIMELINE
    BY <2>2 DEF Zpl
  <2>4. Tells(NewZpl(Zpl(out)), held)
    BY <2>2, TextFields DEF Tells, TypeOK
  <2> QED
    BY <2>1, <2>2, <2>3, <2>4
<1> QED
  BY <1>1
  DEF Save, TransferInv, OutTells, WireTells, FileTells, InTells, GotFromIn

\* No step, of the producer, the consumer or somebody else, leaves an object on
\* the way that tells another timeline than the one it is about.
LEMMA TransferStep ==
  ASSUME TypeOK, TransferInv, [Next]_vars
  PROVE  TransferInv'
<1>1. ASSUME NEW t \in Sources, EncodeTimeline(t) PROVE TransferInv'
  <2>1. t \in Timeline /\ t # NULL /\ out \in Codec
    BY <1>1, TransferAssumption DEF TypeOK
  <2>2. OutTells'
    BY <1>1, <2>1, EncodeTells
    DEF EncodeTimeline, TransferInv, OutTells, InWidth
  <2> QED
    BY <1>1, <2>2
    DEF EncodeTimeline, TransferInv, WireTells, FileTells, InTells, GotFromIn
<1>2. ASSUME NEW id \in {TIMELINE, SEND_TIMELINE, ERROR}, SetId(id)
      PROVE  TransferInv'
  <2>1. id \in Nat /\ out \in Codec
    BY DEF TypeOK, TIMELINE, SEND_TIMELINE, ERROR
  <2>2. OutTells'
    BY <1>2, <2>1, WithIdSets DEF SetId, TransferInv, OutTells, InWidth, Tells
  <2> QED
    BY <1>2, <2>2
    DEF SetId, TransferInv, WireTells, FileTells, InTells, GotFromIn
<1>3. ASSUME NEW s \in Statuses, SetStatus(s) PROVE TransferInv'
  <2>1. OutTells'
    BY <1>3 DEF SetStatus, WithStatus, TransferInv, OutTells, InWidth, Tells,
                TypeOK, Codec
  <2> QED
    BY <1>3, <2>1
    DEF SetStatus, TransferInv, WireTells, FileTells, InTells, GotFromIn
<1>4. CASE Send
  BY <1>4, SendFrameType, SendIsSound, OnTheWayTells
  DEF Send, About, TypeOK, Subject
<1>5. ASSUME NEW f \in Foreign, SendForeign(f) PROVE TransferInv'
  <2>1. Sound([frame |-> f, about |-> NULL])
    BY DEF Sound
  <2> QED
    BY <1>5, <2>1, TransferAssumption, OnTheWayTells DEF SendForeign, Subject
<1>6. CASE Recv
  BY <1>6, RecvTells
<1>7. CASE Save
  BY <1>7, SaveTells
<1>8. ASSUME NEW t \in Edited, Edit(t) PROVE TransferInv'
  BY <1>8 DEF Edit, TransferInv, OutTells, WireTells, FileTells, InTells,
              GotFromIn
<1>9. CASE Load
  <2>1. InTells'
    <3>1. in'.id = file.text.message
      BY <1>9 DEF Load, NewZpl, Fields
    <3> QED
      BY <1>9, <3>1 DEF Load, TransferInv, FileTells, InTells
  <2> QED
    BY <1>9, <2>1
    DEF Load, TransferInv, OutTells, WireTells, FileTells, GotFromIn
<1>10. CASE DecodeTimeline
  BY <1>10 DEF DecodeTimeline, TransferInv, OutTells, WireTells, FileTells,
               InTells, GotFromIn
<1>11. CASE UNCHANGED vars
  BY <1>11 DEF vars, TransferInv, OutTells, WireTells, FileTells, InTells,
               GotFromIn
<1> QED
  BY <1>1, <1>2, <1>3, <1>4, <1>5, <1>6, <1>7, <1>8, <1>9, <1>10, <1>11
  DEF Next

\* So both hold of every reachable state.
LEMMA TransferInvHolds == Spec => [](TypeOK /\ TransferInv)
<1>1. Init => TypeOK /\ TransferInv
  BY TypeInit, TransferInit
<1>2. TypeOK /\ TransferInv /\ [Next]_vars => (TypeOK /\ TransferInv)'
  BY TypeStep, TransferStep
<1> QED
  BY <1>1, <1>2, PTL DEF Spec

\* The timeline that an accepted message is about is one the producer had.
LEMMA SubjectsAreSources ==
  ASSUME TypeOK, last # NULL, last.about # NULL
  PROVE  last.about \in Sources /\ last.about \in Timeline
  BY TransferAssumption DEF TypeOK, Subject

\* What is decoded of a message of the producer, over the wire or out of the
\* text, after whatever other senders' frames were read into the same codec
\* object, is the duplicate of the timeline that was encoded, whatever the
\* width of the unsigned fields it went through.
THEOREM TransferIsDuplicate ==
  ASSUME SourcesFit
  PROVE  Spec => []RoundTrip
<1>1. TypeOK /\ TransferInv => RoundTrip
  <2> SUFFICES ASSUME TypeOK, TransferInv, got # NULL, last.about # NULL
               PROVE  got = Dup(last.about)
    BY DEF RoundTrip
  <2>1. last # NULL /\ got = Decode(in)
    BY DEF TransferInv, GotFromIn
  <2>2. last.about \in Sources /\ last.about \in Timeline
    BY <2>1, SubjectsAreSources
  <2>3. Tells(in, last.about) /\ in \in Codec
    BY <2>1 DEF TransferInv, InTells, TypeOK
  <2> QED
    BY <2>1, <2>2, <2>3, DecodeTells DEF SourcesFit
<1> QED
  BY <1>1, TransferInvHolds, PTL

\* Every message of the producer is accepted, and the assertion and the pointers
\* of dax_timeline_decode hold on it, if the producer's timelines have as many
\* end times as epochs, whatever was read into the same codec object before.
THEOREM SentIsDecoded ==
  ASSUME SourcesPaired
  PROVE  Spec => []SentCanBeDecoded
<1>1. TypeOK /\ TransferInv => SentCanBeDecoded
  <2> SUFFICES ASSUME TypeOK, TransferInv, last # NULL, last.about # NULL
               PROVE  rc = 0 /\ in.id = TIMELINE /\ CanDecode(in)
    BY DEF SentCanBeDecoded
  <2>1. rc = 0 /\ in.id = TIMELINE /\ Tells(in, last.about)
    BY DEF TransferInv, InTells
  <2>2. last.about \in Sources /\ last.about \in Timeline
    BY SubjectsAreSources
  <2>3. CanDecode(in)
    BY <2>1, <2>2, TransferAssumption
    DEF Tells, SourcesPaired, CanDecode, Timeline
  <2> QED
    BY <2>1, <2>3
<1> QED
  BY <1>1, TransferInvHolds, PTL

\* Reading back the text of the codec object as it is now gives an object that
\* sends the same frame: nothing is lost in the decimal and hexadecimal forms.
THEOREM TextIsFaithful == Spec => TextKeepsMessage
<1>1. ASSUME TypeOK, TransferInv, Load, file.text = Zpl(out), out.id # 0
      PROVE  in'.id = out.id /\ SendFrame(in') = SendFrame(out)
  <2>1. CanNewZpl(Zpl(out)) /\ in' = NewZpl(Zpl(out))
    BY <1>1 DEF Load
  <2>2. out.id \in {TIMELINE, SEND_TIMELINE, ERROR}
    BY <2>1, TransferAssumption
    DEF CanNewZpl, Zpl, TIMELINE, SEND_TIMELINE, ERROR
  <2> QED
    BY <1>1, <2>1, <2>2, TextRoundTrip DEF TypeOK, TransferInv, OutTells
<1>2. TypeOK /\ TransferInv /\ [Next]_vars
      => [Load /\ file.text = Zpl(out) /\ out.id # 0
          => in'.id = out.id /\ SendFrame(in') = SendFrame(out)]_vars
  BY <1>1
<1> QED
  BY <1>2, TransferInvHolds, PTL DEF Spec, TextKeepsMessage
=============================================================================
