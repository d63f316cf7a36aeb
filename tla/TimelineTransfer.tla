-------------------------- MODULE TimelineTransfer --------------------------
(***************************************************************************)
(* One timeline object on its way from a producer to a consumer: encode    *)
(* into a codec object, send, receive into another codec object, decode;   *)
(* or through the text form of the codec object in place of the wire.      *)
(* Both codec objects are reused for message after message, as the         *)
(* selftests, the server engine and the client engine do, so fields of an  *)
(* earlier message are still there when the next one arrives.              *)
(***************************************************************************)
EXTENDS DaxTimelineCodecText

CONSTANTS Sources,      \* timelines the producer may have
          Statuses,     \* error codes it may report
          Foreign,      \* frames another implementation may put on the wire
          Edited,       \* texts somebody may have written by hand
          MaxWire       \* bound: frames on the wire

ASSUME TransferAssumption ==
    /\ Sources \subseteq Timeline
    /\ Statuses \subseteq Nat
    /\ Foreign \subseteq Frame
    /\ Edited \subseteq Text
    /\ MaxWire \in Nat \ {0}
    /\ NULL \notin Timeline \cup Frame \cup Chunk \cup Int

VARIABLES
    held,       \* the timeline last encoded into out, or NULL
    out,        \* the producer's codec object
    wire,       \* what is on the way: [frame |-> ., about |-> timeline or NULL]
    file,       \* [text |-> ., about |-> timeline or NULL], or NULL
    in,         \* the consumer's codec object
    rc,         \* what its last recv returned
    last,       \* what in was last read from: the frame, or NULL if it was
                \* the file, and its subject; NULL before
    got         \* the timeline decoded from it, or NULL

vars == <<held, out, wire, file, in, rc, last, got>>

Subject == {NULL} \cup Sources

TypeOK ==
    /\ held \in Subject
    /\ out \in Codec
    /\ wire \in Seq([frame : Frame, about : Subject])
    /\ file \in {NULL} \cup [text : Text, about : Subject]
    /\ in \in Codec
    /\ rc \in {0, -2}
    /\ last \in {NULL} \cup [frame : {NULL} \cup Frame, about : Subject]
    /\ got \in {NULL} \cup Timeline

Init ==
    /\ held = NULL
    /\ out = NewCodec
    /\ wire = <<>>
    /\ file = NULL
    /\ in = NewCodec
    /\ rc = 0
    /\ last = NULL
    /\ got = NULL

EncodeTimeline(t) ==
    /\ held' = t
    /\ out' = Encode(t, out)
    /\ UNCHANGED <<wire, file, in, rc, last, got>>

\* dax_timeline_codec_set_id (and set_status): back to the timeline's fields,
\* to a request, or to an error report.
SetId(id) ==
    /\ id = TIMELINE => held # NULL
    /\ out' = WithId(out, id)
    /\ UNCHANGED <<held, wire, file, in, rc, last, got>>

SetStatus(s) ==
    /\ out' = WithStatus(out, s)
    /\ UNCHANGED <<held, wire, file, in, rc, last, got>>

OnTheWay(frame, about) ==
    /\ Len(wire) < MaxWire
    /\ wire' = Append(wire, [frame |-> frame, about |-> about])
    /\ UNCHANGED <<held, out, file, in, rc, last, got>>

\* The timeline that out tells of.
About == IF out.id = TIMELINE THEN held ELSE NULL

Send == out.id # 0 /\ OnTheWay(SendFrame(out), About)

SendForeign(f) == OnTheWay(f, NULL)

Recv ==
    /\ wire # <<>>
    /\ in' = RecvInto(in, Head(wire).frame)
    /\ rc' = RecvRc(Head(wire).frame)
    /\ last' = Head(wire)
    /\ got' = NULL
    /\ wire' = Tail(wire)
    /\ UNCHANGED <<held, out, file>>

\* dax_timeline_codec_zpl.
Save == /\ CanZpl(out)
        /\ file' = [text |-> Zpl(out), about |-> About]
        /\ UNCHANGED <<held, out, wire, in, rc, last, got>>

Edit(t) == /\ file' = [text |-> t, about |-> NULL]
           /\ UNCHANGED <<held, out, wire, in, rc, last, got>>

\* dax_timeline_codec_new_zpl; the new object takes the place of the old one.
Load == /\ file # NULL
        /\ CanNewZpl(file.text)
        /\ in' = NewZpl(file.text)
        /\ rc' = 0
        /\ last' = [frame |-> NULL, about |-> file.about]
        /\ got' = NULL
        /\ UNCHANGED <<held, out, wire, file>>

\* A consumer decodes what was received as a TIMELINE.
DecodeTimeline ==
    /\ last # NULL /\ rc = 0 /\ in.id = TIMELINE
    /\ CanDecode(in)
    /\ got' = Decode(in)
    /\ UNCHANGED <<held, out, wire, file, in, rc, last>>

Next == \/ \E t \in Sources : EncodeTimeline(t)
        \/ \E id \in {TIMELINE, SEND_TIMELINE, ERROR} : SetId(id)
        \/ \E s \in Statuses : SetStatus(s)
        \/ Send
        \/ \E f \in Foreign : SendForeign(f)
        \/ Recv
        \/ Save
        \/ \E t \in Edited : Edit(t)
        \/ Load
        \/ DecodeTimeline

Spec == Init /\ [][Next]_vars

(* What the properties rest on: what the caller respects. *)

\* Idents and starts are in the range of the class's int32 and int64.
SourcesFit == \A t \in Sources : /\ Fits(t.ident, IdentModulus)
                                 /\ Fits(t.sot, TickModulus)

\* A timeline has as many end times as epochs; set_intervals makes it so.
SourcesPaired == \A t \in Sources : Len(t.epochs) = Len(t.times)

\* What arrives is what a local dax_timeline_dup of the sent or saved timeline
\* would give: signs, start and intervals survive the unsigned fields, the text
\* and the reuse of both codec objects, whatever other senders' frames, whole
\* or cut short, and whatever texts written by hand were read in between.
RoundTrip == got # NULL /\ last.about # NULL => got = Dup(last.about)

\* A sent or saved timeline is always accepted as a TIMELINE, and what
\* dax_timeline_decode asserts of it (esize == tsize) and takes (both chunks)
\* is there, even if the last message into the same codec object was read only
\* in part and left unpaired chunks behind.  Of the messages of other senders
\* this is not so.
SentCanBeDecoded ==
    last # NULL /\ last.about # NULL
        => rc = 0 /\ in.id = TIMELINE /\ CanDecode(in)

\* A message that is not whole and well formed is reported as malformed.
MalformedIsReported ==
    last # NULL /\ last.frame # NULL /\ ~WellFormed(last.frame) => rc = -2

\* Reading back what was saved gives an object that says the same.
TextKeepsMessage ==
    [][Load /\ file.text = Zpl(out) /\ out.id # 0
         => in'.id = out.id /\ SendFrame(in') = SendFrame(out)]_vars
=============================================================================
