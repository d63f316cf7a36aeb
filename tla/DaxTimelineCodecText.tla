------------------------ MODULE DaxTimelineCodecText ------------------------
(***************************************************************************)
(* The text form of a codec object (dax_timeline_codec_zpl and             *)
(* dax_timeline_codec_new_zpl), a configuration tree with a message name   *)
(* and the fields of that message.  A number is written as a signed        *)
(* decimal of the width of "created" and "sot", a chunk in hexadecimal.    *)
(***************************************************************************)
EXTENDS DaxTimeline

\* NULL is a field that is not there or does not read as what it should be.
Text == [message : {NULL, TIMELINE, SEND_TIMELINE, ERROR},
         ident   : {NULL} \cup Int,
         created : {NULL} \cup Int,
         sot     : {NULL} \cup Int,
         epochs  : {NULL} \cup Chunk,
         times   : {NULL} \cup Chunk,
         status  : {NULL} \cup Nat]

\* dax_timeline_codec_zpl takes the data of both chunks, set or not.
CanZpl(m) == m.id = TIMELINE => m.epochs # NULL /\ m.times # NULL

\* dax_timeline_codec_zpl: an object without a message id gives an empty tree.
Zpl(m) ==
    [message |-> IF m.id \in {TIMELINE, SEND_TIMELINE, ERROR} THEN m.id
                 ELSE NULL,
     ident   |-> IF m.id = TIMELINE THEN m.ident ELSE NULL,
     created |-> IF m.id = TIMELINE THEN Signed(m.created, TickModulus)
                 ELSE NULL,
     sot     |-> IF m.id = TIMELINE THEN Signed(m.sot, TickModulus) ELSE NULL,
     epochs  |-> IF m.id = TIMELINE THEN m.epochs ELSE NULL,
     times   |-> IF m.id = TIMELINE THEN m.times ELSE NULL,
     status  |-> IF m.id = ERROR THEN m.status ELSE NULL]

\* new_zpl makes an object of t if it finds every field of the message;
\* otherwise it returns NULL.
CanNewZpl(t) ==
    \/ /\ t.message = TIMELINE
       /\ t.ident # NULL /\ t.created # NULL /\ t.sot # NULL
       /\ t.epochs # NULL /\ t.times # NULL
    \/ t.message = SEND_TIMELINE
    \/ t.message = ERROR /\ t.status # NULL

\* A fresh object with the fields of the message, its numbers as they are read.
Fields(t) ==
    [id      |-> t.message,
     ident   |-> IF t.message = TIMELINE THEN t.ident ELSE NewCodec.ident,
     created |-> IF t.message = TIMELINE THEN t.created ELSE NewCodec.created,
     sot     |-> IF t.message = TIMELINE THEN t.sot ELSE NewCodec.sot,
     epochs  |-> IF t.message = TIMELINE THEN t.epochs ELSE NewCodec.epochs,
     times   |-> IF t.message = TIMELINE THEN t.times ELSE NewCodec.times,
     status  |-> IF t.message = ERROR THEN t.status ELSE NewCodec.status]

\* Mutant: the numbers are taken as they are.
NewZplAsIs(t) == Fields(t)

\* dax_timeline_codec_new_zpl: the numbers are converted to unsigned.
NewZpl(t) == [Fields(t) EXCEPT !.ident   = Unsigned(@, IdentModulus),
                               !.created = Unsigned(@, TickModulus),
                               !.sot     = Unsigned(@, TickModulus)]
=============================================================================
