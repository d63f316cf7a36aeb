------------------------ MODULE MCDaxTimelineClient -------------------------
(* Instances of DaxTimelineClient for TLC. *)
EXTENDS DaxTimelineClient

Served   == SendFrame([NewCodec EXCEPT !.id = TIMELINE, !.ident = 7,
                       !.epochs = <<5>>, !.times = <<20>>])
Report   == SendFrame([NewCodec EXCEPT !.id = ERROR, !.status = NOT_FOUND])
Unsigned0 == [Served EXCEPT !.signature = FALSE]
NoId     == [Served EXCEPT !.held = SignatureRead]

MCFilled    == {TRUE}
MCEither    == BOOLEAN

MCAll       == Call
MCEnd       == {"CONNECT", "destroy"}

MCRefused   == {Served, Report}
MCAnswers   == {Served, Report, Unsigned0, NoId}
=============================================================================
