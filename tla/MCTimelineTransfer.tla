------------------------- MODULE MCTimelineTransfer -------------------------
(* Instances of TimelineTransfer for TLC, with 4-bit idents and 5-bit ticks. *)
EXTENDS TimelineTransfer

Low  == [ident |-> -8, created |-> 3, sot |-> -16, epochs |-> <<1>>,
         times |-> <<9>>]
High == [ident |-> 7, created |-> 0, sot |-> 15, epochs |-> <<1, 2>>,
         times |-> <<4, 9>>]
Bare == [NewTimeline EXCEPT !.ident = -1]

MCSources  == {Low, High, Bare}
MCStatuses == {NOT_FOUND}
MCNone     == {}

Unknown   == BareFrame(9)
WholeHigh == SendFrame(Encode(High, NewCodec))
Cut(n)    == [WholeHigh EXCEPT !.held = n]

\* A whole timeline of another sender, with fewer end times than epochs.
Stranger  == [WholeHigh EXCEPT !.ident = 3, !.times = <<5>>]

\* Malformed frames, reported or not, and that timeline; every truncated frame.
MCForeign == {Unknown, Stranger, Cut(0), Cut(EpochsRead), Cut(TimesSize)}
MCCut     == {Cut(n) : n \in 0..TimesSize}

\* Texts without end times, and with too few of them.
Lacking   == [Zpl(Encode(High, NewCodec)) EXCEPT !.times = NULL]
Unpaired  == [Zpl(Encode(High, NewCodec)) EXCEPT !.times = <<5>>]
MCEdited  == {Lacking, Unpaired}
=============================================================================
