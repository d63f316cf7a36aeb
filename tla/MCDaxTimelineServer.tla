------------------------ MODULE MCDaxTimelineServer -------------------------
(* Instances of DaxTimelineServer for TLC. *)
EXTENDS DaxTimelineServer, FiniteSets, TLC

\* Timelines: two intervals, then three, as in the selftest's shape; the ident
\* of the second is negative, which the unsigned field turns into 15.
First  == [ident |-> 7,  created |-> 0, sot |-> 1, epochs |-> <<5>>,
           times |-> <<20>>]
Second == [ident |-> -1, created |-> 0, sot |-> -2, epochs |-> <<5, 6>>,
           times |-> <<20, 30>>]
\* A timeline whose ident was never set.
Unnamed == [Second EXCEPT !.ident = 0]

MCOne     == <<Second>>
MCTwo     == <<First, Second>>
MCUnnamed == <<First, Unnamed>>

Whole(frame) == [frame |-> frame, parts |-> 1]

Ask        == Whole(BareFrame(SEND_TIMELINE))
Empty      == Whole([BareFrame(0) EXCEPT !.held = 0])
\* A REQ socket puts an empty delimiter part before the data.
FromReq    == [frame |-> [BareFrame(0) EXCEPT !.held = 0], parts |-> 2]

\* Another producer's timeline, sent to the wrong socket, and cut in its last
\* chunk, so that recv reports it when most of it has been read.
Strange    == SendFrame(Encode([First EXCEPT !.ident = 3, !.sot = 4], NewCodec))
StrayCut   == Whole([Strange EXCEPT !.held = TimesSize])

MCAsk      == {Ask}
MCOthers   == {Ask, Empty, StrayCut}
MCReq      == {Ask, FromReq}

\* The peers are interchangeable.
MCSymmetry == Permutations(Peers)

MCNone     == {}
MCTimeouts == {0}
=============================================================================
