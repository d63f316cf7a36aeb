-------------------------- MODULE MCTimelineSystem --------------------------
(* Instances of TimelineSystem for TLC. *)
EXTENDS TimelineSystem

First  == [ident |-> 7,  created |-> 0, sot |-> 1, epochs |-> <<5>>,
           times |-> <<20>>]
Second == [ident |-> -1, created |-> 0, sot |-> -2, epochs |-> <<5, 6>>,
           times |-> <<20, 30>>]

MCTwo   == <<First, Second>>
MCOne   == <<First>>
MCCalls == {"CONNECT", "destroy"}
=============================================================================
