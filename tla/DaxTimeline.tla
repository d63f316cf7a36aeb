---------------------------- MODULE DaxTimeline -----------------------------
(***************************************************************************)
(* The timeline class (dax_timeline.c): an identified list of (epoch, end  *)
(* time) intervals, and its transfer to and from a codec object.           *)
(***************************************************************************)
EXTENDS DaxTimelineCodec

CONSTANTS IdentModulus,     \* values of the codec's ident, 2^32 in the code
          TickModulus       \* values of the codec's sot, 2^64 in the code

ASSUME ModulusAssumption == /\ IdentModulus \in Nat \ {0}
                            /\ TickModulus \in Nat \ {0}

\* The signed numbers of a field that has so many values.
Fits(i, modulus) == i \in Int /\ -modulus <= 2 * i /\ 2 * i < modulus

Timeline == [ident   : Int,
             created : Int,
             sot     : Int,
             epochs  : Chunk,
             times   : Chunk]

\* dax_timeline_new.
NewTimeline == [ident |-> 0, created |-> 0, sot |-> 0,
                epochs |-> <<>>, times |-> <<>>]

\* Mutants: a signed number on the wire, the sign taken from the wrong bit.
UnsignedAsIs(i, modulus)  == i
SignedTooLate(u, modulus) == IF u < modulus THEN u ELSE u - modulus

\* The conversions between the class's signed and the codec's unsigned fields.
Unsigned(i, modulus) == i % modulus
Signed(u, modulus)   == IF 2 * u < modulus THEN u ELSE u - modulus

\* dax_timeline_encode: t into codec object m; "created" is not transferred.
Encode(t, m) == [m EXCEPT !.id     = TIMELINE,
                          !.ident  = Unsigned(t.ident, IdentModulus),
                          !.sot    = Unsigned(t.sot, TickModulus),
                          !.epochs = t.epochs,
                          !.times  = t.times]

\* dax_timeline_decode stops the process unless both chunks are there and
\* count as many intervals.
CanDecode(m) == /\ m.epochs # NULL
                /\ m.times # NULL
                /\ Len(m.epochs) = Len(m.times)

\* dax_timeline_decode: a new object, its "created" left at zero.
Decode(m) == [NewTimeline EXCEPT !.ident  = Signed(m.ident, IdentModulus),
                                 !.sot    = Signed(m.sot, TickModulus),
                                 !.epochs = m.epochs,
                                 !.times  = m.times]

\* dax_timeline_dup: "created" is not copied.
Dup(t) == [t EXCEPT !.created = NewTimeline.created]
=============================================================================
