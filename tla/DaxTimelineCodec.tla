-------------------------- MODULE DaxTimelineCodec --------------------------
(***************************************************************************)
(* The wire codec of the timeline protocol (dax_timeline_codec.c).  A      *)
(* codec object holds the fields of all three messages at once; receiving  *)
(* overwrites only the fields the incoming message has, in reading order,  *)
(* and sending writes only the fields the current message id has.  The     *)
(* printable reason is left out: nothing reads it but a person.            *)
(***************************************************************************)
EXTENDS Integers, Sequences

CONSTANT NULL           \* a pointer that was never set

TIMELINE      == 1
SEND_TIMELINE == 2
ERROR         == 3
NOT_FOUND     == 404

Chunk == Seq(Int)       \* a packed array, by element

Codec == [id      : Nat,
          ident   : Nat,
          created : Nat,
          sot     : Nat,
          epochs  : {NULL} \cup Chunk,
          times   : {NULL} \cup Chunk,
          status  : Nat]

\* dax_timeline_codec_new: a zeroed object.
NewCodec == [id |-> 0, ident |-> 0, created |-> 0, sot |-> 0,
             epochs |-> NULL, times |-> NULL, status |-> 0]

\* dax_timeline_codec_set_id, dax_timeline_codec_set_status.
WithId(m, id)    == [m EXCEPT !.id = id]
WithStatus(m, s) == [m EXCEPT !.status = s]

(***************************************************************************)
(* A data frame.  "held" is how many of the reads of recv the frame has    *)
(* the bytes for; a shorter frame is a truncated one.                      *)
(***************************************************************************)
SignatureRead == 1
IdRead        == 2
IdentRead     == 3      \* TIMELINE
CreatedRead   == 4
SotRead       == 5
EpochsSize    == 6
EpochsRead    == 7
TimesSize     == 8
TimesRead     == 9
StatusRead    == 3      \* ERROR
ReasonRead    == 4

Frame == [signature : BOOLEAN,      \* the two magic octets are right
          id        : Nat,
          ident     : Nat,
          created   : Nat,
          sot       : Nat,
          epochs    : Chunk,
          times     : Chunk,
          status    : Nat,
          held      : 0..TimesRead]

\* A frame of which recv only finds the signature and a message id.
BareFrame(id) == [signature |-> TRUE, id |-> id, ident |-> 0, created |-> 0,
                  sot |-> 0, epochs |-> <<>>, times |-> <<>>, status |-> 0,
                  held |-> IdRead]

\* A chunk that was never set is sent as an empty one.
OnWire(chunk) == IF chunk = NULL THEN <<>> ELSE chunk

\* What a complete message of each id holds.
FullLength(id) == IF id = TIMELINE THEN TimesRead
                  ELSE IF id = ERROR THEN ReasonRead
                  ELSE IdRead

\* dax_timeline_codec_send: the data frame written for codec object m.
SendFrame(m) ==
    [signature |-> TRUE,
     id        |-> m.id,
     ident     |-> IF m.id = TIMELINE THEN m.ident ELSE 0,
     created   |-> IF m.id = TIMELINE THEN m.created ELSE 0,
     sot       |-> IF m.id = TIMELINE THEN m.sot ELSE 0,
     epochs    |-> IF m.id = TIMELINE THEN OnWire(m.epochs) ELSE <<>>,
     times     |-> IF m.id = TIMELINE THEN OnWire(m.times) ELSE <<>>,
     status    |-> IF m.id = ERROR THEN m.status ELSE 0,
     held      |-> FullLength(m.id)]

\* recv gets as far as its n-th read of frame f.
Reaches(f, n) == f.held >= n /\ (n > SignatureRead => f.signature)

\* recv gets as far as the n-th read of a message of this id.
Carries(f, id, n) == f.id = id /\ Reaches(f, n)

\* Mutant: the ident of a TIMELINE is read and not kept.
RecvIntoOldIdent(m, f) ==
    [m EXCEPT
        !.id      = IF Reaches(f, IdRead) THEN f.id ELSE @,
        !.created = IF Carries(f, TIMELINE, CreatedRead) THEN f.created ELSE @,
        !.sot     = IF Carries(f, TIMELINE, SotRead) THEN f.sot ELSE @,
        !.epochs  = IF Carries(f, TIMELINE, EpochsRead) THEN f.epochs ELSE @,
        !.times   = IF Carries(f, TIMELINE, TimesRead) THEN f.times ELSE @,
        !.status  = IF Carries(f, ERROR, StatusRead) THEN f.status ELSE @]

\* Mutant: a chunk that is there already is not replaced.
RecvIntoOldTimes(m, f) ==
    [m EXCEPT
        !.id      = IF Reaches(f, IdRead) THEN f.id ELSE @,
        !.ident   = IF Carries(f, TIMELINE, IdentRead) THEN f.ident ELSE @,
        !.created = IF Carries(f, TIMELINE, CreatedRead) THEN f.created ELSE @,
        !.sot     = IF Carries(f, TIMELINE, SotRead) THEN f.sot ELSE @,
        !.epochs  = IF Carries(f, TIMELINE, EpochsRead) THEN f.epochs ELSE @,
        !.times   = IF Carries(f, TIMELINE, TimesRead) /\ @ = NULL THEN f.times
                    ELSE @,
        !.status  = IF Carries(f, ERROR, StatusRead) THEN f.status ELSE @]

\* dax_timeline_codec_recv: the codec object after reading f into m, field by
\* field as far as the bytes go.
RecvInto(m, f) ==
    [id      |-> IF Reaches(f, IdRead) THEN f.id ELSE m.id,
     ident   |-> IF Carries(f, TIMELINE, IdentRead) THEN f.ident ELSE m.ident,
     created |-> IF Carries(f, TIMELINE, CreatedRead) THEN f.created
                 ELSE m.created,
     sot     |-> IF Carries(f, TIMELINE, SotRead) THEN f.sot ELSE m.sot,
     epochs  |-> IF Carries(f, TIMELINE, EpochsRead) THEN f.epochs
                 ELSE m.epochs,
     times   |-> IF Carries(f, TIMELINE, TimesRead) THEN f.times ELSE m.times,
     status  |-> IF Carries(f, ERROR, StatusRead) THEN f.status ELSE m.status]

\* dax_timeline_codec_recv: the value returned.  The GET macros jump to the
\* error exit without touching rc, so running out of bytes returns 0 unless it
\* happens in the middle of a chunk.
RecvRc(f) ==
    IF \/ Reaches(f, SignatureRead) /\ ~f.signature
       \/ Reaches(f, IdRead) /\ f.id \notin {TIMELINE, SEND_TIMELINE, ERROR}
       \/ Carries(f, TIMELINE, IdRead) /\ f.held \in {EpochsSize, TimesSize}
    THEN -2
    ELSE 0

\* f is a whole, well-formed message, whatever is behind it.
WellFormed(f) == /\ f.signature
                 /\ f.id \in {TIMELINE, SEND_TIMELINE, ERROR}
                 /\ f.held >= FullLength(f.id)
=============================================================================
