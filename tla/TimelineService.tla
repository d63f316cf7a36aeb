-------------------------- MODULE TimelineService ---------------------------
(***************************************************************************)
(* What the timeline server promises, without sockets, codec objects,      *)
(* client records or timers: a register holding the current timeline,      *)
(* read by asking.  Every question is answered at most once, in the order  *)
(* its asker put them, with the timeline that is current at the moment of  *)
(* answering.  A question that is not a well-formed request gets an        *)
(* apology or nothing.                                                     *)
(***************************************************************************)
EXTENDS Integers, Sequences

CONSTANTS Peers,        \* those who ask
          Views,        \* timelines as an asker sees them
          None,         \* no timeline yet
          Sorry         \* the answer that is not a timeline

VARIABLES current,      \* the timeline to serve, or None
          asked,        \* asked[p]: questions of p still unanswered
          answers,      \* answers[p]: answers p has not taken yet
          departed,     \* peers that have left for good
          serving       \* the service has not stopped

vars == <<current, asked, answers, departed, serving>>

Question == {"request", "other"}

Init == /\ current = None
        /\ asked = [p \in Peers |-> <<>>]
        /\ answers = [p \in Peers |-> <<>>]
        /\ departed = {}
        /\ serving = TRUE

Install(v) == /\ serving
              /\ current' = v
              /\ UNCHANGED <<asked, answers, departed, serving>>

Ask(p, q) == /\ serving
             /\ p \notin departed
             /\ asked' = [asked EXCEPT ![p] = Append(@, q)]
             /\ UNCHANGED <<current, answers, departed, serving>>

\* One question leaves the queue and, if its asker is still there, one answer
\* is on its way.
Reply(p, answer) ==
    /\ serving
    /\ asked[p] # <<>>
    /\ asked' = [asked EXCEPT ![p] = Tail(@)]
    /\ answers' = IF p \in departed THEN answers
                  ELSE [answers EXCEPT ![p] = Append(@, answer)]
    /\ UNCHANGED <<current, departed, serving>>

AnswerRequest(p) == /\ asked[p] # <<>> /\ Head(asked[p]) = "request"
                    /\ Reply(p, IF current = None THEN Sorry ELSE current)

RefuseOther(p) == /\ asked[p] # <<>> /\ Head(asked[p]) = "other"
                  /\ Reply(p, Sorry)

IgnoreOther(p) == /\ serving
                  /\ asked[p] # <<>> /\ Head(asked[p]) = "other"
                  /\ asked' = [asked EXCEPT ![p] = Tail(@)]
                  /\ UNCHANGED <<current, answers, departed, serving>>

Take(p) == /\ answers[p] # <<>>
           /\ answers' = [answers EXCEPT ![p] = Tail(@)]
           /\ UNCHANGED <<current, asked, departed, serving>>

Leave(p) == /\ p \notin departed
            /\ departed' = departed \cup {p}
            /\ answers' = [answers EXCEPT ![p] = <<>>]
            /\ UNCHANGED <<current, asked, serving>>

\* The service stops: open questions are lost, and so may be the last of the
\* answers on their way.
Stop == /\ serving
        /\ serving' = FALSE
        /\ current' = None
        /\ asked' = [p \in Peers |-> <<>>]
        /\ \A p \in Peers :
              \E n \in 0..Len(answers[p]) : answers'[p] = SubSeq(answers[p], 1, n)
        /\ DOMAIN answers' = Peers
        /\ UNCHANGED departed

Next == \/ \E v \in Views : Install(v)
        \/ \E p \in Peers :
              \/ \E q \in Question : Ask(p, q)
              \/ AnswerRequest(p)
              \/ RefuseOther(p)
              \/ IgnoreOther(p)
              \/ Take(p)
              \/ Leave(p)
        \/ Stop

Spec == Init /\ [][Next]_vars
=============================================================================
