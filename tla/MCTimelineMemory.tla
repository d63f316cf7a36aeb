-------------------------- MODULE MCTimelineMemory --------------------------
(* Instances of TimelineMemory for TLC. *)
EXTENDS TimelineMemory

MCSizes == {0, 2}

\* Places on the heap have no order that the code could see, so states that
\* differ only in the numbers of their places are one: TLC compares states by
\* what the variables point to (VIEW Shape).

ShapeOf(p) ==
    IF p = NULL THEN <<>>
    ELSE IF p \notin DOMAIN heap THEN <<"dead">>
    ELSE IF p[1] = "timeline"
    THEN <<p[1], heap[p].size, heap[p].epochs = NULL,
           {heap[p][f] : f \in Owning(p, heap[p])} \subseteq DOMAIN heap>>
    ELSE <<p[1], {f \in Owning(p, heap[p]) : heap[p][f] = NULL}>>

Shape == <<[x \in DOMAIN ptr |-> ShapeOf(ptr[x])],
           [i \in DOMAIN pipe |-> ShapeOf(pipe[i])],
           {<<p[1], heap[p]>> : p \in Stray}, Cardinality(Stray),
           Cardinality(dropped), running,
           NoFault, SingleOwner, OnlyEmptyArraysLeak>>
=============================================================================
