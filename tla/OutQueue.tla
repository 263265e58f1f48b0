------------------------------ MODULE OutQueue ------------------------------
(***************************************************************************)
(* What msgout (scanbase.cpp) promises its callers: one queue per link of  *)
(* the area; a message is appended to the queue of every link it is for,   *)
(* once, and to no other.  Packets implements it.                          *)
(***************************************************************************)
EXTENDS Integers, Sequences

CONSTANTS Link

VARIABLES
    queue,  \* queue[l]: the messages on their way to link l, in order
    sent    \* messages handed over so far

vars == <<queue, sent>>

Init == queue = [l \in Link |-> <<>>] /\ sent = 0

\* The next message is handed over for the links in to.
Post(to) ==
    /\ sent' = sent + 1
    /\ queue' = [l \in Link |-> IF l \in to THEN Append(queue[l], sent') ELSE queue[l]]

Next == \E to \in SUBSET Link : Post(to)

Spec == Init /\ [][Next]_vars
=============================================================================
