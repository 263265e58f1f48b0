------------------------------ MODULE EchoList ------------------------------
(***************************************************************************)
(* What an echo base promises its users: a list of messages in the order   *)
(* they arrived, of which a message of a given number of protected ones at *)
(* the front is never dropped, and the oldest of the others are dropped    *)
(* when a message arrives at a list that has reached its limit             *)
(* (buftosqd in buftosqd.cpp, maxmsg and skipmsg as opensqd in partsqd.cpp *)
(* refreshes them; keys -$m and -$s of the configuration).                 *)
(* SquishBase implements it.                                               *)
(***************************************************************************)
EXTENDS Integers, Sequences

CONSTANTS MaxId

VARIABLES
    list,   \* the message numbers, oldest first
    max,    \* the limit, 0 for none
    skip    \* how many at the front are protected

vars == <<list, max, skip>>

Init == list = <<>> /\ max \in Nat /\ skip \in Nat

\* What is left of l when room is made for one more message.
Kept(l) ==
    IF max = 0 \/ Len(l) < max THEN l
    ELSE SubSeq(l, 1, skip) \o SubSeq(l, skip + 2 + (Len(l) - max), Len(l))

\* A message arrives under a number higher than any before it.
Arrive ==
    \E id \in 1 .. MaxId :
        /\ \A i \in 1 .. Len(list) : id > list[i]
        /\ list' = Append(Kept(list), id)
        /\ UNCHANGED <<max, skip>>

\* A reader deletes the k-th message.
Delete ==
    /\ \E k \in 1 .. Len(list) :
         list' = SubSeq(list, 1, k - 1) \o SubSeq(list, k + 1, Len(list))
    /\ UNCHANGED <<max, skip>>

\* The sysop sets another limit; nothing is dropped until a message arrives.
Limit == list' = list /\ max' \in Nat /\ skip' = skip

Next == Arrive \/ Delete \/ Limit

Spec == Init /\ [][Next]_vars
=============================================================================
