---------------------------- MODULE MCTossMove -----------------------------
(* Instance of Toss for TLC: the personal area is in use by a reader.        *)
EXTENDS Toss

K(a, m) == [area |-> a, mine |-> m]
KindsEcho == {K(a, FALSE) : a \in Home} \cup {K(a, TRUE) : a \in Echo}
=============================================================================
