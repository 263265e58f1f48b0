------------------------------ MODULE MCRebuild ------------------------------
(* Instance of Rebuild for TLC. *)
EXTENDS Rebuild

C(a, d, l) == [analyse |-> a, days |-> d, purgelr |-> l]
Some == {C(0, 0, TRUE), C(0, 1, FALSE), C(1, 1, FALSE), C(2, 1, FALSE), C(3, 1, FALSE)}
=============================================================================
