----------------------------- MODULE MCPackets -----------------------------
(* Packets with three links, one more than there may be handles. *)
EXTENDS Packets

CONSTANTS k1, k2, k3

Three == <<k1, k2, k3>>
=============================================================================
