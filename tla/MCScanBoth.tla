----------------------------- MODULE MCScanBoth -----------------------------
(* Instance of EchoScan for TLC: In Out at a site whose editor works between  *)
(* the packets of a run.                                                      *)
EXTENDS EchoScan, TLC

LinkSymmetry == Permutations(Link)
=============================================================================
