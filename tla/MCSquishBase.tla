---------------------------- MODULE MCSquishBase ----------------------------
(* Three bases for TLC, in one state space: `site' says which one it is.      *)
(*   "limited"   limits that the sysop changes, a reader that deletes;        *)
(*   "killed"    no limit and no reader, but a kill between any two writes;   *)
(*   "external"  the same limits and reader, fewer messages, ExternalLimits.  *)
EXTENDS SquishBase

VARIABLE site

Killed == INSTANCE SquishBase WITH Limits <- {0}, Editor <- "no", Crashes <- TRUE
External == INSTANCE SquishBase WITH NoFresh <- TRUE, MaxId <- 4

MCInit ==
    \/ site = "limited" /\ Init
    \/ site = "killed" /\ Killed!Init
    \/ site = "external" /\ External!Init
MCNext ==
    /\ \/ site = "limited" /\ Next
       \/ site = "killed" /\ Killed!Next
       \/ site = "external" /\ External!Next
    /\ UNCHANGED site
MCSpec ==
    /\ MCInit /\ [][MCNext]_<<vars, site>>
    /\ WF_<<vars, site>>(site = "limited" /\ Store /\ UNCHANGED site)

\* SquishBase!StoreEnds: once started, a call of buftosqd ends.
CallEnds == site = "limited" => StoreEnds
=============================================================================
