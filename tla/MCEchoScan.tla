----------------------------- MODULE MCEchoScan -----------------------------
(* Two sites for TLC, in one state space: `site' says which one it is.        *)
(*   "all"   every command, Purge, a limit of messages and kills, an editor   *)
(*           that works between runs and leaves the newest message alone;     *)
(*   "live"  separate In and Out, an editor that works between the packets of *)
(*           a run too, and deletes any message.                              *)
EXTENDS EchoScan

VARIABLE site

LiveSite == INSTANCE EchoScan WITH
    Modes <- {"in", "out"}, Limit <- 0, During <- TRUE, Deletable <- "any",
    Purges <- FALSE, Crashes <- FALSE, MaxUid <- MaxUid + 1

MCInit == Init /\ site \in {"all", "live"}
MCNext ==
    /\ \/ site = "all" /\ Next
       \/ site = "live" /\ LiveSite!Next
    /\ UNCHANGED site
Live(A) == site = "live" /\ A /\ UNCHANGED site
MCSpec ==
    /\ MCInit /\ [][MCNext]_<<vars, site>>
    /\ WF_<<vars, site>>(Live(LiveSite!Tosser))
    /\ SF_<<vars, site>>(Live(LiveSite!End))
    /\ SF_<<vars, site>>(Live(LiveSite!Begin("out", FALSE, None)))

\* EchoScan!LocalSent: with Out run again and again a message of the editor is sent, if
\* the editor leaves it there.
EditorServed == site = "live" => LiveSite!LocalSent
=============================================================================
