------------------------------- MODULE MCToss -------------------------------
(* Four sites for TLC, in one state space: `site' says which one it is.       *)
(*   "backup"  two areas, two packets, LockedAreaBehavior Backup, CarbonCopy; *)
(*   "tobad"   three messages with unknown areas, netmail and junk, BadArea   *)
(*             in use too, strangers, DropBad and a kill;                     *)
(*   "wait"    LockedAreaBehavior Wait, the personal area in use, a link that *)
(*             may not write, a deleted area;                                 *)
(*   "again"   one packet, LockedAreaBehavior Backup, DupeArea in use too, a  *)
(*             kill: what is saved for the next cycle.                        *)
EXTENDS Toss

CONSTANTS h1, h2, l1, l2
VARIABLE site

K(a, m) == [area |-> a, mine |-> m]
KindsCore == {K(h1, FALSE), K(h1, TRUE), K(h2, FALSE), K(Pers, TRUE)}
KindsAll == {K(a, FALSE) : a \in {h1, Unknown, Net, Junk}}
KindsWait == {K(h1, FALSE), K(h1, TRUE), K(Pers, TRUE), K(Dead, FALSE)}

ToBadSite == INSTANCE Toss WITH
    Home <- {h1}, Behaviour <- "tobad", Carbon <- "none", DropBad <- TRUE,
    Senders <- {l1, Stranger}, Kinds <- KindsAll, Contended <- {h1, Bad},
    MaxPackets <- 1, MaxLen <- 3, MaxKills <- 1
WaitSite == INSTANCE Toss WITH
    Home <- {h1}, ReadOnly <- {l2}, Behaviour <- "wait", Senders <- {l1, l2}, Kinds <- KindsWait,
    Contended <- {h1, Pers}, MaxPackets <- 1
AgainSite == INSTANCE Toss WITH
    Home <- {h1}, Kinds <- KindsWait, Contended <- {h1, Dupes}, MaxPackets <- 1, MaxKills <- 1

MCInit ==
    \/ site = "backup" /\ Init
    \/ site = "tobad" /\ ToBadSite!Init
    \/ site = "wait" /\ WaitSite!Init
    \/ site = "again" /\ AgainSite!Init
MCNext ==
    /\ \/ site = "backup" /\ Next
       \/ site = "tobad" /\ ToBadSite!Next
       \/ site = "wait" /\ WaitSite!Next
       \/ site = "again" /\ AgainSite!Next
    /\ UNCHANGED site
MCTosser ==
    /\ \/ site = "again" /\ AgainSite!Tosser
       \/ site = "wait" /\ WaitSite!Tosser
    /\ UNCHANGED site
MCSpec == MCInit /\ [][MCNext]_<<vars, site>> /\ WF_<<vars, site>>(MCTosser)

\* Toss!SweptBeforeStore where the personal area is in nobody's use: in one pass a base
\* is searched for unsent messages before its highwater is raised.
SweptFirst ==
    /\ site = "backup" => SweptBeforeStore
    /\ site = "tobad" => ToBadSite!SweptBeforeStore
    /\ site = "again" => AgainSite!SweptBeforeStore

\* Toss!RunEnds and Toss!RunEndsOnceFree: a run ends although it may save messages
\* for another cycle; in behaviour Wait once the other programs leave the bases alone.
EveryRunEnds ==
    /\ site = "again" => AgainSite!RunEnds
    /\ site = "wait" => WaitSite!RunEndsOnceFree
=============================================================================
