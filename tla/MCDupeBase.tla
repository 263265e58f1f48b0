----------------------------- MODULE MCDupeBase -----------------------------
(* Instance of DupeBase for TLC, and a second one beside it: the same code at *)
(* a site with NetMailDupes, personal copies and saved messages and the same  *)
(* limit for every area.  Only the one `site' names moves.                    *)
EXTENDS DupeBase, TLC

CONSTANTS c1, c2

VARIABLES
    site,
    \* the variables of DupeBase at the other site
    limit2, alloc2, ring2, newarea2, open2, duptouch2, sqp2, netdup2,
    hist2, stored2, seen2, netseen2

vars2 == <<limit2, alloc2, ring2, newarea2, open2, duptouch2, sqp2, netdup2,
           hist2, stored2, seen2, netseen2>>

Net == INSTANCE DupeBase WITH
    Crc <- {c1, c2}, Limits <- {1}, Conditions <- {"netmail", "carbon", "backup"},
    limit <- limit2, alloc <- alloc2, ring <- ring2, newarea <- newarea2, open <- open2,
    duptouch <- duptouch2, sqp <- sqp2, netdup <- netdup2, hist <- hist2,
    stored <- stored2, seen <- seen2, netseen <- netseen2

\* With the limit 1 dupbuf has one slot: the others of the type never hold anything,
\* and the one there is holds one of this site's checksums or none.
OneSlot(r) == r.buf[1] \in {c1, c2, Zero} /\ \A s \in Slots \ {1} : r.buf[s] = Zero

\* What the site that does not move has in memory.
Blank == [max |-> 0, cur |-> 0, buf |-> [s \in Slots |-> Zero]]

MCInit ==
    /\ site \in {"echo", "net"}
    /\ Init /\ Net!Init /\ OneSlot(ring2)
    /\ site = "net" => limit = [a \in Area |-> 0] /\ ring = Blank
    /\ site = "echo" => ring2 = Blank
MCNext ==
    \/ site = "echo" /\ Next /\ UNCHANGED <<site, vars2>>
    \/ site = "net" /\ Net!Next /\ OneSlot(ring2') /\ UNCHANGED <<site, vars>>
MCSpec == MCInit /\ [][MCNext]_<<vars, site, vars2>>

Symmetry == Permutations({c1, c2}) \cup Permutations(Area)

\* DupeBase!OnlyOwnNetDupes at the site with NetMailDupes: a netmail message is rejected
\* only for an earlier netmail message, although its file is read into the ring and
\* written with the limit of the echo area that is open.
NetDupesOwn == Net!OnlyOwnNetDupes
=============================================================================
