------------------------------- MODULE Packets -------------------------------
(***************************************************************************)
(* Outgoing packets: msgout and pktwrite (scanbase.cpp) with addtpack      *)
(* (packets.cpp).                                                          *)
(*                                                                         *)
(* msgout takes the links of an area in turn and opens, or begins, a       *)
(* packet for each of them; the message is then written to all packets     *)
(* opened (pktwrite), of which some belong to links it is not for.  When   *)
(* the process has no handle left - it has an unknown number of other      *)
(* files open - what is open is written and closed, and the same link is   *)
(* tried again; with SafeMode the same is done after every so many links.  *)
(* Packets stay open from one message to the next.                         *)
(*                                                                         *)
(* Abstractions: one area, so a link's packets all have the same origin;   *)
(* every message has length 1; no gates (bcfg.dgate) and no FixAddr.       *)
(***************************************************************************)
EXTENDS Integers, Sequences, SequencesExt

CONSTANTS
    Link,       \* the links of the area, as a sequence (newarea->links)
    Nobody,     \* the address 0:0/0.0
    PktSize,    \* MaxPktSize, 0 for none
    Safes,      \* values SafeMode may have: links served at a time, 0 for all
    Handles,    \* the handles there may be for packets, besides other files
    MaxMsg      \* bound: messages handed over

ASSUME PacketsAssumption ==
    /\ Link \in Seq(Range(Link)) /\ Link # <<>>
    /\ \A i, j \in DOMAIN Link : Link[i] = Link[j] => i = j
    /\ Nobody \notin Range(Link)
    /\ Safes \subseteq Nat
    /\ {PktSize, Handles, MaxMsg} \subseteq Nat
    /\ Handles > 0

Links == Range(Link)
NumLinks == Len(Link)

VARIABLES
    safe,       \* SafeMode
    pkts,       \* the list of packets, each with its file
    room,       \* handles packets may have until the message is handed over
    pc,         \* "idle"; "link", "write" in msgout
    plink,      \* the link whose packet is opened
    first,      \* links whose packet was written already
    numpa,      \* links whose packet was opened
    countp,     \* links tried since the last time all were closed
    nomore,     \* no handle was left
    l,          \* pktwrite: the link whose packet is written
    tosend,     \* the links the message is for
    sent        \* messages handed over, the current one included

call == <<plink, first, numpa, countp, nomore, l, tosend>>
vars == <<safe, pkts, room, pc, call, sent>>

Packet == [to : Links \cup {Nobody}, opened : BOOLEAN, filled : BOOLEAN,
           file : Seq(1 .. MaxMsg)]

TypeOK ==
    /\ safe \in Safes
    /\ pkts \in Seq(Packet)
    /\ room \in 0 .. Handles
    /\ pc \in {"idle", "link", "write"}
    /\ plink \in 1 .. NumLinks + 1
    /\ first \in 0 .. NumLinks /\ numpa \in 0 .. NumLinks
    /\ countp \in Nat
    /\ nomore \in BOOLEAN
    /\ l \in 0 .. NumLinks
    /\ tosend \subseteq Links
    /\ sent \in 0 .. MaxMsg

Init ==
    /\ safe \in Safes
    /\ pkts = <<>>
    /\ room = 0
    /\ pc = "idle"
    /\ plink = 1 /\ first = 0 /\ numpa = 0 /\ countp = 0 /\ nomore = FALSE
    /\ l = 0 /\ tosend = {}
    /\ sent = 0

-----------------------------------------------------------------------------
(* The list of packets *)

Open == {p \in DOMAIN pkts : pkts[p].opened}

\* Mutant of Current: looks at opened packets only.
CurrentOpen(k) == SelectInSeq(pkts, LAMBDA p : p.to = k /\ ~p.filled /\ p.opened)

\* The packet messages to link k are written to: the first that is not filled.
Current(k) == SelectInSeq(pkts, LAMBDA p : p.to = k /\ ~p.filled)

HandleLeft == Cardinality(Open) < room

\* addtpack.
NewPacket(k, opened) == [to |-> k, opened |-> opened, filled |-> FALSE, file |-> <<>>]

-----------------------------------------------------------------------------
(* msgout *)

\* What msgout begins with.
Start ==
    plink' = 1 /\ first' = 0 /\ numpa' = 0 /\ countp' = 0 /\ nomore' = FALSE /\ l' = 0

\* A message is handed over, for the links in to.  Other files take handles
\* or give them back between two messages; the packets that are open stay so.
Begin(to, handles) ==
    /\ pc = "idle"
    /\ sent < MaxMsg
    /\ handles >= Cardinality(Open) /\ handles > 0
    /\ room' = handles
    /\ pc' = "link"
    /\ Start
    /\ tosend' = to
    /\ sent' = sent + 1
    /\ UNCHANGED <<safe, pkts>>

\* SafeMode closes the packets after c links.
SafeDue(c) == safe > 0 /\ c >= safe

\* pktwrite(first, numpa).  Mutant: from the first link of the area.
WriteAll == pc' = "write" /\ l' = 0 /\ UNCHANGED plink
WriteOpened == pc' = "write" /\ l' = first /\ UNCHANGED plink

\* After a link was tried: on with the next, or the packets opened so far are
\* written.
Tried(opened) ==
    /\ nomore' = ~opened
    /\ numpa' = IF opened THEN numpa + 1 ELSE numpa
    /\ countp' = countp + 1
    /\ IF ~opened \/ numpa' = NumLinks \/ SafeDue(countp')
       THEN WriteOpened
       ELSE pc' = "link" /\ plink' = plink + 1 /\ UNCHANGED l
    /\ UNCHANGED <<safe, room, first, tosend, sent>>

\* Mutant of OpenPacket: a packet that was closed is not opened again.
OpenPacketNot ==
    /\ pc = "link"
    /\ Current(Link[plink]) # 0
    /\ UNCHANGED pkts
    /\ Tried(TRUE)

\* The link's packet is open already, or can be opened.
OpenPacket ==
    LET p == Current(Link[plink])
    IN  /\ pc = "link"
        /\ p # 0
        /\ pkts[p].opened \/ HandleLeft
        /\ pkts' = [pkts EXCEPT ![p].opened = TRUE]
        /\ Tried(TRUE)

\* It has none: one is added to the list.
AddPacket ==
    /\ pc = "link"
    /\ Current(Link[plink]) = 0
    /\ HandleLeft
    /\ pkts' = Append(pkts, NewPacket(Link[plink], TRUE))
    /\ Tried(TRUE)

\* EMFILE.  A packet that was just added is left in the list for nobody.
NoHandle ==
    LET p == Current(Link[plink])
    IN  /\ pc = "link"
        /\ ~HandleLeft
        /\ p # 0 => ~pkts[p].opened
        /\ pkts' = IF p = 0 THEN Append(pkts, NewPacket(Nobody, FALSE)) ELSE pkts
        /\ Tried(FALSE)

-----------------------------------------------------------------------------
(* pktwrite *)

\* The packet that reaches its size with this message.
Fills(p) == PktSize > 0 /\ Len(p.file) + 1 >= PktSize

\* buftopkt appends the message; a packet that is full then is closed.
WithMessage(p) ==
    [p EXCEPT !.file = Append(p.file, sent), !.filled = Fills(p), !.opened = ~Fills(p)]

\* The message is written to the packet of the next link opened, if it is for
\* that link.
Write ==
    LET k == Link[l + 1]
        p == Current(k)
    IN  /\ pc = "write"
        /\ l < numpa
        /\ pkts' = IF p # 0 /\ k \in tosend
                   THEN [pkts EXCEPT ![p] = WithMessage(pkts[p])]
                   ELSE pkts
        /\ l' = l + 1
        /\ UNCHANGED <<safe, room, pc, plink, first, numpa, countp, nomore, tosend, sent>>

\* Packets are closed after writing.
Closes == nomore \/ SafeDue(countp)

\* Everything opened so far is written.  When handles ran out, or SafeMode
\* says so, all packets are closed; a link that got no handle is tried again.
Written ==
    /\ pc = "write"
    /\ l = numpa
    /\ first' = numpa
    /\ pkts' = IF Closes
               THEN [p \in DOMAIN pkts |-> [pkts[p] EXCEPT !.opened = FALSE]]
               ELSE pkts
    /\ countp' = IF SafeDue(countp) THEN 0 ELSE countp
    /\ plink' = IF nomore THEN plink ELSE plink + 1
    /\ nomore' = FALSE
    /\ pc' = IF plink' > NumLinks THEN "idle" ELSE "link"
    /\ UNCHANGED <<safe, room, numpa, l, tosend, sent>>

Next ==
    \/ \E to \in SUBSET Links, handles \in 1 .. Handles : Begin(to, handles)
    \/ OpenPacket
    \/ AddPacket
    \/ NoHandle
    \/ Write
    \/ Written

Spec == Init /\ [][Next]_vars

-----------------------------------------------------------------------------
(* Properties *)

\* The position of link k in the list of links.
Place(k) == CHOOSE i \in DOMAIN Link : Link[i] = k

\* The messages in the packets for link k, in the order of the list.
InPackets(k) ==
    FlattenSeq([p \in DOMAIN pkts |-> IF pkts[p].to = k THEN pkts[p].file ELSE <<>>])

\* The message handed over has not been written for link k yet.
Pending(k) == pc # "idle" /\ k \in tosend /\ Place(k) > l

\* Each message is written, once, for every link it is for and no other, in
\* the order the messages were handed over, however the packets are closed,
\* filled and begun anew in between (msgout, pktwrite).
Queues == INSTANCE OutQueue WITH
    Link <- Links,
    queue <- [k \in Links |-> InPackets(k) \o (IF Pending(k) THEN <<sent>> ELSE <<>>)]

ImplementsQueues == Queues!Spec

\* pktwrite finds the packet of every link again that msgout counted as opened,
\* and its handle is open (scanbase.cpp:853, 886).
WrittenOpen ==
    pc = "write" /\ l < numpa =>
        LET p == Current(Link[l + 1]) IN p # 0 /\ pkts[p].opened

\* No link ever has two packets to be written to: what one pass opens, closes
\* for want of handles or leaves unopened is found again by the next.
OneCurrent ==
    \A p, q \in DOMAIN pkts :
        ~pkts[p].filled /\ ~pkts[q].filled /\ pkts[p].to = pkts[q].to /\ pkts[p].to # Nobody
            => p = q

\* A link that got no handle is tried again with one free: msgout does not try
\* it for ever (scanbase.cpp:668, 703), as long as the process has one handle for
\* packets at all.
RetryHasHandle == [][nomore /\ ~nomore' => HandleLeft']_vars
-----------------------------------------------------------------------------
(* The inductive invariant behind the properties. *)

\* Among the packets ps there is an open one messages to link k are written to.
Ready(ps, k) ==
    \E p \in DOMAIN ps : ps[p].to = k /\ ~ps[p].filled /\ ps[p].opened

\* The links are tried in order, one packet opened for each; those opened and
\* not written yet are open.
WriteInv ==
    /\ TypeOK
    /\ OneCurrent
    /\ pc = "idle" => ~nomore
    /\ pc = "link" => ~nomore /\ numpa = plink - 1
    /\ pc = "write" => numpa = IF nomore THEN plink - 1 ELSE plink
    /\ pc # "idle" => /\ room > 0 /\ sent > 0 /\ plink <= NumLinks /\ l <= numpa
                      /\ pc = "link" => first = l
                      /\ \A i \in l + 1 .. numpa : Ready(pkts, Link[i])
=============================================================================
