------------------------------ MODULE EchoScan ------------------------------
(***************************************************************************)
(* Export from one echo area: scansqds and scansqd (scanbase.cpp) with     *)
(* sqdtobuf (sqdtobuf.cpp), opensqd (partsqd.cpp), the one-pass branch of  *)
(* writeboth (tossarcs.cpp), buftosqd and purgesqd as far as they touch    *)
(* what export depends on: the sent flag of every message (flags2), the    *)
(* numbers of the messages (umsgid, uid) and the highwater mark.           *)
(*                                                                         *)
(* A message is flagged sent on disk first, exported next, and highwater   *)
(* is moved to it last; a later run looks only at messages above           *)
(* highwater.  A mail editor posts and deletes messages while the base is  *)
(* closed, which in a run it is between two packets.                       *)
(*                                                                         *)
(* Abstractions: SEEN-BY names nobody, no link is passive; exporting to    *)
(* all links is one step; numbers stay below 2^15 (purgesqd cuts them to   *)
(* a short); skipmsg is 0.                                                 *)
(***************************************************************************)
EXTENDS Integers, Sequences, FiniteSets, SequencesExt

CONSTANTS
    Link,       \* the links of the area
    None,
    Modes,      \* the commands given: "in", "out", "both" (In Out), "rescan"
    Limit,      \* maxmsg of the area, 0 for none
    NoFresh,    \* ExternalLimits: opensqd does not write the header
    During,     \* the editor posts while a run is between packets
    Deletable,  \* the editor deletes: "none", "older" (never the newest), "any"
    Purges,     \* is Purge ever run
    Crashes,
    MaxMsg,     \* bound: messages ever written
    MaxUid      \* bound: how far renumbering goes

Ids == 1 .. MaxMsg
Message == [n : Ids, uid : Nat, local : BOOLEAN, sent : BOOLEAN, from : Link \cup {None}]
Tossed == [n : Ids, from : Link]

ASSUME ScanAssumption ==
    /\ IsFiniteSet(Link)
    /\ None \notin Link \cup Tossed
    /\ Modes \subseteq {"in", "out", "both", "rescan"}
    /\ {Limit, MaxMsg, MaxUid} \subseteq Nat
    /\ {NoFresh, During, Purges, Crashes} \subseteq BOOLEAN
    /\ Deletable \in {"none", "older", "any"}

VARIABLES
    \* the base on disk
    base,       \* the messages, in index order
    uid, hw,    \* header: next number, highwater
    \* the process
    pc,         \* "off"; "run": the base closed; "open"; "mark", "send",
                \* "advance" in scansqd; "store" in writeboth
    mode, full, \* the command, and whether -s was given
    rnode,      \* Rescan: for whom
    scanned,    \* tlist->alist[carea].scanned
    i,          \* scansqd: index of the message
    tosend,     \* stosend: the links it goes to
    cur,        \* the message tossed
    \* history
    count,      \* messages written so far
    copies,     \* copies[n][l]: times message n was exported to l as new mail
    served,     \* served[n]: the links it was exported to in any way
    waived      \* messages flagged sent by Rescan, or just before a kill

disk == <<base, uid, hw>>
run  == <<mode, full, rnode, scanned>>
hist == <<count, copies, served, waived>>
vars == <<disk, pc, run, i, tosend, cur, hist>>

DiskOK == base \in Seq(Message) /\ uid \in Nat \ {0} /\ hw \in Nat
RunOK ==
    /\ pc \in {"off", "run", "open", "mark", "send", "advance", "store"}
    /\ mode \in Modes \cup {None}
    /\ {full, scanned} \subseteq BOOLEAN
    /\ rnode \in Link \cup {None}
ScanOK == i \in Nat /\ tosend \subseteq Link /\ cur \in Tossed \cup {None}
HistOK ==
    /\ count \in 0 .. MaxMsg
    /\ copies \in [Ids -> [Link -> 0 .. 2]]
    /\ served \in [Ids -> SUBSET Link]
    /\ waived \subseteq Ids
TypeOK == DiskOK /\ RunOK /\ ScanOK /\ HistOK

Init ==
    /\ base = <<>> /\ uid = 1 /\ hw = 0
    /\ pc = "off" /\ mode = None /\ full = FALSE /\ rnode = None
    /\ scanned = FALSE /\ i = 0 /\ tosend = {} /\ cur = None
    /\ count = 0
    /\ copies = [n \in Ids |-> [l \in Link |-> 0]]
    /\ served = [n \in Ids |-> {}]
    /\ waived = {}

-----------------------------------------------------------------------------
(* The editor *)

Closed == pc = "off" \/ (pc = "run" /\ During)

Post ==
    /\ Closed
    /\ count < MaxMsg
    /\ count' = count + 1
    /\ base' = Append(base, [n |-> count', uid |-> uid, local |-> TRUE,
                             sent |-> FALSE, from |-> None])
    /\ uid' = uid + 1
    /\ UNCHANGED <<hw, pc, run, i, tosend, cur, copies, served, waived>>

Delete(k) ==
    /\ Closed
    /\ Deletable = "any" \/ (Deletable = "older" /\ k < Len(base))
    /\ base' = RemoveAt(base, k)
    /\ UNCHANGED <<uid, hw, pc, run, i, tosend, cur, hist>>

-----------------------------------------------------------------------------
(* A run *)

Begin(m, s, r) ==
    /\ pc = "off"
    /\ m \in Modes
    /\ s => m = "out"
    /\ (r = None) = (m # "rescan")
    /\ pc' = "run" /\ mode' = m /\ full' = s /\ rnode' = r
    /\ scanned' = FALSE
    /\ UNCHANGED <<disk, i, tosend, cur, hist>>

\* opensqd: a highwater mark that is beyond the last number is corrected.
Clamped == IF hw >= uid THEN uid - 1 ELSE hw

Open ==
    /\ pc = "run"
    /\ mode \in {"out", "rescan"} => ~scanned
    /\ pc' = "open"
    /\ hw' = IF NoFresh THEN hw ELSE Clamped
    /\ UNCHANGED <<base, uid, run, i, tosend, cur, hist>>

\* closesqd; a run with Out or Rescan takes the area once.
Close ==
    /\ pc = "open"
    /\ cur = None
    /\ mode \in {"out", "rescan"} => scanned
    /\ pc' = "run"
    /\ UNCHANGED <<disk, run, i, tosend, cur, hist>>

End ==
    /\ pc = "run"
    /\ mode \in {"out", "rescan"} => scanned
    /\ pc' = "off" /\ mode' = None /\ full' = FALSE /\ rnode' = None
    /\ scanned' = FALSE
    /\ UNCHANGED <<disk, i, tosend, cur, hist>>

\* The process is killed, perhaps between flagging a message and sending it.
Crash ==
    /\ Crashes
    /\ pc # "off"
    /\ waived' = IF pc = "send" /\ tosend # {} THEN waived \cup {base[i].n} ELSE waived
    /\ pc' = "off" /\ mode' = None /\ full' = FALSE /\ rnode' = None
    /\ scanned' = FALSE /\ i' = 0 /\ tosend' = {} /\ cur' = None
    /\ UNCHANGED <<disk, count, copies, served>>

-----------------------------------------------------------------------------
(* scansqd *)

\* Bug: one message too many is skipped.
FirstSkips ==
    LET above == SelectInSeq(base, LAMBDA m : m.uid > hw + 1)
    IN  IF above = 0 THEN Len(base) + 1 ELSE above

\* The first message above highwater; the first of all with -s and in Rescan.
First ==
    LET above == SelectInSeq(base, LAMBDA m : m.uid > hw)
    IN  IF mode = "rescan" \/ full THEN 1
        ELSE IF above = 0 THEN Len(base) + 1 ELSE above

StartScan ==
    /\ pc = "open"
    /\ mode \in {"out", "rescan", "both"}
    /\ mode = "both" => cur # None
    /\ ~scanned
    /\ IF First <= Len(base)
       THEN pc' = "mark" /\ i' = First /\ UNCHANGED scanned
       ELSE pc' = "open" /\ i' = 0 /\ scanned' = TRUE
    /\ UNCHANGED <<disk, mode, full, rnode, tosend, cur, hist>>

\* Bug: what was sent before is sent again.
DueAgain(m) == Cardinality(Link) > 1 \/ m.local

\* sqdtobuf: a message that is still to be sent is flagged sent on disk.
Due(m) == (Cardinality(Link) > 1 \/ m.local) /\ (~m.sent \/ mode = "rescan")

\* Bug: the links are those of the message before.
MarkStale ==
    /\ pc = "mark"
    /\ base' = IF Due(base[i]) THEN [base EXCEPT ![i].sent = TRUE] ELSE base
    /\ pc' = "send"
    /\ UNCHANGED <<uid, hw, run, i, tosend, cur, hist>>

Mark ==
    /\ pc = "mark"
    /\ LET m == base[i]
       IN  IF Due(m)
           THEN /\ base' = [base EXCEPT ![i].sent = TRUE]
                /\ tosend' = Link \ {m.from}
                /\ waived' = IF mode = "rescan" /\ ~m.sent THEN waived \cup {m.n} ELSE waived
           ELSE tosend' = {} /\ UNCHANGED <<base, waived>>
    /\ pc' = "send"
    /\ UNCHANGED <<uid, hw, run, i, cur, count, copies, served>>

\* msgout and pktwrite: message n goes to the links in to.
SendTo(n, to) ==
    /\ served' = [served EXCEPT ![n] = @ \cup to]
    /\ copies' = IF mode = "rescan" THEN copies
                 ELSE [copies EXCEPT ![n] =
                         [l \in Link |-> IF l \in to /\ @[l] < 2 THEN @[l] + 1 ELSE @[l]]]
    /\ UNCHANGED <<count, waived>>

\* In Rescan only rnode's packet is written to.
Send ==
    /\ pc = "send"
    /\ SendTo(base[i].n, IF mode = "rescan" THEN tosend \cap {rnode} ELSE tosend)
    /\ pc' = "advance"
    /\ UNCHANGED <<disk, run, i, tosend, cur>>

Advance ==
    /\ pc = "advance"
    /\ hw' = base[i].uid
    /\ tosend' = {}
    /\ IF i < Len(base)
       THEN pc' = "mark" /\ i' = i + 1 /\ UNCHANGED scanned
       ELSE pc' = "open" /\ i' = 0 /\ scanned' = TRUE
    /\ UNCHANGED <<base, uid, mode, full, rnode, cur, hist>>

-----------------------------------------------------------------------------
(* In, alone and in one pass with Out *)

\* A message for the area is taken from a packet.
Toss(f) ==
    /\ pc = "open"
    /\ mode \in {"in", "both"}
    /\ cur = None
    /\ count < MaxMsg
    /\ count' = count + 1
    /\ cur' = [n |-> count', from |-> f]
    /\ UNCHANGED <<disk, pc, run, i, tosend, copies, served, waived>>

\* writeboth: after the scan the message goes to the links.
Forward ==
    /\ pc = "open"
    /\ cur # None
    /\ IF mode = "both"
       THEN scanned /\ SendTo(cur.n, IF Cardinality(Link) > 1 THEN Link \ {cur.from} ELSE {})
       ELSE UNCHANGED hist
    /\ pc' = "store"
    /\ UNCHANGED <<disk, run, i, tosend, cur>>

\* Bug: highwater goes up although the message is still to be sent.
RaisedAlways == hw + 1

\* In one pass highwater goes up with a message stored, which is sent already.
Raised == IF mode = "both" THEN hw + 1 ELSE hw

\* buftosqd: the oldest message makes room when maxmsg is reached; in one pass
\* the message is flagged sent.
Store ==
    /\ pc = "store"
    /\ LET room == IF Limit > 0 /\ Len(base) >= Limit
                   THEN SubSeq(base, Len(base) - Limit + 2, Len(base)) ELSE base
       IN  base' = Append(room, [n |-> cur.n, uid |-> uid, local |-> FALSE,
                                 sent |-> mode = "both", from |-> cur.from])
    /\ uid' = uid + 1
    /\ hw' = Raised
    /\ cur' = None
    /\ pc' = "open"
    /\ UNCHANGED <<run, i, tosend, hist>>

-----------------------------------------------------------------------------
(* Purge *)

\* buftosqd under Purge: the next number is the one after the last copied.
NextUid(b) == b[Len(b)].uid + 1

\* purgesqd copies the messages that are not too old, which the k oldest are,
\* to a new base.  They keep their numbers, and the next number is the one
\* after the last; when Post is given too they get new ones.  A base that is
\* empty then is unlinked.
Purge(k, renumber) ==
    LET kept == SubSeq(base, k + 1, Len(base))
    IN  /\ Purges
        /\ pc = "off"
        /\ renumber => uid + Len(kept) <= MaxUid
        /\ IF kept = <<>>
           THEN base' = <<>> /\ uid' = 1 /\ hw' = 0
           ELSE /\ base' = IF renumber
                           THEN [j \in 1 .. Len(kept) |-> [kept[j] EXCEPT !.uid = uid + j - 1]]
                           ELSE kept
                /\ uid' = NextUid(base')
                /\ hw' = IF NoFresh THEN hw ELSE Clamped
        /\ UNCHANGED <<pc, run, i, tosend, cur, hist>>

-----------------------------------------------------------------------------
Tosser ==
    \/ Open \/ Close \/ End
    \/ StartScan \/ Mark \/ Send \/ Advance
    \/ \E f \in Link : Toss(f)
    \/ Forward \/ Store

Next ==
    \/ Post \/ Tosser \/ Crash
    \/ \E k \in 1 .. Len(base) : Delete(k)
    \/ \E m \in Modes, s \in BOOLEAN, r \in Link \cup {None} : Begin(m, s, r)
    \/ \E k \in 0 .. Len(base), renumber \in BOOLEAN : Purge(k, renumber)

Spec == Init /\ [][Next]_vars

\* The process runs on, a run ends, and Out is run again and again.
FairSpec ==
    /\ Spec
    /\ WF_vars(Tosser) /\ SF_vars(End) /\ SF_vars(Begin("out", FALSE, None))

-----------------------------------------------------------------------------
(* Properties *)

\* Messages that are exported when they are new: those of the editor, and
\* those of links when there are others to pass them to.
Exportable(m) == Cardinality(Link) > 1 \/ m.local

\* Highwater never passes over a message still to be sent: all that a scan
\* skips without looking (scansqd) has been sent already.
NothingPassed ==
    \A k \in 1 .. Len(base) :
        Exportable(base[k]) /\ ~base[k].sent => base[k].uid > hw

\* A message flagged sent has gone to every link but the one it came from,
\* except the one scansqd has just flagged.  Two things break the tie, and only
\* for the message they meet: a kill between the flag and the packet, and
\* Rescan, which flags new messages it writes for one link only.
SentIsServed ==
    \A k \in 1 .. Len(base) :
        base[k].sent /\ base[k].n \notin waived =>
                        \/ Link \ {base[k].from} \subseteq served[base[k].n]
                        \/ pc = "send" /\ k = i

\* No link gets a message twice as new mail, whichever commands are run in
\* which order, with and without -s, and whenever the process is killed.
AtMostOnce == \A n \in Ids, l \in Link : copies[n][l] <= 1

\* A message of the editor is sent, if the editor leaves it there.
LocalSent ==
    \A n \in Ids :
        (\E k \in 1 .. Len(base) : base[k].n = n /\ base[k].local)
        ~> (Link \subseteq served[n] \/ ~ \E k \in 1 .. Len(base) : base[k].n = n)
=============================================================================
