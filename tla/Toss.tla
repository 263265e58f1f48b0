-------------------------------- MODULE Toss --------------------------------
(***************************************************************************)
(* The tosser: tossarcs, tosspkts, tosspkt and writeboth (tossarcs.cpp)    *)
(* with setarea, openarea and opensqd (partsqd.cpp) under them.            *)
(*                                                                         *)
(* A run works through inbound packets message by message and puts each    *)
(* message somewhere: the base of its echo area, the sysop's personal      *)
(* area, BadArea, DupeArea, netmail, or - when a base it needs is in use   *)
(* by another program - the packet PtBackUp.Tkp, which the next cycle      *)
(* tosses as PtBackUp.Pkt.  In one pass (both) it also exports the message *)
(* to the area's links, after exporting what the base had unsent.          *)
(*                                                                         *)
(* The program keeps the state of all this in globals that several calls   *)
(* share: the area that is open (newarea), the name it was opened for      *)
(* (oldarea), whether the last attempt to open a base failed (arealock)    *)
(* and the entry of the area table being worked on (tlist, carea).         *)
(*                                                                         *)
(* Abstractions: every link is subscribed to every area and SEEN-BY lines  *)
(* name nobody; whether a message is a duplicate is free (DupeBase decides *)
(* that); a base that can be opened accepts messages (SquishBase) and has  *)
(* messages waiting to be exported (EchoScan); no passthrough areas and no *)
(* autocreation; the area table is one chunk.                              *)
(***************************************************************************)
EXTENDS Integers, Sequences, FiniteSets

CONSTANTS
    Home,        \* ordinary echo areas
    Pers,        \* the echo area of SysOpName, CarbonCopy or CarbonMove
    Bad, Dupes,  \* BadArea and DupeArea
    Dead,        \* an area marked deleted
    Unknown,     \* an area the configuration does not have
    Net,         \* netmail, and the netmail area
    Junk,        \* bytes in a packet that are no message
    Link,        \* the links of every area
    ReadOnly,    \* those that may not write
    Stranger,    \* a system that is no link
    None,
    \* configuration
    Behaviour,   \* LockedAreaBehavior: "wait", "tobad", "backup"
    Carbon,      \* what is done with the sysop's mail: "none", "copy", "move"
    Both,        \* In and Out in one pass
    KillDupes, DropBad,
    \* circumstances
    Senders,     \* the senders of packets
    Kinds,       \* the kinds of messages in them
    Contended,   \* bases other programs use
    \* bounds
    MaxPackets, MaxLen,
    MaxKills     \* how often the process is killed

Echo == Home \cup {Pers}
Names == Echo \cup {Dead, Unknown, Net, Junk}

Ids == 1 .. MaxPackets * MaxLen
Message == [id : Ids, area : Names, mine : BOOLEAN, from : Link \cup {Stranger}]
Packet == [from : Link \cup {Stranger}, msgs : Seq(Message)]

ASSUME TossAssumption ==
    /\ Net \notin Echo
    /\ None \notin Names \cup Packet
    /\ Stranger \notin Link
    /\ Kinds \subseteq [area : Names, mine : BOOLEAN]
    /\ ReadOnly \subseteq Link
    /\ Senders \subseteq Link \cup {Stranger}
    /\ Contended \subseteq Echo \cup {Bad, Dupes}
    /\ Behaviour \in {"wait", "tobad", "backup"}
    /\ Carbon \in {"none", "copy", "move"}
    /\ {Both, KillDupes, DropBad} \subseteq BOOLEAN
    /\ {MaxPackets, MaxLen, MaxKills} \subseteq Nat

VARIABLES
    \* files
    packets,    \* packets[n]: an inbound packet, None before and after
    tkp, pkt,   \* PtBackUp.Tkp and PtBackUp.Pkt
    \* the world
    arrived,    \* how many packets have arrived
    busy,       \* the bases another program has open
    \* the process
    pc,         \* "off"; "cycle", "pick" between packets; "packet" between
                \* messages; "dispose", "copy", "export", "store" within one
    pending,    \* packets listed by addpacket, 0 for PtBackUp.Pkt
    retc,       \* tosspkts: a packet was tossed
    cur, pos,   \* the packet being tossed and the message in it
    damaged,    \* badpack: junk was met in it
    lastnet,    \* netmail: the last message was netmail
    badlocked, dupelocked,
    newarea, open,  \* newarea->areaname, newarea->open
    persopen,   \* persarea->open
    oldarea, arealock,
    res,        \* badarea: what setarea returned
    tarea,      \* the area of tlist->alist[carea]
    astray,     \* within writeboth: tlist and carea were left at Pers
    scanned,    \* the areas whose scanned flag is set
    \* history
    mail,       \* every message that arrived
    stored,     \* stored[i]: times message i was stored in its area's base
    placed,     \* placed[i]: other places message i was put to
    sent,       \* sent[i]: links message i was exported to
    swept,      \* areas whose base was searched for unsent messages
    overrun,    \* areas whose highwater was advanced without that
    mingled,    \* messages saved behind one of another sender
    kills,      \* how often the process was killed
    overwritten \* messages in a PtBackUp.Pkt that another was renamed over

files == <<packets, tkp, pkt>>
world == <<arrived, busy>>
where == <<pending, retc, cur, pos, damaged, lastnet>>
locks == <<badlocked, dupelocked>>
areas == <<newarea, open, persopen, oldarea, arealock, res, tarea, astray>>
sweep == <<scanned, swept, overrun>>
fate  == <<stored, placed, sent>>
notes == <<mingled, kills, overwritten>>
vars  == <<files, world, pc, where, locks, areas, sweep, mail, fate, notes>>

Places == {"pers", "bad", "dupe", "net", "gone", "aside"}

FilesOK ==
    /\ packets \in [1 .. MaxPackets -> Packet \cup {None}]
    /\ tkp \in Packet \cup {None}
    /\ pkt \in Packet \cup {None}
WorldOK == arrived \in 0 .. MaxPackets /\ busy \subseteq Contended
RunOK ==
    /\ pc \in {"off", "cycle", "pick", "packet", "dispose", "copy", "export", "store"}
    /\ pending \subseteq 0 .. MaxPackets
    /\ cur \in 0 .. MaxPackets
    /\ pos \in Nat
FlagsOK == {retc, damaged, lastnet, badlocked, dupelocked, open, persopen, astray}
               \subseteq BOOLEAN
AreasOK ==
    /\ newarea \in Names \cup {None}
    /\ oldarea \in Echo \cup {None}
    /\ arealock \in {0, 1}
    /\ res \in {0, 1, -1, -2}
    /\ tarea \in Names \cup {None}
SweepOK == scanned \subseteq Echo \cup {Net} /\ swept \subseteq Echo /\ overrun \subseteq Echo
FateOK ==
    /\ mail \subseteq Message
    /\ stored \in [Ids -> 0 .. 2]
    /\ placed \in [Ids -> SUBSET Places]
    /\ sent \in [Ids -> SUBSET Link]
NotesOK == mingled \subseteq Ids /\ kills \in 0 .. MaxKills /\ overwritten \subseteq Ids

TypeOK == FilesOK /\ WorldOK /\ RunOK /\ FlagsOK /\ AreasOK /\ SweepOK /\ FateOK /\ NotesOK

Init ==
    /\ packets = [n \in 1 .. MaxPackets |-> None]
    /\ tkp = None /\ pkt = None
    /\ arrived = 0
    /\ busy = {}
    /\ pc = "off"
    /\ pending = {} /\ retc = FALSE
    /\ cur = 0 /\ pos = 1 /\ damaged = FALSE /\ lastnet = FALSE
    /\ badlocked = FALSE /\ dupelocked = FALSE
    /\ newarea = None /\ open = FALSE /\ persopen = FALSE
    /\ oldarea = None /\ arealock = 0 /\ res = 0
    /\ tarea = None /\ astray = FALSE
    /\ scanned = {} /\ swept = {} /\ overrun = {}
    /\ mail = {}
    /\ stored = [i \in Ids |-> 0]
    /\ placed = [i \in Ids |-> {}]
    /\ sent = [i \in Ids |-> {}]
    /\ mingled = {} /\ kills = 0 /\ overwritten = {}

-----------------------------------------------------------------------------
(* The world *)

\* A mailer puts a packet into an inbound directory.
Arrive(from, kinds) ==
    LET msgs == [k \in 1 .. Len(kinds) |->
                   [id |-> arrived * MaxLen + k, from |-> from,
                    area |-> kinds[k].area, mine |-> kinds[k].mine]]
    IN  /\ arrived < MaxPackets
        /\ arrived' = arrived + 1
        /\ packets' = [packets EXCEPT ![arrived + 1] = [from |-> from, msgs |-> msgs]]
        /\ mail' = mail \cup {msgs[k] :
                                k \in {k \in 1 .. Len(kinds) : kinds[k].area # Junk}}
        /\ UNCHANGED <<tkp, pkt, busy, pc, where, locks, areas, sweep, fate, notes>>

\* The bases the tosser has open; no other program gets at them.
Held == {a \in Echo : (open /\ newarea = a) \/ (persopen /\ a = Pers)}
        \cup (IF pc # "off" /\ ~badlocked THEN {Bad} ELSE {})
        \cup (IF pc # "off" /\ ~dupelocked THEN {Dupes} ELSE {})

\* A mail reader opens a base, or closes it.
Occupy(a) ==
    /\ a \notin busy \cup Held
    /\ busy' = busy \cup {a}
    /\ UNCHANGED <<files, arrived, pc, where, locks, areas, sweep, mail, fate, notes>>

Release(a) ==
    /\ busy' = busy \ {a}
    /\ a \in busy
    /\ UNCHANGED <<files, arrived, pc, where, locks, areas, sweep, mail, fate, notes>>

-----------------------------------------------------------------------------
(* A run *)

\* Bug: the tosser waits for a base it has open itself.
CanTrySelf(a) == Behaviour = "wait" => a \notin busy \cup Held

\* opensqd waits for base a in behaviour Wait; in the others it goes on.
CanTry(a) == Behaviour = "wait" => a \notin busy

\* setbadarea opens BadArea, DupeArea and the personal area.
Start ==
    /\ pc = "off"
    /\ CanTry(Bad) /\ CanTry(Dupes) /\ CanTry(Pers)
    /\ pc' = "cycle"
    /\ badlocked' = (Bad \in busy)
    /\ dupelocked' = (Dupes \in busy)
    /\ persopen' = (Carbon # "none" /\ Pers \notin busy)
    /\ arealock' = IF Carbon # "none" /\ Pers \in busy THEN 1 ELSE 0
    /\ tarea' = IF Carbon # "none" THEN Pers ELSE None
    /\ newarea' = None /\ open' = FALSE /\ oldarea' = None
    /\ res' = 0 /\ astray' = FALSE
    /\ scanned' = {} /\ swept' = {}
    /\ UNCHANGED <<files, world, where, overrun, mail, fate, notes>>

\* Bug: PtBackUp.Tkp is copied.
CycleCopies ==
    /\ pc = "cycle"
    /\ pkt' = IF tkp # None THEN tkp ELSE pkt
    /\ pending' = {n \in 1 .. MaxPackets : packets[n] # None} \cup {n \in {0} : pkt' # None}
    /\ retc' = FALSE
    /\ pc' = "pick"
    /\ UNCHANGED <<packets, tkp, world, cur, pos, damaged, lastnet, locks, areas,
                   sweep, mail, fate, notes>>

\* tossarcs: PtBackUp.Tkp becomes PtBackUp.Pkt (rrename unlinks a file that
\* has the new name), tosspkts lists the packets there are.
Cycle ==
    /\ pc = "cycle"
    /\ pkt' = IF tkp # None THEN tkp ELSE pkt
    /\ tkp' = None
    /\ overwritten' = IF tkp = None \/ pkt = None THEN overwritten
                      ELSE overwritten \cup {pkt.msgs[k].id : k \in 1 .. Len(pkt.msgs)}
    /\ pending' = {n \in 1 .. MaxPackets : packets[n] # None}
                  \cup {n \in {0} : pkt' # None}
    /\ retc' = FALSE
    /\ pc' = "pick"
    /\ UNCHANGED <<packets, world, cur, pos, damaged, lastnet, locks, areas,
                   sweep, mail, fate, mingled, kills>>

\* tosspkt is entered.  (Packets are sorted by time; any order is allowed.)
Pick(n) ==
    /\ pc = "pick"
    /\ n \in pending
    /\ pc' = "packet"
    /\ cur' = n /\ pos' = 1 /\ damaged' = FALSE
    /\ oldarea' = None
    /\ UNCHANGED <<files, world, pending, retc, lastnet, locks, newarea, open,
                   persopen, arealock, res, tarea, astray, sweep, mail, fate, notes>>

\* tosspkts lists no more packets: another cycle if one was tossed, else
\* the bases are closed and the run ends.
EndCycle ==
    /\ pc = "pick"
    /\ pending = {}
    /\ IF retc THEN pc' = "cycle" /\ UNCHANGED areas
       ELSE /\ pc' = "off"
            /\ open' = FALSE /\ persopen' = FALSE
            /\ UNCHANGED <<newarea, oldarea, arealock, res, tarea, astray>>
    /\ UNCHANGED <<files, world, where, locks, sweep, mail, fate, notes>>

-----------------------------------------------------------------------------
(* A packet: tosspkt *)

This == IF cur = 0 THEN pkt ELSE packets[cur]
AtMessage == pc = "packet" /\ pos <= Len(This.msgs)
msg == This.msgs[pos]

\* tosspkts goes round again for a packet that was tossed whole, PtBackUp.Pkt
\* excepted.
Tossed == ~damaged /\ cur # 0

\* tosspkts renames a packet in which junk was met.
Spoilt == damaged

\* endfunc of tosspkt, and tosspkts: a packet is unlinked, or renamed for the
\* sysop if it was damaged.
EndPacket ==
    /\ pc = "packet"
    /\ pos > Len(This.msgs)
    /\ pc' = "pick"
    /\ pending' = pending \ {cur}
    /\ open' = (open /\ lastnet)
    /\ IF cur = 0 THEN pkt' = None /\ UNCHANGED packets
       ELSE packets' = [packets EXCEPT ![cur] = None] /\ UNCHANGED pkt
    /\ placed' = IF ~Spoilt THEN placed
                 ELSE [i \in Ids |-> IF \E k \in 1 .. Len(This.msgs) : This.msgs[k].id = i
                                     THEN placed[i] \cup {"aside"} ELSE placed[i]]
    /\ retc' = (retc \/ Tossed)
    /\ UNCHANGED <<tkp, world, cur, pos, damaged, lastnet, locks, newarea, persopen,
                   oldarea, arealock, res, tarea, astray, sweep, mail, stored, sent, notes>>

\* Bytes that are no message; with DropBad the rest of the packet is left.
Damage ==
    /\ AtMessage
    /\ msg.area = Junk
    /\ damaged' = TRUE
    /\ pos' = IF DropBad THEN Len(This.msgs) + 1 ELSE pos + 1
    /\ UNCHANGED <<files, world, pc, pending, retc, cur, lastnet, locks, areas,
                   sweep, mail, fate, notes>>

\* Bug: netmail does not make the tosser forget the area it was in.
NetmailKeeps ==
    /\ AtMessage
    /\ msg.area = Net
    /\ lastnet' = TRUE
    /\ pos' = pos + 1
    /\ placed' = [placed EXCEPT ![msg.id] = @ \cup {"net"}]
    /\ tarea' = IF Both THEN None ELSE Net
    /\ IF Both /\ Net \notin scanned
       THEN newarea' = Net /\ open' = FALSE /\ scanned' = scanned \cup {Net}
       ELSE UNCHANGED <<newarea, open, scanned>>
    /\ UNCHANGED <<files, world, pc, pending, retc, cur, damaged, locks, persopen, oldarea,
                   arealock, res, astray, swept, overrun, mail, stored, sent, notes>>

\* A netmail message; getctrl forgets oldarea.  In one pass the netmail area
\* is then scanned, once in a run, and its record replaces newarea's.
Netmail ==
    /\ AtMessage
    /\ msg.area = Net
    /\ lastnet' = TRUE
    /\ pos' = pos + 1
    /\ oldarea' = None
    /\ placed' = [placed EXCEPT ![msg.id] = @ \cup {"net"}]
    /\ tarea' = IF Both THEN None ELSE Net
    /\ IF Both /\ Net \notin scanned
       THEN newarea' = Net /\ open' = FALSE /\ scanned' = scanned \cup {Net}
       ELSE UNCHANGED <<newarea, open, scanned>>
    /\ UNCHANGED <<files, world, pc, pending, retc, cur, damaged, locks, persopen,
                   arealock, res, astray, swept, overrun, mail, stored, sent, notes>>

\* setarea(curarea, 0) on an area that is not the remembered one: openarea
\* closes the area that is open, reads the record and opens the base.  The
\* base of the personal area is shared if it is open already.
Opening(a) ==
    LET locked == a \in busy /\ ~(a = Pers /\ persopen)
    IN  /\ CanTry(a) \/ (a = Pers /\ persopen)
        /\ newarea' = a /\ oldarea' = a /\ tarea' = a
        /\ open' = (~locked /\ ~(a = Pers /\ persopen))
        /\ arealock' = IF locked THEN 1 ELSE 0
        /\ res' = arealock'

\* setarea on the area of the message.
SetArea ==
    /\ AtMessage
    /\ msg.area \notin {Net, Junk}
    /\ pc' = "dispose"
    /\ lastnet' = FALSE
    /\ \/ /\ msg.area = oldarea
          /\ res' = arealock
          /\ UNCHANGED <<newarea, open, oldarea, arealock, tarea>>
       \/ /\ msg.area \in Echo \ {oldarea}
          /\ Opening(msg.area)
       \/ /\ msg.area = Dead
          /\ newarea' = Dead /\ open' = FALSE /\ tarea' = Dead
          /\ oldarea' = None /\ res' = -2
          /\ UNCHANGED arealock
       \/ /\ msg.area = Unknown
          /\ tarea' = None /\ oldarea' = None /\ res' = -1
          /\ UNCHANGED <<newarea, open, arealock>>
    /\ UNCHANGED <<files, world, pending, retc, cur, pos, damaged, locks, persopen,
                   astray, sweep, mail, fate, notes>>

-----------------------------------------------------------------------------
(* A message: the rest of tosspkt *)

\* The message is put to a place other than its base, and the next one taken.
PutTo(place) ==
    /\ placed' = [placed EXCEPT ![msg.id] = @ \cup {place}]
    /\ UNCHANGED <<tkp, mingled>>

\* Bug: PtBackUp.Tkp has room for one message.
BackUpOver == tkp' = [from |-> This.from, msgs |-> <<msg>>] /\ UNCHANGED <<placed, mingled>>

\* backup(1): appended to PtBackUp.Tkp.  Only the message that creates the
\* file gives it a packet header.
BackUp ==
    /\ tkp' = IF tkp = None THEN [from |-> This.from, msgs |-> <<msg>>]
              ELSE [tkp EXCEPT !.msgs = Append(@, msg)]
    /\ mingled' = IF tkp = None \/ This.from = tkp'.from THEN mingled ELSE mingled \cup {msg.id}
    /\ UNCHANGED placed

ToBad == IF badlocked THEN BackUp ELSE PutTo("bad")

Dispose ==
    /\ pc = "dispose"
    /\ pc' = "packet"
    /\ pos' = pos + 1
    /\ UNCHANGED <<packets, pkt, world, pending, retc, cur, damaged, lastnet, locks,
                   areas, sweep, mail, stored, sent, kills, overwritten>>

\* A message for a deleted area is dropped.
DropDead == Dispose /\ res = -2 /\ PutTo("gone")

\* A message for an unknown area, or one whose base could not be opened.
Divert ==
    /\ Dispose
    /\ res \in {1, -1}
    /\ IF res = 1 /\ Behaviour = "backup" THEN BackUp ELSE ToBad

\* The sender may not write, or is no link; a packet of saved messages is not
\* asked whether its sender is one.
MayWrite == This.from \in Link \ ReadOnly \/ (This.from = Stranger /\ cur = 0)

Reject == Dispose /\ res = 0 /\ ~MayWrite /\ ToBad

\* dupcheck found the message, or its path runs through this system.
Duplicate ==
    /\ Dispose
    /\ res = 0 /\ MayWrite
    /\ IF KillDupes THEN PutTo("gone") ELSE IF dupelocked THEN BackUp ELSE PutTo("dupe")

-----------------------------------------------------------------------------
(* A message that is accepted: writeboth *)

\* dupcheck did not find the message, and has remembered it.
Fresh ==
    /\ pc = "dispose"
    /\ res = 0 /\ MayWrite
    /\ pc' = "copy"
    /\ UNCHANGED <<files, world, where, locks, areas, sweep, mail, fate, notes>>

\* The sysop's mail is copied to the personal area, which is closed and opened
\* again for it, unless it is the area the message is for.  If it cannot be
\* opened, arealock says so from now on, and tlist and carea stay with it.
Accept ==
    LET copy == Carbon # "none" /\ msg.mine /\ oldarea # Pers
        locked == Pers \in busy
    IN  /\ pc = "copy"
        /\ copy => CanTry(Pers)
        /\ arealock' = IF copy THEN (IF locked THEN 1 ELSE 0) ELSE arealock
        /\ persopen' = IF copy THEN ~locked ELSE persopen
        /\ astray' = (copy /\ locked)
        /\ placed' = IF copy /\ ~locked THEN [placed EXCEPT ![msg.id] = @ \cup {"pers"}]
                                        ELSE placed
        /\ pc' = IF Both THEN "export" ELSE "store"
        /\ UNCHANGED <<files, world, where, locks, newarea, open, oldarea, res, tarea,
                       sweep, mail, stored, sent, notes>>

\* Bug: tlist and carea are always left at the personal area.
EntryPers == Pers

\* The entry of the area table tlist and carea are at.
Entry == IF astray THEN Pers ELSE tarea

\* Bug: the message goes back to its sender.
ReceiversAll == Link

\* msgout(1): the links the message goes to.
Receivers == IF Cardinality(Link) > 1 THEN Link \ {This.from} ELSE {}

\* In one pass: the base of newarea is searched for unsent messages if the
\* entry tlist and carea are at was not scanned yet; then the message goes to
\* the links, the sender of the packet excepted.
Export ==
    /\ pc = "export"
    /\ pc' = "store"
    /\ IF Entry # None /\ Entry \notin scanned
       THEN scanned' = scanned \cup {Entry} /\ swept' = swept \cup {newarea}
       ELSE UNCHANGED <<scanned, swept>>
    /\ sent' = [sent EXCEPT ![msg.id] = @ \cup Receivers]
    /\ UNCHANGED <<files, world, where, locks, areas, overrun, mail, stored, placed, notes>>

\* buftosqd, unless the message is moved away.  In one pass the message is
\* marked sent and the base's highwater goes up by one.
Store ==
    LET move == Carbon = "move" /\ msg.mine
    IN  /\ pc = "store"
        /\ pc' = "packet"
        /\ pos' = pos + 1
        /\ stored' = IF move THEN stored
                     ELSE [stored EXCEPT ![msg.id] = IF @ < 2 THEN @ + 1 ELSE 2]
        /\ overrun' = IF Both /\ ~move /\ newarea \notin swept
                      THEN overrun \cup {newarea} ELSE overrun
        /\ astray' = FALSE
        /\ UNCHANGED <<files, world, pending, retc, cur, damaged, lastnet, locks,
                       newarea, open, persopen, oldarea, arealock, res, tarea,
                       scanned, swept, mail, placed, sent, notes>>

\* The process is killed: files are what they are.
Crash ==
    /\ kills < MaxKills
    /\ kills' = kills + 1
    /\ pc # "off"
    /\ pc' = "off"
    /\ open' = FALSE /\ persopen' = FALSE
    /\ UNCHANGED <<files, world, where, locks, newarea, oldarea, arealock, res,
                   tarea, astray, sweep, mail, fate, mingled, overwritten>>

Tosser ==
    \/ Cycle \/ EndCycle \/ EndPacket
    \/ \E n \in 0 .. MaxPackets : Pick(n)
    \/ Damage \/ Netmail \/ SetArea
    \/ DropDead \/ Divert \/ Reject \/ Duplicate
    \/ Fresh \/ Accept \/ Export \/ Store

Next ==
    \/ Start \/ Tosser \/ Crash
    \/ \E from \in Senders : \E n \in 1 .. MaxLen : \E kinds \in [1 .. n -> Kinds] :
          Arrive(from, kinds)
    \/ \E a \in Contended : Occupy(a) \/ Release(a)

Spec == Init /\ [][Next]_vars

\* The process runs on.
FairSpec == Spec /\ WF_vars(Tosser)

-----------------------------------------------------------------------------
(* Properties *)

Holds(p, i) == p # None /\ \E k \in 1 .. Len(p.msgs) : p.msgs[k].id = i

\* Message i is in a file that will be tossed.
Waiting(i) == \/ \E n \in DOMAIN packets : Holds(packets[n], i)
              \/ Holds(pkt, i) \/ Holds(tkp, i)

\* No message disappears: it is in a packet still to be tossed, in the base of
\* its area, or somewhere it is meant to be - whichever bases were in use,
\* however often it was saved and tossed again, and although packets are
\* unlinked (tosspkts) and PtBackUp.Pkt is overwritten (tossarcs).  Only a kill
\* while PtBackUp.Pkt is tossed costs messages: the next rename is onto it.
NothingLost ==
    \A m \in mail :
        \/ Waiting(m.id)
        \/ stored[m.id] > 0
        \/ placed[m.id] \cap {"bad", "dupe", "net", "gone", "aside"} # {}
        \/ Carbon = "move" /\ "pers" \in placed[m.id]
        \/ kills > 0 /\ m.id \in overwritten

\* A message ends in one place and gets there once: saving it in PtBackUp.Tkp
\* and tossing that file in a later cycle neither doubles it in its base nor
\* leaves it both in a base and in the file.  (A kill in the middle of a packet
\* does; dupcheck is for that.)
OnePlace ==
    kills = 0 => \A m \in mail :
        LET other == placed[m.id] \ {"pers", "aside"}
        IN  /\ stored[m.id] + Cardinality(other) <= 1
            /\ Holds(tkp, m.id) => stored[m.id] = 0 /\ other = {}

\* "In case of this uncatched bug" (tossarcs.cpp): a message that is accepted
\* or rejected on the links of an area is handled with the record of its own
\* area, whatever setarea remembered and netmail put into newarea.
RightArea ==
    (pc = "dispose" /\ res = 0) \/ pc \in {"copy", "export", "store"} => newarea = msg.area

\* One pass: before the first message is stored in a base, and its highwater
\* raised by one, the messages waiting in that base are exported; otherwise
\* highwater passes over one of them and it is never sent.
SweptBeforeStore == overrun = {}

\* One pass: a message stored in its base has gone to every link but the one
\* it came from, and no message goes back to its sender; one that was saved in
\* the packet of another sender has missed one link at most (backup writes the
\* header of the first).
AllServed ==
    Both => \A m \in mail :
        /\ m.id \in mingled \/ m.from \notin sent[m.id]
        /\ stored[m.id] > 0 /\ Cardinality(Link) > 1 =>
              \E l \in Link \cup {Stranger} :
                  Link \ {l} \subseteq sent[m.id] /\ (l = m.from \/ m.id \in mingled)

\* A run ends, although every cycle may save messages for a next one: the
\* packet PtBackUp.Pkt alone asks for no further cycle.
RunEnds == pc # "off" ~> pc = "off"

\* In behaviour Wait it ends once the other programs leave the bases alone.
RunEndsOnceFree == <>[](busy = {}) => RunEnds
=============================================================================
