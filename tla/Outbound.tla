------------------------------- MODULE Outbound -------------------------------
(***************************************************************************)
(* Packed mail on its way out: attach.cpp, archives.cpp (packing),         *)
(* killold.cpp and the packet list of packets.cpp, with the mailer that    *)
(* takes the archives away (external).                                     *)
(*                                                                         *)
(* A run takes up the packets left on disk, adds those it writes, and lets *)
(* makeattach pack each into an archive for its link and tell the mailer   *)
(* of it: in a directory of the link's own ("box"), by a message with the  *)
(* archive attached ("attach"), or by a line in the link's flow file       *)
(* ("flow").  Busy flags keep the two apart.  An archive is named by link, *)
(* day of the week and slot (0-9, a-z); a file of size 0 in the outbound   *)
(* marks the slots used (box and flow).                                    *)
(*                                                                         *)
(* Abstractions: one kind of flag for .bsy and the FrontDoor flags; one    *)
(* flow file per link; a file is its packets and the day it was written;   *)
(* no files to be sent as they are.                                        *)
(***************************************************************************)
EXTENDS Naturals, FiniteSets, SequencesExt

CONSTANTS
    Links,
    MaxPackets, \* bound: packets ever written
    None,       \* not a link, a name or a file
    Methods,    \* the ways the links may get their mail: functions, one is taken
    AddArcs,    \* addarc may be: subset of BOOLEAN
    Truncs,     \* trunc may be: sent archives are truncated, not deleted
    Big,        \* packets as large as pktsize
    ArcSize,    \* arcsize in packets, 0: no limit
    LastSlot,       \* the last slot, z
    Week,       \* days until the names repeat
    MaxDay,     \* bound: days
    MaxFails,   \* bound: kills, exits and failures of the archiver
    Days        \* days until killold drops an archive, 0: never

Packets == 1 .. MaxPackets
Slot == 0 .. LastSlot
Names == Links \X (0 .. Week - 1) \X Slot
File == [has : SUBSET Packets, day : 0 .. MaxDay]
Entry == [id : Packets, touched : BOOLEAN, filled : BOOLEAN, sent : BOOLEAN]
Read == Names \X SUBSET Packets

ASSUME OutboundAssumption ==
    /\ None \notin Links \cup Names \cup File \cup Read
    /\ Methods \subseteq [Links -> {"box", "attach", "flow"}]
    /\ AddArcs \subseteq BOOLEAN /\ Truncs \subseteq BOOLEAN
    /\ Big \subseteq 1 .. MaxPackets
    /\ {MaxPackets, ArcSize, LastSlot, Week, MaxDay, MaxFails, Days} \subseteq Nat /\ Week > 0

VARIABLES
    conf,       \* method, addarc and trunc; constant
    day,
    disk,       \* the packet files: "none", "out" or "pkt"
    to,         \* the links they are for; None: not written yet
    arch,       \* the archives; None where there is none
    marks,      \* the zero files in the outbound
    listed,     \* archives the mailer is told of
    flag,       \* the busy flags: "none", "own" or "mailer"
    session,    \* links the mailer is in session with
    sending,    \* the archive it is sending, as it was when it was read
    pc,         \* where the run is
    pkts, cur,  \* the list of packets and tpack
    type,       \* makeattach: 1 takes filled packets only
    busy,       \* a flag was found
    make,       \* the archive is new and needs a message
    bsyname,    \* the flag to be removed
    name,       \* the archive being packed or killed
    temp,       \* killold: the new flow file before the rename
    fails,      \* kills, exits and failures so far
    delivered, expired,     \* history: packets sent, and dropped by killold
    used,                   \* history: names whose archive was sent today
    crossed,                \* history: a flag of the mailer was ignored or removed
    cut                     \* history: a run was cut short

files == <<disk, to, arch, marks, listed>>
mailer == <<session, sending>>
chosen == <<name, make>>
run == <<pc, pkts, cur, type, busy, bsyname, chosen, temp>>
history == <<delivered, expired, used, crossed, cut>>
vars == <<conf, day, files, flag, mailer, run, fails, history>>

ConfOK == conf \in [method : Methods, addarc : AddArcs, trunc : Truncs] /\ day \in 0 .. MaxDay
FilesOK ==
    /\ disk \in [Packets -> {"none", "out", "pkt"}]
    /\ to \in [Packets -> Links \cup {None}]
    /\ arch \in [Names -> File \cup {None}]
    /\ marks \subseteq Names /\ listed \subseteq Names
MailerOK ==
    /\ flag \in [Links -> {"none", "own", "mailer"}]
    /\ session \subseteq Links
    /\ sending \in [Links -> {None} \cup Read]
RunOK ==
    /\ pc \in {"idle", "run", "next", "flag", "pack", "unlink", "mark", "list",
               "done", "left", "stuck", "edit", "rename"}
    /\ pkts \in Seq(Entry) /\ cur \in 1 .. Len(pkts) + 1
    /\ type \in {0, 1} /\ {busy, make} \subseteq BOOLEAN
    /\ bsyname \in Links \cup {None}
    /\ name \in Names \cup {None}
    /\ temp \subseteq Names
    /\ pc \in {"flag", "pack", "unlink", "mark", "list", "done", "left", "stuck"}
          => cur <= Len(pkts)
HistOK ==
    /\ fails \in 0 .. MaxFails
    /\ delivered \subseteq Packets /\ expired \subseteq Packets
    /\ used \subseteq Names
    /\ {crossed, cut} \subseteq BOOLEAN
TypeOK == ConfOK /\ FilesOK /\ MailerOK /\ RunOK /\ HistOK

Init ==
    /\ conf \in [method : Methods, addarc : AddArcs, trunc : Truncs]
    /\ day = 0
    /\ disk = [p \in Packets |-> "none"] /\ to = [p \in Packets |-> None]
    /\ arch = [n \in Names |-> None] /\ marks = {} /\ listed = {}
    /\ flag = [l \in Links |-> "none"]
    /\ session = {} /\ sending = [l \in Links |-> None]
    /\ pc = "idle" /\ pkts = <<>> /\ cur = 1 /\ type = 0
    /\ busy = FALSE /\ make = FALSE /\ bsyname = None /\ name = None
    /\ temp = {} /\ fails = 0
    /\ delivered = {} /\ expired = {} /\ used = {}
    /\ crossed = FALSE /\ cut = FALSE

-----------------------------------------------------------------------------
(* Names of archives.                                                      *)

Named(l, s) == <<l, day % Week, s>>
There(l, s) == arch[Named(l, s)] # None
Marked(l, s) == Named(l, s) \in marks
Empty(l, s) == There(l, s) /\ arch[Named(l, s)].has = {}
Large(l, s) == ArcSize > 0 /\ Cardinality(arch[Named(l, s)].has) > ArcSize
Older(l, s) == arch[Named(l, s)].day # day

\* Bug: the flag is not thought of.
AddToBusy == conf.addarc

\* A busy flag stops additions to existing archives.
AddTo == conf.addarc /\ ~busy

\* The lowest of these slots; LastSlot + 1: there is none.
Lowest(slots) == IF slots = {} THEN LastSlot + 1 ELSE Min(slots)

\* adjustname for box and flow, where the name is a marker: the first slot
\* without one, or the first of all when all are marked.
FreeMark(l) ==
    LET s == Lowest({t \in Slot : ~Marked(l, t)})
    IN  IF s > LastSlot THEN 0 ELSE s

\* The slot makeattach starts from: the last marked one, to add to it.
From(l) ==
    LET s == FreeMark(l) IN IF AddTo /\ s > 0 THEN s - 1 ELSE s

\* adjustname for attach, where the name is the archive itself.
AttachPass(l, s) == There(l, s) /\ (Empty(l, s) \/ ~AddTo \/ Large(l, s))
AttachOpen(l) == {t \in Slot : ~AttachPass(l, t)}
AttachSlot(l) ==
    IF AttachOpen(l) # {} THEN Lowest(AttachOpen(l))
    ELSE IF Empty(l, LastSlot) THEN 0 ELSE LastSlot

\* A message is written unless the archive is one that is added to.
AttachMake(l) ==
    IF AttachOpen(l) = {} THEN AttachSlot(l) # LastSlot \/ Empty(l, LastSlot)
    ELSE ~There(l, AttachSlot(l))

\* Bug: the date of an archive is not looked at.
BoxPassAny(l, s) ==
    /\ There(l, s) \/ Marked(l, s)
    /\ ~There(l, s) \/ ~AddTo \/ Large(l, s)

\* In a link's own directory: what the search for a slot passes over.
BoxPass(l, s) ==
    /\ There(l, s) \/ Marked(l, s)
    /\ ~There(l, s) \/ ~AddTo \/ Large(l, s) \/ Older(l, s)

\* LastSlot + 1: a flag is there and no slot is left; the packet waits.
BoxSlot(l) ==
    LET s == Lowest({t \in From(l) .. LastSlot : t = LastSlot \/ ~BoxPass(l, t)})
        full == IF From(l) = LastSlot THEN BoxPass(l, LastSlot)
                ELSE s = LastSlot /\ There(l, LastSlot)
    IN  IF busy /\ full THEN LastSlot + 1 ELSE s

\* LastSlot + 1: all slots from the first one on are taken; reread2 does not end.
FlowPass(l, s) ==
    /\ There(l, s)
    /\ ~AddTo \/ Large(l, s) \/ Empty(l, s) \/ Older(l, s)
FlowSlot(l) ==
    LET s == Lowest({t \in From(l) .. LastSlot : ~FlowPass(l, t)})
    IN  IF s = From(l) /\ ~There(l, s) /\ ~conf.trunc /\ AddTo /\ Marked(l, 0)
           /\ s < LastSlot
        THEN s + 1
        ELSE s

-----------------------------------------------------------------------------
(* A run up to makeattach and after it.                                    *)

\* createpkts: the packets on disk, in any order, are taken up as they are.
Begin ==
    /\ pc = "idle"
    /\ \E s \in SetToSeqs({p \in Packets : disk[p] # "none"}) :
           pkts' = [i \in DOMAIN s |-> [id |-> s[i], touched |-> TRUE,
                                        filled |-> s[i] \in Big, sent |-> FALSE]]
    /\ pc' = "run" /\ cur' = 1
    /\ UNCHANGED <<conf, day, files, flag, mailer, type, busy, bsyname, chosen, temp,
                   fails, history>>

\* addtpack, and pktwrite if a message gets into the packet.
Toss(p, l, touched) ==
    /\ pc = "run" /\ to[p] = None /\ \A q \in 1 .. p - 1 : to[q] # None
    /\ \A i \in DOMAIN pkts : pkts[i].id # p
    /\ to' = [to EXCEPT ![p] = l]
    /\ disk' = [disk EXCEPT ![p] = "out"]
    /\ pkts' = Append(pkts, [id |-> p, touched |-> touched,
                             filled |-> touched /\ p \in Big, sent |-> FALSE])
    /\ UNCHANGED <<conf, day, arch, marks, listed, flag, mailer, pc, cur, type,
                   busy, bsyname, chosen, temp, fails, history>>

\* makeattach begins; the files of size 0 of the other days are removed.
MakeAttach(t) ==
    /\ pc = "run" /\ pkts # <<>>
    /\ marks' = {n \in marks : n[2] = day % Week}
    /\ arch' = [n \in Names |->
                   IF /\ n[2] # day % Week /\ conf.method[n[1]] = "attach"
                      /\ arch[n] # None /\ arch[n].has = {}
                   THEN None ELSE arch[n]]
    /\ pc' = "next" /\ cur' = 1 /\ type' = t
    /\ UNCHANGED <<conf, day, disk, to, listed, flag, mailer, pkts, busy,
                   bsyname, chosen, temp, fails, history>>

\* delpkts: the process ends, or goes on to its next part.
End ==
    /\ pc = "run"
    /\ pc' = "idle" /\ pkts' = <<>> /\ cur' = 1
    /\ bsyname' \in {bsyname, None}
    /\ UNCHANGED <<conf, day, files, flag, mailer, type, busy, chosen,
                   temp, fails, history>>

-----------------------------------------------------------------------------
(* makeattach, packet by packet.                                           *)

tpack == pkts[cur]
target == to[tpack.id]
method == conf.method[target]
Taken == cur <= Len(pkts) /\ ~tpack.sent /\ (type = 0 \/ tpack.filled)

\* What the next packet sets before it uses it.
Forget == busy' = FALSE /\ make' = FALSE /\ name' = None

\* nextpack: bsyname is kept, and a packet passed over removes it again.
MailersFlag == bsyname # None /\ flag[bsyname] = "mailer"
RemoveFlag ==
    /\ flag' = [l \in Links |-> IF l = bsyname THEN "none" ELSE flag[l]]
    /\ crossed' = (crossed \/ MailersFlag)

\* The packet was sent, or is not full enough, or got no message: then it goes.
Skip ==
    /\ pc = "next" /\ cur <= Len(pkts)
    /\ ~(Taken /\ tpack.touched)
    /\ disk' = IF Taken THEN [disk EXCEPT ![tpack.id] = "none"] ELSE disk
    /\ to' = IF Taken THEN [to EXCEPT ![tpack.id] = None] ELSE to
    /\ RemoveFlag
    /\ cur' = cur + 1
    /\ UNCHANGED <<conf, day, arch, marks, listed, mailer, pc, pkts, type, busy,
                   bsyname, chosen, temp, fails, delivered, expired, used, cut>>

\* Is the link busy?  With a flag there none is made.
CheckFlag ==
    /\ pc = "next" /\ Taken /\ tpack.touched
    /\ busy' = (flag[target] # "none")
    /\ bsyname' = None
    /\ pc' = IF busy' THEN "pack" ELSE "flag"
    /\ UNCHANGED <<conf, day, files, flag, mailer, pkts, cur, type, chosen, temp,
                   fails, history>>

\* The flag is made by an open without O_EXCL: when the mailer made one since,
\* it is written over, or the open fails (held open) but bsyname names it.
MakeFlag ==
    /\ pc = "flag"
    /\ bsyname' = target
    /\ \/ /\ flag' = [flag EXCEPT ![target] = "own"]
          /\ busy' = FALSE
          /\ crossed' = (crossed \/ flag[target] = "mailer")
       \/ /\ flag[target] = "mailer"
          /\ busy' = TRUE
          /\ UNCHANGED <<flag, crossed>>
    /\ pc' = "pack"
    /\ UNCHANGED <<conf, day, files, mailer, pkts, cur, type, chosen, temp, fails,
                   delivered, expired, used, cut>>

\* A packet that has to wait is renamed to .out.
Wait ==
    /\ pc = "pack"
    /\ \/ method = "flow" /\ busy
       \/ method = "box" /\ BoxSlot(target) > LastSlot
    /\ disk' = [disk EXCEPT ![tpack.id] = "out"]
    /\ pc' = "left"
    /\ UNCHANGED <<conf, day, to, arch, marks, listed, flag, mailer, pkts, cur,
                   type, busy, bsyname, chosen, temp, fails, history>>

\* reread2 compares the slot with 'Z', but it stays at 'z'.
Hang ==
    /\ pc = "pack" /\ method = "flow" /\ ~busy
    /\ FlowSlot(target) > LastSlot
    /\ disk' = [disk EXCEPT ![tpack.id] = "pkt"]
    /\ pc' = "stuck"
    /\ UNCHANGED <<conf, day, to, arch, marks, listed, flag, mailer, pkts, cur,
                   type, busy, bsyname, chosen, temp, fails, history>>

ChosenSlot(l) ==
    CASE method = "box" -> BoxSlot(l)
      [] method = "attach" -> AttachSlot(l)
      [] method = "flow" -> FlowSlot(l)

\* archiver: the packet is added to the archive, the archive made if need be.
Pack ==
    /\ pc = "pack" /\ ~(method = "flow" /\ busy)
    /\ ChosenSlot(target) <= LastSlot
    /\ LET n == Named(target, ChosenSlot(target))
           old == IF arch[n] = None THEN {} ELSE arch[n].has
       IN  /\ name' = n
           /\ arch' = [arch EXCEPT ![n] =
                          [has |-> old \cup {tpack.id}, day |-> day]]
           /\ listed' = IF method = "box" THEN listed \cup {n} ELSE listed
    /\ make' = AttachMake(target)
    /\ crossed' = (crossed \/ (busy /\ There(target, ChosenSlot(target))))
    /\ disk' = [disk EXCEPT ![tpack.id] = "pkt"]
    /\ pc' = "unlink"
    /\ UNCHANGED <<conf, day, to, marks, flag, mailer, pkts, cur, type, busy,
                   bsyname, temp, fails, delivered, expired, used, cut>>

\* Bug: the packet is removed whether it was packed or not.
PackFailsUnlinks ==
    /\ pc = "pack" /\ ~(method = "flow" /\ busy) /\ ChosenSlot(target) <= LastSlot
    /\ fails < MaxFails /\ fails' = fails + 1
    /\ disk' = [disk EXCEPT ![tpack.id] = "none"]
    /\ pc' = "done"
    /\ UNCHANGED <<conf, day, to, arch, marks, listed, flag, mailer, pkts, cur,
                   type, busy, bsyname, chosen, temp, history>>

\* The archiver fails: the packet is renamed to .out and taken for sent.
PackFails ==
    /\ pc = "pack" /\ ~(method = "flow" /\ busy) /\ ChosenSlot(target) <= LastSlot
    /\ fails < MaxFails /\ fails' = fails + 1
    /\ disk' = [disk EXCEPT ![tpack.id] = "out"]
    /\ pc' = "done"
    /\ UNCHANGED <<conf, day, to, arch, marks, listed, flag, mailer, pkts, cur,
                   type, busy, bsyname, chosen, temp, history>>

\* archiver removes the packet itself, before anything names the archive.
Unlink ==
    /\ pc = "unlink"
    /\ disk' = [disk EXCEPT ![tpack.id] = "none"]
    /\ pc' = "mark"
    /\ UNCHANGED <<conf, day, to, arch, marks, listed, flag, mailer, pkts, cur,
                   type, busy, bsyname, chosen, temp, fails, history>>

\* Bug: no mark is left.
MarkNot ==
    /\ pc = "mark" /\ method # "attach"
    /\ pc' = IF method = "flow" THEN "list" ELSE "done"
    /\ UNCHANGED <<conf, day, files, flag, mailer, pkts, cur, type, busy, bsyname,
                   chosen, temp, fails, history>>

\* The slot is marked.
Mark ==
    /\ pc = "mark" /\ method # "attach"
    /\ marks' = marks \cup {name}
    /\ pc' = IF method = "flow" THEN "list" ELSE "done"
    /\ UNCHANGED <<conf, day, disk, to, arch, listed, flag, mailer, pkts, cur, type,
                   busy, bsyname, chosen, temp, fails, history>>

\* A message with the archive attached, if the archive is new.
Message ==
    /\ pc = "mark" /\ method = "attach"
    /\ listed' = IF make THEN listed \cup {name} ELSE listed
    /\ pc' = "done"
    /\ UNCHANGED <<conf, day, disk, to, arch, marks, flag, mailer, pkts, cur, type,
                   busy, bsyname, chosen, temp, fails, history>>

\* A line in the flow file, unless there is one; waits while the mailer reads.
List ==
    /\ pc = "list" /\ target \notin session
    /\ listed' = listed \cup {name}
    /\ pc' = "done"
    /\ UNCHANGED <<conf, day, disk, to, arch, marks, flag, mailer, pkts, cur, type,
                   busy, bsyname, chosen, temp, fails, history>>

NextPack ==
    /\ pc \in {"done", "left"}
    /\ pkts' = [pkts EXCEPT ![cur].sent = (pc = "done")]
    /\ RemoveFlag
    /\ cur' = cur + 1 /\ pc' = "next" /\ Forget
    /\ UNCHANGED <<conf, day, files, mailer, type, bsyname, temp, fails,
                   delivered, expired, used, cut>>

Attached ==
    /\ pc = "next" /\ cur > Len(pkts)
    /\ pc' = "run" /\ cur' = 1 /\ type' = 0
    /\ UNCHANGED <<conf, day, files, flag, mailer, pkts, busy, bsyname, chosen,
                   temp, fails, history>>

-----------------------------------------------------------------------------
(* killold, before the packets are taken up: no flag is looked at.         *)

Old(n) == Days > 0 /\ arch[n] # None /\ arch[n].has # {} /\ day - arch[n].day >= Days

\* The archive is removed first; the flow file is then written anew without
\* it and removed, or the message that had it attached is.
Kill(n) ==
    /\ pc = "idle" /\ Old(n)
    /\ arch' = [arch EXCEPT ![n] = None]
    /\ expired' = expired \cup arch[n].has
    /\ crossed' = (crossed \/ \E l \in Links : sending[l] # None /\ sending[l][1] = n)
    /\ name' = n /\ pc' = "edit"
    /\ UNCHANGED <<conf, day, disk, to, marks, listed, flag, mailer, pkts, cur, type,
                   busy, make, bsyname, temp, fails, delivered, used, cut>>

\* Bug: the other lines of the flow file are not copied.
EditDrops ==
    /\ pc = "edit"
    /\ listed' = IF conf.method[name[1]] = "flow"
                 THEN {n \in listed : n[1] # name[1]} ELSE listed \ {name}
    /\ pc' = "idle" /\ Forget
    /\ UNCHANGED <<conf, day, disk, to, arch, marks, flag, mailer, pkts, cur, type,
                   bsyname, temp, fails, history>>

Edit ==
    /\ pc = "edit"
    /\ IF conf.method[name[1]] = "flow"
       THEN LET flow == {n \in listed : n[1] = name[1]}
            IN  /\ temp' = flow \ {name}
                /\ listed' = listed \ flow
                /\ pc' = IF temp' = {} THEN "idle" ELSE "rename"
       ELSE listed' = listed \ {name} /\ temp' = temp /\ pc' = "idle"
    /\ Forget
    /\ UNCHANGED <<conf, day, disk, to, arch, marks, flag, mailer, pkts, cur, type,
                   bsyname, fails, history>>

Rename ==
    /\ pc = "rename"
    /\ listed' = listed \cup temp
    /\ temp' = {} /\ pc' = "idle"
    /\ UNCHANGED <<conf, day, disk, to, arch, marks, flag, mailer, pkts, cur, type,
                   busy, bsyname, chosen, fails, history>>

-----------------------------------------------------------------------------
(* A run cut short.                                                        *)

Stop ==
    /\ pc # "idle" /\ fails < MaxFails /\ fails' = fails + 1
    /\ pc' = "idle" /\ pkts' = <<>> /\ cur' = 1 /\ temp' = {} /\ cut' = TRUE
    /\ type' = 0 /\ bsyname' = None /\ Forget

\* The process is killed; its flag stays.
Killed ==
    /\ Stop
    /\ UNCHANGED <<conf, day, files, flag, mailer, delivered, expired, used, crossed>>

\* errexit (the flow file cannot be opened, no memory for the archiver)
\* removes the flag on its way out.
Errexit ==
    /\ pc \in {"pack", "mark", "list"} /\ Stop
    /\ RemoveFlag
    /\ UNCHANGED <<conf, day, files, mailer, delivered, expired, used>>

-----------------------------------------------------------------------------
(* The mailer and the rest of the world.                                   *)

Call(l) ==
    /\ l \notin session /\ flag[l] = "none"
    /\ flag' = [flag EXCEPT ![l] = "mailer"]
    /\ session' = session \cup {l}
    /\ UNCHANGED <<conf, day, files, sending, run, fails, history>>

Send(n) ==
    /\ n \in listed /\ n[1] \in session /\ sending[n[1]] = None
    /\ arch[n] # None /\ arch[n].has # {}
    /\ sending' = [sending EXCEPT ![n[1]] = <<n, arch[n].has>>]
    /\ UNCHANGED <<conf, day, files, flag, session, run, fails, history>>

\* What was sent is deleted, or truncated (TFS, or # in the flow file).
Sent(l) ==
    /\ sending[l] # None
    /\ LET n == sending[l][1]
       IN  /\ arch' = [arch EXCEPT ![n] =
                  IF @ # None /\ CASE conf.method[l] = "box" -> FALSE
                                    [] conf.method[l] = "attach" -> TRUE
                                    [] conf.method[l] = "flow" -> conf.trunc
                  THEN [has |-> {}, day |-> day] ELSE None]
           /\ listed' = listed \ {n}
           /\ used' = IF n[2] = day % Week /\ arch[n] # None /\ arch[n].day = day
                      THEN used \cup {n} ELSE used
    /\ delivered' = delivered \cup sending[l][2]
    /\ sending' = [sending EXCEPT ![l] = None]
    /\ UNCHANGED <<conf, day, disk, to, marks, flag, session, run, fails, expired,
                   crossed, cut>>

HangUp(l) ==
    /\ l \in session /\ sending[l] = None
    /\ session' = session \ {l}
    /\ flag' = [flag EXCEPT ![l] = IF @ = "mailer" THEN "none" ELSE @]
    /\ UNCHANGED <<conf, day, files, sending, run, fails, history>>

\* A flag left by a run that was killed is removed by hand or by the mailer.
Clear(l) ==
    /\ pc = "idle" /\ flag[l] = "own"
    /\ flag' = [flag EXCEPT ![l] = "none"]
    /\ UNCHANGED <<conf, day, files, mailer, run, fails, history>>

\* Midnight passes between runs.
Midnight ==
    /\ pc = "idle" /\ day < MaxDay
    /\ day' = day + 1 /\ used' = {}
    /\ UNCHANGED <<conf, files, flag, mailer, run, fails, delivered, expired,
                   crossed, cut>>

Makeattach ==
    Skip \/ CheckFlag \/ MakeFlag \/ Wait \/ Hang \/ Pack \/ PackFails \/ Unlink
    \/ Mark \/ Message \/ List \/ NextPack \/ Attached

Mailer == \E l \in Links : Call(l) \/ Sent(l) \/ HangUp(l) \/ \E n \in Names : Send(n)

Next ==
    \/ Begin \/ End
    \/ \E p \in Packets, l \in Links, touched \in BOOLEAN : Toss(p, l, touched)
    \/ \E t \in {0, 1} : MakeAttach(t)
    \/ Makeattach
    \/ \E n \in Names : Kill(n)
    \/ Edit \/ Rename \/ Killed \/ Errexit
    \/ Mailer
    \/ \E l \in Links : Clear(l)
    \/ Midnight

Spec == Init /\ [][Next]_vars

-----------------------------------------------------------------------------
(* Properties.                                                             *)

Contents == UNION {arch[n].has : n \in {m \in Names : arch[m] # None}}

(* No mail is lost on its way out, whatever fails and wherever a run is    *)
(* killed (makeattach, archiver, rrename): a packet is on disk, in an      *)
(* archive, sent, or was dropped by killold.  Only a mailer whose flag was *)
(* ignored or removed may delete what was added while it sent: killold     *)
(* ignores it when it removes an archive that is being sent, whose name    *)
(* makeattach may then give to a new one.                                  *)
NothingLost ==
    crossed \/
    \A p \in Packets :
        to[p] # None => disk[p] # "none" \/ p \in Contents \cup delivered \cup expired

(* When no run works and none was cut short, the mailer is told of every   *)
(* archive that has mail in it: whatever slot was taken, whatever killold  *)
(* did to the flow file or the messages (makeattach 831-1028, kill).       *)
Told ==
    pc \in {"idle", "run"} /\ ~cut /\ ~crossed =>
        \A n \in Names : arch[n] # None /\ arch[n].has # {} => n \in listed

\* The slots of today have run out for a link.
RunOut(l) == There(l, LastSlot) \/ Marked(l, LastSlot)

(* An archive is not added to while it is sent: a busy flag postpones the  *)
(* packet or makes it go to an archive of its own (makeattach 139-333).    *)
SentAsRead ==
    [][\A l \in Links :
        sending[l] # None /\ sending'[l] = sending[l] /\ ~crossed =>
            LET n == sending[l][1]
            IN  arch'[n] \in {arch[n], None} \/ RunOut(l)]_vars

\* An archive of an earlier day, of the same weekday, was not taken away.
Leftover(l) == \E s \in Slot : There(l, s) /\ Older(l, s)

(* The name of an archive that was made and sent today is not used again   *)
(* on the same day, for the other side to take it for the one it has,      *)
(* until the slots run out (the marks; makeattach 703-762, adjustname).    *)
(* An archive left from last week breaks that: reread2, once it has passed *)
(* over it, asks for archives and not for marks.                           *)
FreshNames ==
    [][\A n \in used :
        /\ ~cut /\ ~RunOut(n[1]) /\ ~Leftover(n[1])
        /\ arch[n] = None \/ arch[n].has = {}
        => arch'[n] = None \/ arch'[n].has = {}]_vars

(* doc/whats105.eng says that packets are no longer added to bundles that  *)
(* are a week old.  In a directory of the link's own an archive of an      *)
(* earlier day gets no more of them, until the slots run out (makeattach   *)
(* 493-581).  Elsewhere it may: adjustname, for attach, reads no date, and *)
(* reread2, once it has passed over a mark, none but the last.             *)
NoOldBundle ==
    [][\A n \in Names :
        /\ conf.method[n[1]] = "box"
        /\ arch[n] # None /\ arch'[n] # None /\ arch[n].has # {}
        /\ arch[n].day # day /\ ~RunOut(n[1])
        => arch'[n].has \subseteq arch[n].has]_vars
=============================================================================
