---------------------------- MODULE EchoManager ----------------------------
(***************************************************************************)
(* The area manager: server, doserv, changearea and changelink of          *)
(* partserv.cpp with createarea (partsqd.cpp) under them.                  *)
(*                                                                         *)
(* Links write netmail whose lines ask for areas.  A run compiles the      *)
(* configuration into tables (rlist and the chain of links), works through *)
(* the messages and rewrites every configuration file for each: into a     *)
(* temporary file first, then the file becomes .bak and the temporary file *)
(* takes its place.  An area that is asked for and does not exist is       *)
(* created if an uplink lists it, and the uplink is asked for it.  The     *)
(* tables are those of the start of the run, apart from what is appended   *)
(* for created areas.                                                      *)
(*                                                                         *)
(* Abstractions: texts of replies, lists and rules; read-only links; an    *)
(* area's line is what the manager looks at in it, and its links come      *)
(* after its flags.  The file of created areas is the last one.            *)
(***************************************************************************)
EXTENDS Integers, Sequences, FiniteSets, SequencesExt

CONSTANTS
    Areas, Groups, Passwords,
    Addresses,   \* numbers, in the order writearea sorts the links of a line
    Junk,        \* what memory that was freed may hold for an address
    None,
    \* configuration
    Starts,      \* the configurations a site may start with, see Config
    Uplinks,     \* a sequence of addresses: ManagerUpLink
    EchoLists,   \* what each lists, less what DeletedAreaList names
    Upper,       \* a group letter in upper case
    Garbage,     \* what memory that was never written may hold
    Default, DefaultPassthr,    \* the group of DefaultArea, and whether it is passthrough
    Gric,        \* GroupsIgnoreCase
    KillOrphan,  \* ManagerKillOrphan
    DelFiles, DelDays,
    Naming,      \* names of created bases: "renum", "next", "long"
    LongName,    \* the name of an area's base for "long"
    \* circumstances
    Letters,     \* the messages links write
    Orders,      \* the sysop's command lines, as messages
    NewAreas,    \* {<<area, sender>>}: mail in areas that do not exist
    \* bounds
    MaxLetters, MaxDay, MaxBase, MaxKills

Bases == 0 .. MaxBase
Files == 1 .. 2

\* A subscriber in a line; a line EchoArea or DeletedArea, with the flags -$ or without
\* them; a line Link.
Subscriber == [addr : Addresses, passive : BOOLEAN, deny : BOOLEAN]
Line == [area : Areas, kind : {"echo", "deleted"}, day : 0 .. MaxDay, group : Groups,
         passthr : BOOLEAN, base : Bases, flags : BOOLEAN, links : Seq(Subscriber)]
LinkLine == [addr : Addresses, manager : BOOLEAN, groups : Seq(Groups),
             noforward : BOOLEAN, autoadd : BOOLEAN, pw : Passwords]
Config == [areas : Seq(Line), links : Seq(LinkLine)]

\* One line of a message.
Command ==
         [op : {"area"}, area : Areas, where : 1 .. 4]      \* +A  A  -A  %Passive A  %Active A
    \cup [op : {"mask"}, areas : SUBSET Areas, where : 1 .. 4]  \* a mask or %All
    \cup [op : {"group"}, group : Groups, where : 1 .. 4]   \* %Group G
    \cup [op : {"password"}, pw : Passwords]                \* and %Packer, %PktSize, %PktPass
    \cup [op : {"address"}, addr : Addresses]
    \cup [op : {"rescan", "info", "end"}]
Letter == [from : Addresses, pw : Passwords, commands : Seq(Command)]

ASSUME EchoManagerAssumption ==
    /\ Addresses \subseteq Nat /\ Junk \in Addresses
    /\ Range(Uplinks) \subseteq Addresses \ {Junk} /\ EchoLists \in [Addresses -> SUBSET Areas]
    /\ Upper \in [Groups -> Groups] /\ Garbage \subseteq Groups \cup {None}
    /\ {Gric, KillOrphan, DelFiles, DefaultPassthr} \subseteq BOOLEAN
    /\ Letters \subseteq Letter /\ Orders \subseteq Letter
    /\ {MaxLetters, MaxDay, MaxBase, MaxKills, DelDays} \subseteq Nat

VARIABLES
    conf, bak, tmp,     \* the files: as they are, .bak, being written
    files,              \* bases that exist on disk
    mail,               \* the messages to the manager
    today,
    pc,
    \* the tables of a run
    rlist,              \* the compiled areas, in order
    chain,              \* bcfg.links: the Link lines, and whether written
    \* the message being handled
    m, k,               \* which, and the command in it
    bl, mfnode,         \* its link in chain; the address it asks for
    tblink, linkchg,
    areas,              \* the areas asked for
    uareas,             \* what has to be asked of uplinks
    seen,               \* the messages there were when server read the directory
    f, n,               \* the file being rewritten, the lines of it that are done
    t,                  \* the area being looked at
    \* history variables, not part of the program
    asked,              \* what uplinks were asked
    owed,               \* what they have to be asked
    proxied,            \* %Address was used in this run
    kills

disk == <<conf, bak, tmp, files>>
tables == <<rlist, chain>>
message == <<m, k, bl, mfnode, tblink, linkchg, areas, uareas>>
place == <<seen, f, n, t>>
history == <<asked, owed, proxied, kills>>
vars == <<disk, mail, today, pc, tables, message, place, history>>

Request == [area : Areas, where : 1 .. 4, wild : BOOLEAN, found : 0 .. 8]
Asking == [area : Areas, to : Addresses, where : {1, 2}]
Compiled == [area : Areas, type : {1, 9}, index : Groups \cup {None}, group : Groups,
             passthr : BOOLEAN, base : Bases, links : Seq(Subscriber)]

TypeOK ==
    /\ \A i \in Files : {conf[i], tmp[i], bak[i]} \subseteq Config \cup {None}
    /\ files \subseteq Bases /\ today \in 0 .. MaxDay
    /\ mail \in Seq((Letters \cup Orders) \X {"new", "hand", "done"}) /\ Len(mail) <= MaxLetters
    /\ pc \in {"off", "toss", "serve", "commands", "areas", "areasnew", "forward",
               "ask", "link", "linkold", "linknew", "mark"}
    /\ rlist \in Seq(Compiled)
    /\ chain \in Seq([line : LinkLine, written : BOOLEAN])
    /\ m \in 0 .. MaxLetters /\ k \in Nat /\ bl \in 0 .. Len(chain)
    /\ mfnode \in Addresses \cup {None} /\ linkchg \in BOOLEAN
    /\ tblink \in [line : LinkLine, written : BOOLEAN] \cup {None}
    /\ areas \in Seq(Request) /\ uareas \in Seq(Asking)
    /\ seen \in 0 .. Len(mail) /\ f \in Files \cup {0} /\ n \in Nat /\ t \in 0 .. Len(areas) + 1
    /\ asked \subseteq Asking /\ owed \subseteq Asking
    /\ proxied \in BOOLEAN /\ kills \in 0 .. MaxKills

Lines == conf[1].areas \o conf[2].areas

NoMessage ==
    /\ m' = 0 /\ k' = 0 /\ bl' = 0 /\ mfnode' = None /\ tblink' = None /\ linkchg' = FALSE
    /\ areas' = <<>> /\ uareas' = <<>>

Init ==
    /\ conf \in Starts
    /\ bak = [i \in Files |-> None] /\ tmp = [i \in Files |-> None]
    /\ files = {l.base : l \in {l \in Range(Lines) : l.kind = "deleted"}}
    /\ mail = <<>> /\ today = 0
    /\ pc = "off" /\ rlist = <<>> /\ chain = <<>>
    /\ m = 0 /\ k = 0 /\ bl = 0 /\ mfnode = None /\ tblink = None /\ linkchg = FALSE
    /\ areas = <<>> /\ uareas = <<>> /\ seen = 0 /\ f = 0 /\ n = 0 /\ t = 0
    /\ asked = {} /\ owed = {} /\ proxied = FALSE /\ kills = 0

-----------------------------------------------------------------------------
(* The world. *)

\* Readers and links (what comes while a message is handled is met after it), the
\* calendar, and the sysop who finds a configuration file missing and takes the .bak.
Send(l) ==
    /\ pc \in {"off", "serve"} /\ Len(mail) < MaxLetters
    /\ mail' = Append(mail, <<l, "new">>)
    /\ UNCHANGED <<disk, today, pc, tables, message, place, history>>

NextDay ==
    /\ pc = "off" /\ today < MaxDay
    /\ today' = today + 1
    /\ UNCHANGED <<disk, mail, pc, tables, message, place, history>>

Repair(i) ==
    /\ pc = "off" /\ conf[i] = None
    /\ conf' = [conf EXCEPT ![i] = bak[i]]
    /\ UNCHANGED <<bak, tmp, files, mail, today, pc, tables, message, place, history>>

\* The process is killed: what is on disk stays.  A temporary file that is left
\* over is emptied before it is written again.
Gone ==
    /\ pc' = "off" /\ rlist' = <<>> /\ chain' = <<>> /\ seen' = 0 /\ f' = 0 /\ n' = 0 /\ t' = 0 /\ NoMessage
    /\ tmp' = [i \in Files |-> None]
    /\ asked' = {} /\ owed' = {} /\ proxied' = FALSE
    /\ UNCHANGED <<conf, bak, files, mail, today>>

Kill ==
    /\ pc # "off" /\ kills < MaxKills
    /\ kills' = kills + 1
    /\ Gone

-----------------------------------------------------------------------------
(* Groups, tables. *)

\* strchr, or strichr with GroupsIgnoreCase, in the groups of a link.  strchr
\* finds the character 0 at the end of every string.
Own(b, g) ==
    \/ g = None
    \/ \E h \in Range(b.line.groups) : IF Gric THEN Upper[h] = Upper[g] ELSE h = g

SameGroup(g, h) == g # None /\ h # None /\ Upper[g] = Upper[h]

\* The first entry of the table with this name.
Rec(a) == SelectSeq(rlist, LAMBDA r : r.area = a)[1]
Known(a) == \E r \in Range(rlist) : r.area = a

\* The first link with this address, 0 if none.
LinkAt(addr) == SelectInSeq(chain, LAMBDA b : b.line.addr = addr)
Blink == chain[LinkAt(mfnode)]

\* The links of a line that the compiler of the tables takes: of a DeletedArea only
\* those written without -x, -y and -z.
TableLinks(l) ==
    IF l.kind = "echo" THEN l.links
    ELSE SelectSeq(l.links, LAMBDA x : ~x.passive /\ ~x.deny)

\* runmainset and partset: a run begins.
Run ==
    /\ pc = "off" /\ \A i \in Files : conf[i] # None
    /\ rlist' = [i \in 1 .. Len(Lines) |->
                    LET l == Lines[i]
                    IN  [area |-> l.area, type |-> IF l.kind = "echo" THEN 1 ELSE 9,
                         index |-> l.group, group |-> l.group, passthr |-> l.passthr,
                         base |-> l.base, links |-> TableLinks(l)]]
    /\ LET links == conf[1].links \o conf[2].links
        IN  chain' = [i \in 1 .. Len(links) |-> [line |-> links[i], written |-> FALSE]]
    /\ pc' = "toss"
    /\ UNCHANGED <<disk, mail, today, message, place, history>>

-----------------------------------------------------------------------------
(* createarea. *)

\* Bug: only the files on disk are looked at.
FreeBaseOnDisk(a) ==
    CASE Naming = "renum" -> {b \in Bases : b \notin files /\ \A c \in 0 .. b - 1 : c \in files}
      [] Naming = "next" -> {b \in Bases : b \notin files /\ \A c \in 0 .. b - 1 : c \in files}
      [] OTHER -> {LongName[a]}

\* The name of the new base, none when the numbers are used up.  "renum": the
\* first number no area has and no file; otherwise the first without a file
\* after the largest an area has; LongFileNames: made of the area's name, and
\* what is looked for on disk is the name without an extension.
FreeBase(a) ==
    LET used == {r.base : r \in Range(rlist)}
        after == {b \in Bases : \A u \in used : u < b} \ files
        least(S) == {b \in S : \A c \in S : b <= c}
    IN  CASE Naming = "renum" -> least(Bases \ (used \cup files))
          [] Naming = "next" -> least(after)
          [] OTHER -> {LongName[a]}

\* The links of a line as they are written: sorted, and -z has become -xy.
Written(links) ==
    SortSeq([i \in DOMAIN links |->
                [links[i] EXCEPT !.passive = @ \/ links[i].deny, !.deny = FALSE]],
            LAMBDA x, y : x.addr < y.addr)

Subscribed(addr) == [addr |-> addr, passive |-> FALSE, deny |-> FALSE]

\* A base, an entry of the table and a line at the end of the last file.  The
\* entry's group is never written (anew comes from malloc), its links are freed
\* once the line is written.
Create(a, group, passthr, addrs, base) ==
    LET links == [i \in DOMAIN addrs |-> Subscribed(addrs[i])]
        line == [area |-> a, kind |-> "echo", day |-> 0, group |-> group, passthr |-> passthr,
                 base |-> base, flags |-> TRUE, links |-> Written(links)]
    IN  /\ conf' = [conf EXCEPT ![2].areas = Append(@, line)]
        /\ \E g \in Garbage, freed \in {links, [i \in DOMAIN links |-> Subscribed(Junk)]} :
              rlist' = Append(rlist, [area |-> a, type |-> 1, index |-> g, group |-> group,
                                      passthr |-> passthr, base |-> base, links |-> freed])

\* The links and the group of an area its first message creates: the sender,
\* those with automatic subscription, the sender's first group if it has not
\* the default one.
Autolinks(u) ==
    FoldLeft(LAMBDA acc, b :
                IF b.line.addr = u
                THEN IF b.line.groups # <<>> /\ ~Own(b, acc.group)
                     THEN [acc EXCEPT !.group = b.line.groups[1]] ELSE acc
                ELSE IF b.line.autoadd /\ Own(b, acc.group)
                     THEN [acc EXCEPT !.addrs = Append(@, b.line.addr)] ELSE acc,
             [addrs |-> <<u>>, group |-> Default], chain)

\* The tosser meets a message in an area there is not.
Autocreate(a, u) ==
    /\ pc = "toss" /\ ~Known(a)
    /\ \E base \in FreeBase(a) :
          Create(a, Autolinks(u).group, DefaultPassthr, Autolinks(u).addrs, base)
    /\ UNCHANGED <<bak, tmp, files, mail, today, pc, chain, message, place, history>>

\* The tosser stores a message in an area.
Store(r) ==
    /\ pc = "toss" /\ r.type = 1 /\ ~r.passthr /\ r.base \notin files
    /\ files' = files \cup {r.base}
    /\ UNCHANGED <<conf, bak, tmp, mail, today, pc, tables, message, place, history>>

\* The tosser is done, server reads the directory; or it has handled what it
\* found there.
Serve ==
    /\ pc = "toss"
    /\ pc' = "serve" /\ seen' = Len(mail)
    /\ UNCHANGED <<disk, mail, today, tables, message, f, n, t, history>>

Stop ==
    /\ pc = "serve" /\ \A i \in 1 .. seen : mail[i][2] # "new"
    /\ pc' = "off" /\ rlist' = <<>> /\ chain' = <<>> /\ seen' = 0
    /\ asked' = {} /\ proxied' = FALSE
    /\ UNCHANGED <<disk, mail, today, message, f, n, t, owed, kills>>

-----------------------------------------------------------------------------
(* A message: who wrote it, and its lines. *)

Begin(i, l) ==
    /\ m' = i /\ k' = 1 /\ bl' = LinkAt(l.from) /\ mfnode' = l.from
    /\ tblink' = chain[LinkAt(l.from)]
    /\ pc' = "commands"
    /\ asked' = {}
    /\ UNCHANGED <<disk, today, tables, linkchg, areas, uareas, place, owed, proxied,
                   kills>>

Authentic(l) == LinkAt(l.from) # 0 /\ chain[LinkAt(l.from)].line.pw = l.pw

Open(i) ==
    /\ pc = "serve" /\ mail[i][2] = "new" /\ Authentic(mail[i][1])
    /\ Begin(i, mail[i][1])
    /\ UNCHANGED mail

\* "Wrong password!", "Unknown link!"
Refuse(i) ==
    /\ pc = "serve" /\ mail[i][2] = "new" /\ ~Authentic(mail[i][1])
    /\ m' = i /\ pc' = "mark"
    /\ UNCHANGED <<disk, mail, today, tables, k, bl, mfnode, tblink, linkchg, areas, uareas,
                   place, history>>

\* handyman: the sysop's command line is a message of the link it names.
Hand(l) ==
    /\ pc = "toss" /\ Len(mail) < MaxLetters /\ LinkAt(l.from) # 0
    /\ mail' = Append(mail, <<l, "hand">>)
    /\ Begin(Len(mail) + 1, l)

\* addsarea: an area that was asked for before is asked for anew.
Plea(a, where, wild) == [area |-> a, where |-> where, wild |-> wild, found |-> 0]
RequestFor(reqs, a) == SelectInSeq(reqs, LAMBDA r : r.area = a)

Add(reqs, a, where) ==
    LET i == RequestFor(reqs, a)
    IN  IF i = 0 THEN Append(reqs, Plea(a, where, FALSE))
        ELSE [reqs EXCEPT ![i] = Plea(a, where, FALSE)]

\* Every area of the table that passes the test, in its order.
AddAll(reqs, Test(_), where) ==
    LET meant == SelectSeq(rlist, LAMBDA r : r.type = 1 /\ Test(r))
        more == SelectSeq(meant, LAMBDA r : RequestFor(reqs, r.area) = 0)
    IN  [i \in DOMAIN reqs |->
            IF \E r \in Range(meant) : r.area = reqs[i].area
            THEN Plea(reqs[i].area, where, TRUE) ELSE reqs[i]]
        \o [i \in DOMAIN more |-> Plea(more[i].area, where, TRUE)]

OwnAreas(reqs, where) == AddAll(reqs, LAMBDA r : Own(chain[bl], r.index), where)

AddGroup(reqs, g, where) ==
    IF Own(chain[bl], g) THEN AddAll(reqs, LAMBDA r : SameGroup(r.index, g), where) ELSE reqs

command == mail[m][1].commands[k]
HasCommand(op) ==
    pc = "commands" /\ k <= Len(mail[m][1].commands) /\ command.op = op

\* +A, -A, masks, +%All, -%Group and the like.
Subscribe ==
    /\ \E op \in {"area", "mask", "group"} : HasCommand(op)
    /\ command.where \in {1, 2}
    /\ areas' =
          CASE command.op = "area" -> Add(areas, command.area, command.where)
            [] command.op = "mask" ->
                  AddAll(areas, LAMBDA r : r.area \in command.areas /\ Own(chain[bl], r.index),
                         command.where)
            [] command.op = "group" -> AddGroup(areas, command.group, command.where)
    /\ k' = k + 1
    /\ UNCHANGED <<disk, mail, today, pc, tables, m, bl, mfnode, tblink, linkchg, uareas,
                   place, history>>

\* %Passive and %Active: one area if there is one of that name.  A group falls
\* through to all areas, like a name that is not found, or a mask.
Suspend ==
    /\ \E op \in {"area", "mask", "group"} : HasCommand(op)
    /\ command.where \in {3, 4}
    /\ areas' =
          IF command.op = "area" /\ \E r \in Range(rlist) : r.type = 1 /\ r.area = command.area
          THEN Add(areas, command.area, command.where)
          ELSE OwnAreas(IF command.op = "group"
                        THEN AddGroup(areas, command.group, command.where) ELSE areas,
                        command.where)
    /\ k' = k + 1
    /\ UNCHANGED <<disk, mail, today, pc, tables, m, bl, mfnode, tblink, linkchg, uareas,
                   place, history>>

SetPassword ==
    /\ HasCommand("password")
    /\ tblink' = [tblink EXCEPT !.line.pw = command.pw] /\ linkchg' = TRUE
    /\ k' = k + 1
    /\ UNCHANGED <<disk, mail, today, pc, tables, m, bl, mfnode, areas, uareas, place, history>>

\* %Address: the address in the manager's own entry of the chain is overwritten.
Address ==
    /\ HasCommand("address")
    /\ IF chain[bl].line.manager
       THEN LET changed == [chain EXCEPT ![bl].line.addr = command.addr]
                first == SelectInSeq(changed, LAMBDA b : b.line.addr = command.addr)
            IN  /\ chain' = changed /\ mfnode' = command.addr
                /\ tblink' = [changed[bl] EXCEPT !.line.manager = changed[first].line.manager]
                /\ proxied' = TRUE
       ELSE UNCHANGED <<chain, mfnode, tblink, proxied>>
    /\ k' = k + 1
    /\ UNCHANGED <<disk, mail, today, pc, rlist, m, bl, linkchg, areas, uareas, place, asked,
                   owed, kills>>

\* %Help, %List, %Links, %Status ... are answered at once, %Rescan is for scanbase.
Inform ==
    /\ \E op \in {"info", "rescan"} : HasCommand(op)
    /\ k' = k + 1
    /\ UNCHANGED <<disk, mail, today, pc, tables, m, bl, mfnode, tblink, linkchg, areas, uareas,
                   place, history>>


\* The link's entry takes the options that were asked for, its line is next.
Options ==
    IF linkchg THEN pc' = "link" /\ f' = 1 /\ chain' = [chain EXCEPT ![bl] = tblink]
    ELSE pc' = "mark" /\ UNCHANGED <<f, chain>>

\* "---", a tear line, an origin, or the end of the text: the areas asked for, then
\* the options of the link.
Finish ==
    /\ pc = "commands" /\ (HasCommand("end") \/ k > Len(mail[m][1].commands))
    /\ IF areas # <<>> THEN pc' = "areas" /\ f' = 1 /\ UNCHANGED chain ELSE Options
    /\ UNCHANGED <<disk, mail, today, rlist, m, k, bl, mfnode, tblink, linkchg, areas, uareas,
                   seen, n, t, history>>

-----------------------------------------------------------------------------
(* chareacfg: a file is rewritten for the areas asked for, line by line.  s.out *)
(* is what has been written, s.reqs and s.asks the lists areas and uareas,      *)
(* s.gone the bases removed; s.dead: the process dies.                          *)

Keep(s, l) == [s EXCEPT !.out = Append(@, l)]

\* What follows -$ in a line writearea writes anew from the table.  A line without it
\* stays as it is, and the request is answered all the same.
Redo(l, links) ==
    IF ~l.flags THEN l
    ELSE [l EXCEPT !.links = Written(links), !.group = Rec(l.area).group,
                   !.passthr = Rec(l.area).passthr]

\* ManagerKillOrphan applies, with ManagerUpLink and without +U for the link.
Orphanage(r) == KillOrphan /\ Uplinks # <<>> /\ ~Blink.line.noforward /\ r.passthr

\* delorphn: the line becomes a DeletedArea and its first link is told, if it is
\* an uplink; without a link the process dies.
Orphan(s, l, links) ==
    IF links = <<>> THEN [s EXCEPT !.dead = TRUE]
    ELSE [s EXCEPT
            !.out = Append(@, [Redo(l, links) EXCEPT !.kind = "deleted", !.day = today]),
            !.asks = IF links[1].addr \in Range(Uplinks)
                     THEN Append(@, [area |-> l.area, to |-> links[1].addr, where |-> 2]) ELSE @]

\* An area nobody asked for, or where nothing is to be done: whether it is an
\* orphan the table says, as it was when the run began.
\* Bug: the uplink is told only of areas somebody left.
UnaskedQuiet(s, l) ==
    IF Orphanage(Rec(l.area)) /\ Len(Rec(l.area).links) <= 1
    THEN [Orphan(s, l, Rec(l.area).links) EXCEPT !.asks = s.asks] ELSE Keep(s, l)

Unasked(s, l) ==
    IF Orphanage(Rec(l.area)) /\ Len(Rec(l.area).links) <= 1
    THEN Orphan(s, l, Rec(l.area).links) ELSE Keep(s, l)

\* The links of a line when the request is granted.
\* Bug: all links of the area become passive.
ChangedAll(links, where) ==
    CASE where = 1 -> Append(links, Subscribed(mfnode))
      [] where = 2 -> SelectSeq(links, LAMBDA x : x.addr # mfnode)
      [] OTHER -> [i \in DOMAIN links |-> [links[i] EXCEPT !.passive = (where = 3)]]

Changed(links, where) ==
    CASE where = 1 -> Append(links, Subscribed(mfnode))
      [] where = 2 -> SelectSeq(links, LAMBDA x : x.addr # mfnode)
      [] OTHER -> [i \in DOMAIN links |->
                     IF links[i].addr = mfnode THEN [links[i] EXCEPT !.passive = (where = 3)]
                     ELSE links[i]]

\* Nothing to be done: linked already, not linked, passive or active already.
Granted(mine, where) ==
    \/ where = 1 /\ mine # {}
    \/ where = 2 /\ mine = {}
    \/ where = 3 /\ \A x \in mine : x.passive
    \/ where = 4 /\ \A x \in mine : ~x.passive

Grant(s, l, where) ==
    LET new == Changed(l.links, where)
    IN  IF Orphanage(Rec(l.area)) /\ Len(new) = 1 THEN Orphan(s, l, new)
        ELSE Keep(s, Redo(l, new))

\* Answered already in this pass; an area that was restored (6) is met once more.
\* Bug: the link is not subscribed to the area it had restored.
AnsweredRestored(found) == found \in {1, 6, 7}
Answered(found) == found \in {1, 7}

\* An area of a group the link has not.  One that a mask took in is passed over, and
\* its line with it.
\* Bug: the line is passed over even if the area was named.
ForeignPassed(s, l, wild) == s
Foreign(s, l, wild) == IF wild THEN s ELSE Keep(s, l)

EchoLine(s, l) ==
    LET i == RequestFor(s.reqs, l.area)
        q == s.reqs[i]
        met == [s EXCEPT !.reqs[i].found = CASE @ = 6 -> 7 [] @ = 0 -> 1 [] OTHER -> @]
        mine == {x \in Range(l.links) : x.addr = mfnode}
    IN  CASE i = 0 -> Unasked(s, l)
          [] i # 0 /\ Answered(q.found) -> Keep(s, l)
          [] i # 0 /\ ~Answered(q.found) ->
                IF \E x \in mine : x.deny THEN Keep(met, l)
                ELSE IF ~Own(Blink, Rec(l.area).group)
                THEN Foreign(met, l, q.wild)
                ELSE IF Granted(mine, q.where) THEN Unasked(met, l)
                ELSE Grant(met, l, q.where)

Expired(l) == today - l.day > DelDays

\* delkill: the line is not written, the base of the first area of this name goes.
Drop(s, l) == IF DelFiles THEN [s EXCEPT !.gone = @ \cup {Rec(l.area).base}] ELSE s

DeletedLine(s, l) ==
    LET i == RequestFor(s.reqs, l.area)
        found == IF i = 0 THEN 0 ELSE s.reqs[i].found
        Met(x) == [s EXCEPT !.reqs[i].found = x]
    IN  CASE found = 0 /\ Expired(l) -> Drop(s, l)
          [] found = 0 /\ ~Expired(l) -> IF i = 0 THEN Keep(s, l) ELSE Keep(Met(2), l)
          [] found \in {1, 2, 8} -> Keep(s, l)
          [] found = 3 -> Keep(Met(5), [l EXCEPT !.kind = "echo", !.day = 0])
          [] found = 4 -> Drop(s, l)
          [] OTHER -> s

AreaLine(s, l) ==
    IF l.kind = "echo" THEN EchoLine(s, l) ELSE DeletedLine(s, l)

sofar == IF tmp[f] = None THEN <<>> ELSE tmp[f].areas
chareacfg ==
    AreaLine([out |-> sofar, reqs |-> areas, asks |-> uareas, gone |-> {}, dead |-> FALSE], conf[f].areas[n + 1])

Rewriting == pc = "areas" /\ n < Len(conf[f].areas)
Rewritten == pc = "areas" /\ n = Len(conf[f].areas)

Rewrite ==
    /\ Rewriting /\ ~chareacfg.dead
    /\ tmp' = [tmp EXCEPT ![f] = [areas |-> chareacfg.out, links |-> conf[f].links]]
    /\ areas' = chareacfg.reqs /\ uareas' = chareacfg.asks
    /\ files' = files \ chareacfg.gone
    /\ n' = n + 1
    /\ UNCHANGED <<conf, bak, mail, today, pc, tables, m, k, bl, mfnode, tblink, linkchg, seen,
                   f, t, history>>

\* The file becomes .bak, the temporary file becomes the file, which may be killed
\* in between; then the next file.
RenameOld ==
    /\ Rewritten \/ pc = "linkold"
    /\ bak' = [bak EXCEPT ![f] = conf[f]] /\ conf' = [conf EXCEPT ![f] = None]
    /\ tmp' = [tmp EXCEPT ![f] = IF @ = None THEN conf[f] ELSE @]
    /\ pc' = IF pc = "areas" THEN "areasnew" ELSE "linknew"
    /\ n' = 0
    /\ UNCHANGED <<files, mail, today, tables, message, seen, f, t, history>>

\* The links of a new line that take the area's mail; in a line without flags the
\* one that left is still there.
Takers(x) ==
    SelectSeq(x.links, LAMBDA y :
        /\ ~y.passive /\ ~y.deny
        /\ x.flags \/ y.addr # mfnode \/ ~\E r \in Range(areas) : r.area = x.area /\ r.where = 2)

\* What the change of a file obliges to: to leave an area that became an orphan,
\* to join one that was restored.
Obliged(old, new) ==
    {[area |-> x.area, to |-> Takers(x)[1].addr, where |-> IF x.kind = "echo" THEN 1 ELSE 2] :
       x \in {x \in new : /\ \E l \in old : l.area = x.area /\ l.base = x.base /\ l.kind # x.kind
                        /\ Takers(x) # <<>> /\ Takers(x)[1].addr \in Range(Uplinks)}}

RenameNew ==
    /\ pc \in {"areasnew", "linknew"}
    /\ conf' = [conf EXCEPT ![f] = tmp[f]] /\ tmp' = [tmp EXCEPT ![f] = None]
    /\ owed' = owed \cup Obliged(Range(bak[f].areas), Range(tmp[f].areas))
    /\ IF f < 2
       THEN f' = f + 1 /\ pc' = (IF pc = "areasnew" THEN "areas" ELSE "link") /\ UNCHANGED t
       ELSE IF pc = "areasnew" THEN pc' = "forward" /\ t' = 1 /\ UNCHANGED f
            ELSE pc' = "mark" /\ UNCHANGED <<f, t>>
    /\ UNCHANGED <<bak, files, mail, today, tables, message, seen, n, asked, proxied, kills>>

-----------------------------------------------------------------------------
(* changearea, after the files: areas that are not there, or were deleted.     *)

q == areas[t]
Looking == pc = "forward" /\ t <= Len(areas)
MayForward == q.where = 1 /\ ~Blink.line.noforward /\ Uplinks # <<>>

\* The uplink that feeds a deleted area and still lists it; the first that lists it.
Home(a) ==
    LET links == Rec(a).links
    IN  {links[i].addr : i \in {i \in {1} \cap DOMAIN links :
                                  /\ links[i].addr \in Range(Uplinks)
                                  /\ a \in EchoLists[links[i].addr]}}
Offer(a) == SelectInSeq(Uplinks, LAMBDA u : a \in EchoLists[u])

\* Every file is rewritten again, for all the areas of the message.
Again(found) ==
    /\ areas' = [areas EXCEPT ![t].found = found] /\ pc' = "areas" /\ f' = 1

\* A deleted area whose uplink still has it is restored; another is killed, to be
\* created anew from the uplink that has it.
Restore ==
    /\ Looking /\ MayForward /\ q.found = 2 /\ Rec(q.area).links # <<>>
    /\ IF Home(q.area) # {} THEN Again(3) ELSE Offer(q.area) # 0 /\ Again(4)
    /\ UNCHANGED <<disk, mail, today, tables, m, k, bl, mfnode, tblink, linkchg, uareas, seen, n,
                   t, history>>

Ask(a, u) == uareas' = Append(uareas, [area |-> a, to |-> u, where |-> 1])

\* A restored area: its uplink is asked, and the link subscribed in one more pass.
AskAgain ==
    /\ Looking /\ MayForward /\ q.found = 5
    /\ \E u \in Home(q.area) : Ask(q.area, u)
    /\ Again(6)
    /\ UNCHANGED <<disk, mail, today, tables, m, k, bl, mfnode, tblink, linkchg, seen, n, t,
                   history>>

CreateNew ==
    /\ Looking /\ MayForward /\ q.found \in {0, 4} /\ Offer(q.area) # 0
    /\ LET u == Uplinks[Offer(q.area)]
       IN  /\ Ask(q.area, u)
           /\ \E base \in FreeBase(q.area) :
                 Create(q.area, Default, TRUE, IF u = mfnode THEN <<u>> ELSE <<u, mfnode>>, base)
           /\ owed' = owed \cup {[area |-> q.area, to |-> u, where |-> 1]}
    /\ areas' = [areas EXCEPT ![t].found = 7] /\ t' = t + 1
    /\ UNCHANGED <<bak, tmp, files, mail, today, pc, chain, m, k, bl, mfnode, tblink, linkchg, seen,
                   f, n, asked, proxied, kills>>

\* Dealt with, or "Area not found".
Pass ==
    /\ Looking
    /\ \/ ~MayForward
       \/ q.found \in {1, 6, 7, 8}
       \/ q.found \in {0, 4} /\ Offer(q.area) = 0
       \/ q.found = 2 /\ Rec(q.area).links # <<>> /\ Home(q.area) = {} /\ Offer(q.area) = 0
    /\ areas' = [areas EXCEPT ![t].found = IF @ = 2 THEN 8 ELSE @]
    /\ t' = t + 1
    /\ UNCHANGED <<disk, mail, today, pc, tables, m, k, bl, mfnode, tblink, linkchg, uareas, seen, f,
                   n, history>>

\* Uplinks are written to, each about all that concerns it; then the link's options.
Forward ==
    /\ pc = "forward" /\ t > Len(areas)
    /\ asked' = asked \cup Range(uareas) /\ uareas' = <<>>
    /\ Options
    /\ UNCHANGED <<disk, mail, today, rlist, m, k, bl, mfnode, tblink, linkchg, areas, seen, n, t,
                   owed, proxied, kills>>

\* The process dies: an area without links is an orphan or was deleted, the
\* numbers of bases are used up ("AutoCreate overflow").
Die ==
    /\ \/ Rewriting /\ chareacfg.dead
       \/ Looking /\ MayForward /\ q.found = 2 /\ Rec(q.area).links = <<>>
       \/ /\ Looking /\ MayForward /\ q.found \in {0, 4} /\ Offer(q.area) # 0
          /\ FreeBase(q.area) = {}
    /\ Gone /\ UNCHANGED kills

-----------------------------------------------------------------------------
(* changelink, and the end of a message.                                       *)

\* chlinkcfg: the first line of the link, once in a run.
RewriteLinks ==
    /\ pc = "link"
    /\ LET b == chain[bl]
           i == SelectInSeq(conf[f].links, LAMBDA l : l.addr = b.line.addr)
       IN  IF i = 0 \/ b.written THEN tmp' = [tmp EXCEPT ![f] = conf[f]] /\ UNCHANGED chain
           ELSE /\ tmp' = [tmp EXCEPT ![f] = [conf[f] EXCEPT !.links[i] = b.line]]
                /\ chain' = [chain EXCEPT ![bl].written = TRUE]
    /\ pc' = "linkold"
    /\ UNCHANGED <<conf, bak, files, mail, today, rlist, message, place, history>>

\* Received is set in the message, or it is deleted.
\* Bug: not set in a message that asked for nothing.
MarkSome ==
    /\ pc = "mark"
    /\ mail' = [mail EXCEPT ![m][2] = IF areas = <<>> THEN @ ELSE "done"]
    /\ pc' = IF mail[m][2] = "hand" THEN "toss" ELSE "serve"
    /\ f' = 0 /\ t' = 0 /\ NoMessage
    /\ asked' = {} /\ owed' = {}
    /\ UNCHANGED <<disk, today, tables, seen, n, proxied, kills>>

Mark ==
    /\ pc = "mark"
    /\ mail' = [mail EXCEPT ![m][2] = "done"]
    /\ pc' = IF mail[m][2] = "hand" THEN "toss" ELSE "serve"
    /\ f' = 0 /\ t' = 0 /\ NoMessage
    /\ asked' = {} /\ owed' = {}
    /\ UNCHANGED <<disk, today, tables, seen, n, proxied, kills>>

-----------------------------------------------------------------------------
Manage ==
    \/ Run \/ Serve \/ Stop \/ \E i \in 1 .. Len(mail) : Open(i) \/ Refuse(i)
    \/ Subscribe \/ Suspend \/ SetPassword \/ Address \/ Inform \/ Finish
    \/ Rewrite \/ RenameOld \/ RenameNew
    \/ Restore \/ AskAgain \/ CreateNew \/ Pass \/ Forward \/ Die \/ RewriteLinks \/ Mark

Next ==
    \/ \E l \in Letters : Send(l)
    \/ \E l \in Orders : Hand(l)
    \/ NextDay \/ Kill \/ \E i \in Files : Repair(i)
    \/ \E x \in NewAreas : Autocreate(x[1], x[2])
    \/ \E r \in Range(rlist) : Store(r)
    \/ Manage

Spec == Init /\ [][Next]_vars

\* A run goes on unless it is killed, and the site keeps making runs.  server's loop
\* over the directory leaves no message out that it met (Stop).
Fairness == WF_vars(Manage)

FairSpec == Spec /\ Fairness

-----------------------------------------------------------------------------
(* Properties. *)

\* chareacfg loses no area: while a file is about to be replaced every line of it
\* is in the new one, except a DeletedArea that expired or is replaced, and an area
\* of another group that a mask took in.
LinesKept ==
    Rewritten =>
        \A l \in Range(conf[f].areas) :
            \/ \E x \in Range(sofar) : x.area = l.area /\ x.base = l.base
            \/ l.kind = "deleted" /\ (Expired(l) \/ RequestFor(areas, l.area) # 0)
            \/ \E r \in Range(areas) :
                   r.area = l.area /\ r.wild /\ ~Own(Blink, Rec(l.area).group)

\* chareacfg changes nobody's subscription but that of the link that asked, and
\* makes an area a DeletedArea only when one link is left in it or in the table.
Others(l) == {[x EXCEPT !.deny = FALSE, !.passive = @ \/ x.deny] :
                x \in {x \in Range(l.links) : x.addr # mfnode}}
OthersKept ==
    Rewritten =>
        \A l \in Range(conf[f].areas), x \in Range(sofar) :
            (l.area = x.area /\ l.base = x.base) =>
                \/ Others(l) = Others(x)
                \/ x.kind = "deleted" /\ Len(Rec(l.area).links) <= 1

\* A link that is told its request was carried out finds it carried out: at the end
\* of a message the lines of the areas it named have the subscription it asked for,
\* if they have the flags -$ behind which links are written.
RequestsDone ==
    (pc = "mark" /\ mfnode # None /\ ~proxied) =>
        \A r \in Range(areas), l \in Range(Lines) :
            (/\ l.area = r.area /\ l.kind = "echo" /\ l.flags
             /\ ~r.wild /\ Own(Blink, Rec(l.area).group)) =>
                LET mine == {x \in Range(l.links) : x.addr = mfnode}
                IN  \/ \E x \in mine : x.deny
                    \/ r.where = 1 /\ mine # {}
                    \/ r.where = 2 /\ mine = {}
                    \/ r.where = 3 /\ \A x \in mine : x.passive
                    \/ r.where = 4 /\ \A x \in mine : ~x.passive

\* What the manager changed here it asked of the uplinks: to feed the areas it
\* created or restored, to stop feeding the orphans.
AllAsked == pc = "mark" => owed \subseteq asked

\* No two areas are given the same base.
OwnBases ==
    \A i, j \in DOMAIN rlist : rlist[i].base = rlist[j].base => rlist[i].area = rlist[j].area

\* Every message to the manager is handled and marked, though runs are killed, as
\* long as no configuration file is missing when a run is to begin, no area lacks links
\* in the tables, and there are numbers left for new bases.
Healthy ==
    /\ \A i \in Files : IF conf[i] = None THEN pc # "off"
                        ELSE \A l \in Range(conf[i].areas) : TableLinks(l) # <<>>
    /\ \/ Naming = "long"
       \/ \E b \in Bases \ files : \A i \in Files :
              conf[i] # None => \A l \in Range(conf[i].areas) : l.base < b
Status(i) == IF i <= Len(mail) THEN mail[i][2] ELSE "none"
Served ==
    \A i \in 1 .. MaxLetters : Status(i) = "new" ~> (Status(i) = "done" \/ ~Healthy)
=============================================================================
