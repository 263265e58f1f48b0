------------------------------- MODULE Rebuild -------------------------------
(***************************************************************************)
(* Base maintenance (rebuild.cpp): Purge of an echo base (purgesqd), a new *)
(* toss of what lies in BadArea (tossbad), UnToss into text files          *)
(* (untoss).                                                               *)
(*                                                                         *)
(* One area's base is its data file and its index file; purgesqd writes    *)
(* new ones beside them and renames them one after the other, tossbad      *)
(* renames BadArea's out of the way and writes it anew.  Between two calls *)
(* of the operating system the process can be killed, and where the base   *)
(* is not open other programs store and delete messages.                   *)
(***************************************************************************)
EXTENDS Integers, Sequences, FiniteSets

CONSTANTS
    MaxId,      \* bound: messages, numbered as they arrive
    MaxDay,     \* bound: days
    Byte,       \* messages per byte of the bitmap, 8 in the code
    Half, Long, \* a short holds numbers below Half; (unsigned long)-1 + 1 - 2 * Half
    Percent,    \* PurgeProcents
    Confs,      \* what may be configured, see Conf
    MaxKills,   \* bound: kills
    None        \* no such file

\* PurgeAnalyse: 0 no, 1 yes, 2 Improved, 3 with PurgeProcents; the area's -$d,
\* 0 without; PurgeLastread.
Conf == [analyse : 0 .. 3, days : Nat, purgelr : BOOLEAN]

Ids == 1 .. MaxId
Message == [id : Ids, day : 0 .. MaxDay]
Hole == [id |-> 0, day |-> 0]   \* a free frame; in bufsqd: nothing read yet

DataFile == [frames : Seq(Message \cup {Hole}), num : Nat, next : Nat]
IndexFile == Seq([at : Nat \ {0}, uid : Nat])

ASSUME RebuildAssumption ==
    /\ {MaxId, MaxDay, Byte, Half, Long} \subseteq Nat \ {0}
    /\ Percent \in 0 .. 100 /\ Confs \subseteq Conf /\ MaxKills \in Nat
    /\ None \notin DataFile /\ None \notin IndexFile /\ None \notin Seq(Message)

VARIABLES
    conf,       \* analyse, days, purgelr
    today,
    data, index,    \* the area's .sqd and .sqi
    qd, qi,         \* the new ones, ._qd and ._qi
    sql,            \* the readers' .sql: "none", "reads", "index", "mixed"
    bad, badqd,     \* BadArea, and its old file while tossbad runs
    pc, i,          \* the process and its counter
    keep,           \* bitmap
    elsewhere,      \* in PtBackUp, DupeArea or text files
    kills,
    \* history variables, not part of the program
    posted,         \* messages there ever were
    known,          \* the number the area gave a message first
    gone,           \* deleted by a reader, or old when they were left out
    risk,           \* what a kill or a post between the renames exposed
    mixed,          \* the bitmap was made of a base not in order of time
    fresh           \* purged today, and nothing has changed since

area == <<data, index>>
temp == <<qd, qi, sql>>
badarea == <<bad, badqd>>
run == <<pc, i, keep>>
history == <<posted, known, gone, risk, mixed, fresh>>
vars == <<conf, today, area, temp, badarea, run, elsewhere, kills, history>>

TypeOK ==
    /\ conf \in Confs
    /\ today \in 0 .. MaxDay
    /\ data \in DataFile \cup {None} /\ index \in IndexFile \cup {None}
    /\ qd \in DataFile \cup {None} /\ qi \in IndexFile \cup {None}
    /\ sql \in {"none", "reads", "index", "mixed"}
    /\ bad \in Seq(Message) \cup {None} /\ badqd \in Seq(Message) \cup {None}
    /\ pc \in {"idle", "create", "copy", "data", "movedata", "index", "moveindex",
               "wipe", "wiperest", "bad", "badmove", "badnew", "badtoss", "untoss"}
    /\ i \in Nat /\ keep \subseteq Nat
    /\ elsewhere \subseteq Ids /\ kills \in 0 .. MaxKills
    /\ posted \subseteq Ids /\ known \in [Ids -> Nat]
    /\ gone \subseteq Ids /\ risk \subseteq Ids
    /\ mixed \in BOOLEAN /\ fresh \in {"no", "running", "yes"}

Init ==
    /\ conf \in Confs
    /\ today = 0
    /\ data = [frames |-> <<>>, num |-> 0, next |-> 1] /\ index = <<>>
    /\ qd = None /\ qi = None /\ sql = "reads"
    /\ bad = <<>> /\ badqd = None
    /\ pc = "idle" /\ i = 0 /\ keep = {}
    /\ elsewhere = {} /\ kills = 0
    /\ posted = {} /\ known = [m \in Ids |-> 0] /\ gone = {} /\ risk = {}
    /\ mixed = FALSE /\ fresh = "no"

-----------------------------------------------------------------------------
(* The base. *)

\* Every entry of the index leads to a message: no purge was cut short between
\* the two renames.  What is read otherwise depends on the bytes found there.
Sound ==
    /\ data # None /\ index # None /\ data.num <= Len(index)
    /\ \A k \in 1 .. data.num :
          /\ index[k].at <= Len(data.frames) /\ data.frames[index[k].at] # Hole
          /\ \A e \in 1 .. k - 1 : index[e].at # index[k].at

Msg(k) == data.frames[index[k].at]
Readable == IF Sound THEN {Msg(k).id : k \in 1 .. data.num} ELSE {}

Old(m) == conf.days # 0 /\ today - m.day >= conf.days

\* buftosqd: into a free frame or at the end, and the next entry of the index.
Put(d, x, m, uid, at) ==
    [d |-> [frames |-> IF at > Len(d.frames) THEN Append(d.frames, m)
                                             ELSE [d.frames EXCEPT ![at] = m],
            num |-> d.num + 1, next |-> uid + 1],
     x |-> Append(SubSeq(x, 1, d.num), [at |-> at, uid |-> uid])]

Places(d) ==
    {Len(d.frames) + 1} \cup {k \in 1 .. Len(d.frames) : d.frames[k] = Hole}

NewData == [frames |-> <<>>, num |-> 0, next |-> 1]

\* opensqd makes the files that are missing.
Opened == [d |-> IF data = None THEN NewData ELSE data,
           x |-> IF index = None THEN <<>> ELSE index]

\* The number of a copied message goes through rehwm, a short.
Rehwm(uid) == LET s == uid % (2 * Half) IN IF s < Half THEN s ELSE s + Long

\* The process has the area's files open, nobody else can open them.
Held == pc \in {"create", "copy", "untoss"}

-----------------------------------------------------------------------------
(* Purge. *)

Expired == {k \in 1 .. data.num : Old(Msg(k))}
Free == {k \in 1 .. Len(data.frames) : data.frames[k] = Hole}

\* Bug: the mask is shifted the other way.
BitmapUp ==
    {k \in 1 .. data.num :
        ~\E e \in Expired : k >= e /\ (k - 1) \div Byte = (e - 1) \div Byte}

\* An expired message clears its bit and the lower ones of its byte, those of
\* the messages before it (the mask 0xfe << n).
Bitmap ==
    {k \in 1 .. data.num :
        ~\E e \in Expired : k <= e /\ (k - 1) \div Byte = (e - 1) \div Byte}

\* Bug: free frames alone are no reason.
NeedworkAged ==
    /\ conf.days # 0 /\ (conf.analyse = 0 \/ Expired # {})
    /\ conf.analyse = 3 =>
         (Cardinality(Free) + Cardinality(Expired)) * 100 >= data.num * Percent

\* Whether the base is written anew.
Needwork ==
    /\ data.frames # <<>>
    /\ \/ Free # {}
       \/ conf.days # 0 /\ (conf.analyse = 0 \/ Expired # {})
    /\ conf.analyse = 3 =>
         (Cardinality(Free) + Cardinality(Expired)) * 100 >= data.num * Percent

Young(k) == ~Old(Msg(k))

\* rebuild, purgesqd: the leftovers of a killed run go, the area is looked over.
Purge ==
    /\ pc = "idle" /\ Sound
    /\ qd' = None /\ qi' = None
    /\ pc' = IF Needwork THEN "create" ELSE "idle"
    /\ keep' = IF Needwork /\ conf.analyse >= 2 /\ conf.days # 0 THEN Bitmap ELSE {}
    /\ mixed' = (mixed \/ \E k \in 1 .. data.num, e \in Expired : k < e /\ Young(k))
    /\ fresh' = IF Needwork THEN "running" ELSE "yes"
    /\ UNCHANGED <<conf, today, area, sql, badarea, i, elsewhere, kills, posted, known, gone, risk>>

\* The new files, with the old header and empty chains; with PurgeLastread the
\* new index is written over the .sql file.
Create ==
    /\ pc = "create"
    /\ qd' = [frames |-> <<>>, num |-> 0, next |-> data.next] /\ qi' = <<>>
    /\ sql' = IF ~conf.purgelr THEN sql ELSE IF sql = "none" THEN "index" ELSE "mixed"
    /\ pc' = "copy" /\ i' = 1
    /\ UNCHANGED <<conf, today, area, badarea, keep, elsewhere, kills, history>>

\* Bug: the copy is numbered like a new message.
CopiedNew(m) == Put(qd, qi, m, qd.next, qd.num + 1)

Copied(m) == Put(qd, qi, m, Rehwm(index[i].uid), qd.num + 1)

\* The date decides, or the bitmap made of it.
Wanted(m) == conf.days = 0 \/ IF conf.analyse < 2 THEN ~Old(m) ELSE i \in keep

Copy ==
    /\ pc = "copy" /\ i <= data.num
    /\ IF Wanted(Msg(i))
       THEN /\ qd' = Copied(Msg(i)).d /\ qi' = Copied(Msg(i)).x
            /\ UNCHANGED gone
       ELSE /\ gone' = IF Old(Msg(i)) THEN gone \cup {Msg(i).id} ELSE gone
            /\ UNCHANGED <<qd, qi>>
    /\ i' = i + 1
    /\ UNCHANGED <<conf, today, area, sql, badarea, pc, keep, elsewhere, kills, posted, known,
                   risk, mixed, fresh>>

\* The base is closed, and from now on open to others.
Close ==
    /\ pc = "copy" /\ i > data.num
    /\ pc' = IF qd.num = 0 /\ ~(conf.purgelr /\ sql = "mixed") THEN "wipe" ELSE "data"
    /\ i' = 0 /\ keep' = {}
    /\ UNCHANGED <<conf, today, area, temp, badarea, elsewhere, kills, history>>

\* Nothing is left: all files of the area go, the data file first.
Wipe ==
    /\ pc = "wipe"
    /\ data' = None /\ pc' = "wiperest"
    /\ UNCHANGED <<conf, today, index, temp, badarea, i, keep, elsewhere, kills, history>>

Finished == IF fresh = "running" THEN "yes" ELSE "no"

WipeRest ==
    /\ pc = "wiperest"
    /\ index' = None /\ qd' = None /\ qi' = None /\ sql' = "none"
    /\ fresh' = Finished /\ pc' = "idle"
    /\ UNCHANGED <<conf, today, data, badarea, i, keep, elsewhere, kills, posted, known, gone,
                   risk, mixed>>

\* rrename: the target is unlinked, then comes the rename.
UnlinkData ==
    /\ pc = "data"
    /\ data' = None /\ pc' = "movedata"
    /\ UNCHANGED <<conf, today, index, temp, badarea, i, keep, elsewhere, kills, history>>

MoveData ==
    /\ pc = "movedata"
    /\ data' = qd /\ qd' = None /\ pc' = "index"
    /\ UNCHANGED <<conf, today, index, qi, sql, badarea, i, keep, elsewhere, kills, history>>

UnlinkIndex ==
    /\ pc = "index"
    /\ index' = None /\ pc' = "moveindex"
    /\ UNCHANGED <<conf, today, data, temp, badarea, i, keep, elsewhere, kills, history>>

\* With PurgeLastread it is the .sql file that becomes the index.
MoveIndex ==
    /\ pc = "moveindex"
    /\ index' = qi /\ qi' = None
    /\ sql' = IF conf.purgelr THEN "none" ELSE sql
    /\ fresh' = Finished /\ pc' = "idle"
    /\ UNCHANGED <<conf, today, data, qd, badarea, i, keep, elsewhere, kills, posted, known, gone,
                   risk, mixed>>

-----------------------------------------------------------------------------
(* Toss from BadArea, and UnToss. *)

\* setbadarea: it is in use, or empty (a missing base is made anew): no more.
TossBad ==
    /\ pc = "idle" /\ bad \notin {None, <<>>}
    /\ pc' = "bad"
    /\ UNCHANGED <<conf, today, area, temp, badarea, i, keep, elsewhere, kills, history>>

\* rrename onto the old file of a run that was killed.
UnlinkBad ==
    /\ pc = "bad"
    /\ badqd' = None /\ pc' = "badmove"
    /\ UNCHANGED <<conf, today, area, temp, bad, i, keep, elsewhere, kills, history>>

MoveBad ==
    /\ pc = "badmove"
    /\ badqd' = bad /\ bad' = None /\ pc' = "badnew"
    /\ UNCHANGED <<conf, today, area, temp, i, keep, elsewhere, kills, history>>

\* The index follows, and BadArea is made anew.
NewBad ==
    /\ pc = "badnew"
    /\ bad' = <<>> /\ i' = 1 /\ pc' = "badtoss"
    /\ UNCHANGED <<conf, today, area, temp, badqd, keep, elsewhere, kills, history>>

NextBad == i' = i + 1 /\ UNCHANGED <<conf, today, temp, badqd, pc, keep, kills>>

\* Still no area for it, or an area in use: back to BadArea.
StillBad ==
    /\ pc = "badtoss" /\ i <= Len(badqd)
    /\ bad' = Append(bad, badqd[i])
    /\ NextBad
    /\ UNCHANGED <<area, elsewhere, history>>

\* BadArea, the area or DupeArea is in use: into PtBackUp; or a duplicate.
Aside ==
    /\ pc = "badtoss" /\ i <= Len(badqd)
    /\ elsewhere' = elsewhere \cup {badqd[i].id}
    /\ NextBad
    /\ UNCHANGED <<area, bad, history>>

Number(m, uid) == IF known[m.id] = 0 THEN [known EXCEPT ![m.id] = uid] ELSE known

\* There is an area for it now, and it is free: stored with the date it has had
\* in BadArea.
Fits ==
    /\ pc = "badtoss" /\ i <= Len(badqd) /\ Len(Opened.x) >= Opened.d.num
    /\ \E at \in Places(Opened.d) :
          LET p == Put(Opened.d, Opened.x, badqd[i], Opened.d.next, at)
          IN  data' = p.d /\ index' = p.x
    /\ known' = Number(badqd[i], Opened.d.next)
    /\ risk' = IF Sound \/ data = None THEN risk ELSE risk \cup {badqd[i].id}
    /\ NextBad /\ fresh' = "no"
    /\ UNCHANGED <<bad, elsewhere, posted, gone, mixed>>

BadDone ==
    /\ pc = "badtoss" /\ i > Len(badqd)
    /\ badqd' = None /\ i' = 0 /\ pc' = "idle"
    /\ UNCHANGED <<conf, today, area, temp, bad, keep, elsewhere, kills, history>>

UnToss ==
    /\ pc = "idle" /\ Sound /\ data.num > 0
    /\ pc' = "untoss" /\ i' = 1
    /\ UNCHANGED <<conf, today, area, temp, badarea, keep, elsewhere, kills, history>>

\* A text file whose name is free.
Text ==
    /\ pc = "untoss" /\ i <= data.num
    /\ elsewhere' = elsewhere \cup {Msg(i).id}
    /\ i' = i + 1
    /\ UNCHANGED <<conf, today, area, temp, badarea, pc, keep, kills, history>>

\* untkill: the header is written with empty chains, the files are cut.
Untossed ==
    /\ pc = "untoss" /\ i > data.num
    /\ \/ data' = [frames |-> <<>>, num |-> 0, next |-> data.next] /\ index' = <<>>
       \/ UNCHANGED area
    /\ i' = 0 /\ pc' = "idle" /\ fresh' = "no"
    /\ UNCHANGED <<conf, today, temp, badarea, keep, elsewhere, kills, posted, known, gone, risk,
                   mixed>>

-----------------------------------------------------------------------------
(* The rest of the world. *)

Renaming == pc \in {"data", "movedata", "index", "moveindex", "wipe", "wiperest"}

Stored(d) == IF d = None THEN {} ELSE {d.frames[k].id : k \in 1 .. Len(d.frames)} \ {0}

\* A message comes to the area; between the copy and the last rename it comes
\* to a file that is about to go, or into the new data file without its index.
Post ==
    /\ ~Held /\ Cardinality(posted) < MaxId
    /\ Len(Opened.x) >= Opened.d.num
    /\ LET m == [id |-> Cardinality(posted) + 1, day |-> today] IN
          /\ \E at \in Places(Opened.d) :
                LET p == Put(Opened.d, Opened.x, m, Opened.d.next, at)
                IN  data' = p.d /\ index' = p.x
          /\ posted' = posted \cup {m.id}
          /\ known' = Number(m, Opened.d.next)
          /\ risk' = risk \cup (IF Renaming \/ ~(Sound \/ data = None) THEN {m.id} ELSE {})
                         \cup (IF pc \in {"index", "moveindex"} THEN Stored(data) ELSE {})
    /\ fresh' = "no"
    /\ UNCHANGED <<conf, today, temp, badarea, run, elsewhere, kills, gone, mixed>>

\* The tosser puts a message into BadArea.
PostBad ==
    /\ pc = "idle" /\ Cardinality(posted) < MaxId
    /\ LET m == [id |-> Cardinality(posted) + 1, day |-> today] IN
          /\ bad' = IF bad = None THEN <<m>> ELSE Append(bad, m)
          /\ posted' = posted \cup {m.id}
    /\ UNCHANGED <<conf, today, area, temp, badqd, run, elsewhere, kills, known, gone, risk, mixed,
                   fresh>>

\* A reader deletes.
Delete ==
    /\ ~Held /\ ~Renaming /\ Sound
    /\ \E k \in 1 .. data.num :
          /\ data' = [data EXCEPT !.frames[index[k].at] = Hole, !.num = @ - 1]
          /\ index' = SubSeq(index, 1, k - 1) \o SubSeq(index, k + 1, data.num)
          /\ gone' = gone \cup {Msg(k).id}
    /\ fresh' = "no"
    /\ UNCHANGED <<conf, today, temp, badarea, run, elsewhere, kills, posted, known, risk, mixed>>

Midnight ==
    /\ today < MaxDay
    /\ today' = today + 1 /\ fresh' = "no"
    /\ UNCHANGED <<conf, area, temp, badarea, run, elsewhere, kills, posted, known, gone, risk,
                   mixed>>

Pending == {badqd[k].id : k \in (IF pc = "badtoss" THEN i .. Len(badqd)
                                 ELSE IF pc = "badnew" THEN 1 .. Len(badqd) ELSE {})}

\* A kill: between the unlink and the last rename it takes the base with it,
\* in tossbad what has not been tossed yet.
Kill ==
    /\ pc # "idle" /\ kills < MaxKills
    /\ kills' = kills + 1 /\ pc' = "idle" /\ i' = 0 /\ keep' = {} /\ fresh' = "no"
    /\ risk' = risk \cup Pending \cup
                 (IF pc \in {"movedata", "index", "moveindex"}
                  THEN Stored(data) \cup Stored(qd) ELSE {})
    /\ UNCHANGED <<conf, today, area, temp, badarea, elsewhere, posted, known, gone, mixed>>

Next ==
    \/ Purge \/ Create \/ Copy \/ Close \/ Wipe \/ WipeRest
    \/ UnlinkData \/ MoveData \/ UnlinkIndex \/ MoveIndex
    \/ TossBad \/ UnlinkBad \/ MoveBad \/ NewBad \/ StillBad \/ Aside \/ Fits \/ BadDone
    \/ UnToss \/ Text \/ Untossed
    \/ Post \/ PostBad \/ Delete \/ Midnight \/ Kill

Spec == Init /\ [][Next]_vars

-----------------------------------------------------------------------------
(* Properties.                                                             *)

InBad == {badqd[k].id : k \in (IF badqd = None THEN {} ELSE 1 .. Len(badqd))}
           \cup {bad[k].id : k \in (IF bad = None THEN {} ELSE 1 .. Len(bad))}

(* Purge and tossbad lose nothing: a message is in the base, in BadArea or *)
(* put somewhere else until it is deleted or has become old, unless it was *)
(* exposed to a kill, or to the renames by being stored among them, or a   *)
(* base that is not in order of time was analysed by bitmap.               *)
NothingLost ==
    pc = "idle" =>
        \/ mixed /\ conf.analyse >= 2
        \/ posted \subseteq Readable \cup InBad \cup elsewhere \cup gone \cup risk

(* A message keeps its number through Purge as long as numbers fit into a  *)
(* short (sqdtobuf.cpp:32, buftosqd.cpp:208), and the index stays in the   *)
(* order of the numbers, which a reader's search for a number relies on.   *)
NumbersKept ==
    pc = "idle" /\ Sound =>
        /\ \A k \in 1 .. data.num :
              Msg(k).id \in risk \/ known[Msg(k).id] >= Half \/ index[k].uid = known[Msg(k).id]
        /\ (risk = {} /\ \A m \in posted : known[m] < Half) =>
              \A k \in 2 .. data.num : index[k - 1].uid < index[k].uid

(* After a Purge of the same day the base is free of holes and of old      *)
(* messages, whatever way it was looked over, PurgeProcents apart.         *)
Purged ==
    (pc = "idle" /\ fresh = "yes" /\ Sound /\ conf.analyse # 3) => Free = {} /\ Expired = {}
=============================================================================
