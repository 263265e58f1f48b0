------------------------------ MODULE ReplyLinks ------------------------------
(***************************************************************************)
(* The links between a message and the replies to it in one base:          *)
(* linkbase.cpp and, with FastLink, linkareb.cpp.                          *)
(*                                                                         *)
(* A run of the tosser appends messages without links; messages are        *)
(* deleted, by an editor or a purge that keeps what others say of them.    *)
(* linksqds links the whole base, in one of three ways: linkArea, which    *)
(* computes everything and then writes the headers that changed; linksqd,  *)
(* which clears all links and sets them again pair by pair on the disk;    *)
(* and linknet, for netmail, by subject only and for the first maxnet      *)
(* messages.  The process can be killed at every write.                    *)
(*                                                                         *)
(* Abstractions: an id is a number both ways agree on (linksqd takes the   *)
(* CRC of the whole line, linkArea its last number); ids do not repeat in  *)
(* a base, as duplicate control keeps them.                                *)
(***************************************************************************)
EXTENDS FastLink, SequencesExt

CONSTANTS
    Ways,       \* what an area may be linked by: "fast", "slow", "net"
    Kind,       \* the types of linking an area may have
    Originals,  \* per id, what messages with it answer: functions, one is taken
    Subjects,   \* subjects
    MaxNet,     \* maxnet
    MaxId,      \* bound: ids
    MaxPosts    \* bound: messages that ever enter the base

ASSUME ReplyLinksAssumption ==
    /\ Ways \subseteq {"fast", "slow", "net"}
    /\ Kind \subseteq Kinds
    /\ {Slots, MaxNet, MaxId, MaxPosts} \subseteq Nat /\ Slots > 0
    /\ 0 \notin Subjects
    /\ Originals \subseteq [0 .. MaxId -> 0 .. MaxId]

VARIABLES
    way, kind,  \* how the area is linked; constant
    original,   \* what the messages answer; constant
    base,       \* the messages, in the order of the index
    posts,      \* messages that ever entered the base: the last umsgid
    pc,         \* "idle", "clear", "pairs", "write"; "dead": hung or crashed
    todo,       \* headers to clear or to write, or pairs to link
    linked,     \* history: the last link ended and nothing changed since
    intact      \* history: no message was deleted and no link was cut short

setup == <<way, kind, original>>
vars == <<setup, base, posts, pc, todo, linked, intact>>

Uid == 0 .. MaxPosts
NoLinks == [k \in 1 .. Slots |-> 0]
Message == [uid : Uid, id : 0 .. MaxId, reply : 0 .. MaxId, subj : Subjects,
            replyto : Uid, nextreply : [1 .. Slots -> Uid]]

TypeOK ==
    /\ way \in Ways /\ kind \in Kind /\ original \in Originals
    /\ base \in Seq(Message)
    /\ posts \in Uid
    /\ pc \in {"idle", "clear", "pairs", "write", "dead"}
    /\ LET X == DOMAIN base
       IN  todo \in CASE pc = "clear" -> Seq(X)
                      [] pc = "write" -> Seq(X \X Message)
                      [] pc = "idle" -> {<<>>}
                      [] OTHER -> Seq(X \X X)
    /\ pc \in {"clear", "pairs", "write"} => todo # <<>>
    /\ {linked, intact} \subseteq BOOLEAN

Init ==
    /\ way \in Ways /\ kind \in Kind
    /\ way = "net" => kind = "subj"
    /\ original \in Originals
    /\ kind = "subj" => original = [id \in 0 .. MaxId |-> 0]
    /\ base = <<>> /\ posts = 0 /\ pc = "idle" /\ todo = <<>>
    /\ linked = TRUE /\ intact = TRUE

-----------------------------------------------------------------------------
(* The base between two links.                                             *)

Post(id, subj) ==
    /\ pc = "idle" /\ posts < MaxPosts
    /\ id # 0 => \A x \in DOMAIN base : base[x].id # id
    /\ base' = Append(base, [uid |-> posts + 1, id |-> id, reply |-> original[id],
                             subj |-> subj, replyto |-> 0, nextreply |-> NoLinks])
    /\ posts' = posts + 1
    /\ linked' = FALSE
    /\ UNCHANGED <<setup, pc, todo, intact>>

Delete(x) ==
    /\ pc = "idle"
    /\ base' = RemoveAt(base, x)
    /\ linked' = FALSE /\ intact' = FALSE
    /\ UNCHANGED <<setup, posts, pc, todo>>

-----------------------------------------------------------------------------
(* linkArea.                                                               *)

Header(m, i) == [m EXCEPT !.replyto = i.replyto, !.nextreply = i.nextreply]

\* The headers that are to be written, each with its place.
Changes(M) ==
    LET X == {x \in DOMAIN base : M[x].changed}
        Of(x) == <<x, Header(base[x], M[x])>>
    IN  [k \in 1 .. Cardinality(X) |-> Of(SetToSortSeq(X, <)[k])]

FastLink ==
    /\ pc = "idle" /\ way = "fast"
    /\ LET M == Linked(base, kind)
       IN  IF M = Crashed /\ base # <<>>
           THEN pc' = "dead" /\ UNCHANGED <<todo, linked>>
           ELSE /\ todo' = Changes(M)
                /\ pc' = IF todo' = <<>> THEN "idle" ELSE "write"
                /\ linked' = (todo' = <<>>)
    /\ UNCHANGED <<setup, base, posts, intact>>

Write ==
    /\ pc = "write"
    /\ base' = [base EXCEPT ![Head(todo)[1]] = Head(todo)[2]]
    /\ todo' = Tail(todo)
    /\ IF todo' = <<>> THEN pc' = "idle" /\ linked' = TRUE
       ELSE UNCHANGED <<pc, linked>>
    /\ UNCHANGED <<setup, posts, intact>>

-----------------------------------------------------------------------------
(* linksqd and linknet.                                                    *)

\* The messages that take part.
Part == IF way = "net" THEN 1 .. (IF Len(base) < MaxNet THEN Len(base) ELSE MaxNet)
        ELSE DOMAIN base

\* i and j are given to setreply: j answers i, or is the next of its subject.
Answers(i, j) == i # j /\ base[i].id # 0 /\ base[j].reply = base[i].id
NextOfSubj(i, j) ==
    /\ i < j /\ base[i].subj = base[j].subj
    /\ \A x \in i + 1 .. j - 1 : base[x].subj # base[i].subj
Siblings(i, j) == i < j /\ base[i].reply # 0 /\ base[i].reply = base[j].reply

InOrder(p, q) == p[1] < q[1] \/ (p[1] = q[1] /\ p[2] < q[2])
PairsOf(Rel(_, _)) ==
    SetToSortSeq({p \in Part \X Part : Rel(p[1], p[2])}, InOrder)

Pairs ==
    CASE kind = "subj" -> PairsOf(NextOfSubj)
      [] kind = "reply" -> PairsOf(Answers) \o PairsOf(Siblings)
      [] OTHER -> PairsOf(Answers)

SlowLink ==
    /\ pc = "idle" /\ way # "fast" /\ base # <<>>
    /\ pc' = "clear" /\ todo' = SetToSortSeq(Part, <) /\ linked' = FALSE
    /\ UNCHANGED <<setup, base, posts, intact>>

\* readmsg and readnet with type 0.
Clear ==
    /\ pc = "clear"
    /\ base' = [base EXCEPT ![Head(todo)].replyto = 0,
                            ![Head(todo)].nextreply = NoLinks]
    /\ IF Len(todo) > 1
       THEN todo' = Tail(todo) /\ UNCHANGED <<pc, linked>>
       ELSE todo' = Pairs /\ pc' = (IF Pairs = <<>> THEN "idle" ELSE "pairs")
            /\ linked' = (Pairs = <<>>)
    /\ UNCHANGED <<setup, posts, intact>>

\* The end of the list that starts at x, by nextreply and the index: 0 when an
\* entry is missing, Hangs when there is no end.  By subject a loop is looked
\* for, with an umsgid compared with a place in the index.
Hangs == -1
RECURSIVE EndOf(_, _)
EndOf(x, seen) ==
    LET nx == FindUid(base, base[x].nextreply[1])
    IN  IF base[x].nextreply[1] = 0 THEN x
        ELSE IF nx = 0 THEN 0
        ELSE IF kind = "subj" /\ (nx = base[x].nextreply[1] \/ nx \in seen) THEN 0
        ELSE IF nx \in seen THEN Hangs
        ELSE EndOf(nx, seen \cup {nx})

\* Bug: the place of the first link is used again.
SetReplyTimEdFirst(i, j) ==
    [base EXCEPT ![i].nextreply[1] = base[j].uid, ![j].replyto = base[i].uid]

\* With TimEd linkpos counts the replies to i.
SetReplyTimEd(i, j) ==
    LET linkpos == Cardinality({x \in Part : x < j /\ Answers(i, x)}) + 1
    IN  IF linkpos > Slots THEN base
        ELSE [base EXCEPT ![i].nextreply[linkpos] = base[j].uid,
                          ![j].replyto = base[i].uid]

\* Bug: the list is not followed to its end.
SetReplyHere(i, j) ==
    IF base[j].replyto # 0 THEN base
    ELSE [base EXCEPT ![i].nextreply[1] = base[j].uid,
                      ![j].replyto = base[i].uid]

SetReply(i, j) ==
    LET end == EndOf(i, {i})
    IN  IF base[j].replyto # 0 \/ end = 0 THEN base
        ELSE [base EXCEPT ![end].nextreply[1] = base[j].uid,
                          ![j].replyto = base[end].uid]

\* setreplyn does not look at what the two say already.
SetReplyNet(i, j) ==
    [base EXCEPT ![i].nextreply[1] = base[j].uid, ![j].replyto = base[i].uid]

Pair ==
    /\ pc = "pairs"
    /\ LET i == Head(todo)[1]
           j == Head(todo)[2]
           hangs == kind # "timed" /\ way = "slow" /\ base[j].replyto = 0
                    /\ EndOf(i, {i}) = Hangs
       IN  IF hangs THEN pc' = "dead" /\ UNCHANGED <<base, todo, linked>>
           ELSE /\ base' = CASE way = "net" -> SetReplyNet(i, j)
                             [] kind = "timed" -> SetReplyTimEd(i, j)
                             [] OTHER -> SetReply(i, j)
                /\ todo' = Tail(todo)
                /\ IF todo' = <<>> THEN pc' = "idle" /\ linked' = TRUE
                   ELSE UNCHANGED <<pc, linked>>
    /\ UNCHANGED <<setup, posts, intact>>

\* The process is killed between two writes.
Kill ==
    /\ pc \in {"clear", "pairs", "write"}
    /\ pc' = "idle" /\ todo' = <<>> /\ linked' = FALSE /\ intact' = FALSE
    /\ UNCHANGED <<setup, base, posts>>

Next ==
    \/ IF kind = "subj"
       THEN \E subj \in Subjects : Post(0, subj)
       ELSE \E id \in 0 .. MaxId : Post(id, CHOOSE subj \in Subjects : TRUE)
    \/ \E x \in DOMAIN base : Delete(x)
    \/ FastLink \/ Write
    \/ SlowLink \/ Clear \/ Pair
    \/ Kill

Spec == Init /\ [][Next]_vars

-----------------------------------------------------------------------------
(* Properties.                                                             *)

NextOf(x) == FindUid(base, base[x].nextreply[1])
Linear == kind # "timed"

\* The replies to reach from x by nextreply.
RECURSIVE After(_, _)
After(x, seen) ==
    IF NextOf(x) = 0 \/ NextOf(x) \in seen THEN seen
    ELSE After(NextOf(x), seen \cup {NextOf(x)})

\* What a message's thread is known by: the message that answers nothing, the id
\* of an original that is not in the base, with "flat" the first that misses it.
RECURSIVE Thread(_)
Thread(x) ==
    LET r == FindId(base, base[x].reply)
    IN  IF base[x].reply = 0 \/ (r = 0 /\ kind = "flat") THEN <<"message", x>>
        ELSE IF r = 0 THEN <<"original", base[x].reply>>
        ELSE Thread(r)
SameThread(x, y) ==
    IF kind = "subj" THEN base[x].subj = base[y].subj ELSE Thread(x) = Thread(y)

\* linkbase.cpp:184-229, linkareb.cpp:873-921, 1057-1083: once an area is linked
\* the two directions agree.  What a message names as the one it follows is in
\* the base and names it as the next, no message follows two, and nextreply
\* does not lead in a circle - whatever was deleted before.
LinksMatch ==
    linked /\ Linear /\ (way = "fast" => intact) =>
        \A x \in DOMAIN base :
            /\ base[x].replyto # 0 =>
                 LET p == FindUid(base, base[x].replyto)
                 IN  p # 0 /\ NextOf(p) = x
            /\ NextOf(x) # 0 => base[NextOf(x)].replyto = base[x].uid
            /\ x \notin After(x, {})

\* linkareb.cpp:873-996, linkbase.cpp:91-138: the two linkers, which share no
\* code, put the same messages into one list: those of one thread and no other.
ThreadsRight ==
    linked /\ Linear /\ (way = "fast" => intact) =>
        \A x, y \in Part :
            (y \in After(x, {x}) \/ x \in After(y, {y})) <=> SameThread(x, y)

\* linkareb.cpp:706-724, linkbase.cpp:141-153: in a tree a reply names its
\* original, and the original names it unless it has too many replies.
TreeRight ==
    linked /\ ~Linear /\ (way = "fast" => intact) =>
        \A x, y \in DOMAIN base : Answers(x, y) =>
            \/ /\ base[y].replyto = base[x].uid
               /\ \E k \in 1 .. Slots : base[x].nextreply[k] = base[y].uid
            \/ Cardinality({z \in DOMAIN base : Answers(x, z)}) > Slots

\* linkareb.cpp:1098-1101 ("better so than to rewrite practically everything
\* every time"): what linkArea has linked it leaves alone the next time.
Settled ==
    linked /\ way = "fast" /\ base # <<>> /\ intact =>
        LET M == Linked(base, kind)
        IN  M # Crashed /\ \A x \in DOMAIN base : Header(base[x], M[x]) = base[x]
=============================================================================
