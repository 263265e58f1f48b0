------------------------------- MODULE FastLink -------------------------------
(***************************************************************************)
(* The fast reply linker (linkareb.cpp): what linkArea makes of the        *)
(* messages of a Squish base, given in the order of the index.             *)
(*                                                                         *)
(* linkArea reads all headers, clears what the type of linking forbids,    *)
(* and lets linkTimEd, linkLinear or linkSubj set replyto and nextreply in *)
(* memory.  A message is a record; the array msgs is a sequence, to which  *)
(* linkLinear adds stand-ins for missing originals, and a pointer is an    *)
(* index, 0 for NULL.                                                      *)
(*                                                                         *)
(* Abstractions: a message id is a number (str2MSGID, 0 for none), a       *)
(* subject is what is left of it without "Re:" (subjLen), a hash table     *)
(* finds what was inserted last among equals (insertElement adds at the    *)
(* front); memory does not run out.                                        *)
(***************************************************************************)
EXTENDS Integers, Sequences, FiniteSets, FiniteSetsExt

CONSTANT Slots      \* entries of nextreply a header has (10)

Kinds == {"reply", "subj", "flat", "timed"}

\* The memory of a run: a header as it was read, with the fields of MsgInfo.
Info(m) ==
    [uid |-> m.uid, id |-> m.id, subj |-> m.subj,
     reply |-> IF m.reply = m.id THEN 0 ELSE m.reply,
     replyto |-> m.replyto, nextreply |-> m.nextreply,
     next |-> 0, prev |-> 0, head |-> 0, last |-> 0, processed |-> FALSE,
     changed |-> FALSE]

\* linkArea leaves only the first nextreply to a linear type.
Reading(m, kind) ==
    LET first == [k \in 1 .. Slots |-> IF k = 1 THEN m.nextreply[1] ELSE 0]
    IN  IF kind = "timed" \/ first = m.nextreply THEN Info(m)
        ELSE [Info(m) EXCEPT !.nextreply = first, !.changed = TRUE]

\* findElement: the entry inserted last wins.
LastOf(S) == IF S = {} THEN 0 ELSE Max(S)
FindId(M, id) == LastOf({x \in DOMAIN M : M[x].id = id})
FindUid(M, uid) == LastOf({x \in DOMAIN M : M[x].uid = uid /\ uid # 0})

\* What is marked changed is written back.
SetNext(M, x, k, uid) ==
    [M EXCEPT ![x].nextreply[k] = uid,
              ![x].changed = @ \/ M[x].nextreply[k] # uid]
SetReplyto(M, x, uid) ==
    [M EXCEPT ![x].replyto = uid, ![x].changed = @ \/ M[x].replyto # uid]

-----------------------------------------------------------------------------
(* TimEd: a tree.  Every reply names its original, and the original the    *)
(* replies it has room for.                                                *)

\* Bug: a reply that is linked already is linked again.
TimEdOneAgain(M, i) ==
    LET r == FindId(M, M[i].reply)
        N == SetReplyto(M, i, M[r].uid)
        free == {k \in 1 .. Slots : M[r].nextreply[k] = 0}
    IN  CASE M[i].reply = 0 -> M
          [] r = 0 -> SetReplyto(M, i, 0)
          [] free = {} -> N
          [] OTHER -> SetNext(N, r, Min(free), N[i].uid)

TimEdOne(M, i) ==
    LET nxt == FindUid(M, M[i].nextreply[1])
        C == IF M[i].nextreply[1] # 0 /\ (nxt = 0 \/ M[nxt].reply # M[i].id)
             THEN SetNext(M, i, 1, 0) ELSE M
        r == FindId(C, C[i].reply)
        N == SetReplyto(C, i, C[r].uid)
        free == {k \in 1 .. Slots : C[r].nextreply[k] = 0}
    IN  CASE C[i].reply = 0 -> C
          [] r = 0 -> SetReplyto(C, i, 0)
          [] \/ \E k \in 1 .. Slots : N[r].nextreply[k] = N[i].uid
             \/ free = {} -> N
          [] OTHER -> SetNext(N, r, Min(free), N[i].uid)

RECURSIVE LinkTimEd(_, _, _)
LinkTimEd(M, i, n) ==
    IF i > n THEN M ELSE LinkTimEd(TimEdOne(M, i), i + 1, n)

-----------------------------------------------------------------------------
(* Reply and flat: one list per thread.                                    *)

Crashed == <<>>     \* a NULL pointer was followed, or a loop does not end

\* markList: the list that starts at h, as far as the links the base already
\* has lead; a link that cannot be right is cut.  Every prev is set once, so
\* more than twice as many steps as there are messages are an endless loop.
RECURSIVE MarkFrom(_, _, _, _)
MarkFrom(M, h, cur, steps) ==
    LET nx == FindUid(M, M[cur].nextreply[1])
        N == [M EXCEPT ![cur].next = nx]
        mutual == N[nx].next = cur
        C == IF mutual THEN [N EXCEPT ![nx].nextreply[1] = 0] ELSE N
        P == IF N[nx].prev = 0 THEN [N EXCEPT ![nx].prev = cur] ELSE N
        go == [P EXCEPT ![nx].head = h, ![nx].processed = TRUE, ![h].last = nx]
    IN  CASE steps > 2 * Len(M) -> Crashed
          [] M[cur].nextreply[1] = 0 -> M
          [] nx = 0 -> N
          [] N[nx].reply = 0 -> SetNext(N, cur, 1, 0)
          [] N[nx].prev # 0 /\ (N[nx].prev # cur \/ mutual \/ nx = cur) ->
                SetNext(C, cur, 1, 0)
          [] OTHER -> MarkFrom(go, h, nx, steps + 1)

MarkList(M, h) == MarkFrom([M EXCEPT ![h].head = h, ![h].last = h], h, h, 0)

\* The messages from cur down get the list's head.
RECURSIVE SetHead(_, _, _)
SetHead(M, cur, h) ==
    IF cur = 0 THEN M ELSE SetHead([M EXCEPT ![cur].head = h], M[cur].next, h)

\* rmsg is in a list: what was collected from cur down to i goes to its end.
Join(M, i, cur, rmsg) ==
    LET h == M[rmsg].head
        last == M[h].last
        L == SetReplyto(SetNext(M, last, 1, M[cur].uid), cur, M[last].uid)
        N == [L EXCEPT ![last].next = cur, ![last].changed = TRUE,
                       ![cur].prev = last, ![cur].changed = TRUE]
    IN  IF h = 0 THEN Crashed ELSE SetHead([N EXCEPT ![h].last = i], cur, h)

\* The stand-in for the original of cur, which is not in the base.
Fake(M, cur) ==
    [uid |-> 0, id |-> M[cur].reply, subj |-> M[cur].subj, reply |-> 0,
     replyto |-> 0,
     nextreply |-> [k \in 1 .. Slots |-> IF k = 1 THEN M[cur].uid ELSE 0],
     next |-> 0, prev |-> 0, head |-> 0, last |-> 0, processed |-> TRUE,
     changed |-> FALSE]

\* Bug: a reply whose original is missing is always a list of its own.
NewListFlat(M, cur, kind) == MarkList(SetReplyto(M, cur, 0), cur)

\* cur is the head of a new list, or a reply whose original is missing.
NewList(M, cur, kind) ==
    LET N == SetReplyto(M, cur, 0)
    IN  IF kind = "flat" \/ N[cur].reply = 0
        THEN MarkList(N, cur)
        ELSE MarkList(Append(N, Fake(N, cur)), Len(N) + 1)

\* From the reply cur upwards, to a list there is or to the top of a new one.
RECURSIVE Climb(_, _, _, _)
Climb(M, i, cur, kind) ==
    LET r == FindId(M, M[cur].reply)
        L == SetNext(SetReplyto(M, cur, M[r].uid), r, 1, M[cur].uid)
        N == [L EXCEPT ![cur].prev = r, ![r].next = cur, ![r].processed = TRUE]
    IN  CASE M[cur].reply = 0 \/ r = 0 -> NewList(M, cur, kind)
          [] M[r].processed -> Join(M, i, cur, r)
          [] OTHER -> Climb(N, i, r, kind)

LinearOne(M, i, kind) ==
    IF M[i].processed THEN M
    ELSE Climb([M EXCEPT ![i].processed = TRUE], i, i, kind)

RECURSIVE LinkLinear(_, _, _, _)
LinkLinear(M, i, n, kind) ==
    IF i > n \/ M = Crashed THEN M
    ELSE LinkLinear(LinearOne(M, i, kind), i + 1, n, kind)

-----------------------------------------------------------------------------
(* Subject: one list per subject, in the order of the index.               *)

SubjOne(M, i) ==
    LET C == IF M[i].nextreply[1] # 0 /\ M[i].nextreply[1] <= M[i].uid
             THEN SetNext(M, i, 1, 0) ELSE M
        h == LastOf({x \in 1 .. i - 1 : C[x].subj = C[i].subj /\ C[x].head = x})
        last == C[h].last
    IN  IF h = 0
        THEN SetReplyto([C EXCEPT ![i].head = i, ![i].last = i], i, 0)
        ELSE SetNext(SetReplyto([C EXCEPT ![i].head = h, ![h].last = i],
                                i, C[last].uid),
                     last, 1, C[i].uid)

RECURSIVE LinkSubj(_, _, _)
LinkSubj(M, i, n) ==
    IF i > n THEN M ELSE LinkSubj(SubjOne(M, i), i + 1, n)

-----------------------------------------------------------------------------
\* linkArea up to where it writes: msgs after linking, or Crashed.
Linked(base, kind) ==
    LET n == Len(base)
        M == [x \in 1 .. n |-> Reading(base[x], kind)]
    IN  CASE kind = "timed" -> LinkTimEd(M, 1, n)
          [] kind = "subj" -> LinkSubj(M, 1, n)
          [] OTHER -> LinkLinear(M, 1, n, kind)
=============================================================================
