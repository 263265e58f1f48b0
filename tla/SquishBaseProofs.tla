-------------------------- MODULE SquishBaseProofs --------------------------
(***************************************************************************)
(* Proofs about SquishBase, for any sizes, limits and number of messages:  *)
(* as long as no call is killed the chain of messages tells what the index *)
(* tells and every other frame is on the free chain, what the index lists  *)
(* can be read, and the base implements the list of EchoList.              *)
(*                                                                         *)
(* A call moves frames between the chains write by write.  While it is in  *)
(* the middle of one such move the invariant speaks of the file as it will *)
(* be after the writes that are still to come.                             *)
(***************************************************************************)
EXTENDS SquishBase, SequenceTheorems, TLAPS

\* A limit works when no message is protected and two fit; the last message of a
\* base is not deleted by a reader.
Usable ==
    /\ Skip = 0 \/ Limits \subseteq {0}
    /\ 1 \notin Limits
    /\ Editor # "all"

\* A kill is survived where nothing is dropped and opensqd writes the header it has
\* corrected: not with ExternalLimits.
Killable == Crashes => Limits \subseteq {0} /\ Editor = "no" /\ ~NoFresh

-----------------------------------------------------------------------------
(* Chains of frames. *)

Lists == Seq(Nat)
On(s) == {s[i] : i \in 1 .. Len(s)}
First(s) == IF Len(s) = 0 THEN 0 ELSE s[1]
Last(s) == IF Len(s) = 0 THEN 0 ELSE s[Len(s)]

\* The frames s of the file d, each once, are linked both ways in this order.
Chain(d, s, first, last) ==
    /\ first = First(s) /\ last = Last(s)
    /\ \A i \in 1 .. Len(s) :
          /\ s[i] \in 1 .. Len(d)
          /\ d[s[i]].prev = IF i = 1 THEN 0 ELSE s[i - 1]
          /\ d[s[i]].next = IF i = Len(s) THEN 0 ELSE s[i + 1]
    /\ \A i, j \in 1 .. Len(s) : i # j => s[i] # s[j]

\* Every frame is a message of m, a free one of l, or in X and on neither chain.
Shared(d, m, l, X) ==
    \A f \in 1 .. Len(d) :
        /\ f \in On(m) \cup On(l) \cup X
        /\ f \in On(m) => ~d[f].free /\ f \notin X
        /\ f \in On(l) => d[f].free /\ f \notin X

Whole(d, m, l, h, X) ==
    /\ Chain(d, m, h.first, h.last)
    /\ Chain(d, l, h.firstf, h.lastf)
    /\ Shared(d, m, l, X)
Shape(d, m, h, X) == \E l \in Lists : Whole(d, m, l, h, X)

\* The n offsets of the index x behind the first k.
Offs(x, k, n) == [i \in 1 .. n |-> x[i + k].off]

\* The writes that are to come.
Tailed(d, f, c) == IF f = 0 THEN d ELSE [d EXCEPT ![f].next = c]
Freed(d, f, c) == [d EXCEPT ![c].free = TRUE, ![c].next = 0, ![c].prev = f]
FreedHeader(h, c) == [h EXCEPT !.lastf = c, !.firstf = IF h.lastf = 0 THEN c ELSE @]
Unlinked(d, p) == IF p.prev = 0 THEN d ELSE [d EXCEPT ![p.prev].next = p.next]
Relinked(d, p) == IF p.next = 0 THEN d ELSE [d EXCEPT ![p.next].prev = p.prev]
NewFrame(p, size, id) ==
    [next |-> 0, prev |-> p.prev, size |-> IF p.size < size THEN size ELSE p.size,
     free |-> FALSE, len |-> size, id |-> id]
Framed(d, c, frame) == IF c > Len(d) THEN Append(d, frame) ELSE [d EXCEPT ![c] = frame]
FramedHeader(h, c) == [h EXCEPT !.last = c, !.first = IF @ = 0 THEN c ELSE @]

\* What the n entries behind the first k lead to.
Contents(d, x, k, n, uid) ==
    /\ \A i \in k + 1 .. k + n :
          /\ x[i].off \in 1 .. Len(d)
          /\ d[x[i].off].id = x[i].id
          /\ ~d[x[i].off].free
          /\ d[x[i].off].len <= d[x[i].off].size
          /\ x[i].id < uid
    /\ \A i, j \in k + 1 .. k + n : i < j => x[i].id < x[j].id

-----------------------------------------------------------------------------
(* The invariant of a base on which no call was killed. *)

Busy == ~AtRest
Dropping == pc \in {"purge", "tail", "free", "shift"}
Placing == pc \in {"find", "unlink", "relink", "link", "frame", "header"}

\* Entries that are live and stay: k is passed over, n follow.
Passed == IF pc \in {"tail", "free", "shift"} THEN 1 ELSE 0
Live == IF AtRest THEN hdr.n ELSE IF pc = "index" THEN sqbuf.n - 1 ELSE sqbuf.n - Passed

\* How many messages stay when there were n.
Room(max, n) == IF max = 0 \/ n < max THEN n ELSE max - 1

RestInv ==
    AtRest =>
        /\ Shape(sqd, Offs(sqi, 0, hdr.n), hdr, {})
        /\ Contents(sqd, sqi, 0, hdr.n, hdr.uid)
        /\ Len(sqi) = hdr.n
        /\ hdr.endf = Len(sqd) + 1 /\ hdr.uid > 0
        /\ hdr.n = 0 => hdr.firstf = 0

\* The file and the header in the middle of a move.
DropInv ==
    /\ pc = "purge" =>
          /\ Shape(sqd, Offs(sqi, 0, sqbuf.n), sqbuf, {})
          /\ cur = sqi[1].off
    /\ pc = "tail" =>
          /\ sqbuf.lastf \in 1 .. Len(sqd) /\ cur \in 1 .. Len(sqd)
          /\ Shape(Freed(Tailed(sqd, sqbuf.lastf, cur), sqbuf.lastf, cur),
                   Offs(sqi, 1, sqbuf.n - 1), FreedHeader(sqbuf, cur), {})
    /\ pc = "free" =>
          /\ cur \in 1 .. Len(sqd)
          /\ Shape(Freed(sqd, sqbuf.lastf, cur),
                   Offs(sqi, 1, sqbuf.n - 1), FreedHeader(sqbuf, cur), {})
    /\ pc = "shift" => Shape(sqd, Offs(sqi, 1, sqbuf.n - 1), sqbuf, {})

PlaceInv ==
    /\ pc = "find" =>
          /\ Shape(sqd, Offs(sqi, 0, sqbuf.n), sqbuf, {})
          /\ cur # 0 => cur \in 1 .. Len(sqd) /\ sqd[cur].free
          /\ sqbuf.n = 0 => sqbuf.firstf = 0
    /\ pc = "unlink" =>
          /\ Shape(Relinked(Unlinked(sqd, pcurr), pcurr), Offs(sqi, 0, sqbuf.n), sqbuf, {cur})
          /\ pcurr.prev <= Len(sqd) /\ pcurr.next <= Len(sqd)
    /\ pc = "relink" =>
          /\ Shape(Relinked(sqd, pcurr), Offs(sqi, 0, sqbuf.n), sqbuf, {cur})
          /\ pcurr.next <= Len(sqd)
    /\ pc = "link" => Shape(sqd, Offs(sqi, 0, sqbuf.n), sqbuf, {cur})
    /\ pc \in {"unlink", "relink", "link"} => cur \in 1 .. Len(sqd)
    /\ pc = "frame" =>
          /\ cur \in 1 .. Len(sqd) + 1
          /\ Shape(Framed(sqd, cur, NewFrame(pcurr, msg, sqbuf.uid)),
                   Append(Offs(sqi, 0, sqbuf.n), cur), FramedHeader(sqbuf, cur), {})

StoredInv ==
    /\ pc = "header" => Shape(sqd, Append(Offs(sqi, 0, sqbuf.n), cur), sqbuf, {})
    /\ pc = "index" => /\ Shape(sqd, Append(Offs(sqi, 0, sqbuf.n - 1), cur), sqbuf, {})
                       /\ hdr = sqbuf /\ sqbuf.endf = Len(sqd) + 1 /\ sqbuf.n > 0
    /\ pc \in {"header", "index"} =>
          /\ cur \in 1 .. Len(sqd)
          /\ sqd[cur].id = (IF pc = "header" THEN sqbuf.uid ELSE sqbuf.uid - 1)
          /\ sqd[cur].len <= sqd[cur].size

\* The entries, and what they have to do with the list before the call.
Number == IF pc = "index" THEN sqbuf.uid - 1 ELSE sqbuf.uid
EntryInv ==
    Busy =>
        /\ Contents(sqd, sqi, Passed, Live, Number)
        /\ Number \in 1 .. MaxId /\ \A i \in 1 .. Len(before) : before[i] < Number
        /\ Passed + Live <= Len(before) /\ Passed + Live <= Len(sqi)
        /\ \A i \in Passed + 1 .. Passed + Live :
              sqi[i].id = before[i + Len(before) - Passed - Live]
        /\ Dropping => /\ maxmsg >= 2 /\ sqbuf.n >= maxmsg
                       /\ Len(sqi) = Len(before)
        /\ ~Dropping => Live = Room(maxmsg, Len(before)) /\ Len(sqi) \in {Live, Live + 1}
        /\ pc \notin {"header", "index"} => sqbuf.endf = Len(sqd) + 1

CallInv == RestInv /\ DropInv /\ PlaceInv /\ StoredInv /\ EntryInv
Unharmed == ~killed => CallInv

-----------------------------------------------------------------------------
(* The invariant of a base that is only added to, whatever is killed. *)

Growing ==
    /\ pc \in {"closed", "idle", "find", "frame", "header", "index"}
    /\ maxmsg = 0
    /\ hdr.firstf = 0 /\ hdr.uid > 0
    /\ Contents(sqd, sqi, 0, Len(sqi), hdr.uid)
    /\ \A i \in 1 .. Len(sqi) : sqi[i].off < hdr.endf
    /\ hdr.endf \in 1 .. Len(sqd) + 1
    /\ hdr.last <= Len(sqd)
    /\ Len(sqi) <= hdr.n
    /\ pc = "idle" => Len(sqi) = hdr.n
    /\ Busy => /\ before = Listed
               /\ pc # "index" => sqbuf.n = hdr.n /\ sqbuf.n = Len(sqi) /\ sqbuf.uid = hdr.uid
                                  /\ hdr.uid <= MaxId
               /\ pc = "find" => cur = 0 /\ sqbuf = hdr
               /\ pc = "frame" => cur = hdr.endf /\ sqbuf.firstf = 0
               /\ pc = "header" => sqbuf.firstf = 0 /\ sqbuf.last = cur
               /\ pc \in {"header", "index"} =>
                     /\ cur \in 1 .. Len(sqd)
                     /\ \A i \in 1 .. Len(sqi) : sqi[i].off # cur
                     /\ ~sqd[cur].free
                     /\ sqd[cur].id = (IF pc = "header" THEN sqbuf.uid ELSE sqbuf.uid - 1)
                     /\ sqd[cur].len <= sqd[cur].size
               /\ pc = "index" =>
                     /\ sqbuf = hdr /\ sqbuf.n = Len(sqi) + 1 /\ cur < hdr.endf
                     /\ sqbuf.uid \in 2 .. MaxId + 1
                     /\ \A i \in 1 .. Len(sqi) : sqi[i].id < sqbuf.uid - 1

-----------------------------------------------------------------------------
(* Facts about chains. *)

\* In e the frame c is tied to the last one of the chain s of d.
TiedTo(d, e, s, last, c) ==
    /\ c \notin On(s) /\ c \in 1 .. Len(e)
    /\ e[c].next = 0 /\ e[c].prev = last
    /\ \A f \in On(s) : /\ e[f].next = IF f = last THEN c ELSE d[f].next
                        /\ e[f].prev = d[f].prev

\* In e the neighbours of the frame c of the chain s of d pass it over.
PassedBy(d, e, s, c) ==
    \A f \in On(s) : f # c =>
        /\ e[f].next = IF f = d[c].prev THEN d[c].next ELSE d[f].next
        /\ e[f].prev = IF f = d[c].next THEN d[c].prev ELSE d[f].prev

Without(s, k) == [i \in 1 .. Len(s) - 1 |-> IF i < k THEN s[i] ELSE s[i + 1]]

\* A chain of frames whose pointers are the same in another file is a chain there.
LEMMA ChainSame ==
    ASSUME NEW d, NEW e, NEW s \in Seq(Nat), NEW first, NEW last,
           Len(d) \in Nat, Len(e) \in Nat, Len(d) <= Len(e),
           Chain(d, s, first, last),
           \A i \in 1 .. Len(s) : e[s[i]].next = d[s[i]].next /\ e[s[i]].prev = d[s[i]].prev
    PROVE  Chain(e, s, first, last)
<1>1. \A i \in 1 .. Len(s) : s[i] \in 1 .. Len(e)
  BY DEF Chain
<1>2. QED
  BY <1>1 DEF Chain

\* A frame tied to the last one of a chain and to nothing else becomes its last one.
LEMMA ChainAppend ==
    ASSUME NEW d, NEW e, NEW s \in Seq(Nat), NEW first, NEW last, NEW c \in Nat,
           Len(d) \in Nat, Len(e) \in Nat, Len(d) <= Len(e),
           Chain(d, s, first, last), TiedTo(d, e, s, last, c)
    PROVE  Chain(e, Append(s, c), IF last = 0 THEN c ELSE first, c)
<1> DEFINE n == Len(s)
           t == Append(s, c)
<1>1. n \in Nat /\ Len(t) = n + 1 /\ t[n + 1] = c /\ \A i \in 1 .. n : t[i] = s[i]
  OBVIOUS
<1>0. /\ c \notin On(s) /\ c \in 1 .. Len(e)
      /\ e[c].next = 0 /\ e[c].prev = last
      /\ \A i \in 1 .. n : /\ e[s[i]].next = IF s[i] = last THEN c ELSE d[s[i]].next
                           /\ e[s[i]].prev = d[s[i]].prev
  BY DEF TiedTo, On
<1>2. /\ first = IF n = 0 THEN 0 ELSE s[1]
      /\ last = IF n = 0 THEN 0 ELSE s[n]
      /\ \A i \in 1 .. n : s[i] \in 1 .. Len(d) /\ s[i] # c
      /\ \A i \in 1 .. n : d[s[i]].prev = IF i = 1 THEN 0 ELSE s[i - 1]
      /\ \A i \in 1 .. n : d[s[i]].next = IF i = n THEN 0 ELSE s[i + 1]
      /\ \A i, j \in 1 .. n : i # j => s[i] # s[j]
  BY <1>0 DEF Chain, On, First, Last
<1> HIDE DEF n, t
<1>3. ASSUME NEW i \in 1 .. n  PROVE s[i] = last <=> i = n
  <2>1. n \in 1 .. n /\ n # 0
    BY <1>1
  <2>2. last = s[n]
    BY <1>2, <2>1
  <2>3. QED
    BY <1>2, <2>1, <2>2
<1>4. \A i \in 1 .. n + 1 : i \in 1 .. n \/ i = n + 1
  BY <1>1
<1>4b. \A i \in 1 .. n + 1 : t[i] \in 1 .. Len(e)
  <2>1. \A i \in 1 .. n : s[i] \in 1 .. Len(e)
    BY <1>2
  <2>2. QED
    BY <1>0, <1>1, <1>4, <2>1
<1>5. ASSUME NEW i \in 1 .. n
      PROVE  /\ e[t[i]].prev = IF i = 1 THEN 0 ELSE t[i - 1]
             /\ e[t[i]].next = t[i + 1]
  <2>1. t[i] = s[i] /\ s[i] \in 1 .. Len(d) /\ s[i] # c
    BY <1>1, <1>2
  <2>2. e[s[i]].next = (IF i = n THEN c ELSE d[s[i]].next) /\ e[s[i]].prev = d[s[i]].prev
    BY <1>0, <1>3
  <2>3. i # 1 => i - 1 \in 1 .. n /\ t[i - 1] = s[i - 1]
    BY <1>1
  <2>4. i # n => i + 1 \in 1 .. n /\ t[i + 1] = s[i + 1]
    BY <1>1
  <2>5. i = n => t[i + 1] = c
    BY <1>1
  <2>6. /\ d[s[i]].prev = IF i = 1 THEN 0 ELSE s[i - 1]
        /\ d[s[i]].next = IF i = n THEN 0 ELSE s[i + 1]
    BY <1>2
  <2>7. QED
    BY <2>1, <2>2, <2>3, <2>4, <2>5, <2>6
<1>6. e[t[n + 1]].prev = (IF n + 1 = 1 THEN 0 ELSE t[n + 1 - 1]) /\ e[t[n + 1]].next = 0
  BY <1>0, <1>1, <1>2
<1>7. \A i \in 1 .. n + 1 :
         /\ e[t[i]].prev = IF i = 1 THEN 0 ELSE t[i - 1]
         /\ e[t[i]].next = IF i = n + 1 THEN 0 ELSE t[i + 1]
  <2>1. ASSUME NEW i \in 1 .. n
        PROVE  /\ e[t[i]].prev = IF i = 1 THEN 0 ELSE t[i - 1]
               /\ e[t[i]].next = IF i = n + 1 THEN 0 ELSE t[i + 1]
    <3>1. i # n + 1
      BY <1>1
    <3>2. QED
      BY <1>5, <3>1
  <2>2. ASSUME NEW i \in 1 .. n + 1, i = n + 1
        PROVE  /\ e[t[i]].prev = IF i = 1 THEN 0 ELSE t[i - 1]
               /\ e[t[i]].next = IF i = n + 1 THEN 0 ELSE t[i + 1]
    <3>1. e[t[i]].prev = (IF i = 1 THEN 0 ELSE t[i - 1]) /\ e[t[i]].next = 0
      <4>1. n + 1 - 1 = i - 1
        BY <1>1, <2>2
      <4>2. t[n + 1 - 1] = t[i - 1] /\ t[n + 1] = t[i]
        BY <4>1, <2>2, Zenon
      <4>3. QED
        BY <1>6, <2>2, <4>2, Zenon
    <3>2. QED
      BY <3>1, <2>2, Zenon
  <2>3. QED
    BY <1>4, <2>1, <2>2
<1>8. \A i, j \in 1 .. n + 1 : i # j => t[i] # t[j]
  <2>1. \A i \in 1 .. n : t[i] # t[n + 1]
    BY <1>1, <1>2
  <2>2. \A i, j \in 1 .. n : i # j => t[i] # t[j]
    BY <1>1, <1>2
  <2>3. QED
    BY <1>4, <2>1, <2>2
<1>9. (IF last = 0 THEN c ELSE first) = First(t) /\ c = Last(t)
  <2>1. last = 0 <=> n = 0
    BY <1>1, <1>2
  <2>2. n # 0 => t[1] = s[1]
    BY <1>1
  <2>3. QED
    BY <1>1, <1>2, <2>1, <2>2 DEF First, Last
<1>10. Chain(e, t, IF last = 0 THEN c ELSE first, c)
  <2>1. Len(t) = n + 1
    BY <1>1
  <2>2. QED
    BY <2>1, <1>4b, <1>7, <1>8, <1>9 DEF Chain
<1>11. QED
  BY <1>10 DEF t

\* A frame that is passed over by its neighbours leaves its chain.
LEMMA ChainRemove ==
    ASSUME NEW d, NEW e, NEW s \in Seq(Nat), NEW first, NEW last, NEW k \in 1 .. Len(s),
           Len(d) \in Nat, Len(e) \in Nat, Len(d) <= Len(e),
           Chain(d, s, first, last), PassedBy(d, e, s, s[k])
    PROVE  Chain(e, Without(s, k), IF first = s[k] THEN d[s[k]].next ELSE first,
                                   IF last = s[k] THEN d[s[k]].prev ELSE last)
<1> DEFINE n == Len(s)
           t == Without(s, k)
           p == d[s[k]].prev
           q == d[s[k]].next
<1>1. /\ n \in Nat \ {0} /\ k \in 1 .. n /\ Len(t) = n - 1
      /\ \A i \in 1 .. n - 1 : i < k => t[i] = s[i]
      /\ \A i \in 1 .. n - 1 : i >= k => t[i] = s[i + 1]
  BY DEF Without
<1>2. /\ first = s[1] /\ last = s[n]
      /\ \A i \in 1 .. n : s[i] \in 1 .. Len(d)
      /\ \A i \in 1 .. n : d[s[i]].prev = IF i = 1 THEN 0 ELSE s[i - 1]
      /\ \A i \in 1 .. n : d[s[i]].next = IF i = n THEN 0 ELSE s[i + 1]
      /\ \A i, j \in 1 .. n : i # j => s[i] # s[j]
  BY DEF Chain, First, Last
<1>3. p = (IF k = 1 THEN 0 ELSE s[k - 1]) /\ q = IF k = n THEN 0 ELSE s[k + 1]
  BY <1>1, <1>2
<1>4. \A i \in 1 .. n : s[i] # s[k] => /\ e[s[i]].next = IF s[i] = p THEN q ELSE d[s[i]].next
                                       /\ e[s[i]].prev = IF s[i] = q THEN p ELSE d[s[i]].prev
  BY DEF On, PassedBy
<1> HIDE DEF n, t, p, q
<1>5. ASSUME NEW i \in 1 .. n, i # k
      PROVE  /\ s[i] \in 1 .. Len(d) /\ s[i] # s[k]
             /\ s[i] = p <=> i = k - 1
             /\ s[i] = q <=> i = k + 1
  <2>1. s[i] \in 1 .. Len(d) /\ s[i] # s[k]
    BY <1>1, <1>2, <1>5
  <2>2. s[i] = p <=> i = k - 1
    <3>1. CASE k = 1
      BY <1>1, <1>3, <2>1, <3>1
    <3>2. CASE k # 1
      <4>1. k - 1 \in 1 .. n /\ p = s[k - 1]
        BY <1>1, <1>3, <3>2
      <4>2. QED
        BY <1>2, <4>1
    <3>3. QED
      BY <3>1, <3>2
  <2>3. s[i] = q <=> i = k + 1
    <3>1. CASE k = n
      BY <1>1, <1>3, <2>1, <3>1
    <3>2. CASE k # n
      <4>1. k + 1 \in 1 .. n /\ q = s[k + 1]
        BY <1>1, <1>3, <3>2
      <4>2. QED
        BY <1>2, <4>1
    <3>3. QED
      BY <3>1, <3>2
  <2>4. QED
    BY <2>1, <2>2, <2>3
<1>6. \A i \in 1 .. n - 1 : t[i] \in 1 .. Len(e)
  <2>1. \A i \in 1 .. n : s[i] \in 1 .. Len(e)
    BY <1>2
  <2>2. ASSUME NEW i \in 1 .. n - 1  PROVE t[i] = s[i] \/ t[i] = s[i + 1]
    BY <1>1
  <2>3. \A i \in 1 .. n - 1 : i \in 1 .. n /\ i + 1 \in 1 .. n
    BY <1>1
  <2>4. QED
    BY <2>1, <2>2, <2>3
<1>7. ASSUME NEW i \in 1 .. n - 1, NEW j \in 1 .. n - 1, i # j  PROVE t[i] # t[j]
  <2> DEFINE u(x) == IF x < k THEN x ELSE x + 1
  <2>1. u(i) \in 1 .. n /\ u(j) \in 1 .. n /\ u(i) # u(j)
    BY <1>1, <1>7
  <2>2. t[i] = s[u(i)]
    BY <1>1
  <2>3. t[j] = s[u(j)]
    BY <1>1
  <2> HIDE DEF u
  <2>4. s[u(i)] # s[u(j)]
    BY <1>2, <2>1
  <2>5. QED
    BY <2>2, <2>3, <2>4
<1>8. ASSUME NEW i \in 1 .. n - 1
      PROVE  /\ e[t[i]].prev = IF i = 1 THEN 0 ELSE t[i - 1]
             /\ e[t[i]].next = IF i = n - 1 THEN 0 ELSE t[i + 1]
  <2>1. CASE i < k
    <3>1. t[i] = s[i] /\ i \in 1 .. n /\ i # k /\ i # k + 1
      BY <1>1, <2>1
    <3>2. /\ e[s[i]].next = IF i = k - 1 THEN q ELSE d[s[i]].next
          /\ e[s[i]].prev = d[s[i]].prev
      BY <1>4, <1>5, <3>1
    <3>3. i # 1 => t[i - 1] = s[i - 1]
      <4>1. i # 1 => i - 1 \in 1 .. n - 1 /\ i - 1 < k
        BY <1>1, <2>1
      <4>2. QED
        BY <1>1, <4>1
    <3>4. i # k - 1 => i # n /\ i # n - 1 /\ t[i + 1] = s[i + 1]
      <4>1. i # k - 1 => i + 1 \in 1 .. n - 1 /\ i + 1 < k /\ i # n /\ i # n - 1
        BY <1>1, <2>1
      <4>2. QED
        BY <1>1, <4>1
    <3>5. i = k - 1 => (i = n - 1 <=> k = n) /\ (i # n - 1 => t[i + 1] = s[k + 1])
      <4>1. i = k - 1 /\ i # n - 1 => i + 1 \in 1 .. n - 1 /\ i + 1 >= k /\ i + 2 = k + 1
        BY <1>1, <2>1
      <4>2. QED
        BY <1>1, <4>1
    <3>6. e[t[i]].prev = IF i = 1 THEN 0 ELSE t[i - 1]
      BY <1>2, <3>1, <3>2, <3>3
    <3>7. e[t[i]].next = IF i = n - 1 THEN 0 ELSE t[i + 1]
      BY <1>2, <1>3, <3>1, <3>2, <3>4, <3>5
    <3>8. QED
      BY <3>6, <3>7
  <2>2. CASE i >= k
    <3>1. t[i] = s[i + 1] /\ i + 1 \in 1 .. n /\ i + 1 # k /\ i + 1 # k - 1
      BY <1>1, <2>2
    <3>2. /\ e[s[i + 1]].next = d[s[i + 1]].next
          /\ e[s[i + 1]].prev = IF i = k THEN p ELSE d[s[i + 1]].prev
      <4>1. /\ s[i + 1] \in 1 .. Len(d) /\ s[i + 1] # s[k] /\ s[i + 1] # p
            /\ s[i + 1] = q <=> i + 1 = k + 1
        BY <1>5, <3>1
      <4>2. i + 1 = k + 1 <=> i = k
        BY <1>1
      <4>3. QED
        <5> DEFINE j == i + 1
        <5>1. j \in 1 .. n /\ s[j] # s[k]
          BY <3>1, <4>1
        <5>2. /\ e[s[j]].next = IF s[j] = p THEN q ELSE d[s[j]].next
              /\ e[s[j]].prev = IF s[j] = q THEN p ELSE d[s[j]].prev
          BY <1>4, <5>1
        <5>3. QED
          BY <4>1, <4>2, <5>2
    <3>3. d[s[i + 1]].prev = s[i] /\ d[s[i + 1]].next = IF i = n - 1 THEN 0 ELSE s[i + 2]
      <4>1. /\ d[s[i + 1]].prev = IF i + 1 = 1 THEN 0 ELSE s[i + 1 - 1]
            /\ d[s[i + 1]].next = IF i + 1 = n THEN 0 ELSE s[i + 1 + 1]
        BY <1>2, <3>1
      <4>2. i + 1 # 1 /\ i + 1 - 1 = i /\ (i + 1 = n <=> i = n - 1) /\ i + 1 + 1 = i + 2
        BY <1>1
      <4>3. QED
        BY <4>1, <4>2
    <3>4. i # n - 1 => t[i + 1] = s[i + 2]
      <4>1. i # n - 1 => i + 1 \in 1 .. n - 1 /\ i + 1 >= k /\ i + 1 + 1 = i + 2
        BY <1>1, <2>2
      <4>2. QED
        BY <1>1, <4>1
    <3>5. i # k => i # 1 /\ t[i - 1] = s[i]
      <4>1. i # k => i - 1 \in 1 .. n - 1 /\ i - 1 >= k /\ i - 1 + 1 = i /\ i # 1
        BY <1>1, <2>2
      <4>2. QED
        BY <1>1, <4>1
    <3>6. i = k => p = IF i = 1 THEN 0 ELSE t[i - 1]
      <4>1. i = k /\ i # 1 => i - 1 \in 1 .. n - 1 /\ i - 1 < k
        BY <1>1
      <4>2. QED
        BY <1>1, <1>3, <4>1
    <3>7. QED
      BY <3>1, <3>2, <3>3, <3>4, <3>5, <3>6
  <2>3. QED
    BY <1>1, <2>1, <2>2
<1>9. (IF first = s[k] THEN q ELSE first) = First(t)
  <2>1. s[1] = s[k] <=> k = 1
    BY <1>1, <1>2
  <2>2. n # 1 => t[1] = IF k = 1 THEN s[2] ELSE s[1]
    <3>1. n # 1 => 1 \in 1 .. n - 1 /\ (k # 1 => 1 < k)
      BY <1>1
    <3>2. QED
      BY <1>1, <3>1
  <2>3. k = 1 => q = IF n = 1 THEN 0 ELSE s[2]
    BY <1>3
  <2>4. k # 1 => n # 1
    BY <1>1
  <2>5. QED
    BY <1>1, <1>2, <2>1, <2>2, <2>3, <2>4 DEF First
<1>10. (IF last = s[k] THEN p ELSE last) = Last(t)
  <2>1. s[n] = s[k] <=> k = n
    <3>1. n \in 1 .. n
      BY <1>1
    <3>2. QED
      BY <1>1, <1>2, <3>1
  <2>2. n # 1 => t[n - 1] = IF k = n THEN s[n - 1] ELSE s[n]
    <3>1. n # 1 => n - 1 \in 1 .. n - 1 /\ (k = n => n - 1 < k) /\ (k # n => n - 1 >= k) /\ n - 1 + 1 = n
      BY <1>1
    <3>2. QED
      BY <1>1, <3>1
  <2>3. k = n => p = IF n = 1 THEN 0 ELSE s[n - 1]
    BY <1>3
  <2>4. k # n => n # 1
    BY <1>1
  <2>5. QED
    BY <1>1, <1>2, <2>1, <2>2, <2>3, <2>4 DEF Last
<1>11. Chain(e, t, IF first = s[k] THEN q ELSE first, IF last = s[k] THEN p ELSE last)
  <2>1. Len(t) = n - 1
    BY <1>1
  <2>2. QED
    BY <2>1, <1>6, <1>7, <1>8, <1>9, <1>10 DEF Chain
<1>12. QED
  BY <1>11 DEF t, p, q
LEMMA OnAppend ==
    ASSUME NEW s \in Seq(Nat), NEW c \in Nat
    PROVE  Append(s, c) \in Seq(Nat) /\ On(Append(s, c)) = On(s) \cup {c}
<1> DEFINE n == Len(s)
           t == Append(s, c)
<1>1. n \in Nat /\ t \in Seq(Nat) /\ Len(t) = n + 1 /\ t[n + 1] = c /\ \A i \in 1 .. n : t[i] = s[i]
  OBVIOUS
<1>2. \A i : i \in 1 .. n + 1 <=> i \in 1 .. n \/ i = n + 1
  BY <1>1
<1> HIDE DEF n, t
<1>3. {t[i] : i \in 1 .. n + 1} = {s[i] : i \in 1 .. n} \cup {c}
  BY <1>1, <1>2, Zenon
<1>4. Len(t) = n + 1
  BY <1>1
<1>5. On(t) = {t[i] : i \in 1 .. n + 1}
  BY <1>4, Zenon DEF On
<1>6. QED
  BY <1>1, <1>3, <1>5, Zenon DEF On, n, t

LEMMA OnWithout ==
    ASSUME NEW s \in Seq(Nat), NEW k \in 1 .. Len(s),
           \A i, j \in 1 .. Len(s) : i # j => s[i] # s[j]
    PROVE  Without(s, k) \in Seq(Nat) /\ On(Without(s, k)) = On(s) \ {s[k]}
<1> DEFINE n == Len(s)
           t == Without(s, k)
<1>1. /\ n \in Nat \ {0} /\ k \in 1 .. n /\ Len(t) = n - 1 /\ t \in Seq(Nat)
      /\ \A i \in 1 .. n - 1 : i < k => t[i] = s[i]
      /\ \A i \in 1 .. n - 1 : i >= k => t[i] = s[i + 1]
  BY DEF Without
<1>2. \A i, j \in 1 .. n : i # j => s[i] # s[j]
  OBVIOUS
<1> HIDE DEF n, t
<1>3. ASSUME NEW i \in 1 .. n - 1  PROVE \E j \in 1 .. n : t[i] = s[j] /\ s[j] # s[k]
  <2>1. CASE i < k
    <3>1. i \in 1 .. n /\ i # k /\ t[i] = s[i]
      BY <1>1, <2>1
    <3>2. QED
      BY <1>1, <1>2, <3>1
  <2>2. CASE i >= k
    <3>1. i + 1 \in 1 .. n /\ i + 1 # k /\ t[i] = s[i + 1]
      BY <1>1, <2>2
    <3>2. QED
      BY <1>1, <1>2, <3>1
  <2>3. QED
    BY <1>1, <2>1, <2>2
<1>4. ASSUME NEW j \in 1 .. n, s[j] # s[k]  PROVE \E i \in 1 .. n - 1 : t[i] = s[j]
  <2>1. j # k
    BY <1>4
  <2>2. CASE j < k
    <3>1. j \in 1 .. n - 1 /\ t[j] = s[j]
      BY <1>1, <2>2
    <3>2. QED
      BY <3>1
  <2>3. CASE j > k
    <3>1. j - 1 \in 1 .. n - 1 /\ j - 1 >= k /\ j - 1 + 1 = j
      BY <1>1, <2>3
    <3>2. t[j - 1] = s[j]
      BY <1>1, <3>1
    <3>3. QED
      BY <3>1, <3>2
  <2>4. QED
    BY <1>1, <2>1, <2>2, <2>3
<1>5. {t[i] : i \in 1 .. n - 1} = {s[i] : i \in 1 .. n} \ {s[k]}
  BY <1>3, <1>4
<1>6. Len(t) = n - 1
  BY <1>1
<1>7. On(t) = {t[i] : i \in 1 .. n - 1}
  BY <1>6, Zenon DEF On
<1>8. QED
  BY <1>1, <1>5, <1>7, Zenon DEF On, n, t

\* From d under the header h to e under g: the message c becomes the last free frame.
Freeing(d, e, h, g, c) ==
    /\ Len(e) = Len(d)
    /\ e[c].free /\ e[c].next = 0 /\ e[c].prev = h.lastf
    /\ \A f \in 1 .. Len(d) : f # c =>
          /\ e[f].next = IF f = d[c].prev THEN d[c].next
                         ELSE IF f = h.lastf THEN c ELSE d[f].next
          /\ e[f].prev = IF f = d[c].next THEN d[c].prev ELSE d[f].prev
          /\ e[f].free = d[f].free
    /\ g.first = (IF h.first = c THEN d[c].next ELSE h.first)
    /\ g.last = (IF h.last = c THEN d[c].prev ELSE h.last)
    /\ g.firstf = (IF h.lastf = 0 THEN c ELSE h.firstf) /\ g.lastf = c

LEMMA MoveToFree ==
    ASSUME NEW d, NEW e, NEW m \in Seq(Nat), NEW l \in Seq(Nat), NEW h, NEW g,
           NEW k \in 1 .. Len(m), NEW c \in Nat,
           Len(d) \in Nat, Whole(d, m, l, h, {}), c = m[k], Freeing(d, e, h, g, c)
    PROVE  Whole(e, Without(m, k), Append(l, c), g, {})
<1> DEFINE p == d[c].prev
           q == d[c].next
<1>0. /\ Len(e) = Len(d)
      /\ e[c].free /\ e[c].next = 0 /\ e[c].prev = h.lastf
      /\ \A f \in 1 .. Len(d) : f # c =>
            /\ e[f].next = IF f = p THEN q ELSE IF f = h.lastf THEN c ELSE d[f].next
            /\ e[f].prev = IF f = q THEN p ELSE d[f].prev
            /\ e[f].free = d[f].free
      /\ g.first = (IF h.first = c THEN q ELSE h.first)
      /\ g.last = (IF h.last = c THEN p ELSE h.last)
      /\ g.firstf = (IF h.lastf = 0 THEN c ELSE h.firstf) /\ g.lastf = c
  BY DEF Freeing
<1>1. /\ Chain(d, m, h.first, h.last) /\ Chain(d, l, h.firstf, h.lastf) /\ Shared(d, m, l, {})
      /\ \A i, j \in 1 .. Len(m) : i # j => m[i] # m[j]
  BY DEF Whole, Chain
<1>2. /\ On(Without(m, k)) = On(m) \ {c} /\ On(Append(l, c)) = On(l) \cup {c} /\ c \in On(m)
      /\ c \in Nat /\ c \in 1 .. Len(d)
  <2>1. c \in On(m) /\ c \in Nat /\ c \in 1 .. Len(d)
    BY <1>1 DEF On, Chain
  <2>2. QED
    BY <1>1, <2>1, OnAppend, OnWithout
<1>3. On(m) \cap On(l) = {} /\ c \notin On(l)
  <2>1. \A f \in 1 .. Len(d) : ~(f \in On(m) /\ f \in On(l))
    BY <1>1 DEF Shared
  <2>2. On(m) \subseteq 1 .. Len(d)
    BY <1>1 DEF Chain, On
  <2>3. QED
    BY <1>2, <2>1, <2>2
<1>4. /\ p = 0 \/ p \in On(m)
      /\ q = 0 \/ q \in On(m)
      /\ h.lastf = 0 \/ h.lastf \in On(l)
  <2>1. p = (IF k = 1 THEN 0 ELSE m[k - 1]) /\ q = IF k = Len(m) THEN 0 ELSE m[k + 1]
    BY <1>1 DEF Chain
  <2>2. (k # 1 => k - 1 \in 1 .. Len(m)) /\ (k # Len(m) => k + 1 \in 1 .. Len(m))
    OBVIOUS
  <2>3. h.lastf = IF Len(l) = 0 THEN 0 ELSE l[Len(l)]
    BY <1>1 DEF Chain, Last
  <2>4. Len(l) # 0 => Len(l) \in 1 .. Len(l)
    OBVIOUS
  <2>5. QED
    BY <2>1, <2>2, <2>3, <2>4 DEF On
<1>9. On(m) \subseteq 1 .. Len(d) /\ On(l) \subseteq 1 .. Len(d) /\ 0 \notin 1 .. Len(d)
  BY <1>1 DEF Chain, On
<1>5. Chain(e, Without(m, k), g.first, g.last)
  <2>1. PassedBy(d, e, m, m[k])
    BY <1>0, <1>3, <1>4, <1>9 DEF PassedBy
  <2>2. QED
    <3>1. Len(d) <= Len(e) /\ Len(e) \in Nat
      BY <1>0
    <3>2. Chain(e, Without(m, k), IF h.first = m[k] THEN d[m[k]].next ELSE h.first,
                                  IF h.last = m[k] THEN d[m[k]].prev ELSE h.last)
      BY ONLY <1>1, <2>1, <3>1, ChainRemove, m \in Seq(Nat), k \in 1 .. Len(m), Len(d) \in Nat
    <3>3. QED
      BY <1>0, <3>2
<1>6. Chain(e, Append(l, c), g.firstf, g.lastf)
  <2>1. TiedTo(d, e, l, h.lastf, c)
    BY <1>0, <1>2, <1>3, <1>4, <1>9 DEF TiedTo
  <2>2. Len(d) <= Len(e) /\ Len(e) \in Nat
    BY <1>0
  <2>3. Chain(e, Append(l, c), IF h.lastf = 0 THEN c ELSE h.firstf, c)
    BY <1>1, <2>1, <2>2, ChainAppend
  <2>4. QED
    BY <1>0, <2>3
<1>7. Shared(e, Without(m, k), Append(l, c), {})
  BY <1>0, <1>1, <1>2, <1>3 DEF Shared
<1>10. QED
  BY <1>5, <1>6, <1>7 DEF Whole

\* The free frame c leaves its chain.
Taking(d, e, h, g, c) ==
    /\ Len(e) = Len(d)
    /\ \A f \in 1 .. Len(d) : e[f].free = d[f].free
    /\ \A f \in 1 .. Len(d) : f # c =>
          /\ e[f].next = IF f = d[c].prev THEN d[c].next ELSE d[f].next
          /\ e[f].prev = IF f = d[c].next THEN d[c].prev ELSE d[f].prev
    /\ g.first = h.first /\ g.last = h.last
    /\ g.firstf = (IF h.firstf = c THEN d[c].next ELSE h.firstf)
    /\ g.lastf = (IF h.lastf = c THEN d[c].prev ELSE h.lastf)

LEMMA TakeFree ==
    ASSUME NEW d, NEW e, NEW m \in Seq(Nat), NEW l \in Seq(Nat), NEW h, NEW g,
           NEW k \in 1 .. Len(l), NEW c \in Nat,
           Len(d) \in Nat, Whole(d, m, l, h, {}), c = l[k], Taking(d, e, h, g, c)
    PROVE  Whole(e, m, Without(l, k), g, {c})
<1> DEFINE p == d[c].prev
           q == d[c].next
<1>0. /\ Len(e) = Len(d) /\ Len(d) <= Len(e) /\ Len(e) \in Nat
      /\ \A f \in 1 .. Len(d) : e[f].free = d[f].free
      /\ \A f \in 1 .. Len(d) : f # c =>
            /\ e[f].next = IF f = p THEN q ELSE d[f].next
            /\ e[f].prev = IF f = q THEN p ELSE d[f].prev
      /\ g.first = h.first /\ g.last = h.last
      /\ g.firstf = (IF h.firstf = c THEN q ELSE h.firstf)
      /\ g.lastf = (IF h.lastf = c THEN p ELSE h.lastf)
  BY DEF Taking
<1>1. /\ Chain(d, m, h.first, h.last) /\ Chain(d, l, h.firstf, h.lastf) /\ Shared(d, m, l, {})
      /\ \A i, j \in 1 .. Len(l) : i # j => l[i] # l[j]
  BY DEF Whole, Chain
<1>2. On(Without(l, k)) = On(l) \ {c} /\ c \in On(l) /\ c \in 1 .. Len(d)
  <2>1. c \in On(l) /\ c \in 1 .. Len(d)
    BY <1>1 DEF On, Chain
  <2>2. QED
    BY <1>1, <2>1, OnWithout
<1>3. On(m) \subseteq 1 .. Len(d) /\ On(l) \subseteq 1 .. Len(d) /\ 0 \notin 1 .. Len(d)
  BY <1>1 DEF Chain, On
<1>4. On(m) \cap On(l) = {} /\ c \notin On(m)
  <2>1. \A f \in 1 .. Len(d) : ~(f \in On(m) /\ f \in On(l))
    BY <1>1 DEF Shared
  <2>2. QED
    BY <1>2, <1>3, <2>1
<1>5. /\ p = 0 \/ p \in On(l)
      /\ q = 0 \/ q \in On(l)
  <2>1. p = (IF k = 1 THEN 0 ELSE l[k - 1]) /\ q = IF k = Len(l) THEN 0 ELSE l[k + 1]
    BY <1>1 DEF Chain
  <2>2. (k # 1 => k - 1 \in 1 .. Len(l)) /\ (k # Len(l) => k + 1 \in 1 .. Len(l))
    OBVIOUS
  <2>3. QED
    BY <2>1, <2>2 DEF On
<1>6. Chain(e, Without(l, k), g.firstf, g.lastf)
  <2>1. PassedBy(d, e, l, l[k])
    BY <1>0, <1>3 DEF PassedBy
  <2>2. Chain(e, Without(l, k), IF h.firstf = l[k] THEN d[l[k]].next ELSE h.firstf,
                                IF h.lastf = l[k] THEN d[l[k]].prev ELSE h.lastf)
    BY ONLY <1>0, <1>1, <2>1, ChainRemove, l \in Seq(Nat), k \in 1 .. Len(l), Len(d) \in Nat
  <2>3. QED
    BY <1>0, <2>2
<1>7. Chain(e, m, g.first, g.last)
  <2>1. \A f \in On(m) : e[f].next = d[f].next /\ e[f].prev = d[f].prev
    BY <1>0, <1>3, <1>4, <1>5
  <2>2. \A i \in 1 .. Len(m) : e[m[i]].next = d[m[i]].next /\ e[m[i]].prev = d[m[i]].prev
    BY <2>1 DEF On
  <2>3. Chain(e, m, h.first, h.last)
    BY <1>0, <1>1, <2>2, ChainSame
  <2>4. QED
    BY <1>0, <2>3
<1>8. Shared(e, m, Without(l, k), {c})
  BY <1>0, <1>1, <1>2, <1>4 DEF Shared
<1>9. QED
  BY <1>6, <1>7, <1>8 DEF Whole

\* The frame c, taken or new, becomes the last message.
Adding(d, e, h, g, c, X) ==
    /\ \/ X = {c} /\ c \in 1 .. Len(d) /\ Len(e) = Len(d)
       \/ X = {} /\ c = Len(d) + 1 /\ Len(e) = Len(d) + 1
    /\ ~e[c].free /\ e[c].next = 0 /\ e[c].prev = h.last
    /\ \A f \in 1 .. Len(d) : f # c =>
          /\ e[f].next = IF f = h.last THEN c ELSE d[f].next
          /\ e[f].prev = d[f].prev
          /\ e[f].free = d[f].free
    /\ g.first = (IF h.last = 0 THEN c ELSE h.first) /\ g.last = c
    /\ g.firstf = h.firstf /\ g.lastf = h.lastf

LEMMA AddMessage ==
    ASSUME NEW d, NEW e, NEW m \in Seq(Nat), NEW l \in Seq(Nat), NEW h, NEW g,
           NEW c \in Nat, NEW X,
           Len(d) \in Nat, Whole(d, m, l, h, X), Adding(d, e, h, g, c, X)
    PROVE  Whole(e, Append(m, c), l, g, {})
<1>0. /\ Len(d) <= Len(e) /\ Len(e) \in Nat /\ c \in 1 .. Len(e)
      /\ 1 .. Len(e) = (1 .. Len(d)) \cup {c}
      /\ (X = {} /\ c \notin 1 .. Len(d)) \/ (X = {c} /\ c \in 1 .. Len(d))
  <2>1. \/ X = {c} /\ c \in 1 .. Len(d) /\ Len(e) = Len(d)
        \/ X = {} /\ c = Len(d) + 1 /\ Len(e) = Len(d) + 1
    BY DEF Adding
  <2>2. CASE X = {c} /\ c \in 1 .. Len(d) /\ Len(e) = Len(d)
    BY <2>2
  <2>3. CASE X = {} /\ c = Len(d) + 1 /\ Len(e) = Len(d) + 1
    <3>1. Len(d) <= Len(e) /\ Len(e) \in Nat /\ c \in 1 .. Len(e) /\ c \notin 1 .. Len(d)
      BY <2>3
    <3>2. 1 .. Len(e) = (1 .. Len(d)) \cup {c}
      <4>1. \A f : f \in 1 .. Len(e) <=> f \in 1 .. Len(d) \/ f = c
        BY <2>3
      <4>2. QED
        BY <4>1, Zenon
    <3>3. QED
      BY <2>3, <3>1, <3>2
  <2>4. QED
    BY <2>1, <2>2, <2>3
<1>1. Chain(d, m, h.first, h.last) /\ Chain(d, l, h.firstf, h.lastf) /\ Shared(d, m, l, X)
  BY DEF Whole
<1>2. On(Append(m, c)) = On(m) \cup {c}
  BY OnAppend
<1>3. On(m) \subseteq 1 .. Len(d) /\ On(l) \subseteq 1 .. Len(d) /\ 0 \notin 1 .. Len(d)
  <2>1. On(m) \subseteq 1 .. Len(d)
    BY <1>1 DEF Chain, On
  <2>2. On(l) \subseteq 1 .. Len(d)
    BY <1>1 DEF Chain, On
  <2>3. QED
    BY <2>1, <2>2
<1>4. On(m) \cap On(l) = {} /\ c \notin On(m) /\ c \notin On(l)
  <2>1. \A f \in 1 .. Len(d) : ~(f \in On(m) /\ f \in On(l))
    BY <1>1 DEF Shared
  <2>2. c \in 1 .. Len(d) => c \notin On(m) /\ c \notin On(l)
    BY <1>0, <1>1 DEF Shared
  <2>3. QED
    BY <1>3, <2>1, <2>2
<1>5. h.last = 0 \/ h.last \in On(m)
  <2>1. h.last = IF Len(m) = 0 THEN 0 ELSE m[Len(m)]
    BY <1>1 DEF Chain, Last
  <2>2. Len(m) # 0 => Len(m) \in 1 .. Len(m)
    OBVIOUS
  <2>3. QED
    BY <2>1, <2>2 DEF On
<1>6. Chain(e, Append(m, c), g.first, g.last)
  <2>1. TiedTo(d, e, m, h.last, c)
    BY <1>0, <1>3, <1>4 DEF TiedTo, Adding
  <2>2. Chain(e, Append(m, c), IF h.last = 0 THEN c ELSE h.first, c)
    BY <1>0, <1>1, <2>1, ChainAppend
  <2>3. QED
    BY <2>2 DEF Adding
<1>7. Chain(e, l, g.firstf, g.lastf)
  <2>1. \A f \in On(l) : e[f].next = d[f].next /\ e[f].prev = d[f].prev
    BY <1>3, <1>4, <1>5 DEF Adding
  <2>2. \A i \in 1 .. Len(l) : e[l[i]].next = d[l[i]].next /\ e[l[i]].prev = d[l[i]].prev
    BY <2>1 DEF On
  <2>3. Chain(e, l, h.firstf, h.lastf)
    BY <1>0, <1>1, <2>2, ChainSame
  <2>4. QED
    BY <2>3 DEF Adding
<1>8. Shared(e, Append(m, c), l, {})
  BY <1>0, <1>1, <1>2, <1>4 DEF Shared, Adding
<1>9. QED
  BY <1>6, <1>7, <1>8 DEF Whole
-----------------------------------------------------------------------------
(* A base on which no call was killed: the steps. *)

Sane == TypeOK /\ CallInv

LEMMA UsableLimit ==
    ASSUME Usable, maxmsg \in Limits, maxmsg # 0
    PROVE  maxmsg \in Nat /\ maxmsg >= 2 /\ Skip = 0
  BY SquishAssumption DEF Usable

\* Both ends of the free chain are free frames, or there is none.
LEMMA FreeEnds ==
    ASSUME NEW d, NEW m, NEW h, NEW X, Len(d) \in Nat, Shape(d, m, h, X)
    PROVE  /\ h.firstf # 0 => h.firstf \in 1 .. Len(d) /\ d[h.firstf].free /\ h.firstf \notin X
           /\ h.lastf # 0 => h.lastf \in 1 .. Len(d) /\ d[h.lastf].free /\ h.lastf \notin X
           /\ h.firstf = 0 <=> h.lastf = 0
<1>1. PICK l \in Seq(Nat) : Chain(d, l, h.firstf, h.lastf) /\ Shared(d, m, l, X)
  BY DEF Shape, Whole, Lists
<1>2. \A i \in 1 .. Len(l) : l[i] \in 1 .. Len(d) /\ d[l[i]].free /\ l[i] \notin X
  BY <1>1 DEF Chain, Shared, On
<1>3. Len(l) # 0 => 1 \in 1 .. Len(l) /\ Len(l) \in 1 .. Len(l)
  OBVIOUS
<1>4. /\ h.firstf = IF Len(l) = 0 THEN 0 ELSE l[1]
      /\ h.lastf = IF Len(l) = 0 THEN 0 ELSE l[Len(l)]
  BY <1>1 DEF Chain, First, Last
<1>5. QED
  BY <1>2, <1>3, <1>4

\* The first message to drop can be read: a call that starts does not give up.
LEMMA Started ==
    ASSUME Usable, Sane, NEW size \in Sizes, Start(size)
    PROVE  \/ Full(hdr) /\ pc' = "purge" /\ cur' = sqi[Skip + 1].off
           \/ ~Full(hdr) /\ pc' = "find" /\ cur' = hdr.firstf
<1>1. CASE ~Full(hdr)
  BY <1>1 DEF Start
<1>2. CASE Full(hdr)
  <2>1. PICK entry \in FirstToDrop : cur' = entry.off
    BY <1>2 DEF Start
  <2>2. pc' = IF Readable(cur') THEN "purge" ELSE "idle"
    BY <1>2 DEF Start
  <2>3. /\ TypeOK /\ Contents(sqd, sqi, 0, hdr.n, hdr.uid) /\ Len(sqi) = hdr.n
    BY DEF Start, Sane, CallInv, RestInv, AtRest
  <2>4. maxmsg \in Limits /\ maxmsg # 0 /\ hdr.n \in Nat
    BY <1>2, <2>3, SquishAssumption DEF Full, TypeOK, Header
  <2>5. Skip = 0 /\ hdr.n >= 2
    BY <1>2, <2>4, UsableLimit DEF Full
  <2>6. 1 \in 0 + 1 .. 0 + hdr.n /\ Skip < Len(sqi) /\ Skip + 1 = 1
    BY <2>3, <2>4, <2>5
  <2>7. entry = sqi[1]
    BY <2>1, <2>6 DEF FirstToDrop
  <2>8. sqi[1].off \in 1 .. Len(sqd)
    BY <2>3, <2>6 DEF Contents
  <2>9. Readable(cur')
    BY <2>1, <2>7, <2>8 DEF Readable
  <2>10. QED
    BY <1>2, <2>1, <2>2, <2>6, <2>7, <2>9
<1>3. QED
  BY <1>1, <1>2

LEMMA StartSane ==
    ASSUME Usable, Sane, NEW size \in Sizes, Start(size)
    PROVE  Sane'
<1>1. /\ pc = "idle" /\ hdr.uid <= MaxId /\ sqbuf' = hdr /\ msg' = size /\ before' = Listed
      /\ UNCHANGED <<sqd, hdr, sqi, maxmsg, pcurr, killed>>
      /\ \/ Full(hdr) /\ pc' = "purge" /\ cur' = sqi[Skip + 1].off
         \/ ~Full(hdr) /\ pc' = "find" /\ cur' = hdr.firstf
  BY Started DEF Start, disk
<1>2. /\ TypeOK /\ AtRest
      /\ Shape(sqd, Offs(sqi, 0, hdr.n), hdr, {})
      /\ Contents(sqd, sqi, 0, hdr.n, hdr.uid)
      /\ Len(sqi) = hdr.n /\ hdr.endf = Len(sqd) + 1 /\ hdr.uid > 0
      /\ hdr.n = 0 => hdr.firstf = 0
  BY <1>1 DEF Sane, CallInv, RestInv, AtRest
<1>3. /\ Len(sqd) \in Nat /\ hdr.n \in Nat /\ hdr.uid \in Nat /\ maxmsg \in Limits /\ maxmsg \in Nat
      /\ \A i \in 1 .. hdr.n : sqi[i].off \in Nat /\ sqi[i].id \in Nat
      /\ MaxId \in Nat
  <2>1. sqd \in Seq(Frame) /\ sqi \in Seq(Entry) /\ hdr \in Header /\ maxmsg \in Limits
    BY <1>2 DEF TypeOK
  <2>2. \A i \in 1 .. Len(sqi) : sqi[i] \in Entry
    BY <2>1
  <2>3. hdr.n \in Nat /\ hdr.uid \in Nat
    BY <2>1 DEF Header
  <2>4. \A i \in 1 .. hdr.n : sqi[i].off \in Nat /\ sqi[i].id \in Nat
    BY <1>2, <2>2 DEF Entry
  <2>5. QED
    BY <2>1, <2>3, <2>4, SquishAssumption
<1>4. Listed = [i \in 1 .. hdr.n |-> sqi[i].id] /\ Listed \in Seq(Nat) /\ Len(Listed) = hdr.n
  BY <1>2, <1>3 DEF Listed, Count
<1>5. /\ pc' = "purge" => maxmsg >= 2 /\ Skip = 0 /\ hdr.n >= maxmsg
      /\ pc' = "find" => maxmsg = 0 \/ hdr.n < maxmsg
  BY <1>1, <1>2, <1>3, UsableLimit DEF Full
<1>6. TypeOK'
  <2>1. cur' \in Nat
    <3>1. CASE pc' = "find"
      BY <1>1, <1>2, <3>1 DEF TypeOK, Header
    <3>2. CASE pc' = "purge"
      <4>1. 1 \in 1 .. hdr.n /\ Skip + 1 = 1
        BY <1>3, <1>5, <3>2
      <4>2. QED
        BY <1>1, <1>3, <3>2, <4>1
    <3>3. QED
      BY <1>1, <3>1, <3>2
  <2>2. pc' \in Control /\ sqbuf' \in Header /\ msg' \in Sizes \cup {0} /\ before' \in Seq(Nat)
    BY <1>1, <1>2, <1>4 DEF TypeOK, Control
  <2>3. QED
    BY <1>1, <1>2, <2>1, <2>2 DEF TypeOK
<1>7. DropInv' /\ PlaceInv'
  <2>1. CASE pc' = "find"
    <3>1. hdr.firstf # 0 => hdr.firstf \in 1 .. Len(sqd) /\ sqd[hdr.firstf].free
      BY <1>2, <1>3, FreeEnds
    <3>2. Shape(sqd, Offs(sqi, 0, hdr.n), hdr, {}) /\ (hdr.n = 0 => hdr.firstf = 0)
      BY <1>2
    <3>3. QED
      BY <1>1, <2>1, <3>1, <3>2 DEF DropInv, PlaceInv
  <2>2. CASE pc' = "purge"
    <3>1. Skip + 1 = 1
      BY <1>5, <2>2
    <3>2. QED
      BY <1>1, <1>2, <2>2, <3>1 DEF DropInv, PlaceInv
  <2>3. QED
    BY <1>1, <2>1, <2>2
<1>8. RestInv' /\ StoredInv'
  BY <1>1 DEF RestInv, AtRest, StoredInv
<1>9. EntryInv'
  <2>1. /\ Passed' = 0 /\ Live' = hdr.n /\ Number' = hdr.uid /\ ~AtRest'
        /\ ~(pc' = "index")
    <3>1. sqbuf'.n - 0 = hdr.n
      BY <1>1, <1>3
    <3>2. QED
      BY <1>1, <3>1 DEF Passed, Live, Number, AtRest
  <2>2. \A i \in 1 .. hdr.n : sqi[i].id < hdr.uid
    BY <1>2 DEF Contents
  <2>3. \A i \in 1 .. hdr.n : before'[i] = sqi[i].id /\ Len(before') = hdr.n
    BY <1>1, <1>4
  <2>4. \A i \in 1 .. hdr.n : i + hdr.n - 0 - hdr.n = i
    BY <1>3
  <2>5. ~Dropping' => hdr.n = Room(maxmsg, hdr.n)
    BY <1>1, <1>5 DEF Dropping, Room
  <2>6. Dropping' => maxmsg >= 2 /\ hdr.n >= maxmsg
    BY <1>1, <1>5 DEF Dropping
  <2>7. Len(before') = hdr.n
    BY <1>1, <1>4
  <2>8. Contents(sqd, sqi, 0, hdr.n, hdr.uid) /\ hdr.uid \in 1 .. MaxId
    BY <1>1, <1>2, <1>3
  <2>9. \A i \in 0 + 1 .. 0 + hdr.n : sqi[i].id = before'[i + Len(before') - 0 - hdr.n]
    BY <1>3, <2>3, <2>4, <2>7
  <2>10. \A i \in 1 .. Len(before') : before'[i] < hdr.uid
    BY <2>2, <2>3, <2>7
  <2>11. 0 + hdr.n <= Len(before') /\ 0 + hdr.n <= Len(sqi) /\ Len(sqi) \in {hdr.n, hdr.n + 1}
    BY <1>2, <1>3, <2>7
  <2>12. QED
    BY <1>1, <1>2, <2>1, <2>5, <2>6, <2>7, <2>8, <2>9, <2>10, <2>11 DEF EntryInv
<1>10. QED
  BY <1>6, <1>7, <1>8, <1>9 DEF Sane, CallInv

LEMMA MessagesOn ==
    ASSUME NEW d, NEW m \in Seq(Nat), NEW h, NEW X, Len(d) \in Nat, Shape(d, m, h, X)
    PROVE  /\ \A i \in 1 .. Len(m) : m[i] \in 1 .. Len(d) /\ ~d[m[i]].free /\ m[i] \notin X
           /\ \A i, j \in 1 .. Len(m) : i # j => m[i] # m[j]
           /\ h.first = First(m) /\ h.last = Last(m)
<1>1. PICK l \in Seq(Nat) : Chain(d, m, h.first, h.last) /\ Shared(d, m, l, X)
  BY DEF Shape, Whole, Lists
<1>2. \A i \in 1 .. Len(m) : m[i] \in 1 .. Len(d) /\ m[i] \in On(m)
  BY <1>1 DEF Chain, On
<1>3. QED
  BY <1>1, <1>2 DEF Chain, Shared

LEMMA SameContents ==
    ASSUME NEW d, NEW e, NEW x, NEW k, NEW n, NEW uid,
           Contents(d, x, k, n, uid), Len(d) \in Nat, Len(e) \in Nat, Len(d) <= Len(e),
           \A i \in k + 1 .. k + n :
               /\ e[x[i].off].id = d[x[i].off].id /\ e[x[i].off].free = d[x[i].off].free
               /\ e[x[i].off].len = d[x[i].off].len /\ e[x[i].off].size = d[x[i].off].size
    PROVE  Contents(e, x, k, n, uid)
<1>1. \A i \in k + 1 .. k + n : x[i].off \in 1 .. Len(e)
  BY DEF Contents
<1>2. QED
  BY <1>1 DEF Contents

LEMMA OpenSane ==
    ASSUME Sane, Open \/ Close \/ \E m \in Limits : SetLimit(m)
    PROVE  Sane'
<1>1. AtRest /\ AtRest' /\ UNCHANGED <<sqd, sqi, sqbuf, cur, pcurr, msg, before, killed>>
      /\ maxmsg' \in Limits /\ pc' \in {"closed", "idle"}
  BY DEF Open, Close, SetLimit, AtRest, Sane, TypeOK, hist, disk
<1>2. /\ TypeOK /\ Shape(sqd, Offs(sqi, 0, hdr.n), hdr, {}) /\ Contents(sqd, sqi, 0, hdr.n, hdr.uid)
      /\ Len(sqi) = hdr.n /\ hdr.endf = Len(sqd) + 1 /\ hdr.uid > 0
      /\ hdr.n = 0 => hdr.firstf = 0
  BY <1>1 DEF Sane, CallInv, RestInv
<1>3. hdr' = hdr
  <2>1. Count = hdr.n
    BY <1>2 DEF Count
  <2>2. [hdr EXCEPT !.n = hdr.n] = hdr
    BY <1>2 DEF TypeOK, Header
  <2>3. QED
    BY <2>1, <2>2 DEF Open, Close, SetLimit, disk
<1>4. TypeOK'
  BY <1>1, <1>2, <1>3 DEF TypeOK, Control
<1>5. RestInv'
  BY <1>1, <1>2, <1>3 DEF RestInv
<1>6. DropInv' /\ PlaceInv' /\ StoredInv' /\ EntryInv'
  BY <1>1 DEF DropInv, PlaceInv, StoredInv, EntryInv, Busy
<1>7. QED
  BY <1>4, <1>5, <1>6 DEF Sane, CallInv

\* What holds while messages are dropped.
LEMMA DropFacts ==
    ASSUME Sane, Dropping
    PROVE  /\ TypeOK /\ Len(sqd) \in Nat /\ sqbuf.n \in Nat /\ cur \in Nat /\ maxmsg \in Nat
           /\ \A i \in 1 .. Len(sqi) : sqi[i].off \in Nat /\ sqi[i].id \in Nat
           /\ Contents(sqd, sqi, Passed, sqbuf.n - Passed, sqbuf.uid)
           /\ sqbuf.uid \in 1 .. MaxId /\ \A i \in 1 .. Len(before) : before[i] < sqbuf.uid
           /\ sqbuf.n <= Len(before) /\ Len(before) \in Nat /\ Len(sqi) = Len(before)
           /\ \A i \in Passed + 1 .. sqbuf.n : sqi[i].id = before[i + Len(before) - sqbuf.n]
           /\ maxmsg >= 2 /\ sqbuf.n >= maxmsg /\ sqbuf.endf = Len(sqd) + 1
<1>1. /\ sqd \in Seq(Frame) /\ sqi \in Seq(Entry) /\ sqbuf \in Header /\ maxmsg \in Limits /\ cur \in Nat
      /\ before \in Seq(Nat) /\ TypeOK
  BY DEF Sane, TypeOK
<1>2. \A i \in 1 .. Len(sqi) : sqi[i].off \in Nat /\ sqi[i].id \in Nat
  <2>1. \A i \in 1 .. Len(sqi) : sqi[i] \in Entry
    BY <1>1
  <2>2. QED
    BY <2>1 DEF Entry
<1>3. /\ Len(sqd) \in Nat /\ sqbuf.n \in Nat /\ maxmsg \in Nat /\ Len(before) \in Nat
  BY <1>1, SquishAssumption DEF Header
<1>4. Live = sqbuf.n - Passed /\ Passed \in {0, 1} /\ Number = sqbuf.uid /\ Busy
      /\ pc \notin {"header", "index"}
  BY DEF Live, Passed, Number, AtRest, Busy, Dropping
<1>5. EntryInv
  BY DEF Sane, CallInv
<1>6. Passed + Live = sqbuf.n /\ \A x \in Int : x - Passed - Live = x - sqbuf.n
  BY <1>3, <1>4
<1>7. \A i \in Passed + 1 .. sqbuf.n : sqi[i].id = before[i + Len(before) - sqbuf.n]
  <2>1. ASSUME NEW i \in Passed + 1 .. sqbuf.n  PROVE sqi[i].id = before[i + Len(before) - sqbuf.n]
    <3>1. i + Len(before) \in Int
      BY <1>3, <1>4
    <3>2. sqi[i].id = before[i + Len(before) - Passed - Live]
      BY <1>4, <1>5, <1>6 DEF EntryInv
    <3>3. QED
      BY <1>6, <3>1, <3>2
  <2>2. QED
    BY <2>1
<1>8. QED
  BY <1>1, <1>2, <1>3, <1>4, <1>5, <1>6, <1>7 DEF EntryInv

\* The entries are as they were, and the file tells the same of them.
LEMMA DropEntries ==
    ASSUME Sane, Dropping, Dropping',
           UNCHANGED <<sqi, maxmsg, before>>, sqbuf'.n = sqbuf.n, sqbuf'.uid = sqbuf.uid,
           sqbuf'.endf = sqbuf.endf, Len(sqd') = Len(sqd), Passed <= Passed',
           \A i \in Passed' + 1 .. sqbuf.n :
               /\ sqd'[sqi[i].off].id = sqd[sqi[i].off].id
               /\ sqd'[sqi[i].off].free = sqd[sqi[i].off].free
               /\ sqd'[sqi[i].off].len = sqd[sqi[i].off].len
               /\ sqd'[sqi[i].off].size = sqd[sqi[i].off].size
    PROVE  EntryInv'
<1>1. Passed \in {0, 1} /\ Passed' \in {0, 1}
  BY DEF Passed
<1>2. Live' = sqbuf.n - Passed' /\ Number' = sqbuf.uid /\ Busy' /\ pc' \notin {"header", "index"}
  BY DEF Live, Number, AtRest, Busy, Dropping
<1>3. sqbuf.n \in Nat /\ Len(sqd) \in Nat /\ Len(before) \in Nat
  BY DropFacts
<1>4. Passed' + Live' = sqbuf.n /\ \A x \in Int : x - Passed' - Live' = x - sqbuf.n
  BY <1>1, <1>2, <1>3
<1>5. Contents(sqd, sqi, Passed', Live', sqbuf.uid)
  <2>1. \A i \in Passed' + 1 .. Passed' + Live' : i \in Passed + 1 .. Passed + (sqbuf.n - Passed)
    <3>1. Passed + (sqbuf.n - Passed) = sqbuf.n
      BY <1>1, <1>3
    <3>2. ASSUME NEW i \in Passed' + 1 .. sqbuf.n  PROVE i \in Passed + 1 .. sqbuf.n
      <4>1. Passed <= Passed' /\ Passed \in Int /\ Passed' \in Int /\ i \in Int
        BY <1>1, <1>3
      <4>2. \A a, b, c, j \in Int : a <= b /\ j \in b + 1 .. c => j \in a + 1 .. c
        OBVIOUS
      <4>3. sqbuf.n \in Int
        BY <1>3
      <4>4. QED
        BY ONLY <3>2, <4>1, <4>2, <4>3
    <3>3. QED
      BY <1>4, <3>1, <3>2
  <2>2. Contents(sqd, sqi, Passed, sqbuf.n - Passed, sqbuf.uid)
    BY DropFacts
  <2>3. QED
    BY <2>1, <2>2 DEF Contents
<1>6. Contents(sqd', sqi, Passed', Live', sqbuf.uid)
  <2>1. Len(sqd') \in Nat /\ Len(sqd) <= Len(sqd')
    BY <1>3
  <2>2. \A i \in Passed' + 1 .. Passed' + Live' :
           /\ sqd'[sqi[i].off].id = sqd[sqi[i].off].id
           /\ sqd'[sqi[i].off].free = sqd[sqi[i].off].free
           /\ sqd'[sqi[i].off].len = sqd[sqi[i].off].len
           /\ sqd'[sqi[i].off].size = sqd[sqi[i].off].size
    BY <1>4
  <2>3. QED
    BY <1>3, <1>5, <2>1, <2>2, SameContents
<1>7. \A i \in Passed' + 1 .. sqbuf.n : sqi[i].id = before[i + Len(before) - Passed' - Live']
  <2>1. ASSUME NEW i \in Passed' + 1 .. sqbuf.n
        PROVE sqi[i].id = before[i + Len(before) - Passed' - Live']
    <3>1. i + Len(before) \in Int /\ i \in Passed + 1 .. sqbuf.n
      BY <1>1, <1>3
    <3>2. sqi[i].id = before[i + Len(before) - sqbuf.n]
      BY <3>1, DropFacts
    <3>3. QED
      BY <1>4, <3>1, <3>2
  <2>2. QED
    BY <2>1
<1>8. /\ sqbuf.uid \in 1 .. MaxId /\ \A i \in 1 .. Len(before) : before[i] < sqbuf.uid
      /\ sqbuf.n <= Len(before) /\ Len(sqi) = Len(before)
      /\ maxmsg >= 2 /\ sqbuf.n >= maxmsg /\ sqbuf.endf = Len(sqd) + 1
  BY DropFacts
<1>9. QED
  BY <1>2, <1>4, <1>6, <1>7, <1>8 DEF EntryInv
LEMMA OffsSeq ==
    ASSUME NEW x, NEW k \in Nat, NEW n \in Nat, \A i \in k + 1 .. k + n : x[i].off \in Nat
    PROVE  /\ Offs(x, k, n) \in Seq(Nat) /\ Len(Offs(x, k, n)) = n
           /\ \A i \in 1 .. n : Offs(x, k, n)[i] = x[i + k].off
<1>1. \A i \in 1 .. n : i + k \in k + 1 .. k + n
  OBVIOUS
<1>2. \A i \in 1 .. n : x[i + k].off \in Nat
  BY <1>1
<1>3. QED
  BY <1>2 DEF Offs

LEMMA OffsTail ==
    ASSUME NEW x, NEW n \in Nat \ {0}, \A i \in 1 .. n : x[i].off \in Nat
    PROVE  Without(Offs(x, 0, n), 1) = Offs(x, 1, n - 1)
<1>1. /\ Len(Offs(x, 0, n)) = n
      /\ \A i \in 1 .. n : Offs(x, 0, n)[i] = x[i + 0].off
  BY OffsSeq
<1>2. Without(Offs(x, 0, n), 1) =
         [i \in 1 .. n - 1 |-> IF i < 1 THEN Offs(x, 0, n)[i] ELSE Offs(x, 0, n)[i + 1]]
  BY <1>1 DEF Without
<1>3. ASSUME NEW i \in 1 .. n - 1
      PROVE (IF i < 1 THEN Offs(x, 0, n)[i] ELSE Offs(x, 0, n)[i + 1]) = x[i + 1].off
  <2>1. ~(i < 1) /\ i + 1 \in 1 .. n /\ i + 1 + 0 = i + 1
    OBVIOUS
  <2>2. Offs(x, 0, n)[i + 1] = x[i + 1 + 0].off
    BY <1>1, <2>1
  <2>3. QED
    BY <2>1, <2>2
<1>4. QED
  BY <1>2, <1>3 DEF Offs

\* One frame is replaced.
LEMMA SetFrame ==
    ASSUME NEW d \in Seq(Frame), NEW c \in 1 .. Len(d), NEW r \in Frame
    PROVE  /\ [d EXCEPT ![c] = r] \in Seq(Frame) /\ Len([d EXCEPT ![c] = r]) = Len(d)
           /\ [d EXCEPT ![c] = r][c] = r
           /\ \A i \in 1 .. Len(d) : i # c => [d EXCEPT ![c] = r][i] = d[i]
  OBVIOUS

\* The frame c is freed, the others are as before.
LEMMA FreedFrames ==
    ASSUME NEW d \in Seq(Frame), NEW f \in Nat, NEW c \in 1 .. Len(d)
    PROVE  /\ Freed(d, f, c) \in Seq(Frame) /\ Len(Freed(d, f, c)) = Len(d)
           /\ Freed(d, f, c)[c].free /\ Freed(d, f, c)[c].next = 0 /\ Freed(d, f, c)[c].prev = f
           /\ \A i \in 1 .. Len(d) : i # c => Freed(d, f, c)[i] = d[i]
<1> DEFINE r1 == [d[c] EXCEPT !.free = TRUE]
           r2 == [r1 EXCEPT !.next = 0]
           r3 == [r2 EXCEPT !.prev = f]
           d1 == [d EXCEPT ![c] = r1]
           d2 == [d1 EXCEPT ![c] = r2]
           d3 == [d2 EXCEPT ![c] = r3]
<1>1. d[c] \in Frame
  OBVIOUS
<1>2. r1 \in Frame /\ r2 \in Frame /\ r3 \in Frame /\ r3.free /\ r3.next = 0 /\ r3.prev = f
  BY <1>1 DEF Frame
<1>3. d1 \in Seq(Frame) /\ Len(d1) = Len(d) /\ d1[c] = r1 /\ \A i \in 1 .. Len(d) : i # c => d1[i] = d[i]
  <2> HIDE DEF r1
  <2>1. QED
    BY <1>2, SetFrame
<1>4. d2 \in Seq(Frame) /\ Len(d2) = Len(d) /\ d2[c] = r2 /\ \A i \in 1 .. Len(d) : i # c => d2[i] = d[i]
  <2> HIDE DEF r2, d1
  <2>1. c \in 1 .. Len(d1)
    BY <1>3
  <2>2. /\ d2 \in Seq(Frame) /\ Len(d2) = Len(d1) /\ d2[c] = r2
        /\ \A i \in 1 .. Len(d1) : i # c => d2[i] = d1[i]
    BY <1>2, <1>3, <2>1, SetFrame
  <2>3. QED
    BY <1>3, <2>2
<1>5. d3 \in Seq(Frame) /\ Len(d3) = Len(d) /\ d3[c] = r3 /\ \A i \in 1 .. Len(d) : i # c => d3[i] = d[i]
  <2> HIDE DEF r3, d2
  <2>1. c \in 1 .. Len(d2)
    BY <1>4
  <2>2. /\ d3 \in Seq(Frame) /\ Len(d3) = Len(d2) /\ d3[c] = r3
        /\ \A i \in 1 .. Len(d2) : i # c => d3[i] = d2[i]
    BY <1>2, <1>4, <2>1, SetFrame
  <2>3. QED
    BY <1>4, <2>2
<1>6. d3 = Freed(d, f, c)
  <2> HIDE DEF r1, r2, r3, d1, d2, d3
  <2>1. d1 = [d EXCEPT ![c].free = TRUE]
    BY DEF d1, r1
  <2>2. d2 = [d1 EXCEPT ![c].next = 0]
    BY <1>3 DEF d2, r2
  <2>3. d3 = [d2 EXCEPT ![c].prev = f]
    BY <1>4 DEF d3, r3
  <2>4. QED
    BY <2>1, <2>2, <2>3, Zenon DEF Freed
<1>7. QED
  <2> HIDE DEF d3
  <2>1. QED
    BY <1>2, <1>5, <1>6

LEMMA PurgeHeadSane ==
    ASSUME Usable, Sane, PurgeHead
    PROVE  Sane' /\ pc' \in {"tail", "free"}
<1> DEFINE n == sqbuf.n
           m == Offs(sqi, 0, n)
           succ == sqd[cur].next
           lf == sqbuf.lastf
           e == Freed(Tailed(sqd', lf, cur), lf, cur)
           g == FreedHeader(sqbuf', cur)
<1>1. pc = "purge" /\ Dropping /\ ~AtRest
  BY DEF PurgeHead, Dropping, AtRest
<1>2. /\ TypeOK /\ Len(sqd) \in Nat /\ n \in Nat /\ n >= 2 /\ cur \in Nat
      /\ n <= Len(sqi)
      /\ \A i \in 1 .. n : sqi[i].off \in Nat
  BY <1>1, DropFacts
<1>3. Shape(sqd, m, sqbuf, {}) /\ cur = sqi[1].off
  BY <1>1 DEF Sane, CallInv, DropInv
<1>4. m \in Seq(Nat) /\ Len(m) = n /\ \A i \in 1 .. n : m[i] = sqi[i].off
  <2>1. \A i \in 0 + 1 .. 0 + n : sqi[i].off \in Nat
    BY <1>2
  <2>2. \A i \in 1 .. n : i + 0 = i
    BY <1>2
  <2>3. QED
    BY <1>2, <2>1, <2>2, OffsSeq
<1>5. /\ \A i \in 1 .. n : m[i] \in 1 .. Len(sqd) /\ ~sqd[m[i]].free
      /\ \A i, j \in 1 .. n : i # j => m[i] # m[j]
      /\ sqbuf.first = m[1] /\ sqbuf.last = m[n] /\ cur = m[1]
  <2>1. /\ \A i \in 1 .. Len(m) : m[i] \in 1 .. Len(sqd) /\ ~sqd[m[i]].free
        /\ \A i, j \in 1 .. Len(m) : i # j => m[i] # m[j]
        /\ sqbuf.first = First(m) /\ sqbuf.last = Last(m)
    BY <1>2, <1>3, <1>4, MessagesOn
  <2>2. 1 \in 1 .. n /\ n # 0
    BY <1>2
  <2>3. QED
    BY <1>2, <1>3, <1>4, <2>1, <2>2 DEF First, Last
<1>6. PICK l \in Seq(Nat) : Whole(sqd, m, l, sqbuf, {})
  BY <1>3 DEF Shape, Lists
<1>7. sqd[cur].prev = 0 /\ succ = m[2] /\ succ \in 1 .. Len(sqd) /\ cur \in 1 .. Len(sqd)
      /\ succ # cur /\ sqbuf.last # cur
  <2>1. 1 \in 1 .. n /\ 2 \in 1 .. n /\ n \in 1 .. n /\ n # 1
    BY <1>2
  <2>2. sqd[m[1]].prev = 0 /\ sqd[m[1]].next = m[2]
    BY <1>4, <1>6, <2>1 DEF Whole, Chain
  <2>3. QED
    BY <1>5, <2>1, <2>2
<1>8. /\ sqd' = [sqd EXCEPT ![succ].prev = 0]
      /\ sqbuf' = [sqbuf EXCEPT !.first = succ]
      /\ pc' = IF lf # 0 THEN "tail" ELSE "free"
      /\ UNCHANGED <<hdr, sqi, maxmsg, cur, pcurr, msg, before, killed>>
  BY <1>7 DEF PurgeHead, Readable, hist
<1>9. lf # 0 => lf \in 1 .. Len(sqd) /\ sqd[lf].free /\ lf # cur
  <2>1. lf # 0 => lf \in 1 .. Len(sqd) /\ sqd[lf].free
    BY <1>2, <1>3, <1>4, FreeEnds
  <2>2. ~sqd[cur].free
    <3>1. 1 \in 1 .. n
      BY <1>2
    <3>2. QED
      BY <1>5, <3>1
  <2>3. QED
    BY <2>1, <2>2
<1>10. /\ sqd' \in Seq(Frame) /\ Len(sqd') = Len(sqd) /\ sqbuf' \in Header
       /\ \A f \in 1 .. Len(sqd) : sqd[f] \in Frame
       /\ \A f \in 1 .. Len(sqd) : f # succ => sqd'[f] = sqd[f]
       /\ sqd'[succ] = [sqd[succ] EXCEPT !.prev = 0]
  <2>1. sqd \in Seq(Frame) /\ sqbuf \in Header /\ succ \in Nat
    BY <1>2, <1>7 DEF TypeOK
  <2>2. \A f \in 1 .. Len(sqd) : sqd[f] \in Frame
    BY <2>1
  <2>3. [sqd[succ] EXCEPT !.prev = 0] \in Frame
    BY <1>7, <2>2 DEF Frame
  <2>4. sqbuf' \in Header
    BY <1>8, <2>1 DEF Header
  <2>5. sqd' = [sqd EXCEPT ![succ].prev = 0] /\ sqd \in Seq(Frame) /\ succ \in 1 .. Len(sqd)
    BY <1>7, <1>8, <2>1
  <2> HIDE DEF succ
  <2>6. sqd' \in Seq(Frame) /\ Len(sqd') = Len(sqd)
    BY <2>3, <2>5
  <2>7. \A f \in 1 .. Len(sqd) : f # succ => sqd'[f] = sqd[f]
    BY <2>5
  <2>8. sqd'[succ] = [sqd[succ] EXCEPT !.prev = 0]
    BY <2>5
  <2>9. QED
    BY <2>2, <2>4, <2>6, <2>7, <2>8
<1>11. Freeing(sqd, e, sqbuf, g, cur)
  <2>1. Len(e) = Len(sqd)
    BY <1>9, <1>10 DEF Freed, Tailed
  <2>2. e[cur].free /\ e[cur].next = 0 /\ e[cur].prev = lf
    <3> DEFINE t == Tailed(sqd', lf, cur)
    <3>1. t \in Seq(Frame) /\ Len(t) = Len(sqd)
      <4>1. CASE lf = 0
        BY <1>10, <4>1 DEF Tailed
      <4>2. CASE lf # 0
        <5>1. sqd'[lf] \in Frame /\ lf \in 1 .. Len(sqd')
          BY <1>9, <1>10, <4>2
        <5>2. [sqd'[lf] EXCEPT !.next = cur] \in Frame
          BY <1>2, <5>1 DEF Frame
        <5>3. t = [sqd' EXCEPT ![lf] = [sqd'[lf] EXCEPT !.next = cur]]
          BY <4>2 DEF Tailed
        <5>4. QED
          BY <1>10, <5>1, <5>2, <5>3
      <4>3. QED
        BY <4>1, <4>2
    <3>2. cur \in 1 .. Len(t) /\ lf \in Nat
      BY <1>2, <1>7, <3>1 DEF TypeOK, Header
    <3>3. e = Freed(t, lf, cur)
      OBVIOUS
    <3> HIDE DEF t, e, lf
    <3>4. Freed(t, lf, cur)[cur].free /\ Freed(t, lf, cur)[cur].next = 0 /\ Freed(t, lf, cur)[cur].prev = lf
      BY <3>1, <3>2, FreedFrames
    <3>5. QED
      BY <3>3, <3>4
  <2>3. ASSUME NEW f \in 1 .. Len(sqd), f # cur
        PROVE  /\ e[f].next = IF f = sqd[cur].prev THEN sqd[cur].next
                              ELSE IF f = sqbuf.lastf THEN cur ELSE sqd[f].next
               /\ e[f].prev = IF f = sqd[cur].next THEN sqd[cur].prev ELSE sqd[f].prev
               /\ e[f].free = sqd[f].free
    <3>1. f # 0 /\ sqd[f] \in Frame
      BY <1>10
    <3>2. sqd'[f] = IF f = succ THEN [sqd[f] EXCEPT !.prev = 0] ELSE sqd[f]
      <4>1. f # succ => sqd'[f] = sqd[f]
        BY <1>10
      <4>2. f = succ => sqd'[f] = [sqd[f] EXCEPT !.prev = 0]
        BY <1>10, Zenon
      <4>3. QED
        BY <4>1, <4>2
    <3>3. f \in DOMAIN sqd' /\ f # cur
      BY <1>10, <2>3
    <3>4. e[f] = IF f = lf THEN [sqd'[f] EXCEPT !.next = cur] ELSE sqd'[f]
      <4>1. CASE lf = 0
        BY <3>1, <3>3, <4>1 DEF Freed, Tailed
      <4>2. CASE lf # 0
        BY <1>9, <3>3, <4>2 DEF Freed, Tailed
      <4>3. QED
        BY <4>1, <4>2
    <3>5. QED
      BY <1>7, <3>1, <3>2, <3>4 DEF Frame
  <2>4. /\ g.first = succ /\ g.last = sqbuf.last
        /\ g.firstf = (IF lf = 0 THEN cur ELSE sqbuf.firstf) /\ g.lastf = cur
    BY <1>2, <1>8 DEF FreedHeader, TypeOK, Header
  <2>5. sqbuf.first = cur /\ sqbuf.last # cur
    BY <1>5, <1>7
  <2>6. QED
    BY <2>1, <2>2, <2>3, <2>4, <2>5 DEF Freeing
<1>12. Shape(e, Offs(sqi, 1, n - 1), g, {})
  <2>1. 1 \in 1 .. Len(m) /\ n \in Nat \ {0}
    BY <1>2, <1>4
  <2>2. Whole(e, Without(m, 1), Append(l, cur), g, {})
    BY <1>2, <1>4, <1>5, <1>6, <1>11, <2>1, MoveToFree
  <2>3. Without(m, 1) = Offs(sqi, 1, n - 1)
    BY <1>2, <2>1, OffsTail
  <2>4. Append(l, cur) \in Lists
    BY <1>2 DEF Lists
  <2>5. QED
    BY <2>2, <2>3, <2>4 DEF Shape
<1>13. TypeOK'
  BY <1>2, <1>8, <1>10 DEF TypeOK, Control
<1>14. DropInv'
  <2>1. sqbuf'.n = n /\ sqbuf'.lastf = lf
    BY <1>2, <1>8 DEF TypeOK, Header
  <2>2. CASE lf # 0
    BY <1>7, <1>8, <1>9, <1>10, <1>12, <2>1, <2>2 DEF DropInv
  <2>3. CASE lf = 0
    <3>1. e = Freed(sqd', sqbuf'.lastf, cur')
      BY <1>8, <2>1, <2>3 DEF Tailed
    <3>2. QED
      BY <1>7, <1>8, <1>10, <1>12, <2>1, <2>3, <3>1 DEF DropInv
  <2>4. QED
    BY <2>2, <2>3
<1>15. RestInv' /\ PlaceInv' /\ StoredInv'
  BY <1>8 DEF RestInv, AtRest, PlaceInv, StoredInv
<1>16. EntryInv'
  <2>1. Dropping' /\ Passed = 0 /\ Passed' = 1
    BY <1>1, <1>8 DEF Dropping, Passed
  <2>2. sqbuf'.n = sqbuf.n /\ sqbuf'.uid = sqbuf.uid /\ sqbuf'.endf = sqbuf.endf
    BY <1>2, <1>8 DEF TypeOK, Header
  <2>3. ASSUME NEW f \in 1 .. Len(sqd)
        PROVE  /\ sqd'[f].id = sqd[f].id /\ sqd'[f].free = sqd[f].free
               /\ sqd'[f].len = sqd[f].len /\ sqd'[f].size = sqd[f].size
    <3>1. f # succ => sqd'[f] = sqd[f]
      BY <1>10
    <3>2. f = succ => sqd'[f] = [sqd[f] EXCEPT !.prev = 0]
      BY <1>10, Zenon
    <3>3. sqd[f] \in Frame
      BY <1>10
    <3>4. QED
      BY <3>1, <3>2, <3>3 DEF Frame
  <2>4. \A i \in Passed' + 1 .. sqbuf.n : sqi[i].off \in 1 .. Len(sqd)
    <3>1. \A i \in Passed' + 1 .. sqbuf.n : i \in 1 .. n
      BY <1>2, <2>1
    <3>2. QED
      BY <1>4, <1>5, <3>1
  <2>5. QED
    BY <1>1, <1>8, <1>10, <2>1, <2>2, <2>3, <2>4, DropEntries
<1>17. QED
  BY <1>8, <1>13, <1>14, <1>15, <1>16 DEF Sane, CallInv

\* The pending write of the last free frame is made.
LEMMA PurgeTailSane ==
    ASSUME Usable, Sane, PurgeTail
    PROVE  Sane'
<1> DEFINE lf == sqbuf.lastf
<1>1. /\ pc = "tail" /\ pc' = "free" /\ Dropping /\ Dropping' /\ ~AtRest /\ ~AtRest'
      /\ sqd' = [sqd EXCEPT ![lf].next = cur]
      /\ UNCHANGED <<hdr, sqi, maxmsg, sqbuf, cur, pcurr, msg, before, killed>>
  BY DEF PurgeTail, Dropping, AtRest, hist
<1>2. /\ TypeOK /\ Len(sqd) \in Nat /\ sqbuf.n \in Nat /\ cur \in Nat
      /\ sqd \in Seq(Frame) /\ sqbuf \in Header
  BY <1>1, DropFacts DEF TypeOK
<1>3. /\ lf \in 1 .. Len(sqd) /\ cur \in 1 .. Len(sqd)
      /\ Shape(Freed(Tailed(sqd, lf, cur), lf, cur), Offs(sqi, 1, sqbuf.n - 1), FreedHeader(sqbuf, cur), {})
  BY <1>1 DEF Sane, CallInv, DropInv
<1> DEFINE r == [sqd[lf] EXCEPT !.next = cur]
<1>4. sqd[lf] \in Frame /\ r \in Frame
  <2>1. sqd[lf] \in Frame
    BY <1>2, <1>3
  <2>2. QED
    BY <1>2, <2>1 DEF Frame
<1>5. sqd' = [sqd EXCEPT ![lf] = r]
  BY <1>1
<1>6. /\ sqd' \in Seq(Frame) /\ Len(sqd') = Len(sqd) /\ sqd'[lf] = r
      /\ \A f \in 1 .. Len(sqd) : f # lf => sqd'[f] = sqd[f]
  <2> HIDE DEF r, lf
  <2>1. QED
    BY <1>2, <1>3, <1>4, <1>5, SetFrame
<1>7. TypeOK'
  BY <1>1, <1>2, <1>6 DEF TypeOK, Control
<1>8. DropInv'
  <2>1. Tailed(sqd, lf, cur) = sqd'
    BY <1>1, <1>3 DEF Tailed
  <2>2. QED
    BY <1>1, <1>3, <1>6, <2>1 DEF DropInv
<1>9. RestInv' /\ PlaceInv' /\ StoredInv'
  BY <1>1 DEF RestInv, PlaceInv, StoredInv
<1>10. EntryInv'
  <2>1. Passed = 1 /\ Passed' = 1
    BY <1>1 DEF Passed
  <2>2. ASSUME NEW f \in 1 .. Len(sqd)
        PROVE  /\ sqd'[f].id = sqd[f].id /\ sqd'[f].free = sqd[f].free
               /\ sqd'[f].len = sqd[f].len /\ sqd'[f].size = sqd[f].size
    <3>1. f # lf => sqd'[f] = sqd[f]
      BY <1>6
    <3>2. f = lf => sqd'[f] = [sqd[f] EXCEPT !.next = cur] /\ sqd[f] \in Frame
      BY <1>4, <1>6, Zenon
    <3>3. QED
      BY <3>1, <3>2 DEF Frame
  <2>3. \A i \in Passed' + 1 .. sqbuf.n : sqi[i].off \in 1 .. Len(sqd)
    <3>1. Contents(sqd, sqi, 1, sqbuf.n - 1, sqbuf.uid) /\ 1 + (sqbuf.n - 1) = sqbuf.n
      BY <1>1, <1>2, <2>1, DropFacts
    <3>2. QED
      BY <2>1, <3>1 DEF Contents
  <2>4. Passed <= Passed'
    BY <2>1
  <2>5. QED
    BY <1>1, <1>6, <2>2, <2>3, <2>4, DropEntries
<1>11. QED
  BY <1>7, <1>8, <1>9, <1>10 DEF Sane, CallInv

\* The dropped frame is marked free, and no entry that stays leads to it.
LEMMA PurgeFreeSane ==
    ASSUME Usable, Sane, PurgeFree
    PROVE  Sane'
<1> DEFINE lf == sqbuf.lastf
           m == Offs(sqi, 1, sqbuf.n - 1)
<1>1. /\ pc = "free" /\ pc' = "shift" /\ Dropping /\ Dropping' /\ ~AtRest /\ ~AtRest'
      /\ sqd' = Freed(sqd, lf, cur) /\ sqbuf' = FreedHeader(sqbuf, cur)
      /\ UNCHANGED <<hdr, sqi, maxmsg, cur, pcurr, msg, before, killed>>
  BY DEF PurgeFree, Dropping, AtRest, hist, Freed, FreedHeader
<1>2. /\ TypeOK /\ Len(sqd) \in Nat /\ sqbuf.n \in Nat /\ sqbuf.n >= 2 /\ cur \in Nat
      /\ sqd \in Seq(Frame) /\ sqbuf \in Header /\ lf \in Nat
  BY <1>1, DropFacts DEF TypeOK, Header
<1>3. /\ cur \in 1 .. Len(sqd)
      /\ Shape(Freed(sqd, lf, cur), m, FreedHeader(sqbuf, cur), {})
  BY <1>1 DEF Sane, CallInv, DropInv
<1>4. /\ sqd' \in Seq(Frame) /\ Len(sqd') = Len(sqd) /\ sqd'[cur].free
      /\ \A f \in 1 .. Len(sqd) : f # cur => sqd'[f] = sqd[f]
  <2> HIDE DEF lf
  <2>1. QED
    BY <1>1, <1>2, <1>3, FreedFrames
<1>5. sqbuf' \in Header /\ sqbuf'.n = sqbuf.n /\ sqbuf'.uid = sqbuf.uid /\ sqbuf'.endf = sqbuf.endf
  BY <1>1, <1>2 DEF Header, FreedHeader
<1>6. TypeOK'
  BY <1>1, <1>2, <1>4, <1>5 DEF TypeOK, Control
<1>7. DropInv'
  BY <1>1, <1>3, <1>5 DEF DropInv
<1>8. RestInv' /\ PlaceInv' /\ StoredInv'
  BY <1>1 DEF RestInv, PlaceInv, StoredInv
<1>9. EntryInv'
  <2>1. Passed = 1 /\ Passed' = 1
    BY <1>1 DEF Passed
  <2>2. Contents(sqd, sqi, 1, sqbuf.n - 1, sqbuf.uid) /\ 1 + (sqbuf.n - 1) = sqbuf.n
    BY <1>1, <1>2, <2>1, DropFacts
  <2>3. \A i \in 2 .. sqbuf.n : sqi[i].off \in 1 .. Len(sqd)
    BY <2>2 DEF Contents
  <2>4. m \in Seq(Nat) /\ Len(m) = sqbuf.n - 1 /\ \A i \in 1 .. sqbuf.n - 1 : m[i] = sqi[i + 1].off
    <3> DEFINE c == sqbuf.n - 1
    <3>1. c \in Nat /\ \A i \in 1 + 1 .. 1 + c : sqi[i].off \in Nat
      BY <1>2, <2>2, <2>3
    <3> HIDE DEF c
    <3>2. /\ Offs(sqi, 1, c) \in Seq(Nat) /\ Len(Offs(sqi, 1, c)) = c
          /\ \A i \in 1 .. c : Offs(sqi, 1, c)[i] = sqi[i + 1].off
      BY <3>1, OffsSeq
    <3>3. QED
      BY <3>2 DEF c
  <2>5. \A i \in 1 .. sqbuf.n - 1 : ~sqd'[m[i]].free
    <3>1. Shape(sqd', m, sqbuf', {}) /\ Len(sqd') \in Nat
      BY <1>1, <1>2, <1>3, <1>4
    <3>2. \A i \in 1 .. Len(m) : ~sqd'[m[i]].free
      BY <2>4, <3>1, MessagesOn
    <3>3. QED
      BY <2>4, <3>2
  <2>6. \A i \in 2 .. sqbuf.n : sqi[i].off # cur
    <3>1. ASSUME NEW i \in 2 .. sqbuf.n  PROVE sqi[i].off # cur
      <4>1. i - 1 \in 1 .. sqbuf.n - 1 /\ i - 1 + 1 = i
        BY <1>2
      <4>2. m[i - 1] = sqi[i].off
        BY <2>4, <4>1
      <4>3. QED
        BY <1>4, <2>5, <4>1, <4>2
    <3>2. QED
      BY <3>1
  <2>7. \A i \in Passed' + 1 .. sqbuf.n : sqd'[sqi[i].off] = sqd[sqi[i].off]
    BY <1>4, <2>1, <2>3, <2>6
  <2>8. Passed <= Passed'
    BY <2>1
  <2>9. QED
    BY <1>1, <1>4, <1>5, <2>7, <2>8, DropEntries
<1>10. QED
  BY <1>6, <1>7, <1>8, <1>9 DEF Sane, CallInv

LEMMA ShapeSame ==
    ASSUME NEW d, NEW m, NEW h, NEW g, NEW X, Shape(d, m, h, X),
           g.first = h.first, g.last = h.last, g.firstf = h.firstf, g.lastf = h.lastf
    PROVE  Shape(d, m, g, X)
  BY DEF Shape, Whole

\* The entries move up: they are numbered from the first again.
LEMMA PurgeShiftSane ==
    ASSUME Usable, Sane, PurgeShift
    PROVE  Sane'
<1> DEFINE n == sqbuf.n
           c == n - 1
           b == [sqbuf EXCEPT !.n = @ - 1]
           last == sqi[Len(sqi)]
           counted == IF Len(sqi) < n THEN n ELSE Len(sqi)
           shifted == [i \in 1 .. counted |->
                         IF i <= Len(sqi) /\ i \notin (Skip + 1) .. n THEN sqi[i]
                         ELSE IF i < Len(sqi) THEN sqi[i + 1] ELSE last]
<1>1. /\ pc = "shift" /\ Dropping /\ ~AtRest
      /\ sqbuf' = b
      /\ UNCHANGED <<sqd, hdr, maxmsg, pcurr, msg, before, killed>>
  BY DEF PurgeShift, Dropping, AtRest, hist
<1>2. /\ TypeOK /\ Len(sqd) \in Nat /\ n \in Nat /\ n >= 2 /\ maxmsg \in Nat /\ maxmsg >= 2 /\ n >= maxmsg
      /\ Skip = 0 /\ n <= Len(sqi) /\ Len(sqi) \in Nat /\ sqi \in Seq(Entry) /\ sqbuf \in Header
      /\ Len(before) \in Nat /\ Len(sqi) = Len(before) /\ sqbuf.endf = Len(sqd) + 1
      /\ sqbuf.uid \in 1 .. MaxId /\ \A i \in 1 .. Len(before) : before[i] < sqbuf.uid
  <2>1. /\ TypeOK /\ Len(sqd) \in Nat /\ n \in Nat /\ maxmsg \in Nat /\ maxmsg >= 2 /\ n >= maxmsg
        /\ n <= Len(before) /\ Len(before) \in Nat /\ Len(sqi) = Len(before)
        /\ sqbuf.endf = Len(sqd) + 1
        /\ sqbuf.uid \in 1 .. MaxId /\ \A i \in 1 .. Len(before) : before[i] < sqbuf.uid
    BY <1>1, DropFacts
  <2>2. sqi \in Seq(Entry) /\ sqbuf \in Header /\ maxmsg \in Limits
    BY <2>1 DEF TypeOK
  <2>3. Skip = 0
    BY <2>1, <2>2, UsableLimit
  <2>4. QED
    BY <2>1, <2>2, <2>3
<1>3. Passed = 1 /\ Passed' = 0 /\ ~AtRest' /\ Busy' /\ pc' \in {"purge", "find"} /\ Number' = sqbuf'.uid
      /\ Live' = sqbuf'.n
  <2>1. sqbuf'.n - 0 = sqbuf'.n
    BY <1>1, <1>2 DEF Header
  <2>2. QED
    BY <1>1, <2>1 DEF Passed, AtRest, Busy, Number, Live, PurgeShift
<1>4. b \in Header /\ b.n = c /\ b.uid = sqbuf.uid /\ b.endf = sqbuf.endf /\ b.first = sqbuf.first
      /\ b.last = sqbuf.last /\ b.firstf = sqbuf.firstf /\ b.lastf = sqbuf.lastf /\ c \in Nat
  BY <1>2 DEF Header
<1>5. /\ shifted \in Seq(Entry) /\ Len(shifted) = Len(sqi)
      /\ \A i \in 1 .. c : shifted[i] = sqi[i + 1]
  <2>1. /\ \A i \in 1 .. Len(sqi) : sqi[i] \in Entry
        /\ last \in Entry /\ counted = Len(sqi)
    BY <1>2
  <2>2. \A i \in 1 .. Len(sqi) : i < Len(sqi) => i + 1 \in 1 .. Len(sqi)
    BY <1>2
  <2>3. \A i \in 1 .. Len(sqi) : shifted[i] \in Entry
    BY <2>1, <2>2
  <2>4. Len(shifted) = Len(sqi) /\ shifted \in Seq(Entry)
    <3>1. DOMAIN shifted = 1 .. Len(sqi) /\ shifted = [i \in 1 .. Len(sqi) |-> shifted[i]]
      BY <2>1
    <3> HIDE DEF shifted
    <3>2. QED
      BY <1>2, <2>3, <3>1
  <2>5. \A i \in 1 .. c : i \in 1 .. counted /\ i \in Skip + 1 .. n /\ i < Len(sqi)
    BY <1>2, <2>1
  <2>6. QED
    BY <2>4, <2>5
<1>6. \/ /\ Full(b) /\ pc' = "purge" /\ cur' = sqbuf.first /\ sqi' = shifted
      \/ /\ ~Full(b) /\ pc' = "find" /\ cur' = b.firstf /\ sqi' = SubSeq(shifted, 1, maxmsg)
  <2>1. Behind = {last}
    BY <1>2 DEF Behind
  <2>2. QED
    BY <2>1 DEF PurgeShift
<1>7. /\ Full(b) => c >= maxmsg
      /\ ~Full(b) => n = maxmsg
  BY <1>2, <1>4 DEF Full
<1> HIDE DEF shifted, b, c
<1>8. /\ sqi' \in Seq(Entry) /\ c <= Len(sqi')
      /\ \A i \in 1 .. c : sqi'[i] = sqi[i + 1]
      /\ pc' = "purge" => Len(sqi') = Len(before)
      /\ pc' = "find" => Len(sqi') = c + 1
  <2>1. CASE Full(b)
    BY <1>2, <1>5, <1>6, <2>1 DEF c
  <2>2. CASE ~Full(b)
    <3>1. sqi' = SubSeq(shifted, 1, n) /\ n \in 0 .. Len(shifted) /\ pc' = "find"
      BY <1>2, <1>5, <1>6, <1>7, <2>2
    <3>2. sqi' \in Seq(Entry) /\ Len(sqi') = n /\ \A i \in 1 .. n : sqi'[i] = shifted[i]
      BY <1>2, <1>5, <3>1
    <3>3. c + 1 = n /\ c <= n /\ \A i \in 1 .. c : i \in 1 .. n
      BY <1>2 DEF c
    <3>4. QED
      BY <1>5, <3>1, <3>2, <3>3
  <2>3. QED
    BY <2>1, <2>2
<1>9. Contents(sqd, sqi, 1, c, sqbuf.uid)
  BY <1>1, <1>3, DropFacts DEF c
<1>10. \A i \in 1 .. c : i + 1 \in 1 + 1 .. 1 + c /\ i + 1 \in 1 .. n
  BY <1>2 DEF c
<1>11. Offs(sqi', 0, c) = Offs(sqi, 1, c)
  <2>1. \A i \in 1 .. c : sqi'[i + 0].off = sqi[i + 1].off
    <3>1. \A i \in 1 .. c : i + 0 = i
      BY <1>4
    <3>2. QED
      BY <1>8, <3>1
  <2>2. QED
    BY <2>1 DEF Offs
<1>12. Shape(sqd, Offs(sqi, 1, c), sqbuf, {})
  BY <1>1 DEF Sane, CallInv, DropInv, c
<1>13. Shape(sqd', Offs(sqi', 0, sqbuf'.n), sqbuf', {})
  <2>1. Shape(sqd, Offs(sqi, 1, c), b, {})
    BY <1>4, <1>12, ShapeSame
  <2>2. QED
    BY <1>1, <1>4, <1>11, <2>1
<1>14. Offs(sqi, 1, c) \in Seq(Nat) /\ Len(Offs(sqi, 1, c)) = c
       /\ \A i \in 1 .. c : Offs(sqi, 1, c)[i] = sqi[i + 1].off
  <2>1. \A i \in 1 + 1 .. 1 + c : sqi[i].off \in Nat
    BY <1>2, <1>9 DEF Contents
  <2>2. c \in Nat /\ 1 \in Nat
    BY <1>4
  <2>3. QED
    BY ONLY <2>1, <2>2, OffsSeq
<1>15. pc' = "purge" => cur' = sqi'[1].off
  <2>1. sqbuf.first = First(Offs(sqi, 1, c))
    BY <1>2, <1>12, <1>14, MessagesOn
  <2>2. c # 0 /\ 1 \in 1 .. c
    BY <1>2 DEF c
  <2>3. sqbuf.first = sqi'[1].off
    <3>1. sqi'[1] = sqi[1 + 1]
      BY <1>8, <2>2
    <3>2. Offs(sqi, 1, c)[1] = sqi[1 + 1].off
      BY <1>14, <2>2
    <3>3. QED
      BY <1>14, <2>1, <2>2, <3>1, <3>2 DEF First
  <2>4. QED
    BY <1>6, <2>3
<1>16. sqbuf.firstf # 0 => sqbuf.firstf \in 1 .. Len(sqd) /\ sqd[sqbuf.firstf].free
  BY <1>2, <1>12, FreeEnds
<1>17. TypeOK'
  <2>1. cur' \in Nat
    BY <1>2, <1>4, <1>6 DEF Header
  <2>2. pc' \in Control /\ sqbuf' \in Header
    BY <1>1, <1>4, <1>6 DEF Control
  <2>3. QED
    BY <1>1, <1>2, <1>8, <2>1, <2>2 DEF TypeOK
<1>18. DropInv' /\ PlaceInv'
  <2>1. CASE pc' = "purge"
    BY <1>13, <1>15, <2>1 DEF DropInv, PlaceInv
  <2>2. CASE pc' = "find"
    <3>1. cur' = sqbuf.firstf
      BY <1>4, <1>6, <2>2
    <3>2. sqbuf'.n # 0
      BY <1>1, <1>2, <1>4 DEF c
    <3>3. QED
      BY <1>1, <1>13, <1>16, <2>2, <3>1, <3>2 DEF DropInv, PlaceInv
  <2>3. QED
    BY <1>3, <2>1, <2>2
<1>19. RestInv' /\ StoredInv'
  BY <1>3 DEF RestInv, StoredInv
<1>20. Contents(sqd, sqi', 0, c, sqbuf.uid)
  <2>1. \A i \in 0 + 1 .. 0 + c : sqi'[i] = sqi[i + 1] /\ i + 1 \in 1 + 1 .. 1 + c
    BY <1>4, <1>8, <1>10
  <2>2. \A i, j \in 0 + 1 .. 0 + c : i < j => i + 1 < j + 1
    BY <1>4
  <2>3. \A i, j \in 0 + 1 .. 0 + c : i < j => sqi'[i].id < sqi'[j].id
    BY <1>9, <2>1, <2>2 DEF Contents
  <2>4. \A i \in 0 + 1 .. 0 + c :
          /\ sqi'[i].off \in 1 .. Len(sqd)
          /\ sqd[sqi'[i].off].id = sqi'[i].id
          /\ ~sqd[sqi'[i].off].free
          /\ sqd[sqi'[i].off].len <= sqd[sqi'[i].off].size
          /\ sqi'[i].id < sqbuf.uid
    BY <1>9, <2>1 DEF Contents
  <2>5. QED
    BY <2>3, <2>4 DEF Contents
<1>21. \A i \in 0 + 1 .. 0 + c : sqi'[i].id = before[i + Len(before) - 0 - c]
  <2>1. ASSUME NEW i \in 1 .. c  PROVE sqi'[i].id = before[i + Len(before) - 0 - c]
    <3>1. i + 1 \in 1 + 1 .. n /\ i + 1 + Len(before) - n = i + Len(before) - 0 - c
      BY <1>2 DEF c
    <3>2. \A j \in Passed + 1 .. n : sqi[j].id = before[j + Len(before) - n]
      BY <1>1, DropFacts
    <3>3. sqi[i + 1].id = before[i + 1 + Len(before) - n]
      BY <1>3, <3>1, <3>2
    <3>4. QED
      BY <1>8, <3>1, <3>3
  <2>2. 0 + 1 = 1 /\ 0 + c = c
    BY <1>4
  <2>3. QED
    BY <2>1, <2>2
<1>22. EntryInv'
  <2>1. Live' = c /\ Number' = sqbuf.uid /\ pc' \notin {"header", "index"}
    BY <1>1, <1>3, <1>4
  <2>2. 0 + c <= Len(before) /\ 0 + c <= Len(sqi')
    BY <1>2, <1>4, <1>8 DEF c
  <2>3. Dropping' => maxmsg >= 2 /\ sqbuf'.n >= maxmsg /\ Len(sqi') = Len(before)
    BY <1>1, <1>2, <1>3, <1>4, <1>6, <1>7, <1>8 DEF Dropping
  <2>4. ~Dropping' => c = Room(maxmsg, Len(before)) /\ Len(sqi') \in {c, c + 1}
    <3>1. CASE pc' = "find"
      <4>1. n = maxmsg
        BY <1>6, <1>7, <3>1
      <4>2. Room(maxmsg, Len(before)) = maxmsg - 1
        BY <1>2, <4>1 DEF Room
      <4>3. QED
        BY <1>8, <3>1, <4>1, <4>2 DEF c
    <3>2. CASE pc' = "purge"
      BY <3>2 DEF Dropping
    <3>3. QED
      BY <1>3, <3>1, <3>2
  <2>5. sqbuf'.endf = Len(sqd) + 1
    BY <1>1, <1>2, <1>4
  <2>6. QED
    BY <1>1, <1>2, <1>3, <1>20, <1>21, <2>1, <2>2, <2>3, <2>4, <2>5 DEF EntryInv
<1>23. QED
  BY <1>17, <1>18, <1>19, <1>22 DEF Sane, CallInv

-----------------------------------------------------------------------------
(* Finding a place. *)

\* What holds while a place is looked for and filled.
LEMMA PlaceFacts ==
    ASSUME Sane, Placing
    PROVE  /\ TypeOK /\ Len(sqd) \in Nat /\ sqbuf.n \in Nat /\ cur \in Nat /\ maxmsg \in Nat
           /\ msg \in Nat /\ Len(before) \in Nat /\ Len(sqi) \in Nat
           /\ \A i \in 1 .. Len(sqi) : sqi[i].off \in Nat /\ sqi[i].id \in Nat
           /\ Contents(sqd, sqi, 0, sqbuf.n, sqbuf.uid)
           /\ sqbuf.uid \in 1 .. MaxId /\ \A i \in 1 .. Len(before) : before[i] < sqbuf.uid
           /\ sqbuf.n <= Len(before) /\ sqbuf.n <= Len(sqi)
           /\ \A i \in 1 .. sqbuf.n : sqi[i].id = before[i + Len(before) - sqbuf.n]
           /\ sqbuf.n = Room(maxmsg, Len(before)) /\ Len(sqi) \in {sqbuf.n, sqbuf.n + 1}
           /\ pc # "header" => sqbuf.endf = Len(sqd) + 1
<1>1. /\ sqd \in Seq(Frame) /\ sqi \in Seq(Entry) /\ sqbuf \in Header /\ maxmsg \in Limits /\ cur \in Nat
      /\ before \in Seq(Nat) /\ TypeOK /\ msg \in Sizes \cup {0}
  BY DEF Sane, TypeOK
<1>2. \A i \in 1 .. Len(sqi) : sqi[i].off \in Nat /\ sqi[i].id \in Nat
  <2>1. \A i \in 1 .. Len(sqi) : sqi[i] \in Entry
    BY <1>1
  <2>2. QED
    BY <2>1 DEF Entry
<1>3. /\ Len(sqd) \in Nat /\ sqbuf.n \in Nat /\ maxmsg \in Nat /\ Len(before) \in Nat /\ msg \in Nat
      /\ Len(sqi) \in Nat
  <2>1. sqbuf.n \in Nat
    BY <1>1 DEF Header
  <2>2. maxmsg \in Nat /\ msg \in Nat
    BY <1>1, SquishAssumption
  <2>3. QED
    BY <1>1, <2>1, <2>2
<1>4. Live = sqbuf.n - Passed /\ Passed = 0 /\ Number = sqbuf.uid /\ Busy /\ ~Dropping /\ pc # "index"
  BY DEF Live, Passed, Number, AtRest, Busy, Dropping, Placing
<1>5. EntryInv
  BY DEF Sane, CallInv
<1>6. Live = sqbuf.n /\ Passed + Live = sqbuf.n /\ \A x \in Int : x - Passed - Live = x - sqbuf.n
  BY <1>3, <1>4
<1>7. \A i \in 1 .. sqbuf.n : sqi[i].id = before[i + Len(before) - sqbuf.n]
  <2>1. ASSUME NEW i \in 1 .. sqbuf.n  PROVE sqi[i].id = before[i + Len(before) - sqbuf.n]
    <3>1. i + Len(before) \in Int
      BY <1>3, <1>4
    <3>2. sqi[i].id = before[i + Len(before) - Passed - Live]
      BY <1>4, <1>5, <1>6 DEF EntryInv
    <3>3. QED
      BY <1>6, <3>1, <3>2
  <2>2. QED
    BY <2>1
<1>8. /\ Contents(sqd, sqi, 0, sqbuf.n, sqbuf.uid)
      /\ sqbuf.uid \in 1 .. MaxId /\ \A i \in 1 .. Len(before) : before[i] < sqbuf.uid
      /\ sqbuf.n <= Len(before) /\ sqbuf.n <= Len(sqi)
      /\ sqbuf.n = Room(maxmsg, Len(before)) /\ Len(sqi) \in {sqbuf.n, sqbuf.n + 1}
      /\ pc # "header" => sqbuf.endf = Len(sqd) + 1
  BY <1>4, <1>5, <1>6 DEF EntryInv
<1>9. QED
  BY <1>1, <1>2, <1>3, <1>7, <1>8

\* The entries are as they were, and what they lead to is.
LEMMA PlaceEntries ==
    ASSUME Sane, Placing, Placing',
           UNCHANGED <<sqi, maxmsg, before>>, sqbuf'.n = sqbuf.n, sqbuf'.uid = sqbuf.uid,
           pc' # "header" => sqbuf'.endf = Len(sqd') + 1,
           Contents(sqd', sqi, 0, sqbuf.n, sqbuf.uid)
    PROVE  EntryInv'
<1>1. sqbuf.n \in Nat /\ Len(before) \in Nat
  BY PlaceFacts
<1>2. Live' = sqbuf.n - 0 /\ Passed' = 0 /\ Number' = sqbuf.uid /\ Busy' /\ ~Dropping' /\ pc' # "index"
  BY DEF Live, Passed, Number, AtRest, Busy, Dropping, Placing
<1>3. Live' = sqbuf.n /\ Passed' + Live' = sqbuf.n /\ Passed' + 1 = 1
  BY <1>1, <1>2
<1>4. \A i \in 1 .. sqbuf.n : sqi[i].id = before[i + Len(before) - Passed' - Live']
  <2>1. ASSUME NEW i \in 1 .. sqbuf.n
        PROVE sqi[i].id = before[i + Len(before) - Passed' - Live']
    <3>1. sqi[i].id = before[i + Len(before) - sqbuf.n]
      BY PlaceFacts
    <3>2. i + Len(before) - Passed' - Live' = i + Len(before) - sqbuf.n
      BY <1>1, <1>2, <1>3
    <3>3. QED
      BY <3>1, <3>2
  <2>2. QED
    BY <2>1
<1>5. /\ sqbuf.uid \in 1 .. MaxId /\ \A i \in 1 .. Len(before) : before[i] < sqbuf.uid
      /\ sqbuf.n <= Len(before) /\ sqbuf.n <= Len(sqi)
      /\ sqbuf.n = Room(maxmsg, Len(before)) /\ Len(sqi) \in {sqbuf.n, sqbuf.n + 1}
  BY PlaceFacts
<1>6. QED
  BY <1>2, <1>3, <1>4, <1>5 DEF EntryInv

\* A free frame is on the free chain, and so are its neighbours there.
LEMMA FreeNeighbours ==
    ASSUME NEW d, NEW m, NEW h, NEW X, NEW c \in 1 .. Len(d), Len(d) \in Nat,
           Shape(d, m, h, X), d[c].free, c \notin X
    PROVE  /\ \E l \in Lists : Whole(d, m, l, h, X) /\ c \in On(l)
           /\ d[c].next # 0 => d[c].next \in 1 .. Len(d) /\ d[d[c].next].free
           /\ d[c].prev # 0 => d[c].prev \in 1 .. Len(d) /\ d[d[c].prev].free
           /\ d[c].next # c /\ d[c].prev # c
<1>1. PICK l \in Seq(Nat) : Whole(d, m, l, h, X)
  BY DEF Shape, Lists
<1>2. /\ Chain(d, l, h.firstf, h.lastf) /\ Shared(d, m, l, X)
  BY <1>1 DEF Whole
<1>3. \A i \in 1 .. Len(l) : l[i] \in 1 .. Len(d) /\ d[l[i]].free
  BY <1>2 DEF Chain, Shared, On
<1>4. c \in On(l)
  BY <1>2 DEF Shared
<1>5. PICK k \in 1 .. Len(l) : c = l[k]
  BY <1>4 DEF On
<1>6. /\ d[c].prev = IF k = 1 THEN 0 ELSE l[k - 1]
      /\ d[c].next = IF k = Len(l) THEN 0 ELSE l[k + 1]
      /\ \A i \in 1 .. Len(l) : i # k => l[i] # c
  BY <1>2, <1>5 DEF Chain
<1>7. /\ k # 1 => k - 1 \in 1 .. Len(l) /\ k - 1 # k
      /\ k # Len(l) => k + 1 \in 1 .. Len(l) /\ k + 1 # k
  OBVIOUS
<1>8. QED
  BY <1>1, <1>3, <1>4, <1>5, <1>6, <1>7 DEF Lists

LEMMA UnlinkedFrames ==
    ASSUME NEW d \in Seq(Frame), NEW p \in Pointers, p.prev <= Len(d)
    PROVE  /\ Unlinked(d, p) \in Seq(Frame) /\ Len(Unlinked(d, p)) = Len(d)
           /\ \A f \in 1 .. Len(d) :
                 /\ Unlinked(d, p)[f].next = IF f = p.prev THEN p.next ELSE d[f].next
                 /\ Unlinked(d, p)[f].prev = d[f].prev
                 /\ Unlinked(d, p)[f].free = d[f].free /\ Unlinked(d, p)[f].id = d[f].id
                 /\ Unlinked(d, p)[f].len = d[f].len /\ Unlinked(d, p)[f].size = d[f].size
<1> DEFINE c == p.prev
           r == [d[c] EXCEPT !.next = p.next]
<1>1. c \in Nat /\ p.next \in Nat
  BY DEF Pointers
<1>2. CASE c = 0
  BY <1>2 DEF Unlinked
<1>3. CASE c # 0
  <2>1. c \in 1 .. Len(d)
    BY <1>1, <1>3
  <2>2. d[c] \in Frame
    BY <2>1
  <2>3. r \in Frame /\ r.next = p.next /\ r.prev = d[c].prev /\ r.free = d[c].free
        /\ r.id = d[c].id /\ r.len = d[c].len /\ r.size = d[c].size
    BY <1>1, <2>2 DEF Frame
  <2>4. Unlinked(d, p) = [d EXCEPT ![c] = r]
    BY <1>3 DEF Unlinked
  <2> HIDE DEF r
  <2>5. /\ [d EXCEPT ![c] = r] \in Seq(Frame) /\ Len([d EXCEPT ![c] = r]) = Len(d)
        /\ [d EXCEPT ![c] = r][c] = r
        /\ \A f \in 1 .. Len(d) : f # c => [d EXCEPT ![c] = r][f] = d[f]
    BY <2>1, <2>3, SetFrame
  <2>6. QED
    BY <2>3, <2>4, <2>5
<1>4. QED
  BY <1>2, <1>3

LEMMA RelinkedFrames ==
    ASSUME NEW d \in Seq(Frame), NEW p \in Pointers, p.next <= Len(d)
    PROVE  /\ Relinked(d, p) \in Seq(Frame) /\ Len(Relinked(d, p)) = Len(d)
           /\ \A f \in 1 .. Len(d) :
                 /\ Relinked(d, p)[f].prev = IF f = p.next THEN p.prev ELSE d[f].prev
                 /\ Relinked(d, p)[f].next = d[f].next
                 /\ Relinked(d, p)[f].free = d[f].free /\ Relinked(d, p)[f].id = d[f].id
                 /\ Relinked(d, p)[f].len = d[f].len /\ Relinked(d, p)[f].size = d[f].size
<1> DEFINE c == p.next
           r == [d[c] EXCEPT !.prev = p.prev]
<1>1. c \in Nat /\ p.prev \in Nat
  BY DEF Pointers
<1>2. CASE c = 0
  BY <1>2 DEF Relinked
<1>3. CASE c # 0
  <2>1. c \in 1 .. Len(d)
    BY <1>1, <1>3
  <2>2. d[c] \in Frame
    BY <2>1
  <2>3. r \in Frame /\ r.prev = p.prev /\ r.next = d[c].next /\ r.free = d[c].free
        /\ r.id = d[c].id /\ r.len = d[c].len /\ r.size = d[c].size
    BY <1>1, <2>2 DEF Frame
  <2>4. Relinked(d, p) = [d EXCEPT ![c] = r]
    BY <1>3 DEF Relinked
  <2> HIDE DEF r
  <2>5. /\ [d EXCEPT ![c] = r] \in Seq(Frame) /\ Len([d EXCEPT ![c] = r]) = Len(d)
        /\ [d EXCEPT ![c] = r][c] = r
        /\ \A f \in 1 .. Len(d) : f # c => [d EXCEPT ![c] = r][f] = d[f]
    BY <2>1, <2>3, SetFrame
  <2>6. QED
    BY <2>3, <2>4, <2>5
<1>4. QED
  BY <1>2, <1>3

\* The search goes to the next free frame.
LEMMA FindNextSane ==
    ASSUME Usable, Sane, FindNext
    PROVE  Sane'
<1>1. /\ pc = "find" /\ pc' = "find" /\ Placing /\ Placing' /\ ~AtRest /\ ~AtRest'
      /\ cur # 0 /\ cur' = sqd[cur].next /\ pcurr' = PointersAt(cur)
      /\ UNCHANGED <<sqd, sqi, hdr, maxmsg, sqbuf, msg, before, killed>>
  BY DEF FindNext, Placing, AtRest, hist, disk
<1>2. /\ TypeOK /\ Len(sqd) \in Nat /\ sqd \in Seq(Frame)
      /\ Contents(sqd, sqi, 0, sqbuf.n, sqbuf.uid) /\ sqbuf.endf = Len(sqd) + 1
  BY <1>1, PlaceFacts DEF TypeOK
<1>3. /\ Shape(sqd, Offs(sqi, 0, sqbuf.n), sqbuf, {}) /\ cur \in 1 .. Len(sqd) /\ sqd[cur].free
      /\ sqbuf.n = 0 => sqbuf.firstf = 0
  BY <1>1 DEF Sane, CallInv, PlaceInv
<1>4. sqd[cur].next # 0 => sqd[cur].next \in 1 .. Len(sqd) /\ sqd[sqd[cur].next].free
  <2>1. cur \notin {}
    OBVIOUS
  <2>2. QED
    BY <1>2, <1>3, <2>1, FreeNeighbours
<1>5. sqd[cur] \in Frame
  BY <1>2, <1>3
<1>6. TypeOK'
  <2>1. cur' \in Nat /\ pcurr' \in Pointers
    BY <1>1, <1>5 DEF Frame, PointersAt, Pointers
  <2>2. QED
    BY <1>1, <1>2, <2>1 DEF TypeOK
<1>7. DropInv' /\ PlaceInv' /\ RestInv' /\ StoredInv'
  BY <1>1, <1>3, <1>4 DEF DropInv, PlaceInv, RestInv, StoredInv
<1>8. EntryInv'
  BY <1>1, <1>2, PlaceEntries
<1>9. QED
  BY <1>6, <1>7, <1>8 DEF Sane, CallInv

\* A frame that fits is taken off the free chain, two writes from now.
LEMMA FoundSane ==
    ASSUME Usable, Sane, Found
    PROVE  Sane'
<1> DEFINE p == PointersAt(cur)
           u == Unlinked(sqd, p)
           e == Relinked(u, p)
           m == Offs(sqi, 0, sqbuf.n)
<1>1. /\ pc = "find" /\ pc' = "unlink" /\ Placing /\ Placing' /\ ~AtRest /\ ~AtRest'
      /\ cur # 0 /\ pcurr' = p
      /\ sqbuf' = [sqbuf EXCEPT !.firstf = IF cur = @ THEN sqd[cur].next ELSE @,
                                !.lastf = IF cur = @ THEN sqd[cur].prev ELSE @]
      /\ UNCHANGED <<sqd, sqi, hdr, maxmsg, cur, msg, before, killed>>
  BY DEF Found, Placing, AtRest, hist, disk
<1>2. /\ TypeOK /\ Len(sqd) \in Nat /\ sqd \in Seq(Frame) /\ sqbuf \in Header /\ cur \in Nat
      /\ Contents(sqd, sqi, 0, sqbuf.n, sqbuf.uid) /\ sqbuf.endf = Len(sqd) + 1
      /\ sqbuf.n \in Nat
  BY <1>1, PlaceFacts DEF TypeOK
<1>3. /\ Shape(sqd, m, sqbuf, {}) /\ cur \in 1 .. Len(sqd) /\ sqd[cur].free
  BY <1>1 DEF Sane, CallInv, PlaceInv
<1>4. sqd[cur] \in Frame
  BY <1>2, <1>3
<1>5. p \in Pointers /\ p.prev = sqd[cur].prev /\ p.next = sqd[cur].next
  BY <1>4 DEF Frame, PointersAt, Pointers
<1>6. /\ \E l \in Lists : Whole(sqd, m, l, sqbuf, {}) /\ cur \in On(l)
      /\ sqd[cur].next # 0 => sqd[cur].next \in 1 .. Len(sqd)
      /\ sqd[cur].prev # 0 => sqd[cur].prev \in 1 .. Len(sqd)
      /\ sqd[cur].next # cur /\ sqd[cur].prev # cur
  <2>1. cur \notin {}
    OBVIOUS
  <2> HIDE DEF m
  <2>2. Len(sqd) \in Nat /\ Shape(sqd, m, sqbuf, {}) /\ sqd[cur].free /\ cur \in 1 .. Len(sqd)
    BY <1>2, <1>3
  <2>3. QED
    BY ONLY <2>1, <2>2, FreeNeighbours
<1>7. p.prev <= Len(sqd) /\ p.next <= Len(sqd)
  BY <1>2, <1>5, <1>6
<1> HIDE DEF p
<1>8. /\ u \in Seq(Frame) /\ Len(u) = Len(sqd)
      /\ \A f \in 1 .. Len(sqd) : /\ u[f].next = IF f = p.prev THEN p.next ELSE sqd[f].next
                                  /\ u[f].prev = sqd[f].prev /\ u[f].free = sqd[f].free
  BY <1>2, <1>5, <1>7, UnlinkedFrames
<1>9. /\ e \in Seq(Frame) /\ Len(e) = Len(u)
      /\ \A f \in 1 .. Len(u) : /\ e[f].prev = IF f = p.next THEN p.prev ELSE u[f].prev
                                /\ e[f].next = u[f].next /\ e[f].free = u[f].free
  <2> HIDE DEF u
  <2>1. p.next <= Len(u)
    BY <1>7, <1>8
  <2>2. QED
    BY <1>5, <1>8, <2>1, RelinkedFrames
<1>10. /\ sqbuf' \in Header /\ sqbuf'.n = sqbuf.n /\ sqbuf'.uid = sqbuf.uid /\ sqbuf'.endf = sqbuf.endf
       /\ sqbuf'.first = sqbuf.first /\ sqbuf'.last = sqbuf.last
       /\ sqbuf'.firstf = (IF sqbuf.firstf = cur THEN sqd[cur].next ELSE sqbuf.firstf)
       /\ sqbuf'.lastf = (IF sqbuf.lastf = cur THEN sqd[cur].prev ELSE sqbuf.lastf)
  <2>1. sqd[cur].next \in Nat /\ sqd[cur].prev \in Nat
    BY <1>4 DEF Frame
  <2>2. QED
    BY <1>1, <1>2, <2>1 DEF Header
<1>11. Taking(sqd, e, sqbuf, sqbuf', cur)
  <2>1. Len(e) = Len(sqd) /\ \A f \in 1 .. Len(sqd) : e[f].free = sqd[f].free
    BY <1>8, <1>9
  <2>2. \A f \in 1 .. Len(sqd) :
          /\ e[f].next = IF f = sqd[cur].prev THEN sqd[cur].next ELSE sqd[f].next
          /\ e[f].prev = IF f = sqd[cur].next THEN sqd[cur].prev ELSE sqd[f].prev
    BY <1>5, <1>8, <1>9
  <2>3. QED
    BY <1>10, <2>1, <2>2 DEF Taking
<1>12. Shape(e, m, sqbuf', {cur})
  <2>0. PICK l \in Seq(Nat) : Whole(sqd, m, l, sqbuf, {}) /\ cur \in On(l)
    BY <1>6 DEF Lists
  <2>1. PICK k \in 1 .. Len(l) : cur = l[k]
    BY <2>0 DEF On
  <2>2. m \in Seq(Nat)
    <3>1. \A i \in 0 + 1 .. 0 + sqbuf.n : sqi[i].off \in Nat
      BY <1>2 DEF Contents
    <3>2. QED
      BY <1>2, <3>1, OffsSeq
  <2> HIDE DEF m, e
  <2>3. Whole(e, m, Without(l, k), sqbuf', {cur})
    BY <1>2, <1>11, <2>0, <2>1, <2>2, TakeFree
  <2>4. Without(l, k) \in Lists
    BY <2>1 DEF Without, Lists
  <2>5. QED
    BY <2>3, <2>4 DEF Shape
<1>13. TypeOK'
  BY <1>1, <1>2, <1>5, <1>10 DEF TypeOK, Control
<1>14. DropInv' /\ RestInv' /\ StoredInv'
  BY <1>1 DEF DropInv, RestInv, StoredInv
<1>15. PlaceInv'
  BY <1>1, <1>3, <1>7, <1>10, <1>12 DEF PlaceInv
<1>16. EntryInv'
  BY <1>1, <1>2, <1>10, PlaceEntries
<1>17. QED
  BY <1>13, <1>14, <1>15, <1>16 DEF Sane, CallInv

\* The neighbours of the frame that was taken are tied together, one write each.
LEMMA UnlinkSane ==
    ASSUME Usable, Sane, Unlink \/ Relink
    PROVE  Sane'
<1>1. /\ pc \in {"unlink", "relink"} /\ pc' = (IF pc = "unlink" THEN "relink" ELSE "link")
      /\ Placing /\ Placing' /\ ~AtRest /\ ~AtRest'
      /\ UNCHANGED <<sqi, hdr, maxmsg, sqbuf, cur, pcurr, msg, before, killed>>
  BY DEF Unlink, Relink, Placing, AtRest, hist
<1>2. /\ TypeOK /\ Len(sqd) \in Nat /\ sqd \in Seq(Frame) /\ pcurr \in Pointers
      /\ Contents(sqd, sqi, 0, sqbuf.n, sqbuf.uid) /\ sqbuf.endf = Len(sqd) + 1
  BY <1>1, PlaceFacts DEF TypeOK
<1>3. cur \in 1 .. Len(sqd) /\ pcurr.next <= Len(sqd) /\ (pc = "unlink" => pcurr.prev <= Len(sqd))
  BY <1>1 DEF Sane, CallInv, PlaceInv
<1>4. /\ sqd' \in Seq(Frame) /\ Len(sqd') = Len(sqd)
      /\ \A f \in 1 .. Len(sqd) :
            /\ sqd'[f].free = sqd[f].free /\ sqd'[f].id = sqd[f].id
            /\ sqd'[f].len = sqd[f].len /\ sqd'[f].size = sqd[f].size
      /\ pc = "unlink" => sqd' = Unlinked(sqd, pcurr)
      /\ pc = "relink" => sqd' = Relinked(sqd, pcurr)
  <2>1. CASE pc = "unlink"
    <3>1. sqd' = Unlinked(sqd, pcurr)
      BY <2>1 DEF Unlink, Relink, Unlinked
    <3>2. pcurr.prev <= Len(sqd)
      BY <1>3, <2>1
    <3>3. QED
      BY <1>2, <2>1, <3>1, <3>2, UnlinkedFrames
  <2>2. CASE pc = "relink"
    <3>1. sqd' = Relinked(sqd, pcurr)
      BY <2>2 DEF Unlink, Relink, Relinked
    <3>2. pcurr.next <= Len(sqd)
      BY <1>3, <2>2
    <3>3. QED
      BY <1>2, <2>2, <3>1, <3>2, RelinkedFrames
  <2>3. QED
    BY <1>1, <2>1, <2>2
<1>5. TypeOK'
  BY <1>1, <1>2, <1>4 DEF TypeOK, Control
<1>6. DropInv' /\ RestInv' /\ StoredInv'
  BY <1>1 DEF DropInv, RestInv, StoredInv
<1>7. PlaceInv'
  <2>1. CASE pc = "unlink"
    <3>1. Shape(Relinked(Unlinked(sqd, pcurr), pcurr), Offs(sqi, 0, sqbuf.n), sqbuf, {cur})
      BY <2>1 DEF Sane, CallInv, PlaceInv
    <3>2. QED
      BY <1>1, <1>3, <1>4, <2>1, <3>1 DEF PlaceInv
  <2>2. CASE pc = "relink"
    <3>1. Shape(Relinked(sqd, pcurr), Offs(sqi, 0, sqbuf.n), sqbuf, {cur})
      BY <2>2 DEF Sane, CallInv, PlaceInv
    <3>2. QED
      BY <1>1, <1>3, <1>4, <2>2, <3>1 DEF PlaceInv
  <2>3. QED
    BY <1>1, <2>1, <2>2
<1>8. EntryInv'
  <2>1. Contents(sqd', sqi, 0, sqbuf.n, sqbuf.uid)
    <3>1. \A i \in 0 + 1 .. 0 + sqbuf.n : sqi[i].off \in 1 .. Len(sqd)
      BY <1>2 DEF Contents
    <3>2. Len(sqd') \in Nat /\ Len(sqd) <= Len(sqd')
      BY <1>2, <1>4
    <3>3. QED
      BY <1>2, <1>4, <3>1, <3>2, SameContents
  <2>2. sqbuf'.endf = Len(sqd') + 1
    BY <1>1, <1>2, <1>4
  <2>3. QED
    BY <1>1, <2>1, <2>2, PlaceEntries
<1>9. QED
  BY <1>5, <1>6, <1>7, <1>8 DEF Sane, CallInv

-----------------------------------------------------------------------------
(* Storing the message. *)

LEMMA TailedFrames ==
    ASSUME NEW d \in Seq(Frame), NEW f \in Nat, NEW c \in Nat, f <= Len(d)
    PROVE  /\ Tailed(d, f, c) \in Seq(Frame) /\ Len(Tailed(d, f, c)) = Len(d)
           /\ \A i \in 1 .. Len(d) :
                 /\ Tailed(d, f, c)[i].next = IF i = f THEN c ELSE d[i].next
                 /\ Tailed(d, f, c)[i].prev = d[i].prev
                 /\ Tailed(d, f, c)[i].free = d[i].free /\ Tailed(d, f, c)[i].id = d[i].id
                 /\ Tailed(d, f, c)[i].len = d[i].len /\ Tailed(d, f, c)[i].size = d[i].size
<1> DEFINE p == [next |-> c, prev |-> f, size |-> 0]
<1>1. p \in Pointers /\ p.prev = f /\ p.next = c
  BY DEF Pointers
<1>2. Tailed(d, f, c) = Unlinked(d, p)
  BY <1>1 DEF Tailed, Unlinked
<1> HIDE DEF p
<1>3. QED
  BY <1>1, <1>2, UnlinkedFrames

LEMMA FramedFrames ==
    ASSUME NEW d \in Seq(Frame), NEW c \in 1 .. Len(d) + 1, NEW r \in Frame
    PROVE  /\ Framed(d, c, r) \in Seq(Frame) /\ Framed(d, c, r)[c] = r
           /\ Len(Framed(d, c, r)) = IF c = Len(d) + 1 THEN Len(d) + 1 ELSE Len(d)
           /\ \A i \in 1 .. Len(d) : i # c => Framed(d, c, r)[i] = d[i]
<1>1. CASE c = Len(d) + 1
  <2>1. Framed(d, c, r) = Append(d, r)
    BY <1>1 DEF Framed
  <2>2. /\ Append(d, r) \in Seq(Frame) /\ Append(d, r)[Len(d) + 1] = r
        /\ Len(Append(d, r)) = Len(d) + 1
        /\ \A i \in 1 .. Len(d) : Append(d, r)[i] = d[i]
    OBVIOUS
  <2>3. QED
    BY <1>1, <2>1, <2>2
<1>2. CASE c # Len(d) + 1
  <2>1. Framed(d, c, r) = [d EXCEPT ![c] = r] /\ c \in 1 .. Len(d)
    BY <1>2 DEF Framed
  <2>2. QED
    BY <1>2, <2>1, SetFrame
<1>3. QED
  BY <1>1, <1>2

\* A message is tied to the last one and then written.
LEMMA AddFrame ==
    ASSUME NEW d \in Seq(Frame), NEW m \in Seq(Nat), NEW h \in Header, NEW c \in Nat, NEW X,
           NEW r \in Frame, Shape(d, m, h, X), ~r.free, r.next = 0, r.prev = h.last,
           (X = {c} /\ c \in 1 .. Len(d)) \/ (X = {} /\ c = Len(d) + 1)
    PROVE  /\ h.last <= Len(d)
           /\ Shape(Framed(Tailed(d, h.last, c), c, r), Append(m, c), FramedHeader(h, c), {})
<1> DEFINE t == Tailed(d, h.last, c)
           e == Framed(t, c, r)
           g == FramedHeader(h, c)
<1>1. Len(d) \in Nat /\ h.last \in Nat
  BY DEF Header
<1>2. /\ \A i \in 1 .. Len(m) : m[i] \in 1 .. Len(d) /\ m[i] \notin X
      /\ h.first = First(m) /\ h.last = Last(m)
  BY <1>1, MessagesOn
<1>3. /\ h.last # 0 => h.last \in 1 .. Len(d) /\ h.last # c
      /\ h.first = 0 <=> h.last = 0
  <2>1. Len(m) # 0 => 1 \in 1 .. Len(m) /\ Len(m) \in 1 .. Len(m)
    OBVIOUS
  <2>2. c \notin X => c \notin 1 .. Len(d)
    BY <1>1
  <2>3. QED
    BY <1>2, <2>1, <2>2 DEF First, Last
<1>4. h.last <= Len(d)
  BY <1>1, <1>3
<1>5. /\ t \in Seq(Frame) /\ Len(t) = Len(d)
      /\ \A f \in 1 .. Len(d) : /\ t[f].next = IF f = h.last THEN c ELSE d[f].next
                                /\ t[f].prev = d[f].prev /\ t[f].free = d[f].free
  BY <1>1, <1>4, TailedFrames
<1> HIDE DEF t
<1>6. c \in 1 .. Len(t) + 1
  BY <1>1, <1>5
<1>7. /\ e[c] = r /\ Len(e) = IF c = Len(t) + 1 THEN Len(t) + 1 ELSE Len(t)
      /\ \A f \in 1 .. Len(t) : f # c => e[f] = t[f]
  <2>1. t \in Seq(Frame)
    BY <1>5
  <2>2. /\ Framed(t, c, r)[c] = r
        /\ Len(Framed(t, c, r)) = IF c = Len(t) + 1 THEN Len(t) + 1 ELSE Len(t)
        /\ \A f \in 1 .. Len(t) : f # c => Framed(t, c, r)[f] = t[f]
    BY ONLY <2>1, <1>6, r \in Frame, FramedFrames
  <2>3. QED
    BY <2>2
<1> HIDE DEF e
<1>8. /\ g.first = (IF h.last = 0 THEN c ELSE h.first) /\ g.last = c
      /\ g.firstf = h.firstf /\ g.lastf = h.lastf
  BY <1>3 DEF FramedHeader, Header
<1> HIDE DEF g
<1>9. Adding(d, e, h, g, c, X)
  <2>1. \/ X = {c} /\ c \in 1 .. Len(d) /\ Len(e) = Len(d)
        \/ X = {} /\ c = Len(d) + 1 /\ Len(e) = Len(d) + 1
    BY <1>1, <1>5, <1>7
  <2>2. \A f \in 1 .. Len(d) : f # c =>
          /\ e[f].next = IF f = h.last THEN c ELSE d[f].next
          /\ e[f].prev = d[f].prev
          /\ e[f].free = d[f].free
    BY <1>5, <1>7
  <2>3. ~e[c].free /\ e[c].next = 0 /\ e[c].prev = h.last
    BY <1>7
  <2>4. QED
    BY <1>8, <2>1, <2>2, <2>3 DEF Adding
<1>10. PICK l \in Seq(Nat) : Whole(d, m, l, h, X)
  BY DEF Shape, Lists
<1>11. Whole(e, Append(m, c), l, g, {})
  BY <1>1, <1>9, <1>10, AddMessage
<1>12. QED
  BY <1>4, <1>11 DEF Shape, Lists, e, g, t

\* The last message points to the frame that will be written.
LEMMA LinkSane ==
    ASSUME Usable, Sane, Link \/ AtEnd
    PROVE  Sane'
<1> DEFINE m == Offs(sqi, 0, sqbuf.n)
           r == NewFrame(pcurr', msg, sqbuf.uid)
           X == IF pc = "link" THEN {cur} ELSE {}
<1>1. /\ pc \in {"link", "find"} /\ pc' = "frame" /\ Placing /\ Placing' /\ ~AtRest /\ ~AtRest'
      /\ UNCHANGED <<sqi, hdr, maxmsg, sqbuf, msg, before, killed>>
      /\ pc = "link" => cur' = cur
      /\ pc = "find" => cur' = sqbuf.endf
      /\ sqd' = IF sqbuf.last = 0 THEN sqd ELSE [sqd EXCEPT ![sqbuf.last].next = cur']
  BY DEF Link, AtEnd, Placing, AtRest, hist
<1>2. /\ TypeOK /\ Len(sqd) \in Nat /\ sqd \in Seq(Frame) /\ sqbuf \in Header /\ pcurr \in Pointers
      /\ cur \in Nat /\ sqbuf.n \in Nat /\ sqbuf.uid \in Nat /\ msg \in Nat
      /\ Contents(sqd, sqi, 0, sqbuf.n, sqbuf.uid) /\ sqbuf.endf = Len(sqd) + 1
  BY <1>1, PlaceFacts DEF TypeOK, Header
<1>3. /\ Shape(sqd, m, sqbuf, X)
      /\ pc = "link" => cur \in 1 .. Len(sqd)
      /\ pc = "find" => (sqbuf.n = 0 => sqbuf.firstf = 0)
  BY <1>1 DEF Sane, CallInv, PlaceInv
<1>4. m \in Seq(Nat) /\ Len(m) = sqbuf.n
  <2>1. \A i \in 0 + 1 .. 0 + sqbuf.n : sqi[i].off \in Nat
    BY <1>2 DEF Contents
  <2>2. QED
    BY <1>2, <2>1, OffsSeq
<1>5. pcurr' \in Pointers /\ pcurr'.prev = sqbuf.last
  <2>1. sqbuf.last \in Nat
    BY <1>2 DEF Header
  <2>2. CASE pc = "link"
    <3>1. pcurr' = [pcurr EXCEPT !.prev = sqbuf.last]
      BY <2>2 DEF Link, AtEnd
    <3>2. QED
      BY <1>2, <2>1, <3>1 DEF Pointers
  <2>3. CASE pc = "find" /\ sqbuf.last # 0
    <3>1. pcurr' = [next |-> 0, prev |-> sqbuf.last, size |-> 0]
      BY <2>3 DEF Link, AtEnd
    <3>2. QED
      BY <2>1, <3>1 DEF Pointers
  <2>4. CASE pc = "find" /\ sqbuf.last = 0
    <3> HIDE DEF m, X
    <3>1. /\ \A i \in 1 .. Len(m) : m[i] \in 1 .. Len(sqd)
          /\ sqbuf.last = Last(m)
      BY <1>2, <1>3, <1>4, MessagesOn
    <3>2. sqbuf.n = 0
      <4>1. sqbuf.n # 0 => Len(m) \in 1 .. Len(m)
        BY <1>2, <1>4
      <4>2. QED
        BY <1>4, <2>4, <3>1, <4>1 DEF Last
    <3>3. pcurr' = NoPointers
      BY <1>3, <2>4, <3>2 DEF Link, AtEnd
    <3>4. QED
      BY <2>4, <3>3 DEF Pointers, NoPointers
  <2>5. QED
    BY <1>1, <2>2, <2>3, <2>4
<1>6. r \in Frame /\ ~r.free /\ r.next = 0 /\ r.prev = sqbuf.last
  BY <1>2, <1>5 DEF Frame, Pointers, NewFrame
<1>7. cur' \in Nat /\ ((X = {cur'} /\ cur' \in 1 .. Len(sqd)) \/ (X = {} /\ cur' = Len(sqd) + 1))
  BY <1>1, <1>2, <1>3
<1>8. sqd' = Tailed(sqd, sqbuf.last, cur')
  BY <1>1 DEF Tailed
<1> HIDE DEF m, r, X
<1>9. /\ sqbuf.last <= Len(sqd)
      /\ Shape(Framed(Tailed(sqd, sqbuf.last, cur'), cur', r), Append(m, cur'),
               FramedHeader(sqbuf, cur'), {})
  BY <1>2, <1>3, <1>4, <1>6, <1>7, AddFrame
<1>10. /\ sqd' \in Seq(Frame) /\ Len(sqd') = Len(sqd)
       /\ \A f \in 1 .. Len(sqd) :
             /\ sqd'[f].free = sqd[f].free /\ sqd'[f].id = sqd[f].id
             /\ sqd'[f].len = sqd[f].len /\ sqd'[f].size = sqd[f].size
  <2>1. sqbuf.last \in Nat
    BY <1>2 DEF Header
  <2>2. QED
    BY <1>2, <1>7, <1>8, <1>9, <2>1, TailedFrames
<1>11. TypeOK'
  BY <1>1, <1>2, <1>5, <1>7, <1>10 DEF TypeOK, Control
<1>12. DropInv' /\ RestInv' /\ StoredInv'
  BY <1>1 DEF DropInv, RestInv, StoredInv
<1>13. PlaceInv'
  <2>1. cur' \in 1 .. Len(sqd') + 1
    BY <1>2, <1>7, <1>10
  <2>2. Shape(Framed(sqd', cur', r), Append(m, cur'), FramedHeader(sqbuf, cur'), {})
    BY <1>8, <1>9
  <2>3. QED
    BY <1>1, <2>1, <2>2 DEF PlaceInv, m, r
<1>14. EntryInv'
  <2>1. Contents(sqd', sqi, 0, sqbuf.n, sqbuf.uid)
    <3>1. \A i \in 0 + 1 .. 0 + sqbuf.n : sqi[i].off \in 1 .. Len(sqd)
      BY <1>2 DEF Contents
    <3>2. Len(sqd') \in Nat /\ Len(sqd) <= Len(sqd')
      BY <1>2, <1>10
    <3>3. QED
      BY <1>2, <1>10, <3>1, <3>2, SameContents
  <2>2. sqbuf'.endf = Len(sqd') + 1
    BY <1>1, <1>2, <1>10
  <2>3. QED
    BY <1>1, <2>1, <2>2, PlaceEntries
<1>15. QED
  BY <1>11, <1>12, <1>13, <1>14 DEF Sane, CallInv

\* The message is on the chain, and the entries lead to other frames.
LEMMA WriteFrameSane ==
    ASSUME Usable, Sane, WriteFrame
    PROVE  Sane'
<1> DEFINE n == sqbuf.n
           m == Offs(sqi, 0, n)
           r == NewFrame(pcurr, msg, sqbuf.uid)
<1>1. /\ pc = "frame" /\ pc' = "header" /\ Placing /\ Placing' /\ ~AtRest /\ ~AtRest'
      /\ sqd' = Framed(sqd, cur, r) /\ sqbuf' = FramedHeader(sqbuf, cur)
      /\ UNCHANGED <<sqi, hdr, maxmsg, cur, pcurr, msg, before, killed>>
  BY DEF WriteFrame, Placing, AtRest, hist, Framed, FramedHeader, NewFrame
<1>2. /\ TypeOK /\ Len(sqd) \in Nat /\ sqd \in Seq(Frame) /\ sqbuf \in Header /\ pcurr \in Pointers
      /\ cur \in Nat /\ n \in Nat /\ sqbuf.uid \in Nat /\ msg \in Nat
      /\ Contents(sqd, sqi, 0, n, sqbuf.uid)
  BY <1>1, PlaceFacts DEF TypeOK, Header
<1>3. /\ cur \in 1 .. Len(sqd) + 1
      /\ Shape(sqd', Append(m, cur), sqbuf', {})
  BY <1>1 DEF Sane, CallInv, PlaceInv
<1>4. r \in Frame /\ r.id = sqbuf.uid /\ r.len <= r.size
  <2>1. pcurr.prev \in Nat /\ pcurr.size \in Nat
    BY <1>2 DEF Pointers
  <2>2. QED
    BY <1>2, <2>1 DEF Frame, NewFrame
<1> HIDE DEF r
<1>5. /\ sqd' \in Seq(Frame) /\ sqd'[cur] = r
      /\ Len(sqd') = IF cur = Len(sqd) + 1 THEN Len(sqd) + 1 ELSE Len(sqd)
      /\ \A i \in 1 .. Len(sqd) : i # cur => sqd'[i] = sqd[i]
  BY <1>1, <1>2, <1>3, <1>4, FramedFrames
<1>6. cur \in 1 .. Len(sqd') /\ Len(sqd) <= Len(sqd') /\ Len(sqd') \in Nat
  BY <1>2, <1>3, <1>5
<1>7. sqbuf' \in Header /\ sqbuf'.n = n /\ sqbuf'.uid = sqbuf.uid
  BY <1>1, <1>2 DEF Header, FramedHeader
<1>8. m \in Seq(Nat) /\ Len(m) = n /\ \A i \in 1 .. n : m[i] = sqi[i].off
  <2>1. \A i \in 0 + 1 .. 0 + n : sqi[i].off \in Nat
    BY <1>2 DEF Contents
  <2>2. m \in Seq(Nat) /\ Len(m) = n /\ \A i \in 1 .. n : m[i] = sqi[i + 0].off
    BY <1>2, <2>1, OffsSeq
  <2>3. \A i \in 1 .. n : i + 0 = i
    BY <1>2
  <2>4. QED
    BY <2>2, <2>3
<1> HIDE DEF m
<1>9. \A i \in 1 .. n : m[i] # cur
  <2>1. /\ Append(m, cur) \in Seq(Nat) /\ Len(Append(m, cur)) = n + 1
        /\ Append(m, cur)[n + 1] = cur /\ \A i \in 1 .. n : Append(m, cur)[i] = m[i]
    BY <1>2, <1>8
  <2>2. \A i, j \in 1 .. n + 1 : i # j => Append(m, cur)[i] # Append(m, cur)[j]
    <3> DEFINE s == Append(m, cur)
    <3>1. s \in Seq(Nat) /\ Len(s) = n + 1
      BY <2>1
    <3>2. Shape(sqd', s, sqbuf', {}) /\ Len(sqd') \in Nat
      BY <1>3, <1>6
    <3> HIDE DEF s
    <3>3. \A i, j \in 1 .. Len(s) : i # j => s[i] # s[j]
      BY ONLY <3>1, <3>2, MessagesOn
    <3>4. QED
      BY <3>1, <3>3 DEF s
  <2>3. n + 1 \in 1 .. n + 1 /\ \A i \in 1 .. n : i \in 1 .. n + 1 /\ i # n + 1
    BY <1>2
  <2>4. \A i \in 1 .. n : Append(m, cur)[i] # Append(m, cur)[n + 1]
    BY <2>2, <2>3
  <2>5. QED
    BY <2>1, <2>4
<1>10. Contents(sqd', sqi, 0, n, sqbuf.uid)
  <2>1. \A i \in 0 + 1 .. 0 + n : i \in 1 .. n /\ sqi[i].off \in 1 .. Len(sqd)
    BY <1>2 DEF Contents
  <2>2. \A i \in 0 + 1 .. 0 + n : sqd'[sqi[i].off] = sqd[sqi[i].off]
    BY <1>5, <1>8, <1>9, <2>1
  <2>3. QED
    BY <1>2, <1>6, <2>2, SameContents
<1>11. TypeOK'
  BY <1>1, <1>2, <1>5, <1>7 DEF TypeOK, Control
<1>12. DropInv' /\ RestInv' /\ PlaceInv'
  BY <1>1 DEF DropInv, RestInv, PlaceInv
<1>13. StoredInv'
  BY <1>1, <1>3, <1>4, <1>5, <1>6, <1>7 DEF StoredInv, m
<1>14. EntryInv'
  BY <1>1, <1>7, <1>10, PlaceEntries
<1>15. QED
  BY <1>11, <1>12, <1>13, <1>14 DEF Sane, CallInv

LEMMA WriteHeaderSane ==
    ASSUME Usable, Sane, WriteHeader
    PROVE  Sane'
<1> DEFINE n == sqbuf.n
<1>1. /\ pc = "header" /\ pc' = "index" /\ Placing /\ ~AtRest /\ ~AtRest'
      /\ sqbuf' = [sqbuf EXCEPT !.n = @ + 1, !.uid = @ + 1, !.endf = Len(sqd) + 1]
      /\ hdr' = sqbuf'
      /\ UNCHANGED <<sqd, sqi, maxmsg, cur, pcurr, msg, before, killed>>
  BY DEF WriteHeader, Placing, AtRest, hist
<1>2. /\ TypeOK /\ Len(sqd) \in Nat /\ sqbuf \in Header /\ n \in Nat /\ sqbuf.uid \in 1 .. MaxId
      /\ maxmsg \in Nat /\ Len(before) \in Nat
      /\ Contents(sqd, sqi, 0, n, sqbuf.uid) /\ \A i \in 1 .. Len(before) : before[i] < sqbuf.uid
      /\ n <= Len(before) /\ n <= Len(sqi)
      /\ \A i \in 1 .. n : sqi[i].id = before[i + Len(before) - n]
      /\ n = Room(maxmsg, Len(before)) /\ Len(sqi) \in {n, n + 1}
  BY <1>1, PlaceFacts DEF TypeOK
<1>3. /\ Shape(sqd, Append(Offs(sqi, 0, n), cur), sqbuf, {})
      /\ cur \in 1 .. Len(sqd) /\ sqd[cur].id = sqbuf.uid /\ sqd[cur].len <= sqd[cur].size
  BY <1>1 DEF Sane, CallInv, StoredInv
<1>4. /\ sqbuf' \in Header /\ sqbuf'.n = n + 1 /\ sqbuf'.uid = sqbuf.uid + 1
      /\ sqbuf'.endf = Len(sqd) + 1
      /\ sqbuf'.first = sqbuf.first /\ sqbuf'.last = sqbuf.last
      /\ sqbuf'.firstf = sqbuf.firstf /\ sqbuf'.lastf = sqbuf.lastf
  <2>1. sqbuf \in Header /\ Len(sqd) + 1 \in Nat /\ n + 1 \in Nat /\ sqbuf.uid + 1 \in Nat
    BY <1>2, SquishAssumption
  <2>2. QED
    BY ONLY <1>1, <2>1 DEF Header
<1>5. sqbuf'.n - 1 = n /\ sqbuf'.uid - 1 = sqbuf.uid /\ sqbuf'.n > 0
  <2>1. sqbuf'.n = n + 1 /\ sqbuf'.uid = sqbuf.uid + 1
    BY <1>4
  <2>2. n \in Nat /\ sqbuf.uid \in Nat
    BY <1>2, SquishAssumption
  <2>3. QED
    BY ONLY <2>1, <2>2
<1>6. TypeOK'
  BY <1>1, <1>2, <1>4 DEF TypeOK, Control
<1>7. DropInv' /\ RestInv' /\ PlaceInv'
  BY <1>1 DEF DropInv, RestInv, PlaceInv
<1>8. StoredInv'
  <2>1. Shape(sqd, Append(Offs(sqi, 0, n), cur), sqbuf', {})
    BY <1>3, <1>4, ShapeSame
  <2>2. QED
    BY <1>1, <1>3, <1>4, <1>5, <2>1 DEF StoredInv
<1>9. EntryInv'
  <2>1. Live' = n /\ Passed' = 0 /\ Number' = sqbuf.uid /\ ~Dropping' /\ pc' = "index"
    BY <1>1, <1>5 DEF Live, Passed, Number, Dropping
  <2>2. \A i \in 1 .. n : i + Len(before) - 0 - n = i + Len(before) - n
    BY <1>2
  <2>3. 0 + n = n /\ 0 + 1 = 1
    BY <1>2
  <2>4. \A i \in 0 + 1 .. 0 + n : sqi[i].id = before[i + Len(before) - 0 - n]
    BY <1>2, <2>2, <2>3
  <2>5. QED
    BY <1>1, <1>2, <2>1, <2>3, <2>4 DEF EntryInv
<1>10. QED
  BY <1>6, <1>7, <1>8, <1>9 DEF Sane, CallInv

\* Where the header counts no entry that is missing, nothing is written before the new one.
LEMMA NoGap ==
    ASSUME NEW s \in Seq(Entry), NEW S, NEW gap \in [1 .. 0 -> S]
    PROVE  s \o gap = s
<1>1. gap = << >>
  <2>1. gap \in Seq(S) /\ Len(gap) = 0
    <3>1. 0 \in Nat /\ DOMAIN gap = 1 .. 0
      OBVIOUS
    <3>2. gap \in Seq(S)
      BY <3>1
    <3>3. QED
      BY <3>1, <3>2
  <2>2. QED
    BY <2>1
<1>2. QED
  BY <1>1

\* The index as the last write leaves it.
LEMMA IndexWritten ==
    ASSUME Sane, WriteIndex
    PROVE  /\ TypeOK /\ sqbuf.n \in Nat \ {0} /\ Len(before) \in Nat /\ maxmsg \in Nat
           /\ sqi' \in Seq(Entry) /\ Len(sqi') = sqbuf.n
           /\ \A i \in 1 .. sqbuf.n - 1 : sqi'[i] = sqi[i]
           /\ sqi'[sqbuf.n].off = cur /\ sqi'[sqbuf.n].id = sqbuf.uid - 1
           /\ Contents(sqd, sqi, 0, sqbuf.n - 1, sqbuf.uid - 1)
           /\ sqbuf.uid \in Nat /\ sqbuf.uid - 1 \in 1 .. MaxId
           /\ \A i \in 1 .. Len(before) : before[i] < sqbuf.uid - 1
           /\ \A i \in 1 .. sqbuf.n - 1 : sqi[i].id = before[i + Len(before) - (sqbuf.n - 1)]
           /\ sqbuf.n - 1 <= Len(before) /\ sqbuf.n - 1 = Room(maxmsg, Len(before))
<1> DEFINE n == sqbuf.n
           x == [off |-> cur, id |-> sqbuf.uid - 1]
<1>1. /\ pc = "index"
      /\ \/ n <= Len(sqi) /\ sqi' = [sqi EXCEPT ![n] = x]
         \/ ~(n <= Len(sqi)) /\ \E gap \in [1 .. n - 1 - Len(sqi) -> Leavings] :
                                   sqi' = Append(sqi \o gap, x)
  BY DEF WriteIndex
<1>2. /\ TypeOK /\ sqi \in Seq(Entry) /\ sqbuf \in Header /\ cur \in Nat /\ Len(before) \in Nat
      /\ maxmsg \in Nat
  BY SquishAssumption DEF Sane, TypeOK
<1>3. n \in Nat \ {0} /\ sqbuf.uid \in Nat
  BY <1>1, <1>2 DEF Sane, CallInv, StoredInv, Header
<1>4. Live = n - 1 /\ Passed = 0 /\ Number = sqbuf.uid - 1 /\ Busy /\ ~Dropping
  BY <1>1 DEF Live, Passed, Number, Busy, AtRest, Dropping
<1>5. /\ Contents(sqd, sqi, 0, n - 1, sqbuf.uid - 1)
      /\ sqbuf.uid - 1 \in 1 .. MaxId /\ \A i \in 1 .. Len(before) : before[i] < sqbuf.uid - 1
      /\ 0 + (n - 1) <= Len(before) /\ 0 + (n - 1) <= Len(sqi)
      /\ \A i \in 0 + 1 .. 0 + (n - 1) : sqi[i].id = before[i + Len(before) - 0 - (n - 1)]
      /\ n - 1 = Room(maxmsg, Len(before)) /\ Len(sqi) \in {n - 1, n - 1 + 1}
  BY <1>4 DEF Sane, CallInv, EntryInv
<1>6. \A i \in 1 .. n - 1 : sqi[i].id = before[i + Len(before) - (n - 1)]
  <2>1. \A i \in 1 .. n - 1 : i \in 0 + 1 .. 0 + (n - 1)
                              /\ i + Len(before) - 0 - (n - 1) = i + Len(before) - (n - 1)
    BY <1>2, <1>3
  <2>2. QED
    BY <1>5, <2>1
<1>7. x \in Entry /\ x.off = cur /\ x.id = sqbuf.uid - 1
  BY <1>2, <1>3, <1>5 DEF Entry
<1> HIDE DEF x
<1>8. /\ sqi' \in Seq(Entry) /\ Len(sqi') = n /\ sqi'[n] = x
      /\ \A i \in 1 .. n - 1 : sqi'[i] = sqi[i]
  <2>1. CASE Len(sqi) = n
    <3>1. n \in 1 .. Len(sqi) /\ sqi' = [sqi EXCEPT ![n] = x]
      BY <1>1, <1>3, <2>1
    <3>2. \A i \in 1 .. n - 1 : i \in 1 .. Len(sqi) /\ i # n
      BY <1>3, <2>1
    <3>3. QED
      BY <1>2, <1>7, <2>1, <3>1, <3>2
  <2>2. CASE Len(sqi) = n - 1
    <3>0. ~(n <= Len(sqi)) /\ n - 1 - Len(sqi) = 0
      BY <1>2, <1>3, <2>2
    <3>1. sqi' = Append(sqi, x) /\ Len(sqi) + 1 = n
      <4>1. PICK gap \in [1 .. 0 -> Leavings] : sqi' = Append(sqi \o gap, x)
        BY <1>1, <3>0
      <4>2. sqi \o gap = sqi
        BY <1>2, NoGap
      <4>3. QED
        BY <1>3, <2>2, <4>1, <4>2
    <3>2. /\ Append(sqi, x) \in Seq(Entry) /\ Len(Append(sqi, x)) = Len(sqi) + 1
          /\ Append(sqi, x)[Len(sqi) + 1] = x
          /\ \A i \in 1 .. Len(sqi) : Append(sqi, x)[i] = sqi[i]
      BY <1>2, <1>7
    <3>3. QED
      BY <2>2, <3>1, <3>2
  <2>3. QED
    BY <1>3, <1>5, <2>1, <2>2
<1>9. QED
  BY <1>2, <1>3, <1>5, <1>6, <1>7, <1>8

LEMMA WriteIndexSane ==
    ASSUME Usable, Sane, WriteIndex
    PROVE  Sane'
<1> DEFINE n == sqbuf.n
           k == n - 1
           m == Offs(sqi, 0, k)
<1>1. /\ pc = "index" /\ pc' = "idle" /\ ~AtRest /\ AtRest'
      /\ UNCHANGED <<sqd, hdr, maxmsg, sqbuf, cur, pcurr, msg, before, killed>>
  BY DEF WriteIndex, AtRest, hist
<1>2. /\ TypeOK /\ n \in Nat \ {0}
      /\ sqi' \in Seq(Entry) /\ Len(sqi') = n
      /\ \A i \in 1 .. k : sqi'[i] = sqi[i]
      /\ sqi'[n].off = cur /\ sqi'[n].id = sqbuf.uid - 1
      /\ Contents(sqd, sqi, 0, k, sqbuf.uid - 1)
      /\ sqbuf.uid \in Nat /\ sqbuf.uid - 1 \in 1 .. MaxId
  BY IndexWritten
<1>3. /\ Shape(sqd, Append(m, cur), sqbuf, {})
      /\ hdr = sqbuf /\ sqbuf.endf = Len(sqd) + 1
      /\ cur \in 1 .. Len(sqd) /\ sqd[cur].id = sqbuf.uid - 1 /\ sqd[cur].len <= sqd[cur].size
  BY <1>1 DEF Sane, CallInv, StoredInv
<1>4. Len(sqd) \in Nat /\ cur \in Nat /\ k \in Nat /\ k + 1 = n
  BY <1>2 DEF TypeOK
<1>5. m \in Seq(Nat) /\ Len(m) = k /\ \A i \in 1 .. k : m[i] = sqi[i].off
  <2>1. \A i \in 0 + 1 .. 0 + k : sqi[i].off \in Nat
    BY <1>2, <1>4 DEF Contents
  <2> HIDE DEF k
  <2>2. m \in Seq(Nat) /\ Len(m) = k /\ \A i \in 1 .. k : m[i] = sqi[i + 0].off
    BY <1>4, <2>1, OffsSeq
  <2>3. \A i \in 1 .. k : i + 0 = i
    BY <1>4
  <2>4. QED
    BY <2>2, <2>3
<1> HIDE DEF m, k
<1>6. Offs(sqi', 0, n) = Append(m, cur)
  <2>1. /\ Append(m, cur) \in Seq(Nat) /\ Len(Append(m, cur)) = n
        /\ Append(m, cur)[n] = cur /\ \A i \in 1 .. k : Append(m, cur)[i] = m[i]
    BY <1>4, <1>5
  <2>2. Append(m, cur) = [i \in 1 .. n |-> Append(m, cur)[i]]
    <3> DEFINE s == Append(m, cur)
    <3>1. s \in Seq(Nat) /\ Len(s) = n
      BY <2>1
    <3> HIDE DEF s
    <3>2. s = [i \in 1 .. n |-> s[i]]
      BY <3>1
    <3>3. QED
      BY <3>2 DEF s
  <2>3. ASSUME NEW i \in 1 .. n  PROVE sqi'[i + 0].off = Append(m, cur)[i]
    <3>1. i + 0 = i /\ (i \in 1 .. k \/ i = n)
      BY <1>2, <1>4
    <3>2. QED
      BY <1>2, <1>5, <2>1, <3>1
  <2>4. QED
    BY <2>2, <2>3 DEF Offs
<1>7. \A i \in 1 .. n : i \in 1 .. k \/ i = n
  BY <1>2, <1>4
<1>8. ~sqd[cur].free
  <2>1. Len(Append(m, cur)) = n /\ Append(m, cur)[n] = cur /\ Append(m, cur) \in Seq(Nat)
    BY <1>4, <1>5
  <2>2. \A i \in 1 .. n : ~sqd[Append(m, cur)[i]].free
    BY <1>3, <1>4, <2>1, MessagesOn
  <2>3. n \in 1 .. n
    BY <1>2
  <2>4. QED
    BY <2>1, <2>2, <2>3
<1>9. Contents(sqd, sqi', 0, n, sqbuf.uid)
  <2>1. 0 + 1 = 1 /\ 0 + n = n /\ 0 + k = k
    BY <1>2, <1>4
  <2>2. \A i \in 1 .. k :
          /\ sqi[i].off \in 1 .. Len(sqd)
          /\ sqd[sqi[i].off].id = sqi[i].id
          /\ ~sqd[sqi[i].off].free
          /\ sqd[sqi[i].off].len <= sqd[sqi[i].off].size
          /\ sqi[i].id < sqbuf.uid - 1
    BY <1>2, <2>1 DEF Contents
  <2>3. \A i, j \in 1 .. k : i < j => sqi[i].id < sqi[j].id
    BY <1>2, <2>1 DEF Contents
  <2>4. \A i \in 1 .. k : sqi'[i].id \in Int /\ sqi'[i].id < sqbuf.uid - 1 /\ sqi'[i].id < sqbuf.uid
    <3>1. \A i \in 1 .. k : i \in 1 .. Len(sqi')
      BY <1>2, <1>4
    <3>2. \A i \in 1 .. k : sqi'[i] \in Entry
      BY <1>2, <3>1
    <3>3. \A i \in 1 .. k : sqi'[i].id \in Nat
      BY <3>2 DEF Entry
    <3>4. QED
      BY <1>2, <2>2, <3>3
  <2>5. \A i \in 1 .. n :
          /\ sqi'[i].off \in 1 .. Len(sqd)
          /\ sqd[sqi'[i].off].id = sqi'[i].id
          /\ ~sqd[sqi'[i].off].free
          /\ sqd[sqi'[i].off].len <= sqd[sqi'[i].off].size
          /\ sqi'[i].id < sqbuf.uid
    <3>1. ASSUME NEW i \in 1 .. k
          PROVE  /\ sqi'[i].off \in 1 .. Len(sqd)
                 /\ sqd[sqi'[i].off].id = sqi'[i].id
                 /\ ~sqd[sqi'[i].off].free
                 /\ sqd[sqi'[i].off].len <= sqd[sqi'[i].off].size
                 /\ sqi'[i].id < sqbuf.uid
      <4>1. sqi'[i] = sqi[i]
        BY <1>2
      <4>2. QED
        BY <2>2, <2>4, <4>1
    <3>2. /\ sqi'[n].off \in 1 .. Len(sqd)
          /\ sqd[sqi'[n].off].id = sqi'[n].id
          /\ ~sqd[sqi'[n].off].free
          /\ sqd[sqi'[n].off].len <= sqd[sqi'[n].off].size
          /\ sqi'[n].id < sqbuf.uid
      <4>1. sqbuf.uid - 1 < sqbuf.uid
        BY <1>2
      <4>2. QED
        BY <1>2, <1>3, <1>8, <4>1
    <3>3. QED
      BY <1>7, <3>1, <3>2
  <2>6. \A i, j \in 1 .. n : i < j => sqi'[i].id < sqi'[j].id
    <3>1. \A i, j \in 1 .. n : i < j => i \in 1 .. k /\ (j \in 1 .. k \/ j = n)
      BY <1>2, <1>4
    <3>2. QED
      BY <1>2, <2>3, <2>4, <3>1
  <2>7. QED
    BY <2>1, <2>5, <2>6 DEF Contents
<1>10. TypeOK'
  BY <1>1, <1>2 DEF TypeOK, Control
<1>11. RestInv'
  <2>1. Shape(sqd', Offs(sqi', 0, hdr'.n), hdr', {})
    BY <1>1, <1>3, <1>6
  <2>2. Contents(sqd', sqi', 0, hdr'.n, hdr'.uid)
    BY <1>1, <1>3, <1>9
  <2>3. hdr'.n = n /\ n # 0 /\ hdr'.uid > 0 /\ hdr'.endf = Len(sqd') + 1
    BY <1>1, <1>2, <1>3
  <2>4. QED
    BY <1>2, <2>1, <2>2, <2>3 DEF RestInv
<1>12. DropInv' /\ PlaceInv' /\ StoredInv' /\ EntryInv'
  BY <1>1 DEF DropInv, PlaceInv, StoredInv, EntryInv, Busy
<1>13. QED
  BY <1>10, <1>11, <1>12 DEF Sane, CallInv

-----------------------------------------------------------------------------
(* A reader deletes a message. *)

\* A list without its k-th element.
LEMMA SeqWithout ==
    ASSUME NEW S, NEW x \in Seq(S), NEW k \in 1 .. Len(x)
    PROVE  LET y == SubSeq(x, 1, k - 1) \o SubSeq(x, k + 1, Len(x))
           IN  /\ y \in Seq(S) /\ Len(y) = Len(x) - 1
               /\ \A i \in 1 .. Len(x) - 1 : y[i] = IF i < k THEN x[i] ELSE x[i + 1]
<1> DEFINE n == Len(x)
           a == SubSeq(x, 1, k - 1)
           b == SubSeq(x, k + 1, n)
           y == a \o b
<1>1. n \in Nat /\ k \in 1 .. n
  OBVIOUS
<1>2. a \in Seq(S) /\ Len(a) = k - 1 /\ \A i \in 1 .. k - 1 : a[i] = x[i]
  <2>1. k - 1 \in 0 .. n
    BY <1>1
  <2>2. QED
    BY <2>1
<1>3. b \in Seq(S) /\ Len(b) = n - k /\ \A i \in 1 .. n - k : b[i] = x[k + i]
  <2>1. /\ k + 1 \in 1 .. n + 1 /\ k + 1 - 1 = k
        /\ n - (k + 1) + 1 = n - k /\ \A i \in Int : k + 1 + i - 1 = k + i
    BY <1>1
  <2>2. b \in Seq(S) /\ Len(b) = n - k
    <3>1. CASE k = n
      <4>1. b = << >>
        BY <1>1, <3>1
      <4>2. QED
        BY <3>1, <4>1
    <3>2. CASE k # n
      <4>1. k + 1 \in 1 .. n /\ k + 1 <= n
        BY <1>1, <3>2
      <4>2. QED
        BY <1>1, <2>1, <4>1
    <3>3. QED
      BY <3>1, <3>2
  <2>3. ASSUME NEW i \in 1 .. n - k  PROVE b[i] = x[k + i]
    <3>1. k + 1 \in Int /\ n \in Int /\ i \in 1 .. (n - (k + 1) + 1) /\ k + 1 + i - 1 = k + i
      BY <1>1
    <3>2. QED
      BY <1>1, <3>1
  <2>4. QED
    BY <2>2, <2>3
<1> HIDE DEF a, b
<1>4. /\ y \in Seq(S) /\ Len(y) = Len(a) + Len(b)
      /\ \A i \in 1 .. Len(y) : y[i] = IF i <= Len(a) THEN a[i] ELSE b[i - Len(a)]
  <2>1. a \in Seq(S) /\ b \in Seq(S)
    BY <1>2, <1>3
  <2>2. QED
    BY ONLY <2>1
<1>5. Len(y) = n - 1
  BY <1>1, <1>2, <1>3, <1>4
<1>6. ASSUME NEW i \in 1 .. n - 1  PROVE y[i] = IF i < k THEN x[i] ELSE x[i + 1]
  <2>1. CASE i < k
    <3>1. i \in 1 .. k - 1 /\ i <= k - 1
      BY <1>1, <2>1
    <3>2. QED
      BY <1>2, <1>4, <1>5, <2>1, <3>1
  <2>2. CASE ~(i < k)
    <3>1. i - (k - 1) \in 1 .. n - k /\ ~(i <= k - 1) /\ k + (i - (k - 1)) = i + 1
      BY <1>1, <2>2
    <3>2. y[i] = b[i - (k - 1)]
      BY <1>2, <1>4, <1>5, <3>1
    <3>3. b[i - (k - 1)] = x[k + (i - (k - 1))]
      BY <1>3, <3>1
    <3>4. QED
      BY <2>2, <3>1, <3>2, <3>3
  <2>3. QED
    BY <2>1, <2>2
<1>7. QED
  BY <1>4, <1>5, <1>6 DEF a, b

LEMMA DeleteSane ==
    ASSUME Usable, Sane, NEW k \in 1 .. Count, Delete(k)
    PROVE  Sane'
<1> DEFINE n == hdr.n
           m == Offs(sqi, 0, n)
           c == sqi[k].off
           p == sqd[c].prev
           q == sqd[c].next
<1>1. /\ pc = "closed" /\ pc' = "closed" /\ AtRest /\ AtRest'
      /\ Editor # "no" /\ (Count > 1 \/ Editor = "all")
      /\ UNCHANGED <<maxmsg, sqbuf, cur, pcurr, msg, before, killed>>
  BY DEF Delete, AtRest, hist
<1>2. /\ TypeOK /\ sqd \in Seq(Frame) /\ sqi \in Seq(Entry) /\ hdr \in Header
      /\ Shape(sqd, m, hdr, {})
      /\ Contents(sqd, sqi, 0, n, hdr.uid)
      /\ Len(sqi) = n /\ hdr.endf = Len(sqd) + 1 /\ hdr.uid > 0
  BY <1>1 DEF Sane, CallInv, RestInv, TypeOK
<1>3. Len(sqd) \in Nat /\ n \in Nat /\ hdr.uid \in Nat /\ hdr.lastf \in Nat /\ hdr.endf \in Nat
  BY <1>2 DEF Header
<1>4. Count = n /\ n > 1 /\ k \in 1 .. n
  <2>1. Count = n
    BY <1>2, <1>3 DEF Count
  <2>2. QED
    BY <1>1, <2>1 DEF Usable
<1>5. /\ sqd' = [i \in 1 .. Len(sqd) |->
                  IF i = c THEN [sqd[c] EXCEPT !.free = TRUE, !.next = 0, !.prev = hdr.lastf]
                  ELSE [sqd[i] EXCEPT !.next = IF i = p THEN q ELSE IF i = hdr.lastf THEN c ELSE @,
                                      !.prev = IF i = q THEN p ELSE @]]
      /\ hdr' = [hdr EXCEPT !.n = n - 1,
                            !.first = IF @ = c THEN q ELSE @,
                            !.last = IF @ = c THEN p ELSE @,
                            !.firstf = IF @ = 0 THEN c ELSE @,
                            !.lastf = c]
      /\ sqi' = SubSeq(sqi, 1, k - 1) \o SubSeq(sqi, k + 1, Len(sqi))
  BY <1>4 DEF Delete
<1>6. m \in Seq(Nat) /\ Len(m) = n /\ \A i \in 1 .. n : m[i] = sqi[i].off
  <2>1. \A i \in 0 + 1 .. 0 + n : sqi[i].off \in Nat
    BY <1>2, <1>3 DEF Contents
  <2>2. m \in Seq(Nat) /\ Len(m) = n /\ \A i \in 1 .. n : m[i] = sqi[i + 0].off
    BY <1>3, <2>1, OffsSeq
  <2>3. \A i \in 1 .. n : i + 0 = i
    BY <1>3
  <2>4. QED
    BY <2>2, <2>3
<1> HIDE DEF m, n
<1>7. /\ \A i \in 1 .. n : m[i] \in 1 .. Len(sqd)
      /\ \A i, j \in 1 .. n : i # j => m[i] # m[j]
      /\ hdr.firstf = 0 <=> hdr.lastf = 0
  <2>1. /\ \A i \in 1 .. Len(m) : m[i] \in 1 .. Len(sqd)
        /\ \A i, j \in 1 .. Len(m) : i # j => m[i] # m[j]
    BY <1>2, <1>3, <1>6, MessagesOn
  <2>2. hdr.firstf = 0 <=> hdr.lastf = 0
    BY <1>2, <1>3, FreeEnds
  <2>3. QED
    BY <1>6, <2>1, <2>2
<1>8. c = m[k] /\ c \in 1 .. Len(sqd) /\ c \in Nat
  BY <1>3, <1>4, <1>6, <1>7
<1>9. \A i \in 1 .. Len(sqd) : sqd[i] \in Frame
  BY <1>2
<1>10. p \in Nat /\ q \in Nat
  BY <1>8, <1>9 DEF Frame
<1> HIDE DEF c, p, q
<1>11. /\ Len(sqd') = Len(sqd)
       /\ sqd'[c] = [sqd[c] EXCEPT !.free = TRUE, !.next = 0, !.prev = hdr.lastf]
       /\ \A i \in 1 .. Len(sqd) : i # c =>
             sqd'[i] = [sqd[i] EXCEPT !.next = IF i = p THEN q ELSE IF i = hdr.lastf THEN c ELSE @,
                                      !.prev = IF i = q THEN p ELSE @]
  <2>1. Len(sqd') = Len(sqd)
    <3> DEFINE x == sqd'
    <3>1. x = [i \in 1 .. Len(sqd) |-> x[i]]
      BY <1>5
    <3> HIDE DEF x
    <3>2. Len([i \in 1 .. Len(sqd) |-> x[i]]) = Len(sqd)
      BY <1>3
    <3>3. QED
      BY <3>1, <3>2 DEF x
  <2>2. sqd'[c] = [sqd[c] EXCEPT !.free = TRUE, !.next = 0, !.prev = hdr.lastf]
    BY ONLY <1>5, <1>8
  <2>3. ASSUME NEW i \in 1 .. Len(sqd), i # c
        PROVE  sqd'[i] = [sqd[i] EXCEPT !.next = IF i = p THEN q ELSE IF i = hdr.lastf THEN c ELSE @,
                                        !.prev = IF i = q THEN p ELSE @]
    BY ONLY <1>5, <2>3
  <2>4. QED
    BY <2>1, <2>2, <2>3
<1>12. sqd'[c] \in Frame /\ sqd'[c].free /\ sqd'[c].next = 0 /\ sqd'[c].prev = hdr.lastf
  <2>1. sqd[c] \in Frame
    BY <1>8, <1>9
  <2> DEFINE r == [sqd[c] EXCEPT !.free = TRUE, !.next = 0, !.prev = hdr.lastf]
  <2>2. r \in Frame /\ r.free /\ r.next = 0 /\ r.prev = hdr.lastf
    BY <1>3, <2>1 DEF Frame
  <2>3. sqd'[c] = r
    BY <1>11
  <2> HIDE DEF r
  <2>4. QED
    BY <2>2, <2>3
<1>13. ASSUME NEW i \in 1 .. Len(sqd), i # c
       PROVE  /\ sqd'[i] \in Frame
              /\ sqd'[i].next = IF i = p THEN q ELSE IF i = hdr.lastf THEN c ELSE sqd[i].next
              /\ sqd'[i].prev = IF i = q THEN p ELSE sqd[i].prev
              /\ sqd'[i].free = sqd[i].free /\ sqd'[i].id = sqd[i].id
              /\ sqd'[i].len = sqd[i].len /\ sqd'[i].size = sqd[i].size
  <2>1. sqd[i] \in Frame
    BY <1>9
  <2> DEFINE v == IF i = p THEN q ELSE IF i = hdr.lastf THEN c ELSE sqd[i].next
             w == IF i = q THEN p ELSE sqd[i].prev
             r == [sqd[i] EXCEPT !.next = v, !.prev = w]
  <2>2. v \in Nat /\ w \in Nat
    BY <1>8, <1>10, <2>1 DEF Frame
  <2>3. sqd'[i] = r
    <3>1. sqd'[i] = [sqd[i] EXCEPT !.next = IF i = p THEN q ELSE IF i = hdr.lastf THEN c ELSE @,
                                   !.prev = IF i = q THEN p ELSE @]
      BY <1>11, <1>13
    <3>2. QED
      BY <2>1, <3>1 DEF Frame
  <2> HIDE DEF v, w
  <2>4. /\ r \in Frame /\ r.next = v /\ r.prev = w
        /\ r.free = sqd[i].free /\ r.id = sqd[i].id /\ r.len = sqd[i].len /\ r.size = sqd[i].size
    BY <2>1, <2>2 DEF Frame
  <2> HIDE DEF r
  <2>5. QED
    BY <2>3, <2>4 DEF v, w
<1>14. sqd' \in Seq(Frame)
  <2>1. \A i \in 1 .. Len(sqd) : sqd'[i] \in Frame
    BY <1>12, <1>13
  <2>2. sqd' = [i \in 1 .. Len(sqd) |-> sqd'[i]]
    BY <1>5
  <2> DEFINE x == sqd'
  <2> HIDE DEF x
  <2>3. [i \in 1 .. Len(sqd) |-> x[i]] \in Seq(Frame)
    BY <1>3, <2>1 DEF x
  <2>4. QED
    BY <2>2, <2>3 DEF x
<1>15. /\ hdr' \in Header /\ hdr'.n = n - 1 /\ hdr'.uid = hdr.uid /\ hdr'.endf = hdr.endf
       /\ hdr'.first = (IF hdr.first = c THEN q ELSE hdr.first)
       /\ hdr'.last = (IF hdr.last = c THEN p ELSE hdr.last)
       /\ hdr'.firstf = (IF hdr.firstf = 0 THEN c ELSE hdr.firstf)
       /\ hdr'.lastf = c
  <2>1. hdr \in Header /\ n - 1 \in Nat /\ p \in Nat /\ q \in Nat /\ c \in Nat
    BY <1>2, <1>3, <1>4, <1>8, <1>10
  <2>2. QED
    BY <1>5, <2>1 DEF Header
<1>16. /\ sqi' \in Seq(Entry) /\ Len(sqi') = n - 1
       /\ \A i \in 1 .. n - 1 : sqi'[i] = IF i < k THEN sqi[i] ELSE sqi[i + 1]
  <2>1. k \in 1 .. Len(sqi)
    BY <1>2, <1>4
  <2> DEFINE y == SubSeq(sqi, 1, k - 1) \o SubSeq(sqi, k + 1, Len(sqi))
  <2>2. /\ y \in Seq(Entry) /\ Len(y) = Len(sqi) - 1
        /\ \A i \in 1 .. Len(sqi) - 1 : y[i] = IF i < k THEN sqi[i] ELSE sqi[i + 1]
    BY <1>2, <2>1, SeqWithout
  <2>3. QED
    BY <1>2, <1>5, <2>2
<1>17. Freeing(sqd, sqd', hdr, hdr', c)
  <2>1. \A f \in 1 .. Len(sqd) : f # c =>
          /\ sqd'[f].next = IF f = sqd[c].prev THEN sqd[c].next
                            ELSE IF f = hdr.lastf THEN c ELSE sqd[f].next
          /\ sqd'[f].prev = IF f = sqd[c].next THEN sqd[c].prev ELSE sqd[f].prev
          /\ sqd'[f].free = sqd[f].free
    BY <1>13 DEF p, q
  <2>2. /\ hdr'.first = (IF hdr.first = c THEN sqd[c].next ELSE hdr.first)
        /\ hdr'.last = (IF hdr.last = c THEN sqd[c].prev ELSE hdr.last)
        /\ hdr'.firstf = (IF hdr.lastf = 0 THEN c ELSE hdr.firstf) /\ hdr'.lastf = c
    BY <1>7, <1>15 DEF p, q
  <2>3. QED
    BY <1>11, <1>12, <2>1, <2>2 DEF Freeing
<1>18. Without(m, k) = Offs(sqi', 0, n - 1)
  <2>1. Without(m, k) = [i \in 1 .. n - 1 |-> IF i < k THEN m[i] ELSE m[i + 1]]
    BY <1>6 DEF Without
  <2>2. ASSUME NEW i \in 1 .. n - 1
        PROVE  (IF i < k THEN m[i] ELSE m[i + 1]) = sqi'[i + 0].off
    <3>1. i + 0 = i /\ i \in 1 .. n /\ i + 1 \in 1 .. n
      BY <1>3, <1>4
    <3>2. QED
      BY <1>6, <1>16, <3>1
  <2>3. QED
    BY <2>1, <2>2 DEF Offs
<1>19. Shape(sqd', Offs(sqi', 0, n - 1), hdr', {})
  <2>1. PICK l \in Seq(Nat) : Whole(sqd, m, l, hdr, {})
    BY <1>2 DEF Shape, Lists
  <2>2. k \in 1 .. Len(m)
    BY <1>4, <1>6
  <2>3. Whole(sqd', Without(m, k), Append(l, c), hdr', {})
    BY <1>3, <1>6, <1>8, <1>17, <2>1, <2>2, MoveToFree
  <2>4. Append(l, c) \in Lists
    BY <1>8, <2>1 DEF Lists
  <2>5. QED
    BY <1>18, <2>3, <2>4 DEF Shape
<1>20. Contents(sqd', sqi', 0, n - 1, hdr.uid)
  <2> DEFINE u(i) == IF i < k THEN i ELSE i + 1
  <2>1. \A i \in 1 .. n - 1 : u(i) \in 1 .. n /\ u(i) # k
    BY <1>3, <1>4
  <2>2. \A i, j \in 1 .. n - 1 : i < j => u(i) < u(j)
    BY <1>3, <1>4
  <2>3. \A i \in 1 .. n - 1 : sqi'[i] = sqi[u(i)]
    BY <1>16
  <2> HIDE DEF u
  <2>4. \A i \in 1 .. n : i # k => sqi[i].off # c /\ sqi[i].off \in 1 .. Len(sqd)
    BY <1>4, <1>6, <1>7, <1>8
  <2>5. \A i \in 1 .. n :
          /\ sqd[sqi[i].off].id = sqi[i].id
          /\ ~sqd[sqi[i].off].free
          /\ sqd[sqi[i].off].len <= sqd[sqi[i].off].size
          /\ sqi[i].id < hdr.uid
    BY <1>2, <1>3 DEF Contents
  <2>6. \A i, j \in 1 .. n : i < j => sqi[i].id < sqi[j].id
    BY <1>2, <1>3 DEF Contents
  <2>7. 0 + 1 = 1 /\ 0 + (n - 1) = n - 1
    BY <1>3
  <2>8. ASSUME NEW i \in 1 .. n - 1
        PROVE  /\ sqi'[i].off \in 1 .. Len(sqd')
               /\ sqd'[sqi'[i].off].id = sqi'[i].id
               /\ ~sqd'[sqi'[i].off].free
               /\ sqd'[sqi'[i].off].len <= sqd'[sqi'[i].off].size
               /\ sqi'[i].id < hdr.uid
    <3>1. PICK j \in 1 .. n : j # k /\ sqi'[i] = sqi[j]
      BY <2>1, <2>3
    <3>2. sqi[j].off # c /\ sqi[j].off \in 1 .. Len(sqd)
      BY <2>4, <3>1
    <3>3. /\ sqd'[sqi[j].off].free = sqd[sqi[j].off].free /\ sqd'[sqi[j].off].id = sqd[sqi[j].off].id
          /\ sqd'[sqi[j].off].len = sqd[sqi[j].off].len /\ sqd'[sqi[j].off].size = sqd[sqi[j].off].size
      BY <1>13, <3>2
    <3>4. /\ sqd[sqi[j].off].id = sqi[j].id /\ ~sqd[sqi[j].off].free
          /\ sqd[sqi[j].off].len <= sqd[sqi[j].off].size /\ sqi[j].id < hdr.uid
      BY <2>5
    <3>5. sqi[j].off \in 1 .. Len(sqd')
      BY <1>11, <3>2
    <3>6. QED
      BY ONLY <3>1, <3>3, <3>4, <3>5
  <2>9. \A i, j \in 1 .. n - 1 : i < j => sqi'[i].id < sqi'[j].id
    BY <2>1, <2>2, <2>3, <2>6
  <2>10. QED
    BY <2>7, <2>8, <2>9 DEF Contents
<1>21. TypeOK'
  BY <1>1, <1>2, <1>14, <1>15, <1>16 DEF TypeOK
<1>22. RestInv'
  <2>1. hdr'.n = n - 1 /\ n - 1 # 0 /\ hdr'.uid = hdr.uid /\ hdr'.endf = Len(sqd') + 1
    <3>1. n - 1 # 0
      BY <1>3, <1>4
    <3>2. hdr'.endf = Len(sqd') + 1
      BY <1>2, <1>11, <1>15
    <3>3. QED
      BY <1>15, <3>1, <3>2
  <2>2. QED
    BY <1>2, <1>16, <1>19, <1>20, <2>1 DEF RestInv
<1>23. DropInv' /\ PlaceInv' /\ StoredInv' /\ EntryInv'
  BY <1>1 DEF DropInv, PlaceInv, StoredInv, EntryInv, Busy
<1>24. QED
  BY <1>21, <1>22, <1>23 DEF Sane, CallInv

-----------------------------------------------------------------------------
(* Every step, and what follows. *)

LEMMA InitSane ==
    ASSUME Init
    PROVE  Sane
<1>1. TypeOK
  <2>1. NewHeader \in Header
    BY DEF NewHeader, Header
  <2>2. NoPointers \in Pointers
    BY DEF NoPointers, Pointers
  <2>3. /\ sqd \in Seq(Frame) /\ sqi \in Seq(Entry) /\ before \in Seq(Nat)
        /\ pc \in Control /\ cur \in Nat /\ msg \in Sizes \cup {0} /\ maxmsg \in Limits
    BY DEF Init, Control
  <2>4. killed \in BOOLEAN
    BY DEF Init
  <2>5. hdr \in Header /\ sqbuf \in Header /\ pcurr \in Pointers
    BY <2>1, <2>2 DEF Init
  <2>6. QED
    BY <2>3, <2>4, <2>5 DEF TypeOK
<1>2. /\ sqd = << >> /\ sqi = << >> /\ hdr = NewHeader /\ pc = "closed"
  BY DEF Init
<1>3. AtRest /\ hdr.n = 0 /\ hdr.uid = 1 /\ hdr.first = 0 /\ hdr.last = 0 /\ hdr.firstf = 0 /\ hdr.lastf = 0
      /\ hdr.endf = 1 /\ Len(sqd) = 0 /\ Len(sqi) = 0
  BY <1>2 DEF NewHeader, AtRest
<1>4. Shape(sqd, Offs(sqi, 0, hdr.n), hdr, {})
  <2>1. Offs(sqi, 0, 0) = << >>
    BY DEF Offs
  <2>2. Whole(sqd, << >>, << >>, hdr, {})
    BY <1>3 DEF Whole, Chain, Shared, First, Last
  <2>3. << >> \in Lists
    BY DEF Lists
  <2>4. QED
    BY <1>3, <2>1, <2>2, <2>3 DEF Shape
<1>5. Contents(sqd, sqi, 0, hdr.n, hdr.uid)
  BY <1>3 DEF Contents
<1>6. RestInv
  BY <1>3, <1>4, <1>5 DEF RestInv
<1>7. DropInv /\ PlaceInv /\ StoredInv /\ EntryInv
  BY <1>2 DEF DropInv, PlaceInv, StoredInv, EntryInv, Busy, AtRest
<1>8. QED
  BY <1>1, <1>6, <1>7 DEF Sane, CallInv

LEMMA NextSane ==
    ASSUME Usable, Sane, [Next]_vars
    PROVE  Sane' \/ Crash
<1>1. CASE Open \/ Close \/ \E m \in Limits : SetLimit(m)
  BY <1>1, OpenSane
<1>2. CASE Store
  <2>1. CASE PurgeHead
    BY <2>1, PurgeHeadSane
  <2>2. CASE PurgeTail
    BY <2>2, PurgeTailSane
  <2>3. CASE PurgeFree
    BY <2>3, PurgeFreeSane
  <2>4. CASE PurgeShift
    BY <2>4, PurgeShiftSane
  <2>5. CASE FindNext
    BY <2>5, FindNextSane
  <2>6. CASE Found
    BY <2>6, FoundSane
  <2>7. CASE Unlink \/ Relink
    BY <2>7, UnlinkSane
  <2>8. CASE Link \/ AtEnd
    BY <2>8, LinkSane
  <2>9. CASE WriteFrame
    BY <2>9, WriteFrameSane
  <2>10. CASE WriteHeader
    BY <2>10, WriteHeaderSane
  <2>11. CASE WriteIndex
    BY <2>11, WriteIndexSane
  <2>12. QED
    BY <1>2, <2>1, <2>2, <2>3, <2>4, <2>5, <2>6, <2>7, <2>8, <2>9, <2>10, <2>11 DEF Store
<1>3. CASE Crash
  BY <1>3
<1>4. CASE \E size \in Sizes : Start(size)
  <2>1. PICK size \in Sizes : Start(size)
    BY <1>4
  <2>2. QED
    BY <2>1, StartSane
<1>5. CASE \E k \in 1 .. Count : Delete(k)
  <2>1. PICK k \in 1 .. Count : Delete(k)
    BY <1>5
  <2>2. QED
    BY <2>1, DeleteSane
<1>6. CASE UNCHANGED vars
  <2>1. UNCHANGED <<sqd, hdr, sqi, maxmsg, pc, sqbuf, cur, pcurr, msg, before, killed>>
    BY <1>6 DEF vars, hist
  <2>2. TypeOK'
    BY <2>1 DEF TypeOK, Sane
  <2>3. RestInv' /\ DropInv' /\ PlaceInv' /\ StoredInv'
    BY <2>1 DEF RestInv, DropInv, PlaceInv, StoredInv, AtRest, Sane, CallInv
  <2>4. EntryInv'
    BY <2>1 DEF EntryInv, Busy, AtRest, Passed, Live, Number, Dropping, Sane, CallInv
  <2>5. QED
    BY <2>2, <2>3, <2>4 DEF Sane, CallInv
<1>7. QED
  BY <1>1, <1>2, <1>3, <1>4, <1>5, <1>6 DEF Next

\* Between two calls both chains are as the properties say.
LEMMA SaneChains ==
    ASSUME Sane
    PROVE  ChainMatchesIndex /\ FreeChainComplete
<1> SUFFICES ASSUME AtRest  PROVE ChainMatchesIndex /\ FreeChainComplete
  BY DEF ChainMatchesIndex, FreeChainComplete
<1> DEFINE n == hdr.n
           m == Offs(sqi, 0, n)
           off(i) == IF i \in 1 .. Count THEN sqi[i].off ELSE 0
<1>1. /\ TypeOK /\ Shape(sqd, m, hdr, {}) /\ Contents(sqd, sqi, 0, n, hdr.uid) /\ Len(sqi) = n
  BY DEF Sane, CallInv, RestInv
<1>2. Len(sqd) \in Nat /\ n \in Nat /\ Count = n
  BY <1>1 DEF TypeOK, Header, Count
<1>3. m \in Seq(Nat) /\ Len(m) = n /\ \A i \in 1 .. n : m[i] = sqi[i].off
  <2>1. \A i \in 0 + 1 .. 0 + n : sqi[i].off \in Nat
    BY <1>1, <1>2 DEF Contents
  <2>2. m \in Seq(Nat) /\ Len(m) = n /\ \A i \in 1 .. n : m[i] = sqi[i + 0].off
    BY <1>2, <2>1, OffsSeq
  <2>3. \A i \in 1 .. n : i + 0 = i
    BY <1>2
  <2>4. QED
    BY <2>2, <2>3
<1> HIDE DEF m, n
<1>4. PICK l \in Seq(Nat) : Whole(sqd, m, l, hdr, {})
  BY <1>1 DEF Shape, Lists
<1>5. /\ hdr.first = (IF n = 0 THEN 0 ELSE m[1]) /\ hdr.last = (IF n = 0 THEN 0 ELSE m[n])
      /\ \A i \in 1 .. n :
            /\ m[i] \in 1 .. Len(sqd)
            /\ sqd[m[i]].prev = IF i = 1 THEN 0 ELSE m[i - 1]
            /\ sqd[m[i]].next = IF i = n THEN 0 ELSE m[i + 1]
  BY <1>3, <1>4 DEF Whole, Chain, First, Last
<1>6. \A i \in 1 .. n : off(i) = m[i]
  BY <1>2, <1>3
<1>7. off(0) = 0 /\ off(n + 1) = 0
  BY <1>2
<1>8. ChainMatchesIndex
  <2>1. hdr.first = off(1) /\ hdr.last = off(Count)
    <3>1. n = 0 => off(1) = 0 /\ off(n) = 0
      BY <1>2
    <3>2. n # 0 => 1 \in 1 .. n /\ n \in 1 .. n
      BY <1>2
    <3> HIDE DEF off
    <3>3. QED
      BY <1>2, <1>5, <1>6, <3>1, <3>2
  <2>2. ASSUME NEW i \in 1 .. n
        PROVE  /\ off(i) \in 1 .. Len(sqd)
               /\ sqd[off(i)].next = off(i + 1)
               /\ sqd[off(i)].prev = off(i - 1)
    <3>1. (i # n => i + 1 \in 1 .. n) /\ (i = n => i + 1 = n + 1)
          /\ (i # 1 => i - 1 \in 1 .. n) /\ (i = 1 => i - 1 = 0)
      BY <1>2
    <3> HIDE DEF off
    <3>2. off(i + 1) = IF i = n THEN 0 ELSE m[i + 1]
      BY <1>6, <1>7, <3>1
    <3>3. off(i - 1) = IF i = 1 THEN 0 ELSE m[i - 1]
      BY <1>6, <1>7, <3>1
    <3>4. QED
      BY <1>5, <1>6, <3>2, <3>3
  <2>3. QED
    BY <1>2, <2>1, <2>2 DEF ChainMatchesIndex
<1>9. Offsets = On(m)
  BY <1>2, <1>3 DEF Offsets, On
<1>10. FreeFrames = On(l)
  <2>1. On(l) \subseteq 1 .. Len(sqd)
    BY <1>4 DEF Whole, Chain, On
  <2>2. \A f \in 1 .. Len(sqd) : /\ f \in On(m) \cup On(l)
                                 /\ f \in On(m) => ~sqd[f].free
                                 /\ f \in On(l) => sqd[f].free
    BY <1>4 DEF Whole, Shared
  <2>3. QED
    BY <2>1, <2>2 DEF FreeFrames
<1>11. /\ hdr.firstf = (IF Len(l) = 0 THEN 0 ELSE l[1])
       /\ hdr.lastf = (IF Len(l) = 0 THEN 0 ELSE l[Len(l)])
       /\ \A i \in 1 .. Len(l) :
             /\ l[i] \in 1 .. Len(sqd)
             /\ sqd[l[i]].prev = IF i = 1 THEN 0 ELSE l[i - 1]
             /\ sqd[l[i]].next = IF i = Len(l) THEN 0 ELSE l[i + 1]
       /\ \A i, j \in 1 .. Len(l) : i # j => l[i] # l[j]
  BY <1>4 DEF Whole, Chain, First, Last
<1>12. FreeFrames \cap Offsets = {} /\ FreeFrames \cup Offsets = 1 .. Len(sqd)
  <2>1. On(m) \subseteq 1 .. Len(sqd)
    BY <1>4 DEF Whole, Chain, On
  <2>2. \A f \in 1 .. Len(sqd) : /\ f \in On(m) \cup On(l)
                                 /\ f \in On(m) => ~sqd[f].free
                                 /\ f \in On(l) => sqd[f].free
    BY <1>4 DEF Whole, Shared
  <2>3. FreeFrames \subseteq 1 .. Len(sqd)
    BY DEF FreeFrames
  <2>4. QED
    BY <1>9, <1>10, <2>1, <2>2, <2>3
<1>13. (hdr.firstf # 0 <=> FreeFrames # {}) /\ (hdr.lastf # 0 <=> FreeFrames # {})
  <2>1. Len(l) # 0 => 1 \in 1 .. Len(l) /\ Len(l) \in 1 .. Len(l) /\ l[1] # 0 /\ l[Len(l)] # 0
                      /\ l[1] \in FreeFrames
    BY <1>10, <1>11 DEF On
  <2>2. Len(l) = 0 => FreeFrames = {}
    BY <1>10 DEF On
  <2>3. QED
    BY <1>11, <2>1, <2>2
<1>14. ASSUME NEW f \in FreeFrames
       PROVE  /\ IF f = hdr.firstf THEN sqd[f].prev = 0
                 ELSE sqd[f].prev \in FreeFrames /\ sqd[sqd[f].prev].next = f
              /\ IF f = hdr.lastf THEN sqd[f].next = 0
                 ELSE sqd[f].next \in FreeFrames /\ sqd[sqd[f].next].prev = f
  <2>1. PICK i \in 1 .. Len(l) : f = l[i]
    BY <1>10 DEF On
  <2>2. (i # 1 => i - 1 \in 1 .. Len(l) /\ i - 1 # Len(l) /\ i - 1 + 1 = i)
        /\ (i # Len(l) => i + 1 \in 1 .. Len(l) /\ i + 1 # 1 /\ i + 1 - 1 = i)
        /\ Len(l) \in 1 .. Len(l) /\ 1 \in 1 .. Len(l)
    OBVIOUS
  <2>3. f = hdr.firstf <=> i = 1
    BY <1>11, <2>1, <2>2
  <2>4. f = hdr.lastf <=> i = Len(l)
    BY <1>11, <2>1, <2>2
  <2>5. i # 1 => sqd[f].prev = l[i - 1] /\ l[i - 1] \in FreeFrames /\ sqd[l[i - 1]].next = l[i]
    BY <1>10, <1>11, <2>1, <2>2 DEF On
  <2>6. i # Len(l) => sqd[f].next = l[i + 1] /\ l[i + 1] \in FreeFrames /\ sqd[l[i + 1]].prev = l[i]
    BY <1>10, <1>11, <2>1, <2>2 DEF On
  <2>7. QED
    BY <1>11, <2>1, <2>3, <2>4, <2>5, <2>6
<1>15. FreeChainComplete
  BY <1>12, <1>13, <1>14 DEF FreeChainComplete
<1>16. QED
  BY <1>8, <1>15

\* Between two calls what is listed can be read.
LEMMA SaneRead ==
    ASSUME Sane
    PROVE  IndexReadable
<1> SUFFICES ASSUME AtRest  PROVE IndexReadable
  BY DEF IndexReadable
<1>1. TypeOK /\ Contents(sqd, sqi, 0, hdr.n, hdr.uid) /\ Len(sqi) = hdr.n
  BY DEF Sane, CallInv, RestInv
<1>2. hdr.n \in Nat /\ Count = hdr.n /\ 0 + 1 = 1 /\ 0 + hdr.n = hdr.n
  BY <1>1 DEF TypeOK, Header, Count
<1>3. QED
  BY <1>1, <1>2 DEF IndexReadable, Contents

-----------------------------------------------------------------------------
(* A base that is only added to. *)

LEMMA GrowFacts ==
    ASSUME TypeOK, Growing
    PROVE  /\ Len(sqd) \in Nat /\ Len(sqi) \in Nat /\ sqd \in Seq(Frame) /\ sqi \in Seq(Entry)
           /\ hdr \in Header /\ sqbuf \in Header /\ pcurr \in Pointers /\ cur \in Nat /\ msg \in Nat
           /\ hdr.n \in Nat /\ hdr.uid \in Nat /\ hdr.endf \in Nat /\ sqbuf.uid \in Nat /\ sqbuf.n \in Nat
           /\ \A i \in 1 .. Len(sqi) : sqi[i].off \in Nat /\ sqi[i].id \in Nat
           /\ Listed = [i \in 1 .. Len(sqi) |-> sqi[i].id] /\ Listed \in Seq(Nat) /\ Count = Len(sqi)
<1>1. /\ sqd \in Seq(Frame) /\ sqi \in Seq(Entry) /\ hdr \in Header /\ sqbuf \in Header /\ cur \in Nat
      /\ pcurr \in Pointers /\ msg \in Sizes \cup {0}
  BY DEF TypeOK
<1>2. /\ Len(sqd) \in Nat /\ Len(sqi) \in Nat /\ msg \in Nat
  BY <1>1, SquishAssumption
<1>3. /\ hdr.n \in Nat /\ hdr.uid \in Nat /\ hdr.endf \in Nat /\ sqbuf.uid \in Nat /\ sqbuf.n \in Nat
  BY <1>1 DEF Header
<1>4. \A i \in 1 .. Len(sqi) : sqi[i].off \in Nat /\ sqi[i].id \in Nat
  <2>1. \A i \in 1 .. Len(sqi) : sqi[i] \in Entry
    BY <1>1
  <2>2. QED
    BY <2>1 DEF Entry
<1>5. Count = Len(sqi)
  BY <1>2, <1>3 DEF Count, Growing
<1>6. Listed = [i \in 1 .. Len(sqi) |-> sqi[i].id]
  BY <1>5 DEF Listed
<1>7. Listed \in Seq(Nat)
  BY <1>2, <1>4, <1>6
<1>8. QED
  BY <1>1, <1>2, <1>3, <1>4, <1>5, <1>6, <1>7

LEMMA GrowRest ==
    ASSUME ~NoFresh, TypeOK, Growing, Open \/ Close \/ Crash
    PROVE  TypeOK' /\ Growing' /\ Listed' = Listed
<1>1. /\ pc' \in {"closed", "idle"} /\ UNCHANGED <<sqd, sqi, maxmsg, sqbuf, cur, pcurr, msg, before>>
      /\ killed' \in BOOLEAN
  BY DEF Open, Close, Crash, disk, hist, TypeOK
<1>2. hdr' = (IF pc' = "idle" THEN [hdr EXCEPT !.n = Len(sqi)] ELSE hdr)
  BY GrowFacts DEF Open, Close, Crash, disk
<1>3. /\ hdr' \in Header /\ hdr'.firstf = hdr.firstf /\ hdr'.uid = hdr.uid /\ hdr'.endf = hdr.endf
      /\ hdr'.last = hdr.last
      /\ Len(sqi) <= hdr'.n /\ (pc' = "idle" => hdr'.n = Len(sqi))
  <2>1. hdr \in Header /\ Len(sqi) \in Nat /\ Len(sqi) <= hdr.n
    BY GrowFacts DEF Growing
  <2>2. QED
    BY <1>2, <2>1 DEF Header
<1>4. TypeOK'
  BY <1>1, <1>3 DEF TypeOK, Control
<1>5. Growing'
  BY <1>1, <1>3 DEF Growing, Busy, AtRest
<1>6. Listed' = Listed
  <2>1. Count' = Len(sqi) /\ Count = Len(sqi)
    <3>1. hdr'.n \in Nat /\ Len(sqi) \in Nat /\ Count = Len(sqi)
      BY <1>3, GrowFacts DEF Header
    <3>2. QED
      BY <1>1, <1>3, <3>1 DEF Count
  <2>2. QED
    BY <1>1, <2>1 DEF Listed
<1>7. QED
  BY <1>4, <1>5, <1>6

LEMMA GrowStarts ==
    ASSUME Growing, NEW size \in Sizes, Start(size)
    PROVE  pc' = "find" /\ cur' = hdr.firstf
<1>1. ~Full(hdr)
  BY DEF Full, Growing
<1>2. QED
  BY <1>1 DEF Start

LEMMA GrowStart ==
    ASSUME TypeOK, Growing, NEW size \in Sizes, Start(size)
    PROVE  TypeOK' /\ Growing' /\ Listed' = Listed
<1>1. /\ pc = "idle" /\ pc' = "find" /\ hdr.uid <= MaxId /\ sqbuf' = hdr /\ msg' = size
      /\ before' = Listed /\ cur' = hdr.firstf
      /\ UNCHANGED <<sqd, hdr, sqi, maxmsg, pcurr, killed>>
  BY GrowStarts DEF Start, disk
<1>2. cur' = 0
  BY <1>1 DEF Growing
<1>3. TypeOK'
  BY <1>1, <1>2, GrowFacts DEF TypeOK, Control
<1>4. Listed' = Listed
  BY <1>1 DEF Listed, Count
<1>5. Growing'
  <2>1. Contents(sqd, sqi, 0, Len(sqi), hdr.uid)
    BY DEF Growing
  <2>2. QED
    BY <1>1, <1>2, <1>4, <2>1 DEF Growing, Busy, AtRest
<1>6. QED
  BY <1>3, <1>4, <1>5

\* Entries of a grown base after a write that leaves their frames alone.
LEMMA GrowContents ==
    ASSUME TypeOK, Growing, sqd' \in Seq(Frame), Len(sqd) <= Len(sqd'),
           \A i \in 1 .. Len(sqi) :
               /\ sqd'[sqi[i].off].id = sqd[sqi[i].off].id
               /\ sqd'[sqi[i].off].free = sqd[sqi[i].off].free
               /\ sqd'[sqi[i].off].len = sqd[sqi[i].off].len
               /\ sqd'[sqi[i].off].size = sqd[sqi[i].off].size
    PROVE  Contents(sqd', sqi, 0, Len(sqi), hdr.uid)
<1>1. Contents(sqd, sqi, 0, Len(sqi), hdr.uid)
  BY DEF Growing
<1>2. Len(sqd) \in Nat /\ Len(sqi) \in Nat /\ Len(sqd') \in Nat
  BY GrowFacts
<1>3. 0 + 1 = 1 /\ 0 + Len(sqi) = Len(sqi)
  BY <1>2
<1>4. QED
  BY <1>1, <1>2, <1>3, SameContents

LEMMA GrowAtEnd ==
    ASSUME TypeOK, Growing, AtEnd
    PROVE  TypeOK' /\ Growing' /\ Listed' = Listed
<1> DEFINE l == sqbuf.last
<1>1. /\ pc = "find" /\ pc' = "frame" /\ Busy /\ Busy'
      /\ cur' = sqbuf.endf /\ sqd' = Tailed(sqd, l, cur')
      /\ pcurr' = IF l # 0 THEN [next |-> 0, prev |-> l, size |-> 0]
                  ELSE IF sqbuf.firstf # 0 THEN pcurr ELSE NoPointers
      /\ UNCHANGED <<hdr, sqi, maxmsg, sqbuf, msg, before, killed>>
  BY DEF AtEnd, Busy, AtRest, hist, Tailed
<1>2. /\ sqbuf = hdr /\ sqbuf.n = Len(sqi) /\ l <= Len(sqd) /\ hdr.firstf = 0 /\ before = Listed
      /\ hdr.uid <= MaxId
  BY <1>1 DEF Growing
<1>3. sqd \in Seq(Frame) /\ l \in Nat /\ cur' \in Nat /\ Len(sqd) \in Nat
  BY <1>1, GrowFacts DEF Header
<1> HIDE DEF l
<1>4. /\ sqd' \in Seq(Frame) /\ Len(sqd') = Len(sqd)
      /\ \A i \in 1 .. Len(sqd) :
            /\ sqd'[i].free = sqd[i].free /\ sqd'[i].id = sqd[i].id
            /\ sqd'[i].len = sqd[i].len /\ sqd'[i].size = sqd[i].size
  BY <1>1, <1>2, <1>3, TailedFrames
<1>5. Contents(sqd', sqi, 0, Len(sqi), hdr.uid)
  <2>1. \A i \in 1 .. Len(sqi) : sqi[i].off \in 1 .. Len(sqd)
    <3>1. 0 + 1 = 1 /\ 0 + Len(sqi) = Len(sqi)
      BY GrowFacts
    <3>2. QED
      BY <3>1 DEF Growing, Contents
  <2>2. Len(sqd) <= Len(sqd')
    BY <1>3, <1>4
  <2>3. QED
    BY <1>4, <2>1, <2>2, GrowContents
<1>6. pcurr' \in Pointers
  BY <1>1, <1>3, GrowFacts DEF Pointers, NoPointers
<1>7. TypeOK'
  BY <1>1, <1>3, <1>4, <1>6 DEF TypeOK, Control
<1>8. Listed' = Listed
  BY <1>1 DEF Listed, Count
<1>9. Growing'
  <2>1. /\ \A i \in 1 .. Len(sqi) : sqi[i].off < hdr.endf
        /\ hdr.endf \in 1 .. Len(sqd') + 1 /\ hdr.last <= Len(sqd') /\ Len(sqi) <= hdr.n /\ hdr.uid > 0
        /\ maxmsg = 0
    BY <1>4 DEF Growing
  <2>2. QED
    BY <1>1, <1>2, <1>5, <1>8, <2>1 DEF Growing
<1>10. QED
  BY <1>7, <1>8, <1>9

LEMMA GrowFrame ==
    ASSUME TypeOK, Growing, WriteFrame
    PROVE  TypeOK' /\ Growing' /\ Listed' = Listed
<1> DEFINE r == NewFrame(pcurr, msg, sqbuf.uid)
<1>1. /\ pc = "frame" /\ pc' = "header" /\ Busy /\ Busy'
      /\ sqd' = Framed(sqd, cur, r) /\ sqbuf' = FramedHeader(sqbuf, cur)
      /\ UNCHANGED <<sqi, hdr, maxmsg, cur, pcurr, msg, before, killed>>
  BY DEF WriteFrame, Busy, AtRest, hist, Framed, FramedHeader, NewFrame
<1>2. /\ cur = hdr.endf /\ sqbuf.firstf = 0 /\ before = Listed
      /\ sqbuf.n = hdr.n /\ sqbuf.n = Len(sqi) /\ sqbuf.uid = hdr.uid /\ hdr.uid <= MaxId
      /\ \A i \in 1 .. Len(sqi) : sqi[i].off < cur
      /\ cur \in 1 .. Len(sqd) + 1
  BY <1>1 DEF Growing
<1>3. /\ sqd \in Seq(Frame) /\ Len(sqd) \in Nat /\ sqbuf \in Header /\ pcurr \in Pointers
      /\ msg \in Nat /\ sqbuf.uid \in Nat /\ cur \in Nat
      /\ \A i \in 1 .. Len(sqi) : sqi[i].off \in Nat
  BY GrowFacts
<1>4. r \in Frame /\ r.id = sqbuf.uid /\ r.len <= r.size /\ ~r.free
  <2>1. pcurr.prev \in Nat /\ pcurr.size \in Nat
    BY <1>3 DEF Pointers
  <2>2. QED
    BY <1>3, <2>1 DEF Frame, NewFrame
<1> HIDE DEF r
<1>5. /\ sqd' \in Seq(Frame) /\ sqd'[cur] = r
      /\ Len(sqd') = IF cur = Len(sqd) + 1 THEN Len(sqd) + 1 ELSE Len(sqd)
      /\ \A i \in 1 .. Len(sqd) : i # cur => sqd'[i] = sqd[i]
  <2>1. sqd \in Seq(Frame) /\ cur \in 1 .. Len(sqd) + 1 /\ r \in Frame
    BY <1>2, <1>3, <1>4
  <2>2. /\ Framed(sqd, cur, r) \in Seq(Frame) /\ Framed(sqd, cur, r)[cur] = r
        /\ Len(Framed(sqd, cur, r)) = IF cur = Len(sqd) + 1 THEN Len(sqd) + 1 ELSE Len(sqd)
        /\ \A i \in 1 .. Len(sqd) : i # cur => Framed(sqd, cur, r)[i] = sqd[i]
    BY ONLY <2>1, FramedFrames
  <2>3. sqd' = Framed(sqd, cur, r)
    BY <1>1
  <2>4. QED
    BY ONLY <2>2, <2>3
<1>6. cur \in 1 .. Len(sqd') /\ Len(sqd) <= Len(sqd') /\ Len(sqd') \in Nat
  BY <1>2, <1>3, <1>5
<1>7. /\ sqbuf' \in Header /\ sqbuf'.n = sqbuf.n /\ sqbuf'.uid = sqbuf.uid /\ sqbuf'.firstf = 0
      /\ sqbuf'.last = cur
  BY <1>1, <1>2, <1>3 DEF Header, FramedHeader
<1>8. \A i \in 1 .. Len(sqi) : sqi[i].off # cur /\ sqd'[sqi[i].off] = sqd[sqi[i].off]
  <2>1. \A i \in 1 .. Len(sqi) : sqi[i].off \in 1 .. Len(sqd)
    <3>1. 0 + 1 = 1 /\ 0 + Len(sqi) = Len(sqi)
      BY GrowFacts
    <3>2. QED
      BY <3>1 DEF Growing, Contents
  <2>2. \A i \in 1 .. Len(sqi) : sqi[i].off # cur
    BY <1>2, <1>3
  <2>3. QED
    BY <1>5, <2>1, <2>2
<1>9. Contents(sqd', sqi, 0, Len(sqi), hdr.uid)
  BY <1>5, <1>6, <1>8, GrowContents
<1>10. TypeOK'
  BY <1>1, <1>5, <1>7 DEF TypeOK, Control
<1>11. Listed' = Listed
  BY <1>1 DEF Listed, Count
<1>12. Growing'
  <2>1. /\ \A i \in 1 .. Len(sqi) : sqi[i].off < hdr.endf
        /\ hdr.endf \in 1 .. Len(sqd') + 1 /\ hdr.last <= Len(sqd')
        /\ Len(sqi) <= hdr.n /\ hdr.uid > 0 /\ hdr.firstf = 0
        /\ maxmsg = 0
    <3>1. hdr.last \in Nat
      BY GrowFacts DEF Header
    <3>2. QED
      BY <1>3, <1>6, <3>1 DEF Growing
  <2>2. QED
    BY <1>1, <1>2, <1>4, <1>5, <1>6, <1>7, <1>8, <1>9, <1>11, <2>1 DEF Growing
<1>13. QED
  BY <1>10, <1>11, <1>12

LEMMA GrowHeader ==
    ASSUME TypeOK, Growing, WriteHeader
    PROVE  TypeOK' /\ Growing' /\ Listed' = Listed
<1>1. /\ pc = "header" /\ pc' = "index" /\ Busy /\ Busy'
      /\ sqbuf' = [sqbuf EXCEPT !.n = @ + 1, !.uid = @ + 1, !.endf = Len(sqd) + 1]
      /\ hdr' = sqbuf'
      /\ UNCHANGED <<sqd, sqi, maxmsg, cur, pcurr, msg, before, killed>>
  BY DEF WriteHeader, Busy, AtRest, hist
<1>2. /\ sqbuf.firstf = 0 /\ sqbuf.last = cur /\ before = Listed
      /\ sqbuf.n = Len(sqi) /\ sqbuf.uid = hdr.uid /\ hdr.uid <= MaxId /\ hdr.uid > 0
      /\ cur \in 1 .. Len(sqd) /\ sqd[cur].id = sqbuf.uid /\ ~sqd[cur].free
      /\ sqd[cur].len <= sqd[cur].size
      /\ \A i \in 1 .. Len(sqi) : sqi[i].off # cur
      /\ maxmsg = 0
  BY <1>1 DEF Growing
<1>3. /\ Len(sqd) \in Nat /\ Len(sqi) \in Nat /\ sqbuf \in Header /\ hdr.uid \in Nat /\ MaxId \in Nat
      /\ sqbuf.n \in Nat /\ sqbuf.uid \in Nat
      /\ \A i \in 1 .. Len(sqi) : sqi[i].id \in Nat /\ sqi[i].off \in Nat
  BY GrowFacts, SquishAssumption
<1>4. /\ sqbuf' \in Header /\ sqbuf'.n = Len(sqi) + 1 /\ sqbuf'.uid = hdr.uid + 1
      /\ sqbuf'.endf = Len(sqd) + 1 /\ sqbuf'.firstf = 0 /\ sqbuf'.last = cur
  <2>1. Len(sqd) + 1 \in Nat /\ sqbuf.n + 1 \in Nat /\ sqbuf.uid + 1 \in Nat
    BY <1>3
  <2>2. /\ sqbuf' \in Header /\ sqbuf'.n = sqbuf.n + 1 /\ sqbuf'.uid = sqbuf.uid + 1
        /\ sqbuf'.endf = Len(sqd) + 1 /\ sqbuf'.firstf = sqbuf.firstf /\ sqbuf'.last = sqbuf.last
    BY <1>1, <1>3, <2>1 DEF Header
  <2>3. QED
    BY <1>2, <2>2
<1>5. sqbuf'.uid - 1 = hdr.uid /\ sqbuf'.uid \in 2 .. MaxId + 1 /\ sqbuf'.uid > 0
      /\ Len(sqi) <= sqbuf'.n /\ cur < sqbuf'.endf /\ sqbuf'.endf \in 1 .. Len(sqd) + 1
  <2>1. sqbuf'.n = Len(sqi) + 1 /\ sqbuf'.uid = hdr.uid + 1 /\ sqbuf'.endf = Len(sqd) + 1
    BY <1>4
  <2>2. hdr.uid \in Nat /\ hdr.uid > 0 /\ hdr.uid <= MaxId /\ MaxId \in Nat /\ cur \in 1 .. Len(sqd)
    BY <1>2, <1>3
  <2>3. Len(sqd) \in Nat /\ Len(sqi) \in Nat
    BY <1>3
  <2>4. QED
    BY ONLY <2>1, <2>2, <2>3
<1>6. /\ \A i \in 1 .. Len(sqi) : sqi[i].off \in 1 .. Len(sqd) /\ sqi[i].id < hdr.uid
      /\ Contents(sqd, sqi, 0, Len(sqi), hdr.uid)
  <2>1. 0 + 1 = 1 /\ 0 + Len(sqi) = Len(sqi)
    BY <1>3
  <2>2. QED
    BY <2>1 DEF Growing, Contents
<1>7. Contents(sqd, sqi, 0, Len(sqi), sqbuf'.uid)
  <2>1. \A i \in 0 + 1 .. 0 + Len(sqi) : sqi[i].id < hdr.uid + 1
    BY <1>3, <1>6
  <2>2. QED
    BY <1>4, <1>6, <2>1 DEF Contents
<1>8. \A i \in 1 .. Len(sqi) : sqi[i].off < sqbuf'.endf
  <2>1. \A i \in 1 .. Len(sqi) : sqi[i].off < Len(sqd) + 1
    BY <1>3, <1>6
  <2>2. QED
    BY <1>4, <2>1
<1>9. TypeOK'
  BY <1>1, <1>4 DEF TypeOK, Control
<1>10. Listed' = Listed
  <2>1. Count' = Len(sqi) /\ Count = Len(sqi)
    <3>1. Len(sqi') = Len(sqi) /\ hdr'.n = Len(sqi) + 1
      BY <1>1, <1>4
    <3>2. QED
      BY <1>3, <3>1, GrowFacts DEF Count
  <2>2. QED
    BY <1>1, <2>1 DEF Listed
<1>11. Growing'
  <2>1. cur <= Len(sqd)
    BY <1>2
  <2>2. QED
    BY <1>1, <1>2, <1>4, <1>5, <1>6, <1>7, <1>8, <1>10, <2>1 DEF Growing
<1>12. QED
  BY <1>9, <1>10, <1>11

LEMMA GrowIndex ==
    ASSUME TypeOK, Growing, WriteIndex
    PROVE  /\ TypeOK' /\ Growing'
           /\ Listed' = Append(Listed, sqbuf.uid - 1) /\ sqbuf.uid - 1 \in 1 .. MaxId
           /\ before = Listed /\ \A i \in 1 .. Len(Listed) : Listed[i] < sqbuf.uid - 1
<1> DEFINE n == Len(sqi)
           x == [off |-> cur, id |-> sqbuf.uid - 1]
<1>1. /\ pc = "index" /\ pc' = "idle" /\ Busy /\ AtRest' /\ ~Busy'
      /\ \/ sqbuf.n <= n
         \/ \E gap \in [1 .. sqbuf.n - 1 - n -> Leavings] : sqi' = Append(sqi \o gap, x)
      /\ UNCHANGED <<sqd, hdr, maxmsg, sqbuf, cur, pcurr, msg, before, killed>>
  BY DEF WriteIndex, Busy, AtRest, hist
<1>2. /\ sqbuf = hdr /\ sqbuf.n = n + 1 /\ cur < hdr.endf /\ sqbuf.uid \in 2 .. MaxId + 1
      /\ \A i \in 1 .. n : sqi[i].id < sqbuf.uid - 1
      /\ cur \in 1 .. Len(sqd) /\ sqd[cur].id = sqbuf.uid - 1 /\ ~sqd[cur].free
      /\ sqd[cur].len <= sqd[cur].size
      /\ before = Listed /\ maxmsg = 0
  BY <1>1 DEF Growing
<1>3. /\ sqi \in Seq(Entry) /\ n \in Nat /\ cur \in Nat /\ Len(sqd) \in Nat /\ MaxId \in Nat
      /\ Listed = [i \in 1 .. n |-> sqi[i].id] /\ Listed \in Seq(Nat)
      /\ \A i \in 1 .. n : sqi[i].id \in Nat /\ sqi[i].off \in Nat
  BY GrowFacts, SquishAssumption
<1>4. sqbuf.uid - 1 \in 1 .. MaxId /\ sqbuf.uid \in Nat /\ sqbuf.uid - 1 < sqbuf.uid
      /\ sqbuf.uid - 1 \in Nat
  BY <1>2, <1>3
<1>5. x \in Entry /\ x.off = cur /\ x.id = sqbuf.uid - 1
  BY <1>3, <1>4 DEF Entry
<1>6. sqi' = Append(sqi, x)
  <2>1. ~(sqbuf.n <= n) /\ sqbuf.n - 1 - n = 0
    BY <1>2, <1>3
  <2>2. PICK gap \in [1 .. 0 -> Leavings] : sqi' = Append(sqi \o gap, x)
    BY <1>1, <2>1
  <2>3. sqi \o gap = sqi
    BY <1>3, NoGap
  <2>4. QED
    BY <2>2, <2>3
<1> HIDE DEF x
<1>7. /\ sqi' \in Seq(Entry) /\ Len(sqi') = n + 1 /\ sqi'[n + 1] = x
      /\ \A i \in 1 .. n : sqi'[i] = sqi[i]
  <2>1. /\ Append(sqi, x) \in Seq(Entry) /\ Len(Append(sqi, x)) = Len(sqi) + 1
        /\ Append(sqi, x)[Len(sqi) + 1] = x
        /\ \A i \in 1 .. Len(sqi) : Append(sqi, x)[i] = sqi[i]
    BY ONLY <1>3, <1>5
  <2>2. QED
    BY <1>6, <2>1
<1> HIDE DEF n
<1>8. \A i \in 1 .. n + 1 : i \in 1 .. n \/ i = n + 1
  BY <1>3
<1>9. /\ \A i \in 1 .. n :
            /\ sqi[i].off \in 1 .. Len(sqd) /\ sqd[sqi[i].off].id = sqi[i].id
            /\ ~sqd[sqi[i].off].free /\ sqd[sqi[i].off].len <= sqd[sqi[i].off].size
            /\ sqi[i].id < sqbuf.uid
      /\ \A i, j \in 1 .. n : i < j => sqi[i].id < sqi[j].id
  <2>1. 0 + 1 = 1 /\ 0 + n = n
    BY <1>3
  <2>2. Contents(sqd, sqi, 0, n, sqbuf.uid)
    BY <1>2 DEF Growing, n
  <2>3. QED
    BY <2>1, <2>2 DEF Contents
<1>10. Contents(sqd, sqi', 0, n + 1, sqbuf.uid)
  <2>1. 0 + 1 = 1 /\ 0 + (n + 1) = n + 1
    BY <1>3
  <2>2. \A i \in 1 .. n + 1 :
          /\ sqi'[i].off \in 1 .. Len(sqd)
          /\ sqd[sqi'[i].off].id = sqi'[i].id
          /\ ~sqd[sqi'[i].off].free
          /\ sqd[sqi'[i].off].len <= sqd[sqi'[i].off].size
          /\ sqi'[i].id < sqbuf.uid
    <3>1. ASSUME NEW i \in 1 .. n
          PROVE  /\ sqi'[i].off \in 1 .. Len(sqd)
                 /\ sqd[sqi'[i].off].id = sqi'[i].id
                 /\ ~sqd[sqi'[i].off].free
                 /\ sqd[sqi'[i].off].len <= sqd[sqi'[i].off].size
                 /\ sqi'[i].id < sqbuf.uid
      <4>1. sqi'[i] = sqi[i]
        BY <1>7
      <4>2. QED
        BY <1>9, <4>1
    <3>2. /\ sqi'[n + 1].off \in 1 .. Len(sqd)
          /\ sqd[sqi'[n + 1].off].id = sqi'[n + 1].id
          /\ ~sqd[sqi'[n + 1].off].free
          /\ sqd[sqi'[n + 1].off].len <= sqd[sqi'[n + 1].off].size
          /\ sqi'[n + 1].id < sqbuf.uid
      BY <1>2, <1>4, <1>5, <1>7
    <3>3. QED
      BY <1>8, <3>1, <3>2
  <2>3. \A i, j \in 1 .. n + 1 : i < j => sqi'[i].id < sqi'[j].id
    <3>1. \A i, j \in 1 .. n + 1 : i < j => i \in 1 .. n /\ (j \in 1 .. n \/ j = n + 1)
      BY <1>3
    <3>2. \A i, j \in 1 .. n : i < j => sqi'[i].id < sqi'[j].id
      BY <1>7, <1>9
    <3>3. \A i \in 1 .. n : sqi'[i].id < sqi'[n + 1].id
      BY <1>2, <1>5, <1>7
    <3>4. QED
      BY <3>1, <3>2, <3>3
  <2>4. QED
    BY <2>1, <2>2, <2>3 DEF Contents
<1>11. TypeOK'
  BY <1>1, <1>7 DEF TypeOK, Control
<1>12. \A i \in 1 .. n + 1 : sqi'[i].off < hdr.endf
  <2>1. \A i \in 1 .. n : sqi'[i].off < hdr.endf
    BY <1>7 DEF Growing, n
  <2>2. sqi'[n + 1].off < hdr.endf
    BY <1>2, <1>5, <1>7
  <2>3. QED
    BY <1>8, <2>1, <2>2
<1>13. Growing'
  <2>1. /\ hdr.firstf = 0 /\ hdr.uid > 0 /\ hdr.endf \in 1 .. Len(sqd) + 1 /\ hdr.last <= Len(sqd)
    BY DEF Growing
  <2>2. Len(sqi') = n + 1 /\ hdr.n = n + 1 /\ Len(sqi') <= hdr.n
    BY <1>2, <1>3, <1>7
  <2>3. QED
    BY <1>1, <1>2, <1>10, <1>12, <2>1, <2>2 DEF Growing
<1>14. Listed' = Append(Listed, sqbuf.uid - 1)
  <2>1. Count' = n + 1
    <3>1. Len(sqi') = n + 1 /\ hdr'.n = n + 1
      BY <1>1, <1>2, <1>7
    <3>2. QED
      BY <1>3, <3>1 DEF Count
  <2>2. Listed' = [i \in 1 .. n + 1 |-> sqi'[i].id]
    BY <2>1 DEF Listed
  <2>3. /\ Len(Listed) = n
        /\ Append(Listed, sqbuf.uid - 1) = [i \in 1 .. n + 1 |-> IF i = n + 1 THEN sqbuf.uid - 1 ELSE Listed[i]]
    <3> DEFINE L == Listed
               id == sqbuf.uid - 1
    <3>1. L \in Seq(Nat) /\ Len(L) = n /\ id \in Nat
      BY <1>3, <1>4
    <3> HIDE DEF L, id
    <3>2. Append(L, id) = [i \in 1 .. n + 1 |-> IF i = n + 1 THEN id ELSE L[i]]
      <4> DEFINE t == Append(L, id)
      <4>1. /\ t \in Seq(Nat) /\ Len(t) = n + 1 /\ t[n + 1] = id
            /\ \A i \in 1 .. n : t[i] = L[i]
        BY <3>1
      <4> HIDE DEF t
      <4>2. t = [i \in 1 .. n + 1 |-> t[i]]
        BY <4>1
      <4>3. \A i \in 1 .. n + 1 : t[i] = IF i = n + 1 THEN id ELSE L[i]
        BY <1>8, <4>1
      <4>4. QED
        BY <4>2, <4>3 DEF t
    <3>3. QED
      BY <3>1, <3>2 DEF L, id
  <2>4. ASSUME NEW i \in 1 .. n + 1
        PROVE  sqi'[i].id = IF i = n + 1 THEN sqbuf.uid - 1 ELSE Listed[i]
    BY <1>3, <1>5, <1>7, <1>8
  <2>5. QED
    BY <2>2, <2>3, <2>4
<1>15. \A i \in 1 .. Len(Listed) : Listed[i] < sqbuf.uid - 1
  BY <1>2, <1>3
<1>16. QED
  BY <1>2, <1>4, <1>11, <1>13, <1>14, <1>15

LEMMA GrowNext ==
    ASSUME Limits \subseteq {0}, Editor = "no", ~NoFresh, TypeOK, Growing, [Next]_vars
    PROVE  TypeOK' /\ Growing'
<1>1. CASE Open \/ Close \/ Crash
  BY <1>1, GrowRest
<1>2. CASE Store
  <2>1. pc \in {"closed", "idle", "find", "frame", "header", "index"} /\ (pc = "find" => cur = 0)
    BY DEF Growing, Busy, AtRest
  <2>2. AtEnd \/ WriteFrame \/ WriteHeader \/ WriteIndex
    BY <1>2, <2>1 DEF Store, PurgeHead, PurgeTail, PurgeFree, PurgeShift, FindNext, Found,
                      Unlink, Relink, Link
  <2>3. QED
    BY <2>2, GrowAtEnd, GrowFrame, GrowHeader, GrowIndex
<1>3. CASE \E size \in Sizes : Start(size)
  <2>1. PICK size \in Sizes : Start(size)
    BY <1>3
  <2>2. QED
    BY <2>1, GrowStart
<1>4. CASE \E m \in Limits : SetLimit(m)
  BY <1>4 DEF SetLimit, Growing
<1>5. CASE \E k \in 1 .. Count : Delete(k)
  BY <1>5 DEF Delete
<1>6. CASE UNCHANGED vars
  <2>1. UNCHANGED <<sqd, hdr, sqi, maxmsg, pc, sqbuf, cur, pcurr, msg, before, killed>>
    BY <1>6 DEF vars, hist
  <2>2. TypeOK'
    BY <2>1 DEF TypeOK
  <2>3. Listed' = Listed /\ Busy' = Busy
    BY <2>1 DEF Listed, Count, Busy, AtRest
  <2>4. QED
    BY <2>1, <2>2, <2>3 DEF Growing
<1>7. QED
  BY <1>1, <1>2, <1>3, <1>4, <1>5, <1>6 DEF Next

LEMMA GrowInit ==
    ASSUME Limits \subseteq {0}, Init
    PROVE  TypeOK /\ Growing
<1>1. TypeOK
  BY InitSane DEF Sane
<1>2. /\ sqd = << >> /\ sqi = << >> /\ hdr = NewHeader /\ pc = "closed" /\ maxmsg = 0
  BY DEF Init
<1>3. /\ hdr.n = 0 /\ hdr.uid = 1 /\ hdr.firstf = 0 /\ hdr.endf = 1 /\ hdr.last = 0
      /\ Len(sqd) = 0 /\ Len(sqi) = 0
  BY <1>2 DEF NewHeader
<1>4. Contents(sqd, sqi, 0, 0, hdr.uid)
  BY DEF Contents
<1>5. QED
  BY <1>1, <1>2, <1>3, <1>4 DEF Growing, Busy, AtRest

LEMMA GrowRead ==
    ASSUME TypeOK, Growing
    PROVE  IndexReadable
<1>1. Contents(sqd, sqi, 0, Len(sqi), hdr.uid)
  BY DEF Growing
<1>2. Count = Len(sqi) /\ 0 + 1 = 1 /\ 0 + Len(sqi) = Len(sqi)
  BY GrowFacts
<1>3. QED
  BY <1>1, <1>2 DEF IndexReadable, Contents

-----------------------------------------------------------------------------
(* The invariants of the specification. *)

LEMMA KillStays ==
    ASSUME [Next]_vars
    PROVE  killed' = killed \/ (killed' = TRUE /\ Crash)
<1>1. CASE Store
  BY <1>1 DEF Store, PurgeHead, PurgeTail, PurgeFree, PurgeShift, FindNext, Found, Unlink, Relink,
              Link, AtEnd, WriteFrame, WriteHeader, WriteIndex, hist
<1>2. CASE Crash
  BY <1>2 DEF Crash
<1>3. CASE Open \/ Close \/ (\E m \in Limits : SetLimit(m)) \/ UNCHANGED vars
  BY <1>3 DEF Open, Close, SetLimit, vars, hist
<1>4. CASE (\E size \in Sizes : Start(size)) \/ (\E k \in 1 .. Count : Delete(k))
  BY <1>4 DEF Start, Delete, hist
<1>5. QED
  BY <1>1, <1>2, <1>3, <1>4 DEF Next

LEMMA SaneInvariant ==
    ASSUME Usable
    PROVE  Spec => [](~killed => Sane)
<1>1. Init => (~killed => Sane)
  BY InitSane
<1>2. (~killed => Sane) /\ [Next]_vars => (~killed => Sane)'
  <2> SUFFICES ASSUME ~killed => Sane, [Next]_vars, ~killed'
               PROVE  Sane'
    OBVIOUS
  <2>1. ~Crash
    BY Zenon DEF Crash
  <2>2. killed' = killed
    BY <2>1, KillStays
  <2>3. ~killed
    BY <2>2, Zenon
  <2>4. QED
    BY <2>1, <2>3, NextSane
<1>3. QED
  BY <1>1, <1>2, PTL DEF Spec

LEMMA GrowInvariant ==
    ASSUME Limits \subseteq {0}, Editor = "no", ~NoFresh
    PROVE  Spec => [](TypeOK /\ Growing)
<1>1. Init => TypeOK /\ Growing
  BY GrowInit
<1>2. TypeOK /\ Growing /\ [Next]_vars => (TypeOK /\ Growing)'
  BY GrowNext
<1>3. QED
  BY <1>1, <1>2, PTL DEF Spec

\* Without kills there is none to be recorded.
LEMMA NoKill ==
    ASSUME ~Crashes
    PROVE  Spec => [](killed = FALSE)
<1>1. Init => killed = FALSE
  BY DEF Init
<1>2. killed = FALSE /\ [Next]_vars => (killed = FALSE)'
  BY KillStays DEF Crash
<1>3. QED
  BY <1>1, <1>2, PTL DEF Spec

LEMMA SaneAlways ==
    ASSUME Usable, ~Crashes
    PROVE  Spec => []Sane
<1>1. Spec => [](~killed => Sane)
  BY SaneInvariant
<1>2. Spec => [](killed = FALSE)
  BY NoKill
<1>3. (~killed => Sane) /\ killed = FALSE => Sane
  OBVIOUS
<1>4. QED
  BY <1>1, <1>2, <1>3, PTL

\* The variables have their types as long as a limit works and either no call is
\* killed or nothing is ever dropped or deleted (buftosqd.cpp, structur.doc).
THEOREM SquishTypes ==
    ASSUME Usable, Killable
    PROVE  Spec => []TypeOK
<1>1. CASE ~Crashes
  <2>1. Spec => []Sane
    BY <1>1, SaneAlways
  <2>2. Sane => TypeOK
    BY DEF Sane
  <2>3. QED
    BY <2>1, <2>2, PTL
<1>2. CASE Crashes
  <2>1. Spec => [](TypeOK /\ Growing)
    BY <1>2, GrowInvariant DEF Killable
  <2>2. QED
    BY <2>1, PTL
<1>3. QED
  BY <1>1, <1>2

\* In a base on which no call was killed the chain of messages tells what the index
\* tells, and every other frame is on the chain of free frames, whatever was dropped,
\* deleted and stored in the places that became free.
THEOREM ChainsAgree ==
    ASSUME Usable
    PROVE  Spec => []TwoChains
<1>1. Spec => [](~killed => Sane)
  BY SaneInvariant
<1>2. (~killed => Sane) => TwoChains
  BY SaneChains DEF TwoChains
<1>3. QED
  BY <1>1, <1>2, PTL

\* What the index lists can be read, under ascending numbers, between any two calls
\* and, in a base that is only added to and whose limits are the tosser's own, after a
\* kill between any two writes.
THEOREM IndexRead ==
    ASSUME Usable, Killable
    PROVE  Spec => []IndexReadable
<1>1. CASE ~Crashes
  <2>1. Spec => []Sane
    BY <1>1, SaneAlways
  <2>2. Sane => IndexReadable
    BY SaneRead
  <2>3. QED
    BY <2>1, <2>2, PTL
<1>2. CASE Crashes
  <2>1. Spec => [](TypeOK /\ Growing)
    BY <1>2, GrowInvariant DEF Killable
  <2>2. TypeOK /\ Growing => IndexReadable
    BY GrowRead
  <2>3. QED
    BY <2>1, <2>2, PTL
<1>3. QED
  BY <1>1, <1>2

-----------------------------------------------------------------------------
(* The list a base promises. *)

\* What users are told: between two calls the index, during one what it was before.
Shown == IF AtRest THEN Listed ELSE before

LEMMA ShownStays ==
    ASSUME Shown' = Shown, maxmsg' = maxmsg
    PROVE  UNCHANGED List!vars
  BY DEF List!vars, Shown

\* Of the list l those are kept that there is room for, from its end.
LEMMA KeptEnd ==
    ASSUME NEW l \in Seq(Nat), NEW max \in Nat, NEW skip, max # 0 => max >= 2 /\ skip = 0
    PROVE  (IF max = 0 \/ Len(l) < max THEN l
            ELSE SubSeq(l, 1, skip) \o SubSeq(l, skip + 2 + (Len(l) - max), Len(l)))
           = [i \in 1 .. Room(max, Len(l)) |-> l[i + Len(l) - Room(max, Len(l))]]
<1> DEFINE n == Len(l)
<1>1. n \in Nat /\ l \in Seq(Nat)
  OBVIOUS
<1>2. CASE max = 0 \/ n < max
  <2>1. Room(max, n) = n /\ \A i \in 1 .. n : i + n - n = i
    BY <1>1, <1>2 DEF Room
  <2>2. l = [i \in 1 .. n |-> l[i]]
    OBVIOUS
  <2>3. QED
    BY <1>2, <2>1, <2>2
<1>3. CASE ~(max = 0 \/ n < max)
  <2> DEFINE a == SubSeq(l, 1, 0)
             b == SubSeq(l, 2 + (n - max), n)
             t == a \o b
  <2>1. max >= 2 /\ n >= max /\ skip = 0 /\ Room(max, n) = max - 1 /\ max - 1 \in Nat
    BY <1>1, <1>3 DEF Room
  <2>2. /\ 2 + (n - max) \in 1 .. n /\ n - (2 + (n - max)) + 1 = max - 1
        /\ \A i \in Int : 2 + (n - max) + i - 1 = i + n - (max - 1)
    BY <1>1, <2>1
  <2>3. b \in Seq(Nat) /\ Len(b) = max - 1
    BY <1>1, <2>2
  <2>4. ASSUME NEW i \in 1 .. max - 1  PROVE b[i] = l[i + n - (max - 1)]
    <3>1. 2 + (n - max) \in Int /\ n \in Int /\ i \in 1 .. (n - (2 + (n - max)) + 1)
          /\ 2 + (n - max) + i - 1 = i + n - (max - 1)
      BY <1>1, <2>1, <2>2
    <3>2. QED
      BY <1>1, <3>1
  <2>5. a = << >>
    OBVIOUS
  <2> HIDE DEF a, b
  <2>6. t = b
    BY <2>3, <2>5
  <2>7. b = [i \in 1 .. max - 1 |-> b[i]]
    BY <2>3
  <2>8. t = [i \in 1 .. max - 1 |-> l[i + n - (max - 1)]]
    BY <2>4, <2>6, <2>7
  <2>9. skip + 2 = 2
    BY <2>1
  <2>10. QED
    BY <1>3, <2>1, <2>8, <2>9 DEF a, b
<1>4. QED
  BY <1>2, <1>3

\* The function t goes on from the list l of n elements by id.
Extends(t, l, n, id) ==
    /\ n \in Nat /\ l \in Seq(Nat) /\ Len(l) = n /\ id \in Nat
    /\ t = [i \in 1 .. n + 1 |-> t[i]]
    /\ \A i \in 1 .. n : t[i] = l[i]
    /\ t[n + 1] = id

LEMMA AppendedAs ==
    ASSUME NEW t, NEW l, NEW n, NEW id, Extends(t, l, n, id)
    PROVE  t = Append(l, id)
<1> DEFINE u == Append(l, id)
<1>1. /\ n \in Nat /\ l \in Seq(Nat) /\ Len(l) = n /\ id \in Nat
      /\ t = [i \in 1 .. n + 1 |-> t[i]]
      /\ \A i \in 1 .. n : t[i] = l[i]
      /\ t[n + 1] = id
  BY DEF Extends
<1>2. /\ u \in Seq(Nat) /\ Len(u) = n + 1 /\ u[n + 1] = id
      /\ \A i \in 1 .. n : u[i] = l[i]
  BY <1>1
<1> HIDE DEF u
<1>3. u = [i \in 1 .. n + 1 |-> u[i]]
  BY <1>1, <1>2
<1>4. \A i \in 1 .. n + 1 : i \in 1 .. n \/ i = n + 1
  BY <1>1
<1>5. \A i \in 1 .. n + 1 : u[i] = t[i]
  BY <1>1, <1>2, <1>4
<1>6. t = u
  BY <1>1, <1>3, <1>5
<1>7. QED
  BY <1>6 DEF u

LEMMA EndSeq ==
    ASSUME NEW l \in Seq(Nat), NEW k \in Nat, k <= Len(l)
    PROVE  LET t == [i \in 1 .. k |-> l[i + Len(l) - k]]
           IN  t \in Seq(Nat) /\ Len(t) = k
<1> DEFINE t == [i \in 1 .. k |-> l[i + Len(l) - k]]
<1>1. Len(l) \in Nat
  OBVIOUS
<1>2. ASSUME NEW i \in 1 .. k  PROVE l[i + Len(l) - k] \in Nat
  <2>1. i + Len(l) - k \in 1 .. Len(l)
    BY <1>1
  <2>2. QED
    BY <2>1
<1>3. t \in [1 .. k -> Nat]
  BY <1>2
<1> HIDE DEF t
<1>4. t \in Seq(Nat) /\ Len(t) = k
  BY <1>3
<1>5. QED
  BY <1>4 DEF t

\* The write of the index is the arrival of the message.
LEMMA SaneArrives ==
    ASSUME Usable, Sane, WriteIndex
    PROVE  List!Arrive
<1> DEFINE n == sqbuf.n
           k == n - 1
           id == sqbuf.uid - 1
           l == before
           K == [i \in 1 .. k |-> l[i + Len(l) - k]]
<1>1. /\ pc = "index" /\ ~AtRest /\ AtRest' /\ UNCHANGED <<hdr, maxmsg, before>>
  BY DEF WriteIndex, AtRest, hist
<1>2. /\ TypeOK /\ n \in Nat \ {0} /\ Len(l) \in Nat /\ maxmsg \in Nat
      /\ sqi' \in Seq(Entry) /\ Len(sqi') = n
      /\ \A i \in 1 .. k : sqi'[i] = sqi[i]
      /\ sqi'[n].id = id /\ id \in 1 .. MaxId
      /\ \A i \in 1 .. Len(l) : l[i] < id
      /\ \A i \in 1 .. k : sqi[i].id = l[i + Len(l) - k]
      /\ k <= Len(l) /\ k = Room(maxmsg, Len(l))
  BY IndexWritten
<1>3. hdr = sqbuf
  BY <1>1 DEF Sane, CallInv, StoredInv
<1>4. l \in Seq(Nat) /\ maxmsg \in Limits /\ k \in Nat /\ k + 1 = n /\ id \in Nat
  BY <1>2 DEF TypeOK
<1>5. maxmsg # 0 => maxmsg >= 2 /\ Skip = 0
  BY <1>4, UsableLimit
<1>6. Listed' = [i \in 1 .. n |-> sqi'[i].id]
  <2>1. Count' = n
    BY <1>1, <1>2, <1>3 DEF Count
  <2>2. QED
    BY <2>1 DEF Listed
<1>7. List!Kept(before) = K
  <2> DEFINE kept == IF maxmsg = 0 \/ Len(l) < maxmsg THEN l
                     ELSE SubSeq(l, 1, Skip) \o SubSeq(l, Skip + 2 + (Len(l) - maxmsg), Len(l))
  <2>1. List!Kept(before) = kept
    BY DEF List!Kept
  <2>2. kept = [i \in 1 .. Room(maxmsg, Len(l)) |-> l[i + Len(l) - Room(maxmsg, Len(l))]]
    <3> HIDE DEF l
    <3>1. QED
      BY <1>2, <1>4, <1>5, KeptEnd
  <2>3. QED
    BY <1>2, <2>1, <2>2
<1>8. K \in Seq(Nat) /\ Len(K) = k
  <2>1. l \in Seq(Nat) /\ k \in Nat /\ k <= Len(l)
    BY <1>2, <1>4
  <2> HIDE DEF l, k
  <2>2. QED
    BY <2>1, EndSeq
<1>9. Listed' = Append(K, id)
  <2> DEFINE t == Listed'
  <2>1. \A i \in 1 .. k : t[i] = K[i]
    <3>1. \A i \in 1 .. k : i \in 1 .. n
      BY <1>2
    <3>2. QED
      BY <1>2, <1>6, <3>1
  <2>2. t[n] = id /\ t = [i \in 1 .. n |-> t[i]]
    BY <1>2, <1>6
  <2> HIDE DEF t, K, k, id
  <2>3. t = [i \in 1 .. k + 1 |-> t[i]] /\ t[k + 1] = id
    BY <1>4, <2>2
  <2>4. k \in Nat /\ id \in Nat /\ K \in Seq(Nat) /\ Len(K) = k
    BY <1>4, <1>8
  <2>5. Extends(t, K, k, id)
    BY <2>1, <2>3, <2>4 DEF Extends
  <2>6. t = Append(K, id)
    BY <2>5, AppendedAs
  <2>7. QED
    BY <2>6 DEF t
<1>10. Shown = before /\ Shown' = Listed'
  BY <1>1 DEF Shown
<1>11. \A i \in 1 .. Len(Shown) : id > Shown[i]
  BY <1>2, <1>4, <1>10
<1>12. Shown' = Append(List!Kept(Shown), id)
  BY <1>7, <1>9, <1>10
<1>13. QED
  BY <1>1, <1>2, <1>11, <1>12 DEF List!Arrive, Shown

LEMMA SaneDeletes ==
    ASSUME Sane, NEW k \in 1 .. Count, Delete(k)
    PROVE  List!Delete
<1> DEFINE n == hdr.n
<1>1. /\ pc = "closed" /\ pc' = "closed" /\ AtRest /\ AtRest' /\ maxmsg' = maxmsg
      /\ sqi' = SubSeq(sqi, 1, k - 1) \o SubSeq(sqi, k + 1, Len(sqi))
      /\ hdr'.n = Count - 1
  <2>1. hdr \in Header
    BY DEF Sane, TypeOK
  <2>2. QED
    BY <2>1 DEF Delete, AtRest, Header
<1>2. /\ sqi \in Seq(Entry) /\ n \in Nat /\ Len(sqi) = n
  BY <1>1 DEF Sane, CallInv, RestInv, TypeOK, Header
<1>3. Count = n /\ k \in 1 .. n
  BY <1>2 DEF Count
<1>4. /\ sqi' \in Seq(Entry) /\ Len(sqi') = n - 1
      /\ \A i \in 1 .. n - 1 : sqi'[i] = IF i < k THEN sqi[i] ELSE sqi[i + 1]
  <2> DEFINE x == sqi
             y == SubSeq(x, 1, k - 1) \o SubSeq(x, k + 1, Len(x))
  <2>1. x \in Seq(Entry) /\ k \in 1 .. Len(x) /\ Len(x) = n
    BY <1>2, <1>3
  <2> HIDE DEF x
  <2>2. /\ y \in Seq(Entry) /\ Len(y) = Len(x) - 1
        /\ \A i \in 1 .. Len(x) - 1 : y[i] = IF i < k THEN x[i] ELSE x[i + 1]
    BY <2>1, SeqWithout
  <2>3. QED
    BY <1>1, <2>1, <2>2 DEF x
<1>5. Listed = [i \in 1 .. n |-> sqi[i].id] /\ Listed' = [i \in 1 .. n - 1 |-> sqi'[i].id]
  <2>1. Count' = n - 1
    BY <1>1, <1>2, <1>3, <1>4 DEF Count
  <2>2. QED
    BY <1>3, <2>1 DEF Listed
<1>6. Listed \in Seq(Nat) /\ Len(Listed) = n
  <2>1. \A i \in 1 .. n : sqi[i] \in Entry
    BY <1>2
  <2>2. \A i \in 1 .. n : sqi[i].id \in Nat
    BY <2>1 DEF Entry
  <2>3. QED
    BY <1>2, <1>5, <2>2
<1> DEFINE L == Listed
           w == SubSeq(L, 1, k - 1) \o SubSeq(L, k + 1, Len(L))
<1>7. /\ w \in Seq(Nat) /\ Len(w) = n - 1
      /\ \A i \in 1 .. n - 1 : w[i] = IF i < k THEN L[i] ELSE L[i + 1]
  <2>1. L \in Seq(Nat) /\ k \in 1 .. Len(L) /\ Len(L) = n
    BY <1>3, <1>6
  <2> HIDE DEF L
  <2>2. QED
    BY <2>1, SeqWithout
<1>8. Listed' = w
  <2> HIDE DEF w
  <2>1. w = [i \in 1 .. n - 1 |-> w[i]]
    BY <1>7
  <2>2. ASSUME NEW i \in 1 .. n - 1  PROVE sqi'[i].id = w[i]
    <3>1. i \in 1 .. n /\ i + 1 \in 1 .. n
      BY <1>2
    <3>2. QED
      BY <1>4, <1>5, <1>7, <3>1
  <2>3. QED
    BY <1>5, <2>1, <2>2
<1>9. Shown = Listed /\ Shown' = Listed'
  BY <1>1 DEF Shown
<1>10. k \in 1 .. Len(Shown) /\ Shown' = SubSeq(Shown, 1, k - 1) \o SubSeq(Shown, k + 1, Len(Shown))
  BY <1>3, <1>6, <1>8, <1>9
<1>11. QED
  BY <1>1, <1>10 DEF List!Delete, Shown

\* Nothing else a call writes is seen before it ends.
LEMMA SaneHides ==
    ASSUME Usable, Sane, Store, ~WriteIndex
    PROVE  UNCHANGED List!vars
<1>1. ~AtRest /\ before' = before /\ maxmsg' = maxmsg
  BY DEF Store, PurgeHead, PurgeTail, PurgeFree, PurgeShift, FindNext, Found, Unlink, Relink, Link,
         AtEnd, WriteFrame, WriteHeader, AtRest, hist
<1>2. ~AtRest'
  <2>1. CASE PurgeHead
    BY <2>1, PurgeHeadSane DEF AtRest
  <2>2. CASE ~PurgeHead
    BY <2>2 DEF Store, PurgeTail, PurgeFree, PurgeShift, FindNext, Found, Unlink, Relink, Link,
         AtEnd, WriteFrame, WriteHeader, AtRest
  <2>3. QED
    BY <2>1, <2>2
<1>3. QED
  BY <1>1, <1>2, ShownStays DEF Shown

\* Entering and leaving the base shows the same list, and a limit only acts later.
LEMMA SaneEnters ==
    ASSUME Usable, Sane, Open \/ Close \/ \E size \in Sizes : Start(size)
    PROVE  UNCHANGED List!vars
<1>1. AtRest /\ UNCHANGED <<sqi, maxmsg>>
  BY DEF Open, Close, Start, AtRest, disk
<1>2. /\ TypeOK /\ hdr \in Header /\ hdr.n \in Nat /\ Len(sqi) = hdr.n /\ Count = hdr.n
  <2>1. hdr \in Header /\ Len(sqi) = hdr.n
    BY <1>1 DEF Sane, TypeOK, CallInv, RestInv
  <2>2. QED
    BY <2>1 DEF Count, Header, Sane
<1>3. CASE Open \/ Close
  <2>1. hdr' = hdr /\ AtRest'
    BY <1>2, <1>3 DEF Open, Close, disk, AtRest, Header
  <2>2. Listed' = Listed
    BY <1>1, <2>1 DEF Listed, Count
  <2>3. QED
    BY <1>1, <2>1, <2>2, ShownStays DEF Shown
<1>4. CASE \E size \in Sizes : Start(size)
  <2>1. before' = Listed /\ ~AtRest'
    BY <1>4, Started DEF Start, AtRest
  <2>2. QED
    BY <1>1, <2>1, ShownStays DEF Shown
<1>5. QED
  BY <1>3, <1>4

LEMMA LimitSet ==
    ASSUME NEW m \in Limits, SetLimit(m)
    PROVE  List!Limit
<1>1. AtRest /\ AtRest' /\ Listed' = Listed
  BY DEF SetLimit, AtRest, disk, Listed, Count
<1>2. Shown' = Shown
  BY <1>1 DEF Shown
<1>3. maxmsg' \in Nat
  BY SquishAssumption DEF SetLimit
<1>4. QED
  BY <1>2, <1>3 DEF List!Limit, Shown

LEMMA SaneImplements ==
    ASSUME Usable, ~Crashes, Sane, [Next]_vars
    PROVE  [List!Next]_(List!vars)
<1>1. CASE Store
  <2>1. CASE WriteIndex
    BY <2>1, SaneArrives DEF List!Next
  <2>2. CASE ~WriteIndex
    BY <1>1, <2>2, SaneHides
  <2>3. QED
    BY <2>1, <2>2
<1>2. CASE Open \/ Close \/ \E size \in Sizes : Start(size)
  BY <1>2, SaneEnters
<1>3. CASE \E m \in Limits : SetLimit(m)
  BY <1>3, LimitSet DEF List!Next
<1>4. CASE \E k \in 1 .. Count : Delete(k)
  BY <1>4, SaneDeletes DEF List!Next
<1>5. CASE UNCHANGED vars
  <2>1. UNCHANGED <<sqd, hdr, sqi, maxmsg, pc, sqbuf, cur, pcurr, msg, before, killed>>
    BY <1>5 DEF vars, hist
  <2>2. Shown' = Shown
    BY <2>1 DEF Shown, AtRest, Listed, Count
  <2>3. QED
    BY <2>1, <2>2, ShownStays
<1>6. QED
  BY <1>1, <1>2, <1>3, <1>4, <1>5 DEF Next, Crash

LEMMA GrowImplements ==
    ASSUME Limits \subseteq {0}, Editor = "no", ~NoFresh, TypeOK, Growing, [Next]_vars
    PROVE  [List!Next]_(List!vars)
<1>1. CASE WriteIndex
  <2>1. /\ Listed' = Append(Listed, sqbuf.uid - 1) /\ sqbuf.uid - 1 \in 1 .. MaxId
        /\ before = Listed /\ \A i \in 1 .. Len(Listed) : Listed[i] < sqbuf.uid - 1
    BY <1>1, GrowIndex
  <2>2. ~AtRest /\ AtRest' /\ maxmsg' = maxmsg /\ maxmsg = 0
    BY <1>1 DEF WriteIndex, AtRest, Growing
  <2>3. Shown = Listed /\ Shown' = Listed'
    BY <2>1, <2>2 DEF Shown
  <2>4. List!Kept(Shown) = Shown
    BY <2>2 DEF List!Kept
  <2>5. Shown' = Append(List!Kept(Shown), sqbuf.uid - 1)
    BY <2>1, <2>3, <2>4
  <2>6. \A i \in 1 .. Len(Shown) : sqbuf.uid - 1 > Shown[i]
    <3>1. Listed \in Seq(Nat) /\ sqbuf.uid \in Nat
      BY GrowFacts
    <3>2. QED
      BY <2>1, <2>3, <3>1
  <2>7. List!Arrive
    BY <2>1, <2>2, <2>5, <2>6 DEF List!Arrive, Shown
  <2>8. QED
    BY <2>7 DEF List!Next
<1>2. CASE Open \/ Close \/ Crash
  <2>1. Listed' = Listed /\ AtRest' /\ maxmsg' = maxmsg
    BY <1>2, GrowRest DEF Open, Close, Crash, AtRest
  <2>2. ~AtRest => before = Listed
    BY DEF Growing, Busy
  <2>3. QED
    BY <2>1, <2>2, ShownStays DEF Shown
<1>3. CASE Store /\ ~WriteIndex
  <2>1. pc \in {"closed", "idle", "find", "frame", "header", "index"} /\ (pc = "find" => cur = 0)
    BY DEF Growing, Busy, AtRest
  <2>2. AtEnd \/ WriteFrame \/ WriteHeader
    BY <1>3, <2>1 DEF Store, PurgeHead, PurgeTail, PurgeFree, PurgeShift, FindNext, Found,
                      Unlink, Relink, Link
  <2>3. ~AtRest /\ ~AtRest' /\ before' = before /\ maxmsg' = maxmsg
    BY <2>2 DEF AtEnd, WriteFrame, WriteHeader, AtRest, hist
  <2>4. QED
    BY <2>3, ShownStays DEF Shown
<1>4. CASE \E size \in Sizes : Start(size)
  <2>1. before' = Listed /\ AtRest /\ ~AtRest' /\ maxmsg' = maxmsg
    BY <1>4, GrowStarts DEF Start, AtRest
  <2>2. QED
    BY <2>1, ShownStays DEF Shown
<1>5. CASE \E m \in Limits : SetLimit(m)
  BY <1>5, LimitSet DEF List!Next
<1>6. CASE \E k \in 1 .. Count : Delete(k)
  BY <1>6 DEF Delete
<1>7. CASE UNCHANGED vars
  <2>1. UNCHANGED <<sqd, hdr, sqi, maxmsg, pc, sqbuf, cur, pcurr, msg, before, killed>>
    BY <1>7 DEF vars, hist
  <2>2. Shown' = Shown
    BY <2>1 DEF Shown, AtRest, Listed, Count
  <2>3. QED
    BY <2>1, <2>2, ShownStays
<1>8. QED
  BY <1>1, <1>2, <1>3, <1>4, <1>5, <1>6, <1>7 DEF Next

\* Write by write, a base in which a limit works is the list its users are promised:
\* it stays what it was until the write of the index adds the message and drops the
\* oldest ones, as buftosqd is to do; and so is a base that is only added to and whose
\* limits are the tosser's own, in which a call may be killed between any two writes.
THEOREM ImplementsEchoList ==
    ASSUME Usable, Killable
    PROVE  Spec => ImplementsList
<1>1. Init => List!Init
  <2> SUFFICES ASSUME Init  PROVE List!Init
    OBVIOUS
  <2>1. AtRest /\ Listed = << >>
    <3>1. pc = "closed" /\ Len(sqi) = 0 /\ hdr.n = 0
      BY DEF Init, NewHeader
    <3>2. Count = 0
      BY <3>1 DEF Count
    <3>3. QED
      BY <3>1, <3>2 DEF Listed, AtRest
  <2>2. maxmsg \in Nat /\ Skip \in Nat
    BY SquishAssumption DEF Init
  <2>3. QED
    BY <2>1, <2>2 DEF List!Init
<1>2. CASE ~Crashes
  <2>1. Spec => []Sane
    BY <1>2, SaneAlways
  <2>2. Sane /\ [Next]_vars => [List!Next]_(List!vars)
    BY <1>2, SaneImplements
  <2>3. QED
    BY <1>1, <2>1, <2>2, PTL DEF Spec, ImplementsList, List!Spec
<1>3. CASE Crashes
  <2>1. Limits \subseteq {0} /\ Editor = "no" /\ ~NoFresh
    BY <1>3 DEF Killable
  <2>2. Spec => [](TypeOK /\ Growing)
    BY <2>1, GrowInvariant
  <2>3. TypeOK /\ Growing /\ [Next]_vars => [List!Next]_(List!vars)
    BY <2>1, GrowImplements
  <2>4. QED
    BY <1>1, <2>2, <2>3, PTL DEF Spec, ImplementsList, List!Spec
<1>4. QED
  BY <1>2, <1>3
=============================================================================
