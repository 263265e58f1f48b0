--------------------------- MODULE RebuildProofs ----------------------------
(***************************************************************************)
(* Proofs about Rebuild, for any number of messages and days, any widths   *)
(* and configurations: Purge, tossbad and untoss lose no message that was  *)
(* not exposed to a kill or to the renames, messages keep their numbers,   *)
(* and what was to go has gone.                                            *)
(***************************************************************************)
EXTENDS Rebuild, FiniteSetTheorems, SequenceTheorems, TLAPS

\* The old files of an area are on their way out.
Moving == pc \in {"index", "moveindex"}
Purging ==
    pc \in {"create", "copy", "data", "movedata", "index", "moveindex", "wipe", "wiperest"}

\* What a purge writes has neither gaps nor holes.
Dense(d, x) ==
    /\ Len(x) = d.num /\ Len(d.frames) = d.num
    /\ \A k \in 1 .. d.num : x[k].at = k /\ d.frames[k] # Hole

AtWork ==
    /\ pc \in {"create", "copy", "untoss"} => Sound
    /\ pc \in {"copy", "untoss"} => i \in 1 .. data.num + 1
    /\ pc \in {"copy", "data", "movedata"} => qd # None /\ qi # None /\ Dense(qd, qi)
    /\ Moving => /\ data # None /\ qi # None
                 /\ Dense(data, qi) \/ (risk # {} /\ Stored(data) \subseteq risk)
    /\ pc \in {"badnew", "badtoss"} => badqd # None
    /\ pc \in {"bad", "badmove", "badtoss"} => bad # None
    /\ pc = "badnew" => bad = None
    /\ pc = "badtoss" => i \in 1 .. Len(badqd) + 1

\* Old, for any day and configuration.
Aged(c, t, m) == c.days # 0 /\ t - m.day >= c.days

\* Where a message that is not in the base may be, and that none is missing.
Lying == {bad[k].id : k \in (IF bad = None THEN {} ELSE 1 .. Len(bad))}
Away == Lying \cup Pending \cup elsewhere \cup gone \cup risk
Excused == mixed /\ conf.analyse >= 2
BaseKept ==
    pc \notin {"movedata", "index", "moveindex", "wipe", "wiperest"} =>
        posted \subseteq Readable \cup Away
NewKept ==
    /\ pc \in {"data", "movedata"} => posted \subseteq Stored(qd) \cup Away
    /\ Moving => posted \subseteq Stored(data) \cup Away
    /\ pc \in {"wipe", "wiperest"} => posted \subseteq Away
RunKept ==
    /\ pc = "copy" => \A k \in 1 .. data.num : k < i => Msg(k).id \in Stored(qd) \cup gone
    /\ pc = "untoss" => \A k \in 1 .. data.num : k < i => Msg(k).id \in elsewhere
MapKept ==
    pc \in {"create", "copy"} /\ conf.analyse >= 2 /\ conf.days # 0 =>
        \A k \in 1 .. data.num : k \notin keep => Aged(conf, today, Msg(k))
KeptInv == Excused \/ (BaseKept /\ NewKept /\ RunKept /\ MapKept)

\* A message that waits in BadArea has no number yet, and waits once.
BadAt == IF bad = None THEN {} ELSE 1 .. Len(bad)
PendingAt == IF pc = "badtoss" THEN i .. Len(badqd)
                                 ELSE IF pc = "badnew" THEN 1 .. Len(badqd) ELSE {}
BadInv ==
    /\ posted = 1 .. Cardinality(posted)
    /\ \A m \in Ids \ posted : known[m] = 0
    /\ \A k \in BadAt : known[bad[k].id] = 0 /\ bad[k].id \in posted
    /\ \A k \in PendingAt : known[badqd[k].id] = 0 /\ badqd[k].id \in posted
    /\ \A j, k \in BadAt : j # k => bad[j].id # bad[k].id
    /\ \A j, k \in PendingAt : j # k => badqd[j].id # badqd[k].id
    /\ \A j \in BadAt, k \in PendingAt : bad[j].id # badqd[k].id

\* A message has the number it was given first.
RightOne(m, uid, r, kn) == m \in r \/ kn[m] >= Half \/ (uid = kn[m] /\ kn[m] # 0)
Right(d, x, r, kn) ==
    \A k \in 1 .. d.num :
        k \in 1 .. Len(x) /\ x[k].at \in 1 .. Len(d.frames) /\ d.frames[x[k].at] # Hole
        => RightOne(d.frames[x[k].at].id, x[k].uid, r, kn)
NumInv ==
    /\ data # None => data.next > 0
    /\ qd # None => qd.next > 0
    /\ ~Moving => Right(Opened.d, Opened.x, risk, known)
    /\ pc \in {"copy", "data", "movedata"} => Right(qd, qi, risk, known)
    /\ Moving => Right(data, qi, risk, known)

\* While all numbers fit, the indexes are in their order.
Asc(d, x) ==
    \A k \in 1 .. d.num : k \in 1 .. Len(x) =>
        x[k].uid < d.next /\ \A e \in 1 .. k - 1 : x[e].uid < x[k].uid
Steady == risk = {} /\ \A m \in Ids : known[m] < Half
AscInv == Steady =>
    /\ ~Moving => Asc(Opened.d, Opened.x)
    /\ pc \in {"copy", "data", "movedata"} => Asc(qd, qi)
    /\ Moving => Asc(data, qi)
    /\ pc = "copy" => \A k \in 1 .. qd.num, j \in i .. data.num : qi[k].uid < index[j].uid

\* What a purge of this day has written, or found, has no old message.
NoneOld(c, t, d) == \A k \in 1 .. Len(d.frames) : ~Aged(c, t, d.frames[k])
FreshInv ==
    /\ fresh = "running" =>
          /\ Purging
          /\ pc \in {"copy", "data", "movedata"} => NoneOld(conf, today, qd)
          /\ Moving => Dense(data, qi) /\ NoneOld(conf, today, data)
          /\ pc = "wiperest" => data = None
          /\ pc \in {"create", "copy"} /\ conf.analyse >= 2 /\ conf.days # 0 =>
                \A k \in 1 .. data.num : k \in keep => ~Aged(conf, today, Msg(k))
    /\ fresh = "yes" =>
          /\ ~Purging
          /\ Sound /\ conf.analyse # 3 => Free = {} /\ Expired = {}

-----------------------------------------------------------------------------
(* Lemmas on sequences and on the base. *)

USE DEF area, temp, badarea, run, history

\* The parameters, one by one.
LEMMA ParamFact ==
    /\ MaxId \in Nat /\ MaxDay \in Nat /\ Byte \in Nat /\ Half \in Nat /\ Long \in Nat
    /\ MaxId > 0 /\ Byte > 0 /\ Half > 0
    /\ Confs \subseteq Conf /\ MaxKills \in Nat
    /\ None \notin DataFile /\ None \notin IndexFile /\ None \notin Seq(Message)
BY RebuildAssumption

\* A message is not a free frame.
LEMMA HoleFact == Hole \notin Message /\ Hole.id = 0
BY DEF Hole, Message, Ids

LEMMA RehwmFact ==
    ASSUME NEW u \in Nat
    PROVE  Rehwm(u) \in Nat /\ (u < Half => Rehwm(u) = u)
<1>1. 2 * Half \in Nat /\ 2 * Half > 0 /\ Half \in Nat /\ Long \in Nat
  BY ParamFact
<1>2. u % (2 * Half) \in Nat
  BY <1>1
<1>3. u < 2 * Half => u % (2 * Half) = u
  BY <1>1
<1> QED
  BY <1>1, <1>2, <1>3 DEF Rehwm

\* The part of a sequence from a to b.
LEMMA PartFact ==
    ASSUME NEW S, NEW s \in Seq(S), NEW a \in Nat \ {0}, NEW b \in Nat, b <= Len(s), a <= b + 1
    PROVE  /\ SubSeq(s, a, b) \in Seq(S) /\ Len(SubSeq(s, a, b)) = b + 1 - a
           /\ \A k \in 1 .. b + 1 - a : SubSeq(s, a, b)[k] = s[a + k - 1]
<1>1. a \in Int /\ b \in Int /\ \A k \in a .. b : s[k] \in S
  OBVIOUS
<1>2. /\ SubSeq(s, a, b) \in Seq(S)
      /\ Len(SubSeq(s, a, b)) = IF a <= b THEN b - a + 1 ELSE 0
      /\ \A k \in 1 .. b - a + 1 : SubSeq(s, a, b)[k] = s[a + k - 1]
  BY <1>1, SubSeqProperties
<1>3. b + 1 - a = b - a + 1
  OBVIOUS
<1> QED
  BY <1>2, <1>3

\* What Put writes: one frame and the entry after those that count.
Entry(at, uid) == [at |-> at, uid |-> uid]
Written(d, x, m, uid, at, p) ==
    /\ p.d \in DataFile /\ p.x \in IndexFile
    /\ d.num \in Nat /\ p.d.num = d.num + 1 /\ p.d.next = uid + 1
    /\ Len(x) \in Nat /\ Len(p.x) = d.num + 1
    /\ \A k \in 1 .. d.num : p.x[k] = x[k]
    /\ p.x[d.num + 1] = Entry(at, uid)
    /\ Len(d.frames) \in Nat /\ Len(p.d.frames) \in Nat
    /\ Len(p.d.frames) = IF at > Len(d.frames) THEN Len(d.frames) + 1 ELSE Len(d.frames)
    /\ at \in 1 .. Len(p.d.frames) /\ p.d.frames[at] = m
    /\ \A k \in 1 .. Len(d.frames) : k # at => p.d.frames[k] = d.frames[k]
    /\ at \in Nat /\ (at <= Len(d.frames) => d.frames[at] = Hole)

LEMMA PutFact ==
    ASSUME NEW d \in DataFile, NEW x \in IndexFile, NEW m \in Message, NEW uid \in Nat,
           NEW at \in Places(d), d.num <= Len(x),
           NEW p, p = Put(d, x, m, uid, at)
    PROVE  Written(d, x, m, uid, at, p)
<1> DEFINE f == IF at > Len(d.frames) THEN Append(d.frames, m) ELSE [d.frames EXCEPT ![at] = m]
           e == SubSeq(x, 1, d.num)
<1>1. /\ d.frames \in Seq(Message \cup {Hole}) /\ d.num \in Nat /\ d.next \in Nat
      /\ Len(d.frames) \in Nat /\ m \in Message \cup {Hole}
  BY DEF DataFile
<1>2. at = Len(d.frames) + 1 \/ (at \in 1 .. Len(d.frames) /\ d.frames[at] = Hole)
  BY DEF Places
<1>3. /\ f \in Seq(Message \cup {Hole}) /\ Len(f) \in Nat
      /\ Len(f) = IF at > Len(d.frames) THEN Len(d.frames) + 1 ELSE Len(d.frames)
      /\ at \in 1 .. Len(f) /\ f[at] = m
      /\ \A k \in 1 .. Len(d.frames) : k # at => f[k] = d.frames[k]
  <2>1. CASE at > Len(d.frames)
    <3>1. at = Len(d.frames) + 1 /\ f = Append(d.frames, m)
      BY <1>1, <1>2, <2>1
    <3>2. /\ f \in Seq(Message \cup {Hole}) /\ Len(f) = Len(d.frames) + 1
          /\ f[Len(d.frames) + 1] = m
          /\ \A k \in 1 .. Len(d.frames) : f[k] = d.frames[k]
      <4> HIDE DEF f
      <4> QED
        BY <1>1, <3>1, AppendProperties
    <3> HIDE DEF f
    <3> QED
      BY <1>1, <3>1, <3>2, <2>1
  <2>2. CASE ~(at > Len(d.frames))
    <3>1. at \in 1 .. Len(d.frames) /\ f = [d.frames EXCEPT ![at] = m]
      BY <1>1, <1>2, <2>2
    <3>2. /\ [d.frames EXCEPT ![at] = m] \in Seq(Message \cup {Hole})
          /\ Len([d.frames EXCEPT ![at] = m]) = Len(d.frames)
          /\ [d.frames EXCEPT ![at] = m][at] = m
          /\ \A k \in 1 .. Len(d.frames) : k # at => [d.frames EXCEPT ![at] = m][k] = d.frames[k]
      <4> HIDE DEF f
      <4> QED
        BY <1>1, <3>1, ExceptSeq
    <3> HIDE DEF f
    <3> QED
      BY <1>1, <3>1, <3>2, <2>2
  <2> QED
    BY <2>1, <2>2
<1>4. e \in IndexFile /\ Len(e) = d.num /\ \A k \in 1 .. d.num : e[k] = x[k]
  <2> DEFINE R == [at : Nat \ {0}, uid : Nat]
             n == d.num
  <2>1. x \in Seq(R) /\ n \in Nat /\ n <= Len(x) /\ 1 <= n + 1
    BY <1>1 DEF IndexFile
  <2> HIDE DEF R, n
  <2>2. /\ SubSeq(x, 1, n) \in Seq(R) /\ Len(SubSeq(x, 1, n)) = n + 1 - 1
        /\ \A k \in 1 .. n + 1 - 1 : SubSeq(x, 1, n)[k] = x[1 + k - 1]
    BY <2>1, PartFact
  <2>3. /\ SubSeq(x, 1, n) \in Seq(R) /\ Len(SubSeq(x, 1, n)) = n
        /\ \A k \in 1 .. n : SubSeq(x, 1, n)[k] = x[k]
    BY <2>1, <2>2
  <2> QED
    BY <2>3 DEF IndexFile, R, n
<1>5. Entry(at, uid) \in [at : Nat \ {0}, uid : Nat]
  BY <1>1, <1>2 DEF Entry
<1>6. /\ Append(e, Entry(at, uid)) \in IndexFile /\ Len(Append(e, Entry(at, uid))) = d.num + 1
      /\ \A k \in 1 .. d.num : Append(e, Entry(at, uid))[k] = x[k]
      /\ Append(e, Entry(at, uid))[d.num + 1] = Entry(at, uid)
  BY <1>1, <1>4, <1>5 DEF IndexFile
<1>7. p.d = [frames |-> f, num |-> d.num + 1, next |-> uid + 1] /\ p.x = Append(e, Entry(at, uid))
  BY DEF Put, Entry
<1>8. p.d \in DataFile /\ p.d.frames = f /\ p.d.num = d.num + 1 /\ p.d.next = uid + 1
  BY <1>1, <1>3, <1>7 DEF DataFile
<1>9. at \in Nat /\ (at <= Len(d.frames) => d.frames[at] = Hole)
  BY <1>1, <1>2
<1>10. Len(x) \in Nat
  BY DEF IndexFile
<1> HIDE DEF f, e
<1> QED
  BY <1>1, <1>3, <1>6, <1>7, <1>8, <1>9, <1>10 DEF Written

\* One entry taken out of the first n.
LEMMA CutFact ==
    ASSUME NEW S, NEW s \in Seq(S), NEW n \in Nat, n <= Len(s), NEW k \in 1 .. n,
           NEW t, t = SubSeq(s, 1, k - 1) \o SubSeq(s, k + 1, n)
    PROVE  /\ t \in Seq(S) /\ Len(t) = n - 1
           /\ \A j \in 1 .. n - 1 : t[j] = s[IF j < k THEN j ELSE j + 1]
<1> DEFINE a == SubSeq(s, 1, k - 1)
           b == SubSeq(s, k + 1, n)
<1>1. a \in Seq(S) /\ Len(a) = k - 1 /\ \A j \in 1 .. k - 1 : a[j] = s[j]
  <2>1. 1 \in Nat \ {0} /\ k - 1 \in Nat /\ k - 1 <= Len(s) /\ 1 <= (k - 1) + 1
    OBVIOUS
  <2>2. /\ SubSeq(s, 1, k - 1) \in Seq(S) /\ Len(SubSeq(s, 1, k - 1)) = (k - 1) + 1 - 1
        /\ \A j \in 1 .. (k - 1) + 1 - 1 : SubSeq(s, 1, k - 1)[j] = s[1 + j - 1]
    BY <2>1, PartFact
  <2> HIDE DEF b
  <2> QED
    BY <2>1, <2>2
<1>2. b \in Seq(S) /\ Len(b) = n - k /\ \A j \in 1 .. n - k : b[j] = s[k + j]
  <2>1. k + 1 \in Nat \ {0} /\ k + 1 <= n + 1
    OBVIOUS
  <2>2. /\ SubSeq(s, k + 1, n) \in Seq(S) /\ Len(SubSeq(s, k + 1, n)) = n + 1 - (k + 1)
        /\ \A j \in 1 .. n + 1 - (k + 1) : SubSeq(s, k + 1, n)[j] = s[(k + 1) + j - 1]
    BY <2>1, PartFact
  <2> HIDE DEF a
  <2> QED
    BY <2>1, <2>2
<1>3. t = a \o b
  OBVIOUS
<1> HIDE DEF a, b
<1>4. /\ t \in Seq(S) /\ Len(t) = Len(a) + Len(b)
      /\ \A j \in 1 .. Len(a) + Len(b) : t[j] = IF j <= Len(a) THEN a[j] ELSE b[j - Len(a)]
  BY <1>1, <1>2, <1>3, ConcatProperties
<1>5. ASSUME NEW j \in 1 .. n - 1 PROVE t[j] = s[IF j < k THEN j ELSE j + 1]
  <2>1. CASE j < k
    BY <1>1, <1>2, <1>4, <2>1
  <2>2. CASE j >= k
    <3>1. j - (k - 1) \in 1 .. n - k /\ k + (j - (k - 1)) = j + 1 /\ ~(j <= k - 1)
      BY <2>2
    <3>2. t[j] = b[j - (k - 1)]
      BY <1>1, <1>2, <1>4, <3>1
    <3>3. b[j - (k - 1)] = s[j + 1]
      BY <1>2, <3>1
    <3> QED
      BY <2>2, <3>2, <3>3
  <2> QED
    BY <2>1, <2>2
<1>6. (k - 1) + (n - k) = n - 1
  OBVIOUS
<1>7. Len(t) = n - 1
  BY <1>1, <1>2, <1>4, <1>6
<1> QED
  BY <1>4, <1>5, <1>7

\* A base that opensqd has opened.
LEMMA OpenedFact ==
    ASSUME TypeOK
    PROVE  /\ Opened.d \in DataFile /\ Opened.x \in IndexFile
           /\ Opened.d = IF data = None THEN NewData ELSE data
           /\ Opened.x = IF index = None THEN <<>> ELSE index
<1>1. NewData \in DataFile
  BY DEF NewData, DataFile
<1>2. <<>> \in IndexFile
  BY DEF IndexFile
<1> QED
  BY <1>1, <1>2 DEF Opened, TypeOK

\* A message the index leads to.
LEMMA MsgFact ==
    ASSUME TypeOK, Sound, NEW k \in 1 .. data.num
    PROVE  /\ data \in DataFile /\ index \in IndexFile
           /\ data.num \in Nat /\ Len(index) \in Nat /\ Len(data.frames) \in Nat
           /\ k \in 1 .. Len(index) /\ index[k].at \in 1 .. Len(data.frames) /\ index[k].uid \in Nat
           /\ Msg(k) \in Message /\ Msg(k).id \in Ids /\ Msg(k).day \in Nat
<1>1. data \in DataFile /\ index \in IndexFile
  BY DEF TypeOK, Sound
<1>2. /\ data.frames \in Seq(Message \cup {Hole}) /\ data.num \in Nat
      /\ index \in Seq([at : Nat \ {0}, uid : Nat])
      /\ Len(index) \in Nat /\ Len(data.frames) \in Nat
  BY <1>1 DEF DataFile, IndexFile
<1>3. k \in 1 .. Len(index) /\ index[k] \in [at : Nat \ {0}, uid : Nat]
  <2>1. data.num <= Len(index)
    BY DEF Sound
  <2>2. k \in 1 .. Len(index)
    BY <1>2, <2>1
  <2> QED
    BY <1>2, <2>2, ElementOfSeq
<1>4. index[k].at \in 1 .. Len(data.frames) /\ data.frames[index[k].at] # Hole
  BY <1>2, <1>3 DEF Sound
<1>5. Msg(k) \in Message
  BY <1>2, <1>4 DEF Msg
<1>6. MaxDay \in Nat
  BY ParamFact
<1> QED
  BY <1>1, <1>2, <1>3, <1>4, <1>5, <1>6 DEF Message

\* The messages so far are counted.
LEMMA CountFact ==
    ASSUME TypeOK
    PROVE  IsFiniteSet(posted) /\ Cardinality(posted) \in Nat
<1>1. IsFiniteSet(Ids)
  BY ParamFact, FS_Interval DEF Ids
<1>2. posted \subseteq Ids
  BY DEF TypeOK
<1> QED
  BY <1>1, <1>2, FS_Subset, FS_CardinalityType

\* What a reader deletes, and the places of the others.
Moved(j, k) == IF j < k THEN j ELSE j + 1
Without(k) ==
    /\ data' \in DataFile /\ index' \in IndexFile /\ data.num \in Nat
    /\ data'.num = data.num - 1 /\ data'.next = data.next /\ Len(index') = data.num - 1
    /\ Len(data'.frames) = Len(data.frames)
    /\ gone' = gone \cup {Msg(k).id}
    /\ \A j \in 1 .. data.num - 1 :
          /\ Moved(j, k) \in 1 .. data.num /\ Moved(j, k) # k
          /\ index'[j] = index[Moved(j, k)]
          /\ Msg(j)' = Msg(Moved(j, k))

LEMMA DeleteFact ==
    ASSUME TypeOK, Delete
    PROVE  \E k \in 1 .. data.num : Without(k)
<1>1. PICK k \in 1 .. data.num :
         /\ data' = [data EXCEPT !.frames[index[k].at] = Hole, !.num = @ - 1]
         /\ index' = SubSeq(index, 1, k - 1) \o SubSeq(index, k + 1, data.num)
         /\ gone' = gone \cup {Msg(k).id}
  BY DEF Delete
<1>2. /\ data \in DataFile /\ index \in IndexFile /\ data.num \in Nat
      /\ index[k].at \in 1 .. Len(data.frames) /\ data.num <= Len(index)
  BY MsgFact DEF Delete, Sound
<1>3. /\ index' \in IndexFile /\ Len(index') = data.num - 1
      /\ \A j \in 1 .. data.num - 1 : index'[j] = index[Moved(j, k)]
  <2> DEFINE R == [at : Nat \ {0}, uid : Nat]
             n == data.num
             t == index'
  <2>1. index \in Seq(R) /\ n \in Nat /\ n <= Len(index) /\ k \in 1 .. n
    BY <1>2 DEF IndexFile
  <2>2. t = SubSeq(index, 1, k - 1) \o SubSeq(index, k + 1, n)
    BY <1>1
  <2> HIDE DEF R, n, t
  <2>3. /\ t \in Seq(R) /\ Len(t) = n - 1
        /\ \A j \in 1 .. n - 1 : t[j] = index[IF j < k THEN j ELSE j + 1]
    BY <2>1, <2>2, CutFact
  <2> QED
    BY <2>3 DEF R, n, t, IndexFile, Moved
<1>4. /\ data'.frames = [data.frames EXCEPT ![index[k].at] = Hole]
      /\ data'.num = data.num - 1 /\ data'.next = data.next
  BY <1>1, <1>2 DEF DataFile
<1>5. ASSUME NEW j \in 1 .. data.num - 1
      PROVE  /\ Moved(j, k) \in 1 .. data.num /\ Moved(j, k) # k /\ Msg(j)' = Msg(Moved(j, k))
  <2>1. Moved(j, k) \in 1 .. data.num /\ Moved(j, k) # k
    BY <1>2 DEF Moved
  <2>2. index[Moved(j, k)].at \in 1 .. Len(data.frames)
    BY <2>1, MsgFact DEF Delete
  <2>3. index[Moved(j, k)].at # index[k].at
    <3>1. Moved(j, k) < k \/ k < Moved(j, k)
      BY <1>2, <2>1
    <3>2. \A a \in 1 .. data.num, b \in 1 .. data.num : b < a => index[b].at # index[a].at
      <4>1. Sound
        BY DEF Delete
      <4> QED
        BY <1>2, <4>1 DEF Sound
    <3> QED
      BY <2>1, <3>1, <3>2
  <2>4. data'.frames[index[Moved(j, k)].at] = data.frames[index[Moved(j, k)].at]
    BY <1>2, <1>4, <2>2, <2>3 DEF DataFile
  <2>5. Msg(j)' = data'.frames[index[Moved(j, k)].at]
    BY <1>3 DEF Msg
  <2> QED
    BY <2>1, <2>4, <2>5 DEF Msg
<1>6. Len(data'.frames) = Len(data.frames)
  BY <1>2, <1>4 DEF DataFile
<1>7. data' \in DataFile
  <2>1. [data.frames EXCEPT ![index[k].at] = Hole] \in Seq(Message \cup {Hole})
    BY <1>2, ExceptSeq DEF DataFile
  <2>2. data' = [frames |-> [data.frames EXCEPT ![index[k].at] = Hole], num |-> data.num - 1,
                 next |-> data.next]
    BY <1>1, <1>2 DEF DataFile
  <2>3. data.num - 1 \in Nat /\ data.next \in Nat
    BY <1>2 DEF DataFile
  <2> QED
    BY <2>1, <2>2, <2>3 DEF DataFile
<1> QED
  BY <1>1, <1>2, <1>3, <1>4, <1>5, <1>6, <1>7 DEF Without

-----------------------------------------------------------------------------
(* Types. *)

\* Every step keeps the types.
LEMMA TypeStep ==
    ASSUME TypeOK, AtWork, [Next]_vars
    PROVE  TypeOK'
<1>1. Purge => TypeOK'
  <2> SUFFICES ASSUME Purge PROVE TypeOK'
    OBVIOUS
  <2>1. data \in DataFile
    BY DEF Purge, Sound, TypeOK
  <2>2. keep' \subseteq Nat
    BY <2>1 DEF Purge, Bitmap, DataFile
  <2> QED
    BY <2>2 DEF Purge, TypeOK
<1>2. Create => TypeOK'
  <2> SUFFICES ASSUME Create PROVE TypeOK'
    OBVIOUS
  <2>1. data \in DataFile
    BY DEF Create, AtWork, Sound, TypeOK
  <2>2. qd' \in DataFile /\ qi' \in IndexFile
    BY <2>1 DEF Create, DataFile, IndexFile
  <2>3. sql' \in {"none", "reads", "index", "mixed"} /\ pc' = "copy" /\ i' = 1
    BY DEF Create, TypeOK
  <2> QED
    BY <2>2, <2>3 DEF Create, TypeOK
<1>3. Copy => TypeOK'
  <2> SUFFICES ASSUME Copy PROVE TypeOK'
    OBVIOUS
  <2>1. Sound /\ i \in 1 .. data.num /\ qd \in DataFile /\ qi \in IndexFile
        /\ Len(qi) = qd.num /\ Len(qd.frames) = qd.num
    <3>1. Sound /\ i \in 1 .. data.num + 1 /\ i <= data.num
      BY DEF Copy, AtWork
    <3>2. data.num \in Nat
      BY <3>1 DEF TypeOK, Sound, DataFile
    <3> QED
      BY <3>1, <3>2 DEF Copy, AtWork, TypeOK, Dense
  <2>2. Msg(i) \in Message /\ Msg(i).id \in Ids /\ index[i].uid \in Nat
    BY <2>1, MsgFact
  <2>3. Rehwm(index[i].uid) \in Nat
    BY <2>2, RehwmFact
  <2>4. qd.num + 1 \in Places(qd)
    BY <2>1 DEF Places
  <2>5. Copied(Msg(i)).d \in DataFile /\ Copied(Msg(i)).x \in IndexFile
    <3>1. qd.num <= Len(qi)
      BY <2>1 DEF DataFile
    <3> QED
      BY <2>1, <2>2, <2>3, <2>4, <3>1, PutFact DEF Copied, Written
  <2>6. qd' \in DataFile /\ qi' \in IndexFile /\ gone' \subseteq Ids
    BY <2>1, <2>2, <2>5 DEF Copy, TypeOK
  <2>7. i' \in Nat
    BY DEF Copy, TypeOK
  <2> QED
    BY <2>6, <2>7 DEF Copy, TypeOK
<1>4. Close => TypeOK'
  BY DEF Close, TypeOK
<1>5. Wipe => TypeOK'
  BY DEF Wipe, TypeOK
<1>6. WipeRest => TypeOK'
  BY DEF WipeRest, TypeOK, Finished
<1>7. UnlinkData => TypeOK'
  BY DEF UnlinkData, TypeOK
<1>8. MoveData => TypeOK'
  BY DEF MoveData, TypeOK
<1>9. UnlinkIndex => TypeOK'
  BY DEF UnlinkIndex, TypeOK
<1>10. MoveIndex => TypeOK'
  BY DEF MoveIndex, TypeOK, Finished
<1>11. TossBad => TypeOK'
  BY DEF TossBad, TypeOK
<1>12. UnlinkBad => TypeOK'
  BY DEF UnlinkBad, TypeOK
<1>13. MoveBad => TypeOK'
  BY DEF MoveBad, TypeOK
<1>14. NewBad => TypeOK'
  BY DEF NewBad, TypeOK
<1>15. ASSUME pc = "badtoss", i <= Len(badqd)
       PROVE  /\ badqd \in Seq(Message) /\ bad \in Seq(Message) /\ i \in 1 .. Len(badqd)
              /\ badqd[i] \in Message /\ badqd[i].id \in Ids
  <2>1. badqd \in Seq(Message) /\ bad \in Seq(Message) /\ i \in 1 .. Len(badqd)
    BY <1>15 DEF AtWork, TypeOK
  <2>2. badqd[i] \in Message
    BY <2>1, ElementOfSeq
  <2> QED
    BY <2>1, <2>2 DEF Message
<1>16. StillBad => TypeOK'
  <2> SUFFICES ASSUME StillBad PROVE TypeOK'
    OBVIOUS
  <2>1. bad' \in Seq(Message)
    BY <1>15 DEF StillBad
  <2> QED
    BY <2>1 DEF StillBad, NextBad, TypeOK
<1>17. Aside => TypeOK'
  <2> SUFFICES ASSUME Aside PROVE TypeOK'
    OBVIOUS
  <2>1. elsewhere' \subseteq Ids
    BY <1>15 DEF Aside, TypeOK
  <2> QED
    BY <2>1 DEF Aside, NextBad, TypeOK
<1>18. ASSUME NEW m \in Message, NEW at \in Places(Opened.d), Len(Opened.x) >= Opened.d.num,
              data' = Put(Opened.d, Opened.x, m, Opened.d.next, at).d,
              index' = Put(Opened.d, Opened.x, m, Opened.d.next, at).x,
              known' = Number(m, Opened.d.next)
       PROVE  data' \in DataFile /\ index' \in IndexFile /\ known' \in [Ids -> Nat]
  <2>1. Opened.d \in DataFile /\ Opened.x \in IndexFile
    BY OpenedFact
  <2>2. Opened.d.num \in Nat /\ Opened.d.next \in Nat /\ Len(Opened.x) \in Nat
    BY <2>1 DEF DataFile, IndexFile
  <2>3. data' \in DataFile /\ index' \in IndexFile
    BY <1>18, <2>1, <2>2, PutFact DEF Written
  <2>4. known' \in [Ids -> Nat]
    BY <1>18, <2>2 DEF Number, TypeOK
  <2> QED
    BY <2>3, <2>4
<1>19. Fits => TypeOK'
  <2> SUFFICES ASSUME Fits PROVE TypeOK'
    OBVIOUS
  <2>1. badqd[i] \in Message /\ badqd[i].id \in Ids
    BY <1>15 DEF Fits
  <2>2. data' \in DataFile /\ index' \in IndexFile /\ known' \in [Ids -> Nat]
    BY <1>18, <2>1 DEF Fits
  <2>3. risk' \subseteq Ids
    BY <2>1 DEF Fits, TypeOK
  <2> QED
    BY <2>2, <2>3 DEF Fits, NextBad, TypeOK
<1>20. BadDone => TypeOK'
  BY DEF BadDone, TypeOK
<1>21. UnToss => TypeOK'
  BY DEF UnToss, TypeOK
<1>22. Text => TypeOK'
  <2> SUFFICES ASSUME Text PROVE TypeOK'
    OBVIOUS
  <2>1. Sound /\ i \in 1 .. data.num
    <3>1. Sound /\ i \in 1 .. data.num + 1 /\ i <= data.num
      BY DEF Text, AtWork
    <3>2. data.num \in Nat
      BY <3>1 DEF TypeOK, Sound, DataFile
    <3> QED
      BY <3>1, <3>2
  <2>2. elsewhere' \subseteq Ids
    BY <2>1, MsgFact DEF Text, TypeOK
  <2> QED
    BY <2>2 DEF Text, TypeOK
<1>23. Untossed => TypeOK'
  <2> SUFFICES ASSUME Untossed PROVE TypeOK'
    OBVIOUS
  <2>1. data \in DataFile
    BY DEF Untossed, AtWork, Sound, TypeOK
  <2>2. data' \in DataFile /\ index' \in IndexFile
    <3>1. CASE UNCHANGED area
      BY <2>1, <3>1 DEF Untossed, AtWork, Sound, TypeOK
    <3>2. CASE data' = [frames |-> <<>>, num |-> 0, next |-> data.next] /\ index' = <<>>
      BY <2>1, <3>2 DEF DataFile, IndexFile
    <3> QED
      BY <3>1, <3>2 DEF Untossed
  <2> QED
    BY <2>2 DEF Untossed, TypeOK
<1>24. ASSUME Cardinality(posted) < MaxId, NEW m, m = [id |-> Cardinality(posted) + 1, day |-> today]
       PROVE  m \in Message /\ m.id \in Ids
  BY <1>24, CountFact, ParamFact DEF TypeOK, Message, Ids
<1>25. ASSUME NEW d \in DataFile \cup {None} PROVE Stored(d) \subseteq Ids
  <2>1. CASE d = None
    BY <2>1 DEF Stored
  <2>2. ASSUME d # None, NEW k \in 1 .. Len(d.frames), d.frames[k].id # 0
        PROVE  d.frames[k].id \in Ids
    <3>1. d.frames[k] \in Message \cup {Hole}
      BY <2>2 DEF DataFile
    <3> QED
      BY <2>2, <3>1, HoleFact DEF Message
  <2> QED
    BY <2>1, <2>2 DEF Stored
<1>26. Post => TypeOK'
  <2> SUFFICES ASSUME Post PROVE TypeOK'
    OBVIOUS
  <2> DEFINE m == [id |-> Cardinality(posted) + 1, day |-> today]
  <2>1. m \in Message /\ m.id \in Ids
    BY <1>24 DEF Post
  <2>2. \E at \in Places(Opened.d) :
           /\ data' = Put(Opened.d, Opened.x, m, Opened.d.next, at).d
           /\ index' = Put(Opened.d, Opened.x, m, Opened.d.next, at).x
    BY DEF Post
  <2>3. known' = Number(m, Opened.d.next) /\ Len(Opened.x) >= Opened.d.num
        /\ posted' = posted \cup {m.id}
    BY DEF Post
  <2>4. risk' \subseteq risk \cup {m.id} \cup Stored(data)
    BY DEF Post
  <2> HIDE DEF m
  <2>5. data' \in DataFile /\ index' \in IndexFile /\ known' \in [Ids -> Nat]
    BY <1>18, <2>1, <2>2, <2>3
  <2>6. risk' \subseteq Ids /\ posted' \subseteq Ids
    BY <1>25, <2>1, <2>3, <2>4 DEF TypeOK
  <2> QED
    BY <2>5, <2>6 DEF Post, TypeOK
<1>27. PostBad => TypeOK'
  <2> SUFFICES ASSUME PostBad PROVE TypeOK'
    OBVIOUS
  <2> DEFINE m == [id |-> Cardinality(posted) + 1, day |-> today]
  <2>1. m \in Message /\ m.id \in Ids
    BY <1>24 DEF PostBad
  <2>2. bad' = (IF bad = None THEN <<m>> ELSE Append(bad, m)) /\ posted' = posted \cup {m.id}
    BY DEF PostBad
  <2> HIDE DEF m
  <2>3. bad' \in Seq(Message) /\ posted' \subseteq Ids
    BY <2>1, <2>2 DEF TypeOK
  <2> QED
    BY <2>3 DEF PostBad, TypeOK
<1>28. Delete => TypeOK'
  <2> SUFFICES ASSUME Delete PROVE TypeOK'
    OBVIOUS
  <2>1. PICK k \in 1 .. data.num : Without(k)
    BY DeleteFact
  <2>2. Msg(k).id \in Ids
    BY MsgFact DEF Delete
  <2>3. data' \in DataFile /\ index' \in IndexFile /\ gone' \subseteq Ids
    BY <2>1, <2>2 DEF Without, TypeOK
  <2> QED
    BY <2>3 DEF Delete, TypeOK
<1>29. Midnight => TypeOK'
  BY ParamFact DEF Midnight, TypeOK
<1>30. Kill => TypeOK'
  <2> SUFFICES ASSUME Kill PROVE TypeOK'
    OBVIOUS
  <2>1. Pending \subseteq Ids
    <3> SUFFICES ASSUME NEW k, k \in PendingAt PROVE badqd[k].id \in Ids
      BY DEF Pending, PendingAt
    <3>1. badqd \in Seq(Message) /\ k \in 1 .. Len(badqd)
      BY DEF PendingAt, AtWork, TypeOK
    <3>2. badqd[k] \in Message
      BY <3>1, ElementOfSeq
    <3> QED
      BY <3>2 DEF Message
  <2>2. risk' \subseteq Ids
    BY <1>25, <2>1 DEF Kill, TypeOK
  <2>3. kills' \in 0 .. MaxKills
    BY ParamFact DEF Kill, TypeOK
  <2> QED
    BY <2>2, <2>3 DEF Kill, TypeOK
<1>31. UNCHANGED vars => TypeOK'
  BY DEF vars, TypeOK
<1> QED
  BY <1>1, <1>2, <1>3, <1>4, <1>5, <1>6, <1>7, <1>8, <1>9, <1>10, <1>11, <1>12, <1>13, <1>14,
     <1>16, <1>17, <1>19, <1>20, <1>21, <1>22, <1>23, <1>26, <1>27, <1>28, <1>29, <1>30, <1>31
     DEF Next

-----------------------------------------------------------------------------
(* What is written to a base, and what is left when something is cut out.  *)

\* Sound, for any two files, and what they hold.
SoundAt(d, x) ==
    /\ d.num <= Len(x)
    /\ \A k \in 1 .. d.num :
          /\ x[k].at <= Len(d.frames) /\ d.frames[x[k].at] # Hole
          /\ \A e \in 1 .. k - 1 : x[e].at # x[k].at
Reads(d, x) == {d.frames[x[k].at].id : k \in 1 .. d.num}

LEMMA ReadFact ==
    /\ Sound <=> data # None /\ index # None /\ SoundAt(data, index)
    /\ Readable = IF Sound THEN Reads(data, index) ELSE {}
    /\ \A k : Msg(k) = data.frames[index[k].at]
BY DEF Sound, SoundAt, Readable, Reads, Msg

LEMMA SameFact ==
    ASSUME UNCHANGED area
    PROVE  /\ Sound' <=> Sound
           /\ \A k : Msg(k)' = Msg(k)
           /\ Readable' = Readable
           /\ Opened' = Opened
BY DEF Sound, Msg, Readable, Opened

\* A sound base stays so, keeps what it has and has the new message too.
LEMMA PutReads ==
    ASSUME NEW d \in DataFile, NEW x \in IndexFile, NEW m \in Message, NEW uid \in Nat,
           NEW at \in Places(d), SoundAt(d, x),
           NEW p, p = Put(d, x, m, uid, at)
    PROVE  SoundAt(p.d, p.x) /\ Reads(d, x) \subseteq Reads(p.d, p.x) /\ m.id \in Reads(p.d, p.x)
<1>0. d.num <= Len(x)
  BY DEF SoundAt
<1>1. Written(d, x, m, uid, at, p)
  BY <1>0, PutFact
<1>8. /\ Len(d.frames) \in Nat /\ Len(p.d.frames) \in Nat /\ d.num \in Nat /\ Len(x) \in Nat
      /\ p.d.num = d.num + 1 /\ Len(p.x) = d.num + 1 /\ Len(p.d.frames) >= Len(d.frames)
      /\ at \in 1 .. Len(p.d.frames)
  BY <1>1 DEF Written
<1>2. ASSUME NEW k \in 1 .. d.num
      PROVE  /\ x[k].at \in 1 .. Len(d.frames) /\ x[k].at # at /\ d.frames[x[k].at] # Hole
             /\ p.d.frames[x[k].at] = d.frames[x[k].at] /\ p.x[k] = x[k]
  <2>1. k \in 1 .. Len(x)
    BY <1>0, <1>8
  <2>2. x[k] \in [at : Nat \ {0}, uid : Nat]
    BY <2>1, ElementOfSeq DEF IndexFile
  <2>3. x[k].at \in 1 .. Len(d.frames) /\ d.frames[x[k].at] # Hole
    BY <1>8, <2>2 DEF SoundAt
  <2>4. x[k].at # at
    BY <1>1, <2>3 DEF Written
  <2> QED
    BY <1>1, <2>3, <2>4 DEF Written
<1>3. m # Hole /\ Entry(at, uid).at = at
  BY HoleFact DEF Entry
<1>4. ASSUME NEW k \in 1 .. p.d.num
      PROVE  /\ p.x[k].at <= Len(p.d.frames) /\ p.d.frames[p.x[k].at] # Hole
             /\ \A e \in 1 .. k - 1 : p.x[e].at # p.x[k].at
  <2>1. CASE k = d.num + 1
    <3>1. p.x[k].at = at /\ p.d.frames[at] = m
      BY <1>1, <1>3, <2>1 DEF Written
    <3>2. \A e \in 1 .. k - 1 : p.x[e].at # at
      <4> SUFFICES ASSUME NEW e \in 1 .. k - 1 PROVE p.x[e].at # at
        OBVIOUS
      <4>1. e \in 1 .. d.num
        BY <1>8, <2>1
      <4> QED
        BY <1>2, <4>1
    <3> QED
      BY <1>3, <1>8, <3>1, <3>2
  <2>2. CASE k \in 1 .. d.num
    <3>1. \A e \in 1 .. k - 1 : e \in 1 .. d.num /\ x[e].at # x[k].at
      BY <1>8, <2>2 DEF SoundAt
    <3>2. p.x[k] = x[k] /\ \A e \in 1 .. k - 1 : p.x[e] = x[e]
      BY <1>2, <2>2, <3>1
    <3>3. x[k].at <= Len(p.d.frames) /\ p.d.frames[x[k].at] # Hole
      <4>1. /\ x[k].at \in 1 .. Len(d.frames) /\ d.frames[x[k].at] # Hole
            /\ p.d.frames[x[k].at] = d.frames[x[k].at]
        BY <1>2, <2>2
      <4>2. x[k].at <= Len(d.frames)
        BY <1>8, <4>1
      <4> QED
        BY <1>8, <4>1, <4>2
    <3> QED
      BY <3>1, <3>2, <3>3
  <2> QED
    BY <1>8, <2>1, <2>2
<1>5. SoundAt(p.d, p.x)
  BY <1>8, <1>4 DEF SoundAt
<1>6. Reads(d, x) \subseteq Reads(p.d, p.x)
  <2> SUFFICES ASSUME NEW k \in 1 .. d.num PROVE d.frames[x[k].at].id \in Reads(p.d, p.x)
    BY DEF Reads
  <2>1. k \in 1 .. p.d.num /\ p.d.frames[p.x[k].at].id = d.frames[x[k].at].id
    <3>1. p.d.frames[x[k].at] = d.frames[x[k].at] /\ p.x[k] = x[k]
      BY <1>2
    <3>2. k \in 1 .. p.d.num
      BY <1>8
    <3> QED
      BY <3>1, <3>2
  <2> QED
    BY <2>1 DEF Reads
<1>7. m.id \in Reads(p.d, p.x)
  <2>1. p.d.frames[p.x[d.num + 1].at].id = m.id
    BY <1>1, <1>3 DEF Written
  <2>2. d.num + 1 \in 1 .. p.d.num
    BY <1>8
  <2> QED
    BY <2>1, <2>2 DEF Reads
<1> QED
  BY <1>5, <1>6, <1>7

\* What lies in the frames afterwards.
LEMMA PutStored ==
    ASSUME NEW d \in DataFile, NEW x \in IndexFile, NEW m \in Message, NEW uid \in Nat,
           NEW at \in Places(d), d.num <= Len(x),
           NEW p, p = Put(d, x, m, uid, at)
    PROVE  /\ p.d # None /\ p.x # None
           /\ Stored(p.d) \subseteq Stored(d) \cup {m.id} /\ m.id \in Stored(p.d)
           /\ at = Len(d.frames) + 1 => Stored(d) \subseteq Stored(p.d)
<1>0. Written(d, x, m, uid, at, p)
  BY PutFact
<1>1. /\ p.d \in DataFile /\ p.x \in IndexFile
      /\ Len(d.frames) \in Nat
      /\ Len(p.d.frames) = IF at > Len(d.frames) THEN Len(d.frames) + 1 ELSE Len(d.frames)
      /\ at \in 1 .. Len(p.d.frames) /\ p.d.frames[at] = m
      /\ \A k \in 1 .. Len(d.frames) : k # at => p.d.frames[k] = d.frames[k]
  BY <1>0 DEF Written
<1>2. d # None /\ p.d # None /\ p.x # None
  BY <1>1, ParamFact
<1>3. m.id # 0
  BY DEF Message, Ids
<1>4. at = Len(d.frames) + 1 \/ at \in 1 .. Len(d.frames)
  BY DEF Places
<1>5. ASSUME NEW k \in 1 .. Len(p.d.frames), k # at
      PROVE  k \in 1 .. Len(d.frames) /\ p.d.frames[k] = d.frames[k]
  BY <1>1, <1>4, <1>5
<1>6. Stored(p.d) = {p.d.frames[k].id : k \in 1 .. Len(p.d.frames)} \ {0}
  BY <1>2 DEF Stored
<1>7. Stored(d) = {d.frames[k].id : k \in 1 .. Len(d.frames)} \ {0}
  BY <1>2 DEF Stored
<1>8. Stored(p.d) \subseteq Stored(d) \cup {m.id}
  BY <1>1, <1>5, <1>6, <1>7
<1>9. m.id \in Stored(p.d)
  BY <1>1, <1>3, <1>6
<1>10. ASSUME at = Len(d.frames) + 1 PROVE Stored(d) \subseteq Stored(p.d)
  <2>1. \A k \in 1 .. Len(d.frames) : k \in 1 .. Len(p.d.frames) /\ p.d.frames[k] = d.frames[k]
    BY <1>1, <1>10
  <2> QED
    BY <1>6, <1>7, <2>1
<1> QED
  BY <1>2, <1>8, <1>9, <1>10

LEMMA DeleteReads ==
    ASSUME TypeOK, Delete, NEW k \in 1 .. data.num, Without(k)
    PROVE  /\ Sound' /\ Readable \subseteq Readable' \cup {Msg(k).id}
<1>1. Sound /\ data.num \in Nat
  BY DEF Delete, Without
<1>2. data' # None /\ index' # None
  BY ParamFact DEF Without
<1>3. ASSUME NEW j \in 1 .. data'.num
      PROVE  /\ index'[j].at <= Len(data'.frames) /\ data'.frames[index'[j].at] # Hole
             /\ \A e \in 1 .. j - 1 : index'[e].at # index'[j].at
  <2>1. /\ j \in 1 .. data.num - 1 /\ Moved(j, k) \in 1 .. data.num
        /\ index'[j] = index[Moved(j, k)] /\ Msg(j)' = Msg(Moved(j, k))
    BY <1>1 DEF Without
  <2>2. Msg(Moved(j, k)) \in Message /\ index[Moved(j, k)].at <= Len(data.frames)
    BY <1>1, <2>1, MsgFact
  <2>3. index'[j].at <= Len(data'.frames) /\ data'.frames[index'[j].at] # Hole
    BY <2>1, <2>2, HoleFact DEF Without, Msg
  <2>4. ASSUME NEW e \in 1 .. j - 1 PROVE index'[e].at # index'[j].at
    <3>1. /\ e \in 1 .. data.num - 1 /\ index'[e] = index[Moved(e, k)]
          /\ Moved(e, k) \in 1 .. data.num
      BY <1>1, <2>1 DEF Without
    <3>2. Moved(e, k) < Moved(j, k)
      BY <1>1, <2>1, <3>1 DEF Moved
    <3>3. \A a \in 1 .. data.num, b \in 1 .. data.num : b < a => index[b].at # index[a].at
      BY <1>1 DEF Sound
    <3> QED
      BY <2>1, <3>1, <3>2, <3>3
  <2> QED
    BY <2>3, <2>4
<1>4. Sound'
  BY <1>1, <1>2, <1>3 DEF Sound, Without
<1>5. ASSUME NEW o \in 1 .. data.num, o # k PROVE Msg(o).id \in Readable'
  <2>1. PICK j \in 1 .. data.num - 1 : o = Moved(j, k)
    <3>1. CASE o < k
      <4>1. o \in 1 .. data.num - 1 /\ o = Moved(o, k)
        BY <1>1, <3>1 DEF Moved
      <4> QED
        BY <4>1
    <3>2. CASE o > k
      <4>1. o - 1 \in 1 .. data.num - 1 /\ o = Moved(o - 1, k)
        BY <1>1, <3>2 DEF Moved
      <4> QED
        BY <4>1
    <3> QED
      BY <1>1, <1>5, <3>1, <3>2
  <2>2. j \in 1 .. data'.num /\ Msg(j)' = Msg(o)
    BY <2>1 DEF Without
  <2>3. Readable' = {Msg(a)' .id : a \in 1 .. data'.num}
    BY <1>4 DEF Readable
  <2> QED
    BY <2>2, <2>3
<1>6. Readable \subseteq Readable' \cup {Msg(k).id}
  BY <1>1, <1>5 DEF Readable
<1> QED
  BY <1>4, <1>6

-----------------------------------------------------------------------------
(* Where the process is. *)

\* A message is put into the opened base: Post and Fits.
Putting(m) ==
    /\ m \in Message /\ Opened.d.num <= Len(Opened.x)
    /\ \E at \in Places(Opened.d) :
          LET p == Put(Opened.d, Opened.x, m, Opened.d.next, at)
          IN  data' = p.d /\ index' = p.x
    /\ known' = Number(m, Opened.d.next)

LEMMA PostFact ==
    ASSUME TypeOK, Post
    PROVE  \E m \in Message : /\ Putting(m) /\ m.id = Cardinality(posted) + 1
                              /\ posted' = posted \cup {m.id}
                              /\ Renaming \/ ~(Sound \/ data = None) => m.id \in risk'
                              /\ Moving => Stored(data) \subseteq risk'
                              /\ risk \subseteq risk'
                              /\ risk' \subseteq risk \cup {m.id} \cup Stored(data)
<1> DEFINE m == [id |-> Cardinality(posted) + 1, day |-> today]
<1>1. m \in Message
  BY CountFact, ParamFact DEF Post, TypeOK, Message, Ids
<1>2. Opened.d.num <= Len(Opened.x)
  <2>1. Opened.d.num \in Nat /\ Len(Opened.x) \in Nat
    BY OpenedFact DEF DataFile, IndexFile
  <2> QED
    BY <2>1 DEF Post
<1>3. \E at \in Places(Opened.d) :
         LET p == Put(Opened.d, Opened.x, m, Opened.d.next, at)
         IN  data' = p.d /\ index' = p.x
  BY DEF Post
<1>4. /\ posted' = posted \cup {m.id} /\ known' = Number(m, Opened.d.next)
      /\ risk' = risk \cup (IF Renaming \/ ~(Sound \/ data = None) THEN {m.id} ELSE {})
                      \cup (IF pc \in {"index", "moveindex"} THEN Stored(data) ELSE {})
  BY DEF Post
<1>5. m.id = Cardinality(posted) + 1
  OBVIOUS
<1> HIDE DEF m
<1>6. Putting(m)
  BY <1>1, <1>2, <1>3, <1>4 DEF Putting
<1>7. /\ Renaming \/ ~(Sound \/ data = None) => m.id \in risk'
      /\ Moving => Stored(data) \subseteq risk'
      /\ risk \subseteq risk' /\ risk' \subseteq risk \cup {m.id} \cup Stored(data)
  BY <1>4 DEF Moving
<1> QED
  BY <1>1, <1>4, <1>5, <1>6, <1>7

\* A message on its way back from BadArea.
LEMMA BadFact ==
    ASSUME TypeOK, AtWork, pc = "badtoss", i <= Len(badqd)
    PROVE  /\ badqd \in Seq(Message) /\ bad \in Seq(Message) /\ Len(badqd) \in Nat
           /\ i \in 1 .. Len(badqd) /\ badqd[i] \in Message
<1>1. badqd \in Seq(Message) /\ bad \in Seq(Message) /\ i \in 1 .. Len(badqd)
  BY DEF AtWork, TypeOK
<1> QED
  BY <1>1, ElementOfSeq

LEMMA FitsFact ==
    ASSUME TypeOK, AtWork, Fits
    PROVE  /\ Putting(badqd[i])
           /\ risk' = IF Sound \/ data = None THEN risk ELSE risk \cup {badqd[i].id}
<1>1. badqd[i] \in Message
  BY BadFact DEF Fits
<1>2. Opened.d.num <= Len(Opened.x)
  <2>1. Opened.d.num \in Nat /\ Len(Opened.x) \in Nat
    BY OpenedFact DEF DataFile, IndexFile
  <2> QED
    BY <2>1 DEF Fits
<1> QED
  BY <1>1, <1>2 DEF Fits, Putting

\* What it does to the base.
LEMMA PuttingFact ==
    ASSUME TypeOK, NEW m, Putting(m)
    PROVE  \E at \in Places(Opened.d) :
              LET p == [d |-> data', x |-> index']
              IN  /\ Written(Opened.d, Opened.x, m, Opened.d.next, at, p)
                  /\ p = Put(Opened.d, Opened.x, m, Opened.d.next, at)
<1>1. PICK at \in Places(Opened.d) :
         /\ data' = Put(Opened.d, Opened.x, m, Opened.d.next, at).d
         /\ index' = Put(Opened.d, Opened.x, m, Opened.d.next, at).x
  BY DEF Putting
<1>2. [d |-> data', x |-> index'] = Put(Opened.d, Opened.x, m, Opened.d.next, at)
  BY <1>1 DEF Put
<1>3. Opened.d \in DataFile /\ Opened.x \in IndexFile /\ Opened.d.next \in Nat
  BY OpenedFact DEF DataFile
<1>4. Written(Opened.d, Opened.x, m, Opened.d.next, at, [d |-> data', x |-> index'])
  BY <1>2, <1>3, PutFact DEF Putting
<1> QED
  BY <1>2, <1>4

LEMMA PuttingStored ==
    ASSUME TypeOK, NEW m, Putting(m)
    PROVE  /\ data' # None /\ index' # None
           /\ Stored(data') \subseteq Stored(data) \cup {m.id} /\ m.id \in Stored(data')
<1>1. PICK at \in Places(Opened.d) :
         [d |-> data', x |-> index'] = Put(Opened.d, Opened.x, m, Opened.d.next, at)
  BY PuttingFact
<1>2. Opened.d \in DataFile /\ Opened.x \in IndexFile /\ Opened.d.next \in Nat
  BY OpenedFact DEF DataFile
<1>3. /\ data' # None /\ index' # None
      /\ Stored(data') \subseteq Stored(Opened.d) \cup {m.id} /\ m.id \in Stored(data')
  <2> DEFINE p == [d |-> data', x |-> index']
  <2>1. p = Put(Opened.d, Opened.x, m, Opened.d.next, at) /\ p.d = data' /\ p.x = index'
    BY <1>1
  <2> HIDE DEF p
  <2>2. /\ p.d # None /\ p.x # None
        /\ Stored(p.d) \subseteq Stored(Opened.d) \cup {m.id} /\ m.id \in Stored(p.d)
    BY <1>2, <2>1, PutStored DEF Putting
  <2> QED
    BY <2>1, <2>2
<1>4. Stored(Opened.d) = Stored(data)
  <2>1. CASE data = None
    <3>1. NewData \in DataFile /\ NewData.frames = <<>>
      BY DEF NewData, DataFile
    <3>2. Stored(NewData) = {}
      BY <3>1 DEF Stored
    <3> QED
      BY <2>1, <3>2, OpenedFact DEF Stored
  <2>2. CASE data # None
    BY <2>2, OpenedFact
  <2> QED
    BY <2>1, <2>2
<1> QED
  BY <1>3, <1>4

LEMMA CopyFact ==
    ASSUME TypeOK, AtWork, Copy
    PROVE  /\ Sound /\ i \in 1 .. data.num /\ data.num \in Nat
           /\ Msg(i) \in Message /\ index[i].uid \in Nat
           /\ qd \in DataFile /\ qi \in IndexFile /\ qd.num \in Nat
           /\ Len(qi) = qd.num /\ Len(qd.frames) = qd.num
           /\ Dense(qd, qi)
           /\ qd.num + 1 \in Places(qd) /\ qd.num <= Len(qi)
           /\ Rehwm(index[i].uid) \in Nat
           /\ Written(qd, qi, Msg(i), Rehwm(index[i].uid), qd.num + 1, Copied(Msg(i)))
<1>1. Sound /\ i \in 1 .. data.num + 1 /\ i <= data.num
  BY DEF Copy, AtWork
<1>2. data.num \in Nat
  BY <1>1 DEF TypeOK, Sound, DataFile
<1>3. /\ i \in 1 .. data.num /\ qd \in DataFile /\ qi \in IndexFile
      /\ Len(qi) = qd.num /\ Len(qd.frames) = qd.num /\ Dense(qd, qi)
  BY <1>1, <1>2 DEF Copy, AtWork, TypeOK, Dense
<1>4. Msg(i) \in Message /\ index[i].uid \in Nat
  BY <1>1, <1>3, MsgFact
<1>5. Rehwm(index[i].uid) \in Nat
  BY <1>4, RehwmFact
<1>6. qd.num + 1 \in Places(qd) /\ qd.num <= Len(qi) /\ qd.num \in Nat
  BY <1>3 DEF Places, DataFile
<1>7. Written(qd, qi, Msg(i), Rehwm(index[i].uid), qd.num + 1, Copied(Msg(i)))
  BY <1>3, <1>4, <1>5, <1>6, PutFact DEF Copied
<1> QED
  BY <1>1, <1>2, <1>3, <1>4, <1>5, <1>6, <1>7

\* A copy leaves the new files without gaps.
LEMMA CopyDense ==
    ASSUME TypeOK, AtWork, Copy
    PROVE  qd' # None /\ qi' # None /\ Dense(qd', qi')
<1>0. qd # None /\ qi # None /\ Dense(qd, qi)
  BY DEF Copy, AtWork
<1>1. CASE ~Wanted(Msg(i))
  BY <1>0, <1>1 DEF Copy
<1>2. CASE Wanted(Msg(i))
  <2> DEFINE p == Copied(Msg(i))
  <2>1. qd' = p.d /\ qi' = p.x
    BY <1>2 DEF Copy
  <2>2. Written(qd, qi, Msg(i), Rehwm(index[i].uid), qd.num + 1, p)
    BY CopyFact
  <2> HIDE DEF p
  <2>3. /\ qd.num \in Nat /\ Len(qi) = qd.num /\ Len(qd.frames) = qd.num
        /\ Msg(i) \in Message /\ Msg(i) # Hole
    BY CopyFact, HoleFact
  <2>4. Len(p.x) = p.d.num /\ Len(p.d.frames) = p.d.num /\ p.d.num = qd.num + 1
    BY <2>2, <2>3 DEF Written
  <2>5. ASSUME NEW k \in 1 .. p.d.num PROVE p.x[k].at = k /\ p.d.frames[k] # Hole
    <3>1. CASE k = qd.num + 1
      BY <2>2, <2>3, <3>1 DEF Written, Entry
    <3>2. CASE k # qd.num + 1
      <4>1. k \in 1 .. qd.num
        BY <2>3, <2>4, <3>2
      <4>2. p.x[k] = qi[k] /\ p.d.frames[k] = qd.frames[k]
        BY <2>2, <2>3, <3>2, <4>1 DEF Written
      <4> QED
        BY <1>0, <4>1, <4>2 DEF Dense
    <3> QED
      BY <3>1, <3>2
  <2>6. p.d # None /\ p.x # None
    BY <2>2, ParamFact DEF Written
  <2> QED
    BY <2>1, <2>4, <2>5, <2>6 DEF Dense
<1> QED
  BY <1>1, <1>2

\* Every step leaves the process where it should be.
LEMMA AtWorkStep ==
    ASSUME TypeOK, AtWork, [Next]_vars
    PROVE  AtWork'
<1>1. Purge => AtWork'
  <2> SUFFICES ASSUME Purge PROVE AtWork'
    OBVIOUS
  <2>1. Sound' /\ pc' \in {"create", "idle"}
    BY SameFact DEF Purge
  <2> QED
    BY <2>1 DEF AtWork, Moving
<1>2. Create => AtWork'
  <2> SUFFICES ASSUME Create PROVE AtWork'
    OBVIOUS
  <2>1. Sound' /\ pc' = "copy" /\ UNCHANGED data /\ data \in DataFile
    BY SameFact DEF Create, AtWork, Sound, TypeOK
  <2>2. i' \in 1 .. data'.num + 1
    BY <2>1 DEF Create, DataFile
  <2>3. qd' = [frames |-> <<>>, num |-> 0, next |-> data.next] /\ qi' = <<>>
    BY DEF Create
  <2>4. qd' \in DataFile /\ qi' \in IndexFile
    BY <2>1, <2>3 DEF DataFile, IndexFile
  <2>5. qd' # None /\ qi' # None /\ Dense(qd', qi')
    BY <2>3, <2>4, ParamFact DEF Dense
  <2> QED
    BY <2>1, <2>2, <2>5 DEF AtWork, Moving
<1>3. Copy => AtWork'
  <2> SUFFICES ASSUME Copy PROVE AtWork'
    OBVIOUS
  <2>1. Sound' /\ pc' = "copy" /\ UNCHANGED data
    BY SameFact, CopyFact DEF Copy
  <2>2. i' \in 1 .. data'.num + 1
    BY <2>1, CopyFact DEF Copy
  <2>3. qd' # None /\ qi' # None /\ Dense(qd', qi')
    BY CopyDense
  <2> QED
    BY <2>1, <2>2, <2>3 DEF AtWork, Moving
<1>4. Close => AtWork'
  BY DEF Close, AtWork, Moving
<1>5. Wipe => AtWork'
  BY DEF Wipe, AtWork, Moving
<1>6. WipeRest => AtWork'
  BY DEF WipeRest, AtWork, Moving
<1>7. UnlinkData => AtWork'
  BY DEF UnlinkData, AtWork, Moving
<1>8. MoveData => AtWork'
  BY DEF MoveData, AtWork, Moving
<1>9. UnlinkIndex => AtWork'
  BY DEF UnlinkIndex, AtWork, Moving
<1>10. MoveIndex => AtWork'
  BY DEF MoveIndex, AtWork, Moving
<1>11. TossBad => AtWork'
  BY DEF TossBad, AtWork, Moving
<1>12. UnlinkBad => AtWork'
  BY DEF UnlinkBad, AtWork, Moving
<1>13. MoveBad => AtWork'
  BY DEF MoveBad, AtWork, Moving
<1>14. NewBad => AtWork'
  <2> SUFFICES ASSUME NewBad PROVE AtWork'
    OBVIOUS
  <2>1. badqd \in Seq(Message) /\ badqd # None /\ <<>> \in Seq(Message)
    BY DEF NewBad, AtWork, TypeOK
  <2>2. i' = 1 /\ bad' = <<>> /\ badqd' = badqd /\ pc' = "badtoss"
    BY DEF NewBad
  <2>3. 1 \in 1 .. Len(badqd) + 1
    <3>1. Len(badqd) \in Nat
      BY <2>1
    <3> QED
      BY <3>1
  <2>4. <<>> # None
    BY <2>1, ParamFact
  <2> QED
    BY <2>1, <2>2, <2>3, <2>4 DEF AtWork, Moving
<1>15. ASSUME pc = "badtoss", i <= Len(badqd), i' = i + 1, UNCHANGED <<pc, badqd>>, bad' # None
       PROVE  AtWork'
  <2>1. i' \in 1 .. Len(badqd') + 1 /\ badqd' # None
    BY <1>15, BadFact, ParamFact
  <2> QED
    BY <1>15, <2>1 DEF AtWork, Moving
<1>16. StillBad => AtWork'
  <2> SUFFICES ASSUME StillBad PROVE AtWork'
    OBVIOUS
  <2>1. bad' # None
    BY BadFact, ParamFact DEF StillBad
  <2> QED
    BY <1>15, <2>1 DEF StillBad, NextBad
<1>17. Aside => AtWork'
  BY <1>15 DEF Aside, NextBad, AtWork
<1>18. Fits => AtWork'
  BY <1>15 DEF Fits, NextBad, AtWork
<1>19. BadDone => AtWork'
  BY DEF BadDone, AtWork, Moving
<1>20. UnToss => AtWork'
  <2> SUFFICES ASSUME UnToss PROVE AtWork'
    OBVIOUS
  <2>1. Sound' /\ pc' = "untoss" /\ data \in DataFile
    BY SameFact DEF UnToss, Sound, TypeOK
  <2>2. i' \in 1 .. data'.num + 1
    BY <2>1 DEF UnToss, DataFile
  <2> QED
    BY <2>1, <2>2 DEF AtWork, Moving
<1>21. Text => AtWork'
  <2> SUFFICES ASSUME Text PROVE AtWork'
    OBVIOUS
  <2>1. Sound' /\ pc' = "untoss" /\ data \in DataFile /\ i \in 1 .. data.num + 1
    BY SameFact DEF Text, AtWork, Sound, TypeOK
  <2>2. i' \in 1 .. data'.num + 1
    BY <2>1 DEF Text, DataFile
  <2> QED
    BY <2>1, <2>2 DEF AtWork, Moving
<1>22. Untossed => AtWork'
  BY DEF Untossed, AtWork, Moving
<1>23. Post => AtWork'
  <2> SUFFICES ASSUME Post PROVE AtWork'
    OBVIOUS
  <2>1. PICK m \in Message : Putting(m) /\ (Moving => Stored(data) \subseteq risk')
                             /\ (Renaming => m.id \in risk')
    BY PostFact
  <2>2. UNCHANGED <<pc, i, qd, qi, bad, badqd>> /\ pc \notin {"create", "copy", "untoss"}
    BY DEF Post, Held
  <2>3. Moving => data' # None /\ risk' # {} /\ Stored(data') \subseteq risk'
    BY <2>1, PuttingStored DEF Moving, Renaming
  <2> QED
    BY <2>2, <2>3 DEF AtWork, Moving
<1>24. PostBad => AtWork'
  BY DEF PostBad, AtWork, Moving
<1>25. Delete => AtWork'
  BY DEF Delete, Held, Renaming, AtWork, Moving
<1>26. Midnight => AtWork'
  <2> SUFFICES ASSUME Midnight PROVE AtWork'
    OBVIOUS
  <2>1. UNCHANGED area /\ (Sound' <=> Sound)
    BY SameFact DEF Midnight
  <2> QED
    BY <2>1 DEF Midnight, AtWork, Moving
<1>27. Kill => AtWork'
  BY DEF Kill, AtWork, Moving
<1>28. UNCHANGED vars => AtWork'
  <2> SUFFICES ASSUME UNCHANGED vars PROVE AtWork'
    OBVIOUS
  <2>1. UNCHANGED area /\ (Sound' <=> Sound)
    BY SameFact DEF vars
  <2> QED
    BY <2>1 DEF vars, AtWork, Moving
<1> QED
  BY <1>1, <1>2, <1>3, <1>4, <1>5, <1>6, <1>7, <1>8, <1>9, <1>10, <1>11, <1>12, <1>13, <1>14,
     <1>16, <1>17, <1>18, <1>19, <1>20, <1>21, <1>22, <1>23, <1>24, <1>25, <1>26, <1>27, <1>28
     DEF Next

-----------------------------------------------------------------------------
(* Nothing is lost. *)

LEMMA PuttingReads ==
    ASSUME TypeOK, NEW m, Putting(m)
    PROVE  /\ Readable \subseteq Readable'
           /\ Sound \/ data = None => Sound' /\ m.id \in Readable'
<1>1. PICK at \in Places(Opened.d) :
         [d |-> data', x |-> index'] = Put(Opened.d, Opened.x, m, Opened.d.next, at)
  BY PuttingFact
<1>2. Opened.d \in DataFile /\ Opened.x \in IndexFile /\ Opened.d.next \in Nat
  BY OpenedFact DEF DataFile
<1>3. data' # None /\ index' # None
  BY PuttingStored
<1>4. Readable = {} \/ (Sound /\ Readable = Reads(Opened.d, Opened.x))
  BY ReadFact, OpenedFact
<1>5. ASSUME Sound \/ data = None PROVE SoundAt(Opened.d, Opened.x)
  <2>1. CASE Sound
    BY <2>1, ReadFact, OpenedFact
  <2>2. CASE data = None
    <3>1. Opened.d.num = 0
      BY <2>2, OpenedFact DEF NewData
    <3>2. Len(Opened.x) \in Nat
      BY <1>2 DEF IndexFile
    <3> QED
      BY <3>1, <3>2 DEF SoundAt
  <2> QED
    BY <1>5, <2>1, <2>2
<1>6. ASSUME SoundAt(Opened.d, Opened.x)
      PROVE  /\ Sound' /\ Reads(Opened.d, Opened.x) \subseteq Readable'
             /\ m.id \in Readable'
  <2> DEFINE p == [d |-> data', x |-> index']
  <2>1. p = Put(Opened.d, Opened.x, m, Opened.d.next, at) /\ p.d = data' /\ p.x = index'
    BY <1>1
  <2>2. m \in Message
    BY DEF Putting
  <2> HIDE DEF p
  <2>3. /\ SoundAt(p.d, p.x) /\ Reads(Opened.d, Opened.x) \subseteq Reads(p.d, p.x)
        /\ m.id \in Reads(p.d, p.x)
    BY <1>2, <1>6, <2>1, <2>2, PutReads
  <2>4. Sound' /\ Readable' = Reads(data', index')
    <3>1. SoundAt(data', index')
      BY <2>1, <2>3
    <3>2. Sound'
      BY <1>3, <3>1 DEF Sound, SoundAt
    <3> QED
      BY <3>2 DEF Readable, Reads, Msg
  <2> QED
    BY <2>1, <2>3, <2>4
<1> QED
  BY <1>4, <1>5, <1>6

\* Where the messages outside of the base are, when a step moves none of them.
LEMMA AwaySame ==
    ASSUME UNCHANGED <<bad, elsewhere, gone, risk>>, Pending' = Pending
    PROVE  Away' = Away
BY DEF Away, Lying

\* The renames at the end of a purge lead to what has been copied.
LEMMA DenseReads ==
    ASSUME NEW d \in DataFile, NEW x \in IndexFile, Dense(d, x)
    PROVE  SoundAt(d, x) /\ Stored(d) \subseteq Reads(d, x)
<1>1. /\ d.num \in Nat /\ Len(x) = d.num /\ Len(d.frames) = d.num /\ d # None
      /\ \A k \in 1 .. d.num : x[k].at = k /\ d.frames[k] # Hole
  BY ParamFact DEF DataFile, Dense
<1>2. SoundAt(d, x)
  <2>1. \A k \in 1 .. d.num : \A e \in 1 .. k - 1 : e \in 1 .. d.num /\ e # k
    BY <1>1
  <2> QED
    BY <1>1, <2>1 DEF SoundAt
<1>3. Stored(d) = {d.frames[k].id : k \in 1 .. d.num} \ {0}
  BY <1>1 DEF Stored
<1>4. Reads(d, x) = {d.frames[k].id : k \in 1 .. d.num}
  BY <1>1 DEF Reads
<1> QED
  BY <1>2, <1>3, <1>4

\* What a purge has looked at it has copied or left out because it was old.
LEMMA CopyKept ==
    ASSUME TypeOK, AtWork, RunKept, MapKept, Copy
    PROVE  /\ Stored(qd) \subseteq Stored(qd') /\ gone \subseteq gone'
           /\ \A k \in 1 .. data.num : k < i + 1 => Msg(k).id \in Stored(qd') \cup gone'
<1>0. \A k \in 1 .. data.num : k < i => Msg(k).id \in Stored(qd) \cup gone
  BY DEF RunKept, Copy
<1>1. CASE ~Wanted(Msg(i))
  <2>1. conf.days # 0
    BY <1>1 DEF Wanted
  <2>2. Old(Msg(i))
    <3>1. CASE conf.analyse < 2
      BY <1>1, <3>1 DEF Wanted
    <3>2. CASE ~(conf.analyse < 2)
      <4>1. i \notin keep /\ i \in 1 .. data.num
        BY <1>1, <3>2, CopyFact DEF Wanted
      <4>2. conf.analyse \in 0 .. 3
        BY ParamFact DEF TypeOK, Conf
      <4>3. conf.analyse >= 2
        BY <3>2, <4>2
      <4>4. Aged(conf, today, Msg(i))
        BY <2>1, <4>1, <4>3 DEF MapKept, Copy
      <4> QED
        BY <4>4 DEF Aged, Old
    <3> QED
      BY <3>1, <3>2
  <2>3. qd' = qd /\ gone' = gone \cup {Msg(i).id}
    BY <1>1, <2>2 DEF Copy
  <2>4. \A k \in 1 .. data.num : k < i + 1 => k < i \/ k = i
    BY CopyFact
  <2> QED
    BY <1>0, <2>3, <2>4
<1>2. CASE Wanted(Msg(i))
  <2> DEFINE p == Copied(Msg(i))
  <2>1. qd' = p.d /\ gone' = gone
    BY <1>2 DEF Copy
  <2>2. p = Put(qd, qi, Msg(i), Rehwm(index[i].uid), qd.num + 1)
    BY DEF Copied
  <2> HIDE DEF p
  <2>3. Stored(qd) \subseteq Stored(p.d) /\ Msg(i).id \in Stored(p.d)
    <3>1. /\ qd \in DataFile /\ qi \in IndexFile /\ Msg(i) \in Message
          /\ Rehwm(index[i].uid) \in Nat /\ qd.num + 1 \in Places(qd) /\ qd.num <= Len(qi)
          /\ qd.num + 1 = Len(qd.frames) + 1
      BY CopyFact
    <3> QED
      BY <2>2, <3>1, PutStored
  <2>4. \A k \in 1 .. data.num : k < i + 1 => k < i \/ k = i
    BY CopyFact
  <2> QED
    BY <1>0, <2>1, <2>3, <2>4
<1> QED
  BY <1>1, <1>2

\* Every step leaves every message somewhere, or is excused.
LEMMA KeptStep ==
    ASSUME TypeOK, TypeOK', AtWork, KeptInv, [Next]_vars
    PROVE  KeptInv'
<1>0. Excused => Excused'
  <2>1. conf' = conf
    BY DEF Next, vars, Purge, Create, Copy, Close, Wipe, WipeRest, UnlinkData, MoveData,
           UnlinkIndex, MoveIndex, TossBad, UnlinkBad, MoveBad, NewBad, StillBad, Aside, Fits,
           NextBad, BadDone, UnToss, Text, Untossed, Post, PostBad, Delete, Midnight, Kill
  <2>2. mixed => mixed'
    BY DEF Next, vars, Purge, Create, Copy, Close, Wipe, WipeRest, UnlinkData, MoveData,
           UnlinkIndex, MoveIndex, TossBad, UnlinkBad, MoveBad, NewBad, StillBad, Aside, Fits,
           NextBad, BadDone, UnToss, Text, Untossed, Post, PostBad, Delete, Midnight, Kill
  <2> QED
    BY <2>1, <2>2 DEF Excused
<1> SUFFICES ASSUME BaseKept, NewKept, RunKept, MapKept PROVE KeptInv'
  BY <1>0 DEF KeptInv
<1>1. Purge => KeptInv'
  <2> SUFFICES ASSUME Purge PROVE KeptInv'
    OBVIOUS
  <2>1. /\ UNCHANGED area /\ pc = "idle" /\ pc' \in {"create", "idle"}
        /\ Away' = Away /\ UNCHANGED <<posted, conf, today>>
    BY AwaySame DEF Purge, Pending
  <2>2. BaseKept' /\ NewKept' /\ RunKept'
    BY <2>1, SameFact DEF BaseKept, NewKept, RunKept, Moving
  <2>3. ASSUME pc' = "create", conf.analyse >= 2, conf.days # 0, NEW k \in 1 .. data.num,
               k \notin keep', ~Aged(conf, today, Msg(k))
        PROVE  mixed'
    <3>1. Needwork /\ keep' = Bitmap
      BY <2>3 DEF Purge
    <3>2. PICK e \in Expired : k <= e
      BY <2>3, <3>1 DEF Bitmap
    <3>3. Young(k) /\ k # e
      BY <2>3, <3>2 DEF Young, Expired, Old, Aged
    <3>4. k < e
      BY <3>2, <3>3 DEF Expired
    <3> QED
      BY <3>2, <3>3, <3>4 DEF Purge
  <2>4. MapKept' \/ Excused'
    <3>1. \A k : Msg(k)' = Msg(k)
      BY <2>1, SameFact
    <3> QED
      BY <2>1, <2>3, <3>1 DEF MapKept, Excused
  <2> QED
    BY <2>2, <2>4 DEF KeptInv
<1>2. Create => KeptInv'
  <2> SUFFICES ASSUME Create PROVE KeptInv'
    OBVIOUS
  <2>1. /\ UNCHANGED area /\ pc = "create" /\ pc' = "copy" /\ i' = 1
        /\ Away' = Away /\ UNCHANGED <<posted, conf, today, keep>>
    BY AwaySame DEF Create, Pending
  <2>2. \A k : Msg(k)' = Msg(k)
    BY <2>1, SameFact
  <2>3. BaseKept' /\ NewKept'
    BY <2>1, SameFact DEF BaseKept, NewKept, Moving
  <2>4. RunKept'
    BY <2>1 DEF RunKept
  <2>5. MapKept'
    BY <2>1, <2>2 DEF MapKept
  <2> QED
    BY <2>3, <2>4, <2>5 DEF KeptInv
<1>3. Copy => KeptInv'
  <2> SUFFICES ASSUME Copy PROVE KeptInv'
    OBVIOUS
  <2>1. /\ UNCHANGED area /\ pc = "copy" /\ pc' = "copy" /\ i' = i + 1
        /\ UNCHANGED <<posted, conf, today, keep, bad, elsewhere, risk>>
        /\ Pending' = Pending
    BY DEF Copy, Pending
  <2>2. \A k : Msg(k)' = Msg(k)
    BY <2>1, SameFact
  <2>3. /\ Stored(qd) \subseteq Stored(qd') /\ gone \subseteq gone'
        /\ \A k \in 1 .. data.num : k < i + 1 => Msg(k).id \in Stored(qd') \cup gone'
    BY CopyKept
  <2>4. Away \subseteq Away'
    BY <2>1, <2>3 DEF Away, Lying
  <2>5. BaseKept' /\ NewKept'
    BY <2>1, <2>4, SameFact DEF BaseKept, NewKept, Moving
  <2>6. RunKept'
    BY <2>1, <2>2, <2>3 DEF RunKept
  <2>7. MapKept'
    BY <2>1, <2>2 DEF MapKept
  <2> QED
    BY <2>5, <2>6, <2>7 DEF KeptInv
<1>4. Close => KeptInv'
  <2> SUFFICES ASSUME Close PROVE KeptInv'
    OBVIOUS
  <2>1. /\ UNCHANGED <<data, index, qd>> /\ pc = "copy"
        /\ pc' \in {"wipe", "data"} /\ (pc' = "wipe" => qd.num = 0)
        /\ Away' = Away /\ UNCHANGED <<posted, conf, today>>
    BY AwaySame DEF Close, Pending
  <2>2. Sound /\ i > data.num /\ data.num \in Nat /\ i \in Nat
    <3>1. Sound
      BY <2>1 DEF AtWork
    <3> QED
      BY <2>1, <3>1 DEF Close, TypeOK, Sound, DataFile
  <2>3. Readable \subseteq Stored(qd) \cup gone
    <3>1. \A k \in 1 .. data.num : k < i
      BY <2>2
    <3>2. \A k \in 1 .. data.num : Msg(k).id \in Stored(qd) \cup gone
      BY <2>1, <3>1 DEF RunKept
    <3> QED
      BY <2>2, <3>2 DEF Readable
  <2>4. posted \subseteq Stored(qd) \cup Away
    <3>1. posted \subseteq Readable \cup Away /\ gone \subseteq Away
      BY <2>1 DEF BaseKept, Away
    <3> QED
      BY <2>3, <3>1
  <2>5. qd.num = 0 => Stored(qd) = {}
    <3>1. qd # None /\ Len(qd.frames) = qd.num
      BY <2>1 DEF AtWork, Dense
    <3> QED
      BY <3>1 DEF Stored
  <2>6. BaseKept'
    BY <2>1, SameFact DEF BaseKept
  <2>7. NewKept'
    BY <2>1, <2>4, <2>5 DEF NewKept, Moving
  <2>8. RunKept' /\ MapKept'
    BY <2>1 DEF RunKept, MapKept
  <2> QED
    BY <2>6, <2>7, <2>8 DEF KeptInv
<1>5. Wipe => KeptInv'
  <2> SUFFICES ASSUME Wipe PROVE KeptInv'
    OBVIOUS
  <2>1. pc = "wipe" /\ pc' = "wiperest" /\ Away' = Away /\ posted' = posted
    BY AwaySame DEF Wipe, Pending
  <2> QED
    BY <2>1 DEF KeptInv, BaseKept, NewKept, RunKept, MapKept, Moving
<1>6. WipeRest => KeptInv'
  <2> SUFFICES ASSUME WipeRest PROVE KeptInv'
    OBVIOUS
  <2>1. pc = "wiperest" /\ pc' = "idle" /\ Away' = Away /\ posted' = posted
    BY AwaySame DEF WipeRest, Pending
  <2> QED
    BY <2>1 DEF KeptInv, BaseKept, NewKept, RunKept, MapKept, Moving
<1>7. UnlinkData => KeptInv'
  <2> SUFFICES ASSUME UnlinkData PROVE KeptInv'
    OBVIOUS
  <2>1. pc = "data" /\ pc' = "movedata" /\ Away' = Away /\ UNCHANGED <<posted, qd>>
    BY AwaySame DEF UnlinkData, Pending
  <2> QED
    BY <2>1 DEF KeptInv, BaseKept, NewKept, RunKept, MapKept, Moving
<1>8. MoveData => KeptInv'
  <2> SUFFICES ASSUME MoveData PROVE KeptInv'
    OBVIOUS
  <2>1. pc = "movedata" /\ pc' = "index" /\ Away' = Away /\ posted' = posted /\ data' = qd
    BY AwaySame DEF MoveData, Pending
  <2> QED
    BY <2>1 DEF KeptInv, BaseKept, NewKept, RunKept, MapKept, Moving
<1>9. UnlinkIndex => KeptInv'
  <2> SUFFICES ASSUME UnlinkIndex PROVE KeptInv'
    OBVIOUS
  <2>1. pc = "index" /\ pc' = "moveindex" /\ Away' = Away /\ UNCHANGED <<posted, data>>
    BY AwaySame DEF UnlinkIndex, Pending
  <2> QED
    BY <2>1 DEF KeptInv, BaseKept, NewKept, RunKept, MapKept, Moving
<1>10. MoveIndex => KeptInv'
  <2> SUFFICES ASSUME MoveIndex PROVE KeptInv'
    OBVIOUS
  <2>1. /\ pc = "moveindex" /\ pc' = "idle" /\ Away' = Away /\ UNCHANGED <<posted, data>>
        /\ index' = qi
    BY AwaySame DEF MoveIndex, Pending
  <2>2. data # None /\ qi # None /\ (Dense(data, qi) \/ Stored(data) \subseteq risk)
    BY <2>1 DEF AtWork, Moving
  <2>3. Stored(data) \subseteq Readable' \cup Away'
    <3>1. CASE Dense(data, qi)
      <4>1. SoundAt(data, qi) /\ Stored(data) \subseteq Reads(data, qi)
        BY <2>2, <3>1, DenseReads DEF TypeOK
      <4>2. Sound'
        BY <2>1, <2>2, <4>1 DEF Sound, SoundAt
      <4>3. Readable' = Reads(data, qi)
        BY <2>1, <4>2 DEF Readable, Reads, Msg
      <4> QED
        BY <4>1, <4>3
    <3>2. CASE Stored(data) \subseteq risk
      BY <2>1, <3>2 DEF Away
    <3> QED
      BY <2>2, <3>1, <3>2
  <2>4. posted \subseteq Stored(data) \cup Away
    BY <2>1 DEF NewKept, Moving
  <2>5. BaseKept'
    BY <2>1, <2>3, <2>4 DEF BaseKept
  <2>6. NewKept' /\ RunKept' /\ MapKept'
    BY <2>1 DEF NewKept, RunKept, MapKept, Moving
  <2> QED
    BY <2>5, <2>6 DEF KeptInv
\* A step of tossbad, or of a reader, while no base is written anew.
<1>11. ASSUME pc \in {"idle", "bad", "badmove", "badnew", "badtoss", "untoss"},
              pc' \in {"idle", "bad", "badmove", "badnew", "badtoss"},
              posted' \subseteq Readable' \cup Away'
       PROVE  KeptInv'
  BY <1>11 DEF KeptInv, BaseKept, NewKept, RunKept, MapKept, Moving
<1>12. pc \in {"idle", "bad", "badmove", "badnew", "badtoss", "untoss"}
         => posted \subseteq Readable \cup Away
  BY DEF BaseKept
<1>13. TossBad => KeptInv'
  <2> SUFFICES ASSUME TossBad PROVE KeptInv'
    OBVIOUS
  <2>1. /\ pc = "idle" /\ pc' = "bad" /\ Away' = Away /\ posted' = posted
        /\ Readable' = Readable
    BY AwaySame, SameFact DEF TossBad, Pending
  <2> QED
    BY <1>11, <1>12, <2>1
<1>14. UnlinkBad => KeptInv'
  <2> SUFFICES ASSUME UnlinkBad PROVE KeptInv'
    OBVIOUS
  <2>1. /\ pc = "bad" /\ pc' = "badmove" /\ Away' = Away /\ posted' = posted
        /\ Readable' = Readable
    BY AwaySame, SameFact DEF UnlinkBad, Pending
  <2> QED
    BY <1>11, <1>12, <2>1
<1>15. MoveBad => KeptInv'
  <2> SUFFICES ASSUME MoveBad PROVE KeptInv'
    OBVIOUS
  <2>1. /\ pc = "badmove" /\ pc' = "badnew" /\ posted' = posted /\ Readable' = Readable
        /\ bad # None /\ badqd' = bad /\ UNCHANGED <<elsewhere, gone, risk>>
    BY SameFact DEF MoveBad, AtWork
  <2>2. Pending = {} /\ Lying \subseteq Pending'
    BY <2>1 DEF Pending, Lying
  <2>3. Away \subseteq Away'
    BY <2>1, <2>2 DEF Away
  <2> QED
    BY <1>11, <1>12, <2>1, <2>3
<1>16. NewBad => KeptInv'
  <2> SUFFICES ASSUME NewBad PROVE KeptInv'
    OBVIOUS
  <2>1. /\ pc = "badnew" /\ pc' = "badtoss" /\ posted' = posted /\ Readable' = Readable
        /\ bad = None /\ badqd' = badqd /\ i' = 1 /\ UNCHANGED <<elsewhere, gone, risk>>
    BY SameFact DEF NewBad, AtWork
  <2>2. Lying = {} /\ Pending' = Pending
    BY <2>1 DEF Pending, Lying
  <2>3. Away \subseteq Away'
    BY <2>1, <2>2 DEF Away
  <2> QED
    BY <1>11, <1>12, <2>1, <2>3
<1>17. ASSUME pc = "badtoss", i <= Len(badqd), i' = i + 1, UNCHANGED <<pc, badqd, posted>>,
              Readable \subseteq Readable', elsewhere \subseteq elsewhere', risk \subseteq risk',
              gone' = gone, Lying \subseteq Lying',
              badqd[i].id \in Readable' \cup Lying' \cup elsewhere' \cup risk'
       PROVE  KeptInv'
  <2>1. Len(badqd) \in Nat /\ i \in 1 .. Len(badqd)
    BY <1>17, BadFact
  <2>2. Pending \subseteq Pending' \cup {badqd[i].id}
    <3>1. \A k \in i .. Len(badqd) : k = i \/ k \in i + 1 .. Len(badqd)
      BY <2>1
    <3> QED
      BY <1>17, <3>1 DEF Pending
  <2>3. Away \subseteq Readable' \cup Away'
    BY <1>17, <2>2 DEF Away
  <2> QED
    BY <1>11, <1>12, <1>17, <2>3
<1>18. StillBad => KeptInv'
  <2> SUFFICES ASSUME StillBad PROVE KeptInv'
    OBVIOUS
  <2>1. /\ pc = "badtoss" /\ i <= Len(badqd) /\ i' = i + 1 /\ bad' = Append(bad, badqd[i])
        /\ UNCHANGED <<pc, badqd, posted, elsewhere, risk, gone, area>>
    BY DEF StillBad, NextBad
  <2>2. bad \in Seq(Message) /\ badqd[i] \in Message
    BY <2>1, BadFact
  <2>3. /\ bad' \in Seq(Message) /\ Len(bad') = Len(bad) + 1 /\ bad'[Len(bad) + 1] = badqd[i]
        /\ Len(bad) \in Nat /\ \A k \in 1 .. Len(bad) : bad'[k] = bad[k]
    BY <2>1, <2>2, AppendProperties
  <2>4. bad # None /\ bad' # None
    BY <2>2, <2>3, ParamFact
  <2>5. Lying = {bad[k].id : k \in 1 .. Len(bad)} /\ Lying' = {bad'[k].id : k \in 1 .. Len(bad')}
    BY <2>4 DEF Lying
  <2>6. Lying \subseteq Lying'
    <3>1. \A k \in 1 .. Len(bad) : k \in 1 .. Len(bad')
      BY <2>3
    <3> QED
      BY <2>3, <2>5, <3>1
  <2>7. badqd[i].id \in Lying'
    <3>1. Len(bad) + 1 \in 1 .. Len(bad')
      BY <2>3
    <3> QED
      BY <2>3, <2>5, <3>1
  <2>8. Readable' = Readable
    BY <2>1, SameFact
  <2> QED
    BY <1>17, <2>1, <2>6, <2>7, <2>8
<1>19. Aside => KeptInv'
  <2> SUFFICES ASSUME Aside PROVE KeptInv'
    OBVIOUS
  <2>1. /\ pc = "badtoss" /\ i <= Len(badqd) /\ i' = i + 1
        /\ elsewhere' = elsewhere \cup {badqd[i].id}
        /\ UNCHANGED <<pc, badqd, bad, posted, risk, gone, area>>
    BY DEF Aside, NextBad
  <2>2. Readable' = Readable /\ Lying' = Lying
    BY <2>1, SameFact DEF Lying
  <2> QED
    BY <1>17, <2>1, <2>2
<1>20. Fits => KeptInv'
  <2> SUFFICES ASSUME Fits PROVE KeptInv'
    OBVIOUS
  <2>1. /\ pc = "badtoss" /\ i <= Len(badqd) /\ i' = i + 1
        /\ UNCHANGED <<pc, badqd, bad, posted, elsewhere, gone>>
    BY DEF Fits, NextBad
  <2>2. Putting(badqd[i])
    BY FitsFact
  <2>3. risk \subseteq risk' /\ (~(Sound \/ data = None) => badqd[i].id \in risk')
    BY FitsFact
  <2>4. Readable \subseteq Readable' /\ (Sound \/ data = None => badqd[i].id \in Readable')
    BY <2>2, PuttingReads
  <2>5. Lying' = Lying
    BY <2>1 DEF Lying
  <2> QED
    BY <1>17, <2>1, <2>3, <2>4, <2>5
<1>21. BadDone => KeptInv'
  <2> SUFFICES ASSUME BadDone PROVE KeptInv'
    OBVIOUS
  <2>1. /\ pc = "badtoss" /\ pc' = "idle" /\ posted' = posted /\ Readable' = Readable
        /\ i > Len(badqd) /\ UNCHANGED <<bad, elsewhere, gone, risk>>
    BY SameFact DEF BadDone
  <2>2. Pending = {} /\ Pending' = {}
    <3>1. badqd \in Seq(Message) /\ i \in Nat
      BY <2>1 DEF AtWork, TypeOK
    <3>2. i .. Len(badqd) = {}
      BY <2>1, <3>1
    <3> QED
      BY <2>1, <3>2 DEF Pending
  <2>3. Away' = Away
    BY <2>1, <2>2, AwaySame
  <2> QED
    BY <1>11, <1>12, <2>1, <2>3
<1>22. UnToss => KeptInv'
  <2> SUFFICES ASSUME UnToss PROVE KeptInv'
    OBVIOUS
  <2>1. /\ pc = "idle" /\ pc' = "untoss" /\ Away' = Away /\ posted' = posted
        /\ Readable' = Readable /\ i' = 1
    BY AwaySame, SameFact DEF UnToss, Pending
  <2>2. RunKept'
    BY <2>1 DEF RunKept
  <2> QED
    BY <2>1, <2>2 DEF KeptInv, BaseKept, NewKept, MapKept, Moving
<1>23. Text => KeptInv'
  <2> SUFFICES ASSUME Text PROVE KeptInv'
    OBVIOUS
  <2>1. /\ pc = "untoss" /\ pc' = "untoss" /\ posted' = posted /\ i' = i + 1 /\ i <= data.num
        /\ elsewhere' = elsewhere \cup {Msg(i).id} /\ UNCHANGED <<area, bad, gone, risk>>
    BY DEF Text
  <2>2. Readable' = Readable /\ (\A k : Msg(k)' = Msg(k)) /\ data' = data
    BY <2>1, SameFact
  <2>3. i \in 1 .. data.num + 1 /\ data.num \in Nat
    BY <2>1 DEF AtWork, TypeOK, Sound, DataFile
  <2>4. Away \subseteq Away'
    BY <2>1 DEF Away, Lying, Pending
  <2>5. RunKept'
    <3>1. \A k \in 1 .. data.num : k < i + 1 => k < i \/ k = i
      BY <2>3
    <3>2. \A k \in 1 .. data.num : k < i + 1 => Msg(k).id \in elsewhere'
      BY <2>1, <3>1 DEF RunKept
    <3> QED
      BY <2>1, <2>2, <3>2 DEF RunKept
  <2> QED
    BY <2>1, <2>2, <2>4, <2>5 DEF KeptInv, BaseKept, NewKept, MapKept, Moving
<1>24. Untossed => KeptInv'
  <2> SUFFICES ASSUME Untossed PROVE KeptInv'
    OBVIOUS
  <2>1. /\ pc = "untoss" /\ pc' = "idle" /\ posted' = posted /\ Away' = Away /\ i > data.num
        /\ elsewhere' = elsewhere
    BY AwaySame DEF Untossed, Pending
  <2>2. Sound /\ data.num \in Nat /\ i \in Nat
    BY <2>1 DEF AtWork, TypeOK, Sound, DataFile
  <2>3. Readable \subseteq Away'
    <3>1. \A k \in 1 .. data.num : k < i
      BY <2>1, <2>2
    <3>2. \A k \in 1 .. data.num : Msg(k).id \in elsewhere
      BY <2>1, <3>1 DEF RunKept
    <3> QED
      BY <2>1, <2>2, <3>2 DEF Readable, Away
  <2> QED
    BY <1>11, <1>12, <2>1, <2>3
<1>25. Post => KeptInv'
  <2> SUFFICES ASSUME Post PROVE KeptInv'
    OBVIOUS
  <2>1. PICK m \in Message :
           /\ Putting(m) /\ posted' = posted \cup {m.id}
           /\ Renaming \/ ~(Sound \/ data = None) => m.id \in risk'
           /\ Moving => Stored(data) \subseteq risk'
           /\ risk \subseteq risk'
    BY PostFact
  <2>2. /\ UNCHANGED <<pc, i, qd, bad, badqd, elsewhere, gone>>
        /\ pc \notin {"create", "copy", "untoss"}
    BY DEF Post, Held
  <2>3. Away \cup risk' \subseteq Away'
    BY <2>1, <2>2 DEF Away, Lying, Pending
  <2>4. Readable \subseteq Readable' /\ m.id \in Readable' \cup Away'
    BY <2>1, <2>3, PuttingReads
  <2>5. BaseKept'
    BY <2>1, <2>2, <2>3, <2>4 DEF BaseKept
  <2>6. NewKept'
    <3>1. pc \in {"data", "movedata", "wipe", "wiperest"} \/ Moving => m.id \in Away'
      BY <2>1, <2>3 DEF Renaming, Moving
    <3>2. pc \in {"data", "movedata"} => posted' \subseteq Stored(qd') \cup Away'
      BY <2>1, <2>2, <2>3, <3>1 DEF NewKept
    <3>3. Moving => posted' \subseteq Away'
      BY <2>1, <2>3, <3>1 DEF NewKept
    <3>4. pc \in {"wipe", "wiperest"} => posted' \subseteq Away'
      BY <2>1, <2>3, <3>1 DEF NewKept
    <3> QED
      BY <2>2, <3>2, <3>3, <3>4 DEF NewKept, Moving
  <2>7. RunKept' /\ MapKept'
    BY <2>2 DEF RunKept, MapKept
  <2> QED
    BY <2>5, <2>6, <2>7 DEF KeptInv
<1>26. PostBad => KeptInv'
  <2> SUFFICES ASSUME PostBad PROVE KeptInv'
    OBVIOUS
  <2> DEFINE m == [id |-> Cardinality(posted) + 1, day |-> today]
  <2>1. /\ pc = "idle" /\ pc' = "idle" /\ posted' = posted \cup {m.id}
        /\ bad' = (IF bad = None THEN <<m>> ELSE Append(bad, m))
        /\ UNCHANGED <<area, elsewhere, gone, risk>>
    BY DEF PostBad
  <2> HIDE DEF m
  <2>2. Readable' = Readable /\ Pending = {} /\ Pending' = {}
    BY <2>1, SameFact DEF Pending
  <2>3. Lying \cup {m.id} \subseteq Lying'
    <3>1. bad' \in Seq(Message) \/ bad' = None
      BY DEF TypeOK
    <3>2. CASE bad = None
      <4>1. bad' = <<m>>
        BY <2>1, <3>2
      <4>2. Lying = {} /\ Len(bad') = 1 /\ bad'[1] = m
        BY <3>2, <4>1 DEF Lying
      <4>3. bad' # None
        <5>1. m \in Message
          BY CountFact, ParamFact DEF m, PostBad, TypeOK, Message, Ids
        <5>2. bad' \in Seq(Message)
          BY <4>1, <5>1
        <5> QED
          BY <5>2, ParamFact
      <4>4. Lying' = {bad'[k].id : k \in 1 .. Len(bad')}
        BY <4>3 DEF Lying
      <4>5. 1 \in 1 .. Len(bad')
        BY <4>2
      <4>6. m.id \in Lying'
        BY <4>2, <4>4, <4>5
      <4> QED
        BY <4>2, <4>6
    <3>3. CASE bad # None
      <4>1. bad' = Append(bad, m) /\ bad \in Seq(Message)
        BY <2>1, <3>3 DEF TypeOK
      <4>2. m \in Message
        BY CountFact, ParamFact DEF m, PostBad, TypeOK, Message, Ids
      <4>3. /\ bad' \in Seq(Message) /\ Len(bad') = Len(bad) + 1 /\ bad'[Len(bad) + 1] = m
            /\ Len(bad) \in Nat /\ \A k \in 1 .. Len(bad) : bad'[k] = bad[k]
        BY <4>1, <4>2, AppendProperties
      <4>4. bad' # None
        BY <4>3, ParamFact
      <4>5. /\ Lying = {bad[k].id : k \in 1 .. Len(bad)}
            /\ Lying' = {bad'[k].id : k \in 1 .. Len(bad')}
        BY <3>3, <4>4 DEF Lying
      <4>6. Len(bad) + 1 \in 1 .. Len(bad') /\ \A k \in 1 .. Len(bad) : k \in 1 .. Len(bad')
        BY <4>3
      <4> QED
        BY <4>3, <4>5, <4>6
    <3> QED
      BY <3>2, <3>3
  <2>4. Away \cup {m.id} \subseteq Away'
    BY <2>1, <2>2, <2>3 DEF Away
  <2> QED
    BY <1>11, <1>12, <2>1, <2>2, <2>4
<1>27. Delete => KeptInv'
  <2> SUFFICES ASSUME Delete PROVE KeptInv'
    OBVIOUS
  <2>1. PICK k \in 1 .. data.num : Without(k)
    BY DeleteFact
  <2>2. /\ UNCHANGED <<pc, i, posted, bad, badqd, elsewhere, risk>>
        /\ pc \in {"idle", "bad", "badmove", "badnew", "badtoss"}
    BY DEF Delete, Held, Renaming, TypeOK
  <2>3. Readable \subseteq Readable' \cup {Msg(k).id}
    BY <2>1, DeleteReads
  <2>4. gone' = gone \cup {Msg(k).id}
    BY <2>1 DEF Without
  <2>5. Away \cup {Msg(k).id} \subseteq Away'
    BY <2>2, <2>4 DEF Away, Lying, Pending
  <2> QED
    BY <1>11, <1>12, <2>2, <2>3, <2>5
<1>28. ASSUME UNCHANGED <<conf, area, qd, pc, i, keep, badqd>>, today' >= today,
              Readable' = Readable, Away' = Away, posted' = posted, gone' = gone,
              elsewhere' = elsewhere
       PROVE  KeptInv'
  <2>1. BaseKept' /\ NewKept'
    BY <1>28 DEF BaseKept, NewKept, Moving
  <2>2. \A k : Msg(k)' = Msg(k)
    BY <1>28, SameFact
  <2>3. RunKept'
    BY <1>28, <2>2 DEF RunKept
  <2>4. ASSUME pc \in {"create", "copy"}, NEW k \in 1 .. data.num, Aged(conf, today, Msg(k))
        PROVE  Aged(conf, today', Msg(k))
    <3>1. Sound
      BY <2>4 DEF AtWork
    <3>2. Msg(k).day \in Nat
      BY <3>1, MsgFact
    <3>3. conf.days \in Nat /\ today \in Nat /\ today' \in Nat
      BY ParamFact DEF TypeOK, Conf
    <3> QED
      BY <1>28, <2>4, <3>2, <3>3 DEF Aged
  <2>5. MapKept'
    BY <1>28, <2>2, <2>4 DEF MapKept
  <2> QED
    BY <2>1, <2>3, <2>5 DEF KeptInv
<1>29. Midnight => KeptInv'
  <2> SUFFICES ASSUME Midnight PROVE KeptInv'
    OBVIOUS
  <2>1. Away' = Away /\ Readable' = Readable
    BY AwaySame, SameFact DEF Midnight, Pending
  <2>2. today' >= today
    BY DEF Midnight, TypeOK
  <2> QED
    BY <1>28, <2>1, <2>2 DEF Midnight
<1>30. Kill => KeptInv'
  <2> SUFFICES ASSUME Kill PROVE KeptInv'
    OBVIOUS
  <2>1. /\ pc' = "idle" /\ UNCHANGED <<area, posted, bad, elsewhere, gone>>
        /\ risk' = risk \cup Pending \cup
                 (IF pc \in {"movedata", "index", "moveindex"}
                  THEN Stored(data) \cup Stored(qd) ELSE {})
    BY DEF Kill
  <2>2. Readable' = Readable
    BY <2>1, SameFact
  <2>3. Away \subseteq Away' /\ risk' \subseteq Away'
    BY <2>1 DEF Away, Lying
  <2>4. posted' \subseteq Readable' \cup Away'
    <3>1. CASE pc \in {"movedata", "index", "moveindex"}
      <4>1. posted \subseteq Stored(qd) \cup Stored(data) \cup Away
        BY <3>1 DEF NewKept, Moving
      <4> QED
        BY <2>1, <2>3, <3>1, <4>1
    <3>2. CASE pc \in {"wipe", "wiperest"}
      BY <2>1, <2>3, <3>2 DEF NewKept
    <3>3. CASE pc \notin {"movedata", "index", "moveindex", "wipe", "wiperest"}
      BY <2>1, <2>2, <2>3, <3>3 DEF BaseKept
    <3> QED
      BY <3>1, <3>2, <3>3
  <2>5. BaseKept' /\ NewKept' /\ RunKept' /\ MapKept'
    BY <2>1, <2>4 DEF BaseKept, NewKept, RunKept, MapKept, Moving
  <2> QED
    BY <2>5 DEF KeptInv
<1>31. UNCHANGED vars => KeptInv'
  <2> SUFFICES ASSUME UNCHANGED vars PROVE KeptInv'
    OBVIOUS
  <2>1. Away' = Away /\ Readable' = Readable
    BY AwaySame, SameFact DEF vars, Pending
  <2>2. today' >= today
    BY DEF vars, TypeOK
  <2> QED
    BY <1>28, <2>1, <2>2 DEF vars
<1> QED
  BY <1>1, <1>2, <1>3, <1>4, <1>5, <1>6, <1>7, <1>8, <1>9, <1>10, <1>13, <1>14, <1>15, <1>16,
     <1>18, <1>19, <1>20, <1>21, <1>22, <1>23, <1>24, <1>25, <1>26, <1>27, <1>29, <1>30, <1>31
     DEF Next

-----------------------------------------------------------------------------
(* What waits in BadArea. *)

\* One more message in BadArea.
LEMMA LieDown ==
    ASSUME TypeOK, NEW m \in Message,
           bad' = (IF bad = None THEN <<m>> ELSE Append(bad, m))
    PROVE  \E n : /\ n \notin BadAt /\ BadAt' = BadAt \cup {n} /\ bad'[n] = m
                  /\ \A k \in BadAt : bad'[k] = bad[k]
<1>1. CASE bad = None
  <2>1. bad' = <<m>> /\ bad' \in Seq(Message) /\ Len(bad') = 1 /\ bad'[1] = m
    BY <1>1
  <2>2. bad' # None
    BY <2>1, ParamFact
  <2>3. BadAt = {} /\ BadAt' = {1}
    BY <1>1, <2>1, <2>2 DEF BadAt
  <2> QED
    BY <2>1, <2>3
<1>2. CASE bad # None
  <2>1. bad' = Append(bad, m) /\ bad \in Seq(Message)
    BY <1>2 DEF TypeOK
  <2>2. /\ bad' \in Seq(Message) /\ Len(bad') = Len(bad) + 1 /\ bad'[Len(bad) + 1] = m
        /\ Len(bad) \in Nat /\ \A k \in 1 .. Len(bad) : bad'[k] = bad[k]
    BY <2>1, AppendProperties
  <2>3. bad' # None
    BY <2>2, ParamFact
  <2>4. BadAt = 1 .. Len(bad) /\ BadAt' = 1 .. Len(bad) + 1
    BY <1>2, <2>2, <2>3 DEF BadAt
  <2>5. Len(bad) + 1 \notin BadAt /\ BadAt' = BadAt \cup {Len(bad) + 1}
    BY <2>2, <2>4
  <2> QED
    BY <2>2, <2>4, <2>5
<1> QED
  BY <1>1, <1>2

\* A message that is new here is the next.
LEMMA NextId ==
    ASSUME TypeOK, BadInv, NEW n, n = Cardinality(posted) + 1, Cardinality(posted) < MaxId,
           posted' = posted \cup {n}
    PROVE  /\ n \in Ids \ posted /\ known[n] = 0
           /\ posted' = 1 .. Cardinality(posted')
<1>1. IsFiniteSet(posted) /\ Cardinality(posted) \in Nat /\ MaxId \in Nat
  BY CountFact, ParamFact
<1>2. posted = 1 .. Cardinality(posted)
  BY DEF BadInv
<1>3. n \in Ids /\ n \notin 1 .. Cardinality(posted)
  BY <1>1 DEF Ids
<1>4. Cardinality(posted') = Cardinality(posted) + 1
  BY <1>1, <1>2, <1>3, FS_AddElement
<1>5. 1 .. Cardinality(posted) + 1 = (1 .. Cardinality(posted)) \cup {n}
  BY <1>1
<1> QED
  BY <1>2, <1>3, <1>4, <1>5 DEF BadInv

LEMMA NumberFact ==
    ASSUME TypeOK, NEW m, m.id \in Ids, NEW u \in Nat, known' = Number(m, u)
    PROVE  /\ \A o \in Ids : o # m.id => known'[o] = known[o]
           /\ known'[m.id] = IF known[m.id] = 0 THEN u ELSE known[m.id]
BY DEF Number, TypeOK

\* Messages get into BadArea new and once, and leave it before they are numbered.
LEMMA BadStep ==
    ASSUME TypeOK, TypeOK', AtWork, BadInv, [Next]_vars
    PROVE  BadInv'
<1>1. ASSUME posted' = posted, \A m \in Ids \ posted : known'[m] = known[m],
             BadAt' \subseteq BadAt, PendingAt' \subseteq PendingAt,
             \A k \in BadAt' : bad'[k] = bad[k] /\ known'[bad[k].id] = known[bad[k].id],
             \A k \in PendingAt' : badqd'[k] = badqd[k] /\ known'[badqd[k].id] = known[badqd[k].id]
      PROVE  BadInv'
  <2>1. posted' = 1 .. Cardinality(posted') /\ \A m \in Ids \ posted' : known'[m] = 0
    BY <1>1 DEF BadInv
  <2>2. /\ \A k \in BadAt' : known'[bad'[k].id] = 0 /\ bad'[k].id \in posted'
        /\ \A j, k \in BadAt' : j # k => bad'[j].id # bad'[k].id
    BY <1>1 DEF BadInv
  <2>3. /\ \A k \in PendingAt' : known'[badqd'[k].id] = 0 /\ badqd'[k].id \in posted'
        /\ \A j, k \in PendingAt' : j # k => badqd'[j].id # badqd'[k].id
    BY <1>1 DEF BadInv
  <2>4. \A j \in BadAt', k \in PendingAt' : bad'[j].id # badqd'[k].id
    BY <1>1 DEF BadInv
  <2> QED
    BY <2>1, <2>2, <2>3, <2>4 DEF BadInv
<1>2. ASSUME UNCHANGED <<posted, known, bad, badqd>>, PendingAt' \subseteq PendingAt
      PROVE  BadInv'
  <2>1. BadAt' = BadAt
    BY <1>2 DEF BadAt
  <2> QED
    BY <1>1, <1>2, <2>1
<1>3. Purge => BadInv'
  BY <1>2 DEF Purge, PendingAt
<1>4. Create => BadInv'
  BY <1>2 DEF Create, PendingAt
<1>5. Copy => BadInv'
  BY <1>2 DEF Copy, PendingAt
<1>6. Close => BadInv'
  BY <1>2 DEF Close, PendingAt
<1>7. Wipe => BadInv'
  BY <1>2 DEF Wipe, PendingAt
<1>8. WipeRest => BadInv'
  BY <1>2 DEF WipeRest, PendingAt
<1>9. UnlinkData => BadInv'
  BY <1>2 DEF UnlinkData, PendingAt
<1>10. MoveData => BadInv'
  BY <1>2 DEF MoveData, PendingAt
<1>11. UnlinkIndex => BadInv'
  BY <1>2 DEF UnlinkIndex, PendingAt
<1>12. MoveIndex => BadInv'
  BY <1>2 DEF MoveIndex, PendingAt
<1>13. TossBad => BadInv'
  BY <1>2 DEF TossBad, PendingAt
<1>14. UnlinkBad => BadInv'
  <2> SUFFICES ASSUME UnlinkBad PROVE BadInv'
    OBVIOUS
  <2>1. UNCHANGED <<posted, known, bad>> /\ PendingAt' = {} /\ BadAt' = BadAt
    BY DEF UnlinkBad, PendingAt, BadAt
  <2> QED
    BY <1>1, <2>1
<1>15. MoveBad => BadInv'
  <2> SUFFICES ASSUME MoveBad PROVE BadInv'
    OBVIOUS
  <2>1. UNCHANGED <<posted, known>> /\ badqd' = bad /\ bad # None /\ BadAt' = {}
    BY DEF MoveBad, AtWork, BadAt
  <2>2. PendingAt' = BadAt
    BY <2>1 DEF MoveBad, PendingAt, BadAt
  <2> QED
    BY <2>1, <2>2 DEF BadInv
<1>16. NewBad => BadInv'
  <2> SUFFICES ASSUME NewBad PROVE BadInv'
    OBVIOUS
  <2>1. UNCHANGED <<posted, known, badqd>> /\ bad' = <<>> /\ pc = "badnew" /\ pc' = "badtoss" /\ i' = 1
    BY DEF NewBad
  <2>2. PendingAt' = PendingAt /\ BadAt' = {}
    <3>1. Len(<<>>) = 0
      OBVIOUS
    <3> QED
      BY <2>1, <3>1 DEF PendingAt, BadAt
  <2> QED
    BY <1>1, <2>1, <2>2
<1>17. ASSUME pc = "badtoss", i <= Len(badqd), i' = i + 1, UNCHANGED <<pc, badqd>>
       PROVE  i \in PendingAt /\ PendingAt' = PendingAt \ {i}
  <2>1. Len(badqd) \in Nat /\ i \in 1 .. Len(badqd)
    BY <1>17, BadFact
  <2>2. (i + 1) .. Len(badqd) = (i .. Len(badqd)) \ {i} /\ i \in i .. Len(badqd)
    BY <2>1
  <2> QED
    BY <1>17, <2>2 DEF PendingAt
<1>18. StillBad => BadInv'
  <2> SUFFICES ASSUME StillBad PROVE BadInv'
    OBVIOUS
  <2>1. /\ pc = "badtoss" /\ i <= Len(badqd) /\ i' = i + 1 /\ bad' = Append(bad, badqd[i])
        /\ UNCHANGED <<pc, badqd, posted, known>>
    BY DEF StillBad, NextBad
  <2>2. bad # None /\ badqd[i] \in Message
    BY <2>1, BadFact, ParamFact
  <2>3. i \in PendingAt /\ PendingAt' = PendingAt \ {i}
    BY <1>17, <2>1
  <2>4. PICK n : /\ n \notin BadAt /\ BadAt' = BadAt \cup {n} /\ bad'[n] = badqd[i]
                 /\ \A k \in BadAt : bad'[k] = bad[k]
    BY <2>1, <2>2, LieDown
  <2>5. /\ \A k \in BadAt : known[bad[k].id] = 0 /\ bad[k].id \in posted
        /\ \A k \in PendingAt : known[badqd[k].id] = 0 /\ badqd[k].id \in posted
        /\ \A j, k \in BadAt : j # k => bad[j].id # bad[k].id
        /\ \A j, k \in PendingAt : j # k => badqd[j].id # badqd[k].id
        /\ \A j \in BadAt, k \in PendingAt : bad[j].id # badqd[k].id
        /\ posted = 1 .. Cardinality(posted) /\ \A m \in Ids \ posted : known[m] = 0
    BY DEF BadInv
  <2>6. \A k \in BadAt' : known[bad'[k].id] = 0 /\ bad'[k].id \in posted
    BY <2>3, <2>4, <2>5
  <2>7. \A k \in PendingAt' : known[badqd[k].id] = 0 /\ badqd[k].id \in posted
    BY <2>3, <2>5
  <2>8. ASSUME NEW j \in BadAt', NEW k \in BadAt', j # k PROVE bad'[j].id # bad'[k].id
    <3>1. CASE j = n
      BY <2>3, <2>4, <2>5, <2>8, <3>1
    <3>2. CASE k = n
      BY <2>3, <2>4, <2>5, <2>8, <3>2
    <3>3. CASE j # n /\ k # n
      BY <2>4, <2>5, <2>8, <3>3
    <3> QED
      BY <3>1, <3>2, <3>3
  <2>9. \A j, k \in PendingAt' : j # k => badqd[j].id # badqd[k].id
    BY <2>3, <2>5
  <2>10. ASSUME NEW j \in BadAt', NEW k \in PendingAt' PROVE bad'[j].id # badqd[k].id
    <3>1. CASE j = n
      BY <2>3, <2>4, <2>5, <3>1
    <3>2. CASE j # n
      BY <2>3, <2>4, <2>5, <3>2
    <3> QED
      BY <3>1, <3>2
  <2> QED
    BY <2>1, <2>5, <2>6, <2>7, <2>8, <2>9, <2>10 DEF BadInv
<1>19. Aside => BadInv'
  <2> SUFFICES ASSUME Aside PROVE BadInv'
    OBVIOUS
  <2>1. PendingAt' = PendingAt \ {i}
    BY <1>17 DEF Aside, NextBad
  <2> QED
    BY <1>2, <2>1 DEF Aside, NextBad
<1>20. Fits => BadInv'
  <2> SUFFICES ASSUME Fits PROVE BadInv'
    OBVIOUS
  <2>1. /\ i \in PendingAt /\ PendingAt' = PendingAt \ {i} /\ BadAt' = BadAt
        /\ UNCHANGED <<posted, bad, badqd>>
    BY <1>17 DEF Fits, NextBad, BadAt
  <2>2. /\ badqd[i].id \in posted /\ posted \subseteq Ids
    BY <2>1 DEF BadInv, TypeOK
  <2>3. Opened.d.next \in Nat /\ known' = Number(badqd[i], Opened.d.next)
    BY OpenedFact DEF DataFile, Fits
  <2>4. \A o \in Ids : o # badqd[i].id => known'[o] = known[o]
    BY <2>2, <2>3, NumberFact
  <2>5. \A k \in BadAt : bad[k].id \in Ids /\ bad[k].id # badqd[i].id
    BY <2>1, <2>2 DEF BadInv
  <2>6. \A k \in PendingAt' : badqd[k].id \in Ids /\ badqd[k].id # badqd[i].id
    BY <2>1, <2>2 DEF BadInv
  <2>7. \A o \in Ids \ posted : known'[o] = known[o]
    BY <2>2, <2>4
  <2> QED
    BY <1>1, <2>1, <2>4, <2>5, <2>6, <2>7
<1>21. BadDone => BadInv'
  <2> SUFFICES ASSUME BadDone PROVE BadInv'
    OBVIOUS
  <2>1. UNCHANGED <<posted, known, bad>> /\ PendingAt' = {} /\ BadAt' = BadAt
    BY DEF BadDone, PendingAt, BadAt
  <2> QED
    BY <1>1, <2>1
<1>22. UnToss => BadInv'
  BY <1>2 DEF UnToss, PendingAt
<1>23. Text => BadInv'
  BY <1>2 DEF Text, PendingAt
<1>24. Untossed => BadInv'
  BY <1>2 DEF Untossed, PendingAt
<1>25. Post => BadInv'
  <2> SUFFICES ASSUME Post PROVE BadInv'
    OBVIOUS
  <2>1. PICK m \in Message : /\ Putting(m) /\ m.id = Cardinality(posted) + 1
                             /\ posted' = posted \cup {m.id}
    BY PostFact
  <2>2. /\ m.id \in Ids \ posted /\ known[m.id] = 0 /\ posted' = 1 .. Cardinality(posted')
    BY <2>1, NextId DEF Post
  <2>3. \A o \in Ids : o # m.id => known'[o] = known[o]
    <3>1. known' = Number(m, Opened.d.next) /\ Opened.d.next \in Nat
      BY <2>1, OpenedFact DEF Putting, DataFile
    <3> QED
      BY <2>2, <3>1, NumberFact
  <2>4. UNCHANGED <<bad, badqd>> /\ BadAt' = BadAt /\ PendingAt' = PendingAt
    BY DEF Post, BadAt, PendingAt
  <2>5. \A m2 \in Ids \ posted' : known'[m2] = 0
    BY <2>1, <2>3 DEF BadInv
  <2>6. \A o \in posted : o \in posted' /\ known'[o] = known[o]
    BY <2>1, <2>2, <2>3 DEF TypeOK
  <2>7. /\ \A k \in BadAt : known'[bad[k].id] = 0 /\ bad[k].id \in posted'
        /\ \A k \in PendingAt : known'[badqd[k].id] = 0 /\ badqd[k].id \in posted'
    BY <2>6 DEF BadInv
  <2>8. /\ \A j, k \in BadAt : j # k => bad[j].id # bad[k].id
        /\ \A j, k \in PendingAt : j # k => badqd[j].id # badqd[k].id
        /\ \A j \in BadAt, k \in PendingAt : bad[j].id # badqd[k].id
    BY DEF BadInv
  <2> QED
    BY <2>2, <2>4, <2>5, <2>7, <2>8 DEF BadInv
<1>26. PostBad => BadInv'
  <2> SUFFICES ASSUME PostBad PROVE BadInv'
    OBVIOUS
  <2> DEFINE m == [id |-> Cardinality(posted) + 1, day |-> today]
  <2>1. m \in Message /\ m.id = Cardinality(posted) + 1
    BY CountFact, ParamFact DEF PostBad, TypeOK, Message, Ids
  <2>2. /\ posted' = posted \cup {m.id} /\ Cardinality(posted) < MaxId /\ known' = known
        /\ bad' = (IF bad = None THEN <<m>> ELSE Append(bad, m))
        /\ PendingAt' = {}
    BY DEF PostBad, PendingAt
  <2> HIDE DEF m
  <2>3. /\ m.id \in Ids \ posted /\ known[m.id] = 0 /\ posted' = 1 .. Cardinality(posted')
    BY <2>1, <2>2, NextId
  <2>4. PICK n : /\ n \notin BadAt /\ BadAt' = BadAt \cup {n} /\ bad'[n] = m
                 /\ \A k \in BadAt : bad'[k] = bad[k]
    BY <2>1, <2>2, LieDown
  <2>5. \A k \in BadAt' : known'[bad'[k].id] = 0 /\ bad'[k].id \in posted'
    BY <2>2, <2>3, <2>4 DEF BadInv
  <2>6. ASSUME NEW j \in BadAt', NEW k \in BadAt', j # k PROVE bad'[j].id # bad'[k].id
    <3>0. /\ \A o \in BadAt : bad[o].id \in posted
          /\ \A o, q \in BadAt : o # q => bad[o].id # bad[q].id
      BY DEF BadInv
    <3>1. CASE j = n
      BY <2>3, <2>4, <2>6, <3>0, <3>1
    <3>2. CASE k = n
      BY <2>3, <2>4, <2>6, <3>0, <3>2
    <3>3. CASE j # n /\ k # n
      BY <2>4, <2>6, <3>0, <3>3
    <3> QED
      BY <3>1, <3>2, <3>3
  <2>7. \A m2 \in Ids \ posted' : known'[m2] = 0
    BY <2>2 DEF BadInv
  <2> QED
    BY <2>2, <2>3, <2>5, <2>6, <2>7 DEF BadInv
<1>27. Delete => BadInv'
  BY <1>2 DEF Delete, PendingAt
<1>28. Midnight => BadInv'
  BY <1>2 DEF Midnight, PendingAt
<1>29. Kill => BadInv'
  <2> SUFFICES ASSUME Kill PROVE BadInv'
    OBVIOUS
  <2>1. UNCHANGED <<posted, known, bad, badqd>> /\ PendingAt' = {}
    BY DEF Kill, PendingAt
  <2> QED
    BY <1>2, <2>1
<1>30. UNCHANGED vars => BadInv'
  BY <1>2 DEF vars, PendingAt
<1> QED
  BY <1>3, <1>4, <1>5, <1>6, <1>7, <1>8, <1>9, <1>10, <1>11, <1>12, <1>13, <1>14, <1>15, <1>16,
     <1>18, <1>19, <1>20, <1>21, <1>22, <1>23, <1>24, <1>25, <1>26, <1>27, <1>28, <1>29, <1>30
     DEF Next

-----------------------------------------------------------------------------
(* The numbers. *)

\* A number stays right when others are given or more is at risk.
LEMMA RightMore ==
    ASSUME NEW d \in DataFile, NEW x, NEW r, NEW r2, NEW kn, NEW kn2,
           r \subseteq r2, \A m \in Ids : kn[m] # 0 => kn2[m] = kn[m],
           Right(d, x, r, kn)
    PROVE  Right(d, x, r2, kn2)
<1> SUFFICES ASSUME NEW k \in 1 .. d.num, k \in 1 .. Len(x),
                    x[k].at \in 1 .. Len(d.frames), d.frames[x[k].at] # Hole
             PROVE  RightOne(d.frames[x[k].at].id, x[k].uid, r2, kn2)
  BY DEF Right
<1>1. RightOne(d.frames[x[k].at].id, x[k].uid, r, kn)
  BY DEF Right
<1>2. d.frames[x[k].at].id \in Ids
  BY DEF DataFile, Message
<1>3. Half # 0 /\ ~(0 >= Half)
  BY ParamFact
<1> QED
  BY <1>1, <1>2, <1>3 DEF RightOne

\* Nothing is wrong with the numbers of messages that are at risk.
LEMMA RightRisk ==
    ASSUME NEW d \in DataFile, NEW x, NEW r, NEW kn, Stored(d) \subseteq r
    PROVE  Right(d, x, r, kn)
<1> SUFFICES ASSUME NEW k \in 1 .. d.num, k \in 1 .. Len(x),
                    x[k].at \in 1 .. Len(d.frames), d.frames[x[k].at] # Hole
             PROVE  d.frames[x[k].at].id \in r
  BY DEF Right, RightOne
<1>1. d.frames[x[k].at].id \in Ids
  BY DEF DataFile, Message
<1>2. d.frames[x[k].at].id # 0
  BY <1>1 DEF Ids
<1>3. d # None
  BY ParamFact
<1> QED
  BY <1>2, <1>3 DEF Stored

LEMMA OpenedNext ==
    ASSUME TypeOK, NumInv
    PROVE  Opened.d.next \in Nat /\ Opened.d.next > 0
<1>1. NewData.next = 1
  BY DEF NewData
<1> QED
  BY <1>1, OpenedFact DEF NumInv, DataFile

\* A message that is stored for the first time gets a number, that of its entry.
LEMMA PuttingRight ==
    ASSUME TypeOK, NumInv, NEW m, Putting(m), known[m.id] = 0,
           Right(Opened.d, Opened.x, risk, known),
           risk \subseteq risk', Sound \/ data = None \/ m.id \in risk'
    PROVE  Right(data', index', risk', known') /\ data'.next > 0
<1>1. PICK at \in Places(Opened.d) :
         Written(Opened.d, Opened.x, m, Opened.d.next, at, [d |-> data', x |-> index'])
  BY PuttingFact
<1> DEFINE d == Opened.d
           x == Opened.x
<1>2. /\ data' \in DataFile /\ d.num \in Nat /\ data'.num = d.num + 1
      /\ data'.next = d.next + 1 /\ Len(x) \in Nat /\ Len(index') = d.num + 1
      /\ \A k \in 1 .. d.num : index'[k] = x[k]
      /\ index'[d.num + 1] = Entry(at, d.next)
      /\ Len(d.frames) \in Nat /\ at \in 1 .. Len(data'.frames) /\ data'.frames[at] = m
      /\ Len(data'.frames) = IF at > Len(d.frames) THEN Len(d.frames) + 1 ELSE Len(d.frames)
      /\ \A k \in 1 .. Len(d.frames) : k # at => data'.frames[k] = d.frames[k]
      /\ at \in Nat /\ (at <= Len(d.frames) => d.frames[at] = Hole)
  BY <1>1 DEF Written
<1>3. d.next \in Nat /\ d.next > 0
  BY OpenedNext
<1>4. /\ d = (IF data = None THEN NewData ELSE data) /\ d \in DataFile /\ x \in IndexFile
      /\ x = (IF index = None THEN <<>> ELSE index)
  BY OpenedFact
<1>5. m \in Message /\ m.id \in Ids /\ d.num <= Len(x) /\ known' = Number(m, d.next)
  BY DEF Putting, Message
<1>6. at = Len(d.frames) + 1 \/ at \in 1 .. Len(d.frames)
  BY DEF Places
<1>7. Right(d, x, risk, known)
  OBVIOUS
<1> HIDE DEF d, x
<1>8. (\A o \in Ids : o # m.id => known'[o] = known[o]) /\ known'[m.id] = d.next
  BY <1>3, <1>5, NumberFact
<1>9. Right(d, x, risk', known')
  <2>1. \A o \in Ids : known[o] # 0 => known'[o] = known[o]
    BY <1>8
  <2> QED
    BY <1>4, <1>7, <2>1, RightMore
<1>10. ASSUME NEW k \in 1 .. data'.num, k \in 1 .. Len(index'),
              index'[k].at \in 1 .. Len(data'.frames), data'.frames[index'[k].at] # Hole
       PROVE  RightOne(data'.frames[index'[k].at].id, index'[k].uid, risk', known')
  <2>1. CASE k = d.num + 1
    <3>1. index'[k].at = at /\ index'[k].uid = d.next
      BY <1>2, <2>1 DEF Entry
    <3> QED
      BY <1>2, <1>3, <1>8, <3>1 DEF RightOne
  <2>2. CASE k \in 1 .. d.num /\ x[k].at # at
    <3>1. k \in 1 .. Len(x) /\ index'[k] = x[k]
      BY <1>2, <1>5, <2>2
    <3>2. x[k] \in [at : Nat \ {0}, uid : Nat]
      BY <1>4, <3>1, ElementOfSeq DEF IndexFile
    <3>3. x[k].at \in 1 .. Len(d.frames)
      BY <1>2, <1>6, <1>10, <2>2, <3>1, <3>2
    <3>4. data'.frames[x[k].at] = d.frames[x[k].at]
      BY <1>2, <2>2, <3>3
    <3> QED
      BY <1>9, <1>10, <2>2, <3>1, <3>3, <3>4 DEF Right
  <2>3. CASE k \in 1 .. d.num /\ x[k].at = at
    <3>1. index'[k] = x[k]
      BY <1>2, <2>3
    <3>2. data # None
      BY <1>2, <1>4, <2>3 DEF NewData
    <3>3. ~Sound
      <4> SUFFICES ASSUME Sound PROVE FALSE
        OBVIOUS
      <4>1. d = data /\ x = index
        BY <1>4 DEF Sound
      <4>2. x[k].at <= Len(d.frames) /\ d.frames[x[k].at] # Hole
        BY <2>3, <4>1 DEF Sound
      <4> QED
        BY <1>2, <2>3, <4>2
    <3>4. m.id \in risk'
      BY <3>2, <3>3
    <3> QED
      BY <1>2, <2>3, <3>1, <3>4 DEF RightOne
  <2> QED
    BY <1>2, <2>1, <2>2, <2>3
<1>11. data'.next > 0
  BY <1>2, <1>3
<1> QED
  BY <1>10, <1>11 DEF Right

\* A copied message keeps its number, where that fits.
LEMMA CopyRight ==
    ASSUME TypeOK, AtWork, NumInv, Copy
    PROVE  Right(qd', qi', risk, known) /\ qd'.next > 0
<1>0. /\ Right(qd, qi, risk, known) /\ Right(data, index, risk, known) /\ qd # None /\ qd.next > 0
  <2>1. pc = "copy" /\ Sound /\ qd # None
    BY CopyFact DEF Copy, AtWork
  <2>2. Opened.d = data /\ Opened.x = index
    BY <2>1 DEF Opened, Sound
  <2> QED
    BY <2>1, <2>2 DEF NumInv, Moving
<1>1. CASE ~Wanted(Msg(i))
  BY <1>0, <1>1 DEF Copy
<1>2. CASE Wanted(Msg(i))
  <2> DEFINE p == Copied(Msg(i))
             u == index[i].uid
  <2>1. qd' = p.d /\ qi' = p.x
    BY <1>2 DEF Copy
  <2>2. Written(qd, qi, Msg(i), Rehwm(u), qd.num + 1, p)
    BY CopyFact
  <2>3. /\ qd.num \in Nat /\ Len(qi) = qd.num /\ Len(qd.frames) = qd.num /\ Dense(qd, qi)
        /\ Msg(i) \in Message /\ u \in Nat /\ Sound /\ i \in 1 .. data.num
    BY CopyFact
  <2>4. Rehwm(u) \in Nat /\ (u < Half => Rehwm(u) = u)
    BY <2>3, RehwmFact
  <2>5. RightOne(Msg(i).id, u, risk, known)
    <3>1. i \in 1 .. Len(index) /\ index[i].at \in 1 .. Len(data.frames)
      BY <2>3, MsgFact
    <3>2. data.frames[index[i].at] # Hole /\ data.frames[index[i].at] = Msg(i)
      BY <2>3 DEF Sound, Msg
    <3> QED
      BY <1>0, <2>3, <3>1, <3>2 DEF Right
  <2>6. RightOne(Msg(i).id, Rehwm(u), risk, known)
    <3>1. known[Msg(i).id] \in Nat /\ Half \in Nat
      BY <2>3, ParamFact DEF TypeOK, Message
    <3> QED
      BY <2>4, <2>5, <3>1 DEF RightOne
  <2> HIDE DEF p, u
  <2>7. /\ p.d.num = qd.num + 1 /\ p.d.next = Rehwm(u) + 1 /\ Len(p.x) = qd.num + 1
        /\ (\A k \in 1 .. qd.num : p.x[k] = qi[k] /\ p.d.frames[k] = qd.frames[k])
        /\ p.x[qd.num + 1] = Entry(qd.num + 1, Rehwm(u)) /\ p.d.frames[qd.num + 1] = Msg(i)
    <3>1. /\ p.d.num = qd.num + 1 /\ p.d.next = Rehwm(u) + 1 /\ Len(p.x) = qd.num + 1
          /\ p.x[qd.num + 1] = Entry(qd.num + 1, Rehwm(u))
          /\ p.d.frames[qd.num + 1] = Msg(i) /\ \A k \in 1 .. qd.num : p.x[k] = qi[k]
          /\ \A k \in 1 .. Len(qd.frames) : k # qd.num + 1 => p.d.frames[k] = qd.frames[k]
      BY <2>2 DEF Written
    <3>2. \A k \in 1 .. qd.num : k \in 1 .. Len(qd.frames) /\ k # qd.num + 1
      BY <2>3
    <3> QED
      BY <3>1, <3>2
  <2>8. ASSUME NEW k \in 1 .. p.d.num, k \in 1 .. Len(p.x), p.d.frames[p.x[k].at] # Hole
        PROVE  RightOne(p.d.frames[p.x[k].at].id, p.x[k].uid, risk, known)
    <3>1. CASE k = qd.num + 1
      BY <2>6, <2>7, <3>1 DEF Entry
    <3>2. CASE k \in 1 .. qd.num
      <4>1. qi[k].at = k /\ qd.frames[k] # Hole /\ k \in 1 .. Len(qi) /\ k \in 1 .. Len(qd.frames)
        BY <2>3, <3>2 DEF Dense
      <4>2. RightOne(qd.frames[k].id, qi[k].uid, risk, known)
        BY <1>0, <3>2, <4>1 DEF Right
      <4> QED
        BY <2>7, <3>2, <4>1, <4>2
    <3> QED
      BY <2>3, <2>7, <3>1, <3>2
  <2>9. p.d.next > 0
    BY <2>4, <2>7
  <2> QED
    BY <2>1, <2>8, <2>9 DEF Right
<1> QED
  BY <1>1, <1>2

\* What a reader leaves keeps its numbers.
LEMMA DeleteRight ==
    ASSUME TypeOK, Delete, Right(data, index, risk, known), data.next > 0
    PROVE  Right(data', index', risk, known) /\ data'.next > 0
<1>1. PICK k \in 1 .. data.num : Without(k)
  BY DeleteFact
<1>2. Sound /\ data.num \in Nat /\ data'.num = data.num - 1 /\ data'.next = data.next
  BY <1>1 DEF Delete, Without
<1>3. ASSUME NEW j \in 1 .. data'.num
      PROVE  RightOne(data'.frames[index'[j].at].id, index'[j].uid, risk, known)
  <2>1. /\ Moved(j, k) \in 1 .. data.num /\ index'[j] = index[Moved(j, k)]
        /\ Msg(j)' = Msg(Moved(j, k))
    BY <1>1, <1>2 DEF Without
  <2>2. /\ Moved(j, k) \in 1 .. Len(index) /\ index[Moved(j, k)].at \in 1 .. Len(data.frames)
        /\ Msg(Moved(j, k)) # Hole
    BY <1>2, <2>1, MsgFact, HoleFact
  <2>3. RightOne(Msg(Moved(j, k)).id, index[Moved(j, k)].uid, risk, known)
    BY <2>1, <2>2 DEF Right, Msg
  <2> QED
    BY <2>1, <2>3 DEF Msg
<1> QED
  BY <1>2, <1>3 DEF Right

\* Every step keeps the numbers right.
LEMMA NumStep ==
    ASSUME TypeOK, TypeOK', AtWork, BadInv, NumInv, [Next]_vars
    PROVE  NumInv'
<1>1. ASSUME UNCHANGED <<data, index, known, risk>>, ~Moving, ~Moving', qd' \in {None, qd},
             pc' \in {"copy", "data", "movedata"} =>
                 pc \in {"copy", "data", "movedata"} /\ UNCHANGED <<qd, qi>>
      PROVE  NumInv'
  <2>1. Opened' = Opened
    BY <1>1 DEF Opened
  <2> QED
    BY <1>1, <2>1 DEF NumInv
<1>2. Purge => NumInv'
  BY <1>1 DEF Purge, Moving
<1>3. Create => NumInv'
  <2> SUFFICES ASSUME Create PROVE NumInv'
    OBVIOUS
  <2>1. /\ UNCHANGED <<data, index, known, risk>> /\ pc = "create" /\ pc' = "copy"
        /\ qd' = [frames |-> <<>>, num |-> 0, next |-> data.next]
    BY DEF Create
  <2>2. Opened' = Opened /\ data # None
    BY <2>1 DEF Opened, AtWork, Sound
  <2>3. Right(qd', qi', risk', known') /\ qd'.next > 0
    BY <2>1, <2>2 DEF Right, NumInv
  <2> QED
    BY <2>1, <2>2, <2>3 DEF NumInv, Moving
<1>4. Copy => NumInv'
  <2> SUFFICES ASSUME Copy PROVE NumInv'
    OBVIOUS
  <2>1. UNCHANGED <<data, index, known, risk>> /\ pc = "copy" /\ pc' = "copy" /\ Opened' = Opened
    BY DEF Copy, Opened
  <2>2. Right(qd', qi', risk', known') /\ qd'.next > 0
    BY <2>1, CopyRight
  <2> QED
    BY <2>1, <2>2 DEF NumInv, Moving
<1>5. Close => NumInv'
  BY <1>1 DEF Close, Moving
<1>6. ASSUME data' = None PROVE Right(Opened'.d, Opened'.x, risk', known')
  <2>1. Opened'.d.num = 0
    BY <1>6 DEF Opened, NewData
  <2> QED
    BY <2>1 DEF Right
<1>7. Wipe => NumInv'
  BY <1>6 DEF Wipe, NumInv, Moving
<1>8. WipeRest => NumInv'
  <2> SUFFICES ASSUME WipeRest PROVE NumInv'
    OBVIOUS
  <2>1. index' = None /\ data' = data /\ qd' = None /\ pc' = "idle"
    BY DEF WipeRest
  <2>2. Opened'.x = <<>> /\ Len(<<>>) = 0
    BY <2>1 DEF Opened
  <2>3. Right(Opened'.d, Opened'.x, risk', known')
    BY <2>2 DEF Right
  <2> QED
    BY <2>1, <2>3 DEF NumInv, Moving
<1>9. UnlinkData => NumInv'
  BY <1>6 DEF UnlinkData, NumInv, Moving
<1>10. MoveData => NumInv'
  BY DEF MoveData, NumInv, Moving
<1>11. UnlinkIndex => NumInv'
  BY DEF UnlinkIndex, NumInv, Moving
<1>12. MoveIndex => NumInv'
  <2> SUFFICES ASSUME MoveIndex PROVE NumInv'
    OBVIOUS
  <2>1. /\ data' = data /\ index' = qi /\ qd' = qd /\ pc' = "idle" /\ pc = "moveindex"
        /\ UNCHANGED <<risk, known>> /\ data # None /\ qi # None
    BY DEF MoveIndex, AtWork, Moving
  <2>2. Opened'.d = data /\ Opened'.x = qi
    BY <2>1 DEF Opened
  <2> QED
    BY <2>1, <2>2 DEF NumInv, Moving
<1>13. TossBad => NumInv'
  BY <1>1 DEF TossBad, Moving
<1>14. UnlinkBad => NumInv'
  BY <1>1 DEF UnlinkBad, Moving
<1>15. MoveBad => NumInv'
  BY <1>1 DEF MoveBad, Moving
<1>16. NewBad => NumInv'
  BY <1>1 DEF NewBad, Moving
<1>17. StillBad => NumInv'
  BY <1>1 DEF StillBad, NextBad, Moving
<1>18. Aside => NumInv'
  BY <1>1 DEF Aside, NextBad, Moving
<1>19. Fits => NumInv'
  <2> SUFFICES ASSUME Fits PROVE NumInv'
    OBVIOUS
  <2>1. pc = "badtoss" /\ pc' = "badtoss" /\ UNCHANGED qd
    BY DEF Fits, NextBad
  <2>2. Putting(badqd[i]) /\ risk \subseteq risk' /\ (Sound \/ data = None \/ badqd[i].id \in risk')
    BY FitsFact
  <2>3. known[badqd[i].id] = 0
    <3>1. i \in i .. Len(badqd)
      BY <2>1, BadFact DEF Fits
    <3> QED
      BY <2>1, <3>1 DEF BadInv, PendingAt
  <2>4. Right(data', index', risk', known') /\ data'.next > 0
    BY <2>1, <2>2, <2>3, PuttingRight DEF NumInv, Moving
  <2>5. Opened'.d = data' /\ Opened'.x = index'
    BY <2>2, PuttingStored DEF Opened
  <2> QED
    BY <2>1, <2>4, <2>5 DEF NumInv, Moving
<1>20. BadDone => NumInv'
  BY <1>1 DEF BadDone, Moving
<1>21. UnToss => NumInv'
  BY <1>1 DEF UnToss, Moving
<1>22. Text => NumInv'
  BY <1>1 DEF Text, Moving
<1>23. Untossed => NumInv'
  <2> SUFFICES ASSUME Untossed PROVE NumInv'
    OBVIOUS
  <2>1. CASE UNCHANGED area
    BY <1>1, <2>1 DEF Untossed, Moving
  <2>2. CASE data' = [frames |-> <<>>, num |-> 0, next |-> data.next] /\ index' = <<>>
    <3>1. data # None /\ pc = "untoss" /\ pc' = "idle" /\ qd' = qd
      BY DEF Untossed, AtWork, Sound
    <3>2. data' # None
      <4>1. data' \in DataFile
        BY <2>2, <3>1 DEF TypeOK, DataFile
      <4> QED
        BY <4>1, ParamFact
    <3>3. Opened'.d = data'
      BY <3>2 DEF Opened
    <3>4. Right(Opened'.d, Opened'.x, risk', known') /\ data'.next > 0
      BY <2>2, <3>1, <3>3 DEF Right, NumInv
    <3> QED
      BY <3>1, <3>4 DEF NumInv, Moving
  <2> QED
    BY <2>1, <2>2 DEF Untossed
<1>24. Post => NumInv'
  <2> SUFFICES ASSUME Post PROVE NumInv'
    OBVIOUS
  <2>1. PICK m \in Message :
           /\ Putting(m) /\ posted' = posted \cup {m.id} /\ m.id = Cardinality(posted) + 1
           /\ Renaming \/ ~(Sound \/ data = None) => m.id \in risk'
           /\ Moving => Stored(data) \subseteq risk'
           /\ risk \subseteq risk'
    BY PostFact
  <2>2. UNCHANGED <<pc, qd, qi>>
    BY DEF Post
  <2>3. m.id \in Ids /\ known[m.id] = 0
    BY <2>1, NextId DEF Post
  <2>4. data' # None /\ index' # None /\ Stored(data') \subseteq Stored(data) \cup {m.id}
    BY <2>1, PuttingStored
  <2>5. Opened'.d = data' /\ Opened'.x = index'
    BY <2>4 DEF Opened
  <2>6. \A o \in Ids : known[o] # 0 => known'[o] = known[o]
    <3>1. known' = Number(m, Opened.d.next) /\ Opened.d.next \in Nat
      BY <2>1, OpenedNext DEF Putting
    <3> QED
      BY <2>3, <3>1, NumberFact
  <2>7. ASSUME pc \in {"copy", "data", "movedata"} PROVE Right(qd', qi', risk', known')
    <3>1. Right(qd, qi, risk, known) /\ qd \in DataFile
      BY <2>7 DEF NumInv, AtWork, TypeOK
    <3> QED
      BY <2>1, <2>2, <2>6, <3>1, RightMore
  <2>8. ASSUME Moving PROVE Right(data', qi', risk', known')
    <3>1. Stored(data') \subseteq risk'
      BY <2>1, <2>4, <2>8 DEF Moving, Renaming
    <3>2. data' \in DataFile
      BY <2>4 DEF TypeOK
    <3> QED
      BY <3>1, <3>2, RightRisk
  <2>9. ~Moving => Right(data', index', risk', known')
    BY <2>1, <2>3, PuttingRight DEF NumInv
  <2>10. data'.next > 0
    <3>1. PICK at : Written(Opened.d, Opened.x, m, Opened.d.next, at, [d |-> data', x |-> index'])
      BY <2>1, PuttingFact
    <3>2. data'.next = Opened.d.next + 1
      BY <3>1 DEF Written
    <3> QED
      BY <3>2, OpenedNext
  <2> QED
    BY <2>2, <2>5, <2>7, <2>8, <2>9, <2>10 DEF NumInv, Moving
<1>25. PostBad => NumInv'
  BY <1>1 DEF PostBad, Moving
<1>26. Delete => NumInv'
  <2> SUFFICES ASSUME Delete PROVE NumInv'
    OBVIOUS
  <2>1. /\ pc' = pc /\ UNCHANGED <<qd, qi, risk, known>> /\ Sound
        /\ pc \notin {"create", "copy", "data", "movedata", "index", "moveindex"}
    BY DEF Delete, Held, Renaming
  <2>2. Opened.d = data /\ Opened.x = index
    BY <2>1 DEF Opened, Sound
  <2>3. Right(data, index, risk, known) /\ data.next > 0
    BY <2>1, <2>2 DEF NumInv, Moving, Sound
  <2>4. Right(data', index', risk, known) /\ data'.next > 0
    BY <2>3, DeleteRight
  <2>5. data' # None /\ index' # None
    BY DeleteFact, ParamFact DEF Without
  <2>6. Opened'.d = data' /\ Opened'.x = index'
    BY <2>5 DEF Opened
  <2> QED
    BY <2>1, <2>4, <2>6 DEF NumInv, Moving
<1>27. ASSUME UNCHANGED <<data, index, qd, qi, known, risk, pc>> PROVE NumInv'
  <2>1. Opened' = Opened
    BY <1>27 DEF Opened
  <2> QED
    BY <1>27, <2>1 DEF NumInv, Moving
<1>28. Midnight => NumInv'
  BY <1>27 DEF Midnight
<1>29. Kill => NumInv'
  <2> SUFFICES ASSUME Kill PROVE NumInv'
    OBVIOUS
  <2>1. /\ UNCHANGED <<data, index, qd, qi, known>> /\ pc' = "idle" /\ risk \subseteq risk'
        /\ Moving => Stored(data) \subseteq risk'
    BY DEF Kill, Moving
  <2>2. Opened' = Opened /\ Opened.d \in DataFile
    BY <2>1, OpenedFact DEF Opened
  <2>3. Right(Opened.d, Opened.x, risk', known)
    <3>1. CASE Moving
      <4>1. Opened.d = data
        BY <3>1 DEF AtWork, Opened
      <4> QED
        BY <2>1, <2>2, <3>1, <4>1, RightRisk
    <3>2. CASE ~Moving
      <4>1. Right(Opened.d, Opened.x, risk, known)
        BY <3>2 DEF NumInv
      <4> QED
        BY <2>1, <2>2, <4>1, RightMore
    <3> QED
      BY <3>1, <3>2
  <2> QED
    BY <2>1, <2>2, <2>3 DEF NumInv, Moving
<1>30. UNCHANGED vars => NumInv'
  BY <1>27 DEF vars
<1> QED
  BY <1>2, <1>3, <1>4, <1>5, <1>7, <1>8, <1>9, <1>10, <1>11, <1>12, <1>13, <1>14, <1>15, <1>16,
     <1>17, <1>18, <1>19, <1>20, <1>21, <1>22, <1>23, <1>24, <1>25, <1>26, <1>28, <1>29, <1>30
     DEF Next

-----------------------------------------------------------------------------
(* The order of the numbers. *)

\* A file without entries is in order.
LEMMA AscEmpty ==
    ASSUME NEW d, NEW x, d.num = 0 \/ Len(x) = 0
    PROVE  Asc(d, x)
BY DEF Asc

\* What was not steady does not become so.
LEMMA SteadyBack ==
    ASSUME TypeOK, TypeOK', AtWork, BadInv, [Next]_vars, Steady'
    PROVE  Steady
<1>1. ASSUME risk \subseteq risk', \A m \in Ids : known[m] # 0 => known'[m] = known[m]
      PROVE  Steady
  <2>1. risk = {} /\ \A m \in Ids : known'[m] < Half
    BY <1>1 DEF Steady
  <2>2. 0 < Half
    BY ParamFact
  <2> QED
    BY <1>1, <2>1, <2>2 DEF Steady
<1>2. Post => Steady
  <2> SUFFICES ASSUME Post PROVE Steady
    OBVIOUS
  <2>1. PICK m \in Message : Putting(m) /\ risk \subseteq risk'
    BY PostFact
  <2>2. m.id \in Ids /\ known' = Number(m, Opened.d.next) /\ Opened.d.next \in Nat
    BY <2>1, OpenedFact DEF Message, Putting, DataFile
  <2>3. \A o \in Ids : known[o] # 0 => known'[o] = known[o]
    BY <2>2, NumberFact
  <2> QED
    BY <1>1, <2>1, <2>3
<1>3. Fits => Steady
  <2> SUFFICES ASSUME Fits PROVE Steady
    OBVIOUS
  <2>1. Putting(badqd[i]) /\ risk \subseteq risk'
    BY FitsFact
  <2>2. badqd[i].id \in Ids /\ known' = Number(badqd[i], Opened.d.next) /\ Opened.d.next \in Nat
    BY <2>1, OpenedFact DEF Message, Putting, DataFile
  <2>3. \A o \in Ids : known[o] # 0 => known'[o] = known[o]
    BY <2>2, NumberFact
  <2> QED
    BY <1>1, <2>1, <2>3
<1>4. Kill => Steady
  BY <1>1 DEF Kill
<1>5. ASSUME UNCHANGED <<risk, known>> PROVE Steady
  BY <1>1, <1>5
<1> QED
  BY <1>2, <1>3, <1>4, <1>5
     DEF Next, vars, Purge, Create, Copy, Close, Wipe, WipeRest, UnlinkData, MoveData,
         UnlinkIndex, MoveIndex, TossBad, UnlinkBad, MoveBad, NewBad, StillBad, Aside,
         NextBad, BadDone, UnToss, Text, Untossed, PostBad, Delete, Midnight

\* A new message comes last.
LEMMA PuttingAsc ==
    ASSUME TypeOK, NEW m, Putting(m), Asc(Opened.d, Opened.x)
    PROVE  Asc(data', index')
<1>1. PICK at \in Places(Opened.d) :
         Written(Opened.d, Opened.x, m, Opened.d.next, at, [d |-> data', x |-> index'])
  BY PuttingFact
<1> DEFINE d == Opened.d
           x == Opened.x
<1>2. /\ d.num \in Nat /\ data'.num = d.num + 1
      /\ data'.next = d.next + 1 /\ Len(x) \in Nat /\ Len(index') = d.num + 1
      /\ \A k \in 1 .. d.num : index'[k] = x[k]
      /\ index'[d.num + 1] = Entry(at, d.next)
  BY <1>1 DEF Written
<1>3. d.next \in Nat /\ x \in IndexFile /\ d.num <= Len(x)
  BY OpenedFact DEF DataFile, Putting
<1>4. Asc(d, x)
  OBVIOUS
<1> HIDE DEF d, x
<1>5. ASSUME NEW k \in 1 .. d.num
      PROVE  x[k].uid \in Nat /\ x[k].uid < d.next /\ \A e \in 1 .. k - 1 : x[e].uid < x[k].uid
  <2>1. k \in 1 .. Len(x)
    BY <1>2, <1>3
  <2>2. x[k] \in [at : Nat \ {0}, uid : Nat]
    BY <1>3, <2>1, ElementOfSeq DEF IndexFile
  <2> QED
    BY <1>4, <2>1, <2>2 DEF Asc
<1>6. ASSUME NEW k \in 1 .. data'.num
      PROVE  /\ index'[k].uid < data'.next
             /\ \A e \in 1 .. k - 1 : index'[e].uid < index'[k].uid
  <2>1. \A e \in 1 .. k - 1 : e \in 1 .. d.num /\ index'[e] = x[e]
    BY <1>2
  <2>2. CASE k = d.num + 1
    <3>1. index'[k].uid = d.next
      BY <1>2, <2>2 DEF Entry
    <3> QED
      BY <1>2, <1>3, <1>5, <2>1, <3>1
  <2>3. CASE k \in 1 .. d.num
    <3>1. index'[k] = x[k]
      BY <1>2, <2>3
    <3>2. x[k].uid < d.next + 1
      BY <1>3, <1>5, <2>3
    <3> QED
      BY <1>2, <1>5, <2>1, <2>3, <3>1, <3>2
  <2> QED
    BY <1>2, <2>2, <2>3
<1> QED
  BY <1>6 DEF Asc

\* The copies come in the order of the old index.
LEMMA CopyAsc ==
    ASSUME TypeOK, AtWork, NumInv, AscInv, Steady, Copy
    PROVE  /\ Asc(qd', qi')
           /\ \A k \in 1 .. qd'.num, j \in i + 1 .. data.num : qi'[k].uid < index[j].uid
<1>0. /\ pc = "copy" /\ Sound /\ i \in 1 .. data.num /\ data.num \in Nat
      /\ qd \in DataFile /\ qi \in IndexFile /\ qd.num \in Nat /\ Len(qi) = qd.num
      /\ index[i].uid \in Nat /\ Msg(i) \in Message
  BY CopyFact DEF Copy
<1>1. /\ Asc(qd, qi) /\ Asc(data, index)
      /\ \A k \in 1 .. qd.num, j \in i .. data.num : qi[k].uid < index[j].uid
      /\ Right(data, index, risk, known)
  <2>1. Opened.d = data /\ Opened.x = index
    BY <1>0 DEF Opened, Sound
  <2> QED
    BY <1>0, <2>1 DEF AscInv, NumInv, Moving
<1>2. CASE ~Wanted(Msg(i))
  <2>1. qd' = qd /\ qi' = qi
    BY <1>2 DEF Copy
  <2>2. \A j \in i + 1 .. data.num : j \in i .. data.num
    BY <1>0
  <2> QED
    BY <1>1, <2>1, <2>2
<1>3. CASE Wanted(Msg(i))
  <2> DEFINE p == Copied(Msg(i))
             u == index[i].uid
  <2>1. qd' = p.d /\ qi' = p.x
    BY <1>3 DEF Copy
  <2>2. Written(qd, qi, Msg(i), Rehwm(u), qd.num + 1, p)
    BY CopyFact
  <2>3. u \in Nat
    BY <1>0
  <2>4. RightOne(Msg(i).id, u, risk, known)
    <3>1. i \in 1 .. Len(index) /\ index[i].at \in 1 .. Len(data.frames)
      BY <1>0, MsgFact
    <3>2. data.frames[index[i].at] # Hole /\ data.frames[index[i].at] = Msg(i)
      BY <1>0 DEF Sound, Msg
    <3> QED
      BY <1>0, <1>1, <3>1, <3>2 DEF Right
  <2>5. Rehwm(u) = u
    <3>1. Msg(i).id \in Ids /\ known[Msg(i).id] \in Nat /\ Half \in Nat
      BY <1>0, ParamFact DEF TypeOK, Message
    <3>2. u < Half
      BY <2>4, <3>1 DEF RightOne, Steady
    <3> QED
      BY <2>3, <3>2, RehwmFact
  <2>6. \A j \in i + 1 .. data.num : u < index[j].uid
    <3> SUFFICES ASSUME NEW j \in i + 1 .. data.num PROVE u < index[j].uid
      OBVIOUS
    <3>1. j \in 1 .. data.num /\ i \in 1 .. j - 1
      BY <1>0
    <3>2. j \in 1 .. Len(index)
      BY <1>0, <3>1, MsgFact
    <3> QED
      BY <1>1, <3>1, <3>2 DEF Asc
  <2>7. \A k \in 1 .. qd.num : qi[k].uid < u /\ qi[k].uid \in Nat
    <3> SUFFICES ASSUME NEW k \in 1 .. qd.num PROVE qi[k].uid < u /\ qi[k].uid \in Nat
      OBVIOUS
    <3>1. i \in i .. data.num
      BY <1>0
    <3>2. qi[k] \in [at : Nat \ {0}, uid : Nat]
      BY <1>0, ElementOfSeq DEF IndexFile
    <3> QED
      BY <1>1, <3>1, <3>2
  <2> HIDE DEF p, u
  <2>8. /\ p.d.num = qd.num + 1 /\ p.d.next = u + 1 /\ Len(p.x) = qd.num + 1
        /\ (\A k \in 1 .. qd.num : p.x[k] = qi[k]) /\ p.x[qd.num + 1].uid = u
    BY <2>2, <2>5 DEF Written, Entry
  <2>9. ASSUME NEW k \in 1 .. p.d.num
        PROVE  p.x[k].uid < p.d.next /\ \A e \in 1 .. k - 1 : p.x[e].uid < p.x[k].uid
    <3>1. \A e \in 1 .. k - 1 : e \in 1 .. qd.num /\ p.x[e] = qi[e]
      BY <1>0, <2>8
    <3>2. CASE k = qd.num + 1
      BY <2>3, <2>7, <2>8, <3>1, <3>2
    <3>3. CASE k \in 1 .. qd.num
      <4>1. \A e \in 1 .. k - 1 : qi[e].uid < qi[k].uid
        BY <1>0, <1>1, <3>3 DEF Asc
      <4>2. p.x[k] = qi[k] /\ qi[k].uid < u + 1
        BY <2>3, <2>7, <2>8, <3>3
      <4> QED
        BY <2>8, <3>1, <4>1, <4>2
    <3> QED
      BY <1>0, <2>8, <3>2, <3>3
  <2>10. ASSUME NEW k \in 1 .. p.d.num, NEW j \in i + 1 .. data.num
         PROVE  p.x[k].uid < index[j].uid
    <3>1. CASE k = qd.num + 1
      BY <2>6, <2>8, <3>1
    <3>2. CASE k \in 1 .. qd.num
      <4>1. j \in i .. data.num
        BY <1>0
      <4> QED
        BY <1>1, <2>8, <3>2, <4>1
    <3> QED
      BY <1>0, <2>8, <3>1, <3>2
  <2> QED
    BY <2>1, <2>9, <2>10 DEF Asc
<1> QED
  BY <1>2, <1>3

LEMMA DeleteAsc ==
    ASSUME TypeOK, Delete, Asc(data, index)
    PROVE  Asc(data', index')
<1>1. PICK k \in 1 .. data.num : Without(k)
  BY DeleteFact
<1>2. Sound /\ data.num \in Nat /\ data'.num = data.num - 1 /\ data'.next = data.next
  BY <1>1 DEF Delete, Without
<1>3. ASSUME NEW j \in 1 .. data'.num
      PROVE  /\ index'[j].uid < data'.next
             /\ \A e \in 1 .. j - 1 : index'[e].uid < index'[j].uid
  <2>1. Moved(j, k) \in 1 .. data.num /\ index'[j] = index[Moved(j, k)]
    BY <1>1, <1>2 DEF Without
  <2>2. Moved(j, k) \in 1 .. Len(index)
    BY <1>2, <2>1, MsgFact
  <2>3. /\ index[Moved(j, k)].uid < data.next
        /\ \A e \in 1 .. Moved(j, k) - 1 : index[e].uid < index[Moved(j, k)].uid
    BY <2>1, <2>2 DEF Asc
  <2>4. ASSUME NEW e \in 1 .. j - 1 PROVE index'[e].uid < index'[j].uid
    <3>1. index'[e] = index[Moved(e, k)] /\ Moved(e, k) \in 1 .. data.num
      BY <1>1, <1>2 DEF Without
    <3>2. Moved(e, k) \in 1 .. Moved(j, k) - 1
      BY <1>2, <2>1, <3>1 DEF Moved
    <3> QED
      BY <2>1, <2>3, <3>1, <3>2
  <2> QED
    BY <1>2, <2>1, <2>3, <2>4
<1> QED
  BY <1>3 DEF Asc

\* Every step keeps the order.
LEMMA AscStep ==
    ASSUME TypeOK, TypeOK', AtWork, BadInv, NumInv, AscInv, [Next]_vars
    PROVE  AscInv'
<1> SUFFICES ASSUME Steady' PROVE
             /\ ~Moving' => Asc(Opened'.d, Opened'.x)
             /\ pc' \in {"copy", "data", "movedata"} => Asc(qd', qi')
             /\ Moving' => Asc(data', qi')
             /\ pc' = "copy" => \A k \in 1 .. qd'.num, j \in i' .. data'.num :
                                    qi'[k].uid < index'[j].uid
  BY DEF AscInv
<1> DEFINE Goal == /\ ~Moving' => Asc(Opened'.d, Opened'.x)
                   /\ pc' \in {"copy", "data", "movedata"} => Asc(qd', qi')
                   /\ Moving' => Asc(data', qi')
                   /\ pc' = "copy" => \A k \in 1 .. qd'.num, j \in i' .. data'.num :
                                          qi'[k].uid < index'[j].uid
<1>1. /\ Steady
      /\ ~Moving => Asc(Opened.d, Opened.x)
      /\ pc \in {"copy", "data", "movedata"} => Asc(qd, qi)
      /\ Moving => Asc(data, qi)
      /\ pc = "copy" => \A k \in 1 .. qd.num, j \in i .. data.num : qi[k].uid < index[j].uid
  BY SteadyBack DEF AscInv
<1>2. ASSUME UNCHANGED <<data, index>>, ~Moving, ~Moving', pc' # "copy",
             pc' \in {"data", "movedata"} =>
                 pc \in {"copy", "data", "movedata"} /\ UNCHANGED <<qd, qi>>
      PROVE  Goal
  <2>1. Opened' = Opened
    BY <1>2 DEF Opened
  <2> QED
    BY <1>1, <1>2, <2>1
<1>3. Purge => Goal
  BY <1>2 DEF Purge, Moving
<1>4. Create => Goal
  <2> SUFFICES ASSUME Create PROVE Goal
    OBVIOUS
  <2>1. /\ UNCHANGED <<data, index>> /\ pc = "create" /\ pc' = "copy"
        /\ qd' = [frames |-> <<>>, num |-> 0, next |-> data.next]
    BY DEF Create
  <2>2. Opened' = Opened /\ qd'.num = 0
    BY <2>1 DEF Opened
  <2>3. Asc(qd', qi')
    BY <2>2, AscEmpty
  <2> QED
    BY <1>1, <2>1, <2>2, <2>3 DEF Moving
<1>5. Copy => Goal
  <2> SUFFICES ASSUME Copy PROVE Goal
    OBVIOUS
  <2>1. UNCHANGED <<data, index>> /\ pc = "copy" /\ pc' = "copy" /\ i' = i + 1 /\ Opened' = Opened
    BY DEF Copy, Opened
  <2>2. /\ Asc(qd', qi')
        /\ \A k \in 1 .. qd'.num, j \in i + 1 .. data.num : qi'[k].uid < index[j].uid
    BY <1>1, CopyAsc
  <2> QED
    BY <1>1, <2>1, <2>2 DEF Moving
<1>6. Close => Goal
  BY <1>2 DEF Close, Moving
<1>7. ASSUME data' = None PROVE Asc(Opened'.d, Opened'.x)
  <2>1. Opened'.d.num = 0
    BY <1>7 DEF Opened, NewData
  <2> QED
    BY <2>1, AscEmpty
<1>8. Wipe => Goal
  BY <1>7 DEF Wipe, Moving
<1>9. WipeRest => Goal
  <2> SUFFICES ASSUME WipeRest PROVE Goal
    OBVIOUS
  <2>1. index' = None /\ pc' = "idle"
    BY DEF WipeRest
  <2>2. Opened'.x = <<>> /\ Len(<<>>) = 0
    BY <2>1 DEF Opened
  <2>3. Asc(Opened'.d, Opened'.x)
    BY <2>2, AscEmpty
  <2> QED
    BY <2>1, <2>3 DEF Moving
<1>10. UnlinkData => Goal
  BY <1>1, <1>7 DEF UnlinkData, Moving
<1>11. MoveData => Goal
  BY <1>1 DEF MoveData, Moving
<1>12. UnlinkIndex => Goal
  BY <1>1 DEF UnlinkIndex, Moving
<1>13. MoveIndex => Goal
  <2> SUFFICES ASSUME MoveIndex PROVE Goal
    OBVIOUS
  <2>1. /\ data' = data /\ index' = qi /\ pc' = "idle" /\ pc = "moveindex"
        /\ data # None /\ qi # None
    BY DEF MoveIndex, AtWork, Moving
  <2>2. Opened'.d = data /\ Opened'.x = qi
    BY <2>1 DEF Opened
  <2> QED
    BY <1>1, <2>1, <2>2 DEF Moving
<1>14. TossBad => Goal
  BY <1>2 DEF TossBad, Moving
<1>15. UnlinkBad => Goal
  BY <1>2 DEF UnlinkBad, Moving
<1>16. MoveBad => Goal
  BY <1>2 DEF MoveBad, Moving
<1>17. NewBad => Goal
  BY <1>2 DEF NewBad, Moving
<1>18. StillBad => Goal
  BY <1>2 DEF StillBad, NextBad, Moving
<1>19. Aside => Goal
  BY <1>2 DEF Aside, NextBad, Moving
<1>20. ASSUME NEW m, Putting(m), ~Moving, ~Moving', pc' \notin {"copy", "data", "movedata"}
       PROVE  Goal
  <2>1. Asc(data', index')
    BY <1>1, <1>20, PuttingAsc
  <2>2. Opened'.d = data' /\ Opened'.x = index'
    BY <1>20, PuttingStored DEF Opened
  <2> QED
    BY <1>20, <2>1, <2>2
<1>21. Fits => Goal
  <2> SUFFICES ASSUME Fits PROVE Goal
    OBVIOUS
  <2>1. pc = "badtoss" /\ pc' = "badtoss"
    BY DEF Fits, NextBad
  <2>2. Putting(badqd[i])
    BY FitsFact
  <2> QED
    BY <1>20, <2>1, <2>2 DEF Moving
<1>22. BadDone => Goal
  BY <1>2 DEF BadDone, Moving
<1>23. UnToss => Goal
  BY <1>2 DEF UnToss, Moving
<1>24. Text => Goal
  BY <1>2 DEF Text, Moving
<1>25. Untossed => Goal
  <2> SUFFICES ASSUME Untossed PROVE Goal
    OBVIOUS
  <2>1. CASE UNCHANGED area
    BY <1>2, <2>1 DEF Untossed, Moving
  <2>2. CASE data' = [frames |-> <<>>, num |-> 0, next |-> data.next] /\ index' = <<>>
    <3>1. pc' = "idle"
      BY DEF Untossed
    <3>2. Opened'.d.num = 0
      BY <2>2 DEF Opened, NewData
    <3>3. Asc(Opened'.d, Opened'.x)
      BY <3>2, AscEmpty
    <3> QED
      BY <3>1, <3>3 DEF Moving
  <2> QED
    BY <2>1, <2>2 DEF Untossed
<1>26. Post => Goal
  <2> SUFFICES ASSUME Post PROVE Goal
    OBVIOUS
  <2>1. PICK m \in Message : Putting(m) /\ (Renaming => m.id \in risk')
    BY PostFact
  <2>2. ~Renaming
    BY <2>1 DEF Steady
  <2>3. pc' = pc /\ pc \notin {"copy", "data", "movedata"} /\ ~Moving
    BY <2>2 DEF Post, Held, Renaming, Moving
  <2> QED
    BY <1>20, <2>1, <2>3 DEF Moving
<1>27. PostBad => Goal
  BY <1>2 DEF PostBad, Moving
<1>28. Delete => Goal
  <2> SUFFICES ASSUME Delete PROVE Goal
    OBVIOUS
  <2>1. /\ pc' = pc /\ Sound
        /\ pc \notin {"create", "copy", "data", "movedata", "index", "moveindex"}
    BY DEF Delete, Held, Renaming
  <2>2. Opened.d = data /\ Opened.x = index
    BY <2>1 DEF Opened, Sound
  <2>3. Asc(data', index')
    BY <1>1, <2>1, <2>2, DeleteAsc DEF Moving
  <2>4. data' # None /\ index' # None
    BY DeleteFact, ParamFact DEF Without
  <2>5. Opened'.d = data' /\ Opened'.x = index'
    BY <2>4 DEF Opened
  <2> QED
    BY <2>1, <2>3, <2>5 DEF Moving
<1>29. ASSUME UNCHANGED <<data, index, qd, qi, pc, i>> PROVE Goal
  <2>1. Opened' = Opened
    BY <1>29 DEF Opened
  <2> QED
    BY <1>1, <1>29, <2>1 DEF Moving
<1>30. Midnight => Goal
  BY <1>29 DEF Midnight
<1>31. Kill => Goal
  <2> SUFFICES ASSUME Kill PROVE Goal
    OBVIOUS
  <2>1. UNCHANGED <<data, index>> /\ pc' = "idle" /\ (Moving => Stored(data) \subseteq risk')
    BY DEF Kill, Moving
  <2>2. Opened' = Opened
    BY <2>1 DEF Opened
  <2>3. ASSUME Moving PROVE Opened.d.num = 0
    <3>1. data # None /\ Dense(data, qi) /\ Stored(data) = {}
      BY <1>1, <2>1, <2>3 DEF AtWork, Steady
    <3>2. data.num \in Nat /\ Len(data.frames) = data.num /\ data \in DataFile
      BY <3>1 DEF TypeOK, DataFile, Dense
    <3>3. ASSUME data.num # 0 PROVE FALSE
      <4>1. 1 \in 1 .. Len(data.frames) /\ 1 \in 1 .. data.num
        BY <3>2, <3>3
      <4>2. data.frames[1] \in Message
        BY <3>1, <3>2, <4>1 DEF DataFile, Dense
      <4>3. data.frames[1].id # 0
        BY <4>2 DEF Message, Ids
      <4> QED
        BY <3>1, <4>1, <4>3 DEF Stored
    <3>4. Opened.d = data
      BY <3>1 DEF Opened
    <3> QED
      BY <3>3, <3>4
  <2>4. Asc(Opened.d, Opened.x)
    BY <1>1, <2>3, AscEmpty
  <2> QED
    BY <2>1, <2>2, <2>4 DEF Moving
<1>32. UNCHANGED vars => Goal
  BY <1>29 DEF vars
<1> QED
  BY <1>3, <1>4, <1>5, <1>6, <1>8, <1>9, <1>10, <1>11, <1>12, <1>13, <1>14, <1>15, <1>16,
     <1>17, <1>18, <1>19, <1>21, <1>22, <1>23, <1>24, <1>25, <1>26, <1>27, <1>28, <1>30, <1>31,
     <1>32 DEF Next

-----------------------------------------------------------------------------
(* What a purge leaves. *)

LEMMA SameView ==
    ASSUME UNCHANGED <<conf, today, area>>
    PROVE  (Sound' <=> Sound) /\ Free' = Free /\ Expired' = Expired
BY DEF Sound, Free, Expired, Old, Msg

\* A base that need not be written anew has nothing to purge.
LEMMA NoNeed ==
    ASSUME TypeOK, Sound, ~Needwork, conf.analyse # 3
    PROVE  Free = {} /\ Expired = {}
<1>1. CASE data.frames = <<>>
  <2>1. Len(data.frames) = 0
    BY <1>1
  <2>2. Free = {}
    BY <2>1 DEF Free
  <2>3. Expired = {}
    <3> SUFFICES ASSUME NEW k \in 1 .. data.num PROVE FALSE
      BY DEF Expired
    <3>1. index[k].at \in 1 .. Len(data.frames)
      BY MsgFact
    <3> QED
      BY <2>1, <3>1
  <2> QED
    BY <2>2, <2>3
<1>2. CASE data.frames # <<>>
  <2>1. Free = {} /\ (conf.days # 0 => Expired = {})
    BY <1>2 DEF Needwork
  <2>2. conf.days = 0 => Expired = {}
    BY DEF Expired, Old
  <2> QED
    BY <2>1, <2>2
<1> QED
  BY <1>1, <1>2

\* What is copied is not old.
LEMMA CopyYoung ==
    ASSUME TypeOK, AtWork, Copy, NoneOld(conf, today, qd),
           conf.analyse >= 2 /\ conf.days # 0 =>
               \A k \in 1 .. data.num : k \in keep => ~Aged(conf, today, Msg(k))
    PROVE  NoneOld(conf, today, qd')
<1>1. CASE ~Wanted(Msg(i))
  BY <1>1 DEF Copy
<1>2. CASE Wanted(Msg(i))
  <2> DEFINE p == Copied(Msg(i))
  <2>1. qd' = p.d
    BY <1>2 DEF Copy
  <2>2. Written(qd, qi, Msg(i), Rehwm(index[i].uid), qd.num + 1, p)
    BY CopyFact
  <2>3. qd.num \in Nat /\ Len(qd.frames) = qd.num /\ i \in 1 .. data.num
    BY CopyFact
  <2>4. ~Aged(conf, today, Msg(i))
    <3>1. conf.analyse \in 0 .. 3
      BY ParamFact DEF TypeOK, Conf
    <3>2. CASE conf.days = 0
      BY <3>2 DEF Aged
    <3>3. CASE conf.days # 0 /\ conf.analyse < 2
      BY <1>2, <3>3 DEF Wanted, Aged, Old
    <3>4. CASE conf.days # 0 /\ conf.analyse >= 2
      <4>1. i \in keep
        BY <1>2, <3>1, <3>4 DEF Wanted
      <4> QED
        BY <2>3, <3>4, <4>1
    <3> QED
      BY <3>1, <3>2, <3>3, <3>4
  <2> HIDE DEF p
  <2>5. /\ Len(p.d.frames) = qd.num + 1 /\ p.d.frames[qd.num + 1] = Msg(i)
        /\ \A k \in 1 .. qd.num : p.d.frames[k] = qd.frames[k]
    <3>1. /\ p.d.frames[qd.num + 1] = Msg(i)
          /\ \A k \in 1 .. Len(qd.frames) : k # qd.num + 1 => p.d.frames[k] = qd.frames[k]
      BY <2>2 DEF Written
    <3>2. Len(p.d.frames) = qd.num + 1
      BY <2>2, <2>3 DEF Written
    <3>3. \A k \in 1 .. qd.num : k \in 1 .. Len(qd.frames) /\ k # qd.num + 1
      BY <2>3
    <3> QED
      BY <3>1, <3>2, <3>3
  <2>6. ASSUME NEW k \in 1 .. Len(p.d.frames) PROVE ~Aged(conf, today, p.d.frames[k])
    <3>1. CASE k = qd.num + 1
      BY <2>4, <2>5, <3>1
    <3>2. CASE k \in 1 .. qd.num
      BY <2>3, <2>5, <3>2 DEF NoneOld
    <3> QED
      BY <2>3, <2>5, <3>1, <3>2
  <2> QED
    BY <2>1, <2>6 DEF NoneOld
<1> QED
  BY <1>1, <1>2

\* Every step keeps what is said of a purge of this day.
LEMMA FreshStep ==
    ASSUME TypeOK, TypeOK', AtWork, FreshInv, [Next]_vars
    PROVE  FreshInv'
<1>1. ASSUME UNCHANGED <<conf, today, data, index, fresh>>, ~Purging, ~Purging'
      PROVE  FreshInv'
  BY <1>1, SameView DEF FreshInv
<1>2. ASSUME fresh' = "no" PROVE FreshInv'
  BY <1>2 DEF FreshInv
<1>3. Purge => FreshInv'
  <2> SUFFICES ASSUME Purge PROVE FreshInv'
    OBVIOUS
  <2>1. /\ UNCHANGED <<conf, today, area>> /\ Sound
        /\ keep' = IF Needwork /\ conf.analyse >= 2 /\ conf.days # 0 THEN Bitmap ELSE {}
    BY DEF Purge
  <2>2. CASE Needwork
    <3>1. pc' = "create" /\ fresh' = "running"
      BY <2>2 DEF Purge
    <3>2. ASSUME conf.analyse >= 2, conf.days # 0, NEW k \in 1 .. data.num, k \in keep'
          PROVE  ~Aged(conf, today, Msg(k))
      <4>1. k \in Bitmap
        BY <2>1, <2>2, <3>2
      <4>2. k \notin Expired
        BY <4>1 DEF Bitmap
      <4> QED
        BY <4>2 DEF Expired, Old, Aged
    <3>3. \A k : Msg(k)' = Msg(k)
      BY <2>1, SameFact
    <3> QED
      BY <2>1, <3>1, <3>2, <3>3 DEF FreshInv, Purging, Moving
  <2>3. CASE ~Needwork
    <3>1. pc' = "idle" /\ fresh' = "yes"
      BY <2>3 DEF Purge
    <3>2. conf.analyse # 3 => Free' = {} /\ Expired' = {}
      BY <2>1, <2>3, NoNeed, SameView
    <3> QED
      BY <2>1, <3>1, <3>2 DEF FreshInv, Purging
  <2> QED
    BY <2>2, <2>3
<1>4. Create => FreshInv'
  <2> SUFFICES ASSUME Create PROVE FreshInv'
    OBVIOUS
  <2>1. /\ UNCHANGED <<conf, today, area, keep, fresh>> /\ pc = "create" /\ pc' = "copy"
        /\ qd' = [frames |-> <<>>, num |-> 0, next |-> data.next]
    BY DEF Create
  <2>2. NoneOld(conf', today', qd')
    BY <2>1 DEF NoneOld
  <2>3. \A k : Msg(k)' = Msg(k)
    BY <2>1, SameFact
  <2> QED
    BY <2>1, <2>2, <2>3 DEF FreshInv, Purging, Moving
<1>5. Copy => FreshInv'
  <2> SUFFICES ASSUME Copy PROVE FreshInv'
    OBVIOUS
  <2>1. UNCHANGED <<conf, today, area, keep, fresh>> /\ pc = "copy" /\ pc' = "copy"
    BY DEF Copy
  <2>2. fresh = "running" => NoneOld(conf, today, qd')
    BY <2>1, CopyYoung DEF FreshInv
  <2>3. \A k : Msg(k)' = Msg(k)
    BY <2>1, SameFact
  <2> QED
    BY <2>1, <2>2, <2>3 DEF FreshInv, Purging, Moving
<1>6. Close => FreshInv'
  BY DEF Close, FreshInv, Purging, Moving
<1>7. Wipe => FreshInv'
  BY DEF Wipe, FreshInv, Purging, Moving
<1>8. WipeRest => FreshInv'
  BY DEF WipeRest, Finished, FreshInv, Purging, Moving, Sound
<1>9. UnlinkData => FreshInv'
  BY DEF UnlinkData, FreshInv, Purging, Moving
<1>10. MoveData => FreshInv'
  <2> SUFFICES ASSUME MoveData PROVE FreshInv'
    OBVIOUS
  <2>1. /\ UNCHANGED <<conf, today, qi, fresh>> /\ pc = "movedata" /\ pc' = "index"
        /\ data' = qd /\ Dense(qd, qi)
    BY DEF MoveData, AtWork
  <2> QED
    BY <2>1 DEF FreshInv, Purging, Moving
<1>11. UnlinkIndex => FreshInv'
  BY DEF UnlinkIndex, FreshInv, Purging, Moving
<1>12. MoveIndex => FreshInv'
  <2> SUFFICES ASSUME MoveIndex PROVE FreshInv'
    OBVIOUS
  <2>1. /\ UNCHANGED <<conf, today, data>> /\ index' = qi /\ pc = "moveindex" /\ pc' = "idle"
        /\ fresh' = Finished /\ data # None
    BY DEF MoveIndex, AtWork, Moving
  <2>2. CASE fresh # "running"
    BY <1>2, <2>1, <2>2 DEF Finished
  <2>3. CASE fresh = "running"
    <3>1. Dense(data, qi) /\ NoneOld(conf, today, data)
      BY <2>1, <2>3 DEF FreshInv, Moving
    <3>2. /\ data.num \in Nat /\ Len(data.frames) = data.num
          /\ \A k \in 1 .. data.num : qi[k].at = k /\ data.frames[k] # Hole
      BY <2>1, <3>1 DEF Dense, TypeOK, DataFile
    <3>3. Free' = {}
      BY <2>1, <3>2 DEF Free
    <3>4. Expired' = {}
      <4>1. \A k \in 1 .. data.num : Msg(k)' = data.frames[k] /\ ~Aged(conf, today, data.frames[k])
        BY <2>1, <3>1, <3>2 DEF Msg, NoneOld
      <4>2. Expired' = {k \in 1 .. data.num : Aged(conf, today, Msg(k)')}
        BY <2>1 DEF Expired, Old, Aged
      <4> QED
        BY <4>1, <4>2
    <3> QED
      BY <2>1, <2>3, <3>3, <3>4 DEF FreshInv, Finished, Purging
  <2> QED
    BY <2>2, <2>3
<1>13. TossBad => FreshInv'
  BY <1>1 DEF TossBad, Purging
<1>14. UnlinkBad => FreshInv'
  BY <1>1 DEF UnlinkBad, Purging
<1>15. MoveBad => FreshInv'
  BY <1>1 DEF MoveBad, Purging
<1>16. NewBad => FreshInv'
  BY <1>1 DEF NewBad, Purging
<1>17. StillBad => FreshInv'
  BY <1>1 DEF StillBad, NextBad, Purging
<1>18. Aside => FreshInv'
  BY <1>1 DEF Aside, NextBad, Purging
<1>19. Fits => FreshInv'
  BY <1>2 DEF Fits
<1>20. BadDone => FreshInv'
  BY <1>1 DEF BadDone, Purging
<1>21. UnToss => FreshInv'
  BY <1>1 DEF UnToss, Purging
<1>22. Text => FreshInv'
  BY <1>1 DEF Text, Purging
<1>23. Untossed => FreshInv'
  BY <1>2 DEF Untossed
<1>24. Post => FreshInv'
  BY <1>2 DEF Post
<1>25. PostBad => FreshInv'
  BY <1>1 DEF PostBad, Purging
<1>26. Delete => FreshInv'
  BY <1>2 DEF Delete
<1>27. Midnight => FreshInv'
  BY <1>2 DEF Midnight
<1>28. Kill => FreshInv'
  BY <1>2 DEF Kill
<1>29. UNCHANGED vars => FreshInv'
  <2> SUFFICES ASSUME UNCHANGED vars PROVE FreshInv'
    OBVIOUS
  <2>1. UNCHANGED <<conf, today, area, qd, qi, pc, keep, fresh>>
    BY DEF vars
  <2>2. \A k : Msg(k)' = Msg(k)
    BY <2>1, SameFact
  <2>3. (Sound' <=> Sound) /\ Free' = Free /\ Expired' = Expired
    BY <2>1, SameView
  <2> QED
    BY <2>1, <2>2, <2>3 DEF FreshInv, Purging, Moving
<1> QED
  BY <1>3, <1>4, <1>5, <1>6, <1>7, <1>8, <1>9, <1>10, <1>11, <1>12, <1>13, <1>14, <1>15, <1>16,
     <1>17, <1>18, <1>19, <1>20, <1>21, <1>22, <1>23, <1>24, <1>25, <1>26, <1>27, <1>28, <1>29
     DEF Next

-----------------------------------------------------------------------------
(* The theorems. *)

Invariant == TypeOK /\ AtWork /\ KeptInv /\ BadInv /\ NumInv /\ AscInv /\ FreshInv

LEMMA InitInvariant == Init => Invariant
<1> SUFFICES ASSUME Init PROVE Invariant
  OBVIOUS
<1>1. data \in DataFile /\ index \in IndexFile /\ data # None /\ index # None
  <2>1. [frames |-> <<>>, num |-> 0, next |-> 1] \in DataFile /\ <<>> \in IndexFile
    BY DEF DataFile, IndexFile
  <2> QED
    BY <2>1, ParamFact DEF Init
<1>2. TypeOK
  <2>1. /\ today \in 0 .. MaxDay /\ kills \in 0 .. MaxKills /\ i \in Nat
        /\ known \in [Ids -> Nat] /\ <<>> \in Seq(Message)
    BY ParamFact DEF Init
  <2> QED
    BY <1>1, <2>1 DEF Init, TypeOK
<1>3. AtWork
  BY DEF Init, AtWork, Moving
<1>4. KeptInv
  BY DEF Init, KeptInv, BaseKept, NewKept, RunKept, MapKept, Moving
<1>5. bad # None /\ BadAt = {} /\ PendingAt = {}
  <2>1. bad = <<>> /\ <<>> \in Seq(Message) /\ Len(<<>>) = 0 /\ pc = "idle"
    BY DEF Init
  <2>2. bad # None
    BY <2>1, ParamFact
  <2> QED
    BY <2>1, <2>2 DEF BadAt, PendingAt
<1>6. BadInv
  <2>1. posted = 1 .. Cardinality(posted)
    BY FS_EmptySet DEF Init
  <2> QED
    BY <1>5, <2>1 DEF Init, BadInv
<1>7. Opened.d = data /\ data.num = 0 /\ data.next > 0 /\ qd = None /\ pc = "idle"
  BY <1>1 DEF Init, Opened
<1>8. NumInv
  BY <1>7 DEF NumInv, Right, Moving
<1>9. AscInv
  BY <1>7, AscEmpty DEF AscInv, Moving
<1>10. FreshInv
  BY DEF Init, FreshInv
<1> QED
  BY <1>2, <1>3, <1>4, <1>6, <1>8, <1>9, <1>10 DEF Invariant

\* The inductive invariant: the types, where the process is, where the messages
\* are and their numbers, the order of the indexes and what a purge leaves.
THEOREM Inductive == Spec => []Invariant
<1>1. Init => Invariant
  BY InitInvariant
<1>2. Invariant /\ [Next]_vars => Invariant'
  <2> SUFFICES ASSUME Invariant, [Next]_vars PROVE Invariant'
    OBVIOUS
  <2>1. TypeOK' /\ AtWork'
    BY TypeStep, AtWorkStep DEF Invariant
  <2>2. KeptInv' /\ BadInv'
    BY <2>1, KeptStep, BadStep DEF Invariant
  <2>3. NumInv' /\ AscInv'
    BY <2>1, NumStep, AscStep DEF Invariant
  <2>4. FreshInv'
    BY <2>1, FreshStep DEF Invariant
  <2> QED
    BY <2>1, <2>2, <2>3, <2>4 DEF Invariant
<1> QED
  BY <1>1, <1>2, PTL DEF Spec

\* TypeOK, for every run.
THEOREM RebuildTypes == Spec => []TypeOK
<1>1. Invariant => TypeOK
  BY DEF Invariant
<1> QED
  BY <1>1, Inductive, PTL

\* NothingLost, for every run: whatever the kills, the posts and the bitmaps, a
\* message is found again, or was exposed, or an unordered base was analysed.
THEOREM PurgeLosesNothing == Spec => []NothingLost
<1>1. Invariant => NothingLost
  <2> SUFFICES ASSUME Invariant, pc = "idle", ~Excused
               PROVE  posted \subseteq Readable \cup InBad \cup elsewhere \cup gone \cup risk
    BY DEF NothingLost, Excused
  <2>1. posted \subseteq Readable \cup Away
    BY DEF Invariant, KeptInv, BaseKept
  <2>2. Pending = {} /\ Lying \subseteq InBad
    BY DEF Pending, Lying, InBad
  <2> QED
    BY <2>1, <2>2 DEF Away
<1> QED
  BY <1>1, Inductive, PTL

\* NumbersKept, for every run.
THEOREM NumbersAreKept == Spec => []NumbersKept
<1>1. Invariant => NumbersKept
  <2> SUFFICES ASSUME Invariant, pc = "idle", Sound
               PROVE  /\ \A k \in 1 .. data.num :
                            \/ Msg(k).id \in risk \/ known[Msg(k).id] >= Half
                            \/ index[k].uid = known[Msg(k).id]
                      /\ (risk = {} /\ \A m \in posted : known[m] < Half) =>
                            \A k \in 2 .. data.num : index[k - 1].uid < index[k].uid
    BY DEF NumbersKept
  <2>1. Opened.d = data /\ Opened.x = index
    BY DEF Opened, Sound
  <2>2. TypeOK
    BY DEF Invariant
  <2>3. ASSUME NEW k \in 1 .. data.num
        PROVE  \/ Msg(k).id \in risk \/ known[Msg(k).id] >= Half
               \/ index[k].uid = known[Msg(k).id]
    <3>1. /\ k \in 1 .. Len(index) /\ index[k].at \in 1 .. Len(data.frames)
          /\ Msg(k) # Hole
      BY <2>2, MsgFact, HoleFact
    <3>2. Right(data, index, risk, known)
      BY <2>1 DEF Invariant, NumInv, Moving
    <3>3. RightOne(Msg(k).id, index[k].uid, risk, known)
      BY <3>1, <3>2 DEF Right, Msg
    <3> QED
      BY <3>3 DEF RightOne
  <2>4. ASSUME risk = {}, \A m \in posted : known[m] < Half, NEW k \in 2 .. data.num
        PROVE  index[k - 1].uid < index[k].uid
    <3>1. \A m \in Ids \ posted : known[m] = 0
      BY DEF Invariant, BadInv
    <3>2. Steady
      BY <2>4, <3>1, ParamFact DEF Steady
    <3>3. Asc(data, index)
      BY <2>1, <3>2 DEF Invariant, AscInv, Moving
    <3>4. data.num \in Nat
      BY <2>2 DEF TypeOK, Sound, DataFile
    <3>5. k \in 1 .. data.num /\ k - 1 \in 1 .. k - 1
      BY <3>4
    <3>6. k \in 1 .. Len(index)
      BY <2>2, <3>5, MsgFact
    <3> QED
      BY <3>3, <3>5, <3>6 DEF Asc
  <2> QED
    BY <2>3, <2>4
<1> QED
  BY <1>1, Inductive, PTL

\* Purged, for every run.
THEOREM PurgeIsComplete == Spec => []Purged
<1>1. Invariant => Purged
  BY DEF Invariant, FreshInv, Purged
<1> QED
  BY <1>1, Inductive, PTL
==============================================================================
