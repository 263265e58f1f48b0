--------------------------- MODULE DupeBaseProofs ---------------------------
(* What DupeBase guarantees for any areas, limits, checksums and ring size.  *)
EXTENDS DupeBase, TLAPS, WellFoundedInduction

-----------------------------------------------------------------------------
(* The ring *)

\* dupcheck's insertion keeps the ring a ring (crc32.cpp: the slot it writes
\* is inside dupbuf whatever the cursor was).
LEMMA InsertType ==
    ASSUME NEW r \in Ring, NEW lim \in 0 .. Cap, NEW c \in Crc
    PROVE  Insert(r, lim, c) \in Ring
BY RingAssumption DEF Insert, Ring, Slots

\* dupundo keeps the ring a ring.
LEMMA UndoType ==
    ASSUME NEW r \in Ring
    PROVE  Undo(r) \in Ring
BY RingAssumption DEF Undo, Ring, Slots

\* The sliding window of an area's insertions stays within its limit.
LEMMA RecentFact ==
    ASSUME NEW h \in Seq(Crc), NEW lim \in Nat \ {0}, NEW c \in Crc, Len(h) <= lim
    PROVE  LET n == Recent(h, lim, c)
           IN  /\ n \in Seq(Crc)
               /\ n # <<>>
               /\ Len(n) = (IF Len(h) < lim THEN Len(h) + 1 ELSE lim)
               /\ n[Len(n)] = c
               /\ \A j \in 1 .. (Len(n) - 1) : n[Len(n) - j] = h[Len(h) - (j - 1)]
<1>1. CASE Len(h) < lim
  BY <1>1 DEF Recent
<1>2. CASE Len(h) = lim
  <2>1. h # <<>> /\ Tail(h) \in Seq(Crc) /\ Len(Tail(h)) = lim - 1
    BY <1>2
  <2>2. Recent(h, lim, c) = Append(Tail(h), c)
    BY <1>2 DEF Recent
  <2>3. \A i \in 1 .. (lim - 1) : Tail(h)[i] = h[i + 1]
    BY <1>2, <2>1
  <2> QED BY <1>2, <2>1, <2>2, <2>3
<1> QED BY <1>1, <1>2

\* An insertion extends what the ring holds by the new checksum and lets go of
\* the oldest only when the area's limit is reached.
LEMMA InsertHolds ==
    ASSUME NEW r \in Ring, NEW lim \in 1 .. Cap, NEW c \in Crc,
           NEW h \in Seq(Crc), Holds(r, lim, h)
    PROVE  Holds(Insert(r, lim, c), lim, Recent(h, lim, c))
<1> DEFINE q == Insert(r, lim, c)
           n == Recent(h, lim, c)
<1>1. /\ r.max \in 0 .. Cap /\ r.cur \in 0 .. Cap /\ Cap \in Nat /\ lim \in Nat \ {0}
      /\ r.buf \in [Slots -> Crc \cup {Zero}]
  BY RingAssumption DEF Ring
<1>2. /\ q.max = (IF r.max < lim THEN r.max + 1 ELSE r.max)
      /\ q.cur = (IF r.cur + 1 > lim THEN 1 ELSE r.cur + 1)
      /\ q.buf = [r.buf EXCEPT ![q.cur] = c]
  BY DEF Insert
<1>3. /\ r.cur <= r.max /\ Len(h) <= lim /\ Len(h) \in Nat
      /\ h # <<>> => r.cur \in 1 .. lim
      /\ Len(h) > r.cur => r.max >= lim
  BY DEF Holds
<1>4. /\ n # <<>>
      /\ Len(n) = (IF Len(h) < lim THEN Len(h) + 1 ELSE lim)
      /\ n[Len(n)] = c
      /\ \A j \in 1 .. (Len(n) - 1) : n[Len(n) - j] = h[Len(h) - (j - 1)]
  BY RecentFact, <1>1, <1>3
<1>5. q.cur \in 1 .. lim /\ q.cur <= q.max
  BY <1>1, <1>2, <1>3
<1>6. Len(n) > q.cur => q.max >= lim
  <2>1. CASE h = <<>>
    BY <2>1, <1>1, <1>2, <1>4
  <2>2. CASE h # <<>>
    BY <2>2, <1>1, <1>2, <1>3, <1>4
  <2> QED BY <2>1, <2>2
<1>7. ASSUME NEW j \in 0 .. (Len(n) - 1)
      PROVE  q.buf[Back(q.cur, j, lim)] = n[Len(n) - j]
  <2>1. CASE j = 0
    <3>1. Back(q.cur, j, lim) = q.cur /\ q.cur \in Slots
      BY <2>1, <1>1, <1>5 DEF Back, Slots
    <3> QED BY <3>1, <2>1, <1>1, <1>2, <1>4
  <2>2. CASE j # 0
    <3>1. j - 1 \in 0 .. (Len(h) - 1) /\ j \in 1 .. (lim - 1) /\ h # <<>>
      BY <2>2, <1>1, <1>3, <1>4
    <3>2. r.cur \in 1 .. lim
      BY <3>1, <1>3
    <3>3. /\ Back(q.cur, j, lim) = Back(r.cur, j - 1, lim)
          /\ Back(q.cur, j, lim) \in 1 .. lim
          /\ Back(q.cur, j, lim) # q.cur
      <4>1. CASE r.cur = lim
        <5>1. q.cur = 1
          BY <4>1, <1>1, <1>2
        <5> HIDE DEF q
        <5> QED BY <5>1, <4>1, <3>1, <1>1 DEF Back
      <4>2. CASE r.cur < lim
        <5>1. q.cur = r.cur + 1
          BY <4>2, <1>1, <1>2
        <5> HIDE DEF q
        <5> QED BY <5>1, <4>2, <3>1, <3>2, <1>1 DEF Back
      <4> QED BY <4>1, <4>2, <3>2, <1>1
    <3>4. q.buf[Back(q.cur, j, lim)] = r.buf[Back(r.cur, j - 1, lim)]
      BY <3>3, <1>1, <1>2 DEF Slots
    <3>5. r.buf[Back(r.cur, j - 1, lim)] = h[Len(h) - (j - 1)]
      BY <3>1 DEF Holds
    <3> QED BY <3>4, <3>5, <3>1, <2>2, <1>4
  <2> QED BY <2>1, <2>2
<1> HIDE DEF q, n
<1>8. Len(n) <= lim
  BY <1>1, <1>3, <1>4
<1> QED BY <1>5, <1>6, <1>7, <1>8 DEF Holds, q, n

\* Whatever a ring holds, the scan of its first max slots finds.
LEMMA HoldsKnown ==
    ASSUME NEW r \in Ring, NEW lim \in 1 .. Cap, NEW h \in Seq(Crc),
           Holds(r, lim, h), NEW i \in 1 .. Len(h)
    PROVE  Known(r, h[i])
<1> DEFINE j == Len(h) - i
           s == Back(r.cur, j, lim)
<1>1. r.max \in 0 .. Cap /\ r.cur \in 0 .. Cap /\ Cap \in Nat /\ Len(h) \in Nat
  BY RingAssumption DEF Ring
<1>2. j \in 0 .. (Len(h) - 1) /\ Len(h) - j = i /\ h # <<>>
  BY <1>1
<1>3. r.buf[s] = h[i]
  BY <1>2 DEF Holds
<1>4. s \in 1 .. r.max
  BY <1>1, <1>2 DEF Holds, Back
<1> QED BY <1>3, <1>4 DEF Known

-----------------------------------------------------------------------------
(* The files *)

\* bcfg.maxdupes is an array size, and no area's limit exceeds it.
LEMMA MaxDupesFact ==
    ASSUME NEW l \in [Area -> Limits]
    PROVE  MaxDupes(l) \in 0 .. Cap /\ \A a \in Area : l[a] <= MaxDupes(l)
<1> DEFINE P(m) == /\ \A a \in Area : l[a] <= m
                   /\ m = 0 \/ \E a \in Area : l[a] = m
<1>1. Cap \in Nat /\ \A a \in Area : l[a] \in 0 .. Cap
  BY RingAssumption, BaseAssumption
<1> DEFINE T == {m \in Nat : \A a \in Area : l[a] <= m}
           R == OpToRel(<, Nat)
<1>2. Cap \in T /\ T \subseteq Nat
  BY <1>1
<1>3. PICK m \in T : \A k \in T : ~(<<k, m>> \in R)
  BY <1>2, NatLessThanWellFounded, WFMin
<1>4. \A k \in T : m <= k
  <2>1. R = {ss \in Nat \X Nat : ss[1] < ss[2]}
    BY Zenon DEF OpToRel
  <2>2. \A k \in Nat : k < m => <<k, m>> \in R
    BY <2>1, <1>2
  <2>3. \A k \in T : ~(<<k, m>> \in R)
    BY <1>3
  <2> HIDE DEF R
  <2>4. \A k \in T : ~(k < m)
    BY <2>2, <2>3, <1>2
  <2> QED BY <2>4, <1>2
<1>5. m \in 0 .. Cap
  BY <1>1, <1>2, <1>4
<1>6. m = 0 \/ \E a \in Area : l[a] = m
  <2>1. SUFFICES ASSUME m # 0, \A a \in Area : l[a] # m PROVE FALSE
    OBVIOUS
  <2>2. m - 1 \in T
    BY <2>1, <1>1, <1>5
  <2> QED BY <2>2, <1>4, <1>5, <1>1
<1>7. P(m)
  BY <1>6
<1> QED BY <1>5, <1>7 DEF MaxDupes

\* What is read from or written to a file, or cleared for a new one, is a ring.
LEMMA FileTypes ==
    ASSUME NEW r \in Ring, NEW lim \in 0 .. Cap
    PROVE  /\ Written(r, lim) \in Image
           /\ Cleared(r, lim) \in Ring
           /\ \A f \in Image \cup {Empty} : ReadInto(r, f, lim) \in Ring
           /\ \A n \in 0 .. Cap, c \in Crc \cup {Zero} : Check(r, lim, n, c) \in Ring
<1>1. Written(r, lim) \in Image
  BY DEF Written, Image
<1>2. Cleared(r, lim) \in Ring
  BY RingAssumption DEF Cleared, Ring
<1>3. ASSUME NEW f \in Image \cup {Empty} PROVE ReadInto(r, f, lim) \in Ring
  <2>1. CASE f = Empty
    BY <2>1 DEF ReadInto
  <2>2. CASE f # Empty
    BY <1>3, <2>2 DEF ReadInto, Image, Ring
  <2> QED BY <2>1, <2>2
<1>4. ASSUME NEW n \in 0 .. Cap, NEW c \in Crc \cup {Zero}
      PROVE  Check(r, lim, n, c) \in Ring
  BY InsertType DEF Check, Inserts, Consults
<1> QED BY <1>1, <1>2, <1>3, <1>4

\* opensqd and closesqd leave files that are files and a ring that is a ring.
LEMMA OpenCloseTypes ==
    ASSUME TypeOK
    PROVE  /\ Closed \in [Area -> File]
           /\ ClosedHist \in [Area -> Seq(Crc)]
           /\ \A a \in Area, fs \in [Area -> File] :
                 Opened(a, fs) \in Ring /\ Created(a, fs) \in [Area -> File]
<1> USE DEF TypeOK, File
<1>1. \A a \in Area : limit[a] \in 0 .. Cap
  BY BaseAssumption
<1>2. Closed \in [Area -> File]
  BY <1>1, FileTypes DEF Closed, WritesBack
<1>3. ClosedHist \in [Area -> Seq(Crc)]
  BY DEF ClosedHist, WritesBack
<1>4. ASSUME NEW a \in Area, NEW fs \in [Area -> File]
      PROVE  Opened(a, fs) \in Ring /\ Created(a, fs) \in [Area -> File]
  BY <1>1, FileTypes DEF Opened, Created
<1> QED BY <1>2, <1>3, <1>4

\* A fresh process finds every variable in its type.
LEMMA InitType == Init => TypeOK
<1>0. <<>> \in Seq(Crc)
  OBVIOUS
<1> SUFFICES ASSUME Init PROVE TypeOK
  OBVIOUS
<1>1. alloc \in 0 .. Cap
  BY MaxDupesFact DEF Init
<1>2. stored \in [Area -> Seq(Crc)] /\ hist \in Seq(Crc)
  BY <1>0 DEF Init
<1>3. sqp \in [Area -> File] /\ netdup \in File
  BY DEF Init, File
<1> QED BY <1>1, <1>2, <1>3 DEF Init, TypeOK, FreshRing

\* Type correctness: the counters of the ring stay inside dupbuf, whatever
\* files are read and whatever areas share the ring.
THEOREM TypeCorrect == Spec => []TypeOK
<1>0. <<>> \in Seq(Crc)
  OBVIOUS
<1>1. Init => TypeOK
  BY InitType
<1>2. TypeOK /\ [Next]_vars => TypeOK'
  <2> SUFFICES ASSUME TypeOK, [Next]_vars PROVE TypeOK'
    OBVIOUS
  <2> USE DEF TypeOK
  <2>1. \A a \in Area : limit[a] \in 0 .. Cap
    BY BaseAssumption
  <2>2. ASSUME NEW a \in Area, SetArea(a) PROVE TypeOK'
    BY <2>2, OpenCloseTypes DEF SetArea
  <2>3. ASSUME NEW a \in Area, PersCopy(a) PROVE TypeOK'
    BY <2>3, OpenCloseTypes DEF PersCopy
  <2>4. ASSUME NEW c \in Crc \cup {Zero}, Toss(c) PROVE TypeOK'
    <3>1. ring' \in Ring
      BY <2>1, <2>4, FileTypes DEF Toss
    <3>2. hist' \in Seq(Crc)
      <4>1. CASE limit[newarea] > 0 /\ c # Zero
        <5>1. Recent(hist, limit[newarea], c) \in Seq(Crc)
          BY <4>1, <2>1, <2>4 DEF Recent, Toss
        <5> QED BY <5>1, <2>4 DEF Toss
      <4>2. CASE ~(limit[newarea] > 0 /\ c # Zero)
        BY <4>2, <2>4 DEF Toss
      <4> QED BY <4>1, <4>2
    <3> QED BY <2>4, <3>1, <3>2 DEF Toss
  <2>5. ASSUME NEW c \in Crc \cup {Zero}, Netmail(c) PROVE TypeOK'
    <3> DEFINE lim == limit[newarea]
               loaded == IF netdup = NoFile THEN Cleared(ring, lim)
                         ELSE ReadInto(ring, netdup, lim)
    <3>1. lim \in 0 .. Cap /\ newarea \in Area
      BY <2>1, <2>5 DEF Netmail
    <3>2. loaded \in Ring
      BY <3>1, FileTypes DEF File
    <3>3. Check(loaded, lim, alloc, c) \in Ring
      BY <3>1, <3>2, FileTypes
    <3>4. /\ Written(loaded, lim) \in Image
          /\ Written(Check(loaded, lim, alloc, c), lim) \in Image
      BY <3>1, <3>2, <3>3, FileTypes
    <3> HIDE DEF loaded
    <3>5. ring' \in Ring /\ netdup' \in File
      BY <2>5, <3>3, <3>4 DEF Netmail, File, loaded
    <3> QED BY <2>5, <3>5 DEF Netmail
  <2>6. CASE EndPacket
    BY <1>0, <2>6, OpenCloseTypes DEF EndPacket
  <2>7. CASE Backup
    BY <2>7, UndoType DEF Backup
  <2>8. ASSUME NEW l \in [Area -> Limits], Restart(l) PROVE TypeOK'
    <3>1. stored' \in [Area -> Seq(Crc)] /\ hist' \in Seq(Crc)
      BY <1>0, <2>8 DEF Restart
    <3>2. alloc' \in 0 .. Cap
      BY <2>8, MaxDupesFact DEF Restart
    <3> QED BY <2>8, <3>1, <3>2 DEF Restart, FreshRing
  <2>9. CASE UNCHANGED vars
    BY <2>9 DEF vars
  <2> QED BY <2>2, <2>3, <2>4, <2>5, <2>6, <2>7, <2>8, <2>9 DEF Next
<1> QED BY <1>1, <1>2, PTL DEF Spec

-----------------------------------------------------------------------------
(* No area answers for another's messages *)

\* Closing an area leaves only files that belong to their areas, and no empty
\* one unless the area is abandoned without an accepted message.
LEMMA ClosedOwn ==
    ASSUME OwnInv
    PROVE  /\ \A a \in Area : Closed[a] \in Image =>
                 Closed[a].slots = limit[a] /\ OwnSlots(Closed[a].ring, limit[a], a)
           /\ ~(Barren /\ ~duptouch) => \A a \in Area : Closed[a] # Empty
<1>1. ASSUME NEW a \in Area, Closed[a] \in Image
      PROVE  Closed[a].slots = limit[a] /\ OwnSlots(Closed[a].ring, limit[a], a)
  <2>1. CASE WritesBack /\ a = newarea
    BY <2>1 DEF OwnInv, TypeOK, Closed, Controlled, WritesBack, Written
  <2>2. CASE ~(WritesBack /\ a = newarea)
    BY <1>1, <2>2 DEF OwnInv, TypeOK, Closed
  <2> QED BY <2>1, <2>2
<1>2. ASSUME ~(Barren /\ ~duptouch), NEW a \in Area PROVE Closed[a] # Empty
  <2>1. CASE WritesBack /\ a = newarea
    <3>1. Closed[a] \in Image
      BY <2>1, FileTypes, BaseAssumption DEF OwnInv, TypeOK, Closed, WritesBack
    <3> QED BY <3>1, BaseAssumption
  <2>2. CASE ~(WritesBack /\ a = newarea)
    <3>1. Closed[a] = sqp[a]
      BY <2>2 DEF OwnInv, TypeOK, Closed
    <3> QED BY <3>1, <1>2, <2>2 DEF OwnInv, Barren, WritesBack
  <2> QED BY <2>1, <2>2
<1> QED BY <1>1, <1>2

\* Opening an area from a file of its own, or from none, gives a ring of its own.
LEMMA OpenedOwn ==
    ASSUME TypeOK, NEW a \in Area, NEW fs \in [Area -> File], fs[a] # Empty,
           fs[a] \in Image => fs[a].slots = limit[a] /\ OwnSlots(fs[a].ring, limit[a], a),
           limit[a] > 0
    PROVE  OwnSlots(Opened(a, fs), limit[a], a)
<1>1. limit[a] \in 1 .. Cap /\ Cap \in Nat
  <2>1. limit[a] \in Limits /\ Limits \subseteq 0 .. Cap
    BY BaseAssumption DEF TypeOK
  <2>2. limit[a] \in 0 .. Cap /\ Cap \in Nat
    BY <2>1, RingAssumption
  <2> QED BY <2>2
<1>2. CASE fs[a] = NoFile
  <2>1. Opened(a, fs) = Cleared(ring, limit[a])
    BY <1>2 DEF Opened
  <2> QED BY <2>1, <1>1 DEF Cleared, OwnSlots, Slots
<1>3. CASE fs[a] # NoFile
  <2>1. fs[a] \in Image
    BY <1>3 DEF File
  <2>2. Opened(a, fs) = ReadInto(ring, fs[a], limit[a])
    BY <1>1, <1>3 DEF Opened
  <2> QED BY <2>1, <2>2, <1>1 DEF ReadInto, OwnSlots, Slots
<1> QED BY <1>2, <1>3

\* An insertion adds the new checksum only to what a ring's slots contain.
LEMMA InsertOwn ==
    ASSUME NEW r \in Ring, NEW lim \in 1 .. Cap, NEW S, NEW c \in Crc,
           r.max <= lim, \A s \in 1 .. lim : r.buf[s] \in S \cup {Zero}
    PROVE  /\ Insert(r, lim, c).max <= lim
           /\ \A s \in 1 .. lim : Insert(r, lim, c).buf[s] \in S \cup {c, Zero}
<1>1. /\ r.max \in 0 .. Cap /\ r.cur \in 0 .. Cap /\ Cap \in Nat
      /\ r.buf \in [Slots -> Crc \cup {Zero}] /\ 1 .. lim \subseteq Slots
  BY RingAssumption DEF Ring, Slots
<1>2. Insert(r, lim, c).max <= lim
  BY <1>1 DEF Insert
<1>3. PICK t : Insert(r, lim, c).buf = [r.buf EXCEPT ![t] = c]
  BY DEF Insert
<1> QED BY <1>1, <1>2, <1>3

\* An erasure adds nothing to what a ring's slots contain.
LEMMA UndoOwn ==
    ASSUME NEW r \in Ring, NEW lim \in 1 .. Cap, NEW S,
           r.max <= lim, \A s \in 1 .. lim : r.buf[s] \in S \cup {Zero}
    PROVE  /\ Undo(r).max <= lim
           /\ \A s \in 1 .. lim : Undo(r).buf[s] \in S \cup {Zero}
<1>1. r.buf \in [Slots -> Crc \cup {Zero}] /\ 1 .. lim \subseteq Slots
  BY RingAssumption DEF Ring, Slots
<1>2. PICK u : Undo(r).buf = [r.buf EXCEPT ![u] = Zero]
  BY DEF Undo
<1> QED BY <1>1, <1>2 DEF Undo

\* The next-state relation keeps OwnInv where duplicates are told by the area's
\* own ring: messages may be put aside, but no other file is read into the
\* ring, no new area is left barren and no limit is changed.
LEMMA OwnStep ==
    ASSUME Conditions \subseteq {"backup"}, OwnInv, TypeOK', [Next]_vars
    PROVE  OwnInv'
<1>1. /\ \A a \in Area : limit[a] \in 0 .. Cap
      /\ "barren" \notin Conditions /\ "netmail" \notin Conditions
      /\ "carbon" \notin Conditions /\ "reconf" \notin Conditions
  BY BaseAssumption DEF OwnInv, TypeOK
<1>2. ASSUME NEW a \in Area, SetArea(a) PROVE OwnInv'
  <2> DEFINE fs == Closed
  <2>1. fs \in [Area -> File] /\ TypeOK
    BY OpenCloseTypes DEF OwnInv
  <2>2. /\ \A b \in Area : fs[b] # Empty
        /\ \A b \in Area : fs[b] \in Image =>
              fs[b].slots = limit[b] /\ OwnSlots(fs[b].ring, limit[b], b)
    BY <1>1, <1>2, ClosedOwn DEF SetArea
  <2> HIDE DEF fs
  <2>3. /\ sqp' = Created(a, fs) /\ ring' = Opened(a, fs)
        /\ newarea' = a /\ open' = TRUE /\ limit' = limit /\ seen' = seen
    BY <1>2 DEF SetArea, fs
  <2>4. Controlled' => OwnSlots(ring, limit[newarea], newarea)'
    BY <2>1, <2>2, <2>3, OpenedOwn DEF Controlled, OwnSlots
  <2>5. \A b \in Area : sqp'[b] \in Image =>
           sqp'[b].slots = limit[b] /\ OwnSlots(sqp'[b].ring, limit[b], b)
    BY <2>1, <2>2, <2>3, BaseAssumption DEF Created
  <2>6. \A b \in Area : sqp'[b] = Empty => b = a /\ limit[a] > 0
    BY <2>1, <2>2, <2>3 DEF Created
  <2> QED BY <2>3, <2>4, <2>5, <2>6 DEF OwnInv, OwnSlots
<1>3. ASSUME NEW a \in Area, PersCopy(a) PROVE OwnInv'
  BY <1>1, <1>3 DEF PersCopy
<1>4. ASSUME NEW c \in Crc \cup {Zero}, Toss(c) PROVE OwnInv'
  <2>1. newarea \in Area /\ open /\ limit' = limit /\ sqp' = sqp /\ newarea' = newarea
        /\ open' = open
    BY <1>4 DEF Toss, OwnInv, TypeOK
  <2>2. \A a \in Area : seen[a] \subseteq seen'[a]
    BY <1>4, <2>1 DEF Toss, OwnInv, TypeOK
  <2>3. ASSUME limit[newarea] > 0
        PROVE  OwnSlots(ring, limit[newarea], newarea)'
    <3>1. limit[newarea] \in 1 .. Cap /\ OwnSlots(ring, limit[newarea], newarea) /\ ring \in Ring
      BY <1>1, <2>1, <2>3 DEF OwnInv, TypeOK, Controlled
    <3>2. CASE Consults(ring, alloc, c) /\ ~Known(ring, c)
      <4>1. c \in Crc /\ ring' = Insert(ring, limit[newarea], c)
        BY <1>4, <3>2 DEF Toss, Check, Inserts, Consults
      <4>2. c \in seen'[newarea]
        BY <1>4, <2>1, <2>3, <3>2, <4>1 DEF Toss, IsDupe, Consults, OwnInv, TypeOK
      <4>3. /\ ring'.max <= limit[newarea]
            /\ \A s \in 1 .. limit[newarea] :
                  ring'.buf[s] \in seen[newarea] \cup {c, Zero}
        BY <3>1, <4>1, InsertOwn DEF OwnSlots
      <4> QED BY <2>1, <2>2, <4>2, <4>3 DEF OwnSlots
    <3>3. CASE ~(Consults(ring, alloc, c) /\ ~Known(ring, c))
      <4>1. ring' = ring
        BY <1>4, <3>3 DEF Toss, Check, Inserts
      <4> QED BY <2>1, <2>2, <3>1, <4>1 DEF OwnSlots
    <3> QED BY <3>2, <3>3
  <2>4. \A a \in Area : sqp[a] \in Image =>
           sqp'[a].slots = limit'[a] /\ OwnSlots(sqp[a].ring, limit[a], a)'
    BY <2>1, <2>2 DEF OwnInv, OwnSlots
  <2>5. Controlled' => OwnSlots(ring, limit[newarea], newarea)'
    BY <2>1, <2>3 DEF Controlled
  <2>6. \A a \in Area : sqp'[a] = Empty => open' /\ newarea' = a /\ limit'[a] > 0
    BY <2>1 DEF OwnInv
  <2> QED BY <2>1, <2>4, <2>5, <2>6 DEF OwnInv, OwnSlots
<1>5. ASSUME NEW c \in Crc \cup {Zero}, Netmail(c) PROVE OwnInv'
  BY <1>1, <1>5 DEF Netmail
<1>6. CASE EndPacket
  <2>1. /\ \A a \in Area : Closed[a] # Empty
        /\ \A a \in Area : Closed[a] \in Image =>
              Closed[a].slots = limit[a] /\ OwnSlots(Closed[a].ring, limit[a], a)
    BY <1>1, <1>6, ClosedOwn DEF EndPacket
  <2>2. sqp' = Closed /\ limit' = limit /\ seen' = seen /\ ~open'
    BY <1>6 DEF EndPacket
  <2> HIDE DEF Closed
  <2> QED BY <2>1, <2>2 DEF OwnInv, Controlled, OwnSlots
<1>7. CASE Backup
  <2>1. newarea \in Area /\ limit[newarea] \in 0 .. Cap /\ ring \in Ring
    BY <1>1, <1>7 DEF Backup, OwnInv, TypeOK
  <2>2. limit[newarea] > 0 => OwnSlots(Undo(ring), limit[newarea], newarea)
    <3>1. SUFFICES ASSUME limit[newarea] > 0
                   PROVE  OwnSlots(Undo(ring), limit[newarea], newarea)
      OBVIOUS
    <3>2. /\ ring.max <= limit[newarea]
          /\ \A s \in 1 .. limit[newarea] : ring.buf[s] \in seen[newarea] \cup {Zero}
      BY <1>7, <3>1 DEF Backup, OwnInv, Controlled, OwnSlots
    <3>3. limit[newarea] \in 1 .. Cap
      BY <2>1, <3>1
    <3> QED BY <2>1, <3>2, <3>3, UndoOwn DEF OwnSlots
  <2> QED BY <1>7, <2>1, <2>2 DEF Backup, OwnInv, Controlled, OwnSlots
<1>8. ASSUME NEW l \in [Area -> Limits], Restart(l) PROVE OwnInv'
  <2>1. limit' = limit /\ ~Barren /\ sqp' = sqp /\ seen' = seen /\ ~open'
    BY <1>1, <1>8 DEF Restart
  <2> QED BY <2>1 DEF OwnInv, Barren, Controlled, OwnSlots
<1>9. CASE UNCHANGED vars
  BY <1>9 DEF vars, OwnInv, OwnSlots, Controlled
<1> QED BY <1>2, <1>3, <1>4, <1>5, <1>6, <1>7, <1>8, <1>9 DEF Next

\* Where messages may be put aside but no other file enters the ring, a message
\* is rejected as a duplicate only in an area that has accepted it before.
THEOREM OwnDupes ==
    ASSUME Conditions \subseteq {"backup"}
    PROVE  Spec => []OnlyOwnDupes
<1>1. Init => OwnInv
  <2> SUFFICES ASSUME Init PROVE OwnInv
    OBVIOUS
  <2>1. TypeOK
    BY InitType
  <2> QED BY <2>1, BaseAssumption DEF Init, OwnInv, Controlled
<1>2. OwnInv /\ TypeOK' /\ [Next]_vars => OwnInv'
  BY OwnStep
<1>3. OwnInv => OnlyOwnDupes
  <2> SUFFICES ASSUME OwnInv, Controlled, NEW c \in Crc, IsDupe(ring, alloc, c)
               PROVE  c \in seen[newarea]
    BY DEF OnlyOwnDupes
  <2>1. PICK s \in 1 .. ring.max : ring.buf[s] = c
    BY DEF IsDupe, Known
  <2>2. s \in 1 .. limit[newarea]
    <3>1. newarea \in Area /\ limit[newarea] \in 0 .. Cap /\ ring.max \in 0 .. Cap
      BY BaseAssumption DEF OwnInv, TypeOK, Controlled, Ring
    <3> QED BY <3>1, RingAssumption DEF OwnInv, OwnSlots
  <2> QED BY <2>1, <2>2, RingAssumption DEF OwnInv, OwnSlots
<1> QED BY <1>1, <1>2, <1>3, TypeCorrect, PTL DEF Spec

-----------------------------------------------------------------------------
(* The last messages of an area are remembered *)

\* Reading back a file that was written with the area's limit restores what it
\* holds: the slots the window occupies are all in the file.
LEMMA ReadHolds ==
    ASSUME NEW r \in Ring, NEW f \in Image, NEW lim \in 1 .. Cap,
           NEW h \in Seq(Crc), f.slots = lim, Holds(f.ring, lim, h)
    PROVE  Holds(ReadInto(r, f, lim), lim, h)
<1> DEFINE q == ReadInto(r, f, lim)
<1>1. /\ f.ring \in Ring /\ f # Empty /\ Cap \in Nat
      /\ f.ring.cur \in 0 .. Cap /\ f.ring.max \in 0 .. Cap /\ Len(h) \in Nat
  BY RingAssumption, BaseAssumption DEF Image, Ring
<1>2. /\ q.max = f.ring.max /\ q.cur = f.ring.cur
      /\ \A s \in 1 .. lim : q.buf[s] = f.ring.buf[s]
  BY <1>1 DEF ReadInto, Slots
<1> HIDE DEF q
<1>3. ASSUME NEW j \in 0 .. (Len(h) - 1)
      PROVE  q.buf[Back(q.cur, j, lim)] = h[Len(h) - j]
  <2>1. Back(q.cur, j, lim) \in 1 .. lim
    BY <1>1, <1>2 DEF Holds, Back
  <2> QED BY <2>1, <1>2 DEF Holds
<1>4. /\ q.cur <= q.max
      /\ Len(h) <= lim
      /\ h # <<>> => q.cur \in 1 .. lim
      /\ Len(h) > q.cur => q.max >= lim
  BY <1>2 DEF Holds
<1> QED BY <1>3, <1>4 DEF Holds, q

\* closesqd leaves every file holding what is recorded as stored in it.
LEMMA ClosedHold ==
    ASSUME HoldInv, NEW a \in Area
    PROVE  /\ Closed[a] \in Image => Holds(Closed[a].ring, limit[a], ClosedHist[a])
           /\ ClosedHist[a] # <<>> => Closed[a] \in Image
<1>1. TypeOK
  BY DEF HoldInv, OwnInv
<1>2. CASE WritesBack /\ a = newarea
  <2>1. /\ Closed[a] = Written(ring, limit[a]) /\ ClosedHist[a] = hist
    BY <1>1, <1>2 DEF Closed, ClosedHist, TypeOK
  <2>2. Written(ring, limit[a]) \in Image
    BY <1>1, BaseAssumption, FileTypes DEF TypeOK
  <2>3. Holds(ring, limit[a], hist)
    BY <1>2 DEF HoldInv, Controlled, WritesBack
  <2> QED BY <2>1, <2>2, <2>3 DEF Written
<1>3. CASE ~(WritesBack /\ a = newarea)
  <2>1. Closed[a] = sqp[a] /\ ClosedHist[a] = stored[a]
    BY <1>1, <1>3 DEF Closed, ClosedHist, TypeOK
  <2> QED BY <2>1 DEF HoldInv
<1> QED BY <1>2, <1>3

\* The next-state relation keeps HoldInv when none of the special circumstances
\* occurs.
LEMMA HoldStep ==
    ASSUME Conditions = {}, HoldInv, OwnInv', [Next]_vars
    PROVE  HoldInv'
<1>1. TypeOK /\ OwnInv /\ Cap \in Nat /\ \A a \in Area : limit[a] \in 0 .. Cap
  BY RingAssumption, BaseAssumption DEF HoldInv, OwnInv, TypeOK
<1>2. ASSUME NEW a \in Area, SetArea(a) PROVE HoldInv'
  <2> DEFINE fs == Closed
             h  == ClosedHist
  <2>1. fs \in [Area -> File] /\ h \in [Area -> Seq(Crc)]
    BY <1>1, OpenCloseTypes
  <2>2. /\ \A b \in Area : fs[b] \in Image => Holds(fs[b].ring, limit[b], h[b])
        /\ \A b \in Area : h[b] # <<>> => fs[b] \in Image
    BY ClosedHold
  <2>3. /\ fs[a] # Empty
        /\ fs[a] \in Image => fs[a].slots = limit[a]
    BY <1>1, <1>2, ClosedOwn DEF SetArea
  <2> HIDE DEF fs, h
  <2>4. /\ sqp' = Created(a, fs) /\ ring' = Opened(a, fs)
        /\ stored' = h /\ hist' = h[a] /\ newarea' = a /\ open' = TRUE
        /\ limit' = limit /\ alloc' = alloc /\ duptouch' = FALSE
    BY <1>2 DEF SetArea, fs, h
  <2>5. \A b \in Area : sqp'[b] \in Image => Holds(sqp[b].ring, limit[b], stored[b])'
    BY <2>1, <2>2, <2>4, BaseAssumption DEF Created
  <2>6. \A b \in Area : stored'[b] # <<>> => sqp'[b] \in Image
    BY <2>1, <2>2, <2>4, BaseAssumption DEF Created
  <2>7. ASSUME limit[a] > 0
        PROVE  Holds(ring', limit[a], h[a]) /\ sqp'[a] # NoFile
    <3>1. CASE fs[a] = NoFile
      <4>1. h[a] = <<>> /\ Len(h[a]) = 0
        BY <3>1, <2>2, BaseAssumption
      <4>2. ring' = Cleared(ring, limit[a]) /\ sqp'[a] = Empty
        BY <2>1, <2>4, <2>7, <3>1 DEF Opened, Created
      <4> QED BY <4>1, <4>2, <1>1, BaseAssumption DEF Cleared, Holds
    <3>2. CASE fs[a] # NoFile
      <4>1. fs[a] \in Image
        BY <2>1, <2>3, <3>2 DEF File
      <4>2. ring' = ReadInto(ring, fs[a], limit[a]) /\ sqp'[a] = fs[a]
        BY <1>1, <2>1, <2>4, <2>7, <3>2 DEF Opened, Created
      <4>3. ring \in Ring /\ limit[a] \in 1 .. Cap /\ h[a] \in Seq(Crc)
        BY <1>1, <2>1, <2>7 DEF TypeOK
      <4> QED BY <4>1, <4>2, <4>3, <2>2, <2>3, <3>2, ReadHolds
    <3> QED BY <3>1, <3>2
  <2>8. Controlled' => /\ Holds(ring, limit[newarea], hist)'
                       /\ sqp'[newarea'] # NoFile
                       /\ hist' = stored'[newarea']
    BY <2>4, <2>7 DEF Controlled
  <2> QED BY <2>4, <2>5, <2>6, <2>8 DEF HoldInv
<1>3. ASSUME NEW a \in Area, PersCopy(a) PROVE HoldInv'
  BY <1>3 DEF PersCopy
<1>4. ASSUME NEW c \in Crc \cup {Zero}, Toss(c) PROVE HoldInv'
  <2>1. /\ newarea \in Area /\ open /\ limit' = limit /\ sqp' = sqp
        /\ newarea' = newarea /\ open' = open /\ stored' = stored /\ alloc' = alloc
    BY <1>1, <1>4 DEF Toss, TypeOK
  <2>2. ASSUME limit[newarea] > 0
        PROVE  /\ Holds(ring', limit[newarea], hist')
               /\ duptouch' \/ hist' = stored[newarea]
    <3>1. /\ Holds(ring, limit[newarea], hist) /\ ring \in Ring /\ hist \in Seq(Crc)
          /\ limit[newarea] \in 1 .. Cap
      BY <1>1, <2>1, <2>2 DEF HoldInv, Controlled, TypeOK
    <3>2. ring.max <= alloc
      <4>1. /\ ring.max \in 0 .. Cap /\ ring.max <= limit[newarea]
            /\ limit[newarea] <= alloc /\ alloc \in 0 .. Cap
        BY <1>1, <2>1, <2>2, MaxDupesFact
           DEF HoldInv, OwnInv, OwnSlots, Controlled, TypeOK, Ring
      <4> QED BY <4>1, <3>1, <1>1
    <3>3. CASE Inserts(ring, alloc, c)
      <4>1. c \in Crc /\ c # Zero /\ ~IsDupe(ring, alloc, c)
        BY <3>3 DEF Inserts, Consults, IsDupe
      <4>2. /\ ring' = Insert(ring, limit[newarea], c)
            /\ hist' = Recent(hist, limit[newarea], c)
            /\ duptouch'
        BY <1>4, <2>2, <3>3, <4>1 DEF Toss, Check
      <4> QED BY <3>1, <4>1, <4>2, InsertHolds
    <3>4. CASE ~Inserts(ring, alloc, c)
      <4>1. ring' = ring
        BY <1>4, <3>4 DEF Toss, Check
      <4>2. c = Zero \/ IsDupe(ring, alloc, c)
        BY <3>2, <3>4 DEF Inserts, IsDupe, Consults
      <4>3. hist' = hist
        BY <1>4, <2>2, <4>2 DEF Toss
      <4>4. duptouch => duptouch'
        BY <1>4, Zenon DEF Toss
      <4>5. ~duptouch => hist = stored[newarea]
        BY <2>1, <2>2 DEF HoldInv, Controlled
      <4> QED BY <4>1, <4>3, <4>4, <4>5, <3>1
    <3> QED BY <3>3, <3>4
  <2>3. \A a \in Area : sqp'[a] \in Image => Holds(sqp[a].ring, limit[a], stored[a])'
    BY <2>1 DEF HoldInv
  <2>4. Controlled' => /\ Holds(ring, limit[newarea], hist)'
                       /\ sqp'[newarea'] # NoFile
                       /\ ~duptouch' => hist' = stored'[newarea']
    BY <2>1, <2>2 DEF Controlled, HoldInv
  <2> QED BY <2>1, <2>3, <2>4 DEF HoldInv
<1>5. ASSUME NEW c \in Crc \cup {Zero}, Netmail(c) PROVE HoldInv'
  BY <1>5 DEF Netmail
<1>6. CASE EndPacket
  <2> DEFINE fs == Closed
             h  == ClosedHist
  <2>1. \A a \in Area : /\ fs[a] \in Image => Holds(fs[a].ring, limit[a], h[a])
                        /\ h[a] # <<>> => fs[a] \in Image
    BY ClosedHold
  <2>2. /\ sqp' = fs /\ stored' = h /\ limit' = limit /\ alloc' = alloc /\ ~open'
    BY <1>6 DEF EndPacket
  <2> HIDE DEF fs, h
  <2>3. \A a \in Area : sqp'[a] \in Image => Holds(sqp[a].ring, limit[a], stored[a])'
    BY <2>1, <2>2
  <2>4. \A a \in Area : stored'[a] # <<>> => sqp'[a] \in Image
    BY <2>1, <2>2
  <2>5. ~Controlled'
    BY <2>2 DEF Controlled
  <2>6. alloc' = MaxDupes(limit)'
    BY <2>2 DEF HoldInv
  <2> QED BY <2>3, <2>4, <2>5, <2>6 DEF HoldInv
<1>7. CASE Backup
  BY <1>7 DEF Backup
<1>8. ASSUME NEW l \in [Area -> Limits], Restart(l) PROVE HoldInv'
  <2>1. limit' = limit /\ sqp' = sqp /\ ~open' /\ alloc' = MaxDupes(limit)
    BY <1>8 DEF Restart
  <2>2. stored' = stored
    BY <1>1, <1>8, <2>1 DEF Restart, TypeOK
  <2>3. alloc' = alloc
    BY <2>1 DEF HoldInv
  <2>4. /\ \A a \in Area : sqp'[a] \in Image => Holds(sqp[a].ring, limit[a], stored[a])'
        /\ \A a \in Area : stored'[a] # <<>> => sqp'[a] \in Image
        /\ alloc' = MaxDupes(limit)'
    BY <2>1, <2>2, <2>3 DEF HoldInv
  <2>5. ~Controlled'
    BY <2>1 DEF Controlled
  <2> QED BY <2>4, <2>5 DEF HoldInv
<1>9. CASE UNCHANGED vars
  BY <1>9 DEF vars, HoldInv, Controlled
<1> QED BY <1>2, <1>3, <1>4, <1>5, <1>6, <1>7, <1>8, <1>9 DEF Next

\* In ordinary operation - areas alternating, packets ending, the process killed
\* and restarted at any point - the open area's ring recognises each of the last
\* `dupes' messages it accepted and has not lost to a kill.
THEOREM Remembered ==
    ASSUME Conditions = {}
    PROVE  Spec => []LastNRemembered
<1>1. Init => HoldInv
  <2> SUFFICES ASSUME Init PROVE HoldInv
    OBVIOUS
  <2>1. OwnInv
    BY InitType, BaseAssumption DEF Init, OwnInv, Controlled
  <2> QED BY <2>1, BaseAssumption DEF Init, HoldInv, Controlled
<1>2. HoldInv /\ TypeOK' /\ [Next]_vars => HoldInv'
  BY OwnStep, HoldStep DEF HoldInv
<1>3. HoldInv => LastNRemembered
  <2> SUFFICES ASSUME HoldInv, Controlled, NEW i \in 1 .. Len(hist)
               PROVE  IsDupe(ring, alloc, hist[i])
    BY DEF LastNRemembered
  <2>1. /\ newarea \in Area /\ ring \in Ring /\ hist \in Seq(Crc)
        /\ limit \in [Area -> Limits] /\ limit[newarea] \in 0 .. Cap
    BY BaseAssumption DEF HoldInv, OwnInv, TypeOK, Controlled
  <2>2. limit[newarea] \in 1 .. Cap /\ Cap \in Nat
    BY <2>1, RingAssumption DEF Controlled
  <2>3. Known(ring, hist[i])
    BY <2>1, <2>2, HoldsKnown DEF HoldInv
  <2>4. hist[i] # Zero
    BY <2>1, RingAssumption
  <2>5. ring.max <= alloc
    <3>1. /\ ring.max \in 0 .. Cap /\ ring.max <= limit[newarea]
          /\ limit[newarea] <= alloc /\ alloc \in 0 .. Cap
      BY <2>1, MaxDupesFact DEF HoldInv, OwnInv, OwnSlots, Controlled, TypeOK, Ring
    <3> QED BY <3>1, <2>2
  <2> QED BY <2>3, <2>4, <2>5 DEF IsDupe, Consults
<1> QED BY <1>1, <1>2, <1>3, TypeCorrect, PTL DEF Spec

-----------------------------------------------------------------------------
(* Netmail answers only for netmail *)

\* A ring whose first n slots are erased or hold checksums of netmail.
NetSlots(r, n) ==
    /\ r.max <= n
    /\ \A s \in 1 .. n : r.buf[s] \in netseen \cup {Zero}

\* The netmail file was written with the limit n and holds netmail alone.
NetOwn(n) ==
    /\ netdup # Empty
    /\ netdup \in Image => netdup.slots = n /\ NetSlots(netdup.ring, n)

\* What buftomsg reads into the ring holds netmail alone, whatever was there.
LEMMA LoadedOwn ==
    ASSUME TypeOK, NEW n \in 1 .. Cap, NetOwn(n), netdup # NoFile
    PROVE  NetSlots(ReadInto(ring, netdup, n), n)
<1>1. netdup \in Image /\ netdup # Empty
  BY DEF NetOwn, TypeOK, File
<1>2. netdup.slots = n /\ NetSlots(netdup.ring, n)
  BY <1>1 DEF NetOwn
<1>3. 1 .. n \subseteq Slots /\ \A s \in 1 .. n : s <= n
  BY RingAssumption DEF Slots
<1> QED BY <1>1, <1>2, <1>3 DEF ReadInto, NetSlots

LEMMA NetStep ==
    ASSUME NEW n, Limits \subseteq {0, n}, TypeOK, NetOwn(n), [Next]_vars
    PROVE  NetOwn(n)'
<1>1. ASSUME NEW c \in Crc \cup {Zero}, Netmail(c) PROVE NetOwn(n)'
  <2> DEFINE loaded == IF netdup = NoFile THEN Cleared(ring, n) ELSE ReadInto(ring, netdup, n)
  <2>1. limit[newarea] = n /\ n \in 1 .. Cap
    <3>1. newarea \in Area /\ limit[newarea] > 0
      BY <1>1 DEF Netmail, TypeOK
    <3>2. limit[newarea] \in Limits /\ Limits \subseteq 0 .. Cap
      BY <3>1, BaseAssumption DEF TypeOK
    <3>3. limit[newarea] \in 0 .. Cap /\ Cap \in Nat
      BY <3>2, RingAssumption
    <3>4. limit[newarea] # 0
      BY <3>1
    <3>5. limit[newarea] = n
      BY <3>2, <3>4
    <3> QED BY <3>1, <3>3, <3>5
  <2>2. NetSlots(loaded, n)
    <3>1. CASE netdup = NoFile
      <4>1. 1 .. n \subseteq Slots /\ \A s \in 1 .. n : s <= n
        BY <2>1, RingAssumption DEF Slots
      <4> QED BY <2>1, <3>1, <4>1 DEF Cleared, NetSlots
    <3>2. CASE netdup # NoFile
      BY <2>1, <3>2, LoadedOwn
    <3> QED BY <3>1, <3>2
  <2>3. loaded \in Ring
    BY <2>1, FileTypes DEF TypeOK, File
  <2>4. /\ ring' = Check(loaded, n, alloc, c)
        /\ netdup' = (IF ~IsDupe(loaded, alloc, c) THEN Written(ring', n)
                      ELSE IF netdup = NoFile THEN Written(loaded, n) ELSE netdup)
        /\ netseen' = IF IsDupe(loaded, alloc, c) \/ c = Zero THEN netseen ELSE netseen \cup {c}
    BY <1>1, <2>1 DEF Netmail
  <2> HIDE DEF loaded
  <2>5. netseen \subseteq netseen'
    BY <2>4
  <2>6. ASSUME ~IsDupe(loaded, alloc, c)
        PROVE  NetSlots(ring, n)'
    <3>1. CASE Inserts(loaded, alloc, c)
      <4>1. c \in Crc /\ c # Zero /\ ring' = Insert(loaded, n, c)
        BY <2>4, <3>1, RingAssumption DEF Check, Inserts, Consults
      <4>2. c \in netseen'
        BY <2>4, <2>6, <4>1
      <4>3. /\ ring'.max <= n
            /\ \A s \in 1 .. n : ring'.buf[s] \in netseen \cup {c, Zero}
        BY <2>1, <2>2, <2>3, <4>1, InsertOwn DEF NetSlots
      <4> QED BY <2>5, <4>2, <4>3 DEF NetSlots
    <3>2. CASE ~Inserts(loaded, alloc, c)
      BY <2>2, <2>4, <2>5, <3>2 DEF Check, NetSlots
    <3> QED BY <3>1, <3>2
  <2>7. \A r : Written(r, n).slots = n /\ Written(r, n).ring = r
    BY DEF Written
  <2>8. ASSUME NEW r \in Ring  PROVE Written(r, n) # Empty
    <3>1. Written(r, n) \in Image
      BY <2>1, FileTypes
    <3> QED BY <3>1, BaseAssumption
  <2>9. CASE ~IsDupe(loaded, alloc, c)
    <3>1. ring' \in Ring /\ netdup' = Written(ring', n)
      BY <2>1, <2>3, <2>4, <2>9, FileTypes DEF TypeOK
    <3> QED BY <2>6, <2>7, <2>8, <2>9, <3>1 DEF NetOwn, NetSlots
  <2>10. CASE IsDupe(loaded, alloc, c) /\ netdup = NoFile
    BY <2>2, <2>3, <2>4, <2>5, <2>7, <2>8, <2>10 DEF NetOwn, NetSlots
  <2>11. CASE IsDupe(loaded, alloc, c) /\ netdup # NoFile
    BY <2>4, <2>11 DEF NetOwn, NetSlots
  <2> QED BY <2>9, <2>10, <2>11
<1>2. CASE UNCHANGED <<netdup, netseen>>
  BY <1>2 DEF NetOwn, NetSlots
<1>3. UNCHANGED <<netdup, netseen>> \/ \E c \in Crc \cup {Zero} : Netmail(c)
  BY DEF Next, SetArea, PersCopy, Toss, EndPacket, Backup, Restart, vars
<1> QED BY <1>1, <1>2, <1>3

\* Where every area with duplicate control has the same limit, a netmail message is
\* rejected only if that checksum was accepted as netmail, although its file is read
\* into the ring of whatever area is open (buftomsg.cpp) and areas are opened, copied
\* to and put aside in between.
THEOREM NetDupes ==
    ASSUME NEW n, Limits \subseteq {0, n}
    PROVE  Spec => []OnlyOwnNetDupes
<1>1. Init => NetOwn(n)
  BY BaseAssumption DEF Init, NetOwn
<1>2. TypeOK /\ NetOwn(n) /\ [Next]_vars => NetOwn(n)'
  BY NetStep
<1>3. TypeOK /\ NetOwn(n) => OnlyOwnNetDupes
  <2> SUFFICES ASSUME TypeOK, NetOwn(n), newarea # NoArea, limit[newarea] > 0,
                      netdup \notin {NoFile, Empty}, NEW c \in Crc,
                      IsDupe(ReadInto(ring, netdup, limit[newarea]), alloc, c)
               PROVE  c \in netseen
    BY DEF OnlyOwnNetDupes
  <2> DEFINE r == ReadInto(ring, netdup, n)
  <2>1. limit[newarea] = n /\ n \in 1 .. Cap
    <3>1. newarea \in Area
      BY DEF TypeOK
    <3>2. limit[newarea] \in Limits /\ Limits \subseteq 0 .. Cap
      BY <3>1, BaseAssumption DEF TypeOK
    <3>3. limit[newarea] \in 0 .. Cap /\ Cap \in Nat
      BY <3>2, RingAssumption
    <3>4. limit[newarea] # 0
      OBVIOUS
    <3>5. limit[newarea] = n
      BY <3>2, <3>4
    <3> QED BY <3>3, <3>5
  <2>2. NetSlots(r, n) /\ r \in Ring
    <3>1. netdup # NoFile /\ netdup \in Image \cup {Empty}
      BY DEF TypeOK, File
    <3>2. n \in 0 .. Cap /\ ring \in Ring
      BY <2>1, RingAssumption DEF TypeOK
    <3> QED BY <2>1, <3>1, <3>2, LoadedOwn, FileTypes
  <2>3. IsDupe(r, alloc, c)
    BY <2>1
  <2> HIDE DEF r
  <2>4. PICK s \in 1 .. r.max : r.buf[s] = c
    BY <2>3 DEF IsDupe, Known
  <2>5. s \in 1 .. n
    BY <2>1, <2>2, <2>4, RingAssumption DEF NetSlots, Ring
  <2> QED BY <2>2, <2>4, <2>5, RingAssumption DEF NetSlots
<1> QED BY <1>1, <1>2, <1>3, TypeCorrect, PTL DEF Spec
=============================================================================
