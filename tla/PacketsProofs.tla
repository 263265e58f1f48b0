---------------------------- MODULE PacketsProofs ----------------------------
(***************************************************************************)
(* Proofs about Packets: WriteInv is inductive, and with it every message  *)
(* is written through an open handle to the one packet of its link.        *)
(***************************************************************************)
EXTENDS Packets, FiniteSetTheorems, WellFoundedInduction, TLAPS

\* A nonempty set of naturals has a least element; Min is it.
LEMMA MinFact ==
    ASSUME NEW T, T \subseteq Nat, T # {}
    PROVE  Min(T) \in T /\ \A x \in T : Min(T) <= x
<1> DEFINE R == OpToRel(<, Nat)
<1>1. PICK m \in T : \A x \in T : ~(<<x, m>> \in R)
  BY NatLessThanWellFounded, WFMin
<1>2. R = {ss \in Nat \X Nat : ss[1] < ss[2]}
  BY Zenon DEF OpToRel
<1>3. \A x \in Nat : x < m => <<x, m>> \in R
  BY <1>2
<1>5. m \in T /\ m \in Nat
  OBVIOUS
<1> HIDE DEF R
<1>4. \A x \in T : m <= x
  <2>1. \A x \in T : ~(<<x, m>> \in R)
    BY <1>1
  <2>2. \A x \in T : x \in Nat /\ ~(x < m)
    BY <1>3, <2>1
  <2> QED
    BY <2>2
<1> QED
  BY <1>4 DEF Min

\* Current finds a packet of the link that is not filled, if there is one.
LEMMA CurrentFact ==
    ASSUME NEW k \in Links, pkts \in Seq(Packet)
    PROVE  /\ Current(k) \in 0 .. Len(pkts)
           /\ Current(k) # 0 => pkts[Current(k)].to = k /\ ~pkts[Current(k)].filled
           /\ Current(k) = 0 => \A p \in DOMAIN pkts : pkts[p].to = k => pkts[p].filled
<1> DEFINE T == {p \in 1 .. Len(pkts) : pkts[p].to = k /\ ~pkts[p].filled}
<1>1. Current(k) = IF T # {} THEN Min(T) ELSE 0
  BY Zenon DEF Current, SelectInSeq
<1>2. T \subseteq Nat /\ T \subseteq 1 .. Len(pkts)
  OBVIOUS
<1>3. T # {} => Min(T) \in T
  BY <1>2, MinFact
<1>4. DOMAIN pkts = 1 .. Len(pkts) /\ Len(pkts) \in Nat
  OBVIOUS
<1> QED
  BY <1>1, <1>3, <1>4

\* The list of links names each of them once, and is not empty.
LEMMA LinkFact ==
    /\ NumLinks \in Nat /\ NumLinks > 0
    /\ \A i \in 1 .. NumLinks : Link[i] \in Links
    /\ \A i, j \in 1 .. NumLinks : Link[i] = Link[j] => i = j
    /\ Nobody \notin Links
BY PacketsAssumption DEF NumLinks, Links, Range

\* The constants, one by one.
LEMMA ParamFact ==
    Safes \subseteq Nat /\ PktSize \in Nat /\ Handles \in Nat /\ Handles > 0 /\ MaxMsg \in Nat
BY PacketsAssumption

\* The invariant holds before the first message.
LEMMA InitInv == Init => WriteInv
<1> SUFFICES ASSUME Init PROVE WriteInv
  OBVIOUS
<1>0. <<>> \in Seq(Packet)
  OBVIOUS
<1>3. nomore \in BOOLEAN /\ ~nomore
  BY DEF Init
<1>1. TypeOK
  BY <1>0, <1>3, LinkFact, ParamFact DEF Init, TypeOK
<1>2. OneCurrent
  BY DEF Init, OneCurrent
<1> QED
  BY <1>1, <1>2 DEF Init, WriteInv

\* A message is handed over: nothing is opened yet.
LEMMA BeginInv ==
    ASSUME WriteInv, NEW to \in SUBSET Links, NEW handles \in 1 .. Handles, Begin(to, handles)
    PROVE  WriteInv'
<1>3. nomore' \in BOOLEAN /\ ~nomore'
  BY DEF Begin, Start
<1>1. TypeOK'
  BY <1>3, LinkFact, ParamFact DEF Begin, Start, WriteInv, TypeOK
<1>2. OneCurrent'
  BY DEF Begin, Start, WriteInv, OneCurrent
<1> QED
  BY <1>1, <1>2, LinkFact, ParamFact DEF Begin, Start, WriteInv, TypeOK

\* After a link was tried, whatever was done with its packet.
LEMMA TriedInv ==
    ASSUME WriteInv, pc = "link", NEW b \in BOOLEAN, Tried(b),
           pkts' \in Seq(Packet), OneCurrent',
           b => Ready(pkts', Link[plink]),
           \A k \in Links : Ready(pkts, k) => Ready(pkts', k)
    PROVE  WriteInv'
<1>0. /\ plink \in 1 .. NumLinks /\ numpa = plink - 1 /\ l \in 0 .. numpa /\ first = l /\ ~nomore
      /\ countp \in Nat /\ TypeOK /\ room > 0 /\ sent > 0 /\ NumLinks \in Nat
      /\ \A i \in l + 1 .. numpa : Ready(pkts, Link[i])
  BY LinkFact DEF WriteInv, TypeOK
<1>1. numpa' = IF b THEN plink ELSE plink - 1
  BY <1>0 DEF Tried
<1>2. pc' \in {"link", "write"} /\ l' = l
  BY <1>0 DEF Tried, WriteOpened
<1>3. \A i \in l' + 1 .. numpa' : Ready(pkts', Link[i])
  BY <1>0, <1>1, <1>2, LinkFact
<1>4. CASE b
  <2>1. /\ ~nomore' /\ plink' = (IF pc' = "link" THEN plink + 1 ELSE plink)
        /\ pc' = "link" => numpa' # NumLinks
    BY <1>4 DEF Tried, WriteOpened
  <2>2. plink' \in 1 .. NumLinks + 1 /\ (pc' = "link" => plink' <= NumLinks)
    BY <1>0, <1>1, <1>4, <2>1
  <2>3. TypeOK'
    BY <1>0, <1>1, <1>2, <1>4, <2>1, <2>2 DEF Tried, TypeOK
  <2> QED
    BY <1>0, <1>1, <1>2, <1>3, <1>4, <2>1, <2>2, <2>3 DEF WriteInv, Tried
<1>5. CASE ~b
  <2>1. nomore' /\ pc' = "write" /\ plink' = plink
    BY <1>5 DEF Tried, WriteOpened
  <2>2. TypeOK'
    BY <1>0, <1>1, <1>2, <1>5, <2>1 DEF Tried, TypeOK
  <2> QED
    BY <1>0, <1>1, <1>2, <1>3, <1>5, <2>1, <2>2 DEF WriteInv, Tried
<1> QED
  BY <1>4, <1>5

\* A step that adds no packet and begins none anew keeps OneCurrent.
LEMMA KeepCurrent ==
    ASSUME OneCurrent, DOMAIN pkts' = DOMAIN pkts,
           \A p \in DOMAIN pkts : pkts'[p].to = pkts[p].to /\ (pkts[p].filled => pkts'[p].filled)
    PROVE  OneCurrent'
BY DEF OneCurrent

\* Opening or closing a packet changes nothing else of it.
LEMMA PacketFact ==
    ASSUME NEW pk \in Packet, NEW o \in BOOLEAN
    PROVE  LET q == [pk EXCEPT !.opened = o]
           IN q \in Packet /\ q.opened = o /\ q.to = pk.to /\ q.filled = pk.filled
BY DEF Packet

\* OpenPacket: the packet opened is the link's only one.
LEMMA OpenInv ==
    ASSUME WriteInv, OpenPacket
    PROVE  WriteInv'
<1> DEFINE k == Link[plink]
           p == Current(k)
<1>1. /\ pc = "link" /\ Tried(TRUE) /\ p # 0
      /\ pkts' = [pkts EXCEPT ![p].opened = TRUE]
  BY DEF OpenPacket
<1>2. pkts \in Seq(Packet) /\ plink \in 1 .. NumLinks /\ OneCurrent
  BY <1>1, LinkFact DEF WriteInv, TypeOK
<1>3. k \in Links
  BY <1>2, LinkFact
<1>4. p \in 1 .. Len(pkts) /\ pkts[p].to = k /\ ~pkts[p].filled
  BY <1>1, <1>2, <1>3, CurrentFact
<1> HIDE DEF p
<1> DEFINE np == [pkts[p] EXCEPT !.opened = TRUE]
<1>5. pkts[p] \in Packet
  BY <1>2, <1>4
<1>12. np \in Packet /\ np.opened /\ np.to = pkts[p].to /\ np.filled = pkts[p].filled
  BY <1>5, PacketFact
<1>6. pkts' = [pkts EXCEPT ![p] = np]
  BY <1>1
<1> HIDE DEF np
<1>7. pkts' \in Seq(Packet) /\ DOMAIN pkts' = DOMAIN pkts /\ DOMAIN pkts = 1 .. Len(pkts)
  BY <1>2, <1>4, <1>12, <1>6
<1>8. \A q \in DOMAIN pkts :
         /\ pkts'[q].to = pkts[q].to
         /\ pkts[q].filled <=> pkts'[q].filled
         /\ pkts[q].opened => pkts'[q].opened
  <2>1. \A q \in DOMAIN pkts : q # p => pkts'[q] = pkts[q]
    BY <1>6, <1>7
  <2>2. pkts'[p] = np
    BY <1>4, <1>6, <1>7
  <2> QED
    BY <2>1, <2>2, <1>12
<1>9. OneCurrent'
  BY <1>2, <1>7, <1>8, KeepCurrent
<1>10. Ready(pkts', k)
  <2>1. pkts'[p] = np
    BY <1>4, <1>6, <1>7
  <2> QED
    BY <2>1, <1>4, <1>12, <1>7 DEF Ready
<1>11. \A j \in Links : Ready(pkts, j) => Ready(pkts', j)
  BY <1>7, <1>8 DEF Ready
<1> QED
  BY <1>1, <1>7, <1>9, <1>10, <1>11, TriedInv

\* A packet added to the list leaves the others as they are.
LEMMA AppendFact ==
    ASSUME NEW ps \in Seq(Packet), NEW np \in Packet
    PROVE  /\ Append(ps, np) \in Seq(Packet)
           /\ DOMAIN Append(ps, np) = 1 .. Len(ps) + 1 /\ DOMAIN ps = 1 .. Len(ps)
           /\ \A q \in DOMAIN ps : Append(ps, np)[q] = ps[q]
           /\ Append(ps, np)[Len(ps) + 1] = np
           /\ \A j \in Links : Ready(ps, j) => Ready(Append(ps, np), j)
BY DEF Ready

\* AddPacket: a packet is added only when the link has none.
LEMMA AddInv ==
    ASSUME WriteInv, AddPacket
    PROVE  WriteInv'
<1> DEFINE k == Link[plink]
           np == NewPacket(k, TRUE)
<1>1. pc = "link" /\ Tried(TRUE) /\ Current(k) = 0 /\ pkts' = Append(pkts, np)
  BY DEF AddPacket
<1>2. pkts \in Seq(Packet) /\ plink \in 1 .. NumLinks /\ OneCurrent
  BY <1>1, LinkFact DEF WriteInv, TypeOK
<1>3. k \in Links
  BY <1>2, LinkFact
<1>4. \A q \in DOMAIN pkts : pkts[q].to = k => pkts[q].filled
  BY <1>1, <1>2, <1>3, CurrentFact
<1>5. np \in Packet /\ np.to = k /\ ~np.filled /\ np.opened
  BY <1>3 DEF NewPacket, Packet
<1> HIDE DEF np
<1>6. /\ pkts' \in Seq(Packet) /\ DOMAIN pkts' = DOMAIN pkts \cup {Len(pkts) + 1}
      /\ \A q \in DOMAIN pkts : pkts'[q] = pkts[q]
      /\ pkts'[Len(pkts) + 1] = np
      /\ \A j \in Links : Ready(pkts, j) => Ready(pkts', j)
  BY <1>1, <1>2, <1>5, AppendFact
<1>7. OneCurrent'
  BY <1>2, <1>4, <1>5, <1>6 DEF OneCurrent
<1>8. Ready(pkts', k)
  BY <1>5, <1>6 DEF Ready
<1> QED
  BY <1>1, <1>6, <1>7, <1>8, TriedInv

\* NoHandle: what is added belongs to nobody.
LEMMA NoHandleInv ==
    ASSUME WriteInv, NoHandle
    PROVE  WriteInv'
<1> DEFINE np == NewPacket(Nobody, FALSE)
<1>1. pc = "link" /\ Tried(FALSE) /\ (pkts' = pkts \/ pkts' = Append(pkts, np))
  BY DEF NoHandle
<1>2. pkts \in Seq(Packet) /\ OneCurrent
  BY DEF WriteInv, TypeOK
<1>3. np \in Packet /\ np.to = Nobody
  BY DEF NewPacket, Packet
<1> HIDE DEF np
<1>4. CASE pkts' = pkts
  <2>1. OneCurrent'
    BY <1>2, <1>4 DEF OneCurrent
  <2> QED
    BY <1>1, <1>2, <1>4, <2>1, TriedInv
<1>5. CASE pkts' = Append(pkts, np)
  <2>1. /\ pkts' \in Seq(Packet) /\ DOMAIN pkts' = DOMAIN pkts \cup {Len(pkts) + 1}
        /\ \A q \in DOMAIN pkts : pkts'[q] = pkts[q]
        /\ pkts'[Len(pkts) + 1] = np
        /\ \A j \in Links : Ready(pkts, j) => Ready(pkts', j)
    BY <1>2, <1>3, <1>5, AppendFact
  <2>2. OneCurrent'
    BY <1>2, <1>3, <2>1 DEF OneCurrent
  <2> QED
    BY <1>1, <2>1, <2>2, TriedInv
<1> QED
  BY <1>1, <1>4, <1>5

\* pktwrite finds the open packet of the link it comes to.
LEMMA WrittenTo ==
    ASSUME WriteInv, pc = "write", l < numpa
    PROVE  LET k == Link[l + 1]
               p == Current(k)
           IN  k \in Links /\ p \in 1 .. Len(pkts) /\ pkts[p].to = k /\ pkts[p].opened
<1> DEFINE k == Link[l + 1]
           p == Current(k)
<1>1. /\ l \in Nat /\ numpa \in 0 .. NumLinks /\ pkts \in Seq(Packet) /\ OneCurrent
      /\ \A i \in l + 1 .. numpa : Ready(pkts, Link[i])
  BY LinkFact DEF WriteInv, TypeOK
<1>2. k \in Links /\ Ready(pkts, k)
  BY <1>1, LinkFact
<1>3. PICK q \in DOMAIN pkts : pkts[q].to = k /\ ~pkts[q].filled /\ pkts[q].opened
  BY <1>2 DEF Ready
<1>4. p \in 1 .. Len(pkts) /\ pkts[p].to = k /\ ~pkts[p].filled
  BY <1>1, <1>2, <1>3, CurrentFact
<1>5. p = q
  BY <1>1, <1>2, <1>3, <1>4, LinkFact DEF OneCurrent
<1> QED
  BY <1>2, <1>3, <1>4, <1>5

\* A packet stays a packet with a message added.
LEMMA FilledFact ==
    ASSUME NEW pk \in Packet, sent \in 1 .. MaxMsg
    PROVE  WithMessage(pk) \in Packet /\ WithMessage(pk).to = pk.to
<1> DEFINE f == Fills(pk)
           new == Append(pk.file, sent)
<1>1. f \in BOOLEAN
  BY Zenon DEF Fills
<1>2. new \in Seq(1 .. MaxMsg)
  BY DEF Packet
<1>3. WithMessage(pk) = [pk EXCEPT !.file = new, !.filled = f, !.opened = ~f]
  BY Zenon DEF WithMessage
<1> HIDE DEF f, new
<1> QED
  BY <1>1, <1>2, <1>3 DEF Packet

\* Write: the packets of the links after this one stay open.
LEMMA WriteStep ==
    ASSUME WriteInv, Write
    PROVE  WriteInv'
<1> DEFINE k == Link[l + 1]
           p == Current(k)
           np == WithMessage(pkts[p])
<1>1. /\ pc = "write" /\ l < numpa /\ l' = l + 1
      /\ pkts' = IF p # 0 /\ k \in tosend THEN [pkts EXCEPT ![p] = np] ELSE pkts
      /\ UNCHANGED <<safe, room, pc, plink, first, numpa, countp, nomore, tosend, sent>>
  BY Zenon DEF Write
<1>2. /\ l \in Nat /\ numpa \in 0 .. NumLinks /\ pkts \in Seq(Packet) /\ OneCurrent
      /\ sent \in 1 .. MaxMsg
      /\ \A i \in l + 1 .. numpa : Ready(pkts, Link[i])
  BY <1>1, LinkFact, ParamFact DEF WriteInv, TypeOK
<1>3. k \in Links /\ p \in 1 .. Len(pkts) /\ pkts[p].to = k /\ pkts[p] \in Packet
      /\ ~pkts[p].filled
  BY <1>1, <1>2, WrittenTo, CurrentFact
<1>4. np \in Packet /\ np.to = pkts[p].to
  BY <1>2, <1>3, FilledFact
<1> HIDE DEF p, np
<1>5. /\ pkts' \in Seq(Packet) /\ DOMAIN pkts' = DOMAIN pkts
      /\ \A q \in DOMAIN pkts :
            /\ pkts'[q].to = pkts[q].to
            /\ pkts[q].to # k => pkts'[q] = pkts[q]
            /\ pkts[q].filled => pkts'[q].filled
  BY <1>1, <1>2, <1>3, <1>4
<1>6. OneCurrent'
  BY <1>2, <1>5, KeepCurrent
<1>7. \A i \in l' + 1 .. numpa' : Ready(pkts', Link[i])
  <2>1. \A j \in Links : j # k /\ Ready(pkts, j) => Ready(pkts', j)
    BY <1>5 DEF Ready
  <2>2. \A i \in l + 2 .. numpa : Link[i] \in Links /\ Link[i] # k
    BY <1>1, <1>2, LinkFact
  <2>3. l' + 1 = l + 2 /\ numpa' = numpa
    BY <1>1, <1>2
  <2> QED
    BY <1>2, <2>1, <2>2, <2>3
<1>8. TypeOK'
  BY <1>1, <1>2, <1>5, LinkFact DEF WriteInv, TypeOK
<1>9. l' <= numpa' /\ sent' > 0
  BY <1>1, <1>2
<1>10. /\ room' > 0 /\ plink' <= NumLinks /\ pc' = "write"
       /\ numpa' = IF nomore' THEN plink' - 1 ELSE plink'
  BY <1>1 DEF WriteInv
<1> QED
  BY <1>6, <1>7, <1>8, <1>9, <1>10 DEF WriteInv

\* Written: closing comes after the last link was written.
LEMMA WrittenStep ==
    ASSUME WriteInv, Written
    PROVE  WriteInv'
<1> DEFINE closed(q) == [pkts[q] EXCEPT !.opened = FALSE]
<1>1. /\ pc = "write" /\ l = numpa /\ first' = numpa /\ ~nomore'
      /\ pkts' = pkts \/ pkts' = [q \in DOMAIN pkts |-> closed(q)]
      /\ countp' = 0 \/ countp' = countp
      /\ plink' = IF nomore THEN plink ELSE plink + 1
      /\ pc' = IF plink' > NumLinks THEN "idle" ELSE "link"
      /\ UNCHANGED <<safe, room, numpa, l, tosend, sent>>
      /\ nomore' \in BOOLEAN
  BY DEF Written
<1>2. /\ pkts \in Seq(Packet) /\ OneCurrent /\ TypeOK /\ NumLinks \in Nat
      /\ plink \in 1 .. NumLinks /\ numpa = IF nomore THEN plink - 1 ELSE plink
      /\ room > 0 /\ sent > 0
  BY <1>1, LinkFact DEF WriteInv, TypeOK
<1>3. \A q \in DOMAIN pkts : /\ closed(q) \in Packet /\ closed(q).to = pkts[q].to
                            /\ (pkts[q].filled => closed(q).filled)
  <2> SUFFICES ASSUME NEW q \in DOMAIN pkts
               PROVE  /\ closed(q) \in Packet /\ closed(q).to = pkts[q].to
                      /\ closed(q).filled = pkts[q].filled
    OBVIOUS
  <2>1. pkts[q] \in Packet
    BY <1>2
  <2> QED
    BY <2>1, PacketFact
<1> HIDE DEF closed
<1>4. pkts' \in Seq(Packet) /\ OneCurrent'
  <2>1. CASE pkts' = pkts
    BY <2>1, <1>2 DEF OneCurrent
  <2>2. CASE pkts' = [q \in DOMAIN pkts |-> closed(q)]
    <3>1. pkts' \in Seq(Packet) /\ DOMAIN pkts' = DOMAIN pkts
      BY <1>2, <1>3, <2>2
    <3> QED
      BY <1>2, <1>3, <2>2, <3>1, KeepCurrent
  <2> QED
    BY <1>1, <2>1, <2>2
<1>5. plink' \in 1 .. NumLinks + 1 /\ numpa = plink' - 1
  BY <1>1, <1>2
<1>6. TypeOK'
  BY <1>1, <1>2, <1>4, <1>5 DEF TypeOK
<1>7. \A i \in l' + 1 .. numpa' : Ready(pkts', Link[i])
  BY <1>1, <1>2
<1> QED
  BY <1>1, <1>2, <1>4, <1>5, <1>6, <1>7 DEF WriteInv

\* Every step keeps the invariant.
LEMMA StepInv == WriteInv /\ [Next]_vars => WriteInv'
<1> SUFFICES ASSUME WriteInv, [Next]_vars PROVE WriteInv'
  OBVIOUS
<1>1. ASSUME NEW to \in SUBSET Links, NEW handles \in 1 .. Handles, Begin(to, handles)
      PROVE  WriteInv'
  BY <1>1, BeginInv
<1>2. CASE UNCHANGED vars
  <2>1. UNCHANGED <<safe, pkts, room, pc, plink, first, numpa, countp, nomore, l, tosend, sent>>
    BY <1>2 DEF vars, call
  <2>2. TypeOK' /\ OneCurrent'
    BY <2>1 DEF WriteInv, TypeOK, OneCurrent
  <2> QED
    BY <2>1, <2>2 DEF WriteInv
<1> QED
  BY <1>1, <1>2, OpenInv, AddInv, NoHandleInv, WriteStep, WrittenStep DEF Next

\* The types are kept, for any list of links, size of packets, SafeMode and
\* number of handles.
THEOREM PacketsTypeCorrect == Spec => []TypeOK
<1>1. WriteInv => TypeOK
  BY DEF WriteInv
<1> QED
  BY <1>1, InitInv, StepInv, PTL DEF Spec

\* pktwrite writes through open handles only.
THEOREM WritesOpen == Spec => []WrittenOpen
<1>1. WriteInv => WrittenOpen
  BY WrittenTo DEF WrittenOpen, WriteInv, TypeOK
<1> QED
  BY <1>1, InitInv, StepInv, PTL DEF Spec

\* No link has two packets to be written to.
THEOREM OneCurrentPacket == Spec => []OneCurrent
<1>1. WriteInv => OneCurrent
  BY DEF WriteInv
<1> QED
  BY <1>1, InitInv, StepInv, PTL DEF Spec

\* A link that got no handle finds one when it is tried again.
THEOREM RetryFindsHandle == Spec => RetryHasHandle
<1>1. WriteInv /\ [Next]_vars => (nomore /\ ~nomore' => HandleLeft')
  <2> SUFFICES ASSUME WriteInv, [Next]_vars, nomore, ~nomore' PROVE HandleLeft'
    OBVIOUS
  <2>1. pc = "write" /\ room \in Nat /\ room > 0 /\ pkts \in Seq(Packet)
    BY ParamFact DEF WriteInv, TypeOK
  <2>2. Written
    BY <2>1 DEF Next, Begin, OpenPacket, AddPacket, NoHandle, Write, vars, call
  <2>3. room' = room /\ pkts' = [p \in DOMAIN pkts |-> [pkts[p] EXCEPT !.opened = FALSE]]
    BY <2>2 DEF Written, Closes
  <2>4. \A p \in DOMAIN pkts' : ~pkts'[p].opened
    <3> SUFFICES ASSUME NEW p \in DOMAIN pkts PROVE ~[pkts[p] EXCEPT !.opened = FALSE].opened
      BY <2>3
    <3>1. pkts[p] \in Packet
      BY <2>1
    <3> QED
      BY <3>1, PacketFact
  <2>5. Open' = {}
    BY <2>4 DEF Open
  <2> QED
    BY <2>1, <2>3, <2>5, FS_EmptySet DEF HandleLeft
<1> QED
  BY <1>1, InitInv, StepInv, PTL DEF Spec, RetryHasHandle
=============================================================================
