---------------------------- MODULE EchoScanProofs ----------------------------
(***************************************************************************)
(* Proofs about EchoScan, for any links, limits and order of commands: no  *)
(* message is sent twice, one flagged sent was sent, and highwater passes  *)
(* over none that was not.                                                 *)
(***************************************************************************)
EXTENDS EchoScan, FiniteSetTheorems, SequenceTheorems, WellFoundedInduction, TLAPS

Scanning == pc \in {"mark", "send", "advance"}

\* Messages lie in a base in the order of their numbers, below the next one.
Ordered ==
    /\ \A j, k \in 1 .. Len(base) : j < k => base[j].uid < base[k].uid /\ base[j].n < base[k].n
    /\ \A k \in 1 .. Len(base) : base[k].uid < uid /\ base[k].n <= count
    /\ cur # None => cur.n <= count /\ \A k \in 1 .. Len(base) : base[k].n < cur.n

\* Where the process is: a scan has a message, a run a command.
AtWork ==
    /\ Scanning => i \in 1 .. Len(base)
    /\ pc = "store" => cur # None
    /\ pc = "off" => ~scanned /\ cur = None
    /\ pc # "off" => mode \in Modes
    /\ pc = "store" /\ mode = "both" => scanned
    /\ pc = "run" => cur = None

\* What was not flagged has not been sent, and what is about to be sent is flagged.
Never(n) == \A l \in Link : copies[n][l] = 0
Unsent ==
    /\ \A n \in Ids : n > count => Never(n)
    /\ \A k \in 1 .. Len(base) : ~base[k].sent => Never(base[k].n)
    /\ cur # None /\ (pc # "store" \/ mode # "both") => Never(cur.n)
    /\ pc = "send" /\ tosend # {} =>
          /\ base[i].sent
          /\ mode # "rescan" => Never(base[i].n)

\* What is flagged was sent, or is about to be.
Sending(k) == pc = "send" /\ k = i /\ mode # "rescan" /\ tosend = Link \ {base[k].from}
Served ==
    /\ \A k \in 1 .. Len(base) :
          base[k].sent => \/ base[k].n \in waived
                          \/ Link \ {base[k].from} \subseteq served[base[k].n]
                          \/ Sending(k)
    /\ pc = "store" /\ mode = "both" => Link \ {cur.from} \subseteq served[cur.n]

\* Numbers are not given again: Purge does not run after the newest message
\* was deleted.  Nothing arrives in the base while a pass that raises highwater
\* blindly is under way.
Safe == (Deletable # "any" \/ ~Purges) /\ ("both" \notin Modes \/ ~During)

\* The next number is above highwater; Purge finds it where it was.
Numbers ==
    /\ hw < uid
    /\ Purges /\ base # <<>> => base[Len(base)].uid = uid - 1

\* All below the message being looked at, and in one pass all, is sent.
Clear(k) == Exportable(base[k]) => base[k].sent
Passed ==
    /\ NothingPassed
    /\ Scanning => \A k \in 1 .. Len(base) : k < i => Clear(k)
    /\ pc \in {"send", "advance"} => Clear(i)
    /\ mode = "both" /\ scanned => \A k \in 1 .. Len(base) : Clear(k)

-----------------------------------------------------------------------------
(* Types. *)

USE DEF disk, run, hist

\* The parameters, one by one.
LEMMA ParamFact ==
    /\ IsFiniteSet(Link) /\ None \notin Link /\ None \notin Tossed
    /\ Limit \in Nat /\ MaxMsg \in Nat /\ MaxUid \in Nat
BY ScanAssumption

\* A sequence without one element.
LEMMA RemoveFact ==
    ASSUME NEW S, NEW s \in Seq(S), NEW k \in 1 .. Len(s)
    PROVE  /\ RemoveAt(s, k) \in Seq(S) /\ Len(RemoveAt(s, k)) = Len(s) - 1
           /\ \A j \in 1 .. Len(s) - 1 : RemoveAt(s, k)[j] = s[IF j < k THEN j ELSE j + 1]
<1> DEFINE a == SubSeq(s, 1, k - 1)
           b == SubSeq(s, k + 1, Len(s))
<1>1. a \in Seq(S) /\ Len(a) = k - 1 /\ \A j \in 1 .. k - 1 : a[j] = s[j]
  <2>1. 1 \in 1 .. Len(s) + 1 /\ k - 1 \in 1 - 1 .. Len(s)
    OBVIOUS
  <2> QED
    BY <2>1, SubSeqProperties
<1>2. /\ b \in Seq(S) /\ Len(b) = Len(s) - k
      /\ \A j \in 1 .. Len(s) - k : b[j] = s[k + j]
  <2>1. k + 1 \in 1 .. Len(s) + 1 /\ Len(s) \in (k + 1) - 1 .. Len(s)
    OBVIOUS
  <2>2. /\ b \in Seq(S) /\ Len(b) = IF k + 1 <= Len(s) THEN Len(s) - (k + 1) + 1 ELSE 0
        /\ \A j \in 1 .. Len(s) - (k + 1) + 1 : b[j] = s[(k + 1) + j - 1]
    BY <2>1, SubSeqProperties
  <2> QED
    BY <2>2
<1> HIDE DEF a, b
<1>0. Len(s) \in Nat /\ k \in Nat
  OBVIOUS
<1>3. /\ a \o b \in Seq(S) /\ Len(a \o b) = Len(s) - 1
      /\ \A j \in 1 .. Len(s) - 1 : (a \o b)[j] = IF j <= k - 1 THEN a[j] ELSE b[j - (k - 1)]
  <2>1. a \in Seq(S) /\ b \in Seq(S) /\ Len(a) = k - 1 /\ Len(b) = Len(s) - k
    BY <1>1, <1>2
  <2>2. /\ a \o b \in Seq(S) /\ Len(a \o b) = Len(a) + Len(b)
        /\ \A j \in 1 .. Len(a) + Len(b) :
              (a \o b)[j] = IF j <= Len(a) THEN a[j] ELSE b[j - Len(a)]
    BY <2>1, ConcatProperties
  <2>3. (k - 1) + (Len(s) - k) = Len(s) - 1
    BY <1>0
  <2> QED
    BY <2>1, <2>2, <2>3
<1>4. \A j \in 1 .. Len(s) - 1 : (a \o b)[j] = s[IF j < k THEN j ELSE j + 1]
  <2> SUFFICES ASSUME NEW j \in 1 .. Len(s) - 1
               PROVE  (a \o b)[j] = s[IF j < k THEN j ELSE j + 1]
    OBVIOUS
  <2>1. CASE j < k
    BY <1>0, <1>1, <1>3, <2>1
  <2>2. CASE j >= k
    <3>1. (a \o b)[j] = b[j - (k - 1)]
      BY <1>0, <1>3, <2>2
    <3>2. b[j - (k - 1)] = s[j + 1]
      <4>1. j - (k - 1) \in 1 .. Len(s) - k /\ k + (j - (k - 1)) = j + 1
        BY <1>0, <2>2
      <4> QED
        BY <1>2, <4>1
    <3> QED
      BY <1>0, <2>2, <3>1, <3>2
  <2>3. j < k \/ j >= k
    BY <1>0
  <2> QED
    BY <2>1, <2>2, <2>3
<1>5. RemoveAt(s, k) = a \o b
  BY DEF RemoveAt, a, b
<1> QED
  BY <1>3, <1>4, <1>5

\* A sequence without its first k elements.
LEMMA RestFact ==
    ASSUME NEW S, NEW s \in Seq(S), NEW k \in 0 .. Len(s)
    PROVE  /\ SubSeq(s, k + 1, Len(s)) \in Seq(S) /\ Len(SubSeq(s, k + 1, Len(s))) = Len(s) - k
           /\ \A j \in 1 .. Len(s) - k : SubSeq(s, k + 1, Len(s))[j] = s[k + j]
<1>1. k + 1 \in 1 .. Len(s) + 1 /\ Len(s) \in (k + 1) - 1 .. Len(s)
  OBVIOUS
<1> DEFINE b == SubSeq(s, k + 1, Len(s))
<1>2. /\ b \in Seq(S) /\ Len(b) = IF k + 1 <= Len(s) THEN Len(s) - (k + 1) + 1 ELSE 0
      /\ \A j \in 1 .. Len(s) - (k + 1) + 1 : b[j] = s[(k + 1) + j - 1]
  BY <1>1, SubSeqProperties
<1> HIDE DEF b
<1>3. b \in Seq(S) /\ Len(b) = Len(s) - k /\ \A j \in 1 .. Len(s) - k : b[j] = s[k + j]
  BY <1>2
<1> QED
  BY <1>3 DEF b

\* A message of the base.
LEMMA MsgFact ==
    ASSUME TypeOK, NEW k \in 1 .. Len(base)
    PROVE  /\ base[k] \in Message /\ base[k].n \in Ids /\ base[k].uid \in Nat
           /\ base[k].sent \in BOOLEAN /\ base[k].from \in Link \cup {None}
<1>1. base[k] \in Message
  BY DEF TypeOK, DiskOK
<1> QED
  BY <1>1 DEF Message

\* The oldest messages make room.
Gone == IF Limit > 0 /\ Len(base) >= Limit THEN Len(base) - Limit + 1 ELSE 0

LEMMA StoreFact ==
    ASSUME TypeOK, AtWork, Store
    PROVE  LET m == [n |-> cur.n, uid |-> uid, local |-> FALSE, sent |-> mode = "both", from |-> cur.from]
               left == Len(base) - Gone
           IN  /\ m \in Message /\ cur \in Tossed
               /\ Gone \in 0 .. Len(base)
               /\ base' \in Seq(Message) /\ Len(base') = left + 1
               /\ \A j \in 1 .. left : base'[j] = base[Gone + j]
               /\ base'[left + 1] = m
<1> DEFINE m == [n |-> cur.n, uid |-> uid, local |-> FALSE, sent |-> mode = "both", from |-> cur.from]
           left == Len(base) - Gone
           room == IF Limit > 0 /\ Len(base) >= Limit
                   THEN SubSeq(base, Len(base) - Limit + 2, Len(base)) ELSE base
<1>1. cur \in Tossed /\ uid \in Nat /\ base \in Seq(Message)
  BY DEF Store, AtWork, TypeOK, ScanOK, DiskOK
<1>2. m \in Message
  BY <1>1 DEF Message, Tossed
<1>3. Gone \in 0 .. Len(base)
  BY <1>1, ParamFact DEF Gone
<1>4. room \in Seq(Message) /\ Len(room) = left /\ \A j \in 1 .. left : room[j] = base[Gone + j]
  <2>1. CASE Limit > 0 /\ Len(base) >= Limit
    <3>1. Gone = Len(base) - Limit + 1
      BY <2>1 DEF Gone
    <3>2. room = SubSeq(base, Gone + 1, Len(base))
      BY <1>1, <2>1, <3>1, ParamFact
    <3> QED
      BY <1>1, <1>3, <3>2, RestFact
  <2>2. CASE ~(Limit > 0 /\ Len(base) >= Limit)
    BY <1>1, <2>2 DEF Gone
  <2> QED
    BY <2>1, <2>2
<1>5. base' = Append(room, m)
  BY DEF Store
<1> HIDE DEF m, room
<1>6. left \in Nat
  BY <1>1, <1>3
<1>7. base' \in Seq(Message) /\ Len(base') = left + 1 /\ base'[left + 1] = m
      /\ \A j \in 1 .. left : base'[j] = base[Gone + j]
  BY <1>2, <1>4, <1>5, <1>6
<1> QED
  BY <1>1, <1>2, <1>3, <1>7 DEF m

\* What Purge leaves: the rest, under the same numbers or new ones.
LEMMA PurgeFact ==
    ASSUME TypeOK, NEW k \in 0 .. Len(base), NEW renumber \in BOOLEAN, Purge(k, renumber)
    PROVE  /\ base' \in Seq(Message) /\ Len(base') = Len(base) - k
           /\ \A j \in 1 .. Len(base) - k :
                 base'[j] = [base[k + j] EXCEPT !.uid = IF renumber THEN uid + j - 1 ELSE @]
           /\ IF k = Len(base) THEN uid' = 1 /\ hw' = 0
              ELSE uid' = base'[Len(base')].uid + 1 /\ hw' = IF NoFresh THEN hw ELSE Clamped
<1> DEFINE kept == SubSeq(base, k + 1, Len(base))
<1>1. base \in Seq(Message) /\ uid \in Nat
  BY DEF TypeOK, DiskOK
<1>2. /\ kept \in Seq(Message) /\ Len(kept) = Len(base) - k
      /\ \A j \in 1 .. Len(base) - k : kept[j] = base[k + j]
  BY <1>1, RestFact
<1>3. IF kept = <<>>
      THEN base' = <<>> /\ uid' = 1 /\ hw' = 0
      ELSE /\ base' = IF renumber
                      THEN [j \in 1 .. Len(kept) |-> [kept[j] EXCEPT !.uid = uid + j - 1]]
                      ELSE kept
           /\ uid' = NextUid(base')
           /\ hw' = IF NoFresh THEN hw ELSE Clamped
  BY DEF Purge
<1> HIDE DEF kept
<1>4. kept = <<>> <=> k = Len(base)
  BY <1>1, <1>2
<1>5. CASE k = Len(base)
  BY <1>1, <1>2, <1>3, <1>4, <1>5
<1>6. CASE k # Len(base)
  <2>1. \A j \in 1 .. Len(kept) : [kept[j] EXCEPT !.uid = uid + j - 1] \in Message
    <3> SUFFICES ASSUME NEW j \in 1 .. Len(kept)
                 PROVE  [kept[j] EXCEPT !.uid = uid + j - 1] \in Message
      OBVIOUS
    <3>1. kept[j] \in Message /\ uid + j - 1 \in Nat
      BY <1>1, <1>2
    <3> QED
      BY <3>1 DEF Message
  <2>2. \A j \in 1 .. Len(base) - k : base[k + j] \in Message
    BY <1>1
  <2>3. CASE renumber
    <3>1. base' = [j \in 1 .. Len(kept) |-> [kept[j] EXCEPT !.uid = uid + j - 1]]
      BY <1>3, <1>4, <1>6, <2>3
    <3>2. base' \in Seq(Message) /\ Len(base') = Len(kept)
      BY <1>2, <2>1, <3>1
    <3>3. \A j \in 1 .. Len(base) - k :
             base'[j] = [base[k + j] EXCEPT !.uid = IF renumber THEN uid + j - 1 ELSE @]
      BY <1>2, <2>3, <3>1
    <3> QED
      BY <1>2, <1>3, <1>4, <1>6, <3>2, <3>3 DEF NextUid
  <2>4. CASE ~renumber
    <3>1. base' = kept
      BY <1>3, <1>4, <1>6, <2>4
    <3>2. \A j \in 1 .. Len(base) - k :
             base'[j] = [base[k + j] EXCEPT !.uid = IF renumber THEN uid + j - 1 ELSE @]
      <4> SUFFICES ASSUME NEW j \in 1 .. Len(base) - k
                   PROVE  base'[j] = [base[k + j] EXCEPT !.uid = base[k + j].uid]
        BY <2>4
      <4>1. base'[j] = base[k + j]
        BY <1>2, <3>1
      <4> QED
        BY <2>2, <4>1 DEF Message
    <3> QED
      BY <1>2, <1>3, <1>4, <1>6, <3>1, <3>2 DEF NextUid
  <2> QED
    BY <2>3, <2>4
<1> QED
  BY <1>5, <1>6

\* The first message above highwater.
LEMMA LeastFact ==
    ASSUME NEW T, T \subseteq Nat, T # {}
    PROVE  Min(T) \in T /\ \A x \in T : Min(T) <= x
<1> DEFINE R == OpToRel(<, Nat)
<1>1. PICK m \in T : \A x \in T : ~(<<x, m>> \in R)
  BY NatLessThanWellFounded, WFMin
<1>2. R = {ss \in Nat \X Nat : ss[1] < ss[2]}
  BY Zenon DEF OpToRel
<1>3. \A x \in Nat : x < m => <<x, m>> \in R
  BY <1>2
<1>5. m \in T /\ m \in Nat
  OBVIOUS
<1> HIDE DEF R
<1>4. \A x \in T : m <= x
  <2>1. \A x \in T : ~(<<x, m>> \in R)
    BY <1>1
  <2>2. \A x \in T : x \in Nat /\ ~(x < m)
    BY <1>3, <2>1
  <2> QED
    BY <2>2
<1> QED
  BY <1>4 DEF Min

\* A scan starts with a message, if there is one, and skips none above highwater.
LEMMA FirstFact ==
    ASSUME TypeOK
    PROVE  /\ First \in 1 .. Len(base) + 1
           /\ \A k \in 1 .. Len(base) : k < First => base[k].uid <= hw
<1> DEFINE T == {k \in 1 .. Len(base) : base[k].uid > hw}
           above == SelectInSeq(base, LAMBDA m : m.uid > hw)
<1>1. above = IF T # {} THEN Min(T) ELSE 0
  BY Zenon DEF SelectInSeq
<1>2. First = IF mode = "rescan" \/ full THEN 1
              ELSE IF above = 0 THEN Len(base) + 1 ELSE above
  BY Zenon DEF First
<1>3. Len(base) \in Nat /\ hw \in Nat
  BY DEF TypeOK, DiskOK
<1>4. T \subseteq Nat /\ T \subseteq 1 .. Len(base)
  OBVIOUS
<1>5. T # {} => Min(T) \in T /\ \A x \in T : Min(T) <= x
  BY <1>4, LeastFact
<1>6. \A k \in 1 .. Len(base) : k \notin T => base[k].uid <= hw
  <2> SUFFICES ASSUME NEW k \in 1 .. Len(base), k \notin T PROVE base[k].uid <= hw
    OBVIOUS
  <2>1. ~(base[k].uid > hw)
    OBVIOUS
  <2> QED
    BY <1>3, <2>1, MsgFact
<1> HIDE DEF T, above
<1>7. CASE mode = "rescan" \/ full
  BY <1>2, <1>3, <1>7
<1>8. CASE ~(mode = "rescan" \/ full) /\ T = {}
  BY <1>1, <1>2, <1>3, <1>6, <1>8
<1>9. CASE ~(mode = "rescan" \/ full) /\ T # {}
  <2>0. Min(T) \in 1 .. Len(base)
    BY Zenon, <1>4, <1>5, <1>9
  <2>1. Min(T) \in 1 .. Len(base) /\ Min(T) # 0
    BY <2>0
  <2>2. First = Min(T)
    BY <1>1, <1>2, <1>9, <2>1
  <2>3. \A k \in 1 .. Len(base) : k < Min(T) => k \notin T
    BY <1>3, <1>4, <1>5, <1>9, <2>1
  <2> QED
    BY <1>3, <1>6, <2>1, <2>2, <2>3
<1> QED
  BY <1>7, <1>8, <1>9

\* A step is a step of one of the actions.
LEMMA StepCases ==
    ASSUME NEW G,
           Post => G, Open => G, Close => G, End => G, StartScan => G, Mark => G,
           Send => G, Advance => G, Forward => G, Store => G, Crash => G, UNCHANGED vars => G,
           \A f \in Link : Toss(f) => G,
           \A k \in 1 .. Len(base) : Delete(k) => G,
           \A m \in Modes, s \in BOOLEAN, r \in Link \cup {None} : Begin(m, s, r) => G,
           \A k \in 0 .. Len(base), renumber \in BOOLEAN : Purge(k, renumber) => G,
           [Next]_vars
    PROVE  G
<1>1. CASE Next
  BY <1>1 DEF Next, Tosser
<1>2. CASE UNCHANGED vars
  BY <1>2
<1> QED
  BY <1>1, <1>2


-----------------------------------------------------------------------------
(* Where the process is, and its types. *)

LEMMA InitFact == Init => TypeOK /\ AtWork /\ Ordered /\ Unsent /\ Served /\ Numbers /\ Passed
<1> SUFFICES ASSUME Init PROVE TypeOK /\ AtWork /\ Ordered /\ Unsent /\ Served /\ Numbers /\ Passed
  OBVIOUS
<1>1. base = <<>> /\ Len(base) = 0 /\ 1 .. Len(base) = {} /\ base \in Seq(Message)
  BY DEF Init
<1>2. TypeOK
  <2>1. DiskOK
    BY <1>1 DEF Init, DiskOK
  <2>2. RunOK /\ ScanOK
    BY DEF Init, RunOK, ScanOK
  <2>3. HistOK
    BY ParamFact DEF Init, HistOK
  <2> QED
    BY <2>1, <2>2, <2>3 DEF TypeOK
<1>3. AtWork
  BY DEF Init, AtWork, Scanning
<1>4. Ordered
  BY <1>1 DEF Init, Ordered
<1>5. Unsent
  BY <1>1 DEF Init, Unsent, Never
<1>6. Served
  BY <1>1 DEF Init, Served
<1>7. Numbers /\ Passed
  BY <1>1 DEF Init, Numbers, Passed, NothingPassed, Scanning
<1> QED
  BY <1>2, <1>3, <1>4, <1>5, <1>6, <1>7

\* The base on disk keeps its form.
LEMMA DiskStep == ASSUME TypeOK, AtWork, [Next]_vars PROVE DiskOK'
<1> DEFINE Same == DiskOK'
<1>0. base \in Seq(Message) /\ uid \in Nat \ {0} /\ hw \in Nat
  BY DEF TypeOK, DiskOK
<1>1. Post => Same
  <2> SUFFICES ASSUME Post PROVE Same
    OBVIOUS
  <2>1. count + 1 \in Ids
    BY ParamFact DEF TypeOK, HistOK, Post, Ids
  <2>2. [n |-> count + 1, uid |-> uid, local |-> TRUE, sent |-> FALSE, from |-> None] \in Message
    BY <1>0, <2>1 DEF Message
  <2>3. base' \in Seq(Message)
    BY <1>0, <2>2 DEF Post
  <2> QED
    BY <1>0, <2>3 DEF Post, DiskOK
<1>2. Mark => Same
  <2> SUFFICES ASSUME Mark PROVE Same
    OBVIOUS
  <2>1. i \in 1 .. Len(base)
    BY DEF Mark, AtWork, Scanning
  <2>2. [base[i] EXCEPT !.sent = TRUE] \in Message
    BY <2>1, MsgFact DEF Message
  <2>3. [base EXCEPT ![i].sent = TRUE] \in Seq(Message)
    BY <1>0, <2>1, <2>2
  <2> QED
    BY <1>0, <2>3 DEF Mark, DiskOK
<1>3. Store => Same
  <2> SUFFICES ASSUME Store PROVE Same
    OBVIOUS
  <2>1. base' \in Seq(Message)
    BY StoreFact
  <2> QED
    BY <1>0, <2>1 DEF Store, DiskOK, Raised
<1>4. Open => Same
  BY <1>0 DEF Open, Clamped, DiskOK
<1>5. Advance => Same
  <2> SUFFICES ASSUME Advance PROVE Same
    OBVIOUS
  <2>1. base[i].uid \in Nat
    BY MsgFact DEF Advance, AtWork, Scanning
  <2> QED
    BY <1>0, <2>1 DEF Advance, DiskOK
<1>6. \A k \in 1 .. Len(base) : Delete(k) => Same
  <2> SUFFICES ASSUME NEW k \in 1 .. Len(base), Delete(k) PROVE Same
    OBVIOUS
  <2>1. base' \in Seq(Message)
    BY <1>0, RemoveFact DEF Delete
  <2> QED
    BY <1>0, <2>1 DEF Delete, DiskOK
<1>7. \A k \in 0 .. Len(base), renumber \in BOOLEAN : Purge(k, renumber) => Same
  <2> SUFFICES ASSUME NEW k \in 0 .. Len(base), NEW renumber \in BOOLEAN, Purge(k, renumber) PROVE Same
    OBVIOUS
  <2>1. /\ base' \in Seq(Message) /\ Len(base') = Len(base) - k
        /\ IF k = Len(base) THEN uid' = 1 /\ hw' = 0
           ELSE uid' = base'[Len(base')].uid + 1 /\ hw' = IF NoFresh THEN hw ELSE Clamped
    BY PurgeFact
  <2>2. CASE k = Len(base)
    BY <2>1, <2>2 DEF DiskOK
  <2>3. CASE k # Len(base)
    <3>1. Len(base') \in 1 .. Len(base')
      BY <1>0, <2>1, <2>3
    <3>4. base'[Len(base')] \in Message
      BY <2>1, <3>1
    <3>2. base'[Len(base')].uid \in Nat
      BY <3>4 DEF Message
    <3>3. Clamped \in Nat
      BY <1>0 DEF Clamped
    <3> QED
      BY <1>0, <2>1, <2>3, <3>2, <3>3 DEF DiskOK
  <2> QED
    BY <2>2, <2>3
<1>8. (Close => Same) /\ (End => Same) /\ (StartScan => Same) /\ (Send => Same)
  BY <1>0 DEF Close, End, StartScan, Send, DiskOK
<1>9. (Forward => Same) /\ (Crash => Same) /\ (UNCHANGED vars => Same)
  BY <1>0 DEF Forward, Crash, vars, DiskOK
<1>10. \A f \in Link : Toss(f) => Same
  BY <1>0 DEF Toss, DiskOK
<1>11. \A m \in Modes, s \in BOOLEAN, r \in Link \cup {None} : Begin(m, s, r) => Same
  BY <1>0 DEF Begin, DiskOK
<1> HIDE DEF Same
<1>12. Same
  BY <1>1, <1>2, <1>3, <1>4, <1>5, <1>6, <1>7, <1>8, <1>9, <1>10, <1>11, StepCases
<1> QED
  BY <1>12 DEF Same

\* The command and the scan keep their types.
LEMMA RunStep == ASSUME TypeOK, AtWork, [Next]_vars PROVE RunOK' /\ ScanOK'
<1> DEFINE Same == RunOK' /\ ScanOK'
<1>0. RunOK /\ ScanOK /\ Len(base) \in Nat
  BY DEF TypeOK, DiskOK
<1>1. StartScan => Same
  <2> SUFFICES ASSUME StartScan PROVE Same
    OBVIOUS
  <2>1. First \in Nat
    BY <1>0, FirstFact
  <2>2. RunOK'
    BY <1>0 DEF StartScan, RunOK
  <2>3. ScanOK'
    BY <1>0, <2>1 DEF StartScan, ScanOK
  <2> QED
    BY <2>2, <2>3
<1>2. Mark => Same
  BY <1>0 DEF Mark, RunOK, ScanOK
<1>3. (Post => Same) /\ (Open => Same) /\ (Close => Same) /\ (End => Same)
  BY <1>0 DEF Post, Open, Close, End, RunOK, ScanOK
<1>4. (Send => Same) /\ (Forward => Same) /\ (UNCHANGED vars => Same)
  BY <1>0 DEF Send, Forward, RunOK, ScanOK, vars
<1>5. (Store => Same) /\ (Crash => Same)
  <2>1. Store \/ Crash => RunOK'
    BY <1>0 DEF Store, Crash, RunOK
  <2>2. Store \/ Crash => ScanOK'
    BY <1>0 DEF Store, Crash, ScanOK
  <2> QED
    BY <2>1, <2>2
<1>12. Advance => Same
  <2>1. Advance => RunOK'
    BY <1>0 DEF Advance, RunOK
  <2>2. Advance => ScanOK'
    BY <1>0 DEF Advance, ScanOK
  <2> QED
    BY <2>1, <2>2
<1>6. \A f \in Link : Toss(f) => Same
  <2> SUFFICES ASSUME NEW f \in Link, Toss(f) PROVE Same
    OBVIOUS
  <2>1. count + 1 \in Ids
    BY ParamFact DEF TypeOK, HistOK, Toss, Ids
  <2>2. cur' \in Tossed
    BY <2>1 DEF Toss, Tossed
  <2> QED
    BY <1>0, <2>2 DEF Toss, RunOK, ScanOK
<1>7. \A k \in 1 .. Len(base) : Delete(k) => Same
  BY <1>0 DEF Delete, RunOK, ScanOK
<1>8. \A m \in Modes, s \in BOOLEAN, r \in Link \cup {None} : Begin(m, s, r) => Same
  BY <1>0 DEF Begin, RunOK, ScanOK
<1>9. \A k \in 0 .. Len(base), renumber \in BOOLEAN : Purge(k, renumber) => Same
  BY <1>0 DEF Purge, RunOK, ScanOK
<1> HIDE DEF Same
<1>10. Same
  BY <1>1, <1>2, <1>3, <1>4, <1>5, <1>6, <1>7, <1>8, <1>9, <1>12, StepCases
<1> QED
  BY <1>10 DEF Same

\* A message sent is one copy more for some of the links.
LEMMA SendFact ==
    ASSUME HistOK, NEW n \in Ids, NEW to \in SUBSET Link, SendTo(n, to)
    PROVE  /\ HistOK' /\ UNCHANGED <<count, waived>>
           /\ \A x \in Ids : x # n => served'[x] = served[x] /\ copies'[x] = copies[x]
           /\ served'[n] = served[n] \cup to
           /\ mode = "rescan" => copies' = copies
           /\ mode # "rescan" => \A l \in Link :
                 copies'[n][l] = IF l \in to /\ copies[n][l] < 2 THEN copies[n][l] + 1 ELSE copies[n][l]
<1>1. served' \in [Ids -> SUBSET Link] /\ served'[n] = served[n] \cup to
      /\ \A x \in Ids : x # n => served'[x] = served[x]
  BY DEF SendTo, HistOK
<1> DEFINE more == [l \in Link |-> IF l \in to /\ copies[n][l] < 2 THEN copies[n][l] + 1 ELSE copies[n][l]]
<1>2. more \in [Link -> 0 .. 2]
  <2>1. \A l \in Link : copies[n][l] \in 0 .. 2
    BY DEF HistOK
  <2>2. \A l \in Link : (IF l \in to /\ copies[n][l] < 2 THEN copies[n][l] + 1 ELSE copies[n][l]) \in 0 .. 2
    BY <2>1
  <2> QED
    BY <2>2
<1>3. copies' = IF mode = "rescan" THEN copies ELSE [copies EXCEPT ![n] = more]
  BY DEF SendTo, HistOK
<1>4. UNCHANGED <<count, waived>>
  BY DEF SendTo
<1> HIDE DEF more
<1>5. /\ copies' \in [Ids -> [Link -> 0 .. 2]]
      /\ \A x \in Ids : x # n => copies'[x] = copies[x]
      /\ mode # "rescan" => copies'[n] = more
  BY <1>2, <1>3 DEF HistOK
<1>6. HistOK'
  BY <1>1, <1>4, <1>5 DEF HistOK
<1> QED
  BY <1>1, <1>3, <1>4, <1>5, <1>6 DEF more

\* The record of what was sent keeps its form.
LEMMA HistStep == ASSUME TypeOK, AtWork, [Next]_vars PROVE HistOK'
<1> DEFINE Same == HistOK'
<1>0. HistOK
  BY DEF TypeOK
<1>1. Send => Same
  <2> SUFFICES ASSUME Send PROVE Same
    OBVIOUS
  <2> DEFINE to == IF mode = "rescan" THEN tosend \cap {rnode} ELSE tosend
  <2>1. base[i].n \in Ids
    BY MsgFact DEF Send, AtWork, Scanning
  <2>2. to \in SUBSET Link
    BY DEF TypeOK, ScanOK
  <2>3. SendTo(base[i].n, to)
    BY DEF Send
  <2> HIDE DEF to
  <2> QED
    BY <1>0, <2>1, <2>2, <2>3, SendFact
<1>2. Forward => Same
  <2> SUFFICES ASSUME Forward PROVE Same
    OBVIOUS
  <2>1. CASE mode = "both"
    <3> DEFINE to == IF Cardinality(Link) > 1 THEN Link \ {cur.from} ELSE {}
    <3>1. cur.n \in Ids
      BY DEF Forward, TypeOK, ScanOK, Tossed
    <3>2. to \in SUBSET Link
      OBVIOUS
    <3>3. SendTo(cur.n, to)
      BY <2>1 DEF Forward
    <3> HIDE DEF to
    <3> QED
      BY <1>0, <3>1, <3>2, <3>3, SendFact
  <2>2. CASE mode # "both"
    BY <1>0, <2>2 DEF Forward, HistOK
  <2> QED
    BY <2>1, <2>2
<1>3. Mark => Same
  <2> SUFFICES ASSUME Mark PROVE Same
    OBVIOUS
  <2>1. base[i].n \in Ids
    BY MsgFact DEF Mark, AtWork, Scanning
  <2> QED
    BY <1>0, <2>1 DEF Mark, HistOK
<1>4. Crash => Same
  <2> SUFFICES ASSUME Crash PROVE Same
    OBVIOUS
  <2>1. pc = "send" => base[i].n \in Ids
    BY MsgFact DEF AtWork, Scanning
  <2> QED
    BY <1>0, <2>1 DEF Crash, HistOK
<1>5. (Post => Same) /\ (Open => Same) /\ (Close => Same) /\ (End => Same)
  BY <1>0, ParamFact DEF Post, Open, Close, End, HistOK
<1>6. (StartScan => Same) /\ (Advance => Same) /\ (Store => Same) /\ (UNCHANGED vars => Same)
  BY <1>0 DEF StartScan, Advance, Store, HistOK, vars
<1>7. \A f \in Link : Toss(f) => Same
  BY <1>0, ParamFact DEF Toss, HistOK
<1>8. \A k \in 1 .. Len(base) : Delete(k) => Same
  BY <1>0 DEF Delete, HistOK
<1>9. \A m \in Modes, s \in BOOLEAN, r \in Link \cup {None} : Begin(m, s, r) => Same
  BY <1>0 DEF Begin, HistOK
<1>10. \A k \in 0 .. Len(base), renumber \in BOOLEAN : Purge(k, renumber) => Same
  BY <1>0 DEF Purge, HistOK
<1> HIDE DEF Same
<1>11. Same
  BY <1>1, <1>2, <1>3, <1>4, <1>5, <1>6, <1>7, <1>8, <1>9, <1>10, StepCases
<1> QED
  BY <1>11 DEF Same

\* The process stays where AtWork says.
LEMMA AtWorkStep == ASSUME TypeOK, AtWork, [Next]_vars PROVE AtWork'
<1> DEFINE Same == AtWork'
<1>0. base \in Seq(Message) /\ Len(base) \in Nat /\ i \in Nat
  BY DEF TypeOK, DiskOK, ScanOK
<1>1. StartScan => Same
  <2> SUFFICES ASSUME StartScan PROVE Same
    OBVIOUS
  <2>1. First \in 1 .. Len(base) + 1
    BY FirstFact
  <2>2. CASE First <= Len(base)
    <3>1. i' \in 1 .. Len(base')
      BY <1>0, <2>1, <2>2 DEF StartScan
    <3> QED
      BY <2>2, <3>1 DEF StartScan, AtWork, Scanning
  <2>3. CASE ~(First <= Len(base))
    BY <2>3 DEF StartScan, AtWork, Scanning
  <2> QED
    BY <2>2, <2>3
<1>2. Mark => Same
  <2> SUFFICES ASSUME Mark PROVE Same
    OBVIOUS
  <2>1. Len(base') = Len(base)
    BY <1>0 DEF Mark
  <2> QED
    BY <2>1 DEF Mark, AtWork, Scanning
<1>3. Send => Same
  BY DEF Send, AtWork, Scanning
<1>4. Advance => Same
  <2> SUFFICES ASSUME Advance PROVE Same
    OBVIOUS
  <2>1. i \in 1 .. Len(base)
    BY DEF Advance, AtWork, Scanning
  <2>2. CASE i < Len(base)
    <3>1. i' \in 1 .. Len(base')
      BY <1>0, <2>1, <2>2 DEF Advance
    <3> QED
      BY <2>2, <3>1 DEF Advance, AtWork, Scanning
  <2>3. CASE ~(i < Len(base))
    BY <2>3 DEF Advance, AtWork, Scanning
  <2> QED
    BY <2>2, <2>3
<1>5. Store => Same
  BY DEF Store, AtWork, Scanning
<1>6. (Post => Same) /\ (Open => Same) /\ (Close => Same) /\ (End => Same)
  BY DEF Post, Closed, Open, Close, End, AtWork, Scanning
<1>7. (Forward => Same) /\ (Crash => Same) /\ (UNCHANGED vars => Same)
  BY DEF Forward, Crash, AtWork, Scanning, vars
<1>8. \A f \in Link : Toss(f) => Same
  BY DEF Toss, AtWork, Scanning
<1>9. \A k \in 1 .. Len(base) : Delete(k) => Same
  BY DEF Delete, Closed, AtWork, Scanning
<1>10. \A m \in Modes, s \in BOOLEAN, r \in Link \cup {None} : Begin(m, s, r) => Same
  BY DEF Begin, AtWork, Scanning
<1>11. \A k \in 0 .. Len(base), renumber \in BOOLEAN : Purge(k, renumber) => Same
  BY DEF Purge, AtWork, Scanning
<1> HIDE DEF Same
<1>12. Same
  BY <1>1, <1>2, <1>3, <1>4, <1>5, <1>6, <1>7, <1>8, <1>9, <1>10, <1>11, StepCases
<1> QED
  BY <1>12 DEF Same

-----------------------------------------------------------------------------
(* Order. *)

\* Mark flags one message, if any, and changes nothing else in the base.
LEMMA MarkFact ==
    ASSUME TypeOK, AtWork, Mark
    PROVE  /\ i \in 1 .. Len(base) /\ Len(base') = Len(base)
           /\ \A k \in 1 .. Len(base) :
                 /\ base'[k].n = base[k].n /\ base'[k].uid = base[k].uid
                 /\ base'[k].from = base[k].from /\ base'[k].local = base[k].local
                 /\ base'[k].sent = (base[k].sent \/ (k = i /\ Due(base[i])))
<1>1. i \in 1 .. Len(base) /\ base \in Seq(Message)
  BY DEF Mark, AtWork, Scanning, TypeOK, DiskOK
<1>2. base' = IF Due(base[i]) THEN [base EXCEPT ![i].sent = TRUE] ELSE base
  BY DEF Mark
<1>3. \A k \in 1 .. Len(base) : base[k] \in Message
  BY <1>1
<1>4. CASE Due(base[i])
  <2>1. Len(base') = Len(base) /\ \A k \in 1 .. Len(base) :
           base'[k] = IF k = i THEN [base[i] EXCEPT !.sent = TRUE] ELSE base[k]
    BY <1>1, <1>2, <1>4
  <2>2. \A k \in 1 .. Len(base) : k # i => base'[k] = base[k]
    BY <2>1
  <2>3. base'[i] = [base[i] EXCEPT !.sent = TRUE]
    BY <1>1, <2>1
  <2>4. /\ base'[i].n = base[i].n /\ base'[i].uid = base[i].uid /\ base'[i].sent
        /\ base'[i].from = base[i].from /\ base'[i].local = base[i].local
    <3>1. base[i] \in Message
      BY <1>1, <1>3
    <3> QED
      BY <2>3, <3>1 DEF Message
  <2>5. \A k \in 1 .. Len(base) : base'[k].sent = (base[k].sent \/ (k = i /\ Due(base[i])))
    <3> SUFFICES ASSUME NEW k \in 1 .. Len(base)
                 PROVE  base'[k].sent = (base[k].sent \/ (k = i /\ Due(base[i])))
      OBVIOUS
    <3>1. CASE k = i
      <4>1. base'[i].sent = TRUE
        BY <1>1, <1>3, <2>3 DEF Message
      <4> QED
        BY <1>4, <3>1, <4>1
    <3>2. CASE k # i
      <4>1. base[k].sent \in BOOLEAN
        BY <1>3 DEF Message
      <4> QED
        BY <2>2, <3>2, <4>1
    <3> QED
      BY <3>1, <3>2
  <2> QED
    BY <1>1, <2>1, <2>2, <2>4, <2>5
<1>5. CASE ~Due(base[i])
  <2>1. base' = base
    BY <1>2, <1>5
  <2>2. \A k \in 1 .. Len(base) : base'[k].sent = (base[k].sent \/ (k = i /\ Due(base[i])))
    <3> SUFFICES ASSUME NEW k \in 1 .. Len(base)
                 PROVE  base'[k].sent = (base[k].sent \/ (k = i /\ Due(base[i])))
      OBVIOUS
    <3>1. base[k].sent \in BOOLEAN
      BY <1>3 DEF Message
    <3> QED
      BY <1>5, <2>1, <3>1
  <2> QED
    BY <1>1, <2>1, <2>2
<1> QED
  BY <1>4, <1>5

\* A new message goes to the end.
LEMMA PostFact ==
    ASSUME TypeOK, AtWork, Post
    PROVE  /\ cur = None /\ pc \in {"off", "run"} /\ count' = count + 1 /\ count + 1 \in Ids
           /\ Len(base') = Len(base) + 1
           /\ \A k \in 1 .. Len(base) : base'[k] = base[k]
           /\ base'[Len(base) + 1] =
                 [n |-> count + 1, uid |-> uid, local |-> TRUE, sent |-> FALSE, from |-> None]
<1>1. base \in Seq(Message) /\ count \in 0 .. MaxMsg
  BY DEF TypeOK, DiskOK, HistOK
<1>2. cur = None /\ pc \in {"off", "run"}
  BY DEF Post, Closed, AtWork
<1>3. count' = count + 1 /\ count + 1 \in Ids
  BY <1>1, ParamFact DEF Post, Ids
<1> DEFINE m == [n |-> count', uid |-> uid, local |-> TRUE, sent |-> FALSE, from |-> None]
<1>4. base' = Append(base, m)
  BY DEF Post
<1> HIDE DEF m
<1>5. /\ Len(base') = Len(base) + 1 /\ \A k \in 1 .. Len(base) : base'[k] = base[k]
      /\ base'[Len(base) + 1] = m
  BY <1>1, <1>4
<1> QED
  BY <1>2, <1>3, <1>5 DEF m

\* The rest moves up.
LEMMA DeleteFact ==
    ASSUME TypeOK, AtWork, NEW k \in 1 .. Len(base), Delete(k)
    PROVE  /\ cur = None /\ pc \in {"off", "run"}
           /\ Len(base') = Len(base) - 1
           /\ \A j \in 1 .. Len(base) - 1 : base'[j] = base[IF j < k THEN j ELSE j + 1]
<1>1. base \in Seq(Message)
  BY DEF TypeOK, DiskOK
<1>2. base' = RemoveAt(base, k)
  BY DEF Delete
<1> QED
  BY <1>1, <1>2, RemoveFact DEF Delete, Closed, AtWork

\* The order of the numbers is kept.
LEMMA OrderedStep == ASSUME TypeOK, AtWork, Ordered, [Next]_vars PROVE Ordered'
<1> DEFINE Same == Ordered'
<1>0. base \in Seq(Message) /\ Len(base) \in Nat /\ count \in Nat /\ uid \in Nat
  BY DEF TypeOK, DiskOK, HistOK
<1>a. \A k \in 1 .. Len(base) : base[k].n \in Nat /\ base[k].uid \in Nat
  BY MsgFact DEF Ids
<1>1. Post => Same
  <2> SUFFICES ASSUME Post PROVE Same
    OBVIOUS
  <2>1. /\ cur' = None /\ uid' = uid + 1 /\ count' = count + 1
        /\ Len(base') = Len(base) + 1
        /\ \A k \in 1 .. Len(base) : base'[k] = base[k]
        /\ base'[Len(base) + 1].n = count + 1 /\ base'[Len(base) + 1].uid = uid
    <3>1. base'[Len(base) + 1] =
             [n |-> count + 1, uid |-> uid, local |-> TRUE, sent |-> FALSE, from |-> None]
      BY PostFact
    <3> QED
      BY <3>1, PostFact DEF Post
  <2>2. \A k \in 1 .. Len(base') : k \in 1 .. Len(base) \/ k = Len(base) + 1
    BY <1>0, <2>1
  <2>3. \A j, k \in 1 .. Len(base') : j < k => base'[j].uid < base'[k].uid /\ base'[j].n < base'[k].n
    BY <1>0, <1>a, <2>1, <2>2 DEF Ordered
  <2>4. \A k \in 1 .. Len(base') : base'[k].uid < uid' /\ base'[k].n <= count'
    BY <1>0, <1>a, <2>1, <2>2 DEF Ordered
  <2> QED
    BY <2>1, <2>3, <2>4 DEF Ordered
<1>2. Mark => Same
  <2> SUFFICES ASSUME Mark PROVE Same
    OBVIOUS
  <2>1. /\ Len(base') = Len(base)
        /\ \A k \in 1 .. Len(base) : base'[k].n = base[k].n /\ base'[k].uid = base[k].uid
    BY MarkFact
  <2>2. UNCHANGED <<uid, cur, count>>
    BY DEF Mark
  <2> QED
    BY <2>1, <2>2 DEF Ordered
<1>3. Store => Same
  <2> SUFFICES ASSUME Store PROVE Same
    OBVIOUS
  <2> DEFINE left == Len(base) - Gone
  <2>1. /\ Gone \in 0 .. Len(base) /\ Len(base') = left + 1
        /\ \A j \in 1 .. left : base'[j] = base[Gone + j]
        /\ base'[left + 1] = [n |-> cur.n, uid |-> uid, local |-> FALSE,
                              sent |-> mode = "both", from |-> cur.from]
    BY StoreFact
  <2>2. base'[left + 1].n = cur.n /\ base'[left + 1].uid = uid
    BY <2>1
  <2>3. /\ uid' = uid + 1 /\ cur' = None /\ count' = count
        /\ cur.n <= count /\ \A k \in 1 .. Len(base) : base[k].n < cur.n
    BY DEF Store, AtWork, Ordered
  <2>4. cur.n \in Nat
    BY StoreFact DEF Tossed, Ids
  <2> HIDE DEF left
  <2>5. left \in Nat /\ left = Len(base) - Gone
    BY <1>0, <2>1 DEF left
  <2>6. \A k \in 1 .. left : Gone + k \in 1 .. Len(base)
    BY <1>0, <2>1, <2>5
  <2>7. \A k \in 1 .. Len(base') : k \in 1 .. left \/ k = left + 1
    BY <2>1, <2>5
  <2>8. \A k \in 1 .. Len(base') : base'[k].uid < uid' /\ base'[k].n <= count'
    <3> SUFFICES ASSUME NEW k \in 1 .. Len(base')
                 PROVE  base'[k].uid < uid' /\ base'[k].n <= count'
      OBVIOUS
    <3>1. CASE k = left + 1
      BY <1>0, <2>2, <2>3, <2>4, <3>1
    <3>2. CASE k \in 1 .. left
      <4>1. Gone + k \in 1 .. Len(base) /\ base'[k] = base[Gone + k]
        BY <2>1, <2>6, <3>2 DEF left
      <4>2. base'[k].uid < uid /\ base'[k].n <= count /\ base'[k].uid \in Nat
        BY <1>a, <4>1 DEF Ordered
      <4> QED
        BY <1>0, <2>3, <4>2
    <3> QED
      BY <2>7, <3>1, <3>2
  <2>9. \A j, k \in 1 .. Len(base') : j < k => base'[j].uid < base'[k].uid /\ base'[j].n < base'[k].n
    <3> SUFFICES ASSUME NEW j \in 1 .. Len(base'), NEW k \in 1 .. Len(base'), j < k
                 PROVE  base'[j].uid < base'[k].uid /\ base'[j].n < base'[k].n
      OBVIOUS
    <3>1. j \in 1 .. left /\ Gone + j \in 1 .. Len(base) /\ base'[j] = base[Gone + j]
      BY <2>1, <2>5, <2>6, <2>7
    <3>2. CASE k = left + 1
      BY <2>2, <2>3, <3>1, <3>2 DEF Ordered
    <3>3. CASE k \in 1 .. left
      <4>1. Gone + k \in 1 .. Len(base) /\ base'[k] = base[Gone + k] /\ Gone + j < Gone + k
        BY <1>0, <2>1, <2>6, <3>3
      <4> QED
        BY <3>1, <4>1 DEF Ordered
    <3> QED
      BY <2>7, <3>2, <3>3
  <2> QED
    BY <2>3, <2>8, <2>9 DEF Ordered
<1>4. \A k \in 1 .. Len(base) : Delete(k) => Same
  <2> SUFFICES ASSUME NEW k \in 1 .. Len(base), Delete(k) PROVE Same
    OBVIOUS
  <2> DEFINE old(j) == IF j < k THEN j ELSE j + 1
  <2>1. /\ cur' = None /\ UNCHANGED <<uid, count>>
        /\ Len(base') = Len(base) - 1
        /\ \A j \in 1 .. Len(base) - 1 : base'[j] = base[old(j)]
    BY DeleteFact DEF Delete
  <2>2. \A j \in 1 .. Len(base') : old(j) \in 1 .. Len(base)
    BY <1>0, <2>1
  <2>3. \A j, x \in 1 .. Len(base') : j < x => old(j) < old(x)
    BY <1>0, <2>1
  <2> HIDE DEF old
  <2> QED
    BY <2>1, <2>2, <2>3 DEF Ordered
<1>5. \A k \in 0 .. Len(base), renumber \in BOOLEAN : Purge(k, renumber) => Same
  <2> SUFFICES ASSUME NEW k \in 0 .. Len(base), NEW renumber \in BOOLEAN, Purge(k, renumber) PROVE Same
    OBVIOUS
  <2>1. /\ base' \in Seq(Message) /\ Len(base') = Len(base) - k
        /\ \A j \in 1 .. Len(base) - k :
              base'[j] = [base[k + j] EXCEPT !.uid = IF renumber THEN uid + j - 1 ELSE @]
        /\ k # Len(base) => uid' = base'[Len(base')].uid + 1
    BY PurgeFact
  <2>2. cur' = None /\ UNCHANGED count
    BY DEF Purge, AtWork
  <2>3. \A j \in 1 .. Len(base') : k + j \in 1 .. Len(base)
    BY <1>0, <2>1
  <2>4. \A j \in 1 .. Len(base') :
           /\ base'[j].n = base[k + j].n
           /\ base'[j].uid = IF renumber THEN uid + j - 1 ELSE base[k + j].uid
    <3> SUFFICES ASSUME NEW j \in 1 .. Len(base')
                 PROVE  /\ base'[j].n = base[k + j].n
                        /\ base'[j].uid = IF renumber THEN uid + j - 1 ELSE base[k + j].uid
      OBVIOUS
    <3>1. base[k + j] \in Message
      BY <1>0, <2>3
    <3>2. base'[j] = [base[k + j] EXCEPT !.uid = IF renumber THEN uid + j - 1 ELSE @]
      BY <2>1
    <3> QED
      BY <3>1, <3>2 DEF Message
  <2>5. \A j, x \in 1 .. Len(base') : j < x => base'[j].uid < base'[x].uid /\ base'[j].n < base'[x].n
    <3> SUFFICES ASSUME NEW j \in 1 .. Len(base'), NEW x \in 1 .. Len(base'), j < x
                 PROVE  base'[j].uid < base'[x].uid /\ base'[j].n < base'[x].n
      OBVIOUS
    <3>1. k + j < k + x /\ k + j \in 1 .. Len(base) /\ k + x \in 1 .. Len(base) /\ uid + j - 1 < uid + x - 1
      BY <1>0, <2>3
    <3>2. base[k + j].uid < base[k + x].uid /\ base[k + j].n < base[k + x].n
      BY <3>1 DEF Ordered
    <3> QED
      BY <2>4, <3>1, <3>2
  <2>6. \A j \in 1 .. Len(base') : base'[j].uid < uid' /\ base'[j].n <= count'
    <3> SUFFICES ASSUME NEW j \in 1 .. Len(base')
                 PROVE  base'[j].uid < uid' /\ base'[j].n <= count'
      OBVIOUS
    <3>1. Len(base') \in 1 .. Len(base') /\ k # Len(base) /\ (j < Len(base') \/ j = Len(base'))
      BY <1>0, <2>1
    <3>2. \A x \in 1 .. Len(base') : base'[x].uid \in Nat
      <4>1. \A x \in 1 .. Len(base') : base'[x] \in Message
        BY <2>1
      <4> QED
        BY <4>1 DEF Message
    <3>3. base'[j].uid \in Nat /\ base'[Len(base')].uid \in Nat
      BY <3>1, <3>2
    <3>4. base'[j].uid < uid'
      BY <2>1, <2>5, <3>1, <3>3
    <3>5. base'[j].n <= count'
      BY <2>2, <2>3, <2>4 DEF Ordered
    <3> QED
      BY <3>4, <3>5
  <2> QED
    BY <2>2, <2>5, <2>6 DEF Ordered
<1>6. \A f \in Link : Toss(f) => Same
  <2> SUFFICES ASSUME NEW f \in Link, Toss(f) PROVE Same
    OBVIOUS
  <2>1. cur'.n = count + 1 /\ count' = count + 1 /\ UNCHANGED <<base, uid>>
    BY DEF Toss
  <2> QED
    BY <1>0, <1>a, <2>1 DEF Ordered
<1>7. (Open => Same) /\ (Close => Same) /\ (End => Same) /\ (StartScan => Same)
  BY DEF Open, Close, End, StartScan, Ordered
<1>8. (Send => Same) /\ (Advance => Same) /\ (Crash => Same) /\ (UNCHANGED vars => Same)
  BY DEF Send, SendTo, Advance, Crash, Ordered, vars
<1>9. Forward => Same
  BY DEF Forward, SendTo, Ordered
<1>10. \A m \in Modes, s \in BOOLEAN, r \in Link \cup {None} : Begin(m, s, r) => Same
  BY DEF Begin, Ordered
<1> HIDE DEF Same
<1>11. Same
  BY <1>1, <1>2, <1>3, <1>4, <1>5, <1>6, <1>7, <1>8, <1>9, <1>10, StepCases
<1> QED
  BY <1>11 DEF Same

-----------------------------------------------------------------------------
(* What was sent, and how often. *)

\* Sequences of messages differ by number.
LEMMA OwnNumber ==
    ASSUME TypeOK, Ordered, NEW j \in 1 .. Len(base), NEW k \in 1 .. Len(base), base[j].n = base[k].n
    PROVE  j = k
<1>1. base[j].n \in Nat /\ base[k].n \in Nat
  BY MsgFact DEF Ids
<1>2. Len(base) \in Nat
  BY DEF TypeOK, DiskOK
<1>3. ~(j < k) /\ ~(k < j)
  BY <1>1 DEF Ordered
<1> QED
  BY <1>2, <1>3

\* ... and not in this step either.
NeverYet(n) == \A l \in Link : copies'[n][l] = 0

\* Nothing is written under a number without being flagged.
LEMMA UnsentStep ==
    ASSUME TypeOK, AtWork, Ordered, Unsent, [Next]_vars
    PROVE  Unsent'
<1> DEFINE Same == Unsent'
<1>0. base \in Seq(Message) /\ Len(base) \in Nat /\ count \in Nat
  BY DEF TypeOK, DiskOK, HistOK
<1>1. Post => Same
  <2> SUFFICES ASSUME Post PROVE Same
    OBVIOUS
  <2>1. /\ cur' = None /\ pc' # "send" /\ count' = count + 1 /\ UNCHANGED copies
        /\ Len(base') = Len(base) + 1 /\ count + 1 \in Ids
        /\ \A k \in 1 .. Len(base) : base'[k] = base[k]
        /\ base'[Len(base) + 1].n = count + 1
    <3>1. base'[Len(base) + 1] =
             [n |-> count + 1, uid |-> uid, local |-> TRUE, sent |-> FALSE, from |-> None]
      BY PostFact
    <3> QED
      BY <3>1, PostFact DEF Post
  <2>2. \A k \in 1 .. Len(base') : k \in 1 .. Len(base) \/ k = Len(base) + 1
    BY <1>0, <2>1
  <2>3. \A n \in Ids : n > count' => NeverYet(n)
    BY <1>0, <2>1 DEF Unsent, Never, NeverYet, Ids
  <2>4. NeverYet(count + 1)
    BY <1>0, <2>1 DEF Unsent, Never, NeverYet
  <2>5. \A k \in 1 .. Len(base') : ~base'[k].sent => NeverYet(base'[k].n)
    BY <2>1, <2>2, <2>4 DEF Unsent, Never, NeverYet
  <2> QED
    BY <2>1, <2>3, <2>5 DEF Unsent, Never, NeverYet
<1>2. Mark => Same
  <2> SUFFICES ASSUME Mark PROVE Same
    OBVIOUS
  <2>1. /\ i \in 1 .. Len(base) /\ Len(base') = Len(base)
        /\ \A k \in 1 .. Len(base) :
              /\ base'[k].n = base[k].n
              /\ base'[k].sent = (base[k].sent \/ (k = i /\ Due(base[i])))
    BY MarkFact
  <2>2. UNCHANGED <<cur, count, copies, i, mode>> /\ pc' = "send" /\ pc # "store"
        /\ (tosend' # {} => Due(base[i]))
    BY DEF Mark
  <2>3. \A k \in 1 .. Len(base') : ~base'[k].sent => NeverYet(base'[k].n)
    BY <2>1, <2>2 DEF Unsent, Never, NeverYet
  <2>4. tosend' # {} => base'[i].sent /\ (mode # "rescan" => NeverYet(base'[i].n))
    BY <2>1, <2>2 DEF Unsent, Never, NeverYet, Due
  <2> QED
    BY <2>2, <2>3, <2>4 DEF Unsent, Never, NeverYet
<1>3. Store => Same
  <2> SUFFICES ASSUME Store PROVE Same
    OBVIOUS
  <2> DEFINE left == Len(base) - Gone
  <2>1. /\ Gone \in 0 .. Len(base) /\ Len(base') = left + 1
        /\ \A j \in 1 .. left : base'[j] = base[Gone + j]
        /\ base'[left + 1] = [n |-> cur.n, uid |-> uid, local |-> FALSE,
                              sent |-> mode = "both", from |-> cur.from]
    BY StoreFact
  <2>2. base'[left + 1].n = cur.n /\ base'[left + 1].sent = (mode = "both")
    BY <2>1
  <2>3. UNCHANGED <<count, copies, mode>> /\ cur' = None /\ pc' = "open" /\ cur # None
    BY DEF Store, AtWork
  <2> HIDE DEF left
  <2>4. \A k \in 1 .. Len(base') : k \in 1 .. left \/ k = left + 1
    BY <1>0, <2>1 DEF left
  <2>5. \A k \in 1 .. left : Gone + k \in 1 .. Len(base)
    BY <1>0, <2>1 DEF left
  <2>6. mode # "both" => Never(cur.n)
    BY <2>3 DEF Unsent
  <2>7. \A k \in 1 .. Len(base') : ~base'[k].sent => NeverYet(base'[k].n)
    <3> SUFFICES ASSUME NEW k \in 1 .. Len(base'), ~base'[k].sent PROVE NeverYet(base'[k].n)
      OBVIOUS
    <3>1. CASE k = left + 1
      BY <2>2, <2>3, <2>6, <3>1 DEF Never, NeverYet
    <3>2. CASE k \in 1 .. left
      <4>1. Gone + k \in 1 .. Len(base) /\ base'[k] = base[Gone + k]
        BY <2>1, <2>5, <3>2 DEF left
      <4> QED
        BY <2>3, <4>1 DEF Unsent, Never, NeverYet
    <3> QED
      BY <2>4, <3>1, <3>2
  <2> QED
    BY <2>3, <2>7 DEF Unsent, Never, NeverYet
<1>4. \A k \in 1 .. Len(base) : Delete(k) => Same
  <2> SUFFICES ASSUME NEW k \in 1 .. Len(base), Delete(k) PROVE Same
    OBVIOUS
  <2> DEFINE old(j) == IF j < k THEN j ELSE j + 1
  <2>1. /\ cur' = None /\ pc' # "send" /\ UNCHANGED <<count, copies>>
        /\ Len(base') = Len(base) - 1
        /\ \A j \in 1 .. Len(base) - 1 : base'[j] = base[old(j)]
    BY DeleteFact DEF Delete
  <2>2. \A j \in 1 .. Len(base') : old(j) \in 1 .. Len(base)
    BY <1>0, <2>1
  <2> HIDE DEF old
  <2> QED
    BY <2>1, <2>2 DEF Unsent, Never, NeverYet
<1>5. \A k \in 0 .. Len(base), renumber \in BOOLEAN : Purge(k, renumber) => Same
  <2> SUFFICES ASSUME NEW k \in 0 .. Len(base), NEW renumber \in BOOLEAN, Purge(k, renumber) PROVE Same
    OBVIOUS
  <2>1. /\ Len(base') = Len(base) - k
        /\ \A j \in 1 .. Len(base) - k :
              base'[j] = [base[k + j] EXCEPT !.uid = IF renumber THEN uid + j - 1 ELSE @]
    BY PurgeFact
  <2>2. cur' = None /\ UNCHANGED <<count, copies>> /\ pc' = "off"
    BY DEF Purge, AtWork
  <2>3. \A j \in 1 .. Len(base') : k + j \in 1 .. Len(base)
    BY <1>0, <2>1
  <2>4. \A j \in 1 .. Len(base') : base'[j].n = base[k + j].n /\ base'[j].sent = base[k + j].sent
    <3> SUFFICES ASSUME NEW j \in 1 .. Len(base')
                 PROVE  base'[j].n = base[k + j].n /\ base'[j].sent = base[k + j].sent
      OBVIOUS
    <3>1. base[k + j] \in Message
      BY <1>0, <2>3
    <3>2. base'[j] = [base[k + j] EXCEPT !.uid = IF renumber THEN uid + j - 1 ELSE @]
      BY <2>1
    <3> QED
      BY <3>1, <3>2 DEF Message
  <2>5. \A j \in 1 .. Len(base') : ~base'[j].sent => NeverYet(base'[j].n)
    <3> SUFFICES ASSUME NEW j \in 1 .. Len(base'), ~base'[j].sent PROVE NeverYet(base'[j].n)
      OBVIOUS
    <3>1. ~base[k + j].sent /\ base'[j].n = base[k + j].n /\ k + j \in 1 .. Len(base)
      BY <2>3, <2>4
    <3> QED
      BY <2>2, <3>1 DEF Unsent, Never, NeverYet
  <2> QED
    BY <2>2, <2>5 DEF Unsent, Never, NeverYet
<1>6. \A f \in Link : Toss(f) => Same
  <2> SUFFICES ASSUME NEW f \in Link, Toss(f) PROVE Same
    OBVIOUS
  <2>1. cur'.n = count + 1 /\ count' = count + 1 /\ UNCHANGED <<base, copies>> /\ pc' = "open"
        /\ count + 1 \in Ids
    BY <1>0, ParamFact DEF Toss, Ids
  <2>2. Never(count + 1) /\ \A n \in Ids : n > count + 1 => Never(n)
    BY <1>0, <2>1 DEF Unsent, Ids
  <2>3. \A n \in Ids : NeverYet(n) <=> Never(n)
    BY <2>1 DEF Never, NeverYet
  <2> QED
    BY <2>1, <2>2 DEF Unsent, Never, NeverYet
<1>7. Send => Same
  <2> SUFFICES ASSUME Send PROVE Same
    OBVIOUS
  <2> DEFINE to == IF mode = "rescan" THEN tosend \cap {rnode} ELSE tosend
  <2>1. i \in 1 .. Len(base) /\ base[i].n \in Ids
    BY MsgFact DEF Send, AtWork, Scanning
  <2>2. to \in SUBSET Link /\ HistOK
    BY DEF TypeOK, ScanOK
  <2>3. SendTo(base[i].n, to)
    BY DEF Send
  <2>4. to # {} => base[i].sent
    BY DEF Unsent, Send
  <2> HIDE DEF to
  <2>5. /\ UNCHANGED count
        /\ \A x \in Ids : x # base[i].n => copies'[x] = copies[x]
        /\ mode = "rescan" => copies' = copies
        /\ mode # "rescan" => \A l \in Link :
              copies'[base[i].n][l] = IF l \in to /\ copies[base[i].n][l] < 2
                                      THEN copies[base[i].n][l] + 1 ELSE copies[base[i].n][l]
    BY <2>1, <2>2, <2>3, SendFact
  <2>6. pc = "send" /\ pc' = "advance" /\ UNCHANGED <<base, cur, mode>>
    BY DEF Send
  <2>7. \A n \in Ids : (n # base[i].n \/ to = {}) /\ Never(n) => NeverYet(n)
    BY <2>5 DEF Never, NeverYet
  <2>8. base[i].n <= count /\ count' = count
    BY <2>1, <2>5 DEF Ordered
  <2>9. \A n \in Ids : n > count' => NeverYet(n)
    BY <1>0, <2>1, <2>7, <2>8 DEF Unsent, Ids
  <2>10. \A k \in 1 .. Len(base) : ~base[k].sent => NeverYet(base[k].n)
    <3> SUFFICES ASSUME NEW k \in 1 .. Len(base), ~base[k].sent PROVE NeverYet(base[k].n)
      OBVIOUS
    <3>1. base[k].n \in Ids /\ Never(base[k].n)
      BY MsgFact DEF Unsent
    <3>2. base[k].n # base[i].n \/ to = {}
      BY <2>1, <2>4, OwnNumber
    <3> QED
      BY <2>7, <3>1, <3>2
  <2>11. cur # None => NeverYet(cur.n)
    <3> SUFFICES ASSUME cur # None PROVE NeverYet(cur.n)
      OBVIOUS
    <3>1. cur.n \in Ids /\ Never(cur.n)
      BY <2>6 DEF Unsent, TypeOK, ScanOK, Tossed
    <3>2. base[i].n < cur.n /\ base[i].n \in Nat
      BY <2>1 DEF Ordered, Ids
    <3> QED
      BY <2>7, <3>1, <3>2
  <2>12. \A k \in 1 .. Len(base') : ~base'[k].sent => NeverYet(base'[k].n)
    BY <2>6, <2>10 DEF Never, NeverYet
  <2>13. cur' # None => NeverYet(cur'.n)
    BY <2>6, <2>11 DEF Never, NeverYet
  <2> QED
    BY <2>6, <2>9, <2>12, <2>13 DEF Unsent, Never, NeverYet
<1>8. Forward => Same
  <2> SUFFICES ASSUME Forward PROVE Same
    OBVIOUS
  <2>0. pc = "open" /\ cur # None /\ cur \in Tossed /\ cur.n \in Ids
        /\ pc' = "store" /\ UNCHANGED <<base, cur, mode, i, tosend>>
    BY DEF Forward, TypeOK, ScanOK, Tossed
  <2>1. CASE mode = "both"
    <3> DEFINE to == IF Cardinality(Link) > 1 THEN Link \ {cur.from} ELSE {}
    <3>1. HistOK
      BY DEF TypeOK
    <3>2. to \in SUBSET Link
      OBVIOUS
    <3>3. SendTo(cur.n, to)
      BY <2>1 DEF Forward
    <3> HIDE DEF to
    <3>4. UNCHANGED count /\ \A x \in Ids : x # cur.n => copies'[x] = copies[x]
      BY <2>0, <3>1, <3>2, <3>3, SendFact
    <3>5. \A n \in Ids : n # cur.n /\ Never(n) => NeverYet(n)
      BY <3>4 DEF Never, NeverYet
    <3>6. cur.n <= count
      BY <2>0 DEF Ordered
    <3>7. \A n \in Ids : n > count' => NeverYet(n)
      BY <1>0, <2>0, <3>4, <3>5, <3>6 DEF Unsent, Ids
    <3>8. \A k \in 1 .. Len(base) : ~base[k].sent => NeverYet(base[k].n)
      <4> SUFFICES ASSUME NEW k \in 1 .. Len(base), ~base[k].sent PROVE NeverYet(base[k].n)
        OBVIOUS
      <4>1. base[k].n \in Ids /\ Never(base[k].n) /\ base[k].n < cur.n
        BY <2>0, MsgFact DEF Unsent, Ordered
      <4>2. base[k].n # cur.n
        BY <2>0, <4>1 DEF Ids
      <4> QED
        BY <3>5, <4>1, <4>2
    <3>9. \A k \in 1 .. Len(base') : ~base'[k].sent => NeverYet(base'[k].n)
      BY <2>0, <3>8 DEF Never, NeverYet
    <3> QED
      BY <2>0, <2>1, <3>7, <3>9 DEF Unsent, Never, NeverYet
  <2>2. CASE mode # "both"
    <3>1. UNCHANGED hist
      BY <2>2 DEF Forward
    <3> QED
      BY <2>0, <3>1 DEF Unsent, Never, NeverYet
  <2> QED
    BY <2>1, <2>2
<1>9. (Open => Same) /\ (Close => Same) /\ (End => Same) /\ (StartScan => Same)
  BY DEF Open, Close, End, StartScan, Unsent, Never
<1>10. (Advance => Same) /\ (Crash => Same) /\ (UNCHANGED vars => Same)
  BY DEF Advance, Crash, Unsent, Never, vars
<1>11. \A m \in Modes, s \in BOOLEAN, r \in Link \cup {None} : Begin(m, s, r) => Same
  BY DEF Begin, Unsent, Never
<1> HIDE DEF Same
<1>12. Same
  BY <1>1, <1>2, <1>3, <1>4, <1>5, <1>6, <1>7, <1>8, <1>9, <1>10, <1>11, StepCases
<1> QED
  BY <1>12 DEF Same

\* Under the invariants no message is sent twice.
LEMMA OnceStep ==
    ASSUME TypeOK, AtWork, Unsent, AtMostOnce, [Next]_vars
    PROVE  AtMostOnce'
<1> DEFINE Same == AtMostOnce'
<1>1. Send => Same
  <2> SUFFICES ASSUME Send PROVE Same
    OBVIOUS
  <2> DEFINE to == IF mode = "rescan" THEN tosend \cap {rnode} ELSE tosend
  <2>1. base[i].n \in Ids
    BY MsgFact DEF Send, AtWork, Scanning
  <2>2. to \in SUBSET Link /\ HistOK
    BY DEF TypeOK, ScanOK
  <2>3. SendTo(base[i].n, to)
    BY DEF Send
  <2>4. mode # "rescan" /\ to # {} => Never(base[i].n)
    BY DEF Unsent, Send
  <2> HIDE DEF to
  <2>5. /\ \A x \in Ids : x # base[i].n => copies'[x] = copies[x]
        /\ mode = "rescan" => copies' = copies
        /\ mode # "rescan" => \A l \in Link :
              copies'[base[i].n][l] = IF l \in to /\ copies[base[i].n][l] < 2
                                      THEN copies[base[i].n][l] + 1 ELSE copies[base[i].n][l]
    BY <2>1, <2>2, <2>3, SendFact
  <2>6. mode # "rescan" => \A l \in Link : copies'[base[i].n][l] <= 1
    <3> SUFFICES ASSUME mode # "rescan", NEW l \in Link PROVE copies'[base[i].n][l] <= 1
      OBVIOUS
    <3>1. CASE l \in to
      <4>1. copies[base[i].n][l] = 0
        BY <2>4, <3>1 DEF Never
      <4> QED
        BY <2>5, <3>1, <4>1
    <3>2. CASE l \notin to
      <4>1. copies'[base[i].n][l] = copies[base[i].n][l]
        BY <2>5, <3>2
      <4> QED
        BY <2>1, <4>1 DEF AtMostOnce
    <3> QED
      BY <3>1, <3>2
  <2> QED
    BY <2>5, <2>6 DEF AtMostOnce
<1>2. Forward => Same
  <2> SUFFICES ASSUME Forward PROVE Same
    OBVIOUS
  <2>1. CASE mode = "both"
    <3> DEFINE to == IF Cardinality(Link) > 1 THEN Link \ {cur.from} ELSE {}
    <3>1. cur.n \in Ids /\ HistOK /\ Never(cur.n)
      BY DEF Forward, TypeOK, ScanOK, Tossed, Unsent
    <3>2. to \in SUBSET Link
      OBVIOUS
    <3>3. SendTo(cur.n, to)
      BY <2>1 DEF Forward
    <3> HIDE DEF to
    <3>4. /\ \A x \in Ids : x # cur.n => copies'[x] = copies[x]
          /\ \A l \in Link : copies'[cur.n][l] = IF l \in to /\ copies[cur.n][l] < 2
                                THEN copies[cur.n][l] + 1 ELSE copies[cur.n][l]
      BY <2>1, <3>1, <3>2, <3>3, SendFact
    <3>5. \A l \in Link : copies'[cur.n][l] <= 1
      BY <3>1, <3>4 DEF Never
    <3> QED
      BY <3>4, <3>5 DEF AtMostOnce
  <2>2. CASE mode # "both"
    BY <2>2 DEF Forward, AtMostOnce
  <2> QED
    BY <2>1, <2>2
<1>3. (Post => Same) /\ (Open => Same) /\ (Close => Same) /\ (End => Same) /\ (StartScan => Same)
  BY DEF Post, Open, Close, End, StartScan, AtMostOnce
<1>4. (Mark => Same) /\ (Advance => Same) /\ (Store => Same) /\ (Crash => Same)
  BY DEF Mark, Advance, Store, Crash, AtMostOnce
<1>5. (UNCHANGED vars => Same) /\ \A f \in Link : Toss(f) => Same
  BY DEF Toss, AtMostOnce, vars
<1>6. \A k \in 1 .. Len(base) : Delete(k) => Same
  BY DEF Delete, AtMostOnce
<1>7. \A m \in Modes, s \in BOOLEAN, r \in Link \cup {None} : Begin(m, s, r) => Same
  BY DEF Begin, AtMostOnce
<1>8. \A k \in 0 .. Len(base), renumber \in BOOLEAN : Purge(k, renumber) => Same
  BY DEF Purge, AtMostOnce
<1> HIDE DEF Same
<1>9. Same
  BY <1>1, <1>2, <1>3, <1>4, <1>5, <1>6, <1>7, <1>8, StepCases
<1> QED
  BY <1>9 DEF Same

-----------------------------------------------------------------------------
(* What is flagged was sent. *)

\* The one link of an area is the one a message comes from.
LEMMA LoneLink == ASSUME NEW f \in Link, ~(Cardinality(Link) > 1) PROVE Link \ {f} = {}
<1>1. Cardinality(Link) \in Nat /\ IsFiniteSet(Link)
  BY ParamFact, FS_CardinalityType
<1>2. Cardinality({f}) = 1 /\ {f} \subseteq Link
  BY FS_Singleton
<1>3. Cardinality({f}) <= Cardinality(Link)
  BY <1>1, <1>2, FS_Subset
<1>4. Cardinality(Link) = Cardinality({f})
  BY <1>1, <1>2, <1>3
<1>5. {f} = Link
  BY <1>1, <1>2, <1>4, FS_Subset
<1> QED
  BY <1>5

\* A flagged message was written, is being written, or is excused.
LEMMA ServedStep ==
    ASSUME TypeOK, AtWork, Served, [Next]_vars
    PROVE  Served'
<1> DEFINE Same == Served'
<1>0. base \in Seq(Message) /\ Len(base) \in Nat
  BY DEF TypeOK, DiskOK
<1>1. Post => Same
  <2> SUFFICES ASSUME Post PROVE Same
    OBVIOUS
  <2>1. /\ pc' = pc /\ pc \in {"off", "run"} /\ UNCHANGED <<served, waived>>
        /\ Len(base') = Len(base) + 1
        /\ \A k \in 1 .. Len(base) : base'[k] = base[k]
        /\ ~base'[Len(base) + 1].sent
    <3>1. base'[Len(base) + 1] =
             [n |-> count + 1, uid |-> uid, local |-> TRUE, sent |-> FALSE, from |-> None]
      BY PostFact
    <3> QED
      BY <3>1, PostFact DEF Post
  <2>2. \A k \in 1 .. Len(base') : k \in 1 .. Len(base) \/ k = Len(base) + 1
    BY <1>0, <2>1
  <2> QED
    BY <2>1, <2>2 DEF Served, Sending
<1>2. Mark => Same
  <2> SUFFICES ASSUME Mark PROVE Same
    OBVIOUS
  <2>1. /\ i \in 1 .. Len(base) /\ Len(base') = Len(base)
        /\ \A k \in 1 .. Len(base) :
              /\ base'[k].n = base[k].n /\ base'[k].from = base[k].from
              /\ base'[k].sent = (base[k].sent \/ (k = i /\ Due(base[i])))
    BY MarkFact
  <2>2. /\ pc = "mark" /\ pc' = "send" /\ UNCHANGED <<i, mode, served>> /\ waived \subseteq waived'
        /\ Due(base[i]) => tosend' = Link \ {base[i].from}
        /\ Due(base[i]) /\ mode = "rescan" /\ ~base[i].sent => base[i].n \in waived'
    BY DEF Mark
  <2>3. \A k \in 1 .. Len(base') :
          base'[k].sent => \/ base'[k].n \in waived'
                           \/ Link \ {base'[k].from} \subseteq served'[base'[k].n]
                           \/ Sending(k)'
    <3> SUFFICES ASSUME NEW k \in 1 .. Len(base'), base'[k].sent
                 PROVE  \/ base'[k].n \in waived'
                        \/ Link \ {base'[k].from} \subseteq served'[base'[k].n]
                        \/ Sending(k)'
      OBVIOUS
    <3>1. CASE base[k].sent
      BY <2>1, <2>2, <3>1 DEF Served, Sending
    <3>2. CASE ~base[k].sent
      <4>1. k = i /\ Due(base[i])
        BY <2>1, <3>2
      <4> QED
        BY <2>1, <2>2, <3>2, <4>1 DEF Sending
    <3> QED
      BY <3>1, <3>2
  <2> QED
    BY <2>2, <2>3 DEF Served
<1>3. Store => Same
  <2> SUFFICES ASSUME Store PROVE Same
    OBVIOUS
  <2> DEFINE left == Len(base) - Gone
  <2>1. /\ Gone \in 0 .. Len(base) /\ Len(base') = left + 1
        /\ \A j \in 1 .. left : base'[j] = base[Gone + j]
        /\ base'[left + 1] = [n |-> cur.n, uid |-> uid, local |-> FALSE,
                              sent |-> mode = "both", from |-> cur.from]
    BY StoreFact
  <2>2. base'[left + 1].n = cur.n /\ base'[left + 1].sent = (mode = "both")
        /\ base'[left + 1].from = cur.from
    BY <2>1
  <2>3. UNCHANGED <<served, waived>> /\ pc = "store" /\ pc' = "open"
    BY DEF Store
  <2> HIDE DEF left
  <2>4. \A k \in 1 .. Len(base') : k \in 1 .. left \/ k = left + 1
    BY <1>0, <2>1 DEF left
  <2>5. \A k \in 1 .. left : Gone + k \in 1 .. Len(base)
    BY <1>0, <2>1 DEF left
  <2>6. \A k \in 1 .. Len(base') :
          base'[k].sent => \/ base'[k].n \in waived'
                           \/ Link \ {base'[k].from} \subseteq served'[base'[k].n]
    <3> SUFFICES ASSUME NEW k \in 1 .. Len(base'), base'[k].sent
                 PROVE  \/ base'[k].n \in waived'
                        \/ Link \ {base'[k].from} \subseteq served'[base'[k].n]
      OBVIOUS
    <3>1. CASE k = left + 1
      BY <2>2, <2>3, <3>1 DEF Served
    <3>2. CASE k \in 1 .. left
      <4>1. Gone + k \in 1 .. Len(base) /\ base'[k] = base[Gone + k]
        BY <2>1, <2>5, <3>2 DEF left
      <4> QED
        BY <2>3, <4>1 DEF Served, Sending
    <3> QED
      BY <2>4, <3>1, <3>2
  <2> QED
    BY <2>3, <2>6 DEF Served
<1>4. \A k \in 1 .. Len(base) : Delete(k) => Same
  <2> SUFFICES ASSUME NEW k \in 1 .. Len(base), Delete(k) PROVE Same
    OBVIOUS
  <2> DEFINE old(j) == IF j < k THEN j ELSE j + 1
  <2>1. /\ pc \in {"off", "run"} /\ UNCHANGED <<pc, served, waived>>
        /\ Len(base') = Len(base) - 1
        /\ \A j \in 1 .. Len(base) - 1 : base'[j] = base[old(j)]
    BY DeleteFact DEF Delete
  <2>2. \A j \in 1 .. Len(base') : old(j) \in 1 .. Len(base)
    BY <1>0, <2>1
  <2> HIDE DEF old
  <2> QED
    BY <2>1, <2>2 DEF Served, Sending
<1>5. \A k \in 0 .. Len(base), renumber \in BOOLEAN : Purge(k, renumber) => Same
  <2> SUFFICES ASSUME NEW k \in 0 .. Len(base), NEW renumber \in BOOLEAN, Purge(k, renumber) PROVE Same
    OBVIOUS
  <2>1. /\ Len(base') = Len(base) - k
        /\ \A j \in 1 .. Len(base) - k :
              base'[j] = [base[k + j] EXCEPT !.uid = IF renumber THEN uid + j - 1 ELSE @]
    BY PurgeFact
  <2>2. pc = "off" /\ UNCHANGED <<pc, served, waived>>
    BY DEF Purge
  <2>3. \A j \in 1 .. Len(base') : k + j \in 1 .. Len(base)
    BY <1>0, <2>1
  <2>4. \A j \in 1 .. Len(base') : /\ base'[j].n = base[k + j].n /\ base'[j].sent = base[k + j].sent
                                   /\ base'[j].from = base[k + j].from
    <3> SUFFICES ASSUME NEW j \in 1 .. Len(base')
                 PROVE  /\ base'[j].n = base[k + j].n /\ base'[j].sent = base[k + j].sent
                        /\ base'[j].from = base[k + j].from
      OBVIOUS
    <3>1. base[k + j] \in Message
      BY <1>0, <2>3
    <3>2. base'[j] = [base[k + j] EXCEPT !.uid = IF renumber THEN uid + j - 1 ELSE @]
      BY <2>1
    <3> QED
      BY <3>1, <3>2 DEF Message
  <2>5. \A j \in 1 .. Len(base') :
          base'[j].sent => \/ base'[j].n \in waived'
                           \/ Link \ {base'[j].from} \subseteq served'[base'[j].n]
    <3> SUFFICES ASSUME NEW j \in 1 .. Len(base'), base'[j].sent
                 PROVE  \/ base'[j].n \in waived'
                        \/ Link \ {base'[j].from} \subseteq served'[base'[j].n]
      OBVIOUS
    <3>1. /\ base[k + j].sent /\ base'[j].n = base[k + j].n /\ base'[j].from = base[k + j].from
          /\ k + j \in 1 .. Len(base)
      BY <2>3, <2>4
    <3> QED
      BY <2>2, <3>1 DEF Served, Sending
  <2> QED
    BY <2>2, <2>5 DEF Served
<1>6. Send => Same
  <2> SUFFICES ASSUME Send PROVE Same
    OBVIOUS
  <2> DEFINE to == IF mode = "rescan" THEN tosend \cap {rnode} ELSE tosend
  <2>1. i \in 1 .. Len(base) /\ base[i].n \in Ids
    BY MsgFact DEF Send, AtWork, Scanning
  <2>2. to \in SUBSET Link /\ HistOK
    BY DEF TypeOK, ScanOK
  <2>3. SendTo(base[i].n, to)
    BY DEF Send
  <2>4. mode # "rescan" => to = tosend
    OBVIOUS
  <2> HIDE DEF to
  <2>5. /\ UNCHANGED waived
        /\ \A x \in Ids : x # base[i].n => served'[x] = served[x]
        /\ served'[base[i].n] = served[base[i].n] \cup to
    BY <2>1, <2>2, <2>3, SendFact
  <2>6. pc = "send" /\ pc' = "advance" /\ UNCHANGED base
    BY DEF Send
  <2>7. \A x \in Ids : served[x] \subseteq served'[x]
    BY <2>5
  <2>8. \A k \in 1 .. Len(base) :
          base[k].sent => \/ base[k].n \in waived'
                          \/ Link \ {base[k].from} \subseteq served'[base[k].n]
    <3> SUFFICES ASSUME NEW k \in 1 .. Len(base), base[k].sent
                 PROVE  \/ base[k].n \in waived'
                        \/ Link \ {base[k].from} \subseteq served'[base[k].n]
      OBVIOUS
    <3>1. base[k].n \in Ids
      BY MsgFact
    <3>2. CASE Sending(k)
      BY <2>4, <2>5, <3>2 DEF Sending
    <3>3. CASE ~Sending(k)
      BY <2>5, <2>7, <3>1, <3>3 DEF Served
    <3> QED
      BY <3>2, <3>3
  <2> QED
    BY <2>6, <2>8 DEF Served
<1>7. Forward => Same
  <2> SUFFICES ASSUME Forward PROVE Same
    OBVIOUS
  <2>0. pc = "open" /\ cur \in Tossed /\ cur.n \in Ids /\ cur.from \in Link
        /\ pc' = "store" /\ UNCHANGED <<base, cur, mode>>
    BY DEF Forward, TypeOK, ScanOK, Tossed
  <2>1. CASE mode = "both"
    <3> DEFINE to == IF Cardinality(Link) > 1 THEN Link \ {cur.from} ELSE {}
    <3>1. HistOK
      BY DEF TypeOK
    <3>2. to \in SUBSET Link
      OBVIOUS
    <3>3. SendTo(cur.n, to)
      BY <2>1 DEF Forward
    <3>4. Link \ {cur.from} \subseteq to
      BY <2>0, LoneLink
    <3> HIDE DEF to
    <3>5. /\ UNCHANGED waived
          /\ \A x \in Ids : x # cur.n => served'[x] = served[x]
          /\ served'[cur.n] = served[cur.n] \cup to
      BY <2>0, <3>1, <3>2, <3>3, SendFact
    <3>6. \A x \in Ids : served[x] \subseteq served'[x]
      BY <3>5
    <3>7. \A k \in 1 .. Len(base) : base[k].n \in Ids
      BY MsgFact
    <3>8. \A k \in 1 .. Len(base) :
            base[k].sent => \/ base[k].n \in waived'
                            \/ Link \ {base[k].from} \subseteq served'[base[k].n]
      BY <2>0, <3>5, <3>6, <3>7 DEF Served, Sending
    <3>9. Link \ {cur.from} \subseteq served'[cur.n]
      BY <3>4, <3>5
    <3> QED
      BY <2>0, <3>8, <3>9 DEF Served
  <2>2. CASE mode # "both"
    <3>1. UNCHANGED hist
      BY <2>2 DEF Forward
    <3> QED
      BY <2>0, <2>2, <3>1 DEF Served, Sending
  <2> QED
    BY <2>1, <2>2
<1>8. Crash => Same
  <2> SUFFICES ASSUME Crash PROVE Same
    OBVIOUS
  <2>1. /\ pc' = "off" /\ UNCHANGED <<base, served>> /\ waived \subseteq waived'
        /\ pc = "send" /\ tosend # {} => base[i].n \in waived'
    BY DEF Crash
  <2>2. \A k \in 1 .. Len(base) :
          base[k].sent => \/ base[k].n \in waived'
                          \/ Link \ {base[k].from} \subseteq served[base[k].n]
    <3> SUFFICES ASSUME NEW k \in 1 .. Len(base), base[k].sent
                 PROVE  \/ base[k].n \in waived'
                        \/ Link \ {base[k].from} \subseteq served[base[k].n]
      OBVIOUS
    <3>1. CASE Sending(k)
      BY <2>1, <3>1 DEF Sending
    <3>2. CASE ~Sending(k)
      BY <2>1, <3>2 DEF Served
    <3> QED
      BY <3>1, <3>2
  <2> QED
    BY <2>1, <2>2 DEF Served
<1>9. (Open => Same) /\ (Close => Same) /\ (End => Same) /\ (StartScan => Same)
  BY DEF Open, Close, End, StartScan, Served, Sending
<1>10. (Advance => Same) /\ (UNCHANGED vars => Same) /\ (\A f \in Link : Toss(f) => Same)
  BY DEF Advance, Toss, Served, Sending, vars
<1>11. \A m \in Modes, s \in BOOLEAN, r \in Link \cup {None} : Begin(m, s, r) => Same
  BY DEF Begin, Served, Sending
<1> HIDE DEF Same
<1>12. Same
  BY <1>1, <1>2, <1>3, <1>4, <1>5, <1>6, <1>7, <1>8, <1>9, <1>10, <1>11, StepCases
<1> QED
  BY <1>12 DEF Same

-----------------------------------------------------------------------------
(* Highwater. *)

\* The next number stays above highwater, and the newest message just below it.
LEMMA NumbersStep ==
    ASSUME TypeOK, AtWork, Ordered, Numbers, Safe, [Next]_vars
    PROVE  Numbers'
<1> DEFINE Same == Numbers'
<1>0. base \in Seq(Message) /\ Len(base) \in Nat /\ uid \in Nat \ {0} /\ hw \in Nat
  BY DEF TypeOK, DiskOK
<1>1. Post => Same
  <2> SUFFICES ASSUME Post PROVE Same
    OBVIOUS
  <2>1. base'[Len(base) + 1] =
             [n |-> count + 1, uid |-> uid, local |-> TRUE, sent |-> FALSE, from |-> None]
        /\ Len(base') = Len(base) + 1
    BY PostFact
  <2>2. base'[Len(base')].uid = uid
    BY <2>1
  <2> QED
    BY <1>0, <2>2 DEF Post, Numbers
<1>2. Mark => Same
  <2> SUFFICES ASSUME Mark PROVE Same
    OBVIOUS
  <2>1. /\ Len(base') = Len(base) /\ i \in 1 .. Len(base)
        /\ \A k \in 1 .. Len(base) : base'[k].uid = base[k].uid
    BY MarkFact
  <2>2. base # <<>> /\ Len(base) \in 1 .. Len(base)
    BY <1>0, <2>1
  <2>3. base'[Len(base')].uid = base[Len(base)].uid
    BY <2>1, <2>2
  <2> QED
    BY <2>2, <2>3 DEF Mark, Numbers
<1>3. Store => Same
  <2> SUFFICES ASSUME Store PROVE Same
    OBVIOUS
  <2> DEFINE left == Len(base) - Gone
  <2>1. /\ Len(base') = left + 1
        /\ base'[left + 1] = [n |-> cur.n, uid |-> uid, local |-> FALSE,
                              sent |-> mode = "both", from |-> cur.from]
    BY StoreFact
  <2>2. base'[Len(base')].uid = uid
    BY <2>1
  <2> HIDE DEF left
  <2>3. uid' = uid + 1 /\ hw' \in {hw, hw + 1}
    BY DEF Store, Raised
  <2> QED
    BY <1>0, <2>2, <2>3 DEF Numbers
<1>4. \A k \in 1 .. Len(base) : Delete(k) => Same
  <2> SUFFICES ASSUME NEW k \in 1 .. Len(base), Delete(k) PROVE Same
    OBVIOUS
  <2>1. /\ Len(base') = Len(base) - 1
        /\ \A j \in 1 .. Len(base) - 1 : base'[j] = base[IF j < k THEN j ELSE j + 1]
        /\ UNCHANGED <<uid, hw>>
    BY DeleteFact DEF Delete
  <2>2. CASE Purges
    <3>1. k < Len(base)
      BY <2>2 DEF Delete, Safe
    <3>2. Len(base) - 1 \in 1 .. Len(base) - 1 /\ ~(Len(base) - 1 < k) /\ base # <<>>
      BY <1>0, <3>1
    <3>3. base'[Len(base')] = base[(Len(base) - 1) + 1]
      BY <2>1, <3>2
    <3>4. base'[Len(base')] = base[Len(base)]
      BY <1>0, <3>3
    <3> QED
      BY <2>1, <3>2, <3>4 DEF Numbers
  <2>3. CASE ~Purges
    BY <2>1, <2>3 DEF Numbers
  <2> QED
    BY <2>2, <2>3
<1>5. \A k \in 0 .. Len(base), renumber \in BOOLEAN : Purge(k, renumber) => Same
  <2> SUFFICES ASSUME NEW k \in 0 .. Len(base), NEW renumber \in BOOLEAN, Purge(k, renumber) PROVE Same
    OBVIOUS
  <2>1. /\ base' \in Seq(Message) /\ Len(base') = Len(base) - k
        /\ \A j \in 1 .. Len(base) - k :
              base'[j] = [base[k + j] EXCEPT !.uid = IF renumber THEN uid + j - 1 ELSE @]
        /\ IF k = Len(base) THEN uid' = 1 /\ hw' = 0
              ELSE uid' = base'[Len(base')].uid + 1 /\ hw' = IF NoFresh THEN hw ELSE Clamped
    BY PurgeFact
  <2>2. CASE k = Len(base)
    <3>1. base' = <<>>
      BY <1>0, <2>1, <2>2
    <3> QED
      BY <2>1, <2>2, <3>1 DEF Numbers
  <2>3. CASE k # Len(base)
    <3>1. /\ Len(base) - k \in 1 .. Len(base) - k /\ base # <<>> /\ k + (Len(base) - k) = Len(base)
          /\ Len(base) \in 1 .. Len(base)
      BY <1>0, <2>3
    <3>2. base'[Len(base')] = [base[Len(base)] EXCEPT !.uid =
                                 IF renumber THEN uid + (Len(base) - k) - 1 ELSE @]
      BY <2>1, <3>1
    <3>3. base[Len(base)] \in Message
      BY <1>0, <3>1
    <3>4. base'[Len(base')].uid = IF renumber THEN uid + (Len(base) - k) - 1 ELSE base[Len(base)].uid
      BY <3>2, <3>3 DEF Message
    <3>5. base[Len(base)].uid = uid - 1
      BY <3>1 DEF Numbers, Purge
    <3>6. hw' = hw /\ hw < uid
      BY <2>1, <2>3, <1>0 DEF Numbers, Clamped
    <3>7. base'[Len(base')].uid >= uid - 1 /\ base'[Len(base')].uid \in Int
      BY <1>0, <3>1, <3>4, <3>5
    <3>8. uid' = base'[Len(base')].uid + 1
      BY <2>1, <2>3
    <3> QED
      BY <1>0, <3>6, <3>7, <3>8 DEF Numbers
  <2> QED
    BY <2>2, <2>3
<1>6. Advance => Same
  <2> SUFFICES ASSUME Advance PROVE Same
    OBVIOUS
  <2>1. base[i].uid < uid
    BY DEF Advance, AtWork, Scanning, Ordered
  <2> QED
    BY <2>1 DEF Advance, Numbers
<1>7. Open => Same
  BY <1>0 DEF Open, Clamped, Numbers
<1>8. (Close => Same) /\ (End => Same) /\ (StartScan => Same) /\ (Send => Same)
  BY DEF Close, End, StartScan, Send, Numbers
<1>9. (Forward => Same) /\ (Crash => Same) /\ (UNCHANGED vars => Same)
      /\ (\A f \in Link : Toss(f) => Same)
  BY DEF Forward, Crash, Toss, Numbers, vars
<1>10. \A m \in Modes, s \in BOOLEAN, r \in Link \cup {None} : Begin(m, s, r) => Same
  BY DEF Begin, Numbers
<1> HIDE DEF Same
<1>11. Same
  BY <1>1, <1>2, <1>3, <1>4, <1>5, <1>6, <1>7, <1>8, <1>9, <1>10, StepCases
<1> QED
  BY <1>11 DEF Same

\* Highwater passes over nothing that is to be sent.
LEMMA PassedStep ==
    ASSUME TypeOK, AtWork, Ordered, Numbers, Passed, Safe, [Next]_vars
    PROVE  Passed'
<1> DEFINE Same == Passed'
<1>0. base \in Seq(Message) /\ Len(base) \in Nat /\ uid \in Nat \ {0} /\ hw \in Nat /\ hw < uid
  BY DEF TypeOK, DiskOK, Numbers
<1>a. \A k \in 1 .. Len(base) : base[k] \in Message /\ base[k].uid \in Nat /\ base[k].sent \in BOOLEAN
  BY MsgFact
<1>1. Post => Same
  <2> SUFFICES ASSUME Post PROVE Same
    OBVIOUS
  <2>1. /\ pc' = pc /\ pc \in {"off", "run"} /\ UNCHANGED <<mode, scanned, hw>>
        /\ Len(base') = Len(base) + 1
        /\ \A k \in 1 .. Len(base) : base'[k] = base[k]
        /\ base'[Len(base) + 1].uid = uid
    <3>1. base'[Len(base) + 1] =
             [n |-> count + 1, uid |-> uid, local |-> TRUE, sent |-> FALSE, from |-> None]
      BY PostFact
    <3> QED
      BY <3>1, PostFact DEF Post
  <2>2. \A k \in 1 .. Len(base') : k \in 1 .. Len(base) \/ k = Len(base) + 1
    BY <1>0, <2>1
  <2>3. NothingPassed'
    BY <1>0, <2>1, <2>2 DEF Passed, NothingPassed
  <2>4. ~(mode = "both" /\ scanned)
    <3> SUFFICES ASSUME mode = "both", scanned PROVE FALSE
      OBVIOUS
    <3>1. pc # "off"
      BY DEF AtWork
    <3>2. "both" \in Modes /\ During
      BY <3>1 DEF AtWork, Post, Closed
    <3> QED
      BY <3>2 DEF Safe
  <2> QED
    BY <2>1, <2>3, <2>4 DEF Passed, Scanning
<1>2. Mark => Same
  <2> SUFFICES ASSUME Mark PROVE Same
    OBVIOUS
  <2>1. /\ i \in 1 .. Len(base) /\ Len(base') = Len(base)
        /\ \A k \in 1 .. Len(base) :
              /\ base'[k].uid = base[k].uid /\ base'[k].local = base[k].local
              /\ base'[k].sent = (base[k].sent \/ (k = i /\ Due(base[i])))
    BY MarkFact
  <2>2. pc = "mark" /\ pc' = "send" /\ UNCHANGED <<i, mode, scanned, hw>>
    BY DEF Mark
  <2>3. \A k \in 1 .. Len(base) : Exportable(base'[k]) = Exportable(base[k])
    BY <2>1 DEF Exportable
  <2>4. \A k \in 1 .. Len(base) : base[k].sent => base'[k].sent
    BY <2>1
  <2>5. Exportable(base'[i]) => base'[i].sent
    <3> SUFFICES ASSUME Exportable(base[i]) PROVE base'[i].sent
      BY <2>1, <2>3
    <3>1. base[i].sent \/ Due(base[i])
      BY DEF Due, Exportable
    <3> QED
      BY <2>1, <3>1
  <2>6. NothingPassed'
    BY <2>1, <2>2, <2>3, <2>4 DEF Passed, NothingPassed
  <2>7. \A k \in 1 .. Len(base') : k < i' => (Exportable(base'[k]) => base'[k].sent)
    BY <2>1, <2>2, <2>3, <2>4 DEF Passed, Scanning, Clear
  <2>8. mode' = "both" /\ scanned' =>
           \A k \in 1 .. Len(base') : Exportable(base'[k]) => base'[k].sent
    BY <2>1, <2>2, <2>3, <2>4 DEF Passed, Clear
  <2> QED
    BY <2>2, <2>5, <2>6, <2>7, <2>8 DEF Passed, Scanning, Clear
<1>3. Store => Same
  <2> SUFFICES ASSUME Store PROVE Same
    OBVIOUS
  <2> DEFINE left == Len(base) - Gone
  <2>1. /\ Gone \in 0 .. Len(base) /\ Len(base') = left + 1
        /\ \A j \in 1 .. left : base'[j] = base[Gone + j]
        /\ base'[left + 1] = [n |-> cur.n, uid |-> uid, local |-> FALSE,
                              sent |-> mode = "both", from |-> cur.from]
    BY StoreFact
  <2>2. base'[left + 1].uid = uid /\ base'[left + 1].sent = (mode = "both")
    BY <2>1
  <2>3. /\ UNCHANGED <<mode, scanned>> /\ pc' = "open"
        /\ mode = "both" => scanned
        /\ hw' = IF mode = "both" THEN hw + 1 ELSE hw
    BY DEF Store, AtWork, Raised
  <2> HIDE DEF left
  <2>4. \A k \in 1 .. Len(base') : k = left + 1 \/ (k \in 1 .. left /\ Gone + k \in 1 .. Len(base))
    BY <1>0, <2>1 DEF left
  <2>5. mode = "both" => \A k \in 1 .. Len(base') : Exportable(base'[k]) => base'[k].sent
    <3> SUFFICES ASSUME mode = "both", NEW k \in 1 .. Len(base'), Exportable(base'[k])
                 PROVE  base'[k].sent
      OBVIOUS
    <3>1. CASE k = left + 1
      BY <2>2, <3>1
    <3>2. CASE k # left + 1
      <4>1. base'[k] = base[Gone + k] /\ Gone + k \in 1 .. Len(base)
        BY <2>1, <2>4, <3>2 DEF left
      <4>2. Clear(Gone + k)
        BY <2>3, <4>1 DEF Passed
      <4> QED
        BY <4>1, <4>2 DEF Clear
    <3> QED
      BY <3>1, <3>2
  <2>6. mode # "both" => \A k \in 1 .. Len(base') :
           Exportable(base'[k]) /\ ~base'[k].sent => base'[k].uid > hw
    <3> SUFFICES ASSUME NEW k \in 1 .. Len(base'), Exportable(base'[k]), ~base'[k].sent
                 PROVE  base'[k].uid > hw
      OBVIOUS
    <3>1. CASE k = left + 1
      BY <1>0, <2>2, <3>1
    <3>2. CASE k # left + 1
      <4>1. base'[k] = base[Gone + k] /\ Gone + k \in 1 .. Len(base)
        BY <2>1, <2>4, <3>2 DEF left
      <4> QED
        BY <4>1 DEF Passed, NothingPassed
    <3> QED
      BY <3>1, <3>2
  <2>7. NothingPassed'
    BY <2>3, <2>5, <2>6 DEF NothingPassed
  <2> QED
    BY <2>3, <2>5, <2>7 DEF Passed, Scanning, Clear
<1>4. \A k \in 1 .. Len(base) : Delete(k) => Same
  <2> SUFFICES ASSUME NEW k \in 1 .. Len(base), Delete(k) PROVE Same
    OBVIOUS
  <2> DEFINE old(j) == IF j < k THEN j ELSE j + 1
  <2>1. /\ pc \in {"off", "run"} /\ UNCHANGED <<pc, mode, scanned, hw>>
        /\ Len(base') = Len(base) - 1
        /\ \A j \in 1 .. Len(base) - 1 : base'[j] = base[old(j)]
    BY DeleteFact DEF Delete
  <2>2. \A j \in 1 .. Len(base') : old(j) \in 1 .. Len(base)
    BY <1>0, <2>1
  <2> HIDE DEF old
  <2> QED
    BY <2>1, <2>2 DEF Passed, NothingPassed, Scanning, Clear
<1>5. \A k \in 0 .. Len(base), renumber \in BOOLEAN : Purge(k, renumber) => Same
  <2> SUFFICES ASSUME NEW k \in 0 .. Len(base), NEW renumber \in BOOLEAN, Purge(k, renumber) PROVE Same
    OBVIOUS
  <2>1. /\ Len(base') = Len(base) - k
        /\ \A j \in 1 .. Len(base) - k :
              base'[j] = [base[k + j] EXCEPT !.uid = IF renumber THEN uid + j - 1 ELSE @]
        /\ k # Len(base) => hw' = IF NoFresh THEN hw ELSE Clamped
    BY PurgeFact
  <2>2. pc' = "off" /\ ~scanned'
    BY DEF Purge, AtWork
  <2>3. \A j \in 1 .. Len(base') : k + j \in 1 .. Len(base) /\ k # Len(base)
    BY <1>0, <2>1
  <2>4. NothingPassed'
    <3> SUFFICES ASSUME NEW j \in 1 .. Len(base'), Exportable(base'[j]), ~base'[j].sent
                 PROVE  base'[j].uid > hw'
      BY DEF NothingPassed
    <3>1. base[k + j] \in Message /\ k + j \in 1 .. Len(base) /\ j \in Nat /\ j > 0
      BY <1>a, <2>3
    <3>2. base'[j] = [base[k + j] EXCEPT !.uid = IF renumber THEN uid + j - 1 ELSE @]
      BY <2>1
    <3>3. /\ base'[j].local = base[k + j].local /\ base'[j].sent = base[k + j].sent
          /\ base'[j].uid = IF renumber THEN uid + j - 1 ELSE base[k + j].uid
      BY <3>1, <3>2 DEF Message
    <3>4. base[k + j].uid > hw
      BY <3>1, <3>3 DEF Passed, NothingPassed, Exportable
    <3>5. hw' = hw
      BY <1>0, <2>1, <2>3 DEF Clamped
    <3> QED
      BY <1>0, <3>1, <3>3, <3>4, <3>5
  <2> QED
    BY <2>2, <2>4 DEF Passed, Scanning
<1>6. StartScan => Same
  <2> SUFFICES ASSUME StartScan PROVE Same
    OBVIOUS
  <2>1. First \in 1 .. Len(base) + 1 /\ \A k \in 1 .. Len(base) : k < First => base[k].uid <= hw
    BY FirstFact
  <2>2. UNCHANGED <<base, hw, mode>>
    BY DEF StartScan
  <2>3. \A k \in 1 .. Len(base) : k < First => Clear(k)
    <3> SUFFICES ASSUME NEW k \in 1 .. Len(base), k < First PROVE Clear(k)
      OBVIOUS
    <3>1. ~(base[k].uid > hw)
      BY <1>0, <1>a, <2>1
    <3> QED
      BY <3>1 DEF Passed, NothingPassed, Clear
  <2>4. CASE First <= Len(base)
    <3>1. pc' = "mark" /\ i' = First /\ UNCHANGED scanned /\ ~scanned
      BY <2>4 DEF StartScan
    <3> QED
      BY <2>2, <2>3, <3>1 DEF Passed, NothingPassed, Scanning, Clear
  <2>5. CASE ~(First <= Len(base))
    <3>1. pc' = "open"
      BY <2>5 DEF StartScan
    <3>2. \A k \in 1 .. Len(base) : Clear(k)
      BY <1>0, <2>1, <2>3, <2>5
    <3> QED
      BY <2>2, <3>1, <3>2 DEF Passed, NothingPassed, Scanning, Clear
  <2> QED
    BY <2>4, <2>5
<1>7. Advance => Same
  <2> SUFFICES ASSUME Advance PROVE Same
    OBVIOUS
  <2>1. /\ i \in 1 .. Len(base) /\ hw' = base[i].uid /\ UNCHANGED <<base, mode>>
        /\ \A k \in 1 .. Len(base) : k < i => Clear(k)
        /\ Clear(i)
    BY DEF Advance, AtWork, Scanning, Passed
  <2>2. \A k \in 1 .. Len(base) : k < i + 1 => Clear(k)
    <3> SUFFICES ASSUME NEW k \in 1 .. Len(base), k < i + 1 PROVE Clear(k)
      OBVIOUS
    <3>1. k < i \/ k = i
      BY <2>1
    <3> QED
      BY <2>1, <3>1
  <2>3. NothingPassed'
    <3> SUFFICES ASSUME NEW k \in 1 .. Len(base), Exportable(base[k]), ~base[k].sent
                 PROVE  base[k].uid > base[i].uid
      BY <2>1 DEF NothingPassed
    <3>1. ~(k < i + 1)
      BY <2>2 DEF Clear
    <3>2. i < k
      BY <2>1, <3>1
    <3>3. base[i].uid < base[k].uid
      BY <2>1, <3>2 DEF Ordered
    <3> QED
      BY <1>a, <2>1, <3>3
  <2>4. CASE i < Len(base)
    <3>1. pc' = "mark" /\ i' = i + 1 /\ UNCHANGED scanned
      BY <2>4 DEF Advance
    <3> QED
      BY <2>1, <2>2, <2>3, <3>1 DEF Passed, Scanning, Clear
  <2>5. CASE ~(i < Len(base))
    <3>1. pc' = "open"
      BY <2>5 DEF Advance
    <3>2. \A k \in 1 .. Len(base) : Clear(k)
      BY <1>0, <2>1, <2>2, <2>5
    <3> QED
      BY <2>1, <2>3, <3>1, <3>2 DEF Passed, Scanning, Clear
  <2> QED
    BY <2>4, <2>5
<1>8. Open => Same
  <2> SUFFICES ASSUME Open PROVE Same
    OBVIOUS
  <2>1. hw' = hw
    BY <1>0 DEF Open, Clamped
  <2> QED
    BY <2>1 DEF Open, Passed, NothingPassed, Scanning, Clear
<1>9. Send => Same
  BY DEF Send, Passed, NothingPassed, Scanning, Clear
<1>10. (Close => Same) /\ (End => Same) /\ (Forward => Same) /\ (Crash => Same)
  BY DEF Close, End, Forward, Crash, Passed, NothingPassed, Scanning, Clear
<1>11. (UNCHANGED vars => Same) /\ (\A f \in Link : Toss(f) => Same)
  BY DEF Toss, Passed, NothingPassed, Scanning, Clear, vars
<1>12. \A m \in Modes, s \in BOOLEAN, r \in Link \cup {None} : Begin(m, s, r) => Same
  BY DEF Begin, Passed, NothingPassed, Scanning, Clear
<1> HIDE DEF Same
<1>13. Same
  BY <1>1, <1>2, <1>3, <1>4, <1>5, <1>6, <1>7, <1>8, <1>9, <1>10, <1>11, <1>12, StepCases
<1> QED
  BY <1>13 DEF Same

-----------------------------------------------------------------------------
(* The theorems. *)

\* What holds whatever the parameters: the process is where AtWork says, the
\* numbers are in order, and what is flagged is what was sent.
Sent == TypeOK /\ AtWork /\ Ordered /\ Unsent /\ AtMostOnce /\ Served

LEMMA SentAlways == Spec => []Sent
<1>1. Init => Sent
  <2> SUFFICES ASSUME Init PROVE Sent
    OBVIOUS
  <2>1. AtMostOnce
    BY DEF Init, AtMostOnce
  <2> QED
    BY <2>1, InitFact DEF Sent
<1>2. Sent /\ [Next]_vars => Sent'
  <2> SUFFICES ASSUME Sent, [Next]_vars PROVE Sent'
    OBVIOUS
  <2>1. TypeOK /\ AtWork /\ Ordered /\ Unsent /\ AtMostOnce /\ Served
    BY DEF Sent
  <2>2. TypeOK'
    BY <2>1, DiskStep, RunStep, HistStep DEF TypeOK
  <2>3. AtWork' /\ Ordered'
    BY <2>1, AtWorkStep, OrderedStep
  <2>4. Unsent' /\ AtMostOnce' /\ Served'
    BY <2>1, UnsentStep, OnceStep, ServedStep
  <2> QED
    BY <2>2, <2>3, <2>4 DEF Sent
<1> QED
  BY <1>1, <1>2, PTL DEF Spec

\* Every variable keeps its type (scansqds and the parts of the tosser with it).
THEOREM ScanTypes == Spec => []TypeOK
<1>1. Sent => TypeOK
  BY DEF Sent
<1> QED
  BY <1>1, SentAlways, PTL

\* No link gets a message twice as new mail: sqdtobuf flags it on disk before
\* msgout sees it, and buftosqd flags what writeboth has forwarded.
THEOREM NeverTwice == Spec => []AtMostOnce
<1>1. Sent => AtMostOnce
  BY DEF Sent
<1> QED
  BY <1>1, SentAlways, PTL

\* A message flagged sent has gone to every link but its own, unless Rescan or
\* a kill between the flag and the packet came in between.
THEOREM FlaggedIsServed == Spec => []SentIsServed
<1>1. Sent => SentIsServed
  BY DEF Sent, Served, Sending, SentIsServed
<1> QED
  BY <1>1, SentAlways, PTL

\* Highwater passes over no message that is still to be sent, where the editor
\* does not delete the newest message before a Purge, and does not write to the
\* base while a run with In and Out is under way.
THEOREM HighwaterRight == Safe => (Spec => []NothingPassed)
<1> SUFFICES ASSUME Safe PROVE Spec => []NothingPassed
  OBVIOUS
<1>1. Init => Numbers /\ Passed
  BY InitFact
<1>2. Sent /\ Numbers /\ Passed /\ [Next]_vars => Numbers' /\ Passed'
  BY NumbersStep, PassedStep DEF Sent
<1>3. Passed => NothingPassed
  BY DEF Passed
<1> QED
  BY <1>1, <1>2, <1>3, SentAlways, PTL DEF Spec
==============================================================================
