------------------------------ MODULE TossProofs ------------------------------
(***************************************************************************)
(* Proofs about Toss, for any configuration of areas, links and packets:   *)
(* a message is handled with the record of its own area, ends in one       *)
(* place, is not lost, and goes to every link.                             *)
(***************************************************************************)
EXTENDS Toss, FiniteSetTheorems, TLAPS

Within  == pc \in {"dispose", "copy", "export", "store"}
Working == pc = "packet" \/ Within
Listing == pc = "pick" \/ Working
Taken   == (pc = "dispose" /\ res = 0) \/ pc \in {"copy", "export", "store"}

(* Where the process is: the packets listed are there, the one it works on *)
(* is one of them, and within a message there is one.                      *)
Listed == Listing => \A n \in pending : IF n = 0 THEN pkt # None ELSE packets[n] # None
AtWork ==
    /\ \A n \in 1 .. MaxPackets : packets[n] # None => n <= arrived
    /\ Working => cur \in pending /\ pos > 0
    /\ Within => pos <= Len(This.msgs)
PlaceInv == Listed /\ AtWork

(* What setarea remembers: while a name is remembered, newarea and the     *)
(* entry of the table are that area's, and a message taken has that name.  *)
AreaInv ==
    /\ oldarea # None => newarea = oldarea /\ tarea = oldarea
    /\ Taken => oldarea = msg.area /\ oldarea # None

(* The files messages wait in, PtBackUp.Tkp the last, and what is left to  *)
(* do in them.                                                             *)
Slots == -1 .. MaxPackets
At(f) == IF f = -1 THEN tkp ELSE IF f = 0 THEN pkt ELSE packets[f]
Has(f, k) == At(f) # None /\ k \in 1 .. Len(At(f).msgs)
Todo(f, k) == Has(f, k) /\ (Working /\ f = cur => pos <= k)

(* Numbers are given once: a message that is in a file under a number of   *)
(* the mail is that message, and it is in the packet of its sender unless  *)
(* it was saved with others.                                               *)
Given == arrived * MaxLen
MailInv ==
    /\ \A m \in mail : m.id <= Given
    /\ \A m, n \in mail : m.id = n.id => m = n
    /\ \A i \in Ids : i > Given => stored[i] = 0 /\ placed[i] = {} /\ sent[i] = {}
FileInv ==
    \A f \in Slots, k \in Nat : Has(f, k) =>
        LET m == At(f).msgs[k]
        IN  /\ m.id <= Given
            /\ m.area # Junk => m \in mail
            /\ \A x \in mail : x.id = m.id => x = m
            /\ m.id \in mingled \/ m.from = At(f).from

(* One pass: what is stored has been exported.                             *)
SentInv ==
    /\ Both => \A m \in mail :
          /\ m.id \in mingled \/ m.from \notin sent[m.id]
          /\ stored[m.id] > 0 /\ Cardinality(Link) > 1 =>
                \E l \in Link \cup {Stranger} :
                    Link \ {l} \subseteq sent[m.id] /\ (l = m.from \/ m.id \in mingled)
    /\ Both /\ pc = "store" => Receivers \subseteq sent[msg.id]

(* No message is to be tossed twice, or after it has got somewhere.        *)
Ends(places) == places \ {"pers", "aside"}
OnceInv ==
    kills = 0 =>
        /\ \A f, g \in Slots, k, l \in Nat :
              Todo(f, k) /\ Todo(g, l) /\ At(f).msgs[k].id = At(g).msgs[l].id => f = g /\ k = l
        /\ \A f \in Slots, k \in Nat :
              Todo(f, k) => stored[At(f).msgs[k].id] = 0 /\ Ends(placed[At(f).msgs[k].id]) = {}
        /\ \A i \in Ids : stored[i] + Cardinality(Ends(placed[i])) <= 1

(* PtBackUp.Pkt is tossed before it is replaced, unless the process is      *)
(* killed.                                                                 *)
PktInv ==
    /\ Listing /\ pkt # None => 0 \in pending
    /\ kills = 0 /\ pc \in {"off", "cycle"} => pkt = None

(* A message has got somewhere, or is in a file; those the tosser is past  *)
(* in a packet have got somewhere or were saved, or the packet will be put *)
(* aside.                                                                  *)
Got(times, places) == times > 0 \/ places \cap {"bad", "dupe", "net", "gone", "aside"} # {}
Done(i) == Got(stored[i], placed[i])
Kept == \A m \in mail : Done(m.id) \/ Waiting(m.id) \/ (kills > 0 /\ m.id \in overwritten)
Handled ==
    Working /\ ~damaged =>
        \A k \in 1 .. Len(This.msgs) :
            k < pos => Done(This.msgs[k].id) \/ Holds(tkp, This.msgs[k].id)

(* The base of an area whose entry is marked as scanned was searched.      *)
SweepInv ==
    /\ ~astray
    /\ scanned \ {Net} \subseteq swept
    /\ Both /\ pc = "store" => newarea \in swept
    /\ overrun = {}

-----------------------------------------------------------------------------
(* Types. *)

USE DEF files, world, where, locks, areas, sweep, fate, notes

\* The parameters, one by one.
LEMMA ParamFact ==
    /\ Net \notin Echo /\ None \notin Names /\ None \notin Packet /\ Stranger \notin Link
    /\ \A k \in Kinds : k.area \in Names /\ k.mine \in BOOLEAN
    /\ Senders \subseteq Link \cup {Stranger}
    /\ Contended \subseteq Echo \cup {Bad, Dupes}
    /\ Carbon \in {"none", "copy", "move"} /\ Both \in BOOLEAN
    /\ MaxPackets \in Nat /\ MaxLen \in Nat /\ MaxKills \in Nat
BY TossAssumption DEF TossAssumption

\* A packet is what was listed, and a message one of it.
LEMMA ThisFact ==
    ASSUME TypeOK, PlaceInv, Working
    PROVE  /\ This \in Packet /\ Len(This.msgs) \in Nat
           /\ This.from \in Link \cup {Stranger} /\ This.msgs \in Seq(Message)
           /\ \A k \in 1 .. Len(This.msgs) : This.msgs[k] \in Message
<1>1. This \in Packet
  BY DEF This, PlaceInv, Listed, AtWork, Listing, TypeOK, FilesOK, RunOK
<1> QED
  BY <1>1 DEF Packet

LEMMA MsgFact ==
    ASSUME TypeOK, PlaceInv, Working, pos <= Len(This.msgs)
    PROVE  /\ pos \in 1 .. Len(This.msgs) /\ msg \in Message /\ msg.id \in Ids
           /\ msg.area \in Names /\ msg.from \in Link \cup {Stranger}
<1>1. pos \in 1 .. Len(This.msgs)
  BY ThisFact DEF TypeOK, RunOK, PlaceInv, AtWork
<1>2. msg \in Message
  BY <1>1, ThisFact DEF msg
<1> QED
  BY <1>1, <1>2 DEF Message

\* A packet that has arrived is one, with numbers of its own.
LEMMA ArriveFact ==
    ASSUME TypeOK, NEW from \in Senders, NEW n \in 1 .. MaxLen, NEW kinds \in [1 .. n -> Kinds],
           Arrive(from, kinds)
    PROVE  \E msgs \in Seq(Message) :
              /\ Len(msgs) = n
              /\ \A k \in 1 .. n : /\ msgs[k].id = arrived * MaxLen + k
                                   /\ msgs[k].from = from
              /\ arrived + 1 \in 1 .. MaxPackets /\ arrived' = arrived + 1
              /\ packets' = [packets EXCEPT ![arrived + 1] = [from |-> from, msgs |-> msgs]]
              /\ mail' = mail \cup {msgs[k] : k \in {k \in 1 .. n : msgs[k].area # Junk}}
<1> DEFINE msgs == [k \in 1 .. Len(kinds) |->
                      [id |-> arrived * MaxLen + k, from |-> from,
                       area |-> kinds[k].area, mine |-> kinds[k].mine]]
<1>1. Len(kinds) = n
  BY ParamFact
<1>2. arrived \in Nat /\ arrived + 1 \in 1 .. MaxPackets /\ arrived' = arrived + 1
  BY ParamFact DEF Arrive, TypeOK, WorldOK
<1>3. \A k \in 1 .. n : arrived * MaxLen + k \in Ids
  <2> SUFFICES ASSUME NEW k \in 1 .. n PROVE arrived * MaxLen + k \in Ids
    OBVIOUS
  <2>1. (arrived + 1) * MaxLen <= MaxPackets * MaxLen
    BY <1>2, ParamFact
  <2>2. (arrived + 1) * MaxLen = arrived * MaxLen + MaxLen /\ arrived * MaxLen \in Nat
    BY <1>2, ParamFact
  <2>3. MaxPackets * MaxLen \in Nat
    BY ParamFact
  <2> QED
    BY <2>1, <2>2, <2>3, ParamFact DEF Ids
<1>4. \A k \in 1 .. n : msgs[k] \in Message
  <2> SUFFICES ASSUME NEW k \in 1 .. n PROVE msgs[k] \in Message
    OBVIOUS
  <2>1. kinds[k] \in Kinds
    OBVIOUS
  <2>2. kinds[k].area \in Names /\ kinds[k].mine \in BOOLEAN /\ from \in Link \cup {Stranger}
    BY <2>1, ParamFact
  <2> QED
    BY <1>1, <1>3, <2>2 DEF Message
<1>5. msgs \in Seq(Message) /\ Len(msgs) = n
  BY <1>1, <1>4
<1>6. \A k \in 1 .. n : msgs[k].id = arrived * MaxLen + k /\ msgs[k].from = from
                        /\ msgs[k].area = kinds[k].area
  BY <1>1
<1>7. packets' = [packets EXCEPT ![arrived + 1] = [from |-> from, msgs |-> msgs]]
  BY DEF Arrive
<1>8. mail' = mail \cup {msgs[k] : k \in {k \in 1 .. Len(kinds) : kinds[k].area # Junk}}
  BY DEF Arrive
<1>9. {k \in 1 .. Len(kinds) : kinds[k].area # Junk} = {k \in 1 .. n : msgs[k].area # Junk}
  BY <1>1, <1>6
<1> HIDE DEF msgs
<1>10. mail' = mail \cup {msgs[k] : k \in {k \in 1 .. n : msgs[k].area # Junk}}
  BY <1>8, <1>9
<1> QED
  BY <1>2, <1>5, <1>6, <1>7, <1>10

\* A message that is not stored is put somewhere, or saved.
Puts == Dispose /\ (BackUp \/ \E place \in {"gone", "bad", "dupe"} : PutTo(place))

LEMMA PutsFact == DropDead \/ Divert \/ Reject \/ Duplicate => Puts
BY DEF Puts, DropDead, Divert, Reject, Duplicate, ToBad

\* The steps, the four that put a message somewhere taken as one.
LEMMA StepCases ==
    ASSUME [Next]_vars
    PROVE  \/ UNCHANGED vars
           \/ \E from \in Senders, n \in 1 .. MaxLen : \E kinds \in [1 .. n -> Kinds] :
                 Arrive(from, kinds)
           \/ \E a \in Contended : Occupy(a) \/ Release(a)
           \/ Start \/ Crash
           \/ Cycle \/ EndCycle \/ EndPacket \/ \E n \in 0 .. MaxPackets : Pick(n)
           \/ Damage \/ Netmail \/ SetArea
           \/ Puts \/ Fresh \/ Accept \/ Export \/ Store
BY PutsFact, Zenon DEF Next, Tosser

LEMMA PutsType ==
    ASSUME TypeOK, PlaceInv, Puts
    PROVE  /\ tkp' \in Packet \cup {None} /\ mingled' \subseteq Ids
           /\ placed' \in [Ids -> SUBSET Places]
<1>1. Working /\ pos <= Len(This.msgs)
  BY DEF Puts, Dispose, Working, Within, PlaceInv, AtWork
<1>2. msg \in Message /\ msg.id \in Ids /\ This.from \in Link \cup {Stranger}
  BY <1>1, MsgFact, ThisFact
<1>3. CASE BackUp
  <2>1. CASE tkp = None
    <3>1. tkp' = [from |-> This.from, msgs |-> <<msg>>]
      BY <1>3, <2>1 DEF BackUp
    <3>2. <<msg>> \in Seq(Message)
      BY <1>2
    <3> QED
      BY <1>2, <1>3, <3>1, <3>2 DEF BackUp, Packet, TypeOK, FateOK, NotesOK
  <2>2. CASE tkp # None
    <3>1. tkp \in Packet /\ tkp' = [tkp EXCEPT !.msgs = Append(@, msg)]
      BY <1>3, <2>2 DEF BackUp, TypeOK, FilesOK
    <3>2. Append(tkp.msgs, msg) \in Seq(Message)
      BY <1>2, <3>1 DEF Packet
    <3> QED
      BY <1>2, <1>3, <3>1, <3>2 DEF BackUp, Packet, TypeOK, FateOK, NotesOK
  <2> QED
    BY <2>1, <2>2
<1>4. ASSUME NEW place \in {"gone", "bad", "dupe"}, PutTo(place)
      PROVE  placed' \in [Ids -> SUBSET Places] /\ tkp' = tkp /\ mingled' = mingled
  BY <1>2, <1>4 DEF PutTo, Places, TypeOK, FateOK
<1> QED
  BY <1>3, <1>4 DEF Puts, TypeOK, FilesOK, NotesOK

\* Every step keeps the types.
LEMMA TypeStep ==
    ASSUME TypeOK, PlaceInv, AreaInv, [Next]_vars
    PROVE  TypeOK'
<1> USE DEF TypeOK
<1>1. CASE UNCHANGED vars
  BY <1>1 DEF vars, FilesOK, WorldOK, RunOK, FlagsOK, AreasOK, SweepOK, FateOK, NotesOK
<1>2. ASSUME NEW from \in Senders, NEW n \in 1 .. MaxLen, NEW kinds \in [1 .. n -> Kinds],
             Arrive(from, kinds)
      PROVE  TypeOK'
  <2>1. PICK msgs \in Seq(Message) :
           /\ Len(msgs) = n
           /\ arrived + 1 \in 1 .. MaxPackets /\ arrived' = arrived + 1
           /\ packets' = [packets EXCEPT ![arrived + 1] = [from |-> from, msgs |-> msgs]]
           /\ mail' = mail \cup {msgs[k] : k \in {k \in 1 .. n : msgs[k].area # Junk}}
    BY <1>2, ArriveFact
  <2>2. FilesOK'
    <3>1. [from |-> from, msgs |-> msgs] \in Packet
      BY ParamFact DEF Packet
    <3> QED
      BY <1>2, <2>1, <3>1 DEF FilesOK, Arrive
  <2>3. FateOK'
    <3>1. \A k \in 1 .. n : msgs[k] \in Message
      BY <2>1
    <3>2. mail' \subseteq Message
      BY <2>1, <3>1 DEF FateOK
    <3> QED
      BY <1>2, <3>2 DEF FateOK, Arrive
  <2>4. WorldOK'
    BY <1>2, <2>1, ParamFact DEF WorldOK, Arrive
  <2>5. RunOK' /\ FlagsOK' /\ AreasOK' /\ SweepOK' /\ NotesOK'
    BY <1>2 DEF Arrive, RunOK, FlagsOK, AreasOK, SweepOK, NotesOK
  <2> QED
    BY <2>1, <2>2, <2>3, <2>4, <2>5
<1>3. ASSUME NEW a \in Contended, Occupy(a) \/ Release(a) PROVE TypeOK'
  <2>1. WorldOK'
    BY <1>3 DEF Occupy, Release, WorldOK
  <2>2. FilesOK' /\ RunOK' /\ FlagsOK' /\ AreasOK' /\ SweepOK' /\ FateOK' /\ NotesOK'
    BY <1>3 DEF Occupy, Release, FilesOK, RunOK, FlagsOK, AreasOK, SweepOK, FateOK, NotesOK
  <2> QED
    BY <2>1, <2>2
<1>4. CASE Start
  <2>1. FlagsOK'
    <3>1. badlocked' \in BOOLEAN /\ dupelocked' \in BOOLEAN /\ persopen' \in BOOLEAN
      BY <1>4 DEF Start
    <3>2. open' = FALSE /\ astray' = FALSE /\ UNCHANGED <<retc, damaged, lastnet>>
      BY <1>4 DEF Start
    <3> QED
      BY <3>1, <3>2 DEF FlagsOK
  <2>2. AreasOK'
    <3>1. arealock' \in {0, 1} /\ tarea' \in Names \cup {None}
      BY <1>4 DEF Start, Names, Echo
    <3> QED
      BY <1>4, <3>1 DEF Start, AreasOK
  <2>3. FilesOK' /\ WorldOK' /\ RunOK' /\ SweepOK' /\ FateOK' /\ NotesOK'
    BY <1>4 DEF Start, FilesOK, WorldOK, RunOK, SweepOK, FateOK, NotesOK
  <2> QED
    BY <2>1, <2>2, <2>3
<1>5. CASE Crash
  <2>1. NotesOK'
    BY <1>5, ParamFact DEF Crash, NotesOK
  <2>2. FilesOK' /\ WorldOK' /\ RunOK' /\ FlagsOK' /\ AreasOK' /\ SweepOK' /\ FateOK'
    BY <1>5 DEF Crash, FilesOK, WorldOK, RunOK, FlagsOK, AreasOK, SweepOK, FateOK
  <2> QED
    BY <2>1, <2>2
<1>6. CASE Cycle
  <2>1. FilesOK'
    BY <1>6 DEF Cycle, FilesOK
  <2>2. RunOK'
    BY <1>6, ParamFact DEF Cycle, RunOK
  <2>3. FlagsOK'
    BY <1>6 DEF Cycle, FlagsOK
  <2>4. NotesOK'
    <3>1. CASE tkp = None \/ pkt = None
      BY <1>6, <3>1 DEF Cycle, NotesOK
    <3>2. CASE ~(tkp = None \/ pkt = None)
      <4>1. pkt.msgs \in Seq(Message)
        BY <3>2 DEF FilesOK, Packet
      <4>2. \A k \in 1 .. Len(pkt.msgs) : pkt.msgs[k].id \in Ids
        <5>1. \A k \in 1 .. Len(pkt.msgs) : pkt.msgs[k] \in Message
          BY <4>1
        <5> QED
          BY <5>1 DEF Message
      <4> QED
        BY <1>6, <3>2, <4>2 DEF Cycle, NotesOK
    <3> QED
      BY <3>1, <3>2
  <2>5. WorldOK' /\ AreasOK' /\ SweepOK' /\ FateOK'
    BY <1>6 DEF Cycle, WorldOK, AreasOK, SweepOK, FateOK
  <2> QED
    BY <2>1, <2>2, <2>3, <2>4, <2>5
<1>7. CASE EndCycle
  <2>1. RunOK'
    BY <1>7 DEF EndCycle, RunOK
  <2>2. FlagsOK'
    BY <1>7 DEF EndCycle, FlagsOK
  <2>3. AreasOK'
    BY <1>7 DEF EndCycle, AreasOK
  <2>4. FilesOK' /\ WorldOK' /\ SweepOK' /\ FateOK' /\ NotesOK'
    BY <1>7 DEF EndCycle, FilesOK, WorldOK, SweepOK, FateOK, NotesOK
  <2> QED
    BY <2>1, <2>2, <2>3, <2>4
<1>8. CASE EndPacket
  <2>1. FilesOK'
    BY <1>8 DEF EndPacket, FilesOK
  <2>2. FateOK'
    <3>1. placed' \in [Ids -> SUBSET Places]
      BY <1>8 DEF EndPacket, FateOK, Places
    <3> QED
      BY <1>8, <3>1 DEF EndPacket, FateOK
  <2>3. FlagsOK'
    <3>1. retc' \in BOOLEAN /\ open' \in BOOLEAN
      BY <1>8 DEF EndPacket, FlagsOK
    <3>2. UNCHANGED <<damaged, lastnet, locks, persopen, astray>>
      BY <1>8 DEF EndPacket
    <3> QED
      BY <3>1, <3>2 DEF FlagsOK
  <2>4. WorldOK' /\ RunOK' /\ AreasOK' /\ SweepOK' /\ NotesOK'
    BY <1>8 DEF EndPacket, WorldOK, RunOK, AreasOK, SweepOK, NotesOK
  <2> QED
    BY <2>1, <2>2, <2>3, <2>4
<1>9. ASSUME NEW n \in 0 .. MaxPackets, Pick(n) PROVE TypeOK'
  <2>1. FlagsOK'
    BY <1>9 DEF Pick, FlagsOK
  <2>2. FilesOK' /\ WorldOK' /\ RunOK' /\ AreasOK' /\ SweepOK' /\ FateOK' /\ NotesOK'
    BY <1>9 DEF Pick, FilesOK, WorldOK, RunOK, AreasOK, SweepOK, FateOK, NotesOK
  <2> QED
    BY <2>1, <2>2
<1>10. CASE Damage
  <2>1. RunOK'
    <3>1. pos' \in Nat
      BY <1>10, ThisFact DEF Damage, AtMessage, Working, RunOK
    <3> QED
      BY <1>10, <3>1 DEF Damage, RunOK
  <2>2. FlagsOK'
    BY <1>10 DEF Damage, FlagsOK
  <2>3. FilesOK' /\ WorldOK' /\ AreasOK' /\ SweepOK' /\ FateOK' /\ NotesOK'
    BY <1>10 DEF Damage, FilesOK, WorldOK, AreasOK, SweepOK, FateOK, NotesOK
  <2> QED
    BY <2>1, <2>2, <2>3
<1>11. CASE Netmail
  <2>1. FateOK'
    <3>1. msg.id \in Ids
      BY <1>11, MsgFact DEF Netmail, AtMessage, Working
    <3>2. placed' \in [Ids -> SUBSET Places]
      BY <1>11, <3>1 DEF Netmail, FateOK, Places
    <3> QED
      BY <1>11, <3>2 DEF Netmail, FateOK
  <2>2. AreasOK'
    BY <1>11 DEF Netmail, AreasOK, Names
  <2>3. SweepOK'
    BY <1>11 DEF Netmail, SweepOK
  <2>4. FlagsOK'
    BY <1>11 DEF Netmail, FlagsOK
  <2>5. FilesOK' /\ WorldOK' /\ RunOK' /\ NotesOK'
    BY <1>11 DEF Netmail, FilesOK, WorldOK, RunOK, NotesOK
  <2> QED
    BY <2>1, <2>2, <2>3, <2>4, <2>5
<1>12. CASE SetArea
  <2>1. AreasOK'
    <3>1. /\ newarea' \in Names \cup {None} /\ tarea' \in Names \cup {None}
          /\ oldarea' \in Echo \cup {None}
      BY <1>12 DEF SetArea, Opening, AreasOK, Names
    <3>2. arealock' \in {0, 1} /\ res' \in {0, 1, -1, -2}
      BY <1>12 DEF SetArea, Opening, AreasOK
    <3> QED
      BY <3>1, <3>2 DEF AreasOK
  <2>2. FlagsOK'
    <3>1. open' \in BOOLEAN
      BY <1>12 DEF SetArea, Opening, FlagsOK
    <3>2. lastnet' = FALSE /\ UNCHANGED <<retc, damaged, locks, persopen, astray>>
      BY <1>12 DEF SetArea
    <3> QED
      BY <3>1, <3>2 DEF FlagsOK
  <2>3. FilesOK' /\ WorldOK' /\ RunOK' /\ SweepOK' /\ FateOK' /\ NotesOK'
    BY <1>12 DEF SetArea, FilesOK, WorldOK, RunOK, SweepOK, FateOK, NotesOK
  <2> QED
    BY <2>1, <2>2, <2>3
<1>13. CASE Puts
  <2>1. pc' = "packet" /\ pos' = pos + 1
        /\ UNCHANGED <<packets, pkt, world, pending, retc, cur, damaged, lastnet, locks,
                       areas, sweep, mail, stored, sent, kills, overwritten>>
    BY <1>13 DEF Puts, Dispose
  <2>2. FilesOK' /\ FateOK' /\ NotesOK'
    BY <1>13, <2>1, PutsType DEF FilesOK, FateOK, NotesOK
  <2>3. WorldOK' /\ RunOK' /\ FlagsOK' /\ AreasOK' /\ SweepOK'
    BY <2>1 DEF WorldOK, RunOK, FlagsOK, AreasOK, SweepOK
  <2> QED
    BY <2>2, <2>3
<1>14. CASE Fresh
  <2>1. TypeOK'
    BY <1>14 DEF Fresh, FilesOK, WorldOK, RunOK, FlagsOK, AreasOK, SweepOK, FateOK, NotesOK
  <2> QED
    BY <2>1
<1>15. CASE Accept
  <2>1. FateOK'
    <3>1. msg.id \in Ids
      BY <1>15, MsgFact DEF Accept, Working, Within, PlaceInv, AtWork
    <3>2. placed' \in [Ids -> SUBSET Places]
      BY <1>15, <3>1 DEF Accept, FateOK, Places
    <3> QED
      BY <1>15, <3>2 DEF Accept, FateOK
  <2>2. FlagsOK'
    <3>1. persopen' \in BOOLEAN /\ astray' \in BOOLEAN
      BY <1>15 DEF Accept, FlagsOK
    <3>2. UNCHANGED <<retc, damaged, lastnet, locks, open>>
      BY <1>15 DEF Accept
    <3> QED
      BY <3>1, <3>2 DEF FlagsOK
  <2>3. AreasOK'
    BY <1>15 DEF Accept, AreasOK
  <2>4. RunOK'
    BY <1>15 DEF Accept, RunOK
  <2>5. FilesOK' /\ WorldOK' /\ SweepOK' /\ NotesOK'
    BY <1>15 DEF Accept, FilesOK, WorldOK, SweepOK, NotesOK
  <2> QED
    BY <2>1, <2>2, <2>3, <2>4, <2>5
<1>16. CASE Export
  <2>1. FateOK'
    <3>1. msg.id \in Ids
      BY <1>16, MsgFact DEF Export, Working, Within, PlaceInv, AtWork
    <3>2. Receivers \subseteq Link
      BY DEF Receivers
    <3>3. sent' \in [Ids -> SUBSET Link]
      BY <1>16, <3>1, <3>2 DEF Export, FateOK
    <3> QED
      BY <1>16, <3>3 DEF Export, FateOK
  <2>2. SweepOK'
    <3>1. newarea \in Echo /\ tarea \in Echo
      BY <1>16 DEF Export, AreaInv, Taken, AreasOK
    <3>2. Entry \in Echo
      BY <3>1 DEF Entry, Echo
    <3> QED
      BY <1>16, <3>1, <3>2 DEF Export, SweepOK
  <2>3. FilesOK' /\ WorldOK' /\ RunOK' /\ FlagsOK' /\ AreasOK' /\ NotesOK'
    BY <1>16 DEF Export, FilesOK, WorldOK, RunOK, FlagsOK, AreasOK, NotesOK
  <2> QED
    BY <2>1, <2>2, <2>3
<1>17. CASE Store
  <2>1. FateOK'
    <3>1. msg.id \in Ids
      BY <1>17, MsgFact DEF Store, Working, Within, PlaceInv, AtWork
    <3>2. stored' \in [Ids -> 0 .. 2]
      BY <1>17, <3>1 DEF Store, FateOK
    <3> QED
      BY <1>17, <3>2 DEF Store, FateOK
  <2>2. SweepOK'
    <3>1. newarea \in Echo
      BY <1>17 DEF Store, AreaInv, Taken, AreasOK
    <3> QED
      BY <1>17, <3>1 DEF Store, SweepOK
  <2>3. FlagsOK'
    BY <1>17 DEF Store, FlagsOK
  <2>4. FilesOK' /\ WorldOK' /\ RunOK' /\ AreasOK' /\ NotesOK'
    BY <1>17 DEF Store, FilesOK, WorldOK, RunOK, AreasOK, NotesOK
  <2> QED
    BY <2>1, <2>2, <2>3, <2>4
<1> QED
  BY <1>1, <1>2, <1>3, <1>4, <1>5, <1>6, <1>7, <1>8, <1>9, <1>10, <1>11, <1>12, <1>13, <1>14,
     <1>15, <1>16, <1>17, StepCases

\* A packet that arrives is none that was listed.
LEMMA SameThis ==
    ASSUME TypeOK, PlaceInv, Working,
           \A k \in 1 .. MaxPackets : k # arrived + 1 => packets'[k] = packets[k],
           UNCHANGED <<pkt, cur, pos>>
    PROVE  This' = This /\ msg' = msg
<1>1. cur # 0 => cur \in 1 .. MaxPackets /\ packets[cur] # None /\ cur <= arrived
  BY DEF PlaceInv, Listed, AtWork, Listing, TypeOK, RunOK
<1>2. This' = This
  BY <1>1 DEF This, TypeOK, WorldOK
<1> QED
  BY <1>2 DEF msg

\* Every step keeps the packets listed where they are.
LEMMA PlaceStep ==
    ASSUME TypeOK, PlaceInv, [Next]_vars
    PROVE  PlaceInv'
<1> USE DEF PlaceInv, Listed, AtWork, Listing, Working, Within
<1>1. CASE UNCHANGED vars
  BY <1>1 DEF vars, This
<1>2. ASSUME NEW from \in Senders, NEW n \in 1 .. MaxLen, NEW kinds \in [1 .. n -> Kinds],
             Arrive(from, kinds)
      PROVE  PlaceInv'
  <2>1. PICK msgs \in Seq(Message) :
           /\ arrived + 1 \in 1 .. MaxPackets /\ arrived' = arrived + 1
           /\ packets' = [packets EXCEPT ![arrived + 1] = [from |-> from, msgs |-> msgs]]
    BY <1>2, ArriveFact
  <2>2. [from |-> from, msgs |-> msgs] # None
    BY ParamFact DEF Packet
  <2>3. \A k \in 1 .. MaxPackets :
           packets'[k] = IF k = arrived + 1 THEN [from |-> from, msgs |-> msgs] ELSE packets[k]
    BY <2>1 DEF TypeOK, FilesOK
  <2>4. UNCHANGED <<pkt, cur, pos, pc, pending>>
    BY <1>2 DEF Arrive
  <2>5. Working => This' = This
    BY <2>3, <2>4, SameThis DEF Working, Within
  <2>6. \A k \in 1 .. MaxPackets : packets[k] # None => k <= arrived
    OBVIOUS
  <2>7. \A k \in 1 .. MaxPackets : packets'[k] # None => k <= arrived'
    BY <2>1, <2>3, <2>6 DEF TypeOK, WorldOK
  <2>8. Listed'
    <3> SUFFICES ASSUME Listing', NEW k \in pending
                 PROVE  IF k = 0 THEN pkt # None ELSE packets'[k] # None
      BY <2>4
    <3>1. IF k = 0 THEN pkt # None ELSE packets[k] # None
      BY <2>4
    <3>2. k # 0 => k \in 1 .. MaxPackets
      BY DEF TypeOK, RunOK
    <3> QED
      BY <3>1, <3>2, <2>2, <2>3
  <2>9. AtWork'
    BY <2>4, <2>5, <2>7
  <2> QED
    BY <2>8, <2>9
<1>3. ASSUME NEW a \in Contended, Occupy(a) \/ Release(a) PROVE PlaceInv'
  BY <1>3 DEF Occupy, Release, This
<1>4. CASE Start \/ Crash \/ EndCycle
  BY <1>4 DEF Start, Crash, EndCycle
<1>5. CASE Cycle
  BY <1>5 DEF Cycle
<1>6. CASE EndPacket
  <2>1. cur \in pending /\ pending' = pending \ {cur} /\ pc' = "pick" /\ arrived' = arrived
    BY <1>6 DEF EndPacket
  <2>2. /\ \A n \in 1 .. MaxPackets : packets'[n] = IF n = cur THEN None ELSE packets[n]
        /\ pkt' = IF cur = 0 THEN None ELSE pkt
    <3>1. IF cur = 0 THEN pkt' = None /\ packets' = packets
          ELSE packets' = [packets EXCEPT ![cur] = None] /\ pkt' = pkt
      BY <1>6 DEF EndPacket
    <3>2. packets \in [1 .. MaxPackets -> Packet \cup {None}] /\ cur \in 0 .. MaxPackets
      BY DEF TypeOK, FilesOK, RunOK
    <3>3. CASE cur = 0
      BY <3>1, <3>3
    <3>4. CASE cur # 0
      BY <3>1, <3>2, <3>4
    <3> QED
      BY <3>3, <3>4
  <2>3. pending \subseteq 0 .. MaxPackets
    BY DEF TypeOK, RunOK
  <2> QED
    BY <1>6, <2>1, <2>2, <2>3 DEF EndPacket
<1>7. ASSUME NEW n \in 0 .. MaxPackets, Pick(n) PROVE PlaceInv'
  BY <1>7 DEF Pick
<1>8. CASE Damage
  <2>1. pos' > 0
    BY <1>8, ThisFact DEF Damage, AtMessage, TypeOK, RunOK
  <2>2. pc = "packet" /\ pc' = "packet" /\ UNCHANGED <<packets, pkt, arrived, pending, cur>>
    BY <1>8 DEF Damage, AtMessage
  <2> QED
    BY <2>1, <2>2
<1>9. CASE Netmail
  <2>1. pc = "packet" /\ pc' = "packet" /\ pos' = pos + 1
        /\ UNCHANGED <<packets, pkt, arrived, pending, cur>>
    BY <1>9 DEF Netmail, AtMessage
  <2> QED
    BY <2>1 DEF TypeOK, RunOK
<1>10. CASE SetArea
  <2>1. pos <= Len(This.msgs) /\ pc = "packet" /\ pc' = "dispose"
        /\ UNCHANGED <<files, arrived, pending, cur, pos>>
    BY <1>10 DEF SetArea, AtMessage
  <2> QED
    BY <2>1 DEF This
<1>11. CASE Puts
  <2>1. pc = "dispose" /\ pc' = "packet" /\ pos' = pos + 1
        /\ UNCHANGED <<packets, pkt, arrived, pending, cur>>
    BY <1>11 DEF Puts, Dispose
  <2> QED
    BY <2>1 DEF TypeOK, RunOK
<1>12. CASE Fresh \/ Accept \/ Export
  <2>1. Within /\ Within' /\ UNCHANGED <<files, arrived, pending, cur, pos>>
    BY <1>12 DEF Fresh, Accept, Export
  <2> QED
    BY <2>1 DEF This
<1>13. CASE Store
  BY <1>13 DEF Store, TypeOK, RunOK
<1> QED
  BY <1>1, <1>2, <1>3, <1>4, <1>5, <1>6, <1>7, <1>8, <1>9, <1>10, <1>11, <1>12, <1>13, StepCases

\* Every step keeps what setarea remembers true.
LEMMA AreaStep ==
    ASSUME TypeOK, PlaceInv, AreaInv, [Next]_vars
    PROVE  AreaInv'
<1> USE DEF AreaInv, Taken
<1>1. CASE UNCHANGED vars
  BY <1>1 DEF vars, This, msg
<1>2. ASSUME NEW from \in Senders, NEW n \in 1 .. MaxLen, NEW kinds \in [1 .. n -> Kinds],
             Arrive(from, kinds)
      PROVE  AreaInv'
  <2>1. \A k \in 1 .. MaxPackets : k # arrived + 1 => packets'[k] = packets[k]
    BY <1>2, ArriveFact DEF TypeOK, FilesOK
  <2>2. UNCHANGED <<pkt, cur, pos, pc, areas>>
    BY <1>2 DEF Arrive
  <2>3. Taken => msg' = msg
    BY <2>1, <2>2, SameThis DEF Working, Within
  <2> QED
    BY <2>2, <2>3
<1>3. ASSUME NEW a \in Contended, Occupy(a) \/ Release(a) PROVE AreaInv'
  BY <1>3 DEF Occupy, Release, This, msg
<1>4. CASE Start \/ Crash \/ Cycle
  BY <1>4 DEF Start, Crash, Cycle
<1>5. CASE EndCycle
  BY <1>5 DEF EndCycle
<1>6. CASE EndPacket
  BY <1>6 DEF EndPacket
<1>7. ASSUME NEW n \in 0 .. MaxPackets, Pick(n) PROVE AreaInv'
  BY <1>7 DEF Pick
<1>8. CASE Damage \/ Netmail
  BY <1>8 DEF Damage, Netmail, AtMessage
<1>9. CASE SetArea
  <2>1. msg' = msg /\ pc' = "dispose"
    BY <1>9 DEF SetArea, This, msg
  <2>2. msg.area # None /\ None \notin Echo
    BY <1>9, MsgFact, ParamFact DEF SetArea, AtMessage, Working, Names
  <2> QED
    BY <1>9, <2>1, <2>2 DEF SetArea, Opening
<1>10. CASE Puts
  <2>1. pc' = "packet" /\ UNCHANGED areas
    BY <1>10 DEF Puts, Dispose
  <2> QED
    BY <2>1
<1>11. CASE Fresh
  BY <1>11 DEF Fresh, This, msg
<1>12. CASE Accept \/ Export
  BY <1>12 DEF Accept, Export, This, msg
<1>13. CASE Store
  BY <1>13 DEF Store
<1> QED
  BY <1>1, <1>2, <1>3, <1>4, <1>5, <1>6, <1>7, <1>8, <1>9, <1>10, <1>11, <1>12, <1>13, StepCases

-----------------------------------------------------------------------------
(* How the files change: four steps change them. *)

LEMMA FileSteps ==
    ASSUME [Next]_vars
    PROVE  \/ \E from \in Senders, n \in 1 .. MaxLen : \E kinds \in [1 .. n -> Kinds] :
                 Arrive(from, kinds)
           \/ Cycle \/ EndPacket \/ (Dispose /\ BackUp)
           \/ UNCHANGED <<files, arrived, mail, mingled, overwritten>>
<1> DEFINE Arrives == \E from \in Senders, n \in 1 .. MaxLen : \E kinds \in [1 .. n -> Kinds] :
                         Arrive(from, kinds)
<1> DEFINE Same == UNCHANGED <<files, arrived, mail, mingled, overwritten>>
<1>1. UNCHANGED vars => Same
  BY DEF vars, world, notes
<1>2. \A a \in Contended : Occupy(a) \/ Release(a) => Same
  BY DEF Occupy, Release
<1>3. Start \/ Crash => Same
  BY DEF Start, Crash
<1>4. EndCycle => Same
  BY DEF EndCycle
<1>5. \A n \in 0 .. MaxPackets : Pick(n) => Same
  BY DEF Pick
<1>6. Damage \/ Netmail \/ SetArea => Same
  <2>1. Damage => Same
    BY DEF Damage
  <2>2. Netmail \/ SetArea => Same
    BY DEF Netmail, SetArea
  <2> QED
    BY <2>1, <2>2
<1>7. Puts => Same \/ (Dispose /\ BackUp)
  <2>1. ASSUME Dispose, NEW place \in Places, PutTo(place) PROVE Same
    BY <2>1 DEF Dispose, PutTo
  <2> HIDE DEF Same
  <2> QED
    BY <2>1 DEF Puts, Places
<1>8. Fresh \/ Accept => Same
  BY DEF Fresh, Accept
<1>9. Export \/ Store => Same
  BY DEF Export, Store
<1>10. \/ UNCHANGED vars \/ Arrives
       \/ \E a \in Contended : Occupy(a) \/ Release(a)
       \/ Start \/ Crash
       \/ Cycle \/ EndCycle \/ EndPacket \/ \E n \in 0 .. MaxPackets : Pick(n)
       \/ Damage \/ Netmail \/ SetArea
       \/ Puts \/ Fresh \/ Accept \/ Export \/ Store
  BY StepCases, Zenon
<1> HIDE DEF Same, Arrives
<1>11. Arrives \/ Cycle \/ EndPacket \/ (Dispose /\ BackUp) \/ Same
  BY <1>1, <1>2, <1>3, <1>4, <1>5, <1>6, <1>7, <1>8, <1>9, <1>10
<1> QED
  BY <1>11 DEF Same, Arrives

\* The message being handled is one of its file.
LEMMA MsgHas ==
    ASSUME TypeOK, PlaceInv, Working, pos <= Len(This.msgs)
    PROVE  /\ cur \in Slots /\ Has(cur, pos) /\ Todo(cur, pos)
           /\ At(cur) = This /\ At(cur).msgs[pos] = msg
<1>1. cur \in 0 .. MaxPackets /\ At(cur) = This
  BY DEF TypeOK, RunOK, At, This
<1>2. This # None
  BY DEF This, PlaceInv, Listed, AtWork, Listing
<1> QED
  BY <1>1, <1>2, MsgFact, ParamFact DEF Has, Todo, Slots, msg

\* An arriving packet fills an empty place.
LEMMA ArriveFiles ==
    ASSUME TypeOK, PlaceInv, NEW from \in Senders, NEW n \in 1 .. MaxLen,
           NEW kinds \in [1 .. n -> Kinds], Arrive(from, kinds)
    PROVE  \E p \in Packet :
              /\ p # None /\ p.from = from /\ Len(p.msgs) = n
              /\ \A k \in 1 .. n : /\ p.msgs[k] \in Message
                                   /\ p.msgs[k].id = Given + k /\ p.msgs[k].from = from
              /\ arrived + 1 \in 1 .. MaxPackets /\ arrived' = arrived + 1
              /\ At(arrived + 1) = None
              /\ \A f \in Slots : At(f)' = IF f = arrived + 1 THEN p ELSE At(f)
              /\ \A x : x \in mail' <=> \/ x \in mail
                                        \/ \E k \in 1 .. n : /\ x = p.msgs[k]
                                                             /\ p.msgs[k].area # Junk
              /\ Given \in Nat /\ Given' = Given + MaxLen
<1>1. PICK msgs \in Seq(Message) :
         /\ Len(msgs) = n
         /\ \A k \in 1 .. n : /\ msgs[k].id = arrived * MaxLen + k
                              /\ msgs[k].from = from
         /\ arrived + 1 \in 1 .. MaxPackets /\ arrived' = arrived + 1
         /\ packets' = [packets EXCEPT ![arrived + 1] = [from |-> from, msgs |-> msgs]]
         /\ mail' = mail \cup {msgs[k] : k \in {k \in 1 .. n : msgs[k].area # Junk}}
  BY ArriveFact
<1> DEFINE p == [from |-> from, msgs |-> msgs]
<1>2. p \in Packet /\ p # None
  BY ParamFact DEF Packet
<1>3. \A k \in 1 .. n : p.msgs[k] \in Message
  BY <1>1
<1>4. arrived \in Nat /\ MaxLen \in Nat
  BY ParamFact DEF TypeOK, WorldOK
<1>5. arrived * MaxLen \in Nat /\ (arrived + 1) * MaxLen = arrived * MaxLen + MaxLen
  BY <1>4
<1>6. packets[arrived + 1] = None
  BY <1>1, <1>4 DEF PlaceInv, AtWork
<1>7. UNCHANGED <<tkp, pkt>>
  BY DEF Arrive
<1>8. \A f \in 1 .. MaxPackets : packets'[f] = IF f = arrived + 1 THEN p ELSE packets[f]
  BY <1>1 DEF TypeOK, FilesOK
<1>9. \A f \in Slots : f # -1 /\ f # 0 => f \in 1 .. MaxPackets
  BY ParamFact DEF Slots
<1>10. \A f \in Slots : At(f)' = IF f = arrived + 1 THEN p ELSE At(f)
  BY <1>4, <1>7, <1>8, <1>9 DEF At
<1>11. At(arrived + 1) = None
  BY <1>4, <1>6 DEF At
<1>12. p.from = from /\ p.msgs = msgs
  OBVIOUS
<1>13. \A x : x \in mail' <=> \/ x \in mail
                             \/ \E k \in 1 .. n : x = p.msgs[k] /\ p.msgs[k].area # Junk
  BY <1>1, <1>12
<1> HIDE DEF p
<1> QED
  BY <1>1, <1>2, <1>3, <1>5, <1>10, <1>11, <1>12, <1>13 DEF Given

\* PtBackUp.Tkp becomes PtBackUp.Pkt.
LEMMA CycleFiles ==
    ASSUME TypeOK, Cycle
    PROVE  \A f \in Slots :
              At(f)' = IF f = -1 THEN None ELSE IF f = 0 /\ tkp # None THEN tkp ELSE At(f)
BY DEF Cycle, At, Slots

\* A packet that was tossed goes.
LEMMA EndFiles ==
    ASSUME TypeOK, EndPacket
    PROVE  \A f \in Slots : At(f)' = IF f = cur THEN None ELSE At(f)
<1>1. /\ packets \in [1 .. MaxPackets -> Packet \cup {None}] /\ cur \in 0 .. MaxPackets
      /\ MaxPackets \in Nat
  BY ParamFact DEF TypeOK, FilesOK, RunOK
<1>2. tkp' = tkp
  BY DEF EndPacket
<1>3. CASE cur = 0
  <2>1. pkt' = None /\ packets' = packets
    BY <1>3 DEF EndPacket
  <2> QED
    BY <1>2, <1>3, <2>1 DEF At, Slots
<1>4. CASE cur # 0
  <2>1. packets' = [packets EXCEPT ![cur] = None] /\ pkt' = pkt
    BY <1>4 DEF EndPacket
  <2>2. \A f \in 1 .. MaxPackets : packets'[f] = IF f = cur THEN None ELSE packets[f]
    BY <1>1, <2>1
  <2>3. \A f \in Slots : f # -1 /\ f # 0 => f \in 1 .. MaxPackets
    BY <1>1 DEF Slots
  <2> QED
    BY <1>1, <1>2, <1>4, <2>1, <2>2, <2>3 DEF At
<1> QED
  BY <1>3, <1>4

\* A message that is saved goes to the end of PtBackUp.Tkp.
LEMMA SaveFiles ==
    ASSUME TypeOK, PlaceInv, Dispose, BackUp
    PROVE  LET n == IF tkp = None THEN 0 ELSE Len(tkp.msgs)
           IN  /\ n \in Nat
               /\ \A f \in Slots : f # -1 => At(f)' = At(f)
               /\ tkp' # None /\ Len(tkp'.msgs) = n + 1
               /\ \A k \in 1 .. n : tkp'.msgs[k] = tkp.msgs[k]
               /\ tkp'.msgs[n + 1] = msg
               /\ tkp'.from = IF tkp = None THEN This.from ELSE tkp.from
               /\ mingled' = IF This.from = tkp'.from THEN mingled ELSE mingled \cup {msg.id}
<1>1. msg \in Message /\ This.from \in Link \cup {Stranger}
  BY MsgFact, ThisFact DEF Dispose, Working, Within, PlaceInv, AtWork
<1>2. \A f \in Slots : f # -1 => At(f)' = At(f)
  BY DEF Dispose, At
<1>3. CASE tkp = None
  <2>1. tkp' = [from |-> This.from, msgs |-> <<msg>>] /\ mingled' = mingled
    BY <1>3 DEF BackUp
  <2>2. <<msg>> \in Seq(Message)
    BY <1>1
  <2>3. tkp' \in Packet
    BY <1>1, <2>1, <2>2 DEF Packet
  <2>4. tkp' # None
    BY <2>3, ParamFact
  <2> QED
    BY <1>2, <1>3, <2>1, <2>4
<1>4. CASE tkp # None
  <2>1. /\ tkp \in Packet /\ tkp.msgs \in Seq(Message)
    BY <1>4 DEF TypeOK, FilesOK, Packet
  <2>2. tkp' = [tkp EXCEPT !.msgs = Append(tkp.msgs, msg)]
    BY <1>4 DEF BackUp
  <2>3. tkp'.msgs = Append(tkp.msgs, msg) /\ tkp'.from = tkp.from
    BY <2>1, <2>2 DEF Packet
  <2>4. tkp' \in Packet
    <3>1. Append(tkp.msgs, msg) \in Seq(Message)
      BY <1>1, <2>1
    <3> QED
      BY <2>1, <2>2, <3>1 DEF Packet
  <2>5. tkp' # None
    BY <2>4, ParamFact
  <2>6. mingled' = IF This.from = tkp'.from THEN mingled ELSE mingled \cup {msg.id}
    BY <1>4 DEF BackUp
  <2> QED
    BY <1>1, <1>2, <1>4, <2>1, <2>3, <2>5, <2>6
<1> QED
  BY <1>3, <1>4

-----------------------------------------------------------------------------
(* Numbers *)

\* What becomes of a message is decided while its packet is tossed.
LEMMA FateFact ==
    ASSUME TypeOK, PlaceInv, [Next]_vars, NEW i \in Ids,
           Working => \A k \in 1 .. Len(This.msgs) : This.msgs[k].id # i
    PROVE  stored'[i] = stored[i] /\ placed'[i] = placed[i] /\ sent'[i] = sent[i]
<1> DEFINE Same == stored'[i] = stored[i] /\ placed'[i] = placed[i] /\ sent'[i] = sent[i]
<1>1. Within => msg.id # i /\ msg.id \in Ids
  BY MsgFact DEF Working, PlaceInv, AtWork, msg
<1>2. /\ stored \in [Ids -> 0 .. 2] /\ placed \in [Ids -> SUBSET Places]
      /\ sent \in [Ids -> SUBSET Link]
  BY DEF TypeOK, FateOK
<1>3. UNCHANGED vars \/ Start \/ Crash => Same
  BY DEF vars, Start, Crash
<1>4. \A from \in Senders, n \in 1 .. MaxLen : \A kinds \in [1 .. n -> Kinds] :
         Arrive(from, kinds) => Same
  BY DEF Arrive
<1>5. \A a \in Contended : Occupy(a) \/ Release(a) => Same
  BY DEF Occupy, Release
<1>6. Cycle \/ EndCycle => Same
  BY DEF Cycle, EndCycle
<1>7. \A n \in 0 .. MaxPackets : Pick(n) => Same
  BY DEF Pick
<1>8. EndPacket => Same
  <2> SUFFICES ASSUME EndPacket PROVE Same
    OBVIOUS
  <2>1. ~\E k \in 1 .. Len(This.msgs) : This.msgs[k].id = i
    BY DEF EndPacket, Working
  <2>2. placed' = IF ~damaged THEN placed
                  ELSE [j \in Ids |-> IF \E k \in 1 .. Len(This.msgs) : This.msgs[k].id = j
                                      THEN placed[j] \cup {"aside"} ELSE placed[j]]
    BY DEF EndPacket, Spoilt
  <2>3. placed'[i] = placed[i]
    BY <2>1, <2>2
  <2> QED
    BY <2>3 DEF EndPacket
<1>9. Damage \/ SetArea \/ Fresh => Same
  BY DEF Damage, SetArea, Fresh
<1>10. Netmail => Same
  <2> SUFFICES ASSUME Netmail PROVE Same
    OBVIOUS
  <2>1. msg.id # i /\ msg.id \in Ids
    BY MsgFact DEF Netmail, AtMessage, Working, msg
  <2>2. placed' = [placed EXCEPT ![msg.id] = @ \cup {"net"}] /\ UNCHANGED <<stored, sent>>
    BY DEF Netmail
  <2> QED
    BY <1>2, <2>1, <2>2
<1>11. Puts => Same
  <2>1. ASSUME Dispose, NEW place \in Places, PutTo(place) PROVE Same
    BY <1>1, <1>2, <2>1 DEF Dispose, PutTo, Within
  <2>2. ASSUME Dispose, BackUp PROVE Same
    BY <2>2 DEF Dispose, BackUp
  <2> HIDE DEF Same
  <2> QED
    BY <2>1, <2>2 DEF Puts, Places
<1>12. Accept => Same
  BY <1>1, <1>2 DEF Accept, Within
<1>13. Export => Same
  BY <1>1, <1>2 DEF Export, Within
<1>14. Store => Same
  BY <1>1, <1>2 DEF Store, Within
<1> HIDE DEF Same
<1>15. Same
  BY <1>3, <1>4, <1>5, <1>6, <1>7, <1>8, <1>9, <1>10, <1>11, <1>12, <1>13, <1>14, StepCases
<1> QED
  BY <1>15 DEF Same

\* Every step keeps numbers given once.
LEMMA MailStep ==
    ASSUME TypeOK, PlaceInv, MailInv, FileInv, [Next]_vars
    PROVE  MailInv'
<1>1. Given' >= Given /\ Given \in Nat /\ Given' \in Int
  <2>1. arrived \in Nat /\ MaxLen \in Nat
    BY ParamFact DEF TypeOK, WorldOK
  <2>2. Given \in Nat
    BY <2>1 DEF Given
  <2>3. ASSUME NEW from \in Senders, NEW n \in 1 .. MaxLen, NEW kinds \in [1 .. n -> Kinds],
               Arrive(from, kinds)
        PROVE  Given' = Given + MaxLen
    BY <2>3, ArriveFiles
  <2>4. arrived' = arrived => Given' = Given
    BY DEF Given
  <2>5. Cycle \/ EndPacket \/ Dispose => arrived' = arrived
    BY DEF Cycle, EndPacket, Dispose
  <2> QED
    BY <2>1, <2>2, <2>3, <2>4, <2>5, FileSteps
<1>2. /\ \A m \in mail' : m.id <= Given'
      /\ \A m, n \in mail' : m.id = n.id => m = n
  <2>1. ASSUME NEW from \in Senders, NEW n \in 1 .. MaxLen, NEW kinds \in [1 .. n -> Kinds],
               Arrive(from, kinds)
        PROVE  /\ \A m \in mail' : m.id <= Given'
               /\ \A x, y \in mail' : x.id = y.id => x = y
    <3>1. PICK p \in Packet :
             /\ \A k \in 1 .. n : p.msgs[k].id = Given + k
             /\ \A x : x \in mail' <=> \/ x \in mail
                                       \/ \E k \in 1 .. n : /\ x = p.msgs[k]
                                                            /\ p.msgs[k].area # Junk
             /\ Given' = Given + MaxLen
      BY <2>1, ArriveFiles
    <3>2. \A x \in mail' : x \in mail \/ \E k \in 1 .. n : x = p.msgs[k] /\ x.id = Given + k
      BY <3>1
    <3>3. \A x \in mail : x.id \in Nat /\ x.id <= Given
      BY ParamFact DEF TypeOK, FateOK, Message, Ids, MailInv
    <3>4. MaxLen \in Nat /\ n \in 1 .. MaxLen
      BY ParamFact
    <3>5. \A x, y \in mail : x.id = y.id => x = y
      BY DEF MailInv
    <3>6. ASSUME NEW m \in mail' PROVE m.id <= Given'
      <4>1. CASE m \in mail
        BY <1>1, <3>1, <3>3, <3>4, <4>1
      <4>2. ASSUME NEW k \in 1 .. n, m.id = Given + k PROVE m.id <= Given'
        BY <1>1, <3>1, <3>4, <4>2
      <4> QED
        BY <3>2, <4>1, <4>2
    <3>7. ASSUME NEW x \in mail', NEW y \in mail', x.id = y.id PROVE x = y
      <4>1. CASE x \in mail /\ y \in mail
        BY <3>5, <3>7, <4>1
      <4>2. ASSUME NEW k \in 1 .. n, x = p.msgs[k], x.id = Given + k PROVE x = y
        <5>1. y \notin mail
          BY <1>1, <3>3, <3>7, <4>2
        <5>2. PICK j \in 1 .. n : y = p.msgs[j] /\ y.id = Given + j
          BY <3>2, <5>1
        <5> QED
          BY <1>1, <3>7, <4>2, <5>2
      <4>3. ASSUME x \in mail, NEW k \in 1 .. n, y.id = Given + k PROVE FALSE
        BY <1>1, <3>3, <3>7, <4>3
      <4> QED
        BY <3>2, <4>1, <4>2, <4>3
    <3> QED
      BY <3>6, <3>7
  <2>2. CASE mail' = mail /\ arrived' = arrived
    BY <2>2 DEF MailInv, Given
  <2>3. CASE Cycle \/ EndPacket \/ (Dispose /\ BackUp)
    BY <2>2, <2>3 DEF Cycle, EndPacket, Dispose
  <2> QED
    BY <2>1, <2>2, <2>3, FileSteps
<1>3. ASSUME NEW i \in Ids, i > Given' PROVE stored'[i] = 0 /\ placed'[i] = {} /\ sent'[i] = {}
  <2>1. i > Given
    BY <1>1, <1>3, ParamFact DEF Ids
  <2>2. ASSUME Working, NEW k \in 1 .. Len(This.msgs) PROVE This.msgs[k].id <= Given
    <3>1. cur \in Slots /\ At(cur) = This /\ This # None
      BY <2>2 DEF At, Slots, This, TypeOK, RunOK, PlaceInv, Listed, AtWork, Listing
    <3>2. k \in Nat /\ Has(cur, k)
      BY <2>2, <3>1, ThisFact DEF Has
    <3> QED
      BY <3>1, <3>2 DEF FileInv
  <2>3. Working => \A k \in 1 .. Len(This.msgs) : This.msgs[k].id # i
    BY <1>1, <2>1, <2>2, ParamFact DEF Ids
  <2>4. stored[i] = 0 /\ placed[i] = {} /\ sent[i] = {}
    BY <2>1 DEF MailInv
  <2> QED
    BY <2>3, <2>4, FateFact
<1> QED
  BY <1>2, <1>3 DEF MailInv

\* Files whose messages were in a file before are right.
LEMMA OldFiles ==
    ASSUME FileInv, NEW f \in Slots, NEW g \in Slots, At(f)' = At(g),
           mail' = mail, Given' = Given, mingled \subseteq mingled'
    PROVE  \A k \in Nat : Has(f, k)' =>
              LET m == At(f)'.msgs[k]
              IN  /\ m.id <= Given'
                  /\ m.area # Junk => m \in mail'
                  /\ \A x \in mail' : x.id = m.id => x = m
                  /\ m.id \in mingled' \/ m.from = At(f)'.from
<1> SUFFICES ASSUME NEW k \in Nat, Has(f, k)'
             PROVE  LET m == At(f)'.msgs[k]
                    IN  /\ m.id <= Given'
                        /\ m.area # Junk => m \in mail'
                        /\ \A x \in mail' : x.id = m.id => x = m
                        /\ m.id \in mingled' \/ m.from = At(f)'.from
  OBVIOUS
<1>1. Has(g, k)
  BY DEF Has
<1> QED
  BY <1>1 DEF FileInv

\* Every step keeps the messages in the files those of the mail.
LEMMA FileStep ==
    ASSUME TypeOK, PlaceInv, MailInv, FileInv, [Next]_vars
    PROVE  FileInv'
<1> DEFINE Right(f, k) ==
      LET m == At(f)'.msgs[k]
      IN  /\ m.id <= Given'
          /\ m.area # Junk => m \in mail'
          /\ \A x \in mail' : x.id = m.id => x = m
          /\ m.id \in mingled' \/ m.from = At(f)'.from
<1> SUFFICES ASSUME NEW f \in Slots, NEW k \in Nat, Has(f, k)' PROVE Right(f, k)
  BY DEF FileInv
<1>1. At(f)' # None /\ k \in 1 .. Len(At(f)'.msgs)
  BY DEF Has
<1>2. Given \in Nat /\ \A x \in mail : x.id \in Nat /\ x.id <= Given
  <2>1. arrived \in Nat /\ MaxLen \in Nat
    BY ParamFact DEF TypeOK, WorldOK
  <2>2. Given \in Nat
    BY <2>1 DEF Given
  <2> QED
    BY <2>2, ParamFact DEF TypeOK, FateOK, Message, Ids, MailInv
<1>3. ASSUME NEW from \in Senders, NEW n \in 1 .. MaxLen, NEW kinds \in [1 .. n -> Kinds],
             Arrive(from, kinds)
      PROVE  Right(f, k)
  <2>1. PICK p \in Packet :
           /\ p # None /\ p.from = from /\ Len(p.msgs) = n
           /\ \A j \in 1 .. n : p.msgs[j].id = Given + j /\ p.msgs[j].from = from
           /\ arrived + 1 \in 1 .. MaxPackets
           /\ \A g \in Slots : At(g)' = IF g = arrived + 1 THEN p ELSE At(g)
           /\ \A x : x \in mail' <=> \/ x \in mail
                                     \/ \E j \in 1 .. n : /\ x = p.msgs[j]
                                                          /\ p.msgs[j].area # Junk
           /\ Given' = Given + MaxLen
    BY <1>3, ArriveFiles
  <2>2. mingled' = mingled /\ MaxLen \in Nat
    BY <1>3, ParamFact DEF Arrive
  <2>3. CASE f = arrived + 1
    <3>1. At(f)' = p /\ k \in 1 .. n
      BY <1>1, <2>1, <2>3
    <3>2. p.msgs[k].id = Given + k /\ p.msgs[k].id <= Given'
      BY <1>2, <2>1, <2>2, <3>1
    <3>3. ASSUME NEW x \in mail', x.id = p.msgs[k].id PROVE x = p.msgs[k]
      <4>1. x \notin mail
        BY <1>2, <3>1, <3>2, <3>3
      <4>2. PICK j \in 1 .. n : x = p.msgs[j]
        BY <2>1, <4>1
      <4> QED
        BY <1>2, <2>1, <3>1, <3>2, <3>3, <4>2
    <3>4. p.msgs[k].area # Junk => p.msgs[k] \in mail'
      BY <2>1, <3>1
    <3>5. p.msgs[k].from = p.from
      BY <2>1, <3>1
    <3> QED
      BY <3>1, <3>2, <3>3, <3>4, <3>5
  <2>4. CASE f # arrived + 1
    <3>1. At(f)' = At(f) /\ Has(f, k)
      BY <1>1, <2>1, <2>4 DEF Has
    <3> DEFINE m == At(f).msgs[k]
    <3>2. /\ m.id <= Given /\ (m.area # Junk => m \in mail)
          /\ \A x \in mail : x.id = m.id => x = m
          /\ m.id \in mingled \/ m.from = At(f).from
      BY <3>1 DEF FileInv
    <3>3. m \in Message
      BY <3>1, ParamFact DEF Has, At, Slots, TypeOK, FilesOK, Packet
    <3>4. m.id \in Nat
      BY <3>3, ParamFact DEF Message, Ids
    <3> HIDE DEF m
    <3>5. \A x \in mail' : x.id = m.id => x = m
      <4> SUFFICES ASSUME NEW x \in mail', x.id = m.id PROVE x \in mail
        BY <3>2
      <4>1. ASSUME NEW j \in 1 .. n, x = p.msgs[j] PROVE FALSE
        BY <1>2, <2>1, <3>2, <3>4, <4>1
      <4> QED
        BY <2>1, <4>1
    <3>6. m.id <= Given' /\ (m.area # Junk => m \in mail')
      BY <1>2, <2>1, <2>2, <3>2, <3>4
    <3>7. m.id \in mingled' \/ m.from = At(f)'.from
      BY <2>2, <3>1, <3>2
    <3> QED
      BY <3>1, <3>5, <3>6, <3>7 DEF m
  <2> QED
    BY <2>3, <2>4
<1>4. ASSUME NEW g \in Slots, At(f)' = At(g), mail' = mail, arrived' = arrived,
             mingled \subseteq mingled'
      PROVE  Right(f, k)
  <2>1. Given' = Given
    BY <1>4 DEF Given
  <2> QED
    BY <1>4, <2>1, OldFiles
<1> HIDE DEF Right
<1>5. CASE Cycle
  <2>1. UNCHANGED <<mail, arrived, mingled>> /\ -1 \in Slots
    BY <1>5, ParamFact DEF Cycle, Slots
  <2>2. \E g \in Slots : At(f)' = At(g)
    BY <1>1, <1>5, <2>1, CycleFiles DEF At
  <2> QED
    BY <1>4, <2>1, <2>2
<1>6. CASE EndPacket
  <2>1. UNCHANGED <<mail, arrived, mingled>>
    BY <1>6 DEF EndPacket
  <2>2. At(f)' = At(f)
    BY <1>1, <1>6, EndFiles
  <2> QED
    BY <1>4, <2>1, <2>2
<1>7. CASE Dispose /\ BackUp
  <2>1. UNCHANGED <<mail, arrived>>
    BY <1>7 DEF Dispose
  <2>2. mingled \subseteq mingled'
    BY <1>7 DEF BackUp
  <2>3. CASE f # -1
    BY <1>4, <1>7, <2>1, <2>2, <2>3, SaveFiles
  <2>4. CASE f = -1
    <3> DEFINE n == IF tkp = None THEN 0 ELSE Len(tkp.msgs)
    <3>1. /\ n \in Nat /\ Len(tkp'.msgs) = n + 1
          /\ \A j \in 1 .. n : tkp'.msgs[j] = tkp.msgs[j]
          /\ tkp'.msgs[n + 1] = msg
          /\ tkp'.from = IF tkp = None THEN This.from ELSE tkp.from
          /\ mingled' = IF This.from = tkp'.from THEN mingled ELSE mingled \cup {msg.id}
      BY <1>7, SaveFiles
    <3>2. At(f)' = tkp' /\ At(f) = tkp
      BY <2>4 DEF At
    <3>3. Given' = Given
      BY <2>1 DEF Given
    <3>4. CASE k \in 1 .. n
      <4>1. tkp # None /\ Has(f, k) /\ tkp'.msgs[k] = tkp.msgs[k] /\ tkp'.from = tkp.from
        BY <3>1, <3>2, <3>4 DEF Has
      <4> DEFINE m == tkp.msgs[k]
      <4>2. /\ m.id <= Given /\ (m.area # Junk => m \in mail)
            /\ \A x \in mail : x.id = m.id => x = m
            /\ m.id \in mingled \/ m.from = tkp.from
        BY <3>2, <4>1 DEF FileInv
      <4>3. At(f)'.msgs[k] = m /\ At(f)'.from = tkp.from
        BY <3>2, <4>1
      <4> HIDE DEF m
      <4> QED
        BY <2>1, <2>2, <3>3, <4>2, <4>3 DEF Right
    <3>5. CASE k = n + 1
      <4>1. Has(cur, pos) /\ At(cur) = This /\ At(cur).msgs[pos] = msg /\ cur \in Slots
            /\ pos \in Nat
        BY <1>7, MsgHas, MsgFact DEF Dispose, Working, Within, PlaceInv, AtWork
      <4>2. /\ msg.id <= Given /\ (msg.area # Junk => msg \in mail)
            /\ \A x \in mail : x.id = msg.id => x = msg
            /\ msg.id \in mingled \/ msg.from = This.from
        BY <4>1 DEF FileInv
      <4>3. At(f)'.msgs[k] = msg /\ At(f)'.from = tkp'.from
        BY <3>1, <3>2, <3>5
      <4>4. msg.id \in mingled' \/ msg.from = tkp'.from
        BY <3>1, <4>2
      <4> QED
        BY <2>1, <3>3, <4>2, <4>3, <4>4 DEF Right
    <3>6. k \in 1 .. n + 1
      BY <1>1, <3>1, <3>2
    <3> QED
      BY <3>1, <3>4, <3>5, <3>6
  <2> QED
    BY <2>3, <2>4
<1>8. CASE UNCHANGED <<files, arrived, mail, mingled, overwritten>>
  <2>1. At(f)' = At(f)
    BY <1>8 DEF At
  <2> QED
    BY <1>4, <1>8, <2>1
<1> QED
  BY <1>3, <1>5, <1>6, <1>7, <1>8, FileSteps

-----------------------------------------------------------------------------
(* One pass *)

\* What a message stored in its base has gone to.
Served(m) ==
    \E l \in Link \cup {Stranger} : Link \ {l} \subseteq sent[m.id] /\ (l = m.from \/ m.id \in mingled)

\* A message of the mail is in a file as its sender's, or was saved with others.
LEMMA SenderFact ==
    ASSUME TypeOK, PlaceInv, FileInv, Working, pos <= Len(This.msgs), NEW m \in mail, m.id = msg.id
    PROVE  m = msg /\ (m.id \in mingled \/ m.from = This.from)
<1>1. cur \in Slots /\ pos \in Nat /\ Has(cur, pos) /\ At(cur) = This /\ At(cur).msgs[pos] = msg
  BY MsgHas, MsgFact
<1> QED
  BY <1>1 DEF FileInv

\* The same, as far as it is about the messages.
LEMMA ArriveMail ==
    ASSUME TypeOK, PlaceInv, NEW from \in Senders, NEW n \in 1 .. MaxLen,
           NEW kinds \in [1 .. n -> Kinds], Arrive(from, kinds)
    PROVE  \E p \in Packet :
              /\ \A k \in 1 .. n : /\ p.msgs[k] \in Message
                                   /\ p.msgs[k].id = Given + k /\ p.msgs[k].from = from
              /\ \A x : x \in mail' <=> \/ x \in mail
                                        \/ \E k \in 1 .. n : /\ x = p.msgs[k]
                                                             /\ p.msgs[k].area # Junk
              /\ Given \in Nat
BY ArriveFiles

\* Every step keeps what has been sent right.
LEMMA SentStep ==
    ASSUME TypeOK, PlaceInv, MailInv, FileInv, SentInv, [Next]_vars
    PROVE  SentInv'
<1> SUFFICES ASSUME Both PROVE SentInv'
  BY DEF SentInv
<1> DEFINE Back(m) == m.id \in mingled \/ m.from \notin sent[m.id]
           Out(m) == stored[m.id] > 0 /\ Cardinality(Link) > 1 => Served(m)
<1>1. /\ \A m \in mail : Back(m) /\ Out(m)
      /\ pc = "store" => Receivers \subseteq sent[msg.id]
  BY DEF SentInv, Served
<1>2. SUFFICES /\ \A m \in mail' : Back(m)' /\ Out(m)'
               /\ pc' = "store" => Receivers' \subseteq sent'[msg'.id]
  BY DEF SentInv, Served
<1>3. \A m \in mail : m.id \in Ids
  BY DEF TypeOK, FateOK, Message
<1>4. mingled \subseteq mingled'
  <2>1. CASE UNCHANGED mingled
    BY <2>1
  <2>2. CASE BackUp
    BY <2>2 DEF BackUp
  <2>3. Cycle \/ EndPacket => UNCHANGED mingled
    BY DEF Cycle, EndPacket
  <2>4. \A from \in Senders, n \in 1 .. MaxLen : \A kinds \in [1 .. n -> Kinds] :
           Arrive(from, kinds) => UNCHANGED mingled
    BY DEF Arrive
  <2> QED
    BY <2>1, <2>2, <2>3, <2>4, FileSteps
<1>5. ASSUME NEW m \in mail, sent'[m.id] = sent[m.id], stored'[m.id] = stored[m.id]
      PROVE  Back(m)' /\ Out(m)'
  BY <1>1, <1>4, <1>5 DEF Served
<1>6. ASSUME UNCHANGED <<sent, stored, mail>>, pc' # "store"
      PROVE  /\ \A m \in mail' : Back(m)' /\ Out(m)'
             /\ pc' = "store" => Receivers' \subseteq sent'[msg'.id]
  BY <1>5, <1>6
<1>7. ASSUME UNCHANGED <<sent, stored, mail, pc>>, Working => UNCHANGED <<This, msg>>
      PROVE  /\ \A m \in mail' : Back(m)' /\ Out(m)'
             /\ pc' = "store" => Receivers' \subseteq sent'[msg'.id]
  BY <1>1, <1>5, <1>7 DEF Receivers, Working, Within
<1>8. CASE UNCHANGED vars
  BY <1>7, <1>8 DEF vars, This, msg
<1>9. ASSUME NEW from \in Senders, NEW n \in 1 .. MaxLen, NEW kinds \in [1 .. n -> Kinds],
             Arrive(from, kinds)
      PROVE  /\ \A m \in mail' : Back(m)' /\ Out(m)'
             /\ pc' = "store" => Receivers' \subseteq sent'[msg'.id]
  <2>1. PICK p \in Packet :
           /\ \A k \in 1 .. n : /\ p.msgs[k] \in Message
                                /\ p.msgs[k].id = Given + k /\ p.msgs[k].from = from
           /\ \A x : x \in mail' <=> \/ x \in mail
                                     \/ \E k \in 1 .. n : /\ x = p.msgs[k]
                                                          /\ p.msgs[k].area # Junk
           /\ Given \in Nat
    BY <1>9, ArriveMail
  <2>2. UNCHANGED <<sent, stored, pc, cur, pos, pkt>>
    BY <1>9 DEF Arrive
  <2>3. ASSUME NEW m \in mail', m \notin mail PROVE Back(m)' /\ Out(m)'
    <3>1. PICK k \in 1 .. n : m = p.msgs[k]
      BY <2>1, <2>3
    <3>2. m.id \in Ids /\ m.id > Given
      BY <2>1, <3>1 DEF Message
    <3>3. sent'[m.id] = {} /\ stored'[m.id] = 0
      BY <2>2, <3>2 DEF MailInv
    <3> QED
      BY <3>3
  <2>4. ASSUME NEW m \in mail PROVE Back(m)' /\ Out(m)'
    BY <1>5, <2>2
  <2>5. Working => UNCHANGED <<This, msg>>
    <3>1. \A k \in 1 .. MaxPackets : k # arrived + 1 => packets'[k] = packets[k]
      BY <1>9, ArriveFact DEF TypeOK, FilesOK
    <3> QED
      BY <2>2, <3>1, SameThis
  <2>6. pc' = "store" => Receivers' \subseteq sent'[msg'.id]
    BY <1>1, <2>2, <2>5 DEF Receivers, Working, Within
  <2> QED
    BY <2>3, <2>4, <2>6
<1>10. ASSUME NEW a \in Contended, Occupy(a) \/ Release(a)
       PROVE  /\ \A m \in mail' : Back(m)' /\ Out(m)'
              /\ pc' = "store" => Receivers' \subseteq sent'[msg'.id]
  <2>1. UNCHANGED <<sent, stored, mail, pc, This, msg>>
    BY <1>10 DEF Occupy, Release, This, msg
  <2> QED
    BY <1>7, <2>1
<1>11. CASE Start \/ Crash
  BY <1>6, <1>11 DEF Start, Crash
<1>12. CASE Cycle \/ EndCycle
  BY <1>6, <1>12 DEF Cycle, EndCycle
<1>13. CASE EndPacket \/ \E n \in 0 .. MaxPackets : Pick(n)
  BY <1>6, <1>13 DEF EndPacket, Pick
<1>14. CASE Damage
  BY <1>6, <1>14 DEF Damage, AtMessage
<1>15. CASE Netmail \/ SetArea
  BY <1>6, <1>15 DEF Netmail, SetArea, AtMessage
<1>16. CASE Puts \/ Fresh
  BY <1>6, <1>16 DEF Puts, Dispose, Fresh
<1>17. CASE Accept
  BY <1>6, <1>17 DEF Accept
<1>18. CASE Export
  <2>1. msg.id \in Ids /\ Receivers \subseteq Link
    BY <1>18, MsgFact DEF Export, Working, Within, PlaceInv, AtWork, Receivers
  <2>2. UNCHANGED <<stored, mail, This, msg>> /\ Receivers' = Receivers
    BY <1>18 DEF Export, This, msg, Receivers
  <2>3. \A i \in Ids : sent'[i] = IF i = msg.id THEN sent[i] \cup Receivers ELSE sent[i]
    BY <1>18, <2>1 DEF Export, TypeOK, FateOK
  <2>4. ASSUME NEW m \in mail, m.id = msg.id PROVE Back(m)' /\ Out(m)'
    <3>1. m.id \in mingled \/ m.from = This.from
      BY <1>18, <2>4, SenderFact DEF Export, Working, Within, PlaceInv, AtWork
    <3>2. sent'[m.id] = sent[m.id] \cup Receivers
      BY <1>3, <2>3, <2>4
    <3>3. Back(m)'
      BY <1>1, <1>4, <3>1, <3>2 DEF Receivers
    <3>4. Out(m)'
      BY <1>1, <1>4, <2>2, <3>2 DEF Served
    <3> QED
      BY <3>3, <3>4
  <2>5. ASSUME NEW m \in mail, m.id # msg.id PROVE Back(m)' /\ Out(m)'
    BY <1>3, <1>5, <2>2, <2>3, <2>5
  <2> QED
    BY <2>1, <2>2, <2>3, <2>4, <2>5
<1>19. CASE Store
  <2>1. msg.id \in Ids /\ This.from \in Link \cup {Stranger}
    BY <1>19, MsgFact, ThisFact DEF Store, Working, Within, PlaceInv, AtWork
  <2>2. UNCHANGED <<sent, mail, mingled>> /\ pc' = "packet" /\ Receivers \subseteq sent[msg.id]
    BY <1>1, <1>19 DEF Store
  <2>3. \A i \in Ids : i # msg.id => stored'[i] = stored[i]
    BY <1>19, <2>1 DEF Store, TypeOK, FateOK
  <2>4. ASSUME NEW m \in mail, m.id = msg.id PROVE Back(m)' /\ Out(m)'
    <3>1. m.id \in mingled \/ m.from = This.from
      BY <1>19, <2>4, SenderFact DEF Store, Working, Within, PlaceInv, AtWork
    <3>2. Cardinality(Link) > 1 => Link \ {This.from} \subseteq sent[m.id]
      BY <2>2, <2>4 DEF Receivers
    <3>3. Back(m)'
      BY <1>1, <2>2
    <3>4. Out(m)'
      BY <2>1, <2>2, <3>1, <3>2 DEF Served
    <3> QED
      BY <3>3, <3>4
  <2>5. ASSUME NEW m \in mail, m.id # msg.id PROVE Back(m)' /\ Out(m)'
    BY <1>3, <1>5, <2>2, <2>3, <2>5
  <2> QED
    BY <2>2, <2>4, <2>5
<1> QED
  BY <1>8, <1>9, <1>10, <1>11, <1>12, <1>13, <1>14, <1>15, <1>16, <1>17, <1>18, <1>19, StepCases

-----------------------------------------------------------------------------
(* Once *)

\* What is in a file is a message.
LEMMA HasFact ==
    ASSUME TypeOK, NEW f \in Slots, NEW k \in Nat, Has(f, k)
    PROVE  At(f).msgs[k] \in Message /\ At(f).msgs[k].id \in Ids
<1>1. f # -1 /\ f # 0 => f \in 1 .. MaxPackets
  BY ParamFact DEF Slots
<1>2. At(f) \in Packet
  BY <1>1 DEF Has, At, TypeOK, FilesOK
<1>3. At(f).msgs \in Seq(Message) /\ k \in 1 .. Len(At(f).msgs)
  BY <1>2 DEF Packet, Has
<1>4. At(f).msgs[k] \in Message
  BY <1>3
<1> QED
  BY <1>4 DEF Message

\* A step that gives no one anything new to do.
LEMMA OnceLess ==
    ASSUME TypeOK, OnceInv, kills = 0,
           \A f \in Slots, k \in Nat :
              Todo(f, k)' =>
                 LET i == At(f).msgs[k].id
                 IN  /\ Todo(f, k) /\ At(f)'.msgs[k] = At(f).msgs[k]
                     /\ stored'[i] = stored[i] /\ Ends(placed'[i]) = Ends(placed[i]),
           \A i \in Ids : stored'[i] + Cardinality(Ends(placed'[i])) <= 1
    PROVE  OnceInv'
BY DEF OnceInv

\* A message that has been handled is not to be handled again.
LEMMA NextMsg ==
    ASSUME TypeOK, PlaceInv, OnceInv, kills = 0, Working, pos <= Len(This.msgs),
           pc' = "packet", UNCHANGED <<files, cur>>, pos' \in Nat, pos' > pos
    PROVE  \A f \in Slots, k \in Nat :
              Todo(f, k)' => /\ Todo(f, k) /\ At(f)'.msgs[k] = At(f).msgs[k]
                             /\ At(f).msgs[k].id # msg.id
<1> SUFFICES ASSUME NEW f \in Slots, NEW k \in Nat, Todo(f, k)'
             PROVE  /\ Todo(f, k) /\ At(f)'.msgs[k] = At(f).msgs[k]
                    /\ At(f).msgs[k].id # msg.id
  OBVIOUS
<1>1. At(f)' = At(f)
  BY DEF At
<1>2. Has(f, k) /\ (f = cur => pos' <= k)
  BY <1>1 DEF Todo, Has, Working
<1>3. pos \in Nat
  BY DEF TypeOK, RunOK
<1>4. Todo(f, k) /\ ~(f = cur /\ k = pos)
  BY <1>2, <1>3 DEF Todo
<1>5. cur \in Slots /\ Todo(cur, pos) /\ At(cur).msgs[pos] = msg
  BY MsgHas
<1>6. At(f).msgs[k].id # msg.id
  BY <1>3, <1>4, <1>5 DEF OnceInv
<1> QED
  BY <1>1, <1>4, <1>6

\* The message being handled has not got anywhere yet.
LEMMA MsgFree ==
    ASSUME TypeOK, PlaceInv, OnceInv, kills = 0, Working, pos <= Len(This.msgs)
    PROVE  stored[msg.id] = 0 /\ Ends(placed[msg.id]) = {}
<1>1. cur \in Slots /\ pos \in Nat /\ Todo(cur, pos) /\ At(cur).msgs[pos] = msg
  BY MsgHas DEF TypeOK, RunOK
<1> QED
  BY <1>1 DEF OnceInv

\* A message that is put to one place is there and nowhere else.
LEMMA HandledOnce ==
    ASSUME TypeOK, PlaceInv, OnceInv, kills = 0, Working, pos <= Len(This.msgs),
           pc' = "packet", UNCHANGED <<files, cur>>, pos' = pos + 1,
           \A i \in Ids : i # msg.id => stored'[i] = stored[i] /\ placed'[i] = placed[i],
           stored'[msg.id] + Cardinality(Ends(placed'[msg.id])) <= 1
    PROVE  OnceInv'
<1>1. pos' \in Nat /\ pos' > pos
  BY DEF TypeOK, RunOK
<1>2. ASSUME NEW f \in Slots, NEW k \in Nat, Todo(f, k)'
      PROVE  LET i == At(f).msgs[k].id
             IN  /\ Todo(f, k) /\ At(f)'.msgs[k] = At(f).msgs[k]
                 /\ stored'[i] = stored[i] /\ Ends(placed'[i]) = Ends(placed[i])
  <2>1. /\ Todo(f, k) /\ At(f)'.msgs[k] = At(f).msgs[k]
        /\ At(f).msgs[k].id # msg.id
    BY <1>1, <1>2, NextMsg
  <2>2. At(f).msgs[k].id \in Ids
    BY <2>1, HasFact DEF Todo
  <2> QED
    BY <2>1, <2>2
<1>3. \A i \in Ids : stored'[i] + Cardinality(Ends(placed'[i])) <= 1
  BY DEF OnceInv
<1> QED
  BY <1>2, <1>3, OnceLess

LEMMA PlacedOnce ==
    ASSUME TypeOK, PlaceInv, OnceInv, kills = 0, Working, pos <= Len(This.msgs),
           NEW place \in {"net", "gone", "bad", "dupe"},
           placed' = [placed EXCEPT ![msg.id] = @ \cup {place}], stored' = stored,
           pc' = "packet", UNCHANGED <<files, cur>>, pos' = pos + 1
    PROVE  OnceInv'
<1>1. msg.id \in Ids /\ stored[msg.id] = 0 /\ Ends(placed[msg.id]) = {}
  BY MsgFact, MsgFree
<1>2. \A i \in Ids : placed'[i] = IF i = msg.id THEN placed[i] \cup {place} ELSE placed[i]
  BY DEF TypeOK, FateOK
<1>3. Ends(placed'[msg.id]) = {place}
  BY <1>1, <1>2 DEF Ends
<1>4. stored'[msg.id] + Cardinality(Ends(placed'[msg.id])) <= 1
  <2>1. stored'[msg.id] = 0
    BY <1>1
  <2>2. Cardinality(Ends(placed'[msg.id])) = 1
    BY <1>3, FS_Singleton, Zenon
  <2> QED
    BY <2>1, <2>2
<1> QED
  BY <1>2, <1>4, HandledOnce

\* A step that puts no message anywhere and changes no file keeps OnceInv.
LEMMA OnceSame ==
    ASSUME TypeOK, OnceInv, kills = 0, UNCHANGED <<files, stored>>,
           \A i \in Ids : Ends(placed'[i]) = Ends(placed[i]),
           \A f \in Slots, k \in Nat : Todo(f, k)' => Todo(f, k)
    PROVE  OnceInv'
<1>1. \A f \in Slots : At(f)' = At(f)
  BY DEF At
<1>2. \A f \in Slots, k \in Nat : Todo(f, k) => At(f).msgs[k].id \in Ids
  BY HasFact DEF Todo
<1>3. \A i \in Ids : stored'[i] + Cardinality(Ends(placed'[i])) <= 1
  BY DEF OnceInv
<1> QED
  BY <1>1, <1>2, <1>3, OnceLess

\* A packet arrives with new numbers.
LEMMA OnceArrive ==
    ASSUME TypeOK, PlaceInv, MailInv, FileInv, OnceInv, kills = 0,
           NEW from \in Senders, NEW n \in 1 .. MaxLen,
           NEW kinds \in [1 .. n -> Kinds], Arrive(from, kinds)
    PROVE  OnceInv'
<1>1. PICK p \in Packet :
         /\ p # None /\ p.from = from /\ Len(p.msgs) = n
         /\ \A k \in 1 .. n : /\ p.msgs[k] \in Message
                              /\ p.msgs[k].id = Given + k /\ p.msgs[k].from = from
         /\ arrived + 1 \in 1 .. MaxPackets /\ arrived' = arrived + 1
         /\ At(arrived + 1) = None
         /\ \A f \in Slots : At(f)' = IF f = arrived + 1 THEN p ELSE At(f)
         /\ \A x : x \in mail' <=> \/ x \in mail
                                   \/ \E k \in 1 .. n : /\ x = p.msgs[k]
                                                        /\ p.msgs[k].area # Junk
         /\ Given \in Nat /\ Given' = Given + MaxLen
  BY ArriveFiles
<1>2. UNCHANGED <<stored, placed, pc, cur, pos>>
  BY DEF Arrive
<1>3. ASSUME NEW f \in Slots, NEW k \in Nat, Todo(f, k)'
      PROVE  \/ /\ f = arrived + 1 /\ k \in 1 .. n
                /\ At(f)'.msgs[k].id = Given + k /\ At(f)'.msgs[k].id \in Ids
             \/ Todo(f, k) /\ At(f)' = At(f) /\ At(f)'.msgs[k].id <= Given
  <2>1. CASE f = arrived + 1
    <3>1. At(f)' = p /\ k \in 1 .. n
      BY <1>1, <1>3, <2>1 DEF Todo, Has
    <3> QED
      BY <1>1, <2>1, <3>1 DEF Message
  <2>2. CASE f # arrived + 1
    <3>1. At(f)' = At(f)
      BY <1>1, <2>2
    <3>2. Todo(f, k)
      BY <1>2, <1>3, <3>1 DEF Todo, Has, Working, Within
    <3> QED
      BY <3>1, <3>2 DEF FileInv, Todo
  <2> QED
    BY <2>1, <2>2
<1>4. \A f \in Slots, k \in Nat : Todo(f, k) => At(f).msgs[k].id \in Ids
  BY HasFact DEF Todo
<1>5. Ids \subseteq Nat
  BY ParamFact DEF Ids
<1>6. ASSUME NEW f \in Slots, NEW g \in Slots, NEW k \in Nat, NEW l \in Nat,
             Todo(f, k)', Todo(g, l)', At(f)'.msgs[k].id = At(g)'.msgs[l].id
      PROVE  f = g /\ k = l
  <2>1. CASE Todo(f, k) /\ At(f)' = At(f) /\ Todo(g, l) /\ At(g)' = At(g)
    BY <1>6, <2>1 DEF OnceInv
  <2>2. CASE f = arrived + 1 /\ At(f)'.msgs[k].id = Given + k /\ k \in 1 .. n
    BY <1>1, <1>3, <1>4, <1>5, <1>6, <2>2
  <2>3. CASE g = arrived + 1 /\ At(g)'.msgs[l].id = Given + l /\ l \in 1 .. n
    BY <1>1, <1>3, <1>4, <1>5, <1>6, <2>3
  <2> QED
    BY <1>3, <1>6, <2>1, <2>2, <2>3
<1>7. ASSUME NEW f \in Slots, NEW k \in Nat, Todo(f, k)'
      PROVE  stored'[At(f)'.msgs[k].id] = 0 /\ Ends(placed'[At(f)'.msgs[k].id]) = {}
  <2>1. CASE At(f)'.msgs[k].id = Given + k /\ k \in 1 .. n /\ At(f)'.msgs[k].id \in Ids
    BY <1>1, <1>2, <2>1 DEF MailInv, Ends
  <2>2. CASE Todo(f, k) /\ At(f)' = At(f)
    BY <1>2, <2>2 DEF OnceInv
  <2> QED
    BY <1>3, <1>7, <2>1, <2>2
<1> QED
  BY <1>2, <1>6, <1>7 DEF OnceInv

\* PtBackUp.Tkp is renamed, not copied.
LEMMA OnceCycle ==
    ASSUME TypeOK, OnceInv, kills = 0, Cycle
    PROVE  OnceInv'
<1>1. \A f \in Slots :
         At(f)' = IF f = -1 THEN None ELSE IF f = 0 /\ tkp # None THEN tkp ELSE At(f)
  BY CycleFiles
<1>2. UNCHANGED <<stored, placed>> /\ ~Working /\ ~Working'
  BY DEF Cycle, Working, Within
<1> DEFINE was(f) == IF f = 0 /\ tkp # None THEN -1 ELSE f
<1>3. ASSUME NEW f \in Slots, NEW k \in Nat, Todo(f, k)'
      PROVE  f # -1 /\ was(f) \in Slots /\ Todo(was(f), k) /\ At(f)' = At(was(f))
  <2>1. f # -1 /\ was(f) \in Slots
    BY <1>1, <1>3, ParamFact DEF Todo, Has, Slots
  <2>2. At(f)' = At(was(f))
    BY <1>1, <2>1 DEF At
  <2> QED
    BY <1>2, <1>3, <2>1, <2>2 DEF Todo, Has
<1>4. \A f, g \in Slots : f # -1 /\ g # -1 /\ was(f) = was(g) => f = g
  OBVIOUS
<1> HIDE DEF was
<1>5. ASSUME NEW f \in Slots, NEW g \in Slots, NEW k \in Nat, NEW l \in Nat,
             Todo(f, k)', Todo(g, l)', At(f)'.msgs[k].id = At(g)'.msgs[l].id
      PROVE  f = g /\ k = l
  <2>1. was(f) = was(g) /\ k = l
    BY <1>3, <1>5 DEF OnceInv
  <2> QED
    BY <1>3, <1>4, <1>5, <2>1
<1>6. ASSUME NEW f \in Slots, NEW k \in Nat, Todo(f, k)'
      PROVE  stored'[At(f)'.msgs[k].id] = 0 /\ Ends(placed'[At(f)'.msgs[k].id]) = {}
  BY <1>2, <1>3, <1>6 DEF OnceInv
<1> QED
  BY <1>2, <1>5, <1>6 DEF OnceInv

\* A message that is saved moves from its packet to the end of PtBackUp.Tkp.
LEMMA OnceSave ==
    ASSUME TypeOK, PlaceInv, OnceInv, kills = 0, Dispose, BackUp
    PROVE  OnceInv'
<1> DEFINE n == IF tkp = None THEN 0 ELSE Len(tkp.msgs)
<1>1. /\ n \in Nat
      /\ \A f \in Slots : f # -1 => At(f)' = At(f)
      /\ tkp' # None /\ Len(tkp'.msgs) = n + 1
      /\ \A k \in 1 .. n : tkp'.msgs[k] = tkp.msgs[k]
      /\ tkp'.msgs[n + 1] = msg
  BY SaveFiles
<1>2. pc = "dispose" /\ pc' = "packet" /\ pos' = pos + 1 /\ UNCHANGED <<cur, stored, placed>>
  BY DEF Dispose, BackUp
<1>3. /\ cur \in Slots /\ cur # -1 /\ pos \in Nat /\ Todo(cur, pos) /\ At(cur).msgs[pos] = msg
      /\ -1 \in Slots
  BY <1>2, MsgHas, ParamFact DEF Working, Within, PlaceInv, AtWork, TypeOK, RunOK, Slots
<1>4. IF tkp = None THEN n = 0 ELSE n = Len(tkp.msgs)
  OBVIOUS
<1> HIDE DEF n
<1> DEFINE new(f, k) == f = -1 /\ k = n + 1
<1>5. ASSUME NEW f \in Slots, NEW k \in Nat, Todo(f, k)'
      PROVE  \/ new(f, k) /\ At(f)'.msgs[k] = msg
             \/ /\ ~new(f, k) /\ Todo(f, k) /\ At(f)'.msgs[k] = At(f).msgs[k]
                /\ ~(f = cur /\ k = pos)
  <2>1. CASE f = -1
    <3>1. At(f)' = tkp' /\ At(f) = tkp
      BY <2>1 DEF At
    <3>2. k \in 1 .. n + 1
      BY <1>1, <1>5, <3>1 DEF Todo, Has
    <3>3. CASE k = n + 1
      BY <1>1, <2>1, <3>1, <3>3
    <3>4. CASE k \in 1 .. n
      <4>1. tkp # None
        BY <1>4, <3>4
      <4> QED
        BY <1>1, <1>3, <1>4, <2>1, <3>1, <3>4, <4>1 DEF Todo, Has
    <3> QED
      BY <1>1, <3>2, <3>3, <3>4
  <2>2. CASE f # -1
    <3>1. At(f)' = At(f)
      BY <1>1, <2>2
    <3>2. Has(f, k) /\ (f = cur => pos + 1 <= k)
      BY <1>2, <1>5, <3>1 DEF Todo, Has, Working
    <3> QED
      BY <1>3, <2>2, <3>1, <3>2 DEF Todo
  <2> QED
    BY <2>1, <2>2
<1>6. ASSUME NEW f \in Slots, NEW g \in Slots, NEW k \in Nat, NEW l \in Nat,
             Todo(f, k)', Todo(g, l)', At(f)'.msgs[k].id = At(g)'.msgs[l].id
      PROVE  f = g /\ k = l
  <2>1. CASE new(f, k) /\ new(g, l)
    BY <2>1
  <2>2. CASE ~new(f, k) /\ ~new(g, l)
    BY <1>5, <1>6, <2>2 DEF OnceInv
  <2>3. CASE new(f, k) /\ ~new(g, l)
    BY <1>3, <1>5, <1>6, <2>3 DEF OnceInv
  <2>4. CASE ~new(f, k) /\ new(g, l)
    BY <1>3, <1>5, <1>6, <2>4 DEF OnceInv
  <2> QED
    BY <2>1, <2>2, <2>3, <2>4
<1>7. ASSUME NEW f \in Slots, NEW k \in Nat, Todo(f, k)'
      PROVE  stored'[At(f)'.msgs[k].id] = 0 /\ Ends(placed'[At(f)'.msgs[k].id]) = {}
  BY <1>2, <1>3, <1>5, <1>7 DEF OnceInv
<1> QED
  BY <1>2, <1>6, <1>7 DEF OnceInv

\* Kills are counted.
LEMMA KillsFact ==
    ASSUME TypeOK, [Next]_vars
    PROVE  kills \in Nat /\ kills' = IF Crash THEN kills + 1 ELSE kills
<1> DEFINE Same == kills' = kills
<1>1. UNCHANGED vars \/ Start => Same
  BY DEF vars, Start
<1>2. \A from \in Senders, n \in 1 .. MaxLen : \A kinds \in [1 .. n -> Kinds] :
         Arrive(from, kinds) => Same
  BY DEF Arrive
<1>3. \A a \in Contended : Occupy(a) \/ Release(a) => Same
  BY DEF Occupy, Release
<1>4. Cycle \/ EndCycle \/ EndPacket => Same
  BY DEF Cycle, EndCycle, EndPacket
<1>5. \A n \in 0 .. MaxPackets : Pick(n) => Same
  BY DEF Pick
<1>6. Damage \/ Netmail \/ SetArea => Same
  BY DEF Damage, Netmail, SetArea
<1>7. Puts \/ Fresh \/ Accept \/ Export \/ Store => Same
  BY DEF Puts, Dispose, Fresh, Accept, Export, Store
<1> HIDE DEF Same
<1>8. Crash \/ Same
  BY <1>1, <1>2, <1>3, <1>4, <1>5, <1>6, <1>7, StepCases
<1>9. Crash => kills' = kills + 1
  BY DEF Crash
<1> QED
  BY <1>8, <1>9, ParamFact DEF Same, TypeOK, NotesOK

\* Every step keeps messages from being put twice.
LEMMA OnceStep ==
    ASSUME TypeOK, PlaceInv, MailInv, FileInv, OnceInv, [Next]_vars
    PROVE  OnceInv'
<1> SUFFICES ASSUME kills' = 0 PROVE OnceInv'
  BY DEF OnceInv
<1>1. kills = 0 /\ ~Crash
  BY KillsFact
<1>2. ASSUME UNCHANGED <<files, stored, placed, cur>>, Working' <=> Working, Working => pos' = pos
      PROVE  OnceInv'
  <2>1. \A f \in Slots, k \in Nat : Todo(f, k)' => Todo(f, k)
    BY <1>2 DEF Todo, Has, At
  <2> QED
    BY <1>1, <1>2, <2>1, OnceSame
<1>3. CASE UNCHANGED vars
  BY <1>2, <1>3 DEF vars, Working, Within
<1>4. ASSUME NEW a \in Contended, Occupy(a) \/ Release(a) PROVE OnceInv'
  BY <1>2, <1>4 DEF Occupy, Release, Working, Within
<1>5. CASE Start \/ EndCycle
  BY <1>2, <1>5 DEF Start, EndCycle, Working, Within
<1>6. CASE SetArea \/ Fresh
  BY <1>2, <1>6 DEF SetArea, AtMessage, Fresh, Working, Within
<1>7. ASSUME NEW n \in 0 .. MaxPackets, Pick(n) PROVE OnceInv'
  <2>1. \A f \in Slots, k \in Nat : Todo(f, k)' => Todo(f, k)
    BY <1>7 DEF Pick, Todo, Has, At, Working, Within
  <2>2. UNCHANGED <<files, stored, placed>>
    BY <1>7 DEF Pick
  <2> QED
    BY <1>1, <2>1, <2>2, OnceSame
<1>8. CASE Damage
  <2>1. UNCHANGED <<files, stored, placed, cur, pc>> /\ pc = "packet"
    BY <1>8 DEF Damage, AtMessage
  <2>2. pos' \in Nat /\ pos' > pos /\ pos <= Len(This.msgs)
    BY <1>8, ThisFact DEF Damage, AtMessage, Working, TypeOK, RunOK
  <2>3. \A f \in Slots, k \in Nat : Todo(f, k)' => Todo(f, k)
    BY <1>1, <2>1, <2>2, NextMsg DEF Working
  <2> QED
    BY <1>1, <2>1, <2>3, OnceSame
<1>9. CASE EndPacket
  <2>1. \A f \in Slots : At(f)' = IF f = cur THEN None ELSE At(f)
    BY <1>9, EndFiles
  <2>2. pc = "packet" /\ ~Working' /\ stored' = stored
    BY <1>9 DEF EndPacket, Working, Within
  <2>3. \A i \in Ids : placed'[i] = placed[i] \/ placed'[i] = placed[i] \cup {"aside"}
    BY <1>9 DEF EndPacket
  <2>4. \A i \in Ids : Ends(placed'[i]) = Ends(placed[i])
    BY <2>3 DEF Ends
  <2>5. \A f \in Slots, k \in Nat :
           Todo(f, k)' => /\ Todo(f, k) /\ At(f)'.msgs[k] = At(f).msgs[k]
                          /\ At(f).msgs[k].id \in Ids
    BY <2>1, <2>2, HasFact DEF Todo, Has
  <2>6. \A i \in Ids : stored'[i] + Cardinality(Ends(placed'[i])) <= 1
    BY <1>1, <2>2, <2>4 DEF OnceInv
  <2> QED
    BY <1>1, <2>2, <2>4, <2>5, <2>6, OnceLess
<1>10. CASE Netmail
  <2>1. /\ placed' = [placed EXCEPT ![msg.id] = @ \cup {"net"}] /\ pos' = pos + 1
        /\ UNCHANGED <<files, stored, cur, pc>> /\ pc = "packet" /\ pos <= Len(This.msgs)
    BY <1>10 DEF Netmail, AtMessage
  <2> QED
    BY <1>1, <2>1, PlacedOnce DEF Working
<1>11. CASE Puts
  <2>1. ASSUME Dispose, NEW place \in {"gone", "bad", "dupe"}, PutTo(place) PROVE OnceInv'
    <3>1. /\ placed' = [placed EXCEPT ![msg.id] = @ \cup {place}] /\ pos' = pos + 1
          /\ UNCHANGED <<files, stored, cur>> /\ pc' = "packet" /\ pc = "dispose"
      BY <2>1 DEF Dispose, PutTo
    <3> QED
      BY <1>1, <3>1, PlacedOnce DEF Working, Within, PlaceInv, AtWork
  <2>2. ASSUME Dispose, BackUp PROVE OnceInv'
    BY <1>1, <2>2, OnceSave
  <2> QED
    BY <1>11, <2>1, <2>2 DEF Puts
<1>12. CASE Accept
  <2>1. /\ UNCHANGED <<files, stored, cur, pos>> /\ Working /\ Working'
        /\ placed' = placed \/ placed' = [placed EXCEPT ![msg.id] = @ \cup {"pers"}]
    BY <1>12 DEF Accept, Working, Within
  <2>2. \A i \in Ids : Ends(placed'[i]) = Ends(placed[i])
    BY <2>1 DEF Ends, TypeOK, FateOK
  <2>3. \A f \in Slots, k \in Nat : Todo(f, k)' => Todo(f, k)
    BY <2>1 DEF Todo, Has, At
  <2> QED
    BY <1>1, <2>1, <2>2, <2>3, OnceSame
<1>13. CASE Export
  BY <1>2, <1>13 DEF Export, Working, Within
<1>14. CASE Store
  <2>1. /\ pos' = pos + 1 /\ UNCHANGED <<files, placed, cur>> /\ pc' = "packet"
        /\ Working /\ pos <= Len(This.msgs)
        /\ \/ stored' = stored
           \/ stored' = [stored EXCEPT ![msg.id] = IF @ < 2 THEN @ + 1 ELSE 2]
    BY <1>14 DEF Store, Working, Within, PlaceInv, AtWork
  <2>2. msg.id \in Ids /\ stored[msg.id] = 0 /\ Ends(placed[msg.id]) = {}
    BY <1>1, <2>1, MsgFact, MsgFree
  <2>3. stored'[msg.id] \in {0, 1}
    BY <2>1, <2>2 DEF TypeOK, FateOK
  <2>4. stored'[msg.id] + Cardinality(Ends(placed'[msg.id])) <= 1
    BY <2>1, <2>2, <2>3, FS_EmptySet
  <2>5. \A i \in Ids : i # msg.id => stored'[i] = stored[i] /\ placed'[i] = placed[i]
    BY <2>1, <2>2 DEF TypeOK, FateOK
  <2> QED
    BY <1>1, <2>1, <2>4, <2>5, HandledOnce
<1>15. CASE Cycle
  BY <1>1, <1>15, OnceCycle
<1>16. ASSUME NEW from \in Senders, NEW n \in 1 .. MaxLen, NEW kinds \in [1 .. n -> Kinds],
              Arrive(from, kinds)
       PROVE  OnceInv'
  BY <1>1, <1>16, OnceArrive
<1> QED
  BY <1>1, <1>3, <1>4, <1>5, <1>6, <1>7, <1>8, <1>9, <1>10, <1>11, <1>12, <1>13, <1>14, <1>15,
     <1>16, StepCases

-----------------------------------------------------------------------------
(* Nothing lost *)

LEMMA PktStep ==
    ASSUME TypeOK, PktInv, [Next]_vars
    PROVE  PktInv'
<1> USE DEF PktInv, Listing, Working, Within
<1>0. kills \in Nat
  BY ParamFact DEF TypeOK, NotesOK
<1>1. UNCHANGED vars => PktInv'
  BY DEF vars
<1>2. \A from \in Senders, n \in 1 .. MaxLen : \A kinds \in [1 .. n -> Kinds] :
         Arrive(from, kinds) => PktInv'
  BY DEF Arrive
<1>3. \A a \in Contended : Occupy(a) \/ Release(a) => PktInv'
  BY DEF Occupy, Release
<1>4. Start \/ Crash => PktInv'
  BY <1>0 DEF Start, Crash
<1>5. Cycle => PktInv'
  BY DEF Cycle
<1>6. EndCycle => PktInv'
  BY DEF EndCycle
<1>7. EndPacket => PktInv'
  BY DEF EndPacket
<1>8. \A n \in 0 .. MaxPackets : Pick(n) => PktInv'
  BY DEF Pick
<1>9. Damage => PktInv'
  BY DEF Damage, AtMessage
<1>10. Netmail \/ SetArea => PktInv'
  BY DEF Netmail, SetArea, AtMessage
<1>11. Puts \/ Fresh => PktInv'
  BY DEF Puts, Dispose, Fresh
<1>12. Accept \/ Export \/ Store => PktInv'
  BY DEF Accept, Export, Store
<1> HIDE DEF PktInv
<1> QED
  BY <1>1, <1>2, <1>3, <1>4, <1>5, <1>6, <1>7, <1>8, <1>9, <1>10, <1>11, <1>12, StepCases

\* A message that has got somewhere stays there.
LEMMA DoneFact ==
    ASSUME TypeOK, PlaceInv, [Next]_vars, NEW i \in Ids, Done(i)
    PROVE  Done(i)'
<1> DEFINE Stays == /\ stored[i] > 0 => stored'[i] > 0
                    /\ placed[i] \subseteq placed'[i]
<1>1. Within => msg.id \in Ids
  BY MsgFact DEF Working, PlaceInv, AtWork
<1>2. stored \in [Ids -> 0 .. 2] /\ placed \in [Ids -> SUBSET Places]
  BY DEF TypeOK, FateOK
<1>3. UNCHANGED vars \/ Start \/ Crash => Stays
  BY DEF vars, Start, Crash
<1>4. \A from \in Senders, n \in 1 .. MaxLen : \A kinds \in [1 .. n -> Kinds] :
         Arrive(from, kinds) => Stays
  BY DEF Arrive
<1>5. \A a \in Contended : Occupy(a) \/ Release(a) => Stays
  BY DEF Occupy, Release
<1>6. Cycle \/ EndCycle => Stays
  BY DEF Cycle, EndCycle
<1>7. \A n \in 0 .. MaxPackets : Pick(n) => Stays
  BY DEF Pick
<1>8. EndPacket => Stays
  BY DEF EndPacket
<1>9. Damage \/ SetArea \/ Fresh => Stays
  BY DEF Damage, SetArea, Fresh
<1>10. Netmail => Stays
  BY <1>2 DEF Netmail
<1>11. Puts => Stays
  BY <1>2 DEF Puts, Dispose, BackUp, PutTo
<1>12. Accept => Stays
  BY <1>2 DEF Accept
<1>13. Export => Stays
  BY DEF Export
<1>14. Store => Stays
  <2>1. \/ Store => stored' = stored
        \/ stored' = [stored EXCEPT ![msg.id] = IF @ < 2 THEN @ + 1 ELSE 2]
    BY DEF Store
  <2>2. Store => placed' = placed
    BY DEF Store
  <2> QED
    BY <1>2, <2>1, <2>2
<1> HIDE DEF Stays
<1>15. Stays
  BY <1>3, <1>4, <1>5, <1>6, <1>7, <1>8, <1>9, <1>10, <1>11, <1>12, <1>13, <1>14, StepCases
<1> QED
  BY <1>15 DEF Stays, Done, Got

\* A message waits if it is in one of the files.
LEMMA WaitingFact ==
    ASSUME TypeOK, TypeOK', NEW i
    PROVE  /\ Waiting(i) <=> \E f \in Slots : Holds(At(f), i)
           /\ Waiting(i)' <=> \E f \in Slots : Holds(At(f)', i)
<1>1. DOMAIN packets = 1 .. MaxPackets /\ DOMAIN packets' = 1 .. MaxPackets
  BY DEF TypeOK, FilesOK
<1>2. \A f : f \in Slots <=> f = -1 \/ f = 0 \/ f \in 1 .. MaxPackets
  BY ParamFact DEF Slots
<1>3. /\ At(-1) = tkp /\ At(0) = pkt /\ \A f \in 1 .. MaxPackets : At(f) = packets[f]
      /\ At(-1)' = tkp' /\ At(0)' = pkt' /\ \A f \in 1 .. MaxPackets : At(f)' = packets'[f]
  BY DEF At
<1>4. Waiting(i) <=> \E f \in Slots : Holds(At(f), i)
  BY <1>1, <1>2, <1>3 DEF Waiting
<1>5. Waiting(i)' <=> \E f \in Slots : Holds(At(f)', i)
  BY <1>1, <1>2, <1>3 DEF Waiting
<1> QED
  BY <1>4, <1>5

\* What is saved, and what was saved before, is in PtBackUp.Tkp.
LEMMA SavedFact ==
    ASSUME TypeOK, PlaceInv, Dispose, BackUp
    PROVE  Holds(tkp', msg.id) /\ \A i : Holds(tkp, i) => Holds(tkp', i)
<1> DEFINE n == IF tkp = None THEN 0 ELSE Len(tkp.msgs)
<1>1. /\ n \in Nat /\ tkp' # None /\ Len(tkp'.msgs) = n + 1
      /\ \A k \in 1 .. n : tkp'.msgs[k] = tkp.msgs[k]
      /\ tkp'.msgs[n + 1] = msg
  BY SaveFiles
<1>2. tkp # None => n = Len(tkp.msgs)
  OBVIOUS
<1> HIDE DEF n
<1>3. n + 1 \in 1 .. Len(tkp'.msgs)
  BY <1>1
<1>4. Holds(tkp', msg.id)
  BY <1>1, <1>3 DEF Holds
<1>5. ASSUME NEW i, Holds(tkp, i) PROVE Holds(tkp', i)
  <2>1. PICK k \in 1 .. Len(tkp.msgs) : tkp # None /\ tkp.msgs[k].id = i
    BY <1>5 DEF Holds
  <2>2. k \in 1 .. Len(tkp'.msgs) /\ tkp'.msgs[k].id = i
    BY <1>1, <1>2, <2>1
  <2> QED
    BY <1>1, <2>2 DEF Holds
<1> QED
  BY <1>4, <1>5

\* Every step keeps the mail somewhere.
LEMMA KeptStep ==
    ASSUME TypeOK, TypeOK', PlaceInv, PktInv, Kept, Handled, [Next]_vars
    PROVE  Kept'
<1>1. kills \in Nat /\ (kills > 0 => kills' > 0)
  <2>1. kills \in Nat /\ kills' \in Nat
    BY ParamFact DEF TypeOK, NotesOK
  <2> QED
    BY <2>1, KillsFact
<1>2. ASSUME NEW m \in mail, overwritten \subseteq overwritten',
             Waiting(m.id) => Waiting(m.id)' \/ Done(m.id)' \/ (kills > 0 /\ m.id \in overwritten')
      PROVE  Done(m.id)' \/ Waiting(m.id)' \/ (kills' > 0 /\ m.id \in overwritten')
  <2>1. m.id \in Ids
    BY DEF TypeOK, FateOK, Message
  <2> QED
    BY <1>1, <1>2, <2>1, DoneFact DEF Kept
<1>3. ASSUME NEW from \in Senders, NEW n \in 1 .. MaxLen, NEW kinds \in [1 .. n -> Kinds],
             Arrive(from, kinds)
      PROVE  Kept'
  <2>1. PICK p \in Packet :
           /\ p # None /\ p.from = from /\ Len(p.msgs) = n
           /\ \A k \in 1 .. n : /\ p.msgs[k] \in Message
                                /\ p.msgs[k].id = Given + k /\ p.msgs[k].from = from
           /\ arrived + 1 \in 1 .. MaxPackets /\ arrived' = arrived + 1
           /\ At(arrived + 1) = None
           /\ \A f \in Slots : At(f)' = IF f = arrived + 1 THEN p ELSE At(f)
           /\ \A x : x \in mail' <=> \/ x \in mail
                                     \/ \E k \in 1 .. n : /\ x = p.msgs[k]
                                                          /\ p.msgs[k].area # Junk
           /\ Given \in Nat /\ Given' = Given + MaxLen
    BY <1>3, ArriveFiles
  <2>2. arrived + 1 \in Slots /\ overwritten' = overwritten
    BY <1>3, <2>1, ParamFact DEF Slots, Arrive
  <2>3. ASSUME NEW m \in mail', m \notin mail PROVE Waiting(m.id)'
    <3>1. PICK k \in 1 .. n : m = p.msgs[k]
      BY <2>1, <2>3
    <3>2. PICK f \in Slots : f = arrived + 1
      BY <2>2
    <3>3. Holds(At(f)', m.id)
      BY <2>1, <3>1, <3>2 DEF Holds
    <3> QED
      BY <3>3, WaitingFact
  <2>4. ASSUME NEW m \in mail, Waiting(m.id) PROVE Waiting(m.id)'
    <3>1. PICK f \in Slots : Holds(At(f), m.id)
      BY <2>4, WaitingFact
    <3>2. At(f)' = At(f)
      BY <2>1, <3>1 DEF Holds
    <3> QED
      BY <3>1, <3>2, WaitingFact
  <2>5. ASSUME NEW m \in mail'
        PROVE  Done(m.id)' \/ Waiting(m.id)' \/ (kills' > 0 /\ m.id \in overwritten')
    BY <1>2, <2>2, <2>3, <2>4
  <2> QED
    BY <2>5 DEF Kept
<1>4. CASE Cycle
  <2>1. mail' = mail /\ overwritten \subseteq overwritten' /\ pc = "cycle"
    BY <1>4 DEF Cycle
  <2>2. ASSUME NEW m \in mail, Waiting(m.id)
        PROVE  Waiting(m.id)' \/ (kills > 0 /\ m.id \in overwritten')
    <3>1. PICK f \in Slots : Holds(At(f), m.id)
      BY <2>2, WaitingFact
    <3>2. 0 \in Slots /\ \A g \in Slots :
             At(g)' = IF g = -1 THEN None ELSE IF g = 0 /\ tkp # None THEN tkp ELSE At(g)
      BY <1>4, CycleFiles, ParamFact DEF Slots
    <3>3. CASE f = -1
      <4>1. Holds(At(0)', m.id)
        BY <3>1, <3>2, <3>3 DEF At, Holds
      <4> QED
        BY <3>2, <4>1, WaitingFact
    <3>4. CASE f = 0 /\ tkp # None
      <4>1. pkt # None /\ \E k \in 1 .. Len(pkt.msgs) : pkt.msgs[k].id = m.id
        BY <3>1, <3>4 DEF At, Holds
      <4>2. kills > 0
        BY <1>1, <2>1, <4>1 DEF PktInv
      <4>3. overwritten' = overwritten \cup {pkt.msgs[k].id : k \in 1 .. Len(pkt.msgs)}
        BY <1>4, <3>4, <4>1 DEF Cycle
      <4> QED
        BY <4>1, <4>2, <4>3
    <3>5. CASE f # -1 /\ ~(f = 0 /\ tkp # None)
      <4>1. At(f)' = At(f)
        BY <3>2, <3>5
      <4> QED
        BY <3>1, <4>1, WaitingFact
    <3> QED
      BY <3>3, <3>4, <3>5
  <2> QED
    BY <1>2, <2>1, <2>2 DEF Kept
<1>5. CASE EndPacket
  <2>1. mail' = mail /\ overwritten' = overwritten /\ pc = "packet" /\ tkp' = tkp
    BY <1>5 DEF EndPacket
  <2>2. -1 \in Slots /\ At(-1)' = tkp'
    BY ParamFact DEF Slots, At
  <2>3. \A i \in Ids : placed'[i] = IF damaged /\ \E k \in 1 .. Len(This.msgs) : This.msgs[k].id = i
                                    THEN placed[i] \cup {"aside"} ELSE placed[i]
    BY <1>5 DEF EndPacket, Spoilt
  <2>4. ASSUME NEW m \in mail, Waiting(m.id) PROVE Waiting(m.id)' \/ Done(m.id)'
    <3>1. PICK f \in Slots : Holds(At(f), m.id)
      BY <2>4, WaitingFact
    <3>2. m.id \in Ids
      BY DEF TypeOK, FateOK, Message
    <3>3. CASE f # cur
      <4>1. At(f)' = At(f)
        BY <1>5, <3>3, EndFiles
      <4> QED
        BY <3>1, <4>1, WaitingFact
    <3>4. CASE f = cur
      <4>1. PICK k \in 1 .. Len(This.msgs) : This.msgs[k].id = m.id
        BY <3>1, <3>4 DEF Holds, At, This, TypeOK, RunOK
      <4>2. CASE damaged
        <5>1. "aside" \in placed'[m.id]
          BY <2>3, <3>2, <4>1, <4>2
        <5> QED
          BY <5>1 DEF Done, Got
      <4>3. CASE ~damaged
        <5>1. k < pos
          BY <1>5, <2>1, <4>1, ThisFact DEF EndPacket, Working, TypeOK, RunOK
        <5>2. Done(m.id) \/ Holds(tkp, m.id)
          BY <2>1, <4>1, <4>3, <5>1 DEF Handled, Working
        <5>3. Holds(tkp, m.id) => Waiting(m.id)'
          BY <2>1, <2>2, WaitingFact
        <5> QED
          BY <3>2, <5>2, <5>3, DoneFact
      <4> QED
        BY <4>2, <4>3
    <3> QED
      BY <3>3, <3>4
  <2> QED
    BY <1>2, <2>1, <2>4 DEF Kept
<1>6. CASE Dispose /\ BackUp
  <2>1. UNCHANGED <<mail, overwritten>>
    BY <1>6 DEF Dispose
  <2>2. ASSUME NEW m \in mail, Waiting(m.id) PROVE Waiting(m.id)'
    <3>1. PICK f \in Slots : Holds(At(f), m.id)
      BY <2>2, WaitingFact
    <3>2. Holds(At(f)', m.id)
      <4>1. CASE f # -1
        BY <1>6, <3>1, <4>1, SaveFiles
      <4>2. CASE f = -1
        BY <1>6, <3>1, <4>2, SavedFact DEF At
      <4> QED
        BY <4>1, <4>2
    <3> QED
      BY <3>1, <3>2, WaitingFact
  <2> QED
    BY <1>2, <2>1, <2>2 DEF Kept
<1>7. CASE UNCHANGED <<files, arrived, mail, mingled, overwritten>>
  <2>1. \A m \in mail : Waiting(m.id)' = Waiting(m.id)
    BY <1>7 DEF Waiting
  <2> QED
    BY <1>2, <1>7, <2>1 DEF Kept
<1> QED
  BY <1>3, <1>4, <1>5, <1>6, <1>7, FileSteps

\* Every step leaves what it passes in a packet somewhere.
LEMMA HandledStep ==
    ASSUME Carbon # "move", TypeOK, PlaceInv, Handled, [Next]_vars
    PROVE  Handled'
<1> DEFINE Passed == Got(stored'[msg.id], placed'[msg.id]) \/ Holds(tkp', msg.id)
<1>1. ASSUME Working, damaged' = damaged, This' = This, pos' \in {pos, pos + 1},
             \A i : Holds(tkp, i) => Holds(tkp', i), pos' = pos + 1 => Passed
      PROVE  Handled'
  <2> SUFFICES ASSUME ~damaged, NEW k \in 1 .. Len(This.msgs), k < pos'
               PROVE  Done(This.msgs[k].id)' \/ Holds(tkp', This.msgs[k].id)
    BY <1>1 DEF Handled
  <2>1. This.msgs[k].id \in Ids /\ pos \in Nat /\ This.msgs[k].id' = This.msgs[k].id
    BY <1>1, ThisFact DEF Message, TypeOK, RunOK
  <2>2. CASE k < pos
    <3>1. Done(This.msgs[k].id) \/ Holds(tkp, This.msgs[k].id)
      BY <1>1, <2>2 DEF Handled
    <3> QED
      BY <1>1, <2>1, <3>1, DoneFact
  <2>3. CASE k = pos /\ pos' = pos + 1
    BY <1>1, <2>1, <2>3 DEF Done, msg
  <2> QED
    BY <1>1, <2>1, <2>2, <2>3
<1> HIDE DEF Passed
<1>2. ASSUME UNCHANGED <<files, damaged, cur, pos>>, Working' => Working PROVE Handled'
  <2>1. This' = This
    BY <1>2 DEF This
  <2>2. CASE Working
    BY <1>1, <1>2, <2>1, <2>2 DEF TypeOK, RunOK
  <2>3. CASE ~Working
    BY <1>2, <2>3 DEF Handled
  <2> QED
    BY <2>2, <2>3
<1>3. CASE UNCHANGED vars
  BY <1>2, <1>3 DEF vars, Working, Within
<1>4. ASSUME NEW from \in Senders, NEW n \in 1 .. MaxLen, NEW kinds \in [1 .. n -> Kinds],
             Arrive(from, kinds)
      PROVE  Handled'
  <2>1. UNCHANGED <<tkp, pkt, damaged, cur, pos, pc>>
    BY <1>4 DEF Arrive
  <2>2. \A k \in 1 .. MaxPackets : k # arrived + 1 => packets'[k] = packets[k]
    BY <1>4, ArriveFact DEF TypeOK, FilesOK
  <2>3. CASE Working
    <3>1. This' = This
      BY <2>1, <2>2, <2>3, SameThis
    <3> QED
      BY <1>1, <2>1, <2>3, <3>1 DEF TypeOK, RunOK
  <2>4. CASE ~Working
    BY <2>1, <2>4 DEF Handled, Working, Within
  <2> QED
    BY <2>3, <2>4
<1>5. ASSUME NEW a \in Contended, Occupy(a) \/ Release(a) PROVE Handled'
  BY <1>2, <1>5 DEF Occupy, Release, Working, Within
<1>6. CASE Start \/ Crash
  BY <1>6 DEF Handled, Start, Crash, Working, Within
<1>7. CASE Cycle \/ EndCycle \/ EndPacket
  BY <1>7 DEF Handled, Cycle, EndCycle, EndPacket, Working, Within
<1>8. ASSUME NEW n \in 0 .. MaxPackets, Pick(n) PROVE Handled'
  BY <1>8 DEF Handled, Pick
<1>9. CASE Damage
  BY <1>9 DEF Handled, Damage
<1>10. CASE Netmail
  <2>1. /\ UNCHANGED <<files, damaged, cur>> /\ pos' = pos + 1 /\ pc = "packet"
        /\ placed' = [placed EXCEPT ![msg.id] = @ \cup {"net"}]
    BY <1>10 DEF Netmail, AtMessage
  <2>2. msg.id \in Ids
    BY <1>10, MsgFact DEF Netmail, AtMessage, Working
  <2>3. Passed
    BY <2>1, <2>2 DEF Passed, Got, TypeOK, FateOK
  <2> QED
    BY <1>1, <2>1, <2>3 DEF Working, This
<1>11. CASE SetArea \/ Fresh
  BY <1>2, <1>11 DEF SetArea, AtMessage, Fresh, Working, Within
<1>12. CASE Puts
  <2>1. /\ UNCHANGED <<packets, pkt, damaged, cur>> /\ pos' = pos + 1 /\ pc = "dispose"
    BY <1>12 DEF Puts, Dispose
  <2>2. msg.id \in Ids /\ This' = This
    BY <2>1, MsgFact DEF Working, Within, PlaceInv, AtWork, This
  <2>3. ASSUME NEW place \in {"gone", "bad", "dupe"}, PutTo(place)
        PROVE  Passed /\ \A i : Holds(tkp, i) => Holds(tkp', i)
    BY <2>2, <2>3 DEF Passed, Got, PutTo, TypeOK, FateOK
  <2>4. ASSUME Dispose, BackUp
        PROVE  Passed /\ \A i : Holds(tkp, i) => Holds(tkp', i)
    BY <2>4, SavedFact DEF Passed
  <2>5. Passed /\ \A i : Holds(tkp, i) => Holds(tkp', i)
    BY <1>12, <2>3, <2>4 DEF Puts
  <2> QED
    BY <1>1, <2>1, <2>2, <2>5 DEF Working, Within
<1>13. CASE Accept \/ Export
  BY <1>2, <1>13 DEF Accept, Export, Working, Within
<1>14. CASE Store
  <2>1. /\ UNCHANGED <<files, damaged, cur>> /\ pos' = pos + 1 /\ pc = "store"
        /\ stored' = [stored EXCEPT ![msg.id] = IF @ < 2 THEN @ + 1 ELSE 2]
    BY <1>14 DEF Store
  <2>2. msg.id \in Ids
    BY <2>1, MsgFact DEF Working, Within, PlaceInv, AtWork
  <2>3. Passed
    BY <2>1, <2>2 DEF Passed, Got, TypeOK, FateOK
  <2> QED
    BY <1>1, <2>1, <2>3 DEF Working, Within, This
<1> QED
  BY <1>3, <1>4, <1>5, <1>6, <1>7, <1>8, <1>9, <1>10, <1>11, <1>12, <1>13, <1>14, StepCases

-----------------------------------------------------------------------------
(* Highwater *)

\* Nobody else has the personal area: every step keeps what was searched right.
LEMMA SweepStep ==
    ASSUME Carbon = "none" \/ Pers \notin Contended, TypeOK, AreaInv, SweepInv, [Next]_vars
    PROVE  SweepInv'
<1> DEFINE Same == /\ UNCHANGED <<sweep, astray>>
                   /\ pc' = "store" => pc = "store" /\ UNCHANGED newarea
<1>1. Carbon = "none" \/ Pers \notin busy
  BY DEF TypeOK, WorldOK
<1>2. UNCHANGED vars \/ Crash => Same
  BY DEF vars, Crash
<1>3. \A from \in Senders, n \in 1 .. MaxLen : \A kinds \in [1 .. n -> Kinds] :
         Arrive(from, kinds) => Same
  BY DEF Arrive
<1>4. \A a \in Contended : Occupy(a) \/ Release(a) => Same
  BY DEF Occupy, Release
<1>5. Cycle => Same
  BY DEF Cycle
<1>6. EndCycle => Same
  BY DEF EndCycle
<1>7. EndPacket \/ (\E n \in 0 .. MaxPackets : Pick(n)) => Same
  BY DEF EndPacket, Pick
<1>8. Damage \/ SetArea => Same
  BY DEF Damage, SetArea, AtMessage
<1>9. Puts \/ Fresh => Same
  BY DEF Puts, Dispose, Fresh
<1>10. Same => SweepInv'
  BY DEF SweepInv
<1>11. Start => SweepInv'
  BY DEF Start, SweepInv
<1>12. Netmail => SweepInv'
  BY DEF Netmail, AtMessage, SweepInv
<1>13. Accept => SweepInv'
  BY <1>1 DEF Accept, SweepInv
<1>14. CASE Export
  <2>1. newarea \in Echo /\ tarea = newarea /\ newarea # Net /\ newarea # None
    BY <1>14, ParamFact DEF Export, AreaInv, Taken, TypeOK, AreasOK, Names
  <2>2. Entry = newarea
    BY <2>1 DEF Entry, SweepInv
  <2>3. \/ newarea \in scanned /\ UNCHANGED <<scanned, swept>>
        \/ scanned' = scanned \cup {newarea} /\ swept' = swept \cup {newarea}
    BY <1>14, <2>1, <2>2 DEF Export
  <2>4. UNCHANGED <<newarea, overrun, astray>>
    BY <1>14 DEF Export
  <2> QED
    BY <2>1, <2>3, <2>4 DEF SweepInv
<1>15. Store => SweepInv'
  BY DEF Store, SweepInv
<1> HIDE DEF Same, SweepInv
<1> QED
  BY <1>2, <1>3, <1>4, <1>5, <1>6, <1>7, <1>8, <1>9, <1>10, <1>11, <1>12, <1>13, <1>14, <1>15,
     StepCases

-----------------------------------------------------------------------------
(* Theorems *)

\* Nothing has happened yet.
LEMMA InitFact ==
    ASSUME Init
    PROVE  /\ TypeOK /\ PlaceInv /\ AreaInv /\ MailInv /\ FileInv /\ SentInv /\ OnceInv /\ PktInv
           /\ Kept /\ Handled /\ SweepInv
<1> USE DEF Init
<1>1. TypeOK
  <2>1. FilesOK /\ WorldOK /\ RunOK
    BY ParamFact DEF FilesOK, WorldOK, RunOK
  <2>2. FlagsOK /\ AreasOK /\ SweepOK
    BY DEF FlagsOK, AreasOK, SweepOK
  <2>3. FateOK /\ NotesOK
    BY ParamFact DEF FateOK, NotesOK
  <2> QED
    BY <2>1, <2>2, <2>3 DEF TypeOK
<1>2. PlaceInv /\ AreaInv
  BY DEF PlaceInv, Listed, AtWork, AreaInv, Taken, Listing, Working, Within
<1>3. \A f \in Slots, k \in Nat : ~Has(f, k)
  BY DEF Has, At, Slots
<1>4. MailInv /\ FileInv
  BY <1>3 DEF MailInv, FileInv
<1>5. SentInv /\ PktInv /\ Kept /\ Handled /\ SweepInv
  BY DEF SentInv, PktInv, Kept, Handled, SweepInv, Listing, Working, Within
<1>6. OnceInv
  <2>1. \A i \in Ids : stored[i] + Cardinality(Ends(placed[i])) <= 1
    BY FS_EmptySet DEF Ends
  <2> QED
    BY <1>3, <2>1 DEF OnceInv, Todo
<1> QED
  BY <1>1, <1>2, <1>4, <1>5, <1>6

\* What every configuration keeps.
Common == TypeOK /\ PlaceInv /\ AreaInv /\ MailInv /\ FileInv /\ SentInv /\ OnceInv /\ PktInv

LEMMA CommonHolds == Spec => []Common
<1>1. Init => Common
  BY InitFact DEF Common
<1>2. Common /\ [Next]_vars => Common'
  BY TypeStep, PlaceStep, AreaStep, MailStep, FileStep, SentStep, OnceStep, PktStep DEF Common
<1> QED
  BY <1>1, <1>2, PTL DEF Spec

\* Every variable of the tosser has its type.
THEOREM TossTypes == Spec => []TypeOK
<1>1. Common => TypeOK
  BY DEF Common
<1> QED
  BY <1>1, CommonHolds, PTL

\* "In case of this uncatched bug" never: whatever setarea remembered, and
\* netmail put into newarea, a message that is accepted is handled with the
\* record of its own area.
THEOREM AreaRight == Spec => []RightArea
<1>1. Common => RightArea
  BY DEF Common, AreaInv, Taken, RightArea
<1> QED
  BY <1>1, CommonHolds, PTL

\* One pass sends a message to every link but its sender's, and never back; only
\* a message saved behind one of another sender may miss one link.
THEOREM EveryLinkServed == Spec => []AllServed
<1>1. Common => AllServed
  BY DEF Common, SentInv, AllServed
<1> QED
  BY <1>1, CommonHolds, PTL

\* Saving messages in PtBackUp.Tkp and tossing them in a later cycle puts none
\* of them twice, however often it happens.
THEOREM PutOnce == Spec => []OnePlace
<1>1. ASSUME Common PROVE OnePlace
  <2> SUFFICES ASSUME kills = 0, NEW m \in mail
               PROVE  /\ stored[m.id] + Cardinality(Ends(placed[m.id])) <= 1
                      /\ Holds(tkp, m.id) => stored[m.id] = 0 /\ Ends(placed[m.id]) = {}
    BY DEF OnePlace, Ends
  <2>1. m.id \in Ids
    BY <1>1 DEF Common, TypeOK, FateOK, Message
  <2>2. stored[m.id] + Cardinality(Ends(placed[m.id])) <= 1
    BY <1>1, <2>1 DEF Common, OnceInv
  <2>3. ASSUME NEW k \in 1 .. Len(tkp.msgs), tkp # None, tkp.msgs[k].id = m.id
        PROVE  stored[m.id] = 0 /\ Ends(placed[m.id]) = {}
    <3>1. cur # -1 /\ -1 \in Slots /\ k \in Nat
      BY <1>1, ParamFact DEF Common, TypeOK, FilesOK, Packet, RunOK, Slots
    <3>2. Todo(-1, k) /\ At(-1) = tkp
      BY <2>3, <3>1 DEF Todo, Has, At
    <3> QED
      BY <1>1, <2>3, <3>1, <3>2 DEF Common, OnceInv
  <2> QED
    BY <2>2, <2>3 DEF Holds
<1> QED
  BY <1>1, CommonHolds, PTL

\* No message disappears, whichever bases are in use and however often it is
\* saved and tossed again: packets are only unlinked when all that was in them
\* has got somewhere or was saved.  (CarbonMove is left out: there one may.)
THEOREM NoMailLost == Carbon # "move" => (Spec => []NothingLost)
<1> SUFFICES ASSUME Carbon # "move" PROVE Spec => []NothingLost
  OBVIOUS
<1> DEFINE All == Common /\ Kept /\ Handled
<1>1. Init => All
  BY InitFact DEF Common
<1>2. All /\ [Next]_vars => All'
  <2> SUFFICES ASSUME All, [Next]_vars PROVE All'
    OBVIOUS
  <2>1. Common'
    BY TypeStep, PlaceStep, AreaStep, MailStep, FileStep, SentStep, OnceStep, PktStep DEF Common
  <2>2. Kept' /\ Handled'
    BY <2>1, KeptStep, HandledStep DEF Common
  <2> QED
    BY <2>1, <2>2
<1>3. All => NothingLost
  BY DEF Kept, Done, Got, NothingLost
<1> QED
  BY <1>1, <1>2, <1>3, PTL DEF Spec

\* One pass: no base gets a message, and a higher highwater, before what was
\* waiting in it is exported - if no other program uses the personal area.
THEOREM SweptFirst ==
    Carbon = "none" \/ Pers \notin Contended => (Spec => []SweptBeforeStore)
<1> SUFFICES ASSUME Carbon = "none" \/ Pers \notin Contended PROVE Spec => []SweptBeforeStore
  OBVIOUS
<1>1. Init => SweepInv
  BY InitFact
<1>2. Common /\ SweepInv /\ [Next]_vars => SweepInv'
  BY SweepStep DEF Common
<1>3. SweepInv => SweptBeforeStore
  BY DEF SweepInv, SweptBeforeStore
<1> QED
  BY <1>1, <1>2, <1>3, CommonHolds, PTL DEF Spec
==============================================================================
