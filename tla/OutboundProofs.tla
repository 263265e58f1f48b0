---------------------------- MODULE OutboundProofs ----------------------------
(***************************************************************************)
(* Proofs about Outbound, for any links, packets, slots and ways to send:  *)
(* no packet is lost, the mailer is told of every archive, none is added   *)
(* to while it is sent, and no name is used twice on a day.                *)
(***************************************************************************)
EXTENDS Outbound, FiniteSetTheorems, SequenceTheorems, WellFoundedInduction, TLAPS

Packing == pc \in {"flag", "pack", "unlink", "mark", "list", "done", "left", "stuck"}
Naming == pc \in {"unlink", "mark", "list"}
Full(n) == arch[n] # None /\ arch[n].has # {}
Way(n) == conf.method[n[1]]
Truncated(n) == Way(n) = "attach" \/ (Way(n) = "flow" /\ conf.trunc)

(* Where the run is: the packet it works on has a link, the archive it has *)
(* chosen is one of that link, the one killold chose is gone.              *)
AtWork ==
    /\ Packing => tpack.touched
    /\ Naming => name \in Names
    /\ pc = "edit" => name \in Names /\ arch[name] = None
    /\ pc # "rename" => temp = {}

(* A packet is in the list once, and was written for a link.               *)
Entries ==
    /\ \A i \in 1 .. Len(pkts) : pkts[i].touched => to[pkts[i].id] # None
    /\ \A i, j \in 1 .. Len(pkts) : pkts[i].id = pkts[j].id => i = j
    /\ \A p \in Packets : disk[p] # "none" => to[p] # None

(* While no flag is ignored, the run and the mailer do not meet.           *)
Apart ==
    /\ ~crossed =>
          /\ \A l \in session : flag[l] = "mailer"
          /\ pc = "pack" /\ ~busy => flag[target] = "own"
          /\ \A l \in Links : sending[l] # None =>
                arch[sending[l][1]] # None /\ arch[sending[l][1]].has = sending[l][2]
    /\ \A l \in Links : sending[l] # None => l \in session /\ sending[l][1][1] = l

(* A packet is on disk or safe: in an archive, sent or dropped by killold. *)
(* One whose file archiver is about to remove is safe.                     *)
Safe == Contents \cup delivered \cup expired
LossInv ==
    ~crossed =>
        /\ \A p \in Packets : to[p] # None => disk[p] # "none" \/ p \in Safe
        /\ pc = "unlink" => tpack.id \in Safe

(* The mailer is told of an archive that has mail in it, or will be.       *)
TellInv ==
    ~cut =>
        /\ \A n \in Names : Full(n) => n \in listed \cup temp \/ (Naming /\ name = n)
        /\ pc \in {"unlink", "mark"} /\ (method = "box" \/ (method = "attach" /\ ~make)) /\ Full(name)
              => name \in listed

(* An archive that was truncated is empty, one with mail was written on a  *)
(* day of its name.                                                        *)
Dated ==
    /\ \A n \in Names : arch[n] # None =>
          /\ arch[n].day <= day
          /\ arch[n].has = {} => Truncated(n)
          /\ arch[n].has # {} => n[2] = arch[n].day % Week
    /\ \A l \in Links : sending[l] # None => arch[sending[l][1]] = None \/ Full(sending[l][1])

(* The names of today that are taken.                                      *)
Marking(n) == pc \in {"unlink", "mark"} /\ name = n
UsedInv ==
    /\ \A n \in used : n[2] = day % Week
    /\ \A n \in used : Truncated(n) => arch[n] # None /\ arch[n].day = day
    /\ ~cut => \A n \in Names :
          (n \in used \/ (Full(n) /\ arch[n].day = day)) /\ Way(n) # "attach"
              => n \in marks \/ Marking(n)
    /\ Naming => name[1] = target /\ name[2] = day % Week

-----------------------------------------------------------------------------
(* Types. *)

USE DEF files, mailer, chosen, run, history

\* The parameters, one by one.
LEMMA ParamFact ==
    /\ None \notin Links /\ None \notin Names /\ None \notin File /\ None \notin Read
    /\ Methods \subseteq [Links -> {"box", "attach", "flow"}]
    /\ AddArcs \subseteq BOOLEAN /\ Truncs \subseteq BOOLEAN
    /\ Big \subseteq Packets
    /\ MaxPackets \in Nat /\ LastSlot \in Nat /\ MaxDay \in Nat /\ MaxFails \in Nat
    /\ Days \in Nat /\ ArcSize \in Nat /\ Week \in Nat \ {0}
BY OutboundAssumption DEF OutboundAssumption, Packets

\* The least of some numbers.
LEMMA LeastFact ==
    ASSUME NEW T, T \subseteq Nat, T # {}
    PROVE  Min(T) \in T /\ \A x \in T : Min(T) <= x
<1> DEFINE R == OpToRel(<, Nat)
<1>1. PICK m \in T : \A x \in T : ~(<<x, m>> \in R)
  BY NatLessThanWellFounded, WFMin
<1>2. R = {ss \in Nat \X Nat : ss[1] < ss[2]}
  BY Zenon DEF OpToRel
<1>3. \A x \in Nat : x < m => <<x, m>> \in R
  BY <1>2
<1>4. m \in T /\ m \in Nat
  OBVIOUS
<1> HIDE DEF R
<1>5. \A x \in T : m <= x
  <2>1. \A x \in T : ~(<<x, m>> \in R)
    BY <1>1
  <2>2. \A x \in T : x \in Nat /\ ~(x < m)
    BY <1>3, <2>1
  <2> QED
    BY <1>4, <2>2
<1> QED
  BY <1>5 DEF Min

\* Lowest is what its name says, or past the last slot.
LEMMA LowestFact ==
    ASSUME NEW T, T \subseteq Slot
    PROVE  /\ T = {} => Lowest(T) = LastSlot + 1
           /\ T # {} => Lowest(T) \in T /\ \A t \in T : Lowest(T) <= t
           /\ Lowest(T) \in 0 .. LastSlot + 1
<1>1. T \subseteq Nat
  BY ParamFact DEF Slot
<1>2. T # {} => Min(T) \in T /\ \A t \in T : Min(T) <= t
  BY <1>1, LeastFact
<1>3. T # {} => Lowest(T) \in T /\ \A t \in T : Lowest(T) <= t
  BY <1>2 DEF Lowest
<1>4. T = {} => Lowest(T) = LastSlot + 1
  BY DEF Lowest
<1>5. CASE T = {}
  BY <1>4, <1>5, ParamFact
<1>6. CASE T # {}
  <2>1. Lowest(T) \in Slot
    BY <1>3, <1>6
  <2> QED
    BY <1>3, <1>6, <2>1, ParamFact DEF Slot
<1> QED
  BY <1>5, <1>6

\* The name of a slot is a name, and that of the slot only.
LEMMA NamedFact ==
    ASSUME TypeOK, NEW l \in Links, NEW s \in Slot
    PROVE  /\ Named(l, s) \in Names
           /\ Named(l, s)[1] = l /\ Named(l, s)[2] = day % Week /\ Named(l, s)[3] = s
<1>1. day % Week \in 0 .. Week - 1
  BY ParamFact DEF TypeOK, ConfOK
<1> QED
  BY <1>1 DEF Named, Names

\* The packet at work, its link and the link's way.
LEMMA TargetFact ==
    ASSUME TypeOK, AtWork, Entries, Packing
    PROVE  /\ cur \in 1 .. Len(pkts) /\ tpack \in Entry /\ tpack.id \in Packets
           /\ target \in Links /\ method \in {"box", "attach", "flow"}
<1>1. cur \in 1 .. Len(pkts)
  BY DEF TypeOK, RunOK, Packing
<1>2. tpack \in Entry
  BY <1>1 DEF tpack, TypeOK, RunOK
<1>3. tpack.id \in Packets /\ to[tpack.id] # None
  BY <1>1, <1>2 DEF Entry, Entries, AtWork, tpack
<1>4. target \in Links
  BY <1>3 DEF target, TypeOK, FilesOK
<1>5. conf.method \in [Links -> {"box", "attach", "flow"}]
  BY ParamFact DEF TypeOK, ConfOK
<1> QED
  BY <1>1, <1>2, <1>3, <1>4, <1>5 DEF method

\* The slots tried are slots.
LEMMA FromFact ==
    ASSUME TypeOK, NEW l \in Links
    PROVE  FreeMark(l) \in Slot /\ From(l) \in Slot
<1> DEFINE T == {t \in Slot : ~Marked(l, t)}
<1>1. Lowest(T) \in 0 .. LastSlot + 1
  BY LowestFact
<1>2. FreeMark(l) = IF Lowest(T) > LastSlot THEN 0 ELSE Lowest(T)
  BY DEF FreeMark
<1> HIDE DEF T
<1>3. FreeMark(l) \in Slot
  BY <1>1, <1>2, ParamFact DEF Slot
<1> QED
  BY <1>3, ParamFact DEF From, Slot

LEMMA ChosenFact ==
    ASSUME TypeOK, AtWork, Entries, pc = "pack", ChosenSlot(target) <= LastSlot
    PROVE  ChosenSlot(target) \in Slot
<1>1. target \in Links /\ method \in {"box", "attach", "flow"}
  BY TargetFact DEF Packing
<1>2. From(target) \in Slot
  BY <1>1, FromFact
<1>3. CASE method = "box"
  <2> DEFINE T == {t \in From(target) .. LastSlot : t = LastSlot \/ ~BoxPass(target, t)}
  <2>1. T \subseteq Slot
    BY <1>2, ParamFact DEF Slot
  <2>2. BoxSlot(target) \in {Lowest(T), LastSlot + 1}
    BY DEF BoxSlot
  <2>3. Lowest(T) \in 0 .. LastSlot + 1
    BY <2>1, LowestFact
  <2> HIDE DEF T
  <2> QED
    BY <1>3, <2>2, <2>3, ParamFact DEF ChosenSlot, Slot
<1>4. CASE method = "attach"
  <2>1. AttachOpen(target) \subseteq Slot
    BY DEF AttachOpen
  <2>2. AttachSlot(target) \in {Lowest(AttachOpen(target)), 0, LastSlot}
    BY DEF AttachSlot
  <2>3. Lowest(AttachOpen(target)) \in 0 .. LastSlot + 1
    BY <2>1, LowestFact
  <2> QED
    BY <1>4, <2>2, <2>3, ParamFact DEF ChosenSlot, Slot
<1>5. CASE method = "flow"
  <2> DEFINE T == {t \in From(target) .. LastSlot : ~FlowPass(target, t)}
  <2>1. T \subseteq Slot
    BY <1>2, ParamFact DEF Slot
  <2>2. FlowSlot(target) \in {Lowest(T), Lowest(T) + 1}
    BY DEF FlowSlot
  <2>3. Lowest(T) \in 0 .. LastSlot + 1
    BY <2>1, LowestFact
  <2> HIDE DEF T
  <2> QED
    BY <1>5, <2>2, <2>3, ParamFact DEF ChosenSlot, Slot
<1> QED
  BY <1>1, <1>3, <1>4, <1>5

\* What archiver does.
LEMMA PackFact ==
    ASSUME TypeOK, AtWork, Entries, Pack
    PROVE  \E s \in Slot :
              /\ s = ChosenSlot(target) /\ name' = Named(target, s)
              /\ name' \in Names /\ name'[1] = target /\ name'[2] = day % Week
              /\ arch' = [arch EXCEPT ![name'] =
                    [has |-> (IF arch[name'] = None THEN {} ELSE arch[name'].has) \cup {tpack.id},
                     day |-> day]]
              /\ listed' = IF method = "box" THEN listed \cup {name'} ELSE listed
<1> DEFINE s == ChosenSlot(target)
<1>1. s \in Slot /\ target \in Links
  BY ChosenFact, TargetFact DEF Pack, Packing
<1>2. name' = Named(target, s)
  BY DEF Pack
<1>3. name' \in Names /\ name'[1] = target /\ name'[2] = day % Week
  BY <1>1, <1>2, NamedFact
<1>4. /\ arch' = [arch EXCEPT ![name'] =
             [has |-> (IF arch[name'] = None THEN {} ELSE arch[name'].has) \cup {tpack.id},
              day |-> day]]
      /\ listed' = IF method = "box" THEN listed \cup {name'} ELSE listed
  BY <1>2 DEF Pack
<1> QED
  BY <1>1, <1>2, <1>3, <1>4

\* The packets taken up are those on disk, each once.
LEMMA BeginFact ==
    ASSUME TypeOK, Begin
    PROVE  /\ pkts' \in Seq(Entry)
           /\ \A i \in 1 .. Len(pkts') : disk[pkts'[i].id] # "none"
           /\ \A i, j \in 1 .. Len(pkts') : pkts'[i].id = pkts'[j].id => i = j
<1> DEFINE P == {p \in Packets : disk[p] # "none"}
           N == Cardinality(P)
<1>1. PICK s \in SetToSeqs(P) :
         pkts' = [i \in DOMAIN s |-> [id |-> s[i], touched |-> TRUE,
                                      filled |-> s[i] \in Big, sent |-> FALSE]]
  BY DEF Begin
<1>2. s \in [1 .. N -> P] /\ \A i, j \in 1 .. N : i # j => s[i] # s[j]
  BY Zenon DEF SetToSeqs
<1>3. N \in Nat
  <2>1. IsFiniteSet(Packets)
    BY ParamFact, FS_Interval DEF Packets
  <2>2. IsFiniteSet(P)
    BY <2>1, FS_Subset
  <2> QED
    BY <2>2, FS_CardinalityType
<1>4. P \subseteq Packets /\ \A p \in P : disk[p] # "none"
  OBVIOUS
<1> HIDE DEF P, N
<1>5. pkts' = [i \in 1 .. N |-> [id |-> s[i], touched |-> TRUE,
                                  filled |-> s[i] \in Big, sent |-> FALSE]]
  BY <1>1, <1>2
<1>6. \A i \in 1 .. N : pkts'[i].id = s[i] /\ pkts'[i] \in Entry
  BY <1>2, <1>4, <1>5 DEF Entry
<1>7. pkts' \in Seq(Entry) /\ Len(pkts') = N
  BY <1>3, <1>5, <1>6
<1> QED
  BY <1>2, <1>4, <1>6, <1>7

\* A packet of the run more.
LEMMA TossFact ==
    ASSUME TypeOK, NEW p \in Packets, NEW l \in Links, NEW touched \in BOOLEAN,
           Toss(p, l, touched)
    PROVE  /\ pkts' \in Seq(Entry) /\ Len(pkts') = Len(pkts) + 1
           /\ \A i \in 1 .. Len(pkts) : pkts'[i] = pkts[i] /\ pkts[i].id # p
           /\ pkts'[Len(pkts) + 1].id = p
<1> DEFINE e == [id |-> p, touched |-> touched, filled |-> touched /\ p \in Big, sent |-> FALSE]
<1>1. e \in Entry /\ e.id = p
  BY DEF Entry
<1>2. pkts' = Append(pkts, e) /\ \A i \in DOMAIN pkts : pkts[i].id # p
  BY DEF Toss
<1> HIDE DEF e
<1> QED
  BY <1>1, <1>2 DEF TypeOK, RunOK

\* A packet is marked as sent.
LEMMA NextPackFact ==
    ASSUME TypeOK, NextPack
    PROVE  /\ pkts' \in Seq(Entry) /\ Len(pkts') = Len(pkts) /\ cur \in 1 .. Len(pkts)
           /\ \A i \in 1 .. Len(pkts) : pkts'[i].id = pkts[i].id /\ pkts'[i].touched = pkts[i].touched
<1>1. cur \in 1 .. Len(pkts) /\ pkts \in Seq(Entry)
  BY DEF NextPack, TypeOK, RunOK
<1>2. pkts' = [pkts EXCEPT ![cur] = [@ EXCEPT !.sent = (pc = "done")]]
  BY DEF NextPack
<1>3. pkts[cur] \in Entry
  BY <1>1
<1>4. [pkts[cur] EXCEPT !.sent = (pc = "done")] \in Entry
  BY <1>3 DEF Entry
<1> QED
  BY <1>1, <1>2, <1>3, <1>4 DEF Entry

\* The steps.
LEMMA StepCases ==
    ASSUME [Next]_vars
    PROVE  \/ UNCHANGED vars
           \/ Begin \/ End
           \/ \E p \in Packets, l \in Links, touched \in BOOLEAN : Toss(p, l, touched)
           \/ \E t \in {0, 1} : MakeAttach(t)
           \/ Skip \/ CheckFlag \/ MakeFlag \/ Wait \/ Hang \/ Pack \/ PackFails \/ Unlink
           \/ Mark \/ Message \/ List \/ NextPack \/ Attached
           \/ \E n \in Names : Kill(n)
           \/ Edit \/ Rename \/ Killed \/ Errexit
           \/ \E l \in Links : Call(l) \/ Sent(l) \/ HangUp(l) \/ Clear(l)
           \/ \E n \in Names : Send(n)
           \/ Midnight
BY Zenon DEF Next, Makeattach, Mailer

\* The archive after the packet was added to it.
LEMMA PutFact ==
    ASSUME TypeOK, AtWork, Entries, Pack
    PROVE  /\ name' \in Names /\ name'[1] = target /\ name'[2] = day % Week
           /\ arch'[name'] \in File /\ arch'[name'] # None /\ arch'[name'].day = day
           /\ tpack.id \in arch'[name'].has
           /\ arch[name'] # None => arch[name'].has \subseteq arch'[name'].has
           /\ \A n \in Names : n # name' => arch'[n] = arch[n]
<1> DEFINE old == IF arch[name'] = None THEN {} ELSE arch[name'].has
           new == [has |-> old \cup {tpack.id}, day |-> day]
<1>1. /\ name' \in Names /\ name'[1] = target /\ name'[2] = day % Week
      /\ arch' = [arch EXCEPT ![name'] = new]
  BY PackFact
<1>2. arch \in [Names -> File \cup {None}] /\ tpack.id \in Packets /\ day \in 0 .. MaxDay
  BY TargetFact DEF Pack, Packing, TypeOK, FilesOK, ConfOK
<1>3. old \subseteq Packets
  BY <1>1, <1>2 DEF File
<1>4. arch[name'] # None => arch[name'].has = old
  OBVIOUS
<1> HIDE DEF old
<1>5. new \in File /\ new.has = old \cup {tpack.id} /\ new.day = day
  BY <1>2, <1>3 DEF File
<1> HIDE DEF new
<1>6. arch'[name'] = new /\ \A n \in Names : n # name' => arch'[n] = arch[n]
  BY <1>1, <1>2
<1> QED
  BY <1>1, <1>4, <1>5, <1>6, ParamFact

\* Every step keeps the types.
LEMMA TypeStep ==
    ASSUME TypeOK, AtWork, Entries, [Next]_vars
    PROVE  TypeOK'
<1> USE DEF TypeOK
<1>1. CASE UNCHANGED vars
  BY <1>1 DEF vars, ConfOK, FilesOK, MailerOK, RunOK, HistOK
<1>2. CASE Begin
  <2>1. RunOK'
    <3>1. pkts' \in Seq(Entry)
      BY <1>2, BeginFact
    <3>2. cur' = 1 /\ 1 \in 1 .. Len(pkts') + 1
      BY <1>2, <3>1 DEF Begin
    <3> QED
      BY <1>2, <3>1, <3>2 DEF Begin, RunOK
  <2> QED
    BY <1>2, <2>1 DEF Begin, ConfOK, FilesOK, MailerOK, HistOK
<1>3. CASE End
  <2>1. RunOK'
    BY <1>3 DEF End, RunOK
  <2> QED
    BY <1>3, <2>1 DEF End, ConfOK, FilesOK, MailerOK, HistOK
<1>4. ASSUME NEW p \in Packets, NEW l \in Links, NEW touched \in BOOLEAN, Toss(p, l, touched)
      PROVE  TypeOK'
  <2>1. RunOK'
    <3>1. pkts' \in Seq(Entry) /\ Len(pkts') = Len(pkts) + 1
      BY <1>4, TossFact
    <3>2. cur' \in 1 .. Len(pkts') + 1
      BY <1>4, <3>1 DEF Toss, RunOK
    <3> QED
      BY <1>4, <3>1, <3>2 DEF Toss, RunOK
  <2>2. FilesOK'
    BY <1>4 DEF Toss, FilesOK
  <2> QED
    BY <1>4, <2>1, <2>2 DEF Toss, ConfOK, MailerOK, HistOK
<1>5. ASSUME NEW t \in {0, 1}, MakeAttach(t) PROVE TypeOK'
  <2>1. FilesOK'
    BY <1>5 DEF MakeAttach, FilesOK
  <2>2. RunOK'
    BY <1>5 DEF MakeAttach, RunOK
  <2> QED
    BY <1>5, <2>1, <2>2 DEF MakeAttach, ConfOK, MailerOK, HistOK
<1>6. CASE Skip
  <2>1. FilesOK'
    BY <1>6, ParamFact DEF Skip, FilesOK
  <2>2. flag' \in [Links -> {"none", "own", "mailer"}]
    BY <1>6 DEF Skip, RemoveFlag, MailerOK
  <2>3. RunOK'
    BY <1>6 DEF Skip, RunOK
  <2>4. HistOK'
    <3>1. crossed' \in BOOLEAN
      BY <1>6 DEF Skip, RemoveFlag, MailersFlag
    <3> QED
      BY <1>6, <3>1 DEF Skip, HistOK
  <2> QED
    BY <1>6, <2>1, <2>2, <2>3, <2>4 DEF Skip, ConfOK, MailerOK
<1>7. CASE CheckFlag
  <2>1. RunOK'
    <3>1. busy' \in BOOLEAN /\ pc' \in {"pack", "flag"} /\ cur <= Len(pkts)
      BY <1>7 DEF CheckFlag, Taken
    <3> QED
      BY <1>7, <3>1 DEF CheckFlag, RunOK
  <2> QED
    BY <1>7, <2>1 DEF CheckFlag, ConfOK, FilesOK, MailerOK, HistOK
<1>8. CASE MakeFlag
  <2>0. target \in Links
    BY <1>8, TargetFact DEF MakeFlag, Packing
  <2>1. RunOK'
    BY <1>8, <2>0 DEF MakeFlag, RunOK
  <2>2. MailerOK'
    BY <1>8, <2>0 DEF MakeFlag, MailerOK
  <2>3. HistOK'
    <3>1. crossed' \in BOOLEAN
      BY <1>8 DEF MakeFlag, HistOK
    <3> QED
      BY <1>8, <3>1 DEF MakeFlag, HistOK
  <2> QED
    BY <1>8, <2>1, <2>2, <2>3 DEF MakeFlag, ConfOK, FilesOK
<1>9. CASE Wait
  <2>1. FilesOK'
    BY <1>9 DEF Wait, FilesOK
  <2>2. RunOK'
    BY <1>9 DEF Wait, RunOK
  <2> QED
    BY <1>9, <2>1, <2>2 DEF Wait, ConfOK, MailerOK, HistOK
<1>10. CASE Hang
  <2>1. FilesOK'
    BY <1>10 DEF Hang, FilesOK
  <2>2. RunOK'
    BY <1>10 DEF Hang, RunOK
  <2> QED
    BY <1>10, <2>1, <2>2 DEF Hang, ConfOK, MailerOK, HistOK
<1>11. CASE Pack
  <2>1. name' \in Names /\ listed' \subseteq Names
    BY <1>11, PackFact DEF FilesOK
  <2>2. arch' \in [Names -> File \cup {None}]
    <3>1. arch'[name'] \in File /\ \A n \in Names : n # name' => arch'[n] = arch[n]
      BY <1>11, PutFact
    <3>2. DOMAIN arch' = Names /\ arch' = [n \in Names |-> arch'[n]]
      BY <1>11 DEF Pack, FilesOK
    <3>3. \A n \in Names : arch'[n] \in File \cup {None}
      BY <3>1 DEF FilesOK
    <3> QED
      BY <3>2, <3>3
  <2>3. FilesOK'
    BY <1>11, <2>1, <2>2 DEF Pack, FilesOK
  <2>4. make' \in BOOLEAN
    <3>1. AttachMake(target) \in BOOLEAN
      BY DEF AttachMake, Empty, There
    <3> QED
      BY <1>11, <3>1 DEF Pack
  <2>5. RunOK'
    BY <1>11, <2>1, <2>4 DEF Pack, RunOK
  <2>6. HistOK'
    <3>1. crossed' \in BOOLEAN
      BY <1>11 DEF Pack
    <3> QED
      BY <1>11, <3>1 DEF Pack, HistOK
  <2> QED
    BY <1>11, <2>3, <2>5, <2>6 DEF Pack, ConfOK, MailerOK
<1>12. CASE PackFails
  <2>1. FilesOK'
    BY <1>12 DEF PackFails, FilesOK
  <2>2. RunOK'
    BY <1>12 DEF PackFails, RunOK
  <2>3. HistOK'
    BY <1>12, ParamFact DEF PackFails, HistOK
  <2> QED
    BY <1>12, <2>1, <2>2, <2>3 DEF PackFails, ConfOK, MailerOK
<1>13. CASE Unlink
  <2>1. FilesOK'
    BY <1>13 DEF Unlink, FilesOK
  <2>2. RunOK'
    BY <1>13 DEF Unlink, RunOK
  <2> QED
    BY <1>13, <2>1, <2>2 DEF Unlink, ConfOK, MailerOK, HistOK
<1>14. ASSUME Mark \/ Message \/ List PROVE TypeOK'
  <2>1. name \in Names
    BY <1>14 DEF Mark, Message, List, AtWork, Naming
  <2>2. FilesOK'
    BY <1>14, <2>1 DEF Mark, Message, List, FilesOK
  <2>3. RunOK'
    BY <1>14 DEF Mark, Message, List, RunOK
  <2> QED
    BY <1>14, <2>2, <2>3 DEF Mark, Message, List, ConfOK, MailerOK, HistOK
<1>15. CASE NextPack
  <2>1. flag' \in [Links -> {"none", "own", "mailer"}]
    BY <1>15 DEF NextPack, RemoveFlag, MailerOK
  <2>2. RunOK'
    <3>1. pkts' \in Seq(Entry) /\ Len(pkts') = Len(pkts) /\ cur \in 1 .. Len(pkts)
      BY <1>15, NextPackFact
    <3>2. cur' \in 1 .. Len(pkts') + 1
      BY <1>15, <3>1 DEF NextPack
    <3> QED
      BY <1>15, <3>1, <3>2 DEF NextPack, Forget, RunOK
  <2>3. HistOK'
    <3>1. crossed' \in BOOLEAN
      BY <1>15 DEF NextPack, RemoveFlag, MailersFlag
    <3> QED
      BY <1>15, <3>1 DEF NextPack, HistOK
  <2> QED
    BY <1>15, <2>1, <2>2, <2>3 DEF NextPack, ConfOK, FilesOK, MailerOK
<1>16. CASE Attached
  <2>1. RunOK'
    BY <1>16 DEF Attached, RunOK
  <2> QED
    BY <1>16, <2>1 DEF Attached, ConfOK, FilesOK, MailerOK, HistOK
<1>17. ASSUME NEW n \in Names, Kill(n) PROVE TypeOK'
  <2>1. FilesOK'
    BY <1>17 DEF Kill, FilesOK
  <2>2. RunOK'
    BY <1>17 DEF Kill, RunOK
  <2>3. HistOK'
    <3>1. arch[n].has \subseteq Packets
      BY <1>17 DEF Kill, Old, FilesOK, File
    <3>2. crossed' \in BOOLEAN
      BY <1>17 DEF Kill
    <3> QED
      BY <1>17, <3>1, <3>2 DEF Kill, HistOK
  <2> QED
    BY <1>17, <2>1, <2>2, <2>3 DEF Kill, ConfOK, MailerOK
<1>18. CASE Edit
  <2>1. listed' \subseteq Names /\ temp' \subseteq Names /\ pc' \in {"idle", "rename"}
    BY <1>18 DEF Edit, FilesOK, RunOK
  <2>2. FilesOK'
    BY <1>18, <2>1 DEF Edit, FilesOK
  <2>3. RunOK'
    BY <1>18, <2>1 DEF Edit, Forget, RunOK
  <2> QED
    BY <1>18, <2>2, <2>3 DEF Edit, ConfOK, MailerOK, HistOK
<1>19. CASE Rename
  <2>1. FilesOK'
    BY <1>19 DEF Rename, FilesOK, RunOK
  <2>2. RunOK'
    BY <1>19 DEF Rename, RunOK
  <2> QED
    BY <1>19, <2>1, <2>2 DEF Rename, ConfOK, MailerOK, HistOK
<1>20. CASE Killed
  <2>1. RunOK'
    <3>1. pkts' \in Seq(Entry) /\ cur' \in 1 .. Len(pkts') + 1
      BY <1>20 DEF Killed, Stop
    <3>2. pc' = "idle" /\ type' = 0 /\ bsyname' = None /\ temp' = {}
      BY <1>20 DEF Killed, Stop
    <3>3. busy' = FALSE /\ make' = FALSE /\ name' = None
      BY <1>20 DEF Killed, Stop, Forget
    <3> QED
      BY <3>1, <3>2, <3>3 DEF RunOK
  <2>2. HistOK'
    BY <1>20, ParamFact DEF Killed, Stop, HistOK
  <2> QED
    BY <1>20, <2>1, <2>2 DEF Killed, ConfOK, FilesOK, MailerOK
<1>21. CASE Errexit
  <2>1. RunOK'
    <3>1. pkts' \in Seq(Entry) /\ cur' \in 1 .. Len(pkts') + 1
      BY <1>21 DEF Errexit, Stop
    <3>2. pc' = "idle" /\ type' = 0 /\ bsyname' = None /\ temp' = {}
      BY <1>21 DEF Errexit, Stop
    <3>3. busy' = FALSE /\ make' = FALSE /\ name' = None
      BY <1>21 DEF Errexit, Stop, Forget
    <3> QED
      BY <3>1, <3>2, <3>3 DEF RunOK
  <2>2. HistOK'
    <3>1. crossed' \in BOOLEAN
      BY <1>21 DEF Errexit, RemoveFlag, MailersFlag
    <3> QED
      BY <1>21, <3>1, ParamFact DEF Errexit, Stop, HistOK
  <2>3. flag' \in [Links -> {"none", "own", "mailer"}]
    BY <1>21 DEF Errexit, RemoveFlag, MailerOK
  <2> QED
    BY <1>21, <2>1, <2>2, <2>3 DEF Errexit, ConfOK, FilesOK, MailerOK
<1>22. ASSUME NEW l \in Links, Call(l) \/ HangUp(l) \/ Clear(l) PROVE TypeOK'
  <2>1. MailerOK'
    BY <1>22 DEF Call, HangUp, Clear, MailerOK
  <2>2. RunOK'
    BY <1>22 DEF Call, HangUp, Clear, RunOK
  <2> QED
    BY <1>22, <2>1, <2>2 DEF Call, HangUp, Clear, ConfOK, FilesOK, HistOK
<1>23. ASSUME NEW l \in Links, Sent(l) PROVE TypeOK'
  <2>1. sending[l] \in Read
    BY <1>23 DEF Sent, MailerOK
  <2>2. sending[l][1] \in Names /\ sending[l][2] \subseteq Packets
    BY <2>1 DEF Read
  <2>3. [has |-> {}, day |-> day] \in File
    BY DEF File, ConfOK
  <2>4. FilesOK'
    BY <1>23, <2>2, <2>3 DEF Sent, FilesOK
  <2>5. MailerOK'
    BY <1>23 DEF Sent, MailerOK
  <2>6. HistOK'
    BY <1>23, <2>2 DEF Sent, HistOK
  <2>7. RunOK'
    BY <1>23 DEF Sent, RunOK
  <2> QED
    BY <1>23, <2>4, <2>5, <2>6, <2>7 DEF Sent, ConfOK
<1>24. ASSUME NEW n \in Names, Send(n) PROVE TypeOK'
  <2>1. arch[n].has \subseteq Packets
    BY <1>24 DEF Send, FilesOK, File
  <2>2. <<n, arch[n].has>> \in Read
    BY <2>1 DEF Read
  <2>3. MailerOK'
    BY <1>24, <2>2 DEF Send, MailerOK
  <2>4. RunOK'
    BY <1>24 DEF Send, RunOK
  <2> QED
    BY <1>24, <2>3, <2>4 DEF Send, ConfOK, FilesOK, HistOK
<1>25. CASE Midnight
  <2>1. ConfOK'
    BY <1>25, ParamFact DEF Midnight, ConfOK
  <2>2. RunOK'
    BY <1>25 DEF Midnight, RunOK
  <2> QED
    BY <1>25, <2>1, <2>2 DEF Midnight, FilesOK, MailerOK, HistOK
<1> HIDE DEF TypeOK
<1> QED
  BY <1>1, <1>2, <1>3, <1>4, <1>5, <1>6, <1>7, <1>8, <1>9, <1>10, <1>11, <1>12, <1>13,
     <1>14, <1>15, <1>16, <1>17, <1>18, <1>19, <1>20, <1>21, <1>22, <1>23, <1>24, <1>25,
     StepCases

-----------------------------------------------------------------------------
(* Where the run is, and its list of packets. *)

LEMMA AtWorkStep ==
    ASSUME TypeOK, AtWork, Entries, [Next]_vars
    PROVE  AtWork'
<1> DEFINE Same == /\ UNCHANGED <<pc, pkts, cur, name, temp>>
                   /\ pc = "edit" => arch'[name] = None
           Idle == /\ pc' \in {"idle", "run", "next", "rename"}
                   /\ pc' # "rename" => temp' = {}
           On == /\ UNCHANGED <<pkts, cur, temp>> /\ temp = {} /\ pc' # "edit"
                 /\ tpack.touched
                 /\ pc' \in {"unlink", "mark", "list"} => name' \in Names
<1>1. Same => AtWork'
  BY DEF AtWork, Packing, Naming, tpack
<1>2. Idle => AtWork'
  BY DEF AtWork, Packing, Naming
<1>3. On => AtWork'
  BY DEF AtWork, Packing, Naming, tpack
<1>4. UNCHANGED vars => Same
  BY DEF vars, AtWork
<1>5. Begin \/ End \/ Skip \/ NextPack \/ Attached \/ Rename \/ Midnight => Idle
  BY DEF Begin, End, Skip, NextPack, Attached, Rename, Midnight, AtWork
<1>6. ASSUME NEW p \in Packets, NEW l \in Links, NEW touched \in BOOLEAN, Toss(p, l, touched)
      PROVE  Idle
  BY <1>6 DEF Toss, AtWork
<1>7. ASSUME NEW t \in {0, 1}, MakeAttach(t) PROVE Idle
  BY <1>7 DEF MakeAttach, AtWork
<1>8. Killed \/ Errexit => Idle
  BY DEF Killed, Errexit, Stop
<1>9. Edit => Idle
  BY DEF Edit, AtWork
<1>10. CheckFlag => On
  BY DEF CheckFlag, AtWork
<1>11. MakeFlag \/ Wait \/ Hang \/ PackFails \/ Unlink \/ Mark \/ Message \/ List => On
  BY DEF MakeFlag, Wait, Hang, PackFails, Unlink, Mark, Message, List, AtWork, Packing, Naming
<1>12. Pack => On
  <2> SUFFICES ASSUME Pack PROVE On
    OBVIOUS
  <2>1. name' \in Names
    BY PackFact
  <2> QED
    BY <2>1 DEF Pack, AtWork, Packing
<1>13. ASSUME NEW n \in Names, Kill(n) PROVE AtWork'
  <2>1. name' = n /\ pc' = "edit" /\ temp' = temp /\ temp = {} /\ arch' = [arch EXCEPT ![n] = None]
    BY <1>13 DEF Kill, AtWork
  <2>2. arch'[n] = None
    BY <2>1 DEF TypeOK, FilesOK
  <2> QED
    BY <2>1, <2>2 DEF AtWork, Packing, Naming
<1>14. ASSUME NEW l \in Links, Call(l) \/ HangUp(l) \/ Clear(l) PROVE Same
  BY <1>14 DEF Call, HangUp, Clear, AtWork
<1>15. ASSUME NEW l \in Links, Sent(l) PROVE Same
  <2>1. pc = "edit" => arch'[name] = None
    BY <1>15 DEF Sent, AtWork, TypeOK, FilesOK
  <2> QED
    BY <1>15, <2>1 DEF Sent
<1>16. ASSUME NEW n \in Names, Send(n) PROVE Same
  BY <1>16 DEF Send, AtWork
<1> HIDE DEF Same, Idle, On
<1> QED
  BY <1>1, <1>2, <1>3, <1>4, <1>5, <1>6, <1>7, <1>8, <1>9, <1>10, <1>11, <1>12, <1>13,
     <1>14, <1>15, <1>16, StepCases

LEMMA EntriesStep ==
    ASSUME TypeOK, AtWork, Entries, [Next]_vars
    PROVE  Entries'
<1> DEFINE Same == /\ UNCHANGED <<pkts, to>>
                   /\ \A p \in Packets : disk'[p] # "none" => disk[p] # "none"
           Gone == UNCHANGED <<disk, to>> /\ pkts' = <<>>
<1>1. Same => Entries'
  BY DEF Entries
<1>2. Gone => Entries'
  BY DEF Entries
<1>0. /\ disk \in [Packets -> {"none", "out", "pkt"}] /\ pkts \in Seq(Entry)
      /\ to \in [Packets -> Links \cup {None}]
  BY DEF TypeOK, FilesOK, RunOK
<1>3. \A i \in 1 .. Len(pkts) : pkts[i] \in Entry /\ pkts[i].id \in Packets
  <2>1. \A i \in 1 .. Len(pkts) : pkts[i] \in Entry
    BY <1>0
  <2> QED
    BY <2>1 DEF Entry
<1>4. UNCHANGED vars => Same
  BY DEF vars
<1>5. CASE Begin
  <2>1. /\ pkts' \in Seq(Entry)
        /\ \A i \in 1 .. Len(pkts') : disk[pkts'[i].id] # "none"
        /\ \A i, j \in 1 .. Len(pkts') : pkts'[i].id = pkts'[j].id => i = j
    BY <1>5, BeginFact
  <2>2. \A i \in 1 .. Len(pkts') : pkts'[i].id \in Packets
    <3>1. \A i \in 1 .. Len(pkts') : pkts'[i] \in Entry
      BY <2>1
    <3> QED
      BY <3>1 DEF Entry
  <2>3. UNCHANGED <<disk, to>>
    BY <1>5 DEF Begin
  <2> QED
    BY <2>1, <2>2, <2>3 DEF Entries
<1>6. End \/ Killed => Gone
  BY DEF End, Killed, Stop
<1>7. Errexit => Gone
  BY DEF Errexit, Stop
<1>8. ASSUME NEW p \in Packets, NEW l \in Links, NEW touched \in BOOLEAN, Toss(p, l, touched)
      PROVE  Entries'
  <2>1. /\ pkts' \in Seq(Entry) /\ Len(pkts') = Len(pkts) + 1
        /\ \A i \in 1 .. Len(pkts) : pkts'[i] = pkts[i] /\ pkts[i].id # p
        /\ pkts'[Len(pkts) + 1].id = p
    BY <1>8, TossFact
  <2>2. to' = [to EXCEPT ![p] = l] /\ disk' = [disk EXCEPT ![p] = "out"] /\ l # None
    BY <1>8, ParamFact DEF Toss
  <2>3. to'[p] # None /\ \A q \in Packets : to[q] # None => to'[q] # None
    BY <1>0, <2>2
  <2>4. \A q \in Packets : disk'[q] # "none" => to'[q] # None
    BY <1>0, <2>2, <2>3 DEF Entries
  <2>5. \A i \in 1 .. Len(pkts') : i = Len(pkts) + 1 \/ i \in 1 .. Len(pkts)
    BY <1>0, <2>1
  <2>6. \A i \in 1 .. Len(pkts') : pkts'[i].touched => to'[pkts'[i].id] # None
    BY <1>3, <2>1, <2>3, <2>5 DEF Entries
  <2>7. \A i, j \in 1 .. Len(pkts') : pkts'[i].id = pkts'[j].id => i = j
    BY <2>1, <2>5 DEF Entries
  <2> QED
    BY <2>4, <2>6, <2>7 DEF Entries
<1>9. ASSUME NEW t \in {0, 1}, MakeAttach(t) PROVE Same
  BY <1>9 DEF MakeAttach
<1>10. CASE Skip
  <2>1. CASE ~Taken
    BY <1>1, <1>10, <2>1 DEF Skip
  <2>2. CASE Taken
    <3>1. cur \in 1 .. Len(pkts) /\ ~tpack.touched
      BY <1>10, <2>2 DEF Skip, TypeOK, RunOK
    <3>2. tpack = pkts[cur] /\ tpack.id \in Packets
      BY <1>3, <3>1 DEF tpack
    <3>3. /\ disk' = [disk EXCEPT ![tpack.id] = "none"] /\ to' = [to EXCEPT ![tpack.id] = None]
          /\ pkts' = pkts
      BY <1>10, <2>2 DEF Skip
    <3>4. \A p \in Packets : disk'[p] # "none" => to'[p] # None
      BY <1>0, <3>2, <3>3 DEF Entries
    <3>5. ASSUME NEW i \in 1 .. Len(pkts), pkts[i].touched PROVE to'[pkts[i].id] # None
      <4>1. i # cur
        BY <3>1, <3>2, <3>5
      <4>2. pkts[i].id # tpack.id
        BY <3>1, <3>2, <4>1 DEF Entries
      <4> QED
        BY <1>0, <1>3, <3>3, <3>5, <4>2 DEF Entries
    <3> QED
      BY <3>3, <3>4, <3>5 DEF Entries
  <2> QED
    BY <2>1, <2>2
<1>11. CheckFlag \/ MakeFlag \/ Mark \/ Message \/ List \/ Attached => Same
  BY DEF CheckFlag, MakeFlag, Mark, Message, List, Attached
<1>12. Unlink => Same
  BY <1>0 DEF Unlink
<1>13. ASSUME Wait \/ Hang \/ Pack \/ PackFails PROVE Entries'
  <2>1. pkts' = pkts /\ to' = to /\ Packing
    BY <1>13 DEF Wait, Hang, Pack, PackFails, Packing
  <2>2. tpack.id \in Packets /\ to[tpack.id] # None
    BY <2>1, TargetFact, ParamFact DEF target
  <2>3. disk' \in {[disk EXCEPT ![tpack.id] = "out"], [disk EXCEPT ![tpack.id] = "pkt"]}
    BY <1>13 DEF Wait, Hang, Pack, PackFails
  <2>4. \A p \in Packets : disk'[p] # "none" => disk[p] # "none" \/ p = tpack.id
    BY <1>0, <2>2, <2>3
  <2> QED
    BY <2>1, <2>2, <2>4 DEF Entries
<1>14. CASE NextPack
  <2>1. /\ Len(pkts') = Len(pkts)
        /\ \A i \in 1 .. Len(pkts) : pkts'[i].id = pkts[i].id /\ pkts'[i].touched = pkts[i].touched
    BY <1>14, NextPackFact
  <2>2. UNCHANGED <<disk, to>>
    BY <1>14 DEF NextPack
  <2> QED
    BY <2>1, <2>2 DEF Entries
<1>15. ASSUME NEW n \in Names, Kill(n) \/ Send(n) PROVE Same
  BY <1>15 DEF Kill, Send
<1>16. Edit \/ Rename \/ Midnight => Same
  BY DEF Edit, Rename, Midnight
<1>17. ASSUME NEW l \in Links, Call(l) \/ HangUp(l) \/ Clear(l) \/ Sent(l) PROVE Same
  BY <1>17 DEF Call, HangUp, Clear, Sent
<1> HIDE DEF Same, Gone
<1> QED
  BY <1>1, <1>2, <1>4, <1>5, <1>6, <1>7, <1>8, <1>9, <1>10, <1>11, <1>12, <1>13,
     <1>14, <1>15, <1>16, <1>17, StepCases

-----------------------------------------------------------------------------
(* The run and the mailer. *)

LEMMA ApartStep ==
    ASSUME TypeOK, AtWork, Entries, Dated, Apart, [Next]_vars
    PROVE  Apart'
<1> DEFINE Quiet == UNCHANGED <<crossed, session, flag, sending, arch, pc, busy, pkts, cur, to>>
           Same == /\ UNCHANGED <<crossed, session, flag, sending>>
                   /\ pc' # "pack" \/ busy'
                   /\ \A l \in Links : sending[l] # None => arch'[sending[l][1]] = arch[sending[l][1]]
           Flagless == RemoveFlag /\ UNCHANGED <<session, sending, arch>> /\ pc' # "pack"
<1>0. /\ flag \in [Links -> {"none", "own", "mailer"}] /\ session \subseteq Links
      /\ sending \in [Links -> {None} \cup Read] /\ arch \in [Names -> File \cup {None}]
  BY DEF TypeOK, MailerOK, FilesOK
<1>1. Quiet => Apart'
  BY DEF Apart, target, tpack
<1>2. Same => Apart'
  BY DEF Apart
<1>3. Flagless => Apart'
  <2> SUFFICES ASSUME Flagless PROVE Apart'
    OBVIOUS
  <2>1. ~crossed' => ~crossed /\ ~MailersFlag
    BY DEF RemoveFlag
  <2>2. ASSUME ~crossed', NEW l \in session PROVE flag'[l] = "mailer"
    <3>1. flag[l] = "mailer" /\ l \in Links
      BY <1>0, <2>1, <2>2 DEF Apart
    <3>2. l # bsyname
      BY <2>1, <2>2, <3>1, ParamFact DEF MailersFlag
    <3> QED
      BY <3>1, <3>2 DEF RemoveFlag
  <2> QED
    BY <2>1, <2>2 DEF Apart
<1>4. UNCHANGED vars => Quiet
  BY DEF vars
<1>5. Begin \/ End \/ CheckFlag \/ Wait \/ Hang \/ PackFails \/ Unlink \/ Mark \/ Message
         \/ List \/ Attached \/ Edit \/ Rename \/ Midnight \/ Killed => Same
  BY DEF Begin, End, CheckFlag, Wait, Hang, PackFails, Unlink, Mark, Message, List, Attached,
         Edit, Rename, Midnight, Killed, Stop
<1>6. ASSUME NEW p \in Packets, NEW l \in Links, NEW touched \in BOOLEAN, Toss(p, l, touched)
      PROVE  Same
  BY <1>6 DEF Toss
<1>7. ASSUME NEW t \in {0, 1}, MakeAttach(t) PROVE Same
  <2>1. ASSUME NEW l \in Links, sending[l] # None
        PROVE  arch'[sending[l][1]] = arch[sending[l][1]]
    <3>1. sending[l][1] \in Names
      BY <1>0, <2>1 DEF Read
    <3>2. arch[sending[l][1]] = None \/ arch[sending[l][1]].has # {}
      BY <2>1 DEF Dated, Full
    <3> QED
      BY <1>7, <3>1, <3>2 DEF MakeAttach
  <2> QED
    BY <1>7, <2>1 DEF MakeAttach
<1>8. Skip \/ NextPack => Flagless
  BY DEF Skip, NextPack
<1>9. Errexit => Flagless
  BY DEF Errexit, Stop
<1>10. CASE MakeFlag
  <2>1. UNCHANGED <<session, sending, arch>> /\ target' = target
    BY <1>10 DEF MakeFlag, target, tpack
  <2>2. target \in Links
    BY <1>10, TargetFact DEF MakeFlag, Packing
  <2>3. CASE busy' = TRUE /\ UNCHANGED <<flag, crossed>>
    BY <2>1, <2>3 DEF Apart
  <2>4. CASE flag' = [flag EXCEPT ![target] = "own"] /\ crossed' = (crossed \/ flag[target] = "mailer")
    <3>1. flag'[target'] = "own"
      BY <1>0, <2>1, <2>2, <2>4
    <3>2. ~crossed' => ~crossed /\ flag[target] # "mailer"
      BY <2>4
    <3>3. ~crossed' => \A l \in session : flag'[l] = "mailer"
      BY <1>0, <2>2, <2>4, <3>2 DEF Apart
    <3> QED
      BY <2>1, <3>1, <3>2, <3>3 DEF Apart
  <2> QED
    BY <1>10, <2>3, <2>4 DEF MakeFlag
<1>11. CASE Pack
  <2>1. PICK s \in Slot :
          /\ s = ChosenSlot(target) /\ name' = Named(target, s)
          /\ name' \in Names /\ name'[1] = target
          /\ arch' = [arch EXCEPT ![name'] =
                [has |-> (IF arch[name'] = None THEN {} ELSE arch[name'].has) \cup {tpack.id},
                 day |-> day]]
    BY <1>11, PackFact
  <2>2. UNCHANGED <<session, flag, sending>> /\ pc' = "unlink" /\ pc = "pack"
    BY <1>11 DEF Pack
  <2>3. crossed' = (crossed \/ (busy /\ There(target, s)))
    BY <1>11, <2>1 DEF Pack
  <2>4. ASSUME ~crossed', NEW l \in Links, sending[l] # None
        PROVE  arch'[sending[l][1]] = arch[sending[l][1]]
    <3>1. sending[l][1] \in Names /\ sending[l][1][1] = l /\ l \in session
      BY <1>0, <2>4 DEF Read, Apart
    <3>2. ~crossed /\ arch[sending[l][1]] # None
      BY <2>3, <2>4 DEF Apart
    <3>3. sending[l][1] # name'
      <4>1. SUFFICES ASSUME sending[l][1] = name' PROVE FALSE
        OBVIOUS
      <4>2. There(target, s) /\ l = target
        BY <2>1, <3>1, <3>2, <4>1 DEF There
      <4>3. ~busy
        BY <2>3, <2>4, <4>2
      <4> QED
        BY <2>2, <3>1, <3>2, <4>2, <4>3 DEF Apart
    <3> QED
      BY <1>0, <2>1, <3>1, <3>3
  <2>5. ~crossed' => ~crossed
    BY <2>3
  <2> QED
    BY <2>2, <2>4, <2>5 DEF Apart
<1>12. ASSUME NEW n \in Names, Kill(n) PROVE Apart'
  <2>1. /\ UNCHANGED <<session, flag, sending>> /\ pc' = "edit"
        /\ arch' = [arch EXCEPT ![n] = None]
        /\ crossed' = (crossed \/ \E l \in Links : sending[l] # None /\ sending[l][1] = n)
    BY <1>12 DEF Kill
  <2>2. ASSUME ~crossed', NEW l \in Links, sending[l] # None
        PROVE  arch'[sending[l][1]] = arch[sending[l][1]]
    <3>1. sending[l][1] # n /\ sending[l][1] \in Names
      BY <1>0, <2>1, <2>2 DEF Read
    <3> QED
      BY <1>0, <2>1, <3>1
  <2>3. ~crossed' => ~crossed
    BY <2>1
  <2> QED
    BY <2>1, <2>2, <2>3 DEF Apart
<1>13. ASSUME NEW k \in Links, Call(k) \/ HangUp(k) \/ Clear(k) PROVE Apart'
  <2>1. UNCHANGED <<crossed, sending, arch, pc, busy, target>>
    BY <1>13 DEF Call, HangUp, Clear, target, tpack
  <2>2. \A l \in Links : sending[l] # None => l \in session'
    BY <1>13 DEF Call, HangUp, Clear, Apart
  <2>3. ASSUME ~crossed, NEW l \in session' PROVE flag'[l] = "mailer"
    BY <1>0, <1>13, <2>3 DEF Call, HangUp, Clear, Apart
  <2>4. ASSUME ~crossed, pc = "pack", ~busy PROVE flag'[target] = "own"
    <3>1. flag[target] = "own" /\ target \in Links
      BY <2>4, TargetFact DEF Packing, Apart
    <3> QED
      BY <1>0, <1>13, <2>4, <3>1 DEF Call, HangUp, Clear
  <2> QED
    BY <2>1, <2>2, <2>3, <2>4 DEF Apart
<1>14. ASSUME NEW k \in Links, Sent(k) PROVE Apart'
  <2>1. UNCHANGED <<crossed, session, flag, pc, busy, target>>
    BY <1>14 DEF Sent, target, tpack
  <2>2. sending' = [sending EXCEPT ![k] = None] /\ sending[k] # None
    BY <1>14 DEF Sent
  <2>3. \A n \in Names : n # sending[k][1] => arch'[n] = arch[n]
    BY <1>0, <1>14 DEF Sent
  <2>4. ASSUME NEW l \in Links, sending'[l] # None
        PROVE  sending'[l] = sending[l] /\ arch'[sending[l][1]] = arch[sending[l][1]]
    <3>1. l # k /\ sending'[l] = sending[l]
      BY <1>0, <2>2, <2>4
    <3>2. sending[l][1] \in Names /\ sending[l][1][1] = l /\ sending[k][1][1] = k
      BY <1>0, <2>2, <2>4, <3>1 DEF Read, Apart
    <3> QED
      BY <2>3, <3>1, <3>2
  <2> QED
    BY <2>1, <2>4 DEF Apart
<1>15. ASSUME NEW n \in Names, Send(n) PROVE Apart'
  <2>1. UNCHANGED <<crossed, session, flag, arch, pc, busy, target>>
    BY <1>15 DEF Send, target, tpack
  <2>2. /\ n[1] \in session /\ n[1] \in Links /\ arch[n] # None
        /\ sending' = [sending EXCEPT ![n[1]] = <<n, arch[n].has>>]
    BY <1>0, <1>15 DEF Send
  <2>3. \A l \in Links : sending'[l] = IF l = n[1] THEN <<n, arch[n].has>> ELSE sending[l]
    BY <1>0, <2>2
  <2> QED
    BY <2>1, <2>2, <2>3 DEF Apart
<1> HIDE DEF Quiet, Same, Flagless
<1> QED
  BY <1>1, <1>2, <1>3, <1>4, <1>5, <1>6, <1>7, <1>8, <1>9, <1>10, <1>11, <1>12, <1>13,
     <1>14, <1>15, StepCases

-----------------------------------------------------------------------------
(* What is in the archives. *)

\* The archive that was sent is deleted or truncated.
LEMMA SentFact ==
    ASSUME TypeOK, Apart, NEW k \in Links, Sent(k)
    PROVE  LET m == sending[k][1]
           IN  /\ sending[k] # None /\ m \in Names /\ m[1] = k
               /\ \A n \in Names : n # m => arch'[n] = arch[n]
               /\ arch'[m] = IF arch[m] # None /\ Truncated(m)
                             THEN [has |-> {}, day |-> day] ELSE None
               /\ arch'[m] = None \/ arch'[m].has = {}
<1> DEFINE m == sending[k][1]
<1>0. sending \in [Links -> {None} \cup Read] /\ arch \in [Names -> File \cup {None}]
  BY DEF TypeOK, MailerOK, FilesOK
<1>1. sending[k] # None /\ m \in Names /\ m[1] = k
  BY <1>0 DEF Sent, Read, Apart
<1>2. \A n \in Names : n # m => arch'[n] = arch[n]
  BY <1>0 DEF Sent
<1>3. arch'[m] = IF arch[m] # None /\ CASE conf.method[k] = "box" -> FALSE
                                        [] conf.method[k] = "attach" -> TRUE
                                        [] conf.method[k] = "flow" -> conf.trunc
                 THEN [has |-> {}, day |-> day] ELSE None
  BY <1>0, <1>1 DEF Sent
<1> HIDE DEF m
<1>4. arch'[m] = IF arch[m] # None /\ Truncated(m) THEN [has |-> {}, day |-> day] ELSE None
  <2>1. conf.method[k] \in {"box", "attach", "flow"}
    BY ParamFact DEF TypeOK, ConfOK
  <2>2. CASE conf.method[k] = "box"
    BY <1>1, <1>3, <2>2 DEF Truncated, Way
  <2>3. CASE conf.method[k] = "attach"
    BY <1>1, <1>3, <2>3 DEF Truncated, Way
  <2>4. CASE conf.method[k] = "flow"
    BY <1>1, <1>3, <2>4 DEF Truncated, Way
  <2> QED
    BY <2>1, <2>2, <2>3, <2>4
<1>5. arch'[m] = None \/ arch'[m].has = {}
  BY <1>4
<1> QED
  BY <1>1, <1>2, <1>4, <1>5 DEF m

LEMMA DatedStep ==
    ASSUME TypeOK, AtWork, Entries, Apart, Dated, [Next]_vars
    PROVE  Dated'
<1> DEFINE Fewer == /\ UNCHANGED <<conf, day, sending>>
                    /\ \A n \in Names : arch'[n] = None \/ arch'[n] = arch[n]
<1>0. /\ day \in Nat /\ sending \in [Links -> {None} \cup Read] /\ arch \in [Names -> File \cup {None}]
  BY DEF TypeOK, ConfOK, MailerOK, FilesOK
<1>a. \A l \in Links : sending[l] # None => sending[l][1] \in Names /\ sending[l][1][1] = l
  BY <1>0 DEF Read, Apart
<1>1. Fewer => Dated'
  BY <1>a DEF Dated, Full, Truncated, Way
<1>2. UNCHANGED vars => Fewer
  BY DEF vars
<1>3. Begin \/ End \/ Skip \/ CheckFlag \/ MakeFlag \/ Wait \/ Hang \/ PackFails \/ Unlink
         \/ Mark \/ Message \/ List \/ NextPack \/ Attached \/ Edit \/ Rename \/ Killed => Fewer
  BY DEF Begin, End, Skip, CheckFlag, MakeFlag, Wait, Hang, PackFails, Unlink, Mark, Message,
         List, NextPack, Attached, Edit, Rename, Killed
<1>4. Errexit => Fewer
  BY DEF Errexit
<1>5. ASSUME NEW p \in Packets, NEW l \in Links, NEW touched \in BOOLEAN, Toss(p, l, touched)
      PROVE  Fewer
  BY <1>5 DEF Toss
<1>6. ASSUME NEW t \in {0, 1}, MakeAttach(t) PROVE Fewer
  BY <1>6 DEF MakeAttach
<1>7. ASSUME NEW n \in Names, Kill(n) PROVE Fewer
  BY <1>0, <1>7 DEF Kill
<1>8. ASSUME NEW l \in Links, Call(l) \/ HangUp(l) \/ Clear(l) PROVE Fewer
  BY <1>8 DEF Call, HangUp, Clear
<1>9. CASE Pack
  <2>1. /\ name' \in Names /\ name'[2] = day % Week
        /\ arch'[name'] # None /\ arch'[name'].day = day /\ arch'[name'].has # {}
        /\ \A n \in Names : n # name' => arch'[n] = arch[n]
    BY <1>9, PutFact
  <2>2. UNCHANGED <<conf, day, sending>>
    BY <1>9 DEF Pack
  <2>5. ASSUME NEW n \in Names, arch'[n] # None
        PROVE  /\ arch'[n].day <= day
               /\ arch'[n].has = {} => Truncated(n)
               /\ arch'[n].has # {} => n[2] = arch'[n].day % Week
    <3>1. CASE n = name'
      BY <1>0, <2>1, <3>1
    <3>2. CASE n # name'
      BY <2>1, <2>5, <3>2 DEF Dated
    <3> QED
      BY <3>1, <3>2
  <2>6. ASSUME NEW l \in Links, sending[l] # None
        PROVE  arch'[sending[l][1]] = None \/ arch'[sending[l][1]].has # {}
    BY <1>a, <2>1, <2>6 DEF Dated, Full
  <2> QED
    BY <2>2, <2>5, <2>6 DEF Dated, Full, Truncated, Way
<1>10. ASSUME NEW k \in Links, Sent(k) PROVE Dated'
  <2> DEFINE m == sending[k][1]
  <2>1. m \in Names /\ m[1] = k /\ \A n \in Names : n # m => arch'[n] = arch[n]
    BY <1>10, SentFact
  <2>2. UNCHANGED <<conf, day>> /\ sending' = [sending EXCEPT ![k] = None]
    BY <1>10 DEF Sent
  <2>3. arch'[m] = None \/ (arch'[m] = [has |-> {}, day |-> day] /\ Truncated(m))
    BY <1>10, SentFact
  <2> HIDE DEF m
  <2>5. ASSUME NEW n \in Names, arch'[n] # None
        PROVE  /\ arch'[n].day <= day
               /\ arch'[n].has = {} => Truncated(n)
               /\ arch'[n].has # {} => n[2] = arch'[n].day % Week
    <3>1. CASE n = m
      BY <1>0, <2>3, <2>5, <3>1
    <3>2. CASE n # m
      BY <2>1, <2>5, <3>2 DEF Dated
    <3> QED
      BY <3>1, <3>2
  <2>6. ASSUME NEW l \in Links, sending'[l] # None
        PROVE  sending'[l] = sending[l] /\ arch'[sending[l][1]] = arch[sending[l][1]]
    <3>1. l # k /\ sending'[l] = sending[l]
      BY <1>0, <2>2, <2>6
    <3>2. sending[l][1] \in Names /\ sending[l][1] # m
      BY <1>a, <2>1, <2>6, <3>1
    <3> QED
      BY <2>1, <3>1, <3>2
  <2> QED
    BY <2>2, <2>5, <2>6 DEF Dated, Full, Truncated, Way
<1>11. ASSUME NEW n \in Names, Send(n) PROVE Dated'
  <2>1. UNCHANGED <<conf, day, arch>> /\ Full(n)
    BY <1>11 DEF Send, Full
  <2>2. \A l \in Links : sending'[l] = IF l = n[1] THEN <<n, arch[n].has>> ELSE sending[l]
    BY <1>0, <1>11 DEF Send
  <2> QED
    BY <2>1, <2>2 DEF Dated, Full, Truncated, Way
<1>12. CASE Midnight
  <2>1. UNCHANGED <<conf, arch, sending>> /\ day' = day + 1
    BY <1>12 DEF Midnight
  <2>2. ASSUME NEW n \in Names, arch[n] # None PROVE arch[n].day <= day'
    <3>1. arch[n].day \in Nat
      BY <1>0, <2>2 DEF File
    <3> QED
      BY <1>0, <2>1, <2>2, <3>1 DEF Dated
  <2> QED
    BY <2>1, <2>2 DEF Dated, Full, Truncated, Way
<1> HIDE DEF Fewer
<1> QED
  BY <1>1, <1>2, <1>3, <1>4, <1>5, <1>6, <1>7, <1>8, <1>9, <1>10, <1>11, <1>12, StepCases

\* No step takes a packet out of the archives but to put it somewhere, while no
\* flag is ignored.
LEMMA SafeFact ==
    ASSUME TypeOK, AtWork, Entries, Apart, [Next]_vars, ~crossed'
    PROVE  ~crossed /\ Safe \subseteq Safe'
<1> DEFINE Same == UNCHANGED <<arch, delivered, expired>>
<1>0. arch \in [Names -> File \cup {None}] /\ sending \in [Links -> {None} \cup Read]
  BY DEF TypeOK, FilesOK, MailerOK
<1>1. Same => Safe \subseteq Safe'
  BY DEF Safe, Contents
<1>2. UNCHANGED vars => Same /\ ~crossed
  BY DEF vars
<1>3. Begin \/ End \/ CheckFlag \/ Wait \/ Hang \/ PackFails \/ Unlink \/ Mark \/ Message \/ List
         \/ Attached \/ Edit \/ Rename \/ Killed \/ Midnight
      => Same /\ ~crossed
  BY DEF Begin, End, CheckFlag, Wait, Hang, PackFails, Unlink, Mark, Message, List, Attached,
         Edit, Rename, Killed, Midnight
<1>13. Skip \/ NextPack => Same /\ ~crossed
  BY DEF Skip, NextPack, RemoveFlag
<1>14. CASE MakeFlag
  <2>1. Same
    BY <1>14 DEF MakeFlag
  <2>2. crossed' = (crossed \/ flag[target] = "mailer") => ~crossed
    OBVIOUS
  <2>3. UNCHANGED <<flag, crossed>> => ~crossed
    OBVIOUS
  <2>4. ~crossed
    BY <1>14, <2>2, <2>3 DEF MakeFlag
  <2> QED
    BY <1>1, <2>1, <2>4
<1>4. Errexit => Same /\ ~crossed
  BY DEF Errexit, RemoveFlag
<1>5. ASSUME NEW p \in Packets, NEW l \in Links, NEW touched \in BOOLEAN, Toss(p, l, touched)
      PROVE  Same /\ ~crossed
  BY <1>5 DEF Toss
<1>6. ASSUME NEW t \in {0, 1}, MakeAttach(t) PROVE Safe \subseteq Safe' /\ ~crossed
  <2>1. \A n \in Names : arch[n] # None => arch'[n] = arch[n] \/ arch[n].has = {}
    BY <1>0, <1>6 DEF MakeAttach
  <2>2. Contents \subseteq Contents'
    BY <1>0, <2>1 DEF Contents
  <2> QED
    BY <1>6, <2>2 DEF MakeAttach, Safe
<1>7. ASSUME NEW l \in Links, Call(l) \/ HangUp(l) \/ Clear(l) PROVE Same /\ ~crossed
  BY <1>7 DEF Call, HangUp, Clear
<1>8. ASSUME NEW n \in Names, Send(n) PROVE Same /\ ~crossed
  BY <1>8 DEF Send
<1>9. ASSUME NEW n \in Names, Kill(n) PROVE Safe \subseteq Safe' /\ ~crossed
  <2>1. \A m \in Names : m # n => arch'[m] = arch[m]
    BY <1>0, <1>9 DEF Kill
  <2>2. expired' = expired \cup arch[n].has /\ delivered' = delivered
    BY <1>9 DEF Kill
  <2>3. \A m \in Names : arch[m] # None =>
           m = n \/ (arch'[m] # None /\ arch'[m].has = arch[m].has)
    BY <2>1
  <2>4. Contents \subseteq Contents' \cup arch[n].has
    BY <2>3 DEF Contents
  <2> QED
    BY <1>9, <2>2, <2>4 DEF Kill, Safe
<1>10. CASE Pack
  <2>1. /\ name' \in Names /\ arch'[name'] # None
        /\ arch[name'] # None => arch[name'].has \subseteq arch'[name'].has
        /\ \A n \in Names : n # name' => arch'[n] = arch[n]
    BY <1>10, PutFact
  <2>2. \A n \in Names : arch[n] # None => arch'[n] # None /\ arch[n].has \subseteq arch'[n].has
    BY <2>1
  <2>3. Contents \subseteq Contents'
    BY <2>2 DEF Contents
  <2> QED
    BY <1>10, <2>3 DEF Pack, Safe
<1>11. ASSUME NEW k \in Links, Sent(k) PROVE Safe \subseteq Safe' /\ ~crossed
  <2>1. sending[k] # None /\ delivered' = delivered \cup sending[k][2] /\ expired' = expired
        /\ crossed' = crossed
    BY <1>11 DEF Sent
  <2>2. arch[sending[k][1]] # None /\ arch[sending[k][1]].has = sending[k][2]
    BY <2>1 DEF Apart
  <2>3. \A m \in Names : m # sending[k][1] => arch'[m] = arch[m]
    BY <1>0, <1>11 DEF Sent
  <2>4. \A m \in Names : arch[m] # None =>
           m = sending[k][1] \/ (arch'[m] # None /\ arch'[m].has = arch[m].has)
    BY <2>3
  <2>5. Contents \subseteq Contents' \cup sending[k][2]
    BY <2>2, <2>4 DEF Contents
  <2> QED
    BY <2>1, <2>5 DEF Safe
<1> HIDE DEF Same
<1>12. Pack => ~crossed
  BY DEF Pack
<1> QED
  BY <1>1, <1>2, <1>3, <1>4, <1>5, <1>6, <1>7, <1>8, <1>9, <1>10, <1>11, <1>12, <1>13, <1>14,
     StepCases

-----------------------------------------------------------------------------
(* No packet is lost. *)

LEMMA LossStep ==
    ASSUME TypeOK, AtWork, Entries, Apart, LossInv, [Next]_vars
    PROVE  LossInv'
<1> SUFFICES ASSUME ~crossed' PROVE LossInv'
  BY DEF LossInv
<1> DEFINE Out == pc' # "unlink"
           Keep == \A p \in Packets : to'[p] # None =>
                      to[p] # None /\ (disk[p] # "none" => disk'[p] # "none")
<1>0. /\ disk \in [Packets -> {"none", "out", "pkt"}] /\ to \in [Packets -> Links \cup {None}]
      /\ arch \in [Names -> File \cup {None}]
  BY DEF TypeOK, FilesOK
<1>1. ~crossed /\ Safe \subseteq Safe'
  BY SafeFact
<1>2. Out /\ Keep => LossInv'
  BY <1>1 DEF LossInv
<1>3. UNCHANGED <<to, disk, pc, pkts, cur>> => LossInv'
  BY <1>1 DEF LossInv, tpack
<1>4. UNCHANGED vars => UNCHANGED <<to, disk, pc, pkts, cur>>
  BY DEF vars
<1>5. Begin \/ End \/ CheckFlag \/ MakeFlag \/ Mark \/ Message \/ List \/ NextPack \/ Attached
         \/ Edit \/ Rename \/ Midnight => Out /\ Keep
  BY DEF Begin, End, CheckFlag, MakeFlag, Mark, Message, List, NextPack, Attached, Edit, Rename,
         Midnight
<1>6. Killed \/ Errexit => Out /\ Keep
  BY DEF Killed, Errexit, Stop
<1>7. ASSUME NEW t \in {0, 1}, MakeAttach(t) PROVE Out /\ Keep
  BY <1>7 DEF MakeAttach
<1>8. ASSUME NEW n \in Names, Kill(n) PROVE Out /\ Keep
  BY <1>8 DEF Kill
<1>9. ASSUME NEW l \in Links, Call(l) \/ HangUp(l) \/ Clear(l) \/ Sent(l)
      PROVE  UNCHANGED <<to, disk, pc, pkts, cur>>
  BY <1>9 DEF Call, HangUp, Clear, Sent
<1>10. ASSUME NEW n \in Names, Send(n) PROVE UNCHANGED <<to, disk, pc, pkts, cur>>
  BY <1>10 DEF Send
<1>11. ASSUME NEW p \in Packets, NEW l \in Links, NEW touched \in BOOLEAN, Toss(p, l, touched)
       PROVE  LossInv'
  <2>1. to' = [to EXCEPT ![p] = l] /\ disk' = [disk EXCEPT ![p] = "out"] /\ pc' = "run"
    BY <1>11 DEF Toss
  <2>2. disk'[p] # "none" /\ \A q \in Packets : q # p => to'[q] = to[q] /\ disk'[q] = disk[q]
    BY <1>0, <2>1
  <2> QED
    BY <1>1, <2>1, <2>2 DEF LossInv
<1>12. CASE Skip
  <2>1. CASE ~Taken
    BY <1>2, <1>12, <2>1 DEF Skip
  <2>2. CASE Taken
    <3>1. /\ disk' = [disk EXCEPT ![tpack.id] = "none"] /\ to' = [to EXCEPT ![tpack.id] = None]
          /\ pc' = "next"
      BY <1>12, <2>2 DEF Skip
    <3>2. \A p \in Packets : to'[p] # None => p # tpack.id /\ to[p] # None /\ disk'[p] = disk[p]
      BY <1>0, <3>1
    <3> QED
      BY <1>2, <3>1, <3>2
  <2> QED
    BY <2>1, <2>2
<1>13. ASSUME Wait \/ Hang \/ PackFails PROVE Out /\ Keep
  <2>1. to' = to /\ pc' # "unlink"
    BY <1>13 DEF Wait, Hang, PackFails
  <2>2. disk' \in {[disk EXCEPT ![tpack.id] = "out"], [disk EXCEPT ![tpack.id] = "pkt"]}
    BY <1>13 DEF Wait, Hang, PackFails
  <2> QED
    BY <1>0, <2>1, <2>2
<1>14. CASE Pack
  <2>1. UNCHANGED <<to, pkts, cur>> /\ disk' = [disk EXCEPT ![tpack.id] = "pkt"]
    BY <1>14 DEF Pack
  <2>2. Keep
    BY <1>0, <2>1
  <2>3. tpack.id \in Contents'
    <3>1. name' \in Names /\ arch'[name'] # None /\ tpack.id \in arch'[name'].has
      BY <1>14, PutFact
    <3> QED
      BY <3>1 DEF Contents
  <2>4. tpack' = tpack
    BY <2>1 DEF tpack
  <2> QED
    BY <1>1, <2>2, <2>3, <2>4 DEF LossInv, Safe
<1>15. CASE Unlink
  <2>1. /\ pc = "unlink" /\ pc' = "mark" /\ to' = to
        /\ disk' = [disk EXCEPT ![tpack.id] = "none"]
    BY <1>15 DEF Unlink
  <2>2. tpack.id \in Safe
    BY <1>1, <2>1 DEF LossInv
  <2>3. \A p \in Packets : p = tpack.id \/ disk'[p] = disk[p]
    BY <1>0, <2>1
  <2> QED
    BY <1>1, <2>1, <2>2, <2>3 DEF LossInv
<1> HIDE DEF Out, Keep
<1> QED
  BY <1>2, <1>3, <1>4, <1>5, <1>6, <1>7, <1>8, <1>9, <1>10, <1>11, <1>12, <1>13,
     <1>14, <1>15, StepCases

-----------------------------------------------------------------------------
(* The mailer is told. *)

\* Without a message for it, an archive is one that is there and has mail.
LEMMA AttachMakeFact ==
    ASSUME TypeOK, NEW l \in Links, ~AttachMake(l)
    PROVE  There(l, AttachSlot(l)) /\ ~Empty(l, AttachSlot(l))
<1>0. LastSlot \in Slot
  BY ParamFact DEF Slot
<1>1. CASE AttachOpen(l) = {}
  <2>1. AttachSlot(l) = LastSlot /\ ~Empty(l, LastSlot)
    BY <1>1 DEF AttachMake
  <2>2. AttachPass(l, LastSlot)
    BY <1>0, <1>1 DEF AttachOpen
  <2> QED
    BY <2>1, <2>2 DEF AttachPass
<1>2. CASE AttachOpen(l) # {}
  <2>1. There(l, AttachSlot(l))
    BY <1>2 DEF AttachMake
  <2>2. AttachSlot(l) \in AttachOpen(l)
    <3>1. AttachOpen(l) \subseteq Slot
      BY DEF AttachOpen
    <3> QED
      BY <1>2, <3>1, LowestFact DEF AttachSlot
  <2>3. ~AttachPass(l, AttachSlot(l))
    BY <2>2 DEF AttachOpen
  <2> QED
    BY <2>1, <2>3 DEF AttachPass
<1> QED
  BY <1>1, <1>2

LEMMA TellStep ==
    ASSUME TypeOK, AtWork, Entries, Apart, TellInv, [Next]_vars
    PROVE  TellInv'
<1> DEFINE Quiet == UNCHANGED <<cut, arch, listed, temp, pc, name, conf, make, target>>
           Plain == /\ UNCHANGED <<cut, listed, temp>> /\ ~Naming /\ ~Naming'
                    /\ \A n \in Names : Full(n)' => Full(n)
<1>1. Quiet => TellInv'
  BY DEF TellInv, Full, Naming, method
<1>2. Plain => TellInv'
  BY DEF TellInv, Naming
<1>3. UNCHANGED vars => Quiet
  BY DEF vars, target, tpack
<1>4. Begin \/ End \/ Skip \/ CheckFlag \/ MakeFlag \/ Wait \/ Hang \/ PackFails \/ NextPack
         \/ Attached \/ Midnight => Plain
  BY DEF Begin, End, Skip, CheckFlag, MakeFlag, Wait, Hang, PackFails, NextPack, Attached,
         Midnight, Naming, Full
<1>5. ASSUME NEW p \in Packets, NEW l \in Links, NEW touched \in BOOLEAN, Toss(p, l, touched)
      PROVE  Plain
  BY <1>5 DEF Toss, Naming, Full
<1>6. ASSUME NEW t \in {0, 1}, MakeAttach(t) PROVE Plain
  BY <1>6 DEF MakeAttach, Naming, Full
<1>7. ASSUME NEW n \in Names, Kill(n) PROVE Plain
  <2>1. arch' = [arch EXCEPT ![n] = None]
    BY <1>7 DEF Kill
  <2>2. \A m \in Names : Full(m)' => Full(m)
    BY <2>1 DEF TypeOK, FilesOK, Full
  <2> QED
    BY <1>7, <2>2 DEF Kill, Naming
<1>8. ASSUME NEW l \in Links, Call(l) \/ HangUp(l) \/ Clear(l) PROVE Quiet
  BY <1>8 DEF Call, HangUp, Clear, target, tpack
<1>9. ASSUME NEW n \in Names, Send(n) PROVE Quiet
  BY <1>9 DEF Send, target, tpack
<1>10. Killed \/ Errexit => TellInv'
  BY DEF Killed, Errexit, Stop, TellInv
<1>11. CASE Unlink
  <2>1. UNCHANGED <<cut, arch, listed, temp, name, conf, make, target>>
    BY <1>11 DEF Unlink, target, tpack
  <2>2. pc = "unlink" /\ pc' = "mark"
    BY <1>11 DEF Unlink
  <2> QED
    BY <2>1, <2>2 DEF TellInv, Full, Naming, method
<1>12. CASE Mark
  <2>1. UNCHANGED <<cut, arch, listed, temp, name, conf, make>>
    BY <1>12 DEF Mark
  <2>2. pc = "mark" /\ method # "attach" /\ pc' = IF method = "flow" THEN "list" ELSE "done"
    BY <1>12 DEF Mark
  <2>3. method \in {"box", "attach", "flow"}
    BY <2>2, TargetFact DEF Packing
  <2> QED
    BY <2>1, <2>2, <2>3 DEF TellInv, Full, Naming
<1>13. CASE Message
  <2>1. UNCHANGED <<cut, arch, temp, name>> /\ pc' = "done"
    BY <1>13 DEF Message
  <2>2. pc = "mark" /\ method = "attach" /\ listed' = IF make THEN listed \cup {name} ELSE listed
    BY <1>13 DEF Message
  <2> QED
    BY <2>1, <2>2 DEF TellInv, Full, Naming
<1>14. CASE List
  <2>1. /\ UNCHANGED <<cut, arch, temp, name>> /\ pc' = "done"
        /\ listed' = listed \cup {name}
    BY <1>14 DEF List
  <2> QED
    BY <2>1 DEF TellInv, Full, Naming
<1>15. CASE Pack
  <2>1. PICK s \in Slot : s = ChosenSlot(target) /\ name' = Named(target, s)
    BY <1>15, PackFact
  <2>2. /\ name' \in Names /\ \A n \in Names : n # name' => arch'[n] = arch[n]
    BY <1>15, PutFact
  <2>3. /\ pc = "pack" /\ pc' = "unlink" /\ UNCHANGED <<cut, temp, conf, target>>
        /\ make' = AttachMake(target)
    BY <1>15 DEF Pack, target, tpack
  <2>4. listed' = IF method = "box" THEN listed \cup {name'} ELSE listed
    BY <1>15, PackFact
  <2>5. ~cut /\ method = "attach" /\ ~make' => name' \in listed
    <3>1. SUFFICES ASSUME ~cut, method = "attach", ~make' PROVE name' \in listed
      OBVIOUS
    <3>2. s = AttachSlot(target) /\ target \in Links
      BY <2>1, <2>3, <3>1, TargetFact DEF ChosenSlot, Packing
    <3>3. There(target, s) /\ ~Empty(target, s)
      BY <2>3, <3>1, <3>2, AttachMakeFact
    <3>4. Full(name')
      BY <2>1, <3>3 DEF Full, There, Empty
    <3>5. temp = {} /\ ~Naming
      BY <2>3 DEF AtWork, Naming
    <3> QED
      BY <2>2, <3>1, <3>4, <3>5 DEF TellInv
  <2>6. ~cut' => \A n \in Names : Full(n)' => n \in listed' \cup temp' \/ n = name'
    BY <2>2, <2>3, <2>4 DEF TellInv, Full, Naming
  <2> QED
    BY <2>3, <2>4, <2>5, <2>6 DEF TellInv, Naming, method
<1>16. CASE Edit
  <2>1. arch[name] = None /\ temp = {} /\ UNCHANGED <<cut, arch>>
    BY <1>16 DEF Edit, AtWork
  <2>2. \A n \in Names : n \in listed => n = name \/ n \in listed' \cup temp'
    BY <1>16 DEF Edit
  <2>3. pc = "edit" /\ pc' \in {"idle", "rename"}
    BY <1>16 DEF Edit
  <2> QED
    BY <2>1, <2>2, <2>3 DEF TellInv, Full, Naming
<1>17. CASE Rename
  <2>1. /\ UNCHANGED <<cut, arch>> /\ listed' = listed \cup temp /\ pc = "rename" /\ pc' = "idle"
    BY <1>17 DEF Rename
  <2> QED
    BY <2>1 DEF TellInv, Full, Naming
<1>18. ASSUME NEW k \in Links, Sent(k) PROVE TellInv'
  <2> DEFINE m == sending[k][1]
  <2>1. (arch'[m] = None \/ arch'[m].has = {}) /\ \A n \in Names : n # m => arch'[n] = arch[n]
    BY <1>18, SentFact
  <2>2. listed' = listed \ {m} /\ UNCHANGED <<cut, temp, pc, name, conf, make, target>>
    BY <1>18 DEF Sent, target, tpack
  <2> HIDE DEF m
  <2>3. \A n \in Names : Full(n)' => n # m /\ Full(n)
    BY <2>1 DEF Full
  <2>4. ~cut => \A n \in Names : Full(n)' => n \in listed' \cup temp' \/ (Naming' /\ name' = n)
    BY <2>2, <2>3 DEF TellInv, Naming
  <2>5. pc \in {"unlink", "mark"} => name \in Names
    BY DEF AtWork, Naming
  <2>6. Full(name)' /\ name \in Names => name # m /\ Full(name)
    BY <2>2, <2>3 DEF Full
  <2> QED
    BY <2>2, <2>4, <2>5, <2>6 DEF TellInv, method
<1> HIDE DEF Quiet, Plain
<1> QED
  BY <1>1, <1>2, <1>3, <1>4, <1>5, <1>6, <1>7, <1>8, <1>9, <1>10, <1>11, <1>12, <1>13,
     <1>14, <1>15, <1>16, <1>17, <1>18, StepCases

-----------------------------------------------------------------------------
(* The names of the day. *)

LEMMA UsedStep ==
    ASSUME TypeOK, AtWork, Entries, Apart, Dated, UsedInv, [Next]_vars
    PROVE  UsedInv'
<1> DEFINE Still == UNCHANGED <<conf, day, arch, used>>
           Quiet == /\ Still /\ UNCHANGED <<cut, marks, pc, name, target>>
           Plain == /\ Still /\ UNCHANGED <<cut, marks>>
                    /\ pc \notin {"unlink", "mark"} /\ ~Naming'
<1>0. /\ day \in Nat /\ arch \in [Names -> File \cup {None}] /\ used \subseteq Names
  BY DEF TypeOK, ConfOK, FilesOK, HistOK
<1>1. Quiet => UsedInv'
  BY DEF UsedInv, Full, Way, Truncated, Marking, Naming
<1>2. Plain => UsedInv'
  BY DEF UsedInv, Full, Way, Truncated, Marking, Naming
<1>3. UNCHANGED vars => Quiet
  BY DEF vars, target, tpack
<1>4. Begin \/ End \/ Skip \/ CheckFlag \/ MakeFlag \/ Wait \/ Hang \/ PackFails \/ NextPack
         \/ Attached \/ List \/ Edit \/ Rename => Plain
  BY DEF Begin, End, Skip, CheckFlag, MakeFlag, Wait, Hang, PackFails, NextPack, Attached, List,
         Edit, Rename, Naming
<1>5. ASSUME NEW p \in Packets, NEW l \in Links, NEW touched \in BOOLEAN, Toss(p, l, touched)
      PROVE  Plain
  BY <1>5 DEF Toss, Naming
<1>6. ASSUME NEW l \in Links, Call(l) \/ HangUp(l) \/ Clear(l) PROVE Quiet
  BY <1>6 DEF Call, HangUp, Clear, target, tpack
<1>7. ASSUME NEW n \in Names, Send(n) PROVE Quiet
  BY <1>7 DEF Send, target, tpack
<1>8. Killed \/ Errexit => UsedInv'
  <2>1. Killed \/ Errexit => Still /\ cut' = TRUE /\ ~Naming'
    BY DEF Killed, Errexit, Stop, Naming
  <2> QED
    BY <2>1 DEF UsedInv, Full, Way, Truncated, Marking, Naming
<1>9. CASE Unlink
  <2>1. Still /\ UNCHANGED <<cut, marks, name, target>>
    BY <1>9 DEF Unlink, target, tpack
  <2>2. pc = "unlink" /\ pc' = "mark"
    BY <1>9 DEF Unlink
  <2> QED
    BY <2>1, <2>2 DEF UsedInv, Full, Way, Truncated, Marking, Naming
<1>10. CASE Mark
  <2>1. Still /\ UNCHANGED <<cut, name, target>> /\ marks' = marks \cup {name}
    BY <1>10 DEF Mark, target, tpack
  <2>2. pc = "mark" /\ pc' \in {"list", "done"}
    BY <1>10 DEF Mark
  <2> QED
    BY <2>1, <2>2 DEF UsedInv, Full, Way, Truncated, Marking, Naming
<1>11. CASE Message
  <2>1. Still /\ UNCHANGED <<cut, marks, name>>
    BY <1>11 DEF Message
  <2>2. pc = "mark" /\ pc' = "done" /\ method = "attach"
    BY <1>11 DEF Message
  <2>3. name \in Names /\ Way(name) = "attach"
    BY <2>2 DEF AtWork, UsedInv, Naming, Way, method
  <2> QED
    BY <2>1, <2>2, <2>3 DEF UsedInv, Full, Way, Truncated, Marking, Naming
<1>12. ASSUME NEW t \in {0, 1}, MakeAttach(t) PROVE UsedInv'
  <2>1. /\ UNCHANGED <<conf, day, used, cut>> /\ pc = "run" /\ pc' = "next"
        /\ marks' = {n \in marks : n[2] = day % Week}
    BY <1>12 DEF MakeAttach
  <2>2. \A n \in Names : arch'[n] = arch[n] \/ (arch'[n] = None /\ n[2] # day % Week)
    BY <1>0, <1>12 DEF MakeAttach
  <2>3. \A n \in used : n[2] = day % Week
    BY DEF UsedInv
  <2>4. \A n \in used : Truncated(n) => arch'[n] # None /\ arch'[n].day = day
    BY <1>0, <2>2, <2>3 DEF UsedInv
  <2>5. ASSUME ~cut, NEW n \in Names, n \in used \/ (Full(n) /\ arch[n].day = day),
               Way(n) # "attach"
        PROVE  n \in marks'
    <3>1. n[2] = day % Week
      BY <2>3, <2>5 DEF Dated, Full
    <3>2. n \in marks
      BY <2>1, <2>5 DEF UsedInv, Marking
    <3> QED
      BY <2>1, <3>1, <3>2
  <2>6. \A n \in Names : Full(n)' /\ arch'[n].day = day => Full(n) /\ arch[n].day = day
    BY <2>2 DEF Full
  <2> QED
    BY <1>0, <2>1, <2>3, <2>4, <2>5, <2>6 DEF UsedInv, Way, Truncated, Naming
<1>13. ASSUME NEW k \in Names, Kill(k) PROVE UsedInv'
  <2>1. /\ UNCHANGED <<conf, day, used, cut, marks>> /\ pc = "idle" /\ pc' = "edit"
        /\ arch' = [arch EXCEPT ![k] = None] /\ Old(k)
    BY <1>13 DEF Kill
  <2>2. arch[k].day # day
    BY <1>0, <2>1, ParamFact DEF Old
  <2>3. \A n \in Names : n # k => arch'[n] = arch[n]
    BY <1>0, <2>1
  <2>4. \A n \in used : Truncated(n) => arch'[n] # None /\ arch'[n].day = day
    BY <1>0, <2>2, <2>3 DEF UsedInv
  <2>5. \A n \in Names : Full(n)' /\ arch'[n].day = day => Full(n) /\ arch[n].day = day
    BY <1>0, <2>1, <2>3 DEF Full
  <2> QED
    BY <2>1, <2>4, <2>5 DEF UsedInv, Way, Truncated, Marking, Naming
<1>14. CASE Pack
  <2>1. /\ name' \in Names /\ name'[1] = target /\ name'[2] = day % Week
        /\ arch'[name'] # None /\ arch'[name'].day = day
        /\ \A n \in Names : n # name' => arch'[n] = arch[n]
    BY <1>14, PutFact
  <2>2. /\ UNCHANGED <<conf, day, used, cut, marks, target>> /\ pc = "pack" /\ pc' = "unlink"
    BY <1>14 DEF Pack, target, tpack
  <2>3. \A n \in used : Truncated(n) => arch'[n] # None /\ arch'[n].day = day
    BY <1>0, <2>1 DEF UsedInv
  <2>4. ASSUME ~cut, NEW n \in Names, n \in used \/ (Full(n)' /\ arch'[n].day = day),
               Way(n) # "attach"
        PROVE  n \in marks \/ n = name'
    BY <2>1, <2>2, <2>4 DEF UsedInv, Full, Marking
  <2> QED
    BY <2>1, <2>2, <2>3, <2>4 DEF UsedInv, Way, Truncated, Marking, Naming
<1>15. ASSUME NEW k \in Links, Sent(k) PROVE UsedInv'
  <2> DEFINE m == sending[k][1]
  <2>1. /\ m \in Names /\ \A n \in Names : n # m => arch'[n] = arch[n]
        /\ arch'[m] = IF arch[m] # None /\ Truncated(m) THEN [has |-> {}, day |-> day] ELSE None
        /\ arch'[m] = None \/ arch'[m].has = {}
        /\ sending[k] # None
    BY <1>15, SentFact
  <2>2. arch[m] = None \/ Full(m)
    BY <2>1 DEF Dated
  <2>3. /\ UNCHANGED <<conf, day, cut, marks, pc, name, target>>
        /\ used' = IF m[2] = day % Week /\ arch[m] # None /\ arch[m].day = day
                   THEN used \cup {m} ELSE used
    BY <1>15 DEF Sent, target, tpack
  <2> HIDE DEF m
  <2>4. \A n \in used' : n \in used \/ (n = m /\ Full(m) /\ arch[m].day = day /\ m[2] = day % Week)
    BY <2>2, <2>3
  <2>5. [has |-> {}, day |-> day] # None
    <3>1. [has |-> {}, day |-> day] \in File
      BY DEF File, TypeOK, ConfOK
    <3> QED
      BY <3>1, ParamFact
  <2>6. ASSUME NEW n \in used', Truncated(n) PROVE arch'[n] # None /\ arch'[n].day = day
    <3>1. arch[n] # None
      BY <2>4, <2>6 DEF UsedInv, Full
    <3>2. CASE n = m
      <4>1. arch'[n] = [has |-> {}, day |-> day]
        BY <2>1, <2>6, <3>1, <3>2
      <4> QED
        BY <2>5, <4>1
    <3>3. CASE n # m
      <4>1. n \in used /\ n \in Names
        BY <1>0, <2>4, <3>3
      <4> QED
        BY <2>1, <2>6, <3>3, <4>1 DEF UsedInv
    <3> QED
      BY <3>2, <3>3
  <2>7. \A n \in Names : Full(n)' => n # m /\ Full(n) /\ arch'[n] = arch[n]
    BY <2>1 DEF Full
  <2>8. \A n \in used' : n[2] = day % Week
    BY <2>4 DEF UsedInv
  <2>9. ASSUME ~cut, NEW n \in Names, n \in used' \/ (Full(n)' /\ arch'[n].day = day),
               Way(n) # "attach"
        PROVE  n \in marks \/ Marking(n)
    <3>1. n \in used \/ (Full(n) /\ arch[n].day = day)
      BY <2>4, <2>7, <2>9
    <3> QED
      BY <2>9, <3>1 DEF UsedInv
  <2> QED
    BY <2>3, <2>6, <2>8, <2>9 DEF UsedInv, Way, Truncated, Marking, Naming
<1>16. CASE Midnight
  <2>1. /\ UNCHANGED <<conf, arch, cut, marks>> /\ pc' = "idle" /\ day' = day + 1 /\ used' = {}
    BY <1>16 DEF Midnight
  <2>2. \A n \in Names : arch[n] # None => arch[n].day # day'
    <3>1. \A n \in Names : arch[n] # None => arch[n].day \in Nat
      BY <1>0 DEF File
    <3> QED
      BY <1>0, <2>1, <3>1 DEF Dated
  <2> QED
    BY <2>1, <2>2 DEF UsedInv, Full, Naming
<1> HIDE DEF Still, Quiet, Plain
<1> QED
  BY <1>1, <1>2, <1>3, <1>4, <1>5, <1>6, <1>7, <1>8, <1>9, <1>10, <1>11, <1>12, <1>13,
     <1>14, <1>15, <1>16, StepCases

-----------------------------------------------------------------------------
(* What a packet is added to. *)

\* The slot tried first is a slot that is not passed over, if there is one.
LEMMA BoxFact ==
    ASSUME TypeOK, NEW l \in Links, BoxSlot(l) \in Slot
    PROVE  BoxSlot(l) = LastSlot \/ ~BoxPass(l, BoxSlot(l))
<1> DEFINE T == {t \in From(l) .. LastSlot : t = LastSlot \/ ~BoxPass(l, t)}
<1>1. From(l) \in Slot /\ LastSlot \in Nat
  BY FromFact, ParamFact
<1>2. T \subseteq Slot /\ LastSlot \in T
  BY <1>1 DEF Slot
<1>3. BoxSlot(l) \in {Lowest(T), LastSlot + 1}
  BY DEF BoxSlot
<1>4. \A t \in T : t = LastSlot \/ ~BoxPass(l, t)
  OBVIOUS
<1> HIDE DEF T
<1>5. Lowest(T) \in T
  BY <1>2, LowestFact
<1>6. BoxSlot(l) = Lowest(T)
  BY <1>1, <1>3 DEF Slot
<1> QED
  BY <1>4, <1>5, <1>6

LEMMA AttachFact ==
    ASSUME TypeOK, NEW l \in Links
    PROVE  AttachPass(l, AttachSlot(l)) => There(l, LastSlot)
<1>0. LastSlot \in Slot
  BY ParamFact DEF Slot
<1>1. CASE AttachOpen(l) = {}
  <2>1. AttachPass(l, LastSlot)
    BY <1>0, <1>1 DEF AttachOpen
  <2> QED
    BY <2>1 DEF AttachPass
<1>2. CASE AttachOpen(l) # {}
  <2>1. AttachOpen(l) \subseteq Slot
    BY DEF AttachOpen
  <2>2. AttachSlot(l) \in AttachOpen(l)
    BY <1>2, <2>1, LowestFact DEF AttachSlot
  <2> QED
    BY <2>2 DEF AttachOpen
<1> QED
  BY <1>1, <1>2

\* With a flag there, a packet is added to an archive only when all slots are taken.
LEMMA BusyFact ==
    ASSUME TypeOK, AtWork, Entries, Pack, busy, There(target, ChosenSlot(target))
    PROVE  RunOut(target)
<1>1. target \in Links /\ method \in {"box", "attach"} /\ ChosenSlot(target) \in Slot
  BY TargetFact, ChosenFact DEF Pack, Packing
<1>2. CASE method = "box"
  <2>1. BoxPass(target, BoxSlot(target))
    BY <1>2 DEF ChosenSlot, BoxPass, AddTo
  <2>2. BoxSlot(target) = LastSlot
    BY <1>1, <1>2, <2>1, BoxFact DEF ChosenSlot
  <2> QED
    BY <1>2, <2>2 DEF ChosenSlot, RunOut
<1>3. CASE method = "attach"
  <2>1. AttachPass(target, AttachSlot(target))
    BY <1>3 DEF ChosenSlot, AttachPass, AddTo
  <2> QED
    BY <1>1, <2>1, AttachFact DEF RunOut
<1> QED
  BY <1>1, <1>2, <1>3

\* An archive changes by what is added, when it was sent, or to go away.
LEMMA ChangeFact ==
    ASSUME TypeOK, [Next]_vars
    PROVE  \/ Pack
           \/ \E k \in Links : Sent(k)
           \/ \A n \in Names : arch'[n] \in {arch[n], None}
<1> DEFINE Fewer == \A n \in Names : arch'[n] \in {arch[n], None}
<1>0. arch \in [Names -> File \cup {None}]
  BY DEF TypeOK, FilesOK
<1>1. UNCHANGED vars => Fewer
  BY DEF vars
<1>2. Begin \/ End \/ Skip \/ CheckFlag \/ MakeFlag \/ Wait \/ Hang \/ PackFails \/ Unlink \/ Mark
         \/ Message \/ List \/ NextPack \/ Attached \/ Edit \/ Rename \/ Killed \/ Midnight => Fewer
  BY DEF Begin, End, Skip, CheckFlag, MakeFlag, Wait, Hang, PackFails, Unlink, Mark, Message,
         List, NextPack, Attached, Edit, Rename, Killed, Midnight
<1>3. Errexit => Fewer
  BY DEF Errexit
<1>4. ASSUME NEW p \in Packets, NEW k \in Links, NEW touched \in BOOLEAN, Toss(p, k, touched)
      PROVE  Fewer
  BY <1>4 DEF Toss
<1>5. ASSUME NEW t \in {0, 1}, MakeAttach(t) PROVE Fewer
  BY <1>5 DEF MakeAttach
<1>6. ASSUME NEW k \in Names, Kill(k) PROVE Fewer
  BY <1>0, <1>6 DEF Kill
<1>7. ASSUME NEW k \in Links, Call(k) \/ HangUp(k) \/ Clear(k) PROVE Fewer
  BY <1>7 DEF Call, HangUp, Clear
<1>8. ASSUME NEW k \in Names, Send(k) PROVE Fewer
  BY <1>8 DEF Send
<1> HIDE DEF Fewer
<1>9. Pack \/ (\E k \in Links : Sent(k)) \/ Fewer
  BY <1>1, <1>2, <1>3, <1>4, <1>5, <1>6, <1>7, <1>8, StepCases
<1> QED
  BY <1>9 DEF Fewer

\* While no flag is ignored, what is sent is not added to before the slots run out.
LEMMA ReadStep ==
    ASSUME TypeOK, AtWork, Entries, Apart, [Next]_vars,
           NEW l \in Links, sending[l] # None, sending'[l] = sending[l], ~crossed
    PROVE  arch'[sending[l][1]] \in {arch[sending[l][1]], None} \/ RunOut(l)
<1> DEFINE n == sending[l][1]
<1>0. sending \in [Links -> {None} \cup Read]
  BY DEF TypeOK, MailerOK
<1>1. n \in Names /\ n[1] = l /\ l \in session
  BY <1>0 DEF Read, Apart
<1>2. arch[n] # None /\ flag[l] = "mailer"
  BY <1>1 DEF Apart
<1>3. ASSUME NEW k \in Links, Sent(k) PROVE arch'[n] = arch[n]
  <2>1. sending' = [sending EXCEPT ![k] = None]
    BY <1>3 DEF Sent
  <2>2. k # l
    BY <1>0, <2>1
  <2>3. sending[k][1] # n
    BY <1>1, <1>3, <2>2, SentFact
  <2> QED
    BY <1>1, <1>3, <2>3, SentFact
<1>4. ASSUME Pack PROVE arch'[n] = arch[n] \/ RunOut(l)
  <2>1. PICK s \in Slot : s = ChosenSlot(target) /\ name' = Named(target, s) /\ name'[1] = target
    BY <1>4, PackFact
  <2>2. CASE n # name'
    BY <1>1, <1>4, <2>2, PutFact
  <2>3. CASE n = name'
    <3>1. l = target /\ There(target, ChosenSlot(target))
      BY <1>1, <1>2, <2>1, <2>3 DEF There
    <3>2. pc = "pack"
      BY <1>4 DEF Pack
    <3>3. busy
      BY <1>2, <3>1, <3>2 DEF Apart
    <3> QED
      BY <1>4, <3>1, <3>3, BusyFact
  <2> QED
    BY <2>2, <2>3
<1> QED
  BY <1>1, <1>3, <1>4, ChangeFact

-----------------------------------------------------------------------------
(* A name that was used is not taken. *)

\* The first slot without a marker, while there is one.
LEMMA FreeMarkFact ==
    ASSUME TypeOK, NEW l \in Links, ~Marked(l, LastSlot)
    PROVE  /\ FreeMark(l) \in Slot /\ ~Marked(l, FreeMark(l))
           /\ \A t \in Slot : t < FreeMark(l) => Marked(l, t)
<1> DEFINE T == {t \in Slot : ~Marked(l, t)}
<1>1. T \subseteq Slot /\ LastSlot \in T
  BY ParamFact DEF Slot
<1>2. Lowest(T) \in T /\ \A t \in T : Lowest(T) <= t
  BY <1>1, LowestFact
<1>3. Lowest(T) \in Slot /\ ~Marked(l, Lowest(T))
  BY <1>2
<1>4. \A t \in Slot : t < Lowest(T) => Marked(l, t)
  <2> SUFFICES ASSUME NEW t \in Slot, t < Lowest(T), ~Marked(l, t) PROVE FALSE
    OBVIOUS
  <2>1. Lowest(T) <= t
    BY <1>2
  <2> QED
    BY <1>3, <2>1 DEF Slot
<1>5. FreeMark(l) = IF Lowest(T) > LastSlot THEN 0 ELSE Lowest(T)
  BY DEF FreeMark
<1> HIDE DEF T
<1>6. FreeMark(l) = Lowest(T)
  BY <1>3, <1>5, ParamFact DEF Slot
<1> QED
  BY <1>3, <1>4, <1>6

\* A slot taken for the flow file is not passed over.
LEMMA FlowFact ==
    ASSUME TypeOK, NEW l \in Links, FlowSlot(l) \in Slot
    PROVE  \E L \in From(l) .. LastSlot :
              /\ ~FlowPass(l, L)
              /\ \A t \in From(l) .. LastSlot : t < L => FlowPass(l, t)
              /\ FlowSlot(l) = IF L = From(l) /\ ~There(l, L) /\ ~conf.trunc /\ AddTo
                                   /\ Marked(l, 0) /\ L < LastSlot
                               THEN L + 1 ELSE L
<1> DEFINE T == {t \in From(l) .. LastSlot : ~FlowPass(l, t)}
           L == Lowest(T)
<1>0. From(l) \in Slot /\ LastSlot \in Nat
  BY FromFact, ParamFact
<1>1. T \subseteq Slot
  BY <1>0 DEF Slot
<1>2. FlowSlot(l) = IF L = From(l) /\ ~There(l, L) /\ ~conf.trunc /\ AddTo
                       /\ Marked(l, 0) /\ L < LastSlot
                    THEN L + 1 ELSE L
  BY DEF FlowSlot
<1>3. /\ T = {} => L = LastSlot + 1
      /\ T # {} => L \in T /\ \A t \in T : L <= t
  BY <1>1, LowestFact
<1>4. \A t : t \in T <=> t \in From(l) .. LastSlot /\ ~FlowPass(l, t)
  OBVIOUS
<1> HIDE DEF T, L
<1>5. T # {}
  BY <1>0, <1>2, <1>3 DEF Slot
<1>6. L \in T /\ \A t \in T : L <= t
  BY <1>3, <1>5
<1>7. \A t \in From(l) .. LastSlot : t < L => FlowPass(l, t)
  <2> SUFFICES ASSUME NEW t \in From(l) .. LastSlot, t < L, ~FlowPass(l, t) PROVE FALSE
    OBVIOUS
  <2>1. L <= t /\ L \in From(l) .. LastSlot
    BY <1>4, <1>6
  <2> QED
    BY <1>0, <2>1 DEF Slot
<1> QED
  BY <1>2, <1>4, <1>6, <1>7

\* A marked slot without an archive is taken only when the first one without a
\* marker was passed over.
LEMMA PastFact ==
    ASSUME TypeOK, NEW l \in Links, ~Marked(l, LastSlot), ~conf.trunc,
           FlowSlot(l) \in Slot, Marked(l, FlowSlot(l)), ~There(l, FlowSlot(l))
    PROVE  FlowPass(l, FreeMark(l))
<1> DEFINE m == FreeMark(l)
           s == FlowSlot(l)
<1>1. m \in Slot /\ ~Marked(l, m) /\ \A t \in Slot : t < m => Marked(l, t)
  BY FreeMarkFact
<1>2. From(l) = IF AddTo /\ m > 0 THEN m - 1 ELSE m
  BY DEF From
<1>3. PICK L \in From(l) .. LastSlot :
         /\ \A t \in From(l) .. LastSlot : t < L => FlowPass(l, t)
         /\ s = IF L = From(l) /\ ~There(l, L) /\ ~conf.trunc /\ AddTo
                   /\ Marked(l, 0) /\ L < LastSlot
                THEN L + 1 ELSE L
  BY FlowFact
<1>4. Marked(l, s) /\ ~There(l, s) /\ s \in Slot /\ LastSlot \in Nat /\ From(l) \in Slot
  BY FromFact, ParamFact
<1> HIDE DEF m, s
<1>5. s # m
  BY <1>1, <1>4
<1>6. 0 \in Slot
  BY ParamFact DEF Slot
<1>7. s = L
  <2>1. SUFFICES ASSUME s # L PROVE FALSE
    OBVIOUS
  <2>2. L = From(l) /\ AddTo /\ Marked(l, 0) /\ s = L + 1
    BY <1>3, <2>1
  <2>3. m > 0
    BY <1>1, <2>2 DEF Slot
  <2> QED
    BY <1>1, <1>2, <1>5, <2>2, <2>3 DEF Slot
<1>8. ~(s < m)
  <2>1. SUFFICES ASSUME s < m PROVE FALSE
    OBVIOUS
  <2>2. AddTo /\ m > 0 /\ L = From(l)
    BY <1>1, <1>2, <1>3, <1>4, <1>7, <2>1 DEF Slot
  <2>3. Marked(l, 0) /\ L < LastSlot
    BY <1>1, <1>4, <1>6, <1>7, <2>1, <2>2 DEF Slot
  <2>4. s = L + 1
    BY <1>3, <1>4, <1>7, <2>2, <2>3
  <2> QED
    BY <1>3, <1>4, <1>7, <2>4 DEF Slot
<1>9. m \in From(l) .. LastSlot /\ m < L
  BY <1>1, <1>2, <1>4, <1>5, <1>7, <1>8 DEF Slot
<1> QED
  BY <1>3, <1>9 DEF m

\* A packet is added under a name that was used only when an archive of that
\* name is there with mail, the slots have run out or one is left from last week.
LEMMA FreshFact ==
    ASSUME TypeOK, AtWork, Entries, Dated, UsedInv, Pack,
           name' \in used, ~cut, ~RunOut(target), ~Leftover(target)
    PROVE  Full(name')
<1>1. PICK s \in Slot :
         /\ s = ChosenSlot(target) /\ name' = Named(target, s)
         /\ name' \in Names /\ name'[1] = target
  BY PackFact
<1>2. target \in Links /\ method \in {"box", "attach", "flow"}
  BY TargetFact DEF Pack, Packing
<1>3. Way(name') = method
  BY <1>1 DEF Way, method
<1>4. ~There(target, LastSlot) /\ ~Marked(target, LastSlot)
  BY DEF RunOut
<1>5. \A n \in Names : ~Marking(n)
  BY DEF Pack, Marking
<1>6. method # "attach" => Marked(target, s)
  BY <1>1, <1>3, <1>5 DEF UsedInv, Marked
<1>7. Truncated(name') => There(target, s)
  BY <1>1 DEF UsedInv, There
<1>8. There(target, s) /\ ~Empty(target, s) => Full(name')
  BY <1>1 DEF There, Empty, Full
<1>9. CASE method = "box"
  <2>1. s # LastSlot
    BY <1>4, <1>6, <1>9
  <2>2. ~BoxPass(target, s)
    BY <1>1, <1>2, <1>9, <2>1, BoxFact DEF ChosenSlot
  <2>3. There(target, s)
    BY <1>6, <1>9, <2>2 DEF BoxPass
  <2>4. ~Truncated(name')
    BY <1>3, <1>9 DEF Truncated
  <2>5. ~Empty(target, s)
    BY <1>1, <2>3, <2>4 DEF Dated, There, Empty
  <2> QED
    BY <1>8, <2>3, <2>5
<1>10. CASE method = "attach"
  <2>1. There(target, s)
    BY <1>3, <1>7, <1>10 DEF Truncated
  <2>2. ~AttachPass(target, s)
    BY <1>1, <1>2, <1>4, <1>10, AttachFact DEF ChosenSlot
  <2> QED
    BY <1>8, <2>1, <2>2 DEF AttachPass
<1>11. CASE method = "flow"
  <2>1. s = FlowSlot(target)
    BY <1>1, <1>11 DEF ChosenSlot
  <2>2. CASE conf.trunc
    <3>1. There(target, s)
      BY <1>3, <1>7, <1>11, <2>2 DEF Truncated
    <3>2. ~FlowPass(target, s)
      BY <1>2, <2>1, <2>2, FlowFact
    <3> QED
      BY <1>8, <3>1, <3>2 DEF FlowPass
  <2>3. CASE ~conf.trunc
    <3>1. ~Truncated(name')
      BY <1>3, <1>11, <2>3 DEF Truncated
    <3>2. There(target, s) => Full(name')
      BY <1>1, <1>8, <3>1 DEF Dated, There, Empty
    <3>3. SUFFICES ASSUME ~There(target, s) PROVE FALSE
      BY <3>2
    <3> DEFINE m == FreeMark(target)
               k == Named(target, m)
    <3>4. FlowPass(target, m)
      BY <1>2, <1>4, <1>6, <1>11, <2>1, <2>3, <3>3, PastFact
    <3>5. m \in Slot /\ ~Marked(target, m)
      BY <1>2, <1>4, FreeMarkFact
    <3>6. k \in Names /\ k[1] = target
      BY <1>2, <3>5, NamedFact
    <3>7. arch[k] # None /\ k \notin marks
      BY <3>4, <3>5 DEF FlowPass, There, Marked
    <3>8. Way(k) = "flow"
      BY <1>11, <3>6 DEF Way, method
    <3>9. Full(k)
      BY <2>3, <3>6, <3>7, <3>8 DEF Dated, Full, Truncated
    <3>10. arch[k].day # day
      BY <1>5, <3>6, <3>7, <3>8, <3>9 DEF UsedInv
    <3> QED
      BY <3>5, <3>7, <3>10 DEF Leftover, There, Older
  <2> QED
    BY <2>2, <2>3
<1> QED
  BY <1>2, <1>9, <1>10, <1>11

LEMMA FreshStep ==
    ASSUME TypeOK, AtWork, Entries, Apart, Dated, UsedInv, [Next]_vars,
           NEW n \in used, ~cut, ~RunOut(n[1]), ~Leftover(n[1]),
           arch[n] = None \/ arch[n].has = {}
    PROVE  arch'[n] = None \/ arch'[n].has = {}
<1>1. n \in Names
  BY DEF TypeOK, HistOK
<1>2. ASSUME NEW k \in Links, Sent(k) PROVE arch'[n] = None \/ arch'[n].has = {}
  BY <1>1, <1>2, SentFact
<1>3. ASSUME Pack PROVE arch'[n] = None \/ arch'[n].has = {}
  <2>1. n # name'
    <3>1. SUFFICES ASSUME n = name' PROVE FALSE
      OBVIOUS
    <3>2. n[1] = target
      BY <1>3, <3>1, PutFact
    <3>3. Full(n)
      BY <1>3, <3>1, <3>2, FreshFact
    <3> QED
      BY <3>3 DEF Full
  <2> QED
    BY <1>1, <1>3, <2>1, PutFact
<1> QED
  BY <1>1, <1>2, <1>3, ChangeFact

\* In a directory of the link's own, an archive of an earlier day is passed over.
LEMMA BundleStep ==
    ASSUME TypeOK, AtWork, Entries, Apart, [Next]_vars,
           NEW n \in Names, conf.method[n[1]] = "box", arch[n] # None, arch'[n] # None, arch[n].has # {},
           arch[n].day # day, ~RunOut(n[1])
    PROVE  arch'[n].has \subseteq arch[n].has
<1>1. ASSUME NEW k \in Links, Sent(k) PROVE arch'[n].has \subseteq arch[n].has
  BY <1>1, SentFact
<1>2. ASSUME Pack PROVE arch'[n].has \subseteq arch[n].has
  <2>1. PICK s \in Slot : s = ChosenSlot(target) /\ name' = Named(target, s) /\ name'[1] = target
    BY <1>2, PackFact
  <2>3. n # name'
    <3>1. SUFFICES ASSUME n = name' PROVE FALSE
      OBVIOUS
    <3>4. target \in Links /\ method = "box"
      <4>1. target \in Links
        BY <1>2, TargetFact DEF Pack, Packing
      <4> QED
        BY <2>1, <3>1, <4>1 DEF method
    <3>2. There(target, s) /\ Older(target, s) /\ ~RunOut(target)
      BY <2>1, <3>1 DEF There, Older
    <3>3. BoxPass(target, s) /\ s # LastSlot
      BY <3>2 DEF BoxPass, RunOut
    <3> QED
      BY <2>1, <3>4, <3>3, BoxFact DEF ChosenSlot
  <2> QED
    BY <1>2, <2>3, PutFact
<1> QED
  BY <1>1, <1>2, ChangeFact

-----------------------------------------------------------------------------
(* The theorems. *)

Outgoing == /\ TypeOK /\ AtWork /\ Entries /\ Apart /\ Dated
            /\ LossInv /\ TellInv /\ UsedInv

LEMMA InitFact == Init => Outgoing
<1> SUFFICES ASSUME Init PROVE Outgoing
  OBVIOUS
<1> USE DEF Init
<1>1. ConfOK
  BY ParamFact DEF ConfOK
<1>2. FilesOK /\ MailerOK
  BY DEF FilesOK, MailerOK
<1>3. RunOK
  <2>1. pkts \in Seq(Entry) /\ cur \in 1 .. Len(pkts) + 1
    OBVIOUS
  <2>2. pc = "idle" /\ type = 0 /\ temp = {} /\ bsyname = None /\ name = None
    OBVIOUS
  <2>3. busy = FALSE /\ make = FALSE
    OBVIOUS
  <2> QED
    BY <2>1, <2>2, <2>3 DEF RunOK
<1>4. HistOK
  <2>1. fails \in 0 .. MaxFails
    BY ParamFact
  <2>2. delivered = {} /\ expired = {} /\ used = {}
    OBVIOUS
  <2>3. crossed = FALSE /\ cut = FALSE
    OBVIOUS
  <2> QED
    BY <2>1, <2>2, <2>3 DEF HistOK
<1>5. AtWork
  BY DEF AtWork, Packing, Naming
<1>6. Entries
  BY DEF Entries
<1>7. Apart
  BY DEF Apart
<1>8. Dated
  BY DEF Dated
<1>9. LossInv
  BY DEF LossInv
<1>10. TellInv
  BY DEF TellInv, Full
<1>11. UsedInv
  BY DEF UsedInv, Full, Naming
<1> QED
  BY <1>1, <1>2, <1>3, <1>4, <1>5, <1>6, <1>7, <1>8, <1>9, <1>10, <1>11 DEF Outgoing, TypeOK

LEMMA OutgoingStep == Outgoing /\ [Next]_vars => Outgoing'
BY TypeStep, AtWorkStep, EntriesStep, ApartStep, DatedStep, LossStep, TellStep, UsedStep
   DEF Outgoing

LEMMA OutgoingHolds == Spec => []Outgoing
BY InitFact, OutgoingStep, PTL DEF Spec

(* Every state of a run, of the mailer and of the outbound is one of the   *)
(* declared types.                                                         *)
THEOREM OutboundTypes == Spec => []TypeOK
<1>1. Outgoing => TypeOK
  BY DEF Outgoing
<1> QED
  BY <1>1, OutgoingHolds, PTL

(* No packet is lost, whatever fails, wherever a run is killed and however *)
(* the mailer and the runs alternate, while no flag of the mailer is       *)
(* ignored (makeattach, archiver, killold).                                *)
THEOREM NoPacketLost == Spec => []NothingLost
<1>1. Outgoing => NothingLost
  BY DEF Outgoing, LossInv, Safe, NothingLost
<1> QED
  BY <1>1, OutgoingHolds, PTL

(* Between runs the mailer is told of every archive with mail in it        *)
(* (makeattach, kill).                                                     *)
THEOREM MailerTold == Spec => []Told
<1>1. Outgoing => Told
  BY DEF Outgoing, AtWork, TellInv, Naming, Full, Told
<1> QED
  BY <1>1, OutgoingHolds, PTL

(* An archive is not added to while it is sent, before the slots run out   *)
(* (the busy flags of makeattach).                                         *)
THEOREM ReadAsWritten == Spec => SentAsRead
<1>1. Outgoing /\ [Next]_vars =>
         \A l \in Links :
            sending[l] # None /\ sending'[l] = sending[l] /\ ~crossed =>
                LET n == sending[l][1]
                IN  arch'[n] \in {arch[n], None} \/ RunOut(l)
  BY ReadStep DEF Outgoing
<1> QED
  BY <1>1, OutgoingHolds, PTL DEF Spec, SentAsRead

(* A name is not used twice on a day, before the slots run out and with no *)
(* archive left from last week (the marks; adjustname, reread2).           *)
THEOREM NamesFresh == Spec => FreshNames
<1>1. Outgoing /\ [Next]_vars =>
         \A n \in used :
            /\ ~cut /\ ~RunOut(n[1]) /\ ~Leftover(n[1])
            /\ arch[n] = None \/ arch[n].has = {}
            => arch'[n] = None \/ arch'[n].has = {}
  BY FreshStep DEF Outgoing
<1> QED
  BY <1>1, OutgoingHolds, PTL DEF Spec, FreshNames

(* In a link's own directory no packet is added to an archive of an       *)
(* earlier day before the slots run out (makeattach 493-581).              *)
THEOREM NoOldBundleByBox == Spec => NoOldBundle
<1>1. Outgoing /\ [Next]_vars =>
         \A n \in Names :
            /\ conf.method[n[1]] = "box"
            /\ arch[n] # None /\ arch'[n] # None /\ arch[n].has # {}
            /\ arch[n].day # day /\ ~RunOut(n[1])
            => arch'[n].has \subseteq arch[n].has
  BY BundleStep DEF Outgoing
<1> QED
  BY <1>1, OutgoingHolds, PTL DEF Spec, NoOldBundle
==============================================================================
