---------------------------- MODULE PidLockProofs ----------------------------
(***************************************************************************)
(* Proofs about PidLock: LockInv is inductive, and with it two copies      *)
(* never work together but by a lock that checklock took from a live one,  *)
(* which needs three copies or a lock without a pid.                       *)
(***************************************************************************)
EXTENDS PidLock, FiniteSetTheorems, TLAPS

Owning == {"write", "run"}
Started == {p \in Procs : pc[p] # "none"}

\* Over, as seen from the copy p: a copy other than p has ended.
OtherEnded(p) == \E r \in Procs : r # p /\ pc[r] \in Ended \ {"none"}

(* Who has created the file owns it; the owner of the file holds it or was *)
(* killed; the pid looked up is another copy's; the file is removed after  *)
(* some other copy has ended; a live copy's lock is taken by the third.    *)
OwnerOwns == \A p \in Procs : pc[p] \in Owning => taken \/ lock = p
LockHeld  == lock # None => pc[lock] \in Owning \cup {"killed"}
SeenOther == \A p \in Procs : pc[p] = "probe" =>
                 seen[p] \in Procs \ {p} /\ pc[seen[p]] # "none"
AfterEnd  == \A p \in Procs : pc[p] = "unlink" => torn \/ OtherEnded(p)
ByThird   == taken => torn \/ Cardinality(Started) >= 3

LockInv == TypeOK /\ OwnerOwns /\ LockHeld /\ SeenOther /\ AfterEnd /\ ByThird

USE PidLockAssumption DEF PidLockAssumption

LEMMA InitInv == Init => LockInv
<1> SUFFICES ASSUME Init PROVE LockInv
  OBVIOUS
<1>1. TypeOK
  <2>1. pc \in [Procs -> Ended]
    BY DEF Init, Ended
  <2>2. 0 \in 0 .. MaxKills
    OBVIOUS
  <2> QED
    BY <2>1, <2>2 DEF Init, TypeOK
<1> QED
  BY <1>1 DEF Init, LockInv, OwnerOwns, LockHeld, SeenOther, AfterEnd, ByThird, Owning

LEMMA TypeStep == TypeOK /\ [Next]_vars => TypeOK'
<1> SUFFICES ASSUME TypeOK, [Next]_vars PROVE TypeOK'
  OBVIOUS
<1> USE DEF TypeOK, Ended, Goto
<1>1. CASE UNCHANGED vars
  BY <1>1 DEF vars
<1>2. ASSUME NEW p \in Procs, Start(p) PROVE TypeOK'
  BY <1>2 DEF Start
<1>3. ASSUME NEW p \in Procs, Kill(p) PROVE TypeOK'
  BY <1>3 DEF Kill
<1>4. ASSUME NEW p \in Procs, NoFile(p) PROVE TypeOK'
  BY <1>4 DEF NoFile
<1>5. ASSUME NEW p \in Procs, Read(p) PROVE TypeOK'
  BY <1>5 DEF Read
<1>6. ASSUME NEW p \in Procs, ReadEmpty(p) PROVE TypeOK'
  BY <1>6 DEF ReadEmpty
<1>7. ASSUME NEW p \in Procs, Probe(p) PROVE TypeOK'
  BY <1>7 DEF Probe
<1>8. ASSUME NEW p \in Procs, Unlink(p) PROVE TypeOK'
  BY <1>8 DEF Unlink
<1>9. ASSUME NEW p \in Procs, Locked(p) PROVE TypeOK'
  BY <1>9 DEF Locked
<1>10. ASSUME NEW p \in Procs, Create(p) PROVE TypeOK'
  BY <1>10 DEF Create
<1>11. ASSUME NEW p \in Procs, Write(p) PROVE TypeOK'
  BY <1>11 DEF Write
<1>12. ASSUME NEW p \in Procs, Exit(p) PROVE TypeOK'
  BY <1>12 DEF Exit
<1> QED
  BY <1>1, <1>2, <1>3, <1>4, <1>5, <1>6, <1>7, <1>8, <1>9, <1>10, <1>11, <1>12 DEF Next, Step

\* One copy moves at a time; it was not over, and it has started.
LEMMA OneMoves ==
    ASSUME TypeOK, Next
    PROVE  \E p \in Procs : /\ pc' = [pc EXCEPT ![p] = pc'[p]]
                            /\ pc[p] \notin Ended \ {"none"} /\ pc'[p] # "none"
<1>1. PICK p \in Procs : Start(p) \/ Step(p) \/ Kill(p)
  BY DEF Next
<1>2. pc[p] \notin Ended \ {"none"}
  BY <1>1 DEF Start, Step, Kill, NoFile, Read, ReadEmpty, Probe, Unlink, Locked, Create,
              Write, Exit, Alive, Ended
<1>3. \E where : where # "none" /\ pc' = [pc EXCEPT ![p] = where]
  BY <1>1 DEF Start, Step, Kill, NoFile, Read, ReadEmpty, Probe, Unlink, Locked, Create,
              Write, Exit, Goto
<1>4. PICK where : where # "none" /\ pc' = [pc EXCEPT ![p] = where]
  BY <1>3
<1>5. pc'[p] = where
  BY <1>4 DEF TypeOK
<1> QED
  BY <1>2, <1>4, <1>5

\* Who has started stays so, and who is over stays over.
LEMMA EndedStays ==
    ASSUME TypeOK, [Next]_vars
    PROVE  /\ \A r \in Procs : pc[r] # "none" => pc'[r] # "none"
           /\ \A r \in Procs : pc[r] \in Ended \ {"none"} => pc'[r] = pc[r]
<1>1. CASE UNCHANGED vars
  BY <1>1 DEF vars
<1>2. CASE Next
  <2>1. PICK p \in Procs : /\ pc' = [pc EXCEPT ![p] = pc'[p]]
                           /\ pc[p] \notin Ended \ {"none"} /\ pc'[p] # "none"
    BY <1>2, OneMoves
  <2>2. \A r \in Procs : r # p => pc'[r] = pc[r]
    BY <2>1 DEF TypeOK
  <2> QED
    BY <2>1, <2>2
<1> QED
  BY <1>1, <1>2

\* The number of copies started does not shrink.
LEMMA MoreStarted ==
    ASSUME TypeOK, [Next]_vars
    PROVE  Cardinality(Started) >= 3 => Cardinality(Started') >= 3
<1>1. Started \in SUBSET Started' /\ Started' \in SUBSET Procs
  BY EndedStays DEF Started
<1>2. IsFiniteSet(Started')
  BY <1>1, FS_Subset
<1>3. /\ IsFiniteSet(Started) /\ Cardinality(Started) <= Cardinality(Started')
  BY <1>1, <1>2, FS_Subset
<1>4. Cardinality(Started) \in Nat /\ Cardinality(Started') \in Nat
  BY <1>2, <1>3, FS_CardinalityType
<1> QED
  BY <1>3, <1>4

\* Three copies that have started are three.
LEMMA ThreeStarted ==
    ASSUME NEW p \in Started, NEW q \in Started, NEW r \in Started,
           p # q, p # r, q # r
    PROVE  Cardinality(Started) >= 3
<1> DEFINE One == {p}
           Two == One \cup {q}
           T   == Two \cup {r}
<1>1. IsFiniteSet(T) /\ Cardinality(T) = 3
  <2>1. q \notin One /\ r \notin Two
    OBVIOUS
  <2>2. IsFiniteSet(One) /\ Cardinality(One) = 1
    BY FS_Singleton, Zenon
  <2> HIDE DEF One
  <2>3. IsFiniteSet(Two) /\ Cardinality(Two) = 2
    BY <2>1, <2>2, FS_AddElement
  <2> HIDE DEF Two
  <2> QED
    BY <2>1, <2>3, FS_AddElement
<1>2. IsFiniteSet(Started)
  <2>1. Started \in SUBSET Procs
    BY DEF Started
  <2> QED
    BY <2>1, FS_Subset
<1>3. T \in SUBSET Started
  OBVIOUS
<1>4. Cardinality(T) <= Cardinality(Started)
  BY <1>2, <1>3, FS_Subset
<1> QED
  BY <1>1, <1>2, <1>4, FS_CardinalityType

\* checklock takes the lock of a live copy only from the third, or untold.
LEMMA UnlinkByThird ==
    ASSUME LockInv, NEW p \in Procs, Unlink(p), lock # None, Alive(lock)
    PROVE  torn \/ Cardinality(Started) >= 3
<1> SUFFICES ASSUME ~torn PROVE Cardinality(Started) >= 3
  OBVIOUS
<1>1. lock \in Procs /\ pc[lock] \in Owning
  BY DEF LockInv, TypeOK, LockHeld, Alive, Ended
<1>2. pc[p] = "unlink"
  BY DEF Unlink
<1>3. PICK r \in Procs : r # p /\ pc[r] \in Ended \ {"none"}
  BY <1>2 DEF LockInv, AfterEnd, OtherEnded
<1>4. p # lock /\ r # lock
  BY <1>1, <1>2, <1>3 DEF Owning, Ended
<1>5. p \in Started /\ lock \in Started /\ r \in Started
  BY <1>1, <1>2, <1>3 DEF Started, Owning
<1> QED
  BY <1>3, <1>4, <1>5, ThreeStarted

\* What the two histories keep in any step but checklock's unlink.
LEMMA KeepsThird ==
    ASSUME LockInv, [Next]_vars, taken' = taken, torn => torn'
    PROVE  ByThird'
BY MoreStarted DEF LockInv, ByThird

\* The end that an unlink goes back to has not been undone.
LEMMA KeepsAfterEnd ==
    ASSUME LockInv, [Next]_vars, torn => torn',
           \A p \in Procs : pc'[p] = "unlink" => pc[p] = "unlink" \/ torn' \/ OtherEnded(p)
    PROVE  AfterEnd'
<1> SUFFICES ASSUME NEW p \in Procs, pc'[p] = "unlink", ~torn' PROVE OtherEnded(p)'
  BY DEF AfterEnd
<1>1. OtherEnded(p)
  BY DEF LockInv, AfterEnd
<1> QED
  BY <1>1, EndedStays DEF OtherEnded, LockInv

\* And the copy whose pid was read has still been started.
LEMMA KeepsSeen ==
    ASSUME LockInv, [Next]_vars,
           \A p \in Procs : pc'[p] = "probe" =>
               \/ pc[p] = "probe" /\ seen'[p] = seen[p]
               \/ seen'[p] \in Procs \ {p} /\ pc[seen'[p]] # "none"
    PROVE  SeenOther'
BY EndedStays DEF LockInv, SeenOther

\* Every step keeps LockInv.
LEMMA StepInv == LockInv /\ [Next]_vars => LockInv'
<1> SUFFICES ASSUME LockInv, [Next]_vars PROVE LockInv'
  OBVIOUS
<1> USE DEF Owning, Goto
<1>1. TypeOK /\ OwnerOwns /\ LockHeld
  BY DEF LockInv
<1>2. TypeOK'
  BY <1>1, TypeStep
<1>3. CASE UNCHANGED vars
  BY <1>3, <1>1, <1>2 DEF vars, LockInv, OwnerOwns, LockHeld, SeenOther, AfterEnd, ByThird,
                       OtherEnded, Started
<1>4. ASSUME NEW p \in Procs, Start(p) PROVE LockInv'
  <2>1. OwnerOwns' /\ LockHeld'
    BY <1>4, <1>1, <1>2 DEF Start, OwnerOwns, LockHeld, TypeOK
  <2>2. SeenOther'
    <3>1. \A q \in Procs : pc'[q] = "probe" => pc[q] = "probe" /\ seen'[q] = seen[q]
      BY <1>4, <1>1 DEF Start, TypeOK
    <3> QED
      BY <3>1, KeepsSeen
  <2>3. AfterEnd'
    <3>1. \A q \in Procs : pc'[q] = "unlink" => pc[q] = "unlink" \/ torn'
      BY <1>4, <1>1 DEF Start, TypeOK
    <3> QED
      BY <1>4, <3>1, KeepsAfterEnd DEF Start
  <2>4. ByThird'
    BY <1>4, KeepsThird DEF Start
  <2> QED
    BY <1>2, <2>1, <2>2, <2>3, <2>4 DEF LockInv
<1>5. ASSUME NEW p \in Procs, NoFile(p) PROVE LockInv'
  <2>1. OwnerOwns' /\ LockHeld'
    BY <1>5, <1>1, <1>2 DEF NoFile, OwnerOwns, LockHeld, TypeOK
  <2>2. SeenOther'
    <3>1. \A q \in Procs : pc'[q] = "probe" => pc[q] = "probe" /\ seen'[q] = seen[q]
      BY <1>5, <1>1 DEF NoFile, TypeOK
    <3> QED
      BY <3>1, KeepsSeen
  <2>3. AfterEnd'
    <3>1. \A q \in Procs : pc'[q] = "unlink" => pc[q] = "unlink" \/ torn'
      BY <1>5, <1>1 DEF NoFile, TypeOK
    <3> QED
      BY <1>5, <3>1, KeepsAfterEnd DEF NoFile
  <2>4. ByThird'
    BY <1>5, KeepsThird DEF NoFile
  <2> QED
    BY <1>2, <2>1, <2>2, <2>3, <2>4 DEF LockInv
<1>6. ASSUME NEW p \in Procs, Read(p) PROVE LockInv'
  <2>1. OwnerOwns' /\ LockHeld'
    BY <1>6, <1>1, <1>2 DEF Read, OwnerOwns, LockHeld, TypeOK
  <2>2. SeenOther'
    <3>1. lock \in Procs \ {p} /\ pc[lock] # "none" /\ seen'[p] = lock
      <4>1. pc[p] = "check" /\ lock \in Procs /\ seen' = [seen EXCEPT ![p] = lock]
        BY <1>6, <1>1 DEF Read, TypeOK
      <4>2. pc[lock] \in {"write", "run", "killed"}
        BY <1>6, <1>1 DEF Read, LockHeld
      <4>3. seen'[p] = lock
        BY <4>1, <1>1 DEF TypeOK
      <4> QED
        BY <4>1, <4>2, <4>3
    <3>2. \A q \in Procs : pc'[q] = "probe" => q = p \/ (pc[q] = "probe" /\ seen'[q] = seen[q])
      BY <1>6, <1>1 DEF Read, TypeOK
    <3> QED
      BY <3>1, <3>2, KeepsSeen
  <2>3. AfterEnd'
    <3>1. \A q \in Procs : pc'[q] = "unlink" => pc[q] = "unlink" \/ torn'
      BY <1>6, <1>1 DEF Read, TypeOK
    <3> QED
      BY <1>6, <3>1, KeepsAfterEnd DEF Read
  <2>4. ByThird'
    BY <1>6, KeepsThird DEF Read
  <2> QED
    BY <1>2, <2>1, <2>2, <2>3, <2>4 DEF LockInv
<1>7. ASSUME NEW p \in Procs, ReadEmpty(p) PROVE LockInv'
  <2>1. OwnerOwns' /\ LockHeld'
    BY <1>7, <1>1, <1>2 DEF ReadEmpty, OwnerOwns, LockHeld, TypeOK
  <2>2. SeenOther'
    <3>1. \A q \in Procs : pc'[q] = "probe" => pc[q] = "probe" /\ seen'[q] = seen[q]
      BY <1>7, <1>1 DEF ReadEmpty, TypeOK
    <3> QED
      BY <3>1, KeepsSeen
  <2>3. AfterEnd'
    <3>1. \A q \in Procs : pc'[q] = "unlink" => pc[q] = "unlink" \/ torn'
      BY <1>7, <1>1 DEF ReadEmpty, TypeOK
    <3> QED
      BY <1>7, <3>1, KeepsAfterEnd DEF ReadEmpty
  <2>4. ByThird'
    BY <1>7, KeepsThird DEF ReadEmpty
  <2> QED
    BY <1>2, <2>1, <2>2, <2>3, <2>4 DEF LockInv
<1>8. ASSUME NEW p \in Procs, Probe(p) PROVE LockInv'
  <2>1. OwnerOwns' /\ LockHeld'
    BY <1>8, <1>1, <1>2 DEF Probe, OwnerOwns, LockHeld, TypeOK
  <2>2. SeenOther'
    <3>1. \A q \in Procs : pc'[q] = "probe" => pc[q] = "probe" /\ seen'[q] = seen[q]
      BY <1>8, <1>1 DEF Probe, TypeOK
    <3> QED
      BY <3>1, KeepsSeen
  <2>3. AfterEnd'
    <3>1. ~Alive(seen[p]) => OtherEnded(p)
      BY <1>8 DEF Probe, LockInv, SeenOther, OtherEnded, Alive
    <3>2. \A q \in Procs : pc'[q] = "unlink" => pc[q] = "unlink" \/ OtherEnded(q)
      BY <1>8, <3>1, <1>1 DEF Probe, TypeOK
    <3> QED
      BY <1>8, <3>2, KeepsAfterEnd DEF Probe
  <2>4. ByThird'
    BY <1>8, KeepsThird DEF Probe
  <2> QED
    BY <1>2, <2>1, <2>2, <2>3, <2>4 DEF LockInv
<1>9. ASSUME NEW p \in Procs, Unlink(p) PROVE LockInv'
  <2>1. OwnerOwns' /\ LockHeld'
    BY <1>9, <1>1, <1>2 DEF Unlink, OwnerOwns, LockHeld, TypeOK, Alive, Ended
  <2>2. SeenOther'
    <3>1. \A q \in Procs : pc'[q] = "probe" => pc[q] = "probe" /\ seen'[q] = seen[q]
      BY <1>9, <1>1 DEF Unlink, TypeOK
    <3> QED
      BY <3>1, KeepsSeen
  <2>3. AfterEnd'
    <3>1. \A q \in Procs : pc'[q] = "unlink" => pc[q] = "unlink" \/ torn'
      BY <1>9, <1>1 DEF Unlink, TypeOK
    <3> QED
      BY <1>9, <3>1, KeepsAfterEnd DEF Unlink
  <2>4. ByThird'
    <3>1. CASE taken' = taken
      BY <1>9, <3>1, KeepsThird DEF Unlink
    <3>2. CASE taken' # taken
      <4>1. lock # None /\ Alive(lock)
        BY <1>9, <3>2, <1>1 DEF Unlink, TypeOK
      <4>2. torn \/ Cardinality(Started) >= 3
        BY <1>9, <4>1, UnlinkByThird
      <4> QED
        BY <1>9, <4>2, <1>1, MoreStarted DEF Unlink, ByThird
    <3> QED
      BY <3>1, <3>2
  <2> QED
    BY <1>2, <2>1, <2>2, <2>3, <2>4 DEF LockInv
<1>10. ASSUME NEW p \in Procs, Locked(p) PROVE LockInv'
  <2>1. OwnerOwns' /\ LockHeld'
    BY <1>10, <1>1, <1>2 DEF Locked, OwnerOwns, LockHeld, TypeOK
  <2>2. SeenOther'
    <3>1. \A q \in Procs : pc'[q] = "probe" => pc[q] = "probe" /\ seen'[q] = seen[q]
      BY <1>10, <1>1 DEF Locked, TypeOK
    <3> QED
      BY <3>1, KeepsSeen
  <2>3. AfterEnd'
    <3>1. \A q \in Procs : pc'[q] = "unlink" => pc[q] = "unlink" \/ torn'
      BY <1>10, <1>1 DEF Locked, TypeOK
    <3> QED
      BY <1>10, <3>1, KeepsAfterEnd DEF Locked
  <2>4. ByThird'
    BY <1>10, KeepsThird DEF Locked
  <2> QED
    BY <1>2, <2>1, <2>2, <2>3, <2>4 DEF LockInv
<1>11. ASSUME NEW p \in Procs, Create(p) PROVE LockInv'
  <2>1. OwnerOwns' /\ LockHeld'
    BY <1>11, <1>1, <1>2 DEF Create, OwnerOwns, LockHeld, TypeOK
  <2>2. SeenOther'
    <3>1. \A q \in Procs : pc'[q] = "probe" => pc[q] = "probe" /\ seen'[q] = seen[q]
      BY <1>11, <1>1 DEF Create, TypeOK
    <3> QED
      BY <3>1, KeepsSeen
  <2>3. AfterEnd'
    <3>1. \A q \in Procs : pc'[q] = "unlink" => pc[q] = "unlink" \/ torn'
      BY <1>11, <1>1 DEF Create, TypeOK
    <3> QED
      BY <1>11, <3>1, KeepsAfterEnd DEF Create
  <2>4. ByThird'
    BY <1>11, KeepsThird DEF Create
  <2> QED
    BY <1>2, <2>1, <2>2, <2>3, <2>4 DEF LockInv
<1>12. ASSUME NEW p \in Procs, Write(p) PROVE LockInv'
  <2>1. OwnerOwns' /\ LockHeld'
    BY <1>12, <1>1, <1>2 DEF Write, OwnerOwns, LockHeld, TypeOK
  <2>2. SeenOther'
    <3>1. \A q \in Procs : pc'[q] = "probe" => pc[q] = "probe" /\ seen'[q] = seen[q]
      BY <1>12, <1>1 DEF Write, TypeOK
    <3> QED
      BY <3>1, KeepsSeen
  <2>3. AfterEnd'
    <3>1. \A q \in Procs : pc'[q] = "unlink" => pc[q] = "unlink" \/ torn'
      BY <1>12, <1>1 DEF Write, TypeOK
    <3> QED
      BY <1>12, <3>1, KeepsAfterEnd DEF Write
  <2>4. ByThird'
    BY <1>12, KeepsThird DEF Write
  <2> QED
    BY <1>2, <2>1, <2>2, <2>3, <2>4 DEF LockInv
<1>13. ASSUME NEW p \in Procs, Exit(p) PROVE LockInv'
  <2>1. OwnerOwns' /\ LockHeld'
    BY <1>13, <1>1, <1>2 DEF Exit, OwnerOwns, LockHeld, TypeOK
  <2>2. SeenOther'
    <3>1. \A q \in Procs : pc'[q] = "probe" => pc[q] = "probe" /\ seen'[q] = seen[q]
      BY <1>13, <1>1 DEF Exit, TypeOK
    <3> QED
      BY <3>1, KeepsSeen
  <2>3. AfterEnd'
    <3>1. \A q \in Procs : pc'[q] = "unlink" => pc[q] = "unlink" \/ torn'
      BY <1>13, <1>1 DEF Exit, TypeOK
    <3> QED
      BY <1>13, <3>1, KeepsAfterEnd DEF Exit
  <2>4. ByThird'
    BY <1>13, KeepsThird DEF Exit
  <2> QED
    BY <1>2, <2>1, <2>2, <2>3, <2>4 DEF LockInv
<1>14. ASSUME NEW p \in Procs, Kill(p) PROVE LockInv'
  <2>1. OwnerOwns' /\ LockHeld'
    BY <1>14, <1>1, <1>2 DEF Kill, OwnerOwns, LockHeld, TypeOK, Alive, Ended
  <2>2. SeenOther'
    <3>1. \A q \in Procs : pc'[q] = "probe" => pc[q] = "probe" /\ seen'[q] = seen[q]
      BY <1>14, <1>1 DEF Kill, TypeOK, Alive, Ended
    <3> QED
      BY <3>1, KeepsSeen
  <2>3. AfterEnd'
    <3>1. \A q \in Procs : pc'[q] = "unlink" => pc[q] = "unlink" \/ torn'
      BY <1>14, <1>1 DEF Kill, TypeOK, Alive, Ended
    <3> QED
      BY <1>14, <3>1, KeepsAfterEnd DEF Kill
  <2>4. ByThird'
    BY <1>14, KeepsThird DEF Kill
  <2> QED
    BY <1>2, <2>1, <2>2, <2>3, <2>4 DEF LockInv
<1> QED
  BY <1>3, <1>4, <1>5, <1>6, <1>7, <1>8, <1>9, <1>10, <1>11, <1>12,
     <1>13, <1>14 DEF Next, Step

(* The lock keeps its types for any number of copies, with or without -w.  *)
THEOREM LockTypeCorrect == Spec => []TypeOK
<1>1. LockInv => TypeOK
  BY DEF LockInv
<1> QED
  BY <1>1, InitInv, StepInv, PTL DEF Spec

(* Of any number of copies of ParToss (checklock, writelock, removelock),  *)
(* each that works has the lock, whichever are killed and when, unless     *)
(* checklock took a live one's; and that takes a third copy, or a lock     *)
(* read before its pid was written.                                        *)
THEOREM OneAtATime == Spec => []Exclusive
<1>1. LockInv => Exclusive
  BY DEF LockInv, OwnerOwns, ByThird, Exclusive, Running, Owning, Started
<1> QED
  BY <1>1, InitInv, StepInv, PTL DEF Spec
==============================================================================
