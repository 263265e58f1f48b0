----------------------------- MODULE SquishBase -----------------------------
(***************************************************************************)
(* One Squish message base and the write path of buftosqd (buftosqd.cpp),  *)
(* write by write, with opensqd and closesqd around it (partsqd.cpp).      *)
(*                                                                         *)
(* On disk: the data file .sqd - a header and frames, each on one of two   *)
(* doubly linked chains, messages and free frames - and the index .sqi,    *)
(* one entry per message.  An offset in the file is the ordinal of the     *)
(* frame that starts there, 0 is "none"; a frame keeps its place and       *)
(* extent for ever.  Lengths are abstracted to a few sizes, the text of a  *)
(* message to its number (umsgid).                                         *)
(*                                                                         *)
(* buftosqd copies the header into sqbuf, updates the copy as it goes and  *)
(* writes it back near the end; every disk write is one action, so a       *)
(* process killed between two writes leaves what the earlier ones left.    *)
(***************************************************************************)
EXTENDS Integers, Sequences

CONSTANTS
    Sizes,      \* sizes of messages
    Limits,     \* limits the base gets, by -$m or another program, 0 for none
    Skip,       \* -$s: messages at the front that are not deleted
    NoFresh,    \* ExternalLimits: other programs keep the limits in the header
    MaxId,      \* bound: numbers the base gives out
    Editor,     \* may a mail reader delete messages: "no", "some", "all"
    Crashes     \* may the process be killed in the middle of buftosqd

ASSUME SquishAssumption ==
    /\ Sizes \subseteq Nat \ {0}
    /\ Limits \subseteq Nat
    /\ Skip \in Nat
    /\ NoFresh \in BOOLEAN
    /\ MaxId \in Nat
    /\ Editor \in {"no", "some", "all"}
    /\ Crashes \in BOOLEAN

VARIABLES
    sqd,     \* the frames of the data file
    hdr,     \* its header, on disk
    sqi,     \* the index file
    maxmsg,  \* the limit: opensqd copies area.messages into the header, or back
    pc,      \* the next write of buftosqd; "closed" and "idle" around it
    sqbuf,   \* the header being worked on
    cur,     \* current: the frame being freed, examined or written
    pcurr,   \* the frame header last read at cur
    msg,     \* the message being stored: its size
    \* history variables, not part of the program
    before,  \* the list of numbers when buftosqd was entered
    killed   \* it was killed between two writes

disk == <<sqd, hdr, sqi>>
hist == <<before, killed>>
vars == <<sqd, hdr, sqi, maxmsg, pc, sqbuf, cur, pcurr, msg, hist>>

\* frlength, frametype = 1, msglength, umsgid of the message stored
Frame == [next : Nat, prev : Nat, size : Nat, free : BOOLEAN, len : Nat, id : Nat]
Header == [n : Nat, uid : Nat, first : Nat, last : Nat,
           firstf : Nat, lastf : Nat, endf : Nat]
Pointers == [next : Nat, prev : Nat, size : Nat]
Entry == [off : Nat, id : Nat]

Control == {"closed", "idle", "purge", "tail", "free", "shift", "find", "unlink",
            "relink", "link", "frame", "header", "index"}

TypeOK ==
    /\ sqd \in Seq(Frame)
    /\ hdr \in Header
    /\ sqi \in Seq(Entry)
    /\ maxmsg \in Limits
    /\ pc \in Control
    /\ sqbuf \in Header
    /\ cur \in Nat
    /\ pcurr \in Pointers
    /\ msg \in Sizes \cup {0}
    /\ before \in Seq(Nat)
    /\ killed \in BOOLEAN

NoPointers == [next |-> 0, prev |-> 0, size |-> 0]

\* The header of a base opensqd creates.
NewHeader == [n |-> 0, uid |-> 1, first |-> 0, last |-> 0,
              firstf |-> 0, lastf |-> 0, endf |-> 1]

Init ==
    /\ sqd = <<>>
    /\ hdr = NewHeader
    /\ sqi = <<>>
    /\ maxmsg \in Limits
    /\ pc = "closed"
    /\ sqbuf = NewHeader
    /\ cur = 0
    /\ pcurr = NoPointers
    /\ msg = 0
    /\ before = <<>>
    /\ killed = FALSE

\* The messages a program that opens the base sees (opensqd: no more than
\* the index has entries).
Count == IF Len(sqi) < hdr.n THEN Len(sqi) ELSE hdr.n
Listed == [i \in 1 .. Count |-> sqi[i].id]

\* sqread checks the frame's mark: it is absent at offset 0.
Readable(off) == off \in 1 .. Len(sqd)
PointersAt(off) == [next |-> sqd[off].next, prev |-> sqd[off].prev, size |-> sqd[off].size]

-----------------------------------------------------------------------------
(* Opening and closing *)

\* opensqd: a header that counts more messages than the index has entries is
\* corrected, the limits are refreshed, the header is written.  With ExternalLimits
\* it is not written, and buftosqd will read the one that was not corrected.
Open ==
    /\ pc = "closed"
    /\ pc' = "idle"
    /\ hdr' = [hdr EXCEPT !.n = IF NoFresh THEN @ ELSE Count]
    /\ UNCHANGED <<sqd, sqi, maxmsg, sqbuf, cur, pcurr, msg, hist>>

\* closesqd.
Close ==
    /\ pc = "idle"
    /\ pc' = "closed"
    /\ UNCHANGED <<disk, maxmsg, sqbuf, cur, pcurr, msg, hist>>

\* Between two runs the sysop changes -$m, or another program the header's limit.
SetLimit(m) ==
    /\ pc = "closed"
    /\ m # maxmsg
    /\ maxmsg' = m
    /\ UNCHANGED <<disk, pc, sqbuf, cur, pcurr, msg, hist>>

-----------------------------------------------------------------------------
(* buftosqd: making room *)

\* Bug: a message is dropped too late.
FullLate(b) == maxmsg > 0 /\ b.n > maxmsg

Full(b) == maxmsg > 0 /\ b.n >= maxmsg

\* What may be in memory where no entry was read: an entry of the area before, or
\* anything (what is no offset of a frame is as good as 0).
Leavings == [off : 0 .. Len(sqd), id : 0 .. MaxId]

\* The entry after the protected ones, in the window of the index in memory.
FirstToDrop == IF Skip < Len(sqi) THEN {sqi[Skip + 1]} ELSE Leavings

\* The header is read; in a base at its limit messages are dropped, if the first
\* can be read, else a frame is looked for.
Start(size) ==
    /\ pc = "idle"
    /\ hdr.uid <= MaxId
    /\ sqbuf' = hdr
    /\ msg' = size
    /\ before' = Listed
    /\ killed' = killed
    /\ IF Full(hdr)
       THEN /\ \E entry \in FirstToDrop : cur' = entry.off
            /\ pc' = IF Readable(cur') THEN "purge" ELSE "idle"
       ELSE pc' = "find" /\ cur' = hdr.firstf
    /\ UNCHANGED <<disk, maxmsg, pcurr>>

\* sqread of frame off fails: the message is put aside by backup(0), the
\* base is reported corrupted and left as the writes so far made it.
Abandon == pc' = "idle" /\ UNCHANGED <<sqd, sqbuf>>

\* The successor becomes the first message: its prev is cleared.
PurgeHead ==
    LET succ == sqd[cur].next
    IN  /\ pc = "purge"
        /\ IF Readable(succ)
           THEN /\ sqd' = [sqd EXCEPT ![succ].prev = 0]
                /\ sqbuf' = [sqbuf EXCEPT !.first = succ]
                /\ pc' = IF sqbuf.lastf # 0 THEN "tail" ELSE "free"
           ELSE Abandon
        /\ UNCHANGED <<hdr, sqi, maxmsg, cur, pcurr, msg, hist>>

\* Bug: the free chain is not continued.
PurgeTailLoose ==
    /\ pc = "tail"
    /\ pc' = "free"
    /\ UNCHANGED <<disk, maxmsg, sqbuf, cur, pcurr, msg, hist>>

\* The last free frame, if any, points to the dropped frame ...
PurgeTail ==
    /\ pc = "tail"
    /\ sqd' = [sqd EXCEPT ![sqbuf.lastf].next = cur]
    /\ pc' = "free"
    /\ UNCHANGED <<hdr, sqi, maxmsg, sqbuf, cur, pcurr, msg, hist>>

\* ... which becomes the last free one.
PurgeFree ==
    /\ pc = "free"
    /\ sqd' = [sqd EXCEPT ![cur].free = TRUE, ![cur].next = 0,
                          ![cur].prev = sqbuf.lastf]
    /\ sqbuf' = [sqbuf EXCEPT !.lastf = cur,
                              !.firstf = IF sqbuf.lastf = 0 THEN cur ELSE @]
    /\ pc' = "shift"
    /\ UNCHANGED <<hdr, sqi, maxmsg, cur, pcurr, msg, hist>>

\* The entry read last while the entries move up.
Behind == IF Skip + 1 < Len(sqi) THEN {sqi[Len(sqi)]} ELSE Leavings

\* The entries behind the dropped one move up, each by a read and a write; behind the
\* end of the index nothing is read, and what was read last is written again, for
\* every entry the header counts.  Then the next message is dropped in the same way,
\* or the index is cut to the limit.
PurgeShift ==
    LET b == [sqbuf EXCEPT !.n = @ - 1]
        counted == IF Len(sqi) < sqbuf.n THEN sqbuf.n ELSE Len(sqi)
        shifted(behind) ==
            [i \in 1 .. counted |->
                IF i <= Len(sqi) /\ i \notin (Skip + 1) .. sqbuf.n THEN sqi[i]
                ELSE IF i < Len(sqi) THEN sqi[i + 1] ELSE behind]
    IN  /\ pc = "shift"
        /\ sqbuf' = b
        /\ \E behind \in Behind :
              IF Full(b)
              THEN pc' = "purge" /\ cur' = sqbuf.first /\ sqi' = shifted(behind)
              ELSE /\ pc' = "find"
                   /\ cur' = b.firstf
                   /\ sqi' = SubSeq(shifted(behind), 1, maxmsg)
        /\ UNCHANGED <<sqd, hdr, maxmsg, pcurr, msg, hist>>

-----------------------------------------------------------------------------
(* buftosqd: finding a place *)

\* Bug: the search stays where it is.
FindSame ==
    /\ pc = "find"
    /\ cur # 0
    /\ sqd[cur].size < msg
    /\ pcurr' = PointersAt(cur)
    /\ UNCHANGED <<disk, maxmsg, pc, sqbuf, cur, msg, hist>>

\* First fit along the free chain.  pcurr keeps the frame examined last.
FindNext ==
    /\ pc = "find"
    /\ cur # 0
    /\ sqd[cur].size < msg
    /\ pcurr' = PointersAt(cur)
    /\ cur' = sqd[cur].next
    /\ UNCHANGED <<disk, maxmsg, pc, sqbuf, msg, hist>>

\* A frame fits: it leaves the free chain in the header's copy.
Found ==
    /\ pc = "find"
    /\ cur # 0
    /\ sqd[cur].size >= msg
    /\ pcurr' = PointersAt(cur)
    /\ sqbuf' = [sqbuf EXCEPT
          !.firstf = IF cur = @ THEN sqd[cur].next ELSE @,
          !.lastf = IF cur = @ THEN sqd[cur].prev ELSE @]
    /\ pc' = "unlink"
    /\ UNCHANGED <<disk, maxmsg, cur, msg, hist>>

\* Its neighbours on the free chain are tied together, one write each.
Unlink ==
    /\ pc = "unlink"
    /\ sqd' = IF pcurr.prev # 0 THEN [sqd EXCEPT ![pcurr.prev].next = pcurr.next] ELSE sqd
    /\ pc' = "relink"
    /\ UNCHANGED <<hdr, sqi, maxmsg, sqbuf, cur, pcurr, msg, hist>>

Relink ==
    /\ pc = "relink"
    /\ sqd' = IF pcurr.next # 0 THEN [sqd EXCEPT ![pcurr.next].prev = pcurr.prev] ELSE sqd
    /\ pc' = "link"
    /\ UNCHANGED <<hdr, sqi, maxmsg, sqbuf, cur, pcurr, msg, hist>>

\* The last message points to the reused frame.
Link ==
    /\ pc = "link"
    /\ IF sqbuf.last # 0
       THEN /\ sqd' = [sqd EXCEPT ![sqbuf.last].next = cur]
            /\ pcurr' = [pcurr EXCEPT !.prev = sqbuf.last]
       ELSE sqd' = sqd /\ pcurr' = [pcurr EXCEPT !.prev = 0]
    /\ pc' = "frame"
    /\ UNCHANGED <<hdr, sqi, maxmsg, sqbuf, cur, msg, hist>>

\* No frame fits: the message goes to the end of the file.  Only when there is
\* a last message is pcurr prepared; otherwise it still describes the free
\* frame examined last.  (With no free frame either, pcurr was read from the
\* file header: its prev is then highmsg, 0 in an empty base.)
AtEnd ==
    /\ pc = "find"
    /\ cur = 0
    /\ cur' = sqbuf.endf
    /\ IF sqbuf.last # 0
       THEN /\ sqd' = [sqd EXCEPT ![sqbuf.last].next = sqbuf.endf]
            /\ pcurr' = [next |-> 0, prev |-> sqbuf.last, size |-> 0]
       ELSE /\ sqd' = sqd
            /\ pcurr' = IF sqbuf.firstf # 0 THEN pcurr ELSE NoPointers
    /\ pc' = "frame"
    /\ UNCHANGED <<hdr, sqi, maxmsg, sqbuf, msg, hist>>

-----------------------------------------------------------------------------
(* buftosqd: storing the message *)

\* The frame header and the text; a reused frame keeps its extent.
WriteFrame ==
    LET frame == [next |-> 0, prev |-> pcurr.prev,
                  size |-> IF pcurr.size < msg THEN msg ELSE pcurr.size,
                  free |-> FALSE, len |-> msg, id |-> sqbuf.uid]
    IN  /\ pc = "frame"
        /\ sqd' = IF cur > Len(sqd) THEN Append(sqd, frame)
                                    ELSE [sqd EXCEPT ![cur] = frame]
        /\ sqbuf' = [sqbuf EXCEPT !.last = cur,
                                  !.first = IF @ = 0 THEN cur ELSE @]
        /\ pc' = "header"
        /\ UNCHANGED <<hdr, sqi, maxmsg, cur, pcurr, msg, hist>>

\* Bug: the number given is not taken.
WriteHeaderStale ==
    /\ pc = "header"
    /\ sqbuf' = [sqbuf EXCEPT !.n = @ + 1, !.uid = @ + 1, !.endf = Len(sqd) + 1]
    /\ hdr' = [sqbuf' EXCEPT !.uid = hdr.uid]
    /\ pc' = "index"
    /\ UNCHANGED <<sqd, sqi, maxmsg, cur, pcurr, msg, hist>>

\* The header is written back with one message and one number more.
WriteHeader ==
    /\ pc = "header"
    /\ sqbuf' = [sqbuf EXCEPT !.n = @ + 1, !.uid = @ + 1, !.endf = Len(sqd) + 1]
    /\ hdr' = sqbuf'
    /\ pc' = "index"
    /\ UNCHANGED <<sqd, sqi, maxmsg, cur, pcurr, msg, hist>>

\* The new entry is the last one counted; if the header counted more entries than
\* there are, what lies between is written from memory.
WriteIndex ==
    LET entry == [off |-> cur, id |-> sqbuf.uid - 1]
    IN  /\ pc = "index"
        /\ IF sqbuf.n <= Len(sqi) THEN sqi' = [sqi EXCEPT ![sqbuf.n] = entry]
           ELSE \E gap \in [1 .. sqbuf.n - 1 - Len(sqi) -> Leavings] :
                    sqi' = Append(sqi \o gap, entry)
        /\ pc' = "idle"
        /\ UNCHANGED <<sqd, hdr, maxmsg, sqbuf, cur, pcurr, msg, hist>>

Store ==
    \/ PurgeHead \/ PurgeTail \/ PurgeFree \/ PurgeShift
    \/ FindNext \/ Found \/ Unlink \/ Relink \/ Link \/ AtEnd
    \/ WriteFrame \/ WriteHeader \/ WriteIndex

-----------------------------------------------------------------------------
(* The environment *)

\* The process is killed; the base is as the writes so far left it.
Crash ==
    /\ Crashes
    /\ pc \notin {"closed", "idle"}
    /\ pc' = "closed"
    /\ killed' = TRUE
    /\ UNCHANGED <<disk, maxmsg, sqbuf, cur, pcurr, msg, before>>

\* A mail reader deletes the k-th message by the algorithm of structur.doc:
\* out of the chain of messages, to the end of the free chain, out of the index.
Delete(k) ==
    LET f == sqi[k].off
        p == sqd[f].prev
        q == sqd[f].next
    IN  /\ pc = "closed"
        /\ Editor # "no"
        /\ Readable(f)
        /\ Count > 1 \/ Editor = "all"
        /\ sqd' = [i \in 1 .. Len(sqd) |->
              IF i = f THEN [sqd[f] EXCEPT !.free = TRUE, !.next = 0, !.prev = hdr.lastf]
              ELSE [sqd[i] EXCEPT !.next = IF i = p THEN q
                                           ELSE IF i = hdr.lastf THEN f ELSE @,
                                  !.prev = IF i = q THEN p ELSE @]]
        /\ hdr' = [hdr EXCEPT !.n = Count - 1,
                              !.first = IF @ = f THEN q ELSE @,
                              !.last = IF @ = f THEN p ELSE @,
                              !.firstf = IF @ = 0 THEN f ELSE @,
                              !.lastf = f]
        /\ sqi' = SubSeq(sqi, 1, k - 1) \o SubSeq(sqi, k + 1, Len(sqi))
        /\ UNCHANGED <<maxmsg, pc, sqbuf, cur, pcurr, msg, hist>>

Next ==
    \/ Open \/ Close \/ Store \/ Crash
    \/ \E size \in Sizes : Start(size)
    \/ \E m \in Limits : SetLimit(m)
    \/ \E k \in 1 .. Count : Delete(k)

Spec == Init /\ [][Next]_vars

\* A process that is not killed runs buftosqd to its end.
FairSpec == Spec /\ WF_vars(Store)

-----------------------------------------------------------------------------
(* Properties *)

AtRest == pc \in {"closed", "idle"}

Offsets == {sqi[i].off : i \in 1 .. Count}
FreeFrames == {f \in 1 .. Len(sqd) : sqd[f].free}

\* Between two calls the chain of messages and the index tell the same story:
\* the same messages in the same order, linked both ways, the header at both
\* ends ("two chains, each a bidirectional list", structur.doc:100-104).
ChainMatchesIndex ==
    AtRest =>
        LET off(i) == IF i \in 1 .. Count THEN sqi[i].off ELSE 0
        IN  /\ hdr.first = off(1)
            /\ hdr.last = off(Count)
            /\ \A i \in 1 .. Count :
                  /\ off(i) \in 1 .. Len(sqd)
                  /\ sqd[off(i)].next = off(i + 1)
                  /\ sqd[off(i)].prev = off(i - 1)

\* Between two calls the free frames form the other chain, and every frame is
\* on exactly one of the two: none is lost and none can be handed out twice.
FreeChainComplete ==
    AtRest =>
        /\ FreeFrames \cap Offsets = {}
        /\ FreeFrames \cup Offsets = 1 .. Len(sqd)
        /\ hdr.firstf # 0 <=> FreeFrames # {}
        /\ hdr.lastf # 0 <=> FreeFrames # {}
        /\ \A f \in FreeFrames :
              /\ IF f = hdr.firstf THEN sqd[f].prev = 0
                 ELSE sqd[f].prev \in FreeFrames /\ sqd[sqd[f].prev].next = f
              /\ IF f = hdr.lastf THEN sqd[f].next = 0
                 ELSE sqd[f].next \in FreeFrames /\ sqd[sqd[f].next].prev = f

\* Both, in a base on which no call was killed: the chain of messages tells what the
\* index tells, and every other frame is on the chain of free frames.
TwoChains == ~killed => ChainMatchesIndex /\ FreeChainComplete

\* What the index lists can be read: each entry leads to a frame of its own
\* that holds the message the entry is numbered for and is large enough, and
\* the numbers ascend below the next one to be given.
IndexReadable ==
    AtRest =>
        /\ \A i \in 1 .. Count :
              /\ sqi[i].off \in 1 .. Len(sqd)
              /\ sqd[sqi[i].off].id = sqi[i].id
              /\ ~sqd[sqi[i].off].free
              /\ sqd[sqi[i].off].len <= sqd[sqi[i].off].size
              /\ sqi[i].id < hdr.uid
        /\ \A i, j \in 1 .. Count : i < j => sqi[i].id < sqi[j].id

\* The list a base promises its users.
List == INSTANCE EchoList WITH
    list <- IF AtRest THEN Listed ELSE before, max <- maxmsg, skip <- Skip

\* Write by write, the base implements the list.
ImplementsList == List!Spec

\* Once started, a call ends.
StoreEnds == pc \notin {"closed", "idle"} ~> AtRest
=============================================================================
