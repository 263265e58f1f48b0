------------------------------ MODULE DupeBase ------------------------------
(***************************************************************************)
(* The duplicate base of the tosser: one ring in memory (DupeRing), one    *)
(* .sqp file per echo area, and the netmail file "dupcheck", as tosspkt    *)
(* drives them (tossarcs.cpp, partsqd.cpp, crc32.cpp, buftomsg.cpp).       *)
(*                                                                         *)
(* The same three globals serve every area in turn: opensqd reads an       *)
(* area's file into them, dupcheck works on them, closesqd writes them     *)
(* back to the file of the area that is closed.  Nothing ties the content  *)
(* of the ring to the area whose limit and file are being used; that tie   *)
(* is what the properties below are about.                                 *)
(*                                                                         *)
(* Conditions selects which circumstances a site may meet:                 *)
(*   "barren"  an area's new file is left without one accepted message     *)
(*   "backup"  a message is put aside into PtBackUp.Tkp by backup(1)       *)
(*   "netmail" NetMailDupes is on and netmail is tossed between echomail   *)
(*   "carbon"  personal copies go to an area that has duplicate control    *)
(*   "reconf"  the sysop changes an area's limit between two runs          *)
(***************************************************************************)
EXTENDS DupeRing

CONSTANTS
    Area,        \* echo areas (type 1)
    Limits,      \* the limits an area may be configured with, 0 for none
    NoArea,      \* newarea before the first setarea
    NoFile, Empty, \* an .sqp file that does not exist, or has no bytes
    Conditions   \* the circumstances enabled, see above

Image == [ring : Ring, slots : 0 .. Cap]
File  == Image \cup {NoFile, Empty}

ASSUME BaseAssumption ==
    /\ NoArea \notin Area
    /\ Limits \subseteq 0 .. Cap
    /\ NoFile # Empty
    /\ NoFile \notin Image
    /\ Empty \notin Image

VARIABLES
    limit,     \* limit[a]: area.dupes of the configuration
    alloc,     \* bcfg.maxdupes, the size dupbuf was allocated with
    ring,      \* dupemax, dupecur, dupbuf
    newarea,   \* newarea->areaname
    open,      \* newarea->open
    duptouch,  \* newarea->duptouch
    sqp,       \* sqp[a]: the file on disk
    netdup,    \* the netmail file "dupcheck"
    \* history variables, not part of the program
    hist,      \* the open area's latest limit insertions
    stored,    \* stored[a]: the value of hist its file was written with
    seen,      \* seen[a]: every checksum area a accepted
    netseen    \* every checksum of an accepted netmail message

vars == <<limit, alloc, ring, newarea, open, duptouch, sqp, netdup,
          hist, stored, seen, netseen>>

\* parsmain.cpp keeps the largest limit of the configuration in bcfg.maxdupes.
MaxDupes(l) == CHOOSE m \in 0 .. Cap :
                  /\ \A a \in Area : l[a] <= m
                  /\ m = 0 \/ \E a \in Area : l[a] = m

TypeOK ==
    /\ limit \in [Area -> Limits]
    /\ alloc \in 0 .. Cap
    /\ ring \in Ring
    /\ newarea \in Area \cup {NoArea}
    /\ open \in BOOLEAN
    /\ open => newarea \in Area
    /\ duptouch \in BOOLEAN
    /\ sqp \in [Area -> File]
    /\ netdup \in File
    /\ hist \in Seq(Crc)
    /\ stored \in [Area -> Seq(Crc)]
    /\ seen \in [Area -> SUBSET Crc]
    /\ netseen \in SUBSET Crc

\* A process that has just started: counters are zero, dupbuf is malloc'ed
\* and holds whatever was there.
FreshRing == {r \in Ring : r.max = 0 /\ r.cur = 0}

Init ==
    /\ limit \in [Area -> Limits]
    /\ alloc = MaxDupes(limit)
    /\ ring \in FreshRing
    /\ newarea = NoArea
    /\ open = FALSE
    /\ duptouch = FALSE
    /\ sqp = [a \in Area |-> NoFile]
    /\ netdup = NoFile
    /\ hist = <<>>
    /\ stored = [a \in Area |-> <<>>]
    /\ seen = [a \in Area |-> {}]
    /\ netseen = {}

-----------------------------------------------------------------------------
(* Files *)

\* wwrite of the ring with lim slots; the slots beyond are not in the file.
Written(r, lim) == [ring |-> r, slots |-> lim]

\* rread into the globals: a short read leaves what was in memory, so an
\* empty file leaves everything and a short one the slots it does not have.
ReadInto(r, f, lim) ==
    IF f = Empty THEN r
    ELSE [max |-> f.ring.max, cur |-> f.ring.cur,
          buf |-> [s \in Slots |->
                     IF s <= lim /\ s <= f.slots THEN f.ring.buf[s] ELSE r.buf[s]]]

\* Bug: a new file does not reset the ring in memory.
ClearedNot(r, lim) == r

\* The ring after a duplicate file that did not exist is created.
Cleared(r, lim) ==
    [max |-> 0, cur |-> 0,
     buf |-> [s \in Slots |-> IF s <= lim THEN Zero ELSE r.buf[s]]]

\* opensqd(.., dup = 1) on area a, given the files fs: the ring afterwards ...
Opened(a, fs) ==
    IF limit[a] = 0 THEN ring
    ELSE IF fs[a] = NoFile THEN Cleared(ring, limit[a])
    ELSE ReadInto(ring, fs[a], limit[a])

\* ... and the files afterwards: a missing .sqp has been created, empty.
Created(a, fs) ==
    IF limit[a] > 0 /\ fs[a] = NoFile THEN [fs EXCEPT ![a] = Empty] ELSE fs

\* closesqd(newarea, 1) writes the ring back if duptouch was raised.
WritesBack == open /\ duptouch /\ limit[newarea] > 0

Closed ==
    IF WritesBack THEN [sqp EXCEPT ![newarea] = Written(ring, limit[newarea])]
    ELSE sqp

ClosedHist ==
    IF WritesBack THEN [stored EXCEPT ![newarea] = hist] ELSE stored

\* The open area's file is still the empty one opensqd created.
Barren == open /\ sqp[newarea] = Empty

-----------------------------------------------------------------------------
(* Steps of the tosser *)

\* setarea(a, 0) when a is not the remembered area: openarea closes the area
\* that is open, reads a's record (duptouch is 0 in it) and opens a.  A
\* netmail message forgets the remembered area, so a may be the open one.
SetArea(a) ==
    /\ Barren /\ ~duptouch => "barren" \in Conditions
    /\ sqp' = Created(a, Closed)
    /\ ring' = Opened(a, Closed)
    /\ stored' = ClosedHist
    /\ hist' = ClosedHist[a]
    /\ newarea' = a
    /\ open' = TRUE
    /\ duptouch' = FALSE
    /\ UNCHANGED <<limit, alloc, netdup, seen, netseen>>

\* tosspkt on a message for the open area: dupcheck(1), then writeboth if the
\* message is no duplicate or the area has no duplicate control.
Toss(c) ==
    LET lim == limit[newarea]
        accepted == lim = 0 \/ ~IsDupe(ring, alloc, c)
        counted == lim > 0 /\ accepted /\ c # Zero
    IN  /\ open
        /\ ring' = Check(ring, lim, alloc, c)
        /\ duptouch' = (duptouch \/ Inserts(ring, alloc, c))
        /\ hist' = IF counted THEN Recent(hist, lim, c) ELSE hist
        /\ seen' = IF counted THEN [seen EXCEPT ![newarea] = @ \cup {c}] ELSE seen
        /\ UNCHANGED <<limit, alloc, newarea, open, sqp, netdup, stored, netseen>>

\* endfunc of tosspkt: the area is closed, its record stays in newarea.
EndPacket ==
    /\ open
    /\ Barren /\ ~duptouch => "barren" \in Conditions
    /\ sqp' = Closed
    /\ stored' = ClosedHist
    /\ open' = FALSE
    /\ hist' = <<>>
    /\ UNCHANGED <<limit, alloc, ring, newarea, duptouch, netdup, seen, netseen>>

\* backup(1) on a message of the open area that is put aside: it came from a
\* read-only link or a stranger, or is malformed, while BadArea is locked; or
\* it is a duplicate while DupeArea is locked.  Every caller ends in dupundo,
\* and none of them has inserted the message it puts aside.
Backup ==
    /\ "backup" \in Conditions
    /\ open
    /\ alloc > 0
    /\ ring' = Undo(ring)
    /\ duptouch' = TRUE
    /\ UNCHANGED <<limit, alloc, newarea, open, sqp, netdup,
                   hist, stored, seen, netseen>>

\* buftomsg on a netmail message with NetMailDupes: the file "dupcheck" is
\* read into the same ring, with the limit of the echo area that happens to
\* be in newarea, and dupcheck(3) raises that area's duptouch.
Netmail(c) ==
    LET lim == limit[newarea]
        loaded == IF netdup = NoFile THEN Cleared(ring, lim)
                  ELSE ReadInto(ring, netdup, lim)
        dupe == IsDupe(loaded, alloc, c)
    IN  /\ "netmail" \in Conditions
        /\ newarea # NoArea
        /\ lim > 0
        /\ ring' = Check(loaded, lim, alloc, c)
        /\ duptouch' = (duptouch \/ Inserts(loaded, alloc, c))
        /\ netdup' = IF ~dupe THEN Written(ring', lim)
                     ELSE IF netdup = NoFile THEN Written(loaded, lim) ELSE netdup
        /\ netseen' = IF dupe \/ c = Zero THEN netseen ELSE netseen \cup {c}
        /\ UNCHANGED <<limit, alloc, newarea, open, sqp, hist, stored, seen>>

\* writeboth copies a message to a personal area p that is an echo area with
\* duplicate control: setarea(p, 1) opens it with dup = 1 while newarea is
\* open.  persarea->duptouch is never raised, so p's file is not written.
PersCopy(p) ==
    /\ "carbon" \in Conditions
    /\ open
    /\ p # newarea
    /\ limit[p] > 0
    /\ ring' = Opened(p, sqp)
    /\ sqp' = Created(p, sqp)
    /\ UNCHANGED <<limit, alloc, newarea, open, duptouch, netdup,
                   hist, stored, seen, netseen>>

\* The process ends, between packets or killed in the middle of one, and is
\* started again with the configuration newlimit.  Files are what they are;
\* what the ring gained since the area was opened is gone.
Restart(newlimit) ==
    /\ Barren => "barren" \in Conditions
    /\ newlimit # limit => "reconf" \in Conditions
    /\ limit' = newlimit
    /\ alloc' = MaxDupes(newlimit)
    /\ ring' \in FreshRing
    /\ newarea' = NoArea
    /\ open' = FALSE
    /\ duptouch' = FALSE
    /\ hist' = <<>>
    \* a changed limit promises nothing about what was stored under the old one
    /\ stored' = [a \in Area |-> IF newlimit[a] = limit[a] THEN stored[a] ELSE <<>>]
    /\ UNCHANGED <<sqp, netdup, seen, netseen>>

Next ==
    \/ \E a \in Area : SetArea(a) \/ PersCopy(a)
    \/ \E c \in Crc \cup {Zero} : Toss(c) \/ Netmail(c)
    \/ EndPacket
    \/ Backup
    \/ \E l \in [Area -> Limits] : Restart(l)

Spec == Init /\ [][Next]_vars

-----------------------------------------------------------------------------
(* Properties *)

Controlled == open /\ limit[newarea] > 0

\* The ring recognises every one of the last `dupes' messages the open area
\* accepted ("the number of messages by which duplicates are tracked",
\* partoss.cfg): however areas alternate, files are closed and reopened, the
\* cursor wraps or the process is killed (what was accepted since the area was
\* opened is then forgotten).  This is opensqd, dupcheck and closesqd agreeing
\* on whose ring is in memory.
LastNRemembered ==
    Controlled => \A i \in 1 .. Len(hist) : IsDupe(ring, alloc, hist[i])

\* What the scan of dupcheck would reject in the open area was accepted by
\* that very area: no message is thrown away for another area's history.
OnlyOwnDupes ==
    Controlled => \A c \in Crc : IsDupe(ring, alloc, c) => c \in seen[newarea]

\* A netmail message is rejected only if that checksum was accepted as netmail.
OnlyOwnNetDupes ==
    (newarea # NoArea /\ limit[newarea] > 0 /\ netdup \notin {NoFile, Empty}) =>
        \A c \in Crc :
            IsDupe(ReadInto(ring, netdup, limit[newarea]), alloc, c) => c \in netseen

-----------------------------------------------------------------------------
(* The inductive invariants behind the two properties. *)

\* Every slot an area with limit lim can reach is erased or its own.
OwnSlots(r, lim, a) ==
    /\ r.max <= lim
    /\ \A s \in 1 .. lim : r.buf[s] \in seen[a] \cup {Zero}

\* The ring in memory and every file belong to the area that uses them.
OwnInv ==
    /\ TypeOK
    /\ \A a \in Area : sqp[a] \in Image =>
           sqp[a].slots = limit[a] /\ OwnSlots(sqp[a].ring, limit[a], a)
    /\ \A a \in Area : sqp[a] = Empty => open /\ newarea = a /\ limit[a] > 0
    /\ Controlled => OwnSlots(ring, limit[newarea], newarea)

\* The ring holds hist, each file what was stored, and without duptouch the
\* two agree.
HoldInv ==
    /\ OwnInv
    /\ alloc = MaxDupes(limit)
    /\ \A a \in Area : sqp[a] \in Image => Holds(sqp[a].ring, limit[a], stored[a])
    /\ \A a \in Area : stored[a] # <<>> => sqp[a] \in Image
    /\ Controlled => /\ Holds(ring, limit[newarea], hist)
                     /\ sqp[newarea] # NoFile
                     /\ ~duptouch => hist = stored[newarea]
=============================================================================
