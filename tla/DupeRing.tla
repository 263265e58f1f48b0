------------------------------ MODULE DupeRing ------------------------------
(***************************************************************************)
(* The duplicate ring of crc32.cpp: dupemax, dupecur and dupbuf[].         *)
(*                                                                         *)
(* The tosser has one ring in memory, shared by every area; an area only   *)
(* lends it a limit (area.dupes).  A ring is the record                    *)
(*   max: how many slots the scan looks at (dupemax),                      *)
(*   cur: the slot written last, 0 before the first (dupecur),             *)
(*   buf: the checksums (dupbuf, 1-based here).                            *)
(* The operators take the limit and the allocated size as arguments, so    *)
(* the module has no state and can be proved about on its own.             *)
(***************************************************************************)
EXTENDS Integers, Sequences

CONSTANTS
    Crc,    \* message checksums, the value 0 excluded
    Zero,   \* the checksum 0: "empty magic number", and an erased slot
    Cap     \* slots that exist; no area's limit exceeds it

ASSUME RingAssumption == Cap \in Nat \ {0} /\ Zero \notin Crc

Slots == 1 .. Cap

Ring == [max : 0 .. Cap, cur : 0 .. Cap, buf : [Slots -> Crc \cup {Zero}]]

\* Bug: the scan stops one slot early.
KnownShort(r, c) == \E s \in 1 .. r.max - 1 : r.buf[s] = c

\* The scan of dupcheck: the first dupemax slots, whatever the area's limit.
Known(r, c) == \E s \in 1 .. r.max : r.buf[s] = c

\* dupcheck's insertion under the area's limit lim.
Insert(r, lim, c) ==
    LET slot == IF r.cur + 1 > lim THEN 1 ELSE r.cur + 1
    IN  [max |-> IF r.max < lim THEN r.max + 1 ELSE r.max,
         cur |-> slot,
         buf |-> [r.buf EXCEPT ![slot] = c]]

\* dupcheck consults and updates the ring only for a non-zero checksum and a
\* ring no longer than the allocated array (alloc is bcfg.maxdupes).
Consults(r, alloc, c) == c # Zero /\ r.max <= alloc

IsDupe(r, alloc, c) == Consults(r, alloc, c) /\ Known(r, c)

Inserts(r, alloc, c) == Consults(r, alloc, c) /\ ~Known(r, c)

Check(r, lim, alloc, c) ==
    IF Inserts(r, alloc, c) THEN Insert(r, lim, c) ELSE r

\* dupundo: step back one slot (never below the first) and erase what is
\* found there.
Undo(r) ==
    LET slot == IF r.cur > 1 THEN r.cur - 1 ELSE 1
    IN  [max |-> r.max, cur |-> slot, buf |-> [r.buf EXCEPT ![slot] = Zero]]

\* The slot written j insertions before slot cur, in a ring of lim slots.
Back(cur, j, lim) == IF j < cur THEN cur - j ELSE cur - j + lim

(***************************************************************************)
(* Holds(r, lim, h): the ring r of an area with limit lim has every        *)
(* checksum of h, the area's latest insertions (oldest first), at the slot *)
(* the cursor implies, inside the scanned part.  Slots older than h may    *)
(* contain anything.                                                       *)
(***************************************************************************)
Holds(r, lim, h) ==
    /\ r.cur <= r.max
    /\ Len(h) <= lim
    /\ h # <<>> => r.cur \in 1 .. lim
    /\ Len(h) > r.cur => r.max >= lim
    /\ \A j \in 0 .. (Len(h) - 1) :
          r.buf[Back(r.cur, j, lim)] = h[Len(h) - j]

\* The latest lim elements of h after c is appended.
Recent(h, lim, c) == Append(IF Len(h) < lim THEN h ELSE Tail(h), c)
=============================================================================
