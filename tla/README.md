# PartOss in TLA+

PartOss is a FidoNet tosser.  It runs from a script or a mailer, for a moment
at a time: it unpacks inbound packets, stores echomail in Squish message bases,
exports what is new to the links of every area, keeps a record of duplicates,
answers requests of links, and leaves packets and archives for the mailer.
There is one thread; what makes it hard is that

* almost all state is global and shared by calls that work on different areas;
* mail editors, the mailer and other runs use the same files at the same time;
* a run can be killed at any point, and the next one starts from the files.

This project models the parts that decide where a message goes, checks them with
TLC on small instances and proves some of the results with TLAPS for all sizes.

## 1. Inventory

Each entry: state - operations - what it talks to - what is hard - what makes it
correct.

**Duplicate control** (`crc32.cpp`, `opensqd`/`closesqd` in `partsqd.cpp`,
`buftomsg.cpp`).  `dupbuf[]`, `dupecur`, `dupemax` in memory, one `.sqp` file per
area and `dupcheck` for netmail.  `dupcheck` looks a checksum up and inserts it,
`dupundo` takes one back; the files are read and written as areas are opened and
closed.  Hard: one ring serves every area in turn, each with its own limit.
Correct if the last `Duplicates` messages of an area are recognised and none is
rejected for another area's history.

**Squish base** (`buftosqd.cpp`, `partsqd.cpp`).  `.sqd`: a header and frames on
two doubly linked chains (messages, free frames); `.sqi`: the index.  `buftosqd`
drops what exceeds the limit, finds a free frame or the end of the file, links the
frame and writes index and header.  Hard: up to ten writes in two files; limits
that change; readers that delete; a kill between two writes.  Correct if the two
chains and the index agree, no frame is lost or overwritten, and the base is the
list of messages a reader expects.

**Tosser** (`tossarcs.cpp`, `setarea`, `openarea`, `setbadarea`, `opensqd` in
`partsqd.cpp`).  The inbound packets, `PtBackUp.Tkp`/`.Pkt`, and a dozen globals:
`newarea`, `oldarea`, `arealock`, `tlist`, `carea`, ...  `tossarcs` repeats cycles
of `tosspkts` and `tosspkt`; each message goes to its area, a copy to the personal
area, `BadArea`, `DupeArea`, netmail, or aside until the next cycle.  Hard: bases
come and go as other programs open them, and `LockedAreaBehavior` offers four ways
to go on.  Correct if no message is lost or doubled, none gets into an area it was
not written for, no base is shared, and a run ends.

**Export** (`scanbase.cpp`, `sqdtobuf.cpp`, one-pass branch of `tossarcs.cpp`,
`purgesqd`).  Sent flag and `umsgid` of each message, `uid` and `highwater` of the
base.  `In`, `Out`, `In Out`, `Rescan`, `Purge`.  Hard: flag, packet and highwater
are written at different times; numbers are given back by `Purge`; the editor
posts while a run is between packets.  Correct if highwater passes nothing that is
still to be sent, and nobody gets a message twice.

**Outgoing packets** (`msgout`, `pktwrite`, `mmsgout` in `scanbase.cpp`;
`packets.cpp`, `buftopkt.cpp`).  The list of packets with handle, size and origin.
Hard: handles run out in the middle of a message, packets fill up, SafeMode closes
them.  Correct if each message is written once to a packet of each of its links.

**Run lock** (`locks.cpp`, `parsmain.cpp`, `errors.cpp`).  `writelock` makes a file
with the process number; `checklock` removes one whose owner is gone.  Hard: stat,
read, kill, unlink and create are separate calls of several processes.  Correct
if two runs never overlap, and a dead run does not block the next.

**Outbound** (`attach.cpp`, `archives.cpp`, `killold.cpp`, `packets.cpp`).  Packets
become archives named by link, weekday and slot, put into boxes, attached to messages
or listed in flow files, under busy flags shared with the mailer.  Hard: the flag is
tested and then created; an archiver fails; slots run out; `killold` rewrites flow
files; a kill leaves flags and half of the work.  Correct if no packet is lost, the
mailer is told of every archive and none changes while it is sent.

**Base maintenance** (`rebuild.cpp`): `Purge`, `TossBad`, `UnToss`.  A new base is
written beside the old one and takes its place by two renames; four ways to decide
which messages are old.  Hard: others store messages during the renames; numbers go
through a short; the `.sql` file's name.  Correct if what is neither old nor deleted
stays, under its number.

**Reply linking** (`linkbase.cpp`: by pairs, on disk; `linkareb.cpp`: all of the base
in memory).  `replyto` and `nextreply[]` of every message, by REPLY, by subject, flat
or as a tree.  Hard: links of earlier linkings, deleted messages, originals that come
after their replies, a kill among the writes.  Correct if the two directions agree
and a list holds one thread and no other message.

**Area manager** (`partserv.cpp`, `chains.cpp`, `handyman.cpp`).  Messages of links,
the areas and links in several configuration files, and tables of both in memory.
`server` finds a message, `doserv` reads its lines, `chareacfg` writes every file
anew, `changearea` asks uplinks for what is not here, `chlinkcfg` writes the links.
Hard: the tables are as old as the run; files are replaced one by one; a request
depends on the requests before it.  Correct if no line is lost, nobody else's
subscription changes, what is answered was done and what must be asked is asked.

**Area creation** (`createarea`, `writearea` in `partsqd.cpp`): a line of
configuration and a file for an area that comes in a packet or is asked for.  Correct
if no two areas get one file.

**Packet format** (`headers.cpp`, `pkttobuf.cpp`, `control.cpp`): packet kinds,
kludges, SEEN-BY and PATH, the choice of receivers.  **Netmail base** (`buftomsg.cpp`,
`scanmsg`): numbered `.msg` files.  **Posting** (`partpost.cpp`).  **Configuration
and logs**, **Portability layer**: text and system calls, no state of their own.

Interaction: the tosser calls `setarea`, which opens a Squish base and with it the
area's duplicate file; `dupcheck` is asked before `buftosqd` is; in one pass the
tosser calls the export (`scansqds`) for the area once per run and `msgout` for each
message.  All of these communicate through globals, and with the rest of the world
through files.

## 2. Modules and how they correspond to the code

`PROJECT.json` has, for each definition, the lines it stands for.

| module | models | abstract specification |
| --- | --- | --- |
| `DupeRing` | `dupcheck`, `dupundo` as functions of a ring | |
| `DupeBase` | the ring, the `.sqp` files and `dupcheck` of netmail, as `tosspkt` drives them | |
| `SquishBase` | `buftosqd` write by write; `opensqd`, `closesqd` | `EchoList` |
| `Toss` | `tossarcs`, `tosspkts`, `tosspkt`, `writeboth`, `backup`, `setarea` | |
| `EchoScan` | `scansqds`, `scansqd`, `sqdtobuf`, one-pass export, `purgesqd`'s numbers | |
| `Packets` | `msgout`, `pktwrite`, `addtpack` | `OutQueue` |
| `FastLink` | `linkArea` and what it calls, as functions of the messages | |
| `ReplyLinks` | a base over many linkings, by `FastLink`, `linksqd` or `linknet` | |
| `Outbound` | `makeattach`, the archiver, `killold`, packets and flags, with a mailer | |
| `PidLock` | `checklock`, `readlock`, `writelock`, `removelock` of several processes | |
| `Rebuild` | `purgesqd`, `tossbad`, `untoss`, with readers and other tossers | |
| `EchoManager` | `server`, `doserv`, `chareacfg`, `changearea`, `chlinkcfg`; `createarea`, `writearea` | |
| `DupeBaseProofs`, `PacketsProofs`, `PidLockProofs`, `TossProofs`, `EchoScanProofs`, `OutboundProofs`, `RebuildProofs`, `SquishBaseProofs` | theorems | |
| `MC...` | instances for TLC | |

* `DupeBase`.  `ring` is the three globals, `sqp[a]` the file, `netdup` the netmail
  file, `limit` the areas' limits, `alloc` the size allocated.  Actions: `SetArea`,
  `Toss`, `EndPacket`, `Backup`, `Netmail`, `PersCopy`, `Restart`.  The constant
  `Conditions` says which rare circumstances a site meets.  History: `hist`, what
  the open area inserted, `stored`, `seen`.
* `SquishBase`.  An offset is the ordinal of the frame at it.  `buftosqd` keeps a
  copy of the header; `pc` names the next write.  A reader may delete messages
  (as Squish itself does: unlink, put the frame on the free chain) between calls.
  With `NoFresh` (the keyword ExternalLimits) other programs set the limits in the
  header, and `Open` does not write the header it has corrected (`partsqd.cpp:347`), so
  that `Start` reads the old one: the header may then count entries the index has not,
  and what `buftosqd` writes in their place comes from memory nobody read into
  (`Leavings`).
  History: `before`, the list before the call, and `killed`, whether a call was.
* `Toss`.  `pc` runs through *cycle, pick, packet, dispose, copy, export, store*.
  `busy` are bases other programs have open; they open and close any base of
  `Contended` at any time that this process has not open.  That a message is a
  duplicate is free (DupeBase decides it), that a base accepts messages is assumed
  (SquishBase), what waits in a base is one bit per area (EchoScan).  History: `mingled`,
  messages saved in one file with those of another sender, `overwritten`, those a
  rename onto a packet of a killed run cost.
* `EchoScan`.  `Post`, `Delete`: the editor, when the base is closed.  `Begin`,
  `End`, `Crash`: a run.  `Open`, `StartScan`, `Mark`, `Send`, `Advance`: one area's
  scan, the flag being on disk before the packet.  `Toss`, `Forward`, `Store`: a
  message from a link.  `Purge` renumbers.
* `Packets`.  `OpenPacket`, `AddPacket`, `NoHandle` are the three outcomes for a link,
  `Write` is one turn of `pktwrite`, `Written` what follows it.  Other files take and
  give back handles between two messages (`room`).
* `FastLink` and `ReplyLinks`.  The array of `MsgInfo` is a sequence, pointers are
  indices; the loops of `linkTimEd`, `linkLinear` and `linkSubj` are folds over it.
  `ReplyLinks` holds one base over time: `Post`, `Delete`, then `FastLink` (the memory
  at once, headers written one by one by `Write`) or `SlowLink` (`Clear` for each
  header, `Pair` for each pair, in the order of the two nested loops), `Kill` at each
  write.
* `Outbound`.  `disk` and `to` are the packets, `arch` the archives by name, `marks`
  the empty files that remember slots, `listed` what the flow file or a message names,
  `flag` the busy flag of each link.  A run: `Begin` (packets found), `Toss` (packets
  written), `MakeAttach` and its steps for each packet, `Old` (`killold`) and its steps,
  `End`.  The mailer: `Call`, `Send`, `Sent`, `HangUp`.  The names of a day come back
  after `Week` days, so that an archive or a mark of last week may stand in the way
  (`Older`); each method searches for a slot in its own way (`AttachPass`, `BoxPass`,
  `FlowPass`).  History: `crossed`, a flag or an archive of the mailer's was taken,
  `cut`, a kill in the middle.
* `PidLock`.  One value of `pc` per system call of `checklock` and `writelock`.  `lock`
  is the file, by the process that made it; `written` whether its number is in it yet.
* `Rebuild`.  `data`, `index` are the base, `qd`, `qi` the new one, `bad`, `badqd`
  BadArea and its old file.  Each rename is an unlink and a rename, as `rrename` does
  it.  Outside these calls others store and delete messages, also between the renames.
* `EchoManager`.  `conf`, `tmp` and `bak` are the configuration files as sequences of
  lines, `rlist` and `chain` the compiled tables of the run, `areas` and `uareas` the
  lists of requests and of what is asked of uplinks.  One action for each kind of line
  in a message, `Rewrite`, `RenameOld`, `RenameNew` for each file, `Restore`,
  `AskAgain`, `CreateNew` and `Pass` for each request that has to be forwarded.
  `Autocreate` is the same area creation, for mail in an area that does not exist.
  A line has flags `-$` or not: only what follows them is ever rewritten (`Redo`;
  `partserv.cpp:2136`, `3002`), and lines the program creates have them.  Of a
  DeletedArea the compiler of the tables takes only the links written without `-x`,
  `-y`, `-z` (`TableLinks`; `parsmain.cpp:927`).

`EchoList` and `OutQueue` say what a base and the packets promise; `SquishBase` and
`Packets` refine them (`ImplementsList`, `ImplementsQueues`).  During a call of
`buftosqd` the abstract list is the one before it; during `msgout` the abstract
queues already have the message, and a link it was not written for yet has it
`Pending`.

Several modules are checked at more than one site.  The `MC` module then has a
variable `site`, extends the component with the values of the `.cfg` and takes it once
more by `INSTANCE ... WITH` other constants; the initial states choose the site, and
every step is one of that site.  The properties of such a module say at which sites
they are claimed.

External: the mail editor and readers (`Post`, `Delete`), other programs that open
bases, the mailer, the archiver's failures, the calendar, the sysop, kills.

## 3. Runs

| run | asks | bounds |
| --- | --- | --- |
| `MCDupeBase` | the last N are recognised; only own duplicates; netmail rejected for netmail only | *echo*: 2 areas, limits 0-2, 3 checksums, ring of 2. *net*: one limit, 2 checksums, netmail, carbon copies, backup |
| `MCSquishBase` | chains and index agree, free chain complete, index readable, implements `EchoList`, a call ends | *limited*: 5 messages, sizes 1 and 2, limits 0, 2, 3, a reader deletes. *killed*: no limit, a kill between any two writes. *external*: as *limited*, ExternalLimits, 4 messages |
| `MCToss` | nothing lost, one place, right area, all links served, scanned before stored, a run ends | 2 links that send. *backup*: 2 packets of 2, 3 areas. *tobad*: 1 packet of 3, all kinds of messages, one kill. *wait*, *again*: 1 packet of 2, a personal area or DupeArea in use |
| `MCEchoScan` | nothing passed, sent is served, at most once; the editor is served | *all*: 3 messages, numbers to 5, limit 2, kills, Purge, Rescan. *live*: In and Out, editor active during runs |
| `MCPackets` | one packet per link, written open, implements `OutQueue` | 3 messages, 3 links, 0-2 other files in the way, SafeMode 0 and 2 |
| `MCReplyLinks` | directions agree, lists are threads, trees are whole, linking again changes nothing | 4 ids, 5 posts, 2 subjects, 2 slots (10 in the code), 4 kinds of lists by 3 linkers, deletions, kills |
| `MCOutbound` | nothing lost, all told, nothing changed while sent, names fresh, nothing added to last week's | 2 packets, 1 link, 2 slots (36), archives of 1 packet, 3 days, a name's day comes back after 2 (7), one kill or failure, 3 methods |
| `MCPidLock` | two never work together but by one race; nobody waits for the dead | 4 processes, 3 with `-w`, 2 kills |
| `MCRebuild` | nothing lost, numbers kept and in order, old messages gone | 3 messages, 2 days, bytes of 2 bits, shorts up to 3, 5 configurations, one kill |
| `MCEchoManager` | lines and others' subscriptions kept, requests done, uplinks asked, bases apart, every request handled | 5 areas, 3 links, 2 files, 2 of 6 letters, 7 bases, one kill. Two starts: in one a deleted area without flags has a passive link besides its uplink; in the other two areas have no flags, a deleted area has a passive link only, and the last number for a base is taken |
| `TossMove`, `ScanBoth` | violated, see section 6 | |

Why the bounds are enough.  A ring of two slots wraps, is longer than one limit and
as long as another; two areas alternate.  Three messages over limit two force a drop
and a reuse of its frame; a second size makes first fit skip a frame.  Two packets
are needed for a remembered area, and one is put aside, tossed again and put aside
again.  In EchoScan two messages may be around highwater while the third is added,
and numbers go up to five as Purge gives them back.  Three links against one to three
handles let the first, the middle and the last link be the one that gets none; three
messages fill a packet of two and begin the next.  Four messages make every forest
with a fork and a chain, and one reply more than there are slots; the fifth post
comes after a linking.  Two slots run out with two archives; the second day makes an
archive old, the third one has the names of the first.  The race of PidLock needs three processes, the fourth may come at any
moment of it.  Two bits to a byte and three messages put a message behind and before
an expired one, in its byte and in the next; a short that holds numbers below three is
left by the second purge.  Two letters are one that asks for an area and one that
changes what the first relied on.

Kills are a single action (`Crash`, `Kill`) enabled in every state of a call.  Deadlock
is checked except where the system really stops: `MCPackets` ends when its messages
are written, `MCReplyLinks`, `MCOutbound`, `MCRebuild` and `MCEchoManager` when bounds
are used up, `MCPidLock` when all processes have ended.

Fairness.  `SquishBase`: `WF(Store)`, a process runs on while nothing stops it.
`Toss`: `WF(Tosser)`, the same; other programs get none, so that they may keep a base
for ever, and `RunEndsOnceFree` assumes explicitly that they stop.  `EchoScan`:
`WF(Tosser)`, and `SF` of `End` and of `Begin("out")`: a run is followed by others,
and the user's script runs Out again and again (partoss.doc describes it as run from
a script after each session); strong, because between runs anything may come first.
The editor has no fairness.  `PidLock`: `WF(Step(p))` of every process, whose sleep
ends after five seconds; a process that has the lock ends.  `EchoManager`:
`WF(Manage)`, a run goes on and another one follows; `Served` holds for sites
(`Healthy`) that have their files when a run is to begin (a kill between two renames
takes one away until the sysop puts it back), in which no area lacks links in the
tables and in which there are numbers left for new bases.  In the two other cases
every run dies at the request (`Die`); section 6 has them.

`TypeOK` of each module documents its state.  For `DupeBase`, `SquishBase`, `Packets`,
`PidLock`, `Toss`, `EchoScan`, `Outbound` and `Rebuild` it is proved; elsewhere it holds in the runs'
instances and is not among their properties.

## 4. Proofs

`DupeBaseProofs` proves for any set of areas, any limits and any size of ring:

* `TypeCorrect`: `TypeOK`.
* `OwnDupes`: `OnlyOwnDupes`, if `Conditions` is at most `{"backup"}`.
* `Remembered`: `LastNRemembered`, if no such condition occurs.
* `NetDupes`: `OnlyOwnNetDupes`, if all limits but 0 are one (the run checks it as
  `NetDupesOwn`, at the site of which that is true; section 6 has two limits).

From `RingAssumption` and `BaseAssumption` only.  The properties are not inductive:
they speak of the open area, and what will be in the ring depends on the files.
`OwnInv` says that the slots an area can reach, in the ring while it is open and in
its file, hold what the area saw.  `HoldInv` adds that the file holds the latest
`stored[a]`, the ring the latest `hist`, at the slots the cursor implies (`Holds`),
and that both agree unless `duptouch` is set.  Its heart is `InsertHolds`: an
insertion moves the window by one also when the cursor wraps.  `NetOwn` is the
counterpart for netmail: every slot of its file below the limit is a checksum of netmail.

`SquishBaseProofs` proves for any sizes, limits and number of messages, from
`SquishAssumption`:

* `ChainsAgree` (`TwoChains`), if a limit works (`Usable`): no message is protected from
  a limit, no limit is 1, a reader leaves the last message.  For each of the three
  section 6 has a base that is spoiled without it.
* `SquishTypes`, `IndexRead` (`IndexReadable`) and `ImplementsEchoList`
  (`ImplementsList`), if moreover a base whose calls are killed has neither limit nor
  deletions nor ExternalLimits (`Killable`; section 6 says what a kill while dropping
  does, and what it does to a base whose header `opensqd` does not write).  Where no call
  is killed the three hold with ExternalLimits as well: the header never counts an entry
  the index has not, so that nothing is to be corrected (`OpenSane`), the first message
  to drop can always be read (`Started`) and no gap is written (`NoGap`).

Between two writes of a move neither chain is whole.  The invariant `Sane` therefore
speaks of the file as the writes that are still to come will leave it: `Tailed` and
`Freed` while a message is dropped, `Unlinked` and `Relinked` while a frame is taken
from the free chain, `Framed` while it is written.  Of that file `Shape` says that the
offsets of the index are one chain, some list of offsets the other, and every frame is on
one of them (`Shared`) or in hand; each write keeps this because the function it leaves
over is the rest of the one before.  `EntryInv` ties the entries of the index, of which
some are dropped and one may be there twice, to `before`.  With kills the chains need
not agree, and `Growing` is the invariant instead: in a base that is only added to, what
the index lists lies below the end of the file the header knows, so that no later call
writes there.  The refinement maps the list to the index between calls and to `before`
during one (`Shown`): the write of the index drops the oldest and adds the new message
(`EndSeq`, `KeptEnd`), a deletion and a change of limit are those of `EchoList`, every
other write is a stutter.

`PacketsProofs` proves for any list of distinct links, any packet size, SafeMode and
number of handles above none: `PacketsTypeCorrect`, `WritesOpen` (`WrittenOpen`),
`OneCurrentPacket` (`OneCurrent`), `RetryFindsHandle` (`RetryHasHandle`, of no run).  From
`PacketsAssumption`.  The invariant is `WriteInv`: the number of links opened is the
position in the list of links, and of those opened and not written yet every one has
an open packet (`Ready`); with `OneCurrent` that packet is the one `pktwrite` finds.
`OneCurrent` is what makes "first packet that is not filled" mean the same to
`msgout` and to `pktwrite`.

`PidLockProofs` proves for any finite set of processes, any of them with `-w`, and any
number of kills: `LockTypeCorrect` and `OneAtATime` (`Exclusive`).  From
`PidLockAssumption`.  `LockInv` says that who has created the file owns it (`OwnerOwns`),
that the file's owner holds it or was killed (`LockHeld`), that a pid looked up is that
of another process that has started (`SeenOther`), and that a process about to unlink
has another one's end behind it (`AfterEnd`).  If it takes the lock of a live process,
this, the one that ended and itself are three (`ThreeStarted`): an end is not undone and
nobody starts twice (`EndedStays`).

`TossProofs` proves for any areas, links, readers of bases and kinds of messages, any
number and length of packets and of kills, from `TossAssumption`:

* `TossTypes`, `AreaRight` (`RightArea`), `EveryLinkServed` (`AllServed`), `PutOnce`
  (`OnePlace`).
* `NoMailLost` (`NothingLost`), if copies are not moved (`Carbon # "move"`: the run
  `TossMove` shows why).
* `SweptFirst` (`SweptBeforeStore`), if there are no copies or nobody else uses the
  personal base (section 6 shows why).

The common invariant has a part for each kind of thing the tosser remembers: where it is
in its packets (`PlaceInv`), what `setarea` keeps of the last area (`AreaInv`), that
numbers of messages are theirs alone, in the mail and in the files (`MailInv`,
`FileInv`), who has got what (`SentInv`), that a message still to be tossed has got
nowhere (`OnceInv`), that `PtBackUp.Pkt` is tossed before it is replaced (`PktInv`).
`NothingLost` needs `Handled` beside it: of the packet in hand, everything before the
position has got somewhere or was saved in `PtBackUp.Tkp`, so that unlinking the packet
loses nothing.  `SweepInv` says that an area marked as scanned was scanned.

`EchoScanProofs` proves for any links, limits and numbers of messages and any modes,
from the assumptions of `EchoScan`: `ScanTypes`, `NeverTwice` (`AtMostOnce`),
`FlaggedIsServed` (`SentIsServed`), and `HighwaterRight` (`NothingPassed`) for sites that
are `Safe`: no purge after the newest message was deleted, no editor during a run with
In and Out (`ScanBoth` and the table of section 6 show what happens otherwise).  The
invariant `Sent` says that the messages of a base have ascending numbers below `uid`
(`Ordered`), that one which is not flagged has gone to no link (`Unsent`), and what of
the message in hand is done already (`AtWork`); `Passed` adds that below highwater, and
below the scan's position, all is flagged.

`OutboundProofs` proves for any links, packets, slots, days and failures, from
`OutboundAssumption`: `OutboundTypes`, `NoPacketLost` (`NothingLost`), `MailerTold`
(`Told`), `ReadAsWritten` (`SentAsRead`), `NamesFresh` (`FreshNames`) and
`NoOldBundleByBox` (`NoOldBundle`).  The invariant `Outgoing` joins what the steps of one
packet have done so far (`AtWork`, `Entries`), that run and mailer do not meet at a link
while no flag was crossed (`Apart`), that no archive is of a later day (`Dated`), where
each packet is (`LossInv`), which archives are listed or about to be (`TellInv`), and that
a name that was used is either still there or remembered by a mark (`UsedInv`).  `FreshNames` goes by method: `adjustname` takes the first slot with
neither file nor mark, a box the last archive or the one after it, a flow file the slot
after the last mark unless an old archive is met.

`RebuildProofs` proves for any messages, days, configurations, widths of a short and of
the bitmap, and any number of kills, from `RebuildAssumption`: `RebuildTypes`,
`PurgeLosesNothing` (`NothingLost`), `NumbersAreKept` (`NumbersKept`) and
`PurgeIsComplete` (`Purged`).  All three properties are about an idle process, so that
the invariant has to say what each step of a purge has done.  `AtWork`: the new files
are without gaps or holes (`Dense`), and while they replace the old ones either the data
file still fits the new index or somebody stored a message there and all of it is at
risk.  `KeptInv` follows every message from the base through the copy and the renames:
it can be read, is in the new data file, or is away; with a bitmap, who has lost its bit
is old, or the base was not in order (`mixed`).  `NumInv` says of every entry that leads
to a message that it bears the message's first number, also in files without their
partner, and needs `BadInv`: what waits in BadArea has no number yet and waits once.
`AscInv`, that the entries ascend and a copy never overtakes what is still to be copied,
holds while numbers fit into a short and nothing is at risk (`Steady`).  `FreshInv` says
what a purge of this day has written or found.

Model-checked only: liveness (`CallEnds`, `EveryRunEnds`, `EditorServed`, `Served` of
`PidLock` and `EchoManager`), which is out of the prover's reach; the refinement
`ImplementsQueues`, since what `FlattenSeq` of a changed list is needs induction over
data; the safety properties of `ReplyLinks`, whose `FastLink` is recursive; and those of
`EchoManager`.  `SweptFirst` of `MCToss` is `SweptBeforeStore` at its sites, and proved as
such.

## 5. Not modelled, and why

Text: kludges, SEEN-BY lines, addresses, names and templates are abstracted; a
message is its number and what decides its way.  Left out for good: the packet format
(conversions of headers and text), posting (it stores through `buftosqd` like any
other), configuration, logging, the portability layer.  In the modules:

* `Toss`: passthrough areas, areas of one link, autocreation (see `EchoManager`),
  archives and passwords of packets.
* `Packets`: gates, FixAddr, packets of nobody that stay when no handle is left
  (`scanbase.cpp:668-670`).
* `SquishBase`, `EchoScan`: the index window of `bufsqi` entries, tested with `>` where
  the entry after the last is the first one outside (`buftosqd.cpp:137`,
  `scanbase.cpp:357`); numbers above 2^15 (`Rebuild` has them); the personal area's sent
  flag, taken from the last message scanned (`buftosqd.cpp:418`).
* `DupeBase`: checksums are values without collisions.
* `Outbound`: files sent with an area list, FrontDoor's flags and `.csy` apart from
  `.bsy`, several flow files of a link.
* `Rebuild`: the contents of the `.sql` file; a frame that cannot be read (`sqdtobuf`
  answers -1 and the purge copies the message before it once more).
* `EchoManager`: `relink` (`partserv.cpp:3154-3300`), rules, texts of answers and lists,
  read-only links, lines in which a link or `-x`, `-y`, `-z` stands before the flags `-$`
  (what stands before them is kept and the link is written once more behind them).
* `FastLink`: `gen_prime` and the distribution of hashes; `str2MSGID`, which looks at the
  last number of an id only, so that different ids may be one to it.
* `pkttobuf.cpp:114`: In alone (not In Out) checks the path of a message against the
  address of the area of the message before.

## 6. Where the code does not do what is said of it

Two runs end in a violation; a finding of `PROJECT.json` quotes the document.

* `ScanBoth`.  In one pass an area is searched once per run.  A message the editor
  posts between two packets is not exported, and `highwater++` for the next stored
  message passes over it for good.
* `TossMove`.  With CarbonMove a message is not stored in its own area, whether its copy was
  made or not; if the personal base is in use, the message is nowhere.

TLC found these too; the main runs exclude the circumstance, and this change shows it
(the module by itself, with its own `Spec` and the constants of its run):

| property | change | what happens |
| --- | --- | --- |
| `LastNRemembered` | `DupeBase`, `Conditions = {"backup"}`, `Limits = {2}` | `backup(1)` calls `dupundo` for a message that was not inserted; another message's checksum goes (`crc32.cpp:159`) |
| `LastNRemembered` | `{"netmail"}` | netmail reads its file over the open area's ring (`buftomsg.cpp:102`) |
| `OnlyOwnNetDupes` | `{"netmail"}`, `Limits = {1, 2}` | netmail's file is read and written under the limit of the open area |
| `OnlyOwnDupes` | `{"carbon"}` | a copy into the personal area loads that area's ring |
| `OnlyOwnDupes` | `{"barren"}` | a new, empty `.sqp` leaves the ring of the area before |
| `LastNRemembered` | `{"reconf"}`, `Limits = {1, 2}` | a ring written under one limit is read under another |
| `ChainMatchesIndex` | `SquishBase`, `Skip = 1`, `Limits = {0, 3}` | dropping behind protected messages leaves their last one linked to the dropped |
| `ChainMatchesIndex` | `Editor = "all"` | a base emptied by its reader keeps its old ends |
| `ChainMatchesIndex` | `Limits = {0, 1, 3}` | to make room under limit 1 all messages are dropped; the last one has no successor, `sqread` of offset 0 fails and the call ends with what it dropped in the file and not in the header (`buftosqd.cpp:150-156`). With limit 1 from the start the base takes one message and no other |
| `IndexReadable`, `ImplementsList` | `SquishBase`, `Limits = {0}`, `Editor = "no"`, `Crashes = TRUE`, `NoFresh = TRUE` | with ExternalLimits `opensqd` does not write the header it corrected after a kill between header and index (`partsqd.cpp:284-311`, `347`), `buftosqd` reads the old one from the file (`buftosqd.cpp:133-134`), and the next message goes behind an entry nobody wrote; pt105eng.cfg:402-408 promises of the keyword only that limits are not updated |
| `NothingLost` without its last disjunct | `MaxKills = 1` | a rename onto `PtBackUp.Pkt` of the killed run |
| `SweptBeforeStore` | `Toss`, `Contended = {Pers}` | a copy for the personal area moves `tlist` and `carea` to it, and they are moved back only if the copy was made (`tossarcs.cpp:952`); if that base was in use its entry is marked instead of the message's, the base is not searched, and highwater passes over messages not exported (partoss.doc:464-469 says the areas mail came to are scanned) |
| `AllServed` without `mingled` | `Toss` | messages of two senders saved in one packet have the first one's address |
| `NothingPassed` | `EchoScan`, editor during runs, `Purges = TRUE` and the newest message deleted | `uid` given back below highwater |
| `SentIsServed` without `waived` | `rescan` in `Modes` | Rescan flags a new message it wrote for one link only |
| `pc # "dead"` | `ReplyLinks`, `Originals` any functions | two messages that answer each other send `linkLinear` to a NULL pointer (`linkareb.cpp:764-792`), and `linksqd` round for ever when a third one answers one of them |
| `LinksMatch` without `intact` | `ReplyLinks` | after a deletion `linkArea` may leave a circle, or a `nextreply` to nobody |
| `SentAsRead` without `crossed` | `Outbound` | the flag is made without `O_EXCL` (`attach.cpp:271`), over the mailer's; or the open fails and `bsyname`, which names it all the same, is removed at the next packet (`attach.cpp:1050`), whatever whats105.doc says of ParToss's own flags |
| `NoOldBundle` for all methods | `Outbound` | doc/whats105.eng:116 says that packets are no longer added to bundles a week old; `adjustname`, for attach, reads no date (`attach.cpp:1198`); in flow mode, with more than two slots, the one after a mark is not looked at (`attach.cpp:750-763`) |
| `FreshNames` without `Leftover` | `Outbound` | in flow mode, once it has passed over an archive left from last week, the search asks for archives and no longer for marks, and takes a name sent today (`attach.cpp:722-749`) |
| `NothingLost` without `crossed` | `Outbound` | `killold` removes an archive that is being sent (`killold.cpp:336`) |
| `Told` without `cut` | `Outbound` | a kill between the archiver and the flow line leaves an archive nobody is told of; one between unlink and rename in `killold` loses the flow file |
| `Exclusive` without `taken` | `PidLock`, 3 processes | `checklock` removes the lock of the one that has just replaced a dead one (`locks.cpp:65`; partoss.doc:391-395 says that copies wait) |
| `NothingLost` without `mixed` | `Rebuild`, `analyse = 2` | an expired message clears the bits of those before it in its byte (`rebuild.cpp:151`; partoss.cfg:531-541 says old messages are purged) |
| `NothingLost` without `risk` | `Rebuild` | a kill between `unlink` and the second rename leaves one file of two; a message stored there between goes with the old files |
| `Served` without `Healthy` | `EchoManager` | a passthrough area left without links: `changearea` takes the first of its links, NULL (`partserv.cpp:1724`), at every run until somebody edits the file |
| `Served`, `Healthy` with the links as they are written | `EchoManager` | a DeletedArea with a passive link only has none in the tables (`parsmain.cpp:927`); a request for it ends each run in the same way (`partserv.cpp:1735`) |
| `Served` without the second half of `Healthy` | `EchoManager` | the numbers for new bases are used up: each run ends at the request with "AutoCreate overflow" |
| `RequestsDone` without `l.flags` | `EchoManager` | a line without `-$` is written as it was, and the link is told "added", "deleted" (`partserv.cpp:2136-2172`, `3002-3009`); doc/squish.cfg:20-24 says of `-$` "Сам эхопроцессор этот флаг не использует" (the echo processor itself does not use this flag), and that flags are optional |
| `LinesKept` without its last disjunct | `EchoManager` | a mask of a foreign link meets an area whose record's `group` was never written (`partsqd.cpp:753`); its line is left out (`partserv.cpp:2032-2040`) |
| `OthersKept` with `deny` compared | `EchoManager` | `writearea` writes a denied link `-z` as a passive one; any change of the line lifts the ban (squish.cfg:37-43) |

Met while modelling, without a run:

* A kill while old messages are dropped leaves chains and header apart until `Purge` or
  `Fix`; the site of `MCSquishBase` with kills has no limit for that reason.
* `arealock` left from a copy that failed diverts the message itself (`tossarcs.cpp:877`).
* Without a single handle left for packets `msgout` would try a link for ever, adding a
  packet each time; `Packets` assumes one.
* By attach, a busy flag and slot z together append to the archive that is being sent;
  by flow, slot z that is too old or too large is looked for for ever
  (`attach.cpp:747`, the comparison is with `'Z'`): `Hang`.
* `EchoManager`: with `GroupsIgnoreCase` off `+%Group a` takes group `A` too
  (`partserv.cpp:790`); `%Address` changes the record of the area manager's link, and a
  later change of options writes it into the other link's line; a link's second change
  of options in a run is answered and not written (`written`); an orphan is judged by the
  number of links at the start of the run; a kill between the creation of an area and
  the message to the uplink leaves it unasked; with names numbered to 65535 the run ends
  (`Die`).  Long names are compared without their extension, so that two areas may have
  one base (`Naming = "long"`, which `OwnBases` does not claim).
* With `PurgeLastread` the name of the new index is overwritten by the `.sql` file's
  (`rebuild.cpp:84`).

## 7. Plan

1. Proofs.  `EchoManager` (`LinesKept`, `OwnBases`).
2. `Packets` with origins: gated and other packets to one link, two areas of which one
   is gated.  `EchoScan` with the personal area and the index window.
3. `Receivers` (SEEN-BY, PATH, areas of one link: who gets a message) as functions.
4. Composition: `DupeBase` and `SquishBase` under `Toss` for one area: what is stored
   is exactly what was not a duplicate; `Packets` with `Outbound`.
5. `EchoManager` with `relink`.
