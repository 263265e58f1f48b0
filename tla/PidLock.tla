-------------------------------- MODULE PidLock --------------------------------
(***************************************************************************)
(* One ParToss at a time: the file partoss.pid (locks.cpp), taken before   *)
(* the configuration is compiled (parsmain.cpp) and given back by errexit  *)
(* (errors.cpp).                                                           *)
(*                                                                         *)
(* The file is looked at, created and written in steps of their own, and   *)
(* removed by name; a process can be killed at each.                       *)
(***************************************************************************)
EXTENDS Naturals, FiniteSets

CONSTANTS
    Procs,      \* processes, each with a pid of its own
    Waiting,    \* those started with -w: mustdie is not set
    None,       \* no process
    MaxKills    \* bound: processes killed

ASSUME PidLockAssumption ==
    /\ IsFiniteSet(Procs) /\ None \notin Procs
    /\ Waiting \subseteq Procs /\ MaxKills \in Nat

VARIABLES
    lock,       \* the owner of the file, None: no file
    written,    \* the pid is in the file
    pc,         \* where a process is
    seen,       \* the owner a process has read; itself: a lock it may take
    kills,      \* processes killed so far
    torn,       \* history: a file without a pid was read
    taken       \* history: checklock removed the lock of a live process

vars == <<lock, written, pc, seen, kills, torn, taken>>

Ended == {"none", "done", "refused", "failed", "killed"}

TypeOK ==
    /\ lock \in Procs \cup {None}
    /\ written \in BOOLEAN /\ (lock = None => ~written)
    /\ pc \in [Procs -> Ended \cup {"check", "probe", "unlink", "sleep", "create",
                                    "write", "run"}]
    /\ seen \in [Procs -> Procs \cup {None}]
    /\ kills \in 0 .. MaxKills
    /\ torn \in BOOLEAN /\ taken \in BOOLEAN

Init ==
    /\ lock = None /\ written = FALSE
    /\ pc = [p \in Procs |-> "none"]
    /\ seen = [p \in Procs |-> None]
    /\ kills = 0 /\ torn = FALSE /\ taken = FALSE

Alive(p) == pc[p] \notin Ended
Goto(p, where) == pc' = [pc EXCEPT ![p] = where]

Start(p) ==
    /\ pc[p] = "none"
    /\ Goto(p, "check")
    /\ UNCHANGED <<lock, written, seen, kills, torn, taken>>

\* checklock: no file, or one that cannot be opened any more, is no lock.
NoFile(p) ==
    /\ pc[p] = "check" /\ lock = None
    /\ Goto(p, "create")
    /\ UNCHANGED <<lock, written, seen, kills, torn, taken>>

\* readlock
Read(p) ==
    /\ pc[p] = "check" /\ lock # None /\ written
    /\ seen' = [seen EXCEPT ![p] = lock]
    /\ Goto(p, "probe")
    /\ UNCHANGED <<lock, written, kills, torn, taken>>

\* readlock of an empty file: the pid is what the buffer happens to hold, that
\* of a process, of none, or 0, the process's own group, which is no lock.
ReadEmpty(p) ==
    /\ pc[p] = "check" /\ lock # None /\ ~written
    /\ torn' = TRUE
    /\ \E where \in {"create", "sleep", "unlink"} : Goto(p, where)
    /\ UNCHANGED <<lock, written, seen, kills, taken>>

\* Bug: the lock of the dead is waited for.
ProbeNot(p) ==
    /\ pc[p] = "probe"
    /\ Goto(p, "sleep")
    /\ seen' = [seen EXCEPT ![p] = None]
    /\ UNCHANGED <<lock, written, kills, torn, taken>>

\* kill(pid, 0)
Probe(p) ==
    /\ pc[p] = "probe"
    /\ Goto(p, IF Alive(seen[p]) THEN "sleep" ELSE "unlink")
    /\ seen' = [seen EXCEPT ![p] = None]
    /\ UNCHANGED <<lock, written, kills, torn, taken>>

\* The owner is dead: its lock goes, or the one that has replaced it.
Unlink(p) ==
    /\ pc[p] = "unlink"
    /\ taken' = (taken \/ (lock # None /\ Alive(lock)))
    /\ lock' = None /\ written' = FALSE
    /\ Goto(p, "create")
    /\ UNCHANGED <<seen, kills, torn>>

\* mustdie: errexit(14); otherwise another look in five seconds.
Locked(p) ==
    /\ pc[p] = "sleep"
    /\ Goto(p, IF p \in Waiting THEN "check" ELSE "refused")
    /\ UNCHANGED <<lock, written, seen, kills, torn, taken>>

\* Bug: without O_EXCL.
CreateAny(p) ==
    /\ pc[p] = "create"
    /\ lock' = p /\ written' = FALSE /\ Goto(p, "write")
    /\ UNCHANGED <<seen, kills, torn, taken>>

\* writelock: with O_EXCL, and errexit(2) when there is a file.
Create(p) ==
    /\ pc[p] = "create"
    /\ IF lock = None
       THEN lock' = p /\ Goto(p, "write")
       ELSE lock' = lock /\ Goto(p, "failed")
    /\ UNCHANGED <<written, seen, kills, torn, taken>>

\* The pid is written, into a file that may have been unlinked by now.
Write(p) ==
    /\ pc[p] = "write"
    /\ written' = (written \/ lock = p)
    /\ Goto(p, "run")
    /\ UNCHANGED <<lock, seen, kills, torn, taken>>

\* errexit, removelock: the file of that name is removed, whoever made it.
Exit(p) ==
    /\ pc[p] = "run"
    /\ lock' = None /\ written' = FALSE
    /\ Goto(p, "done")
    /\ UNCHANGED <<seen, kills, torn, taken>>

Kill(p) ==
    /\ Alive(p) /\ kills < MaxKills
    /\ Goto(p, "killed")
    /\ kills' = kills + 1 /\ seen' = [seen EXCEPT ![p] = None]
    /\ UNCHANGED <<lock, written, torn, taken>>

Step(p) ==
    \/ NoFile(p) \/ Read(p) \/ ReadEmpty(p) \/ Probe(p) \/ Unlink(p) \/ Locked(p)
    \/ Create(p) \/ Write(p) \/ Exit(p)

Next == \E p \in Procs : Start(p) \/ Step(p) \/ Kill(p)

Spec == Init /\ [][Next]_vars

\* A process that runs goes on, also out of mtsleep.
FairSpec == Spec /\ \A p \in Procs : WF_vars(Step(p))

-----------------------------------------------------------------------------
(* Properties.                                                             *)

Running == {p \in Procs : pc[p] = "run"}

(* A copy that works has its lock, so two never work at the same time,     *)
(* unless checklock has removed a lock that was not a dead copy's any      *)
(* more.  That takes three copies: the one whose end or death was seen,    *)
(* the one that saw it, and the one that has got the lock since; or a lock *)
(* read before its pid was in it (writelock, checklock, readlock).         *)
Exclusive ==
    /\ taken \/ \A p \in Running : lock = p
    /\ taken => torn \/ Cardinality({p \in Procs : pc[p] # "none"}) >= 3

(* The lock of a copy that was killed holds up nobody: everyone who asks   *)
(* for it comes to an end, unless the pid was never written (the loop      *)
(* around checklock, which takes dead owners' locks away).                 *)
Served == <>torn \/ \A p \in Procs : pc[p] = "check" ~> pc[p] \in Ended
=============================================================================
