----------------------------- MODULE ScullAccess -----------------------------
(***************************************************************************)
(* The two whole drivers of access/: the pipe behind the gate of scullb.c, *)
(* and the pipe behind the counter of scullb-onlyone_access.c.  Which one  *)
(* is loaded does not change.                                              *)
(*                                                                         *)
(* A file is open on the pipe from the moment sdev_open lets it in until   *)
(* sdev_close takes it off the asynchronous queue; only then does          *)
(* sdev_close give the count back.                                         *)
(***************************************************************************)
EXTENDS ScullGate, Sequences

CONSTANTS Uses, DEVSIZE, Lens, Flags, Faults, MaxBytes      \* of the pipe

VARIABLES driver, available, spc
VARIABLES rp, wp, buf, sem, inq, outq, pollq, fasync, sig, pc, call, seen, ubuf, sent

Pipe == INSTANCE ScullPipe
Single == INSTANCE ScullSingle

ASSUME AccessAssumption == Pipe!PipeAssumption

pipe == <<rp, wp, buf, sem, inq, outq, pollq, fasync, sig, pc, call, seen, ubuf, sent>>
counter == <<available, spc>>
AccessVars == <<driver, vars, counter, pipe>>

AccessInit == driver \in {"scullb", "onlyone"} /\ Init /\ Single!Init /\ Pipe!Init

\* The read, write, poll and fasync handlers of an open file.
Inside(p) ==
    /\ Pipe!Use(p) \/ Pipe!Signal(p) \/ Pipe!Acquire(p) \/ Pipe!Handler(p)
    /\ UNCHANGED <<driver, vars, counter>>

-----------------------------------------------------------------------------
\* scullb.c

Open(p)  == driver = "scullb" /\ OpenEnter(p) /\ Pipe!Open(p) /\ UNCHANGED <<driver, counter>>
Close(p) == driver = "scullb" /\ CloseStart(p) /\ Pipe!Close(p) /\ UNCHANGED <<driver, counter>>

\* What does not cross the gate.
Arriving(p) ==
    /\ driver = "scullb"
    /\ Signal(p) \/ \E nonblock \in BOOLEAN : OpenStart(p, nonblock)
    /\ UNCHANGED <<driver, counter, pipe>>
Outside(p) == driver = "scullb" /\ Waiting(p) /\ UNCHANGED <<driver, counter, pipe>>
Leaving(p) == driver = "scullb" /\ Closing(p) /\ UNCHANGED <<driver, counter, pipe>>

Gate(p) == Open(p) \/ Close(p) \/ Arriving(p) \/ Outside(p) \/ Leaving(p)

-----------------------------------------------------------------------------
\* scullb-onlyone_access.c

OnlyOpen(p) ==
    /\ driver = "onlyone" /\ Single!Open(p)
    /\ IF spc'[p] = "open" THEN Pipe!Open(p) ELSE UNCHANGED pipe
    /\ UNCHANGED <<driver, vars>>

OnlyBusy(p) == driver = "onlyone" /\ Single!Busy(p) /\ UNCHANGED <<driver, vars, pipe>>

OnlyRelease(p) == driver = "onlyone" /\ Pipe!Close(p) /\ UNCHANGED <<driver, vars, counter>>

\* Mutant of OnlyCount: the counter is given back before the file is off
\* the asynchronous queue.
OnlyCountEarly(p) ==
    driver = "onlyone" /\ pc[p] = "idle" /\ Single!Close(p) /\ UNCHANGED <<driver, vars, pipe>>

OnlyCount(p) ==
    /\ driver = "onlyone" /\ pc[p] = "closed"
    /\ Single!Close(p)
    /\ UNCHANGED <<driver, vars, pipe>>

Only(p) == OnlyOpen(p) \/ OnlyBusy(p) \/ OnlyRelease(p) \/ OnlyCount(p)

-----------------------------------------------------------------------------

AccessNext == \E p \in Procs : Inside(p) \/ Gate(p) \/ Only(p)

AccessSpec == AccessInit /\ [][AccessNext]_AccessVars

\* The fairness of the gate; a program inside the pipe need not go on.
AccessFairSpec ==
    /\ AccessSpec
    /\ \A p \in Procs : WF_AccessVars(Open(p) \/ Outside(p)) /\ WF_AccessVars(Leaving(p))

-----------------------------------------------------------------------------

\* Whoever is inside a handler of scullb.c without the capability runs as
\* the recorded owner, so two different users never share the ring, its
\* semaphore or its wait queues at the same time.
OneUserInThePipe ==
    driver = "scullb" =>
        \A p \in Procs \ Capable :
            pc[p] # "closed" => user_count > 0 /\ user_owner \in {uid[p], euid[p]}

\* "only allow one open of this dev": at most one file is open.
OneOpenFile == Single!OneOpenFile

\* Every decrement of the counter is an open file or an open about to be
\* refused, so the counter returns to 1 and the device can be opened again.
Balance == Single!Balance

\* When a release has freed the device, nothing of the previous user is
\* left in the pipe except bytes: no process in a handler, no queued
\* sleeper or poller, no SIGIO registration, and the semaphore is free.
Free == IF driver = "scullb" THEN user_count = 0 ELSE available = 1
FreeMeansQuiet ==
    Free =>
        /\ sem = 1
        /\ inq = {} /\ outq = {} /\ pollq = {} /\ fasync = {}
        /\ \A p \in Procs : pc[p] = "closed"
=============================================================================
