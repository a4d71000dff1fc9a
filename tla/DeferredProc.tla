---------------------------- MODULE DeferredProc ----------------------------
(***************************************************************************)
(* The /proc files of time/timer.c, time/tasklet.c, time/workqueue-orig.c  *)
(* and time/workqueue.c.  A read allocates a struct sdevdata, defers       *)
(* sdev_timer and sleeps until it has run LOOPS times; each run appends a  *)
(* line to the reader's page and defers itself again, and the last one     *)
(* wakes the reader.                                                       *)
(*                                                                         *)
(* The four files differ in what defers the function, which the model      *)
(* leaves open, and in how a read that was not interrupted ends: with      *)
(* kfree, or in workqueue.c with destroy_workqueue, which waits for the    *)
(* function to end and leaks the structure.  An interrupted read returns   *)
(* at once and leaves the function pending.                                *)
(***************************************************************************)
EXTENDS Integers

CONSTANTS
    Procs,      \* processes that read the file
    LOOPS,      \* the number of lines
    Ending,     \* Ending[p]: "kfree" or "destroy", by the file that p reads
    Signals,    \* the processes that may be signalled
    MaxReads    \* bound: how often each process reads

ASSUME DeferredAssumption ==
    /\ LOOPS \in Nat \ {0}
    /\ Ending \in [Procs -> {"kfree", "destroy"}]
    /\ Signals \subseteq Procs
    /\ MaxReads \in Nat

\* A read is named by its process and its number: it has a structure and a
\* page of its own, which the kernel frees when sdev_proc returns.
Reads == Procs \X (1..MaxReads)

VARIABLES
    reads,      \* reads[p]: how many reads p has begun
    pc,         \* pc[p]: where in sdev_proc p is
    sig,        \* the processes with a signal pending
    queued,     \* queued on the wait queue of their read and not yet woken
    loops,      \* loops[r]: data->loops of read r
    lines,      \* lines[r]: how many lines data->buf has advanced by
    fn,         \* fn[r]: "none", "pending" or where the function of r is
    freed,      \* the reads whose structure has been freed
    result      \* result[p]: the length p's last completed read returned, in lines

vars == <<reads, pc, sig, queued, loops, lines, fn, freed, result>>

Current(p) == <<p, reads[p]>>

Init ==
    /\ reads = [p \in Procs |-> 0]
    /\ pc = [p \in Procs |-> "idle"]
    /\ sig = {} /\ queued = {}
    /\ loops = [r \in Reads |-> LOOPS]
    /\ lines = [r \in Reads |-> 0]
    /\ fn = [r \in Reads |-> "none"]
    /\ freed = {}
    /\ result = [p \in Procs |-> LOOPS]

-----------------------------------------------------------------------------
\* sdev_proc

Goto(p, label) == pc' = [pc EXCEPT ![p] = label]

ProcStart(p) ==
    /\ pc[p] = "idle" /\ reads[p] < MaxReads
    /\ reads' = [reads EXCEPT ![p] = @ + 1]
    /\ fn' = [fn EXCEPT ![<<p, reads[p] + 1>>] = "pending"]
    /\ Goto(p, "wait")
    /\ UNCHANGED <<sig, queued, loops, lines, freed, result>>

Signal(p) ==
    /\ pc[p] # "idle" /\ p \in Signals
    /\ sig' = sig \cup {p}
    /\ UNCHANGED <<reads, pc, queued, loops, lines, fn, freed, result>>

\* wait_event_interruptible: queue, test, and sleep until woken or signalled.
WaitQueue(p) ==
    /\ pc[p] = "wait" \/ (pc[p] = "sleep" /\ (p \notin queued \/ p \in sig))
    /\ queued' = queued \cup {p}
    /\ Goto(p, "test")
    /\ UNCHANGED <<reads, sig, loops, lines, fn, freed, result>>

\* Mutant of WaitTest: any wake-up ends the wait.
WaitOnce(p) ==
    /\ pc[p] = "test" /\ queued' = queued \ {p} /\ Goto(p, "woken")
    /\ UNCHANGED <<reads, sig, loops, lines, fn, freed, result>>

WaitTest(p) ==
    /\ pc[p] = "test"
    /\ IF loops[Current(p)] = 0 \/ p \in sig
         THEN queued' = queued \ {p} /\ Goto(p, "woken")
         ELSE UNCHANGED queued /\ Goto(p, "sleep")
    /\ UNCHANGED <<reads, sig, loops, lines, fn, freed, result>>

\* wait_event_interruptible tests once before it queues.
WaitFast(p) ==
    /\ pc[p] = "wait" /\ loops[Current(p)] = 0
    /\ Goto(p, "woken")
    /\ UNCHANGED <<reads, sig, queued, loops, lines, fn, freed, result>>

\* Mutant of ProcInterrupted: an interrupted read frees its structure too.
ProcInterruptedFrees(p) ==
    /\ pc[p] = "woken" /\ p \in sig
    /\ sig' = sig \ {p} /\ freed' = freed \cup {Current(p)} /\ Goto(p, "idle")
    /\ UNCHANGED <<reads, queued, loops, lines, fn, result>>

\* if (signal_pending(current)) return -ERESTARTSYS
ProcInterrupted(p) ==
    /\ pc[p] = "woken" /\ p \in sig
    /\ sig' = sig \ {p}
    /\ Goto(p, "idle")
    /\ UNCHANGED <<reads, queued, loops, lines, fn, freed, result>>

\* No signal: the length of the result is taken from data->buf.
ProcLength(p) ==
    /\ pc[p] = "woken" /\ p \notin sig
    /\ result' = [result EXCEPT ![p] = lines[Current(p)]]
    /\ Goto(p, "end")
    /\ UNCHANGED <<reads, sig, queued, loops, lines, fn, freed>>

\* Mutant of ProcReturn: the work queue is not destroyed.
ProcReturnEarly(p) ==
    /\ pc[p] = "end" /\ sig' = sig \ {p} /\ Goto(p, "idle")
    /\ UNCHANGED <<reads, queued, loops, lines, fn, freed, result>>

\* kfree, or destroy_workqueue, which returns only once the function has.
\* A signal that comes now is the program's.
ProcReturn(p) ==
    /\ pc[p] = "end"
    /\ Ending[p] = "destroy" => fn[Current(p)] = "none"
    /\ freed' = IF Ending[p] = "kfree" THEN freed \cup {Current(p)} ELSE freed
    /\ sig' = sig \ {p}
    /\ Goto(p, "idle")
    /\ UNCHANGED <<reads, queued, loops, lines, fn, result>>

-----------------------------------------------------------------------------
\* sdev_timer of read r

AppendLine(r) ==
    /\ fn[r] = "pending"
    /\ lines' = [lines EXCEPT ![r] = @ + 1]
    /\ fn' = [fn EXCEPT ![r] = "printed"]
    /\ UNCHANGED <<reads, pc, sig, queued, loops, freed, result>>

Count(r) ==
    /\ fn[r] = "printed"
    /\ loops' = [loops EXCEPT ![r] = @ - 1]
    /\ fn' = [fn EXCEPT ![r] = IF loops[r] = 1 THEN "wake" ELSE "again"]
    /\ UNCHANGED <<reads, pc, sig, queued, lines, freed, result>>

\* add_timer, tasklet_hi_schedule, queue_work or queue_delayed_work.
Again(r) ==
    /\ fn[r] = "again"
    /\ fn' = [fn EXCEPT ![r] = "pending"]
    /\ UNCHANGED <<reads, pc, sig, queued, loops, lines, freed, result>>

\* Mutant of Wake: the last run wakes nobody.
WakeNobody(r) ==
    /\ fn[r] = "wake" /\ fn' = [fn EXCEPT ![r] = "none"]
    /\ UNCHANGED <<reads, pc, sig, queued, loops, lines, freed, result>>

\* wake_up_interruptible(&ptr->wait), which lies in the structure: the
\* process that waits there is the one whose read this is, if any.
Wake(r) ==
    /\ fn[r] = "wake"
    /\ queued' = IF r = Current(r[1]) THEN queued \ {r[1]} ELSE queued
    /\ fn' = [fn EXCEPT ![r] = "none"]
    /\ UNCHANGED <<reads, pc, sig, loops, lines, freed, result>>

-----------------------------------------------------------------------------

sdev_proc(p) ==
    \/ WaitQueue(p) \/ WaitTest(p) \/ WaitFast(p)
    \/ ProcInterrupted(p) \/ ProcLength(p) \/ ProcReturn(p)

sdev_timer(r) == AppendLine(r) \/ Count(r) \/ Again(r) \/ Wake(r)

Next ==
    \/ \E p \in Procs : ProcStart(p) \/ Signal(p) \/ sdev_proc(p)
    \/ \E r \in Reads : sdev_timer(r)

Spec == Init /\ [][Next]_vars

\* Runnable processes run, and what has been deferred happens.
Fairness ==
    /\ \A p \in Procs : WF_vars(sdev_proc(p))
    /\ \A r \in Reads : WF_vars(sdev_timer(r))

FairSpec == Spec /\ Fairness

-----------------------------------------------------------------------------
\* A read that sdev_proc completes returns exactly LOOPS lines, although
\* data->buf is advanced by another context that the reader does not lock out.
FullResult == \A p \in Procs : result[p] = LOOPS

\* Once sdev_proc has freed its structure, sdev_timer neither writes a line,
\* nor counts, nor defers itself again through it: all that may be left of
\* it is its last wake_up_interruptible.
FreedOnlyToBeWoken == \A r \in freed : fn[r] \in {"none", "wake"}

\* With destroy_workqueue, and no signal, every step of sdev_timer happens
\* while the read that deferred it is in progress and its page is there.
FunctionInsideRead ==
    \A p \in Procs \ Signals, i \in 1..MaxReads :
        Ending[p] = "destroy" /\ fn[<<p, i>>] # "none" =>
            <<p, i>> = Current(p) /\ pc[p] # "idle"

\* The reader tests data->loops after it has queued itself, so a reader that
\* sleeps although its last line is there has the last wake_up_interruptible
\* of sdev_timer still to come.
NoLostWakeup ==
    \A p \in Procs :
        pc[p] = "sleep" /\ p \in queued /\ loops[Current(p)] = 0 => fn[Current(p)] = "wake"

\* Every read of the file returns.
ReadReturns == \A p \in Procs : pc[p] # "idle" ~> pc[p] = "idle"
=============================================================================
