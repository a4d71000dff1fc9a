------------------------------ MODULE ScullPipe ------------------------------
(***************************************************************************)
(* The pipe driver of nonblock/scullb.c: one ring buffer, one semaphore,   *)
(* a wait queue for each direction, poll and asynchronous notification.    *)
(* access/scullb.c and access/scullb-onlyone_access.c contain the same     *)
(* read, write, poll and fasync handlers, word for word.                   *)
(*                                                                         *)
(* A process stands for a thread with one open file.  The semaphore lets   *)
(* one process at a time into the ring, but the conditions of the wait     *)
(* loops are evaluated outside it, so an update is split wherever another  *)
(* process can look: the pointer is advanced, then wrapped, then the       *)
(* semaphore is released, then the other side is woken.                    *)
(*                                                                         *)
(* Bytes are named by their position in the stream the driver has          *)
(* accepted; 0 is what vmalloc left in a cell.  copy_to_user and           *)
(* copy_from_user return a count that is never negative, so the -EFAULT    *)
(* branches are dead: after a fault the pointers advance all the same.     *)
(***************************************************************************)
EXTENDS Integers, Sequences

CONSTANTS
    Procs,      \* threads, each with one file of its own
    DEVSIZE,    \* sdev.bufsize
    Uses,       \* Uses[p]: the operations p's program makes use of
    Lens,       \* the lengths programs pass to read and write
    Flags,      \* the values O_NONBLOCK takes in their file flags
    Faults,     \* whether a user buffer may be partly unmapped
    MaxBytes    \* no write starts once this many bytes are accepted

ASSUME PipeAssumption ==
    /\ DEVSIZE \in Nat \ {0}
    /\ Uses \in [Procs -> SUBSET {"read", "write", "poll", "fasync", "signal"}]
    /\ Flags \subseteq BOOLEAN
    /\ Lens \subseteq Nat
    /\ Faults \in BOOLEAN
    /\ MaxBytes \in Nat

VARIABLES
    rp, wp,     \* offsets of sdev.rp and sdev.wp from sdev.buf
    buf,        \* the ring
    sem,        \* sdev.sem
    inq, outq,  \* queued on sdev.inq / sdev.outq and not yet woken
    pollq,      \* pollers queued on both by poll_wait and not yet woken
    fasync,     \* files on sdev.async_queue
    sig,        \* processes with a signal pending
    pc,         \* where in its handler a process is
    call,       \* the arguments of its system call
    seen,       \* the pointer the unlocked wait condition has loaded first
    ubuf,       \* what the current read has stored in the user's buffer
    sent        \* how many bytes the driver has accepted (history)

ring   == <<rp, wp, buf, sent>>
queues == <<inq, outq, pollq>>
vars   == <<ring, sem, queues, fasync, sig, pc, call, seen, ubuf>>

Min(a, b) == IF a <= b THEN a ELSE b

NoCall == [len |-> 0, nb |-> FALSE]

\* The labels at which a process is inside a read, a write or a poll, and
\* those at which it holds the semaphore.
ReadLabels ==
    {"r_down", "r_crit", "r_wrap", "r_wake", "r_wait", "r_load", "r_cmp_wp",
     "r_cmp_rp", "r_sleep"}
WriteLabels ==
    {"w_down", "w_crit", "w_wrap", "w_wake", "w_sigio", "w_wait", "w_check", "w_sleep"}
PollLabels == {"p_down", "p_queue", "p_crit", "p_sleep", "p_again"}
Labels == {"closed", "idle"} \cup ReadLabels \cup WriteLabels \cup PollLabels
Holding == {"r_crit", "r_wrap", "w_crit", "w_wrap", "p_queue", "p_crit"}

Init ==
    /\ rp = 0 /\ wp = 0
    /\ buf = [i \in 0..DEVSIZE-1 |-> 0]
    /\ sem = 1
    /\ inq = {} /\ outq = {} /\ pollq = {}
    /\ fasync = {} /\ sig = {}
    /\ pc = [p \in Procs |-> "closed"]
    /\ call = [p \in Procs |-> NoCall]
    /\ seen = [p \in Procs |-> 0]
    /\ ubuf = [p \in Procs |-> <<>>]
    /\ sent = 0

-----------------------------------------------------------------------------

Goto(p, label) == pc' = [pc EXCEPT ![p] = label]

\* Back to user mode, where a pending signal is delivered.
Return(p) ==
    /\ Goto(p, "idle")
    /\ sig' = sig \ {p}
    /\ call' = [call EXCEPT ![p] = NoCall]
    /\ ubuf' = [ubuf EXCEPT ![p] = <<>>]
    /\ UNCHANGED seen

\* Stay in the handler.
Continue(p, label) == Goto(p, label) /\ UNCHANGED <<sig, call, ubuf, seen>>

Start(p, use, label, len, nb) ==
    /\ pc[p] = "idle" /\ use \in Uses[p]
    /\ call' = [call EXCEPT ![p] = [len |-> len, nb |-> nb]]
    /\ Goto(p, label)
    /\ UNCHANGED <<ring, sem, queues, fasync, sig, seen, ubuf>>

Open(p) ==
    /\ pc[p] = "closed"
    /\ Continue(p, "idle")
    /\ UNCHANGED <<ring, sem, queues, fasync>>

\* Mutant of Close: the release handler forgets sdev_fasync(-1, file, 0).
CloseKeepsAsync(p) ==
    pc[p] = "idle" /\ Continue(p, "closed") /\ UNCHANGED <<ring, sem, queues, fasync>>

\* The release handler takes the file off the asynchronous queue.
Close(p) ==
    /\ pc[p] = "idle"
    /\ Continue(p, "closed")
    /\ fasync' = fasync \ {p}
    /\ UNCHANGED <<ring, sem, queues>>

Fasync(p, mode) ==
    /\ pc[p] = "idle" /\ "fasync" \in Uses[p]
    /\ fasync' = IF mode THEN fasync \cup {p} ELSE fasync \ {p}
    /\ UNCHANGED <<ring, sem, queues, sig, pc, call, seen, ubuf>>

\* A signal from elsewhere; outside a system call it is delivered at once.
Signal(p) ==
    /\ pc[p] \notin {"closed", "idle"} /\ "signal" \in Uses[p]
    /\ sig' = sig \cup {p}
    /\ UNCHANGED <<ring, sem, queues, fasync, pc, call, seen, ubuf>>

-----------------------------------------------------------------------------
\* down_interruptible succeeds whenever the semaphore is free, and fails
\* only when the process would sleep with a signal pending.

Down(p, from, to) ==
    /\ pc[p] = from
    /\ sem = 1
    /\ sem' = 0
    /\ Continue(p, to)
    /\ UNCHANGED <<ring, fasync>>

DownInterrupted(p) ==
    /\ pc[p] \in {"r_down", "w_down", "p_down", "p_again"}
    /\ sem = 0
    /\ p \in sig
    /\ Return(p)
    /\ pollq' = pollq \ {p}
    /\ UNCHANGED <<ring, sem, inq, outq, fasync>>

-----------------------------------------------------------------------------
\* sdev_read

ReadDown(p) == Down(p, "r_down", "r_crit") /\ UNCHANGED queues

ReadAgain(p) ==
    /\ pc[p] = "r_crit" /\ rp = wp /\ call[p].nb
    /\ sem' = 1
    /\ Return(p)
    /\ UNCHANGED <<ring, queues, fasync>>

\* Mutant of ReadBlock: the reader sleeps with the semaphore held.
ReadBlockHolding(p) ==
    /\ pc[p] = "r_crit" /\ rp = wp /\ ~call[p].nb
    /\ Continue(p, "r_wait") /\ UNCHANGED <<ring, sem, queues, fasync>>

ReadBlock(p) ==
    /\ pc[p] = "r_crit" /\ rp = wp /\ ~call[p].nb
    /\ sem' = 1
    /\ Continue(p, "r_wait")
    /\ UNCHANGED <<ring, queues, fasync>>

\* wait_event_interruptible evaluates its condition once before it queues.
ReadFast(p) ==
    /\ pc[p] = "r_wait" /\ rp # wp
    /\ Continue(p, "r_down")
    /\ UNCHANGED <<ring, sem, queues, fasync>>

ReadPrepare(p) ==
    /\ \/ pc[p] = "r_wait"
       \/ pc[p] = "r_sleep" /\ (p \notin inq \/ p \in sig)
    /\ inq' = inq \cup {p}
    /\ Continue(p, "r_load")
    /\ UNCHANGED <<ring, sem, outq, pollq, fasync>>

\* rp # wp is two loads, in an order that is up to the compiler, and
\* nothing keeps the ring still between them.
ReadLoad(p) ==
    /\ pc[p] = "r_load"
    /\ \/ seen' = [seen EXCEPT ![p] = rp] /\ Goto(p, "r_cmp_wp")
       \/ seen' = [seen EXCEPT ![p] = wp] /\ Goto(p, "r_cmp_rp")
    /\ UNCHANGED <<ring, sem, queues, fasync, sig, call, ubuf>>

\* Mutant of ReadCompare: sleep without testing again after queueing.
ReadSleepOn(p) ==
    /\ pc[p] \in {"r_cmp_wp", "r_cmp_rp"}
    /\ Continue(p, "r_sleep") /\ UNCHANGED <<ring, sem, queues, fasync>>

ReadCompare(p) ==
    LET equal == seen[p] = IF pc[p] = "r_cmp_wp" THEN wp ELSE rp IN
    /\ pc[p] \in {"r_cmp_wp", "r_cmp_rp"}
    /\ \/ ~equal /\ inq' = inq \ {p} /\ Continue(p, "r_down")
       \/ equal /\ p \in sig /\ inq' = inq \ {p} /\ Return(p)
       \/ equal /\ p \notin sig /\ UNCHANGED inq /\ Continue(p, "r_sleep")
    /\ UNCHANGED <<ring, sem, outq, pollq, fasync>>

\* Mutant of ReadCount: the case rp < wp is forgotten.
ReadCountToEnd(len) == Min(len, DEVSIZE - rp)

\* One contiguous run of bytes at most.  The reader gets all of them, or
\* only a prefix if its buffer faults; they are consumed either way.
ReadCount(len) == Min(len, IF rp < wp THEN wp - rp ELSE DEVSIZE - rp)

ReadCopy(p) ==
    LET count == ReadCount(call[p].len) IN
    /\ pc[p] = "r_crit" /\ rp # wp
    /\ \E done \in 0..count :
          /\ ~Faults => done = count
          /\ ubuf' = [ubuf EXCEPT ![p] = [i \in 1..done |-> buf[rp + i - 1]]]
    /\ rp' = rp + count
    /\ Goto(p, "r_wrap")
    /\ UNCHANGED <<wp, buf, sent, sem, queues, fasync, sig, call, seen>>

ReadWrap(p) ==
    /\ pc[p] = "r_wrap"
    /\ rp' = IF rp = DEVSIZE THEN 0 ELSE rp
    /\ sem' = 1
    /\ Continue(p, "r_wake")
    /\ UNCHANGED <<wp, buf, sent, queues, fasync>>

ReadWake(p) ==
    /\ pc[p] = "r_wake"
    /\ outq' = {} /\ pollq' = {}
    /\ Return(p)
    /\ UNCHANGED <<ring, sem, inq, fasync>>

-----------------------------------------------------------------------------
\* sdev_write

have_space == IF wp = rp THEN DEVSIZE - 1 ELSE (wp - rp + DEVSIZE) % DEVSIZE

WriteDown(p) == Down(p, "w_down", "w_crit") /\ UNCHANGED queues

WriteAgain(p) ==
    /\ pc[p] = "w_crit" /\ have_space = 0 /\ call[p].nb
    /\ sem' = 1
    /\ Return(p)
    /\ UNCHANGED <<ring, queues, fasync>>

\* Mutant of WriteBlock: the loop takes rp = wp for a full ring.
WriteBlockEqual(p) ==
    /\ pc[p] = "w_crit" /\ rp = wp /\ ~call[p].nb
    /\ sem' = 1
    /\ Continue(p, "w_wait") /\ UNCHANGED <<ring, queues, fasync>>

WriteBlock(p) ==
    /\ pc[p] = "w_crit" /\ have_space = 0 /\ ~call[p].nb
    /\ sem' = 1
    /\ Continue(p, "w_wait")
    /\ UNCHANGED <<ring, queues, fasync>>

WritePrepare(p) ==
    /\ pc[p] = "w_wait"
    /\ outq' = outq \cup {p}
    /\ Continue(p, "w_check")
    /\ UNCHANGED <<ring, sem, inq, pollq, fasync>>

\* With space to write the process does not sleep: it is off the queue.
WriteCheck(p) ==
    /\ pc[p] = "w_check"
    /\ outq' = IF have_space = 0 THEN outq ELSE outq \ {p}
    /\ Continue(p, "w_sleep")
    /\ UNCHANGED <<ring, sem, inq, pollq, fasync>>

\* Mutant of WriteWoken: signal_pending is not looked at after schedule.
WriteWokenDeaf(p) ==
    /\ pc[p] = "w_sleep" /\ (p \notin outq \/ p \in sig)
    /\ outq' = outq \ {p}
    /\ Continue(p, "w_down") /\ UNCHANGED <<ring, sem, inq, pollq, fasync>>

WriteWoken(p) ==
    /\ pc[p] = "w_sleep" /\ (p \notin outq \/ p \in sig)
    /\ outq' = outq \ {p}
    /\ IF p \in sig THEN Return(p) ELSE Continue(p, "w_down")
    /\ UNCHANGED <<ring, sem, inq, pollq, fasync>>

\* Mutant of WriteCount: nothing stops a write at the end of the buffer.
WriteCountPastEnd(len) ==
    LET count == Min(len, have_space) IN
    IF wp >= rp THEN count ELSE Min(count, rp - wp - 1)

WriteCount(len) ==
    LET count == Min(len, have_space) IN
    IF wp >= rp THEN Min(count, DEVSIZE - wp) ELSE Min(count, rp - wp - 1)

\* Mutant of Store: the bytes go to sdev.buf instead of sdev.wp.
StoreAtStart(at, n) ==
    [i \in 0..DEVSIZE-1 |-> IF i < n THEN sent + 1 + i ELSE buf[i]]

\* The cells from offset at onwards hold the next n bytes of the stream.
Store(at, n) ==
    [i \in 0..DEVSIZE-1 |-> IF i \in at .. at+n-1 THEN sent + 1 + (i - at) ELSE buf[i]]

WriteCopy(p) ==
    LET count == WriteCount(call[p].len) IN
    /\ pc[p] = "w_crit" /\ have_space # 0
    /\ buf' = Store(wp, count)
    /\ sent' = sent + count
    /\ wp' = wp + count
    /\ Continue(p, "w_wrap")
    /\ UNCHANGED <<rp, sem, queues, fasync>>

WriteWrap(p) ==
    /\ pc[p] = "w_wrap"
    /\ wp' = IF wp = DEVSIZE THEN 0 ELSE wp
    /\ sem' = 1
    /\ Continue(p, "w_wake")
    /\ UNCHANGED <<rp, buf, sent, queues, fasync>>

\* Mutant of WriteWake: the writer wakes its own queue.
WriteWakeOut(p) ==
    /\ pc[p] = "w_wake" /\ outq' = {}
    /\ Continue(p, "w_sigio") /\ UNCHANGED <<ring, sem, inq, pollq, fasync>>

WriteWake(p) ==
    /\ pc[p] = "w_wake"
    /\ inq' = {} /\ pollq' = {}
    /\ Continue(p, "w_sigio")
    /\ UNCHANGED <<ring, sem, outq, fasync>>

\* kill_fasync: SIGIO to every registered process.  It stays pending in
\* those that are inside a system call.
WriteSigio(p) ==
    /\ pc[p] = "w_sigio"
    /\ Goto(p, "idle")
    /\ sig' = (sig \cup {q \in fasync : pc[q] # "idle"}) \ {p}
    /\ call' = [call EXCEPT ![p] = NoCall]
    /\ UNCHANGED <<ring, sem, queues, fasync, seen, ubuf>>

-----------------------------------------------------------------------------
\* sdev_poll, under a select that waits for the device to become readable.
\* select calls it again after every wake-up; poll_wait queues the process
\* the first time only, and the entries stay queued until select returns.

PollDown(p) ==
    /\ Down(p, "p_down", "p_queue") \/ Down(p, "p_again", "p_crit")
    /\ UNCHANGED queues

PollQueue(p) ==
    /\ pc[p] = "p_queue"
    /\ pollq' = pollq \cup {p}
    /\ Continue(p, "p_crit")
    /\ UNCHANGED <<ring, sem, inq, outq, fasync>>

\* select returns on POLLIN or a signal and sleeps otherwise.
PollCheck(p) ==
    /\ pc[p] = "p_crit"
    /\ sem' = 1
    /\ IF rp # wp \/ p \in sig
         THEN Return(p) /\ pollq' = pollq \ {p}
         ELSE Continue(p, "p_sleep") /\ UNCHANGED pollq
    /\ UNCHANGED <<ring, inq, outq, fasync>>

\* select notices a wake-up that came at any time since it last looked.
PollWoken(p) ==
    /\ pc[p] = "p_sleep" /\ (p \notin pollq \/ p \in sig)
    /\ pollq' = pollq \cup {p}
    /\ Continue(p, "p_again")
    /\ UNCHANGED <<ring, sem, inq, outq, fasync>>

-----------------------------------------------------------------------------

\* What a program does with an open file, in its own time.
Use(p) ==
    \/ \E mode \in BOOLEAN : Fasync(p, mode)
    \/ \E len \in Lens, nb \in Flags : Start(p, "read", "r_down", len, nb)
    \/ /\ sent < MaxBytes
       /\ \E len \in Lens, nb \in Flags : Start(p, "write", "w_down", len, nb)
    \/ Start(p, "poll", "p_down", 0, FALSE)
Call(p) == Open(p) \/ Close(p) \/ Use(p)

Acquire(p) == ReadDown(p) \/ WriteDown(p) \/ PollDown(p)

\* What the driver does for it, once the scheduler runs it.
Handler(p) ==
    \/ DownInterrupted(p)
    \/ ReadAgain(p) \/ ReadBlock(p) \/ ReadFast(p) \/ ReadPrepare(p)
    \/ ReadLoad(p) \/ ReadCompare(p) \/ ReadCopy(p) \/ ReadWrap(p) \/ ReadWake(p)
    \/ WriteAgain(p) \/ WriteBlock(p) \/ WritePrepare(p) \/ WriteCheck(p)
    \/ WriteWoken(p) \/ WriteCopy(p) \/ WriteWrap(p) \/ WriteWake(p) \/ WriteSigio(p)
    \/ PollQueue(p) \/ PollCheck(p) \/ PollWoken(p)

Next == \E p \in Procs : Call(p) \/ Signal(p) \/ Acquire(p) \/ Handler(p)

Spec == Init /\ [][Next]_vars

\* The scheduler runs every process that can run, and the semaphore hands
\* itself to its waiters in the order they came, so none waits forever
\* while others keep taking it.  Nobody has to call or to signal.
Fairness == \A p \in Procs : WF_vars(Handler(p)) /\ SF_vars(Acquire(p))

FairSpec == Spec /\ Fairness

-----------------------------------------------------------------------------
\* The pointers as they are once a pending wrap is done, the number of
\* bytes between them, and the cell of the k-th of those bytes.
Wrapped(x) == IF x = DEVSIZE THEN 0 ELSE x
Occupied ==
    IF Wrapped(wp) >= Wrapped(rp)
      THEN Wrapped(wp) - Wrapped(rp)
      ELSE Wrapped(wp) - Wrapped(rp) + DEVSIZE
Slot(k) ==
    IF Wrapped(rp) + k < DEVSIZE THEN Wrapped(rp) + k ELSE Wrapped(rp) + k - DEVSIZE

TypeOK ==
    /\ rp \in 0..DEVSIZE /\ wp \in 0..DEVSIZE
    /\ buf \in [0..DEVSIZE-1 -> Nat]
    /\ sem \in {0, 1}
    /\ inq \subseteq Procs /\ outq \subseteq Procs /\ pollq \subseteq Procs
    /\ fasync \subseteq Procs /\ sig \subseteq Procs
    /\ pc \in [Procs -> Labels]
    /\ call \in [Procs -> [len : Lens \cup {0}, nb : BOOLEAN]]
    /\ seen \in [Procs -> 0..DEVSIZE]
    /\ ubuf \in [Procs -> Seq(Nat)]
    /\ sent \in Nat

\* sdev.sem is taken exactly while one process is between a successful
\* down_interruptible and the matching up: no handler path leaks it, and no
\* two processes are in the ring together.
SemaphoreDiscipline ==
    /\ sem = 1 <=> \A p \in Procs : pc[p] \notin Holding
    /\ \A p, q \in Procs : pc[p] \in Holding /\ pc[q] \in Holding => p = q

\* The cells between rp and wp hold the bytes accepted last, in order and
\* without a gap: sdev_read never returns a stale cell, a byte twice, or
\* what vmalloc left behind, however often sdev_write overran the reader.
NewestBytesInOrder ==
    \A k \in 0..Occupied-1 : buf[Slot(k)] = sent - Occupied + 1 + k

\* sdev_write has moved wp and has not yet called wake_up_interruptible.
WakePending == \E q \in Procs : pc[q] \in {"w_wrap", "w_wake"}

\* A reader sleeps on inq, or a poller in select, with bytes in the ring
\* only while a writer is on its way to wake it: the wait condition that
\* sdev_read evaluates without the semaphore loses no wake-up.
NoLostWakeup ==
    Occupied # 0 =>
        \A p \in Procs :
            \/ pc[p] = "r_sleep" /\ p \in inq
            \/ pc[p] = "p_sleep" /\ p \in pollq
            => WakePending

\* Only open files are on sdev.async_queue, so kill_fasync never reaches a
\* file that sdev_close has released.
AsyncQueueOpen == \A p \in fasync : pc[p] # "closed"

\* The ring implements the lossy FIFO: sdev_read delivers consecutive bytes
\* in stream order, and sdev_write loses bytes only by catching up with rp,
\* in which case all DEVSIZE bytes of the ring are lost at once.
Fifo == INSTANCE LossyFifo
            WITH Size <- DEVSIZE, next <- sent - Occupied + 1, out <- ubuf
ImplementsFifo == Fifo!Spec

\* Bytes in the ring do not leave a blocked reader asleep: it wakes up, or
\* some other reader has taken them.
SleepingReaderWakes ==
    \A p \in Procs :
        pc[p] = "r_sleep" /\ Occupied # 0 ~> pc[p] # "r_sleep" \/ Occupied = 0

\* A blocking sdev_write returns even if nobody ever reads: for every ring
\* of two bytes or more have_space is positive, so no writer sleeps.
WriteReturns == \A p \in Procs : pc[p] \in WriteLabels ~> pc[p] = "idle"

\* A signal ends every call, wherever in its wait loop it catches it: it
\* never goes on waiting for data, for space or for the semaphore.
SignalEndsCall ==
    \A p \in Procs : p \in sig ~> pc[p] \in {"idle", "closed"}

\* What the comment "if buf is full" on the loop of sdev_write says: a
\* writer that has left the loop has room for a byte.
WriterHasRoom ==
    \A p \in Procs : pc[p] = "w_crit" /\ have_space # 0 => Occupied < DEVSIZE - 1
=============================================================================
