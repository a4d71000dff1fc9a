------------------------------- MODULE FinRing -------------------------------
(***************************************************************************)
(* The blocking ring of interrupt/finopage.c (interrupt/fin.c has the same *)
(* read and write): one semaphore, one wait queue for the readers, and no  *)
(* check for room in sdev_write, which overruns freely.                    *)
(*                                                                         *)
(* Unlike the pipe of nonblock/scullb.c a reader waits with wait_event,    *)
(* which no signal ends, and its condition is have_read(ptr) != 0, which   *)
(* orders the pointers instead of comparing them for equality.             *)
(*                                                                         *)
(* Bytes are named by their position in the stream the driver has          *)
(* accepted.  copy_to_user and copy_from_user never return a negative      *)
(* number, so the -EAGAIN branches are dead.                               *)
(***************************************************************************)
EXTENDS Integers, Sequences

CONSTANTS
    Procs,      \* threads with the device open
    SSIZE,      \* the size of the ring
    Uses,       \* Uses[p]: the operations p's program makes use of
    Lens,       \* the lengths programs pass to read and write
    Faults,     \* whether a user buffer may be partly unmapped
    MaxBytes    \* no write starts once this many bytes are accepted

ASSUME FinAssumption ==
    /\ SSIZE \in Nat \ {0}
    /\ Uses \in [Procs -> SUBSET {"read", "write", "signal"}]
    /\ Lens \subseteq Nat
    /\ Faults \in BOOLEAN
    /\ MaxBytes \in Nat

VARIABLES
    rp, wp,     \* offsets of ptr->rp and ptr->wp from ptr->buf
    buf,        \* the ring
    sem,        \* ptr->sem
    waitq,      \* queued on waitq and not yet woken
    pc,         \* where in its handler a process is
    len,        \* the length argument of its call
    seen,       \* the pointer the unlocked wait condition has loaded first
    ubuf,       \* what the current read has stored in the user's buffer
    sent        \* how many bytes the driver has accepted (history)

ring == <<rp, wp, buf, sent>>
vars == <<ring, sem, waitq, pc, len, seen, ubuf>>

Min(a, b) == IF a <= b THEN a ELSE b

ReadLabels ==
    {"r_down", "r_crit", "r_wrap", "r_wait", "r_load", "r_cmp_wp", "r_cmp_rp", "r_sleep"}
WriteLabels == {"w_down", "w_crit", "w_wrap", "w_wake"}
Labels == {"idle"} \cup ReadLabels \cup WriteLabels
Holding == {"r_crit", "r_wrap", "w_crit", "w_wrap"}

Init ==
    /\ rp = 0 /\ wp = 0
    /\ buf = [i \in 0..SSIZE-1 |-> 0]
    /\ sem = 1
    /\ waitq = {}
    /\ pc = [p \in Procs |-> "idle"]
    /\ len = [p \in Procs |-> 0]
    /\ seen = [p \in Procs |-> 0]
    /\ ubuf = [p \in Procs |-> <<>>]
    /\ sent = 0

-----------------------------------------------------------------------------

Goto(p, label) == pc' = [pc EXCEPT ![p] = label]

Continue(p, label) == Goto(p, label) /\ UNCHANGED <<len, seen, ubuf>>

Return(p) ==
    /\ Goto(p, "idle")
    /\ len' = [len EXCEPT ![p] = 0]
    /\ seen' = [seen EXCEPT ![p] = 0]
    /\ ubuf' = [ubuf EXCEPT ![p] = <<>>]

Start(p, use, label, n) ==
    /\ pc[p] = "idle" /\ use \in Uses[p]
    /\ len' = [len EXCEPT ![p] = n]
    /\ Goto(p, label)
    /\ UNCHANGED <<ring, sem, waitq, seen, ubuf>>

Down(p, from, to) ==
    /\ pc[p] = from
    /\ sem = 1 /\ sem' = 0
    /\ Continue(p, to)
    /\ UNCHANGED <<ring, waitq>>

\* down_interruptible gives up only when it would sleep and a signal is
\* pending; in this driver a signal has no other effect.
DownInterrupted(p) ==
    /\ pc[p] \in {"r_down", "w_down"} /\ sem = 0 /\ "signal" \in Uses[p]
    /\ Return(p)
    /\ UNCHANGED <<ring, sem, waitq>>

-----------------------------------------------------------------------------
\* sdev_read

\* have_read on the values r and w of the two pointers.
have_read(r, w) ==
    IF r < w THEN w - r ELSE IF r = w THEN 0 ELSE SSIZE - r

ReadDown(p) == Down(p, "r_down", "r_crit")

\* Mutant of ReadBlock: the reader waits with the semaphore held.
ReadBlockHolding(p) ==
    /\ pc[p] = "r_crit" /\ have_read(rp, wp) = 0
    /\ Continue(p, "r_wait") /\ UNCHANGED <<ring, sem, waitq>>

ReadBlock(p) ==
    /\ pc[p] = "r_crit" /\ have_read(rp, wp) = 0
    /\ sem' = 1
    /\ Continue(p, "r_wait")
    /\ UNCHANGED <<ring, waitq>>

\* wait_event evaluates its condition once before it queues.
ReadFast(p) ==
    /\ pc[p] = "r_wait" /\ have_read(rp, wp) # 0
    /\ Continue(p, "r_down")
    /\ UNCHANGED <<ring, sem, waitq>>

ReadPrepare(p) ==
    /\ pc[p] = "r_wait" \/ (pc[p] = "r_sleep" /\ p \notin waitq)
    /\ waitq' = waitq \cup {p}
    /\ Continue(p, "r_load")
    /\ UNCHANGED <<ring, sem>>

\* The condition loads the two pointers in an order that is up to the
\* compiler, and nothing keeps the ring still between the loads.
ReadLoad(p) ==
    /\ pc[p] = "r_load"
    /\ \/ seen' = [seen EXCEPT ![p] = rp] /\ Goto(p, "r_cmp_wp")
       \/ seen' = [seen EXCEPT ![p] = wp] /\ Goto(p, "r_cmp_rp")
    /\ UNCHANGED <<ring, sem, waitq, len, ubuf>>

\* Mutant of ReadCompare: sleep without testing again after queueing.
ReadSleepOn(p) ==
    /\ pc[p] \in {"r_cmp_wp", "r_cmp_rp"}
    /\ Continue(p, "r_sleep") /\ UNCHANGED <<ring, sem, waitq>>

ReadCompare(p) ==
    LET count == IF pc[p] = "r_cmp_wp" THEN have_read(seen[p], wp)
                                       ELSE have_read(rp, seen[p]) IN
    /\ pc[p] \in {"r_cmp_wp", "r_cmp_rp"}
    /\ \/ count # 0 /\ waitq' = waitq \ {p} /\ Continue(p, "r_down")
       \/ count = 0 /\ UNCHANGED waitq /\ Continue(p, "r_sleep")
    /\ UNCHANGED <<ring, sem>>

\* The bytes are consumed even if the user's buffer faults after a prefix.
ReadCopy(p) ==
    LET count == Min(Min(have_read(rp, wp), len[p]), SSIZE - rp) IN
    /\ pc[p] = "r_crit" /\ have_read(rp, wp) # 0
    /\ \E done \in 0..count :
          /\ ~Faults => done = count
          /\ ubuf' = [ubuf EXCEPT ![p] = [i \in 1..done |-> buf[rp + i - 1]]]
    /\ rp' = rp + count
    /\ Goto(p, "r_wrap")
    /\ UNCHANGED <<wp, buf, sent, sem, waitq, len, seen>>

ReadWrap(p) ==
    /\ pc[p] = "r_wrap"
    /\ rp' = IF rp = SSIZE THEN 0 ELSE rp
    /\ sem' = 1
    /\ Return(p)
    /\ UNCHANGED <<wp, buf, sent, waitq>>

-----------------------------------------------------------------------------
\* sdev_write

WriteDown(p) == Down(p, "w_down", "w_crit")

\* Mutant of WriteCount: nothing stops a write at the end of the buffer.
WriteCountPastEnd(n) == n

\* There is no test for room: a write stops at the end of the buffer only.
WriteCount(n) == Min(n, SSIZE - wp)

\* Mutant of Store: the bytes go to ptr->rp instead of ptr->wp.
StoreAtRead(n) ==
    [i \in 0..SSIZE-1 |-> IF i \in rp .. rp+n-1 THEN sent + 1 + (i - rp) ELSE buf[i]]

\* The cells from wp onwards hold the next n bytes of the stream.
Store(n) ==
    [i \in 0..SSIZE-1 |-> IF i \in wp .. wp+n-1 THEN sent + 1 + (i - wp) ELSE buf[i]]

WriteCopy(p) ==
    LET count == WriteCount(len[p]) IN
    /\ pc[p] = "w_crit"
    /\ buf' = Store(count)
    /\ sent' = sent + count
    /\ wp' = wp + count
    /\ Continue(p, "w_wrap")
    /\ UNCHANGED <<rp, sem, waitq>>

\* Mutant of WriteWrap: the pointer is left at the end of the buffer.
WriteNoWrap(p) ==
    /\ pc[p] = "w_wrap" /\ sem' = 1
    /\ Continue(p, "w_wake") /\ UNCHANGED <<ring, waitq>>

WriteWrap(p) ==
    /\ pc[p] = "w_wrap"
    /\ wp' = IF wp = SSIZE THEN 0 ELSE wp
    /\ sem' = 1
    /\ Continue(p, "w_wake")
    /\ UNCHANGED <<rp, buf, sent, waitq>>

\* Mutant of WriteWake: the wake-up is forgotten.
WriteNoWake(p) == pc[p] = "w_wake" /\ Return(p) /\ UNCHANGED <<ring, sem, waitq>>

WriteWake(p) ==
    /\ pc[p] = "w_wake"
    /\ waitq' = {}
    /\ Return(p)
    /\ UNCHANGED <<ring, sem>>

-----------------------------------------------------------------------------

Call(p) ==
    \/ \E n \in Lens : Start(p, "read", "r_down", n)
    \/ sent < MaxBytes /\ \E n \in Lens : Start(p, "write", "w_down", n)

Acquire(p) == ReadDown(p) \/ WriteDown(p)

Handler(p) ==
    \/ DownInterrupted(p)
    \/ ReadBlock(p) \/ ReadFast(p) \/ ReadPrepare(p) \/ ReadLoad(p) \/ ReadCompare(p)
    \/ ReadCopy(p) \/ ReadWrap(p)
    \/ WriteCopy(p) \/ WriteWrap(p) \/ WriteWake(p)

Next == \E p \in Procs : Call(p) \/ Acquire(p) \/ Handler(p)

Spec == Init /\ [][Next]_vars

\* Runnable processes run, and the semaphore serves its waiters in turn.
Fairness == \A p \in Procs : WF_vars(Handler(p)) /\ SF_vars(Acquire(p))

FairSpec == Spec /\ Fairness

-----------------------------------------------------------------------------
\* The pointers as they are once a pending wrap is done, the number of
\* bytes between them, and the cell k bytes before wp.
Wrapped(x) == IF x = SSIZE THEN 0 ELSE x
Occupied ==
    IF Wrapped(wp) >= Wrapped(rp)
      THEN Wrapped(wp) - Wrapped(rp)
      ELSE Wrapped(wp) - Wrapped(rp) + SSIZE
Behind(k) == IF Wrapped(wp) >= k THEN Wrapped(wp) - k ELSE Wrapped(wp) - k + SSIZE

TypeOK ==
    /\ rp \in 0..SSIZE /\ wp \in 0..SSIZE
    /\ buf \in [0..SSIZE-1 -> Nat]
    /\ sem \in {0, 1}
    /\ waitq \subseteq Procs
    /\ pc \in [Procs -> Labels]
    /\ len \in [Procs -> Nat]
    /\ seen \in [Procs -> 0..SSIZE]
    /\ ubuf \in [Procs -> Seq(Nat)]
    /\ sent \in Nat

\* ptr->sem is taken exactly while one process is between down_interruptible
\* and up: sdev_read releases it before every wait, sdev_write before the
\* wake-up, and no two processes are in the ring together.
SemaphoreDiscipline ==
    /\ sem = 1 <=> \A p \in Procs : pc[p] \notin Holding
    /\ \A p, q \in Procs : pc[p] \in Holding /\ pc[q] \in Holding => p = q

\* Counting back from wp, the ring holds the bytes accepted last, however
\* often sdev_write has overrun rp; and rp is never ahead of what was sent.
RingHoldsNewest ==
    /\ Occupied <= sent
    /\ \A k \in 1..SSIZE : k <= sent => buf[Behind(k)] = sent - k + 1

\* The ring implements the lossy FIFO: sdev_read delivers consecutive bytes
\* in stream order although sdev_write never looks at rp; each time it
\* passes rp, exactly SSIZE bytes are lost.
Fifo == INSTANCE LossyFifo
            WITH Size <- SSIZE, next <- sent - Occupied + 1, out <- ubuf
ImplementsFifo == Fifo!Spec

\* sdev_write has moved wp and has not yet called wake_up.
WakePending == \E q \in Procs : pc[q] \in {"w_wrap", "w_wake"}

\* What "nothing to read" in have_read says of a reader that waits on a
\* zero: nobody sleeps on waitq with bytes in the ring, unless a writer is
\* about to call wake_up.
SleepsOnEmptyRing ==
    Occupied # 0 /\ (\E p \in Procs : pc[p] = "r_sleep" /\ p \in waitq) => WakePending

\* A reader in wait_event does not stay there while there are bytes for it.
WaiterLeaves ==
    \A p \in Procs :
        pc[p] = "r_sleep" /\ Occupied # 0 ~> pc[p] # "r_sleep" \/ Occupied = 0
=============================================================================
