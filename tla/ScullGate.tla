------------------------------ MODULE ScullGate ------------------------------
(***************************************************************************)
(* The open and release handlers of access/scullb.c: the device belongs to *)
(* one user at a time, and an open by somebody else waits for it.          *)
(*                                                                         *)
(* The spinlock makes each locked region one step.  The condition of       *)
(* wait_event_interruptible is evaluated without it: sdev_available loads  *)
(* user_count and then user_owner, and both may change in between.         *)
(***************************************************************************)
EXTENDS Integers, FiniteSets

CONSTANTS
    Procs,          \* threads, each with one file of its own
    uid, euid,      \* current_uid() and current_euid() of each
    Capable         \* the ones with CAP_DAC_OVERRIDE

ASSUME GateAssumption ==
    /\ IsFiniteSet(Procs)
    /\ uid \in [Procs -> Nat]
    /\ euid \in [Procs -> Nat]
    /\ Capable \subseteq Procs

VARIABLES
    user_count, user_owner,
    sdev_wait,      \* queued on sdev_wait and not yet woken
    gsig,           \* waiting processes with a signal pending
    gpc,            \* where in its open or release a process is
    gseen           \* user_count as the unlocked condition has loaded it

vars == <<user_count, user_owner, sdev_wait, gsig, gpc, gseen>>

Labels == {"closed", "o_try", "o_lock", "o_wait", "o_load", "o_test", "o_sleep",
           "open", "c_lock", "c_wake"}

Init ==
    /\ user_count = 0
    /\ user_owner = -1
    /\ sdev_wait = {}
    /\ gsig = {}
    /\ gpc = [p \in Procs |-> "closed"]
    /\ gseen = [p \in Procs |-> 0]

Goto(p, label) == gpc' = [gpc EXCEPT ![p] = label]

\* sdev_available, for the user_count its caller has loaded.
Admits(count, p) ==
    ~ /\ count # 0
      /\ p \notin Capable
      /\ user_owner # uid[p]
      /\ user_owner # euid[p]
sdev_available(p) == Admits(user_count, p)

-----------------------------------------------------------------------------
\* sdev_open

\* The loop is entered at o_try with O_NONBLOCK and at o_lock without it.
OpenStart(p, nonblock) ==
    /\ gpc[p] = "closed"
    /\ Goto(p, IF nonblock THEN "o_try" ELSE "o_lock")
    /\ UNCHANGED <<user_count, user_owner, sdev_wait, gsig, gseen>>

\* The owner that an open records.
OwnerAfterOpenTakenOver(p) == uid[p]    \* mutant: every open becomes the owner
OwnerAfterOpen(p) == IF user_count = 0 THEN uid[p] ELSE user_owner

\* Mutant of OpenEnter: the count goes the wrong way.
OpenEnterCountsDown(p) ==
    /\ gpc[p] \in {"o_try", "o_lock"} /\ sdev_available(p)
    /\ user_owner' = OwnerAfterOpen(p) /\ user_count' = user_count - 1
    /\ gsig' = gsig \ {p} /\ Goto(p, "open") /\ UNCHANGED <<sdev_wait, gseen>>

OpenEnter(p) ==
    /\ gpc[p] \in {"o_try", "o_lock"} /\ sdev_available(p)
    /\ user_owner' = OwnerAfterOpen(p)
    /\ user_count' = user_count + 1
    /\ gsig' = gsig \ {p}
    /\ Goto(p, "open")
    /\ UNCHANGED <<sdev_wait, gseen>>

\* Mutant of OpenAgain: an open is counted before it is refused.
OpenAgainCounted(p) ==
    /\ gpc[p] = "o_try" /\ ~sdev_available(p) /\ user_count' = user_count + 1
    /\ gsig' = gsig \ {p} /\ Goto(p, "closed") /\ UNCHANGED <<user_owner, sdev_wait, gseen>>

OpenAgain(p) ==
    /\ gpc[p] = "o_try" /\ ~sdev_available(p)
    /\ gsig' = gsig \ {p}
    /\ Goto(p, "closed")
    /\ UNCHANGED <<user_count, user_owner, sdev_wait, gseen>>

OpenBlock(p) ==
    /\ gpc[p] = "o_lock" /\ ~sdev_available(p)
    /\ Goto(p, "o_wait")
    /\ UNCHANGED <<user_count, user_owner, sdev_wait, gsig, gseen>>

\* wait_event_interruptible evaluates its condition once before it queues.
OpenFast(p) ==
    /\ gpc[p] = "o_wait" /\ sdev_available(p)
    /\ Goto(p, "o_lock")
    /\ UNCHANGED <<user_count, user_owner, sdev_wait, gsig, gseen>>

OpenPrepare(p) ==
    /\ \/ gpc[p] = "o_wait"
       \/ gpc[p] = "o_sleep" /\ (p \notin sdev_wait \/ p \in gsig)
    /\ sdev_wait' = sdev_wait \cup {p}
    /\ Goto(p, "o_load")
    /\ UNCHANGED <<user_count, user_owner, gsig, gseen>>

OpenLoad(p) ==
    /\ gpc[p] = "o_load"
    /\ gseen' = [gseen EXCEPT ![p] = user_count]
    /\ Goto(p, "o_test")
    /\ UNCHANGED <<user_count, user_owner, sdev_wait, gsig>>

\* The device is free, or a signal ends the wait, or the process sleeps.
OpenTest(p) ==
    /\ gpc[p] = "o_test"
    /\ \/ /\ Admits(gseen[p], p)
          /\ sdev_wait' = sdev_wait \ {p}
          /\ Goto(p, "o_lock")
          /\ UNCHANGED gsig
       \/ /\ ~Admits(gseen[p], p) /\ p \in gsig
          /\ sdev_wait' = sdev_wait \ {p}
          /\ gsig' = gsig \ {p}
          /\ Goto(p, "closed")
       \/ /\ ~Admits(gseen[p], p) /\ p \notin gsig
          /\ Goto(p, "o_sleep")
          /\ UNCHANGED <<sdev_wait, gsig>>
    /\ gseen' = [gseen EXCEPT ![p] = 0]
    /\ UNCHANGED <<user_count, user_owner>>

Signal(p) ==
    /\ gpc[p] \in {"o_lock", "o_wait", "o_load", "o_test", "o_sleep"}
    /\ gsig' = gsig \cup {p}
    /\ UNCHANGED <<user_count, user_owner, sdev_wait, gpc, gseen>>

-----------------------------------------------------------------------------
\* sdev_close

CloseStart(p) ==
    /\ gpc[p] = "open"
    /\ Goto(p, "c_lock")
    /\ UNCHANGED <<user_count, user_owner, sdev_wait, gsig, gseen>>

\* Mutant of CloseCount: tmp is read before the decrement.
CloseCountStale(p) ==
    /\ gpc[p] = "c_lock" /\ user_count' = user_count - 1
    /\ Goto(p, IF user_count = 0 THEN "c_wake" ELSE "closed")
    /\ UNCHANGED <<user_owner, sdev_wait, gsig, gseen>>

\* Mutant of CloseCount: any release frees the device.
CloseCountAll(p) ==
    /\ gpc[p] = "c_lock" /\ user_count' = 0
    /\ Goto(p, "c_wake") /\ UNCHANGED <<user_owner, sdev_wait, gsig, gseen>>

CloseCount(p) ==
    /\ gpc[p] = "c_lock"
    /\ user_count' = user_count - 1
    /\ Goto(p, IF user_count' = 0 THEN "c_wake" ELSE "closed")
    /\ UNCHANGED <<user_owner, sdev_wait, gsig, gseen>>

CloseWake(p) ==
    /\ gpc[p] = "c_wake"
    /\ sdev_wait' = {}
    /\ Goto(p, "closed")
    /\ UNCHANGED <<user_count, user_owner, gsig, gseen>>

-----------------------------------------------------------------------------

\* The steps of an open that do not end in an open file, and of a release
\* once it has begun.
Waiting(p) ==
    \/ OpenAgain(p) \/ OpenBlock(p) \/ OpenFast(p) \/ OpenPrepare(p)
    \/ OpenLoad(p) \/ OpenTest(p)
Closing(p) == CloseCount(p) \/ CloseWake(p)

Next ==
    \E p \in Procs :
        \/ \E nonblock \in BOOLEAN : OpenStart(p, nonblock)
        \/ CloseStart(p) \/ Signal(p)
        \/ OpenEnter(p) \/ Waiting(p) \/ Closing(p)

Spec == Init /\ [][Next]_vars

\* Handlers that can run do run; nobody has to open or to close.
Fairness == \A p \in Procs : WF_vars(OpenEnter(p) \/ Waiting(p)) /\ WF_vars(Closing(p))

FairSpec == Spec /\ Fairness

-----------------------------------------------------------------------------

\* The processes with an open file that user_count still counts.
Openers == {p \in Procs : gpc[p] \in {"open", "c_lock"}}

TypeOK ==
    /\ user_count \in Nat
    /\ user_owner \in Nat \cup {-1}
    /\ sdev_wait \subseteq Procs
    /\ gsig \subseteq Procs
    /\ gpc \in [Procs -> Labels]
    /\ gseen \in [Procs -> Nat]

\* user_count is the number of open files: no failed or interrupted open is
\* counted, no release is counted twice, and the count never goes negative.
CountIsOpenFiles == user_count = Cardinality(Openers)

\* While the device is open, everybody who has it open without the
\* capability is the user that sdev_open recorded as its owner.
OwnedByOneUser ==
    \A p \in Openers \ Capable : user_owner \in {uid[p], euid[p]}

\* An open sleeps on sdev_wait for a device it could have only while the
\* release that freed it is about to call wake_up_interruptible.
NoLostWakeup ==
    \A p \in Procs :
        gpc[p] = "o_sleep" /\ p \in sdev_wait /\ sdev_available(p)
            => \E q \in Procs : gpc[q] = "c_wake"

\* A sleeping open does not sleep through the device being free: it tries
\* again, or somebody else has opened the device.
SleeperRetries ==
    \A p \in Procs :
        gpc[p] = "o_sleep" /\ sdev_available(p)
            ~> gpc[p] # "o_sleep" \/ ~sdev_available(p)
=============================================================================
