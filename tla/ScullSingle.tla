----------------------------- MODULE ScullSingle -----------------------------
(***************************************************************************)
(* The open and release handlers of access/scullb-onlyone_access.c: an     *)
(* atomic counter that starts at 1 admits one open file.  A refused open   *)
(* has already decremented the counter and puts it back in a second step,  *)
(* so for a while the counter is too low.                                  *)
(***************************************************************************)
EXTENDS Integers, FiniteSets

CONSTANT Procs      \* threads, each with one file of its own

VARIABLES
    available,      \* the atomic counter
    spc             \* where in its open or release a process is

vars == <<available, spc>>

Init ==
    /\ available = 1
    /\ spc = [p \in Procs |-> "closed"]

\* Mutant of Open: the counter is taken for a flag.
OpenFlag(p) ==
    /\ spc[p] = "closed"
    /\ available' = available - 1
    /\ spc' = [spc EXCEPT ![p] = IF available # 0 THEN "open" ELSE "undo"]

\* atomic_dec_and_test: open on zero, otherwise the decrement is undone.
Open(p) ==
    /\ spc[p] = "closed"
    /\ available' = available - 1
    /\ spc' = [spc EXCEPT ![p] = IF available' = 0 THEN "open" ELSE "undo"]

\* Mutant of Busy: -EBUSY without atomic_inc.
BusyForgets(p) ==
    /\ spc[p] = "undo"
    /\ spc' = [spc EXCEPT ![p] = "closed"]
    /\ UNCHANGED available

Busy(p) ==
    /\ spc[p] = "undo"
    /\ available' = available + 1
    /\ spc' = [spc EXCEPT ![p] = "closed"]

Close(p) ==
    /\ spc[p] = "open"
    /\ available' = available + 1
    /\ spc' = [spc EXCEPT ![p] = "closed"]

Next == \E p \in Procs : Open(p) \/ Busy(p) \/ Close(p)

Spec == Init /\ [][Next]_vars

-----------------------------------------------------------------------------

Opened == {p \in Procs : spc[p] = "open"}
Refused == {p \in Procs : spc[p] = "undo"}

TypeOK ==
    /\ available \in Int
    /\ spc \in [Procs -> {"closed", "open", "undo"}]

\* "only allow one open of this dev": however opens, refusals and releases
\* interleave, at most one file is open.
OneOpenFile == \A p, q \in Opened : p = q

\* Every decrement is accounted for by an open file or a refused open that
\* has not undone it yet; so the counter returns to 1 and the device can be
\* opened again.
Balance == available = 1 - Cardinality(Opened) - Cardinality(Refused)
=============================================================================
