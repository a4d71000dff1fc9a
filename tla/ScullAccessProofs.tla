-------------------------- MODULE ScullAccessProofs --------------------------
(***************************************************************************)
(* The two drivers of access/, for every set of processes and users and    *)
(* every ring: the gate of scullb.c alone, the counter of                  *)
(* scullb-onlyone_access.c alone, then each with the pipe behind it.       *)
(*                                                                         *)
(* A step of a driver is a step of its gate, of its counter and of the     *)
(* pipe, or leaves them alone; so what is proved of the three holds of     *)
(* the whole.  What the whole adds is Link: a file is open on the pipe     *)
(* only while the gate or the counter has let it in.                       *)
(***************************************************************************)
EXTENDS ScullAccess, FiniteSetTheorems, TLAPS

-----------------------------------------------------------------------------
\* The gate of scullb.c

CountInv == TypeOK /\ CountIsOpenFiles

\* Asleep and still queued although the device is free, or about to fall
\* asleep over a count that is no longer true.
Missed(p) ==
    /\ p \in sdev_wait
    /\ \/ gpc[p] = "o_sleep" /\ sdev_available(p)
       \/ gpc[p] = "o_test" /\ gseen[p] # 0 /\ user_count = 0

WaitInv == \A p \in Procs : Missed(p) => \E q \in Procs : gpc[q] = "c_wake"

LEMMA OpenersFinite == IsFiniteSet(Openers) /\ Cardinality(Openers) \in Nat
<1>1. Openers \in SUBSET Procs
    BY Zenon DEF Openers
<1>2. QED
    BY Zenon, <1>1, GateAssumption, FS_Subset, FS_CardinalityType

LEMMA CountInit == Init => CountInv
<1> SUFFICES ASSUME Init PROVE CountInv
    BY Zenon
<1>1. Openers = {}
    BY Zenon DEF Init, Openers
<1>2. QED
    BY Zenon, <1>1, FS_EmptySet DEF Init, CountInv, TypeOK, CountIsOpenFiles, Labels

LEMMA CountNext == CountInv /\ [Next]_vars => CountInv'
<1> SUFFICES ASSUME CountInv, [Next]_vars PROVE CountInv'
    BY Zenon
<1> USE GateAssumption DEF Goto, Labels, OwnerAfterOpen
<1>1. TypeOK /\ user_count = Cardinality(Openers)
    BY Zenon DEF CountInv, CountIsOpenFiles
<1>2. ASSUME TypeOK', user_count' = user_count, Openers' = Openers PROVE CountInv'
    BY Zenon, <1>1, <1>2 DEF CountInv, CountIsOpenFiles
<1>3. CASE UNCHANGED vars
    BY Zenon, <1>1, <1>2, <1>3 DEF vars, TypeOK, Openers
<1>4. ASSUME NEW p \in Procs,
             \/ \E nonblock \in BOOLEAN : OpenStart(p, nonblock)
             \/ CloseStart(p) \/ Signal(p) \/ CloseWake(p)
      PROVE  CountInv'
  <2>1. TypeOK' /\ user_count' = user_count
    BY Zenon, <1>1, <1>4 DEF OpenStart, CloseStart, Signal, CloseWake, TypeOK
  <2>2. Openers' = Openers
    BY ZenonT(30), <1>1, <1>4 DEF OpenStart, CloseStart, Signal, CloseWake, TypeOK, Openers
  <2>3. QED
    BY Zenon, <1>2, <2>1, <2>2
<1>5. ASSUME NEW p \in Procs, Waiting(p) PROVE CountInv'
  <2>1. TypeOK' /\ user_count' = user_count
    BY SMTT(30), <1>1, <1>5 DEF Waiting, OpenAgain, OpenBlock, OpenFast, OpenPrepare, OpenLoad,
                      OpenTest, TypeOK
  <2>2. Openers' = Openers
    BY Zenon, <1>1, <1>5 DEF Waiting, OpenAgain, OpenBlock, OpenFast, OpenPrepare, OpenLoad,
                      OpenTest, TypeOK, Openers
  <2>3. QED
    BY Zenon, <1>2, <2>1, <2>2
<1>6. ASSUME NEW p \in Procs, OpenEnter(p) PROVE CountInv'
  <2>1. TypeOK' /\ user_count' = user_count + 1
    BY SMTT(30), <1>1, <1>6 DEF OpenEnter, TypeOK
  <2>2. Openers' = Openers \cup {p} /\ p \notin Openers
    BY Zenon, <1>1, <1>6 DEF OpenEnter, TypeOK, Openers
  <2>3. Cardinality(Openers') = Cardinality(Openers) + 1
    BY <2>2, OpenersFinite, FS_AddElement, Zenon
  <2>4. QED
    BY Zenon, <1>1, <2>1, <2>3 DEF CountInv, CountIsOpenFiles
<1>7. ASSUME NEW p \in Procs, CloseCount(p) PROVE CountInv'
  <2>1. Openers' = Openers \ {p} /\ p \in Openers
    BY Zenon, <1>1, <1>7 DEF CloseCount, TypeOK, Openers
  <2>2. Cardinality(Openers') = Cardinality(Openers) - 1 /\ IsFiniteSet(Openers')
    BY Zenon, <2>1, OpenersFinite, FS_RemoveElement
  <2>3. Cardinality(Openers') \in Nat
    BY Zenon, <2>2, FS_CardinalityType
  <2>4. user_count' = Cardinality(Openers')
    BY Zenon, <1>1, <1>7, <2>2 DEF CloseCount
  <2>5. TypeOK'
    BY Zenon, <1>1, <1>7, <2>3, <2>4 DEF CloseCount, TypeOK
  <2>6. QED
    BY Zenon, <2>4, <2>5 DEF CountInv, CountIsOpenFiles
<1>8. QED
    BY Zenon, <1>3, <1>4, <1>5, <1>6, <1>7 DEF Next, Closing

-----------------------------------------------------------------------------

LEMMA NobodyMeansZero ==
    ASSUME CountInv, NEW p \in Openers
    PROVE  user_count # 0
BY Zenon, OpenersFinite, FS_EmptySet DEF CountInv, CountIsOpenFiles

LEMMA OwnerInit == Init => OwnedByOneUser
BY Zenon DEF Init, OwnedByOneUser, Openers

LEMMA OwnerNext == CountInv /\ OwnedByOneUser /\ [Next]_vars => OwnedByOneUser'
<1> SUFFICES ASSUME CountInv, OwnedByOneUser, [Next]_vars,
                    NEW q \in Procs \ Capable, gpc'[q] \in {"open", "c_lock"}
             PROVE  user_owner' \in {uid[q], euid[q]}
    BY Zenon DEF OwnedByOneUser, Openers
<1> USE DEF Goto, OwnerAfterOpen
<1>1. TypeOK
    BY Zenon DEF CountInv
<1>2. ASSUME NEW p \in Procs, OpenEnter(p) PROVE user_owner' \in {uid[q], euid[q]}
  <2>1. CASE q = p
    BY Zenon, <1>2, <2>1 DEF OpenEnter, sdev_available, Admits
  <2>2. CASE q # p
    <3>1. q \in Openers
      BY Zenon, <1>1, <1>2, <2>2 DEF OpenEnter, TypeOK, Openers
    <3>2. user_owner' = user_owner
      BY Zenon, <1>2, <3>1, NobodyMeansZero DEF OpenEnter
    <3>3. QED
      BY Zenon, <3>1, <3>2 DEF OwnedByOneUser
  <2>3. QED
    BY Zenon, <2>1, <2>2
<1>3. ASSUME UNCHANGED user_owner, q \in Openers PROVE user_owner' \in {uid[q], euid[q]}
    BY Zenon, <1>3 DEF OwnedByOneUser
<1>4. CASE UNCHANGED vars
    BY Zenon, <1>3, <1>4 DEF vars, Openers
<1>5. ASSUME NEW p \in Procs,
             \/ \E nonblock \in BOOLEAN : OpenStart(p, nonblock)
             \/ CloseStart(p) \/ Signal(p) \/ Closing(p)
      PROVE  user_owner' \in {uid[q], euid[q]}
    BY Zenon, <1>1, <1>3, <1>5 DEF OpenStart, CloseStart, Signal, Closing, CloseCount, CloseWake,
                            TypeOK, Openers
<1>6. ASSUME NEW p \in Procs, Waiting(p) PROVE user_owner' \in {uid[q], euid[q]}
    BY Zenon, <1>1, <1>3, <1>6 DEF Waiting, OpenAgain, OpenBlock, OpenFast, OpenPrepare,
                            OpenLoad, OpenTest, TypeOK, Openers
<1>7. QED
    BY Zenon, <1>2, <1>4, <1>5, <1>6 DEF Next

-----------------------------------------------------------------------------

\* A step that delivers no wake-up and makes nobody miss one.
Quiet ==
    /\ \A q \in Procs : gpc[q] = "c_wake" => gpc'[q] = "c_wake"
    /\ \A q \in Procs : Missed(q)' => Missed(q)

LEMMA QuietStep == WaitInv /\ Quiet => WaitInv'
BY Zenon DEF WaitInv, Quiet

LEMMA WaitInit == Init => WaitInv
BY Zenon DEF Init, WaitInv, Missed

LEMMA WaitNext == CountInv /\ WaitInv /\ [Next]_vars => WaitInv'
<1> SUFFICES ASSUME CountInv, WaitInv, [Next]_vars PROVE WaitInv'
    BY Zenon
<1> USE DEF Goto, sdev_available, Admits, OwnerAfterOpen
<1>1. TypeOK
    BY Zenon DEF CountInv
<1>2. CASE UNCHANGED vars
  <2>1. Quiet
    BY Zenon, <1>2 DEF vars, Quiet, Missed
  <2>2. QED
    BY Zenon, <2>1, QuietStep
<1>3. ASSUME NEW p \in Procs,
             \/ \E nonblock \in BOOLEAN : OpenStart(p, nonblock)
             \/ CloseStart(p) \/ Signal(p)
      PROVE  WaitInv'
  <2>1. Quiet
    BY Zenon, <1>1, <1>3 DEF OpenStart, CloseStart, Signal, Quiet, Missed, TypeOK
  <2>2. QED
    BY Zenon, <2>1, QuietStep
<1>4. ASSUME NEW p \in Procs, Waiting(p) PROVE WaitInv'
  <2>1. CASE OpenAgain(p) \/ OpenBlock(p) \/ OpenFast(p) \/ OpenPrepare(p)
    <3>1. Quiet
      BY ZenonT(30), <1>1, <2>1 DEF OpenAgain, OpenBlock, OpenFast, OpenPrepare, Quiet, Missed, TypeOK
    <3>2. QED
      BY Zenon, <3>1, QuietStep
  <2>2. CASE OpenLoad(p)
    <3>1. Quiet
      BY Zenon, <1>1, <2>2 DEF OpenLoad, Quiet, Missed, TypeOK
    <3>2. QED
      BY Zenon, <3>1, QuietStep
  <2>3. CASE OpenTest(p)
    <3>1. Quiet
      BY ZenonT(30), <1>1, <2>3 DEF OpenTest, Quiet, Missed, TypeOK
    <3>2. QED
      BY Zenon, <3>1, QuietStep
  <2>4. QED
    BY ZenonT(30), <1>4, <2>1, <2>2, <2>3 DEF Waiting
<1>5. ASSUME NEW p \in Procs, OpenEnter(p) PROVE WaitInv'
  <2>1. Quiet
    BY SMTT(30), <1>1, <1>5 DEF OpenEnter, Quiet, Missed, TypeOK
  <2>2. QED
    BY Zenon, <2>1, QuietStep
<1>6. ASSUME NEW p \in Procs, CloseCount(p) PROVE WaitInv'
  <2>1. CASE user_count' = 0
    BY ZenonT(30), <1>1, <1>6, <2>1 DEF CloseCount, WaitInv, TypeOK
  <2>2. CASE user_count' # 0
    <3>1. user_count # 0
      BY Zenon, <1>1, <1>6, NobodyMeansZero DEF CloseCount, TypeOK, Openers
    <3>2. Quiet
      BY Zenon, <1>1, <1>6, <2>2, <3>1 DEF CloseCount, Quiet, Missed, TypeOK
    <3>3. QED
      BY Zenon, <3>2, QuietStep
  <2>3. QED
    BY Zenon, <2>1, <2>2
<1>7. ASSUME NEW p \in Procs, CloseWake(p) PROVE WaitInv'
    BY Zenon, <1>7 DEF CloseWake, WaitInv, Missed
<1>8. QED
    BY Zenon, <1>2, <1>3, <1>4, <1>5, <1>6, <1>7 DEF Next, Closing

-----------------------------------------------------------------------------

LEMMA CountInvariant == Spec => []CountInv
BY CountInit, CountNext, PTL DEF Spec

\* Every variable of the gate keeps its type; user_count is never negative.
THEOREM GateTypeCorrect == Spec => []TypeOK
<1>1. CountInv => TypeOK
    BY Zenon DEF CountInv
<1>2. QED
    BY <1>1, CountInvariant, PTL

\* user_count counts exactly the open files, whatever opens fail or wait.
THEOREM GateCountsOpenFiles == Spec => []CountIsOpenFiles
<1>1. CountInv => CountIsOpenFiles
    BY Zenon DEF CountInv
<1>2. QED
    BY <1>1, CountInvariant, PTL

\* The device is shared only by processes that run as its owner or have the
\* capability.
THEOREM GateAdmitsOwnerOnly == Spec => []OwnedByOneUser
BY CountInvariant, OwnerInit, OwnerNext, PTL DEF Spec

\* No waiting open sleeps through the release that would let it in.
THEOREM GateLosesNoWakeup == Spec => []NoLostWakeup
<1>1. WaitInv => NoLostWakeup
    BY Zenon DEF WaitInv, NoLostWakeup, Missed
<1>2. Spec => []WaitInv
    BY CountInvariant, WaitInit, WaitNext, PTL DEF Spec
<1>3. QED
    BY <1>1, <1>2, PTL

-----------------------------------------------------------------------------
\* The counter of scullb-onlyone_access.c.  OneOpenFile is not inductive by
\* itself: that an open can only succeed when nobody has the device follows
\* from Balance.

Opened == {p \in Procs : spc[p] = "open"}
Refused == {p \in Procs : spc[p] = "undo"}
Balanced == available = 1 - Cardinality(Opened) - Cardinality(Refused)

SingleInv == Single!TypeOK /\ (\A p, q \in Opened : p = q) /\ Balanced

LEMMA SingleFinite ==
    /\ IsFiniteSet(Opened) /\ Cardinality(Opened) \in Nat
    /\ IsFiniteSet(Refused) /\ Cardinality(Refused) \in Nat
<1>1. Opened \in SUBSET Procs /\ Refused \in SUBSET Procs
    BY Zenon DEF Opened, Refused
<1>2. QED
    BY Zenon, <1>1, GateAssumption, FS_Subset, FS_CardinalityType

LEMMA SingleInit == Single!Init => SingleInv
<1> SUFFICES ASSUME Single!Init PROVE SingleInv
    BY Zenon
<1>1. Opened = {} /\ Refused = {}
    BY Zenon DEF Single!Init, Opened, Refused
<1>2. Cardinality({}) = 0
    BY Zenon, FS_EmptySet
<1>3. Balanced
    BY SMTT(30), <1>1, <1>2 DEF Single!Init, Balanced
<1>4. QED
    BY SMTT(30), <1>1, <1>3 DEF Single!Init, SingleInv, Single!TypeOK

LEMMA SingleNext == SingleInv /\ [Single!Next]_(Single!vars) => SingleInv'
<1> SUFFICES ASSUME SingleInv, [Single!Next]_(Single!vars) PROVE SingleInv'
    BY Zenon
<1>1. Single!TypeOK /\ (\A p, q \in Opened : p = q) /\ Balanced
    BY Zenon DEF SingleInv
<1>2. CASE UNCHANGED Single!vars
  <2>1. available' = available /\ spc' = spc
    BY Zenon, <1>2 DEF Single!vars
  <2>2. QED
    BY Zenon, <1>1, <2>1 DEF SingleInv, Single!TypeOK, Balanced, Opened, Refused
<1>3. ASSUME NEW p \in Procs, Single!Open(p), available = 1 PROVE SingleInv'
  <2>1. spc[p] = "closed" /\ spc' = [spc EXCEPT ![p] = "open"] /\ available' = 0
    BY SMTT(30), <1>3 DEF Single!Open
  <2>2. Cardinality(Opened) = 0 /\ Cardinality(Refused) = 0
    BY SMTT(30), <1>1, <1>3, SingleFinite DEF Balanced
  <2>3. Opened = {} /\ Refused = {}
    BY Zenon, <2>2, SingleFinite, FS_EmptySet
  <2>4. Opened' = {p} /\ Refused' = {}
    BY Zenon, <1>1, <2>1, <2>3 DEF Single!TypeOK, Opened, Refused
  <2>5. Cardinality({p}) = 1 /\ Cardinality({}) = 0
    BY FS_EmptySet, FS_Singleton, Zenon
  <2>6. QED
    BY SMTT(30), <1>1, <2>1, <2>4, <2>5 DEF SingleInv, Single!TypeOK, Balanced
<1>4. ASSUME NEW p \in Procs, Single!Open(p), available # 1 PROVE SingleInv'
  <2>1. /\ spc[p] = "closed" /\ spc' = [spc EXCEPT ![p] = "undo"]
        /\ available' = available - 1
    BY SMTT(30), <1>1, <1>4 DEF Single!Open, Single!TypeOK
  <2>2. Opened' = Opened /\ Refused' = Refused \cup {p} /\ p \notin Refused
    BY Zenon, <1>1, <2>1 DEF Single!TypeOK, Opened, Refused
  <2>3. Cardinality(Refused') = Cardinality(Refused) + 1
    BY <2>2, SingleFinite, FS_AddElement, Zenon
  <2>4. QED
    BY SMTT(30), <1>1, <2>1, <2>2, <2>3, SingleFinite DEF SingleInv, Single!TypeOK, Balanced
<1>5. ASSUME NEW p \in Procs, Single!Busy(p) PROVE SingleInv'
  <2>1. /\ spc[p] = "undo" /\ spc' = [spc EXCEPT ![p] = "closed"]
        /\ available' = available + 1
    BY Zenon, <1>5 DEF Single!Busy
  <2>2. Opened' = Opened /\ Refused' = Refused \ {p} /\ p \in Refused
    BY Zenon, <1>1, <2>1 DEF Single!TypeOK, Opened, Refused
  <2>3. Cardinality(Refused') = Cardinality(Refused) - 1
    BY <2>2, SingleFinite, FS_RemoveElement, Zenon
  <2>4. QED
    BY SMTT(30), <1>1, <2>1, <2>2, <2>3, SingleFinite DEF SingleInv, Single!TypeOK, Balanced
<1>6. ASSUME NEW p \in Procs, Single!Close(p) PROVE SingleInv'
  <2>1. /\ spc[p] = "open" /\ spc' = [spc EXCEPT ![p] = "closed"]
        /\ available' = available + 1
    BY Zenon, <1>6 DEF Single!Close
  <2>2. Opened' = Opened \ {p} /\ Refused' = Refused /\ p \in Opened
    BY Zenon, <1>1, <2>1 DEF Single!TypeOK, Opened, Refused
  <2>3. Cardinality(Opened') = Cardinality(Opened) - 1
    BY <2>2, SingleFinite, FS_RemoveElement, Zenon
  <2>4. QED
    BY SMTT(30), <1>1, <2>1, <2>2, <2>3, SingleFinite DEF SingleInv, Single!TypeOK, Balanced
<1>7. QED
    BY ZenonT(30), <1>2, <1>3, <1>4, <1>5, <1>6 DEF Single!Next

LEMMA SingleFacts ==
    ASSUME SingleInv
    PROVE  /\ OneOpenFile /\ Balance
           /\ available = 1 => Opened = {}
<1>1. OneOpenFile
    BY Zenon DEF SingleInv, Opened, OneOpenFile, Single!OneOpenFile, Single!Opened
<1>2. Balance
  <2>1. Single!Opened = Opened /\ Single!Refused = Refused
    BY Zenon DEF Opened, Refused, Single!Opened, Single!Refused
  <2>2. \A S : Single!Cardinality(S) = Cardinality(S)
    BY Zenon DEF Single!Cardinality, Cardinality
  <2>3. QED
    BY Zenon, <2>1, <2>2 DEF SingleInv, Balanced, Balance, Single!Balance
<1>3. ASSUME available = 1 PROVE Opened = {}
  <2>1. Cardinality(Opened) = 0
    BY SMTT(30), <1>3, SingleFinite DEF SingleInv, Balanced
  <2>2. QED
    BY Zenon, <2>1, SingleFinite, FS_EmptySet
<1>4. QED
    BY Zenon, <1>1, <1>2, <1>3

LEMMA SingleInvariant == Single!Spec => []SingleInv
BY SingleInit, SingleNext, PTL DEF Single!Spec

\* At most one file is open on the device of scullb-onlyone_access.c,
\* whatever finite number of processes competes for it.
THEOREM SingleExclusion == Single!Spec => []OneOpenFile
<1>1. SingleInv => OneOpenFile
    BY Zenon, SingleFacts
<1>2. QED
    BY <1>1, SingleInvariant, PTL

\* The counter is restored by every refused open and every release.
THEOREM SingleBalance == Single!Spec => []Balance
<1>1. SingleInv => Balance
    BY Zenon, SingleFacts
<1>2. QED
    BY <1>1, SingleInvariant, PTL

-----------------------------------------------------------------------------
\* The whole drivers: every step, as the gate and the counter see it.

LEMMA GateStep == [AccessNext]_AccessVars => [Next]_vars
<1> SUFFICES ASSUME [AccessNext]_AccessVars PROVE [Next]_vars
    BY Zenon
<1>1. CASE UNCHANGED AccessVars
    BY Zenon, <1>1 DEF AccessVars
<1>2. ASSUME NEW p \in Procs, Inside(p) \/ Only(p) PROVE UNCHANGED vars
    BY Zenon, <1>2 DEF Inside, Only, OnlyOpen, OnlyBusy, OnlyRelease, OnlyCount
<1>3. ASSUME NEW p \in Procs, Gate(p) PROVE Next
    BY <1>3, Zenon DEF Gate, Open, Close, Arriving, Outside, Leaving, Next
<1>4. QED
    BY Zenon, <1>1, <1>2, <1>3 DEF AccessNext

LEMMA SingleStep == [AccessNext]_AccessVars => [Single!Next]_(Single!vars)
<1> SUFFICES ASSUME [AccessNext]_AccessVars PROVE [Single!Next]_(Single!vars)
    BY Zenon
<1> USE DEF Single!vars
<1>1. CASE UNCHANGED AccessVars
    BY Zenon, <1>1 DEF AccessVars, counter
<1>2. ASSUME NEW p \in Procs, Inside(p) \/ Gate(p) \/ OnlyRelease(p) PROVE UNCHANGED Single!vars
    BY Zenon, <1>2 DEF Inside, Gate, Open, Close, Arriving, Outside, Leaving, OnlyRelease, counter
<1>3. ASSUME NEW p \in Procs, OnlyOpen(p) \/ OnlyBusy(p) \/ OnlyCount(p) PROVE Single!Next
    BY <1>3, Zenon DEF OnlyOpen, OnlyBusy, OnlyCount, Single!Next
<1>4. QED
    BY Zenon, <1>1, <1>2, <1>3 DEF AccessNext, Only

\* Each driver runs its gate and its counter by their own rules: what holds
\* of them alone, the count, the owner and the wake-ups included, holds with
\* the pipe behind them.
THEOREM AccessRunsGate == AccessSpec => Spec /\ Single!Spec
<1>1. AccessInit => Init /\ Single!Init
    BY Zenon DEF AccessInit
<1>2. QED
    BY <1>1, GateStep, SingleStep, PTL DEF AccessSpec, Spec, Single!Spec

-----------------------------------------------------------------------------

Link ==
    /\ driver \in {"scullb", "onlyone"}
    /\ driver = "scullb" => \A p \in Procs : pc[p] # "closed" => gpc[p] = "open"
    /\ driver = "onlyone" => \A p \in Procs : pc[p] # "closed" => spc[p] = "open"

Types ==
    /\ pc \in [Procs -> Pipe!Labels]
    /\ gpc \in [Procs -> Labels]
    /\ spc \in [Procs -> {"closed", "open", "undo"}]

LEMMA InitLink == AccessInit => Link
BY Zenon DEF AccessInit, Link, Pipe!Init

LEMMA GateLink ==
    ASSUME Types, Link, NEW p \in Procs, Gate(p)
    PROVE  Link'
<1> USE DEF Types, Link, Goto
<1>1. driver = "scullb" /\ driver' = driver
    BY Zenon DEF Gate, Open, Close, Arriving, Outside, Leaving
<1>2. CASE Open(p)
    BY Zenon, <1>1, <1>2 DEF Open, OpenEnter, Pipe!Open, Pipe!Continue, Pipe!Goto
<1>3. CASE Close(p)
    BY Zenon, <1>1, <1>3 DEF Close, CloseStart, Pipe!Close, Pipe!Continue, Pipe!Goto
<1>4. CASE Arriving(p) \/ Outside(p) \/ Leaving(p)
  <2>1. UNCHANGED pc
    BY Zenon, <1>4 DEF Arriving, Outside, Leaving, pipe
  <2>2. gpc[p] # "open" \/ UNCHANGED gpc
    BY Zenon, <1>4 DEF Arriving, Outside, Leaving, Signal, OpenStart, Waiting, OpenAgain, OpenBlock,
                OpenFast, OpenPrepare, OpenLoad, OpenTest, Closing, CloseCount, CloseWake
  <2>3. UNCHANGED gpc \/ \E label : gpc' = [gpc EXCEPT ![p] = label]
    BY Zenon, <1>4 DEF Arriving, Outside, Leaving, Signal, OpenStart, Waiting, OpenAgain, OpenBlock,
                OpenFast, OpenPrepare, OpenLoad, OpenTest, Closing, CloseCount, CloseWake
  <2>4. QED
    BY Zenon, <1>1, <2>1, <2>2, <2>3
<1>5. QED
    BY Zenon, <1>2, <1>3, <1>4 DEF Gate

LEMMA OnlyLink ==
    ASSUME Types, Link, NEW p \in Procs, Only(p)
    PROVE  Link'
<1> USE DEF Types, Link
<1>1. driver = "onlyone" /\ driver' = driver
    BY Zenon DEF Only, OnlyOpen, OnlyBusy, OnlyRelease, OnlyCount
<1>2. CASE OnlyOpen(p)
    BY Zenon, <1>1, <1>2 DEF OnlyOpen, Single!Open, pipe, Pipe!Open, Pipe!Continue, Pipe!Goto
<1>3. CASE OnlyBusy(p) \/ OnlyCount(p)
    BY Zenon, <1>1, <1>3 DEF OnlyBusy, OnlyCount, Single!Busy, Single!Close, pipe
<1>4. CASE OnlyRelease(p)
    BY ZenonT(30), <1>1, <1>4 DEF OnlyRelease, counter, Pipe!Close, Pipe!Continue, Pipe!Goto
<1>5. QED
    BY Zenon, <1>2, <1>3, <1>4 DEF Only

-----------------------------------------------------------------------------
\* The pipe

PP == INSTANCE ScullPipeProofs

LEMMA SameLabels == Pipe!Labels = PP!Labels
BY ZenonT(30) DEF Pipe!Labels, PP!Labels, Pipe!ReadLabels, PP!ReadLabels, Pipe!WriteLabels,
             PP!WriteLabels, Pipe!PollLabels, PP!PollLabels

LEMMA SamePipe ==
    ASSUME NEW p
    PROVE  /\ Pipe!Handler(p) <=> PP!Handler(p)
           /\ Pipe!Acquire(p) <=> PP!Acquire(p)
           /\ Pipe!Use(p) <=> PP!Use(p)
           /\ Pipe!Signal(p) <=> PP!Signal(p)
           /\ Pipe!Open(p) <=> PP!Open(p)
           /\ Pipe!Close(p) <=> PP!Close(p)
<1> USE DEF Pipe!Return, PP!Return, Pipe!Continue, PP!Continue, Pipe!Goto,
            PP!Goto, Pipe!ring, PP!ring, Pipe!queues, PP!queues,
            Pipe!NoCall, PP!NoCall, Pipe!Down, PP!Down, Pipe!Min, PP!Min,
            Pipe!ReadCount, PP!ReadCount, Pipe!WriteCount, PP!WriteCount,
            Pipe!Store, PP!Store, Pipe!have_space, PP!have_space
<1>1. Pipe!Handler(p) <=> PP!Handler(p)
    BY ZenonT(30) DEF Pipe!Handler, PP!Handler, Pipe!DownInterrupted,
                 PP!DownInterrupted, Pipe!ReadAgain, PP!ReadAgain,
                 Pipe!ReadBlock, PP!ReadBlock, Pipe!ReadFast, PP!ReadFast,
                 Pipe!ReadPrepare, PP!ReadPrepare, Pipe!ReadLoad,
                 PP!ReadLoad, Pipe!ReadCompare, PP!ReadCompare,
                 Pipe!ReadCopy, PP!ReadCopy, Pipe!ReadWrap, PP!ReadWrap,
                 Pipe!ReadWake, PP!ReadWake, Pipe!WriteAgain,
                 PP!WriteAgain, Pipe!WriteBlock, PP!WriteBlock,
                 Pipe!WritePrepare, PP!WritePrepare, Pipe!WriteCheck,
                 PP!WriteCheck, Pipe!WriteWoken, PP!WriteWoken,
                 Pipe!WriteCopy, PP!WriteCopy, Pipe!WriteWrap,
                 PP!WriteWrap, Pipe!WriteWake, PP!WriteWake,
                 Pipe!WriteSigio, PP!WriteSigio, Pipe!PollQueue,
                 PP!PollQueue, Pipe!PollCheck, PP!PollCheck,
                 Pipe!PollWoken, PP!PollWoken
<1>2. Pipe!Acquire(p) <=> PP!Acquire(p)
    BY ZenonT(30) DEF Pipe!Acquire, PP!Acquire, Pipe!ReadDown, PP!ReadDown,
                 Pipe!WriteDown, PP!WriteDown, Pipe!PollDown, PP!PollDown
<1>3. Pipe!Use(p) <=> PP!Use(p)
    BY ZenonT(30) DEF Pipe!Use, PP!Use, Pipe!Fasync, PP!Fasync, Pipe!Start,
                 PP!Start
<1>4. Pipe!Signal(p) <=> PP!Signal(p)
    BY ZenonT(30) DEF Pipe!Signal, PP!Signal
<1>5. Pipe!Open(p) <=> PP!Open(p)
    BY ZenonT(30) DEF Pipe!Open, PP!Open
<1>6. Pipe!Close(p) <=> PP!Close(p)
    BY ZenonT(30) DEF Pipe!Close, PP!Close
<1>7. QED
    BY ZenonT(30), <1>1, <1>2, <1>3, <1>4, <1>5, <1>6

LEMMA PipeStep == [AccessNext]_AccessVars => [PP!Next]_(PP!vars)
<1> SUFFICES ASSUME [AccessNext]_AccessVars PROVE [PP!Next]_(PP!vars)
    BY ZenonT(30)
<1>1. UNCHANGED pipe => UNCHANGED PP!vars
    BY ZenonT(30) DEF pipe, PP!vars, PP!ring, PP!queues
<1>2. CASE UNCHANGED AccessVars
    BY ZenonT(30), <1>1, <1>2 DEF AccessVars
<1>3. ASSUME NEW p \in Procs,
             \/ Arriving(p) \/ Outside(p) \/ Leaving(p) \/ OnlyBusy(p) \/ OnlyCount(p)
             \/ OnlyOpen(p) /\ spc'[p] # "open"
      PROVE  UNCHANGED pipe
    BY ZenonT(30), <1>3 DEF Arriving, Outside, Leaving, OnlyBusy, OnlyCount, OnlyOpen
<1>4. ASSUME NEW p \in Procs,
             \/ Open(p) \/ Close(p) \/ OnlyRelease(p) \/ Inside(p)
             \/ OnlyOpen(p) /\ spc'[p] = "open"
      PROVE  PP!Next
  <2>1. \/ Pipe!Open(p) \/ Pipe!Close(p) \/ Pipe!Use(p) \/ Pipe!Signal(p) \/ Pipe!Acquire(p)
        \/ Pipe!Handler(p)
    BY ZenonT(30), <1>4 DEF Open, Close, OnlyRelease, OnlyOpen, Inside
  <2>2. PP!Call(p) \/ PP!Signal(p) \/ PP!Acquire(p) \/ PP!Handler(p)
    BY <2>1, SamePipe, ZenonT(30) DEF PP!Call
  <2>3. QED
    BY <2>2, ZenonT(30) DEF PP!Next
<1>5. QED
    BY ZenonT(30), <1>1, <1>2, <1>3, <1>4 DEF AccessNext, Gate, Only

LEMMA InsideLink ==
    ASSUME Types, Link, NEW p \in Procs, Inside(p)
    PROVE  Link'
<1>1. PP!Use(p) \/ PP!Signal(p) \/ PP!Acquire(p) \/ PP!Handler(p)
    BY ZenonT(30), SamePipe DEF Inside
<1>2. /\ pc[p] # "closed"
      /\ \E label \in PP!Labels \ {"closed"} : pc' = [pc EXCEPT ![p] = label]
  <2>1. pc \in [Procs -> PP!Labels]
    BY ZenonT(30), SameLabels DEF Types
  <2>2. QED
    BY <1>1, <2>1, PP!StaysOpen, AccessAssumption, ZenonT(30) DEF Pipe!PipeAssumption
<1>3. UNCHANGED <<driver, gpc, spc>>
    BY ZenonT(30) DEF Inside, vars, counter
<1>4. QED
    BY ZenonT(30), <1>2, <1>3 DEF Link, Types

LEMMA NextLink == Types /\ Link /\ [AccessNext]_AccessVars => Link'
<1>1. UNCHANGED AccessVars /\ Link => Link'
    BY ZenonT(30) DEF AccessVars, vars, counter, pipe, Link
<1>2. QED
    BY ZenonT(30), <1>1, InsideLink, GateLink, OnlyLink DEF AccessNext

-----------------------------------------------------------------------------

AccessInv ==
    /\ CountInv /\ OwnedByOneUser
    /\ SingleInv
    /\ PP!LockInv /\ PP!QueueInv
    /\ Link

LEMMA InvTypes == AccessInv => Types
BY ZenonT(30), SameLabels DEF AccessInv, Types, CountInv, TypeOK, SingleInv, Single!TypeOK, PP!LockInv, PP!TypeOK

LEMMA InitInv == AccessInit => AccessInv
<1> SUFFICES ASSUME AccessInit PROVE AccessInv
    BY Zenon
<1>1. CountInv /\ OwnedByOneUser
    BY ZenonT(30), CountInit, OwnerInit DEF AccessInit
<1>2. SingleInv
    BY ZenonT(30), SingleInit DEF AccessInit
<1>3. PP!LockInv /\ PP!QueueInv
  <2>1. PP!Init
    BY ZenonT(30) DEF AccessInit, Pipe!Init, PP!Init, Pipe!NoCall, PP!NoCall
  <2>2. QED
    BY ZenonT(30), <2>1, PP!InitLock, PP!InitQueue, AccessAssumption DEF Pipe!PipeAssumption
<1>4. QED
    BY ZenonT(30), <1>1, <1>2, <1>3, InitLink DEF AccessInv

LEMMA NextInv == AccessInv /\ [AccessNext]_AccessVars => AccessInv'
<1> SUFFICES ASSUME AccessInv, [AccessNext]_AccessVars PROVE AccessInv'
    BY Zenon
<1>1. CountInv' /\ OwnedByOneUser'
    BY ZenonT(30), GateStep, CountNext, OwnerNext DEF AccessInv
<1>2. SingleInv'
    BY ZenonT(30), SingleStep, SingleNext DEF AccessInv
<1>3. PP!LockInv'
    BY ZenonT(30), PipeStep, PP!NextLock, AccessAssumption DEF AccessInv, Pipe!PipeAssumption
<1>4. PP!QueueInv'
    BY ZenonT(30), PipeStep, PP!NextQueue, AccessAssumption DEF AccessInv, PP!LockInv, Pipe!PipeAssumption
<1>5. Link'
    BY ZenonT(30), InvTypes, NextLink DEF AccessInv
<1>6. QED
    BY ZenonT(30), <1>1, <1>2, <1>3, <1>4, <1>5 DEF AccessInv

LEMMA AccessInvariant == AccessSpec => []AccessInv
BY InitInv, NextInv, PTL DEF AccessSpec

\* In the driver of access/scullb.c a process in a handler of the pipe is the
\* recorded owner or has the capability.
THEOREM AccessKeepsUsersApart == AccessSpec => []OneUserInThePipe
<1>1. AccessInv => OneUserInThePipe
  <2> SUFFICES ASSUME AccessInv, driver = "scullb", NEW p \in Procs \ Capable, pc[p] # "closed"
               PROVE  user_count > 0 /\ user_owner \in {uid[p], euid[p]}
    BY ZenonT(30) DEF OneUserInThePipe
  <2>1. p \in Openers
    BY ZenonT(30) DEF AccessInv, Link, Openers
  <2>2. user_owner \in {uid[p], euid[p]}
    BY ZenonT(30), <2>1 DEF AccessInv, OwnedByOneUser
  <2>3. Cardinality(Openers) # 0
    BY ZenonT(30), <2>1, OpenersFinite, FS_EmptySet
  <2>4. QED
    BY SMTT(30), <2>2, <2>3, OpenersFinite DEF AccessInv, CountInv, CountIsOpenFiles
<1>2. QED
    BY <1>1, AccessInvariant, PTL

\* At most one file is open on the device of scullb-onlyone_access.c, with
\* the pipe behind the counter.
THEOREM AccessOpensOnce == AccessSpec => []OneOpenFile
<1>1. AccessInv => OneOpenFile
    BY ZenonT(30), SingleFacts DEF AccessInv
<1>2. QED
    BY <1>1, AccessInvariant, PTL

\* Its counter is restored by every refused open and every release.
THEOREM AccessBalance == AccessSpec => []Balance
<1>1. AccessInv => Balance
    BY ZenonT(30), SingleFacts DEF AccessInv
<1>2. QED
    BY <1>1, AccessInvariant, PTL

\* In both drivers, a device that is free has nothing of its last user left
\* but the bytes in the ring.
THEOREM AccessLeavesNothing == AccessSpec => []FreeMeansQuiet
<1>1. AccessInv => FreeMeansQuiet
  <2> SUFFICES ASSUME AccessInv, Free
               PROVE  /\ sem = 1
                      /\ inq = {} /\ outq = {} /\ pollq = {} /\ fasync = {}
                      /\ \A p \in Procs : pc[p] = "closed"
    BY ZenonT(30) DEF FreeMeansQuiet
  <2>1. ASSUME driver = "scullb" PROVE \A p \in Procs : pc[p] = "closed"
    <3>1. Cardinality(Openers) = 0
      BY ZenonT(30), <2>1 DEF Free, AccessInv, CountInv, CountIsOpenFiles
    <3>2. Openers = {}
      BY ZenonT(30), <3>1, OpenersFinite, FS_EmptySet
    <3>3. QED
      BY ZenonT(30), <2>1, <3>2 DEF Openers, AccessInv, Link
  <2>2. ASSUME driver = "onlyone" PROVE \A p \in Procs : pc[p] = "closed"
    <3>1. Opened = {}
      BY ZenonT(30), <2>2, SingleFacts DEF Free, AccessInv
    <3>2. QED
      BY ZenonT(30), <2>2, <3>1 DEF Opened, AccessInv, Link
  <2>3. \A p \in Procs : pc[p] = "closed"
    BY ZenonT(30), <2>1, <2>2 DEF AccessInv, Link
  <2>4. sem = 1
    BY ZenonT(30), <2>3 DEF AccessInv, PP!LockInv, PP!SemaphoreDiscipline, PP!Holding
  <2>5. inq = {} /\ outq = {} /\ pollq = {} /\ fasync = {}
    BY ZenonT(30), <2>3 DEF AccessInv, PP!LockInv, PP!TypeOK, PP!QueueInv, PP!AsyncQueueOpen
  <2>6. QED
    BY ZenonT(30), <2>3, <2>4, <2>5
<1>2. QED
    BY <1>1, AccessInvariant, PTL

\* The pipe behind the gate or the counter is still the lossy FIFO.
THEOREM AccessImplementsFifo == AccessSpec => PP!ImplementsFifo
<1>1. AccessInit => PP!Init
    BY ZenonT(30) DEF AccessInit, Pipe!Init, PP!Init, Pipe!NoCall, PP!NoCall
<1>2. AccessSpec => PP!Spec
    BY <1>1, PipeStep, PTL DEF AccessSpec, PP!Spec
<1>3. PP!Spec => PP!ImplementsFifo
    BY ZenonT(30), PP!PipeImplementsFifo, AccessAssumption DEF Pipe!PipeAssumption
<1>4. QED
    BY <1>2, <1>3, PTL
=============================================================================
