--------------------------- MODULE DeferredProofs ---------------------------
(***************************************************************************)
(* Proofs about the deferred /proc files, for every number of processes,   *)
(* lines and reads.  The reader and sdev_timer share a structure and no    *)
(* lock; Counted says what loops and data->buf are at every point of the   *)
(* function, and Progress what the reader may conclude from loops = 0.     *)
(***************************************************************************)
EXTENDS DeferredProc, TLAPS

Points == {"none", "pending", "printed", "again", "wake"}
Places == {"idle", "wait", "test", "sleep", "woken", "end"}

Types ==
    /\ reads \in [Procs -> 0..MaxReads]
    /\ pc \in [Procs -> Places]
    /\ sig \subseteq Signals
    /\ queued \subseteq Procs
    /\ loops \in [Reads -> 0..LOOPS]
    /\ lines \in [Reads -> Nat]
    /\ fn \in [Reads -> Points]
    /\ freed \subseteq Reads

\* The lines printed and the runs to come of one read.  A read that has not
\* begun has a structure that nobody has touched.
Counted ==
    \A p \in Procs, i \in 1..MaxReads :
        LET r == <<p, i>> IN
        /\ lines[r] + loops[r] = IF fn[r] = "printed" THEN LOOPS + 1 ELSE LOOPS
        /\ fn[r] \in {"pending", "printed", "again"} => loops[r] > 0
        /\ fn[r] = "wake" => loops[r] = 0
        /\ fn[r] = "none" /\ i <= reads[p] => loops[r] = 0
        /\ i > reads[p] => fn[r] = "none" /\ loops[r] = LOOPS

\* A process inside sdev_proc has a read of its own; past the wait it has a
\* signal pending or all its lines.
Progress ==
    \A p \in Procs :
        /\ pc[p] # "idle" => reads[p] > 0
        /\ pc[p] = "woken" /\ p \notin sig => loops[Current(p)] = 0
        /\ pc[p] = "end" => loops[Current(p)] = 0

FreedDone == \A r \in freed : loops[r] = 0

Inv ==
    /\ Types /\ Counted /\ Progress /\ FreedDone
    /\ FullResult /\ FunctionInsideRead /\ NoLostWakeup

LEMMA InitInv == Init => Inv
<1> SUFFICES ASSUME Init PROVE Inv
    BY Zenon
<1>1. Types
    BY SMTT(30), DeferredAssumption DEF Init, Types, Points, Places
<1>2. Counted
    BY SMTT(30), DeferredAssumption DEF Init, Counted, Reads
<1>3. Progress /\ FreedDone /\ FullResult /\ NoLostWakeup
    BY Zenon DEF Init, Progress, FreedDone, FullResult, NoLostWakeup
<1>4. FunctionInsideRead
    BY Zenon DEF Init, FunctionInsideRead, Reads
<1>5. QED
    BY Zenon, <1>1, <1>2, <1>3, <1>4 DEF Inv

\* The read a process is in is one of Reads.
LEMMA CurrentRead ==
    ASSUME Inv, NEW p \in Procs, pc[p] # "idle"
    PROVE  reads[p] \in 1..MaxReads /\ Current(p) \in Reads
BY SMTT(30), DeferredAssumption DEF Inv, Types, Progress, Current, Reads

LEMMA StartInv ==
    ASSUME Inv, NEW p \in Procs, ProcStart(p)
    PROVE  Inv'
<1> USE DeferredAssumption DEF ProcStart, Goto
<1> DEFINE r == <<p, reads[p] + 1>>
<1>1. reads[p] + 1 \in 1..MaxReads /\ r \in Reads
    BY SMTT(30) DEF Inv, Types, Reads
<1>2. Types'
    BY SMTT(30), <1>1 DEF Inv, Types, Points, Places
<1>3. Counted'
  <2> SUFFICES ASSUME NEW q \in Procs, NEW i \in 1..MaxReads
               PROVE  Counted!(q, i)'
    BY Zenon DEF Counted
  <2>1. <<q, i>> \in Reads /\ reads[p] \in Nat /\ reads[q] \in Nat
    BY SMTT(30) DEF Inv, Types, Reads
  <2>2. CASE <<q, i>> = r
    BY SMTT(30), <1>1, <2>1, <2>2 DEF Inv, Types, Counted
  <2>3. CASE <<q, i>> # r
    <3>1. UNCHANGED <<fn[<<q, i>>], loops[<<q, i>>], lines[<<q, i>>]>>
        BY Zenon, <2>1, <2>3 DEF Inv, Types
    <3>2. /\ reads'[q] >= reads[q] /\ reads'[q] \in Nat
          /\ i <= reads'[q] => i <= reads[q]
        BY SMTT(30), <2>1, <2>3 DEF Inv, Types
    <3>3. Counted!(q, i)
        BY Zenon DEF Inv, Counted
    <3>4. QED
        BY SMTT(30), <2>1, <3>1, <3>2, <3>3
  <2>4. QED
    BY Zenon, <2>2, <2>3
<1>4. Progress'
    BY SMTT(30) DEF Inv, Types, Progress, Current
<1>5. FreedDone' /\ FullResult'
    BY Zenon DEF Inv, FreedDone, FullResult
<1>6. FunctionInsideRead'
    BY Zenon, <1>1 DEF Inv, Types, FunctionInsideRead, Current, Reads
<1>7. NoLostWakeup'
    BY SMTT(30), <1>1 DEF Inv, Types, NoLostWakeup, Current, Reads
<1>8. QED
    BY Zenon, <1>2, <1>3, <1>4, <1>5, <1>6, <1>7 DEF Inv

\* The steps of sdev_proc, none of which touches the function's counts.
LEMMA ProcInv ==
    ASSUME Inv, NEW p \in Procs, Signal(p) \/ sdev_proc(p)
    PROVE  Inv'
<1> USE DeferredAssumption DEF Goto
<1> SUFFICES ASSUME Signal(p) \/ WaitQueue(p) \/ WaitTest(p) \/ WaitFast(p)
                      \/ ProcInterrupted(p) \/ ProcLength(p) \/ ProcReturn(p)
             PROVE  Inv'
    BY Zenon DEF sdev_proc
<1> USE DEF Signal, WaitQueue, WaitTest, WaitFast, ProcInterrupted, ProcLength, ProcReturn
<1>0. /\ pc[p] # "idle"
      /\ UNCHANGED <<reads, loops, lines, fn>>
    BY Zenon
<1>1. reads[p] \in 1..MaxReads /\ Current(p) \in Reads
    BY Zenon, <1>0, CurrentRead
<1>2. Types'
    BY Zenon, <1>1 DEF Inv, Types, Places
<1>3. Counted'
    BY ZenonT(30), <1>0 DEF Inv, Counted
<1>4. Progress'
    BY SMTT(30) DEF Inv, Types, Places, Progress, Current
<1>5. FreedDone'
    BY Zenon DEF Inv, FreedDone, Progress
<1>6. FullResult'
  <2>1. CASE ProcLength(p)
    <3>1. lines[Current(p)] = LOOPS
        BY SMTT(30), <1>1, <2>1 DEF Inv, Types, Counted, Progress, Current
    <3>2. QED
        BY SMTT(30), <2>1, <3>1 DEF Inv, FullResult
  <2>2. CASE ~ProcLength(p)
    BY Zenon, <2>2 DEF Inv, FullResult
  <2>3. QED
    BY Zenon, <2>1, <2>2
<1>7. FunctionInsideRead'
    BY SMTT(30) DEF Inv, Types, FunctionInsideRead, Current
<1>8. NoLostWakeup'
    BY SMTT(30) DEF Inv, Types, Places, NoLostWakeup, Current
<1>9. QED
    BY Zenon, <1>2, <1>3, <1>4, <1>5, <1>6, <1>7, <1>8 DEF Inv

\* The steps of sdev_timer.
LEMMA TimerInv ==
    ASSUME Inv, NEW r \in Reads, sdev_timer(r)
    PROVE  Inv'
<1> USE DeferredAssumption
<1> SUFFICES ASSUME AppendLine(r) \/ Count(r) \/ Again(r) \/ Wake(r)
             PROVE  Inv'
    BY Zenon DEF sdev_timer
<1> USE DEF AppendLine, Count, Again, Wake
<1>0. PICK p \in Procs, i \in 1..MaxReads : r = <<p, i>>
    BY SMTT(30) DEF Reads
<1>1. i <= reads[p] /\ UNCHANGED <<reads, pc, sig, freed, result>>
    BY SMTT(30), <1>0 DEF Inv, Types, Counted
<1>2. Types'
  <2>1. fn' \in [Reads -> Points] /\ lines' \in [Reads -> Nat] /\ queued' \subseteq Procs
    BY SMTT(30) DEF Inv, Types, Points
  <2>2. loops' \in [Reads -> 0..LOOPS]
    <3>1. Count(r) => loops[r] > 0
        BY Zenon, <1>0 DEF Inv, Counted
    <3>2. Count(r) => loops[r] - 1 \in 0..LOOPS
        BY SMTT(30), <3>1 DEF Inv, Types
    <3>3. QED
        BY Zenon, <3>2 DEF Inv, Types
  <2>3. QED
    BY Zenon, <1>1, <2>1, <2>2 DEF Inv, Types
<1>3. Counted'
  <2> SUFFICES ASSUME NEW q \in Procs, NEW j \in 1..MaxReads
               PROVE  Counted!(q, j)'
    BY Zenon DEF Counted
  <2>1. Counted!(q, j) /\ <<q, j>> \in Reads
    BY Zenon DEF Inv, Counted, Reads
  <2>2. CASE <<q, j>> = r
    <3> HIDE DEF AppendLine, Count, Again, Wake
    <3>0. /\ Counted!(q, j) /\ j <= reads[q] /\ reads' = reads
          /\ lines[r] \in Nat /\ loops[r] \in 0..LOOPS /\ fn[r] \in Points
        BY SMTT(30), <1>0, <1>1, <2>1, <2>2 DEF Inv, Types
    <3>1. CASE AppendLine(r)
        BY SMTT(30), <2>2, <3>0, <3>1 DEF AppendLine, Inv, Types
    <3>2. CASE Count(r)
        BY SMTT(30), <2>2, <3>0, <3>2 DEF Count, Inv, Types
    <3>3. CASE Again(r)
        BY Zenon, <2>2, <3>0, <3>3 DEF Again, Inv, Types
    <3>4. CASE Wake(r)
        BY Zenon, <2>2, <3>0, <3>4 DEF Wake, Inv, Types
    <3>5. QED
        BY Zenon, <3>1, <3>2, <3>3, <3>4
  <2>3. CASE <<q, j>> # r
    <3>1. UNCHANGED <<fn[<<q, j>>], loops[<<q, j>>], lines[<<q, j>>], reads>>
        BY Zenon, <1>1, <2>1, <2>3 DEF Inv, Types
    <3>2. QED
        BY Zenon, <2>1, <3>1
  <2>4. QED
    BY Zenon, <2>2, <2>3
<1>4. \A s \in Reads : loops[s] = 0 => loops'[s] = 0
    BY SMTT(30), <1>0 DEF Inv, Types, Counted
<1>5. Progress'
    BY Zenon, <1>1, <1>4, CurrentRead DEF Inv, Types, Progress, Current
<1>6. FreedDone' /\ FullResult'
    BY Zenon, <1>1, <1>4 DEF Inv, Types, FreedDone, FullResult
<1>7. FunctionInsideRead'
    BY SMTT(30), <1>0, <1>1 DEF Inv, Types, FunctionInsideRead, Current, Reads
<1>8. NoLostWakeup'
  <2> SUFFICES ASSUME NEW q \in Procs, pc[q] = "sleep", q \in queued', loops'[Current(q)] = 0
               PROVE  fn'[Current(q)] = "wake"
    BY Zenon, <1>1 DEF NoLostWakeup, Current
  <2>1. Current(q) \in Reads
    BY Zenon, CurrentRead
  <2>2. CASE Current(q) # r
    BY Zenon, <2>1, <2>2 DEF Inv, Types, NoLostWakeup
  <2>3. CASE Current(q) = r
    <3>1. r[1] = q
        BY Zenon, <2>3 DEF Current
    <3>2. ~Wake(r)
        BY Zenon, <2>3, <3>1
    <3>3. ~AppendLine(r) /\ ~Again(r)
        BY SMTT(30), <1>0, <2>3 DEF Inv, Types, Counted
    <3>4. QED
        BY SMTT(30), <2>3, <3>2, <3>3 DEF Inv, Types
  <2>4. QED
    BY Zenon, <2>2, <2>3
<1>9. QED
    BY Zenon, <1>2, <1>3, <1>5, <1>6, <1>7, <1>8 DEF Inv

LEMMA DeferredInvariant == Spec => []Inv
<1>1. Inv /\ UNCHANGED vars => Inv'
    BY SMTT(30) DEF vars, Inv, Types, Counted, Progress, FreedDone, FullResult, FunctionInsideRead,
           NoLostWakeup, Current
<1>2. Inv /\ Next => Inv'
    BY Zenon, StartInv, ProcInv, TimerInv DEF Next
<1>3. QED
    BY InitInv, <1>1, <1>2, PTL DEF Spec

\* A read that is not interrupted returns exactly LOOPS lines, although
\* sdev_timer advances data->buf and loops without a lock.
THEOREM DeferredReadsAll == Spec => []FullResult
<1>1. Inv => FullResult
    BY Zenon DEF Inv
<1>2. QED
    BY <1>1, DeferredInvariant, PTL

\* Once kfree has been called sdev_timer does no more than its last wake-up.
THEOREM DeferredFreesLate == Spec => []FreedOnlyToBeWoken
<1>1. Inv => FreedOnlyToBeWoken
    BY SMTT(30) DEF Inv, Types, Points, FreedDone, Counted, FreedOnlyToBeWoken, Reads
<1>2. QED
    BY <1>1, DeferredInvariant, PTL

\* destroy_workqueue keeps sdev_timer inside an uninterrupted read.
THEOREM DeferredStaysInside == Spec => []FunctionInsideRead
<1>1. Inv => FunctionInsideRead
    BY Zenon DEF Inv
<1>2. QED
    BY <1>1, DeferredInvariant, PTL

\* No reader sleeps through the last wake-up of sdev_timer.
THEOREM DeferredLosesNoWakeup == Spec => []NoLostWakeup
<1>1. Inv => NoLostWakeup
    BY Zenon DEF Inv
<1>2. QED
    BY <1>1, DeferredInvariant, PTL
=============================================================================
