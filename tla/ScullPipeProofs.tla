--------------------------- MODULE ScullPipeProofs ---------------------------
(***************************************************************************)
(* Proofs about the pipe driver, for every ring size, every set of         *)
(* lengths and every number of processes.  LockInv carries mutual          *)
(* exclusion and the places of the pointers; WakeInv, the strengthening of *)
(* NoLostWakeup, adds the reader that has queued itself and whose unlocked *)
(* comparison is about to find the pointers equal.                         *)
(***************************************************************************)
EXTENDS ScullPipe, SequenceTheorems, TLAPS

\* A pointer stands at the end of the buffer only inside the critical
\* section that advanced it.
Pointers ==
    /\ rp = DEVSIZE => \E p \in Procs : pc[p] = "r_wrap"
    /\ wp = DEVSIZE => \E p \in Procs : pc[p] = "w_wrap"

LockInv == TypeOK /\ SemaphoreDiscipline /\ Pointers

USE DEF Labels, ReadLabels, WriteLabels, PollLabels

LEMMA InitLock == Init => LockInv
BY SMTT(30), PipeAssumption DEF Init, LockInv, TypeOK, SemaphoreDiscipline, Pointers, Holding, NoCall

LEMMA HolderPointers ==
    ASSUME LockInv, NEW p \in Procs, pc[p] \in {"r_crit", "w_crit", "p_crit"}
    PROVE  rp \in 0..DEVSIZE-1 /\ wp \in 0..DEVSIZE-1
BY SMTT(30), PipeAssumption DEF LockInv, TypeOK, SemaphoreDiscipline, Pointers, Holding

\* The same, with the length the call was made with.
LEMMA HolderFacts ==
    ASSUME LockInv, NEW p \in Procs, pc[p] \in {"r_crit", "w_crit"}
    PROVE  rp \in 0..DEVSIZE-1 /\ wp \in 0..DEVSIZE-1 /\ call[p].len \in Nat
<1>1. call[p] \in [len : Lens \cup {0}, nb : BOOLEAN]
    BY Zenon DEF LockInv, TypeOK
<1>2. call[p].len \in Lens \cup {0}
    BY Zenon, <1>1
<1>3. call[p].len \in Nat
  <2>1. Lens \subseteq Nat
    BY Zenon, PipeAssumption
  <2>2. \A n \in Lens \cup {0} : n \in Nat
    BY SMTT(30), <2>1
  <2>3. QED
    BY Zenon, <1>2, <2>2
<1>4. QED
    BY Zenon, <1>3, HolderPointers

LEMMA HaveSpaceFact ==
    ASSUME rp \in 0..DEVSIZE-1, wp \in 0..DEVSIZE-1
    PROVE  /\ have_space \in Nat
           /\ have_space = IF wp = rp THEN DEVSIZE - 1
                           ELSE IF wp > rp THEN wp - rp ELSE wp - rp + DEVSIZE
BY SMTT(30), PipeAssumption DEF have_space

LEMMA OccupiedFact ==
    ASSUME rp \in 0..DEVSIZE, wp \in 0..DEVSIZE
    PROVE  /\ Occupied \in 0..DEVSIZE-1
           /\ rp < DEVSIZE /\ wp < DEVSIZE =>
                Occupied = IF wp >= rp THEN wp - rp ELSE wp - rp + DEVSIZE
BY SMTT(30), PipeAssumption DEF Occupied, Wrapped

LEMMA EqualIsEmpty ==
    ASSUME rp \in 0..DEVSIZE, rp = wp
    PROVE  Occupied = 0
BY SMTT(30), PipeAssumption DEF Occupied, Wrapped

\* A read takes bytes that are there and does not run past the end.
LEMMA ReadCountFact ==
    ASSUME rp \in 0..DEVSIZE-1, wp \in 0..DEVSIZE-1, NEW len \in Nat
    PROVE  /\ ReadCount(len) \in Nat
           /\ rp + ReadCount(len) <= DEVSIZE
           /\ rp # wp => ReadCount(len) <= Occupied
BY SMTT(30), PipeAssumption, OccupiedFact DEF ReadCount, Min

\* A write does not run past the end, and catches up with rp at most.
LEMMA WriteCountFact ==
    ASSUME rp \in 0..DEVSIZE-1, wp \in 0..DEVSIZE-1, NEW len \in Nat
    PROVE  /\ WriteCount(len) \in Nat
           /\ wp + WriteCount(len) <= DEVSIZE
           /\ Occupied + WriteCount(len) <= DEVSIZE
<1> DEFINE count == Min(len, have_space)
<1>1. count \in Nat
    BY Zenon, HaveSpaceFact DEF Min
<1>2. WriteCount(len) = IF wp >= rp THEN Min(count, DEVSIZE - wp) ELSE Min(count, rp - wp - 1)
    BY Zenon DEF WriteCount
<1> HIDE DEF count
<1>3. QED
    BY SMTT(30), <1>1, <1>2, PipeAssumption, OccupiedFact DEF Min

LEMMA PrefixIsSeq ==
    ASSUME NEW n \in Nat, NEW f \in [1..n -> Nat]
    PROVE  f \in Seq(Nat)
BY Zenon, SeqDef

\* The kinds of steps a process takes around the critical section: outside
\* it, into it, and out of it.
Moves(p, labels) == Return(p) \/ \E label \in labels : Continue(p, label)

QueueTypes ==
    /\ inq' \subseteq Procs /\ outq' \subseteq Procs /\ pollq' \subseteq Procs
    /\ fasync' \subseteq Procs

Outside(p) ==
    /\ pc[p] \notin Holding
    /\ Moves(p, Labels \ Holding)
    /\ UNCHANGED <<ring, sem>>
    /\ QueueTypes

Enter(p) ==
    /\ pc[p] \notin Holding /\ sem = 1 /\ sem' = 0
    /\ \E label \in Holding : Continue(p, label)
    /\ UNCHANGED ring
    /\ QueueTypes

Release(p) ==
    /\ pc[p] \in Holding /\ sem' = 1
    /\ Moves(p, Labels \ Holding)
    /\ rp' \in 0..DEVSIZE-1 /\ wp' \in 0..DEVSIZE-1 /\ UNCHANGED <<buf, sent>>
    /\ QueueTypes

LEMMA MovesType ==
    ASSUME TypeOK, NEW p \in Procs, Moves(p, Labels), QueueTypes,
           rp' \in 0..DEVSIZE, wp' \in 0..DEVSIZE, sem' \in {0, 1}, UNCHANGED <<buf, sent>>
    PROVE  TypeOK'
<1>1. CASE Return(p)
  <2>1. "idle" \in Labels
    BY Zenon
  <2>2. NoCall \in [len : Lens \cup {0}, nb : BOOLEAN] /\ <<>> \in Seq(Nat)
    BY SMTT(30) DEF NoCall
  <2> HIDE DEF Labels
  <2>3. QED
    BY Zenon, <1>1, <2>1, <2>2 DEF Return, Goto, TypeOK, QueueTypes
<1>2. ASSUME NEW label \in Labels, Continue(p, label) PROVE TypeOK'
  <2> HIDE DEF Labels
  <2>1. QED
    BY Zenon, <1>2 DEF Continue, Goto, TypeOK, QueueTypes
<1>3. QED
    BY Zenon, <1>1, <1>2 DEF Moves

LEMMA OutsideStep ==
    ASSUME LockInv, NEW p \in Procs, Outside(p)
    PROVE  LockInv'
<1>1. PICK label \in Labels \ Holding : pc' = [pc EXCEPT ![p] = label]
    BY Zenon DEF Outside, Moves, Return, Continue, Goto, Holding
<1>2. Moves(p, Labels)
    BY Zenon DEF Outside, Moves
<1>3. TypeOK'
    BY Zenon, <1>2, MovesType DEF Outside, LockInv, TypeOK, ring
<1>4. \A q \in Procs : pc'[q] = IF q = p THEN label ELSE pc[q]
    BY Zenon, <1>1 DEF LockInv, TypeOK
<1>5. SemaphoreDiscipline'
  <2>1. \A q \in Procs : pc'[q] \in Holding <=> pc[q] \in Holding
    BY Zenon, <1>4 DEF Outside
  <2>2. QED
    BY Zenon, <2>1 DEF LockInv, SemaphoreDiscipline, Outside
<1>6. Pointers'
    BY Zenon, <1>4 DEF LockInv, Pointers, Outside, Holding, ring
<1>7. QED
    BY Zenon, <1>3, <1>5, <1>6 DEF LockInv

LEMMA EnterStep ==
    ASSUME LockInv, NEW p \in Procs, Enter(p)
    PROVE  LockInv'
<1>1. PICK label \in Holding : Continue(p, label)
    BY Zenon DEF Enter
<1>2. label \in Labels
    BY Zenon, <1>1 DEF Holding
<1>3. TypeOK'
    BY Zenon, <1>1, <1>2, MovesType DEF Moves, Enter, LockInv, TypeOK, ring
<1>4. \A q \in Procs : pc'[q] = IF q = p THEN label ELSE pc[q]
    BY Zenon, <1>1 DEF Continue, Goto, LockInv, TypeOK
<1>5. \A q \in Procs : pc[q] \notin Holding
    BY Zenon DEF Enter, LockInv, SemaphoreDiscipline
<1>6. SemaphoreDiscipline'
    BY SMTT(30), <1>1, <1>4, <1>5 DEF Enter, SemaphoreDiscipline
<1>7. Pointers'
    BY Zenon, <1>5 DEF LockInv, Pointers, Enter, Holding, ring
<1>8. QED
    BY Zenon, <1>3, <1>6, <1>7 DEF LockInv

LEMMA ReleaseStep ==
    ASSUME LockInv, NEW p \in Procs, Release(p)
    PROVE  LockInv'
<1>1. PICK label \in Labels \ Holding : pc' = [pc EXCEPT ![p] = label]
    BY Zenon DEF Release, Moves, Return, Continue, Goto, Holding
<1>2. Moves(p, Labels)
    BY Zenon DEF Release, Moves
<1>3. rp' \in 0..DEVSIZE /\ wp' \in 0..DEVSIZE /\ rp' # DEVSIZE /\ wp' # DEVSIZE
    BY SMTT(30), PipeAssumption DEF Release
<1>4. TypeOK'
    BY Zenon, <1>2, <1>3, MovesType DEF Release, LockInv
<1>5. \A q \in Procs : pc'[q] \notin Holding
    BY Zenon, <1>1 DEF LockInv, TypeOK, SemaphoreDiscipline, Release
<1>6. QED
    BY Zenon, <1>3, <1>4, <1>5 DEF LockInv, SemaphoreDiscipline, Pointers, Release

\* A process that stays where it is outside, or inside, the critical section.
LEMMA SameSection ==
    ASSUME LockInv, NEW p \in Procs, NEW label \in Labels,
           pc' = [pc EXCEPT ![p] = label], UNCHANGED <<ring, sem>>,
           \/ pc[p] \notin Holding /\ label \notin Holding
           \/ pc[p] \in Holding \ {"r_wrap", "w_wrap"} /\ label \in Holding
    PROVE  SemaphoreDiscipline' /\ Pointers'
<1>1. \A q \in Procs : pc'[q] = IF q = p THEN label ELSE pc[q]
    BY Zenon DEF LockInv, TypeOK
<1>2. \A q \in Procs : pc'[q] \in Holding <=> pc[q] \in Holding
    BY Zenon, <1>1
<1>3. SemaphoreDiscipline'
    BY Zenon, <1>2 DEF LockInv, SemaphoreDiscipline
<1>4. Pointers'
    BY Zenon, <1>1 DEF LockInv, Pointers, Holding, ring
<1>5. QED
    BY Zenon, <1>3, <1>4

LEMMA NextLock == LockInv /\ [Next]_vars => LockInv'
<1> SUFFICES ASSUME LockInv, [Next]_vars PROVE LockInv'
    BY Zenon
<1> USE DEF ring, queues
<1>1. CASE UNCHANGED vars
    BY Zenon, <1>1 DEF vars, LockInv, TypeOK, SemaphoreDiscipline, Pointers
<1>2. ASSUME NEW p \in Procs, Call(p) \/ Signal(p) \/ Acquire(p) \/ Handler(p) PROVE LockInv'
  <2>0. /\ inq \subseteq Procs /\ outq \subseteq Procs /\ pollq \subseteq Procs
        /\ fasync \subseteq Procs
    BY Zenon DEF LockInv, TypeOK
  <2>1. CASE Open(p)
    <3>1. Outside(p)
      BY Zenon, <2>0, <2>1 DEF Open, Outside, Moves, QueueTypes, Holding
    <3>2. QED
      BY Zenon, <3>1, OutsideStep
  <2>2. CASE Close(p)
    <3>1. Outside(p)
      BY Zenon, <2>0, <2>2 DEF Close, Outside, Moves, QueueTypes, Holding
    <3>2. QED
      BY Zenon, <3>1, OutsideStep
  <2>3. CASE DownInterrupted(p)
    <3>1. Outside(p)
      BY Zenon, <2>0, <2>3 DEF DownInterrupted, Outside, Moves, QueueTypes, Holding
    <3>2. QED
      BY Zenon, <3>1, OutsideStep
  <2>4. CASE ReadFast(p)
    <3>1. Outside(p)
      BY Zenon, <2>0, <2>4 DEF ReadFast, Outside, Moves, QueueTypes, Holding
    <3>2. QED
      BY Zenon, <3>1, OutsideStep
  <2>5. CASE ReadPrepare(p)
    <3>1. Outside(p)
      BY Zenon, <2>0, <2>5 DEF ReadPrepare, Outside, Moves, QueueTypes, Holding
    <3>2. QED
      BY Zenon, <3>1, OutsideStep
  <2>6. CASE ReadCompare(p)
    <3>1. Outside(p)
      BY Zenon, <2>0, <2>6 DEF ReadCompare, Outside, Moves, QueueTypes, Holding
    <3>2. QED
      BY Zenon, <3>1, OutsideStep
  <2>7. CASE ReadWake(p)
    <3>1. Outside(p)
      BY Zenon, <2>0, <2>7 DEF ReadWake, Outside, Moves, QueueTypes, Holding
    <3>2. QED
      BY Zenon, <3>1, OutsideStep
  <2>8. CASE WritePrepare(p)
    <3>1. Outside(p)
      BY Zenon, <2>0, <2>8 DEF WritePrepare, Outside, Moves, QueueTypes, Holding
    <3>2. QED
      BY Zenon, <3>1, OutsideStep
  <2>9. CASE WriteCheck(p)
    <3>1. Outside(p)
      BY Zenon, <2>0, <2>9 DEF WriteCheck, Outside, Moves, QueueTypes, Holding
    <3>2. QED
      BY Zenon, <3>1, OutsideStep
  <2>10. CASE WriteWoken(p)
    <3>1. Outside(p)
      BY Zenon, <2>0, <2>10 DEF WriteWoken, Outside, Moves, QueueTypes, Holding
    <3>2. QED
      BY Zenon, <3>1, OutsideStep
  <2>11. CASE WriteWake(p)
    <3>1. Outside(p)
      BY Zenon, <2>0, <2>11 DEF WriteWake, Outside, Moves, QueueTypes, Holding
    <3>2. QED
      BY Zenon, <3>1, OutsideStep
  <2>12. CASE PollWoken(p)
    <3>1. Outside(p)
      BY Zenon, <2>0, <2>12 DEF PollWoken, Outside, Moves, QueueTypes, Holding
    <3>2. QED
      BY Zenon, <3>1, OutsideStep
  <2>13. CASE ReadDown(p)
    <3>1. Enter(p)
      BY Zenon, <2>0, <2>13 DEF ReadDown, Enter, Down, QueueTypes, Holding
    <3>2. QED
      BY Zenon, <3>1, EnterStep
  <2>14. CASE WriteDown(p)
    <3>1. Enter(p)
      BY Zenon, <2>0, <2>14 DEF WriteDown, Enter, Down, QueueTypes, Holding
    <3>2. QED
      BY Zenon, <3>1, EnterStep
  <2>15. CASE PollDown(p)
    <3>1. Enter(p)
      BY Zenon, <2>0, <2>15 DEF PollDown, Enter, Down, QueueTypes, Holding
    <3>2. QED
      BY Zenon, <3>1, EnterStep
  <2>16. CASE ReadAgain(p)
    <3>1. rp' \in 0..DEVSIZE-1 /\ wp' \in 0..DEVSIZE-1
      BY Zenon, <2>16, HolderPointers DEF ReadAgain
    <3>2. Release(p)
      BY Zenon, <2>0, <2>16, <3>1 DEF ReadAgain, Release, Moves, QueueTypes, Holding
    <3>3. QED
      BY Zenon, <3>2, ReleaseStep
  <2>17. CASE ReadBlock(p)
    <3>1. rp' \in 0..DEVSIZE-1 /\ wp' \in 0..DEVSIZE-1
      BY Zenon, <2>17, HolderPointers DEF ReadBlock
    <3>2. Release(p)
      BY Zenon, <2>0, <2>17, <3>1 DEF ReadBlock, Release, Moves, QueueTypes, Holding
    <3>3. QED
      BY Zenon, <3>2, ReleaseStep
  <2>18. CASE ReadWrap(p)
    <3>1. rp' \in 0..DEVSIZE-1 /\ wp' \in 0..DEVSIZE-1
      BY SMTT(30), <2>18, PipeAssumption DEF ReadWrap, LockInv, TypeOK, SemaphoreDiscipline, Pointers, Holding
    <3>2. Release(p)
      BY Zenon, <2>0, <2>18, <3>1 DEF ReadWrap, Release, Moves, QueueTypes, Holding
    <3>3. QED
      BY Zenon, <3>2, ReleaseStep
  <2>19. CASE WriteAgain(p)
    <3>1. rp' \in 0..DEVSIZE-1 /\ wp' \in 0..DEVSIZE-1
      BY Zenon, <2>19, HolderPointers DEF WriteAgain
    <3>2. Release(p)
      BY Zenon, <2>0, <2>19, <3>1 DEF WriteAgain, Release, Moves, QueueTypes, Holding
    <3>3. QED
      BY Zenon, <3>2, ReleaseStep
  <2>20. CASE WriteBlock(p)
    <3>1. rp' \in 0..DEVSIZE-1 /\ wp' \in 0..DEVSIZE-1
      BY Zenon, <2>20, HolderPointers DEF WriteBlock
    <3>2. Release(p)
      BY Zenon, <2>0, <2>20, <3>1 DEF WriteBlock, Release, Moves, QueueTypes, Holding
    <3>3. QED
      BY Zenon, <3>2, ReleaseStep
  <2>21. CASE WriteWrap(p)
    <3>1. rp' \in 0..DEVSIZE-1 /\ wp' \in 0..DEVSIZE-1
      BY SMTT(30), <2>21, PipeAssumption DEF WriteWrap, LockInv, TypeOK, SemaphoreDiscipline, Pointers, Holding
    <3>2. Release(p)
      BY Zenon, <2>0, <2>21, <3>1 DEF WriteWrap, Release, Moves, QueueTypes, Holding
    <3>3. QED
      BY Zenon, <3>2, ReleaseStep
  <2>22. CASE PollCheck(p)
    <3>1. rp' \in 0..DEVSIZE-1 /\ wp' \in 0..DEVSIZE-1
      BY Zenon, <2>22, HolderPointers DEF PollCheck
    <3>2. Release(p)
      BY Zenon, <2>0, <2>22, <3>1 DEF PollCheck, Release, Moves, QueueTypes, Holding
    <3>3. QED
      BY Zenon, <3>2, ReleaseStep
  <2>23. CASE Signal(p)
    BY Zenon, <2>23 DEF Signal, LockInv, TypeOK, SemaphoreDiscipline, Pointers
  <2>24. CASE ReadLoad(p)
    <3>1. TypeOK'
      <4>1. "r_cmp_wp" \in Labels /\ "r_cmp_rp" \in Labels
        BY Zenon
      <4> HIDE DEF Labels
      <4>2. QED
        BY ZenonT(60), <2>24, <4>1 DEF ReadLoad, Goto, LockInv, TypeOK
    <3>2. SemaphoreDiscipline' /\ Pointers'
      BY <2>24, SameSection, Zenon DEF ReadLoad, Goto, Holding
    <3>3. QED
      BY Zenon, <3>1, <3>2 DEF LockInv
  <2>25. CASE WriteSigio(p)
    <3>1. call' \in [Procs -> [len : Lens \cup {0}, nb : BOOLEAN]]
      BY Zenon, <2>25 DEF WriteSigio, NoCall, LockInv, TypeOK
    <3>2. TypeOK'
      <4>1. "idle" \in Labels
        BY Zenon
      <4> HIDE DEF Labels
      <4>2. QED
        BY Zenon, <2>25, <3>1, <4>1 DEF WriteSigio, Goto, LockInv, TypeOK
    <3>3. SemaphoreDiscipline' /\ Pointers'
      BY <2>25, SameSection, Zenon DEF WriteSigio, Goto, Holding
    <3>4. QED
      BY Zenon, <3>2, <3>3 DEF LockInv
  <2>26. CASE PollQueue(p)
    <3>1. TypeOK'
      <4>1. "p_crit" \in Labels
        BY Zenon
      <4> HIDE DEF Labels
      <4>2. QED
        BY Zenon, <2>26, <4>1 DEF PollQueue, Continue, Goto, LockInv, TypeOK
    <3>2. SemaphoreDiscipline' /\ Pointers'
      BY <2>26, SameSection, Zenon DEF PollQueue, Continue, Goto, Holding
    <3>3. QED
      BY Zenon, <3>1, <3>2 DEF LockInv
  <2>27. CASE \E mode \in BOOLEAN : Fasync(p, mode)
    BY Zenon, <2>27 DEF Fasync, LockInv, TypeOK, SemaphoreDiscipline, Pointers
  <2>28. ASSUME NEW use, NEW label \in {"r_down", "w_down", "p_down"}, NEW len \in Lens \cup {0},
              NEW nb \in BOOLEAN, Start(p, use, label, len, nb) PROVE LockInv'
    <3>1. call' \in [Procs -> [len : Lens \cup {0}, nb : BOOLEAN]]
      BY Zenon, <2>28 DEF Start, LockInv, TypeOK
    <3>2. TypeOK'
      <4>1. label \in Labels
        BY Zenon
      <4> HIDE DEF Labels
      <4>2. QED
        BY Zenon, <2>28, <3>1, <4>1 DEF Start, Goto, LockInv, TypeOK
    <3>3. SemaphoreDiscipline' /\ Pointers'
      BY <2>28, SameSection, Zenon DEF Start, Goto, Holding
    <3>4. QED
      BY Zenon, <3>2, <3>3 DEF LockInv
  <2>29. CASE ReadCopy(p)
    <3> DEFINE count == ReadCount(call[p].len)
    <3>1. rp \in 0..DEVSIZE-1 /\ wp \in 0..DEVSIZE-1 /\ call[p].len \in Nat
      BY Zenon, <2>29, HolderFacts DEF ReadCopy
    <3>2. count \in Nat /\ rp + count <= DEVSIZE
      BY Zenon, <3>1, ReadCountFact
    <3>3. PICK done \in 0..count :
            ubuf' = [ubuf EXCEPT ![p] = [i \in 1..done |-> buf[rp + i - 1]]]
      BY <2>29, Zenon DEF ReadCopy
    <3>4. [i \in 1..done |-> buf[rp + i - 1]] \in [1..done -> Nat]
      <4>1. \A i \in 1..done : rp + i - 1 \in 0..DEVSIZE-1
        BY SMTT(30), <3>1, <3>2, PipeAssumption
      <4>2. buf \in [0..DEVSIZE-1 -> Nat]
        BY Zenon DEF LockInv, TypeOK
      <4>3. QED
        BY Zenon, <4>1, <4>2
    <3>5. [i \in 1..done |-> buf[rp + i - 1]] \in Seq(Nat)
      BY SMTT(30), <3>2, <3>4, PrefixIsSeq
    <3>6. ubuf' \in [Procs -> Seq(Nat)]
      BY Zenon, <3>3, <3>5 DEF LockInv, TypeOK
    <3>7. rp' \in 0..DEVSIZE
      BY SMTT(30), <2>29, <3>1, <3>2, PipeAssumption DEF ReadCopy
    <3> HIDE DEF count
    <3>8. /\ UNCHANGED <<wp, buf, sent, sem, queues, fasync, sig, call, seen>>
          /\ pc' = [pc EXCEPT ![p] = "r_wrap"] /\ pc[p] = "r_crit"
      BY Zenon, <2>29 DEF ReadCopy, Goto
    <3>9. TypeOK'
      BY Zenon, <3>6, <3>7, <3>8 DEF LockInv, TypeOK
    <3>10. SemaphoreDiscipline' /\ Pointers'
      BY SMTT(30), <3>1, <3>8, PipeAssumption DEF LockInv, TypeOK, SemaphoreDiscipline, Pointers, Holding
    <3>11. QED
      BY Zenon, <3>9, <3>10 DEF LockInv
  <2>30. CASE WriteCopy(p)
    <3> DEFINE count == WriteCount(call[p].len)
    <3>1. rp \in 0..DEVSIZE-1 /\ wp \in 0..DEVSIZE-1 /\ call[p].len \in Nat
      BY Zenon, <2>30, HolderFacts DEF WriteCopy
    <3>2. count \in Nat /\ wp + count <= DEVSIZE
      BY Zenon, <3>1, WriteCountFact
    <3> HIDE DEF count
    <3>3. Store(wp, count) \in [0..DEVSIZE-1 -> Nat]
      BY SMTT(30), <3>1, <3>2 DEF Store, LockInv, TypeOK
    <3>4. /\ wp' = wp + count /\ sent' = sent + count /\ buf' = Store(wp, count)
          /\ UNCHANGED <<rp, sem, queues, fasync, sig, call, seen, ubuf>>
          /\ pc' = [pc EXCEPT ![p] = "w_wrap"] /\ pc[p] = "w_crit"
      BY Zenon, <2>30 DEF WriteCopy, count, Continue, Goto
    <3>5. wp' \in 0..DEVSIZE /\ sent' \in Nat
      BY SMTT(30), <3>1, <3>2, <3>4, PipeAssumption DEF LockInv, TypeOK
    <3>6. TypeOK'
      BY Zenon, <3>3, <3>4, <3>5 DEF LockInv, TypeOK
    <3>7. SemaphoreDiscipline' /\ Pointers'
      <4>1. \A q \in Procs : pc'[q] = IF q = p THEN "w_wrap" ELSE pc[q]
        BY Zenon, <3>4 DEF LockInv, TypeOK
      <4>2. \A q \in Procs : pc'[q] \in Holding <=> pc[q] \in Holding
        BY Zenon, <3>4, <4>1 DEF Holding
      <4>3. rp' # DEVSIZE
        BY SMTT(30), <3>1, <3>4, PipeAssumption
      <4>4. QED
        BY Zenon, <3>4, <4>1, <4>2, <4>3 DEF LockInv, SemaphoreDiscipline, Pointers
    <3>8. QED
      BY Zenon, <3>6, <3>7 DEF LockInv
  <2>31. QED
    <3>1. CASE Call(p)
      BY ONLY <3>1, PipeAssumption, <2>1, <2>2, <2>27, <2>28, Zenon DEF Call, Use
    <3>2. CASE Acquire(p)
      BY ONLY Zenon, <3>2, <2>13, <2>14, <2>15 DEF Acquire
    <3>3. CASE Handler(p)
      BY ONLY Zenon, <3>3,
         <2>3, <2>16, <2>17, <2>4, <2>5, <2>24, <2>6, <2>29, <2>18, <2>7,
         <2>19, <2>20, <2>8, <2>9, <2>10, <2>30, <2>21, <2>11, <2>25, <2>26, <2>22, <2>12
         DEF Handler
    <3>4. QED
      BY ONLY Zenon, <1>2, <2>23, <3>1, <3>2, <3>3
<1>3. QED
    BY Zenon, <1>1, <1>2 DEF Next

-----------------------------------------------------------------------------

\* A process that is asleep and still queued, or about to fall asleep
\* because its unlocked comparison will find wp where it has seen rp.
Dozing(p) ==
    \/ pc[p] = "r_sleep" /\ p \in inq
    \/ pc[p] = "p_sleep" /\ p \in pollq
    \/ pc[p] = "r_cmp_wp" /\ p \in inq /\ seen[p] = wp

\* A queued reader whose unlocked comparison uses a wp that has moved on.
Outdated(p) == pc[p] = "r_cmp_rp" /\ p \in inq /\ Wrapped(seen[p]) # Wrapped(wp)

WakeInv ==
    \A p \in Procs : Outdated(p) \/ (Dozing(p) /\ Occupied # 0) => WakePending

LEMMA InitWake == Init => WakeInv
BY Zenon DEF Init, WakeInv, Dozing, Outdated

\* A step that delivers no wake-up, fills no ring, moves no wp and puts
\* nobody to sleep over a ring that is not empty.
Quiet ==
    /\ \A q \in Procs : pc[q] \in {"w_wrap", "w_wake"} => pc'[q] = pc[q]
    /\ Occupied' # 0 => Occupied # 0
    /\ \A q \in Procs : Outdated(q)' => Outdated(q)
    /\ \A q \in Procs : Dozing(q)' => Dozing(q) \/ Outdated(q) \/ Occupied = 0

LEMMA QuietStep == WakeInv /\ Quiet => WakeInv'
<1> SUFFICES ASSUME WakeInv, Quiet, NEW q \in Procs,
                    Outdated(q)' \/ (Dozing(q)' /\ Occupied' # 0)
             PROVE  WakePending'
    BY Zenon DEF WakeInv
<1>1. Outdated(q) \/ (Dozing(q) /\ Occupied # 0)
    BY Zenon DEF Quiet
<1>2. PICK w \in Procs : pc[w] \in {"w_wrap", "w_wake"}
    BY Zenon, <1>1 DEF WakeInv, WakePending
<1>3. pc'[w] \in {"w_wrap", "w_wake"}
    BY Zenon, <1>2 DEF Quiet
<1>4. QED
    BY Zenon, <1>2, <1>3 DEF WakePending

LEMMA NextWake == LockInv /\ WakeInv /\ [Next]_vars => WakeInv'
<1> SUFFICES ASSUME LockInv, WakeInv, [Next]_vars PROVE WakeInv'
    BY Zenon
<1> USE DEF Goto, Return, Continue, Down, ring, queues
<1>0. ASSUME UNCHANGED <<rp, wp>> PROVE Occupied' = Occupied
    BY Zenon, <1>0 DEF Occupied, Wrapped
<1>1. CASE UNCHANGED vars
  <2>1. Quiet
    BY Zenon, <1>0, <1>1 DEF vars, Quiet, Dozing, Outdated
  <2>2. QED
    BY Zenon, <2>1, QuietStep
<1>2. ASSUME NEW p \in Procs, Call(p) \/ Signal(p) \/ Acquire(p) \/ Handler(p) PROVE WakeInv'
  <2>1. CASE Open(p)
    <3>1. Quiet
      BY Zenon, <2>1, <1>0 DEF Open, Quiet, Dozing, Outdated, LockInv, TypeOK
    <3>2. QED
      BY Zenon, <3>1, QuietStep
  <2>2. CASE Close(p)
    <3>1. Quiet
      BY Zenon, <2>2, <1>0 DEF Close, Quiet, Dozing, Outdated, LockInv, TypeOK
    <3>2. QED
      BY Zenon, <3>1, QuietStep
  <2>3. CASE Signal(p)
    <3>1. Quiet
      BY Zenon, <2>3, <1>0 DEF Signal, Quiet, Dozing, Outdated, LockInv, TypeOK
    <3>2. QED
      BY Zenon, <3>1, QuietStep
  <2>4. CASE DownInterrupted(p)
    <3>1. Quiet
      BY Zenon, <2>4, <1>0 DEF DownInterrupted, Quiet, Dozing, Outdated, LockInv, TypeOK
    <3>2. QED
      BY Zenon, <3>1, QuietStep
  <2>5. CASE ReadDown(p)
    <3>1. Quiet
      BY Zenon, <2>5, <1>0 DEF ReadDown, Quiet, Dozing, Outdated, LockInv, TypeOK
    <3>2. QED
      BY Zenon, <3>1, QuietStep
  <2>6. CASE ReadAgain(p)
    <3>1. Quiet
      BY Zenon, <2>6, <1>0 DEF ReadAgain, Quiet, Dozing, Outdated, LockInv, TypeOK
    <3>2. QED
      BY Zenon, <3>1, QuietStep
  <2>7. CASE ReadBlock(p)
    <3>1. Quiet
      BY Zenon, <2>7, <1>0 DEF ReadBlock, Quiet, Dozing, Outdated, LockInv, TypeOK
    <3>2. QED
      BY Zenon, <3>1, QuietStep
  <2>8. CASE ReadFast(p)
    <3>1. Quiet
      BY Zenon, <2>8, <1>0 DEF ReadFast, Quiet, Dozing, Outdated, LockInv, TypeOK
    <3>2. QED
      BY Zenon, <3>1, QuietStep
  <2>9. CASE ReadPrepare(p)
    <3>1. Quiet
      BY Zenon, <2>9, <1>0 DEF ReadPrepare, Quiet, Dozing, Outdated, LockInv, TypeOK
    <3>2. QED
      BY Zenon, <3>1, QuietStep
  <2>10. CASE ReadLoad(p)
    <3>0. rp = wp => Occupied = 0
      BY Zenon, EqualIsEmpty DEF LockInv, TypeOK
    <3>1. Quiet
      BY Zenon, <2>10, <3>0, <1>0 DEF ReadLoad, Quiet, Dozing, Outdated, LockInv, TypeOK
    <3>2. QED
      BY Zenon, <3>1, QuietStep
  <2>11. CASE ReadCompare(p)
    <3>0. seen[p] = rp /\ Wrapped(seen[p]) = Wrapped(wp) => Occupied = 0
      BY SMTT(30), PipeAssumption DEF Occupied, Wrapped, LockInv, TypeOK
    <3>1. Quiet
      BY Zenon, <2>11, <3>0, <1>0 DEF ReadCompare, Quiet, Dozing, Outdated, LockInv, TypeOK
    <3>2. QED
      BY Zenon, <3>1, QuietStep
  <2>12. CASE ReadWake(p)
    <3>1. Quiet
      BY Zenon, <2>12, <1>0 DEF ReadWake, Quiet, Dozing, Outdated, LockInv, TypeOK
    <3>2. QED
      BY Zenon, <3>1, QuietStep
  <2>13. CASE WriteDown(p)
    <3>1. Quiet
      BY Zenon, <2>13, <1>0 DEF WriteDown, Quiet, Dozing, Outdated, LockInv, TypeOK
    <3>2. QED
      BY Zenon, <3>1, QuietStep
  <2>14. CASE WriteAgain(p)
    <3>1. Quiet
      BY Zenon, <2>14, <1>0 DEF WriteAgain, Quiet, Dozing, Outdated, LockInv, TypeOK
    <3>2. QED
      BY Zenon, <3>1, QuietStep
  <2>15. CASE WriteBlock(p)
    <3>1. Quiet
      BY Zenon, <2>15, <1>0 DEF WriteBlock, Quiet, Dozing, Outdated, LockInv, TypeOK
    <3>2. QED
      BY Zenon, <3>1, QuietStep
  <2>16. CASE WritePrepare(p)
    <3>1. Quiet
      BY Zenon, <2>16, <1>0 DEF WritePrepare, Quiet, Dozing, Outdated, LockInv, TypeOK
    <3>2. QED
      BY Zenon, <3>1, QuietStep
  <2>17. CASE WriteCheck(p)
    <3>1. Quiet
      BY Zenon, <2>17, <1>0 DEF WriteCheck, Quiet, Dozing, Outdated, LockInv, TypeOK
    <3>2. QED
      BY Zenon, <3>1, QuietStep
  <2>18. CASE WriteWoken(p)
    <3>1. Quiet
      BY SMTT(30), <2>18, <1>0 DEF WriteWoken, Quiet, Dozing, Outdated, LockInv, TypeOK
    <3>2. QED
      BY Zenon, <3>1, QuietStep
  <2>19. CASE WriteSigio(p)
    <3>1. Quiet
      BY Zenon, <2>19, <1>0 DEF WriteSigio, Quiet, Dozing, Outdated, LockInv, TypeOK
    <3>2. QED
      BY Zenon, <3>1, QuietStep
  <2>20. CASE PollDown(p) \/ PollQueue(p)
    <3>1. Quiet
      BY Zenon, <2>20, <1>0 DEF PollDown, PollQueue, Quiet, Dozing, Outdated, LockInv, TypeOK
    <3>2. QED
      BY Zenon, <3>1, QuietStep
  <2>21. CASE PollCheck(p)
    <3>0. UNCHANGED <<rp, wp>> /\ (rp = wp => Occupied = 0)
      BY Zenon, <2>21, EqualIsEmpty DEF PollCheck, LockInv, TypeOK
    <3>1. Quiet
      <4>1. CASE rp # wp \/ p \in sig
        BY SMTT(30), <2>21, <4>1, <3>0, <1>0 DEF PollCheck, Quiet, Dozing, Outdated, LockInv, TypeOK
      <4>2. CASE rp = wp /\ p \notin sig
        BY Zenon, <2>21, <4>2, <3>0, <1>0 DEF PollCheck, Quiet, Dozing, Outdated, LockInv, TypeOK
      <4>3. QED
        BY Zenon, <4>1, <4>2
    <3>2. QED
      BY Zenon, <3>1, QuietStep
  <2>22. CASE PollWoken(p)
    <3>1. Quiet
      BY Zenon, <2>22, <1>0 DEF PollWoken, Quiet, Dozing, Outdated, LockInv, TypeOK
    <3>2. QED
      BY Zenon, <3>1, QuietStep
  <2>23. CASE \E mode \in BOOLEAN : Fasync(p, mode)
    <3>1. Quiet
      BY Zenon, <2>23, <1>0 DEF Fasync, Quiet, Dozing, Outdated
    <3>2. QED
      BY Zenon, <3>1, QuietStep
  <2>24. ASSUME NEW use, NEW label \in {"r_down", "w_down", "p_down"}, NEW len, NEW nb,
                Start(p, use, label, len, nb) PROVE WakeInv'
    <3>1. Quiet
      BY Zenon, <2>24, <1>0 DEF Start, Quiet, Dozing, Outdated, LockInv, TypeOK
    <3>2. QED
      BY Zenon, <3>1, QuietStep
  <2>25. CASE ReadCopy(p)
    <3>1. rp \in 0..DEVSIZE-1 /\ wp \in 0..DEVSIZE-1
      BY Zenon, <2>25, HolderPointers DEF ReadCopy
    <3>2. Occupied # 0
      BY SMTT(30), <2>25, <3>1, OccupiedFact, PipeAssumption DEF ReadCopy
    <3>3. Quiet
      BY Zenon, <2>25, <3>2 DEF ReadCopy, Quiet, Dozing, Outdated, LockInv, TypeOK
    <3>4. QED
      BY Zenon, <3>3, QuietStep
  <2>26. CASE ReadWrap(p)
    <3>0. Wrapped(rp)' = Wrapped(rp) /\ Wrapped(wp)' = Wrapped(wp)
      BY <2>26, PipeAssumption, Zenon DEF ReadWrap, Wrapped
    <3>1. Occupied' = Occupied
      BY Zenon, <3>0 DEF Occupied
    <3>2. Quiet
      BY Zenon, <2>26, <3>1 DEF ReadWrap, Quiet, Dozing, Outdated, LockInv, TypeOK
    <3>3. QED
      BY Zenon, <3>2, QuietStep
  <2>27. CASE WriteCopy(p) \/ WriteWrap(p)
    <3>1. pc'[p] \in {"w_wrap", "w_wake"}
      BY <2>27, Zenon DEF WriteCopy, WriteWrap, LockInv, TypeOK
    <3>2. QED
      BY <3>1, Zenon DEF WakeInv, WakePending
  <2>28. CASE WriteWake(p)
    BY Zenon, <2>28 DEF WriteWake, WakeInv, Dozing, Outdated
  <2>29. QED
    BY ONLY ZenonT(30), <1>2, PipeAssumption,
       <2>1, <2>2, <2>3, <2>4, <2>5, <2>6, <2>7, <2>8, <2>9, <2>10,
       <2>11, <2>12, <2>13, <2>14, <2>15, <2>16, <2>17, <2>18, <2>19,
       <2>20, <2>21, <2>22, <2>23, <2>24, <2>25, <2>26, <2>27, <2>28
       DEF Call, Use, Acquire, Handler
<1>3. QED
    BY Zenon, <1>1, <1>2 DEF Next

-----------------------------------------------------------------------------

LEMMA ReadMovesWindow ==
    ASSUME rp \in 0..DEVSIZE-1, wp \in 0..DEVSIZE-1, rp # wp,
           NEW n \in Nat, n <= Occupied, rp + n <= DEVSIZE,
           rp' = rp + n, wp' = wp
    PROVE  /\ Occupied' = Occupied - n
           /\ \A k \in 0..Occupied-n-1 : Slot(k)' = Slot(k + n)
<1>1. Occupied' = Occupied - n
    BY SMTT(30), PipeAssumption, OccupiedFact DEF Occupied, Wrapped
<1>2. ASSUME NEW k \in 0..Occupied-n-1 PROVE Slot(k)' = Slot(k + n)
    BY SMTT(30), <1>2, PipeAssumption, OccupiedFact DEF Slot, Wrapped
<1>3. QED
    BY Zenon, <1>1, <1>2

LEMMA WriteGrowsWindow ==
    ASSUME rp \in 0..DEVSIZE-1, wp \in 0..DEVSIZE-1,
           NEW n \in Nat, Occupied + n <= DEVSIZE, wp + n <= DEVSIZE,
           rp' = rp, wp' = wp + n
    PROVE  /\ Occupied' = IF Occupied + n = DEVSIZE THEN 0 ELSE Occupied + n
           /\ \A k \in Nat : Slot(k)' = Slot(k)
           /\ \A k \in 0..Occupied+n-1 :
                IF k < Occupied
                  THEN Slot(k) \in (0..DEVSIZE-1) \ (wp .. wp+n-1)
                  ELSE Slot(k) = wp + (k - Occupied) /\ Slot(k) \in wp .. wp+n-1
<1>1. Occupied' = IF Occupied + n = DEVSIZE THEN 0 ELSE Occupied + n
    BY SMTT(30), PipeAssumption, OccupiedFact DEF Occupied, Wrapped
<1>2. \A k \in Nat : Slot(k)' = Slot(k)
    BY Zenon DEF Slot, Wrapped
<1>3. ASSUME NEW k \in 0..Occupied+n-1
      PROVE  IF k < Occupied
               THEN Slot(k) \in (0..DEVSIZE-1) \ (wp .. wp+n-1)
               ELSE Slot(k) = wp + (k - Occupied) /\ Slot(k) \in wp .. wp+n-1
    BY SMTT(30), <1>3, PipeAssumption, OccupiedFact DEF Slot, Wrapped
<1>4. QED
    BY Zenon, <1>1, <1>2, <1>3

\* What a step can do to the ring and to the bytes delivered.
LEMMA StreamSteps ==
    ASSUME [Next]_vars
    PROVE  \/ UNCHANGED <<ring, ubuf>>
           \/ \E p \in Procs :
                \/ UNCHANGED ring /\ ubuf' = [ubuf EXCEPT ![p] = <<>>]
                \/ ReadCopy(p) \/ ReadWrap(p) \/ WriteCopy(p) \/ WriteWrap(p)
<1>1. CASE UNCHANGED vars
    BY <1>1, Zenon DEF vars, ring
<1>2. ASSUME NEW p \in Procs, Call(p) \/ Signal(p) \/ Acquire(p)
      PROVE  UNCHANGED <<ring, ubuf>>
    BY <1>2, Zenon DEF Call, Use, Open, Close, Fasync, Start, Signal, Acquire, ReadDown, WriteDown,
                PollDown, Down, Continue, ring
<1>3. ASSUME NEW p \in Procs, Handler(p)
      PROVE  \/ UNCHANGED <<ring, ubuf>>
             \/ UNCHANGED ring /\ ubuf' = [ubuf EXCEPT ![p] = <<>>]
             \/ ReadCopy(p) \/ ReadWrap(p) \/ WriteCopy(p) \/ WriteWrap(p)
  <2> USE DEF Return, Continue
  <2>1. CASE DownInterrupted(p) \/ ReadAgain(p) \/ ReadBlock(p) \/ ReadFast(p)
    BY Zenon, <2>1 DEF DownInterrupted, ReadAgain, ReadBlock, ReadFast
  <2>2. CASE ReadPrepare(p) \/ ReadLoad(p) \/ ReadCompare(p) \/ ReadWake(p)
    BY Zenon, <2>2 DEF ReadPrepare, ReadLoad, ReadCompare, ReadWake
  <2>3. CASE WriteAgain(p) \/ WriteBlock(p) \/ WritePrepare(p) \/ WriteCheck(p)
    BY Zenon, <2>3 DEF WriteAgain, WriteBlock, WritePrepare, WriteCheck
  <2>4. CASE WriteWoken(p) \/ WriteWake(p) \/ WriteSigio(p)
    BY Zenon, <2>4 DEF WriteWoken, WriteWake, WriteSigio
  <2>5. CASE PollQueue(p) \/ PollCheck(p) \/ PollWoken(p)
    BY Zenon, <2>5 DEF PollQueue, PollCheck, PollWoken
  <2>6. QED
    BY ONLY Zenon, <1>3, <2>1, <2>2, <2>3, <2>4, <2>5 DEF Handler
<1>4. QED
    BY Zenon, <1>1, <1>2, <1>3 DEF Next

LEMMA WrapKeepsWindow ==
    ASSUME LockInv, NEW p \in Procs, ReadWrap(p) \/ WriteWrap(p)
    PROVE  /\ UNCHANGED <<buf, sent, ubuf>>
           /\ Occupied' = Occupied
           /\ \A k \in Nat : Slot(k)' = Slot(k)
<1>1. Wrapped(rp)' = Wrapped(rp) /\ Wrapped(wp)' = Wrapped(wp)
  <2>1. CASE ReadWrap(p)
    BY <2>1, PipeAssumption, Zenon DEF ReadWrap, Wrapped
  <2>2. CASE WriteWrap(p)
    BY <2>2, PipeAssumption, Zenon DEF WriteWrap, Wrapped
  <2>3. QED
    BY Zenon, <2>1, <2>2
<1>2. Occupied' = Occupied /\ \A k \in Nat : Slot(k)' = Slot(k)
    BY Zenon, <1>1 DEF Occupied, Slot
<1>3. UNCHANGED <<buf, sent, ubuf>>
    BY Zenon DEF ReadWrap, WriteWrap, Continue
<1>4. QED
    BY Zenon, <1>2, <1>3

LEMMA InitStream == Init => NewestBytesInOrder
BY SMTT(30), PipeAssumption DEF Init, NewestBytesInOrder, Occupied, Wrapped

LEMMA NextStream == LockInv /\ NewestBytesInOrder /\ [Next]_vars => NewestBytesInOrder'
<1> SUFFICES ASSUME LockInv, NewestBytesInOrder, [Next]_vars PROVE NewestBytesInOrder'
    BY Zenon
<1>0. Occupied \in Nat /\ sent \in Nat
    BY SMTT(30), OccupiedFact, PipeAssumption DEF LockInv, TypeOK
<1>1. CASE UNCHANGED ring
    BY <1>1, Zenon DEF ring, NewestBytesInOrder, Occupied, Slot, Wrapped
<1>2. ASSUME NEW p \in Procs, ReadWrap(p) \/ WriteWrap(p) PROVE NewestBytesInOrder'
    BY SMTT(30), <1>0, <1>2, WrapKeepsWindow DEF NewestBytesInOrder
<1>3. ASSUME NEW p \in Procs, ReadCopy(p) PROVE NewestBytesInOrder'
  <2> DEFINE n == ReadCount(call[p].len)
  <2>1. rp \in 0..DEVSIZE-1 /\ wp \in 0..DEVSIZE-1 /\ rp # wp /\ call[p].len \in Nat
    BY <1>3, HolderFacts, Zenon DEF ReadCopy
  <2>2. n \in Nat /\ rp + n <= DEVSIZE /\ n <= Occupied
    BY Zenon, <2>1, ReadCountFact
  <2>3. rp' = rp + n /\ wp' = wp /\ buf' = buf /\ sent' = sent
    BY Zenon, <1>3 DEF ReadCopy
  <2> HIDE DEF n
  <2>4. /\ Occupied' = Occupied - n
        /\ \A k \in 0..Occupied-n-1 : Slot(k)' = Slot(k + n)
    BY Zenon, <2>1, <2>2, <2>3, ReadMovesWindow
  <2>5. ASSUME NEW k \in 0..Occupied'-1 PROVE buf'[Slot(k)'] = sent' - Occupied' + 1 + k
    <3>1. k + n \in 0..Occupied-1 /\ Slot(k)' = Slot(k + n)
      BY SMTT(30), <1>0, <2>2, <2>4, <2>5
    <3>2. buf[Slot(k + n)] = sent - Occupied + 1 + (k + n)
      BY Zenon, <3>1 DEF NewestBytesInOrder
    <3>3. QED
      BY SMTT(30), <1>0, <2>2, <2>3, <2>4, <3>1, <3>2
  <2>6. QED
    BY <2>5, Zenon DEF NewestBytesInOrder
<1>4. ASSUME NEW p \in Procs, WriteCopy(p) PROVE NewestBytesInOrder'
  <2> DEFINE n == WriteCount(call[p].len)
  <2>1. rp \in 0..DEVSIZE-1 /\ wp \in 0..DEVSIZE-1 /\ call[p].len \in Nat
    BY Zenon, <1>4, HolderFacts DEF WriteCopy
  <2>2. n \in Nat /\ wp + n <= DEVSIZE /\ Occupied + n <= DEVSIZE
    BY Zenon, <2>1, WriteCountFact
  <2>3. rp' = rp /\ wp' = wp + n /\ buf' = Store(wp, n) /\ sent' = sent + n
    BY Zenon, <1>4 DEF WriteCopy
  <2> HIDE DEF n
  <2>4. /\ Occupied' = IF Occupied + n = DEVSIZE THEN 0 ELSE Occupied + n
        /\ \A k \in Nat : Slot(k)' = Slot(k)
        /\ \A k \in 0..Occupied+n-1 :
             IF k < Occupied
               THEN Slot(k) \in (0..DEVSIZE-1) \ (wp .. wp+n-1)
               ELSE Slot(k) = wp + (k - Occupied) /\ Slot(k) \in wp .. wp+n-1
    BY Zenon, <2>1, <2>2, <2>3, WriteGrowsWindow
  <2>5. ASSUME NEW k \in 0..Occupied'-1 PROVE buf'[Slot(k)'] = sent' - Occupied' + 1 + k
    <3>1. Occupied' = Occupied + n /\ k \in 0..Occupied+n-1 /\ Slot(k)' = Slot(k)
      BY SMTT(30), <1>0, <2>2, <2>4, <2>5, PipeAssumption
    <3>2. CASE k < Occupied
      <4>1. buf[Slot(k)] = sent - Occupied + 1 + k
        BY SMTT(30), <1>0, <3>1, <3>2 DEF NewestBytesInOrder
      <4>2. buf'[Slot(k)] = buf[Slot(k)]
        BY Zenon, <2>3, <2>4, <3>1, <3>2 DEF Store
      <4>3. QED
        BY SMTT(30), <1>0, <2>2, <2>3, <3>1, <4>1, <4>2
    <3>3. CASE ~(k < Occupied)
      <4>1. Slot(k) = wp + (k - Occupied) /\ Slot(k) \in wp .. wp+n-1
        BY Zenon, <2>4, <3>1, <3>3
      <4>2. Slot(k) \in 0..DEVSIZE-1
        BY SMTT(30), <2>1, <2>2, <4>1, PipeAssumption
      <4>3. buf'[Slot(k)] = sent + 1 + (Slot(k) - wp)
        BY Zenon, <2>3, <4>1, <4>2 DEF Store
      <4>4. QED
        BY SMTT(30), <1>0, <2>1, <2>2, <2>3, <3>1, <4>1, <4>3
    <3>4. QED
      BY Zenon, <3>2, <3>3
  <2>6. QED
    BY Zenon, <2>5 DEF NewestBytesInOrder
<1>5. QED
    BY Zenon, <1>1, <1>2, <1>3, <1>4, StreamSteps

-----------------------------------------------------------------------------

LEMMA InitFifo == Init => Fifo!Init
BY SMTT(30), PipeAssumption DEF Init, Fifo!Init, Occupied, Wrapped

LEMMA NextFifo ==
    LockInv /\ NewestBytesInOrder /\ [Next]_vars => [Fifo!Next]_(Fifo!vars)
<1> SUFFICES ASSUME LockInv, NewestBytesInOrder, [Next]_vars
             PROVE  [Fifo!Next]_(Fifo!vars)
    BY Zenon
<1>0. Occupied \in 0..DEVSIZE-1 /\ sent \in Nat
    BY Zenon, OccupiedFact DEF LockInv, TypeOK
<1>1. CASE UNCHANGED <<ring, ubuf>>
    BY Zenon, <1>1 DEF ring, Fifo!vars, Occupied, Wrapped
<1>2. ASSUME NEW p \in Procs, UNCHANGED ring, ubuf' = [ubuf EXCEPT ![p] = <<>>]
      PROVE  Fifo!Next
  <2>1. UNCHANGED <<sent, Occupied>>
    BY Zenon, <1>2 DEF ring, Occupied, Wrapped
  <2>2. Fifo!Return(p)
    BY Zenon, <1>2, <2>1 DEF Fifo!Return
  <2>3. QED
    BY Zenon, <2>2 DEF Fifo!Next
<1>3. ASSUME NEW p \in Procs, ReadWrap(p) \/ WriteWrap(p) PROVE UNCHANGED Fifo!vars
    BY Zenon, <1>3, WrapKeepsWindow DEF Fifo!vars
<1>4. ASSUME NEW p \in Procs, ReadCopy(p) PROVE Fifo!Next
  <2> DEFINE n == ReadCount(call[p].len)
  <2>1. rp \in 0..DEVSIZE-1 /\ wp \in 0..DEVSIZE-1 /\ rp # wp /\ call[p].len \in Nat
    BY Zenon, <1>4, HolderFacts DEF ReadCopy
  <2>2. n \in Nat /\ rp + n <= DEVSIZE /\ n <= Occupied
    BY Zenon, <2>1, ReadCountFact
  <2>3. rp' = rp + n /\ wp' = wp /\ sent' = sent
    BY Zenon, <1>4 DEF ReadCopy
  <2>4. PICK done \in 0..n :
          /\ ~Faults => done = n
          /\ ubuf' = [ubuf EXCEPT ![p] = [i \in 1..done |-> buf[rp + i - 1]]]
    BY <1>4, Zenon DEF ReadCopy
  <2> HIDE DEF n
  <2>5. Occupied' = Occupied - n
    BY Zenon, <2>1, <2>2, <2>3, ReadMovesWindow
  <2>6. ASSUME NEW i \in 1..done
        PROVE  buf[rp + i - 1] = (sent - Occupied + 1) + i - 1
    <3>1. i - 1 \in 0..Occupied-1 /\ Slot(i - 1) = rp + i - 1
      BY SMTT(30), <1>0, <2>1, <2>2, <2>4, <2>6, PipeAssumption DEF Slot, Wrapped
    <3>2. QED
      BY Zenon, <1>0, <3>1 DEF NewestBytesInOrder
  <2>7. [i \in 1..done |-> buf[rp + i - 1]]
          = [i \in 1..done |-> (sent - Occupied + 1) + i - 1]
    BY Zenon, <2>6
  <2>8. Fifo!Read(p, n, done)
    <3>1. Fifo!Pending = Occupied
      BY SMTT(30), <1>0 DEF Fifo!Pending
    <3>2. (sent - Occupied + 1)' = (sent - Occupied + 1) + n
      BY SMTT(30), <1>0, <2>2, <2>3, <2>5
    <3>3. ubuf' = [ubuf EXCEPT ![p] = [i \in 1..done |-> (sent - Occupied + 1) + i - 1]]
      BY <2>4, <2>7, Zenon
    <3>4. done <= n
      BY SMTT(30), <2>2, <2>4
    <3>5. QED
      BY <2>2, <2>3, <2>4, <3>1, <3>2, <3>3, <3>4, Zenon DEF Fifo!Read
  <2>9. n \in 0..DEVSIZE /\ done \in 0..DEVSIZE
    BY SMTT(30), <1>0, <2>2, <2>4, PipeAssumption
  <2>10. QED
    BY Zenon, <2>8, <2>9 DEF Fifo!Next
<1>5. ASSUME NEW p \in Procs, WriteCopy(p) PROVE Fifo!Next
  <2> DEFINE n == WriteCount(call[p].len)
  <2>1. rp \in 0..DEVSIZE-1 /\ wp \in 0..DEVSIZE-1 /\ call[p].len \in Nat
    BY Zenon, <1>5, HolderFacts DEF WriteCopy
  <2>2. n \in Nat /\ wp + n <= DEVSIZE /\ Occupied + n <= DEVSIZE
    BY Zenon, <2>1, WriteCountFact
  <2>3. rp' = rp /\ wp' = wp + n /\ sent' = sent + n /\ ubuf' = ubuf
    BY Zenon, <1>5 DEF WriteCopy, Continue
  <2> HIDE DEF n
  <2>4. Occupied' = IF Occupied + n = DEVSIZE THEN 0 ELSE Occupied + n
    BY Zenon, <2>1, <2>2, <2>3, WriteGrowsWindow
  <2>5. Fifo!Write(n)
    BY SMTT(30), <1>0, <2>2, <2>3, <2>4, PipeAssumption DEF Fifo!Write, Fifo!Pending
  <2>6. n \in 0..DEVSIZE
    BY SMTT(30), <1>0, <2>2, PipeAssumption
  <2>7. QED
    BY Zenon, <2>5, <2>6 DEF Fifo!Next
<1>6. QED
    BY Zenon, <1>1, <1>2, <1>3, <1>4, <1>5, StreamSteps

-----------------------------------------------------------------------------

\* A process is on a wait queue only inside the loop that waits on it, and a
\* file is on the asynchronous queue only while it is open.
QueueInv ==
    /\ \A p \in inq : pc[p] \in {"r_load", "r_cmp_wp", "r_cmp_rp", "r_sleep"}
    /\ \A p \in outq : pc[p] \in {"w_check", "w_sleep"}
    /\ \A p \in pollq : pc[p] \in {"p_crit", "p_sleep", "p_again"}
    /\ AsyncQueueOpen

\* A process goes to a label and onto no queue but its own; nobody else is
\* put on one.
Queueing(p, label) ==
    /\ pc' = [pc EXCEPT ![p] = label]
    /\ inq' \subseteq inq \cup {p} /\ outq' \subseteq outq \cup {p}
    /\ pollq' \subseteq pollq \cup {p} /\ fasync' \subseteq fasync \cup {p}
    /\ p \in inq' => label \in {"r_load", "r_cmp_wp", "r_cmp_rp", "r_sleep"}
    /\ p \in outq' => label \in {"w_check", "w_sleep"}
    /\ p \in pollq' => label \in {"p_crit", "p_sleep", "p_again"}
    /\ label = "closed" => p \notin fasync'

LEMMA InitQueue == Init => QueueInv
BY Zenon DEF Init, QueueInv, AsyncQueueOpen

LEMMA QueueingStep ==
    ASSUME TypeOK, QueueInv, NEW p \in Procs, NEW label, Queueing(p, label)
    PROVE  QueueInv'
<1>1. pc \in [Procs -> Labels] /\ inq \subseteq Procs /\ outq \subseteq Procs
      /\ pollq \subseteq Procs /\ fasync \subseteq Procs
    BY Zenon DEF TypeOK
<1>2. pc'[p] = label /\ \A q \in Procs : q # p => pc'[q] = pc[q]
    BY Zenon, <1>1 DEF Queueing
<1>3. \A q \in inq' : pc'[q] \in {"r_load", "r_cmp_wp", "r_cmp_rp", "r_sleep"}
    BY Zenon, <1>1, <1>2 DEF Queueing, QueueInv
<1>4. \A q \in outq' : pc'[q] \in {"w_check", "w_sleep"}
    BY Zenon, <1>1, <1>2 DEF Queueing, QueueInv
<1>5. \A q \in pollq' : pc'[q] \in {"p_crit", "p_sleep", "p_again"}
    BY Zenon, <1>1, <1>2 DEF Queueing, QueueInv
<1>6. \A q \in fasync' : pc'[q] # "closed"
    BY Zenon, <1>1, <1>2 DEF Queueing, QueueInv, AsyncQueueOpen
<1>7. QED
    BY Zenon, <1>3, <1>4, <1>5, <1>6 DEF QueueInv, AsyncQueueOpen

LEMMA NextQueue == TypeOK /\ QueueInv /\ [Next]_vars => QueueInv'
<1> SUFFICES ASSUME TypeOK, QueueInv, [Next]_vars PROVE QueueInv'
    BY Zenon
<1> USE DEF queues, Goto, Continue, Return
<1>1. CASE UNCHANGED vars
    BY Zenon, <1>1 DEF vars, QueueInv, AsyncQueueOpen
<1>2. ASSUME NEW p \in Procs, \E label : Queueing(p, label) PROVE QueueInv'
    BY Zenon, <1>2, QueueingStep
<1>3. ASSUME NEW p \in Procs
      PROVE  /\ p \in inq => pc[p] \in {"r_load", "r_cmp_wp", "r_cmp_rp", "r_sleep"}
             /\ p \in outq => pc[p] \in {"w_check", "w_sleep"}
             /\ p \in pollq => pc[p] \in {"p_crit", "p_sleep", "p_again"}
    BY Zenon DEF QueueInv
<1>4. ASSUME NEW p \in Procs, Signal(p) PROVE QueueInv'
    BY Zenon, <1>4 DEF Signal, QueueInv, AsyncQueueOpen
<1>5. ASSUME NEW p \in Procs, Call(p) PROVE QueueInv'
  <2>1. ASSUME NEW mode \in BOOLEAN, Fasync(p, mode) PROVE Queueing(p, "idle")
    BY Zenon, <1>3, <2>1 DEF Fasync, Queueing, TypeOK
  <2>2. Open(p) => Queueing(p, "idle")
    BY Zenon, <1>3 DEF Open, Queueing
  <2>3. Close(p) => Queueing(p, "closed")
    BY Zenon, <1>3 DEF Close, Queueing
  <2>4. ASSUME NEW use, NEW label \in {"r_down", "w_down", "p_down"}, NEW len, NEW nb,
               Start(p, use, label, len, nb)
        PROVE  Queueing(p, label)
    BY Zenon, <1>3, <2>4 DEF Start, Queueing
  <2>5. QED
    BY Zenon, <1>2, <1>5, <2>1, <2>2, <2>3, <2>4 DEF Call, Use
<1>6. ASSUME NEW p \in Procs, Acquire(p) PROVE QueueInv'
  <2>1. ReadDown(p) => Queueing(p, "r_crit")
    BY Zenon, <1>3 DEF ReadDown, Down, Queueing
  <2>2. WriteDown(p) => Queueing(p, "w_crit")
    BY Zenon, <1>3 DEF WriteDown, Down, Queueing
  <2>3. PollDown(p) => Queueing(p, "p_queue") \/ Queueing(p, "p_crit")
    BY Zenon, <1>3 DEF PollDown, Down, Queueing
  <2>4. QED
    BY Zenon, <1>2, <1>6, <2>1, <2>2, <2>3 DEF Acquire
<1>7. ASSUME NEW p \in Procs,
             \/ ReadAgain(p) \/ ReadBlock(p) \/ ReadFast(p) \/ ReadPrepare(p)
             \/ ReadLoad(p) \/ ReadCompare(p) \/ ReadCopy(p) \/ ReadWrap(p) \/ ReadWake(p)
      PROVE  QueueInv'
  <2>1. ReadAgain(p) \/ ReadWake(p) => Queueing(p, "idle")
    BY Zenon, <1>3 DEF ReadAgain, ReadWake, Queueing
  <2>2. ReadBlock(p) => Queueing(p, "r_wait")
    BY Zenon, <1>3 DEF ReadBlock, Queueing
  <2>3. ReadFast(p) => Queueing(p, "r_down")
    BY Zenon, <1>3 DEF ReadFast, Queueing
  <2>4. ReadPrepare(p) => Queueing(p, "r_load")
    BY Zenon, <1>3 DEF ReadPrepare, Queueing
  <2>5. ReadLoad(p) => Queueing(p, "r_cmp_wp") \/ Queueing(p, "r_cmp_rp")
    BY Zenon, <1>3 DEF ReadLoad, Queueing
  <2>6. ReadCompare(p) =>
            Queueing(p, "r_down") \/ Queueing(p, "idle") \/ Queueing(p, "r_sleep")
    BY Zenon, <1>3 DEF ReadCompare, Queueing
  <2>7. ReadCopy(p) => Queueing(p, "r_wrap")
    BY Zenon, <1>3 DEF ReadCopy, Queueing
  <2>8. ReadWrap(p) => Queueing(p, "r_wake")
    BY Zenon, <1>3 DEF ReadWrap, Queueing
  <2>9. QED
    BY Zenon, <1>2, <1>7, <2>1, <2>2, <2>3, <2>4, <2>5, <2>6, <2>7, <2>8
<1>8. ASSUME NEW p \in Procs,
             \/ WriteAgain(p) \/ WriteBlock(p) \/ WritePrepare(p) \/ WriteCheck(p)
             \/ WriteWoken(p) \/ WriteCopy(p) \/ WriteWrap(p) \/ WriteWake(p) \/ WriteSigio(p)
      PROVE  QueueInv'
  <2>1. WriteAgain(p) \/ WriteSigio(p) => Queueing(p, "idle")
    BY Zenon, <1>3 DEF WriteAgain, WriteSigio, Queueing
  <2>2. WriteBlock(p) => Queueing(p, "w_wait")
    BY Zenon, <1>3 DEF WriteBlock, Queueing
  <2>3. WritePrepare(p) => Queueing(p, "w_check")
    BY Zenon, <1>3 DEF WritePrepare, Queueing
  <2>4. WriteCheck(p) => Queueing(p, "w_sleep")
    BY Zenon, <1>3 DEF WriteCheck, Queueing
  <2>5. WriteWoken(p) => Queueing(p, "idle") \/ Queueing(p, "w_down")
    BY Zenon, <1>3 DEF WriteWoken, Queueing
  <2>6. WriteCopy(p) => Queueing(p, "w_wrap")
    BY Zenon, <1>3 DEF WriteCopy, Queueing
  <2>7. WriteWrap(p) => Queueing(p, "w_wake")
    BY Zenon, <1>3 DEF WriteWrap, Queueing
  <2>8. WriteWake(p) => Queueing(p, "w_sigio")
    BY Zenon, <1>3 DEF WriteWake, Queueing
  <2>9. QED
    BY Zenon, <1>2, <1>8, <2>1, <2>2, <2>3, <2>4, <2>5, <2>6, <2>7, <2>8
<1>9. ASSUME NEW p \in Procs,
             DownInterrupted(p) \/ PollQueue(p) \/ PollCheck(p) \/ PollWoken(p)
      PROVE  QueueInv'
  <2>1. DownInterrupted(p) => Queueing(p, "idle")
    BY Zenon, <1>3 DEF DownInterrupted, Queueing
  <2>2. PollQueue(p) => Queueing(p, "p_crit")
    BY Zenon, <1>3 DEF PollQueue, Queueing
  <2>3. PollCheck(p) => Queueing(p, "idle") \/ Queueing(p, "p_sleep")
    BY Zenon, <1>3 DEF PollCheck, Queueing
  <2>4. PollWoken(p) => Queueing(p, "p_again")
    BY Zenon, <1>3 DEF PollWoken, Queueing
  <2>5. QED
    BY Zenon, <1>2, <1>9, <2>1, <2>2, <2>3, <2>4
<1>10. QED
    BY Zenon, <1>1, <1>4, <1>5, <1>6, <1>7, <1>8, <1>9 DEF Next, Handler

-----------------------------------------------------------------------------

\* Between open and release, whatever a process does leaves its file open and
\* the others where they are.
LEMMA StaysOpen ==
    ASSUME NEW p \in Procs, pc \in [Procs -> Labels],
           Use(p) \/ Signal(p) \/ Acquire(p) \/ Handler(p)
    PROVE  /\ pc[p] # "closed"
           /\ \E label \in Labels \ {"closed"} : pc' = [pc EXCEPT ![p] = label]
<1> USE DEF Labels, ReadLabels, WriteLabels, PollLabels, Goto, Continue, Return
<1>1. CASE Use(p) \/ Signal(p)
  <2>1. pc[p] # "closed" /\ (UNCHANGED pc \/ pc' = [pc EXCEPT ![p] = "r_down"]
          \/ pc' = [pc EXCEPT ![p] = "w_down"] \/ pc' = [pc EXCEPT ![p] = "p_down"])
    BY Zenon, <1>1 DEF Use, Signal, Fasync, Start
  <2>2. UNCHANGED pc => pc' = [pc EXCEPT ![p] = pc[p]]
    BY Zenon
  <2>3. QED
    BY Zenon, <2>1, <2>2
<1>2. CASE Acquire(p)
    BY Zenon, <1>2 DEF Acquire, ReadDown, WriteDown, PollDown, Down
<1>3. CASE Handler(p)
    BY Zenon, <1>3 DEF Handler, DownInterrupted, ReadAgain, ReadBlock, ReadFast, ReadPrepare, ReadLoad,
                ReadCompare, ReadCopy, ReadWrap, ReadWake, WriteAgain, WriteBlock, WritePrepare,
                WriteCheck, WriteWoken, WriteCopy, WriteWrap, WriteWake, WriteSigio, PollQueue,
                PollCheck, PollWoken
<1>4. QED
    BY Zenon, <1>1, <1>2, <1>3

LEMMA LockInvariant == Spec => []LockInv
BY InitLock, NextLock, PTL DEF Spec

LEMMA StreamInvariant == Spec => []NewestBytesInOrder
BY LockInvariant, InitStream, NextStream, PTL DEF Spec

\* Every variable of the driver keeps its type: in particular the pointers
\* never leave the buffer, whatever lengths programs pass.
THEOREM PipeTypeCorrect == Spec => []TypeOK
<1>1. LockInv => TypeOK
    BY Zenon DEF LockInv
<1>2. QED
    BY <1>1, LockInvariant, PTL

\* No handler path of sdev_read, sdev_write or sdev_poll leaks the semaphore
\* or enters the ring without it.
THEOREM PipeSemaphoreCorrect == Spec => []SemaphoreDiscipline
<1>1. LockInv => SemaphoreDiscipline
    BY Zenon DEF LockInv
<1>2. QED
    BY <1>1, LockInvariant, PTL

\* No wake-up is lost between sdev_write and a sleeping reader or poller.
THEOREM PipeLosesNoWakeup == Spec => []NoLostWakeup
<1>1. WakeInv => NoLostWakeup
    BY Zenon DEF WakeInv, NoLostWakeup, Dozing, Outdated
<1>2. Spec => []WakeInv
    BY LockInvariant, InitWake, NextWake, PTL DEF Spec
<1>3. QED
    BY <1>1, <1>2, PTL

\* sdev_close leaves nothing behind on the asynchronous queue, and nobody is
\* on a wait queue outside the loop that waits on it.
THEOREM PipeQueuesCorrect == Spec => [](QueueInv /\ AsyncQueueOpen)
<1>1. QueueInv => AsyncQueueOpen
    BY Zenon DEF QueueInv
<1>2. LockInv => TypeOK
    BY Zenon DEF LockInv
<1>3. Spec => []QueueInv
    BY <1>2, LockInvariant, InitQueue, NextQueue, PTL DEF Spec
<1>4. QED
    BY <1>1, <1>3, PTL

\* The bytes between rp and wp are the newest ones, in order.
THEOREM PipeKeepsOrder == Spec => []NewestBytesInOrder
BY Zenon, StreamInvariant

\* The driver's ring is a lossy FIFO, for every size and every length.
THEOREM PipeImplementsFifo == Spec => ImplementsFifo
<1>1. Spec => Fifo!Init /\ [][Fifo!Next]_(Fifo!vars)
    BY InitFifo, NextFifo, LockInvariant, StreamInvariant, PTL DEF Spec
<1>2. QED
    BY Zenon, <1>1 DEF ImplementsFifo, Fifo!Spec
=============================================================================
