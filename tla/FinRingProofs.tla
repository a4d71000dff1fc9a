---------------------------- MODULE FinRingProofs ----------------------------
(***************************************************************************)
(* Proofs about the blocking ring, for every ring size, set of lengths and *)
(* number of processes.  LockInv carries mutual exclusion and the places   *)
(* of the pointers, on it rest the contents of the ring and the refinement *)
(* of the lossy FIFO.  WakeInv shows why a single reader is safe with the  *)
(* ordered comparison of have_read: while it waits, rp stands still.       *)
(***************************************************************************)
EXTENDS FinRing, SequenceTheorems, TLAPS

\* A pointer stands at the end of the buffer only until the handler that
\* advanced it has wrapped it.
Pointers ==
    /\ rp = SSIZE => \E p \in Procs : pc[p] = "r_wrap"
    /\ wp = SSIZE => \E p \in Procs : pc[p] = "w_wrap"

LockInv == TypeOK /\ SemaphoreDiscipline /\ Pointers

LEMMA InitLock == Init => LockInv
BY SMTT(30), FinAssumption
   DEF Init, LockInv, TypeOK, SemaphoreDiscipline, Pointers, Holding, Labels

LEMMA HolderFacts ==
    ASSUME LockInv, NEW p \in Procs, pc[p] \in {"r_crit", "w_crit"}
    PROVE  rp \in 0..SSIZE-1 /\ wp \in 0..SSIZE-1 /\ len[p] \in Nat
BY SMTT(30), FinAssumption DEF LockInv, TypeOK, SemaphoreDiscipline, Pointers, Holding

LEMMA OccupiedFact ==
    ASSUME rp \in 0..SSIZE, wp \in 0..SSIZE
    PROVE  /\ Occupied \in 0..SSIZE-1
           /\ rp < SSIZE /\ wp < SSIZE =>
                Occupied = IF wp >= rp THEN wp - rp ELSE wp - rp + SSIZE
BY SMTT(30), FinAssumption DEF Occupied, Wrapped

ReadCount(n) == Min(Min(have_read(rp, wp), n), SSIZE - rp)

\* A read takes bytes that are there and does not run past the end.
LEMMA ReadCountFact ==
    ASSUME rp \in 0..SSIZE-1, wp \in 0..SSIZE-1, NEW n \in Nat
    PROVE  ReadCount(n) \in Nat /\ rp + ReadCount(n) <= SSIZE /\ ReadCount(n) <= Occupied
<1>1. have_read(rp, wp) \in Nat /\ have_read(rp, wp) <= Occupied
    BY SMTT(30), FinAssumption, OccupiedFact DEF have_read
<1>2. QED
    BY SMTT(30), <1>1, FinAssumption, OccupiedFact DEF ReadCount, Min

LEMMA WriteCountFact ==
    ASSUME wp \in 0..SSIZE-1, NEW n \in Nat
    PROVE  WriteCount(n) \in Nat /\ wp + WriteCount(n) <= SSIZE
BY SMTT(30), FinAssumption DEF WriteCount, Min

LEMMA PrefixIsSeq ==
    ASSUME NEW n \in Nat, NEW f \in [1..n -> Nat]
    PROVE  f \in Seq(Nat)
BY Zenon, SeqDef

-----------------------------------------------------------------------------
\* Mutual exclusion: a process moves outside the critical section, enters
\* it when it is empty, moves inside it, or leaves it.

Step(p, label) ==
    /\ pc' = [pc EXCEPT ![p] = label]
    /\ \/ pc[p] \notin Holding /\ label \notin Holding /\ sem' = sem
       \/ pc[p] \notin Holding /\ label \in Holding /\ sem = 1 /\ sem' = 0
       \/ pc[p] \in Holding /\ label \in Holding /\ sem' = sem
       \/ pc[p] \in Holding /\ label \notin Holding /\ sem' = 1

LEMMA StepDiscipline ==
    ASSUME LockInv, NEW p \in Procs, NEW label \in Labels, Step(p, label)
    PROVE  SemaphoreDiscipline' /\ sem' \in {0, 1} /\ pc' \in [Procs -> Labels]
<1>1. \A q \in Procs : pc'[q] = IF q = p THEN label ELSE pc[q]
    BY Zenon DEF Step, LockInv, TypeOK
<1>2. sem' \in {0, 1} /\ pc' \in [Procs -> Labels]
    BY Zenon DEF Step, LockInv, TypeOK
<1>3. SemaphoreDiscipline'
  <2>1. CASE pc[p] \notin Holding /\ label \notin Holding /\ sem' = sem
    BY Zenon, <1>1, <2>1 DEF LockInv, SemaphoreDiscipline
  <2>2. CASE pc[p] \notin Holding /\ label \in Holding /\ sem = 1 /\ sem' = 0
    BY SMTT(30), <1>1, <2>2 DEF LockInv, SemaphoreDiscipline
  <2>3. CASE pc[p] \in Holding /\ label \in Holding /\ sem' = sem
    BY Zenon, <1>1, <2>3 DEF LockInv, SemaphoreDiscipline
  <2>4. CASE pc[p] \in Holding /\ label \notin Holding /\ sem' = 1
    BY Zenon, <1>1, <2>4 DEF LockInv, SemaphoreDiscipline
  <2>5. QED
    BY Zenon, <2>1, <2>2, <2>3, <2>4 DEF Step
<1>4. QED
    BY Zenon, <1>2, <1>3

\* The private variables of the handlers keep their types.
Private ==
    /\ waitq' \subseteq Procs
    /\ len' \in [Procs -> Nat]
    /\ seen' \in [Procs -> 0..SSIZE]
    /\ ubuf' \in [Procs -> Seq(Nat)]

LEMMA ReturnPrivate ==
    ASSUME TypeOK, NEW p \in Procs, waitq' \subseteq Procs,
           \/ Return(p)
           \/ UNCHANGED <<len, seen, ubuf>>
    PROVE  Private
<1>1. <<>> \in Seq(Nat) /\ 0 \in Nat /\ 0 \in 0..SSIZE
    BY SMTT(30), FinAssumption
<1>2. QED
    BY ZenonT(30), <1>1 DEF TypeOK, Return, Private

\* A step that leaves the ring alone and does not leave a wrap undone.
LEMMA QuietLock ==
    ASSUME LockInv, NEW p \in Procs, NEW label \in Labels, Step(p, label), Private,
           UNCHANGED ring, pc[p] \notin {"r_wrap", "w_wrap"}
    PROVE  LockInv'
<1>1. SemaphoreDiscipline' /\ sem' \in {0, 1} /\ pc' \in [Procs -> Labels]
    BY Zenon, StepDiscipline
<1>2. TypeOK'
    BY Zenon, <1>1 DEF LockInv, TypeOK, Private, ring
<1>3. Pointers'
    BY Zenon DEF LockInv, TypeOK, Pointers, Step, ring
<1>4. QED
    BY Zenon, <1>1, <1>2, <1>3 DEF LockInv

\* The steps of a process outside the ring, or on its way in or out.
AroundTheRing(p) ==
    \/ Call(p) \/ Acquire(p) \/ DownInterrupted(p)
    \/ ReadBlock(p) \/ ReadFast(p) \/ ReadPrepare(p) \/ ReadLoad(p) \/ ReadCompare(p)
    \/ WriteWake(p)

LEMMA AroundLock ==
    ASSUME LockInv, NEW p \in Procs, AroundTheRing(p)
    PROVE  LockInv' /\ UNCHANGED ring
<1> USE DEF Labels, ReadLabels, WriteLabels, Holding, Goto, Continue, ring
<1>0. waitq \subseteq Procs /\ rp \in 0..SSIZE /\ wp \in 0..SSIZE /\ TypeOK
    BY Zenon DEF LockInv, TypeOK
<1>1. CASE Call(p)
  <2>1. PICK n \in Lens : Start(p, "read", "r_down", n) \/ Start(p, "write", "w_down", n)
    BY <1>1, Zenon DEF Call
  <2>2. n \in Nat
    BY Zenon, FinAssumption
  <2>3. Private
    BY ZenonT(30), <1>0, <2>1, <2>2 DEF Start, Private, TypeOK
  <2>4. PICK label \in {"r_down", "w_down"} : Step(p, label)
    BY Zenon, <2>1 DEF Start, Step
  <2>5. QED
    BY Zenon, <2>1, <2>3, <2>4, QuietLock DEF Start
<1>2. CASE Acquire(p)
  <2>1. PICK label \in {"r_crit", "w_crit"}, from \in {"r_down", "w_down"} : Down(p, from, label)
    BY <1>2, Zenon DEF Acquire, ReadDown, WriteDown
  <2>2. Private
    BY Zenon, <1>0, <2>1, ReturnPrivate DEF Down
  <2>3. Step(p, label)
    BY Zenon, <2>1 DEF Down, Step
  <2>4. QED
    BY Zenon, <2>1, <2>2, <2>3, QuietLock DEF Down
<1>3. CASE DownInterrupted(p)
  <2>1. Private
    BY Zenon, <1>0, <1>3, ReturnPrivate DEF DownInterrupted
  <2>2. Step(p, "idle")
    BY Zenon, <1>3 DEF DownInterrupted, Return, Step
  <2>3. QED
    BY Zenon, <1>3, <2>1, <2>2, QuietLock DEF DownInterrupted
<1>4. CASE ReadBlock(p)
  <2>1. Private
    BY Zenon, <1>0, <1>4, ReturnPrivate DEF ReadBlock
  <2>2. Step(p, "r_wait")
    BY Zenon, <1>4 DEF ReadBlock, Step
  <2>3. QED
    BY Zenon, <1>4, <2>1, <2>2, QuietLock DEF ReadBlock
<1>5. CASE ReadFast(p)
  <2>1. Private
    BY Zenon, <1>0, <1>5, ReturnPrivate DEF ReadFast
  <2>2. Step(p, "r_down")
    BY Zenon, <1>5 DEF ReadFast, Step
  <2>3. QED
    BY Zenon, <1>5, <2>1, <2>2, QuietLock DEF ReadFast
<1>6. CASE ReadPrepare(p)
  <2>1. Private
    BY Zenon, <1>0, <1>6, ReturnPrivate DEF ReadPrepare
  <2>2. Step(p, "r_load")
    BY Zenon, <1>6 DEF ReadPrepare, Step
  <2>3. QED
    BY Zenon, <1>6, <2>1, <2>2, QuietLock DEF ReadPrepare
<1>7. CASE ReadLoad(p)
  <2>1. Private
    BY ZenonT(30), <1>0, <1>7 DEF ReadLoad, Private, TypeOK
  <2>2. PICK label \in {"r_cmp_wp", "r_cmp_rp"} : Step(p, label)
    BY Zenon, <1>7 DEF ReadLoad, Step
  <2>3. QED
    BY Zenon, <1>7, <2>1, <2>2, QuietLock DEF ReadLoad
<1>8. CASE ReadCompare(p)
  <2>1. Private
    BY Zenon, <1>0, <1>8, ReturnPrivate DEF ReadCompare
  <2>2. PICK label \in {"r_down", "r_sleep"} : Step(p, label)
    BY Zenon, <1>8 DEF ReadCompare, Step
  <2>3. QED
    BY Zenon, <1>8, <2>1, <2>2, QuietLock DEF ReadCompare
<1>9. CASE WriteWake(p)
  <2>1. Private
    BY Zenon, <1>0, <1>9, ReturnPrivate DEF WriteWake
  <2>2. Step(p, "idle")
    BY Zenon, <1>9 DEF WriteWake, Return, Step
  <2>3. QED
    BY Zenon, <1>9, <2>1, <2>2, QuietLock DEF WriteWake
<1>10. QED
    BY Zenon, <1>1, <1>2, <1>3, <1>4, <1>5, <1>6, <1>7, <1>8, <1>9 DEF AroundTheRing

-----------------------------------------------------------------------------
\* The steps inside the ring.

LEMMA ReadCopyStep ==
    ASSUME LockInv, NEW p \in Procs, ReadCopy(p)
    PROVE  \E n \in Nat, done \in Nat :
             /\ n <= Occupied /\ rp + n <= SSIZE /\ done <= n /\ (~Faults => done = n)
             /\ rp \in 0..SSIZE-1 /\ wp \in 0..SSIZE-1
             /\ rp' = rp + n /\ UNCHANGED <<wp, buf, sent>>
             /\ ubuf' = [ubuf EXCEPT ![p] = [i \in 1..done |-> buf[rp + i - 1]]]
<1>1. rp \in 0..SSIZE-1 /\ wp \in 0..SSIZE-1 /\ len[p] \in Nat
    BY Zenon, HolderFacts DEF ReadCopy
<1> DEFINE n == ReadCount(len[p])
<1>2. n \in Nat /\ n <= Occupied /\ rp + n <= SSIZE
    BY Zenon, <1>1, ReadCountFact
<1>3. /\ rp' = rp + n /\ UNCHANGED <<wp, buf, sent>>
      /\ \E done \in 0..n :
           /\ ~Faults => done = n
           /\ ubuf' = [ubuf EXCEPT ![p] = [i \in 1..done |-> buf[rp + i - 1]]]
    BY Zenon DEF ReadCopy, ReadCount
<1> HIDE DEF n
<1>4. PICK done \in 0..n :
           /\ ~Faults => done = n
           /\ ubuf' = [ubuf EXCEPT ![p] = [i \in 1..done |-> buf[rp + i - 1]]]
    BY Zenon, <1>3
<1>5. done \in Nat /\ done <= n
    BY SMTT(30), <1>2
<1>6. QED
    BY Zenon, <1>1, <1>2, <1>3, <1>4, <1>5

LEMMA WriteCopyStep ==
    ASSUME LockInv, NEW p \in Procs, WriteCopy(p)
    PROVE  \E n \in Nat :
             /\ rp \in 0..SSIZE-1 /\ wp \in 0..SSIZE-1 /\ wp + n <= SSIZE
             /\ wp' = wp + n /\ sent' = sent + n /\ buf' = Store(n)
             /\ UNCHANGED <<rp, ubuf>>
<1>1. rp \in 0..SSIZE-1 /\ wp \in 0..SSIZE-1 /\ len[p] \in Nat
    BY Zenon, HolderFacts DEF WriteCopy
<1> DEFINE n == WriteCount(len[p])
<1>2. n \in Nat /\ wp + n <= SSIZE
    BY Zenon, <1>1, WriteCountFact
<1>3. wp' = wp + n /\ sent' = sent + n /\ buf' = Store(n) /\ UNCHANGED <<rp, ubuf>>
    BY Zenon DEF WriteCopy, Continue
<1> HIDE DEF n
<1>4. QED
    BY Zenon, <1>1, <1>2, <1>3

LEMMA WrapStep ==
    ASSUME LockInv, NEW p \in Procs, ReadWrap(p) \/ WriteWrap(p)
    PROVE  /\ rp' = Wrapped(rp) /\ wp' = Wrapped(wp) /\ UNCHANGED <<buf, sent>>
           /\ rp' \in 0..SSIZE-1 /\ wp' \in 0..SSIZE-1
<1>1. ReadWrap(p) => wp # SSIZE
    BY Zenon DEF ReadWrap, LockInv, TypeOK, SemaphoreDiscipline, Pointers, Holding
<1>2. WriteWrap(p) => rp # SSIZE
    BY Zenon DEF WriteWrap, LockInv, TypeOK, SemaphoreDiscipline, Pointers, Holding
<1>3. QED
    BY SMTT(30), <1>1, <1>2, FinAssumption DEF ReadWrap, WriteWrap, Wrapped, LockInv, TypeOK

LEMMA InsideLock ==
    ASSUME LockInv, NEW p \in Procs,
           ReadCopy(p) \/ ReadWrap(p) \/ WriteCopy(p) \/ WriteWrap(p)
    PROVE  LockInv'
<1> USE DEF Goto, Continue
<1>0. waitq \subseteq Procs /\ TypeOK /\ sent \in Nat /\ buf \in [0..SSIZE-1 -> Nat]
    BY Zenon DEF LockInv, TypeOK
<1>1. CASE ReadCopy(p)
  <2>1. Step(p, "r_wrap")
    BY Zenon, <1>1 DEF ReadCopy, Step, Holding
  <2>2. SemaphoreDiscipline' /\ sem' \in {0, 1} /\ pc' \in [Procs -> Labels]
    BY Zenon, <2>1, StepDiscipline DEF Labels, ReadLabels
  <2>3. PICK n \in Nat, done \in Nat :
             /\ n <= Occupied /\ rp + n <= SSIZE /\ done <= n
             /\ rp \in 0..SSIZE-1 /\ wp \in 0..SSIZE-1
             /\ rp' = rp + n /\ UNCHANGED <<wp, buf, sent>>
             /\ ubuf' = [ubuf EXCEPT ![p] = [i \in 1..done |-> buf[rp + i - 1]]]
    BY Zenon, <1>1, ReadCopyStep
  <2>4. [i \in 1..done |-> buf[rp + i - 1]] \in Seq(Nat)
    <3>1. \A i \in 1..done : rp + i - 1 \in 0..SSIZE-1
        BY SMTT(30), <2>3, FinAssumption
    <3>2. [i \in 1..done |-> buf[rp + i - 1]] \in [1..done -> Nat]
        BY Zenon, <1>0, <3>1
    <3>3. QED
        BY Zenon, <3>2, PrefixIsSeq
  <2>5. rp' \in 0..SSIZE /\ wp' \in 0..SSIZE-1 /\ wp' # SSIZE
    BY SMTT(30), <2>3, FinAssumption
  <2>6. TypeOK'
    <3>1. ubuf' \in [Procs -> Seq(Nat)]
        BY Zenon, <1>0, <2>3, <2>4 DEF TypeOK
    <3>2. UNCHANGED <<waitq, len, seen>>
        BY Zenon, <1>1 DEF ReadCopy
    <3>3. QED
        BY Zenon, <1>0, <2>2, <2>3, <2>5, <3>1, <3>2, FinAssumption DEF TypeOK
  <2>7. Pointers'
    BY Zenon, <1>0, <2>1, <2>5 DEF Step, Pointers, TypeOK
  <2>8. QED
    BY Zenon, <2>2, <2>6, <2>7 DEF LockInv
<1>2. CASE WriteCopy(p)
  <2>1. Step(p, "w_wrap")
    BY Zenon, <1>2 DEF WriteCopy, Step, Holding
  <2>2. SemaphoreDiscipline' /\ sem' \in {0, 1} /\ pc' \in [Procs -> Labels]
    BY Zenon, <2>1, StepDiscipline DEF Labels, WriteLabels
  <2>3. PICK n \in Nat :
             /\ rp \in 0..SSIZE-1 /\ wp \in 0..SSIZE-1 /\ wp + n <= SSIZE
             /\ wp' = wp + n /\ sent' = sent + n /\ buf' = Store(n)
             /\ UNCHANGED <<rp, ubuf>>
    BY Zenon, <1>2, WriteCopyStep
  <2>4. wp' \in 0..SSIZE /\ rp' \in 0..SSIZE-1 /\ rp' # SSIZE /\ sent' \in Nat
    BY SMTT(30), <1>0, <2>3, FinAssumption
  <2>5. buf' \in [0..SSIZE-1 -> Nat]
    BY SMTT(30), <1>0, <2>3 DEF Store
  <2>6. TypeOK'
    BY Zenon, <1>0, <1>2, <2>2, <2>4, <2>5, FinAssumption DEF TypeOK, WriteCopy
  <2>7. Pointers'
    BY Zenon, <1>0, <2>1, <2>4 DEF Step, Pointers, TypeOK
  <2>8. QED
    BY Zenon, <2>2, <2>6, <2>7 DEF LockInv
<1>3. CASE ReadWrap(p) \/ WriteWrap(p)
  <2>1. PICK label \in {"idle", "w_wake"} : Step(p, label)
    BY Zenon, <1>3 DEF ReadWrap, WriteWrap, Return, Step, Holding
  <2>2. SemaphoreDiscipline' /\ sem' \in {0, 1} /\ pc' \in [Procs -> Labels]
    BY Zenon, <2>1, StepDiscipline DEF Labels, WriteLabels
  <2>3. Private
    <3>1. Return(p) \/ UNCHANGED <<len, seen, ubuf>>
        BY Zenon, <1>3 DEF ReadWrap, WriteWrap
    <3>2. waitq' \subseteq Procs
        BY Zenon, <1>0, <1>3 DEF ReadWrap, WriteWrap
    <3>3. QED
        BY Zenon, <1>0, <3>1, <3>2, ReturnPrivate
  <2>4. rp' \in 0..SSIZE-1 /\ wp' \in 0..SSIZE-1 /\ UNCHANGED <<buf, sent>>
    BY Zenon, <1>3, WrapStep
  <2>5. /\ rp' \in 0..SSIZE /\ wp' \in 0..SSIZE /\ rp' # SSIZE /\ wp' # SSIZE
        /\ buf' \in [0..SSIZE-1 -> Nat] /\ sent' \in Nat
    BY SMTT(30), <1>0, <2>4, FinAssumption
  <2>6. QED
    BY Zenon, <2>2, <2>3, <2>5 DEF LockInv, TypeOK, Private, Pointers
<1>4. QED
    BY Zenon, <1>1, <1>2, <1>3

\* Every step is one of these.
LEMMA Steps ==
    ASSUME Next
    PROVE  \E p \in Procs : \/ AroundTheRing(p)
                            \/ ReadCopy(p) \/ ReadWrap(p) \/ WriteCopy(p) \/ WriteWrap(p)
BY Zenon DEF Next, Handler, AroundTheRing

LEMMA NextLock == LockInv /\ [Next]_vars => LockInv'
<1>1. LockInv /\ UNCHANGED vars => LockInv'
    BY Zenon DEF vars, ring, LockInv, TypeOK, SemaphoreDiscipline, Pointers
<1>2. LockInv /\ Next => LockInv'
    BY Zenon, Steps, AroundLock, InsideLock
<1>3. QED
    BY Zenon, <1>1, <1>2

-----------------------------------------------------------------------------
\* The contents of the ring

LEMMA ReadMovesWindow ==
    ASSUME rp \in 0..SSIZE-1, wp \in 0..SSIZE-1,
           NEW n \in Nat, n <= Occupied, rp + n <= SSIZE,
           rp' = rp + n, wp' = wp
    PROVE  Occupied' = Occupied - n
BY SMTT(30), FinAssumption, OccupiedFact DEF Occupied, Wrapped

\* However far it overruns rp, a write moves wp on by n modulo the size.
LEMMA WriteMovesWindow ==
    ASSUME rp \in 0..SSIZE-1, wp \in 0..SSIZE-1,
           NEW n \in Nat, wp + n <= SSIZE,
           rp' = rp, wp' = wp + n
    PROVE  /\ Occupied' = IF Occupied + n >= SSIZE THEN Occupied + n - SSIZE ELSE Occupied + n
           /\ \A k \in 1..SSIZE :
                IF k <= n
                  THEN Behind(k)' = wp + n - k /\ Behind(k)' \in wp .. wp+n-1
                  ELSE /\ Behind(k)' = Behind(k - n)
                       /\ Behind(k)' \in (0..SSIZE-1) \ (wp .. wp+n-1)
<1>1. Occupied' = IF Occupied + n >= SSIZE THEN Occupied + n - SSIZE ELSE Occupied + n
    BY SMTT(30), FinAssumption, OccupiedFact DEF Occupied, Wrapped
<1>2. ASSUME NEW k \in 1..SSIZE
      PROVE  IF k <= n
               THEN Behind(k)' = wp + n - k /\ Behind(k)' \in wp .. wp+n-1
               ELSE /\ Behind(k)' = Behind(k - n)
                    /\ Behind(k)' \in (0..SSIZE-1) \ (wp .. wp+n-1)
    BY SMTT(30), <1>2, FinAssumption DEF Behind, Wrapped
<1>3. QED
    BY Zenon, <1>1, <1>2

LEMMA SameWindow ==
    ASSUME Wrapped(rp)' = Wrapped(rp), Wrapped(wp)' = Wrapped(wp)
    PROVE  Occupied' = Occupied /\ \A k \in Nat : Behind(k)' = Behind(k)
BY Zenon DEF Occupied, Behind

LEMMA WrapKeepsWindow ==
    ASSUME LockInv, NEW p \in Procs, ReadWrap(p) \/ WriteWrap(p)
    PROVE  Occupied' = Occupied /\ \A k \in Nat : Behind(k)' = Behind(k)
<1>1. Wrapped(rp)' = Wrapped(rp) /\ Wrapped(wp)' = Wrapped(wp)
  <2>1. \A x \in 0..SSIZE : Wrapped(Wrapped(x)) = Wrapped(x)
    BY Zenon, FinAssumption DEF Wrapped
  <2>2. Wrapped(rp)' = Wrapped(rp') /\ Wrapped(wp)' = Wrapped(wp')
    BY Zenon DEF Wrapped
  <2>3. QED
    BY Zenon, <2>1, <2>2, WrapStep DEF LockInv, TypeOK
<1>2. QED
    BY Zenon, <1>1, SameWindow

LEMMA InitStream == Init => RingHoldsNewest
BY SMTT(30), FinAssumption DEF Init, RingHoldsNewest, Occupied, Wrapped

LEMMA NextStream == LockInv /\ RingHoldsNewest /\ [Next]_vars => RingHoldsNewest'
<1> SUFFICES ASSUME LockInv, RingHoldsNewest, [Next]_vars PROVE RingHoldsNewest'
    BY Zenon
<1>0. Occupied \in 0..SSIZE-1 /\ sent \in Nat
    BY Zenon, OccupiedFact, FinAssumption DEF LockInv, TypeOK
<1>1. CASE UNCHANGED ring
    BY <1>1, Zenon DEF ring, RingHoldsNewest, Occupied, Behind, Wrapped
<1>2. ASSUME NEW p \in Procs, ReadWrap(p) \/ WriteWrap(p) PROVE RingHoldsNewest'
    BY SMTT(30), <1>2, WrapKeepsWindow, WrapStep DEF RingHoldsNewest
<1>3. ASSUME NEW p \in Procs, ReadCopy(p) PROVE RingHoldsNewest'
  <2>1. PICK n \in Nat :
             /\ n <= Occupied /\ rp + n <= SSIZE
             /\ rp \in 0..SSIZE-1 /\ wp \in 0..SSIZE-1
             /\ rp' = rp + n /\ UNCHANGED <<wp, buf, sent>>
    BY Zenon, <1>3, ReadCopyStep
  <2>2. Occupied' = Occupied - n
    BY Zenon, <2>1, ReadMovesWindow
  <2>3. \A k \in 1..SSIZE : Behind(k)' = Behind(k)
    BY Zenon, <2>1 DEF Behind, Wrapped
  <2>4. QED
    BY SMTT(30), <1>0, <2>1, <2>2, <2>3 DEF RingHoldsNewest
<1>4. ASSUME NEW p \in Procs, WriteCopy(p) PROVE RingHoldsNewest'
  <2>1. PICK n \in Nat :
             /\ rp \in 0..SSIZE-1 /\ wp \in 0..SSIZE-1 /\ wp + n <= SSIZE
             /\ wp' = wp + n /\ sent' = sent + n /\ buf' = Store(n)
             /\ UNCHANGED rp
    BY Zenon, <1>4, WriteCopyStep
  <2>2. /\ Occupied' = IF Occupied + n >= SSIZE THEN Occupied + n - SSIZE ELSE Occupied + n
        /\ \A k \in 1..SSIZE :
             IF k <= n
               THEN Behind(k)' = wp + n - k /\ Behind(k)' \in wp .. wp+n-1
               ELSE /\ Behind(k)' = Behind(k - n)
                    /\ Behind(k)' \in (0..SSIZE-1) \ (wp .. wp+n-1)
    BY Zenon, <2>1, WriteMovesWindow
  <2>3. Occupied' <= sent'
    BY SMTT(30), <1>0, <2>1, <2>2, FinAssumption DEF RingHoldsNewest
  <2>4. ASSUME NEW k \in 1..SSIZE, k <= sent' PROVE buf'[Behind(k)'] = sent' - k + 1
    <3>1. CASE k <= n
      <4>1. Behind(k)' = wp + n - k /\ Behind(k)' \in wp .. wp+n-1
        BY Zenon, <2>2, <3>1
      <4>2. Behind(k)' \in 0..SSIZE-1
        BY SMTT(30), <2>1, <4>1, FinAssumption
      <4>3. buf'[Behind(k)'] = sent + 1 + (Behind(k)' - wp)
        BY Zenon, <2>1, <4>1, <4>2 DEF Store
      <4>4. QED
        BY SMTT(30), <1>0, <2>1, <3>1, <4>1, <4>3
    <3>2. CASE ~(k <= n)
      <4>1. Behind(k)' = Behind(k - n) /\ Behind(k)' \in (0..SSIZE-1) \ (wp .. wp+n-1)
        BY Zenon, <2>2, <3>2
      <4>2. buf'[Behind(k)'] = buf[Behind(k - n)]
        BY Zenon, <2>1, <4>1 DEF Store
      <4>3. k - n \in 1..SSIZE /\ k - n <= sent
        BY SMTT(30), <1>0, <2>1, <2>4, <3>2, FinAssumption
      <4>4. QED
        BY SMTT(30), <1>0, <2>1, <4>2, <4>3 DEF RingHoldsNewest
    <3>3. QED
      BY Zenon, <3>1, <3>2
  <2>5. QED
    BY Zenon, <2>3, <2>4 DEF RingHoldsNewest
<1>5. CASE UNCHANGED vars
    BY Zenon, <1>1, <1>5 DEF vars
<1>6. QED
    BY Zenon, <1>1, <1>2, <1>3, <1>4, <1>5, Steps, AroundLock

-----------------------------------------------------------------------------
\* Refinement of the lossy FIFO

LEMMA InitFifo == Init => Fifo!Init
BY SMTT(30), FinAssumption DEF Init, Fifo!Init, Occupied, Wrapped

LEMMA AroundBuffers ==
    ASSUME NEW p \in Procs, AroundTheRing(p)
    PROVE  UNCHANGED ubuf \/ ubuf' = [ubuf EXCEPT ![p] = <<>>]
<1> USE DEF Return, Continue
<1>1. CASE Call(p) \/ Acquire(p)
    BY <1>1, Zenon DEF Call, Start, Acquire, ReadDown, WriteDown, Down
<1>2. CASE DownInterrupted(p) \/ ReadBlock(p) \/ ReadFast(p)
    BY Zenon, <1>2 DEF DownInterrupted, ReadBlock, ReadFast
<1>3. CASE ReadPrepare(p) \/ ReadLoad(p) \/ ReadCompare(p) \/ WriteWake(p)
    BY Zenon, <1>3 DEF ReadPrepare, ReadLoad, ReadCompare, WriteWake
<1>4. QED
    BY Zenon, <1>1, <1>2, <1>3 DEF AroundTheRing

LEMMA NextFifo ==
    LockInv /\ RingHoldsNewest /\ [Next]_vars => [Fifo!Next]_(Fifo!vars)
<1> SUFFICES ASSUME LockInv, RingHoldsNewest, [Next]_vars
             PROVE  [Fifo!Next]_(Fifo!vars)
    BY Zenon
<1>0. Occupied \in 0..SSIZE-1 /\ sent \in Nat /\ Occupied <= sent
    BY Zenon, OccupiedFact DEF LockInv, TypeOK, RingHoldsNewest
<1>1. CASE UNCHANGED <<ring, ubuf>>
    BY Zenon, <1>1 DEF ring, Fifo!vars, Occupied, Wrapped
<1>2. ASSUME NEW p \in Procs, UNCHANGED <<sent, Occupied>>, ubuf' = [ubuf EXCEPT ![p] = <<>>]
      PROVE  Fifo!Next
    BY Zenon, <1>2 DEF Fifo!Return, Fifo!Next
<1>3. ASSUME NEW p \in Procs, AroundTheRing(p) PROVE [Fifo!Next]_(Fifo!vars)
  <2>1. UNCHANGED ring /\ UNCHANGED <<sent, Occupied>>
    BY Zenon, <1>3, AroundLock DEF ring, Occupied, Wrapped
  <2>2. QED
    BY Zenon, <1>1, <1>2, <1>3, <2>1, AroundBuffers
<1>4. ASSUME NEW p \in Procs, ReadWrap(p) \/ WriteWrap(p) PROVE [Fifo!Next]_(Fifo!vars)
  <2>1. UNCHANGED <<sent, Occupied>>
    BY Zenon, <1>4, WrapKeepsWindow, WrapStep
  <2>2. UNCHANGED ubuf \/ ubuf' = [ubuf EXCEPT ![p] = <<>>]
    BY Zenon, <1>4 DEF ReadWrap, WriteWrap, Return, Continue
  <2>3. QED
    BY Zenon, <1>2, <2>1, <2>2 DEF Fifo!vars
<1>5. ASSUME NEW p \in Procs, ReadCopy(p) PROVE Fifo!Next
  <2>1. PICK n \in Nat, done \in Nat :
             /\ n <= Occupied /\ rp + n <= SSIZE /\ done <= n /\ (~Faults => done = n)
             /\ rp \in 0..SSIZE-1 /\ wp \in 0..SSIZE-1
             /\ rp' = rp + n /\ UNCHANGED <<wp, buf, sent>>
             /\ ubuf' = [ubuf EXCEPT ![p] = [i \in 1..done |-> buf[rp + i - 1]]]
    BY Zenon, <1>5, ReadCopyStep
  <2>2. Occupied' = Occupied - n
    BY Zenon, <2>1, ReadMovesWindow
  <2>3. ASSUME NEW i \in 1..done
        PROVE  buf[rp + i - 1] = (sent - Occupied + 1) + i - 1
    <3>1. /\ Occupied - i + 1 \in 1..SSIZE /\ Occupied - i + 1 <= sent
          /\ Behind(Occupied - i + 1) = rp + i - 1
      BY SMTT(30), <1>0, <2>1, <2>3, FinAssumption, OccupiedFact DEF Behind, Wrapped
    <3>2. buf[Behind(Occupied - i + 1)] = sent - (Occupied - i + 1) + 1
      BY Zenon, <3>1 DEF RingHoldsNewest
    <3>3. QED
      BY SMTT(30), <1>0, <2>1, <3>1, <3>2
  <2>4. [i \in 1..done |-> buf[rp + i - 1]]
          = [i \in 1..done |-> (sent - Occupied + 1) + i - 1]
    BY Zenon, <2>3
  <2>5. Fifo!Read(p, n, done)
    <3>1. Fifo!Pending = Occupied
      BY SMTT(30), <1>0 DEF Fifo!Pending
    <3>2. (sent - Occupied + 1)' = (sent - Occupied + 1) + n
      BY SMTT(30), <1>0, <2>1, <2>2
    <3>3. ubuf' = [ubuf EXCEPT ![p] = [i \in 1..done |-> (sent - Occupied + 1) + i - 1]]
      BY <2>1, <2>4, Zenon
    <3>4. QED
      BY <2>1, <3>1, <3>2, <3>3, Zenon DEF Fifo!Read
  <2>6. n \in 0..SSIZE /\ done \in 0..SSIZE
    BY SMTT(30), <1>0, <2>1, FinAssumption
  <2>7. QED
    BY Zenon, <2>5, <2>6 DEF Fifo!Next
<1>6. ASSUME NEW p \in Procs, WriteCopy(p) PROVE Fifo!Next
  <2>1. PICK n \in Nat :
             /\ rp \in 0..SSIZE-1 /\ wp \in 0..SSIZE-1 /\ wp + n <= SSIZE
             /\ wp' = wp + n /\ sent' = sent + n /\ UNCHANGED <<rp, ubuf>>
    BY Zenon, <1>6, WriteCopyStep
  <2>2. Occupied' = IF Occupied + n >= SSIZE THEN Occupied + n - SSIZE ELSE Occupied + n
    BY Zenon, <2>1, WriteMovesWindow
  <2>3. Fifo!Write(n)
    BY SMTT(30), <1>0, <2>1, <2>2, FinAssumption DEF Fifo!Write, Fifo!Pending
  <2>4. n \in 0..SSIZE
    BY SMTT(30), <2>1, FinAssumption
  <2>5. QED
    BY Zenon, <2>3, <2>4 DEF Fifo!Next
<1>7. CASE UNCHANGED vars
    BY Zenon, <1>1, <1>7 DEF vars
<1>8. QED
    BY Zenon, <1>3, <1>4, <1>5, <1>6, <1>7, Steps

-----------------------------------------------------------------------------
\* A single reader

SingleReader == \A p, q \in Procs : "read" \in Uses[p] /\ "read" \in Uses[q] => p = q

\* Only a program that reads is inside sdev_read, a queued reader whose wait
\* condition is half evaluated has loaded a pointer that still stands, and
\* one that sleeps does so on an empty ring, unless a wake-up is on its way.
WakeInv ==
    /\ SingleReader
    /\ \A p \in Procs : pc[p] \in ReadLabels => "read" \in Uses[p]
    /\ \A p \in waitq :
         ~WakePending =>
            /\ pc[p] = "r_cmp_wp" => seen[p] = rp
            /\ pc[p] = "r_cmp_rp" => seen[p] = wp
            /\ pc[p] = "r_sleep" => Occupied = 0

LEMMA InitWake == SingleReader /\ Init => WakeInv
BY Zenon DEF Init, WakeInv, ReadLabels

\* Comparing the loaded pointer with the one that stands: zero means equal.
LEMMA ZeroIsEmpty ==
    ASSUME rp \in 0..SSIZE-1, wp \in 0..SSIZE, have_read(rp, wp) = 0
    PROVE  Occupied = 0
BY SMTT(30), FinAssumption DEF have_read, Occupied, Wrapped

LEMMA AroundWake ==
    ASSUME LockInv, WakeInv, NEW p \in Procs, AroundTheRing(p)
    PROVE  WakeInv'
<1> USE DEF Goto, Continue, ReadLabels
<1>0. /\ UNCHANGED <<rp, wp, Occupied>>
      /\ waitq \subseteq Procs /\ pc \in [Procs -> Labels] /\ seen \in [Procs -> 0..SSIZE]
    BY Zenon, AroundLock DEF LockInv, TypeOK, ring, Occupied, Wrapped
<1> DEFINE Calm(q) == /\ pc[q] = "r_cmp_wp" => seen[q] = rp
                      /\ pc[q] = "r_cmp_rp" => seen[q] = wp
                      /\ pc[q] = "r_sleep" => Occupied = 0
\* It is enough to look at the process that moves, unless it is the writer
\* that has just emptied the queue.
<1>1. ASSUME NEW label, pc' = [pc EXCEPT ![p] = label],
             pc[p] \notin {"w_wrap", "w_wake"},
             waitq' \subseteq waitq \cup {p},
             \A q \in Procs \ {p} : seen'[q] = seen[q],
             label \in ReadLabels => "read" \in Uses[p],
             p \in waitq' /\ ~WakePending => Calm(p)'
      PROVE  WakeInv'
  <2>1. WakePending => WakePending'
    BY Zenon, <1>0, <1>1 DEF WakePending
  <2>2. \A q \in Procs : pc'[q] \in ReadLabels => "read" \in Uses[q]
    BY Zenon, <1>0, <1>1 DEF WakeInv
  <2>3. ASSUME NEW q \in waitq', ~WakePending' PROVE Calm(q)'
    <3>1. CASE q = p
        BY Zenon, <1>1, <2>1, <2>3, <3>1
    <3>2. CASE q # p
        BY Zenon, <1>0, <1>1, <2>1, <2>3, <3>2 DEF WakeInv
    <3>3. QED
        BY Zenon, <3>1, <3>2
  <2>4. QED
    BY Zenon, <2>2, <2>3 DEF WakeInv, SingleReader
<1>2. CASE Call(p)
  <2>1. PICK n \in Lens : Start(p, "read", "r_down", n) \/ Start(p, "write", "w_down", n)
    BY <1>2, Zenon DEF Call
  <2>2. QED
    BY Zenon, <1>0, <1>1, <2>1 DEF Start
<1>3. CASE Acquire(p)
    BY Zenon, <1>0, <1>1, <1>3 DEF Acquire, ReadDown, WriteDown, Down, WakeInv
<1>4. CASE DownInterrupted(p)
    BY Zenon, <1>0, <1>1, <1>4 DEF DownInterrupted, Return
<1>5. CASE ReadBlock(p) \/ ReadFast(p) \/ ReadPrepare(p)
    BY Zenon, <1>0, <1>1, <1>5 DEF ReadBlock, ReadFast, ReadPrepare, WakeInv
<1>6. CASE ReadLoad(p)
    BY Zenon, <1>0, <1>1, <1>6 DEF ReadLoad, WakeInv
<1>7. CASE ReadCompare(p)
  <2>1. "read" \in Uses[p]
    BY Zenon, <1>7 DEF ReadCompare, WakeInv
  <2>2. rp \in 0..SSIZE-1 /\ wp \in 0..SSIZE
    <3>1. \A q \in Procs : pc[q] # "r_wrap"
        BY Zenon, <1>7, <2>1 DEF WakeInv, SingleReader, ReadCompare
    <3>2. QED
        BY SMTT(30), <3>1, FinAssumption DEF LockInv, TypeOK, Pointers
  <2>3. ASSUME p \in waitq, ~WakePending, pc'[p] = "r_sleep" PROVE Occupied = 0
    BY Zenon, <1>0, <1>7, <2>2, <2>3, ZeroIsEmpty DEF ReadCompare, WakeInv
  <2>4. QED
    BY Zenon, <1>0, <1>1, <1>7, <2>1, <2>3 DEF ReadCompare
<1>8. CASE WriteWake(p)
    BY Zenon, <1>0, <1>8 DEF WriteWake, Return, WakeInv, SingleReader
<1>9. QED
    BY Zenon, <1>2, <1>3, <1>4, <1>5, <1>6, <1>7, <1>8 DEF AroundTheRing

LEMMA InsideWake ==
    ASSUME LockInv, WakeInv, NEW p \in Procs,
           ReadCopy(p) \/ ReadWrap(p) \/ WriteCopy(p) \/ WriteWrap(p)
    PROVE  WakeInv'
<1> USE DEF Goto, Continue, ReadLabels
<1>0. waitq \subseteq Procs /\ pc \in [Procs -> Labels] /\ UNCHANGED waitq
    BY Zenon DEF LockInv, TypeOK, ReadCopy, ReadWrap, WriteCopy, WriteWrap
<1>1. CASE WriteCopy(p) \/ WriteWrap(p)
  <2>1. pc'[p] \in {"w_wrap", "w_wake"}
    BY Zenon, <1>0, <1>1 DEF WriteCopy, WriteWrap
  <2>2. WakePending'
    BY Zenon, <2>1 DEF WakePending
  <2>3. \A q \in Procs : pc'[q] \in ReadLabels => "read" \in Uses[q]
    BY Zenon, <1>0, <1>1 DEF WriteCopy, WriteWrap, WakeInv
  <2>4. QED
    BY Zenon, <2>2, <2>3 DEF WakeInv, SingleReader
<1>2. CASE ReadCopy(p) \/ ReadWrap(p)
  <2>1. "read" \in Uses[p]
    BY Zenon, <1>2 DEF ReadCopy, ReadWrap, WakeInv
  <2>2. \A q \in Procs : pc'[q] = IF q = p THEN pc'[p] ELSE pc[q]
    BY Zenon, <1>0, <1>2 DEF ReadCopy, ReadWrap, Return
  <2>3. pc'[p] \in {"r_wrap", "idle"}
    BY Zenon, <1>0, <1>2 DEF ReadCopy, ReadWrap, Return
  <2>4. \A q \in Procs : pc'[q] \notin {"r_cmp_wp", "r_cmp_rp", "r_sleep"}
    BY Zenon, <2>1, <2>2, <2>3 DEF WakeInv, SingleReader
  <2>5. \A q \in Procs : pc'[q] \in ReadLabels => "read" \in Uses[q]
    BY Zenon, <2>1, <2>2 DEF WakeInv
  <2>6. QED
    BY Zenon, <1>0, <2>4, <2>5 DEF WakeInv, SingleReader
<1>3. QED
    BY Zenon, <1>1, <1>2

LEMMA NextWake == LockInv /\ WakeInv /\ [Next]_vars => WakeInv'
<1>1. WakeInv /\ UNCHANGED vars => WakeInv'
    BY Zenon DEF vars, ring, WakeInv, SingleReader, WakePending, Occupied, Wrapped
<1>2. LockInv /\ WakeInv /\ Next => WakeInv'
    BY Zenon, Steps, AroundWake, InsideWake
<1>3. QED
    BY Zenon, <1>1, <1>2

-----------------------------------------------------------------------------

LEMMA LockInvariant == Spec => []LockInv
BY InitLock, NextLock, PTL DEF Spec

\* The pointers of finopage.c never leave the page, although sdev_write
\* makes no check for room.
THEOREM FinTypeCorrect == Spec => []TypeOK
<1>1. LockInv => TypeOK
    BY Zenon DEF LockInv
<1>2. QED
    BY <1>1, LockInvariant, PTL

\* One process at a time is inside the ring, and no path of sdev_read or
\* sdev_write leaks ptr->sem.
THEOREM FinSemaphoreCorrect == Spec => []SemaphoreDiscipline
<1>1. LockInv => SemaphoreDiscipline
    BY Zenon DEF LockInv
<1>2. QED
    BY <1>1, LockInvariant, PTL

\* Whatever sdev_write overruns, the ring holds the newest bytes in order.
THEOREM FinKeepsNewest == Spec => []RingHoldsNewest
BY LockInvariant, InitStream, NextStream, PTL DEF Spec

\* sdev_read and sdev_write implement the lossy FIFO.
THEOREM FinImplementsFifo == Spec => ImplementsFifo
<1>1. Spec => []RingHoldsNewest
    BY Zenon, FinKeepsNewest
<1>2. QED
    BY <1>1, LockInvariant, InitFifo, NextFifo, PTL DEF Spec, ImplementsFifo, Fifo!Spec

\* With one reading program nobody sleeps in wait_event while there are
\* bytes: two readers are what it takes to go wrong.
THEOREM FinWakesItsReader == SingleReader /\ Spec => []SleepsOnEmptyRing
<1>1. LockInv /\ WakeInv => SleepsOnEmptyRing
    BY Zenon DEF LockInv, TypeOK, WakeInv, SleepsOnEmptyRing
<1>2. SingleReader /\ Spec => []WakeInv
    BY LockInvariant, InitWake, NextWake, PTL DEF Spec
<1>3. QED
    BY <1>1, <1>2, LockInvariant, PTL
=============================================================================
