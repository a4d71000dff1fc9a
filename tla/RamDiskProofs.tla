---------------------------- MODULE RamDiskProofs ----------------------------
(***************************************************************************)
(* The RAM disks implement the atomic disk, for every number of submitters *)
(* and every size.  Inv says how far a request is at each of its labels,   *)
(* that no two bios inside the make_request function conflict, and that a  *)
(* request of the queue with a block moved is the one the request function *)
(* works on: so no block that a request under way has still to move is     *)
(* touched by anybody else.                                                *)
(***************************************************************************)
EXTENDS RamDisk, SequenceTheorems, TLAPS

Contents == {Blank} \cup (Procs \X Nat)
Places == {"idle", "check", "copy", "queued", "ended", "failed"}

Types ==
    /\ driver \in {"bio", "queue"}
    /\ mem \in [Blocks -> Contents]
    /\ rst \in Procs \cup {Nobody}
    /\ queued \subseteq Procs
    /\ pc \in [Procs -> Places]
    /\ req \in [Procs -> Requests \cup {NoRequest}]
    /\ moved \in [Procs -> Nat]
    /\ pages \in [Procs -> Seq(Contents)]

\* The pages hold what has been moved so far by a read of the file system.
Filled(p) == Len(pages[p]) = IF req[p].fs /\ req[p].op = "read" THEN moved[p] ELSE 0

Local(p) ==
    /\ pc[p] = "idle" => moved[p] = 0 /\ pages[p] = <<>>
    /\ pc[p] # "idle" => req[p] \in Requests
    /\ pc[p] = "check" => driver = "bio" /\ moved[p] = 0 /\ pages[p] = <<>> /\ req[p].fs
    /\ pc[p] = "copy" =>
         driver = "bio" /\ req[p].fs /\ ~PastEnd(req[p]) /\ moved[p] <= req[p].n /\ Filled(p)
    /\ pc[p] = "queued" =>
         /\ driver = "queue" /\ (req[p].fs => ~PastEnd(req[p]))
         /\ moved[p] < req[p].n /\ Filled(p)
         /\ p \in queued \/ rst = p
    /\ p \in queued => pc[p] = "queued" /\ moved[p] = 0 /\ rst # p
    /\ rst = p => pc[p] = "queued"

Apart ==
    \A p, q \in Procs :
        p # q /\ pc[p] \in {"check", "copy"} /\ pc[q] \in {"check", "copy"}
            => ~Conflict(req[p], req[q])

Inv == Types /\ (\A p \in Procs : Local(p)) /\ Apart

LEMMA RequestFact ==
    ASSUME NEW r \in Requests
    PROVE  /\ r.op \in {"read", "write"} /\ r.fs \in BOOLEAN
           /\ r.at \in 0..Size-1 /\ r.n \in Nat \ {0}
           /\ r.op = "write" => r.fs
<1>1. Lens \subseteq Nat \ {0} /\ 0 \in 0..Size-1
    BY SMTT(30), DiskAssumption
<1>2. r.op \in {"read", "write"} /\ r.fs \in BOOLEAN /\ r.n \in Lens
    BY Zenon DEF Requests
<1>3. r.at \in 0..Size-1 /\ (r.op = "write" => r.fs)
    BY Zenon, <1>1 DEF Requests, Blocks
<1>4. QED
    BY Zenon, <1>1, <1>2, <1>3

LEMMA InitInv == Init => Inv
<1> SUFFICES ASSUME Init PROVE Inv
    BY Zenon
<1>1. Types
    BY SMTT(30) DEF Init, Types, Contents, Places
<1>2. \A p \in Procs : Local(p)
    BY Zenon, DiskAssumption DEF Init, Local
<1>3. QED
    BY Zenon, <1>1, <1>2 DEF Init, Inv, Apart

\* A request that is about to move a block.
Mover(p) == pc[p] = "copy" \/ (rst = p /\ req[p].fs)

LEMMA MoverFact ==
    ASSUME Inv, NEW p \in Procs, Mover(p)
    PROVE  /\ req[p] \in Requests /\ req[p].fs /\ ~PastEnd(req[p])
           /\ moved[p] \in Nat /\ moved[p] <= req[p].n /\ Filled(p)
           /\ pc[p] \in {"copy", "queued"}
BY SMTT(30), RequestFact DEF Inv, Local, Types, Mover

\* Nobody else who is under way shares a block with it, except to read.
LEMMA MoverApart ==
    ASSUME Inv, NEW p \in Procs, Mover(p), NEW q \in Procs, q # p, UnderWay(q)
    PROVE  ~Conflict(req[p], req[q])
<1>1. CASE pc[p] = "copy"
  <2>1. pc[q] = "copy"
    BY Zenon, <1>1 DEF Inv, Local, UnderWay
  <2>2. QED
    BY Zenon, <1>1, <2>1 DEF Inv, Apart
<1>2. CASE rst = p
  <2>1. pc[q] = "queued"
    BY Zenon, <1>2 DEF Inv, Local, UnderWay
  <2>2. rst = q
    BY SMTT(30), <2>1 DEF Inv, Local, UnderWay, Types
  <2>3. QED
    BY Zenon, <1>2, <2>2
<1>3. QED
    BY Zenon, <1>1, <1>2 DEF Mover

LEMMA UnderWayMoves ==
    ASSUME Inv, NEW p \in Procs, UnderWay(p)
    PROVE  Mover(p)
BY SMTT(30) DEF Inv, Local, Types, UnderWay, Mover

-----------------------------------------------------------------------------
\* What the abstract disk shows

Writing(p, b) == UnderWay(p) /\ req[p].op = "write" /\ b \in Rest(p)

\* Two requests under way never write the same block.
LEMMA OneWriter ==
    ASSUME Inv, NEW p \in Procs, NEW q \in Procs, NEW b \in Blocks, Mover(p),
           b \in req[p].at .. req[p].at + req[p].n - 1, Writing(q, b)
    PROVE  p = q
<1> SUFFICES ASSUME p # q PROVE FALSE
    BY Zenon
<1>1. Mover(q) /\ UnderWay(q)
    BY Zenon, UnderWayMoves DEF Writing
<1>2. ~Conflict(req[p], req[q])
    BY Zenon, <1>1, MoverApart
<1>3. /\ req[p] \in Requests /\ req[q] \in Requests
      /\ moved[q] \in Nat
    BY Zenon, <1>1, MoverFact
<1>4. req[p].at \in Nat /\ req[q].at \in Nat /\ req[p].n \in Nat /\ req[q].n \in Nat
    BY SMTT(30), <1>3, RequestFact
<1>5. QED
    BY SMTT(30), <1>2, <1>3, <1>4 DEF Conflict, Writing, Rest, Blocks

\* A block that a write under way has still to move shows what it will hold.
ShownRight ==
    \A b \in Blocks :
        /\ \A p \in Procs : Writing(p, b) => Shown[b] = Data(p, b - req[p].at)
        /\ (\A p \in Procs : ~Writing(p, b)) => Shown[b] = mem[b]

LEMMA ShownFact == Inv => ShownRight
<1> SUFFICES ASSUME Inv, NEW b \in Blocks
             PROVE  /\ \A p \in Procs : Writing(p, b) => Shown[b] = Data(p, b - req[p].at)
                    /\ (\A p \in Procs : ~Writing(p, b)) => Shown[b] = mem[b]
    BY Zenon DEF ShownRight
<1>1. ASSUME NEW p \in Procs, Writing(p, b) PROVE Shown[b] = Data(p, b - req[p].at)
  <2> DEFINE w == CHOOSE q \in Procs : UnderWay(q) /\ req[q].op = "write" /\ b \in Rest(q)
  <2>1. w \in Procs /\ Writing(w, b)
    BY Zenon, <1>1 DEF Writing
  <2>2. Shown[b] = Data(w, b - req[w].at)
    BY Zenon, <1>1 DEF Shown, Writing
  <2> HIDE DEF w
  <2>3. Mover(w) /\ moved[w] \in Nat /\ req[w] \in Requests
    BY Zenon, <2>1, UnderWayMoves, MoverFact DEF Writing
  <2>4. b \in req[w].at .. req[w].at + req[w].n - 1
    BY SMTT(30), <2>1, <2>3, RequestFact DEF Writing, Rest, Blocks
  <2>5. w = p
    BY Zenon, <1>1, <2>1, <2>3, <2>4, OneWriter
  <2>6. QED
    BY Zenon, <2>2, <2>5
<1>2. ASSUME \A p \in Procs : ~Writing(p, b) PROVE Shown[b] = mem[b]
    BY Zenon, <1>2 DEF Shown, Writing
<1>3. QED
    BY Zenon, <1>1, <1>2

LEMMA ShownNext == Inv' => ShownRight'
BY ShownFact, PTL

-----------------------------------------------------------------------------
\* Inv is inductive

LEMMA SubmitInv ==
    ASSUME Inv, NEW p \in Procs, NEW r \in Requests, BioSubmit(p, r) \/ QueueSubmit(p, r)
    PROVE  Inv'
<1> USE DEF Goto
<1>0. r.fs \in BOOLEAN /\ r.n \in Nat \ {0} /\ Nobody \notin Procs
    BY Zenon, RequestFact, DiskAssumption
<1>1. Types'
    BY ZenonT(60) DEF Inv, Types, Places, BioSubmit, QueueSubmit
<1>2. ASSUME NEW q \in Procs PROVE Local(q)'
  <2>1. CASE q = p
    BY SMTT(30), <1>0, <2>1 DEF Inv, Types, Local, Filled, PastEnd, BioSubmit, QueueSubmit
  <2>2. CASE q # p
    BY SMTT(30), <2>2 DEF Inv, Types, Local, Filled, PastEnd, BioSubmit, QueueSubmit
  <2>3. QED
    BY Zenon, <2>1, <2>2
<1>3. Apart'
  <2>1. CASE QueueSubmit(p, r)
    BY Zenon, <2>1 DEF Inv, Types, Apart, Local, QueueSubmit
  <2>2. CASE BioSubmit(p, r)
    BY SMTT(30), <2>2 DEF Inv, Types, Apart, BioSubmit, Conflict
  <2>3. QED
    BY Zenon, <2>1, <2>2
<1>4. QED
    BY Zenon, <1>1, <1>2, <1>3 DEF Inv

LEMMA CheckEndInv ==
    ASSUME Inv, NEW p \in Procs, BioCheck(p) \/ BioEnd(p) \/ Reap(p)
    PROVE  Inv'
<1> USE DEF Goto
<1>1. Types'
  <2>1. CASE BioCheck(p) \/ BioEnd(p)
    BY Zenon, <2>1 DEF Inv, Types, Places, BioCheck, BioEnd
  <2>2. CASE Reap(p)
    <3>1. <<>> \in Seq(Contents)
        OBVIOUS
    <3>2. QED
        BY Zenon, <2>2, <3>1 DEF Inv, Types, Places, Reap
  <2>3. QED
    BY Zenon, <2>1, <2>2
<1>2. ASSUME NEW q \in Procs PROVE Local(q)'
  <2>1. CASE q = p
    <3>1. CASE BioCheck(p)
      <4>1. req[p] \in Requests /\ req[p].n \in Nat \ {0} /\ Len(<<>>) = 0
        BY Zenon, <3>1, RequestFact DEF BioCheck, Inv, Local
      <4>2. QED
        BY SMTT(30), <2>1, <3>1, <4>1 DEF Inv, Types, Local, Filled, PastEnd, BioCheck
    <3>2. CASE BioEnd(p)
        BY Zenon, <2>1, <3>2 DEF Inv, Types, Local, BioEnd
    <3>3. CASE Reap(p)
        BY Zenon, <2>1, <3>3 DEF Inv, Types, Local, Reap
    <3>4. QED
        BY Zenon, <3>1, <3>2, <3>3
  <2>2. CASE q # p
    <3>1. /\ pc'[q] = pc[q] /\ req'[q] = req[q] /\ moved'[q] = moved[q]
          /\ pages'[q] = pages[q] /\ UNCHANGED <<driver, rst, queued>>
        BY Zenon, <2>2 DEF Inv, Types, BioCheck, BioEnd, Reap
    <3>2. QED
        BY Zenon, <3>1 DEF Inv, Local, Filled, PastEnd
  <2>3. QED
    BY Zenon, <2>1, <2>2
<1>3. Apart'
    BY ZenonT(60) DEF Inv, Types, Apart, BioCheck, BioEnd, Reap
<1>4. QED
    BY Zenon, <1>1, <1>2, <1>3 DEF Inv

LEMMA RunInv ==
    ASSUME Inv, RunQueue
    PROVE  Inv'
<1>0. PICK p \in queued : rst' = p /\ queued' = queued \ {p}
    BY Zenon DEF RunQueue, Fetch
<1>1. Types'
    BY Zenon, <1>0 DEF Inv, Types, RunQueue
<1>2. \A q \in Procs : Local(q)'
    BY ZenonT(30), <1>0, DiskAssumption DEF Inv, Types, Local, Filled, PastEnd, RunQueue
<1>3. Apart'
    BY Zenon DEF Inv, Apart, RunQueue
<1>4. QED
    BY Zenon, <1>1, <1>2, <1>3 DEF Inv

\* One memcpy, by a bio or by the request function: a block of the disk or
\* a page of the request changes.
MoveStep(p) ==
    /\ Mover(p) /\ moved[p] < req[p].n
    /\ Move(p)
    /\ moved' = [moved EXCEPT ![p] = @ + 1]
    /\ UNCHANGED <<driver, req>>
    /\ pc' = [pc EXCEPT ![p] = IF rst = p /\ moved'[p] = req[p].n THEN "ended" ELSE @]

LEMMA SegmentMoves ==
    ASSUME Inv, NEW p \in Procs, BioSegment(p) \/ (Chunk(p) /\ req[p].fs)
    PROVE  MoveStep(p)
<1>1. CASE BioSegment(p)
  <2>1. rst # p
    BY Zenon, <1>1 DEF BioSegment, Inv, Local
  <2>2. QED
    BY Zenon, <1>1, <2>1 DEF BioSegment, MoveStep, Mover, Inv, Types
<1>2. CASE Chunk(p) /\ req[p].fs
  <2>1. moved[p] < req[p].n /\ moved[p] \in Nat /\ req[p].n \in Nat
    BY Zenon, <1>2, RequestFact DEF Chunk, Inv, Local, Types
  <2>2. moved'[p] = moved[p] + 1
    BY Zenon, <1>2 DEF Chunk, Inv, Types
  <2>3. pc' = [pc EXCEPT ![p] = IF rst = p /\ moved'[p] = req[p].n THEN "ended" ELSE @]
    BY SMTT(30), <1>2, <2>1, <2>2 DEF Chunk, Goto, Inv, Types
  <2>4. QED
    BY Zenon, <1>2, <2>1, <2>3 DEF Chunk, MoveStep, Mover
<1>3. QED
    BY Zenon, <1>1, <1>2

\* The step in terms of the memory and the pages.
LEMMA MoveFact ==
    ASSUME Inv, NEW p \in Procs, MoveStep(p)
    PROVE  LET r == req[p]
               block == r.at + moved[p]
           IN
           /\ r \in Requests /\ r.at \in Nat /\ r.n \in Nat /\ r.at + r.n <= Size
           /\ moved[p] \in Nat /\ moved[p] + 1 <= r.n /\ block \in Blocks
           /\ r.op \in {"read", "write"} /\ r.fs
           /\ r.op = "write" =>
                /\ mem' = [mem EXCEPT ![block] = Data(p, moved[p])]
                /\ pages' = pages
           /\ r.op = "read" =>
                /\ mem' = mem
                /\ pages' = [pages EXCEPT ![p] = Append(@, mem[block])]
           /\ \A q \in Procs :
                /\ moved'[q] = IF q = p THEN moved[q] + 1 ELSE moved[q]
                /\ pc'[q] = IF q = p /\ rst = p /\ moved[p] + 1 = r.n THEN "ended" ELSE pc[q]
           /\ UNCHANGED <<driver, req>>
<1>1. /\ req[p] \in Requests /\ req[p].fs /\ ~PastEnd(req[p]) /\ moved[p] \in Nat
    BY Zenon, MoverFact DEF MoveStep
<1>2. /\ req[p].at \in Nat /\ req[p].n \in Nat /\ req[p].op \in {"read", "write"}
    BY SMTT(30), <1>1, RequestFact
<1>3. /\ req[p].at + req[p].n <= Size /\ moved[p] + 1 <= req[p].n
      /\ req[p].at + moved[p] \in Blocks
    BY SMTT(30), <1>1, <1>2, DiskAssumption DEF MoveStep, PastEnd, Blocks
<1>4. \A q \in Procs :
                /\ moved'[q] = IF q = p THEN moved[q] + 1 ELSE moved[q]
                /\ pc'[q] = IF q = p /\ rst = p /\ moved[p] + 1 = req[p].n
                              THEN "ended" ELSE pc[q]
    BY Zenon DEF MoveStep, Inv, Types
<1>5. /\ req[p].op = "write" =>
                /\ mem' = [mem EXCEPT ![req[p].at + moved[p]] = Data(p, moved[p])]
                /\ pages' = pages
      /\ req[p].op = "read" =>
                /\ mem' = mem
                /\ pages' = [pages EXCEPT ![p] = Append(@, mem[req[p].at + moved[p]])]
    BY Zenon DEF MoveStep, Move
<1>6. QED
    BY Zenon, <1>1, <1>2, <1>3, <1>4, <1>5 DEF MoveStep

\* What fetching the next request does to the queue.
LEMMA FetchFact ==
    ASSUME Inv, Fetch(queued)
    PROVE  /\ rst' \in queued \cup {Nobody}
           /\ queued' = queued \ {rst'}
BY Zenon, DiskAssumption DEF Fetch, Inv, Types

LEMMA MoveInv ==
    ASSUME Inv, NEW p \in Procs, BioSegment(p) \/ (Chunk(p) /\ req[p].fs)
    PROVE  Inv'
<1> DEFINE r == req[p]
           last == rst = p /\ moved[p] + 1 = r.n
<1>0. /\ MoveStep(p) /\ Mover(p) /\ Filled(p)
    BY Zenon, SegmentMoves, MoverFact DEF MoveStep
<1>1. /\ r \in Requests /\ r.at \in Nat /\ r.n \in Nat /\ r.fs /\ ~PastEnd(r)
      /\ moved[p] \in Nat /\ moved[p] + 1 <= r.n /\ r.at + moved[p] \in Blocks
      /\ r.op \in {"read", "write"}
      /\ r.op = "write" => mem' = [mem EXCEPT ![r.at + moved[p]] = Data(p, moved[p])] /\ pages' = pages
      /\ r.op = "read" =>
            mem' = mem /\ pages' = [pages EXCEPT ![p] = Append(@, mem[r.at + moved[p]])]
      /\ \A q \in Procs :
            /\ moved'[q] = IF q = p THEN moved[q] + 1 ELSE moved[q]
            /\ pc'[q] = IF q = p /\ last THEN "ended" ELSE pc[q]
      /\ UNCHANGED <<driver, req>>
    BY SMTT(30), <1>0, MoveFact, MoverFact
<1>2. /\ ~last => UNCHANGED <<rst, queued>>
      /\ last => rst' \in queued \cup {Nobody} /\ queued' = queued \ {rst'}
  <2>1. CASE BioSegment(p)
    BY Zenon, <2>1 DEF BioSegment, Inv, Local
  <2>2. CASE Chunk(p)
    <3>1. last => Fetch(queued)
        BY SMTT(30), <1>1, <2>2 DEF Chunk
    <3>2. ~last => UNCHANGED <<rst, queued>>
        BY SMTT(30), <1>1, <2>2 DEF Chunk
    <3>3. QED
        BY Zenon, <3>1, <3>2, FetchFact
  <2>3. QED
    BY Zenon, <2>1, <2>2
<1>3. Types'
  <2>0. Data(p, moved[p]) \in Contents
    BY Zenon, <1>1 DEF Data, Contents
  <2>1. mem' \in [Blocks -> Contents]
    <3>1. mem \in [Blocks -> Contents]
        BY Zenon DEF Inv, Types
    <3>2. QED
        BY Zenon, <1>1, <2>0, <3>1
  <2>2. mem[r.at + moved[p]] \in Contents /\ pages[p] \in Seq(Contents)
    BY Zenon, <1>1 DEF Inv, Types
  <2>3. pages' \in [Procs -> Seq(Contents)]
    <3>1. Append(pages[p], mem[r.at + moved[p]]) \in Seq(Contents)
        BY Zenon, <2>2, AppendProperties
    <3>2. pages \in [Procs -> Seq(Contents)]
        BY Zenon DEF Inv, Types
    <3>3. QED
        BY Zenon, <1>1, <3>1, <3>2
  <2>4. moved' \in [Procs -> Nat] /\ pc' \in [Procs -> Places]
    BY SMTT(30), <1>0, <1>1 DEF MoveStep, Inv, Types, Places
  <2>5. rst' \in Procs \cup {Nobody} /\ queued' \subseteq Procs
    BY Zenon, <1>2 DEF Inv, Types
  <2>6. QED
    BY Zenon, <1>1, <2>1, <2>3, <2>4, <2>5 DEF Inv, Types
<1>4. ASSUME NEW q \in Procs PROVE Local(q)'
  <2>1. CASE q # p
    <3>1. /\ pc'[q] = pc[q] /\ req'[q] = req[q] /\ moved'[q] = moved[q]
          /\ pages'[q] = pages[q] /\ UNCHANGED driver
        BY Zenon, <1>1, <2>1 DEF Inv, Types
    <3>2. /\ q \in queued' => q \in queued /\ rst' # q
          /\ rst' = q => rst = q \/ q \in queued
          /\ q \in queued \/ rst = q => q \in queued' \/ rst' = q
        BY Zenon, <1>2, <2>1, DiskAssumption DEF Inv, Local
    <3>3. QED
        BY ZenonT(30), <3>1, <3>2 DEF Inv, Local, Filled, PastEnd
  <2>2. CASE q = p
    <3>1. Filled(p)'
      <4>1. Len(pages'[p]) = IF r.op = "read" THEN Len(pages[p]) + 1 ELSE Len(pages[p])
        <5>1. pages[p] \in Seq(Contents) /\ mem[r.at + moved[p]] \in Contents
            BY Zenon, <1>1 DEF Inv, Types
        <5>2. QED
            BY SMTT(30), <1>1, <5>1, AppendProperties DEF Inv, Types
      <4>2. QED
        BY Zenon, <1>0, <1>1, <4>1 DEF Filled
    <3>2. p \notin queued \/ rst # p
        BY Zenon DEF Inv, Local
    <3>3. CASE last
      <4>1. pc'[p] = "ended" /\ rst' # p /\ p \notin queued'
        BY SMTT(30), <1>1, <1>2, <3>2, <3>3, DiskAssumption DEF Inv, Local
      <4>2. QED
        BY Zenon, <1>1, <2>2, <4>1 DEF Local
    <3>4. CASE ~last
      <4>1. pc'[p] = pc[p] /\ UNCHANGED <<rst, queued>> /\ moved'[p] = moved[p] + 1 /\ req'[p] = r
        BY Zenon, <1>1, <1>2, <3>4
      <4>2. pc[p] \in {"copy", "queued"} /\ p \notin queued
        BY Zenon, <1>0, <3>2, MoverFact DEF Mover, Inv, Local
      <4>3. pc[p] = "queued" => rst = p
        BY Zenon, <4>2 DEF Inv, Local
      <4>4. QED
        BY SMTT(30), <1>1, <2>2, <3>1, <3>4, <4>1, <4>2, <4>3 DEF Inv, Local, PastEnd
    <3>5. QED
        BY Zenon, <3>3, <3>4
  <2>3. QED
    BY Zenon, <2>1, <2>2
<1>5. Apart'
    BY Zenon, <1>1 DEF Inv, Apart
<1>6. QED
    BY Zenon, <1>3, <1>4, <1>5 DEF Inv

\* A chunk of a request that is not the file system's is refused.
LEMMA RefuseInv ==
    ASSUME Inv, NEW p \in Procs, Chunk(p), ~req[p].fs
    PROVE  Inv'
<1> DEFINE last == moved[p] + 1 = req[p].n
<1>1. /\ req[p] \in Requests /\ req[p].n \in Nat /\ moved[p] \in Nat /\ moved[p] < req[p].n
      /\ pc[p] = "queued" /\ rst = p /\ p \notin queued
    BY Zenon, RequestFact DEF Chunk, Inv, Local, Types
<1>2. /\ UNCHANGED <<mem, pages, driver, req>>
      /\ moved' = [moved EXCEPT ![p] = @ + 1]
      /\ pc' = [pc EXCEPT ![p] = IF last THEN "failed" ELSE @]
    BY SMTT(30), <1>1 DEF Chunk, Goto, Inv, Types
<1>3. /\ ~last => UNCHANGED <<rst, queued>>
      /\ last => rst' \in queued \cup {Nobody} /\ queued' = queued \ {rst'}
  <2>1. last => Fetch(queued)
    BY SMTT(30), <1>1 DEF Chunk, Inv, Types
  <2>2. QED
    BY SMTT(30), <1>1, <2>1, FetchFact DEF Chunk, Inv, Types
<1>4. Types'
    BY SMTT(30), <1>1, <1>2, <1>3 DEF Inv, Types, Places
<1>5. ASSUME NEW q \in Procs PROVE Local(q)'
  <2>1. CASE q # p
    <3>1. /\ pc'[q] = pc[q] /\ req'[q] = req[q] /\ moved'[q] = moved[q]
          /\ pages'[q] = pages[q] /\ UNCHANGED driver
        BY Zenon, <1>2, <2>1 DEF Inv, Types
    <3>2. /\ q \in queued' => q \in queued /\ rst' # q
          /\ rst' = q => rst = q \/ q \in queued
          /\ q \in queued \/ rst = q => q \in queued' \/ rst' = q
        BY Zenon, <1>1, <1>3, <2>1, DiskAssumption DEF Inv, Local
    <3>3. QED
        BY ZenonT(30), <3>1, <3>2 DEF Inv, Local, Filled, PastEnd
  <2>2. CASE q = p
    BY SMTT(30), <1>1, <1>2, <1>3, <2>2, DiskAssumption DEF Inv, Types, Local, Filled
  <2>3. QED
    BY Zenon, <2>1, <2>2
<1>6. Apart'
    BY Zenon, <1>1, <1>2 DEF Inv, Types, Apart
<1>7. QED
    BY Zenon, <1>4, <1>5, <1>6 DEF Inv

LEMMA NextInv == Inv /\ [Next]_vars => Inv'
<1>1. Inv /\ UNCHANGED vars => Inv'
    BY SMTT(30) DEF vars, Inv, Types, Local, Filled, Apart, PastEnd, Conflict
<1>2. Inv /\ Next => Inv'
    BY Zenon, SubmitInv, CheckEndInv, RunInv, MoveInv, RefuseInv
       DEF Next, RequestFn, Submit, Bio
<1>3. QED
    BY Zenon, <1>1, <1>2

-----------------------------------------------------------------------------
\* Refinement

StageRight ==
    \A p \in Procs :
        /\ pc[p] = "idle" => Stage(p) = "idle"
        /\ pc[p] = "failed" => Stage(p) = "failed"
        /\ pc[p] = "ended" \/ UnderWay(p) => Stage(p) = "done"
        /\ pc[p] \in {"check", "copy", "queued"} /\ ~UnderWay(p) => Stage(p) = "sent"

LEMMA StageFact == StageRight
<1> SUFFICES ASSUME NEW p \in Procs PROVE StageRight!(p)
    BY Zenon DEF StageRight
<1>1. CASE pc[p] \in {"idle", "failed", "ended"}
    BY SMTT(30), <1>1, Zenon DEF Stage, UnderWay
<1>2. CASE pc[p] \notin {"idle", "failed", "ended"}
    BY SMTT(30), <1>2, Zenon DEF Stage
<1>3. QED
    BY Zenon, <1>1, <1>2

LEMMA StageNext == StageRight'
BY StageFact, PTL

LEMMA InitAtomic == Init => Atomic!Init
<1> SUFFICES ASSUME Init PROVE Atomic!Init
    BY Zenon
<1>1. \A p \in Procs : ~UnderWay(p)
    BY Zenon DEF Init, UnderWay
<1>2. Shown = [b \in Blocks |-> Blank]
    BY Zenon, <1>1 DEF Init, Shown
<1>3. Read = [p \in Procs |-> <<>>]
    BY Zenon, <1>1 DEF Init, Read
<1>4. [p \in Procs |-> Stage(p)] = [p \in Procs |-> "idle"]
  <2>1. \A p \in Procs : Stage(p) = "idle"
    BY Zenon, StageFact DEF Init, StageRight
  <2>2. QED
    BY Zenon, <2>1
<1>5. Blocks = Atomic!Blocks /\ req = [p \in Procs |-> NoRequest]
    BY Zenon DEF Init, Blocks, Atomic!Blocks
<1>6. QED
    BY SMTT(30), <1>2, <1>3, <1>4, <1>5, Zenon DEF Atomic!Init

LEMMA ShownIsFunction ==
    /\ Shown = [b \in Blocks |-> Shown[b]]
    /\ Shown' = [b \in Blocks |-> Shown'[b]]
BY Zenon DEF Shown

LEMMA ReadIsFunction ==
    /\ Read = [p \in Procs |-> Read[p]]
    /\ Read' = [p \in Procs |-> Read'[p]]
BY Zenon DEF Read

\* A step that changes neither the disk nor who is under way shows nothing
\* but a new label.
LEMMA NothingMoves ==
    ASSUME Inv, Inv', UNCHANGED mem, NEW p \in Procs,
           ~UnderWay(p), ~UnderWay(p)',
           \A q \in Procs \ {p} : UNCHANGED <<pc[q], req[q], moved[q], pages[q]>>
    PROVE  /\ UNCHANGED Shown
           /\ \A q \in Procs \ {p} : Read'[q] = Read[q] /\ Stage(q)' = Stage(q)
           /\ Read[p] = pages[p] /\ Read'[p] = pages'[p]
<1>1. \A q \in Procs \ {p} : UnderWay(q)' <=> UnderWay(q)
    BY Zenon DEF UnderWay
<1>2. \A q \in Procs, b \in Blocks : Writing(q, b)' <=> Writing(q, b)
    BY Zenon, <1>1 DEF Writing, Rest
<1>3. \A q \in Procs \ {p} : Stage(q)' = Stage(q)
    BY Zenon, <1>1 DEF Stage
<1>4. \A q \in Procs \ {p} : Read'[q] = Read[q]
    BY Zenon, <1>1 DEF Read
<1>5. Read[p] = pages[p] /\ Read'[p] = pages'[p]
    BY Zenon DEF Read
<1>6. UNCHANGED Shown
  <2>1. ASSUME NEW b \in Blocks PROVE Shown'[b] = Shown[b]
    <3>1. ASSUME NEW q \in Procs, Writing(q, b) PROVE Shown'[b] = Shown[b]
      <4>1. q # p /\ req'[q] = req[q]
        BY Zenon, <3>1 DEF Writing
      <4>2. QED
        BY SMTT(30), <1>2, <3>1, <4>1, ShownFact, ShownNext DEF ShownRight
    <3>2. CASE \A q \in Procs : ~Writing(q, b)
        BY Zenon, <1>2, <3>2, ShownFact, ShownNext DEF ShownRight
    <3>3. QED
        BY Zenon, <3>1, <3>2
  <2>2. QED
    BY Zenon, <2>1, ShownIsFunction
<1>7. QED
    BY Zenon, <1>3, <1>4, <1>5, <1>6

\* The steps that move no block.
LEMMA QuietAtomic ==
    ASSUME Inv, Inv', NEW p \in Procs,
           \/ \E r \in Requests : BioSubmit(p, r) \/ QueueSubmit(p, r)
           \/ BioCheck(p) \/ Reap(p) \/ (Chunk(p) /\ ~req[p].fs)
    PROVE  Atomic!Next \/ UNCHANGED Atomic!vars
<1> DEFINE st == [q \in Procs |-> Stage(q)]
<1>0. /\ mem' = mem /\ ~UnderWay(p) /\ ~UnderWay(p)'
      /\ \A q \in Procs \ {p} : UNCHANGED <<pc[q], req[q], moved[q], pages[q]>>
  <2>1. CASE \E r \in Requests : BioSubmit(p, r) \/ QueueSubmit(p, r)
    <3>1. PICK r \in Requests : BioSubmit(p, r) \/ QueueSubmit(p, r)
        BY Zenon, <2>1
    <3>2. moved[p] = 0 /\ pc[p] = "idle" /\ moved' = moved
        BY Zenon, <3>1 DEF BioSubmit, QueueSubmit, Inv, Local
    <3>3. QED
        BY SMTT(30), <3>1, <3>2 DEF BioSubmit, QueueSubmit, Goto, Inv, Types, UnderWay
  <2>2. CASE BioCheck(p)
    BY SMTT(30), <2>2 DEF BioCheck, Goto, Inv, Types, Local, UnderWay
  <2>3. CASE Reap(p)
    BY SMTT(30), <2>3 DEF Reap, Goto, Inv, Types, Local, UnderWay
  <2>4. CASE Chunk(p) /\ ~req[p].fs
    BY ZenonT(30), <2>4 DEF Chunk, Goto, Inv, Types, Local, UnderWay
  <2>5. QED
    BY Zenon, <2>1, <2>2, <2>3, <2>4
<1>1. /\ UNCHANGED Shown
      /\ \A q \in Procs \ {p} : Read'[q] = Read[q] /\ Stage(q)' = Stage(q)
      /\ Read[p] = pages[p] /\ Read'[p] = pages'[p]
    BY Zenon, <1>0, NothingMoves
<1>2. st' = [st EXCEPT ![p] = Stage(p)'] /\ Read' = [Read EXCEPT ![p] = pages'[p]]
    BY Zenon, <1>1 DEF Read
<1>3. CASE \E r \in Requests : BioSubmit(p, r) \/ QueueSubmit(p, r)
  <2>1. PICK r \in Requests : BioSubmit(p, r) \/ QueueSubmit(p, r)
    BY Zenon, <1>3
  <2>2. Stage(p) = "idle" /\ Stage(p)' = "sent"
    BY Zenon, <1>0, <2>1, StageFact, StageNext
       DEF StageRight, BioSubmit, QueueSubmit, Goto, Inv, Types
  <2>3. pages' = pages /\ Read' = Read /\ req' = [req EXCEPT ![p] = r]
    <3>1. pages' = pages /\ req' = [req EXCEPT ![p] = r]
        BY Zenon, <2>1 DEF BioSubmit, QueueSubmit
    <3>2. Read' = Read
        BY Zenon, <1>1, <3>1, ReadIsFunction
    <3>3. QED
        BY Zenon, <3>1, <3>2
  <2>4. Atomic!Submit(p)
    BY Zenon, <1>1, <1>2, <2>2, <2>3 DEF Atomic!Submit
  <2>5. QED
    BY Zenon, <2>4 DEF Atomic!Next
<1>4. CASE BioCheck(p)
  <2>1. Stage(p) = "sent" /\ pages' = pages /\ Read' = Read /\ req' = req
    BY Zenon, <1>0, <1>1, <1>2, <1>4, StageFact DEF StageRight, BioCheck, Read
  <2>2. CASE PastEnd(req[p])
    <3>1. Stage(p)' = "failed"
        BY Zenon, <1>4, <2>2, StageNext DEF StageRight, BioCheck, Goto, Inv, Types
    <3>2. ~Atomic!Fits(req[p])
      <4>1. req[p].at \in Nat /\ req[p].n \in Nat
        <5>1. req[p] \in Requests
            BY Zenon, <1>4 DEF BioCheck, Inv, Local
        <5>2. req[p].at \in 0..Size-1 /\ req[p].n \in Nat \ {0}
            BY Zenon, <5>1, RequestFact
        <5>3. QED
            BY SMTT(30), <5>2
      <4>2. QED
        BY SMTT(30), <2>2, <4>1, DiskAssumption DEF PastEnd, Atomic!Fits
    <3>3. Atomic!Refuse(p)
        BY Zenon, <1>1, <1>2, <2>1, <3>1, <3>2 DEF Atomic!Refuse
    <3>4. QED
        BY Zenon, <3>3 DEF Atomic!Next
  <2>3. CASE ~PastEnd(req[p])
    <3>1. Stage(p)' = "sent"
        BY Zenon, <1>0, <1>4, <2>3, StageNext DEF StageRight, BioCheck, Goto, Inv, Types
    <3>2. st' = st
        BY Zenon, <1>2, <2>1, <3>1
    <3>3. QED
        BY Zenon, <1>1, <2>1, <3>2 DEF Atomic!vars
  <2>4. QED
    BY Zenon, <2>2, <2>3
<1>5. CASE Reap(p)
  <2>1. Stage(p) \in {"done", "failed"} /\ Stage(p)' = "idle"
    BY Zenon, <1>5, StageFact, StageNext DEF StageRight, Reap, Goto, Inv, Types
  <2>2. pages'[p] = <<>> /\ req' = [req EXCEPT ![p] = NoRequest]
    BY Zenon, <1>5 DEF Reap, Inv, Types
  <2>3. Atomic!Reap(p)
    BY Zenon, <1>1, <1>2, <2>1, <2>2 DEF Atomic!Reap
  <2>4. QED
    BY Zenon, <2>3 DEF Atomic!Next
<1>6. CASE Chunk(p) /\ ~req[p].fs
  <2>1. Stage(p) = "sent" /\ pages' = pages /\ Read' = Read /\ req' = req
    BY ZenonT(60), <1>0, <1>1, <1>2, <1>6, StageFact DEF StageRight, Chunk, Read, Inv, Local
  <2>2. CASE moved'[p] < req[p].n
    <3>1. Stage(p)' = "sent"
        BY Zenon, <1>0, <1>6, <2>2, StageNext DEF StageRight, Chunk, Inv, Local
    <3>2. st' = st
        BY Zenon, <1>2, <2>1, <3>1
    <3>3. QED
        BY Zenon, <1>1, <2>1, <3>2 DEF Atomic!vars
  <2>3. CASE ~(moved'[p] < req[p].n)
    <3>1. Stage(p)' = "failed"
        BY Zenon, <1>6, <2>3, StageNext DEF StageRight, Chunk, Goto, Inv, Types
    <3>2. Atomic!Refuse(p)
        BY Zenon, <1>1, <1>2, <1>6, <2>1, <3>1 DEF Atomic!Refuse, Atomic!Fits
    <3>3. QED
        BY Zenon, <3>2 DEF Atomic!Next
  <2>4. QED
    BY Zenon, <2>2, <2>3
<1>7. QED
    BY Zenon, <1>3, <1>4, <1>5, <1>6

\* A bio that has been moved completely is ended.
LEMMA EndAtomic ==
    ASSUME Inv, Inv', NEW p \in Procs, BioEnd(p)
    PROVE  UNCHANGED Atomic!vars
<1>1. /\ pc[p] = "copy" /\ moved[p] = req[p].n /\ Mover(p)
      /\ UNCHANGED <<mem, req, moved, pages>>
      /\ \A q \in Procs : pc'[q] = IF q = p THEN "ended" ELSE pc[q]
    BY Zenon DEF BioEnd, Goto, Inv, Types, Mover
<1>2. /\ req[p].n \in Nat \ {0} /\ req[p].at \in Nat /\ req[p].fs /\ Filled(p)
      /\ pages[p] \in Seq(Contents)
    BY SMTT(30), <1>1, MoverFact, RequestFact DEF Inv, Types
<1>3. UnderWay(p) /\ ~UnderWay(p)' /\ \A q \in Procs \ {p} : UnderWay(q)' <=> UnderWay(q)
    BY SMTT(30), <1>1, <1>2 DEF UnderWay
<1>4. \A q \in Procs, b \in Blocks : Writing(q, b)' <=> Writing(q, b)
  <2>1. \A b \in Blocks : ~Writing(p, b) /\ ~Writing(p, b)'
    BY SMTT(30), <1>1, <1>2, <1>3 DEF Writing, Rest, Blocks
  <2>2. QED
    BY Zenon, <1>1, <1>3, <2>1 DEF Writing, Rest
<1>5. UNCHANGED Shown
  <2>1. ASSUME NEW b \in Blocks PROVE Shown'[b] = Shown[b]
    BY SMTT(30), <1>1, <1>4, <2>1, ShownFact, ShownNext DEF ShownRight
  <2>2. QED
    BY Zenon, <2>1, ShownIsFunction
<1>6. UNCHANGED Read
  <2>1. \A q \in Procs \ {p} : Read'[q] = Read[q]
    BY Zenon, <1>1, <1>3 DEF Read
  <2>2. Read'[p] = pages[p]
    BY Zenon, <1>1, <1>3 DEF Read
  <2>3. Read[p] = pages[p]
    <3>1. CASE req[p].op = "read"
      <4>1. Read[p] = [i \in 1..req[p].n |-> pages[p][i]]
        BY SMTT(30), <1>1, <1>2, <1>3, <3>1 DEF Read
      <4>2. pages[p] = [i \in 1..Len(pages[p]) |-> pages[p][i]]
        BY SMTT(30), <1>2, SeqDef
      <4>3. QED
        BY Zenon, <1>1, <1>2, <3>1, <4>1, <4>2 DEF Filled
    <3>2. CASE req[p].op # "read"
        BY Zenon, <3>2 DEF Read
    <3>3. QED
        BY Zenon, <3>1, <3>2
  <2>4. \A q \in Procs : Read'[q] = Read[q]
    BY Zenon, <2>1, <2>2, <2>3
  <2>5. QED
    BY Zenon, <2>4, ReadIsFunction
<1>7. \A q \in Procs : Stage(q)' = Stage(q)
  <2>1. Stage(p) = "done" /\ Stage(p)' = "done"
    BY Zenon, <1>1, <1>3, StageFact, StageNext DEF StageRight
  <2>2. \A q \in Procs \ {p} : Stage(q)' = Stage(q)
    BY Zenon, <1>1, <1>3 DEF Stage
  <2>3. QED
    BY Zenon, <2>1, <2>2
<1>8. QED
    BY Zenon, <1>1, <1>5, <1>6, <1>7 DEF Atomic!vars

\* What moving one block of p does to the disk that is shown: the block
\* joins the ones already moved, and the first one brings all the others.
LEMMA MoveShown ==
    ASSUME Inv, Inv', NEW p \in Procs, MoveStep(p)
    PROVE  LET r == req[p] IN
           \A b \in Blocks :
             /\ r.op = "read" => Shown'[b] = Shown[b]
             /\ r.op = "write" /\ moved[p] = 0 =>
                  Shown'[b] = IF b \in r.at .. r.at+r.n-1 THEN Data(p, b - r.at) ELSE Shown[b]
             /\ r.op = "write" /\ moved[p] > 0 => Shown'[b] = Shown[b]
<1> DEFINE r == req[p]
           block == r.at + moved[p]
<1>1. /\ r \in Requests /\ r.at \in Nat /\ r.n \in Nat /\ r.at + r.n <= Size
      /\ moved[p] \in Nat /\ moved[p] + 1 <= r.n /\ block \in Blocks
      /\ r.op \in {"read", "write"} /\ r.fs
      /\ r.op = "write" => mem' = [mem EXCEPT ![block] = Data(p, moved[p])]
      /\ r.op = "read" => mem' = mem
      /\ \A q \in Procs :
           /\ moved'[q] = IF q = p THEN moved[q] + 1 ELSE moved[q]
           /\ pc'[q] = IF q = p /\ rst = p /\ moved[p] + 1 = r.n THEN "ended" ELSE pc[q]
      /\ req' = req
    BY Zenon, MoveFact
<1>2. Mover(p) /\ pc[p] \in {"copy", "queued"}
    BY Zenon, MoverFact DEF MoveStep
<1> SUFFICES ASSUME NEW b \in Blocks
             PROVE  /\ r.op = "read" => Shown'[b] = Shown[b]
                    /\ r.op = "write" /\ moved[p] = 0 =>
                         Shown'[b] = IF b \in r.at .. r.at+r.n-1
                                       THEN Data(p, b - r.at) ELSE Shown[b]
                    /\ r.op = "write" /\ moved[p] > 0 => Shown'[b] = Shown[b]
    BY Zenon
<1>3. \A q \in Procs \ {p} : Writing(q, b)' <=> Writing(q, b)
    BY Zenon, <1>1 DEF Writing, UnderWay, Rest
<1>4. /\ Writing(p, b)' <=> r.op = "write" /\ b \in block+1 .. r.at+r.n-1
      /\ Writing(p, b) <=> r.op = "write" /\ moved[p] > 0 /\ b \in block .. r.at+r.n-1
  <2>1. UnderWay(p) <=> moved[p] > 0
    BY Zenon, <1>1, <1>2 DEF UnderWay
  <2>2. UnderWay(p)' <=> pc'[p] # "ended"
    BY SMTT(30), <1>1, <1>2 DEF UnderWay
  <2>3. pc'[p] = "ended" => moved[p] + 1 = r.n
    BY Zenon, <1>1, <1>2
  <2>4. Rest(p) = block .. r.at+r.n-1 /\ Rest(p)' = block+1 .. r.at+r.n-1
    BY SMTT(30), <1>1 DEF Rest
  <2>5. b \in Int
    BY SMTT(30), DiskAssumption DEF Blocks
  <2>6. Writing(p, b) <=> r.op = "write" /\ moved[p] > 0 /\ b \in block .. r.at+r.n-1
    BY Zenon, <2>1, <2>4 DEF Writing
  <2>7. Writing(p, b)' <=> pc'[p] # "ended" /\ r.op = "write" /\ b \in block+1 .. r.at+r.n-1
    BY Zenon, <1>1, <2>2, <2>4 DEF Writing
  <2>8. QED
    BY SMTT(30), <1>1, <2>3, <2>5, <2>6, <2>7
<1>5. /\ b \in Int /\ mem \in [Blocks -> Contents]
    BY SMTT(30), DiskAssumption DEF Blocks, Inv, Types
<1>6. /\ \A q \in Procs : Writing(q, b) => Shown[b] = Data(q, b - req[q].at)
      /\ (\A q \in Procs : ~Writing(q, b)) => Shown[b] = mem[b]
      /\ \A q \in Procs : Writing(q, b)' => Shown'[b] = Data(q, b - req'[q].at)
      /\ (\A q \in Procs : ~Writing(q, b)') => Shown'[b] = mem'[b]
    BY Zenon, ShownFact, ShownNext DEF ShownRight
<1>7. b \in r.at .. r.at+r.n-1 => \A q \in Procs \ {p} : ~Writing(q, b)
    BY Zenon, <1>2, OneWriter
<1> HIDE DEF r, block
<1>8. CASE r.op = "read"
  <2>1. \A q \in Procs : Writing(q, b)' <=> Writing(q, b)
    BY Zenon, <1>3, <1>4, <1>8
  <2>2. QED
    BY Zenon, <1>1, <1>6, <1>8, <2>1
<1>9. CASE r.op = "write" /\ b \notin r.at .. r.at+r.n-1
  <2>1. ~Writing(p, b) /\ ~Writing(p, b)' /\ mem'[b] = mem[b]
    BY SMTT(30), <1>1, <1>4, <1>5, <1>9 DEF block
  <2>2. \A q \in Procs : Writing(q, b)' <=> Writing(q, b)
    BY Zenon, <1>3, <2>1
  <2>3. QED
    BY Zenon, <1>1, <1>6, <1>9, <2>1, <2>2
<1>10. CASE r.op = "write" /\ b \in r.at .. r.at+r.n-1
  <2>1. \A q \in Procs \ {p} : ~Writing(q, b) /\ ~Writing(q, b)'
    BY Zenon, <1>3, <1>7, <1>10
  <2>2. CASE b > block
    <3>1. Shown'[b] = Data(p, b - r.at)
        BY SMTT(30), <1>1, <1>4, <1>5, <1>6, <1>10, <2>2 DEF r, block
    <3>2. moved[p] > 0 => Shown[b] = Data(p, b - r.at)
        BY SMTT(30), <1>1, <1>4, <1>5, <1>6, <1>10, <2>2 DEF r, block
    <3>3. QED
        BY Zenon, <1>10, <3>1, <3>2
  <2>3. CASE b = block
    <3>1. mem'[b] = Data(p, b - r.at)
        BY SMTT(30), <1>1, <1>5, <1>10, <2>3 DEF block
    <3>2. Shown'[b] = Data(p, b - r.at)
        BY SMTT(30), <1>1, <1>4, <1>6, <2>1, <2>3, <3>1 DEF block
    <3>3. moved[p] > 0 => Shown[b] = Data(p, b - r.at)
        BY SMTT(30), <1>1, <1>4, <1>5, <1>6, <1>10, <2>3 DEF r, block
    <3>4. QED
        BY Zenon, <1>10, <3>2, <3>3
  <2>4. CASE b < block
    <3>0. mem'[b] = mem[b] /\ \A q \in Procs : ~Writing(q, b) /\ ~Writing(q, b)'
        BY SMTT(30), <1>1, <1>4, <1>5, <1>10, <2>1, <2>4 DEF block
    <3>1. Shown'[b] = Shown[b]
        BY Zenon, <1>6, <3>0
    <3>2. moved[p] # 0
        BY SMTT(30), <1>1, <1>5, <1>10, <2>4 DEF block
    <3>3. QED
        BY Zenon, <1>10, <3>1, <3>2
  <2>5. QED
    BY SMTT(30), <1>1, <1>5, <2>2, <2>3, <2>4 DEF block
<1>11. QED
    BY Zenon, <1>1, <1>8, <1>9, <1>10

\* What it does to what the reads have got.
LEMMA MoveRead ==
    ASSUME Inv, Inv', NEW p \in Procs, MoveStep(p)
    PROVE  LET r == req[p] IN
           /\ \A q \in Procs \ {p} : Read'[q] = Read[q]
           /\ r.op = "write" => Read'[p] = Read[p]
           /\ r.op = "read" /\ moved[p] > 0 => Read'[p] = Read[p]
           /\ r.op = "read" /\ moved[p] = 0 =>
                Read'[p] = [i \in 1..r.n |-> Shown[r.at + i - 1]]
<1> DEFINE r == req[p]
           block == r.at + moved[p]
<1>1. /\ r \in Requests /\ r.at \in Nat /\ r.n \in Nat /\ r.at + r.n <= Size
      /\ moved[p] \in Nat /\ moved[p] + 1 <= r.n /\ block \in Blocks
      /\ r.op \in {"read", "write"} /\ r.fs
      /\ r.op = "write" => mem' = [mem EXCEPT ![block] = Data(p, moved[p])] /\ pages' = pages
      /\ r.op = "read" =>
            mem' = mem /\ pages' = [pages EXCEPT ![p] = Append(@, mem[block])]
      /\ \A q \in Procs :
           /\ moved'[q] = IF q = p THEN moved[q] + 1 ELSE moved[q]
           /\ pc'[q] = IF q = p /\ rst = p /\ moved[p] + 1 = r.n THEN "ended" ELSE pc[q]
      /\ req' = req
    BY Zenon, MoveFact
<1>2. Mover(p) /\ pc[p] \in {"copy", "queued"} /\ Filled(p) /\ pages[p] \in Seq(Contents)
    BY ZenonT(60), MoverFact DEF MoveStep, Inv, Types
<1>3. mem \in [Blocks -> Contents]
    BY Zenon DEF Inv, Types
<1>4. ASSUME NEW q \in Procs \ {p} PROVE Read'[q] = Read[q]
  <2>1. /\ UnderWay(q)' <=> UnderWay(q)
        /\ pages'[q] = pages[q] /\ moved'[q] = moved[q] /\ req'[q] = req[q]
    BY Zenon, <1>1 DEF UnderWay, Inv, Types
  <2>2. CASE ~(UnderWay(q) /\ req[q].op = "read")
    BY Zenon, <2>1, <2>2 DEF Read
  <2>3. CASE UnderWay(q) /\ req[q].op = "read"
    <3>1. req[q].at \in Nat /\ req[q].n \in Nat /\ ~PastEnd(req[q]) /\ moved[q] \in Nat
        BY SMTT(30), <2>3, UnderWayMoves, MoverFact, RequestFact
    <3>2. ~Conflict(r, req[q])
        BY Zenon, <1>2, <2>3, MoverApart
    <3>3. ASSUME NEW i \in 1..req[q].n PROVE mem'[req[q].at + i - 1] = mem[req[q].at + i - 1]
      <4>1. req[q].at + i - 1 \in Blocks
        BY SMTT(30), <3>1, <3>3, DiskAssumption DEF PastEnd, Blocks
      <4>2. r.op = "write" => block # req[q].at + i - 1
        BY SMTT(30), <1>1, <3>1, <3>2 DEF Conflict
      <4>3. QED
        BY Zenon, <1>1, <1>3, <4>1, <4>2
    <3>4. Read[q] = [i \in 1..req[q].n |->
                        IF i <= moved[q] THEN pages[q][i] ELSE mem[req[q].at + i - 1]]
        BY Zenon, <2>3 DEF Read
    <3>5. Read'[q] = [i \in 1..req[q].n |->
                        IF i <= moved[q] THEN pages[q][i] ELSE mem'[req[q].at + i - 1]]
        BY Zenon, <2>1, <2>3 DEF Read
    <3>6. QED
        BY Zenon, <3>3, <3>4, <3>5
  <2>4. QED
    BY Zenon, <2>2, <2>3
<1>5. ASSUME r.op = "write" PROVE Read'[p] = Read[p]
    BY Zenon, <1>1, <1>5 DEF Read
<1>6. ASSUME r.op = "read"
      PROVE  Read'[p] = [i \in 1..r.n |-> IF i <= moved[p] THEN pages[p][i] ELSE mem[r.at + i - 1]]
  <2> DEFINE all == [i \in 1..r.n |->
                        IF i <= moved[p] THEN pages[p][i] ELSE mem[r.at + i - 1]]
  <2>1. /\ pages'[p] \in Seq(Contents) /\ Len(pages[p]) = moved[p]
        /\ Len(pages'[p]) = moved[p] + 1
        /\ \A i \in 1..moved[p] : pages'[p][i] = pages[p][i]
        /\ pages'[p][moved[p] + 1] = mem[block]
    <3>1. Len(pages[p]) = moved[p] /\ mem[block] \in Contents
        BY Zenon, <1>1, <1>2, <1>3, <1>6 DEF Filled
    <3>2. pages'[p] = Append(pages[p], mem[block])
        BY Zenon, <1>1, <1>6 DEF Inv, Types
    <3>3. QED
        BY SMTT(30), <1>2, <3>1, <3>2, AppendProperties
  <2>2. \A i \in 1..moved[p]+1 :
            pages'[p][i] = IF i <= moved[p] THEN pages[p][i] ELSE mem[r.at + i - 1]
    BY SMTT(30), <1>1, <2>1
  <2>3. CASE pc'[p] = "ended"
    <3>1. moved[p] + 1 = r.n /\ ~UnderWay(p)'
        BY Zenon, <1>1, <1>2, <2>3 DEF UnderWay
    <3>2. Read'[p] = pages'[p]
        BY Zenon, <3>1 DEF Read
    <3>3. pages'[p] = [i \in 1..r.n |-> pages'[p][i]]
        BY SMTT(30), <2>1, <3>1, SeqDef
    <3>4. \A i \in 1..r.n : pages'[p][i] = all[i]
        BY Zenon, <2>2, <3>1
    <3>5. QED
        BY Zenon, <3>2, <3>3, <3>4
  <2>4. CASE pc'[p] # "ended"
    <3>1. UnderWay(p)' /\ moved'[p] = moved[p] + 1
        BY SMTT(30), <1>1, <1>2, <2>4 DEF UnderWay
    <3>2. Read'[p] = [i \in 1..r.n |->
                        IF i <= moved[p] + 1 THEN pages'[p][i] ELSE mem[r.at + i - 1]]
        BY ZenonT(30), <1>1, <1>6, <3>1 DEF Read
    <3>3. ASSUME NEW i \in 1..r.n
          PROVE  (IF i <= moved[p] + 1 THEN pages'[p][i] ELSE mem[r.at + i - 1]) = all[i]
        BY SMTT(30), <1>1, <2>2, <3>3
    <3>4. QED
        BY Zenon, <3>2, <3>3
  <2>5. QED
    BY Zenon, <2>3, <2>4
<1>7. ASSUME r.op = "read", moved[p] > 0 PROVE Read'[p] = Read[p]
  <2>1. UnderWay(p)
    BY Zenon, <1>1, <1>2, <1>7 DEF UnderWay
  <2>2. QED
    BY Zenon, <1>6, <1>7, <2>1 DEF Read
<1>8. ASSUME r.op = "read", moved[p] = 0
      PROVE  Read'[p] = [i \in 1..r.n |-> Shown[r.at + i - 1]]
  <2>1. ASSUME NEW i \in 1..r.n PROVE mem[r.at + i - 1] = Shown[r.at + i - 1]
    <3>0. r.at \in Nat /\ r.n \in Nat /\ r.at + r.n <= Size /\ i \in Nat /\ 1 <= i /\ i <= r.n /\ Size \in Nat
        BY SMTT(60), <1>1, <2>1, DiskAssumption
    <3>1. r.at + i - 1 \in Blocks /\ r.at + i - 1 \in r.at .. r.at+r.n-1
        BY SMTT(60), <3>0 DEF Blocks
    <3>2. \A q \in Procs : Writing(q, r.at + i - 1) => q = p
        BY Zenon, <1>2, <3>1, OneWriter
    <3>3. \A q \in Procs : ~Writing(q, r.at + i - 1)
        BY Zenon, <1>8, <3>2 DEF Writing
    <3>4. QED
        BY Zenon, <3>1, <3>3, ShownFact DEF ShownRight
  <2>2. Read'[p] = [i \in 1..r.n |-> mem[r.at + i - 1]]
    <3>1. \A i \in 1..r.n : ~(i <= moved[p])
        BY SMTT(30), <1>1, <1>8
    <3>2. QED
        BY Zenon, <1>6, <1>8, <3>1
  <2>3. QED
    BY Zenon, <2>1, <2>2
<1>9. QED
    BY Zenon, <1>4, <1>5, <1>7, <1>8

\* The first block of a request is its instant, the others show nothing.
LEMMA MoveAtomic ==
    ASSUME Inv, Inv', NEW p \in Procs, MoveStep(p)
    PROVE  Atomic!Next \/ UNCHANGED Atomic!vars
<1> DEFINE r == req[p]
           st == [q \in Procs |-> Stage(q)]
<1>1. /\ r \in Requests /\ r.at \in Nat /\ r.n \in Nat /\ r.at + r.n <= Size
      /\ moved[p] \in Nat /\ r.op \in {"read", "write"} /\ r.fs
      /\ \A q \in Procs :
           /\ moved'[q] = IF q = p THEN moved[q] + 1 ELSE moved[q]
           /\ pc'[q] = IF q = p /\ rst = p /\ moved[p] + 1 = r.n THEN "ended" ELSE pc[q]
      /\ req' = req
    BY Zenon, MoveFact
<1>2. pc[p] \in {"copy", "queued"}
    BY Zenon, MoverFact DEF MoveStep
<1>3. \A q \in Procs \ {p} : Stage(q)' = Stage(q)
    BY Zenon, <1>1 DEF Stage, UnderWay
<1>4. Stage(p)' = "done"
    BY SMTT(30), <1>1, <1>2, StageNext DEF StageRight, UnderWay
<1>5. Stage(p) = IF moved[p] > 0 THEN "done" ELSE "sent"
    BY Zenon, <1>1, <1>2, StageFact DEF StageRight, UnderWay
<1>6. CASE moved[p] > 0
  <2>1. \A b \in Blocks : Shown'[b] = Shown[b]
    BY Zenon, <1>1, <1>6, MoveShown
  <2>2. \A q \in Procs : Read'[q] = Read[q]
    BY Zenon, <1>1, <1>6, MoveRead
  <2>3. UNCHANGED Shown /\ UNCHANGED Read
    BY Zenon, <2>1, <2>2, ShownIsFunction, ReadIsFunction
  <2>4. st' = st
    BY Zenon, <1>3, <1>4, <1>5, <1>6
  <2>5. QED
    BY Zenon, <1>1, <2>3, <2>4 DEF Atomic!vars
<1>7. CASE moved[p] = 0
  <2>1. st' = [st EXCEPT ![p] = "done"] /\ st[p] = "sent"
    <3>1. Stage(p) = "sent"
        BY SMTT(30), <1>5, <1>7
    <3>2. QED
        BY Zenon, <1>3, <1>4, <3>1
  <2>2. Atomic!Fits(r)
    BY Zenon, <1>1 DEF Atomic!Fits
  <2>3. CASE r.op = "write"
    <3>1. \A q \in Procs : Read'[q] = Read[q]
        BY Zenon, <2>3, MoveRead
    <3>2. UNCHANGED Read
        BY Zenon, <3>1, ReadIsFunction
    <3>3. \A b \in Blocks :
            Shown'[b] = IF b \in r.at .. r.at+r.n-1 THEN Data(p, b - r.at) ELSE Shown[b]
        BY Zenon, <1>7, <2>3, MoveShown
    <3>4. Shown' = [b \in Atomic!Blocks |->
                      IF b \in r.at .. r.at+r.n-1 THEN Atomic!Data(p, b - r.at) ELSE Shown[b]]
        BY Zenon, <3>3, ShownIsFunction DEF Blocks, Atomic!Blocks, Data, Atomic!Data
    <3>5. Atomic!Execute(p)
        BY Zenon, <1>1, <2>1, <2>2, <2>3, <3>2, <3>4 DEF Atomic!Execute
    <3>6. QED
        BY Zenon, <3>5 DEF Atomic!Next
  <2>4. CASE r.op = "read"
    <3>1. \A b \in Blocks : Shown'[b] = Shown[b]
        BY Zenon, <2>4, MoveShown
    <3>2. UNCHANGED Shown
        BY Zenon, <3>1, ShownIsFunction
    <3>3. Read' = [Read EXCEPT ![p] = [i \in 1..r.n |-> Shown[r.at + i - 1]]]
      <4>1. Read'[p] = [i \in 1..r.n |-> Shown[r.at + i - 1]]
        BY Zenon, <1>7, <2>4, MoveRead
      <4>2. \A q \in Procs \ {p} : Read'[q] = Read[q]
        BY Zenon, MoveRead
      <4>3. QED
        BY Zenon, <4>1, <4>2, ReadIsFunction
    <3>4. Atomic!Execute(p)
        BY Zenon, <1>1, <2>1, <2>2, <2>4, <3>2, <3>3 DEF Atomic!Execute
    <3>5. QED
        BY Zenon, <3>4 DEF Atomic!Next
  <2>5. QED
    BY Zenon, <1>1, <2>3, <2>4
<1>8. QED
    BY SMTT(30), <1>1, <1>6, <1>7

LEMMA NextAtomic == Inv /\ Inv' /\ [Next]_vars => [Atomic!Next]_(Atomic!vars)
<1> SUFFICES ASSUME Inv, Inv', [Next]_vars PROVE Atomic!Next \/ UNCHANGED Atomic!vars
    BY Zenon
<1>1. CASE UNCHANGED <<mem, pc, req, moved, pages>>
    BY SMTT(30), <1>1 DEF Atomic!vars, Shown, Read, Stage, UnderWay, Rest
<1>2. CASE UNCHANGED vars
    BY Zenon, <1>1, <1>2 DEF vars
<1>3. CASE RunQueue
    BY Zenon, <1>1, <1>3 DEF RunQueue
<1>4. ASSUME NEW p \in Procs, Chunk(p) \/ Submit(p) \/ Bio(p) \/ Reap(p)
      PROVE  Atomic!Next \/ UNCHANGED Atomic!vars
    BY SMTT(30), <1>4, QuietAtomic, EndAtomic, MoveAtomic, SegmentMoves, Zenon DEF Submit, Bio
<1>5. QED
    BY Zenon, <1>2, <1>3, <1>4 DEF Next, RequestFn

\* The four RAM disks implement the atomic disk: requests take effect at one
\* instant although the segment loops of the make_request functions run
\* unlocked and the request functions work chunk by chunk.
THEOREM DiskIsAtomic == Spec => ImplementsAtomicDisk
<1>1. Spec => []Inv
    BY InitInv, NextInv, PTL DEF Spec
<1>2. QED
    BY <1>1, InitAtomic, NextAtomic, PTL DEF Spec, ImplementsAtomicDisk, Atomic!Spec
=============================================================================
