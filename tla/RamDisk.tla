------------------------------- MODULE RamDisk -------------------------------
(***************************************************************************)
(* The data path of the four RAM disks.  block/bdev.c and                  *)
(* block/ram2block/ram2.c ("bio") set a make_request function: it runs in  *)
(* the submitter's context, takes no lock, and copies the bio segment by   *)
(* segment.  block/bdev-regular.c and block/ramblock/ram.c ("queue") set a *)
(* request function: the block layer calls it with the queue lock held,    *)
(* and it works off the queue, one chunk of a request after the other.     *)
(*                                                                         *)
(* A block stands for what one memcpy moves, a segment or a chunk.  Two    *)
(* bios that share a block and are under way together may be interleaved   *)
(* by "bio" in any way; keeping them apart is left to its submitters, as   *)
(* the page cache does with the page lock.  "queue" relies on nobody.      *)
(***************************************************************************)
EXTENDS Integers, Sequences

CONSTANTS Procs, Size, Lens, NoRequest, Blank, Nobody

ASSUME DiskAssumption ==
    /\ Size \in Nat \ {0}
    /\ Lens \subseteq Nat \ {0}
    /\ Nobody \notin Procs

VARIABLES
    driver,     \* which of the two is loaded
    mem,        \* sptr->data, pdisk.data, mem
    rst,        \* whose request the request function works on; it holds the lock
    queued,     \* whose requests are in the queue
    pc, req,    \* how far a submitter's request is, and what it asks
    moved,      \* the blocks copied so far
    pages       \* what a read has put into the pages of the bio

vars == <<driver, mem, rst, queued, pc, req, moved, pages>>

Blocks == 0..Size-1

\* Requests of the file system, and the other ones, which only a queue gets.
Requests ==
    [op : {"read", "write"}, at : Blocks, n : Lens, fs : {TRUE}]
      \cup [op : {"read"}, at : {0}, n : Lens, fs : {FALSE}]

PastEnd(r) == r.at + r.n > Size
Data(p, i) == <<p, i>>

Init ==
    /\ driver \in {"bio", "queue"}
    /\ mem = [b \in Blocks |-> Blank]
    /\ rst = Nobody
    /\ queued = {}
    /\ pc = [p \in Procs |-> "idle"]
    /\ req = [p \in Procs |-> NoRequest]
    /\ moved = [p \in Procs |-> 0]
    /\ pages = [p \in Procs |-> <<>>]

Goto(p, label) == pc' = [pc EXCEPT ![p] = label]

\* Mutant of Move: buf is not advanced from segment to segment.
MoveNoAdvance(p) ==
    LET r == req[p] IN
    IF r.op = "write"
      THEN mem' = [mem EXCEPT ![r.at] = Data(p, moved[p])] /\ UNCHANGED pages
      ELSE pages' = [pages EXCEPT ![p] = Append(@, mem[r.at])] /\ UNCHANGED mem

\* One memcpy between the disk and a page of the request.
Move(p) ==
    LET r == req[p]
        block == r.at + moved[p] IN
    IF r.op = "write"
      THEN mem' = [mem EXCEPT ![block] = Data(p, moved[p])] /\ UNCHANGED pages
      ELSE pages' = [pages EXCEPT ![p] = Append(@, mem[block])] /\ UNCHANGED mem

-----------------------------------------------------------------------------
\* A make_request function: the submitter runs it itself.

\* Two requests that must not be under way together.
Conflict(r, s) ==
    /\ "write" \in {r.op, s.op}
    /\ r.at < s.at + s.n
    /\ s.at < r.at + r.n

BioSubmit(p, r) ==
    /\ driver = "bio" /\ pc[p] = "idle" /\ r.fs
    /\ \A q \in Procs : pc[q] \in {"check", "copy"} => ~Conflict(r, req[q])
    /\ req' = [req EXCEPT ![p] = r]
    /\ Goto(p, "check")
    /\ UNCHANGED <<driver, mem, rst, queued, moved, pages>>

\* The block layer refuses most of what lies past the end; the driver still
\* looks for itself, before it touches the first segment.
BioCheck(p) ==
    /\ pc[p] = "check"
    /\ Goto(p, IF PastEnd(req[p]) THEN "failed" ELSE "copy")
    /\ UNCHANGED <<driver, mem, rst, queued, req, moved, pages>>

BioSegment(p) ==
    /\ pc[p] = "copy" /\ moved[p] < req[p].n
    /\ Move(p)
    /\ moved' = [moved EXCEPT ![p] = @ + 1]
    /\ UNCHANGED <<driver, rst, queued, pc, req>>

BioEnd(p) ==
    /\ pc[p] = "copy" /\ moved[p] = req[p].n
    /\ Goto(p, "ended")
    /\ UNCHANGED <<driver, mem, rst, queued, req, moved, pages>>

-----------------------------------------------------------------------------
\* A request function, and the queue in front of it.

\* The block layer keeps away what exceeds the capacity that start has set,
\* and queues the rest under the queue lock.
QueueSubmit(p, r) ==
    /\ driver = "queue" /\ pc[p] = "idle" /\ rst = Nobody
    /\ r.fs => ~PastEnd(r)
    /\ req' = [req EXCEPT ![p] = r]
    /\ Goto(p, "queued")
    /\ queued' = queued \cup {p}
    /\ UNCHANGED <<driver, mem, rst, moved, pages>>

\* blk_fetch_request, in the order the elevator likes; with nothing left
\* the function returns and the lock is released.
Fetch(from) ==
    IF from = {} THEN rst' = Nobody /\ UNCHANGED queued
    ELSE \E p \in from : rst' = p /\ queued' = from \ {p}

RunQueue ==
    /\ rst = Nobody /\ queued # {}
    /\ Fetch(queued)
    /\ UNCHANGED <<driver, mem, pc, req, moved, pages>>

\* Mutant of Chunk: the -EIO path goes round the loop without ending the
\* request it refuses.
ChunkSpins(p) ==
    /\ rst = p
    /\ IF req[p].fs THEN Move(p) ELSE UNCHANGED <<mem, pages>>
    /\ moved' = [moved EXCEPT ![p] = IF req[p].fs THEN @ + 1 ELSE @]
    /\ IF moved'[p] < req[p].n
         THEN UNCHANGED <<pc, rst, queued>>
         ELSE Goto(p, "ended") /\ Fetch(queued)
    /\ UNCHANGED <<driver, req>>

\* One pass of the loop: transfer the current chunk or refuse it, end it,
\* and fetch the next request once this one has no chunk left.
Chunk(p) ==
    /\ rst = p
    /\ IF req[p].fs THEN Move(p) ELSE UNCHANGED <<mem, pages>>
    /\ moved' = [moved EXCEPT ![p] = @ + 1]
    /\ IF moved'[p] < req[p].n
         THEN UNCHANGED <<pc, rst, queued>>
         ELSE Goto(p, IF req[p].fs THEN "ended" ELSE "failed") /\ Fetch(queued)
    /\ UNCHANGED <<driver, req>>

-----------------------------------------------------------------------------

Reap(p) ==
    /\ pc[p] \in {"ended", "failed"}
    /\ Goto(p, "idle")
    /\ req' = [req EXCEPT ![p] = NoRequest]
    /\ moved' = [moved EXCEPT ![p] = 0]
    /\ pages' = [pages EXCEPT ![p] = <<>>]
    /\ UNCHANGED <<driver, mem, rst, queued>>

Submit(p) == \E r \in Requests : BioSubmit(p, r) \/ QueueSubmit(p, r)
Bio(p) == BioCheck(p) \/ BioSegment(p) \/ BioEnd(p)
RequestFn == RunQueue \/ \E p \in Procs : Chunk(p)

Next == RequestFn \/ \E p \in Procs : Submit(p) \/ Bio(p) \/ Reap(p)

Spec == Init /\ [][Next]_vars

\* A submitter inside the make_request function runs on, and the block
\* layer unplugs a queue that is not empty.  Nobody has to submit.
FairSpec == Spec /\ WF_vars(RequestFn) /\ \A p \in Procs : WF_vars(Bio(p))

-----------------------------------------------------------------------------

\* A request is under way from its first block to its last, the blocks it
\* has still to move are Rest, and the disk and the pages as they will be
\* once it is done are what the abstract disk shows from the first block on.
UnderWay(p) == pc[p] \in {"copy", "queued"} /\ moved[p] > 0 /\ req[p].fs
Rest(p) == req[p].at + moved[p] .. req[p].at + req[p].n - 1
Shown ==
    [b \in Blocks |->
        IF \E p \in Procs : UnderWay(p) /\ req[p].op = "write" /\ b \in Rest(p)
          THEN LET p == CHOOSE q \in Procs : UnderWay(q) /\ req[q].op = "write" /\ b \in Rest(q)
               IN Data(p, b - req[p].at)
          ELSE mem[b]]
Read ==
    [p \in Procs |->
        IF UnderWay(p) /\ req[p].op = "read"
          THEN [i \in 1..req[p].n |->
                   IF i <= moved[p] THEN pages[p][i] ELSE mem[req[p].at + i - 1]]
          ELSE pages[p]]
Stage(p) ==
    CASE pc[p] = "idle" -> "idle"
      [] pc[p] = "failed" -> "failed"
      [] pc[p] = "ended" \/ UnderWay(p) -> "done"
      [] OTHER -> "sent"

\* Every request takes effect at one instant: bios that do not conflict
\* although their unlocked segment loops interleave, and all requests of a
\* queue although they are worked off chunk by chunk; what is refused, past
\* the end or not the file system's, leaves the disk alone.
Atomic == INSTANCE AtomicDisk
            WITH disk <- Shown, got <- Read, st <- [p \in Procs |-> Stage(p)]
ImplementsAtomicDisk == Atomic!Spec

\* Every request is ended, with bio_endio, bio_io_error or the last chunk.
EveryRequestEnds ==
    \A p \in Procs :
        pc[p] \in {"check", "copy", "queued"} ~> pc[p] \in {"ended", "failed"}
=============================================================================
