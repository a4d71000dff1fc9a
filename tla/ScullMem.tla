------------------------------ MODULE ScullMem ------------------------------
(***************************************************************************)
(* The memory device of scull0/scull.c: a linked list of quantum sets that *)
(* grows on demand, under one semaphore.                                   *)
(*                                                                         *)
(* A handler touches the list only while it holds the semaphore, so what   *)
(* it does there is one action.  A process has a file of its own, so the   *)
(* kernel's copy of the position is the file's.                            *)
(*                                                                         *)
(* vmalloc is taken to succeed (the code tests its result with IS_ERR,     *)
(* which a NULL passes), and offsets to be small enough for the int that   *)
(* holds the index of a quantum set.                                       *)
(***************************************************************************)
EXTENDS Integers, Sequences

CONSTANTS
    Procs,          \* processes, each with one open file
    Uses,           \* Uses[p]: the operations p's program makes use of
    scull_quantum,  \* bytes per quantum
    scull_qset,     \* quanta per set
    Sets,           \* bound: offsets stay within this many quantum sets
    Seeks,          \* the offsets passed to llseek
    Lens,           \* the lengths passed to read and write
    Values,         \* names of the buffers passed to write
    NULL,           \* a null pointer
    Faults,         \* whether a user buffer may be partly unmapped
    MaxWrites       \* bound on the number of writes

size == scull_quantum * scull_qset
Cells == 0 .. Sets * size - 1

ASSUME MemAssumption ==
    /\ scull_quantum \in Nat \ {0} /\ scull_qset \in Nat \ {0} /\ Sets \in Nat \ {0}
    /\ Uses \in [Procs -> SUBSET {"open", "read", "write", "seek", "signal"}]
    /\ Seeks \subseteq Int /\ Lens \subseteq Nat /\ Values \subseteq Nat
    /\ Faults \in BOOLEAN /\ MaxWrites \in Nat

\* The quanta and the arrays of quanta; a null pointer is none of them.
Quanta == [0..scull_quantum-1 -> Nat]
Arrays == [0..scull_qset-1 -> Quanta \cup {NULL}]

ASSUME NullAssumption == NULL \notin Nat \cup Quanta \cup Arrays

VARIABLES
    data,       \* scull.data: the list of quantum sets
    sem,        \* scull.sema
    f_pos,      \* f_pos[p]: the position of p's file
    pc,         \* where in its handler a process is
    arg,        \* the length, and for a write the buffer, of its call
    ubuf,       \* what its read has delivered
    writes      \* how many writes have been called

vars == <<data, sem, f_pos, pc, arg, ubuf, writes>>

Min(a, b) == IF a <= b THEN a ELSE b

NoArg == [len |-> 0, buf |-> 0]

Init ==
    /\ data = <<>>
    /\ sem = 1
    /\ f_pos = [p \in Procs |-> 0]
    /\ pc = [p \in Procs |-> "idle"]
    /\ arg = [p \in Procs |-> NoArg]
    /\ ubuf = [p \in Procs |-> <<>>]
    /\ writes = 0

-----------------------------------------------------------------------------

Goto(p, label) == pc' = [pc EXCEPT ![p] = label]

\* Back in the program, which looks at its buffer only until it calls again.
Return(p) ==
    /\ Goto(p, "idle")
    /\ arg' = [arg EXCEPT ![p] = NoArg]
    /\ ubuf' = [ubuf EXCEPT ![p] = <<>>]

Down(p, from, to) ==
    /\ pc[p] = from
    /\ sem = 1 /\ sem' = 0
    /\ Goto(p, to)
    /\ UNCHANGED <<data, f_pos, arg, ubuf, writes>>

\* down_interruptible gives up when it would sleep and a signal is pending.
Interrupted(p, at) == pc[p] = at /\ sem = 0 /\ "signal" \in Uses[p]

-----------------------------------------------------------------------------
\* scull_open.  Only an open for writing does anything: it trims.

OpenStart(p) ==
    /\ pc[p] = "idle" /\ "open" \in Uses[p]
    /\ Goto(p, "o_down")
    /\ f_pos' = [f_pos EXCEPT ![p] = 0]
    /\ UNCHANGED <<data, sem, arg, ubuf, writes>>

OpenDown(p) == Down(p, "o_down", "o_crit")

Trim(p) ==
    /\ pc[p] = "o_crit"
    /\ data' = <<>>
    /\ sem' = 1
    /\ Return(p)
    /\ UNCHANGED <<f_pos, writes>>

\* scull_trim returns nothing, so the open succeeds untrimmed.
TrimInterrupted(p) ==
    /\ Interrupted(p, "o_down")
    /\ Return(p)
    /\ UNCHANGED <<data, sem, f_pos, writes>>

-----------------------------------------------------------------------------
\* scull_llseek

\* SEEK_END counts from the end of the first quantum set.
NewPos(p, o, whence) ==
    CASE whence = "set" -> o
      [] whence = "cur" -> f_pos[p] + o
      [] whence = "end" -> size + o

\* A negative position is refused.  The semaphore is held for one store
\* only, so the whole call is one action; interrupted it does nothing.
scull_llseek(p, o, whence) ==
    /\ pc[p] = "idle" /\ "seek" \in Uses[p]
    /\ NewPos(p, o, whence) \in Cells
    /\ sem = 1
    /\ f_pos' = [f_pos EXCEPT ![p] = NewPos(p, o, whence)]
    /\ UNCHANGED <<data, sem, pc, arg, ubuf, writes>>

-----------------------------------------------------------------------------
\* What scull_read and scull_write share.

\* The place of an offset: quantum set, quantum in the set, byte in it.
Index(o) == o \div size
Pos(o) == (o % size) \div scull_quantum
Offset(o) == (o % size) % scull_quantum

\* The list with nodes, still without a quantum array, up to index idx.
scull_follow(list, idx) ==
    [i \in 1 .. (IF idx < Len(list) THEN Len(list) ELSE idx + 1) |->
        IF i <= Len(list) THEN list[i] ELSE NULL]

\* One quantum at most.
Count(p) == Min(arg[p].len, scull_quantum - Offset(f_pos[p]))

Start(p, use, label, len, buf) ==
    /\ pc[p] = "idle" /\ use \in Uses[p]
    /\ f_pos[p] \in Cells
    /\ arg' = [arg EXCEPT ![p] = [len |-> len, buf |-> buf]]
    /\ Goto(p, label)
    /\ UNCHANGED <<data, sem, f_pos, ubuf>>

DownInterrupted(p) ==
    /\ Interrupted(p, "r_down") \/ Interrupted(p, "w_down")
    /\ Return(p)
    /\ UNCHANGED <<data, sem, f_pos, writes>>

-----------------------------------------------------------------------------
\* scull_read

ReadStart(p) ==
    \E len \in Lens : Start(p, "read", "r_down", len, 0) /\ UNCHANGED writes

ReadDown(p) == Down(p, "r_down", "r_crit")

\* The set has no array yet, or the array no such quantum.
Missing(list, o) ==
    LET node == list[Index(o) + 1] IN
    ~(node # NULL /\ node[Pos(o)] # NULL)

\* Mutant of ReadFail: -EFAULT is returned before the up.
ReadFailHolding(p) ==
    LET list == scull_follow(data, Index(f_pos[p])) IN
    /\ pc[p] = "r_crit" /\ Missing(list, f_pos[p])
    /\ data' = list /\ Return(p) /\ UNCHANGED <<sem, f_pos, writes>>

\* Nothing was written there, or copy_to_user fails.  The list has grown
\* all the same, and the position stays.
ReadFail(p) ==
    LET list == scull_follow(data, Index(f_pos[p])) IN
    /\ pc[p] = "r_crit"
    /\ Missing(list, f_pos[p]) \/ (Faults /\ Count(p) > 0)
    /\ data' = list
    /\ sem' = 1
    /\ Return(p)
    /\ UNCHANGED <<f_pos, writes>>

ReadCopy(p) ==
    LET list == scull_follow(data, Index(f_pos[p]))
        quantum == list[Index(f_pos[p]) + 1][Pos(f_pos[p])]
    IN
    /\ pc[p] = "r_crit" /\ ~Missing(list, f_pos[p])
    /\ data' = list
    /\ ubuf' = [ubuf EXCEPT ![p] =
                   [i \in 1..Count(p) |-> quantum[Offset(f_pos[p]) + i - 1]]]
    /\ f_pos' = [f_pos EXCEPT ![p] = @ + Count(p)]
    /\ sem' = 1
    /\ Goto(p, "done")
    /\ UNCHANGED <<arg, writes>>

ReadReturn(p) == pc[p] = "done" /\ Return(p) /\ UNCHANGED <<data, sem, f_pos, writes>>

-----------------------------------------------------------------------------
\* scull_write

WriteStart(p) ==
    /\ writes < MaxWrites /\ writes' = writes + 1
    /\ \E len \in Lens, buf \in Values : Start(p, "write", "w_down", len, buf)

WriteDown(p) == Down(p, "w_down", "w_crit")

\* Freshly allocated arrays and quanta are cleared.
Array(node) == IF node = NULL THEN [i \in 0..scull_qset-1 |-> NULL] ELSE node
Bytes(quantum) == IF quantum = NULL THEN [i \in 0..scull_quantum-1 |-> 0] ELSE quantum

\* Mutant of Stored: the bytes go to the start of the quantum.
StoredAtStart(p, quantum, n, done) ==
    [i \in 0..scull_quantum-1 |->
        IF i < done THEN arg[p].buf + i ELSE IF i < n THEN 0 ELSE Bytes(quantum)[i]]

\* The quantum with n bytes of p's buffer at the offset.  copy_from_user
\* clears what it could not copy after the first done bytes.
Stored(p, quantum, n, done) ==
    LET o == Offset(f_pos[p]) IN
    [i \in 0..scull_quantum-1 |->
        IF i \in o .. o+done-1 THEN arg[p].buf + (i - o)
        ELSE IF i \in o .. o+n-1 THEN 0
        ELSE Bytes(quantum)[i]]

\* A fault makes it -EAGAIN, and the position stays.
WriteCopy(p) ==
    LET list == scull_follow(data, Index(f_pos[p]))
        node == Array(list[Index(f_pos[p]) + 1])
    IN
    /\ pc[p] = "w_crit"
    /\ \E done \in 0..Count(p) :
          /\ ~Faults => done = Count(p)
          /\ data' = [list EXCEPT ![Index(f_pos[p]) + 1] =
                        [node EXCEPT ![Pos(f_pos[p])] = Stored(p, @, Count(p), done)]]
          /\ f_pos' = [f_pos EXCEPT ![p] = IF done = Count(p) THEN @ + Count(p) ELSE @]
    /\ sem' = 1
    /\ Return(p)
    /\ UNCHANGED writes

-----------------------------------------------------------------------------

Call(p) ==
    \/ OpenStart(p)
    \/ \E o \in Seeks, whence \in {"set", "cur", "end"} : scull_llseek(p, o, whence)
    \/ ReadStart(p)
    \/ WriteStart(p)

Acquire(p) == OpenDown(p) \/ ReadDown(p) \/ WriteDown(p)

Handler(p) ==
    \/ Trim(p) \/ TrimInterrupted(p) \/ DownInterrupted(p)
    \/ ReadFail(p) \/ ReadCopy(p) \/ ReadReturn(p)
    \/ WriteCopy(p)

Next == \E p \in Procs : Call(p) \/ Acquire(p) \/ Handler(p)

Spec == Init /\ [][Next]_vars

-----------------------------------------------------------------------------
\* scull.sema is held exactly while a process is in one of the critical
\* sections: each of the error returns of scull_read and scull_write, too,
\* gives it back.
SemaphoreDiscipline ==
    LET inside == {p \in Procs : pc[p] \in {"o_crit", "r_crit", "w_crit"}} IN
    IF sem = 1 THEN inside = {} ELSE \E p \in Procs : inside = {p}

\* The list as an array of bytes.
Content(o) ==
    IF Index(o) >= Len(data) \/ Missing(data, o)
      THEN NULL
      ELSE data[Index(o) + 1][Pos(o)][Offset(o)]

\* The list of quantum sets behaves as one flat array of quanta: however
\* holes, reads that extend the list, trims and writes at the edge of a set
\* follow each other, scull_read returns what scull_write last stored at
\* its file's position, and a write touches no other quantum.
Flat == INSTANCE FlatMemory
            WITH Quantum <- scull_quantum, Hole <- NULL, out <- ubuf, pos <- f_pos,
                 mem <- [o \in Cells |-> Content(o)]
ImplementsFlat == Flat!Spec

\* What "test trim every start" says of an open for writing: when it
\* returns, the device is empty.
OpenTrims ==
    [][\A p \in Procs :
          pc[p] \in {"o_down", "o_crit"} /\ pc'[p] = "idle" => data' = <<>>]_vars
=============================================================================
