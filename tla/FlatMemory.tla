----------------------------- MODULE FlatMemory -----------------------------
(***************************************************************************)
(* What a memory device promises its users: an array of bytes in which     *)
(* nothing is stored at first, a write stores into one quantum and clears  *)
(* the rest of a quantum it is the first to touch, and a read returns what *)
(* was stored there.  Both happen at the position of the caller's file and *)
(* move it by what they have transferred.                                  *)
(***************************************************************************)
EXTENDS Integers, Sequences

CONSTANTS
    Procs,      \* the processes that use the device
    Cells,      \* the offsets in use
    Quantum,    \* bytes per quantum
    Values,     \* what a program may write
    Hole,       \* the content of a cell of a quantum not yet written
    Faults      \* whether a user buffer may be partly unmapped

VARIABLES
    mem,        \* the array
    pos,        \* pos[p]: the position of p's file
    out         \* out[p]: the bytes p's current read has delivered

vars == <<mem, pos, out>>

SameQuantum(c, d) == c \div Quantum = d \div Quantum

Init ==
    /\ mem = [c \in Cells |-> Hole]
    /\ pos = [p \in Procs |-> 0]
    /\ out = [p \in Procs |-> <<>>]

Erase == mem' = [c \in Cells |-> Hole] /\ UNCHANGED <<pos, out>>

Seek(p, off) == pos' = [pos EXCEPT ![p] = off] /\ UNCHANGED <<mem, out>>

\* n bytes are written, the i-th one v + i.  After a fault the last ones
\* are zero and the position stays.
Write(p, n, v, done) ==
    LET off == pos[p] IN
    /\ \A i \in 0..n-1 : SameQuantum(off, off + i)
    /\ done <= n /\ (~Faults => done = n)
    /\ mem' = [c \in Cells |->
                  IF c \in off .. off+done-1 THEN v + (c - off)
                  ELSE IF c \in off .. off+n-1
                          \/ (SameQuantum(c, off) /\ mem[c] = Hole) THEN 0
                  ELSE mem[c]]
    /\ pos' = [pos EXCEPT ![p] = IF done = n THEN off + n ELSE off]
    /\ UNCHANGED out

Read(p, n) ==
    LET off == pos[p] IN
    /\ \A i \in 0..n-1 : off + i \in Cells /\ mem[off + i] # Hole
    /\ out' = [out EXCEPT ![p] = [i \in 1..n |-> mem[off + i - 1]]]
    /\ pos' = [pos EXCEPT ![p] = off + n]
    /\ UNCHANGED mem

Return(p) == out' = [out EXCEPT ![p] = <<>>] /\ UNCHANGED <<mem, pos>>

Next ==
    \/ Erase
    \/ \E p \in Procs :
          \/ \E off \in Cells : Seek(p, off)
          \/ \E n, done \in 0..Quantum, v \in Values : Write(p, n, v, done)
          \/ \E n \in 0..Quantum : Read(p, n)
          \/ Return(p)

Spec == Init /\ [][Next]_vars
=============================================================================
