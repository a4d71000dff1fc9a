------------------------------ MODULE LossyFifo ------------------------------
(***************************************************************************)
(* What the character-device rings of this repository promise to their     *)
(* users: a byte stream that is delivered in order and without             *)
(* duplicates, from which an overrun removes exactly Size consecutive      *)
(* bytes, the oldest ones.                                                 *)
(*                                                                         *)
(* A byte is named by its position in the stream of bytes the device has   *)
(* accepted: the first one is 1.  The bytes waiting to be read are always  *)
(* a contiguous range next .. sent.                                        *)
(***************************************************************************)
EXTENDS Integers, Sequences

CONSTANTS
    Procs,      \* the processes that use the device
    Size,       \* the size of the ring in bytes
    Faults      \* whether a user buffer may be partly unmapped

VARIABLES
    sent,       \* how many bytes have been accepted
    next,       \* the oldest byte that a read can still return
    out         \* out[p]: the bytes p's current read has delivered

vars == <<sent, next, out>>

Pending == sent - next + 1

Init ==
    /\ sent = 0
    /\ next = 1
    /\ out = [p \in Procs |-> <<>>]

\* k bytes are accepted.  When the ring overruns, Size bytes are gone.
Write(k) ==
    /\ sent' = sent + k
    /\ next' = IF Pending + k >= Size THEN next + Size ELSE next
    /\ UNCHANGED out

\* The k oldest bytes are consumed.  All of them reach the reader, unless
\* the reader's buffer faults after d bytes.
Read(p, k, d) ==
    /\ k <= Pending
    /\ d <= k
    /\ ~Faults => d = k
    /\ out' = [out EXCEPT ![p] = [i \in 1..d |-> next + i - 1]]
    /\ next' = next + k
    /\ UNCHANGED sent

\* The system call of p returns; its buffer now belongs to the program.
Return(p) ==
    /\ out' = [out EXCEPT ![p] = <<>>]
    /\ UNCHANGED <<sent, next>>

Next ==
    \/ \E k \in 0..Size : Write(k)
    \/ \E p \in Procs, k, d \in 0..Size : Read(p, k, d)
    \/ \E p \in Procs : Return(p)

Spec == Init /\ [][Next]_vars
=============================================================================
