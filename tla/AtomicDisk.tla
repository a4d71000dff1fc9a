----------------------------- MODULE AtomicDisk -----------------------------
(***************************************************************************)
(* What a disk promises its submitters: a request takes effect at one      *)
(* instant between being submitted and being ended, all of it or, if it    *)
(* is refused, none of it.                                                 *)
(***************************************************************************)
EXTENDS Integers, Sequences

CONSTANTS
    Procs,      \* submitters, each with one request at a time
    Size,       \* how many blocks the disk has
    Requests,   \* what they submit: op, first block, length, file system or not
    NoRequest, Blank

VARIABLES
    disk,       \* what every block holds
    req,        \* the request of a submitter
    st,         \* and how far it has got
    got         \* what a read has returned

vars == <<disk, req, st, got>>

Blocks == 0..Size-1

Fits(r) == r.fs /\ r.at + r.n <= Size

\* The i-th block of p's write, told apart from every other block written.
Data(p, i) == <<p, i>>

Init ==
    /\ disk = [b \in Blocks |-> Blank]
    /\ req = [p \in Procs |-> NoRequest]
    /\ st = [p \in Procs |-> "idle"]
    /\ got = [p \in Procs |-> <<>>]

Submit(p) ==
    /\ st[p] = "idle"
    /\ \E r \in Requests : req' = [req EXCEPT ![p] = r]
    /\ st' = [st EXCEPT ![p] = "sent"]
    /\ UNCHANGED <<disk, got>>

Execute(p) ==
    LET r == req[p] IN
    /\ st[p] = "sent" /\ Fits(r)
    /\ \/ /\ r.op = "write"
          /\ disk' = [b \in Blocks |->
                        IF b \in r.at .. r.at+r.n-1 THEN Data(p, b - r.at) ELSE disk[b]]
          /\ UNCHANGED got
       \/ /\ r.op = "read"
          /\ got' = [got EXCEPT ![p] = [i \in 1..r.n |-> disk[r.at + i - 1]]]
          /\ UNCHANGED disk
    /\ st' = [st EXCEPT ![p] = "done"]
    /\ UNCHANGED req

Refuse(p) ==
    /\ st[p] = "sent" /\ ~Fits(req[p])
    /\ st' = [st EXCEPT ![p] = "failed"]
    /\ UNCHANGED <<disk, req, got>>

Reap(p) ==
    /\ st[p] \in {"done", "failed"}
    /\ req' = [req EXCEPT ![p] = NoRequest]
    /\ st' = [st EXCEPT ![p] = "idle"]
    /\ got' = [got EXCEPT ![p] = <<>>]
    /\ UNCHANGED disk

Next == \E p \in Procs : Submit(p) \/ Execute(p) \/ Refuse(p) \/ Reap(p)

Spec == Init /\ [][Next]_vars
=============================================================================
