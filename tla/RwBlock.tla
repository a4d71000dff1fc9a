------------------------------- MODULE RwBlock -------------------------------
(***************************************************************************)
(* The ring of rw_block/scullb.c with one reading and one writing program. *)
(* There is no lock: sdev_read and sdev_write interleave wherever one of   *)
(* them touches read, write, flag or the buffer.  Nothing keeps a write    *)
(* from overrunning the reader either; lapped remembers that more bytes    *)
(* were outstanding than the ring can tell from none.                      *)
(*                                                                         *)
(* Bytes are named by their position in the stream, and the copies cannot  *)
(* fail: copy_to_user and copy_from_user never return a negative value.    *)
(***************************************************************************)
EXTENDS Integers, Sequences

CONSTANTS
    size,       \* sdev.size
    Lens,       \* the lengths the two programs pass
    MaxBytes    \* no write starts once this many bytes are accepted

ASSUME RwAssumption == size \in Nat \ {0} /\ Lens \subseteq Nat /\ MaxBytes \in Nat

VARIABLES
    read, write, flag, buf,     \* of the driver
    rwait,                      \* whether the reader is queued on rwait
    sig,                        \* whether it has a signal pending
    rpc, rlen, rcount, out,     \* sdev_read: label, len, count, the bytes delivered
    wpc, wlen, wcount,    \* sdev_write: label, len, count
    sent, taken, lapped         \* history: bytes accepted, and returned

driver == <<read, write, flag, buf>>
reader == <<rwait, sig, rpc, rlen, rcount, out>>
writer == <<wpc, wlen, wcount>>
vars   == <<driver, reader, writer, sent, taken, lapped>>

Min(a, b) == IF a <= b THEN a ELSE b

Init ==
    /\ read = 0 /\ write = 0 /\ flag = 0
    /\ buf = [i \in 0..size-1 |-> 0]
    /\ rwait = FALSE /\ sig = FALSE
    /\ rpc = "idle" /\ rlen = 0 /\ rcount = 0 /\ out = <<>>
    /\ wpc = "idle" /\ wlen = 0 /\ wcount = 0 
    /\ sent = 0 /\ taken = 0 /\ lapped = FALSE

-----------------------------------------------------------------------------
\* sdev_read

ReadStart(len) ==
    /\ rpc = "idle"
    /\ rpc' = "wait" /\ rlen' = len
    /\ UNCHANGED <<driver, rwait, sig, rcount, out, writer, sent, taken, lapped>>

\* wait_event_interruptible queues, tests flag, and sleeps; sdev_read goes
\* on in the same way after a signal, whose return value it drops.
ReadWait ==
    /\ \/ rpc = "wait"
       \/ rpc = "sleep" /\ (~rwait \/ sig)
    /\ IF flag # 0 \/ sig
         THEN rpc' = "clear" /\ rwait' = FALSE
         ELSE rpc' = "sleep" /\ rwait' = TRUE
    /\ UNCHANGED <<driver, sig, rlen, rcount, out, writer, sent, taken, lapped>>

ReadClear ==
    /\ rpc = "clear"
    /\ flag' = 0 /\ rpc' = "load"
    /\ UNCHANGED <<read, write, buf, rwait, sig, rlen, rcount, out, writer, sent, taken, lapped>>

\* write is loaded once and compared with read.  Ahead of it, everything is
\* returned, whatever len says; behind it, at most len up to the end.
ReadLoad ==
    /\ rpc = "load"
    /\ rpc' = IF write > read THEN "straight" ELSE IF write < read THEN "tail" ELSE "done"
    /\ rcount' = IF write > read THEN write - read
                 ELSE IF write < read THEN Min(size - read, rlen) ELSE 0
    /\ UNCHANGED <<driver, rwait, sig, rlen, out, writer, sent, taken, lapped>>

Copied(from) == out \o [i \in 1..rcount |-> buf[from + i - 1]]

ReadCopy ==
    /\ rpc \in {"straight", "tail"}
    /\ out' = Copied(read)
    /\ rpc' = IF rpc = "straight" \/ rlen < size - read THEN "advance" ELSE "round"
    /\ UNCHANGED <<driver, rwait, sig, rlen, rcount, writer, sent, taken, lapped>>

ReadAdvance ==
    /\ rpc = "advance"
    /\ read' = read + rcount
    /\ rpc' = "done"
    /\ UNCHANGED <<write, flag, buf, rwait, sig, rlen, rcount, out, writer, sent, taken, lapped>>

\* At the end of the buffer: back to its start, and on up to one byte
\* before write.
ReadRound ==
    LET rest == Min(write, rlen - rcount) IN
    /\ rpc = "round"
    /\ read' = 0
    /\ rcount' = IF rest < write THEN rest ELSE IF write = 0 THEN 0 ELSE write - 1
    /\ rpc' = "head"
    /\ UNCHANGED <<write, flag, buf, rwait, sig, rlen, out, writer, sent, taken, lapped>>

ReadHead ==
    /\ rpc = "head"
    /\ out' = Copied(0)
    /\ rpc' = "advance"
    /\ UNCHANGED <<driver, rwait, sig, rlen, rcount, writer, sent, taken, lapped>>

ReadDone ==
    /\ rpc = "done"
    /\ rpc' = "idle" /\ sig' = FALSE
    /\ rlen' = 0 /\ rcount' = 0 /\ out' = <<>>
    /\ taken' = taken + Len(out)
    /\ UNCHANGED <<driver, rwait, writer, sent, lapped>>

Signal ==
    /\ rpc \in {"wait", "sleep"}
    /\ sig' = TRUE
    /\ UNCHANGED <<driver, rwait, rpc, rlen, rcount, out, writer, sent, taken, lapped>>

-----------------------------------------------------------------------------
\* sdev_write

\* The flag goes up before there is anything to read.
WriteStart(len) ==
    /\ wpc = "idle" /\ sent < MaxBytes
    /\ flag' = 1
    /\ wlen' = len
    /\ wcount' = Min(len, size - write)
    /\ wpc' = IF len < size - write THEN "copy" ELSE "tail"
    /\ lapped' = (lapped \/ sent - taken + len >= size)
    /\ UNCHANGED <<read, write, buf, reader, sent, taken>>

Stored(at) ==
    [i \in 0..size-1 |-> IF i \in at .. at+wcount-1 THEN sent + 1 + (i - at) ELSE buf[i]]

\* Mutant of WriteCopy: write is advanced before the bytes are there.
WriteCopyLate ==
    \/ /\ wpc = "copy" /\ write' = write + wcount /\ wpc' = "late"
       /\ UNCHANGED <<read, flag, buf, reader, wlen, wcount, sent, taken, lapped>>
    \/ /\ wpc = "late" /\ buf' = Stored(write - wcount)
       /\ sent' = sent + wcount /\ wpc' = "wake"
       /\ UNCHANGED <<read, write, flag, reader, wlen, wcount, taken, lapped>>

WriteCopy ==
    /\ wpc \in {"copy", "tail", "head"}
    /\ buf' = Stored(IF wpc = "head" THEN 0 ELSE write)
    /\ sent' = sent + wcount
    /\ wpc' = CASE wpc = "copy" -> "advance" [] wpc = "tail" -> "turn" [] wpc = "head" -> "set"
    /\ UNCHANGED <<read, write, flag, reader, wlen, wcount, taken, lapped>>

WriteAdvance ==
    /\ wpc = "advance"
    /\ write' = write + wcount /\ wpc' = "wake"
    /\ UNCHANGED <<read, flag, buf, reader, wlen, wcount, sent, taken, lapped>>

\* Mutant of WriteTurn: what is left is not cut to the size of the buffer.
WriteTurnUncut ==
    /\ wpc = "turn"
    /\ write' = 0 /\ wcount' = wlen - wcount
    /\ wpc' = "head"
    /\ UNCHANGED <<read, flag, buf, reader, wlen, sent, taken, lapped>>

\* The bytes that do not fit before the end go to the start.
WriteTurn ==
    /\ wpc = "turn"
    /\ write' = 0 /\ wcount' = Min(wlen - wcount, size)
    /\ wpc' = "head"
    /\ UNCHANGED <<read, flag, buf, reader, wlen, sent, taken, lapped>>

WriteSet ==
    /\ wpc = "set"
    /\ write' = wcount /\ wpc' = "wake"
    /\ UNCHANGED <<read, flag, buf, reader, wlen, wcount, sent, taken, lapped>>

\* Mutant of WriteWake: the path round the end skips the label done.
WriteWakeNobody ==
    /\ wpc = "wake" /\ wpc' = "idle" /\ wlen' = 0 /\ wcount' = 0
    /\ UNCHANGED <<driver, reader, sent, taken, lapped>>

WriteWake ==
    /\ wpc = "wake"
    /\ rwait' = FALSE
    /\ wpc' = "idle" /\ wlen' = 0 /\ wcount' = 0
    /\ UNCHANGED <<driver, sig, rpc, rlen, rcount, out, sent, taken, lapped>>

-----------------------------------------------------------------------------

sdev_read ==
    \/ \E len \in Lens : ReadStart(len)
    \/ ReadWait \/ ReadClear \/ ReadLoad \/ ReadCopy \/ ReadAdvance \/ ReadRound \/ ReadHead
    \/ ReadDone
sdev_write ==
    \/ \E len \in Lens : WriteStart(len)
    \/ WriteCopy \/ WriteAdvance \/ WriteTurn \/ WriteSet \/ WriteWake

Next == sdev_read \/ sdev_write \/ Signal

Spec == Init /\ [][Next]_vars

-----------------------------------------------------------------------------

\* The offsets and counts that the unlocked handlers hand each other never
\* leave the buffer, not even after an overrun.
InsideTheBuffer ==
    /\ read \in 0..size /\ write \in 0..size
    /\ rpc \in {"straight", "tail"} => rcount \in 0..size - read
    /\ rpc = "head" => rcount \in 0..size
    /\ wpc \in {"copy", "tail"} => wcount \in 0..size - write
    /\ wpc = "head" => wcount \in 0..size

\* The reader sleeps while the flag is up only as long as the write that
\* raised it is under way and has its wake_up_interruptible to come.
FlagWakesReader == rpc = "sleep" /\ rwait /\ flag # 0 => wpc # "idle"

\* As long as no write has overrun the reader, sdev_read delivers the
\* stream in order, without a gap and without a byte twice, although it
\* shares read, write and the buffer with sdev_write without any lock.
InOrder ==
    ~lapped =>
        \A i \in 1..Len(out) : out[i] = taken + i
=============================================================================
