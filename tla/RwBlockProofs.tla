---------------------------- MODULE RwBlockProofs ----------------------------
(***************************************************************************)
(* The ring of rw_block/scullb.c, for every size and every length.  The    *)
(* offsets stay inside the buffer whatever happens (Bounds).  As long as   *)
(* the reader has not been lapped, its bytes come in order (Order): what   *)
(* the two handlers have copied but not yet published by moving read or    *)
(* write is counted by Consumed and Accepted, and Gap is how far write is  *)
(* ahead of read.                                                          *)
(***************************************************************************)
EXTENDS RwBlock, SequenceTheorems, TLAPS

Types ==
    /\ read \in 0..size /\ write \in 0..size /\ flag \in {0, 1}
    /\ buf \in [0..size-1 -> Nat]
    /\ rlen \in Nat /\ rcount \in Nat /\ out \in Seq(Nat)
    /\ wlen \in Nat /\ wcount \in Nat
    /\ sent \in Nat /\ taken \in Nat

\* The counts of the reader, and those of the writer.
ReadBounds ==
    /\ rpc \in {"straight", "advance"} => read + rcount <= size
    /\ rpc = "tail" => rcount = Min(size - read, rlen)
    /\ rpc = "round" => rcount = size - read /\ rcount <= rlen
    /\ rpc = "head" => read = 0 /\ rcount <= size
WriteBounds ==
    /\ wpc \in {"copy", "advance"} => wcount = wlen /\ write + wcount < size
    /\ wpc \in {"tail", "turn"} => wcount <= wlen /\ write + wcount = size
    /\ wpc \in {"head", "set"} => write = 0 /\ wcount <= size
Bounds == Types /\ ReadBounds /\ WriteBounds

Consumed == taken + Len(out) - (IF rpc \in {"advance", "round"} THEN rcount ELSE 0)
Accepted == sent - (IF wpc \in {"advance", "turn", "set"} THEN wcount ELSE 0)
Gap == Accepted - Consumed

\* What the write under way has still to store.
Pending ==
    IF wpc \in {"copy", "tail"} THEN wlen
    ELSE IF wpc = "turn" THEN wlen - wcount
    ELSE IF wpc = "head" THEN wcount ELSE 0

\* The cell k places after read.
Slot(k) == IF read + k < size THEN read + k ELSE read + k - size

Order ==
    /\ read < size /\ write < size
    /\ Gap >= 0 /\ Consumed >= taken /\ sent - taken + Pending < size
    /\ write = Slot(Gap)
    /\ \A k \in 0..sent-Consumed-1 : buf[Slot(k)] = Consumed + 1 + k
    /\ \A i \in 1..Len(out) : out[i] = taken + i
    /\ rpc \in {"straight", "tail", "advance", "round", "head"} => rcount <= Gap
    /\ rpc \in {"straight", "advance"} => read + rcount < size
    /\ rpc \in {"idle", "wait", "sleep", "clear", "load", "straight", "tail"} => out = <<>>
Ordered == ~lapped => Order

-----------------------------------------------------------------------------

LEMMA InitBounds == Init => Bounds
<1> SUFFICES ASSUME Init PROVE Bounds
    BY Zenon
<1>1. Types
    BY SMTT(30), RwAssumption DEF Init, Types
<1>2. QED
    BY Zenon, <1>1 DEF Init, Bounds, ReadBounds, WriteBounds

\* Bytes copied from inside the buffer.
LEMMA CopiedFact ==
    ASSUME Types, NEW from \in Nat, from + rcount <= size
    PROVE  /\ Copied(from) \in Seq(Nat)
           /\ Len(Copied(from)) = Len(out) + rcount
           /\ \A i \in 1..Len(out) : Copied(from)[i] = out[i]
           /\ \A i \in Len(out)+1..Len(out)+rcount : Copied(from)[i] = buf[from + (i - Len(out)) - 1]
<1> DEFINE more == [i \in 1..rcount |-> buf[from + i - 1]]
<1>1. \A i \in 1..rcount : buf[from + i - 1] \in Nat
    BY SMTT(30), RwAssumption DEF Types
<1>2. more \in Seq(Nat) /\ Len(more) = rcount
    BY SMTT(30), <1>1 DEF Types
<1>3. out \in Seq(Nat)
    BY Zenon DEF Types
<1> HIDE DEF more
<1>4. /\ out \o more \in Seq(Nat)
      /\ Len(out \o more) = Len(out) + rcount
      /\ \A i \in 1..Len(out) + rcount :
            (out \o more)[i] = IF i <= Len(out) THEN out[i] ELSE more[i - Len(out)]
    BY Zenon, <1>2, <1>3, ConcatProperties
<1>5. \A j \in 1..rcount : more[j] = buf[from + j - 1]
    BY Zenon DEF more
<1>6. Copied(from) = out \o more
    BY Zenon DEF Copied, more
<1>7. Len(out) \in Nat /\ rcount \in Nat
    BY SMTT(30), <1>3 DEF Types
<1>8. ASSUME NEW i \in Len(out)+1..Len(out)+rcount
      PROVE  (out \o more)[i] = buf[from + (i - Len(out)) - 1]
  <2>1. i - Len(out) \in 1..rcount /\ i \in 1..Len(out)+rcount /\ ~(i <= Len(out))
    BY SMTT(30), <1>7
  <2>2. QED
    BY Zenon, <1>4, <1>5, <2>1
<1>9. \A i \in 1..Len(out) : (out \o more)[i] = out[i]
    BY SMTT(30), <1>4, <1>7
<1>10. QED
    BY Zenon, <1>4, <1>6, <1>8, <1>9

LEMMA ReadBoundsStep ==
    ASSUME Bounds, sdev_read
    PROVE  Bounds'
<1> USE RwAssumption DEF Bounds, Types, ReadBounds, WriteBounds, Min, driver, reader, writer
<1>0. CASE \E len \in Lens : ReadStart(len)
    BY Zenon, <1>0 DEF ReadStart
<1>1. CASE ReadWait \/ ReadClear
    BY Zenon, <1>1 DEF ReadWait, ReadClear
<1>2. CASE ReadLoad
    BY SMTT(30), <1>2 DEF ReadLoad
<1>3. CASE ReadCopy
  <2>1. read + rcount <= size
    BY SMTT(30), <1>3 DEF ReadCopy
  <2>2. Copied(read) \in Seq(Nat)
    BY SMTT(30), <2>1, CopiedFact
  <2>3. QED
    BY SMTT(30), <1>3, <2>1, <2>2 DEF ReadCopy
<1>4. CASE ReadAdvance
    BY SMTT(30), <1>4 DEF ReadAdvance
<1>5. CASE ReadRound
    BY SMTT(30), <1>5 DEF ReadRound
<1>6. CASE ReadHead
  <2>1. Copied(0) \in Seq(Nat)
    BY SMTT(30), <1>6, CopiedFact DEF ReadHead
  <2>2. QED
    BY SMTT(30), <1>6, <2>1 DEF ReadHead
<1>7. CASE ReadDone
  <2>1. taken + Len(out) \in Nat /\ <<>> \in Seq(Nat)
    BY SMTT(30)
  <2>2. QED
    BY Zenon, <1>7, <2>1 DEF ReadDone
<1>8. QED
    BY Zenon, <1>0, <1>1, <1>2, <1>3, <1>4, <1>5, <1>6, <1>7 DEF sdev_read

LEMMA WriteBoundsStep ==
    ASSUME Bounds, sdev_write
    PROVE  Bounds'
<1> USE RwAssumption DEF Bounds, Types, ReadBounds, WriteBounds, Min, driver, reader, writer
<1>1. ASSUME NEW len \in Lens, WriteStart(len) PROVE Bounds'
    BY SMTT(30), <1>1 DEF WriteStart
<1>2. CASE WriteCopy
  <2>1. \A at \in Nat : Stored(at) \in [0..size-1 -> Nat]
    BY SMTT(30) DEF Stored
  <2>2. QED
    BY SMTT(30), <1>2, <2>1 DEF WriteCopy
<1>3. CASE WriteAdvance
    BY SMTT(30), <1>3 DEF WriteAdvance
<1>4. CASE WriteTurn
    BY SMTT(30), <1>4 DEF WriteTurn
<1>5. CASE WriteSet
    BY SMTT(30), <1>5 DEF WriteSet
<1>6. CASE WriteWake
    BY Zenon, <1>6 DEF WriteWake
<1>7. QED
    BY Zenon, <1>1, <1>2, <1>3, <1>4, <1>5, <1>6 DEF sdev_write

LEMMA NextBounds == Bounds /\ [Next]_vars => Bounds'
<1> SUFFICES ASSUME Bounds, [Next]_vars PROVE Bounds'
    BY Zenon
<1>1. CASE UNCHANGED vars
    BY Zenon, <1>1 DEF vars, driver, reader, writer, Bounds, Types, ReadBounds, WriteBounds
<1>2. CASE Signal
    BY Zenon, <1>2 DEF Signal, driver, writer, Bounds, Types, ReadBounds, WriteBounds
<1>3. QED
    BY Zenon, <1>1, <1>2, ReadBoundsStep, WriteBoundsStep DEF Next

-----------------------------------------------------------------------------

LEMMA InitOrder == Init => Ordered
BY SMTT(30), RwAssumption DEF Init, Ordered, Order, Gap, Consumed, Accepted, Pending, Slot

LEMMA OrderFacts ==
    ASSUME Bounds, Order
    PROVE  /\ Consumed \in Nat /\ Accepted \in Int /\ Gap \in 0..size-1 /\ Pending \in Nat
           /\ Len(out) \in Nat
           /\ Accepted <= sent /\ taken <= Consumed /\ Consumed <= Accepted
           /\ Gap = Accepted - Consumed
           /\ sent - Consumed + Pending < size
<1>1. Len(out) \in Nat
    BY SMTT(30) DEF Bounds, Types
<1>2. Consumed \in Int /\ Accepted \in Int /\ Accepted <= sent
    BY SMTT(30), <1>1 DEF Bounds, Types, Consumed, Accepted
<1>3. Pending \in Nat
    BY SMTT(30) DEF Bounds, Types, WriteBounds, Pending
<1>4. Gap = Accepted - Consumed
    BY Zenon DEF Gap
<1>5. QED
    BY SMTT(30), <1>1, <1>2, <1>3, <1>4, RwAssumption DEF Bounds, Types, Order

\* The reader has consumed n bytes: the window begins n cells later.
LEMMA WindowMoves ==
    ASSUME Bounds, Order, NEW n \in 0..Gap,
           read' = IF read + n < size THEN read + n ELSE read + n - size,
           UNCHANGED <<write, buf, sent, Accepted>>, Consumed' = Consumed + n
    PROVE  /\ read' \in 0..size-1
           /\ Gap' = Gap - n /\ Gap' >= 0
           /\ write' = Slot(Gap)'
           /\ \A k \in 0..sent'-Consumed'-1 : buf'[Slot(k)'] = Consumed' + 1 + k
<1>0. /\ Consumed \in Nat /\ Accepted \in Int /\ Gap \in 0..size-1 /\ Pending \in Nat
      /\ Gap = Accepted - Consumed /\ sent - Consumed + Pending < size /\ Accepted <= sent
    BY Zenon, OrderFacts
<1>1. /\ read \in 0..size-1 /\ size \in Nat \ {0} /\ sent \in Nat
      /\ n \in Nat /\ n <= Gap
      /\ write' = write /\ buf' = buf /\ sent' = sent /\ Accepted' = Accepted
    BY SMTT(30), <1>0, RwAssumption DEF Bounds, Types, Order
<1>2. Gap' = Gap - n /\ Gap' >= 0
    BY SMTT(30), <1>0, <1>1 DEF Gap
<1>3. ASSUME NEW k \in Nat, k + n < size PROVE Slot(k)' = Slot(k + n)
    BY SMTT(30), <1>1, <1>3, <1>0 DEF Slot
<1>4. write' = Slot(Gap)'
  <2>1. Slot(Gap)' = IF read' + (Gap - n) < size THEN read' + (Gap - n)
                     ELSE read' + (Gap - n) - size
    BY Zenon, <1>2 DEF Slot
  <2>2. write = IF read + Gap < size THEN read + Gap ELSE read + Gap - size
    BY Zenon DEF Order, Slot
  <2>3. QED
    BY SMTT(30), <1>1, <2>1, <2>2, <1>0
<1>5. ASSUME NEW k \in 0..sent'-Consumed'-1 PROVE buf'[Slot(k)'] = Consumed' + 1 + k
  <2>1. k + n \in 0..sent-Consumed-1 /\ k \in Nat /\ k + n < size
    BY SMTT(30), <1>1, <1>0
  <2>2. buf[Slot(k + n)] = Consumed + 1 + (k + n)
    BY Zenon, <2>1 DEF Order
  <2>3. QED
    BY SMTT(30), <2>1, <2>2, <1>3, <1>0
<1>6. QED
    BY SMTT(30), <1>1, <1>2, <1>4, <1>5, <1>0

\* Steps of the reader that touch neither its offset nor its bytes.
LEMMA OrderBeforeCopy ==
    ASSUME Bounds, Order,
           (\E len \in Lens : ReadStart(len)) \/ ReadWait \/ ReadClear \/ Signal
    PROVE  Order'
<1>1. /\ UNCHANGED <<read, write, buf, out, sent, taken, wpc, wlen, wcount>>
      /\ rpc \in {"idle", "wait", "sleep", "clear"}
      /\ rpc' \in {"wait", "sleep", "clear", "load"}
    BY Zenon DEF ReadStart, ReadWait, ReadClear, Signal, driver, writer
<1>2. UNCHANGED <<Consumed, Accepted, Gap, Pending>>
    BY Zenon, <1>1 DEF Consumed, Accepted, Gap, Pending
<1>3. \A k : Slot(k)' = Slot(k)
    BY Zenon, <1>1 DEF Slot
<1>4. QED
    BY Zenon, <1>1, <1>2, <1>3 DEF Order

LEMMA OrderLoad ==
    ASSUME Bounds, Order, ReadLoad
    PROVE  Order'
<1>1. /\ UNCHANGED <<read, write, buf, out, sent, taken, wpc, wlen, wcount>>
      /\ rpc = "load" /\ rpc' \in {"straight", "tail", "done"}
    BY Zenon DEF ReadLoad, driver, writer
<1>2. UNCHANGED <<Consumed, Accepted, Gap, Pending>>
    BY Zenon, <1>1 DEF Consumed, Accepted, Gap, Pending
<1>3. \A k : Slot(k)' = Slot(k)
    BY Zenon, <1>1 DEF Slot
<1>4. write = IF read + Gap < size THEN read + Gap ELSE read + Gap - size
    BY Zenon DEF Order, Slot
<1>5. Gap \in 0..size-1 /\ read \in 0..size-1 /\ write \in 0..size-1 /\ rlen \in Nat /\ size \in Nat
    BY SMTT(30), OrderFacts, RwAssumption DEF Bounds, Types, Order
<1>6. rpc' \in {"straight", "tail"} => rcount' <= Gap
    BY SMTT(30), <1>4, <1>5 DEF ReadLoad, Min
<1>7. rpc' = "straight" => read + rcount' < size
    BY SMTT(30), <1>5 DEF ReadLoad
<1>8. QED
    BY Zenon, <1>1, <1>2, <1>3, <1>6, <1>7 DEF Order

\* The reader copies the first rcount bytes of the window.
LEMMA OrderCopy ==
    ASSUME Bounds, Order, ReadCopy \/ ReadHead
    PROVE  Order'
<1>0. /\ Consumed \in Nat /\ Accepted \in Int /\ Gap \in 0..size-1 /\ Len(out) \in Nat
      /\ Gap = Accepted - Consumed /\ sent - Consumed + Pending < size /\ Accepted <= sent
    BY Zenon, OrderFacts
<1>1. /\ UNCHANGED <<read, write, buf, rlen, rcount, sent, taken, wpc, wlen, wcount>>
      /\ rpc \in {"straight", "tail", "head"} /\ rpc' \in {"advance", "round"}
      /\ rcount \in Nat /\ read \in 0..size-1 /\ size \in Nat /\ taken \in Nat /\ sent \in Nat
    BY SMTT(30), RwAssumption DEF ReadCopy, ReadHead, driver, writer, Bounds, Types, Order
<1>2. out' = Copied(read)
    BY Zenon DEF ReadCopy, ReadHead, Bounds, ReadBounds
<1>3. rcount <= Gap /\ read + rcount <= size
    BY SMTT(30), <1>0, <1>1 DEF Order, Bounds, ReadBounds, Min
<1>4. /\ Len(out') = Len(out) + rcount
      /\ \A i \in 1..Len(out) : out'[i] = out[i]
      /\ \A i \in Len(out)+1..Len(out)+rcount : out'[i] = buf[read + (i - Len(out)) - 1]
  <2>1. Types /\ read \in Nat
    BY SMTT(30), <1>1 DEF Bounds
  <2>2. /\ Len(Copied(read)) = Len(out) + rcount
        /\ \A i \in 1..Len(out) : Copied(read)[i] = out[i]
        /\ \A i \in Len(out)+1..Len(out)+rcount :
              Copied(read)[i] = buf[read + (i - Len(out)) - 1]
    BY Zenon, <1>3, <2>1, CopiedFact
  <2>3. QED
    BY Zenon, <1>2, <2>2
<1>5. Consumed = taken + Len(out) /\ Consumed' = Consumed
  <2>1. Consumed = taken + Len(out)
    BY SMTT(30), <1>0, <1>1 DEF Consumed
  <2>2. Consumed' = taken + Len(out') - rcount
    BY Zenon, <1>1 DEF Consumed
  <2>3. QED
    BY SMTT(30), <1>0, <1>1, <1>4, <2>1, <2>2
<1>6. UNCHANGED <<Accepted, Gap, Pending>>
    BY Zenon, <1>1, <1>5 DEF Accepted, Gap, Pending
<1>7. \A k : Slot(k)' = Slot(k)
    BY Zenon, <1>1 DEF Slot
<1>8. ASSUME NEW i \in 1..Len(out)' PROVE out'[i] = taken + i
  <2>1. CASE i \in 1..Len(out)
    BY Zenon, <1>4, <2>1 DEF Order
  <2>2. CASE i \in Len(out)+1..Len(out)+rcount
    <3>1. (i - Len(out)) - 1 \in 0..sent-Consumed-1 /\ read + ((i - Len(out)) - 1) < size
      BY SMTT(30), <2>2, <1>0, <1>1, <1>3
    <3>2. Slot((i - Len(out)) - 1) = read + (i - Len(out)) - 1
      BY Zenon, <3>1, <1>0, <1>1, <2>2 DEF Slot
    <3>3. buf[Slot((i - Len(out)) - 1)] = Consumed + 1 + ((i - Len(out)) - 1)
      BY Zenon, <3>1 DEF Order
    <3>4. QED
      BY SMTT(30), <2>2, <3>2, <3>3, <1>0, <1>1, <1>4, <1>5
  <2>3. QED
    BY SMTT(30), <1>0, <1>1, <1>4, <2>1, <2>2
<1>9. rpc' = "advance" => read + rcount < size
  <2>1. CASE rpc = "straight"
    BY Zenon, <2>1 DEF Order
  <2>2. CASE rpc = "tail"
    BY SMTT(30), <2>2, <1>1 DEF ReadCopy, ReadHead, Bounds, Types, ReadBounds, Min
  <2>3. CASE rpc = "head"
    BY SMTT(30), <2>3, <1>0, <1>1, <1>3 DEF Bounds, ReadBounds
  <2>4. QED
    BY Zenon, <1>1, <2>1, <2>2, <2>3
<1>10. /\ read' < size /\ write' < size /\ Gap' >= 0 /\ Consumed' >= taken'
       /\ sent' - taken' + Pending' < size
       /\ rcount' <= Gap' /\ write' = Slot(Gap)'
    BY Zenon, <1>1, <1>3, <1>5, <1>6, <1>7 DEF Order
<1>11. \A k \in 0..sent'-Consumed'-1 : buf'[Slot(k)'] = Consumed' + 1 + k
    BY Zenon, <1>1, <1>5, <1>7 DEF Order
<1>12. QED
    BY Zenon, <1>1, <1>8, <1>9, <1>10, <1>11 DEF Order

\* The reader publishes what it has copied by moving read.
LEMMA OrderMove ==
    ASSUME Bounds, Order, ReadAdvance \/ ReadRound
    PROVE  Order'
<1>0. /\ Consumed \in Nat /\ Gap \in 0..size-1 /\ Len(out) \in Nat
      /\ taken <= Consumed
    BY Zenon, OrderFacts
<1>1. /\ UNCHANGED <<write, buf, out, sent, taken, wpc, wlen, wcount>>
      /\ rpc \in {"advance", "round"} /\ rpc' \in {"done", "head"}
      /\ rcount \in Nat /\ read \in 0..size-1 /\ size \in Nat /\ taken \in Nat /\ sent \in Nat
    BY SMTT(30), RwAssumption DEF ReadAdvance, ReadRound, driver, writer, Bounds, Types, Order
<1>2. rcount \in 0..Gap
    BY SMTT(30), <1>0, <1>1 DEF Order
<1>3. read' = IF read + rcount < size THEN read + rcount ELSE read + rcount - size
    BY SMTT(30), <1>1 DEF ReadAdvance, ReadRound, Order, Bounds, ReadBounds
<1>4. Consumed' = Consumed + rcount
    BY SMTT(30), <1>0, <1>1 DEF Consumed
<1>5. UNCHANGED <<Accepted, Pending>>
    BY Zenon, <1>1 DEF Accepted, Pending
<1>6. UNCHANGED <<write, buf, sent, Accepted>>
    BY Zenon, <1>1, <1>5
<1>7. /\ read' \in 0..size-1
      /\ Gap' = Gap - rcount /\ Gap' >= 0
      /\ write' = Slot(Gap)'
      /\ \A k \in 0..sent'-Consumed'-1 : buf'[Slot(k)'] = Consumed' + 1 + k
    BY Zenon, <1>2, <1>3, <1>4, <1>6, WindowMoves
<1>8. rpc' = "head" => rcount' <= Gap'
  <2>1. ASSUME ReadRound PROVE rcount' <= write
    BY SMTT(30), <2>1 DEF ReadRound, Bounds, Types, Min
  <2>2. ASSUME ReadRound PROVE write = Gap'
    <3>1. read' = 0
      BY Zenon, <2>2 DEF ReadRound
    <3>2. Gap' \in 0..size-1
      BY SMTT(30), <1>0, <1>1, <1>2, <1>7
    <3>3. Slot(Gap)' = IF 0 + Gap' < size THEN 0 + Gap' ELSE 0 + Gap' - size
      BY Zenon, <3>1 DEF Slot
    <3>4. write' = write
      BY Zenon, <1>1
    <3>5. QED
      BY SMTT(30), <1>1, <1>7, <3>2, <3>3, <3>4
  <2>3. QED
    BY Zenon, <2>1, <2>2 DEF ReadAdvance
<1>9. /\ write' < size /\ Consumed' >= taken' /\ sent' - taken' + Pending' < size
      /\ \A i \in 1..Len(out') : out'[i] = taken' + i
    BY SMTT(30), <1>0, <1>1, <1>2, <1>4, <1>5 DEF Order
<1>10. QED
    BY SMTT(30), <1>1, <1>7, <1>8, <1>9 DEF Order

LEMMA OrderDone ==
    ASSUME Bounds, Order, ReadDone
    PROVE  Order'
<1>0. Consumed \in Nat /\ Accepted \in Int /\ Len(out) \in Nat /\ taken <= Consumed /\ Pending \in Nat
    BY Zenon, OrderFacts
<1>1. /\ UNCHANGED <<read, write, buf, sent, wpc, wlen, wcount>>
      /\ rpc = "done" /\ rpc' = "idle" /\ out' = <<>> /\ taken' = taken + Len(out)
      /\ taken \in Nat /\ sent \in Nat /\ size \in Nat
    BY Zenon, RwAssumption DEF ReadDone, driver, writer, Bounds, Types
<1>2. Len(out') = 0
    BY Zenon, <1>1
<1>3. Consumed = taken + Len(out) /\ Consumed' = Consumed
  <2>1. Consumed = taken + Len(out)
    BY SMTT(30), <1>0, <1>1 DEF Consumed
  <2>2. Consumed' = taken' + Len(out') - 0
    BY Zenon, <1>1 DEF Consumed
  <2>3. QED
    BY SMTT(30), <1>0, <1>1, <1>2, <2>1, <2>2
<1>4. UNCHANGED <<Accepted, Gap, Pending>>
    BY Zenon, <1>1, <1>3 DEF Accepted, Gap, Pending
<1>5. \A k : Slot(k)' = Slot(k)
    BY Zenon, <1>1 DEF Slot
<1>6. sent' - taken' + Pending' < size
    BY SMTT(30), <1>0, <1>1, <1>4 DEF Order
<1>7. /\ read' < size /\ write' < size /\ Gap' >= 0 /\ Consumed' >= taken'
      /\ write' = Slot(Gap)'
    BY SMTT(30), <1>0, <1>1, <1>3, <1>4, <1>5 DEF Order
<1>8. \A k \in 0..sent'-Consumed'-1 : buf'[Slot(k)'] = Consumed' + 1 + k
    BY Zenon, <1>1, <1>3, <1>5 DEF Order
<1>9. QED
    BY SMTT(30), <1>1, <1>2, <1>6, <1>7, <1>8 DEF Order

\* The writer moves write over the bytes that it has stored.
LEMMA EndMoves ==
    ASSUME Bounds, Order, NEW n \in Nat, write + n <= size,
           write' = IF write + n < size THEN write + n ELSE 0,
           UNCHANGED <<read, buf, rpc, rlen, rcount, out, sent, taken>>,
           Accepted' = Accepted + n, Accepted + n <= sent,
           sent' - taken' + Pending' < size
    PROVE  Order'
<1>0. /\ Consumed \in Nat /\ Accepted \in Int /\ Gap \in 0..size-1 /\ Pending \in Nat
      /\ taken <= Consumed
      /\ Gap = Accepted - Consumed /\ sent - Consumed + Pending < size
    BY Zenon, OrderFacts
<1>1. /\ read \in 0..size-1 /\ write \in 0..size-1 /\ size \in Nat \ {0} /\ sent \in Nat
      /\ rcount \in Nat
      /\ buf' = buf /\ sent' = sent /\ read' = read
    BY SMTT(30), <1>0, RwAssumption DEF Bounds, Types, Order
<1>2. Consumed' = Consumed
    BY Zenon DEF Consumed
<1>3. Gap' = Gap + n /\ Gap' \in 0..size-1
    BY SMTT(30), <1>0, <1>1, <1>2 DEF Gap
<1>4. write' = Slot(Gap)'
  <2>1. Slot(Gap)' = IF read + (Gap + n) < size THEN read + (Gap + n)
                     ELSE read + (Gap + n) - size
    BY Zenon, <1>1, <1>3 DEF Slot
  <2>2. write = IF read + Gap < size THEN read + Gap ELSE read + Gap - size
    BY Zenon DEF Order, Slot
  <2>3. QED
    BY SMTT(30), <1>0, <1>1, <1>3, <2>1, <2>2
<1>5. \A k : Slot(k)' = Slot(k)
    BY Zenon, <1>1 DEF Slot
<1>6. \A k \in 0..sent'-Consumed'-1 : buf'[Slot(k)'] = Consumed' + 1 + k
    BY Zenon, <1>1, <1>2, <1>5 DEF Order
<1>7. rcount <= Gap => rcount' <= Gap'
    BY SMTT(30), <1>0, <1>1, <1>3
<1>8. write' < size /\ Consumed' >= taken'
    BY SMTT(30), <1>0, <1>1, <1>2
<1>9. QED
    BY SMTT(30), <1>1, <1>2, <1>3, <1>4, <1>6, <1>7, <1>8 DEF Order

\* The writer stores the next wcount bytes of the stream after the window.
LEMMA OrderStore ==
    ASSUME Bounds, Order, WriteCopy
    PROVE  Order'
<1>0. /\ Consumed \in Nat /\ Accepted \in Int /\ Gap \in 0..size-1 /\ Pending \in Nat
      /\ taken <= Consumed
      /\ Gap = Accepted - Consumed /\ sent - Consumed + Pending < size
    BY Zenon, OrderFacts
<1>1. /\ wpc \in {"copy", "tail", "head"} /\ wpc' \in {"advance", "turn", "set"}
      /\ UNCHANGED <<read, write, rpc, rlen, rcount, out, taken, wlen, wcount>>
      /\ sent' = sent + wcount
      /\ sent \in Nat /\ wcount \in Nat /\ wlen \in Nat /\ size \in Nat \ {0} /\ taken \in Nat
      /\ read \in 0..size-1 /\ write \in 0..size-1
    BY SMTT(30), RwAssumption DEF WriteCopy, reader, writer, Bounds, Types, Order
<1>2. buf' = Stored(write)
    BY Zenon DEF WriteCopy, Bounds, WriteBounds
<1>3. Accepted = sent /\ Accepted' = sent
    BY SMTT(30), <1>1 DEF Accepted
<1>4. Consumed' = Consumed
    BY Zenon, <1>1 DEF Consumed
<1>5. Gap' = Gap /\ sent' - Consumed' = Gap + wcount
    BY SMTT(30), <1>0, <1>1, <1>3, <1>4 DEF Gap
<1>6. Pending = wcount + Pending'
    BY SMTT(30), <1>1 DEF WriteCopy, Pending, Bounds, WriteBounds
<1>7. Pending' \in Nat
    BY SMTT(30), <1>1 DEF WriteCopy, Pending, Bounds, WriteBounds
<1> DEFINE rest == Pending'
<1> HIDE DEF rest
<1>8. rest \in Nat /\ Pending = wcount + rest
    BY Zenon, <1>6, <1>7 DEF rest
<1>9. write + wcount <= size /\ Gap + wcount < size
  <2>1. write + wcount <= size
    BY SMTT(30), <1>1 DEF Bounds, WriteBounds
  <2>2. QED
    BY SMTT(30), <1>0, <1>1, <1>3, <1>8, <2>1
<1>10. write = IF read + Gap < size THEN read + Gap ELSE read + Gap - size
    BY Zenon DEF Order, Slot
<1>11. ASSUME NEW k \in 0..sent'-Consumed'-1 PROVE buf'[Slot(k)'] = Consumed' + 1 + k
  <2>1. k \in Nat /\ k < Gap + wcount
    BY SMTT(30), <1>0, <1>1, <1>5
  <2>2. Slot(k)' = IF read + k < size THEN read + k ELSE read + k - size
    BY Zenon, <1>1 DEF Slot
  <2>3. Slot(k)' \in 0..size-1
    BY SMTT(30), <1>0, <1>1, <1>9, <2>1, <2>2
  <2>4. CASE k < Gap
    <3>1. Slot(k)' \notin write .. write + wcount - 1
      BY SMTT(30), <1>0, <1>1, <1>9, <1>10, <2>1, <2>2, <2>4
    <3>2. buf'[Slot(k)'] = buf[Slot(k)']
      BY Zenon, <1>2, <2>3, <3>1 DEF Stored
    <3>3. Slot(k)' = Slot(k)
      BY Zenon, <1>1 DEF Slot
    <3>4. buf[Slot(k)] = Consumed + 1 + k
      BY SMTT(30), <1>0, <1>1, <1>3, <2>1, <2>4 DEF Order
    <3>5. QED
      BY Zenon, <1>4, <3>2, <3>3, <3>4
  <2>5. CASE k >= Gap
    <3>1. Slot(k)' = write + (k - Gap)
      BY SMTT(30), <1>0, <1>1, <1>9, <1>10, <2>1, <2>2, <2>5
    <3>2. Slot(k)' \in write .. write + wcount - 1
      BY SMTT(30), <1>0, <1>1, <2>1, <2>5, <3>1
    <3>3. buf'[Slot(k)'] = sent + 1 + (Slot(k)' - write)
      BY Zenon, <1>2, <2>3, <3>2 DEF Stored
    <3>4. QED
      BY SMTT(30), <1>0, <1>1, <1>3, <1>4, <2>1, <3>1, <3>3
  <2>6. QED
    BY SMTT(30), <1>0, <2>1, <2>4, <2>5
<1>12. write' = Slot(Gap)'
    BY Zenon, <1>1, <1>5, <1>10 DEF Slot
<1>13. /\ Gap' >= 0 /\ Consumed' >= taken' /\ sent' - taken' + Pending' < size
  <2>1. sent - taken + (wcount + rest) < size
    BY Zenon, <1>8 DEF Order
  <2>2. sent' - taken' + rest < size
    BY SMTT(30), <1>1, <1>8, <2>1
  <2>3. QED
    BY SMTT(30), <1>0, <1>1, <1>4, <1>5, <2>2 DEF rest
<1>14. QED
    BY Zenon, <1>1, <1>5, <1>11, <1>12, <1>13 DEF Order

LEMMA OrderPublish ==
    ASSUME Bounds, Order, WriteAdvance \/ WriteTurn \/ WriteSet
    PROVE  Order'
<1>0. /\ Accepted \in Int /\ Gap \in 0..size-1 /\ Pending \in Nat /\ taken <= Consumed
      /\ Consumed \in Nat /\ Gap = Accepted - Consumed /\ sent - Consumed + Pending < size
    BY Zenon, OrderFacts
<1>1. /\ wpc \in {"advance", "turn", "set"} /\ wpc' \in {"wake", "head"}
      /\ UNCHANGED <<read, buf, rpc, rlen, rcount, out, sent, taken>>
      /\ sent \in Nat /\ wcount \in Nat /\ wlen \in Nat /\ size \in Nat \ {0} /\ taken \in Nat
      /\ write \in 0..size-1
    BY SMTT(30), RwAssumption DEF WriteAdvance, WriteTurn, WriteSet, reader, Bounds, Types, Order
<1>2. Accepted = sent - wcount /\ Accepted' = sent
    BY SMTT(30), <1>1 DEF Accepted
<1>3. sent - taken + Pending < size /\ wcount < size
    BY SMTT(30), <1>0, <1>1, <1>2 DEF Order
<1>4. write + wcount <= size
    BY SMTT(30), <1>1 DEF Bounds, WriteBounds
<1>5. write' = IF write + wcount < size THEN write + wcount ELSE 0
  <2>1. CASE WriteAdvance
    BY Zenon, <2>1 DEF WriteAdvance, Bounds, WriteBounds
  <2>2. CASE WriteTurn
    BY SMTT(30), <1>1, <2>2 DEF WriteTurn, Bounds, WriteBounds
  <2>3. CASE WriteSet
    BY SMTT(30), <1>1, <1>3, <2>3 DEF WriteSet, Bounds, WriteBounds
  <2>4. QED
    BY Zenon, <2>1, <2>2, <2>3
<1>6. Pending' = Pending
  <2>1. CASE WriteAdvance \/ WriteSet
    BY Zenon, <2>1 DEF WriteAdvance, WriteSet, Pending
  <2>2. CASE WriteTurn
    <3>1. wpc = "turn" /\ wpc' = "head" /\ wcount' = Min(wlen - wcount, size)
      BY Zenon, <2>2 DEF WriteTurn
    <3>2. Pending = wlen - wcount /\ Pending' = wcount'
      BY Zenon, <3>1 DEF Pending
    <3>3. Pending < size
      BY SMTT(30), <1>0, <1>1, <1>2
    <3>4. QED
      BY SMTT(30), <1>0, <1>1, <3>1, <3>2, <3>3 DEF Min
  <2>3. QED
    BY Zenon, <2>1, <2>2
<1>7. Accepted' = Accepted + wcount /\ Accepted + wcount <= sent
    BY SMTT(30), <1>1, <1>2
<1>8. sent' - taken' + Pending' < size
    BY Zenon, <1>1, <1>3, <1>6
<1>9. UNCHANGED <<read, buf, rpc, rlen, rcount, out, sent, taken>>
    BY Zenon, <1>1
<1>10. wcount \in Nat
    BY Zenon, <1>1
<1>11. QED
    BY Zenon, <1>4, <1>5, <1>7, <1>8, <1>9, <1>10, EndMoves

LEMMA OrderCalls ==
    ASSUME Bounds, Order,
           WriteWake \/ \E len \in Lens : WriteStart(len) /\ ~lapped'
    PROVE  Order'
<1>1. /\ UNCHANGED <<read, write, buf, rpc, rlen, rcount, out, sent, taken>>
      /\ wpc \in {"idle", "wake"} /\ wpc' \in {"idle", "copy", "tail"}
    BY Zenon DEF WriteWake, WriteStart, driver, reader
<1>2. UNCHANGED <<Consumed, Accepted, Gap>>
    BY Zenon, <1>1 DEF Consumed, Accepted, Gap
<1>3. \A k : Slot(k)' = Slot(k)
    BY Zenon, <1>1 DEF Slot
<1>4. sent' - taken' + Pending' < size
  <2>1. CASE WriteWake
    BY Zenon, <1>1, <2>1 DEF WriteWake, Pending, Order
  <2>2. ASSUME NEW len \in Lens, WriteStart(len), ~lapped' PROVE sent' - taken' + Pending' < size
    <3>1. ~(sent - taken + len >= size) /\ wlen' = len /\ wpc' \in {"copy", "tail"}
      BY Zenon, <2>2 DEF WriteStart
    <3>2. Pending' = len
      BY Zenon, <3>1 DEF Pending
    <3>3. sent \in Nat /\ taken \in Nat /\ len \in Nat /\ size \in Nat
      BY Zenon, RwAssumption DEF Bounds, Types
    <3>4. QED
      BY SMTT(30), <1>1, <3>1, <3>2, <3>3
  <2>3. QED
    BY Zenon, <2>1, <2>2
<1>5. QED
    BY Zenon, <1>1, <1>2, <1>3, <1>4 DEF Order

LEMMA NextOrder == Bounds /\ Ordered /\ [Next]_vars => Ordered'
<1> SUFFICES ASSUME Bounds, Ordered, [Next]_vars, ~lapped' PROVE Order'
    BY Zenon DEF Ordered
<1>1. ~lapped
    BY Zenon DEF Next, sdev_read, sdev_write, Signal, ReadStart, ReadWait, ReadClear, ReadLoad, ReadCopy,
           ReadAdvance, ReadRound, ReadHead, ReadDone, WriteStart, WriteCopy, WriteAdvance,
           WriteTurn, WriteSet, WriteWake, vars
<1>2. Order
    BY Zenon, <1>1 DEF Ordered
<1>3. CASE UNCHANGED vars
  <2>1. UNCHANGED <<Consumed, Accepted, Gap, Pending>> /\ \A k : Slot(k)' = Slot(k)
    BY Zenon, <1>3 DEF vars, driver, reader, writer, Consumed, Accepted, Gap, Pending, Slot
  <2>2. QED
    BY Zenon, <1>2, <1>3, <2>1 DEF vars, driver, reader, writer, Order
<1>4. CASE sdev_read \/ Signal
    BY Zenon, <1>2, <1>4, OrderBeforeCopy, OrderLoad, OrderCopy, OrderMove, OrderDone DEF sdev_read
<1>5. CASE sdev_write
    BY Zenon, <1>2, <1>5, OrderCalls, OrderStore, OrderPublish DEF sdev_write
<1>6. QED
    BY Zenon, <1>3, <1>4, <1>5 DEF Next

LEMMA RwInvariant == Spec => [](Bounds /\ Ordered)
BY InitBounds, InitOrder, NextBounds, NextOrder, PTL DEF Spec

\* Whatever the two unlocked handlers do to each other, the offsets and
\* counts they work with stay inside the buffer.
THEOREM RwStaysInside == Spec => []InsideTheBuffer
<1>1. Bounds => InsideTheBuffer
    BY SMTT(30), RwAssumption DEF Bounds, Types, ReadBounds, WriteBounds, InsideTheBuffer, Min
<1>2. QED
    BY <1>1, RwInvariant, PTL

\* A reader that no write has overrun gets the stream in order, without a
\* gap and without a byte twice.
THEOREM RwDeliversInOrder == Spec => []InOrder
<1>1. Ordered => InOrder
    BY Zenon DEF Ordered, Order, InOrder
<1>2. QED
    BY <1>1, RwInvariant, PTL

\* The flag is never up over a sleeping reader without a wake-up to come.
THEOREM RwFlagWakes == Spec => []FlagWakesReader
<1>1. Init => FlagWakesReader
    BY Zenon DEF Init, FlagWakesReader
<1>2. FlagWakesReader /\ [Next]_vars => FlagWakesReader'
  <2> SUFFICES ASSUME FlagWakesReader, [Next]_vars PROVE FlagWakesReader'
    BY Zenon
  <2> USE DEF FlagWakesReader, driver, reader, writer
  <2>1. CASE UNCHANGED vars \/ Signal
    BY Zenon, <2>1 DEF vars, Signal
  <2>2. CASE sdev_read
    BY Zenon, <2>2 DEF sdev_read, ReadStart, ReadWait, ReadClear, ReadLoad, ReadCopy, ReadAdvance,
                ReadRound, ReadHead, ReadDone
  <2>3. CASE sdev_write
    BY Zenon, <2>3 DEF sdev_write, WriteStart, WriteCopy, WriteAdvance, WriteTurn, WriteSet, WriteWake
  <2>4. QED
    BY Zenon, <2>1, <2>2, <2>3 DEF Next
<1>3. QED
    BY <1>1, <1>2, PTL DEF Spec
=============================================================================
