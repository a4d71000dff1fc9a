---------------------------- MODULE ScullMemProofs ----------------------------
(***************************************************************************)
(* The list of quantum sets of scull0/scull.c implements the flat array,   *)
(* for every quantum, every set size and any number of processes.          *)
(*                                                                         *)
(* The code splits an offset with the size of a set, then with the size of *)
(* a quantum.  Place says that this is the place of the byte when offsets  *)
(* are split into quanta first: offsets of one quantum, and only these,    *)
(* have the same node and slot, so a write of at most a quantum stays      *)
(* inside it.  Inv adds what the handlers rely on: the shape of the list,  *)
(* and what a process has in hand at each of its labels.                   *)
(***************************************************************************)
EXTENDS ScullMem, TLAPS

-----------------------------------------------------------------------------
\* Division with remainder

LEMMA DivMod ==
    ASSUME NEW n \in Nat, NEW d \in Nat \ {0}
    PROVE  /\ n \div d \in Nat /\ n % d \in 0..d-1
           /\ n = d * (n \div d) + (n % d)
BY SMTT(30)

LEMMA Product ==
    ASSUME NEW a \in Nat, NEW b \in Nat
    PROVE  a * b \in Nat
BY SMTT(30)

LEMMA NextMultiple ==
    ASSUME NEW a \in Nat, NEW b \in Nat, NEW d \in Nat \ {0}, a < b
    PROVE  d * a + d <= d * b
BY SMTT(30)

LEMMA DivUnique ==
    ASSUME NEW a \in Nat, NEW b \in Nat, NEW d \in Nat \ {0},
           NEW r \in 0..d-1, NEW s \in 0..d-1, d * a + r = d * b + s
    PROVE  a = b /\ r = s
<1>1. d * a \in Nat /\ d * b \in Nat
    BY Zenon, Product
<1>2. ~(a < b)
    BY <1>1, NextMultiple, SMTT(30)
<1>3. ~(b < a)
    BY <1>1, NextMultiple, SMTT(30)
<1>4. a = b
    BY SMTT(30), <1>2, <1>3
<1>5. QED
    BY SMTT(30), <1>1, <1>4

\* What is known of n once it is written as a multiple of d and a rest.
LEMMA DivIs ==
    ASSUME NEW n \in Nat, NEW d \in Nat \ {0}, NEW a \in Nat, NEW r \in 0..d-1, n = d * a + r
    PROVE  n \div d = a /\ n % d = r
BY SMTT(30), DivMod, DivUnique

LEMMA SizeFact == size \in Nat \ {0} /\ size = scull_quantum * scull_qset
BY MemAssumption, SMTT(30) DEF size

\* The number of the quantum that holds an offset.
Number(o) == o \div scull_quantum

LEMMA Place ==
    ASSUME NEW o \in Nat
    PROVE  /\ Index(o) = Number(o) \div scull_qset
           /\ Pos(o) = Number(o) % scull_qset
           /\ Offset(o) = o % scull_quantum
<1> DEFINE i == Number(o) \div scull_qset
           k == Number(o) % scull_qset
           r == o % scull_quantum
<1>1. scull_quantum \in Nat \ {0} /\ scull_qset \in Nat \ {0}
    BY Zenon, MemAssumption
<1>2. Number(o) \in Nat /\ r \in 0..scull_quantum-1 /\ o = scull_quantum * Number(o) + r
    BY Zenon, <1>1, DivMod DEF Number
<1>3. i \in Nat /\ k \in 0..scull_qset-1 /\ Number(o) = scull_qset * i + k
    BY Zenon, <1>1, <1>2, DivMod
<1> HIDE DEF i, k, r
<1>4. scull_quantum * k + r \in 0..size-1
  <2>1. scull_quantum * k \in Nat
    BY SMTT(30), <1>1, <1>3, Product
  <2>2. scull_quantum * k + scull_quantum <= size
    BY SMTT(30), <1>1, <1>3, NextMultiple, SizeFact
  <2>3. QED
    BY SMTT(30), <1>1, <1>2, <2>1, <2>2, SizeFact
<1>5. o = size * i + (scull_quantum * k + r)
  <2>1. scull_quantum * (scull_qset * i + k) = (scull_quantum * scull_qset) * i + scull_quantum * k
    BY <1>1, <1>3, SMTT(30)
  <2>2. scull_quantum * k \in Nat /\ size * i \in Nat
    BY SMTT(30), <1>1, <1>3, Product, SizeFact
  <2>3. QED
    BY SMTT(30), <1>2, <1>3, <2>1, <2>2, SizeFact
<1>6. Index(o) = i /\ o % size = scull_quantum * k + r
    BY Zenon, <1>3, <1>4, <1>5, SizeFact, DivIs DEF Index
<1>7. scull_quantum * k + r \in Nat
    BY SMTT(30), <1>4, SizeFact
<1>8. (scull_quantum * k + r) \div scull_quantum = k /\ (scull_quantum * k + r) % scull_quantum = r
    BY SMTT(30), <1>1, <1>2, <1>3, <1>7, DivIs
<1>9. QED
    BY Zenon, <1>6, <1>8 DEF Pos, Offset, i, k, r

LEMMA PlaceType ==
    ASSUME NEW o \in Nat
    PROVE  Index(o) \in Nat /\ Pos(o) \in 0..scull_qset-1 /\ Offset(o) \in 0..scull_quantum-1
<1>1. scull_quantum \in Nat \ {0} /\ scull_qset \in Nat \ {0}
    BY Zenon, MemAssumption
<1>2. Number(o) \in Nat /\ o % scull_quantum \in 0..scull_quantum-1
    BY Zenon, <1>1, DivMod DEF Number
<1>3. Number(o) \div scull_qset \in Nat /\ Number(o) % scull_qset \in 0..scull_qset-1
    BY Zenon, <1>1, <1>2, DivMod
<1>4. QED
    BY Zenon, <1>2, <1>3, Place

\* Node and slot are the same for the offsets of one quantum, and for no others.
LEMMA OneQuantum ==
    ASSUME NEW c \in Nat, NEW o \in Nat
    PROVE  /\ Flat!SameQuantum(c, o) <=> Index(c) = Index(o) /\ Pos(c) = Pos(o)
           /\ Flat!SameQuantum(c, o) => c - o = Offset(c) - Offset(o)
<1>1. scull_quantum \in Nat \ {0} /\ scull_qset \in Nat \ {0}
    BY Zenon, MemAssumption
<1>2. /\ Number(c) \in Nat /\ c % scull_quantum \in Nat
      /\ c = scull_quantum * Number(c) + (c % scull_quantum)
      /\ Number(o) \in Nat /\ o % scull_quantum \in Nat
      /\ o = scull_quantum * Number(o) + (o % scull_quantum)
    BY SMTT(30), <1>1, DivMod DEF Number
<1>3. Flat!SameQuantum(c, o) <=> Number(c) = Number(o)
    BY Zenon DEF Flat!SameQuantum, Number
<1>4. /\ Number(c) = scull_qset * Index(c) + Pos(c)
      /\ Number(o) = scull_qset * Index(o) + Pos(o)
  <2>1. Number(c) = scull_qset * (Number(c) \div scull_qset) + (Number(c) % scull_qset)
    BY Zenon, <1>1, <1>2, DivMod
  <2>2. Number(o) = scull_qset * (Number(o) \div scull_qset) + (Number(o) % scull_qset)
    BY Zenon, <1>1, <1>2, DivMod
  <2>3. QED
    BY Zenon, <2>1, <2>2, Place
<1>5. Number(c) = Number(o) <=> Index(c) = Index(o) /\ Pos(c) = Pos(o)
    BY Zenon, <1>4, Place
<1>6. Number(c) = Number(o) => c - o = Offset(c) - Offset(o)
  <2>1. scull_quantum * Number(o) \in Nat
    BY Zenon, <1>1, <1>2, Product
  <2>2. QED
    BY SMTT(30), <1>2, <2>1, Place
<1>7. QED
    BY Zenon, <1>3, <1>5, <1>6

\* The bytes after an offset, up to the end of its quantum.
LEMMA Within ==
    ASSUME NEW o \in Nat, NEW k \in Nat, Offset(o) + k < scull_quantum
    PROVE  /\ Index(o + k) = Index(o) /\ Pos(o + k) = Pos(o)
           /\ Offset(o + k) = Offset(o) + k
<1>1. scull_quantum \in Nat \ {0} /\ o + k \in Nat
    BY SMTT(30), MemAssumption
<1>2. Number(o) \in Nat /\ Offset(o) \in Nat /\ o = scull_quantum * Number(o) + Offset(o)
  <2>1. Number(o) \in Nat /\ o % scull_quantum \in 0..scull_quantum-1
        /\ o = scull_quantum * Number(o) + (o % scull_quantum)
    BY Zenon, <1>1, DivMod DEF Number
  <2>2. QED
    BY SMTT(30), <1>1, <2>1, Place
<1>3. o + k = scull_quantum * Number(o) + (Offset(o) + k) /\ Offset(o) + k \in 0..scull_quantum-1
  <2>1. scull_quantum * Number(o) \in Nat
    BY Zenon, <1>1, <1>2, Product
  <2>2. QED
    BY SMTT(30), <1>1, <1>2, <2>1
<1>4. Number(o + k) = Number(o) /\ (o + k) % scull_quantum = Offset(o) + k
    BY Zenon, <1>1, <1>2, <1>3, DivIs DEF Number
<1>5. QED
    BY Zenon, <1>1, <1>4, Place

LEMMA CellsFact ==
    ASSUME NEW o \in Nat
    PROVE  o \in Cells <=> Index(o) < Sets
<1>1. size \in Nat \ {0} /\ Sets \in Nat \ {0}
    BY Zenon, MemAssumption, SizeFact
<1>2. Index(o) \in Nat /\ o % size \in 0..size-1 /\ o = size * Index(o) + (o % size)
    BY Zenon, <1>1, DivMod DEF Index
<1>3. size * Index(o) \in Nat /\ size * Sets \in Nat /\ Sets * size = size * Sets
    BY <1>1, <1>2, Product, SMTT(30)
<1>4. ASSUME Index(o) < Sets PROVE o < size * Sets
  <2>1. size * Index(o) + size <= size * Sets
    BY Zenon, <1>1, <1>2, <1>4, NextMultiple
  <2>2. QED
    BY SMTT(30), <1>1, <1>2, <1>3, <2>1
<1>5. ASSUME ~(Index(o) < Sets) PROVE ~(o < size * Sets)
  <2>1. size * Sets <= size * Index(o)
    <3>1. CASE Sets = Index(o)
        BY SMTT(30), <3>1, <1>3
    <3>2. CASE Sets < Index(o)
        BY SMTT(30), <1>1, <1>2, <1>3, <3>2, NextMultiple
    <3>3. QED
        BY SMTT(30), <1>1, <1>2, <1>5, <3>1, <3>2
  <2>2. QED
    BY SMTT(30), <1>1, <1>2, <1>3, <2>1
<1>6. o \in Cells <=> o < size * Sets
    BY SMTT(30), <1>1, <1>3 DEF Cells
<1>7. QED
    BY Zenon, <1>4, <1>5, <1>6

-----------------------------------------------------------------------------
\* The list

Nodes == Arrays \cup {NULL}

\* The byte of a list at an offset; a hole has none.
At(list, o) ==
    IF Index(o) >= Len(list) \/ Missing(list, o)
      THEN NULL
      ELSE list[Index(o) + 1][Pos(o)][Offset(o)]

LEMMA HoleFact ==
    ASSUME NEW list \in Seq(Nodes), NEW o \in Nat
    PROVE  At(list, o) = NULL <=> Index(o) >= Len(list) \/ Missing(list, o)
<1>1. CASE Index(o) >= Len(list) \/ Missing(list, o)
    BY Zenon, <1>1 DEF At
<1>2. CASE ~(Index(o) >= Len(list) \/ Missing(list, o))
  <2>1. Index(o) \in Nat /\ Pos(o) \in 0..scull_qset-1 /\ Offset(o) \in 0..scull_quantum-1
    BY Zenon, PlaceType
  <2>2. Index(o) + 1 \in 1..Len(list)
    BY SMTT(30), <1>2, <2>1
  <2>3. list[Index(o) + 1] \in Arrays
    BY SMTT(30), <1>2, <2>2 DEF Missing, Nodes
  <2>4. list[Index(o) + 1][Pos(o)] \in Quanta
    BY Zenon, <1>2, <2>1, <2>3 DEF Missing, Arrays
  <2>5. list[Index(o) + 1][Pos(o)][Offset(o)] \in Nat
    BY Zenon, <2>1, <2>4 DEF Quanta
  <2>6. At(list, o) \in Nat
    BY Zenon, <1>2, <2>5 DEF At
  <2>7. QED
    BY Zenon, <1>2, <2>6, NullAssumption
<1>3. QED
    BY Zenon, <1>1, <1>2

\* scull_follow keeps the nodes there are and adds empty ones up to idx.
LEMMA FollowFact ==
    ASSUME NEW list \in Seq(Nodes), NEW idx \in Nat
    PROVE  /\ scull_follow(list, idx) \in Seq(Nodes)
           /\ idx + 1 \in 1..Len(scull_follow(list, idx))
           /\ Len(list) <= Len(scull_follow(list, idx))
           /\ \A i \in 1..Len(scull_follow(list, idx)) :
                 scull_follow(list, idx)[i] = IF i <= Len(list) THEN list[i] ELSE NULL
<1> DEFINE n == IF idx < Len(list) THEN Len(list) ELSE idx + 1
           f == [i \in 1..n |-> IF i <= Len(list) THEN list[i] ELSE NULL]
<1>1. n \in Nat /\ idx + 1 \in 1..n /\ Len(list) <= n /\ Len(list) \in Nat
    BY SMTT(30)
<1>2. scull_follow(list, idx) = f
    BY Zenon DEF scull_follow
<1> HIDE DEF n
<1>3. \A i \in 1..n : (IF i <= Len(list) THEN list[i] ELSE NULL) \in Nodes
    BY SMTT(30), <1>1 DEF Nodes
<1>4. f \in Seq(Nodes) /\ Len(f) = n
    BY SMTT(30), <1>1, <1>3
<1>5. QED
    BY Zenon, <1>1, <1>2, <1>4

\* So that it changes no byte.
LEMMA FollowSame ==
    ASSUME NEW list \in Seq(Nodes), NEW idx \in Nat, NEW o \in Nat
    PROVE  At(scull_follow(list, idx), o) = At(list, o)
<1> DEFINE f == scull_follow(list, idx)
<1>1. /\ f \in Seq(Nodes) /\ Len(list) <= Len(f) /\ Len(f) \in Nat /\ Len(list) \in Nat
      /\ \A i \in 1..Len(f) : f[i] = IF i <= Len(list) THEN list[i] ELSE NULL
    BY SMTT(30), FollowFact
<1>2. Index(o) \in Nat
    BY Zenon, PlaceType
<1> HIDE DEF f
<1>3. CASE Index(o) < Len(list)
  <2>1. f[Index(o) + 1] = list[Index(o) + 1]
    BY SMTT(30), <1>1, <1>2, <1>3
  <2>2. Index(o) >= Len(list) <=> Index(o) >= Len(f)
    BY SMTT(30), <1>1, <1>2, <1>3
  <2>3. At(f, o) = At(list, o)
    BY Zenon, <2>1, <2>2 DEF At, Missing
  <2>4. QED
    BY Zenon, <2>3 DEF f
<1>4. CASE Index(o) >= Len(list)
  <2>1. Index(o) < Len(f) => f[Index(o) + 1] = NULL
    BY SMTT(30), <1>1, <1>2, <1>4
  <2>2. Index(o) >= Len(f) \/ Index(o) < Len(f)
    BY SMTT(30), <1>1, <1>2
  <2>3. Index(o) >= Len(f) \/ Missing(f, o)
    BY Zenon, <2>1, <2>2 DEF Missing
  <2>4. At(f, o) = NULL /\ At(list, o) = NULL
    BY Zenon, <1>4, <2>3 DEF At
  <2>5. QED
    BY Zenon, <2>4 DEF f
<1>5. QED
    BY SMTT(30), <1>1, <1>2, <1>3, <1>4

LEMMA ArrayFact ==
    ASSUME NEW node \in Nodes
    PROVE  /\ Array(node) \in Arrays
           /\ \A k \in 0..scull_qset-1 :
                 Array(node)[k] = NULL <=> node = NULL \/ node[k] = NULL
BY Zenon, NullAssumption DEF Array, Arrays, Nodes

LEMMA BytesFact ==
    ASSUME NEW quantum \in Quanta \cup {NULL}
    PROVE  /\ Bytes(quantum) \in Quanta
           /\ \A k \in 0..scull_quantum-1 :
                 Bytes(quantum)[k] = IF quantum = NULL THEN 0 ELSE quantum[k]
BY Zenon, NullAssumption DEF Bytes, Quanta

\* The list with a quantum stored at the place of o.
Store(list, o, q) ==
    [list EXCEPT ![Index(o) + 1] = [Array(list[Index(o) + 1]) EXCEPT ![Pos(o)] = q]]

\* It changes the bytes of this quantum and no others.
LEMMA StoreFact ==
    ASSUME NEW list \in Seq(Nodes), NEW o \in Nat, Index(o) < Len(list), NEW q \in Quanta, NEW c \in Nat
    PROVE  /\ Store(list, o, q) \in Seq(Nodes)
           /\ At(Store(list, o, q), c) = IF Flat!SameQuantum(c, o)
                                            THEN q[Offset(c)] ELSE At(list, c)
<1> DEFINE new == Store(list, o, q)
           x == Index(o) + 1
           node == list[x]
           array == [Array(node) EXCEPT ![Pos(o)] = q]
<1>1. Index(o) \in Nat /\ Pos(o) \in 0..scull_qset-1 /\ x \in 1..Len(list)
  <2>1. Index(o) \in Nat /\ Pos(o) \in 0..scull_qset-1
    BY Zenon, PlaceType
  <2>2. QED
    BY SMTT(30), <2>1
<1>2. node \in Nodes /\ Array(node) \in Arrays
    BY SMTT(30), <1>1, ArrayFact
<1>3. array \in Arrays /\ array # NULL /\ q # NULL
    BY Zenon, <1>1, <1>2, NullAssumption DEF Arrays
<1>4. \A k \in 0..scull_qset-1 : array[k] = IF k = Pos(o) THEN q ELSE Array(node)[k]
    BY Zenon, <1>1, <1>2 DEF Arrays
<1>5. new = [list EXCEPT ![x] = array]
    BY Zenon DEF Store
<1> HIDE DEF array, new
<1>6. /\ new \in Seq(Nodes) /\ Len(new) = Len(list)
      /\ \A i \in 1..Len(list) : new[i] = IF i = x THEN array ELSE list[i]
    BY SMTT(30), <1>1, <1>3, <1>5 DEF Nodes
<1>7. At(new, c) = IF Flat!SameQuantum(c, o) THEN q[Offset(c)] ELSE At(list, c)
  <2>1. /\ Index(c) \in Nat /\ Pos(c) \in 0..scull_qset-1
        /\ Flat!SameQuantum(c, o) <=> Index(c) = Index(o) /\ Pos(c) = Pos(o)
    BY Zenon, PlaceType, OneQuantum
  <2>2. CASE Flat!SameQuantum(c, o)
    <3>1. new[Index(c) + 1] = array /\ array[Pos(c)] = q
        BY Zenon, <1>1, <1>4, <1>6, <2>1, <2>2
    <3>2. ~(Index(c) >= Len(new))
        BY SMTT(30), <1>1, <1>6, <2>1, <2>2
    <3>3. ~Missing(new, c)
        BY Zenon, <1>3, <3>1 DEF Missing
    <3>4. At(new, c) = new[Index(c) + 1][Pos(c)][Offset(c)]
        BY Zenon, <3>2, <3>3 DEF At
    <3>5. QED
        BY Zenon, <2>2, <3>1, <3>4
  <2>3. CASE Index(c) # Index(o)
    <3>1. Index(c) < Len(list) => new[Index(c) + 1] = list[Index(c) + 1]
        BY SMTT(30), <1>1, <1>6, <2>1, <2>3
    <3>2. Index(c) >= Len(list) \/ Index(c) < Len(list)
        BY SMTT(30), <2>1
    <3>3. At(new, c) = At(list, c)
      <4>1. CASE Index(c) >= Len(list)
        BY Zenon, <1>6, <4>1 DEF At
      <4>2. CASE Index(c) < Len(list)
        <5>1. Missing(new, c) <=> Missing(list, c)
            BY Zenon, <3>1, <4>2 DEF Missing
        <5>2. ~(Index(c) >= Len(list)) /\ ~(Index(c) >= Len(new))
            BY SMTT(30), <1>6, <2>1, <4>2
        <5>3. new[Index(c) + 1][Pos(c)][Offset(c)] = list[Index(c) + 1][Pos(c)][Offset(c)]
            BY Zenon, <3>1, <4>2
        <5>4. QED
            BY Zenon, <5>1, <5>2, <5>3 DEF At
      <4>3. QED
        BY Zenon, <3>2, <4>1, <4>2
    <3>4. QED
        BY Zenon, <2>1, <2>3, <3>3
  <2>4. CASE Index(c) = Index(o) /\ Pos(c) # Pos(o)
    <3>1. new[Index(c) + 1] = array /\ ~(Index(c) >= Len(new)) /\ ~(Index(c) >= Len(list))
        BY SMTT(30), <1>1, <1>6, <2>1, <2>4
    <3>2. array[Pos(c)] = Array(node)[Pos(c)]
        BY Zenon, <1>4, <2>1, <2>4
    <3>3. array[Pos(c)] = NULL <=> node = NULL \/ node[Pos(c)] = NULL
        BY Zenon, <1>2, <2>1, <3>2, ArrayFact
    <3>4. node # NULL => array[Pos(c)] = node[Pos(c)]
        BY Zenon, <3>2 DEF Array
    <3>5. list[Index(c) + 1] = node
        BY Zenon, <2>4
    <3>6. Missing(new, c) <=> Missing(list, c)
        BY Zenon, <1>3, <3>1, <3>3, <3>5 DEF Missing
    <3>7. At(new, c) = At(list, c)
      <4>1. CASE Missing(list, c)
        BY Zenon, <4>1, <3>6 DEF At
      <4>2. CASE ~Missing(list, c)
        <5>1. node # NULL
            BY Zenon, <4>2, <3>5 DEF Missing
        <5>2. new[Index(c) + 1][Pos(c)] = list[Index(c) + 1][Pos(c)]
            BY Zenon, <5>1, <3>1, <3>4, <3>5
        <5>3. QED
            BY Zenon, <4>2, <3>1, <3>6, <5>2 DEF At
      <4>3. QED
        BY Zenon, <4>1, <4>2
    <3>8. QED
        BY Zenon, <2>1, <2>4, <3>7
  <2>5. QED
    BY Zenon, <2>1, <2>2, <2>3, <2>4
<1>8. QED
    BY Zenon, <1>6, <1>7 DEF new

-----------------------------------------------------------------------------
\* The invariant

Labels == {"idle", "o_down", "o_crit", "r_down", "r_crit", "done", "w_down", "w_crit"}
Critical == {"o_crit", "r_crit", "w_crit"}

Types ==
    /\ data \in Seq(Nodes)
    /\ sem \in {0, 1}
    /\ f_pos \in [Procs -> Nat]
    /\ pc \in [Procs -> Labels]
    /\ arg \in [Procs -> [len : Nat, buf : Nat]]
    /\ ubuf \in [Procs -> Seq(Nat)]
    /\ writes \in Nat

\* A call that has not delivered its bytes has delivered none; a read or a
\* write is inside the offsets in use; a write has a buffer.
InHand ==
    \A p \in Procs :
        /\ pc[p] # "done" => ubuf[p] = <<>>
        /\ pc[p] \in {"r_down", "r_crit", "w_down", "w_crit"} => f_pos[p] \in Cells
        /\ pc[p] \in {"w_down", "w_crit"} => arg[p].buf \in Values

Inv == Types /\ InHand /\ SemaphoreDiscipline

LEMMA ZeroCell == 0 \in Cells /\ Cells \subseteq Nat
<1>1. Sets * size \in Nat \ {0}
    BY MemAssumption, SizeFact, SMTT(30)
<1>2. QED
    BY SMTT(30), <1>1 DEF Cells

LEMMA CountFact ==
    ASSUME Types, NEW p \in Procs
    PROVE  /\ Count(p) \in 0..scull_quantum
           /\ Offset(f_pos[p]) \in 0..scull_quantum-1
           /\ Offset(f_pos[p]) + Count(p) <= scull_quantum
<1>1. f_pos[p] \in Nat /\ arg[p].len \in Nat /\ scull_quantum \in Nat \ {0}
    BY Zenon, MemAssumption DEF Types
<1>2. Offset(f_pos[p]) \in 0..scull_quantum-1
    BY Zenon, <1>1, PlaceType
<1>3. QED
    BY SMTT(30), <1>1, <1>2 DEF Count, Min

\* The list after scull_follow, and the quantum a read or a write finds there.
Followed(p) == scull_follow(data, Index(f_pos[p]))
Found(p) == Array(Followed(p)[Index(f_pos[p]) + 1])[Pos(f_pos[p])]

LEMMA FollowedFact ==
    ASSUME Types, NEW p \in Procs
    PROVE  /\ Followed(p) \in Seq(Nodes)
           /\ Index(f_pos[p]) \in Nat /\ Pos(f_pos[p]) \in 0..scull_qset-1
           /\ Index(f_pos[p]) + 1 \in 1..Len(Followed(p))
           /\ Index(f_pos[p]) < Len(Followed(p))
           /\ Followed(p)[Index(f_pos[p]) + 1] \in Nodes
           /\ Found(p) \in Quanta \cup {NULL}
<1>1. f_pos[p] \in Nat /\ data \in Seq(Nodes)
    BY Zenon DEF Types
<1>2. Index(f_pos[p]) \in Nat /\ Pos(f_pos[p]) \in 0..scull_qset-1
    BY Zenon, <1>1, PlaceType
<1>3. Followed(p) \in Seq(Nodes) /\ Index(f_pos[p]) + 1 \in 1..Len(Followed(p))
    BY Zenon, <1>1, <1>2, FollowFact DEF Followed
<1>4. Index(f_pos[p]) < Len(Followed(p)) /\ Followed(p)[Index(f_pos[p]) + 1] \in Nodes
    BY SMTT(30), <1>2, <1>3
<1>5. Found(p) \in Quanta \cup {NULL}
    BY Zenon, <1>2, <1>4, ArrayFact DEF Found, Arrays
<1>6. QED
    BY Zenon, <1>2, <1>3, <1>4, <1>5

LEMMA StoredFact ==
    ASSUME Types, NEW p \in Procs, NEW n \in Nat, NEW done \in Nat, NEW q \in Quanta \cup {NULL}
    PROVE  /\ Stored(p, q, n, done) \in Quanta
           /\ \A i \in 0..scull_quantum-1 :
                 Stored(p, q, n, done)[i] =
                    IF i \in Offset(f_pos[p]) .. Offset(f_pos[p])+done-1
                      THEN arg[p].buf + (i - Offset(f_pos[p]))
                    ELSE IF i \in Offset(f_pos[p]) .. Offset(f_pos[p])+n-1 THEN 0
                    ELSE Bytes(q)[i]
<1> DEFINE o == Offset(f_pos[p])
<1>1. o \in Nat /\ arg[p].buf \in Nat /\ scull_quantum \in Nat
    BY SMTT(30), CountFact, MemAssumption DEF Types
<1>2. \A i \in 0..scull_quantum-1 : Bytes(q)[i] \in Nat
    BY Zenon, BytesFact DEF Quanta
<1> HIDE DEF o
<1>3. \A i \in 0..scull_quantum-1 :
          (IF i \in o .. o+done-1 THEN arg[p].buf + (i - o)
           ELSE IF i \in o .. o+n-1 THEN 0 ELSE Bytes(q)[i]) \in Nat
    BY SMTT(30), <1>1, <1>2
<1>4. Stored(p, q, n, done) =
          [i \in 0..scull_quantum-1 |->
              IF i \in o .. o+done-1 THEN arg[p].buf + (i - o)
              ELSE IF i \in o .. o+n-1 THEN 0 ELSE Bytes(q)[i]]
    BY Zenon DEF Stored, o
<1>5. QED
    BY Zenon, <1>3, <1>4 DEF Quanta, o

\* What a read and a write find: the byte of the flat array.
LEMMA FoundFact ==
    ASSUME Types, NEW p \in Procs, NEW c \in Nat, Flat!SameQuantum(c, f_pos[p])
    PROVE  /\ At(data, c) = NULL <=> Found(p) = NULL
           /\ Found(p) # NULL => At(data, c) = Found(p)[Offset(c)]
           /\ Missing(Followed(p), f_pos[p]) <=> Found(p) = NULL
<1> DEFINE f == Followed(p)
           node == f[Index(f_pos[p]) + 1]
<1>1. f_pos[p] \in Nat /\ data \in Seq(Nodes)
    BY Zenon DEF Types
<1>2. /\ Index(f_pos[p]) \in Nat /\ Pos(f_pos[p]) \in 0..scull_qset-1
      /\ f \in Seq(Nodes) /\ node \in Nodes /\ ~(Index(f_pos[p]) >= Len(f))
    BY SMTT(30), FollowedFact
<1>3. Index(c) = Index(f_pos[p]) /\ Pos(c) = Pos(f_pos[p])
    BY Zenon, <1>1, OneQuantum
<1>4. At(data, c) = At(f, c)
    BY Zenon, <1>1, <1>2, FollowSame DEF Followed
<1>5. Found(p) = NULL <=> node = NULL \/ node[Pos(f_pos[p])] = NULL
    BY Zenon, <1>2, ArrayFact DEF Found
<1>6. Found(p) # NULL => Found(p) = node[Pos(f_pos[p])]
    BY Zenon, <1>5 DEF Found, Array
<1>7. /\ Missing(f, f_pos[p]) <=> Found(p) = NULL
      /\ Missing(f, c) <=> Found(p) = NULL
    BY Zenon, <1>3, <1>5 DEF Missing
<1>8. At(f, c) = NULL <=> Found(p) = NULL
    BY Zenon, <1>2, <1>3, <1>7, HoleFact
<1>9. ASSUME Found(p) # NULL PROVE At(f, c) = Found(p)[Offset(c)]
  <2>1. At(f, c) = f[Index(c) + 1][Pos(c)][Offset(c)]
    BY Zenon, <1>2, <1>3, <1>7, <1>9 DEF At
  <2>2. QED
    BY Zenon, <1>3, <1>6, <1>9, <2>1
<1>10. QED
    BY Zenon, <1>4, <1>7, <1>8, <1>9

-----------------------------------------------------------------------------
\* Every step keeps the invariant

\* What a write leaves: the list is one of nodes, and its bytes are the old
\* ones outside the quantum.
LEMMA WriteFact ==
    ASSUME Types, NEW p \in Procs, NEW done \in 0..Count(p),
           data' = [Followed(p) EXCEPT ![Index(f_pos[p]) + 1] =
                       [Array(Followed(p)[Index(f_pos[p]) + 1]) EXCEPT ![Pos(f_pos[p])] =
                           Stored(p, @, Count(p), done)]]
    PROVE  /\ data' \in Seq(Nodes)
           /\ \A c \in Nat : At(data', c) =
                 IF Flat!SameQuantum(c, f_pos[p])
                   THEN Stored(p, Found(p), Count(p), done)[Offset(c)] ELSE At(data, c)
<1> DEFINE q == Stored(p, Found(p), Count(p), done)
           f == Followed(p)
<1>1. f_pos[p] \in Nat /\ data \in Seq(Nodes)
    BY Zenon DEF Types
<1>2. f \in Seq(Nodes) /\ Index(f_pos[p]) < Len(f)
    BY Zenon, FollowedFact
<1>3. Found(p) \in Quanta \cup {NULL} /\ Index(f_pos[p]) \in Nat
    BY Zenon, FollowedFact
<1>4. Count(p) \in Nat /\ done \in Nat
    BY SMTT(30), CountFact, MemAssumption
<1>5. q \in Quanta
    BY Zenon, <1>3, <1>4, StoredFact
<1>6. data' = Store(f, f_pos[p], q)
    BY Zenon DEF Found, Store
<1> HIDE DEF q, f
<1>7. data' \in Seq(Nodes) /\ \A c \in Nat : At(data', c) =
            IF Flat!SameQuantum(c, f_pos[p]) THEN q[Offset(c)] ELSE At(f, c)
  <2>1. \A c \in Nat :
            /\ Store(f, f_pos[p], q) \in Seq(Nodes)
            /\ At(Store(f, f_pos[p], q), c) =
                  IF Flat!SameQuantum(c, f_pos[p]) THEN q[Offset(c)] ELSE At(f, c)
    BY Zenon, <1>1, <1>2, <1>5, StoreFact
  <2>2. 0 \in Nat
    BY Zenon
  <2>3. QED
    BY Zenon, <1>6, <2>1, <2>2
<1>8. \A c \in Nat : At(f, c) = At(data, c)
    BY Zenon, <1>1, <1>3, FollowSame DEF f, Followed
<1>9. QED
    BY Zenon, <1>7, <1>8 DEF q

LEMMA InitInv == Init => Inv
<1> SUFFICES ASSUME Init PROVE Inv
    BY Zenon
<1>1. Types
    BY SMTT(30) DEF Init, Types, NoArg, Labels
<1>2. InHand
    BY Zenon DEF Init, InHand
<1>3. SemaphoreDiscipline
    BY Zenon DEF Init, SemaphoreDiscipline
<1>4. QED
    BY Zenon, <1>1, <1>2, <1>3 DEF Inv

LEMMA StartTypes ==
    ASSUME Types, NEW p \in Procs, NEW use, NEW label \in Labels, NEW len \in Nat, NEW buf \in Nat,
           Start(p, use, label, len, buf), writes' \in Nat
    PROVE  Types'
BY Zenon DEF Start, Goto, Types

LEMMA ReturnTypes ==
    ASSUME Types, NEW p \in Procs, Return(p)
    PROVE  /\ pc' \in [Procs -> Labels]
           /\ arg' \in [Procs -> [len : Nat, buf : Nat]]
           /\ ubuf' \in [Procs -> Seq(Nat)]
BY SMTT(30) DEF Types, Return, Goto, Labels, NoArg

LEMMA CallTypes ==
    ASSUME Types, NEW p \in Procs, Call(p)
    PROVE  Types'
<1>1. CASE OpenStart(p)
    BY Zenon, <1>1 DEF OpenStart, Goto, Types, Labels
<1>2. ASSUME NEW o \in Seeks, NEW whence \in {"set", "cur", "end"}, scull_llseek(p, o, whence)
      PROVE  Types'
    BY Zenon, <1>2, ZeroCell DEF scull_llseek, Types
<1>3. CASE ReadStart(p)
  <2>1. PICK len \in Lens : Start(p, "read", "r_down", len, 0) /\ UNCHANGED writes
    BY Zenon, <1>3 DEF ReadStart
  <2>2. len \in Nat /\ 0 \in Nat /\ "r_down" \in Labels /\ writes' \in Nat
    BY Zenon, <2>1, MemAssumption DEF Labels, Types
  <2>3. QED
    BY Zenon, <2>1, <2>2, StartTypes
<1>4. CASE WriteStart(p)
  <2>1. PICK len \in Lens, buf \in Values : Start(p, "write", "w_down", len, buf)
    BY Zenon, <1>4 DEF WriteStart
  <2>2. len \in Nat /\ buf \in Nat /\ "w_down" \in Labels /\ writes' \in Nat
    BY SMTT(30), <1>4, MemAssumption DEF Labels, Types, WriteStart
  <2>3. QED
    BY Zenon, <2>1, <2>2, StartTypes
<1>5. QED
    BY Zenon, <1>1, <1>2, <1>3, <1>4 DEF Call

\* The bytes a read delivers are bytes of the quantum it found.
LEMMA ReadFact ==
    ASSUME Types, NEW p \in Procs, ReadCopy(p)
    PROVE  /\ Found(p) \in Quanta
           /\ ubuf' = [ubuf EXCEPT ![p] =
                          [i \in 1..Count(p) |-> Found(p)[Offset(f_pos[p]) + i - 1]]]
           /\ \A i \in 1..Count(p) : Offset(f_pos[p]) + i - 1 \in 0..scull_quantum-1
           /\ [i \in 1..Count(p) |-> Found(p)[Offset(f_pos[p]) + i - 1]] \in Seq(Nat)
<1> DEFINE s == [i \in 1..Count(p) |-> Found(p)[Offset(f_pos[p]) + i - 1]]
<1>1. ~Missing(Followed(p), f_pos[p])
    BY Zenon DEF ReadCopy, Followed
<1>2. f_pos[p] \in Nat /\ Flat!SameQuantum(f_pos[p], f_pos[p])
    BY Zenon DEF Types, Flat!SameQuantum
<1>3. Found(p) \in Quanta
    BY Zenon, <1>1, <1>2, FoundFact, FollowedFact
<1>4. Followed(p)[Index(f_pos[p]) + 1] # NULL
    BY Zenon, <1>1 DEF Missing
<1>5. Found(p) = Followed(p)[Index(f_pos[p]) + 1][Pos(f_pos[p])]
    BY Zenon, <1>4 DEF Found, Array
<1>6. ubuf' = [ubuf EXCEPT ![p] = s]
    BY Zenon, <1>5 DEF ReadCopy, Followed
<1>7. \A i \in 1..Count(p) : Offset(f_pos[p]) + i - 1 \in 0..scull_quantum-1
    BY SMTT(30), CountFact, MemAssumption
<1>8. Count(p) \in Nat
    BY SMTT(30), CountFact, MemAssumption
<1>9. \A i \in 1..Count(p) : Found(p)[Offset(f_pos[p]) + i - 1] \in Nat
    BY Zenon, <1>3, <1>7 DEF Quanta
<1>10. s \in Seq(Nat)
    BY SMTT(30), <1>8, <1>9
<1>11. QED
    BY Zenon, <1>3, <1>6, <1>7, <1>10

LEMMA HandlerTypes ==
    ASSUME Types, NEW p \in Procs, Acquire(p) \/ Handler(p)
    PROVE  Types'
<1>1. CASE Acquire(p)
    BY Zenon, <1>1 DEF Acquire, OpenDown, ReadDown, WriteDown, Down, Goto, Types, Labels
<1>2. CASE Trim(p)
  <2>1. data' \in Seq(Nodes) /\ sem' \in {0, 1} /\ f_pos' = f_pos /\ writes' = writes /\ Return(p)
    BY SMTT(30), <1>2 DEF Trim
  <2>2. QED
    BY Zenon, <2>1, ReturnTypes DEF Types
<1>3. CASE TrimInterrupted(p) \/ DownInterrupted(p) \/ ReadReturn(p)
  <2>1. Return(p) /\ UNCHANGED <<data, sem, f_pos, writes>>
    BY Zenon, <1>3 DEF TrimInterrupted, DownInterrupted, ReadReturn
  <2>2. data' = data /\ sem' = sem /\ f_pos' = f_pos /\ writes' = writes
    BY Zenon, <2>1
  <2>3. QED
    BY Zenon, <2>1, <2>2, ReturnTypes DEF Types
<1>4. CASE ReadFail(p)
  <2>1. data' = Followed(p) /\ sem' \in {0, 1} /\ f_pos' = f_pos /\ writes' = writes /\ Return(p)
    BY Zenon, <1>4 DEF ReadFail, Followed
  <2>2. QED
    BY Zenon, <2>1, FollowedFact, ReturnTypes DEF Types
<1>5. CASE ReadCopy(p)
  <2>1. /\ data' = Followed(p) /\ sem' \in {0, 1} /\ arg' = arg /\ writes' = writes
        /\ f_pos' = [f_pos EXCEPT ![p] = @ + Count(p)] /\ Goto(p, "done")
    BY Zenon, <1>5 DEF ReadCopy, Followed
  <2>2. Count(p) \in Nat
    BY SMTT(30), CountFact, MemAssumption
  <2>3. f_pos' \in [Procs -> Nat]
    BY SMTT(30), <2>1, <2>2 DEF Types
  <2>4. pc' \in [Procs -> Labels]
    BY Zenon, <2>1 DEF Types, Goto, Labels
  <2>5. ubuf' \in [Procs -> Seq(Nat)]
    BY Zenon, <1>5, ReadFact DEF Types
  <2>6. QED
    BY Zenon, <2>1, <2>3, <2>4, <2>5, FollowedFact DEF Types
<1>6. CASE WriteCopy(p)
  <2>1. PICK done \in 0..Count(p) :
          /\ data' = [Followed(p) EXCEPT ![Index(f_pos[p]) + 1] =
                       [Array(Followed(p)[Index(f_pos[p]) + 1]) EXCEPT ![Pos(f_pos[p])] =
                           Stored(p, @, Count(p), done)]]
          /\ f_pos' = [f_pos EXCEPT ![p] = IF done = Count(p) THEN @ + Count(p) ELSE @]
    BY Zenon, <1>6 DEF WriteCopy, Followed
  <2>2. Count(p) \in Nat
    BY SMTT(30), CountFact, MemAssumption
  <2>3. f_pos' \in [Procs -> Nat]
    BY SMTT(30), <2>1, <2>2 DEF Types
  <2>4. data' \in Seq(Nodes)
    BY Zenon, <2>1, WriteFact
  <2>5. Return(p) /\ sem' \in {0, 1} /\ writes' = writes
    BY Zenon, <1>6 DEF WriteCopy
  <2>6. QED
    BY Zenon, <2>3, <2>4, <2>5, ReturnTypes DEF Types
<1>7. QED
    BY Zenon, <1>1, <1>2, <1>3, <1>4, <1>5, <1>6 DEF Handler

\* A step of p is p's alone.
LEMMA Others ==
    ASSUME Types, NEW p \in Procs, Call(p) \/ Acquire(p) \/ Handler(p),
           NEW q \in Procs, q # p
    PROVE  pc'[q] = pc[q] /\ f_pos'[q] = f_pos[q] /\ arg'[q] = arg[q] /\ ubuf'[q] = ubuf[q]
<1>1. CASE Call(p)
    BY Zenon, <1>1 DEF Call, OpenStart, scull_llseek, ReadStart, WriteStart, Start, Goto, Types
<1>2. CASE Acquire(p)
    BY Zenon, <1>2 DEF Acquire, OpenDown, ReadDown, WriteDown, Down, Goto, Types
<1>3. CASE Handler(p)
    BY Zenon, <1>3 DEF Handler, Trim, TrimInterrupted, DownInterrupted, ReadFail, ReadCopy, ReadReturn,
                WriteCopy, Return, Goto, Types
<1>4. QED
    BY Zenon, <1>1, <1>2, <1>3

LEMMA NextInHand ==
    ASSUME Types, InHand, NEW p \in Procs, Call(p) \/ Acquire(p) \/ Handler(p)
    PROVE  InHand'
<1> DEFINE Hand(q) ==
            /\ pc[q] # "done" => ubuf[q] = <<>>
            /\ pc[q] \in {"r_down", "r_crit", "w_down", "w_crit"} => f_pos[q] \in Cells
            /\ pc[q] \in {"w_down", "w_crit"} => arg[q].buf \in Values
<1>1. \A q \in Procs : q # p => Hand(q)'
    BY Zenon, Others DEF InHand
<1>2. Hand(p)
    BY Zenon DEF InHand
<1>3. ASSUME Return(p) PROVE Hand(p)'
    BY Zenon, <1>3 DEF Return, Goto, Types
<1>4. Hand(p)'
  <2>1. CASE OpenStart(p)
    BY Zenon, <1>2, <2>1 DEF OpenStart, Goto, Types
  <2>2. CASE \E o \in Seeks, whence \in {"set", "cur", "end"} : scull_llseek(p, o, whence)
    BY Zenon, <1>2, <2>2 DEF scull_llseek, Types
  <2>3. CASE ReadStart(p)
    BY Zenon, <1>2, <2>3 DEF ReadStart, Start, Goto, Types
  <2>4. CASE WriteStart(p)
    BY SMTT(30), <1>2, <2>4 DEF WriteStart, Start, Goto, Types
  <2>5. CASE Acquire(p)
    BY Zenon, <1>2, <2>5 DEF Acquire, OpenDown, ReadDown, WriteDown, Down, Goto, Types
  <2>6. CASE ReadCopy(p)
    BY Zenon, <2>6 DEF ReadCopy, Goto, Types
  <2>7. CASE Handler(p) /\ ~ReadCopy(p)
    BY Zenon, <1>3, <2>7 DEF Handler, Trim, TrimInterrupted, DownInterrupted, ReadFail, ReadReturn,
                WriteCopy
  <2>8. QED
    BY Zenon, <2>1, <2>2, <2>3, <2>4, <2>5, <2>6, <2>7 DEF Call
<1>5. QED
    BY Zenon, <1>1, <1>4 DEF InHand

\* What any step does to the semaphore: nothing, take it on the way in, or
\* give it back on the way out.
SemStep(p) ==
    \/ sem' = sem /\ pc[p] \notin Critical /\ pc'[p] \notin Critical
    \/ sem = 1 /\ sem' = 0 /\ pc[p] \notin Critical /\ pc'[p] \in Critical
    \/ sem' = 1 /\ pc[p] \in Critical /\ pc'[p] \notin Critical

LEMMA EverySemStep ==
    ASSUME Types, NEW p \in Procs, Call(p) \/ Acquire(p) \/ Handler(p)
    PROVE  SemStep(p)
<1>1. CASE Call(p)
    BY Zenon, <1>1 DEF Call, OpenStart, scull_llseek, ReadStart, WriteStart, Start, Goto, Types, SemStep, Critical
<1>2. CASE Acquire(p)
    BY Zenon, <1>2 DEF Acquire, OpenDown, ReadDown, WriteDown, Down, Goto, Types, SemStep, Critical
<1>3. CASE Handler(p)
    BY Zenon, <1>3 DEF Handler, Trim, TrimInterrupted, DownInterrupted, Interrupted, ReadFail, ReadCopy,
                ReadReturn, WriteCopy, Return, Goto, Types, SemStep, Critical
<1>4. QED
    BY Zenon, <1>1, <1>2, <1>3

LEMMA NextSemaphore ==
    ASSUME Types, SemaphoreDiscipline, NEW p \in Procs, Call(p) \/ Acquire(p) \/ Handler(p)
    PROVE  SemaphoreDiscipline'
<1> DEFINE inside == {q \in Procs : pc[q] \in Critical}
           inside2 == {q \in Procs : pc'[q] \in Critical}
<1>1. \A q \in Procs : q # p => (q \in inside2 <=> q \in inside)
    BY Zenon, Others
<1>2. IF sem = 1 THEN inside = {} ELSE \E q \in Procs : inside = {q}
    BY Zenon DEF SemaphoreDiscipline, Critical
<1>3. sem \in {0, 1}
    BY Zenon DEF Types
<1>4. IF sem' = 1 THEN inside2 = {} ELSE \E q \in Procs : inside2 = {q}
  <2>1. CASE sem' = sem /\ pc[p] \notin Critical /\ pc'[p] \notin Critical
    <3>1. inside2 = inside
        BY Zenon, <1>1, <2>1
    <3>2. QED
        BY Zenon, <1>2, <2>1, <3>1
  <2>2. CASE sem = 1 /\ sem' = 0 /\ pc[p] \notin Critical /\ pc'[p] \in Critical
    <3>1. inside2 = {p}
        BY Zenon, <1>1, <1>2, <2>2
    <3>2. sem' # 1
        BY SMTT(30), <2>2
    <3>3. QED
        BY Zenon, <3>1, <3>2
  <2>3. CASE sem' = 1 /\ pc[p] \in Critical /\ pc'[p] \notin Critical
    <3>1. inside = {p}
        BY Zenon, <1>2, <2>3
    <3>2. inside2 = {}
        BY Zenon, <1>1, <2>3, <3>1
    <3>3. QED
        BY Zenon, <2>3, <3>2
  <2>4. QED
    BY Zenon, <2>1, <2>2, <2>3, EverySemStep DEF SemStep
<1>5. QED
    BY Zenon, <1>4 DEF SemaphoreDiscipline, Critical

LEMMA NextInv == Inv /\ [Next]_vars => Inv'
<1> SUFFICES ASSUME Inv, [Next]_vars PROVE Inv'
    BY Zenon
<1>1. CASE Next
  <2>1. PICK p \in Procs : Call(p) \/ Acquire(p) \/ Handler(p)
    BY Zenon, <1>1 DEF Next
  <2>2. QED
    BY Zenon, <2>1, CallTypes, HandlerTypes, NextInHand, NextSemaphore DEF Inv
<1>2. CASE UNCHANGED vars
  <2>1. /\ data' = data /\ sem' = sem /\ f_pos' = f_pos /\ pc' = pc /\ arg' = arg
        /\ ubuf' = ubuf /\ writes' = writes
    BY Zenon, <1>2 DEF vars
  <2>2. QED
    BY Zenon, <2>1 DEF Inv, Types, InHand, SemaphoreDiscipline
<1>3. QED
    BY Zenon, <1>1, <1>2

LEMMA Invariant == Spec => []Inv
<1>1. QED
    BY InitInv, NextInv, PTL DEF Spec

\* scull.sema is held exactly while a process is in one of the critical
\* sections of scull0/scull.c, whatever the number of processes, the offsets,
\* the lengths and the signals: each error return gives it back.
THEOREM SemaphoreHeldInside == Spec => []SemaphoreDiscipline
<1>1. Inv => SemaphoreDiscipline
    BY Zenon DEF Inv
<1>2. QED
    BY <1>1, Invariant, PTL

-----------------------------------------------------------------------------
\* The refinement

Mem == [o \in Cells |-> Content(o)]

LEMMA MemAt == Mem = [o \in Cells |-> At(data, o)]
BY Zenon DEF Mem, Content, At

LEMMA MemAtNext == Mem' = [o \in Cells |-> At(data', o)]
BY Zenon DEF Mem, Content, At, Missing, Index, Pos, Offset, size

LEMMA FollowedSame ==
    ASSUME Types, NEW p \in Procs, data' = Followed(p)
    PROVE  Mem' = Mem
<1>1. f_pos[p] \in Nat /\ data \in Seq(Nodes)
    BY Zenon DEF Types
<1>2. \A o \in Cells : At(data', o) = At(data, o)
    BY Zenon, <1>1, PlaceType, FollowSame, ZeroCell DEF Followed
<1>3. QED
    BY Zenon, <1>2, MemAt, MemAtNext

LEMMA EmptyAt == \A o \in Cells : At(<<>>, o) = NULL
<1> SUFFICES ASSUME NEW o \in Cells PROVE At(<<>>, o) = NULL
    BY Zenon
<1>1. Index(o) \in Nat
    BY Zenon, ZeroCell, PlaceType
<1>2. Index(o) >= Len(<<>>)
    BY SMTT(30), <1>1
<1>3. QED
    BY Zenon, <1>2 DEF At

\* A read delivers the bytes of the flat array at the file's position.
LEMMA ReadStep ==
    ASSUME Inv, NEW p \in Procs, ReadCopy(p)
    PROVE  Flat!Read(p, Count(p))
<1> DEFINE off == f_pos[p]
           n == Count(p)
<1>1. Types /\ f_pos[p] \in Nat /\ pc[p] = "r_crit"
    BY Zenon DEF Inv, Types, ReadCopy
<1>2. f_pos[p] \in Cells
    BY Zenon, <1>1 DEF Inv, InHand
<1>3. /\ n \in 0..scull_quantum /\ Offset(off) \in 0..scull_quantum-1 /\ Offset(off) + n <= scull_quantum
      /\ scull_quantum \in Nat
    BY Zenon, <1>1, CountFact, MemAssumption
<1>4. Found(p) \in Quanta /\ Found(p) # NULL
    BY Zenon, <1>1, ReadFact, NullAssumption
<1>5. ASSUME NEW i \in 0..n-1
      PROVE  off + i \in Cells /\ Mem[off + i] = Found(p)[Offset(off) + i] /\ Mem[off + i] # NULL
  <2>1. i \in Nat /\ off + i \in Nat /\ Offset(off) + i < scull_quantum
    BY SMTT(30), <1>1, <1>3
  <2>2. /\ Index(off + i) = Index(off) /\ Pos(off + i) = Pos(off)
        /\ Offset(off + i) = Offset(off) + i
    BY Zenon, <1>1, <2>1, Within
  <2>3. off + i \in Cells
    BY Zenon, <1>1, <1>2, <2>1, <2>2, CellsFact
  <2>4. Flat!SameQuantum(off + i, off)
    BY Zenon, <1>1, <2>1, <2>2, OneQuantum
  <2>5. At(data, off + i) # NULL /\ At(data, off + i) = Found(p)[Offset(off) + i]
    BY Zenon, <1>1, <1>4, <2>1, <2>2, <2>4, FoundFact
  <2>6. Mem[off + i] = At(data, off + i)
    BY Zenon, <2>3, MemAt
  <2>7. QED
    BY Zenon, <2>3, <2>5, <2>6
<1>6. ubuf' = [ubuf EXCEPT ![p] = [i \in 1..n |-> Mem[off + i - 1]]]
  <2>1. ASSUME NEW i \in 1..n PROVE Found(p)[Offset(off) + i - 1] = Mem[off + i - 1]
    <3>1. i - 1 \in 0..n-1 /\ off + i - 1 = off + (i - 1) /\ Offset(off) + i - 1 = Offset(off) + (i - 1)
        BY SMTT(30), <1>1, <1>3
    <3>2. QED
        BY Zenon, <1>5, <3>1
  <2>2. [i \in 1..n |-> Found(p)[Offset(off) + i - 1]] = [i \in 1..n |-> Mem[off + i - 1]]
    BY Zenon, <2>1
  <2>3. QED
    BY Zenon, <1>1, <2>2, ReadFact
<1>7. Mem' = Mem
  <2>1. data' = Followed(p)
    BY Zenon DEF ReadCopy, Followed
  <2>2. QED
    BY Zenon, <1>1, <2>1, FollowedSame
<1>8. f_pos' = [f_pos EXCEPT ![p] = off + n]
    BY Zenon DEF ReadCopy
<1>9. QED
    BY Zenon, <1>5, <1>6, <1>7, <1>8 DEF Flat!Read, Mem

\* A write changes one quantum of the flat array, and clears the rest of it
\* when it was a hole.
LEMMA WriteStep ==
    ASSUME Inv, NEW p \in Procs, WriteCopy(p)
    PROVE  \E done \in 0..scull_quantum : Flat!Write(p, Count(p), arg[p].buf, done)
<1> DEFINE off == f_pos[p]
           n == Count(p)
           v == arg[p].buf
<1>1. PICK done \in 0..Count(p) :
          /\ ~Faults => done = Count(p)
          /\ data' = [Followed(p) EXCEPT ![Index(f_pos[p]) + 1] =
                       [Array(Followed(p)[Index(f_pos[p]) + 1]) EXCEPT ![Pos(f_pos[p])] =
                           Stored(p, @, Count(p), done)]]
          /\ f_pos' = [f_pos EXCEPT ![p] = IF done = Count(p) THEN @ + Count(p) ELSE @]
    BY Zenon DEF WriteCopy, Followed
<1>2. Types /\ f_pos[p] \in Nat /\ pc[p] = "w_crit" /\ InHand
    BY Zenon DEF Inv, Types, WriteCopy
<1>3. /\ n \in 0..scull_quantum /\ Offset(off) \in 0..scull_quantum-1 /\ Offset(off) + n <= scull_quantum
      /\ scull_quantum \in Nat
    BY Zenon, <1>2, CountFact, MemAssumption
<1>4. Found(p) \in Quanta \cup {NULL} /\ n \in Nat /\ done \in Nat /\ done <= n
  <2>1. Found(p) \in Quanta \cup {NULL}
    BY Zenon, <1>2, FollowedFact
  <2>2. QED
    BY SMTT(30), <1>3, <2>1
<1>5. ASSUME NEW i \in 0..n-1
      PROVE  Flat!SameQuantum(off, off + i)
  <2>1. i \in Nat /\ off + i \in Nat /\ Offset(off) + i < scull_quantum
    BY SMTT(30), <1>2, <1>3
  <2>2. Index(off + i) = Index(off) /\ Pos(off + i) = Pos(off)
    BY Zenon, <1>2, <2>1, Within
  <2>3. QED
    BY Zenon, <1>2, <2>1, <2>2, OneQuantum
<1> DEFINE New(c) == IF c \in off .. off+done-1 THEN v + (c - off)
                     ELSE IF c \in off .. off+n-1
                             \/ (Flat!SameQuantum(c, off) /\ Mem[c] = NULL) THEN 0
                     ELSE Mem[c]
<1>6. ASSUME NEW c \in Cells
      PROVE  At(data', c) = New(c)
  <2>1. c \in Nat /\ Mem[c] = At(data, c)
    BY Zenon, MemAt, ZeroCell
  <2>2. At(data', c) = IF Flat!SameQuantum(c, off)
                         THEN Stored(p, Found(p), n, done)[Offset(c)] ELSE At(data, c)
    BY Zenon, <1>1, <1>2, <2>1, WriteFact
  <2>3. CASE Flat!SameQuantum(c, off)
    <3>1. c - off = Offset(c) - Offset(off)
        BY Zenon, <1>2, <2>1, <2>3, OneQuantum
    <3>2. Offset(c) \in 0..scull_quantum-1
        BY Zenon, <2>1, PlaceType
    <3>3. Stored(p, Found(p), n, done)[Offset(c)] =
                    IF Offset(c) \in Offset(off) .. Offset(off)+done-1
                      THEN v + (Offset(c) - Offset(off))
                    ELSE IF Offset(c) \in Offset(off) .. Offset(off)+n-1 THEN 0
                    ELSE Bytes(Found(p))[Offset(c)]
        BY SMTT(30), <1>2, <1>4, <3>2, StoredFact
    <3>4. /\ c \in off .. off+done-1 <=> Offset(c) \in Offset(off) .. Offset(off)+done-1
          /\ c \in off .. off+n-1 <=> Offset(c) \in Offset(off) .. Offset(off)+n-1
        BY SMTT(30), <1>2, <1>3, <1>4, <2>1, <3>1, <3>2
    <3>5. Bytes(Found(p))[Offset(c)] = IF Mem[c] = NULL THEN 0 ELSE Mem[c]
      <4>1. Bytes(Found(p))[Offset(c)] = IF Found(p) = NULL THEN 0 ELSE Found(p)[Offset(c)]
        BY Zenon, <1>4, <3>2, BytesFact
      <4>2. /\ Mem[c] = NULL <=> Found(p) = NULL
            /\ Found(p) # NULL => Mem[c] = Found(p)[Offset(c)]
        BY Zenon, <1>2, <2>1, <2>3, FoundFact
      <4>3. QED
        BY Zenon, <4>1, <4>2
    <3>6. QED
        BY Zenon, <2>2, <2>3, <3>1, <3>3, <3>4, <3>5
  <2>4. CASE ~Flat!SameQuantum(c, off)
    <3>1. c \notin off .. off+n-1
      <4>1. ASSUME c \in off .. off+n-1 PROVE FALSE
        <5>1. c - off \in 0..n-1 /\ off + (c - off) = c
            BY SMTT(30), <1>2, <1>4, <2>1, <4>1
        <5>2. Flat!SameQuantum(off, c)
            BY Zenon, <1>5, <5>1
        <5>3. QED
            BY Zenon, <2>4, <5>2 DEF Flat!SameQuantum
      <4>2. QED
        BY Zenon, <4>1
    <3>2. c \notin off .. off+done-1
        BY SMTT(30), <1>2, <1>4, <2>1, <3>1
    <3>3. QED
        BY Zenon, <2>1, <2>2, <2>4, <3>1, <3>2
  <2>5. QED
    BY Zenon, <2>3, <2>4
<1>7. Mem' = [c \in Cells |-> New(c)]
    BY Zenon, <1>6, MemAtNext
<1>8. f_pos' = [f_pos EXCEPT ![p] = IF done = n THEN off + n ELSE off]
    BY Zenon, <1>1
<1>9. ubuf' = ubuf
  <2>1. ubuf[p] = <<>> /\ ubuf' = [ubuf EXCEPT ![p] = <<>>] /\ ubuf \in [Procs -> Seq(Nat)]
    BY Zenon, <1>2 DEF InHand, WriteCopy, Return, Types
  <2>2. QED
    BY Zenon, <2>1
<1>10. done \in 0..scull_quantum
    BY SMTT(30), <1>3, <1>4
<1>11. Flat!Write(p, n, v, done)
    BY Zenon, <1>1, <1>4, <1>5, <1>7, <1>8, <1>9 DEF Flat!Write, Mem
<1>12. QED
    BY Zenon, <1>10, <1>11

LEMMA InitFlat == Init => Flat!Init
<1> SUFFICES ASSUME Init PROVE Flat!Init
    BY Zenon
<1>1. Mem = [o \in Cells |-> NULL]
    BY Zenon, EmptyAt, MemAt DEF Init
<1>2. QED
    BY Zenon, <1>1 DEF Init, Flat!Init, Mem

LEMMA SameData ==
    ASSUME data' = data
    PROVE  Mem' = Mem
BY Zenon, MemAt, MemAtNext

\* A return with nothing delivered changes no buffer.
LEMMA ReturnSame ==
    ASSUME Inv, NEW p \in Procs, pc[p] # "done", Return(p)
    PROVE  ubuf' = ubuf
<1>1. ubuf[p] = <<>> /\ ubuf' = [ubuf EXCEPT ![p] = <<>>] /\ ubuf \in [Procs -> Seq(Nat)]
    BY Zenon DEF Inv, InHand, Return, Types
<1>2. QED
    BY Zenon, <1>1

LEMMA CallStep ==
    ASSUME Inv, NEW p \in Procs, Call(p) \/ Acquire(p)
    PROVE  (\E off \in Cells : Flat!Seek(p, off)) \/ UNCHANGED Flat!vars
<1>1. data' = data
    BY Zenon DEF Call, Acquire, OpenStart, scull_llseek, ReadStart, WriteStart, Start, OpenDown,
           ReadDown, WriteDown, Down
<1>2. Mem' = Mem /\ ubuf' = ubuf
    BY Zenon, <1>1, SameData
      DEF Call, Acquire, OpenStart, scull_llseek, ReadStart, WriteStart, Start, OpenDown,
           ReadDown, WriteDown, Down
<1>3. CASE OpenStart(p)
    BY Zenon, <1>2, <1>3, ZeroCell DEF OpenStart, Flat!Seek, Mem
<1>4. ASSUME NEW o \in Seeks, NEW whence \in {"set", "cur", "end"}, scull_llseek(p, o, whence)
      PROVE  \E off \in Cells : Flat!Seek(p, off)
    BY Zenon, <1>2, <1>4 DEF scull_llseek, Flat!Seek, Mem
<1>5. CASE ReadStart(p) \/ WriteStart(p) \/ Acquire(p)
  <2>1. f_pos' = f_pos
    BY Zenon, <1>5 DEF Acquire, ReadStart, WriteStart, Start, OpenDown, ReadDown, WriteDown, Down
  <2>2. QED
    BY Zenon, <1>2, <2>1 DEF Flat!vars, Mem
<1>6. QED
    BY Zenon, <1>3, <1>4, <1>5 DEF Call

LEMMA HandlerStep ==
    ASSUME Inv, NEW p \in Procs, Handler(p)
    PROVE  [Flat!Next]_(Flat!vars)
<1>1. Types
    BY Zenon DEF Inv
<1>2. CASE Trim(p)
  <2>1. Mem' = [o \in Cells |-> NULL]
    <3>1. data' = <<>>
        BY Zenon, <1>2 DEF Trim
    <3>2. QED
        BY Zenon, <3>1, EmptyAt, MemAtNext
  <2>2. pc[p] # "done" /\ Return(p) /\ f_pos' = f_pos
    BY Zenon, <1>2 DEF Trim
  <2>3. ubuf' = ubuf
    BY Zenon, <2>2, ReturnSame
  <2>4. Flat!Erase
    BY Zenon, <2>1, <2>2, <2>3 DEF Flat!Erase, Mem
  <2>5. QED
    BY Zenon, <2>4 DEF Flat!Next
<1>3. CASE TrimInterrupted(p) \/ DownInterrupted(p)
  <2>1. pc[p] # "done" /\ Return(p) /\ f_pos' = f_pos /\ data' = data
    BY Zenon, <1>3 DEF TrimInterrupted, DownInterrupted, Interrupted
  <2>2. QED
    BY Zenon, <2>1, ReturnSame, SameData DEF Flat!vars, Mem
<1>4. CASE ReadFail(p)
  <2>1. pc[p] # "done" /\ Return(p) /\ f_pos' = f_pos /\ data' = Followed(p)
    BY Zenon, <1>4 DEF ReadFail, Followed
  <2>2. QED
    BY Zenon, <1>1, <2>1, ReturnSame, FollowedSame DEF Flat!vars, Mem
<1>5. CASE ReadCopy(p)
  <2>1. Flat!Read(p, Count(p)) /\ Count(p) \in 0..scull_quantum
    BY Zenon, <1>1, <1>5, ReadStep, CountFact
  <2>2. QED
    BY Zenon, <2>1 DEF Flat!Next
<1>6. CASE ReadReturn(p)
  <2>1. Return(p) /\ f_pos' = f_pos /\ data' = data
    BY Zenon, <1>6 DEF ReadReturn
  <2>2. Flat!Return(p)
    BY Zenon, <2>1, SameData DEF Flat!Return, Mem, Return
  <2>3. QED
    BY Zenon, <2>2 DEF Flat!Next
<1>7. CASE WriteCopy(p)
  <2>1. PICK done \in 0..scull_quantum : Flat!Write(p, Count(p), arg[p].buf, done)
    BY Zenon, <1>7, WriteStep
  <2>2. Count(p) \in 0..scull_quantum
    BY Zenon, <1>1, CountFact
  <2>3. arg[p].buf \in Values
    BY Zenon, <1>7 DEF Inv, InHand, WriteCopy
  <2>4. QED
    BY Zenon, <2>1, <2>2, <2>3 DEF Flat!Next
<1>8. QED
    BY Zenon, <1>2, <1>3, <1>4, <1>5, <1>6, <1>7 DEF Handler

LEMMA NextFlat == Inv /\ [Next]_vars => [Flat!Next]_(Flat!vars)
<1> SUFFICES ASSUME Inv, [Next]_vars PROVE [Flat!Next]_(Flat!vars)
    BY Zenon
<1>1. CASE Next
  <2>1. PICK p \in Procs : Call(p) \/ Acquire(p) \/ Handler(p)
    BY Zenon, <1>1 DEF Next
  <2>2. CASE Call(p) \/ Acquire(p)
    BY Zenon, <2>2, CallStep DEF Flat!Next
  <2>3. CASE Handler(p)
    BY Zenon, <2>3, HandlerStep
  <2>4. QED
    BY Zenon, <2>1, <2>2, <2>3
<1>2. CASE UNCHANGED vars
  <2>1. data' = data /\ f_pos' = f_pos /\ ubuf' = ubuf
    BY Zenon, <1>2 DEF vars
  <2>2. QED
    BY Zenon, <2>1, SameData DEF Flat!vars, Mem
<1>3. QED
    BY Zenon, <1>1, <1>2

\* The memory device is one flat array of bytes, whatever the quantum, the
\* set size and the number of processes: scull_read and scull_write find the
\* same byte for the same offset across all trims, holes, faults and reads
\* that extend the list, and no write reaches into a quantum beside its own.
THEOREM ListIsFlat == Spec => ImplementsFlat
<1>1. QED
    BY Invariant, InitFlat, NextFlat, PTL DEF Spec, ImplementsFlat, Flat!Spec
=============================================================================
