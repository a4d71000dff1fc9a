-------------------------- MODULE ModuleLifeProofs --------------------------
(***************************************************************************)
(* Loading and unloading of every module, for any number of programs that  *)
(* use it meanwhile.                                                       *)
(*                                                                         *)
(* Sound says what start and end of one module have to get right, and is   *)
(* shown for each of them from its steps.  The rest of the argument knows  *)
(* nothing else of a module: Books keeps account of what it holds at each  *)
(* step of start and end, and Inside says when a user can be in a handler. *)
(***************************************************************************)
EXTENDS ModuleLife, TLAPS

\* What the first steps of start acquire and of end release, the i-th not included.
Gets(m, i) == {m.start[k].get : k \in 1..i-1}
Puts(m, i) == {m.end[k] : k \in 1..i-1}
All(m) == Gets(m, Len(m.start) + 1)

\* start can report success after a failure.
Hides(m) == m \in {scull0, ramblock}

\* What ReleasedOnlyIfHeld lets a module release unheld, and what LeftBehind
\* lets it leave.
Stray(m) ==
    CASE m = scull0   -> {"cdev", "region"}
      [] m = ramblock -> {"queue", "added", "mem", "major"}
      [] m = fin      -> {"cdev"}
      [] OTHER        -> {}

Leak(m) ==
    CASE m = bdev                -> {"ptr", "data", "queue", "disk"}
      [] m \in {ramblock, ram2}  -> {"disk"}
      [] m = kmalloc             -> {"buf"}
      [] m \in {kmem, mempool}   -> {"kmem", "mp"}
      [] m = seq                 -> {"proc"}
      [] OTHER                   -> {}

-----------------------------------------------------------------------------
\* The invariant

Types ==
    /\ program \in Programs
    /\ mod \in {"starting", "live", "ending", "draining", "gone"}
    /\ user \in [Users -> {"out", "open", "in"}]
    /\ mod = "starting" => at \in 1 .. Len(program.start) + 1
    /\ mod = "ending" => at \in 1 .. Len(program.end) + 1
    /\ mod = "draining" => at \in 2 .. Len(program.end) + 1

\* While start runs, the module holds what the steps so far acquire, or
\* believes it does; while end runs, all but what the steps so far release.
\* A module that has reported success after a failure holds less.
Books ==
    /\ mod = "starting" => held \cup missed = Gets(program, at) /\ bad = {}
    /\ mod = "live" /\ (Hides(program) => program.entry \in held) => held \cup missed = All(program)
    /\ mod = "live" => held \subseteq All(program)
    /\ mod \in {"ending", "draining"} =>
          /\ held \subseteq All(program) \ Puts(program, at)
          /\ ~Hides(program) => held \cup missed = All(program) \ Puts(program, at)
    /\ mod = "gone" => held \subseteq Leak(program)
    /\ mod = "gone" /\ Guarded(program) => program.entry \notin held
    /\ bad \subseteq Stray(program)

\* Who can be inside: with fops.owner, only while the module is up and the
\* entry is there; with a proc entry, until remove_proc_entry has waited.
Inside ==
    \A u \in Users :
        /\ program.guard = "owner" /\ user[u] # "out" =>
              mod \in {"starting", "live"} /\ program.entry \in held
        /\ Guarded(program) /\ program.guard = "proc" /\ user[u] = "in" =>
              \/ mod \in {"starting", "live", "ending"} /\ program.entry \in held
              \/ mod = "draining"

Inv == Types /\ Books /\ Inside

-----------------------------------------------------------------------------
\* The modules

\* No two modules have the same start and end.
LEMMA Apart ==
    /\ scull0 \notin {nonblock, chrdev, fin, bdev, ramblock, ram2, kmalloc, kmem, mempool, percpu, seq}
    /\ ramblock \notin {nonblock, chrdev, fin, bdev, ram2, kmalloc, kmem, mempool, percpu, seq}
    /\ fin \notin {nonblock, chrdev, bdev, ram2, kmalloc, kmem, mempool, percpu, seq}
    /\ bdev \notin {nonblock, chrdev, ram2, kmalloc, kmem, mempool, percpu, seq}
    /\ ram2 \notin {nonblock, chrdev, kmalloc, kmem, mempool, percpu, seq}
    /\ kmalloc \notin {nonblock, chrdev, kmem, mempool, percpu, seq}
    /\ kmem \notin {nonblock, chrdev, mempool, percpu, seq}
    /\ mempool \notin {nonblock, chrdev, percpu, seq}
    /\ seq \notin {nonblock, chrdev, percpu}
<1>1. scull0 \notin {nonblock, chrdev, fin, bdev, ramblock, ram2, kmalloc, kmem, mempool, percpu, seq}
    BY Zenon DEF scull0, nonblock, chrdev, fin, bdev, ramblock, ram2, kmalloc, kmem, mempool, percpu, seq
<1>2. ramblock \notin {nonblock, chrdev, fin, bdev, ram2, kmalloc, kmem, mempool, percpu, seq}
    BY Zenon DEF ramblock, nonblock, chrdev, fin, bdev, ram2, kmalloc, kmem, mempool, percpu, seq
<1>3. fin \notin {nonblock, chrdev, bdev, ram2, kmalloc, kmem, mempool, percpu, seq}
    BY Zenon DEF fin, nonblock, chrdev, bdev, ram2, kmalloc, kmem, mempool, percpu, seq
<1>4. bdev \notin {nonblock, chrdev, ram2, kmalloc, kmem, mempool, percpu, seq}
    BY Zenon DEF bdev, nonblock, chrdev, ram2, kmalloc, kmem, mempool, percpu, seq
<1>5. ram2 \notin {nonblock, chrdev, kmalloc, kmem, mempool, percpu, seq}
    BY Zenon DEF ram2, nonblock, chrdev, kmalloc, kmem, mempool, percpu, seq
<1>6. kmalloc \notin {nonblock, chrdev, kmem, mempool, percpu, seq}
    BY Zenon DEF kmalloc, nonblock, chrdev, kmem, mempool, percpu, seq
<1>7. kmem \notin {nonblock, chrdev, mempool, percpu, seq}
    BY Zenon DEF kmem, nonblock, chrdev, mempool, percpu, seq
<1>8. mempool \notin {nonblock, chrdev, percpu, seq}
    BY Zenon DEF mempool, nonblock, chrdev, percpu, seq
<1>9. seq \notin {nonblock, chrdev, percpu}
    BY Zenon DEF seq, nonblock, chrdev, percpu
<1>10. QED
    BY Zenon, <1>1, <1>2, <1>3, <1>4, <1>5, <1>6, <1>7, <1>8, <1>9

LEMMA Tables ==
    /\ Stray(nonblock) = {} /\ Leak(nonblock) = {} /\ ~Hides(nonblock)
    /\ Stray(scull0) = {"cdev", "region"} /\ Leak(scull0) = {} /\ Hides(scull0)
    /\ Stray(chrdev) = {} /\ Leak(chrdev) = {} /\ ~Hides(chrdev)
    /\ Stray(fin) = {"cdev"} /\ Leak(fin) = {} /\ ~Hides(fin)
    /\ Stray(bdev) = {} /\ Leak(bdev) = {"ptr", "data", "queue", "disk"} /\ ~Hides(bdev)
    /\ Stray(ramblock) = {"queue", "added", "mem", "major"} /\ Leak(ramblock) = {"disk"}
    /\ Hides(ramblock)
    /\ Stray(ram2) = {} /\ Leak(ram2) = {"disk"} /\ ~Hides(ram2)
    /\ Stray(kmalloc) = {} /\ Leak(kmalloc) = {"buf"} /\ ~Hides(kmalloc)
    /\ Stray(kmem) = {} /\ Leak(kmem) = {"kmem", "mp"} /\ ~Hides(kmem)
    /\ Stray(mempool) = {} /\ Leak(mempool) = {"kmem", "mp"} /\ ~Hides(mempool)
    /\ Stray(percpu) = {} /\ Leak(percpu) = {} /\ ~Hides(percpu)
    /\ Stray(seq) = {} /\ Leak(seq) = {"proc"} /\ ~Hides(seq)
<1>1. /\ Stray(nonblock) = {} /\ Leak(nonblock) = {} /\ ~Hides(nonblock)
      /\ Stray(chrdev) = {} /\ Leak(chrdev) = {} /\ ~Hides(chrdev)
    BY Zenon, Apart DEF Stray, Leak, Hides
<1>2. Stray(scull0) = {"cdev", "region"} /\ Leak(scull0) = {} /\ Hides(scull0)
    BY Zenon, Apart DEF Stray, Leak, Hides
<1>3. Stray(fin) = {"cdev"} /\ Leak(fin) = {} /\ ~Hides(fin)
    BY Zenon, Apart DEF Stray, Leak, Hides
<1>4. Stray(bdev) = {} /\ Leak(bdev) = {"ptr", "data", "queue", "disk"} /\ ~Hides(bdev)
    BY Zenon, Apart DEF Stray, Leak, Hides
<1>5. /\ Stray(ramblock) = {"queue", "added", "mem", "major"} /\ Leak(ramblock) = {"disk"}
      /\ Hides(ramblock)
    BY Zenon, Apart DEF Stray, Leak, Hides
<1>6. Stray(ram2) = {} /\ Leak(ram2) = {"disk"} /\ ~Hides(ram2)
    BY Zenon, Apart DEF Stray, Leak, Hides
<1>7. Stray(kmalloc) = {} /\ Leak(kmalloc) = {"buf"} /\ ~Hides(kmalloc)
    BY Zenon, Apart DEF Stray, Leak, Hides
<1>8. /\ Stray(kmem) = {} /\ Leak(kmem) = {"kmem", "mp"} /\ ~Hides(kmem)
      /\ Stray(mempool) = {} /\ Leak(mempool) = {"kmem", "mp"} /\ ~Hides(mempool)
    BY Zenon, Apart DEF Stray, Leak, Hides
<1>9. /\ Stray(percpu) = {} /\ Leak(percpu) = {} /\ ~Hides(percpu)
      /\ Stray(seq) = {} /\ Leak(seq) = {"proc"} /\ ~Hides(seq)
    BY Zenon, Apart DEF Stray, Leak, Hides
<1>10. QED
    BY Zenon, <1>1, <1>2, <1>3, <1>4, <1>5, <1>6, <1>7, <1>8, <1>9

\* What start and end of a module have to get right.  start registers the
\* entry last.
EntryLast(m) ==
    /\ Len(m.start) \in Nat \ {0} /\ Len(m.end) \in Nat
    /\ m.start[Len(m.start)].get = m.entry
    /\ \A i \in 1..Len(m.start) : m.entry \notin Gets(m, i)

\* A failure strays and leaks no more than the tables say.
Unwinds(m) ==
    \A i \in 1..Len(m.start) : m.start[i].fails = "seen" =>
        /\ Range(m.start[i].undo) \ Gets(m, i) \subseteq Stray(m)
        /\ IF m.start[i].code = "error"
             THEN Gets(m, i) \ Range(m.start[i].undo) \subseteq Leak(m) ELSE Hides(m)

\* end releases what start has acquired, once each, and the rest is in the table.
Ends(m) ==
    /\ \A i \in 1..Len(m.end) :
          IF Hides(m) THEN m.end[i] \in Stray(m) ELSE m.end[i] \in All(m) \ Puts(m, i)
    /\ All(m) \ Puts(m, Len(m.end) + 1) \subseteq Leak(m)

\* The handlers use what start acquires, and end withdraws the entry.
Serves(m) ==
    /\ Guarded(m) => m.needs \subseteq All(m) /\ m.entry \in Puts(m, Len(m.end) + 1)
    /\ Guarded(m) /\ m.guard # "owner" =>
          /\ m.entry = "proc" /\ Len(m.end) = 1 /\ m.end[1] = "proc"
          /\ m.needs \subseteq All(m) \ {m.entry} /\ ~Hides(m)

Sound(m) == EntryLast(m) /\ Unwinds(m) /\ Ends(m) /\ Serves(m)

LEMMA nonblockSound == Sound(nonblock)
<1>1. EntryLast(nonblock)
    BY SMTT(30) DEF EntryLast, nonblock, Get, Unseen, Gets
<1>2. Unwinds(nonblock)
    BY SMTT(30), Tables DEF Unwinds, nonblock, Get, Unseen, Range, Gets
<1>3. Ends(nonblock)
    BY SMTT(30), Tables DEF Ends, nonblock, Get, Unseen, Gets, Puts, All
<1>4. Serves(nonblock)
    BY SMTT(30), Tables DEF Serves, nonblock, Get, Unseen, Gets, Puts, All, Guarded
<1>5. QED
    BY Zenon, <1>1, <1>2, <1>3, <1>4 DEF Sound

LEMMA scull0Sound == Sound(scull0)
<1>1. EntryLast(scull0)
    BY SMTT(30) DEF EntryLast, scull0, Get, Hidden, Gets
<1>2. Unwinds(scull0)
    BY SMTT(30), Tables DEF Unwinds, scull0, Get, Hidden, Range, Gets
<1>3. Ends(scull0)
    BY SMTT(30), Tables DEF Ends, scull0, Get, Hidden, Gets, Puts, All
<1>4. Serves(scull0)
    BY SMTT(30), Tables DEF Serves, scull0, Get, Hidden, Gets, Puts, All, Guarded
<1>5. QED
    BY Zenon, <1>1, <1>2, <1>3, <1>4 DEF Sound

LEMMA chrdevSound == Sound(chrdev)
<1>1. EntryLast(chrdev)
    BY SMTT(30) DEF EntryLast, chrdev, Get, Gets
<1>2. Unwinds(chrdev)
    BY SMTT(30), Tables DEF Unwinds, chrdev, Get, Range, Gets
<1>3. Ends(chrdev)
    BY SMTT(30), Tables DEF Ends, chrdev, Get, Gets, Puts, All
<1>4. Serves(chrdev)
    BY Zenon, Tables DEF Serves, chrdev, Get, Gets, Puts, All, Guarded
<1>5. QED
    BY Zenon, <1>1, <1>2, <1>3, <1>4 DEF Sound

LEMMA finSound == Sound(fin)
<1>1. EntryLast(fin)
    BY SMTT(30) DEF EntryLast, fin, Get, Gets
<1>2. Unwinds(fin)
  <2>1. /\ Len(fin.start) = 4 /\ \A i \in 1..4 : fin.start[i].code = "error"
        /\ fin.start[1].undo = <<>> /\ fin.start[2].undo = <<"ptr">>
        /\ fin.start[3].undo = <<"region", "ptr">>
        /\ fin.start[4].undo = <<"buf", "cdev", "region", "ptr">>
    BY SMTT(30) DEF fin, Get
  <2>2. /\ Gets(fin, 1) = {} /\ Gets(fin, 2) = {"ptr"} /\ Gets(fin, 3) = {"ptr", "region"}
        /\ Gets(fin, 4) = {"ptr", "region", "buf"}
    BY SMTT(30) DEF fin, Get, Gets
  <2>3. QED
    BY SMTT(30), <2>1, <2>2, Tables DEF Unwinds, Range
<1>3. Ends(fin)
    BY SMTT(30), Tables DEF Ends, fin, Get, Gets, Puts, All
<1>4. Serves(fin)
    BY Zenon, Tables DEF Serves, fin, Get, Gets, Puts, All, Guarded
<1>5. QED
    BY Zenon, <1>1, <1>2, <1>3, <1>4 DEF Sound

LEMMA bdevSound == Sound(bdev)
<1>1. EntryLast(bdev)
    BY SMTT(30) DEF EntryLast, bdev, Get, Sure, Gets
<1>2. Unwinds(bdev)
  <2>1. /\ Len(bdev.start) = 6 /\ \A i \in 1..6 : bdev.start[i].code = "error"
        /\ bdev.start[1].undo = <<>> /\ bdev.start[2].undo = <<"ptr">>
        /\ bdev.start[3].fails = "never" /\ bdev.start[4].undo = <<>>
        /\ bdev.start[5].undo = <<"major", "data", "ptr">> /\ bdev.start[6].fails = "never"
    BY SMTT(30) DEF bdev, Get, Sure
  <2>2. /\ Gets(bdev, 1) = {} /\ Gets(bdev, 2) = {"ptr"} /\ Gets(bdev, 4) = {"ptr", "data", "queue"}
        /\ Gets(bdev, 5) = {"ptr", "data", "queue", "major"}
    BY SMTT(30) DEF bdev, Get, Sure, Gets
  <2>3. QED
    BY SMTT(30), <2>1, <2>2, Tables DEF Unwinds, Range
<1>3. Ends(bdev)
    BY SMTT(30), Tables DEF Ends, bdev, Get, Sure, Gets, Puts, All
<1>4. Serves(bdev)
    BY SMTT(30), Tables DEF Serves, bdev, Get, Sure, Gets, Puts, All, Guarded
<1>5. QED
    BY Zenon, <1>1, <1>2, <1>3, <1>4 DEF Sound

LEMMA ramblockSound == Sound(ramblock)
<1>1. EntryLast(ramblock)
    BY SMTT(30) DEF EntryLast, ramblock, Get, Unseen, Hidden, Sure, Gets
<1>2. Unwinds(ramblock)
    BY SMTT(30), Tables DEF Unwinds, ramblock, Get, Unseen, Hidden, Sure, Range, Gets
<1>3. Ends(ramblock)
    BY SMTT(30), Tables DEF Ends, ramblock, Get, Unseen, Hidden, Sure, Gets, Puts, All
<1>4. Serves(ramblock)
    BY SMTT(30), Tables DEF Serves, ramblock, Get, Unseen, Hidden, Sure, Gets, Puts, All, Guarded
<1>5. QED
    BY Zenon, <1>1, <1>2, <1>3, <1>4 DEF Sound

LEMMA ram2Sound == Sound(ram2)
<1>1. EntryLast(ram2)
    BY SMTT(30) DEF EntryLast, ram2, Get, Sure, Gets
<1>2. Unwinds(ram2)
    BY SMTT(30), Tables DEF Unwinds, ram2, Get, Sure, Range, Gets
<1>3. Ends(ram2)
    BY SMTT(30), Tables DEF Ends, ram2, Get, Sure, Gets, Puts, All
<1>4. Serves(ram2)
    BY SMTT(30), Tables DEF Serves, ram2, Get, Sure, Gets, Puts, All, Guarded
<1>5. QED
    BY Zenon, <1>1, <1>2, <1>3, <1>4 DEF Sound

LEMMA kmallocSound == Sound(kmalloc)
<1>1. EntryLast(kmalloc)
    BY SMTT(30) DEF EntryLast, kmalloc, Get, Gets
<1>2. Unwinds(kmalloc)
    BY SMTT(30), Tables DEF Unwinds, kmalloc, Get, Range, Gets
<1>3. Ends(kmalloc)
    BY SMTT(30), Tables DEF Ends, kmalloc, Get, Gets, Puts, All
<1>4. Serves(kmalloc)
    BY SMTT(30), Tables DEF Serves, kmalloc, Get, Gets, Puts, All, Guarded
<1>5. QED
    BY Zenon, <1>1, <1>2, <1>3, <1>4 DEF Sound

LEMMA kmemSound == Sound(kmem)
<1>1. EntryLast(kmem)
    BY SMTT(30) DEF EntryLast, kmem, Get, Gets
<1>2. Unwinds(kmem)
    BY SMTT(30), Tables DEF Unwinds, kmem, Get, Range, Gets
<1>3. Ends(kmem)
    BY SMTT(30), Tables DEF Ends, kmem, Get, Gets, Puts, All
<1>4. Serves(kmem)
    BY Zenon, Tables DEF Serves, kmem, Get, Gets, Puts, All, Guarded
<1>5. QED
    BY Zenon, <1>1, <1>2, <1>3, <1>4 DEF Sound

LEMMA mempoolSound == Sound(mempool)
<1>1. EntryLast(mempool)
    BY SMTT(30) DEF EntryLast, mempool, Get, Gets
<1>2. Unwinds(mempool)
    BY SMTT(30), Tables DEF Unwinds, mempool, Get, Range, Gets
<1>3. Ends(mempool)
    BY SMTT(30), Tables DEF Ends, mempool, Get, Gets, Puts, All
<1>4. Serves(mempool)
    BY Zenon, Tables DEF Serves, mempool, Get, Gets, Puts, All, Guarded
<1>5. QED
    BY Zenon, <1>1, <1>2, <1>3, <1>4 DEF Sound

LEMMA percpuSound == Sound(percpu)
<1>1. EntryLast(percpu)
    BY SMTT(30) DEF EntryLast, percpu, Get, Gets
<1>2. Unwinds(percpu)
    BY SMTT(30), Tables DEF Unwinds, percpu, Get, Range, Gets
<1>3. Ends(percpu)
    BY SMTT(30), Tables DEF Ends, percpu, Get, Gets, Puts, All
<1>4. Serves(percpu)
    BY SMTT(30), Tables DEF Serves, percpu, Get, Gets, Puts, All, Guarded
<1>5. QED
    BY Zenon, <1>1, <1>2, <1>3, <1>4 DEF Sound

LEMMA seqSound == Sound(seq)
<1>1. EntryLast(seq)
    BY SMTT(30) DEF EntryLast, seq, Unseen, Gets
<1>2. Unwinds(seq)
    BY SMTT(30), Tables DEF Unwinds, seq, Unseen, Range, Gets
<1>3. Ends(seq)
    BY SMTT(30), Tables DEF Ends, seq, Unseen, Gets, Puts, All
<1>4. Serves(seq)
    BY Zenon, Tables DEF Serves, seq, Unseen, Gets, Puts, All, Guarded
<1>5. QED
    BY Zenon, <1>1, <1>2, <1>3, <1>4 DEF Sound

LEMMA AllSound == \A m \in Programs : Sound(m)
BY Zenon, nonblockSound, scull0Sound, chrdevSound, finSound, bdevSound, ramblockSound, ram2Sound,
   kmallocSound, kmemSound, mempoolSound, percpuSound, seqSound
   DEF Programs, access, onlyone, rw_block, chrdev_bak, finopage, bdev_regular, page, timer,
       tasklet, workqueue, workqueue_orig, timer_old, proc

LEMMA NoneYet ==
    ASSUME NEW m
    PROVE  Gets(m, 1) = {} /\ Puts(m, 1) = {}
<1>1. 1..1-1 = {}
    OBVIOUS
<1>2. QED
    BY Zenon, <1>1 DEF Gets, Puts

LEMMA GetsNext ==
    ASSUME NEW m, NEW i \in Nat \ {0}
    PROVE  /\ Gets(m, i + 1) = Gets(m, i) \cup {m.start[i].get}
           /\ Puts(m, i + 1) = Puts(m, i) \cup {m.end[i]}
<1>1. 1..(i+1)-1 = (1..i-1) \cup {i}
    BY SMTT(30)
<1>2. QED
    BY Zenon, <1>1 DEF Gets, Puts

LEMMA GetsAll ==
    ASSUME NEW m, Len(m.start) \in Nat, NEW i \in 1..Len(m.start) + 1
    PROVE  Gets(m, i) \subseteq All(m)
<1>1. 1..i-1 \subseteq 1..(Len(m.start) + 1)-1
    BY SMTT(30)
<1>2. QED
    BY Zenon, <1>1 DEF Gets, All

-----------------------------------------------------------------------------
\* Every step keeps the invariant

LEMMA InitInv == Init => Inv
<1> SUFFICES ASSUME Init PROVE Inv
    BY Zenon
<1>1. Sound(program)
    BY Zenon, AllSound DEF Init
<1>2. Types
    BY SMTT(30), <1>1 DEF Init, Types, Sound, EntryLast
<1>3. Gets(program, 1) = {}
    BY Zenon, NoneYet
<1>4. Books
    BY Zenon, <1>3 DEF Init, Books
<1>5. Inside
    BY Zenon DEF Init, Inside
<1>6. QED
    BY Zenon, <1>2, <1>4, <1>5 DEF Inv

\* start goes on to its next step.
LEMMA Forward ==
    ASSUME Inv, mod = "starting", at <= Len(program.start), at' = at + 1,
           held \subseteq held', held' \cup missed' = held \cup missed \cup {program.start[at].get},
           UNCHANGED <<program, mod, bad, user>>
    PROVE  Inv'
<1>1. program' = program /\ mod' = mod /\ bad' = bad /\ user' = user
    BY Zenon
<1>2. Types /\ Books /\ Inside
    BY Zenon DEF Inv
<1>3. Sound(program)
    BY Zenon, <1>2, AllSound DEF Types
<1>4. Len(program.start) \in Nat /\ at \in 1..Len(program.start) /\ at \in Nat \ {0}
    BY SMTT(30), <1>2, <1>3 DEF Types, Sound, EntryLast
<1>5. Types'
    BY SMTT(30), <1>1, <1>2, <1>4 DEF Types
<1>6. Gets(program, at + 1) = Gets(program, at) \cup {program.start[at].get}
    BY Zenon, <1>4, GetsNext
<1>7. held' \cup missed' = Gets(program', at')
    BY Zenon, <1>1, <1>2, <1>6 DEF Books
<1>8. Books'
  <2>1. mod' = "starting" /\ bad' = {}
    BY Zenon, <1>1, <1>2 DEF Books
  <2>2. QED
    BY Zenon, <1>7, <2>1 DEF Books
<1>9. Inside'
    BY Zenon, <1>1, <1>2 DEF Inside, Guarded
<1>10. QED
    BY Zenon, <1>5, <1>8, <1>9 DEF Inv

\* Before the last step of start nobody is inside.
LEMMA NobodyYet ==
    ASSUME Inv, mod = "starting", at <= Len(program.start)
    PROVE  /\ program.entry \notin held
           /\ \A u \in Users : /\ program.guard = "owner" => user[u] = "out"
                               /\ Guarded(program) => user[u] # "in"
<1>1. Types /\ Books /\ Inside
    BY Zenon DEF Inv
<1>2. Sound(program)
    BY Zenon, <1>1, AllSound DEF Types
<1>3. at \in 1..Len(program.start)
    BY SMTT(30), <1>1, <1>2 DEF Types, Sound, EntryLast
<1>4. program.entry \notin held
    BY Zenon, <1>1, <1>2, <1>3 DEF Books, Sound, EntryLast
<1>5. QED
    BY Zenon, <1>1, <1>4 DEF Inside, Guarded

LEMMA FailsInv ==
    ASSUME Inv, AcquireFails
    PROVE  Inv'
<1> DEFINE step == program.start[at]
           undo == Range(step.undo)
<1>1. /\ mod = "starting" /\ at <= Len(program.start) /\ step.fails = "seen"
      /\ mod' = IF step.code = "error" THEN "gone" ELSE "live"
      /\ held' = held \ undo /\ missed' = missed \ undo /\ bad' = bad \cup (undo \ (held \cup missed))
      /\ program' = program /\ at' = at /\ user' = user
    BY Zenon DEF AcquireFails, Release
<1>2. Types /\ Books /\ Inside
    BY Zenon DEF Inv
<1>3. Sound(program)
    BY Zenon, <1>2, AllSound DEF Types
<1>4. Len(program.start) \in Nat /\ at \in 1..Len(program.start) /\ at \in 1..Len(program.start) + 1
    BY SMTT(30), <1>1, <1>2, <1>3 DEF Types, Sound, EntryLast
<1>5. held \cup missed = Gets(program, at) /\ bad = {}
    BY Zenon, <1>1, <1>2 DEF Books
<1>6. program.entry \notin held' /\ Gets(program, at) \subseteq All(program)
    BY Zenon, <1>1, <1>4, NobodyYet, GetsAll
<1>7. bad' \subseteq Stray(program)
    BY Zenon, <1>1, <1>3, <1>4, <1>5 DEF Sound, Unwinds
<1>8. Types'
    BY Zenon, <1>1, <1>2 DEF Types
<1>9. Books'
  <2>1. CASE step.code = "error"
    <3>1. mod' = "gone"
        BY Zenon, <1>1, <2>1
    <3>2. held' \subseteq Leak(program)
        BY Zenon, <1>1, <1>3, <1>4, <1>5, <2>1 DEF Sound, Unwinds
    <3>3. QED
        BY Zenon, <1>1, <1>6, <1>7, <3>1, <3>2 DEF Books
  <2>2. CASE step.code # "error"
    <3>1. mod' = "live"
        BY Zenon, <1>1, <2>2
    <3>2. Hides(program)
        BY Zenon, <1>1, <1>3, <1>4, <2>2 DEF Sound, Unwinds
    <3>3. held' \subseteq All(program)
        BY Zenon, <1>1, <1>5, <1>6
    <3>4. QED
        BY Zenon, <1>1, <1>6, <1>7, <3>1, <3>2, <3>3 DEF Books
  <2>3. QED
    BY Zenon, <2>1, <2>2
<1>10. Inside'
    BY Zenon, <1>1, NobodyYet DEF Inside
<1>11. QED
    BY Zenon, <1>8, <1>9, <1>10 DEF Inv

LEMMA LoadedInv ==
    ASSUME Inv, Loaded
    PROVE  Inv'
<1>1. /\ mod = "starting" /\ at > Len(program.start) /\ mod' = "live" /\ program' = program /\ at' = at
      /\ held' = held /\ missed' = missed /\ bad' = bad /\ user' = user
    BY Zenon DEF Loaded
<1>2. Types /\ Books /\ Inside
    BY Zenon DEF Inv
<1>3. Len(program.start) \in Nat
    BY Zenon, <1>2, AllSound DEF Types, Sound, EntryLast
<1>4. at = Len(program.start) + 1
    BY SMTT(30), <1>1, <1>2, <1>3 DEF Types
<1>5. held \cup missed = All(program) /\ bad = {}
    BY Zenon, <1>1, <1>2, <1>4 DEF Books, All
<1>6. Types'
    BY Zenon, <1>1, <1>2 DEF Types
<1>7. Books'
    BY Zenon, <1>1, <1>5 DEF Books
<1>8. Inside'
    BY Zenon, <1>1, <1>2 DEF Inside, Guarded
<1>9. QED
    BY Zenon, <1>6, <1>7, <1>8 DEF Inv

LEMMA RmmodInv ==
    ASSUME Inv, Rmmod
    PROVE  Inv'
<1>1. /\ mod = "live" /\ mod' = "ending" /\ program' = program /\ at' = 1
      /\ held' = held /\ missed' = missed /\ bad' = bad /\ user' = user
      /\ program.guard = "owner" => \A u \in Users : user[u] = "out"
    BY Zenon DEF Rmmod
<1>2. Types /\ Books /\ Inside
    BY Zenon DEF Inv
<1>3. Len(program.end) \in Nat
    BY Zenon, <1>2, AllSound DEF Types, Sound, EntryLast
<1>4. Puts(program, 1) = {}
    BY Zenon, NoneYet
<1>5. Types'
    BY SMTT(30), <1>1, <1>2, <1>3 DEF Types
<1>6. Books'
    BY Zenon, <1>1, <1>2, <1>4 DEF Books
<1>7. Inside'
    BY Zenon, <1>1, <1>2 DEF Inside, Guarded
<1>8. QED
    BY Zenon, <1>5, <1>6, <1>7 DEF Inv

LEMMA EndStepInv ==
    ASSUME Inv, EndStep
    PROVE  Inv'
<1> DEFINE x == program.end[at]
<1>1. /\ mod = "ending" /\ at <= Len(program.end) /\ program' = program /\ at' = at + 1
      /\ mod' = IF x = "proc" THEN "draining" ELSE "ending"
      /\ held' = held \ {x} /\ missed' = missed \ {x} /\ bad' = bad \cup ({x} \ (held \cup missed))
      /\ user' = user
    BY Zenon DEF EndStep, Release
<1>2. Types /\ Books /\ Inside
    BY Zenon DEF Inv
<1>3. Sound(program)
    BY Zenon, <1>2, AllSound DEF Types
<1>4. Len(program.end) \in Nat /\ at \in 1..Len(program.end) /\ at \in Nat \ {0}
    BY SMTT(30), <1>1, <1>2, <1>3 DEF Types, Sound, EntryLast
<1>5. Puts(program, at + 1) = Puts(program, at) \cup {x}
    BY Zenon, <1>4, GetsNext
<1>6. Types'
    BY SMTT(30), <1>1, <1>2, <1>4 DEF Types
<1>7. mod' \in {"ending", "draining"} /\ mod' # "starting" /\ mod' # "live" /\ mod' # "gone"
    BY Zenon, <1>1
<1>8. Books'
  <2>1. /\ held' \subseteq All(program) \ Puts(program, at + 1)
        /\ ~Hides(program) => held' \cup missed' = All(program) \ Puts(program, at + 1)
    <3>1. /\ held \subseteq All(program) \ Puts(program, at)
          /\ ~Hides(program) => held \cup missed = All(program) \ Puts(program, at)
        BY Zenon, <1>1, <1>2 DEF Books
    <3>2. QED
        BY Zenon, <1>1, <1>5, <3>1
  <2>2. bad' \subseteq Stray(program)
    <3>1. CASE Hides(program)
        BY Zenon, <1>1, <1>2, <1>3, <1>4, <3>1 DEF Books, Sound, Ends
    <3>2. CASE ~Hides(program)
      <4>1. held \cup missed = All(program) \ Puts(program, at)
        BY Zenon, <1>1, <1>2, <3>2 DEF Books
      <4>2. x \in held \cup missed
        BY Zenon, <1>3, <1>4, <3>2, <4>1 DEF Sound, Ends
      <4>3. QED
        BY Zenon, <1>1, <1>2, <4>2 DEF Books
    <3>3. QED
        BY Zenon, <3>1, <3>2
  <2>3. QED
    BY Zenon, <1>1, <1>7, <2>1, <2>2 DEF Books
<1>9. Inside'
  <2>1. CASE program.guard = "owner"
    <3>1. \A u \in Users : user[u] = "out"
        BY Zenon, <1>1, <1>2, <2>1 DEF Inside
    <3>2. QED
        BY Zenon, <1>1, <2>1, <3>1 DEF Inside
  <2>2. CASE Guarded(program) /\ program.guard = "proc"
    <3>1. program.guard # "owner"
        BY Zenon, <2>2
    <3>2. Len(program.end) = 1 /\ program.end[1] = "proc"
        BY Zenon, <1>3, <2>2, <3>1 DEF Sound, Serves
    <3>3. at = 1 /\ x = "proc"
        BY SMTT(30), <1>4, <3>2
    <3>4. mod' = "draining"
        BY Zenon, <1>1, <3>3
    <3>5. QED
        BY Zenon, <1>1, <3>1, <3>4 DEF Inside
  <2>3. CASE program.guard # "owner" /\ ~(Guarded(program) /\ program.guard = "proc")
    <3>1. Guarded(program)' <=> Guarded(program)
        BY Zenon, <1>1 DEF Guarded
    <3>2. QED
        BY Zenon, <1>1, <2>3, <3>1 DEF Inside
  <2>4. QED
    BY Zenon, <2>1, <2>2, <2>3
<1>10. QED
    BY Zenon, <1>6, <1>8, <1>9 DEF Inv

LEMMA DrainedInv ==
    ASSUME Inv, Drained
    PROVE  Inv'
<1>1. /\ mod = "draining" /\ mod' = "ending" /\ program' = program /\ at' = at
      /\ held' = held /\ missed' = missed /\ bad' = bad /\ user' = user
      /\ \A u \in Users : user[u] # "in"
    BY Zenon DEF Drained
<1>2. Types /\ Books /\ Inside
    BY Zenon DEF Inv
<1>3. Len(program.end) \in Nat
    BY Zenon, <1>2, AllSound DEF Types, Sound, EntryLast
<1>4. Types'
    BY SMTT(30), <1>1, <1>2, <1>3 DEF Types
<1>5. Books'
    BY Zenon, <1>1, <1>2 DEF Books
<1>6. Inside'
    BY Zenon, <1>1, <1>2 DEF Inside, Guarded
<1>7. QED
    BY Zenon, <1>4, <1>5, <1>6 DEF Inv

\* Once end has withdrawn the entry of a guarded module, it stays withdrawn.
LEMMA Withdrawn ==
    ASSUME Inv, Guarded(program), program.guard # "owner", mod \in {"ending", "draining"},
           program.entry \in held
    PROVE  mod = "ending" /\ at = 1
<1>1. Types /\ Books
    BY Zenon DEF Inv
<1>2. Sound(program)
    BY Zenon, <1>1, AllSound DEF Types
<1>3. program.entry \notin Puts(program, at)
    BY Zenon, <1>1 DEF Books
<1>4. program.entry = program.end[1] /\ Len(program.end) \in Nat
    BY Zenon, <1>2 DEF Sound, Serves, EntryLast
<1>5. at > 1 => 1 \in 1..at-1
    BY SMTT(30), <1>1, <1>4 DEF Types
<1>6. ~(at > 1)
    BY Zenon, <1>3, <1>4, <1>5 DEF Puts
<1>7. QED
    BY SMTT(30), <1>1, <1>4, <1>6 DEF Types

LEMMA UnloadedInv ==
    ASSUME Inv, Unloaded
    PROVE  Inv'
<1>1. /\ mod = "ending" /\ at > Len(program.end) /\ mod' = "gone" /\ program' = program /\ at' = at
      /\ held' = held /\ missed' = missed /\ bad' = bad /\ user' = user
    BY Zenon DEF Unloaded
<1>2. Types /\ Books /\ Inside
    BY Zenon DEF Inv
<1>3. Sound(program)
    BY Zenon, <1>2, AllSound DEF Types
<1>4. at = Len(program.end) + 1 /\ Len(program.end) \in Nat
    BY SMTT(30), <1>1, <1>2, <1>3 DEF Types, Sound, EntryLast
<1>5. held \subseteq All(program) \ Puts(program, Len(program.end) + 1)
    BY Zenon, <1>1, <1>2, <1>4 DEF Books
<1>6. Types'
    BY Zenon, <1>1, <1>2 DEF Types
<1>7. Books'
  <2>1. held' \subseteq Leak(program)
    BY Zenon, <1>1, <1>3, <1>5 DEF Sound, Ends
  <2>2. Guarded(program) => program.entry \notin held
    BY Zenon, <1>3, <1>5 DEF Sound, Serves
  <2>3. QED
    BY Zenon, <1>1, <1>2, <2>1, <2>2 DEF Books, Guarded
<1>8. Inside'
  <2>1. CASE program.guard = "owner"
    <3>1. \A u \in Users : user[u] = "out"
        BY Zenon, <1>1, <1>2, <2>1 DEF Inside
    <3>2. QED
        BY Zenon, <1>1, <2>1, <3>1 DEF Inside
  <2>2. CASE program.guard # "owner"
    <3>1. ASSUME NEW u \in Users, Guarded(program), user[u] = "in" PROVE FALSE
      <4>1. program.guard = "proc"
        BY Zenon, <2>2, <3>1 DEF Guarded
      <4>2. program.entry \in held
        BY Zenon, <1>1, <1>2, <3>1, <4>1 DEF Inside
      <4>3. at = 1 /\ Len(program.end) = 1
        BY Zenon, <1>1, <1>3, <2>2, <3>1, <4>2, Withdrawn DEF Sound, Serves
      <4>4. QED
        BY SMTT(30), <1>4, <4>3
    <3>2. Guarded(program)' <=> Guarded(program)
        BY Zenon, <1>1 DEF Guarded
    <3>3. QED
        BY Zenon, <1>1, <2>2, <3>1, <3>2 DEF Inside
  <2>3. QED
    BY Zenon, <2>1, <2>2
<1>9. QED
    BY Zenon, <1>6, <1>7, <1>8 DEF Inv

LEMMA UserInv ==
    ASSUME Inv, NEW u \in Users, Open(u) \/ Enter(u) \/ Leave(u) \/ Close(u)
    PROVE  Inv'
<1>1. /\ program' = program /\ mod' = mod /\ at' = at /\ held' = held /\ missed' = missed
      /\ bad' = bad
    BY Zenon DEF Open, Enter, Leave, Close
<1>2. Types /\ Books /\ Inside
    BY Zenon DEF Inv
<1>3. Types'
    BY Zenon, <1>1, <1>2 DEF Types, Open, Enter, Leave, Close
<1>4. Books'
    BY Zenon, <1>1, <1>2 DEF Books, Guarded
<1>5. \A v \in Users : v # u => user'[v] = user[v]
    BY Zenon, <1>2 DEF Types, Open, Enter, Leave, Close
<1>6. Guarded(program)' <=> Guarded(program)
    BY Zenon, <1>1 DEF Guarded
<1>7. ASSUME program.guard = "owner", user'[u] # "out"
      PROVE  mod \in {"starting", "live"} /\ program.entry \in held
  <2>1. CASE Open(u)
    BY Zenon, <1>7, <2>1 DEF Open
  <2>2. CASE Enter(u) \/ Leave(u)
    <3>1. user[u] # "out"
        BY Zenon, <2>2 DEF Enter, Leave
    <3>2. QED
        BY Zenon, <1>2, <1>7, <3>1 DEF Inside
  <2>3. CASE Close(u)
    BY Zenon, <1>2, <1>7, <2>3 DEF Close, Types
  <2>4. QED
    BY Zenon, <2>1, <2>2, <2>3
<1>8. ASSUME Guarded(program), program.guard = "proc", user'[u] = "in"
      PROVE  \/ mod \in {"starting", "live", "ending"} /\ program.entry \in held
             \/ mod = "draining"
  <2>1. Enter(u)
    BY Zenon, <1>2, <1>8 DEF Open, Enter, Leave, Close, Types
  <2>2. program.entry \in held
    BY Zenon, <1>8, <2>1 DEF Enter
  <2>3. mod # "gone"
    BY Zenon, <1>2, <1>8, <2>2 DEF Books
  <2>4. QED
    BY Zenon, <1>2, <2>2, <2>3 DEF Types
<1>9. Inside'
    BY Zenon, <1>1, <1>2, <1>5, <1>6, <1>7, <1>8 DEF Inside
<1>10. QED
    BY Zenon, <1>3, <1>4, <1>9 DEF Inv

LEMMA NextInv == Inv /\ [Next]_vars => Inv'
<1> SUFFICES ASSUME Inv, [Next]_vars PROVE Inv'
    BY Zenon
<1>1. CASE Acquire
  <2>1. /\ mod = "starting" /\ at <= Len(program.start) /\ at' = at + 1
        /\ held' = held \cup {program.start[at].get} /\ missed' = missed
        /\ UNCHANGED <<program, mod, bad, user>>
    BY Zenon, <1>1 DEF Acquire
  <2>2. held \subseteq held' /\ held' \cup missed' = held \cup missed \cup {program.start[at].get}
    BY Zenon, <2>1
  <2>3. QED
    BY Zenon, <2>1, <2>2, Forward
<1>2. CASE AcquireUnseen
  <2>1. /\ mod = "starting" /\ at <= Len(program.start) /\ at' = at + 1
        /\ missed' = missed \cup {program.start[at].get} /\ held' = held
        /\ UNCHANGED <<program, mod, bad, user>>
    BY Zenon, <1>2 DEF AcquireUnseen
  <2>2. held \subseteq held' /\ held' \cup missed' = held \cup missed \cup {program.start[at].get}
    BY Zenon, <2>1
  <2>3. QED
    BY Zenon, <2>1, <2>2, Forward
<1>3. CASE AcquireFails \/ Loaded \/ Rmmod \/ End
    BY Zenon, <1>3, FailsInv, LoadedInv, RmmodInv, EndStepInv, DrainedInv, UnloadedInv DEF End
<1>4. CASE \E u \in Users : Open(u) \/ Enter(u) \/ Leave(u) \/ Close(u)
    BY Zenon, <1>4, UserInv
<1>5. CASE UNCHANGED vars
  <2>1. /\ program' = program /\ mod' = mod /\ at' = at /\ held' = held /\ missed' = missed
        /\ bad' = bad /\ user' = user
    BY Zenon, <1>5 DEF vars
  <2>2. QED
    BY Zenon, <2>1 DEF Inv, Types, Books, Inside, Guarded
<1>6. QED
    BY Zenon, <1>1, <1>2, <1>3, <1>4, <1>5 DEF Next, Insmod

LEMMA Invariant == Spec => []Inv
<1>1. QED
    BY InitInv, NextInv, PTL DEF Spec

-----------------------------------------------------------------------------

\* No start, whichever acquisition fails, and no end of any of the modules
\* releases what is not held, but for scull0, ramblock and fin, where no
\* more strays than ReleasedOnlyIfHeld says.
THEOREM NoStrayRelease == Spec => []ReleasedOnlyIfHeld
<1>1. Inv => ReleasedOnlyIfHeld
  <2> SUFFICES ASSUME Inv PROVE ReleasedOnlyIfHeld
    BY Zenon
  <2>1. bad \subseteq Stray(program)
    BY Zenon DEF Inv, Books
  <2>2. QED
    BY SMTT(30), <2>1 DEF Stray, ReleasedOnlyIfHeld
<1>2. QED
    BY <1>1, Invariant, PTL

\* A module that is gone has left nothing registered and nothing allocated
\* that LeftBehind does not name, whatever failed on the way and however
\* its users and its unloading interleaved.
THEOREM NothingElseLeft == Spec => []LeftBehind
<1>1. Inv => LeftBehind
  <2> SUFFICES ASSUME Inv, mod = "gone" PROVE LeftBehind
    BY Zenon DEF LeftBehind
  <2>1. held \subseteq Leak(program)
    BY Zenon DEF Inv, Books
  <2>2. QED
    BY SMTT(30), <2>1 DEF Leak, LeftBehind
<1>2. QED
    BY <1>1, Invariant, PTL

\* For any number of programs: while a handler of a module with fops.owner,
\* or with a proc entry that end removes first, runs, the module is loaded
\* and holds everything the handler uses.
THEOREM HandlersServed == Spec => []HandlerHasMemory
<1>1. Inv => HandlerHasMemory
  <2> SUFFICES ASSUME Inv, Guarded(program), NEW u \in Users, user[u] = "in"
               PROVE  mod # "gone" /\ program.needs \ missed \subseteq held
    BY Zenon DEF HandlerHasMemory
  <2>1. Types /\ Books /\ Inside
    BY Zenon DEF Inv
  <2>2. Sound(program)
    BY Zenon, <2>1, AllSound DEF Types
  <2>3. program.needs \subseteq All(program) /\ Len(program.start) \in Nat /\ Len(program.end) \in Nat
    BY Zenon, <2>2 DEF Sound, Serves, EntryLast
  <2>4. ASSUME mod = "starting", program.entry \in held
        PROVE  held \cup missed = All(program)
    <3>1. at = Len(program.start) + 1
        BY SMTT(30), <2>1, <2>3, <2>4, NobodyYet DEF Types
    <3>2. QED
        BY Zenon, <2>1, <2>4, <3>1 DEF Books, All
  <2>5. ASSUME mod = "live", program.entry \in held
        PROVE  held \cup missed = All(program)
    BY Zenon, <2>1, <2>5 DEF Books
  <2>6. CASE program.guard = "owner"
    <3>1. mod \in {"starting", "live"} /\ program.entry \in held
        BY Zenon, <2>1, <2>6 DEF Inside
    <3>2. held \cup missed = All(program) /\ mod # "gone"
        BY Zenon, <2>4, <2>5, <3>1
    <3>3. QED
        BY Zenon, <2>3, <3>2
  <2>7. CASE program.guard # "owner"
    <3>1. /\ \/ mod \in {"starting", "live", "ending"} /\ program.entry \in held
             \/ mod = "draining"
          /\ mod # "gone"
        BY Zenon, <2>1, <2>7 DEF Inside, Guarded
    <3>2. /\ Len(program.end) = 1 /\ program.end[1] = program.entry /\ ~Hides(program)
          /\ program.needs \subseteq All(program) \ {program.entry}
        BY Zenon, <2>2, <2>7 DEF Sound, Serves
    <3>3. Puts(program, 1) = {} /\ Puts(program, 2) = {program.entry}
      <4>1. 1 \in Nat \ {0} /\ 1 + 1 = 2
        BY SMTT(30)
      <4>2. Puts(program, 1) = {} /\ Puts(program, 2) = Puts(program, 1) \cup {program.end[1]}
        BY ZenonT(30), <4>1, GetsNext, NoneYet
      <4>3. QED
        BY Zenon, <3>2, <4>2
    <3>4. ASSUME mod \in {"ending", "draining"}
          PROVE  All(program) \ {program.entry} \subseteq held \cup missed
      <4>1. at \in 1..2
        BY SMTT(30), <2>1, <3>2, <3>4 DEF Types
      <4>2. Puts(program, at) \subseteq {program.entry}
        BY SMTT(30), <3>3, <4>1
      <4>3. held \cup missed = All(program) \ Puts(program, at)
        BY Zenon, <2>1, <3>2, <3>4 DEF Books
      <4>4. QED
        BY Zenon, <4>2, <4>3
    <3>5. All(program) \ {program.entry} \subseteq held \cup missed
        BY Zenon, <2>4, <2>5, <3>1, <3>4
    <3>6. QED
        BY Zenon, <3>1, <3>2, <3>5
  <2>8. QED
    BY Zenon, <2>6, <2>7
<1>2. QED
    BY <1>1, Invariant, PTL
=============================================================================
