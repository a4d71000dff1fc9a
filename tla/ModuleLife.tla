------------------------------ MODULE ModuleLife ------------------------------
(***************************************************************************)
(* Loading and unloading: the start and end functions of the modules,      *)
(* each given as data, and the programs that use a module meanwhile.       *)
(*                                                                         *)
(* An acquisition may fail.  Most are tested, and start then gives back    *)
(* what its error labels name and returns.  vmalloc is tested with IS_ERR  *)
(* in places, which NULL passes: start goes on without the memory.  An     *)
(* acquisition whose failure is not tested at all and would be fatal on    *)
(* the spot (blk_alloc_queue, alloc_disk in ram2.c) is taken to succeed.   *)
(***************************************************************************)
EXTENDS Integers, Sequences, Functions

CONSTANT
    Users       \* programs that use what the module registers

VARIABLES
    program,    \* the module in question
    mod,        \* starting, live, ending, draining or gone
    at,         \* the step of start or end that is next
    held,       \* what the module has acquired and not released
    missed,     \* what start believes it has and does not
    bad,        \* what was released without being held
    user        \* out, with an open file, or inside a handler

vars == <<program, mod, at, held, missed, bad, user>>

-----------------------------------------------------------------------------
\* Steps of start: what is acquired, and what a failure gives back, in order.

Get(what, undo)  == [get |-> what, fails |-> "seen", undo |-> undo, code |-> "error"]
Sure(what)       == [get |-> what, fails |-> "never", undo |-> <<>>, code |-> "error"]
Unseen(what)     == [get |-> what, fails |-> "unseen", undo |-> <<>>, code |-> "error"]
\* The failure gives back what undo says, and start returns 0 all the same.
Hidden(what, undo) == [get |-> what, fails |-> "seen", undo |-> undo, code |-> "success"]

\* A module: what it registers last and its handlers are reached through,
\* what keeps it loaded meanwhile, what its handlers use, start and end.
\* fops.owner counts open files; a proc entry counts handlers in progress.

\* Mutant of nonblock: end does not unregister the device number.
nonblockKeepsRegion ==
    [entry |-> "cdev", guard |-> "owner", needs |-> {"buf"},
     start |-> <<Get("region", <<>>), Unseen("buf"), Get("cdev", <<"buf", "region">>)>>,
     end   |-> <<"cdev", "buf">>]

nonblock ==
    [entry |-> "cdev", guard |-> "owner", needs |-> {"buf"},
     start |-> <<Get("region", <<>>), Unseen("buf"), Get("cdev", <<"buf", "region">>)>>,
     end   |-> <<"cdev", "buf", "region">>]

access == nonblock
onlyone == nonblock
rw_block == nonblock

\* The list that end trims after the device is gone is the one of ScullMem.
scull0 ==
    [entry |-> "cdev", guard |-> "owner", needs |-> {},
     start |-> <<Get("region", <<>>), Hidden("cdev", <<"region">>)>>,
     end   |-> <<"cdev", "region">>]

\* Mutant of chrdev: the label err2 comes after err1.
chrdevLabels ==
    [entry |-> "cdev", guard |-> "none", needs |-> {},
     start |-> <<Get("mdev", <<>>), Get("region", <<"mdev", "region">>),
                 Get("cdev", <<"region">>)>>,
     end   |-> <<"cdev", "region", "mdev">>]

chrdev ==
    [entry |-> "cdev", guard |-> "none", needs |-> {},
     start |-> <<Get("mdev", <<>>), Get("region", <<"mdev">>),
                 Get("cdev", <<"region", "mdev">>)>>,
     end   |-> <<"cdev", "region", "mdev">>]

chrdev_bak == chrdev

fin ==
    [entry |-> "cdev", guard |-> "none", needs |-> {"ptr", "buf"},
     start |-> <<Get("ptr", <<>>), Get("region", <<"ptr">>), Get("buf", <<"region", "ptr">>),
                 Get("cdev", <<"buf", "cdev", "region", "ptr">>)>>,
     end   |-> <<"buf", "cdev", "region", "ptr">>]

finopage == fin

bdev ==
    [entry |-> "added", guard |-> "owner", needs |-> {"ptr", "data", "queue", "disk"},
     start |-> <<Get("ptr", <<>>), Get("data", <<"ptr">>), Sure("queue"), Get("major", <<>>),
                 Get("disk", <<"major", "data", "ptr">>), Sure("added")>>,
     end   |-> <<"queue", "added", "major", "data", "ptr">>]

bdev_regular == bdev

ramblock ==
    [entry |-> "added", guard |-> "owner", needs |-> {"mem", "queue", "disk"},
     start |-> <<Get("major", <<>>), Unseen("mem"), Hidden("disk", <<"mem", "major">>),
                 Hidden("queue", <<"added", "mem", "major">>), Sure("added")>>,
     end   |-> <<"queue", "added", "mem", "major">>]

ram2 ==
    [entry |-> "added", guard |-> "owner", needs |-> {"data", "queue", "disk"},
     start |-> <<Get("major", <<>>), Get("data", <<"major">>), Sure("disk"), Sure("queue"),
                 Sure("added")>>,
     end   |-> <<"added", "data", "queue", "major">>]

\* end calls kfree on the file-scope buf, which start's own buf hides.
kmalloc ==
    [entry |-> "proc", guard |-> "proc", needs |-> {"buf"},
     start |-> <<Get("buf", <<>>), Get("proc", <<>>)>>, end |-> <<"proc">>]

kmem ==
    [entry |-> "proc", guard |-> "proc", needs |-> {"kmem"},
     start |-> <<Get("kmem", <<>>), Get("proc", <<>>)>>, end |-> <<"kmem", "proc">>]

mempool ==
    [entry |-> "proc", guard |-> "proc", needs |-> {"kmem", "mp"},
     start |-> <<Get("kmem", <<>>), Get("mp", <<>>), Get("proc", <<>>)>>,
     end   |-> <<"mp", "kmem", "proc">>]

page == mempool

percpu ==
    [entry |-> "proc", guard |-> "proc", needs |-> {},
     start |-> <<Get("proc", <<>>)>>, end |-> <<"proc">>]

timer == percpu
tasklet == percpu
workqueue == percpu
workqueue_orig == percpu
timer_old == percpu
proc == percpu

\* end removes "fs/sdev", which is not the entry that start has created.
seq ==
    [entry |-> "proc", guard |-> "proc", needs |-> {}, start |-> <<Unseen("proc")>>, end |-> <<>>]

\* All of them; files with the same start and end are one element.
Programs ==
    {nonblock, access, onlyone, rw_block, scull0, chrdev, chrdev_bak, fin, finopage,
     bdev, bdev_regular, ramblock, ram2, kmalloc, kmem, mempool, page, percpu,
     timer, tasklet, workqueue, workqueue_orig, timer_old, proc, seq}

-----------------------------------------------------------------------------

Init ==
    /\ program \in Programs
    /\ mod = "starting" /\ at = 1
    /\ held = {} /\ missed = {} /\ bad = {}
    /\ user = [u \in Users |-> "out"]

\* Releasing what start believes to have is harmless: vfree(NULL) is.
Release(what) ==
    /\ held' = held \ what
    /\ missed' = missed \ what
    /\ bad' = bad \cup (what \ (held \cup missed))

Acquire ==
    LET step == program.start[at] IN
    /\ mod = "starting" /\ at <= Len(program.start)
    /\ held' = held \cup {step.get}
    /\ at' = at + 1
    /\ UNCHANGED <<program, mod, missed, bad, user>>

AcquireUnseen ==
    LET step == program.start[at] IN
    /\ mod = "starting" /\ at <= Len(program.start) /\ step.fails = "unseen"
    /\ missed' = missed \cup {step.get}
    /\ at' = at + 1
    /\ UNCHANGED <<program, mod, held, bad, user>>

AcquireFails ==
    LET step == program.start[at] IN
    /\ mod = "starting" /\ at <= Len(program.start) /\ step.fails = "seen"
    /\ Release(Range(step.undo))
    /\ mod' = IF step.code = "error" THEN "gone" ELSE "live"
    /\ UNCHANGED <<program, at, user>>

Loaded ==
    /\ mod = "starting" /\ at > Len(program.start)
    /\ mod' = "live"
    /\ UNCHANGED <<program, at, held, missed, bad, user>>

\* Mutant of Rmmod: fops.owner is left out, and nothing counts the files.
RmmodUncounted ==
    /\ mod = "live" /\ mod' = "ending" /\ at' = 1
    /\ UNCHANGED <<program, held, missed, bad, user>>

Rmmod ==
    /\ mod = "live"
    /\ program.guard = "owner" => \A u \in Users : user[u] = "out"
    /\ mod' = "ending" /\ at' = 1
    /\ UNCHANGED <<program, held, missed, bad, user>>

\* Mutant of EndStep: the proc entry is withdrawn when nobody is inside.
EndStepLate ==
    /\ mod = "ending" /\ at <= Len(program.end)
    /\ program.end[at] = "proc" => \A u \in Users : user[u] # "in"
    /\ Release({program.end[at]}) /\ at' = at + 1
    /\ UNCHANGED <<program, mod, user>>

\* remove_proc_entry withdraws the entry and waits for the readers inside.
EndStep ==
    /\ mod = "ending" /\ at <= Len(program.end)
    /\ Release({program.end[at]})
    /\ mod' = IF program.end[at] = "proc" THEN "draining" ELSE "ending"
    /\ at' = at + 1
    /\ UNCHANGED <<program, user>>

Drained ==
    /\ mod = "draining" /\ \A u \in Users : user[u] # "in"
    /\ mod' = "ending"
    /\ UNCHANGED <<program, at, held, missed, bad, user>>

Unloaded ==
    /\ mod = "ending" /\ at > Len(program.end)
    /\ mod' = "gone"
    /\ UNCHANGED <<program, at, held, missed, bad, user>>

-----------------------------------------------------------------------------

\* try_module_get fails once a module with an owner field is on its way out.
Open(u) ==
    /\ user[u] = "out" /\ program.entry \in held
    /\ program.guard = "owner" => mod \in {"starting", "live"}
    /\ user' = [user EXCEPT ![u] = "open"]
    /\ UNCHANGED <<program, mod, at, held, missed, bad>>

\* An open file reaches the handlers; an open proc file only as long as the
\* entry has not been withdrawn.
Enter(u) ==
    /\ user[u] = "open"
    /\ program.guard = "proc" => program.entry \in held
    /\ user' = [user EXCEPT ![u] = "in"]
    /\ UNCHANGED <<program, mod, at, held, missed, bad>>

Leave(u) ==
    /\ user[u] = "in"
    /\ user' = [user EXCEPT ![u] = "open"]
    /\ UNCHANGED <<program, mod, at, held, missed, bad>>

Close(u) ==
    /\ user[u] = "open"
    /\ user' = [user EXCEPT ![u] = "out"]
    /\ UNCHANGED <<program, mod, at, held, missed, bad>>

Insmod == Acquire \/ AcquireUnseen \/ AcquireFails \/ Loaded
End == EndStep \/ Drained \/ Unloaded
Next == Insmod \/ Rmmod \/ End \/ \E u \in Users : Open(u) \/ Enter(u) \/ Leave(u) \/ Close(u)

Spec == Init /\ [][Next]_vars

\* insmod and rmmod run on once begun, and handlers return.
FairSpec == Spec /\ WF_vars(Insmod \/ End) /\ \A u \in Users : WF_vars(Leave(u))

-----------------------------------------------------------------------------

\* What keeps handlers and end apart: fops.owner, or a proc entry that end
\* removes before it releases anything.
Guarded(m) == m.guard = "owner" \/ (m.guard = "proc" /\ m.end # <<>> /\ m.end[1] = m.entry)

\* While a handler of such a module runs, the module is there and so is
\* everything the handler uses that start has really acquired.  The others
\* are chrdev.c, fin.c and finopage.c, which have no owner, kmem.c, mempool.c
\* and page.c, which destroy the cache first, and seq.c.
HandlerHasMemory ==
    Guarded(program) =>
        \A u \in Users :
            user[u] = "in" => mod # "gone" /\ program.needs \ missed \subseteq held

\* Nothing is released that is not held, on no error path and in no end,
\* except for these: scull0 and ramblock report success after they have
\* given everything back, so end gives it back again, and the error path of
\* fin.c deletes the cdev that cdev_add has refused.
ReleasedOnlyIfHeld ==
    CASE program = scull0   -> bad \subseteq {"cdev", "region"}
      [] program = ramblock -> bad \subseteq {"queue", "added", "mem", "major"}
      [] program = fin      -> bad \subseteq {"cdev"}
      [] OTHER              -> bad = {}

\* A module that is gone, because start failed or because end has run, has
\* left nothing registered and nothing allocated, except for these: the
\* disks are never put, the error paths of bdev and alloc/ return without
\* giving memory back, and the proc entry of seq.c stays.
LeftBehind ==
    mod = "gone" =>
        CASE program = bdev                -> held \subseteq {"ptr", "data", "queue", "disk"}
          [] program \in {ramblock, ram2}  -> held \subseteq {"disk"}
          [] program = kmalloc             -> held \subseteq {"buf"}
          [] program \in {kmem, mempool}   -> held \subseteq {"kmem", "mp"}
          [] program = seq                 -> held \subseteq {"proc"}
          [] OTHER                         -> held = {}

\* Unloading ends: remove_proc_entry waits for the readers in progress, but
\* readers that come later cannot keep it waiting.
UnloadFinishes == mod = "ending" ~> mod = "gone"
=============================================================================
