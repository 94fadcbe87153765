----------------------------- MODULE UserCache -----------------------------
(***************************************************************************)
(* The contexts of authenticated users: tasks that select a user at the    *)
(* same time (run_get_user of src/knd_user.c) share a lock-free cache      *)
(* of a fixed number of cells (src/knd_cache.c).                           *)
(*                                                                         *)
(* A context is the user it was built for, with its builder and a number,  *)
(* because two contexts of one user are two repos on one path.  The number *)
(* of readers of a cell is only compared with 0 and never goes down (no    *)
(* caller of knd_cache_release exists), so 1 stands for one or more.       *)
(*                                                                         *)
(* Operators whose name ends in _v are wrong variants of the definition    *)
(* that follows them; nothing uses them but the mutation tests.            *)
(***************************************************************************)
EXTENDS Integers

CONSTANTS
    Tasks,
    Users,     \* user instances that exist
    NumCells,  \* self->num_cells
    MaxBuilds, \* bound: the contexts one task builds
    Asserts    \* is assert() compiled in?

ASSUME CacheAssumption == /\ NumCells \in Nat \ {0}
                          /\ MaxBuilds \in Nat
                          /\ Asserts \in BOOLEAN

Cells == 0..(NumCells - 1)
Contexts == Users \X Tasks \X (1..MaxBuilds)
None == <<"none", "none", 0>>   \* a NULL context
Writing == -1                   \* num_readers of a cell that is being set

VARIABLES
    readers,   \* num_readers of each cell
    data,      \* data of each cell
    noted,     \* entry->cache_cell_num of each user: the cell plus 1, or 0
    stopped,   \* why the process died: "no", "assert" or "null"
    pc,
    user,      \* the user the task selects
    cell_num,  \* the local cell_num
    ctx,       \* the local ctx
    i,         \* knd_cache_set: the cell it looks at
    seen,      \* knd_cache_set: the local num_readers
    prev_data, \* knd_cache_set: the local prev_data
    built      \* the contexts each task has built

cells  == <<readers, data>>
locals == <<cell_num, ctx, i, seen, prev_data>>
vars   == <<cells, noted, stopped, pc, user, locals, built>>

PCs == {"idle", "note", "build", "start", "scan", "grab", "load", "swap",
        "open", "evict", "store", "get", "read", "check", "using"}

Init == /\ readers = [c \in Cells |-> 0]
        /\ data = [c \in Cells |-> None]
        /\ noted = [u \in Users |-> 0]
        /\ stopped = "no"
        /\ pc = [t \in Tasks |-> "idle"]
        /\ user \in [Tasks -> Users]
        /\ cell_num = [t \in Tasks |-> 0]
        /\ ctx = [t \in Tasks |-> None]
        /\ i = [t \in Tasks |-> 0]
        /\ seen = [t \in Tasks |-> 0]
        /\ prev_data = [t \in Tasks |-> None]
        /\ built = [t \in Tasks |-> 0]

Owner(x) == x[1]

At(t, label) == stopped = "no" /\ pc[t] = label
Goto(t, label) == pc' = [pc EXCEPT ![t] = label]

\* The request is over; its locals are gone.
Finish(t) == /\ Goto(t, "idle")
             /\ cell_num' = [cell_num EXCEPT ![t] = 0]
             /\ ctx' = [ctx EXCEPT ![t] = None]
             /\ i' = [i EXCEPT ![t] = 0]
             /\ seen' = [seen EXCEPT ![t] = 0]
             /\ prev_data' = [prev_data EXCEPT ![t] = None]

---------------------------------------------------------------------------
(* run_get_user *)

Select(t, u) ==
    /\ At(t, "idle")
    /\ user' = [user EXCEPT ![t] = u]
    /\ Goto(t, "note")
    /\ UNCHANGED <<cells, noted, stopped, locals, built>>

\* The cell the user's entry notes; 0 if there is none yet.
LoadNote(t) ==
    /\ At(t, "note")
    /\ cell_num' = [cell_num EXCEPT ![t] = noted[user[t]]]
    /\ Goto(t, IF noted[user[t]] = 0 THEN "build" ELSE "get")
    /\ UNCHANGED <<cells, noted, stopped, user, ctx, i, seen, prev_data, built>>

\* build_user_ctx: a new context, with a repo of its own on the user's path.
Build(t) ==
    /\ At(t, "build")
    /\ built[t] < MaxBuilds
    /\ built' = [built EXCEPT ![t] = @ + 1]
    /\ ctx' = [ctx EXCEPT ![t] = <<user[t], t, built[t] + 1>>]
    /\ Goto(t, "start")
    /\ UNCHANGED <<cells, noted, stopped, user, cell_num, i, seen, prev_data>>

\* The user's repo cannot be opened: the request fails.
BuildFail(t) ==
    /\ At(t, "build")
    /\ Finish(t)
    /\ UNCHANGED <<cells, noted, stopped, user, built>>

---------------------------------------------------------------------------
(* knd_cache_set *)

\* rand() % num_cells - 1
FirstCells == -1..(NumCells - 2)

SetStart(t) ==
    /\ At(t, "start")
    /\ \E c \in FirstCells : c >= 0 /\ i' = [i EXCEPT ![t] = c]
    /\ Goto(t, "scan")
    /\ UNCHANGED <<cells, noted, stopped, user, cell_num, ctx, seen, prev_data, built>>

\* -1 is the greatest size_t: the assertion fails or, without assertions, the
\* loop looks at no cell and the request fails.
SetOutOfRange(t) ==
    /\ At(t, "start")
    /\ -1 \in FirstCells
    /\ stopped' = IF Asserts THEN "assert" ELSE "no"
    /\ Finish(t)
    /\ UNCHANGED <<cells, noted, user, built>>

\* A cell that has readers is passed over; one that is being set is not.
Engaged(c) == readers[c] > 0

ScanFree(t) ==
    /\ At(t, "scan")
    /\ i[t] \in Cells /\ ~Engaged(i[t])
    /\ seen' = [seen EXCEPT ![t] = readers[i[t]]]
    /\ Goto(t, "grab")
    /\ UNCHANGED <<cells, noted, stopped, user, cell_num, ctx, i, prev_data, built>>

ScanPass(t) ==
    /\ At(t, "scan")
    /\ i[t] \in Cells /\ Engaged(i[t])
    /\ i' = [i EXCEPT ![t] = @ + 1]
    /\ UNCHANGED <<cells, noted, stopped, pc, user, cell_num, ctx, seen, prev_data, built>>

\* After the last cell the loop ends, and set answers knd_OK: the test of i in
\* its body, meant to go back to the first cells, is never reached.  cell_num
\* is still 0.
ScanEnd(t) ==
    /\ At(t, "scan")
    /\ i[t] \notin Cells
    /\ Goto(t, "store")
    /\ UNCHANGED <<cells, noted, stopped, user, locals, built>>

Grab(t) ==
    /\ At(t, "grab")
    /\ readers[i[t]] = seen[t]
    /\ readers' = [readers EXCEPT ![i[t]] = Writing]
    /\ Goto(t, "load")
    /\ UNCHANGED <<data, noted, stopped, user, locals, built>>

\* "not my lucky day": on to the next cell.
GrabFail(t) ==
    /\ At(t, "grab")
    /\ readers[i[t]] # seen[t]
    /\ i' = [i EXCEPT ![t] = @ + 1]
    /\ Goto(t, "scan")
    /\ UNCHANGED <<cells, noted, stopped, user, cell_num, ctx, seen, prev_data, built>>

LoadData(t) ==
    /\ At(t, "load")
    /\ prev_data' = [prev_data EXCEPT ![t] = data[i[t]]]
    /\ Goto(t, "swap")
    /\ UNCHANGED <<cells, noted, stopped, user, cell_num, ctx, i, seen, built>>

Swap_v(t) ==
    /\ At(t, "swap")
    /\ data[i[t]] = prev_data[t]
    /\ data' = [data EXCEPT ![i[t]] = ctx[t]]
    /\ i' = [i EXCEPT ![t] = @ + 1]
    /\ Goto(t, "scan")
    /\ UNCHANGED <<readers, noted, stopped, user, cell_num, ctx, seen, prev_data, built>>

Swap(t) ==
    /\ At(t, "swap")
    /\ data[i[t]] = prev_data[t]
    /\ data' = [data EXCEPT ![i[t]] = ctx[t]]
    /\ Goto(t, "open")
    /\ UNCHANGED <<readers, noted, stopped, user, locals, built>>

\* Another writer was faster: num_readers stays as it is.
SwapFail(t) ==
    /\ At(t, "swap")
    /\ data[i[t]] # prev_data[t]
    /\ i' = [i EXCEPT ![t] = @ + 1]
    /\ Goto(t, "scan")
    /\ UNCHANGED <<cells, noted, stopped, user, cell_num, ctx, seen, prev_data, built>>

AfterOpen_v(c) == Writing
AfterOpen(c) == 0

\* "allow reader access"
Open(t) ==
    /\ At(t, "open")
    /\ readers' = [readers EXCEPT ![i[t]] = AfterOpen(i[t])]
    /\ cell_num' = [cell_num EXCEPT ![t] = i[t]]
    /\ Goto(t, "evict")
    /\ UNCHANGED <<data, noted, stopped, user, ctx, i, seen, prev_data, built>>

\* free_user_ctx: the user of the context that was in the cell has no cell now,
\* whichever it was.
Evict(t) ==
    /\ At(t, "evict")
    /\ noted' = IF prev_data[t] = None THEN noted
                ELSE [noted EXCEPT ![Owner(prev_data[t])] = 0]
    /\ Goto(t, "store")
    /\ UNCHANGED <<cells, stopped, user, locals, built>>

---------------------------------------------------------------------------
(* run_get_user: after the set, or with the cell it found *)

StoreNote(t) ==
    /\ At(t, "store")
    /\ cell_num' = [cell_num EXCEPT ![t] = @ + 1]
    /\ noted' = [noted EXCEPT ![user[t]] = cell_num[t] + 1]
    /\ Goto(t, "get")
    /\ UNCHANGED <<cells, stopped, user, ctx, i, seen, prev_data, built>>

\* knd_cache_get: the cell has one more reader.
Get(t) ==
    /\ At(t, "get")
    /\ readers[cell_num[t] - 1] # Writing
    /\ readers' = [readers EXCEPT ![cell_num[t] - 1] = 1]
    /\ Goto(t, "read")
    /\ UNCHANGED <<data, noted, stopped, user, locals, built>>

\* The cell is being set: the request fails.
GetConflict(t) ==
    /\ At(t, "get")
    /\ readers[cell_num[t] - 1] = Writing
    /\ Finish(t)
    /\ UNCHANGED <<cells, noted, stopped, user, built>>

ReadData(t) ==
    /\ At(t, "read")
    /\ ctx' = [ctx EXCEPT ![t] = data[cell_num[t] - 1]]
    /\ Goto(t, "check")
    /\ UNCHANGED <<cells, noted, stopped, user, cell_num, i, seen, prev_data, built>>

\* ctx->inst is compared with the user's instance.
Fits(t) == ctx[t] # None /\ Owner(ctx[t]) = user[t]

Use(t) ==
    /\ At(t, "check")
    /\ Fits(t)
    /\ Goto(t, "using")
    /\ UNCHANGED <<cells, noted, stopped, user, locals, built>>

\* "stale cache cell?": the reader that was counted is not taken back.
Retry(t) ==
    /\ At(t, "check")
    /\ ctx[t] # None /\ ~Fits(t)
    /\ Goto(t, "note")
    /\ UNCHANGED <<cells, noted, stopped, user, locals, built>>

\* Nothing was ever put in the cell: ctx is NULL.
Dereference(t) ==
    /\ At(t, "check")
    /\ ctx[t] = None
    /\ stopped' = "null"
    /\ UNCHANGED <<cells, noted, pc, user, locals, built>>

\* The request has been served.  The reader is never released.
Done(t) ==
    /\ At(t, "using")
    /\ Finish(t)
    /\ UNCHANGED <<cells, noted, stopped, user, built>>

---------------------------------------------------------------------------

Find(t) == LoadNote(t) \/ Build(t) \/ BuildFail(t)
Set(t)  == \/ SetStart(t) \/ SetOutOfRange(t) \/ ScanFree(t) \/ ScanPass(t) \/ ScanEnd(t)
           \/ Grab(t) \/ GrabFail(t) \/ LoadData(t) \/ Swap(t) \/ SwapFail(t)
           \/ Open(t) \/ Evict(t)
Take(t) == \/ StoreNote(t) \/ Get(t) \/ GetConflict(t) \/ ReadData(t)
           \/ Use(t) \/ Retry(t) \/ Dereference(t) \/ Done(t)

Next == \E t \in Tasks : \/ \E u \in Users : Select(t, u)
                         \/ Find(t) \/ Set(t) \/ Take(t)

Spec == Init /\ [][Next]_vars

---------------------------------------------------------------------------
(* Properties *)

\* The variables hold values of their types.
TypeOK ==
    /\ readers \in [Cells -> {Writing, 0, 1}]
    /\ data \in [Cells -> Contexts \cup {None}]
    /\ noted \in [Users -> 0..NumCells]
    /\ stopped \in {"no", "assert", "null"}
    /\ pc \in [Tasks -> PCs]
    /\ user \in [Tasks -> Users]
    /\ cell_num \in [Tasks -> 0..NumCells]
    /\ ctx \in [Tasks -> Contexts \cup {None}]
    /\ i \in [Tasks -> 0..NumCells]
    /\ seen \in [Tasks -> {Writing, 0, 1}]
    /\ prev_data \in [Tasks -> Contexts \cup {None}]
    /\ built \in [Tasks -> 0..MaxBuilds]

\* knd_cache.c:46-66.  Writers fight for a cell without a lock, and the loser
\* goes on without resetting num_readers: still a cell is closed to readers
\* only while some writer is at work on it.
ClosedOnlyWhileSet ==
    \A c \in Cells : readers[c] = Writing =>
        \E t \in Tasks : pc[t] \in {"load", "swap", "open"} /\ i[t] = c

\* knd_user.c:241-266.  A context is cached in one cell at most, so that an
\* eviction takes it out of the cache.
InOneCell == \A c, d \in Cells : data[c] = data[d] /\ data[c] # None => c = d
=============================================================================
