----------------------------- MODULE ServeProofs -----------------------------
(***************************************************************************)
(* Proofs about what MCServe puts together: the cache of user contexts,    *)
(* for any tasks, users, cells and contexts; the strings and the           *)
(* instances, by what is proved of them; and the requests, for any         *)
(* hierarchy and any options.                                              *)
(*                                                                         *)
(* A cell that is closed to readers has a live writer: one that is about   *)
(* to load its data, or loaded what is still there, or swapped and has not *)
(* opened it.  A writer stops being live only when another one swaps, and  *)
(* that one is live then, so a loser may leave without opening the cell.   *)
(***************************************************************************)
EXTENDS MCServe, SequenceTheorems, WellFoundedInduction, TLAPS

---------------------------------------------------------------------------
(* The cache of user contexts (UserCache) *)

\* The steps of a set that has not swapped its context in yet.
Setting == {"start", "scan", "grab", "load", "swap"}

\* The cell a task is at is one of the cache.
AtCell ==
    \A t \in Tasks :
        /\ pc[t] \in {"grab", "load", "swap", "open"} => i[t] \in Cells
        /\ pc[t] \in {"build", "evict", "store"} \cup Setting => cell_num[t] < NumCells
        /\ pc[t] \in {"get", "read"} => cell_num[t] > 0

LiveWriter(t, c) ==
    /\ i[t] = c
    /\ \/ pc[t] \in {"load", "open"}
       \/ pc[t] = "swap" /\ prev_data[t] = data[c]

HasLiveWriter == \A c \in Cells : readers[c] = Writing => \E t \in Tasks : LiveWriter(t, c)

\* The context a set is about to store is the last one its task built, and is
\* in no cell yet.
CtxNew ==
    /\ \A t \in Tasks : pc[t] \in Setting =>
          /\ ctx[t] # None /\ ctx[t][2] = t /\ ctx[t][3] = built[t]
          /\ \A c \in Cells : data[c] # ctx[t]
    /\ \A c \in Cells : data[c] # None => data[c][3] <= built[data[c][2]]

Inv == TypeOK /\ AtCell /\ HasLiveWriter /\ CtxNew /\ InOneCell

---------------------------------------------------------------------------

LEMMA ContextIs ==
    /\ \A x \in Contexts : x # None /\ x[1] \in Users /\ x[2] \in Tasks /\ x[3] \in 1..MaxBuilds
    /\ \A u \in Users, t \in Tasks, k \in 1..MaxBuilds : <<u, t, k>> \in Contexts
<1>1. 0 \notin 1..MaxBuilds
    BY CacheAssumption
<1> QED BY <1>1 DEF Contexts, None

LEMMA CellsAre ==
    /\ NumCells \in Nat \ {0} /\ 0 \in 0..NumCells /\ 0 \in 0..MaxBuilds
    /\ \A c \in Cells : c \in 0..NumCells /\ c + 1 \in 0..NumCells /\ c + 1 > 0 /\ c < NumCells
    /\ \A c \in FirstCells : c >= 0 => c \in Cells
    /\ \A n \in 0..NumCells : /\ n > 0 => n - 1 \in Cells
                              /\ n < NumCells => n \in Cells
    BY CacheAssumption DEF Cells, FirstCells

LEMMA CellBefore == ASSUME NEW n \in 0..NumCells, n > 0 PROVE n - 1 \in Cells
    BY CacheAssumption DEF Cells

LEMMA InitInv == Init => Inv
<1> SUFFICES ASSUME Init PROVE Inv
    OBVIOUS
<1>1. TypeOK
    BY CellsAre DEF Init, TypeOK, PCs, Writing
<1>2. AtCell /\ HasLiveWriter /\ CtxNew /\ InOneCell
    BY DEF Init, AtCell, HasLiveWriter, CtxNew, InOneCell, Setting, Writing
<1> QED BY <1>1, <1>2 DEF Inv

LEMMA TypeStep ==
    ASSUME Inv, NEW t \in Tasks, (\E u \in Users : Select(t, u)) \/ Find(t) \/ Set(t) \/ Take(t)
    PROVE  TypeOK' /\ AtCell'
<1> USE CellsAre, ContextIs DEF Inv, TypeOK, AtCell, Setting, PCs, At, Goto, Finish, cells, locals, Writing
<1>1. ASSUME NEW u \in Users, Select(t, u) PROVE TypeOK' /\ AtCell'
    BY <1>1 DEF Select
<1>2. CASE LoadNote(t)
    BY <1>2 DEF LoadNote
<1>3. CASE Build(t)
    BY <1>3, CacheAssumption DEF Build
<1>4. CASE BuildFail(t) \/ SetOutOfRange(t) \/ GetConflict(t) \/ Done(t)
  <2>1. Finish(t) /\ UNCHANGED <<readers, data, noted, user, built>> /\ stopped' \in {"no", "assert", "null"}
    BY <1>4 DEF BuildFail, SetOutOfRange, GetConflict, Done
  <2>2. cell_num'[t] = 0 /\ pc'[t] = "idle" /\ TypeOK'
    BY <2>1
  <2>3. \A u \in Tasks \ {t} : pc'[u] = pc[u] /\ i'[u] = i[u] /\ cell_num'[u] = cell_num[u]
    BY <2>1
  <2> QED BY <2>2, <2>3
<1>5. CASE SetStart(t)
    BY <1>5 DEF SetStart
<1>6. CASE ScanFree(t) \/ ScanEnd(t)
  <2>1. CASE ScanFree(t)
    BY <2>1 DEF ScanFree
  <2>2. CASE ScanEnd(t)
    BY <2>2 DEF ScanEnd
  <2> QED BY <1>6, <2>1, <2>2
<1>7. CASE ScanPass(t) \/ GrabFail(t) \/ SwapFail(t)
  <2>1. /\ i[t] \in Cells /\ i' = [i EXCEPT ![t] = i[t] + 1] /\ pc[t] \in Setting
        /\ pc' = [pc EXCEPT ![t] = "scan"]
        /\ UNCHANGED <<readers, data, noted, stopped, user, cell_num, ctx, seen, prev_data, built>>
    BY <1>7 DEF ScanPass, GrabFail, SwapFail
  <2>2. i[t] + 1 \in 0..NumCells
    BY <2>1
  <2> QED BY <2>1, <2>2
<1>8. CASE Grab(t) \/ LoadData(t) \/ Swap(t)
  <2>1. CASE Grab(t)
    BY <2>1 DEF Grab
  <2>2. CASE LoadData(t)
    BY <2>2 DEF LoadData
  <2>3. CASE Swap(t)
    BY <2>3 DEF Swap
  <2> QED BY <1>8, <2>1, <2>2, <2>3
<1>9. CASE Open(t)
    BY <1>9 DEF Open, AfterOpen
<1>10. CASE Evict(t)
    BY <1>10 DEF Evict, Owner
<1>11. CASE StoreNote(t)
    BY <1>11 DEF StoreNote
<1>12. CASE Get(t)
    BY <1>12 DEF Get
<1>13. CASE ReadData(t)
  <2>1. cell_num[t] > 0 /\ cell_num[t] \in 0..NumCells
    BY <1>13 DEF ReadData
  <2>2. cell_num[t] - 1 \in Cells
    BY <2>1, CellBefore, Zenon
  <2>3. data[cell_num[t] - 1] \in Contexts \cup {None}
    BY <2>2
  <2> QED BY <1>13, <2>3 DEF ReadData
<1>14. CASE Use(t) \/ Retry(t) \/ Dereference(t)
    BY <1>14 DEF Use, Retry, Dereference
<1> QED BY <1>1, <1>2, <1>3, <1>4, <1>5, <1>6, <1>7, <1>8, <1>9, <1>10, <1>11, <1>12, <1>13, <1>14
        DEF Find, Set, Take

\* A writer that loses leaves a cell that has another, live one.
LEMMA WriterStep ==
    ASSUME Inv, NEW t \in Tasks, (\E u \in Users : Select(t, u)) \/ Find(t) \/ Set(t) \/ Take(t)
    PROVE  HasLiveWriter'
<1> USE DEF At, Goto, Finish, cells, locals
<1>0. /\ pc \in [Tasks -> PCs] /\ i \in [Tasks -> 0..NumCells] /\ readers \in [Cells -> {Writing, 0, 1}]
      /\ data \in [Cells -> Contexts \cup {None}] /\ prev_data \in [Tasks -> Contexts \cup {None}]
      /\ pc[t] \in {"grab", "load", "swap", "open"} => i[t] \in Cells
    BY DEF Inv, TypeOK, AtCell
<1>1. ASSUME NEW c \in Cells, readers[c] = Writing
      PROVE  \E u \in Tasks : LiveWriter(u, c)
    BY <1>1 DEF Inv, HasLiveWriter
<1>w. Writing # 0 /\ Writing # 1
    BY DEF Writing
<1>2. CASE Grab(t)
  <2>1. readers' = [readers EXCEPT ![i[t]] = Writing] /\ pc' = [pc EXCEPT ![t] = "load"] /\ i[t] \in Cells
        /\ UNCHANGED <<data, i, prev_data>> /\ pc[t] = "grab"
    BY <1>0, <1>2 DEF Grab
  <2>2. \A u \in Tasks, c \in Cells : LiveWriter(u, c) => LiveWriter(u, c)'
    BY <1>0, <2>1 DEF LiveWriter
  <2>3. LiveWriter(t, i[t])'
    BY <1>0, <2>1 DEF LiveWriter
  <2>4. \A c \in Cells : c # i[t] => readers'[c] = readers[c]
    BY <1>0, <2>1
  <2> QED BY <1>1, <2>1, <2>2, <2>3, <2>4 DEF HasLiveWriter, LiveWriter
<1>3. CASE Swap(t)
  <2>1. /\ data' = [data EXCEPT ![i[t]] = ctx[t]] /\ pc' = [pc EXCEPT ![t] = "open"]
        /\ i[t] \in Cells /\ UNCHANGED <<readers, i, prev_data>>
    BY <1>0, <1>3 DEF Swap
  <2>2. LiveWriter(t, i[t])'
    BY <1>0, <2>1 DEF LiveWriter
  <2>3. \A u \in Tasks, c \in Cells : c # i[t] => (LiveWriter(u, c) => LiveWriter(u, c)')
    BY <1>0, <2>1 DEF LiveWriter
  <2> QED BY <1>1, <2>1, <2>2, <2>3 DEF HasLiveWriter, LiveWriter
<1>4. CASE Open(t)
  <2>1. /\ readers' = [readers EXCEPT ![i[t]] = 0] /\ pc' = [pc EXCEPT ![t] = "evict"]
        /\ i[t] \in Cells /\ UNCHANGED <<data, i, prev_data>>
    BY <1>0, <1>4 DEF Open, AfterOpen
  <2>2. ASSUME NEW c \in Cells, readers'[c] = Writing PROVE \E u \in Tasks : LiveWriter(u, c)'
    <3>1. c # i[t] /\ readers[c] = Writing
      BY <1>0, <1>w, <2>1, <2>2
    <3>2. PICK u \in Tasks : LiveWriter(u, c)
      BY <1>1, <3>1
    <3>3. u # t
      BY <3>1, <3>2 DEF LiveWriter
    <3> QED BY <1>0, <2>1, <3>2, <3>3 DEF LiveWriter
  <2> QED BY <2>2 DEF HasLiveWriter
<1>5. CASE LoadData(t)
  <2>1. /\ prev_data' = [prev_data EXCEPT ![t] = data[i[t]]] /\ pc' = [pc EXCEPT ![t] = "swap"]
        /\ i[t] \in Cells /\ UNCHANGED <<readers, data, i>>
    BY <1>0, <1>5 DEF LoadData
  <2>2. \A u \in Tasks, c \in Cells : LiveWriter(u, c) => LiveWriter(u, c)'
    <3>1. \A c \in Cells : LiveWriter(t, c) => LiveWriter(t, c)'
      BY <1>0, <2>1 DEF LiveWriter
    <3>2. \A u \in Tasks \ {t}, c \in Cells : LiveWriter(u, c) => LiveWriter(u, c)'
      BY <1>0, <2>1 DEF LiveWriter
    <3> QED BY <3>1, <3>2
  <2> QED BY <1>1, <2>1, <2>2 DEF HasLiveWriter
\* The other steps are of a task that is no live writer, and close no cell.
<1>6. ASSUME \A c \in Cells : ~LiveWriter(t, c),
             \A u \in Tasks \ {t} : pc'[u] = pc[u] /\ i'[u] = i[u] /\ prev_data'[u] = prev_data[u],
             data' = data, \A c \in Cells : readers'[c] = Writing => readers[c] = Writing
      PROVE  HasLiveWriter'
  <2> SUFFICES ASSUME NEW c \in Cells, readers'[c] = Writing PROVE \E u \in Tasks : LiveWriter(u, c)'
      BY DEF HasLiveWriter
  <2>1. PICK u \in Tasks : LiveWriter(u, c)
    BY <1>1, <1>6
  <2>2. u # t
    BY <1>6, <2>1
  <2> QED BY <1>6, <2>1, <2>2 DEF LiveWriter
<1>7. CASE SwapFail(t)
  <2>1. \A c \in Cells : ~LiveWriter(t, c)
    BY <1>7 DEF SwapFail, LiveWriter
  <2> QED BY <1>0, <1>6, <1>7, <2>1 DEF SwapFail
<1>8. CASE Get(t)
  <2>1. \A c \in Cells : readers'[c] = Writing => readers[c] = Writing
    BY <1>0, <1>8, <1>w DEF Get
  <2>2. \A c \in Cells : ~LiveWriter(t, c)
    BY <1>8 DEF Get, LiveWriter
  <2> QED BY <1>0, <1>6, <1>8, <2>1, <2>2 DEF Get
<1>9. CASE (\E u \in Users : Select(t, u)) \/ Find(t)
  <2>1. \A c \in Cells : ~LiveWriter(t, c)
    BY <1>9 DEF Select, Find, LoadNote, Build, BuildFail, LiveWriter
  <2>2. /\ \A u \in Tasks \ {t} : pc'[u] = pc[u] /\ i'[u] = i[u] /\ prev_data'[u] = prev_data[u]
        /\ data' = data /\ readers' = readers
    BY <1>0, <1>9 DEF Select, Find, LoadNote, Build, BuildFail
  <2> QED BY <1>6, <2>1, <2>2
<1>10. CASE SetStart(t) \/ SetOutOfRange(t) \/ ScanFree(t) \/ ScanPass(t) \/ ScanEnd(t)
            \/ GrabFail(t) \/ Evict(t)
  <2>1. \A c \in Cells : ~LiveWriter(t, c)
    BY <1>10 DEF SetStart, SetOutOfRange, ScanFree, ScanPass, ScanEnd, GrabFail, Evict, LiveWriter
  <2>2. /\ \A u \in Tasks \ {t} : pc'[u] = pc[u] /\ i'[u] = i[u] /\ prev_data'[u] = prev_data[u]
        /\ data' = data /\ readers' = readers
    BY <1>0, <1>10 DEF SetStart, SetOutOfRange, ScanFree, ScanPass, ScanEnd, GrabFail, Evict
  <2> QED BY <1>6, <2>1, <2>2
<1>11. CASE StoreNote(t) \/ GetConflict(t) \/ ReadData(t) \/ Use(t) \/ Retry(t) \/ Dereference(t) \/ Done(t)
  <2>1. \A c \in Cells : ~LiveWriter(t, c)
    BY <1>11 DEF StoreNote, GetConflict, ReadData, Use, Retry, Dereference, Done, LiveWriter
  <2>2. /\ \A u \in Tasks \ {t} : pc'[u] = pc[u] /\ i'[u] = i[u] /\ prev_data'[u] = prev_data[u]
        /\ data' = data /\ readers' = readers
    BY <1>0, <1>11 DEF StoreNote, GetConflict, ReadData, Use, Retry, Dereference, Done
  <2> QED BY <1>6, <2>1, <2>2
<1> QED BY <1>2, <1>3, <1>4, <1>5, <1>7, <1>8, <1>9, <1>10, <1>11 DEF Set, Take

\* A context is put into one cell, once.
LEMMA ContextStep ==
    ASSUME Inv, NEW t \in Tasks, (\E u \in Users : Select(t, u)) \/ Find(t) \/ Set(t) \/ Take(t)
    PROVE  CtxNew' /\ InOneCell'
<1> USE DEF At, Goto, Finish, cells, locals
<1>0. /\ pc \in [Tasks -> PCs] /\ user \in [Tasks -> Users]
      /\ data \in [Cells -> Contexts \cup {None}] /\ ctx \in [Tasks -> Contexts \cup {None}]
      /\ built \in [Tasks -> 0..MaxBuilds]
      /\ pc[t] = "swap" => i[t] \in Cells
    BY DEF Inv, TypeOK, AtCell
<1>1. /\ \A u \in Tasks : pc[u] \in Setting =>
            /\ ctx[u] # None /\ ctx[u][2] = u /\ ctx[u][3] = built[u]
            /\ \A c \in Cells : data[c] # ctx[u]
      /\ \A c \in Cells : data[c] # None => data[c][3] <= built[data[c][2]] /\ data[c][2] \in Tasks
    BY <1>0, ContextIs DEF Inv, CtxNew
<1>2. CASE Build(t)
  <2> DEFINE x == <<user[t], t, built[t] + 1>>
  <2>1. /\ built' = [built EXCEPT ![t] = built[t] + 1] /\ ctx' = [ctx EXCEPT ![t] = x]
        /\ pc' = [pc EXCEPT ![t] = "start"] /\ UNCHANGED data /\ built[t] < MaxBuilds
    BY <1>2 DEF Build
  <2>2. built[t] \in Nat /\ built[t] + 1 \in 1..MaxBuilds
    BY <1>0, <2>1, CacheAssumption
  <2>3. x # None /\ x[2] = t /\ x[3] = built[t] + 1
    BY <1>0, <2>2, ContextIs
  <2>4. \A c \in Cells : data[c] # x
    <3> SUFFICES ASSUME NEW c \in Cells, data[c] = x PROVE FALSE
        OBVIOUS
    <3>1. x[3] <= built[x[2]]
      BY <1>1, <2>3
    <3> QED BY <2>2, <2>3, <3>1
  <2>5. built'[t] = built[t] + 1 /\ ctx'[t] = x /\ \A u \in Tasks \ {t} : built'[u] = built[u]
    BY <1>0, <2>1
  <2> HIDE DEF x
  <2>6. \A u \in Tasks : pc'[u] \in Setting =>
            /\ ctx'[u] # None /\ ctx'[u][2] = u /\ ctx'[u][3] = built'[u]
            /\ \A c \in Cells : data'[c] # ctx'[u]
    <3>1. \A u \in Tasks \ {t} : pc'[u] = pc[u] /\ ctx'[u] = ctx[u]
      BY <1>0, <2>1
    <3> QED BY <1>1, <2>1, <2>3, <2>4, <2>5, <3>1
  <2>7. \A u \in Tasks : built[u] \in Int /\ built'[u] \in Int /\ built[u] <= built'[u]
    BY <1>0, <2>2, <2>5
  <2>8. ASSUME NEW c \in Cells, data'[c] # None PROVE data'[c][3] <= built'[data'[c][2]]
    <3>1. data[c] \in Contexts /\ data[c][2] \in Tasks /\ data[c][3] <= built[data[c][2]]
      BY <1>0, <1>1, <2>1, <2>8
    <3>2. data[c][3] \in Int
      BY <3>1, ContextIs, CacheAssumption
    <3> QED BY <2>1, <2>7, <3>1, <3>2
  <2> QED BY <2>1, <2>6, <2>8 DEF CtxNew, Inv, InOneCell
<1>3. CASE Swap(t)
  <2>1. /\ data' = [data EXCEPT ![i[t]] = ctx[t]] /\ pc' = [pc EXCEPT ![t] = "open"] /\ pc[t] = "swap"
        /\ i[t] \in Cells /\ UNCHANGED <<ctx, built>>
    BY <1>0, <1>3 DEF Swap
  <2>2. /\ ctx[t] # None /\ ctx[t][2] = t /\ ctx[t][3] = built[t]
        /\ \A c \in Cells : data[c] # ctx[t]
    BY <1>1, <2>1 DEF Setting
  <2>3. \A c \in Cells : data'[c] = IF c = i[t] THEN ctx[t] ELSE data[c]
    BY <1>0, <2>1
  <2>4. InOneCell'
    BY <2>2, <2>3 DEF Inv, InOneCell
  <2>5. ASSUME NEW u \in Tasks, pc'[u] \in Setting
        PROVE  /\ ctx'[u] # None /\ ctx'[u][2] = u /\ ctx'[u][3] = built'[u]
               /\ \A c \in Cells : data'[c] # ctx'[u]
    <3>1. u # t /\ pc[u] \in Setting
      BY <1>0, <2>1, <2>5 DEF Setting
    <3>2. ctx[u] # ctx[t]
      BY <1>1, <2>2, <3>1
    <3> QED BY <1>1, <2>1, <2>3, <3>1, <3>2
  <2>6. ASSUME NEW c \in Cells, data'[c] # None PROVE data'[c][3] <= built'[data'[c][2]]
    <3>1. CASE c = i[t]
      BY <1>0, <2>1, <2>2, <2>3, <3>1, CacheAssumption
    <3>2. CASE c # i[t]
      BY <1>1, <2>1, <2>3, <2>6, <3>2
    <3> QED BY <3>1, <3>2
  <2> QED BY <2>4, <2>5, <2>6 DEF CtxNew
\* The other steps build and store nothing.
<1>4. ASSUME UNCHANGED <<data, built>>,
             \A u \in Tasks : pc'[u] \in Setting => pc[u] \in Setting /\ ctx'[u] = ctx[u]
      PROVE  CtxNew' /\ InOneCell'
  <2>1. CtxNew'
    BY <1>1, <1>4 DEF CtxNew
  <2> QED BY <1>4, <2>1 DEF Inv, InOneCell
<1>5. CASE (\E u \in Users : Select(t, u)) \/ LoadNote(t) \/ BuildFail(t)
  <2>1. /\ UNCHANGED <<data, built>> /\ pc'[t] \notin Setting
        /\ \A u \in Tasks \ {t} : pc'[u] = pc[u] /\ ctx'[u] = ctx[u]
    BY <1>0, <1>5 DEF Select, LoadNote, BuildFail, Setting
  <2> QED BY <1>4, <2>1
<1>6. CASE SetStart(t) \/ ScanFree(t) \/ ScanPass(t) \/ Grab(t) \/ GrabFail(t) \/ LoadData(t) \/ SwapFail(t)
  <2>1. /\ UNCHANGED <<data, built, ctx>> /\ pc[t] \in Setting
        /\ \A u \in Tasks \ {t} : pc'[u] = pc[u]
    BY <1>0, <1>6 DEF SetStart, ScanFree, ScanPass, Grab, GrabFail, LoadData, SwapFail, Setting
  <2> QED BY <1>4, <2>1
<1>7. CASE SetOutOfRange(t) \/ ScanEnd(t) \/ Open(t) \/ Evict(t)
  <2>1. /\ UNCHANGED <<data, built>> /\ pc'[t] \notin Setting
        /\ \A u \in Tasks \ {t} : pc'[u] = pc[u] /\ ctx'[u] = ctx[u]
    BY <1>0, <1>7 DEF SetOutOfRange, ScanEnd, Open, Evict, Setting
  <2> QED BY <1>4, <2>1
<1>8. CASE Take(t)
  <2>1. UNCHANGED <<data, built>> /\ \A u \in Tasks \ {t} : pc'[u] = pc[u] /\ ctx'[u] = ctx[u]
    BY <1>0, <1>8 DEF Take, StoreNote, Get, GetConflict, ReadData, Use, Retry, Dereference, Done
  <2>2. pc'[t] \notin Setting
    BY <1>0, <1>8 DEF Take, StoreNote, Get, GetConflict, ReadData, Use, Retry, Dereference, Done, Setting
  <2> QED BY <1>4, <2>1, <2>2
<1> QED BY <1>2, <1>3, <1>5, <1>6, <1>7, <1>8 DEF Find, Set

LEMMA StepInv == Inv /\ [Next]_vars => Inv'
<1>1. ASSUME Inv, NEW t \in Tasks, (\E u \in Users : Select(t, u)) \/ Find(t) \/ Set(t) \/ Take(t)
      PROVE  Inv'
    BY <1>1, TypeStep, WriterStep, ContextStep DEF Inv
<1>2. ASSUME Inv, UNCHANGED vars PROVE Inv'
    BY <1>2 DEF Inv, TypeOK, AtCell, HasLiveWriter, LiveWriter, CtxNew, InOneCell,
                vars, cells, locals
<1> QED BY <1>1, <1>2 DEF Next

LEMMA LiveWriterCloses == Inv => ClosedOnlyWhileSet
    BY DEF Inv, HasLiveWriter, LiveWriter, ClosedOnlyWhileSet

---------------------------------------------------------------------------
(* The process as a whole (MCServe) *)

MCInv == which \in {"cache", "insts", "strings", "requests"} /\ (which = "cache" => Inv)

LEMMA MCInitInv == MCInit => MCInv
    BY InitInv DEF MCInit, MCInv

LEMMA MCStepInv == MCInv /\ [MCNext]_serveVars => MCInv'
<1> SUFFICES ASSUME MCInv, [MCNext]_serveVars PROVE MCInv'
    OBVIOUS
<1>1. which' = which
    BY DEF MCNext, serveVars, OfCache, OfStrings, OfInsts, OfRequests
<1>2. ASSUME which = "cache" PROVE [Next]_vars
  <2>1. CASE UNCHANGED serveVars
    BY <2>1 DEF serveVars, cacheVars
  <2>2. CASE MCNext
    BY <1>2, <2>2 DEF MCNext, OfStrings, OfInsts, OfRequests, Next
  <2> QED BY <2>1, <2>2
<1> QED BY <1>1, <1>2, StepInv DEF MCInv

\* knd_cache.c:46-66: a cell is closed to readers only while a writer is at work
\* on it, though the loser of a race leaves it as it is; a context is in one cell.
THEOREM CellsOneWriter == MCSpec => []CellsExclusive
<1>1. MCInv => CellsExclusive
    BY LiveWriterCloses DEF MCInv, CellsExclusive, Inv
<1> QED BY <1>1, MCInitInv, MCStepInv, PTL DEF MCSpec

\* The strings are those of StringsProofs.
STP == INSTANCE StringsProofs WITH None <- Nil, Vals <- {"u", "v", "w"}, MaxStrs <- 4, MaxRestarts <- 1,
         idx <- strIdx, pc <- strPc, val <- strVal, num <- strNum, used <- strUsed,
         file <- strFile, restarts <- strRuns

LEMMA StringsOfServe == MCSpec => STP!StringsSpec
<1>1. MCInit => STP!StringsInit
    BY DEF MCInit, ST!StringsInit, STP!StringsInit, ST!Ids, STP!Ids
<1>2. ASSUME [MCNext]_serveVars PROVE [STP!StringsNext]_STP!stringVars
  <2>1. CASE UNCHANGED stringVars
    BY <2>1 DEF stringVars, STP!stringVars
  <2>2. CASE OfStrings /\ MCNext
    <3>1. \/ \E t \in Tasks : \/ \E v \in {"u", "v", "w"} : ST!Fetch(t, v)
                            \/ ST!Number(t) \/ ST!Enter(t) \/ ST!AddToIdx(t) \/ ST!GiveUp(t)
          \/ ST!Snapshot \/ ST!Reopen
      BY <2>2 DEF MCNext, OfCache, OfStrings, OfInsts, OfRequests
    <3>2. \/ \E t \in Tasks : \/ \E v \in {"u", "v", "w"} : STP!Fetch(t, v)
                            \/ STP!Number(t) \/ STP!Enter(t) \/ STP!AddToIdx(t) \/ STP!GiveUp(t)
          \/ STP!Snapshot \/ STP!Reopen
      BY <3>1 DEF ST!Fetch, ST!Number, ST!Enter, ST!AddToIdx, ST!GiveUp, ST!Snapshot, ST!Reopen,
                  ST!Move, ST!NextNum, ST!IdFree, ST!Read, ST!Ids,
                  STP!Fetch, STP!Number, STP!Enter, STP!AddToIdx, STP!GiveUp, STP!Snapshot, STP!Reopen,
                  STP!Move, STP!NextNum, STP!IdFree, STP!Read, STP!Ids,
                  ST!Cardinality, STP!Cardinality
    <3> QED BY <3>2 DEF STP!StringsNext
  <2> QED BY <1>2, <2>1, <2>2 DEF MCNext, serveVars, OfCache, OfStrings, OfInsts, OfRequests
<1> QED BY <1>1, <1>2, PTL DEF MCSpec, STP!StringsSpec

\* knd_charseq_fetch and knd_charseq_decode: the numbers of the first run decode to
\* their strings, and what strings.gsp says of an id holds after the restart.
THEOREM NumbersStay == MCSpec => []NumbersDecode
<1>1. STP!Proper
    BY ServeAssumption DEF STP!Proper
<1>2. STP!StringsSpec => [](STP!FirstRunDecodes /\ STP!FileKept)
    BY <1>1, STP!StringsKeepNumbers
<1>3. STP!FirstRunDecodes /\ STP!FileKept => NumbersDecode
    BY DEF NumbersDecode, ST!FirstRunDecodes, ST!FileKept, STP!FirstRunDecodes, STP!FileKept, ST!Ids, STP!Ids
<1> QED BY <1>2, <1>3, StringsOfServe, PTL

\* The instances are those of InstancesProofs.
CIP == INSTANCE InstancesProofs WITH None <- Nil, Names <- InstNames, MaxMade <- 3, MaxRestarts <- 2,
         idx <- instIdx, count <- instCount, file <- instFile, pc <- instPc, restarts <- instRuns

LEMMA SameInstInit == CI!InstInit => CIP!InstInit
    BY DEF CI!InstInit, CI!BulkLoaded, CI!NoJob, CI!Job, CI!Empty, CI!Range, CI!Item,
           CIP!InstInit, CIP!BulkLoaded, CIP!NoJob, CIP!Job, CIP!Empty, CIP!Range, CIP!Item

LEMMA SameReopen == CI!Reopen => CIP!Reopen
    BY DEF CI!Reopen, CI!NoJob, CI!Job, CIP!Reopen, CIP!NoJob, CIP!Job

LEMMA SameSnapshot == CI!Snapshot => CIP!Snapshot
    BY SameReopen DEF CI!Snapshot, CI!AllLoaded, CI!IdsIn, CI!Written, CI!indices,
           CIP!Snapshot, CIP!AllLoaded, CIP!IdsIn, CIP!Written, CIP!indices

LEMMA SameCreation ==
  ASSUME NEW t, NEW n, NEW g
  PROVE  /\ CI!New(t, n, g) => CIP!New(t, n, g)
         /\ CI!Number(t) => CIP!Number(t)
         /\ CI!LoadName(t) => CIP!LoadName(t)
         /\ CI!CasName(t) => CIP!CasName(t)
         /\ CI!LoadIdx(t) => CIP!LoadIdx(t)
         /\ CI!CasIdx(t) => CIP!CasIdx(t)
         /\ CI!Register(t) => CIP!Register(t)
         /\ CI!Push(t) => CIP!Push(t)
         /\ CI!Conflict(t) => CIP!Conflict(t)
         /\ CI!Promote(t) => CIP!Promote(t)
         /\ CI!AddId(t) => CIP!AddId(t)
<1> USE DEF CI!Goto, CI!Done, CI!NoJob, CI!Job, CI!indices, CI!NameFree, CI!NamesIn, CI!IdFree, CI!IdsIn,
            CI!Bind, CI!Installed, CI!Empty, CI!Next1, CI!NextId, CI!Item, CI!Items, CI!Newest, CI!Taken, CI!NoneNew,
            CIP!Goto, CIP!Done, CIP!NoJob, CIP!Job, CIP!indices, CIP!NameFree, CIP!NamesIn, CIP!IdFree, CIP!IdsIn,
            CIP!Bind, CIP!Installed, CIP!Empty, CIP!Next1, CIP!NextId, CIP!Item, CIP!Items, CIP!Newest, CIP!Taken, CIP!NoneNew
<1>1. CI!New(t, n, g) => CIP!New(t, n, g)
    BY DEF CI!New, CIP!New
<1>2. CI!Number(t) => CIP!Number(t)
    BY DEF CI!Number, CIP!Number
<1>3. CI!LoadName(t) => CIP!LoadName(t)
    BY DEF CI!LoadName, CIP!LoadName
<1>4. CI!CasName(t) => CIP!CasName(t)
    BY DEF CI!CasName, CIP!CasName
<1>5. CI!LoadIdx(t) => CIP!LoadIdx(t)
    BY DEF CI!LoadIdx, CIP!LoadIdx
<1>6. CI!CasIdx(t) => CIP!CasIdx(t)
    BY DEF CI!CasIdx, CIP!CasIdx
<1>7. CI!Register(t) => CIP!Register(t)
    BY DEF CI!Register, CIP!Register
<1>8. CI!Push(t) => CIP!Push(t)
    BY DEF CI!Push, CIP!Push
<1>9. CI!Conflict(t) => CIP!Conflict(t)
    BY DEF CI!Conflict, CIP!Conflict
<1>10. CI!Promote(t) => CIP!Promote(t)
    BY DEF CI!Promote, CIP!Promote
<1>11. CI!AddId(t) => CIP!AddId(t)
    BY DEF CI!AddId, CIP!AddId
<1> QED BY <1>1, <1>2, <1>3, <1>4, <1>5, <1>6, <1>7, <1>8, <1>9, <1>10, <1>11

LEMMA SameRequests ==
  ASSUME NEW t, NEW n
  PROVE  /\ CI!Get(t, n) => CIP!Get(t, n)
         /\ CI!Record(t) => CIP!Record(t)
         /\ CI!RecordId(t) => CIP!RecordId(t)
         /\ CI!FetchEnds(t) => CIP!FetchEnds(t)
         /\ CI!Look(t) => CIP!Look(t)
         /\ CI!Show(t) => CIP!Show(t)
         /\ CI!Remove(t) => CIP!Remove(t)
         /\ CI!GetById(t) => CIP!GetById(t)
<1> USE DEF CI!Goto, CI!Done, CI!NoJob, CI!Job, CI!indices, CI!NameFree, CI!NamesIn, CI!IdFree, CI!IdsIn,
            CI!Bind, CI!ReadAt, CI!NumSnapshotInsts, CI!Cardinality, CI!Newest,
            CIP!Goto, CIP!Done, CIP!NoJob, CIP!Job, CIP!indices, CIP!NameFree, CIP!NamesIn, CIP!IdFree, CIP!IdsIn,
            CIP!Bind, CIP!ReadAt, CIP!NumSnapshotInsts, CIP!Cardinality, CIP!Newest
<1>1. CI!Get(t, n) => CIP!Get(t, n)
    BY DEF CI!Get, CIP!Get
<1>2. CI!Record(t) => CIP!Record(t)
    BY DEF CI!Record, CIP!Record
<1>3. CI!RecordId(t) => CIP!RecordId(t)
    BY DEF CI!RecordId, CIP!RecordId
<1>4. CI!FetchEnds(t) => CIP!FetchEnds(t)
    BY DEF CI!FetchEnds, CIP!FetchEnds
<1>5. CI!Look(t) => CIP!Look(t)
    BY SameReopen DEF CI!Look, CIP!Look
<1>6. CI!Show(t) => CIP!Show(t)
    BY DEF CI!Show, CIP!Show
<1>7. CI!Remove(t) => CIP!Remove(t)
    BY DEF CI!Remove, CIP!Remove
<1>8. CI!GetById(t) => CIP!GetById(t)
    BY SameReopen DEF CI!GetById, CIP!GetById
<1> QED BY <1>1, <1>2, <1>3, <1>4, <1>5, <1>6, <1>7, <1>8

InstsInv == which \in {"cache", "insts", "strings", "requests"} /\ (which = "insts" => CIP!Inv)

LEMMA InstsStep == ASSUME CIP!Proper, InstsInv, [MCNext]_serveVars PROVE InstsInv'
<1>1. which' = which
    BY DEF MCNext, serveVars, OfCache, OfStrings, OfInsts, OfRequests
<1>2. ASSUME which = "insts" PROVE [CIP!InstNext]_CIP!instVars
  <2>1. CASE UNCHANGED serveVars
    BY <2>1 DEF serveVars, instVars, CIP!instVars
  <2>2. CASE MCNext
    <3>1. (\E t \in Tasks : CI!Task(t)) \/ CI!Snapshot \/ CI!Reopen
      BY <1>2, <2>2 DEF MCNext, OfCache, OfStrings, OfRequests
    <3>2. ASSUME NEW t \in Tasks, CI!Task(t) PROVE CIP!Task(t)
      BY <3>2, SameCreation, SameRequests, SameReopen DEF CI!Task, CIP!Task
    <3> QED BY <3>1, <3>2, SameSnapshot, SameReopen DEF CIP!InstNext
  <2> QED BY <2>1, <2>2
<1>3. ASSUME which = "insts" PROVE CIP!Inv'
    BY <1>2, <1>3, CIP!StepInv DEF InstsInv
<1> QED BY <1>1, <1>3 DEF InstsInv

\* knd_class_inst_update_indices, knd_class_inst_idx_fetch, export_class_insts: an
\* instance whose creation succeeded is found until the process dies, by its id, and by
\* its name unless creation of another of that name overlapped its own, though tasks
\* install the indices and fetch the file at the same time; one that had succeeded when
\* a snapshot was written is there again once the file is fetched.
THEOREM InstancesFound == ASSUME CIP!Proper PROVE MCSpec => []AckedFound
<1>1. MCInit => InstsInv
    BY SameInstInit, CIP!InitInv DEF MCInit, InstsInv
<1>2. InstsInv /\ [MCNext]_serveVars => InstsInv'
    BY InstsStep
<1>3. InstsInv => AckedFound
    BY CIP!InvFound DEF InstsInv, AckedFound, CI!AckedFound, CI!AckedKept, CIP!AckedFound, CIP!AckedKept,
           CI!NamesIn, CI!IdsIn, CI!Newest, CI!Named, CI!Hides, CIP!NamesIn, CIP!IdsIn, CIP!Newest, CIP!Named, CIP!Hides
<1> QED BY <1>1, <1>2, <1>3, PTL DEF MCSpec

---------------------------------------------------------------------------
(* A task that answers queries (Requests) *)

\* Induction, of sets of numbers: the smallest one that is not in T has its
\* predecessor in T.
LEMMA NatMin == ASSUME NEW T, T \subseteq Nat, T # {} PROVE \E x \in T : \A y \in T : x <= y
<1>1. PICK R : R = OpToRel(<, Nat)
    OBVIOUS
<1>2. IsWellFoundedOn(R, Nat)
    BY <1>1, NatLessThanWellFounded
<1>3. PICK x \in T : \A y \in T : ~ (<<y, x>> \in R)
    BY <1>2, WFMin
<1>4. ASSUME NEW a \in Nat, NEW b \in Nat, a < b PROVE <<a, b>> \in R
    BY <1>1, <1>4 DEF OpToRel
<1>5. \A y \in T : ~ (y < x)
    BY <1>3, <1>4
<1> QED BY <1>5

LEMMA UpTo ==
  ASSUME NEW n \in Nat, NEW T, 0 \in T, \A k \in 1..n : k - 1 \in T => k \in T
  PROVE  \A k \in 0..n : k \in T
<1> SUFFICES ASSUME NEW U, U = {k \in 0..n : k \notin T}, U # {} PROVE FALSE
    OBVIOUS
<1>0. U \subseteq Nat
    OBVIOUS
<1>1. PICK x \in U : \A y \in U : x <= y
    BY <1>0, NatMin
<1>2. x \in 1..n /\ x - 1 \in 0..n
    OBVIOUS
<1>3. x - 1 \in T
    BY <1>1, <1>2
<1> QED BY <1>2, <1>3

\* What the loop over a set has listed after each element.
LEMMA SetExportedIs ==
  ASSUME NEW t, NEW set \in Seq(Classes), t.startFrom \in Nat
  PROVE  SetExportedGSL(t, set) =
           [task |-> t,
            answer |-> Ok(IF Full(t) THEN <<>> ELSE SubSeq(set, t.startFrom + 1, Len(set)))]
<1> DEFINE From == t.startFrom + 1
           Page(k) == IF Full(t) THEN <<>> ELSE SubSeq(set, From, k)
           Listing(f) == f = [k \in 0 .. Len(set) |->
                                IF k = 0 THEN [task |-> t, page |-> <<>>]
                                ELSE ConcElem(f[k - 1], k - 1, set[k])]
           closed == [k \in 0 .. Len(set) |-> [task |-> t, page |-> Page(k)]]
<1>0. Len(set) \in Nat /\ Page(0) = <<>>
    BY SubSeqEmpty
<1>1. ASSUME NEW k \in 1 .. Len(set)
      PROVE  ConcElem([task |-> t, page |-> Page(k - 1)], k - 1, set[k]) = [task |-> t, page |-> Page(k)]
  <2>1. CASE Full(t)
    BY <2>1 DEF ConcElem
  <2>2. CASE ~ Full(t) /\ k - 1 < t.startFrom
    <3>1. SubSeq(set, From, k - 1) = <<>> /\ SubSeq(set, From, k) = <<>>
      BY <2>2, SubSeqEmpty
    <3> QED BY <2>2, <3>1 DEF ConcElem, Skipped
  <2>3. CASE ~ Full(t) /\ ~ (k - 1 < t.startFrom)
    <3>0. From \in 1 .. Len(set) /\ k \in From .. Len(set) /\ From \in Int /\ k - 1 \in Int
      BY <2>3
    <3>1. SubSeq(set, From, k) = SubSeq(set, From, k - 1) \o <<set[k]>>
      BY <3>0, SubSeqRecursiveSecond
    <3>2. \A j \in From .. (k - 1) : set[j] \in Classes
      BY <3>0
    <3>3. SubSeq(set, From, k - 1) \in Seq(Classes) /\ set[k] \in Classes
      BY <3>0, <3>2, SubSeqProperties
    <3>4. Append(SubSeq(set, From, k - 1), set[k]) = SubSeq(set, From, k - 1) \o <<set[k]>>
      BY <3>3, AppendIsConcat, Zenon
    <3> QED BY <2>3, <3>1, <3>4 DEF ConcElem, Skipped
  <2> QED BY <2>1, <2>2, <2>3
<1> HIDE DEF Page
<1>2. Listing(closed)
  <2>1. ASSUME NEW k \in 0 .. Len(set)
        PROVE  closed[k] = IF k = 0 THEN [task |-> t, page |-> <<>>]
                           ELSE ConcElem(closed[k - 1], k - 1, set[k])
    <3>1. CASE k = 0
      BY <1>0, <3>1
    <3>2. CASE k # 0
      <4>1. k \in 1 .. Len(set) /\ k - 1 \in 0 .. Len(set)
        BY <1>0, <3>2
      <4>2. closed[k - 1] = [task |-> t, page |-> Page(k - 1)] /\ closed[k] = [task |-> t, page |-> Page(k)]
        BY <4>1
      <4> HIDE DEF closed
      <4> QED BY <1>1, <3>2, <4>1, <4>2, Zenon
    <3> QED BY <3>1, <3>2
  <2>2. PICK g : g = closed
    OBVIOUS
  <2>3. DOMAIN g = 0 .. Len(set) /\ g = [k \in 0 .. Len(set) |-> g[k]]
    BY <2>2
  <2> HIDE DEF closed
  <2> QED BY <2>1, <2>2, <2>3
<1>3. ASSUME NEW f, Listing(f) PROVE f = closed
  <2>1. PICK g : g = closed /\ Listing(g)
    BY <1>2
  <2> HIDE DEF closed
  <2>2. PICK T : T = {k \in 0 .. Len(set) : f[k] = g[k]}
    OBVIOUS
  <2>3. 0 \in T
    BY <1>0, <1>3, <2>1, <2>2
  <2>4. ASSUME NEW k \in 1 .. Len(set), k - 1 \in T PROVE k \in T
    <3>1. f[k - 1] = g[k - 1] /\ k \in 0 .. Len(set) /\ k # 0
      BY <1>0, <2>2, <2>4
    <3>2. f[k] = ConcElem(f[k - 1], k - 1, set[k]) /\ g[k] = ConcElem(g[k - 1], k - 1, set[k])
      BY <1>3, <2>1, <3>1
    <3>3. f[k] = g[k]
      BY <3>1, <3>2, Zenon
    <3> QED BY <2>2, <3>1, <3>3
  <2>5. \A k \in 0 .. Len(set) : f[k] = g[k]
    BY <1>0, <2>2, <2>3, <2>4, UpTo
  <2>6. f = [k \in 0 .. Len(set) |-> f[k]] /\ g = [k \in 0 .. Len(set) |-> g[k]]
    BY <1>3, <2>1
  <2> QED BY <2>1, <2>5, <2>6
<1>4. PICK c : c = (CHOOSE f : Listing(f))
    OBVIOUS
<1>5. Listing(c)
    BY <1>2, <1>4
<1>6. c = closed
    BY <1>3, <1>5
<1>7. c[Len(set)] = [task |-> t, page |-> Page(Len(set))]
    BY <1>0, <1>6
<1>8. SetExportedGSL(t, set) = [task |-> c[Len(set)].task, answer |-> Ok(c[Len(set)].page)]
    BY <1>4, Zenon DEF SetExportedGSL
<1> HIDE DEF closed, Listing
<1> QED BY <1>7, <1>8 DEF Page

\* A task has its four fields, and the options are numbers.
Fields(t) ==
    /\ t = [batchMax |-> t.batchMax, batchFrom |-> t.batchFrom,
            startFrom |-> t.startFrom, batchSize |-> t.batchSize]
    /\ t.batchMax \in Nat /\ t.batchFrom \in Nat /\ t.startFrom \in Nat

\* Only the counter of topics moves.
LEMMA InverseRelsMove ==
  ASSUME NEW t, Fields(t), NEW c \in Classes
  PROVE  Fields(InverseRels(t, c))
<1>1. PICK z : InverseRels(t, c) = [t EXCEPT !.batchSize = z]
    BY DEF InverseRels
<1>2. InverseRels(t, c) = [batchMax |-> t.batchMax, batchFrom |-> t.batchFrom,
                           startFrom |-> t.startFrom, batchSize |-> z]
  <2>1. PICK b, f, s, y : t = [batchMax |-> b, batchFrom |-> f, startFrom |-> s, batchSize |-> y]
    BY DEF Fields
  <2> QED BY <1>1, <2>1
<1> QED BY <1>2 DEF Fields

---------------------------------------------------------------------------

LEMMA ListRequest ==
  ASSUME NEW r \in Lists
  PROVE  /\ r.batch \in Nat \cup {NoOpt} /\ r.fromBatch \in Nat \cup {NoOpt} /\ r.from \in Nat \cup {NoOpt}
         /\ r.kind = "list"
<1>1. CASE r \in Pages
    BY <1>1, RequestsAssumption DEF Pages
<1>2. CASE r \in Divided
    BY <1>2, RequestsAssumption DEF Divided
<1>3. CASE r \in Filtered
    BY <1>3, RequestsAssumption DEF Filtered
<1> QED BY <1>1, <1>2, <1>3 DEF Lists

\* Options that were given once are given a second time without effect.
LEMMA OptionsKept ==
  ASSUME NEW t, Fields(t), NEW r \in Lists,
         NEW given, given = WithOptions(t, r), NEW page, page = FromBatch(given)
  PROVE  /\ Fields(given) /\ Fields(page)
         /\ WithOptions(given, r) = given
         /\ FromBatch(WithOptions(page, r)) = page
         /\ page.batchMax = given.batchMax /\ WithOptions(page, r).batchMax = given.batchMax
<1>1. Fields(given)
    BY ListRequest DEF WithOptions, Given, Fields
<1>2. WithOptions(given, r) = given
    BY DEF WithOptions, Given
<1>3. CASE given.batchFrom = 0
  <2>1. page = given
    BY <1>3 DEF FromBatch
  <2> QED BY <1>1, <1>2, <2>1 DEF WithOptions
<1>4. CASE given.batchFrom # 0
  <2>0. PICK start : start = given.batchMax * (given.batchFrom - 1)
    OBVIOUS
  <2>1. start \in Nat
    <3>1. given.batchMax \in Nat /\ given.batchFrom - 1 \in Nat
      BY <1>1, <1>4 DEF Fields
    <3>2. \A m, n \in Nat : m * n \in Nat
      OBVIOUS
    <3> QED BY <2>0, <3>1, <3>2
  <2>2. PICK b, f, s, y : given = [batchMax |-> b, batchFrom |-> f, startFrom |-> s, batchSize |-> y]
    BY <1>1 DEF Fields
  <2>3. page = [batchMax |-> b, batchFrom |-> f, startFrom |-> start, batchSize |-> y]
    BY <1>4, <2>0, <2>2 DEF FromBatch
  <2>4. PICK w : w = Given(r.from, start)
    OBVIOUS
  <2>5. b = Given(r.batch, b) /\ f = Given(r.fromBatch, f) /\ y = t.batchSize
    BY <1>2, <2>2 DEF WithOptions
  <2>6. WithOptions(page, r) = [batchMax |-> b, batchFrom |-> f, startFrom |-> w, batchSize |-> y]
    BY <2>3, <2>4, <2>5 DEF WithOptions
  <2>7. FromBatch(WithOptions(page, r)) = page
    <3>1. start = b * (f - 1) /\ f # 0
      BY <1>4, <2>0, <2>2
    <3> QED BY <2>3, <2>6, <3>1 DEF FromBatch
  <2>8. Fields(page)
    BY <1>1, <2>1, <2>2, <2>3 DEF Fields
  <2> QED BY <1>1, <1>2, <2>2, <2>3, <2>5, <2>6, <2>7, <2>8
<1> QED BY <1>3, <1>4

---------------------------------------------------------------------------

\* The listing of a set leaves the task as it is.
LEMMA SetExportedKeeps ==
  ASSUME NEW t, Fields(t), NEW c \in Classes, NEW format
  PROVE  SetExported(t, Descendants[c], format).task = t
<1>1. Descendants[c] \in Seq(Classes) /\ t.startFrom \in Nat
    BY RequestsAssumption DEF Fields
<1>2. SetExportedGSL(t, Descendants[c]).task = t
    BY <1>1, SetExportedIs
<1> QED BY <1>2 DEF SetExported, SetExportedJSON

LEMMA PresentedKeeps ==
  ASSUME NEW t, Fields(t), NEW r, r.base \in Classes
  PROVE  BasePresented(t, r).task = t
    BY SetExportedKeeps DEF BasePresented, FacetsExported

LEMMA SelectedKeeps ==
  ASSUME NEW t, Fields(t), NEW r
  PROVE  SelectById(t, r).task = t
<1>1. CASE r.class \notin Classes
    BY <1>1 DEF SelectById
<1>2. CASE r.class \in Classes
  <2>1. DescShown(t, r).task = t
    BY <1>2, SetExportedKeeps DEF DescShown
  <2>2. OfSelected(t, r).task = t
    BY <2>1 DEF OfSelected
  <2> QED BY <1>2, <2>2 DEF SelectById
<1> QED BY <1>1, <1>2

Asked == Shows \cup Lists \cup Selected

LEMMA KindsAre == ASSUME NEW r \in Asked
  PROVE  \/ r \in Shows /\ r.kind = "show"
         \/ r \in Lists /\ r.kind = "list"
         \/ r.kind \in {"id", "name"}
<1>1. ASSUME r \in Lists PROVE r.kind = "list"
    BY <1>1 DEF Lists, Pages, Divided, Filtered
<1>2. ASSUME r \in Selected PROVE r.kind \in {"id", "name"}
    BY <1>2 DEF Selected
<1> QED BY <1>1, <1>2 DEF Asked, Shows

\* One request: the fields stay, and asking again has the same answer.
LEMMA AskOnce ==
  ASSUME NEW t, Fields(t), NEW r \in Asked, NEW done, done = ClassSelect(t, r)
  PROVE  /\ Fields(done.task)
         /\ ClassSelect(done.task, r).answer = done.answer
<1>1. CASE r.kind = "show"
  <2>0. done = ShowClass(t, r) /\ \A u : ClassSelect(u, r) = ShowClass(u, r)
    BY <1>1 DEF ClassSelect
  <2>1. CASE r.class \notin Classes
    BY <2>0, <2>1 DEF ShowClass
  <2>2. CASE r.class \in Classes
    <3>0. done = ClassExported(t, r.class, r.format) /\ \A u : ClassSelect(u, r) = ClassExported(u, r.class, r.format)
      BY <2>0, <2>2 DEF ShowClass
    <3>1. CASE r.format \notin {"GSL", "JSON"}
      BY <3>0, <3>1 DEF ClassExported
    <3>2. CASE r.format \in {"GSL", "JSON"}
      <4>1. \A u : ClassSelect(u, r) = [task |-> InverseRels(u, r.class), answer |-> Ok(<<r.class>>)]
        BY <3>0, <3>2 DEF ClassExported, ExportedGSL, ExportedJSON
      <4>2. done.task = InverseRels(t, r.class) /\ \A u : ClassSelect(u, r).answer = Ok(<<r.class>>)
        BY <4>1
      <4> QED BY <2>2, <4>2, InverseRelsMove
    <3> QED BY <3>1, <3>2
  <2> QED BY <2>1, <2>2
<1>2. CASE r \in Lists
  <2>0. done = ListBase(t, r) /\ \A u : ClassSelect(u, r) = ListBase(u, r)
    BY <1>2, ListRequest DEF ClassSelect
  <2>1. CASE r.base \notin Classes
    BY <2>0, <2>1 DEF ListBase
  <2>2. CASE r.base \in Classes
    <3> DEFINE Rest(g) == IF BaseAttr(r.clause) # "ok" THEN [task |-> g, answer |-> Ended(BaseAttr(r.clause))]
                          ELSE IF g.batchMax > MaxBatch THEN [task |-> g, answer |-> Ended("limit")]
                          ELSE BasePresented(FromBatch(g), r)
    <3>0. \A u : ClassSelect(u, r) = Rest(WithOptions(u, r))
      BY <2>0, <2>2 DEF ListBase
    <3>1. PICK g, p : g = WithOptions(t, r) /\ p = FromBatch(g)
      OBVIOUS
    <3>2. /\ Fields(g) /\ Fields(p) /\ WithOptions(g, r) = g /\ FromBatch(WithOptions(p, r)) = p
          /\ WithOptions(p, r).batchMax = g.batchMax
      BY <1>2, <3>1, OptionsKept
    <3>3. done = Rest(g)
      BY <2>0, <3>0, <3>1
    <3>6. CASE BaseAttr(r.clause) # "ok" \/ g.batchMax > MaxBatch
      <4>1. done.task = g /\ Rest(g) = done
        BY <3>3, <3>6
      <4>2. ClassSelect(g, r) = done
        BY <3>0, <3>2, <4>1
      <4> QED BY <3>2, <4>1, <4>2
    <3>7. CASE ~ (BaseAttr(r.clause) # "ok" \/ g.batchMax > MaxBatch)
      <4>1. done = BasePresented(p, r)
        BY <3>1, <3>3, <3>7
      <4>2. done.task = p
        BY <2>2, <3>2, <4>1, PresentedKeeps
      <4>3. Rest(WithOptions(p, r)) = BasePresented(p, r)
        BY <3>2, <3>7
      <4>4. ClassSelect(p, r) = done
        BY <3>0, <4>1, <4>3
      <4> QED BY <3>2, <4>2, <4>4
    <3> QED BY <3>6, <3>7
  <2> QED BY <2>1, <2>2
<1>3. CASE r.kind \in {"id", "name"}
  <2>1. done.task = t
    BY <1>3, SelectedKeeps DEF ClassSelect
  <2> QED BY <2>1
<1> QED BY <1>1, <1>2, <1>3, KindsAre

---------------------------------------------------------------------------

\* The answer is that of the request in the task it left.
RequestsInv ==
    /\ Fields(task)
    /\ asked # NoOpt => asked \in Asked /\ answer = ClassSelect(task, asked).answer

LEMMA NewTaskFields == Fields(NewTask)
    BY DEF NewTask, Fields

LEMMA InitRequests == ASSUME RequestsInit PROVE RequestsInv
    BY NewTaskFields DEF RequestsInit, RequestsInv

LEMMA OneRequest == ASSUME RequestsInv, NEW r \in Asked, Request(r) PROVE RequestsInv'
<1>1. PICK done : done = ClassSelect(task, r)
    OBVIOUS
<1>2. task' = done.task /\ answer' = done.answer /\ asked' = r
    BY <1>1 DEF Request, Reset
<1>3. Fields(done.task) /\ ClassSelect(done.task, r).answer = done.answer
    BY <1>1, AskOnce DEF RequestsInv
<1>4. Fields(task') /\ ClassSelect(task', asked').answer = answer'
    BY <1>2, <1>3
<1> QED BY <1>2, <1>4 DEF RequestsInv

LEMMA StepRequests == ASSUME RequestsInv, [RequestsNext]_requestVars PROVE RequestsInv'
<1>1. CASE \E r \in Asked : Request(r)
    BY <1>1, OneRequest
<1>2. CASE Restart
  <2>1. task' = NewTask /\ asked' = NoOpt
    BY <1>2 DEF Restart
  <2> QED BY <2>1, NewTaskFields DEF RequestsInv
<1>3. CASE UNCHANGED requestVars
    BY <1>3 DEF requestVars, RequestsInv
<1> QED BY <1>1, <1>2, <1>3 DEF RequestsNext, Show, List, AskSelected, Asked

\* What MCServe does with a task that answers queries is what Requests says.
LEMMA ServesRequests == MCSpec => RequestsSpec
<1>1. MCInit => RequestsInit
    BY DEF MCInit
<1>2. [MCNext]_serveVars => [RequestsNext]_requestVars
    BY DEF MCNext, RequestsNext, OfCache, OfStrings, OfInsts, OfRequests, serveVars
<1> QED BY <1>1, <1>2, PTL DEF MCSpec, RequestsSpec

\* knd_task_reset, parse_select_by_baseclass, export_conc_elem_GSL: the same
\* request asked twice has the same answer.
THEOREM AskedAgain == MCSpec => AskedTwiceSame
<1>1. RequestsInv /\ [RequestsNext]_requestVars => [asked' = asked /\ asked # NoOpt => answer' = answer]_requestVars
  <2> SUFFICES ASSUME RequestsInv, RequestsNext, asked' = asked, asked # NoOpt PROVE answer' = answer
    OBVIOUS
  <2>1. PICK r \in Asked : Request(r)
    BY DEF RequestsNext, Restart, Show, List, AskSelected, Asked
  <2>2. r = asked /\ answer' = ClassSelect(task, r).answer
    BY <2>1 DEF Request, Reset
  <2> QED BY <2>2 DEF RequestsInv
<1> QED BY <1>1, InitRequests, StepRequests, ServesRequests, PTL DEF RequestsSpec, AskedTwiceSame
=============================================================================
