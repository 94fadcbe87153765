----------------------------- MODULE SharedSet -----------------------------
(***************************************************************************)
(* The ordered set shared by all tasks (knd_shared_set.c): a trie of idx   *)
(* nodes over the base-62 digits of an id, with one element slot and one   *)
(* sub-idx slot per digit.  An add that finds a slot of the way down empty *)
(* builds a node of its own and puts it there with compare and exchange,   *)
(* as it does with its element in the end; gets and walks read without any *)
(* lock; nothing is ever taken out.                                        *)
(*                                                                         *)
(* No caller sets allow_overwrite, so it is FALSE here.                    *)
(* Operators whose name ends in _v are wrong variants of the definition    *)
(* that follows them; nothing uses them but the mutation tests.            *)
(***************************************************************************)
EXTENDS SetIds

Root == 1
NULL == 0
Idxs == 1..(NumPages + 1)   \* the nodes: the root, then the pages as they are taken

VARIABLES
    idxs,     \* idxs[n][d]: the node in the sub-idx slot d of node n, or NULL
    elems,    \* elems[n][d]: the element in slot d of node n
    made,     \* nodes made so far
    numElems, \* self->num_elems (num_valid_elems is counted with it)
    path,     \* history: the digits each node was made for
    req,      \* req[t]: the call of task t
    pc,       \* pc[t]: where it is
    idx,      \* idx[t]: parent_idx of save_elem and get_elem
    new,      \* new[t]: the node an add has made and not linked
    depth,    \* depth[t]: digits of the id consumed so far
    todo,     \* todo[t]: the slots a walk has still to look at, in order
    frames,   \* frames[t]: parent_idx of the calls of traverse_idx, by the digits
              \* that led there
    seen,     \* seen[t]: the ids a walk has handed to its callback
    old,      \* old[t]: the ids that had an element when the walk began
    ans,      \* ans[t]: the result, from the step that settles it
    calls     \* calls made so far

trie == <<idxs, elems, made, path>>
way == <<idx, new, depth>>
walk == <<todo, frames, seen, old>>
setVars == <<trie, numElems, req, pc, way, walk, ans, calls>>

Above(id) == SubSeq(id, 1, Len(id) - 1)
Digit(id) == id[Len(id)]

\* The nodes that are linked, and what the set holds for those who start at the root.
Linked == {Root} \cup ({idxs[n][d] : n \in Idxs, d \in Digits} \ {NULL})
Dirs == {path[n] : n \in Linked}
Held ==
    LET linked == Linked
    IN  [i \in Ids |-> LET above == {n \in linked : path[n] = Above(i)}
                       IN  IF above = {} THEN NoElem
                           ELSE elems[CHOOSE n \in above : TRUE][Digit(i)]]

Path == INSTANCE PathSet WITH dirs <- Dirs, elems <- Held, pages <- NumPages + 1 - made
Set == INSTANCE IdMap WITH map <- Held, call <- req, answer <- ans

\* knd_shared_set_new
Init == /\ idxs = [n \in Idxs |-> [d \in Digits |-> NULL]]
        /\ elems = [n \in Idxs |-> [d \in Digits |-> NoElem]]
        /\ made = 1
        /\ path = [n \in Idxs |-> <<>>]
        /\ numElems = 0
        /\ req = [t \in Tasks |-> Set!Idle]
        /\ pc = [t \in Tasks |-> "idle"]
        /\ idx = [t \in Tasks |-> Root]
        /\ new = [t \in Tasks |-> NULL]
        /\ depth = [t \in Tasks |-> 0]
        /\ todo = [t \in Tasks |-> <<>>]
        /\ frames = [t \in Tasks |-> [p \in {<<>>} |-> Root]]
        /\ seen = [t \in Tasks |-> <<>>]
        /\ old = [t \in Tasks |-> {}]
        /\ ans = [t \in Tasks |-> Set!Pending]
        /\ calls = 0

Goto(t, l) == pc' = [pc EXCEPT ![t] = l]
Settle(t, a) == ans' = [ans EXCEPT ![t] = a]

\* The digit t is at, and what the two slots of it have.
Pos(t) == req[t].id[depth[t] + 1]
Sub(t) == idxs[idx[t]][Pos(t)]
Elem(t) == elems[idx[t]][Pos(t)]
AtLast(t) == depth[t] + 1 = Len(req[t].id)

\* The recursive call, with the next digit.
Into(t, n) == /\ idx' = [idx EXCEPT ![t] = n]
              /\ depth' = [depth EXCEPT ![t] = @ + 1]

---------------------------------------------------------------------------
(* Calls *)

Ask(t, c) ==
    /\ req[t] = Set!Idle
    /\ calls < MaxCalls
    /\ calls' = calls + 1
    /\ req' = [req EXCEPT ![t] = c]
    /\ idx' = [idx EXCEPT ![t] = Root]
    /\ depth' = [depth EXCEPT ![t] = 0]
    /\ seen' = [seen EXCEPT ![t] = <<>>]
    /\ todo' = [todo EXCEPT ![t] = IF c.op = "map" THEN SlotsOf(<<>>) ELSE <<>>]
    /\ frames' = [frames EXCEPT ![t] = [p \in {<<>>} |-> Root]]
    /\ old' = [old EXCEPT ![t] = IF c.op = "map" THEN {i \in Ids : Held[i] # NoElem} ELSE {}]
    /\ Goto(t, c.op)
    /\ UNCHANGED <<trie, numElems, new, ans>>

Return(t) ==
    /\ pc[t] = "done"
    /\ req' = [req EXCEPT ![t] = Set!Idle]
    /\ Settle(t, Set!Pending)
    /\ Goto(t, "idle")
    /\ UNCHANGED <<trie, numElems, way, walk, calls>>

---------------------------------------------------------------------------
(* save_elem: the way down *)

\* The sub-node is there.
Descend(t) ==
    /\ pc[t] = "add"
    /\ ~AtLast(t)
    /\ Sub(t) # NULL
    /\ Into(t, Sub(t))
    /\ UNCHANGED <<trie, numElems, req, pc, new, walk, ans, calls>>

\* It is not: knd_shared_set_elem_idx_new takes a page for it and clears it.
NewIdx_v(t) ==
    /\ pc[t] = "add"
    /\ ~AtLast(t)
    /\ Sub(t) = NULL /\ made <= NumPages
    /\ made' = made
    /\ new' = [new EXCEPT ![t] = made + 1]
    /\ path' = [path EXCEPT ![made + 1] = SubSeq(req[t].id, 1, depth[t] + 1)]
    /\ Goto(t, "link")
    /\ UNCHANGED <<idxs, elems, numElems, req, idx, depth, walk, ans, calls>>

NewIdx(t) ==
    /\ pc[t] = "add"
    /\ ~AtLast(t)
    /\ Sub(t) = NULL /\ made <= NumPages
    /\ made' = made + 1
    /\ new' = [new EXCEPT ![t] = made + 1]
    /\ path' = [path EXCEPT ![made + 1] = SubSeq(req[t].id, 1, depth[t] + 1)]
    /\ Goto(t, "link")
    /\ UNCHANGED <<idxs, elems, numElems, req, idx, depth, walk, ans, calls>>

NoMem(t) ==
    /\ pc[t] = "add"
    /\ ~AtLast(t)
    /\ Sub(t) = NULL /\ made > NumPages
    /\ Settle(t, Set!Done("nomem"))
    /\ Goto(t, "done")
    /\ UNCHANGED <<trie, numElems, req, way, walk, calls>>

\* The exchange succeeds if the slot is still NULL.
StillEmpty_v(t) == TRUE
StillEmpty(t) == Sub(t) = NULL
Link(t) ==
    /\ pc[t] = "link"
    /\ StillEmpty(t)
    /\ idxs' = [idxs EXCEPT ![idx[t]][Pos(t)] = new[t]]
    /\ Into(t, new[t])
    /\ new' = [new EXCEPT ![t] = NULL]
    /\ Goto(t, "add")
    /\ UNCHANGED <<elems, made, path, numElems, req, walk, ans, calls>>

\* Another task was first: the slot is loaded again, and its own node, which is not
\* given back, forgotten.
LinkLost_v(t) ==
    /\ pc[t] = "link"
    /\ Sub(t) # NULL
    /\ UNCHANGED setVars

LinkLost_own_v(t) ==
    /\ pc[t] = "link"
    /\ Sub(t) # NULL
    /\ Into(t, new[t])
    /\ new' = [new EXCEPT ![t] = NULL]
    /\ Goto(t, "add")
    /\ UNCHANGED <<trie, numElems, req, walk, ans, calls>>

LinkLost(t) ==
    /\ pc[t] = "link"
    /\ Sub(t) # NULL
    /\ new' = [new EXCEPT ![t] = NULL]
    /\ Goto(t, "add")
    /\ UNCHANGED <<trie, numElems, req, idx, depth, walk, ans, calls>>

---------------------------------------------------------------------------
(* save_elem: the element *)

LoadFree(t) ==
    /\ pc[t] = "add"
    /\ AtLast(t)
    /\ Elem(t) = NoElem
    /\ Goto(t, "store")
    /\ UNCHANGED <<trie, numElems, req, way, walk, ans, calls>>

Conflict_v(t) ==
    /\ pc[t] = "add"
    /\ AtLast(t)
    /\ Elem(t) # NoElem
    /\ Settle(t, Set!Done("conflict"))
    /\ Goto(t, "count")
    /\ UNCHANGED <<trie, numElems, req, way, walk, calls>>

Conflict(t) ==
    /\ pc[t] = "add"
    /\ AtLast(t)
    /\ Elem(t) # NoElem
    /\ Settle(t, Set!Done("conflict"))
    /\ Goto(t, "done")
    /\ UNCHANGED <<trie, numElems, req, way, walk, calls>>

Unchanged_v(t) == TRUE
Unchanged(t) == Elem(t) = NoElem

Store(t) ==
    /\ pc[t] = "store"
    /\ Unchanged(t)
    /\ elems' = [elems EXCEPT ![idx[t]][Pos(t)] = req[t].elem]
    /\ Settle(t, Set!Done("ok"))
    /\ Goto(t, "count")
    /\ UNCHANGED <<idxs, made, path, numElems, req, way, walk, calls>>

StoreLost(t) ==
    /\ pc[t] = "store"
    /\ ~Unchanged(t)
    /\ Goto(t, "add")
    /\ UNCHANGED <<trie, numElems, req, way, walk, ans, calls>>

Count(t) ==
    /\ pc[t] = "count"
    /\ numElems' = numElems + 1
    /\ Goto(t, "done")
    /\ UNCHANGED <<trie, req, way, walk, ans, calls>>

---------------------------------------------------------------------------
(* get_elem *)

GetDown(t) ==
    /\ pc[t] = "get"
    /\ ~AtLast(t)
    /\ Sub(t) # NULL
    /\ Into(t, Sub(t))
    /\ UNCHANGED <<trie, numElems, req, pc, new, walk, ans, calls>>

GetNoIdx(t) ==
    /\ pc[t] = "get"
    /\ ~AtLast(t)
    /\ Sub(t) = NULL
    /\ Settle(t, Set!Done("absent"))
    /\ Goto(t, "done")
    /\ UNCHANGED <<trie, numElems, req, way, walk, calls>>

GetElem(t) ==
    /\ pc[t] = "get"
    /\ AtLast(t)
    /\ Settle(t, IF Elem(t) = NoElem THEN Set!Done("absent") ELSE Set!Found(Elem(t)))
    /\ Goto(t, "done")
    /\ UNCHANGED <<trie, numElems, req, way, walk, calls>>

---------------------------------------------------------------------------
(* traverse_idx: the slots one after the other, each read once *)

NextSlot(t) == Head(todo[t])
Frame(t) == frames[t][Above(NextSlot(t).at)]

MapElem(t) ==
    /\ pc[t] = "map"
    /\ todo[t] # <<>>
    /\ NextSlot(t).kind = "elem"
    /\ seen' = [seen EXCEPT ![t] = IF elems[Frame(t)][Digit(NextSlot(t).at)] # NoElem
                                   THEN Append(@, NextSlot(t).at) ELSE @]
    /\ todo' = [todo EXCEPT ![t] = Tail(@)]
    /\ UNCHANGED <<trie, numElems, req, pc, way, frames, old, ans, calls>>

MapDir(t) ==
    LET p == NextSlot(t).at  n == idxs[Frame(t)][Digit(p)]
    IN  /\ pc[t] = "map"
        /\ todo[t] # <<>>
        /\ NextSlot(t).kind = "dir"
        /\ n # NULL
        /\ todo' = [todo EXCEPT ![t] = SlotsOf(p) \o Tail(@)]
        /\ frames' = [frames EXCEPT ![t] = [q \in DOMAIN @ \cup {p} |-> IF q = p THEN n ELSE @[q]]]
        /\ UNCHANGED <<trie, numElems, req, pc, way, seen, old, ans, calls>>

MapNoDir(t) ==
    /\ pc[t] = "map"
    /\ todo[t] # <<>>
    /\ NextSlot(t).kind = "dir"
    /\ idxs[Frame(t)][Digit(NextSlot(t).at)] = NULL
    /\ todo' = [todo EXCEPT ![t] = Tail(@)]
    /\ UNCHANGED <<trie, numElems, req, pc, way, frames, seen, old, ans, calls>>

MapEnd(t) ==
    /\ pc[t] = "map"
    /\ todo[t] = <<>>
    /\ Settle(t, Set!Done("ok"))
    /\ Goto(t, "done")
    /\ UNCHANGED <<trie, numElems, req, way, walk, calls>>

---------------------------------------------------------------------------
Step(t) == \/ Descend(t) \/ NewIdx(t) \/ NoMem(t) \/ Link(t) \/ LinkLost(t)
           \/ LoadFree(t) \/ Conflict(t) \/ Store(t) \/ StoreLost(t) \/ Count(t)
           \/ GetDown(t) \/ GetNoIdx(t) \/ GetElem(t)
           \/ MapElem(t) \/ MapDir(t) \/ MapNoDir(t) \/ MapEnd(t) \/ Return(t)

Requests == Set!Calls \ {Set!Idle}

Next == \E t \in Tasks : Step(t) \/ \E c \in Requests : Ask(t, c)

Spec == Init /\ [][Next]_setVars

---------------------------------------------------------------------------
(* Properties *)

\* No node that is linked is ever replaced, and no task goes on in one that is not:
\* the nodes may be taken for the digits that lead to them (save_elem's first loop).
ImplementsPathSet == Path!Spec

\* knd_shared_set_add and _get are one step each for their callers.
ImplementsIdMap == Set!Spec

\* num_elems, from which a restore takes num_strs and a snapshot the number of
\* instances, is the number of elements except for adds between their exchange
\* and their counting.
NumElemsExact == Path!NumElemsExact

\* A walk (a snapshot file is written by one) runs while others add: it hands
\* over everything that was in the set when it began and nothing twice, in the
\* order of the trie, whatever is linked into nodes it has passed or not.
WalkMissesNothing == Path!WalkMissesNothing
=============================================================================
