------------------------------ MODULE PathSet ------------------------------
(***************************************************************************)
(* What SharedSet promises about its idx nodes: between the nodes of the   *)
(* code and the map of ids (IdMap) stands a set in which a node is no more *)
(* than the digits that lead to it, the root <<>>.  A node that is there   *)
(* stays, and so does the element in a slot; a task on its way down is in  *)
(* the one node that its digits lead to.  SharedSet shows that the nodes   *)
(* tasks build, link and lose with compare and exchange behave like that.  *)
(***************************************************************************)
EXTENDS SetIds

VARIABLES
    dirs,     \* the idx nodes that are linked
    elems,    \* elems[i]: the element in the slot of id i
    numElems, \* self->num_elems (num_valid_elems is counted with it)
    pages,    \* pages left in the pool
    req,      \* req[t]: the call of task t
    pc,       \* pc[t]: where it is
    depth,    \* depth[t]: digits of the id consumed so far
    todo,     \* todo[t]: the slots a walk has still to look at, in order
    seen,     \* seen[t]: the ids a walk has handed to its callback
    old,      \* old[t]: the ids that had an element when the walk began
    ans,      \* ans[t]: the result, from the step that settles it
    calls     \* calls made so far

setVars == <<dirs, elems, numElems, pages>>
walk == <<todo, seen, old>>
vars == <<setVars, req, pc, depth, walk, ans, calls>>

Set == INSTANCE IdMap WITH map <- elems, call <- req, answer <- ans

Init == /\ dirs = {<<>>}
        /\ elems = [i \in Ids |-> NoElem]
        /\ numElems = 0
        /\ pages = NumPages
        /\ req = [t \in Tasks |-> Set!Idle]
        /\ pc = [t \in Tasks |-> "idle"]
        /\ depth = [t \in Tasks |-> 0]
        /\ todo = [t \in Tasks |-> <<>>]
        /\ seen = [t \in Tasks |-> <<>>]
        /\ old = [t \in Tasks |-> {}]
        /\ ans = [t \in Tasks |-> Set!Pending]
        /\ calls = 0

Goto(t, l) == pc' = [pc EXCEPT ![t] = l]
Settle(t, a) == ans' = [ans EXCEPT ![t] = a]

\* The node that holds the next slot of t's id, and the node in that slot.
Node(t) == SubSeq(req[t].id, 1, depth[t])
Child(t) == SubSeq(req[t].id, 1, depth[t] + 1)
AtLast(t) == depth[t] + 1 = Len(req[t].id)

---------------------------------------------------------------------------
(* Calls *)

\* A walk starts with the root.
Ask(t, c) ==
    /\ req[t] = Set!Idle
    /\ calls < MaxCalls
    /\ calls' = calls + 1
    /\ req' = [req EXCEPT ![t] = c]
    /\ depth' = [depth EXCEPT ![t] = 0]
    /\ seen' = [seen EXCEPT ![t] = <<>>]
    /\ todo' = [todo EXCEPT ![t] = IF c.op = "map" THEN SlotsOf(<<>>) ELSE <<>>]
    /\ old' = [old EXCEPT ![t] = IF c.op = "map" THEN {i \in Ids : elems[i] # NoElem} ELSE {}]
    /\ Goto(t, c.op)
    /\ UNCHANGED <<setVars, ans>>

Return(t) ==
    /\ pc[t] = "done"
    /\ req' = [req EXCEPT ![t] = Set!Idle]
    /\ Settle(t, Set!Pending)
    /\ Goto(t, "idle")
    /\ UNCHANGED <<setVars, depth, walk, calls>>

---------------------------------------------------------------------------
(* save_elem: the way down *)

\* The sub-node is there: go on with the next digit.
Descend(t) ==
    /\ pc[t] = "add"
    /\ ~AtLast(t)
    /\ Child(t) \in dirs
    /\ depth' = [depth EXCEPT ![t] = @ + 1]
    /\ UNCHANGED <<setVars, req, pc, walk, ans, calls>>

\* It is not: knd_shared_set_elem_idx_new takes a page for it.
NewIdx(t) ==
    /\ pc[t] = "add"
    /\ ~AtLast(t)
    /\ Child(t) \notin dirs
    /\ pages > 0
    /\ pages' = pages - 1
    /\ Goto(t, "link")
    /\ UNCHANGED <<dirs, elems, numElems, req, depth, walk, ans, calls>>

NoMem(t) ==
    /\ pc[t] = "add"
    /\ ~AtLast(t)
    /\ Child(t) \notin dirs
    /\ pages = 0
    /\ Settle(t, Set!Done("nomem"))
    /\ Goto(t, "done")
    /\ UNCHANGED <<setVars, req, depth, walk, calls>>

\* The exchange succeeds if the slot is still NULL.
Link(t) ==
    /\ pc[t] = "link"
    /\ Child(t) \notin dirs
    /\ dirs' = dirs \cup {Child(t)}
    /\ depth' = [depth EXCEPT ![t] = @ + 1]
    /\ Goto(t, "add")
    /\ UNCHANGED <<elems, numElems, pages, req, walk, ans, calls>>

\* Another task was first: its node is loaded and used, the page is not given back.
LinkLost(t) ==
    /\ pc[t] = "link"
    /\ Child(t) \in dirs
    /\ Goto(t, "add")
    /\ UNCHANGED <<setVars, req, depth, walk, ans, calls>>

---------------------------------------------------------------------------
(* save_elem: the element *)

LoadFree(t) ==
    /\ pc[t] = "add"
    /\ AtLast(t)
    /\ elems[req[t].id] = NoElem
    /\ Goto(t, "store")
    /\ UNCHANGED <<setVars, req, depth, walk, ans, calls>>

Conflict(t) ==
    /\ pc[t] = "add"
    /\ AtLast(t)
    /\ elems[req[t].id] # NoElem
    /\ Settle(t, Set!Done("conflict"))
    /\ Goto(t, "done")
    /\ UNCHANGED <<setVars, req, depth, walk, calls>>

Unchanged(t) == elems[req[t].id] = NoElem

Store(t) ==
    /\ pc[t] = "store"
    /\ Unchanged(t)
    /\ elems' = [elems EXCEPT ![req[t].id] = req[t].elem]
    /\ Settle(t, Set!Done("ok"))
    /\ Goto(t, "count")
    /\ UNCHANGED <<dirs, numElems, pages, req, depth, walk, calls>>

StoreLost(t) ==
    /\ pc[t] = "store"
    /\ ~Unchanged(t)
    /\ Goto(t, "add")
    /\ UNCHANGED <<setVars, req, depth, walk, ans, calls>>

Count(t) ==
    /\ pc[t] = "count"
    /\ numElems' = numElems + 1
    /\ Goto(t, "done")
    /\ UNCHANGED <<dirs, elems, pages, req, depth, walk, ans, calls>>

---------------------------------------------------------------------------
(* get_elem *)

GetDown(t) ==
    /\ pc[t] = "get"
    /\ ~AtLast(t)
    /\ Child(t) \in dirs
    /\ depth' = [depth EXCEPT ![t] = @ + 1]
    /\ UNCHANGED <<setVars, req, pc, walk, ans, calls>>

GetNoIdx(t) ==
    /\ pc[t] = "get"
    /\ ~AtLast(t)
    /\ Child(t) \notin dirs
    /\ Settle(t, Set!Done("absent"))
    /\ Goto(t, "done")
    /\ UNCHANGED <<setVars, req, depth, walk, calls>>

GetElem(t) ==
    /\ pc[t] = "get"
    /\ AtLast(t)
    /\ Settle(t, IF elems[req[t].id] = NoElem THEN Set!Done("absent")
                                             ELSE Set!Found(elems[req[t].id]))
    /\ Goto(t, "done")
    /\ UNCHANGED <<setVars, req, depth, walk, calls>>

---------------------------------------------------------------------------
(* traverse_idx: the slots one after the other, each read once *)

Holds(id) == id \in Ids /\ elems[id] # NoElem

MapElem(t) ==
    /\ pc[t] = "map"
    /\ todo[t] # <<>>
    /\ Head(todo[t]).kind = "elem"
    /\ seen' = [seen EXCEPT ![t] = IF Holds(Head(todo[t]).at)
                                   THEN Append(@, Head(todo[t]).at) ELSE @]
    /\ todo' = [todo EXCEPT ![t] = Tail(@)]
    /\ UNCHANGED <<setVars, req, pc, depth, old, ans, calls>>

MapDir(t) ==
    /\ pc[t] = "map"
    /\ todo[t] # <<>>
    /\ Head(todo[t]).kind = "dir"
    /\ todo' = [todo EXCEPT ![t] =
                    (IF Head(@).at \in dirs THEN SlotsOf(Head(@).at) ELSE <<>>) \o Tail(@)]
    /\ UNCHANGED <<setVars, req, pc, depth, seen, old, ans, calls>>

MapEnd(t) ==
    /\ pc[t] = "map"
    /\ todo[t] = <<>>
    /\ Settle(t, Set!Done("ok"))
    /\ Goto(t, "done")
    /\ UNCHANGED <<setVars, req, depth, walk, calls>>

---------------------------------------------------------------------------
Step(t) == \/ Descend(t) \/ NewIdx(t) \/ NoMem(t) \/ Link(t) \/ LinkLost(t)
           \/ LoadFree(t) \/ Conflict(t) \/ Store(t) \/ StoreLost(t) \/ Count(t)
           \/ GetDown(t) \/ GetNoIdx(t) \/ GetElem(t)
           \/ MapElem(t) \/ MapDir(t) \/ MapEnd(t) \/ Return(t)

Requests == Set!Calls \ {Set!Idle}

Next == \E t \in Tasks : Step(t) \/ \E c \in Requests : Ask(t, c)

Spec == Init /\ [][Next]_vars

---------------------------------------------------------------------------
(* Properties *)

\* Nodes, counters and positions are of their types.
TypeOK ==
    /\ dirs \subseteq Nodes
    /\ elems \in [Ids -> Elems \cup {NoElem}]
    /\ numElems \in Nat
    /\ pages \in 0..NumPages
    /\ req \in [Tasks -> Set!Calls]
    /\ pc \in [Tasks -> {"idle", "add", "link", "store", "count", "get", "map", "done"}]
    /\ depth \in [Tasks -> Nat]
    /\ calls \in 0..MaxCalls

\* num_elems, from which a restore takes num_strs and a snapshot the number of
\* instances, is the number of elements except for adds between their exchange
\* and their counting.
NumElemsExact ==
    numElems + Cardinality({t \in Tasks : pc[t] = "count"})
        = Cardinality({i \in Ids : elems[i] # NoElem})

\* knd_shared_set_add and _get are one step each for their callers.
ImplementsIdMap == Set!Spec

\* The order of the trie: the elements of a node come before its sub-nodes.
Before(i, j) ==
    \E k \in 1..Len(i) :
        /\ k <= Len(j)
        /\ SubSeq(i, 1, k - 1) = SubSeq(j, 1, k - 1)
        /\ \/ Len(i) = k /\ Len(j) > k
           \/ (Len(i) = k) = (Len(j) = k) /\ i[k] < j[k]

\* A walk (a snapshot file is written by one) runs while others add: it hands
\* over everything that was in the set when it began and nothing twice, in the
\* order of the trie, whatever is linked into nodes it has passed or not.
WalkMissesNothing == \A t \in Tasks :
    /\ \A m, n \in 1..Len(seen[t]) : m < n => Before(seen[t][m], seen[t][n])
    /\ pc[t] = "done" => old[t] \subseteq {seen[t][n] : n \in 1..Len(seen[t])}
=============================================================================
