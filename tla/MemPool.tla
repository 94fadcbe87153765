------------------------------ MODULE MemPool ------------------------------
(***************************************************************************)
(* The KND_ALLOC_SHARED page pool of src/knd_mempool.c: several tasks      *)
(* take pages from one linked list without a lock.  The five page sizes    *)
(* have each their own list and counter, treated alike; this is one of     *)
(* them.  Pages are never given back (knd_mempool_free has no live caller, *)
(* and works on the list of the unshared pools).                           *)
(*                                                                         *)
(* The link of a free page is its first word.  Who gets the page writes    *)
(* over it, also while another task is about to read it as a link.         *)
(*                                                                         *)
(* Operators whose name ends in _v are wrong variants of the definition    *)
(* that follows them; nothing uses them but the mutation tests.            *)
(***************************************************************************)
EXTENDS Naturals

CONSTANTS
    Tasks,
    NumPages    \* pages of this size

Nobody == "nobody"

\* What the module assumes of its constants.
PoolProper == NumPages \in Nat \ {0} /\ Nobody \notin Tasks

Pages == 1..NumPages
NULL == 0
Data == NumPages + 1    \* a first word that is no link any more

VARIABLES
    list,      \* shared_page_list
    next,      \* next[p]: the first word of page p
    used,      \* shared_pages_used
    owner,     \* owner[p]: the task that was given page p
    pc,
    page_list, \* the local page_list, and the result
    next_page  \* the local next_page

shared == <<list, next, used, owner>>
locals == <<page_list, next_page>>
vars   == <<shared, pc, locals>>

PCs == {"idle", "load", "read_next", "cas", "count"}

\* build_linked_list: each page points to the one after it.
Link_v(p) == IF p + 1 >= NumPages THEN NULL ELSE p + 1
Link(p) == IF p = NumPages THEN NULL ELSE p + 1

Init == /\ list = 1
        /\ next = [p \in Pages |-> Link(p)]
        /\ used = 0
        /\ owner = [p \in Pages |-> Nobody]
        /\ pc = [t \in Tasks |-> "idle"]
        /\ page_list = [t \in Tasks |-> NULL]
        /\ next_page = [t \in Tasks |-> NULL]

Goto(t, label) == pc' = [pc EXCEPT ![t] = label]

---------------------------------------------------------------------------
(* get_shared_page *)

Call(t) == /\ pc[t] = "idle"
           /\ Goto(t, "load")
           /\ UNCHANGED <<shared, locals>>

Load(t) == /\ pc[t] = "load"
           /\ list # NULL
           /\ page_list' = [page_list EXCEPT ![t] = list]
           /\ Goto(t, "read_next")
           /\ UNCHANGED <<shared, next_page>>

NoMem(t) == /\ pc[t] = "load"
            /\ list = NULL
            /\ Goto(t, "idle")
            /\ UNCHANGED <<shared, locals>>

\* The page may have been given to another task since it was loaded.
ReadNext(t) == /\ pc[t] = "read_next"
               /\ next_page' = [next_page EXCEPT ![t] = next[page_list[t]]]
               /\ Goto(t, "cas")
               /\ UNCHANGED <<shared, page_list>>

HeadUnchanged_v(t) == list # NULL
HeadUnchanged(t) == list = page_list[t]

Pop(t) == /\ pc[t] = "cas"
          /\ HeadUnchanged(t)
          /\ list' = next_page[t]
          /\ owner' = [owner EXCEPT ![page_list[t]] = t]
          /\ Goto(t, "count")
          /\ UNCHANGED <<next, used, locals>>

Retry_v(t) == /\ pc[t] = "cas"
              /\ Goto(t, "cas")
              /\ UNCHANGED <<shared, locals>>

Retry_count_v(t) == /\ pc[t] = "cas"
                    /\ used' = used + 1
                    /\ Goto(t, "load")
                    /\ page_list' = [page_list EXCEPT ![t] = NULL]
                    /\ next_page' = [next_page EXCEPT ![t] = NULL]
                    /\ UNCHANGED <<list, next, owner>>

\* The head has moved, or the weak compare-and-swap failed spuriously.
Retry(t) == /\ pc[t] = "cas"
            /\ Goto(t, "load")
            /\ page_list' = [page_list EXCEPT ![t] = NULL]
            /\ next_page' = [next_page EXCEPT ![t] = NULL]
            /\ UNCHANGED shared

Count(t) == /\ pc[t] = "count"
            /\ used' = used + 1
            /\ Goto(t, "idle")
            /\ page_list' = [page_list EXCEPT ![t] = NULL]
            /\ next_page' = [next_page EXCEPT ![t] = NULL]
            /\ UNCHANGED <<list, next, owner>>

\* The caller has its page: it clears it and writes its own data there.
Use(t) == \E p \in Pages :
            /\ owner[p] = t /\ page_list[t] # p
            /\ next' = [next EXCEPT ![p] = Data]
            /\ UNCHANGED <<list, used, owner, pc, locals>>

---------------------------------------------------------------------------

Step(t) == Load(t) \/ NoMem(t) \/ ReadNext(t) \/ Pop(t) \/ Retry(t) \/ Count(t)

Next == \E t \in Tasks : Call(t) \/ Step(t) \/ Use(t)

Spec == Init /\ [][Next]_vars

Free == {p \in Pages : owner[p] = Nobody}

TypeOK ==
    /\ list \in Pages \cup {NULL}
    /\ next \in [Pages -> 0..Data]
    /\ used \in 0..NumPages
    /\ owner \in [Pages -> Tasks \cup {Nobody}]
    /\ pc \in [Tasks -> PCs]
    /\ page_list \in [Tasks -> Pages \cup {NULL}]
    /\ \A t \in Tasks : (page_list[t] = NULL) <=> (pc[t] \in {"idle", "load"})
    /\ next_page \in [Tasks -> 0..Data]

\* knd_mempool.c:84-137.  The list holds the pages nobody has, each of them
\* once, whatever was read from pages that had changed hands meanwhile: no
\* page is lost, none is given twice, and the list never runs into data.
FreeListIntact ==
    /\ list \in Free \cup {NULL}
    /\ \A p \in Free : next[p] \in Free \cup {NULL}
    /\ \A p \in Free : p # list <=> \E q \in Free : next[q] = p
    /\ \A p, q \in Free : next[p] = next[q] => p = q

\* A page that was given to a task stays with it.
PageGivenOnce == [][\A p \in Pages : owner[p] # Nobody => owner'[p] = owner[p]]_vars

\* knd_NOMEM is answered only when every page is in use.
NoMemOnlyWhenFull ==
    [][\A t \in Tasks : pc[t] = "load" /\ pc'[t] = "idle" => Free = {}]_vars
=============================================================================
