----------------------------- MODULE SharedDict -----------------------------
(***************************************************************************)
(* The lock-free name dictionary of src/knd_shared_dict.c, used by         *)
(* several threads at once: the names of classes, procs and instances are  *)
(* registered in one.                                                      *)
(*                                                                         *)
(* A bucket is a linked list that only grows at its head and whose items   *)
(* are never unlinked, so it is modelled as the sequence of its items in   *)
(* the order they were pushed, and a pointer into it as the number of      *)
(* items reachable from it.  The head pointer is the length of the         *)
(* sequence: a compare-and-swap on it succeeds exactly when the length is  *)
(* still the one that was read (no item is ever freed and reused).  The    *)
(* key and the link of a published item never change, so a walk down the   *)
(* list is one step; its phase does change, and reading it is a step of    *)
(* its own.                                                                *)
(*                                                                         *)
(* Operators whose name ends in _v are wrong variants of the definition    *)
(* that follows them; nothing uses them but the mutation tests.            *)
(***************************************************************************)
EXTENDS Naturals, Sequences, FiniteSets

CONSTANTS
    Threads,         \* the tasks that share the dictionary
    Keys,            \* the names they use
    Values,          \* what a name is bound to (class entries, ...)
    Buckets,         \* the cells of hash_array
    Hash,            \* Hash[k]: the bucket of key k
    CommitModes,     \* the values of "commit != NULL" its callers pass to set
    OverwriteModes,  \* the values of allow_overwrite its callers pass to set
    Promotes,        \* do callers set item->phase to VALID after the set?
    Removes,         \* do callers remove names?
    NumPages         \* tiny pages of the mempool given to set

None == "none"       \* NULL: no value, no argument


ASSUME SetAssumption == /\ None \notin Values \cup Keys
                        /\ Hash \in [Keys -> Buckets]
                        /\ CommitModes \subseteq BOOLEAN
                        /\ OverwriteModes \subseteq BOOLEAN
                        /\ Promotes \in BOOLEAN
                        /\ Removes \in BOOLEAN
                        /\ NumPages \in Nat

VARIABLES
    chain,      \* chain[b]: the items of bucket b, oldest first
    numItems,   \* self->num_items
    pages,      \* tiny pages left in the mempool
    pc,         \* where each thread is in its call
    key,        \* the key argument
    val,        \* set: the data argument
    commit,     \* set: is a commit given?
    overwrite,  \* set: allow_overwrite
    orig,       \* set: orig_head; get and remove: the head they loaded
    head,       \* set: the head the compare-and-swap expects
    item,       \* set: *result
    ret         \* the answer of the last call, with the operation

shared == <<chain, numItems, pages>>
args   == <<key, val, commit, overwrite>>
ptrs   == <<orig, head, item>>
vars   == <<chain, numItems, pages, pc, key, val, commit, overwrite,
            orig, head, item, ret>>

Phases == {"VALID", "PENDING", "REMOVED"}
Items == [key : Keys, data : Values, phase : Phases]
SetPCs == {"check", "alloc", "load", "cas", "count", "promote"}
PCs == SetPCs \cup {"idle", "read", "mark"}
Answers == ({"set"} \X {"OK", "CONFLICT", "NOMEM"})
             \cup ({"remove"} \X {"OK", "FAIL"})
             \cup ({"get"} \X (Values \cup {None}))
             \cup {<<"new", "OK">>}

Bucket(t) == chain[Hash[key[t]]]

\* Item i is the first one with key k met when walking from pointer n.
Newest(c, n, k, i) == /\ i \in 1..n
                      /\ c[i].key = k
                      /\ \A j \in (i + 1)..n : c[j].key # k

\* No item with key k is met when walking from n before reaching m.
NoneBetween(c, m, n, k) == \A i \in (m + 1)..n : c[i].key # k

Init == /\ chain = [b \in Buckets |-> <<>>]
        /\ numItems = 0
        /\ pages = NumPages
        /\ pc = [t \in Threads |-> "idle"]
        /\ key = [t \in Threads |-> None]
        /\ val = [t \in Threads |-> None]
        /\ commit = [t \in Threads |-> FALSE]
        /\ overwrite = [t \in Threads |-> FALSE]
        /\ orig = [t \in Threads |-> 0]
        /\ head = [t \in Threads |-> 0]
        /\ item = [t \in Threads |-> 0]
        /\ ret = [t \in Threads |-> <<"new", "OK">>]

Goto(t, label) == pc' = [pc EXCEPT ![t] = label]

\* The call of thread t is over: its answer is r, its locals are gone.
Return(t, r) == /\ Goto(t, "idle")
                /\ ret' = [ret EXCEPT ![t] = r]
                /\ key' = [key EXCEPT ![t] = None]
                /\ val' = [val EXCEPT ![t] = None]
                /\ commit' = [commit EXCEPT ![t] = FALSE]
                /\ overwrite' = [overwrite EXCEPT ![t] = FALSE]
                /\ orig' = [orig EXCEPT ![t] = 0]
                /\ head' = [head EXCEPT ![t] = 0]
                /\ item' = [item EXCEPT ![t] = 0]

---------------------------------------------------------------------------
(* knd_shared_dict_set *)

\* Enter set and load orig_head.
SetCall(t, k, v, c, w) ==
    /\ pc[t] = "idle"
    /\ key' = [key EXCEPT ![t] = k]
    /\ val' = [val EXCEPT ![t] = v]
    /\ commit' = [commit EXCEPT ![t] = c]
    /\ overwrite' = [overwrite EXCEPT ![t] = w]
    /\ orig' = [orig EXCEPT ![t] = Len(chain[Hash[k]])]
    /\ Goto(t, "check")
    /\ UNCHANGED <<shared, head, item, ret>>

\* The first item with the key, walking from orig_head, is valid.
FoundValid_v(t) == FALSE
FoundValid(t) == \E i \in 1..orig[t] : /\ Newest(Bucket(t), orig[t], key[t], i)
                                       /\ Bucket(t)[i].phase = "VALID"

SetConflict(t) ==
    /\ pc[t] = "check"
    /\ ~overwrite[t] /\ FoundValid(t)
    /\ Return(t, <<"set", "CONFLICT">>)
    /\ UNCHANGED shared

SetPass(t) ==
    /\ pc[t] = "check"
    /\ overwrite[t] \/ ~FoundValid(t)
    /\ Goto(t, "alloc")
    /\ UNCHANGED <<shared, args, ptrs, ret>>

\* One tiny page for the item and, with a commit, one more for its state.
PagesNeeded(t) == IF commit[t] THEN 2 ELSE 1

SetAlloc(t) ==
    /\ pc[t] = "alloc"
    /\ pages >= PagesNeeded(t)
    /\ pages' = pages - PagesNeeded(t)
    /\ Goto(t, "load")
    /\ UNCHANGED <<chain, numItems, args, ptrs, ret>>

\* The item page is not given back when the state page cannot be had.
SetNoMem(t) ==
    /\ pc[t] = "alloc"
    /\ pages < PagesNeeded(t)
    /\ pages' = 0
    /\ Return(t, <<"set", "NOMEM">>)
    /\ UNCHANGED <<chain, numItems>>

\* The walk over the items pushed since orig_head finds no conflict.
RecheckClean_v(t) == TRUE
RecheckClean(t) == NoneBetween(Bucket(t), orig[t], Len(Bucket(t)), key[t])

\* The new item is dropped; its page is not given back.
RecheckConflict(t) ==
    /\ pc[t] = "load"
    /\ ~RecheckClean(t)
    /\ Return(t, <<"set", "CONFLICT">>)
    /\ UNCHANGED shared

\* The head is loaded again in every round of the loop.
LoadedHead(t) == Len(Bucket(t))

RecheckPass(t) ==
    /\ pc[t] = "load"
    /\ RecheckClean(t)
    /\ head' = [head EXCEPT ![t] = LoadedHead(t)]
    /\ Goto(t, "cas")
    /\ UNCHANGED <<shared, args, orig, item, ret>>

NewItem_v(t) == [key |-> key[t], data |-> None, phase |-> "VALID"]
NewItem(t) == [key |-> key[t], data |-> val[t],
               phase |-> IF commit[t] THEN "PENDING" ELSE "VALID"]

\* The compare-and-swap succeeds only on the head that was loaded.
HeadUnchanged_v(t) == head[t] <= Len(Bucket(t))
HeadUnchanged(t) == head[t] = Len(Bucket(t))

Push(t) ==
    /\ pc[t] = "cas"
    /\ HeadUnchanged(t)
    /\ chain' = [chain EXCEPT ![Hash[key[t]]] = Append(@, NewItem(t))]
    /\ item' = [item EXCEPT ![t] = Len(Bucket(t)) + 1]
    /\ Goto(t, "count")
    /\ UNCHANGED <<numItems, pages, args, orig, head, ret>>

PushRetry_stale_v(t) ==
    /\ pc[t] = "cas"
    /\ Goto(t, "cas")
    /\ UNCHANGED <<shared, args, ptrs, ret>>

\* The head has moved, or the weak compare-and-swap failed spuriously.
PushRetry(t) ==
    /\ pc[t] = "cas"
    /\ Goto(t, "load")
    /\ UNCHANGED <<shared, args, ptrs, ret>>

Count(t) ==
    /\ pc[t] = "count"
    /\ numItems' = numItems + 1
    /\ IF Promotes /\ commit[t]
       THEN /\ Goto(t, "promote")
            /\ UNCHANGED <<args, ptrs, ret>>
       ELSE Return(t, <<"set", "OK">>)
    /\ UNCHANGED <<chain, pages>>

\* knd_class_inst_update_indices: item->phase = KND_SHARED_DICT_VALID.
Promote(t) ==
    /\ pc[t] = "promote"
    /\ chain' = [chain EXCEPT ![Hash[key[t]]][item[t]].phase = "VALID"]
    /\ Return(t, <<"set", "OK">>)
    /\ UNCHANGED <<numItems, pages>>

---------------------------------------------------------------------------
(* knd_shared_dict_get and knd_shared_dict_remove *)

\* Enter get or remove and load the head.
WalkCall(t, k, label) ==
    /\ pc[t] = "idle"
    /\ key' = [key EXCEPT ![t] = k]
    /\ orig' = [orig EXCEPT ![t] = Len(chain[Hash[k]])]
    /\ Goto(t, label)
    /\ UNCHANGED <<shared, val, commit, overwrite, head, item, ret>>

\* What get answers from item x: a pending item is answered like a valid one.
Shown(x) == IF x.phase = "REMOVED" THEN None ELSE x.data

GetAnswer_removed_v(x) == x.data
GetAnswer(x) == Shown(x)

GetFound(t) ==
    /\ pc[t] = "read"
    /\ \E i \in 1..orig[t] : /\ Newest(Bucket(t), orig[t], key[t], i)
                             /\ Return(t, <<"get", GetAnswer(Bucket(t)[i])>>)
    /\ UNCHANGED shared

GetAbsent(t) ==
    /\ pc[t] = "read"
    /\ NoneBetween(Bucket(t), 0, orig[t], key[t])
    /\ Return(t, <<"get", None>>)
    /\ UNCHANGED shared

\* The phase remove leaves: a plain store, whatever the phase is by now.
MarkOf_v(x) == "PENDING"
MarkOf(x) == "REMOVED"

RemoveMark(t) ==
    /\ pc[t] = "mark"
    /\ \E i \in 1..orig[t] :
          /\ Newest(Bucket(t), orig[t], key[t], i)
          /\ chain' = [chain EXCEPT ![Hash[key[t]]][i].phase = MarkOf(Bucket(t)[i])]
    /\ Return(t, <<"remove", "OK">>)
    /\ UNCHANGED <<numItems, pages>>

RemoveFail(t) ==
    /\ pc[t] = "mark"
    /\ NoneBetween(Bucket(t), 0, orig[t], key[t])
    /\ Return(t, <<"remove", "FAIL">>)
    /\ UNCHANGED shared

---------------------------------------------------------------------------

Call(t) == \E k \in Keys :
             \/ \E v \in Values, c \in CommitModes, w \in OverwriteModes :
                   SetCall(t, k, v, c, w)
             \/ WalkCall(t, k, "read")
             \/ Removes /\ WalkCall(t, k, "mark")

SetStep(t) == \/ SetConflict(t)     \/ SetPass(t)
              \/ SetAlloc(t)        \/ SetNoMem(t)
              \/ RecheckConflict(t) \/ RecheckPass(t)
              \/ Push(t)            \/ PushRetry(t)
              \/ Count(t)           \/ Promote(t)

WalkStep(t) == \/ GetFound(t)       \/ GetAbsent(t)
               \/ RemoveMark(t)     \/ RemoveFail(t)

Next == \E t \in Threads : Call(t) \/ SetStep(t) \/ WalkStep(t)

Spec == Init /\ [][Next]_vars

(***************************************************************************)
(* A running thread is scheduled again and again (weak fairness of its     *)
(* steps), and a weak compare-and-swap that can succeed infinitely often   *)
(* does not fail for ever (strong fairness of Push).  Nothing makes a      *)
(* thread start a call.                                                    *)
(***************************************************************************)
Fairness == \A t \in Threads : /\ WF_vars(SetStep(t))
                               /\ WF_vars(WalkStep(t))
                               /\ SF_vars(Push(t))

FairSpec == Spec /\ Fairness

---------------------------------------------------------------------------

TypeOK == /\ chain \in [Buckets -> Seq(Items)]
          /\ numItems \in Nat
          /\ pages \in 0..NumPages
          /\ pc \in [Threads -> PCs]
          /\ key \in [Threads -> Keys \cup {None}]
          /\ \A t \in Threads : pc[t] # "idle" => key[t] \in Keys
          /\ val \in [Threads -> Values \cup {None}]
          /\ \A t \in Threads : pc[t] \in SetPCs => val[t] \in Values
          /\ commit \in [Threads -> BOOLEAN]
          /\ overwrite \in [Threads -> BOOLEAN]
          /\ orig \in [Threads -> Nat]
          /\ head \in [Threads -> Nat]
          /\ item \in [Threads -> Nat]
          /\ ret \in [Threads -> Answers]

\* Of a name that nobody promotes (names of classes, procs and strings; not
\* names of instances), a valid item is never hidden by a newer item, so the
\* name has at most one valid item however many sets, gets and removes overlap.
\* This is what the two checks of knd_shared_dict_set are for, the one before
\* and the one inside its compare-and-swap loop.
ValidIsNewest ==
    \A b \in Buckets : \A i, j \in DOMAIN chain[b] :
       (chain[b][i].phase = "VALID" /\ i < j) => chain[b][j].key # chain[b][i].key

\* What get answers for k when it runs alone on the lists ch.
Visible(ch, k) ==
    LET c == ch[Hash[k]]
        Last(i) == Newest(c, Len(c), k, i)
    IN  IF \E i \in DOMAIN c : Last(i)
        THEN Shown(c[CHOOSE i \in DOMAIN c : Last(i)])
        ELSE None

\* The names as the abstract dictionary NameMap holds them.
Names == INSTANCE NameMap WITH Free <- None,
                               bound <- [k \in Keys |-> Visible(chain, k)]

\* Where no set is given a commit, the dictionary implements NameMap: each step
\* of the lists binds a free name, unbinds a name or changes no name at all.
ImplementsNameMap == Names!Spec

\* Every call that was started returns, although a set may lose the race for
\* the head again and again.
CallsReturn == \A t \in Threads : pc[t] # "idle" ~> pc[t] = "idle"
=============================================================================
