------------------------------ MODULE MCShared ------------------------------
(***************************************************************************)
(* The two structures of nodes and pages that tasks share without a lock,  *)
(* checked in one run: the trie of ids (SharedSet) and the pages of the    *)
(* pool (MemPool).  Each behaviour is of one of them, the one `which'      *)
(* says; the variables of the other keep the value they start with.        *)
(***************************************************************************)
EXTENDS SharedSet

CONSTANTS s1, s2, s3, e1, PoolPages

\* An element and a sub-node in one digit, two ids that meet in a node, and a
\* node of its own: two pages are one short when a race has cost one.
MCIds == {<<1>>, <<1, 0>>, <<1, 1>>, <<0, 0>>}

VARIABLES which, list, next, used, owner, poolPc, page_list, next_page

Pool == INSTANCE MemPool WITH NumPages <- PoolPages, pc <- poolPc

\* The pool has pages; no task is the nobody that has the free ones.
ASSUME MCSharedAssumption == Pool!PoolProper

poolVars == <<list, next, used, owner, poolPc, page_list, next_page>>
mcVars == <<which, setVars, poolVars>>

MCInit == Init /\ Pool!Init /\ which \in {"set", "pool"}

OfSet == which = "set" /\ UNCHANGED <<which, poolVars>>
OfPool == which = "pool" /\ UNCHANGED <<which, setVars>>

MCNext ==
    \/ OfSet /\ \E t \in Tasks : Step(t)
    \/ OfSet /\ \E t \in Tasks : \E c \in Requests : Ask(t, c)
    \/ OfPool /\ \E t \in Tasks : Pool!Call(t)
    \/ OfPool /\ \E t \in Tasks : Pool!Step(t)
    \/ OfPool /\ \E t \in Tasks : Pool!Use(t)

\* One task is scheduled again and again, and a compare-and-swap of the pool's list
\* that can succeed again and again does not fail for ever.  The others may stop
\* anywhere.
TaskSteps(t) == (OfSet /\ Step(t)) \/ (OfPool /\ Pool!Step(t))
MCSpec == /\ MCInit /\ [][MCNext]_mcVars
          /\ WF_mcVars(TaskSteps(s1)) /\ SF_mcVars(OfPool /\ Pool!Pop(s1))

---------------------------------------------------------------------------
(* Properties: those of SharedSet, and of MemPool *)

\* Everything is of its type, and the counter of pages in use does not exceed them.
PagesCounted == Pool!TypeOK
\* The list holds the pages nobody has, each of them once.
FreeListIntact == Pool!FreeListIntact
\* A page that was given to a task stays with it.
PageGivenOnce == Pool!PageGivenOnce
\* knd_NOMEM is answered only when every page is in use.
NoMemOnlyWhenFull == Pool!NoMemOnlyWhenFull
\* Every call of the set returns, walks and adds that lost their races included, and
\* every request for a page is answered, whatever the other tasks do: of one task, for
\* they are all alike.
CallsReturn == (req[s1] # Set!Idle \/ poolPc[s1] # "idle") ~> (req[s1] = Set!Idle /\ poolPc[s1] = "idle")
=============================================================================
