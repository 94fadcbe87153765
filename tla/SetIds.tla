------------------------------- MODULE SetIds -------------------------------
(***************************************************************************)
(* The ids of a shared set (knd_shared_set.c), and the order in which a    *)
(* traversal looks at the slots of an idx node.  Common to SharedSet and   *)
(* to PathSet, which it implements.                                        *)
(***************************************************************************)
EXTENDS Naturals, Sequences, FiniteSets

CONSTANTS
    Tasks,
    Radix,    \* KND_RADIX_BASE
    Ids,      \* the ids in use: non-empty sequences of digits
    Elems,    \* the elements tasks add
    NoElem,   \* NULL
    NumPages, \* pages the pool has for idx nodes
    MaxCalls  \* bound: calls of all tasks together

Digits == 0..(Radix - 1)
Prefixes(id) == {SubSeq(id, 1, n) : n \in 0..(Len(id) - 1)}
Nodes == UNION {Prefixes(id) : id \in Ids}

ASSUME SharedSetAssumption ==
    /\ Radix \in Nat \ {0}
    /\ Ids # {} /\ Ids \subseteq Seq(Digits) \ {<<>>}
    /\ IsFiniteSet(Ids) /\ IsFiniteSet(Tasks)
    /\ NoElem \notin Elems
    /\ {NumPages, MaxCalls} \subseteq Nat

\* The slots of a node: its elements first, then its sub-nodes.
Slot(id) == [kind |-> "elem", at |-> id]
Dir(p) == [kind |-> "dir", at |-> p]
IdSlots(p) == [d \in 1..Radix |-> Slot(Append(p, d - 1))]
DirSlots(p) == [d \in 1..Radix |-> Dir(Append(p, d - 1))]
SlotsOf_v(p) == DirSlots(p)
SlotsOf(p) == IdSlots(p) \o DirSlots(p)
=============================================================================
