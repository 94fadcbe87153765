------------------------------- MODULE NameMap -------------------------------
(***************************************************************************)
(* What a name dictionary promises to those who register names outside a   *)
(* commit ("register as a uniq class name", knd_class.import.c): a name is *)
(* free or bound to one value, it is bound only when it is free, and it    *)
(* keeps its value until it is unbound.                                    *)
(***************************************************************************)
CONSTANTS Keys, Values,
          Free   \* not a member of Values

VARIABLE bound

Init == bound = [k \in Keys |-> Free]

Bind(k, v) == /\ bound[k] = Free
              /\ bound' = [bound EXCEPT ![k] = v]

Unbind(k) == /\ bound[k] # Free
             /\ bound' = [bound EXCEPT ![k] = Free]

Next == \E k \in Keys : Unbind(k) \/ \E v \in Values : Bind(k, v)

Spec == Init /\ [][Next]_bound
=============================================================================
