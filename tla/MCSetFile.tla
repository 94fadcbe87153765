----------------------------- MODULE MCSetFile -----------------------------
(* Ids of up to three digits; the records of an id repeat a byte of its own. *)
EXTENDS SetFile

MCOrder == <<<<0>>, <<1>>, <<2>>, <<1, 0>>, <<1, 3>>, <<3, 1>>, <<3, 1, 2>>>>
MCIds == {MCOrder[k] : k \in 1..Len(MCOrder)}
MCMark(id) == 2 + CHOOSE k \in 1..Len(MCOrder) : MCOrder[k] = id
MCRecordsOf(id) == {[k \in 1..n |-> MCMark(id)] : n \in {1, 3, 12}}
=============================================================================
