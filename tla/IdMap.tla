------------------------------- MODULE IdMap -------------------------------
(***************************************************************************)
(* What the shared ordered set promises to the tasks that use it as an     *)
(* index of ids (str_idx, class_idx, inst_idx): each id gets one element   *)
(* for good, an add that says OK has put its element there, a get answers  *)
(* with the element of some moment of the call.  An add may give up for    *)
(* lack of memory, and then has changed nothing.                           *)
(***************************************************************************)
CONSTANTS Tasks, Ids, Elems, NoElem

VARIABLES map,   \* map[i]: the element of id i
          call,  \* call[t]: what task t asks for
          answer \* answer[t]: its result, once it is settled

mapVars == <<map, call, answer>>

Idle == [op |-> "idle"]
Pending == [status |-> "pending"]
Done(s) == [status |-> s]
Found(e) == [status |-> "found", elem |-> e]

Calls == {Idle} \cup [op : {"add"}, id : Ids, elem : Elems]
                \cup [op : {"get"}, id : Ids] \cup [op : {"map"}]

Init == /\ map = [i \in Ids |-> NoElem]
        /\ call = [t \in Tasks |-> Idle]
        /\ answer = [t \in Tasks |-> Pending]

Ask(t, c) == /\ call[t] = Idle
             /\ call' = [call EXCEPT ![t] = c]
             /\ UNCHANGED <<map, answer>>

Settle(t, a) == /\ answer[t] = Pending
                /\ answer' = [answer EXCEPT ![t] = a]
                /\ UNCHANGED call

Put(t) == /\ call[t].op = "add"
          /\ map[call[t].id] = NoElem
          /\ map' = [map EXCEPT ![call[t].id] = call[t].elem]
          /\ Settle(t, Done("ok"))

Refuse(t) == /\ call[t].op = "add"
             /\ map[call[t].id] # NoElem
             /\ Settle(t, Done("conflict"))
             /\ UNCHANGED map

GiveUp(t) == /\ call[t].op = "add"
             /\ Settle(t, Done("nomem"))
             /\ UNCHANGED map

Look(t) == /\ call[t].op = "get"
           /\ Settle(t, IF map[call[t].id] = NoElem THEN Done("absent")
                                                    ELSE Found(map[call[t].id]))
           /\ UNCHANGED map

\* The walk over all elements is not atomic: SharedSet says what it may miss.
Walk(t) == /\ call[t].op = "map"
           /\ Settle(t, Done("ok"))
           /\ UNCHANGED map

Return(t) == /\ answer[t] # Pending
             /\ call' = [call EXCEPT ![t] = Idle]
             /\ answer' = [answer EXCEPT ![t] = Pending]
             /\ UNCHANGED map

Next == \E t \in Tasks : \/ \E c \in Calls \ {Idle} : Ask(t, c)
                         \/ Put(t) \/ Refuse(t) \/ GiveUp(t)
                         \/ Look(t) \/ Walk(t) \/ Return(t)

Spec == Init /\ [][Next]_mapVars
=============================================================================
