---------------------------- MODULE SharedDictObs ----------------------------
(***************************************************************************)
(* SharedDict with a history variable: seen[t] is the set of the values    *)
(* the key of thread t's call was visibly bound to at the moments from the *)
(* start of the call on.  Sets take effect at their compare-and-swap and   *)
(* removes at their store, so an answer that was true at some moment of    *)
(* the call makes the call linearizable there.                             *)
(***************************************************************************)
EXTENDS SharedDict

VARIABLE seen

obsVars == <<vars, seen>>

ObsInit == /\ Init
           /\ seen = [t \in Threads |-> {}]

\* The step that starts a call changes no list; the step that answers counts.
ObsNext ==
    /\ Next
    /\ seen' = [t \in Threads |->
                  IF pc[t] # "idle"
                  THEN seen[t] \cup {Visible(chain', key[t])}
                  ELSE IF pc'[t] # "idle" THEN {Visible(chain, key'[t])}
                                          ELSE seen[t]]

ObsSpec == ObsInit /\ [][ObsNext]_obsVars

Answered(t, o) == pc[t] = "idle" /\ ret[t][1] = o

\* A get that overlaps sets and removes of its key answers what the key was
\* bound to at some moment of the call, although it reads the head, the links
\* and the phase at different moments.
GetAnswerWasTrue ==
    \A t \in Threads : Answered(t, "get") => ret[t][2] \in seen[t]

\* A set is refused only for a name that was taken while the set ran, and a
\* set that is accepted found the name free at some moment of the call.
SetAnswerWasTrue ==
    \A t \in Threads :
       Answered(t, "set") =>
          /\ ret[t][2] = "CONFLICT" => \E v \in Values : v \in seen[t]
          /\ ret[t][2] = "OK" => None \in seen[t]

\* A remove that succeeds left the name free at some moment of the call, and
\* one that fails found it free.
RemoveAnswerWasTrue ==
    \A t \in Threads : Answered(t, "remove") => None \in seen[t]

\* Every call's answer was true at some moment of the call.
AnswersWereTrue == GetAnswerWasTrue /\ SetAnswerWasTrue /\ RemoveAnswerWasTrue
=============================================================================
