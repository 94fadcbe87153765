------------------------------ MODULE MCServe ------------------------------
(***************************************************************************)
(* The modules about what a serving process keeps in memory, checked in    *)
(* one run: the cache of user contexts, the strings, the instances of a    *)
(* class, and a task that answers queries.  Each behaviour is of one of    *)
(* them, the one `which' says; the variables of the others keep the value  *)
(* they start with.                                                        *)
(***************************************************************************)
EXTENDS MCUserCache, Requests

CONSTANTS Nil, NoName, n1, n2, n3
VARIABLES which,
          dict, strIdx, numStrs, strPc, strVal, strNum, strUsed, strFile, strRuns,
          ents, nameIdx, instIdx, instCount, dirRead, instFile, instPc, job, made, acked, owed, instRuns

\* NULL is no number and no string.
ASSUME ServeAssumption == Nil \notin Nat /\ Nil \notin {"u", "v", "w"}

\* Names of instances: n2 is the code of the string n3.
InstNames == {n1, n2}
Decode == [n \in InstNames |-> IF n = n2 THEN n3 ELSE n]

\* A hierarchy with one class that has descendants, two of which have topics.
ServeDescendants == [A |-> <<"B", "C", "D">>, B |-> <<>>, C |-> <<>>, D |-> <<>>]
ServeTopics == [A |-> <<>>, B |-> <<>>, C |-> <<1>>, D |-> <<1, 2, 0>>]

ST == INSTANCE Strings WITH None <- Nil, Vals <- {"u", "v", "w"}, MaxStrs <- 4, MaxRestarts <- 1,
        idx <- strIdx, pc <- strPc, val <- strVal, num <- strNum, used <- strUsed,
        file <- strFile, restarts <- strRuns
CI == INSTANCE Instances WITH None <- Nil, Names <- InstNames, MaxMade <- 3, MaxRestarts <- 2,
        idx <- instIdx, count <- instCount, file <- instFile, pc <- instPc, restarts <- instRuns

cacheVars == vars
stringVars == <<dict, strIdx, numStrs, strPc, strVal, strNum, strUsed, strFile, strRuns>>
instVars == <<ents, nameIdx, instIdx, instCount, dirRead, instFile, instPc, job, made, acked, owed, instRuns>>
serveVars == <<which, cacheVars, stringVars, instVars, requestVars>>

CacheIdle == /\ readers = Nil /\ data = Nil /\ noted = Nil /\ stopped = Nil /\ pc = Nil /\ user = Nil
             /\ cell_num = Nil /\ ctx = Nil /\ i = Nil /\ seen = Nil /\ prev_data = Nil /\ built = Nil
InstIdle == /\ ents = Nil /\ nameIdx = Nil /\ instIdx = Nil /\ instCount = Nil /\ dirRead = Nil
            /\ instFile = Nil /\ instPc = Nil /\ job = Nil /\ made = Nil /\ acked = Nil /\ owed = Nil
            /\ instRuns = Nil

MCInit == /\ ST!StringsInit /\ RequestsInit
          /\ \/ which = "cache" /\ Init /\ InstIdle
             \/ which = "insts" /\ CacheIdle /\ CI!InstInit
             \/ which \in {"strings", "requests"} /\ CacheIdle /\ InstIdle

OfCache == which = "cache" /\ UNCHANGED <<which, stringVars, instVars, requestVars>>
OfStrings == which = "strings" /\ UNCHANGED <<which, cacheVars, instVars, requestVars>>
OfInsts == which = "insts" /\ UNCHANGED <<which, cacheVars, stringVars, requestVars>>
OfRequests == which = "requests" /\ UNCHANGED <<which, cacheVars, stringVars, instVars>>

MCNext ==
    \/ OfCache /\ \E t \in Tasks, u \in Users : Select(t, u)
    \/ OfCache /\ \E t \in Tasks : Find(t)
    \/ OfCache /\ \E t \in Tasks : Set(t)
    \/ OfCache /\ \E t \in Tasks : Take(t)
    \/ OfStrings /\ \E t \in Tasks, v \in {"u", "v", "w"} : ST!Fetch(t, v)
    \/ OfStrings /\ \E t \in Tasks : ST!Number(t)
    \/ OfStrings /\ \E t \in Tasks : ST!Enter(t)
    \/ OfStrings /\ \E t \in Tasks : ST!AddToIdx(t)
    \/ OfStrings /\ \E t \in Tasks : ST!GiveUp(t)
    \/ OfStrings /\ ST!Snapshot
    \/ OfStrings /\ ST!Reopen
    \/ OfInsts /\ \E t \in Tasks : CI!Task(t)
    \/ OfInsts /\ CI!Snapshot
    \/ OfInsts /\ CI!Reopen
    \/ OfRequests /\ Show
    \/ OfRequests /\ List
    \/ OfRequests /\ AskSelected
    \/ OfRequests /\ Restart

MCSpec == MCInit /\ [][MCNext]_serveVars

---------------------------------------------------------------------------
\* A cell is closed only while it is set, and no context is in two; everything
\* is of its type (UserCache).
CellsExclusive == which = "cache" => TypeOK /\ ClosedOnlyWhileSet /\ InOneCell
\* The numbers handed out decode to their strings, as those in the files go on
\* doing after a restart (Strings).
NumbersDecode == which = "strings" => ST!FirstRunDecodes /\ ST!FileKept
\* Instances whose creation succeeded are found, in memory and in the file
\* (Instances).
AckedFound == which = "insts" => CI!AckedFound /\ CI!AckedKept
=============================================================================
