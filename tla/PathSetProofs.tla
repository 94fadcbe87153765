--------------------------- MODULE PathSetProofs ---------------------------
(***************************************************************************)
(* Proofs about PathSet, for any set of tasks, any ids and any pool.       *)
(*                                                                         *)
(* Nothing is ever taken out of the trie, so a task on its way down only   *)
(* needs to remember that every node it came through is linked (OnTheWay): *)
(* whichever task wins an exchange, the element ends up below linked nodes *)
(* (Stored).  That is also why a get that meets a missing node may say     *)
(* that the id is absent, and what the refinement of IdMap rests on.       *)
(***************************************************************************)
EXTENDS PathSet, SequenceTheorems, FiniteSetTheorems, TLAPS

InCall ==
    \A t \in Tasks :
       /\ pc[t] = "idle" <=> req[t] = Set!Idle
       /\ pc[t] \in {"add", "link", "store", "count"} => req[t].op = "add"
       /\ pc[t] = "get" => req[t].op = "get"
       /\ pc[t] = "map" => req[t].op = "map"
       /\ ans[t] = Set!Pending <=> pc[t] \notin {"count", "done"}

Answers == {Set!Pending} \cup {Set!Done(s) : s \in {"ok", "nomem", "conflict", "absent"}}
                         \cup {Set!Found(e) : e \in Elems}

OnTheWay ==
    \A t \in Tasks : pc[t] \in {"add", "link", "store", "get"} =>
       /\ depth[t] < Len(req[t].id)
       /\ \A n \in 0..depth[t] : SubSeq(req[t].id, 1, n) \in dirs
       /\ pc[t] = "link" => ~AtLast(t)
       /\ pc[t] = "store" => AtLast(t)

Root == <<>> \in dirs

Stored == \A i \in Ids : elems[i] # NoElem => Prefixes(i) \subseteq dirs

Inv == TypeOK /\ ans \in [Tasks -> Answers] /\ InCall /\ OnTheWay /\ Stored /\ Root

---------------------------------------------------------------------------
(* Ids and calls *)

\* save_elem and get_elem take the digits of an id one after the other: what
\* they have taken names a node above the id, and the root is the empty one.
LEMMA IdPrefix ==
    ASSUME NEW i \in Ids
    PROVE  /\ i \in Seq(Digits) /\ Len(i) \in Nat \ {0}
           /\ SubSeq(i, 1, 0) = <<>>
           /\ \A n \in 0..(Len(i) - 1) : SubSeq(i, 1, n) \in Prefixes(i) /\ SubSeq(i, 1, n) \in Nodes
<1>1. i \in Seq(Digits) /\ i # <<>>
    BY SharedSetAssumption
<1>2. Len(i) \in Nat \ {0}
    BY <1>1, EmptySeq
<1>3. SubSeq(i, 1, 0) = <<>>
    BY SubSeqEmpty
<1> QED BY <1>1, <1>2, <1>3 DEF Prefixes, Nodes

LEMMA RootIsNode == <<>> \in Nodes
<1>1. PICK i \in Ids : TRUE
    BY SharedSetAssumption
<1>2. 0 \in 0..(Len(i) - 1)
    BY IdPrefix
<1> QED BY <1>2, IdPrefix

\* The callers of knd_shared_set_add and _get give an id of the set.
LEMMA CallId ==
    ASSUME NEW c \in Set!Calls
    PROVE  /\ c.op \in {"idle", "add", "get", "map"}
           /\ c.op = "idle" <=> c = Set!Idle
           /\ c.op \in {"add", "get"} => c.id \in Ids
           /\ c.op = "add" => c.elem \in Elems
    BY DEF Set!Calls, Set!Idle

\* The results of calls are told apart by their status.
LEMMA AnswersDiffer ==
    /\ \A s \in {"ok", "nomem", "conflict", "absent"} : Set!Done(s) \in Answers /\ Set!Done(s) # Set!Pending
    /\ \A e \in Elems : Set!Found(e) \in Answers /\ Set!Found(e) # Set!Pending
    /\ Set!Pending \in Answers
    BY DEF Answers, Set!Pending, Set!Done, Set!Found

LEMMA InitInv == Init => Inv
<1> SUFFICES ASSUME Init PROVE Inv
    OBVIOUS
<1>1. TypeOK
    BY RootIsNode, SharedSetAssumption DEF Init, TypeOK, Set!Calls
<1>2. ans \in [Tasks -> Answers] /\ InCall
    BY AnswersDiffer DEF Init, InCall
<1>3. OnTheWay /\ Stored /\ Root
    BY DEF Init, OnTheWay, Stored, Root
<1> QED BY <1>1, <1>2, <1>3 DEF Inv

---------------------------------------------------------------------------
(* A step keeps the invariant *)

Moves(t, l, d, c, a) ==
    /\ Goto(t, l)
    /\ depth' = [depth EXCEPT ![t] = d]
    /\ req' = [req EXCEPT ![t] = c]
    /\ ans' = [ans EXCEPT ![t] = a]

\* A step that leaves the trie as it is and moves one task of which the rest
\* of the invariant is right after it.
LEMMA LocalInv ==
    ASSUME Inv, NEW t \in Tasks, UNCHANGED <<dirs, elems>>,
           numElems' \in Nat, pages' \in 0..NumPages, calls' \in 0..MaxCalls,
           NEW l \in {"idle", "add", "link", "store", "count", "get", "map", "done"},
           NEW d \in Nat, NEW c \in Set!Calls, NEW a \in Answers,
           Moves(t, l, d, c, a),
           l = "idle" <=> c = Set!Idle,
           l \in {"add", "link", "store", "count"} => c.op = "add",
           l = "get" => c.op = "get",
           l = "map" => c.op = "map",
           a = Set!Pending <=> l \notin {"count", "done"},
           l \in {"add", "link", "store", "get"} =>
               d < Len(c.id) /\ \A n \in 0..d : SubSeq(c.id, 1, n) \in dirs,
           l = "link" => d + 1 # Len(c.id),
           l = "store" => d + 1 = Len(c.id)
    PROVE  Inv'
<1> USE DEF Inv, TypeOK, Moves, Goto
<1>1. TypeOK'
    OBVIOUS
<1>2. ans' \in [Tasks -> Answers]
    OBVIOUS
<1>3. InCall'
  <2> SUFFICES ASSUME NEW u \in Tasks
               PROVE  /\ pc'[u] = "idle" <=> req'[u] = Set!Idle
                      /\ pc'[u] \in {"add", "link", "store", "count"} => req'[u].op = "add"
                      /\ pc'[u] = "get" => req'[u].op = "get"
                      /\ pc'[u] = "map" => req'[u].op = "map"
                      /\ ans'[u] = Set!Pending <=> pc'[u] \notin {"count", "done"}
    BY DEF InCall
  <2>1. CASE u = t
    BY <2>1
  <2>2. CASE u # t
    BY <2>2 DEF InCall
  <2> QED BY <2>1, <2>2
<1>4. OnTheWay'
  <2> SUFFICES ASSUME NEW u \in Tasks, pc'[u] \in {"add", "link", "store", "get"}
               PROVE  /\ depth'[u] < Len(req'[u].id)
                      /\ \A n \in 0..depth'[u] : SubSeq(req'[u].id, 1, n) \in dirs
                      /\ pc'[u] = "link" => depth'[u] + 1 # Len(req'[u].id)
                      /\ pc'[u] = "store" => depth'[u] + 1 = Len(req'[u].id)
    BY DEF OnTheWay, AtLast
  <2>1. CASE u = t
    BY <2>1
  <2>2. CASE u # t
    BY <2>2 DEF OnTheWay, AtLast
  <2> QED BY <2>1, <2>2
<1>5. Stored' /\ Root'
    BY DEF Stored, Root
<1> QED BY <1>1, <1>2, <1>3, <1>4, <1>5

\* The digits a task on its way down takes next name a node above its id.
LEMMA WayDown ==
    ASSUME Inv, NEW t \in Tasks, pc[t] \in {"add", "link", "store", "get"}
    PROVE  /\ req[t] \in Set!Calls /\ req[t].op \in {"add", "get"}
           /\ pc[t] # "get" => req[t].op = "add" /\ req[t].elem \in Elems
           /\ req[t].id \in Ids /\ Len(req[t].id) \in Nat \ {0}
           /\ depth[t] \in 0..(Len(req[t].id) - 1)
           /\ \A n \in 0..depth[t] : SubSeq(req[t].id, 1, n) \in dirs
           /\ ~AtLast(t) => depth[t] + 1 \in 0..(Len(req[t].id) - 1)
                            /\ Child(t) \in Prefixes(req[t].id) /\ Child(t) \in Nodes
           /\ AtLast(t) => Prefixes(req[t].id) \subseteq dirs
<1>1. req[t] \in Set!Calls /\ depth[t] \in Nat
    BY DEF Inv, TypeOK
<1>2. req[t].op = IF pc[t] = "get" THEN "get" ELSE "add"
    BY DEF Inv, InCall
<1>3. req[t].id \in Ids /\ (pc[t] # "get" => req[t].elem \in Elems)
    BY <1>1, <1>2, CallId
<1>4. Len(req[t].id) \in Nat \ {0}
    BY <1>3, IdPrefix
<1>5. /\ depth[t] \in 0..(Len(req[t].id) - 1)
      /\ \A n \in 0..depth[t] : SubSeq(req[t].id, 1, n) \in dirs
    BY <1>1, <1>4 DEF Inv, OnTheWay
<1>6. ASSUME ~AtLast(t)
      PROVE  /\ depth[t] + 1 \in 0..(Len(req[t].id) - 1)
             /\ Child(t) \in Prefixes(req[t].id) /\ Child(t) \in Nodes
  <2>1. depth[t] + 1 \in 0..(Len(req[t].id) - 1)
    BY <1>4, <1>5, <1>6 DEF AtLast
  <2> QED BY <2>1, <1>3, IdPrefix DEF Child
<1>7. ASSUME AtLast(t) PROVE Prefixes(req[t].id) \subseteq dirs
  <2>1. 0..(Len(req[t].id) - 1) = 0..depth[t]
    BY <1>1, <1>4, <1>7 DEF AtLast
  <2> QED BY <1>5, <2>1 DEF Prefixes
<1> QED BY <1>1, <1>2, <1>3, <1>4, <1>5, <1>6, <1>7

\* The exchange in save_elem's first loop: the linked node is the next one on
\* the way of the task that wins.
LEMMA LinkInv == ASSUME Inv, NEW t \in Tasks, Link(t) PROVE Inv'
<1>1. pc[t] = "link" /\ ~AtLast(t)
    BY DEF Link, Inv, OnTheWay
<1>2. /\ depth[t] \in Nat /\ depth[t] + 1 \in 0..(Len(req[t].id) - 1) /\ Child(t) \in Nodes
      /\ req[t].op = "add" /\ \A n \in 0..depth[t] : SubSeq(req[t].id, 1, n) \in dirs
    BY <1>1, WayDown
<1>3. TypeOK'
    BY <1>2 DEF Inv, TypeOK, Link, Goto, setVars
<1>4. ans' \in [Tasks -> Answers] /\ InCall'
  <2>1. InCall'
    BY <1>1, <1>2 DEF Inv, TypeOK, InCall, Link, Goto
  <2> QED BY <2>1 DEF Inv, Link
<1>5. OnTheWay'
  <2> SUFFICES ASSUME NEW u \in Tasks, pc'[u] \in {"add", "link", "store", "get"}
               PROVE  /\ depth'[u] < Len(req[u].id)
                      /\ \A n \in 0..depth'[u] : SubSeq(req[u].id, 1, n) \in dirs'
                      /\ pc'[u] = "link" => depth'[u] + 1 # Len(req[u].id)
                      /\ pc'[u] = "store" => depth'[u] + 1 = Len(req[u].id)
    BY DEF Link, OnTheWay, AtLast
  <2>1. CASE u = t
    <3>1. depth'[t] = depth[t] + 1 /\ pc'[t] = "add" /\ dirs' = dirs \cup {Child(t)}
      BY DEF Link, Goto, Inv, TypeOK
    <3>2. \A n \in 0..(depth[t] + 1) : n \in 0..depth[t] \/ n = depth[t] + 1
      BY <1>2
    <3> QED BY <1>2, <2>1, <3>1, <3>2, WayDown, <1>1 DEF Child
  <2>2. CASE u # t
    BY <2>2 DEF Link, Goto, Inv, TypeOK, OnTheWay, AtLast
  <2> QED BY <2>1, <2>2
<1>6. Stored' /\ Root'
    BY DEF Inv, Stored, Root, Link
<1> QED BY <1>3, <1>4, <1>5, <1>6 DEF Inv

\* The exchange at the end of save_elem: all nodes above the element are linked.
LEMMA StoreInv == ASSUME Inv, NEW t \in Tasks, Store(t) PROVE Inv'
<1>1. pc[t] = "store" /\ AtLast(t)
    BY DEF Store, Inv, OnTheWay
<1>2. req[t].id \in Ids /\ req[t].elem \in Elems /\ Prefixes(req[t].id) \subseteq dirs /\ req[t].op = "add"
    BY <1>1, WayDown
<1>3. TypeOK'
    BY <1>2 DEF Inv, TypeOK, Store, Goto
<1>4. ans' \in [Tasks -> Answers] /\ InCall'
  <2>1. ans' \in [Tasks -> Answers] /\ ans'[t] # Set!Pending /\ \A u \in Tasks \ {t} : ans'[u] = ans[u]
    BY AnswersDiffer DEF Inv, Store, Settle
  <2>2. InCall'
    BY <1>1, <1>2, <2>1 DEF Inv, TypeOK, InCall, Store, Goto
  <2> QED BY <2>1, <2>2
<1>5. OnTheWay'
    BY DEF Inv, TypeOK, OnTheWay, AtLast, Store, Goto
<1>6. Stored' /\ Root'
    BY <1>2 DEF Inv, TypeOK, Stored, Root, Store
<1> QED BY <1>3, <1>4, <1>5, <1>6 DEF Inv

LEMMA StepInv == Inv /\ [Next]_vars => Inv'
<1> SUFFICES ASSUME Inv, [Next]_vars PROVE Inv'
    OBVIOUS
<1> DEFINE Same(t) == /\ UNCHANGED <<dirs, elems>>
                      /\ numElems' \in Nat /\ pages' \in 0..NumPages /\ calls' \in 0..MaxCalls
<1> USE AnswersDiffer, SharedSetAssumption
<1>0. \A t \in Tasks : req[t] \in Set!Calls /\ depth[t] \in Nat /\ ans[t] \in Answers
    BY DEF Inv, TypeOK
<1>1. ASSUME NEW t \in Tasks, NEW c \in Requests, Ask(t, c) PROVE Inv'
  <2>1. c \in Set!Calls /\ c # Set!Idle /\ req[t] = Set!Idle /\ pc[t] = "idle"
    BY <1>1 DEF Requests, Ask, Inv, InCall
  <2>2. Same(t) /\ Moves(t, c.op, 0, c, Set!Pending)
    BY <1>1, <2>1 DEF Ask, Inv, TypeOK, InCall, setVars, Moves
  <2>3. c.op \in {"add", "get", "map"}
    BY <2>1, CallId
  <2>4. ASSUME c.op \in {"add", "get"}
        PROVE  0 < Len(c.id) /\ \A n \in 0..0 : SubSeq(c.id, 1, n) \in dirs
    <3>1. c.id \in Ids
      BY <2>1, <2>4, CallId
    <3>2. <<>> \in dirs
      BY DEF Inv, Root
    <3>3. 0 < Len(c.id) /\ SubSeq(c.id, 1, 0) = <<>>
      BY <3>1, IdPrefix
    <3>4. 0..0 = {0}
      OBVIOUS
    <3> QED BY <3>2, <3>3, <3>4
  <2>5. 0 \in Nat /\ c.op # "link" /\ c.op # "store" /\ c.op # "done" /\ c.op # "count" /\ c.op # "idle"
    BY <2>3
  <2> QED BY <2>1, <2>2, <2>3, <2>4, <2>5, LocalInv
<1>2. ASSUME NEW t \in Tasks, Return(t) PROVE Inv'
  <2>1. Same(t) /\ Moves(t, "idle", depth[t], Set!Idle, Set!Pending) /\ Set!Idle \in Set!Calls
    BY <1>2 DEF Return, Settle, Inv, TypeOK, setVars, Set!Calls, Moves
  <2> QED BY <1>0, <2>1, LocalInv
<1>3. ASSUME NEW t \in Tasks, Descend(t) \/ GetDown(t) PROVE Inv'
  <2> DEFINE d == depth[t] + 1
  <2>1. pc[t] \in {"add", "get"} /\ ~AtLast(t) /\ Child(t) \in dirs
    BY <1>3 DEF Descend, GetDown
  <2>2. /\ depth[t] \in Nat /\ d \in 0..(Len(req[t].id) - 1) /\ Len(req[t].id) \in Nat
        /\ \A n \in 0..depth[t] : SubSeq(req[t].id, 1, n) \in dirs
    BY <2>1, WayDown DEF Inv, TypeOK
  <2>3. \A n \in 0..d : SubSeq(req[t].id, 1, n) \in dirs
    <3>1. \A n \in 0..d : n \in 0..depth[t] \/ n = d
      BY <2>2
    <3> QED BY <2>1, <2>2, <3>1 DEF Child
  <2>4. Same(t) /\ Moves(t, pc[t], d, req[t], Set!Pending)
        /\ (pc[t] = "add" => req[t].op = "add") /\ (pc[t] = "get" => req[t].op = "get")
        /\ req[t] # Set!Idle
    BY <1>3, <2>1 DEF Descend, GetDown, Goto, Inv, TypeOK, InCall, setVars, Moves
  <2>5. d \in Nat /\ d < Len(req[t].id)
    BY <2>2
  <2> HIDE DEF d
  <2> QED BY <1>0, <2>1, <2>3, <2>4, <2>5, LocalInv
<1>4. ASSUME NEW t \in Tasks, NEW l \in {"add", "link", "store"}, Goto(t, l),
             pc[t] \in {"add", "link", "store"}, Same(t), UNCHANGED <<req, depth, ans>>,
             l = "link" => ~AtLast(t), l = "store" => AtLast(t)
      PROVE  Inv'
  <2>1. Moves(t, l, depth[t], req[t], Set!Pending) /\ req[t].op = "add" /\ req[t] # Set!Idle
    BY <1>4 DEF Inv, TypeOK, InCall, Moves
  <2>2. depth[t] < Len(req[t].id) /\ \A n \in 0..depth[t] : SubSeq(req[t].id, 1, n) \in dirs
    BY <1>4 DEF Inv, OnTheWay
  <2>3. (l = "link" => depth[t] + 1 # Len(req[t].id)) /\ (l = "store" => depth[t] + 1 = Len(req[t].id))
    BY <1>4 DEF AtLast
  <2> QED BY <1>0, <1>4, <2>1, <2>2, <2>3, LocalInv
<1>5. ASSUME NEW t \in Tasks, NewIdx(t) \/ LinkLost(t) \/ LoadFree(t) \/ StoreLost(t) PROVE Inv'
  <2>1. CASE NewIdx(t)
    <3>1. Same(t) /\ UNCHANGED <<req, depth, ans>> /\ Goto(t, "link") /\ pc[t] = "add" /\ ~AtLast(t)
      BY <2>1 DEF NewIdx, Inv, TypeOK
    <3> QED BY <3>1, <1>4
  <2>2. CASE LinkLost(t) \/ LoadFree(t) \/ StoreLost(t)
    <3>1. Same(t) /\ UNCHANGED <<req, depth, ans>>
      BY <2>2 DEF LinkLost, LoadFree, StoreLost, Inv, TypeOK, setVars
    <3>2. /\ pc[t] \in {"add", "link", "store"}
          /\ Goto(t, "add") \/ (Goto(t, "store") /\ AtLast(t))
      BY <2>2 DEF LinkLost, LoadFree, StoreLost
    <3> QED BY <3>1, <3>2, <1>4
  <2> QED BY <1>5, <2>1, <2>2
<1>6. ASSUME NEW t \in Tasks, NEW a \in Answers \ {Set!Pending}, ans' = [ans EXCEPT ![t] = a],
             Goto(t, "done"), req[t] # Set!Idle, Same(t), UNCHANGED <<req, depth>>
      PROVE  Inv'
  <2>1. Moves(t, "done", depth[t], req[t], a)
    BY <1>6 DEF Inv, TypeOK, Moves
  <2> QED BY <1>0, <1>6, <2>1, LocalInv
<1>7. ASSUME NEW t \in Tasks,
             NoMem(t) \/ Conflict(t) \/ Count(t) \/ GetNoIdx(t) \/ GetElem(t) \/ MapEnd(t)
      PROVE  Inv'
  <2>1. Same(t) /\ UNCHANGED <<req, depth>> /\ Goto(t, "done")
    BY <1>7 DEF NoMem, Conflict, Count, GetNoIdx, GetElem, MapEnd, Inv, TypeOK, setVars
  <2>2. req[t] # Set!Idle
    BY <1>7 DEF NoMem, Conflict, Count, GetNoIdx, GetElem, MapEnd, Inv, InCall
  <2>3. \E a \in Answers \ {Set!Pending} : ans' = [ans EXCEPT ![t] = a]
    <3>1. CASE Count(t)
      <4>1. ans' = [ans EXCEPT ![t] = ans[t]] /\ ans[t] \in Answers /\ ans[t] # Set!Pending
        BY <3>1 DEF Count, Inv, InCall
      <4> QED BY <4>1
    <3>2. CASE GetElem(t)
      <4>1. pc[t] = "get"
        BY <3>2 DEF GetElem
      <4>2. elems[req[t].id] = NoElem \/ elems[req[t].id] \in Elems
        BY <4>1, WayDown DEF Inv, TypeOK
      <4> QED BY <3>2, <4>2 DEF GetElem, Settle
    <3>3. CASE NoMem(t) \/ Conflict(t) \/ GetNoIdx(t) \/ MapEnd(t)
      BY <3>3 DEF NoMem, Conflict, GetNoIdx, MapEnd, Settle
    <3> QED BY <1>7, <3>1, <3>2, <3>3
  <2> HIDE DEF Same
  <2> QED BY <2>1, <2>2, <2>3, <1>6
<1>8. ASSUME UNCHANGED <<setVars, req, pc, depth, ans, calls>> PROVE Inv'
    BY <1>8 DEF setVars, Inv, TypeOK, InCall, OnTheWay, AtLast, Stored, Root
<1>9. ASSUME NEW t \in Tasks, MapElem(t) \/ MapDir(t) PROVE Inv'
    BY <1>8, <1>9 DEF MapElem, MapDir
<1>10. CASE UNCHANGED vars
    BY <1>8, <1>10 DEF vars
<1> QED
    BY <1>1, <1>2, <1>3, <1>5, <1>7, <1>9, <1>10, LinkInv, StoreInv DEF Next, Step

LEMMA InvHolds == Spec => []Inv
    BY InitInv, StepInv, PTL DEF Spec

---------------------------------------------------------------------------
(* The set is a map from ids to elements *)

\* get_elem: where a node is missing, no element below it is stored.
LEMMA MissingNode ==
    ASSUME Inv, NEW t \in Tasks, pc[t] = "get", ~AtLast(t), Child(t) \notin dirs
    PROVE  elems[req[t].id] = NoElem
<1>1. req[t].id \in Ids /\ Child(t) \in Prefixes(req[t].id)
    BY WayDown
<1> QED BY <1>1 DEF Inv, Stored

\* The step that settles the result of a call is the one step of IdMap.
LEMMA SettlesOnce ==
    ASSUME Inv, NEW t \in Tasks
    PROVE  /\ Store(t) => Set!Put(t)
           /\ Conflict(t) => Set!Refuse(t)
           /\ NoMem(t) => Set!GiveUp(t)
           /\ GetNoIdx(t) \/ GetElem(t) => Set!Look(t)
           /\ MapEnd(t) => Set!Walk(t)
           /\ Return(t) => Set!Return(t)
<1> USE DEF Settle, Set!Settle, Inv, InCall
<1>1. ASSUME Store(t) PROVE Set!Put(t)
    BY <1>1 DEF Store, Unchanged, Set!Put
<1>2. ASSUME Conflict(t) PROVE Set!Refuse(t)
    BY <1>2 DEF Conflict, Set!Refuse, setVars
<1>3. ASSUME NoMem(t) PROVE Set!GiveUp(t)
    BY <1>3 DEF NoMem, Set!GiveUp, setVars
<1>4. ASSUME GetNoIdx(t) PROVE Set!Look(t)
  <2>1. elems[req[t].id] = NoElem
    BY <1>4, MissingNode DEF GetNoIdx
  <2> QED BY <1>4, <2>1 DEF GetNoIdx, Set!Look, setVars
<1>5. ASSUME GetElem(t) PROVE Set!Look(t)
    BY <1>5 DEF GetElem, Set!Look, setVars
<1>6. ASSUME MapEnd(t) PROVE Set!Walk(t)
    BY <1>6 DEF MapEnd, Set!Walk, setVars
<1>7. ASSUME Return(t) PROVE Set!Return(t)
    BY <1>7 DEF Return, Set!Return, setVars
<1> QED BY <1>1, <1>2, <1>3, <1>4, <1>5, <1>6, <1>7

LEMMA NextRefines == Inv /\ [Next]_vars => [Set!Next]_(<<elems, req, ans>>)
<1> SUFFICES ASSUME Inv, [Next]_vars PROVE Set!Next \/ UNCHANGED <<elems, req, ans>>
    OBVIOUS
<1>1. CASE UNCHANGED vars
    BY <1>1 DEF vars, setVars
<1>2. ASSUME NEW t \in Tasks, NEW c \in Requests, Ask(t, c) PROVE Set!Next
  <2>1. c \in Set!Calls \ {Set!Idle} /\ Set!Ask(t, c)
    BY <1>2 DEF Requests, Ask, Set!Ask, setVars
  <2> QED BY <2>1 DEF Set!Next
<1>3. ASSUME NEW t \in Tasks,
             Store(t) \/ Conflict(t) \/ NoMem(t) \/ GetNoIdx(t) \/ GetElem(t) \/ MapEnd(t) \/ Return(t)
      PROVE  Set!Next
    BY <1>3, SettlesOnce DEF Set!Next
<1>4. ASSUME NEW t \in Tasks,
             \/ Descend(t) \/ NewIdx(t) \/ Link(t) \/ LinkLost(t) \/ LoadFree(t)
             \/ StoreLost(t) \/ Count(t) \/ GetDown(t) \/ MapElem(t) \/ MapDir(t)
      PROVE  UNCHANGED <<elems, req, ans>>
    BY <1>4 DEF Descend, NewIdx, Link, LinkLost, LoadFree, StoreLost, Count, GetDown,
                MapElem, MapDir, setVars
<1> QED BY <1>1, <1>2, <1>3, <1>4 DEF Next, Step

\* knd_shared_set_add and _get.  Whatever nodes and slots the exchanges of many
\* tasks race for, each add and each get takes effect in one step: an add that
\* says OK has put its element where none was, a get answers with what is there.
THEOREM SetImplementsIdMap == Spec => ImplementsIdMap
<1>1. Init => Set!Init
    BY DEF Init, Set!Init
<1>2. Inv /\ [Next]_vars => [Set!Next]_(Set!mapVars)
    BY NextRefines DEF Set!mapVars
<1> QED BY <1>1, <1>2, InvHolds, PTL DEF Spec, ImplementsIdMap, Set!Spec

---------------------------------------------------------------------------
(* The counter *)

Counting == {t \in Tasks : pc[t] = "count"}
Held == {i \in Ids : elems[i] # NoElem}

LEMMA CountsFinite ==
    /\ IsFiniteSet(Counting) /\ Cardinality(Counting) \in Nat
    /\ IsFiniteSet(Held) /\ Cardinality(Held) \in Nat
<1>1. Counting \in SUBSET Tasks /\ Held \in SUBSET Ids
    BY DEF Counting, Held
<1>2. IsFiniteSet(Counting) /\ IsFiniteSet(Held)
    BY <1>1, FS_Subset, SharedSetAssumption
<1> QED BY <1>2, FS_CardinalityType

\* save_elem adds to num_elems after its exchange: each element is counted once.
THEOREM CountExact == Spec => []NumElemsExact
<1> DEFINE Exact == numElems + Cardinality(Counting) = Cardinality(Held)
<1>1. Init => Exact
  <2> SUFFICES ASSUME Init PROVE Exact
    OBVIOUS
  <2>1. Counting = {} /\ Held = {} /\ numElems = 0
    BY DEF Init, Counting, Held
  <2> QED BY <2>1, FS_EmptySet
<1>2. Inv /\ Exact /\ [Next]_vars => Exact'
  <2> SUFFICES ASSUME Inv, Exact, [Next]_vars PROVE Exact'
    OBVIOUS
  <2>1. ASSUME NEW t \in Tasks, Store(t) PROVE Exact'
    <3>1. pc[t] = "store" /\ req[t].id \in Ids /\ req[t].elem \in Elems /\ elems[req[t].id] = NoElem
      BY <2>1, WayDown DEF Store, Unchanged
    <3>2. numElems' = numElems /\ Counting' = Counting \cup {t} /\ t \notin Counting
      BY <2>1, <3>1 DEF Store, Goto, Counting, Inv, TypeOK
    <3>3. Held' = Held \cup {req[t].id} /\ req[t].id \notin Held
      BY <2>1, <3>1, SharedSetAssumption DEF Store, Held, Inv, TypeOK
    <3>4. Cardinality(Counting') = Cardinality(Counting) + 1 /\ Cardinality(Held') = Cardinality(Held) + 1
      BY <3>2, <3>3, CountsFinite, FS_AddElement
    <3> QED BY <3>2, <3>4, CountsFinite DEF Inv, TypeOK
  <2>2. ASSUME NEW t \in Tasks, Count(t) PROVE Exact'
    <3>1. numElems' = numElems + 1 /\ Counting' = Counting \ {t} /\ t \in Counting /\ Held' = Held
      BY <2>2 DEF Count, Goto, Counting, Held, Inv, TypeOK
    <3>2. Cardinality(Counting') = Cardinality(Counting) - 1
      BY <3>1, CountsFinite, FS_RemoveElement
    <3> QED BY <3>1, <3>2, CountsFinite DEF Inv, TypeOK
  <2>3. ASSUME numElems' = numElems, elems' = elems, \A t \in Tasks : pc[t] = "count" <=> pc'[t] = "count"
        PROVE  Exact'
    BY <2>3 DEF Counting, Held
  <2>4. ASSUME NEW t \in Tasks,
               \/ Descend(t) \/ NewIdx(t) \/ NoMem(t) \/ Link(t) \/ LinkLost(t) \/ LoadFree(t)
               \/ Conflict(t) \/ StoreLost(t) \/ GetDown(t) \/ GetNoIdx(t) \/ GetElem(t)
               \/ MapElem(t) \/ MapDir(t) \/ MapEnd(t) \/ Return(t)
        PROVE  Exact'
    <3>1. numElems' = numElems /\ elems' = elems /\ \A u \in Tasks : pc[u] = "count" <=> pc'[u] = "count"
      BY <2>4 DEF Descend, NewIdx, NoMem, Link, LinkLost, LoadFree, Conflict, StoreLost, GetDown,
                  GetNoIdx, GetElem, MapElem, MapDir, MapEnd, Return, Goto, setVars, Inv, TypeOK
    <3> QED BY <3>1, <2>3
  <2>5. ASSUME NEW t \in Tasks, NEW c \in Requests, Ask(t, c) PROVE Exact'
    <3>1. c.op # "count" /\ pc[t] = "idle"
      BY <2>5, CallId DEF Requests, Ask, Inv, InCall
    <3>2. numElems' = numElems /\ elems' = elems /\ \A u \in Tasks : pc[u] = "count" <=> pc'[u] = "count"
      BY <2>5, <3>1 DEF Ask, Goto, setVars, Inv, TypeOK
    <3> QED BY <3>2, <2>3
  <2>6. CASE UNCHANGED vars
    BY <2>6, <2>3 DEF vars, setVars
  <2> QED BY <2>1, <2>2, <2>4, <2>5, <2>6 DEF Next, Step
<1>3. Exact => NumElemsExact
    BY DEF NumElemsExact, Counting, Held
<1> QED BY <1>1, <1>2, <1>3, InvHolds, PTL DEF Spec

---------------------------------------------------------------------------
(* A walk among adds *)

Slots == [kind : {"elem", "dir"}, at : Seq(Digits)]

\* The ids a walk can still meet through a slot.
Under(s) == {i \in Ids : \/ s.kind = "elem" /\ i = s.at
                         \/ /\ s.kind = "dir" /\ Len(s.at) < Len(i)
                            /\ \A k \in 1..Len(s.at) : i[k] = s.at[k]}
Ahead(a, b) == \A i \in Under(a), j \in Under(b) : Before(i, j)
InTrieOrder(q) == \A m, n \in 1..Len(q) : m < n => Ahead(q[m], q[n])

\* What a walk has handed over lies before what it has still to look at, and
\* what was in the set when it began is on one side or the other.
WalkOf(t) ==
    /\ todo[t] \in Seq(Slots) /\ seen[t] \in Seq(Ids)
    /\ old[t] \subseteq Held
    /\ pc[t] # "map" => todo[t] = <<>>
    /\ InTrieOrder(todo[t])
    /\ \A m \in 1..Len(seen[t]), n \in 1..Len(todo[t]) :
          \A j \in Under(todo[t][n]) : Before(seen[t][m], j)
    /\ \A m, n \in 1..Len(seen[t]) : m < n => Before(seen[t][m], seen[t][n])
    /\ \A i \in old[t] : \/ \E n \in 1..Len(seen[t]) : seen[t][n] = i
                         \/ \E n \in 1..Len(todo[t]) : i \in Under(todo[t][n])
WalkInv == (todo \in [Tasks -> Seq(Slots)]) /\ (seen \in [Tasks -> Seq(Ids)])
           /\ (old \in [Tasks -> SUBSET Ids]) /\ \A t \in Tasks : WalkOf(t)

\* The order of the trie, digit by digit.
LEMMA BeforeIf ==
    ASSUME NEW i \in Ids, NEW j \in Ids, NEW k \in 1..Len(i), k <= Len(j),
           \A n \in 1..(k - 1) : i[n] = j[n],
           \/ Len(i) = k /\ Len(j) > k
           \/ (Len(i) = k) = (Len(j) = k) /\ i[k] < j[k]
    PROVE  Before(i, j)
<1>1. i \in Seq(Digits) /\ j \in Seq(Digits) /\ Len(i) \in Nat /\ Len(j) \in Nat
    BY IdPrefix
<1>2. /\ \A n \in 1..(k - 1) : i[n] \in Digits
      /\ \A n \in 1..(k - 1) : j[n] \in Digits
    BY <1>1, ElementOfSeq
<1>3. /\ SubSeq(i, 1, k - 1) \in Seq(Digits) /\ SubSeq(j, 1, k - 1) \in Seq(Digits)
      /\ Len(SubSeq(i, 1, k - 1)) = k - 1 /\ Len(SubSeq(j, 1, k - 1)) = k - 1
      /\ \A n \in 1..(k - 1) : SubSeq(i, 1, k - 1)[n] = i[n] /\ SubSeq(j, 1, k - 1)[n] = j[n]
  <2>1. 1 \in Int /\ k - 1 \in Int /\ (1 <= k - 1 \/ k - 1 = 0) /\ k - 1 - 1 + 1 = k - 1
    BY <1>1
  <2>2. \A n \in 1..(k - 1) : 1 + n - 1 = n
    OBVIOUS
  <2> QED BY <1>2, <2>1, <2>2, SubSeqProperties
<1>4. SubSeq(i, 1, k - 1) = SubSeq(j, 1, k - 1)
    BY <1>3, SeqEqual
<1> QED BY <1>4 DEF Before

\* traverse_idx looks at the elements of a node, then at its sub-nodes, both
\* by rising digit: that is the order of the trie, and nothing under the node
\* is left out.
LEMMA SlotsRight ==
    ASSUME NEW p \in Seq(Digits)
    PROVE  /\ SlotsOf(p) \in Seq(Slots) /\ Len(SlotsOf(p)) = Radix + Radix
           /\ InTrieOrder(SlotsOf(p))
           /\ \A n \in 1..Len(SlotsOf(p)) : Under(SlotsOf(p)[n]) \subseteq Under(Dir(p))
           /\ \A i \in Under(Dir(p)) : \E n \in 1..Len(SlotsOf(p)) : i \in Under(SlotsOf(p)[n])
<1> DEFINE L == Len(p)
           T(d) == Append(p, d)
<1>0. L \in Nat /\ Radix \in Nat \ {0}
    BY LenProperties, SharedSetAssumption
<1>1. ASSUME NEW d \in Digits
      PROVE  T(d) \in Seq(Digits) /\ Len(T(d)) = L + 1 /\ T(d)[L + 1] = d
             /\ \A k \in 1..L : T(d)[k] = p[k]
    OBVIOUS
<1>2. ASSUME NEW n \in 1..Radix PROVE n - 1 \in Digits
    BY <1>0 DEF Digits
<1>3. /\ IdSlots(p) \in Seq(Slots) /\ Len(IdSlots(p)) = Radix
      /\ DirSlots(p) \in Seq(Slots) /\ Len(DirSlots(p)) = Radix
    BY <1>0, <1>1, <1>2 DEF IdSlots, DirSlots, Slot, Dir, Slots
<1>4. /\ SlotsOf(p) \in Seq(Slots) /\ Len(SlotsOf(p)) = Radix + Radix
      /\ \A n \in 1..(Radix + Radix) :
            SlotsOf(p)[n] = IF n <= Radix THEN Slot(T(n - 1)) ELSE Dir(T(n - Radix - 1))
  <2>1. \A n \in 1..Radix : IdSlots(p)[n] = Slot(T(n - 1)) /\ DirSlots(p)[n] = Dir(T(n - 1))
    BY DEF IdSlots, DirSlots
  <2>2. /\ SlotsOf(p) \in Seq(Slots) /\ Len(SlotsOf(p)) = Radix + Radix
        /\ \A n \in 1..(Radix + Radix) :
              SlotsOf(p)[n] = IF n <= Radix THEN IdSlots(p)[n] ELSE DirSlots(p)[n - Radix]
    <3> DEFINE a == IdSlots(p)
               b == DirSlots(p)
    <3>1. a \in Seq(Slots) /\ b \in Seq(Slots) /\ Len(a) = Radix /\ Len(b) = Radix
      BY <1>3
    <3> HIDE DEF a, b
    <3>2. /\ a \o b \in Seq(Slots) /\ Len(a \o b) = Len(a) + Len(b)
          /\ \A n \in 1..(Len(a) + Len(b)) : (a \o b)[n] = IF n <= Len(a) THEN a[n] ELSE b[n - Len(a)]
      BY <3>1, ConcatProperties, Zenon
    <3>3. SlotsOf(p) = a \o b
      BY DEF SlotsOf, a, b
    <3>4. /\ SlotsOf(p) \in Seq(Slots) /\ Len(SlotsOf(p)) = Radix + Radix
          /\ \A n \in 1..(Radix + Radix) : SlotsOf(p)[n] = IF n <= Radix THEN a[n] ELSE b[n - Radix]
      BY <3>1, <3>2, <3>3, Zenon
    <3> QED BY <3>4 DEF a, b
  <2>3. ASSUME NEW n \in 1..(Radix + Radix)
        PROVE  SlotsOf(p)[n] = IF n <= Radix THEN Slot(T(n - 1)) ELSE Dir(T(n - Radix - 1))
    <3>1. n <= Radix => n \in 1..Radix
      BY <1>0
    <3>2. ~(n <= Radix) => n - Radix \in 1..Radix
      BY <1>0
    <3> QED BY <2>1, <2>2, <3>1, <3>2
  <2> HIDE DEF T
  <2> QED BY <2>2, <2>3
<1>5. ASSUME NEW d \in Digits, NEW i \in Ids
      PROVE  /\ i \in Under(Slot(T(d))) <=>
                   Len(i) = L + 1 /\ i[L + 1] = d /\ \A k \in 1..L : i[k] = p[k]
             /\ i \in Under(Dir(T(d))) <=>
                   Len(i) > L + 1 /\ i[L + 1] = d /\ \A k \in 1..L : i[k] = p[k]
  <2>1. i \in Seq(Digits) /\ T(d) \in Seq(Digits)
    BY <1>1, IdPrefix
  <2>2. i = T(d) <=> Len(i) = L + 1 /\ i[L + 1] = d /\ \A k \in 1..L : i[k] = p[k]
    <3>1. ASSUME Len(i) = L + 1, i[L + 1] = d, \A k \in 1..L : i[k] = p[k] PROVE i = T(d)
      <4>1. \A k \in 1..(L + 1) : k \in 1..L \/ k = L + 1
        BY <1>0
      <4>2. \A k \in 1..Len(i) : i[k] = T(d)[k]
        BY <1>1, <3>1, <4>1
      <4> HIDE DEF T
      <4> QED BY <1>1, <2>1, <3>1, <4>2, SeqEqual
    <3> QED BY <1>1, <3>1
  <2>3. (\A k \in 1..(L + 1) : i[k] = T(d)[k]) <=> i[L + 1] = d /\ \A k \in 1..L : i[k] = p[k]
    <3>1. \A k \in 1..(L + 1) : k \in 1..L \/ k = L + 1
      BY <1>0
    <3>2. L + 1 \in 1..(L + 1) /\ \A k \in 1..L : k \in 1..(L + 1)
      BY <1>0
    <3> HIDE DEF T
    <3> QED BY <1>1, <3>1, <3>2
  <2> HIDE DEF T
  <2> QED BY <1>1, <2>2, <2>3 DEF Under, Slot, Dir
<1>6. InTrieOrder(SlotsOf(p))
  <2> SUFFICES ASSUME NEW m \in 1..(Radix + Radix), NEW n \in 1..(Radix + Radix), m < n,
                      NEW i \in Under(SlotsOf(p)[m]), NEW j \in Under(SlotsOf(p)[n])
               PROVE  Before(i, j)
    BY <1>4 DEF InTrieOrder, Ahead
  <2> DEFINE e == IF m <= Radix THEN m - 1 ELSE m - Radix - 1
             f == IF n <= Radix THEN n - 1 ELSE n - Radix - 1
  <2>1. i \in Ids /\ j \in Ids /\ Len(i) \in Nat /\ Len(j) \in Nat
    BY IdPrefix DEF Under
  <2>2. e \in Digits /\ f \in Digits
    BY <1>0 DEF Digits
  <2>3. /\ m <= Radix => i \in Under(Slot(T(e)))
        /\ m > Radix => i \in Under(Dir(T(e)))
        /\ n <= Radix => j \in Under(Slot(T(f)))
        /\ n > Radix => j \in Under(Dir(T(f)))
    BY <1>0, <1>4
  <2> HIDE DEF e, f, T
  <2>4. /\ i[L + 1] = e /\ j[L + 1] = f /\ \A k \in 1..L : i[k] = p[k] /\ j[k] = p[k]
        /\ IF m <= Radix THEN Len(i) = L + 1 ELSE Len(i) > L + 1
        /\ IF n <= Radix THEN Len(j) = L + 1 ELSE Len(j) > L + 1
    BY <1>0, <1>5, <2>1, <2>2, <2>3
  <2>5. m > Radix \/ n <= Radix => e < f
    BY <1>0 DEF e, f
  <2>6. L + 1 \in 1..Len(i) /\ L + 1 <= Len(j) /\ \A k \in 1..((L + 1) - 1) : i[k] = j[k]
    BY <1>0, <2>1, <2>4
  <2>7. \/ Len(i) = L + 1 /\ Len(j) > L + 1
        \/ (Len(i) = L + 1) = (Len(j) = L + 1) /\ i[L + 1] < j[L + 1]
    BY <1>0, <2>1, <2>4, <2>5
  <2> QED BY <2>1, <2>6, <2>7, BeforeIf
<1>7. ASSUME NEW n \in 1..(Radix + Radix) PROVE Under(SlotsOf(p)[n]) \subseteq Under(Dir(p))
  <2> SUFFICES ASSUME NEW i \in Under(SlotsOf(p)[n]) PROVE i \in Under(Dir(p))
    OBVIOUS
  <2> DEFINE d == IF n <= Radix THEN n - 1 ELSE n - Radix - 1
  <2>1. d \in Digits /\ i \in Ids /\ Len(i) \in Nat
    BY <1>0, IdPrefix DEF Digits, Under
  <2>2. i \in Under(Slot(T(d))) \/ i \in Under(Dir(T(d)))
    BY <1>4
  <2> HIDE DEF d, T
  <2>3. Len(i) >= L + 1 /\ \A k \in 1..L : i[k] = p[k]
    BY <1>0, <1>5, <2>1, <2>2
  <2> QED BY <1>0, <2>1, <2>3 DEF Under, Dir
<1>8. ASSUME NEW i \in Under(Dir(p)) PROVE \E n \in 1..(Radix + Radix) : i \in Under(SlotsOf(p)[n])
  <2> DEFINE d == i[L + 1]
  <2>1. i \in Ids /\ i \in Seq(Digits) /\ Len(i) \in Nat /\ Len(i) > L /\ \A k \in 1..L : i[k] = p[k]
    BY IdPrefix DEF Under, Dir
  <2>2. d \in Digits
    BY <1>0, <2>1, ElementOfSeq
  <2>3. d + 1 \in 1..(Radix + Radix) /\ d + 1 <= Radix /\ d + 1 - 1 = d
        /\ d + Radix + 1 \in 1..(Radix + Radix) /\ ~(d + Radix + 1 <= Radix) /\ d + Radix + 1 - Radix - 1 = d
    BY <1>0, <2>2 DEF Digits
  <2>d. d = i[L + 1] /\ d \in Nat
    BY <2>2 DEF Digits
  <2> HIDE DEF d, T
  <2>4. SlotsOf(p)[d + 1] = Slot(T(d)) /\ SlotsOf(p)[d + Radix + 1] = Dir(T(d))
    <3>1. SlotsOf(p)[d + 1] = Slot(T((d + 1) - 1))
      BY <1>4, <2>3
    <3>2. SlotsOf(p)[d + Radix + 1] = Dir(T((d + Radix + 1) - Radix - 1))
      BY <1>4, <2>3
    <3>3. (d + 1) - 1 = d /\ (d + Radix + 1) - Radix - 1 = d
      BY <1>0, <2>d
    <3> QED BY <3>1, <3>2, <3>3, Zenon
  <2>5. Len(i) > L + 1 => i \in Under(Dir(T(d)))
    BY <1>5, <2>1, <2>2, <2>d
  <2>6. Len(i) = L + 1 => i \in Under(Slot(T(d)))
    BY <1>5, <2>1, <2>2, <2>d
  <2>7. Len(i) > L + 1 \/ Len(i) = L + 1
    BY <1>0, <2>1
  <2> QED BY <2>3, <2>4, <2>5, <2>6, <2>7
<1> QED BY <1>4, <1>6, <1>7, <1>8

\* The node of an id under a directory slot is on the way to that id.
LEMMA NodeAbove ==
    ASSUME NEW p \in Seq(Digits), NEW i \in Under(Dir(p))
    PROVE  p \in Prefixes(i)
<1> DEFINE q == SubSeq(i, 1, Len(p))
<1>1. i \in Ids /\ i \in Seq(Digits) /\ Len(i) \in Nat /\ Len(p) \in Nat /\ Len(p) < Len(i)
      /\ \A k \in 1..Len(p) : i[k] = p[k]
    BY IdPrefix, LenProperties DEF Under, Dir
<1>2. \A k \in 1..Len(p) : i[k] \in Digits
    BY <1>1, ElementOfSeq
<1>3. q \in Seq(Digits) /\ Len(q) = Len(p) /\ \A k \in 1..Len(p) : q[k] = i[k]
  <2>1. 1 \in Int /\ Len(p) \in Int /\ (1 <= Len(p) \/ Len(p) = 0) /\ Len(p) - 1 + 1 = Len(p)
    BY <1>1
  <2>2. \A k \in 1..Len(p) : 1 + k - 1 = k
    OBVIOUS
  <2> QED BY <1>2, <2>1, <2>2, SubSeqProperties
<1>4. q = p
    BY <1>1, <1>3, SeqEqual
<1>5. Len(p) \in 0..(Len(i) - 1)
    BY <1>1
<1> QED BY <1>1, <1>4, <1>5 DEF Prefixes

\* A slot is taken from the front, and slots that hold no more than it did are
\* put in its place.
LEMMA Expand ==
    ASSUME NEW q \in Seq(Slots), q # <<>>, NEW r \in Seq(Slots), InTrieOrder(q), InTrieOrder(r),
           \A n \in 1..Len(r) : Under(r[n]) \subseteq Under(Head(q))
    PROVE  LET s == r \o Tail(q)
           IN  /\ s \in Seq(Slots) /\ InTrieOrder(s)
               /\ \A n \in 1..Len(s) : \E k \in 1..Len(q) : Under(s[n]) \subseteq Under(q[k])
               /\ \A n \in 1..Len(s) : n <= Len(r) \/ \E k \in 2..Len(q) : s[n] = q[k]
               /\ \A k \in 2..Len(q) : \E n \in 1..Len(s) : s[n] = q[k]
               /\ \A k \in 1..Len(r) : k \in 1..Len(s) /\ s[k] = r[k]
<1> DEFINE s == r \o Tail(q)
<1> DEFINE T == Tail(q)
<1>1. /\ Len(q) \in Nat \ {0} /\ Len(r) \in Nat /\ Head(q) = q[1]
      /\ T \in Seq(Slots) /\ Len(T) = Len(q) - 1 /\ \A n \in 1..Len(T) : T[n] = q[n + 1]
    BY HeadTailProperties, LenProperties, EmptySeq
<1> HIDE DEF T
<1>2. /\ r \o T \in Seq(Slots) /\ Len(r \o T) = Len(r) + Len(T)
      /\ \A n \in 1..(Len(r) + Len(T)) : (r \o T)[n] = IF n <= Len(r) THEN r[n] ELSE T[n - Len(r)]
    BY <1>1, ConcatProperties, Zenon
<1>3. /\ s \in Seq(Slots) /\ Len(s) = Len(r) + Len(T)
      /\ \A n \in 1..(Len(r) + Len(T)) : s[n] = IF n <= Len(r) THEN r[n] ELSE T[n - Len(r)]
    BY <1>2, Zenon DEF T
<1> HIDE DEF s
<1>4. ASSUME NEW n \in 1..Len(s), ~(n <= Len(r))
      PROVE  n - Len(r) + 1 \in 2..Len(q) /\ s[n] = q[n - Len(r) + 1]
  <2>1. n - Len(r) \in 1..Len(T) /\ n - Len(r) + 1 \in 2..Len(q)
    BY <1>1, <1>3, <1>4
  <2> QED BY <1>1, <1>3, <1>4, <2>1
<1>5. ASSUME NEW n \in 1..Len(s), n <= Len(r) PROVE n \in 1..Len(r) /\ s[n] = r[n]
    BY <1>1, <1>3, <1>5
<1>6. ASSUME NEW k \in 2..Len(q) PROVE \E n \in 1..Len(s) : s[n] = q[k]
  <2> DEFINE n == k - 1 + Len(r)
  <2>1. n \in 1..Len(s) /\ ~(n <= Len(r)) /\ n - Len(r) + 1 = k
    BY <1>1, <1>3
  <2> HIDE DEF n
  <2>2. s[n] = q[n - Len(r) + 1]
    BY <1>4, <2>1
  <2> QED BY <2>1, <2>2
<1>7. ASSUME NEW k \in 1..Len(r) PROVE k \in 1..Len(s) /\ s[k] = r[k]
    BY <1>1, <1>3
<1>8. InTrieOrder(s)
  <2> SUFFICES ASSUME NEW m \in 1..Len(s), NEW n \in 1..Len(s), m < n PROVE Ahead(s[m], s[n])
    BY DEF InTrieOrder
  <2>1. CASE n <= Len(r)
    <3>1. m <= Len(r)
      BY <1>1, <1>3, <2>1
    <3> QED BY <1>5, <2>1, <3>1 DEF InTrieOrder
  <2>2. CASE m <= Len(r) /\ ~(n <= Len(r))
    <3>1. Under(s[m]) \subseteq Under(q[1])
      BY <1>1, <1>5, <2>2
    <3>2. s[n] = q[n - Len(r) + 1] /\ n - Len(r) + 1 \in 2..Len(q)
      BY <1>4, <2>2
    <3> DEFINE k == n - Len(r) + 1
    <3>3. 1 \in 1..Len(q) /\ k \in 1..Len(q) /\ 1 < k
      BY <1>1, <3>2
    <3> HIDE DEF k
    <3>4. Ahead(q[1], q[k])
      BY <3>3 DEF InTrieOrder
    <3>5. s[n] = q[k]
      BY <3>2 DEF k
    <3> QED BY <3>1, <3>4, <3>5 DEF Ahead
  <2>3. CASE ~(m <= Len(r)) /\ ~(n <= Len(r))
    <3>1. m - Len(r) + 1 \in 1..Len(q) /\ n - Len(r) + 1 \in 1..Len(q) /\ m - Len(r) + 1 < n - Len(r) + 1
      BY <1>1, <1>3, <1>4, <2>3
    <3> QED BY <1>4, <2>3, <3>1 DEF InTrieOrder
  <2>4. ~(m <= Len(r)) => ~(n <= Len(r))
    BY <1>1, <1>3
  <2> QED BY <2>1, <2>2, <2>3, <2>4
<1>9. ASSUME NEW n \in 1..Len(s) PROVE \E k \in 1..Len(q) : Under(s[n]) \subseteq Under(q[k])
  <2>1. CASE n <= Len(r)
    <3>1. 1 \in 1..Len(q)
      BY <1>1
    <3> QED BY <1>1, <1>5, <2>1, <3>1
  <2>2. CASE ~(n <= Len(r))
    <3>1. n - Len(r) + 1 \in 1..Len(q)
      BY <1>1, <1>4, <2>2
    <3> QED BY <1>4, <2>2, <3>1
  <2> QED BY <2>1, <2>2
<1>10. \A n \in 1..Len(s) : n <= Len(r) \/ \E k \in 2..Len(q) : s[n] = q[k]
    BY <1>4
<1> QED BY <1>3, <1>6, <1>7, <1>8, <1>9, <1>10 DEF s

\* Adds that go on beside a walk only put elements into free slots.
LEMMA HeldGrows == Inv /\ [Next]_vars => Held \subseteq Held'
<1> SUFFICES ASSUME Inv, [Next]_vars PROVE Held \subseteq Held'
    OBVIOUS
<1>1. CASE elems' = elems
    BY <1>1 DEF Held
<1>2. ASSUME NEW t \in Tasks, Store(t) PROVE Held \subseteq Held'
    BY <1>2, SharedSetAssumption DEF Store, Unchanged, Held, Inv, TypeOK
<1>3. ASSUME NEW t \in Tasks, Step(t), ~Store(t) PROVE elems' = elems
    BY <1>3 DEF Step, Descend, NewIdx, NoMem, Link, LinkLost, LoadFree, Conflict, StoreLost, Count,
                GetDown, GetNoIdx, GetElem, MapElem, MapDir, MapEnd, Return, setVars
<1>4. ASSUME NEW t \in Tasks, NEW c \in Requests, Ask(t, c) PROVE elems' = elems
    BY <1>4 DEF Ask, setVars
<1>5. CASE UNCHANGED vars
    BY <1>1, <1>5 DEF vars, setVars
<1> QED BY <1>1, <1>2, <1>3, <1>4, <1>5 DEF Next

\* A step that gives one task's walk new values, right for it, and keeps the
\* walks of the others.
LEMMA WalkMoves ==
    ASSUME WalkInv, NEW t \in Tasks, Held \subseteq Held',
           NEW q \in Seq(Slots), NEW h \in Seq(Ids), NEW o \in SUBSET Ids,
           todo' = [todo EXCEPT ![t] = q],
           seen' = [seen EXCEPT ![t] = h],
           old' = [old EXCEPT ![t] = o],
           \A u \in Tasks \ {t} : pc'[u] = pc[u],
           o \subseteq Held',
           pc'[t] # "map" => q = <<>>,
           InTrieOrder(q),
           \A m \in 1..Len(h), n \in 1..Len(q) : \A j \in Under(q[n]) : Before(h[m], j),
           \A m, n \in 1..Len(h) : m < n => Before(h[m], h[n]),
           \A i \in o : \/ \E n \in 1..Len(h) : h[n] = i
                        \/ \E n \in 1..Len(q) : i \in Under(q[n])
    PROVE  WalkInv'
<1>1. todo' \in [Tasks -> Seq(Slots)] /\ seen' \in [Tasks -> Seq(Ids)] /\ old' \in [Tasks -> SUBSET Ids]
    BY DEF WalkInv
<1>2. todo'[t] = q /\ seen'[t] = h /\ old'[t] = o
    BY DEF WalkInv
<1>3. WalkOf(t)'
    BY <1>2 DEF WalkOf
<1>4. ASSUME NEW u \in Tasks \ {t} PROVE WalkOf(u)'
  <2>1. todo'[u] = todo[u] /\ seen'[u] = seen[u] /\ old'[u] = old[u] /\ pc'[u] = pc[u] /\ WalkOf(u)
    BY DEF WalkInv
  <2> QED BY <2>1 DEF WalkOf
<1>5. \A u \in Tasks : WalkOf(u)'
    BY <1>3, <1>4
<1> QED BY <1>1, <1>5 DEF WalkInv

LEMMA WalkKept ==
    ASSUME WalkInv, UNCHANGED walk, Held \subseteq Held',
           \A t \in Tasks : pc'[t] # "map" => pc[t] # "map" \/ todo[t] = <<>>
    PROVE  WalkInv'
<1>1. todo' = todo /\ seen' = seen /\ old' = old
    BY DEF walk
<1>2. ASSUME NEW t \in Tasks PROVE WalkOf(t)'
  <2>1. WalkOf(t)
    BY DEF WalkInv
  <2> QED BY <1>1, <2>1 DEF WalkOf
<1> QED BY <1>1, <1>2 DEF WalkInv

\* A walk starts with the slots of the root: every id is under one of them.
LEMMA AskWalk ==
    ASSUME Inv, WalkInv, NEW t \in Tasks, NEW c \in Requests, Ask(t, c), Held \subseteq Held'
    PROVE  WalkInv'
<1> DEFINE q == IF c.op = "map" THEN SlotsOf(<<>>) ELSE <<>>
           o == IF c.op = "map" THEN Held ELSE {}
<1>1. <<>> \in Seq(Digits) /\ <<>> \in Seq(Slots) /\ <<>> \in Seq(Ids) /\ Len(<<>>) = 0
    OBVIOUS
<1>2. q \in Seq(Slots) /\ InTrieOrder(q)
  <2>1. SlotsOf(<<>>) \in Seq(Slots) /\ InTrieOrder(SlotsOf(<<>>))
    BY <1>1, SlotsRight
  <2>2. <<>> \in Seq(Slots) /\ InTrieOrder(<<>>)
    BY <1>1 DEF InTrieOrder
  <2> QED BY <2>1, <2>2
<1>3. o \in SUBSET Ids /\ o \subseteq Held'
    BY DEF Held
<1>4. todo' = [todo EXCEPT ![t] = q] /\ seen' = [seen EXCEPT ![t] = <<>>] /\ old' = [old EXCEPT ![t] = o]
    BY DEF Ask, Held
<1>5. pc' = [pc EXCEPT ![t] = c.op]
    BY DEF Ask, Goto
<1>6. \A i \in o : \E n \in 1..Len(q) : i \in Under(q[n])
  <2> SUFFICES ASSUME NEW i \in o PROVE \E n \in 1..Len(q) : i \in Under(q[n])
    OBVIOUS
  <2>1. c.op = "map" /\ i \in Ids /\ q = SlotsOf(<<>>)
    BY DEF Held
  <2>2. i \in Under(Dir(<<>>))
    BY <1>1, <2>1, IdPrefix DEF Under, Dir
  <2> HIDE DEF q
  <2> QED BY <1>1, <2>1, <2>2, SlotsRight
<1>7. pc'[t] = c.op /\ \A u \in Tasks \ {t} : pc'[u] = pc[u]
    BY <1>5 DEF Inv, TypeOK
<1>8. pc'[t] # "map" => q = <<>>
    BY <1>7
<1> DEFINE h == <<>>
<1>9. h \in Seq(Ids) /\ \A n \in 1..Len(h) : FALSE
    BY <1>1
<1>10. seen' = [seen EXCEPT ![t] = h]
    BY <1>4
<1> HIDE DEF q, o, h
<1> QED BY <1>2, <1>3, <1>4, <1>6, <1>7, <1>8, <1>9, <1>10, WalkMoves, ZenonT(30)

\* An element slot is read once; what is there is handed over.
LEMMA MapElemWalk ==
    ASSUME Inv, WalkInv, NEW t \in Tasks, MapElem(t), Held \subseteq Held'
    PROVE  WalkInv'
<1> DEFINE q == todo[t]
           x == Head(q).at
           r == Tail(q)
           h == IF Holds(x) THEN Append(seen[t], x) ELSE seen[t]
<1>1. WalkOf(t) /\ q \in Seq(Slots) /\ q # <<>> /\ Head(q).kind = "elem" /\ Head(q) = q[1] /\ Len(q) \in Nat \ {0}
      /\ seen[t] \in Seq(Ids) /\ Len(seen[t]) \in Nat
    BY HeadTailProperties, LenProperties, EmptySeq DEF WalkInv, MapElem
<1>2. /\ todo' = [todo EXCEPT ![t] = r] /\ seen' = [seen EXCEPT ![t] = h]
      /\ old' = [old EXCEPT ![t] = old[t]] /\ pc' = pc /\ pc[t] = "map" /\ elems' = elems
    BY DEF MapElem, WalkInv, setVars
<1>3. Under(q[1]) = {i \in Ids : i = x}
    BY <1>1 DEF Under
<1> DEFINE none == <<>>
<1>4. r = none \o Tail(q) /\ none \in Seq(Slots) /\ InTrieOrder(none) /\ Len(none) = 0
      /\ \A n \in 1..Len(none) : FALSE
  <2>1. Tail(q) \in Seq(Slots)
    BY <1>1, HeadTailProperties
  <2> QED BY <2>1, ConcatEmptySeq DEF InTrieOrder
<1> HIDE DEF q, x, r, none
<1>5. /\ r \in Seq(Slots) /\ InTrieOrder(r)
      /\ \A n \in 1..Len(r) : \E k \in 2..Len(q) : r[n] = q[k]
      /\ \A k \in 2..Len(q) : \E n \in 1..Len(r) : r[n] = q[k]
  <2>1. InTrieOrder(q) /\ \A n \in 1..Len(none) : Under(none[n]) \subseteq Under(Head(q))
    BY <1>1, <1>4 DEF WalkOf, q
  <2> DEFINE s == none \o Tail(q)
  <2>a. q \in Seq(Slots) /\ q # <<>> /\ none \in Seq(Slots) /\ InTrieOrder(none)
    BY <1>1, <1>4
  <2>2. /\ s \in Seq(Slots) /\ InTrieOrder(s)
        /\ \A n \in 1..Len(s) : n <= Len(none) \/ \E k \in 2..Len(q) : s[n] = q[k]
        /\ \A k \in 2..Len(q) : \E n \in 1..Len(s) : s[n] = q[k]
    BY <2>a, <2>1, Expand, Zenon
  <2>r. r = s
    BY <1>4
  <2> HIDE DEF s
  <2>3. \A n \in 1..Len(r) : ~(n <= Len(none))
    BY <1>4
  <2> QED BY <2>2, <2>3, <2>r
<1>6. h \in Seq(Ids)
    BY <1>1 DEF Holds
<1>7. /\ Len(h) \in Nat /\ Len(h) >= Len(seen[t]) /\ \A n \in 1..Len(seen[t]) : n \in 1..Len(h) /\ h[n] = seen[t][n]
      /\ \A n \in 1..Len(h) : n \in 1..Len(seen[t]) \/ (Holds(x) /\ n = Len(seen[t]) + 1 /\ h[n] = x)
      /\ Holds(x) => Len(seen[t]) + 1 \in 1..Len(h) /\ h[Len(seen[t]) + 1] = x
    BY <1>1
<1>8. \A m \in 1..Len(seen[t]), n \in 1..Len(q) : \A j \in Under(q[n]) : Before(seen[t][m], j)
    BY <1>1 DEF WalkOf, q
<1>9. Holds(x) => x \in Under(q[1])
    BY <1>3 DEF Holds
<1> HIDE DEF h
<1>10. \A m \in 1..Len(h), n \in 1..Len(r) : \A j \in Under(r[n]) : Before(h[m], j)
  <2> SUFFICES ASSUME NEW m \in 1..Len(h), NEW n \in 1..Len(r), NEW j \in Under(r[n])
               PROVE  Before(h[m], j)
    OBVIOUS
  <2>1. PICK k \in 2..Len(q) : r[n] = q[k]
    BY <1>5
  <2>2. 1 \in 1..Len(q) /\ k \in 1..Len(q) /\ 1 < k
    BY <1>1
  <2>3. Ahead(q[1], q[k])
    BY <1>1, <2>2 DEF WalkOf, InTrieOrder, q
  <2> QED BY <1>7, <1>8, <1>9, <2>1, <2>2, <2>3 DEF Ahead
<1>11. \A m, n \in 1..Len(h) : m < n => Before(h[m], h[n])
  <2> SUFFICES ASSUME NEW m \in 1..Len(h), NEW n \in 1..Len(h), m < n PROVE Before(h[m], h[n])
    OBVIOUS
  <2>1. m \in 1..Len(seen[t])
    BY <1>1, <1>7
  <2>2. 1 \in 1..Len(q)
    BY <1>1
  <2> QED BY <1>1, <1>7, <1>8, <1>9, <2>1, <2>2, ZenonT(30) DEF WalkOf
<1>12. \A i \in old[t] : \/ \E n \in 1..Len(h) : h[n] = i
                         \/ \E n \in 1..Len(r) : i \in Under(r[n])
  <2> SUFFICES ASSUME NEW i \in old[t]
               PROVE  \/ \E n \in 1..Len(h) : h[n] = i
                      \/ \E n \in 1..Len(r) : i \in Under(r[n])
    OBVIOUS
  <2>1. CASE \E n \in 1..Len(seen[t]) : seen[t][n] = i
    BY <1>7, <2>1
  <2>2. ASSUME NEW n \in 1..Len(q), i \in Under(q[n])
        PROVE  \/ \E k \in 1..Len(h) : h[k] = i
               \/ \E k \in 1..Len(r) : i \in Under(r[k])
    <3>1. CASE n = 1
      <4>1. i = x /\ Holds(x)
        BY <1>1, <1>3, <2>2, <3>1 DEF WalkOf, Held, Holds
      <4> QED BY <1>7, <4>1
    <3>2. CASE n \in 2..Len(q)
      BY <1>5, <2>2, <3>2
    <3> QED BY <1>1, <3>1, <3>2
  <2> QED BY <1>1, <2>1, <2>2 DEF WalkOf, q
<1>13. old[t] \in SUBSET Ids /\ old[t] \subseteq Held'
    BY <1>1 DEF WalkInv, WalkOf
<1> QED BY <1>2, <1>5, <1>6, <1>10, <1>11, <1>12, <1>13, WalkMoves

\* A sub-node that is linked is replaced by its slots; one that is not has
\* nothing under it that was in the set when the walk began.
LEMMA MapDirWalk ==
    ASSUME Inv, WalkInv, NEW t \in Tasks, MapDir(t), Held \subseteq Held'
    PROVE  WalkInv'
<1> DEFINE q == todo[t]
           p == Head(q).at
           r == IF p \in dirs THEN SlotsOf(p) ELSE <<>>
           s == r \o Tail(q)
<1>1. /\ WalkOf(t) /\ q \in Seq(Slots) /\ q # <<>> /\ Head(q) = q[1] /\ Len(q) \in Nat \ {0}
      /\ seen[t] \in Seq(Ids) /\ Len(seen[t]) \in Nat
    BY HeadTailProperties, LenProperties, EmptySeq DEF WalkInv, MapDir
<1>2. Head(q) \in Slots /\ Head(q).kind = "dir"
    BY <1>1, HeadTailProperties DEF MapDir
<1>3. p \in Seq(Digits) /\ Head(q) = Dir(p)
    BY <1>2 DEF Slots, Dir
<1>4. todo' = [todo EXCEPT ![t] = s] /\ UNCHANGED <<seen, old, pc, elems, dirs>> /\ pc[t] = "map"
    BY DEF MapDir, setVars
<1>5. /\ r \in Seq(Slots) /\ InTrieOrder(r)
      /\ \A n \in 1..Len(r) : Under(r[n]) \subseteq Under(Head(q))
      /\ \A i \in old[t] : i \in Under(Head(q)) => \E n \in 1..Len(r) : i \in Under(r[n])
  <2>1. CASE p \in dirs
    <3>1. r = SlotsOf(p)
      BY <2>1
    <3> HIDE DEF r, p, q
    <3> QED BY <1>3, <3>1, SlotsRight
  <2>2. CASE p \notin dirs
    <3>1. r = <<>>
      BY <2>2
    <3>2. ASSUME NEW i \in old[t], i \in Under(Head(q)) PROVE FALSE
      <4>1. p \in Prefixes(i)
        BY <1>3, <3>2, NodeAbove
      <4>2. i \in Held
        BY <1>1, <3>2 DEF WalkOf
      <4>3. Prefixes(i) \subseteq dirs
        BY <4>2 DEF Inv, Stored, Held
      <4> QED BY <2>2, <4>1, <4>3
    <3>3. <<>> \in Seq(Slots) /\ \A n \in 1..Len(<<>>) : FALSE
      OBVIOUS
    <3> HIDE DEF r, p, q
    <3> QED BY <3>1, <3>2, <3>3 DEF InTrieOrder
  <2> QED BY <2>1, <2>2
<1>6. InTrieOrder(q)
    BY <1>1 DEF WalkOf
<1> HIDE DEF p, q, r
<1>7. /\ s \in Seq(Slots) /\ InTrieOrder(s)
      /\ \A n \in 1..Len(s) : \E k \in 1..Len(q) : Under(s[n]) \subseteq Under(q[k])
      /\ \A k \in 2..Len(q) : \E n \in 1..Len(s) : s[n] = q[k]
      /\ \A k \in 1..Len(r) : k \in 1..Len(s) /\ s[k] = r[k]
    BY <1>1, <1>5, <1>6, Expand, Zenon
<1> HIDE DEF s
<1>8. \A m \in 1..Len(seen[t]), n \in 1..Len(q) : \A j \in Under(q[n]) : Before(seen[t][m], j)
    BY <1>1 DEF WalkOf, q
<1>9. \A m \in 1..Len(seen[t]), n \in 1..Len(s) : \A j \in Under(s[n]) : Before(seen[t][m], j)
    BY <1>7, <1>8
<1>10. ASSUME NEW i \in old[t]
       PROVE  \/ \E n \in 1..Len(seen[t]) : seen[t][n] = i
              \/ \E n \in 1..Len(s) : i \in Under(s[n])
  <2>1. ASSUME NEW k \in 1..Len(q), i \in Under(q[k]) PROVE \E n \in 1..Len(s) : i \in Under(s[n])
    <3>1. CASE k = 1
      <4>1. PICK n \in 1..Len(r) : i \in Under(r[n])
        BY <1>1, <1>5, <2>1, <3>1
      <4> QED BY <1>7, <4>1
    <3>2. CASE k \in 2..Len(q)
      BY <1>7, <2>1, <3>2
    <3> QED BY <1>1, <3>1, <3>2
  <2>2. \/ \E n \in 1..Len(seen[t]) : seen[t][n] = i
        \/ \E k \in 1..Len(q) : i \in Under(q[k])
    BY <1>1 DEF WalkOf, q
  <2> QED BY <2>1, <2>2
<1>11. /\ seen' = [seen EXCEPT ![t] = seen[t]] /\ old' = [old EXCEPT ![t] = old[t]]
       /\ old[t] \in SUBSET Ids /\ old[t] \subseteq Held' /\ pc' = pc
       /\ \A m, n \in 1..Len(seen[t]) : m < n => Before(seen[t][m], seen[t][n])
    BY <1>1, <1>4 DEF WalkInv, WalkOf
<1>12. pc'[t] = "map" /\ \A u \in Tasks \ {t} : pc'[u] = pc[u]
    BY <1>4
<1>13. todo' = [todo EXCEPT ![t] = s] /\ seen[t] \in Seq(Ids)
    BY <1>1, <1>4
<1> QED BY <1>1, <1>7, <1>9, <1>10, <1>11, <1>12, <1>13, WalkMoves

LEMMA WalkStep == Inv /\ WalkInv /\ [Next]_vars => WalkInv'
<1> SUFFICES ASSUME Inv, WalkInv, [Next]_vars PROVE WalkInv'
    OBVIOUS
<1>1. Held \subseteq Held'
    BY HeldGrows
<1>2. ASSUME NEW t \in Tasks,
             \/ Descend(t) \/ NewIdx(t) \/ NoMem(t) \/ Link(t) \/ LinkLost(t) \/ LoadFree(t)
             \/ Conflict(t) \/ Store(t) \/ StoreLost(t) \/ Count(t)
             \/ GetDown(t) \/ GetNoIdx(t) \/ GetElem(t) \/ MapEnd(t) \/ Return(t)
      PROVE  WalkInv'
  <2>1. UNCHANGED walk
    BY <1>2 DEF Descend, NewIdx, NoMem, Link, LinkLost, LoadFree, Conflict, Store, StoreLost, Count,
                GetDown, GetNoIdx, GetElem, MapEnd, Return
  <2>2. \A u \in Tasks : pc'[u] # "map" => pc[u] # "map" \/ todo[u] = <<>>
    BY <1>2 DEF Descend, NewIdx, NoMem, Link, LinkLost, LoadFree, Conflict, Store, StoreLost, Count,
                GetDown, GetNoIdx, GetElem, MapEnd, Return, Goto, Inv, TypeOK
  <2> QED BY <1>1, <2>1, <2>2, WalkKept
<1>3. CASE UNCHANGED vars
    BY <1>1, <1>3, WalkKept DEF vars
<1> QED BY <1>1, <1>2, <1>3, AskWalk, MapElemWalk, MapDirWalk DEF Next, Step

\* knd_shared_set_map, traverse_idx.  A walk that runs among any number of adds
\* hands over all that was in the set when it began, nothing twice and in the
\* order of the trie.
THEOREM WalkComplete == Spec => []WalkMissesNothing
<1>1. Init => WalkInv
  <2> SUFFICES ASSUME Init PROVE WalkInv
    OBVIOUS
  <2> DEFINE none == <<>>
  <2>1. none \in Seq(Slots) /\ none \in Seq(Ids) /\ \A n \in 1..Len(none) : FALSE
    OBVIOUS
  <2>2. todo = [t \in Tasks |-> none] /\ seen = [t \in Tasks |-> none] /\ old = [t \in Tasks |-> {}]
    BY DEF Init
  <2>3. none = <<>>
    OBVIOUS
  <2> HIDE DEF none
  <2>4. ASSUME NEW t \in Tasks PROVE WalkOf(t)
    <3>1. todo[t] = none /\ seen[t] = none /\ old[t] = {}
      BY <2>2
    <3> QED BY <2>1, <2>3, <3>1 DEF WalkOf, InTrieOrder
  <2>5. todo \in [Tasks -> Seq(Slots)] /\ seen \in [Tasks -> Seq(Ids)] /\ old \in [Tasks -> SUBSET Ids]
    BY <2>1, <2>2
  <2> QED BY <2>4, <2>5 DEF WalkInv
<1>2. WalkInv => WalkMissesNothing
  <2> SUFFICES ASSUME WalkInv, NEW t \in Tasks
               PROVE  /\ \A m, n \in 1..Len(seen[t]) : m < n => Before(seen[t][m], seen[t][n])
                      /\ pc[t] = "done" => old[t] \subseteq {seen[t][n] : n \in 1..Len(seen[t])}
    BY DEF WalkMissesNothing
  <2>1. WalkOf(t)
    BY DEF WalkInv
  <2>2. ASSUME pc[t] = "done" PROVE old[t] \subseteq {seen[t][n] : n \in 1..Len(seen[t])}
    <3>1. todo[t] = <<>>
      BY <2>1, <2>2 DEF WalkOf
    <3>2. \A n \in 1..Len(<<>>) : FALSE
      OBVIOUS
    <3> QED BY <2>1, <3>1, <3>2 DEF WalkOf
  <2> QED BY <2>1, <2>2 DEF WalkOf
<1> QED BY <1>1, <1>2, InitInv, StepInv, WalkStep, PTL DEF Spec
=============================================================================
