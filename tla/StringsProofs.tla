---------------------------- MODULE StringsProofs ----------------------------
(***************************************************************************)
(* Proofs about Strings, for any strings and tasks and any bounds.  In the *)
(* first run the numbers the tasks hold are distinct and their ids free,   *)
(* so a string that is entered gets its id; an id that is taken is never   *)
(* given to another string, in any run.                                    *)
(***************************************************************************)
EXTENDS Strings, FiniteSetTheorems, TLAPS

\* No number and no string is NULL, and the bound is a number.
Proper == None \notin Nat \cup Vals /\ MaxStrs \in Nat

TypeOK ==
    /\ dict \in [Vals -> Nat \cup {None}]
    /\ idx \in [Ids -> Vals \cup {None}]
    /\ numStrs \in Nat
    /\ pc \in [Tasks -> {"idle", "number", "enter", "index", "failed"}]
    /\ val \in [Tasks -> Vals \cup {None}]
    /\ num \in [Tasks -> Nat \cup {None}]
    /\ used \subseteq [v : Vals, n : Nat]
    /\ file \in [Ids -> Vals \cup {None}] \cup {None}
    /\ restarts \in Nat
    /\ \A t \in Tasks : /\ pc[t] # "idle" => val[t] \in Vals
                        /\ pc[t] \in {"enter", "index"} => num[t] \in Nat

\* The numbers given are below num_strs, those that are under way have no id yet.
NumsGiven ==
    /\ \A n \in Ids : n >= numStrs => idx[n] = None
    /\ \A t \in Tasks : pc[t] \in {"enter", "index"} =>
          num[t] \in Ids /\ num[t] < numStrs /\ idx[num[t]] = None
    /\ \A t, u \in Tasks : t # u /\ pc[t] \in {"enter", "index"} /\ pc[u] \in {"enter", "index"}
                           => num[t] # num[u]

\* String v decodes from n, or the task that entered it is about to add its id.
Decodes(v, n) == \/ n \in Ids /\ idx[n] = v
                 \/ \E t \in Tasks : pc[t] = "index" /\ num[t] = n /\ val[t] = v

FirstRun ==
    restarts = 0 =>
        /\ NumsGiven
        /\ \A v \in Vals, n \in Nat : dict[v] = n => Decodes(v, n)
        /\ \A u \in used : Decodes(u.v, u.n)

Inv == TypeOK /\ FileKept /\ FirstRun

LEMMA InitInv == ASSUME Proper PROVE StringsInit => Inv
<1> SUFFICES ASSUME StringsInit PROVE Inv
    OBVIOUS
<1>1. TypeOK /\ FileKept
    BY DEF StringsInit, TypeOK, FileKept
<1>2. FirstRun
    BY DEF StringsInit, FirstRun, NumsGiven, Proper
<1> QED BY <1>1, <1>2 DEF Inv

LEMMA TypeStep == ASSUME Proper, Inv, [StringsNext]_stringVars PROVE TypeOK' /\ FileKept'
<1> USE DEF Inv, TypeOK, FileKept, Move
<1>1. ASSUME NEW t \in Tasks, NEW v \in Vals, Fetch(t, v) PROVE TypeOK' /\ FileKept'
    BY <1>1 DEF Fetch
<1>2. ASSUME NEW t \in Tasks, Number(t) PROVE TypeOK' /\ FileKept'
    BY <1>2 DEF Number, NextNum
<1>3. ASSUME NEW t \in Tasks, Enter(t) PROVE TypeOK' /\ FileKept'
    BY <1>3 DEF Enter
<1>4. ASSUME NEW t \in Tasks, AddToIdx(t) PROVE TypeOK' /\ FileKept'
  <2>1. /\ idx' = idx \/ (idx[num[t]] = None /\ idx' = [idx EXCEPT ![num[t]] = val[t]])
        /\ pc[t] = "index" /\ pc' \in {[pc EXCEPT ![t] = "idle"], [pc EXCEPT ![t] = "failed"]}
        /\ UNCHANGED <<dict, val, num, file, restarts>>
    BY <1>4 DEF AddToIdx, IdFree
  <2>2. val[t] \in Vals
    BY <2>1
  <2>3. idx' \in [Ids -> Vals \cup {None}]
    BY <2>1, <2>2
  <2>4. FileKept'
    BY <2>1
  <2>5. /\ pc' \in [Tasks -> {"idle", "number", "enter", "index", "failed"}]
        /\ \A u \in Tasks : /\ pc'[u] # "idle" => val'[u] \in Vals
                            /\ pc'[u] \in {"enter", "index"} => num'[u] \in Nat
    BY <2>1, <2>2
  <2>6. numStrs' = numStrs /\ (used' = used \/ used' = used \cup {[v |-> val[t], n |-> num[t]]})
    BY <1>4 DEF AddToIdx
  <2>7. num[t] \in Nat
    BY <2>1
  <2> QED BY <2>1, <2>2, <2>3, <2>4, <2>5, <2>6, <2>7
<1>5. ASSUME NEW t \in Tasks, GiveUp(t) PROVE TypeOK' /\ FileKept'
    BY <1>5 DEF GiveUp
<1>6. CASE Snapshot
    BY <1>6 DEF Snapshot
<1>7. CASE Reopen
  <2>1. Cardinality(Read) \in Nat
    <3>1. Read \subseteq 0..MaxStrs
      BY DEF Read, Ids
    <3>2. IsFiniteSet(0..MaxStrs)
      BY FS_Interval DEF Proper
    <3> QED BY <3>1, <3>2, FS_Subset, FS_CardinalityType
  <2> QED BY <1>7, <2>1 DEF Reopen
<1>8. CASE UNCHANGED stringVars
    BY <1>8 DEF stringVars
<1> QED BY <1>1, <1>2, <1>3, <1>4, <1>5, <1>6, <1>7, <1>8 DEF StringsNext

\* Nothing of the first run is lost: a string that is entered keeps its id.
LEMMA FirstRunStep == ASSUME Proper, Inv, [StringsNext]_stringVars PROVE FirstRun'
<1> DEFINE Holds == /\ NumsGiven'
                    /\ \A v \in Vals, n \in Nat : dict'[v] = n => Decodes(v, n)'
                    /\ \A u \in used' : Decodes(u.v, u.n)'
<1> SUFFICES ASSUME restarts' = 0 PROVE Holds
    BY DEF FirstRun
<1>0. restarts = 0 /\ ~Reopen
  <2>1. Reopen => restarts' # 0
    BY DEF Reopen, Inv, TypeOK
  <2>2. ~Reopen => restarts' = restarts
    BY DEF StringsNext, Fetch, Number, Enter, AddToIdx, GiveUp, Snapshot, stringVars
  <2> QED BY <2>1, <2>2
<1>1. /\ NumsGiven
      /\ \A v \in Vals, n \in Nat : dict[v] = n => Decodes(v, n)
      /\ \A u \in used : Decodes(u.v, u.n)
    BY <1>0 DEF Inv, FirstRun
<1>t. TypeOK
    BY DEF Inv
<1> USE DEF Move
<1>2. ASSUME NEW t \in Tasks, NEW w \in Vals, Fetch(t, w) PROVE Holds
  <2>1. /\ \E l \in {"number", "idle"} : pc' = [pc EXCEPT ![t] = l]
        /\ pc[t] = "idle" /\ val' = [val EXCEPT ![t] = w]
        /\ UNCHANGED <<dict, idx, numStrs, num>>
    BY <1>2 DEF Fetch
  <2>2. \A u \in Tasks : pc[u] = "index" => pc'[u] = "index" /\ val'[u] = val[u]
    BY <1>t, <2>1 DEF TypeOK
  <2>3. \A v, n : Decodes(v, n) => Decodes(v, n)'
    BY <2>1, <2>2 DEF Decodes
  <2>4. NumsGiven'
    <3>1. \A u \in Tasks : pc'[u] \in {"enter", "index"} => pc[u] \in {"enter", "index"}
      BY <1>t, <2>1 DEF TypeOK
    <3> QED BY <1>1, <2>1, <3>1 DEF NumsGiven
  <2>5. ASSUME NEW u \in used' PROVE Decodes(u.v, u.n)
    <3>1. u \in used \/ (dict[w] # None /\ u = [v |-> w, n |-> dict[w]])
      BY <1>2, <2>5 DEF Fetch
    <3> QED BY <1>1, <1>t, <3>1 DEF TypeOK
  <2> QED BY <1>1, <2>1, <2>3, <2>4, <2>5
<1>3. ASSUME NEW t \in Tasks, Number(t) PROVE Holds
  <2>1. /\ pc' = [pc EXCEPT ![t] = "enter"] /\ pc[t] = "number" /\ num' = [num EXCEPT ![t] = numStrs]
        /\ numStrs' = numStrs + 1 /\ numStrs < MaxStrs /\ UNCHANGED <<dict, idx, val, used>>
    BY <1>3 DEF Number, NextNum
  <2>2. \A u \in Tasks \ {t} : pc'[u] = pc[u] /\ num'[u] = num[u]
    BY <1>t, <2>1 DEF TypeOK
  <2>3. num'[t] = numStrs /\ pc'[t] = "enter" /\ numStrs \in Ids /\ numStrs \in Nat
    BY <1>t, <2>1 DEF TypeOK, Ids, Proper
  <2>4. \A v, n : Decodes(v, n) => Decodes(v, n)'
    BY <2>1, <2>2 DEF Decodes
  <2>5. NumsGiven'
    <3>1. \A n \in Ids : n \in Nat /\ (n >= numStrs => idx[n] = None)
      BY <1>1, <1>t DEF NumsGiven, Ids
    <3>2. \A n \in Ids : n >= numStrs + 1 => idx[n] = None
      BY <2>3, <3>1
    <3>3. idx[numStrs] = None
      BY <2>3, <3>1
    <3>4. \A u \in Tasks \ {t} : pc[u] \in {"enter", "index"} =>
              num[u] \in Ids /\ num[u] < numStrs + 1 /\ num[u] # numStrs /\ idx[num[u]] = None
      BY <1>1, <2>3, <3>1 DEF NumsGiven
    <3> QED BY <1>1, <2>1, <2>2, <2>3, <3>2, <3>3, <3>4 DEF NumsGiven
  <2> QED BY <1>1, <2>1, <2>4, <2>5
<1>4. ASSUME NEW t \in Tasks, Enter(t) PROVE Holds
  <2>1. /\ pc[t] = "enter" /\ val[t] \in Vals /\ UNCHANGED <<idx, numStrs, val, num, used>>
        /\ \A u \in Tasks \ {t} : pc'[u] = pc[u]
        /\ \/ pc'[t] = "index" /\ dict' = [dict EXCEPT ![val[t]] = num[t]]
           \/ pc'[t] = "failed" /\ dict' = dict
    BY <1>4, <1>t DEF Enter, TypeOK
  <2>2. \A v, n : Decodes(v, n) => Decodes(v, n)'
    BY <2>1 DEF Decodes
  <2>3. NumsGiven'
    BY <1>1, <2>1 DEF NumsGiven
  <2>4. ASSUME NEW v \in Vals, NEW n \in Nat, dict'[v] = n PROVE Decodes(v, n)'
    <3>1. CASE dict[v] = n
      BY <1>1, <2>2, <3>1
    <3>2. CASE dict[v] # n
      <4>1. v = val[t] /\ n = num[t] /\ pc'[t] = "index"
        BY <1>t, <2>1, <2>4, <3>2 DEF TypeOK
      <4> QED BY <2>1, <4>1 DEF Decodes
    <3> QED BY <3>1, <3>2
  <2> QED BY <1>1, <2>1, <2>2, <2>3, <2>4
<1>5. ASSUME NEW t \in Tasks, AddToIdx(t) PROVE Holds
  <2>1. /\ pc[t] = "index" /\ val[t] \in Vals /\ num[t] \in Ids /\ idx[num[t]] = None
    BY <1>1, <1>5, <1>t DEF AddToIdx, TypeOK, NumsGiven
  <2>2. /\ pc' = [pc EXCEPT ![t] = "idle"] /\ idx' = [idx EXCEPT ![num[t]] = val[t]]
        /\ used' = used \cup {[v |-> val[t], n |-> num[t]]} /\ UNCHANGED <<dict, numStrs, val, num>>
    BY <1>5, <2>1 DEF AddToIdx, IdFree
  <2>3. /\ \A u \in Tasks \ {t} : pc'[u] = pc[u]
        /\ pc'[t] = "idle" /\ idx'[num[t]] = val[t]
        /\ \A n \in Ids \ {num[t]} : idx'[n] = idx[n]
    BY <1>t, <2>1, <2>2 DEF TypeOK
  <2>4. ASSUME NEW v \in Vals, NEW n, Decodes(v, n) PROVE Decodes(v, n)'
    <3>1. CASE n \in Ids /\ idx[n] = v
      <4>1. n # num[t]
        BY <2>1, <3>1 DEF Proper
      <4> QED BY <2>3, <3>1, <4>1 DEF Decodes
    <3>2. ASSUME NEW u \in Tasks, pc[u] = "index", num[u] = n, val[u] = v PROVE Decodes(v, n)'
      <4>1. CASE u = t
        BY <2>1, <2>3, <3>2, <4>1 DEF Decodes
      <4>2. CASE u # t
        BY <2>2, <2>3, <3>2, <4>2 DEF Decodes
      <4> QED BY <4>1, <4>2
    <3> QED BY <2>4, <3>1, <3>2 DEF Decodes
  <2>5. NumsGiven'
    <3>1. \A u \in Tasks \ {t} : pc[u] \in {"enter", "index"} => num[u] # num[t]
      BY <1>1, <2>1 DEF NumsGiven
    <3>2. \A n \in Ids : n >= numStrs => n # num[t]
      BY <1>1, <1>t, <2>1 DEF NumsGiven, TypeOK, Ids
    <3>3. \A n \in Ids : n >= numStrs => idx'[n] = None
      BY <1>1, <2>3, <3>2 DEF NumsGiven
    <3> QED BY <1>1, <2>2, <2>3, <3>1, <3>3 DEF NumsGiven
  <2>6. Decodes(val[t], num[t])'
    BY <2>1, <2>2, <2>3 DEF Decodes
  <2>7. \A u \in used : u.v \in Vals
    BY <1>t DEF TypeOK
  <2>8. ASSUME NEW u \in used' PROVE Decodes(u.v, u.n)'
    <3>1. CASE u \in used
      BY <1>1, <2>4, <2>7, <3>1
    <3>2. CASE u = [v |-> val[t], n |-> num[t]]
      BY <2>1, <2>2, <2>3, <3>2 DEF Decodes
    <3> QED BY <2>2, <3>1, <3>2
  <2> QED BY <1>1, <2>2, <2>4, <2>5, <2>8
<1>6. ASSUME NEW t \in Tasks, GiveUp(t) PROVE Holds
  <2>1. /\ pc[t] = "failed" /\ pc' = [pc EXCEPT ![t] = "idle"] /\ UNCHANGED <<dict, idx, numStrs, val, num, used>>
    BY <1>6 DEF GiveUp
  <2>2. \A u \in Tasks : pc'[u] \in {"enter", "index"} <=> pc[u] \in {"enter", "index"}
    BY <1>t, <2>1 DEF TypeOK
  <2>3. \A u \in Tasks : pc'[u] = "index" <=> pc[u] = "index"
    BY <1>t, <2>1 DEF TypeOK
  <2>4. \A v, n : Decodes(v, n) => Decodes(v, n)'
    BY <2>1, <2>3 DEF Decodes
  <2> QED BY <1>1, <2>1, <2>2, <2>4 DEF NumsGiven
<1>7. CASE Snapshot \/ UNCHANGED stringVars
  <2>1. UNCHANGED <<dict, idx, numStrs, pc, val, num, used>>
    BY <1>7 DEF Snapshot, stringVars
  <2>2. \A v, n : Decodes(v, n) => Decodes(v, n)'
    BY <2>1 DEF Decodes
  <2> QED BY <1>1, <2>1, <2>2 DEF NumsGiven
<1> QED BY <1>0, <1>2, <1>3, <1>4, <1>5, <1>6, <1>7 DEF StringsNext

LEMMA InvHolds == ASSUME Proper PROVE StringsSpec => []Inv
<1>1. Inv /\ [StringsNext]_stringVars => Inv'
    BY TypeStep, FirstRunStep DEF Inv
<1> QED BY InitInv, <1>1, PTL DEF StringsSpec

\* The numbers handed out in the first run decode to their strings
\* (knd_charseq_fetch, knd_charseq_decode), and what an id stands for in
\* strings.gsp it goes on standing for, over restarts and whatever is fetched.
THEOREM StringsKeepNumbers == ASSUME Proper PROVE StringsSpec => [](FirstRunDecodes /\ FileKept)
<1>1. Inv => FirstRunDecodes /\ FileKept
    BY DEF Inv, FirstRun, Decodes, FirstRunDecodes
<1> QED BY <1>1, InvHolds, PTL
=============================================================================
