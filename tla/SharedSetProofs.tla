--------------------------- MODULE SharedSetProofs ---------------------------
(***************************************************************************)
(* Proofs about the trie and the pool of MCShared, for any tasks, ids,     *)
(* elements and numbers of pages; a behaviour of MCShared is one of both   *)
(* structures (SetSteps, PoolSteps).                                       *)
(*                                                                         *)
(* The trie.  A linked node hangs in one slot, its digits are those of the *)
(* node it hangs in and one more, and no two of them have the same digits  *)
(* (Hangs); a task on its way down is in the linked node of the digits it  *)
(* has consumed (TaskOK), and the node it has made is nobody else's (Own). *)
(* The exchange keeps this because it fills an empty slot: the node that   *)
(* comes into it is the only one with its digits, and has no elements yet  *)
(* (Filled).  So every step is one of PathSet, where nodes are digits, and *)
(* what PathSetProofs shows of PathSet holds here.                         *)
(***************************************************************************)
EXTENDS MCShared, SequenceTheorems, FiniteSetTheorems, TLAPS

(***************************************************************************)
(* Digits                                                                  *)
(***************************************************************************)

LEMMA Cut ==
    ASSUME NEW i \in Seq(Digits), NEW n \in Nat, n <= Len(i)
    PROVE  SubSeq(i, 1, n) \in Seq(Digits) /\ Len(SubSeq(i, 1, n)) = n
<1>1. Len(i) \in Nat /\ \A k \in 1..Len(i) : i[k] \in Digits
    BY LenProperties, ElementOfSeq
<1>2. \A k \in 1..n : i[k] \in Digits
    BY <1>1
<1> QED BY <1>2, SubSeqProperties

\* knd_shared_set.c:210-260: an id is the digits that lead to a node, and one more.
LEMMA IdParts ==
    ASSUME NEW i \in Seq(Digits) \ {<<>>}
    PROVE  /\ Len(i) \in Nat \ {0}
           /\ Above(i) \in Seq(Digits) /\ Digit(i) \in Digits
           /\ i = Append(Above(i), Digit(i))
           /\ Len(Above(i)) = Len(i) - 1
<1>1. Len(i) \in Nat \ {0} /\ \A k \in 1..Len(i) : i[k] \in Digits
    BY EmptySeq, ElementOfSeq
<1>2. Above(i) \in Seq(Digits) /\ Len(Above(i)) = Len(i) - 1
  <2>1. Len(i) - 1 \in Nat /\ Len(i) - 1 <= Len(i)
    BY <1>1
  <2> QED BY <2>1, Cut DEF Above
<1>3. SubSeq(i, 1, Len(i)) = SubSeq(i, 1, Len(i) - 1) \o <<i[Len(i)]>>
  <2>1. 1 \in 1..Len(i) /\ Len(i) \in 1..Len(i)
    BY <1>1
  <2> QED BY <2>1, SubSeqRecursiveSecond
<1>4. SubSeq(i, 1, Len(i)) = i
    BY SubSeqFull
<1>5. Digit(i) \in Digits
    BY <1>1 DEF Digit
<1>6. Append(Above(i), Digit(i)) = Above(i) \o <<Digit(i)>>
    BY <1>2, <1>5, AppendIsConcat
<1> QED BY <1>1, <1>2, <1>3, <1>4, <1>5, <1>6 DEF Above, Digit

LEMMA Longer ==
    ASSUME NEW p \in Seq(Digits), NEW d \in Digits
    PROVE  /\ Append(p, d) \in Seq(Digits) \ {<<>>}
           /\ Above(Append(p, d)) = p /\ Digit(Append(p, d)) = d
<1>1. Append(p, d) \in Seq(Digits) \ {<<>>} /\ Len(Append(p, d)) = Len(p) + 1
      /\ Append(p, d)[Len(p) + 1] = d
    BY AppendProperties
<1>2. Digit(Append(p, d)) = d
    BY <1>1 DEF Digit
<1>3. /\ Append(p, d) = Append(Above(Append(p, d)), Digit(Append(p, d)))
      /\ Above(Append(p, d)) \in Seq(Digits)
    BY <1>1, IdParts
<1>4. Above(Append(p, d)) = p
    BY <1>2, <1>3, AppendInjective
<1> QED BY <1>1, <1>2, <1>4

LEMMA Same ==
    \A p, q \in Seq(Digits), d, e \in Digits : Append(p, d) = Append(q, e) => p = q /\ d = e
    BY Longer

\* The digit after the ones a task has consumed.
LEMMA NextDigit ==
    ASSUME NEW i \in Seq(Digits), NEW n \in Nat, n < Len(i)
    PROVE  /\ i[n + 1] \in Digits
           /\ SubSeq(i, 1, n) \in Seq(Digits)
           /\ SubSeq(i, 1, n + 1) = Append(SubSeq(i, 1, n), i[n + 1])
           /\ SubSeq(i, 1, n + 1) \in Seq(Digits) \ {<<>>}
<1>0. Len(i) \in Nat /\ 1 \in 1..Len(i) /\ n + 1 \in 1..Len(i)
    BY LenProperties
<1>1. \A k \in 1..Len(i) : i[k] \in Digits
    BY ElementOfSeq
<1>2. SubSeq(i, 1, n) \in Seq(Digits)
    BY <1>0, <1>1, SubSeqProperties
<1>3. SubSeq(i, 1, n + 1) = SubSeq(i, 1, n + 1 - 1) \o <<i[n + 1]>>
    BY <1>0, SubSeqRecursiveSecond
<1>4. Append(SubSeq(i, 1, n), i[n + 1]) = SubSeq(i, 1, n) \o <<i[n + 1]>>
    BY <1>0, <1>1, <1>2, AppendIsConcat
<1>5. n + 1 - 1 = n
    OBVIOUS
<1>6. SubSeq(i, 1, n + 1) = Append(SubSeq(i, 1, n), i[n + 1])
    BY <1>3, <1>4, <1>5
<1> QED BY <1>0, <1>1, <1>2, <1>6, Longer

LEMMA IdIs == \A i \in Ids : i \in Seq(Digits) \ {<<>>} /\ Len(i) \in Nat \ {0}
    BY SharedSetAssumption, IdParts

\* The slots of a node are of the ids one digit longer.
SlotsAt(D) == [kind : {"elem", "dir"}, at : {a \in Seq(Digits) \ {<<>>} : Above(a) \in D}]

LEMMA SlotsAre ==
    ASSUME NEW p \in Seq(Digits), NEW D, p \in D
    PROVE  SlotsOf(p) \in Seq(SlotsAt(D))
<1>1. Radix \in Nat /\ \A d \in 1..Radix : d - 1 \in Digits
    BY SharedSetAssumption DEF Digits
<1>2. \A d \in 1..Radix : Append(p, d - 1) \in {a \in Seq(Digits) \ {<<>>} : Above(a) \in D}
    BY <1>1, Longer
<1>3. IdSlots(p) \in Seq(SlotsAt(D))
    BY <1>1, <1>2 DEF IdSlots, Slot, SlotsAt
<1>4. DirSlots(p) \in Seq(SlotsAt(D))
    BY <1>1, <1>2 DEF DirSlots, Dir, SlotsAt
<1> QED BY <1>3, <1>4, ConcatProperties DEF SlotsOf

(***************************************************************************)
(* The invariant                                                           *)
(***************************************************************************)

PCs == {"idle", "add", "link", "store", "count", "get", "map", "done"}
Under == {"add", "link", "store", "get"}

TrieTypes ==
    /\ idxs \in [Idxs -> [Digits -> Idxs \cup {NULL}]]
    /\ elems \in [Idxs -> [Digits -> Elems \cup {NoElem}]]
    /\ made \in Idxs
    /\ path \in [Idxs -> Seq(Digits)]

\* A node hangs under one whose digits are all but its last: and never two of them
\* under the same digits.
Hangs ==
    /\ path[Root] = <<>>
    /\ \A n \in Idxs, d \in Digits : idxs[n][d] # NULL =>
          n \in Linked /\ idxs[n][d] <= made /\ path[idxs[n][d]] = Append(path[n], d)
    /\ \A m, n \in Linked : path[m] = path[n] => m = n

\* What is not linked holds no element, and an element is of an id.
Filled == \A n \in Idxs, d \in Digits : elems[n][d] # NoElem =>
              n \in Linked /\ Append(path[n], d) \in Ids

Trie == TrieTypes /\ Hangs /\ Filled

\* A task on its way down is in the linked node of the digits it has consumed, and a
\* node it has made is nobody else's.
FramesOK(f) == \A p \in DOMAIN f : f[p] \in Linked /\ path[f[p]] = p
TaskOK(l, c, n, m, d, k, f) ==
    /\ l \in PCs /\ c \in Set!Calls /\ n \in Idxs /\ m \in Idxs \cup {NULL} /\ d \in Nat
    /\ l \in {"add", "link", "store"} => c.op = "add"
    /\ l = "get" => c.op = "get"
    /\ l \in Under => n \in Linked /\ d < Len(c.id) /\ path[n] = SubSeq(c.id, 1, d)
    /\ l = "link" => /\ d + 1 # Len(c.id)
                     /\ m \in Idxs /\ m <= made /\ m \notin Linked
                     /\ path[m] = SubSeq(c.id, 1, d + 1)
    /\ l = "store" => d + 1 = Len(c.id)
    /\ l = "map" => FramesOK(f) /\ k \in Seq(SlotsAt(DOMAIN f))

TasksOK == \A t \in Tasks : TaskOK(pc[t], req[t], idx[t], new[t], depth[t], todo[t], frames[t])

Own == \A t, u \in Tasks : pc[t] = "link" /\ pc[u] = "link" /\ new[t] = new[u] => t = u

Ours == /\ DOMAIN pc = Tasks /\ DOMAIN req = Tasks /\ DOMAIN idx = Tasks
        /\ DOMAIN new = Tasks /\ DOMAIN depth = Tasks /\ DOMAIN todo = Tasks
        /\ DOMAIN frames = Tasks

Inv == Trie /\ TasksOK /\ Own /\ Ours

---------------------------------------------------------------------------
(* The trie, and what it says of the map of digits *)

LEMMA NumNodes == NumPages \in Nat /\ Root \in Idxs /\ NULL \notin Idxs /\ Root # NULL
    BY SharedSetAssumption DEF Root, NULL, Idxs

LEMMA LinkedIs ==
    TrieTypes /\ Hangs =>
       /\ Root \in Linked /\ Linked \subseteq Idxs
       /\ \A n \in Linked : n <= made /\ path[n] \in Seq(Digits)
       /\ \A n \in Idxs, d \in Digits : idxs[n][d] # NULL => idxs[n][d] \in Linked
       /\ \A m \in Linked : m # Root => \E n \in Linked, d \in Digits : m = idxs[n][d]
<1> SUFFICES ASSUME TrieTypes, Hangs PROVE
       /\ Root \in Linked /\ Linked \subseteq Idxs
       /\ \A n \in Linked : n <= made /\ path[n] \in Seq(Digits)
       /\ \A n \in Idxs, d \in Digits : idxs[n][d] # NULL => idxs[n][d] \in Linked
       /\ \A m \in Linked : m # Root => \E n \in Linked, d \in Digits : m = idxs[n][d]
    OBVIOUS
<1>1. Root \in Linked /\ Linked \subseteq Idxs
    BY NumNodes DEF TrieTypes, Linked
<1>2. \A n \in Idxs, d \in Digits : idxs[n][d] # NULL => idxs[n][d] \in Linked
    BY DEF Linked
<1>3. \A m \in Linked : m # Root => \E n \in Linked, d \in Digits : m = idxs[n][d]
  <2> TAKE m \in Linked
  <2> HAVE m # Root
  <2>1. m \in {idxs[n][d] : n \in Idxs, d \in Digits} /\ m # NULL
    BY DEF Linked
  <2>2. PICK n \in Idxs, d \in Digits : m = idxs[n][d]
    BY <2>1
  <2>3. n \in Linked
    BY <2>1, <2>2 DEF Hangs
  <2> QED BY <2>2, <2>3
<1>4. ASSUME NEW n \in Linked PROVE n <= made /\ path[n] \in Seq(Digits)
  <2>1. path[n] \in Seq(Digits)
    BY <1>1 DEF TrieTypes
  <2>2. CASE n = Root
    BY <2>1, <2>2 DEF TrieTypes, Root, Idxs
  <2>3. CASE n # Root
    <3>1. PICK k \in Linked, d \in Digits : n = idxs[k][d]
      BY <1>3, <2>3
    <3>2. n # NULL /\ k \in Idxs
      BY <1>1, NumNodes
    <3> QED BY <2>1, <3>1, <3>2 DEF Hangs
  <2> QED BY <2>2, <2>3
<1> QED BY <1>1, <1>2, <1>3, <1>4

\* A sub-idx slot is filled if there is a node for its digits.
LEMMA SubIs ==
    ASSUME TrieTypes, Hangs, NEW n \in Linked, NEW d \in Digits
    PROVE  Append(path[n], d) \in Dirs <=> idxs[n][d] # NULL
<1>1. n \in Idxs /\ path[n] \in Seq(Digits)
    BY LinkedIs
<1>2. ASSUME idxs[n][d] # NULL PROVE Append(path[n], d) \in Dirs
  <2>1. idxs[n][d] \in Linked /\ path[idxs[n][d]] = Append(path[n], d)
    BY <1>1, <1>2, LinkedIs DEF Hangs
  <2> QED BY <2>1 DEF Dirs
<1>3. ASSUME Append(path[n], d) \in Dirs PROVE idxs[n][d] # NULL
  <2>1. PICK m \in Linked : path[m] = Append(path[n], d)
    BY <1>3 DEF Dirs
  <2>2. m # Root
    BY <1>1, <2>1, Longer DEF Hangs
  <2>3. PICK k \in Linked, e \in Digits : m = idxs[k][e]
    BY <2>2, LinkedIs
  <2>4. m # NULL /\ k \in Idxs /\ path[k] \in Seq(Digits)
    BY NumNodes, LinkedIs
  <2>5. path[m] = Append(path[k], e)
    BY <2>3, <2>4 DEF Hangs
  <2>6. path[k] = path[n] /\ e = d
    <3>1. Append(path[n], d) = Append(path[k], e)
      BY <2>1, <2>5
    <3> QED BY <1>1, <2>4, <3>1, Same
  <2>7. k = n
    BY <2>6 DEF Hangs
  <2> QED BY <2>3, <2>4, <2>6, <2>7
<1> QED BY <1>2, <1>3

\* What a get of id i finds, if the nodes it goes through are linked.
HeldRight ==
    /\ Held = [i \in Ids |-> Held[i]]
    /\ \A i \in Ids : \A n \in Linked : path[n] = Above(i) => Held[i] = elems[n][Digit(i)]
    /\ \A i \in Ids : (\A n \in Linked : path[n] # Above(i)) => Held[i] = NoElem

LEMMA HeldIs == TrieTypes /\ Hangs => HeldRight
<1> SUFFICES ASSUME TrieTypes, Hangs, NEW i \in Ids PROVE
       /\ Held = [j \in Ids |-> Held[j]]
       /\ \A n \in Linked : path[n] = Above(i) => Held[i] = elems[n][Digit(i)]
       /\ (\A n \in Linked : path[n] # Above(i)) => Held[i] = NoElem
    BY SharedSetAssumption DEF HeldRight
<1> DEFINE above(j) == {n \in Linked : path[n] = Above(j)}
<1>1. Held = [j \in Ids |-> IF above(j) = {} THEN NoElem
                            ELSE elems[CHOOSE n \in above(j) : TRUE][Digit(j)]]
    BY DEF Held
<1> HIDE DEF above
<1>2. Held = [j \in Ids |-> Held[j]]
    BY <1>1
<1>3. Held[i] = IF above(i) = {} THEN NoElem ELSE elems[CHOOSE n \in above(i) : TRUE][Digit(i)]
    BY <1>1
<1>4. ASSUME NEW n \in Linked, path[n] = Above(i) PROVE Held[i] = elems[n][Digit(i)]
  <2>1. above(i) = {n}
    BY <1>4 DEF above, Hangs
  <2>2. (CHOOSE m \in above(i) : TRUE) = n
    BY <2>1
  <2> QED BY <1>3, <2>1, <2>2
<1>5. ASSUME \A n \in Linked : path[n] # Above(i) PROVE Held[i] = NoElem
  <2>1. above(i) = {}
    BY <1>5 DEF above
  <2> QED BY <1>3, <2>1
<1> QED BY <1>2, <1>4, <1>5

\* The slot a task is at.
LEMMA SlotIs ==
    ASSUME TrieTypes, Hangs, NEW i \in Ids, NEW n \in Linked, NEW d \in Nat, d < Len(i),
           path[n] = SubSeq(i, 1, d)
    PROVE  /\ n \in Idxs /\ i[d + 1] \in Digits
           /\ SubSeq(i, 1, d + 1) = Append(path[n], i[d + 1])
           /\ SubSeq(i, 1, d + 1) \in Dirs <=> idxs[n][i[d + 1]] # NULL
           /\ d + 1 = Len(i) => /\ Held[i] = elems[n][i[d + 1]]
                                /\ Above(i) = path[n] /\ Digit(i) = i[d + 1]
                                /\ i = Append(path[n], i[d + 1])
<1>1. i \in Seq(Digits) /\ i[d + 1] \in Digits /\ SubSeq(i, 1, d + 1) = Append(path[n], i[d + 1])
    BY IdIs, NextDigit
<1>2. n \in Idxs
    BY LinkedIs
<1>3. SubSeq(i, 1, d + 1) \in Dirs <=> idxs[n][i[d + 1]] # NULL
    BY <1>1, SubIs
<1>4. ASSUME d + 1 = Len(i)
      PROVE  /\ Held[i] = elems[n][i[d + 1]] /\ Above(i) = path[n] /\ Digit(i) = i[d + 1]
             /\ i = Append(path[n], i[d + 1])
  <2>1. Digit(i) = i[d + 1] /\ Above(i) = path[n]
    BY <1>4 DEF Digit, Above
  <2>2. i = Append(Above(i), Digit(i))
    BY IdIs, IdParts
  <2> QED BY <2>1, <2>2, HeldIs DEF HeldRight
<1> QED BY <1>1, <1>2, <1>3, <1>4

---------------------------------------------------------------------------
(* A step keeps the invariant *)

Moves(t, l, c, n, m, d, k, f) ==
    /\ Ours'
    /\ pc'[t] = l /\ req'[t] = c /\ idx'[t] = n /\ new'[t] = m /\ depth'[t] = d
    /\ todo'[t] = k /\ frames'[t] = f
    /\ \A u \in Tasks \ {t} :
          /\ pc'[u] = pc[u] /\ req'[u] = req[u] /\ idx'[u] = idx[u] /\ new'[u] = new[u]
          /\ depth'[u] = depth[u] /\ todo'[u] = todo[u] /\ frames'[u] = frames[u]

Grows == /\ Linked \subseteq Linked' /\ made \in Nat /\ made' \in Nat /\ made <= made'
         /\ \A n \in Linked : path'[n] = path[n]

\* What the other tasks know of the trie stays true.
LEMMA Stays ==
    ASSUME Grows, NEW u \in Tasks,
           TaskOK(pc[u], req[u], idx[u], new[u], depth[u], todo[u], frames[u]),
           pc[u] = "link" => new[u] \notin Linked' /\ path'[new[u]] = path[new[u]],
           pc'[u] = pc[u], req'[u] = req[u], idx'[u] = idx[u], new'[u] = new[u],
           depth'[u] = depth[u], todo'[u] = todo[u], frames'[u] = frames[u]
    PROVE  TaskOK(pc[u], req[u], idx[u], new[u], depth[u], todo[u], frames[u])'
<1>1. pc[u] = "link" => new[u] \in Idxs /\ new[u] <= made'
    BY DEF TaskOK, Grows, Idxs
<1>2. FramesOK(frames[u]) => FramesOK(frames[u])'
    BY DEF FramesOK, Grows
<1>3. pc[u] \in Under => idx[u] \in Linked' /\ path'[idx[u]] = path[idx[u]]
    BY DEF TaskOK, Grows
<1> QED BY <1>1, <1>2, <1>3 DEF TaskOK

LEMMA TasksMove ==
    ASSUME TasksOK, Ours, Own, Grows, NEW t \in Tasks,
           NEW l, NEW c, NEW n, NEW m, NEW d, NEW k, NEW f, Moves(t, l, c, n, m, d, k, f),
           TaskOK(pc[t], req[t], idx[t], new[t], depth[t], todo[t], frames[t])',
           \A u \in Tasks \ {t} : pc[u] = "link" =>
              /\ new[u] \notin Linked' /\ path'[new[u]] = path[new[u]]
              /\ l = "link" => new[u] # m
    PROVE  TasksOK' /\ Ours' /\ Own'
<1>1. TasksOK'
  <2> SUFFICES ASSUME NEW u \in Tasks
               PROVE  TaskOK(pc[u], req[u], idx[u], new[u], depth[u], todo[u], frames[u])'
    BY DEF TasksOK
  <2>1. CASE u # t
    <3>1. /\ pc'[u] = pc[u] /\ req'[u] = req[u] /\ idx'[u] = idx[u] /\ new'[u] = new[u]
          /\ depth'[u] = depth[u] /\ todo'[u] = todo[u] /\ frames'[u] = frames[u]
      BY <2>1 DEF Moves
    <3>2. TaskOK(pc[u], req[u], idx[u], new[u], depth[u], todo[u], frames[u])
      BY DEF TasksOK
    <3>3. pc[u] = "link" => new[u] \notin Linked' /\ path'[new[u]] = path[new[u]]
      BY <2>1
    <3> QED BY <3>1, <3>2, <3>3, Stays
  <2> QED BY <2>1
<1>2. Own'
  <2> SUFFICES ASSUME NEW u \in Tasks, NEW v \in Tasks, pc'[u] = "link", pc'[v] = "link",
                      new'[u] = new'[v], u # v
               PROVE  FALSE
    BY DEF Own
  <2>1. CASE u # t /\ v # t
    <3>1. pc[u] = "link" /\ pc[v] = "link" /\ new[u] = new[v]
      BY <2>1 DEF Moves
    <3> QED BY <3>1 DEF Own
  <2>2. CASE u = t
    <3>1. l = "link" /\ new'[u] = m /\ pc[v] = "link" /\ new[v] = new'[v]
      BY <2>2 DEF Moves
    <3> QED BY <2>2, <3>1
  <2>3. CASE v = t
    <3>1. l = "link" /\ new'[v] = m /\ pc[u] = "link" /\ new[u] = new'[u]
      BY <2>3 DEF Moves
    <3> QED BY <2>3, <3>1
  <2> QED BY <2>1, <2>2, <2>3
<1> QED BY <1>1, <1>2 DEF Moves

\* A step that leaves the trie as it is.
LEMMA TrieSame ==
    ASSUME Trie, UNCHANGED trie
    PROVE  Trie' /\ Linked' = Linked /\ Dirs' = Dirs /\ Held' = Held /\ Grows
<1>1. Linked' = Linked
    BY DEF trie, Linked
<1>2. Dirs' = Dirs /\ Held' = Held
    BY <1>1 DEF trie, Dirs, Held
<1>3. Trie'
    BY <1>1 DEF trie, Trie, TrieTypes, Hangs, Filled
<1>4. made \in Nat
    BY DEF Trie, TrieTypes, Idxs
<1> QED BY <1>1, <1>2, <1>3, <1>4 DEF trie, Grows

LEMMA LocalInv ==
    ASSUME Inv, UNCHANGED trie, NEW t \in Tasks,
           NEW l, NEW c, NEW n, NEW m, NEW d, NEW k, NEW f, Moves(t, l, c, n, m, d, k, f),
           TaskOK(l, c, n, m, d, k, f),
           l = "link" => pc[t] = "link" /\ m = new[t]
    PROVE  Inv'
<1>1. Trie' /\ Linked' = Linked /\ Grows /\ made' = made /\ path' = path
    BY TrieSame DEF Inv, trie
<1>2. TaskOK(pc[t], req[t], idx[t], new[t], depth[t], todo[t], frames[t])'
  <2>1. /\ pc'[t] = l /\ req'[t] = c /\ idx'[t] = n /\ new'[t] = m /\ depth'[t] = d
        /\ todo'[t] = k /\ frames'[t] = f
    BY DEF Moves
  <2>2. FramesOK(f) => FramesOK(frames[t])'
    BY <1>1, <2>1 DEF FramesOK
  <2> QED BY <1>1, <2>1, <2>2 DEF TaskOK
<1>3. ASSUME NEW u \in Tasks \ {t}, pc[u] = "link"
      PROVE  /\ new[u] \notin Linked' /\ path'[new[u]] = path[new[u]]
             /\ l = "link" => new[u] # m
    BY <1>1, <1>3 DEF Inv, TasksOK, TaskOK, Own
<1>4. TasksOK' /\ Ours' /\ Own'
    BY <1>1, <1>2, <1>3, TasksMove DEF Inv
<1> QED BY <1>1, <1>4 DEF Inv

\* The requests of callers, and what the map of ids calls them.
LEMMA CallIs ==
    \A c \in Set!Calls :
       /\ c.op \in {"idle", "add", "get", "map"}
       /\ c.op = "idle" <=> c = Set!Idle
       /\ c.op \in {"add", "get"} => c.id \in Ids
       /\ c.op = "add" => c.elem \in Elems
    BY DEF Set!Calls, Set!Idle

\* A task on its way down, and the slots of the digit it is at.
LEMMA WayIs ==
    ASSUME Inv, NEW t \in Tasks, pc[t] \in Under
    PROVE  /\ req[t].id \in Ids /\ idx[t] \in Linked /\ depth[t] \in Nat /\ Pos(t) \in Digits
           /\ idx[t] \in Idxs
           /\ path[idx[t]] = SubSeq(req[t].id, 1, depth[t]) /\ depth[t] < Len(req[t].id)
           /\ SubSeq(req[t].id, 1, depth[t] + 1) = Append(path[idx[t]], Pos(t))
           /\ SubSeq(req[t].id, 1, depth[t] + 1) \in Dirs <=> Sub(t) # NULL
           /\ AtLast(t) => /\ Held[req[t].id] = Elem(t)
                           /\ Above(req[t].id) = path[idx[t]] /\ Digit(req[t].id) = Pos(t)
                           /\ req[t].id = Append(path[idx[t]], Pos(t))
<1>1. TaskOK(pc[t], req[t], idx[t], new[t], depth[t], todo[t], frames[t])
    BY DEF Inv, TasksOK
<1>2. req[t].id \in Ids
    BY <1>1, CallIs DEF TaskOK, Under
<1>3. /\ idx[t] \in Linked /\ depth[t] \in Nat /\ depth[t] < Len(req[t].id)
      /\ path[idx[t]] = SubSeq(req[t].id, 1, depth[t])
    BY <1>1 DEF TaskOK
<1> QED BY <1>2, <1>3, SlotIs DEF Inv, Trie, Pos, Sub, Elem, AtLast

LEMMA ChildLinked ==
    ASSUME Inv, NEW t \in Tasks, pc[t] \in Under, Sub(t) # NULL
    PROVE  Sub(t) \in Linked /\ Sub(t) \in Idxs /\ path[Sub(t)] = SubSeq(req[t].id, 1, depth[t] + 1)
<1>1. Sub(t) \in Linked /\ path[Sub(t)] = Append(path[idx[t]], Pos(t))
    BY WayIs, LinkedIs DEF Inv, Trie, Hangs, Sub
<1> QED BY <1>1, WayIs, LinkedIs DEF Inv, Trie

LEMMA DownInv ==
    ASSUME Inv, NEW t \in Tasks, Descend(t) \/ GetDown(t)
    PROVE  Inv' /\ (Path!Descend(t) \/ Path!GetDown(t))
<1>1. /\ pc[t] \in {"add", "get"} /\ ~AtLast(t) /\ Sub(t) # NULL /\ Into(t, Sub(t))
      /\ UNCHANGED <<trie, numElems, req, pc, new, walk, ans, calls>>
    BY DEF Descend, GetDown
<1>2. TaskOK(pc[t], req[t], idx[t], new[t], depth[t], todo[t], frames[t])
    BY DEF Inv, TasksOK
<1>3. Sub(t) \in Linked /\ Sub(t) \in Idxs /\ path[Sub(t)] = SubSeq(req[t].id, 1, depth[t] + 1)
    BY <1>1, ChildLinked DEF Under
<1>4. depth[t] \in Nat /\ depth[t] + 1 < Len(req[t].id)
    BY <1>1, WayIs, IdIs DEF Under, AtLast
<1>5. TaskOK(pc[t], req[t], Sub(t), new[t], depth[t] + 1, todo[t], frames[t])
    BY <1>1, <1>2, <1>3, <1>4 DEF TaskOK
<1>6. Moves(t, pc[t], req[t], Sub(t), new[t], depth[t] + 1, todo[t], frames[t])
    BY <1>1 DEF Inv, Ours, Into, Moves, walk
<1>7. Inv'
    BY <1>1, <1>5, <1>6, LocalInv
<1>8. Dirs' = Dirs /\ Held' = Held
    BY <1>1, TrieSame DEF Inv
<1>9. SubSeq(req[t].id, 1, depth[t] + 1) \in Dirs
    BY <1>1, WayIs DEF Under
<1>10. Path!Descend(t) \/ Path!GetDown(t)
    BY <1>1, <1>8, <1>9
    DEF Path!Descend, Path!GetDown, Path!AtLast, Path!Child, Path!setVars, Path!walk, AtLast, Into, trie, walk
<1> QED BY <1>7, <1>10

\* knd_shared_set.c:129-160: the node is filled before it is linked.
LEMMA NewIdxInv == ASSUME Inv, NEW t \in Tasks, NewIdx(t) PROVE Inv' /\ Path!NewIdx(t)
<1> DEFINE m == made + 1
           p == SubSeq(req[t].id, 1, depth[t] + 1)
<1>1. /\ pc[t] = "add" /\ ~AtLast(t) /\ Sub(t) = NULL /\ made <= NumPages /\ made' = m
      /\ path' = [path EXCEPT ![m] = p] /\ UNCHANGED <<idxs, elems>>
      /\ new' = [new EXCEPT ![t] = m] /\ pc' = [pc EXCEPT ![t] = "link"]
      /\ UNCHANGED <<numElems, req, idx, depth, walk, ans, calls>>
    BY DEF NewIdx, Goto
<1>2. /\ req[t].id \in Ids /\ idx[t] \in Linked /\ depth[t] \in Nat /\ depth[t] < Len(req[t].id)
      /\ p \notin Dirs
    BY <1>1, WayIs DEF Under
<1>3. p \in Seq(Digits)
    BY <1>2, IdIs, NextDigit
<1>4. made \in Idxs /\ m \in Idxs /\ made \in Nat /\ m <= m /\ made <= m
    BY <1>1, NumNodes DEF Inv, Trie, TrieTypes, Idxs
<1>5. Linked' = Linked
    BY <1>1 DEF Linked
<1>6. m \notin Linked /\ Linked \subseteq Idxs
    BY <1>4, LinkedIs DEF Inv, Trie
<1> HIDE DEF m, p
<1>7. path'[m] = p /\ \A n \in Idxs : n # m => path'[n] = path[n]
    BY <1>1, <1>4 DEF Inv, Trie, TrieTypes
<1>8. \A n \in Linked : path'[n] = path[n]
    BY <1>6, <1>7
<1>9. Grows
    BY <1>1, <1>4, <1>5, <1>8 DEF Grows
<1>10. Trie'
  <2>1. TrieTypes'
    BY <1>1, <1>3, <1>4 DEF Inv, Trie, TrieTypes
  <2>2. Hangs'
    <3>1. path'[Root] = <<>>
      BY <1>8, LinkedIs DEF Inv, Trie, Hangs
    <3>2. ASSUME NEW n \in Idxs, NEW d \in Digits, idxs'[n][d] # NULL
          PROVE  n \in Linked' /\ idxs'[n][d] <= made' /\ path'[idxs'[n][d]] = Append(path'[n], d)
      <4>1. idxs'[n][d] = idxs[n][d] /\ idxs[n][d] # NULL
        BY <1>1, <3>2
      <4>2. n \in Linked /\ idxs[n][d] \in Linked /\ idxs[n][d] <= made /\ path[idxs[n][d]] = Append(path[n], d)
        BY <4>1, LinkedIs DEF Inv, Trie, Hangs
      <4>3. path'[idxs[n][d]] = path[idxs[n][d]] /\ path'[n] = path[n]
        BY <1>8, <4>2
      <4>4. idxs[n][d] <= made'
        BY <1>1, <1>4, <1>6, <4>2 DEF Idxs
      <4> QED BY <1>5, <4>1, <4>2, <4>3, <4>4
    <3>3. \A k, n \in Linked' : path'[k] = path'[n] => k = n
      BY <1>5, <1>8 DEF Inv, Trie, Hangs
    <3> QED BY <3>1, <3>2, <3>3 DEF Hangs
  <2>3. Filled'
    <3>1. \A n \in Idxs, d \in Digits : elems[n][d] # NoElem => n \in Linked /\ Append(path'[n], d) \in Ids
      BY <1>8 DEF Inv, Trie, Filled
    <3> QED BY <1>1, <1>5, <3>1 DEF Filled
  <2> QED BY <2>1, <2>2, <2>3 DEF Trie
<1>11. Dirs' = Dirs
    BY <1>5, <1>8 DEF Dirs
<1>12. Held' = Held
  <2>1. HeldRight /\ HeldRight'
    <3>1. (TrieTypes /\ Hangs => HeldRight)'
      BY HeldIs, PTL
    <3> QED BY <1>10, <3>1, HeldIs DEF Inv, Trie
  <2>2. ASSUME NEW i \in Ids PROVE Held'[i] = Held[i]
    BY <1>1, <1>5, <1>8, <2>1 DEF HeldRight
  <2> QED BY <2>1, <2>2 DEF HeldRight
<1>13. Moves(t, "link", req[t], idx[t], m, depth[t], todo[t], frames[t])
    BY <1>1 DEF Inv, Ours, Moves, walk
<1>14. TaskOK(pc[t], req[t], idx[t], new[t], depth[t], todo[t], frames[t])'
  <2>1. TaskOK(pc[t], req[t], idx[t], new[t], depth[t], todo[t], frames[t])
    BY DEF Inv, TasksOK
  <2>2. /\ pc'[t] = "link" /\ req'[t] = req[t] /\ idx'[t] = idx[t] /\ new'[t] = m
        /\ depth'[t] = depth[t] /\ todo'[t] = todo[t] /\ frames'[t] = frames[t]
    BY <1>13 DEF Moves
  <2>3. depth[t] + 1 # Len(req[t].id)
    BY <1>1 DEF AtLast
  <2>4. path'[idx[t]] = path[idx[t]]
    BY <1>2, <1>8
  <2> QED BY <1>1, <1>2, <1>4, <1>5, <1>6, <1>7, <2>1, <2>2, <2>3, <2>4 DEF TaskOK, PCs, Under, p
<1>15. ASSUME NEW u \in Tasks \ {t}, pc[u] = "link"
       PROVE  new[u] \notin Linked' /\ path'[new[u]] = path[new[u]] /\ new[u] # m
  <2>1. new[u] \in Idxs /\ new[u] <= made /\ new[u] \notin Linked
    BY <1>15 DEF Inv, TasksOK, TaskOK
  <2>2. new[u] # m
    BY <1>4, <2>1 DEF Idxs, m
  <2> QED BY <1>5, <1>7, <2>1, <2>2
<1>16. TasksOK' /\ Ours' /\ Own'
    BY <1>9, <1>13, <1>14, <1>15, TasksMove DEF Inv
<1>17. Path!NewIdx(t)
  <2>1. NumPages + 1 - made > 0 /\ (NumPages + 1 - made)' = (NumPages + 1 - made) - 1
    BY <1>1, <1>4, NumNodes DEF m
  <2>2. UNCHANGED <<Dirs, Held, numElems, req, depth, Path!walk, ans, calls>>
    BY <1>1, <1>11, <1>12 DEF Path!walk, walk
  <2>3. pc[t] = "add" /\ ~Path!AtLast(t) /\ Path!Child(t) \notin Dirs /\ Path!Goto(t, "link")
    BY <1>1, <1>2 DEF Path!AtLast, Path!Child, Path!Goto, AtLast, p
  <2> QED BY <2>1, <2>2, <2>3 DEF Path!NewIdx
<1> QED BY <1>10, <1>16, <1>17 DEF Inv

\* knd_shared_set.c:155: the exchange hangs a node where there is none, so the digits
\* that lead to it lead to nothing else, and no element is lost with it.
LEMMA LinkInv == ASSUME Inv, NEW t \in Tasks, Link(t) PROVE Inv' /\ Path!Link(t)
<1> DEFINE n == idx[t]
           d == Pos(t)
           m == new[t]
<1>1. /\ pc[t] = "link" /\ idxs[n][d] = NULL /\ Into(t, m)
      /\ idxs' = [idxs EXCEPT ![n][d] = m]
      /\ new' = [new EXCEPT ![t] = NULL] /\ pc' = [pc EXCEPT ![t] = "add"]
      /\ UNCHANGED <<elems, made, path, numElems, req, walk, ans, calls>>
    BY DEF Link, StillEmpty, Sub, Goto
<1>2. /\ req[t].id \in Ids /\ n \in Linked /\ n \in Idxs /\ depth[t] \in Nat
      /\ depth[t] < Len(req[t].id) /\ d \in Digits
      /\ SubSeq(req[t].id, 1, depth[t] + 1) = Append(path[n], d)
      /\ Append(path[n], d) \notin Dirs
    BY <1>1, WayIs DEF Under, Sub
<1>3. /\ m \in Idxs /\ m <= made /\ m \notin Linked /\ m # NULL
      /\ path[m] = Append(path[n], d) /\ depth[t] + 1 # Len(req[t].id)
  <2>1. TaskOK(pc[t], req[t], idx[t], new[t], depth[t], todo[t], frames[t])
    BY DEF Inv, TasksOK
  <2> QED BY <1>1, <1>2, <2>1, NumNodes DEF TaskOK
<1> HIDE DEF n, d, m
<1>4. /\ idxs' \in [Idxs -> [Digits -> Idxs \cup {NULL}]]
      /\ idxs'[n][d] = m
      /\ \A k \in Idxs, e \in Digits : ~(k = n /\ e = d) => idxs'[k][e] = idxs[k][e]
    BY <1>1, <1>2, <1>3 DEF Inv, Trie, TrieTypes
<1>5. Linked' = Linked \cup {m}
  <2>1. ASSUME NEW x PROVE x \in Linked' <=> x = Root \/ (x # NULL /\ \E k \in Idxs, e \in Digits : x = idxs'[k][e])
    BY DEF Linked
  <2>2. ASSUME NEW x PROVE x \in Linked <=> x = Root \/ (x # NULL /\ \E k \in Idxs, e \in Digits : x = idxs[k][e])
    BY DEF Linked
  <2>3. ASSUME NEW x, x # NULL
        PROVE  (\E k \in Idxs, e \in Digits : x = idxs'[k][e])
               <=> x = m \/ \E k \in Idxs, e \in Digits : x = idxs[k][e]
    BY <1>1, <1>2, <1>3, <1>4, <2>3
  <2> QED BY <1>3, <2>1, <2>2, <2>3
<1>6. \A k \in Linked : path[k] # path[m]
    BY <1>2, <1>3 DEF Dirs
<1>7. Grows
    BY <1>1, <1>5 DEF Inv, Trie, TrieTypes, Grows, Idxs
<1>8. Trie'
  <2>1. TrieTypes'
    BY <1>1, <1>4 DEF Inv, Trie, TrieTypes
  <2>2. Hangs'
    <3>1. path'[Root] = <<>>
      BY <1>1 DEF Inv, Trie, Hangs
    <3>2. ASSUME NEW k \in Idxs, NEW e \in Digits, idxs'[k][e] # NULL
          PROVE  k \in Linked' /\ idxs'[k][e] <= made' /\ path'[idxs'[k][e]] = Append(path'[k], e)
      <4>1. CASE k = n /\ e = d
        BY <1>1, <1>2, <1>3, <1>4, <1>5, <4>1
      <4>2. CASE ~(k = n /\ e = d)
        BY <1>1, <1>4, <1>5, <3>2, <4>2 DEF Inv, Trie, Hangs
      <4> QED BY <4>1, <4>2
    <3>3. \A k, l \in Linked' : path'[k] = path'[l] => k = l
      BY <1>1, <1>5, <1>6 DEF Inv, Trie, Hangs
    <3> QED BY <3>1, <3>2, <3>3 DEF Hangs
  <2>3. Filled'
    BY <1>1, <1>5 DEF Inv, Trie, Filled
  <2> QED BY <2>1, <2>2, <2>3 DEF Trie
<1>9. Dirs' = Dirs \cup {Append(path[n], d)}
    BY <1>1, <1>3, <1>5 DEF Dirs
<1>10. Held' = Held
  <2>1. HeldRight /\ HeldRight'
    <3>1. (TrieTypes /\ Hangs => HeldRight)'
      BY HeldIs, PTL
    <3> QED BY <1>8, <3>1, HeldIs DEF Inv, Trie
  <2>2. ASSUME NEW i \in Ids PROVE Held'[i] = Held[i]
    <3>1. CASE path[m] = Above(i)
      <4>1. Held[i] = NoElem
        BY <1>6, <2>1, <3>1 DEF HeldRight
      <4>2. Held'[i] = elems[m][Digit(i)]
        BY <1>1, <1>5, <2>1, <3>1 DEF HeldRight
      <4>3. elems[m][Digit(i)] = NoElem
        BY <1>3, IdIs, IdParts DEF Inv, Trie, Filled
      <4> QED BY <4>1, <4>2, <4>3
    <3>2. CASE path[m] # Above(i)
      BY <1>1, <1>5, <2>1, <3>2 DEF HeldRight
    <3> QED BY <3>1, <3>2
  <2> QED BY <2>1, <2>2 DEF HeldRight
<1>11. Moves(t, "add", req[t], m, NULL, depth[t] + 1, todo[t], frames[t])
    BY <1>1 DEF Inv, Ours, Into, Moves, walk
<1>12. TaskOK(pc[t], req[t], idx[t], new[t], depth[t], todo[t], frames[t])'
  <2>1. TaskOK(pc[t], req[t], idx[t], new[t], depth[t], todo[t], frames[t])
    BY DEF Inv, TasksOK
  <2>2. /\ pc'[t] = "add" /\ req'[t] = req[t] /\ idx'[t] = m /\ new'[t] = NULL
        /\ depth'[t] = depth[t] + 1 /\ todo'[t] = todo[t] /\ frames'[t] = frames[t]
    BY <1>11 DEF Moves
  <2>3. depth[t] + 1 < Len(req[t].id) /\ depth[t] + 1 \in Nat
    BY <1>2, <1>3, IdIs
  <2>4. path'[m] = SubSeq(req[t].id, 1, depth[t] + 1)
    BY <1>1, <1>2, <1>3
  <2> QED BY <1>1, <1>3, <1>5, <2>1, <2>2, <2>3, <2>4 DEF TaskOK, PCs, Under
<1>13. ASSUME NEW u \in Tasks \ {t}, pc[u] = "link"
       PROVE  new[u] \notin Linked' /\ path'[new[u]] = path[new[u]]
  <2>1. new[u] \notin Linked
    BY <1>13 DEF Inv, TasksOK, TaskOK
  <2>2. new[u] # m
    BY <1>1, <1>13 DEF Inv, Own, m
  <2> QED BY <1>1, <1>5, <2>1, <2>2
<1>14. TasksOK' /\ Ours' /\ Own'
    BY <1>7, <1>11, <1>12, <1>13, TasksMove DEF Inv
<1>15. Path!Link(t)
  <2>1. UNCHANGED <<Held, numElems, NumPages + 1 - made, req, Path!walk, ans, calls>>
    BY <1>1, <1>10 DEF Path!walk, walk
  <2>2. /\ pc[t] = "link" /\ Path!Child(t) \notin Dirs /\ Dirs' = Dirs \cup {Path!Child(t)}
        /\ depth' = [depth EXCEPT ![t] = @ + 1] /\ Path!Goto(t, "add")
    BY <1>1, <1>2, <1>9 DEF Path!Child, Path!Goto, Into
  <2> QED BY <2>1, <2>2 DEF Path!Link
<1> QED BY <1>8, <1>14, <1>15 DEF Inv

\* knd_shared_set.c:120-127: the element comes into an empty slot of a linked node.
LEMMA StoreInv == ASSUME Inv, NEW t \in Tasks, Store(t) PROVE Inv' /\ Path!Store(t)
<1> DEFINE n == idx[t]
           d == Pos(t)
           i == req[t].id
           e == req[t].elem
<1>1. /\ pc[t] = "store" /\ elems[n][d] = NoElem
      /\ elems' = [elems EXCEPT ![n][d] = e]
      /\ ans' = [ans EXCEPT ![t] = Set!Done("ok")] /\ pc' = [pc EXCEPT ![t] = "count"]
      /\ UNCHANGED <<idxs, made, path, numElems, req, way, walk, calls>>
    BY DEF Store, Unchanged, Elem, Goto, Settle
<1>2. TaskOK(pc[t], req[t], idx[t], new[t], depth[t], todo[t], frames[t])
    BY DEF Inv, TasksOK
<1>3. /\ i \in Ids /\ n \in Linked /\ n \in Idxs /\ d \in Digits /\ depth[t] + 1 = Len(i)
      /\ Held[i] = elems[n][d] /\ Above(i) = path[n] /\ Digit(i) = d /\ i = Append(path[n], d)
  <2>1. AtLast(t)
    BY <1>1, <1>2 DEF TaskOK, AtLast
  <2> QED BY <1>1, <2>1, WayIs DEF Under, Elem, AtLast
<1>4. e \in Elems
    BY <1>1, <1>2, CallIs DEF TaskOK
<1> HIDE DEF n, d, i, e
<1>5. /\ elems' \in [Idxs -> [Digits -> Elems \cup {NoElem}]]
      /\ elems'[n][d] = e
      /\ \A k \in Idxs, c \in Digits : ~(k = n /\ c = d) => elems'[k][c] = elems[k][c]
    BY <1>1, <1>3, <1>4 DEF Inv, Trie, TrieTypes
<1>6. Linked' = Linked
    BY <1>1 DEF Linked
<1>7. Dirs' = Dirs
    BY <1>1, <1>6 DEF Dirs
<1>8. Trie'
  <2>1. TrieTypes'
    BY <1>1, <1>5 DEF Inv, Trie, TrieTypes
  <2>2. Hangs'
    BY <1>1, <1>6 DEF Inv, Trie, Hangs
  <2>3. Filled'
    <3> SUFFICES ASSUME NEW k \in Idxs, NEW c \in Digits, elems'[k][c] # NoElem
                 PROVE  k \in Linked /\ Append(path[k], c) \in Ids
      BY <1>1, <1>6 DEF Filled
    <3>1. CASE k = n /\ c = d
      BY <1>3, <3>1
    <3>2. CASE ~(k = n /\ c = d)
      BY <1>5, <3>2 DEF Inv, Trie, Filled
    <3> QED BY <3>1, <3>2
  <2> QED BY <2>1, <2>2, <2>3 DEF Trie
<1>9. Held' = [Held EXCEPT ![i] = e]
  <2>1. HeldRight /\ HeldRight'
    <3>1. (TrieTypes /\ Hangs => HeldRight)'
      BY HeldIs, PTL
    <3> QED BY <1>8, <3>1, HeldIs DEF Inv, Trie
  <2>2. Held'[i] = e
    BY <1>1, <1>3, <1>5, <1>6, <2>1 DEF HeldRight
  <2>3. ASSUME NEW j \in Ids, j # i PROVE Held'[j] = Held[j]
    <3>1. CASE \E k \in Linked : path[k] = Above(j)
      <4>1. PICK k \in Linked : path[k] = Above(j)
        BY <3>1
      <4>2. Held[j] = elems[k][Digit(j)] /\ Held'[j] = elems'[k][Digit(j)]
        BY <1>1, <1>6, <2>1, <4>1 DEF HeldRight
      <4>3. k \in Idxs /\ Digit(j) \in Digits /\ j = Append(path[k], Digit(j))
        BY <4>1, IdIs, IdParts, LinkedIs DEF Inv, Trie
      <4>4. ~(k = n /\ Digit(j) = d)
        BY <1>3, <2>3, <4>3
      <4> QED BY <1>5, <4>2, <4>3, <4>4
    <3>2. CASE \A k \in Linked : path[k] # Above(j)
      BY <1>1, <1>6, <2>1, <3>2 DEF HeldRight
    <3> QED BY <3>1, <3>2
  <2>4. Held' = [j \in Ids |-> Held'[j]] /\ Held = [j \in Ids |-> Held[j]]
    BY <2>1 DEF HeldRight
  <2> QED BY <1>3, <2>2, <2>3, <2>4
<1>10. Grows
    BY <1>1, <1>6 DEF Inv, Trie, TrieTypes, Grows, Idxs
<1>11. Moves(t, "count", req[t], idx[t], new[t], depth[t], todo[t], frames[t])
    BY <1>1 DEF Inv, Ours, Moves, way, walk
<1>12. TaskOK(pc[t], req[t], idx[t], new[t], depth[t], todo[t], frames[t])'
    BY <1>2, <1>11 DEF TaskOK, Moves, PCs, Under
<1>13. \A u \in Tasks \ {t} : pc[u] = "link" => new[u] \notin Linked' /\ path'[new[u]] = path[new[u]]
    BY <1>1, <1>6 DEF Inv, TasksOK, TaskOK
<1>14. TasksOK' /\ Ours' /\ Own'
    BY <1>10, <1>11, <1>12, <1>13, TasksMove DEF Inv
<1>15. Path!Store(t)
  <2>1. UNCHANGED <<Dirs, numElems, NumPages + 1 - made, req, depth, Path!walk, calls>>
    BY <1>1, <1>7 DEF Path!walk, way, walk
  <2>2. /\ pc[t] = "store" /\ Held[i] = NoElem
        /\ ans' = [ans EXCEPT ![t] = Set!Done("ok")] /\ pc' = [pc EXCEPT ![t] = "count"]
    BY <1>1, <1>3
  <2> QED BY <1>9, <2>1, <2>2
      DEF Path!Store, Path!Unchanged, Path!Goto, Path!Settle, Path!Set!Done, Set!Done, i, e
<1> QED BY <1>8, <1>14, <1>15 DEF Inv

\* A step of an add or a get that neither takes nor makes a node: where it goes on, with
\* what node of its own.
LEMMA PhaseInv ==
    ASSUME Inv, NEW t \in Tasks, NEW l \in PCs,
           UNCHANGED <<trie, req, idx, depth, walk>>,
           pc' = [pc EXCEPT ![t] = l],
           new' = new \/ new' = [new EXCEPT ![t] = NULL],
           l \in {"add", "store"} => pc[t] \in {"add", "link", "store"},
           l = "store" => AtLast(t),
           l \notin {"get", "link", "map"}
    PROVE  Inv'
<1>1. TaskOK(pc[t], req[t], idx[t], new[t], depth[t], todo[t], frames[t])
    BY DEF Inv, TasksOK
<1>2. PICK m \in Idxs \cup {NULL} : new'[t] = m
    BY <1>1 DEF TaskOK, Inv, Ours
<1>3. TaskOK(l, req[t], idx[t], m, depth[t], todo[t], frames[t])
    BY <1>1 DEF TaskOK, PCs, Under, AtLast
<1>4. Moves(t, l, req[t], idx[t], m, depth[t], todo[t], frames[t])
    BY <1>2 DEF Inv, Ours, Moves, walk
<1> QED BY <1>3, <1>4, LocalInv

LEMMA PathSlots == \A p : Path!SlotsOf(p) = SlotsOf(p)
    BY DEF SlotsOf, IdSlots, DirSlots, Slot, Dir,
           Path!SlotsOf, Path!IdSlots, Path!DirSlots, Path!Slot, Path!Dir

\* What knd_shared_set_add answers and where it goes on from the slots it has loaded.
LEMMA AddInv ==
    ASSUME Inv, NEW t \in Tasks,
           NoMem(t) \/ LinkLost(t) \/ LoadFree(t) \/ Conflict(t) \/ StoreLost(t) \/ Count(t)
    PROVE  Inv' /\ (Path!NoMem(t) \/ Path!LinkLost(t) \/ Path!LoadFree(t) \/ Path!Conflict(t)
                    \/ Path!StoreLost(t) \/ Path!Count(t))
<1>0. /\ UNCHANGED trie
      /\ Dirs' = Dirs /\ Held' = Held /\ (NumPages + 1 - made)' = NumPages + 1 - made
  <2>1. UNCHANGED trie
    BY DEF NoMem, LinkLost, LoadFree, Conflict, StoreLost, Count
  <2> QED BY <2>1, TrieSame DEF Inv, trie
<1>1. ASSUME NoMem(t) PROVE Inv' /\ Path!NoMem(t)
  <2>1. SubSeq(req[t].id, 1, depth[t] + 1) \notin Dirs
    BY <1>1, WayIs DEF NoMem, Under
  <2>2. NumPages + 1 - made = 0
    BY <1>1, NumNodes DEF NoMem, Inv, Trie, TrieTypes, Idxs
  <2>3. Inv'
    BY <1>1, PhaseInv DEF NoMem, Goto, PCs, way
  <2> QED BY <1>0, <1>1, <2>1, <2>2, <2>3
      DEF NoMem, Goto, Settle, way, walk, AtLast, Set!Done, Path!NoMem, Path!AtLast, Path!Child,
          Path!Settle, Path!Set!Done, Path!Goto, Path!setVars, Path!walk
<1>2. ASSUME LinkLost(t) PROVE Inv' /\ Path!LinkLost(t)
  <2>1. SubSeq(req[t].id, 1, depth[t] + 1) \in Dirs
    BY <1>2, WayIs DEF LinkLost, Under
  <2>2. Inv'
    BY <1>2, PhaseInv DEF LinkLost, Goto, PCs
  <2> QED BY <1>0, <1>2, <2>1, <2>2
      DEF LinkLost, Goto, walk, Path!LinkLost, Path!Child, Path!Goto, Path!setVars, Path!walk
<1>3. ASSUME LoadFree(t) PROVE Inv' /\ Path!LoadFree(t)
  <2>1. Held[req[t].id] = NoElem
    BY <1>3, WayIs DEF LoadFree, Under
  <2>2. Inv'
    BY <1>3, PhaseInv DEF LoadFree, Goto, PCs, way
  <2> QED BY <1>0, <1>3, <2>1, <2>2
      DEF LoadFree, Goto, way, walk, AtLast, Path!LoadFree, Path!AtLast, Path!Goto, Path!setVars, Path!walk
<1>4. ASSUME Conflict(t) PROVE Inv' /\ Path!Conflict(t)
  <2>1. Held[req[t].id] # NoElem
    BY <1>4, WayIs DEF Conflict, Under
  <2>2. Inv'
    BY <1>4, PhaseInv DEF Conflict, Goto, PCs, way
  <2> QED BY <1>0, <1>4, <2>1, <2>2
      DEF Conflict, Goto, Settle, way, walk, AtLast, Set!Done, Path!Conflict, Path!AtLast, Path!Settle,
          Path!Set!Done, Path!Goto, Path!setVars, Path!walk
<1>5. ASSUME StoreLost(t) PROVE Inv' /\ Path!StoreLost(t)
  <2>1. Held[req[t].id] # NoElem
    <3>1. AtLast(t)
      BY <1>5 DEF StoreLost, Inv, TasksOK, TaskOK, AtLast
    <3> QED BY <1>5, <3>1, WayIs DEF StoreLost, Unchanged, Under
  <2>2. Inv'
    BY <1>5, PhaseInv DEF StoreLost, Goto, PCs, way
  <2> QED BY <1>0, <1>5, <2>1, <2>2
      DEF StoreLost, Goto, way, walk, Path!StoreLost, Path!Unchanged, Path!Goto, Path!setVars, Path!walk
<1>6. ASSUME Count(t) PROVE Inv' /\ Path!Count(t)
  <2>1. Inv'
    BY <1>6, PhaseInv DEF Count, Goto, PCs, way
  <2> QED BY <1>0, <1>6, <2>1 DEF Count, Goto, way, walk, Path!Count, Path!Goto, Path!walk
<1> QED BY <1>1, <1>2, <1>3, <1>4, <1>5, <1>6

\* What knd_shared_set_get answers, and the return of every call.
LEMMA GetInv ==
    ASSUME Inv, NEW t \in Tasks, GetNoIdx(t) \/ GetElem(t) \/ MapEnd(t)
    PROVE  Inv' /\ (Path!GetNoIdx(t) \/ Path!GetElem(t) \/ Path!MapEnd(t))
<1>0. /\ UNCHANGED trie
      /\ Dirs' = Dirs /\ Held' = Held /\ (NumPages + 1 - made)' = NumPages + 1 - made
  <2>1. UNCHANGED trie
    BY DEF GetNoIdx, GetElem, MapEnd
  <2> QED BY <2>1, TrieSame DEF Inv, trie
<1>1. ASSUME GetNoIdx(t) PROVE Inv' /\ Path!GetNoIdx(t)
  <2>1. SubSeq(req[t].id, 1, depth[t] + 1) \notin Dirs
    BY <1>1, WayIs DEF GetNoIdx, Under
  <2>2. Inv'
    BY <1>1, PhaseInv DEF GetNoIdx, Goto, PCs, way
  <2> QED BY <1>0, <1>1, <2>1, <2>2
      DEF GetNoIdx, Goto, Settle, way, walk, AtLast, Set!Done, Path!GetNoIdx, Path!AtLast, Path!Child,
          Path!Settle, Path!Set!Done, Path!Goto, Path!setVars, Path!walk
<1>2. ASSUME GetElem(t) PROVE Inv' /\ Path!GetElem(t)
  <2>1. Held[req[t].id] = Elem(t)
    BY <1>2, WayIs DEF GetElem, Under
  <2>2. Inv'
    BY <1>2, PhaseInv DEF GetElem, Goto, PCs, way
  <2> QED BY <1>0, <1>2, <2>1, <2>2
      DEF GetElem, Goto, Settle, way, walk, AtLast, Set!Done, Set!Found, Path!GetElem, Path!AtLast,
          Path!Settle, Path!Set!Done, Path!Set!Found, Path!Goto, Path!setVars, Path!walk
<1>3. ASSUME MapEnd(t) PROVE Inv' /\ Path!MapEnd(t)
  <2>1. Inv'
    BY <1>3, PhaseInv DEF MapEnd, Goto, PCs, way
  <2> QED BY <1>0, <1>3, <2>1
      DEF MapEnd, Goto, Settle, way, walk, Set!Done, Path!MapEnd, Path!Settle, Path!Set!Done, Path!Goto,
          Path!setVars, Path!walk
<1> QED BY <1>1, <1>2, <1>3

\* A call begins at the root, and a task that has its answer makes the next one.
LEMMA CallInv ==
    ASSUME Inv, NEW t \in Tasks
    PROVE  /\ \A c \in Requests : Ask(t, c) => Inv' /\ Path!Ask(t, c)
           /\ Return(t) => Inv' /\ Path!Return(t)
<1>1. ASSUME NEW c \in Requests, Ask(t, c) PROVE Inv' /\ Path!Ask(t, c)
  <2> DEFINE k == IF c.op = "map" THEN SlotsOf(<<>>) ELSE <<>>
             f == [p \in {<<>>} |-> Root]
  <2>0. /\ UNCHANGED trie
        /\ Dirs' = Dirs /\ Held' = Held /\ (NumPages + 1 - made)' = NumPages + 1 - made
    BY <1>1, TrieSame DEF Ask, Inv, trie
  <2>1. c \in Set!Calls /\ c.op \in {"add", "get", "map"} /\ c.op \in PCs
    BY CallIs DEF Requests, PCs
  <2>2. c.op \in Under => path[Root] = SubSeq(c.id, 1, 0) /\ 0 < Len(c.id)
    BY <2>1, CallIs, IdIs, SubSeqEmpty DEF Under, Inv, Trie, Hangs
  <2>3. FramesOK(f)
    BY LinkedIs DEF FramesOK, Inv, Trie, Hangs
  <2>4. c.op = "map" => k \in Seq(SlotsAt(DOMAIN f))
    <3>1. <<>> \in Seq(Digits) /\ <<>> \in DOMAIN f
      BY EmptySeq
    <3> QED BY <3>1, SlotsAre
  <2> HIDE DEF k, f
  <2>5. new[t] \in Idxs \cup {NULL} /\ Root \in Linked /\ Root \in Idxs
    BY LinkedIs, NumNodes DEF Inv, Trie, TasksOK, TaskOK
  <2>6. TaskOK(c.op, c, Root, new[t], 0, k, f)
    BY <2>1, <2>2, <2>3, <2>4, <2>5 DEF TaskOK
  <2>7. Moves(t, c.op, c, Root, new[t], 0, k, f)
    BY <1>1 DEF Ask, Goto, Inv, Ours, Moves, k, f
  <2>8. Inv'
    BY <2>0, <2>1, <2>6, <2>7, LocalInv
  <2> QED BY <1>1, <2>0, <2>8, PathSlots DEF Ask, Goto, Set!Idle, Path!Ask, Path!Goto, Path!Set!Idle, Path!setVars
<1>2. ASSUME Return(t) PROVE Inv' /\ Path!Return(t)
  <2>0. /\ UNCHANGED trie
        /\ Dirs' = Dirs /\ Held' = Held /\ (NumPages + 1 - made)' = NumPages + 1 - made
    BY <1>2, TrieSame DEF Return, Inv, trie
  <2>1. TaskOK(pc[t], req[t], idx[t], new[t], depth[t], todo[t], frames[t])
    BY DEF Inv, TasksOK
  <2>2. TaskOK("idle", Set!Idle, idx[t], new[t], depth[t], todo[t], frames[t])
    BY <2>1 DEF TaskOK, PCs, Under, Set!Calls
  <2>3. Moves(t, "idle", Set!Idle, idx[t], new[t], depth[t], todo[t], frames[t])
    BY <1>2 DEF Return, Goto, Inv, Ours, Moves, way, walk
  <2>4. Inv'
    BY <2>0, <2>2, <2>3, LocalInv
  <2> QED BY <1>2, <2>0, <2>4
      DEF Return, Goto, Settle, way, walk, Set!Idle, Set!Pending, Path!Return, Path!Goto, Path!Settle,
          Path!Set!Idle, Path!Set!Pending, Path!setVars, Path!walk
<1> QED BY <1>1, <1>2

\* The slot a walk looks at next, and the node it is a slot of.
LEMMA SlotOfWalk ==
    ASSUME Inv, NEW t \in Tasks, pc[t] = "map", todo[t] # <<>>
    PROVE  /\ todo[t] \in Seq(SlotsAt(DOMAIN frames[t])) /\ FramesOK(frames[t])
           /\ NextSlot(t).kind \in {"elem", "dir"}
           /\ NextSlot(t).at \in Seq(Digits) \ {<<>>} /\ Above(NextSlot(t).at) \in DOMAIN frames[t]
           /\ Digit(NextSlot(t).at) \in Digits
           /\ Frame(t) \in Linked /\ Frame(t) \in Idxs
           /\ path[Frame(t)] = Above(NextSlot(t).at)
           /\ NextSlot(t).at = Append(path[Frame(t)], Digit(NextSlot(t).at))
           /\ Tail(todo[t]) \in Seq(SlotsAt(DOMAIN frames[t]))
<1>1. todo[t] \in Seq(SlotsAt(DOMAIN frames[t])) /\ FramesOK(frames[t])
    BY DEF Inv, TasksOK, TaskOK
<1>2. NextSlot(t) \in SlotsAt(DOMAIN frames[t]) /\ Tail(todo[t]) \in Seq(SlotsAt(DOMAIN frames[t]))
    BY <1>1, HeadTailProperties DEF NextSlot
<1>3. /\ NextSlot(t).kind \in {"elem", "dir"}
      /\ NextSlot(t).at \in Seq(Digits) \ {<<>>} /\ Above(NextSlot(t).at) \in DOMAIN frames[t]
    BY <1>2 DEF SlotsAt
<1>4. Frame(t) \in Linked /\ path[Frame(t)] = Above(NextSlot(t).at)
    BY <1>1, <1>3 DEF FramesOK, Frame
<1>5. Frame(t) \in Idxs
    BY <1>4, LinkedIs DEF Inv, Trie
<1>6. Digit(NextSlot(t).at) \in Digits
      /\ NextSlot(t).at = Append(Above(NextSlot(t).at), Digit(NextSlot(t).at))
    BY <1>3, IdParts
<1> QED BY <1>1, <1>2, <1>3, <1>4, <1>5, <1>6

\* A step of a walk, with what it has to look at then and the nodes it is in.
LEMMA WalkInv ==
    ASSUME Inv, NEW t \in Tasks, NEW k, NEW f, pc[t] = "map",
           UNCHANGED <<trie, req, pc, way>>,
           FramesOK(f), k \in Seq(SlotsAt(DOMAIN f)),
           DOMAIN todo' = Tasks, DOMAIN frames' = Tasks, todo'[t] = k, frames'[t] = f,
           \A u \in Tasks \ {t} : todo'[u] = todo[u] /\ frames'[u] = frames[u]
    PROVE  Inv'
<1>1. TaskOK(pc[t], req[t], idx[t], new[t], depth[t], k, f)
    BY DEF Inv, TasksOK, TaskOK
<1>2. Moves(t, pc[t], req[t], idx[t], new[t], depth[t], k, f)
    BY DEF Inv, Ours, Moves, way
<1> QED BY <1>1, <1>2, LocalInv

\* knd_shared_set.c:40-85: a walk reads each slot of the nodes it is in once.
LEMMA MapInv ==
    ASSUME Inv, NEW t \in Tasks, MapElem(t) \/ MapDir(t) \/ MapNoDir(t)
    PROVE  Inv' /\ (Path!MapElem(t) \/ Path!MapDir(t))
<1> DEFINE a == NextSlot(t).at
           n == Frame(t)
           d == Digit(a)
<1>0. /\ pc[t] = "map" /\ todo[t] # <<>> /\ UNCHANGED <<trie, numElems, req, pc, way, old, ans, calls>>
      /\ Dirs' = Dirs /\ Held' = Held /\ (NumPages + 1 - made)' = NumPages + 1 - made
  <2>1. /\ pc[t] = "map" /\ todo[t] # <<>> /\ UNCHANGED <<trie, numElems, req, pc, way, old, ans, calls>>
    BY DEF MapElem, MapDir, MapNoDir
  <2> QED BY <2>1, TrieSame DEF Inv, trie
<1>1. /\ todo[t] \in Seq(SlotsAt(DOMAIN frames[t])) /\ FramesOK(frames[t])
      /\ a \in Seq(Digits) \ {<<>>} /\ Above(a) \in DOMAIN frames[t] /\ d \in Digits
      /\ n \in Linked /\ n \in Idxs /\ path[n] = Above(a) /\ a = Append(path[n], d)
      /\ Tail(todo[t]) \in Seq(SlotsAt(DOMAIN frames[t]))
    BY <1>0, SlotOfWalk
<1>2. a \in Dirs <=> idxs[n][d] # NULL
    BY <1>1, SubIs DEF Inv, Trie
<1>3. a \in Ids /\ Held[a] # NoElem <=> elems[n][d] # NoElem
  <2>1. ASSUME a \in Ids PROVE Held[a] = elems[n][d]
    BY <1>1, <2>1, HeldIs DEF Inv, Trie, HeldRight
  <2>2. elems[n][d] # NoElem => a \in Ids
    BY <1>1 DEF Inv, Trie, Filled
  <2> QED BY <2>1, <2>2
<1>4. ASSUME MapElem(t) PROVE Inv' /\ Path!MapElem(t)
  <2>1. Inv'
    BY <1>0, <1>1, <1>4, WalkInv DEF MapElem, Inv, Ours
  <2>2. seen' = [seen EXCEPT ![t] = IF Path!Holds(Head(todo[t]).at)
                                    THEN Append(@, Head(todo[t]).at) ELSE @]
    <3>1. elems[n][d] # NoElem <=> Path!Holds(a)
      BY <1>3 DEF Path!Holds
    <3>2. seen' = [seen EXCEPT ![t] = IF elems[n][d] # NoElem THEN Append(@, a) ELSE @]
      BY <1>4 DEF MapElem
    <3>3. seen' = [seen EXCEPT ![t] = IF Path!Holds(a) THEN Append(@, a) ELSE @]
      BY <3>1, <3>2
    <3> QED BY <3>3 DEF NextSlot
  <2>3. Head(todo[t]).kind = "elem" /\ todo' = [todo EXCEPT ![t] = Tail(@)]
    BY <1>4 DEF MapElem, NextSlot
  <2> QED BY <1>0, <2>1, <2>2, <2>3 DEF Path!MapElem, Path!setVars, way
<1>5. ASSUME MapNoDir(t) PROVE Inv' /\ Path!MapDir(t)
  <2>1. Inv'
    BY <1>0, <1>1, <1>5, WalkInv DEF MapNoDir, Inv, Ours
  <2>2. Head(todo[t]).at \notin Dirs /\ Head(todo[t]).kind = "dir"
    BY <1>2, <1>5 DEF MapNoDir, NextSlot
  <2>3. todo' = [todo EXCEPT ![t] = (IF Head(@).at \in Dirs THEN Path!SlotsOf(Head(@).at) ELSE <<>>) \o Tail(@)]
    <3>1. <<>> \o Tail(todo[t]) = Tail(todo[t])
      BY <1>1, ConcatEmptySeq
    <3> QED BY <1>5, <2>2, <3>1 DEF MapNoDir
  <2>4. UNCHANGED seen
    BY <1>5 DEF MapNoDir
  <2> QED BY <1>0, <2>1, <2>2, <2>3, <2>4 DEF Path!MapDir, Path!setVars, way
<1>6. ASSUME MapDir(t) PROVE Inv' /\ Path!MapDir(t)
  <2> DEFINE f == [q \in DOMAIN frames[t] \cup {a} |-> IF q = a THEN idxs[n][d] ELSE frames[t][q]]
             k == SlotsOf(a) \o Tail(todo[t])
  <2>1. /\ idxs[n][d] # NULL /\ todo' = [todo EXCEPT ![t] = k] /\ frames' = [frames EXCEPT ![t] = f]
        /\ NextSlot(t).kind = "dir" /\ UNCHANGED seen
    BY <1>6 DEF MapDir
  <2>2. idxs[n][d] \in Linked /\ path[idxs[n][d]] = a
    BY <1>1, <2>1, LinkedIs DEF Inv, Trie, Hangs
  <2>3. FramesOK(f)
    BY <1>1, <2>2 DEF FramesOK
  <2>4. k \in Seq(SlotsAt(DOMAIN f))
    <3>1. a \in DOMAIN f /\ DOMAIN frames[t] \subseteq DOMAIN f
      OBVIOUS
    <3> HIDE DEF f
    <3>2. SlotsAt(DOMAIN frames[t]) \subseteq SlotsAt(DOMAIN f)
      BY <3>1 DEF SlotsAt
    <3>3. Tail(todo[t]) \in Seq(SlotsAt(DOMAIN f))
      BY <1>1, <3>2, SeqMonotonic
    <3>4. SlotsOf(a) \in Seq(SlotsAt(DOMAIN f))
      BY <1>1, <3>1, SlotsAre
    <3> QED BY <3>3, <3>4, ConcatProperties
  <2> HIDE DEF f, k
  <2>5. Inv'
    BY <1>0, <2>1, <2>3, <2>4, WalkInv DEF Inv, Ours
  <2>6. Head(todo[t]).at \in Dirs /\ Head(todo[t]).kind = "dir"
    BY <1>2, <2>1 DEF NextSlot
  <2>7. todo' = [todo EXCEPT ![t] = (IF Head(@).at \in Dirs THEN Path!SlotsOf(Head(@).at) ELSE <<>>) \o Tail(@)]
    BY <2>1, <2>6, PathSlots DEF k, NextSlot
  <2> QED BY <1>0, <2>1, <2>5, <2>6, <2>7 DEF Path!MapDir, Path!setVars, way
<1> QED BY <1>4, <1>5, <1>6

---------------------------------------------------------------------------

LEMMA InitInv == Init => Inv /\ Path!Init
<1> SUFFICES ASSUME Init PROVE Inv /\ Path!Init
    OBVIOUS
<1>1. Linked = {Root}
    BY DEF Init, Linked
<1>2. Trie
  <2>1. TrieTypes
    <3>1. <<>> \in Seq(Digits) /\ made \in Idxs
      BY NumNodes, EmptySeq DEF Init, Root
    <3> QED BY <3>1 DEF Init, TrieTypes
  <2>2. Hangs
    BY <1>1, NumNodes DEF Init, Hangs
  <2>3. Filled
    BY DEF Init, Filled
  <2> QED BY <2>1, <2>2, <2>3 DEF Trie
<1>3. TasksOK /\ Own /\ Ours
    BY NumNodes DEF Init, TasksOK, TaskOK, Own, Ours, PCs, Under, Set!Calls
<1>4. Dirs = {<<>>}
    BY <1>1, NumNodes DEF Init, Dirs
<1>5. Held = [i \in Ids |-> NoElem]
  <2>1. ASSUME NEW i \in Ids PROVE Held[i] = NoElem
    <3>1. \A n \in Linked : elems[n][Digit(i)] = NoElem
      BY <1>1, NumNodes, IdIs, IdParts DEF Init
    <3> QED BY <1>2, <3>1, HeldIs DEF Trie, HeldRight
  <2> QED BY <1>2, <2>1, HeldIs DEF Trie, HeldRight
<1>6. NumPages + 1 - made = NumPages
    BY NumNodes DEF Init
<1> QED BY <1>2, <1>3, <1>4, <1>5, <1>6
    DEF Inv, Init, Path!Init, Set!Idle, Set!Pending, Path!Set!Idle, Path!Set!Pending

LEMMA StepInv == Inv /\ [Next]_setVars => Inv' /\ [Path!Next]_(Path!vars)
<1> SUFFICES ASSUME Inv, [Next]_setVars PROVE Inv' /\ [Path!Next]_(Path!vars)
    OBVIOUS
<1>1. ASSUME NEW t \in Tasks, Step(t) PROVE Inv' /\ Path!Step(t)
    BY <1>1, DownInv, NewIdxInv, LinkInv, StoreInv, AddInv, GetInv, CallInv, MapInv DEF Step, Path!Step
<1>2. ASSUME NEW t \in Tasks, NEW c \in Requests, Ask(t, c) PROVE Inv' /\ Path!Ask(t, c)
    BY <1>2, CallInv
<1>3. Requests = Path!Requests
    BY DEF Requests, Path!Requests, Set!Calls, Path!Set!Calls, Set!Idle, Path!Set!Idle
<1>4. CASE UNCHANGED setVars
  <2>1. UNCHANGED trie /\ Dirs' = Dirs /\ Held' = Held
    BY <1>4, TrieSame DEF setVars, Inv
  <2>2. Trie' /\ Linked' = Linked
    BY <2>1, TrieSame DEF Inv
  <2>3. TasksOK' /\ Own' /\ Ours'
    BY <1>4, <2>1, <2>2
       DEF setVars, trie, way, walk, Inv, TasksOK, TaskOK, FramesOK, Own, Ours
  <2> QED BY <1>4, <2>1, <2>2, <2>3
      DEF Inv, setVars, trie, way, walk, Path!vars, Path!setVars, Path!walk
<1>5. CASE Next
    BY <1>1, <1>2, <1>3, <1>5 DEF Next, Path!Next
<1> QED BY <1>4, <1>5

LEMMA SetSteps == MCSpec => Init /\ [][Next]_setVars
<1>1. MCInit => Init
    BY DEF MCInit
<1>2. [MCNext]_mcVars => [Next]_setVars
    BY DEF MCNext, mcVars, OfSet, OfPool, Next
<1> QED BY <1>1, <1>2, PTL DEF MCSpec

\* knd_shared_set.c:100-165.  A node that was linked stays where it is, with its elements
\* and its sub-nodes, and every task goes on in nodes that are linked, so the digits of an
\* id lead every task to the same node, whichever exchanges were lost on the way.
THEOREM NodesAsPaths == MCSpec => ImplementsPathSet
    BY InitInv, StepInv, SetSteps, PTL DEF ImplementsPathSet, Path!Spec

---------------------------------------------------------------------------
(* What follows from it by PathSetProofs *)

PP == INSTANCE PathSetProofs WITH dirs <- Dirs, elems <- Held, pages <- NumPages + 1 - made

\* Path and PP name the same formulas.
LEMMA SamePath ==
    /\ Path!Init <=> PP!Init
    /\ [Path!Next]_(Path!vars) <=> [PP!Next]_(PP!vars)
<1>1. Path!Init <=> PP!Init
    BY DEF Path!Init, PP!Init, Path!Set!Idle, PP!Set!Idle, Path!Set!Pending, PP!Set!Pending
<1>2. Path!vars = PP!vars /\ Path!vars' = PP!vars'
    BY DEF Path!vars, PP!vars, Path!setVars, PP!setVars, Path!walk, PP!walk
<1>3. Path!Requests = PP!Requests
    BY DEF Path!Requests, PP!Requests, Path!Set!Calls, PP!Set!Calls, Path!Set!Idle, PP!Set!Idle
<1>4. \A p : Path!SlotsOf(p) = PP!SlotsOf(p)
    BY DEF PP!SlotsOf, PP!IdSlots, PP!DirSlots, PP!Slot, PP!Dir,
           Path!SlotsOf, Path!IdSlots, Path!DirSlots, Path!Slot, Path!Dir
<1>5. ASSUME NEW t \in Tasks, NEW c PROVE Path!Ask(t, c) <=> PP!Ask(t, c)
    BY <1>4 DEF Path!Ask, PP!Ask, Path!Set!Idle, PP!Set!Idle, Path!Goto, PP!Goto, Path!setVars, PP!setVars
<1>6. ASSUME NEW t \in Tasks PROVE Path!Step(t) <=> PP!Step(t)
  <2>1. /\ Path!Descend(t) <=> PP!Descend(t)
        /\ Path!GetDown(t) <=> PP!GetDown(t)
        /\ Path!LinkLost(t) <=> PP!LinkLost(t)
    BY DEF Path!Descend, PP!Descend, Path!GetDown, PP!GetDown, Path!LinkLost, PP!LinkLost,
           Path!AtLast, PP!AtLast, Path!Child, PP!Child, Path!Goto, PP!Goto,
           Path!setVars, PP!setVars, Path!walk, PP!walk
  <2>2. /\ Path!NewIdx(t) <=> PP!NewIdx(t)
        /\ Path!Link(t) <=> PP!Link(t)
    BY DEF Path!NewIdx, PP!NewIdx, Path!Link, PP!Link, Path!AtLast, PP!AtLast, Path!Child, PP!Child,
           Path!Goto, PP!Goto, Path!walk, PP!walk
  <2>3. /\ Path!NoMem(t) <=> PP!NoMem(t)
        /\ Path!Conflict(t) <=> PP!Conflict(t)
        /\ Path!GetNoIdx(t) <=> PP!GetNoIdx(t)
    BY DEF Path!NoMem, PP!NoMem, Path!Conflict, PP!Conflict, Path!GetNoIdx, PP!GetNoIdx,
           Path!AtLast, PP!AtLast, Path!Child, PP!Child, Path!Goto, PP!Goto, Path!Settle, PP!Settle,
           Path!Set!Done, PP!Set!Done, Path!setVars, PP!setVars, Path!walk, PP!walk
  <2>4. /\ Path!LoadFree(t) <=> PP!LoadFree(t)
        /\ Path!StoreLost(t) <=> PP!StoreLost(t)
        /\ Path!Count(t) <=> PP!Count(t)
    BY DEF Path!LoadFree, PP!LoadFree, Path!StoreLost, PP!StoreLost, Path!Count, PP!Count,
           Path!AtLast, PP!AtLast, Path!Unchanged, PP!Unchanged, Path!Goto, PP!Goto,
           Path!setVars, PP!setVars, Path!walk, PP!walk
  <2>5. Path!Store(t) <=> PP!Store(t)
    BY DEF Path!Store, PP!Store, Path!Unchanged, PP!Unchanged, Path!Goto, PP!Goto, Path!Settle, PP!Settle,
           Path!Set!Done, PP!Set!Done, Path!walk, PP!walk
  <2>6. /\ Path!GetElem(t) <=> PP!GetElem(t)
        /\ Path!MapEnd(t) <=> PP!MapEnd(t)
        /\ Path!Return(t) <=> PP!Return(t)
    BY DEF Path!GetElem, PP!GetElem, Path!MapEnd, PP!MapEnd, Path!Return, PP!Return, Path!AtLast, PP!AtLast,
           Path!Goto, PP!Goto, Path!Settle, PP!Settle, Path!Set!Done, PP!Set!Done, Path!Set!Found, PP!Set!Found,
           Path!Set!Idle, PP!Set!Idle, Path!Set!Pending, PP!Set!Pending,
           Path!setVars, PP!setVars, Path!walk, PP!walk
  <2>7. /\ Path!MapElem(t) <=> PP!MapElem(t)
        /\ Path!MapDir(t) <=> PP!MapDir(t)
    BY <1>4 DEF Path!MapElem, PP!MapElem, Path!MapDir, PP!MapDir, Path!Holds, PP!Holds,
           Path!setVars, PP!setVars
  <2> QED BY <2>1, <2>2, <2>3, <2>4, <2>5, <2>6, <2>7 DEF Path!Step, PP!Step
<1>7. Path!Next <=> PP!Next
    BY <1>3, <1>5, <1>6 DEF Path!Next, PP!Next
<1> QED BY <1>1, <1>2, <1>7

\* Their ids, and the sizes of their sets.
LEMMA SameFinite == \A S : (PP!IsFiniteSet(S) <=> IsFiniteSet(S)) /\ PP!Cardinality(S) = Path!Cardinality(S)
    BY DEF PP!IsFiniteSet, IsFiniteSet, PP!Cardinality, Path!Cardinality

LEMMA PathConsts == PP!SharedSetAssumption
    BY SharedSetAssumption, SameFinite DEF PP!SharedSetAssumption, PP!Digits, Digits

LEMMA AsPathSet == MCSpec => PP!Spec
    BY InitInv, StepInv, SetSteps, SamePath, PTL DEF PP!Spec

\* knd_shared_set.c:167-260.  knd_shared_set_add and _get are one step each for their
\* callers: what a get finds at the end of its way down is the element that the exchange
\* of one add put there, and an add is refused because of it.
THEOREM SetAsMap == MCSpec => ImplementsIdMap
<1>1. PP!Spec => PP!Set!Spec
    BY PathConsts, PP!SetImplementsIdMap DEF PP!ImplementsIdMap
<1>2. PP!Set!Init <=> Set!Init
    BY DEF PP!Set!Init, Set!Init, PP!Set!Idle, Set!Idle, PP!Set!Pending, Set!Pending
<1>3. PP!Set!Next <=> Set!Next
    BY DEF PP!Set!Next, Set!Next, PP!Set!Calls, Set!Calls, PP!Set!Ask, Set!Ask, PP!Set!Put, Set!Put,
           PP!Set!Refuse, Set!Refuse, PP!Set!GiveUp, Set!GiveUp, PP!Set!Look, Set!Look, PP!Set!Walk, Set!Walk,
           PP!Set!Return, Set!Return, PP!Set!Settle, Set!Settle, PP!Set!Done, Set!Done, PP!Set!Found, Set!Found,
           PP!Set!Idle, Set!Idle, PP!Set!Pending, Set!Pending
<1>4. PP!Set!mapVars = Set!mapVars /\ PP!Set!mapVars' = Set!mapVars'
    BY DEF PP!Set!mapVars, Set!mapVars
<1>5. [PP!Set!Next]_(PP!Set!mapVars) <=> [Set!Next]_(Set!mapVars)
    BY <1>3, <1>4
<1> QED BY <1>1, <1>2, <1>5, AsPathSet, PTL DEF ImplementsIdMap, Set!Spec, PP!Set!Spec

\* knd_shared_set.c:120-127.  num_elems is the number of the elements, less those that are
\* about to be counted.
THEOREM CountExact == MCSpec => []NumElemsExact
<1>1. PP!NumElemsExact => NumElemsExact
    BY SameFinite DEF PP!NumElemsExact, NumElemsExact, Path!NumElemsExact
<1>2. PP!Spec => []PP!NumElemsExact
    BY PathConsts, PP!CountExact
<1> QED BY <1>1, <1>2, AsPathSet, PTL

\* knd_shared_set.c:40-85.  A walk that runs while others add hands over all that was there
\* when it began, in the order of the trie and nothing twice.
THEOREM WalkComplete == MCSpec => []WalkMissesNothing
<1>1. PP!WalkMissesNothing => WalkMissesNothing
    BY DEF PP!WalkMissesNothing, WalkMissesNothing, Path!WalkMissesNothing, PP!Before, Path!Before
<1>2. PP!Spec => []PP!WalkMissesNothing
    BY PathConsts, PP!WalkComplete
<1> QED BY <1>1, <1>2, AsPathSet, PTL

---------------------------------------------------------------------------
(***************************************************************************)
(* The pool.                                                               *)
(*                                                                         *)
(* The list is only ever popped, so the free pages are at every moment the *)
(* pages from the head to the last one, linked in order (InOrder), and a   *)
(* task about to compare holds the right link if its page is still the     *)
(* head (LinksRight): the head never comes back to a page it left, so what *)
(* a task reads from a page that was taken meanwhile is never installed.   *)
(***************************************************************************)

LEMMA PoolConsts == PoolPages \in Nat \ {0} /\ Pool!Nobody \notin Tasks
    BY MCSharedAssumption DEF Pool!PoolProper

\* A behaviour of both structures is one of the pool.
LEMMA PoolSteps == MCSpec => Pool!Init /\ [][Pool!Next]_(Pool!vars)
<1>1. MCInit => Pool!Init
    BY DEF MCInit
<1>2. [MCNext]_mcVars => [Pool!Next]_(Pool!vars)
    BY DEF MCNext, mcVars, OfSet, OfPool, poolVars, Pool!Next, Pool!vars, Pool!shared, Pool!locals
<1> QED BY <1>1, <1>2, PTL DEF MCSpec

InOrder == /\ \A p \in Pool!Pages : owner[p] = Pool!Nobody <=> (list # Pool!NULL /\ list <= p)
           /\ \A p \in Pool!Pages : owner[p] = Pool!Nobody => next[p] = Pool!Link(p)

LinksRight ==
    \A t \in Tasks :
       /\ poolPc[t] \in {"read_next", "cas"} => list = Pool!NULL \/ page_list[t] <= list
       /\ poolPc[t] = "cas" /\ page_list[t] = list => next_page[t] = Pool!Link(list)

\* used is not part of it: nothing but CountRight depends on it.
PoolTypes ==
    /\ list \in Pool!Pages \cup {Pool!NULL}
    /\ next \in [Pool!Pages -> 0..Pool!Data]
    /\ owner \in [Pool!Pages -> Tasks \cup {Pool!Nobody}]
    /\ poolPc \in [Tasks -> Pool!PCs]
    /\ page_list \in [Tasks -> Pool!Pages \cup {Pool!NULL}]
    /\ \A t \in Tasks : (page_list[t] = Pool!NULL) <=> (poolPc[t] \in {"idle", "load"})
    /\ next_page \in [Tasks -> 0..Pool!Data]

PoolInv == PoolTypes /\ InOrder /\ LinksRight

\* build_linked_list, knd_mempool.c:305-314: the link of a page is the page
\* after it, and of the last page the end of the list.
LEMMA LinkValue ==
    ASSUME NEW p \in Pool!Pages
    PROVE  /\ Pool!Link(p) \in Pool!Pages \cup {Pool!NULL}
           /\ Pool!Link(p) \in 0..Pool!Data
           /\ Pool!Link(p) = Pool!NULL => p = PoolPages
           /\ Pool!Link(p) # Pool!NULL => Pool!Link(p) = p + 1
    BY PoolConsts DEF Pool!Link, Pool!Pages, Pool!Data, Pool!NULL

LEMMA InitPool == Pool!Init => PoolInv
<1> SUFFICES ASSUME Pool!Init PROVE PoolInv
    OBVIOUS
<1>1. PoolTypes
  <2>1. next \in [Pool!Pages -> 0..Pool!Data]
    BY LinkValue DEF Pool!Init
  <2>2. list \in Pool!Pages \cup {Pool!NULL} /\ Pool!NULL \in Pool!Pages \cup {Pool!NULL} /\ Pool!NULL \in 0..Pool!Data
    BY PoolConsts DEF Pool!Init, Pool!Pages, Pool!NULL, Pool!Data
  <2> QED BY <2>1, <2>2 DEF Pool!Init, PoolTypes, Pool!PCs
<1>2. InOrder
  <2>1. list = 1 /\ \A p \in Pool!Pages : owner[p] = Pool!Nobody /\ next[p] = Pool!Link(p)
    BY DEF Pool!Init
  <2> QED BY <2>1, PoolConsts DEF InOrder, Pool!Pages, Pool!NULL
<1>3. LinksRight
    BY DEF Pool!Init, LinksRight
<1> QED BY <1>1, <1>2, <1>3 DEF PoolInv

\* A step that changes no shared variable and moves one task keeps Inv if that
\* task's locals are right after it.
LEMMA LocalPool ==
    ASSUME PoolInv, NEW t \in Tasks, UNCHANGED Pool!shared,
           NEW l \in Pool!PCs, NEW p \in Pool!Pages \cup {Pool!NULL}, NEW n \in 0..Pool!Data,
           Pool!Goto(t, l),
           page_list' = [page_list EXCEPT ![t] = p],
           next_page' = [next_page EXCEPT ![t] = n],
           p = Pool!NULL <=> l \in {"idle", "load"},
           l \in {"read_next", "cas"} => list = Pool!NULL \/ p <= list,
           l = "cas" /\ p = list => n = Pool!Link(list)
    PROVE  PoolInv'
<1> USE DEF PoolInv, PoolTypes
<1>0. Pool!Link(list)' = Pool!Link(list)
    BY DEF Pool!shared, Pool!Link
<1>1. PoolTypes'
    BY DEF Pool!shared, Pool!Goto
<1>2. InOrder'
    BY DEF Pool!shared, InOrder, Pool!Link
<1>3. LinksRight'
  <2> SUFFICES ASSUME NEW u \in Tasks
               PROVE  /\ poolPc'[u] \in {"read_next", "cas"} => list' = Pool!NULL \/ page_list'[u] <= list'
                      /\ poolPc'[u] = "cas" /\ page_list'[u] = list' => next_page'[u] = Pool!Link(list')
    BY DEF LinksRight
  <2>1. CASE u = t
    BY <2>1 DEF Pool!shared, Pool!Goto
  <2>2. CASE u # t
    BY <2>2 DEF Pool!shared, Pool!Goto, LinksRight
  <2> QED BY <2>1, <2>2
<1> QED BY <1>1, <1>2, <1>3

\* The compare-and-swap takes the page at the head and makes its true
\* successor the head.
LEMMA PopKeeps == ASSUME PoolInv, NEW t \in Tasks, Pool!Pop(t) PROVE PoolInv'
<1> DEFINE h == page_list[t]
<1>1. h = list /\ h \in Pool!Pages /\ h # Pool!NULL
    BY DEF PoolInv, PoolTypes, Pool!Pop, Pool!HeadUnchanged
<1>2. list' = Pool!Link(h)
    BY <1>1 DEF PoolInv, Pool!Pop, LinksRight
<1>3. owner[h] = Pool!Nobody
    BY <1>1 DEF PoolInv, InOrder, Pool!Pages
<1>4. /\ list' \in Pool!Pages \cup {Pool!NULL}
      /\ list' = Pool!NULL => h = PoolPages
      /\ list' # Pool!NULL => list' = h + 1
    BY <1>1, <1>2, LinkValue
<1>5. PoolTypes'
    BY <1>4 DEF PoolInv, PoolTypes, Pool!Pop, Pool!Goto, Pool!PCs, Pool!locals
<1>6. InOrder'
  <2>1. ASSUME NEW p \in Pool!Pages
        PROVE  /\ owner'[p] = Pool!Nobody <=> (list' # Pool!NULL /\ list' <= p)
               /\ owner'[p] = Pool!Nobody => next'[p] = Pool!Link(p)
    <3>1. owner'[p] = IF p = h THEN t ELSE owner[p]
      BY DEF PoolInv, PoolTypes, Pool!Pop
    <3>2. owner'[p] = Pool!Nobody <=> owner[p] = Pool!Nobody /\ p # h
      BY <3>1, <1>3, PoolConsts
    <3>3. owner[p] = Pool!Nobody <=> h <= p
      BY <1>1 DEF PoolInv, InOrder
    <3>4. h <= p /\ p # h <=> (list' # Pool!NULL /\ list' <= p)
      BY <1>1, <1>4, PoolConsts DEF Pool!Pages, Pool!NULL
    <3> QED BY <3>2, <3>3, <3>4 DEF PoolInv, InOrder, Pool!Pop
  <2> QED BY <2>1 DEF InOrder, Pool!Link
<1>7. LinksRight'
  <2> SUFFICES ASSUME NEW u \in Tasks, poolPc'[u] \in {"read_next", "cas"}, list' # Pool!NULL
               PROVE  page_list'[u] < list'
    <3>1. ASSUME NEW u \in Tasks, poolPc'[u] = "cas"
          PROVE  page_list'[u] \in Pool!Pages
      BY <1>5, <3>1 DEF PoolTypes
    <3>2. Pool!NULL \notin Pool!Pages /\ \A p, q \in Pool!Pages : p < q => p <= q /\ p # q
      BY DEF Pool!NULL, Pool!Pages
    <3>3. \A u \in Tasks : poolPc'[u] \in {"read_next", "cas"} => page_list'[u] \in Pool!Pages
      BY <1>5 DEF PoolTypes
    <3> QED BY <1>4, <3>1, <3>2, <3>3 DEF LinksRight
  <2>1. u # t /\ poolPc[u] = poolPc'[u] /\ page_list'[u] = page_list[u] /\ page_list[u] \in Pool!Pages
    BY DEF PoolInv, PoolTypes, Pool!Pop, Pool!Goto, Pool!locals
  <2>2. page_list[u] <= h
    BY <1>1, <2>1 DEF PoolInv, LinksRight
  <2> QED BY <1>1, <1>4, <2>1, <2>2 DEF Pool!Pages
<1> QED BY <1>5, <1>6, <1>7 DEF PoolInv

LEMMA StepPool == PoolInv /\ [Pool!Next]_(Pool!vars) => PoolInv'
<1> SUFFICES ASSUME PoolInv, [Pool!Next]_(Pool!vars) PROVE PoolInv'
    OBVIOUS
<1> USE DEF PoolInv, PoolTypes
<1>0. Pool!NULL \in 0..Pool!Data /\ Pool!NULL \in Pool!Pages \cup {Pool!NULL} /\ {"idle", "load", "read_next", "cas", "count"} = Pool!PCs
    BY PoolConsts DEF Pool!NULL, Pool!Data, Pool!PCs
<1>1. ASSUME NEW t \in Tasks, Pool!Call(t) PROVE PoolInv'
  <2>1. /\ Pool!Goto(t, "load") /\ UNCHANGED Pool!shared
        /\ page_list' = [page_list EXCEPT ![t] = page_list[t]]
        /\ next_page' = [next_page EXCEPT ![t] = next_page[t]]
        /\ page_list[t] = Pool!NULL
    BY <1>1 DEF Pool!Call, Pool!locals
  <2> QED BY <1>0, <2>1, LocalPool
<1>2. ASSUME NEW t \in Tasks, Pool!Load(t) PROVE PoolInv'
  <2>1. /\ Pool!Goto(t, "read_next") /\ UNCHANGED Pool!shared
        /\ page_list' = [page_list EXCEPT ![t] = list]
        /\ next_page' = [next_page EXCEPT ![t] = next_page[t]]
        /\ list \in Pool!Pages /\ list # Pool!NULL /\ list <= list
    BY <1>2 DEF Pool!Load, Pool!Pages
  <2> QED BY <1>0, <2>1, LocalPool
<1>3. ASSUME NEW t \in Tasks, Pool!NoMem(t) PROVE PoolInv'
  <2>1. /\ Pool!Goto(t, "idle") /\ UNCHANGED Pool!shared
        /\ page_list' = [page_list EXCEPT ![t] = page_list[t]]
        /\ next_page' = [next_page EXCEPT ![t] = next_page[t]]
        /\ page_list[t] = Pool!NULL
    BY <1>3 DEF Pool!NoMem, Pool!locals
  <2> QED BY <1>0, <2>1, LocalPool
<1>4. ASSUME NEW t \in Tasks, Pool!ReadNext(t) PROVE PoolInv'
  <2> DEFINE p == page_list[t]
  <2>1. p \in Pool!Pages /\ p # Pool!NULL /\ (list = Pool!NULL \/ p <= list)
    BY <1>4 DEF Pool!ReadNext, LinksRight
  <2>2. p = list => next[p] = Pool!Link(list)
    BY <2>1 DEF InOrder, Pool!Pages
  <2>3. /\ Pool!Goto(t, "cas") /\ UNCHANGED Pool!shared
        /\ page_list' = [page_list EXCEPT ![t] = p]
        /\ next_page' = [next_page EXCEPT ![t] = next[p]]
        /\ next[p] \in 0..Pool!Data
    BY <1>4, <2>1 DEF Pool!ReadNext, Pool!shared
  <2> HIDE DEF p
  <2> QED BY <1>0, <2>1, <2>2, <2>3, LocalPool
<1>5. ASSUME NEW t \in Tasks, Pool!Pop(t) PROVE PoolInv'
    BY <1>5, PopKeeps
<1>6. ASSUME NEW t \in Tasks, Pool!Retry(t) PROVE PoolInv'
  <2>1. /\ Pool!Goto(t, "load") /\ UNCHANGED Pool!shared
        /\ page_list' = [page_list EXCEPT ![t] = Pool!NULL]
        /\ next_page' = [next_page EXCEPT ![t] = Pool!NULL]
    BY <1>6 DEF Pool!Retry
  <2> QED BY <1>0, <2>1, LocalPool
<1>7. ASSUME NEW t \in Tasks, Pool!Count(t) PROVE PoolInv'
  <2>1. /\ UNCHANGED <<list, next, owner>>
        /\ poolPc' = [poolPc EXCEPT ![t] = "idle"]
        /\ page_list' = [page_list EXCEPT ![t] = Pool!NULL]
        /\ next_page' = [next_page EXCEPT ![t] = Pool!NULL]
    BY <1>7 DEF Pool!Count, Pool!Goto
  <2>2. PoolTypes'
    BY <1>0, <2>1
  <2>3. InOrder' /\ LinksRight'
    BY <2>1 DEF InOrder, LinksRight, Pool!Link
  <2> QED BY <2>2, <2>3
<1>8. ASSUME NEW t \in Tasks, Pool!Use(t) PROVE PoolInv'
  <2>1. PICK p \in Pool!Pages : /\ owner[p] = t /\ next' = [next EXCEPT ![p] = Pool!Data]
                           /\ UNCHANGED <<list, used, owner, poolPc, Pool!locals>>
    BY <1>8 DEF Pool!Use
  <2>2. Pool!Data \in 0..Pool!Data /\ t # Pool!Nobody
    BY PoolConsts DEF Pool!Data
  <2>3. PoolTypes'
    BY <2>1, <2>2 DEF Pool!locals
  <2>4. InOrder'
    BY <2>1, <2>2 DEF InOrder, Pool!Link
  <2>5. LinksRight'
    BY <2>1 DEF LinksRight, Pool!locals, Pool!Link
  <2> QED BY <2>3, <2>4, <2>5
<1>9. CASE UNCHANGED Pool!vars
  <2>1. PoolTypes'
    BY <1>9 DEF Pool!vars, Pool!shared, Pool!locals
  <2>2. InOrder' /\ LinksRight'
    BY <1>9 DEF Pool!vars, Pool!shared, Pool!locals, InOrder, LinksRight, Pool!Link
  <2> QED BY <2>1, <2>2
<1> QED BY <1>1, <1>2, <1>3, <1>4, <1>5, <1>6, <1>7, <1>8, <1>9 DEF Pool!Next, Pool!Step

LEMMA PoolInvHolds == MCSpec => []PoolInv
    BY InitPool, StepPool, PoolSteps, PTL

---------------------------------------------------------------------------

LEMMA InvList == PoolInv => FreeListIntact
<1> SUFFICES ASSUME PoolInv PROVE FreeListIntact
    OBVIOUS
<1>1. \A p \in Pool!Pages : p \in Pool!Free <=> list # Pool!NULL /\ list <= p
    BY DEF PoolInv, InOrder, Pool!Free
<1>2. \A p \in Pool!Free : p \in Pool!Pages /\ next[p] = Pool!Link(p)
    BY DEF PoolInv, InOrder, Pool!Free
<1>3. list \in Pool!Free \cup {Pool!NULL}
    BY <1>1 DEF PoolInv, PoolTypes, Pool!Pages
<1>4. ASSUME NEW p \in Pool!Free PROVE next[p] \in Pool!Free \cup {Pool!NULL}
  <2>1. Pool!Link(p) # Pool!NULL => Pool!Link(p) = p + 1 /\ Pool!Link(p) \in Pool!Pages
    BY <1>2, LinkValue
  <2>2. Pool!Link(p) # Pool!NULL => list <= Pool!Link(p)
    BY <1>1, <1>2, <2>1 DEF PoolInv, PoolTypes, Pool!Pages
  <2> QED BY <1>1, <1>2, <2>1, <2>2
<1>5. ASSUME NEW p \in Pool!Free PROVE p # list <=> \E q \in Pool!Free : next[q] = p
  <2>1. ASSUME p # list PROVE \E q \in Pool!Free : next[q] = p
    <3>0. p \in Pool!Pages /\ list \in Pool!Pages /\ list # Pool!NULL /\ list <= p
      BY <1>1, <1>2 DEF PoolInv, PoolTypes
    <3>1. p - 1 \in Pool!Pages /\ list <= p - 1 /\ list # Pool!NULL
      BY <2>1, <3>0, PoolConsts DEF Pool!Pages
    <3>2. Pool!Link(p - 1) = p
      BY <1>2, <3>1 DEF Pool!Link, Pool!Pages
    <3> QED BY <1>1, <1>2, <3>1, <3>2
  <2>2. ASSUME NEW q \in Pool!Free, next[q] = p PROVE p # list
    <3>1. p = q + 1 /\ list <= q
      BY <1>1, <1>2, <2>2, LinkValue DEF Pool!Pages, Pool!NULL
    <3> QED BY <1>1, <1>2, <3>1 DEF PoolInv, PoolTypes, Pool!Pages
  <2> QED BY <2>1, <2>2
<1>6. ASSUME NEW p \in Pool!Free, NEW q \in Pool!Free, next[p] = next[q] PROVE p = q
  <2>1. p \in Pool!Pages /\ q \in Pool!Pages /\ Pool!Link(p) = Pool!Link(q)
    BY <1>2, <1>6
  <2> QED BY <2>1, LinkValue DEF Pool!Pages
<1> QED BY <1>3, <1>4, <1>5, <1>6 DEF FreeListIntact, Pool!FreeListIntact

\* knd_mempool.c:84-137.  However many tasks take pages from the shared list,
\* it holds exactly the pages nobody has, each once.
THEOREM ListIntact == MCSpec => []FreeListIntact
    BY PoolInvHolds, InvList, PTL

\* knd_mempool.c:110-116.  The compare-and-swap never gives a page that some
\* task already has.
THEOREM GivenOnce == MCSpec => PageGivenOnce
<1>1. PoolInv /\ [Pool!Next]_(Pool!vars) => [\A p \in Pool!Pages : owner[p] # Pool!Nobody => owner'[p] = owner[p]]_(Pool!vars)
  <2> SUFFICES ASSUME PoolInv, Pool!Next, NEW p \in Pool!Pages, owner[p] # Pool!Nobody
               PROVE  owner'[p] = owner[p]
    OBVIOUS
  <2>1. ASSUME NEW t \in Tasks, Pool!Pop(t) PROVE owner'[p] = owner[p]
    <3>1. page_list[t] = list /\ list \in Pool!Pages /\ list # Pool!NULL
      BY <2>1 DEF Pool!Pop, Pool!HeadUnchanged, PoolInv, PoolTypes
    <3>2. owner[list] = Pool!Nobody
      BY <3>1 DEF PoolInv, InOrder, Pool!Pages
    <3> QED BY <2>1, <3>1, <3>2 DEF Pool!Pop, PoolInv, PoolTypes
  <2>2. ASSUME NEW t \in Tasks,
               Pool!Call(t) \/ Pool!Load(t) \/ Pool!NoMem(t) \/ Pool!ReadNext(t) \/ Pool!Retry(t) \/ Pool!Count(t) \/ Pool!Use(t)
        PROVE  owner'[p] = owner[p]
    BY <2>2 DEF Pool!Call, Pool!Load, Pool!NoMem, Pool!ReadNext, Pool!Retry, Pool!Count, Pool!Use, Pool!shared
  <2> QED BY <2>1, <2>2 DEF Pool!Next, Pool!Step
<1> QED BY <1>1, PoolInvHolds, PoolSteps, PTL DEF PageGivenOnce, Pool!PageGivenOnce

\* knd_mempool.c:97-103.  A task told that memory is exhausted was told so
\* when no page was free.
THEOREM NoMemTrue == MCSpec => NoMemOnlyWhenFull
<1>1. PoolInv /\ [Pool!Next]_(Pool!vars) => [\A t \in Tasks : poolPc[t] = "load" /\ poolPc'[t] = "idle" => Pool!Free = {}]_(Pool!vars)
  <2> SUFFICES ASSUME PoolInv, Pool!Next, NEW t \in Tasks, poolPc[t] = "load", poolPc'[t] = "idle"
               PROVE  Pool!Free = {}
    OBVIOUS
  <2>1. PICK u \in Tasks : Pool!Call(u) \/ Pool!Step(u) \/ Pool!Use(u)
    BY DEF Pool!Next
  <2>2. list = Pool!NULL
    BY <2>1 DEF Pool!Step, Pool!Call, Pool!Load, Pool!NoMem, Pool!ReadNext, Pool!Pop, Pool!Retry, Pool!Count, Pool!Use, Pool!Goto, PoolInv, PoolTypes
  <2> QED BY <2>2 DEF PoolInv, InOrder, Pool!Free
<1> QED BY <1>1, PoolInvHolds, PoolSteps, PTL DEF NoMemOnlyWhenFull, Pool!NoMemOnlyWhenFull

---------------------------------------------------------------------------
(* The counter of pages in use: the tasks that have popped a page and not  *)
(* counted it yet are as many as it lacks.                                 *)

Counting == {t \in Tasks : poolPc[t] = "count"}
Given == IF list = Pool!NULL THEN PoolPages ELSE list - 1
CountRight == /\ used \in Nat /\ IsFiniteSet(Counting)
              /\ used + Cardinality(Counting) = Given

LEMMA GivenIs == PoolInv => Given \in 0..PoolPages
    BY PoolConsts DEF PoolInv, PoolTypes, Given, Pool!Pages, Pool!NULL

LEMMA InitCount == Pool!Init => CountRight
<1> SUFFICES ASSUME Pool!Init PROVE CountRight
    OBVIOUS
<1>1. Counting = {} /\ used = 0 /\ Given = 0
    BY DEF Pool!Init, Counting, Given, Pool!NULL
<1> QED BY <1>1, FS_EmptySet DEF CountRight

LEMMA StepCount == PoolInv /\ CountRight /\ [Pool!Next]_(Pool!vars) => CountRight'
<1> SUFFICES ASSUME PoolInv, CountRight, [Pool!Next]_(Pool!vars) PROVE CountRight'
    OBVIOUS
<1>1. CASE UNCHANGED <<list, used>> /\ Counting' = Counting
    BY <1>1 DEF CountRight, Given
<1>2. ASSUME NEW t \in Tasks, Pool!Pop(t) PROVE CountRight'
  <2>1. list \in Pool!Pages /\ list' = Pool!Link(list) /\ used' = used /\ list # Pool!NULL
    BY <1>2 DEF PoolInv, PoolTypes, LinksRight, Pool!Pop, Pool!HeadUnchanged
  <2>2. Given' = Given + 1
    BY <2>1, LinkValue, PoolConsts DEF Given, Pool!Pages, Pool!NULL
  <2>3. Counting' = Counting \cup {t} /\ t \notin Counting
    BY <1>2 DEF PoolInv, PoolTypes, Counting, Pool!Pop, Pool!Goto
  <2>4. IsFiniteSet(Counting') /\ Cardinality(Counting') = Cardinality(Counting) + 1
    BY <2>3, FS_AddElement DEF CountRight
  <2>5. Cardinality(Counting) \in Nat /\ Given \in Nat
    BY FS_CardinalityType, GivenIs DEF CountRight
  <2> QED BY <2>1, <2>2, <2>4, <2>5 DEF CountRight
<1>3. ASSUME NEW t \in Tasks, Pool!Count(t) PROVE CountRight'
  <2>1. list' = list /\ used' = used + 1 /\ Given' = Given
    BY <1>3 DEF Pool!Count, Given
  <2>2. Counting' = Counting \ {t} /\ t \in Counting
    BY <1>3 DEF PoolInv, PoolTypes, Counting, Pool!Count, Pool!Goto
  <2>3. IsFiniteSet(Counting') /\ Cardinality(Counting') = Cardinality(Counting) - 1
    BY <2>2, FS_RemoveElement DEF CountRight
  <2>4. Cardinality(Counting) \in Nat /\ Given \in Nat
    BY FS_CardinalityType, GivenIs DEF CountRight
  <2> QED BY <2>1, <2>3, <2>4 DEF CountRight
<1>4. ASSUME NEW t \in Tasks, Pool!Call(t) \/ Pool!Load(t) \/ Pool!NoMem(t) \/ Pool!ReadNext(t) \/ Pool!Retry(t) \/ Pool!Use(t)
      PROVE  CountRight'
  <2>1. UNCHANGED <<list, used>>
    BY <1>4 DEF Pool!Call, Pool!Load, Pool!NoMem, Pool!ReadNext, Pool!Retry, Pool!Use, Pool!shared
  <2>2. Counting' = Counting
    BY <1>4 DEF Pool!Call, Pool!Load, Pool!NoMem, Pool!ReadNext, Pool!Retry, Pool!Use, Pool!Goto, PoolInv, PoolTypes, Counting
  <2> QED BY <1>1, <2>1, <2>2
<1>5. CASE UNCHANGED Pool!vars
    BY <1>1, <1>5 DEF Pool!vars, Pool!shared, Counting
<1> QED BY <1>2, <1>3, <1>4, <1>5 DEF Pool!Next, Pool!Step

\* knd_mempool.c:84-137.  The counter of pages in use is bumped after the page was
\* taken, by as many tasks at once as there are, and yet never goes beyond the pages of
\* the pool; the other variables hold values of their types.
THEOREM CounterRight == MCSpec => []PagesCounted
<1>1. Pool!Init => CountRight
    BY InitCount
<1>2. PoolInv /\ CountRight => PagesCounted
  <2> SUFFICES ASSUME PoolInv, CountRight PROVE PagesCounted
    OBVIOUS
  <2>1. Cardinality(Counting) \in Nat /\ Given \in 0..PoolPages
    BY FS_CardinalityType, GivenIs DEF CountRight
  <2>2. used \in 0..PoolPages
    BY <2>1, PoolConsts DEF CountRight
  <2> QED BY <2>2 DEF PoolInv, PoolTypes, PagesCounted, Pool!TypeOK
<1> QED BY <1>1, <1>2, StepCount, PoolInvHolds, PoolSteps, PTL
=============================================================================
