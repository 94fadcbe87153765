-------------------------- MODULE SharedDictProofs --------------------------
(***************************************************************************)
(* Proofs about SharedDict for any number of threads, keys, values,        *)
(* buckets and pages.                                                      *)
(*                                                                         *)
(* And about SetFile, the set on disk, for any ids, records and base: the  *)
(* bytes of a block are where its footers say (Written, FooterAt, TableAt, *)
(* LinearAt, BlockAt), so that reading a node is right if reading its      *)
(* sub-nodes is (Gives), from the deepest nodes up to the root.  The two   *)
(* parts share no name and no lemma.                                       *)
(***************************************************************************)
EXTENDS SharedDictObs, SetFile, SequenceTheorems, FiniteSetTheorems, WellFoundedInduction, TLAPS

\* Pushing an item on bucket b keeps what is already in the lists where it is.
LEMMA PushItem ==
  ASSUME NEW b \in Buckets, NEW x \in Items, chain \in [Buckets -> Seq(Items)],
         chain' = [chain EXCEPT ![b] = Append(@, x)]
  PROVE  /\ chain' \in [Buckets -> Seq(Items)]
         /\ \A a \in Buckets : a # b => chain'[a] = chain[a]
         /\ Len(chain'[b]) = Len(chain[b]) + 1
         /\ chain'[b][Len(chain[b]) + 1] = x
         /\ \A i \in 1..Len(chain[b]) : chain'[b][i] = chain[b][i]
  BY AppendProperties

\* Replacing an item of a list changes nothing else in it.
LEMMA ReplaceItem ==
  ASSUME NEW c \in Seq(Items), NEW i \in 1..Len(c), NEW e \in Items,
         NEW d, d = [c EXCEPT ![i] = e]
  PROVE  /\ d \in Seq(Items)
         /\ Len(d) = Len(c)
         /\ d[i] = e
         /\ \A j \in 1..Len(c) : j # i => d[j] = c[j]
  OBVIOUS

\* Setting the phase of an item changes nothing else in the lists.
Marked(b, i, p) ==
    /\ chain' \in [Buckets -> Seq(Items)]
    /\ \A a \in Buckets : a # b => chain'[a] = chain[a]
    /\ Len(chain'[b]) = Len(chain[b])
    /\ chain'[b][i].phase = p
    /\ \A j \in 1..Len(chain[b]) : /\ chain'[b][j].key = chain[b][j].key
                                   /\ chain'[b][j].data = chain[b][j].data
                                   /\ j # i => chain'[b][j] = chain[b][j]

LEMMA MarkItem ==
  ASSUME NEW b \in Buckets, NEW i, i \in 1..Len(chain[b]), NEW p \in Phases,
         chain \in [Buckets -> Seq(Items)],
         chain' = [chain EXCEPT ![b][i].phase = p]
  PROVE  Marked(b, i, p)
  <1>1. PICK c : c = chain[b]
    OBVIOUS
  <1>2. c \in Seq(Items) /\ i \in 1..Len(c) /\ c[i] \in Items
    BY <1>1, ElementOfSeq
  <1>3. PICK e : e = [key |-> c[i].key, data |-> c[i].data, phase |-> p]
    OBVIOUS
  <1>4. e \in Items /\ e.key = c[i].key /\ e.data = c[i].data /\ e.phase = p
    BY <1>2, <1>3 DEF Items
  <1>5. [c[i] EXCEPT !.phase = p] = e
    BY <1>2, <1>3 DEF Items
  <1>6. PICK d : d = chain'[b]
    OBVIOUS
  <1>7. d = [c EXCEPT ![i] = e]
    BY <1>1, <1>2, <1>5, <1>6
  <1>8. /\ d \in Seq(Items)
        /\ Len(d) = Len(c)
        /\ d[i] = e
        /\ \A j \in 1..Len(c) : j # i => d[j] = c[j]
    BY <1>2, <1>4, <1>7, ReplaceItem
  <1>9. \A a \in Buckets : a # b => chain'[a] = chain[a]
    OBVIOUS
  <1>10. chain' \in [Buckets -> Seq(Items)]
    BY <1>6, <1>8, <1>9
  <1> QED BY <1>1, <1>4, <1>6, <1>8, <1>9, <1>10 DEF Marked

---------------------------------------------------------------------------
(* Type correctness. *)

\* What the type invariant needs: pointers of a busy thread are in its list.
PointersInRange ==
    \A t \in Threads :
       /\ pc[t] # "idle" => orig[t] <= Len(Bucket(t))
       /\ pc[t] \in {"count", "promote"} => item[t] \in 1..Len(Bucket(t))

TypeInv == TypeOK /\ PointersInRange

LEMMA InitType == Init => TypeInv
  BY SetAssumption DEF Init, TypeInv, TypeOK, PointersInRange, PCs, SetPCs, Answers

\* An answer leaves the type invariant true if the lists keep their lengths.
LEMMA ReturnType ==
  ASSUME TypeInv, NEW t \in Threads, NEW r \in Answers, Return(t, r),
         chain' \in [Buckets -> Seq(Items)],
         \A b \in Buckets : Len(chain'[b]) = Len(chain[b]),
         numItems' \in Nat, pages' \in 0..NumPages
  PROVE  TypeInv'
  BY SetAssumption DEF TypeInv, TypeOK, PointersInRange, Return, Goto, Bucket, PCs, SetPCs

LEMMA CallType ==
  ASSUME TypeInv, NEW t \in Threads, Call(t)
  PROVE  TypeInv'
  <1>1. ASSUME NEW k \in Keys, NEW v \in Values, NEW c \in CommitModes,
               NEW w \in OverwriteModes, SetCall(t, k, v, c, w)
        PROVE  TypeInv'
    BY <1>1, SetAssumption
       DEF TypeInv, TypeOK, PointersInRange, SetCall, Goto, shared, Bucket, PCs, SetPCs
  <1>2. ASSUME NEW k \in Keys, NEW l \in {"read", "mark"}, WalkCall(t, k, l)
        PROVE  TypeInv'
    BY <1>2, SetAssumption
       DEF TypeInv, TypeOK, PointersInRange, WalkCall, Goto, shared, Bucket, PCs, SetPCs
  <1> QED BY <1>1, <1>2 DEF Call

LEMMA SetStepType ==
  ASSUME TypeInv, NEW t \in Threads, SetStep(t)
  PROVE  TypeInv'
  <1> USE SetAssumption
  <1>1. CASE SetConflict(t) \/ RecheckConflict(t)
    <2>1. <<"set", "CONFLICT">> \in Answers BY DEF Answers
    <2> QED BY <1>1, <2>1, ReturnType
            DEF SetConflict, RecheckConflict, shared, TypeInv, TypeOK
  <1>2. CASE SetPass(t) \/ PushRetry(t)
    <2>1. /\ pc[t] \in {"check", "cas"}
          /\ pc' \in {[pc EXCEPT ![t] = "alloc"], [pc EXCEPT ![t] = "load"]}
          /\ UNCHANGED <<shared, args, ptrs, ret>>
      BY <1>2 DEF SetPass, PushRetry, Goto
    <2>2. TypeOK'
      BY <2>1 DEF TypeInv, TypeOK, shared, args, ptrs, PCs, SetPCs
    <2>3. \A u \in Threads : u # t => pc'[u] = pc[u]
      BY <2>1 DEF TypeInv, TypeOK
    <2>4. pc[t] # "idle" /\ pc'[t] \in {"alloc", "load"}
      BY <2>1 DEF TypeInv, TypeOK
    <2>5. UNCHANGED <<chain, key, orig, item>>
      BY <2>1 DEF shared, args, ptrs
    <2>6. PointersInRange'
      BY <2>3, <2>4, <2>5 DEF TypeInv, PointersInRange, Bucket
    <2> QED BY <2>2, <2>6 DEF TypeInv
  <1>3. CASE SetAlloc(t)
    BY <1>3 DEF SetAlloc, PagesNeeded, TypeInv, TypeOK, PointersInRange, Goto,
                args, ptrs, Bucket, PCs, SetPCs
  <1>4. CASE SetNoMem(t)
    <2>1. <<"set", "NOMEM">> \in Answers BY DEF Answers
    <2> QED BY <1>4, <2>1, ReturnType DEF SetNoMem, TypeInv, TypeOK
  <1>5. CASE RecheckPass(t)
    BY <1>5 DEF RecheckPass, LoadedHead, TypeInv, TypeOK, PointersInRange, Goto,
                shared, args, Bucket, PCs, SetPCs
  <1>6. CASE Push(t)
    <2> DEFINE b == Hash[key[t]]
    <2>1. /\ key[t] \in Keys /\ val[t] \in Values /\ b \in Buckets
          /\ NewItem(t) \in Items
      BY <1>6 DEF Push, TypeInv, TypeOK, SetPCs, NewItem, Items, Phases
    <2>2. /\ chain' \in [Buckets -> Seq(Items)]
          /\ Len(chain'[b]) = Len(chain[b]) + 1
          /\ \A a \in Buckets : Len(chain'[a]) >= Len(chain[a])
      BY <1>6, <2>1, PushItem DEF Push, TypeInv, TypeOK
    <2> QED BY <1>6, <2>1, <2>2
            DEF Push, TypeInv, TypeOK, PointersInRange, Goto, args, Bucket, PCs, SetPCs
  <1>7. CASE Count(t)
    <2>1. <<"set", "OK">> \in Answers BY DEF Answers
    <2>2. CASE Promotes /\ commit[t]
      BY <1>7, <2>2 DEF Count, TypeInv, TypeOK, PointersInRange, Goto, args, ptrs,
                        Bucket, PCs, SetPCs
    <2>3. CASE ~(Promotes /\ commit[t])
      BY <1>7, <2>1, <2>3, ReturnType DEF Count, TypeInv, TypeOK
    <2> QED BY <2>2, <2>3
  <1>8. CASE Promote(t)
    <2>1. <<"set", "OK">> \in Answers BY DEF Answers
    <2>2. /\ Hash[key[t]] \in Buckets /\ item[t] \in 1..Len(chain[Hash[key[t]]])
          /\ "VALID" \in Phases
      BY <1>8 DEF Promote, TypeInv, TypeOK, PointersInRange, Bucket, Phases, PCs, SetPCs
    <2>3. /\ chain' \in [Buckets -> Seq(Items)]
          /\ \A a \in Buckets : Len(chain'[a]) = Len(chain[a])
      BY <1>8, <2>2, MarkItem DEF Promote, TypeInv, TypeOK, Marked
    <2> QED BY <1>8, <2>1, <2>3, ReturnType DEF Promote, TypeInv, TypeOK
  <1> QED BY <1>1, <1>2, <1>3, <1>4, <1>5, <1>6, <1>7, <1>8 DEF SetStep

LEMMA WalkStepType ==
  ASSUME TypeInv, NEW t \in Threads, WalkStep(t)
  PROVE  TypeInv'
  <1> USE SetAssumption
  <1>1. CASE GetFound(t)
    <2>1. PICK i \in 1..orig[t] :
             Return(t, <<"get", GetAnswer(Bucket(t)[i])>>) /\ UNCHANGED shared
      BY <1>1 DEF GetFound
    <2>2. Bucket(t)[i] \in Items
      BY <1>1, ElementOfSeq
         DEF GetFound, TypeInv, TypeOK, PointersInRange, Bucket
    <2>3. <<"get", GetAnswer(Bucket(t)[i])>> \in Answers
      BY <2>2 DEF Answers, GetAnswer, Shown, Items
    <2> QED BY <2>1, <2>3, ReturnType DEF shared, TypeInv, TypeOK
  <1>2. CASE GetAbsent(t)
    <2>1. <<"get", None>> \in Answers BY DEF Answers
    <2> QED BY <1>2, <2>1, ReturnType DEF GetAbsent, shared, TypeInv, TypeOK
  <1>3. CASE RemoveMark(t)
    <2> DEFINE b == Hash[key[t]]
    <2>1. PICK i \in 1..orig[t] :
             chain' = [chain EXCEPT ![b][i].phase = MarkOf(Bucket(t)[i])]
      BY <1>3 DEF RemoveMark
    <2>2. /\ b \in Buckets /\ i \in 1..Len(chain[b]) /\ MarkOf(Bucket(t)[i]) \in Phases
      BY <1>3 DEF RemoveMark, TypeInv, TypeOK, PointersInRange, Bucket, Phases, MarkOf
    <2>3. /\ chain' \in [Buckets -> Seq(Items)]
          /\ \A a \in Buckets : Len(chain'[a]) = Len(chain[a])
      BY <2>1, <2>2, MarkItem DEF TypeInv, TypeOK, Marked
    <2>4. <<"remove", "OK">> \in Answers BY DEF Answers
    <2> QED BY <1>3, <2>3, <2>4, ReturnType DEF RemoveMark, TypeInv, TypeOK
  <1>4. CASE RemoveFail(t)
    <2>1. <<"remove", "FAIL">> \in Answers BY DEF Answers
    <2> QED BY <1>4, <2>1, ReturnType DEF RemoveFail, shared, TypeInv, TypeOK
  <1> QED BY <1>1, <1>2, <1>3, <1>4 DEF WalkStep

LEMMA NextType == TypeInv /\ [Next]_vars => TypeInv'
  <1> SUFFICES ASSUME TypeInv, [Next]_vars PROVE TypeInv'
    OBVIOUS
  <1>1. CASE Next
    BY <1>1, CallType, SetStepType, WalkStepType DEF Next
  <1>2. CASE UNCHANGED vars
    BY <1>2 DEF vars, TypeInv, TypeOK, PointersInRange, Bucket
  <1> QED BY <1>1, <1>2

\* The state of the dictionary and of the calls in progress is always well
\* formed: in particular no call follows a pointer that is out of its list and
\* no more pages are taken than the mempool has.
THEOREM TypeCorrect == Spec => []TypeOK
  <1>1. TypeInv => TypeOK BY DEF TypeInv
  <1> QED BY <1>1, InitType, NextType, PTL DEF Spec
---------------------------------------------------------------------------
(* Uniqueness of valid names, where no caller overwrites or promotes.      *)

StrictCallers == OverwriteModes = {FALSE} /\ Promotes = FALSE

\* No valid item with the key of t is reachable from its orig_head: what the
\* first check found stays true, for an item never becomes valid again.
Checked(t) ==
    pc[t] \in {"alloc", "load", "cas"} =>
       \A i \in 1..orig[t] :
          Bucket(t)[i].key = key[t] => Bucket(t)[i].phase # "VALID"

\* None of the items between orig_head and the expected head has the key.
Rechecked(t) ==
    pc[t] = "cas" => /\ head[t] <= Len(Bucket(t))
                     /\ NoneBetween(Bucket(t), orig[t], head[t], key[t])

UniqueInv == /\ TypeInv
             /\ ValidIsNewest
             /\ \A t \in Threads : /\ overwrite[t] = FALSE
                                   /\ pc[t] # "promote"
                                   /\ Checked(t)
                                   /\ Rechecked(t)

\* How a step may change the lists: an item keeps its place and its key, and
\* does not become valid.
Evolves ==
  /\ chain' \in [Buckets -> Seq(Items)]
  /\ \A b \in Buckets :
       /\ Len(chain[b]) <= Len(chain'[b])
       /\ \A i \in 1..Len(chain[b]) :
             /\ chain'[b][i].key = chain[b][i].key
             /\ chain'[b][i].phase = "VALID" => chain[b][i].phase = "VALID"

\* A thread that does not step keeps what its checks established.
LEMMA OthersKeepChecks ==
  ASSUME UniqueInv, NEW u \in Threads, Evolves,
         pc'[u] = pc[u], key'[u] = key[u], orig'[u] = orig[u], head'[u] = head[u]
  PROVE  Checked(u)' /\ Rechecked(u)'
  <1>1. CASE pc[u] \in {"alloc", "load", "cas"}
    <2>1. Hash[key[u]] \in Buckets /\ orig[u] <= Len(Bucket(u))
          /\ orig[u] \in Nat /\ head[u] \in Nat
      BY <1>1, SetAssumption DEF UniqueInv, TypeInv, TypeOK, PointersInRange
    <2>2. /\ Len(Bucket(u)) <= Len(Bucket(u)')
          /\ Len(Bucket(u)) \in Nat /\ Len(Bucket(u)') \in Nat
          /\ \A i \in 1..Len(Bucket(u)) :
                /\ Bucket(u)'[i].key = Bucket(u)[i].key
                /\ Bucket(u)'[i].phase = "VALID" => Bucket(u)[i].phase = "VALID"
      BY <2>1 DEF UniqueInv, TypeInv, TypeOK, Evolves, Bucket
    <2>3. Checked(u)'
      <3>1. \A i \in 1..orig[u] :
               Bucket(u)[i].key = key[u] => Bucket(u)[i].phase # "VALID"
        BY <1>1 DEF UniqueInv, Checked
      <3>2. \A i \in 1..orig[u] :
               Bucket(u)'[i].key = key[u] => Bucket(u)'[i].phase # "VALID"
        BY <2>1, <2>2, <3>1
      <3> QED BY <3>2 DEF Checked
    <2>4. ASSUME pc[u] = "cas"
          PROVE  /\ head[u] <= Len(Bucket(u))
                 /\ \A i \in (orig[u] + 1)..head[u] : Bucket(u)[i].key # key[u]
      BY <2>4 DEF UniqueInv, Rechecked, NoneBetween
    <2>5. ASSUME pc[u] = "cas"
          PROVE  \A i \in (orig[u] + 1)..head[u] : Bucket(u)'[i].key # key[u]
      BY <2>1, <2>2, <2>4, <2>5
    <2>6. Rechecked(u)'
      BY <2>1, <2>2, <2>4, <2>5 DEF Rechecked, NoneBetween
    <2> QED BY <2>3, <2>6
  <1>2. CASE pc[u] \notin {"alloc", "load", "cas"}
    BY <1>2 DEF Checked, Rechecked
  <1> QED BY <1>1, <1>2

\* No item becomes valid or is added: valid items stay the newest.
LEMMA NoPushKeepsNewest ==
  ASSUME UniqueInv, TypeInv', Evolves, \A b \in Buckets : Len(chain'[b]) = Len(chain[b])
  PROVE  ValidIsNewest'
  <1> SUFFICES ASSUME NEW b \in Buckets, NEW i \in DOMAIN chain'[b], NEW j \in DOMAIN chain'[b],
                      chain'[b][i].phase = "VALID", i < j
               PROVE  chain'[b][j].key # chain'[b][i].key
    BY DEF ValidIsNewest
  <1>1. /\ DOMAIN chain'[b] = 1..Len(chain[b]) /\ DOMAIN chain[b] = 1..Len(chain[b])
    BY DEF UniqueInv, TypeInv, TypeOK
  <1> QED BY <1>1 DEF UniqueInv, ValidIsNewest, Evolves

\* A step of thread t that leaves the lists alone.
LEMMA LocalStep ==
  ASSUME UniqueInv, TypeInv', NEW t \in Threads, UNCHANGED chain,
         \A u \in Threads \ {t} : /\ pc'[u] = pc[u] /\ key'[u] = key[u]
                                  /\ orig'[u] = orig[u] /\ head'[u] = head[u]
                                  /\ overwrite'[u] = overwrite[u],
         overwrite'[t] = FALSE, pc'[t] # "promote", Checked(t)', Rechecked(t)'
  PROVE  UniqueInv'
  <1>1. Evolves BY DEF Evolves, UniqueInv, TypeInv, TypeOK
  <1>2. ValidIsNewest' BY <1>1, NoPushKeepsNewest
  <1>3. \A u \in Threads \ {t} : Checked(u)' /\ Rechecked(u)'
    BY <1>1, OthersKeepChecks
  <1> QED BY <1>2, <1>3 DEF UniqueInv

\* A call that answers without touching the lists.
LEMMA AnswerStep ==
  ASSUME UniqueInv, TypeInv', NEW t \in Threads, NEW r, Return(t, r), UNCHANGED chain
  PROVE  UniqueInv'
  <1>1. /\ \A u \in Threads \ {t} : /\ pc'[u] = pc[u] /\ key'[u] = key[u]
                                     /\ orig'[u] = orig[u] /\ head'[u] = head[u]
                                     /\ overwrite'[u] = overwrite[u]
        /\ overwrite'[t] = FALSE /\ pc'[t] = "idle"
    BY DEF Return, Goto, UniqueInv, TypeInv, TypeOK
  <1>2. Checked(t)' /\ Rechecked(t)'
    BY <1>1 DEF Checked, Rechecked
  <1> QED BY <1>1, <1>2, LocalStep

LEMMA CallUnique ==
  ASSUME StrictCallers, UniqueInv, TypeInv', NEW t \in Threads, Call(t)
  PROVE  UniqueInv'
  <1>1. /\ UNCHANGED chain
        /\ \A u \in Threads \ {t} : /\ pc'[u] = pc[u] /\ key'[u] = key[u]
                                     /\ orig'[u] = orig[u] /\ head'[u] = head[u]
                                     /\ overwrite'[u] = overwrite[u]
        /\ overwrite'[t] = FALSE
        /\ pc'[t] \in {"check", "read", "mark"}
    BY DEF Call, SetCall, WalkCall, Goto, shared, StrictCallers, UniqueInv, TypeInv, TypeOK
  <1>2. Checked(t)' /\ Rechecked(t)'
    BY <1>1 DEF Checked, Rechecked
  <1> QED BY <1>1, <1>2, LocalStep

\* The first check: if a valid item with the key were reachable from orig_head
\* it would be the newest one (ValidIsNewest), and the check would see it.
LEMMA SetPassUnique ==
  ASSUME UniqueInv, TypeInv', NEW t \in Threads, SetPass(t)
  PROVE  UniqueInv'
  <1>1. /\ UNCHANGED <<chain, key, orig, head, overwrite>>
        /\ \A u \in Threads \ {t} : pc'[u] = pc[u]
        /\ pc'[t] = "alloc"
        /\ overwrite[t] = FALSE
    BY DEF SetPass, Goto, shared, args, ptrs, UniqueInv, TypeInv, TypeOK
  <1>2. ~FoundValid(t)
    BY <1>1 DEF SetPass
  <1>3. ASSUME NEW i \in 1..orig[t], Bucket(t)[i].key = key[t], Bucket(t)[i].phase = "VALID"
        PROVE  FALSE
    <2>1. /\ Hash[key[t]] \in Buckets /\ orig[t] \in Nat /\ orig[t] <= Len(Bucket(t))
          /\ DOMAIN Bucket(t) = 1..Len(Bucket(t)) /\ Len(Bucket(t)) \in Nat
      BY SetAssumption
         DEF SetPass, UniqueInv, TypeInv, TypeOK, PointersInRange, Bucket
    <2>2. \A j \in 1..Len(Bucket(t)) : i < j => Bucket(t)[j].key # key[t]
      BY <1>3, <2>1 DEF UniqueInv, ValidIsNewest, Bucket
    <2>3. Newest(Bucket(t), orig[t], key[t], i)
      BY <1>3, <2>1, <2>2 DEF Newest
    <2> QED BY <1>2, <1>3, <2>3 DEF FoundValid
  <1>4. Checked(t)'
    BY <1>1, <1>3 DEF Checked, Bucket
  <1>5. Rechecked(t)'
    BY <1>1 DEF Rechecked
  <1> QED BY <1>1, <1>4, <1>5, LocalStep

LEMMA LoopUnique ==
  ASSUME UniqueInv, TypeInv', NEW t \in Threads,
         SetAlloc(t) \/ RecheckPass(t) \/ PushRetry(t)
  PROVE  UniqueInv'
  <1>1. /\ UNCHANGED <<chain, key, orig, overwrite>>
        /\ \A u \in Threads \ {t} : pc'[u] = pc[u] /\ head'[u] = head[u]
        /\ pc[t] \in {"alloc", "load", "cas"} /\ pc'[t] \in {"load", "cas"}
        /\ overwrite'[t] = FALSE
    BY DEF SetAlloc, RecheckPass, PushRetry, Goto, shared, args, ptrs, UniqueInv, TypeInv, TypeOK
  <1>2. Checked(t)'
    BY <1>1 DEF Checked, UniqueInv, Bucket
  <1>3. Rechecked(t)'
    <2>1. CASE RecheckPass(t)
      <3>1. head'[t] = Len(Bucket(t)) /\ RecheckClean(t)
        BY <2>1 DEF RecheckPass, LoadedHead, UniqueInv, TypeInv, TypeOK
      <3>2. Len(Bucket(t)) \in Nat
        BY <1>1, SetAssumption DEF UniqueInv, TypeInv, TypeOK, Bucket
      <3> QED BY <1>1, <3>1, <3>2 DEF RecheckClean, Rechecked, Bucket
    <2>2. CASE SetAlloc(t) \/ PushRetry(t)
      <3>1. pc'[t] = "load"
        BY <2>2 DEF SetAlloc, PushRetry, Goto, UniqueInv, TypeInv, TypeOK
      <3> QED BY <3>1 DEF Rechecked
    <2> QED BY <2>1, <2>2
  <1> QED BY <1>1, <1>2, <1>3, LocalStep

\* What the compare-and-swap of t does to the lists.
Pushed(t) ==
    LET b == Hash[key[t]]
        n == Len(chain[b])
    IN  /\ key[t] \in Keys /\ val[t] \in Values /\ b \in Buckets
        /\ chain \in [Buckets -> Seq(Items)] /\ chain' \in [Buckets -> Seq(Items)]
        /\ \A a \in Buckets : a # b => chain'[a] = chain[a]
        /\ Len(chain'[b]) = n + 1
        /\ chain'[b][n + 1] = NewItem(t)
        /\ \A i \in 1..n : chain'[b][i] = chain[b][i]
        /\ \A i \in 1..n : chain[b][i].key = key[t] => chain[b][i].phase # "VALID"

LEMMA PushEffect ==
  ASSUME UniqueInv, NEW t \in Threads, Push(t)
  PROVE  Pushed(t)
  <1> DEFINE b == Hash[key[t]]
             n == Len(chain[b])
  <1>1. /\ pc[t] = "cas" /\ head[t] = n
        /\ chain' = [chain EXCEPT ![b] = Append(@, NewItem(t))]
    BY DEF Push, HeadUnchanged, Bucket, UniqueInv, TypeInv, TypeOK
  <1>2. key[t] \in Keys /\ val[t] \in Values /\ orig[t] \in Nat
    BY <1>1 DEF UniqueInv, TypeInv, TypeOK, SetPCs
  <1>3. b \in Buckets /\ chain \in [Buckets -> Seq(Items)]
    BY <1>2, SetAssumption DEF UniqueInv, TypeInv, TypeOK
  <1>4. NewItem(t) \in Items
    BY <1>2 DEF NewItem, Items, Phases
  <1>5. \A i \in 1..n : chain[b][i].key = key[t] => chain[b][i].phase # "VALID"
    <2>1. \A i \in 1..orig[t] : chain[b][i].key = key[t] => chain[b][i].phase # "VALID"
      BY <1>1 DEF UniqueInv, Checked, Bucket
    <2>2. \A i \in (orig[t] + 1)..n : chain[b][i].key # key[t]
      BY <1>1 DEF UniqueInv, Rechecked, NoneBetween, Bucket
    <2> QED BY <1>2, <1>3, <2>1, <2>2
  <1>6. /\ chain' \in [Buckets -> Seq(Items)]
        /\ \A a \in Buckets : a # b => chain'[a] = chain[a]
        /\ Len(chain'[b]) = n + 1
        /\ chain'[b][n + 1] = NewItem(t)
        /\ \A i \in 1..n : chain'[b][i] = chain[b][i]
    BY <1>1, <1>3, <1>4, PushItem
  <1> QED BY <1>2, <1>3, <1>5, <1>6 DEF Pushed

\* What the mark of t does to the lists: item i, of its key, becomes removed.
LEMMA MarkEffect ==
  ASSUME TypeInv, NEW t \in Threads, RemoveMark(t)
  PROVE  \E i \in 1..Len(Bucket(t)) :
            /\ Marked(Hash[key[t]], i, "REMOVED")
            /\ Bucket(t)[i].key = key[t]
            /\ Hash[key[t]] \in Buckets /\ key[t] \in Keys
  <1> DEFINE b == Hash[key[t]]
  <1>1. PICK i \in 1..orig[t] :
           /\ Bucket(t)[i].key = key[t]
           /\ chain' = [chain EXCEPT ![b][i].phase = MarkOf(Bucket(t)[i])]
    BY DEF RemoveMark, Newest
  <1>2. /\ b \in Buckets /\ i \in 1..Len(chain[b]) /\ "REMOVED" \in Phases
        /\ chain \in [Buckets -> Seq(Items)] /\ key[t] \in Keys
    BY SetAssumption DEF RemoveMark, TypeInv, TypeOK, PointersInRange, Bucket, Phases
  <1>3. chain' = [chain EXCEPT ![b][i].phase = "REMOVED"]
    BY <1>1 DEF MarkOf
  <1>4. Marked(b, i, "REMOVED")
    BY <1>2, <1>3, MarkItem
  <1> QED BY <1>1, <1>2, <1>4 DEF Bucket

\* The compare-and-swap: nothing reachable from orig_head is valid (Checked),
\* nothing above it up to the head has the key (Rechecked), and the head is
\* the one that was rechecked.
LEMMA PushUnique ==
  ASSUME UniqueInv, TypeInv', NEW t \in Threads, Push(t)
  PROVE  UniqueInv'
  <1> DEFINE b == Hash[key[t]]
             n == Len(chain[b])
             x == NewItem(t)
  <1>1. /\ UNCHANGED <<key, orig, head, overwrite>>
        /\ \A u \in Threads \ {t} : pc'[u] = pc[u]
        /\ pc[t] = "cas" /\ pc'[t] = "count"
    BY DEF Push, Goto, args, UniqueInv, TypeInv, TypeOK
  <1>2. /\ key[t] \in Keys /\ b \in Buckets /\ n \in Nat /\ x.key = key[t]
        /\ chain \in [Buckets -> Seq(Items)]
    <2>1. Pushed(t) BY PushEffect
    <2>2. chain[b] \in Seq(Items) /\ key[t] \in Keys /\ b \in Buckets
      BY <2>1 DEF Pushed
    <2> QED BY <2>1, <2>2 DEF Pushed, NewItem
  <1>3. /\ chain' \in [Buckets -> Seq(Items)]
        /\ \A a \in Buckets : a # b => chain'[a] = chain[a]
        /\ Len(chain'[b]) = n + 1
        /\ chain'[b][n + 1] = x
        /\ \A i \in 1..n : chain'[b][i] = chain[b][i]
    BY PushEffect DEF Pushed
  <1>4. \A i \in 1..n : chain[b][i].key = key[t] => chain[b][i].phase # "VALID"
    BY PushEffect DEF Pushed
  <1>5. Evolves
    <2>1. ASSUME NEW a \in Buckets
          PROVE  /\ Len(chain[a]) <= Len(chain'[a])
                 /\ \A i \in 1..Len(chain[a]) : chain'[a][i] = chain[a][i]
      <3>1. CASE a = b BY <1>2, <1>3, <3>1
      <3>2. CASE a # b
        <4>1. chain'[a] = chain[a] /\ Len(chain[a]) \in Nat BY <1>2, <1>3, <3>2
        <4> QED BY <4>1
      <3> QED BY <3>1, <3>2
    <2> QED BY <1>3, <2>1 DEF Evolves
  <1>6. ValidIsNewest'
    <2> SUFFICES ASSUME NEW a \in Buckets, NEW i \in DOMAIN chain'[a], NEW j \in DOMAIN chain'[a],
                        chain'[a][i].phase = "VALID", i < j
                 PROVE  chain'[a][j].key # chain'[a][i].key
      BY DEF ValidIsNewest
    <2>1. CASE a # b
      BY <1>3, <2>1 DEF UniqueInv, ValidIsNewest
    <2>2. CASE a = b
      <3>1. i \in 1..n /\ j \in 1..(n + 1) /\ DOMAIN chain[b] = 1..n
        BY <1>2, <1>3, <2>2
      <3>2. chain'[b][i] = chain[b][i] /\ chain[b][i].phase = "VALID"
        BY <1>3, <2>2, <3>1
      <3>3. CASE j = n + 1
        BY <1>2, <1>3, <1>4, <2>2, <3>1, <3>2, <3>3
      <3>4. CASE j \in 1..n
        <4>1. chain'[b][j] = chain[b][j]
          BY <1>3, <3>4
        <4>2. chain[b][j].key # chain[b][i].key
          BY <1>2, <3>1, <3>2, <3>4 DEF UniqueInv, ValidIsNewest
        <4> QED BY <2>2, <3>2, <4>1, <4>2
      <3>5. j = n + 1 \/ j \in 1..n
        <4>1. n \in Nat /\ j \in 1..(n + 1)
          BY <1>2, <3>1
        <4> HIDE DEF n
        <4> QED BY <4>1
      <3> QED BY <3>3, <3>4, <3>5
    <2> QED BY <2>1, <2>2
  <1>7. ASSUME NEW u \in Threads
        PROVE  overwrite'[u] = FALSE /\ pc'[u] # "promote" /\ Checked(u)' /\ Rechecked(u)'
    <2>1. CASE u = t
      BY <1>1, <2>1 DEF UniqueInv, Checked, Rechecked
    <2>2. CASE u # t
      BY <1>1, <1>5, <2>2, OthersKeepChecks DEF UniqueInv
    <2> QED BY <2>1, <2>2
  <1> QED BY <1>6, <1>7 DEF UniqueInv

LEMMA RemoveMarkUnique ==
  ASSUME UniqueInv, TypeInv', NEW t \in Threads, RemoveMark(t)
  PROVE  UniqueInv'
  <1> DEFINE b == Hash[key[t]]
  <1>1. PICK i \in 1..Len(Bucket(t)) : Marked(b, i, "REMOVED")
    BY MarkEffect DEF UniqueInv
  <1>2. chain \in [Buckets -> Seq(Items)] /\ b \in Buckets
    BY MarkEffect DEF UniqueInv, TypeInv, TypeOK
  <1>4. Marked(b, i, "REMOVED") /\ i \in 1..Len(chain[b])
    BY <1>1 DEF Bucket
  <1>5. \A a \in Buckets : Len(chain'[a]) = Len(chain[a])
    BY <1>4 DEF Marked
  <1>6. Evolves
    <2>1. \A a \in Buckets : Len(chain[a]) \in Nat
      BY <1>2
    <2>2. \A j \in 1..Len(chain[b]) :
             chain'[b][j].phase = "VALID" => chain[b][j].phase = "VALID"
      BY <1>4 DEF Marked
    <2> QED BY <1>4, <1>5, <2>1, <2>2 DEF Evolves, Marked
  <1>7. ValidIsNewest'
    BY <1>5, <1>6, NoPushKeepsNewest
  <1>8. /\ \A u \in Threads \ {t} : /\ pc'[u] = pc[u] /\ key'[u] = key[u]
                                     /\ orig'[u] = orig[u] /\ head'[u] = head[u]
                                     /\ overwrite'[u] = overwrite[u]
        /\ overwrite'[t] = FALSE /\ pc'[t] = "idle"
    BY DEF RemoveMark, Return, Goto, UniqueInv, TypeInv, TypeOK
  <1>9. ASSUME NEW u \in Threads
        PROVE  overwrite'[u] = FALSE /\ pc'[u] # "promote" /\ Checked(u)' /\ Rechecked(u)'
    <2>1. CASE u = t
      BY <1>8, <2>1 DEF Checked, Rechecked
    <2>2. CASE u # t
      BY <1>6, <1>8, <2>2, OthersKeepChecks DEF UniqueInv
    <2> QED BY <2>1, <2>2
  <1> QED BY <1>7, <1>9 DEF UniqueInv

LEMMA InitUnique == Init => UniqueInv
  BY InitType DEF Init, UniqueInv, ValidIsNewest, Checked, Rechecked

LEMMA NextUnique == StrictCallers /\ UniqueInv /\ [Next]_vars => UniqueInv'
  <1> SUFFICES ASSUME StrictCallers, UniqueInv, [Next]_vars PROVE UniqueInv'
    OBVIOUS
  <1>1. TypeInv'
    BY NextType DEF UniqueInv
  <1>2. ASSUME NEW t \in Threads, Call(t) PROVE UniqueInv'
    BY <1>1, <1>2, CallUnique
  <1>3. ASSUME NEW t \in Threads, SetStep(t) PROVE UniqueInv'
    <2>1. CASE SetConflict(t) \/ RecheckConflict(t)
      BY <1>1, <2>1, AnswerStep DEF SetConflict, RecheckConflict, shared
    <2>2. CASE SetPass(t)
      BY <1>1, <2>2, SetPassUnique
    <2>3. CASE SetAlloc(t) \/ RecheckPass(t) \/ PushRetry(t)
      BY <1>1, <2>3, LoopUnique
    <2>4. CASE SetNoMem(t)
      BY <1>1, <2>4, AnswerStep DEF SetNoMem
    <2>5. CASE Push(t)
      BY <1>1, <2>5, PushUnique
    <2>6. CASE Count(t)
      BY <1>1, <2>6, AnswerStep DEF Count, StrictCallers
    <2>7. CASE Promote(t)
      BY <2>7 DEF Promote, UniqueInv
    <2> QED BY <1>3, <2>1, <2>2, <2>3, <2>4, <2>5, <2>6, <2>7 DEF SetStep
  <1>4. ASSUME NEW t \in Threads, WalkStep(t) PROVE UniqueInv'
    <2>1. CASE GetFound(t) \/ GetAbsent(t) \/ RemoveFail(t)
      BY <1>1, <2>1, AnswerStep DEF GetFound, GetAbsent, RemoveFail, shared
    <2>2. CASE RemoveMark(t)
      BY <1>1, <2>2, RemoveMarkUnique
    <2> QED BY <1>4, <2>1, <2>2 DEF WalkStep
  <1>5. CASE UNCHANGED vars
    BY <1>1, <1>5 DEF vars, UniqueInv, ValidIsNewest, Checked, Rechecked, NoneBetween, Bucket
  <1> QED BY <1>2, <1>3, <1>4, <1>5 DEF Next

\* However many tasks register, look up and remove names at once, with commits
\* or without, a name has at most one valid item, and it is the one every walk
\* meets first.  Callers must not overwrite (the indices of attributes and proc
\* arguments do, to prepend to a list) nor promote (the instance index does, and
\* loses the property).
THEOREM NamesUnique ==
  ASSUME StrictCallers PROVE Spec => []ValidIsNewest
  <1>1. UniqueInv => ValidIsNewest BY DEF UniqueInv
  <1>2. UniqueInv /\ [Next]_vars => UniqueInv' BY NextUnique
  <1> QED BY <1>1, <1>2, InitUnique, PTL DEF Spec

---------------------------------------------------------------------------
(* Where no set is given a commit, the dictionary implements NameMap.      *)

PlainCallers == StrictCallers /\ CommitModes = {FALSE}

PlainInv == /\ UniqueInv
            /\ \A t \in Threads : commit[t] = FALSE
            /\ \A b \in Buckets : \A i \in 1..Len(chain[b]) : chain[b][i].phase # "PENDING"

LEMMA InitPlain == Init => PlainInv
  BY InitUnique DEF Init, PlainInv

\* Only the compare-and-swap, the mark of remove and the promotion change lists.
LEMMA ListSteps ==
  ASSUME [Next]_vars
  PROVE  UNCHANGED chain \/ \E t \in Threads : Push(t) \/ RemoveMark(t) \/ Promote(t)
  <1>1. ASSUME NEW t \in Threads, Call(t) PROVE UNCHANGED chain
    BY <1>1 DEF Call, SetCall, WalkCall, shared
  <1>2. ASSUME NEW t \in Threads, SetStep(t) PROVE UNCHANGED chain \/ Push(t) \/ Promote(t)
    BY <1>2 DEF SetStep, SetConflict, SetPass, SetAlloc, SetNoMem, RecheckConflict,
                RecheckPass, PushRetry, Count, shared
  <1>3. ASSUME NEW t \in Threads, WalkStep(t) PROVE UNCHANGED chain \/ RemoveMark(t)
    BY <1>3 DEF WalkStep, GetFound, GetAbsent, RemoveFail, shared
  <1> QED BY <1>1, <1>2, <1>3 DEF Next, vars

LEMMA CommitArgument ==
  ASSUME TypeInv, CommitModes = {FALSE}, [Next]_vars, NEW u \in Threads, commit[u] = FALSE
  PROVE  commit'[u] = FALSE
  <1>1. ASSUME NEW t \in Threads, NEW r, Return(t, r) PROVE commit'[u] = FALSE
    BY <1>1 DEF Return, TypeInv, TypeOK
  <1>2. ASSUME NEW t \in Threads, Call(t) PROVE commit'[u] = FALSE
    <2>1. UNCHANGED commit \/ commit' = [commit EXCEPT ![t] = FALSE]
      BY <1>2 DEF Call, SetCall, WalkCall
    <2> QED BY <2>1 DEF TypeInv, TypeOK
  <1>3. ASSUME NEW t \in Threads, SetStep(t) PROVE commit'[u] = FALSE
    BY <1>1, <1>3 DEF SetStep, SetConflict, SetPass, SetAlloc, SetNoMem, RecheckConflict,
                      RecheckPass, Push, PushRetry, Count, Promote, args
  <1>4. ASSUME NEW t \in Threads, WalkStep(t) PROVE commit'[u] = FALSE
    BY <1>1, <1>4 DEF WalkStep, GetFound, GetAbsent, RemoveMark, RemoveFail
  <1> QED BY <1>2, <1>3, <1>4 DEF Next, vars

LEMMA NextPlain == PlainCallers /\ PlainInv /\ [Next]_vars => PlainInv'
  <1> SUFFICES ASSUME PlainCallers, PlainInv, [Next]_vars PROVE PlainInv'
    OBVIOUS
  <1>1. UniqueInv' /\ TypeInv /\ UniqueInv /\ CommitModes = {FALSE}
    BY NextUnique DEF PlainCallers, PlainInv, UniqueInv
  <1>2. \A t \in Threads : commit'[t] = FALSE
    BY <1>1, CommitArgument DEF PlainInv
  <1>3. ASSUME NEW b \in Buckets, NEW i \in 1..Len(chain'[b])
        PROVE  chain'[b][i].phase # "PENDING"
    <2>1. CASE UNCHANGED chain
      BY <2>1 DEF PlainInv
    <2>2. ASSUME NEW t \in Threads, Push(t) PROVE chain'[b][i].phase # "PENDING"
      <3>1. Pushed(t) /\ NewItem(t).phase = "VALID"
        BY <1>1, <2>2, PushEffect DEF NewItem, PlainInv
      <3>2. CASE b # Hash[key[t]]
        BY <3>1, <3>2 DEF Pushed, PlainInv
      <3>3. CASE b = Hash[key[t]]
        <4>1. i \in 1..Len(chain[b]) \/ i = Len(chain[b]) + 1
          BY <3>1, <3>3 DEF Pushed
        <4> QED BY <3>1, <3>3, <4>1 DEF Pushed, PlainInv
      <3> QED BY <3>2, <3>3
    <2>3. ASSUME NEW t \in Threads, RemoveMark(t) PROVE chain'[b][i].phase # "PENDING"
      <3>1. PICK j \in 1..Len(Bucket(t)) : Marked(Hash[key[t]], j, "REMOVED")
        BY <1>1, <2>3, MarkEffect
      <3>2. CASE b # Hash[key[t]]
        BY <3>1, <3>2 DEF Marked, PlainInv
      <3>3. CASE b = Hash[key[t]]
        BY <3>1, <3>3 DEF Marked, PlainInv
      <3> QED BY <3>2, <3>3
    <2>4. ~ \E t \in Threads : Promote(t)
      BY <1>1 DEF Promote, UniqueInv
    <2> QED BY <2>1, <2>2, <2>3, <2>4, ListSteps
  <1> QED BY <1>1, <1>2, <1>3 DEF PlainInv

\* Item i is the newest one with key k in list c.
Last(c, k, i) == Newest(c, Len(c), k, i)

\* What a name shows is what its newest item shows.
LEMMA VisibleOfNewest ==
  ASSUME NEW ch, NEW k \in Keys, NEW c, c = ch[Hash[k]], c \in Seq(Items),
         NEW i, Last(c, k, i)
  PROVE  Visible(ch, k) = Shown(c[i])
  <1>1. i \in DOMAIN c /\ i \in 1..Len(c)
    BY DEF Last, Newest
  <1>2. ASSUME NEW j \in DOMAIN c, Last(c, k, j) PROVE j = i
    BY <1>1, <1>2 DEF Last, Newest
  <1>3. (CHOOSE j \in DOMAIN c : Last(c, k, j)) = i
    BY <1>1, <1>2
  <1> QED BY <1>1, <1>3 DEF Visible, Last

LEMMA VisibleOfNone ==
  ASSUME NEW ch, NEW k \in Keys, NEW c, c = ch[Hash[k]],
         \A i \in DOMAIN c : ~Last(c, k, i)
  PROVE  Visible(ch, k) = None
  BY DEF Visible, Last

\* List d goes on from list c with items of other keys than k, and its items
\* with key k have the places they have in c.
Follows(c, d, k) ==
    /\ Len(c) <= Len(d)
    /\ \A i \in 1..Len(c) : d[i].key = c[i].key
    /\ \A i \in (Len(c) + 1)..Len(d) : d[i].key # k

ShowsSame(c, d, k) == \A i \in 1..Len(c) : Last(c, k, i) => Shown(d[i]) = Shown(c[i])

\* A name shows the same in two lists that hold the same items with its key.
LEMMA SameVisible ==
  ASSUME NEW ch1, NEW ch2, NEW k \in Keys, NEW c, NEW d,
         c = ch1[Hash[k]], d = ch2[Hash[k]], c \in Seq(Items), d \in Seq(Items),
         Follows(c, d, k), ShowsSame(c, d, k)
  PROVE  Visible(ch2, k) = Visible(ch1, k)
  <1>1. ASSUME NEW i PROVE Last(c, k, i) <=> Last(d, k, i)
    <2>1. Len(c) \in Nat /\ Len(d) \in Nat
      OBVIOUS
    <2>2. Last(c, k, i) => Last(d, k, i)
      <3> SUFFICES ASSUME Last(c, k, i) PROVE Last(d, k, i)
        OBVIOUS
      <3>1. /\ i \in 1..Len(c) /\ c[i].key = k /\ d[i].key = k /\ i \in 1..Len(d)
            /\ \A j \in (i + 1)..Len(c) : c[j].key # k
        BY <2>1 DEF Last, Newest, Follows
      <3>2. \A j \in (i + 1)..Len(d) : d[j].key # k
        BY <2>1, <3>1 DEF Follows
      <3> QED BY <3>1, <3>2 DEF Last, Newest
    <2>3. Last(d, k, i) => Last(c, k, i)
      <3> SUFFICES ASSUME Last(d, k, i) PROVE Last(c, k, i)
        OBVIOUS
      <3>1. /\ i \in 1..Len(d) /\ d[i].key = k
            /\ \A j \in (i + 1)..Len(d) : d[j].key # k
        BY DEF Last, Newest
      <3>2. i \in 1..Len(c)
        BY <2>1, <3>1 DEF Follows
      <3>3. \A j \in (i + 1)..Len(c) : c[j].key # k
        BY <2>1, <3>1, <3>2 DEF Follows
      <3> QED BY <3>1, <3>2, <3>3 DEF Last, Newest, Follows
    <2> QED BY <2>2, <2>3
  <1>2. CASE \E i : Last(c, k, i)
    <2>1. PICK i : Last(c, k, i)
      BY <1>2
    <2>2. Last(d, k, i)
      BY <1>1, <2>1
    <2>3. Visible(ch1, k) = Shown(c[i]) /\ Visible(ch2, k) = Shown(d[i])
      BY <2>1, <2>2, VisibleOfNewest, ZenonT(30)
    <2>4. i \in 1..Len(c)
      BY <2>1 DEF Last, Newest
    <2> QED BY <2>1, <2>3, <2>4 DEF ShowsSame
  <1>3. CASE \A i : ~Last(c, k, i)
    BY <1>1, <1>3, VisibleOfNone
  <1> QED BY <1>2, <1>3

\* The compare-and-swap binds a name that shows nothing.
LEMMA PushBinds ==
  ASSUME PlainInv, NEW t \in Threads, Push(t)
  PROVE  /\ key[t] \in Keys /\ val[t] \in Values
         /\ Visible(chain, key[t]) = None
         /\ Visible(chain', key[t]) = val[t]
         /\ \A k \in Keys \ {key[t]} : Visible(chain', k) = Visible(chain, k)
  <1>1. PICK c : c = chain[Hash[key[t]]] OBVIOUS
  <1>2. PICK d : d = chain'[Hash[key[t]]] OBVIOUS
  <1>3. Pushed(t) BY PushEffect DEF PlainInv
  <1>4. /\ key[t] \in Keys /\ val[t] \in Values /\ Hash[key[t]] \in Buckets
        /\ c \in Seq(Items) /\ d \in Seq(Items) /\ Len(d) = Len(c) + 1
        /\ d[Len(c) + 1] = NewItem(t)
        /\ \A i \in 1..Len(c) : d[i] = c[i]
        /\ \A i \in 1..Len(c) : c[i].key = key[t] => c[i].phase # "VALID"
    BY <1>1, <1>2, <1>3 DEF Pushed
  <1>t. /\ key[t] \in Keys /\ c \in Seq(Items) /\ d \in Seq(Items)
    BY <1>4
  <1>5. \A i \in 1..Len(c) : c[i].phase # "PENDING" /\ c[i] \in Items
    BY <1>1, <1>4, ElementOfSeq DEF PlainInv
  <1>6. \A i \in 1..Len(c) : c[i].key = key[t] => Shown(c[i]) = None
    BY <1>4, <1>5 DEF Shown, Items, Phases
  <1>7. Visible(chain, key[t]) = None
    <2>1. CASE \E i : Last(c, key[t], i)
      <3>1. PICK i : Last(c, key[t], i)
        BY <2>1
      <3>2. i \in 1..Len(c) /\ c[i].key = key[t]
        BY <3>1 DEF Last, Newest
      <3>3. Visible(chain, key[t]) = Shown(c[i])
        BY <1>1, <1>t, <3>1, VisibleOfNewest
      <3> QED BY <1>6, <3>2, <3>3
    <2>2. CASE \A i : ~Last(c, key[t], i)
      BY <1>1, <1>4, <2>2, VisibleOfNone
    <2> QED BY <2>1, <2>2
  <1>8. Visible(chain', key[t]) = val[t]
    <2>1. NewItem(t).key = key[t] /\ Shown(NewItem(t)) = val[t]
      BY DEF NewItem, Shown, PlainInv
    <2>2. Last(d, key[t], Len(c) + 1)
      BY <1>4, <2>1 DEF Last, Newest
    <2>3. Visible(chain', key[t]) = Shown(d[Len(c) + 1])
      BY <1>2, <1>t, <2>2, VisibleOfNewest
    <2> QED BY <1>4, <2>1, <2>3
  <1>9. ASSUME NEW k \in Keys \ {key[t]} PROVE Visible(chain', k) = Visible(chain, k)
    <2>1. CASE Hash[k] # Hash[key[t]]
      <3>1. chain'[Hash[k]] = chain[Hash[k]]
        BY <1>3, <2>1, SetAssumption DEF Pushed
      <3> QED BY <3>1 DEF Visible, Last
    <2>2. CASE Hash[k] = Hash[key[t]]
      <3>1. c = chain[Hash[k]] /\ d = chain'[Hash[k]]
        BY <1>1, <1>2, <2>2
      <3>2. NewItem(t).key # k
        BY DEF NewItem
      <3>3. Follows(c, d, k)
        BY <1>4, <3>2 DEF Follows
      <3>4. ShowsSame(c, d, k)
        BY <1>4 DEF ShowsSame
      <3> QED BY <1>t, <3>1, <3>3, <3>4, SameVisible
    <2> QED BY <2>1, <2>2
  <1> QED BY <1>4, <1>7, <1>8, <1>9

\* The mark of remove frees its name, or changes nothing if the item it marks
\* is no longer the newest one.
LEMMA MarkUnbinds ==
  ASSUME PlainInv, NEW t \in Threads, RemoveMark(t)
  PROVE  /\ key[t] \in Keys
         /\ Visible(chain', key[t]) \in {Visible(chain, key[t]), None}
         /\ \A k \in Keys \ {key[t]} : Visible(chain', k) = Visible(chain, k)
  <1>1. PICK c : c = chain[Hash[key[t]]] OBVIOUS
  <1>2. PICK d : d = chain'[Hash[key[t]]] OBVIOUS
  <1>3. PICK i \in 1..Len(c) : /\ Marked(Hash[key[t]], i, "REMOVED")
                               /\ c[i].key = key[t]
                               /\ Hash[key[t]] \in Buckets /\ key[t] \in Keys
    BY <1>1, MarkEffect DEF PlainInv, UniqueInv, Bucket
  <1>4. /\ c \in Seq(Items) /\ d \in Seq(Items) /\ Len(d) = Len(c)
        /\ d[i].phase = "REMOVED"
        /\ \A j \in 1..Len(c) : d[j].key = c[j].key /\ (j # i => d[j] = c[j])
    BY <1>1, <1>2, <1>3 DEF Marked, PlainInv, UniqueInv, TypeInv, TypeOK
  <1>t. /\ key[t] \in Keys /\ c \in Seq(Items) /\ d \in Seq(Items)
    BY <1>3, <1>4
  <1>f. ASSUME NEW k \in Keys PROVE Follows(c, d, k)
    BY <1>4 DEF Follows
  <1>5. Visible(chain', key[t]) \in {Visible(chain, key[t]), None}
    <2>1. CASE Last(c, key[t], i)
      <3>1. Last(d, key[t], i)
        BY <1>4, <2>1 DEF Last, Newest
      <3>2. Visible(chain', key[t]) = Shown(d[i])
        BY <1>2, <1>t, <3>1, VisibleOfNewest
      <3> QED BY <1>4, <3>2 DEF Shown
    <2>2. CASE ~Last(c, key[t], i)
      <3>1. ShowsSame(c, d, key[t])
        BY <1>4, <2>2 DEF ShowsSame
      <3>2. Visible(chain', key[t]) = Visible(chain, key[t])
        BY <1>1, <1>2, <1>t, <1>f, <3>1, SameVisible
      <3> QED BY <3>2
    <2> QED BY <2>1, <2>2
  <1>6. ASSUME NEW k \in Keys \ {key[t]} PROVE Visible(chain', k) = Visible(chain, k)
    <2>1. CASE Hash[k] # Hash[key[t]]
      <3>1. chain'[Hash[k]] = chain[Hash[k]]
        BY <1>3, <2>1, SetAssumption DEF Marked
      <3> QED BY <3>1 DEF Visible, Last
    <2>2. CASE Hash[k] = Hash[key[t]]
      <3>1. c = chain[Hash[k]] /\ d = chain'[Hash[k]]
        BY <1>1, <1>2, <2>2
      <3>2. ShowsSame(c, d, k)
        BY <1>3, <1>4 DEF ShowsSame, Last, Newest
      <3> QED BY <1>t, <1>f, <3>1, <3>2, SameVisible
    <2> QED BY <2>1, <2>2
  <1> QED BY <1>3, <1>5, <1>6

LEMMA NextRefines ==
  ASSUME PlainInv, [Next]_vars
  PROVE  [Names!Next]_([k \in Keys |-> Visible(chain, k)])
  <1>1. CASE UNCHANGED chain
    BY <1>1 DEF Visible, Last
  <1>2. ASSUME NEW t \in Threads, Push(t) PROVE Names!Next
    <2>1. Names!Bind(key[t], val[t])
      BY <1>2, PushBinds DEF Names!Bind
    <2> QED BY <1>2, <2>1, PushBinds DEF Names!Next
  <1>3. ASSUME NEW t \in Threads, RemoveMark(t)
        PROVE  Names!Next \/ UNCHANGED [k \in Keys |-> Visible(chain, k)]
    <2>1. CASE Visible(chain', key[t]) = Visible(chain, key[t])
      BY <1>3, <2>1, MarkUnbinds
    <2>2. CASE Visible(chain', key[t]) # Visible(chain, key[t])
      <3>1. Names!Unbind(key[t])
        BY <1>3, <2>2, MarkUnbinds DEF Names!Unbind
      <3> QED BY <1>3, <3>1, MarkUnbinds DEF Names!Next
    <2> QED BY <2>1, <2>2
  <1>4. ~ \E t \in Threads : Promote(t)
    BY DEF Promote, PlainInv, UniqueInv
  <1> QED BY <1>1, <1>2, <1>3, <1>4, ListSteps

\* For those who register names outside a commit the dictionary is a map whose
\* names are bound only while free: each set that wins its compare-and-swap is
\* one Bind, each remove that takes effect one Unbind.
THEOREM DictImplementsNameMap ==
  ASSUME PlainCallers PROVE Spec => ImplementsNameMap
  <1>1. Init => Names!Init
    <2> SUFFICES ASSUME Init PROVE \A k \in Keys : Visible(chain, k) = None
      BY DEF Names!Init
    <2> QED BY SetAssumption DEF Init, Visible
  <1>2. PlainInv /\ [Next]_vars => [Names!Next]_([k \in Keys |-> Visible(chain, k)])
    BY NextRefines
  <1>3. PlainInv /\ [Next]_vars => PlainInv'
    BY NextPlain
  <1> QED BY <1>1, <1>2, <1>3, InitPlain, PTL DEF Spec, ImplementsNameMap, Names!Spec

---------------------------------------------------------------------------
(* Answers of calls, with what the names showed while the calls ran.       *)

\* What a walk from pointer o over the list of k would answer is in s.
WalkSeen(ch, k, o, s) ==
    /\ \A i : Newest(ch[Hash[k]], o, k, i) => Shown(ch[Hash[k]][i]) \in s
    /\ (\A i : ~Newest(ch[Hash[k]], o, k, i)) => None \in s

\* If k was pushed since the list ended at o, then k was seen bound.
PushSeen(ch, k, o, s) ==
    \A i \in (o + 1)..Len(ch[Hash[k]]) :
        ch[Hash[k]][i].key = k => \E v \in Values : v \in s

\* What thread t will need of what it has seen.
SeenSoFar(t) ==
    /\ pc[t] \in {"check", "read", "mark"} => WalkSeen(chain, key[t], orig[t], seen[t])
    /\ pc[t] \in {"check", "alloc", "load", "cas"} => PushSeen(chain, key[t], orig[t], seen[t])
    /\ pc[t] \in {"alloc", "load", "cas", "count"} => None \in seen[t]

SeenInv == PlainInv /\ (\A t \in Threads : SeenSoFar(t)) /\ AnswersWereTrue

\* How a step may change what list b shows: an item that no longer shows its
\* value frees its name, one that is added binds its name.
ListShows(b) ==
    /\ Len(chain[b]) <= Len(chain'[b])
    /\ \A i \in 1..Len(chain[b]) :
          /\ chain'[b][i].key = chain[b][i].key
          /\ \/ Shown(chain'[b][i]) = Shown(chain[b][i])
             \/ Shown(chain'[b][i]) = None /\ Visible(chain', chain[b][i].key) = None
    /\ \A i \in (Len(chain[b]) + 1)..Len(chain'[b]) : Visible(chain', chain'[b][i].key) \in Values

LEMMA PushShows ==
  ASSUME PlainInv, NEW t \in Threads, Push(t), NEW b \in Buckets
  PROVE  ListShows(b)
  <1>1. Pushed(t) BY PushEffect DEF PlainInv
  <1>2. CASE b # Hash[key[t]]
    <2>1. chain'[b] = chain[b] BY <1>1, <1>2 DEF Pushed
    <2>2. Len(chain[b]) \in Nat BY DEF PlainInv, UniqueInv, TypeInv, TypeOK
    <2> QED BY <2>1, <2>2 DEF ListShows
  <1>3. CASE b = Hash[key[t]]
    <2>1. /\ Len(chain[b]) \in Nat /\ Len(chain'[b]) = Len(chain[b]) + 1
          /\ chain'[b][Len(chain[b]) + 1] = NewItem(t)
          /\ \A i \in 1..Len(chain[b]) : chain'[b][i] = chain[b][i]
      BY <1>1, <1>3 DEF Pushed
    <2>2. NewItem(t).key = key[t] /\ Visible(chain', key[t]) \in Values
      BY PushBinds DEF NewItem
    <2>3. \A i \in (Len(chain[b]) + 1)..Len(chain'[b]) : i = Len(chain[b]) + 1
      BY <2>1
    <2> QED BY <2>1, <2>2, <2>3 DEF ListShows
  <1> QED BY <1>2, <1>3

\* The mark of a valid item frees its name, because no newer item has the name
\* (ValidIsNewest); any other item showed nothing before.
LEMMA MarkShows ==
  ASSUME PlainInv, NEW t \in Threads, RemoveMark(t), NEW b \in Buckets
  PROVE  ListShows(b)
  <1>1. PICK c : c = chain[Hash[key[t]]] OBVIOUS
  <1>2. PICK d : d = chain'[Hash[key[t]]] OBVIOUS
  <1>3. PICK i \in 1..Len(c) : /\ Marked(Hash[key[t]], i, "REMOVED")
                               /\ c[i].key = key[t]
                               /\ Hash[key[t]] \in Buckets /\ key[t] \in Keys
    BY <1>1, MarkEffect DEF PlainInv, UniqueInv, Bucket
  <1>4. /\ c \in Seq(Items) /\ d \in Seq(Items) /\ Len(d) = Len(c)
        /\ d[i].phase = "REMOVED"
        /\ \A j \in 1..Len(c) : d[j].key = c[j].key /\ (j # i => d[j] = c[j])
        /\ \A a \in Buckets : a # Hash[key[t]] => chain'[a] = chain[a]
    BY <1>1, <1>2, <1>3 DEF Marked, PlainInv, UniqueInv, TypeInv, TypeOK
  <1>t. key[t] \in Keys /\ d \in Seq(Items)
    BY <1>3, <1>4
  <1>5. Shown(d[i]) = None
    BY <1>4 DEF Shown
  <1>6. Shown(c[i]) = None \/ Visible(chain', key[t]) = None
    <2>1. CASE c[i].phase = "VALID"
      <3>1. \A j \in (i + 1)..Len(c) : c[j].key # key[t]
        BY <1>1, <1>3, <1>4, <2>1 DEF PlainInv, UniqueInv, ValidIsNewest
      <3>2. Last(d, key[t], i)
        BY <1>3, <1>4, <3>1 DEF Last, Newest
      <3>3. Visible(chain', key[t]) = Shown(d[i])
        BY <1>2, <1>t, <3>2, VisibleOfNewest
      <3> QED BY <1>5, <3>3
    <2>2. CASE c[i].phase # "VALID"
      <3>1. c[i] \in Items /\ c[i].phase # "PENDING"
        BY <1>1, <1>3, <1>4, ElementOfSeq DEF PlainInv
      <3> QED BY <2>2, <3>1 DEF Items, Phases, Shown
    <2> QED BY <2>1, <2>2
  <1>7. CASE b # Hash[key[t]]
    <2>1. chain'[b] = chain[b] /\ Len(chain[b]) \in Nat
      BY <1>4, <1>7 DEF PlainInv, UniqueInv, TypeInv, TypeOK
    <2> QED BY <2>1 DEF ListShows
  <1>8. CASE b = Hash[key[t]]
    BY <1>1, <1>2, <1>3, <1>4, <1>5, <1>6, <1>8 DEF ListShows
  <1> QED BY <1>7, <1>8

LEMMA StepShows ==
  ASSUME PlainInv, [Next]_vars, NEW b \in Buckets PROVE ListShows(b)
  <1>1. CASE UNCHANGED chain
    <2>1. Len(chain[b]) \in Nat BY DEF PlainInv, UniqueInv, TypeInv, TypeOK
    <2> QED BY <1>1, <2>1 DEF ListShows
  <1>2. ~ \E t \in Threads : Promote(t)
    BY DEF Promote, PlainInv, UniqueInv
  <1> QED BY <1>1, <1>2, ListSteps, PushShows, MarkShows

\* A busy thread keeps what it needs, whoever makes the step.
LEMMA SeenKept ==
  ASSUME PlainInv, [Next]_vars, NEW t \in Threads, pc[t] # "idle",
         NEW s, s = seen[t] \cup {Visible(chain', key[t])}
  PROVE  /\ WalkSeen(chain, key[t], orig[t], seen[t]) => WalkSeen(chain', key[t], orig[t], s)
         /\ PushSeen(chain, key[t], orig[t], seen[t]) => PushSeen(chain', key[t], orig[t], s)
  <1>1. PICK k, o, c, d : k = key[t] /\ o = orig[t] /\ c = chain[Hash[k]] /\ d = chain'[Hash[k]]
    OBVIOUS
  <1>2. k \in Keys /\ Hash[k] \in Buckets /\ o \in Nat /\ o <= Len(c) /\ Len(c) \in Nat
    BY <1>1, SetAssumption DEF PlainInv, UniqueInv, TypeInv, TypeOK, PointersInRange, Bucket
  <1>3. /\ Len(c) <= Len(d)
        /\ \A i \in 1..Len(c) :
              /\ d[i].key = c[i].key
              /\ Shown(d[i]) = Shown(c[i]) \/ (Shown(d[i]) = None /\ Visible(chain', c[i].key) = None)
        /\ \A i \in (Len(c) + 1)..Len(d) : Visible(chain', d[i].key) \in Values
    BY <1>1, <1>2, StepShows DEF ListShows
  <1>4. Visible(chain', k) \in s /\ seen[t] \subseteq s
    BY <1>1
  <1>5. ASSUME WalkSeen(chain, k, o, seen[t]) PROVE WalkSeen(chain', k, o, s)
    <2>1. ASSUME NEW i, Newest(d, o, k, i) PROVE Shown(d[i]) \in s
      <3>1. i \in 1..Len(c) /\ i \in 1..o /\ c[i].key = k
        BY <1>2, <1>3, <2>1 DEF Newest
      <3>2. \A j \in (i + 1)..o : c[j].key # k
        BY <1>2, <1>3, <2>1 DEF Newest
      <3>3. Shown(c[i]) \in s
        BY <1>1, <1>4, <1>5, <3>1, <3>2 DEF WalkSeen, Newest
      <3> QED BY <1>3, <1>4, <3>1, <3>3
    <2>2. ASSUME \A i : ~Newest(d, o, k, i) PROVE None \in s
      <3>1. ASSUME NEW i, Newest(c, o, k, i) PROVE Newest(d, o, k, i)
        BY <1>2, <1>3, <3>1 DEF Newest
      <3>2. \A i : ~Newest(c, o, k, i)
        BY <2>2, <3>1
      <3> QED BY <1>1, <1>4, <1>5, <3>2 DEF WalkSeen
    <2> QED BY <1>1, <2>1, <2>2 DEF WalkSeen
  <1>6. ASSUME PushSeen(chain, k, o, seen[t]) PROVE PushSeen(chain', k, o, s)
    <2> SUFFICES ASSUME NEW i \in (o + 1)..Len(d), d[i].key = k PROVE \E v \in Values : v \in s
      BY <1>1 DEF PushSeen
    <2>1. CASE i \in 1..Len(c)
      BY <1>1, <1>2, <1>3, <1>4, <1>6, <2>1 DEF PushSeen
    <2>2. CASE i \in (Len(c) + 1)..Len(d)
      BY <1>3, <1>4, <2>2
    <2> QED BY <1>2, <2>1, <2>2
  <1> QED BY <1>1, <1>5, <1>6

\* The thread that does not step keeps its place.
LEMMA OthersStay ==
  ASSUME TypeInv, NEW t \in Threads, Call(t) \/ SetStep(t) \/ WalkStep(t), NEW u \in Threads \ {t}
  PROVE  pc'[u] = pc[u] /\ key'[u] = key[u] /\ orig'[u] = orig[u] /\ ret'[u] = ret[u]
  <1>1. ASSUME NEW r, Return(t, r)
        PROVE  pc'[u] = pc[u] /\ key'[u] = key[u] /\ orig'[u] = orig[u] /\ ret'[u] = ret[u]
    BY <1>1 DEF Return, Goto, TypeInv, TypeOK
  <1>2. CASE Call(t)
    BY <1>2 DEF Call, SetCall, WalkCall, Goto, shared, TypeInv, TypeOK
  <1>3. CASE SetStep(t)
    BY <1>1, <1>3 DEF SetStep, SetConflict, SetPass, SetAlloc, SetNoMem, RecheckConflict,
                      RecheckPass, Push, PushRetry, Count, Promote, args, ptrs, Goto, TypeInv, TypeOK
  <1>4. CASE WalkStep(t)
    BY <1>1, <1>4 DEF WalkStep, GetFound, GetAbsent, RemoveMark, RemoveFail
  <1> QED BY <1>2, <1>3, <1>4

LEMMA WalkOfVisible ==
  ASSUME NEW ch, NEW k \in Keys, NEW c, c = ch[Hash[k]], c \in Seq(Items)
  PROVE  WalkSeen(ch, k, Len(c), {Visible(ch, k)})
  <1>1. ASSUME NEW i, Newest(c, Len(c), k, i) PROVE Shown(c[i]) = Visible(ch, k)
    <2>1. Last(c, k, i)
      BY <1>1 DEF Last
    <2> QED BY <2>1, VisibleOfNewest
  <1>2. (\A i : ~Newest(c, Len(c), k, i)) => Visible(ch, k) = None
    BY VisibleOfNone DEF Last
  <1> QED BY <1>1, <1>2 DEF WalkSeen

TrueAnswer(t) ==
    /\ Answered(t, "get") => ret[t][2] \in seen[t]
    /\ Answered(t, "set") => /\ ret[t][2] = "CONFLICT" => \E v \in Values : v \in seen[t]
                             /\ ret[t][2] = "OK" => None \in seen[t]
    /\ Answered(t, "remove") => None \in seen[t]

LEMMA TrueAnswers == AnswersWereTrue <=> \A t \in Threads : TrueAnswer(t)
  BY DEF AnswersWereTrue, GetAnswerWasTrue, SetAnswerWasTrue, RemoveAnswerWasTrue, TrueAnswer

\* The thread that steps.
LEMMA OwnSeen ==
  ASSUME PlainCallers, SeenInv, TypeInv', NEW t \in Threads, Call(t) \/ SetStep(t) \/ WalkStep(t),
         seen'[t] = IF pc[t] # "idle" THEN seen[t] \cup {Visible(chain', key[t])}
                    ELSE IF pc'[t] # "idle" THEN {Visible(chain, key'[t])} ELSE seen[t]
  PROVE  SeenSoFar(t)' /\ TrueAnswer(t)'
  <1>0. TypeInv /\ UniqueInv /\ PlainInv /\ SeenSoFar(t) /\ [Next]_vars
    BY DEF SeenInv, PlainInv, UniqueInv, Next
  <1>1. CASE Call(t)
    <2>1. PICK k \in Keys : /\ pc[t] = "idle" /\ UNCHANGED chain
                            /\ key' = [key EXCEPT ![t] = k]
                            /\ orig' = [orig EXCEPT ![t] = Len(chain[Hash[k]])]
                            /\ \E l \in {"check", "read", "mark"} : pc' = [pc EXCEPT ![t] = l]
      BY <1>1 DEF Call, SetCall, WalkCall, Goto, shared
    <2>2. PICK c : c = chain[Hash[k]] OBVIOUS
    <2>3. /\ key'[t] = k /\ orig'[t] = Len(c) /\ pc'[t] \in {"check", "read", "mark"}
          /\ chain'[Hash[k]] = c /\ seen'[t] = {Visible(chain, k)}
      BY <1>0, <2>1, <2>2 DEF TypeInv, TypeOK
    <2>4. c \in Seq(Items) /\ Len(c) \in Nat
      BY <1>0, <2>2, SetAssumption DEF TypeInv, TypeOK
    <2>5. WalkSeen(chain, k, Len(c), {Visible(chain, k)})
      BY <2>2, <2>4, WalkOfVisible
    <2>6. chain' = chain
      BY <2>1
    <2>7. WalkSeen(chain, key[t], orig[t], seen[t])'
      BY <2>2, <2>3, <2>5, <2>6 DEF WalkSeen
    <2>8. PushSeen(chain, key[t], orig[t], seen[t])'
      BY <2>3, <2>4 DEF PushSeen
    <2> QED BY <2>3, <2>7, <2>8 DEF SeenSoFar, TrueAnswer, Answered
  <1>2. ASSUME SetStep(t) \/ WalkStep(t)
        PROVE  /\ pc[t] # "idle" /\ seen'[t] = seen[t] \cup {Visible(chain', key[t])}
               /\ WalkSeen(chain, key[t], orig[t], seen[t]) => WalkSeen(chain', key[t], orig[t], seen'[t])
               /\ PushSeen(chain, key[t], orig[t], seen[t]) => PushSeen(chain', key[t], orig[t], seen'[t])
    <2>1. pc[t] # "idle"
      BY <1>2 DEF SetStep, SetConflict, SetPass, SetAlloc, SetNoMem, RecheckConflict,
                  RecheckPass, Push, PushRetry, Count, Promote,
                  WalkStep, GetFound, GetAbsent, RemoveMark, RemoveFail
    <2> QED BY <1>0, <2>1, SeenKept
  <1>3. ASSUME NEW r, Return(t, r) PROVE pc'[t] = "idle" /\ ret'[t] = r
    BY <1>0, <1>3 DEF Return, Goto, TypeInv, TypeOK
  <1>k. key[t] \in Keys \cup {None} /\ (pc[t] # "idle" => Hash[key[t]] \in Buckets)
        /\ (pc[t] # "idle" => Bucket(t) \in Seq(Items) /\ orig[t] \in Nat /\ orig[t] <= Len(Bucket(t)))
    BY <1>0, SetAssumption DEF TypeInv, TypeOK, PointersInRange, Bucket
  <1>4. CASE SetConflict(t)
    <2>1. PICK i \in 1..orig[t] : Newest(Bucket(t), orig[t], key[t], i) /\ Bucket(t)[i].phase = "VALID"
      BY <1>4 DEF SetConflict, FoundValid
    <2>2. Shown(Bucket(t)[i]) \in seen[t]
      BY <1>0, <1>4, <2>1 DEF SetConflict, SeenSoFar, WalkSeen, Bucket
    <2>3. Bucket(t)[i] \in Items
      BY <1>k, <1>4, <2>1, ElementOfSeq DEF SetConflict
    <2>4. Shown(Bucket(t)[i]) \in Values
      BY <2>1, <2>3 DEF Shown, Items
    <2>5. pc'[t] = "idle" /\ ret'[t] = <<"set", "CONFLICT">>
      BY <1>3, <1>4 DEF SetConflict
    <2> QED BY <1>2, <1>4, <2>2, <2>4, <2>5 DEF SetStep, SeenSoFar, TrueAnswer, Answered
  <1>5. CASE SetPass(t)
    <2>1. /\ pc[t] = "check" /\ pc'[t] = "alloc" /\ UNCHANGED <<chain, key, orig>> /\ ~FoundValid(t)
      BY <1>0, <1>5 DEF SetPass, Goto, shared, args, ptrs, UniqueInv, TypeInv, TypeOK
    <2>2. WalkSeen(chain, key[t], orig[t], seen[t])
      BY <1>0, <2>1 DEF SeenSoFar
    <2>3. None \in seen[t]
      <3>1. CASE \E i : Newest(Bucket(t), orig[t], key[t], i)
        <4>1. PICK i : Newest(Bucket(t), orig[t], key[t], i)
          BY <3>1
        <4>2. i \in 1..orig[t] /\ Bucket(t)[i].phase # "VALID"
          BY <2>1, <4>1 DEF FoundValid, Newest
        <4>3. Bucket(t)[i] \in Items /\ Bucket(t)[i].phase # "PENDING"
          BY <1>0, <1>k, <2>1, <4>2, ElementOfSeq DEF PlainInv, Bucket
        <4>4. Shown(Bucket(t)[i]) = None
          BY <4>2, <4>3 DEF Items, Phases, Shown
        <4> QED BY <2>2, <4>1, <4>4 DEF WalkSeen, Bucket
      <3>2. CASE \A i : ~Newest(Bucket(t), orig[t], key[t], i)
        BY <2>2, <3>2 DEF WalkSeen, Bucket
      <3> QED BY <3>1, <3>2
    <2> QED BY <1>0, <1>2, <1>5, <2>1, <2>3 DEF SetStep, SeenSoFar, TrueAnswer, Answered
  <1>6. CASE SetAlloc(t) \/ RecheckPass(t) \/ PushRetry(t)
    <2>1. /\ pc[t] \in {"alloc", "load", "cas"} /\ pc'[t] \in {"load", "cas"}
          /\ UNCHANGED <<chain, key, orig>>
      BY <1>0, <1>6 DEF SetAlloc, RecheckPass, PushRetry, Goto, shared, args, ptrs, TypeInv, TypeOK
    <2>2. None \in seen[t] /\ PushSeen(chain, key[t], orig[t], seen[t])
      BY <1>0, <2>1 DEF SeenSoFar
    <2> QED BY <1>2, <1>6, <2>1, <2>2 DEF SetStep, SeenSoFar, TrueAnswer, Answered
  <1>7. CASE SetNoMem(t)
    <2>1. pc'[t] = "idle" /\ ret'[t] = <<"set", "NOMEM">>
      BY <1>3, <1>7 DEF SetNoMem
    <2> QED BY <2>1 DEF SeenSoFar, TrueAnswer, Answered
  <1>8. CASE RecheckConflict(t)
    <2>1. /\ pc[t] = "load" /\ pc'[t] = "idle" /\ ret'[t] = <<"set", "CONFLICT">> /\ ~RecheckClean(t)
      BY <1>3, <1>8 DEF RecheckConflict
    <2>2. \E i \in (orig[t] + 1)..Len(Bucket(t)) : Bucket(t)[i].key = key[t]
      BY <2>1 DEF RecheckClean, NoneBetween
    <2>3. PushSeen(chain, key[t], orig[t], seen[t])
      BY <1>0, <2>1 DEF SeenSoFar
    <2>4. \E v \in Values : v \in seen[t]
      BY <2>2, <2>3 DEF PushSeen, Bucket
    <2> QED BY <1>2, <1>8, <2>1, <2>4 DEF SetStep, SeenSoFar, TrueAnswer, Answered
  <1>9. CASE Push(t)
    <2>1. pc[t] = "cas" /\ pc'[t] = "count" /\ None \in seen[t]
      BY <1>0, <1>9 DEF Push, Goto, SeenSoFar, TypeInv, TypeOK
    <2> QED BY <1>2, <1>9, <2>1 DEF SetStep, SeenSoFar, TrueAnswer, Answered
  <1>10. CASE Count(t)
    <2>1. pc[t] = "count" /\ pc'[t] = "idle" /\ ret'[t] = <<"set", "OK">>
      BY <1>3, <1>10 DEF Count, PlainCallers, StrictCallers
    <2>2. None \in seen[t]
      BY <1>0, <2>1 DEF SeenSoFar
    <2> QED BY <1>2, <1>10, <2>1, <2>2 DEF SetStep, SeenSoFar, TrueAnswer, Answered
  <1>11. ~Promote(t)
    BY <1>0 DEF Promote, UniqueInv
  <1>12. CASE GetFound(t)
    <2>1. PICK i \in 1..orig[t] : /\ Newest(Bucket(t), orig[t], key[t], i)
                                  /\ Return(t, <<"get", Shown(Bucket(t)[i])>>)
      BY <1>12 DEF GetFound, GetAnswer
    <2>2. Shown(Bucket(t)[i]) \in seen[t]
      BY <1>0, <1>12, <2>1 DEF GetFound, SeenSoFar, WalkSeen, Bucket
    <2>3. pc'[t] = "idle" /\ ret'[t] = <<"get", Shown(Bucket(t)[i])>>
      BY <1>3, <2>1
    <2> QED BY <1>2, <1>12, <2>2, <2>3 DEF WalkStep, SeenSoFar, TrueAnswer, Answered
  <1>13. CASE GetAbsent(t) \/ RemoveFail(t)
    <2>1. /\ pc[t] \in {"read", "mark"} /\ NoneBetween(Bucket(t), 0, orig[t], key[t])
          /\ pc'[t] = "idle" /\ ret'[t] \in {<<"get", None>>, <<"remove", "FAIL">>}
      BY <1>3, <1>13 DEF GetAbsent, RemoveFail
    <2>2. \A i : ~Newest(Bucket(t), orig[t], key[t], i)
      BY <2>1 DEF Newest, NoneBetween
    <2>3. None \in seen[t]
      BY <1>0, <2>1, <2>2 DEF SeenSoFar, WalkSeen, Bucket
    <2> QED BY <1>2, <1>13, <2>1, <2>3 DEF WalkStep, SeenSoFar, TrueAnswer, Answered
  <1>14. CASE RemoveMark(t)
    <2>1. PICK i \in 1..orig[t] :
             /\ Newest(Bucket(t), orig[t], key[t], i)
             /\ chain' = [chain EXCEPT ![Hash[key[t]]][i].phase = "REMOVED"]
      BY <1>14 DEF RemoveMark, MarkOf
    <2>2. /\ pc[t] = "mark" /\ pc'[t] = "idle" /\ ret'[t] = <<"remove", "OK">>
          /\ Hash[key[t]] \in Buckets /\ i \in 1..Len(Bucket(t)) /\ key[t] \in Keys
          /\ chain \in [Buckets -> Seq(Items)] /\ "REMOVED" \in Phases
      BY <1>0, <1>3, <1>14, <1>k, <2>1 DEF RemoveMark, TypeInv, TypeOK, Phases
    <2>3. Marked(Hash[key[t]], i, "REMOVED")
      BY <2>1, <2>2, MarkItem DEF Bucket
    <2>5. Shown(chain'[Hash[key[t]]][i]) = None
      BY <2>3 DEF Marked, Shown
    <2>6. ListShows(Hash[key[t]])
      BY <1>0, <2>2, StepShows
    <2>7. Shown(Bucket(t)[i]) \in seen[t]
      BY <1>0, <2>1, <2>2 DEF SeenSoFar, WalkSeen, Bucket
    <2>8. None \in seen'[t]
      BY <1>2, <1>14, <2>1, <2>2, <2>5, <2>6, <2>7 DEF WalkStep, ListShows, Newest, Bucket
    <2> QED BY <2>2, <2>8 DEF SeenSoFar, TrueAnswer, Answered
  <1> QED BY <1>1, <1>4, <1>5, <1>6, <1>7, <1>8, <1>9, <1>10, <1>11, <1>12, <1>13, <1>14
          DEF SetStep, WalkStep

LEMMA NextSeen == PlainCallers /\ SeenInv /\ [ObsNext]_obsVars => SeenInv'
  <1> SUFFICES ASSUME PlainCallers, SeenInv, [ObsNext]_obsVars PROVE SeenInv'
    OBVIOUS
  <1>1. CASE UNCHANGED obsVars
    <2>1. UNCHANGED vars /\ UNCHANGED seen
      BY <1>1 DEF obsVars
    <2>2. PlainInv'
      BY <2>1, NextPlain DEF SeenInv
    <2> QED BY <2>1, <2>2 DEF vars, SeenInv, SeenSoFar, WalkSeen, PushSeen, AnswersWereTrue,
               GetAnswerWasTrue, SetAnswerWasTrue, RemoveAnswerWasTrue, Answered
  <1>2. CASE ObsNext
    <2>1. PlainInv /\ PlainInv' /\ TypeInv /\ TypeInv' /\ [Next]_vars
      BY <1>2, NextPlain DEF SeenInv, PlainInv, UniqueInv, ObsNext
    <2>2. PICK t \in Threads : Call(t) \/ SetStep(t) \/ WalkStep(t)
      BY <1>2 DEF ObsNext, Next
    <2>3. \A u \in Threads : seen'[u] = IF pc[u] # "idle" THEN seen[u] \cup {Visible(chain', key[u])}
                               ELSE IF pc'[u] # "idle" THEN {Visible(chain, key'[u])} ELSE seen[u]
      BY <1>2 DEF ObsNext
    <2>4. SeenSoFar(t)' /\ TrueAnswer(t)'
      BY <2>1, <2>2, <2>3, OwnSeen
    <2>5. ASSUME NEW u \in Threads \ {t} PROVE SeenSoFar(u)' /\ TrueAnswer(u)'
      <3>1. pc'[u] = pc[u] /\ key'[u] = key[u] /\ orig'[u] = orig[u] /\ ret'[u] = ret[u]
        BY <2>1, <2>2, OthersStay
      <3>2. SeenSoFar(u) /\ TrueAnswer(u)
        BY TrueAnswers DEF SeenInv
      <3>3. CASE pc[u] = "idle"
        <4>1. seen'[u] = seen[u]
          BY <2>3, <3>1, <3>3
        <4> QED BY <3>1, <3>2, <3>3, <4>1 DEF SeenSoFar, TrueAnswer, Answered
      <3>4. CASE pc[u] # "idle"
        <4>1. seen'[u] = seen[u] \cup {Visible(chain', key[u])}
          BY <2>3, <3>4
        <4>2. /\ WalkSeen(chain, key[u], orig[u], seen[u]) => WalkSeen(chain', key[u], orig[u], seen'[u])
              /\ PushSeen(chain, key[u], orig[u], seen[u]) => PushSeen(chain', key[u], orig[u], seen'[u])
          BY <2>1, <3>4, <4>1, SeenKept
        <4> QED BY <3>1, <3>2, <3>4, <4>1, <4>2 DEF SeenSoFar, TrueAnswer, Answered
      <3> QED BY <3>3, <3>4
    <2>6. AnswersWereTrue'
      <3>1. \A u \in Threads : TrueAnswer(u)'
        BY <2>4, <2>5
      <3> QED BY <3>1 DEF AnswersWereTrue, GetAnswerWasTrue, SetAnswerWasTrue, RemoveAnswerWasTrue,
                          TrueAnswer, Answered
    <2> QED BY <2>1, <2>4, <2>5, <2>6 DEF SeenInv
  <1> QED BY <1>1, <1>2

\* Whatever sets, gets and removes of its key run with it, a call answers what
\* was true of its key at some moment of the call, although it reads the head,
\* the links and the phases at different moments (knd_shared_dict.c).
THEOREM CallsAnswerTruly ==
  ASSUME PlainCallers PROVE ObsSpec => []AnswersWereTrue
  <1>1. ObsInit => SeenInv
    BY InitPlain DEF ObsInit, Init, SeenInv, SeenSoFar, AnswersWereTrue, GetAnswerWasTrue,
                     SetAnswerWasTrue, RemoveAnswerWasTrue, Answered
  <1>2. SeenInv /\ [ObsNext]_obsVars => SeenInv'
    BY NextSeen
  <1>3. SeenInv => AnswersWereTrue
    BY DEF SeenInv
  <1> QED BY <1>1, <1>2, <1>3, PTL DEF ObsSpec

---------------------------------------------------------------------------
(* Loops *)

\* Induction, of sets of numbers.
LEMMA NatMin == ASSUME NEW T, T \subseteq Nat, T # {} PROVE \E x \in T : \A y \in T : x <= y
<1>1. PICK R : R = OpToRel(<, Nat)
    OBVIOUS
<1>2. IsWellFoundedOn(R, Nat)
    BY <1>1, NatLessThanWellFounded
<1>3. PICK x \in T : \A y \in T : ~ (<<y, x>> \in R)
    BY <1>2, WFMin
<1>4. ASSUME NEW a \in Nat, NEW b \in Nat, a < b PROVE <<a, b>> \in R
    BY <1>1, <1>4 DEF OpToRel
<1>5. \A y \in T : ~ (y < x)
    BY <1>3, <1>4
<1> QED BY <1>5

\* What holds of 0 and passes from each number to the next holds up to n.
LEMMA UpTo ==
  ASSUME NEW n \in Nat, NEW T, 0 \in T, \A k \in 1..n : k - 1 \in T => k \in T
  PROVE  \A k \in 0..n : k \in T
<1> SUFFICES ASSUME NEW U, U = {k \in 0..n : k \notin T}, U # {} PROVE FALSE
    OBVIOUS
<1>0. U \subseteq Nat
    OBVIOUS
<1>1. PICK x \in U : \A y \in U : x <= y
    BY <1>0, NatMin
<1>2. x \in 1..n /\ x - 1 \in 0..n
    OBVIOUS
<1>3. x - 1 \in T
    BY <1>1, <1>2
<1> QED BY <1>2, <1>3

\* A loop of n steps over values of S has results.
Run(g, n, S, x, step) ==
    g \in [0..n -> S] /\ g[0] = x /\ \A k \in 1..n : g[k] = step[k][g[k - 1]]

\* A loop of n steps on values of S has a result after each step.
LEMMA Iteration ==
  ASSUME NEW n \in Nat, NEW S, NEW x \in S, NEW step \in [1..n -> [S -> S]]
  PROVE  \E g : Run(g, n, S, x, step)
<1>1. PICK T : T = {m \in 0..n : \E g : Run(g, m, S, x, step)}
    OBVIOUS
<1>2. 0 \in T
  <2>1. PICK g : g = [k \in 0..0 |-> x]
    OBVIOUS
  <2>2. Run(g, 0, S, x, step)
    BY <2>1 DEF Run
  <2> QED BY <1>1, <2>2
<1>3. ASSUME NEW m \in 1..n, m - 1 \in T PROVE m \in T
  <2>1. PICK g : Run(g, m - 1, S, x, step)
    BY <1>1, <1>3
  <2>2. PICK h : h = [k \in 0..m |-> IF k = m THEN step[m][g[m - 1]] ELSE g[k]]
    OBVIOUS
  <2>3. g[m - 1] \in S
    BY <2>1 DEF Run
  <2>4. step[m] \in [S -> S]
    OBVIOUS
  <2>5. step[m][g[m - 1]] \in S
    BY <2>3, <2>4
  <2>6. h \in [0..m -> S] /\ h[0] = x
    BY <2>1, <2>2, <2>5 DEF Run
  <2>7. ASSUME NEW k \in 1..m PROVE h[k] = step[k][h[k - 1]]
    <3>1. h[k - 1] = g[k - 1]
      BY <2>2
    <3>2. CASE k = m
      BY <2>2, <3>1, <3>2
    <3>3. CASE k # m
      <4>1. k \in 1..(m - 1) /\ k \in 0..m
        BY <3>3
      <4>2. h[k] = g[k] /\ g[k] = step[k][g[k - 1]]
        BY <2>1, <2>2, <3>3, <4>1 DEF Run
      <4> QED BY <3>1, <4>2
    <3> QED BY <3>2, <3>3
  <2>8. Run(h, m, S, x, step)
    BY <2>6, <2>7 DEF Run
  <2> QED BY <1>1, <2>8
<1>4. \A k \in 0..n : k \in T
    BY <1>2, <1>3, UpTo
<1>5. n \in T
    BY <1>4
<1> QED BY <1>1, <1>5

\* A loop whose steps stay in S stays in S.
LEMMA InLoop ==
  ASSUME NEW n \in Nat, NEW S, NEW f, f[0] \in S, \A k \in 1..n : f[k - 1] \in S => f[k] \in S
  PROVE  \A k \in 0..n : f[k] \in S
<1>1. PICK T : T = {k \in 0..n : f[k] \in S}
    OBVIOUS
<1>2. 0 \in T
    BY <1>1
<1>3. \A k \in 1..n : k - 1 \in T => k \in T
    BY <1>1
<1>4. \A k \in 0..n : k \in T
    BY <1>2, <1>3, UpTo
<1> QED BY <1>1, <1>4

\* What a loop that joins byte sequences has after each of them.
LEMMA JoinedIs ==
  ASSUME NEW parts \in Seq(ByteSeq)
  PROVE  /\ JoinedTo(parts) \in [0..Len(parts) -> ByteSeq]
         /\ JoinedTo(parts)[0] = <<>>
         /\ \A k \in 1..Len(parts) : JoinedTo(parts)[k] = JoinedTo(parts)[k - 1] \o parts[k]
         /\ Joined(parts) \in ByteSeq
<1>n. PICK n : n = Len(parts)
    OBVIOUS
<1>e. PICK e : e = <<>>
    OBVIOUS
<1> DEFINE Add(s, k) == s \o parts[k]
           Is(f) == f = [k \in 0..n |-> IF k = 0 THEN e ELSE Add(f[k - 1], k)]
<1>0. n \in Nat /\ e \in ByteSeq /\ \A k \in 1..n : parts[k] \in ByteSeq
    BY <1>n, <1>e DEF ByteSeq
<1>1. ASSUME NEW s \in ByteSeq, NEW k \in 1..n PROVE Add(s, k) \in ByteSeq
    BY <1>0, <1>1 DEF ByteSeq
<1>6. PICK c : c = (CHOOSE f : Is(f))
    OBVIOUS
<1>7. c = JoinedTo(parts)
    BY <1>6, <1>n, <1>e, Zenon DEF JoinedTo
<1> HIDE DEF Add
<1>s. PICK step : step = [k \in 1..n |-> [s \in ByteSeq |-> Add(s, k)]]
    OBVIOUS
<1>2. step \in [1..n -> [ByteSeq -> ByteSeq]]
    BY <1>1, <1>s
<1>3. PICK g : Run(g, n, ByteSeq, e, step)
    BY <1>0, <1>2, Iteration
<1>4. g[0] = e /\ \A k \in 1..n : g[k - 1] \in ByteSeq /\ g[k] = Add(g[k - 1], k)
    BY <1>0, <1>3, <1>s DEF Run
<1>5. Is(g)
  <2>1. ASSUME NEW k \in 0..n PROVE g[k] = IF k = 0 THEN e ELSE Add(g[k - 1], k)
    BY <1>0, <1>4
  <2> QED BY <1>3, <2>1 DEF Run
<1>8. Is(c)
  <2> HIDE DEF Is
  <2> QED BY <1>5, <1>6
<1>9. c[0] = e /\ \A k \in 1..n : c[k] = Add(c[k - 1], k)
    BY <1>0, <1>8
<1>10. \A k \in 0..n : c[k] \in ByteSeq
  <2> HIDE DEF Is
  <2>1. \A k \in 1..n : c[k - 1] \in ByteSeq => c[k] \in ByteSeq
    BY <1>1, <1>9
  <2>2. c[0] \in ByteSeq
    BY <1>0, <1>9
  <2> QED BY <1>0, <2>1, <2>2, InLoop
<1>11. c \in [0..n -> ByteSeq]
    BY <1>8, <1>10
<1>12. Joined(parts) = c[n] /\ n \in 0..n
    BY <1>0, <1>7, <1>n DEF Joined
<1>13. Joined(parts) \in ByteSeq
    BY <1>10, <1>12
<1>14. \A k \in 1..n : c[k] = c[k - 1] \o parts[k]
    BY <1>9 DEF Add
<1> QED BY <1>n, <1>e, <1>7, <1>9, <1>11, <1>13, <1>14, Zenon

\* What adding up a sequence of sizes has after each of them.
LEMMA TotalIs ==
  ASSUME NEW sizes \in Seq(Nat)
  PROVE  /\ TotalTo(sizes) \in [0..Len(sizes) -> Nat]
         /\ TotalTo(sizes)[0] = 0
         /\ \A k \in 1..Len(sizes) : TotalTo(sizes)[k] = TotalTo(sizes)[k - 1] + sizes[k]
<1>n. PICK n : n = Len(sizes)
    OBVIOUS
<1> DEFINE Is(f) == f = [k \in 0..n |-> IF k = 0 THEN 0 ELSE f[k - 1] + sizes[k]]
<1>0. n \in Nat /\ \A k \in 1..n : sizes[k] \in Nat
    BY <1>n
<1>1. PICK c : c = (CHOOSE f : Is(f))
    OBVIOUS
<1>2. c = TotalTo(sizes)
    BY <1>1, <1>n, Zenon DEF TotalTo
<1> DEFINE Add(s, k) == s + sizes[k]
<1>a. \A k \in 1..n : \A s \in Nat : Add(s, k) \in Nat
    BY <1>0
<1> HIDE DEF Add
<1>3. PICK step : step = [k \in 1..n |-> [s \in Nat |-> Add(s, k)]]
    OBVIOUS
<1>4. step \in [1..n -> [Nat -> Nat]]
    BY <1>a, <1>3
<1>5. PICK g : Run(g, n, Nat, 0, step)
    BY <1>0, <1>4, Iteration
<1>b. g[0] = 0 /\ \A k \in 1..n : g[k - 1] \in Nat /\ g[k] = Add(g[k - 1], k)
  <2>0. g \in [0..n -> Nat] /\ g[0] = 0 /\ \A k \in 1..n : g[k] = step[k][g[k - 1]]
    BY <1>5 DEF Run
  <2>1. ASSUME NEW k \in 1..n PROVE g[k - 1] \in Nat /\ g[k] = Add(g[k - 1], k)
    <3>1. k - 1 \in 0..n
      BY <1>0
    <3>2. g[k - 1] \in Nat
      BY <2>0, <3>1
    <3>3. step[k] = [s \in Nat |-> Add(s, k)]
      BY <1>3
    <3>4. step[k][g[k - 1]] = Add(g[k - 1], k)
      BY <3>2, <3>3
    <3> QED BY <2>0, <3>2, <3>4
  <2> QED BY <2>0, <2>1
<1>6. g[0] = 0 /\ \A k \in 1..n : g[k - 1] \in Nat /\ g[k] = g[k - 1] + sizes[k]
    BY <1>b DEF Add
<1>7. Is(g)
  <2>1. ASSUME NEW k \in 0..n PROVE g[k] = IF k = 0 THEN 0 ELSE g[k - 1] + sizes[k]
    BY <1>0, <1>6
  <2> QED BY <1>5, <2>1 DEF Run
<1>8. Is(c)
  <2> HIDE DEF Is
  <2> QED BY <1>1, <1>7
<1>9. c[0] = 0 /\ \A k \in 1..n : c[k] = c[k - 1] + sizes[k]
    BY <1>0, <1>8
<1>10. \A k \in 0..n : c[k] \in Nat
  <2> HIDE DEF Is
  <2>1. \A k \in 1..n : c[k - 1] \in Nat => c[k] \in Nat
    BY <1>0, <1>9
  <2>2. c[0] \in Nat
    BY <1>9
  <2> QED BY <1>0, <2>1, <2>2, InLoop
<1>11. c \in [0..n -> Nat]
    BY <1>8, <1>10
<1> QED BY <1>n, <1>2, <1>9, <1>11

\* Where the joined parts begin is what their sizes add up to.
LEMMA JoinedSizes ==
  ASSUME NEW parts \in Seq(ByteSeq)
  PROVE  /\ Lengths(parts) \in Seq(Nat)
         /\ Len(Lengths(parts)) = Len(parts)
         /\ \A k \in 0..Len(parts) : Len(JoinedTo(parts)[k]) = TotalTo(Lengths(parts))[k]
<1>n. PICK n \in Nat : n = Len(parts)
    OBVIOUS
<1>1. \A k \in 1..n : parts[k] \in ByteSeq /\ Len(parts[k]) \in Nat
    BY <1>n DEF ByteSeq
<1>2. Lengths(parts) \in Seq(Nat) /\ Len(Lengths(parts)) = n
    BY <1>n, <1>1 DEF Lengths
<1>3. PICK T : T = {k \in 0..n : Len(JoinedTo(parts)[k]) = TotalTo(Lengths(parts))[k]}
    OBVIOUS
<1>4. 0 \in T
  <2>1. JoinedTo(parts)[0] = <<>> /\ TotalTo(Lengths(parts))[0] = 0
    BY <1>2, JoinedIs, TotalIs
  <2>2. Len(<<>>) = 0
    OBVIOUS
  <2> QED BY <1>3, <2>1, <2>2
<1>5. ASSUME NEW k \in 1..n, k - 1 \in T PROVE k \in T
  <2>1. k - 1 \in 0..n /\ k \in 0..n
    OBVIOUS
  <2>2. JoinedTo(parts)[k - 1] \in ByteSeq /\ JoinedTo(parts)[k] = JoinedTo(parts)[k - 1] \o parts[k]
    BY <2>1, <1>n, JoinedIs
  <2>3. Len(JoinedTo(parts)[k]) = Len(JoinedTo(parts)[k - 1]) + Len(parts[k])
    BY <1>1, <2>2 DEF ByteSeq
  <2>4. TotalTo(Lengths(parts))[k] = TotalTo(Lengths(parts))[k - 1] + Lengths(parts)[k]
    BY <1>2, TotalIs
  <2>5. Lengths(parts)[k] = Len(parts[k])
    BY <1>n DEF Lengths
  <2>6. Len(JoinedTo(parts)[k - 1]) = TotalTo(Lengths(parts))[k - 1]
    BY <1>3, <1>5
  <2> QED BY <1>3, <2>1, <2>3, <2>4, <2>5, <2>6
<1>6. \A k \in 0..n : k \in T
    BY <1>4, <1>5, UpTo
<1> QED BY <1>n, <1>2, <1>3, <1>6

\* The calls for several parts, if none of them fails.
Calls(X) == {Called(r, m) : r \in SUBSET X, m \in Nat}

\* Calls that went well add up (dir->total_elems).
LEMMA PlusCalls ==
  ASSUME NEW X, NEW a \in Calls(X), NEW b \in Calls(X)
  PROVE  Plus(a, b) \in Calls(X) /\ Plus(a, b) = Called(a.recs \cup b.recs, a.num + b.num)
<1>1. PICK r \in SUBSET X, m \in Nat : a = Called(r, m)
    BY DEF Calls
<1>2. PICK s \in SUBSET X, n \in Nat : b = Called(s, n)
    BY DEF Calls
<1>3. a.ok /\ b.ok /\ a.recs = r /\ b.recs = s /\ a.num = m /\ b.num = n
    BY <1>1, <1>2 DEF Called
<1>4. Plus(a, b) = Called(r \cup s, m + n)
    BY <1>3 DEF Plus
<1>5. r \cup s \in SUBSET X /\ m + n \in Nat
    OBVIOUS
<1> QED BY <1>3, <1>4, <1>5 DEF Calls

\* The calls for the sub-nodes of a node, one sub-node after the other.
LEMMA GatheredIs ==
  ASSUME NEW X, NEW results \in Seq(Calls(X))
  PROVE  \E u : /\ u \in [0..Len(results) -> Calls(X)]
                /\ u[0] = Called({}, 0)
                /\ \A k \in 1..Len(results) : u[k] = Plus(u[k - 1], results[k])
                /\ Gathered(results) = u[Len(results)]
<1>n. PICK n \in Nat : n = Len(results)
    OBVIOUS
<1>e. PICK e : e = Called({}, 0)
    OBVIOUS
<1>x. PICK S : S = Calls(X)
    OBVIOUS
<1> DEFINE Is(f) == f = [k \in 0..n |-> IF k = 0 THEN e ELSE Plus(f[k - 1], results[k])]
<1>0. e \in S /\ \A k \in 1..n : results[k] \in S
    BY <1>n, <1>e, <1>x DEF Calls
<1>1. PICK c : c = (CHOOSE f : Is(f))
    OBVIOUS
<1>2. Gathered(results) = c[n]
    BY <1>1, <1>n, <1>e, Zenon DEF Gathered
<1>3. PICK step : step = [k \in 1..n |-> [s \in S |-> Plus(s, results[k])]]
    OBVIOUS
<1>4. step \in [1..n -> [S -> S]]
    BY <1>0, <1>3, <1>x, PlusCalls
<1>5. PICK g : Run(g, n, S, e, step)
    BY <1>0, <1>4, Iteration
<1>6. g[0] = e /\ \A k \in 1..n : g[k - 1] \in S /\ g[k] = Plus(g[k - 1], results[k])
    BY <1>0, <1>3, <1>5 DEF Run
<1>7. Is(g)
  <2>1. ASSUME NEW k \in 0..n PROVE g[k] = IF k = 0 THEN e ELSE Plus(g[k - 1], results[k])
    BY <1>0, <1>6
  <2> QED BY <1>5, <2>1 DEF Run
<1>8. Is(c)
  <2> HIDE DEF Is
  <2> QED BY <1>1, <1>7
<1>9. c[0] = e /\ \A k \in 1..n : c[k] = Plus(c[k - 1], results[k])
    BY <1>0, <1>8
<1>10. \A k \in 0..n : c[k] \in S
  <2> HIDE DEF Is
  <2>1. \A k \in 1..n : c[k - 1] \in S => c[k] \in S
    <3>1. SUFFICES ASSUME NEW k \in 1..n, c[k - 1] \in S PROVE c[k] \in S
      OBVIOUS
    <3>2. c[k] = Plus(c[k - 1], results[k]) /\ results[k] \in S
      BY <1>0, <1>9
    <3>3. Plus(c[k - 1], results[k]) \in S
      BY <1>x, <3>1, <3>2, PlusCalls
    <3> QED BY <3>2, <3>3
  <2>2. c[0] \in S
    BY <1>0, <1>9
  <2> QED BY <1>0, <2>1, <2>2, InLoop
<1>11. c \in [0..n -> S]
    BY <1>8, <1>10
<1> QED BY <1>n, <1>e, <1>x, <1>2, <1>9, <1>11

---------------------------------------------------------------------------
(* Digits and numbers *)

InOrder(s, U) ==
    /\ s \in [1..Cardinality(U) -> U]
    /\ \A i, j \in 1..Cardinality(U) : i < j => s[i] < s[j]
    /\ \A d \in U : \E k \in 1..Cardinality(U) : s[k] = d

\* A set of digits can be listed in order.
LEMMA SortedIs ==
  ASSUME NEW U \in SUBSET AllDigits
  PROVE  /\ IsFiniteSet(U) /\ Cardinality(U) \in Nat /\ Cardinality(U) <= Base
         /\ InOrder(Sorted(U), U)
<1> DEFINE Upto(j) == {d \in U : d < j}
<1>0. Base \in Nat /\ \A j : Upto(j) \subseteq AllDigits
    BY SetFileAssumption
<1>u. \A d \in U : d \in Nat /\ d < Base
    BY <1>0 DEF AllDigits
<1>1. IsFiniteSet(AllDigits) /\ Cardinality(AllDigits) = Base
  <2>1. 0 \in Int /\ Base - 1 \in Int
    BY <1>0
  <2>2. IsFiniteSet(0..(Base - 1)) /\ Cardinality(0..(Base - 1)) = IF 0 > Base - 1 THEN 0 ELSE (Base - 1) - 0 + 1
    BY <2>1, FS_Interval
  <2> QED BY <1>0, <2>2 DEF AllDigits
<1>2. \A V \in SUBSET AllDigits : IsFiniteSet(V) /\ Cardinality(V) \in Nat /\ Cardinality(V) <= Base
    BY <1>1, FS_Subset, FS_CardinalityType
<1>3. PICK T : T = {j \in 0..Base : \E s : InOrder(s, Upto(j))}
    OBVIOUS
<1>4. 0 \in T
  <2>1. Upto(0) = {}
    BY <1>u
  <2>2. Cardinality({}) = 0
    BY FS_EmptySet
  <2>3. PICK s : s = [k \in 1..0 |-> k]
    OBVIOUS
  <2>4. 1..0 = {}
    OBVIOUS
  <2>5. InOrder(s, {})
    BY <2>2, <2>3, <2>4 DEF InOrder
  <2> QED BY <1>0, <1>3, <2>1, <2>5
<1>5. ASSUME NEW j \in 1..Base, j - 1 \in T PROVE j \in T
  <2>1. PICK s : InOrder(s, Upto(j - 1))
    BY <1>3, <1>5
  <2>2. CASE j - 1 \notin U
    <3>1. \A d \in U : d < j <=> d < j - 1
      BY <1>u, <2>2
    <3>2. Upto(j) = Upto(j - 1)
      BY <3>1
    <3> HIDE DEF Upto
    <3> QED BY <1>0, <1>3, <2>1, <3>2
  <2>3. CASE j - 1 \in U
    <3>1. PICK V, W : V = Upto(j - 1) /\ W = Upto(j)
      OBVIOUS
    <3>a. \A d \in U : d < j <=> d < j - 1 \/ d = j - 1
      BY <1>u
    <3>2. W = V \cup {j - 1} /\ j - 1 \notin V /\ V \in SUBSET AllDigits
      BY <1>u, <2>3, <3>1, <3>a
    <3>3. PICK c \in Nat : c = Cardinality(V)
      BY <1>2, <3>2
    <3>4. Cardinality(W) = c + 1
      BY <1>2, <3>2, <3>3, FS_AddElement
    <3>5. PICK t : t = [k \in 1..(c + 1) |-> IF k = c + 1 THEN j - 1 ELSE s[k]]
      OBVIOUS
    <3>6. /\ s \in [1..c -> V] /\ \A a, b \in 1..c : a < b => s[a] < s[b]
          /\ \A d \in V : \E k \in 1..c : s[k] = d
      BY <2>1, <3>1, <3>3 DEF InOrder
    <3>7. \A k \in 1..c : t[k] = s[k] /\ s[k] \in V /\ s[k] < j - 1
      BY <3>1, <3>5, <3>6
    <3>8. t[c + 1] = j - 1
      BY <3>5
    <3>9. t \in [1..(c + 1) -> W]
      <4>1. ASSUME NEW k \in 1..(c + 1) PROVE t[k] \in W
        <5>1. k = c + 1 \/ k \in 1..c
          BY <3>3
        <5> QED BY <3>2, <3>7, <3>8, <5>1
      <4> QED BY <3>5, <4>1
    <3>10. \A a, b \in 1..(c + 1) : a < b => t[a] < t[b]
      <4>1. SUFFICES ASSUME NEW a \in 1..(c + 1), NEW b \in 1..(c + 1), a < b PROVE t[a] < t[b]
        OBVIOUS
      <4>2. a \in 1..c
        BY <4>1
      <4>3. CASE b = c + 1
        BY <3>7, <3>8, <4>2, <4>3
      <4>4. CASE b # c + 1
        <5>1. b \in 1..c
          BY <4>4
        <5> QED BY <3>6, <3>7, <4>1, <4>2, <5>1
      <4> QED BY <4>3, <4>4
    <3>11. \A d \in W : \E k \in 1..(c + 1) : t[k] = d
      <4>1. SUFFICES ASSUME NEW d \in W PROVE \E k \in 1..(c + 1) : t[k] = d
        OBVIOUS
      <4>2. CASE d = j - 1
        BY <3>8, <4>2
      <4>3. CASE d # j - 1
        <5>1. PICK k \in 1..c : s[k] = d
          BY <3>2, <3>6, <4>3
        <5>2. k \in 1..(c + 1) /\ t[k] = d
          BY <3>7, <5>1
        <5> QED BY <5>2
      <4> QED BY <4>2, <4>3
    <3>12. InOrder(t, W)
      BY <3>4, <3>9, <3>10, <3>11 DEF InOrder
    <3> QED BY <1>3, <3>1, <3>12
  <2> QED BY <2>2, <2>3
<1>6. \A j \in 0..Base : j \in T
    BY <1>0, <1>4, <1>5, UpTo
<1>7. Upto(Base) = U
    BY <1>0, <1>u
<1>8. \E s : InOrder(s, U)
    BY <1>0, <1>3, <1>6, <1>7
<1>9. PICK z : z = (CHOOSE s \in [1..Cardinality(U) -> U] :
                /\ \A i, j \in 1..Cardinality(U) : i < j => s[i] < s[j]
                /\ \A d \in U : \E k \in 1..Cardinality(U) : s[k] = d)
    OBVIOUS
<1>10. InOrder(z, U)
    BY <1>8, <1>9 DEF InOrder
<1>11. z = Sorted(U)
    BY <1>9, Zenon DEF Sorted
<1> QED BY <1>2, <1>10, <1>11

\* A number is made of its last byte and the rest.
LEMMA Shifted ==
  ASSUME NEW n \in Nat
  PROVE  /\ High(n) \in Nat /\ Low(n) \in Nat
         /\ n = High(n) * Byte + Low(n)
<1>0. Byte \in Nat /\ Byte > 0
    BY SetFileAssumption
<1>1. PICK q \in Nat, r \in 0..(Byte - 1) : n \div Byte = q /\ n % Byte = r /\ n = q * Byte + r
    BY <1>0
<1> QED BY <1>1 DEF High, Low

\* What is left after a byte was cut off fits into one byte less.
LEMMA ShiftedFits ==
  ASSUME NEW n \in Nat, NEW m \in Nat, n < Byte * m
  PROVE  High(n) < m
<1>0. Byte \in Nat /\ Byte > 0
    BY SetFileAssumption
<1>1. PICK q \in Nat, r \in Nat : High(n) = q /\ n = q * Byte + r
    BY <1>0, Shifted
<1>2. SUFFICES ASSUME ~ (q < m) PROVE FALSE
    BY <1>1
<1>3. PICK d \in Nat : q = m + d
    BY <1>2
<1>4. q * Byte = m * Byte + d * Byte /\ d * Byte >= 0 /\ m * Byte = Byte * m
    BY <1>0, <1>3
<1>5. m * Byte \in Nat /\ d * Byte \in Nat
    BY <1>0
<1> QED BY <1>1, <1>4, <1>5

\* Numbers in base b.
LEMMA Assoc == ASSUME NEW x \in Nat, NEW b \in Nat, NEW c \in Nat PROVE (x * b) * c = x * (b * c)
OBVIOUS

LEMMA Distr == ASSUME NEW x \in Nat, NEW y \in Nat, NEW b \in Nat PROVE (x + y) * b = x * b + y * b
OBVIOUS

LEMMA Weights ==
  ASSUME NEW b \in Nat, NEW x \in Nat, NEW y \in Nat, NEW z \in Nat
  PROVE  (x * b + y) * b + z = x * (b * b) + y * b + z
<1>1. PICK u \in Nat : u = x * b
    OBVIOUS
<1>2. (u + y) * b = u * b + y * b
    BY Distr
<1>3. u * b = x * (b * b)
    BY <1>1, Assoc
<1> QED BY <1>1, <1>2, <1>3

LEMMA Weights3 ==
  ASSUME NEW b \in Nat, NEW w \in Nat, NEW x \in Nat, NEW y \in Nat, NEW z \in Nat
  PROVE  ((w * b + x) * b + y) * b + z = w * (b * (b * b)) + x * (b * b) + y * b + z
<1>1. PICK v \in Nat : v = w * b + x
    OBVIOUS
<1>2. (v * b + y) * b + z = v * (b * b) + y * b + z
    BY Weights
<1>3. PICK c \in Nat : c = b * b
    OBVIOUS
<1>4. (w * b + x) * c = (w * b) * c + x * c
    BY Distr
<1>5. (w * b) * c = w * (b * c)
    BY Assoc
<1> QED BY <1>1, <1>2, <1>3, <1>4, <1>5

\* Factors and their products.
LEMMA Times == ASSUME NEW x \in Nat, NEW y \in Nat PROVE x * y \in Nat
OBVIOUS

LEMMA MoreTimes ==
  ASSUME NEW x \in Nat, NEW y \in Nat, NEW c \in Nat, x <= y
  PROVE  x * c <= y * c
<1>1. PICK d \in Nat : y = x + d
    OBVIOUS
<1>2. y * c = x * c + d * c
    BY <1>1, Distr
<1>3. x * c \in Nat /\ d * c \in Nat
    BY <1>1, Times
<1> QED BY <1>2, <1>3

\* The levels under the n-th of i levels.
LEMMA LevelsLeft ==
  ASSUME NEW i \in Nat, NEW n \in Nat, n + 1 <= i
  PROVE  (i - n) \in 1..i /\ (i - n) - 1 \in 0..i
OBVIOUS

\* What is packed is unpacked again, if an int has room for it.
LEMMA PackedIs ==
  ASSUME NEW n \in Nat, 2 * n < Byte4, NEW m \in 0..n
  PROVE  /\ MinBytes(n) \in 1..4
         /\ Pack(m, MinBytes(n)) \in ByteSeq
         /\ Len(Pack(m, MinBytes(n))) = MinBytes(n)
         /\ Unpack(Pack(m, MinBytes(n))) = m
<1>0. Byte \in Nat /\ Byte2 \in Nat /\ Byte3 \in Nat /\ m \in Nat
    BY SetFileAssumption DEF Byte2, Byte3
<1> DEFINE h1 == High(m)   l0 == Low(m)
           h2 == High(h1)  l1 == Low(h1)
           h3 == High(h2)  l2 == Low(h2)
           h4 == High(h3)  l3 == Low(h3)
<1>1. h1 \in Nat /\ l0 \in Nat /\ m = h1 * Byte + l0
    BY <1>0, Shifted, Zenon
<1>2. h2 \in Nat /\ l1 \in Nat /\ h1 = h2 * Byte + l1
    BY <1>1, Shifted, Zenon
<1>3. h3 \in Nat /\ l2 \in Nat /\ h2 = h3 * Byte + l2
    BY <1>2, Shifted, Zenon
<1>4. h4 \in Nat /\ l3 \in Nat /\ h3 = h4 * Byte + l3
    BY <1>3, Shifted, Zenon
<1>p. /\ Pack(m, 1) = <<l0>> /\ Pack(m, 2) = <<l1, l0>>
      /\ Pack(m, 3) = <<l2, l1, l0>> /\ Pack(m, 4) = <<l3, l2, l1, l0>>
    BY DEF Pack
<1>a. ASSUME NEW x \in Nat, x < Byte PROVE High(x) = 0
  <2>1. x < Byte * 1
    BY <1>0, <1>a
  <2>2. High(x) \in Nat /\ High(x) < 1
    BY <2>1, Shifted, ShiftedFits
  <2> QED BY <2>2
<1>b. ASSUME NEW x \in Nat, x < Byte2 PROVE High(x) < Byte
    BY <1>0, <1>b, ShiftedFits DEF Byte2
<1>c. ASSUME NEW x \in Nat, x < Byte3 PROVE High(x) < Byte2
    BY <1>0, <1>c, ShiftedFits DEF Byte3
<1>d. ASSUME NEW x \in Nat, x < Byte4 PROVE High(x) < Byte3
    BY <1>0, <1>d, ShiftedFits DEF Byte4
<1>5. PICK b \in Nat : b = Byte
    BY <1>0
<1>f. n < Byte4
  <2>1. Byte4 \in Nat
    BY <1>0, Times DEF Byte4
  <2> QED BY <2>1
<1>t. h1 \in Nat /\ h2 \in Nat /\ h3 \in Nat
    BY <1>1, <1>2, <1>3
<1>6. /\ m < Byte => h1 = 0
      /\ m < Byte2 => h2 = 0
      /\ m < Byte3 => h3 = 0
      /\ m < Byte4 => h4 = 0
    BY <1>0, <1>t, <1>a, <1>b, <1>c, <1>d
<1>z. /\ h1 = 0 => m = l0
      /\ h2 = 0 => h1 = l1
      /\ h3 = 0 => h2 = l2
      /\ h4 = 0 => h3 = l3
  <2>1. 0 * Byte = 0
    BY <1>0
  <2> QED BY <1>1, <1>2, <1>3, <1>4, <2>1
<1>y. m = h1 * b + l0 /\ h1 = h2 * b + l1 /\ h2 = h3 * b + l2
    BY <1>1, <1>2, <1>3, <1>5, Zenon
<1> HIDE DEF h1, h2, h3, h4, l0, l1, l2, l3
<1>7. CASE MinBytes(n) = 1
  <2>1. m < Byte
    BY <1>0, <1>7 DEF MinBytes
  <2>3. m = l0
    BY <1>6, <1>z, <2>1
  <2>4. Unpack(<<l0>>) = l0 /\ <<l0>> \in ByteSeq /\ Len(<<l0>>) = 1
    BY <1>1, <1>2, <1>3, <1>4 DEF Unpack, ByteSeq
  <2> QED BY <1>p, <1>7, <2>3, <2>4
<1>8. CASE MinBytes(n) = 2
  <2>1. m < Byte2
    BY <1>0, <1>8 DEF MinBytes
  <2>3. m = l1 * Byte + l0
    BY <1>1, <1>6, <1>z, <2>1
  <2>4. Unpack(<<l1, l0>>) = l1 * Byte + l0 /\ <<l1, l0>> \in ByteSeq /\ Len(<<l1, l0>>) = 2
    BY <1>1, <1>2, <1>3, <1>4 DEF Unpack, ByteSeq
  <2> QED BY <1>p, <1>8, <2>3, <2>4
<1>9. CASE MinBytes(n) = 3
  <2>1. m < Byte3
    BY <1>0, <1>9 DEF MinBytes
  <2>3. h2 = l2 /\ h1 = l2 * b + l1 /\ m = h1 * b + l0
    BY <1>6, <1>y, <1>z, <2>1
  <2>4. m = l2 * (b * b) + l1 * b + l0
    <3>1. m = (l2 * b + l1) * b + l0
      BY <2>3, Zenon
    <3>2. (l2 * b + l1) * b + l0 = l2 * (b * b) + l1 * b + l0
      <4>1. PICK x \in Nat, y \in Nat, z \in Nat : x = l2 /\ y = l1 /\ z = l0
        BY <1>1, <1>2, <1>3
      <4>2. (x * b + y) * b + z = x * (b * b) + y * b + z
        BY Weights
      <4> QED BY <4>1, <4>2, Zenon
    <3> QED BY <3>1, <3>2, Zenon
  <2>5. /\ Unpack(<<l2, l1, l0>>) = l2 * Byte2 + l1 * Byte + l0
        /\ <<l2, l1, l0>> \in ByteSeq /\ Len(<<l2, l1, l0>>) = 3
    BY <1>1, <1>2, <1>3, <1>4 DEF Unpack, ByteSeq
  <2> QED BY <1>p, <1>5, <1>9, <2>4, <2>5 DEF Byte2
<1>10. CASE MinBytes(n) = 4
  <2>1. Byte4 \in Nat /\ m < Byte4 /\ 2 * m < Byte4
    <3>1. Byte4 \in Nat
      BY <1>0, Times DEF Byte4
    <3> QED BY <1>0, <3>1
  <2>3. h3 = l3 /\ h2 = l3 * b + l2 /\ h1 = h2 * b + l1 /\ m = h1 * b + l0
    BY <1>6, <1>y, <1>z, <2>1
  <2>5. m = l3 * (b * (b * b)) + l2 * (b * b) + l1 * b + l0
    <3>1. m = ((l3 * b + l2) * b + l1) * b + l0
      BY <2>3, Zenon
    <3>2. ((l3 * b + l2) * b + l1) * b + l0 = l3 * (b * (b * b)) + l2 * (b * b) + l1 * b + l0
      <4>1. PICK w \in Nat, x \in Nat, y \in Nat, z \in Nat : w = l3 /\ x = l2 /\ y = l1 /\ z = l0
        BY <1>1, <1>2, <1>3, <1>4
      <4>2. ((w * b + x) * b + y) * b + z = w * (b * (b * b)) + x * (b * b) + y * b + z
        BY Weights3
      <4> QED BY <4>1, <4>2, Zenon
    <3> QED BY <3>1, <3>2, Zenon
  <2>7. 2 * l3 < Byte
    <3>1. PICK c \in Nat, u \in Nat, v \in Nat : /\ c = b * (b * b)
                                               /\ u = l2 * (b * b) /\ v = l1 * b
      <4>1. b * b \in Nat /\ b * (b * b) \in Nat
        BY <1>5, Times
      <4>2. l2 * (b * b) \in Nat /\ l1 * b \in Nat
        BY <1>2, <1>3, <1>5, <4>1, Times
      <4> QED BY <4>1, <4>2
    <3>2. PICK w \in Nat : w = l3
      BY <1>4
    <3>3. w * c \in Nat /\ m = w * c + u + v + l0
      <4>1. w * c \in Nat
        BY <3>1, <3>2, Times
      <4> QED BY <2>5, <3>1, <3>2, <4>1, Zenon
    <3>4. Byte4 = b * c
      BY <1>5, <3>1 DEF Byte4, Byte3, Byte2
    <3>5. ASSUME b <= 2 * w PROVE FALSE
      <4>1. b * c <= (2 * w) * c
        BY <1>5, <3>1, <3>2, <3>5, MoreTimes
      <4>2. (2 * w) * c = 2 * (w * c)
        BY <3>1, <3>2, Assoc
      <4>3. w * c <= m
        BY <1>1, <3>1, <3>3
      <4>4. PICK x \in Nat, y \in Nat : x = w * c /\ y = b * c
        BY <1>5, <3>1, <3>3, Times
      <4> QED BY <1>0, <2>1, <3>4, <4>1, <4>2, <4>3, <4>4
    <3> QED BY <1>5, <3>2, <3>5
  <2>6. /\ Unpack(<<l3, l2, l1, l0>>) = l3 * Byte3 + l2 * Byte2 + l1 * Byte + l0
        /\ <<l3, l2, l1, l0>> \in ByteSeq /\ Len(<<l3, l2, l1, l0>>) = 4
    <3>1. PICK x \in Nat : x = l3 * Byte3 + l2 * Byte2 + l1 * Byte + l0
      <4>1. l3 * Byte3 \in Nat /\ l2 * Byte2 \in Nat /\ l1 * Byte \in Nat
        BY <1>0, <1>2, <1>3, <1>4, Times
      <4> QED BY <1>1, <4>1
    <3>2. Unpack(<<l3, l2, l1, l0>>) = l3 * Byte3 + l2 * Byte2 + l1 * Byte + l0 + 0
      BY <2>7 DEF Unpack
    <3>3. <<l3, l2, l1, l0>> \in ByteSeq /\ Len(<<l3, l2, l1, l0>>) = 4
      BY <1>1, <1>2, <1>3, <1>4 DEF ByteSeq
    <3> QED BY <3>1, <3>2, <3>3
  <2> QED BY <1>p, <1>5, <1>10, <2>5, <2>6 DEF Byte2, Byte3
<1>11. MinBytes(n) \in {1, 2, 3, 4}
    BY DEF MinBytes
<1> QED BY <1>7, <1>8, <1>9, <1>10, <1>11

---------------------------------------------------------------------------
(* What is written is read *)

\* s is in the file at pos.
Written(pos, s) ==
    /\ pos \in Nat /\ s \in ByteSeq /\ pos + Len(s) <= Len(file)
    /\ \A i \in 1..Len(s) : file[pos + i] = s[i]

\* Where a sequence of bytes is, its two parts are.
LEMMA WrittenParts ==
  ASSUME NEW pos, NEW s \in ByteSeq, NEW t \in ByteSeq, Written(pos, s \o t)
  PROVE  Written(pos, s) /\ Written(pos + Len(s), t) /\ Len(s \o t) = Len(s) + Len(t)
<1>1. /\ Len(s) \in Nat /\ Len(t) \in Nat /\ Len(s \o t) = Len(s) + Len(t) /\ pos \in Nat
      /\ pos + Len(s \o t) <= Len(file)
    BY DEF Written, ByteSeq
<1>2. PICK m \in Nat, n \in Nat : m = Len(s) /\ n = Len(t)
    BY <1>1
<1>3. \A i \in 1..(m + n) : file[pos + i] = (s \o t)[i]
    BY <1>1, <1>2 DEF Written
<1>4. ASSUME NEW i \in 1..m PROVE file[pos + i] = s[i]
    BY <1>2, <1>3 DEF ByteSeq
<1>5. ASSUME NEW i \in 1..n PROVE file[pos + m + i] = t[i]
  <2>1. (m + i) \in 1..(m + n) /\ pos + (m + i) = pos + m + i
    BY <1>1
  <2>2. (s \o t)[m + i] = t[i]
    BY <1>2, <2>1 DEF ByteSeq
  <2> QED BY <1>3, <2>1, <2>2
<1>6. pos + m + n <= Len(file)
    BY <1>1, <1>2
<1> QED BY <1>1, <1>2, <1>4, <1>5, <1>6 DEF Written

\* Reading where a sequence of bytes is gives that sequence.
LEMMA WrittenBytes ==
  ASSUME file \in ByteSeq, NEW pos, NEW s, Written(pos, s)
  PROVE  /\ Bytes(pos, Len(s)) = s
         /\ pos + Len(s) <= Len(file)
         /\ \A i \in 1..Len(s) : At(pos + i - 1) = s[i]
<1>1. PICK m \in Nat : m = Len(s) /\ pos \in Nat /\ pos + m <= Len(file) /\ s \in Seq(Nat)
    BY DEF Written, ByteSeq
<1>2. \A i \in 1..m : file[pos + i] = s[i] /\ pos + i - 1 + 1 = pos + i
    BY <1>1 DEF Written
<1>3. \A i \in 1..m : At(pos + i - 1) = s[i]
    BY <1>2 DEF At
<1>4. file \in Seq(Nat)
    BY DEF ByteSeq
<1>5. PICK t : t = SubSeq(file, pos + 1, pos + m)
    OBVIOUS
<1>6. \A i \in (pos + 1)..(pos + m) : file[i] \in Nat
    BY <1>1, <1>4
<1>7. /\ t \in Seq(Nat)
      /\ Len(t) = IF pos + 1 <= pos + m THEN (pos + m) - (pos + 1) + 1 ELSE 0
      /\ \A i \in 1..((pos + m) - (pos + 1) + 1) : t[i] = file[(pos + 1) + i - 1]
    BY <1>1, <1>5, <1>6, SubSeqProperties
<1>8. Len(t) = m
    BY <1>1, <1>7
<1>9. \A i \in 1..m : t[i] = s[i]
  <2>1. \A i \in 1..m : t[i] = file[pos + i]
    BY <1>1, <1>7
  <2> QED BY <1>2, <2>1
<1>10. t = s
    BY <1>1, <1>7, <1>8, <1>9, SeqEqual
<1> QED BY <1>1, <1>3, <1>5, <1>10 DEF Bytes

\* Where joined parts are, each of them is.
LEMMA WrittenJoined ==
  ASSUME NEW pos, NEW parts \in Seq(ByteSeq), Written(pos, Joined(parts))
  PROVE  \A k \in 1..Len(parts) :
            /\ Written(pos + Len(JoinedTo(parts)[k - 1]), parts[k])
            /\ Len(JoinedTo(parts)[k]) = Len(JoinedTo(parts)[k - 1]) + Len(parts[k])
<1>1. PICK n \in Nat : n = Len(parts)
    OBVIOUS
<1>2. PICK c : c = JoinedTo(parts)
    OBVIOUS
<1>3. /\ c \in [0..n -> ByteSeq] /\ Joined(parts) = c[n]
      /\ \A k \in 1..n : c[k] = c[k - 1] \o parts[k] /\ parts[k] \in ByteSeq
  <2>1. /\ JoinedTo(parts) \in [0..Len(parts) -> ByteSeq]
        /\ \A k \in 1..Len(parts) : JoinedTo(parts)[k] = JoinedTo(parts)[k - 1] \o parts[k]
    BY JoinedIs
  <2>2. Joined(parts) = c[n]
    BY <1>1, <1>2 DEF Joined
  <2>3. \A k \in 1..n : parts[k] \in ByteSeq
    BY <1>1
  <2> QED BY <1>1, <1>2, <2>1, <2>2, <2>3
<1>4. PICK T : T = {j \in 0..n : Written(pos, c[n - j])}
    OBVIOUS
<1>5. 0 \in T
    BY <1>3, <1>4
<1>6. ASSUME NEW j \in 1..n, j - 1 \in T PROVE j \in T
  <2>1. PICK k \in 1..n : k = n - (j - 1) /\ k - 1 = n - j
    BY <1>1, SMTT(30)
  <2>2. Written(pos, c[k - 1] \o parts[k])
    BY <1>3, <1>4, <1>6, <2>1
  <2>3. k - 1 \in 0..n /\ c[k - 1] \in ByteSeq /\ parts[k] \in ByteSeq
    BY <1>3
  <2>4. Written(pos, c[k - 1])
    BY <2>2, <2>3, WrittenParts
  <2> QED BY <1>4, <2>1, <2>4
<1>7. \A j \in 0..n : j \in T
    BY <1>5, <1>6, UpTo
<1>8. ASSUME NEW k \in 1..n
      PROVE  Written(pos + Len(c[k - 1]), parts[k]) /\ Len(c[k]) = Len(c[k - 1]) + Len(parts[k])
  <2>1. n - k \in 0..n /\ n - (n - k) = k
    BY <1>1
  <2>2. Written(pos, c[k])
    BY <1>4, <1>7, <2>1
  <2>3. c[k - 1] \in ByteSeq /\ parts[k] \in ByteSeq /\ c[k] = c[k - 1] \o parts[k]
    BY <1>3
  <2> QED BY <2>2, <2>3, WrittenParts
<1> QED BY <1>1, <1>2, <1>8

\* What grows with every step is less before than after.
LEMMA Growing ==
  ASSUME NEW n \in Nat, NEW f \in [0..n -> Nat], \A k \in 1..n : f[k - 1] <= f[k]
  PROVE  \A i, j \in 0..n : i <= j => f[i] <= f[j]
<1> SUFFICES ASSUME NEW i \in 0..n PROVE \A j \in 0..n : i <= j => f[i] <= f[j]
    OBVIOUS
<1>1. PICK T : T = {j \in 0..n : i <= j => f[i] <= f[j]}
    OBVIOUS
<1>2. 0 \in T
  <2>1. i <= 0 => i = 0
    OBVIOUS
  <2>2. f[0] \in Nat
    OBVIOUS
  <2> QED BY <1>1, <2>1, <2>2
<1>3. ASSUME NEW k \in 1..n, k - 1 \in T PROVE k \in T
  <2>1. f[k] \in Nat /\ f[k - 1] \in Nat /\ f[i] \in Nat /\ f[k - 1] <= f[k] /\ k \in 0..n
    OBVIOUS
  <2>2. i <= k - 1 => f[i] <= f[k - 1]
    BY <1>1, <1>3
  <2>3. i <= k => i <= k - 1 \/ i = k
    OBVIOUS
  <2>4. i <= k => f[i] <= f[k]
    BY <2>1, <2>2, <2>3
  <2> QED BY <1>1, <2>1, <2>4
<1>4. \A j \in 0..n : j \in T
    BY <1>2, <1>3, UpTo
<1> QED BY <1>1, <1>4

---------------------------------------------------------------------------
(* Footers *)

\* The largest of some sizes, which the width of a footer's cells is taken from.
LEMMA LargestIs ==
  ASSUME NEW n \in Nat \ {0}, NEW sizes, \A k \in 1..n : sizes[k] \in Nat,
         NEW N \in Nat, \A k \in 1..n : sizes[k] <= N
  PROVE  LET most == Largest({sizes[k] : k \in 1..n})
         IN  most \in Nat /\ most <= N /\ \A k \in 1..n : sizes[k] <= most
<1>1. PICK S : S = {sizes[k] : k \in 1..n}
    OBVIOUS
<1>2. S \subseteq Nat /\ sizes[1] \in S /\ \A x \in S : x <= N
    BY <1>1
<1>3. PICK R : R = {N - x : x \in S}
    OBVIOUS
<1>4. R \subseteq Nat /\ R # {}
    BY <1>2, <1>3
<1>5. PICK r \in R : \A y \in R : r <= y
    BY <1>4, NatMin
<1>6. PICK m \in S : r = N - m
    BY <1>3
<1>7. \A x \in S : x <= m
  <2>1. ASSUME NEW x \in S PROVE x <= m
    <3>1. N - x \in R /\ x \in Nat /\ m \in Nat
      BY <1>2, <1>3
    <3>2. N - m <= N - x
      BY <1>5, <1>6, <3>1
    <3> QED BY <3>1, <3>2
  <2> QED BY <2>1
<1>8. Largest(S) \in S /\ \A x \in S : x <= Largest(S)
    BY <1>7 DEF Largest
<1>9. \A k \in 1..n : sizes[k] \in S
    BY <1>1
<1> QED BY <1>1, <1>2, <1>8, <1>9

\* A packed number is a sequence of bytes.
LEMMA PackType ==
  ASSUME NEW m \in Nat, NEW size
  PROVE  Pack(m, size) \in ByteSeq
<1>1. PICK h1 \in Nat : h1 = High(m) /\ Low(m) \in Nat
    BY Shifted
<1>2. PICK h2 \in Nat : h2 = High(h1) /\ Low(h1) \in Nat
    BY Shifted
<1>3. PICK h3 \in Nat : h3 = High(h2) /\ Low(h2) \in Nat /\ Low(h3) \in Nat
    BY Shifted
<1>4. /\ <<Low(h3), Low(h2), Low(h1), Low(m)>> \in Seq(Nat) /\ <<Low(h2), Low(h1), Low(m)>> \in Seq(Nat)
      /\ <<Low(h1), Low(m)>> \in Seq(Nat) /\ <<Low(m)>> \in Seq(Nat)
    BY <1>1, <1>2, <1>3
<1>5. CASE size = 4
    BY <1>1, <1>2, <1>3, <1>4, <1>5 DEF Pack, ByteSeq
<1>6. CASE size = 3
    BY <1>1, <1>2, <1>4, <1>6 DEF Pack, ByteSeq
<1>7. CASE size = 2
    BY <1>1, <1>4, <1>7 DEF Pack, ByteSeq
<1>8. CASE size # 4 /\ size # 3 /\ size # 2
    BY <1>4, <1>8 DEF Pack, ByteSeq
<1> QED BY <1>5, <1>6, <1>7, <1>8

\* Parts of one size make a table.
LEMMA Rows ==
  ASSUME NEW parts \in Seq(ByteSeq), NEW f \in Nat, \A k \in 1..Len(parts) : Len(parts[k]) = f
  PROVE  \A k \in 0..Len(parts) : Len(JoinedTo(parts)[k]) = k * f
<1>1. PICK n \in Nat : n = Len(parts)
    OBVIOUS
<1>2. PICK T : T = {k \in 0..n : Len(JoinedTo(parts)[k]) = k * f}
    OBVIOUS
<1>3. 0 \in T
  <2>1. JoinedTo(parts)[0] = <<>>
    BY JoinedIs, Zenon
  <2>2. 0 * f = 0 /\ 0 \in 0..n
    OBVIOUS
  <2> QED BY <1>2, <2>1, <2>2
<1>4. ASSUME NEW k \in 1..n, k - 1 \in T PROVE k \in T
  <2>1. JoinedTo(parts) \in [0..n -> ByteSeq] /\ JoinedTo(parts)[k] = JoinedTo(parts)[k - 1] \o parts[k]
    BY <1>1, JoinedIs
  <2>9. parts[k] \in ByteSeq
    BY <1>1
  <2>2. k - 1 \in 0..n /\ k \in 0..n
    OBVIOUS
  <2>3. JoinedTo(parts)[k - 1] \in Seq(Nat) /\ parts[k] \in Seq(Nat)
    BY <2>1, <2>2, <2>9 DEF ByteSeq
  <2>4. Len(JoinedTo(parts)[k]) = Len(JoinedTo(parts)[k - 1]) + Len(parts[k])
    BY <2>1, <2>3
  <2>5. Len(JoinedTo(parts)[k - 1]) = (k - 1) * f /\ Len(parts[k]) = f
    BY <1>1, <1>2, <1>4
  <2>6. PICK j \in Nat : j = k - 1 /\ k = j + 1
    BY <2>2
  <2>7. (j + 1) * f = j * f + f
    BY Distr
  <2> QED BY <1>2, <2>2, <2>4, <2>5, <2>6, <2>7
<1>5. \A k \in 0..n : k \in T
    BY <1>3, <1>4, UpTo
<1> QED BY <1>1, <1>2, <1>5

\* The entries of a footer.
Cells(digits, sizes, keys, cell) ==
    [k \in 1..Len(digits) |-> (IF keys THEN <<Chr(digits[k])>> ELSE <<>>) \o Pack(sizes[k], cell)]
Cell(sizes) == MinBytes(Largest({sizes[k] : k \in 1..Len(sizes)}))

\* A footer: its cells, how many they are where they have keys, and its last two bytes.
LEMMA FooterType ==
  ASSUME NEW digits \in Seq(Nat), NEW sizes \in Seq(Nat), Len(sizes) = Len(digits), NEW keys \in BOOLEAN
  PROVE  /\ Cells(digits, sizes, keys, Cell(sizes)) \in Seq(ByteSeq)
         /\ Footer(digits, sizes, keys) =
              Joined(Cells(digits, sizes, keys, Cell(sizes)))
                \o (IF keys THEN <<Len(digits)>> ELSE <<>>) \o <<Cell(sizes), IF keys THEN 1 ELSE 0>>
         /\ Footer(digits, sizes, keys) \in ByteSeq
<1>1. PICK cells : cells = Cells(digits, sizes, keys, Cell(sizes))
    OBVIOUS
<1>2. Cell(sizes) \in Nat
    BY DEF Cell, MinBytes
<1>3. ASSUME NEW k \in 1..Len(digits)
      PROVE  (IF keys THEN <<Chr(digits[k])>> ELSE <<>>) \o Pack(sizes[k], Cell(sizes)) \in ByteSeq
  <2>1. Pack(sizes[k], Cell(sizes)) \in Seq(Nat)
    BY PackType DEF ByteSeq
  <2>2. (IF keys THEN <<Chr(digits[k])>> ELSE <<>>) \in Seq(Nat)
    BY DEF Chr
  <2> QED BY <2>1, <2>2, ConcatProperties DEF ByteSeq
<1>4. cells \in Seq(ByteSeq)
    BY <1>1, <1>3 DEF Cells
<1>5. Footer(digits, sizes, keys) =
         Joined(cells) \o (IF keys THEN <<Len(digits)>> ELSE <<>>) \o <<Cell(sizes), IF keys THEN 1 ELSE 0>>
    BY <1>1, Zenon DEF Footer, Cells, Cell
<1>6. Joined(cells) \in Seq(Nat)
    BY <1>4, JoinedIs DEF ByteSeq
<1>7. (IF keys THEN <<Len(digits)>> ELSE <<>>) \in Seq(Nat) /\ <<Cell(sizes), IF keys THEN 1 ELSE 0>> \in Seq(Nat)
    BY <1>2
<1>8. Footer(digits, sizes, keys) \in Seq(Nat)
    BY <1>5, <1>6, <1>7, ConcatProperties
<1> QED BY <1>1, <1>4, <1>5, <1>8 DEF ByteSeq

\* From pos to end there is a footer with these entries.
FooterAt(pos, end, digits, sizes) ==
    /\ CellSize(end) \in 1..4 /\ CellSize(end) = At(end - 2)
    /\ NumEntries(end) = Len(digits)
    /\ FooterStart(end) = pos /\ pos <= end - 2
    /\ Entries(end) = [k \in 1..Len(digits) |-> [digit |-> digits[k], size |-> sizes[k]]]

\* What a footer says is what was written into it.
LEMMA FooterRead ==
  ASSUME file \in ByteSeq, 2 * Len(file) < Byte4,
         NEW n \in Nat \ {0}, NEW digits \in Seq(Nat), NEW sizes \in Seq(Nat),
         n = Len(digits), n = Len(sizes),
         \A k \in 1..n : sizes[k] <= Len(file),
         NEW keys \in BOOLEAN,
         ~keys => n = Base /\ \A k \in 1..n : digits[k] = k - 1,
         NEW pos, Written(pos, Footer(digits, sizes, keys)),
         NEW end, end = pos + Len(Footer(digits, sizes, keys))
  PROVE  FooterAt(pos, end, digits, sizes)
<1>1. PICK F \in Nat : F = Len(file) /\ 2 * F < Byte4
    BY DEF ByteSeq
<1>2. \A k \in 1..n : sizes[k] \in Nat /\ digits[k] \in Nat
    BY ElementOfSeq
<1>3. PICK most : most = Largest({sizes[k] : k \in 1..Len(sizes)})
    OBVIOUS
<1>4. most \in Nat /\ most <= F /\ \A k \in 1..n : sizes[k] <= most
  <2>1. \A k \in 1..n : sizes[k] <= F
    BY <1>1
  <2> QED BY <1>1, <1>2, <1>3, <2>1, LargestIs
<1>5. PICK cell : cell = Cell(sizes) /\ cell = MinBytes(most)
    BY <1>3 DEF Cell
<1>6. 2 * most < Byte4
    BY <1>1, <1>4, SetFileAssumption DEF Byte4, Byte3, Byte2
<1>7. ASSUME NEW k \in 1..n
      PROVE  /\ cell \in 1..4 /\ Pack(sizes[k], cell) \in ByteSeq
             /\ Len(Pack(sizes[k], cell)) = cell /\ Unpack(Pack(sizes[k], cell)) = sizes[k]
  <2>1. sizes[k] \in 0..most
    BY <1>2, <1>4
  <2> QED BY <1>4, <1>5, <1>6, <2>1, PackedIs
<1>8. cell \in 1..4
    BY <1>7
<1>9. PICK cells : cells = Cells(digits, sizes, keys, cell)
    OBVIOUS
<1>10. PICK J, K, E : J = Joined(cells) /\ K = (IF keys THEN <<Len(digits)>> ELSE <<>>)
                      /\ E = <<cell, IF keys THEN 1 ELSE 0>>
    OBVIOUS
<1>11. cells \in Seq(ByteSeq) /\ Footer(digits, sizes, keys) = (J \o K) \o E
    BY <1>5, <1>9, <1>10, FooterType
<1>12. J \in Seq(Nat) /\ K \in Seq(Nat) /\ E \in Seq(Nat) /\ Len(E) = 2 /\ E[1] = cell /\ E[2] = (IF keys THEN 1 ELSE 0)
  <2>1. J \in ByteSeq
    BY <1>10, <1>11, JoinedIs
  <2> QED BY <1>8, <1>10, <2>1 DEF ByteSeq
<1>13. PICK kl \in Nat : kl = (IF keys THEN 1 ELSE 0)
    OBVIOUS
<1>k. (keys => kl = 1) /\ (~keys => kl = 0)
    BY <1>13
<1>14. Len(K) = kl /\ (keys => K[1] = n)
    BY <1>10, <1>13
<1>15. J \o K \in Seq(Nat)
    BY <1>12, ConcatProperties
<1>16. Written(pos, J \o K) /\ Written(pos + Len(J \o K), E) /\ end = pos + (Len(J \o K) + 2)
  <2>1. J \o K \in ByteSeq /\ E \in ByteSeq /\ Written(pos, (J \o K) \o E)
    BY <1>11, <1>12, <1>15 DEF ByteSeq
  <2>2. PICK A : A = J \o K
    OBVIOUS
  <2>3. A \in ByteSeq /\ Written(pos, A \o E)
    BY <2>1, <2>2
  <2>4. Written(pos, A) /\ Written(pos + Len(A), E) /\ Len(A \o E) = Len(A) + Len(E)
    BY <2>1, <2>3, WrittenParts
  <2>5. end = pos + (Len(A) + 2)
    BY <1>11, <1>12, <2>2, <2>4
  <2> QED BY <2>2, <2>4, <2>5
<1>17. Written(pos, J) /\ Written(pos + Len(J), K) /\ Len(J \o K) = Len(J) + kl
  <2>1. J \in ByteSeq /\ K \in ByteSeq
    BY <1>12 DEF ByteSeq
  <2>2. Written(pos, J) /\ Written(pos + Len(J), K) /\ Len(J \o K) = Len(J) + Len(K)
    BY <1>16, <2>1, WrittenParts
  <2> QED BY <1>14, <2>2
<1>18. PICK jl \in Nat : jl = Len(J)
    BY <1>12
<1>19. pos \in Nat /\ end = pos + jl + kl + 2 /\ Written(pos + jl + kl, E) /\ Written(pos + jl, K)
  <2>1. pos \in Nat
    BY DEF Written
  <2>2. pos + (jl + kl) = pos + jl + kl
    BY <2>1
  <2> QED BY <1>16, <1>17, <1>18, <2>1, <2>2
<1>b. PICK a \in Nat, b \in Nat : a = pos + jl /\ b = pos + jl + kl /\ b = a + kl /\ end = b + 2
  <2>1. PICK q \in Nat : q = pos
    BY <1>19
  <2>2. q + jl \in Nat /\ q + jl + kl \in Nat /\ q + jl + kl = (q + jl) + kl
    OBVIOUS
  <2>3. end = (q + jl + kl) + 2
    BY <1>19, <2>1
  <2> QED BY <2>1, <2>2, <2>3, Zenon
<1>20. At(end - 1) = kl /\ At(end - 2) = cell
  <2>1. \A i \in 1..2 : At(b + i - 1) = E[i]
    BY <1>12, <1>19, <1>b, WrittenBytes
  <2>2. At(b + 1 - 1) = cell /\ At(b + 2 - 1) = kl
    BY <1>12, <1>13, <2>1
  <2>3. b + 1 - 1 = end - 2 /\ b + 2 - 1 = end - 1
    BY <1>b, SMTT(30)
  <2> QED BY <2>2, <2>3
<1>21. Keyed(end) <=> keys
    BY <1>13, <1>20 DEF Keyed
<1>22. NumEntries(end) = n
  <2>1. CASE keys
    <3>1. \A i \in 1..1 : At(a + i - 1) = K[i]
      BY <1>13, <1>14, <1>19, <1>b, <2>1, WrittenBytes
    <3>2. At(a + 1 - 1) = n
      BY <1>14, <2>1, <3>1
    <3>3. a + 1 - 1 = end - 3
      <4>1. kl = 1
        BY <1>k, <2>1
      <4> QED BY <1>b, <4>1, SMTT(30)
    <3> QED BY <1>21, <2>1, <3>2, <3>3 DEF NumEntries
  <2>2. CASE ~keys
    BY <1>21, <2>2 DEF NumEntries
  <2> QED BY <2>1, <2>2
<1>23. PICK f \in Nat : f = cell + kl
    BY <1>8
<1>24. CellSize(end) = cell /\ FieldSize(end) = f
    BY <1>8, <1>13, <1>20, <1>21, <1>23 DEF CellSize, FieldSize
<1>25. Len(cells) = n
  <2>1. DOMAIN cells = 1..n
    BY <1>9 DEF Cells
  <2> QED BY <1>11, <2>1
<1>26. ASSUME NEW k \in 1..n
       PROVE  /\ cells[k] = (IF keys THEN <<Chr(digits[k])>> ELSE <<>>) \o Pack(sizes[k], cell)
              /\ Len(cells[k]) = f
  <2>1. cells[k] = (IF keys THEN <<Chr(digits[k])>> ELSE <<>>) \o Pack(sizes[k], cell)
    BY <1>9 DEF Cells
  <2>2. PICK c : c = (IF keys THEN <<Chr(digits[k])>> ELSE <<>>)
    OBVIOUS
  <2>3. c \in Seq(Nat) /\ Len(c) = kl
    BY <1>2, <1>13, <2>2, SMTT(30) DEF Chr
  <2>4. Len(c \o Pack(sizes[k], cell)) = kl + cell
    <3>1. Pack(sizes[k], cell) \in Seq(Nat) /\ Len(Pack(sizes[k], cell)) = cell
      BY <1>7 DEF ByteSeq
    <3>2. PICK q \in Seq(Nat), d \in Seq(Nat) : q = Pack(sizes[k], cell) /\ Len(q) = cell /\ d = c
      BY <2>3, <3>1
    <3>3. Len(d \o q) = Len(d) + Len(q)
      OBVIOUS
    <3> QED BY <2>3, <3>2, <3>3
  <2> QED BY <1>8, <1>23, <2>1, <2>2, <2>4
<1>27. \A k \in 0..n : Len(JoinedTo(cells)[k]) = k * f
    BY <1>11, <1>25, <1>26, Rows
<1>28. jl = n * f
    BY <1>10, <1>18, <1>25, <1>27 DEF Joined
<1>29. FooterStart(end) = pos
  <2>1. PICK p \in Nat : p = n * f
    BY <1>28
  <2>2. NumEntries(end) * FieldSize(end) = p
    BY <1>22, <1>24, <2>1
  <2>3. FooterStart(end) = end - (IF keys THEN 3 ELSE 2) - p
    BY <1>21, <2>2 DEF FooterStart
  <2>t. PICK fs : fs = FooterStart(end)
    OBVIOUS
  <2>4. PICK x \in Nat : x = pos /\ fs = FooterStart(end)
    BY <1>19, <2>t
  <2>5. end = x + p + kl + 2
    BY <1>19, <1>28, <2>1, <2>4
  <2>6. CASE keys
    <3>1. fs = end - 3 - p /\ end = x + p + 1 + 2
      BY <1>k, <2>3, <2>4, <2>5, <2>6
    <3> QED BY <2>1, <2>4, <3>1
  <2>7. CASE ~keys
    <3>1. fs = end - 2 - p /\ end = x + p + 0 + 2
      BY <1>k, <2>3, <2>4, <2>5, <2>7
    <3> QED BY <2>1, <2>4, <3>1
  <2> QED BY <2>6, <2>7
<1>30. ASSUME NEW k \in 1..n
       PROVE  \E at \in Nat : /\ at = pos + (k - 1) * f
                              /\ Bytes(at + kl, cell) = Pack(sizes[k], cell)
                              /\ keys => At(at) = Chr(digits[k])
  <2>1. k - 1 \in 0..n
    OBVIOUS
  <2>2. Written(pos + Len(JoinedTo(cells)[k - 1]), cells[k])
    BY <1>10, <1>11, <1>17, <1>25, WrittenJoined
  <2>3. Written(pos + (k - 1) * f, cells[k])
    BY <1>27, <2>1, <2>2
  <2>4. PICK at : at = pos + (k - 1) * f /\ Written(at, cells[k])
    BY <2>3
  <2>5. at \in Nat
    BY <2>4 DEF Written
  <2>6. PICK c, q : c = (IF keys THEN <<Chr(digits[k])>> ELSE <<>>) /\ q = Pack(sizes[k], cell)
    OBVIOUS
  <2>7. c \in ByteSeq /\ Len(c) = kl /\ q \in ByteSeq /\ Len(q) = cell /\ (keys => c[1] = Chr(digits[k]))
    BY <1>2, <1>7, <1>13, <2>6, SMTT(30) DEF Chr, ByteSeq
  <2>8. Written(at, c \o q)
    BY <1>26, <2>4, <2>6
  <2>9. Written(at, c) /\ Written(at + kl, q)
    BY <2>7, <2>8, WrittenParts
  <2>10. Bytes(at + kl, cell) = q
    BY <2>7, <2>9, WrittenBytes
  <2>11. keys => At(at) = Chr(digits[k])
    <3> SUFFICES ASSUME keys PROVE At(at) = Chr(digits[k])
      OBVIOUS
    <3>1. \A i \in 1..1 : At(at + i - 1) = c[i]
      BY <1>13, <2>7, <2>9, WrittenBytes
    <3>2. At(at + 1 - 1) = c[1] /\ at + 1 - 1 = at
      BY <2>5, <3>1
    <3> QED BY <2>7, <3>2
  <2> QED BY <2>4, <2>5, <2>6, <2>10, <2>11
<1>31. ASSUME NEW k \in 1..n
       PROVE  (IF Keyed(end) THEN [digit |-> DigitOf(At(FooterStart(end) + (k - 1) * FieldSize(end))),
                                   size |-> Unpack(Bytes(FooterStart(end) + (k - 1) * FieldSize(end) + 1, CellSize(end)))]
               ELSE [digit |-> k - 1, size |-> Unpack(Bytes(FooterStart(end) + (k - 1) * FieldSize(end), CellSize(end)))])
              = [digit |-> digits[k], size |-> sizes[k]]
  <2>1. PICK at \in Nat : /\ at = pos + (k - 1) * f
                          /\ Bytes(at + kl, cell) = Pack(sizes[k], cell)
                          /\ keys => At(at) = Chr(digits[k])
    BY <1>30
  <2>2. FooterStart(end) + (k - 1) * FieldSize(end) = at
    BY <1>24, <1>29, <2>1
  <2>3. Unpack(Bytes(at + kl, CellSize(end))) = sizes[k]
    BY <1>7, <1>24, <2>1
  <2>4. CASE keys
    <3>1. DigitOf(Chr(digits[k])) = digits[k]
      BY <1>2 DEF DigitOf, Chr
    <3> QED BY <1>13, <1>21, <2>1, <2>2, <2>3, <2>4, <3>1
  <2>5. CASE ~keys
    <3>1. at + kl = at
      BY <1>13, <2>5
    <3> QED BY <1>21, <2>2, <2>3, <2>5, <3>1
  <2> QED BY <2>4, <2>5
<1>32. Entries(end) = [k \in 1..n |-> [digit |-> digits[k], size |-> sizes[k]]]
    BY <1>22, <1>31 DEF Entries
<1>33. pos <= end - 2
    BY <1>19
<1> QED BY <1>8, <1>20, <1>22, <1>24, <1>29, <1>32, <1>33 DEF FooterAt

---------------------------------------------------------------------------
(* Tables *)

\* The digits a footer lists: each of those in use once, all of them without keys.
LEMMA ListedIs ==
  ASSUME NEW used \in SUBSET AllDigits, used # {}
  PROVE  /\ UseKeys(used) \in BOOLEAN
         /\ Listed(used) \in Seq(AllDigits)
         /\ Len(Listed(used)) \in Nat \ {0}
         /\ \A d \in used : \E k \in 1..Len(Listed(used)) : Listed(used)[k] = d
         /\ \A j, k \in 1..Len(Listed(used)) : Listed(used)[j] = Listed(used)[k] => j = k
         /\ ~UseKeys(used) => Len(Listed(used)) = Base /\ \A k \in 1..Len(Listed(used)) : Listed(used)[k] = k - 1
<1>1. UseKeys(used) \in BOOLEAN
    BY DEF UseKeys
<1>2. CASE UseKeys(used)
  <2>1. PICK s : s = Sorted(used) /\ Listed(used) = s
    BY <1>2 DEF Listed
  <2>2. PICK c \in Nat : c = Cardinality(used)
    BY SortedIs
  <2>3. /\ s \in [1..c -> used] /\ \A i, j \in 1..c : i < j => s[i] < s[j]
        /\ \A d \in used : \E k \in 1..c : s[k] = d
    BY <2>1, <2>2, SortedIs DEF InOrder
  <2>4. s \in Seq(AllDigits) /\ Len(s) = c
    BY <2>3
  <2>5. c # 0
    BY <2>3
  <2>6. \A k \in 1..c : s[k] \in Nat
    <3>1. \A d \in used : d \in Nat
      BY SetFileAssumption DEF AllDigits
    <3> QED BY <2>3, <3>1
  <2>7. ASSUME NEW j \in 1..c, NEW k \in 1..c, s[j] = s[k] PROVE j = k
    <3>1. ~ (s[j] < s[k]) /\ ~ (s[k] < s[j])
      BY <2>6, <2>7
    <3>2. ~ (j < k) /\ ~ (k < j)
      BY <2>3, <3>1
    <3> QED BY <3>2
  <2> QED BY <1>1, <1>2, <2>1, <2>3, <2>4, <2>5, <2>7
<1>3. CASE ~UseKeys(used)
  <2>1. PICK s : s = [k \in 1..Base |-> k - 1] /\ Listed(used) = s
    BY <1>3 DEF Listed
  <2>2. Base \in Nat \ {0}
    BY SetFileAssumption
  <2>3. \A k \in 1..Base : s[k] = k - 1 /\ s[k] \in AllDigits
    BY <2>1, <2>2 DEF AllDigits
  <2>4. s \in Seq(AllDigits) /\ Len(s) = Base
    BY <2>1, <2>2, <2>3
  <2>5. ASSUME NEW d \in used PROVE \E k \in 1..Base : s[k] = d
    <3>1. d \in 0..(Base - 1)
      BY DEF AllDigits
    <3>2. d + 1 \in 1..Base /\ d + 1 - 1 = d
      BY <2>2, <3>1
    <3>3. s[d + 1] = d
      BY <2>3, <3>1, <3>2
    <3> QED BY <3>2, <3>3
  <2>6. \A j, k \in 1..Base : s[j] = s[k] => j = k
    BY <2>2, <2>3
  <2> QED BY <1>1, <1>3, <2>1, <2>2, <2>3, <2>4, <2>5, <2>6
<1> QED BY <1>1, <1>2, <1>3

\* The parts of a table are those of the digits in use, and nothing for the others.
LEMMA PartsAre ==
  ASSUME NEW used \in SUBSET AllDigits, used # {}, NEW part \in [used -> ByteSeq]
  PROVE  /\ Parts(used, part) \in Seq(ByteSeq) /\ Len(Parts(used, part)) = Len(Listed(used))
         /\ \A k \in 1..Len(Listed(used)) :
               Parts(used, part)[k] = IF Listed(used)[k] \in used THEN part[Listed(used)[k]] ELSE <<>>
         /\ Joined(Parts(used, part)) \in ByteSeq
         /\ Footer(Listed(used), Lengths(Parts(used, part)), UseKeys(used)) \in ByteSeq
         /\ Table(used, part) \in ByteSeq
<1>1. PICK digits \in Seq(AllDigits), n \in Nat : digits = Listed(used) /\ n = Len(digits)
  <2>1. Len(Listed(used)) \in Nat
    BY ListedIs
  <2>2. Listed(used) \in Seq(AllDigits)
    BY ListedIs
  <2> QED BY <2>1, <2>2
<1>2. PICK parts : parts = [k \in 1..n |-> IF digits[k] \in used THEN part[digits[k]] ELSE <<>>]
    OBVIOUS
<1>3. parts = Parts(used, part)
    BY <1>1, <1>2, Zenon DEF Parts
<1>4. \A k \in 1..n : parts[k] \in ByteSeq
    BY <1>2 DEF ByteSeq
<1>5. parts \in Seq(ByteSeq) /\ Len(parts) = n
    BY <1>2, <1>4
<1>6. Joined(parts) \in ByteSeq /\ Lengths(parts) \in Seq(Nat) /\ Len(Lengths(parts)) = n
    BY <1>5, JoinedIs, JoinedSizes
<1>7. digits \in Seq(Nat)
    BY <1>1, ListedIs, SetFileAssumption DEF AllDigits
<1>8. UseKeys(used) \in BOOLEAN
    BY DEF UseKeys
<1>9. PICK foot : foot = Footer(digits, Lengths(parts), UseKeys(used)) /\ foot \in ByteSeq
    BY <1>1, <1>6, <1>7, <1>8, FooterType
<1>10. Table(used, part) = Joined(parts) \o foot
    BY <1>1, <1>3, <1>9 DEF Table
<1>11. Joined(parts) \o foot \in ByteSeq
    BY <1>6, <1>9, ConcatProperties DEF ByteSeq
<1> QED BY <1>1, <1>2, <1>3, <1>5, <1>6, <1>9, <1>10, <1>11

\* From pos to end there is the table of the parts of the digits used.
TableAt(pos, end, used, part) ==
    /\ CellSize(end) \in 1..4 /\ CellSize(end) = At(end - 2)
    /\ pos \in Nat /\ pos < end /\ pos <= FooterStart(end)
    /\ StartOf(end, NumEntries(end) + 1, pos) = FooterStart(end)
    /\ NumEntries(end) \in Nat
    /\ Entries(end) \in [1..NumEntries(end) -> [digit : AllDigits, size : Nat]]
    /\ \A k \in 1..NumEntries(end) :
          Entries(end)[k].size = IF Entries(end)[k].digit \in used THEN Len(part[Entries(end)[k].digit]) ELSE 0
    /\ \A k \in 1..NumEntries(end) : Entries(end)[k].digit \in used =>
          Written(StartOf(end, k, pos), part[Entries(end)[k].digit])
    /\ \A d \in used : \E k \in 1..NumEntries(end) : Entries(end)[k].digit = d
    /\ \A j, k \in 1..NumEntries(end) : Entries(end)[j].digit = Entries(end)[k].digit => j = k

\* What was written as a table is read as one.
LEMMA TableRead ==
  ASSUME file \in ByteSeq, 2 * Len(file) < Byte4,
         NEW used \in SUBSET AllDigits, used # {}, NEW part \in [used -> ByteSeq],
         NEW pos, Written(pos, Table(used, part))
  PROVE  TableAt(pos, pos + Len(Table(used, part)), used, part)
<1>1. PICK digits \in Seq(AllDigits), n \in Nat \ {0} : digits = Listed(used) /\ n = Len(digits)
  <2>1. Len(Listed(used)) \in Nat \ {0}
    BY ListedIs
  <2>2. Listed(used) \in Seq(AllDigits)
    BY ListedIs
  <2> QED BY <2>1, <2>2
<1>2. PICK keys \in BOOLEAN : keys = UseKeys(used)
    BY ListedIs
<1>3. /\ digits \in Seq(AllDigits) /\ \A d \in used : \E k \in 1..n : digits[k] = d
      /\ \A j, k \in 1..n : digits[j] = digits[k] => j = k
      /\ ~keys => n = Base /\ \A k \in 1..n : digits[k] = k - 1
    BY <1>1, <1>2, ListedIs
<1>4. PICK parts : parts = Parts(used, part)
    OBVIOUS
<1>5. /\ parts \in Seq(ByteSeq) /\ Len(parts) = n /\ Joined(parts) \in ByteSeq
      /\ \A k \in 1..n : parts[k] = IF digits[k] \in used THEN part[digits[k]] ELSE <<>>
    BY <1>1, <1>4, PartsAre
<1>6. PICK foot : foot = Footer(digits, Lengths(parts), keys) /\ foot \in ByteSeq /\ Table(used, part) = Joined(parts) \o foot
    BY <1>1, <1>2, <1>4, PartsAre DEF Table
<1>7. PICK J : J = Joined(parts) /\ J \in ByteSeq
    BY <1>5
<1>8. Written(pos, J \o foot)
    BY <1>6, <1>7
<1>9. Written(pos, J) /\ Written(pos + Len(J), foot) /\ Len(J \o foot) = Len(J) + Len(foot)
    BY <1>6, <1>7, <1>8, WrittenParts
<1>10. PICK p \in Nat, jl \in Nat, fl \in Nat, F \in Nat : p = pos /\ jl = Len(J) /\ fl = Len(foot) /\ F = Len(file)
  <2>1. pos \in Nat /\ Len(J) \in Nat /\ Len(foot) \in Nat /\ Len(file) \in Nat
    BY <1>6, <1>7 DEF Written, ByteSeq
  <2> QED BY <2>1
<1>11. PICK end : end = pos + Len(Table(used, part))
    OBVIOUS
<1>12. end = (pos + Len(J)) + Len(foot)
    BY <1>6, <1>7, <1>9, <1>10, <1>11
<1>13. PICK sizes : sizes = Lengths(parts)
    OBVIOUS
<1>14. sizes \in Seq(Nat) /\ Len(sizes) = n /\ \A k \in 1..n : sizes[k] = Len(parts[k])
  <2>1. \A k \in 1..n : Lengths(parts)[k] = Len(parts[k])
    BY <1>5 DEF Lengths
  <2> QED BY <1>5, <1>13, <2>1, JoinedSizes
<1>15. PICK total : total = TotalTo(sizes)
    OBVIOUS
<1>16. /\ total \in [0..n -> Nat] /\ \A k \in 0..n : total[k] = Len(JoinedTo(parts)[k])
       /\ \A k \in 1..n : total[k] = total[k - 1] + sizes[k]
    BY <1>5, <1>13, <1>14, <1>15, JoinedSizes, TotalIs
<1>17. total[n] = jl
    BY <1>5, <1>7, <1>10, <1>16 DEF Joined
<1>18. \A k \in 1..n : Written(pos + total[k - 1], parts[k])
  <2>1. \A k \in 1..n : Written(pos + Len(JoinedTo(parts)[k - 1]), parts[k])
    BY <1>5, <1>7, <1>9, WrittenJoined
  <2>2. \A k \in 1..n : k - 1 \in 0..n
    OBVIOUS
  <2> QED BY <1>16, <2>1, <2>2
<1>19. \A k \in 1..n : sizes[k] <= Len(file)
  <2>1. SUFFICES ASSUME NEW k \in 1..n PROVE sizes[k] <= F
    BY <1>10
  <2>2. k - 1 \in 0..n /\ total[k - 1] \in Nat /\ sizes[k] \in Nat
    BY <1>14, <1>16
  <2>3. (pos + total[k - 1]) + Len(parts[k]) <= Len(file)
    BY <1>18 DEF Written
  <2> QED BY <1>10, <1>14, <2>2, <2>3, SMTT(30)
<1>20. digits \in Seq(Nat)
    BY <1>3, SetFileAssumption DEF AllDigits
<1>21. PICK at : at = pos + Len(J) /\ Written(at, foot) /\ end = at + Len(foot) /\ at \in Nat
    BY <1>9, <1>12 DEF Written
<1>22. /\ CellSize(end) \in 1..4 /\ CellSize(end) = At(end - 2)
       /\ NumEntries(end) = n /\ FooterStart(end) = at /\ at <= end - 2
       /\ Entries(end) = [k \in 1..n |-> [digit |-> digits[k], size |-> sizes[k]]]
  <2>1. foot = Footer(digits, sizes, keys)
    BY <1>6, <1>13
  <2>2. Written(at, Footer(digits, sizes, keys)) /\ end = at + Len(Footer(digits, sizes, keys))
    BY <1>21, <2>1
  <2>3. n \in Nat \ {0} /\ n = Len(digits) /\ n = Len(sizes)
    BY <1>1, <1>14
  <2>4. /\ file \in ByteSeq /\ 2 * Len(file) < Byte4 /\ n \in Nat \ {0} /\ digits \in Seq(Nat) /\ sizes \in Seq(Nat)
        /\ n = Len(digits) /\ n = Len(sizes) /\ keys \in BOOLEAN
    BY <1>14, <1>20, <2>3
  <2>5. \A k \in 1..n : sizes[k] <= Len(file)
    BY <1>19
  <2>6. ~keys => n = Base /\ \A k \in 1..n : digits[k] = k - 1
    BY <1>3
  <2>7. FooterAt(at, end, digits, sizes)
    BY <2>2, <2>4, <2>5, <2>6, FooterRead
  <2> QED BY <1>1, <2>7 DEF FooterAt
<1>23. PICK list : list = Entries(end)
    OBVIOUS
<1>24. \A k \in 1..n : list[k].digit = digits[k] /\ list[k].size = sizes[k]
    BY <1>22, <1>23
<1>25. Sizes(end) = sizes
  <2>1. Len(list) = n
    BY <1>22, <1>23
  <2>2. Sizes(end) = [k \in 1..n |-> list[k].size]
    BY <1>23, <2>1 DEF Sizes
  <2>3. sizes = [k \in 1..n |-> sizes[k]]
    BY <1>14
  <2> QED BY <1>24, <2>2, <2>3
<1>26. \A k \in 1..(n + 1) : StartOf(end, k, pos) = pos + total[k - 1]
    BY <1>15, <1>25 DEF StartOf
<1>27. StartOf(end, n + 1, pos) = FooterStart(end)
  <2>1. n + 1 \in 1..(n + 1) /\ (n + 1) - 1 = n
    BY <1>1
  <2>2. StartOf(end, n + 1, pos) = pos + total[(n + 1) - 1]
    BY <1>26, <2>1
  <2> QED BY <1>10, <1>17, <1>21, <1>22, <2>1, <2>2
<1>28. pos \in Nat /\ pos < end /\ pos <= at
  <2>1. at = p + jl /\ at <= end - 2 /\ end = at + fl
    BY <1>10, <1>21, <1>22
  <2> QED BY <1>10, <2>1
<1>29. \A k \in 1..n : digits[k] \in AllDigits /\ sizes[k] \in Nat
    BY <1>1, <1>3, <1>14, ElementOfSeq
<1>30. list \in [1..n -> [digit : AllDigits, size : Nat]]
    BY <1>22, <1>23, <1>29
<1>31. \A k \in 1..n : list[k].size = IF list[k].digit \in used THEN Len(part[list[k].digit]) ELSE 0
    BY <1>5, <1>14, <1>24
<1>32. ASSUME NEW k \in 1..n, list[k].digit \in used
       PROVE  Written(StartOf(end, k, pos), part[list[k].digit])
  <2>1. k \in 1..(n + 1)
    OBVIOUS
  <2> QED BY <1>5, <1>18, <1>24, <1>26, <1>32, <2>1
<1>33. \A d \in used : \E k \in 1..n : list[k].digit = d
    BY <1>3, <1>24
<1>34. \A j, k \in 1..n : list[j].digit = list[k].digit => j = k
    BY <1>3, <1>24
<1>35. TableAt(pos, end, used, part)
    BY <1>22, <1>23, <1>27, <1>28, <1>30, <1>31, <1>32, <1>33, <1>34 DEF TableAt
<1> QED BY <1>11, <1>35

\* Two finite sets whose elements go in pairs have as many elements.
LEMMA InPairs ==
  ASSUME NEW K, NEW U, IsFiniteSet(K), NEW f \in [K -> U],
         \A j, k \in K : f[j] = f[k] => j = k, \A u \in U : \E k \in K : f[k] = u
  PROVE  IsFiniteSet(U) /\ Cardinality(U) = Cardinality(K)
<1>1. f \in Bijection(K, U)
    BY DEF Bijection, Injection, Surjection, IsInjective
<1>2. ExistsBijection(K, U)
    BY <1>1 DEF ExistsBijection
<1> QED BY <1>2, FS_Bijection

\* The calls for the elements of a set.
CallsFor(F, S) == Called({F[x] : x \in S}, Cardinality(S))

\* Calls for disjoint sets of elements are the calls for all of them.
LEMMA GatheredSets ==
  ASSUME NEW D, IsFiniteSet(D), NEW F, NEW n \in Nat, NEW A \in [1..n -> SUBSET D],
         \A j, k \in 1..n : j # k => A[j] \cap A[k] = {},
         NEW results, DOMAIN results = 1..n, results = [k \in DOMAIN results |-> results[k]],
         \A k \in 1..n : results[k] = CallsFor(F, A[k])
  PROVE  Gathered(results) = CallsFor(F, UNION {A[k] : k \in 1..n})
<1>0. \A S \in SUBSET D : IsFiniteSet(S) /\ Cardinality(S) \in Nat
    BY FS_Subset, FS_CardinalityType
<1>1. \A k \in 1..n : results[k] = Called({F[x] : x \in A[k]}, Cardinality(A[k]))
    BY DEF CallsFor
<1>2. PICK X : X = {F[x] : x \in D}
    OBVIOUS
<1>3. \A k \in 1..n : results[k] \in Calls(X)
  <2>1. SUFFICES ASSUME NEW k \in 1..n PROVE results[k] \in Calls(X)
    OBVIOUS
  <2>2. A[k] \in SUBSET D
    OBVIOUS
  <2>3. PICK r, m : r = {F[x] : x \in A[k]} /\ m = Cardinality(A[k])
    OBVIOUS
  <2>4. r \in SUBSET X /\ m \in Nat
    BY <1>0, <1>2, <2>2, <2>3
  <2>5. results[k] = Called(r, m)
    BY <1>1, <2>3
  <2> QED BY <2>4, <2>5 DEF Calls
<1>4. results \in Seq(Calls(X)) /\ Len(results) = n
  <2>1. results \in [1..n -> Calls(X)]
    BY <1>3
  <2> QED BY <2>1
<1>5. PICK u : /\ u \in [0..n -> Calls(X)] /\ u[0] = Called({}, 0)
               /\ \A k \in 1..n : u[k] = Plus(u[k - 1], results[k])
               /\ Gathered(results) = u[n]
    BY <1>4, GatheredIs
<1>6. PICK W : W = [k \in 0..n |-> UNION {A[j] : j \in 1..k}]
    OBVIOUS
<1>7. \A k \in 0..n : W[k] \in SUBSET D
    BY <1>6
<1>8. PICK T : T = {k \in 0..n : u[k] = Called({F[x] : x \in W[k]}, Cardinality(W[k]))}
    OBVIOUS
<1>9. 0 \in T
  <2>1. W[0] = {}
    BY <1>6
  <2>2. {F[x] : x \in W[0]} = {} /\ Cardinality(W[0]) = 0
    BY <2>1, FS_EmptySet
  <2>3. 0 \in 0..n
    OBVIOUS
  <2>4. u[0] = Called({F[x] : x \in W[0]}, Cardinality(W[0]))
    BY <1>5, <2>2, Zenon
  <2> QED BY <1>8, <2>3, <2>4
<1>10. ASSUME NEW k \in 1..n, k - 1 \in T PROVE k \in T
  <2>1. k \in 0..n /\ k - 1 \in 0..n
    OBVIOUS
  <2>2. W[k] = W[k - 1] \cup A[k]
    <3>1. 1..k = 1..(k - 1) \cup {k}
      OBVIOUS
    <3>2. W[k] = UNION {A[j] : j \in 1..k} /\ W[k - 1] = UNION {A[j] : j \in 1..(k - 1)}
      BY <1>6, <2>1
    <3> QED BY <3>1, <3>2
  <2>3. W[k - 1] \cap A[k] = {}
    <3>1. \A j \in 1..(k - 1) : j \in 1..n /\ j # k
      OBVIOUS
    <3>2. \A j \in 1..(k - 1) : A[j] \cap A[k] = {}
      BY <3>1
    <3>3. W[k - 1] = UNION {A[j] : j \in 1..(k - 1)}
      BY <1>6, <2>1
    <3> QED BY <3>2, <3>3
  <2>4. W[k - 1] \in SUBSET D /\ A[k] \in SUBSET D
    BY <1>7, <2>1
  <2>5. PICK a \in Nat, b \in Nat : a = Cardinality(W[k - 1]) /\ b = Cardinality(A[k])
    BY <1>0, <2>4
  <2>6. Cardinality(W[k]) = a + b
    <3>1. IsFiniteSet(W[k - 1]) /\ IsFiniteSet(A[k])
      BY <1>0, <2>4
    <3>2. Cardinality(W[k]) = Cardinality(W[k - 1]) + Cardinality(A[k]) - Cardinality(W[k - 1] \cap A[k])
      BY <2>2, <3>1, FS_Union
    <3>3. Cardinality(W[k - 1] \cap A[k]) = 0
      BY <2>3, FS_EmptySet
    <3> QED BY <2>5, <3>2, <3>3
  <2>7. PICK r, s : r = {F[x] : x \in W[k - 1]} /\ s = {F[x] : x \in A[k]}
    OBVIOUS
  <2>8. u[k - 1] = Called(r, a) /\ results[k] = Called(s, b)
    BY <1>1, <1>8, <1>10, <2>5, <2>7
  <2>9. u[k - 1] \in Calls(X) /\ results[k] \in Calls(X)
    BY <1>3, <1>5, <2>1
  <2>10. u[k] = Called(r \cup s, a + b)
    <3>1. u[k] = Called(u[k - 1].recs \cup results[k].recs, u[k - 1].num + results[k].num)
      <4>1. u[k] = Plus(u[k - 1], results[k])
        BY <1>5
      <4>2. Plus(u[k - 1], results[k]) = Called(u[k - 1].recs \cup results[k].recs, u[k - 1].num + results[k].num)
        BY <2>9, PlusCalls, ZenonT(40)
      <4> QED BY <4>1, <4>2, Zenon
    <3>2. Called(r, a).recs = r /\ Called(r, a).num = a /\ Called(s, b).recs = s /\ Called(s, b).num = b
      BY DEF Called
    <3> QED BY <2>8, <3>1, <3>2
  <2>11. r \cup s = {F[x] : x \in W[k]}
    BY <2>2, <2>7
  <2> QED BY <1>8, <2>1, <2>6, <2>10, <2>11
<1>11. \A k \in 0..n : k \in T
    BY <1>9, <1>10, UpTo
<1>12. u[n] = Called({F[x] : x \in W[n]}, Cardinality(W[n])) /\ W[n] = UNION {A[k] : k \in 1..n}
    BY <1>6, <1>8, <1>11
<1> QED BY <1>5, <1>12, Zenon DEF CallsFor

\* A digit of a table has one entry.
LEMMA EntryOf ==
  ASSUME NEW pos, NEW end, NEW used, NEW part, TableAt(pos, end, used, part),
         NEW d \in used, part[d] \in ByteSeq, part[d] # <<>>
  PROVE  \E k \in 1..NumEntries(end) :
            /\ EntriesWith(end, d) = {k} /\ Entries(end)[k].digit = d
            /\ Entries(end)[k].size = Len(part[d]) /\ Entries(end)[k].size > 0
            /\ Written(StartOf(end, k, pos), part[d])
<1>1. PICK k \in 1..NumEntries(end) : Entries(end)[k].digit = d
    BY DEF TableAt
<1>2. Entries(end)[k].size = Len(part[d]) /\ Written(StartOf(end, k, pos), part[d])
    BY <1>1 DEF TableAt
<1>3. Len(part[d]) > 0
    BY DEF ByteSeq
<1>4. EntriesWith(end, d) = {k}
    BY <1>1, <1>2, <1>3 DEF EntriesWith, TableAt
<1> QED BY <1>1, <1>2, <1>3, <1>4

\* No part of a table begins before the table.
LEMMA StartsAfter ==
  ASSUME NEW pos, NEW end, NEW used, NEW part, TableAt(pos, end, used, part)
  PROVE  \A k \in 1..(NumEntries(end) + 1) : StartOf(end, k, pos) \in Nat /\ StartOf(end, k, pos) >= pos
<1>1. PICK n \in Nat : n = NumEntries(end)
    BY DEF TableAt
<1>2. PICK list : list = Entries(end)
    OBVIOUS
<1>3. list \in [1..n -> [digit : AllDigits, size : Nat]] /\ pos \in Nat
    BY <1>1, <1>2 DEF TableAt
<1>4. PICK sizes : sizes = [k \in 1..n |-> list[k].size]
    OBVIOUS
<1>5. sizes = Sizes(end)
  <2>1. Len(list) = n
    BY <1>3
  <2> QED BY <1>2, <1>4, <2>1 DEF Sizes
<1>6. sizes \in Seq(Nat) /\ Len(sizes) = n
  <2>1. \A k \in 1..n : list[k].size \in Nat
    BY <1>3
  <2> QED BY <1>4, <2>1
<1>7. TotalTo(sizes) \in [0..n -> Nat]
    BY <1>6, TotalIs
<1>8. SUFFICES ASSUME NEW k \in 1..(n + 1)
               PROVE  StartOf(end, k, pos) \in Nat /\ StartOf(end, k, pos) >= pos
    BY <1>1
<1>9. PICK m \in Nat : m = TotalTo(sizes)[k - 1]
  <2>1. k - 1 \in 0..n
    OBVIOUS
  <2> QED BY <1>7, <2>1
<1>10. StartOf(end, k, pos) = pos + m
    BY <1>5, <1>9 DEF StartOf
<1> QED BY <1>3, <1>10

\* Records read from a table.
LEMMA TableElems ==
  ASSUME NEW p, NEW pos, NEW payload \in Nat \ {0}, NEW used, NEW part,
         TableAt(pos, pos + payload, used, part), file \in ByteSeq,
         \A d \in used : part[d] \in ByteSeq /\ part[d] # <<>>
  PROVE  /\ ~IsLinear(pos, payload)
         /\ UnmarshallElems(p, pos, payload) =
              Called({Rec(Append(p, d), part[d]) : d \in used}, Cardinality(used))
<1>1. PICK end : end = pos + payload
    OBVIOUS
<1>2. /\ CellSize(end) \in 1..4 /\ CellSize(end) = At(end - 2)
      /\ pos \in Nat /\ pos < end /\ pos <= FooterStart(end)
      /\ StartOf(end, NumEntries(end) + 1, pos) = FooterStart(end)
    BY <1>1 DEF TableAt
<1>3. PICK n \in Nat : n = NumEntries(end)
    BY <1>1 DEF TableAt
<1>4. PICK list : list = Entries(end)
    OBVIOUS
<1>5. /\ list \in [1..n -> [digit : AllDigits, size : Nat]]
      /\ \A k \in 1..n : list[k].size = IF list[k].digit \in used THEN Len(part[list[k].digit]) ELSE 0
      /\ \A k \in 1..n : list[k].digit \in used => Written(StartOf(end, k, pos), part[list[k].digit])
      /\ \A d \in used : \E k \in 1..n : list[k].digit = d
      /\ \A j, k \in 1..n : list[j].digit = list[k].digit => j = k
    BY <1>1, <1>3, <1>4 DEF TableAt
<1>6. ~IsLinear(pos, payload)
  <2>1. pos + (payload - 2) = end - 2
    BY <1>1, <1>2
  <2>2. At(pos + (payload - 2)) \in 1..4
    BY <1>2, <2>1
  <2> QED BY <2>2 DEF IsLinear
<1>7. \A d \in used : Len(part[d]) > 0
    BY DEF ByteSeq
<1>8. PICK K : K = {k \in 1..n : list[k].size > 0}
    OBVIOUS
<1>9. \A k \in 1..n : k \in K <=> list[k].digit \in used
    BY <1>5, <1>7, <1>8
<1>10. \A k \in K : Bytes(StartOf(end, k, pos), list[k].size) = part[list[k].digit]
  <2>1. SUFFICES ASSUME NEW k \in K PROVE Bytes(StartOf(end, k, pos), list[k].size) = part[list[k].digit]
    OBVIOUS
  <2>2. k \in 1..n /\ list[k].digit \in used
    BY <1>8, <1>9
  <2>3. Written(StartOf(end, k, pos), part[list[k].digit]) /\ list[k].size = Len(part[list[k].digit])
    BY <1>5, <2>2
  <2> QED BY <2>3, WrittenBytes
<1>11. {Rec(Append(p, list[k].digit), Bytes(StartOf(end, k, pos), list[k].size)) : k \in K}
          = {Rec(Append(p, d), part[d]) : d \in used}
  <2>1. PICK f : f = [d \in used |-> Rec(Append(p, d), part[d])]
    OBVIOUS
  <2>2. \A k \in K : Rec(Append(p, list[k].digit), Bytes(StartOf(end, k, pos), list[k].size)) = f[list[k].digit]
    BY <1>8, <1>9, <1>10, <2>1
  <2>3. {Rec(Append(p, d), part[d]) : d \in used} = {f[d] : d \in used}
    BY <2>1
  <2>4. {f[list[k].digit] : k \in K} = {f[d] : d \in used}
    <3>1. \A k \in K : list[k].digit \in used
      BY <1>8, <1>9
    <3>2. \A d \in used : \E k \in K : list[k].digit = d
      BY <1>5, <1>9
    <3> QED BY <3>1, <3>2
  <2> QED BY <2>2, <2>3, <2>4
<1>12. Cardinality(K) = Cardinality(used)
  <2>1. IsFiniteSet(K)
    <3>1. IsFiniteSet(1..n)
      BY <1>3, FS_Interval
    <3> QED BY <1>8, <3>1, FS_Subset
  <2>2. PICK f : f = [k \in K |-> list[k].digit]
    OBVIOUS
  <2>3. f \in [K -> used]
    BY <1>8, <1>9, <2>2
  <2>4. \A j, k \in K : f[j] = f[k] => j = k
    BY <1>5, <1>8, <2>2
  <2>5. \A d \in used : \E k \in K : f[k] = d
    BY <1>5, <1>9, <2>2
  <2> QED BY <2>1, <2>3, <2>4, <2>5, InPairs
<1>13. ~ (CellSize(end) > UintSize) /\ ~ (FooterStart(end) < pos)
       /\ ~ (StartOf(end, NumEntries(end) + 1, pos) > FooterStart(end))
  <2>1. UintSize \in Nat /\ UintSize >= 4
    BY SetFileAssumption
  <2>2. PICK c \in Nat : c = CellSize(end) /\ c <= 4
    BY <1>2
  <2>7. FooterStart(end) \in Nat
    <3>1. n + 1 \in 1..(n + 1)
      OBVIOUS
    <3>2. TableAt(pos, end, used, part)
      BY <1>1
    <3>3. StartOf(end, n + 1, pos) \in Nat
      BY <1>3, <3>1, <3>2, StartsAfter
    <3> QED BY <1>2, <1>3, <3>3
  <2> QED BY <1>2, <2>1, <2>2, <2>7
<1>14. UnmarshallElems(p, pos, payload) =
         Called({Rec(Append(p, list[k].digit), Bytes(StartOf(end, k, pos), list[k].size)) : k \in K}, Cardinality(K))
  <2>1. payload # 0
    OBVIOUS
  <2>2. K = {k \in 1..NumEntries(end) : list[k].size > 0}
    BY <1>3, <1>8
  <2> QED BY <1>1, <1>4, <1>6, <1>13, <2>1, <2>2 DEF UnmarshallElems
<1> QED BY <1>6, <1>11, <1>12, <1>14

\* Sub-nodes read from a table.
LEMMA TableSubdirs ==
  ASSUME NEW p, NEW pos, NEW end, NEW used, NEW part,
         TableAt(pos, end, used, part), file \in ByteSeq,
         \A d \in used : part[d] \in ByteSeq /\ part[d] # <<>>,
         NEW D, IsFiniteSet(D), NEW F, NEW A \in [used -> SUBSET D],
         \A d, e \in used : d # e => A[d] \cap A[e] = {},
         NEW read,
         \A d \in used, at \in Nat : Written(at, part[d]) /\ at >= pos =>
             read[Append(p, d)][at][Len(part[d])] = CallsFor(F, A[d])
  PROVE  UnmarshallSubdirs(p, pos, end, read) =
             CallsFor(F, UNION {A[d] : d \in used})
<1>1. /\ CellSize(end) \in 1..4 /\ pos \in Nat /\ pos < end
    BY DEF TableAt
<1>2. PICK n \in Nat : n = NumEntries(end)
    BY DEF TableAt
<1>3. PICK list : list = Entries(end)
    OBVIOUS
<1>4. /\ list \in [1..n -> [digit : AllDigits, size : Nat]]
      /\ \A k \in 1..n : list[k].size = IF list[k].digit \in used THEN Len(part[list[k].digit]) ELSE 0
      /\ \A k \in 1..n : list[k].digit \in used => Written(StartOf(end, k, pos), part[list[k].digit])
      /\ \A d \in used : \E k \in 1..n : list[k].digit = d
      /\ \A j, k \in 1..n : list[j].digit = list[k].digit => j = k
    BY <1>2, <1>3 DEF TableAt
<1>5. \A d \in used : Len(part[d]) > 0
    BY DEF ByteSeq
<1>6. PICK B : B = [k \in 1..n |-> IF list[k].digit \in used THEN A[list[k].digit] ELSE {}]
    OBVIOUS
<1>7. B \in [1..n -> SUBSET D]
    BY <1>6
<1>8. \A j, k \in 1..n : j # k => B[j] \cap B[k] = {}
    BY <1>4, <1>6
<1>9. UNION {B[k] : k \in 1..n} = UNION {A[d] : d \in used}
    BY <1>4, <1>6
<1>10. \A k \in 1..n : StartOf(end, k, pos) \in Nat /\ StartOf(end, k, pos) >= pos
  <2>1. \A k \in 1..n : k \in 1..(n + 1)
    OBVIOUS
  <2> QED BY <1>2, <2>1, StartsAfter
<1>11. ASSUME NEW k \in 1..n
       PROVE  (IF list[k].size = 0 THEN Called({}, 0)
               ELSE read[Append(p, list[k].digit)][StartOf(end, k, pos)][list[k].size])
                = CallsFor(F, B[k])
  <2>1. CASE list[k].digit \in used
    <3>1. list[k].size = Len(part[list[k].digit]) /\ list[k].size # 0 /\ B[k] = A[list[k].digit]
      BY <1>4, <1>5, <1>6, <2>1
    <3>2. Written(StartOf(end, k, pos), part[list[k].digit])
      BY <1>4, <2>1
    <3>3. read[Append(p, list[k].digit)][StartOf(end, k, pos)][Len(part[list[k].digit])]
            = CallsFor(F, A[list[k].digit])
      BY <1>10, <2>1, <3>2
    <3> QED BY <3>1, <3>3
  <2>2. CASE list[k].digit \notin used
    <3>1. list[k].size = 0 /\ B[k] = {}
      BY <1>4, <1>6, <2>2
    <3>2. {F[x] : x \in B[k]} = {} /\ Cardinality(B[k]) = 0
      BY <3>1, FS_EmptySet
    <3> QED BY <3>1, <3>2, Zenon DEF CallsFor
  <2> QED BY <2>1, <2>2
<1>12. PICK results : results = [k \in 1..n |-> IF list[k].size = 0 THEN Called({}, 0)
                        ELSE read[Append(p, list[k].digit)][StartOf(end, k, pos)][list[k].size]]
    OBVIOUS
<1>13. results = [k \in 1..n |-> CallsFor(F, B[k])]
    BY <1>11, <1>12, Zenon
<1>14. Gathered(results) = CallsFor(F, UNION {B[k] : k \in 1..n})
  <2>1. DOMAIN results = 1..n /\ results = [k \in 1..n |-> results[k]]
    BY <1>12
  <2>2. \A k \in 1..n : results[k] = CallsFor(F, B[k])
    BY <1>13
  <2> QED BY <1>7, <1>8, <2>1, <2>2, GatheredSets, SMTT(30)
<1>15. UnmarshallSubdirs(p, pos, end, read) = Gathered(results)
  <2>1. pos # end
    BY <1>1
  <2>2. CellSize(end) \in 1..UintSize
    <3>1. UintSize \in Nat /\ UintSize >= 4
      BY SetFileAssumption
    <3> QED BY <1>1, <3>1
  <2> QED BY <1>2, <1>3, <1>12, <2>1, <2>2 DEF UnmarshallSubdirs
<1> QED BY <1>9, <1>14, <1>15

---------------------------------------------------------------------------
(* Lists of records with a zero byte between them *)

\* Three sequences of bytes one after the other.
LEMMA LenOfThree ==
  ASSUME NEW s \in ByteSeq, NEW t \in ByteSeq, NEW u \in ByteSeq
  PROVE  Len((s \o t) \o u) = Len(s) + Len(t) + Len(u)
BY ConcatProperties DEF ByteSeq

\* Where three sequences of bytes are.
LEMMA WrittenThree ==
  ASSUME NEW pos, NEW s \in ByteSeq, NEW t \in ByteSeq, NEW u \in ByteSeq, Written(pos, (s \o t) \o u)
  PROVE  /\ Written(pos, s) /\ Written(pos + Len(s), t) /\ Written(pos + (Len(s) + Len(t)), u)
<1>1. PICK b \in ByteSeq : b = s \o t
  <2>1. s \o t \in ByteSeq
    BY ConcatProperties DEF ByteSeq
  <2> QED BY <2>1
<1>2. Written(pos, b \o u)
    BY <1>1
<1>3. Written(pos, b) /\ Written(pos + Len(b), u) /\ Len(b \o u) = Len(b) + Len(u)
    BY <1>2, WrittenParts
<1>4. Written(pos, s \o t)
    BY <1>1, <1>3
<1>5. Written(pos, s) /\ Written(pos + Len(s), t) /\ Len(s \o t) = Len(s) + Len(t)
    BY <1>4, WrittenParts
<1> QED BY <1>1, <1>3, <1>5

\* Digits are numbers.
LEMMA DigitNat == \A d \in AllDigits : d \in Nat
BY SetFileAssumption DEF AllDigits

\* A place inside of joined parts is in one of them.
LEMMA Locate ==
  ASSUME NEW n \in Nat, NEW total \in [0..n -> Nat], total[0] = 0, NEW x \in Nat, x < total[n]
  PROVE  \E k \in 1..n : total[k - 1] <= x /\ x < total[k]
<1>1. PICK S : S = {k \in 0..n : x < total[k]}
    OBVIOUS
<1>2. S \subseteq Nat /\ n \in S
    BY <1>1
<1>3. PICK k \in S : \A j \in S : k <= j
    BY <1>2, NatMin
<1>4. k \in 1..n /\ x < total[k]
    BY <1>1, <1>3
<1>5. k - 1 \in 0..n /\ k - 1 \notin S
    BY <1>3, <1>4
<1>6. total[k - 1] \in Nat /\ ~ (x < total[k - 1])
    BY <1>1, <1>5
<1> QED BY <1>4, <1>6

\* A zero byte follows every record of the list and nothing else is zero: z[k]
\* is the place of the one before the k-th record, z[1] just before the list.
LinearAt(pos, end, used, recs, z) ==
    LET n == Cardinality(used)
    IN  /\ z \in [1..(n + 1) -> Nat] /\ z[1] = pos - 1 /\ z[n + 1] = end - 2
        /\ \A k \in 1..n : /\ z[k + 1] = z[k] + 2 + Len(recs[Sorted(used)[k]])
                           /\ At(z[k] + 1) = Chr(Sorted(used)[k])
                           /\ Bytes(z[k] + 2, Len(recs[Sorted(used)[k]])) = recs[Sorted(used)[k]]
        /\ At(end - 1) = 1
        /\ \A x \in pos..(end - 1) : At(x) = 0 <=> \E k \in 2..(n + 1) : x = z[k]

Records == Seq(Nat \ {0}) \ {<<>>}

\* The parts of a list: a zero byte but for the first, the digit, the record.
LEMMA LinearPartsAre ==
  ASSUME NEW used \in SUBSET AllDigits, NEW recs \in [used -> Records]
  PROVE  /\ LinearParts(used, recs) \in Seq(ByteSeq)
         /\ Len(LinearParts(used, recs)) = Cardinality(used)
         /\ \A k \in 1..Cardinality(used) :
              LinearParts(used, recs)[k] =
                ((IF k = 1 THEN <<>> ELSE <<0>>) \o <<Chr(Sorted(used)[k])>>) \o recs[Sorted(used)[k]]
         /\ LinearBlock(used, recs) \in ByteSeq
<1>1. PICK n \in Nat : n = Cardinality(used)
    BY SortedIs
<1>2. PICK s \in [1..n -> used] : s = Sorted(used)
    BY <1>1, SortedIs DEF InOrder
<1>3. s \in Seq(used) /\ Len(s) = n
    OBVIOUS
<1>4. PICK parts : parts = LinearParts(used, recs)
    OBVIOUS
<1>5. parts = [k \in 1..n |-> ((IF k = 1 THEN <<>> ELSE <<0>>) \o <<Chr(s[k])>>) \o recs[s[k]]]
    BY <1>2, <1>3, <1>4, Zenon DEF LinearParts
<1>6. ASSUME NEW k \in 1..n PROVE ((IF k = 1 THEN <<>> ELSE <<0>>) \o <<Chr(s[k])>>) \o recs[s[k]] \in ByteSeq
  <2>1. s[k] \in used /\ s[k] \in Nat
    BY DigitNat
  <2>2. (IF k = 1 THEN <<>> ELSE <<0>>) \in Seq(Nat) /\ <<Chr(s[k])>> \in Seq(Nat)
    BY <2>1 DEF Chr
  <2>3. recs[s[k]] \in Seq(Nat)
    BY <2>1 DEF Records
  <2> QED BY <2>2, <2>3, ConcatProperties DEF ByteSeq
<1>7. parts \in Seq(ByteSeq) /\ Len(parts) = n
    BY <1>5, <1>6
<1>8. Joined(parts) \in ByteSeq
    BY <1>7, JoinedIs
<1>9. LinearBlock(used, recs) = Joined(parts) \o <<0, 1>>
    BY <1>4 DEF LinearBlock
<1>10. Joined(parts) \o <<0, 1>> \in ByteSeq
  <2>1. <<0, 1>> \in Seq(Nat)
    OBVIOUS
  <2> QED BY <1>8, <2>1, ConcatProperties DEF ByteSeq
<1> QED BY <1>1, <1>2, <1>4, <1>5, <1>7, <1>9, <1>10

\* What was written as a list is read as one (payload_linear_scan is called).
LEMMA LinearRead ==
  ASSUME file \in ByteSeq,
         NEW used \in SUBSET AllDigits, used # {}, NEW recs \in [used -> Records],
         NEW pos, Written(pos, LinearBlock(used, recs)), pos # 0
  PROVE  /\ IsLinear(pos, Len(LinearBlock(used, recs)))
         /\ \E z : LinearAt(pos, pos + Len(LinearBlock(used, recs)), used, recs, z)
<1>1. PICK n \in Nat : n = Cardinality(used)
    BY SortedIs
<1>2. PICK s \in [1..n -> used] : s = Sorted(used)
    BY <1>1, SortedIs DEF InOrder
<1>3. PICK parts : parts = LinearParts(used, recs)
    OBVIOUS
<1>4. /\ parts \in Seq(ByteSeq) /\ Len(parts) = n /\ Joined(parts) \in ByteSeq
      /\ \A k \in 1..n : parts[k] = ((IF k = 1 THEN <<>> ELSE <<0>>) \o <<Chr(s[k])>>) \o recs[s[k]]
    BY <1>1, <1>2, <1>3, LinearPartsAre, JoinedIs
<1>5. PICK J \in ByteSeq : J = Joined(parts)
    BY <1>4
<1>6. PICK T \in ByteSeq : T = <<0, 1>> /\ Len(T) = 2
  <2>1. <<0, 1>> \in Seq(Nat)
    OBVIOUS
  <2> QED BY <2>1 DEF ByteSeq
<1>7. LinearBlock(used, recs) = J \o T
    BY <1>3, <1>5, <1>6 DEF LinearBlock
<1>8. Written(pos, J) /\ Written(pos + Len(J), T) /\ Len(J \o T) = Len(J) + 2
    BY <1>6, <1>7, WrittenParts
<1>9. PICK p \in Nat : p = pos /\ p > 0
    BY DEF Written
<1>10. PICK jl \in Nat : jl = Len(J)
    BY DEF ByteSeq
<1>11. PICK end \in Nat : end = pos + Len(LinearBlock(used, recs)) /\ end = p + jl + 2
    BY <1>7, <1>8, <1>9, <1>10
<1>12. At(end - 1) = 1 /\ At(end - 2) = 0
  <2>1. \A i \in 1..2 : At(p + jl + i - 1) = T[i]
    <3>1. Written(p + jl, T)
      BY <1>8, <1>9, <1>10
    <3>2. \A i \in 1..2 : At((p + jl) + i - 1) = T[i]
      BY <1>6, <3>1, WrittenBytes
    <3> QED BY <3>2
  <2>2. At(p + jl + 1 - 1) = 0 /\ At(p + jl + 2 - 1) = 1
    BY <1>6, <2>1
  <2>3. p + jl + 1 - 1 = end - 2 /\ p + jl + 2 - 1 = end - 1
    BY <1>11
  <2> QED BY <2>2, <2>3
<1>13. IsLinear(pos, Len(LinearBlock(used, recs)))
  <2>1. PICK l \in Nat : l = Len(LinearBlock(used, recs)) /\ end = p + l
    BY <1>7, <1>8, <1>9, <1>10, <1>11
  <2>2. p + l - 1 = end - 1 /\ p + l - 2 = end - 2
    BY <2>1
  <2> QED BY <1>9, <1>12, <2>1, <2>2 DEF IsLinear
<1>14. PICK total : total = TotalTo(Lengths(parts))
    OBVIOUS
<1>15. /\ total \in [0..n -> Nat] /\ total[0] = 0 /\ total[n] = jl
       /\ \A k \in 0..n : total[k] = Len(JoinedTo(parts)[k])
  <2>1. /\ Lengths(parts) \in Seq(Nat) /\ Len(Lengths(parts)) = n
        /\ \A k \in 0..n : Len(JoinedTo(parts)[k]) = total[k]
    BY <1>4, <1>14, JoinedSizes
  <2>2. total \in [0..n -> Nat] /\ total[0] = 0
    BY <1>14, <2>1, TotalIs
  <2>3. total[n] = Len(JoinedTo(parts)[n])
    BY <2>1
  <2> QED BY <1>4, <1>5, <1>10, <2>1, <2>2, <2>3 DEF Joined
<1>16. ASSUME NEW k \in 1..n
       PROVE  /\ Written(pos + total[k - 1], parts[k])
              /\ total[k] = total[k - 1] + Len(parts[k])
  <2>1. k - 1 \in 0..n /\ k \in 0..n
    OBVIOUS
  <2>2. /\ Written(pos + Len(JoinedTo(parts)[k - 1]), parts[k])
        /\ Len(JoinedTo(parts)[k]) = Len(JoinedTo(parts)[k - 1]) + Len(parts[k])
    BY <1>4, <1>5, <1>8, WrittenJoined
  <2> QED BY <1>15, <2>1, <2>2
<1>17. PICK z : z = [k \in 1..(n + 1) |-> IF k = 1 THEN p - 1 ELSE p + total[k - 1]]
    OBVIOUS
<1>18. z \in [1..(n + 1) -> Nat] /\ z[1] = p - 1
  <2>1. \A k \in 1..(n + 1) : (IF k = 1 THEN p - 1 ELSE p + total[k - 1]) \in Nat
    <3>1. \A k \in 1..(n + 1) : k - 1 \in 0..n /\ total[k - 1] \in Nat
      BY <1>15
    <3> QED BY <1>9, <3>1
  <2> QED BY <1>17, <2>1
<1>19. n >= 1 /\ z[n + 1] = end - 2
  <2>1. n # 0
    BY <1>1, SortedIs, FS_EmptySet
  <2>2. n + 1 \in 1..(n + 1) /\ n + 1 # 1 /\ (n + 1) - 1 = n
    BY <2>1
  <2>3. z[n + 1] = p + total[n]
    BY <1>17, <2>2
  <2> QED BY <1>11, <1>15, <2>1, <2>3
\* The k-th part.
<1>20. ASSUME NEW k \in 1..n
       PROVE  /\ \E r \in ByteSeq, l \in Nat :
                   /\ r = recs[s[k]] /\ l = Len(r) /\ z[k + 1] = z[k] + 2 + l
                   /\ Written(z[k] + 1, <<Chr(s[k])>>) /\ Written(z[k] + 2, r)
              /\ k # 1 => At(z[k]) = 0
              /\ z[k] + 1 = p + total[k - 1] + (IF k = 1 THEN 0 ELSE 1)
              /\ p + total[k] = z[k + 1]
  <2>1. PICK a \in Nat : a = p + total[k - 1] /\ total[k - 1] \in Nat
    <3>1. k - 1 \in 0..n
      OBVIOUS
    <3> QED BY <1>15, <3>1
  <2>2. PICK r \in ByteSeq : r = recs[s[k]]
    <3>1. s[k] \in used
      OBVIOUS
    <3>2. recs[s[k]] \in Records
      BY <3>1
    <3> QED BY <3>2 DEF Records, ByteSeq
  <2>3. PICK l \in Nat : l = Len(r)
    BY DEF ByteSeq
  <2>p. PICK pl \in Nat : pl = (IF k = 1 THEN 0 ELSE 1)
    OBVIOUS
  <2>q. PICK pre : pre = (IF k = 1 THEN <<>> ELSE <<0>>)
    OBVIOUS
  <2>4. pre = (IF k = 1 THEN <<>> ELSE <<0>>) /\ pl = (IF k = 1 THEN 0 ELSE 1) /\ pre \in ByteSeq /\ Len(pre) = pl
    <3>1. <<>> \in ByteSeq /\ Len(<<>>) = 0 /\ <<0>> \in ByteSeq /\ Len(<<0>>) = 1
      BY DEF ByteSeq
    <3>2. CASE k = 1
      BY <2>p, <2>q, <3>1, <3>2
    <3>3. CASE k # 1
      BY <2>p, <2>q, <3>1, <3>3
    <3> QED BY <3>2, <3>3
  <2>5. PICK c \in ByteSeq : c = <<Chr(s[k])>> /\ Len(c) = 1
    <3>1. s[k] \in used /\ s[k] \in Nat
      BY DigitNat
    <3>2. Chr(s[k]) \in Nat
      BY <3>1 DEF Chr
    <3>3. <<Chr(s[k])>> \in ByteSeq /\ Len(<<Chr(s[k])>>) = 1
      BY <3>2 DEF ByteSeq
    <3> QED BY <3>3
  <2>6. Written(a, (pre \o c) \o r) /\ total[k] = total[k - 1] + Len((pre \o c) \o r)
    BY <1>4, <1>9, <1>16, <2>1, <2>2, <2>4, <2>5
  <2>7. /\ Written(a, pre) /\ Written(a + Len(pre), c) /\ Written(a + (Len(pre) + Len(c)), r)
        /\ Len((pre \o c) \o r) = (Len(pre) + Len(c)) + Len(r)
    <3>1. pre \in ByteSeq /\ Written(a, (pre \o c) \o r)
      BY <2>4, <2>6
    <3>2. PICK x \in ByteSeq, y \in ByteSeq, w \in ByteSeq : x = pre /\ y = c /\ w = r
      BY <3>1
    <3>3. Written(a, (x \o y) \o w)
      BY <3>1, <3>2
    <3>4. Written(a, x)
      BY <3>3, WrittenThree, Zenon
    <3>5. Written(a + Len(x), y)
      BY <3>3, WrittenThree, Zenon
    <3>6. Written(a + (Len(x) + Len(y)), w)
      BY <3>3, WrittenThree, Zenon
    <3>7. Len((x \o y) \o w) = (Len(x) + Len(y)) + Len(w)
      BY LenOfThree
    <3> QED BY <3>2, <3>4, <3>5, <3>6, <3>7, Zenon
  <2>8. Written(a + pl, c) /\ Written(a + (pl + 1), r) /\ total[k] = total[k - 1] + ((pl + 1) + l)
    BY <2>3, <2>4, <2>5, <2>6, <2>7
  <2>9. Written(a, pre)
    BY <2>7
  <2>10. z[k] + 1 = a + pl
    <3>1. CASE k = 1
      <4>1. total[k - 1] = 0
        BY <1>15, <3>1
      <4> QED BY <1>9, <1>18, <2>1, <2>4, <3>1, <4>1
    <3>2. CASE k # 1
      <4>1. k \in 1..(n + 1)
        OBVIOUS
      <4>2. z[k] = a
        BY <1>17, <2>1, <3>2, <4>1
      <4> QED BY <2>4, <3>2, <4>2
    <3> QED BY <3>1, <3>2
  <2>11. z[k + 1] = p + total[k]
    <3>1. k + 1 \in 1..(n + 1) /\ k + 1 # 1 /\ (k + 1) - 1 = k
      OBVIOUS
    <3> QED BY <1>17, <3>1
  <2>12. z[k] \in Nat
    BY <1>18
  <2>13. PICK t \in Nat, y \in Nat : t = total[k - 1] /\ a = p + t /\ y = z[k] /\ y + 1 = a + pl
    BY <2>1, <2>10, <2>12
  <2>14. z[k + 1] = z[k] + 2 + l
    <3>1. total[k] = t + ((pl + 1) + l)
      BY <2>8, <2>13
    <3>2. z[k + 1] = p + (t + ((pl + 1) + l))
      BY <2>11, <3>1
    <3>4. a = p + t
      BY <2>13
    <3>5. y + 1 = a + pl
      BY <2>13
    <3>3. p + (t + ((pl + 1) + l)) = y + 2 + l
      BY <3>4, <3>5
    <3> QED BY <2>13, <3>2, <3>3
  <2>15. Written(z[k] + 1, c) /\ Written(z[k] + 2, r)
    <3>1. a + pl = z[k] + 1 /\ a + (pl + 1) = z[k] + 2
      BY <2>10, <2>12
    <3> QED BY <2>8, <3>1
  <2>16. k # 1 => At(z[k]) = 0
    <3> SUFFICES ASSUME k # 1 PROVE At(z[k]) = 0
      OBVIOUS
    <3>1. \A i \in 1..1 : At(a + i - 1) = pre[i]
      BY <2>4, <2>9, WrittenBytes
    <3>2. At(a + 1 - 1) = 0 /\ a + 1 - 1 = a
      BY <2>1, <2>4, <3>1
    <3>3. a = z[k]
      BY <2>4, <2>10, <2>12
    <3> QED BY <3>2, <3>3
  <2> QED BY <2>1, <2>2, <2>3, <2>4, <2>5, <2>10, <2>11, <2>14, <2>15, <2>16
<1>21. \A k \in 2..(n + 1) : At(z[k]) = 0
  <2>1. \A k \in 2..n : At(z[k]) = 0
    <3>1. \A k \in 2..n : k \in 1..n /\ k # 1
      OBVIOUS
    <3> QED BY <1>20, <3>1
  <2>2. At(z[n + 1]) = 0
    BY <1>12, <1>19
  <2>3. \A k \in 2..(n + 1) : k \in 2..n \/ k = n + 1
    OBVIOUS
  <2> QED BY <2>1, <2>2, <2>3
<1>22. ASSUME NEW x \in pos..(end - 1), At(x) = 0 PROVE \E k \in 2..(n + 1) : x = z[k]
  <2>1. CASE x = end - 2
    <3>1. n + 1 \in 2..(n + 1)
      BY <1>19
    <3> QED BY <1>19, <2>1, <3>1
  <2>2. CASE x # end - 2
    <3>1. PICK o \in Nat : x = p + o /\ o < jl
      <4>1. x # end - 1
        BY <1>12, <1>22
      <4>2. x \in p..(end - 1)
        BY <1>9
      <4>3. x - p \in Nat /\ x = p + (x - p) /\ x - p < jl
        BY <1>11, <2>2, <4>1, <4>2
      <4> QED BY <4>3
    <3>2. total[n] = jl /\ total[0] = 0 /\ total \in [0..n -> Nat]
      BY <1>15
    <3>3. PICK k \in 1..n : total[k - 1] <= o /\ o < total[k]
      BY <3>1, <3>2, Locate
    <3>4. PICK r \in ByteSeq, l \in Nat :
             /\ r = recs[s[k]] /\ l = Len(r) /\ z[k + 1] = z[k] + 2 + l
             /\ Written(z[k] + 1, <<Chr(s[k])>>) /\ Written(z[k] + 2, r)
      BY <1>20
    <3>5. z[k] + 1 = p + total[k - 1] + (IF k = 1 THEN 0 ELSE 1) /\ p + total[k] = z[k + 1]
      BY <1>20
    <3>6. PICK y \in Nat, t \in Nat, u \in Nat : y = z[k] /\ t = total[k - 1] /\ u = total[k]
      <4>1. k - 1 \in 0..n /\ k \in 0..n /\ k \in 1..(n + 1)
        OBVIOUS
      <4> QED BY <1>18, <3>2, <4>1
    <3>7. p + u = y + 2 + l
      BY <3>4, <3>5, <3>6
    <3>8. y + 1 = p + t + (IF k = 1 THEN 0 ELSE 1)
      BY <3>5, <3>6
    <3>9. t <= o /\ o < u
      BY <3>3, <3>6
    <3>10. x # y + 1
      <4>1. <<Chr(s[k])>> \in ByteSeq /\ Chr(s[k]) \in Nat /\ Chr(s[k]) # 0 /\ Len(<<Chr(s[k])>>) = 1
        <5>1. s[k] \in used /\ s[k] \in Nat
          BY DigitNat
        <5>2. Chr(s[k]) \in Nat /\ Chr(s[k]) # 0
          BY <5>1 DEF Chr
        <5> QED BY <5>2 DEF ByteSeq
      <4>2. Written(y + 1, <<Chr(s[k])>>)
        BY <3>4, <3>6
      <4>3. \A i \in 1..1 : At((y + 1) + i - 1) = <<Chr(s[k])>>[i]
        BY <4>1, <4>2, WrittenBytes
      <4>4. At((y + 1) + 1 - 1) = Chr(s[k]) /\ (y + 1) + 1 - 1 = y + 1
        BY <4>3
      <4> QED BY <1>22, <4>1, <4>4
    <3>11. ~ (y + 2 <= x)
      <4> SUFFICES ASSUME y + 2 <= x PROVE FALSE
        OBVIOUS
      <4>1. PICK i \in 1..l : x = (y + 2) + i - 1
        <5>1. p + o < y + 2 + l
          BY <3>7, <3>9
        <5>2. (p + o) - (y + 2) + 1 \in 1..l /\ p + o = (y + 2) + ((p + o) - (y + 2) + 1) - 1
          BY <3>1, <5>1
        <5> QED BY <3>1, <5>2
      <4>2. \A j \in 1..l : At((y + 2) + j - 1) = r[j]
        BY <3>4, <3>6, WrittenBytes
      <4>3. r[i] # 0
        <5>1. s[k] \in used /\ r \in Seq(Nat \ {0})
          BY <3>4 DEF Records
        <5> QED BY <3>4, <5>1
      <4> QED BY <1>22, <4>1, <4>2, <4>3
    <3>12. k # 1 /\ x = y
      <4>1. x <= y
        BY <3>1, <3>10, <3>11
      <4>2. CASE k = 1
        <5>1. y + 1 = p + t
          BY <3>8, <4>2
        <5>2. p + t <= p + o
          BY <3>9
        <5> QED BY <3>1, <4>1, <5>1, <5>2
      <4>3. CASE k # 1
        <5>1. y + 1 = p + t + 1
          BY <3>8, <4>3
        <5>2. p + t <= p + o
          BY <3>9
        <5> QED BY <3>1, <4>1, <4>3, <5>1, <5>2
      <4> QED BY <4>2, <4>3
    <3>13. k \in 2..(n + 1)
      BY <3>12
    <3> QED BY <3>6, <3>12, <3>13
  <2> QED BY <2>1, <2>2
<1>23. ASSUME NEW k \in 1..n
       PROVE  /\ z[k + 1] = z[k] + 2 + Len(recs[s[k]]) /\ At(z[k] + 1) = Chr(s[k])
              /\ Bytes(z[k] + 2, Len(recs[s[k]])) = recs[s[k]]
  <2>1. PICK r \in ByteSeq, l \in Nat :
           /\ r = recs[s[k]] /\ l = Len(r) /\ z[k + 1] = z[k] + 2 + l
           /\ Written(z[k] + 1, <<Chr(s[k])>>) /\ Written(z[k] + 2, r)
    BY <1>20
  <2>2. Bytes(z[k] + 2, Len(r)) = r
    BY <2>1, WrittenBytes
  <2>c. PICK c : c = <<Chr(s[k])>>
    OBVIOUS
  <2>3. PICK y \in Nat : y = z[k] /\ c = <<Chr(s[k])>>
    <3>1. k \in 1..(n + 1)
      OBVIOUS
    <3> QED BY <1>18, <2>c, <3>1
  <2>4. \A i \in 1..Len(c) : At((y + 1) + i - 1) = c[i]
    BY <2>1, <2>3, WrittenBytes
  <2>5. Len(c) = 1 /\ c[1] = Chr(s[k])
    BY <2>3
  <2>6. At((y + 1) + 1 - 1) = Chr(s[k]) /\ (y + 1) + 1 - 1 = y + 1
    BY <2>4, <2>5
  <2> QED BY <2>1, <2>2, <2>3, <2>6
<1>24. \A x \in pos..(end - 1) : At(x) = 0 <=> \E k \in 2..(n + 1) : x = z[k]
    BY <1>21, <1>22
<1>25. LinearAt(pos, end, used, recs, z)
    BY <1>1, <1>2, <1>9, <1>12, <1>18, <1>19, <1>23, <1>24 DEF LinearAt
<1> QED BY <1>11, <1>13, <1>25

\* Where the records of a list begin and end, for a scan up to the last of them
\* and for one that goes on to the end of the block.
Scanned(pos, e, m, used, recs, z) ==
    LET n == Cardinality(used)
    IN  /\ \A i, j \in 1..(n + 1) : i < j => z[i] < z[j]
        /\ Starts(pos, e) = {z[k] + 1 : k \in 1..m}
        /\ \A k \in 1..n : ValueAt(z[k] + 1, pos, e) = recs[Sorted(used)[k]]

LEMMA LinearPlaces ==
  ASSUME NEW used \in SUBSET AllDigits, NEW recs \in [used -> Records],
         NEW pos \in Nat \ {0}, NEW end \in Nat, NEW z, LinearAt(pos, end, used, recs, z),
         NEW n \in Nat \ {0}, n = Cardinality(used),
         NEW e, NEW m, (e = end - 2 /\ m = n) \/ (e = end /\ m = n + 1)
  PROVE  Scanned(pos, e, m, used, recs, z)
<1>1. PICK s \in [1..n -> used] : s = Sorted(used)
    BY SortedIs DEF InOrder
<1>2. /\ z \in [1..(n + 1) -> Nat] /\ z[1] = pos - 1 /\ z[n + 1] = end - 2
      /\ \A k \in 1..n : /\ z[k + 1] = z[k] + 2 + Len(recs[s[k]])
                         /\ Bytes(z[k] + 2, Len(recs[s[k]])) = recs[s[k]]
      /\ At(end - 1) = 1
      /\ \A x \in pos..(end - 1) : At(x) = 0 <=> \E k \in 2..(n + 1) : x = z[k]
    BY <1>1 DEF LinearAt
<1>3. \A k \in 1..n : Len(recs[s[k]]) \in Nat /\ Len(recs[s[k]]) >= 1
    BY DEF Records
<1>4. \A k \in 1..n : z[k] \in Nat /\ z[k + 1] \in Nat /\ z[k] + 3 <= z[k + 1]
  <2>1. \A k \in 1..n : k \in 1..(n + 1) /\ k + 1 \in 1..(n + 1)
    OBVIOUS
  <2>2. \A k \in 1..n : z[k] \in Nat /\ z[k + 1] \in Nat
    BY <1>2, <2>1
  <2>3. ASSUME NEW k \in 1..n PROVE z[k] + 3 <= z[k + 1]
    <3>1. PICK y \in Nat, l \in Nat : y = z[k] /\ l = Len(recs[s[k]]) /\ l >= 1
      BY <1>3, <2>2
    <3>2. z[k + 1] = y + 2 + l
      BY <1>2, <3>1
    <3> QED BY <3>1, <3>2, SMTT(30)
  <2> QED BY <2>2, <2>3
<1>5. \A i, j \in 1..(n + 1) : i < j => z[i] + 3 <= z[j]
  <2>1. PICK g : g = [k \in 0..n |-> z[k + 1]]
    OBVIOUS
  <2>2. \A k \in 0..n : k + 1 \in 1..(n + 1) /\ g[k] = z[k + 1] /\ g[k] \in Nat
    <3>1. \A k \in 0..n : k + 1 \in 1..(n + 1)
      OBVIOUS
    <3>2. \A k \in 0..n : g[k] = z[k + 1]
      BY <2>1
    <3>3. \A k \in 1..(n + 1) : z[k] \in Nat
      BY <1>2
    <3> QED BY <3>1, <3>2, <3>3
  <2>3. \A k \in 1..n : g[k - 1] <= g[k]
    <3>1. \A k \in 1..n : k - 1 \in 0..n /\ k \in 0..n /\ (k - 1) + 1 = k
      OBVIOUS
    <3>2. \A k \in 1..n : g[k - 1] = z[k] /\ g[k] = z[k + 1]
      BY <2>2, <3>1
    <3>3. \A k \in 1..n : z[k] \in Nat /\ z[k + 1] \in Nat /\ z[k] <= z[k + 1]
      BY <1>4
    <3> QED BY <3>2, <3>3
  <2>4. g \in [0..n -> Nat]
    BY <2>1, <2>2
  <2>5. \A i, j \in 0..n : i <= j => g[i] <= g[j]
    BY <2>3, <2>4, Growing
  <2>6. SUFFICES ASSUME NEW i \in 1..(n + 1), NEW j \in 1..(n + 1), i < j PROVE z[i] + 3 <= z[j]
    OBVIOUS
  <2>7. i \in 1..n /\ i \in 0..n /\ j - 1 \in 0..n /\ i <= j - 1 /\ (j - 1) + 1 = j
    BY <2>6
  <2>8. g[i] = z[i + 1] /\ g[j - 1] = z[j] /\ g[i] <= g[j - 1]
    BY <2>2, <2>5, <2>7
  <2>9. z[i] \in Nat /\ z[j] \in Nat /\ z[i + 1] \in Nat /\ z[i] + 3 <= z[i + 1]
    BY <1>2, <1>4, <2>7
  <2> QED BY <2>8, <2>9, SMTT(30)
<1>6. m \in Nat /\ m \in n..(n + 1) /\ e \in Nat
  <2>1. end - 2 \in Nat
    <3>1. n + 1 \in 1..(n + 1)
      OBVIOUS
    <3>2. z[n + 1] \in Nat /\ z[n + 1] = end - 2
      BY <1>2, <3>1
    <3> QED BY <3>2
  <2>2. CASE e = end - 2 /\ m = n
    BY <2>1, <2>2
  <2>3. CASE e = end /\ m = n + 1
    BY <2>3
  <2> QED BY <2>2, <2>3
<1>7. \A k \in 2..(n + 1) : z[k] \in (pos + 1)..(end - 2) /\ (z[k] < e <=> k <= m)
  <2>1. SUFFICES ASSUME NEW k \in 2..(n + 1)
                 PROVE  z[k] \in (pos + 1)..(end - 2) /\ (z[k] < e <=> k <= m)
    OBVIOUS
  <2>2. 1 \in 1..(n + 1) /\ k \in 1..(n + 1) /\ n + 1 \in 1..(n + 1) /\ z[k] \in Nat
    <3>1. 1 \in 1..(n + 1) /\ n + 1 \in 1..(n + 1)
      OBVIOUS
    <3>2. k \in 1..(n + 1)
      OBVIOUS
    <3>3. z \in [1..(n + 1) -> Nat]
      BY <1>2
    <3> QED BY <3>1, <3>2, <3>3
  <2>3. z[1] + 3 <= z[k]
    BY <1>5, <2>2
  <2>4. k < n + 1 => z[k] + 3 <= z[n + 1]
    BY <1>5, <2>2
  <2>5. z[k] >= pos + 1
    BY <1>2, <2>2, <2>3
  <2>6. k = n + 1 => z[k] = end - 2
    BY <1>2
  <2>7. k < n + 1 => z[k] + 3 <= end - 2
    BY <1>2, <2>4
  <2>8. k < n + 1 \/ k = n + 1
    OBVIOUS
  <2>9. CASE k = n + 1
    BY <2>2, <2>5, <2>6, <2>9
  <2>10. CASE k < n + 1
    BY <2>2, <2>5, <2>7, <2>10
  <2> QED BY <2>8, <2>9, <2>10
<1>8. Zeros(pos, e) = {z[k] : k \in 2..m}
  <2>1. ASSUME NEW x \in Zeros(pos, e) PROVE \E k \in 2..m : x = z[k]
    <3>1. x \in (pos + 1)..(e - 1) /\ At(x) = 0
      BY DEF Zeros
    <3>2. x \in pos..(end - 1) /\ x < e
      BY <1>6, <3>1
    <3>3. PICK k \in 2..(n + 1) : x = z[k]
      BY <1>2, <3>1, <3>2
    <3>4. k <= m
      BY <1>7, <3>2, <3>3
    <3> QED BY <1>6, <3>3, <3>4
  <2>2. ASSUME NEW k \in 2..m PROVE z[k] \in Zeros(pos, e)
    <3>1. k \in 2..(n + 1) /\ k <= m
      BY <1>6
    <3>2. z[k] \in (pos + 1)..(end - 2) /\ z[k] < e
      BY <1>7, <3>1
    <3>3. z[k] \in pos..(end - 1) /\ z[k] \in (pos + 1)..(e - 1)
      BY <1>6, <3>2
    <3>4. At(z[k]) = 0
      BY <1>2, <3>1, <3>3
    <3> QED BY <3>3, <3>4 DEF Zeros
  <2> QED BY <2>1, <2>2
<1>9. Starts(pos, e) = {z[k] + 1 : k \in 1..m}
  <2>1. pos = z[1] + 1 /\ 1 \in 1..m
    BY <1>2, <1>6
  <2>2. Starts(pos, e) = {pos} \cup {x + 1 : x \in {z[k] : k \in 2..m}}
    BY <1>8 DEF Starts
  <2>3. \A k \in 1..m : k = 1 \/ k \in 2..m
    BY <1>6
  <2>4. \A k \in 2..m : k \in 1..m
    BY <1>6
  <2> QED BY <2>1, <2>2, <2>3, <2>4
<1>10. ASSUME NEW k \in 1..n PROVE StopOf(z[k] + 1, pos, e) = z[k + 1]
  <2>1. PICK Z : Z = Zeros(pos, e)
    OBVIOUS
  <2>2. PICK c : c = (CHOOSE x \in {y \in Z : y > z[k] + 1} \cup {e} : \A y \in Z : y > z[k] + 1 => x <= y)
    OBVIOUS
  <2>3. c = StopOf(z[k] + 1, pos, e)
    BY <2>1, <2>2, Zenon DEF StopOf
  <2>4. k \in 1..(n + 1) /\ k + 1 \in 2..(n + 1) /\ k + 1 \in 1..(n + 1)
    OBVIOUS
  <2>5. PICK y0 \in Nat, y1 \in Nat : y0 = z[k] /\ y1 = z[k + 1]
    BY <1>2, <2>4
  <2>6. y0 + 3 <= y1
    BY <1>4, <2>5
  <2>7. \A y \in Z : y \in Nat /\ (y > y0 + 1 => y1 <= y) /\ y < e
    <3>1. SUFFICES ASSUME NEW y \in Z PROVE y \in Nat /\ (y > y0 + 1 => y1 <= y) /\ y < e
      OBVIOUS
    <3>2. PICK j \in 2..m : y = z[j]
      BY <1>8, <2>1
    <3>6. j \in 1..(n + 1) /\ j \in 2..(n + 1) /\ j <= m
      BY <1>6
    <3>3. j \in 1..(n + 1) /\ y \in Nat /\ j \in 2..(n + 1) /\ j <= m
      BY <1>2, <3>2, <3>6
    <3>4. y < e
      BY <1>7, <3>2, <3>3
    <3>5. ASSUME y > y0 + 1 PROVE y1 <= y
      <4>1. ~ (j <= k)
        <5>1. j < k => z[j] + 3 <= z[k]
          BY <1>5, <2>4, <3>3
        <5>2. j = k => y = y0
          BY <2>5, <3>2
        <5> QED BY <2>5, <3>2, <3>3, <3>5, <5>1, <5>2
      <4>2. k + 1 < j => z[k + 1] + 3 <= z[j]
        BY <1>5, <2>4, <3>3
      <4>3. k + 1 < j \/ k + 1 = j
        BY <4>1
      <4> QED BY <2>5, <3>2, <3>3, <4>2, <4>3
    <3> QED BY <3>3, <3>4, <3>5
  <2>8. (y1 \in Z /\ y1 > y0 + 1) \/ (y1 = e /\ \A y \in Z : ~ (y > y0 + 1))
    <3>1. CASE k + 1 <= m
      <4>1. k + 1 \in 2..m
        BY <1>6, <2>4, <3>1
      <4>2. y1 \in Z
        BY <1>8, <2>1, <2>5, <4>1
      <4>3. y1 > y0 + 1
        BY <2>6
      <4> QED BY <4>2, <4>3
    <3>2. CASE ~ (k + 1 <= m)
      <4>1. k + 1 = n + 1 /\ m = n /\ e = end - 2
        BY <1>6, <3>2
      <4>2. y1 = e
        BY <1>2, <2>5, <4>1
      <4> QED BY <1>6, <2>7, <4>2
    <3> QED BY <3>1, <3>2
  <2>9. \A y \in Z : y > z[k] + 1 <=> y > y0 + 1
    BY <2>5
  <2>10. y1 \in {y \in Z : y > z[k] + 1} \cup {e} /\ \A y \in Z : y > z[k] + 1 => y1 <= y
    BY <2>7, <2>8, <2>9
  <2>11. c \in {y \in Z : y > z[k] + 1} \cup {e} /\ \A y \in Z : y > z[k] + 1 => c <= y
    BY <2>2, <2>10
  <2>12. c = y1
    <3>1. CASE y1 = e /\ \A y \in Z : ~ (y > y0 + 1)
      BY <2>9, <2>11, <3>1
    <3>2. CASE y1 \in Z /\ y1 > y0 + 1
      <4>1. c <= y1 /\ y1 < e
        BY <2>7, <2>9, <2>11, <3>2
      <4>2. c \in Z /\ c > y0 + 1
        <5>1. c # e
          BY <1>6, <4>1
        <5> QED BY <2>9, <2>11, <5>1
      <4>3. c \in Nat /\ y1 <= c
        BY <2>7, <4>2
      <4> QED BY <4>1, <4>3
    <3> QED BY <2>8, <3>1, <3>2
  <2> QED BY <2>3, <2>5, <2>12
<1>11. ASSUME NEW k \in 1..n PROVE ValueAt(z[k] + 1, pos, e) = recs[s[k]]
  <2>1. StopOf(z[k] + 1, pos, e) = z[k + 1]
    BY <1>10
  <2>2. PICK y \in Nat, l \in Nat : y = z[k] /\ l = Len(recs[s[k]])
    BY <1>3, <1>4
  <2>3. z[k + 1] = y + 2 + l
    BY <1>2, <2>2
  <2>4. (y + 1) + 1 = y + 2 /\ (y + 2 + l) - (y + 1) - 1 = l
    OBVIOUS
  <2>5. ValueAt(y + 1, pos, e) = Bytes((y + 1) + 1, (y + 2 + l) - (y + 1) - 1)
    BY <2>1, <2>2, <2>3 DEF ValueAt
  <2> QED BY <1>2, <2>2, <2>4, <2>5
<1>12. \A i, j \in 1..(n + 1) : i < j => z[i] < z[j]
  <2>1. \A i \in 1..(n + 1) : z[i] \in Nat
    BY <1>2
  <2> QED BY <1>5, <2>1
<1> QED BY <1>1, <1>9, <1>11, <1>12 DEF Scanned

\* payload_linear_scan calls back once for every record of the list.
LEMMA LinearScanIs ==
  ASSUME NEW used \in SUBSET AllDigits, used # {}, NEW recs \in [used -> Records],
         NEW pos \in Nat \ {0}, NEW end \in Nat, NEW z, LinearAt(pos, end, used, recs, z), NEW p
  PROVE  LinearScan(p, pos, end - 2) = Called({Rec(Append(p, d), recs[d]) : d \in used}, Cardinality(used))
<1>1. PICK n \in Nat \ {0} : n = Cardinality(used)
    BY SortedIs, FS_EmptySet
<1>2. PICK s \in [1..n -> used] : s = Sorted(used) /\ \A d \in used : \E k \in 1..n : s[k] = d
    BY <1>1, SortedIs DEF InOrder
<1>3. PICK e : e = end - 2
    OBVIOUS
<1>4. /\ \A i, j \in 1..(n + 1) : i < j => z[i] < z[j]
      /\ Starts(pos, e) = {z[k] + 1 : k \in 1..n}
      /\ \A k \in 1..n : ValueAt(z[k] + 1, pos, e) = recs[s[k]]
  <2>1. PICK m : m = n
    OBVIOUS
  <2>2. (e = end - 2 /\ m = n) \/ (e = end /\ m = n + 1)
    BY <1>3, <2>1
  <2>3. Scanned(pos, e, m, used, recs, z)
    BY <1>1, <2>2, LinearPlaces
  <2> QED BY <1>1, <1>2, <2>1, <2>3 DEF Scanned
<1>5. \A k \in 1..n : z[k] \in Nat /\ At(z[k] + 1) = Chr(s[k])
  <2>1. z \in [1..(n + 1) -> Nat] /\ \A k \in 1..n : At(z[k] + 1) = Chr(s[k])
    BY <1>1, <1>2 DEF LinearAt
  <2>2. \A k \in 1..n : k \in 1..(n + 1)
    OBVIOUS
  <2> QED BY <2>1, <2>2
<1>6. PICK S : S = Starts(pos, e)
    OBVIOUS
<1>7. Cardinality(S) = n
  <2>1. PICK f : f = [k \in 1..n |-> z[k] + 1]
    OBVIOUS
  <2>2. f \in [1..n -> S] /\ \A x \in S : \E k \in 1..n : f[k] = x
    BY <1>4, <1>6, <2>1
  <2>3. ASSUME NEW j \in 1..n, NEW k \in 1..n, f[j] = f[k] PROVE j = k
    <3>1. j \in 1..(n + 1) /\ k \in 1..(n + 1)
      OBVIOUS
    <3>2. z[j] \in Nat /\ z[k] \in Nat
      BY <1>5
    <3>3. f[j] = z[j] + 1 /\ f[k] = z[k] + 1
      BY <2>1
    <3>4. z[j] = z[k]
      <4>1. PICK a \in Nat, b \in Nat : a = z[j] /\ b = z[k]
        BY <3>2
      <4>2. a + 1 = b + 1
        BY <2>3, <3>3, <4>1
      <4> QED BY <4>1, <4>2
    <3>5. ~ (j < k) /\ ~ (k < j)
      BY <1>4, <3>1, <3>2, <3>4
    <3> QED BY <3>5
  <2>4. IsFiniteSet(1..n) /\ Cardinality(1..n) = n
    BY FS_Interval
  <2> QED BY <2>2, <2>3, <2>4, InPairs
<1>8. \A k \in 1..n : Rec(Append(p, DigitOf(At(z[k] + 1))), ValueAt(z[k] + 1, pos, e)) = Rec(Append(p, s[k]), recs[s[k]])
  <2>1. \A k \in 1..n : DigitOf(Chr(s[k])) = s[k]
    BY DigitNat DEF DigitOf, Chr
  <2> QED BY <1>4, <1>5, <2>1
<1>9. {Rec(Append(p, DigitOf(At(x))), ValueAt(x, pos, e)) : x \in S} = {Rec(Append(p, d), recs[d]) : d \in used}
  <2>1. {Rec(Append(p, DigitOf(At(x))), ValueAt(x, pos, e)) : x \in S}
          = {Rec(Append(p, DigitOf(At(z[k] + 1))), ValueAt(z[k] + 1, pos, e)) : k \in 1..n}
    BY <1>4, <1>6
  <2>2. {Rec(Append(p, s[k]), recs[s[k]]) : k \in 1..n} = {Rec(Append(p, d), recs[d]) : d \in used}
    BY <1>2
  <2> QED BY <1>8, <2>1, <2>2
<1> QED BY <1>1, <1>3, <1>6, <1>7, <1>9 DEF LinearScan

\* fetch_elem_linear_scan stops at the record of its digit, never before or after.
LEMMA LinearFetchIs ==
  ASSUME NEW used \in SUBSET AllDigits, NEW recs \in [used -> Records],
         NEW pos \in Nat \ {0}, NEW end \in Nat, NEW z, LinearAt(pos, end, used, recs, z), NEW d \in used
  PROVE  LinearFetch(d, pos, end) = Found(recs[d])
<1>1. PICK n \in Nat \ {0} : n = Cardinality(used)
    BY SortedIs, FS_EmptySet
<1>2. PICK s \in [1..n -> used] : /\ s = Sorted(used) /\ \A c \in used : \E k \in 1..n : s[k] = c
                                  /\ \A i, j \in 1..n : i < j => s[i] < s[j]
    BY <1>1, SortedIs DEF InOrder
<1>3. PICK k \in 1..n : s[k] = d
    BY <1>2
<1>4. /\ \A i, j \in 1..(n + 1) : i < j => z[i] < z[j]
      /\ Starts(pos, end) = {z[j] + 1 : j \in 1..(n + 1)}
      /\ \A j \in 1..n : ValueAt(z[j] + 1, pos, end) = recs[s[j]]
  <2>1. PICK e, m : e = end /\ m = n + 1
    OBVIOUS
  <2>2. (e = end - 2 /\ m = n) \/ (e = end /\ m = n + 1)
    BY <2>1
  <2>3. Scanned(pos, e, m, used, recs, z)
    BY <1>1, <2>2, LinearPlaces
  <2> QED BY <1>1, <1>2, <2>1, <2>3 DEF Scanned
<1>5. /\ \A j \in 1..(n + 1) : z[j] \in Nat
      /\ \A j \in 1..n : At(z[j] + 1) = Chr(s[j])
      /\ At(z[n + 1] + 1) = 1
  <2>1. z \in [1..(n + 1) -> Nat] /\ (\A j \in 1..n : At(z[j] + 1) = Chr(s[j])) /\ z[n + 1] = end - 2 /\ At(end - 1) = 1
    BY <1>1, <1>2 DEF LinearAt
  <2>2. (end - 2) + 1 = end - 1
    OBVIOUS
  <2> QED BY <2>1, <2>2
<1>6. \A j \in 1..n : s[j] \in Nat
    BY DigitNat
<1>7. d \in Nat
    BY DigitNat
<1>8. PICK x : x = z[k] + 1
    OBVIOUS
<1>9. PICK S : S = Starts(pos, end)
    OBVIOUS
<1>10. PICK hits : hits = {y \in S : At(y) = Chr(d) /\ \A q \in S \ {pos} : q <= y => ~Beyond(At(q), d)}
    OBVIOUS
<1>11. x \in S /\ At(x) = Chr(d)
  <2>1. k \in 1..(n + 1)
    OBVIOUS
  <2> QED BY <1>3, <1>4, <1>5, <1>8, <1>9, <2>1
<1>12. ASSUME NEW q \in S, q <= x PROVE ~Beyond(At(q), d)
  <2>1. PICK j \in 1..(n + 1) : q = z[j] + 1
    BY <1>4, <1>9
  <2>2. k \in 1..(n + 1)
    OBVIOUS
  <2>3. z[j] \in Nat /\ z[k] \in Nat
    BY <1>5, <2>2
  <2>4. ~ (k < j)
    <3>1. k < j => z[k] < z[j]
      BY <1>4, <2>2
    <3> QED BY <1>8, <1>12, <2>1, <2>3, <3>1
  <2>5. j \in 1..n /\ j <= k
    BY <2>4
  <2>6. s[j] <= s[k]
    <3>1. CASE j = k
      BY <1>6, <3>1
    <3>2. CASE j < k
      BY <1>2, <1>6, <2>5, <3>2
    <3> QED BY <2>5, <3>1, <3>2
  <2>7. At(q) = Chr(s[j])
    BY <1>5, <2>1, <2>5
  <2> QED BY <1>3, <1>6, <2>5, <2>6, <2>7 DEF Beyond, Chr
<1>13. ASSUME NEW y \in S, At(y) = Chr(d) PROVE y = x
  <2>1. PICK j \in 1..(n + 1) : y = z[j] + 1
    BY <1>4, <1>9
  <2>2. j # n + 1
    BY <1>5, <1>7, <1>13, <2>1 DEF Chr
  <2>3. j \in 1..n
    BY <2>2
  <2>4. s[j] = d
    <3>1. Chr(s[j]) = Chr(d) /\ s[j] \in Nat
      BY <1>5, <1>6, <1>13, <2>1, <2>3
    <3> QED BY <1>7, <3>1 DEF Chr
  <2>5. ~ (j < k) /\ ~ (k < j)
    BY <1>2, <1>3, <1>7, <2>3, <2>4
  <2> QED BY <1>8, <2>1, <2>3, <2>5
<1>14. hits = {x}
  <2>1. x \in hits
    BY <1>10, <1>11, <1>12
  <2>2. \A y \in hits : y = x
    BY <1>10, <1>13
  <2> QED BY <2>1, <2>2
<1>15. LinearFetch(d, pos, end) = Found(ValueAt(CHOOSE y \in hits : \A q \in hits : y <= q, pos, end))
  <2>1. hits = {y \in Starts(pos, end) : /\ At(y) = Chr(d)
                                         /\ \A q \in Starts(pos, end) \ {pos} : q <= y => ~Beyond(At(q), d)}
    BY <1>9, <1>10
  <2>2. hits # {}
    BY <1>14
  <2> QED BY <2>1, <2>2, Zenon DEF LinearFetch
<1>16. (CHOOSE y \in hits : \A q \in hits : y <= q) = x
  <2>1. k \in 1..(n + 1)
    OBVIOUS
  <2>2. x \in Nat
    BY <1>5, <1>8, <2>1
  <2>3. x <= x
    BY <2>2
  <2> QED BY <1>14, <2>3
<1> QED BY <1>3, <1>4, <1>8, <1>15, <1>16

---------------------------------------------------------------------------
(* The records of a node *)

ContentType ==
    /\ DOMAIN content \subseteq FileIds
    /\ \A id \in DOMAIN content : content[id] \in RecordsOf(id)

\* The set is finite, its records are not empty and have no zero byte.
LEMMA ContentRecords ==
  ASSUME ContentType
  PROVE  /\ IsFiniteSet(DOMAIN content)
         /\ \A id \in DOMAIN content : /\ content[id] \in Records
                                       /\ id \in Seq(AllDigits) /\ id # <<>> /\ Len(id) <= IdSize
<1>1. IsFiniteSet(DOMAIN content)
    BY SetFileAssumption, FS_Subset DEF ContentType
<1>2. ASSUME NEW id \in DOMAIN content
      PROVE content[id] \in Records /\ id \in Seq(AllDigits) /\ id # <<>> /\ Len(id) <= IdSize
    BY SetFileAssumption DEF ContentType, Records
<1> QED BY <1>1, <1>2

RecsAt(p) == [d \in ElemsAt(p) |-> content[Append(p, d)]]

\* The records at a node.
LEMMA RecsAtIs ==
  ASSUME ContentType, NEW p
  PROVE  /\ ElemsAt(p) \in SUBSET AllDigits
         /\ RecsAt(p) \in [ElemsAt(p) -> Records]
         /\ RecsAt(p) \in [ElemsAt(p) -> ByteSeq]
         /\ \A d \in ElemsAt(p) : RecsAt(p)[d] \in ByteSeq /\ RecsAt(p)[d] # <<>>
<1>1. ElemsAt(p) \in SUBSET AllDigits /\ \A d \in ElemsAt(p) : Append(p, d) \in DOMAIN content
    BY DEF ElemsAt
<1>2. \A d \in ElemsAt(p) : content[Append(p, d)] \in Records
    BY <1>1, ContentRecords
<1>3. \A r \in Records : r \in ByteSeq /\ r # <<>>
    BY DEF Records, ByteSeq
<1> QED BY <1>1, <1>2, <1>3 DEF RecsAt

\* A record can be fetched from the part of a block that has the records.
ElemAt(pos, payload, d, r) ==
    LET end == pos + payload
    IN  /\ payload # 0
        /\ IsLinear(pos, payload) => LinearFetch(d, pos, end) = Found(r)
        /\ ~IsLinear(pos, payload) =>
             \E k \in 1..NumEntries(end) : /\ EntriesWith(end, d) = {k}
                                           /\ Bytes(StartOf(end, k, pos), Entries(end)[k].size) = r

\* What marshall_elems writes.
LEMMA ElemsBlockIs ==
  ASSUME ContentType, NEW p
  PROVE  /\ ElemsBlock(p) = IF ElemsAt(p) = {} THEN <<>>
                            ELSE IF Len(Joined(Parts(ElemsAt(p), RecsAt(p)))) < MinLinear
                                 THEN LinearBlock(ElemsAt(p), RecsAt(p))
                            ELSE Table(ElemsAt(p), RecsAt(p))
         /\ ElemsBlock(p) \in ByteSeq
<1>1. ElemsBlock(p) = IF ElemsAt(p) = {} THEN <<>>
                      ELSE IF Len(Joined(Parts(ElemsAt(p), RecsAt(p)))) < MinLinear
                           THEN LinearBlock(ElemsAt(p), RecsAt(p))
                      ELSE Table(ElemsAt(p), RecsAt(p))
    BY DEF ElemsBlock, RecsAt
<1>2. <<>> \in ByteSeq
    BY DEF ByteSeq
<1>3. LinearBlock(ElemsAt(p), RecsAt(p)) \in ByteSeq
    BY RecsAtIs, LinearPartsAre
<1>4. ElemsAt(p) # {} => Table(ElemsAt(p), RecsAt(p)) \in ByteSeq
    BY RecsAtIs, PartsAre
<1> QED BY <1>1, <1>2, <1>3, <1>4

\* unmarshall_elems gives the records marshall_elems has written, and read_elem each of them.
LEMMA ElemsRead ==
  ASSUME ContentType, file \in ByteSeq, 2 * Len(file) < Byte4, NEW p,
         NEW pos, pos # 0, Written(pos, ElemsBlock(p))
  PROVE  /\ UnmarshallElems(p, pos, Len(ElemsBlock(p))) =
              Called({Rec(Append(p, d), content[Append(p, d)]) : d \in ElemsAt(p)}, Cardinality(ElemsAt(p)))
         /\ \A d \in ElemsAt(p) : ElemAt(pos, Len(ElemsBlock(p)), d, content[Append(p, d)])
<1>1. PICK used \in SUBSET AllDigits : used = ElemsAt(p)
    BY RecsAtIs
<1>2. PICK recs : /\ recs = RecsAt(p) /\ recs \in [used -> Records] /\ recs \in [used -> ByteSeq]
                  /\ \A d \in used : recs[d] \in ByteSeq /\ recs[d] # <<>>
    BY <1>1, RecsAtIs
<1>3. \A d \in used : recs[d] = content[Append(p, d)]
    BY <1>1, <1>2 DEF RecsAt
<1>4. PICK b \in ByteSeq : b = ElemsBlock(p)
    BY ElemsBlockIs
<1>5. b = IF used = {} THEN <<>>
          ELSE IF Len(Joined(Parts(used, recs))) < MinLinear THEN LinearBlock(used, recs)
          ELSE Table(used, recs)
    BY <1>1, <1>2, <1>4, ElemsBlockIs
<1>6. PICK l \in Nat : l = Len(b)
    BY DEF ByteSeq
<1>7. pos \in Nat /\ Written(pos, b)
    BY <1>4 DEF Written
<1>8. PICK end \in Nat : end = pos + l
    BY <1>7
<1>9. {Rec(Append(p, d), recs[d]) : d \in used} = {Rec(Append(p, d), content[Append(p, d)]) : d \in used}
    BY <1>3
<1>10. CASE used = {}
  <2>1. b = <<>> /\ l = 0
    BY <1>5, <1>6, <1>10
  <2>2. UnmarshallElems(p, pos, 0) = Called({}, 0)
    BY DEF UnmarshallElems
  <2>3. {Rec(Append(p, d), content[Append(p, d)]) : d \in used} = {} /\ Cardinality(used) = 0
    BY <1>10, FS_EmptySet
  <2> QED BY <1>1, <1>4, <1>6, <1>10, <2>1, <2>2, <2>3
<1>11. CASE used # {} /\ b = LinearBlock(used, recs)
  <2>1. IsLinear(pos, l) /\ \E z : LinearAt(pos, end, used, recs, z)
    BY <1>2, <1>6, <1>7, <1>8, <1>11, LinearRead
  <2>2. PICK z : LinearAt(pos, end, used, recs, z)
    BY <2>1
  <2>3. l # 0
    <3>1. PICK parts : parts = LinearParts(used, recs)
      OBVIOUS
    <3>2. Joined(parts) \in ByteSeq /\ <<0, 1>> \in ByteSeq /\ Len(<<0, 1>>) = 2
      <4>1. Joined(parts) \in ByteSeq
        BY <1>2, <3>1, LinearPartsAre, JoinedIs
      <4> QED BY <4>1 DEF ByteSeq
    <3>3. Len(b) = Len(Joined(parts)) + 2
      BY <1>11, <3>1, <3>2, ConcatProperties DEF LinearBlock, ByteSeq
    <3>4. Len(Joined(parts)) \in Nat
      BY <3>2 DEF ByteSeq
    <3> QED BY <1>6, <3>3, <3>4
  <2>4. LinearScan(p, pos, end - 2) = Called({Rec(Append(p, d), recs[d]) : d \in used}, Cardinality(used))
    <3>1. pos \in Nat \ {0}
      BY <1>7
    <3> QED BY <1>2, <1>11, <2>2, <3>1, LinearScanIs
  <2>5. UnmarshallElems(p, pos, l) = LinearScan(p, pos, end - 2)
    BY <1>8, <2>1, <2>3 DEF UnmarshallElems
  <2>6. \A d \in used : ElemAt(pos, l, d, recs[d])
    <3>1. pos \in Nat \ {0}
      BY <1>7
    <3>2. \A d \in used : LinearFetch(d, pos, end) = Found(recs[d])
      BY <1>2, <2>2, <3>1, LinearFetchIs
    <3> QED BY <1>8, <2>1, <2>3, <3>2 DEF ElemAt
  <2> QED BY <1>1, <1>3, <1>4, <1>6, <1>9, <2>4, <2>5, <2>6
<1>12. CASE used # {} /\ b = Table(used, recs)
  <2>1. TableAt(pos, end, used, recs)
    BY <1>2, <1>6, <1>7, <1>8, <1>12, TableRead
  <2>2. l # 0
    BY <1>7, <1>8, <2>1 DEF TableAt
  <2>3. ~IsLinear(pos, l) /\ UnmarshallElems(p, pos, l) = Called({Rec(Append(p, d), recs[d]) : d \in used}, Cardinality(used))
    <3>1. l \in Nat \ {0} /\ TableAt(pos, pos + l, used, recs)
      BY <1>8, <2>1, <2>2
    <3> QED BY <1>2, <3>1, TableElems
  <2>4. ASSUME NEW d \in used PROVE ElemAt(pos, l, d, recs[d])
    <3>1. PICK k \in 1..NumEntries(end) :
            /\ EntriesWith(end, d) = {k}
            /\ Entries(end)[k].size = Len(recs[d])
            /\ Written(StartOf(end, k, pos), recs[d])
      BY <1>2, <2>1, EntryOf
    <3>2. Bytes(StartOf(end, k, pos), Entries(end)[k].size) = recs[d]
      BY <3>1, WrittenBytes
    <3> QED BY <1>8, <2>2, <2>3, <3>1, <3>2 DEF ElemAt
  <2> QED BY <1>1, <1>3, <1>4, <1>6, <1>9, <2>3, <2>4
<1> QED BY <1>5, <1>10, <1>11, <1>12

---------------------------------------------------------------------------
(* Blocks *)

\* One byte, or none.
LEMMA FewBytes ==
  ASSUME NEW x \in Nat
  PROVE  <<>> \in ByteSeq /\ <<x>> \in ByteSeq /\ Len(<<x>>) = 1 /\ <<x>>[1] = x
BY DEF ByteSeq

\* The nodes of the trie are above the ids, and the sub-node of a node is one.
LEMMA NodesAre ==
  ASSUME ContentType
  PROVE  /\ <<>> \in FileNodes
         /\ \A p \in FileNodes : p \in Seq(AllDigits) /\ Len(p) \in Nat /\ Len(p) < IdSize
         /\ \A p \in FileNodes : \A d \in SubdirsAt(p) : Append(p, d) \in FileNodes
<1>1. <<>> \in FileNodes
    BY DEF FileNodes
<1>2. ASSUME NEW p \in FileNodes PROVE p \in Seq(AllDigits) /\ Len(p) \in Nat /\ Len(p) < IdSize
  <2>1. CASE p = <<>>
    BY SetFileAssumption, <2>1
  <2>2. CASE p # <<>>
    <3>0. PICK id \in FileIds : \E k \in 1..(Len(id) - 1) : p = SubSeq(id, 1, k)
      BY <2>2 DEF FileNodes
    <3>1. PICK k \in 1..(Len(id) - 1) : p = SubSeq(id, 1, k)
      BY <3>0
    <3>2. id \in Seq(AllDigits) /\ Len(id) \in Nat /\ Len(id) <= IdSize
      BY SetFileAssumption
    <3>3. k \in 0..Len(id)
      BY <3>2
    <3>4. p \in Seq(AllDigits) /\ Len(p) = k
      BY <3>1, <3>2, <3>3, SubSeqProperties
    <3> QED BY SetFileAssumption, <3>2, <3>4
  <2> QED BY <2>1, <2>2
<1>3. ASSUME NEW p \in FileNodes, NEW d \in SubdirsAt(p) PROVE Append(p, d) \in FileNodes
  <2>1. PICK id \in DOMAIN content : Len(id) > Len(p) + 1 /\ SubSeq(id, 1, Len(p) + 1) = Append(p, d)
    BY DEF SubdirsAt
  <2>2. id \in FileIds /\ Len(id) \in Nat
    BY SetFileAssumption DEF ContentType
  <2>3. Len(p) + 1 \in 1..(Len(id) - 1)
    BY <1>2, <2>1, <2>2
  <2> QED BY <2>1, <2>2, <2>3 DEF FileNodes
<1> QED BY <1>1, <1>2, <1>3

\* The last bytes of a block.
LEMMA SizeSpecType ==
  ASSUME NEW n \in Nat
  PROVE  SizeSpec(n) \in ByteSeq /\ Len(SizeSpec(n)) > 0
<1>1. MinBytes(n) \in Nat
    BY DEF MinBytes
<1>2. PICK a \in ByteSeq : a = Pack(n, MinBytes(n))
    BY PackType
<1>3. PICK b \in ByteSeq : b = <<MinBytes(n)>> /\ Len(b) = 1
  <2>1. <<MinBytes(n)>> \in ByteSeq /\ Len(<<MinBytes(n)>>) = 1
    BY <1>1, FewBytes
  <2> QED BY <2>1
<1>4. a \o b \in ByteSeq /\ Len(a \o b) = Len(a) + 1 /\ Len(a) \in Nat
    BY <1>3, ConcatProperties DEF ByteSeq
<1>5. <<0>> \in ByteSeq /\ Len(<<0>>) = 1
    BY DEF ByteSeq
<1>6. CASE n = 0
    BY <1>5, <1>6 DEF SizeSpec
<1>7. CASE n # 0
    BY <1>2, <1>3, <1>4, <1>7 DEF SizeSpec
<1> QED BY <1>6, <1>7

\* What traverse_marshall writes for a node.
LEMMA BlockType ==
  ASSUME ContentType, NEW p \in FileNodes, NEW below \in [FileNodes -> ByteSeq]
  PROVE  /\ SubdirsAt(p) \in SUBSET AllDigits
         /\ [d \in SubdirsAt(p) |-> below[Append(p, d)]] \in [SubdirsAt(p) -> ByteSeq]
         /\ SubdirsBlock(p, below) \in ByteSeq
         /\ BlockOf(p, below) \in ByteSeq /\ BlockOf(p, below) # <<>>
<1>1. SubdirsAt(p) \in SUBSET AllDigits
    BY DEF SubdirsAt
<1>2. PICK part : part = [d \in SubdirsAt(p) |-> below[Append(p, d)]]
    OBVIOUS
<1>3. part \in [SubdirsAt(p) -> ByteSeq]
    BY <1>2, NodesAre
<1>4. PICK s \in ByteSeq : s = SubdirsBlock(p, below)
  <2>1. CASE SubdirsAt(p) = {}
    <3>1. SubdirsBlock(p, below) = <<>>
      BY <2>1 DEF SubdirsBlock
    <3>2. <<>> \in ByteSeq
      BY FewBytes
    <3> QED BY <3>1, <3>2
  <2>2. CASE SubdirsAt(p) # {}
    <3>1. Table(SubdirsAt(p), part) \in ByteSeq
      BY <1>1, <1>3, <2>2, PartsAre
    <3> QED BY <1>2, <2>2, <3>1 DEF SubdirsBlock
  <2> QED BY <2>1, <2>2
<1>5. PICK e \in ByteSeq : e = ElemsBlock(p)
    BY ElemsBlockIs
<1>6. Len(e) \in Nat
    BY DEF ByteSeq
<1>7. PICK z \in ByteSeq : z = SizeSpec(Len(e)) /\ Len(z) > 0
    BY <1>6, SizeSpecType
<1>8. (e \o s) \o z \in ByteSeq /\ Len((e \o s) \o z) > 0
  <2>1. e \o s \in ByteSeq /\ Len(e \o s) \in Nat
    BY ConcatProperties DEF ByteSeq
  <2>2. Len((e \o s) \o z) = Len(e \o s) + Len(z) /\ (e \o s) \o z \in ByteSeq /\ Len(z) \in Nat
    BY <2>1, ConcatProperties DEF ByteSeq
  <2> QED BY <1>7, <2>1, <2>2
<1>9. BlockOf(p, below) = (e \o s) \o z
    BY <1>4, <1>5, <1>7 DEF BlockOf
<1>10. BlockOf(p, below) # <<>>
    BY <1>8, <1>9
<1> QED BY <1>1, <1>2, <1>3, <1>4, <1>8, <1>9, <1>10

\* Every node has a block, none of them empty.
LEMMA BlocksAre ==
  ASSUME ContentType
  PROVE  /\ Blocks \in [0..IdSize -> [FileNodes -> ByteSeq]]
         /\ \A n \in 1..IdSize : \A p \in FileNodes : /\ Blocks[n][p] = BlockOf(p, Blocks[n - 1])
                                                      /\ Blocks[n][p] # <<>>
<1>1. IdSize \in Nat
    BY SetFileAssumption
<1>2. PICK S : S = [FileNodes -> ByteSeq]
    OBVIOUS
<1>3. PICK x \in S : x = [p \in FileNodes |-> <<>>]
  <2>1. <<>> \in ByteSeq
    BY FewBytes
  <2>2. [p \in FileNodes |-> <<>>] \in S
    BY <1>2, <2>1
  <2> QED BY <2>2
<1>4. PICK step : step = [n \in 1..IdSize |-> [b \in S |-> [p \in FileNodes |-> BlockOf(p, b)]]]
    OBVIOUS
<1>5. step \in [1..IdSize -> [S -> S]]
  <2>1. \A b \in S : [p \in FileNodes |-> BlockOf(p, b)] \in S
    BY <1>2, BlockType
  <2> QED BY <1>4, <2>1
<1>6. PICK g : Run(g, IdSize, S, x, step)
    BY <1>1, <1>5, Iteration
<1>7. g \in [0..IdSize -> S] /\ g[0] = x /\ \A n \in 1..IdSize : g[n] = step[n][g[n - 1]]
    BY <1>6 DEF Run
<1>8. g = [n \in 0..IdSize |-> IF n = 0 THEN [p \in FileNodes |-> <<>>]
                               ELSE [p \in FileNodes |-> BlockOf(p, g[n - 1])]]
  <2>1. ASSUME NEW n \in 0..IdSize
        PROVE g[n] = IF n = 0 THEN [p \in FileNodes |-> <<>>]
                     ELSE [p \in FileNodes |-> BlockOf(p, g[n - 1])]
    <3>1. CASE n = 0
      BY <1>3, <1>7, <3>1
    <3>2. CASE n # 0
      <4>1. n \in 1..IdSize /\ n - 1 \in 0..IdSize
        BY <1>1, <3>2
      <4>2. g[n - 1] \in S /\ g[n] = step[n][g[n - 1]]
        BY <1>7, <4>1
      <4>3. step[n][g[n - 1]] = [p \in FileNodes |-> BlockOf(p, g[n - 1])]
        BY <1>4, <4>1, <4>2
      <4> QED BY <3>2, <4>2, <4>3
    <3> QED BY <3>1, <3>2
  <2> QED BY <1>7, <2>1
<1>9. Blocks = [n \in 0..IdSize |-> IF n = 0 THEN [p \in FileNodes |-> <<>>]
                                    ELSE [p \in FileNodes |-> BlockOf(p, Blocks[n - 1])]]
    BY <1>8 DEF Blocks
<1>10. Blocks[0] = x
    BY <1>1, <1>3, <1>9
<1>11. \A n \in 1..IdSize : Blocks[n] = [p \in FileNodes |-> BlockOf(p, Blocks[n - 1])]
  <2>1. SUFFICES ASSUME NEW n \in 1..IdSize PROVE Blocks[n] = [p \in FileNodes |-> BlockOf(p, Blocks[n - 1])]
    OBVIOUS
  <2>2. n \in 0..IdSize /\ n # 0
    BY <1>1
  <2> QED BY <1>9, <2>2, Zenon
<1>12. \A n \in 1..IdSize : Blocks[n - 1] \in S => Blocks[n] \in S
  <2>1. SUFFICES ASSUME NEW n \in 1..IdSize, Blocks[n - 1] \in S PROVE Blocks[n] \in S
    OBVIOUS
  <2>2. \A p \in FileNodes : BlockOf(p, Blocks[n - 1]) \in ByteSeq
    BY <1>2, <2>1, BlockType
  <2>3. [p \in FileNodes |-> BlockOf(p, Blocks[n - 1])] \in S
    BY <1>2, <2>2
  <2> QED BY <1>11, <2>3
<1>13. \A n \in 0..IdSize : Blocks[n] \in S
    BY <1>1, <1>10, <1>12, InLoop
<1>14. Blocks \in [0..IdSize -> [FileNodes -> ByteSeq]]
    BY <1>2, <1>9, <1>13
<1>15. ASSUME NEW n \in 1..IdSize, NEW p \in FileNodes
       PROVE  Blocks[n][p] = BlockOf(p, Blocks[n - 1]) /\ Blocks[n][p] # <<>>
  <2>1. n - 1 \in 0..IdSize
    BY <1>1
  <2>2. Blocks[n - 1] \in [FileNodes -> ByteSeq]
    BY <1>14, <2>1
  <2>3. Blocks[n][p] = BlockOf(p, Blocks[n - 1])
    BY <1>11
  <2>4. BlockOf(p, Blocks[n - 1]) # <<>>
    BY <2>2, BlockType
  <2> QED BY <2>3, <2>4
<1> QED BY <1>14, <1>15

\* A block at pos whose parts are e and s.
BlockAt(pos, size, e, s) ==
    /\ pos \in Nat \ {0} /\ size \in Nat \ {0}
    /\ PayloadSize(pos, size) = Len(e)
    /\ pos + size - SpecSize(pos, size) = pos + Len(e) + Len(s)
    /\ Written(pos, e) /\ Written(pos + Len(e), s)

\* read_payload_size finds where the parts of a block begin and end.
LEMMA BlockRead ==
  ASSUME file \in ByteSeq, 2 * Len(file) < Byte4, NEW pos, pos # 0,
         NEW e \in ByteSeq, NEW s \in ByteSeq, NEW b, b = (e \o s) \o SizeSpec(Len(e)),
         Written(pos, b)
  PROVE  BlockAt(pos, Len(b), e, s)
<1>1. PICK p \in Nat : p = pos /\ p # 0
    BY DEF Written
<1>2. PICK el \in Nat, sl \in Nat : el = Len(e) /\ sl = Len(s)
    BY DEF ByteSeq
<1>3. PICK z \in ByteSeq : z = SizeSpec(el) /\ Len(z) > 0
    BY SizeSpecType
<1>4. PICK zl \in Nat : zl = Len(z) /\ zl > 0
    BY <1>3 DEF ByteSeq
<1>5. Written(p, (e \o s) \o z)
    BY <1>1, <1>2, <1>3
<1>6. Written(p, e) /\ Written(p + Len(e), s) /\ Written(p + (Len(e) + Len(s)), z)
    BY <1>5, WrittenThree
<1>7. PICK l \in Nat : l = Len(b) /\ l = el + sl + zl
  <2>1. Len((e \o s) \o z) = Len(e) + Len(s) + Len(z)
    BY LenOfThree
  <2> QED BY <1>2, <1>3, <1>4, <2>1
<1>8. Written(p + (el + sl), z)
    BY <1>2, <1>6
<1>9. \A i \in 1..zl : At((p + (el + sl)) + i - 1) = z[i]
    BY <1>4, <1>8, WrittenBytes
<1>10. At(p + l - 1) = z[zl]
  <2>1. zl \in 1..zl
    BY <1>4
  <2>2. (p + (el + sl)) + zl - 1 = p + l - 1
    BY <1>7
  <2> QED BY <1>9, <2>1, <2>2
<1>11. PICK a \in Nat : a = z[zl] /\ zl = 1 + a /\ PayloadSize(p, l) = el
  <2>1. CASE el = 0
    <3>1. z = <<0>> /\ zl = 1 /\ z[1] = 0
      BY <1>3, <1>4, <2>1 DEF SizeSpec
    <3>2. At(p + l - 1) = 0
      BY <1>10, <3>1
    <3>3. PayloadSize(p, l) = 0
      BY <3>2 DEF PayloadSize
    <3> QED BY <2>1, <3>1, <3>3
  <2>2. CASE el # 0
    <3>1. 2 * el < Byte4 /\ Byte4 \in Nat
      <4>1. pos + Len(e) <= Len(file)
        BY <1>1, <1>6, WrittenBytes
      <4>2. Len(file) \in Nat
        BY DEF ByteSeq
      <4>3. Byte4 \in Nat
        <5>1. Byte \in Nat
          BY SetFileAssumption
        <5>2. Byte * Byte \in Nat
          BY <5>1
        <5>3. Byte * (Byte * Byte) \in Nat
          BY <5>1, <5>2
        <5>4. Byte * (Byte * (Byte * Byte)) \in Nat
          BY <5>1, <5>3
        <5> QED BY <5>4 DEF Byte4, Byte3, Byte2
      <4>4. p + el <= Len(file)
        BY <1>1, <1>2, <4>1
      <4> QED BY <4>2, <4>3, <4>4
    <3>2. PICK m \in 1..4 : m = MinBytes(el)
      BY <3>1, PackedIs
    <3>3. PICK k \in ByteSeq : k = Pack(el, m) /\ Len(k) = m /\ Unpack(k) = el
      <4>1. el \in 0..el
        OBVIOUS
      <4> QED BY <3>1, <3>2, <4>1, PackedIs
    <3>4. PICK t \in ByteSeq : t = <<m>> /\ Len(t) = 1 /\ t[1] = m
      <4>1. <<m>> \in ByteSeq /\ Len(<<m>>) = 1 /\ <<m>>[1] = m
        BY FewBytes
      <4> QED BY <4>1
    <3>5. z = k \o t
      BY <1>3, <2>2, <3>2, <3>3, <3>4 DEF SizeSpec
    <3>6. Written(p + (el + sl), k) /\ Written(p + (el + sl) + Len(k), t) /\ Len(k \o t) = Len(k) + Len(t)
      BY <1>8, <3>5, WrittenParts
    <3>7. zl = m + 1
      BY <1>4, <3>3, <3>4, <3>5, <3>6
    <3>8. z[zl] = m
      <4>1. Written(p + (el + sl) + m, t)
        BY <3>3, <3>6
      <4>2. \A i \in 1..1 : At((p + (el + sl) + m) + i - 1) = t[i]
        BY <3>4, <4>1, WrittenBytes
      <4>3. At((p + (el + sl) + m) + 1 - 1) = m
        BY <3>4, <4>2
      <4>4. (p + (el + sl) + m) + 1 - 1 = p + l - 1
        BY <1>7, <3>7
      <4> QED BY <1>10, <4>3, <4>4
    <3>9. At(p + l - 1) = m /\ m # 0
      BY <1>10, <3>8
    <3>10. SpecSize(p, l) = 1 + m
      BY <3>9 DEF SpecSize
    <3>11. p + l - (1 + m) = p + (el + sl)
      BY <1>7, <3>7
    <3>12. Bytes(p + (el + sl), m) = k
      BY <3>3, <3>6, WrittenBytes
    <3>13. PayloadSize(p, l) = Unpack(k)
      BY <3>9, <3>10, <3>11, <3>12 DEF PayloadSize
    <3> QED BY <3>3, <3>7, <3>8, <3>13
  <2> QED BY <2>1, <2>2
<1>12. SpecSize(p, l) = zl
    BY <1>10, <1>11 DEF SpecSize
<1>13. p + l - zl = p + el + sl /\ l # 0
    BY <1>4, <1>7
<1> QED BY <1>1, <1>2, <1>6, <1>7, <1>11, <1>12, <1>13 DEF BlockAt

---------------------------------------------------------------------------
(* What reading a written block gives *)

Level(n, read) ==
    [p \in Seq(AllDigits) |-> [pos \in Nat |-> [size \in Nat |->
        IF n = 0 THEN Failed ELSE UnmarshallBlock(p, pos, size, read)]]]
Levels(g, n) == g = [k \in 0..n |-> Level(k, g[k - 1])]

\* The recursion of unmarshall_block ends.
LEMMA LevelsExist == ASSUME NEW n \in Nat PROVE \E g : Levels(g, n)
<1>1. PICK T : T = {k \in 0..n : \E g : Levels(g, k)}
    OBVIOUS
<1>2. \A x, y : Level(0, x) = Level(0, y)
    BY DEF Level
<1>3. 0 \in T
  <2>1. PICK g : g = [k \in 0..0 |-> Level(0, 0)]
    OBVIOUS
  <2>2. \A k \in 0..0 : k = 0 /\ Level(k, g[k - 1]) = Level(0, 0)
    BY <1>2
  <2>3. Levels(g, 0)
    BY <2>1, <2>2 DEF Levels
  <2> QED BY <1>1, <2>3
<1>4. ASSUME NEW k \in 1..n, k - 1 \in T PROVE k \in T
  <2>1. PICK m \in 0..n : m = k - 1 /\ k = m + 1
    OBVIOUS
  <2>2. PICK g : Levels(g, m)
    BY <1>1, <1>4, <2>1
  <2>3. PICK h : h = [i \in 0..k |-> IF i = k THEN Level(k, g[m]) ELSE g[i]]
    OBVIOUS
  <2>4. \A i \in 0..m : g[i] = Level(i, g[i - 1])
    BY <2>2 DEF Levels
  <2>5. ASSUME NEW i \in 0..k PROVE h[i] = Level(i, h[i - 1])
    <3>1. CASE i = k
      <4>1. i - 1 = m /\ m \in 0..k /\ m # k
        BY <2>1, <3>1
      <4>2. h[m] = g[m]
        BY <2>3, <4>1
      <4> QED BY <2>3, <3>1, <4>1, <4>2
    <3>2. CASE i # k /\ i # 0
      <4>1. i \in 0..m /\ i - 1 \in 0..k /\ i - 1 # k
        BY <2>1, <3>2
      <4>2. h[i] = g[i] /\ h[i - 1] = g[i - 1]
        BY <2>3, <3>2, <4>1
      <4> QED BY <2>4, <4>1, <4>2
    <3>3. CASE i # k /\ i = 0
      <4>1. 0 \in 0..m /\ h[0] = g[0]
        BY <2>3, <3>3
      <4>2. g[0] = Level(0, g[0 - 1])
        BY <2>4, <4>1
      <4> QED BY <1>2, <3>3, <4>1, <4>2
    <3> QED BY <3>1, <3>2, <3>3
  <2>6. h = [i \in 0..k |-> Level(i, h[i - 1])]
    BY <2>3, <2>5
  <2>7. Levels(h, k)
    BY <2>6 DEF Levels
  <2> QED BY <1>1, <2>7
<1>5. n \in T
  <2>1. \A k \in 0..n : k \in T
    BY <1>3, <1>4, UpTo
  <2> QED BY <2>1
<1> QED BY <1>1, <1>5

\* Unmarshall, as unmarshall_block calls itself.
LEMMA UnmarshallIs ==
  \A n \in 1..IdSize : \A p \in Seq(AllDigits) : \A pos \in Nat : \A size \in Nat :
      Unmarshall[n][p][pos][size] = UnmarshallBlock(p, pos, size, Unmarshall[n - 1])
<1>1. IdSize \in Nat
    BY SetFileAssumption
<1>2. PICK g : Levels(g, IdSize)
    BY <1>1, LevelsExist
<1>3. g = [n \in 0..IdSize |->
             [p \in Seq(AllDigits) |-> [pos \in Nat |-> [size \in Nat |->
                IF n = 0 THEN Failed ELSE UnmarshallBlock(p, pos, size, g[n - 1])]]]]
    BY <1>2, Zenon DEF Levels, Level
<1>4. Unmarshall = [n \in 0..IdSize |->
             [p \in Seq(AllDigits) |-> [pos \in Nat |-> [size \in Nat |->
                IF n = 0 THEN Failed ELSE UnmarshallBlock(p, pos, size, Unmarshall[n - 1])]]]]
    BY <1>3, Zenon DEF Unmarshall
<1>5. ASSUME NEW n \in 1..IdSize, NEW p \in Seq(AllDigits), NEW pos \in Nat, NEW size \in Nat
      PROVE  Unmarshall[n][p][pos][size] = UnmarshallBlock(p, pos, size, Unmarshall[n - 1])
  <2>1. n \in 0..IdSize /\ n # 0
    BY <1>1
  <2>2. Unmarshall[n] = [q \in Seq(AllDigits) |-> [at \in Nat |-> [sz \in Nat |->
                IF n = 0 THEN Failed ELSE UnmarshallBlock(q, at, sz, Unmarshall[n - 1])]]]
    BY <1>4, <2>1, Zenon
  <2>3. Unmarshall[n][p] = [at \in Nat |-> [sz \in Nat |->
                IF n = 0 THEN Failed ELSE UnmarshallBlock(p, at, sz, Unmarshall[n - 1])]]
    BY <2>2, Zenon
  <2>4. Unmarshall[n][p][pos] = [sz \in Nat |->
                IF n = 0 THEN Failed ELSE UnmarshallBlock(p, pos, sz, Unmarshall[n - 1])]
    BY <2>3, Zenon
  <2>5. Unmarshall[n][p][pos][size] = IF n = 0 THEN Failed ELSE UnmarshallBlock(p, pos, size, Unmarshall[n - 1])
    BY <2>4, Zenon
  <2> QED BY <2>1, <2>5
<1> QED BY <1>5, Zenon

\* The ids that go through a node, and the records of the set.
Below(p) == {id \in DOMAIN content : Len(id) > Len(p) /\ SubSeq(id, 1, Len(p)) = p}
RecOf == [id \in DOMAIN content |-> Rec(id, content[id])]
OwnIds(p) == {Append(p, d) : d \in ElemsAt(p)}

\* The first digits of an id.
LEMMA PrefixesOf ==
  ASSUME NEW id \in Seq(AllDigits), NEW k \in Nat, k < Len(id)
  PROVE  /\ SubSeq(id, 1, k) \in Seq(AllDigits) /\ Len(SubSeq(id, 1, k)) = k
         /\ id[k + 1] \in AllDigits
         /\ SubSeq(id, 1, k + 1) = Append(SubSeq(id, 1, k), id[k + 1])
         /\ k + 1 = Len(id) => SubSeq(id, 1, k + 1) = id
<1>1. Len(id) \in Nat /\ k + 1 \in 1..Len(id) /\ k \in 0..Len(id)
    OBVIOUS
<1>2. SubSeq(id, 1, k) \in Seq(AllDigits) /\ Len(SubSeq(id, 1, k)) = k
      /\ \A i \in 1..k : SubSeq(id, 1, k)[i] = id[i]
  <2>1. \A i \in 1..k : 1 + i - 1 = i
    OBVIOUS
  <2> QED BY <1>1, <2>1, SubSeqProperties
<1>3. id[k + 1] \in AllDigits
    BY <1>1
<1>4. PICK q \in Seq(AllDigits) : q = SubSeq(id, 1, k) /\ Len(q) = k /\ \A i \in 1..k : q[i] = id[i]
    BY <1>2
<1>5. PICK r : r = SubSeq(id, 1, k + 1)
    OBVIOUS
<1>6. r \in Seq(AllDigits) /\ Len(r) = k + 1 /\ \A i \in 1..(k + 1) : r[i] = id[i]
  <2>1. \A i \in 1..(k + 1) : 1 + i - 1 = i
    OBVIOUS
  <2>2. k + 1 \in 0..Len(id)
    BY <1>1
  <2> QED BY <1>1, <1>5, <2>1, <2>2, SubSeqProperties
<1>7. PICK a : a = Append(q, id[k + 1])
    OBVIOUS
<1>8. a \in Seq(AllDigits) /\ Len(a) = k + 1 /\ (\A i \in 1..k : a[i] = q[i]) /\ a[k + 1] = id[k + 1]
    BY <1>3, <1>4, <1>7, AppendProperties
<1>9. a = r
  <2>1. \A i \in 1..(k + 1) : a[i] = r[i]
    <3>1. \A i \in 1..(k + 1) : i \in 1..k \/ i = k + 1
      OBVIOUS
    <3> QED BY <1>4, <1>6, <1>8, <3>1
  <2> QED BY <1>6, <1>8, <2>1, SeqEqual
<1>10. k + 1 = Len(id) => r = id
    BY <1>6, SeqEqual
<1> QED BY <1>2, <1>3, <1>4, <1>5, <1>7, <1>9, <1>10

\* The ids below a node are its own and those below its sub-nodes, none of them twice.
LEMMA BelowIs ==
  ASSUME ContentType, NEW p \in Seq(AllDigits)
  PROVE  /\ Below(p) = OwnIds(p) \cup UNION {Below(Append(p, d)) : d \in SubdirsAt(p)}
         /\ OwnIds(p) \cap UNION {Below(Append(p, d)) : d \in SubdirsAt(p)} = {}
         /\ OwnIds(p) \subseteq DOMAIN content
         /\ \A d \in SubdirsAt(p) : Below(Append(p, d)) \subseteq DOMAIN content
         /\ \A d, e \in SubdirsAt(p) : d # e => Below(Append(p, d)) \cap Below(Append(p, e)) = {}
         /\ {RecOf[id] : id \in OwnIds(p)} = {Rec(Append(p, d), content[Append(p, d)]) : d \in ElemsAt(p)}
         /\ IsFiniteSet(OwnIds(p)) /\ Cardinality(OwnIds(p)) = Cardinality(ElemsAt(p))
<1>1. PICK n \in Nat : n = Len(p)
    OBVIOUS
<1>2. \A d \in AllDigits : /\ Append(p, d) \in Seq(AllDigits) /\ Len(Append(p, d)) = n + 1
                           /\ \A i \in 1..n : Append(p, d)[i] = p[i]
                           /\ Append(p, d)[n + 1] = d
    BY <1>1, AppendProperties
<1>3. \A id \in DOMAIN content : id \in Seq(AllDigits) /\ Len(id) \in Nat
    BY ContentRecords
<1>4. OwnIds(p) \subseteq DOMAIN content
    BY DEF OwnIds, ElemsAt
<1>5. ElemsAt(p) \subseteq AllDigits /\ SubdirsAt(p) \subseteq AllDigits
    BY DEF ElemsAt, SubdirsAt
<1>6. \A d \in AllDigits : Below(Append(p, d)) =
          {id \in DOMAIN content : Len(id) > n + 1 /\ SubSeq(id, 1, n + 1) = Append(p, d)}
    BY <1>2 DEF Below
<1>7. Below(p) = {id \in DOMAIN content : Len(id) > n /\ SubSeq(id, 1, n) = p}
    BY <1>1 DEF Below
<1>8. ASSUME NEW id \in Below(p)
      PROVE  id \in OwnIds(p) \/ \E d \in SubdirsAt(p) : id \in Below(Append(p, d))
  <2>1. id \in DOMAIN content /\ id \in Seq(AllDigits) /\ Len(id) \in Nat /\ n < Len(id) /\ SubSeq(id, 1, n) = p
    BY <1>3, <1>7
  <2>2. PICK d \in AllDigits : d = id[n + 1] /\ SubSeq(id, 1, n + 1) = Append(p, d)
                               /\ (n + 1 = Len(id) => SubSeq(id, 1, n + 1) = id)
    BY <2>1, PrefixesOf
  <2>3. CASE n + 1 = Len(id)
    <3>1. Append(p, d) = id
      BY <2>2, <2>3
    <3> QED BY <2>1, <3>1 DEF OwnIds, ElemsAt
  <2>4. CASE n + 1 # Len(id)
    <3>1. Len(id) > n + 1
      BY <2>1, <2>4
    <3>2. d \in SubdirsAt(p)
      BY <1>1, <2>1, <2>2, <3>1 DEF SubdirsAt
    <3>3. id \in Below(Append(p, d))
      BY <1>6, <2>1, <2>2, <3>1
    <3> QED BY <3>2, <3>3
  <2> QED BY <2>3, <2>4
<1>9. ASSUME NEW d \in AllDigits
      PROVE  /\ SubSeq(Append(p, d), 1, n) = p
             /\ SubSeq(Append(p, d), 1, n + 1) = Append(p, d)
  <2>1. PICK a \in Seq(AllDigits) : a = Append(p, d) /\ Len(a) = n + 1 /\ \A i \in 1..n : a[i] = p[i]
    BY <1>2
  <2>2. PICK q : q = SubSeq(a, 1, n)
    OBVIOUS
  <2>3. q \in Seq(AllDigits) /\ Len(q) = n /\ \A i \in 1..n : q[i] = a[i]
    <3>1. \A i \in 1..n : 1 + i - 1 = i
      OBVIOUS
    <3>2. n \in 0..Len(a)
      BY <2>1
    <3> QED BY <2>1, <2>2, <3>1, <3>2, SubSeqProperties
  <2>4. q = p
    BY <1>1, <2>1, <2>3, SeqEqual
  <2>5. SubSeq(a, 1, n + 1) = a
    <3>1. n < Len(a) /\ n + 1 = Len(a)
      BY <2>1
    <3>2. (n + 1 = Len(a)) => SubSeq(a, 1, n + 1) = a
      BY <3>1, PrefixesOf, Zenon
    <3> QED BY <3>1, <3>2
  <2> QED BY <2>1, <2>2, <2>4, <2>5
<1>10. OwnIds(p) \subseteq Below(p)
  <2>1. SUFFICES ASSUME NEW d \in ElemsAt(p) PROVE Append(p, d) \in Below(p)
    BY DEF OwnIds
  <2>2. d \in AllDigits /\ Append(p, d) \in DOMAIN content
    BY DEF ElemsAt
  <2>3. PICK a : a = Append(p, d)
    OBVIOUS
  <2>4. Len(a) > n
    BY <1>2, <2>2, <2>3
  <2>5. SubSeq(a, 1, n) = p
    BY <1>9, <2>2, <2>3
  <2> QED BY <1>7, <2>2, <2>3, <2>4, <2>5
<1>11. ASSUME NEW d \in AllDigits, NEW id \in Below(Append(p, d)) PROVE id \in Below(p)
  <2>1. id \in DOMAIN content /\ id \in Seq(AllDigits) /\ Len(id) \in Nat /\ Len(id) > n + 1
        /\ SubSeq(id, 1, n + 1) = Append(p, d)
    BY <1>3, <1>6
  <2>2. n < Len(id)
    BY <2>1
  <2>3. PICK q \in Seq(AllDigits) : q = SubSeq(id, 1, n) /\ Len(q) = n /\ id[n + 1] \in AllDigits
                                    /\ Append(q, id[n + 1]) = Append(p, d)
    <3>1. PICK q : q = SubSeq(id, 1, n)
      OBVIOUS
    <3>2. q \in Seq(AllDigits) /\ Len(q) = n /\ id[n + 1] \in AllDigits
      BY <2>1, <2>2, <3>1, PrefixesOf
    <3>3. SubSeq(id, 1, n + 1) = Append(q, id[n + 1])
      BY <2>1, <2>2, <3>1, PrefixesOf
    <3> QED BY <2>1, <3>1, <3>2, <3>3
  <2>4. \A i \in 1..n : q[i] = Append(q, id[n + 1])[i]
    BY <2>3, AppendProperties
  <2>5. q = p
    <3>1. \A i \in 1..n : q[i] = p[i]
      BY <1>2, <2>3, <2>4
    <3> QED BY <1>1, <2>3, <3>1, SeqEqual
  <2> QED BY <1>7, <2>1, <2>2, <2>3, <2>5
<1>12. Below(p) = OwnIds(p) \cup UNION {Below(Append(p, d)) : d \in SubdirsAt(p)}
    BY <1>5, <1>8, <1>10, <1>11
<1>13. ASSUME NEW d \in SubdirsAt(p), NEW id \in Below(Append(p, d)) PROVE id \notin OwnIds(p)
  <2>1. Len(id) > n + 1
    BY <1>5, <1>6
  <2>2. \A e \in ElemsAt(p) : Len(Append(p, e)) = n + 1
    BY <1>2, <1>5
  <2>3. \A x \in OwnIds(p) : Len(x) = n + 1
    BY <2>2 DEF OwnIds
  <2> QED BY <2>1, <2>3
<1>14. ASSUME NEW d \in SubdirsAt(p), NEW e \in SubdirsAt(p), d # e
       PROVE  Below(Append(p, d)) \cap Below(Append(p, e)) = {}
  <2>1. Append(p, d) # Append(p, e)
    BY <1>2, <1>5, <1>14
  <2> QED BY <1>5, <1>6, <2>1
<1>15. {RecOf[id] : id \in OwnIds(p)} = {Rec(Append(p, d), content[Append(p, d)]) : d \in ElemsAt(p)}
  <2>1. \A id \in OwnIds(p) : RecOf[id] = Rec(id, content[id])
    BY <1>4 DEF RecOf
  <2> QED BY <2>1 DEF OwnIds
<1>16. IsFiniteSet(OwnIds(p)) /\ Cardinality(OwnIds(p)) = Cardinality(ElemsAt(p))
  <2>1. PICK f : f = [d \in ElemsAt(p) |-> Append(p, d)]
    OBVIOUS
  <2>2. f \in [ElemsAt(p) -> OwnIds(p)] /\ \A x \in OwnIds(p) : \E d \in ElemsAt(p) : f[d] = x
    BY <2>1 DEF OwnIds
  <2>3. \A d, e \in ElemsAt(p) : f[d] = f[e] => d = e
    BY <1>2, <1>5, <2>1
  <2>4. IsFiniteSet(ElemsAt(p))
    BY <1>5, SortedIs
  <2> QED BY <2>2, <2>3, <2>4, InPairs
<1>17. \A d \in SubdirsAt(p) : Below(Append(p, d)) \subseteq DOMAIN content
    BY DEF Below
<1> QED BY <1>4, <1>12, <1>13, <1>14, <1>15, <1>16, <1>17

\* The calls for two disjoint sets of ids.
LEMMA PlusFor ==
  ASSUME NEW D, IsFiniteSet(D), NEW F, NEW S \in SUBSET D, NEW T \in SUBSET D, S \cap T = {}
  PROVE  Plus(CallsFor(F, S), CallsFor(F, T)) = CallsFor(F, S \cup T)
<1>1. IsFiniteSet(S) /\ IsFiniteSet(T) /\ Cardinality(S) \in Nat /\ Cardinality(T) \in Nat
    BY FS_Subset, FS_CardinalityType
<1>2. Cardinality(S \cup T) = Cardinality(S) + Cardinality(T)
  <2>1. Cardinality(S \cup T) = Cardinality(S) + Cardinality(T) - Cardinality(S \cap T)
    BY <1>1, FS_Union
  <2>2. Cardinality(S \cap T) = 0
    BY FS_EmptySet
  <2> QED BY <1>1, <2>1, <2>2
<1>3. {F[x] : x \in S \cup T} = {F[x] : x \in S} \cup {F[x] : x \in T}
    OBVIOUS
<1>4. PICK a, b : a = CallsFor(F, S) /\ b = CallsFor(F, T)
    OBVIOUS
<1>5. /\ a.ok = TRUE /\ a.recs = {F[x] : x \in S} /\ a.num = Cardinality(S)
      /\ b.ok = TRUE /\ b.recs = {F[x] : x \in T} /\ b.num = Cardinality(T)
    BY <1>4 DEF CallsFor, Called
<1>6. Plus(a, b) = Called(a.recs \cup b.recs, a.num + b.num)
    BY <1>5, Zenon DEF Plus
<1> QED BY <1>2, <1>3, <1>4, <1>5, <1>6 DEF CallsFor

\* What a block has: the parts of BlockOf and where they are.
LEMMA BlockParts ==
  ASSUME ContentType, file \in ByteSeq, 2 * Len(file) < Byte4,
         NEW p \in FileNodes, NEW below \in [FileNodes -> ByteSeq],
         NEW pos, pos # 0, Written(pos, BlockOf(p, below))
  PROVE  BlockAt(pos, Len(BlockOf(p, below)), ElemsBlock(p), SubdirsBlock(p, below))
<1>1. PICK e \in ByteSeq : e = ElemsBlock(p)
    BY ElemsBlockIs
<1>2. PICK s \in ByteSeq : s = SubdirsBlock(p, below)
    BY BlockType
<1>3. PICK b : b = BlockOf(p, below) /\ b = (e \o s) \o SizeSpec(Len(e))
    BY <1>1, <1>2 DEF BlockOf
<1>4. Written(pos, b)
    BY <1>3
<1>5. BlockAt(pos, Len(b), e, s)
    BY <1>3, <1>4, BlockRead
<1> QED BY <1>1, <1>2, <1>3, <1>5

Gives(n) ==
    \A p \in FileNodes : \A pos \in Nat :
        Len(p) + n = IdSize /\ pos # 0 /\ Written(pos, Blocks[n][p]) =>
            Unmarshall[n][p][pos][Len(Blocks[n][p])] = CallsFor(RecOf, Below(p))

\* Reading a node is right if reading its sub-nodes is.
LEMMA NextGives ==
  ASSUME ContentType, file \in ByteSeq, 2 * Len(file) < Byte4, NEW n \in 1..IdSize, Gives(n - 1)
  PROVE  Gives(n)
<1>1. SUFFICES ASSUME NEW p \in FileNodes, NEW pos \in Nat,
                      Len(p) + n = IdSize, pos # 0, Written(pos, Blocks[n][p])
               PROVE  Unmarshall[n][p][pos][Len(Blocks[n][p])] = CallsFor(RecOf, Below(p))
    BY DEF Gives
<1>2. IdSize \in Nat /\ n - 1 \in 0..IdSize
    BY SetFileAssumption
<1>3. PICK below \in [FileNodes -> ByteSeq] : below = Blocks[n - 1]
    BY <1>2, BlocksAre
<1>4. Blocks[n][p] = BlockOf(p, below)
    BY <1>3, BlocksAre
<1>5. PICK e \in ByteSeq, s \in ByteSeq, size \in Nat \ {0} :
            /\ e = ElemsBlock(p) /\ s = SubdirsBlock(p, below) /\ size = Len(BlockOf(p, below))
            /\ PayloadSize(pos, size) = Len(e)
            /\ pos + size - SpecSize(pos, size) = pos + Len(e) + Len(s)
            /\ pos \in Nat \ {0} /\ Written(pos, e) /\ Written(pos + Len(e), s)
  <2>1. PICK e, s, size : e = ElemsBlock(p) /\ s = SubdirsBlock(p, below) /\ size = Len(BlockOf(p, below))
    OBVIOUS
  <2>2. e \in ByteSeq /\ s \in ByteSeq
    BY <2>1, ElemsBlockIs, BlockType
  <2>3. BlockAt(pos, size, e, s)
    BY <1>1, <1>4, <2>1, BlockParts
  <2> QED BY <2>1, <2>2, <2>3 DEF BlockAt
<1>6. PICK el \in Nat, sl \in Nat : el = Len(e) /\ sl = Len(s)
    BY DEF ByteSeq
<1>7. PICK read : read = Unmarshall[n - 1]
    OBVIOUS
<1>8. p \in Seq(AllDigits) /\ Len(p) \in Nat
    BY NodesAre
<1>9. Unmarshall[n][p][pos][size] = UnmarshallBlock(p, pos, size, read)
  <2>1. size \in Nat
    OBVIOUS
  <2> QED BY <1>7, <1>8, <2>1, UnmarshallIs
<1>10. PICK at \in Nat, end \in Nat : at = pos + el /\ end = pos + el + sl /\ end = at + sl
    OBVIOUS
<1>11. UnmarshallBlock(p, pos, size, read) =
         Plus(UnmarshallElems(p, pos, el), UnmarshallSubdirs(p, at, end, read))
  <2>1. PayloadSize(pos, size) = el /\ pos + size - SpecSize(pos, size) = end
    BY <1>5, <1>6, <1>10
  <2>2. ~ (pos + el > end)
    BY <1>10
  <2> QED BY <1>10, <2>1, <2>2 DEF UnmarshallBlock
<1>12. UnmarshallElems(p, pos, el) = CallsFor(RecOf, OwnIds(p))
  <2>1. UnmarshallElems(p, pos, Len(ElemsBlock(p))) =
          Called({Rec(Append(p, d), content[Append(p, d)]) : d \in ElemsAt(p)}, Cardinality(ElemsAt(p)))
    BY <1>5, ElemsRead
  <2>2. {RecOf[id] : id \in OwnIds(p)} = {Rec(Append(p, d), content[Append(p, d)]) : d \in ElemsAt(p)}
        /\ Cardinality(OwnIds(p)) = Cardinality(ElemsAt(p))
    BY <1>8, BelowIs
  <2> QED BY <1>5, <1>6, <2>1, <2>2, Zenon DEF CallsFor
<1>13. PICK used \in SUBSET AllDigits : used = SubdirsAt(p)
    BY DEF SubdirsAt
<1>14. PICK A : A = [d \in used |-> Below(Append(p, d))]
    OBVIOUS
<1>15. PICK U : U = UNION {A[d] : d \in used}
    OBVIOUS
<1>16. UnmarshallSubdirs(p, at, end, read) = CallsFor(RecOf, U)
  <2>1. CASE used = {}
    <3>1. s = <<>> /\ sl = 0 /\ at = end
      <4>1. s = <<>>
        BY <1>5, <1>13, <2>1 DEF SubdirsBlock
      <4> QED BY <1>6, <1>10, <4>1
    <3>2. UnmarshallSubdirs(p, at, end, read) = Called({}, 0)
      BY <3>1 DEF UnmarshallSubdirs
    <3>3. {RecOf[id] : id \in U} = {} /\ Cardinality(U) = 0
      <4>1. U = {}
        BY <1>15, <2>1
      <4> QED BY <4>1, FS_EmptySet
    <3> QED BY <3>2, <3>3, Zenon DEF CallsFor
  <2>2. CASE used # {}
    <3>1. PICK part \in [used -> ByteSeq] : part = [d \in used |-> below[Append(p, d)]]
      BY <1>13, BlockType
    <3>2. s = Table(used, part)
      BY <1>5, <1>13, <2>2, <3>1 DEF SubdirsBlock
    <3>3. TableAt(at, end, used, part)
      <4>1. Written(at, Table(used, part)) /\ end = at + Len(Table(used, part))
        BY <1>5, <1>6, <1>10, <3>2
      <4> QED BY <2>2, <4>1, TableRead
    <3>4. \A d \in used : /\ Append(p, d) \in FileNodes /\ Len(Append(p, d)) = Len(p) + 1
                          /\ part[d] = Blocks[n - 1][Append(p, d)]
      <4>1. \A d \in used : Append(p, d) \in FileNodes
        BY <1>13, NodesAre
      <4>2. \A d \in used : Len(Append(p, d)) = Len(p) + 1
        BY <1>8, <1>13, AppendProperties
      <4> QED BY <1>3, <3>1, <4>1, <4>2
    <3>5. \A d \in used : part[d] \in ByteSeq /\ part[d] # <<>>
      <4>1. SUFFICES ASSUME NEW d \in used PROVE part[d] \in ByteSeq /\ part[d] # <<>>
        OBVIOUS
      <4>2. Append(p, d) \in FileNodes /\ Len(p) + 1 < IdSize
        BY <3>4, NodesAre
      <4>3. n - 1 \in 1..IdSize
        BY <1>1, <1>2, <1>8, <4>2
      <4>4. Blocks[n - 1][Append(p, d)] # <<>>
        BY <4>2, <4>3, BlocksAre
      <4> QED BY <3>1, <3>4, <4>4
    <3>6. IsFiniteSet(DOMAIN content) /\ A \in [used -> SUBSET DOMAIN content]
          /\ \A d, e1 \in used : d # e1 => A[d] \cap A[e1] = {}
      <4>1. IsFiniteSet(DOMAIN content)
        BY ContentRecords
      <4>2. \A d \in used : Below(Append(p, d)) \subseteq DOMAIN content
        BY <1>8, <1>13, BelowIs
      <4>3. \A d, e1 \in used : d # e1 => Below(Append(p, d)) \cap Below(Append(p, e1)) = {}
        BY <1>8, <1>13, BelowIs
      <4> QED BY <1>14, <4>1, <4>2, <4>3
    <3>7. ASSUME NEW d \in used, NEW x \in Nat, Written(x, part[d]), x >= at
          PROVE  read[Append(p, d)][x][Len(part[d])] = CallsFor(RecOf, A[d])
      <4>1. Append(p, d) \in FileNodes /\ Len(Append(p, d)) + (n - 1) = IdSize /\ x # 0
        BY <1>1, <1>8, <1>10, <3>4, <3>7
      <4>2. Written(x, Blocks[n - 1][Append(p, d)])
        BY <3>4, <3>7
      <4>3. Unmarshall[n - 1][Append(p, d)][x][Len(Blocks[n - 1][Append(p, d)])] = CallsFor(RecOf, Below(Append(p, d)))
        BY <4>1, <4>2 DEF Gives
      <4> QED BY <1>7, <1>14, <3>4, <4>3
    <3>8. UnmarshallSubdirs(p, at, end, read) = CallsFor(RecOf, UNION {A[d] : d \in used})
      BY <3>3, <3>5, <3>6, <3>7, TableSubdirs
    <3> QED BY <1>15, <3>8
  <2> QED BY <2>1, <2>2
<1>17. /\ IsFiniteSet(DOMAIN content)
       /\ OwnIds(p) \in SUBSET DOMAIN content /\ U \in SUBSET DOMAIN content
       /\ OwnIds(p) \cap U = {} /\ Below(p) = OwnIds(p) \cup U
  <2>1. U = UNION {Below(Append(p, d)) : d \in SubdirsAt(p)}
    BY <1>13, <1>14, <1>15
  <2>2. OwnIds(p) \in SUBSET DOMAIN content /\ OwnIds(p) \cap U = {} /\ Below(p) = OwnIds(p) \cup U
    BY <1>8, <2>1, BelowIs
  <2>3. \A d \in SubdirsAt(p) : Below(Append(p, d)) \subseteq DOMAIN content
    BY <1>8, BelowIs
  <2> QED BY <2>1, <2>2, <2>3, ContentRecords
<1>18. Plus(CallsFor(RecOf, OwnIds(p)), CallsFor(RecOf, U)) = CallsFor(RecOf, Below(p))
    BY <1>17, PlusFor
<1> QED BY <1>4, <1>5, <1>9, <1>11, <1>12, <1>16, <1>18

\* Reading a node is right, whatever its depth.
LEMMA BlocksGive ==
  ASSUME ContentType, file \in ByteSeq, 2 * Len(file) < Byte4
  PROVE  \A n \in 0..IdSize : Gives(n)
<1>1. IdSize \in Nat
    BY SetFileAssumption
<1>2. PICK T : T = {n \in 0..IdSize : Gives(n)}
    OBVIOUS
<1>3. 0 \in T
  <2>1. \A p \in FileNodes : ~ (Len(p) + 0 = IdSize)
    <3>1. \A p \in FileNodes : Len(p) \in Nat /\ Len(p) < IdSize
      BY NodesAre
    <3> QED BY <1>1, <3>1
  <2>2. Gives(0)
    BY <2>1 DEF Gives
  <2> QED BY <1>1, <1>2, <2>2
<1>4. \A n \in 1..IdSize : n - 1 \in T => n \in T
    BY <1>2, NextGives
<1>5. \A n \in 0..IdSize : n \in T
    BY <1>1, <1>3, <1>4, UpTo
<1> QED BY <1>2, <1>5

\* Opening the file.
LEMMA FileGives ==
  ASSUME ContentType, file = Marshall, 2 * Len(file) < Byte4
  PROVE  /\ file \in ByteSeq /\ Written(3, Blocks[IdSize][<<>>]) /\ Len(file) - Len(Header) = Len(Blocks[IdSize][<<>>])
         /\ Len(Header) = 3
         /\ UnmarshallFile = CallsFor(RecOf, DOMAIN content)
<1>1. IdSize \in Nat /\ IdSize \in 0..IdSize
    BY SetFileAssumption
<1>2. <<>> \in FileNodes
    BY NodesAre
<1>3. PICK b \in ByteSeq : b = Blocks[IdSize][<<>>]
    BY <1>1, <1>2, BlocksAre
<1>4. PICK h \in ByteSeq : h = Header /\ Len(h) = 3
  <2>1. Header \in Seq(Nat) /\ Len(Header) = 3
    BY DEF Header
  <2> QED BY <2>1 DEF ByteSeq
<1>5. PICK bl \in Nat : bl = Len(b)
    BY DEF ByteSeq
<1>6. file = h \o b /\ file \in ByteSeq /\ Len(file) = 3 + bl
  <2>1. file = h \o b
    BY <1>3, <1>4 DEF Marshall
  <2>2. h \o b \in Seq(Nat) /\ Len(h \o b) = Len(h) + Len(b)
    BY ConcatProperties DEF ByteSeq
  <2> QED BY <1>4, <1>5, <2>1, <2>2 DEF ByteSeq
<1>7. Written(0, file)
  <2>1. Len(file) \in Nat
    BY <1>6 DEF ByteSeq
  <2>2. \A i \in 1..Len(file) : 0 + i = i
    BY <2>1
  <2> QED BY <1>6, <2>1, <2>2 DEF Written
<1>8. Written(0, h \o b)
    BY <1>6, <1>7
<1>9. Written(0 + Len(h), b)
    BY <1>8, WrittenParts
<1>10. Written(3, b)
    BY <1>4, <1>9
<1>11. Gives(IdSize)
    BY <1>1, <1>6, BlocksGive
<1>12. Unmarshall[IdSize][<<>>][3][bl] = CallsFor(RecOf, Below(<<>>))
  <2>1. Len(<<>>) + IdSize = IdSize /\ 3 \in Nat /\ 3 # 0
    BY <1>1
  <2> QED BY <1>2, <1>3, <1>5, <1>10, <1>11, <2>1 DEF Gives
<1>13. Below(<<>>) = DOMAIN content
  <2>1. \A id \in DOMAIN content : Len(id) > Len(<<>>) /\ SubSeq(id, 1, Len(<<>>)) = <<>>
    <3>1. SUFFICES ASSUME NEW id \in DOMAIN content PROVE Len(id) > 0 /\ SubSeq(id, 1, 0) = <<>>
      OBVIOUS
    <3>2. id \in Seq(AllDigits) /\ id # <<>>
      BY ContentRecords
    <3>3. Len(id) \in Nat /\ Len(id) # 0
      BY <3>2, EmptySeq
    <3>4. SubSeq(id, 1, 0) \in Seq(AllDigits) /\ Len(SubSeq(id, 1, 0)) = 0
      BY <3>2, <3>3, PrefixesOf
    <3> QED BY <3>3, <3>4, EmptySeq
  <2> QED BY <2>1 DEF Below
<1>14. Len(file) - Len(Header) = bl
    BY <1>4, <1>6
<1> QED BY <1>3, <1>4, <1>5, <1>6, <1>10, <1>12, <1>13, <1>14 DEF UnmarshallFile

---------------------------------------------------------------------------
(* The way to a record *)

WayStep(id, k, b) ==
    IF k = 0 THEN Place(Len(Header), Len(file) - Len(Header)) ELSE SubPlace(b, id[k])
Ways(g, id, n) == g = [k \in 0..n |-> WayStep(id, k, g[k - 1])]

\* The way down to an id ends.
LEMMA WaysExist == ASSUME NEW id, NEW n \in Nat PROVE \E g : Ways(g, id, n)
<1>1. PICK T : T = {k \in 0..n : \E g : Ways(g, id, k)}
    OBVIOUS
<1>2. \A x, y : WayStep(id, 0, x) = WayStep(id, 0, y)
    BY DEF WayStep
<1>3. 0 \in T
  <2>1. PICK g : g = [k \in 0..0 |-> WayStep(id, 0, 0)]
    OBVIOUS
  <2>2. \A k \in 0..0 : k = 0 /\ WayStep(id, k, g[k - 1]) = WayStep(id, 0, 0)
    BY <1>2
  <2>3. Ways(g, id, 0)
    BY <2>1, <2>2 DEF Ways
  <2> QED BY <1>1, <2>3
<1>4. ASSUME NEW k \in 1..n, k - 1 \in T PROVE k \in T
  <2>1. PICK m \in 0..n : m = k - 1 /\ k = m + 1
    OBVIOUS
  <2>2. PICK g : Ways(g, id, m)
    BY <1>1, <1>4, <2>1
  <2>3. PICK h : h = [i \in 0..k |-> IF i = k THEN WayStep(id, k, g[m]) ELSE g[i]]
    OBVIOUS
  <2>4. \A i \in 0..m : g[i] = WayStep(id, i, g[i - 1])
    BY <2>2 DEF Ways
  <2>5. ASSUME NEW i \in 0..k PROVE h[i] = WayStep(id, i, h[i - 1])
    <3>1. CASE i = k
      <4>1. i - 1 = m /\ m \in 0..k /\ m # k
        BY <2>1, <3>1
      <4>2. h[m] = g[m]
        BY <2>3, <4>1
      <4> QED BY <2>3, <3>1, <4>1, <4>2
    <3>2. CASE i # k /\ i # 0
      <4>1. i \in 0..m /\ i - 1 \in 0..k /\ i - 1 # k
        BY <2>1, <3>2
      <4>2. h[i] = g[i] /\ h[i - 1] = g[i - 1]
        BY <2>3, <3>2, <4>1
      <4> QED BY <2>4, <4>1, <4>2
    <3>3. CASE i # k /\ i = 0
      <4>1. 0 \in 0..m /\ h[0] = g[0]
        BY <2>3, <3>3
      <4>2. g[0] = WayStep(id, 0, g[0 - 1])
        BY <2>4, <4>1
      <4> QED BY <1>2, <3>3, <4>1, <4>2
    <3> QED BY <3>1, <3>2, <3>3
  <2>6. h = [i \in 0..k |-> WayStep(id, i, h[i - 1])]
    BY <2>3, <2>5
  <2>7. Ways(h, id, k)
    BY <2>6 DEF Ways
  <2> QED BY <1>1, <2>7
<1>5. n \in T
  <2>1. \A k \in 0..n : k \in T
    BY <1>3, <1>4, UpTo
  <2> QED BY <2>1
<1> QED BY <1>1, <1>5

\* Way, one node after the other.
LEMMA WayIs ==
  ASSUME NEW id, NEW n \in Nat, n = Len(id) - 1
  PROVE  /\ Way(id)[0] = Place(Len(Header), Len(file) - Len(Header))
         /\ \A k \in 1..n : Way(id)[k] = SubPlace(Way(id)[k - 1], id[k])
<1>1. PICK g : Ways(g, id, n)
    BY WaysExist
<1>2. g = [k \in 0..n |-> IF k = 0 THEN Place(Len(Header), Len(file) - Len(Header)) ELSE SubPlace(g[k - 1], id[k])]
    BY <1>1, Zenon DEF Ways, WayStep
<1>3. g = [k \in 0..(Len(id) - 1) |-> IF k = 0 THEN Place(Len(Header), Len(file) - Len(Header))
                                      ELSE SubPlace(g[k - 1], id[k])]
    BY <1>2, Zenon
<1>4. PICK w : w = Way(id)
    OBVIOUS
<1>5. w = [k \in 0..(Len(id) - 1) |-> IF k = 0 THEN Place(Len(Header), Len(file) - Len(Header))
                                      ELSE SubPlace(w[k - 1], id[k])]
    BY <1>3, <1>4, Zenon DEF Way
<1>6. w = [k \in 0..n |-> IF k = 0 THEN Place(Len(Header), Len(file) - Len(Header)) ELSE SubPlace(w[k - 1], id[k])]
    BY <1>5, Zenon
<1>7. w[0] = Place(Len(Header), Len(file) - Len(Header))
    BY <1>6
<1>8. ASSUME NEW k \in 1..n PROVE w[k] = SubPlace(w[k - 1], id[k])
  <2>1. k \in 0..n /\ k # 0
    OBVIOUS
  <2> QED BY <1>6, <2>1, Zenon
<1> QED BY <1>4, <1>7, <1>8

\* A place has its offset and its size.
LEMMA PlaceOf == \A pos, size : Place(pos, size).pos = pos /\ Place(pos, size).size = size
BY DEF Place

\* The footer of a node's sub-nodes tells where each of them is.
LEMMA SubPlaceIs ==
  ASSUME ContentType, file \in ByteSeq, 2 * Len(file) < Byte4,
         NEW p \in FileNodes, NEW n \in 1..IdSize, Len(p) + n = IdSize,
         NEW pos, pos # 0, Written(pos, Blocks[n][p]), NEW d \in SubdirsAt(p)
  PROVE  \E at \in Nat \ {0} :
            /\ SubPlace(Place(pos, Len(Blocks[n][p])), d) = Place(at, Len(Blocks[n - 1][Append(p, d)]))
            /\ Written(at, Blocks[n - 1][Append(p, d)])
<1>1. IdSize \in Nat /\ n - 1 \in 0..IdSize
    BY SetFileAssumption
<1>2. PICK below \in [FileNodes -> ByteSeq] : below = Blocks[n - 1]
    BY <1>1, BlocksAre
<1>3. Blocks[n][p] = BlockOf(p, below)
    BY <1>2, BlocksAre
<1>4. PICK e, s, size : e = ElemsBlock(p) /\ s = SubdirsBlock(p, below) /\ size = Len(BlockOf(p, below))
    OBVIOUS
<1>5. e \in ByteSeq /\ s \in ByteSeq
    BY <1>4, ElemsBlockIs, BlockType
<1>6. BlockAt(pos, size, e, s)
    BY <1>3, <1>4, BlockParts
<1>7. PICK used \in SUBSET AllDigits : used = SubdirsAt(p) /\ used # {}
    BY DEF SubdirsAt
<1>8. PICK part \in [used -> ByteSeq] : part = [c \in used |-> below[Append(p, c)]]
    BY <1>7, BlockType
<1>9. s = Table(used, part)
    BY <1>4, <1>7, <1>8 DEF SubdirsBlock
<1>10. PICK first \in Nat, end \in Nat : first = pos + Len(e) /\ end = pos + Len(e) + Len(s) /\ end = first + Len(s)
  <2>1. Len(e) \in Nat /\ Len(s) \in Nat
    BY <1>5 DEF ByteSeq
  <2>2. pos \in Nat
    BY <1>6 DEF BlockAt
  <2>3. pos + Len(e) \in Nat /\ pos + Len(e) + Len(s) \in Nat
    BY <2>1, <2>2
  <2> QED BY <2>3
<1>11. TableAt(first, end, used, part)
  <2>1. Written(first, Table(used, part)) /\ end = first + Len(Table(used, part))
    BY <1>6, <1>9, <1>10 DEF BlockAt
  <2> QED BY <1>7, <2>1, TableRead
<1>12. part[d] \in ByteSeq /\ part[d] # <<>> /\ part[d] = Blocks[n - 1][Append(p, d)]
  <2>1. Append(p, d) \in FileNodes
    BY NodesAre
  <2>2. Len(Append(p, d)) < IdSize /\ Len(Append(p, d)) = Len(p) + 1 /\ Len(p) \in Nat
    <3>1. p \in Seq(AllDigits) /\ d \in AllDigits
      BY <1>7, NodesAre
    <3>2. Len(Append(p, d)) = Len(p) + 1 /\ Len(p) \in Nat
      BY <3>1, AppendProperties
    <3> QED BY <2>1, <3>2, NodesAre
  <2>3. n - 1 \in 1..IdSize
    BY <1>1, <2>2
  <2>4. Blocks[n - 1][Append(p, d)] # <<>>
    BY <2>1, <2>3, BlocksAre
  <2>5. part[d] = Blocks[n - 1][Append(p, d)] /\ part[d] \in ByteSeq
    BY <1>2, <1>7, <1>8
  <2> QED BY <2>4, <2>5
<1>13. PICK k \in 1..NumEntries(end) :
            /\ EntriesWith(end, d) = {k}
            /\ Entries(end)[k].size = Len(part[d])
            /\ Written(StartOf(end, k, first), part[d])
    BY <1>7, <1>11, <1>12, EntryOf
<1>14. PICK b : b = Place(pos, size) /\ b.pos = pos /\ b.size = size
  <2>1. Place(pos, size).pos = pos /\ Place(pos, size).size = size
    BY PlaceOf, Zenon
  <2> QED BY <2>1, Zenon
<1>15. first = b.pos + PayloadSize(b.pos, b.size) /\ end = b.pos + b.size - SpecSize(b.pos, b.size)
    BY <1>6, <1>10, <1>14 DEF BlockAt
<1>16. b.size # 0 /\ first # end /\ EntriesWith(end, d) # {}
  <2>1. first < end
    BY <1>11 DEF TableAt
  <2>2. size # 0
    BY <1>6 DEF BlockAt
  <2> QED BY <1>13, <1>14, <2>1, <2>2
<1>17. (CHOOSE j \in EntriesWith(end, d) : TRUE) = k
    BY <1>13
<1>18. SubPlace(b, d) = Place(StartOf(end, k, first), Entries(end)[k].size)
    BY <1>15, <1>16, <1>17, Zenon DEF SubPlace
<1>19. StartOf(end, k, first) \in Nat \ {0}
  <2>1. StartOf(end, k, first) \in Nat
    BY <1>13 DEF Written
  <2>2. StartOf(end, k, first) >= first /\ first > 0
    <3>1. first > 0
      <4>1. pos \in Nat \ {0} /\ Len(e) \in Nat
        BY <1>5, <1>6 DEF BlockAt, ByteSeq
      <4> QED BY <1>10, <4>1
    <3>2. PICK m \in Nat : m = NumEntries(end)
      BY <1>11 DEF TableAt
    <3>3. k \in 1..(m + 1)
      BY <3>2
    <3>4. StartOf(end, k, first) >= first
      BY <1>11, <3>2, <3>3, StartsAfter
    <3> QED BY <3>1, <3>4
  <2> QED BY <2>1, <2>2
<1> QED BY <1>3, <1>4, <1>12, <1>13, <1>14, <1>18, <1>19

\* The block of a node is where the way to an id says.
Reached(id, k) ==
    \E at \in Nat \ {0} :
        /\ Way(id)[k] = Place(at, Len(Blocks[IdSize - k][SubSeq(id, 1, k)]))
        /\ Written(at, Blocks[IdSize - k][SubSeq(id, 1, k)])

\* The way to an id of the set leads through the blocks of its nodes.
LEMMA WayLeads ==
  ASSUME ContentType, file = Marshall, 2 * Len(file) < Byte4, NEW id \in DOMAIN content
  PROVE  \A k \in 0..(Len(id) - 1) : SubSeq(id, 1, k) \in FileNodes /\ Reached(id, k)
<1>1. id \in Seq(AllDigits) /\ id # <<>> /\ Len(id) <= IdSize /\ Len(id) \in Nat \ {0} /\ IdSize \in Nat
  <2>1. id \in Seq(AllDigits) /\ id # <<>> /\ Len(id) <= IdSize
    BY ContentRecords
  <2> QED BY <2>1, EmptySeq, SetFileAssumption
<1>2. PICK n \in Nat : n = Len(id) - 1
    BY <1>1
<1>3. PICK node : node = [k \in 0..n |-> SubSeq(id, 1, k)]
    OBVIOUS
<1>4. \A k \in 0..n : node[k] = SubSeq(id, 1, k) /\ node[k] \in Seq(AllDigits) /\ Len(node[k]) = k
  <2>1. \A k \in 0..n : k \in Nat /\ k < Len(id)
    BY <1>1, <1>2
  <2> QED BY <1>1, <1>3, <2>1, PrefixesOf
<1>5. \A k \in 1..n : /\ node[k] = Append(node[k - 1], id[k]) /\ id[k] \in AllDigits
                      /\ id[k] \in SubdirsAt(node[k - 1])
  <2>1. SUFFICES ASSUME NEW k \in 1..n
                 PROVE  /\ node[k] = Append(node[k - 1], id[k]) /\ id[k] \in AllDigits
                        /\ id[k] \in SubdirsAt(node[k - 1])
    OBVIOUS
  <2>2. PICK m \in Nat : m = k - 1 /\ k = m + 1 /\ m < Len(id) /\ m \in 0..n /\ k \in 0..n /\ Len(id) > m + 1
    BY <1>1, <1>2
  <2>3. id[m + 1] \in AllDigits /\ SubSeq(id, 1, m + 1) = Append(SubSeq(id, 1, m), id[m + 1])
    BY <1>1, <2>2, PrefixesOf
  <2>4. Len(node[m]) = m /\ node[m] = SubSeq(id, 1, m) /\ node[k] = SubSeq(id, 1, m + 1)
    BY <1>4, <2>2
  <2>5. id[k] \in SubdirsAt(node[m])
    BY <2>2, <2>3, <2>4 DEF SubdirsAt
  <2> QED BY <2>2, <2>3, <2>4, <2>5
<1>6. \A k \in 0..n : node[k] \in FileNodes
  <2>1. node[0] = <<>>
    <3>1. 0 \in 0..n
      BY <1>2
    <3>2. node[0] \in Seq(AllDigits) /\ Len(node[0]) = 0
      BY <1>4, <3>1
    <3> QED BY <3>2, EmptySeq
  <2>2. node[0] \in FileNodes
    BY <2>1, NodesAre
  <2>3. \A k \in 1..n : node[k - 1] \in FileNodes => node[k] \in FileNodes
    BY <1>5, NodesAre
  <2> QED BY <2>2, <2>3, InLoop
<1>7. /\ file \in ByteSeq /\ Written(3, Blocks[IdSize][<<>>])
      /\ Len(file) - Len(Header) = Len(Blocks[IdSize][<<>>]) /\ Len(Header) = 3
    BY FileGives
<1>8. /\ Way(id)[0] = Place(Len(Header), Len(file) - Len(Header))
      /\ \A k \in 1..n : Way(id)[k] = SubPlace(Way(id)[k - 1], id[k])
    BY <1>2, WayIs
<1>9. PICK T : T = {k \in 0..n : Reached(id, k)}
    OBVIOUS
<1>10. 0 \in T
  <2>1. SubSeq(id, 1, 0) = <<>> /\ IdSize - 0 = IdSize
    <3>1. 0 \in 0..n
      BY <1>2
    <3>2. SubSeq(id, 1, 0) \in Seq(AllDigits) /\ Len(SubSeq(id, 1, 0)) = 0
      BY <1>4, <3>1
    <3> QED BY <1>1, <3>2, EmptySeq
  <2>2. Way(id)[0] = Place(3, Len(Blocks[IdSize][<<>>]))
    BY <1>7, <1>8
  <2>3. 3 \in Nat \ {0}
    OBVIOUS
  <2>4. Reached(id, 0)
    BY <1>7, <2>1, <2>2, <2>3 DEF Reached
  <2> QED BY <1>9, <2>4
<1>11. ASSUME NEW k \in 1..n, k - 1 \in T PROVE k \in T
  <2>1. PICK m \in 0..n : m = k - 1 /\ k = m + 1
    OBVIOUS
  <2>2. PICK l \in 1..IdSize : l = IdSize - m /\ l - 1 = IdSize - k
    BY <1>1, <1>2, <2>1
  <2>3. PICK q \in FileNodes : q = SubSeq(id, 1, m) /\ Len(q) = m
    BY <1>4, <1>6
  <2>4. PICK at \in Nat \ {0} : Way(id)[m] = Place(at, Len(Blocks[l][q])) /\ Written(at, Blocks[l][q])
    BY <1>9, <1>11, <2>1, <2>2, <2>3 DEF Reached
  <2>5. id[k] \in SubdirsAt(q) /\ SubSeq(id, 1, k) = Append(q, id[k])
    <3>1. node[k - 1] = q /\ node[k] = SubSeq(id, 1, k)
      <4>1. node[m] = q
        BY <1>3, <2>3
      <4>2. k \in 0..n
        OBVIOUS
      <4>3. node[k] = SubSeq(id, 1, k)
        BY <1>3, <4>2
      <4> QED BY <2>1, <4>1, <4>3
    <3> QED BY <1>5, <3>1
  <2>6. Len(q) + l = IdSize
    BY <1>1, <2>2, <2>3
  <2>7. PICK to \in Nat \ {0} :
            /\ SubPlace(Place(at, Len(Blocks[l][q])), id[k]) = Place(to, Len(Blocks[l - 1][Append(q, id[k])]))
            /\ Written(to, Blocks[l - 1][Append(q, id[k])])
    BY <1>7, <2>4, <2>5, <2>6, SubPlaceIs
  <2>8. Way(id)[k] = Place(to, Len(Blocks[l - 1][Append(q, id[k])]))
    BY <1>8, <2>1, <2>4, <2>7
  <2>9. Reached(id, k)
    BY <2>2, <2>5, <2>7, <2>8 DEF Reached
  <2> QED BY <1>9, <2>9
<1>12. \A k \in 0..n : k \in T
    BY <1>10, <1>11, UpTo
<1> QED BY <1>2, <1>4, <1>6, <1>9, <1>12

\* knd_shared_set_unmarshall_elem gives the record of its id.
LEMMA Fetched ==
  ASSUME ContentType, file = Marshall, 2 * Len(file) < Byte4, NEW id \in DOMAIN content
  PROVE  FetchElem(id) = Found(content[id])
<1>1. id \in Seq(AllDigits) /\ id # <<>> /\ Len(id) <= IdSize /\ Len(id) \in Nat \ {0} /\ IdSize \in Nat
  <2>1. id \in Seq(AllDigits) /\ id # <<>> /\ Len(id) <= IdSize
    BY ContentRecords
  <2> QED BY <2>1, EmptySeq, SetFileAssumption
<1>2. PICK n \in Nat : n = Len(id) - 1 /\ n + 1 = Len(id) /\ n < Len(id) /\ n \in 0..(Len(id) - 1)
  <2>1. PICK l \in Nat : l = Len(id) /\ l # 0
    BY <1>1
  <2>2. PICK n \in Nat : n = l - 1 /\ n + 1 = l /\ n < l /\ n \in 0..(l - 1)
    BY <2>1
  <2> QED BY <2>1, <2>2
<1>3. PICK p \in FileNodes : p = SubSeq(id, 1, n) /\ Reached(id, n)
    BY <1>2, WayLeads
<1>4. PICK l \in 1..IdSize : l = IdSize - n /\ l - 1 \in 0..IdSize
  <2>1. IdSize \in Nat /\ n + 1 <= IdSize
    BY <1>1, <1>2
  <2>2. IdSize - n \in 1..IdSize /\ (IdSize - n) - 1 \in 0..IdSize
    BY <2>1, LevelsLeft
  <2> QED BY <2>2, Zenon
<1>5. PICK pos \in Nat \ {0} : Way(id)[n] = Place(pos, Len(Blocks[l][p])) /\ Written(pos, Blocks[l][p])
    BY <1>3, <1>4 DEF Reached
<1>6. PICK d \in AllDigits : d = id[Len(id)] /\ Append(p, d) = id
  <2>1. id[n + 1] \in AllDigits /\ SubSeq(id, 1, n + 1) = Append(SubSeq(id, 1, n), id[n + 1])
    BY <1>1, <1>2, PrefixesOf
  <2>2. (n + 1 = Len(id)) => SubSeq(id, 1, n + 1) = id
    BY <1>1, <1>2, PrefixesOf
  <2> QED BY <1>2, <1>3, <2>1, <2>2
<1>7. d \in ElemsAt(p)
    BY <1>6 DEF ElemsAt
<1>8. file \in ByteSeq
    BY FileGives
<1>9. PICK below \in [FileNodes -> ByteSeq] : below = Blocks[l - 1]
    BY <1>4, BlocksAre
<1>10. Blocks[l][p] = BlockOf(p, below)
    BY <1>9, BlocksAre
<1>11. PICK e, s, size : e = ElemsBlock(p) /\ s = SubdirsBlock(p, below) /\ size = Len(BlockOf(p, below))
    OBVIOUS
<1>12. BlockAt(pos, size, e, s)
    BY <1>5, <1>8, <1>10, <1>11, BlockParts
<1>13. PICK pay : pay = Len(e) /\ PayloadSize(pos, size) = pay /\ Written(pos, e) /\ size # 0
    BY <1>12 DEF BlockAt
<1>14. ElemAt(pos, pay, d, content[id])
  <2>1. ElemAt(pos, Len(ElemsBlock(p)), d, content[Append(p, d)])
    BY <1>7, <1>8, <1>11, <1>13, ElemsRead
  <2> QED BY <1>6, <1>11, <1>13, <2>1
<1>15. PICK b : b = Place(pos, size) /\ b.pos = pos /\ b.size = size
  <2>1. Place(pos, size).pos = pos /\ Place(pos, size).size = size
    BY PlaceOf, Zenon
  <2> QED BY <2>1, Zenon
<1>16. FetchElem(id) = ReadElem(b, d)
  <2>1. Way(id)[Len(id) - 1] = b
    BY <1>2, <1>5, <1>10, <1>11, <1>15
  <2> QED BY <1>6, <2>1 DEF FetchElem
<1>17. PICK end : end = pos + pay
    OBVIOUS
<1>18. pay # 0
    BY <1>14 DEF ElemAt
<1>19. CASE IsLinear(pos, pay)
  <2>1. LinearFetch(d, pos, end) = Found(content[id])
    BY <1>14, <1>17, <1>19 DEF ElemAt
  <2>2. ReadElem(b, d) = LinearFetch(d, pos, end)
    BY <1>13, <1>15, <1>17, <1>18, <1>19, Zenon DEF ReadElem
  <2> QED BY <1>16, <2>1, <2>2
<1>20. CASE ~IsLinear(pos, pay)
  <2>1. PICK k \in 1..NumEntries(end) :
            EntriesWith(end, d) = {k} /\ Bytes(StartOf(end, k, pos), Entries(end)[k].size) = content[id]
    BY <1>14, <1>17, <1>20 DEF ElemAt
  <2>2. EntriesWith(end, d) # {} /\ (CHOOSE j \in EntriesWith(end, d) : TRUE) = k
    BY <2>1
  <2>3. ReadElem(b, d) = Found(Bytes(StartOf(end, k, pos), Entries(end)[k].size))
    BY <1>13, <1>15, <1>17, <1>18, <1>20, <2>2, Zenon DEF ReadElem
  <2> QED BY <1>16, <2>1, <2>3
<1> QED BY <1>19, <1>20

\* What a set is and what its file and what was read have come from.
FileInv ==
    /\ ContentType
    /\ file = <<>> \/ file = Marshall
    /\ opened # NotOpened => file # <<>>
    /\ opened # NotOpened /\ 2 * Len(file) < Byte4 => opened = CallsFor(RecOf, DOMAIN content)

\* The bytes of the file depend on nothing but the set.
LEMMA SameMarshall == content' = content => Marshall' = Marshall
<1> SUFFICES ASSUME content' = content PROVE Marshall' = Marshall
    OBVIOUS
<1> QED BY DEF Marshall, Blocks, BlockOf, ElemsBlock, SubdirsBlock, ElemsAt, SubdirsAt

\* The invariant holds at first.
LEMMA FileInitInv == FileInit => FileInv
<1> SUFFICES ASSUME FileInit PROVE FileInv
    OBVIOUS
<1>1. content = [id \in {} |-> <<>>] /\ file = <<>> /\ opened = NotOpened
    BY DEF FileInit
<1>2. DOMAIN content = {}
    BY <1>1
<1> QED BY <1>1, <1>2 DEF FileInv, ContentType

\* Every step keeps the invariant.
LEMMA FileNextInv == FileInv /\ [FileNext]_fileVars => FileInv'
<1> SUFFICES ASSUME FileInv, [FileNext]_fileVars PROVE FileInv'
    OBVIOUS
<1>1. /\ ContentType /\ (file = <<>> \/ file = Marshall) /\ (opened # NotOpened => file # <<>>)
      /\ (opened # NotOpened /\ 2 * Len(file) < Byte4 => opened = CallsFor(RecOf, DOMAIN content))
    BY DEF FileInv
<1>2. ASSUME NEW id \in FileIds, NEW rec \in RecordsOf(id), AddRecord(id, rec) PROVE FileInv'
  <2>1. /\ file = <<>> /\ file' = file /\ opened' = opened
        /\ content' = [i \in DOMAIN content \cup {id} |-> IF i = id THEN rec ELSE content[i]]
    BY <1>2 DEF AddRecord
  <2>2. opened' = NotOpened /\ file' = <<>>
    BY <1>1, <2>1
  <2>3. ContentType'
    <3>1. DOMAIN content' = DOMAIN content \cup {id}
      BY <2>1
    <3>2. \A i \in DOMAIN content' : content'[i] = IF i = id THEN rec ELSE content[i]
      BY <2>1
    <3>3. DOMAIN content \subseteq FileIds /\ \A i \in DOMAIN content : content[i] \in RecordsOf(i)
      BY <1>1 DEF ContentType
    <3>4. \A i \in DOMAIN content' : content'[i] \in RecordsOf(i)
      BY <3>1, <3>2, <3>3
    <3> QED BY <3>1, <3>3, <3>4 DEF ContentType
  <2>4. NotOpened' = NotOpened
    BY DEF NotOpened
  <2> QED BY <2>2, <2>3, <2>4 DEF FileInv
<1>3. CASE WriteFile
  <2>1. file = <<>> /\ file' = Marshall /\ content' = content /\ opened' = opened
    BY <1>3 DEF WriteFile
  <2>2. ContentType'
    BY <1>1, <2>1 DEF ContentType
  <2>3. file' = Marshall'
    BY <2>1, SameMarshall
  <2>4. opened' = NotOpened /\ NotOpened' = NotOpened
    BY <1>1, <2>1 DEF NotOpened
  <2> QED BY <2>2, <2>3, <2>4 DEF FileInv
<1>4. CASE OpenFile
  <2>1. file # <<>> /\ opened' = UnmarshallFile /\ content' = content /\ file' = file
    BY <1>4 DEF OpenFile
  <2>2. ContentType'
    BY <1>1, <2>1 DEF ContentType
  <2>3. file' # <<>> /\ file' = Marshall'
    BY <1>1, <2>1, SameMarshall
  <2>4. 2 * Len(file) < Byte4 => opened' = CallsFor(RecOf, DOMAIN content)
    BY <1>1, <2>1, FileGives
  <2>5. RecOf' = RecOf
    BY <2>1 DEF RecOf
  <2>6. 2 * Len(file') < Byte4' => opened' = CallsFor(RecOf', DOMAIN content')
    BY <2>1, <2>4, <2>5 DEF Byte4, Byte3, Byte2
  <2> QED BY <2>2, <2>3, <2>6 DEF FileInv, CallsFor, Called
<1>5. CASE UNCHANGED fileVars
  <2>1. content' = content /\ file' = file /\ opened' = opened
    BY <1>5 DEF fileVars
  <2>2. ContentType'
    BY <1>1, <2>1 DEF ContentType
  <2>3. file' = <<>> \/ file' = Marshall'
    BY <1>1, <2>1, SameMarshall
  <2>4. RecOf' = RecOf /\ NotOpened' = NotOpened /\ Byte4' = Byte4
    BY <2>1 DEF RecOf, NotOpened, Byte4, Byte3, Byte2
  <2> QED BY <1>1, <2>1, <2>2, <2>3, <2>4 DEF FileInv, CallsFor, Called
<1> QED BY <1>2, <1>3, <1>4, <1>5 DEF FileNext

\* The invariant gives what is promised.
LEMMA FileInvKeeps == FileInv => (2 * Len(file) < Byte4 => RecordsKept)
<1> SUFFICES ASSUME FileInv, 2 * Len(file) < Byte4 PROVE RecordsKept
    OBVIOUS
<1>1. /\ ContentType /\ (file = <<>> \/ file = Marshall) /\ (opened # NotOpened => file # <<>>)
      /\ (opened # NotOpened => opened = CallsFor(RecOf, DOMAIN content))
    BY DEF FileInv
<1>2. FileRoundTrip
  <2>1. SUFFICES ASSUME file # <<>>, opened # NotOpened
                 PROVE  /\ opened.ok
                        /\ opened.recs = {Rec(id, content[id]) : id \in DOMAIN content}
                        /\ opened.num = Cardinality(DOMAIN content)
    BY DEF FileRoundTrip
  <2>2. opened = Called({RecOf[id] : id \in DOMAIN content}, Cardinality(DOMAIN content))
    BY <1>1, <2>1 DEF CallsFor
  <2>3. {RecOf[id] : id \in DOMAIN content} = {Rec(id, content[id]) : id \in DOMAIN content}
    BY DEF RecOf
  <2> QED BY <2>2, <2>3 DEF Called
<1>3. FetchFindsRecord
  <2>1. SUFFICES ASSUME opened # NotOpened, NEW id \in DOMAIN content PROVE FetchElem(id) = Found(content[id])
    BY DEF FetchFindsRecord
  <2>2. file = Marshall
    BY <1>1, <2>1
  <2> QED BY <1>1, <2>2, Fetched
<1> QED BY <1>2, <1>3 DEF RecordsKept

\* Whatever a set holds, a file of less than 2^31 bytes (half of Byte4: beyond that
\* knd_unpack_u32 turns sizes into huge ones) gives its records back:
\* knd_shared_set_unmarshall_file all of them, once and byte for byte, and
\* knd_shared_set_unmarshall_elem each one by its id.
THEOREM SetFileKeeps == FileSpec => [](2 * Len(file) < Byte4 => RecordsKept)
<1>1. FileInit => FileInv
    BY FileInitInv
<1>2. FileInv /\ [FileNext]_fileVars => FileInv'
    BY FileNextInv
<1>3. FileInv => (2 * Len(file) < Byte4 => RecordsKept)
    BY FileInvKeeps
<1> QED BY <1>1, <1>2, <1>3, PTL DEF FileSpec
=============================================================================
