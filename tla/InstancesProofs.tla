-------------------------- MODULE InstancesProofs --------------------------
(***************************************************************************)
(* Proofs about Instances, for any names, tasks and bounds.  An entry      *)
(* keeps its name and its id; a name is pushed over only while its newest  *)
(* item is pending, and what is acknowledged is pending no more: so all    *)
(* that lies under an item of a name was being created when that item's    *)
(* entry was made.  A fetch has entered all it has read when it comes to   *)
(* the end of the file, which no snapshot replaces meanwhile.              *)
(***************************************************************************)
EXTENDS Instances, SequenceTheorems, TLAPS

\* NULL is no index.
Proper == \A S, T : None \notin [S -> T]

ItemSet == [ent : Nat, valid : BOOLEAN]
IsEnt(x) == x = [name |-> x.name, id |-> x.id, inst |-> x.inst, gone |-> x.gone,
                 new |-> x.new, after |-> x.after]
IsJob(x) == x = [kind |-> x.kind, name |-> x.name, ent |-> x.ent, left |-> x.left, orig |-> x.orig]

EntsOK == /\ \E S : ents \in Seq(S)
          /\ \A e \in DOMAIN ents : IsEnt(ents[e]) /\ ents[e].after \subseteq acked

\* Entry e has been entered under the name n.
Occurs(e, n) == n \in NamesIn /\ \E k \in 1..Len(nameIdx[n]) : nameIdx[n][k].ent = e

\* The items of a name are of entries of that name; what is pending is being created,
\* and an item lies on another only if the other's entry was being created as well.
NameOK(n) == \A k \in 1..Len(nameIdx[n]) :
    /\ nameIdx[n][k].ent \in DOMAIN ents /\ ents[nameIdx[n][k].ent].name = n
    /\ ~nameIdx[n][k].valid => ents[nameIdx[n][k].ent].new /\ nameIdx[n][k].ent \notin acked /\ n # NoName
    /\ k > 1 => /\ ents[nameIdx[n][k - 1].ent].new
                /\ nameIdx[n][k - 1].ent \notin ents[nameIdx[n][k].ent].after
NamesOK == nameIdx # None =>
    /\ nameIdx \in [DOMAIN nameIdx -> Seq(ItemSet)]
    /\ \A n \in DOMAIN nameIdx : nameIdx[n] # <<>> /\ NameOK(n)
\* An id is that of its entry.
IdsOK == idx # None =>
    /\ idx \in [DOMAIN idx -> Nat]
    /\ \A i \in DOMAIN idx : idx[i] \in DOMAIN ents /\ ents[idx[i]].id = i

\* Entry e was read from the record at i of the file, and has been entered, by name and by id.
Fetched(i, e) == /\ file[i].name # NoName /\ e \in DOMAIN ents
                 /\ ents[e].name = Decode[file[i].name]
                 /\ ents[e].id = i /\ ents[e].inst \in {None, file[i].inst}
NameEntered(i, e) == Fetched(i, e) /\ Occurs(e, Decode[file[i].name])
Entered(i) == i \in IdsIn /\ NameEntered(i, idx[i])

Installing == {"loadName", "casName", "loadIdx", "casIdx"}
WithNames == {"loadIdx", "casIdx", "register", "push", "promote", "addId", "record", "recordId"}
WithIds == WithNames \ {"loadIdx", "casIdx"}
KindsAt(at) == IF at \in {"number", "promote", "addId"} THEN {"new"}
             ELSE IF at \in {"record", "recordId", "look", "found"} THEN {"get"} ELSE {"new", "get"}

\* The task has an entry that it is about to enter.
Owns(t) == \/ pc[t] \in {"register", "push", "promote", "addId"}
           \/ pc[t] \in Installing /\ job[t].kind = "new"

\* What task t knows of its entry, and of the one it is about to push over.
OwnOK(t) ==
    LET e == job[t].ent  n == ents[e].name
    IN  /\ Owns(t) => /\ e \in DOMAIN ents /\ e \notin acked
                      /\ job[t].kind = "new" => ents[e].new
        /\ pc[t] \in {"register", "push"} /\ job[t].kind = "get" => Fetched(ents[e].id, e)
        /\ pc[t] = "push" =>
              /\ job[t].orig \in Nat /\ (job[t].kind = "new" => n # NoName)
              /\ job[t].orig > 0 =>
                    /\ n \in NamesIn /\ job[t].orig \in 1..Len(nameIdx[n])
                    /\ ents[nameIdx[n][job[t].orig].ent].new
                    /\ nameIdx[n][job[t].orig].ent \notin ents[e].after
        /\ pc[t] = "promote" => Occurs(e, n)
        /\ pc[t] = "addId" /\ n # NoName =>
              /\ Occurs(e, n)
              /\ \A k \in 1..Len(nameIdx[n]) : nameIdx[n][k].ent = e => nameIdx[n][k].valid

\* What the fetch of task t has entered.
FetchOK(t) ==
    /\ pc[t] \in Installing \cup {"record", "register", "push", "recordId"} /\ job[t].kind = "get" =>
          \A i \in DOMAIN file \ job[t].left : Entered(i)
    /\ pc[t] = "recordId" => NameEntered(ents[job[t].ent].id, job[t].ent)

\* Where task t is, and what it has done.
TaskOK(t) ==
    /\ pc[t] # "idle" => job[t].kind \in KindsAt(pc[t])
    /\ pc[t] \in WithNames => nameIdx # None
    /\ pc[t] \in WithIds => idx # None
    /\ OwnOK(t) /\ FetchOK(t)

Distinct == \A t, u \in Tasks : t # u /\ Owns(t) /\ Owns(u) => job[t].ent # job[u].ent

\* What a reader may expect is in the file: a name that is not the code of another
\* string as it was, and the values.
FileOwed ==
    \A o \in owed : /\ o.id \in DOMAIN file /\ file[o.id].inst = o.inst
                    /\ o.name # NoName /\ Decode[o.name] = o.name => file[o.id].name = o.name

\* What succeeded is entered, and so is what was fetched.
AckedIn ==
    \A e \in acked : /\ e \in DOMAIN ents /\ ents[e].id \in IdsIn /\ idx[ents[e].id] = e
                     /\ ents[e].name # NoName => Occurs(e, ents[e].name)
KeptIn ==
    dirRead => \A o \in owed :
        /\ o.id \in IdsIn /\ ents[idx[o.id]].inst \in {None, o.inst}
        /\ o.name # NoName /\ Decode[o.name] = o.name => Occurs(idx[o.id], o.name)

Inv == /\ pc = [t \in Tasks |-> pc[t]] /\ job = [t \in Tasks |-> job[t]] /\ \A t \in Tasks : IsJob(job[t])
       /\ EntsOK /\ NamesOK /\ IdsOK /\ FileOwed
       /\ \A t \in Tasks : TaskOK(t)
       /\ Distinct
       /\ AckedIn /\ KeptIn

\* What is entered under a name is its newest, or is hidden by one whose creation
\* overlapped its own.
LEMMA OccursNamed ==
  ASSUME EntsOK, NamesOK, NEW e, NEW n, Occurs(e, n)
  PROVE  Named(e, n) /\ ents[e].name = n
<1>1. n \in NamesIn /\ nameIdx # None /\ n \in DOMAIN nameIdx
    BY DEF Occurs, NamesIn
<1>2. PICK s : s = nameIdx[n]
    OBVIOUS
<1>3. s \in Seq(ItemSet) /\ Len(s) \in Nat
    BY <1>1, <1>2, LenProperties DEF NamesOK
<1>4. PICK k \in 1..Len(s) : s[k].ent = e
    BY <1>2 DEF Occurs
<1>5. NameOK(n)
    BY <1>1 DEF NamesOK
<1>6. e \in DOMAIN ents /\ ents[e].name = n
    BY <1>2, <1>4, <1>5 DEF NameOK
<1>7. CASE k = Len(s)
    BY <1>1, <1>2, <1>4, <1>6, <1>7 DEF Named, Newest
<1>8. CASE k # Len(s)
  <2>1. k + 1 \in 1..Len(s) /\ k + 1 > 1 /\ (k + 1) - 1 = k /\ k + 1 \in 2..Len(s)
    BY <1>3, <1>4, <1>8
  <2>2. PICK l, g : l = k + 1 /\ g = s[l].ent
    OBVIOUS
  <2>3. l \in 1..Len(nameIdx[n]) /\ l > 1 /\ l - 1 = k /\ l \in 2..Len(nameIdx[n])
    BY <1>2, <2>1, <2>2
  <2>4. g \in DOMAIN ents /\ ents[nameIdx[n][l - 1].ent].new /\ nameIdx[n][l - 1].ent \notin ents[g].after
    BY <1>2, <1>5, <2>2, <2>3 DEF NameOK
  <2>5. nameIdx[n][l - 1].ent = e /\ nameIdx[n][l].ent = g
    BY <1>2, <1>4, <2>2, <2>3
  <2>6. Hides(g, e, n)
    BY <2>3, <2>4, <2>5 DEF Hides
  <2> QED BY <1>1, <1>6, <2>4, <2>6 DEF Named
<1> QED BY <1>6, <1>7, <1>8

LEMMA InvFound == ASSUME Inv PROVE AckedFound /\ AckedKept
<1>1. \A e, n : Occurs(e, n) => Named(e, n)
    BY OccursNamed DEF Inv
<1> QED BY <1>1 DEF Inv, AckedIn, KeptIn, AckedFound, AckedKept

---------------------------------------------------------------------------
(* What every step but the death of the process keeps: only entry x may    *)
(* become pending by it.                                                   *)

EntsKept ==
    /\ DOMAIN ents \subseteq DOMAIN ents'
    /\ \A e \in DOMAIN ents :
          /\ ents'[e].name = ents[e].name /\ ents'[e].id = ents[e].id
          /\ ents'[e].new = ents[e].new /\ ents'[e].after = ents[e].after
          /\ \/ ents'[e].inst = ents[e].inst
             \/ ents[e].inst = None /\ ents'[e].inst = file[ents[e].id].inst
NamesKept(x) ==
    /\ nameIdx # None => nameIdx' # None
    /\ \A n \in NamesIn : /\ n \in NamesIn'
                          /\ \A k \in 1..Len(nameIdx[n]) : /\ k \in 1..Len(nameIdx'[n])
                                                           /\ nameIdx'[n][k].ent = nameIdx[n][k].ent
    /\ \A n \in NamesIn' : \A k \in 1..Len(nameIdx'[n]) :
          ~nameIdx'[n][k].valid /\ nameIdx'[n][k].ent # x =>
             /\ n \in NamesIn /\ k \in 1..Len(nameIdx[n]) /\ ~nameIdx[n][k].valid
             /\ nameIdx'[n][k].ent = nameIdx[n][k].ent
IdsKept == /\ idx # None => idx' # None
           /\ \A i \in IdsIn : i \in IdsIn' /\ idx'[i] = idx[i]
Kept(x) == EntsKept /\ NamesKept(x) /\ IdsKept

LEMMA EntsAre ==
  ASSUME EntsOK
  PROVE  /\ Len(ents) \in Nat /\ DOMAIN ents = 1..Len(ents) /\ 0 \notin DOMAIN ents
         /\ \A e \in DOMAIN ents : e \in Nat /\ IsEnt(ents[e]) /\ ents[e].after \subseteq acked
  <1>1. PICK S : ents \in Seq(S)
    BY DEF EntsOK
  <1>2. Len(ents) \in Nat /\ DOMAIN ents = 1..Len(ents)
    BY <1>1, LenProperties
  <1> QED BY <1>2 DEF EntsOK

\* What is acknowledged grows only.
LEMMA AppendEnt ==
  ASSUME EntsOK, NEW x, IsEnt(x), x.after = acked, ents' = Append(ents, x), acked' = acked
  PROVE  /\ EntsOK' /\ EntsKept
         /\ Len(ents) + 1 \in DOMAIN ents' /\ Len(ents) + 1 \in Nat /\ ents'[Len(ents) + 1] = x
         /\ Len(ents) + 1 \notin DOMAIN ents
         /\ \A e \in DOMAIN ents : ents'[e] = ents[e]
  <1>1. PICK S : ents \in Seq(S)
    BY DEF EntsOK
  <1>2. PICK T : T = S \cup {x}
    OBVIOUS
  <1>3. ents \in Seq(T) /\ x \in T
    BY <1>1, <1>2, SeqMonotonic
  <1>4. /\ Append(ents, x) \in Seq(T) /\ Len(Append(ents, x)) = Len(ents) + 1
        /\ \A e \in 1..Len(ents) : Append(ents, x)[e] = ents[e]
        /\ Append(ents, x)[Len(ents) + 1] = x
    BY <1>3, AppendProperties
  <1>5. Len(ents) \in Nat /\ DOMAIN ents = 1..Len(ents) /\ DOMAIN ents' = 1..(Len(ents) + 1)
    BY <1>3, <1>4, LenProperties
  <1>6. \A e \in 1..(Len(ents) + 1) : e \in 1..Len(ents) \/ e = Len(ents) + 1
    BY <1>5
  <1>7. \A e \in DOMAIN ents' : IsEnt(ents'[e]) /\ ents'[e].after \subseteq acked'
    BY <1>4, <1>5, <1>6 DEF EntsOK
  <1>8. EntsOK'
    BY <1>4, <1>7 DEF EntsOK
  <1>9. EntsKept
    BY <1>4, <1>5 DEF EntsKept
  <1> QED BY <1>4, <1>5, <1>8, <1>9

LEMMA SameEnts ==
  ASSUME EntsOK, UNCHANGED ents, acked \subseteq acked' PROVE EntsOK' /\ EntsKept
  BY DEF EntsOK, EntsKept

\* An entry is read from the file, or removed.
Entry(e, x, g) == [name |-> ents[e].name, id |-> ents[e].id, inst |-> x, gone |-> g,
                   new |-> ents[e].new, after |-> ents[e].after]
Changes(e, x, g) == ents' = [ents EXCEPT ![e] = Entry(e, x, g)]
LEMMA ChangeEnt ==
  ASSUME EntsOK, NEW e \in DOMAIN ents, NEW x, NEW g, acked' = acked,
         x = ents[e].inst \/ (ents[e].inst = None /\ x = file[ents[e].id].inst),
         Changes(e, x, g)
  PROVE  EntsOK' /\ EntsKept
  <1>1. PICK S : ents \in Seq(S)
    BY DEF EntsOK
  <1>2. PICK y : y = Entry(e, x, g)
    OBVIOUS
  <1>3. PICK T : T = S \cup {y}
    OBVIOUS
  <1>4. ents \in Seq(T) /\ y \in T
    BY <1>1, <1>3, SeqMonotonic
  <1>5. /\ ents' \in Seq(T) /\ DOMAIN ents' = DOMAIN ents
        /\ ents'[e] = y /\ \A d \in DOMAIN ents \ {e} : ents'[d] = ents[d]
    BY <1>2, <1>4 DEF Changes
  <1>6. /\ IsEnt(y) /\ y.name = ents[e].name /\ y.id = ents[e].id /\ y.inst = x
        /\ y.new = ents[e].new /\ y.after = ents[e].after
    BY <1>2 DEF IsEnt, Entry
  <1>7. \A d \in DOMAIN ents' : IsEnt(ents'[d]) /\ ents'[d].after \subseteq acked'
    BY <1>5, <1>6 DEF EntsOK
  <1>8. EntsOK'
    BY <1>5, <1>7 DEF EntsOK
  <1>9. EntsKept
    BY <1>5, <1>6 DEF EntsKept
  <1> QED BY <1>8, <1>9

LEMMA EmptyIs == ASSUME Proper, NEW S PROVE Empty \in [{} -> S] /\ Empty # None /\ DOMAIN Empty = {}
  BY DEF Empty, Proper

\* A free id is bound to an entry of that id.
LEMMA BindId ==
  ASSUME Proper, EntsOK', EntsKept, IdsOK, idx # None,
         NEW i, i \notin IdsIn, NEW e \in DOMAIN ents', ents'[e].id = i, idx' = Bind(idx, i, e)
  PROVE  IdsOK' /\ IdsKept /\ idx' # None /\ i \in IdsIn' /\ idx'[i] = e
  <1>1. e \in Nat
    <2>1. PICK S : ents' \in Seq(S)
      BY DEF EntsOK
    <2>2. DOMAIN ents' = 1..Len(ents')
      BY <2>1, LenProperties
    <2> QED BY <2>1, <2>2
  <1>2. PICK D : D = DOMAIN idx /\ idx \in [D -> Nat] /\ i \notin D
    BY DEF IdsOK, IdsIn
  <1>3. /\ idx' \in [D \cup {i} -> Nat] /\ idx' # None /\ DOMAIN idx' = D \cup {i}
        /\ idx'[i] = e /\ \A x \in D \ {i} : idx'[x] = idx[x]
    <2>1. PICK m : m = idx
      OBVIOUS
    <2>2. m \in [D -> Nat] /\ e \in Nat
      BY <1>1, <1>2, <2>1
    <2>3. /\ Bind(m, i, e) \in [D \cup {i} -> Nat] /\ Bind(m, i, e) # None
          /\ DOMAIN Bind(m, i, e) = D \cup {i}
          /\ Bind(m, i, e)[i] = e /\ \A x \in D \ {i} : Bind(m, i, e)[x] = m[x]
      BY <2>2 DEF Bind, Proper
    <2> QED BY <2>1, <2>3
  <1> QED BY <1>2, <1>3 DEF IdsOK, IdsKept, IdsIn, EntsKept

LEMMA SameIds ==
  ASSUME IdsOK, EntsKept, UNCHANGED idx PROVE IdsOK' /\ IdsKept
  BY DEF IdsOK, IdsKept, IdsIn, EntsKept

\* An item that is on nothing new, over which nothing is new, is as it was.
LEMMA SameNames ==
  ASSUME NamesOK, EntsKept, UNCHANGED nameIdx, NEW x,
         \A n \in NamesIn : \A k \in 1..Len(nameIdx[n]) :
            ~nameIdx[n][k].valid /\ nameIdx[n][k].ent \in acked' => nameIdx[n][k].ent \in acked
  PROVE  NamesOK' /\ NamesKept(x)
  <1>1. NamesKept(x)
    BY DEF NamesKept, NamesIn
  <1>2. ASSUME nameIdx # None, NEW n \in DOMAIN nameIdx PROVE NameOK(n)'
    <2> SUFFICES ASSUME NEW k \in 1..Len(nameIdx[n])
        PROVE  /\ nameIdx[n][k].ent \in DOMAIN ents' /\ ents'[nameIdx[n][k].ent].name = n
               /\ ~nameIdx[n][k].valid => ents'[nameIdx[n][k].ent].new /\ nameIdx[n][k].ent \notin acked' /\ n # NoName
               /\ k > 1 => /\ ents'[nameIdx[n][k - 1].ent].new
                           /\ nameIdx[n][k - 1].ent \notin ents'[nameIdx[n][k].ent].after
      BY DEF NameOK
    <2>1. NameOK(n) /\ n \in NamesIn /\ nameIdx[n] \in Seq(ItemSet)
      BY <1>2 DEF NamesOK, NamesIn
    <2>2. PICK s, e : s = nameIdx[n] /\ e = s[k].ent
      OBVIOUS
    <2>3. /\ e \in DOMAIN ents /\ ents[e].name = n
          /\ ~s[k].valid => ents[e].new /\ e \notin acked' /\ n # NoName
      BY <2>1, <2>2 DEF NameOK
    <2>4. ASSUME k > 1 PROVE ents'[s[k - 1].ent].new /\ s[k - 1].ent \notin ents'[e].after
      <3>1. k - 1 \in 1..Len(s)
        BY <2>1, <2>2, <2>4, LenProperties
      <3>2. PICK l, d : l = k - 1 /\ d = s[l].ent
        OBVIOUS
      <3>3. l \in 1..Len(nameIdx[n])
        BY <2>2, <3>1, <3>2
      <3>4. nameIdx[n][l].ent \in DOMAIN ents
        BY <2>1, <3>3 DEF NameOK
      <3>5. ents[d].new /\ d \notin ents[e].after
        BY <2>1, <2>2, <2>4, <3>2 DEF NameOK
      <3> QED BY <2>2, <2>3, <3>2, <3>4, <3>5 DEF EntsKept
    <2> QED BY <2>2, <2>3, <2>4 DEF EntsKept
  <1>3. NamesOK'
    BY <1>2 DEF NamesOK
  <1> QED BY <1>1, <1>3

\* The items of one name are replaced by q, in which they have their places.
ItemsOK(q, n) == \A k \in 1..Len(q) :
    /\ q[k].ent \in DOMAIN ents /\ ents[q[k].ent].name = n
    /\ ~q[k].valid => ents[q[k].ent].new /\ q[k].ent \notin acked /\ n # NoName
    /\ k > 1 => /\ ents[q[k - 1].ent].new /\ q[k - 1].ent \notin ents[q[k].ent].after
Extends(q, s, x) ==
    /\ \A k \in 1..Len(s) : k \in 1..Len(q) /\ q[k].ent = s[k].ent
    /\ \A k \in 1..Len(q) : ~q[k].valid /\ q[k].ent # x =>
          k \in 1..Len(s) /\ ~s[k].valid /\ q[k].ent = s[k].ent

LEMMA ItemsAre ==
  ASSUME NamesOK, NEW n
  PROVE  /\ Items(n) \in Seq(ItemSet) /\ Len(Items(n)) \in Nat /\ ItemsOK(Items(n), n)
         /\ n \in NamesIn => Items(n) = nameIdx[n] /\ nameIdx[n] # <<>> /\ Len(nameIdx[n]) \in 1..Len(nameIdx[n])
         /\ n \notin NamesIn => Items(n) = <<>> /\ Len(Items(n)) = 0
<1>1. CASE n \in NamesIn
  <2>1. nameIdx[n] \in Seq(ItemSet) /\ nameIdx[n] # <<>> /\ NameOK(n) /\ Items(n) = nameIdx[n]
    BY <1>1 DEF NamesOK, NamesIn, Items
  <2>2. ItemsOK(Items(n), n)
    BY <2>1 DEF NameOK, ItemsOK
  <2>3. PICK s : s = nameIdx[n]
    OBVIOUS
  <2>4. s \in Seq(ItemSet) /\ s # <<>>
    BY <2>1, <2>3
  <2>5. Len(s) \in Nat /\ Len(s) \in 1..Len(s)
    BY <2>4, EmptySeq, LenProperties
  <2> QED BY <1>1, <2>1, <2>2, <2>3, <2>5
<1>2. CASE n \notin NamesIn
  <2>1. Items(n) = <<>>
    BY <1>2 DEF Items
  <2>2. <<>> \in Seq(ItemSet) /\ Len(<<>>) = 0
    OBVIOUS
  <2>3. ItemsOK(Items(n), n)
    BY <2>1, <2>2 DEF ItemsOK
  <2> QED BY <1>2, <2>1, <2>2, <2>3
<1> QED BY <1>1, <1>2

LEMMA BindName ==
  ASSUME Proper, NamesOK, nameIdx # None, UNCHANGED <<ents, acked>>, NEW n, NEW x,
         NEW q \in Seq(ItemSet), q # <<>>, ItemsOK(q, n), Extends(q, Items(n), x),
         nameIdx' = Bind(nameIdx, n, q)
  PROVE  NamesOK' /\ NamesKept(x) /\ nameIdx' # None /\ n \in NamesIn' /\ nameIdx'[n] = q
<1>1. PICK D : D = DOMAIN nameIdx /\ nameIdx \in [D -> Seq(ItemSet)] /\ D = NamesIn
    BY DEF NamesOK, NamesIn
<1>2. /\ nameIdx' \in [D \cup {n} -> Seq(ItemSet)] /\ nameIdx' # None /\ DOMAIN nameIdx' = D \cup {n}
      /\ nameIdx'[n] = q /\ \A y \in D \ {n} : nameIdx'[y] = nameIdx[y]
  <2>1. PICK m, S : m = nameIdx /\ S = Seq(ItemSet)
    OBVIOUS
  <2>2. m \in [D -> S] /\ q \in S
    BY <1>1, <2>1
  <2>3. PICK b : b = Bind(m, n, q)
    OBVIOUS
  <2>4. b = [y \in D \cup {n} |-> IF y = n THEN q ELSE m[y]]
    BY <2>2, <2>3 DEF Bind
  <2>5. b \in [D \cup {n} -> S] /\ b[n] = q /\ \A y \in D \ {n} : b[y] = m[y]
    BY <2>2, <2>4
  <2>6. b # None /\ DOMAIN b = D \cup {n}
    BY <2>5 DEF Proper
  <2> QED BY <2>1, <2>3, <2>5, <2>6
<1>3. NamesIn' = D \cup {n}
    BY <1>2 DEF NamesIn
<1>4. ASSUME NEW y \in D \cup {n} PROVE nameIdx'[y] # <<>> /\ NameOK(y)'
  <2>1. CASE y = n
    BY <1>2, <2>1 DEF ItemsOK, NameOK
  <2>2. CASE y # n
    <3>1. nameIdx'[y] = nameIdx[y] /\ nameIdx[y] # <<>> /\ NameOK(y)
      BY <1>1, <1>2, <1>4, <2>2 DEF NamesOK
    <3> QED BY <3>1 DEF NameOK
  <2> QED BY <2>1, <2>2
<1>5. NamesOK'
    BY <1>2, <1>4 DEF NamesOK
<1>6. n \in NamesIn => Items(n) = nameIdx[n]
    BY DEF Items
<1>7. n \notin NamesIn => Items(n) = <<>> /\ Len(Items(n)) = 0
    BY ItemsAre
<1>8. ASSUME NEW y \in NamesIn
      PROVE  /\ y \in NamesIn'
             /\ \A k \in 1..Len(nameIdx[y]) : k \in 1..Len(nameIdx'[y]) /\ nameIdx'[y][k].ent = nameIdx[y][k].ent
  <2>1. CASE y = n
    BY <1>2, <1>3, <1>6, <1>8, <2>1 DEF Extends
  <2>2. CASE y # n
    BY <1>1, <1>2, <1>3, <1>8, <2>2
  <2> QED BY <2>1, <2>2
<1>9. ASSUME NEW y \in NamesIn', NEW k \in 1..Len(nameIdx'[y]), ~nameIdx'[y][k].valid, nameIdx'[y][k].ent # x
      PROVE  /\ y \in NamesIn /\ k \in 1..Len(nameIdx[y]) /\ ~nameIdx[y][k].valid
             /\ nameIdx'[y][k].ent = nameIdx[y][k].ent
  <2>1. CASE y = n
    <3>1. k \in 1..Len(Items(n)) /\ ~Items(n)[k].valid /\ q[k].ent = Items(n)[k].ent
      BY <1>2, <1>9, <2>1 DEF Extends
    <3>2. n \in NamesIn
      BY <1>7, <3>1
    <3> QED BY <1>2, <1>6, <2>1, <3>1, <3>2
  <2>2. CASE y # n
    BY <1>1, <1>2, <1>3, <1>9, <2>2
  <2> QED BY <2>1, <2>2
<1>10. NamesKept(x)
    BY <1>2, <1>8, <1>9 DEF NamesKept
<1> QED BY <1>2, <1>3, <1>5, <1>10

Pushed(n, e, v) == Append(Items(n), Item(e, v))
Promoted(n, e) == [k \in DOMAIN Items(n) |-> IF Items(n)[k].ent = e THEN Item(e, TRUE) ELSE Items(n)[k]]

\* A push over items none of which is acknowledged, or over none.
LEMMA PushItem ==
  ASSUME NamesOK, NEW n, NEW e \in DOMAIN ents, e \in Nat, ents[e].name = n, NEW v \in BOOLEAN,
         ~v => ents[e].new /\ e \notin acked /\ n # NoName,
         Len(Items(n)) > 0 => /\ ents[Items(n)[Len(Items(n))].ent].new
                              /\ Items(n)[Len(Items(n))].ent \notin ents[e].after,
         NEW q, q = Pushed(n, e, v)
  PROVE  /\ q \in Seq(ItemSet) /\ q # <<>> /\ ItemsOK(q, n) /\ Extends(q, Items(n), e)
         /\ \E k \in 1..Len(q) : q[k].ent = e
<1>1. PICK s, it : s = Items(n) /\ it = Item(e, v)
    OBVIOUS
<1>2. s \in Seq(ItemSet) /\ Len(s) \in Nat /\ ItemsOK(s, n)
    BY <1>1, ItemsAre
<1>3. it \in ItemSet /\ it.ent = e /\ it.valid = v
    BY <1>1 DEF Item, ItemSet
<1>4. q = Append(s, it)
    BY <1>1 DEF Pushed
<1>5. /\ q \in Seq(ItemSet) /\ Len(q) = Len(s) + 1 /\ q # <<>>
      /\ \A k \in 1..Len(s) : q[k] = s[k]
      /\ q[Len(s) + 1] = it
    BY <1>2, <1>3, <1>4, AppendProperties
<1>6. \A k \in 1..Len(q) : k \in 1..Len(s) \/ k = Len(s) + 1
    BY <1>2, <1>5
<1>7. Extends(q, s, e)
    BY <1>2, <1>3, <1>5, <1>6 DEF Extends
<1>8. ItemsOK(q, n)
  <2> SUFFICES ASSUME NEW k \in 1..Len(q)
      PROVE  /\ q[k].ent \in DOMAIN ents /\ ents[q[k].ent].name = n
             /\ ~q[k].valid => ents[q[k].ent].new /\ q[k].ent \notin acked /\ n # NoName
             /\ k > 1 => ents[q[k - 1].ent].new /\ q[k - 1].ent \notin ents[q[k].ent].after
    BY DEF ItemsOK
  <2>1. CASE k \in 1..Len(s)
    <3>1. q[k] = s[k] /\ (k > 1 => q[k - 1] = s[k - 1])
      BY <1>2, <1>5, <2>1
    <3> QED BY <1>2, <2>1, <3>1 DEF ItemsOK
  <2>2. CASE k = Len(s) + 1
    <3>1. q[k].ent = e /\ q[k].valid = v
      BY <1>3, <1>5, <2>2
    <3>2. k > 1 => q[k - 1] = s[Len(s)] /\ Len(s) > 0
      BY <1>2, <1>5, <2>2
    <3> QED BY <1>1, <3>1, <3>2
  <2> QED BY <1>6, <2>1, <2>2
<1>9. Len(q) \in 1..Len(q) /\ q[Len(q)].ent = e
    BY <1>2, <1>3, <1>5
<1> QED BY <1>1, <1>4, <1>5, <1>7, <1>8, <1>9

\* Promoting the items of an entry changes nothing else.
LEMMA PromoteItem ==
  ASSUME NamesOK, NEW n, NEW e, e \in Nat, Len(Items(n)) > 0, NEW x,
         NEW q, q = Promoted(n, e)
  PROVE  /\ q \in Seq(ItemSet) /\ q # <<>> /\ ItemsOK(q, n) /\ Extends(q, Items(n), x)
         /\ \A k \in 1..Len(q) : q[k].ent = e => q[k].valid
<1>1. PICK s, it : s = Items(n) /\ it = Item(e, TRUE)
    OBVIOUS
<1>2. s \in Seq(ItemSet) /\ Len(s) \in Nat /\ ItemsOK(s, n) /\ Len(s) > 0 /\ DOMAIN s = 1..Len(s)
    BY <1>1, ItemsAre, LenProperties
<1>3. it \in ItemSet /\ it.ent = e /\ it.valid = TRUE
    BY <1>1 DEF Item, ItemSet
<1>4. q = [k \in DOMAIN s |-> IF s[k].ent = e THEN it ELSE s[k]]
    BY <1>1 DEF Promoted
<1>5. \A k \in 1..Len(s) : s[k] \in ItemSet
    BY <1>2, ElementOfSeq
<1>6. q = [k \in 1..Len(s) |-> q[k]] /\ \A k \in 1..Len(s) : q[k] = IF s[k].ent = e THEN it ELSE s[k]
    BY <1>2, <1>4
<1>7. q \in [1..Len(s) -> ItemSet]
    BY <1>3, <1>5, <1>6
<1>8. q \in Seq(ItemSet) /\ Len(q) = Len(s) /\ q # <<>>
    BY <1>2, <1>7
<1>9. \A k \in 1..Len(q) : /\ q[k].ent = s[k].ent
                           /\ ~q[k].valid => ~s[k].valid
                           /\ q[k].ent = e => q[k].valid
    BY <1>3, <1>6, <1>8
<1>10. Extends(q, s, x)
    BY <1>8, <1>9 DEF Extends
<1>11. ItemsOK(q, n)
  <2> SUFFICES ASSUME NEW k \in 1..Len(q)
      PROVE  /\ q[k].ent \in DOMAIN ents /\ ents[q[k].ent].name = n
             /\ ~q[k].valid => ents[q[k].ent].new /\ q[k].ent \notin acked /\ n # NoName
             /\ k > 1 => ents[q[k - 1].ent].new /\ q[k - 1].ent \notin ents[q[k].ent].after
    BY DEF ItemsOK
  <2>1. /\ s[k].ent \in DOMAIN ents /\ ents[s[k].ent].name = n
        /\ ~s[k].valid => ents[s[k].ent].new /\ s[k].ent \notin acked /\ n # NoName
        /\ k > 1 => ents[s[k - 1].ent].new /\ s[k - 1].ent \notin ents[s[k].ent].after
    BY <1>2, <1>8 DEF ItemsOK
  <2>2. k > 1 => q[k - 1].ent = s[k - 1].ent
    BY <1>2, <1>8, <1>9
  <2>3. q[k].ent = s[k].ent /\ (~q[k].valid => ~s[k].valid)
    BY <1>9
  <2> QED BY <2>1, <2>2, <2>3
<1> QED BY <1>1, <1>4, <1>8, <1>9, <1>10, <1>11

LEMMA OccursKept ==
  ASSUME NEW x, Kept(x), NEW e, NEW n, Occurs(e, n) PROVE Occurs(e, n)'
<1>1. n \in NamesIn /\ n \in NamesIn'
    BY DEF Occurs, Kept, NamesKept
<1>2. PICK k \in 1..Len(nameIdx[n]) : nameIdx[n][k].ent = e
    BY DEF Occurs
<1>3. k \in 1..Len(nameIdx'[n]) /\ nameIdx'[n][k].ent = e
    BY <1>1, <1>2 DEF Kept, NamesKept
<1> QED BY <1>1, <1>3 DEF Occurs

LEMMA EnteredKept ==
  ASSUME NEW x, Kept(x), file' = file
  PROVE  /\ \A i, e : Fetched(i, e) => Fetched(i, e)'
         /\ \A i, e : NameEntered(i, e) => NameEntered(i, e)'
         /\ \A i : Entered(i) => Entered(i)'
  <1>1. ASSUME NEW i, NEW e, Fetched(i, e) PROVE Fetched(i, e)'
    BY <1>1 DEF Kept, EntsKept, Fetched
  <1>2. ASSUME NEW i, NEW e, NameEntered(i, e) PROVE NameEntered(i, e)'
    BY <1>1, <1>2, OccursKept DEF NameEntered
  <1>3. ASSUME NEW i, Entered(i) PROVE Entered(i)'
    <2>1. i \in IdsIn /\ i \in IdsIn' /\ idx'[i] = idx[i] /\ NameEntered(i, idx[i])
      BY <1>3 DEF Entered, Kept, IdsKept
    <2>2. PICK e : e = idx[i]
      OBVIOUS
    <2>3. NameEntered(i, e)'
      BY <1>2, <2>1, <2>2
    <2>4. \A d : d = e => NameEntered(i, d)'
      BY <2>3
    <2> QED BY <2>1, <2>2, <2>4 DEF Entered
  <1> QED BY <1>1, <1>2, <1>3

\* A task that does not step is where it was, with what it has done; its entry is not
\* the one that became pending or was acknowledged.
LEMMA OwnKept ==
  ASSUME NEW x, Kept(x), EntsOK, NamesOK, NEW t \in Tasks, TaskOK(t), pc'[t] = pc[t], job'[t] = job[t],
         file' = file \/ pc[t] = "idle" \/ job[t].kind = "new",
         Owns(t) => job[t].ent # x, acked' \subseteq acked \cup {x}
  PROVE  OwnOK(t)'
<1>1. PICK e, n : e = job[t].ent /\ n = ents[e].name
    OBVIOUS
<1>2. Owns(t)' = Owns(t)
    BY DEF Owns
<1>3. CASE ~Owns(t)
    BY <1>2, <1>3 DEF OwnOK, Owns
<1>4. CASE Owns(t)
  <2>1. /\ e \in DOMAIN ents /\ e \notin acked /\ (job[t].kind = "new" => ents[e].new) /\ e # x
        /\ job'[t].ent = e
    BY <1>1, <1>4 DEF TaskOK, OwnOK
  <2>2. /\ e \in DOMAIN ents' /\ e \notin acked' /\ (job[t].kind = "new" => ents'[e].new)
        /\ ents'[e].name = n /\ ents'[e].id = ents[e].id /\ ents'[e].after = ents[e].after
    BY <1>1, <2>1 DEF Kept, EntsKept
  <2>3. ASSUME pc[t] \in {"register", "push"}, job[t].kind = "get" PROVE Fetched(ents[e].id, e)'
    <3>1. Fetched(ents[e].id, e) /\ file' = file
      BY <1>1, <2>3 DEF TaskOK, OwnOK
    <3>2. PICK i : i = ents[e].id
      OBVIOUS
    <3>3. Fetched(i, e)'
      BY <3>1, <3>2, EnteredKept
    <3>4. ents'[e].id = i
      BY <2>2, <3>2
    <3> QED BY <3>3, <3>4 DEF Fetched
  <2>4. ASSUME pc[t] = "push"
        PROVE  /\ job[t].orig \in Nat /\ (job[t].kind = "new" => n # NoName)
               /\ job[t].orig > 0 => /\ n \in NamesIn' /\ job[t].orig \in 1..Len(nameIdx'[n])
                                     /\ ents'[nameIdx'[n][job[t].orig].ent].new
                                     /\ nameIdx'[n][job[t].orig].ent \notin ents'[e].after
    <3>1. job[t].orig \in Nat /\ (job[t].kind = "new" => n # NoName)
      BY <1>1, <2>4 DEF TaskOK, OwnOK
    <3>2. ASSUME job[t].orig > 0
          PROVE  /\ n \in NamesIn' /\ job[t].orig \in 1..Len(nameIdx'[n])
                 /\ ents'[nameIdx'[n][job[t].orig].ent].new
                 /\ nameIdx'[n][job[t].orig].ent \notin ents'[e].after
      <4>1. PICK k, d : k = job[t].orig /\ d = nameIdx[n][k].ent
        OBVIOUS
      <4>2. n \in NamesIn /\ k \in 1..Len(nameIdx[n]) /\ ents[d].new /\ d \notin ents[e].after
        BY <1>1, <2>4, <3>2, <4>1 DEF TaskOK, OwnOK
      <4>3. d \in DOMAIN ents
        BY <4>1, <4>2 DEF NamesOK, NamesIn, NameOK
      <4>4. n \in NamesIn' /\ k \in 1..Len(nameIdx'[n]) /\ nameIdx'[n][k].ent = d
        BY <4>1, <4>2 DEF Kept, NamesKept
      <4>5. ents'[d].new /\ d \notin ents'[e].after
        BY <2>2, <4>2, <4>3 DEF Kept, EntsKept
      <4> QED BY <4>1, <4>4, <4>5
    <3> QED BY <3>1, <3>2
  <2>5. ASSUME Occurs(e, n) PROVE Occurs(e, n)'
    BY <2>5, OccursKept
  <2>6. ASSUME pc[t] = "addId", n # NoName
        PROVE  /\ Occurs(e, n)'
               /\ \A k \in 1..Len(nameIdx'[n]) : nameIdx'[n][k].ent = e => nameIdx'[n][k].valid
    <3>1. Occurs(e, n) /\ \A k \in 1..Len(nameIdx[n]) : nameIdx[n][k].ent = e => nameIdx[n][k].valid
      BY <1>1, <2>6 DEF TaskOK, OwnOK
    <3>2. n \in NamesIn'
      BY <3>1 DEF Occurs, Kept, NamesKept
    <3> QED BY <2>1, <2>5, <3>1, <3>2 DEF Kept, NamesKept
  <2>7. pc[t] = "promote" => Occurs(e, n)'
    BY <1>1, <2>5 DEF TaskOK, OwnOK
  <2> QED BY <1>1, <1>2, <2>1, <2>2, <2>3, <2>4, <2>6, <2>7 DEF OwnOK, Occurs
<1> QED BY <1>3, <1>4

LEMMA TaskKept ==
  ASSUME NEW x, Kept(x), EntsOK, NamesOK, NEW t \in Tasks, TaskOK(t), pc'[t] = pc[t], job'[t] = job[t],
         file' = file \/ pc[t] = "idle" \/ job[t].kind = "new",
         Owns(t) => job[t].ent # x, acked' \subseteq acked \cup {x}
  PROVE  TaskOK(t)'
  <1>1. /\ pc[t] # "idle" => job[t].kind \in KindsAt(pc[t])
        /\ pc[t] \in WithNames => nameIdx' # None
        /\ pc[t] \in WithIds => idx' # None
    BY DEF TaskOK, Kept, NamesKept, IdsKept
  <1>2. OwnOK(t)'
    BY OwnKept
  <1>3. FetchOK(t)'
    <2>1. CASE file' = file
      <3>1. ASSUME pc[t] \in Installing \cup {"record", "register", "push", "recordId"}, job[t].kind = "get",
                   NEW i \in DOMAIN file \ job[t].left
            PROVE  Entered(i)'
        BY <2>1, <3>1, EnteredKept DEF TaskOK, FetchOK
      <3>2. ASSUME pc[t] = "recordId" PROVE NameEntered(ents[job[t].ent].id, job[t].ent)'
        <4>1. PICK i, e : i = ents[e].id /\ e = job[t].ent
          OBVIOUS
        <4>2. NameEntered(i, e) /\ e \in DOMAIN ents
          BY <3>2, <4>1 DEF TaskOK, FetchOK, NameEntered, Fetched
        <4>3. NameEntered(i, e)'
          BY <2>1, <4>2, EnteredKept
        <4>4. ents'[e].id = i
          BY <4>1, <4>2 DEF Kept, EntsKept
        <4> QED BY <4>1, <4>3, <4>4 DEF NameEntered, Fetched
      <3> QED BY <2>1, <3>1, <3>2 DEF FetchOK
    <2>2. CASE pc[t] = "idle" \/ job[t].kind = "new"
      BY <2>2 DEF TaskOK, FetchOK, KindsAt, Installing
    <2> QED BY <2>1, <2>2
  <1> QED BY <1>1, <1>2, <1>3 DEF TaskOK

\* What succeeded, and what the file keeps, is not touched by such a step.
LEMMA AckedStay ==
  ASSUME Inv, NEW x, Kept(x), NEW e \in acked
  PROVE  /\ e \in DOMAIN ents' /\ ents'[e].id \in IdsIn' /\ idx'[ents'[e].id] = e
         /\ ents'[e].name # NoName => Occurs(e, ents[e].name)'
<1>1. e \in DOMAIN ents /\ ents'[e].name = ents[e].name /\ ents'[e].id = ents[e].id /\ e \in DOMAIN ents'
    BY DEF Inv, AckedIn, Kept, EntsKept
<1>2. PICK i, n : i = ents[e].id /\ n = ents[e].name
    OBVIOUS
<1>3. i \in IdsIn /\ idx[i] = e /\ (n # NoName => Occurs(e, n))
    BY <1>2 DEF Inv, AckedIn
<1>4. i \in IdsIn' /\ idx'[i] = e /\ (n # NoName => Occurs(e, n)')
    BY <1>3, OccursKept DEF Kept, IdsKept
<1> QED BY <1>1, <1>2, <1>4 DEF Occurs

LEMMA KeptStay ==
  ASSUME Inv, NEW x, Kept(x), UNCHANGED <<file, owed, dirRead>>
  PROVE  FileOwed' /\ KeptIn'
<1>1. FileOwed'
    BY DEF Inv, FileOwed
<1>2. KeptIn'
  <2> SUFFICES ASSUME dirRead, NEW o \in owed
      PROVE  /\ o.id \in IdsIn' /\ ents'[idx'[o.id]].inst \in {None, o.inst}
             /\ o.name # NoName /\ Decode[o.name] = o.name => Occurs(idx[o.id], o.name)'
    BY DEF KeptIn
  <2>1. /\ o.id \in IdsIn /\ ents[idx[o.id]].inst \in {None, o.inst}
        /\ o.name # NoName /\ Decode[o.name] = o.name => Occurs(idx[o.id], o.name)
    BY DEF Inv, KeptIn
  <2>2. PICK e, n : e = idx[o.id] /\ n = o.name
    OBVIOUS
  <2>3. idx # None
    BY <2>1 DEF IdsIn
  <2>4. o.id \in IdsIn' /\ idx'[o.id] = e /\ e \in DOMAIN ents /\ ents[e].id = o.id
    BY <2>1, <2>2, <2>3 DEF Inv, IdsOK, IdsIn, Kept, IdsKept
  <2>5. file[o.id].inst = o.inst
    BY DEF Inv, FileOwed
  <2>6. ents'[e].inst \in {None, o.inst}
    BY <2>1, <2>2, <2>4, <2>5 DEF Kept, EntsKept
  <2>7. n # NoName /\ Decode[n] = n => Occurs(e, n)'
    BY <2>1, <2>2, OccursKept
  <2> QED BY <2>2, <2>4, <2>6, <2>7 DEF Occurs
<1> QED BY <1>1, <1>2

LEMMA SharedKept ==
  ASSUME Inv, NEW x, Kept(x), UNCHANGED <<file, owed, dirRead, acked>>
  PROVE  FileOwed' /\ AckedIn' /\ KeptIn'
<1>1. AckedIn'
    BY AckedStay DEF AckedIn
<1> QED BY <1>1, KeptStay

\* Task t goes to p with job j; what it needs there is shown for each step.
Moves(t, p, j) == pc' = [pc EXCEPT ![t] = p] /\ job' = [job EXCEPT ![t] = j] /\ IsJob(j)
\* Only the entry of the task that steps becomes pending, or is acknowledged.
Touches(t, x) == (x = 0 \/ (Owns(t) /\ x = job[t].ent)) /\ acked' \subseteq acked \cup {x}

LEMMA StepBy ==
  ASSUME Inv, NEW t \in Tasks, NEW p, NEW j, Moves(t, p, j), NEW x, Kept(x), Touches(t, x), file' = file,
         EntsOK', NamesOK', IdsOK', TaskOK(t)',
         Owns(t)' => (Owns(t) /\ j.ent = job[t].ent) \/ j.ent \notin DOMAIN ents,
         FileOwed', AckedIn', KeptIn'
  PROVE  Inv'
  <1>1. /\ pc' = [u \in Tasks |-> pc'[u]] /\ job' = [u \in Tasks |-> job'[u]]
        /\ job'[t] = j /\ \A u \in Tasks \ {t} : pc'[u] = pc[u] /\ job'[u] = job[u]
    BY DEF Inv, Moves
  <1>2. \A u \in Tasks : IsJob(job'[u])
    BY <1>1 DEF Inv, Moves
  <1>3. ASSUME NEW u \in Tasks \ {t}, Owns(u)
        PROVE  job[u].ent \in DOMAIN ents /\ job[u].ent # x /\ (Owns(t) => job[u].ent # job[t].ent)
    BY <1>3, EntsAre DEF Inv, TaskOK, OwnOK, Distinct, Touches
  <1>4. ASSUME NEW u \in Tasks PROVE TaskOK(u)'
    <2>1. CASE u = t
      BY <2>1
    <2>2. CASE u # t
      BY <1>1, <1>3, <2>2, TaskKept DEF Inv, Touches
    <2> QED BY <2>1, <2>2
  <1>5. \A u \in Tasks \ {t} : Owns(u)' = Owns(u)
    BY <1>1 DEF Owns
  <1>6. ASSUME NEW u \in Tasks, NEW v \in Tasks, u # v, Owns(u)', Owns(v)' PROVE job'[u].ent # job'[v].ent
    <2>1. CASE u # t /\ v # t
      BY <1>1, <1>5, <1>6, <2>1 DEF Inv, Distinct
    <2>2. CASE u = t \/ v = t
      BY <1>1, <1>3, <1>5, <1>6, <2>2
    <2> QED BY <2>1, <2>2
  <1>7. Distinct'
    BY <1>6 DEF Distinct
  <1> QED BY <1>1, <1>2, <1>4, <1>7 DEF Inv

\* Where a task is after its step, and with what job.
Takes(t, j) == job' = [job EXCEPT ![t] = j] /\ IsJob(j)
LEMMA MovesTo ==
  ASSUME Inv, NEW t \in Tasks, NEW p, NEW j, Goto(t, p), Takes(t, j)
  PROVE  Moves(t, p, j) /\ pc'[t] = p /\ job'[t] = j
  BY DEF Moves, Goto, Inv, Takes

LEMMA KeepsJob ==
  ASSUME Inv, NEW t \in Tasks, NEW p, Goto(t, p), UNCHANGED job
  PROVE  IsJob(job[t]) /\ Moves(t, p, job[t]) /\ pc'[t] = p /\ job'[t] = job[t]
  <1>1. job' = [job EXCEPT ![t] = job[t]] /\ IsJob(job[t])
    BY DEF Inv
  <1>2. pc'[t] = p
    BY DEF Goto, Inv
  <1> QED BY <1>1, <1>2 DEF Moves, Goto

\* A task's job with another entry, another rest of the file, or another count of items.
With(t, e, l, o) == [kind |-> job[t].kind, name |-> job[t].name, ent |-> e, left |-> l, orig |-> o]
SetsEnt(t, e) == job' = [job EXCEPT ![t].ent = e]
SetsLeft(t, l) == job' = [job EXCEPT ![t].left = l]
SetsOrig(t, o) == job' = [job EXCEPT ![t].orig = o]
LEMMA JobIsWith ==
  ASSUME Inv, NEW t \in Tasks, NEW e, NEW l, NEW o,
         \/ SetsEnt(t, e) /\ l = job[t].left /\ o = job[t].orig
         \/ SetsLeft(t, l) /\ e = job[t].ent /\ o = job[t].orig
         \/ SetsOrig(t, o) /\ e = job[t].ent /\ l = job[t].left
  PROVE  \E j : /\ Takes(t, j)
                /\ j.kind = job[t].kind /\ j.name = job[t].name /\ j.ent = e /\ j.left = l /\ j.orig = o
  <1>1. PICK k : k = job[t]
    OBVIOUS
  <1>2. k = [kind |-> k.kind, name |-> k.name, ent |-> k.ent, left |-> k.left, orig |-> k.orig]
    BY <1>1 DEF Inv, IsJob
  <1>3. PICK j : j = With(t, e, l, o)
    OBVIOUS
  <1>4. /\ j = [kind |-> k.kind, name |-> k.name, ent |-> e, left |-> l, orig |-> o]
        /\ [k EXCEPT !.ent = e] = [kind |-> k.kind, name |-> k.name, ent |-> e, left |-> k.left, orig |-> k.orig]
        /\ [k EXCEPT !.left = l] = [kind |-> k.kind, name |-> k.name, ent |-> k.ent, left |-> l, orig |-> k.orig]
        /\ [k EXCEPT !.orig = o] = [kind |-> k.kind, name |-> k.name, ent |-> k.ent, left |-> k.left, orig |-> o]
    <2>1. j = [kind |-> k.kind, name |-> k.name, ent |-> e, left |-> l, orig |-> o]
      BY <1>1, <1>3 DEF With
    <2>2. PICK a, b, c, d, f : a = k.kind /\ b = k.name /\ c = k.ent /\ d = k.left /\ f = k.orig
      OBVIOUS
    <2>3. k = [kind |-> a, name |-> b, ent |-> c, left |-> d, orig |-> f]
      BY <1>2, <2>2
    <2>4. [k EXCEPT !.ent = e] = [kind |-> a, name |-> b, ent |-> e, left |-> d, orig |-> f]
      BY <2>3
    <2>5. [k EXCEPT !.left = l] = [kind |-> a, name |-> b, ent |-> c, left |-> l, orig |-> f]
      BY <2>3
    <2>6. [k EXCEPT !.orig = o] = [kind |-> a, name |-> b, ent |-> c, left |-> d, orig |-> o]
      BY <2>3
    <2> QED BY <2>1, <2>2, <2>4, <2>5, <2>6
  <1>5. /\ [job[t] EXCEPT !.ent = e] = [k EXCEPT !.ent = e]
        /\ [job[t] EXCEPT !.left = l] = [k EXCEPT !.left = l]
        /\ [job[t] EXCEPT !.orig = o] = [k EXCEPT !.orig = o]
    BY <1>1
  <1>6. job' = [job EXCEPT ![t] = j]
    <2>1. CASE SetsEnt(t, e) /\ l = job[t].left /\ o = job[t].orig
      <3>1. [job[t] EXCEPT !.ent = e] = j
        BY <1>1, <1>4, <1>5, <2>1
      <3> QED BY <2>1, <3>1 DEF SetsEnt, SetsLeft, SetsOrig
    <2>2. CASE SetsLeft(t, l) /\ e = job[t].ent /\ o = job[t].orig
      <3>1. [job[t] EXCEPT !.left = l] = j
        BY <1>1, <1>4, <1>5, <2>2
      <3> QED BY <2>2, <3>1 DEF SetsEnt, SetsLeft, SetsOrig
    <2>3. CASE SetsOrig(t, o) /\ e = job[t].ent /\ l = job[t].left
      <3>1. [job[t] EXCEPT !.orig = o] = j
        BY <1>1, <1>4, <1>5, <2>3
      <3> QED BY <2>3, <3>1 DEF SetsEnt, SetsLeft, SetsOrig
    <2> QED BY <2>1, <2>2, <2>3
  <1>7. /\ IsJob(j) /\ j.kind = job[t].kind /\ j.name = job[t].name
        /\ j.ent = e /\ j.left = l /\ j.orig = o
    <2>1. PICK a, b : a = k.kind /\ b = k.name
      OBVIOUS
    <2>2. j = [kind |-> a, name |-> b, ent |-> e, left |-> l, orig |-> o]
      BY <1>4, <2>1
    <2>3. j.kind = a /\ j.name = b /\ j.ent = e /\ j.left = l /\ j.orig = o
      BY <2>2
    <2>4. IsJob(j)
      BY <2>2, <2>3 DEF IsJob
    <2> QED BY <1>1, <2>1, <2>3, <2>4
  <1> QED BY <1>6, <1>7 DEF Takes

LEMMA SetEnt ==
  ASSUME Inv, NEW t \in Tasks, NEW p, NEW e, Goto(t, p), SetsEnt(t, e)
  PROVE  \E j : /\ Moves(t, p, j) /\ pc'[t] = p /\ job'[t] = j /\ j.ent = e
                /\ j.kind = job[t].kind /\ j.left = job[t].left /\ j.orig = job[t].orig
  <1>1. PICK l, o : l = job[t].left /\ o = job[t].orig
    OBVIOUS
  <1>2. \E j : /\ Takes(t, j)
              /\ j.kind = job[t].kind /\ j.name = job[t].name /\ j.ent = e /\ j.left = l /\ j.orig = o
    <2>1. \/ SetsEnt(t, e) /\ l = job[t].left /\ o = job[t].orig
          \/ SetsLeft(t, l) /\ e = job[t].ent /\ o = job[t].orig
          \/ SetsOrig(t, o) /\ e = job[t].ent /\ l = job[t].left
      BY <1>1
    <2> QED BY <2>1, JobIsWith
  <1>3. PICK j : /\ Takes(t, j)
                 /\ j.kind = job[t].kind /\ j.name = job[t].name /\ j.ent = e /\ j.left = l /\ j.orig = o
    BY <1>2
  <1>4. Moves(t, p, j) /\ pc'[t] = p /\ job'[t] = j
    BY <1>3, MovesTo
  <1> QED BY <1>1, <1>3, <1>4
LEMMA SetLeft ==
  ASSUME Inv, NEW t \in Tasks, NEW p, NEW l, Goto(t, p), SetsLeft(t, l)
  PROVE  \E j : /\ Moves(t, p, j) /\ pc'[t] = p /\ job'[t] = j /\ j.left = l
                /\ j.kind = job[t].kind /\ j.ent = job[t].ent /\ j.orig = job[t].orig
  <1>1. PICK e, o : e = job[t].ent /\ o = job[t].orig
    OBVIOUS
  <1>2. \E j : /\ Takes(t, j)
              /\ j.kind = job[t].kind /\ j.name = job[t].name /\ j.ent = e /\ j.left = l /\ j.orig = o
    <2>1. \/ SetsEnt(t, e) /\ l = job[t].left /\ o = job[t].orig
          \/ SetsLeft(t, l) /\ e = job[t].ent /\ o = job[t].orig
          \/ SetsOrig(t, o) /\ e = job[t].ent /\ l = job[t].left
      BY <1>1
    <2> QED BY <2>1, JobIsWith
  <1>3. PICK j : /\ Takes(t, j)
                 /\ j.kind = job[t].kind /\ j.name = job[t].name /\ j.ent = e /\ j.left = l /\ j.orig = o
    BY <1>2
  <1>4. Moves(t, p, j) /\ pc'[t] = p /\ job'[t] = j
    BY <1>3, MovesTo
  <1> QED BY <1>1, <1>3, <1>4
LEMMA SetOrig ==
  ASSUME Inv, NEW t \in Tasks, NEW p, NEW o, Goto(t, p), SetsOrig(t, o)
  PROVE  \E j : /\ Moves(t, p, j) /\ pc'[t] = p /\ job'[t] = j /\ j.orig = o
                /\ j.kind = job[t].kind /\ j.ent = job[t].ent /\ j.left = job[t].left
  <1>1. PICK e, l : e = job[t].ent /\ l = job[t].left
    OBVIOUS
  <1>2. \E j : /\ Takes(t, j)
              /\ j.kind = job[t].kind /\ j.name = job[t].name /\ j.ent = e /\ j.left = l /\ j.orig = o
    <2>1. \/ SetsEnt(t, e) /\ l = job[t].left /\ o = job[t].orig
          \/ SetsLeft(t, l) /\ e = job[t].ent /\ o = job[t].orig
          \/ SetsOrig(t, o) /\ e = job[t].ent /\ l = job[t].left
      BY <1>1
    <2> QED BY <2>1, JobIsWith
  <1>3. PICK j : /\ Takes(t, j)
                 /\ j.kind = job[t].kind /\ j.name = job[t].name /\ j.ent = e /\ j.left = l /\ j.orig = o
    BY <1>2
  <1>4. Moves(t, p, j) /\ pc'[t] = p /\ job'[t] = j
    BY <1>3, MovesTo
  <1> QED BY <1>1, <1>3, <1>4

LEMMA JobIs ==
  ASSUME NEW k, NEW n, NEW l
  PROVE  /\ IsJob(Job(k, n, l)) /\ Job(k, n, l).kind = k /\ Job(k, n, l).name = n
         /\ Job(k, n, l).left = l
  BY DEF IsJob, Job

LEMMA IsDone ==
  ASSUME Inv, NEW t \in Tasks, Done(t)
  PROVE  Moves(t, "idle", NoJob) /\ pc'[t] = "idle" /\ job'[t] = NoJob
  <1>1. Goto(t, "idle") /\ Takes(t, NoJob)
    BY JobIs DEF Done, NoJob, Takes
  <1> QED BY <1>1, MovesTo

\* A task that is idle needs nothing.
LEMMA IdleOK ==
  ASSUME Inv, NEW t \in Tasks, pc'[t] = "idle" PROVE TaskOK(t)' /\ ~Owns(t)'
  BY DEF TaskOK, OwnOK, FetchOK, Owns, Installing, WithNames, WithIds

\* Nothing that is entered has changed.
LEMMA SameShared ==
  ASSUME Inv, UNCHANGED <<ents, nameIdx, idx, acked>>, NEW x
  PROVE  Kept(x) /\ EntsOK' /\ NamesOK' /\ IdsOK'
  BY SameEnts, SameNames, SameIds DEF Inv, Kept

\* A step that touches no entry, no index and no file.
LEMMA LocalStep ==
  ASSUME Inv, NEW t \in Tasks, NEW p, NEW j, Moves(t, p, j),
         UNCHANGED <<ents, nameIdx, idx, file, owed, dirRead, acked>>, TaskOK(t)',
         Owns(t)' => (Owns(t) /\ j.ent = job[t].ent) \/ j.ent \notin DOMAIN ents
  PROVE  Inv'
  <1>1. Kept(0) /\ EntsOK' /\ NamesOK' /\ IdsOK'
    BY SameShared
  <1>2. FileOwed' /\ AckedIn' /\ KeptIn'
    BY <1>1, SharedKept
  <1>3. Touches(t, 0)
    BY DEF Touches
  <1> QED BY <1>1, <1>2, <1>3, StepBy

---------------------------------------------------------------------------
(* The steps, one by one. *)

LEMMA InitInv == ASSUME Proper, InstInit PROVE Inv
<1>1. PICK names : names \in {<<>>} \cup {<<n>> : n \in Names} /\ BulkLoaded(names)
    BY DEF InstInit
<1>2. /\ pc = [t \in Tasks |-> "idle"] /\ job = [t \in Tasks |-> NoJob]
      /\ idx = None /\ dirRead = FALSE /\ acked = {} /\ owed = {}
    BY DEF InstInit
<1>3. EntsOK /\ NamesOK
  <2>1. CASE names = <<>>
    <3>1. /\ ents = [i \in 1..0 |-> [name |-> names[i], id |-> i, inst |-> i, gone |-> FALSE, new |-> TRUE, after |-> {}]]
          /\ nameIdx = None
      BY <1>1, <2>1 DEF BulkLoaded
    <3>2. ents = <<>> /\ DOMAIN ents = {}
      BY <3>1
    <3> QED BY <3>1, <3>2 DEF EntsOK, NamesOK
  <2>2. ASSUME NEW n \in Names, names = <<n>> PROVE EntsOK /\ NamesOK
    <3>1. DOMAIN names = 1..1 /\ names[1] = n /\ names # <<>> /\ Range(names) = {n}
      BY <2>2 DEF Range
    <3>2. PICK x : x = [name |-> n, id |-> 1, inst |-> 1, gone |-> FALSE, new |-> TRUE, after |-> {}]
      OBVIOUS
    <3>3. ents = [i \in 1..1 |-> x]
      <4>1. ents = [i \in 1..1 |-> [name |-> names[i], id |-> i, inst |-> i, gone |-> FALSE, new |-> TRUE, after |-> {}]]
        BY <1>1, <3>1 DEF BulkLoaded
      <4>2. \A i \in 1..1 : i = 1
        OBVIOUS
      <4>3. \A i \in 1..1 : [name |-> names[i], id |-> i, inst |-> i, gone |-> FALSE, new |-> TRUE, after |-> {}] = x
        BY <3>1, <3>2, <4>2
      <4> QED BY <4>1, <4>3
    <3>4. ents \in Seq({x}) /\ DOMAIN ents = 1..1 /\ ents[1] = x
      BY <3>3
    <3>5. IsEnt(x) /\ x.name = n /\ x.after = {}
      BY <3>2 DEF IsEnt
    <3>6. EntsOK
      BY <3>4, <3>5 DEF EntsOK
    <3>7. nameIdx = [m \in {n} |-> <<Item(CHOOSE i \in DOMAIN names : names[i] = m, TRUE)>>]
      BY <1>1, <3>1 DEF BulkLoaded
    <3>8. (CHOOSE i \in DOMAIN names : names[i] = n) = 1
      BY <3>1
    <3>9. PICK it : it = Item(1, TRUE)
      OBVIOUS
    <3>10. it.ent = 1 /\ it.valid = TRUE /\ it \in ItemSet
      BY <3>9 DEF Item, ItemSet
    <3>11. PICK s : s = <<it>>
      OBVIOUS
    <3>12. s \in Seq(ItemSet) /\ s # <<>> /\ Len(s) = 1 /\ s[1] = it
      BY <3>10, <3>11
    <3>13. DOMAIN nameIdx = {n} /\ nameIdx[n] = s
      BY <3>7, <3>8, <3>9, <3>11
    <3>14. nameIdx \in [{n} -> Seq(ItemSet)]
      BY <3>7, <3>12, <3>13
    <3>15. NameOK(n)
      <4> SUFFICES ASSUME NEW k \in 1..Len(nameIdx[n])
          PROVE  /\ nameIdx[n][k].ent \in DOMAIN ents /\ ents[nameIdx[n][k].ent].name = n
                 /\ nameIdx[n][k].valid /\ ~(k > 1)
        BY DEF NameOK
      <4>1. Len(nameIdx[n]) = 1 /\ nameIdx[n][1] = it
        BY <3>12, <3>13
      <4>2. k = 1
        BY <4>1
      <4> QED BY <3>4, <3>5, <3>10, <4>1, <4>2
    <3> QED BY <3>6, <3>12, <3>13, <3>14, <3>15 DEF NamesOK
  <2> QED BY <1>1, <2>1, <2>2
<1>4. IdsOK /\ FileOwed /\ AckedIn /\ KeptIn
    BY <1>2 DEF IdsOK, FileOwed, AckedIn, KeptIn
<1>5. ASSUME NEW t \in Tasks PROVE TaskOK(t) /\ IsJob(job[t]) /\ ~Owns(t)
    BY <1>2 DEF TaskOK, OwnOK, FetchOK, Owns, Installing, WithNames, WithIds, IsJob, NoJob, Job
<1>6. Distinct
    BY <1>5 DEF Distinct
<1> QED BY <1>2, <1>3, <1>4, <1>5, <1>6 DEF Inv

LEMMA ReopenInv == ASSUME Inv, Reopen PROVE Inv'
<1>1. /\ pc' = [t \in Tasks |-> "idle"] /\ job' = [t \in Tasks |-> NoJob] /\ ents' = <<>>
      /\ nameIdx' = None /\ idx' = None /\ dirRead' = FALSE /\ acked' = {} /\ UNCHANGED <<file, owed>>
    BY DEF Reopen
<1>2. EntsOK'
    BY <1>1 DEF EntsOK
<1>3. NamesOK' /\ IdsOK' /\ FileOwed' /\ AckedIn' /\ KeptIn'
    BY <1>1 DEF NamesOK, IdsOK, FileOwed, AckedIn, KeptIn, Inv
<1>4. ASSUME NEW t \in Tasks PROVE TaskOK(t)' /\ IsJob(job'[t]) /\ ~Owns(t)'
    BY <1>1 DEF TaskOK, OwnOK, FetchOK, Owns, Installing, WithNames, WithIds, IsJob, NoJob, Job
<1>5. Distinct'
    BY <1>4 DEF Distinct
<1> QED BY <1>1, <1>2, <1>3, <1>4, <1>5 DEF Inv

LEMMA NewInv == ASSUME Inv, NEW t \in Tasks, NEW n, NEW g, New(t, n, g) PROVE Inv'
<1>1. PICK j : j = Job("new", n, {})
    OBVIOUS
<1>2. IsJob(j) /\ j.kind = "new" /\ Takes(t, j) /\ Goto(t, "number")
    BY <1>1, JobIs DEF New, Takes
<1>3. Moves(t, "number", j) /\ pc'[t] = "number" /\ job'[t] = j
    BY <1>2, MovesTo
<1>4. TaskOK(t)' /\ ~Owns(t)'
    BY <1>2, <1>3 DEF TaskOK, OwnOK, FetchOK, Owns, KindsAt, Installing, WithNames, WithIds
<1> QED BY <1>3, <1>4, LocalStep DEF New, indices

LEMMA NumberInv == ASSUME Inv, NEW t \in Tasks, Number(t) PROVE Inv'
<1>1. PICK x : x = [name |-> job[t].name, id |-> NextId, inst |-> made + 1, gone |-> FALSE, new |-> TRUE, after |-> acked]
    OBVIOUS
<1>2. PICK e : e = Len(ents) + 1
    OBVIOUS
<1>3. IsEnt(x) /\ x.new = TRUE /\ x.after = acked
    BY <1>1 DEF IsEnt
<1>4. /\ pc[t] = "number" /\ ents' = Append(ents, x) /\ job[t].kind = "new"
      /\ Goto(t, "loadName") /\ UNCHANGED <<nameIdx, idx, file, owed, dirRead, acked>>
      /\ SetsEnt(t, e)
    BY <1>1, <1>2 DEF Number, SetsEnt, indices, Inv, TaskOK, KindsAt
<1>5. PICK j : Moves(t, "loadName", j) /\ pc'[t] = "loadName" /\ job'[t] = j /\ j.kind = "new" /\ j.ent = e
    BY <1>4, SetEnt
<1>6. EntsOK' /\ EntsKept /\ e \in DOMAIN ents' /\ e \notin DOMAIN ents /\ ents'[e] = x
    BY <1>2, <1>3, <1>4, AppendEnt DEF Inv
<1>7. Kept(0) /\ NamesOK' /\ IdsOK'
    BY <1>4, <1>6, SameNames, SameIds DEF Inv, Kept
<1>8. FileOwed' /\ AckedIn' /\ KeptIn'
    BY <1>4, <1>7, SharedKept
<1>9. e \notin acked'
    BY <1>4, <1>6 DEF Inv, AckedIn
<1>10. TaskOK(t)'
    BY <1>3, <1>5, <1>6, <1>9 DEF TaskOK, OwnOK, FetchOK, Owns, KindsAt, Installing, WithNames, WithIds
<1>11. Touches(t, 0)
    BY <1>4 DEF Touches
<1> QED BY <1>4, <1>5, <1>6, <1>7, <1>8, <1>10, <1>11, StepBy

\* A step of the loops that install the indices.
LEMMA InstallStep ==
  ASSUME Inv, NEW t \in Tasks, NEW p, Goto(t, p), UNCHANGED job, Kept(0), NamesOK', IdsOK',
         UNCHANGED <<ents, file, owed, dirRead, acked>>, pc[t] \in Installing,
         p \in {"casName", "loadIdx", "casIdx", "register", "record"},
         p = "register" => job[t].kind = "new", p = "record" => job[t].kind = "get",
         p \in {"loadIdx", "casIdx", "register", "record"} => nameIdx' # None,
         p \in {"register", "record"} => idx' # None
  PROVE  Inv'
<1>1. Moves(t, p, job[t]) /\ pc'[t] = p /\ job'[t] = job[t]
    BY KeepsJob
<1>2. EntsOK'
    BY SameEnts DEF Inv
<1>3. FileOwed' /\ AckedIn' /\ KeptIn'
    BY SharedKept
<1>4. job[t].kind \in {"new", "get"}
    BY DEF Inv, TaskOK, KindsAt, Installing
<1>5. job[t].kind = "get" => \A i \in DOMAIN file \ job[t].left : Entered(i)'
    BY EnteredKept DEF Inv, TaskOK, FetchOK
<1>6. Owns(t)' => Owns(t)
    BY <1>1 DEF Owns, Installing
<1>7. OwnOK(t)'
    BY <1>1, <1>6 DEF Inv, TaskOK, OwnOK, Owns, Installing
<1>8. FetchOK(t)'
    BY <1>1, <1>5 DEF FetchOK, Installing
<1>9. TaskOK(t)'
    BY <1>1, <1>4, <1>7, <1>8 DEF TaskOK, KindsAt, WithNames, WithIds
<1>10. Touches(t, 0)
    BY DEF Touches
<1> QED BY <1>1, <1>2, <1>3, <1>6, <1>9, <1>10, StepBy

LEMMA InstallInv ==
  ASSUME Proper, Inv, NEW t \in Tasks, LoadName(t) \/ CasName(t) \/ LoadIdx(t) \/ CasIdx(t)
  PROVE  Inv'
<1>1. UNCHANGED <<ents, job, file, owed, dirRead, acked>> /\ pc[t] \in Installing
    BY DEF LoadName, CasName, LoadIdx, CasIdx, indices, Installing
<1>2. EntsKept
    BY <1>1, SameEnts DEF Inv
<1>3. nameIdx' = nameIdx => NamesOK' /\ NamesKept(0)
    BY <1>1, <1>2, SameNames DEF Inv
<1>4. idx' = idx => IdsOK' /\ IdsKept
    BY <1>2, SameIds DEF Inv
<1>5. job[t].kind \in {"new", "get"} /\ (pc[t] \in {"loadIdx", "casIdx"} => nameIdx # None)
    BY <1>1 DEF Inv, TaskOK, KindsAt, Installing, WithNames
<1>6. CASE LoadName(t)
  <2>1. /\ UNCHANGED <<nameIdx, idx>>
        /\ \E p \in {"casName", "loadIdx"} : Goto(t, p) /\ (p = "loadIdx" => nameIdx # None)
    BY <1>6 DEF LoadName, indices
  <2> QED BY <1>1, <1>2, <1>3, <1>4, <2>1, InstallStep DEF Kept
<1>7. CASE CasName(t)
  <2>1. Goto(t, "loadIdx") /\ nameIdx' = (IF nameIdx = None THEN Empty ELSE nameIdx) /\ idx' = idx
    BY <1>7 DEF CasName, Installed
  <2>2. nameIdx' # None /\ NamesOK' /\ NamesKept(0)
    <3>1. CASE nameIdx = None
      <4>1. NamesIn = {} /\ NamesIn' = {} /\ nameIdx' # None
        BY <2>1, <3>1, EmptyIs DEF NamesIn
      <4> QED BY <2>1, <3>1, <4>1, EmptyIs DEF NamesOK, NamesKept
    <3>2. CASE nameIdx # None
      BY <1>3, <2>1, <3>2
    <3> QED BY <3>1, <3>2
  <2> QED BY <1>1, <1>2, <1>4, <2>1, <2>2, InstallStep DEF Kept
<1>8. CASE LoadIdx(t)
  <2>1. /\ UNCHANGED <<nameIdx, idx>> /\ pc[t] = "loadIdx"
        /\ \E p \in {"casIdx", Next1(t)} : Goto(t, p) /\ (p = Next1(t) => idx # None \/ p = "casIdx")
    BY <1>8 DEF LoadIdx, indices
  <2>2. /\ Next1(t) \in {"register", "record"}
        /\ Next1(t) = "register" => job[t].kind = "new"
        /\ Next1(t) = "record" => job[t].kind = "get"
    BY <1>5 DEF Next1
  <2> QED BY <1>1, <1>2, <1>3, <1>4, <1>5, <2>1, <2>2, InstallStep DEF Kept, Next1
<1>9. CASE CasIdx(t)
  <2>1. /\ pc[t] = "casIdx" /\ Goto(t, Next1(t)) /\ nameIdx' = nameIdx
        /\ idx' = IF idx = None THEN Empty ELSE idx
    BY <1>9 DEF CasIdx, Installed
  <2>2. idx' # None /\ IdsOK' /\ IdsKept
    <3>1. CASE idx = None
      BY <2>1, <3>1, EmptyIs DEF IdsOK, IdsKept, IdsIn
    <3>2. CASE idx # None
      BY <1>4, <2>1, <3>2
    <3> QED BY <3>1, <3>2
  <2> QED BY <1>1, <1>2, <1>3, <1>5, <2>1, <2>2, InstallStep DEF Kept, Next1
<1> QED BY <1>6, <1>7, <1>8, <1>9

\* The newest item of a name that is not taken is of an entry being created still.
LEMMA RegisterInv == ASSUME Inv, NEW t \in Tasks, Register(t) PROVE Inv'
<1>1. PICK e, n, o : e = job[t].ent /\ n = ents[e].name /\ o = Len(Items(n))
    OBVIOUS
<1>2. /\ pc[t] = "register" /\ ~Taken(n) /\ SetsOrig(t, o)
      /\ UNCHANGED <<ents, nameIdx, idx, file, owed, dirRead, acked>>
    BY <1>1 DEF Register, SetsOrig, indices
<1>3. PICK p \in {"addId", "push"} : /\ Goto(t, p)
                                     /\ p = "addId" => n = NoName /\ job[t].kind = "new"
                                     /\ p = "push" => n # NoName \/ job[t].kind # "new"
    BY <1>1 DEF Register
<1>4. PICK j : /\ Moves(t, p, j) /\ pc'[t] = p /\ job'[t] = j /\ j.orig = o
               /\ j.kind = job[t].kind /\ j.ent = e /\ j.left = job[t].left
    BY <1>1, <1>2, <1>3, SetOrig
<1>5. /\ Owns(t) /\ e \in DOMAIN ents /\ e \notin acked /\ (job[t].kind = "new" => ents[e].new)
      /\ job[t].kind = "get" => Fetched(ents[e].id, e)
      /\ job[t].kind \in {"new", "get"} /\ nameIdx # None /\ idx # None
    BY <1>1, <1>2 DEF Inv, TaskOK, OwnOK, Owns, KindsAt, WithNames, WithIds
<1>6. o \in Nat /\ (o > 0 => /\ n \in NamesIn /\ o \in 1..Len(nameIdx[n])
                             /\ ents[nameIdx[n][o].ent].new /\ nameIdx[n][o].ent \notin ents[e].after)
  <2>1. /\ o \in Nat /\ (n \in NamesIn => Items(n) = nameIdx[n] /\ Len(nameIdx[n]) \in 1..Len(nameIdx[n]))
        /\ n \notin NamesIn => o = 0
    BY <1>1, ItemsAre DEF Inv
  <2>2. ASSUME o > 0
        PROVE  /\ n \in NamesIn /\ o \in 1..Len(nameIdx[n])
               /\ ents[nameIdx[n][o].ent].new /\ nameIdx[n][o].ent \notin ents[e].after
    <3>1. n \in NamesIn /\ o = Len(nameIdx[n]) /\ o \in 1..Len(nameIdx[n])
      BY <1>1, <2>1, <2>2
    <3>2. ~nameIdx[n][o].valid
      BY <1>2, <3>1 DEF Taken, Newest
    <3>3. NameOK(n)
      BY <3>1 DEF Inv, NamesOK, NamesIn
    <3>4. ents[nameIdx[n][o].ent].new /\ nameIdx[n][o].ent \notin acked
      BY <3>1, <3>2, <3>3 DEF NameOK
    <3>5. ents[e].after \subseteq acked
      BY <1>5 DEF Inv, EntsOK
    <3> QED BY <3>1, <3>4, <3>5
  <2> QED BY <2>1, <2>2
<1>7. job[t].kind = "get" => Fetched(ents[e].id, e)'
    BY <1>2, <1>5 DEF Fetched
<1>8. UNCHANGED NamesIn
    BY <1>2 DEF NamesIn
<1>9. OwnOK(t)'
    BY <1>1, <1>2, <1>3, <1>4, <1>5, <1>6, <1>7, <1>8 DEF OwnOK, Owns, Installing
<1>10. job[t].kind = "get" => \A i \in DOMAIN file \ job[t].left : Entered(i)'
  <2>1. Kept(0)
    BY <1>2, SameShared
  <2> QED BY <1>2, <2>1, EnteredKept DEF Inv, TaskOK, FetchOK
<1>11. FetchOK(t)'
    BY <1>2, <1>3, <1>4, <1>10 DEF FetchOK, Installing
<1>12. TaskOK(t)'
    BY <1>2, <1>3, <1>4, <1>5, <1>9, <1>11 DEF TaskOK, KindsAt, WithNames, WithIds
<1> QED BY <1>1, <1>2, <1>4, <1>5, <1>12, LocalStep

LEMMA PushInv == ASSUME Proper, Inv, NEW t \in Tasks, Push(t) PROVE Inv'
<1>1. PICK e, n, o : e = job[t].ent /\ n = ents[e].name /\ o = job[t].orig
    OBVIOUS
<1>2. /\ pc[t] = "push" /\ Len(Items(n)) = o
      /\ UNCHANGED <<ents, idx, file, owed, dirRead, acked, job>>
    BY <1>1 DEF Push, NoneNew
<1>3. /\ Owns(t) /\ e \in DOMAIN ents /\ e \notin acked /\ (job[t].kind = "new" => ents[e].new)
      /\ job[t].kind = "get" => Fetched(ents[e].id, e)
      /\ job[t].kind \in {"new", "get"} /\ nameIdx # None /\ idx # None
      /\ job[t].kind = "new" => n # NoName
      /\ o > 0 => /\ n \in NamesIn /\ ents[nameIdx[n][o].ent].new
                  /\ nameIdx[n][o].ent \notin ents[e].after
    BY <1>1, <1>2 DEF Inv, TaskOK, OwnOK, Owns, KindsAt, WithNames, WithIds
<1>4. PICK v \in BOOLEAN : /\ job[t].kind = "new" => ~v
                           /\ job[t].kind = "get" => v
                           /\ nameIdx' = Bind(nameIdx, n, Pushed(n, e, v))
  <2>1. CASE job[t].kind = "new"
    <3>1. nameIdx' = Bind(nameIdx, n, Pushed(n, e, FALSE))
      BY <1>1, <2>1 DEF Push, Pushed
    <3> QED BY <2>1, <3>1
  <2>2. CASE job[t].kind = "get"
    <3>1. nameIdx' = Bind(nameIdx, n, Pushed(n, e, TRUE))
      BY <1>1, <2>2 DEF Push, Pushed
    <3> QED BY <2>2, <3>1
  <2> QED BY <1>3, <2>1, <2>2
<1>5. PICK q : q = Pushed(n, e, v)
    OBVIOUS
<1>6. /\ q \in Seq(ItemSet) /\ q # <<>> /\ ItemsOK(q, n) /\ Extends(q, Items(n), e)
      /\ \E k \in 1..Len(q) : q[k].ent = e
  <2>1. e \in Nat
    BY <1>3, EntsAre DEF Inv
  <2>2. ~v => ents[e].new /\ e \notin acked /\ n # NoName
    BY <1>3, <1>4
  <2>3. o > 0 => Items(n) = nameIdx[n]
    BY <1>3, ItemsAre DEF Inv
  <2>4. Len(Items(n)) > 0 => /\ ents[Items(n)[Len(Items(n))].ent].new
                             /\ Items(n)[Len(Items(n))].ent \notin ents[e].after
    BY <1>2, <1>3, <2>3
  <2>5. NamesOK /\ e \in DOMAIN ents /\ ents[e].name = n /\ v \in BOOLEAN
    BY <1>1, <1>3, <1>4 DEF Inv
  <2> QED BY <1>5, <2>1, <2>2, <2>4, <2>5, PushItem
<1>7. NamesOK' /\ NamesKept(e) /\ nameIdx' # None /\ n \in NamesIn' /\ nameIdx'[n] = q
    BY <1>2, <1>3, <1>4, <1>5, <1>6, BindName DEF Inv
<1>8. Kept(e) /\ EntsOK' /\ IdsOK'
    BY <1>2, <1>7, SameEnts, SameIds DEF Inv, Kept
<1>9. FileOwed' /\ AckedIn' /\ KeptIn'
    BY <1>2, <1>8, SharedKept
<1>10. Occurs(e, n)'
    BY <1>6, <1>7 DEF Occurs
<1>11. PICK p \in {"promote", "recordId"} : /\ Goto(t, p)
                                            /\ p = "promote" <=> job[t].kind = "new"
    BY <1>3 DEF Push
<1>12. Moves(t, p, job[t]) /\ pc'[t] = p /\ job'[t] = job[t]
    BY <1>2, <1>11, KeepsJob
<1>13. job[t].kind = "get" => Fetched(ents[e].id, e)'
    BY <1>2, <1>3 DEF Fetched
<1>14. OwnOK(t)'
    BY <1>1, <1>2, <1>3, <1>10, <1>11, <1>12 DEF OwnOK, Owns, Installing
<1>15. job[t].kind = "get" => \A i \in DOMAIN file \ job[t].left : Entered(i)'
    BY <1>2, <1>8, EnteredKept DEF Inv, TaskOK, FetchOK
<1>16. job[t].kind = "get" => NameEntered(ents[e].id, e)'
    BY <1>1, <1>2, <1>10, <1>13 DEF NameEntered, Fetched, Occurs
<1>17. FetchOK(t)'
    BY <1>1, <1>2, <1>3, <1>11, <1>12, <1>15, <1>16 DEF FetchOK, Installing, NameEntered, Fetched
<1>18. TaskOK(t)'
    BY <1>2, <1>3, <1>7, <1>11, <1>12, <1>14, <1>17 DEF TaskOK, KindsAt, WithNames, WithIds
<1>19. Touches(t, e)
    BY <1>1, <1>2, <1>3 DEF Touches
<1> QED BY <1>2, <1>3, <1>7, <1>8, <1>9, <1>12, <1>18, <1>19, StepBy

LEMMA ConflictInv == ASSUME Inv, NEW t \in Tasks, Conflict(t) PROVE Inv'
<1>1. Done(t) /\ UNCHANGED <<ents, nameIdx, idx, file, owed, dirRead, acked>>
    BY DEF Conflict, indices
<1>2. Moves(t, "idle", NoJob) /\ TaskOK(t)' /\ ~Owns(t)'
    BY <1>1, IsDone, IdleOK
<1> QED BY <1>1, <1>2, LocalStep

LEMMA PromoteInv == ASSUME Proper, Inv, NEW t \in Tasks, Promote(t) PROVE Inv'
<1>1. PICK e, n : e = job[t].ent /\ n = ents[e].name
    OBVIOUS
<1>2. /\ pc[t] = "promote" /\ Goto(t, "addId")
      /\ UNCHANGED <<ents, idx, file, owed, dirRead, acked, job>>
    BY DEF Promote
<1>3. /\ Owns(t) /\ e \in DOMAIN ents /\ e \notin acked /\ ents[e].new /\ Occurs(e, n)
      /\ job[t].kind = "new" /\ nameIdx # None /\ idx # None
    BY <1>1, <1>2 DEF Inv, TaskOK, OwnOK, Owns, KindsAt, WithNames, WithIds
<1>4. PICK q : q = Promoted(n, e)
    OBVIOUS
<1>5. nameIdx' = Bind(nameIdx, n, q)
    BY <1>1, <1>4 DEF Promote, Promoted
<1>6. /\ q \in Seq(ItemSet) /\ q # <<>> /\ ItemsOK(q, n) /\ Extends(q, Items(n), e)
      /\ \A k \in 1..Len(q) : q[k].ent = e => q[k].valid
  <2>1. e \in Nat
    BY <1>3, EntsAre DEF Inv
  <2>2. Len(Items(n)) > 0
    BY <1>3, ItemsAre DEF Inv, Occurs
  <2> QED BY <1>4, <2>1, <2>2, PromoteItem DEF Inv
<1>7. NamesOK' /\ NamesKept(e) /\ nameIdx' # None /\ n \in NamesIn' /\ nameIdx'[n] = q
    BY <1>2, <1>3, <1>5, <1>6, BindName DEF Inv
<1>8. Kept(e) /\ EntsOK' /\ IdsOK'
    BY <1>2, <1>7, SameEnts, SameIds DEF Inv, Kept
<1>9. FileOwed' /\ AckedIn' /\ KeptIn'
    BY <1>2, <1>8, SharedKept
<1>10. Occurs(e, n)'
    BY <1>3, <1>8, OccursKept
<1>11. Moves(t, "addId", job[t]) /\ pc'[t] = "addId" /\ job'[t] = job[t]
    BY <1>2, KeepsJob
<1>12. OwnOK(t)'
    BY <1>1, <1>2, <1>3, <1>6, <1>7, <1>10, <1>11 DEF OwnOK, Owns, Installing
<1>13. TaskOK(t)'
    BY <1>2, <1>3, <1>7, <1>11, <1>12 DEF TaskOK, FetchOK, KindsAt, WithNames, WithIds, Installing
<1>14. Touches(t, e)
    BY <1>1, <1>2, <1>3 DEF Touches
<1> QED BY <1>2, <1>3, <1>7, <1>8, <1>9, <1>11, <1>13, <1>14, StepBy

LEMMA AddIdInv == ASSUME Proper, Inv, NEW t \in Tasks, AddId(t) PROVE Inv'
<1>1. PICK e, i, n : e = job[t].ent /\ i = ents[e].id /\ n = ents[e].name
    OBVIOUS
<1>2. /\ pc[t] = "addId" /\ UNCHANGED <<ents, nameIdx, file, owed, dirRead>> /\ Done(t)
    BY DEF AddId
<1>3. /\ Owns(t) /\ e \in DOMAIN ents /\ nameIdx # None /\ idx # None
      /\ n # NoName => /\ Occurs(e, n)
                       /\ \A k \in 1..Len(nameIdx[n]) : nameIdx[n][k].ent = e => nameIdx[n][k].valid
    BY <1>1, <1>2 DEF Inv, TaskOK, OwnOK, Owns, WithNames, WithIds
<1>4. /\ acked \subseteq acked' /\ acked' \subseteq acked \cup {e}
    BY <1>1 DEF AddId
<1>5. EntsOK' /\ EntsKept /\ e \in DOMAIN ents' /\ ents'[e].id = i
    BY <1>1, <1>2, <1>3, <1>4, SameEnts DEF Inv
<1>6. ASSUME NEW m \in NamesIn, NEW k \in 1..Len(nameIdx[m]), ~nameIdx[m][k].valid, nameIdx[m][k].ent \in acked'
      PROVE  nameIdx[m][k].ent \in acked
  <2>1. NameOK(m)
    BY <1>6 DEF Inv, NamesOK, NamesIn
  <2>2. nameIdx[m][k].ent = e => m = n /\ n # NoName
    BY <1>1, <1>6, <2>1 DEF NameOK
  <2> QED BY <1>3, <1>4, <1>6, <2>2
<1>7. NamesOK' /\ NamesKept(e)
    BY <1>2, <1>5, <1>6, SameNames DEF Inv
<1>8. Moves(t, "idle", NoJob) /\ pc'[t] = "idle" /\ TaskOK(t)' /\ ~Owns(t)'
    BY <1>2, IsDone, IdleOK
<1>9. IdsOK' /\ IdsKept /\ (e \in acked' => e \in acked \/ (i \in IdsIn' /\ idx'[i] = e))
  <2>1. CASE ~IdFree(i)
    <3>1. idx' = idx /\ acked' = acked
      BY <1>1, <2>1 DEF AddId
    <3> QED BY <1>5, <3>1, SameIds DEF Inv
  <2>2. CASE IdFree(i)
    <3>1. idx' = Bind(idx, i, e) /\ i \notin IdsIn
      BY <1>1, <2>2 DEF AddId, IdFree
    <3> QED BY <1>3, <1>5, <3>1, BindId DEF Inv
  <2> QED BY <2>1, <2>2
<1>10. Kept(e)
    BY <1>5, <1>7, <1>9 DEF Kept
<1>11. FileOwed' /\ KeptIn'
    BY <1>2, <1>10, KeptStay
<1>12. AckedIn'
  <2>1. ASSUME NEW d \in acked
        PROVE  /\ d \in DOMAIN ents' /\ ents'[d].id \in IdsIn' /\ idx'[ents'[d].id] = d
               /\ ents'[d].name # NoName => Occurs(d, ents[d].name)'
    BY <1>10, AckedStay
  <2>2. ASSUME e \in acked', e \notin acked
        PROVE  /\ e \in DOMAIN ents' /\ ents'[e].id \in IdsIn' /\ idx'[ents'[e].id] = e
               /\ ents'[e].name # NoName => Occurs(e, ents[e].name)'
    <3>1. n # NoName => Occurs(e, n)'
      BY <1>3, <1>10, OccursKept
    <3>2. ents'[e].name = n
      BY <1>1, <1>2
    <3> QED BY <1>5, <1>9, <2>2, <3>1, <3>2 DEF Occurs
  <2> QED BY <1>4, <2>1, <2>2 DEF AckedIn
<1>13. Touches(t, e)
    BY <1>1, <1>3, <1>4 DEF Touches
<1> QED BY <1>2, <1>5, <1>7, <1>8, <1>9, <1>10, <1>11, <1>12, <1>13, StepBy

LEMMA GetInv == ASSUME Inv, NEW t \in Tasks, NEW n, Get(t, n) PROVE Inv'
<1>1. PICK j : j = Job("get", n, DOMAIN file)
    OBVIOUS
<1>2. /\ IsJob(j) /\ j.kind = "get" /\ j.left = DOMAIN file /\ Takes(t, j)
      /\ UNCHANGED <<ents, nameIdx, idx, file, owed, dirRead, acked>>
    BY <1>1, JobIs DEF Get, Takes, indices
<1>3. PICK p \in {"loadName", "look"} : Goto(t, p)
    BY DEF Get
<1>4. Moves(t, p, j) /\ pc'[t] = p /\ job'[t] = j
    BY <1>2, <1>3, MovesTo
<1>5. TaskOK(t)' /\ ~Owns(t)'
    BY <1>2, <1>3, <1>4 DEF TaskOK, OwnOK, FetchOK, Owns, KindsAt, Installing, WithNames, WithIds
<1> QED BY <1>2, <1>4, <1>5, LocalStep

LEMMA RecordInv == ASSUME Inv, NEW t \in Tasks, Record(t) PROVE Inv'
<1>1. PICK i \in job[t].left :
        LET n == file[i].name
        IN  /\ ents' = Append(ents, [name |-> IF n = NoName THEN n ELSE Decode[n], id |-> i, inst |-> None,
                                     gone |-> FALSE, new |-> FALSE, after |-> acked])
            /\ IF n = NoName THEN Done(t) ELSE Goto(t, "register") /\ job' = [job EXCEPT ![t].ent = Len(ents) + 1]
    BY DEF Record
<1>2. /\ pc[t] = "record" /\ UNCHANGED <<nameIdx, idx, file, owed, dirRead, acked>>
      /\ nameIdx # None /\ idx # None /\ job[t].kind = "get"
      /\ \A k \in DOMAIN file \ job[t].left : Entered(k)
    BY DEF Record, Inv, TaskOK, FetchOK, KindsAt, WithNames, WithIds, indices
<1>3. PICK n, m, e : n = file[i].name /\ m = (IF n = NoName THEN n ELSE Decode[n]) /\ e = Len(ents) + 1
    OBVIOUS
<1>4. PICK x : x = [name |-> m, id |-> i, inst |-> None, gone |-> FALSE, new |-> FALSE, after |-> acked]
    OBVIOUS
<1>5. IsEnt(x) /\ x.name = m /\ x.id = i /\ x.inst = None /\ x.after = acked
    BY <1>4 DEF IsEnt
<1>6. /\ ents' = Append(ents, x)
      /\ IF n = NoName THEN Done(t) ELSE Goto(t, "register") /\ SetsEnt(t, e)
    BY <1>1, <1>3, <1>4 DEF SetsEnt
<1>7. EntsOK' /\ EntsKept /\ e \in DOMAIN ents' /\ e \notin DOMAIN ents /\ ents'[e] = x
    BY <1>2, <1>3, <1>5, <1>6, AppendEnt DEF Inv
<1>8. Kept(0) /\ NamesOK' /\ IdsOK'
    BY <1>2, <1>7, SameNames, SameIds DEF Inv, Kept
<1>9. FileOwed' /\ AckedIn' /\ KeptIn'
    BY <1>2, <1>8, SharedKept
<1>10. Touches(t, 0)
    BY <1>2 DEF Touches
<1>11. CASE n = NoName
  <2>1. Moves(t, "idle", NoJob) /\ pc'[t] = "idle" /\ TaskOK(t)' /\ ~Owns(t)'
    BY <1>6, <1>11, IsDone, IdleOK
  <2> QED BY <1>2, <1>7, <1>8, <1>9, <1>10, <2>1, StepBy
<1>12. CASE n # NoName
  <2>1. PICK j : /\ Moves(t, "register", j) /\ pc'[t] = "register" /\ job'[t] = j /\ j.ent = e
                 /\ j.kind = "get" /\ j.left = job[t].left
    BY <1>2, <1>6, <1>12, SetEnt
  <2>2. Fetched(ents[e].id, e)'
    BY <1>2, <1>3, <1>5, <1>7, <1>12 DEF Fetched
  <2>3. e \notin acked'
    BY <1>2, <1>7 DEF Inv, AckedIn
  <2>4. OwnOK(t)'
    BY <1>7, <2>1, <2>2, <2>3 DEF OwnOK, Owns, Installing
  <2>5. \A k \in DOMAIN file \ job[t].left : Entered(k)'
    BY <1>2, <1>8, EnteredKept
  <2>6. FetchOK(t)'
    BY <1>2, <2>1, <2>5 DEF FetchOK
  <2>7. TaskOK(t)'
    BY <1>2, <2>1, <2>4, <2>6 DEF TaskOK, KindsAt, WithNames, WithIds
  <2> QED BY <1>2, <1>7, <1>8, <1>9, <1>10, <2>1, <2>7, StepBy
<1> QED BY <1>11, <1>12

LEMMA RecordIdInv == ASSUME Proper, Inv, NEW t \in Tasks, RecordId(t) PROVE Inv'
<1>1. PICK e, i : e = job[t].ent /\ i = ents[e].id
    OBVIOUS
<1>2. /\ pc[t] = "recordId" /\ nameIdx # None /\ idx # None /\ job[t].kind = "get"
      /\ \A k \in DOMAIN file \ job[t].left : Entered(k)
      /\ NameEntered(i, e)
      /\ UNCHANGED <<ents, nameIdx, file, owed, dirRead, acked>>
    BY <1>1 DEF RecordId, Inv, TaskOK, FetchOK, KindsAt, WithNames, WithIds
<1>3. EntsOK' /\ EntsKept /\ e \in DOMAIN ents' /\ ents'[e].id = i
    BY <1>1, <1>2, SameEnts DEF Inv, NameEntered, Fetched
<1>4. NamesOK' /\ NamesKept(0)
    BY <1>2, <1>3, SameNames DEF Inv
<1>5. Touches(t, 0)
    BY <1>2 DEF Touches
<1>6. CASE IdFree(i)
  <2>1. PICK l : l = job[t].left \ {i}
    OBVIOUS
  <2>2. idx' = Bind(idx, i, e) /\ i \notin IdsIn /\ Goto(t, "record") /\ SetsLeft(t, l)
    BY <1>1, <1>6, <2>1 DEF RecordId, IdFree, SetsLeft
  <2>3. IdsOK' /\ IdsKept /\ idx' # None /\ i \in IdsIn' /\ idx'[i] = e
    BY <1>2, <1>3, <2>2, BindId DEF Inv
  <2>4. Kept(0)
    BY <1>3, <1>4, <2>3 DEF Kept
  <2>5. FileOwed' /\ AckedIn' /\ KeptIn'
    BY <1>2, <2>4, SharedKept
  <2>6. PICK j : /\ Moves(t, "record", j) /\ pc'[t] = "record" /\ job'[t] = j
                 /\ j.kind = "get" /\ j.left = l
    BY <1>2, <2>2, SetLeft
  <2>7. Entered(i)'
    <3>1. NameEntered(i, e)'
      BY <1>2, <2>4, EnteredKept
    <3> QED BY <2>3, <3>1 DEF Entered, NameEntered, Fetched, Occurs
  <2>8. \A k \in DOMAIN file \ j.left : Entered(k)'
    <3>1. \A k \in DOMAIN file \ job[t].left : Entered(k)'
      BY <1>2, <2>4, EnteredKept
    <3> QED BY <2>1, <2>6, <2>7, <3>1
  <2>9. TaskOK(t)' /\ ~Owns(t)'
    BY <1>2, <2>3, <2>6, <2>8 DEF TaskOK, OwnOK, FetchOK, Owns, KindsAt, Installing, WithNames, WithIds
  <2> QED BY <1>2, <1>3, <1>4, <1>5, <2>3, <2>4, <2>5, <2>6, <2>9, StepBy
<1>7. CASE ~IdFree(i)
  <2>1. idx' = idx /\ Done(t)
    BY <1>1, <1>7 DEF RecordId
  <2>2. Kept(0) /\ IdsOK'
    BY <1>3, <1>4, <2>1, SameIds DEF Inv, Kept
  <2>3. FileOwed' /\ AckedIn' /\ KeptIn'
    BY <1>2, <2>2, SharedKept
  <2>4. Moves(t, "idle", NoJob) /\ pc'[t] = "idle" /\ TaskOK(t)' /\ ~Owns(t)'
    BY <2>1, IsDone, IdleOK
  <2> QED BY <1>2, <1>3, <1>4, <1>5, <2>2, <2>3, <2>4, StepBy
<1> QED BY <1>6, <1>7

\* The fetch has come to the end of the file: all its records have been entered.
LEMMA FetchEndsInv == ASSUME Inv, NEW t \in Tasks, FetchEnds(t) PROVE Inv'
<1>1. /\ pc[t] = "record" /\ job[t].left = {} /\ Goto(t, "look") /\ job[t].kind = "get"
      /\ \A k \in DOMAIN file : Entered(k)
      /\ UNCHANGED <<ents, nameIdx, idx, file, owed, acked, job>>
    BY DEF FetchEnds, Inv, TaskOK, FetchOK, KindsAt, indices
<1>2. EntsOK' /\ NamesOK' /\ IdsOK' /\ Kept(0)
    BY <1>1, SameShared
<1>3. FileOwed' /\ AckedIn'
    BY <1>1, <1>2, AckedStay DEF Inv, FileOwed, AckedIn
<1>4. ASSUME NEW o \in owed
      PROVE  /\ o.id \in IdsIn /\ ents[idx[o.id]].inst \in {None, o.inst}
             /\ o.name # NoName /\ Decode[o.name] = o.name => Occurs(idx[o.id], o.name)
  <2>1. /\ o.id \in DOMAIN file /\ file[o.id].inst = o.inst
        /\ o.name # NoName /\ Decode[o.name] = o.name => file[o.id].name = o.name
    BY DEF Inv, FileOwed
  <2>2. o.id \in IdsIn /\ NameEntered(o.id, idx[o.id])
    BY <1>1, <2>1 DEF Entered
  <2> QED BY <2>1, <2>2 DEF NameEntered, Fetched
<1>5. KeptIn'
  <2>1. \A e, n : Occurs(e, n) => Occurs(e, n)'
    BY <1>2, OccursKept
  <2>2. ASSUME NEW o \in owed'
        PROVE  /\ o.id \in IdsIn' /\ ents'[idx'[o.id]].inst \in {None, o.inst}
               /\ o.name # NoName /\ Decode[o.name] = o.name => Occurs(idx[o.id], o.name)'
    BY <1>1, <1>4, <2>1 DEF IdsIn, Occurs, NamesIn
  <2> QED BY <2>2 DEF KeptIn
<1>6. Moves(t, "look", job[t]) /\ pc'[t] = "look" /\ job'[t] = job[t]
    BY <1>1, KeepsJob
<1>7. TaskOK(t)' /\ ~Owns(t)'
    BY <1>1, <1>6 DEF TaskOK, OwnOK, FetchOK, Owns, KindsAt, Installing, WithNames, WithIds
<1>8. Touches(t, 0)
    BY <1>1 DEF Touches
<1> QED BY <1>1, <1>2, <1>3, <1>5, <1>6, <1>7, <1>8, StepBy

\* An entry that is found is read if it was not, from the file that was read to its end.
LEMMA LookInv == ASSUME Inv, NEW t \in Tasks, Look(t) PROVE Inv'
<1>1. PICK n : n = job[t].name
    OBVIOUS
<1>2. pc[t] = "look" /\ job[t].kind = "get"
    BY DEF Look, Inv, TaskOK, KindsAt
<1>3. CASE NameFree(n)
  <2>1. Done(t) /\ UNCHANGED <<ents, nameIdx, idx, file, owed, dirRead, acked>>
    BY <1>1, <1>3 DEF Look, indices
  <2>2. Moves(t, "idle", NoJob) /\ TaskOK(t)' /\ ~Owns(t)'
    BY <2>1, IsDone, IdleOK
  <2> QED BY <2>1, <2>2, LocalStep
<1>4. CASE ~NameFree(n) /\ ~Reopen
  <2>1. PICK e : e = Newest(n).ent
    OBVIOUS
  <2>2. /\ ents[e].inst # None \/ dirRead
        /\ ents' = IF ents[e].inst # None THEN ents
                   ELSE [ents EXCEPT ![e].inst = ReadAt(ents[e].id).inst]
        /\ Goto(t, IF ents[e].gone THEN "idle" ELSE "found")
        /\ SetsEnt(t, e)
        /\ UNCHANGED <<nameIdx, idx, file, owed, dirRead, acked>>
    BY <1>1, <1>4, <2>1 DEF Look, SetsEnt, indices
  <2>3. e \in DOMAIN ents /\ IsEnt(ents[e])
    <3>1. n \in NamesIn
      BY <1>4 DEF NameFree
    <3>2. Len(nameIdx[n]) \in 1..Len(nameIdx[n])
      BY <3>1, ItemsAre DEF Inv
    <3>3. NameOK(n)
      BY <3>1 DEF Inv, NamesOK, NamesIn
    <3>4. e \in DOMAIN ents
      BY <2>1, <3>2, <3>3 DEF NameOK, Newest
    <3> QED BY <3>4 DEF Inv, EntsOK
  <2>4. EntsOK' /\ EntsKept
    <3>1. CASE ents[e].inst # None
      BY <2>2, <3>1, SameEnts DEF Inv
    <3>2. CASE ents[e].inst = None
      <4>1. PICK x, g : x = file[ents[e].id].inst /\ g = ents[e].gone
        OBVIOUS
      <4>2. [ents[e] EXCEPT !.inst = x] = Entry(e, x, g)
        <5>1. PICK k, a, b, c, d : /\ k = ents[e] /\ a = ents[e].name /\ b = ents[e].id
                                   /\ c = ents[e].new /\ d = ents[e].after
          OBVIOUS
        <5>2. k = [name |-> a, id |-> b, inst |-> k.inst, gone |-> g, new |-> c, after |-> d]
          BY <2>3, <4>1, <5>1 DEF IsEnt
        <5>3. [k EXCEPT !.inst = x] = [name |-> a, id |-> b, inst |-> x, gone |-> g, new |-> c, after |-> d]
          BY <5>2
        <5> QED BY <4>1, <5>1, <5>3 DEF Entry
      <4>3. Changes(e, x, g)
        BY <2>2, <3>2, <4>1, <4>2 DEF ReadAt, Changes
      <4> QED BY <2>2, <2>3, <3>2, <4>1, <4>3, ChangeEnt DEF Inv
    <3> QED BY <3>1, <3>2
  <2>5. Kept(0) /\ NamesOK' /\ IdsOK'
    BY <2>2, <2>4, SameNames, SameIds DEF Inv, Kept
  <2>6. FileOwed' /\ AckedIn' /\ KeptIn'
    BY <2>2, <2>5, SharedKept
  <2>7. PICK p \in {"idle", "found"} : Goto(t, p)
    BY <2>2
  <2>8. PICK j : Moves(t, p, j) /\ pc'[t] = p /\ job'[t] = j /\ j.kind = "get"
    BY <1>2, <2>2, <2>7, SetEnt
  <2>9. TaskOK(t)' /\ ~Owns(t)'
    BY <2>7, <2>8 DEF TaskOK, OwnOK, FetchOK, Owns, KindsAt, Installing, WithNames, WithIds
  <2>10. Touches(t, 0)
    BY <2>2 DEF Touches
  <2> QED BY <2>2, <2>4, <2>5, <2>6, <2>8, <2>9, <2>10, StepBy
<1> QED BY <1>3, <1>4, ReopenInv

LEMMA ShowInv == ASSUME Inv, NEW t \in Tasks, Show(t) PROVE Inv'
<1>1. Done(t) /\ UNCHANGED <<ents, nameIdx, idx, file, owed, dirRead, acked>>
    BY DEF Show, indices
<1>2. Moves(t, "idle", NoJob) /\ TaskOK(t)' /\ ~Owns(t)'
    BY <1>1, IsDone, IdleOK
<1> QED BY <1>1, <1>2, LocalStep

\* A removal keeps the name, the id and the values of the entry.
LEMMA RemoveInv == ASSUME Inv, NEW t \in Tasks, Remove(t) PROVE Inv'
<1>1. PICK e, g : e = job[t].ent /\ g = TRUE
    OBVIOUS
<1>2. Done(t) /\ ents' = [ents EXCEPT ![e].gone = g] /\ UNCHANGED <<nameIdx, idx, file, owed, dirRead, acked>>
    BY <1>1 DEF Remove, indices
<1>3. EntsOK' /\ EntsKept
  <2>1. CASE e \in DOMAIN ents
    <3>1. PICK x : x = ents[e].inst
      OBVIOUS
    <3>2. [ents[e] EXCEPT !.gone = g] = Entry(e, x, g)
      <4>1. PICK k, a, b, c, d : /\ k = ents[e] /\ a = ents[e].name /\ b = ents[e].id
                                 /\ c = ents[e].new /\ d = ents[e].after
        OBVIOUS
      <4>2. k = [name |-> a, id |-> b, inst |-> x, gone |-> k.gone, new |-> c, after |-> d]
        BY <2>1, <3>1, <4>1 DEF Inv, EntsOK, IsEnt
      <4>3. [k EXCEPT !.gone = g] = [name |-> a, id |-> b, inst |-> x, gone |-> g, new |-> c, after |-> d]
        BY <4>2
      <4> QED BY <4>1, <4>3 DEF Entry
    <3>3. Changes(e, x, g)
      BY <1>2, <3>2 DEF Changes
    <3> QED BY <1>2, <2>1, <3>1, <3>3, ChangeEnt DEF Inv
  <2>2. CASE e \notin DOMAIN ents
    <3>1. PICK S : ents \in Seq(S)
      BY DEF Inv, EntsOK
    <3>2. ents' = ents
      BY <1>2, <2>2, <3>1
    <3> QED BY <1>2, <3>2, SameEnts DEF Inv
  <2> QED BY <2>1, <2>2
<1>4. Kept(0) /\ NamesOK' /\ IdsOK'
    BY <1>2, <1>3, SameNames, SameIds DEF Inv, Kept
<1>5. FileOwed' /\ AckedIn' /\ KeptIn'
    BY <1>2, <1>4, SharedKept
<1>6. Moves(t, "idle", NoJob) /\ TaskOK(t)' /\ ~Owns(t)'
    BY <1>2, IsDone, IdleOK
<1>7. Touches(t, 0)
    BY <1>2 DEF Touches
<1> QED BY <1>2, <1>3, <1>4, <1>5, <1>6, <1>7, StepBy

\* The file that a snapshot writes holds all that succeeded, and what it held of the
\* previous file if that was read to its end.
LEMMA SnapshotInv == ASSUME Inv, Snapshot PROVE Inv'
<1>1. CASE Reopen
    BY <1>1, ReopenInv
<1>2. CASE ~Reopen
  <2>1. /\ AllLoaded /\ file' = Written
        /\ owed' = {[name |-> ents[e].name, id |-> ents[e].id, inst |-> ents[e].inst] : e \in acked}
                   \cup (IF dirRead THEN owed ELSE {})
        /\ UNCHANGED <<ents, nameIdx, idx, dirRead, pc, job, acked>>
        /\ \A t \in Tasks : pc[t] = "idle" \/ job[t].kind = "new"
    BY <1>2 DEF Snapshot, indices
  <2>2. EntsOK' /\ NamesOK' /\ IdsOK' /\ Kept(0)
    BY <2>1, SameShared
  <2>3. ASSUME NEW t \in Tasks PROVE TaskOK(t)'
    <3>1. Owns(t) => job[t].ent # 0
      BY EntsAre DEF Inv, TaskOK, OwnOK
    <3> QED BY <2>1, <2>2, <3>1, TaskKept DEF Inv
  <2>4. ASSUME NEW i \in IdsIn
        PROVE  /\ i \in DOMAIN file' /\ idx[i] \in DOMAIN ents /\ ents[idx[i]].id = i
               /\ file'[i].name = ents[idx[i]].name /\ file'[i].inst = ents[idx[i]].inst
               /\ ents[idx[i]].inst # None
    BY <2>1, <2>4 DEF Written, AllLoaded, Inv, IdsOK, IdsIn
  <2>5. ASSUME NEW o \in owed'
        PROVE  /\ o.id \in IdsIn /\ ents[idx[o.id]].inst = o.inst
               /\ o.name # NoName /\ Decode[o.name] = o.name =>
                      ents[idx[o.id]].name = o.name /\ Occurs(idx[o.id], o.name)
    <3>1. ASSUME NEW e \in acked, o = [name |-> ents[e].name, id |-> ents[e].id, inst |-> ents[e].inst]
          PROVE  /\ o.id \in IdsIn /\ idx[o.id] = e /\ ents[idx[o.id]].inst = o.inst
                 /\ ents[idx[o.id]].name = o.name
                 /\ o.name # NoName => Occurs(idx[o.id], o.name)
      <4>1. PICK n : n = ents[e].name
        OBVIOUS
      <4>2. /\ o.id \in IdsIn /\ idx[o.id] = e /\ ents[e].inst = o.inst /\ o.name = n
            /\ n # NoName => Occurs(e, n)
        BY <3>1, <4>1 DEF Inv, AckedIn
      <4> QED BY <4>1, <4>2
    <3>2. ASSUME dirRead, o \in owed
          PROVE  /\ o.id \in IdsIn /\ ents[idx[o.id]].inst = o.inst
                 /\ o.name # NoName /\ Decode[o.name] = o.name =>
                        ents[idx[o.id]].name = o.name /\ Occurs(idx[o.id], o.name)
      <4>1. /\ o.id \in IdsIn /\ ents[idx[o.id]].inst \in {None, o.inst}
            /\ o.name # NoName /\ Decode[o.name] = o.name => Occurs(idx[o.id], o.name)
        BY <3>2 DEF Inv, KeptIn
      <4>2. ents[idx[o.id]].inst = o.inst
        BY <2>4, <4>1
      <4>3. PICK e, n : e = idx[o.id] /\ n = o.name
        OBVIOUS
      <4>4. Occurs(e, n) => ents[e].name = n
        BY OccursNamed DEF Inv
      <4> QED BY <4>1, <4>2, <4>3, <4>4
    <3> QED BY <2>1, <2>5, <3>1, <3>2
  <2>6. FileOwed'
    <3> SUFFICES ASSUME NEW o \in owed'
        PROVE  /\ o.id \in DOMAIN file' /\ file'[o.id].inst = o.inst
               /\ o.name # NoName /\ Decode[o.name] = o.name => file'[o.id].name = o.name
      BY DEF FileOwed
    <3>1. o.id \in IdsIn /\ ents[idx[o.id]].inst = o.inst
      BY <2>5
    <3>2. PICK i : i = o.id /\ i \in IdsIn
      BY <3>1
    <3>3. i \in DOMAIN file' /\ file'[i].name = ents[idx[i]].name /\ file'[i].inst = ents[idx[i]].inst
      BY <2>4, <3>2
    <3> QED BY <2>5, <3>1, <3>2, <3>3
  <2>7. KeptIn'
    <3>1. ASSUME NEW o \in owed'
          PROVE  /\ o.id \in IdsIn' /\ ents'[idx'[o.id]].inst \in {None, o.inst}
                 /\ o.name # NoName /\ Decode[o.name] = o.name => Occurs(idx[o.id], o.name)'
      BY <2>1, <2>5, <3>1 DEF IdsIn, Occurs, NamesIn
    <3> QED BY <3>1 DEF KeptIn
  <2>8. AckedIn'
    BY <2>1, <2>2, AckedStay DEF AckedIn
  <2>9. /\ pc' = [t \in Tasks |-> pc'[t]] /\ job' = [t \in Tasks |-> job'[t]]
        /\ \A t \in Tasks : IsJob(job'[t])
    BY <2>1 DEF Inv
  <2>10. Distinct'
    BY <2>1 DEF Inv, Distinct, Owns
  <2> QED BY <2>2, <2>3, <2>6, <2>7, <2>8, <2>9, <2>10 DEF Inv
<1> QED BY <1>1, <1>2

LEMMA SameInv == ASSUME Inv, UNCHANGED instVars PROVE Inv'
<1>1. UNCHANGED <<ents, nameIdx, idx, file, owed, dirRead, acked, pc, job>>
    BY DEF instVars
<1>2. EntsOK' /\ NamesOK' /\ IdsOK' /\ Kept(0)
    BY <1>1, SameShared
<1>3. FileOwed' /\ AckedIn' /\ KeptIn'
    BY <1>1, <1>2, SharedKept
<1>4. ASSUME NEW t \in Tasks PROVE TaskOK(t)' /\ IsJob(job'[t])
  <2>1. Owns(t) => job[t].ent # 0
    BY EntsAre DEF Inv, TaskOK, OwnOK
  <2> QED BY <1>1, <1>2, <2>1, TaskKept DEF Inv
<1>5. pc' = [t \in Tasks |-> pc'[t]] /\ job' = [t \in Tasks |-> job'[t]] /\ Distinct'
    BY <1>1 DEF Inv, Distinct, Owns
<1> QED BY <1>2, <1>3, <1>4, <1>5 DEF Inv

LEMMA TaskInv == ASSUME Proper, Inv, NEW t \in Tasks, Task(t) PROVE Inv'
<1>1. ASSUME NEW n, NEW g, New(t, n, g) PROVE Inv'
    BY <1>1, NewInv
<1>2. ASSUME NEW n, Get(t, n) PROVE Inv'
    BY <1>2, GetInv
<1>3. CASE Number(t) \/ LoadName(t) \/ CasName(t) \/ LoadIdx(t) \/ CasIdx(t)
    BY <1>3, NumberInv, InstallInv
<1>4. CASE Register(t) \/ Push(t) \/ Conflict(t) \/ Promote(t) \/ AddId(t)
    BY <1>4, RegisterInv, PushInv, ConflictInv, PromoteInv, AddIdInv
<1>5. CASE Record(t) \/ RecordId(t) \/ FetchEnds(t)
    BY <1>5, RecordInv, RecordIdInv, FetchEndsInv
<1>6. CASE Look(t) \/ Show(t) \/ Remove(t) \/ GetById(t)
    BY <1>6, LookInv, ShowInv, RemoveInv, ReopenInv DEF GetById
<1> QED BY <1>1, <1>2, <1>3, <1>4, <1>5, <1>6 DEF Task

LEMMA StepInv == ASSUME Proper, Inv, [InstNext]_instVars PROVE Inv'
<1>1. ASSUME NEW t \in Tasks, Task(t) PROVE Inv'
    BY <1>1, TaskInv
<1> QED BY <1>1, SnapshotInv, ReopenInv, SameInv DEF InstNext

---------------------------------------------------------------------------

\* For any names, tasks and bounds: an instance whose creation succeeded is found by its
\* id from then on, and by its name unless the creation of another of that name overlapped
\* its own, whichever task installed the two indices of the class and whatever a fetch of
\* the file enters into them meanwhile; and what had succeeded when a snapshot was written
\* is there again, with its own values, once a later process has fetched the file
\* (knd_class_inst_update_indices, knd_class_inst_idx_fetch, export_class_insts).
THEOREM InstancesKept == ASSUME Proper PROVE InstSpec => [](AckedFound /\ AckedKept)
<1>1. InstInit => Inv
    BY InitInv
<1>2. Inv /\ [InstNext]_instVars => Inv'
    BY StepInv
<1>3. Inv => AckedFound /\ AckedKept
    BY InvFound
<1> QED BY <1>1, <1>2, <1>3, PTL DEF InstSpec
=============================================================================
