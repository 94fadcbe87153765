----------------------------- MODULE Instances -----------------------------
(***************************************************************************)
(* The instances of one class: created by tasks (knd_import_class_inst,    *)
(* then knd_class_inst_update_indices when the commit is confirmed), found *)
(* by name or id, removed, written to the class's file by a snapshot and   *)
(* fetched from it (knd_class_inst_idx_fetch) by the first request for an  *)
(* instance after the shard has started anew.  The two indices are created *)
(* when they are first needed, by whichever task gets there.               *)
(*                                                                         *)
(* Of knd_shared_dict_set the steps are kept that two creations of a name  *)
(* can overlap in: the first walk, the push, the promotion of what was     *)
(* pushed for a commit.  The set of ids is taken as what SharedSet shows   *)
(* it to be, the file as what SetFile shows it to be; an instance's values *)
(* are a number, different for every instance created.                     *)
(* Operators whose name ends in _v are wrong variants, for mutation tests. *)
(***************************************************************************)
EXTENDS Naturals, Sequences, FiniteSets, Functions, FiniteSetsExt

CONSTANTS
    Names,       \* names of instances
    Decode,      \* what a name of the file is read as: another string, if the
                 \* name is short and happens to be the code of that string
    NoName,      \* an instance may have no name
    Tasks,
    MaxMade,     \* bound on instances created, in all
    MaxRestarts, \* bound on restarts
    None

VARIABLES
    ents,     \* the kndClassInstEntry made in this process: name, id, inst, gone; is it
              \* new, not fetched, and which were acknowledged before it (after)
    nameIdx,  \* class->inst_name_idx: the items of a name, the newest last; None for NULL
    idx,      \* class->inst_idx: the entry of an id; None for NULL
    count,    \* class->inst_id_count
    dirRead,  \* inst_idx->dir is set: the file was read to its end
    file,     \* inst_ID.gsp: the name and the values at an id
    pc, job,  \* where each task is, and with what
    made,     \* instances created so far
    acked,    \* entries created in this process whose commit succeeded
    owed,     \* what a reader of the file may expect: [name, id, inst]
    restarts

instVars == <<ents, nameIdx, idx, count, dirRead, file, pc, job, made, acked, owed, restarts>>
indices == <<nameIdx, idx>>

Empty == [x \in {} |-> x]
Bind(m, k, e) == [x \in DOMAIN m \cup {k} |-> IF x = k THEN e ELSE m[x]]
Item(e, valid) == [ent |-> e, valid |-> valid]
Job(kind, name, left) == [kind |-> kind, name |-> name, ent |-> 0, left |-> left, orig |-> 0]
NoJob == Job("none", NoName, {})

\* A bulk load enters its instances by name only (register_by_name).
BulkLoaded(names) ==
    /\ ents = [i \in DOMAIN names |-> [name |-> names[i], id |-> i, inst |-> i, gone |-> FALSE, new |-> TRUE, after |-> {}]]
    /\ nameIdx = IF names = <<>> THEN None
                 ELSE [n \in Range(names) |-> <<Item(CHOOSE i \in DOMAIN names : names[i] = n, TRUE)>>]
    /\ count = Len(names) /\ made = Len(names)

InstInit ==
    /\ \E names \in {<<>>} \cup {<<n>> : n \in Names} : BulkLoaded(names)
    /\ idx = None
    /\ dirRead = FALSE
    /\ file = Empty
    /\ pc = [t \in Tasks |-> "idle"]
    /\ job = [t \in Tasks |-> NoJob]
    /\ acked = {} /\ owed = {} /\ restarts = 0

Goto(t, to) == pc' = [pc EXCEPT ![t] = to]
Done(t) == Goto(t, "idle") /\ job' = [job EXCEPT ![t] = NoJob]

---------------------------------------------------------------------------
(* Creation: knd_import_class_inst, knd_class_inst_update_indices *)

NamesIn == IF nameIdx = None THEN {} ELSE DOMAIN nameIdx
Items(n) == IF n \in NamesIn THEN nameIdx[n] ELSE <<>>
Newest(n) == nameIdx[n][Len(nameIdx[n])]
IdsIn == IF idx = None THEN {} ELSE DOMAIN idx
NameFree(n) == n \notin NamesIn

\* run_set_name: knd_shared_dict_get must find nothing, pending or not; a generated
\* name (_) is not looked up.
New(t, n, generated) ==
    /\ pc[t] = "idle"
    /\ generated \/ NameFree(n)
    /\ Goto(t, "number")
    /\ job' = [job EXCEPT ![t] = Job("new", n, {})]
    /\ UNCHANGED <<ents, indices, count, dirRead, file, made, acked, owed, restarts>>

\* atomic_fetch_add of inst_id_count
NextId == count + 1
Number(t) ==
    /\ pc[t] = "number" /\ made < MaxMade
    /\ ents' = Append(ents, [name |-> job[t].name, id |-> NextId, inst |-> made + 1,
                             gone |-> FALSE, new |-> TRUE, after |-> acked])
    /\ job' = [job EXCEPT ![t].ent = Len(ents) + 1]
    /\ count' = count + 1
    /\ made' = made + 1
    /\ Goto(t, "loadName")
    /\ UNCHANGED <<indices, dirRead, file, acked, owed, restarts>>

\* The loops that install an index, in a creation and in a fetch alike: load the
\* pointer; if it was NULL, install a new index unless another task just has.
LoadName(t) ==
    /\ pc[t] = "loadName"
    /\ Goto(t, IF nameIdx = None THEN "casName" ELSE "loadIdx")
    /\ UNCHANGED <<ents, indices, count, dirRead, file, job, made, acked, owed, restarts>>

Installed_v(i) == Empty
Installed(i) == IF i = None THEN Empty ELSE i
CasName(t) ==
    /\ pc[t] = "casName"
    /\ nameIdx' = Installed(nameIdx)
    /\ Goto(t, "loadIdx")
    /\ UNCHANGED <<ents, idx, count, dirRead, file, job, made, acked, owed, restarts>>

Next1(t) == IF job[t].kind = "new" THEN "register" ELSE "record"
LoadIdx(t) ==
    /\ pc[t] = "loadIdx"
    /\ Goto(t, IF idx = None THEN "casIdx" ELSE Next1(t))
    /\ UNCHANGED <<ents, indices, count, dirRead, file, job, made, acked, owed, restarts>>

CasIdx(t) ==
    /\ pc[t] = "casIdx"
    /\ idx' = Installed(idx)
    /\ Goto(t, Next1(t))
    /\ UNCHANGED <<ents, nameIdx, count, dirRead, file, job, made, acked, owed, restarts>>

\* knd_shared_dict_set, its first walk: what is pending is no conflict.  An instance
\* made without a name is not registered.
Taken_v(n) == FALSE
Taken(n) == n \in NamesIn /\ Newest(n).valid
Register(t) ==
    LET n == ents[job[t].ent].name
    IN  /\ pc[t] = "register" /\ ~Taken(n)
        /\ Goto(t, IF n = NoName /\ job[t].kind = "new" THEN "addId" ELSE "push")
        /\ job' = [job EXCEPT ![t].orig = Len(Items(n))]
        /\ UNCHANGED <<ents, indices, count, dirRead, file, made, acked, owed, restarts>>

\* The second walk, down to the head of the first, and the push: pending for a commit.
NoneNew_v(n, orig) == TRUE
NoneNew(n, orig) == Len(Items(n)) = orig
Push(t) ==
    LET e == job[t].ent  n == ents[e].name  new == job[t].kind = "new"
    IN  /\ pc[t] = "push" /\ NoneNew(n, job[t].orig)
        /\ nameIdx' = Bind(nameIdx, n, Append(Items(n), Item(e, ~new)))
        /\ Goto(t, IF new THEN "promote" ELSE "recordId")
        /\ UNCHANGED <<ents, idx, count, dirRead, file, job, made, acked, owed, restarts>>

\* A taken name fails the commit, or ends the fetch.
Conflict(t) ==
    LET n == ents[job[t].ent].name
    IN  /\ \/ pc[t] = "register" /\ Taken(n)
           \/ pc[t] = "push" /\ ~NoneNew(n, job[t].orig)
        /\ Done(t)
        /\ UNCHANGED <<ents, indices, count, dirRead, file, made, acked, owed, restarts>>

\* item->phase = KND_SHARED_DICT_VALID
Promote(t) ==
    LET e == job[t].ent  n == ents[e].name
    IN  /\ pc[t] = "promote"
        /\ nameIdx' = Bind(nameIdx, n, [k \in DOMAIN Items(n) |->
                           IF Items(n)[k].ent = e THEN Item(e, TRUE) ELSE Items(n)[k]])
        /\ Goto(t, "addId")
        /\ UNCHANGED <<ents, idx, count, dirRead, file, job, made, acked, owed, restarts>>

\* knd_shared_set_add: a taken id fails the commit, and the name stays registered.
IdFree_v(i) == TRUE
IdFree(i) == i \notin IdsIn
AddId(t) ==
    LET e == job[t].ent
    IN  /\ pc[t] = "addId"
        /\ Done(t)
        /\ idx' = IF IdFree(ents[e].id) THEN Bind(idx, ents[e].id, e) ELSE idx
        /\ acked' = IF IdFree(ents[e].id) THEN acked \cup {e} ELSE acked
        /\ UNCHANGED <<ents, nameIdx, count, dirRead, file, made, owed, restarts>>

---------------------------------------------------------------------------
(* A process dies, of an assertion or otherwise, and the next one starts   *)
(* with the file: only num_snapshot_insts is read with the class.          *)

NumSnapshotInsts == Cardinality(DOMAIN file)
Reopen ==
    /\ restarts < MaxRestarts
    /\ restarts' = restarts + 1
    /\ ents' = <<>> /\ nameIdx' = None /\ idx' = None
    /\ count' = 0
    /\ dirRead' = FALSE
    /\ pc' = [t \in Tasks |-> "idle"]
    /\ job' = [t \in Tasks |-> NoJob]
    /\ acked' = {}
    /\ UNCHANGED <<file, made, owed>>

---------------------------------------------------------------------------
(* Requests: knd_get_class_inst, parse_get_inst_by_numid, remove_inst *)

\* Without a name index, either there are no instances or the file is fetched.
Get(t, n) ==
    /\ pc[t] = "idle"
    /\ nameIdx # None \/ NumSnapshotInsts > 0
    /\ Goto(t, IF nameIdx = None THEN "loadName" ELSE "look")
    /\ job' = [job EXCEPT ![t] = Job("get", n, DOMAIN file)]
    /\ UNCHANGED <<ents, indices, count, dirRead, file, made, acked, owed, restarts>>

\* knd_class_inst_entry_unmarshall of the next record: its name is registered first.
\* A record without a name ends the fetch.
Record(t) ==
    \E i \in job[t].left :
        LET n == file[i].name
        IN  /\ pc[t] = "record"
            /\ \A j \in job[t].left : i <= j
            /\ ents' = Append(ents, [name |-> IF n = NoName THEN n ELSE Decode[n], id |-> i, inst |-> None,
                                     gone |-> FALSE, new |-> FALSE, after |-> acked])
            /\ IF n = NoName THEN Done(t) ELSE Goto(t, "register") /\ job' = [job EXCEPT ![t].ent = Len(ents) + 1]
            /\ UNCHANGED <<indices, count, dirRead, file, made, acked, owed, restarts>>

\* Then its id is added; a taken id ends the fetch.
RecordId(t) ==
    LET e == job[t].ent  i == ents[e].id
    IN  /\ pc[t] = "recordId"
        /\ idx' = IF IdFree(i) THEN Bind(idx, i, e) ELSE idx
        /\ IF IdFree(i) THEN Goto(t, "record") /\ job' = [job EXCEPT ![t].left = @ \ {i}] ELSE Done(t)
        /\ UNCHANGED <<ents, nameIdx, count, dirRead, file, made, acked, owed, restarts>>

FetchEnds(t) ==
    /\ pc[t] = "record" /\ job[t].left = {}
    /\ dirRead' = TRUE
    /\ Goto(t, "look")
    /\ UNCHANGED <<ents, indices, count, file, job, made, acked, owed, restarts>>

\* knd_class_inst_acquire: what is not loaded is read from the file and installed
\* (of two tasks that do so the first wins).  While the file is not read to its end,
\* or if it could not be, there is no dir to read by: assert(dir != NULL).
ReadAt_v(i) == file[CHOOSE j \in DOMAIN file : \A k \in DOMAIN file : j <= k]
ReadAt(i) == file[i]
Look(t) ==
    /\ pc[t] = "look"
    /\ IF NameFree(job[t].name)
       THEN Done(t) /\ UNCHANGED <<ents, indices, count, dirRead, file, made, acked, owed, restarts>>
       ELSE LET e == Newest(job[t].name).ent
            IN  \/ /\ ents[e].inst # None \/ dirRead
                   /\ ents' = IF ents[e].inst # None THEN ents
                              ELSE [ents EXCEPT ![e].inst = ReadAt(ents[e].id).inst]
                   /\ Goto(t, IF ents[e].gone THEN "idle" ELSE "found")
                   /\ job' = [job EXCEPT ![t].ent = e]
                   /\ UNCHANGED <<indices, count, dirRead, file, made, acked, owed, restarts>>
                \/ ents[e].inst = None /\ ~dirRead /\ Reopen

\* The request shows the instance, or removes it: the new state is the instance's
\* at once, and belongs to no commit.
Show(t) ==
    /\ pc[t] = "found" /\ Done(t)
    /\ UNCHANGED <<ents, indices, count, dirRead, file, made, acked, owed, restarts>>
Remove(t) ==
    /\ pc[t] = "found" /\ Done(t)
    /\ ents' = [ents EXCEPT ![job[t].ent].gone = TRUE]
    /\ UNCHANGED <<indices, count, dirRead, file, made, acked, owed, restarts>>

\* A request by id asserts that there is an index of ids.
GetById(t) == pc[t] = "idle" /\ idx = None /\ Reopen

---------------------------------------------------------------------------
(* A snapshot: export_class_insts *)

\* knd_class_inst_marshall asserts that the instance was loaded.
AllLoaded == \A i \in IdsIn : ents[idx[i]].inst # None

\* A class without an index of ids writes no file, so that its next reader finds none.
Written_v == [i \in IdsIn |-> [name |-> ents[idx[i]].name, inst |-> ents[Min(Range(idx))].inst]]
Written == [i \in IdsIn |-> [name |-> ents[idx[i]].name, inst |-> ents[idx[i]].inst]]
\* Other tasks may be creating instances; none reads the file that is replaced.
Snapshot ==
    /\ \A t \in Tasks : pc[t] = "idle" \/ job[t].kind = "new"
    /\ \/ /\ AllLoaded
          /\ Written # file /\ file' = Written
          /\ owed' = {[name |-> ents[e].name, id |-> ents[e].id, inst |-> ents[e].inst] : e \in acked}
                     \cup (IF dirRead THEN owed ELSE {})
          /\ UNCHANGED <<ents, indices, count, dirRead, pc, job, made, acked, restarts>>
       \/ ~AllLoaded /\ Reopen

Task(t) ==
    \/ \E n \in Names \cup {NoName} : New(t, n, FALSE)
    \/ \E n \in Names : New(t, n, TRUE) \/ Get(t, n)
    \/ Number(t) \/ LoadName(t) \/ CasName(t) \/ LoadIdx(t) \/ CasIdx(t)
    \/ Register(t) \/ Push(t) \/ Conflict(t) \/ Promote(t) \/ AddId(t)
    \/ Record(t) \/ RecordId(t) \/ FetchEnds(t) \/ Look(t) \/ Show(t) \/ Remove(t) \/ GetById(t)
InstNext == (\E t \in Tasks : Task(t)) \/ Snapshot \/ Reopen
InstSpec == InstInit /\ [][InstNext]_instVars

---------------------------------------------------------------------------
(* Properties *)

\* The name leads to the instance, or to one that took its place: knd_shared_dict_set
\* lets it when the two were being created at the same time.
Hides(g, e, n) == /\ ents[e].new /\ e \notin ents[g].after
                  /\ \E k \in 2..Len(nameIdx[n]) :
                        nameIdx[n][k - 1].ent = e /\ nameIdx[n][k].ent = g
Named(e, n) == /\ n \in NamesIn
               /\ Newest(n).ent = e \/ \E g \in DOMAIN ents : Hides(g, e, n)

\* An instance whose creation succeeded is found by its id, and by its name unless the
\* creation of another of that name overlapped its own: one that began later cannot hide
\* it, whichever task made the indices and whatever a fetch enters into them meanwhile.
AckedFound ==
    \A e \in acked :
        /\ ents[e].id \in IdsIn /\ idx[ents[e].id] = e
        /\ ents[e].name # NoName => Named(e, ents[e].name)

\* What had succeeded when the snapshot was written is there again once the file is
\* fetched: under its name (in the same sense, and unless that is also the code of a
\* string), under its id, and with its own values when it is read.
AckedKept ==
    dirRead => \A o \in owed :
        /\ o.id \in IdsIn /\ ents[idx[o.id]].inst \in {None, o.inst}
        /\ o.name # NoName /\ Decode[o.name] = o.name => Named(idx[o.id], o.name)
=============================================================================
