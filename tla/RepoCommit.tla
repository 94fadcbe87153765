----------------------------- MODULE RepoCommit -----------------------------
(***************************************************************************)
(* Tasks of an arbiter shard that create classes in one repo at the same   *)
(* time: the import checks of set_class_name, the registration of the      *)
(* names (update_indices), the push on the repo's list of commits          *)
(* (check_commit_conflicts) and the record in the task's own journal       *)
(* (build_commit_WAL).                                                     *)
(*                                                                         *)
(* The name index is the SharedDict of that module with a commit given to  *)
(* every set: its items are pending and stay so, because nothing promotes  *)
(* the items of class names.  A set then is two steps, the load of         *)
(* orig_head and the push that fails if the name was pushed in between.    *)
(*                                                                         *)
(* Operators whose name ends in _v are wrong variants of the definition    *)
(* that follows them; nothing uses them but the mutation tests.            *)
(***************************************************************************)
EXTENDS Naturals, Sequences, FiniteSets

CONSTANTS
    Tasks,         \* agent ids
    Names,         \* class names
    Requests,      \* the classes a request creates, in order
    Rounds,        \* bound: the requests one task runs
    Recycled,      \* do the callers take the commit from task->mempool?
    DiskFaults,    \* may a write to a journal fail?
    RecordSize,    \* bytes of a journal record, per class
    FilenameSize,  \* bytes of a journal's file name
    HeaderSize,    \* bytes of "{WAL\n"
    MaxJournalSize \* snapshot->max_journal_size

ASSUME RepoAssumption ==
    /\ Requests \subseteq Seq(Names) \ {<<>>}
    /\ Rounds \in Nat
    /\ IsFiniteSet(Tasks)
    /\ {Recycled, DiskFaults} \subseteq BOOLEAN
    /\ {RecordSize, FilenameSize, HeaderSize, MaxJournalSize} \subseteq Nat
    /\ HeaderSize + FilenameSize <= MaxJournalSize

\* The commit task t makes in its r-th request, and the memory it is in.
Commits == Tasks \X (1..Rounds)
None == <<"none", 0>>   \* a NULL commit

VARIABLES
    dict,        \* dict[n]: the items of name n, oldest first; an item is its commit
    log,         \* the commits that became snapshot->commits, oldest first
    numCommits,  \* snapshot->num_commits
    commit,      \* commit[c]: the struct kndCommit
    journals,    \* journals[t]: the journal files of agent t
    numJournals, \* snapshot->num_journals[t]: the index of the current file
    pc, round,   \* where task t is in its request, and which request it is
    todo,        \* the names of the request that are still to be treated
    orig,        \* orig_head of the name being registered
    answer       \* answer[c]: what the client of commit c was told

shared == <<dict, log, numCommits, commit>>
disk   == <<journals, numJournals>>
vars   == <<shared, disk, pc, round, todo, orig, answer>>

PCs == {"idle", "import", "index", "push_name", "load_head", "cas", "valid",
        "count", "journal", "append"}

\* A journal file: its records, in order, and its size in bytes.  A record
\* that is not whole has been cut short by a failing write.
JournalRecords == [commit : Commits, numid : Nat, whole : BOOLEAN]
Files == [records : Seq(JournalRecords), size : Nat]
EmptyFile == [records |-> <<>>, size |-> HeaderSize]

NewCommit == [numid |-> 1, orig_state |-> 0, prev |-> None,
              refs |-> <<>>, confirm |-> "INIT"]

Elems(s) == {s[i] : i \in DOMAIN s}
Current(t) == <<t, round[t]>>

\* knd_task_reset empties the task's mempool: its next commit is put where the
\* previous one was.
Page(t, r) == IF Recycled THEN <<t, 1>> ELSE <<t, r>>
Commit(t) == Page(t, round[t])
Creates(c) == Elems(commit[c].refs)
Head_commit == IF log = <<>> THEN None ELSE log[Len(log)]

Init == /\ dict = [n \in Names |-> <<>>]
        /\ log = <<>>
        /\ numCommits = 0
        /\ commit = [c \in Commits |-> NewCommit]
        /\ journals = [t \in Tasks |-> <<>>]
        /\ numJournals = [t \in Tasks |-> 0]
        /\ pc = [t \in Tasks |-> "idle"]
        /\ round = [t \in Tasks |-> 0]
        /\ todo = [t \in Tasks |-> <<>>]
        /\ orig = [t \in Tasks |-> 0]
        /\ answer = [c \in Commits |-> "none"]

Goto(t, label) == pc' = [pc EXCEPT ![t] = label]

\* The request of task t ends with answer a.
Answer(t, a) == /\ Goto(t, "idle")
                /\ answer' = [answer EXCEPT ![Current(t)] = a]
                /\ todo' = [todo EXCEPT ![t] = <<>>]
                /\ orig' = [orig EXCEPT ![t] = 0]
                /\ UNCHANGED round

---------------------------------------------------------------------------
(* Parsing the request: parse_class_import, knd_commit_new, set_class_name, *)
(* knd_class_commit_state                                                   *)

\* A new commit notes the number of commits it starts from.
Start(t, names) ==
    /\ pc[t] = "idle"
    /\ round[t] < Rounds
    /\ round' = [round EXCEPT ![t] = @ + 1]
    /\ commit' = [commit EXCEPT ![Page(t, round[t] + 1)] =
                     [NewCommit EXCEPT !.orig_state = numCommits]]
    /\ todo' = [todo EXCEPT ![t] = names]
    /\ Goto(t, "import")
    /\ UNCHANGED <<dict, log, numCommits, disk, orig, answer>>

\* knd_get_class finds any item with the name, pending or not.
Registered_v(n) == \E i \in DOMAIN dict[n] : commit[dict[n][i]].confirm = "PERSISTENT"
Registered(n) == dict[n] # <<>>

\* The name is registered in the repo, or was created by this very commit.
Taken(t, n) == Registered(n) \/ n \in Creates(Commit(t))

\* The next class of the request: its state reference goes before the others,
\* so that the names are registered last one first.
Import(t) ==
    LET refs == <<Head(todo[t])>> \o commit[Commit(t)].refs IN
    /\ pc[t] = "import"
    /\ ~Taken(t, Head(todo[t]))
    /\ commit' = [commit EXCEPT ![Commit(t)].refs = refs]
    /\ IF Len(todo[t]) > 1
       THEN /\ todo' = [todo EXCEPT ![t] = Tail(@)]
            /\ UNCHANGED pc
       ELSE /\ todo' = [todo EXCEPT ![t] = refs]
            /\ Goto(t, "index")
    /\ UNCHANGED <<dict, log, numCommits, disk, round, orig, answer>>

\* One class that exists fails the whole request.
ImportConflict(t) ==
    /\ pc[t] = "import"
    /\ Taken(t, Head(todo[t]))
    /\ Answer(t, "FAIL")
    /\ UNCHANGED <<shared, disk>>

---------------------------------------------------------------------------
(* knd_confirm_commit: update_indices, a knd_shared_dict_set for each name *)

\* The items found are pending and do not count as conflicts.
IndexLoad(t) ==
    /\ pc[t] = "index"
    /\ orig' = [orig EXCEPT ![t] = Len(dict[Head(todo[t])])]
    /\ Goto(t, "push_name")
    /\ UNCHANGED <<shared, disk, round, todo, answer>>

IndexClean(t) == Len(dict[Head(todo[t])]) = orig[t]

\* The loop goes on to the next state reference.
AfterName_v(t) == "load_head"
AfterName(t) == IF Len(todo[t]) > 1 THEN "index" ELSE "load_head"

IndexPush(t) ==
    /\ pc[t] = "push_name"
    /\ IndexClean(t)
    /\ dict' = [dict EXCEPT ![Head(todo[t])] = Append(@, Commit(t))]
    /\ todo' = [todo EXCEPT ![t] = Tail(@)]
    /\ orig' = [orig EXCEPT ![t] = 0]
    /\ Goto(t, AfterName(t))
    /\ UNCHANGED <<log, numCommits, commit, disk, round, answer>>

\* Another commit pushed the name meanwhile.  The names of this commit that
\* are registered already stay in the index.
IndexConflict(t) ==
    /\ pc[t] = "push_name"
    /\ ~IndexClean(t)
    /\ Answer(t, "FAIL")
    /\ UNCHANGED <<shared, disk>>

---------------------------------------------------------------------------
(* check_commit_conflicts.  The only state of the dictionary item of a     *)
(* class is the one its own commit gave it, so check_class_conflicts,      *)
(* called between the load of the head and the compare-and-swap, never     *)
(* finds a state of another commit.                                        *)

NextNumid_v(c) == Len(log)
NextNumid(c) == IF log = <<>> THEN commit[c].numid
                ELSE commit[Head_commit].numid + 1

LoadHead(t) ==
    LET c == Commit(t) IN
    /\ pc[t] = "load_head"
    /\ commit' = [commit EXCEPT ![c].prev = Head_commit, ![c].numid = NextNumid(c)]
    /\ Goto(t, "cas")
    /\ UNCHANGED <<dict, log, numCommits, disk, round, todo, orig, answer>>

\* head_commit, the value the compare-and-swap expects, is what prev was set to.
HeadUnchanged_v(t) == commit[Commit(t)].prev = None \/ log # <<>>
HeadUnchanged(t) == commit[Commit(t)].prev = Head_commit

PushCommit(t) ==
    /\ pc[t] = "cas"
    /\ HeadUnchanged(t)
    /\ log' = Append(log, Commit(t))
    /\ Goto(t, "valid")
    /\ UNCHANGED <<dict, numCommits, commit, disk, round, todo, orig, answer>>

PushRetry_v(t) ==
    /\ pc[t] = "cas"
    /\ Goto(t, "cas")
    /\ UNCHANGED <<shared, disk, round, todo, orig, answer>>

\* The head has moved, or the weak compare-and-swap failed spuriously.
PushRetry(t) ==
    /\ pc[t] = "cas"
    /\ Goto(t, "load_head")
    /\ UNCHANGED <<shared, disk, round, todo, orig, answer>>

SetValid(t) ==
    /\ pc[t] = "valid"
    /\ commit' = [commit EXCEPT ![Commit(t)].confirm = "VALID"]
    /\ Goto(t, "count")
    /\ UNCHANGED <<dict, log, numCommits, disk, round, todo, orig, answer>>

Count(t) ==
    /\ pc[t] = "count"
    /\ numCommits' = numCommits + 1
    /\ Goto(t, "journal")
    /\ UNCHANGED <<dict, log, commit, disk, round, todo, orig, answer>>

---------------------------------------------------------------------------
(* build_commit_WAL *)

Exists(t) == Len(journals[t]) > numJournals[t]
CurrentFile(t) == journals[t][numJournals[t] + 1]

\* planned_journal_size adds the length of the output buffer, which holds the
\* name of the file at that point and not the record.
Full_v(t) == CurrentFile(t).size > MaxJournalSize
Full(t) == CurrentFile(t).size + FilenameSize > MaxJournalSize

JournalHasRoom(t) ==
    /\ pc[t] = "journal"
    /\ Exists(t) /\ ~Full(t)
    /\ Goto(t, "append")
    /\ UNCHANGED <<shared, disk, round, todo, orig, answer>>

JournalCreate(t) ==
    /\ pc[t] = "journal"
    /\ ~Exists(t)
    /\ journals' = [journals EXCEPT ![t] = Append(@, EmptyFile)]
    /\ Goto(t, "append")
    /\ UNCHANGED <<shared, numJournals, round, todo, orig, answer>>

JournalRotate(t) ==
    /\ pc[t] = "journal"
    /\ Exists(t) /\ Full(t)
    /\ numJournals' = [numJournals EXCEPT ![t] = @ + 1]
    /\ journals' = [journals EXCEPT ![t] = Append(@, EmptyFile)]
    /\ Goto(t, "append")
    /\ UNCHANGED <<shared, round, todo, orig, answer>>

\* The new file cannot be opened: the counter has moved on if it was to be a
\* further one.  The commit stays in the log.
JournalFail(t) ==
    /\ DiskFaults
    /\ pc[t] = "journal"
    /\ Exists(t) => Full(t)
    /\ numJournals' = [numJournals EXCEPT ![t] = Len(journals[t])]
    /\ Answer(t, "FAIL")
    /\ UNCHANGED <<shared, journals>>

RecordBytes(c) == RecordSize * Len(commit[c].refs)

\* knd_append_file: one write, of which `bytes` get into the file.
Write(t, whole, bytes) ==
    LET c == Commit(t)
        record == [commit |-> c, numid |-> commit[c].numid, whole |-> whole]
    IN  journals' = [journals EXCEPT ![t][numJournals[t] + 1] =
                       [records |-> Append(@.records, record), size |-> @.size + bytes]]

AppendRecord(t) ==
    LET c == Commit(t) IN
    /\ pc[t] = "append"
    /\ Write(t, TRUE, RecordBytes(c))
    /\ commit' = [commit EXCEPT ![c].confirm = "PERSISTENT"]
    /\ Answer(t, "OK")
    /\ UNCHANGED <<dict, log, numCommits, numJournals>>

\* Nothing is written, or a part of the record, which stays in the file; the
\* commit stays in the log.
AppendFail(t) ==
    /\ DiskFaults
    /\ pc[t] = "append"
    /\ \/ UNCHANGED journals
       \/ \E part \in 1..(RecordBytes(Commit(t)) - 1) : Write(t, FALSE, part)
    /\ Answer(t, "FAIL")
    /\ UNCHANGED <<shared, numJournals>>

---------------------------------------------------------------------------

ImportStep(t)  == Import(t) \/ ImportConflict(t)
IndexStep(t)   == IndexLoad(t) \/ IndexPush(t) \/ IndexConflict(t)
CommitStep(t)  == LoadHead(t) \/ PushCommit(t) \/ PushRetry(t) \/ SetValid(t) \/ Count(t)
JournalStep(t) == \/ JournalHasRoom(t) \/ JournalCreate(t) \/ JournalRotate(t)
                  \/ JournalFail(t) \/ AppendRecord(t) \/ AppendFail(t)
Step(t) == ImportStep(t) \/ IndexStep(t) \/ CommitStep(t) \/ JournalStep(t)

\* No client has a request left.
Quiet == /\ \A t \in Tasks : pc[t] = "idle" /\ round[t] = Rounds
         /\ UNCHANGED vars

Next == \/ \E t \in Tasks : \/ \E names \in Requests : Start(t, names)
                            \/ Step(t)
        \/ Quiet

Spec == Init /\ [][Next]_vars

\* Every task is scheduled, and a compare-and-swap on an unchanged head does
\* not fail spuriously for ever.
Fairness == \A t \in Tasks : WF_vars(Step(t)) /\ SF_vars(PushCommit(t))
FairSpec == Spec /\ Fairness

---------------------------------------------------------------------------
(* Properties *)

CommitRecords == [numid : Nat, orig_state : Nat, prev : Commits \cup {None},
                  refs : Seq(Names), confirm : {"INIT", "VALID", "PERSISTENT"}]

\* The variables hold values of their types, and a task has names to treat
\* exactly while it parses or registers them.
TypeOK ==
    /\ dict \in [Names -> Seq(Commits)]
    /\ log \in Seq(Commits)
    /\ numCommits \in Nat
    /\ commit \in [Commits -> CommitRecords]
    /\ journals \in [Tasks -> Seq(Files)]
    /\ numJournals \in [Tasks -> Nat]
    /\ pc \in [Tasks -> PCs]
    /\ round \in [Tasks -> 0..Rounds]
    /\ todo \in [Tasks -> Seq(Names)]
    /\ orig \in [Tasks -> Nat]
    /\ answer \in [Commits -> {"none", "OK", "FAIL"}]
    /\ \A t \in Tasks : (todo[t] # <<>>) <=> (pc[t] \in {"import", "index", "push_name"})

\* knd_repo.commit.c:164-180.  However the loads of the head, the writes of
\* prev and numid and the compare-and-swaps of several tasks interleave, the
\* n-th commit of the list has number n and its prev is the (n-1)-th.
LogIsChain ==
    \A i \in DOMAIN log :
        /\ commit[log[i]].numid = i
        /\ commit[log[i]].prev = IF i = 1 THEN None ELSE log[i - 1]

\* Everything is of its type, and the commits form one numbered chain.
WellNumbered == TypeOK /\ LogIsChain

\* Two places of a journal, the first one before the second.
Before(p, q) == p[1] < q[1] \/ (p[1] = q[1] /\ p[2] < q[2])
Places(t) == {p \in (DOMAIN journals[t]) \X (1..Rounds) :
                 p[2] \in DOMAIN journals[t][p[1]].records}
At(t, p) == journals[t][p[1]].records[p[2]]

\* knd_repo.commit.c:352-361.  Each agent writes its own journal, after the
\* commit was pushed and without a lock: still every record, also one that a
\* failing write cut short, carries the number under which the log holds that
\* commit, and the numbers of one agent's journal files, read in order, increase.
JournalsFollowLog ==
    \A t \in Tasks : \A p \in Places(t) :
        /\ At(t, p).numid \in DOMAIN log
        /\ log[At(t, p).numid] = At(t, p).commit
        /\ \A q \in Places(t) : Before(p, q) => At(t, p).numid < At(t, q).numid

Journaled == UNION {{At(t, p).commit : p \in {q \in Places(t) : At(t, q).whole}} : t \in Tasks}

\* knd_confirm_commit: the repo behaves as a commit log.  The state a commit
\* starts from is its orig_state_id, which the code notes and never compares:
\* that no name of that state is created again rests on the import checks, on
\* the names being registered before the push and on num_commits being
\* counted after it.
Abstract == INSTANCE CommitLog WITH
              base <- [c \in Commits |-> commit[c].orig_state],
              creates <- [c \in Commits |-> Creates(c)],
              durable <- Journaled,
              acked <- {c \in Commits : answer[c] = "OK"}
ImplementsCommitLog == Abstract!Spec

\* knd_repo.commit.c:328-342.  A journal goes beyond max_journal_size by less
\* than the last record it got.
JournalOverrun ==
    \A t \in Tasks : \A f \in DOMAIN journals[t] :
        LET file == journals[t][f]
            last == file.records[Len(file.records)].commit
        IN  file.records # <<>> =>
              file.size + FilenameSize <= MaxJournalSize + RecordBytes(last)

\* knd_repo.open.c:143-147, "commit #%zu already exists": the journals of a
\* repo hold no number twice, so that they can be read again.
JournalNumidsDiffer ==
    \A t, u \in Tasks : \A p \in Places(t), q \in Places(u) :
        At(t, p).numid = At(u, q).numid => t = u /\ p = q

\* Every request is answered.
RequestsAnswered == \A t \in Tasks : pc[t] # "idle" ~> pc[t] = "idle"

\* knd_repo.commit.c:141, "class already registered": of two commits that
\* create the same class the later one is refused.
UniqueClassNames ==
    \A i, j \in DOMAIN log : i # j => Creates(log[i]) \cap Creates(log[j]) = {}
=============================================================================
