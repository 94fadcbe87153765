-------------------------- MODULE RepoCommitProofs --------------------------
(***************************************************************************)
(* Proofs about RepoCommit, for any tasks, names and number of requests,   *)
(* where a commit keeps its memory (~Recycled): the run RepoCommit_recycled *)
(* shows what is lost where the callers empty the task's mempool.          *)
(*                                                                         *)
(* The loads of the head and the compare-and-swaps of many tasks form one  *)
(* numbered chain because what a task noted of the head (NotedHead) stays  *)
(* right for that commit, and its compare-and-swap succeeds only on that   *)
(* one.  A commit creates no name of the state it started from because the *)
(* names of a commit are in the index before it is on the list             *)
(* (NamesIndexed) and on the list before it is counted (CountsBehind).     *)
(***************************************************************************)
EXTENDS RepoCommit, SequenceTheorems, FiniteSetTheorems, TLAPS

\* A request before its commit is on the list, and after that.
Unpushed == {"import", "index", "push_name", "load_head", "cas"}
Pushed == {"valid", "count", "journal", "append"}

\* A task in a request has a commit; the ones it has not come to are new.
InRound ==
    /\ \A t \in Tasks : pc[t] # "idle" => round[t] > 0
    /\ \A t \in Tasks, r \in 1..Rounds : r > round[t] => commit[<<t, r>>] = NewCommit

\* A commit is on the list from the compare-and-swap of its task on.
OnList ==
    /\ \A t \in Tasks : pc[t] \in Pushed => Commit(t) \in Elems(log)
    /\ \A t \in Tasks : pc[t] \in Unpushed => Commit(t) \notin Elems(log)
    /\ \A t \in Tasks, r \in 1..Rounds : r > round[t] => <<t, r>> \notin Elems(log)

\* What LoadHead noted is right for the head it noted, which may be stale.
NotedHead ==
    /\ log = <<>> => \A c \in Commits : commit[c].numid = 1
    /\ \A t \in Tasks : pc[t] = "cas" =>
          LET c == commit[Commit(t)] IN
          IF c.prev = None THEN c.numid = 1
          ELSE c.prev \in Elems(log) /\ c.numid = commit[c.prev].numid + 1

\* The names of a commit are in the index before it is on the list.
NamesIndexed ==
    /\ \A c \in Elems(log) : \A n \in Creates(c) : Registered(n)
    /\ \A t \in Tasks : pc[t] \in {"index", "push_name", "load_head", "cas"} =>
          \A n \in Creates(Commit(t)) : Registered(n) \/ n \in Elems(todo[t])

\* num_commits runs behind the list by the commits that are still to be counted.
Uncounted == {t \in Tasks : pc[t] \in {"valid", "count"}}
CountsBehind ==
    /\ numCommits + Cardinality(Uncounted) = Len(log)
    /\ \A c \in Commits : commit[c].orig_state <= numCommits

\* No name of the state a request started from is created again.
NewNames ==
    \A t \in Tasks : pc[t] \in Unpushed =>
        \A i \in 1..commit[Commit(t)].orig_state : Creates(log[i]) \cap Creates(Commit(t)) = {}

\* The current journal file is the last one, and has room when it is appended to.
FilesRight ==
    \A t \in Tasks :
        /\ Len(journals[t]) \in {numJournals[t], numJournals[t] + 1}
        /\ pc[t] = "append" =>
              /\ Len(journals[t]) = numJournals[t] + 1
              /\ CurrentFile(t).size + FilenameSize <= MaxJournalSize
        /\ \A f \in DOMAIN journals[t] :
              Len(journals[t][f].records) <= (IF pc[t] = "idle" THEN round[t] ELSE round[t] - 1)

\* The commit of a task is later than what its journal holds.
RecordsBehind ==
    \A t \in Tasks : pc[t] \in Pushed =>
        \A p \in Places(t) : At(t, p).numid < commit[Commit(t)].numid

\* A commit is answered when its request ends, and not before.
Unanswered ==
    \A t \in Tasks, r \in 1..Rounds :
        r > round[t] \/ (r = round[t] /\ pc[t] # "idle") => answer[<<t, r>>] = "none"

Inv == /\ TypeOK /\ LogIsChain /\ InRound /\ OnList /\ NotedHead /\ NamesIndexed
       /\ CountsBehind /\ NewNames /\ FilesRight
       /\ JournalsFollowLog /\ RecordsBehind /\ JournalOverrun /\ Unanswered

---------------------------------------------------------------------------
(* Sequences and commits *)

LEMMA Appended ==
    ASSUME NEW S, NEW s \in Seq(S), NEW e \in S
    PROVE  /\ Append(s, e) \in Seq(S) /\ Append(s, e) # <<>>
           /\ Len(Append(s, e)) = Len(s) + 1 /\ Len(s) \in Nat
           /\ DOMAIN s = 1..Len(s) /\ DOMAIN Append(s, e) = 1..(Len(s) + 1)
           /\ \A i \in 1..Len(s) : Append(s, e)[i] = s[i]
           /\ Append(s, e)[Len(s) + 1] = e
           /\ Elems(Append(s, e)) = Elems(s) \cup {e}
<1>1. /\ Append(s, e) \in Seq(S) /\ Append(s, e) # <<>>
      /\ Len(Append(s, e)) = Len(s) + 1 /\ Len(s) \in Nat
      /\ DOMAIN s = 1..Len(s) /\ DOMAIN Append(s, e) = 1..(Len(s) + 1)
      /\ \A i \in 1..Len(s) : Append(s, e)[i] = s[i]
      /\ Append(s, e)[Len(s) + 1] = e
    OBVIOUS
<1>2. \A i \in 1..(Len(s) + 1) : i \in 1..Len(s) \/ i = Len(s) + 1
    BY <1>1
<1>3. Len(s) + 1 \in 1..(Len(s) + 1) /\ \A i \in 1..Len(s) : i \in 1..(Len(s) + 1)
    BY <1>1
<1> DEFINE a == Append(s, e)
<1> HIDE DEF a
<1>4. Elems(a) = Elems(s) \cup {e}
    BY <1>1, <1>2, <1>3 DEF Elems, a
<1> QED BY <1>1, <1>4 DEF a

LEMMA HeadAndTail ==
    ASSUME NEW S, NEW s \in Seq(S), s # <<>>
    PROVE  /\ Head(s) \in S /\ Tail(s) \in Seq(S) /\ Len(s) \in Nat \ {0}
           /\ Len(s) > 1 <=> Tail(s) # <<>>
           /\ Elems(s) = {Head(s)} \cup Elems(Tail(s))
<1> DEFINE T == Tail(s)
<1>1. /\ Head(s) \in S /\ T \in Seq(S) /\ Len(s) \in Nat \ {0} /\ Head(s) = s[1]
      /\ Len(T) = Len(s) - 1 /\ \A i \in 1..Len(T) : T[i] = s[i + 1]
      /\ DOMAIN s = 1..Len(s) /\ DOMAIN T = 1..Len(T)
    BY HeadTailProperties, LenProperties, EmptySeq
<1>2. Len(s) > 1 <=> T # <<>>
  <2>1. T # <<>> <=> Len(T) # 0
    BY <1>1, EmptySeq
  <2> QED BY <1>1, <2>1
<1> HIDE DEF T
<1>3. ASSUME NEW i \in 1..Len(s) PROVE i = 1 \/ (i - 1 \in 1..Len(T) /\ s[i] = T[i - 1])
  <2>1. i # 1 => i - 1 \in 1..Len(T) /\ (i - 1) + 1 = i
    BY <1>1
  <2>2. i # 1 => T[i - 1] = s[(i - 1) + 1]
    BY <1>1, <2>1
  <2> QED BY <2>1, <2>2
<1>4. \A i \in 1..Len(T) : i + 1 \in 1..Len(s)
    BY <1>1
<1>5. 1 \in 1..Len(s)
    BY <1>1
<1>6. Elems(s) \subseteq {Head(s)} \cup Elems(T)
    BY <1>1, <1>3, SMTT(20) DEF Elems
<1>7. {Head(s)} \cup Elems(T) \subseteq Elems(s)
    BY <1>1, <1>4, <1>5 DEF Elems
<1> QED BY <1>1, <1>2, <1>6, <1>7 DEF T

LEMMA Prepended ==
    ASSUME NEW S, NEW s \in Seq(S), NEW e \in S
    PROVE  /\ <<e>> \o s \in Seq(S) /\ <<e>> \o s # <<>>
           /\ Elems(<<e>> \o s) = {e} \cup Elems(s)
<1> DEFINE a == <<e>>
           r == a \o s
<1>1. a \in Seq(S) /\ Len(a) = 1 /\ a[1] = e
    OBVIOUS
<1>2. Len(s) \in Nat /\ DOMAIN s = 1..Len(s)
    BY LenProperties
<1> HIDE DEF a
<1>3. /\ r \in Seq(S) /\ Len(r) = Len(a) + Len(s)
      /\ \A i \in 1..(Len(a) + Len(s)) : r[i] = IF i <= Len(a) THEN a[i] ELSE s[i - Len(a)]
    BY <1>1, ConcatProperties, Zenon
<1> HIDE DEF r
<1>4. DOMAIN r = 1..Len(r) /\ r # <<>>
    BY <1>1, <1>2, <1>3, LenProperties, EmptySeq
<1>5. r[1] = e /\ 1 \in 1..Len(r)
    BY <1>1, <1>2, <1>3
<1>6. ASSUME NEW i \in 1..Len(s) PROVE i + 1 \in 1..Len(r) /\ r[i + 1] = s[i]
  <2>1. i + 1 \in 1..(Len(a) + Len(s)) /\ ~(i + 1 <= Len(a)) /\ (i + 1) - Len(a) = i
    BY <1>1, <1>2
  <2>2. r[i + 1] = s[(i + 1) - Len(a)]
    BY <1>3, <2>1
  <2> QED BY <1>3, <2>1, <2>2
<1>7. ASSUME NEW i \in 1..Len(r), i # 1 PROVE i - 1 \in 1..Len(s) /\ r[i] = s[i - 1]
  <2>1. i - 1 \in 1..Len(s) /\ (i - 1) + 1 = i
    BY <1>1, <1>2, <1>3, <1>7
  <2>2. r[(i - 1) + 1] = s[i - 1]
    BY <1>6, <2>1
  <2> QED BY <2>1, <2>2
<1>8. Elems(r) \subseteq {e} \cup Elems(s)
    BY <1>2, <1>4, <1>5, <1>7 DEF Elems
<1>9. {e} \cup Elems(s) \subseteq Elems(r)
    BY <1>2, <1>4, <1>5, <1>6 DEF Elems
<1> QED BY <1>3, <1>4, <1>8, <1>9 DEF r, a

\* Where a commit keeps its memory, it is named by its task and its round.
LEMMA CommitIs ==
    ASSUME ~Recycled
    PROVE  /\ \A t \in Tasks : Commit(t) = <<t, round[t]>>
           /\ \A t \in Tasks, r \in 1..Rounds : Page(t, r) = <<t, r>> /\ <<t, r>> \in Commits
           /\ None \notin Commits
<1>1. None \notin Commits
  <2>1. 0 \notin 1..Rounds
    BY RepoAssumption
  <2> QED BY <2>1 DEF None, Commits
<1> QED BY <1>1 DEF Commit, Page, Commits

LEMMA Active ==
    ASSUME Inv, ~Recycled, NEW t \in Tasks, pc[t] # "idle"
    PROVE  round[t] \in 1..Rounds /\ Commit(t) = <<t, round[t]>> /\ Commit(t) \in Commits
<1>1. round[t] \in 0..Rounds /\ round[t] > 0
    BY DEF Inv, TypeOK, InRound
<1>2. round[t] \in 1..Rounds
    BY <1>1, RepoAssumption
<1> QED BY <1>2, CommitIs

\* knd_commit_new: a commit with the number of commits it starts from.
StartsFrom(n) == [numid |-> 1, orig_state |-> n, prev |-> None, refs |-> <<>>, confirm |-> "INIT"]

LEMMA NewCommitType ==
    /\ NewCommit \in CommitRecords
    /\ \A n \in Nat : StartsFrom(n) \in CommitRecords
    /\ \A n : [NewCommit EXCEPT !.orig_state = n] = StartsFrom(n)
    BY DEF NewCommit, CommitRecords, StartsFrom

LEMMA InitInv == Init => Inv
<1> SUFFICES ASSUME Init PROVE Inv
    OBVIOUS
<1> DEFINE none == <<>>
<1>n. /\ none = <<>> /\ Len(none) = 0 /\ DOMAIN none = {} /\ \A S : none \in Seq(S)
      /\ Elems(none) = {}
    BY DEF Elems
<1>v. /\ dict = [n \in Names |-> none] /\ log = none /\ numCommits = 0
      /\ commit = [c \in Commits |-> NewCommit]
      /\ journals = [t \in Tasks |-> none] /\ numJournals = [t \in Tasks |-> 0]
      /\ pc = [t \in Tasks |-> "idle"] /\ round = [t \in Tasks |-> 0]
      /\ todo = [t \in Tasks |-> none] /\ orig = [t \in Tasks |-> 0]
      /\ answer = [c \in Commits |-> "none"]
    BY DEF Init
<1> HIDE DEF none
<1>1. TypeOK
  <2>1. 0 \in 0..Rounds
    BY RepoAssumption
  <2> QED BY <1>n, <1>v, <2>1, NewCommitType DEF TypeOK, PCs
<1>2. LogIsChain /\ OnList /\ NewNames
    BY <1>n, <1>v DEF LogIsChain, OnList, NewNames, Pushed, Unpushed
<1>3. InRound /\ NotedHead /\ NamesIndexed
  <2>1. \A c \in Commits : commit[c] = NewCommit
    BY <1>v
  <2>2. \A t \in Tasks, r \in 1..Rounds : <<t, r>> \in Commits
    BY DEF Commits
  <2>3. InRound
    BY <1>v, <2>1, <2>2 DEF InRound
  <2>4. NotedHead
    BY <1>v, <2>1 DEF NotedHead, NewCommit
  <2> QED BY <1>n, <1>v, <2>3, <2>4 DEF NamesIndexed
<1>4. CountsBehind
  <2>1. Uncounted = {}
    BY <1>v DEF Uncounted
  <2>2. \A c \in Commits : commit[c].orig_state = 0
    BY <1>v DEF NewCommit
  <2> QED BY <1>n, <1>v, <2>1, <2>2, FS_EmptySet DEF CountsBehind
<1>5. FilesRight
    BY <1>n, <1>v DEF FilesRight
<1>6. JournalsFollowLog /\ RecordsBehind /\ JournalOverrun
  <2>1. \A t \in Tasks : Places(t) = {} /\ DOMAIN journals[t] = {}
    BY <1>n, <1>v DEF Places
  <2> QED BY <1>v, <2>1 DEF JournalsFollowLog, RecordsBehind, JournalOverrun, Pushed
<1>7. Unanswered
    BY <1>v DEF Unanswered, Commits
<1> QED BY <1>1, <1>2, <1>3, <1>4, <1>5, <1>6, <1>7 DEF Inv

---------------------------------------------------------------------------
(* The types *)

LEMMA AnswerTypes ==
    ASSUME TypeOK, NEW t \in Tasks, NEW a \in {"OK", "FAIL"}, Answer(t, a)
    PROVE  /\ pc' \in [Tasks -> PCs] /\ round' \in [Tasks -> 0..Rounds]
           /\ todo' \in [Tasks -> Seq(Names)] /\ orig' \in [Tasks -> Nat]
           /\ answer' \in [Commits -> {"none", "OK", "FAIL"}]
           /\ \A u \in Tasks : (todo'[u] # <<>>) <=> (pc'[u] \in {"import", "index", "push_name"})
<1> USE DEF TypeOK, Answer, Goto, PCs
<1>1. <<>> \in Seq(Names) /\ 0 \in Nat
    OBVIOUS
<1> QED BY <1>1

LEMMA StartTypes ==
    ASSUME Inv, ~Recycled, NEW t \in Tasks, NEW names \in Requests, Start(t, names) PROVE TypeOK'
<1>1. round[t] + 1 \in 0..Rounds /\ names \in Seq(Names) /\ names # <<>>
    BY RepoAssumption DEF Inv, TypeOK, Start
<1>2. [NewCommit EXCEPT !.orig_state = numCommits] \in CommitRecords
    BY NewCommitType DEF Inv, TypeOK
<1> QED BY <1>1, <1>2 DEF Inv, TypeOK, Start, Goto, PCs, disk

LEMMA ImportTypes ==
    ASSUME Inv, ~Recycled, NEW t \in Tasks, Import(t) PROVE TypeOK'
<1> DEFINE c == Commit(t)
           refs == <<Head(todo[t])>> \o commit[c].refs
<1>1. todo[t] \in Seq(Names) /\ todo[t] # <<>> /\ c \in Commits
  <2>1. pc[t] = "import"
    BY DEF Import
  <2> QED BY <2>1, Active DEF Inv, TypeOK
<1>2. /\ Head(todo[t]) \in Names /\ Tail(todo[t]) \in Seq(Names)
      /\ Len(todo[t]) > 1 <=> Tail(todo[t]) # <<>>
    BY <1>1, HeadAndTail
<1>3. commit[c] \in CommitRecords /\ commit[c].refs \in Seq(Names)
    BY <1>1 DEF Inv, TypeOK, CommitRecords
<1>4. refs \in Seq(Names) /\ refs # <<>>
    BY <1>2, <1>3, Prepended
<1> HIDE DEF refs, c
<1>5. commit' = [commit EXCEPT ![c].refs = refs]
    BY DEF Import, refs, c
<1>6. commit' \in [Commits -> CommitRecords]
    BY <1>1, <1>3, <1>4, <1>5 DEF Inv, TypeOK, CommitRecords
<1>7. /\ todo' = [todo EXCEPT ![t] = IF Len(todo[t]) > 1 THEN Tail(todo[t]) ELSE refs]
      /\ pc' = [pc EXCEPT ![t] = IF Len(todo[t]) > 1 THEN "import" ELSE "index"]
      /\ UNCHANGED <<dict, log, numCommits, journals, numJournals, round, orig, answer>>
    BY DEF Import, refs, c, disk, Goto, Inv, TypeOK
<1>8. todo' \in [Tasks -> Seq(Names)] /\ pc' \in [Tasks -> PCs]
      /\ \A u \in Tasks : (todo'[u] # <<>>) <=> (pc'[u] \in {"import", "index", "push_name"})
    BY <1>2, <1>4, <1>7 DEF Inv, TypeOK, PCs
<1> QED BY <1>6, <1>7, <1>8 DEF Inv, TypeOK

LEMMA IndexTypes ==
    ASSUME Inv, ~Recycled, NEW t \in Tasks, IndexLoad(t) \/ IndexPush(t) PROVE TypeOK'
<1>1. todo[t] \in Seq(Names) /\ todo[t] # <<>> /\ Commit(t) \in Commits
  <2>1. pc[t] \in {"index", "push_name"}
    BY DEF IndexLoad, IndexPush
  <2> QED BY <2>1, Active DEF Inv, TypeOK
<1>2. /\ Head(todo[t]) \in Names /\ Tail(todo[t]) \in Seq(Names)
      /\ Len(todo[t]) > 1 <=> Tail(todo[t]) # <<>>
    BY <1>1, HeadAndTail
<1>3. dict[Head(todo[t])] \in Seq(Commits) /\ Len(dict[Head(todo[t])]) \in Nat
    BY <1>2, LenProperties DEF Inv, TypeOK
<1>4. CASE IndexLoad(t)
    BY <1>1, <1>3, <1>4 DEF IndexLoad, Inv, TypeOK, shared, disk, Goto, PCs
<1>5. CASE IndexPush(t)
  <2> DEFINE d == Append(dict[Head(todo[t])], Commit(t))
  <2>1. d \in Seq(Commits)
    BY <1>1, <1>3, Appended
  <2>2. /\ dict' = [dict EXCEPT ![Head(todo[t])] = d]
        /\ todo' = [todo EXCEPT ![t] = Tail(todo[t])]
        /\ orig' = [orig EXCEPT ![t] = 0]
        /\ pc' = [pc EXCEPT ![t] = IF Len(todo[t]) > 1 THEN "index" ELSE "load_head"]
        /\ UNCHANGED <<log, numCommits, commit, journals, numJournals, round, answer>>
    BY <1>5 DEF IndexPush, Goto, AfterName, disk, Inv, TypeOK
  <2> HIDE DEF d
  <2> QED BY <1>2, <2>1, <2>2 DEF Inv, TypeOK, PCs
<1> QED BY <1>4, <1>5

LEMMA CommitTypes ==
    ASSUME Inv, ~Recycled, NEW t \in Tasks, CommitStep(t) PROVE TypeOK'
<1> DEFINE c == Commit(t)
<1>1. pc[t] \in {"load_head", "cas", "valid", "count"}
    BY DEF CommitStep, LoadHead, PushCommit, PushRetry, SetValid, Count
<1>2. c \in Commits /\ commit[c] \in CommitRecords
    BY <1>1, Active DEF Inv, TypeOK
<1>3. CASE LoadHead(t)
  <2>1. Head_commit \in Commits \cup {None} /\ (log # <<>> => Head_commit \in Commits)
    BY LenProperties, EmptySeq DEF Head_commit, Inv, TypeOK
  <2>2. NextNumid(c) \in Nat
    BY <1>2, <2>1 DEF NextNumid, Inv, TypeOK, CommitRecords
  <2>3. commit' = [commit EXCEPT ![c] = [@ EXCEPT !.prev = Head_commit, !.numid = NextNumid(c)]]
    BY <1>3 DEF LoadHead
  <2>4. [commit[c] EXCEPT !.prev = Head_commit, !.numid = NextNumid(c)] \in CommitRecords
    BY <1>2, <2>1, <2>2 DEF CommitRecords
  <2> HIDE DEF c
  <2>5. commit' \in [Commits -> CommitRecords]
    BY <1>2, <2>3, <2>4 DEF Inv, TypeOK
  <2> QED BY <1>3, <2>5 DEF LoadHead, Goto, PCs, Inv, TypeOK, disk
<1>4. CASE PushCommit(t)
  <2>1. log' \in Seq(Commits)
    BY <1>2, <1>4, Appended DEF PushCommit, Inv, TypeOK
  <2> QED BY <1>4, <2>1 DEF PushCommit, Goto, PCs, Inv, TypeOK, disk
<1>5. CASE PushRetry(t)
    BY <1>5 DEF PushRetry, Goto, PCs, Inv, TypeOK, disk, shared
<1>6. CASE SetValid(t)
  <2>1. [commit[c] EXCEPT !.confirm = "VALID"] \in CommitRecords
    BY <1>2 DEF CommitRecords
  <2>2. commit' = [commit EXCEPT ![c] = [commit[c] EXCEPT !.confirm = "VALID"]]
    BY <1>6 DEF SetValid
  <2> QED BY <1>2, <1>6, <2>1, <2>2 DEF SetValid, Goto, PCs, Inv, TypeOK, disk
<1>7. CASE Count(t)
    BY <1>7 DEF Count, Goto, PCs, Inv, TypeOK, disk
<1> QED BY <1>3, <1>4, <1>5, <1>6, <1>7 DEF CommitStep

LEMMA EmptyFileType == EmptyFile \in Files
<1>1. <<>> \in Seq(JournalRecords)
    OBVIOUS
<1> QED BY <1>1, RepoAssumption DEF EmptyFile, Files

LEMMA FileTypes ==
    ASSUME Inv, NEW t \in Tasks, pc[t] = "append"
    PROVE  /\ numJournals[t] + 1 \in 1..Len(journals[t])
           /\ CurrentFile(t) \in Files /\ CurrentFile(t) = journals[t][numJournals[t] + 1]
<1>1. journals[t] \in Seq(Files) /\ numJournals[t] \in Nat /\ Len(journals[t]) = numJournals[t] + 1
    BY DEF Inv, TypeOK, FilesRight
<1>2. numJournals[t] + 1 \in 1..Len(journals[t])
    BY <1>1
<1> QED BY <1>1, <1>2, ElementOfSeq DEF CurrentFile

\* What a record adds to its file.
NewRecord(t, whole) == [commit |-> Commit(t), numid |-> commit[Commit(t)].numid, whole |-> whole]
Recorded(t, whole, bytes) == [records |-> Append(CurrentFile(t).records, NewRecord(t, whole)),
                              size |-> CurrentFile(t).size + bytes]

LEMMA RecordTypes ==
    ASSUME Inv, ~Recycled, NEW t \in Tasks, pc[t] = "append"
    PROVE  /\ \A whole \in BOOLEAN : NewRecord(t, whole) \in JournalRecords
           /\ RecordBytes(Commit(t)) \in Nat
<1>1. Commit(t) \in Commits /\ commit[Commit(t)] \in CommitRecords
    BY Active DEF Inv, TypeOK
<1>2. commit[Commit(t)].numid \in Nat /\ Len(commit[Commit(t)].refs) \in Nat
    BY <1>1, LenProperties DEF CommitRecords
<1>3. \A a, b \in Nat : a * b \in Nat
    OBVIOUS
<1> QED BY <1>1, <1>2, <1>3, RepoAssumption DEF NewRecord, JournalRecords, RecordBytes

LEMMA AppendedRecord ==
    ASSUME Inv, ~Recycled, NEW t \in Tasks, pc[t] = "append",
           NEW whole \in BOOLEAN, NEW bytes \in Nat, Write(t, whole, bytes)
    PROVE  LET file == Recorded(t, whole, bytes)
           IN  /\ file \in Files
               /\ journals' = [journals EXCEPT ![t] = [journals[t] EXCEPT ![numJournals[t] + 1] = file]]
               /\ journals'[t] \in Seq(Files) /\ Len(journals'[t]) = Len(journals[t])
               /\ \A f \in 1..Len(journals[t]) :
                     journals'[t][f] = IF f = numJournals[t] + 1 THEN file ELSE journals[t][f]
<1> DEFINE file == Recorded(t, whole, bytes)
<1>2. /\ numJournals[t] + 1 \in 1..Len(journals[t]) /\ journals[t] \in Seq(Files)
      /\ CurrentFile(t) \in Files /\ CurrentFile(t) = journals[t][numJournals[t] + 1]
    BY FileTypes DEF Inv, TypeOK
<1>3. NewRecord(t, whole) \in JournalRecords
    BY RecordTypes
<1>4. file \in Files
  <2>1. CurrentFile(t).records \in Seq(JournalRecords) /\ CurrentFile(t).size \in Nat
    BY <1>2 DEF Files
  <2>2. Append(CurrentFile(t).records, NewRecord(t, whole)) \in Seq(JournalRecords)
    BY <1>3, <2>1, Appended
  <2> QED BY <2>1, <2>2 DEF Recorded, Files
<1>5. journals' = [journals EXCEPT ![t] = [journals[t] EXCEPT ![numJournals[t] + 1] = file]]
    BY <1>2 DEF Write, Recorded, NewRecord
<1> HIDE DEF file
<1>6. journals'[t] = [journals[t] EXCEPT ![numJournals[t] + 1] = file]
    BY <1>5 DEF Inv, TypeOK
<1>7. /\ journals'[t] \in Seq(Files) /\ Len(journals'[t]) = Len(journals[t])
      /\ \A f \in 1..Len(journals[t]) :
            journals'[t][f] = IF f = numJournals[t] + 1 THEN file ELSE journals[t][f]
    BY <1>2, <1>4, <1>6, ExceptSeq
<1> QED BY <1>4, <1>5, <1>7 DEF file

\* A task writes its record, all of it or a part.
Wrote(t, whole) ==
    /\ pc[t] = "append" /\ whole \in BOOLEAN /\ (whole <=> AppendRecord(t))
    /\ \E bytes \in 0..RecordBytes(Commit(t)) : Write(t, whole, bytes)

LEMMA AppendDoes ==
    ASSUME Inv, ~Recycled, NEW t \in Tasks, AppendRecord(t) \/ AppendFail(t)
    PROVE  /\ pc[t] = "append" /\ pc'[t] = "idle" /\ round' = round /\ numJournals' = numJournals
           /\ (UNCHANGED journals /\ ~AppendRecord(t)) \/ (\E whole \in BOOLEAN : Wrote(t, whole))
<1>1. pc[t] = "append" /\ pc'[t] = "idle" /\ round' = round /\ numJournals' = numJournals
    BY DEF AppendRecord, AppendFail, Answer, Goto, Inv, TypeOK
<1>2. RecordBytes(Commit(t)) \in Nat
    BY <1>1, RecordTypes
<1>3. CASE AppendRecord(t)
  <2>1. Write(t, TRUE, RecordBytes(Commit(t))) /\ RecordBytes(Commit(t)) \in 0..RecordBytes(Commit(t))
    <3>1. Write(t, TRUE, RecordBytes(Commit(t)))
      BY <1>3 DEF AppendRecord
    <3>2. \A b \in Nat : b \in 0..b
      OBVIOUS
    <3> QED BY <1>2, <3>1, <3>2
  <2>2. Wrote(t, TRUE)
    BY <1>1, <1>3, <2>1 DEF Wrote
  <2> QED BY <1>1, <2>2
<1>4. CASE AppendFail(t)
  <2>1. ~AppendRecord(t)
    <3>1. /\ answer' = [answer EXCEPT ![Current(t)] = "FAIL"]
          /\ AppendRecord(t) => answer' = [answer EXCEPT ![Current(t)] = "OK"]
      BY <1>4 DEF AppendFail, AppendRecord, Answer
    <3>2. Current(t) \in Commits /\ DOMAIN answer = Commits
      BY <1>1, Active, CommitIs DEF Current, Inv, TypeOK
    <3> QED BY <3>1, <3>2
  <2>2. ASSUME NEW part \in 1..(RecordBytes(Commit(t)) - 1), Write(t, FALSE, part) PROVE Wrote(t, FALSE)
    <3>1. part \in 0..RecordBytes(Commit(t))
      BY <1>2
    <3> QED BY <1>1, <2>1, <2>2, <3>1 DEF Wrote
  <2> QED BY <1>1, <1>4, <2>1, <2>2 DEF AppendFail
<1> QED BY <1>3, <1>4

LEMMA WroteDoes ==
    ASSUME Inv, ~Recycled, NEW t \in Tasks, NEW whole, Wrote(t, whole)
    PROVE  \E bytes \in Nat :
              LET file == Recorded(t, whole, bytes)
              IN  /\ bytes <= RecordBytes(Commit(t))
                  /\ file \in Files
                  /\ journals' = [journals EXCEPT ![t] = [journals[t] EXCEPT ![numJournals[t] + 1] = file]]
                  /\ journals'[t] \in Seq(Files) /\ Len(journals'[t]) = Len(journals[t])
                  /\ \A f \in 1..Len(journals[t]) :
                        journals'[t][f] = IF f = numJournals[t] + 1 THEN file ELSE journals[t][f]
<1>1. PICK bytes \in 0..RecordBytes(Commit(t)) : Write(t, whole, bytes)
    BY DEF Wrote
<1>2. bytes \in Nat /\ bytes <= RecordBytes(Commit(t)) /\ whole \in BOOLEAN /\ pc[t] = "append"
    BY RecordTypes DEF Wrote
<1> QED BY <1>1, <1>2, AppendedRecord

LEMMA JournalTypes ==
    ASSUME Inv, ~Recycled, NEW t \in Tasks, JournalStep(t) PROVE TypeOK'
<1>1. journals[t] \in Seq(Files) /\ Len(journals[t]) \in Nat /\ numJournals[t] \in Nat
    BY LenProperties DEF Inv, TypeOK
<1>2. Append(journals[t], EmptyFile) \in Seq(Files)
    BY <1>1, EmptyFileType, Appended
<1>3. CASE JournalHasRoom(t)
    BY <1>3 DEF JournalHasRoom, Goto, PCs, Inv, TypeOK, shared, disk
<1>4. CASE JournalCreate(t) \/ JournalRotate(t)
  <2>1. /\ journals' = [journals EXCEPT ![t] = Append(journals[t], EmptyFile)]
        /\ pc[t] = "journal" /\ pc' = [pc EXCEPT ![t] = "append"]
        /\ UNCHANGED <<dict, log, numCommits, commit, round, todo, orig, answer>>
    BY <1>4 DEF JournalCreate, JournalRotate, Goto, shared
  <2>2. journals' \in [Tasks -> Seq(Files)]
    BY <1>2, <2>1 DEF Inv, TypeOK
  <2>3. numJournals' \in [Tasks -> Nat]
    <3>1. numJournals' = numJournals \/ numJournals' = [numJournals EXCEPT ![t] = numJournals[t] + 1]
      BY <1>4 DEF JournalCreate, JournalRotate
    <3>2. numJournals[t] + 1 \in Nat /\ numJournals \in [Tasks -> Nat]
      BY <1>1 DEF Inv, TypeOK
    <3>3. CASE numJournals' = [numJournals EXCEPT ![t] = numJournals[t] + 1]
      BY <3>2, <3>3
    <3> QED BY <3>1, <3>2, <3>3
  <2> QED BY <2>1, <2>2, <2>3 DEF PCs, Inv, TypeOK
<1>5. CASE JournalFail(t)
  <2>1. Answer(t, "FAIL") /\ numJournals' = [numJournals EXCEPT ![t] = Len(journals[t])]
        /\ UNCHANGED <<shared, journals>>
    BY <1>5 DEF JournalFail
  <2> QED BY <1>1, <2>1, AnswerTypes DEF Inv, TypeOK, shared
<1>6. CASE AppendRecord(t) \/ AppendFail(t)
  <2> DEFINE c == Commit(t)
  <2>1. /\ \E a \in {"OK", "FAIL"} : Answer(t, a)
        /\ UNCHANGED <<dict, log, numCommits, numJournals>> /\ pc[t] = "append"
        /\ commit' = commit \/ commit' = [commit EXCEPT ![c] = [commit[c] EXCEPT !.confirm = "PERSISTENT"]]
    BY <1>6 DEF AppendRecord, AppendFail, shared
  <2>2. c \in Commits /\ commit[c] \in CommitRecords
    BY <2>1, Active DEF Inv, TypeOK
  <2>3. commit' \in [Commits -> CommitRecords]
    <3>1. [commit[c] EXCEPT !.confirm = "PERSISTENT"] \in CommitRecords
      BY <2>2 DEF CommitRecords
    <3> QED BY <2>1, <2>2, <3>1 DEF Inv, TypeOK
  <2>4. journals' \in [Tasks -> Seq(Files)]
    <3>1. ASSUME NEW whole \in BOOLEAN, Wrote(t, whole) PROVE journals' \in [Tasks -> Seq(Files)]
      <4>1. PICK bytes \in Nat :
               LET file == Recorded(t, whole, bytes)
               IN  /\ journals' = [journals EXCEPT ![t] = [journals[t] EXCEPT ![numJournals[t] + 1] = file]]
                   /\ journals'[t] \in Seq(Files)
        BY <3>1, WroteDoes
      <4> QED BY <4>1 DEF Inv, TypeOK
    <3> QED BY <1>6, <3>1, AppendDoes DEF Inv, TypeOK
  <2> QED BY <2>1, <2>3, <2>4, AnswerTypes DEF Inv, TypeOK
<1> QED BY <1>3, <1>4, <1>5, <1>6 DEF JournalStep

\* A step of a task in a request.
Acts(t) == Step(t) \/ \E names \in Requests : Start(t, names)

LEMMA TypeStep == ASSUME Inv, ~Recycled, NEW t \in Tasks, Acts(t) PROVE TypeOK'
<1>1. CASE ImportConflict(t) \/ IndexConflict(t)
  <2>1. Answer(t, "FAIL") /\ UNCHANGED <<shared, disk>>
    BY <1>1 DEF ImportConflict, IndexConflict
  <2> QED BY <2>1, AnswerTypes DEF Inv, TypeOK, shared, disk
<1> QED BY <1>1, StartTypes, ImportTypes, IndexTypes, CommitTypes, JournalTypes
        DEF Acts, Step, ImportStep, IndexStep

---------------------------------------------------------------------------
(* What a step leaves alone *)

\* A task writes to its own commit, journal and request only.
LEMMA Frame ==
    ASSUME Inv, ~Recycled, NEW t \in Tasks, Acts(t)
    PROVE  /\ \A u \in Tasks \ {t} :
                 /\ pc'[u] = pc[u] /\ round'[u] = round[u] /\ todo'[u] = todo[u]
                 /\ journals'[u] = journals[u] /\ numJournals'[u] = numJournals[u]
           /\ \A c \in Commits : c # <<t, round'[t]>> => commit'[c] = commit[c]
<1> USE DEF Inv, TypeOK
<1>1. ASSUME NEW names \in Requests, Start(t, names)
      PROVE  /\ \A u \in Tasks \ {t} :
                   /\ pc'[u] = pc[u] /\ round'[u] = round[u] /\ todo'[u] = todo[u]
                   /\ journals'[u] = journals[u] /\ numJournals'[u] = numJournals[u]
             /\ \A c \in Commits : c # <<t, round'[t]>> => commit'[c] = commit[c]
  <2>1. Page(t, round[t] + 1) = <<t, round'[t]>>
    BY <1>1 DEF Start, Page
  <2>2. commit' = [commit EXCEPT ![<<t, round'[t]>>] = [NewCommit EXCEPT !.orig_state = numCommits]]
    BY <1>1, <2>1 DEF Start
  <2>3. \A c \in Commits : c # <<t, round'[t]>> => commit'[c] = commit[c]
    BY <2>2
  <2> QED BY <1>1, <2>3 DEF Start, Goto, disk
<1>2. ASSUME Step(t), UNCHANGED round
      PROVE  \A c \in Commits : c # <<t, round'[t]>> => commit'[c] = commit[c]
  <2>1. Commit(t) = <<t, round'[t]>>
    BY <1>2, CommitIs
  <2>2. CASE Import(t)
    BY <2>1, <2>2 DEF Import
  <2>3. CASE CommitStep(t)
    BY <2>1, <2>3 DEF CommitStep, LoadHead, PushCommit, PushRetry, SetValid, Count, shared
  <2>4. CASE JournalStep(t)
    BY <2>1, <2>4 DEF JournalStep, JournalHasRoom, JournalCreate, JournalRotate, JournalFail,
                      AppendRecord, AppendFail, shared
  <2>5. CASE ImportConflict(t) \/ IndexStep(t)
    BY <2>5 DEF ImportConflict, IndexStep, IndexLoad, IndexPush, IndexConflict, shared
  <2> QED BY <1>2, <2>2, <2>3, <2>4, <2>5 DEF Step, ImportStep
<1>3. ASSUME Step(t)
      PROVE  UNCHANGED round /\ \A u \in Tasks \ {t} : pc'[u] = pc[u] /\ todo'[u] = todo[u]
  <2>1. CASE ImportStep(t)
    BY <2>1 DEF ImportStep, Import, ImportConflict, Answer, Goto
  <2>2. CASE IndexStep(t)
    BY <2>2 DEF IndexStep, IndexLoad, IndexPush, IndexConflict, Answer, Goto
  <2>3. CASE CommitStep(t)
    BY <2>3 DEF CommitStep, LoadHead, PushCommit, PushRetry, SetValid, Count, Goto
  <2>4. CASE JournalStep(t)
    BY <2>4 DEF JournalStep, JournalHasRoom, JournalCreate, JournalRotate, JournalFail,
                AppendRecord, AppendFail, Answer, Goto
  <2> QED BY <1>3, <2>1, <2>2, <2>3, <2>4 DEF Step
<1>4. ASSUME Step(t)
      PROVE  \A u \in Tasks \ {t} : journals'[u] = journals[u] /\ numJournals'[u] = numJournals[u]
  <2>1. CASE JournalStep(t)
    BY <2>1 DEF JournalStep, JournalHasRoom, JournalCreate, JournalRotate, JournalFail,
                AppendRecord, AppendFail, Write, disk
  <2>2. CASE ~JournalStep(t)
    BY <1>4, <2>2 DEF Step, ImportStep, Import, ImportConflict, IndexStep, IndexLoad, IndexPush,
                IndexConflict, CommitStep, LoadHead, PushCommit, PushRetry, SetValid, Count, disk
  <2> QED BY <2>1, <2>2
<1> QED BY <1>1, <1>2, <1>3, <1>4 DEF Acts

SameBut(c) == /\ commit'[c].numid = commit[c].numid
              /\ commit'[c].prev = commit[c].prev
              /\ commit'[c].orig_state = commit[c].orig_state

\* Setting the confirmation of a commit changes nothing else of it.
LEMMA ConfirmOnly ==
    ASSUME TypeOK, NEW d, NEW x,
           \/ commit' = commit
           \/ commit' = [commit EXCEPT ![d] = [commit[d] EXCEPT !.confirm = x]]
    PROVE  \A c \in Commits : SameBut(c) /\ commit'[c].refs = commit[c].refs
<1> SUFFICES ASSUME NEW c \in Commits PROVE SameBut(c) /\ commit'[c].refs = commit[c].refs
    OBVIOUS
<1>1. commit[c] \in CommitRecords /\ commit \in [Commits -> CommitRecords]
    BY DEF TypeOK
<1>2. CASE commit'[c] = commit[c]
    BY <1>2 DEF SameBut
<1>3. CASE commit'[c] = [commit[c] EXCEPT !.confirm = x]
    BY <1>1, <1>3 DEF SameBut, CommitRecords
<1>4. commit'[c] = commit[c] \/ commit'[c] = [commit[c] EXCEPT !.confirm = x]
  <2>1. CASE commit' = commit
    BY <2>1
  <2>2. CASE commit' = [commit EXCEPT ![d] = [commit[d] EXCEPT !.confirm = x]]
    BY <1>1, <2>2
  <2> QED BY <2>1, <2>2
<1> QED BY <1>2, <1>3, <1>4

\* Steps that neither begin a request nor touch the numbers or the list.
Others(t) == \/ ImportStep(t) \/ IndexStep(t) \/ PushRetry(t) \/ SetValid(t) \/ Count(t)
             \/ JournalStep(t)

LEMMA OthersDo ==
    ASSUME Inv, ~Recycled, NEW t \in Tasks, Others(t)
    PROVE  /\ UNCHANGED <<log, round>> /\ pc[t] # "idle"
           /\ \A c \in Commits : /\ SameBut(c)
                                 /\ commit'[c].refs = commit[c].refs \/ (Import(t) /\ c = Commit(t))
           /\ pc[t] \in Unpushed => pc'[t] \in (Unpushed \ {"cas"}) \cup {"idle"}
           /\ pc[t] \in Pushed => pc'[t] \in Pushed \cup {"idle"}
<1> USE DEF Inv, TypeOK, Unpushed, Pushed, Goto, Answer
<1>1. CASE Import(t)
  <2>1. commit' = [commit EXCEPT ![Commit(t)].refs = <<Head(todo[t])>> \o commit[Commit(t)].refs]
    BY <1>1 DEF Import
  <2>2. \A c \in Commits : commit[c] \in CommitRecords
    OBVIOUS
  <2>3. \A c \in Commits : SameBut(c) /\ (commit'[c].refs = commit[c].refs \/ c = Commit(t))
    BY <2>1, <2>2 DEF CommitRecords, SameBut
  <2>4. UNCHANGED <<log, round>> /\ pc[t] = "import" /\ pc'[t] \in {"import", "index"}
    BY <1>1 DEF Import
  <2> QED BY <1>1, <2>3, <2>4
<1>2. CASE ImportConflict(t) \/ IndexStep(t) \/ PushRetry(t)
    BY <1>2 DEF SameBut, ImportConflict, IndexStep, IndexLoad, IndexPush, IndexConflict, AfterName, PushRetry, shared
<1>3. CASE SetValid(t) \/ Count(t)
  <2>1. /\ commit' = commit \/ commit' = [commit EXCEPT ![Commit(t)] = [commit[Commit(t)] EXCEPT !.confirm = "VALID"]]
        /\ UNCHANGED <<log, round>> /\ pc[t] \in {"valid", "count"} /\ pc'[t] \in {"count", "journal"}
    BY <1>3 DEF SetValid, Count
  <2>2. \A c \in Commits : SameBut(c) /\ commit'[c].refs = commit[c].refs
    BY <2>1, ConfirmOnly
  <2> QED BY <2>1, <2>2
<1>4. CASE JournalStep(t)
  <2>1. /\ commit' = commit \/ commit' = [commit EXCEPT ![Commit(t)] = [commit[Commit(t)] EXCEPT !.confirm = "PERSISTENT"]]
        /\ UNCHANGED <<log, round>> /\ pc[t] \in {"journal", "append"} /\ pc'[t] \in {"append", "idle"}
    BY <1>4 DEF JournalStep, JournalHasRoom, JournalCreate, JournalRotate, JournalFail,
                AppendRecord, AppendFail, shared
  <2>2. \A c \in Commits : SameBut(c) /\ commit'[c].refs = commit[c].refs
    BY <2>1, ConfirmOnly
  <2> QED BY <2>1, <2>2
<1> QED BY <1>1, <1>2, <1>3, <1>4 DEF Others, ImportStep

LEMMA ActsSplit ==
    ASSUME NEW t \in Tasks, Acts(t)
    PROVE  (\E names \in Requests : Start(t, names)) \/ LoadHead(t) \/ PushCommit(t) \/ Others(t)
    BY DEF Acts, Step, Others, CommitStep

---------------------------------------------------------------------------
(* The list of commits *)

LEMMA NamedNext ==
    ASSUME ~Recycled PROVE \A t \in Tasks : Commit(t)' = <<t, round'[t]>>
    BY DEF Commit, Page

LEMMA StartDoes ==
    ASSUME Inv, ~Recycled, NEW t \in Tasks, NEW names \in Requests, Start(t, names)
    PROVE  LET c == <<t, round[t] + 1>>
           IN  /\ c \in Commits /\ c \notin Elems(log) /\ round[t] \in Nat /\ round[t] + 1 \in 1..Rounds
               /\ commit' = [commit EXCEPT ![c] = StartsFrom(numCommits)]
               /\ round' = [round EXCEPT ![t] = round[t] + 1]
               /\ pc[t] = "idle" /\ pc' = [pc EXCEPT ![t] = "import"]
               /\ UNCHANGED <<dict, log, numCommits, journals, numJournals>>
<1>1. round[t] \in Nat /\ round[t] + 1 \in 1..Rounds /\ round[t] + 1 > round[t]
    BY RepoAssumption, SMTT(20) DEF Start, Inv, TypeOK
<1>2. Page(t, round[t] + 1) = <<t, round[t] + 1>> /\ <<t, round[t] + 1>> \in Commits
    BY <1>1, CommitIs
<1>3. <<t, round[t] + 1>> \notin Elems(log)
    BY <1>1 DEF Inv, OnList
<1> QED BY <1>1, <1>2, <1>3, NewCommitType DEF Start, Goto, disk

LEMMA LoadDoes ==
    ASSUME Inv, ~Recycled, NEW t \in Tasks, LoadHead(t)
    PROVE  LET c == Commit(t)
           IN  /\ c \in Commits /\ c \notin Elems(log)
               /\ commit'[c].prev = Head_commit /\ commit'[c].numid = NextNumid(c)
               /\ commit'[c].orig_state = commit[c].orig_state /\ commit'[c].refs = commit[c].refs
               /\ commit'[c].confirm = commit[c].confirm
               /\ \A d \in Commits \ {c} : commit'[d] = commit[d]
               /\ pc[t] = "load_head" /\ pc' = [pc EXCEPT ![t] = "cas"]
               /\ UNCHANGED <<dict, log, numCommits, journals, numJournals, round, todo, orig, answer>>
<1> DEFINE c == Commit(t)
<1>1. pc[t] = "load_head"
    BY DEF LoadHead
<1>2. c \in Commits /\ commit[c] \in CommitRecords /\ commit \in [Commits -> CommitRecords]
    BY <1>1, Active DEF Inv, TypeOK
<1>3. c \notin Elems(log)
    BY <1>1 DEF Inv, OnList, Unpushed
<1>4. commit' = [commit EXCEPT ![c] = [commit[c] EXCEPT !.prev = Head_commit, !.numid = NextNumid(c)]]
    BY <1>2 DEF LoadHead
<1> HIDE DEF c
<1>5. commit'[c] = [commit[c] EXCEPT !.prev = Head_commit, !.numid = NextNumid(c)]
    BY <1>2, <1>4
<1>6. /\ commit'[c].prev = Head_commit /\ commit'[c].numid = NextNumid(c)
      /\ commit'[c].orig_state = commit[c].orig_state /\ commit'[c].refs = commit[c].refs
      /\ commit'[c].confirm = commit[c].confirm
    BY <1>2, <1>5 DEF CommitRecords
<1>7. \A d \in Commits \ {c} : commit'[d] = commit[d]
    BY <1>2, <1>4
<1> QED BY <1>1, <1>2, <1>3, <1>6, <1>7 DEF LoadHead, Goto, disk, c

LEMMA PushDoes ==
    ASSUME Inv, ~Recycled, NEW t \in Tasks, PushCommit(t)
    PROVE  LET c == Commit(t)
           IN  /\ c \in Commits /\ c \notin Elems(log)
               /\ log \in Seq(Commits) /\ log' = Append(log, c) /\ log' # <<>>
               /\ Len(log) \in Nat /\ Len(log') = Len(log) + 1
               /\ DOMAIN log = 1..Len(log) /\ DOMAIN log' = 1..(Len(log) + 1)
               /\ \A i \in 1..Len(log) : log'[i] = log[i]
               /\ log'[Len(log) + 1] = c
               /\ Elems(log') = Elems(log) \cup {c}
               /\ commit[c].prev = Head_commit
               /\ pc[t] = "cas" /\ pc' = [pc EXCEPT ![t] = "valid"]
               /\ UNCHANGED <<dict, numCommits, commit, journals, numJournals, round, todo, orig, answer>>
<1> DEFINE c == Commit(t)
<1>1. pc[t] = "cas" /\ log' = Append(log, c)
    BY DEF PushCommit
<1>2. c \in Commits /\ log \in Seq(Commits)
    BY <1>1, Active DEF Inv, TypeOK
<1>3. c \notin Elems(log)
    BY <1>1 DEF Inv, OnList, Unpushed
<1> HIDE DEF c
<1>4. /\ Append(log, c) # <<>> /\ Len(log) \in Nat /\ Len(Append(log, c)) = Len(log) + 1
      /\ DOMAIN log = 1..Len(log) /\ DOMAIN Append(log, c) = 1..(Len(log) + 1)
      /\ \A i \in 1..Len(log) : Append(log, c)[i] = log[i]
      /\ Append(log, c)[Len(log) + 1] = c
      /\ Elems(Append(log, c)) = Elems(log) \cup {c}
    BY <1>2, Appended
<1>5. commit[c].prev = Head_commit /\ pc' = [pc EXCEPT ![t] = "valid"]
      /\ UNCHANGED <<dict, numCommits, commit, journals, numJournals, round, todo, orig, answer>>
    BY DEF PushCommit, HeadUnchanged, Goto, disk, c
<1> QED BY <1>1, <1>2, <1>3, <1>4, <1>5 DEF c

\* A commit on the list is never rewritten, and the list only grows.
LEMMA Frozen ==
    ASSUME Inv, ~Recycled, NEW t \in Tasks, Acts(t)
    PROVE  /\ \A c \in Elems(log) : c \in Commits /\ SameBut(c) /\ commit'[c].refs = commit[c].refs
           /\ Elems(log) \subseteq Elems(log')
           /\ log' # log => PushCommit(t)
<1>0. log \in Seq(Commits) /\ \A c \in Elems(log) : c \in Commits
    BY DEF Inv, TypeOK, Elems
<1>1. ASSUME NEW names \in Requests, Start(t, names)
      PROVE  /\ UNCHANGED log
             /\ \A c \in Elems(log) : SameBut(c) /\ commit'[c].refs = commit[c].refs
  <2>1. /\ UNCHANGED log /\ <<t, round[t] + 1>> \notin Elems(log)
        /\ commit' = [commit EXCEPT ![<<t, round[t] + 1>>] = StartsFrom(numCommits)]
    BY <1>1, StartDoes
  <2>2. \A c \in Elems(log) : commit'[c] = commit[c]
    BY <1>0, <2>1 DEF Inv, TypeOK
  <2> QED BY <2>1, <2>2 DEF SameBut
<1>2. ASSUME LoadHead(t)
      PROVE  /\ UNCHANGED log
             /\ \A c \in Elems(log) : SameBut(c) /\ commit'[c].refs = commit[c].refs
    BY <1>0, <1>2, LoadDoes DEF SameBut
<1>3. ASSUME PushCommit(t)
      PROVE  /\ Elems(log) \subseteq Elems(log')
             /\ \A c \in Elems(log) : SameBut(c) /\ commit'[c].refs = commit[c].refs
    BY <1>3, PushDoes DEF SameBut
<1>4. ASSUME Others(t)
      PROVE  /\ UNCHANGED log
             /\ \A c \in Elems(log) : SameBut(c) /\ commit'[c].refs = commit[c].refs
  <2>1. ASSUME Import(t) PROVE Commit(t) \notin Elems(log)
    BY <2>1 DEF Import, Inv, OnList, Unpushed
  <2> QED BY <1>0, <1>4, <2>1, OthersDo
<1> QED BY <1>0, <1>1, <1>2, <1>3, <1>4, ActsSplit

LEMMA RoundStep == ASSUME Inv, ~Recycled, NEW t \in Tasks, Acts(t) PROVE InRound'
<1>1. ASSUME NEW u \in Tasks, pc'[u] # "idle" PROVE round'[u] > 0
  <2>1. round[u] \in Nat /\ (pc[u] # "idle" => round[u] > 0)
    BY RepoAssumption DEF Inv, TypeOK, InRound
  <2>2. CASE u # t
    BY <1>1, <2>1, <2>2, Frame
  <2>3. ASSUME u = t, NEW names \in Requests, Start(t, names) PROVE round'[u] > 0
    <3>1. round' = [round EXCEPT ![t] = round[t] + 1]
      BY <2>3, StartDoes
    <3>2. round'[t] = round[t] + 1
      BY <3>1 DEF Inv, TypeOK
    <3> QED BY <2>1, <2>3, <3>2
  <2>4. CASE u = t /\ ~\E names \in Requests : Start(t, names)
    BY <2>1, <2>4, LoadDoes, PushDoes, OthersDo, ActsSplit
  <2> QED BY <2>2, <2>3, <2>4
<1>2. ASSUME NEW u \in Tasks, NEW r \in 1..Rounds, r > round'[u] PROVE commit'[<<u, r>>] = NewCommit
  <2>1. round'[u] = round[u] \/ (u = t /\ round'[u] = round[u] + 1)
    <3>1. ASSUME NEW names \in Requests, Start(t, names)
          PROVE  round'[u] = round[u] \/ (u = t /\ round'[u] = round[u] + 1)
      <4>1. round' = [round EXCEPT ![t] = round[t] + 1]
        BY <3>1, StartDoes
      <4> QED BY <4>1 DEF Inv, TypeOK
    <3> QED BY <3>1, LoadDoes, PushDoes, OthersDo, ActsSplit
  <2>2. r > round[u] /\ <<u, r>> # <<t, round'[t]>> /\ <<u, r>> \in Commits
    BY <1>2, <2>1, RepoAssumption, CommitIs, SMTT(20) DEF Inv, TypeOK
  <2>3. commit[<<u, r>>] = NewCommit
    BY <2>2 DEF Inv, InRound
  <2> QED BY <2>2, <2>3, Frame
<1> QED BY <1>1, <1>2 DEF InRound

LEMMA OnListStep == ASSUME Inv, ~Recycled, NEW t \in Tasks, Acts(t) PROVE OnList'
<1>1. \A c \in Elems(log') : c \in Elems(log) \/ (c = <<t, round'[t]>> /\ PushCommit(t))
    BY Frozen, PushDoes, CommitIs
<1>2. \A u \in Tasks : /\ Commit(u)' = <<u, round'[u]>>
                       /\ u # t => Commit(u)' = Commit(u) /\ pc'[u] = pc[u]
    BY NamedNext, CommitIs, Frame
<1>3. pc[t] \in {"idle"} \cup Pushed \cup Unpushed
    BY DEF Inv, TypeOK, PCs, Pushed, Unpushed
<1>4. pc'[t] \in Pushed => Commit(t)' \in Elems(log')
  <2>1. CASE \E names \in Requests : Start(t, names)
    BY <2>1, StartDoes DEF Pushed, Inv, TypeOK
  <2>2. CASE LoadHead(t)
    BY <2>2, LoadDoes DEF Pushed, Inv, TypeOK
  <2>3. CASE PushCommit(t)
    BY <2>3, PushDoes, CommitIs, NamedNext
  <2>4. CASE Others(t)
    <3>1. pc'[t] \in Pushed => pc[t] \in Pushed
      BY <1>3, <2>4, OthersDo DEF Pushed, Unpushed
    <3>2. log' = log /\ Commit(t)' = Commit(t)
      BY <2>4, OthersDo, NamedNext, CommitIs
    <3> QED BY <3>1, <3>2 DEF Inv, OnList
  <2> QED BY <2>1, <2>2, <2>3, <2>4, ActsSplit
<1>5. pc'[t] \in Unpushed => Commit(t)' \notin Elems(log')
  <2>1. ASSUME NEW names \in Requests, Start(t, names) PROVE Commit(t)' \notin Elems(log')
    <3>1. round' = [round EXCEPT ![t] = round[t] + 1] /\ <<t, round[t] + 1>> \notin Elems(log) /\ log' = log
      BY <2>1, StartDoes
    <3>2. round'[t] = round[t] + 1
      BY <3>1 DEF Inv, TypeOK
    <3> QED BY <1>2, <3>1, <3>2
  <2>2. CASE LoadHead(t)
    BY <2>2, LoadDoes, CommitIs, NamedNext
  <2>3. CASE PushCommit(t)
    BY <2>3, PushDoes DEF Unpushed, Inv, TypeOK
  <2>4. CASE Others(t)
    <3>1. pc'[t] \in Unpushed => pc[t] \in Unpushed
      BY <1>3, <2>4, OthersDo DEF Pushed, Unpushed
    <3>2. log' = log /\ Commit(t)' = Commit(t)
      BY <2>4, OthersDo, NamedNext, CommitIs
    <3> QED BY <3>1, <3>2 DEF Inv, OnList
  <2> QED BY <2>1, <2>2, <2>3, <2>4, ActsSplit
<1>6. ASSUME NEW u \in Tasks, u # t
      PROVE  /\ pc'[u] \in Pushed => Commit(u)' \in Elems(log')
             /\ pc'[u] \in Unpushed => Commit(u)' \notin Elems(log')
  <2>1. Elems(log) \subseteq Elems(log')
    BY Frozen
  <2>2. Commit(u)' # <<t, round'[t]>>
    BY <1>2, <1>6
  <2> QED BY <1>1, <1>2, <1>6, <2>1, <2>2 DEF Inv, OnList
<1>7. ASSUME NEW u \in Tasks, NEW r \in 1..Rounds, r > round'[u] PROVE <<u, r>> \notin Elems(log')
  <2>1. r > round[u]
    <3>1. round'[u] = round[u] \/ round'[u] = round[u] + 1
      <4>1. ASSUME NEW names \in Requests, Start(t, names)
            PROVE  round'[u] = round[u] \/ round'[u] = round[u] + 1
        <5>1. round' = [round EXCEPT ![t] = round[t] + 1]
          BY <4>1, StartDoes
        <5> QED BY <5>1 DEF Inv, TypeOK
      <4> QED BY <4>1, LoadDoes, PushDoes, OthersDo, ActsSplit
    <3> QED BY <1>7, <3>1, RepoAssumption, SMTT(20) DEF Inv, TypeOK
  <2>2. <<u, r>> # <<t, round'[t]>>
    BY <1>7
  <2> QED BY <1>1, <2>1, <2>2 DEF Inv, OnList
<1> QED BY <1>4, <1>5, <1>6, <1>7 DEF OnList

LEMMA HeadIs ==
    ASSUME Inv, ~Recycled
    PROVE  IF log = <<>> THEN Head_commit = None
           ELSE /\ Head_commit \in Elems(log) /\ Head_commit # None
                /\ Len(log) \in DOMAIN log /\ Head_commit = log[Len(log)]
                /\ commit[Head_commit].numid = Len(log)
<1>1. log \in Seq(Commits) /\ DOMAIN log = 1..Len(log) /\ Len(log) \in Nat
    BY LenProperties DEF Inv, TypeOK
<1>2. log # <<>> => Len(log) \in DOMAIN log
    BY <1>1, EmptySeq
<1>3. ASSUME log # <<>> PROVE Head_commit \in Elems(log) /\ Head_commit # None
    BY <1>1, <1>2, <1>3, CommitIs DEF Head_commit, Elems
<1> QED BY <1>2, <1>3 DEF Head_commit, Inv, LogIsChain

LEMMA NotedStep == ASSUME Inv, ~Recycled, NEW t \in Tasks, Acts(t) PROVE NotedHead'
<1>1. ASSUME log' = <<>>, NEW c \in Commits PROVE commit'[c].numid = 1
  <2>1. log = <<>>
    BY <1>1, Frozen, PushDoes
  <2>2. commit[c].numid = 1
    BY <2>1 DEF Inv, NotedHead
  <2>3. ASSUME NEW names \in Requests, Start(t, names) PROVE commit'[c].numid = 1
    <3>1. commit' = [commit EXCEPT ![<<t, round[t] + 1>>] = StartsFrom(numCommits)]
      BY <2>3, StartDoes
    <3> QED BY <2>2, <3>1 DEF StartsFrom, Inv, TypeOK
  <2>4. CASE LoadHead(t)
    <3>1. NextNumid(Commit(t)) = commit[Commit(t)].numid
      BY <2>1 DEF NextNumid
    <3> QED BY <2>1, <2>2, <2>4, <3>1, LoadDoes
  <2> QED BY <1>1, <2>2, <2>3, <2>4, ActsSplit, PushDoes, OthersDo DEF SameBut
<1>2. ASSUME NEW u \in Tasks, pc'[u] = "cas"
      PROVE  LET c == commit'[Commit(u)'] IN
             IF c.prev = None THEN c.numid = 1
             ELSE c.prev \in Elems(log') /\ c.numid = commit'[c.prev].numid + 1
  <2>1. CASE u # t
    <3>1. /\ pc[u] = "cas" /\ Commit(u)' = Commit(u) /\ Commit(u) \in Commits
          /\ Commit(u) # <<t, round'[t]>>
      BY <1>2, <2>1, NamedNext, CommitIs, Frame, Active
    <3>2. commit'[Commit(u)] = commit[Commit(u)]
      BY <3>1, Frame
    <3> DEFINE c == commit[Commit(u)]
    <3>3. IF c.prev = None THEN c.numid = 1
          ELSE c.prev \in Elems(log) /\ c.numid = commit[c.prev].numid + 1
      BY <3>1 DEF Inv, NotedHead
    <3>4. c.prev \in Elems(log) => c.prev \in Elems(log') /\ commit'[c.prev].numid = commit[c.prev].numid
      BY Frozen DEF SameBut
    <3> QED BY <3>1, <3>2, <3>3, <3>4
  <2>2. CASE u = t
    <3>1. LoadHead(t)
      <4>1. ~\E names \in Requests : Start(t, names)
        BY <1>2, <2>2, StartDoes DEF Inv, TypeOK
      <4>2. ~PushCommit(t)
        BY <1>2, <2>2, PushDoes DEF Inv, TypeOK
      <4>3. ~Others(t)
        <5>1. pc[t] \in {"idle"} \cup Pushed \cup Unpushed
          BY DEF Inv, TypeOK, PCs, Pushed, Unpushed
        <5> QED BY <1>2, <2>2, <5>1, OthersDo DEF Pushed, Unpushed
      <4> QED BY <4>1, <4>2, <4>3, ActsSplit
    <3> DEFINE c == Commit(t)
    <3>2. /\ Commit(t)' = c /\ log' = log
          /\ commit'[c].prev = Head_commit /\ commit'[c].numid = NextNumid(c)
      BY <3>1, LoadDoes, NamedNext, CommitIs
    <3>3. CASE log = <<>>
      <4>1. commit[c].numid = 1
        BY <3>1, <3>3, LoadDoes DEF Inv, NotedHead
      <4> QED BY <2>2, <3>2, <3>3, <4>1, HeadIs DEF NextNumid
    <3>4. CASE log # <<>>
      <4>1. Head_commit \in Elems(log) /\ Head_commit # None
        BY <3>4, HeadIs
      <4>2. commit'[Head_commit].numid = commit[Head_commit].numid
        BY <4>1, Frozen DEF SameBut
      <4> QED BY <2>2, <3>2, <3>4, <4>1, <4>2 DEF NextNumid
    <3> QED BY <3>3, <3>4
  <2> QED BY <2>1, <2>2
<1> QED BY <1>1, <1>2 DEF NotedHead

LEMMA ChainStep == ASSUME Inv, ~Recycled, NEW t \in Tasks, Acts(t) PROVE LogIsChain'
<1>0. /\ log \in Seq(Commits) /\ DOMAIN log = 1..Len(log) /\ Len(log) \in Nat
      /\ \A i \in DOMAIN log : log[i] \in Elems(log)
    BY LenProperties DEF Inv, TypeOK, Elems
<1>1. ASSUME NEW i \in DOMAIN log
      PROVE  /\ commit'[log[i]].numid = i
             /\ commit'[log[i]].prev = IF i = 1 THEN None ELSE log[i - 1]
  <2>1. commit'[log[i]].numid = commit[log[i]].numid /\ commit'[log[i]].prev = commit[log[i]].prev
    BY <1>0, Frozen DEF SameBut
  <2> QED BY <2>1 DEF Inv, LogIsChain
<1>2. CASE log' = log
    BY <1>1, <1>2 DEF LogIsChain
<1>3. CASE PushCommit(t)
  <2> DEFINE c == Commit(t)
             k == Len(log)
  <2>1. /\ DOMAIN log' = 1..(k + 1) /\ \A i \in 1..k : log'[i] = log[i]
        /\ log'[k + 1] = c /\ commit' = commit /\ commit[c].prev = Head_commit /\ pc[t] = "cas"
        /\ c \in Commits
    BY <1>3, PushDoes
  <2>2. commit[c].numid = k + 1 /\ Head_commit = (IF k + 1 = 1 THEN None ELSE log[k])
    <3>1. CASE log = <<>>
      <4>1. k = 0 /\ Head_commit = None
        BY <3>1, HeadIs
      <4> QED BY <2>1, <3>1, <4>1 DEF Inv, NotedHead
    <3>2. CASE log # <<>>
      <4>1. /\ Head_commit # None /\ commit[Head_commit].numid = k
            /\ k \in DOMAIN log /\ Head_commit = log[k]
        BY <3>2, HeadIs
      <4>2. commit[c].numid = commit[Head_commit].numid + 1
        BY <2>1, <4>1 DEF Inv, NotedHead
      <4>3. k + 1 # 1
        BY <1>0, <4>1
      <4> QED BY <4>1, <4>2, <4>3
    <3> QED BY <3>1, <3>2
  <2> HIDE DEF c, k
  <2>3. ASSUME NEW i \in 1..(k + 1)
        PROVE  /\ commit'[log'[i]].numid = i
               /\ commit'[log'[i]].prev = IF i = 1 THEN None ELSE log'[i - 1]
    <3>0. k \in Nat /\ DOMAIN log = 1..k
      BY <1>0 DEF k
    <3>1. CASE i \in 1..k
      <4>1. i # 1 => i - 1 \in 1..k
        BY <3>0, <3>1
      <4> QED BY <1>1, <2>1, <3>0, <3>1, <4>1
    <3>2. CASE i = k + 1
      <4>1. i # 1 => i - 1 \in 1..k /\ i - 1 = k
        BY <3>0, <3>2
      <4> QED BY <2>1, <2>2, <3>2, <4>1
    <3>3. i \in 1..k \/ i = k + 1
      BY <3>0
    <3> QED BY <3>1, <3>2, <3>3
  <2> QED BY <2>1, <2>3 DEF LogIsChain
<1> QED BY <1>2, <1>3, Frozen

---------------------------------------------------------------------------
(* Names and counts *)

LEMMA Empties == Elems(<<>>) = {}
    BY DEF Elems

\* The names a commit creates after the step.
CreatesNext(c) == Elems(commit'[c].refs)

LEMMA RefsOf ==
    ASSUME Inv, NEW c \in Commits
    PROVE  commit[c].refs \in Seq(Names) /\ Creates(c) \subseteq Names /\ commit[c].orig_state \in Nat
<1>1. commit[c].refs \in Seq(Names) /\ commit[c].orig_state \in Nat
    BY DEF Inv, TypeOK, CommitRecords
<1> QED BY <1>1 DEF Creates, Elems

LEMMA IndexPushDoes ==
    ASSUME Inv, ~Recycled, NEW t \in Tasks, IndexPush(t)
    PROVE  /\ Head(todo[t]) \in Names /\ dict'[Head(todo[t])] # <<>>
           /\ \A n \in Names \ {Head(todo[t])} : dict'[n] = dict[n]
           /\ todo'[t] = Tail(todo[t]) /\ Elems(todo[t]) = {Head(todo[t])} \cup Elems(todo'[t])
           /\ UNCHANGED <<log, numCommits, commit, round>>
<1>1. pc[t] = "push_name"
    BY DEF IndexPush
<1>2. todo[t] \in Seq(Names) /\ todo[t] # <<>> /\ Commit(t) \in Commits
    BY <1>1, Active DEF Inv, TypeOK
<1>3. Head(todo[t]) \in Names /\ Elems(todo[t]) = {Head(todo[t])} \cup Elems(Tail(todo[t]))
    BY <1>2, HeadAndTail
<1> DEFINE d == Append(dict[Head(todo[t])], Commit(t))
<1>4. d # <<>>
  <2>1. dict[Head(todo[t])] \in Seq(Commits)
    BY <1>3 DEF Inv, TypeOK
  <2> QED BY <1>2, <2>1, Appended
<1>5. dict' = [dict EXCEPT ![Head(todo[t])] = d]
    BY DEF IndexPush
<1> HIDE DEF d
<1>6. dict'[Head(todo[t])] # <<>> /\ \A n \in Names \ {Head(todo[t])} : dict'[n] = dict[n]
    BY <1>3, <1>4, <1>5 DEF Inv, TypeOK
<1> QED BY <1>3, <1>6 DEF IndexPush, Registered, Inv, TypeOK

\* A name that is registered stays so.
LEMMA StaysRegistered ==
    ASSUME Inv, ~Recycled, NEW t \in Tasks, Acts(t)
    PROVE  \A n \in Names : Registered(n) => Registered(n)'
<1>1. CASE IndexPush(t)
    BY <1>1, IndexPushDoes DEF Registered
<1>2. CASE ~IndexPush(t)
  <2>1. CASE Step(t)
    BY <1>2, <2>1 DEF Step, ImportStep, Import, ImportConflict, IndexStep, IndexLoad, IndexConflict,
                CommitStep, LoadHead, PushCommit, PushRetry, SetValid, Count, JournalStep,
                JournalHasRoom, JournalCreate, JournalRotate, JournalFail, AppendRecord, AppendFail,
                shared, Registered
  <2> QED BY <2>1, StartDoes DEF Acts, Registered
<1> QED BY <1>1, <1>2

LEMMA ImportDoes ==
    ASSUME Inv, ~Recycled, NEW t \in Tasks, Import(t)
    PROVE  LET c == Commit(t)
           IN  /\ c \in Commits /\ Head(todo[t]) \in Names
               /\ ~Registered(Head(todo[t]))
               /\ CreatesNext(c) = {Head(todo[t])} \cup Creates(c)
               /\ pc'[t] = "import" \/ (pc'[t] = "index" /\ Elems(todo'[t]) = CreatesNext(c))
               /\ pc[t] = "import"
               /\ Commit(t)' = c
<1> DEFINE c == Commit(t)
           refs == <<Head(todo[t])>> \o commit[c].refs
<1>1. pc[t] = "import"
    BY DEF Import
<1>2. todo[t] \in Seq(Names) /\ todo[t] # <<>> /\ c \in Commits /\ commit[c].refs \in Seq(Names)
    BY <1>1, Active, RefsOf DEF Inv, TypeOK
<1>3. Head(todo[t]) \in Names
    BY <1>2, HeadAndTail
<1>4. Elems(refs) = {Head(todo[t])} \cup Elems(commit[c].refs)
    BY <1>2, <1>3, Prepended
<1>5. commit' = [commit EXCEPT ![c] = [commit[c] EXCEPT !.refs = refs]]
    BY DEF Import
<1>6. /\ \/ pc' = pc
         \/ pc' = [pc EXCEPT ![t] = "index"] /\ todo' = [todo EXCEPT ![t] = refs]
      /\ ~Registered(Head(todo[t])) /\ round' = round
    BY DEF Import, Goto, Taken
<1>7. Commit(t)' = c
    BY <1>6, NamedNext, CommitIs
<1> HIDE DEF refs, c
<1>8. commit'[c].refs = refs
    BY <1>2, <1>5 DEF Inv, TypeOK, CommitRecords
<1>9. CreatesNext(c) = Elems(refs)
    BY <1>8 DEF CreatesNext, c
<1>10. pc'[t] = "import" \/ (pc'[t] = "index" /\ Elems(todo'[t]) = Elems(refs))
    BY <1>1, <1>6 DEF Inv, TypeOK
<1> QED BY <1>1, <1>2, <1>3, <1>4, <1>6, <1>7, <1>9, <1>10 DEF Creates, c

LEMMA IndexedStep == ASSUME Inv, ~Recycled, NEW t \in Tasks, Acts(t) PROVE NamesIndexed'
<1>1. \A c \in Commits : commit'[c].refs = commit[c].refs => CreatesNext(c) = Creates(c)
    BY DEF Creates, CreatesNext
<1>2. ASSUME NEW c \in Elems(log'), NEW n \in CreatesNext(c) PROVE Registered(n)'
  <2>1. CASE c \in Elems(log)
    <3>1. c \in Commits /\ n \in Creates(c)
      BY <1>1, <1>2, <2>1, Frozen
    <3> QED BY <2>1, <3>1, RefsOf, StaysRegistered DEF Inv, NamesIndexed
  <2>2. CASE c \notin Elems(log)
    <3>1. PushCommit(t) /\ c = Commit(t)
      <4>1. PushCommit(t)
        BY <2>2, Frozen
      <4> QED BY <2>2, <4>1, PushDoes
    <3>2. n \in Creates(c) /\ c \in Commits /\ pc[t] = "cas"
      BY <1>1, <3>1, PushDoes
    <3>3. Elems(todo[t]) = {}
      BY <3>2, Empties DEF Inv, TypeOK
    <3>4. Registered(n)
      BY <3>1, <3>2, <3>3 DEF Inv, NamesIndexed
    <3> QED BY <3>2, <3>4, RefsOf, StaysRegistered
  <2> QED BY <2>1, <2>2
<1> DEFINE Naming == {"index", "push_name", "load_head", "cas"}
<1>3. ASSUME NEW u \in Tasks, pc'[u] \in Naming, NEW n \in CreatesNext(Commit(u)')
      PROVE  Registered(n)' \/ n \in Elems(todo'[u])
  <2>1. ASSUME pc[u] \in Naming, Commit(u)' = Commit(u), CreatesNext(Commit(u)) = Creates(Commit(u)),
               Elems(todo'[u]) = Elems(todo[u])
        PROVE  Registered(n)' \/ n \in Elems(todo'[u])
    <3>1. n \in Creates(Commit(u)) /\ Commit(u) \in Commits
      BY <1>3, <2>1, Active
    <3> QED BY <2>1, <3>1, RefsOf, StaysRegistered DEF Inv, NamesIndexed
  <2>2. CASE u # t
    <3>1. pc[u] \in Naming /\ Commit(u)' = Commit(u) /\ Commit(u) \in Commits /\ todo'[u] = todo[u]
      BY <1>3, <2>2, NamedNext, CommitIs, Frame, Active
    <3>2. commit'[Commit(u)] = commit[Commit(u)]
      BY <2>2, <3>1, Frame, CommitIs
    <3> QED BY <1>1, <2>1, <3>1, <3>2
  <2>3. CASE u = t /\ Import(t)
    <3>1. pc'[t] = "index" => Elems(todo'[t]) = CreatesNext(Commit(t))
      BY <2>3, ImportDoes
    <3>2. pc'[t] = "index" /\ Commit(t)' = Commit(t)
      BY <1>3, <2>3, ImportDoes
    <3> QED BY <1>3, <2>3, <3>1, <3>2
  <2>4. CASE u = t /\ IndexPush(t)
    <3>1. pc[t] = "push_name" /\ commit' = commit /\ Commit(t)' = Commit(t) /\ Commit(t) \in Commits
      BY <2>4, IndexPushDoes, Active, NamedNext, CommitIs DEF IndexPush
    <3>2. n \in Creates(Commit(t)) /\ n \in Names
      BY <1>1, <1>3, <2>4, <3>1, RefsOf
    <3>3. Registered(n) \/ n \in Elems(todo[t])
      BY <3>1, <3>2 DEF Inv, NamesIndexed
    <3>4. CASE Registered(n)
      BY <3>2, <3>4, StaysRegistered
    <3>5. CASE n \in Elems(todo[t])
      BY <2>4, <3>5, IndexPushDoes DEF Registered
    <3> QED BY <3>3, <3>4, <3>5
  <2>5. CASE u = t /\ LoadHead(t)
    <3>1. pc[t] = "load_head" /\ Commit(t)' = Commit(t) /\ todo' = todo /\ Commit(t) \in Commits
          /\ commit'[Commit(t)].refs = commit[Commit(t)].refs
      BY <2>5, LoadDoes, NamedNext, CommitIs
    <3> QED BY <1>1, <2>1, <2>5, <3>1
  <2>6. CASE u = t /\ (IndexLoad(t) \/ PushRetry(t))
    <3>1. pc[t] \in Naming /\ Commit(t)' = Commit(t) /\ todo' = todo /\ commit' = commit
      BY <2>6, NamedNext, CommitIs DEF IndexLoad, PushRetry, shared
    <3> QED BY <1>1, <2>1, <2>6, <3>1, Active
  <2>7. CASE u = t /\ ~(Import(t) \/ IndexPush(t) \/ LoadHead(t) \/ IndexLoad(t) \/ PushRetry(t))
    <3>1. pc'[t] \notin Naming
      <4>1. CASE \E names \in Requests : Start(t, names)
        BY <4>1, StartDoes DEF Inv, TypeOK
      <4>2. CASE Step(t)
        BY <2>7, <4>2 DEF Step, ImportStep, ImportConflict, IndexStep, IndexConflict,
                CommitStep, PushCommit, SetValid, Count, JournalStep,
                JournalHasRoom, JournalCreate, JournalRotate, JournalFail, AppendRecord, AppendFail,
                Goto, Answer, Inv, TypeOK
      <4> QED BY <4>1, <4>2 DEF Acts
    <3> QED BY <1>3, <2>7, <3>1
  <2> QED BY <2>2, <2>3, <2>4, <2>5, <2>6, <2>7
<1> QED BY <1>2, <1>3 DEF NamesIndexed, Creates, CreatesNext

\* num_commits changes only when a commit on the list is counted.
LEMMA CountStep ==
    ASSUME Inv, ~Recycled, NEW t \in Tasks, Acts(t)
    PROVE  /\ numCommits' + Cardinality(Uncounted') = Len(log')
           /\ numCommits' = numCommits \/ numCommits' = numCommits + 1
<1>0. numCommits + Cardinality(Uncounted) = Len(log) /\ numCommits \in Nat
    BY DEF Inv, TypeOK, CountsBehind
<1>1. IsFiniteSet(Uncounted) /\ Cardinality(Uncounted) \in Nat
  <2>1. Uncounted \subseteq Tasks /\ IsFiniteSet(Tasks)
    BY RepoAssumption DEF Uncounted
  <2>2. IsFiniteSet(Uncounted)
    BY <2>1, FS_Subset
  <2> QED BY <2>2, FS_CardinalityType
<1>2. \A u \in Tasks \ {t} : pc'[u] = pc[u]
    BY Frame
<1>3. CASE PushCommit(t)
  <2>1. t \notin Uncounted /\ t \in Uncounted' /\ numCommits' = numCommits /\ Len(log') = Len(log) + 1
    BY <1>3, PushDoes DEF Uncounted, Inv, TypeOK
  <2>2. Uncounted' = Uncounted \cup {t}
    BY <1>2, <2>1 DEF Uncounted
  <2>3. Cardinality(Uncounted \cup {t}) = Cardinality(Uncounted) + 1
    BY <1>1, <2>1, FS_AddElement
  <2>4. Cardinality(Uncounted') = Cardinality(Uncounted) + 1
    BY <2>2, <2>3
  <2> QED BY <1>0, <1>1, <2>1, <2>4
<1>4. CASE Count(t)
  <2>1. t \in Uncounted /\ t \notin Uncounted' /\ numCommits' = numCommits + 1 /\ log' = log
    BY <1>4 DEF Count, Goto, Uncounted, Inv, TypeOK
  <2>2. Uncounted' = Uncounted \ {t}
    BY <1>2, <2>1 DEF Uncounted
  <2>3. Cardinality(Uncounted \ {t}) = Cardinality(Uncounted) - 1
    BY <1>1, <2>1, FS_RemoveElement
  <2>4. Cardinality(Uncounted') = Cardinality(Uncounted) - 1
    BY <2>2, <2>3
  <2> QED BY <1>0, <1>1, <2>1, <2>4
<1>5. CASE ~PushCommit(t) /\ ~Count(t)
  <2>1. numCommits' = numCommits /\ log' = log /\ (t \in Uncounted <=> t \in Uncounted')
    <3>1. CASE \E names \in Requests : Start(t, names)
      BY <3>1, StartDoes DEF Uncounted, Inv, TypeOK
    <3>2. CASE LoadHead(t)
      BY <3>2, LoadDoes DEF Uncounted, Inv, TypeOK
    <3>3. CASE ImportStep(t) \/ IndexStep(t) \/ PushRetry(t) \/ SetValid(t)
      BY <3>3 DEF ImportStep, Import, ImportConflict, IndexStep, IndexLoad, IndexPush, IndexConflict,
                  AfterName, PushRetry, SetValid, Goto, Answer, shared, Uncounted, Inv, TypeOK
    <3>4. CASE JournalStep(t)
      BY <3>4 DEF JournalStep, JournalHasRoom, JournalCreate, JournalRotate, JournalFail,
                  AppendRecord, AppendFail, Goto, Answer, shared, Uncounted, Inv, TypeOK
    <3> QED BY <1>5, <3>1, <3>2, <3>3, <3>4 DEF Acts, Step, CommitStep
  <2>2. Uncounted' = Uncounted
    BY <1>2, <2>1 DEF Uncounted
  <2> QED BY <1>0, <2>1, <2>2
<1> QED BY <1>3, <1>4, <1>5

LEMMA CountsStep == ASSUME Inv, ~Recycled, NEW t \in Tasks, Acts(t) PROVE CountsBehind'
<1> SUFFICES ASSUME NEW c \in Commits PROVE commit'[c].orig_state <= numCommits'
    BY CountStep DEF CountsBehind
<1>1. commit[c].orig_state \in Nat /\ numCommits \in Nat /\ commit[c].orig_state <= numCommits
    BY RefsOf DEF Inv, TypeOK, CountsBehind
<1>2. ASSUME NEW names \in Requests, Start(t, names)
      PROVE  commit'[c].orig_state = commit[c].orig_state \/ commit'[c].orig_state = numCommits
  <2>1. commit' = [commit EXCEPT ![<<t, round[t] + 1>>] = StartsFrom(numCommits)]
    BY <1>2, StartDoes
  <2> QED BY <2>1 DEF StartsFrom, Inv, TypeOK
<1>3. commit'[c].orig_state = commit[c].orig_state \/ commit'[c].orig_state = numCommits
    BY <1>2, LoadDoes, PushDoes, OthersDo, ActsSplit DEF SameBut
<1> QED BY <1>1, <1>3, CountStep

\* The state a commit started from is within the list.
LEMMA OrigWithin ==
    ASSUME Inv, NEW c \in Commits, NEW i \in 1..commit[c].orig_state
    PROVE  i \in DOMAIN log /\ log[i] \in Elems(log) /\ commit[c].orig_state <= Len(log)
<1>1. commit[c].orig_state \in Nat /\ numCommits \in Nat /\ commit[c].orig_state <= numCommits
    BY RefsOf DEF Inv, TypeOK, CountsBehind
<1>2. Cardinality(Uncounted) \in Nat
  <2>1. Uncounted \subseteq Tasks /\ IsFiniteSet(Tasks)
    BY RepoAssumption DEF Uncounted
  <2> QED BY <2>1, FS_Subset, FS_CardinalityType
<1>3. numCommits + Cardinality(Uncounted) = Len(log) /\ DOMAIN log = 1..Len(log)
    BY LenProperties DEF Inv, TypeOK, CountsBehind
<1>4. i \in DOMAIN log /\ commit[c].orig_state <= Len(log)
    BY <1>1, <1>2, <1>3
<1> QED BY <1>4 DEF Elems

LEMMA NewNamesStep == ASSUME Inv, ~Recycled, NEW t \in Tasks, Acts(t) PROVE NewNames'
<1> DEFINE After(i) == Elems(commit'[log'[i]].refs)
<1> SUFFICES ASSUME NEW u \in Tasks, pc'[u] \in Unpushed,
                    NEW i \in 1..commit'[Commit(u)'].orig_state
             PROVE  After(i) \cap CreatesNext(Commit(u)') = {}
    BY DEF NewNames, Creates, CreatesNext
<1>1. \A j \in DOMAIN log : log'[j] = log[j]
    BY Frozen, PushDoes
<1>2. \A j \in DOMAIN log : log[j] \in Commits /\ After(j) = Creates(log[j])
    BY <1>1, Frozen DEF Creates, Elems
<1>3. ASSUME pc[u] \in Unpushed, Commit(u)' = Commit(u),
             commit'[Commit(u)].orig_state = commit[Commit(u)].orig_state,
             CreatesNext(Commit(u)) = Creates(Commit(u))
      PROVE  After(i) \cap CreatesNext(Commit(u)') = {}
  <2>1. Commit(u) \in Commits /\ i \in 1..commit[Commit(u)].orig_state
    BY <1>3, Active DEF Unpushed
  <2>2. i \in DOMAIN log
    BY <2>1, OrigWithin
  <2> QED BY <1>2, <1>3, <2>1, <2>2 DEF Inv, NewNames
<1>4. CASE u # t
  <2>1. pc[u] \in Unpushed /\ Commit(u)' = Commit(u) /\ Commit(u) \in Commits
    BY <1>4, NamedNext, CommitIs, Frame, Active DEF Unpushed
  <2>2. commit'[Commit(u)] = commit[Commit(u)]
    BY <1>4, <2>1, Frame, CommitIs
  <2> QED BY <1>3, <2>1, <2>2 DEF Creates, CreatesNext
<1>5. CASE u = t /\ \E names \in Requests : Start(t, names)
  <2>1. /\ round' = [round EXCEPT ![t] = round[t] + 1] /\ <<t, round[t] + 1>> \in Commits
        /\ commit' = [commit EXCEPT ![<<t, round[t] + 1>>] = StartsFrom(numCommits)]
    BY <1>5, StartDoes
  <2>2. Commit(t)' = <<t, round[t] + 1>>
    BY <2>1, NamedNext DEF Inv, TypeOK
  <2>3. commit'[<<t, round[t] + 1>>].refs = <<>>
    BY <2>1 DEF StartsFrom, Inv, TypeOK
  <2> QED BY <1>5, <2>2, <2>3, Empties DEF CreatesNext
<1>6. CASE u = t /\ LoadHead(t)
  <2>1. /\ Commit(t)' = Commit(t) /\ pc[t] \in Unpushed
        /\ commit'[Commit(t)].refs = commit[Commit(t)].refs
        /\ commit'[Commit(t)].orig_state = commit[Commit(t)].orig_state
    BY <1>6, LoadDoes, NamedNext, CommitIs DEF Unpushed
  <2> QED BY <1>3, <1>6, <2>1 DEF Creates, CreatesNext
<1>7. CASE u = t /\ PushCommit(t)
    BY <1>7, PushDoes DEF Unpushed, Inv, TypeOK
<1>8. CASE u = t /\ Others(t)
  <2>1. pc[t] \in {"idle"} \cup Pushed \cup Unpushed
    BY DEF Inv, TypeOK, PCs, Pushed, Unpushed
  <2>2. pc[t] \in Unpushed /\ pc[t] # "idle"
    BY <1>8, <2>1, OthersDo DEF Pushed, Unpushed
  <2>3. /\ Commit(t)' = Commit(t) /\ Commit(t) \in Commits
        /\ commit'[Commit(t)].orig_state = commit[Commit(t)].orig_state
        /\ commit'[Commit(t)].refs = commit[Commit(t)].refs \/ Import(t)
    BY <1>8, <2>2, OthersDo, NamedNext, CommitIs, Active DEF SameBut
  <2>4. CASE Import(t)
    <3>1. i \in 1..commit[Commit(t)].orig_state
      BY <1>8, <2>3
    <3>2. i \in DOMAIN log /\ log[i] \in Elems(log)
      BY <2>3, <3>1, OrigWithin
    <3>3. Creates(log[i]) \cap Creates(Commit(t)) = {}
      BY <2>2, <3>1 DEF Inv, NewNames
    <3>4. Head(todo[t]) \notin Creates(log[i])
      BY <2>4, <3>2, ImportDoes DEF Inv, NamesIndexed
    <3>5. CreatesNext(Commit(t)) = {Head(todo[t])} \cup Creates(Commit(t))
      BY <2>4, ImportDoes
    <3> QED BY <1>2, <1>8, <2>3, <3>2, <3>3, <3>4, <3>5
  <2> QED BY <1>3, <1>8, <2>2, <2>3, <2>4 DEF Creates, CreatesNext
<1> QED BY <1>4, <1>5, <1>6, <1>7, <1>8, ActsSplit

---------------------------------------------------------------------------
(* Journals *)

\* How many records a task may have written to one file.
MostRecords(t) == IF pc[t] = "idle" THEN round[t] ELSE round[t] - 1

LEMMA OnlyAppends ==
    ASSUME Inv, ~Recycled, NEW t \in Tasks, Acts(t), pc[t] = "append"
    PROVE  AppendRecord(t) \/ AppendFail(t)
    BY DEF Acts, Start, Step, ImportStep, Import, ImportConflict, IndexStep, IndexLoad, IndexPush,
           IndexConflict, CommitStep, LoadHead, PushCommit, PushRetry, SetValid, Count, JournalStep,
           JournalHasRoom, JournalCreate, JournalRotate, JournalFail

LEMMA JournalsDo ==
    ASSUME Inv, ~Recycled, NEW t \in Tasks, Acts(t)
    PROVE  /\ MostRecords(t) \in Int /\ MostRecords(t)' \in Int /\ MostRecords(t) <= MostRecords(t)'
           /\ \/ journals'[t] = journals[t] /\ numJournals'[t] = numJournals[t] /\ pc'[t] # "append"
              \/ JournalHasRoom(t) \/ JournalCreate(t) \/ JournalRotate(t)
              \/ JournalFail(t)
              \/ \E whole \in BOOLEAN : Wrote(t, whole)
<1>0. round[t] \in Nat
    BY RepoAssumption DEF Inv, TypeOK
<1>1. ASSUME NEW names \in Requests, Start(t, names)
      PROVE  /\ MostRecords(t) \in Int /\ MostRecords(t)' \in Int /\ MostRecords(t) <= MostRecords(t)'
             /\ journals' = journals /\ numJournals' = numJournals /\ pc'[t] # "append"
  <2>1. /\ round' = [round EXCEPT ![t] = round[t] + 1] /\ pc[t] = "idle"
        /\ pc' = [pc EXCEPT ![t] = "import"] /\ journals' = journals /\ numJournals' = numJournals
    BY <1>1, StartDoes
  <2>2. round'[t] = round[t] + 1 /\ pc'[t] = "import"
    BY <2>1 DEF Inv, TypeOK
  <2> QED BY <1>0, <2>1, <2>2 DEF MostRecords
<1>2. ASSUME Step(t)
      PROVE  MostRecords(t) \in Int /\ MostRecords(t)' \in Int /\ MostRecords(t) <= MostRecords(t)'
  <2>1. pc[t] # "idle" /\ round'[t] = round[t]
    BY <1>2, LoadDoes, PushDoes, OthersDo, ActsSplit DEF Step, Others, CommitStep
  <2> QED BY <1>0, <2>1 DEF MostRecords
<1>3. ASSUME ImportStep(t) \/ IndexStep(t) \/ CommitStep(t)
      PROVE  journals' = journals /\ numJournals' = numJournals /\ pc'[t] # "append"
    BY <1>3 DEF ImportStep, Import, ImportConflict, IndexStep, IndexLoad, IndexPush, IndexConflict,
                AfterName, CommitStep, LoadHead, PushCommit, PushRetry, SetValid, Count,
                Goto, Answer, disk, Inv, TypeOK
<1>4. CASE AppendRecord(t) \/ AppendFail(t)
  <2>1. pc'[t] # "append" /\ numJournals' = numJournals
        /\ (journals' = journals \/ \E whole \in BOOLEAN : Wrote(t, whole))
    BY <1>4, AppendDoes
  <2>2. Step(t)
    BY <1>4 DEF Step, JournalStep
  <2> QED BY <1>2, <2>1, <2>2
<1> QED BY <1>1, <1>2, <1>3, <1>4 DEF Acts, Step, JournalStep

LEMMA FilesStep == ASSUME Inv, ~Recycled, NEW t \in Tasks, Acts(t) PROVE FilesRight'
<1> DEFINE Fits(u) ==
        /\ Len(journals'[u]) \in {numJournals'[u], numJournals'[u] + 1}
        /\ pc'[u] = "append" =>
              /\ Len(journals'[u]) = numJournals'[u] + 1
              /\ journals'[u][numJournals'[u] + 1].size + FilenameSize <= MaxJournalSize
        /\ \A f \in DOMAIN journals'[u] : Len(journals'[u][f].records) <= MostRecords(u)'
<1> SUFFICES \A u \in Tasks : Fits(u)
    BY DEF FilesRight, CurrentFile, MostRecords
<1>1. \A u \in Tasks :
        /\ Len(journals[u]) \in {numJournals[u], numJournals[u] + 1}
        /\ pc[u] = "append" =>
              /\ Len(journals[u]) = numJournals[u] + 1
              /\ journals[u][numJournals[u] + 1].size + FilenameSize <= MaxJournalSize
        /\ \A f \in DOMAIN journals[u] : Len(journals[u][f].records) <= MostRecords(u)
    BY DEF Inv, FilesRight, CurrentFile, MostRecords
<1>2. ASSUME NEW u \in Tasks, u # t PROVE Fits(u)
  <2>1. /\ journals'[u] = journals[u] /\ numJournals'[u] = numJournals[u] /\ pc'[u] = pc[u]
        /\ MostRecords(u)' = MostRecords(u)
    BY <1>2, Frame DEF MostRecords
  <2> QED BY <1>1, <2>1
<1>3. /\ journals[t] \in Seq(Files) /\ Len(journals[t]) \in Nat /\ numJournals[t] \in Nat
      /\ DOMAIN journals[t] = 1..Len(journals[t])
      /\ Len(journals[t]) \in {numJournals[t], numJournals[t] + 1}
    BY <1>1, LenProperties DEF Inv, TypeOK
<1>4. /\ MostRecords(t) \in Int /\ MostRecords(t)' \in Int /\ MostRecords(t) <= MostRecords(t)'
      /\ \A f \in DOMAIN journals[t] : Len(journals[t][f].records) \in Nat
  <2>1. \A f \in DOMAIN journals[t] : journals[t][f] \in Files
    BY <1>3, ElementOfSeq
  <2> QED BY <2>1, JournalsDo, LenProperties DEF Files
<1>5. ASSUME journals'[t] = journals[t], numJournals'[t] = numJournals[t],
             pc'[t] = "append" => /\ Len(journals[t]) = numJournals[t] + 1
                                  /\ journals[t][numJournals[t] + 1].size + FilenameSize <= MaxJournalSize
      PROVE  Fits(t)
  <2>1. \A f \in DOMAIN journals[t] : Len(journals[t][f].records) <= MostRecords(t)'
    BY <1>1, <1>4
  <2> QED BY <1>3, <1>5, <2>1
<1>6. ASSUME journals'[t] = journals[t] /\ numJournals'[t] = numJournals[t] /\ pc'[t] # "append" PROVE Fits(t)
    BY <1>5, <1>6
<1>7. ASSUME JournalHasRoom(t) PROVE Fits(t)
  <2>1. Len(journals[t]) > numJournals[t] /\ ~(journals[t][numJournals[t] + 1].size + FilenameSize > MaxJournalSize)
        /\ journals' = journals /\ numJournals' = numJournals
    BY <1>7 DEF JournalHasRoom, Exists, Full, CurrentFile, disk
  <2>2. Len(journals[t]) = numJournals[t] + 1 /\ numJournals[t] + 1 \in 1..Len(journals[t])
    BY <1>3, <2>1
  <2>3. journals[t][numJournals[t] + 1].size \in Nat
    <3>1. journals[t][numJournals[t] + 1] \in Files
      BY <1>3, <2>2, ElementOfSeq
    <3> QED BY <3>1 DEF Files
  <2> QED BY <1>5, <2>1, <2>2, <2>3, RepoAssumption
<1>8. ASSUME JournalCreate(t) \/ JournalRotate(t) PROVE Fits(t)
  <2> DEFINE j == Append(journals[t], EmptyFile)
  <2>1. /\ Len(j) = Len(journals[t]) + 1 /\ DOMAIN j = 1..(Len(journals[t]) + 1)
        /\ \A f \in 1..Len(journals[t]) : j[f] = journals[t][f]
        /\ j[Len(journals[t]) + 1] = EmptyFile
    BY <1>3, EmptyFileType, Appended
  <2>2. journals' = [journals EXCEPT ![t] = j] /\ pc[t] = "journal" /\ pc'[t] = "append"
    BY <1>8 DEF JournalCreate, JournalRotate, Goto, Inv, TypeOK
  <2> HIDE DEF j
  <2>3. journals'[t] = j
    BY <2>2 DEF Inv, TypeOK
  <2>4. Len(j) = numJournals'[t] + 1
    <3>1. CASE JournalCreate(t)
      <4>1. ~(Len(journals[t]) > numJournals[t]) /\ numJournals' = numJournals
        BY <3>1 DEF JournalCreate, Exists
      <4> QED BY <1>3, <2>1, <4>1
    <3>2. CASE JournalRotate(t)
      <4>1. Len(journals[t]) > numJournals[t] /\ numJournals' = [numJournals EXCEPT ![t] = numJournals[t] + 1]
        BY <3>2 DEF JournalRotate, Exists
      <4>2. numJournals'[t] = numJournals[t] + 1
        BY <4>1 DEF Inv, TypeOK
      <4> QED BY <1>3, <2>1, <4>1, <4>2
    <3> QED BY <1>8, <3>1, <3>2
  <2>5. numJournals'[t] = Len(journals[t])
    <3>1. numJournals'[t] \in Nat
      <4>1. CASE JournalCreate(t)
        BY <1>3, <4>1 DEF JournalCreate
      <4>2. CASE JournalRotate(t)
        <5>1. numJournals' = [numJournals EXCEPT ![t] = numJournals[t] + 1]
          BY <4>2 DEF JournalRotate
        <5> QED BY <1>3, <5>1 DEF Inv, TypeOK
      <4> QED BY <1>8, <4>1, <4>2
    <3> QED BY <1>3, <2>1, <2>4, <3>1
  <2>6. j[numJournals'[t] + 1].size + FilenameSize <= MaxJournalSize
    <3>1. j[numJournals'[t] + 1] = EmptyFile
      BY <2>1, <2>5
    <3> QED BY <3>1, RepoAssumption DEF EmptyFile
  <2>7. \A f \in DOMAIN j : Len(j[f].records) <= MostRecords(t)'
    <3>1. 0 <= MostRecords(t)
      <4>1. round[t] \in Nat /\ round[t] > 0
        BY <2>2, RepoAssumption DEF Inv, TypeOK, InRound
      <4> QED BY <4>1, <2>2 DEF MostRecords
    <3>2. Len(EmptyFile.records) = 0
      BY DEF EmptyFile
    <3>3. \A f \in 1..(Len(journals[t]) + 1) : f \in 1..Len(journals[t]) \/ f = Len(journals[t]) + 1
      BY <1>3
    <3>4. \A f \in 1..Len(journals[t]) : Len(j[f].records) <= MostRecords(t)'
      BY <1>1, <1>3, <1>4, <2>1, SMTT(20)
    <3>5. Len(j[Len(journals[t]) + 1].records) <= MostRecords(t)'
      BY <1>4, <2>1, <3>1, <3>2
    <3> QED BY <2>1, <3>3, <3>4, <3>5
  <2> QED BY <2>2, <2>3, <2>4, <2>6, <2>7
<1>9. ASSUME JournalFail(t) PROVE Fits(t)
  <2>1. journals' = journals /\ numJournals'[t] = Len(journals[t]) /\ pc'[t] = "idle"
    BY <1>9 DEF JournalFail, Answer, Goto, Inv, TypeOK
  <2>2. \A f \in DOMAIN journals[t] : Len(journals[t][f].records) <= MostRecords(t)'
    BY <1>1, <1>4
  <2> QED BY <1>3, <2>1, <2>2
<1>10. ASSUME NEW whole \in BOOLEAN, Wrote(t, whole) PROVE Fits(t)
  <2>0. AppendRecord(t) \/ AppendFail(t)
    BY <1>10, OnlyAppends DEF Wrote
  <2>1. /\ pc[t] = "append" /\ pc'[t] = "idle" /\ numJournals' = numJournals /\ round' = round
    BY <2>0, AppendDoes
  <2>p. PICK bytes \in Nat :
          LET file == Recorded(t, whole, bytes)
          IN  /\ Len(journals'[t]) = Len(journals[t]) /\ journals'[t] \in Seq(Files)
              /\ \A f \in 1..Len(journals[t]) :
                    journals'[t][f] = IF f = numJournals[t] + 1 THEN file ELSE journals[t][f]
    BY <1>10, WroteDoes
  <2> DEFINE file == Recorded(t, whole, bytes)
  <2>2. /\ Len(journals'[t]) = Len(journals[t]) /\ journals'[t] \in Seq(Files)
        /\ \A f \in 1..Len(journals[t]) :
             journals'[t][f] = IF f = numJournals[t] + 1 THEN file ELSE journals[t][f]
    BY <2>p
  <2>3. DOMAIN journals'[t] = 1..Len(journals[t])
    BY <2>2, LenProperties
  <2>4. /\ CurrentFile(t) \in Files /\ CurrentFile(t) = journals[t][numJournals[t] + 1]
        /\ numJournals[t] + 1 \in 1..Len(journals[t])
    BY <2>1, FileTypes
  <2>5. Len(file.records) = Len(CurrentFile(t).records) + 1
    <3>1. NewRecord(t, whole) \in JournalRecords
      BY <2>1, RecordTypes
    <3>2. CurrentFile(t).records \in Seq(JournalRecords)
      BY <2>4 DEF Files
    <3>3. file.records = Append(CurrentFile(t).records, NewRecord(t, whole))
      BY DEF Recorded
    <3> QED BY <3>1, <3>2, <3>3, Appended
  <2> HIDE DEF file
  <2>6. MostRecords(t)' = MostRecords(t) + 1
    <3>1. round[t] \in Nat
      BY RepoAssumption DEF Inv, TypeOK
    <3> QED BY <2>1, <3>1 DEF MostRecords
  <2>7. \A f \in DOMAIN journals'[t] : Len(journals'[t][f].records) <= MostRecords(t)'
    <3>1. ASSUME NEW f \in 1..Len(journals[t]), f # numJournals[t] + 1
          PROVE  Len(journals'[t][f].records) <= MostRecords(t)'
      <4>1. journals'[t][f] = journals[t][f]
        BY <2>2, <3>1
      <4> QED BY <1>1, <1>3, <1>4, <4>1
    <3>2. Len(journals'[t][numJournals[t] + 1].records) <= MostRecords(t)'
      <4>1. journals'[t][numJournals[t] + 1] = file
        BY <2>2, <2>4
      <4>2. Len(CurrentFile(t).records) <= MostRecords(t) /\ Len(CurrentFile(t).records) \in Nat
        BY <1>1, <1>3, <1>4, <2>4
      <4> QED BY <1>4, <2>5, <2>6, <4>1, <4>2
    <3> QED BY <2>3, <3>1, <3>2
  <2> QED BY <1>3, <2>1, <2>2, <2>7
<1> QED BY <1>2, <1>6, <1>7, <1>8, <1>9, <1>10, JournalsDo

\* Every record of a journal file has its place, and a commit of the list.
LEMMA PlaceOf ==
    ASSUME Inv, NEW t \in Tasks, NEW f \in DOMAIN journals[t], NEW k \in DOMAIN journals[t][f].records
    PROVE  /\ <<f, k>> \in Places(t)
           /\ journals[t][f].records[k].commit \in Elems(log)
           /\ journals[t][f].records[k].commit \in Commits
<1>1. journals[t] \in Seq(Files) /\ journals[t][f] \in Files
    BY ElementOfSeq, LenProperties DEF Inv, TypeOK
<1>2. journals[t][f].records \in Seq(JournalRecords)
    BY <1>1 DEF Files
<1>3. k \in 1..Len(journals[t][f].records) /\ Len(journals[t][f].records) \in Nat
    BY <1>2, LenProperties
<1>4. Len(journals[t][f].records) <= Rounds
  <2>1. Len(journals[t][f].records) <= (IF pc[t] = "idle" THEN round[t] ELSE round[t] - 1)
    BY DEF Inv, FilesRight
  <2>2. round[t] \in 0..Rounds
    BY DEF Inv, TypeOK
  <2> QED BY <1>3, <2>1, <2>2, RepoAssumption
<1>5. k \in 1..Rounds
    BY <1>3, <1>4, RepoAssumption
<1>6. <<f, k>> \in Places(t) /\ At(t, <<f, k>>) = journals[t][f].records[k]
    BY <1>5 DEF Places, At
<1>7. At(t, <<f, k>>).numid \in DOMAIN log /\ log[At(t, <<f, k>>).numid] = At(t, <<f, k>>).commit
    BY <1>6 DEF Inv, JournalsFollowLog
<1>8. journals[t][f].records[k].commit \in Elems(log)
    BY <1>6, <1>7 DEF Elems
<1>9. Elems(log) \subseteq Commits
    BY DEF Inv, TypeOK, Elems
<1> QED BY <1>6, <1>8, <1>9

\* No record moves or changes.
SamePlaces(u) == Places(u)' = Places(u) /\ \A p \in Places(u) : At(u, p)' = At(u, p)

\* A record of the task's commit is added after all the others.
RecordsAt(u, q, whole) ==
    /\ q \notin Places(u) /\ Places(u)' = Places(u) \cup {q}
    /\ \A p \in Places(u) : At(u, p)' = At(u, p) /\ ~Before(q, p)
    /\ ~Before(q, q)
    /\ At(u, q)'.commit = Commit(u) /\ At(u, q)'.numid = commit[Commit(u)].numid
    /\ At(u, q)'.whole = whole

LEMMA PlacesAppend ==
    ASSUME Inv, ~Recycled, NEW t \in Tasks, NEW whole \in BOOLEAN, Wrote(t, whole)
    PROVE  \E q : RecordsAt(t, q, whole)
<1> DEFINE n == numJournals[t] + 1
           rs == journals[t][n].records
           k == Len(rs) + 1
<1>1. pc[t] = "append"
    BY DEF Wrote
<1>2. /\ journals[t] \in Seq(Files) /\ n \in 1..Len(journals[t]) /\ CurrentFile(t) = journals[t][n]
      /\ Len(journals[t]) = n /\ DOMAIN journals[t] = 1..Len(journals[t]) /\ n \in Nat
      /\ journals[t][n] \in Files
    BY <1>1, FileTypes, LenProperties DEF Inv, TypeOK, FilesRight
<1>p. PICK bytes \in Nat :
        LET new == Recorded(t, whole, bytes)
        IN  /\ journals'[t] \in Seq(Files) /\ Len(journals'[t]) = Len(journals[t])
            /\ \A f \in 1..Len(journals[t]) :
                  journals'[t][f] = IF f = numJournals[t] + 1 THEN new ELSE journals[t][f]
    BY WroteDoes
<1> DEFINE file == Recorded(t, whole, bytes)
<1>3. /\ journals'[t] \in Seq(Files) /\ Len(journals'[t]) = Len(journals[t])
      /\ \A f \in 1..Len(journals[t]) : journals'[t][f] = IF f = n THEN file ELSE journals[t][f]
    BY <1>p
<1>4. DOMAIN journals'[t] = DOMAIN journals[t]
    BY <1>2, <1>3, LenProperties
<1>5. rs \in Seq(JournalRecords) /\ NewRecord(t, whole) \in JournalRecords
    BY <1>1, <1>2, RecordTypes DEF Files
<1>6. file.records = Append(rs, NewRecord(t, whole))
    BY <1>2 DEF Recorded
<1> HIDE DEF file
<1>7. /\ Len(rs) \in Nat /\ DOMAIN rs = 1..Len(rs)
      /\ DOMAIN file.records = 1..(Len(rs) + 1)
      /\ \A i \in 1..Len(rs) : file.records[i] = rs[i]
      /\ file.records[Len(rs) + 1] = NewRecord(t, whole)
  <2> HIDE DEF rs
  <2> QED BY <1>5, <1>6, Appended
<1>8. k \in 1..Rounds
  <2>1. Len(rs) <= round[t] - 1
    BY <1>1, <1>2 DEF Inv, FilesRight
  <2>2. round[t] \in 0..Rounds
    BY DEF Inv, TypeOK
  <2>3. Len(rs) \in Nat
    BY <1>7
  <2> HIDE DEF rs
  <2> QED BY <2>1, <2>2, <2>3, RepoAssumption
<1>q. PICK q : q = <<n, k>>
    OBVIOUS
<1> HIDE DEF rs, n, k
<1>k. q = <<n, k>> /\ q[1] = n /\ q[2] = k /\ k = Len(rs) + 1
    BY <1>q DEF k
<1>9. q \notin Places(t) /\ ~Before(q, q)
  <2>1. k \notin DOMAIN rs
    BY <1>7, <1>k
  <2>2. k \in Nat
    BY <1>7, <1>k
  <2> QED BY <1>2, <1>k, <2>1, <2>2 DEF Places, Before, rs
<1>10. ASSUME NEW p \in Places(t)
       PROVE  p \in Places(t)' /\ At(t, p)' = At(t, p) /\ ~Before(q, p)
  <2>1. /\ p = <<p[1], p[2]>> /\ p[1] \in 1..n /\ p[2] \in 1..Rounds
        /\ p[2] \in DOMAIN journals[t][p[1]].records
    BY <1>2 DEF Places
  <2>2. CASE p[1] = n
    <3>1. p[2] \in 1..Len(rs)
      BY <1>7, <2>1, <2>2 DEF rs
    <3>2. p[2] \in DOMAIN journals'[t][p[1]].records /\ journals'[t][p[1]].records[p[2]] = rs[p[2]]
      BY <1>2, <1>3, <1>7, <2>2, <3>1, SMTT(20)
    <3>3. ~Before(q, p)
      BY <1>2, <1>7, <1>k, <2>2, <3>1 DEF Before
    <3>4. p \in Places(t)'
      BY <1>4, <1>2, <2>1, <3>2 DEF Places
    <3> QED BY <2>2, <3>2, <3>3, <3>4 DEF At, rs
  <2>3. CASE p[1] # n
    <3>1. journals'[t][p[1]] = journals[t][p[1]]
      BY <1>2, <1>3, <2>1, <2>3
    <3>2. ~Before(q, p)
      BY <1>2, <1>k, <2>1, <2>3 DEF Before
    <3>3. p \in Places(t)'
      BY <1>4, <1>2, <2>1, <3>1 DEF Places
    <3> QED BY <3>1, <3>2, <3>3 DEF At
  <2> QED BY <2>2, <2>3
<1>11. /\ q \in Places(t)' /\ At(t, q)'.commit = Commit(t)
       /\ At(t, q)'.numid = commit[Commit(t)].numid /\ At(t, q)'.whole = whole
  <2>1. journals'[t][n].records[k] = NewRecord(t, whole) /\ k \in DOMAIN journals'[t][n].records
    BY <1>2, <1>3, <1>7, <1>k
  <2>2. n \in DOMAIN journals'[t]
    BY <1>2, <1>4
  <2>3. q \in (DOMAIN journals'[t]) \X (1..Rounds) /\ q[1] = n /\ q[2] = k
    BY <1>8, <1>k, <2>2
  <2>4. q \in Places(t)'
    BY <2>1, <2>3 DEF Places
  <2>5. At(t, q)' = NewRecord(t, whole)
    BY <2>1, <2>3 DEF At
  <2> QED BY <2>4, <2>5 DEF NewRecord
<1>12. ASSUME NEW p \in Places(t)' PROVE p \in Places(t) \/ p = q
  <2>1. /\ p = <<p[1], p[2]>> /\ p[1] \in 1..n /\ p[2] \in 1..Rounds /\ p[1] \in DOMAIN journals[t]
        /\ p[2] \in DOMAIN journals'[t][p[1]].records
    BY <1>2, <1>4 DEF Places
  <2>2. CASE p[1] = n
    <3>1. p[2] \in 1..(Len(rs) + 1)
      BY <1>2, <1>3, <1>7, <2>1, <2>2
    <3>2. CASE p[2] = k
      BY <1>k, <2>1, <2>2, <3>2
    <3>3. CASE p[2] # k
      <4>1. p[2] \in DOMAIN rs
        BY <1>7, <1>k, <3>1, <3>3
      <4> QED BY <2>1, <2>2, <4>1 DEF Places, rs
    <3> QED BY <3>2, <3>3
  <2>3. CASE p[1] # n
    <3>1. journals'[t][p[1]] = journals[t][p[1]]
      BY <1>2, <1>3, <2>1, <2>3
    <3> QED BY <2>1, <3>1 DEF Places
  <2> QED BY <2>2, <2>3
<1>13. RecordsAt(t, q, whole)
  <2>1. Places(t)' = Places(t) \cup {q}
    BY <1>10, <1>11, <1>12
  <2> QED BY <1>9, <1>10, <1>11, <2>1 DEF RecordsAt
<1> QED BY <1>13

LEMMA PlacesStep ==
    ASSUME Inv, ~Recycled, NEW t \in Tasks, Acts(t)
    PROVE  \A u \in Tasks :
              \/ SamePlaces(u)
              \/ u = t /\ \E whole \in BOOLEAN : Wrote(t, whole) /\ \E q : RecordsAt(t, q, whole)
<1> SUFFICES ASSUME NEW u \in Tasks, ~(u = t /\ \E whole \in BOOLEAN : Wrote(t, whole)) PROVE SamePlaces(u)
    BY PlacesAppend
<1>1. ASSUME journals'[u] = journals[u] PROVE SamePlaces(u)
    BY <1>1 DEF SamePlaces, Places, At
<1>2. CASE u = t /\ (JournalCreate(t) \/ JournalRotate(t))
  <2> DEFINE j == Append(journals[t], EmptyFile)
  <2>0. journals[t] \in Seq(Files) /\ DOMAIN journals[t] = 1..Len(journals[t]) /\ Len(journals[t]) \in Nat
    BY LenProperties DEF Inv, TypeOK
  <2>1. /\ DOMAIN j = 1..(Len(journals[t]) + 1)
        /\ \A f \in 1..Len(journals[t]) : j[f] = journals[t][f]
        /\ j[Len(journals[t]) + 1] = EmptyFile
    BY <2>0, EmptyFileType, Appended
  <2>2. journals' = [journals EXCEPT ![t] = j]
    BY <1>2 DEF JournalCreate, JournalRotate
  <2> HIDE DEF j
  <2>3. journals'[t] = j
    BY <2>2 DEF Inv, TypeOK
  <2>4. DOMAIN EmptyFile.records = {}
    BY DEF EmptyFile
  <2>5. ASSUME NEW p \in Places(t) PROVE p \in Places(t)' /\ At(t, p)' = At(t, p)
    <3>1. p[1] \in 1..Len(journals[t]) /\ p[1] \in DOMAIN j
      BY <2>0, <2>1 DEF Places
    <3> QED BY <2>1, <2>3, <3>1 DEF Places, At
  <2>6. ASSUME NEW p \in Places(t)' PROVE p \in Places(t)
    <3>1. p \in (DOMAIN j) \X (1..Rounds) /\ p[2] \in DOMAIN j[p[1]].records
      BY <2>3 DEF Places
    <3>2. p[1] # Len(journals[t]) + 1
      BY <2>1, <2>4, <3>1
    <3>3. p[1] \in 1..Len(journals[t]) /\ p[2] \in 1..Rounds /\ p = <<p[1], p[2]>>
      BY <2>0, <2>1, <3>1, <3>2
    <3>4. p[2] \in DOMAIN journals[t][p[1]].records
      BY <2>1, <3>1, <3>3
    <3> QED BY <2>0, <3>3, <3>4 DEF Places
  <2> QED BY <1>2, <2>5, <2>6 DEF SamePlaces
<1>3. CASE u = t /\ ~(JournalCreate(t) \/ JournalRotate(t))
  <2>1. journals'[t] = journals[t]
    BY <1>3, JournalsDo DEF JournalHasRoom, JournalFail, disk
  <2> QED BY <1>1, <1>3, <2>1
<1>4. CASE u # t
    BY <1>1, <1>4, Frame
<1> QED BY <1>2, <1>3, <1>4

LEMMA FollowStep == ASSUME Inv, ~Recycled, NEW t \in Tasks, Acts(t) PROVE JournalsFollowLog'
<1>1. \A i \in DOMAIN log : i \in DOMAIN log' /\ log'[i] = log[i]
  <2>1. CASE PushCommit(t)
    BY <2>1, PushDoes
  <2> QED BY <2>1, Frozen
<1>2. ASSUME NEW u \in Tasks, NEW p \in Places(u)
      PROVE  /\ At(u, p).numid \in DOMAIN log' /\ log'[At(u, p).numid] = At(u, p).commit
             /\ \A q \in Places(u) : Before(p, q) => At(u, p).numid < At(u, q).numid
    BY <1>1 DEF Inv, JournalsFollowLog
<1> SUFFICES ASSUME NEW u \in Tasks
             PROVE  \A p \in Places(u)' :
                      /\ At(u, p)'.numid \in DOMAIN log' /\ log'[At(u, p)'.numid] = At(u, p)'.commit
                      /\ \A q \in Places(u)' : Before(p, q) => At(u, p)'.numid < At(u, q)'.numid
    BY DEF JournalsFollowLog
<1>3. CASE SamePlaces(u)
    BY <1>2, <1>3 DEF SamePlaces
<1>4. CASE u = t /\ \E whole \in BOOLEAN : Wrote(t, whole) /\ \E q : RecordsAt(t, q, whole)
  <2>0. PICK whole \in BOOLEAN : Wrote(t, whole) /\ \E q : RecordsAt(t, q, whole)
    BY <1>4
  <2>1. PICK q : RecordsAt(t, q, whole)
    BY <2>0
  <2> DEFINE c == Commit(t)
  <2>2. c \in Elems(log) /\ pc[t] \in Pushed
    BY <2>0 DEF Wrote, Inv, OnList, Pushed
  <2>3. commit[c].numid \in DOMAIN log /\ log[commit[c].numid] = c
    BY <2>2 DEF Elems, Inv, LogIsChain
  <2>4. \A p \in Places(t) : At(t, p).numid < commit[c].numid
    BY <2>2 DEF Inv, RecordsBehind
  <2>5. ASSUME NEW p \in Places(t)'
        PROVE  At(t, p)'.numid \in DOMAIN log' /\ log'[At(t, p)'.numid] = At(t, p)'.commit
    <3>1. CASE p \in Places(t)
      BY <1>2, <2>1, <3>1 DEF RecordsAt
    <3>2. CASE p = q
      BY <1>1, <2>1, <2>3, <3>2 DEF RecordsAt
    <3> QED BY <2>1, <3>1, <3>2 DEF RecordsAt
  <2>6. ASSUME NEW p \in Places(t)', NEW r \in Places(t)', Before(p, r)
        PROVE  At(t, p)'.numid < At(t, r)'.numid
    <3>1. p \in Places(t)
      BY <2>1, <2>6 DEF RecordsAt
    <3>2. At(t, p)' = At(t, p)
      BY <2>1, <3>1 DEF RecordsAt
    <3>3. CASE r \in Places(t)
      <4>1. At(t, r)' = At(t, r)
        BY <2>1, <3>3 DEF RecordsAt
      <4> QED BY <1>2, <2>6, <3>1, <3>2, <3>3, <4>1
    <3>4. CASE r = q
      BY <2>1, <2>4, <3>1, <3>2, <3>4 DEF RecordsAt
    <3> QED BY <2>1, <3>3, <3>4 DEF RecordsAt
  <2> QED BY <1>4, <2>5, <2>6
<1> QED BY <1>3, <1>4, PlacesStep

LEMMA BehindStep ==
    ASSUME Inv, ~Recycled, NEW t \in Tasks, Acts(t), LogIsChain' PROVE RecordsBehind'
<1> SUFFICES ASSUME NEW u \in Tasks, pc'[u] \in Pushed, NEW p \in Places(u)'
             PROVE  At(u, p)'.numid < commit'[Commit(u)'].numid
    BY DEF RecordsBehind
<1>1. SamePlaces(u)
  <2>1. ~(u = t /\ \E whole \in BOOLEAN : Wrote(t, whole))
    BY OnlyAppends, AppendDoes DEF Wrote, Pushed
  <2> QED BY <2>1, PlacesStep
<1>2. p \in Places(u) /\ At(u, p)' = At(u, p) /\ At(u, p).numid \in DOMAIN log
    BY <1>1 DEF SamePlaces, Inv, JournalsFollowLog
<1>3. ASSUME pc[u] \in Pushed, Commit(u)' = Commit(u)
      PROVE  At(u, p)'.numid < commit'[Commit(u)'].numid
  <2>1. At(u, p).numid < commit[Commit(u)].numid /\ Commit(u) \in Elems(log)
    BY <1>2, <1>3 DEF Inv, RecordsBehind, OnList
  <2> QED BY <1>2, <1>3, <2>1, Frozen DEF SameBut
<1>4. CASE u # t
  <2>1. pc[u] \in Pushed /\ Commit(u)' = Commit(u)
    BY <1>4, Frame, NamedNext, CommitIs
  <2> QED BY <1>3, <2>1
<1>5. CASE u = t /\ PushCommit(t)
  <2>1. /\ Len(log) \in Nat /\ DOMAIN log = 1..Len(log) /\ DOMAIN log' = 1..(Len(log) + 1)
        /\ log'[Len(log) + 1] = Commit(t) /\ Commit(t)' = Commit(t)
    BY <1>5, PushDoes, NamedNext, CommitIs
  <2>2. Len(log) + 1 \in DOMAIN log'
    BY <2>1
  <2>3. commit'[Commit(t)].numid = Len(log) + 1
    BY <2>1, <2>2 DEF LogIsChain
  <2> QED BY <1>2, <1>5, <2>1, <2>3
<1>6. CASE u = t /\ ~PushCommit(t)
  <2>1. Others(t)
    BY <1>6, ActsSplit, StartDoes, LoadDoes, ZenonT(30) DEF Pushed, Inv, TypeOK
  <2>2. pc[t] \in {"idle"} \cup Pushed \cup Unpushed
    BY DEF Inv, TypeOK, PCs, Pushed, Unpushed
  <2>3. pc[t] \in Pushed
    BY <1>6, <2>1, <2>2, OthersDo DEF Pushed, Unpushed
  <2>4. Commit(t)' = Commit(t)
    BY <2>1, OthersDo, NamedNext, CommitIs
  <2> QED BY <1>3, <1>6, <2>3, <2>4
<1> QED BY <1>4, <1>5, <1>6

\* A file of a journal as JournalOverrun has it, with the records' bytes after the step.
Overrun(file) ==
    file.records # <<>> =>
        file.size + FilenameSize <=
          MaxJournalSize + RecordSize * Len(commit'[file.records[Len(file.records)].commit].refs)

LEMMA OverrunStep == ASSUME Inv, ~Recycled, NEW t \in Tasks, Acts(t) PROVE JournalOverrun'
<1> SUFFICES ASSUME NEW u \in Tasks, NEW f \in DOMAIN journals'[u] PROVE Overrun(journals'[u][f])
    BY DEF JournalOverrun, RecordBytes, Overrun
<1>1. ASSUME NEW v \in Tasks, NEW g \in DOMAIN journals[v] PROVE Overrun(journals[v][g])
  <2> DEFINE file == journals[v][g]
             k == Len(file.records)
             last == file.records[k].commit
  <2> SUFFICES ASSUME file.records # <<>> PROVE Overrun(file)
      BY DEF Overrun
  <2>1. file.records \in Seq(JournalRecords)
    <3>1. file \in Files
      BY ElementOfSeq, LenProperties DEF Inv, TypeOK
    <3> QED BY <3>1 DEF Files
  <2>2. k \in DOMAIN file.records
    <3> HIDE DEF file
    <3> QED BY <2>1, LenProperties, EmptySeq
  <2>3. last \in Elems(log)
    BY <2>2, PlaceOf
  <2>4. commit'[last].refs = commit[last].refs
    BY <2>3, Frozen
  <2>5. file.size + FilenameSize <= MaxJournalSize + RecordSize * Len(commit[last].refs)
    BY DEF Inv, JournalOverrun, RecordBytes
  <2> QED BY <2>4, <2>5 DEF Overrun
<1>2. CASE journals'[u] = journals[u]
    BY <1>1, <1>2
<1>3. CASE u = t /\ (JournalCreate(t) \/ JournalRotate(t))
  <2> DEFINE j == Append(journals[t], EmptyFile)
  <2>0. journals[t] \in Seq(Files) /\ DOMAIN journals[t] = 1..Len(journals[t]) /\ Len(journals[t]) \in Nat
    BY LenProperties DEF Inv, TypeOK
  <2>1. /\ DOMAIN j = 1..(Len(journals[t]) + 1)
        /\ \A i \in 1..Len(journals[t]) : j[i] = journals[t][i]
        /\ j[Len(journals[t]) + 1] = EmptyFile
    BY <2>0, EmptyFileType, Appended
  <2>2. journals' = [journals EXCEPT ![t] = j]
    BY <1>3 DEF JournalCreate, JournalRotate
  <2> HIDE DEF j
  <2>3. journals'[t] = j
    BY <2>2 DEF Inv, TypeOK
  <2>4. f \in 1..Len(journals[t]) \/ f = Len(journals[t]) + 1
    BY <1>3, <2>0, <2>1, <2>3
  <2>5. Overrun(EmptyFile)
    BY DEF Overrun, EmptyFile
  <2> QED BY <1>1, <1>3, <2>0, <2>1, <2>3, <2>4, <2>5
<1>4. ASSUME u = t, NEW whole \in BOOLEAN, Wrote(t, whole) PROVE Overrun(journals'[u][f])
  <2>0. pc[t] = "append" /\ journals[t] \in Seq(Files) /\ DOMAIN journals[t] = 1..Len(journals[t])
    BY <1>4, LenProperties DEF Wrote, Inv, TypeOK
  <2>p. PICK bytes \in Nat :
          LET new == Recorded(t, whole, bytes)
          IN  /\ bytes <= RecordBytes(Commit(t))
              /\ journals'[t] \in Seq(Files) /\ Len(journals'[t]) = Len(journals[t])
              /\ \A i \in 1..Len(journals[t]) :
                    journals'[t][i] = IF i = numJournals[t] + 1 THEN new ELSE journals[t][i]
    BY <1>4, WroteDoes
  <2> DEFINE file == Recorded(t, whole, bytes)
  <2>1. /\ journals'[t] \in Seq(Files) /\ Len(journals'[t]) = Len(journals[t])
        /\ \A i \in 1..Len(journals[t]) :
              journals'[t][i] = IF i = numJournals[t] + 1 THEN file ELSE journals[t][i]
    BY <2>p
  <2>2. f \in 1..Len(journals[t])
    BY <1>4, <2>1, LenProperties
  <2>3. Overrun(file)
    <3> DEFINE c == Commit(t)
               rs == CurrentFile(t).records
    <3>1. CurrentFile(t) \in Files /\ CurrentFile(t).size + FilenameSize <= MaxJournalSize
      BY <2>0, FileTypes DEF Inv, FilesRight
    <3>2. rs \in Seq(JournalRecords) /\ CurrentFile(t).size \in Nat
      BY <3>1 DEF Files
    <3>3. NewRecord(t, whole) \in JournalRecords /\ RecordBytes(c) \in Nat /\ bytes <= RecordBytes(c)
      BY <2>0, <2>p, RecordTypes
    <3>4. file.records = Append(rs, NewRecord(t, whole)) /\ file.size = CurrentFile(t).size + bytes
      BY DEF Recorded
    <3>5. /\ Len(Append(rs, NewRecord(t, whole))) = Len(rs) + 1
          /\ Append(rs, NewRecord(t, whole))[Len(rs) + 1] = NewRecord(t, whole)
      <4> HIDE DEF rs, c
      <4> QED BY <3>2, <3>3, Appended
    <3>6. file.records[Len(file.records)].commit = c
      BY <3>4, <3>5 DEF NewRecord
    <3>7. RecordBytes(c) = RecordSize * Len(commit'[c].refs)
      <4>1. c \in Elems(log)
        BY <2>0 DEF Inv, OnList, Pushed
      <4> QED BY <4>1, Frozen DEF RecordBytes
    <3> HIDE DEF c, file
    <3>8. file.size + FilenameSize <= MaxJournalSize + RecordBytes(c)
      BY <3>1, <3>2, <3>3, <3>4, RepoAssumption
    <3> QED BY <3>6, <3>7, <3>8 DEF Overrun
  <2> QED BY <1>1, <1>4, <2>0, <2>1, <2>2, <2>3
<1>5. \/ journals'[u] = journals[u]
      \/ u = t /\ (JournalCreate(t) \/ JournalRotate(t) \/ \E whole \in BOOLEAN : Wrote(t, whole))
    BY JournalsDo, Frame DEF JournalHasRoom, JournalFail, disk
<1> QED BY <1>2, <1>3, <1>4, <1>5

LEMMA AnswersDo ==
    ASSUME Inv, ~Recycled, NEW t \in Tasks, Acts(t)
    PROVE  \/ answer' = answer /\ ~AppendRecord(t)
           \/ /\ pc[t] # "idle" /\ pc'[t] = "idle" /\ round' = round
              /\ \/ answer' = [answer EXCEPT ![<<t, round[t]>>] = "FAIL"] /\ ~AppendRecord(t)
                 \/ answer' = [answer EXCEPT ![<<t, round[t]>>] = "OK"] /\ AppendRecord(t)
<1>1. ASSUME NEW a, Answer(t, a), pc[t] # "idle"
      PROVE  pc'[t] = "idle" /\ round' = round /\ answer' = [answer EXCEPT ![<<t, round[t]>>] = a]
    BY <1>1 DEF Answer, Goto, Current, Inv, TypeOK
<1>2. CASE AppendRecord(t)
  <2>1. Answer(t, "OK") /\ pc[t] # "idle"
    BY <1>2 DEF AppendRecord
  <2> QED BY <1>1, <1>2, <2>1
<1>3. CASE ImportConflict(t) \/ IndexConflict(t) \/ JournalFail(t) \/ AppendFail(t)
  <2>1. Answer(t, "FAIL") /\ pc[t] # "idle" /\ ~AppendRecord(t)
    <3>1. CASE ImportConflict(t)
      BY <3>1 DEF ImportConflict, AppendRecord
    <3>2. CASE IndexConflict(t)
      BY <3>2 DEF IndexConflict, AppendRecord
    <3>3. CASE JournalFail(t)
      BY <3>3 DEF JournalFail, AppendRecord
    <3>4. CASE AppendFail(t)
      <4>1. pc[t] = "append" /\ Answer(t, "FAIL")
        BY <3>4 DEF AppendFail
      <4>2. Current(t) \in Commits /\ DOMAIN answer = Commits
        BY <4>1, Active, CommitIs DEF Current, Inv, TypeOK
      <4>3. AppendRecord(t) => Answer(t, "OK")
        BY DEF AppendRecord
      <4> QED BY <4>1, <4>2, <4>3 DEF Answer
    <3> QED BY <1>3, <3>1, <3>2, <3>3, <3>4
  <2> QED BY <1>1, <2>1
<1>4. CASE ~(AppendRecord(t) \/ ImportConflict(t) \/ IndexConflict(t) \/ JournalFail(t) \/ AppendFail(t))
  <2>1. answer' = answer
    BY <1>4 DEF Acts, Start, Step, ImportStep, Import, IndexStep, IndexLoad, IndexPush,
                CommitStep, LoadHead, PushCommit, PushRetry, SetValid, Count, JournalStep,
                JournalHasRoom, JournalCreate, JournalRotate
  <2> QED BY <1>4, <2>1
<1> QED BY <1>2, <1>3, <1>4

LEMMA UnansweredStep == ASSUME Inv, ~Recycled, NEW t \in Tasks, Acts(t) PROVE Unanswered'
<1> SUFFICES ASSUME NEW u \in Tasks, NEW r \in 1..Rounds,
                    r > round'[u] \/ (r = round'[u] /\ pc'[u] # "idle")
             PROVE  answer'[<<u, r>>] = "none"
    BY DEF Unanswered
<1>0. round[t] \in Nat /\ <<u, r>> \in Commits /\ r \in Nat
  <2>1. round[t] \in Nat
    BY RepoAssumption DEF Inv, TypeOK
  <2>2. <<u, r>> \in Commits
    BY CommitIs
  <2>3. r \in Nat
    BY RepoAssumption
  <2> QED BY <2>1, <2>2, <2>3
<1>1. r > round[u] \/ (r = round[u] /\ pc[u] # "idle")
  <2>1. CASE u # t
    BY <2>1, Frame
  <2>2. ASSUME u = t, NEW names \in Requests, Start(t, names) PROVE r > round[u]
    <3>1. round' = [round EXCEPT ![t] = round[t] + 1]
      BY <2>2, StartDoes
    <3>2. round'[t] = round[t] + 1
      BY <3>1 DEF Inv, TypeOK
    <3> QED BY <1>0, <2>2, <3>2
  <2>3. CASE u = t /\ ~\E names \in Requests : Start(t, names)
    BY <2>3, LoadDoes, PushDoes, OthersDo, ActsSplit
  <2> QED BY <2>1, <2>2, <2>3
<1>2. answer[<<u, r>>] = "none"
    BY <1>1 DEF Inv, Unanswered
<1>3. ASSUME round' = round, pc'[t] = "idle" PROVE <<u, r>> # <<t, round[t]>>
    BY <1>0, <1>3
<1>4. answer \in [Commits -> {"none", "OK", "FAIL"}]
    BY DEF Inv, TypeOK
<1> QED BY <1>0, <1>2, <1>3, <1>4, AnswersDo

LEMMA StepInv == ASSUME Inv, ~Recycled, [Next]_vars PROVE Inv'
<1>1. ASSUME NEW t \in Tasks, Acts(t) PROVE Inv'
    BY <1>1, TypeStep, ChainStep, RoundStep, OnListStep, NotedStep, IndexedStep, CountsStep,
       NewNamesStep, FilesStep, FollowStep, BehindStep, OverrunStep, UnansweredStep DEF Inv
<1>2. CASE UNCHANGED vars
  <2> USE <1>2 DEF vars, shared, disk
  <2>1. TypeOK' /\ LogIsChain'
    BY DEF Inv, TypeOK, LogIsChain
  <2>2. \A t \in Tasks : Commit(t)' = Commit(t) /\ Places(t)' = Places(t) /\ \A p : At(t, p)' = At(t, p)
    BY DEF Commit, Page, Places, At
  <2>3. \A c : Creates(c)' = Creates(c) /\ RecordBytes(c)' = RecordBytes(c)
    BY DEF Creates, RecordBytes
  <2>4. InRound' /\ OnList' /\ NotedHead' /\ NamesIndexed' /\ Unanswered'
    BY DEF Inv, InRound, OnList, NotedHead, NamesIndexed, Unanswered, Commit, Page, Creates, Registered
  <2>5. CountsBehind'
    BY DEF Inv, CountsBehind, Uncounted
  <2>6. NewNames' /\ FilesRight'
    BY DEF Inv, NewNames, FilesRight, Commit, Page, Creates, CurrentFile
  <2>7. JournalsFollowLog' /\ RecordsBehind'
    BY DEF Inv, JournalsFollowLog, RecordsBehind, Places, At, Commit, Page
  <2>8. JournalOverrun'
    BY DEF Inv, JournalOverrun, RecordBytes
  <2> QED BY <2>1, <2>4, <2>5, <2>6, <2>7, <2>8 DEF Inv
<1> QED BY <1>1, <1>2 DEF Next, Acts, Quiet

LEMMA InvHolds == ASSUME ~Recycled PROVE Spec => []Inv
<1>1. Inv /\ [Next]_vars => Inv'
    BY StepInv
<1> QED BY InitInv, <1>1, PTL DEF Spec

---------------------------------------------------------------------------
(* The theorems *)

\* Everything is of its type, and however the pushes of the tasks interleave
\* the n-th commit of the list has number n and follows the (n-1)-th
\* (check_commit_conflicts).
THEOREM ChainNumbered == ASSUME ~Recycled PROVE Spec => []WellNumbered
<1>1. Inv => WellNumbered
    BY DEF Inv, WellNumbered
<1> QED BY <1>1, InvHolds, PTL

\* Every record of every journal is a commit of the list under its number, and
\* the numbers of one agent's files increase (build_commit_WAL).
THEOREM JournalsFollow == ASSUME ~Recycled PROVE Spec => []JournalsFollowLog
<1>1. Inv => JournalsFollowLog
    BY DEF Inv
<1> QED BY <1>1, InvHolds, PTL

\* A journal file is larger than max_journal_size by no more than its last record
\* (the test of planned_journal_size).
THEOREM OverrunBounded == ASSUME ~Recycled PROVE Spec => []JournalOverrun
<1>1. Inv => JournalOverrun
    BY DEF Inv
<1> QED BY <1>1, InvHolds, PTL

Base == [c \in Commits |-> commit[c].orig_state]
Made == [c \in Commits |-> Creates(c)]
Acked == {c \in Commits : answer[c] = "OK"}
logVars == <<log, Base, Made, Journaled, Acked>>

WholeAt(u) == {At(u, p).commit : p \in {q \in Places(u) : At(u, q).whole}}

\* Every step is a step of the commit log or leaves it alone.
LEMMA LogStep == ASSUME Inv, ~Recycled, [Next]_vars PROVE [Abstract!Next]_(Abstract!vars)
<1> USE DEF Abstract!vars
<1>0. /\ commit \in [Commits -> CommitRecords] /\ log \in Seq(Commits)
      /\ answer \in [Commits -> {"none", "OK", "FAIL"}]
    BY DEF Inv, TypeOK
<1>1. ASSUME \A c \in Commits : commit'[c].orig_state = commit[c].orig_state PROVE Base' = Base
    BY <1>1 DEF Base
<1>2. ASSUME \A c \in Commits : commit'[c].refs = commit[c].refs PROVE Made' = Made
    BY <1>2 DEF Made, Creates
<1>3. ASSUME \A u \in Tasks : WholeAt(u)' = WholeAt(u) PROVE Journaled' = Journaled
  <2>1. Journaled = UNION {WholeAt(u) : u \in Tasks}
    BY DEF Journaled, WholeAt
  <2>2. Journaled' = UNION {WholeAt(u)' : u \in Tasks}
    BY DEF Journaled, WholeAt
  <2> QED BY <1>3, <2>1, <2>2
<1>4. \A c : Abstract!InLog(c) <=> c \in Elems(log)
    BY DEF Abstract!InLog, Elems
<1>5. ASSUME NEW t \in Tasks, Acts(t), ~AppendRecord(t) PROVE Journaled' = Journaled /\ Acked' = Acked
  <2>1. Journaled' = Journaled
    <3>1. ASSUME NEW u \in Tasks PROVE WholeAt(u)' = WholeAt(u)
      <4>1. CASE SamePlaces(u)
        BY <4>1 DEF SamePlaces, WholeAt
      <4>2. CASE u = t /\ \E whole \in BOOLEAN : Wrote(t, whole) /\ \E q : RecordsAt(t, q, whole)
        <5>1. PICK q : RecordsAt(t, q, FALSE)
          BY <1>5, <4>2 DEF Wrote
        <5>2. /\ ~At(t, q)'.whole /\ Places(t)' = Places(t) \cup {q}
              /\ \A r \in Places(t) : At(t, r)' = At(t, r)
          BY <5>1, Zenon DEF RecordsAt
        <5>3. {r \in Places(t)' : At(t, r)'.whole} = {r \in Places(t) : At(t, r).whole}
          BY <5>2, Zenon
        <5>4. {At(t, p)'.commit : p \in {r \in Places(t) : At(t, r).whole}}
                = {At(t, p).commit : p \in {r \in Places(t) : At(t, r).whole}}
          BY <5>2
        <5>5. WholeAt(t)' = {At(t, p)'.commit : p \in {r \in Places(t)' : At(t, r)'.whole}}
          BY DEF WholeAt
        <5>6. WholeAt(t)' = {At(t, p).commit : p \in {r \in Places(t) : At(t, r).whole}}
          BY <5>3, <5>4, <5>5
        <5> QED BY <4>2, <5>6 DEF WholeAt
      <4> QED BY <1>5, <4>1, <4>2, PlacesStep
    <3> QED BY <1>3, <3>1
  <2>2. CASE answer' = answer
    BY <2>1, <2>2 DEF Acked
  <2>3. CASE pc[t] # "idle" /\ answer' = [answer EXCEPT ![<<t, round[t]>>] = "FAIL"]
    <3>1. answer[<<t, round[t]>>] = "none" /\ <<t, round[t]>> \in Commits
      BY <2>3, Active DEF Inv, Unanswered
    <3>2. \A c \in Commits : answer'[c] = "OK" <=> answer[c] = "OK"
      BY <1>0, <2>3, <3>1
    <3> QED BY <2>1, <3>2 DEF Acked
  <2> QED BY <1>5, <2>2, <2>3, AnswersDo
<1>6. ASSUME NEW t \in Tasks, NEW names \in Requests, Start(t, names) PROVE Abstract!Next
  <2>1. PICK c : c = <<t, round[t] + 1>>
    OBVIOUS
  <2>2. /\ c \in Commits /\ c \notin Elems(log) /\ log' = log
        /\ commit' = [commit EXCEPT ![c] = StartsFrom(numCommits)]
    BY <1>6, <2>1, StartDoes
  <2>3. commit[c] = NewCommit
    <3>1. round[t] \in Nat /\ round[t] + 1 \in 1..Rounds
      BY <1>6, StartDoes
    <3>2. round[t] + 1 > round[t]
      BY <3>1
    <3> QED BY <2>1, <3>1, <3>2 DEF Inv, InRound
  <2>4. commit'[c].refs = commit[c].refs /\ commit'[c].orig_state = numCommits
    BY <1>0, <2>2, <2>3 DEF NewCommit, StartsFrom
  <2>5. \A d \in Commits \ {c} : commit'[d] = commit[d]
    BY <1>0, <2>2
  <2>6. Made' = Made
    BY <1>2, <2>4, <2>5
  <2>7. Base' = [Base EXCEPT ![c] = numCommits]
    <3>1. \A d \in Commits : commit'[d].orig_state = IF d = c THEN numCommits ELSE commit[d].orig_state
      BY <2>4, <2>5
    <3> QED BY <2>2, <3>1 DEF Base
  <2>8. numCommits \in 0..Len(log)
    <3>1. numCommits \in Nat /\ Len(log) \in Nat /\ numCommits + Cardinality(Uncounted) = Len(log)
      BY <1>0, LenProperties DEF Inv, TypeOK, CountsBehind
    <3>2. Cardinality(Uncounted) \in Nat
      <4>1. Uncounted \subseteq Tasks /\ IsFiniteSet(Tasks)
        BY RepoAssumption DEF Uncounted
      <4> QED BY <4>1, FS_Subset, FS_CardinalityType
    <3> QED BY <3>1, <3>2
  <2>9. Journaled' = Journaled /\ Acked' = Acked
    <3>1. Acts(t) /\ ~AppendRecord(t)
      BY <1>6 DEF Acts, Start, AppendRecord
    <3> QED BY <1>5, <3>1
  <2>10. Abstract!Begin(c)
    BY <1>4, <2>2, <2>6, <2>7, <2>8, <2>9 DEF Abstract!Begin, Base, Made, Acked
  <2> QED BY <2>2, <2>10 DEF Abstract!Next
<1>7. ASSUME NEW t \in Tasks, Import(t) PROVE Abstract!Next
  <2>1. PICK c : c = Commit(t)
    OBVIOUS
  <2>2. PICK n : n = Head(todo[t])
    OBVIOUS
  <2>3. /\ c \in Commits /\ n \in Names /\ CreatesNext(c) = {n} \cup Creates(c) /\ pc[t] = "import"
    BY <1>7, <2>1, <2>2, ImportDoes
  <2>4. Others(t) /\ Acts(t) /\ ~AppendRecord(t)
    BY <1>7, <2>3 DEF Others, ImportStep, Acts, Step, AppendRecord
  <2>5. /\ \A d \in Commits : SameBut(d) /\ (commit'[d].refs = commit[d].refs \/ d = c)
        /\ log' = log
    BY <2>1, <2>4, OthersDo
  <2>6. c \notin Elems(log)
    BY <2>1, <2>3 DEF Inv, OnList, Unpushed
  <2>7. Base' = Base
    BY <1>1, <2>5 DEF SameBut
  <2>8. Made' = [Made EXCEPT ![c] = Made[c] \cup {n}]
    BY <2>3, <2>5 DEF Made, Creates, CreatesNext
  <2>9. Abstract!Create(c, n)
    BY <1>4, <1>5, <2>4, <2>5, <2>6, <2>7, <2>8 DEF Abstract!Create, Base, Made, Acked
  <2> QED BY <2>3, <2>9 DEF Abstract!Next
<1>8. ASSUME NEW t \in Tasks, PushCommit(t) PROVE Abstract!Next
  <2>1. PICK c : c = Commit(t)
    OBVIOUS
  <2>2. c \in Commits /\ c \notin Elems(log) /\ log' = Append(log, c) /\ commit' = commit /\ pc[t] = "cas"
    BY <1>8, <2>1, PushDoes
  <2>3. Acts(t) /\ ~AppendRecord(t)
    BY <1>8, <2>2 DEF Acts, Step, CommitStep, AppendRecord
  <2>4. Base' = Base /\ Made' = Made
    BY <1>1, <1>2, <2>2
  <2>5. \A i \in 1..Base[c] : Made[log[i]] \cap Made[c] = {}
    <3> SUFFICES ASSUME NEW i \in 1..commit[c].orig_state PROVE Made[log[i]] \cap Made[c] = {}
        BY <2>2 DEF Base
    <3>1. log[i] \in Commits
      BY <1>0, <2>2, OrigWithin, ElementOfSeq, LenProperties
    <3>2. Creates(log[i]) \cap Creates(c) = {}
      BY <2>1, <2>2 DEF Inv, NewNames, Unpushed
    <3> QED BY <2>2, <3>1, <3>2 DEF Made
  <2>6. Abstract!Confirm(c)
    BY <1>4, <1>5, <2>2, <2>3, <2>4, <2>5 DEF Abstract!Confirm, Base, Made, Acked
  <2> QED BY <2>2, <2>6 DEF Abstract!Next
<1>9. ASSUME NEW t \in Tasks, AppendRecord(t) PROVE Abstract!Next
  <2>1. PICK c : c = Commit(t)
    OBVIOUS
  <2>2. pc[t] = "append" /\ Acts(t) /\ Others(t)
    BY <1>9 DEF AppendRecord, Acts, Step, Others, JournalStep
  <2>3. c \in Commits /\ c = <<t, round[t]>> /\ c \in Elems(log)
    BY <2>1, <2>2, Active DEF Inv, OnList, Pushed
  <2>4. log' = log /\ \A d \in Commits : SameBut(d) /\ commit'[d].refs = commit[d].refs
    BY <1>9, <2>2, OthersDo DEF AppendRecord, Import
  <2>5. Base' = Base /\ Made' = Made
    BY <1>1, <1>2, <2>4 DEF SameBut
  <2>6. Journaled' = Journaled \cup {c}
    <3>1. PICK q : RecordsAt(t, q, TRUE)
      <4>1. \E whole \in BOOLEAN : Wrote(t, whole)
        BY <1>9, AppendDoes
      <4>2. Wrote(t, TRUE)
        BY <1>9, <4>1 DEF Wrote
      <4> QED BY <4>2, PlacesAppend
    <3> DEFINE By(u) == {At(u, p).commit : p \in {r \in Places(u) : At(u, r).whole}}
               ByNext(u) == {At(u, p)'.commit : p \in {r \in Places(u)' : At(u, r)'.whole}}
    <3>2. ByNext(t) = By(t) \cup {c}
      BY <2>1, <3>1 DEF RecordsAt
    <3>3. \A u \in Tasks \ {t} : ByNext(u) = By(u)
      BY <2>2, PlacesStep DEF SamePlaces
    <3>4. Journaled = UNION {By(u) : u \in Tasks} /\ Journaled' = UNION {ByNext(u) : u \in Tasks}
      BY DEF Journaled
    <3> HIDE DEF By, ByNext
    <3> QED BY <3>2, <3>3, <3>4
  <2>7. Acked' = Acked \cup {c}
    <3>1. answer' = [answer EXCEPT ![c] = "OK"]
      BY <1>9, <2>2, <2>3, AnswersDo
    <3> QED BY <1>0, <2>3, <3>1 DEF Acked
  <2>8. Abstract!Acknowledge(c)
    BY <1>4, <2>3, <2>4, <2>5, <2>6, <2>7 DEF Abstract!Acknowledge, Base, Made, Acked
  <2> QED BY <2>3, <2>8 DEF Abstract!Next
<1>10. ASSUME NEW t \in Tasks, Acts(t), ~(\E names \in Requests : Start(t, names)),
              ~Import(t), ~PushCommit(t), ~AppendRecord(t)
       PROVE  UNCHANGED logVars
  <2>1. Journaled' = Journaled /\ Acked' = Acked
    BY <1>5, <1>10
  <2>2. log' = log /\ \A c \in Commits : commit'[c].orig_state = commit[c].orig_state
                                         /\ commit'[c].refs = commit[c].refs
    BY <1>10, ActsSplit, LoadDoes, OthersDo DEF SameBut
  <2> QED BY <1>1, <1>2, <2>1, <2>2 DEF logVars
<1>11. ASSUME UNCHANGED vars PROVE UNCHANGED logVars
    BY <1>11 DEF logVars, vars, shared, disk, Base, Made, Acked, Journaled, Creates, Places, At
<1>12. UNCHANGED logVars => UNCHANGED Abstract!vars
    BY DEF logVars, Base, Made, Acked
<1> QED BY <1>6, <1>7, <1>8, <1>9, <1>10, <1>11, <1>12 DEF Next, Acts, Quiet

\* knd_confirm_commit: however the requests of the tasks interleave, and
\* whichever writes fail, the repo behaves as the commit log of CommitLog.
THEOREM RepoImplementsCommitLog == ASSUME ~Recycled PROVE Spec => ImplementsCommitLog
<1>1. Init => Abstract!Init
  <2> SUFFICES ASSUME Init PROVE Abstract!Init
    OBVIOUS
  <2>1. Base = [c \in Commits |-> 0] /\ Made = [c \in Commits |-> {}] /\ Acked = {}
    BY Empties DEF Init, Base, Made, Acked, NewCommit, Creates
  <2>2. \A t \in Tasks : Places(t) = {}
    BY DEF Init, Places
  <2>3. Journaled = {}
    BY <2>2 DEF Journaled
  <2> QED BY <2>1, <2>3 DEF Init, Abstract!Init, Base, Made, Acked
<1>2. Inv /\ [Next]_vars => [Abstract!Next]_(Abstract!vars)
    BY LogStep
<1> QED BY <1>1, <1>2, InvHolds, PTL DEF Spec, ImplementsCommitLog, Abstract!Spec
=============================================================================
