------------------------------ MODULE Restore ------------------------------
(***************************************************************************)
(* A repo of an arbiter shard that is stopped at any moment and opened     *)
(* again: knd_repo_restore reads the journals of the agents into           *)
(* snapshot->commit_idx and knd_apply_commit applies what it finds there.  *)
(*                                                                         *)
(* A commit is accepted in one step here (RepoCommit shows that numbering  *)
(* and push are atomic) and reaches its agent's journal in a later one.    *)
(* The files of one agent's journal are one sequence of records: they are  *)
(* read in the order they were written.  Each commit creates one class or  *)
(* one instance, of a name that no other has.                              *)
(*                                                                         *)
(* Operators whose name ends in _v are wrong variants of the definition    *)
(* that follows them; nothing uses them but the mutation tests.            *)
(***************************************************************************)
EXTENDS Naturals, Sequences, FiniteSets

CONSTANTS
    NumAgents,   \* tasks 1..NumAgents of the service; the shard's own is 0
    Folders,     \* agents whose journal folder exists from earlier runs
    Kinds,       \* what commits do: create a "class" or an "inst"
    Radix,       \* KND_RADIX_BASE
    MaxRequests, \* bound: commits made by clients
    MaxCrashes   \* bound: crashes

Agents == 1..NumAgents
Sys == 0         \* the task that opens the shard

ASSUME RestoreAssumption ==
    /\ {NumAgents, MaxRequests, MaxCrashes} \subseteq Nat
    /\ Folders \subseteq Agents
    /\ Kinds \subseteq {"class", "inst"}
    /\ Radix \in Nat \ {0, 1}

Requests == 1..MaxRequests
\* A restore gives each request at most one new number.
Numids == 1..(MaxRequests * (MaxCrashes + 2))
NoRequest == 0

VARIABLES
    \* what the clients did and know
    kind,       \* kind[r]: what request r does, in the order they were accepted
    acked,      \* requests that were answered "OK"
    \* disk
    records,    \* records[a]: the journal of agent a, [req, numid] records
    folder,     \* folder[a]: does the folder agent_<a>/ exist?
    \* memory of the shard
    phase,
    agent,      \* the agent whose journals are read next
    idx,        \* snapshot->commit_idx: the records read
    left,       \* those not applied yet
    log,        \* the requests on the list snapshot->commits, oldest first
    numid,      \* commit->numid of each request
    numCommits, \* snapshot->num_commits
    known,      \* requests whose class or instance is in the indices
    pending,    \* pending[a]: the commit of agent a that is not in its journal yet
    crashes

clients == <<kind, acked>>
disk    == <<records, folder>>
commits == <<log, numid, numCommits>>
vars    == <<clients, disk, phase, agent, idx, left, commits, known, pending, crashes>>

Phases == {"up", "down", "reading", "applying", "confirmed", "journaled", "failed"}
Entries == [req : Requests, numid : Numids]

Init == /\ kind = <<>>
        /\ acked = {}
        /\ records = [a \in Agents \cup {Sys} |-> <<>>]
        /\ folder = [a \in Agents \cup {Sys} |-> a \in Folders]
        /\ phase = "up"
        /\ agent = Sys
        /\ idx = {}
        /\ left = {}
        /\ log = <<>>
        /\ numid = [r \in Requests |-> 1]
        /\ numCommits = 0
        /\ known = {}
        /\ pending = [a \in Agents |-> NoRequest]
        /\ crashes = 0

---------------------------------------------------------------------------
(* A running shard *)

\* check_commit_conflicts: one more than the number of the head commit, or the
\* number the commit has, if the list is empty.
NextNumid_v(own) == numCommits + 1
NextNumid_unset(own) == IF log = <<>> THEN 0 ELSE numid[log[Len(log)]] + 1
NextNumid(own) == IF log = <<>> THEN own ELSE numid[log[Len(log)]] + 1

\* knd_confirm_commit: update_indices, check_commit_conflicts.
PushCommit(r, own) == /\ numid' = [numid EXCEPT ![r] = NextNumid(own)]
                      /\ log' = Append(log, r)
                      /\ numCommits' = numCommits + 1
                      /\ known' = known \cup {r}

\* build_commit_WAL: the folder and the file are made if they do not exist.
Write(a, r) == /\ records' = [records EXCEPT ![a] = Append(@, [req |-> r, numid |-> numid[r]])]
               /\ folder' = [folder EXCEPT ![a] = TRUE]

Accept_v(a, k) ==
    LET r == Len(kind) + 1 IN
    /\ phase = "up"
    /\ pending[a] = NoRequest
    /\ r \in Requests
    /\ kind' = Append(kind, k)
    /\ PushCommit(r, numid[r])
    /\ pending' = [pending EXCEPT ![a] = r]
    /\ acked' = acked \cup {r}
    /\ UNCHANGED <<disk, phase, agent, idx, left, crashes>>

Accept(a, k) ==
    LET r == Len(kind) + 1 IN
    /\ phase = "up"
    /\ pending[a] = NoRequest
    /\ r \in Requests
    /\ kind' = Append(kind, k)
    /\ PushCommit(r, numid[r])
    /\ pending' = [pending EXCEPT ![a] = r]
    /\ UNCHANGED <<acked, disk, phase, agent, idx, left, crashes>>

Journal(a) ==
    /\ phase = "up"
    /\ pending[a] # NoRequest
    /\ Write(a, pending[a])
    /\ acked' = acked \cup {pending[a]}
    /\ pending' = [pending EXCEPT ![a] = NoRequest]
    /\ UNCHANGED <<kind, phase, agent, idx, left, commits, known, crashes>>

\* The process stops, also in the middle of a restore: its memory is lost.
Crash ==
    /\ phase \notin {"down", "failed"}
    /\ crashes < MaxCrashes
    /\ crashes' = crashes + 1
    /\ phase' = "down"
    /\ log' = <<>>
    /\ numid' = [r \in Requests |-> 1]
    /\ numCommits' = 0
    /\ known' = {}
    /\ idx' = {}
    /\ left' = {}
    /\ agent' = Sys
    /\ pending' = [a \in Agents |-> NoRequest]
    /\ UNCHANGED <<clients, disk>>

---------------------------------------------------------------------------
(* knd_repo_restore: reading the journals *)

Boot == /\ phase = "down"
        /\ phase' = "reading"
        /\ UNCHANGED <<clients, disk, agent, idx, left, commits, known, pending, crashes>>

HasFolder(a) == a \in DOMAIN folder /\ folder[a]

\* The folder of agent 0 may be missing; the first other one that is missing
\* ends the search.
SkipAgent_v(a) == FALSE
SkipAgent(a) == ~HasFolder(a) /\ a = Sys

Found(a) == {records[a][i] : i \in DOMAIN records[a]}

\* knd_set_add refuses a number that is there already.
NumbersClash(a) ==
    \/ \E e \in Found(a), f \in idx : e.numid = f.numid
    \/ \E i, j \in DOMAIN records[a] : i # j /\ records[a][i].numid = records[a][j].numid

ReadSkip ==
    /\ phase = "reading"
    /\ SkipAgent(agent)
    /\ agent' = agent + 1
    /\ UNCHANGED <<clients, disk, phase, idx, left, commits, known, pending, crashes>>

ReadAgent ==
    /\ phase = "reading"
    /\ HasFolder(agent)
    /\ ~NumbersClash(agent)
    /\ idx' = idx \cup Found(agent)
    /\ agent' = agent + 1
    /\ UNCHANGED <<clients, disk, phase, left, commits, known, pending, crashes>>

\* "commit #%zu already exists": the repo cannot be opened.
ReadFail ==
    /\ phase = "reading"
    /\ HasFolder(agent)
    /\ NumbersClash(agent)
    /\ phase' = "failed"
    /\ UNCHANGED <<clients, disk, agent, idx, left, commits, known, pending, crashes>>

ReadEnd ==
    /\ phase = "reading"
    /\ ~HasFolder(agent) /\ ~SkipAgent(agent)
    /\ phase' = "applying"
    /\ left' = idx
    /\ UNCHANGED <<clients, disk, agent, idx, commits, known, pending, crashes>>

---------------------------------------------------------------------------
(* knd_apply_commit, called by the traversal of commit_idx.  The id of a   *)
(* commit is its number written least significant digit first; at each     *)
(* node of the trie come the ids that end there, then those that go on, in *)
(* the order of their next digit.                                          *)

VisitedBefore[p \in Numids \X Numids] ==
    LET n == p[1]
        m == p[2]
    IN  IF n < Radix \/ m < Radix THEN n < Radix /\ (m < Radix => n < m)
        ELSE IF n % Radix # m % Radix THEN n % Radix < m % Radix
        ELSE VisitedBefore[<<n \div Radix, m \div Radix>>]

IsNext_v(e) == e \in left
IsNext(e) == /\ e \in left
             /\ \A f \in left \ {e} : VisitedBefore[<<e.numid, f.numid>>]

\* The import of an instance does not confirm the commit again: it keeps its number.
ApplyInst(e) ==
    /\ phase = "applying"
    /\ IsNext(e)
    /\ kind[e.req] = "inst"
    /\ left' = left \ {e}
    /\ numid' = [numid EXCEPT ![e.req] = e.numid]
    /\ log' = Append(log, e.req)
    /\ known' = known \cup {e.req}
    /\ UNCHANGED <<clients, disk, phase, agent, idx, numCommits, pending, crashes>>

\* The import of a class makes the task a commit task again: the commit is
\* numbered, pushed and counted as if it were new, ...
ApplyClass(e) ==
    /\ phase = "applying"
    /\ IsNext(e)
    /\ kind[e.req] = "class" /\ e.req \notin known
    /\ left' = left \ {e}
    /\ PushCommit(e.req, e.numid)
    /\ phase' = "confirmed"
    /\ UNCHANGED <<clients, disk, agent, idx, pending, crashes>>

\* "class already exists": it has two records, of different numbers, and the
\* second cannot be applied.  The traversal ends, and the repo is not opened.
ApplyRefused(e) ==
    /\ phase = "applying"
    /\ IsNext(e)
    /\ kind[e.req] = "class" /\ e.req \in known
    /\ phase' = "failed"
    /\ UNCHANGED <<clients, disk, agent, idx, left, commits, known, pending, crashes>>

\* ... written to the journal of agent 0, ...
ApplyJournal ==
    /\ phase = "confirmed"
    /\ Write(Sys, log[Len(log)])
    /\ phase' = "journaled"
    /\ UNCHANGED <<clients, agent, idx, left, commits, known, pending, crashes>>

\* ... and then pushed again by knd_apply_commit.  It is the head already, so that
\* its prev becomes itself: the commits before it leave the list.
ApplyPush ==
    /\ phase = "journaled"
    /\ log' = <<log[Len(log)]>>
    /\ phase' = "applying"
    /\ UNCHANGED <<clients, disk, agent, idx, left, numid, numCommits, known, pending, crashes>>

ApplyEnd_v ==
    /\ phase = "applying"
    /\ left = {} /\ numCommits = Cardinality(idx)
    /\ phase' = "up"
    /\ UNCHANGED <<clients, disk, agent, idx, left, commits, known, pending, crashes>>

ApplyEnd ==
    /\ phase = "applying"
    /\ left = {}
    /\ numCommits' = Cardinality(idx)
    /\ phase' = "up"
    /\ UNCHANGED <<clients, disk, agent, idx, left, log, numid, known, pending, crashes>>

---------------------------------------------------------------------------

Run == \E a \in Agents : Journal(a) \/ \E k \in Kinds : Accept(a, k)
Read == ReadSkip \/ ReadAgent \/ ReadFail \/ ReadEnd
Apply == \/ \E e \in left : ApplyInst(e) \/ ApplyClass(e) \/ ApplyRefused(e)
         \/ ApplyJournal \/ ApplyPush \/ ApplyEnd
Next == Run \/ Crash \/ Boot \/ Read \/ Apply

Spec == Init /\ [][Next]_vars

---------------------------------------------------------------------------
(* Properties *)

\* The variables hold values of their types, and only what was read is left
\* to be applied.
TypeOK ==
    /\ kind \in Seq(Kinds) /\ Len(kind) <= MaxRequests
    /\ acked \subseteq 1..Len(kind)
    /\ records \in [Agents \cup {Sys} -> Seq(Entries)]
    /\ folder \in [Agents \cup {Sys} -> BOOLEAN]
    /\ phase \in Phases
    /\ agent \in 0..(NumAgents + 1)
    /\ idx \subseteq Entries
    /\ left \subseteq idx
    /\ log \in Seq(Requests)
    /\ numid \in [Requests -> Numids]
    /\ numCommits \in Nat
    /\ known \subseteq Requests
    /\ pending \in [Agents -> Requests \cup {NoRequest}]
    /\ crashes \in 0..MaxCrashes

\* knd_repo.open.c:249-316.  A repo that opens again has the class or the instance
\* of every commit that was acknowledged, whatever was in flight when it stopped, in
\* normal work or in an earlier restore.
AckedSurvive == phase = "up" => acked \subseteq known

\* knd_repo.open.c:143-147 and knd_repo.commit.c:174.  Numbers of commits that
\* were lost may be given again, but no two records of the journals have the
\* same one, so that the journals can always be read.
NumbersUnique ==
    \A a, b \in DOMAIN records : \A i \in DOMAIN records[a], j \in DOMAIN records[b] :
        records[a][i].numid = records[b][j].numid => a = b /\ i = j

\* knd_repo.open.c:304-305, "apply them in timely order": the numbers of the
\* commits in the list increase.
TimelyOrder ==
    \A i, j \in DOMAIN log : i < j => numid[log[i]] < numid[log[j]]

\* An open repo has every acknowledged commit in its list.
AckedListed == phase = "up" => \A r \in acked : \E i \in DOMAIN log : log[i] = r

\* knd_repo.open.c:143-147 and 304-305, knd_repo.commit.c:174.  As long as only
\* instances are created and their ids have one digit, numbers stay unique, and the
\* list has what was acknowledged, in the order of the numbers, after any crash in
\* normal work or in a restore.
InstsInOrder ==
    (\A r \in DOMAIN kind : kind[r] = "inst") /\ Len(kind) < Radix =>
        TypeOK /\ NumbersUnique /\ TimelyOrder /\ AckedListed

\* knd_repo.open.c:304, "all commits are there in the idx": when the journals
\* have been read, what is in any of them is in the index.
AllCommitsIndexed ==
    phase = "applying" =>
        \A a \in DOMAIN records : \A e \in Found(a) : \E f \in idx : f.req = e.req

\* knd_shard_new: the opening of a repo comes to an end.
OpeningEnds == phase = "down" ~> phase \in {"up", "failed"}
=============================================================================
