--------------------------- MODULE RestoreProofs ----------------------------
(***************************************************************************)
(* Proofs about what a shard reads that is opened again: the journals      *)
(* (Restore), the classes of a snapshot (ClassFile), its texts (TextFile)  *)
(* and the values of attributes (ValueFile).                               *)
(*                                                                         *)
(* PART ONE, Restore, for any number of agents, requests and crashes:      *)
(* what was acknowledged is there again after any restart.                 *)
(*                                                                         *)
(* An acknowledged request has a record in a journal, and records stay.    *)
(* When the journals have been read, each request with a record has one    *)
(* in commit_idx; what is in commit_idx and not left to be applied is in   *)
(* the indices; and a journal that is written meanwhile gets what is in    *)
(* commit_idx already.  All this takes that no journal is left out:        *)
(* the search for journals ends at the first agent without a folder, so    *)
(* the theorems are about an arbiter all of whose agents have a folder.    *)
(*                                                                         *)
(* With instances only, restored commits keep their numbers and come back  *)
(* in the order of these, so that the next commit gets a number of its own,*)
(* and the list of commits has all that was acknowledged.                  *)
(*                                                                         *)
(* PART TWO, ClassFile, for any stores that are as Schema leaves them, any *)
(* tasks and any number of classes: a class is read as it was written,     *)
(* whoever reads it at the same time, and reading fails only for a cause.  *)
(*                                                                         *)
(* PART THREE, TextFile, for any texts and languages and any grammar of    *)
(* clauses.  What is shown, kept and read is determined by the record that *)
(* was given (TextInv); the rest is about what becomes of that record when *)
(* it is imported, written and imported again, sentence by sentence.       *)
(*                                                                         *)
(* PART FOUR, ValueFile, for any classes, attributes and values, however   *)
(* deep.  What is at a place of a value that a snapshot keeps has one of   *)
(* nine shapes (Shapes); each is followed through resolving, writing and   *)
(* reading.  What the reader knows at a place (ContextIs) follows from     *)
(* what it knows above it, by induction on the depth.                      *)
(***************************************************************************)
EXTENDS Restore, ClassFile, TextFile, ValueFile, SequenceTheorems, FiniteSetTheorems, WellFoundedInduction, TLAPS

NoGap == Folders = Agents

All == Agents \cup {Sys}
InLog(r) == \E i \in DOMAIN log : log[i] = r
InIdx(r) == \E f \in idx : f.req = r
HasRecord(r) == \E a \in All : \E e \in Found(a) : e.req = r

Types == /\ \E S : log \in Seq(S)
         /\ \E S : records \in [All -> Seq(S)]
         /\ folder \in [All -> BOOLEAN]
         /\ pending \in [Agents -> Nat]
         /\ agent \in 0..(NumAgents + 1)

\* No journal is left out.
Folded == \A a \in All : folder[a] \/ (a = Sys /\ records[a] = <<>>)

\* A commit that was accepted is in the indices, until the process stops.
Accepted == /\ phase # "up" => \A a \in Agents : pending[a] = NoRequest
            /\ \A a \in Agents : pending[a] # NoRequest => pending[a] \in known

ReadSoFar == /\ phase = "down" => agent = Sys
             /\ phase = "reading" => \A a \in All : a < agent => Found(a) \subseteq idx

\* What is restored is restored from the index, and nothing of it is forgotten.
Restoring == {"applying", "confirmed", "journaled"}
Indexed == phase \in Restoring => \A a \in All : \A e \in Found(a) : InIdx(e.req)
Applied == phase \in Restoring => /\ \A e \in idx \ left : e.req \in known
                                  /\ left \subseteq idx
Confirmed == phase \in {"confirmed", "journaled"} => log # <<>> /\ InIdx(log[Len(log)])

Inv == /\ Types /\ Folded /\ Accepted /\ ReadSoFar /\ Indexed /\ Applied /\ Confirmed
       /\ \A r \in acked : HasRecord(r)
       /\ AckedSurvive

---------------------------------------------------------------------------
(* The two writes: to the list of commits, and to a journal. *)

LEMMA AppendLog ==
  ASSUME \E S : log \in Seq(S), NEW r, log' = Append(log, r)
  PROVE  /\ \E S : log' \in Seq(S)
         /\ log' # <<>> /\ log'[Len(log')] = r
         /\ InLog(r)' /\ \A q : InLog(q) => InLog(q)'
<1>1. PICK S : log \in Seq(S)
    OBVIOUS
<1>2. PICK T : T = S \cup {r}
    OBVIOUS
<1>3. log \in Seq(T) /\ r \in T
    BY <1>1, <1>2, SeqMonotonic
<1>4. /\ Append(log, r) \in Seq(T) /\ Len(Append(log, r)) = Len(log) + 1
      /\ \A i \in 1..Len(log) : Append(log, r)[i] = log[i]
      /\ Append(log, r)[Len(log) + 1] = r
    BY <1>3, AppendProperties
<1>5. Len(log) \in Nat /\ DOMAIN log = 1..Len(log) /\ DOMAIN log' = 1..(Len(log) + 1)
    BY <1>3, <1>4, LenProperties
<1>6. Len(log) + 1 \in DOMAIN log' /\ log'[Len(log) + 1] = r /\ log' # <<>>
    BY <1>4, <1>5
<1>7. ASSUME NEW q, InLog(q) PROVE InLog(q)'
    BY <1>4, <1>5, <1>7 DEF InLog
<1> QED BY <1>4, <1>6, <1>7 DEF InLog

LEMMA SameLog == ASSUME UNCHANGED log PROVE \A q : InLog(q) <=> InLog(q)'
    BY DEF InLog

LEMMA WriteRecord ==
  ASSUME Types, NEW a \in All, NEW r, Write(a, r)
  PROVE  /\ \E S : records' \in [All -> Seq(S)]
         /\ folder' \in [All -> BOOLEAN] /\ folder'[a] = TRUE
         /\ \A b \in All \ {a} : records'[b] = records[b] /\ folder'[b] = folder[b]
         /\ \A b \in All : Found(b) \subseteq Found(b)'
         /\ \A b \in All : \A e \in Found(b)' : e \in Found(b) \/ e.req = r
         /\ HasRecord(r)' /\ \A q : HasRecord(q) => HasRecord(q)'
<1>1. PICK S : records \in [All -> Seq(S)]
    BY DEF Types
<1>2. PICK x : x = [req |-> r, numid |-> numid[r]]
    OBVIOUS
<1>3. PICK T : T = S \cup {x}
    OBVIOUS
<1>4. x.req = r /\ x \in T /\ \A b \in All : records[b] \in Seq(T)
    BY <1>1, <1>2, <1>3, SeqMonotonic
<1>5. PICK s : s = records[a]
    OBVIOUS
<1>6. /\ Append(s, x) \in Seq(T) /\ Len(Append(s, x)) = Len(s) + 1
      /\ \A i \in 1..Len(s) : Append(s, x)[i] = s[i]
      /\ Append(s, x)[Len(s) + 1] = x
    BY <1>4, <1>5, AppendProperties
<1>7. /\ records' = [records EXCEPT ![a] = Append(s, x)] /\ folder' = [folder EXCEPT ![a] = TRUE]
    BY <1>2, <1>5 DEF Write
<1>8. /\ records' \in [All -> Seq(T)] /\ records'[a] = Append(s, x)
      /\ \A b \in All \ {a} : records'[b] = records[b]
    BY <1>1, <1>4, <1>6, <1>7
<1>9. /\ folder' \in [All -> BOOLEAN] /\ folder'[a] = TRUE /\ \A b \in All \ {a} : folder'[b] = folder[b]
    BY <1>7 DEF Types
<1>10. Len(s) \in Nat /\ DOMAIN s = 1..Len(s) /\ DOMAIN Append(s, x) = 1..(Len(s) + 1)
    BY <1>4, <1>5, <1>6, LenProperties
<1>11. \A i \in 1..(Len(s) + 1) : i \in 1..Len(s) \/ i = Len(s) + 1
    BY <1>10
<1>12. Found(a) = {s[i] : i \in 1..Len(s)} /\ Found(a)' = {Append(s, x)[i] : i \in 1..(Len(s) + 1)}
    BY <1>5, <1>8, <1>10 DEF Found
<1>13. Found(a) \subseteq Found(a)' /\ x \in Found(a)' /\ \A e \in Found(a)' : e \in Found(a) \/ e = x
    BY <1>6, <1>10, <1>11, <1>12
<1>14. \A b \in All \ {a} : Found(b)' = Found(b)
    BY <1>8 DEF Found
<1>15. \A b \in All : Found(b) \subseteq Found(b)' /\ \A e \in Found(b)' : e \in Found(b) \/ e.req = r
    BY <1>4, <1>13, <1>14
<1>16. HasRecord(r)' /\ \A q : HasRecord(q) => HasRecord(q)'
    BY <1>4, <1>13, <1>15 DEF HasRecord
<1> QED BY <1>8, <1>9, <1>15, <1>16

LEMMA SameRecords ==
  ASSUME UNCHANGED records
  PROVE  (\A b : Found(b)' = Found(b)) /\ \A q : HasRecord(q) <=> HasRecord(q)'
    BY DEF Found, HasRecord

LEMMA SameIdx == ASSUME UNCHANGED idx PROVE \A q : InIdx(q) <=> InIdx(q)'
    BY DEF InIdx

---------------------------------------------------------------------------
(* The steps, one by one. *)

LEMMA Sets == /\ NumAgents \in Nat /\ MaxRequests \in Nat
              /\ All = 0..NumAgents /\ Sys = 0 /\ Sys \notin Agents /\ Sys \in All /\ Agents \subseteq All
    BY RestoreAssumption DEF All, Agents, Sys

LEMMA InitInv == ASSUME NoGap, Init PROVE Inv
<1>1. /\ acked = {} /\ records = [a \in All |-> <<>>] /\ folder = [a \in All |-> a \in Folders]
      /\ phase = "up" /\ agent = 0 /\ log = <<>> /\ pending = [a \in Agents |-> 0]
    BY DEF Init, All, Sys, NoRequest
<1>2. Types
  <2>1. log \in Seq({}) /\ records \in [All -> Seq({})] /\ folder \in [All -> BOOLEAN]
    BY <1>1
  <2>2. pending \in [Agents -> Nat] /\ agent \in 0..(NumAgents + 1)
    BY <1>1, Sets
  <2> QED BY <2>1, <2>2 DEF Types
<1>3. Folded
    BY <1>1 DEF Folded, All, NoGap
<1> QED BY <1>1, <1>2, <1>3 DEF Inv, Accepted, ReadSoFar, Indexed, Applied, Confirmed, AckedSurvive,
                                Restoring, NoRequest

LEMMA AcceptInv == ASSUME Inv, NEW a \in Agents, NEW k, Accept(a, k) PROVE Inv'
<1>1. PICK r : r = Len(kind) + 1
    OBVIOUS
<1>2. /\ phase = "up" /\ r \in Requests /\ log' = Append(log, r) /\ pending' = [pending EXCEPT ![a] = r]
      /\ known' = known \cup {r}
      /\ UNCHANGED <<acked, records, folder, phase, agent, idx, left>>
    BY <1>1 DEF Accept, PushCommit, disk
<1>3. \E S : log' \in Seq(S)
    BY <1>2, AppendLog DEF Inv, Types
<1>4. pending' \in [Agents -> Nat] /\ pending'[a] = r /\ \A b \in Agents \ {a} : pending'[b] = pending[b]
    BY <1>2 DEF Inv, Types, Requests
<1>5. Types' /\ Folded'
    BY <1>2, <1>3, <1>4 DEF Inv, Types, Folded
<1>6. Accepted'
    BY <1>2, <1>4 DEF Inv, Accepted
<1>7. AckedSurvive'
    BY <1>2 DEF Inv, AckedSurvive
<1>8. \A q \in acked' : HasRecord(q)'
    BY <1>2, SameRecords DEF Inv
<1> QED BY <1>2, <1>5, <1>6, <1>7, <1>8 DEF Inv, ReadSoFar, Indexed, Applied, Confirmed, Restoring

LEMMA JournalInv == ASSUME Inv, NEW a \in Agents, Journal(a) PROVE Inv'
<1>1. PICK r : r = pending[a]
    OBVIOUS
<1>2. /\ phase = "up" /\ r # NoRequest /\ Write(a, r) /\ acked' = acked \cup {r}
      /\ pending' = [pending EXCEPT ![a] = NoRequest]
      /\ UNCHANGED <<phase, agent, idx, left, log, known>>
    BY <1>1 DEF Journal, commits
<1>3. /\ \E S : records' \in [All -> Seq(S)]
      /\ folder' \in [All -> BOOLEAN] /\ folder'[a] = TRUE
      /\ \A b \in All \ {a} : records'[b] = records[b] /\ folder'[b] = folder[b]
      /\ HasRecord(r)' /\ \A q : HasRecord(q) => HasRecord(q)'
    BY <1>2, Sets, WriteRecord DEF Inv
<1>4. pending' \in [Agents -> Nat] /\ pending'[a] = NoRequest /\ \A b \in Agents \ {a} : pending'[b] = pending[b]
    BY <1>2 DEF Inv, Types, NoRequest
<1>5. Types' /\ Folded'
    BY <1>2, <1>3, <1>4 DEF Inv, Types, Folded
<1>6. r \in known /\ Accepted'
    BY <1>1, <1>2, <1>4 DEF Inv, Accepted
<1>7. AckedSurvive'
    BY <1>2, <1>6 DEF Inv, AckedSurvive
<1>8. \A q \in acked' : HasRecord(q)'
    BY <1>2, <1>3 DEF Inv
<1> QED BY <1>2, <1>5, <1>6, <1>7, <1>8 DEF Inv, ReadSoFar, Indexed, Applied, Confirmed, Restoring

LEMMA CrashInv == ASSUME Inv, Crash PROVE Inv'
<1>1. /\ phase' = "down" /\ log' = <<>> /\ agent' = Sys /\ pending' = [a \in Agents |-> 0]
      /\ UNCHANGED <<acked, records, folder>>
    BY DEF Crash, clients, disk, NoRequest
<1>2. log' \in Seq({}) /\ pending' \in [Agents -> Nat] /\ agent' \in 0..(NumAgents + 1)
    BY <1>1, Sets
<1>3. Types' /\ Folded'
    BY <1>1, <1>2 DEF Inv, Types, Folded
<1>4. \A q \in acked' : HasRecord(q)'
    BY <1>1, SameRecords DEF Inv
<1> QED BY <1>1, <1>3, <1>4 DEF Inv, Accepted, ReadSoFar, Indexed, Applied, Confirmed, AckedSurvive,
                                Restoring, NoRequest

\* A step that leaves what was written and what was accepted as it is.
LEMMA Quiet ==
  ASSUME Inv, UNCHANGED <<acked, records, folder, pending>>, known \subseteq known', phase # "up", phase' # "up",
         \E S : log' \in Seq(S), agent' \in 0..(NumAgents + 1),
         ReadSoFar', Indexed', Applied', Confirmed'
  PROVE  Inv'
<1>1. Types' /\ Folded' /\ Accepted'
    BY DEF Inv, Types, Folded, Accepted
<1>2. \A q \in acked' : HasRecord(q)'
    BY SameRecords DEF Inv
<1> QED BY <1>1, <1>2 DEF Inv, AckedSurvive

\* The search for journals ends behind the last agent, and has missed none.
LEMMA ReadInv == ASSUME Inv, Boot \/ Read PROVE Inv'
<1>1. agent \in 0..(NumAgents + 1) /\ \E S : log \in Seq(S)
    BY DEF Inv, Types
<1>2. CASE Boot
  <2>1. /\ phase = "down" /\ phase' = "reading"
        /\ UNCHANGED <<acked, records, folder, pending, agent, idx, left, log, known>>
    BY <1>2 DEF Boot, clients, disk, commits
  <2>2. ReadSoFar'
    BY <2>1, Sets DEF Inv, ReadSoFar
  <2> QED BY <1>1, <2>1, <2>2, Quiet DEF Indexed, Applied, Confirmed, Restoring
<1>3. CASE ReadSkip
  <2>1. /\ phase = "reading" /\ ~HasFolder(Sys) /\ agent = Sys /\ agent' = agent + 1
        /\ UNCHANGED <<acked, records, folder, phase, pending, idx, left, log, known>>
    BY <1>3 DEF ReadSkip, SkipAgent, clients, disk, commits
  <2>2. records[Sys] = <<>>
    BY <2>1, Sets DEF Inv, Types, Folded, HasFolder
  <2>3. Found(Sys) = {} /\ \A a : Found(a)' = Found(a)
    BY <2>1, <2>2, SameRecords DEF Found
  <2>4. ReadSoFar'
    <3>1. \A a \in All : a < agent' => a = Sys
      BY <2>1, Sets
    <3> QED BY <2>1, <2>3, <3>1 DEF ReadSoFar
  <2>5. agent' \in 0..(NumAgents + 1)
    BY <2>1, Sets
  <2> QED BY <1>1, <2>1, <2>4, <2>5, Quiet DEF Indexed, Applied, Confirmed, Restoring
<1>4. CASE ReadAgent
  <2>1. /\ phase = "reading" /\ HasFolder(agent) /\ agent' = agent + 1 /\ idx' = idx \cup Found(agent)
        /\ UNCHANGED <<acked, records, folder, phase, pending, left, log, known>>
    BY <1>4 DEF ReadAgent, clients, disk, commits
  <2>2. agent \in 0..NumAgents
    BY <2>1, Sets DEF HasFolder, Inv, Types
  <2>3. ReadSoFar'
    <3>1. \A a \in All : a < agent' => a < agent \/ a = agent
      BY <2>1, <2>2, Sets
    <3> QED BY <2>1, <3>1, SameRecords DEF Inv, ReadSoFar
  <2>4. agent' \in 0..(NumAgents + 1)
    BY <2>1, <2>2, Sets
  <2> QED BY <1>1, <2>1, <2>3, <2>4, Quiet DEF Indexed, Applied, Confirmed, Restoring
<1>5. CASE ReadFail
  <2>1. /\ phase = "reading" /\ phase' = "failed"
        /\ UNCHANGED <<acked, records, folder, pending, agent, idx, left, log, known>>
    BY <1>5 DEF ReadFail, clients, disk, commits
  <2> QED BY <1>1, <2>1, Quiet DEF ReadSoFar, Indexed, Applied, Confirmed, Restoring
<1>6. CASE ReadEnd
  <2>1. /\ phase = "reading" /\ phase' = "applying" /\ left' = idx /\ ~HasFolder(agent) /\ agent # Sys
        /\ UNCHANGED <<acked, records, folder, pending, agent, idx, log, known>>
    BY <1>6 DEF ReadEnd, SkipAgent, clients, disk, commits
  <2>2. agent \notin Agents
    BY <2>1, Sets DEF Inv, Types, Folded, HasFolder
  <2>3. \A a \in All : a < agent
    BY <1>1, <2>1, <2>2, Sets DEF Agents
  <2>4. \A a \in All : Found(a)' \subseteq idx
    BY <2>1, <2>3, SameRecords DEF Inv, ReadSoFar
  <2>5. Indexed'
    BY <2>1, <2>4 DEF Indexed, InIdx
  <2> QED BY <1>1, <2>1, <2>5, Quiet DEF ReadSoFar, Applied, Confirmed
<1> QED BY <1>2, <1>3, <1>4, <1>5, <1>6 DEF Read

\* A commit of the index is applied and pushed, by the restore or by the import.
LEMMA PushInv ==
  ASSUME Inv, NEW e \in left, phase = "applying", phase' \in {"applying", "confirmed"},
         left' = left \ {e}, log' = Append(log, e.req), known' = known \cup {e.req},
         UNCHANGED <<acked, records, folder, pending, agent, idx>>
  PROVE  Inv'
<1>1. PICK r : r = e.req
    OBVIOUS
<1>2. (\E S : log' \in Seq(S)) /\ log' # <<>> /\ log'[Len(log')] = r
    BY <1>1, AppendLog DEF Inv, Types
<1>3. e \in idx /\ InIdx(r) /\ left' \subseteq idx
    BY <1>1 DEF Inv, Applied, Restoring, InIdx
<1>4. Applied'
    BY <1>3 DEF Inv, Applied, Restoring
<1>5. Indexed'
    BY SameRecords, SameIdx DEF Inv, Indexed, Restoring
<1>6. Confirmed'
    BY <1>2, <1>3, SameIdx DEF Confirmed
<1> QED BY <1>2, <1>4, <1>5, <1>6, Quiet DEF ReadSoFar, Inv, Types

LEMMA ApplyInv == ASSUME Inv, Apply PROVE Inv'
<1>1. ASSUME NEW e \in left, ApplyInst(e) \/ ApplyClass(e) PROVE Inv'
  <2>1. /\ phase = "applying" /\ phase' \in {"applying", "confirmed"}
        /\ left' = left \ {e} /\ log' = Append(log, e.req) /\ known' = known \cup {e.req}
        /\ UNCHANGED <<acked, records, folder, pending, agent, idx>>
    BY <1>1 DEF ApplyInst, ApplyClass, PushCommit, clients, disk
  <2> QED BY <2>1, PushInv
<1>2. CASE ApplyJournal
  <2>1. PICK r : r = log[Len(log)]
    OBVIOUS
  <2>2. /\ phase = "confirmed" /\ phase' = "journaled" /\ Write(Sys, r)
        /\ UNCHANGED <<acked, agent, idx, left, log, known, pending>>
    BY <1>2, <2>1 DEF ApplyJournal, clients, commits
  <2>3. /\ \E S : records' \in [All -> Seq(S)]
        /\ folder' \in [All -> BOOLEAN] /\ folder'[Sys] = TRUE
        /\ \A b \in All \ {Sys} : records'[b] = records[b] /\ folder'[b] = folder[b]
        /\ \A b \in All : \A e \in Found(b)' : e \in Found(b) \/ e.req = r
        /\ \A q : HasRecord(q) => HasRecord(q)'
    BY <2>2, Sets, WriteRecord DEF Inv
  <2>4. Types' /\ Folded'
    BY <2>2, <2>3 DEF Inv, Types, Folded
  <2>5. Accepted'
    BY <2>2 DEF Inv, Accepted
  <2>6. InIdx(r) /\ Confirmed'
    BY <2>1, <2>2, SameIdx DEF Inv, Confirmed
  <2>7. Indexed'
    BY <2>2, <2>3, <2>6, SameIdx DEF Inv, Indexed, Restoring
  <2>8. Applied'
    BY <2>2 DEF Inv, Applied, Restoring
  <2>9. \A q \in acked' : HasRecord(q)'
    BY <2>2, <2>3 DEF Inv
  <2> QED BY <2>2, <2>4, <2>5, <2>6, <2>7, <2>8, <2>9 DEF Inv, ReadSoFar, AckedSurvive
<1>3. CASE ApplyPush
  <2>1. PICK r : r = log[Len(log)]
    OBVIOUS
  <2>2. /\ phase = "journaled" /\ phase' = "applying" /\ log' = <<r>>
        /\ UNCHANGED <<acked, records, folder, agent, idx, left, known, pending>>
    BY <1>3, <2>1 DEF ApplyPush, clients, disk
  <2>3. \E S : log' \in Seq(S)
    <3>1. log' \in Seq({r})
      BY <2>2
    <3> QED BY <3>1
  <2>4. Indexed'
    BY <2>2, SameRecords, SameIdx DEF Inv, Indexed, Restoring
  <2>5. Applied'
    BY <2>2 DEF Inv, Applied, Restoring
  <2> QED BY <2>2, <2>3, <2>4, <2>5, Quiet DEF ReadSoFar, Confirmed, Inv, Types
<1>4. CASE ApplyEnd
  <2>1. /\ phase = "applying" /\ phase' = "up" /\ left = {}
        /\ UNCHANGED <<acked, records, folder, agent, idx, left, log, known, pending>>
    BY <1>4 DEF ApplyEnd, clients, disk
  <2>2. Types' /\ Folded' /\ Accepted'
    BY <2>1 DEF Inv, Types, Folded, Accepted
  <2>3. \A q \in acked' : HasRecord(q)'
    BY <2>1, SameRecords DEF Inv
  <2>4. ASSUME NEW q \in acked PROVE q \in known
    <3>1. PICK a \in All : \E e \in Found(a) : e.req = q
      BY DEF Inv, HasRecord
    <3>2. PICK f \in idx : f.req = q
      BY <2>1, <3>1 DEF Inv, Indexed, Restoring, InIdx
    <3> QED BY <2>1, <3>2 DEF Inv, Applied, Restoring
  <2>5. AckedSurvive'
    BY <2>1, <2>4 DEF AckedSurvive
  <2> QED BY <2>1, <2>2, <2>3, <2>5 DEF Inv, ReadSoFar, Indexed, Applied, Confirmed, Restoring
<1>5. ASSUME NEW e \in left, ApplyRefused(e) PROVE Inv'
  <2>1. /\ phase = "applying" /\ phase' = "failed"
        /\ UNCHANGED <<acked, records, folder, agent, idx, left, log, known, pending>>
    BY <1>5 DEF ApplyRefused, clients, disk, commits
  <2> QED BY <2>1, Quiet DEF ReadSoFar, Indexed, Applied, Confirmed, Restoring, Inv, Types
<1> QED BY <1>1, <1>2, <1>3, <1>4, <1>5 DEF Apply

LEMMA StepInv == Inv /\ [Next]_vars => Inv'
<1>1. ASSUME Inv, UNCHANGED vars PROVE Inv'
  <2>1. UNCHANGED <<acked, records, folder, phase, agent, idx, left, log, known, pending>>
    BY <1>1 DEF vars, clients, disk, commits
  <2>2. Types' /\ Folded' /\ Accepted' /\ ReadSoFar' /\ Confirmed'
    BY <1>1, <2>1, SameRecords, SameIdx DEF Inv, Types, Folded, Accepted, ReadSoFar, Confirmed
  <2>3. Indexed' /\ Applied'
    BY <1>1, <2>1, SameRecords, SameIdx DEF Inv, Indexed, Applied
  <2>4. \A q \in acked' : HasRecord(q)'
    BY <1>1, <2>1, SameRecords DEF Inv
  <2> QED BY <1>1, <2>1, <2>2, <2>3, <2>4 DEF Inv, AckedSurvive
<1> QED BY <1>1, AcceptInv, JournalInv, CrashInv, ReadInv, ApplyInv DEF Next, Run

---------------------------------------------------------------------------

\* knd_repo.open.c:249-316.  Where every agent has its folder, a repo that is open has
\* in its indices the class or the instance of every commit that was acknowledged,
\* after any number of crashes, also in the middle of a restore, and whatever was in
\* flight.  (The list of commits may have lost it: ApplyPush.)
THEOREM AckedAreKept == ASSUME NoGap PROVE Spec => []AckedSurvive
<1>1. Init => Inv
    BY InitInv
<1>2. Inv => AckedSurvive
    BY DEF Inv
<1> QED BY <1>1, <1>2, StepInv, PTL DEF Spec

\* knd_repo.open.c:304, "all commits are there in the idx".  Where every agent has its
\* folder, what is in any journal is in commit_idx when the restore begins to apply it,
\* and stays so though the restore of a class writes to a journal itself.
THEOREM IndexComplete == ASSUME NoGap PROVE Spec => []AllCommitsIndexed
<1>1. Init => Inv
    BY InitInv
<1>2. Inv => AllCommitsIndexed
  <2>1. ASSUME Inv, phase = "applying", NEW a \in DOMAIN records, NEW e \in Found(a)
        PROVE  \E f \in idx : f.req = e.req
    <3>1. a \in All
      BY <2>1 DEF Inv, Types
    <3> QED BY <2>1, <3>1 DEF Inv, Indexed, Restoring, InIdx
  <2> QED BY <2>1 DEF AllCommitsIndexed
<1> QED BY <1>1, <1>2, StepInv, PTL DEF Spec

---------------------------------------------------------------------------
(* Instances only, and fewer commits than the radix: the trie is walked in *)
(* the order of the numbers, so the last commit that is restored has the   *)
(* highest number, and the next one gets a new number.                     *)

Calm == (\A r \in DOMAIN kind : kind[r] = "inst") /\ Len(kind) < Radix

\* Numbers do not run ahead of the requests.
Small == \A a \in All : \A e \in Found(a) : e.numid <= e.req /\ e.req <= Len(kind)
LogSmall == \A i \in DOMAIN log : numid[log[i]] <= log[i] /\ log[i] <= Len(kind)
Fresh == \A r \in Requests : r > Len(kind) => numid[r] = 1

\* No two records have the request, or the number.
OneEach == \A a, b \in All : \A i \in DOMAIN records[a], j \in DOMAIN records[b] :
    records[a][i].req = records[b][j].req \/ records[a][i].numid = records[b][j].numid => a = b /\ i = j

Quiescent == phase \notin {"up", "applying"} => log = <<>> /\ \A r \in Requests : numid[r] = 1

\* The running shard: its journals say of its commits what they are; what is about to
\* be written is in the list, and in none of them.
Awaited == \A a \in Agents : pending[a] # NoRequest => InLog(pending[a])
Journaled == phase = "up" =>
    /\ Awaited
    /\ \A a \in All : \A e \in Found(a) : InLog(e.req) /\ numid[e.req] = e.numid
    /\ \A a \in Agents : pending[a] # NoRequest =>
          /\ \A b \in All : \A e \in Found(b) : e.req # pending[a]
          /\ \A b \in Agents \ {a} : pending[b] # pending[a]

\* The index has the records, and its lowest number is still to be applied.
IdxRight == IsFiniteSet(idx) /\ \A e \in idx : \E a \in All : e \in Found(a)
Ascending == phase = "applying" =>
    /\ \A a \in All : Found(a) \subseteq idx
    /\ \A e \in idx \ left : InLog(e.req) /\ numid[e.req] = e.numid
    /\ \A i \in DOMAIN log : \E e \in idx \ left : e.req = log[i]
    /\ \A i \in DOMAIN log : \A e \in left : numid[log[i]] < e.numid

Ordered == /\ phase \notin {"confirmed", "journaled"}
           /\ Small /\ LogSmall /\ Fresh /\ OneEach /\ Quiescent /\ Journaled /\ IdxRight /\ Ascending
           /\ TimelyOrder

Order == TypeOK /\ Inv /\ Ordered

LEMMA Numbers ==
  /\ {MaxRequests, MaxCrashes, Radix, NumAgents} \subseteq Nat
  /\ Requests \subseteq Nat \ {0} /\ Numids \subseteq Nat \ {0} /\ Requests \subseteq Numids
  /\ \A r \in Requests : \A n \in Nat : 1 <= n /\ n <= r => n \in Requests /\ n \in Numids
<1>1. MaxRequests \in Nat /\ MaxCrashes \in Nat /\ Radix \in Nat /\ NumAgents \in Nat
    BY RestoreAssumption
<1>2. MaxRequests <= MaxRequests * (MaxCrashes + 2)
  <2>1. ASSUME NEW m \in Nat, NEW k \in Nat PROVE m <= m * (k + 2)
    <3>1. m * (k + 2) = m * k + m + m /\ m * k \in Nat
      OBVIOUS
    <3> QED BY <3>1
  <2> QED BY <1>1, <2>1
<1>3. MaxRequests * (MaxCrashes + 2) \in Nat
    BY <1>1
<1> QED BY <1>1, <1>2, <1>3 DEF Requests, Numids

\* Induction, of sets of numbers: the smallest one that is not in T has its
\* predecessor in T.
LEMMA NatMin == ASSUME NEW T, T \subseteq Nat, T # {} PROVE \E x \in T : \A y \in T : x <= y
<1>1. PICK R : R = OpToRel(<, Nat)
    OBVIOUS
<1>2. IsWellFoundedOn(R, Nat)
    BY <1>1, NatLessThanWellFounded
<1>3. PICK x \in T : \A y \in T : ~ (<<y, x>> \in R)
    BY <1>2, WFMin
<1>4. ASSUME NEW a \in Nat, NEW b \in Nat, a < b PROVE <<a, b>> \in R
    BY <1>1, <1>4 DEF OpToRel
<1>5. \A y \in T : ~ (y < x)
    BY <1>3, <1>4
<1> QED BY <1>5

LEMMA UpTo ==
  ASSUME NEW n \in Nat, NEW T, 0 \in T, \A k \in 1..n : k - 1 \in T => k \in T
  PROVE  n \in T
<1> SUFFICES ASSUME n \notin T PROVE FALSE
    OBVIOUS
<1>0. PICK U : U = {k \in 0..n : k \notin T}
    OBVIOUS
<1>1. PICK x \in U : \A y \in U : x <= y
  <2>1. U \subseteq Nat /\ n \in U
    BY <1>0
  <2> QED BY <2>1, NatMin
<1>2. x \in 1..n /\ x - 1 \in 0..n /\ x - 1 < x
    BY <1>0, <1>1
<1>3. x - 1 \notin U
    BY <1>0, <1>1, <1>2
<1> QED BY <1>0, <1>1, <1>2, <1>3

LEMMA Division == ASSUME NEW n \in Nat, NEW r \in Nat, 2 <= r, r <= n
                  PROVE  n \div r \in Nat /\ 1 <= n \div r /\ n \div r < n
<1>1. PICK q : q = n \div r
    OBVIOUS
<1>2. q \in Int /\ r * q <= n /\ n < r * q + r
    BY <1>1
<1>3. 1 <= q
    <2> SUFFICES ASSUME q <= 0 PROVE FALSE
      BY <1>2
    <2>1. r * q <= 0
      BY <1>2
    <2> QED BY <1>2, <2>1
<1>4. q < n
    <2>1. q + q <= r * q
      BY <1>2, <1>3
    <2> QED BY <1>2, <1>3, <2>1
<1> QED BY <1>1, <1>2, <1>3, <1>4

\* The recursion of VisitedBefore ends, as the numbers get smaller.
LEMMA Visited ==
  \A n, m \in Numids :
     VisitedBefore[<<n, m>>] =
        IF n < Radix \/ m < Radix THEN n < Radix /\ (m < Radix => n < m)
        ELSE IF n % Radix # m % Radix THEN n % Radix < m % Radix
        ELSE VisitedBefore[<<n \div Radix, m \div Radix>>]
<1> DEFINE Step(g, n, m) ==
             IF n < Radix \/ m < Radix THEN n < Radix /\ (m < Radix => n < m)
             ELSE IF n % Radix # m % Radix THEN n % Radix < m % Radix
             ELSE g[<<n \div Radix, m \div Radix>>]
       Body(g) == [p \in Numids \X Numids |-> Step(g, p[1], p[2])]
       Upto(k) == \E g : \A n, m \in Numids : n <= k => g[<<n, m>>] = Step(g, n, m)
<1>1. VisitedBefore = CHOOSE g : g = Body(g)
    BY DEF VisitedBefore
<1>2. PICK K \in Nat : Numids = 1..K
    BY Numbers DEF Numids
<1>3. Radix \in Nat /\ 2 <= Radix
    BY RestoreAssumption
<1>4. ASSUME NEW n \in Numids, NEW m \in Numids, ~(n < Radix), ~(m < Radix)
      PROVE  n \div Radix \in Numids /\ m \div Radix \in Numids /\ n \div Radix < n
  <2>1. n \in Nat /\ m \in Nat /\ n <= K /\ m <= K
    BY <1>2
  <2>2. n \div Radix \in Nat /\ 1 <= n \div Radix /\ n \div Radix < n
    BY <1>3, <1>4, <2>1, Division
  <2>3. m \div Radix \in Nat /\ 1 <= m \div Radix /\ m \div Radix < m
    BY <1>3, <1>4, <2>1, Division
  <2> HIDE DEF Step
  <2> QED BY <1>2, <2>1, <2>2, <2>3
<1>5. Upto(K)
  <2>1. PICK T : T = {k \in 0..K : Upto(k)}
    OBVIOUS
  <2>2. 0 \in T
    <3>1. Upto(0)
      BY <1>2
    <3> HIDE DEF Upto
    <3> QED BY <2>1, <3>1
  <2>3. ASSUME NEW k \in 1..K, k - 1 \in T PROVE k \in T
    <3>1. PICK g : \A n, m \in Numids : n <= k - 1 => g[<<n, m>>] = Step(g, n, m)
      BY <2>1, <2>3
    <3>2. PICK h : h = [p \in Numids \X Numids |-> Step(g, p[1], p[2])]
      OBVIOUS
    <3>3. \A n, m \in Numids : h[<<n, m>>] = Step(g, n, m)
      BY <3>2
    <3>4. ASSUME NEW n \in Numids, NEW m \in Numids, n <= k PROVE h[<<n, m>>] = Step(h, n, m)
      <4>1. CASE n < Radix \/ m < Radix \/ n % Radix # m % Radix
        BY <3>3, <4>1
      <4>2. CASE ~(n < Radix) /\ ~(m < Radix) /\ n % Radix = m % Radix
        <5>1. PICK i, j : i = n \div Radix /\ j = m \div Radix
          OBVIOUS
        <5>2. i \in Numids /\ j \in Numids /\ i < n
          BY <1>4, <4>2, <5>1
        <5>3. i <= k - 1
          BY <1>2, <3>4, <5>2
        <5>4. g[<<i, j>>] = Step(g, i, j) /\ h[<<i, j>>] = Step(g, i, j)
          BY <3>1, <3>3, <5>2, <5>3
        <5>5. Step(g, n, m) = g[<<i, j>>] /\ Step(h, n, m) = h[<<i, j>>]
          BY <4>2, <5>1
        <5> HIDE DEF Step
        <5> QED BY <3>3, <5>4, <5>5
      <4> QED BY <4>1, <4>2
    <3>5. Upto(k)
      <4> HIDE DEF Step
      <4> QED BY <3>4
    <3> HIDE DEF Upto
    <3> QED BY <2>1, <2>3, <3>5
  <2> HIDE DEF Upto
  <2>4. K \in T
    BY <2>2, <2>3, UpTo
  <2> QED BY <2>1, <2>4
<1>6. PICK g : \A n, m \in Numids : g[<<n, m>>] = Step(g, n, m)
  <2> HIDE DEF Step
  <2> QED BY <1>2, <1>5
<1>7. PICK f : f = [p \in Numids \X Numids |-> g[p]]
    OBVIOUS
<1>8. \A n, m \in Numids : f[<<n, m>>] = Step(f, n, m)
  <2> SUFFICES ASSUME NEW n \in Numids, NEW m \in Numids PROVE f[<<n, m>>] = Step(f, n, m)
    OBVIOUS
  <2>1. f[<<n, m>>] = Step(g, n, m)
    <3> HIDE DEF Step
    <3> QED BY <1>6, <1>7
  <2>2. Step(g, n, m) = Step(f, n, m)
    <3>1. ~(n < Radix) /\ ~(m < Radix) => f[<<n \div Radix, m \div Radix>>] = g[<<n \div Radix, m \div Radix>>]
      BY <1>4, <1>7
    <3> QED BY <3>1
  <2> HIDE DEF Step
  <2> QED BY <2>1, <2>2
<1>9. f = Body(f)
  <2>1. \A p \in Numids \X Numids : p = <<p[1], p[2]>> /\ p[1] \in Numids /\ p[2] \in Numids
    OBVIOUS
  <2> HIDE DEF Step
  <2>2. \A p \in Numids \X Numids : f[p] = Step(f, p[1], p[2])
    BY <1>8, <2>1
  <2> QED BY <1>7, <2>2
<1>10. VisitedBefore = Body(VisitedBefore)
  <2> HIDE DEF Body
  <2> QED BY <1>1, <1>9
<1>11. ASSUME NEW n \in Numids, NEW m \in Numids PROVE VisitedBefore[<<n, m>>] = Step(VisitedBefore, n, m)
  <2>1. <<n, m>> \in Numids \X Numids /\ <<n, m>>[1] = n /\ <<n, m>>[2] = m
    OBVIOUS
  <2>2. Body(VisitedBefore)[<<n, m>>] = Step(VisitedBefore, <<n, m>>[1], <<n, m>>[2])
    BY <2>1
  <2> HIDE DEF Body, Step
  <2> QED BY <1>10, <2>1, <2>2
<1> QED BY <1>11

\* The ids of one digit come in the order of the numbers.
LEMMA InOrder == \A n, m \in Numids : n < Radix /\ m < Radix => (VisitedBefore[<<n, m>>] <=> n < m)
    BY Visited

\* Within the list a number says which commit it is.
LEMMA NumberSays ==
  ASSUME Order, NEW p, NEW q, InLog(p), InLog(q), numid[p] = numid[q]
  PROVE  p = q
<1>1. PICK i \in DOMAIN log : log[i] = p
    BY DEF InLog
<1>2. PICK j \in DOMAIN log : log[j] = q
    BY DEF InLog
<1>3. log \in Seq(Requests) /\ numid \in [Requests -> Numids]
    BY DEF Order, TypeOK
<1>4. i \in Nat /\ j \in Nat /\ p \in Requests /\ q \in Requests
    BY <1>1, <1>2, <1>3
<1>5. numid[p] \in Nat /\ numid[q] \in Nat
    BY <1>3, <1>4, Numbers
<1>6. ~(i < j) /\ ~(j < i)
    BY <1>1, <1>2, <1>5 DEF Order, Ordered, TimelyOrder
<1> QED BY <1>1, <1>2, <1>4, <1>6

\* A record is a request and a number.
LEMMA FoundIs ==
  ASSUME Order, NEW a \in All
  PROVE  /\ Found(a) \subseteq Entries
         /\ \A e \in Found(a) : e.req \in Requests /\ e.numid \in Numids /\ e.numid <= e.req /\ e.req <= Len(kind)
<1>1. records[a] \in Seq(Entries)
    BY DEF Order, TypeOK, All
<1>2. Found(a) \subseteq Entries
    BY <1>1 DEF Found
<1> QED BY <1>2 DEF Order, Ordered, Small, Entries

LEMMA OneEntry ==
  ASSUME Order, NEW a \in All, NEW b \in All, NEW e \in Found(a), NEW f \in Found(b),
         e.req = f.req \/ e.numid = f.numid
  PROVE  e = f
    BY DEF Order, Ordered, OneEach, Found

\* Only instances are created.
LEMMA KindsAre == ASSUME Order, Calm
                  PROVE  /\ Len(kind) \in 0..MaxRequests
                         /\ \A a \in All : \A e \in Found(a) : kind[e.req] = "inst"
<1>1. kind \in Seq(Kinds) /\ Len(kind) <= MaxRequests
    BY DEF Order, TypeOK
<1>2. Len(kind) \in Nat /\ \A i \in 1..Len(kind) : kind[i] = "inst"
    BY <1>1 DEF Calm
<1>3. ASSUME NEW a \in All, NEW e \in Found(a) PROVE kind[e.req] = "inst"
  <2>1. e.req \in Nat \ {0} /\ e.req <= Len(kind)
    BY FoundIs, Numbers
  <2> QED BY <1>2, <2>1
<1> QED BY <1>1, <1>2, <1>3, Numbers

LEMMA InitOrder == ASSUME NoGap, Init PROVE Order
<1>1. Inv
    BY InitInv
<1>2. /\ kind = <<>> /\ acked = {} /\ records = [a \in All |-> <<>>] /\ folder = [a \in All |-> a \in Folders]
      /\ phase = "up" /\ agent = 0 /\ idx = {} /\ left = {} /\ log = <<>> /\ numid = [r \in Requests |-> 1]
      /\ numCommits = 0 /\ known = {} /\ pending = [a \in Agents |-> 0] /\ crashes = 0
    BY DEF Init, All, Sys, NoRequest
<1>3. MaxRequests \in Nat /\ MaxCrashes \in Nat /\ NumAgents \in Nat /\ Len(<<>>) = 0
    BY Numbers
<1>4. TypeOK
  <2>1. kind \in Seq(Kinds) /\ Len(kind) <= MaxRequests /\ acked \subseteq 1..Len(kind) /\ log \in Seq(Requests)
    BY <1>2, <1>3
  <2>2. records \in [All -> Seq(Entries)] /\ folder \in [All -> BOOLEAN] /\ phase \in Phases
    BY <1>2 DEF Phases
  <2>3. numid \in [Requests -> Numids]
    <3>1. \A r \in Requests : 1 \in Numids
      BY Numbers
    <3> QED BY <1>2, <3>1
  <2>4. pending \in [Agents -> Requests \cup {NoRequest}]
    BY <1>2 DEF NoRequest
  <2>5. agent \in 0..(NumAgents + 1) /\ idx \subseteq Entries /\ left \subseteq idx /\ numCommits \in Nat /\ crashes \in 0..MaxCrashes
        /\ known \subseteq Requests
    BY <1>2, <1>3
  <2> QED BY <2>1, <2>2, <2>3, <2>4, <2>5 DEF TypeOK, All
<1>5. \A a \in All : Found(a) = {} /\ DOMAIN records[a] = {}
    BY <1>2 DEF Found
<1>6. Ordered
    BY <1>2, <1>5, FS_EmptySet DEF Ordered, Small, LogSmall, Fresh, OneEach, Quiescent, Journaled, Awaited, IdxRight,
                        Ascending, TimelyOrder, NoRequest
<1> QED BY <1>1, <1>4, <1>6 DEF Order

\* A new commit: its number is above those in the list, and not above its place among
\* the requests.
LEMMA AcceptOrder == ASSUME NoGap, Calm, Order, NEW a \in Agents, NEW k \in Kinds, Accept(a, k)
                     PROVE  TypeOK' /\ Ordered'
<1>1. PICK r, n, L : r = Len(kind) + 1 /\ n = NextNumid(numid[r]) /\ L = Len(log)
    OBVIOUS
<1>2. /\ phase = "up" /\ r \in Requests /\ kind' = Append(kind, k) /\ pending[a] = NoRequest
      /\ known' = known \cup {r}
      /\ numid' = [numid EXCEPT ![r] = n] /\ log' = Append(log, r) /\ numCommits' = numCommits + 1
      /\ pending' = [pending EXCEPT ![a] = r]
      /\ UNCHANGED <<acked, records, folder, phase, agent, idx, left, crashes>>
    BY <1>1 DEF Accept, PushCommit, disk
<1>3. /\ kind \in Seq(Kinds) /\ Len(kind) \in Nat /\ log \in Seq(Requests) /\ L \in Nat
      /\ numid \in [Requests -> Numids] /\ pending \in [Agents -> Requests \cup {NoRequest}]
    BY <1>1 DEF Order, TypeOK
<1>4. kind' \in Seq(Kinds) /\ Len(kind') = r
    BY <1>1, <1>2, <1>3
<1>5. /\ log' \in Seq(Requests) /\ DOMAIN log = 1..L /\ DOMAIN log' = 1..(L + 1) /\ log'[L + 1] = r
      /\ \A i \in 1..L : log'[i] = log[i]
      /\ \A i \in 1..(L + 1) : i \in 1..L \/ i = L + 1
    BY <1>1, <1>2, <1>3
<1>6. \A i \in 1..L : log[i] \in Requests /\ log[i] # r /\ log[i] <= Len(kind) /\ numid[log[i]] <= log[i]
                      /\ numid[log[i]] \in Nat /\ log[i] \in Nat
  <2> SUFFICES ASSUME NEW i \in 1..L
      PROVE  log[i] \in Requests /\ log[i] # r /\ log[i] <= Len(kind) /\ numid[log[i]] <= log[i]
             /\ numid[log[i]] \in Nat /\ log[i] \in Nat
    OBVIOUS
  <2>1. log[i] \in Requests /\ log[i] <= Len(kind) /\ numid[log[i]] <= log[i]
    BY <1>3, <1>5, SMTT(20) DEF Order, Ordered, LogSmall
  <2>2. log[i] \in Nat /\ numid[log[i]] \in Nat
    BY <1>3, <2>1, Numbers
  <2> QED BY <1>1, <1>3, <2>1, <2>2
<1>7. n \in Nat /\ 1 <= n /\ n <= r /\ \A i \in 1..L : numid[log[i]] < n
  <2>1. CASE L = 0
    <3>1. n = numid[r] /\ numid[r] = 1
      <4>1. log = <<>>
        BY <1>3, <2>1, <1>1
      <4>2. r > Len(kind)
        BY <1>1, <1>3
      <4> QED BY <1>1, <1>2, <4>1, <4>2 DEF NextNumid, Order, Ordered, Fresh
    <3>2. r \in Nat /\ 1 <= r
      BY <1>1, <1>3
    <3> QED BY <2>1, <3>1, <3>2
  <2>2. CASE L # 0
    <3>1. log # <<>> /\ L \in 1..L
      BY <1>1, <1>3, <2>2
    <3>2. n = numid[log[L]] + 1
      BY <1>1, <3>1 DEF NextNumid
    <3>3. \A i \in 1..L : i < L => numid[log[i]] < numid[log[L]]
      BY <1>5, <3>1 DEF Order, Ordered, TimelyOrder
    <3>4. ASSUME NEW i \in 1..L PROVE numid[log[i]] < n
      <4>1. i < L \/ i = L
        BY <1>3
      <4> QED BY <1>6, <3>1, <3>2, <3>3, <4>1
    <3> QED BY <1>1, <1>3, <1>6, <3>1, <3>2, <3>4
  <2> QED BY <2>1, <2>2
<1>8. /\ numid' \in [Requests -> Numids] /\ numid'[r] = n
      /\ \A q \in Requests : q # r => numid'[q] = numid[q]
    BY <1>2, <1>3, <1>7, Numbers
<1>9. pending' \in [Agents -> Requests \cup {NoRequest}] /\ pending'[a] = r
      /\ \A b \in Agents \ {a} : pending'[b] = pending[b]
    BY <1>2, <1>3
<1>10. TypeOK'
  <2>1. Len(kind') <= MaxRequests /\ acked' \subseteq 1..Len(kind') /\ numCommits' \in Nat
    <3>1. r <= MaxRequests
      BY <1>2 DEF Requests
    <3>2. acked \subseteq 1..Len(kind) /\ numCommits \in Nat
      BY DEF Order, TypeOK
    <3> QED BY <1>1, <1>2, <1>3, <1>4, <3>1, <3>2
  <2> QED BY <1>2, <1>4, <1>5, <1>8, <1>9, <2>1 DEF Order, TypeOK
<1>11. (\A b : Found(b)' = Found(b)) /\ \A q : InLog(q) => InLog(q)'
  <2>1. \A q : InLog(q) => InLog(q)'
    BY <1>2, <1>3, AppendLog
  <2> QED BY <1>2, <2>1, SameRecords
<1>12. ASSUME NEW b \in All, NEW e \in Found(b)
       PROVE  /\ e.req \in Requests /\ e.req # r /\ e.numid <= e.req /\ e.req <= Len(kind) /\ e.req <= r
              /\ numid'[e.req] = numid[e.req] /\ e.numid \in Nat
  <2>1. e.req \in Requests /\ e.numid \in Numids /\ e.numid <= e.req /\ e.req <= Len(kind)
    BY FoundIs
  <2>2. e.req \in Nat /\ e.numid \in Nat
    BY <2>1, Numbers
  <2>3. e.req # r /\ e.req <= r
    BY <1>1, <1>3, <2>1, <2>2
  <2> QED BY <1>8, <2>1, <2>2, <2>3
<1>13. Small'
    BY <1>4, <1>11, <1>12 DEF Small
<1>14. LogSmall'
  <2> SUFFICES ASSUME NEW i \in 1..(L + 1) PROVE numid'[log'[i]] <= log'[i] /\ log'[i] <= r
    BY <1>4, <1>5 DEF LogSmall
  <2>1. CASE i = L + 1
    BY <1>1, <1>3, <1>5, <1>7, <1>8, <2>1
  <2>2. CASE i \in 1..L
    BY <1>1, <1>3, <1>5, <1>6, <1>8, <2>2
  <2> QED BY <1>5, <2>1, <2>2
<1>15. Fresh'
  <2> SUFFICES ASSUME NEW q \in Requests, q > r PROVE numid'[q] = 1
    BY <1>4 DEF Fresh
  <2>1. q # r /\ q > Len(kind)
    BY <1>1, <1>3, Numbers
  <2> QED BY <1>8, <2>1 DEF Order, Ordered, Fresh
<1>16. TimelyOrder'
  <2> SUFFICES ASSUME NEW i \in 1..(L + 1), NEW j \in 1..(L + 1), i < j
      PROVE  numid'[log'[i]] < numid'[log'[j]]
    BY <1>5 DEF TimelyOrder
  <2>1. i \in 1..L
    BY <1>3
  <2>2. numid'[log'[i]] = numid[log[i]]
    BY <1>5, <1>6, <1>8, <2>1
  <2>3. CASE j = L + 1
    BY <1>5, <1>7, <1>8, <2>1, <2>2, <2>3
  <2>4. CASE j \in 1..L
    <3>1. numid'[log'[j]] = numid[log[j]]
      BY <1>5, <1>6, <1>8, <2>4
    <3> QED BY <1>5, <2>1, <2>2, <2>4, <3>1 DEF Order, Ordered, TimelyOrder
  <2> QED BY <1>5, <2>3, <2>4
<1>17. Journaled'
  <2>1. \A b \in All : \A e \in Found(b)' : InLog(e.req)' /\ numid'[e.req] = e.numid
    BY <1>2, <1>11, <1>12 DEF Order, Ordered, Journaled
  <2>2. ASSUME NEW b \in Agents \ {a}, pending[b] # NoRequest PROVE pending[b] # r
    <3>1. PICK i \in DOMAIN log : log[i] = pending[b]
      BY <1>2, <2>2 DEF Order, Ordered, Journaled, Awaited, InLog
    <3> QED BY <1>5, <1>6, <3>1
  <2>3. r # NoRequest
    BY <1>2, Numbers DEF NoRequest
  <2>4. ASSUME NEW b \in Agents, pending'[b] # NoRequest
        PROVE  /\ \A c \in All : \A e \in Found(c)' : e.req # pending'[b]
               /\ \A c \in Agents \ {b} : pending'[c] # pending'[b]
    <3>1. CASE b = a
      BY <1>9, <1>11, <1>12, <2>2, <2>3, <3>1
    <3>2. CASE b # a
      <4>1. pending'[b] = pending[b]
        BY <1>9, <3>2
      <4>2. /\ \A c \in All : \A e \in Found(c) : e.req # pending[b]
            /\ \A c \in Agents \ {b} : pending[c] # pending[b]
        BY <1>2, <2>4, <4>1 DEF Order, Ordered, Journaled
      <4>3. pending[b] # r
        BY <2>2, <2>4, <3>2, <4>1
      <4> QED BY <1>9, <1>11, <4>1, <4>2, <4>3
    <3> QED BY <3>1, <3>2
  <2>5. Awaited'
    <3>1. L + 1 \in DOMAIN log'
      BY <1>3, <1>5
    <3>2. ASSUME NEW b \in Agents, pending'[b] # NoRequest PROVE \E i \in DOMAIN log' : log'[i] = pending'[b]
      <4>1. CASE b = a
        BY <1>5, <1>9, <3>1, <4>1
      <4>2. CASE b # a
        <5>1. PICK i \in DOMAIN log : log[i] = pending[b]
          BY <1>2, <1>9, <3>2, <4>2 DEF Order, Ordered, Journaled, Awaited, InLog
        <5> QED BY <1>3, <1>5, <1>9, <4>2, <5>1
      <4> QED BY <4>1, <4>2
    <3> QED BY <3>2 DEF Awaited, InLog
  <2> QED BY <2>1, <2>4, <2>5 DEF Journaled
<1>18. OneEach' /\ Quiescent' /\ Ascending' /\ IdxRight'
    BY <1>2, <1>11 DEF Order, Ordered, OneEach, Quiescent, Ascending, IdxRight
<1> QED BY <1>2, <1>10, <1>13, <1>14, <1>15, <1>16, <1>17, <1>18 DEF Ordered

\* The new record is of a commit that no journal has, nor its number: the numbers in
\* the list are all different.
LEMMA JournalOrder == ASSUME NoGap, Calm, Order, NEW a \in Agents, Journal(a) PROVE TypeOK' /\ Ordered'
<1>1. PICK r, x : r = pending[a] /\ x = [req |-> r, numid |-> numid[r]]
    OBVIOUS
<1>2. PICK s, n : s = records[a] /\ n = Len(s)
    OBVIOUS
<1>3. /\ phase = "up" /\ r # NoRequest /\ acked' = acked \cup {r}
      /\ records' = [records EXCEPT ![a] = Append(s, x)] /\ folder' = [folder EXCEPT ![a] = TRUE]
      /\ pending' = [pending EXCEPT ![a] = NoRequest]
      /\ UNCHANGED <<kind, phase, agent, idx, left, log, numid, numCommits, known, crashes>>
    BY <1>1, <1>2 DEF Journal, commits, Write
<1>4. /\ a \in All /\ records \in [All -> Seq(Entries)] /\ folder \in [All -> BOOLEAN]
      /\ pending \in [Agents -> Requests \cup {NoRequest}] /\ numid \in [Requests -> Numids]
      /\ log \in Seq(Requests)
    BY Sets DEF Order, TypeOK, All
<1>5. r \in Requests /\ x \in Entries /\ x.req = r /\ x.numid = numid[r]
    BY <1>1, <1>3, <1>4 DEF Entries
<1>6. /\ n \in Nat /\ s \in Seq(Entries) /\ DOMAIN s = 1..n
      /\ Append(s, x) \in Seq(Entries) /\ DOMAIN Append(s, x) = 1..(n + 1)
      /\ Append(s, x)[n + 1] = x /\ \A i \in 1..n : Append(s, x)[i] = s[i]
      /\ \A i \in 1..(n + 1) : i \in 1..n \/ i = n + 1
    BY <1>2, <1>4, <1>5
<1>7. /\ records' \in [All -> Seq(Entries)] /\ records'[a] = Append(s, x)
      /\ \A b \in All \ {a} : records'[b] = records[b]
    BY <1>3, <1>4, <1>6
<1>8. folder' \in [All -> BOOLEAN] /\ pending' \in [Agents -> Requests \cup {NoRequest}]
      /\ pending'[a] = NoRequest /\ \A b \in Agents \ {a} : pending'[b] = pending[b]
    BY <1>3, <1>4
<1>9. InLog(r) /\ r <= Len(kind) /\ numid[r] <= r
  <2>1. InLog(r)
    BY <1>1, <1>3 DEF Order, Ordered, Journaled, Awaited
  <2> QED BY <2>1 DEF InLog, Order, Ordered, LogSmall
<1>10. TypeOK'
  <2>1. acked' \subseteq 1..Len(kind')
    <3>1. r \in Nat \ {0} /\ Len(kind) \in Nat
      BY <1>5, KindsAre, Numbers
    <3> QED BY <1>3, <1>9, <3>1 DEF Order, TypeOK
  <2> QED BY <1>3, <1>7, <1>8, <2>1 DEF Order, TypeOK, All
\* What the records are now, place by place.
<1>11. ASSUME NEW b \in All, NEW i \in DOMAIN records'[b]
       PROVE  \/ i \in DOMAIN records[b] /\ records'[b][i] = records[b][i] /\ records[b][i] \in Found(b)
              \/ b = a /\ i = n + 1 /\ records'[b][i] = x
    BY <1>2, <1>6, <1>7 DEF Found
<1>12. ASSUME NEW b \in All, NEW e \in Found(b)' PROVE e \in Found(b) \/ e = x
    BY <1>11 DEF Found
<1>13. ASSUME NEW b \in All, NEW e \in Found(b) PROVE e.req # r /\ e.numid # numid[r]
  <2>1. InLog(e.req) /\ numid[e.req] = e.numid /\ e.req # r
    BY <1>1, <1>3 DEF Order, Ordered, Journaled
  <2> QED BY <1>9, <2>1, NumberSays
<1>14. OneEach'
  <2> SUFFICES ASSUME NEW b \in All, NEW c \in All, NEW i \in DOMAIN records'[b], NEW j \in DOMAIN records'[c],
                      records'[b][i].req = records'[c][j].req \/ records'[b][i].numid = records'[c][j].numid
      PROVE  b = c /\ i = j
    BY DEF OneEach
  <2>1. CASE /\ i \in DOMAIN records[b] /\ records'[b][i] = records[b][i]
             /\ j \in DOMAIN records[c] /\ records'[c][j] = records[c][j]
    BY <2>1 DEF Order, Ordered, OneEach
  <2>2. CASE b = a /\ i = n + 1 /\ records'[b][i] = x
    BY <1>5, <1>11, <1>13, <2>2
  <2>3. CASE c = a /\ j = n + 1 /\ records'[c][j] = x
    BY <1>5, <1>11, <1>13, <2>3
  <2> QED BY <1>11, <2>1, <2>2, <2>3
<1>15. Small'
    BY <1>3, <1>5, <1>9, <1>12 DEF Order, Ordered, Small
<1>16. \A q : InLog(q) <=> InLog(q)'
    BY <1>3, SameLog
<1>17. Journaled'
  <2>1. \A b \in All : \A e \in Found(b)' : InLog(e.req)' /\ numid'[e.req] = e.numid
    BY <1>3, <1>5, <1>9, <1>12, <1>16 DEF Order, Ordered, Journaled
  <2>2. ASSUME NEW b \in Agents, pending'[b] # NoRequest
        PROVE  /\ \A c \in All : \A e \in Found(c)' : e.req # pending'[b]
               /\ \A c \in Agents \ {b} : pending'[c] # pending'[b]
    <3>1. b # a /\ pending'[b] = pending[b]
      BY <1>8, <2>2
    <3>2. /\ \A c \in All : \A e \in Found(c) : e.req # pending[b]
          /\ \A c \in Agents \ {b} : pending[c] # pending[b]
      BY <1>3, <2>2, <3>1 DEF Order, Ordered, Journaled
    <3>3. pending[b] # r
      BY <1>1, <3>1, <3>2
    <3>4. ASSUME NEW c \in All, NEW e \in Found(c)' PROVE e.req # pending'[b]
      <4>1. e \in Found(c) \/ e.req = r
        BY <1>5, <1>12, <3>4
      <4> QED BY <3>1, <3>2, <3>3, <4>1
    <3>5. ASSUME NEW c \in Agents \ {b} PROVE pending'[c] # pending'[b]
      BY <1>5, <1>8, <2>2, <3>1, <3>2, <3>3
    <3> QED BY <3>4, <3>5
  <2>3. Awaited'
    <3>1. Awaited
      BY <1>3 DEF Order, Ordered, Journaled
    <3>2. ASSUME NEW b \in Agents, pending'[b] # NoRequest PROVE \E i \in DOMAIN log' : log'[i] = pending'[b]
      <4>1. pending'[b] = pending[b] /\ pending[b] # NoRequest
        BY <1>8, <3>2
      <4> QED BY <1>3, <3>1, <4>1 DEF Awaited, InLog
    <3> QED BY <3>2 DEF Awaited, InLog
  <2> QED BY <2>1, <2>2, <2>3 DEF Journaled
<1>18. IdxRight'
  <2>1. ASSUME NEW b \in All, NEW i \in DOMAIN records[b]
        PROVE  i \in DOMAIN records'[b] /\ records'[b][i] = records[b][i]
    <3>1. CASE b = a
      <4>1. i \in 1..n /\ i \in 1..(n + 1)
        BY <1>2, <1>6, <2>1, <3>1
      <4> QED BY <1>2, <1>6, <1>7, <3>1, <4>1
    <3>2. CASE b # a
      BY <1>7, <2>1, <3>2
    <3> QED BY <3>1, <3>2
  <2>2. \A b \in All : Found(b) \subseteq Found(b)'
    BY <2>1 DEF Found
  <2> QED BY <1>3, <2>2 DEF Order, Ordered, IdxRight
<1>19. LogSmall' /\ Fresh' /\ TimelyOrder' /\ Quiescent' /\ Ascending'
    BY <1>3 DEF Order, Ordered, LogSmall, Fresh, TimelyOrder, Quiescent, Ascending
<1> QED BY <1>3, <1>10, <1>14, <1>15, <1>17, <1>18, <1>19 DEF Order, Ordered

LEMMA CrashOrder == ASSUME NoGap, Calm, Order, Crash PROVE TypeOK' /\ Ordered'
<1>1. /\ phase' = "down" /\ log' = <<>> /\ numid' = [r \in Requests |-> 1] /\ numCommits' = 0 /\ known' = {}
      /\ idx' = {} /\ left' = {} /\ agent' = 0 /\ pending' = [a \in Agents |-> 0]
      /\ crashes < MaxCrashes /\ crashes' = crashes + 1
      /\ UNCHANGED <<kind, acked, records, folder>>
    BY DEF Crash, clients, disk, Sys, NoRequest
<1>2. MaxRequests \in Nat /\ MaxCrashes \in Nat /\ NumAgents \in Nat
    BY Numbers
<1>3. numid' \in [Requests -> Numids]
  <2>1. \A r \in Requests : 1 \in Numids
    <3>1. \A r \in Requests : r \in Nat \ {0}
      BY Numbers
    <3>2. \A r \in Requests : 1 <= r
      BY <3>1
    <3> QED BY <3>2, Numbers
  <2> QED BY <1>1, <2>1
<1>4. /\ log' \in Seq(Requests) /\ pending' \in [Agents -> Requests \cup {NoRequest}]
      /\ agent' \in 0..(NumAgents + 1) /\ crashes' \in 0..MaxCrashes /\ phase' \in Phases
    BY <1>1, <1>2 DEF Phases, NoRequest, Order, TypeOK
<1>5. TypeOK'
    BY <1>1, <1>3, <1>4 DEF Order, TypeOK
<1>6. \A b : Found(b)' = Found(b)
    BY <1>1, SameRecords
<1>7. IdxRight'
    BY <1>1, FS_EmptySet DEF IdxRight
<1> QED BY <1>1, <1>5, <1>6, <1>7 DEF Order, Ordered, Small, LogSmall, Fresh, OneEach, Quiescent, Journaled, Awaited,
                                      Ascending, TimelyOrder

LEMMA FoundFinite == ASSUME Order, NEW a \in All PROVE IsFiniteSet(Found(a))
<1>1. PICK s : s = records[a] /\ s \in Seq(Entries)
    BY DEF Order, TypeOK, All
<1>2. Len(s) \in Nat /\ DOMAIN s = 1..Len(s) /\ s = [i \in 1..Len(s) |-> s[i]]
    BY <1>1
<1>3. s \in Surjection(1..Len(s), Found(a))
    BY <1>1, <1>2 DEF Surjection, Found
<1>4. IsFiniteSet(1..Len(s))
  <2>1. 1 \in Int /\ Len(s) \in Int
    BY <1>2
  <2> QED BY <2>1, FS_Interval
<1> QED BY <1>3, <1>4, FS_Surjection

\* A step of the search for journals.
LEMMA SearchOrder ==
  ASSUME Order, phase \in {"down", "reading"}, phase' \in {"reading", "failed"},
         UNCHANGED <<kind, acked, records, folder, pending, left, log, numid, numCommits, known, crashes>>,
         agent' \in 0..(NumAgents + 1), idx \subseteq idx', idx' \subseteq Entries, IdxRight'
  PROVE  TypeOK' /\ Ordered'
<1>1. TypeOK'
    BY DEF Order, TypeOK, Phases
<1>2. \A b : Found(b)' = Found(b)
    BY SameRecords
<1> QED BY <1>1, <1>2 DEF Order, Ordered, Small, LogSmall, Fresh, OneEach, Quiescent, Journaled, Awaited,
                          Ascending, TimelyOrder

LEMMA ReadOrder == ASSUME NoGap, Calm, Order, Boot \/ Read PROVE TypeOK' /\ Ordered'
<1>1. /\ agent \in 0..(NumAgents + 1) /\ idx \subseteq Entries /\ NumAgents \in Nat
      /\ IsFiniteSet(idx) /\ \A e \in idx : \E a \in All : e \in Found(a)
    BY Numbers DEF Order, TypeOK, Ordered, IdxRight
<1>2. UNCHANGED <<records, idx>> => IdxRight'
    BY <1>1, SameRecords DEF IdxRight
<1>3. CASE Boot
  <2>1. /\ phase = "down" /\ phase' = "reading"
        /\ UNCHANGED <<kind, acked, records, folder, pending, agent, idx, left, log, numid, numCommits, known, crashes>>
    BY <1>3 DEF Boot, clients, disk, commits
  <2> QED BY <1>1, <1>2, <2>1, SearchOrder
<1>4. CASE ReadSkip
  <2>1. /\ phase = "reading" /\ phase' = "reading" /\ agent = 0 /\ agent' = agent + 1
        /\ UNCHANGED <<kind, acked, records, folder, pending, idx, left, log, numid, numCommits, known, crashes>>
    BY <1>4 DEF ReadSkip, SkipAgent, Sys, clients, disk, commits
  <2>2. agent' \in 0..(NumAgents + 1)
    BY <1>1, <2>1
  <2> QED BY <1>1, <1>2, <2>1, <2>2, SearchOrder
<1>5. CASE ReadAgent
  <2>1. /\ phase = "reading" /\ phase' = "reading" /\ HasFolder(agent) /\ agent' = agent + 1
        /\ idx' = idx \cup Found(agent)
        /\ UNCHANGED <<kind, acked, records, folder, pending, left, log, numid, numCommits, known, crashes>>
    BY <1>5 DEF ReadAgent, clients, disk, commits
  <2>2. agent \in All
    BY <2>1 DEF HasFolder, Order, TypeOK, All
  <2>3. agent' \in 0..(NumAgents + 1)
    BY <1>1, <2>1, <2>2, Sets
  <2>4. PICK F : F = Found(agent)
    OBVIOUS
  <2>5. IsFiniteSet(F) /\ F \subseteq Entries
    BY <2>2, <2>4, FoundFinite, FoundIs
  <2>6. IsFiniteSet(idx')
    BY <1>1, <2>1, <2>4, <2>5, FS_Union
  <2>7. \A b : Found(b)' = Found(b)
    BY <2>1, SameRecords
  <2>8. \A e \in idx' : \E a \in All : e \in Found(a)
    BY <1>1, <2>1, <2>2
  <2>9. IdxRight'
    BY <2>6, <2>7, <2>8 DEF IdxRight
  <2> QED BY <1>1, <2>1, <2>3, <2>4, <2>5, <2>9, SearchOrder
<1>6. CASE ReadFail
  <2>1. /\ phase = "reading" /\ phase' = "failed"
        /\ UNCHANGED <<kind, acked, records, folder, pending, agent, idx, left, log, numid, numCommits, known, crashes>>
    BY <1>6 DEF ReadFail, clients, disk, commits
  <2> QED BY <1>1, <1>2, <2>1, SearchOrder
<1>7. CASE ReadEnd
  <2>1. /\ phase = "reading" /\ phase' = "applying" /\ left' = idx
        /\ UNCHANGED <<kind, acked, records, folder, pending, agent, idx, log, numid, numCommits, known, crashes>>
    BY <1>7 DEF ReadEnd, clients, disk, commits
  <2>2. log = <<>>
    BY <2>1 DEF Order, Ordered, Quiescent
  <2>3. \A b : Found(b)' = Found(b)
    BY <2>1, SameRecords
  <2>4. TypeOK'
    BY <2>1 DEF Order, TypeOK, Phases
  <2>5. Ascending'
    <3>1. \A a \in All : Found(a)' \subseteq idx
      <4>1. ~HasFolder(agent) /\ agent # Sys
        BY <1>7 DEF ReadEnd, SkipAgent
      <4>2. agent \notin Agents
        BY <4>1, Sets DEF Order, Inv, Types, Folded, HasFolder
      <4>3. \A a \in All : a < agent
        BY <1>1, <4>1, <4>2, Sets DEF Agents
      <4> QED BY <2>1, <2>3, <4>3 DEF Order, Inv, ReadSoFar
    <3>2. DOMAIN log = {}
      BY <2>2
    <3> QED BY <2>1, <3>1, <3>2 DEF Ascending
  <2>6. IdxRight'
    BY <1>2, <2>1
  <2>7. LogSmall' /\ TimelyOrder'
    BY <2>1, <2>2 DEF LogSmall, TimelyOrder
  <2>8. Small' /\ Fresh' /\ OneEach' /\ Quiescent' /\ Journaled'
    BY <2>1, <2>3 DEF Order, Ordered, Small, Fresh, OneEach, Quiescent, Journaled
  <2> QED BY <2>1, <2>4, <2>5, <2>6, <2>7, <2>8 DEF Ordered
<1> QED BY <1>3, <1>4, <1>5, <1>6, <1>7 DEF Read

\* The record with the lowest number that is left is pushed.
LEMMA ApplyInstOrder == ASSUME NoGap, Calm, Order, NEW e \in left, ApplyInst(e) PROVE TypeOK' /\ Ordered'
<1>1. PICK r, L : r = e.req /\ L = Len(log)
    OBVIOUS
<1>2. /\ phase = "applying" /\ left' = left \ {e} /\ log' = Append(log, r) /\ IsNext(e)
      /\ numid' = [numid EXCEPT ![r] = e.numid] /\ known' = known \cup {r}
      /\ UNCHANGED <<kind, acked, records, folder, phase, agent, idx, numCommits, pending, crashes>>
    BY <1>1 DEF ApplyInst, clients, disk
<1>3. /\ \A a \in All : Found(a) \subseteq idx
      /\ \A f \in idx \ left : InLog(f.req) /\ numid[f.req] = f.numid
      /\ \A i \in DOMAIN log : \E f \in idx \ left : f.req = log[i]
      /\ \A i \in DOMAIN log : \A f \in left : numid[log[i]] < f.numid
      /\ left \subseteq idx
    BY <1>2 DEF Order, Ordered, Ascending, TypeOK
<1>4. ASSUME NEW f \in idx
      PROVE f.req \in Requests /\ f.numid \in Numids /\ f.numid <= f.req /\ f.req <= Len(kind)
    BY FoundIs DEF Order, Ordered, IdxRight
<1>5. ASSUME NEW f \in left, f # e PROVE e.numid < f.numid
  <2>1. e \in idx /\ f \in idx /\ VisitedBefore[<<e.numid, f.numid>>]
    BY <1>2, <1>3, <1>5 DEF IsNext
  <2>2. Len(kind) \in Nat /\ Radix \in Nat /\ Len(kind) < Radix
    BY Numbers DEF Order, TypeOK, Calm
  <2>3. \A g \in {e, f} : g.req \in Nat /\ g.numid \in Numids /\ g.numid \in Nat /\ g.numid <= g.req /\ g.req <= Len(kind)
    BY <1>4, <2>1, Numbers
  <2>4. e.numid < Radix /\ f.numid < Radix
    BY <2>2, <2>3
  <2> QED BY <2>1, <2>3, <2>4, InOrder
<1>6. log \in Seq(Requests) /\ L \in Nat /\ r \in Requests /\ e.numid \in Numids /\ numid \in [Requests -> Numids]
    BY <1>1, <1>3, <1>4 DEF Order, TypeOK
<1>7. /\ log' \in Seq(Requests) /\ DOMAIN log = 1..L /\ DOMAIN log' = 1..(L + 1) /\ log'[L + 1] = r
      /\ \A i \in 1..L : log'[i] = log[i]
      /\ \A i \in 1..(L + 1) : i \in 1..L \/ i = L + 1
    BY <1>1, <1>2, <1>6
\* It is the only record of its request, so that no other changes its number.
<1>16. ASSUME NEW f \in idx \ left PROVE f.req # r /\ numid'[f.req] = f.numid
  <2>1. e \in idx /\ f \in idx /\ f # e
    BY <1>3
  <2>2. f.req # e.req
    BY <2>1, OneEntry DEF Order, Ordered, IdxRight
  <2> QED BY <1>1, <1>2, <1>3, <1>4, <1>6, <2>1, <2>2
<1>17. numid'[r] = e.numid /\ \A i \in 1..L : numid'[log[i]] = numid[log[i]] /\ log[i] \in Requests
  <2>1. numid'[r] = e.numid
    BY <1>2, <1>6
  <2>2. ASSUME NEW i \in 1..L PROVE numid'[log[i]] = numid[log[i]] /\ log[i] \in Requests
    <3>1. PICK f \in idx \ left : f.req = log[i]
      BY <1>3, <1>7
    <3> QED BY <1>3, <1>4, <1>16, <3>1
  <2> QED BY <2>1, <2>2
<1>8. TypeOK'
  <2>1. known' \subseteq Requests
    BY <1>2, <1>6 DEF Order, TypeOK
  <2>2. numid' \in [Requests -> Numids]
    BY <1>2, <1>6
  <2> QED BY <1>2, <1>7, <2>1, <2>2 DEF Order, TypeOK
<1>9. \A b : Found(b)' = Found(b)
    BY <1>2, SameRecords
<1>10. e \in idx
    BY <1>3
<1>11. LogSmall'
  <2> SUFFICES ASSUME NEW i \in 1..(L + 1) PROVE numid'[log'[i]] <= log'[i] /\ log'[i] <= Len(kind)
    BY <1>2, <1>7 DEF LogSmall
  <2>1. CASE i = L + 1
    BY <1>1, <1>4, <1>7, <1>10, <1>17, <2>1
  <2>2. CASE i \in 1..L
    BY <1>7, <1>17, <2>2 DEF Order, Ordered, LogSmall
  <2> QED BY <1>7, <2>1, <2>2
<1>12. TimelyOrder'
  <2> SUFFICES ASSUME NEW i \in 1..(L + 1), NEW j \in 1..(L + 1), i < j
      PROVE  numid'[log'[i]] < numid'[log'[j]]
    BY <1>2, <1>7 DEF TimelyOrder
  <2>1. i \in 1..L
    BY <1>6
  <2>2. CASE j = L + 1
    BY <1>3, <1>7, <1>17, <2>1, <2>2
  <2>3. CASE j \in 1..L
    BY <1>7, <1>17, <2>1, <2>3 DEF Order, Ordered, TimelyOrder
  <2> QED BY <1>7, <2>2, <2>3
<1>13. Ascending'
  <2>1. ASSUME NEW i \in 1..(L + 1) PROVE \E f \in idx \ left' : f.req = log'[i]
    <3>1. CASE i = L + 1
      BY <1>1, <1>2, <1>7, <1>10, <3>1
    <3>2. CASE i \in 1..L
      BY <1>2, <1>3, <1>7, <3>2
    <3> QED BY <1>7, <3>1, <3>2
  <2>2. ASSUME NEW i \in 1..(L + 1), NEW f \in left' PROVE numid'[log'[i]] < f.numid
    <3>1. f \in left /\ f # e
      BY <1>2
    <3>2. CASE i = L + 1
      BY <1>5, <1>7, <1>17, <3>1, <3>2
    <3>3. CASE i \in 1..L
      BY <1>3, <1>7, <1>17, <3>1, <3>3
    <3> QED BY <1>7, <3>2, <3>3
  <2>3. (\A q : InLog(q) => InLog(q)') /\ InLog(r)'
    BY <1>2, <1>6, AppendLog
  <2>4. ASSUME NEW f \in idx \ left' PROVE InLog(f.req)' /\ numid'[f.req] = f.numid
    BY <1>1, <1>2, <1>3, <1>16, <1>17, <2>3, <2>4
  <2> QED BY <1>2, <1>3, <1>7, <1>9, <2>1, <2>2, <2>4 DEF Ascending
<1>14. IdxRight'
    BY <1>2, <1>9 DEF Order, Ordered, IdxRight
<1>15. Small' /\ Fresh' /\ OneEach' /\ Quiescent' /\ Journaled'
  <2>1. Len(kind) \in Nat /\ r \in Nat /\ r <= Len(kind)
    BY <1>1, <1>4, <1>10, KindsAre, Numbers
  <2>2. Fresh'
    <3> SUFFICES ASSUME NEW p \in Requests, p > Len(kind) PROVE numid'[p] = 1
      BY <1>2 DEF Fresh
    <3>1. p # r
      BY <2>1, Numbers
    <3> QED BY <1>2, <1>6, <3>1 DEF Order, Ordered, Fresh
  <2> QED BY <1>2, <1>9, <2>2 DEF Order, Ordered, Small, OneEach, Quiescent, Journaled
<1> QED BY <1>2, <1>8, <1>11, <1>12, <1>13, <1>14, <1>15 DEF Order, Ordered

LEMMA ApplyEndOrder == ASSUME NoGap, Calm, Order, ApplyEnd PROVE TypeOK' /\ Ordered'
<1>1. /\ phase = "applying" /\ phase' = "up" /\ left = {} /\ numCommits' = Cardinality(idx)
      /\ UNCHANGED <<kind, acked, records, folder, agent, idx, left, log, numid, known, pending, crashes>>
    BY DEF ApplyEnd, clients, disk
<1>2. numCommits' \in Nat
    BY <1>1, FS_CardinalityType DEF Order, Ordered, IdxRight
<1>3. TypeOK'
    BY <1>1, <1>2 DEF Order, TypeOK, Phases
<1>4. (\A b : Found(b)' = Found(b)) /\ \A q : InLog(q) <=> InLog(q)'
    BY <1>1, SameRecords, SameLog
<1>5. Journaled'
  <2>1. ASSUME NEW a \in All, NEW e \in Found(a) PROVE InLog(e.req) /\ numid[e.req] = e.numid
    <3>1. e \in idx
      BY <1>1 DEF Order, Ordered, Ascending
    <3> QED BY <1>1, <3>1 DEF Order, Ordered, Ascending
  <2>2. \A a \in Agents : pending'[a] = NoRequest
    BY <1>1 DEF Order, Inv, Accepted
  <2> QED BY <1>1, <1>4, <2>1, <2>2 DEF Journaled, Awaited
<1>6. Small' /\ LogSmall' /\ Fresh' /\ OneEach' /\ Quiescent' /\ IdxRight' /\ Ascending' /\ TimelyOrder'
    BY <1>1, <1>4 DEF Order, Ordered, Small, LogSmall, Fresh, OneEach, Quiescent, IdxRight, Ascending, TimelyOrder
<1> QED BY <1>1, <1>3, <1>5, <1>6 DEF Ordered

LEMMA StepOrder == NoGap /\ Calm /\ Order /\ [Next]_vars => Order'
<1> SUFFICES ASSUME NoGap, Calm, Order, [Next]_vars PROVE Order'
    OBVIOUS
<1>1. Inv'
    BY StepInv DEF Order
<1>2. CASE UNCHANGED vars
  <2>1. UNCHANGED <<kind, acked, records, folder, phase, agent, idx, left, log, numid, numCommits, known, pending, crashes>>
    BY <1>2 DEF vars, clients, disk, commits
  <2>2. TypeOK'
    BY <2>1 DEF Order, TypeOK
  <2>3. (\A b : Found(b)' = Found(b)) /\ \A q : InLog(q) <=> InLog(q)'
    BY <2>1, SameRecords, SameLog
  <2>4. Small' /\ LogSmall' /\ Fresh' /\ OneEach' /\ TimelyOrder' /\ IdxRight'
    BY <2>1, <2>3 DEF Order, Ordered, Small, LogSmall, Fresh, OneEach, TimelyOrder, IdxRight
  <2>5. Quiescent' /\ Journaled' /\ Ascending'
    BY <2>1, <2>3 DEF Order, Ordered, Quiescent, Journaled, Awaited, Ascending
  <2> QED BY <1>1, <2>1, <2>2, <2>4, <2>5 DEF Order, Ordered
<1>3. ASSUME NEW e \in left, ApplyClass(e) \/ ApplyRefused(e) PROVE FALSE
  <2>1. kind[e.req] = "class" /\ e \in idx
    BY <1>3 DEF ApplyClass, ApplyRefused, Order, TypeOK
  <2>2. PICK a \in All : e \in Found(a)
    BY <2>1 DEF Order, Ordered, IdxRight
  <2> QED BY <2>1, <2>2, KindsAre
<1>4. ~ApplyJournal /\ ~ApplyPush
    BY DEF ApplyJournal, ApplyPush, Order, Ordered
<1> QED BY <1>1, <1>2, <1>3, <1>4, AcceptOrder, JournalOrder, CrashOrder, ReadOrder, ApplyInstOrder, ApplyEndOrder
        DEF Next, Run, Apply, Order

\* What was not only instances, or too much, stays so.
LEMMA CalmBefore == ASSUME kind \in Seq(Kinds), [Next]_vars PROVE kind' \in Seq(Kinds) /\ (Calm' => Calm)
<1>1. kind' = kind \/ \E k \in Kinds : kind' = Append(kind, k)
    BY DEF Next, Run, Read, Apply, Accept, Journal, Crash, Boot, ReadSkip, ReadAgent, ReadFail, ReadEnd,
           ApplyInst, ApplyClass, ApplyRefused, ApplyJournal, ApplyPush, ApplyEnd, vars, clients
<1>2. CASE kind' = kind
    BY <1>2 DEF Calm
<1>3. ASSUME NEW k \in Kinds, kind' = Append(kind, k) PROVE kind' \in Seq(Kinds) /\ (Calm' => Calm)
  <2>1. PICK n : n = Len(kind)
    OBVIOUS
  <2>2. /\ n \in Nat /\ DOMAIN kind = 1..n /\ kind' \in Seq(Kinds)
        /\ DOMAIN kind' = 1..(n + 1) /\ Len(kind') = n + 1 /\ \A r \in 1..n : kind'[r] = kind[r]
    BY <1>3, <2>1
  <2>3. Radix \in Nat
    BY Numbers
  <2>4. Calm' => n < Radix
    BY <2>2, <2>3 DEF Calm
  <2>5. Calm' => \A r \in 1..n : kind[r] = "inst"
    BY <2>2 DEF Calm
  <2> QED BY <2>1, <2>2, <2>4, <2>5 DEF Calm
<1> QED BY <1>1, <1>2, <1>3

\* knd_repo.open.c:143-147 and 304-305, knd_repo.commit.c:174.  Where every agent has its
\* folder, and as long as only instances are created and their ids have one digit, no two
\* records of the journals have the same number, after any number of crashes, and the
\* list of an open repo has every acknowledged commit, restored ones and new ones in the
\* order of their numbers.
THEOREM InstsStayInOrder == ASSUME NoGap PROVE Spec => []InstsInOrder
<1> DEFINE OrderInv == kind \in Seq(Kinds) /\ Inv /\ (Calm => Order)
<1>1. Init => OrderInv
    BY InitOrder DEF Init, Order
<1>2. OrderInv /\ [Next]_vars => OrderInv'
  <2> SUFFICES ASSUME OrderInv, [Next]_vars PROVE OrderInv'
    OBVIOUS
  <2>1. Inv'
    BY StepInv
  <2>2. kind' \in Seq(Kinds) /\ (Calm' => Calm)
    BY CalmBefore
  <2> QED BY <2>1, <2>2, StepOrder
<1>3. OrderInv => InstsInOrder
  <2>1. Order => NumbersUnique
    BY DEF Order, Ordered, OneEach, NumbersUnique, TypeOK, All
  <2>2. ASSUME Order, phase = "up", NEW q \in acked PROVE InLog(q)
    <3>1. PICK a \in All : \E e \in Found(a) : e.req = q
      BY <2>2 DEF Order, Inv, HasRecord
    <3> QED BY <2>2, <3>1 DEF Order, Ordered, Journaled
  <2>3. Order => AckedListed
    BY <2>2 DEF AckedListed, InLog
  <2> QED BY <2>1, <2>3 DEF Order, Ordered, InstsInOrder, Calm
<1> QED BY <1>1, <1>2, <1>3, PTL DEF Spec

---------------------------------------------------------------------------
(***************************************************************************)
(* PART TWO: the classes of a snapshot.                                    *)
(***************************************************************************)

(* Sequences *)

LEMMA SeqIs == ASSUME NEW S, NEW s \in Seq(S) PROVE IsSeq(s) /\ ToSet(s) \subseteq S
<1>1. s \in [1..Len(s) -> S]
    BY LenProperties
<1>2. \A i \in 1..Len(s) : s[i] \in ToSet(s)
    BY <1>1 DEF ToSet
<1>3. s \in [1..Len(s) -> ToSet(s)]
    BY <1>1, <1>2
<1>4. Len(s) \in Nat
    BY LenProperties
<1>5. s \in Seq(ToSet(s))
    BY <1>3, <1>4, SeqDef
<1> QED BY <1>1, <1>5 DEF IsSeq, ToSet

LEMMA SeqHas ==
  ASSUME NEW s, IsSeq(s)
  PROVE  /\ Len(s) \in Nat /\ DOMAIN s = 1..Len(s)
         /\ \A i \in 1..Len(s) : s[i] \in ToSet(s)
         /\ \A x \in ToSet(s) : \E i \in 1..Len(s) : s[i] = x
         /\ s = [i \in 1..Len(s) |-> s[i]]
<1>1. s \in Seq(ToSet(s))
    BY DEF IsSeq
<1>2. Len(s) \in Nat /\ DOMAIN s = 1..Len(s) /\ s \in [1..Len(s) -> ToSet(s)]
    BY <1>1, LenProperties
<1> QED BY <1>2 DEF ToSet

\* A function on 1..n is a sequence of that length.
LEMMA MakeSeq ==
  ASSUME NEW n \in Nat, NEW s, DOMAIN s = 1..n, s = [i \in 1..n |-> s[i]]
  PROVE  IsSeq(s) /\ Len(s) = n
<1>1. s \in [1..n -> ToSet(s)]
    BY DEF ToSet
<1>2. s \in Seq(ToSet(s))
    BY <1>1, SeqDef
<1>3. Len(s) = n
    BY <1>2, LenProperties
<1> QED BY <1>2, <1>3 DEF IsSeq

LEMMA SameSeq ==
  ASSUME NEW s, IsSeq(s), NEW r, IsSeq(r), Len(s) = Len(r), \A i \in 1..Len(s) : s[i] = r[i]
  PROVE  s = r
<1> QED BY SeqHas

LEMMA JoinSeq ==
  ASSUME NEW s, IsSeq(s), NEW r, IsSeq(r)
  PROVE  /\ IsSeq(s \o r) /\ Len(s \o r) = Len(s) + Len(r)
         /\ \A i \in 1..(Len(s) + Len(r)) : (s \o r)[i] = IF i <= Len(s) THEN s[i] ELSE r[i - Len(s)]
<1> DEFINE U == ToSet(s) \cup ToSet(r)
<1>1. s \in Seq(U) /\ r \in Seq(U)
    BY SeqMonotonic DEF IsSeq
<1> HIDE DEF U
<1>2. s \o r \in Seq(U)
    BY <1>1, ConcatProperties
<1>3. IsSeq(s \o r)
    BY <1>2, SeqIs
<1> QED BY <1>1, <1>3, ConcatProperties

LEMMA AppendSeq ==
  ASSUME NEW s, IsSeq(s), NEW x
  PROVE  /\ IsSeq(Append(s, x)) /\ Len(Append(s, x)) = Len(s) + 1
         /\ \A i \in 1..Len(s) : Append(s, x)[i] = s[i]
         /\ Append(s, x)[Len(s) + 1] = x
<1> DEFINE U == ToSet(s) \cup {x}
<1>1. s \in Seq(U) /\ x \in U
    BY SeqMonotonic DEF IsSeq
<1> HIDE DEF U
<1>2. Append(s, x) \in Seq(U)
    BY <1>1, AppendProperties
<1>3. IsSeq(Append(s, x))
    BY <1>2, SeqIs
<1> QED BY <1>1, <1>3, AppendProperties

LEMMA FrontSeq ==
  ASSUME NEW s, IsSeq(s), s # <<>>
  PROVE  /\ IsSeq(Front(s)) /\ Len(Front(s)) = Len(s) - 1 /\ Len(s) \in Nat \ {0}
         /\ \A i \in 1..(Len(s) - 1) : Front(s)[i] = s[i]
         /\ Last(s) = s[Len(s)]
<1>1. s \in Seq(ToSet(s)) /\ Len(s) \in Nat \ {0}
    BY EmptySeq DEF IsSeq
<1>2. \A i \in 1..(Len(s) - 1) : s[i] \in ToSet(s)
    BY SeqHas, <1>1
<1>3. Front(s) = SubSeq(s, 1, Len(s) - 1)
    BY DEF Front
<1>4. Front(s) \in Seq(ToSet(s)) /\ \A i \in 1..(Len(s) - 1) : Front(s)[i] = s[i]
    BY <1>1, <1>2, <1>3, SubSeqProperties
<1>5. Len(Front(s)) = Len(s) - 1
  <2>1. PICK m \in Int : m = Len(s) - 1 /\ m >= 0
    BY <1>1
  <2>2. \A i \in 1..m : s[i] \in ToSet(s)
    BY <1>2, <2>1
  <2>3. Len(SubSeq(s, 1, m)) = IF 1 <= m THEN m - 1 + 1 ELSE 0
    BY <2>2, SubSeqProperties
  <2> QED BY <1>3, <2>1, <2>3
<1>6. IsSeq(Front(s))
    BY <1>4, SeqIs
<1>7. Last(s) = s[Len(s)]
    BY DEF Last
<1> QED BY <1>1, <1>4, <1>5, <1>6, <1>7

LEMMA TailSeq ==
  ASSUME NEW s, IsSeq(s), s # <<>>
  PROVE  /\ IsSeq(Tail(s)) /\ Len(Tail(s)) = Len(s) - 1 /\ Len(s) \in Nat \ {0}
         /\ \A i \in 1..(Len(s) - 1) : Tail(s)[i] = s[i + 1]
         /\ Head(s) = s[1]
<1>1. s \in Seq(ToSet(s)) /\ Len(s) \in Nat \ {0}
    BY EmptySeq DEF IsSeq
<1>2. Tail(s) \in Seq(ToSet(s)) /\ Len(Tail(s)) = Len(s) - 1 /\ \A i \in 1..Len(Tail(s)) : Tail(s)[i] = s[i + 1]
    BY <1>1, HeadTailProperties
<1>3. IsSeq(Tail(s))
    BY <1>2, SeqIs
<1> QED BY <1>1, <1>2, <1>3

LEMMA NilSeq == IsSeq(<<>>) /\ Len(<<>>) = 0 /\ \A s : IsSeq(s) /\ Len(s) = 0 => s = <<>>
<1>1. <<>> \in Seq({})
    OBVIOUS
<1>2. IsSeq(<<>>)
    BY <1>1, SeqIs
<1>3. Len(<<>>) = 0
    OBVIOUS
<1>4. ASSUME NEW s, IsSeq(s), Len(s) = 0 PROVE s = <<>>
    BY <1>2, <1>3, <1>4, SameSeq
<1> QED BY <1>2, <1>3, <1>4

LEMMA OneSeq == ASSUME NEW x PROVE IsSeq(<<x>>) /\ Len(<<x>>) = 1 /\ <<x>>[1] = x /\ ToSet(<<x>>) = {x}
<1>1. <<x>> \in Seq({x})
    OBVIOUS
<1>2. IsSeq(<<x>>) /\ Len(<<x>>) = 1 /\ <<x>>[1] = x
    BY <1>1, SeqIs
<1> QED BY <1>2, SeqHas DEF ToSet

---------------------------------------------------------------------------
(* What is left of a list that is being read, and what has become of the   *)
(* items that were.                                                        *)

From(tag, s, k) == [i \in 1..(Len(s) - k) |-> <<tag, s[k + i]>>]
Clip(s, k) == [i \in 1..k |-> s[i]]
Turned(s, k) == [i \in 1..k |-> s[k - i + 1]]
AttrsRead(attrs, k) == [i \in 1..k |-> ReadAttr(AttrRecord(attrs[i]))]
\* Of base k only v values.
BasesRead(bases, k, v) ==
    [i \in 1..k |-> IF i < k THEN bases[i] ELSE [c |-> bases[k].c, vals |-> Clip(bases[k].vals, v)]]

LEMMA FromSeq ==
  ASSUME NEW tag, NEW s, IsSeq(s), NEW k \in 0..Len(s)
  PROVE  IsSeq(From(tag, s, k)) /\ Len(From(tag, s, k)) = Len(s) - k
<1>1. Len(s) - k \in Nat
    BY SeqHas
<1>2. /\ DOMAIN From(tag, s, k) = 1..(Len(s) - k)
      /\ From(tag, s, k) = [i \in 1..(Len(s) - k) |-> From(tag, s, k)[i]]
    BY DEF From
<1> QED BY <1>1, <1>2, MakeSeq

Tagged(tag, x) == <<tag, x>>
\* The first item of a list, and the others.
Took(l, item, rest) == l # <<>> /\ Head(l) = item /\ Tail(l) = rest

LEMMA FromMore ==
  ASSUME NEW tag, NEW s, IsSeq(s), NEW k \in 0..Len(s), k # Len(s), NEW r, IsSeq(r)
  PROVE  /\ IsSeq(From(tag, s, k) \o r)
         /\ Took(From(tag, s, k) \o r, Tagged(tag, s[k + 1]), From(tag, s, k + 1) \o r)
<1> DEFINE a == From(tag, s, k)
           b == From(tag, s, k + 1)
           l == a \o r
           m == b \o r
           t == Tail(l)
<1>1. PICK n \in Nat : Len(r) = n
    BY SeqHas
<1>2. PICK j \in Nat : Len(s) = k + 1 + j
  <2>1. Len(s) \in Nat
      BY SeqHas
  <2>2. Len(s) - (k + 1) \in Nat /\ Len(s) = k + 1 + (Len(s) - (k + 1))
      BY <2>1
  <2> QED BY <2>2
<1>3. k \in Nat /\ k + 1 \in 0..Len(s) /\ Len(s) - k = j + 1 /\ Len(s) - (k + 1) = j
    BY <1>2
<1>4. IsSeq(a) /\ Len(a) = j + 1 /\ \A i \in 1..(j + 1) : a[i] = <<tag, s[k + i]>>
  <2>1. IsSeq(a) /\ Len(a) = Len(s) - k
      BY FromSeq
  <2>2. \A i \in 1..(Len(s) - k) : a[i] = <<tag, s[k + i]>>
      BY DEF From
  <2> HIDE DEF a
  <2> QED BY <1>3, <2>1, <2>2
<1>5. IsSeq(b) /\ Len(b) = j /\ \A i \in 1..j : b[i] = <<tag, s[k + 1 + i]>>
  <2>1. IsSeq(b) /\ Len(b) = Len(s) - (k + 1)
      BY <1>3, FromSeq
  <2>2. \A i \in 1..(Len(s) - (k + 1)) : b[i] = <<tag, s[k + 1 + i]>>
      BY DEF From
  <2> HIDE DEF b
  <2> QED BY <1>3, <2>1, <2>2
<1> HIDE DEF a, b
<1>6. /\ IsSeq(l) /\ Len(l) = Len(a) + Len(r)
      /\ \A i \in 1..(Len(a) + Len(r)) : l[i] = IF i <= Len(a) THEN a[i] ELSE r[i - Len(a)]
    BY <1>4, JoinSeq, Zenon
<1>7. /\ IsSeq(m) /\ Len(m) = Len(b) + Len(r)
      /\ \A i \in 1..(Len(b) + Len(r)) : m[i] = IF i <= Len(b) THEN b[i] ELSE r[i - Len(b)]
    BY <1>5, JoinSeq, Zenon
<1> HIDE DEF l, m
<1>8. l # <<>>
    BY <1>1, <1>4, <1>6, NilSeq
<1>9. /\ IsSeq(t) /\ Len(t) = Len(l) - 1 /\ Head(l) = l[1]
      /\ \A i \in 1..(Len(l) - 1) : t[i] = l[i + 1]
    BY <1>6, <1>8, TailSeq, Zenon
<1> HIDE DEF t
<1>10. Len(t) = j + n /\ Len(m) = j + n /\ Len(l) = j + 1 + n
    BY <1>1, <1>4, <1>5, <1>6, <1>7, <1>9
<1>11. \A i \in 1..(j + n) : t[i] = m[i]
  <2> TAKE i \in 1..(j + n)
  <2>1. i + 1 \in 1..(j + 1 + n) /\ t[i] = l[i + 1]
      BY <1>9, <1>10
  <2>2. CASE i <= j
    <3>1. t[i] = a[i + 1] /\ i + 1 \in 1..(j + 1) /\ i \in 1..j
        BY <1>1, <1>4, <2>1, <2>2, <1>6
    <3>2. k + (i + 1) = k + 1 + i
        BY <1>3
    <3>3. a[i + 1] = b[i]
        BY <3>1, <3>2, <1>4, <1>5
    <3> QED BY <1>1, <2>2, <3>1, <3>3, <1>5, <1>7
  <2>3. CASE ~(i <= j)
    <3>1. i + 1 - (j + 1) = i - j
        OBVIOUS
    <3>2. t[i] = r[i - j]
        BY <1>1, <1>4, <2>1, <2>3, <3>1, <1>6
    <3> QED BY <1>1, <2>3, <3>2, <1>5, <1>7
  <2> QED BY <2>2, <2>3
<1>12. t = m
  <2>1. t = [i \in 1..Len(t) |-> t[i]] /\ m = [i \in 1..Len(m) |-> m[i]]
      BY <1>7, <1>9, SeqHas, Zenon
  <2> QED BY <2>1, <1>10, <1>11
<1>13. Head(l) = <<tag, s[k + 1]>>
  <2>1. l[1] = a[1]
      BY <1>1, <1>4, <1>6
  <2> QED BY <2>1, <1>4, <1>9
<1> QED BY <1>6, <1>8, <1>12, <1>13, Zenon DEF l, m, t, a, b, Took, Tagged

LEMMA FromNone ==
  ASSUME NEW tag, NEW s, IsSeq(s), NEW r, IsSeq(r)
  PROVE  From(tag, s, Len(s)) \o r = r
<1> DEFINE a == From(tag, s, Len(s))
           l == a \o r
<1>1. Len(s) \in 0..Len(s) /\ Len(s) - Len(s) = 0
    BY SeqHas
<1>2. IsSeq(a) /\ Len(a) = Len(s) - Len(s)
    BY <1>1, FromSeq
<1> HIDE DEF a
<1>3. PICK n \in Nat : Len(r) = n
    BY SeqHas
<1>4. /\ IsSeq(l) /\ Len(l) = Len(a) + Len(r)
      /\ \A i \in 1..(Len(a) + Len(r)) : l[i] = IF i <= Len(a) THEN a[i] ELSE r[i - Len(a)]
    BY <1>2, JoinSeq, Zenon
<1> HIDE DEF l
<1>5. Len(l) = n /\ \A i \in 1..n : l[i] = r[i]
    BY <1>1, <1>2, <1>3, <1>4
<1>6. l = [i \in 1..Len(l) |-> l[i]] /\ r = [i \in 1..Len(r) |-> r[i]]
    BY <1>4, SeqHas, Zenon
<1>7. l = r
    BY <1>3, <1>5, <1>6
<1> QED BY <1>7, Zenon DEF l, a

LEMMA FromAll == ASSUME NEW tag, NEW s, IsSeq(s) PROVE Items(tag, s) = From(tag, s, 0)
<1>1. Len(s) \in Nat
    BY SeqHas
<1> QED BY <1>1 DEF Items, From

LEMMA ClipMore ==
  ASSUME NEW s, IsSeq(s), NEW k \in 0..Len(s)
  PROVE  /\ IsSeq(Clip(s, k)) /\ Len(Clip(s, k)) = k /\ Clip(s, 0) = <<>> /\ Clip(s, Len(s)) = s
         /\ k # Len(s) => Append(Clip(s, k), s[k + 1]) = Clip(s, k + 1)
<1>1. Len(s) \in Nat /\ s = [i \in 1..Len(s) |-> s[i]]
    BY SeqHas
<1>2. \A n \in 0..Len(s) : IsSeq(Clip(s, n)) /\ Len(Clip(s, n)) = n
  <2> TAKE n \in 0..Len(s)
  <2>1. n \in Nat /\ DOMAIN Clip(s, n) = 1..n /\ Clip(s, n) = [i \in 1..n |-> Clip(s, n)[i]]
      BY <1>1 DEF Clip
  <2> QED BY <2>1, MakeSeq
<1>3. Clip(s, 0) = <<>>
    BY <1>1, <1>2, NilSeq
<1>4. Clip(s, Len(s)) = s
    BY <1>1 DEF Clip
<1>5. ASSUME k # Len(s) PROVE Append(Clip(s, k), s[k + 1]) = Clip(s, k + 1)
  <2>1. k \in Nat /\ k + 1 \in 0..Len(s)
      BY <1>1, <1>5
  <2>2. \A i \in 1..(k + 1) : Append(Clip(s, k), s[k + 1])[i] = s[i]
      BY <2>1, <1>2, AppendSeq DEF Clip
  <2>3. \A i \in 1..(k + 1) : Clip(s, k + 1)[i] = s[i]
      BY DEF Clip
  <2>4. IsSeq(Append(Clip(s, k), s[k + 1])) /\ Len(Append(Clip(s, k), s[k + 1])) = k + 1
      BY <1>2, AppendSeq
  <2>5. /\ IsSeq(Clip(s, k + 1)) /\ Len(Clip(s, k + 1)) = k + 1
        /\ \A i \in 1..(k + 1) : Append(Clip(s, k), s[k + 1])[i] = Clip(s, k + 1)[i]
      BY <2>1, <1>2, <2>2, <2>3
  <2> QED BY <2>4, <2>5, SameSeq, Zenon
<1> QED BY <1>2, <1>3, <1>4, <1>5

LEMMA TurnedMore ==
  ASSUME NEW s, IsSeq(s), NEW k \in 0..Len(s)
  PROVE  /\ IsSeq(Turned(s, k)) /\ Len(Turned(s, k)) = k
         /\ Turned(s, 0) = <<>> /\ Turned(s, Len(s)) = Reverse(s)
         /\ k # Len(s) => <<s[k + 1]>> \o Turned(s, k) = Turned(s, k + 1)
<1>1. Len(s) \in Nat
    BY SeqHas
<1>2. \A n \in 0..Len(s) : IsSeq(Turned(s, n)) /\ Len(Turned(s, n)) = n
  <2> TAKE n \in 0..Len(s)
  <2>1. n \in Nat /\ DOMAIN Turned(s, n) = 1..n /\ Turned(s, n) = [i \in 1..n |-> Turned(s, n)[i]]
      BY <1>1 DEF Turned
  <2> QED BY <2>1, MakeSeq
<1>3. Turned(s, 0) = <<>>
    BY <1>1, <1>2, NilSeq
<1>4. Turned(s, Len(s)) = Reverse(s)
    BY <1>1 DEF Turned, Reverse
<1>5. ASSUME k # Len(s) PROVE <<s[k + 1]>> \o Turned(s, k) = Turned(s, k + 1)
  <2>1. k \in Nat /\ k + 1 \in 0..Len(s)
      BY <1>1, <1>5
  <2>2. /\ IsSeq(<<s[k + 1]>> \o Turned(s, k)) /\ Len(<<s[k + 1]>> \o Turned(s, k)) = k + 1
        /\ \A i \in 1..(k + 1) : (<<s[k + 1]>> \o Turned(s, k))[i]
                                 = IF i <= 1 THEN <<s[k + 1]>>[i] ELSE Turned(s, k)[i - 1]
    <3>1. IsSeq(<<s[k + 1]>>) /\ Len(<<s[k + 1]>>) = 1 /\ IsSeq(Turned(s, k)) /\ Len(Turned(s, k)) = k
        BY <1>2, OneSeq
    <3>2. 1 + k = k + 1
        BY <2>1
    <3>3. /\ IsSeq(<<s[k + 1]>> \o Turned(s, k)) /\ Len(<<s[k + 1]>> \o Turned(s, k)) = 1 + k
          /\ \A i \in 1..(1 + k) : (<<s[k + 1]>> \o Turned(s, k))[i]
                                   = IF i <= 1 THEN <<s[k + 1]>>[i] ELSE Turned(s, k)[i - 1]
        BY <3>1, JoinSeq, ZenonT(40)
    <3> QED BY <3>2, <3>3, ZenonT(40)
  <2>3. \A i \in 1..(k + 1) : (<<s[k + 1]>> \o Turned(s, k))[i] = s[(k + 1) - i + 1]
    <3> TAKE i \in 1..(k + 1)
    <3>1. CASE i = 1
        BY <3>1, <2>1, <2>2, OneSeq
    <3>2. CASE i # 1
        BY <3>2, <2>1, <2>2 DEF Turned
    <3> QED BY <3>1, <3>2
  <2>4. IsSeq(<<s[k + 1]>> \o Turned(s, k)) /\ Len(<<s[k + 1]>> \o Turned(s, k)) = k + 1
      BY <2>2
  <2>5. /\ IsSeq(Turned(s, k + 1)) /\ Len(Turned(s, k + 1)) = k + 1
        /\ \A i \in 1..(k + 1) : (<<s[k + 1]>> \o Turned(s, k))[i] = Turned(s, k + 1)[i]
      BY <2>1, <1>2, <2>3 DEF Turned
  <2> QED BY <2>4, <2>5, SameSeq, Zenon
<1> QED BY <1>2, <1>3, <1>4, <1>5

LEMMA AttrsReadMore ==
  ASSUME NEW s, IsSeq(s), NEW k \in 0..Len(s)
  PROVE  /\ IsSeq(AttrsRead(s, k)) /\ Len(AttrsRead(s, k)) = k /\ AttrsRead(s, 0) = <<>>
         /\ k # Len(s) => Append(AttrsRead(s, k), ReadAttr(AttrRecord(s[k + 1]))) = AttrsRead(s, k + 1)
<1>1. Len(s) \in Nat
    BY SeqHas
<1>2. \A n \in 0..Len(s) : IsSeq(AttrsRead(s, n)) /\ Len(AttrsRead(s, n)) = n
  <2> TAKE n \in 0..Len(s)
  <2>1. n \in Nat /\ DOMAIN AttrsRead(s, n) = 1..n /\ AttrsRead(s, n) = [i \in 1..n |-> AttrsRead(s, n)[i]]
      BY <1>1 DEF AttrsRead
  <2> QED BY <2>1, MakeSeq
<1>3. AttrsRead(s, 0) = <<>>
    BY <1>1, <1>2, NilSeq
<1>5. ASSUME k # Len(s) PROVE Append(AttrsRead(s, k), ReadAttr(AttrRecord(s[k + 1]))) = AttrsRead(s, k + 1)
  <2> DEFINE l == Append(AttrsRead(s, k), ReadAttr(AttrRecord(s[k + 1])))
  <2>1. k \in Nat /\ k + 1 \in 0..Len(s)
      BY <1>1, <1>5
  <2>2. \A i \in 1..(k + 1) : l[i] = ReadAttr(AttrRecord(s[i]))
      BY <2>1, <1>2, AppendSeq DEF AttrsRead
  <2>3. \A i \in 1..(k + 1) : AttrsRead(s, k + 1)[i] = ReadAttr(AttrRecord(s[i]))
      BY DEF AttrsRead
  <2>4. IsSeq(l) /\ Len(l) = k + 1
      BY <1>2, AppendSeq
  <2>5. /\ IsSeq(AttrsRead(s, k + 1)) /\ Len(AttrsRead(s, k + 1)) = k + 1
        /\ \A i \in 1..(k + 1) : l[i] = AttrsRead(s, k + 1)[i]
      BY <2>1, <1>2, <2>2, <2>3
  <2> QED BY <2>4, <2>5, SameSeq, Zenon
<1> QED BY <1>2, <1>3, <1>5

LEMMA BasesReadSeq ==
  ASSUME NEW s, IsSeq(s), NEW k \in 0..Len(s), NEW v
  PROVE  /\ IsSeq(BasesRead(s, k, v)) /\ Len(BasesRead(s, k, v)) = k
         /\ \A i \in 1..k : BasesRead(s, k, v)[i] =
               IF i < k THEN s[i] ELSE [c |-> s[k].c, vals |-> Clip(s[k].vals, v)]
<1>1. k \in Nat
    BY SeqHas
<1>2. DOMAIN BasesRead(s, k, v) = 1..k /\ BasesRead(s, k, v) = [i \in 1..k |-> BasesRead(s, k, v)[i]]
    BY DEF BasesRead
<1>3. IsSeq(BasesRead(s, k, v)) /\ Len(BasesRead(s, k, v)) = k
    BY <1>1, <1>2, MakeSeq
<1>4. \A i \in 1..k : BasesRead(s, k, v)[i] = IF i < k THEN s[i] ELSE [c |-> s[k].c, vals |-> Clip(s[k].vals, v)]
    BY DEF BasesRead
<1> QED BY <1>3, <1>4

LEMMA NoBaseRead == ASSUME NEW s, IsSeq(s), NEW v PROVE BasesRead(s, 0, v) = <<>>
<1>1. 0 \in 0..Len(s)
    BY SeqHas
<1> QED BY <1>1, BasesReadSeq, NilSeq

\* A base whose values are all read.
LEMMA BaseWhole ==
  ASSUME NEW s, IsSeq(s), NEW k \in 1..Len(s), s[k] = [c |-> s[k].c, vals |-> s[k].vals], IsSeq(s[k].vals)
  PROVE  \A i \in 1..k : BasesRead(s, k, Len(s[k].vals))[i] = s[i]
<1>1. Clip(s[k].vals, Len(s[k].vals)) = s[k].vals
  <2>1. 0 \in 0..Len(s[k].vals)
      BY SeqHas
  <2> QED BY <2>1, ClipMore
<1> QED BY <1>1 DEF BasesRead

LEMMA BaseMore ==
  ASSUME NEW s, IsSeq(s), NEW k \in 0..Len(s), k # Len(s), NEW v,
         k # 0 => s[k] = [c |-> s[k].c, vals |-> s[k].vals] /\ IsSeq(s[k].vals) /\ v = Len(s[k].vals),
         IsSeq(s[k + 1].vals)
  PROVE  Append(BasesRead(s, k, v), [c |-> s[k + 1].c, vals |-> <<>>]) = BasesRead(s, k + 1, 0)
<1> DEFINE a == BasesRead(s, k, v)
           x == [c |-> s[k + 1].c, vals |-> <<>>]
           l == Append(a, x)
           m == BasesRead(s, k + 1, 0)
<1>1. k \in Nat /\ k + 1 \in 0..Len(s)
    BY SeqHas
<1>2. IsSeq(a) /\ Len(a) = k
    BY BasesReadSeq
<1>3. \A i \in 1..k : a[i] = s[i]
  <2>1. CASE k = 0
      BY <2>1
  <2>2. CASE k # 0
    <3>1. k \in 1..Len(s)
        BY <1>1, <2>2
    <3> QED BY <2>2, <3>1, BaseWhole
  <2> QED BY <2>1, <2>2
<1>4. IsSeq(m) /\ Len(m) = k + 1
    BY <1>1, BasesReadSeq
<1>5. \A i \in 1..k : m[i] = s[i]
    BY <1>1 DEF BasesRead
<1>6. m[k + 1] = x
  <2>1. Clip(s[k + 1].vals, 0) = <<>>
    <3>1. 0 \in 0..Len(s[k + 1].vals)
        BY SeqHas
    <3> QED BY <3>1, ClipMore
  <2> QED BY <1>1, <2>1 DEF BasesRead
<1> HIDE DEF a, m, x
<1>7. IsSeq(l) /\ Len(l) = k + 1 /\ (\A i \in 1..k : l[i] = a[i]) /\ l[k + 1] = x
    BY <1>2, AppendSeq
<1> HIDE DEF l
<1>8. Len(l) = Len(m) /\ \A i \in 1..Len(l) : l[i] = m[i]
    BY <1>1, <1>3, <1>4, <1>5, <1>6, <1>7
<1>9. l = m
    BY <1>4, <1>7, <1>8, SameSeq, Zenon
<1> QED BY <1>9, Zenon DEF l, m, a, x

LEMMA ValMore ==
  ASSUME NEW s, IsSeq(s), NEW k \in 1..Len(s), IsSeq(s[k].vals),
         NEW v \in 0..Len(s[k].vals), v # Len(s[k].vals)
  PROVE  WithVal(BasesRead(s, k, v), s[k].vals[v + 1]) = BasesRead(s, k, v + 1)
<1> DEFINE a == BasesRead(s, k, v)
           x == [c |-> Last(a).c, vals |-> Append(Last(a).vals, s[k].vals[v + 1])]
           f == Front(a)
           l == Append(f, x)
           m == BasesRead(s, k, v + 1)
<1>1. k \in Nat \ {0} /\ k \in 0..Len(s) /\ k - 1 \in Nat
    BY SeqHas
<1>2. IsSeq(a) /\ Len(a) = k /\ IsSeq(m) /\ Len(m) = k
    BY <1>1, BasesReadSeq
<1>3. \A i \in 1..(k - 1) : a[i] = s[i] /\ m[i] = s[i]
    BY <1>1 DEF BasesRead
<1>4. a[k] = [c |-> s[k].c, vals |-> Clip(s[k].vals, v)]
    BY <1>1 DEF BasesRead
<1>5. m[k] = [c |-> s[k].c, vals |-> Clip(s[k].vals, v + 1)]
    BY <1>1 DEF BasesRead
<1>6. Append(Clip(s[k].vals, v), s[k].vals[v + 1]) = Clip(s[k].vals, v + 1)
    BY ClipMore
<1> HIDE DEF a, m
<1>7. a # <<>>
    BY <1>1, <1>2, NilSeq
<1>8. /\ IsSeq(f) /\ Len(f) = Len(a) - 1
      /\ \A i \in 1..(Len(a) - 1) : f[i] = a[i]
      /\ Last(a) = a[Len(a)]
    BY <1>2, <1>7, FrontSeq, Zenon
<1>9. x = m[k]
  <2>1. Last(a) = [c |-> s[k].c, vals |-> Clip(s[k].vals, v)]
      BY <1>2, <1>4, <1>8
  <2>2. Last(a).c = s[k].c /\ Last(a).vals = Clip(s[k].vals, v)
      BY <2>1
  <2> QED BY <2>2, <1>5, <1>6, Zenon
<1> HIDE DEF x, f
<1>10. IsSeq(l) /\ Len(l) = Len(f) + 1 /\ (\A i \in 1..Len(f) : l[i] = f[i]) /\ l[Len(f) + 1] = x
  <2>1. IsSeq(f)
      BY <1>8
  <2> QED BY <2>1, AppendSeq, Zenon
<1> HIDE DEF l
<1>11. Len(l) = Len(m) /\ \A i \in 1..Len(l) : l[i] = m[i]
    BY <1>1, <1>2, <1>3, <1>8, <1>9, <1>10
<1>12. l = m
    BY <1>2, <1>10, <1>11, SameSeq, Zenon
<1> QED BY <1>12, Zenon DEF l, m, a, x, f, WithVal

LEMMA BasesReadAll ==
  ASSUME NEW s, IsSeq(s), NEW v,
         Len(s) # 0 => LET b == s[Len(s)] IN b = [c |-> b.c, vals |-> b.vals] /\ IsSeq(b.vals) /\ v = Len(b.vals)
  PROVE  BasesRead(s, Len(s), v) = s
<1> DEFINE a == BasesRead(s, Len(s), v)
<1>1. Len(s) \in Nat /\ Len(s) \in 0..Len(s)
    BY SeqHas
<1>2. IsSeq(a) /\ Len(a) = Len(s)
    BY <1>1, BasesReadSeq
<1>3. \A i \in 1..Len(s) : a[i] = s[i]
  <2>1. CASE Len(s) = 0
      BY <2>1
  <2>2. CASE Len(s) # 0
    <3>1. Len(s) \in 1..Len(s)
        BY <1>1, <2>2
    <3> QED BY <2>2, <3>1, BaseWhole
  <2> QED BY <2>1, <2>2
<1> HIDE DEF a
<1>4. a = s
    BY <1>2, <1>3, SameSeq
<1> QED BY <1>4, Zenon DEF a

---------------------------------------------------------------------------
(* Records.  What is left of the record of a class w when g glosses, k     *)
(* bases, v values of the last of these, a attributes, n ancestors, h      *)
(* children, r hubs and i numbers of instances have been read.             *)

BaseVals(w, k) == IF k = 0 THEN <<>> ELSE w.bases[k].vals

LeftInsts(w, i) == From("insts", NumInsts(w.insts), i) \o <<>>
LeftHubs(w, r, i) == From("rel", w.hubs, r) \o LeftInsts(w, i)
LeftChildren(w, h, r, i) == From("c", w.children, h) \o LeftHubs(w, r, i)
LeftAnc(w, n, h, r, i) == From("anc", Ancestors(w.anc), n) \o LeftChildren(w, h, r, i)
LeftAttrs(w, a, n, h, r, i) == From("attr", AttrRecords(w.attrs), a) \o LeftAnc(w, n, h, r, i)
LeftBases(w, k, a, n, h, r, i) == From("is", w.bases, k) \o LeftAttrs(w, a, n, h, r, i)
LeftVals(w, k, v, a, n, h, r, i) == From("val", BaseVals(w, k), v) \o LeftBases(w, k, a, n, h, r, i)
Left(w, g, k, v, a, n, h, r, i) == From("g", Glosses(w.tr), g) \o LeftVals(w, k, v, a, n, h, r, i)

\* Lists of w that are read one after the other.
Listed(w) ==
    /\ IsSeq(Glosses(w.tr)) /\ IsSeq(w.bases) /\ \A k \in 0..Len(w.bases) : IsSeq(BaseVals(w, k))
    /\ IsSeq(AttrRecords(w.attrs)) /\ Len(AttrRecords(w.attrs)) = Len(w.attrs) /\ IsSeq(w.attrs)
    /\ IsSeq(Ancestors(w.anc)) /\ IsSeq(w.children) /\ IsSeq(w.hubs) /\ IsSeq(NumInsts(w.insts))
InLists(w, g, k, v, a, n, h, r, i) ==
    /\ g \in 0..Len(Glosses(w.tr)) /\ k \in 0..Len(w.bases) /\ v \in 0..Len(BaseVals(w, k))
    /\ a \in 0..Len(w.attrs) /\ n \in 0..Len(Ancestors(w.anc)) /\ h \in 0..Len(w.children)
    /\ r \in 0..Len(w.hubs) /\ i \in 0..Len(NumInsts(w.insts))

LEMMA FromStep ==
  ASSUME NEW tag, NEW s, IsSeq(s), NEW k \in 0..Len(s), NEW r, IsSeq(r)
  PROVE  /\ IsSeq(From(tag, s, k) \o r)
         /\ k = Len(s) => From(tag, s, k) \o r = r
         /\ k # Len(s) => Took(From(tag, s, k) \o r, Tagged(tag, s[k + 1]), From(tag, s, k + 1) \o r)
<1>1. CASE k = Len(s)
    BY <1>1, FromNone, Zenon
<1>2. CASE k # Len(s)
    BY <1>2, FromMore, Zenon
<1> QED BY <1>1, <1>2

LEMMA WrittenLists ==
  ASSUME NEW d \in Stores, NEW c \in DOMAIN d
  PROVE  Listed(d[c])
<1> DEFINE w == d[c]
<1>1. /\ IsSeq(w.bases) /\ (\A k \in 1..Len(w.bases) : IsSeq(w.bases[k].vals)) /\ IsSeq(w.attrs)
      /\ IsSeq(w.tr) /\ IsSeq(w.anc) /\ IsSeq(w.children) /\ IsSeq(w.hubs)
    BY StoresAssumption DEF BasesResolved, AttrsResolved, RefsResolved
<1> HIDE DEF w
<1>2. IsSeq(Glosses(w.tr))
  <2>1. CASE w.tr = <<>>
      BY <2>1, NilSeq DEF Glosses
  <2>2. CASE w.tr # <<>>
      BY <2>2, OneSeq, Zenon DEF Glosses
  <2> QED BY <2>1, <2>2
<1>3. \A k \in 0..Len(w.bases) : IsSeq(BaseVals(w, k))
  <2> TAKE k \in 0..Len(w.bases)
  <2>1. CASE k = 0
      BY <2>1, NilSeq DEF BaseVals
  <2>2. CASE k # 0
    <3>1. Len(w.bases) \in Nat
        BY <1>1, SeqHas
    <3>2. k \in 1..Len(w.bases)
        BY <2>2, <3>1
    <3> QED BY <1>1, <2>2, <3>2 DEF BaseVals
  <2> QED BY <2>1, <2>2
<1>4. IsSeq(AttrRecords(w.attrs)) /\ Len(AttrRecords(w.attrs)) = Len(w.attrs)
  <2>1. Len(w.attrs) \in Nat
      BY <1>1, SeqHas
  <2>2. /\ DOMAIN AttrRecords(w.attrs) = 1..Len(w.attrs)
        /\ AttrRecords(w.attrs) = [k \in 1..Len(w.attrs) |-> AttrRecords(w.attrs)[k]]
      BY DEF AttrRecords
  <2> QED BY <2>1, <2>2, MakeSeq
<1>5. IsSeq(Ancestors(w.anc))
    BY <1>1, NilSeq DEF Ancestors
<1>6. IsSeq(NumInsts(w.insts))
  <2>1. CASE w.insts = None
      BY <2>1, NilSeq DEF NumInsts
  <2>2. CASE w.insts # None
      BY <2>2, OneSeq, Zenon DEF NumInsts
  <2> QED BY <2>1, <2>2
<1> QED BY <1>1, <1>2, <1>3, <1>4, <1>5, <1>6 DEF Listed, w

LEMMA LeftStep ==
  ASSUME NEW w, Listed(w), NEW g, NEW k, NEW v, NEW a, NEW n, NEW h, NEW r, NEW i, InLists(w, g, k, v, a, n, h, r, i)
  PROVE  /\ IsSeq(Left(w, g, k, v, a, n, h, r, i))
         /\ g = Len(Glosses(w.tr)) => Left(w, g, k, v, a, n, h, r, i) = LeftVals(w, k, v, a, n, h, r, i)
         /\ g # Len(Glosses(w.tr)) => Took(Left(w, g, k, v, a, n, h, r, i), Tagged("g", Glosses(w.tr)[g + 1]), Left(w, g + 1, k, v, a, n, h, r, i))
         /\ IsSeq(LeftVals(w, k, v, a, n, h, r, i))
         /\ v = Len(BaseVals(w, k)) => LeftVals(w, k, v, a, n, h, r, i) = LeftBases(w, k, a, n, h, r, i)
         /\ v # Len(BaseVals(w, k)) => Took(LeftVals(w, k, v, a, n, h, r, i), Tagged("val", BaseVals(w, k)[v + 1]), LeftVals(w, k, v + 1, a, n, h, r, i))
         /\ IsSeq(LeftBases(w, k, a, n, h, r, i))
         /\ k = Len(w.bases) => LeftBases(w, k, a, n, h, r, i) = LeftAttrs(w, a, n, h, r, i)
         /\ k # Len(w.bases) => Took(LeftBases(w, k, a, n, h, r, i), Tagged("is", w.bases[k + 1]), LeftBases(w, k + 1, a, n, h, r, i))
         /\ IsSeq(LeftAttrs(w, a, n, h, r, i))
         /\ a = Len(AttrRecords(w.attrs)) => LeftAttrs(w, a, n, h, r, i) = LeftAnc(w, n, h, r, i)
         /\ a # Len(AttrRecords(w.attrs)) => Took(LeftAttrs(w, a, n, h, r, i), Tagged("attr", AttrRecords(w.attrs)[a + 1]), LeftAttrs(w, a + 1, n, h, r, i))
         /\ IsSeq(LeftAnc(w, n, h, r, i))
         /\ n = Len(Ancestors(w.anc)) => LeftAnc(w, n, h, r, i) = LeftChildren(w, h, r, i)
         /\ n # Len(Ancestors(w.anc)) => Took(LeftAnc(w, n, h, r, i), Tagged("anc", Ancestors(w.anc)[n + 1]), LeftAnc(w, n + 1, h, r, i))
         /\ IsSeq(LeftChildren(w, h, r, i))
         /\ h = Len(w.children) => LeftChildren(w, h, r, i) = LeftHubs(w, r, i)
         /\ h # Len(w.children) => Took(LeftChildren(w, h, r, i), Tagged("c", w.children[h + 1]), LeftChildren(w, h + 1, r, i))
         /\ IsSeq(LeftHubs(w, r, i))
         /\ r = Len(w.hubs) => LeftHubs(w, r, i) = LeftInsts(w, i)
         /\ r # Len(w.hubs) => Took(LeftHubs(w, r, i), Tagged("rel", w.hubs[r + 1]), LeftHubs(w, r + 1, i))
         /\ IsSeq(LeftInsts(w, i))
         /\ i = Len(NumInsts(w.insts)) => LeftInsts(w, i) = <<>>
         /\ i # Len(NumInsts(w.insts)) => Took(LeftInsts(w, i), Tagged("insts", NumInsts(w.insts)[i + 1]), LeftInsts(w, i + 1))
<1>0. IsSeq(<<>>)
    BY NilSeq
<1>1. /\ IsSeq(LeftInsts(w, i))
      /\ i = Len(NumInsts(w.insts)) => LeftInsts(w, i) = <<>>
      /\ i # Len(NumInsts(w.insts)) => Took(LeftInsts(w, i), Tagged("insts", NumInsts(w.insts)[i + 1]), LeftInsts(w, i + 1))
  <2>1. IsSeq(NumInsts(w.insts)) /\ i \in 0..Len(NumInsts(w.insts))
      BY DEF Listed, InLists
  <2> QED BY <1>0, <2>1, FromStep, Zenon DEF LeftInsts
<1>2. /\ IsSeq(LeftHubs(w, r, i))
      /\ r = Len(w.hubs) => LeftHubs(w, r, i) = LeftInsts(w, i)
      /\ r # Len(w.hubs) => Took(LeftHubs(w, r, i), Tagged("rel", w.hubs[r + 1]), LeftHubs(w, r + 1, i))
  <2>1. IsSeq(w.hubs) /\ r \in 0..Len(w.hubs)
      BY DEF Listed, InLists
  <2> QED BY <1>1, <2>1, FromStep, Zenon DEF LeftHubs
<1>3. /\ IsSeq(LeftChildren(w, h, r, i))
      /\ h = Len(w.children) => LeftChildren(w, h, r, i) = LeftHubs(w, r, i)
      /\ h # Len(w.children) => Took(LeftChildren(w, h, r, i), Tagged("c", w.children[h + 1]), LeftChildren(w, h + 1, r, i))
  <2>1. IsSeq(w.children) /\ h \in 0..Len(w.children)
      BY DEF Listed, InLists
  <2> QED BY <1>2, <2>1, FromStep, Zenon DEF LeftChildren
<1>4. /\ IsSeq(LeftAnc(w, n, h, r, i))
      /\ n = Len(Ancestors(w.anc)) => LeftAnc(w, n, h, r, i) = LeftChildren(w, h, r, i)
      /\ n # Len(Ancestors(w.anc)) => Took(LeftAnc(w, n, h, r, i), Tagged("anc", Ancestors(w.anc)[n + 1]), LeftAnc(w, n + 1, h, r, i))
  <2>1. IsSeq(Ancestors(w.anc)) /\ n \in 0..Len(Ancestors(w.anc))
      BY DEF Listed, InLists
  <2> QED BY <1>3, <2>1, FromStep, Zenon DEF LeftAnc
<1>5. /\ IsSeq(LeftAttrs(w, a, n, h, r, i))
      /\ a = Len(AttrRecords(w.attrs)) => LeftAttrs(w, a, n, h, r, i) = LeftAnc(w, n, h, r, i)
      /\ a # Len(AttrRecords(w.attrs)) => Took(LeftAttrs(w, a, n, h, r, i), Tagged("attr", AttrRecords(w.attrs)[a + 1]), LeftAttrs(w, a + 1, n, h, r, i))
  <2>1. IsSeq(AttrRecords(w.attrs)) /\ a \in 0..Len(AttrRecords(w.attrs))
      BY DEF Listed, InLists
  <2> QED BY <1>4, <2>1, FromStep, Zenon DEF LeftAttrs
<1>6. /\ IsSeq(LeftBases(w, k, a, n, h, r, i))
      /\ k = Len(w.bases) => LeftBases(w, k, a, n, h, r, i) = LeftAttrs(w, a, n, h, r, i)
      /\ k # Len(w.bases) => Took(LeftBases(w, k, a, n, h, r, i), Tagged("is", w.bases[k + 1]), LeftBases(w, k + 1, a, n, h, r, i))
  <2>1. IsSeq(w.bases) /\ k \in 0..Len(w.bases)
      BY DEF Listed, InLists
  <2> QED BY <1>5, <2>1, FromStep, Zenon DEF LeftBases
<1>7. /\ IsSeq(LeftVals(w, k, v, a, n, h, r, i))
      /\ v = Len(BaseVals(w, k)) => LeftVals(w, k, v, a, n, h, r, i) = LeftBases(w, k, a, n, h, r, i)
      /\ v # Len(BaseVals(w, k)) => Took(LeftVals(w, k, v, a, n, h, r, i), Tagged("val", BaseVals(w, k)[v + 1]), LeftVals(w, k, v + 1, a, n, h, r, i))
  <2>1. IsSeq(BaseVals(w, k)) /\ v \in 0..Len(BaseVals(w, k))
      BY DEF Listed, InLists
  <2> QED BY <1>6, <2>1, FromStep, Zenon DEF LeftVals
<1>8. /\ IsSeq(Left(w, g, k, v, a, n, h, r, i))
      /\ g = Len(Glosses(w.tr)) => Left(w, g, k, v, a, n, h, r, i) = LeftVals(w, k, v, a, n, h, r, i)
      /\ g # Len(Glosses(w.tr)) => Took(Left(w, g, k, v, a, n, h, r, i), Tagged("g", Glosses(w.tr)[g + 1]), Left(w, g + 1, k, v, a, n, h, r, i))
  <2>1. IsSeq(Glosses(w.tr)) /\ g \in 0..Len(Glosses(w.tr))
      BY DEF Listed, InLists
  <2> QED BY <1>7, <2>1, FromStep, Zenon DEF Left
<1> QED BY <1>1, <1>2, <1>3, <1>4, <1>5, <1>6, <1>7, <1>8

\* A record as it is written has everything left.
LEMMA RecordLeft == ASSUME NEW w, Listed(w) PROVE ClassRecord(w) = Left(w, 0, 0, 0, 0, 0, 0, 0, 0)
<1>1. IsSeq(BaseVals(w, 0)) /\ Len(BaseVals(w, 0)) = 0
  <2>1. Len(w.bases) \in Nat
      BY SeqHas DEF Listed
  <2>2. 0 \in 0..Len(w.bases)
      BY <2>1
  <2> QED BY <2>2, NilSeq DEF Listed, BaseVals
<1>2. \A s : IsSeq(s) => s \o <<>> = s
  <2> TAKE s
  <2> HAVE IsSeq(s)
  <2>1. s \in Seq(ToSet(s))
      BY DEF IsSeq
  <2> QED BY <2>1, ConcatEmptySeq
<1>3. Items("insts", NumInsts(w.insts)) = LeftInsts(w, 0)
  <2>1. Items("insts", NumInsts(w.insts)) = From("insts", NumInsts(w.insts), 0)
      BY FromAll DEF Listed
  <2>2. IsSeq(From("insts", NumInsts(w.insts), 0))
    <3>1. 0 \in 0..Len(NumInsts(w.insts))
        BY SeqHas DEF Listed
    <3> QED BY <3>1, FromSeq DEF Listed
  <2> QED BY <1>2, <2>1, <2>2, Zenon DEF LeftInsts
<1>4. /\ Items("rel", w.hubs) = From("rel", w.hubs, 0)
      /\ Items("c", w.children) = From("c", w.children, 0)
      /\ Items("anc", Ancestors(w.anc)) = From("anc", Ancestors(w.anc), 0)
      /\ Items("attr", AttrRecords(w.attrs)) = From("attr", AttrRecords(w.attrs), 0)
      /\ Items("is", w.bases) = From("is", w.bases, 0)
      /\ Items("g", Glosses(w.tr)) = From("g", Glosses(w.tr), 0)
    BY FromAll, Zenon DEF Listed
<1>5. LeftVals(w, 0, 0, 0, 0, 0, 0, 0) = LeftBases(w, 0, 0, 0, 0, 0, 0)
  <2>1. InLists(w, 0, 0, 0, 0, 0, 0, 0, 0)
      BY SeqHas DEF Listed, InLists
  <2> QED BY <1>1, <2>1, LeftStep
<1> QED BY <1>3, <1>4, <1>5, Zenon
        DEF ClassRecord, Left, LeftBases, LeftAttrs, LeftAnc, LeftChildren, LeftHubs

\* Where the reading is: all that comes before has been read.
AtVals(w, g) == g = Len(Glosses(w.tr))
AtBases(w, g, k, v) == AtVals(w, g) /\ v = Len(BaseVals(w, k))
AtAttrs(w, g, k, v) == AtBases(w, g, k, v) /\ k = Len(w.bases)
AtAnc(w, g, k, v, a) == AtAttrs(w, g, k, v) /\ a = Len(w.attrs)
AtChildren(w, g, k, v, a, n) == AtAnc(w, g, k, v, a) /\ n = Len(Ancestors(w.anc))
AtHubs(w, g, k, v, a, n, h) == AtChildren(w, g, k, v, a, n) /\ h = Len(w.children)
AtInsts(w, g, k, v, a, n, h, r) == AtHubs(w, g, k, v, a, n, h) /\ r = Len(w.hubs)
AtEnd(w, g, k, v, a, n, h, r, i) == AtInsts(w, g, k, v, a, n, h, r) /\ i = Len(NumInsts(w.insts))

LEMMA LeftDown ==
  ASSUME NEW w, Listed(w), NEW g, NEW k, NEW v, NEW a, NEW n, NEW h, NEW r, NEW i,
         InLists(w, g, k, v, a, n, h, r, i)
  PROVE  /\ AtVals(w, g) => Left(w, g, k, v, a, n, h, r, i) = LeftVals(w, k, v, a, n, h, r, i)
         /\ AtBases(w, g, k, v) => Left(w, g, k, v, a, n, h, r, i) = LeftBases(w, k, a, n, h, r, i)
         /\ AtAttrs(w, g, k, v) => Left(w, g, k, v, a, n, h, r, i) = LeftAttrs(w, a, n, h, r, i)
         /\ AtAnc(w, g, k, v, a) => Left(w, g, k, v, a, n, h, r, i) = LeftAnc(w, n, h, r, i)
         /\ AtChildren(w, g, k, v, a, n) => Left(w, g, k, v, a, n, h, r, i) = LeftChildren(w, h, r, i)
         /\ AtHubs(w, g, k, v, a, n, h) => Left(w, g, k, v, a, n, h, r, i) = LeftHubs(w, r, i)
         /\ AtInsts(w, g, k, v, a, n, h, r) => Left(w, g, k, v, a, n, h, r, i) = LeftInsts(w, i)
         /\ AtEnd(w, g, k, v, a, n, h, r, i) => Left(w, g, k, v, a, n, h, r, i) = <<>>
<1>1. AtVals(w, g) => Left(w, g, k, v, a, n, h, r, i) = LeftVals(w, k, v, a, n, h, r, i)
    BY LeftStep DEF AtVals
<1>2. AtBases(w, g, k, v) => Left(w, g, k, v, a, n, h, r, i) = LeftBases(w, k, a, n, h, r, i)
    BY <1>1, LeftStep DEF AtBases
<1>3. AtAttrs(w, g, k, v) => Left(w, g, k, v, a, n, h, r, i) = LeftAttrs(w, a, n, h, r, i)
    BY <1>2, LeftStep DEF AtAttrs
<1>4. AtAnc(w, g, k, v, a) => Left(w, g, k, v, a, n, h, r, i) = LeftAnc(w, n, h, r, i)
    BY <1>3, LeftStep DEF AtAnc, Listed
<1>5. AtChildren(w, g, k, v, a, n) => Left(w, g, k, v, a, n, h, r, i) = LeftChildren(w, h, r, i)
    BY <1>4, LeftStep DEF AtChildren
<1>6. AtHubs(w, g, k, v, a, n, h) => Left(w, g, k, v, a, n, h, r, i) = LeftHubs(w, r, i)
    BY <1>5, LeftStep DEF AtHubs
<1>7. AtInsts(w, g, k, v, a, n, h, r) => Left(w, g, k, v, a, n, h, r, i) = LeftInsts(w, i)
    BY <1>6, LeftStep DEF AtInsts
<1>8. AtEnd(w, g, k, v, a, n, h, r, i) => Left(w, g, k, v, a, n, h, r, i) = <<>>
    BY <1>7, LeftStep DEF AtEnd
<1> QED BY <1>1, <1>2, <1>3, <1>4, <1>5, <1>6, <1>7, <1>8

LEMMA NextGloss ==
  ASSUME NEW w, Listed(w), NEW g, NEW k, NEW v, NEW a, NEW n, NEW h, NEW r, NEW i,
         InLists(w, g, k, v, a, n, h, r, i), g # Len(Glosses(w.tr))
  PROVE  InLists(w, g + 1, k, v, a, n, h, r, i) /\ Took(Left(w, g, k, v, a, n, h, r, i), Tagged("g", Glosses(w.tr)[g + 1]), Left(w, g + 1, k, v, a, n, h, r, i))
<1>1. InLists(w, g + 1, k, v, a, n, h, r, i)
  <2>1. Len(Glosses(w.tr)) \in Nat
      BY SeqHas DEF Listed, InLists
  <2> QED BY <2>1 DEF InLists
<1> QED BY <1>1, LeftStep, Zenon

LEMMA NextVal ==
  ASSUME NEW w, Listed(w), NEW g, NEW k, NEW v, NEW a, NEW n, NEW h, NEW r, NEW i,
         InLists(w, g, k, v, a, n, h, r, i), AtVals(w, g), v # Len(BaseVals(w, k))
  PROVE  InLists(w, g, k, v + 1, a, n, h, r, i) /\ Took(Left(w, g, k, v, a, n, h, r, i), Tagged("val", BaseVals(w, k)[v + 1]), Left(w, g, k, v + 1, a, n, h, r, i))
<1>1. InLists(w, g, k, v + 1, a, n, h, r, i)
  <2>1. Len(BaseVals(w, k)) \in Nat
      BY SeqHas DEF Listed, InLists
  <2> QED BY <2>1 DEF InLists
<1>2. Left(w, g, k, v, a, n, h, r, i) = LeftVals(w, k, v, a, n, h, r, i)
    BY LeftDown
<1>3. Left(w, g, k, v + 1, a, n, h, r, i) = LeftVals(w, k, v + 1, a, n, h, r, i)
    BY <1>1, LeftDown
<1>4. Took(LeftVals(w, k, v, a, n, h, r, i), Tagged("val", BaseVals(w, k)[v + 1]), LeftVals(w, k, v + 1, a, n, h, r, i))
    BY LeftStep DEF Listed
<1> QED BY <1>1, <1>2, <1>3, <1>4, Zenon

LEMMA NextBase ==
  ASSUME NEW w, Listed(w), NEW g, NEW k, NEW v, NEW a, NEW n, NEW h, NEW r, NEW i,
         InLists(w, g, k, v, a, n, h, r, i), AtBases(w, g, k, v), k # Len(w.bases)
  PROVE  /\ InLists(w, g, k + 1, 0, a, n, h, r, i)
         /\ Took(Left(w, g, k, v, a, n, h, r, i), Tagged("is", w.bases[k + 1]), LeftBases(w, k + 1, a, n, h, r, i))
         /\ Items("val", w.bases[k + 1].vals) \o LeftBases(w, k + 1, a, n, h, r, i)
            = Left(w, g, k + 1, 0, a, n, h, r, i)
<1>1. InLists(w, g, k + 1, 0, a, n, h, r, i) /\ BaseVals(w, k + 1) = w.bases[k + 1].vals
  <2>1. Len(w.bases) \in Nat
      BY SeqHas DEF Listed
  <2>2. k + 1 \in 0..Len(w.bases) /\ k + 1 # 0
      BY <2>1 DEF InLists
  <2>3. Len(BaseVals(w, k + 1)) \in Nat
      BY <2>2, SeqHas DEF Listed
  <2> QED BY <2>2, <2>3 DEF InLists, BaseVals
<1>2. Left(w, g, k, v, a, n, h, r, i) = LeftBases(w, k, a, n, h, r, i)
    BY LeftDown
<1>3. Took(LeftBases(w, k, a, n, h, r, i), Tagged("is", w.bases[k + 1]), LeftBases(w, k + 1, a, n, h, r, i))
    BY LeftStep, Zenon
<1>4. Left(w, g, k + 1, 0, a, n, h, r, i) = LeftVals(w, k + 1, 0, a, n, h, r, i)
    BY <1>1, LeftDown DEF AtBases
<1>5. Items("val", w.bases[k + 1].vals) = From("val", BaseVals(w, k + 1), 0)
  <2>1. IsSeq(BaseVals(w, k + 1))
      BY <1>1 DEF Listed, InLists
  <2> QED BY <1>1, <2>1, FromAll
<1> QED BY <1>1, <1>2, <1>3, <1>4, <1>5, Zenon DEF LeftVals

LEMMA NextAttr ==
  ASSUME NEW w, Listed(w), NEW g, NEW k, NEW v, NEW a, NEW n, NEW h, NEW r, NEW i,
         InLists(w, g, k, v, a, n, h, r, i), AtAttrs(w, g, k, v), a # Len(w.attrs)
  PROVE  InLists(w, g, k, v, a + 1, n, h, r, i) /\ Took(Left(w, g, k, v, a, n, h, r, i), Tagged("attr", AttrRecord(w.attrs[a + 1])), Left(w, g, k, v, a + 1, n, h, r, i))
<1>1. InLists(w, g, k, v, a + 1, n, h, r, i)
  <2>1. Len(w.attrs) \in Nat
      BY SeqHas DEF Listed, InLists
  <2> QED BY <2>1 DEF InLists
<1>2. Left(w, g, k, v, a, n, h, r, i) = LeftAttrs(w, a, n, h, r, i)
    BY LeftDown
<1>3. Left(w, g, k, v, a + 1, n, h, r, i) = LeftAttrs(w, a + 1, n, h, r, i)
    BY <1>1, LeftDown
<1>4. Took(LeftAttrs(w, a, n, h, r, i), Tagged("attr", AttrRecords(w.attrs)[a + 1]), LeftAttrs(w, a + 1, n, h, r, i))
    BY LeftStep DEF Listed
<1>5. AttrRecords(w.attrs)[a + 1] = AttrRecord(w.attrs[a + 1])
  <2>1. IsSeq(w.attrs) /\ a \in 0..Len(w.attrs)
      BY Zenon DEF Listed, InLists
  <2>2. Len(w.attrs) \in Nat
      BY <2>1, SeqHas
  <2>3. a + 1 \in 1..Len(w.attrs)
      BY <2>1, <2>2
  <2> QED BY <2>3 DEF AttrRecords
<1> QED BY <1>1, <1>2, <1>3, <1>4, <1>5, Zenon

LEMMA NextAncestor ==
  ASSUME NEW w, Listed(w), NEW g, NEW k, NEW v, NEW a, NEW n, NEW h, NEW r, NEW i,
         InLists(w, g, k, v, a, n, h, r, i), AtAnc(w, g, k, v, a), n # Len(Ancestors(w.anc))
  PROVE  InLists(w, g, k, v, a, n + 1, h, r, i) /\ Took(Left(w, g, k, v, a, n, h, r, i), Tagged("anc", Ancestors(w.anc)[n + 1]), Left(w, g, k, v, a, n + 1, h, r, i))
<1>1. InLists(w, g, k, v, a, n + 1, h, r, i)
  <2>1. Len(Ancestors(w.anc)) \in Nat
      BY SeqHas DEF Listed, InLists
  <2> QED BY <2>1 DEF InLists
<1>2. Left(w, g, k, v, a, n, h, r, i) = LeftAnc(w, n, h, r, i)
    BY LeftDown
<1>3. Left(w, g, k, v, a, n + 1, h, r, i) = LeftAnc(w, n + 1, h, r, i)
    BY <1>1, LeftDown
<1>4. Took(LeftAnc(w, n, h, r, i), Tagged("anc", Ancestors(w.anc)[n + 1]), LeftAnc(w, n + 1, h, r, i))
    BY LeftStep DEF Listed
<1> QED BY <1>1, <1>2, <1>3, <1>4, Zenon

LEMMA NextChild ==
  ASSUME NEW w, Listed(w), NEW g, NEW k, NEW v, NEW a, NEW n, NEW h, NEW r, NEW i,
         InLists(w, g, k, v, a, n, h, r, i), AtChildren(w, g, k, v, a, n), h # Len(w.children)
  PROVE  InLists(w, g, k, v, a, n, h + 1, r, i) /\ Took(Left(w, g, k, v, a, n, h, r, i), Tagged("c", w.children[h + 1]), Left(w, g, k, v, a, n, h + 1, r, i))
<1>1. InLists(w, g, k, v, a, n, h + 1, r, i)
  <2>1. Len(w.children) \in Nat
      BY SeqHas DEF Listed, InLists
  <2> QED BY <2>1 DEF InLists
<1>2. Left(w, g, k, v, a, n, h, r, i) = LeftChildren(w, h, r, i)
    BY LeftDown
<1>3. Left(w, g, k, v, a, n, h + 1, r, i) = LeftChildren(w, h + 1, r, i)
    BY <1>1, LeftDown
<1>4. Took(LeftChildren(w, h, r, i), Tagged("c", w.children[h + 1]), LeftChildren(w, h + 1, r, i))
    BY LeftStep DEF Listed
<1> QED BY <1>1, <1>2, <1>3, <1>4, Zenon

LEMMA NextHub ==
  ASSUME NEW w, Listed(w), NEW g, NEW k, NEW v, NEW a, NEW n, NEW h, NEW r, NEW i,
         InLists(w, g, k, v, a, n, h, r, i), AtHubs(w, g, k, v, a, n, h), r # Len(w.hubs)
  PROVE  InLists(w, g, k, v, a, n, h, r + 1, i) /\ Took(Left(w, g, k, v, a, n, h, r, i), Tagged("rel", w.hubs[r + 1]), Left(w, g, k, v, a, n, h, r + 1, i))
<1>1. InLists(w, g, k, v, a, n, h, r + 1, i)
  <2>1. Len(w.hubs) \in Nat
      BY SeqHas DEF Listed, InLists
  <2> QED BY <2>1 DEF InLists
<1>2. Left(w, g, k, v, a, n, h, r, i) = LeftHubs(w, r, i)
    BY LeftDown
<1>3. Left(w, g, k, v, a, n, h, r + 1, i) = LeftHubs(w, r + 1, i)
    BY <1>1, LeftDown
<1>4. Took(LeftHubs(w, r, i), Tagged("rel", w.hubs[r + 1]), LeftHubs(w, r + 1, i))
    BY LeftStep DEF Listed
<1> QED BY <1>1, <1>2, <1>3, <1>4, Zenon

LEMMA NextInsts ==
  ASSUME NEW w, Listed(w), NEW g, NEW k, NEW v, NEW a, NEW n, NEW h, NEW r, NEW i,
         InLists(w, g, k, v, a, n, h, r, i), AtInsts(w, g, k, v, a, n, h, r), i # Len(NumInsts(w.insts))
  PROVE  InLists(w, g, k, v, a, n, h, r, i + 1) /\ Took(Left(w, g, k, v, a, n, h, r, i), Tagged("insts", NumInsts(w.insts)[i + 1]), Left(w, g, k, v, a, n, h, r, i + 1))
<1>1. InLists(w, g, k, v, a, n, h, r, i + 1)
  <2>1. Len(NumInsts(w.insts)) \in Nat
      BY SeqHas DEF Listed, InLists
  <2> QED BY <2>1 DEF InLists
<1>2. Left(w, g, k, v, a, n, h, r, i) = LeftInsts(w, i)
    BY LeftDown
<1>3. Left(w, g, k, v, a, n, h, r, i + 1) = LeftInsts(w, i + 1)
    BY <1>1, LeftDown
<1>4. Took(LeftInsts(w, i), Tagged("insts", NumInsts(w.insts)[i + 1]), LeftInsts(w, i + 1))
    BY LeftStep DEF Listed
<1> QED BY <1>1, <1>2, <1>3, <1>4, Zenon

LEMMA NoMore ==
  ASSUME NEW w, Listed(w), NEW g, NEW k, NEW v, NEW a, NEW n, NEW h, NEW r, NEW i,
         InLists(w, g, k, v, a, n, h, r, i)
  PROVE  Left(w, g, k, v, a, n, h, r, i) = <<>> <=> AtEnd(w, g, k, v, a, n, h, r, i)
<1>1. ASSUME AtEnd(w, g, k, v, a, n, h, r, i) PROVE Left(w, g, k, v, a, n, h, r, i) = <<>>
    BY <1>1, LeftDown
<1>2. ASSUME ~AtEnd(w, g, k, v, a, n, h, r, i) PROVE Left(w, g, k, v, a, n, h, r, i) # <<>>
    BY <1>2, NextGloss, NextVal, NextBase, NextAttr, NextAncestor, NextChild, NextHub, NextInsts DEF AtVals, AtBases, AtAttrs, AtAnc, AtChildren, AtHubs, AtInsts, AtEnd, Took
<1> QED BY <1>1, <1>2

---------------------------------------------------------------------------
(* What an item does to the object that is read.                           *)

Fields == {"by", "tr", "bases", "attrs", "impl", "anc", "children", "hubs", "insts", "idx"}
SameBut(p, o, F) == DOMAIN p = Fields /\ \A k \in Fields \ F : p[k] = o[k]

LEMMA GotGloss ==
  ASSUME NEW f, DOMAIN f.obj = Fields, NEW x
  PROVE  LET p == WithItem(f, Tagged("g", x))
         IN /\ SameBut(p, f.obj, {"tr"})
            /\ p.tr = Reverse(x)
<1> QED BY Zenon DEF WithItem, Tagged, SameBut, Fields

LEMMA GotBase ==
  ASSUME NEW f, DOMAIN f.obj = Fields, NEW x
  PROVE  LET p == WithItem(f, Tagged("is", x))
         IN /\ SameBut(p, f.obj, {"bases", "idx"})
            /\ p.bases = Append(f.obj.bases, [c |-> x.c, vals |-> <<>>])
            /\ p.idx = Inherit(f.obj.idx, cls[x.c].idx)
<1> QED BY Zenon DEF WithItem, Tagged, SameBut, Fields

LEMMA GotVal ==
  ASSUME NEW f, DOMAIN f.obj = Fields, NEW x
  PROVE  LET p == WithItem(f, Tagged("val", x))
         IN /\ SameBut(p, f.obj, {"bases", "idx"})
            /\ p.bases = WithVal(f.obj.bases, x)
            /\ p.idx = Given(f.obj.idx, x, f.id)
<1> QED BY Zenon DEF WithItem, Tagged, SameBut, Fields

LEMMA GotAttr ==
  ASSUME NEW f, DOMAIN f.obj = Fields, NEW x
  PROVE  LET p == WithItem(f, Tagged("attr", x))
         IN /\ SameBut(p, f.obj, {"attrs", "impl", "idx"})
            /\ p.attrs = Append(f.obj.attrs, ReadAttr(x))
            /\ p.idx = Declared(f.obj.idx, ReadAttr(x), Tagged(f.id, f.obj.by))
<1> QED BY Zenon DEF WithItem, Tagged, SameBut, Fields

LEMMA GotAncestor ==
  ASSUME NEW f, DOMAIN f.obj = Fields, NEW x
  PROVE  LET p == WithItem(f, Tagged("anc", x))
         IN /\ SameBut(p, f.obj, {"anc"})
            /\ p.anc = <<x>> \o f.obj.anc
<1> QED BY Zenon DEF WithItem, Tagged, SameBut, Fields

LEMMA GotChild ==
  ASSUME NEW f, DOMAIN f.obj = Fields, NEW x
  PROVE  LET p == WithItem(f, Tagged("c", x))
         IN /\ SameBut(p, f.obj, {"children"})
            /\ p.children = <<x>> \o f.obj.children
<1> QED BY Zenon DEF WithItem, Tagged, SameBut, Fields

LEMMA GotHub ==
  ASSUME NEW f, DOMAIN f.obj = Fields, NEW x
  PROVE  LET p == WithItem(f, Tagged("rel", x))
         IN /\ SameBut(p, f.obj, {"hubs"})
            /\ p.hubs = <<x>> \o f.obj.hubs
<1> QED BY Zenon DEF WithItem, Tagged, SameBut, Fields

LEMMA GotInsts ==
  ASSUME NEW f, DOMAIN f.obj = Fields, NEW x
  PROVE  LET p == WithItem(f, Tagged("insts", x))
         IN /\ SameBut(p, f.obj, {"insts"})
            /\ p.insts = x
<1> QED BY Zenon DEF WithItem, Tagged, SameBut, Fields

LEMMA ItemNeeds ==
  ASSUME NEW f, NEW x
  PROVE  /\ Needed(f, Tagged("is", x)) = x.c /\ Needed(f, Tagged("rel", x)) = x.tmpl
         /\ x \in DOMAIN f.obj.idx => Needed(f, Tagged("val", x)) =
                IF f.obj.idx[x].attr.type = "inner" THEN f.obj.idx[x].attr.refc ELSE None
         /\ x \notin DOMAIN f.obj.idx => Needed(f, Tagged("val", x)) = None
         /\ \A tag \in {"g", "attr", "anc", "c", "insts"} : Needed(f, Tagged(tag, x)) = None
<1> QED BY Zenon DEF Needed, Tagged

LEMMA ItemReadable ==
  ASSUME NEW f, NEW x
  PROVE  /\ Readable(f, Tagged("is", x)) <=> x.c \in DOMAIN db
         /\ Readable(f, Tagged("anc", x)) <=> x \in DOMAIN db
         /\ Readable(f, Tagged("c", x)) <=> x \in DOMAIN db
         /\ Readable(f, Tagged("val", x)) <=> x \in DOMAIN f.obj.idx
         /\ Readable(f, Tagged("attr", x)) <=> AttrReadable(x)
         /\ Readable(f, Tagged("rel", x)) <=> x.attr \in DOMAIN cls[x.tmpl].idx
         /\ Readable(f, Tagged("g", x)) /\ Readable(f, Tagged("insts", x))
<1> QED BY Zenon DEF Readable, Tagged

LEMMA ItemInside ==
  ASSUME NEW x
  PROVE  /\ Inside(Tagged("is", x)) = Items("val", x.vals)
         /\ \A tag \in {"g", "val", "attr", "anc", "c", "rel", "insts"} : Inside(Tagged(tag, x)) = <<>>
<1> QED BY Zenon DEF Inside, Tagged

---------------------------------------------------------------------------
(* What a class needs.                                                     *)

LEMMA ReachHas == ASSUME NEW d, NEW S, NEW x \in S, x \in DOMAIN d PROVE x \in Reach(d, S)
<1> QED BY DEF Reach

LEMMA ReachStep ==
  ASSUME NEW d, NEW S, NEW y \in Reach(d, S), NEW x \in Needs(d, y), x \in DOMAIN d
  PROVE  x \in Reach(d, S)
<1> QED BY Zenon DEF Reach

LEMMA ReachWithin ==
  ASSUME NEW d, NEW S, NEW A, A \subseteq Reach(d, S)
  PROVE  Reach(d, A) \subseteq Reach(d, S)
<1> SUFFICES ASSUME NEW x \in Reach(d, A), NEW T \in SUBSET DOMAIN d, S \subseteq T,
                    \A y \in T : Needs(d, y) \subseteq T
             PROVE  x \in T
    BY Zenon DEF Reach
<1>1. A \subseteq T
    BY DEF Reach
<1> QED BY <1>1 DEF Reach

LEMMA ReachClosed ==
  ASSUME NEW d, NEW S, NEW T \in SUBSET DOMAIN d, S \subseteq T, \A y \in T : Needs(d, y) \subseteq T
  PROVE  Reach(d, S) \subseteq T
<1> QED BY DEF Reach

\* Base k of a class.
LEMMA BaseIs ==
  ASSUME NEW d \in Stores, NEW c \in DOMAIN d, NEW k \in 1..Len(d[c].bases)
  PROVE  LET b == d[c].bases[k]
         IN /\ b = [c |-> b.c, vals |-> b.vals] /\ IsSeq(b.vals)
            /\ b.c \in DOMAIN d /\ b.c \in Needs(d, c) /\ ToSet(b.vals) \subseteq DOMAIN d[c].idx
            /\ DOMAIN d[b.c].idx \subseteq DOMAIN d[c].idx
            /\ \A id \in DOMAIN d[b.c].idx : d[c].idx[id].attr = d[b.c].idx[id].attr
<1> DEFINE b == d[c].bases[k]
<1>1. /\ b = [c |-> b.c, vals |-> b.vals] /\ IsSeq(b.vals) /\ b.c \in DOMAIN d
      /\ ToSet(b.vals) \subseteq DOMAIN d[c].idx /\ IsSeq(d[c].bases)
    BY StoresAssumption DEF BasesResolved
<1>2. b \in ToSet(d[c].bases)
    BY <1>1, SeqHas
<1>3. \A id \in DOMAIN d[b.c].idx : d[c].idx[id].attr = d[b.c].idx[id].attr
    BY <1>2, StoresAssumption DEF IdxResolved
<1>4. DOMAIN d[b.c].idx \subseteq DOMAIN d[c].idx
    BY <1>2, StoresAssumption DEF IdxResolved
<1>5. b.c \in Needs(d, c)
    BY DEF Needs
<1> QED BY <1>1, <1>3, <1>4, <1>5

---------------------------------------------------------------------------
(* The attributes of a class that is being read: k bases, v values of the  *)
(* last one and a attributes have been, l is what has been published.      *)

\* Values that base j gives or brings along.
Gave(d, c, j, k, v, id) == IF j < k THEN Gives(d, c, j, id) ELSE \E x \in 1..v : d[c].bases[k].vals[x] = id
InForce(d, c, giver, k, v, id) ==
    /\ \A j \in 1..k : Gave(d, c, j, k, v, id) => giver = c
    /\ \A j \in 1..k : Carries(d, c, j, id) /\ ~Gave(d, c, j, k, v, id) =>
                          giver = d[d[c].bases[j].c].idx[id].giver
    /\ (\A j \in 1..k : ~Carries(d, c, j, id) /\ ~Gave(d, c, j, k, v, id)) => giver = None
Uncontested(d, c, id) == \A x \in Reach(d, {c}) : ~Contested(d, x, id)

\* Attribute objects: of a published class, or of the one being read.
Theirs(d, l, of, id) == /\ of[1] \in DOMAIN l /\ of = <<of[1], l[of[1]].by>>
                        /\ \E a \in ToSet(d[of[1]].attrs) : a.id = id
Own(d, t, c, of, id, a) == of = Tagged(c, t) /\ \E j \in 1..a : d[c].attrs[j].id = id
AttrIs(d, c, attr, id) ==
    /\ attr = ReadAttr(AttrRecord(d[c].idx[id].attr))
    /\ d[c].idx[id].attr.type = "inner" => d[c].idx[id].attr.linked /\ d[c].idx[id].attr.refc \in DOMAIN d

IdxDomain(d, c, k, a) == {d[c].attrs[j].id : j \in 1..a} \cup UNION {DOMAIN d[d[c].bases[j].c].idx : j \in 1..k}
RefRead(d, l, t, c, ref, id, k, v, a) ==
    /\ AttrIs(d, c, ref.attr, id)
    /\ Theirs(d, l, ref.of, id) \/ Own(d, t, c, ref.of, id, a)
    /\ Uncontested(d, c, id) => InForce(d, c, ref.giver, k, v, id)
IdxRead(d, l, t, c, ids, k, v, a) ==
    /\ DOMAIN ids = IdxDomain(d, c, k, a)
    /\ \A id \in DOMAIN ids : RefRead(d, l, t, c, ids[id], id, k, v, a)

\* Nothing was read that cannot be, and only with what it needs.
AttrSound(a) == (a.type = "inner" => a.linked) /\ (a.proc # None => ~a.proc.long)
SoundSoFar(d, c, k, v, a) ==
    /\ \A j \in 1..a : AttrSound(d[c].attrs[j])
    /\ \A j \in 1..k : \A id : Gave(d, c, j, k, v, id) => \E i \in 1..j : id \in DOMAIN d[d[c].bases[i].c].idx
LoadedSoFar(d, l, c, k, v, r) ==
    /\ \A j \in 1..k : d[c].bases[j].c \in DOMAIN l
    /\ \A j \in 1..r : d[c].hubs[j].tmpl \in DOMAIN l
    /\ \A j \in 1..k : \A id : Gave(d, c, j, k, v, id) /\ d[c].idx[id].attr.type = "inner" =>
                                      d[c].idx[id].attr.refc \in DOMAIN l

\* A published class.
AsWritten(w, o) ==
    /\ o.tr = Reverse(w.tr) /\ o.bases = w.bases
    /\ o.anc = IF w.anc = <<Root>> THEN <<>> ELSE Reverse(w.anc)
    /\ o.children = Reverse(w.children)
    /\ ToSet(o.hubs) = ToSet(w.hubs)
    /\ o.insts = w.insts
    /\ Len(o.attrs) = Len(w.attrs)
    /\ \A k \in 1..Len(o.attrs) : SameAttr(w.attrs[k], o.attrs[k])
RefIs(d, l, c, ref, id) ==
    /\ AttrIs(d, c, ref.attr, id) /\ Theirs(d, l, ref.of, id)
    /\ Uncontested(d, c, id) => ref.giver = d[c].idx[id].giver
Published(d, l, c, o) ==
    /\ AsWritten(d[c], o)
    /\ DOMAIN o.idx = DOMAIN d[c].idx
    /\ \A id \in DOMAIN o.idx : RefIs(d, l, c, o.idx[id], id)
    /\ Sound(d, c) /\ Needs(d, c) \subseteq DOMAIN l
Loaded(d, l) == DOMAIN l \subseteq DOMAIN d /\ \A c \in DOMAIN l : Published(d, l, c, l[c])

\* All the values of a base have been read.
LEMMA GaveAll ==
  ASSUME NEW d \in Stores, NEW c \in DOMAIN d, NEW k \in 0..Len(d[c].bases), NEW j \in 1..k, NEW id
  PROVE  Gave(d, c, j, k, Len(BaseVals(d[c], k)), id) <=> Gives(d, c, j, id)
<1>1. Len(d[c].bases) \in Nat
    BY StoresAssumption, SeqHas DEF BasesResolved
<1>2. k \in 1..Len(d[c].bases) /\ k # 0
    BY <1>1
<1>3. IsSeq(d[c].bases[k].vals)
    BY <1>2, BaseIs
<1>4. BaseVals(d[c], k) = d[c].bases[k].vals
    BY <1>2 DEF BaseVals
<1>5. CASE j < k
    BY <1>5 DEF Gave
<1>6. CASE ~(j < k)
  <2>1. j = k
      BY <1>1, <1>6
  <2> QED BY <1>3, <1>4, <1>6, <2>1, SeqHas DEF Gave, Gives
<1> QED BY <1>5, <1>6

\* What is contested in a base is so in the class.
LEMMA UncontestedBase ==
  ASSUME NEW d \in Stores, NEW c \in DOMAIN d, NEW k \in 1..Len(d[c].bases), NEW id, Uncontested(d, c, id)
  PROVE  Uncontested(d, d[c].bases[k].c, id)
<1>1. c \in Reach(d, {c})
    BY ReachHas
<1>2. d[c].bases[k].c \in Needs(d, c) /\ d[c].bases[k].c \in DOMAIN d
    BY BaseIs
<1>3. {d[c].bases[k].c} \subseteq Reach(d, {c})
    BY <1>1, <1>2, ReachStep
<1> QED BY <1>3, ReachWithin DEF Uncontested

LEMMA OneSpeaks ==
  ASSUME NEW d, NEW c \in DOMAIN d, NEW id, Uncontested(d, c, id),
         NEW j \in 1..Len(d[c].bases), NEW k \in 1..Len(d[c].bases), j < k
  PROVE  ~(Speaks(d, c, j, id) /\ Speaks(d, c, k, id))
<1>1. c \in Reach(d, {c})
    BY ReachHas
<1> QED BY <1>1 DEF Uncontested, Contested

\* The next base: what it has is taken unless a value is there.
LEMMA ForceBase ==
  ASSUME NEW d \in Stores, NEW c \in DOMAIN d, NEW l, NEW t, NEW ids,
         NEW k \in 0..Len(d[c].bases), k # Len(d[c].bases),
         LET v == Len(BaseVals(d[c], k)) IN IdxRead(d, l, t, c, ids, k, v, 0) /\ SoundSoFar(d, c, k, v, 0),
         Loaded(d, l), d[c].bases[k + 1].c \in DOMAIN l,
         NEW id \in DOMAIN Inherit(ids, l[d[c].bases[k + 1].c].idx), Uncontested(d, c, id)
  PROVE  InForce(d, c, Inherit(ids, l[d[c].bases[k + 1].c].idx)[id].giver, k + 1, 0, id)
<1> DEFINE v == Len(BaseVals(d[c], k))
           b == d[c].bases[k + 1].c
           theirs == l[b].idx
           new == Inherit(ids, theirs)
<1>1. k \in Nat /\ k + 1 \in 1..Len(d[c].bases) /\ Len(d[c].bases) \in Nat
    BY StoresAssumption, SeqHas DEF BasesResolved
<1>2. Uncontested(d, b, id) /\ b \in DOMAIN d
    BY <1>1, UncontestedBase, BaseIs
<1>3. DOMAIN theirs = DOMAIN d[b].idx /\ (id \in DOMAIN theirs => theirs[id].giver = d[b].idx[id].giver)
    BY <1>2 DEF Loaded, Published, RefIs
<1>4. c # None
    BY StoresAssumption
<1>5. DOMAIN new = DOMAIN ids \cup DOMAIN theirs
    BY DEF Inherit
<1>6. \A j \in 1..k : Gave(d, c, j, k, v, id) <=> Gives(d, c, j, id)
    BY GaveAll
<1>7. \A j \in 1..k : Gave(d, c, j, k + 1, 0, id) <=> Gives(d, c, j, id)
    BY <1>1 DEF Gave
<1>8. ~Gave(d, c, k + 1, k + 1, 0, id)
    BY <1>1 DEF Gave
<1>9. \A j \in 1..k : DOMAIN d[d[c].bases[j].c].idx \subseteq DOMAIN ids
    BY DEF IdxRead, IdxDomain
<1>10. \A j \in 1..k : Carries(d, c, j, id) => id \in DOMAIN ids
    BY <1>9 DEF Carries
<1>11. \A j \in 1..k : Gives(d, c, j, id) => id \in DOMAIN ids
  <2> TAKE j \in 1..k
  <2> HAVE Gives(d, c, j, id)
  <2>1. PICK i \in 1..j : id \in DOMAIN d[d[c].bases[i].c].idx
      BY <1>6 DEF SoundSoFar
  <2>2. i \in 1..k
      BY <1>1
  <2> QED BY <1>9, <2>1, <2>2
<1>12. id \in DOMAIN ids => InForce(d, c, ids[id].giver, k, v, id)
    BY DEF IdxRead, RefRead
<1>13. Carries(d, c, k + 1, id) <=> id \in DOMAIN theirs /\ d[b].idx[id].giver # None
    BY <1>3 DEF Carries
<1>14. \A j \in 1..k : ~((Carries(d, c, j, id) \/ Gives(d, c, j, id)) /\ Carries(d, c, k + 1, id))
  <2> TAKE j \in 1..k
  <2>1. j \in 1..Len(d[c].bases) /\ j < k + 1
      BY <1>1
  <2> QED BY <1>1, <2>1, OneSpeaks DEF Speaks
<1> DEFINE G == new[id].giver
<1> SUFFICES /\ \A j \in 1..k : Gives(d, c, j, id) => G = c
             /\ \A j \in 1..k : Carries(d, c, j, id) /\ ~Gives(d, c, j, id) => G = d[d[c].bases[j].c].idx[id].giver
             /\ Carries(d, c, k + 1, id) => G = d[b].idx[id].giver
             /\ (\A j \in 1..k : ~Carries(d, c, j, id) /\ ~Gives(d, c, j, id)) /\ ~Carries(d, c, k + 1, id) => G = None
    BY <1>1, <1>7, <1>8 DEF InForce
<1>15. CASE id \notin DOMAIN ids
  <2>1. new[id] = theirs[id]
      BY <1>5, <1>15 DEF Inherit
  <2>2. id \in DOMAIN theirs /\ G = d[b].idx[id].giver
      BY <1>3, <1>5, <1>15, <2>1
  <2> HIDE DEF G, new, theirs, b
  <2> QED BY <1>10, <1>11, <1>13, <1>15, <2>2
<1>16. CASE id \in DOMAIN ids /\ id \in DOMAIN theirs /\ ids[id].giver = None
  <2>1. G = theirs[id].giver
      BY <1>5, <1>16 DEF Inherit, WithGiver
  <2>2. \A j \in 1..k : ~Gives(d, c, j, id)
      BY <1>4, <1>6, <1>12, <1>16 DEF InForce
  <2>3. \A j \in 1..k : ~Carries(d, c, j, id)
    <3> SUFFICES ASSUME NEW j \in 1..k, Carries(d, c, j, id) PROVE FALSE
        OBVIOUS
    <3>1. ids[id].giver = d[d[c].bases[j].c].idx[id].giver
        BY <1>6, <1>12, <1>16, <2>2 DEF InForce
    <3> QED BY <1>16, <3>1 DEF Carries
  <2> HIDE DEF G, new, theirs, b
  <2> QED BY <1>3, <1>13, <1>16, <2>1, <2>2, <2>3
<1>17. CASE id \in DOMAIN ids /\ ~(id \in DOMAIN theirs /\ ids[id].giver = None)
  <2>1. G = ids[id].giver
      BY <1>5, <1>17 DEF Inherit
  <2>2. InForce(d, c, G, k, v, id)
      BY <1>12, <1>17, <2>1
  <2> HIDE DEF G, new, v
  <2>3. /\ \A j \in 1..k : Gives(d, c, j, id) => G = c
        /\ \A j \in 1..k : Carries(d, c, j, id) /\ ~Gives(d, c, j, id) => G = d[d[c].bases[j].c].idx[id].giver
        /\ (\A j \in 1..k : ~Carries(d, c, j, id) /\ ~Gives(d, c, j, id)) => G = None
      BY <1>6, <2>2 DEF InForce
  <2>4. ~Carries(d, c, k + 1, id)
    <3> SUFFICES ASSUME Carries(d, c, k + 1, id) PROVE FALSE
        OBVIOUS
    <3>1. G # None
        BY <1>13, <1>17, <2>1
    <3> QED BY <1>14, <2>3, <3>1
  <2> QED BY <2>3, <2>4
<1> QED BY <1>15, <1>16, <1>17

LEMMA IdxBase ==
  ASSUME NEW d \in Stores, NEW c \in DOMAIN d, NEW l, NEW t, NEW ids,
         NEW k \in 0..Len(d[c].bases), k # Len(d[c].bases),
         LET v == Len(BaseVals(d[c], k)) IN IdxRead(d, l, t, c, ids, k, v, 0) /\ SoundSoFar(d, c, k, v, 0),
         Loaded(d, l), d[c].bases[k + 1].c \in DOMAIN l
  PROVE  IdxRead(d, l, t, c, Inherit(ids, l[d[c].bases[k + 1].c].idx), k + 1, 0, 0)
<1> DEFINE b == d[c].bases[k + 1].c
           theirs == l[b].idx
           new == Inherit(ids, theirs)
<1>1. k \in Nat /\ k + 1 \in 1..Len(d[c].bases)
    BY StoresAssumption, SeqHas DEF BasesResolved
<1>2. DOMAIN new = DOMAIN ids \cup DOMAIN theirs
    BY DEF Inherit
<1>3. DOMAIN theirs = DOMAIN d[b].idx
    BY DEF Loaded, Published
<1>4. DOMAIN new = IdxDomain(d, c, k + 1, 0)
  <2>1. DOMAIN ids = UNION {DOMAIN d[d[c].bases[j].c].idx : j \in 1..k}
      BY DEF IdxRead, IdxDomain
  <2>2. IdxDomain(d, c, k + 1, 0) = UNION {DOMAIN d[d[c].bases[j].c].idx : j \in 1..(k + 1)}
      BY DEF IdxDomain
  <2>3. 1..(k + 1) = 1..k \cup {k + 1}
      BY <1>1
  <2> HIDE DEF new, theirs
  <2>4. DOMAIN new = DOMAIN ids \cup DOMAIN d[d[c].bases[k + 1].c].idx
      BY <1>2, <1>3
  <2> QED BY <2>1, <2>2, <2>3, <2>4
<1>5. ASSUME NEW id \in DOMAIN new PROVE RefRead(d, l, t, c, new[id], id, k + 1, 0, 0)
  <2>1. Uncontested(d, c, id) => InForce(d, c, new[id].giver, k + 1, 0, id)
      BY ForceBase
  <2>2. id \in DOMAIN ids => /\ AttrIs(d, c, ids[id].attr, id)
                             /\ Theirs(d, l, ids[id].of, id) \/ Own(d, t, c, ids[id].of, id, 0)
      BY DEF IdxRead, RefRead
  <2>3. id \in DOMAIN theirs => AttrIs(d, c, theirs[id].attr, id) /\ Theirs(d, l, theirs[id].of, id)
    <3> SUFFICES ASSUME id \in DOMAIN theirs PROVE AttrIs(d, c, theirs[id].attr, id) /\ Theirs(d, l, theirs[id].of, id)
        OBVIOUS
    <3>1. AttrIs(d, b, theirs[id].attr, id) /\ Theirs(d, l, theirs[id].of, id)
        BY DEF Loaded, Published, RefIs
    <3>2. d[c].idx[id].attr = d[b].idx[id].attr
        BY <1>1, <1>3, BaseIs
    <3> QED BY <3>1, <3>2 DEF AttrIs
  <2>4. /\ id \in DOMAIN ids => new[id].attr = ids[id].attr /\ new[id].of = ids[id].of
        /\ id \notin DOMAIN ids => new[id] = theirs[id]
      BY <1>2 DEF Inherit, WithGiver
  <2> HIDE DEF new, theirs
  <2> QED BY <1>2, <2>1, <2>2, <2>3, <2>4 DEF RefRead
<1> QED BY <1>4, <1>5 DEF IdxRead

\* The next value of the base that is being read.
LEMMA IdxVal ==
  ASSUME NEW d \in Stores, NEW c \in DOMAIN d, NEW l, NEW t, NEW ids,
         NEW k \in 1..Len(d[c].bases), NEW v \in 0..Len(d[c].bases[k].vals), v # Len(d[c].bases[k].vals),
         IdxRead(d, l, t, c, ids, k, v, 0), d[c].bases[k].vals[v + 1] \in DOMAIN ids
  PROVE  IdxRead(d, l, t, c, Given(ids, d[c].bases[k].vals[v + 1], c), k, v + 1, 0)
<1> DEFINE x == d[c].bases[k].vals[v + 1]
           new == Given(ids, x, c)
<1>1. IsSeq(d[c].bases) /\ Len(d[c].bases) \in Nat /\ k \in Nat
    BY StoresAssumption, SeqHas DEF BasesResolved
<1>2. v \in Nat /\ v + 1 \in 1..Len(d[c].bases[k].vals) /\ x \in ToSet(d[c].bases[k].vals)
  <2>1. IsSeq(d[c].bases[k].vals)
      BY BaseIs
  <2>2. Len(d[c].bases[k].vals) \in Nat
      BY <2>1, SeqHas
  <2>3. v \in Nat /\ v + 1 \in 1..Len(d[c].bases[k].vals)
      BY <2>2
  <2> QED BY <2>1, <2>3, SeqHas
<1>3. DOMAIN new = DOMAIN ids
    BY DEF Given
<1>4. \A id \in DOMAIN ids : id # x => new[id] = ids[id]
    BY DEF Given
<1>5. new[x].attr = ids[x].attr /\ new[x].of = ids[x].of /\ new[x].giver = c
    BY DEF Given, WithGiver
<1>6. \A j \in 1..k : \A id : id # x => (Gave(d, c, j, k, v + 1, id) <=> Gave(d, c, j, k, v, id))
  <2> SUFFICES ASSUME NEW j \in 1..k, NEW id, id # x
               PROVE  Gave(d, c, j, k, v + 1, id) <=> Gave(d, c, j, k, v, id)
      OBVIOUS
  <2>1. (\E y \in 1..(v + 1) : d[c].bases[k].vals[y] = id) <=> (\E y \in 1..v : d[c].bases[k].vals[y] = id)
      BY <1>2
  <2> QED BY <2>1 DEF Gave
<1>7. Gave(d, c, k, k, v + 1, x)
    BY <1>1, <1>2 DEF Gave
<1> HIDE DEF new, x
<1>8. ASSUME NEW id \in DOMAIN ids, Uncontested(d, c, id)
      PROVE  InForce(d, c, new[id].giver, k, v + 1, id)
  <2>1. InForce(d, c, ids[id].giver, k, v, id)
      BY <1>8 DEF IdxRead, RefRead
  <2>2. CASE id # x
      BY <2>1, <2>2, <1>4, <1>6 DEF InForce
  <2>3. CASE id = x
    <3>1. \A j \in 1..k : j # k => ~Carries(d, c, j, id)
      <4> SUFFICES ASSUME NEW j \in 1..k, j # k, Carries(d, c, j, id) PROVE FALSE
          OBVIOUS
      <4>1. j \in 1..Len(d[c].bases) /\ j < k
          BY <1>1
      <4>2. Gives(d, c, k, id)
          BY <1>2, <2>3 DEF Gives
      <4> QED BY <1>8, <4>1, <4>2, OneSpeaks DEF Speaks
    <3>2. k \in 1..k
        BY <1>1
    <3> QED BY <1>5, <1>7, <2>3, <3>1, <3>2 DEF InForce
  <2> QED BY <2>2, <2>3
<1>9. ASSUME NEW id \in DOMAIN ids PROVE RefRead(d, l, t, c, new[id], id, k, v + 1, 0)
  <2>1. RefRead(d, l, t, c, ids[id], id, k, v, 0)
      BY DEF IdxRead
  <2> QED BY <2>1, <1>4, <1>5, <1>8 DEF RefRead
<1>10. DOMAIN new = IdxDomain(d, c, k, 0)
    BY <1>3 DEF IdxRead
<1> QED BY <1>3, <1>9, <1>10, Zenon DEF IdxRead, new, x

\* The next attribute: no base has it.
LEMMA IdxAttr ==
  ASSUME NEW d \in Stores, NEW c \in DOMAIN d, NEW l, NEW t, NEW ids, NEW v,
         NEW a \in 0..Len(d[c].attrs), a # Len(d[c].attrs),
         IdxRead(d, l, t, c, ids, Len(d[c].bases), v, a), SoundSoFar(d, c, Len(d[c].bases), v, a),
         d[c].attrs[a + 1].type = "inner" => d[c].attrs[a + 1].linked
  PROVE  IdxRead(d, l, t, c, Declared(ids, ReadAttr(AttrRecord(d[c].attrs[a + 1])), Tagged(c, t)),
                 Len(d[c].bases), v, a + 1)
<1> DEFINE x == d[c].attrs[a + 1]
           k == Len(d[c].bases)
           new == Declared(ids, ReadAttr(AttrRecord(x)), Tagged(c, t))
<1>1. /\ IsSeq(d[c].bases) /\ k \in Nat /\ IsSeq(d[c].attrs) /\ Len(d[c].attrs) \in Nat
      /\ a \in Nat /\ a + 1 \in 1..Len(d[c].attrs)
    BY StoresAssumption, SeqHas DEF BasesResolved, AttrsResolved
<1>2. /\ x.type = "inner" /\ x.linked => x.refc \in DOMAIN d
      /\ d[c].idx[x.id].attr = x
      /\ \A b \in ToSet(d[c].bases) : x.id \notin DOMAIN d[b.c].idx
    BY <1>1, StoresAssumption DEF AttrsResolved
<1>3. \A j \in 1..k : x.id \notin DOMAIN d[d[c].bases[j].c].idx
    BY <1>1, <1>2, SeqHas
<1>4. ReadAttr(AttrRecord(x)).id = x.id
    BY DEF ReadAttr, AttrRecord
<1>5. /\ DOMAIN new = {x.id} \cup DOMAIN ids
      /\ new[x.id] = [attr |-> ReadAttr(AttrRecord(x)), of |-> Tagged(c, t), giver |-> None]
      /\ \A id \in DOMAIN ids : id # x.id => new[id] = ids[id]
    BY <1>4 DEF Declared
<1>6. DOMAIN new = IdxDomain(d, c, k, a + 1)
  <2>1. DOMAIN ids = IdxDomain(d, c, k, a)
      BY DEF IdxRead
  <2>2. 1..(a + 1) = 1..a \cup {a + 1}
      BY <1>1
  <2>3. {d[c].attrs[j].id : j \in 1..(a + 1)} = {x.id} \cup {d[c].attrs[j].id : j \in 1..a}
      BY <2>2
  <2> HIDE DEF new, x, k
  <2> QED BY <1>5, <2>1, <2>3 DEF IdxDomain
<1>7. RefRead(d, l, t, c, new[x.id], x.id, k, v, a + 1)
  <2>1. AttrIs(d, c, new[x.id].attr, x.id)
      BY <1>2, <1>5 DEF AttrIs
  <2>2. Own(d, t, c, new[x.id].of, x.id, a + 1)
      BY <1>1, <1>5 DEF Own
  <2>3. \A j \in 1..k : ~Gave(d, c, j, k, v, x.id)
    <3> SUFFICES ASSUME NEW j \in 1..k, Gave(d, c, j, k, v, x.id) PROVE FALSE
        OBVIOUS
    <3>1. PICK i \in 1..j : x.id \in DOMAIN d[d[c].bases[i].c].idx
        BY DEF SoundSoFar
    <3>2. i \in 1..k
        BY <1>1
    <3> QED BY <1>3, <3>1, <3>2
  <2>4. \A j \in 1..k : ~Carries(d, c, j, x.id)
      BY <1>3 DEF Carries
  <2>5. new[x.id].giver = None
      BY <1>5
  <2> QED BY <2>1, <2>2, <2>3, <2>4, <2>5 DEF RefRead, InForce
<1>8. ASSUME NEW id \in DOMAIN ids, id # x.id PROVE RefRead(d, l, t, c, new[id], id, k, v, a + 1)
  <2>1. RefRead(d, l, t, c, ids[id], id, k, v, a) /\ new[id] = ids[id]
      BY <1>5, <1>8 DEF IdxRead
  <2>2. Own(d, t, c, ids[id].of, id, a) => Own(d, t, c, ids[id].of, id, a + 1)
      BY <1>1 DEF Own
  <2> QED BY <2>1, <2>2 DEF RefRead
<1> HIDE DEF new, k, x
<1>9. \A id \in DOMAIN new : RefRead(d, l, t, c, new[id], id, k, v, a + 1)
    BY <1>5, <1>7, <1>8
<1> QED BY <1>6, <1>9, Zenon DEF IdxRead, new, k, x

---------------------------------------------------------------------------
(* A class that is being read, between two items.                          *)

ObjRead(d, t, c, o, g, k, v, a, n, h, r, i) ==
    /\ DOMAIN o = Fields /\ o.by = t
    /\ o.tr = IF g = 0 THEN <<>> ELSE Reverse(d[c].tr)
    /\ o.bases = BasesRead(d[c].bases, k, v)
    /\ o.attrs = AttrsRead(d[c].attrs, a)
    /\ o.anc = Turned(Ancestors(d[c].anc), n)
    /\ o.children = Turned(d[c].children, h)
    /\ o.hubs = Turned(d[c].hubs, r)
    /\ o.insts = IF i = 0 THEN None ELSE d[c].insts

FrameRead(d, l, t, f, g, k, v, a, n, h, r, i) ==
    /\ InLists(d[f.id], g, k, v, a, n, h, r, i)
    /\ f.todo = Left(d[f.id], g, k, v, a, n, h, r, i)
    /\ a # 0 => k = Len(d[f.id].bases) /\ v = Len(BaseVals(d[f.id], k))
    /\ ObjRead(d, t, f.id, f.obj, g, k, v, a, n, h, r, i)
    /\ IdxRead(d, l, t, f.id, f.obj.idx, k, v, a)
    /\ SoundSoFar(d, f.id, k, v, a)
    /\ LoadedSoFar(d, l, f.id, k, v, r)
FrameOK(d, l, t, f) == f.id \in DOMAIN d /\ \E g, k, v, a, n, h, r, i : FrameRead(d, l, t, f, g, k, v, a, n, h, r, i)

Advance(f) == [id |-> f.id, obj |-> WithItem(f, Head(f.todo)), todo |-> Inside(Head(f.todo)) \o Tail(f.todo)]
\* An item is of a class that is needed, it is read, or the record is to blame.
GoesOn(t, f) ==
    LET c == Needed(f, Head(f.todo))
    IN /\ c \in DOMAIN db => c \in Needs(db, f.id)
       /\ (c \in DOMAIN db => c \in DOMAIN cls) =>
             IF Readable(f, Head(f.todo)) THEN FrameOK(db, cls, t, Advance(f)) ELSE ~Sound(db, f.id)

LEMMA NilJoin == ASSUME NEW s, IsSeq(s) PROVE <<>> \o s = s
<1>1. s \in Seq(ToSet(s))
    BY DEF IsSeq
<1> QED BY <1>1, ConcatEmptySeq

\* An item with nothing inside.
LEMMA Plain ==
  ASSUME NEW f, NEW item, NEW rest, Took(f.todo, item, rest), IsSeq(rest), Inside(item) = <<>>
  PROVE  /\ Advance(f).id = f.id /\ Advance(f).obj = WithItem(f, item) /\ Advance(f).todo = rest
         /\ Head(f.todo) = item
<1>1. Head(f.todo) = item /\ Tail(f.todo) = rest
    BY Zenon DEF Took
<1>2. <<>> \o rest = rest
    BY NilJoin
<1> HIDE DEF Inside, WithItem
<1> QED BY <1>1, <1>2, Zenon DEF Advance

\* Reading on where neither bases nor attributes are concerned.
LEMMA OtherItem ==
  ASSUME NEW d, NEW l, NEW t, NEW f, NEW p, p.id = f.id, p.obj.idx = f.obj.idx,
         NEW g, NEW k, NEW v, NEW a, NEW n, NEW h, NEW r, NEW i, FrameRead(d, l, t, f, g, k, v, a, n, h, r, i),
         NEW g1, NEW n1, NEW h1, NEW i1,
         InLists(d[f.id], g1, k, v, a, n1, h1, r, i1), p.todo = Left(d[f.id], g1, k, v, a, n1, h1, r, i1),
         ObjRead(d, t, f.id, p.obj, g1, k, v, a, n1, h1, r, i1)
  PROVE  FrameRead(d, l, t, p, g1, k, v, a, n1, h1, r, i1)
<1> QED BY DEF FrameRead

LEMMA GlossGoesOn ==
  ASSUME db \in Stores, NEW t, NEW f, f.id \in DOMAIN db,
         NEW g, NEW k, NEW v, NEW a, NEW n, NEW h, NEW r, NEW i, FrameRead(db, cls, t, f, g, k, v, a, n, h, r, i),
         g # Len(Glosses(db[f.id].tr))
  PROVE  GoesOn(t, f)
<1> DEFINE w == db[f.id]
           x == Glosses(w.tr)[g + 1]
           item == Tagged("g", x)
           rest == Left(w, g + 1, k, v, a, n, h, r, i)
           p == Advance(f)
<1>1. Listed(w) /\ InLists(w, g, k, v, a, n, h, r, i) /\ f.todo = Left(w, g, k, v, a, n, h, r, i) /\ ObjRead(db, t, f.id, f.obj, g, k, v, a, n, h, r, i)
    BY WrittenLists DEF FrameRead
<1>2. InLists(w, g + 1, k, v, a, n, h, r, i) /\ Took(f.todo, item, rest)
    BY <1>1, NextGloss
<1>3. IsSeq(rest) /\ Inside(item) = <<>>
    BY <1>1, <1>2, LeftStep, ItemInside
<1>4. Needed(f, item) = None /\ Readable(f, item) /\ None \notin DOMAIN db
    BY ItemNeeds, ItemReadable, StoresAssumption
<1>5. x = w.tr /\ g + 1 # 0
  <2>1. Len(<<>>) = 0 /\ Len(<<w.tr>>) = 1 /\ <<w.tr>>[1] = w.tr
      BY NilSeq, OneSeq
  <2>2. Glosses(w.tr) = <<w.tr>> /\ g = 0
      BY <1>1, <2>1 DEF Glosses, InLists
  <2> QED BY <2>1, <2>2
<1>6. DOMAIN f.obj = Fields
    BY <1>1 DEF ObjRead
<1> DEFINE o == WithItem(f, item)
<1>7. SameBut(o, f.obj, {"tr"}) /\ o.tr = Reverse(x)
    BY <1>6, GotGloss
<1>8. p.id = f.id /\ p.obj = o /\ p.todo = rest /\ Head(f.todo) = item
    BY <1>2, <1>3, Plain
<1> HIDE DEF p, o, item, rest, x
<1>9. ObjRead(db, t, f.id, o, g + 1, k, v, a, n, h, r, i)
    BY <1>1, <1>5, <1>7 DEF ObjRead, SameBut, Fields
<1>10. o.idx = f.obj.idx
    BY <1>7 DEF SameBut, Fields
<1>11. FrameRead(db, cls, t, p, g + 1, k, v, a, n, h, r, i)
    BY <1>2, <1>8, <1>9, <1>10, OtherItem DEF rest
<1>12. FrameOK(db, cls, t, p)
    BY <1>8, <1>11 DEF FrameOK
<1> QED BY <1>4, <1>8, <1>12 DEF GoesOn, p

LEMMA AncestorGoesOn ==
  ASSUME db \in Stores, NEW t, NEW f, f.id \in DOMAIN db,
         NEW g, NEW k, NEW v, NEW a, NEW n, NEW h, NEW r, NEW i, FrameRead(db, cls, t, f, g, k, v, a, n, h, r, i),
         AtAnc(db[f.id], g, k, v, a), n # Len(Ancestors(db[f.id].anc))
  PROVE  GoesOn(t, f)
<1> DEFINE w == db[f.id]
           x == Ancestors(w.anc)[n + 1]
           item == Tagged("anc", x)
           rest == Left(w, g, k, v, a, n + 1, h, r, i)
           p == Advance(f)
           o == WithItem(f, item)
<1>1. Listed(w) /\ InLists(w, g, k, v, a, n, h, r, i) /\ f.todo = Left(w, g, k, v, a, n, h, r, i) /\ ObjRead(db, t, f.id, f.obj, g, k, v, a, n, h, r, i)
    BY WrittenLists DEF FrameRead
<1>2. InLists(w, g, k, v, a, n + 1, h, r, i) /\ Took(f.todo, item, rest)
    BY <1>1, NextAncestor
<1>3. IsSeq(rest) /\ Inside(item) = <<>>
    BY <1>1, <1>2, LeftStep, ItemInside
<1>4. IsSeq(Ancestors(w.anc)) /\ n \in 0..Len(Ancestors(w.anc)) /\ Len(Ancestors(w.anc)) \in Nat
    BY <1>1, SeqHas DEF Listed, InLists
<1>5. x \in DOMAIN db
  <2>1. n + 1 \in 1..Len(Ancestors(w.anc)) /\ Len(Ancestors(w.anc)) # 0
      BY <1>4
  <2>2. w.anc # <<Root>> /\ Ancestors(w.anc) = w.anc
      BY <2>1, NilSeq DEF Ancestors
  <2>3. ToSet(w.anc) \subseteq DOMAIN db
      BY <2>2, StoresAssumption DEF RefsResolved
  <2>4. x \in ToSet(w.anc)
      BY <2>1, <2>2, <1>4, SeqHas
  <2> QED BY <2>3, <2>4
<1>6. Needed(f, item) = None /\ Readable(f, item) /\ None \notin DOMAIN db
    BY <1>5, ItemNeeds, ItemReadable, StoresAssumption
<1>7. SameBut(o, f.obj, {"anc"}) /\ o.anc = <<x>> \o f.obj.anc
  <2>1. DOMAIN f.obj = Fields
      BY <1>1 DEF ObjRead
  <2> QED BY <2>1, GotAncestor
<1>8. p.id = f.id /\ p.obj = o /\ p.todo = rest /\ Head(f.todo) = item
    BY <1>2, <1>3, Plain
<1>9. <<x>> \o Turned(Ancestors(w.anc), n) = Turned(Ancestors(w.anc), n + 1)
    BY <1>4, TurnedMore
<1> HIDE DEF p, o, item, rest, x
<1>10. ObjRead(db, t, f.id, o, g, k, v, a, n + 1, h, r, i)
    BY <1>1, <1>7, <1>9 DEF ObjRead, SameBut, Fields
<1>11. o.idx = f.obj.idx
    BY <1>7 DEF SameBut, Fields
<1>12. FrameRead(db, cls, t, p, g, k, v, a, n + 1, h, r, i)
    BY <1>2, <1>8, <1>10, <1>11, OtherItem DEF rest
<1>13. FrameOK(db, cls, t, p)
    BY <1>8, <1>12 DEF FrameOK
<1> QED BY <1>6, <1>8, <1>13 DEF GoesOn, p

LEMMA ChildGoesOn ==
  ASSUME db \in Stores, NEW t, NEW f, f.id \in DOMAIN db,
         NEW g, NEW k, NEW v, NEW a, NEW n, NEW h, NEW r, NEW i, FrameRead(db, cls, t, f, g, k, v, a, n, h, r, i),
         AtChildren(db[f.id], g, k, v, a, n), h # Len(db[f.id].children)
  PROVE  GoesOn(t, f)
<1> DEFINE w == db[f.id]
           x == w.children[h + 1]
           item == Tagged("c", x)
           rest == Left(w, g, k, v, a, n, h + 1, r, i)
           p == Advance(f)
           o == WithItem(f, item)
<1>1. Listed(w) /\ InLists(w, g, k, v, a, n, h, r, i) /\ f.todo = Left(w, g, k, v, a, n, h, r, i) /\ ObjRead(db, t, f.id, f.obj, g, k, v, a, n, h, r, i)
    BY WrittenLists DEF FrameRead
<1>2. InLists(w, g, k, v, a, n, h + 1, r, i) /\ Took(f.todo, item, rest)
    BY <1>1, NextChild
<1>3. IsSeq(rest) /\ Inside(item) = <<>>
    BY <1>1, <1>2, LeftStep, ItemInside
<1>4. IsSeq(w.children) /\ h \in 0..Len(w.children) /\ Len(w.children) \in Nat
    BY <1>1, SeqHas DEF Listed, InLists
<1>5. x \in DOMAIN db
  <2>1. h + 1 \in 1..Len(w.children)
      BY <1>4
  <2>2. ToSet(w.children) \subseteq DOMAIN db
      BY StoresAssumption DEF RefsResolved
  <2>3. x \in ToSet(w.children)
      BY <2>1, <1>4, SeqHas
  <2> QED BY <2>2, <2>3
<1>6. Needed(f, item) = None /\ Readable(f, item) /\ None \notin DOMAIN db
    BY <1>5, ItemNeeds, ItemReadable, StoresAssumption
<1>7. SameBut(o, f.obj, {"children"}) /\ o.children = <<x>> \o f.obj.children
  <2>1. DOMAIN f.obj = Fields
      BY <1>1 DEF ObjRead
  <2> QED BY <2>1, GotChild
<1>8. p.id = f.id /\ p.obj = o /\ p.todo = rest /\ Head(f.todo) = item
    BY <1>2, <1>3, Plain
<1>9. <<x>> \o Turned(w.children, h) = Turned(w.children, h + 1)
    BY <1>4, TurnedMore
<1> HIDE DEF p, o, item, rest, x
<1>10. ObjRead(db, t, f.id, o, g, k, v, a, n, h + 1, r, i)
    BY <1>1, <1>7, <1>9 DEF ObjRead, SameBut, Fields
<1>11. o.idx = f.obj.idx
    BY <1>7 DEF SameBut, Fields
<1>12. FrameRead(db, cls, t, p, g, k, v, a, n, h + 1, r, i)
    BY <1>2, <1>8, <1>10, <1>11, OtherItem DEF rest
<1>13. FrameOK(db, cls, t, p)
    BY <1>8, <1>12 DEF FrameOK
<1> QED BY <1>6, <1>8, <1>13 DEF GoesOn, p

LEMMA InstsGoesOn ==
  ASSUME db \in Stores, NEW t, NEW f, f.id \in DOMAIN db,
         NEW g, NEW k, NEW v, NEW a, NEW n, NEW h, NEW r, NEW i, FrameRead(db, cls, t, f, g, k, v, a, n, h, r, i),
         AtInsts(db[f.id], g, k, v, a, n, h, r), i # Len(NumInsts(db[f.id].insts))
  PROVE  GoesOn(t, f)
<1> DEFINE w == db[f.id]
           x == NumInsts(w.insts)[i + 1]
           item == Tagged("insts", x)
           rest == Left(w, g, k, v, a, n, h, r, i + 1)
           p == Advance(f)
           o == WithItem(f, item)
<1>1. Listed(w) /\ InLists(w, g, k, v, a, n, h, r, i) /\ f.todo = Left(w, g, k, v, a, n, h, r, i) /\ ObjRead(db, t, f.id, f.obj, g, k, v, a, n, h, r, i)
    BY WrittenLists DEF FrameRead
<1>2. InLists(w, g, k, v, a, n, h, r, i + 1) /\ Took(f.todo, item, rest)
    BY <1>1, NextInsts
<1>3. IsSeq(rest) /\ Inside(item) = <<>>
    BY <1>1, <1>2, LeftStep, ItemInside
<1>4. Needed(f, item) = None /\ Readable(f, item) /\ None \notin DOMAIN db
    BY ItemNeeds, ItemReadable, StoresAssumption
<1>5. x = w.insts /\ i + 1 # 0
  <2>1. Len(<<>>) = 0 /\ Len(<<w.insts>>) = 1 /\ <<w.insts>>[1] = w.insts
      BY NilSeq, OneSeq
  <2>2. NumInsts(w.insts) = <<w.insts>> /\ i = 0
      BY <1>1, <2>1 DEF NumInsts, InLists
  <2> QED BY <2>1, <2>2
<1>7. SameBut(o, f.obj, {"insts"}) /\ o.insts = x
  <2>1. DOMAIN f.obj = Fields
      BY <1>1 DEF ObjRead
  <2> QED BY <2>1, GotInsts
<1>8. p.id = f.id /\ p.obj = o /\ p.todo = rest /\ Head(f.todo) = item
    BY <1>2, <1>3, Plain
<1> HIDE DEF p, o, item, rest, x
<1>10. ObjRead(db, t, f.id, o, g, k, v, a, n, h, r, i + 1)
    BY <1>1, <1>5, <1>7 DEF ObjRead, SameBut, Fields
<1>11. o.idx = f.obj.idx
    BY <1>7 DEF SameBut, Fields
<1>12. FrameRead(db, cls, t, p, g, k, v, a, n, h, r, i + 1)
    BY <1>2, <1>8, <1>10, <1>11, OtherItem DEF rest
<1>13. FrameOK(db, cls, t, p)
    BY <1>8, <1>12 DEF FrameOK
<1> QED BY <1>4, <1>8, <1>13 DEF GoesOn, p

LEMMA HubGoesOn ==
  ASSUME db \in Stores, Loaded(db, cls), NEW t, NEW f, f.id \in DOMAIN db,
         NEW g, NEW k, NEW v, NEW a, NEW n, NEW h, NEW r, NEW i, FrameRead(db, cls, t, f, g, k, v, a, n, h, r, i),
         AtHubs(db[f.id], g, k, v, a, n, h), r # Len(db[f.id].hubs)
  PROVE  GoesOn(t, f)
<1> DEFINE w == db[f.id]
           x == w.hubs[r + 1]
           item == Tagged("rel", x)
           rest == Left(w, g, k, v, a, n, h, r + 1, i)
           p == Advance(f)
           o == WithItem(f, item)
<1>1. Listed(w) /\ InLists(w, g, k, v, a, n, h, r, i) /\ f.todo = Left(w, g, k, v, a, n, h, r, i) /\ ObjRead(db, t, f.id, f.obj, g, k, v, a, n, h, r, i)
    BY WrittenLists DEF FrameRead
<1>2. InLists(w, g, k, v, a, n, h, r + 1, i) /\ Took(f.todo, item, rest)
    BY <1>1, NextHub
<1>3. IsSeq(rest) /\ Inside(item) = <<>>
    BY <1>1, <1>2, LeftStep, ItemInside
<1>4. IsSeq(w.hubs) /\ r \in 0..Len(w.hubs) /\ Len(w.hubs) \in Nat /\ r + 1 \in 1..Len(w.hubs)
  <2>1. IsSeq(w.hubs) /\ r \in 0..Len(w.hubs) /\ r # Len(w.hubs)
      BY <1>1, Zenon DEF Listed, InLists
  <2> HIDE DEF w
  <2>2. Len(w.hubs) \in Nat
      BY <2>1, SeqHas
  <2> QED BY <2>1, <2>2
<1>5. x.tmpl \in DOMAIN db /\ x.tmpl \in Needs(db, f.id) /\ x.attr \in DOMAIN db[x.tmpl].idx
  <2>1. x \in ToSet(w.hubs)
      BY <1>4, SeqHas
  <2>2. x.tmpl \in DOMAIN db /\ x.attr \in DOMAIN db[x.tmpl].idx
      BY <2>1, StoresAssumption DEF RefsResolved
  <2>3. x.tmpl \in {w.hubs[j].tmpl : j \in 1..Len(w.hubs)}
      BY <1>4
  <2> QED BY <2>2, <2>3 DEF Needs
<1>6. Needed(f, item) = x.tmpl /\ (Readable(f, item) <=> x.attr \in DOMAIN cls[x.tmpl].idx)
    BY ItemNeeds, ItemReadable
<1>7. x.tmpl \in DOMAIN cls => DOMAIN cls[x.tmpl].idx = DOMAIN db[x.tmpl].idx
    BY DEF Loaded, Published
<1>8. SameBut(o, f.obj, {"hubs"}) /\ o.hubs = <<x>> \o f.obj.hubs
  <2>1. DOMAIN f.obj = Fields
      BY <1>1 DEF ObjRead
  <2> QED BY <2>1, GotHub
<1>9. p.id = f.id /\ p.obj = o /\ p.todo = rest /\ Head(f.todo) = item
    BY <1>2, <1>3, Plain
<1>10. <<x>> \o Turned(w.hubs, r) = Turned(w.hubs, r + 1)
    BY <1>4, TurnedMore
<1>11. x.tmpl \in DOMAIN cls => LoadedSoFar(db, cls, f.id, k, v, r + 1)
    BY <1>4 DEF FrameRead, LoadedSoFar
<1> HIDE DEF p, o, item, rest, x
<1>12. ObjRead(db, t, f.id, o, g, k, v, a, n, h, r + 1, i)
    BY <1>1, <1>8, <1>10 DEF ObjRead, SameBut, Fields
<1>13. o.idx = f.obj.idx
    BY <1>8 DEF SameBut, Fields
<1>14. x.tmpl \in DOMAIN cls => FrameRead(db, cls, t, p, g, k, v, a, n, h, r + 1, i)
    BY <1>2, <1>9, <1>11, <1>12, <1>13 DEF rest, FrameRead
<1>15. x.tmpl \in DOMAIN cls => FrameOK(db, cls, t, p)
    BY <1>9, <1>14 DEF FrameOK
<1> QED BY <1>5, <1>6, <1>7, <1>9, <1>15 DEF GoesOn, p

LEMMA AttrGoesOn ==
  ASSUME db \in Stores, NEW t, NEW f, f.id \in DOMAIN db,
         NEW g, NEW k, NEW v, NEW a, NEW n, NEW h, NEW r, NEW i, FrameRead(db, cls, t, f, g, k, v, a, n, h, r, i),
         AtAttrs(db[f.id], g, k, v), a # Len(db[f.id].attrs)
  PROVE  GoesOn(t, f)
<1> DEFINE w == db[f.id]
           x == w.attrs[a + 1]
           y == AttrRecord(x)
           item == Tagged("attr", y)
           rest == Left(w, g, k, v, a + 1, n, h, r, i)
           p == Advance(f)
           o == WithItem(f, item)
<1>1. Listed(w) /\ InLists(w, g, k, v, a, n, h, r, i) /\ f.todo = Left(w, g, k, v, a, n, h, r, i) /\ ObjRead(db, t, f.id, f.obj, g, k, v, a, n, h, r, i)
    BY WrittenLists DEF FrameRead
<1>2. InLists(w, g, k, v, a + 1, n, h, r, i) /\ Took(f.todo, item, rest)
    BY <1>1, NextAttr
<1>3. IsSeq(rest) /\ Inside(item) = <<>>
    BY <1>1, <1>2, LeftStep, ItemInside
<1>4. /\ IsSeq(w.attrs) /\ a \in 0..Len(w.attrs) /\ Len(w.attrs) \in Nat /\ a \in Nat /\ a + 1 \in 1..Len(w.attrs)
      /\ k = Len(w.bases) /\ v = Len(BaseVals(w, k))
  <2>1. IsSeq(w.attrs) /\ a \in 0..Len(w.attrs) /\ a # Len(w.attrs) /\ k = Len(w.bases) /\ v = Len(BaseVals(w, k))
      BY <1>1, Zenon DEF Listed, InLists, AtAttrs, AtBases
  <2> HIDE DEF w
  <2>2. Len(w.attrs) \in Nat
      BY <2>1, SeqHas
  <2> QED BY <2>1, <2>2
<1>5. Needed(f, item) = None /\ (Readable(f, item) <=> AttrReadable(y)) /\ None \notin DOMAIN db
    BY ItemNeeds, ItemReadable, StoresAssumption
<1>6. AttrReadable(y) <=> AttrSound(x)
  <2>1. x.type = "inner" /\ x.linked => x.refc \in DOMAIN db
      BY <1>4, StoresAssumption DEF AttrsResolved
  <2>2. y.type = x.type /\ y.proc = x.proc /\ y.refc = IF x.linked THEN x.refc ELSE None
      BY DEF AttrRecord
  <2> HIDE DEF x, y
  <2> QED BY <1>5, <2>1, <2>2 DEF AttrReadable, AttrSound
<1>7. ~AttrSound(x) => ~Sound(db, f.id)
    BY <1>4 DEF Sound, AttrSound
<1>8. SameBut(o, f.obj, {"attrs", "impl", "idx"}) /\ o.attrs = Append(f.obj.attrs, ReadAttr(y)) /\ o.idx = Declared(f.obj.idx, ReadAttr(y), Tagged(f.id, f.obj.by))
  <2>1. DOMAIN f.obj = Fields
      BY <1>1 DEF ObjRead
  <2> QED BY <2>1, GotAttr
<1>9. p.id = f.id /\ p.obj = o /\ p.todo = rest /\ Head(f.todo) = item
    BY <1>2, <1>3, Plain
<1>10. Append(AttrsRead(w.attrs, a), ReadAttr(y)) = AttrsRead(w.attrs, a + 1)
    BY <1>4, AttrsReadMore
<1>11. AttrSound(x) => IdxRead(db, cls, t, f.id, o.idx, k, v, a + 1)
  <2>1. f.obj.by = t
      BY <1>1 DEF ObjRead
  <2>2. IdxRead(db, cls, t, f.id, f.obj.idx, Len(w.bases), v, a) /\ SoundSoFar(db, f.id, Len(w.bases), v, a)
      BY <1>4 DEF FrameRead
  <2>3. AttrSound(x) => (x.type = "inner" => x.linked)
      BY DEF AttrSound
  <2> HIDE DEF o
  <2>4. AttrSound(x) => IdxRead(db, cls, t, f.id, Declared(f.obj.idx, ReadAttr(y), Tagged(f.id, t)), Len(w.bases), v, a + 1)
      BY <1>4, <2>2, <2>3, IdxAttr
  <2> QED BY <1>4, <1>8, <2>1, <2>4
<1>12. AttrSound(x) => SoundSoFar(db, f.id, k, v, a + 1)
    BY <1>4 DEF FrameRead, SoundSoFar
<1> HIDE DEF p, o, item, rest, x, y
<1>13. ObjRead(db, t, f.id, o, g, k, v, a + 1, n, h, r, i)
    BY <1>1, <1>8, <1>10 DEF ObjRead, SameBut, Fields
<1>14. AttrSound(x) => FrameRead(db, cls, t, p, g, k, v, a + 1, n, h, r, i)
    BY <1>2, <1>4, <1>9, <1>11, <1>12, <1>13 DEF rest, FrameRead
<1>15. AttrSound(x) => FrameOK(db, cls, t, p)
    BY <1>9, <1>14 DEF FrameOK
<1> QED BY <1>5, <1>6, <1>7, <1>9, <1>15 DEF GoesOn, p

LEMMA BaseGoesOn ==
  ASSUME db \in Stores, Loaded(db, cls), NEW t, NEW f, f.id \in DOMAIN db,
         NEW g, NEW k, NEW v, NEW a, NEW n, NEW h, NEW r, NEW i, FrameRead(db, cls, t, f, g, k, v, a, n, h, r, i),
         AtBases(db[f.id], g, k, v), k # Len(db[f.id].bases)
  PROVE  GoesOn(t, f)
<1> DEFINE c == f.id
           w == db[c]
           x == w.bases[k + 1]
           item == Tagged("is", x)
           rest == LeftBases(w, k + 1, a, n, h, r, i)
           p == Advance(f)
           o == WithItem(f, item)
<1>1. Listed(w) /\ InLists(w, g, k, v, a, n, h, r, i) /\ f.todo = Left(w, g, k, v, a, n, h, r, i) /\ ObjRead(db, t, c, f.obj, g, k, v, a, n, h, r, i)
    BY WrittenLists DEF FrameRead
<1>2. /\ InLists(w, g, k + 1, 0, a, n, h, r, i) /\ Took(f.todo, item, rest)
      /\ Items("val", x.vals) \o rest = Left(w, g, k + 1, 0, a, n, h, r, i)
  <2>1. AtBases(w, g, k, v) /\ k # Len(w.bases)
      OBVIOUS
  <2> HIDE DEF w
  <2> QED BY <1>1, <2>1, NextBase
<1>3. /\ IsSeq(w.bases) /\ Len(w.bases) \in Nat /\ k \in 0..Len(w.bases) /\ k \in Nat /\ k + 1 \in 1..Len(w.bases)
      /\ a = 0 /\ v = Len(BaseVals(w, k))
  <2>1. /\ IsSeq(w.bases) /\ k \in 0..Len(w.bases) /\ k # Len(w.bases) /\ v = Len(BaseVals(w, k))
        /\ a # 0 => k = Len(w.bases)
      BY <1>1, Zenon DEF Listed, InLists, AtBases, FrameRead
  <2> HIDE DEF w
  <2>2. Len(w.bases) \in Nat
      BY <2>1, SeqHas
  <2> QED BY <2>1, <2>2
<1>4. x.c \in DOMAIN db /\ x.c \in Needs(db, c) /\ IsSeq(x.vals)
    BY <1>3, BaseIs
<1>5. Needed(f, item) = x.c /\ Readable(f, item)
    BY <1>4, ItemNeeds, ItemReadable
<1>6. /\ SameBut(o, f.obj, {"bases", "idx"})
      /\ o.bases = Append(f.obj.bases, [c |-> x.c, vals |-> <<>>])
      /\ o.idx = Inherit(f.obj.idx, cls[x.c].idx)
  <2>1. DOMAIN f.obj = Fields
      BY <1>1 DEF ObjRead
  <2> QED BY <2>1, GotBase
<1>7. Head(f.todo) = item /\ p.id = c /\ p.obj = o /\ p.todo = Left(w, g, k + 1, 0, a, n, h, r, i)
  <2>1. Head(f.todo) = item /\ Tail(f.todo) = rest
      BY <1>2, Zenon DEF Took
  <2>2. Inside(item) = Items("val", x.vals)
      BY ItemInside
  <2> HIDE DEF item, rest, x
  <2> QED BY <1>2, <2>1, <2>2, Zenon DEF Advance
<1>8. Append(BasesRead(w.bases, k, v), [c |-> x.c, vals |-> <<>>]) = BasesRead(w.bases, k + 1, 0)
  <2>1. k # 0 => w.bases[k] = [c |-> w.bases[k].c, vals |-> w.bases[k].vals] /\ IsSeq(w.bases[k].vals) /\ v = Len(w.bases[k].vals)
    <3> SUFFICES ASSUME k # 0 PROVE w.bases[k] = [c |-> w.bases[k].c, vals |-> w.bases[k].vals] /\ IsSeq(w.bases[k].vals) /\ v = Len(w.bases[k].vals)
        OBVIOUS
    <3>1. k \in 1..Len(w.bases)
        BY <1>3
    <3>2. BaseVals(w, k) = w.bases[k].vals
        BY <1>3 DEF BaseVals
    <3> QED BY <1>3, <3>1, <3>2, BaseIs
  <2> QED BY <1>3, <1>4, <2>1, BaseMore
<1>9. x.c \in DOMAIN cls => IdxRead(db, cls, t, c, o.idx, k + 1, 0, 0)
  <2>1. LET u == Len(BaseVals(w, k)) IN IdxRead(db, cls, t, c, f.obj.idx, k, u, 0) /\ SoundSoFar(db, c, k, u, 0)
      BY <1>3 DEF FrameRead
  <2> HIDE DEF o
  <2> QED BY <1>3, <1>6, <2>1, IdxBase
<1>10. \A j \in 1..(k + 1) : \A id : Gave(db, c, j, k + 1, 0, id) => j \in 1..k /\ Gave(db, c, j, k, v, id)
  <2> SUFFICES ASSUME NEW j \in 1..(k + 1), NEW id, Gave(db, c, j, k + 1, 0, id)
               PROVE  j \in 1..k /\ Gave(db, c, j, k, v, id)
      OBVIOUS
  <2>1. j < k + 1 /\ Gives(db, c, j, id)
      BY <1>3 DEF Gave
  <2>2. j \in 1..k
      BY <1>3, <2>1
  <2> QED BY <1>3, <2>1, <2>2, GaveAll
<1>11. SoundSoFar(db, c, k + 1, 0, 0)
    BY <1>10 DEF FrameRead, SoundSoFar
<1>12. x.c \in DOMAIN cls => LoadedSoFar(db, cls, c, k + 1, 0, r)
    BY <1>3, <1>10 DEF FrameRead, LoadedSoFar
<1> HIDE DEF p, o, item, rest, x
<1>13. ObjRead(db, t, c, o, g, k + 1, 0, a, n, h, r, i)
    BY <1>1, <1>6, <1>8 DEF ObjRead, SameBut, Fields
<1>14. x.c \in DOMAIN cls => FrameRead(db, cls, t, p, g, k + 1, 0, a, n, h, r, i)
    BY <1>2, <1>3, <1>7, <1>9, <1>11, <1>12, <1>13 DEF FrameRead
<1>15. x.c \in DOMAIN cls => FrameOK(db, cls, t, p)
    BY <1>7, <1>14 DEF FrameOK
<1> QED BY <1>4, <1>5, <1>7, <1>15 DEF GoesOn, p

LEMMA ValGoesOn ==
  ASSUME db \in Stores, NEW t, NEW f, f.id \in DOMAIN db,
         NEW g, NEW k, NEW v, NEW a, NEW n, NEW h, NEW r, NEW i, FrameRead(db, cls, t, f, g, k, v, a, n, h, r, i),
         AtVals(db[f.id], g), v # Len(BaseVals(db[f.id], k))
  PROVE  GoesOn(t, f)
<1> DEFINE c == f.id
           w == db[c]
           x == w.bases[k].vals[v + 1]
           item == Tagged("val", x)
           rest == Left(w, g, k, v + 1, a, n, h, r, i)
           p == Advance(f)
           o == WithItem(f, item)
           A == w.idx[x].attr
<1>1. Listed(w) /\ InLists(w, g, k, v, a, n, h, r, i) /\ f.todo = Left(w, g, k, v, a, n, h, r, i) /\ ObjRead(db, t, c, f.obj, g, k, v, a, n, h, r, i)
    BY WrittenLists DEF FrameRead
<1>2. k # 0 /\ BaseVals(w, k) = w.bases[k].vals
  <2>1. v \in 0..Len(BaseVals(w, k))
      BY <1>1 DEF InLists
  <2>2. k # 0
      BY <2>1, NilSeq DEF BaseVals
  <2> QED BY <2>2 DEF BaseVals
<1>3. InLists(w, g, k, v + 1, a, n, h, r, i) /\ Took(f.todo, item, rest)
    BY <1>1, <1>2, NextVal
<1>4. IsSeq(rest) /\ Inside(item) = <<>>
    BY <1>1, <1>3, LeftStep, ItemInside
<1>5. IsSeq(w.bases) /\ Len(w.bases) \in Nat /\ k \in 1..Len(w.bases) /\ k \in Nat /\ a = 0
  <2>1. /\ IsSeq(w.bases) /\ k \in 0..Len(w.bases) /\ k # 0 /\ v # Len(BaseVals(w, k))
        /\ a # 0 => v = Len(BaseVals(w, k))
      BY <1>1, <1>2, Zenon DEF Listed, InLists, FrameRead
  <2> HIDE DEF w
  <2>2. Len(w.bases) \in Nat
      BY <2>1, SeqHas
  <2> QED BY <2>1, <2>2
<1>6. IsSeq(w.bases[k].vals) /\ v \in 0..Len(w.bases[k].vals) /\ v # Len(w.bases[k].vals)
    BY <1>1, <1>2, <1>5, BaseIs DEF InLists
<1>7. Len(w.bases[k].vals) \in Nat /\ v \in Nat /\ v + 1 \in 1..Len(w.bases[k].vals) /\ x \in ToSet(w.bases[k].vals)
    BY <1>6, SeqHas
<1>8. x \in DOMAIN f.obj.idx => AttrIs(db, c, f.obj.idx[x].attr, x)
    BY DEF FrameRead, IdxRead, RefRead
<1>9. DOMAIN f.obj.idx = UNION {DOMAIN db[w.bases[j].c].idx : j \in 1..k}
    BY <1>5 DEF FrameRead, IdxRead, IdxDomain
<1>10. Readable(f, item) <=> x \in DOMAIN f.obj.idx
    BY ItemReadable
<1>11. x \notin DOMAIN f.obj.idx => ~Sound(db, c)
    BY <1>5, <1>7, <1>9 DEF Sound
<1>12. A.type = "inner" => A.refc \in Needs(db, c)
  <2> SUFFICES ASSUME A.type = "inner" PROVE A.refc \in Needs(db, c)
      OBVIOUS
  <2> DEFINE R(j) == {w.idx[y].attr.refc : y \in {y \in ToSet(w.bases[j].vals) : w.idx[y].attr.type = "inner"}}
  <2>1. A.refc \in R(k)
      BY <1>7
  <2>2. A.refc \in UNION {R(j) : j \in 1..Len(w.bases)}
    <3> HIDE DEF R, A
    <3> QED BY <1>5, <2>1
  <2> HIDE DEF A
  <2> QED BY <2>2, Zenon DEF Needs
<1>13. x \in DOMAIN f.obj.idx => Needed(f, item) = IF A.type = "inner" THEN A.refc ELSE None
  <2> SUFFICES ASSUME x \in DOMAIN f.obj.idx PROVE Needed(f, item) = IF A.type = "inner" THEN A.refc ELSE None
      OBVIOUS
  <2>1. Needed(f, item) = IF f.obj.idx[x].attr.type = "inner" THEN f.obj.idx[x].attr.refc ELSE None
      BY ItemNeeds
  <2>2. f.obj.idx[x].attr = ReadAttr(AttrRecord(A)) /\ (A.type = "inner" => A.linked)
      BY <1>8 DEF AttrIs
  <2>3. ReadAttr(AttrRecord(A)).type = A.type /\ ReadAttr(AttrRecord(A)).refc = IF A.linked THEN A.refc ELSE None
      BY DEF ReadAttr, AttrRecord
  <2> HIDE DEF item, x, A
  <2> QED BY <2>1, <2>2, <2>3
<1>14. None \notin DOMAIN db /\ (x \notin DOMAIN f.obj.idx => Needed(f, item) = None)
    BY StoresAssumption, ItemNeeds
<1>15. /\ SameBut(o, f.obj, {"bases", "idx"})
       /\ o.bases = WithVal(f.obj.bases, x)
       /\ o.idx = Given(f.obj.idx, x, f.id)
  <2>1. DOMAIN f.obj = Fields
      BY <1>1 DEF ObjRead
  <2> QED BY <2>1, GotVal
<1>16. p.id = f.id /\ p.obj = o /\ p.todo = rest /\ Head(f.todo) = item
    BY <1>3, <1>4, Plain
<1>17. WithVal(BasesRead(w.bases, k, v), x) = BasesRead(w.bases, k, v + 1)
    BY <1>5, <1>6, ValMore
<1>18. x \in DOMAIN f.obj.idx => IdxRead(db, cls, t, c, o.idx, k, v + 1, 0)
  <2>1. IdxRead(db, cls, t, c, f.obj.idx, k, v, 0)
      BY <1>5 DEF FrameRead
  <2> HIDE DEF o
  <2> QED BY <1>5, <1>6, <1>15, <2>1, IdxVal
<1>19. \A j \in 1..k : \A id : Gave(db, c, j, k, v + 1, id) => Gave(db, c, j, k, v, id) \/ (j = k /\ id = x)
  <2> SUFFICES ASSUME NEW j \in 1..k, NEW id, Gave(db, c, j, k, v + 1, id), ~(j = k /\ id = x)
               PROVE  Gave(db, c, j, k, v, id)
      OBVIOUS
  <2>1. CASE j < k
      BY <2>1 DEF Gave
  <2>2. CASE ~(j < k)
    <3>1. j = k /\ id # x
        BY <2>2, <1>5
    <3>2. PICK y \in 1..(v + 1) : w.bases[k].vals[y] = id
        BY <2>2 DEF Gave
    <3>3. y \in 1..v
        BY <1>7, <3>1, <3>2
    <3> QED BY <2>2, <3>2, <3>3 DEF Gave
  <2> QED BY <2>1, <2>2
<1>20. x \in DOMAIN f.obj.idx => SoundSoFar(db, c, k, v + 1, 0)
  <2>1. SoundSoFar(db, c, k, v, 0)
      BY <1>5 DEF FrameRead
  <2>2. x \in DOMAIN f.obj.idx => \E j \in 1..k : x \in DOMAIN db[w.bases[j].c].idx
      BY <1>9
  <2> HIDE DEF x
  <2> QED BY <2>1, <2>2, <1>19 DEF SoundSoFar
<1>21. (A.type = "inner" => A.refc \in DOMAIN cls) => LoadedSoFar(db, cls, c, k, v + 1, r)
  <2>1. LoadedSoFar(db, cls, c, k, v, r)
      BY DEF FrameRead
  <2>2. \A j \in 1..k : \A id : Gave(db, c, j, k, v + 1, id) => Gave(db, c, j, k, v, id) \/ id = x
      BY <1>19
  <2>3. (A.type = "inner" => A.refc \in DOMAIN cls) => \A id : id = x /\ w.idx[id].attr.type = "inner" => w.idx[id].attr.refc \in DOMAIN cls
      OBVIOUS
  <2> HIDE DEF x, A
  <2> QED BY <2>1, <2>2, <2>3 DEF LoadedSoFar
<1>22. x \in DOMAIN f.obj.idx /\ A.type = "inner" => A.refc \in DOMAIN db
    BY <1>8 DEF AttrIs
<1> HIDE DEF p, o, item, rest, x, A
<1>23. ObjRead(db, t, c, o, g, k, v + 1, a, n, h, r, i)
    BY <1>1, <1>15, <1>17 DEF ObjRead, SameBut, Fields
<1>24. x \in DOMAIN f.obj.idx /\ (A.type = "inner" => A.refc \in DOMAIN cls) => FrameRead(db, cls, t, p, g, k, v + 1, a, n, h, r, i)
    BY <1>3, <1>5, <1>16, <1>18, <1>20, <1>21, <1>23 DEF rest, FrameRead
<1>25. x \in DOMAIN f.obj.idx /\ (A.type = "inner" => A.refc \in DOMAIN cls) => FrameOK(db, cls, t, p)
    BY <1>16, <1>24 DEF FrameOK
<1>26. CASE x \in DOMAIN f.obj.idx
    BY <1>10, <1>12, <1>13, <1>14, <1>16, <1>22, <1>25, <1>26 DEF GoesOn, p
<1>27. CASE x \notin DOMAIN f.obj.idx
    BY <1>10, <1>11, <1>14, <1>16, <1>27 DEF GoesOn, p
<1> QED BY <1>26, <1>27

LEMMA FrameGoesOn ==
  ASSUME db \in Stores, Loaded(db, cls), NEW t, NEW f, FrameOK(db, cls, t, f), f.todo # <<>>
  PROVE  GoesOn(t, f)
<1>1. f.id \in DOMAIN db
    BY DEF FrameOK
<1>2. PICK g, k, v, a, n, h, r, i : FrameRead(db, cls, t, f, g, k, v, a, n, h, r, i)
    BY DEF FrameOK
<1> DEFINE w == db[f.id]
<1>3. ~AtEnd(w, g, k, v, a, n, h, r, i)
  <2>1. Listed(w) /\ InLists(w, g, k, v, a, n, h, r, i) /\ f.todo = Left(w, g, k, v, a, n, h, r, i)
      BY <1>1, <1>2, WrittenLists DEF FrameRead
  <2> QED BY <2>1, NoMore
<1>4. CASE g # Len(Glosses(w.tr))
    BY <1>1, <1>2, <1>4, GlossGoesOn
<1>5. CASE AtVals(w, g) /\ v # Len(BaseVals(w, k))
    BY <1>1, <1>2, <1>5, ValGoesOn
<1>6. CASE AtBases(w, g, k, v) /\ k # Len(w.bases)
    BY <1>1, <1>2, <1>6, BaseGoesOn
<1>7. CASE AtAttrs(w, g, k, v) /\ a # Len(w.attrs)
    BY <1>1, <1>2, <1>7, AttrGoesOn
<1>8. CASE AtAnc(w, g, k, v, a) /\ n # Len(Ancestors(w.anc))
    BY <1>1, <1>2, <1>8, AncestorGoesOn
<1>9. CASE AtChildren(w, g, k, v, a, n) /\ h # Len(w.children)
    BY <1>1, <1>2, <1>9, ChildGoesOn
<1>10. CASE AtHubs(w, g, k, v, a, n, h) /\ r # Len(w.hubs)
    BY <1>1, <1>2, <1>10, HubGoesOn
<1>11. CASE AtInsts(w, g, k, v, a, n, h, r) /\ i # Len(NumInsts(w.insts))
    BY <1>1, <1>2, <1>11, InstsGoesOn
<1> QED BY <1>3, <1>4, <1>5, <1>6, <1>7, <1>8, <1>9, <1>10, <1>11, Zenon
        DEF AtVals, AtBases, AtAttrs, AtAnc, AtChildren, AtHubs, AtInsts, AtEnd

\* A reading that begins.
LEMMA FrameStart ==
  ASSUME db \in Stores, NEW t, NEW c \in DOMAIN db, file[c] = ClassRecord(db[c])
  PROVE  FrameOK(db, cls, t, NewFrame(t, c))
<1> DEFINE w == db[c]
           f == NewFrame(t, c)
<1>1. Listed(w)
    BY WrittenLists
<1>2. /\ f.id = c /\ f.todo = Left(w, 0, 0, 0, 0, 0, 0, 0, 0) /\ f.obj.idx = <<>> /\ DOMAIN f.obj = Fields /\ f.obj.by = t
      /\ f.obj.tr = <<>> /\ f.obj.bases = <<>> /\ f.obj.attrs = <<>> /\ f.obj.anc = <<>> /\ f.obj.children = <<>>
      /\ f.obj.hubs = <<>> /\ f.obj.insts = None
    BY <1>1, RecordLeft DEF NewFrame, NewClass, Fields
<1> HIDE DEF f
<1>3. InLists(w, 0, 0, 0, 0, 0, 0, 0, 0)
  <2>1. /\ 0 \in 0..Len(Glosses(w.tr)) /\ 0 \in 0..Len(w.bases) /\ 0 \in 0..Len(w.attrs) /\ 0 \in 0..Len(Ancestors(w.anc))
        /\ 0 \in 0..Len(w.children) /\ 0 \in 0..Len(w.hubs) /\ 0 \in 0..Len(NumInsts(w.insts))
      BY <1>1, SeqHas DEF Listed
  <2>2. 0 \in 0..Len(BaseVals(w, 0))
      BY NilSeq DEF BaseVals
  <2> QED BY <2>1, <2>2 DEF InLists
<1>4. /\ BasesRead(w.bases, 0, 0) = <<>> /\ AttrsRead(w.attrs, 0) = <<>> /\ Turned(Ancestors(w.anc), 0) = <<>>
      /\ Turned(w.children, 0) = <<>> /\ Turned(w.hubs, 0) = <<>>
  <2>1. AttrsRead(w.attrs, 0) = <<>>
      BY <1>1, <1>3, AttrsReadMore DEF Listed, InLists
  <2>2. Turned(Ancestors(w.anc), 0) = <<>> /\ Turned(w.children, 0) = <<>> /\ Turned(w.hubs, 0) = <<>>
      BY <1>1, <1>3, TurnedMore DEF Listed, InLists
  <2> QED BY <1>1, <2>1, <2>2, NoBaseRead DEF Listed
<1>5. ObjRead(db, t, c, f.obj, 0, 0, 0, 0, 0, 0, 0, 0)
    BY <1>2, <1>4 DEF ObjRead
<1>6. IdxRead(db, cls, t, c, f.obj.idx, 0, 0, 0) /\ SoundSoFar(db, c, 0, 0, 0) /\ LoadedSoFar(db, cls, c, 0, 0, 0)
  <2>1. DOMAIN f.obj.idx = {} /\ IdxDomain(db, c, 0, 0) = {}
      BY <1>2 DEF IdxDomain
  <2> QED BY <2>1 DEF IdxRead, SoundSoFar, LoadedSoFar
<1>7. FrameRead(db, cls, t, f, 0, 0, 0, 0, 0, 0, 0, 0)
    BY <1>2, <1>3, <1>5, <1>6 DEF FrameRead
<1> QED BY <1>2, <1>7 DEF FrameOK, f

\* What has been read stays so when other classes are published.
Grows(d, l, m) == DOMAIN l \subseteq DOMAIN m /\ DOMAIN m \subseteq DOMAIN d /\ \A c \in DOMAIN l : m[c] = l[c]

LEMMA TheirsGrows ==
  ASSUME NEW d, NEW l, NEW m, Grows(d, l, m), NEW of, NEW id, Theirs(d, l, of, id)
  PROVE  Theirs(d, m, of, id)
<1> QED BY Zenon DEF Grows, Theirs

LEMMA FrameGrows ==
  ASSUME NEW d, NEW l, NEW m, Grows(d, l, m), NEW t, NEW f, FrameOK(d, l, t, f)
  PROVE  FrameOK(d, m, t, f)
<1>1. PICK g, k, v, a, n, h, r, i : FrameRead(d, l, t, f, g, k, v, a, n, h, r, i)
    BY DEF FrameOK
<1>2. IdxRead(d, m, t, f.id, f.obj.idx, k, v, a)
    BY <1>1, TheirsGrows DEF FrameRead, IdxRead, RefRead
<1>3. LoadedSoFar(d, m, f.id, k, v, r)
    BY <1>1 DEF FrameRead, LoadedSoFar, Grows
<1>4. FrameRead(d, m, t, f, g, k, v, a, n, h, r, i)
    BY <1>1, <1>2, <1>3 DEF FrameRead
<1> QED BY <1>4 DEF FrameOK

LEMMA PublishedGrows ==
  ASSUME NEW d, NEW l, NEW m, Grows(d, l, m), NEW c, NEW o, Published(d, l, c, o)
  PROVE  Published(d, m, c, o)
<1>1. \A id \in DOMAIN o.idx : RefIs(d, m, c, o.idx[id], id)
    BY TheirsGrows DEF Published, RefIs
<1>2. Needs(d, c) \subseteq DOMAIN m
    BY DEF Published, Grows
<1> QED BY <1>1, <1>2 DEF Published

\* The value in force, where no two bases have one.
LEMMA ForceAll ==
  ASSUME NEW d \in Stores, NEW c \in DOMAIN d, NEW id \in DOMAIN d[c].idx, Uncontested(d, c, id), NEW giver,
         LET k == Len(d[c].bases) IN InForce(d, c, giver, k, Len(BaseVals(d[c], k)), id)
  PROVE  giver = d[c].idx[id].giver
<1> DEFINE K == Len(d[c].bases)
           v == Len(BaseVals(d[c], K))
<1>1. IsSeq(d[c].bases) /\ K \in Nat /\ K \in 0..K
    BY StoresAssumption, SeqHas DEF BasesResolved
<1>2. \A j \in 1..K : Gave(d, c, j, K, v, id) <=> Gives(d, c, j, id)
    BY <1>1, GaveAll
<1>3. /\ \A j \in 1..K : Gives(d, c, j, id) => giver = c
      /\ \A j \in 1..K : Carries(d, c, j, id) /\ ~Gives(d, c, j, id) => giver = d[d[c].bases[j].c].idx[id].giver
      /\ (\A j \in 1..K : ~Carries(d, c, j, id) /\ ~Gives(d, c, j, id)) => giver = None
    BY <1>2 DEF InForce
<1>4. /\ \A k \in 1..K : Speaks(d, c, k, id) /\ (\A j \in (k + 1)..K : ~Speaks(d, c, j, id)) =>
                    d[c].idx[id].giver = IF Gives(d, c, k, id) THEN c ELSE d[d[c].bases[k].c].idx[id].giver
      /\ (\A k \in 1..K : ~Speaks(d, c, k, id)) => d[c].idx[id].giver = None
    BY StoresAssumption DEF IdxResolved
<1>5. CASE \A k \in 1..K : ~Speaks(d, c, k, id)
    BY <1>3, <1>4, <1>5 DEF Speaks
<1>6. ASSUME NEW k \in 1..K, Speaks(d, c, k, id) PROVE giver = d[c].idx[id].giver
  <2>1. \A j \in (k + 1)..K : ~Speaks(d, c, j, id)
    <3> TAKE j \in (k + 1)..K
    <3>1. j \in 1..K /\ k < j
        BY <1>1
    <3> QED BY <1>6, <3>1, OneSpeaks
  <2>2. d[c].idx[id].giver = IF Gives(d, c, k, id) THEN c ELSE d[d[c].bases[k].c].idx[id].giver
      BY <1>4, <1>6, <2>1
  <2> QED BY <1>3, <1>6, <2>2 DEF Speaks
<1> QED BY <1>5, <1>6

LEMMA TurnedSet == ASSUME NEW s, IsSeq(s) PROVE ToSet(Turned(s, Len(s))) = ToSet(s)
<1> DEFINE q == Turned(s, Len(s))
<1>1. Len(s) \in Nat /\ Len(s) \in 0..Len(s)
    BY SeqHas
<1>2. IsSeq(q) /\ Len(q) = Len(s)
    BY <1>1, TurnedMore
<1>3. \A i \in 1..Len(s) : q[i] = s[Len(s) - i + 1] /\ Len(s) - i + 1 \in 1..Len(s) /\ q[Len(s) - i + 1] = s[i]
  <2> TAKE i \in 1..Len(s)
  <2>1. Len(s) - i + 1 \in 1..Len(s) /\ Len(s) - (Len(s) - i + 1) + 1 = i
      BY <1>1
  <2> QED BY <2>1 DEF Turned
<1> HIDE DEF q
<1>4. /\ \A i \in 1..Len(s) : s[i] \in ToSet(s) /\ q[i] \in ToSet(q)
      /\ \A x \in ToSet(s) : \E i \in 1..Len(s) : s[i] = x
      /\ \A x \in ToSet(q) : \E i \in 1..Len(s) : q[i] = x
  <2>1. /\ \A i \in 1..Len(s) : s[i] \in ToSet(s)
        /\ \A x \in ToSet(s) : \E i \in 1..Len(s) : s[i] = x
      BY SeqHas, Zenon
  <2>2. /\ \A i \in 1..Len(q) : q[i] \in ToSet(q)
        /\ \A x \in ToSet(q) : \E i \in 1..Len(q) : q[i] = x
      BY <1>2, SeqHas, Zenon
  <2> QED BY <1>2, <2>1, <2>2
<1> HIDE DEF q
<1>5. ASSUME NEW x \in ToSet(q) PROVE x \in ToSet(s)
  <2>1. PICK i \in 1..Len(s) : q[i] = x
      BY <1>4
  <2> QED BY <1>3, <1>4, <2>1
<1>6. ASSUME NEW x \in ToSet(s) PROVE x \in ToSet(q)
  <2>1. PICK i \in 1..Len(s) : s[i] = x
      BY <1>4
  <2> QED BY <1>3, <1>4, <2>1
<1>7. ToSet(q) = ToSet(s)
    BY <1>5, <1>6
<1> QED BY <1>7 DEF q

\* An object whose reading has ended is that of the class that was written.
LEMMA ObjEnd ==
  ASSUME NEW d \in Stores, NEW c \in DOMAIN d, NEW t, NEW o,
         NEW g, NEW k, NEW v, NEW a, NEW n, NEW h, NEW r, NEW i, InLists(d[c], g, k, v, a, n, h, r, i),
         ObjRead(d, t, c, o, g, k, v, a, n, h, r, i), AtEnd(d[c], g, k, v, a, n, h, r, i)
  PROVE  AsWritten(d[c], o)
<1> DEFINE w == d[c]
<1>1. Listed(w)
    BY WrittenLists
<1>2. /\ g = Len(Glosses(w.tr)) /\ v = Len(BaseVals(w, k)) /\ k = Len(w.bases) /\ a = Len(w.attrs)
      /\ n = Len(Ancestors(w.anc)) /\ h = Len(w.children) /\ r = Len(w.hubs) /\ i = Len(NumInsts(w.insts))
    BY DEF AtEnd, AtInsts, AtHubs, AtChildren, AtAnc, AtAttrs, AtBases, AtVals
<1>3. o.tr = Reverse(w.tr)
  <2>1. CASE w.tr = <<>>
    <3>1. o.tr = <<>>
        BY <1>2, <2>1, NilSeq DEF ObjRead, Glosses
    <3>2. Reverse(<<>>) = <<>>
      <4>1. 0 \in 0..Len(<<>>) /\ Len(<<>>) = 0
          BY NilSeq
      <4> QED BY <4>1, NilSeq, TurnedMore
    <3> QED BY <2>1, <3>1, <3>2
  <2>2. CASE w.tr # <<>>
    <3>1. Len(<<w.tr>>) = 1
        BY OneSeq
    <3>2. g # 0
        BY <1>2, <2>2, <3>1 DEF Glosses
    <3> QED BY <3>2 DEF ObjRead
  <2> QED BY <2>1, <2>2
<1>4. o.bases = w.bases
  <2>1. o.bases = BasesRead(w.bases, Len(w.bases), v)
      BY <1>2 DEF ObjRead
  <2>2. Len(w.bases) # 0 => LET b == w.bases[Len(w.bases)] IN b = [c |-> b.c, vals |-> b.vals] /\ IsSeq(b.vals) /\ v = Len(b.vals)
    <3> SUFFICES ASSUME Len(w.bases) # 0
                 PROVE  LET b == w.bases[Len(w.bases)] IN b = [c |-> b.c, vals |-> b.vals] /\ IsSeq(b.vals) /\ v = Len(b.vals)
        OBVIOUS
    <3>1. Len(w.bases) \in Nat
        BY <1>1, SeqHas DEF Listed
    <3>2. Len(w.bases) \in 1..Len(w.bases)
        BY <3>1
    <3>3. BaseVals(w, k) = w.bases[k].vals
        BY <1>2 DEF BaseVals
    <3> QED BY <1>2, <3>2, <3>3, BaseIs
  <2>3. BasesRead(w.bases, Len(w.bases), v) = w.bases
      BY <1>1, <2>2, BasesReadAll DEF Listed
  <2> QED BY <2>1, <2>3
<1>5. o.anc = IF w.anc = <<Root>> THEN <<>> ELSE Reverse(w.anc)
  <2>1. o.anc = Turned(Ancestors(w.anc), Len(Ancestors(w.anc)))
      BY <1>2 DEF ObjRead
  <2>2. IsSeq(Ancestors(w.anc)) /\ Len(Ancestors(w.anc)) \in 0..Len(Ancestors(w.anc))
      BY <1>1, SeqHas DEF Listed
  <2>3. CASE w.anc = <<Root>>
    <3>1. Ancestors(w.anc) = <<>> /\ Len(Ancestors(w.anc)) = 0
        BY <2>3, NilSeq DEF Ancestors
    <3>2. Turned(Ancestors(w.anc), 0) = <<>>
        BY <2>2, TurnedMore
    <3> QED BY <2>1, <2>3, <3>1, <3>2
  <2>4. CASE w.anc # <<Root>>
    <3>1. Ancestors(w.anc) = w.anc
        BY <2>4 DEF Ancestors
    <3>2. Turned(w.anc, Len(w.anc)) = Reverse(w.anc)
        BY <2>2, <3>1, TurnedMore
    <3> QED BY <2>1, <2>4, <3>1, <3>2
  <2> QED BY <2>3, <2>4
<1>6. o.children = Reverse(w.children)
  <2>1. IsSeq(w.children) /\ Len(w.children) \in 0..Len(w.children)
      BY <1>1, SeqHas DEF Listed
  <2> QED BY <1>2, <2>1, TurnedMore DEF ObjRead
<1>7. ToSet(o.hubs) = ToSet(w.hubs)
    BY <1>1, <1>2, TurnedSet DEF ObjRead, Listed
<1>8. o.insts = w.insts
  <2>1. CASE w.insts = None
      BY <1>2, <2>1, NilSeq DEF ObjRead, NumInsts
  <2>2. CASE w.insts # None
    <3>1. Len(<<w.insts>>) = 1
        BY OneSeq
    <3>2. i # 0
        BY <1>2, <2>2, <3>1 DEF NumInsts
    <3> QED BY <3>2 DEF ObjRead
  <2> QED BY <2>1, <2>2
<1>9. Len(o.attrs) = Len(w.attrs) /\ \A j \in 1..Len(o.attrs) : SameAttr(w.attrs[j], o.attrs[j])
  <2>1. o.attrs = AttrsRead(w.attrs, Len(w.attrs))
      BY <1>2 DEF ObjRead
  <2>2. IsSeq(w.attrs) /\ Len(w.attrs) \in 0..Len(w.attrs)
      BY <1>1, SeqHas DEF Listed
  <2>3. Len(o.attrs) = Len(w.attrs)
      BY <2>1, <2>2, AttrsReadMore
  <2>4. \A j \in 1..Len(w.attrs) : o.attrs[j] = ReadAttr(AttrRecord(w.attrs[j]))
      BY <2>1 DEF AttrsRead
  <2>5. \A x : SameAttr(x, ReadAttr(AttrRecord(x)))
      BY DEF SameAttr, ReadAttr, AttrRecord
  <2> QED BY <2>3, <2>4, <2>5
<1> QED BY <1>3, <1>4, <1>5, <1>6, <1>7, <1>8, <1>9 DEF AsWritten

LEMMA FrameEnd ==
  ASSUME NEW d \in Stores, NEW l, NEW m, Grows(d, l, m), NEW t, NEW f, FrameOK(d, l, t, f), f.todo = <<>>,
         f.id \in DOMAIN m, m[f.id] = f.obj
  PROVE  Published(d, m, f.id, f.obj)
<1> DEFINE c == f.id
           w == d[c]
           o == f.obj
<1>1. c \in DOMAIN d
    BY DEF FrameOK
<1>2. PICK g, k, v, a, n, h, r, i : FrameRead(d, l, t, f, g, k, v, a, n, h, r, i)
    BY DEF FrameOK
<1>3. Listed(w) /\ InLists(w, g, k, v, a, n, h, r, i) /\ f.todo = Left(w, g, k, v, a, n, h, r, i) /\ ObjRead(d, t, c, o, g, k, v, a, n, h, r, i)
    BY <1>1, <1>2, WrittenLists DEF FrameRead
<1>4. AtEnd(w, g, k, v, a, n, h, r, i)
    BY <1>3, NoMore
<1>5. AsWritten(w, o)
    BY <1>1, <1>3, <1>4, ObjEnd
<1>6. v = Len(BaseVals(w, k)) /\ k = Len(w.bases) /\ a = Len(w.attrs) /\ r = Len(w.hubs)
    BY <1>4 DEF AtEnd, AtInsts, AtHubs, AtChildren, AtAnc, AtAttrs, AtBases, AtVals
<1>7. IsSeq(w.bases) /\ IsSeq(w.attrs) /\ k \in 0..Len(w.bases)
    BY <1>3 DEF Listed, InLists
<1>8. DOMAIN o.idx = DOMAIN w.idx
  <2>1. DOMAIN o.idx = IdxDomain(d, c, Len(w.bases), Len(w.attrs))
      BY <1>2, <1>6 DEF FrameRead, IdxRead
  <2>2. {w.attrs[j].id : j \in 1..Len(w.attrs)} = {x.id : x \in ToSet(w.attrs)}
      BY <1>7, SeqHas
  <2>3. {DOMAIN d[w.bases[j].c].idx : j \in 1..Len(w.bases)} = {DOMAIN d[b.c].idx : b \in ToSet(w.bases)}
      BY <1>7, SeqHas
  <2>4. DOMAIN w.idx = {x.id : x \in ToSet(w.attrs)} \cup UNION {DOMAIN d[b.c].idx : b \in ToSet(w.bases)}
      BY <1>1, StoresAssumption DEF IdxResolved
  <2> QED BY <2>1, <2>2, <2>3, <2>4 DEF IdxDomain
<1>9. \A j \in 1..k : \A id : Gave(d, c, j, k, v, id) <=> Gives(d, c, j, id)
    BY <1>1, <1>6, <1>7, GaveAll
<1>10. ASSUME NEW id \in DOMAIN o.idx PROVE RefIs(d, m, c, o.idx[id], id)
  <2>1. RefRead(d, l, t, c, o.idx[id], id, k, v, a)
      BY <1>2 DEF FrameRead, IdxRead
  <2>2. Theirs(d, m, o.idx[id].of, id)
    <3>1. CASE Theirs(d, l, o.idx[id].of, id)
        BY <3>1, TheirsGrows
    <3>2. CASE Own(d, t, c, o.idx[id].of, id, a)
      <4>1. PICK j \in 1..a : w.attrs[j].id = id
          BY <3>2 DEF Own
      <4>2. w.attrs[j] \in ToSet(w.attrs)
          BY <1>6, <1>7, <4>1, SeqHas
      <4>3. o.by = t
          BY <1>3 DEF ObjRead
      <4>4. o.idx[id].of = Tagged(c, t)
          BY <3>2 DEF Own
      <4>5. Tagged(c, t)[1] = c /\ Tagged(c, t) = <<c, t>>
          BY DEF Tagged
      <4>6. o.idx[id].of[1] = c /\ o.idx[id].of = <<c, m[c].by>>
          BY <4>3, <4>4, <4>5
      <4> QED BY <4>1, <4>2, <4>6 DEF Theirs
    <3> QED BY <2>1, <3>1, <3>2 DEF RefRead
  <2>3. Uncontested(d, c, id) => o.idx[id].giver = w.idx[id].giver
      BY <1>1, <1>6, <1>8, <2>1, ForceAll DEF RefRead
  <2> QED BY <2>1, <2>2, <2>3 DEF RefIs, RefRead
<1>11. Sound(d, c)
  <2>1. SoundSoFar(d, c, k, v, a)
      BY <1>2 DEF FrameRead
  <2>2. \A j \in 1..Len(w.attrs) : AttrSound(w.attrs[j])
      BY <1>6, <2>1 DEF SoundSoFar
  <2>3. \A j \in 1..Len(w.bases) : \A x \in ToSet(w.bases[j].vals) : \E y \in 1..j : x \in DOMAIN d[w.bases[y].c].idx
      BY <1>6, <1>9, <2>1 DEF SoundSoFar, Gives
  <2> QED BY <2>2, <2>3 DEF Sound, AttrSound
<1>12. Needs(d, c) \subseteq DOMAIN m
  <2>1. LoadedSoFar(d, l, c, k, v, r) /\ DOMAIN l \subseteq DOMAIN m
      BY <1>2 DEF FrameRead, Grows
  <2>2. {w.bases[j].c : j \in 1..Len(w.bases)} \subseteq DOMAIN m
      BY <1>6, <2>1 DEF LoadedSoFar
  <2>3. {w.hubs[j].tmpl : j \in 1..Len(w.hubs)} \subseteq DOMAIN m
      BY <1>6, <2>1 DEF LoadedSoFar
  <2>4. \A j \in 1..Len(w.bases) : \A x \in ToSet(w.bases[j].vals) : w.idx[x].attr.type = "inner" => w.idx[x].attr.refc \in DOMAIN m
      BY <1>6, <1>9, <2>1 DEF LoadedSoFar, Gives
  <2>5. UNION {{w.idx[x].attr.refc : x \in {x \in ToSet(w.bases[j].vals) : w.idx[x].attr.type = "inner"}} : j \in 1..Len(w.bases)} \subseteq DOMAIN m
      BY <2>4
  <2> QED BY <2>2, <2>3, <2>5 DEF Needs
<1> QED BY <1>5, <1>8, <1>10, <1>11, <1>12 DEF Published

---------------------------------------------------------------------------
(* The classes that a task is reading.                                     *)

\* s is the stack of a task that has asked for c.
StackOK(d, l, t, s, c) ==
    /\ IsSeq(s)
    /\ s # <<>> => s[1].id = c
    /\ \A j \in 1..Len(s) :
          /\ FrameOK(d, l, t, s[j]) /\ s[j].id \in Reach(d, {c})
          /\ \A i \in 1..Len(s) : i < j => s[j].id \in Reach(d, Needs(d, s[i].id))

LEMMA StackEmpty == ASSUME NEW d, NEW l, NEW t, NEW c PROVE StackOK(d, l, t, <<>>, c)
<1>1. \A j \in 1..Len(<<>>) : FALSE
    BY NilSeq
<1> QED BY <1>1, NilSeq, Zenon DEF StackOK

LEMMA StackFirst ==
  ASSUME NEW d, NEW l, NEW t, NEW f, FrameOK(d, l, t, f)
  PROVE  StackOK(d, l, t, <<f>>, f.id)
<1>1. f.id \in Reach(d, {f.id})
    BY ReachHas DEF FrameOK
<1> DEFINE s == <<f>>
<1>2. IsSeq(s) /\ Len(s) = 1 /\ s[1] = f
    BY OneSeq
<1> HIDE DEF s
<1>3. \A j \in 1..Len(s) : j = 1
    BY <1>2
<1> QED BY <1>1, <1>2, <1>3 DEF StackOK, s

LEMMA StackLast ==
  ASSUME NEW d, NEW l, NEW t, NEW s, NEW c, StackOK(d, l, t, s, c), s # <<>>
  PROVE  /\ IsSeq(s) /\ Len(s) \in 1..Len(s) /\ Last(s) = s[Len(s)] /\ FrameOK(d, l, t, Last(s))
         /\ Last(s).id \in DOMAIN d /\ Last(s).id \in Reach(d, {c})
         /\ c \in DOMAIN d
<1>1. IsSeq(s) /\ Len(s) \in Nat \ {0} /\ Last(s) = s[Len(s)]
    BY FrontSeq DEF StackOK
<1>2. Len(s) \in 1..Len(s) /\ 1 \in 1..Len(s)
    BY <1>1
<1>3. s[1].id = c /\ FrameOK(d, l, t, s[1])
    BY <1>2 DEF StackOK
<1>4. FrameOK(d, l, t, Last(s)) /\ Last(s).id \in Reach(d, {c})
    BY <1>1, <1>2 DEF StackOK
<1> QED BY <1>1, <1>2, <1>3, <1>4, Zenon DEF FrameOK

LEMMA StackPush ==
  ASSUME NEW d, NEW l, NEW t, NEW s, NEW c, StackOK(d, l, t, s, c), s # <<>>,
         NEW f, FrameOK(d, l, t, f), f.id \in Needs(d, Last(s).id)
  PROVE  StackOK(d, l, t, Append(s, f), c)
<1> DEFINE q == Append(s, f)
           L == Len(s)
<1>1. IsSeq(s) /\ L \in Nat /\ L \in 1..L /\ Last(s) = s[L] /\ f.id \in DOMAIN d
    BY StackLast, SeqHas DEF FrameOK
<1>2. IsSeq(q) /\ Len(q) = L + 1 /\ (\A j \in 1..L : q[j] = s[j]) /\ q[L + 1] = f
    BY <1>1, AppendSeq
<1> HIDE DEF q
<1>3. f.id \in Reach(d, {c})
    BY <1>1, StackLast, ReachStep
<1>4. \A i \in 1..L : f.id \in Reach(d, Needs(d, s[i].id))
  <2> TAKE i \in 1..L
  <2>1. CASE i = L
      BY <1>1, <2>1, ReachHas
  <2>2. CASE i # L
    <3>1. i < L
        BY <1>1, <2>2
    <3>2. s[L].id \in Reach(d, Needs(d, s[i].id))
        BY <1>1, <3>1 DEF StackOK
    <3> QED BY <1>1, <3>2, ReachStep
  <2> QED BY <2>1, <2>2
<1>5. ASSUME NEW j \in 1..Len(q)
      PROVE  /\ FrameOK(d, l, t, q[j]) /\ q[j].id \in Reach(d, {c})
             /\ \A i \in 1..Len(q) : i < j => q[j].id \in Reach(d, Needs(d, q[i].id))
  <2>1. CASE j = L + 1
    <3>1. \A i \in 1..Len(q) : i < j => i \in 1..L /\ q[i] = s[i]
        BY <1>1, <1>2, <2>1
    <3> QED BY <1>2, <1>3, <1>4, <2>1, <3>1
  <2>2. CASE j # L + 1
    <3>1. j \in 1..L /\ q[j] = s[j]
        BY <1>1, <1>2, <2>2
    <3>2. \A i \in 1..Len(q) : i < j => i \in 1..L /\ q[i] = s[i]
        BY <1>1, <1>2, <3>1
    <3> QED BY <3>1, <3>2 DEF StackOK
  <2> QED BY <2>1, <2>2
<1>6. q[1].id = c
  <2>1. 1 \in 1..L
      BY <1>1
  <2> QED BY <1>2, <2>1 DEF StackOK
<1> QED BY <1>2, <1>5, <1>6 DEF StackOK, q

LEMMA StackPop ==
  ASSUME NEW d, NEW l, NEW t, NEW s, NEW c, StackOK(d, l, t, s, c), s # <<>>
  PROVE  StackOK(d, l, t, Front(s), c)
<1> DEFINE q == Front(s)
<1>1. /\ IsSeq(s) /\ IsSeq(q) /\ Len(q) = Len(s) - 1 /\ Len(s) \in Nat \ {0}
      /\ \A i \in 1..(Len(s) - 1) : q[i] = s[i]
    BY FrontSeq DEF StackOK
<1> HIDE DEF q
<1>2. \A j \in 1..Len(q) : j \in 1..Len(s) /\ q[j] = s[j]
    BY <1>1
<1>3. q # <<>> => 1 \in 1..Len(q)
    BY <1>1, NilSeq
<1> QED BY <1>1, <1>2, <1>3 DEF StackOK, q

\* The innermost class goes on.
LEMMA StackNext ==
  ASSUME NEW d, NEW l, NEW t, NEW s, NEW c, StackOK(d, l, t, s, c), s # <<>>,
         NEW f, FrameOK(d, l, t, f), f.id = Last(s).id
  PROVE  StackOK(d, l, t, Append(Front(s), f), c)
<1> DEFINE b == Front(s)
           q == Append(b, f)
           L == Len(s)
<1>1. /\ IsSeq(s) /\ IsSeq(b) /\ Len(b) = L - 1 /\ L \in Nat \ {0} /\ L - 1 \in Nat
      /\ \A i \in 1..(L - 1) : b[i] = s[i]
      /\ Last(s) = s[L]
    BY FrontSeq DEF StackOK
<1> HIDE DEF b
<1>2. IsSeq(q) /\ Len(q) = Len(b) + 1 /\ (\A j \in 1..Len(b) : q[j] = b[j]) /\ q[Len(b) + 1] = f
    BY <1>1, AppendSeq
<1> HIDE DEF q
<1>3. Len(q) = L /\ (\A j \in 1..L : j # L => q[j] = s[j]) /\ q[L] = f
    BY <1>1, <1>2
<1> HIDE DEF L
<1>4. \A j \in 1..L : q[j].id = s[j].id /\ FrameOK(d, l, t, q[j])
  <2>1. \A j \in 1..L : FrameOK(d, l, t, s[j])
      BY DEF StackOK, L
  <2> QED BY <1>1, <1>3, <2>1
<1>5. 1 \in 1..L
    BY <1>1
<1> QED BY <1>2, <1>3, <1>4, <1>5 DEF StackOK, q, b, L

LEMMA StackGrows ==
  ASSUME NEW d, NEW l, NEW m, Grows(d, l, m), NEW t, NEW s, NEW c, StackOK(d, l, t, s, c)
  PROVE  StackOK(d, m, t, s, c)
<1> QED BY FrameGrows DEF StackOK

---------------------------------------------------------------------------
(* The inductive invariant.  Before the repo is opened the memory is as it *)
(* was.  Then a task reads only from a file that is complete, whose        *)
(* records are those of the classes before the snapshot; the next file is  *)
(* written while nobody reads, and holds only classes that are loaded.     *)

Intact == \A c \in DOMAIN file : file[c] = ClassRecord(db[c])
Idle == \A t \in Tasks : stack[t] = <<>>
StacksOK == \A t \in Tasks : StackOK(db, cls, t, stack[t], asked[t])

TaskDomains == DOMAIN stack = Tasks /\ DOMAIN asked = Tasks /\ DOMAIN said = Tasks
Unasked == \A t \in Tasks : asked[t] = None => stack[t] = <<>> /\ said[t] = ""
BeforeOpened == ~opened => cls = db /\ Idle /\ Intact /\ up # "overflow" /\ \A t \in Tasks : said[t] = ""
WhenOpened == opened => /\ Loaded(db, cls)
                        /\ (FileComplete /\ Intact) \/ (Idle /\ DOMAIN file \subseteq DOMAIN cls)
SaidOK == \A t \in Tasks : said[t] = "ok" => asked[t] \in DOMAIN cls
SaidFail == \A t \in Tasks : said[t] = "fail" => \E c \in Reach(db, {asked[t]}) : ~Sound(db, c)
Overflows == up = "overflow" => \E c \in DOMAIN db : c \in Reach(db, Needs(db, c))

FilesInv ==
    /\ db \in Stores /\ DOMAIN file \subseteq DOMAIN db /\ TaskDomains /\ Unasked
    /\ BeforeOpened /\ WhenOpened /\ StacksOK /\ SaidOK /\ SaidFail /\ Overflows

LEMMA InvInit == FileInit => FilesInv
<1> SUFFICES ASSUME FileInit PROVE FilesInv
    OBVIOUS
<1>1. file = <<>> /\ DOMAIN file = {}
  <2>1. \A f : f = <<>> => DOMAIN f = {}
    <3>1. DOMAIN <<>> = 1..0
        BY NilSeq, SeqHas
    <3> QED BY <3>1
  <2>2. file = <<>>
      BY DEF FileInit
  <2> QED BY <2>1, <2>2, Zenon
<1>2. \A t \in Tasks : stack[t] = <<>> /\ asked[t] = None /\ said[t] = ""
    BY DEF FileInit
<1>3. StacksOK
    BY <1>2, StackEmpty DEF StacksOK
<1>4. TaskDomains /\ db \in Stores /\ cls = db /\ opened = FALSE /\ up = "runs"
    BY DEF FileInit, TaskDomains
<1> QED BY <1>1, <1>2, <1>3, <1>4
        DEF FilesInv, Unasked, BeforeOpened, WhenOpened, SaidOK, SaidFail, Overflows, Intact, Idle

LEMMA InvWriteClass == FilesInv /\ WriteClass => FilesInv'
<1> SUFFICES ASSUME FilesInv, WriteClass PROVE FilesInv'
    OBVIOUS
<1> USE DEF FilesInv
<1>1. UNCHANGED <<db, cls, stack, asked, said, opened>>
    BY DEF WriteClass
<1>2. PICK c \in DOMAIN db :
          /\ up = "runs" /\ DOMAIN file = {d \in DOMAIN db : d < c}
          /\ IF c \notin DOMAIN cls THEN up' = "assert" /\ UNCHANGED file
             ELSE file' = Filled(file, c, ClassRecord(cls[c])) /\ UNCHANGED up
    BY DEF WriteClass
<1>3. ~FileComplete
  <2>1. c \in Nat
      BY StoresAssumption
  <2> QED BY <1>2, <2>1 DEF FileComplete
<1>4. DOMAIN file' \subseteq DOMAIN db
    BY <1>2 DEF Filled
<1>5. opened => DOMAIN file' \subseteq DOMAIN cls
    BY <1>2, <1>3 DEF Filled, WhenOpened
<1>6. ~opened => Intact'
    BY <1>1, <1>2 DEF Filled, BeforeOpened, Intact
<1>7. up' # "overflow"
    BY <1>2
<1>8. StacksOK'
    BY <1>1 DEF StacksOK
<1>9. BeforeOpened'
    BY <1>1, <1>6, <1>7 DEF BeforeOpened, Idle
<1>10. WhenOpened'
    BY <1>1, <1>3, <1>5 DEF WhenOpened, Idle
<1> QED BY <1>1, <1>4, <1>7, <1>8, <1>9, <1>10 DEF TaskDomains, Unasked, SaidOK, SaidFail, Overflows

LEMMA InvReopen == FilesInv /\ Reopen => FilesInv'
<1> SUFFICES ASSUME FilesInv, Reopen PROVE FilesInv'
    OBVIOUS
<1> USE DEF FilesInv
<1>1. UNCHANGED <<db, file, stack, asked, said, up>> /\ FileComplete /\ ~opened /\ opened' /\ DOMAIN cls' = {}
    BY DEF Reopen
<1>2. Idle /\ Intact /\ up # "overflow" /\ \A t \in Tasks : said[t] = ""
    BY <1>1 DEF BeforeOpened
<1>3. StacksOK'
    BY <1>1, <1>2, StackEmpty DEF StacksOK, Idle
<1>4. WhenOpened'
    BY <1>1, <1>2 DEF WhenOpened, Loaded, FileComplete, Intact
<1> QED BY <1>1, <1>2, <1>3, <1>4 DEF TaskDomains, Unasked, BeforeOpened, SaidOK, SaidFail, Overflows

LEMMA InvSnapshotAgain == FilesInv /\ SnapshotAgain => FilesInv'
<1> SUFFICES ASSUME FilesInv, SnapshotAgain PROVE FilesInv'
    OBVIOUS
<1> USE DEF FilesInv
<1>1. UNCHANGED <<db, cls, stack, asked, said, opened, up>> /\ opened /\ Idle /\ DOMAIN file' = {}
    BY DEF SnapshotAgain, Idle
<1>2. StacksOK'
    BY <1>1 DEF StacksOK
<1>3. WhenOpened'
    BY <1>1 DEF WhenOpened, Idle
<1> QED BY <1>1, <1>2, <1>3 DEF TaskDomains, Unasked, BeforeOpened, SaidOK, SaidFail, Overflows

\* The stack of t changes, no class is published.
LEMMA InvStack ==
  ASSUME FilesInv, NEW t \in Tasks, UNCHANGED <<db, file, cls, opened, up>>, opened, FileComplete, Intact,
         NEW s, stack' = [stack EXCEPT ![t] = s], StackOK(db, cls, t, s, asked'[t]),
         DOMAIN asked' = Tasks, \A u \in Tasks : u # t => asked'[u] = asked[u],
         asked'[t] # None,
         DOMAIN said' = Tasks, \A u \in Tasks : u # t => said'[u] = said[u],
         said'[t] = "ok" => asked'[t] \in DOMAIN cls,
         said'[t] = "fail" => \E c \in Reach(db, {asked'[t]}) : ~Sound(db, c)
  PROVE  FilesInv'
<1> USE DEF FilesInv
<1>1. DOMAIN stack' = Tasks /\ stack'[t] = s /\ \A u \in Tasks : u # t => stack'[u] = stack[u]
    BY DEF TaskDomains
<1>2. StacksOK'
    BY <1>1 DEF StacksOK
<1>3. Unasked' /\ TaskDomains'
    BY <1>1 DEF Unasked, TaskDomains
<1>4. BeforeOpened' /\ WhenOpened'
    BY DEF BeforeOpened, WhenOpened, FileComplete, Intact
<1>5. SaidOK'
    BY DEF SaidOK
<1>6. SaidFail'
    BY DEF SaidFail
<1>7. Overflows'
    BY DEF Overflows
<1>8. db' \in Stores /\ DOMAIN file' \subseteq DOMAIN db'
    OBVIOUS
<1> QED BY <1>2, <1>3, <1>4, <1>5, <1>6, <1>7, <1>8

\* A task with something on its stack.
LEMMA BusyTask ==
  ASSUME FilesInv, NEW t \in Tasks, stack[t] # <<>>
  PROVE  /\ opened /\ Loaded(db, cls) /\ FileComplete /\ Intact /\ asked[t] # None
         /\ StackOK(db, cls, t, stack[t], asked[t])
<1>1. ~Idle
    BY DEF Idle
<1> QED BY <1>1 DEF FilesInv, BeforeOpened, WhenOpened, Unasked, StacksOK

LEMMA InvAcquire == ASSUME FilesInv, NEW t \in Tasks, NEW c \in DOMAIN db, Acquire(t, c) PROVE FilesInv'
<1> USE DEF FilesInv
<1>1. /\ UNCHANGED <<db, file, cls, opened, up>> /\ opened /\ FileComplete /\ asked[t] = None
      /\ asked' = [asked EXCEPT ![t] = c]
    BY DEF Acquire
<1>2. DOMAIN asked' = Tasks /\ asked'[t] = c /\ (\A u \in Tasks : u # t => asked'[u] = asked[u]) /\ c # None
    BY <1>1, StoresAssumption DEF TaskDomains
<1>3. stack[t] = <<>> /\ said[t] = ""
    BY <1>1 DEF Unasked
<1>4. CASE c \in DOMAIN cls
  <2>1. said' = [said EXCEPT ![t] = "ok"] /\ stack' = stack
      BY <1>4 DEF Acquire
  <2>2. DOMAIN said' = Tasks /\ said'[t] = "ok" /\ \A u \in Tasks : u # t => said'[u] = said[u]
      BY <2>1 DEF TaskDomains
  <2>3. StacksOK'
    <3> SUFFICES ASSUME NEW u \in Tasks PROVE StackOK(db, cls, u, stack[u], asked'[u])
        BY <1>1, <2>1 DEF StacksOK
    <3>1. CASE u = t
        BY <1>3, <3>1, StackEmpty
    <3>2. CASE u # t
        BY <1>2, <3>2 DEF StacksOK
    <3> QED BY <3>1, <3>2
  <2>4. WhenOpened'
      BY <1>1, <2>1 DEF WhenOpened, Idle, FileComplete, Intact
  <2>5. SaidOK' /\ Unasked'
      BY <1>1, <1>2, <1>4, <2>1, <2>2 DEF SaidOK, Unasked
  <2>6. SaidFail'
      BY <1>1, <1>2, <2>2 DEF SaidFail
  <2> QED BY <1>1, <1>2, <2>1, <2>2, <2>3, <2>4, <2>5, <2>6 DEF TaskDomains, BeforeOpened, Overflows
<1>5. CASE c \notin DOMAIN cls
  <2>1. stack' = [stack EXCEPT ![t] = <<NewFrame(t, c)>>] /\ said' = said
      BY <1>5 DEF Acquire
  <2>2. Intact
      BY <1>1, <1>5 DEF WhenOpened, FileComplete
  <2>3. file[c] = ClassRecord(db[c])
      BY <1>1, <2>2 DEF Intact, FileComplete
  <2>4. FrameOK(db, cls, t, NewFrame(t, c)) /\ NewFrame(t, c).id = c
      BY <2>3, FrameStart DEF NewFrame
  <2> DEFINE s == <<NewFrame(t, c)>>
  <2>5. StackOK(db, cls, t, s, asked'[t])
      BY <1>2, <2>4, StackFirst
  <2>6. stack' = [stack EXCEPT ![t] = s]
      BY <2>1
  <2> HIDE DEF s
  <2> QED BY <1>1, <1>2, <1>3, <2>1, <2>2, <2>5, <2>6, InvStack DEF TaskDomains
<1> QED BY <1>4, <1>5

LEMMA InvAcquireNeeded == ASSUME FilesInv, NEW t \in Tasks, AcquireNeeded(t) PROVE FilesInv'
<1> DEFINE s == stack[t]
           f == Last(s)
           n == Needed(f, Head(f.todo))
<1>1. /\ s # <<>> /\ f.todo # <<>> /\ n \in DOMAIN db /\ n \notin DOMAIN cls
      /\ UNCHANGED <<db, file, cls, asked, said, opened>>
      /\ IF \E k \in 1..Len(s) : s[k].id = n
         THEN up' = "overflow" /\ UNCHANGED stack
         ELSE stack' = [stack EXCEPT ![t] = Append(@, NewFrame(t, n))] /\ UNCHANGED up
    BY DEF AcquireNeeded, Reading, Frame, Item
<1>2. opened /\ Loaded(db, cls) /\ FileComplete /\ Intact /\ asked[t] # None /\ StackOK(db, cls, t, s, asked[t])
    BY <1>1, BusyTask
<1>3. IsSeq(s) /\ Len(s) \in 1..Len(s) /\ f = s[Len(s)] /\ FrameOK(db, cls, t, f)
    BY <1>1, <1>2, StackLast
<1>4. n \in Needs(db, f.id)
  <2>1. GoesOn(t, f)
      BY <1>1, <1>2, <1>3, FrameGoesOn DEF FilesInv
  <2> QED BY <1>1, <2>1 DEF GoesOn
<1> HIDE DEF n, f
<1>5. CASE \E k \in 1..Len(s) : s[k].id = n
  <2>1. PICK k \in 1..Len(s) : s[k].id = n
      BY <1>5
  <2>2. up' = "overflow" /\ UNCHANGED stack
      BY <1>1, <1>5
  <2>3. n \in Reach(db, Needs(db, n))
    <3>1. CASE k = Len(s)
        BY <1>1, <1>3, <1>4, <2>1, <3>1, ReachHas
    <3>2. CASE k # Len(s)
      <4>1. Len(s) \in Nat /\ k < Len(s)
          BY <1>3, <3>2, SeqHas
      <4>2. f.id \in Reach(db, Needs(db, n))
          BY <1>2, <1>3, <2>1, <4>1 DEF StackOK
      <4> QED BY <1>1, <1>4, <4>2, ReachStep
    <3> QED BY <3>1, <3>2
  <2>4. Overflows'
      BY <1>1, <2>3 DEF Overflows
  <2>5. StacksOK'
      BY <1>1, <2>2 DEF FilesInv, StacksOK
  <2> QED BY <1>1, <1>2, <2>2, <2>4, <2>5
          DEF FilesInv, TaskDomains, Unasked, BeforeOpened, WhenOpened, SaidOK, SaidFail, Idle, FileComplete, Intact
<1>6. CASE ~\E k \in 1..Len(s) : s[k].id = n
  <2> DEFINE q == Append(s, NewFrame(t, n))
  <2>1. stack' = [stack EXCEPT ![t] = q] /\ UNCHANGED up
      BY <1>1, <1>6
  <2>2. file[n] = ClassRecord(db[n])
      BY <1>1, <1>2 DEF Intact, FileComplete
  <2>3. FrameOK(db, cls, t, NewFrame(t, n)) /\ NewFrame(t, n).id = n
      BY <1>1, <2>2, FrameStart DEF NewFrame, FilesInv
  <2>4. StackOK(db, cls, t, q, asked'[t])
      BY <1>1, <1>2, <1>4, <2>3, StackPush DEF f
  <2>5. DOMAIN asked' = Tasks /\ DOMAIN said' = Tasks
      BY <1>1 DEF FilesInv, TaskDomains
  <2>6. /\ said'[t] = "ok" => asked'[t] \in DOMAIN cls
        /\ said'[t] = "fail" => \E c \in Reach(db, {asked'[t]}) : ~Sound(db, c)
      BY <1>1 DEF FilesInv, SaidOK, SaidFail
  <2>7. asked'[t] # None /\ UNCHANGED <<db, file, cls, opened, up>>
      BY <1>1, <1>2, <2>1
  <2>8. \A u \in Tasks : u # t => asked'[u] = asked[u] /\ said'[u] = said[u]
      BY <1>1
  <2> HIDE DEF q, s
  <2> QED BY <1>2, <2>1, <2>4, <2>5, <2>6, <2>7, <2>8, InvStack
<1> QED BY <1>5, <1>6

LEMMA InvReadItem == ASSUME FilesInv, NEW t \in Tasks, ReadItem(t) PROVE FilesInv'
<1> DEFINE s == stack[t]
           f == Last(s)
           q == Append(Front(s), Advance(f))
<1>1. /\ s # <<>> /\ f.todo # <<>> /\ Readable(f, Head(f.todo))
      /\ LET n == Needed(f, Head(f.todo)) IN n \in DOMAIN db => n \in DOMAIN cls
      /\ UNCHANGED <<db, file, cls, asked, said, opened, up>>
      /\ stack' = [stack EXCEPT ![t] = q]
    BY DEF ReadItem, Ready, Reading, Frame, Item, Advance
<1>2. opened /\ Loaded(db, cls) /\ FileComplete /\ Intact /\ asked[t] # None /\ StackOK(db, cls, t, s, asked[t])
    BY <1>1, BusyTask
<1>3. FrameOK(db, cls, t, f)
    BY <1>1, <1>2, StackLast
<1>4. FrameOK(db, cls, t, Advance(f)) /\ Advance(f).id = f.id
  <2>1. GoesOn(t, f)
      BY <1>1, <1>2, <1>3, FrameGoesOn DEF FilesInv
  <2> QED BY <1>1, <2>1 DEF GoesOn, Advance
<1>5. StackOK(db, cls, t, q, asked'[t])
  <2> HIDE DEF Advance
  <2> QED BY <1>1, <1>2, <1>4, StackNext
<1>6. DOMAIN asked' = Tasks /\ DOMAIN said' = Tasks
    BY <1>1 DEF FilesInv, TaskDomains
<1>7. /\ said'[t] = "ok" => asked'[t] \in DOMAIN cls
      /\ said'[t] = "fail" => \E c \in Reach(db, {asked'[t]}) : ~Sound(db, c)
    BY <1>1 DEF FilesInv, SaidOK, SaidFail
<1> HIDE DEF q, f, s
<1> QED BY <1>1, <1>2, <1>5, <1>6, <1>7, InvStack

LEMMA InvFailRead == ASSUME FilesInv, NEW t \in Tasks, FailRead(t) PROVE FilesInv'
<1> DEFINE s == stack[t]
           f == Last(s)
<1>1. /\ s # <<>> /\ f.todo # <<>> /\ ~Readable(f, Head(f.todo))
      /\ LET n == Needed(f, Head(f.todo)) IN n \in DOMAIN db => n \in DOMAIN cls
      /\ UNCHANGED <<db, file, cls, asked, opened, up>>
      /\ stack' = [stack EXCEPT ![t] = <<>>]
      /\ said' = [said EXCEPT ![t] = "fail"]
    BY DEF FailRead, Ready, Reading, Frame, Item
<1>2. opened /\ Loaded(db, cls) /\ FileComplete /\ Intact /\ asked[t] # None /\ StackOK(db, cls, t, s, asked[t])
    BY <1>1, BusyTask
<1>3. FrameOK(db, cls, t, f) /\ f.id \in Reach(db, {asked[t]})
    BY <1>1, <1>2, StackLast
<1>4. ~Sound(db, f.id)
  <2>1. GoesOn(t, f)
      BY <1>1, <1>2, <1>3, FrameGoesOn DEF FilesInv
  <2> QED BY <1>1, <2>1 DEF GoesOn
<1>5. StackOK(db, cls, t, <<>>, asked'[t])
    BY StackEmpty
<1>6. DOMAIN asked' = Tasks /\ DOMAIN said' = Tasks /\ said'[t] = "fail" /\ \A u \in Tasks : u # t => said'[u] = said[u]
    BY <1>1 DEF FilesInv, TaskDomains
<1>7. \E c \in Reach(db, {asked'[t]}) : ~Sound(db, c)
    BY <1>1, <1>3, <1>4
<1> HIDE DEF f, s
<1> QED BY <1>1, <1>2, <1>5, <1>6, <1>7, InvStack

LEMMA InvPublish == ASSUME FilesInv, NEW t \in Tasks, Publish(t) PROVE FilesInv'
<1> DEFINE s == stack[t]
           f == Last(s)
           m == Filled(cls, f.id, Kept(f.id, f.obj))
<1>1. /\ s # <<>> /\ f.todo = <<>> /\ cls' = m
      /\ stack' = [stack EXCEPT ![t] = Front(s)]
      /\ said' = [said EXCEPT ![t] = IF Len(s) = 1 THEN "ok" ELSE said[t]]
      /\ UNCHANGED <<db, file, asked, opened, up>>
    BY DEF Publish, Frame
<1>2. opened /\ Loaded(db, cls) /\ FileComplete /\ Intact /\ asked[t] # None /\ StackOK(db, cls, t, s, asked[t])
    BY <1>1, BusyTask
<1>3. FrameOK(db, cls, t, f) /\ f.id \in DOMAIN db /\ f = s[Len(s)]
    BY <1>1, <1>2, StackLast
<1>4. /\ DOMAIN m = DOMAIN cls \cup {f.id} /\ \A c \in DOMAIN cls : m[c] = cls[c]
      /\ f.id \notin DOMAIN cls => m[f.id] = f.obj
    BY DEF Filled, Kept
<1> HIDE DEF m
<1>5. Grows(db, cls, m)
    BY <1>2, <1>3, <1>4 DEF Grows, Loaded
<1>6. Loaded(db, m)
  <2>1. ASSUME NEW c \in DOMAIN cls PROVE Published(db, m, c, m[c])
      BY <1>2, <1>4, <1>5, PublishedGrows DEF Loaded
  <2>2. ASSUME f.id \notin DOMAIN cls PROVE Published(db, m, f.id, m[f.id])
      BY <1>1, <1>3, <1>4, <1>5, <2>2, FrameEnd DEF FilesInv
  <2> QED BY <1>4, <1>5, <2>1, <2>2 DEF Loaded, Grows
<1>7. /\ DOMAIN stack' = Tasks /\ stack'[t] = Front(s) /\ \A u \in Tasks : u # t => stack'[u] = stack[u]
      /\ DOMAIN said' = Tasks /\ said'[t] = (IF Len(s) = 1 THEN "ok" ELSE said[t]) /\ \A u \in Tasks : u # t => said'[u] = said[u]
    BY <1>1 DEF FilesInv, TaskDomains
<1>8. StacksOK'
  <2> SUFFICES ASSUME NEW u \in Tasks PROVE StackOK(db, m, u, stack'[u], asked[u])
      BY <1>1 DEF StacksOK
  <2>1. StackOK(db, cls, u, stack'[u], asked[u])
    <3>1. CASE u = t
        BY <1>1, <1>2, <1>7, <3>1, StackPop
    <3>2. CASE u # t
        BY <1>7, <3>2 DEF FilesInv, StacksOK
    <3> QED BY <3>1, <3>2
  <2> QED BY <1>5, <2>1, StackGrows
<1>9. SaidOK'
  <2>1. CASE Len(s) = 1
    <3>1. f.id = asked[t]
        BY <1>1, <1>2, <1>3, <2>1 DEF StackOK
    <3> QED BY <1>1, <1>4, <1>7, <3>1 DEF FilesInv, SaidOK
  <2>2. CASE Len(s) # 1
      BY <1>1, <1>4, <1>7, <2>2 DEF FilesInv, SaidOK
  <2> QED BY <2>1, <2>2
<1>10. SaidFail'
    BY <1>1, <1>7 DEF FilesInv, SaidFail
<1>11. WhenOpened'
    BY <1>1, <1>2, <1>6 DEF WhenOpened, FileComplete, Intact
<1>12. Unasked' /\ TaskDomains'
    BY <1>1, <1>2, <1>7 DEF FilesInv, Unasked, TaskDomains
<1>13. BeforeOpened' /\ Overflows' /\ db' \in Stores /\ DOMAIN file' \subseteq DOMAIN db'
    BY <1>1, <1>2 DEF FilesInv, BeforeOpened, Overflows
<1> QED BY <1>8, <1>9, <1>10, <1>11, <1>12, <1>13 DEF FilesInv

LEMMA InvStutter == FilesInv /\ UNCHANGED fileVars => FilesInv'
<1> SUFFICES ASSUME FilesInv, UNCHANGED fileVars PROVE FilesInv'
    OBVIOUS
<1>1. UNCHANGED <<db, file, cls, stack, asked, said, opened, up>>
    BY DEF fileVars
<1> QED BY <1>1 DEF FilesInv, TaskDomains, Unasked, BeforeOpened, WhenOpened, StacksOK, SaidOK, SaidFail, Overflows,
                    Idle, Intact, FileComplete

LEMMA InvNext == FilesInv /\ [FileNext]_fileVars => FilesInv'
<1> SUFFICES ASSUME FilesInv, [FileNext]_fileVars PROVE FilesInv'
    OBVIOUS
<1>1. CASE WriteClass
    BY <1>1, InvWriteClass
<1>2. CASE Reopen
    BY <1>2, InvReopen
<1>3. CASE SnapshotAgain
    BY <1>3, InvSnapshotAgain
<1>4. ASSUME NEW t \in Tasks, NEW c \in DOMAIN db, Acquire(t, c) PROVE FilesInv'
    BY <1>4, InvAcquire
<1>5. ASSUME NEW t \in Tasks, AcquireNeeded(t) PROVE FilesInv'
    BY <1>5, InvAcquireNeeded
<1>6. ASSUME NEW t \in Tasks, ReadItem(t) PROVE FilesInv'
    BY <1>6, InvReadItem
<1>7. ASSUME NEW t \in Tasks, FailRead(t) PROVE FilesInv'
    BY <1>7, InvFailRead
<1>8. ASSUME NEW t \in Tasks, Publish(t) PROVE FilesInv'
    BY <1>8, InvPublish
<1>9. CASE UNCHANGED fileVars
    BY <1>9, InvStutter
<1> QED BY <1>1, <1>2, <1>3, <1>4, <1>5, <1>6, <1>7, <1>8, <1>9 DEF FileNext

LEMMA FilesInvariant == FileSpec => []FilesInv
<1> QED BY InvInit, InvNext, PTL DEF FileSpec

---------------------------------------------------------------------------
(* A class that knd_class_acquire has published is the class that          *)
(* knd_class_marshall wrote, for any classes, however many tasks load it   *)
(* and the classes it needs at the same time, and after the next snapshot. *)
THEOREM ReadAsWritten == FileSpec => []LoadedAsWritten
<1>1. FilesInv => LoadedAsWritten
    BY DEF FilesInv, WhenOpened, Loaded, Published, AsWritten, LoadedAsWritten
<1> QED BY <1>1, FilesInvariant, PTL

(* A loaded class inherits what it inherited when the classes were         *)
(* resolved (knd_class_resolve): the same attributes, each the object of   *)
(* the published class that declares it, never one of a reading that lost  *)
(* the compare-and-swap, and the same values in force unless two bases     *)
(* compete for one (inherit_base_attr).                                    *)
THEOREM InheritsAsResolved == FileSpec => []InheritedAsResolved
<1>1. FilesInv => InheritedAsResolved
  <2> SUFFICES ASSUME FilesInv, opened, NEW c \in DOMAIN cls
               PROVE  LET ids == cls[c].idx
                      IN /\ DOMAIN ids = DOMAIN db[c].idx
                         /\ \A id \in DOMAIN ids :
                               /\ ids[id].of[1] \in DOMAIN cls
                               /\ \E a \in ToSet(db[ids[id].of[1]].attrs) : a.id = id
                               /\ ids[id].of = <<ids[id].of[1], cls[ids[id].of[1]].by>>
                               /\ ~(\E d \in Reach(db, {c}) : Contested(db, d, id)) => ids[id].giver = db[c].idx[id].giver
      BY Zenon DEF InheritedAsResolved
  <2>1. Published(db, cls, c, cls[c])
      BY DEF FilesInv, WhenOpened, Loaded
  <2>2. DOMAIN cls[c].idx = DOMAIN db[c].idx
      BY <2>1 DEF Published
  <2>3. \A id \in DOMAIN cls[c].idx : Theirs(db, cls, cls[c].idx[id].of, id)
      BY <2>1 DEF Published, RefIs
  <2>4. \A id \in DOMAIN cls[c].idx : Uncontested(db, c, id) => cls[c].idx[id].giver = db[c].idx[id].giver
      BY <2>1 DEF Published, RefIs
  <2> QED BY <2>2, <2>3, <2>4, Zenon DEF Theirs, Uncontested
<1> QED BY <1>1, FilesInvariant, PTL

(* knd_class_acquire fails only if a class that is needed has a record     *)
(* that cannot be read, and never because of the order of requests or of   *)
(* other tasks; if it succeeds, everything the class needs is loaded; the  *)
(* call stack ends only for a class that needs itself.                     *)
THEOREM FailsOnlyForCause == FileSpec => []FailsForCause
<1>1. FilesInv => FailsForCause
  <2> SUFFICES ASSUME FilesInv PROVE FailsForCause
      OBVIOUS
  <2>1. ASSUME NEW t \in Tasks, said[t] = "ok" PROVE \A c \in Reach(db, {asked[t]}) : Sound(db, c) /\ c \in DOMAIN cls
    <3>1. opened /\ Loaded(db, cls) /\ asked[t] \in DOMAIN cls
        BY <2>1 DEF FilesInv, BeforeOpened, WhenOpened, SaidOK
    <3>2. DOMAIN cls \subseteq DOMAIN db /\ \A c \in DOMAIN cls : Sound(db, c) /\ Needs(db, c) \subseteq DOMAIN cls
        BY <3>1 DEF Loaded, Published
    <3>3. Reach(db, {asked[t]}) \subseteq DOMAIN cls
        BY <3>1, <3>2, ReachClosed
    <3> QED BY <3>2, <3>3
  <2> QED BY <2>1 DEF FilesInv, SaidFail, Overflows, FailsForCause
<1> QED BY <1>1, FilesInvariant, PTL


---------------------------------------------------------------------------
(* PART THREE: TextFile *)

\* What was given decides everything else.
TextInv ==
    /\ given = Nil => text = Nil
    /\ given # Nil => given \in Texts /\ text \in {ImportText(given), ReadText(given)}
    /\ shown # Nil => /\ text # Nil /\ text.st = "ok"
                     /\ \E l \in Locales : shown = ShowText(text.text, l)
    /\ kept # Nil => text # Nil /\ text.st = "ok" /\ kept = TextOut(text.text)
    /\ read # Nil => kept # Nil /\ read = ReadText(kept)

LEMMA TextInvStep == TextInv /\ [TextNext]_textVars => TextInv'
<1> SUFFICES ASSUME TextInv, [TextNext]_textVars PROVE TextInv'
    OBVIOUS
<1> USE DEF TextInv
<1>1. ASSUME NEW n \in Texts, Give(n) \/ Find(n) PROVE TextInv'
  <2>1. n # Nil
    BY TextsAssumption
  <2> QED BY <1>1, <2>1 DEF Give, Find
<1>2. ASSUME NEW l \in Locales, BuildJSON(l) PROVE TextInv'
    BY <1>2 DEF BuildJSON
<1>3. CASE KeepText
    BY <1>3 DEF KeepText
<1>4. CASE LoadText
    BY <1>4 DEF LoadText
<1>5. CASE UNCHANGED textVars
    BY <1>5 DEF textVars
<1> QED BY <1>1, <1>2, <1>3, <1>4, <1>5 DEF TextNext

LEMMA TextInvHolds == TextSpec => []TextInv
<1>1. TextInit => TextInv
    BY DEF TextInit, TextInv
<1> QED BY <1>1, TextInvStep, PTL DEF TextSpec

\* A text that was taken is the one its record makes, and the record was valid.
LEMMA TakenText ==
  ASSUME NEW n, NEW r \in {ImportText(n), ReadText(n)}, r.st = "ok"
  PROVE  r.text = TextOf(n) /\ Valid(n)
<1>1. r \in {Fail, Crashed, Made(TextOf(n))} /\ (r = Made(TextOf(n)) => Valid(n) \/ r \in {Fail, Crashed})
    BY DEF ImportText, ReadText
<1>2. r # Fail /\ r # Crashed
    BY DEF Fail, Crashed
<1> QED BY <1>1, <1>2 DEF Made
LEMMA Reversed ==
  ASSUME NEW s, Sequenced(s)
  PROVE  /\ Len(s) \in Nat /\ Len(Reverse(s)) = Len(s)
         /\ \A k \in 1..Len(s) : Len(s) - k + 1 \in 1..Len(s) /\ Reverse(s)[k] = s[Len(s) - k + 1]
<1>1. Len(s) \in Nat
    BY DEF Sequenced
<1>2. Reverse(s) = [k \in 1..Len(s) |-> s[(Len(s) - k) + 1]]
    BY DEF Reverse
<1>3. Len(Reverse(s)) = Len(s)
    BY <1>1, <1>2
<1> QED BY <1>1, <1>2, <1>3

\* The first translation of the reversed list is the one given last.
LEMMA RenderingNewest ==
  ASSUME NEW n, NEW l, Sequenced(Of(n, "trn"))
  PROVE  NewestShown(n, l, Rendering(TextOf(n), l))
<1>0. PICK t, N : t = Of(n, "trn") /\ N = Len(t)
    OBVIOUS
<1>1. /\ N \in Nat /\ Len(Reverse(t)) = N
      /\ \A k \in 1..N : N - k + 1 \in 1..N /\ Reverse(t)[k] = t[N - k + 1]
    BY <1>0, Reversed
<1>2. PICK S : S = {k \in 1..N : Reverse(t)[k].locale = l}
    OBVIOUS
<1>3. Rendering(TextOf(n), l) =
        IF S = {} THEN n.seq ELSE Reverse(t)[Min(S)].seq
  <2>1. PICK u : u = TextOf(n)
    OBVIOUS
  <2>2. u.seq = n.seq /\ u.trs = Reverse(t)
    BY <1>0, <2>1 DEF TextOf, TranslationsOf
  <2>3. {k \in 1..Len(u.trs) : u.trs[k].locale = l} = S
    BY <1>1, <1>2, <2>2
  <2> QED BY <2>1, <2>2, <2>3, Zenon DEF Rendering
<1>4. ASSUME NEW k \in 1..N PROVE N - k + 1 \in 1..N /\ t[k] = Reverse(t)[N - k + 1]
  <2>1. N - k + 1 \in 1..N /\ N - (N - k + 1) + 1 = k
    BY <1>1
  <2>2. PICK m : m = N - k + 1
    OBVIOUS
  <2>3. m \in 1..N /\ N - m + 1 = k
    BY <2>1, <2>2
  <2> QED BY <1>1, <2>2, <2>3
<1>5. CASE S = {}
  <2>1. \A k \in 1..N : t[k].locale # l
    BY <1>2, <1>4, <1>5
  <2> QED BY <1>0, <1>3, <1>5, <2>1 DEF NewestShown
<1>6. CASE S # {}
  <2>1. \E k \in S : \A m \in S : k <= m
    <3>1. S \subseteq Nat
      BY <1>1, <1>2
    <3> QED BY <1>6, <3>1, NatMin
  <2>2. PICK k : k = Min(S)
    OBVIOUS
  <2>3. k \in S /\ \A m \in S : k <= m
    BY <2>1, <2>2 DEF Min
  <2>4. PICK j : j = N - k + 1
    OBVIOUS
  <2>5. /\ k \in 1..N /\ j \in 1..N /\ t[j].locale = l
        /\ Rendering(TextOf(n), l) = t[j].seq
    BY <1>1, <1>2, <1>3, <1>6, <2>2, <2>3, <2>4
  <2>6. ASSUME NEW m \in (j + 1)..N PROVE t[m].locale # l
    <3>1. m \in 1..N /\ N - m + 1 < k
      BY <1>1, <2>4, <2>5
    <3>2. N - m + 1 \in 1..N /\ N - m + 1 \notin S
      BY <1>1, <1>4, <2>3, <2>5, <3>1
    <3> QED BY <1>2, <1>4, <3>1, <3>2
  <2> QED BY <1>0, <2>5, <2>6 DEF NewestShown
<1> QED BY <1>5, <1>6

\* The paragraphs of a record, and the places of its sentences.
LEMMA PlacesOf ==
  ASSUME NEW n, NEW p
  PROVE  p \in Places(n) => \E i \in 1..Len(Pars(n)) : \E j \in 1..Len(Pars(n)[i]) : p = <<i, j>>
    BY DEF Places

LEMMA PlaceIs ==
  ASSUME NEW n, NEW i \in 1..Len(Pars(n)), NEW j \in 1..Len(Pars(n)[i])
  PROVE  <<i, j>> \in Places(n)
    BY DEF Places

\* Lengths of what is made of the paragraphs.
LEMMA TextParts ==
  ASSUME NEW n, Sequenced(Pars(n)), \A i \in 1..Len(Pars(n)) : Sequenced(Pars(n)[i])
  PROVE  /\ Len(Pars(n)) \in Nat /\ Len(TextOf(n).pars) = Len(Pars(n))
         /\ \A i \in 1..Len(Pars(n)) :
               /\ Len(Pars(n)[i]) \in Nat /\ Len(TextOf(n).pars[i]) = Len(Pars(n)[i])
               /\ \A j \in 1..Len(Pars(n)[i]) : TextOf(n).pars[i][j] = SentOf(n, <<i, j>>)
<1>1. Len(Pars(n)) \in Nat /\ \A i \in 1..Len(Pars(n)) : Len(Pars(n)[i]) \in Nat
    BY DEF Sequenced
<1>2. TextOf(n).pars = [i \in 1..Len(Pars(n)) |-> [j \in 1..Len(Pars(n)[i]) |-> SentOf(n, <<i, j>>)]]
    BY DEF TextOf
<1>3. PICK N : N = Len(Pars(n))
    OBVIOUS
<1>4. Len(TextOf(n).pars) = N
    BY <1>1, <1>2, <1>3
<1>5. ASSUME NEW i \in 1..N PROVE /\ Len(TextOf(n).pars[i]) = Len(Pars(n)[i])
                                  /\ \A j \in 1..Len(Pars(n)[i]) : TextOf(n).pars[i][j] = SentOf(n, <<i, j>>)
  <2>1. TextOf(n).pars[i] = [j \in 1..Len(Pars(n)[i]) |-> SentOf(n, <<i, j>>)]
    BY <1>2, <1>3
  <2>2. PICK M : M = Len(Pars(n)[i]) /\ M \in Nat
    BY <1>1, <1>3
  <2> QED BY <2>1, <2>2
<1> QED BY <1>1, <1>3, <1>4, <1>5

\* What a statement has in memory: all that is declared in it, and nothing else
\* than what is declared in the text.
LEMMA StmHasAll ==
  ASSUME NEW n, NEW p \in Places(n)
  PROVE  DeclaredAt(n, p) \subseteq StmOf(n, p) /\ StmOf(n, p) \subseteq DeclaredIn(n, Places(n))
<1>1. NotAfter(p, p)
  <2>1. PICK i, j : i \in 1..Len(Pars(n)) /\ j \in 1..Len(Pars(n)[i]) /\ p = <<i, j>>
    BY PlacesOf
  <2> QED BY <2>1 DEF NotAfter
<1>2. p \in {q \in Places(n) : NotAfter(q, p)}
    BY <1>1
<1> QED BY <1>2 DEF StmOf, DeclaredIn

LEMMA SentShown ==
  ASSUME NEW n, NEW p \in Places(n), SentShows(SentOf(n, p))
  PROVE  SentAsGiven(n, p, SentView(SentOf(n, p)))
<1>1. PICK s : s = SentOf(n, p)
    OBVIOUS
<1>2. /\ s.seq = Sent(n, p).seq
      /\ s.clause = IF Of(Sent(n, p), "clause") = <<>> THEN <<>>
                    ELSE <<Clause(Of(Sent(n, p), "clause")[1])>>
      /\ s.stm = IF HasStm(n, p) THEN <<StmOf(n, p)>> ELSE <<>>
    BY <1>1 DEF SentOf
<1>3. PICK v : v = SentView(s)
    OBVIOUS
<1>4. /\ v.txt = s.seq /\ v.stm = s.stm
      /\ v.clause = IF s.clause = <<>> THEN <<>> ELSE <<SubjView(s.clause[1].subj[1])>>
    BY <1>3 DEF SentView
<1>5. v.clause = IF Of(Sent(n, p), "clause") = <<>> THEN <<>>
                 ELSE <<SubjView(Clause(Of(Sent(n, p), "clause")[1]).subj[1])>>
    BY <1>2, <1>4
<1>6. /\ (v.stm = <<>>) <=> ~HasStm(n, p)
      /\ HasStm(n, p) => v.stm[1] = StmOf(n, p)
    BY <1>2, <1>4
<1> QED BY <1>1, <1>2, <1>3, <1>4, <1>5, <1>6, StmHasAll DEF SentAsGiven

\* A reply shows every paragraph and every sentence of the text in its order, each
\* with its words, its clause and all that it declares, and of the translations
\* the one given last (knd_text_build_JSON, knd_text_export_JSON).
THEOREM TextsAreShown == TextSpec => []ShownAsGiven
<1>1. TextInv => ShownAsGiven
  <2> SUFFICES ASSUME TextInv, shown # Nil, shown.st = "ok" PROVE ShownAsGiven
    BY DEF ShownAsGiven
  <2>1. PICK n \in Texts : n = given
    BY DEF TextInv
  <2>2. PICK l \in Locales : shown = ShowText(text.text, l)
    BY DEF TextInv
  <2>3. text.text = TextOf(n)
    BY <2>1, TakenText DEF TextInv
  <2>4. PICK t : t = TextOf(n)
    OBVIOUS
  <2>5. /\ \A i \in 1..Len(t.pars) : \A j \in 1..Len(t.pars[i]) : SentShows(t.pars[i][j])
        /\ shown = [st |-> "ok", locale |-> l,
                    view |-> [txt |-> Rendering(t, l),
                              pars |-> [i \in 1..Len(t.pars) |->
                                [j \in 1..Len(t.pars[i]) |-> SentView(t.pars[i][j])]]]]
    BY <2>2, <2>3, <2>4 DEF ShowText
  <2>6. Sequenced(Of(n, "trn")) /\ Sequenced(Pars(n)) /\ \A i \in 1..Len(Pars(n)) : Sequenced(Pars(n)[i])
    BY TextsAssumption
  <2>7. NewestShown(given, shown.locale, shown.view.txt)
    BY <2>1, <2>4, <2>5, <2>6, RenderingNewest
  <2>8. /\ Len(Pars(n)) \in Nat /\ Len(t.pars) = Len(Pars(n))
        /\ \A i \in 1..Len(Pars(n)) :
              /\ Len(Pars(n)[i]) \in Nat /\ Len(t.pars[i]) = Len(Pars(n)[i])
              /\ \A j \in 1..Len(Pars(n)[i]) : t.pars[i][j] = SentOf(n, <<i, j>>)
    BY <2>4, <2>6, TextParts
  <2>9. PICK v : v = shown.view.pars
    OBVIOUS
  <2>10. v = [i \in 1..Len(t.pars) |-> [j \in 1..Len(t.pars[i]) |-> SentView(t.pars[i][j])]]
    BY <2>5, <2>9
  <2>11. Len(v) = Len(Pars(n))
    BY <2>8, <2>10
  <2>12. ASSUME NEW i \in 1..Len(Pars(n))
         PROVE  /\ Len(v[i]) = Len(Pars(n)[i])
                /\ \A j \in 1..Len(Pars(n)[i]) : /\ v[i][j] = SentView(SentOf(n, <<i, j>>))
                                                 /\ SentShows(SentOf(n, <<i, j>>))
    <3>1. v[i] = [j \in 1..Len(t.pars[i]) |-> SentView(t.pars[i][j])]
      BY <2>8, <2>10
    <3>2. PICK M : M = Len(Pars(n)[i]) /\ M \in Nat /\ Len(t.pars[i]) = M
      BY <2>8
    <3>3. Len(v[i]) = M
      BY <3>1, <3>2
    <3> QED BY <2>5, <2>8, <3>1, <3>2, <3>3
  <2>13. ASSUME NEW p \in Places(n) PROVE SentAsGiven(n, p, v[p[1]][p[2]])
    <3>1. PICK i, j : i \in 1..Len(Pars(n)) /\ j \in 1..Len(Pars(n)[i]) /\ p = <<i, j>>
      BY PlacesOf
    <3>2. v[p[1]][p[2]] = SentView(SentOf(n, p)) /\ SentShows(SentOf(n, p))
      BY <2>12, <3>1
    <3> QED BY <3>2, SentShown
  <2> QED BY <2>1, <2>7, <2>9, <2>11, <2>12, <2>13 DEF ShownAsGiven
<1> QED BY <1>1, TextInvHolds, PTL
LEMMA SeqMade ==
  ASSUME NEW N \in Nat, NEW f, f = [i \in 1..N |-> f[i]]
  PROVE  Sequenced(f) /\ Len(f) = N /\ (f = <<>> <=> N = 0)
<1>1. DOMAIN f = 1..N
    BY Zenon
<1>2. PICK S : S = ToSet(f)
    OBVIOUS
<1>3. f \in [1..N -> S]
    BY <1>1, <1>2 DEF ToSet
<1>4. f \in Seq(S)
    BY <1>3
<1> QED BY <1>1, <1>2, <1>4 DEF Sequenced

\* The record a text without a language is written as has the places of the
\* record the text was made of, with the statement that is in memory.
LEMMA WrittenText ==
  ASSUME NEW n \in Texts, NEW t, t = TextOf(n), t.locale = Nil, NEW m, m = TextOut(t)
  PROVE  /\ DOMAIN m.kids = {"trn", "p"} /\ m.seq = n.seq /\ Of(m, "trn") = t.trs
         /\ Sequenced(Pars(m)) /\ Len(Pars(m)) = Len(Pars(n))
         /\ \A i \in 1..Len(Pars(n)) : /\ Sequenced(Pars(m)[i]) /\ Len(Pars(m)[i]) = Len(Pars(n)[i])
                                       /\ EmptyPar(m, i) => EmptyPar(n, i)
                                       /\ \A j \in 1..Len(Pars(n)[i]) :
                                             Pars(m)[i][j] = SentOut(SentOf(n, <<i, j>>))
<1>1. Sequenced(Pars(n)) /\ \A i \in 1..Len(Pars(n)) : Sequenced(Pars(n)[i])
    BY TextsAssumption
<1>2. /\ Len(Pars(n)) \in Nat /\ Len(t.pars) = Len(Pars(n))
      /\ \A i \in 1..Len(Pars(n)) :
            /\ Len(Pars(n)[i]) \in Nat /\ Len(t.pars[i]) = Len(Pars(n)[i])
            /\ \A j \in 1..Len(Pars(n)[i]) : t.pars[i][j] = SentOf(n, <<i, j>>)
    BY <1>1, TextParts
<1>3. /\ DOMAIN m.kids = {"trn", "p"} /\ m.seq = t.seq /\ Of(m, "trn") = t.trs
      /\ Pars(m) = [i \in 1..Len(t.pars) |-> [j \in 1..Len(t.pars[i]) |-> SentOut(t.pars[i][j])]]
  <2>1. PICK k : k = m.kids
    OBVIOUS
  <2>2. PICK D : D = {"trn", "p"}
    OBVIOUS
  <2>3. PICK P : P = [i \in 1..Len(t.pars) |-> [j \in 1..Len(t.pars[i]) |-> SentOut(t.pars[i][j])]]
    OBVIOUS
  <2>4. /\ m.seq = t.seq
        /\ k = [tag \in D |-> CASE tag = "trn" -> t.trs [] tag = "p" -> P [] OTHER -> <<t.locale>>]
    BY <2>1, <2>2, <2>3 DEF TextOut
  <2>5. DOMAIN k = D /\ k["trn"] = t.trs /\ k["p"] = P
    BY <2>2, <2>4
  <2> QED BY <2>1, <2>2, <2>3, <2>4, <2>5 DEF Of, Pars
<1>4. PICK N, P : N = Len(Pars(n)) /\ P = Pars(m)
    OBVIOUS
<1>5. N \in Nat /\ Len(t.pars) = N
    BY <1>2, <1>4
<1>6. Sequenced(P) /\ Len(P) = N
  <2>1. P = [i \in 1..N |-> P[i]]
    BY <1>3, <1>4, <1>5
  <2> QED BY <1>5, <2>1, SeqMade
<1>7. ASSUME NEW i \in 1..N
      PROVE  /\ Sequenced(P[i]) /\ Len(P[i]) = Len(Pars(n)[i])
             /\ EmptyPar(m, i) => EmptyPar(n, i)
             /\ \A j \in 1..Len(Pars(n)[i]) : P[i][j] = SentOut(SentOf(n, <<i, j>>))
  <2>1. PICK M, q : M = Len(Pars(n)[i]) /\ q = P[i]
    OBVIOUS
  <2>2. M \in Nat /\ Len(t.pars[i]) = M /\ \A j \in 1..M : t.pars[i][j] = SentOf(n, <<i, j>>)
    BY <1>2, <1>4, <2>1
  <2>3. q = [j \in 1..M |-> SentOut(t.pars[i][j])]
    <3>1. P = [k \in 1..N |-> [j \in 1..Len(t.pars[k]) |-> SentOut(t.pars[k][j])]]
      BY <1>3, <1>4, <1>5
    <3>2. P[i] = [j \in 1..Len(t.pars[i]) |-> SentOut(t.pars[i][j])]
      BY <3>1
    <3> QED BY <2>1, <2>2, <3>2
  <2>4. q = [j \in 1..M |-> q[j]]
    BY <2>3
  <2>5. Sequenced(q) /\ Len(q) = M /\ (q = <<>> <=> M = 0)
    BY <2>2, <2>4, SeqMade
  <2>6. M = 0 => Pars(n)[i] = <<>>
    <3>1. Pars(n)[i] \in Seq(ToSet(Pars(n)[i]))
      BY <1>1, <1>4 DEF Sequenced
    <3> QED BY <2>1, <3>1, EmptySeq
  <2> QED BY <1>4, <2>1, <2>2, <2>3, <2>5, <2>6 DEF EmptyPar
<1>8. t.seq = n.seq
    BY DEF TextOf
<1> QED BY <1>3, <1>4, <1>6, <1>7, <1>8

\* So every sentence is found where it was, without its clause.
LEMMA WrittenSents ==
  ASSUME NEW n \in Texts, NEW t, t = TextOf(n), t.locale = Nil, NEW m, m = TextOut(t)
  PROVE  /\ Places(m) = Places(n)
         /\ \A p \in Places(n) :
               /\ Sent(m, p).seq = Sent(n, p).seq /\ DOMAIN Sent(m, p).kids \subseteq {"stm"}
               /\ Of(Sent(m, p), "clause") = <<>>
               /\ HasStm(m, p) <=> HasStm(n, p)
               /\ HasStm(n, p) => Of(Sent(m, p), "stm")[1] = StmOf(n, p)
<1>1. /\ Len(Pars(m)) = Len(Pars(n))
      /\ \A i \in 1..Len(Pars(n)) : /\ Len(Pars(m)[i]) = Len(Pars(n)[i])
                                    /\ \A j \in 1..Len(Pars(n)[i]) :
                                          Pars(m)[i][j] = SentOut(SentOf(n, <<i, j>>))
    BY WrittenText
<1>2. Places(m) = Places(n)
  <2>1. ASSUME NEW i \in 1..Len(Pars(n)), NEW j
        PROVE  j \in 1..Len(Pars(m)[i]) <=> j \in 1..Len(Pars(n)[i])
    BY <1>1
  <2>2. ASSUME NEW p \in Places(m) PROVE p \in Places(n)
    <3>1. PICK i \in 1..Len(Pars(m)) : \E j \in 1..Len(Pars(m)[i]) : p = <<i, j>>
      BY PlacesOf
    <3> QED BY <1>1, <2>1, <3>1, PlaceIs
  <2>3. ASSUME NEW p \in Places(n) PROVE p \in Places(m)
    <3>1. PICK i \in 1..Len(Pars(n)) : \E j \in 1..Len(Pars(n)[i]) : p = <<i, j>>
      BY PlacesOf
    <3> QED BY <1>1, <2>1, <3>1, PlaceIs
  <2> QED BY <2>2, <2>3
<1>3. ASSUME NEW p \in Places(n)
      PROVE  /\ Sent(m, p).seq = Sent(n, p).seq /\ DOMAIN Sent(m, p).kids \subseteq {"stm"}
             /\ Of(Sent(m, p), "clause") = <<>>
             /\ HasStm(m, p) <=> HasStm(n, p)
             /\ HasStm(n, p) => Of(Sent(m, p), "stm")[1] = StmOf(n, p)
  <2>1. PICK s, w : s = SentOf(n, p) /\ w = Sent(m, p)
    OBVIOUS
  <2>2. w = SentOut(s)
    <3>1. PICK i, j : i \in 1..Len(Pars(n)) /\ j \in 1..Len(Pars(n)[i]) /\ p = <<i, j>>
      BY PlacesOf
    <3> QED BY <1>1, <2>1, <3>1 DEF Sent
  <2>3. s.seq = Sent(n, p).seq /\ s.stm = IF HasStm(n, p) THEN <<StmOf(n, p)>> ELSE <<>>
    BY <2>1 DEF SentOf
  <2>4. w.seq = s.seq /\ w.kids = [tag \in (IF s.stm = <<>> THEN {} ELSE {"stm"}) |-> s.stm]
    BY <2>2 DEF SentOut
  <2>5. PICK k : k = w.kids
    OBVIOUS
  <2>6. CASE HasStm(n, p)
    <3>1. s.stm = <<StmOf(n, p)>> /\ s.stm # <<>>
      BY <2>3, <2>6
    <3>2. k = [tag \in {"stm"} |-> s.stm]
      BY <2>4, <2>5, <3>1
    <3>3. DOMAIN k = {"stm"} /\ k["stm"] = s.stm
      BY <3>2
    <3>4. Of(w, "clause") = <<>> /\ Of(w, "stm") = s.stm
      BY <2>5, <3>3 DEF Of
    <3> QED BY <2>1, <2>3, <2>4, <2>5, <2>6, <3>1, <3>3, <3>4 DEF HasStm
  <2>7. CASE ~HasStm(n, p)
    <3>1. s.stm = <<>>
      BY <2>3, <2>7
    <3>2. k = [tag \in {} |-> s.stm]
      BY <2>4, <2>5, <3>1
    <3>3. DOMAIN k = {}
      BY <3>2
    <3>4. Of(w, "clause") = <<>> /\ Of(w, "stm") = <<>>
      BY <2>5, <3>3 DEF Of
    <3> QED BY <2>1, <2>3, <2>4, <2>5, <2>7, <3>3, <3>4 DEF HasStm
  <2> QED BY <2>6, <2>7
<1> QED BY <1>2, <1>3

\* What is read where a sentence was written.
LEMMA SentComesBack ==
  ASSUME NEW n \in Texts, NEW t, t = TextOf(n), t.locale = Nil, NEW m, m = TextOut(t),
         NEW p \in Places(n)
  PROVE  SameSent(SentOf(n, p), SentOf(m, p), p, OneStatement(t))
<1>1. /\ Places(m) = Places(n)
      /\ \A q \in Places(n) :
               /\ Sent(m, q).seq = Sent(n, q).seq
               /\ Of(Sent(m, q), "clause") = <<>>
               /\ HasStm(m, q) <=> HasStm(n, q)
               /\ HasStm(n, q) => Of(Sent(m, q), "stm")[1] = StmOf(n, q)
    BY WrittenSents
<1>2. PICK s, r : s = SentOf(n, p) /\ r = SentOf(m, p)
    OBVIOUS
<1>3. /\ s.seq = Sent(n, p).seq /\ s.stm = IF HasStm(n, p) THEN <<StmOf(n, p)>> ELSE <<>>
      /\ r.seq = s.seq /\ r.clause = <<>>
      /\ r.stm = IF HasStm(n, p) THEN <<StmOf(m, p)>> ELSE <<>>
  <2>1. s.seq = Sent(n, p).seq /\ s.stm = IF HasStm(n, p) THEN <<StmOf(n, p)>> ELSE <<>>
    BY <1>2 DEF SentOf
  <2>2. /\ r.seq = Sent(m, p).seq /\ r.stm = IF HasStm(m, p) THEN <<StmOf(m, p)>> ELSE <<>>
        /\ r.clause = <<>>
    BY <1>1, <1>2 DEF SentOf
  <2> QED BY <1>1, <2>1, <2>2
<1>4. ASSUME HasStm(n, p)
      PROVE  /\ Labelled(StmOf(n, p), p) \subseteq StmOf(m, p)
             /\ OneStatement(t) => StmOf(m, p) = Labelled(StmOf(n, p), p)
  <2>1. DeclaredAt(m, p) = Labelled(StmOf(n, p), p)
    BY <1>1, <1>4 DEF DeclaredAt
  <2>2. DeclaredAt(m, p) \subseteq StmOf(m, p) /\ StmOf(m, p) \subseteq DeclaredIn(m, Places(m))
    BY <1>1, StmHasAll
  <2>3. ASSUME OneStatement(t), NEW q \in Places(n), HasStm(n, q) PROVE q = p
    <3>1. PICK i, j : i \in 1..Len(Pars(n)) /\ j \in 1..Len(Pars(n)[i]) /\ p = <<i, j>>
      BY PlacesOf
    <3>2. PICK k, l : k \in 1..Len(Pars(n)) /\ l \in 1..Len(Pars(n)[k]) /\ q = <<k, l>>
      BY PlacesOf
    <3>3. SentOf(n, p).stm # <<>> /\ SentOf(n, q).stm # <<>>
      BY <1>4, <2>3 DEF SentOf
    <3>4. Sequenced(Pars(n)) /\ \A h \in 1..Len(Pars(n)) : Sequenced(Pars(n)[h])
      BY TextsAssumption
    <3>5. /\ Len(t.pars) = Len(Pars(n)) /\ Len(t.pars[i]) = Len(Pars(n)[i])
          /\ Len(t.pars[k]) = Len(Pars(n)[k])
          /\ t.pars[i][j] = SentOf(n, p) /\ t.pars[k][l] = SentOf(n, q)
      BY <3>1, <3>2, <3>4, TextParts
    <3> QED BY <2>3, <3>1, <3>2, <3>3, <3>5 DEF OneStatement
  <2>4. ASSUME OneStatement(t), NEW d \in DeclaredIn(m, Places(m)) PROVE d \in DeclaredAt(m, p)
    <3>1. PICK q \in Places(n) : d \in DeclaredAt(m, q)
      BY <1>1 DEF DeclaredIn
    <3>2. HasStm(n, q)
      BY <1>1, <3>1 DEF DeclaredAt
    <3> QED BY <2>3, <2>4, <3>1, <3>2
  <2> QED BY <2>1, <2>2, <2>4
<1> QED BY <1>2, <1>3, <1>4 DEF SameSent

\* The record is read, and what was declared is there.
LEMMA WrittenIsRead ==
  ASSUME NEW n \in Texts, Valid(n), NEW t, t = TextOf(n), t.locale = Nil, NEW m, m = TextOut(t)
  PROVE  ReadText(m) = Made(TextOf(m))
<1>1. /\ Places(m) = Places(n)
      /\ \A p \in Places(n) :
               /\ DOMAIN Sent(m, p).kids \subseteq {"stm"}
               /\ Of(Sent(m, p), "clause") = <<>>
               /\ HasStm(m, p) <=> HasStm(n, p)
               /\ HasStm(n, p) => Of(Sent(m, p), "stm")[1] = StmOf(n, p)
    BY WrittenSents
<1>2. DOMAIN m.kids = {"trn", "p"} /\ Len(Pars(m)) = Len(Pars(n))
      /\ \A i \in 1..Len(Pars(n)) : EmptyPar(m, i) => EmptyPar(n, i)
    BY WrittenText
<1>3. \A p \in Places(m) : ToSet(Of(Sent(m, p), "clause")) = {}
  <2>1. \A s : s = <<>> => ToSet(s) = {}
    BY DEF ToSet
  <2> QED BY <1>1, <2>1
<1>4. Understood(m) /\ ~Crashing(m)
    BY <1>1, <1>2, <1>3 DEF Understood, Crashing, TextTags, SentTags
<1>5. ASSUME NEW p \in Places(m), HasStm(m, p) PROVE StmOf(m, p) # {}
  <2>1. HasStm(n, p) /\ StmOf(n, p) # {}
    BY <1>1, <1>5 DEF Valid, EmptyStm
  <2>2. DeclaredAt(m, p) = Labelled(StmOf(n, p), p)
    BY <1>1, <1>5, <2>1 DEF DeclaredAt
  <2>3. DeclaredAt(m, p) # {}
    BY <2>1, <2>2 DEF Labelled
  <2> QED BY <2>3, StmHasAll
<1>6. Valid(m)
    BY <1>2, <1>5 DEF Valid, EmptyStm
<1> QED BY <1>4, <1>6 DEF ReadText, ImportText

\* A text without a language is read from every snapshot that holds it, with all
\* but its clauses, and nothing that was declared in it is lost
\* (knd_text_export_GSP, knd_text_read).
THEOREM TextsComeBack == TextSpec => []TextRoundTrip
<1>1. TextInv => TextRoundTrip
  <2> SUFFICES ASSUME TextInv, read # Nil, text.text.locale = Nil
               PROVE  read.st = "ok" /\ Same(text.text, read.text)
    BY DEF TextRoundTrip
  <2>1. PICK n \in Texts : n = given
    BY DEF TextInv
  <2>2. text.text = TextOf(n) /\ Valid(n) /\ kept = TextOut(text.text)
    BY <2>1, TakenText DEF TextInv
  <2>3. PICK t, m : t = TextOf(n) /\ m = TextOut(t)
    OBVIOUS
  <2>4. t.locale = Nil
    BY <2>2, <2>3
  <2>5. PICK u : u = TextOf(m)
    OBVIOUS
  <2>6. read = Made(u)
    BY <2>2, <2>3, <2>4, <2>5, WrittenIsRead DEF TextInv
  <2>7. read.st = "ok" /\ read.text = u
    BY <2>6 DEF Made
  <2>8. /\ m.seq = n.seq /\ Of(m, "trn") = t.trs
        /\ Sequenced(Pars(m)) /\ Len(Pars(m)) = Len(Pars(n))
        /\ \A i \in 1..Len(Pars(n)) : Sequenced(Pars(m)[i]) /\ Len(Pars(m)[i]) = Len(Pars(n)[i])
    BY <2>3, <2>4, WrittenText
  <2>9. t.seq = u.seq /\ Reverse(t.trs) = u.trs
    BY <2>3, <2>5, <2>8 DEF TextOf, TranslationsOf
  <2>10. /\ Len(t.pars) = Len(Pars(n))
         /\ \A i \in 1..Len(Pars(n)) :
               /\ Len(t.pars[i]) = Len(Pars(n)[i])
               /\ \A j \in 1..Len(Pars(n)[i]) : t.pars[i][j] = SentOf(n, <<i, j>>)
    BY <2>3, TextsAssumption, TextParts
  <2>11. /\ Len(u.pars) = Len(Pars(n))
         /\ \A i \in 1..Len(Pars(n)) :
               /\ Len(u.pars[i]) = Len(Pars(n)[i])
               /\ \A j \in 1..Len(Pars(n)[i]) : u.pars[i][j] = SentOf(m, <<i, j>>)
    <3>1. /\ Len(u.pars) = Len(Pars(m))
          /\ \A i \in 1..Len(Pars(m)) :
                /\ Len(u.pars[i]) = Len(Pars(m)[i])
                /\ \A j \in 1..Len(Pars(m)[i]) : u.pars[i][j] = SentOf(m, <<i, j>>)
      BY <2>5, <2>8, TextParts
    <3> QED BY <2>8, <3>1
  <2>12. ASSUME NEW i \in 1..Len(Pars(n)), NEW j \in 1..Len(Pars(n)[i])
         PROVE  SameSent(t.pars[i][j], u.pars[i][j], <<i, j>>, OneStatement(t))
    BY <2>3, <2>4, <2>10, <2>11, PlaceIs, SentComesBack
  <2> QED BY <2>2, <2>3, <2>7, <2>9, <2>10, <2>11, <2>12 DEF Same
<1> QED BY <1>1, TextInvHolds, PTL

---------------------------------------------------------------------------
(* Attribute values (ValueFile) *)

\* A value that is taken and whose shape a snapshot keeps.
KeptValue(m) == m \in Values /\ Confirmable(m) /\ Resolvable(m) /\ KeptShape(m)

\* The places of a value are closed under going up.
LEMMA PlacesOfValue ==
  ASSUME NEW m, WellGiven(m), NEW p \in DOMAIN m
  PROVE  /\ p \in Seq(Nat) /\ Len(p) \in Nat /\ Prefix(p, 0) = <<>> /\ Prefix(p, Len(p)) = p
         /\ \A k \in 0..Len(p) : Prefix(p, k) \in DOMAIN m /\ Len(Prefix(p, k)) = k
         /\ \A k \in 1..Len(p) : Prefix(p, k) # <<>> /\ Up(Prefix(p, k)) = Prefix(p, k - 1)
         /\ p # <<>> => Len(p) \in 1..Len(p)
<1>1. p \in Seq(Nat \ {0}) /\ \A k \in 0..Len(p) : Prefix(p, k) \in DOMAIN m
    BY DEF WellGiven
<1>2. p \in Seq(Nat) /\ Len(p) \in Nat
    BY <1>1
<1>3. Prefix(p, 0) = <<>> /\ Prefix(p, Len(p)) = p
    BY <1>2 DEF Prefix
<1>4. ASSUME NEW k \in 0..Len(p)
      PROVE  Len(Prefix(p, k)) = k /\ Prefix(p, k) \in Seq(Nat)
    BY <1>2 DEF Prefix
<1>5. ASSUME NEW k \in 1..Len(p) PROVE Prefix(p, k) # <<>> /\ Up(Prefix(p, k)) = Prefix(p, k - 1)
  <2>1. k \in Nat \ {0} /\ k - 1 \in 0..Len(p) /\ Len(Prefix(p, k)) = k
    BY <1>2, <1>4
  <2>2. Prefix(Prefix(p, k), k - 1) = Prefix(p, k - 1)
    BY <1>2, <2>1 DEF Prefix
  <2> QED BY <2>1, <2>2 DEF Up
<1> QED BY <1>1, <1>2, <1>3, <1>4, <1>5

\* The place above another one.
LEMMA UpIsPlace ==
  ASSUME NEW m, WellGiven(m), NEW p \in DOMAIN m, p # <<>>
  PROVE  /\ Up(p) \in DOMAIN m /\ Len(Up(p)) = Len(p) - 1 /\ Len(p) \in Nat \ {0}
         /\ \A k \in 0..(Len(p) - 1) : Prefix(Up(p), k) = Prefix(p, k)
<1>1. /\ p \in Seq(Nat) /\ Len(p) \in Nat /\ Len(p) \in 1..Len(p)
      /\ \A k \in 0..Len(p) : Prefix(p, k) \in DOMAIN m /\ Len(Prefix(p, k)) = k
    BY PlacesOfValue
<1>2. Len(p) - 1 \in 0..Len(p) /\ Up(p) \in DOMAIN m /\ Len(Up(p)) = Len(p) - 1
    BY <1>1 DEF Up
<1>3. ASSUME NEW k \in 0..(Len(p) - 1) PROVE Prefix(Up(p), k) = Prefix(p, k)
    BY <1>1, <1>2 DEF Up, Prefix
<1> QED BY <1>1, <1>2, <1>3

\* What is given at a place.
LEMMA AtPlace ==
  ASSUME NEW m \in Values, NEW p \in DOMAIN m
  PROVE  /\ WellGiven(m) /\ <<>> \in DOMAIN m
         /\ m[p].list \in BOOLEAN /\ (m[p].list => m[p].val = Null)
         /\ m[p].attr \in Attrs /\ m[p].attr # NoAttr
         /\ p = <<>> => ~IsItem(m, p) /\ m[p].attr \in AttrIdx[Owner]
         /\ p # <<>> /\ ~IsItem(m, p) => /\ m[Up(p)].attr.type = "inner"
                                         /\ m[p].attr \in AttrIdx[m[Up(p)].attr.refc]
         /\ IsItem(m, p) => /\ p # <<>> /\ m[Up(p)].list
                            /\ m[p].attr = m[Up(p)].attr /\ ~m[p].list
<1>1. WellGiven(m)
    BY ValueFileAssumption
<1>2. ASSUME NEW q \in DOMAIN m
      PROVE  /\ m[q].list \in BOOLEAN /\ (m[q].list => m[q].val = Null)
             /\ q = <<>> => m[q].attr \in AttrIdx[Owner]
             /\ q # <<>> /\ ~IsItem(m, q) => /\ m[Up(q)].attr.type = "inner"
                                             /\ m[q].attr \in AttrIdx[m[Up(q)].attr.refc]
             /\ IsItem(m, q) => m[q].attr = m[Up(q)].attr /\ ~m[q].list /\ q # <<>> /\ m[Up(q)].list
    BY <1>1 DEF WellGiven, IsItem
<1>3. /\ Len(p) \in Nat /\ Prefix(p, 0) = <<>> /\ Prefix(p, Len(p)) = p
      /\ \A k \in 0..Len(p) : Prefix(p, k) \in DOMAIN m
      /\ \A k \in 1..Len(p) : Prefix(p, k) # <<>> /\ Up(Prefix(p, k)) = Prefix(p, k - 1)
    BY <1>1, PlacesOfValue
<1>4. PICK T : T = {k \in 0..Len(p) : m[Prefix(p, k)].attr \in Attrs}
    OBVIOUS
<1>5. 0 \in T
    BY <1>2, <1>3, <1>4, ValueFileAssumption
<1>6. ASSUME NEW k \in 1..Len(p), k - 1 \in T PROVE k \in T
  <2>1. k \in 0..Len(p) /\ Prefix(p, k) \in DOMAIN m /\ m[Up(Prefix(p, k))].attr \in Attrs
    BY <1>3, <1>4, <1>6
  <2>2. m[Prefix(p, k)].attr \in Attrs
    BY <1>2, <1>3, <2>1, ValueFileAssumption
  <2> QED BY <1>4, <2>1, <2>2
<1>7. m[p].attr \in Attrs /\ <<>> \in DOMAIN m
  <2>1. Len(p) \in T
    BY <1>3, <1>5, <1>6, UpTo
  <2> QED BY <1>1, <1>3, <1>4, <2>1 DEF WellGiven
<1> QED BY <1>1, <1>2, <1>7, ValueFileAssumption DEF IsItem

\* What is at a place of a value of a kept shape: outside a list an array, an
\* inner value with nothing of its own, a word, a class or a text; in one an inner
\* value without or with its implied attribute, a class or a string.
ArrayAt(m, p) == /\ ~IsItem(m, p) /\ m[p].list /\ m[p].attr.set /\ m[p].val = Null
                 /\ m[p].attr.type \in {"str", "ref", "inner"}
PlainAt(m, p) == ~IsItem(m, p) /\ ~m[p].list /\ ~m[p].attr.set
BareAt(m, p) == /\ PlainAt(m, p) /\ m[p].attr.type = "inner" /\ m[p].val = Null
                /\ Implied[m[p].attr.refc] = NoAttr
WordAt(m, p) == PlainAt(m, p) /\ m[p].attr.type \in {"num", "float", "str"}
RefAt(m, p) == PlainAt(m, p) /\ m[p].attr.type = "ref" /\ m[p].val # Null
TextAt(m, p) == PlainAt(m, p) /\ m[p].attr.type = "text" /\ m[p].val # Null
InItem(m, p) == IsItem(m, p) /\ ~m[p].list /\ m[Up(p)].attr = m[p].attr
BareItem(m, p) == /\ InItem(m, p) /\ m[p].attr.type = "inner" /\ m[p].val = Null
                  /\ Implied[m[p].attr.refc] = NoAttr
ImplItem(m, p) == /\ InItem(m, p) /\ m[p].attr.type = "inner" /\ m[p].val # Null
                  /\ Implied[m[p].attr.refc] # NoAttr
                  /\ Implied[m[p].attr.refc].type \in {"str", "ref"}
                  /\ ImpliedRead[m[p].attr.refc] = Implied[m[p].attr.refc]
RefItem(m, p) == InItem(m, p) /\ m[p].attr.type = "ref" /\ m[p].val # Null
StrItem(m, p) == InItem(m, p) /\ m[p].attr.type = "str"

LEMMA Shapes ==
  ASSUME NEW m, KeptValue(m), NEW p \in DOMAIN m
  PROVE  \/ ArrayAt(m, p) \/ BareAt(m, p) \/ WordAt(m, p) \/ RefAt(m, p) \/ TextAt(m, p)
         \/ BareItem(m, p) \/ ImplItem(m, p) \/ RefItem(m, p) \/ StrItem(m, p)
<1>1. /\ m[p].list \in BOOLEAN /\ (m[p].list => m[p].val = Null)
      /\ IsItem(m, p) => /\ p # <<>> /\ m[Up(p)].list
                         /\ m[p].attr = m[Up(p)].attr /\ ~m[p].list
    BY AtPlace DEF KeptValue
<1>2. m[p].list \/ m[p].val # Null \/ m[p].attr.type = "inner"
    BY DEF KeptValue, Confirmable
<1>3. ~IsItem(m, p) => (m[p].attr.set <=> m[p].list)
    BY DEF KeptValue, Resolvable
<1>4. KeptAt(m, p)
    BY DEF KeptValue, KeptShape
<1>5. CASE m[p].list
  <2>1. ~IsItem(m, p) /\ m[p].attr.set /\ m[p].attr.type \in {"str", "ref", "inner"}
    BY <1>1, <1>3, <1>4, <1>5 DEF KeptAt
  <2> QED BY <1>1, <1>5, <2>1 DEF ArrayAt
<1>6. CASE ~m[p].list /\ m[p].attr.type # "inner"
  <2>1. m[p].attr.type \in PlainTypes /\ m[p].val # Null
    BY <1>2, <1>4, <1>6 DEF KeptAt
  <2>2. CASE ~IsItem(m, p)
    BY <1>3, <1>6, <2>1, <2>2 DEF PlainTypes, PlainAt, WordAt, RefAt, TextAt
  <2>3. CASE IsItem(m, p)
    <3>1. p # <<>> /\ m[Up(p)].list /\ m[p].attr = m[Up(p)].attr /\ Up(p) \in DOMAIN m
      BY <1>1, <2>3, AtPlace, UpIsPlace DEF KeptValue
    <3>2. m[p].attr.type \in {"str", "ref", "inner"}
      BY <3>1 DEF KeptValue, KeptShape, KeptAt
    <3> QED BY <1>6, <2>1, <2>3, <3>1, <3>2 DEF InItem, RefItem, StrItem
  <2> QED BY <2>2, <2>3
<1>7. CASE ~m[p].list /\ m[p].attr.type = "inner"
  <2>1. CASE Implied[m[p].attr.refc] = NoAttr
    <3>1. m[p].val = Null
      BY <1>4, <1>7, <2>1 DEF KeptAt
    <3> QED BY <1>1, <1>3, <1>7, <2>1, <3>1 DEF PlainAt, BareAt, InItem, BareItem
  <2>2. CASE Implied[m[p].attr.refc] # NoAttr
    BY <1>1, <1>4, <1>7, <2>2 DEF KeptAt, InItem, ImplItem
  <2> QED BY <2>1, <2>2
<1> QED BY <1>1, <1>5, <1>6, <1>7

\* What is resolved at a place.
LEMMA ResolvedAt ==
  ASSUME NEW m, KeptValue(m), NEW p \in DOMAIN m, NEW v, v = Resolve(m)[p], NEW a, a = m[p].attr
  PROVE  /\ v.list = m[p].list
         /\ ~IsItem(m, p) => v.attr = a
         /\ BareAt(m, p) \/ BareItem(m, p) => v.impl = NoAttr
         /\ WordAt(m, p) => v.val = m[p].val
         /\ RefAt(m, p) \/ RefItem(m, p) => v.class = m[p].val
         /\ TextAt(m, p) => v.text = m[p].val
         /\ StrItem(m, p) => v.name = m[p].val
         /\ ImplItem(m, p) => /\ v.impl = Implied[a.refc]
                              /\ Implied[a.refc].type = "ref" => v.class = m[p].val
                              /\ Implied[a.refc].type = "str" => v.name = m[p].val
<1>1. v = IF IsItem(m, p) THEN ResolveItem(a, m[p].val) ELSE ResolveVar(a, m[p].list, m[p].val)
    BY DEF Resolve
<1>2. PICK word : word = m[p].val
    OBVIOUS
<1>3. CASE ArrayAt(m, p)
  <2>1. v = [Var(a) EXCEPT !.name = a.id, !.list = TRUE]
    BY <1>1, <1>3, AtPlace DEF ArrayAt, ResolveVar, KeptValue
  <2> QED BY <1>3, <2>1, AtPlace DEF ArrayAt, Var, KeptValue, PlainAt, InItem, BareAt, WordAt, RefAt, TextAt, BareItem, ImplItem,
                          RefItem, StrItem
<1>4. CASE PlainAt(m, p)
  <2>1. v = ResolveVar(a, FALSE, word) /\ ~m[p].list /\ ~IsItem(m, p) /\ m[p].list = FALSE
    BY <1>1, <1>2, <1>4, AtPlace DEF PlainAt, KeptValue
  <2>2. /\ ~BareItem(m, p) /\ ~ImplItem(m, p) /\ ~RefItem(m, p) /\ ~StrItem(m, p) /\ ~ArrayAt(m, p)
    BY <2>1 DEF InItem, BareItem, ImplItem, RefItem, StrItem, ArrayAt
  <2>3. CASE BareAt(m, p)
    BY <1>2, <2>1, <2>2, <2>3 DEF BareAt, WordAt, RefAt, TextAt, ResolveVar, ResolveInner, Var
  <2>4. CASE WordAt(m, p)
    BY <1>2, <2>1, <2>2, <2>4 DEF BareAt, WordAt, RefAt, TextAt, ResolveVar, Var
  <2>5. CASE RefAt(m, p)
    BY <1>2, <2>1, <2>2, <2>5 DEF BareAt, WordAt, RefAt, TextAt, ResolveVar, Var
  <2>6. CASE TextAt(m, p)
    BY <1>2, <2>1, <2>2, <2>6 DEF BareAt, WordAt, RefAt, TextAt, ResolveVar, Var
  <2> QED BY <2>2, <2>3, <2>4, <2>5, <2>6, Shapes
<1>5. CASE InItem(m, p)
  <2>1. v = ResolveItem(a, word) /\ ~m[p].list /\ IsItem(m, p) /\ m[p].list = FALSE
    BY <1>1, <1>2, <1>5, AtPlace DEF InItem, KeptValue
  <2>2. ~BareAt(m, p) /\ ~WordAt(m, p) /\ ~RefAt(m, p) /\ ~TextAt(m, p) /\ ~ArrayAt(m, p)
    BY <2>1 DEF PlainAt, BareAt, WordAt, RefAt, TextAt, ArrayAt
  <2>3. CASE BareItem(m, p)
    BY <1>2, <2>1, <2>2, <2>3 DEF BareItem, ImplItem, RefItem, StrItem, ResolveItem, ResolveInner, Var
  <2>4. CASE RefItem(m, p)
    BY <1>2, <2>1, <2>2, <2>4 DEF BareItem, ImplItem, RefItem, StrItem, ResolveItem, Var
  <2>5. CASE StrItem(m, p)
    BY <1>2, <2>1, <2>2, <2>5 DEF BareItem, ImplItem, RefItem, StrItem, ResolveItem, Var
  <2>6. CASE ImplItem(m, p)
    <3>1. PICK b : b = Implied[a.refc]
      OBVIOUS
    <3>2. b # NoAttr /\ b.type \in {"str", "ref"} /\ a.type = "inner" /\ word # Null
      BY <1>2, <2>6, <3>1 DEF ImplItem
    <3>3. v = ResolveImplied([Var(a) EXCEPT !.name = word, !.val = word], b, word, TRUE)
      BY <2>1, <3>1, <3>2 DEF ResolveItem, ResolveInner
    <3>4. /\ v.impl = b /\ v.list = FALSE
          /\ b.type = "ref" => v.class = word
          /\ b.type = "str" => v.name = word
      BY <3>2, <3>3 DEF ResolveImplied, Var
    <3> QED BY <1>2, <2>1, <2>2, <2>6, <3>1, <3>2, <3>4 DEF BareItem, ImplItem, RefItem, StrItem
  <2> QED BY <2>2, <2>3, <2>4, <2>5, <2>6, Shapes
<1> QED BY <1>3, <1>4, <1>5, Shapes DEF BareAt, WordAt, RefAt, TextAt, BareItem, ImplItem, RefItem, StrItem

\* A variable is an item if what was given is one.
LEMMA SameItems ==
  ASSUME NEW m, KeptValue(m), NEW p \in DOMAIN m, NEW t, \A q \in DOMAIN m : t[q].list = m[q].list
  PROVE  IsItem(t, p) <=> IsItem(m, p)
<1>1. p # <<>> => Up(p) \in DOMAIN m
    BY AtPlace, UpIsPlace DEF KeptValue
<1> QED BY <1>1 DEF IsItem

\* The value above a value that is no item is an inner one, and no list.
LEMMA AboveInner ==
  ASSUME NEW m, KeptValue(m), NEW p \in DOMAIN m, p # <<>>, ~IsItem(m, p)
  PROVE  /\ Up(p) \in DOMAIN m /\ m[Up(p)].attr.type = "inner"
         /\ BareAt(m, Up(p)) \/ BareItem(m, Up(p)) \/ ImplItem(m, Up(p))
         /\ m[p].attr \in AttrIdx[m[Up(p)].attr.refc]
<1>1. /\ Up(p) \in DOMAIN m /\ m[Up(p)].attr.type = "inner"
      /\ m[p].attr \in AttrIdx[m[Up(p)].attr.refc]
    BY AtPlace, UpIsPlace DEF KeptValue
<1>2. ~ArrayAt(m, Up(p))
  <2>1. m[Up(p)].list \in BOOLEAN
    BY <1>1, AtPlace DEF KeptValue
  <2> QED BY <2>1 DEF IsItem, ArrayAt
<1>3. /\ ~WordAt(m, Up(p)) /\ ~RefAt(m, Up(p)) /\ ~TextAt(m, Up(p))
      /\ ~RefItem(m, Up(p)) /\ ~StrItem(m, Up(p))
    BY <1>1 DEF WordAt, RefAt, TextAt, RefItem, StrItem
<1> QED BY <1>1, <1>2, <1>3, Shapes

\* The writer goes on with everything that has something in it.
LEMMA EnteredAbove ==
  ASSUME NEW m, KeptValue(m), NEW p \in DOMAIN m, p # <<>>
  PROVE  Up(p) \in DOMAIN m /\ Entered(Resolve(m), Up(p))
<1>1. PICK q : q = Up(p)
    OBVIOUS
<1>2. PICK t : t = Resolve(m)
    OBVIOUS
<1>3. q \in DOMAIN m
    BY <1>1, AtPlace, UpIsPlace DEF KeptValue
<1>4. \A r \in DOMAIN m : t[r].list = m[r].list
    BY <1>2, ResolvedAt
<1>5. CASE IsItem(m, p)
  <2>1. ~IsItem(m, q) /\ m[q].list
    BY <1>1, <1>3, <1>5, AtPlace DEF KeptValue
  <2>2. ArrayAt(m, q) /\ ~IsItem(t, q)
    BY <1>3, <1>4, <2>1, Shapes, SameItems DEF PlainAt, BareAt, WordAt, RefAt, TextAt, InItem,
       BareItem, ImplItem, RefItem, StrItem
  <2>3. t[q].attr = m[q].attr /\ t[q].list
    BY <1>2, <1>3, <1>4, <2>1, ResolvedAt
  <2> QED BY <1>1, <1>2, <1>3, <2>2, <2>3 DEF Entered, ArrayAt
<1>6. CASE ~IsItem(m, p)
  <2>1. BareAt(m, q) \/ BareItem(m, q) \/ ImplItem(m, q)
    BY <1>1, <1>6, AboveInner
  <2>2. CASE BareAt(m, q)
    <3>1. ~IsItem(m, q) /\ ~IsItem(t, q)
      BY <1>3, <1>4, <2>2, SameItems DEF BareAt, PlainAt
    <3>2. t[q].attr = m[q].attr /\ ~t[q].list
      BY <1>2, <1>3, <1>4, <2>2, <3>1, ResolvedAt DEF BareAt, PlainAt
    <3> QED BY <1>1, <1>2, <1>3, <2>2, <3>1, <3>2 DEF Entered, BareAt, PlainAt
  <2>3. CASE BareItem(m, q) \/ ImplItem(m, q)
    <3>1. InItem(m, q) /\ m[q].attr.type = "inner" /\ IsItem(t, q)
      BY <1>3, <1>4, <2>3, SameItems DEF BareItem, ImplItem, InItem
    <3>2. Up(q) \in DOMAIN m /\ m[Up(q)].attr = m[q].attr /\ m[Up(q)].list /\ ~IsItem(m, Up(q))
      BY <1>3, <3>1, AtPlace, UpIsPlace DEF KeptValue, InItem
    <3>3. t[Up(q)].attr = m[q].attr
      BY <1>2, <3>2, ResolvedAt
    <3> QED BY <1>1, <1>2, <1>3, <3>1, <3>3 DEF Entered
  <2> QED BY <2>1, <2>2, <2>3
<1> QED BY <1>5, <1>6

\* Everything that was given has a field.
LEMMA AllWritten ==
  ASSUME NEW m, KeptValue(m)
  PROVE  /\ DOMAIN Export(Resolve(m)) = DOMAIN m
         /\ \A p \in DOMAIN m : Export(Resolve(m))[p] =
               IF IsItem(m, p) THEN ItemOut(m[p].attr, Resolve(m)[p])
               ELSE VarOut(Resolve(m)[p], p = <<>>)
<1>1. PICK t : t = Resolve(m)
    OBVIOUS
<1>2. DOMAIN t = DOMAIN m
    BY <1>1 DEF Resolve
<1>3. ASSUME NEW p \in DOMAIN m, NEW k \in 0..(Len(p) - 1) PROVE Entered(t, Prefix(p, k))
  <2>1. /\ Len(p) \in Nat /\ \A j \in 0..Len(p) : Prefix(p, j) \in DOMAIN m
        /\ \A j \in 1..Len(p) : Prefix(p, j) # <<>> /\ Up(Prefix(p, j)) = Prefix(p, j - 1)
    BY PlacesOfValue, AtPlace DEF KeptValue
  <2>2. k + 1 \in 1..Len(p) /\ k + 1 \in 0..Len(p) /\ (k + 1) - 1 = k
    BY <2>1
  <2> QED BY <1>1, <2>1, <2>2, EnteredAbove
<1>4. Export(t) = [p \in DOMAIN m |-> IF IsItem(t, p) THEN ItemOut(t[Up(p)].attr, t[p])
                                      ELSE VarOut(t[p], p = <<>>)]
    BY <1>2, <1>3 DEF Export
<1>5. ASSUME NEW p \in DOMAIN m
      PROVE  /\ IsItem(t, p) <=> IsItem(m, p)
             /\ IsItem(m, p) => t[Up(p)].attr = m[p].attr
  <2>1. IsItem(t, p) <=> IsItem(m, p)
    BY <1>1, ResolvedAt, SameItems
  <2>2. ASSUME IsItem(m, p) PROVE t[Up(p)].attr = m[p].attr
    <3>1. Up(p) \in DOMAIN m /\ m[Up(p)].attr = m[p].attr /\ m[Up(p)].list
      BY <2>2, AtPlace, UpIsPlace DEF KeptValue
    <3>2. ~IsItem(m, Up(p))
      BY <3>1, AtPlace DEF KeptValue
    <3> QED BY <1>1, <3>1, <3>2, ResolvedAt
  <2> QED BY <2>1, <2>2
<1> QED BY <1>1, <1>4, <1>5

\* What is written for a place.
LEMMA WrittenAt ==
  ASSUME NEW m, KeptValue(m), NEW p \in DOMAIN m, NEW w, w = Export(Resolve(m))
  PROVE  /\ w[p].list = m[p].list /\ (~IsItem(m, p) => w[p].tag = m[p].attr.id)
         /\ ArrayAt(m, p) \/ BareAt(m, p) \/ BareItem(m, p) => w[p].val = NoVal /\ w[p].text = NoVal
         /\ WordAt(m, p) => w[p].val = Code(m[p].val) /\ w[p].text = NoVal
         /\ RefAt(m, p) => w[p].val = Cls(m[p].val) /\ w[p].text = NoVal
         /\ TextAt(m, p) => w[p].val = NoVal /\ w[p].text = Code(m[p].val)
         /\ StrItem(m, p) => w[p].val = Code(m[p].val) /\ w[p].text = NoVal
         /\ RefItem(m, p) => w[p].val = Cls(m[p].val) /\ w[p].text = NoVal
         /\ ImplItem(m, p) => /\ w[p].val = IF Implied[m[p].attr.refc].type = "ref" THEN Cls(m[p].val)
                                            ELSE Code(m[p].val)
                              /\ w[p].text = NoVal
<1> DEFINE a == m[p].attr
           word == m[p].val
           f == w[p]
<1>1. PICK v : v = Resolve(m)[p]
    OBVIOUS
<1>2. f = IF IsItem(m, p) THEN ItemOut(a, v) ELSE VarOut(v, p = <<>>)
    BY <1>1, AllWritten
<1>3. m[p].list \in BOOLEAN /\ v.list = m[p].list /\ (~IsItem(m, p) => v.attr = a)
    BY <1>1, ResolvedAt, AtPlace DEF KeptValue
<1>4. ASSUME ArrayAt(m, p) PROVE f = Array(a.id)
  <2>1. ~IsItem(m, p) /\ a.set
    BY <1>4 DEF ArrayAt
  <2> QED BY <1>2, <1>3, <2>1 DEF VarOut
<1>5. ASSUME PlainAt(m, p) PROVE ~IsItem(m, p) /\ v.attr = a /\ ~a.set /\ f = VarOut(v, p = <<>>)
    BY <1>2, <1>3, <1>5 DEF PlainAt
<1>6. ASSUME BareAt(m, p) PROVE f = Field(a.id, NoVal)
  <2>1. v.impl = NoAttr /\ a.type = "inner" /\ PlainAt(m, p)
    BY <1>1, <1>6, ResolvedAt DEF BareAt
  <2> QED BY <1>5, <2>1 DEF VarOut, ImpliedOut
<1>7. ASSUME WordAt(m, p) PROVE f = Field(a.id, Code(word))
  <2>1. v.val = word /\ a.type \in {"num", "float", "str"} /\ PlainAt(m, p)
    BY <1>1, <1>7, ResolvedAt DEF WordAt
  <2> QED BY <1>5, <2>1 DEF VarOut
<1>8. ASSUME RefAt(m, p) PROVE f = Field(a.id, Cls(word))
  <2>1. v.class = word /\ a.type = "ref" /\ word # Null /\ PlainAt(m, p)
    BY <1>1, <1>8, ResolvedAt DEF RefAt
  <2> QED BY <1>5, <2>1 DEF VarOut, ClassOut
<1>9. ASSUME TextAt(m, p) PROVE f.tag = a.id /\ f.list = FALSE /\ f.val = NoVal /\ f.text = Code(word)
  <2>1. v.text = word /\ a.type = "text" /\ word # Null /\ PlainAt(m, p)
    BY <1>1, <1>9, ResolvedAt DEF TextAt
  <2>2. f = TextField(a.id, word)
    BY <1>5, <2>1 DEF VarOut
  <2> QED BY <2>1, <2>2 DEF TextField, Field
<1>10. ASSUME InItem(m, p) PROVE f = ItemOut(a, v)
    BY <1>2, <1>10 DEF InItem
<1>11. ASSUME BareItem(m, p) PROVE f = Field(Null, NoVal)
  <2>1. v.impl = NoAttr /\ a.type = "inner" /\ InItem(m, p)
    BY <1>1, <1>11, ResolvedAt DEF BareItem
  <2> QED BY <1>10, <2>1 DEF ItemOut, ImpliedOut, Classlike
<1>12. ASSUME StrItem(m, p) PROVE f = Field(Null, Code(word))
  <2>1. v.name = word /\ a.type = "str" /\ InItem(m, p)
    BY <1>1, <1>12, ResolvedAt DEF StrItem
  <2> QED BY <1>10, <2>1 DEF ItemOut, Classlike
<1>13. ASSUME RefItem(m, p) PROVE f = Field(Null, Cls(word))
  <2>1. v.class = word /\ a.type = "ref" /\ word # Null /\ InItem(m, p)
    BY <1>1, <1>13, ResolvedAt DEF RefItem
  <2> QED BY <1>10, <2>1 DEF ItemOut, ClassOut, Classlike
<1>14. ASSUME ImplItem(m, p)
       PROVE  f = Field(Null, IF Implied[a.refc].type = "ref" THEN Cls(word) ELSE Code(word))
  <2>1. PICK b : b = Implied[a.refc]
    OBVIOUS
  <2>2. /\ v.impl = b /\ a.type = "inner" /\ word # Null /\ InItem(m, p) /\ b # NoAttr
        /\ b.type \in {"str", "ref"}
        /\ b.type = "ref" => v.class = word
        /\ b.type = "str" => v.name = word
    BY <1>1, <1>14, <2>1, ResolvedAt DEF ImplItem
  <2>3. ImpliedOut(v) = IF b.type = "ref" THEN Cls(word) ELSE Code(word)
    BY <2>2 DEF ImpliedOut, ClassOut
  <2> QED BY <1>10, <2>1, <2>2, <2>3 DEF ItemOut, Classlike
<1>15. f.list = m[p].list
  <2>1. ArrayAt(m, p) => m[p].list = TRUE
    BY <1>3 DEF ArrayAt
  <2>2. PlainAt(m, p) \/ InItem(m, p) => m[p].list = FALSE
    BY <1>3 DEF PlainAt, InItem
  <2>3. TextAt(m, p) => f.list = FALSE
    BY <1>9
  <2>4. \A tag, x : Field(tag, x).list = FALSE /\ Array(tag).list = TRUE
    BY DEF Field, Array
  <2>5. ArrayAt(m, p) => f.list = TRUE
    BY <1>4, <2>4
  <2>6. ~ArrayAt(m, p) => f.list = FALSE /\ (PlainAt(m, p) \/ InItem(m, p))
    BY <1>6, <1>7, <1>8, <1>11, <1>12, <1>13, <1>14, <2>3, <2>4, Shapes
       DEF BareAt, WordAt, RefAt, TextAt, BareItem, ImplItem, RefItem, StrItem
  <2> QED BY <2>1, <2>2, <2>5, <2>6
<1>16. ASSUME ~IsItem(m, p) PROVE f.tag = a.id
  <2>2. ArrayAt(m, p) \/ BareAt(m, p) \/ WordAt(m, p) \/ RefAt(m, p) \/ TextAt(m, p)
    BY <1>16, Shapes DEF InItem, BareItem, ImplItem, RefItem, StrItem
  <2>3. ArrayAt(m, p) => f.tag = a.id
    BY <1>4 DEF Field, Array
  <2>4. BareAt(m, p) \/ WordAt(m, p) \/ RefAt(m, p) => f.tag = a.id
    BY <1>6, <1>7, <1>8 DEF Field
  <2> QED BY <1>9, <2>2, <2>3, <2>4
<1>17. /\ BareAt(m, p) \/ BareItem(m, p) => f.val = NoVal /\ f.text = NoVal
       /\ WordAt(m, p) \/ StrItem(m, p) => f.val = Code(word) /\ f.text = NoVal
       /\ RefAt(m, p) \/ RefItem(m, p) => f.val = Cls(word) /\ f.text = NoVal
  <2>1. /\ BareAt(m, p) => f.val = NoVal /\ f.text = NoVal
    BY <1>6 DEF Field
  <2>2. BareItem(m, p) => f.val = NoVal /\ f.text = NoVal
    BY <1>11 DEF Field
  <2>3. WordAt(m, p) => f.val = Code(word) /\ f.text = NoVal
    BY <1>7 DEF Field
  <2>4. StrItem(m, p) => f.val = Code(word) /\ f.text = NoVal
    BY <1>12 DEF Field
  <2>5. RefAt(m, p) => f.val = Cls(word) /\ f.text = NoVal
    BY <1>8 DEF Field
  <2>6. RefItem(m, p) => f.val = Cls(word) /\ f.text = NoVal
    BY <1>13 DEF Field
  <2> QED BY <2>1, <2>2, <2>3, <2>4, <2>5, <2>6
<1>18. ImplItem(m, p) => /\ f.val = IF Implied[a.refc].type = "ref" THEN Cls(word) ELSE Code(word)
                         /\ f.text = NoVal
  <2>1. PICK x : x = IF Implied[a.refc].type = "ref" THEN Cls(word) ELSE Code(word)
    OBVIOUS
  <2>2. ImplItem(m, p) => f = Field(Null, x)
    BY <1>14, <2>1
  <2> QED BY <2>1, <2>2 DEF Field
<1>19. ArrayAt(m, p) => f.val = NoVal /\ f.text = NoVal
    BY <1>4 DEF Array, Field
<1> QED BY <1>9, <1>15, <1>16, <1>17, <1>18, <1>19

\* Attributes of a class are told apart by their ids.
LEMMA DeclarationIs ==
  ASSUME NEW c \in DOMAIN AttrIdx, NEW a \in AttrIdx[c]
  PROVE  Declaration(c, a.id) = a
<1>1. c # Null /\ \E b \in AttrIdx[c] : b.id = a.id
    BY ValueFileAssumption
<1>2. \A b \in AttrIdx[c] : b.id = a.id => b = a
    BY ValueFileAssumption
<1>3. (CHOOSE b \in AttrIdx[c] : b.id = a.id) = a
    BY <1>1, <1>2
<1> QED BY <1>1, <1>3 DEF Declaration

\* The attribute and the class the reader has at a place.
Known(m, p) ==
    IF IsItem(m, p)
    THEN [attr |-> NoAttr, class |-> IF Len(p) = 1 THEN Template(m[p].attr) ELSE Null]
    ELSE [attr |-> m[p].attr, class |-> Template(m[p].attr)]

\* Above a value that is no item the reader has the class of the inner value.
LEMMA KnownAbove ==
  ASSUME NEW m, KeptValue(m), NEW p \in DOMAIN m, p # <<>>, ~IsItem(m, p)
  PROVE  /\ Known(m, Up(p)).class = m[Up(p)].attr.refc
         /\ m[Up(p)].attr.refc \in DOMAIN AttrIdx
<1>1. PICK q : q = Up(p)
    OBVIOUS
<1>2. q \in DOMAIN m /\ m[q].attr.type = "inner"
    BY <1>1, AboveInner
<1>3. m[q].attr \in Attrs /\ m[q].attr # NoAttr
    BY <1>2, AtPlace DEF KeptValue
<1>4. Template(m[q].attr) = m[q].attr.refc /\ m[q].attr.refc \in DOMAIN AttrIdx
    BY <1>2, <1>3, ValueFileAssumption DEF Template
<1>5. ASSUME IsItem(m, q) PROVE Len(q) = 1
  <2>1. /\ q # <<>> /\ Up(q) \in DOMAIN m /\ m[Up(q)].list /\ m[Up(q)].attr = m[q].attr
        /\ Len(q) \in Nat \ {0} /\ Len(Up(q)) = Len(q) - 1 /\ Len(Up(q)) \in Nat /\ Up(q) \in Seq(Nat)
    BY <1>2, <1>5, AtPlace, UpIsPlace, PlacesOfValue DEF KeptValue
  <2>2. KeptAt(m, Up(q))
    BY <2>1 DEF KeptValue, KeptShape
  <2>3. Up(q) = <<>>
    BY <1>2, <2>1, <2>2 DEF KeptAt
  <2> QED BY <2>1, <2>3
<1> QED BY <1>1, <1>4, <1>5 DEF Known

\* What the reader knows at a place follows from what it knows above it.
LEMMA KnownStep ==
  ASSUME NEW m, KeptValue(m), NEW w, w = Export(Resolve(m)), NEW p \in DOMAIN m,
         NEW above, p # <<>> => above = Known(m, Up(p))
  PROVE  Entry(w, p, above) = Known(m, p)
<1>1. IsItem(w, p) <=> IsItem(m, p)
  <2>1. \A q \in DOMAIN m : w[q].list = m[q].list
    BY WrittenAt
  <2> QED BY <2>1, SameItems
<1>2. ASSUME ~IsItem(m, p) PROVE w[p].tag = m[p].attr.id
    BY <1>2, WrittenAt
<1>3. ASSUME p = <<>> PROVE Entry(w, p, above) = Known(m, p)
  <2>1. ~IsItem(m, p) /\ Declaration(Owner, w[p].tag) = m[p].attr
    BY <1>2, <1>3, AtPlace, DeclarationIs, ValueFileAssumption DEF KeptValue
  <2> QED BY <1>1, <1>3, <2>1 DEF Entry, Known
<1>4. ASSUME p # <<>>, IsItem(m, p) PROVE Entry(w, p, above) = Known(m, p)
  <2>1. Up(p) \in DOMAIN m /\ m[Up(p)].attr = m[p].attr /\ m[Up(p)].list
    BY <1>4, AtPlace, UpIsPlace DEF KeptValue
  <2>2. ~IsItem(m, Up(p))
    BY <2>1, AtPlace DEF KeptValue
  <2>3. above.class = Template(m[p].attr)
    BY <1>4, <2>1, <2>2 DEF Known
  <2> QED BY <1>1, <1>4, <2>3 DEF Entry, Known
<1>5. ASSUME p # <<>>, ~IsItem(m, p) PROVE Entry(w, p, above) = Known(m, p)
  <2>1. Declaration(above.class, w[p].tag) = m[p].attr
    BY <1>2, <1>5, AboveInner, KnownAbove, DeclarationIs
  <2> QED BY <1>1, <1>5, <2>1 DEF Entry, Known
<1> QED BY <1>3, <1>4, <1>5

LEMMA ContextIs ==
  ASSUME NEW m, KeptValue(m), NEW w, w = Export(Resolve(m)), NEW p \in DOMAIN m
  PROVE  Context(w, p) = Known(m, p)
<1>1. /\ Len(p) \in Nat /\ Prefix(p, 0) = <<>> /\ Prefix(p, Len(p)) = p
      /\ \A k \in 0..Len(p) : Prefix(p, k) \in DOMAIN m
      /\ \A k \in 1..Len(p) : Prefix(p, k) # <<>> /\ Up(Prefix(p, k)) = Prefix(p, k - 1)
    BY PlacesOfValue, AtPlace DEF KeptValue
<1>2. PICK e : e = [k \in 0..Len(p) |-> Known(m, Prefix(p, k))]
    OBVIOUS
<1>3. ASSUME NEW k \in 0..Len(p), NEW above, k # 0 => above = Known(m, Prefix(p, k - 1))
      PROVE  Entry(w, Prefix(p, k), above) = Known(m, Prefix(p, k))
  <2>1. Prefix(p, k) \in DOMAIN m /\ (Prefix(p, k) # <<>> => above = Known(m, Up(Prefix(p, k))))
    BY <1>1, <1>3
  <2> QED BY <2>1, KnownStep
<1>4. \A k \in 0..Len(p) :
         e[k] = Entry(w, Prefix(p, k), IF k = 0 THEN Null ELSE e[k - 1])
  <2>1. SUFFICES ASSUME NEW k \in 0..Len(p)
                 PROVE  Entry(w, Prefix(p, k), IF k = 0 THEN Null ELSE e[k - 1]) = Known(m, Prefix(p, k))
    BY <1>2
  <2>2. k # 0 => k - 1 \in 0..Len(p)
    BY <1>1
  <2>3. k # 0 => (IF k = 0 THEN Null ELSE e[k - 1]) = Known(m, Prefix(p, k - 1))
    BY <1>2, <2>2
  <2> QED BY <1>3, <2>3
<1>5. e = [k \in 0..Len(p) |-> Entry(w, Prefix(p, k), IF k = 0 THEN Null ELSE e[k - 1])]
    BY <1>2, <1>4
<1>6. PICK f : /\ f = [k \in 0..Len(p) |-> Entry(w, Prefix(p, k), IF k = 0 THEN Null ELSE f[k - 1])]
               /\ Context(w, p) = f[Len(p)]
    BY <1>5, Zenon DEF Context
<1>7. PICK T : T = {k \in 0..Len(p) : f[k] = Known(m, Prefix(p, k))}
    OBVIOUS
<1>8. 0 \in T
  <2>1. 0 \in 0..Len(p) /\ f[0] = Entry(w, Prefix(p, 0), Null)
    BY <1>1, <1>6
  <2> QED BY <1>3, <1>7, <2>1
<1>9. ASSUME NEW k \in 1..Len(p), k - 1 \in T PROVE k \in T
  <2>1. k \in 0..Len(p) /\ k # 0 /\ f[k - 1] = Known(m, Prefix(p, k - 1))
    BY <1>1, <1>7, <1>9
  <2>2. f[k] = Entry(w, Prefix(p, k), f[k - 1])
    BY <1>6, <2>1
  <2> QED BY <1>3, <1>7, <2>1, <2>2
<1>10. Len(p) \in T
    BY <1>1, <1>8, <1>9, UpTo
<1> QED BY <1>1, <1>6, <1>7, <1>10

\* How a value is written, and the fields of an answer.
LEMMA EncodedAs == \A x : /\ Code(x).enc = "code" /\ Code(x).of = x /\ Code(x) # NoVal
                          /\ Cls(x).enc = "cls" /\ Cls(x).of = x /\ NoVal.enc = "none"
BY DEF Code, Cls, NoVal

LEMMA OkIs == \A v : Ok(v).st = "ok" /\ Ok(v).v = v
BY DEF Ok

\* What set_attr_var_name makes of a class and of a string.
NameType(a, c) == IF ImpliedOf(c) # NoAttr THEN ImpliedOf(c).type ELSE a.type
NamedClass(b, x) == [Var(NoAttr) EXCEPT !.impl = b, !.class = x]
NamedWord(b, x) == [Var(NoAttr) EXCEPT !.impl = b, !.name = x]
LEMMA SetNameClass ==
  ASSUME NEW a, NEW c, NEW x, NameType(a, c) = "ref"
  PROVE  SetName(Var(NoAttr), a, c, Cls(x)) = Ok(NamedClass(ImpliedOf(c), x))
BY DEF SetName, NameType, NamedClass, AsClass, Classlike, Cls

LEMMA SetNameWord ==
  ASSUME NEW a, NEW c, NEW x, NameType(a, c) = "str"
  PROVE  SetName(Var(NoAttr), a, c, Code(x)) = Ok(NamedWord(ImpliedOf(c), x))
BY DEF SetName, NameType, NamedWord, Decoded, Classlike, Code

LEMMA NamedClassIs ==
  \A b, x : /\ NamedClass(b, x).list = FALSE /\ NamedClass(b, x).impl = b
            /\ NamedClass(b, x).class = x
BY DEF NamedClass, Var

LEMMA NamedWordIs ==
  \A b, x : /\ NamedWord(b, x).list = FALSE /\ NamedWord(b, x).impl = b
            /\ NamedWord(b, x).name = x
BY DEF NamedWord, Var

\* What set_attr_var_value makes of a word and of a class, and a text.
Named(a) == [Var(a) EXCEPT !.name = a.id, !.list = FALSE]
WithWord(v, x) == [v EXCEPT !.val = x]
WithClass(v, x) == [v EXCEPT !.val = Null, !.class = x]
WithText(v, x) == [v EXCEPT !.text = x]
LEMMA NamedIs == \A a : Named(a).list = FALSE /\ Named(a).attr = a /\ Named(a).impl = NoAttr
BY DEF Named, Var

LEMMA WithWordIs ==
  \A a, x : /\ WithWord(Named(a), x).list = FALSE /\ WithWord(Named(a), x).attr = a
            /\ WithWord(Named(a), x).val = x
BY DEF WithWord, Named, Var

LEMMA WithClassIs ==
  \A a, x : /\ WithClass(Named(a), x).list = FALSE /\ WithClass(Named(a), x).attr = a
            /\ WithClass(Named(a), x).class = x
BY DEF WithClass, Named, Var

LEMMA WithTextIs ==
  \A a, x : /\ WithText(Named(a), x).list = FALSE /\ WithText(Named(a), x).attr = a
            /\ WithText(Named(a), x).text = x
BY DEF WithText, Named, Var

LEMMA SetValueWord ==
  ASSUME NEW a, NEW c, NEW x, a.type \in {"num", "float", "str"}
  PROVE  SetValue(Named(a), c, Code(x)) = Ok(WithWord(Named(a), x))
<1>1. PICK v : v = Named(a)
    OBVIOUS
<1>2. PICK s : s = Code(x)
    OBVIOUS
<1>3. v.attr.type \in DecodedTypes
    BY <1>1, NamedIs DEF DecodedTypes
<1>4. SetValue(v, c, s) = Decoded(s, WithWord(v, s.of))
    BY <1>3 DEF SetValue, WithWord, DecodedTypes, Classlike
<1>5. s.enc = "code" /\ s.of = x
    BY <1>2, EncodedAs
<1> QED BY <1>1, <1>2, <1>4, <1>5 DEF Decoded

LEMMA SetValueClass ==
  ASSUME NEW a, NEW c, NEW x, a.type = "ref"
  PROVE  SetValue(Named(a), c, Cls(x)) = Ok(WithClass(Named(a), x))
<1>1. PICK v : v = Named(a)
    OBVIOUS
<1>2. v.attr.type = "ref"
    BY <1>1, NamedIs
<1>3. SetValue(v, c, Cls(x)) = Ok(WithClass(v, x))
    BY <1>2 DEF SetValue, WithClass, DecodedTypes, AsClass, Classlike, Cls, Stored
<1> QED BY <1>1, <1>3

\* What is read at a place.
LEMMA ReadBack ==
  ASSUME NEW m, KeptValue(m), NEW w, w = Export(Resolve(m)), NEW p \in DOMAIN m
  PROVE  /\ ReadAt(w, p).st = "ok" /\ ReadAt(w, p).v.list = m[p].list
         /\ ~IsItem(m, p) => ReadAt(w, p).v.attr = m[p].attr
         /\ BareAt(m, p) \/ BareItem(m, p) => ReadAt(w, p).v.impl = NoAttr
         /\ WordAt(m, p) => ReadAt(w, p).v.val = m[p].val
         /\ RefAt(m, p) \/ RefItem(m, p) => ReadAt(w, p).v.class = m[p].val
         /\ TextAt(m, p) => ReadAt(w, p).v.text = m[p].val
         /\ StrItem(m, p) => ReadAt(w, p).v.name = m[p].val
         /\ ImplItem(m, p) => /\ ReadAt(w, p).v.impl = Implied[m[p].attr.refc]
                              /\ Implied[m[p].attr.refc].type = "ref" => ReadAt(w, p).v.class = m[p].val
                              /\ Implied[m[p].attr.refc].type = "str" => ReadAt(w, p).v.name = m[p].val
<1> DEFINE a == m[p].attr
           word == m[p].val
           f == w[p]
           here == Context(w, p)
           r == ReadAt(w, p)
<1>1. IsItem(w, p) <=> IsItem(m, p)
  <2>1. \A q \in DOMAIN m : w[q].list = m[q].list
    BY WrittenAt
  <2> QED BY <2>1, SameItems
<1>2. m[p].list \in BOOLEAN /\ a # NoAttr /\ here = Known(m, p) /\ f.list = m[p].list
    BY AtPlace, ContextIs, WrittenAt DEF KeptValue
<1>3. ASSUME ~IsItem(m, p)
      PROVE  /\ here.attr = a /\ here.class = Template(a)
             /\ m[p].list => r = Ok([Var(a) EXCEPT !.name = a.id, !.list = m[p].list])
             /\ ~m[p].list =>
                   r = LET valued == IF f.val.enc = "none" THEN Ok(Named(a))
                                     ELSE SetValue(Named(a), here.class, f.val)
                       IN IF valued.st # "ok" \/ f.text = NoVal THEN valued
                          ELSE Ok(WithText(valued.v, f.text.of))
  <2>1. here.attr = a /\ here.class = Template(a)
    BY <1>2, <1>3 DEF Known
  <2>2. p # <<>> => Context(w, Up(p)).class # Null
    <3>1. ASSUME p # <<>> PROVE Context(w, Up(p)).class # Null
      <4>1. Up(p) \in DOMAIN m
        BY <1>3, <3>1, AboveInner
      <4>2. Context(w, Up(p)) = Known(m, Up(p))
        BY <4>1, ContextIs
      <4> QED BY <1>3, <3>1, <4>2, KnownAbove, ValueFileAssumption
    <3> QED BY <3>1
  <2>3. r = ReadField(w, p)
    BY <1>1, <1>3 DEF ReadAt
  <2> QED BY <1>2, <2>1, <2>2, <2>3 DEF ReadField, Named, WithText
<1>4. ASSUME InItem(m, p)
      PROVE  /\ IsItem(m, p)
             /\ here.class = IF Len(p) = 1 THEN Template(a) ELSE Null
             /\ Context(w, Up(p)).attr = a
             /\ f.val.enc = "none" /\ f.text = NoVal => r = Ok(Var(NoAttr))
             /\ f.val.enc # "none" /\ f.text = NoVal => r = SetName(Var(NoAttr), a, here.class, f.val)
  <2>1. IsItem(m, p) /\ here.class = IF Len(p) = 1 THEN Template(a) ELSE Null
    BY <1>2, <1>4 DEF InItem, Known
  <2>2. Up(p) \in DOMAIN m /\ m[Up(p)].attr = a /\ ~IsItem(m, Up(p))
    BY <2>1, AtPlace, UpIsPlace DEF KeptValue
  <2>3. Context(w, Up(p)).attr = a
    BY <2>2, ContextIs DEF Known
  <2>4. r = ReadListItem(w, p)
    BY <1>1, <2>1 DEF ReadAt
  <2> QED BY <2>1, <2>3, <2>4 DEF ReadListItem
<1>5. CASE ArrayAt(m, p)
  <2>1. ~IsItem(m, p) /\ m[p].list = TRUE
    BY <1>2, <1>5 DEF ArrayAt
  <2>2. PICK v : v = [Var(a) EXCEPT !.name = a.id, !.list = TRUE]
    OBVIOUS
  <2>3. v.list = TRUE /\ v.attr = a
    BY <2>2 DEF Var
  <2>4. r = Ok(v)
    BY <1>2, <1>3, <2>1, <2>2
  <2>5. r.st = "ok" /\ r.v.list = m[p].list /\ r.v.attr = a
    BY <2>1, <2>3, <2>4, OkIs
  <2> QED BY <2>1, <2>5 DEF PlainAt, BareAt, WordAt, RefAt, TextAt, InItem, BareItem, ImplItem, RefItem, StrItem
<1>6. CASE PlainAt(m, p)
  <2>1. ~IsItem(m, p) /\ m[p].list = FALSE
    BY <1>2, <1>6 DEF PlainAt
  <2>2. PICK v : v = Named(a)
    OBVIOUS
  <2>3. v.attr = a /\ v.list = FALSE /\ v.impl = NoAttr
    BY <2>2, NamedIs
  <2>4. r = LET valued == IF f.val.enc = "none" THEN Ok(v) ELSE SetValue(v, here.class, f.val)
            IN IF valued.st # "ok" \/ f.text = NoVal THEN valued
               ELSE Ok(WithText(valued.v, f.text.of))
    BY <1>2, <1>3, <2>1, <2>2
  <2>5. /\ ~BareItem(m, p) /\ ~ImplItem(m, p) /\ ~RefItem(m, p) /\ ~StrItem(m, p) /\ ~ArrayAt(m, p)
    BY <2>1 DEF InItem, BareItem, ImplItem, RefItem, StrItem, ArrayAt
  <2>6. CASE BareAt(m, p)
    <3>1. ~WordAt(m, p) /\ ~RefAt(m, p) /\ ~TextAt(m, p)
      BY <2>6 DEF BareAt, WordAt, RefAt, TextAt
    <3>2. f.val = NoVal /\ f.text = NoVal
      BY <2>6, WrittenAt
    <3>3. r = Ok(v)
      BY <2>4, <3>2, EncodedAs, OkIs
    <3> QED BY <2>1, <2>3, <2>5, <3>1, <3>3, OkIs
  <2>7. CASE WordAt(m, p)
    <3>1. a.type \in {"num", "float", "str"} /\ ~BareAt(m, p) /\ ~RefAt(m, p) /\ ~TextAt(m, p)
      BY <2>7 DEF BareAt, WordAt, RefAt, TextAt
    <3>2. f.val = Code(word) /\ f.text = NoVal
      BY <2>7, WrittenAt
    <3>3. PICK u : u = WithWord(v, word) /\ SetValue(v, here.class, Code(word)) = Ok(u)
      BY <2>2, <3>1, SetValueWord
    <3>4. u.list = FALSE /\ u.attr = a /\ u.val = word
      BY <2>2, <3>3, WithWordIs
    <3>5. r = Ok(u)
      BY <2>4, <3>2, <3>3, EncodedAs, OkIs
    <3> QED BY <2>1, <2>5, <3>1, <3>4, <3>5, OkIs
  <2>8. CASE RefAt(m, p)
    <3>1. a.type = "ref" /\ ~BareAt(m, p) /\ ~WordAt(m, p) /\ ~TextAt(m, p)
      BY <2>8 DEF BareAt, WordAt, RefAt, TextAt
    <3>2. f.val = Cls(word) /\ f.text = NoVal
      BY <2>8, WrittenAt
    <3>3. PICK u : u = WithClass(v, word) /\ SetValue(v, here.class, Cls(word)) = Ok(u)
      BY <2>2, <3>1, SetValueClass
    <3>4. u.list = FALSE /\ u.attr = a /\ u.class = word
      BY <2>2, <3>3, WithClassIs
    <3>5. r = Ok(u)
      BY <2>4, <3>2, <3>3, EncodedAs, OkIs
    <3> QED BY <2>1, <2>5, <3>1, <3>4, <3>5, OkIs
  <2>9. CASE TextAt(m, p)
    <3>1. ~BareAt(m, p) /\ ~WordAt(m, p) /\ ~RefAt(m, p)
      BY <2>9 DEF BareAt, WordAt, RefAt, TextAt
    <3>2. f.val = NoVal /\ f.text = Code(word)
      BY <2>9, WrittenAt
    <3>3. PICK u : u = WithText(v, word) /\ u.list = FALSE /\ u.attr = a /\ u.text = word
      BY <2>2, WithTextIs
    <3>4. r = Ok(u)
      BY <2>4, <3>2, <3>3, EncodedAs, OkIs
    <3> QED BY <2>1, <2>5, <3>1, <3>3, <3>4, OkIs
  <2> QED BY <2>5, <2>6, <2>7, <2>8, <2>9, Shapes
<1>7. CASE InItem(m, p)
  <2>1. /\ IsItem(m, p) /\ m[p].list = FALSE
        /\ ~BareAt(m, p) /\ ~WordAt(m, p) /\ ~RefAt(m, p) /\ ~TextAt(m, p) /\ ~ArrayAt(m, p)
    BY <1>2, <1>7 DEF InItem, PlainAt, BareAt, WordAt, RefAt, TextAt, ArrayAt
  <2>2. Var(NoAttr).list = FALSE /\ Var(NoAttr).impl = NoAttr
    BY DEF Var
  <2>3. a.type # "inner" => here.class = Null /\ ImpliedOf(here.class) = NoAttr
    BY <1>2, <1>4, <1>7 DEF Template, ImpliedOf
  <2>4. CASE BareItem(m, p)
    <3>1. ~ImplItem(m, p) /\ ~RefItem(m, p) /\ ~StrItem(m, p)
      BY <2>4 DEF BareItem, ImplItem, RefItem, StrItem
    <3>2. f.val = NoVal /\ f.text = NoVal
      BY <2>4, WrittenAt
    <3>3. r = Ok(Var(NoAttr))
      BY <1>4, <1>7, <3>2, EncodedAs
    <3> QED BY <2>1, <2>2, <3>1, <3>3, OkIs
  <2>5. CASE RefItem(m, p)
    <3>1. a.type = "ref" /\ ~BareItem(m, p) /\ ~ImplItem(m, p) /\ ~StrItem(m, p)
      BY <2>5 DEF BareItem, ImplItem, RefItem, StrItem
    <3>2. f.val = Cls(word) /\ f.text = NoVal
      BY <2>5, WrittenAt
    <3>3. r = SetName(Var(NoAttr), a, here.class, Cls(word))
      BY <1>4, <1>7, <3>2, EncodedAs
    <3>4. NameType(a, here.class) = "ref"
      BY <2>3, <3>1 DEF NameType
    <3>5. PICK u : r = Ok(u) /\ u.list = FALSE /\ u.class = word
      BY <3>3, <3>4, SetNameClass, NamedClassIs
    <3> QED BY <2>1, <3>1, <3>5, OkIs
  <2>6. CASE StrItem(m, p)
    <3>1. a.type = "str" /\ ~BareItem(m, p) /\ ~ImplItem(m, p) /\ ~RefItem(m, p)
      BY <2>6 DEF BareItem, ImplItem, RefItem, StrItem
    <3>2. f.val = Code(word) /\ f.text = NoVal
      BY <2>6, WrittenAt
    <3>3. r = SetName(Var(NoAttr), a, here.class, Code(word))
      BY <1>4, <1>7, <3>2, EncodedAs
    <3>4. NameType(a, here.class) = "str"
      BY <2>3, <3>1 DEF NameType
    <3>5. PICK u : r = Ok(u) /\ u.list = FALSE /\ u.name = word
      BY <3>3, <3>4, SetNameWord, NamedWordIs
    <3> QED BY <2>1, <3>1, <3>5, OkIs
  <2>7. CASE ImplItem(m, p)
    <3>1. PICK b : b = Implied[a.refc]
      OBVIOUS
    <3>2. /\ a.type = "inner" /\ ~BareItem(m, p) /\ ~RefItem(m, p) /\ ~StrItem(m, p)
          /\ b # NoAttr /\ b.type \in {"str", "ref"} /\ ImpliedRead[a.refc] = b
      BY <2>7, <3>1 DEF BareItem, ImplItem, RefItem, StrItem
    <3>4. ImpliedOf(here.class) = b
      <4>1. Len(p) = 1
        <5>1. /\ p # <<>> /\ Up(p) \in DOMAIN m /\ m[Up(p)].list /\ m[Up(p)].attr = a
              /\ Len(p) \in Nat \ {0} /\ Len(Up(p)) = Len(p) - 1
          BY <1>7, AtPlace, UpIsPlace DEF KeptValue, InItem
        <5>2. KeptAt(m, Up(p))
          BY <5>1 DEF KeptValue, KeptShape
        <5>3. Up(p) = <<>>
          BY <3>2, <5>1, <5>2 DEF KeptAt
        <5> QED BY <5>1, <5>3
      <4>2. here.class = a.refc /\ a.refc # Null
        BY <1>2, <1>4, <1>7, <3>2, <4>1, AtPlace, ValueFileAssumption DEF Template, KeptValue
      <4> QED BY <3>2, <4>2 DEF ImpliedOf
    <3>5. f.val = (IF b.type = "ref" THEN Cls(word) ELSE Code(word)) /\ f.text = NoVal
      BY <2>7, <3>1, WrittenAt
    <3>6. r = SetName(Var(NoAttr), a, here.class, IF b.type = "ref" THEN Cls(word) ELSE Code(word))
      BY <1>4, <1>7, <3>5, EncodedAs
    <3>7. CASE b.type = "ref"
      <4>1. NameType(a, here.class) = "ref"
        BY <3>2, <3>4, <3>7 DEF NameType
      <4>2. r = SetName(Var(NoAttr), a, here.class, Cls(word))
        BY <3>6, <3>7
      <4>3. PICK u : r = Ok(u) /\ u.list = FALSE /\ u.impl = b /\ u.class = word
        BY <3>4, <4>1, <4>2, SetNameClass, NamedClassIs
      <4> QED BY <2>1, <3>1, <3>2, <3>7, <4>3, OkIs
    <3>8. CASE b.type = "str"
      <4>1. NameType(a, here.class) = "str"
        BY <3>2, <3>4, <3>8 DEF NameType
      <4>2. r = SetName(Var(NoAttr), a, here.class, Code(word))
        BY <3>6, <3>8
      <4>3. PICK u : r = Ok(u) /\ u.list = FALSE /\ u.impl = b /\ u.name = word
        BY <3>4, <4>1, <4>2, SetNameWord, NamedWordIs
      <4> QED BY <2>1, <3>1, <3>2, <3>8, <4>3, OkIs
    <3> QED BY <3>2, <3>7, <3>8
  <2> QED BY <2>1, <2>4, <2>5, <2>6, <2>7, Shapes
<1> QED BY <1>5, <1>6, <1>7, Shapes DEF BareAt, WordAt, RefAt, TextAt, BareItem, ImplItem, RefItem, StrItem

\* No value of a kept shape gets a child for an implied attribute.
LEMMA NoImplied ==
  ASSUME NEW m, KeptValue(m), NEW w, w = Export(Resolve(m)), NEW p \in DOMAIN m
  PROVE  ~HasImplied(w, p)
<1>1. SUFFICES ASSUME HasImplied(w, p) PROVE FALSE
    OBVIOUS
<1>2. IsItem(w, p) <=> IsItem(m, p)
  <2>1. \A q \in DOMAIN m : w[q].list = m[q].list
    BY WrittenAt
  <2> QED BY <2>1, SameItems
<1>3. ~IsItem(m, p) /\ ~m[p].list /\ w[p].val.enc # "none" /\ ImpliedOf(Context(w, p).class) # NoAttr
    BY <1>1, <1>2, WrittenAt DEF HasImplied
<1>4. m[p].attr.type = "inner"
  <2>1. Context(w, p).class = Template(m[p].attr)
    BY <1>3, ContextIs DEF Known
  <2> QED BY <1>3, <2>1 DEF Template, ImpliedOf
<1>5. BareAt(m, p)
    BY <1>3, <1>4, Shapes
       DEF ArrayAt, WordAt, RefAt, TextAt, InItem, BareItem, ImplItem, RefItem, StrItem
<1>6. w[p].val = NoVal
    BY <1>5, WrittenAt
<1> QED BY <1>3, <1>6, EncodedAs

\* The record of a value of a kept shape is read, and everything is in its place.
LEMMA AllRead ==
  ASSUME NEW m, KeptValue(m), NEW w, w = Export(Resolve(m)), NEW g \in ReadVar(w)
  PROVE  g = Ok([p \in DOMAIN m |-> ReadAt(w, p).v])
<1>1. DOMAIN w = DOMAIN m
    BY AllWritten
<1>2. \A p \in DOMAIN w : ReadAt(w, p).st = "ok" /\ ~HasImplied(w, p)
    BY <1>1, ReadBack, NoImplied
<1>3. PICK failed : failed = {p \in DOMAIN w :
                       /\ \A k \in 0..(Len(p) - 1) : ReadAt(w, Prefix(p, k)).st = "ok"
                       /\ ReadAt(w, p).st # "ok"}
    OBVIOUS
<1>4. PICK implied : implied = {p \in DOMAIN w : HasImplied(w, p)}
    OBVIOUS
<1>5. failed = {} /\ implied = {}
    BY <1>2, <1>3, <1>4
<1>6. ReadVar(w) =
         IF failed # {} THEN {Bad(ReadAt(w, p).st) : p \in failed}
         ELSE {Ok([p \in DOMAIN w \cup {Append(q, 0) : q \in implied} |->
                     IF p \in DOMAIN w THEN ReadAt(w, p).v
                     ELSE ImpliedChild(ImpliedOf(Context(w, Up(p)).class), w[Up(p)].val)])}
    BY <1>3, <1>4 DEF ReadVar
<1>7. DOMAIN w \cup {Append(q, 0) : q \in implied} = DOMAIN m
    BY <1>1, <1>5
<1>8. ReadVar(w) = {Ok([p \in DOMAIN m |-> IF p \in DOMAIN m THEN ReadAt(w, p).v
                     ELSE ImpliedChild(ImpliedOf(Context(w, Up(p)).class), w[Up(p)].val)])}
    BY <1>1, <1>5, <1>6, <1>7
<1>9. [p \in DOMAIN m |-> IF p \in DOMAIN m THEN ReadAt(w, p).v
                     ELSE ImpliedChild(ImpliedOf(Context(w, Up(p)).class), w[Up(p)].val)]
      = [p \in DOMAIN m |-> ReadAt(w, p).v]
    OBVIOUS
<1> QED BY <1>8, <1>9

\* What was read says what was given.
LEMMA SaysAsGiven ==
  ASSUME NEW m, KeptValue(m), NEW w, w = Export(Resolve(m)),
         NEW t, t = [p \in DOMAIN m |-> ReadAt(w, p).v]
  PROVE  AsGot(t) = AsGiven(m)
<1>1. \A p \in DOMAIN m : t[p].list = m[p].list /\ (~IsItem(m, p) => t[p].attr = m[p].attr)
    BY ReadBack
<1>2. ASSUME NEW p \in DOMAIN m
      PROVE  AsGot(t)[p] = <<m[p].attr.id, m[p].list, m[p].val>>
  <2> DEFINE v == t[p]
             a == IF IsItem(t, p) THEN t[Up(p)].attr ELSE v.attr
             says == CASE v.list -> Null
                       [] ~v.list /\ a.type = "inner" -> ImpliedGot(v)
                       [] ~v.list /\ a.type \in Classlike -> v.class
                       [] ~v.list /\ a.type = "text" -> v.text
                       [] OTHER -> IF IsItem(t, p) THEN v.name ELSE v.val
  <2>1. IsItem(t, p) <=> IsItem(m, p)
    BY <1>1, SameItems
  <2>2. a = m[p].attr
    <3>1. ASSUME IsItem(m, p) PROVE t[Up(p)].attr = m[p].attr
      <4>1. Up(p) \in DOMAIN m /\ m[Up(p)].attr = m[p].attr /\ ~IsItem(m, Up(p))
        BY <3>1, AtPlace, UpIsPlace DEF KeptValue
      <4> QED BY <1>1, <4>1
    <3> QED BY <1>1, <2>1, <3>1
  <2>3. AsGot(t)[p] = <<a.id, v.list, says>>
    BY DEF AsGot
  <2>4. v = ReadAt(w, p).v /\ v.list = m[p].list
    BY <1>1
  <2> HIDE DEF v, a
  <2>5. says = m[p].val
    <3>1. CASE ArrayAt(m, p)
      BY <2>4, <3>1 DEF ArrayAt
    <3>2. CASE BareAt(m, p) \/ BareItem(m, p)
      <4>1. ~v.list /\ a.type = "inner" /\ m[p].val = Null
        BY <2>2, <2>4, <3>2 DEF BareAt, BareItem, PlainAt, InItem
      <4>2. v.impl = NoAttr
        BY <2>4, <3>2, ReadBack
      <4>3. ImpliedGot(v) = Null
        BY <4>2 DEF ImpliedGot
      <4> QED BY <4>1, <4>3 DEF Classlike
    <3>3. CASE WordAt(m, p)
      <4>1. ~v.list /\ a.type \in {"num", "float", "str"} /\ ~IsItem(t, p)
        BY <2>1, <2>2, <2>4, <3>3 DEF WordAt, PlainAt
      <4>2. v.val = m[p].val
        BY <2>4, <3>3, ReadBack
      <4> QED BY <4>1, <4>2 DEF Classlike
    <3>4. CASE RefAt(m, p) \/ RefItem(m, p)
      <4>1. ~v.list /\ a.type = "ref"
        BY <2>2, <2>4, <3>4 DEF RefAt, RefItem, PlainAt, InItem
      <4>2. v.class = m[p].val
        BY <2>4, <3>4, ReadBack
      <4> QED BY <4>1, <4>2 DEF Classlike
    <3>5. CASE TextAt(m, p)
      <4>1. ~v.list /\ a.type = "text"
        BY <2>2, <2>4, <3>5 DEF TextAt, PlainAt
      <4>2. v.text = m[p].val
        BY <2>4, <3>5, ReadBack
      <4> QED BY <4>1, <4>2 DEF Classlike
    <3>6. CASE StrItem(m, p)
      <4>1. ~v.list /\ a.type = "str" /\ IsItem(t, p)
        BY <2>1, <2>2, <2>4, <3>6 DEF StrItem, InItem
      <4>2. v.name = m[p].val
        BY <2>4, <3>6, ReadBack
      <4> QED BY <4>1, <4>2 DEF Classlike
    <3>7. CASE ImplItem(m, p)
      <4>1. PICK b : b = Implied[m[p].attr.refc]
        OBVIOUS
      <4>2. ~v.list /\ a.type = "inner" /\ b # NoAttr /\ b.type \in {"str", "ref"}
        BY <2>2, <2>4, <3>7, <4>1 DEF ImplItem, InItem
      <4>3. /\ v.impl = b
            /\ b.type = "ref" => v.class = m[p].val
            /\ b.type = "str" => v.name = m[p].val
        BY <2>4, <3>7, <4>1, ReadBack
      <4>4. ImpliedGot(v) = m[p].val
        BY <4>2, <4>3 DEF ImpliedGot, Classlike
      <4> QED BY <4>2, <4>4 DEF Classlike
    <3> QED BY <3>1, <3>2, <3>3, <3>4, <3>5, <3>6, <3>7, Shapes
  <2> HIDE DEF says
  <2> QED BY <2>2, <2>3, <2>4, <2>5
<1>3. AsGot(t) = [p \in DOMAIN m |-> AsGot(t)[p]]
    BY DEF AsGot
<1> QED BY <1>2, <1>3 DEF AsGiven

\* No assertion fails.
LEMMA NoAbort ==
  ASSUME NEW m, KeptValue(m), NEW w, w = Export(Resolve(m))
  PROVE  ~Aborts(w)
<1>1. DOMAIN w = DOMAIN m
    BY AllWritten
<1>2. ASSUME NEW p \in DOMAIN m PROVE w[p].val.enc # "abort" /\ w[p].text.enc # "abort"
  <2>1. CASE ArrayAt(m, p)
    BY <2>1, WrittenAt, EncodedAs
  <2>2. CASE BareAt(m, p) \/ BareItem(m, p)
    BY <2>2, WrittenAt, EncodedAs
  <2>3. CASE WordAt(m, p) \/ StrItem(m, p)
    BY <2>3, WrittenAt, EncodedAs
  <2>4. CASE RefAt(m, p) \/ RefItem(m, p)
    BY <2>4, WrittenAt, EncodedAs
  <2>5. CASE TextAt(m, p)
    BY <2>5, WrittenAt, EncodedAs
  <2>6. CASE ImplItem(m, p)
    BY <2>6, WrittenAt, EncodedAs
  <2> QED BY <2>1, <2>2, <2>3, <2>4, <2>5, <2>6, Shapes
<1> QED BY <1>1, <1>2 DEF Aborts

\* What there is was made of the value that was given, step by step.
MadeOf ==
    /\ src = Null => var = Null /\ rec = Null /\ got = Null
    /\ src # Null => /\ src \in Values /\ Confirmable(src) /\ Resolvable(src)
                     /\ var = Resolve(src)
                     /\ rec # Null => rec = Export(var)
                     /\ got # Null => rec # Null /\ got \in ReadVar(rec)

LEMMA MadeOfHolds == ValueSpec => []MadeOf
<1>1. ValueInit => MadeOf
    BY DEF ValueInit, MadeOf
<1>2. MadeOf /\ [ValueNext]_valueVars => MadeOf'
  <2> SUFFICES ASSUME MadeOf, [ValueNext]_valueVars PROVE MadeOf'
    OBVIOUS
  <2>1. ASSUME NEW m \in Values, ImportValue(m) PROVE MadeOf'
    BY <2>1, ValueFileAssumption DEF MadeOf, ImportValue
  <2>2. CASE ExportValue
    BY <2>2 DEF MadeOf, ExportValue
  <2>3. CASE ReadValue
    BY <2>3 DEF MadeOf, ReadValue
  <2>4. CASE UNCHANGED valueVars
    BY <2>4 DEF MadeOf, valueVars
  <2> QED BY <2>1, <2>2, <2>3, <2>4 DEF ValueNext
<1> QED BY <1>1, <1>2, PTL DEF ValueSpec

\* Whatever the classes and their attributes are and whatever is given, however
\* deep it is: a value of a kept shape is written without an assertion failing
\* (attr_var_list_export_GSP, inner_var_export_GSP) and knd_read_attr_var gives
\* back every word, class and text in its place.
THEOREM ValuesComeBack == ValueSpec => []ValueRoundTrip
<1>1. MadeOf => ValueRoundTrip
  <2> SUFFICES ASSUME MadeOf, src # Null, KeptShape(src)
               PROVE  /\ rec # Null => ~Aborts(rec)
                      /\ got # Null => got.st = "ok" /\ AsGot(got.v) = AsGiven(src)
    BY DEF ValueRoundTrip
  <2>1. KeptValue(src) /\ (rec # Null => rec = Export(Resolve(src)))
    BY DEF MadeOf, KeptValue
  <2>2. rec # Null => ~Aborts(rec)
    BY <2>1, NoAbort
  <2>3. ASSUME got # Null PROVE got.st = "ok" /\ AsGot(got.v) = AsGiven(src)
    <3>1. rec = Export(Resolve(src)) /\ got \in ReadVar(rec)
      BY <2>1, <2>3 DEF MadeOf
    <3>2. PICK t : t = [p \in DOMAIN src |-> ReadAt(rec, p).v]
      OBVIOUS
    <3>3. got = Ok(t)
      BY <2>1, <3>1, <3>2, AllRead
    <3>4. AsGot(t) = AsGiven(src)
      BY <2>1, <3>1, <3>2, SaysAsGiven
    <3> QED BY <3>3, <3>4, OkIs
  <2> QED BY <2>2, <2>3
<1> QED BY <1>1, MadeOfHolds, PTL
=============================================================================
