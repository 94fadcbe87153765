------------------------------ MODULE Strings ------------------------------
(***************************************************************************)
(* The strings of a repo: tasks fetch the number of a string               *)
(* (knd_charseq_fetch), which stands for it in the files of a snapshot;    *)
(* the strings are written last, and the shard starts anew from them.      *)
(* The dictionary and the set of ids are taken as what SharedDict and      *)
(* SharedSet show them to be: a map that binds a free name, a set that     *)
(* binds a free id.                                                        *)
(* Operators whose name ends in _v are wrong variants, for mutation tests. *)
(***************************************************************************)
EXTENDS Naturals, FiniteSets

CONSTANTS
    Vals,        \* strings
    Tasks,
    MaxStrs,     \* bound on numbers given
    MaxRestarts, \* bound on restarts
    None

VARIABLES
    dict,        \* repo->str_dict: dict[v] is the number in v's kndCharSeq, or None
    idx,         \* repo->str_idx: the string at an id, or None
    numStrs,     \* repo->num_strs
    pc, val, num, \* where each task is in knd_charseq_fetch, with what
    used,        \* [v, n]: string v was given the number n
    file,        \* strings.gsp: the ids, or None before there is one
    restarts     \* number of times the shard started anew

stringVars == <<dict, idx, numStrs, pc, val, num, used, file, restarts>>

Ids == 0..MaxStrs
StringsInit ==
    /\ dict = [v \in Vals |-> None]
    /\ idx = [i \in Ids |-> None]
    /\ numStrs = 0
    /\ pc = [t \in Tasks |-> "idle"]
    /\ val = [t \in Tasks |-> None]
    /\ num = [t \in Tasks |-> None]
    /\ used = {}
    /\ file = None
    /\ restarts = 0

Move(t, from, to) == pc[t] = from /\ pc' = [pc EXCEPT ![t] = to]

\* knd_shared_dict_get at the start of knd_charseq_fetch.
Fetch(t, v) ==
    /\ Move(t, "idle", IF dict[v] = None THEN "number" ELSE "idle")
    /\ val' = [val EXCEPT ![t] = v]
    /\ used' = IF dict[v] = None THEN used ELSE used \cup {[v |-> v, n |-> dict[v]]}
    /\ UNCHANGED <<dict, idx, numStrs, num, file, restarts>>

\* atomic_fetch_add
NextNum_v == IF numStrs = 0 THEN 0 ELSE numStrs - 1
NextNum == numStrs
Number(t) ==
    /\ numStrs < MaxStrs
    /\ Move(t, "number", "enter")
    /\ num' = [num EXCEPT ![t] = NextNum]
    /\ numStrs' = numStrs + 1
    /\ UNCHANGED <<dict, idx, val, used, file, restarts>>

\* knd_shared_dict_set: a conflict with a task that was faster is an error.
Enter(t) ==
    /\ Move(t, "enter", IF dict[val[t]] = None THEN "index" ELSE "failed")
    /\ dict' = IF dict[val[t]] = None THEN [dict EXCEPT ![val[t]] = num[t]] ELSE dict
    /\ UNCHANGED <<idx, numStrs, val, num, used, file, restarts>>

\* knd_shared_set_add: an id that is taken is an error, with the string entered.
IdFree_v(i) == TRUE
IdFree(i) == idx[i] = None
AddToIdx(t) ==
    /\ Move(t, "index", IF IdFree(num[t]) THEN "idle" ELSE "failed")
    /\ idx' = IF IdFree(num[t]) THEN [idx EXCEPT ![num[t]] = val[t]] ELSE idx
    /\ used' = IF IdFree(num[t]) THEN used \cup {[v |-> val[t], n |-> num[t]]} ELSE used
    /\ UNCHANGED <<dict, numStrs, val, num, file, restarts>>

\* The request ends with an error.
GiveUp(t) == Move(t, "failed", "idle") /\ UNCHANGED <<dict, idx, numStrs, val, num, used, file, restarts>>

\* knd_charseq_marshall for every element of str_idx.
Snapshot == /\ file # idx /\ file' = idx
            /\ UNCHANGED <<dict, idx, numStrs, pc, val, num, used, restarts>>

\* A new process: fetch_str_idx, knd_charseq_unmarshall.  The number of a string
\* that is read stays 0, and num_strs is the number of strings.
Read == {i \in Ids : file[i] # None}
Reopen ==
    /\ file # None /\ restarts < MaxRestarts
    /\ restarts' = restarts + 1
    /\ idx' = file
    /\ dict' = [v \in Vals |-> IF \E i \in Read : file[i] = v THEN 0 ELSE None]
    /\ numStrs' = Cardinality(Read)
    /\ pc' = [t \in Tasks |-> "idle"]
    /\ used' = {}
    /\ UNCHANGED <<val, num, file>>

StringsNext ==
    \/ \E t \in Tasks : (\E v \in Vals : Fetch(t, v)) \/ Number(t) \/ Enter(t) \/ AddToIdx(t) \/ GiveUp(t)
    \/ Snapshot \/ Reopen
StringsSpec == StringsInit /\ [][StringsNext]_stringVars

---------------------------------------------------------------------------
(* Properties *)

\* Before the first restart a number that a fetch has returned decodes to the
\* string (knd_charseq_decode), or will as soon as the task that entered the
\* string has added its id.
FirstRunDecodes ==
    restarts = 0 => \A u \in used : idx[u.n] = u.v \/ \E t \in Tasks : pc[t] = "index" /\ num[t] = u.n

\* What an id stands for in the file it goes on standing for, over restarts and
\* whatever numbers are given to other strings: old records stay readable.
FileKept == file # None => \A i \in Ids : file[i] # None => idx[i] = file[i]
=============================================================================
