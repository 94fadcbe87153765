------------------------------ MODULE CommitLog ------------------------------
(* What the commits of a repo promise to the clients of an arbiter: one log, *)
(* in which a commit appears at most once and never creates a name that was  *)
(* created by a commit of the state it started from; and an "OK" that is     *)
(* said only of a commit that is in the log and on disk.                     *)
EXTENDS Naturals, Sequences

CONSTANTS Commits, Names

VARIABLES log,      \* the commits that were accepted, oldest first
          base,     \* base[c]: how many commits the state c started from has
          creates,  \* creates[c]: the names commit c creates
          durable,  \* the commits a restart will find
          acked     \* the commits whose clients were told "OK"

vars == <<log, base, creates, durable, acked>>

Init == /\ log = <<>>
        /\ base = [c \in Commits |-> 0]
        /\ creates = [c \in Commits |-> {}]
        /\ durable = {}
        /\ acked = {}

InLog(c) == \E i \in DOMAIN log : log[i] = c

\* A request starts from the current state or an earlier one.
Begin(c) == /\ ~InLog(c)
            /\ base' \in {[base EXCEPT ![c] = b] : b \in 0..Len(log)}
            /\ UNCHANGED <<log, creates, durable, acked>>

Create(c, n) == /\ ~InLog(c)
                /\ creates' = [creates EXCEPT ![c] = @ \cup {n}]
                /\ UNCHANGED <<log, base, durable, acked>>

Confirm(c) == /\ ~InLog(c)
              /\ \A i \in 1..base[c] : creates[log[i]] \cap creates[c] = {}
              /\ log' = Append(log, c)
              /\ UNCHANGED <<base, creates, durable, acked>>

Acknowledge(c) == /\ InLog(c)
                  /\ durable' = durable \cup {c}
                  /\ acked' = acked \cup {c}
                  /\ UNCHANGED <<log, base, creates>>

Next == \E c \in Commits : \/ Begin(c) \/ Confirm(c) \/ Acknowledge(c)
                           \/ \E n \in Names : Create(c, n)

Spec == Init /\ [][Next]_vars
=============================================================================
