----------------------------- MODULE MCOpening -----------------------------
(***************************************************************************)
(* What a shard reads that is opened again, the journals (Restore) and the *)
(* classes of a snapshot (ClassFile), checked in one run.  Each behaviour  *)
(* is of one of them, the one `which' says; the variables of the other     *)
(* keep the value they start with.                                         *)
(***************************************************************************)
EXTENDS Restore, MCClassFile

VARIABLE which

mcVars == <<which, vars, fileVars>>

FileIdle == /\ db = None /\ file = None /\ cls = None /\ stack = None /\ asked = None
            /\ said = [t \in Tasks |-> ""] /\ opened = FALSE /\ up = "runs"

MCInit == /\ Init
          /\ \/ which = "journals" /\ FileIdle
             \/ which = "classes" /\ FileInit

OfJournals == which = "journals" /\ UNCHANGED <<which, fileVars>>
OfClasses == which = "classes" /\ UNCHANGED <<which, vars>>

MCNext ==
    \/ OfJournals /\ \E a \in Agents, k \in Kinds : Accept(a, k)
    \/ OfJournals /\ \E a \in Agents : Journal(a)
    \/ OfJournals /\ Crash
    \/ OfJournals /\ Boot
    \/ OfJournals /\ Read
    \/ OfJournals /\ Apply
    \/ OfClasses /\ WriteClass
    \/ OfClasses /\ Reopen
    \/ OfClasses /\ SnapshotAgain
    \/ OfClasses /\ \E t \in Tasks : \E c \in DOMAIN db : Acquire(t, c)
    \/ OfClasses /\ \E t \in Tasks : AcquireNeeded(t)
    \/ OfClasses /\ \E t \in Tasks : ReadItem(t)
    \/ OfClasses /\ \E t \in Tasks : FailRead(t)
    \/ OfClasses /\ \E t \in Tasks : Publish(t)

\* A shard that is down is started again, and the opening goes on; nothing makes
\* the clients send requests, or tasks load classes.
MCSpec == MCInit /\ [][MCNext]_mcVars /\ WF_mcVars(OfJournals /\ (Boot \/ Read \/ Apply))
=============================================================================
