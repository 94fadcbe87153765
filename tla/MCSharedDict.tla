---------------------------- MODULE MCSharedDict ----------------------------
(* Model-checking instances of SharedDict: two names that collide in one   *)
(* bucket, so that the walks meet items of another key.                    *)
EXTENDS SharedDict, TLC

CONSTANTS t1, t2, k1, k2, v1, v2

MCThreads2 == {t1, t2}
MCKeys     == {k1, k2}
MCOneKey   == {k1}
MCValues   == {v1, v2}
MCOneValue == {v1}
MCBuckets1 == {0}
MCCollide  == [k \in Keys |-> 0]

\* Threads and values are interchangeable, and so are keys of one bucket.
Symmetric == Permutations(Threads) \cup Permutations(Values)
SymmetricKeys == Symmetric \cup Permutations(Keys)
=============================================================================
