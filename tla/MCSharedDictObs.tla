--------------------------- MODULE MCSharedDictObs ---------------------------
(* The model-checking instance of SharedDictObs.                           *)
EXTENDS MCSharedDict, SharedDictObs
=============================================================================
