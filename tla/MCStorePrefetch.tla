--------------------------- MODULE MCStorePrefetch ---------------------------
(* Small instances of StorePrefetch.                                       *)
EXTENDS StorePrefetch, TLC

WorkerSymmetry == Permutations(Workers)
=============================================================================
