------------------------- MODULE MCKvPushCompletion -------------------------
(* Grids of ranks for KvPushCompletion: one axis, and two axes.            *)
EXTENDS KvPushCompletion

MCDriver == <<0, 0>>
=============================================================================
