---------------------------- MODULE MCFlatKvPool ----------------------------
(* Small instances of FlatKvPool.  The two sequences agree on their first  *)
(* block and differ from the fourth token on, inside the second block: a   *)
(* prompt hits the other's first block but never its second, a sequence    *)
(* that comes back repeats its own blocks exactly, and the blocks never    *)
(* cover both at once.                                                     *)
EXTENDS FlatKvPool, TLC

CONSTANTS s1, s2

MCHashes ==
  UNION {{Hash(s, i) : i \in 1 .. num_hash_blocks(Len(Text[s]))} : s \in Seqs}

\* Block size 2.
Text2 == (s1 :> <<1, 1, 2, 2, 1>>) @@ (s2 :> <<1, 1, 2, 1, 2>>)
Prompt2 == (s1 :> 3) @@ (s2 :> 4)

BlockSymmetry == Permutations(Blocks)
=============================================================================
