----------------------------- MODULE MCPleCache -----------------------------
(* PleCache for TLC: sessions and inodes are interchangeable. *)
EXTENDS PleCache, TLC
Symmetry == Permutations(Sessions) \cup Permutations(Inodes)
=============================================================================
