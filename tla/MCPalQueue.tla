----------------------------- MODULE MCPalQueue -----------------------------
(* PalQueue for TLC: threads and items are model values. *)
EXTENDS PalQueue, TLC

Symmetry == Permutations(Threads) \cup Permutations(Items)
=============================================================================
