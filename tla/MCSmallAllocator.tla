------------------------- MODULE MCSmallAllocator -------------------------
(* SmallAllocator with two pools and chunks of two blocks, and sizes above *)
(* the largest, two of them in one class.                                  *)
EXTENDS SmallAllocator

MCMaxChunks == [i \in 0..1 |-> IF i = 0 THEN 3 ELSE 1]
=============================================================================
