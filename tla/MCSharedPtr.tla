---------------------------- MODULE MCSharedPtr ----------------------------
(* SharedPtr with three SharedPtrs and two WeakPtrs, which are alike.      *)
EXTENDS SharedPtr, TLC

Alike == Permutations(Shareds) \cup Permutations(Weaks)
=============================================================================
