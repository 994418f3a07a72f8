---------------------------- MODULE MCUsageBuffer ---------------------------
(* Instances of UsageBuffer for TLC; the .cfg files choose the sizes. *)
EXTENDS UsageBuffer, TLC

Interchangeable ==
    Permutations(Users) \cup Permutations(Memories) \cup Permutations(Readers)
=============================================================================
