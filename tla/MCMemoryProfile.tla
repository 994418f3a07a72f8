--------------------------- MODULE MCMemoryProfile --------------------------
(* Instances of MemoryProfile for TLC; the .cfg files choose the sizes. *)
EXTENDS MemoryProfile

Interchangeable ==
    Permutations(Clients) \cup Permutations(Hashes) \cup Permutations(Projects)
        \cup Permutations(Readers)
=============================================================================
