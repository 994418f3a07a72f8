----------------------------- MODULE MCServices -----------------------------
(* The instance of Services for TLC; the .cfg file chooses the sizes. *)
EXTENDS Services, TLC

CONSTANT MaxTimeTogether  \* bound: the clock of a browser with several requests

MCBucketKeys == AllBucketKeys
Interchangeable ==
    Permutations(Requests) \cup Permutations(Attempts) \cup Permutations(Accounts)
        \cup Permutations(ApiKeys)

(* The directories of a component that rests have one state. *)
MCInit == ServicesInit /\ (part # "keys" => repos = {})
MCNext == ServicesNext /\ (alone \/ now' <= MaxTimeTogether)
MCSpec == MCInit /\ [][MCNext]_servicesVars
=============================================================================
