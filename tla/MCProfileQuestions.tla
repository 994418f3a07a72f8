------------------------- MODULE MCProfileQuestions -------------------------
(***************************************************************************)
(* MemoryProfile for TLC, at two sizes: question "reads" has a reader and  *)
(* two writes between its statements; question "queue" has all the writes  *)
(* of the bound, of one importance, and the worker.                        *)
(***************************************************************************)
EXTENDS MCMemoryProfile

VARIABLE question

Within ==
    IF question = "reads" THEN calls <= 2 /\ now = 1
    ELSE /\ \A r \in Readers : On(r, "idle")
         /\ \A i \in Undeleted : rows[i].prio = 1
         /\ \A c \in Clients : "req" \in DOMAIN tx[c] => tx[c].req.prio = 1

MCInit == InitProfile /\ question \in {"reads", "queue"}
MCNext == UNCHANGED question /\ NextProfile /\ Within'
MCSpec == MCInit /\ [][MCNext]_<<vars, question>>
=============================================================================
