----------------------------- MODULE Knowledge ------------------------------
(***************************************************************************)
(* Operations of the services that share no state as they are modelled --  *)
(* a batch of writes, the reads, the graph, the matching of skills, the    *)
(* backfill of embeddings, the embeddings client and the list -- beside    *)
(* each other.  The list moves with its pages, or only with its writes.    *)
(* A behaviour moves one of them, chosen at its start: what each does in   *)
(* any interleaving, at the cost of the sum of their states.               *)
(***************************************************************************)
EXTENDS BatchWrites, Reads, MemoryGraph, SkillMatching, Reembed, Embeddings, Listing

VARIABLE part  \* the component that moves

knowledgeVars ==
    <<part, batchVars, readVars, graphVars, matchingVars, reembedVars, embeddingVars,
      listingVars>>

Parts == {"batches", "reads", "graph", "skills", "backfill", "embeddings", "pages", "advice"}

KnowledgeInit ==
    /\ part \in Parts
    /\ BatchInit /\ ReadsInit /\ GraphInit /\ MatchingInit /\ ReembedInit /\ EmbeddingsInit
    /\ ListingInit

(* Moves(p): part p moves, and of the others nothing does.                 *)
Moves(p) ==
    /\ part = p /\ UNCHANGED part
    /\ p # "batches" => UNCHANGED batchVars
    /\ p # "reads" => UNCHANGED readVars
    /\ p # "graph" => UNCHANGED graphVars
    /\ p # "skills" => UNCHANGED matchingVars
    /\ p # "backfill" => UNCHANGED reembedVars
    /\ p # "embeddings" => UNCHANGED embeddingVars
    /\ p \notin {"pages", "advice"} => UNCHANGED listingVars

KnowledgeNext ==
    \/ Moves("batches") /\ BatchNext
    \/ Moves("reads") /\ ReadsNext
    \/ Moves("graph") /\ GraphNext
    \/ Moves("skills") /\ MatchingNext
    \/ Moves("backfill") /\ ReembedNext
    \/ Moves("embeddings") /\ EmbeddingsNext
    \/ Moves("pages") /\ ListingNext
    \/ Moves("advice") /\ Changes

(* The fairness of each component, on the steps of its own behaviours. *)
KnowledgeFairness ==
    /\ \A b \in Batches : /\ WF_knowledgeVars(Moves("batches") /\ BatchStep(b))
                          /\ WF_knowledgeVars(Moves("batches") /\ Abort(b))
    /\ \A r \in Runs : WF_knowledgeVars(Moves("backfill") /\ RunStep(r))

KnowledgeSpec == KnowledgeInit /\ [][KnowledgeNext]_knowledgeVars /\ KnowledgeFairness

(* Batches that wait for each other and runs over failing embeddings end   *)
(* (service.py, remember_batch and reembed_stale).                         *)
KnowledgeEnds == BatchesEnd /\ RunsEnd
=============================================================================
