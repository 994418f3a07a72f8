------------------------------ MODULE Reembed -------------------------------
(***************************************************************************)
(* reembed_stale (src/recallum/memory/service.py) with the statements it   *)
(* uses (stale_embeddings_batch, replace_embedding in memory_repo.py):     *)
(* after a change of the embedding model an operator restamps the vectors  *)
(* of the old one page by page, while the service goes on storing and      *)
(* retiring rows and embeddings fail.  Ids are random, so a row stored     *)
(* during a run may come before or behind the page the run is at.  Runs    *)
(* may overlap.                                                            *)
(***************************************************************************)
EXTENDS Naturals, FiniteSets

CONSTANTS
    RowIds,     \* a set of numbers: ids in their order
    Runs,
    PageSize,
    MaxStores   \* bound: rows stored or retired by others

(* 0 is the cursor that a run begins with, before every id.                *)
ASSUME RowIdsAssumption == RowIds \subseteq Nat \ {0} /\ PageSize \in Nat \ {0}

VARIABLES
    vectors,    \* id -> "none" (no active row), "old" or "new" provenance
    runs,       \* run -> its step and local state
    stores

reembedVars == <<vectors, runs, stores>>

Smallest(S, n) == {i \in S : Cardinality({j \in S : j < i}) < n}
First(S) == CHOOSE i \in S : \A j \in S : i <= j
Stale == {i \in RowIds : vectors[i] = "old"}
RunAt(r, pc) == runs[r].pc = pc
Move(r, state) == runs' = [runs EXCEPT ![r] = state]

ReembedInit ==
    /\ vectors \in [RowIds -> {"none", "old", "new"}]
    /\ runs = [r \in Runs |-> [pc |-> "idle"]]
    /\ stores = 0

(* `owed' remembers what was stale when the run began and not retired since. *)
StartRun(r) ==
    /\ RunAt(r, "idle")
    /\ Move(r, [pc |-> "fetch", after |-> 0, page |-> {}, reembedded |-> 0, failed |-> {},
                owed |-> Stale])
    /\ UNCHANGED <<vectors, stores>>

(* Mutant of Page: it is counted from the start, by how many were handled. *)
PageByOffset(r) ==
    LET handled == runs[r].reembedded + Cardinality(runs[r].failed)
    IN Smallest(Stale, handled + PageSize) \ Smallest(Stale, handled)
Page(r) == Smallest({i \in Stale : i > runs[r].after}, PageSize)

FetchPage(r) ==
    /\ RunAt(r, "fetch")
    /\ Move(r, [runs[r] EXCEPT !.pc = IF Page(r) = {} THEN "done" ELSE "embed", !.page = Page(r)])
    /\ UNCHANGED <<vectors, stores>>

(* embed_batch for the page, else embed for each row: either may fail.     *)
EmbedPage(r) ==
    /\ RunAt(r, "embed")
    /\ \E batched \in BOOLEAN :
          Move(r, [runs[r] EXCEPT !.pc = IF batched THEN "replace" ELSE "single"])
    /\ UNCHANGED <<vectors, stores>>

(* Mutant of Advanced: a row that failed is fetched again. *)
StayBehind(state, i, replaced) ==
    IF replaced THEN [state EXCEPT !.after = i, !.page = @ \ {i}] ELSE [state EXCEPT !.page = {}]
Advanced(state, i, replaced) == [state EXCEPT !.after = i, !.page = @ \ {i}]

Handled(r, i, replaced) ==
    LET state == Advanced(runs[r], i, replaced)
    IN [state EXCEPT !.pc = IF state.page = {} THEN "fetch" ELSE @]

FailOne(r) ==
    /\ RunAt(r, "single")
    /\ LET i == First(runs[r].page)
       IN Move(r, [Handled(r, i, FALSE) EXCEPT !.failed = @ \cup {i}])
    /\ UNCHANGED <<vectors, stores>>

(* replace_embedding: nothing changes and nothing is counted when the row  *)
(* was retired meanwhile.                                                  *)
ReplaceOne(r) ==
    /\ RunAt(r, "replace") \/ RunAt(r, "single")
    /\ LET i == First(runs[r].page)
           active == vectors[i] # "none"
       IN /\ vectors' = IF active THEN [vectors EXCEPT ![i] = "new"] ELSE vectors
          /\ Move(r, [Handled(r, i, TRUE) EXCEPT !.reembedded = IF active THEN @ + 1 ELSE @])
    /\ UNCHANGED stores

(* The service: rows come, from a process of the old model or the new one, *)
(* and go; a number that comes back stands for another id.                 *)
Others(i, provenance) ==
    /\ stores < MaxStores /\ stores' = stores + 1
    /\ IF provenance = "none" THEN vectors[i] # "none" ELSE vectors[i] = "none"
    /\ \A r \in Runs : ~RunAt(r, "idle") => i \notin runs[r].page \/ provenance = "none"
    /\ vectors' = [vectors EXCEPT ![i] = provenance]
    /\ runs' = [r \in Runs |-> IF RunAt(r, "idle") THEN runs[r]
                               ELSE [runs[r] EXCEPT !.owed = @ \ {i}]]

RunStep(r) == FetchPage(r) \/ EmbedPage(r) \/ FailOne(r) \/ ReplaceOne(r)

ReembedNext ==
    \/ \E r \in Runs : StartRun(r) \/ RunStep(r)
    \/ \E i \in RowIds, provenance \in {"none", "old", "new"} : Others(i, provenance)

ReembedFairness == \A r \in Runs : WF_reembedVars(RunStep(r))
ReembedSpec == ReembedInit /\ [][ReembedNext]_reembedVars /\ ReembedFairness

(***************************************************************************)
(* Properties.                                                             *)
(***************************************************************************)
(* A run that ends has restamped every row that was stale when it began    *)
(* and stayed active, or counted it as failed, however pages shrink under  *)
(* it ("keyset pagination advances past rows whose embedding keeps         *)
(* failing", reembed_stale).                                               *)
NothingLeftStale ==
    \A r \in Runs : RunAt(r, "done") => Stale \cap runs[r].owed \subseteq runs[r].failed

(* A run ends although embeddings may fail for ever ("a partial Ollama     *)
(* outage stalls nothing").                                                *)
RunsEnd == \A r \in Runs : RunAt(r, "fetch") ~> RunAt(r, "done")
=============================================================================
