------------------------------- MODULE Audits -------------------------------
(***************************************************************************)
(* What get and statistics tell of the rows the writers of MemoryStore     *)
(* leave (src/recallum/memory/service.py over db/repositories/             *)
(* memory_repo.py).  get reads the row in one transaction and its history  *)
(* in a second one; each read is an operator on the rows of its instant.   *)
(***************************************************************************)
EXTENDS MemoryStore

Active == {i \in Undeleted : Unexpired(rows[i], now)}

Superseded == {i \in Ids : rows[i].succ # NoRow}

(***************************************************************************)
(* history: the rows replaced by a set of rows, and so on from the seed.   *)
(* What the recursive query collects below the seed is the least set that  *)
(* holds what the seed and its own members replaced; its path array keeps  *)
(* a row, and the seed itself, from coming back.                           *)
(***************************************************************************)
(* Mutant of Ancestors: the walk has the filter of the other reads. *)
UnexpiredAncestors(S) == {a \in Ids : rows[a].succ \in S /\ Unexpired(rows[a], now)}
(* Mutant of Ancestors: the walk finds one row replaced by each. *)
OneAncestorEach(S) ==
    {a \in Ids : rows[a].succ \in S /\ \A b \in Ids : rows[b].succ = rows[a].succ => a <= b}
Ancestors(S) == {a \in Ids : rows[a].succ \in S}

Closed(i) == {S \in SUBSET Superseded : Ancestors({i} \cup S) \subseteq S}

(* Mutant of History: only what the row replaced itself. *)
DirectHistory(i) == Ancestors({i})
History(i) == {a \in Superseded : \A S \in Closed(i) : a \in S} \ {i}

(* get: the history of a row that is active at the first of its reads.     *)
Get(i) == IF i \in Active THEN [found |-> TRUE, history |-> History(i)] ELSE [found |-> FALSE]

(***************************************************************************)
(* statistics                                                              *)
(***************************************************************************)
Statistics ==
    [active     |-> Cardinality(Active),
     superseded |-> Cardinality(Superseded),
     retired    |-> Cardinality({i \in Ids : rows[i].st = "retired"} \ Superseded)]

(***************************************************************************)
(* Properties.                                                             *)
(***************************************************************************)
(* Both ways of looking at the trail agree: the histories of the rows that *)
(* nothing replaced are disjoint and hold together as many rows as         *)
(* statistics calls superseded, and these rows are the active, the retired *)
(* and the expired ones ("Merge retires every source and links each to the *)
(* one consolidated replacement -- recoverable via get with history, never *)
(* a deletion", merge).                                                    *)
Tips == {i \in Ids : rows[i].st # "free" /\ rows[i].succ = NoRow}
TrailIsWhole ==
    /\ \A i \in Superseded : Cardinality({t \in Tips : i \in History(t)}) = 1
    /\ Statistics.superseded = Cardinality(UNION {History(t) : t \in Tips})
    /\ Statistics.active + Statistics.retired + Cardinality(Undeleted \ Active)
       = Cardinality(Tips)

(* The history of a stored row never changes, so the second transaction of *)
(* get tells what the first would have told, whatever commits in between.  *)
HistoryIsFixed ==
    [][\A i \in Ids : rows[i].st # "free" => History(i)' = History(i)]_storeVars
=============================================================================
