---------------------------- MODULE BatchWrites -----------------------------
(***************************************************************************)
(* remember_batch (src/recallum/memory/service.py): the items of a call    *)
(* are written one after another in one transaction, each in a savepoint,  *)
(* so what an item locks -- the index entry of the row it inserts or the   *)
(* row it reconfirms, then the user's generation row                       *)
(* (_increment_generation, memory_repo.py) -- is held until the call       *)
(* commits.  Calls of one user wait for each other, and may wait in a      *)
(* circle, which PostgreSQL breaks by aborting one of them.                *)
(*                                                                         *)
(* A remember is a call of one item.  Rows of one deduplication bucket are *)
(* told apart by their text; a text is inserted again once forgotten.      *)
(* Vectors and degraded vectors are alike here, and the profile keys that  *)
(* the call announces at its end are those of MemoryProfile.               *)
(***************************************************************************)
EXTENDS Naturals, Sequences, FiniteSets, SequencesExt

CONSTANTS
    Batches,    \* calls
    Texts,
    Invalid,    \* an item that fails its validation
    ItemLists,  \* what a call may be given: sequences of texts and Invalid
    MaxForgets  \* bound: rows forgotten

ASSUME ItemsAssumption == Invalid \notin Texts /\ ItemLists \subseteq Seq(Texts \cup {Invalid})

VARIABLES
    table,    \* text -> [n: rows committed so far, active: the last is active]
    batches,  \* call -> its step and local state; the items to do are done in order
    held      \* call -> [mine, locked: texts; gen: the generation row]

batchVars == <<table, batches, held>>

Nowhere == [mine |-> {}, locked |-> {}, gen |-> FALSE]
Where(b, pc) == batches[b].pc = pc
Put(b, state) == batches' = [batches EXCEPT ![b] = state]
Index(b) == CHOOSE n \in batches[b].todo : \A m \in batches[b].todo : n <= m
Text(b) == batches[b].items[Index(b)]

(* The outcome of the item at hand, and on to the next one. *)
SettleItem(b, outcome) ==
    Put(b, [batches[b] EXCEPT !.pc = "item", !.todo = @ \ {Index(b)},
                              !.out = @ \cup {<<Index(b), outcome>>}])

BatchInit ==
    /\ table = [t \in Texts |-> [n |-> 0, active |-> FALSE]]
    /\ batches = [b \in Batches |-> [pc |-> "idle"]]
    /\ held = [b \in Batches |-> Nowhere]

(***************************************************************************)
(* Before the session: validate, look for existing hashes, embed the rest. *)
(***************************************************************************)
Valid(items) == {i \in DOMAIN items : items[i] # Invalid}

StartBatch(b, items) ==
    /\ Where(b, "idle")
    /\ Put(b, [pc |-> "embed", items |-> items, todo |-> Valid(items), deferred |-> {},
               vectors |-> {items[i] : i \in {j \in Valid(items) : ~table[items[j]].active}},
               out |-> {<<i, "invalid">> : i \in DOMAIN items \ Valid(items)}, wrote |-> {}])
    /\ UNCHANGED <<table, held>>

Embedded(b) ==
    /\ Where(b, "embed") \/ Where(b, "reembed")
    /\ Put(b, [batches[b] EXCEPT !.pc = "item"])
    /\ UNCHANGED <<table, held>>

(***************************************************************************)
(* One item (_write_item, _remember_in_session): find_active_by_hash, then *)
(* reconfirm, defer or insert.                                             *)
(***************************************************************************)
FindExisting(b) ==
    /\ Where(b, "item") /\ batches[b].todo # {}
    /\ UNCHANGED <<table, held>>
    /\ LET t == Text(b)
       IN \/ /\ table[t].active \/ t \in held[b].mine
             /\ Put(b, [batches[b] EXCEPT !.pc = "touch"])
          \/ /\ ~table[t].active /\ t \notin held[b].mine /\ t \in batches[b].vectors
             /\ Put(b, [batches[b] EXCEPT !.pc = "insert"])
          \/ /\ ~table[t].active /\ t \notin held[b].mine /\ t \notin batches[b].vectors
             /\ Put(b, [batches[b] EXCEPT !.todo = @ \ {Index(b)},
                                          !.deferred = @ \cup {Index(b)}])

(* Who holds what the next statement of b needs. *)
Holders(b) ==
    {c \in Batches \ {b} :
        \/ Where(b, "insert") /\ Text(b) \in held[c].mine \cup held[c].locked
        \/ Where(b, "touch") /\ Text(b) \in held[c].locked
        \/ (Where(b, "genInsert") \/ Where(b, "genTouch")) /\ held[c].gen}

(* An update that finds its row retired changes nothing; the item answers  *)
(* with the row it looked up.                                              *)
Touch(b) ==
    LET t == Text(b)
    IN /\ Where(b, "touch") /\ Holders(b) = {}
       /\ \/ /\ table[t].active \/ t \in held[b].mine
             /\ held' = [held EXCEPT ![b].locked = @ \cup {t}]
             /\ Put(b, [batches[b] EXCEPT !.pc = "genTouch"])
          \/ /\ ~table[t].active /\ t \notin held[b].mine
             /\ SettleItem(b, "deduplicated") /\ UNCHANGED held
       /\ UNCHANGED table

(* uq_memories_active_dedup: an insert that waited meets the winner's row. *)
(* Mutant of Conflict: the item counts as stored. *)
ConflictIgnored == "created"
Conflict == "conflict"

Insert(b) ==
    LET t == Text(b)
    IN /\ Where(b, "insert") /\ Holders(b) = {}
       /\ \/ table[t].active /\ SettleItem(b, Conflict) /\ UNCHANGED held
          \/ /\ ~table[t].active
             /\ held' = [held EXCEPT ![b].mine = @ \cup {t}]
             /\ Put(b, [batches[b] EXCEPT !.pc = "genInsert"])
       /\ UNCHANGED table

IncrementGeneration(b) ==
    /\ Where(b, "genInsert") \/ Where(b, "genTouch")
    /\ Holders(b) = {}
    /\ held' = [held EXCEPT ![b].gen = TRUE]
    /\ SettleItem(b, IF Where(b, "genInsert") THEN "created" ELSE "deduplicated")
    /\ UNCHANGED table

(***************************************************************************)
(* The session ends: commit, then the deferred items in a second one.      *)
(***************************************************************************)
AfterCommit(b) ==
    IF batches[b].deferred = {} THEN [batches[b] EXCEPT !.pc = "done"]
    ELSE [batches[b] EXCEPT !.pc = "reembed", !.todo = batches[b].deferred, !.deferred = {},
             !.vectors = @ \cup {batches[b].items[i] : i \in batches[b].deferred}]

Commit(b) ==
    /\ Where(b, "item") /\ batches[b].todo = {}
    /\ table' = [t \in Texts |-> IF t \in held[b].mine THEN [n |-> table[t].n + 1, active |-> TRUE]
                                ELSE table[t]]
    /\ held' = [held EXCEPT ![b] = Nowhere]
    /\ Put(b, [AfterCommit(b) EXCEPT !.wrote = @ \cup held[b].mine])

(***************************************************************************)
(* PostgreSQL aborts a transaction that waits for itself; the error is no  *)
(* IntegrityError, so the call fails and its open transaction is undone.   *)
(***************************************************************************)
(* The calls that b waits for, directly or through n others. *)
Waits(b) ==
    LET ahead[n \in 0..Cardinality(Batches)] ==
            IF n = 0 THEN Holders(b)
            ELSE ahead[n - 1] \cup UNION {Holders(c) : c \in ahead[n - 1]}
    IN ahead[Cardinality(Batches)]

(* Mutant of Deadlocked: only a call that waits for a failed one is freed. *)
NeverDeadlocked(b) == \E c \in Holders(b) : Where(c, "failed")
Deadlocked(b) == Holders(b) # {} /\ b \in Waits(b)

Abort(b) ==
    /\ Deadlocked(b)
    /\ held' = [held EXCEPT ![b] = Nowhere]
    /\ Put(b, [batches[b] EXCEPT !.pc = "failed"])
    /\ UNCHANGED table

(* Another transaction forgets a row that nobody has locked. *)
ForgetRow(t) ==
    /\ table[t].active
    /\ MapThenSumSet(LAMBDA u : table[u].n, {u \in Texts : ~table[u].active}) < MaxForgets
    /\ \A b \in Batches : t \notin held[b].locked /\ ~held[b].gen
    /\ table' = [table EXCEPT ![t].active = FALSE]
    /\ UNCHANGED <<batches, held>>

BatchStep(b) == \/ Embedded(b) \/ FindExisting(b) \/ Touch(b) \/ Insert(b)
                \/ IncrementGeneration(b) \/ Commit(b)

BatchNext ==
    \/ \E b \in Batches : \/ \E items \in ItemLists : StartBatch(b, items)
                          \/ BatchStep(b) \/ Abort(b)
    \/ \E t \in Texts : ForgetRow(t)

BatchSpec == BatchInit /\ [][BatchNext]_batchVars

(* Statements return and the deadlock detector runs. *)
BatchFairness == \A b \in Batches : WF_batchVars(BatchStep(b)) /\ WF_batchVars(Abort(b))

(***************************************************************************)
(* Properties.                                                             *)
(***************************************************************************)
(* When a call returns, every item has exactly one outcome, "created" is   *)
(* answered for exactly what the call committed and, in a call, for one    *)
(* item of equal ones, deferred items and lost races included ("per-item   *)
(* outcomes", service.py, remember_batch).                                 *)
Outcomes(b) == batches[b].out
OutcomesTrue ==
    \A b \in Batches : Where(b, "done") =>
        /\ {o[1] : o \in Outcomes(b)} = DOMAIN batches[b].items
        /\ Cardinality(Outcomes(b)) = Len(batches[b].items)
        /\ \A t \in Texts :
              Cardinality({o \in Outcomes(b) : batches[b].items[o[1]] = t /\ o[2] = "created"})
                  = IF t \in batches[b].wrote THEN 1 ELSE 0

(* Every call returns or raises, whatever order two calls give the same    *)
(* items in.                                                               *)
BatchesEnd == \A b \in Batches : Where(b, "embed") ~> (Where(b, "done") \/ Where(b, "failed"))
=============================================================================
