------------------------------- MODULE Reads --------------------------------
(***************************************************************************)
(* recall and context (src/recallum/memory/service.py) over the statements *)
(* of search_candidates and context_snapshot (memory_repo.py), while other *)
(* sessions write.  Each statement of a READ COMMITTED transaction sees    *)
(* what is committed when it starts, so a write may fall between two.      *)
(*                                                                         *)
(* A memory is a number, its id; its record `memory[m]' holds besides the  *)
(* fields of Packing its project (Global for a global memory) and how well *)
(* it matches the query on each leg (0: not at all, or below the floor).   *)
(* A write retires a memory, stores one, or both (update), and moves the   *)
(* generation; time, the ranking of other users' rows and the anchors are  *)
(* left out, as are kind and category filters: they narrow every pool      *)
(* alike.  CandidateLimit stands for max(3 * limit, 10) of either call.    *)
(***************************************************************************)
EXTENDS Packing, FiniteSets

CONSTANTS
    Corpora,        \* functions from memories to their records
    Projects,
    Global,         \* the project of a global memory, or of a call without one
    Recalls,        \* [project, limit, tokens, strategy]
    Contexts,       \* [project, items, chars, tokens, strategy, focus]
    CandidateLimit, FocusLimit, TruncateFloor,
    ProfileStatic, ProfileDynamic,   \* [items, chars] of a materialized profile
    ProfileReserve,                  \* [items, chars] of a profile in a context
    ImportanceWeight, TrigramWeight, \* tenths
    MaxWrites       \* bound: writes

Categories == {"preference", "constraint", "decision", "fact"}
Numbers == {"importance", "chars", "created", "recalled", "confirmed", "vector", "text", "trigram"}
Posed(c, fields) ==
    /\ {"project", "tokens", "strategy"} \cup fields \subseteq DOMAIN c
    /\ c.project \in Projects \cup {Global} /\ c.tokens \in Nat \cup {NoBudget}

ASSUME ReadsAssumption ==
    /\ \A corpus \in Corpora :
          /\ IsFiniteSet(DOMAIN corpus) /\ DOMAIN corpus \subseteq Nat
          /\ \A m \in DOMAIN corpus :
                /\ corpus[m].category \in Categories
                /\ corpus[m].project \in Projects \cup {Global}
                /\ \A field \in Numbers : corpus[m][field] \in Nat
    /\ \A c \in Recalls : Posed(c, {"limit"}) /\ c.limit \in Nat
    /\ \A c \in Contexts : /\ Posed(c, {"items", "chars", "focus"})
                            /\ c.items \in Nat /\ c.chars \in Nat /\ c.focus \in BOOLEAN
    /\ NoBudget \notin Nat
    /\ CandidateLimit \in Nat /\ FocusLimit \in Nat /\ TruncateFloor \in Nat
    /\ ImportanceWeight \in Nat /\ TrigramWeight \in Nat
    /\ \A budget \in {ProfileStatic, ProfileDynamic, ProfileReserve} :
          budget.items \in Nat /\ budget.chars \in Nat

VARIABLES
    memory,      \* the records, fixed
    stage,       \* memory -> "new", "active" or "gone"
    generation,
    rows,        \* project or Global -> its materialized static slice
    call,        \* the call in progress and what it has read
    seen         \* the sets of active memories since the call began

readVars == <<memory, stage, generation, rows, call, seen>>

Memories == DOMAIN memory
Active == {m \in Memories : stage[m] = "active"}
NoRow == [generation |-> 0, static |-> <<>>]
At(pc) == call.pc = pc

(* MemoryVisibility: a recall without project sees everything (all), a     *)
(* context without project the global memories only.                       *)
Visible(S) ==
    {m \in S : \/ memory[m].project \in {call.project, Global}
               \/ call.op = "recall" /\ call.project = Global}
Field(f) == Each(memory, f)
Pool(project) == {m \in Active : memory[m].project = project}

ReadsInit ==
    /\ memory \in Corpora
    /\ stage \in [DOMAIN memory -> {"new", "active"}]
    /\ generation = 1
    /\ rows = [p \in Projects \cup {Global} |-> NoRow]
    /\ call = [pc |-> "idle"]
    /\ seen = {}

(***************************************************************************)
(* Other sessions: a write, and the rebuild worker (MemoryProfile).        *)
(***************************************************************************)
Running == ~At("idle") /\ ~At("done")
SelectStatic(project) ==
    StaticSlice(Pool(project) \cup Pool(Global), memory, ProfileStatic.items, ProfileStatic.chars)

(* A write before the call only makes another initial state.               *)
Write(retired, stored) ==
    /\ Running /\ generation <= MaxWrites
    /\ retired \cup stored # {} /\ retired \subseteq Active
    /\ \A m \in stored : stage[m] = "new"
    /\ stage' = [m \in Memories |-> IF m \in retired THEN "gone"
                                    ELSE IF m \in stored THEN "active" ELSE stage[m]]
    /\ generation' = generation + 1
    /\ seen' = seen \cup {(Active \ retired) \cup stored}
    /\ UNCHANGED <<memory, rows, call>>

Materialize(project) ==
    /\ At("idle") /\ rows[project].generation # generation
    /\ rows' = [rows EXCEPT ![project] =
                    [generation |-> generation, static |-> SelectStatic(project)]]
    /\ UNCHANGED <<memory, stage, generation, call, seen>>

(***************************************************************************)
(* The statements.  Got(next, news) records what one returns.              *)
(***************************************************************************)
Got(next, news) ==
    /\ call' = With([call EXCEPT !.pc = next], news)
    /\ UNCHANGED <<memory, stage, generation, rows, seen>>

StartRecall(c) ==
    /\ At("idle")
    /\ \E embedded \in BOOLEAN :
          call' = With(c, [op |-> "recall", vector |-> <<>>,
                           pc |-> IF embedded THEN "vector" ELSE "text"])
    /\ seen' = {Active}
    /\ UNCHANGED <<memory, stage, generation, rows>>

(* The embedding of the focus, if it has one, is made or failed by now.    *)
StartContext(c) ==
    /\ At("idle")
    /\ \E embedded \in BOOLEAN :
          call' = With(c, [op |-> "context", pc |-> "profile", embedded |-> embedded,
                           vector |-> <<>>, text |-> <<>>, trigram |-> <<>>])
    /\ seen' = {Active}
    /\ UNCHANGED <<memory, stage, generation, rows>>

(* A leg of the search: the matching memories, best first, newest first    *)
(* among equals (the vector leg leaves equals to the index).               *)
Top(S, strength, limit) ==
    LET best == Descending(Descending(Upwards(S), Field("created")), strength)
    IN SubSeq(best, 1, AtMost(limit, Len(best)))
Leg(strength) ==
    Top({m \in Visible(Active) : strength[m] > 0}, strength, CandidateLimit)

VectorCandidates ==
    /\ At("vector")
    /\ Got("text", [vector |-> Leg(Field("vector"))])
TextCandidates ==
    /\ At("text")
    /\ Got("trigram", [text |-> Leg(Field("text"))])
TrigramCandidates ==
    /\ At("trigram")
    /\ Got(IF call.op = "recall" THEN "fuse" ELSE "assemble",
           [trigram |-> IF TrigramWeight = 0 THEN <<>>
                        ELSE Leg(Field("trigram"))])

ReadProfile == At("profile") /\ Got("generation", [row |-> rows[call.project]])
ReadGeneration ==
    At("generation") /\ Got("globalTop", [current |-> call.row.generation = generation])

(* The ROW_NUMBER window: the first of each category, not of the pool.     *)
(* Mutant of CategoryTop: one LIMIT for the pool. *)
PoolTop(S, limit) ==
    Top(S, Field("importance"), limit)
CategoryTop(S, limit) ==
    LET ranked == Top(S, Field("importance"), Cardinality(S))
        Ahead(n) == {i \in 1..n : memory[ranked[i]].category = memory[ranked[n]].category}
    IN ElementsAt(ranked, {n \in DOMAIN ranked : Cardinality(Ahead(n)) <= limit})

PerCategoryLimit == call.items + AtMost(call.items, ProfileReserve.items) + 1

ReadGlobalTop ==
    /\ At("globalTop")
    /\ Got("projectTop", [globalTop |-> CategoryTop(Pool(Global), PerCategoryLimit)])
ReadProjectTop ==
    /\ At("projectTop")
    /\ Got("dynamic", [projectTop |-> IF call.project = Global THEN <<>>
                                      ELSE CategoryTop(Pool(call.project), PerCategoryLimit)])

(* Mutant of Recent: the memories of every project. *)
RecentAnywhere(S) == {m \in S : memory[m].recalled > 0}
Recent(S) == {m \in Visible(S) : memory[m].recalled > 0}
DynamicCandidates ==
    LET order == DynamicOrder(Recent(Active), memory)
    IN ToSet(SubSeq(order, 1, AtMost(ProfileStatic.items + ProfileDynamic.items, Len(order))))

ReadDynamic == At("dynamic") /\ Got("totals", [dynamic |-> DynamicCandidates])
ReadTotals ==
    /\ At("totals")
    /\ Got(IF ~call.focus THEN "assemble" ELSE IF call.embedded THEN "vector" ELSE "text",
           [totals |-> [k \in {memory[m].category : m \in Memories} |->
                           Cardinality({m \in Visible(Active) : memory[m].category = k})]])

(***************************************************************************)
(* Fusion, and the end of recall.                                          *)
(***************************************************************************)
Pools == <<[ids |-> call.vector, weight |-> 10], [ids |-> call.text, weight |-> 10],
           [ids |-> call.trigram, weight |-> TrigramWeight]>>
Fused == Fuse(Pools, <<[value |-> Field("importance"), weight |-> ImportanceWeight]>>,
              Field("created"))

FinishRecall ==
    /\ At("fuse")
    /\ LET ordered == ReorderByStrategy(Fused, call.strategy, memory)
       IN Got("done", [fused |-> Fused,
                       hits |-> PackByTokenBudget(ordered, call.limit, call.tokens, memory)])

(***************************************************************************)
(* The end of context: the profile block, current or rebuilt, capped; what *)
(* it leaves of the budgets; the categorized snapshot.                     *)
(***************************************************************************)
Static == IF call.current THEN call.row.static ELSE SelectStatic(call.project)
ProfileBlock ==
    LET static  == Static
        dynamic == IF call.current THEN call.dynamic ELSE Recent(Active)
    IN CapProfile(static,
                  IF call.focus THEN <<>>
                  ELSE DynamicSlice(dynamic, static, memory, ProfileDynamic.items,
                                    ProfileDynamic.chars),
                  AtMost(call.items, ProfileReserve.items),
                  AtMost(call.chars, ProfileReserve.chars))

(* Mutant of RemainingChars: the profile is not charged. *)
AllChars(profile) == call.chars
RemainingChars(profile) == Less(call.chars, Chars(profile))

Remaining(profile) ==
    [items |-> Less(call.items, Len(profile)), chars |-> RemainingChars(profile),
     tokens |-> IF call.tokens = NoBudget THEN NoBudget ELSE Less(call.tokens, Tokens(profile)),
     floor |-> TruncateFloor]

(* What the profile serves is not served again. *)
Excluded(profile) == ItemIds(profile)

(* Mutant of Gap: the profile is not credited to its categories. *)
GapOfGroups(category, profile, groups) ==
    Less(call.totals[category],
         Cardinality({m \in ItemIds(groups) : memory[m].category = category}))
Gap(category, profile, groups) ==
    Less(call.totals[category],
         Cardinality({m \in ItemIds(groups) : memory[m].category = category})
         + Cardinality({m \in ItemIds(profile) : memory[m].category = category}))

(* A rebuild that meets a write three times gives up, and the call goes on *)
(* without a profile.  One that succeeds is as of the instant its compare- *)
(* and-set confirms (its statements are in MemoryProfile); after it the    *)
(* assembly has only the call's own locals to read.                        *)
FinishContext ==
    /\ At("assemble")
    /\ \E rebuilt \in {TRUE, call.current} :
       LET focus   == IF call.focus THEN SubSeq(Fused, 1, AtMost(FocusLimit, Len(Fused))) ELSE <<>>
           profile == IF rebuilt THEN ProfileBlock ELSE <<>>
           order   == PackingOrder(call.globalTop, call.projectTop, focus, Excluded(profile),
                                   call.strategy, memory)
           packed  == Assemble(order, Remaining(profile), memory)
       IN /\ call' = With([call EXCEPT !.pc = "done"],
                     [focused |-> ToSet(focus), profile |-> profile, groups |-> packed.kept,
                      gaps |-> [k \in DOMAIN call.totals |-> Gap(k, profile, packed.kept)]])
          /\ rows' = IF call.current \/ ~rebuilt THEN rows
                     ELSE [rows EXCEPT ![call.project] =
                              [generation |-> generation, static |-> Static]]
    /\ UNCHANGED <<memory, stage, generation, seen>>

Read == \/ VectorCandidates \/ TextCandidates \/ TrigramCandidates
        \/ ReadProfile \/ ReadGeneration \/ ReadGlobalTop \/ ReadProjectTop
        \/ ReadDynamic \/ ReadTotals

ReadsNext ==
    \/ \E c \in Recalls : StartRecall(c)
    \/ \E c \in Contexts : StartContext(c)
    \/ Read \/ FinishRecall \/ FinishContext
    \/ \E retired, stored \in {{}} \cup {{m} : m \in Memories} : Write(retired, stored)
    \/ \E project \in DOMAIN rows : Materialize(project)

ReadsSpec == ReadsInit /\ [][ReadsNext]_readVars

(***************************************************************************)
(* Properties.                                                             *)
(***************************************************************************)
Done(op) == At("done") /\ call.op = op
Quiet == Cardinality(seen) = 1
Served == IF call.op = "recall" THEN ToSet(call.hits)
          ELSE ItemIds(call.profile) \cup ItemIds(call.groups)

(* Whatever writes fall between the statements, nothing is served that was *)
(* not active at an instant of the call and visible to it: not through a   *)
(* stale profile row, a pool of another project or a focus match.          *)
EachWasVisible ==
    At("done") => Served \subseteq Visible(UNION seen)

(* The snapshot is cut, never holed: a memory that was active all along    *)
(* and is left out has no memory packed after it in the order of the call  *)
(* (category, focus, importance, recency) -- although the pools are cut    *)
(* and the profile takes memories out of the middle (context_snapshot, "a  *)
(* ROW_NUMBER window partitioned by category, not a pool-wide LIMIT").     *)
Goes(m, n) ==
    LET M == memory[m] N == memory[n]
        category == [k \in {M.category, N.category} |-> Priority(call.strategy, k)]
    IN \/ category[M.category] < category[N.category]
       \/ /\ M.category = N.category /\ n \notin call.focused
          /\ \/ M.importance > N.importance
             \/ M.importance = N.importance /\ M.created > N.created
NothingPassedOver ==
    Done("context") =>
        \A m \in Memories \ Served :
            (\A S \in seen : m \in Visible(S)) => \A n \in ItemIds(call.groups) : ~Goes(m, n)

(* The caps hold for profile and snapshot together, though each is packed  *)
(* by its own rule and may end in a clipped item.                          *)
WithinBudget ==
    Done("context") =>
        /\ Len(call.profile) + Len(call.groups) <= call.items
        /\ Chars(call.profile) + Chars(call.groups) <= call.chars
        /\ call.tokens # NoBudget =>
              Tokens(Whole([i \in DOMAIN call.groups |-> call.groups[i].id], memory))
                  <= Less(call.tokens, Tokens(call.profile))

(* With no write during the call, what it says it left out is what is      *)
(* visible and was not served, in each category, and nothing is served     *)
(* twice ("the profile block never counts as omitted", context.py).        *)
OmissionsTrue ==
    Done("context") /\ Quiet =>
        /\ Len(call.profile) + Len(call.groups) = Cardinality(Served)
        /\ \A k \in DOMAIN call.gaps :
              call.gaps[k] = Cardinality({m \in Visible(Active) \ Served : memory[m].category = k})

(* Of two candidates of equal importance the retrieval legs alone decide,  *)
(* then recency: a tie in a vote lets no other order in                    *)
(* (_add_competition_vote, "Ties share a rank so a secondary signal cannot *)
(* sneak in").                                                             *)
TiesAreNeutral ==
    Done("recall") =>
        \A m, n \in ToSet(call.fused) :
            m # n /\ memory[m].importance = memory[n].importance
                /\ RankIn(call.fused, m) < RankIn(call.fused, n)
            => \/ PoolScore(Pools, m) > PoolScore(Pools, n)
               \/ /\ PoolScore(Pools, m) = PoolScore(Pools, n)
                  /\ memory[m].created >= memory[n].created

(* A strategy moves categories and drops nothing, and the packing stops at *)
(* the first hit that does not fit: every hit that is left out is of a     *)
(* later or equal category, or comes later in its own, and the first of    *)
(* them crosses a budget (recall, "never drops a hit that still fits the   *)
(* budget").                                                               *)
RecallIsLongestPrefix ==
    Done("recall") =>
        LET left == ToSet(call.fused) \ ToSet(call.hits)
            Rank(m) == IF call.strategy = NoBudget THEN 0
                       ELSE Priority(call.strategy, memory[m].category)
            Precedes(m, n) == \/ Rank(m) < Rank(n)
                              \/ /\ Rank(m) = Rank(n)
                                 /\ RankIn(call.fused, m) < RankIn(call.fused, n)
            used == AddUp([i \in DOMAIN call.hits |-> EstimateTokens(memory[call.hits[i]].chars)])
        IN /\ call.tokens # NoBudget => used <= call.tokens
           /\ \A i \in DOMAIN call.hits : \A j \in 1..(i - 1) : Precedes(call.hits[j], call.hits[i])
           /\ \A m \in left :
                 /\ \A n \in ToSet(call.hits) : Precedes(n, m)
                 /\ (\A n \in left \ {m} : Precedes(m, n)) =>
                       \/ Len(call.hits) = call.limit
                       \/ /\ call.tokens # NoBudget
                          /\ used + EstimateTokens(memory[m].chars) > call.tokens

(* What recall serves: fused by rank alone, then cut and never holed.      *)
RecallServes == TiesAreNeutral /\ RecallIsLongestPrefix

(* What context serves and says: the first in its order, within every cap, *)
(* and the rest counted.                                                   *)
ContextServes == NothingPassedOver /\ WithinBudget /\ OmissionsTrue

(* What a snapshot serves was active at one instant ("all observe the same *)
(* snapshot, so a concurrent write cannot land between them",              *)
(* context_snapshot, memory_repo.py).                                      *)
OneSnapshot == Done("context") => \E S \in seen : ItemIds(call.groups) \subseteq S
=============================================================================
