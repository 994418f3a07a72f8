------------------------------- MODULE Fusion -------------------------------
(***************************************************************************)
(* Reciprocal rank fusion (src/recallum/retrieval.py), shared by recall    *)
(* and match_skills, as a function of ranked pools and of competition      *)
(* votes.  A pool is [ids: a sequence without repetition, best first,      *)
(* weight]; a vote is [value: a function from ids to numbers, weight].     *)
(* Weights are tenths, and a share weight / (RrfK + rank) is kept as a     *)
(* whole number by Scale, which every rank that occurs must divide.        *)
(***************************************************************************)
EXTENDS Data, SequencesExt

CONSTANTS
    RrfK,       \* RRF_K
    Scale       \* a common multiple of RrfK + 1, ..., RrfK + the last rank

ASSUME FusionAssumption == RrfK \in Nat /\ Scale \in Nat \ {0}

(* The elements of the sequences of ss, each where it first occurs. *)
FirstOccurrences(ss) ==
    LET all == FlattenSeq(ss)
    IN ElementsAt(all, {i \in DOMAIN all : \A j \in 1..(i - 1) : all[j] # all[i]})

Share(weight, rank) == weight * (Scale \div (RrfK + rank))

(* A pool without weight cannot vote, and brings no candidate in. *)
Voting(pools) == ElementsAt(pools, {i \in DOMAIN pools : pools[i].weight # 0})
Candidates(pools) ==
    LET voting == Voting(pools) IN FirstOccurrences([i \in DOMAIN voting |-> voting[i].ids])

AddUp(s) == SumFunction(s)

PoolScore(pools, id) ==
    AddUp([i \in DOMAIN pools |->
            IF Contains(pools[i].ids, id)
            THEN Share(pools[i].weight, RankIn(pools[i].ids, id)) ELSE 0])

(* _add_competition_vote: ties share the rank of the first of them. *)
(* Mutant of CompetitionRank: every entry has a rank of its own. *)
PositionRank(found, value, id) ==
    RankIn(Descending(found, value), id)
CompetitionRank(found, value, id) ==
    1 + Cardinality({x \in ToSet(found) : value[x] > value[id]})

VoteScore(found, votes, id) ==
    AddUp([i \in DOMAIN votes |->
            IF votes[i].weight = 0 THEN 0
            ELSE Share(votes[i].weight, CompetitionRank(found, votes[i].value, id))])

(* reciprocal_rank_fusion: best score first, then the newest. *)
Fuse(pools, votes, created) ==
    LET found == Candidates(pools)
        score == [id \in ToSet(found) |-> PoolScore(pools, id) + VoteScore(found, votes, id)]
    IN Descending(Descending(found, created), score)
=============================================================================
