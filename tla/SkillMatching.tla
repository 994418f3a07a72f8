--------------------------- MODULE SkillMatching ----------------------------
(***************************************************************************)
(* match_skills and the advisory check of propose_skill for similar skills *)
(* (src/recallum/skills/service.py over search_candidates and              *)
(* similar_active, db/repositories/skill_repo.py), while other sessions    *)
(* retire skills or replace them by a new version.  A skill is a number:   *)
(* its id, and its age.                                                    *)
(***************************************************************************)
EXTENDS Fusion, FiniteSets

CONSTANTS
    Procedures,    \* the records skills may have: [bucket, vector, text]; text 0 is no match
    SkillCount,
    Queried,       \* buckets a query may see, one set for each visibility
    MatchLimit, PoolLimit, SimilarLimit,
    MaxReplaced    \* bound: skills retired or replaced during a call

ASSUME SkillLimitsAssumption ==
    /\ {MatchLimit, PoolLimit, SimilarLimit, SkillCount} \subseteq Nat \ {0}
    /\ MaxReplaced \in Nat

(* Strengths are numbers, and shares of the ranks of a leg are whole.      *)
ASSUME SkillRecordsAssumption ==
    /\ \A p \in Procedures : p.text \in Nat /\ p.vector \in Nat
    /\ \A rank \in 1..PoolLimit : Scale % (RrfK + rank) = 0

VARIABLES
    procedure,   \* skill -> its record
    current,     \* skills that are active
    matching,    \* the call in progress and what it has read
    everCurrent, \* history: skills active at some instant of the call
    replaced     \* (bounded)

matchingVars == <<procedure, current, matching, everCurrent, replaced>>

SkillIds == 1..SkillCount
MatchAt(pc) == matching.pc = pc

MatchingInit ==
    /\ procedure \in [SkillIds -> Procedures]
    /\ current = SkillIds \ {SkillCount}
    /\ matching = [pc |-> "idle"] /\ everCurrent = {} /\ replaced = 0

(* supersede or soft_delete in another session; the last id is the version *)
(* that may be stored in place of another.                                 *)
Replace(s, versions) ==
    /\ ~MatchAt("idle") /\ ~MatchAt("matched") /\ replaced < MaxReplaced
    /\ s \in current /\ versions \cap current = {}
    /\ replaced' = replaced + 1
    /\ current' = (current \ {s}) \cup versions /\ everCurrent' = everCurrent \cup versions
    /\ UNCHANGED <<procedure, matching>>

Saw(state) == matching' = state /\ UNCHANGED <<procedure, current, everCurrent, replaced>>

(* embed_read answers or fails. *)
StartMatch(buckets) ==
    /\ MatchAt("idle")
    /\ \E embedded \in BOOLEAN :
          matching' = [pc |-> IF embedded THEN "vector" ELSE "text", buckets |-> buckets,
                       embedded |-> embedded, vector |-> <<>>]
    /\ everCurrent' = current /\ UNCHANGED <<procedure, current, replaced>>

(* Mutant of Seen: a statement without the filter on deleted_at. *)
SeenAll(buckets) == {s \in SkillIds : procedure[s].bucket \in buckets}
Seen(buckets) == {s \in current : procedure[s].bucket \in buckets}

Leading(seq, limit) == SubSeq(seq, 1, IF limit < Len(seq) THEN limit ELSE Len(seq))
Strength(s, leg) == procedure[s][leg]

(* Full text orders by rank, then the newest first; the nearest vectors    *)
(* are ordered by distance alone, so equals come in any order.             *)
ByRank(S) ==
    LET Ranks(s, t) == \/ Strength(s, "text") > Strength(t, "text")
                       \/ Strength(s, "text") = Strength(t, "text") /\ s > t
    IN Arranged(S, {p \in S \X S : Ranks(p[1], p[2])})
ByDistance(S) ==
    {q \in SetToSeqs(S) :
        \A i, j \in DOMAIN q : i < j => Strength(q[i], "vector") >= Strength(q[j], "vector")}

VectorSkills ==
    /\ MatchAt("vector")
    /\ \E nearest \in ByDistance(Seen(matching.buckets)) :
          Saw([matching EXCEPT !.pc = "text", !.vector = Leading(nearest, PoolLimit)])
TextSkills ==
    /\ MatchAt("text")
    /\ LET S == {s \in Seen(matching.buckets) : Strength(s, "text") > 0}
       IN Saw(With(matching, [pc |-> "rank", text |-> Leading(ByRank(S), PoolLimit)]))

(* Mutant of Legs: the text leg is only a fallback. *)
FirstLegOnly == IF matching.vector = <<>> THEN <<matching.text>> ELSE <<matching.vector>>
Legs == <<matching.vector, matching.text>>

FinishMatch ==
    /\ MatchAt("rank")
    /\ LET fused == Fuse([i \in DOMAIN Legs |-> [ids |-> Legs[i], weight |-> 10]], <<>>,
                         [s \in SkillIds |-> s])
       IN Saw(With(matching, [pc |-> "matched", fused |-> fused,
                              results |-> Leading(fused, MatchLimit)]))

(* The newest skill was just stored: those like it, in its bucket.  The    *)
(* check may fail, and then reports none.                                  *)
StoredThenChecked ==
    /\ MatchAt("idle") /\ current' = current \cup {SkillCount}
    /\ matching' = [pc |-> "similar"]
    /\ everCurrent' = current' /\ UNCHANGED <<procedure, replaced>>
SimilarActive ==
    /\ MatchAt("similar")
    /\ LET like(s) == Strength(s, "vector") = Strength(SkillCount, "vector")
           S == {s \in Seen({procedure[SkillCount].bucket}) \ {SkillCount} : like(s)}
       IN \E nearest \in ByDistance(S), failed \in BOOLEAN :
             Saw([pc |-> "matched",
                  results |-> IF failed THEN <<>> ELSE Leading(nearest, SimilarLimit)])

MatchingNext ==
    \/ \E buckets \in Queried : StartMatch(buckets)
    \/ \E s \in SkillIds : Replace(s, {}) \/ Replace(s, {SkillCount})
    \/ VectorSkills \/ TextSkills \/ FinishMatch
    \/ StoredThenChecked \/ SimilarActive

MatchingSpec == MatchingInit /\ [][MatchingNext]_matchingVars

(***************************************************************************)
(* Properties.                                                             *)
(***************************************************************************)
IsMatch == MatchAt("matched") /\ "fused" \in DOMAIN matching

(* What is reported was active at an instant of the call, though the legs  *)
(* read at different ones; no skill is reported twice.                     *)
MatchedWereActive ==
    MatchAt("matched") =>
        /\ ToSet(matching.results) \subseteq everCurrent
        /\ IsInjective(matching.results)

(* A skill that both legs place above another comes above it, and so does  *)
(* one that one leg places above it when the other leg found neither; with *)
(* embeddings down the order is that of the text leg ("degrades to textual *)
(* on embed failure", match_skills).                                       *)
Above(s, t, leg) == Contains(leg, s) /\ (Contains(leg, t) => RankIn(leg, s) < RankIn(leg, t))
Neither(s, t, leg) == ~Contains(leg, s) /\ ~Contains(leg, t)
MatchRespectsLegs ==
    IsMatch =>
        LET fused == matching.fused
        IN /\ ToSet(fused) = ToSet(matching.vector) \cup ToSet(matching.text)
           /\ ~matching.embedded => fused = matching.text
           /\ \A s, t \in ToSet(fused) :
                 (/\ \A leg \in {matching.vector, matching.text} :
                        Above(s, t, leg) \/ Neither(s, t, leg)
                  /\ s # t)
                 => RankIn(fused, s) < RankIn(fused, t)

(* What a match reports was there to be found and is in the order of its   *)
(* legs, whatever is retired or replaced between them.                     *)
MatchesAreSound == MatchedWereActive /\ MatchRespectsLegs
=============================================================================
