--------------------------- MODULE RetrievalProofs --------------------------
(***************************************************************************)
(* Proofs about retrieval: the fusion of ranked pools (Fusion), the        *)
(* packing of what is found (Packing), the matching of skills              *)
(* (SkillMatching), the statements of recall and context between the       *)
(* writes of other sessions (Reads) and those of the graph (MemoryGraph).  *)
(*                                                                         *)
(* What a leg or a pool returns is a list in a strict order (ListOf), and  *)
(* what the algorithms do to it -- sort, keep, join, cut -- is a list in   *)
(* an order made of the first (DataProofs).  A packing is a fold, so it    *)
(* passes through one value per element (Trace); a property of the fold is *)
(* an invariant of these values.  MatchingInv and ReadsInv say what a call *)
(* has read so far, against the sets of active skills or memories since it *)
(* began; the properties follow in the states where a call is done.        *)
(***************************************************************************)
EXTENDS Reads, SkillMatching, MemoryGraph, DataProofs

(***************************************************************************)
(* Fusion.  What the sequences of ss have, each where it first occurs.     *)
(***************************************************************************)
FirstAt(all) == {i \in DOMAIN all : \A j \in 1..(i - 1) : all[j] # all[i]}
Sooner(all) ==
    {p \in ToSet(all) \X ToSet(all) :
        \E i, j \in FirstAt(all) : i < j /\ all[i] = p[1] /\ all[j] = p[2]}

LEMMA Firsts ==
    ASSUME NEW X, NEW all \in Seq(X)
    PROVE  /\ FirstAt(all) \in SUBSET DOMAIN all
           /\ \A i, j \in FirstAt(all) : all[i] = all[j] => i = j
           /\ {all[i] : i \in FirstAt(all)} = ToSet(all)
           /\ ListOf(ElementsAt(all, FirstAt(all)), ToSet(all), Sooner(all))
<1>0. Len(all) \in Nat /\ DOMAIN all = 1..Len(all)
  OBVIOUS
<1>1. FirstAt(all) \in SUBSET DOMAIN all
  BY DEF FirstAt
<1>2. ASSUME NEW i \in FirstAt(all), NEW j \in FirstAt(all), all[i] = all[j], i # j PROVE FALSE
  <2>1. i \in 1..(j - 1) \/ j \in 1..(i - 1)
    BY <1>0, <1>1, <1>2
  <2> QED BY <1>2, <2>1 DEF FirstAt
<1>3. ASSUME NEW x \in ToSet(all) PROVE \E i \in FirstAt(all) : all[i] = x
  <2> DEFINE F == {i \in DOMAIN all : all[i] = x}
  <2>1. F \in SUBSET Nat /\ F # {}
    BY <1>0 DEF ToSet
  <2> HIDE DEF F
  <2>2. PICK i \in F : \A j \in F : i <= j
    BY <2>1, LeastNatural
  <2> USE DEF F
  <2>3. \A j \in 1..(i - 1) : all[j] # all[i]
    BY <1>0, <2>2
  <2> QED BY <2>3 DEF FirstAt
<1>4. {all[i] : i \in FirstAt(all)} = ToSet(all)
  BY <1>1, <1>3 DEF ToSet
<1>5. ASSUME NEW i \in FirstAt(all), NEW j \in FirstAt(all)
      PROVE i < j <=> <<all[i], all[j]>> \in Sooner(all)
  <2>1. all[i] \in ToSet(all) /\ all[j] \in ToSet(all)
    BY <1>1 DEF ToSet
  <2> QED BY <1>2, <2>1 DEF Sooner
<1>6. ListOf(ElementsAt(all, FirstAt(all)), {all[i] : i \in FirstAt(all)}, Sooner(all))
  BY <1>1, <1>2, <1>5, ElementsOrdered
<1> QED BY <1>1, <1>2, <1>4, <1>6

LEMMA FirstOnes ==
    ASSUME NEW X, NEW ss \in Seq(Seq(X))
    PROVE  /\ FirstOccurrences(ss) = ElementsAt(FlattenSeq(ss), FirstAt(FlattenSeq(ss)))
           /\ ListOf(FirstOccurrences(ss), ToSet(FlattenSeq(ss)), Sooner(FlattenSeq(ss)))
           /\ ToSet(FlattenSeq(ss)) = UNION {ToSet(ss[i]) : i \in DOMAIN ss}
<1>1. FirstOccurrences(ss) = ElementsAt(FlattenSeq(ss), FirstAt(FlattenSeq(ss)))
  BY DEF FirstOccurrences, FirstAt
<1>2. FlattenSeq(ss) \in Seq(X) /\ ToSet(FlattenSeq(ss)) = UNION {ToSet(ss[i]) : i \in DOMAIN ss}
  BY Flattened
<1> QED BY <1>1, <1>2, Firsts

(* Pools of X. *)
Pooled(pools, X) ==
    \E n \in Nat : /\ DOMAIN pools = 1..n /\ pools \in Seq(ToSet(pools))
                   /\ \A i \in 1..n : Distinct(pools[i].ids, X) /\ pools[i].weight \in Nat
InPools(pools) == UNION {ToSet(pools[i].ids) : i \in {j \in DOMAIN pools : pools[j].weight # 0}}

LEMMA CandidatesFound ==
    ASSUME NEW X, NEW pools, Pooled(pools, X)
    PROVE  /\ \E R : ListOf(Candidates(pools), InPools(pools), R)
           /\ ToSet(Candidates(pools)) = InPools(pools) /\ InPools(pools) \in SUBSET X
<1>1. PICK n \in Nat : /\ DOMAIN pools = 1..n /\ pools \in Seq(ToSet(pools))
                       /\ \A i \in 1..n : Distinct(pools[i].ids, X) /\ pools[i].weight \in Nat
  BY DEF Pooled
<1>2. PICK P : P = {i \in DOMAIN pools : pools[i].weight # 0}
  OBVIOUS
<1>3. PICK voting : voting = Voting(pools)
  OBVIOUS
<1>4. voting \in Seq(ToSet(pools)) /\ ToSet(voting) = {pools[i] : i \in P}
  BY <1>1, <1>2, <1>3, ElementsAre DEF Voting
<1>5. PICK ss : ss = [i \in DOMAIN voting |-> voting[i].ids]
  OBVIOUS
<1>6. \A i \in DOMAIN voting : \E j \in P : voting[i] = pools[j]
  BY <1>4 DEF ToSet
<1>7. \A i \in DOMAIN voting : voting[i].ids \in Seq(X)
  BY <1>1, <1>2, <1>6 DEF Distinct
<1>8. ss \in Seq(Seq(X)) /\ DOMAIN ss = DOMAIN voting
  <2>1. DOMAIN voting = 1..Len(voting) /\ Len(voting) \in Nat
    BY <1>4
  <2> QED BY <1>5, <1>7, <2>1
<1>9. UNION {ToSet(ss[i]) : i \in DOMAIN ss} = InPools(pools)
  <2>1. ASSUME NEW i \in DOMAIN ss PROVE ToSet(ss[i]) \subseteq InPools(pools)
    BY <1>2, <1>5, <1>6, <1>8, <2>1 DEF InPools
  <2>2. ASSUME NEW j \in P PROVE \E i \in DOMAIN ss : ss[i] = pools[j].ids
    <3>1. pools[j] \in ToSet(voting)
      BY <1>4
    <3>2. PICK i \in DOMAIN voting : voting[i] = pools[j]
      BY <3>1 DEF ToSet
    <3> QED BY <1>5, <1>8, <3>2
  <2>3. ASSUME NEW j \in P PROVE ToSet(pools[j].ids) \subseteq UNION {ToSet(ss[i]) : i \in DOMAIN ss}
    BY <2>2
  <2>4. InPools(pools) = UNION {ToSet(pools[j].ids) : j \in P}
    BY <1>2 DEF InPools
  <2> QED BY <2>1, <2>3, <2>4
<1>10. Candidates(pools) = FirstOccurrences(ss)
  BY <1>3, <1>5 DEF Candidates
<1>11. InPools(pools) \in SUBSET X
  <2>1. \A j \in P : ToSet(pools[j].ids) \subseteq X
    BY <1>1, <1>2, DistinctLists
  <2> QED BY <1>2, <2>1 DEF InPools
<1>12. ListOf(Candidates(pools), InPools(pools), Sooner(FlattenSeq(ss)))
  BY <1>8, <1>9, <1>10, FirstOnes
<1> QED BY <1>11, <1>12, ListsIs

(* Shares are numbers, and those of a better rank are at least as great. *)
LEMMA ShareNat ==
    ASSUME NEW w \in Nat, NEW r \in Nat, r > 0
    PROVE  Share(w, r) \in Nat
<1>1. RrfK + r \in Nat /\ RrfK + r > 0 /\ Scale \in Nat
  BY FusionAssumption
<1>2. PICK k : k = RrfK + r
  OBVIOUS
<1>3. Scale \div k \in Nat
  BY <1>1, <1>2
<1>4. PICK q : q = Scale \div k /\ q \in Nat
  BY <1>3
<1>5. w * q \in Nat
  BY <1>4
<1> QED BY <1>2, <1>4, <1>5 DEF Share

LEMMA PoolScoreNat ==
    ASSUME NEW X, NEW pools, Pooled(pools, X), NEW x
    PROVE  PoolScore(pools, x) \in Nat
<1>1. PICK n \in Nat : /\ DOMAIN pools = 1..n
                       /\ \A i \in 1..n : Distinct(pools[i].ids, X) /\ pools[i].weight \in Nat
  BY DEF Pooled
<1>2. PICK f : f = [i \in DOMAIN pools |->
                     IF Contains(pools[i].ids, x)
                     THEN Share(pools[i].weight, RankIn(pools[i].ids, x)) ELSE 0]
  OBVIOUS
<1>3. ASSUME NEW i \in 1..n PROVE f[i] \in Nat
  <2>1. CASE Contains(pools[i].ids, x)
    <3>1. pools[i].ids \in Seq(X) /\ pools[i].weight \in Nat
      BY <1>1 DEF Distinct
    <3>2. \E k \in DOMAIN pools[i].ids : pools[i].ids[k] = x
      BY <2>1, <3>1 DEF Contains
    <3>3. RankIn(pools[i].ids, x) \in DOMAIN pools[i].ids
      BY <3>2 DEF RankIn
    <3>4. RankIn(pools[i].ids, x) \in Nat /\ RankIn(pools[i].ids, x) > 0
      BY <3>1, <3>3
    <3> QED BY <1>1, <1>2, <2>1, <3>1, <3>4, ShareNat
  <2>2. CASE ~Contains(pools[i].ids, x)
    BY <1>1, <1>2, <2>2
  <2> QED BY <2>1, <2>2
<1>4. IsFiniteSet(1..n)
  <2>1. PICK a, b : a = 1 /\ b = n /\ a \in Int /\ b \in Int
    OBVIOUS
  <2> QED BY <2>1, FS_Interval
<1>5. DOMAIN f = 1..n
  BY <1>1, <1>2
<1>6. SumFunctionOnSet(f, 1..n) \in Nat
  BY <1>3, <1>4, SumNat
<1> QED BY <1>2, <1>5, <1>6 DEF PoolScore, AddUp, SumFunction

LEMMA VoteScoreNat ==
    ASSUME NEW found, IsFiniteSet(ToSet(found)), NEW n \in Nat, NEW votes, DOMAIN votes = 1..n,
           \A i \in 1..n : votes[i].weight \in Nat, NEW x
    PROVE  VoteScore(found, votes, x) \in Nat
<1>2. PICK f : f = [i \in DOMAIN votes |->
            IF votes[i].weight = 0 THEN 0
            ELSE Share(votes[i].weight, CompetitionRank(found, votes[i].value, x))]
  OBVIOUS
<1>3. ASSUME NEW i \in 1..n PROVE f[i] \in Nat
  <2>1. PICK T : T = {y \in ToSet(found) : votes[i].value[y] > votes[i].value[x]}
    OBVIOUS
  <2>2. Cardinality(T) \in Nat
    BY <2>1, FS_Subset, FS_CardinalityType
  <2>3. CompetitionRank(found, votes[i].value, x) = 1 + Cardinality(T)
    BY <2>1 DEF CompetitionRank
  <2>4. CompetitionRank(found, votes[i].value, x) \in Nat /\ CompetitionRank(found, votes[i].value, x) > 0
    BY <2>2, <2>3
  <2> QED BY <1>2, <2>4, ShareNat
<1>4. IsFiniteSet(1..n)
  <2>1. PICK a, b : a = 1 /\ b = n /\ a \in Int /\ b \in Int
    OBVIOUS
  <2> QED BY <2>1, FS_Interval
<1>5. DOMAIN f = 1..n
  BY <1>2
<1>6. SumFunctionOnSet(f, 1..n) \in Nat
  BY <1>3, <1>4, SumNat
<1> QED BY <1>2, <1>5, <1>6 DEF VoteScore, AddUp, SumFunction

(* What is fused is found in a pool that votes, and lies by its score,     *)
(* then by its age.                                                        *)
ScoreIn(pools, votes) ==
    [id \in InPools(pools) |-> PoolScore(pools, id) + VoteScore(Candidates(pools), votes, id)]
Voted(votes) ==
    \E n \in Nat : DOMAIN votes = 1..n /\ \A i \in 1..n : votes[i].weight \in Nat
FusedOrder(pools, votes, created, R) ==
    Greater(InPools(pools), ScoreIn(pools, votes), Greater(InPools(pools), created, R))
LEMMA FusedList ==
    ASSUME NEW X, NEW pools, Pooled(pools, X), NEW votes, Voted(votes),
           NEW created, \A x \in X : created[x] \in Int
    PROVE  \E R : ListOf(Fuse(pools, votes, created), InPools(pools),
                         FusedOrder(pools, votes, created, R))
<1>0. PICK n \in Nat : DOMAIN votes = 1..n /\ \A i \in 1..n : votes[i].weight \in Nat
  BY DEF Voted
<1>1. PICK found, S : found = Candidates(pools) /\ S = InPools(pools)
  OBVIOUS
<1>2. PICK R : ListOf(found, S, R)
  BY <1>1, CandidatesFound
<1>3. S \in SUBSET X /\ ToSet(found) = S /\ IsFiniteSet(S)
  BY <1>1, <1>2, CandidatesFound, ListsIs
<1>4. ListOf(Descending(found, created), S, Greater(S, created, R))
  BY <1>2, <1>3, DescendingLists
<1>5. PICK score : score = ScoreIn(pools, votes)
  OBVIOUS
<1>6. \A x \in S : score[x] \in Int
  <2>1. ASSUME NEW x \in S PROVE score[x] = PoolScore(pools, x) + VoteScore(found, votes, x)
    BY <1>1, <1>5 DEF ScoreIn
  <2>2. ASSUME NEW x \in S PROVE PoolScore(pools, x) \in Nat /\ VoteScore(found, votes, x) \in Nat
    BY <1>0, <1>3, PoolScoreNat, VoteScoreNat
  <2> QED BY <2>1, <2>2
<1>7. ListOf(Descending(Descending(found, created), score), S, Greater(S, score, Greater(S, created, R)))
  BY <1>4, <1>6, DescendingLists
<1>8. Fuse(pools, votes, created) = Descending(Descending(found, created), score)
  BY <1>1, <1>3, <1>5 DEF Fuse, ScoreIn
<1> QED BY <1>1, <1>5, <1>7, <1>8 DEF FusedOrder

(***************************************************************************)
(* Matching of skills: fusion of two legs.                                 *)
(***************************************************************************)
LEMMA WholeShares ==
    ASSUME NEW r \in 1..PoolLimit
    PROVE  /\ RrfK + r \in Nat \ {0} /\ Scale \div (RrfK + r) \in Nat
           /\ Scale = (RrfK + r) * (Scale \div (RrfK + r)) /\ Scale > 0
           /\ Share(10, r) = 10 * (Scale \div (RrfK + r))
<1>1. RrfK + r \in Nat \ {0} /\ Scale \in Nat /\ Scale > 0
  BY FusionAssumption
<1>2. Scale % (RrfK + r) = 0
  BY SkillRecordsAssumption
<1>3. PICK k : k = RrfK + r /\ k \in Nat \ {0}
  BY <1>1
<1>4. Scale = k * (Scale \div k) + (Scale % k) /\ Scale \div k \in Nat
  BY <1>1, <1>3
<1>5. Scale = k * (Scale \div k) /\ Scale \div k \in Nat
  BY <1>2, <1>3, <1>4
<1> QED BY <1>1, <1>3, <1>5 DEF Share

LEMMA ShareFalls ==
    ASSUME NEW r \in 1..PoolLimit, NEW s \in 1..PoolLimit, r < s
    PROVE  Share(10, r) \in Nat /\ Share(10, s) \in Nat /\ Share(10, r) > Share(10, s)
           /\ Share(10, s) > 0
<1>1. PICK a, b, x, y : /\ a = RrfK + r /\ b = RrfK + s
                        /\ x = Scale \div (RrfK + r) /\ y = Scale \div (RrfK + s)
  OBVIOUS
<1>2. /\ a \in Nat \ {0} /\ b \in Nat \ {0} /\ x \in Nat /\ y \in Nat /\ a < b
      /\ Scale = a * x /\ Scale = b * y /\ Scale > 0
      /\ Share(10, r) = 10 * x /\ Share(10, s) = 10 * y
  BY <1>1, WholeShares, FusionAssumption
<1>3. y > 0
  <2> SUFFICES ASSUME y = 0 PROVE FALSE
    BY <1>2
  <2> QED BY <1>2
<1>4. x > y
  <2> SUFFICES ASSUME x <= y PROVE FALSE
    BY <1>2
  <2>1. a * x <= a * y
    BY <1>2
  <2>2. a * y < b * y
    BY <1>2, <1>3
  <2>3. a * x \in Int /\ a * y \in Int /\ b * y \in Int
    BY <1>2
  <2> QED BY <1>2, <2>1, <2>2, <2>3
<1> QED BY <1>2, <1>3, <1>4

(* What a leg gives to a skill. *)
Part(leg, s) == IF Contains(leg, s) THEN Share(10, RankIn(leg, s)) ELSE 0
LegOf(q) == Distinct(q, SkillIds) /\ Len(q) <= PoolLimit
Both(v, t) == [i \in DOMAIN <<v, t>> |-> [ids |-> <<v, t>>[i], weight |-> 10]]
FusedLegs(v, t) == Fuse(Both(v, t), <<>>, [s \in SkillIds |-> s])

LEMMA LegRanks ==
    ASSUME NEW leg, LegOf(leg), NEW s
    PROVE  /\ Contains(leg, s) <=> s \in ToSet(leg)
           /\ Contains(leg, s) => RankIn(leg, s) \in 1..PoolLimit /\ Part(leg, s) > 0
           /\ Part(leg, s) \in Nat
<1>1. leg \in Seq(SkillIds) /\ Len(leg) \in Nat /\ DOMAIN leg = 1..Len(leg) /\ Len(leg) <= PoolLimit
      /\ PoolLimit \in Nat
  BY SkillLimitsAssumption DEF LegOf, Distinct
<1>2. Contains(leg, s) <=> s \in ToSet(leg)
  BY <1>1 DEF Contains, ToSet
<1>3. ASSUME Contains(leg, s) PROVE RankIn(leg, s) \in 1..PoolLimit
  <2>1. \E i \in DOMAIN leg : leg[i] = s
    BY <1>1, <1>3 DEF Contains
  <2>2. RankIn(leg, s) \in DOMAIN leg
    BY <2>1 DEF RankIn
  <2> QED BY <1>1, <2>2
<1>4. ASSUME Contains(leg, s) PROVE Part(leg, s) \in Nat /\ Part(leg, s) > 0
  <2>1. PICK r : r = RankIn(leg, s) /\ r \in 1..PoolLimit
    BY <1>3, <1>4
  <2>2. PICK a, x : a = RrfK + r /\ x = Scale \div (RrfK + r)
    OBVIOUS
  <2>3. a \in Nat \ {0} /\ x \in Nat /\ Scale = a * x /\ Scale > 0 /\ Share(10, r) = 10 * x
    BY <2>1, <2>2, WholeShares
  <2>4. x # 0
    BY <2>3
  <2> QED BY <1>4, <2>1, <2>3, <2>4 DEF Part
<1>5. ~Contains(leg, s) => Part(leg, s) = 0
  BY DEF Part
<1> QED BY <1>2, <1>3, <1>4, <1>5

LEMMA AddUpTwo ==
    ASSUME NEW f, DOMAIN f = 1..2, f[1] \in Int, f[2] \in Int
    PROVE  AddUp(f) = f[1] + f[2]
<1>1. IsFiniteSet({}) /\ IsFiniteSet({2})
  BY FS_EmptySet, FS_Singleton
<1>2. SumFunctionOnSet(f, {} \cup {2}) = f[2] + SumFunctionOnSet(f, {})
  BY <1>1, SumAdd
<1>3. SumFunctionOnSet(f, {2} \cup {1}) = f[1] + SumFunctionOnSet(f, {2})
  BY <1>1, SumAdd
<1>4. {} \cup {2} = {2} /\ {2} \cup {1} = 1..2
  OBVIOUS
<1>5. SumFunctionOnSet(f, {}) = 0
  BY SumEmpty
<1>6. AddUp(f) = SumFunctionOnSet(f, 1..2)
  BY DEF AddUp, SumFunction
<1>7. SumFunctionOnSet(f, {2}) = f[2]
  BY <1>2, <1>4, <1>5
<1>8. SumFunctionOnSet(f, 1..2) = f[1] + f[2]
  BY <1>3, <1>4, <1>7
<1> QED BY <1>6, <1>8

LEMMA BothPools ==
    ASSUME NEW v, NEW t, LegOf(v), LegOf(t)
    PROVE  /\ Pooled(Both(v, t), SkillIds)
           /\ InPools(Both(v, t)) = ToSet(v) \cup ToSet(t)
           /\ \A s \in SkillIds : PoolScore(Both(v, t), s) = Part(v, s) + Part(t, s)
<1>1. PICK pools : pools = Both(v, t)
  OBVIOUS
<1>2. /\ DOMAIN pools = 1..2 /\ pools[1].ids = v /\ pools[2].ids = t
      /\ pools[1].weight = 10 /\ pools[2].weight = 10 /\ pools = [i \in 1..2 |-> pools[i]]
  BY <1>1 DEF Both
<1>3. pools \in Seq(ToSet(pools))
  BY <1>2 DEF ToSet
<1>4. \A i \in 1..2 : Distinct(pools[i].ids, SkillIds) /\ pools[i].weight \in Nat
  BY <1>2 DEF LegOf
<1>5. Pooled(pools, SkillIds)
  BY <1>2, <1>3, <1>4 DEF Pooled
<1>6. InPools(pools) = ToSet(v) \cup ToSet(t)
  <2>1. {j \in DOMAIN pools : pools[j].weight # 0} = {1, 2}
    BY <1>2
  <2> QED BY <1>2, <2>1 DEF InPools
<1>7. ASSUME NEW s \in SkillIds PROVE PoolScore(pools, s) = Part(v, s) + Part(t, s)
  <2>1. PICK f : f = [i \in DOMAIN pools |->
                        IF Contains(pools[i].ids, s)
                        THEN Share(pools[i].weight, RankIn(pools[i].ids, s)) ELSE 0]
    OBVIOUS
  <2>2. DOMAIN f = 1..2 /\ f[1] = Part(v, s) /\ f[2] = Part(t, s)
    BY <1>2, <2>1 DEF Part
  <2>3. Part(v, s) \in Nat /\ Part(t, s) \in Nat
    BY LegRanks
  <2>4. AddUp(f) = f[1] + f[2]
    BY <2>2, <2>3, AddUpTwo
  <2> QED BY <2>1, <2>2, <2>4 DEF PoolScore
<1> QED BY <1>1, <1>5, <1>6, <1>7

LEMMA LegsFused ==
    ASSUME NEW v, NEW t, LegOf(v), LegOf(t)
    PROVE  /\ Distinct(FusedLegs(v, t), SkillIds)
           /\ ToSet(FusedLegs(v, t)) = ToSet(v) \cup ToSet(t)
           /\ v = <<>> => FusedLegs(v, t) = t
           /\ \A s, u \in ToSet(v) \cup ToSet(t) :
                 Part(v, s) + Part(t, s) > Part(v, u) + Part(t, u)
                 => RankIn(FusedLegs(v, t), s) < RankIn(FusedLegs(v, t), u)
<1>1. PICK pools, S, fused, created, votes :
        /\ pools = Both(v, t) /\ S = InPools(pools) /\ fused = FusedLegs(v, t)
        /\ created = [s \in SkillIds |-> s] /\ votes = <<>>
  OBVIOUS
<1>2. Pooled(pools, SkillIds) /\ S = ToSet(v) \cup ToSet(t) /\ S \in SUBSET SkillIds
  BY <1>1, BothPools, CandidatesFound
<1>3. \A s \in SkillIds : created[s] \in Int
  BY <1>1, SkillLimitsAssumption DEF SkillIds
<1>4. Voted(votes)
  BY <1>1 DEF Voted
<1>5. PICK R : ListOf(Fuse(pools, votes, created), InPools(pools),
                      FusedOrder(pools, votes, created, R))
  BY <1>2, <1>3, <1>4, FusedList
<1>6. PICK Q : /\ Q = FusedOrder(pools, votes, created, R)
               /\ Q = Greater(S, ScoreIn(pools, votes), Greater(S, created, R))
  BY <1>1 DEF FusedOrder
<1>7. ListOf(fused, S, Q)
  BY <1>1, <1>5, <1>6 DEF FusedLegs
<1>8. ASSUME NEW s \in S PROVE ScoreIn(pools, votes)[s] = Part(v, s) + Part(t, s)
  <2>1. VoteScore(Candidates(pools), votes, s) = 0
    <3>1. PICK f : f = [i \in DOMAIN votes |-> IF votes[i].weight = 0 THEN 0
             ELSE Share(votes[i].weight, CompetitionRank(Candidates(pools), votes[i].value, s))]
      OBVIOUS
    <3>2. DOMAIN f = {}
      BY <1>1, <3>1
    <3> QED BY <3>1, <3>2, SumEmpty DEF VoteScore, AddUp, SumFunction
  <2>2. PoolScore(pools, s) = Part(v, s) + Part(t, s)
    BY <1>1, <1>2, BothPools
  <2>3. Part(v, s) \in Nat /\ Part(t, s) \in Nat
    BY LegRanks
  <2> QED BY <1>1, <2>1, <2>2, <2>3 DEF ScoreIn
<1>9. ASSUME NEW s \in S, NEW u \in S, Part(v, s) + Part(t, s) > Part(v, u) + Part(t, u)
      PROVE <<s, u>> \in Q
  BY <1>6, <1>8, <1>9 DEF Greater
<1>10. \A s, u \in S : <<s, u>> \in Q => RankIn(fused, s) < RankIn(fused, u)
  BY <1>7, RankIs
<1>11. Distinct(fused, SkillIds)
  <2>1. Distinct(fused, S)
    BY <1>7, ListIsDistinct
  <2> QED BY <1>2, <2>1 DEF Distinct
<1>12. ToSet(fused) = S
  BY <1>7, ListsIs
<1>13. ASSUME v = <<>> PROVE fused = t
  <2>1. S = ToSet(t) /\ \A s : ~Contains(v, s)
    BY <1>2, <1>13 DEF ToSet, Contains
  <2>2. ListOf(t, S, OrderOf(t))
    BY <2>1, DistinctLists DEF LegOf
  <2>3. \A s \in S : Part(v, s) = 0 /\ Contains(t, s) /\ Part(t, s) \in Nat
    BY <2>1, LegRanks DEF Part
  <2>4. ASSUME NEW s \in S, NEW u \in S, <<s, u>> \in OrderOf(t) PROVE <<s, u>> \in Q
    <3>1. RankIn(t, s) < RankIn(t, u)
      BY <2>4 DEF OrderOf
    <3>2. RankIn(t, s) \in 1..PoolLimit /\ RankIn(t, u) \in 1..PoolLimit
      BY <2>3, LegRanks
    <3>3. Part(t, s) > Part(t, u)
      BY <2>3, <3>1, <3>2, ShareFalls DEF Part
    <3> QED BY <1>9, <2>3, <3>3
  <2>5. ASSUME NEW s \in S, NEW u \in S, <<s, u>> \in Q PROVE <<s, u>> \in OrderOf(t)
    <3>1. StrictOrder(OrderOf(t), S) /\ StrictOrder(Q, S)
      BY <1>7, <2>2, ListsIs
    <3>2. s # u /\ ~(<<u, s>> \in Q)
      BY <2>5, <3>1 DEF StrictOrder
    <3> QED BY <2>4, <3>1, <3>2 DEF StrictOrder
  <2> QED BY <1>7, <2>2, <2>4, <2>5, SameList
<1> QED BY <1>1, <1>2, <1>9, <1>10, <1>11, <1>12, <1>13

(***************************************************************************)
(* The invariant: the legs read so far are without repetition, and of      *)
(* skills that were active since the call began.                           *)
(***************************************************************************)
ReadLeg(q, ever) == Distinct(q, ever) /\ Len(q) <= PoolLimit
BothRead(m, ever) ==
    /\ {"embedded", "vector", "text"} \subseteq DOMAIN m
    /\ ReadLeg(m.vector, ever) /\ ReadLeg(m.text, ever)
    /\ ~m.embedded => m.vector = <<>>
AnswerOK(m, ever) ==
    /\ "results" \in DOMAIN m /\ Distinct(m.results, ever)
    /\ "fused" \in DOMAIN m => BothRead(m, ever) /\ m.fused = FusedLegs(m.vector, m.text)
CallInv(m, ever) ==
    /\ m.pc \in {"idle", "vector", "text", "rank", "similar", "matched"}
    /\ m.pc = "vector" => /\ {"pc", "embedded", "vector"} \subseteq DOMAIN m /\ m.vector = <<>>
                          /\ "fused" \notin DOMAIN m /\ m.embedded
    /\ m.pc = "text" => /\ {"pc", "embedded", "vector"} \subseteq DOMAIN m /\ ReadLeg(m.vector, ever)
                        /\ "fused" \notin DOMAIN m /\ (~m.embedded => m.vector = <<>>)
    /\ m.pc = "rank" => BothRead(m, ever) /\ "pc" \in DOMAIN m
    /\ m.pc = "matched" => AnswerOK(m, ever)
MatchingInv ==
    /\ procedure \in [SkillIds -> Procedures]
    /\ current \subseteq SkillIds /\ everCurrent \subseteq SkillIds
    /\ ~MatchAt("idle") => current \subseteq everCurrent
    /\ CallInv(matching, everCurrent)

LEMMA SkillNumbers ==
    /\ SkillCount \in Nat /\ PoolLimit \in Nat /\ MatchLimit \in Nat /\ SimilarLimit \in Nat
    /\ SkillCount \in SkillIds /\ SkillIds \subseteq Nat /\ IsFiniteSet(SkillIds)
<1>1. PICK a, b : a = 1 /\ b = SkillCount /\ a \in Int /\ b \in Int
  BY SkillLimitsAssumption
<1>2. IsFiniteSet(a..b)
  BY <1>1, FS_Interval
<1> QED BY <1>1, <1>2, SkillLimitsAssumption DEF SkillIds

LEMMA MatchingStart == MatchingInit => MatchingInv
BY SkillNumbers DEF MatchingInit, MatchingInv, CallInv, MatchAt

LEMMA EmptyLeg == ASSUME NEW ever PROVE ReadLeg(<<>>, ever)
<1>1. PICK e : e = <<>>
  OBVIOUS
<1>2. e \in Seq(ever) /\ Len(e) = 0 /\ DOMAIN e = {}
  BY <1>1
<1> QED BY <1>1, <1>2, SkillNumbers DEF ReadLeg, Distinct

LEMMA DistinctMore ==
    ASSUME NEW S, NEW T, S \subseteq T, NEW q, Distinct(q, S)
    PROVE  Distinct(q, T)
BY DEF Distinct

(* Skills that become active later do not disturb what was read.           *)
LEMMA MoreSkills ==
    ASSUME NEW m, NEW S, NEW T, S \subseteq T, CallInv(m, S)
    PROVE  CallInv(m, T)
<1>1. \A q : Distinct(q, S) => Distinct(q, T)
  BY DistinctMore
<1> QED BY <1>1 DEF CallInv, ReadLeg, BothRead, AnswerOK

LEMMA Leads ==
    ASSUME NEW S, NEW q, Distinct(q, S), NEW limit \in Nat
    PROVE  Distinct(Leading(q, limit), S) /\ Len(Leading(q, limit)) <= limit
<1>1. q \in Seq(S) /\ Len(q) \in Nat
  BY DEF Distinct
<1>2. PICK n : n = IF limit < Len(q) THEN limit ELSE Len(q)
  OBVIOUS
<1>3. n \in 0..Len(q) /\ n <= limit
  BY <1>1, <1>2
<1>4. Leading(q, limit) = SubSeq(q, 1, n)
  BY <1>2 DEF Leading
<1>5. Distinct(SubSeq(q, 1, n), S) /\ Len(SubSeq(q, 1, n)) = n
  BY <1>1, <1>3, Prefix, PrefixDistinct
<1> QED BY <1>3, <1>4, <1>5

LEMMA SeenIsCurrent ==
    ASSUME MatchingInv, NEW buckets
    PROVE  Seen(buckets) \subseteq current /\ current \subseteq SkillIds
BY DEF MatchingInv, Seen

LEMMA NearestLeg ==
    ASSUME NEW S, NEW T, S \subseteq T, IsFiniteSet(S), NEW q \in ByDistance(S)
    PROVE  Distinct(q, T)
<1>1. PICK n : n = Cardinality(S) /\ n \in Nat
  BY FS_CardinalityType
<1>2. q \in [1..n -> S] /\ \A i, j \in 1..n : i # j => q[i] # q[j]
  BY <1>1 DEF ByDistance, SetToSeqs
<1>3. q \in Seq(T) /\ DOMAIN q = 1..n
  BY <1>1, <1>2
<1> QED BY <1>2, <1>3 DEF Distinct

LEMMA RankedLeg ==
    ASSUME MatchingInv, NEW S \in SUBSET SkillIds
    PROVE  Distinct(ByRank(S), S)
<1>1. IsFiniteSet(S) /\ S \in SUBSET Nat
  BY SkillNumbers, FS_Subset
<1>2. \A s \in S : procedure[s]["text"] \in Nat
  BY SkillRecordsAssumption DEF MatchingInv
<1> DEFINE Ranks(s, t) == \/ Strength(s, "text") > Strength(t, "text")
                          \/ Strength(s, "text") = Strength(t, "text") /\ s > t
           R == {p \in S \X S : Ranks(p[1], p[2])}
<1>3. StrictOrder(R, S)
  BY <1>1, <1>2 DEF StrictOrder, Strength
<1>4. ByRank(S) = Arranged(S, R)
  BY DEF ByRank
<1> HIDE DEF R
<1> QED BY <1>1, <1>3, <1>4, ArrangedLists, ListIsDistinct

LEMMA MatchingStep == MatchingInv /\ [MatchingNext]_matchingVars => MatchingInv'
<1> SUFFICES ASSUME MatchingInv, [MatchingNext]_matchingVars PROVE MatchingInv'
  OBVIOUS
<1>1. ASSUME NEW buckets \in Queried, StartMatch(buckets) PROVE MatchingInv'
  <2>1. PICK embedded \in BOOLEAN :
          matching' = [pc |-> IF embedded THEN "vector" ELSE "text", buckets |-> buckets,
                       embedded |-> embedded, vector |-> <<>>]
    BY <1>1 DEF StartMatch
  <2>2. everCurrent' = current /\ current' = current /\ procedure' = procedure
    BY <1>1 DEF StartMatch
  <2>3. ReadLeg(<<>>, everCurrent')
    BY EmptyLeg
  <2>4. CallInv(matching', everCurrent')
    <3>1. DOMAIN matching' = {"pc", "buckets", "embedded", "vector"} /\ matching'.vector = <<>>
          /\ matching'.embedded = embedded /\ matching'.pc = IF embedded THEN "vector" ELSE "text"
      BY <2>1
    <3> QED BY <2>3, <3>1 DEF CallInv
  <2> QED BY <2>2, <2>4 DEF MatchingInv
<1>2. ASSUME NEW s \in SkillIds, NEW versions \in {{}, {SkillCount}}, Replace(s, versions)
      PROVE MatchingInv'
  <2>1. /\ current' = (current \ {s}) \cup versions /\ everCurrent' = everCurrent \cup versions
        /\ matching' = matching /\ procedure' = procedure /\ versions \subseteq SkillIds
        /\ ~MatchAt("idle")
    BY <1>2, SkillNumbers DEF Replace
  <2>2. CallInv(matching', everCurrent')
    BY <2>1, MoreSkills DEF MatchingInv
  <2> QED BY <2>1, <2>2 DEF MatchingInv, MatchAt
<1>3. CASE VectorSkills
  <2>1. PICK nearest \in ByDistance(Seen(matching.buckets)) :
          Saw([matching EXCEPT !.pc = "text", !.vector = Leading(nearest, PoolLimit)])
    BY <1>3 DEF VectorSkills
  <2>2. /\ Seen(matching.buckets) \subseteq everCurrent /\ IsFiniteSet(Seen(matching.buckets))
        /\ MatchAt("vector")
    BY <1>3, SeenIsCurrent, SkillNumbers, FS_Subset DEF MatchingInv, VectorSkills, MatchAt
  <2>3. ReadLeg(Leading(nearest, PoolLimit), everCurrent)
    BY <2>2, NearestLeg, Leads, SkillNumbers DEF ReadLeg
  <2>4. /\ {"pc", "embedded", "vector"} \subseteq DOMAIN matching /\ "fused" \notin DOMAIN matching
        /\ matching.embedded
    BY <2>2 DEF MatchingInv, CallInv, MatchAt
  <2>5. /\ DOMAIN matching' = DOMAIN matching /\ matching'.pc = "text"
        /\ matching'.vector = Leading(nearest, PoolLimit) /\ matching'.embedded
    BY <2>1, <2>4 DEF Saw
  <2>6. CallInv(matching', everCurrent)
    BY <2>3, <2>4, <2>5 DEF CallInv
  <2> QED BY <2>1, <2>2, <2>6 DEF MatchingInv, Saw, MatchAt
<1>4. CASE TextSkills
  <2>1. PICK S, q : /\ S = {s \in Seen(matching.buckets) : Strength(s, "text") > 0}
                    /\ q = Leading(ByRank(S), PoolLimit)
    OBVIOUS
  <2>2. Saw(With(matching, [pc |-> "rank", text |-> q])) /\ MatchAt("text")
    BY <1>4, <2>1 DEF TextSkills
  <2>3. S \in SUBSET SkillIds /\ S \subseteq everCurrent
    BY <2>1, <2>2, SeenIsCurrent DEF MatchingInv, MatchAt
  <2>4. ReadLeg(q, everCurrent)
    BY <2>1, <2>3, RankedLeg, DistinctMore, Leads, SkillNumbers DEF ReadLeg
  <2>5. PICK m : m = matching /\ /\ {"pc", "embedded", "vector"} \subseteq DOMAIN m
                 /\ ReadLeg(m.vector, everCurrent) /\ (~m.embedded => m.vector = <<>>)
    BY <2>2 DEF MatchingInv, CallInv, MatchAt
  <2>6. PICK news : news = [pc |-> "rank", text |-> q]
    OBVIOUS
  <2>7. DOMAIN news = {"pc", "text"} /\ news.pc = "rank" /\ news.text = q
    BY <2>6
  <2>8. PICK n : n = With(m, news)
    OBVIOUS
  <2>9. /\ {"pc", "embedded", "vector", "text"} \subseteq DOMAIN n /\ n.pc = "rank" /\ n.text = q
        /\ n.embedded = m.embedded /\ n.vector = m.vector
    <3>1. /\ DOMAIN n = DOMAIN m \cup DOMAIN news
          /\ \A f \in DOMAIN news : n[f] = news[f]
          /\ \A f \in DOMAIN m \ DOMAIN news : n[f] = m[f]
      BY <2>8 DEF With
    <3>2. /\ {"pc", "text"} \subseteq DOMAIN news
          /\ {"embedded", "vector"} \subseteq DOMAIN m \ DOMAIN news
      BY <2>5, <2>7
    <3> QED BY <2>5, <2>7, <3>1, <3>2
  <2>10. CallInv(n, everCurrent)
    BY <2>4, <2>5, <2>9 DEF CallInv, BothRead
  <2>11. matching' = n /\ UNCHANGED <<procedure, current, everCurrent>>
    BY <2>2, <2>5, <2>6, <2>8 DEF Saw
  <2> QED BY <2>2, <2>10, <2>11 DEF MatchingInv, MatchAt
<1>5. CASE FinishMatch
  <2>1. PICK m : m = matching /\ BothRead(m, everCurrent) /\ m.pc = "rank"
    BY <1>5 DEF FinishMatch, MatchAt, MatchingInv, CallInv
  <2>2. PICK fused : fused = FusedLegs(m.vector, m.text)
    OBVIOUS
  <2>3. Saw(With(m, [pc |-> "matched", fused |-> fused, results |-> Leading(fused, MatchLimit)]))
    BY <1>5, <2>1, <2>2 DEF FinishMatch, FusedLegs, Both, Legs
  <2>4. LegOf(m.vector) /\ LegOf(m.text)
    BY <2>1, DistinctMore DEF BothRead, ReadLeg, LegOf, MatchingInv
  <2>5. /\ Distinct(fused, SkillIds) /\ ToSet(fused) = ToSet(m.vector) \cup ToSet(m.text)
    BY <2>2, <2>4, LegsFused
  <2>6. Distinct(fused, everCurrent)
    <3>1. ToSet(fused) \subseteq everCurrent
      BY <2>1, <2>5, DistinctLists DEF BothRead, ReadLeg
    <3>2. ListOf(fused, ToSet(fused), OrderOf(fused))
      BY <2>5, DistinctLists
    <3> QED BY <3>1, <3>2, ListIsDistinct, DistinctMore
  <2>7. Distinct(Leading(fused, MatchLimit), everCurrent)
    BY <2>6, Leads, SkillNumbers
  <2>8. PICK news : news = [pc |-> "matched", fused |-> fused, results |-> Leading(fused, MatchLimit)]
    OBVIOUS
  <2>9. /\ DOMAIN news = {"pc", "fused", "results"} /\ news.pc = "matched" /\ news.fused = fused
        /\ news.results = Leading(fused, MatchLimit)
    BY <2>8
  <2>10. PICK n : n = With(m, news)
    OBVIOUS
  <2>11. {"embedded", "vector", "text"} \subseteq DOMAIN m
    BY <2>1 DEF BothRead
  <2>12. /\ {"embedded", "vector", "text", "fused", "results"} \subseteq DOMAIN n
         /\ n.pc = "matched" /\ n.fused = fused /\ n.results = Leading(fused, MatchLimit)
         /\ n.embedded = m.embedded /\ n.vector = m.vector /\ n.text = m.text
    <3>1. /\ DOMAIN n = DOMAIN m \cup DOMAIN news
          /\ \A f \in DOMAIN news : n[f] = news[f]
          /\ \A f \in DOMAIN m \ DOMAIN news : n[f] = m[f]
      BY <2>10 DEF With
    <3>2. /\ {"pc", "fused", "results"} \subseteq DOMAIN news
          /\ {"embedded", "vector", "text"} \subseteq DOMAIN m \ DOMAIN news
      BY <2>9, <2>11
    <3> QED BY <2>9, <2>11, <3>1, <3>2
  <2>13. BothRead(n, everCurrent)
    BY <2>1, <2>12 DEF BothRead
  <2>14. CallInv(n, everCurrent)
    BY <2>2, <2>7, <2>12, <2>13 DEF CallInv, AnswerOK
  <2>15. matching' = n /\ UNCHANGED <<procedure, current, everCurrent>>
    BY <2>3, <2>8, <2>10 DEF Saw
  <2> QED BY <2>1, <2>14, <2>15 DEF MatchingInv, MatchAt
<1>6. CASE StoredThenChecked
  <2>1. /\ current' = current \cup {SkillCount} /\ everCurrent' = current'
        /\ matching' = [pc |-> "similar"] /\ procedure' = procedure
    BY <1>6 DEF StoredThenChecked
  <2>2. CallInv(matching', everCurrent')
    BY <2>1 DEF CallInv
  <2> QED BY <2>1, <2>2, SkillNumbers DEF MatchingInv
<1>7. CASE SimilarActive
  <2>1. PICK S : /\ S \subseteq Seen({procedure[SkillCount].bucket})
                 /\ \E nearest \in ByDistance(S), failed \in BOOLEAN :
                      Saw([pc |-> "matched",
                           results |-> IF failed THEN <<>> ELSE Leading(nearest, SimilarLimit)])
    BY <1>7 DEF SimilarActive
  <2>2. MatchAt("similar")
    BY <1>7 DEF SimilarActive
  <2>3. PICK nearest \in ByDistance(S), failed \in BOOLEAN :
                      Saw([pc |-> "matched",
                           results |-> IF failed THEN <<>> ELSE Leading(nearest, SimilarLimit)])
    BY <2>1
  <2>4. S \subseteq everCurrent /\ IsFiniteSet(S)
    BY <2>1, <2>2, SeenIsCurrent, SkillNumbers, FS_Subset DEF MatchingInv, MatchAt
  <2>5. PICK r : r = IF failed THEN <<>> ELSE Leading(nearest, SimilarLimit)
    OBVIOUS
  <2>6. Distinct(r, everCurrent)
    BY <2>4, <2>5, NearestLeg, Leads, SkillNumbers, EmptyLeg DEF ReadLeg
  <2>7. /\ matching' = [pc |-> "matched", results |-> r]
        /\ UNCHANGED <<procedure, current, everCurrent>>
    BY <2>3, <2>5 DEF Saw
  <2>8. CallInv(matching', everCurrent)
    BY <2>6, <2>7 DEF CallInv, AnswerOK
  <2> QED BY <2>2, <2>7, <2>8 DEF MatchingInv, MatchAt
<1>8. CASE UNCHANGED matchingVars
  BY <1>8 DEF matchingVars, MatchingInv, MatchAt
<1> QED BY <1>1, <1>2, <1>3, <1>4, <1>5, <1>6, <1>7, <1>8 DEF MatchingNext

LEMMA MatchingTells == MatchingInv => MatchesAreSound
<1> SUFFICES ASSUME MatchingInv, MatchAt("matched") PROVE MatchesAreSound
  BY DEF MatchesAreSound, MatchedWereActive, MatchRespectsLegs, IsMatch
<1>1. PICK m : m = matching /\ AnswerOK(m, everCurrent)
  BY DEF MatchingInv, CallInv, MatchAt
<1>2. MatchedWereActive
  <2>1. Distinct(m.results, everCurrent)
    BY <1>1 DEF AnswerOK
  <2>2. ToSet(m.results) \subseteq everCurrent
    BY <2>1, DistinctLists
  <2> QED BY <1>1, <2>1, <2>2 DEF MatchedWereActive, Distinct, IsInjective
<1>3. ASSUME IsMatch PROVE MatchRespectsLegs
  <2>1. PICK v, t, fused : /\ v = m.vector /\ t = m.text /\ fused = m.fused
                           /\ fused = FusedLegs(v, t) /\ (~m.embedded => v = <<>>)
    BY <1>1, <1>3 DEF IsMatch, AnswerOK, BothRead
  <2>2. LegOf(v) /\ LegOf(t)
    BY <1>1, <1>3, <2>1, DistinctMore DEF IsMatch, AnswerOK, BothRead, ReadLeg, LegOf, MatchingInv
  <2>3. ToSet(fused) = ToSet(v) \cup ToSet(t) /\ (~m.embedded => fused = t)
    BY <2>1, <2>2, LegsFused
  <2>4. ASSUME NEW s \in ToSet(fused), NEW u \in ToSet(fused), s # u,
               \A leg \in {v, t} : Above(s, u, leg) \/ Neither(s, u, leg)
        PROVE RankIn(fused, s) < RankIn(fused, u)
    <3>1. ASSUME NEW leg \in {v, t}
          PROVE /\ Part(leg, s) \in Nat /\ Part(leg, u) \in Nat
                /\ Part(leg, s) >= Part(leg, u)
                /\ Contains(leg, s) => Part(leg, s) > Part(leg, u)
      <4>1. LegOf(leg) /\ Part(leg, s) \in Nat /\ Part(leg, u) \in Nat
        BY <2>2, LegRanks
      <4>2. CASE Neither(s, u, leg)
        BY <4>1, <4>2 DEF Neither, Part
      <4>3. CASE Above(s, u, leg)
        <5>1. Part(leg, s) > 0
          BY <4>1, <4>3, LegRanks DEF Above
        <5>2. CASE Contains(leg, u)
          <6>1. /\ RankIn(leg, s) \in 1..PoolLimit /\ RankIn(leg, u) \in 1..PoolLimit
                /\ RankIn(leg, s) < RankIn(leg, u)
            BY <4>1, <4>3, <5>2, LegRanks DEF Above
          <6>2. Part(leg, s) > Part(leg, u)
            BY <4>3, <5>2, <6>1, ShareFalls DEF Above, Part
          <6> QED BY <4>1, <6>2
        <5>3. CASE ~Contains(leg, u)
          BY <4>1, <5>1, <5>3 DEF Part
        <5> QED BY <5>2, <5>3
      <4> QED BY <2>4, <4>2, <4>3
    <3>2. Contains(v, s) \/ Contains(t, s)
      BY <2>2, <2>3, <2>4, LegRanks
    <3>3. Part(v, s) + Part(t, s) > Part(v, u) + Part(t, u)
      BY <3>1, <3>2
    <3> QED BY <2>1, <2>2, <2>3, <3>3, LegsFused
  <2> QED BY <1>1, <2>1, <2>3, <2>4 DEF MatchRespectsLegs
<1> QED BY <1>2, <1>3 DEF MatchesAreSound, MatchRespectsLegs

(* Whatever is retired or replaced between the reads of its legs, a match  *)
(* reports skills that were active during the call, once each and in the   *)
(* order of the legs (match_skills and similar_active, skills/service.py). *)
THEOREM MatchesSound == MatchingSpec => []MatchesAreSound
BY MatchingStart, MatchingStep, MatchingTells, PTL DEF MatchingSpec

(***************************************************************************)
(* Sums along a sequence.                                                  *)
(***************************************************************************)
LEMMA AddUpEmpty == ASSUME NEW f, DOMAIN f = {} PROVE AddUp(f) = 0
BY SumEmpty DEF AddUp, SumFunction

LEMMA AddUpNat ==
    ASSUME NEW n \in Nat, NEW f, DOMAIN f = 1..n, \A i \in 1..n : f[i] \in Nat
    PROVE  AddUp(f) \in Nat
<1>1. IsFiniteSet(1..n)
  <2>1. PICK a, b : a = 1 /\ b = n /\ a \in Int /\ b \in Int
    OBVIOUS
  <2> QED BY <2>1, FS_Interval
<1>2. SumFunctionOnSet(f, 1..n) \in Nat
  BY <1>1, SumNat
<1> QED BY <1>2 DEF AddUp, SumFunction

LEMMA AddUpMore ==
    ASSUME NEW n \in Nat, NEW f, NEW g, DOMAIN f = 1..n, DOMAIN g = 1..(n + 1),
           \A i \in 1..n : f[i] = g[i], \A i \in 1..(n + 1) : g[i] \in Nat
    PROVE  AddUp(g) = AddUp(f) + g[n + 1] /\ AddUp(f) \in Nat
<1>1. IsFiniteSet(1..n)
  <2>1. PICK a, b : a = 1 /\ b = n /\ a \in Int /\ b \in Int
    OBVIOUS
  <2> QED BY <2>1, FS_Interval
<1>2. PICK S, x : S = 1..n /\ x = n + 1
  OBVIOUS
<1>3. x \notin S /\ S \cup {x} = 1..(n + 1) /\ \A i \in S \cup {x} : g[i] \in Int
  BY <1>2
<1>4. SumFunctionOnSet(g, S \cup {x}) = g[x] + SumFunctionOnSet(g, S)
  BY <1>1, <1>2, <1>3, SumAdd
<1>5. SumFunctionOnSet(f, S) = SumFunctionOnSet(g, S)
  BY <1>1, <1>2, SumSame
<1>6. \A i \in 1..n : f[i] \in Nat
  OBVIOUS
<1>7. SumFunctionOnSet(f, S) \in Nat /\ AddUp(f) \in Nat
  BY <1>2, <1>6, AddUpNat DEF AddUp, SumFunction
<1>8. g[x] \in Nat /\ DOMAIN f = S /\ DOMAIN g = S \cup {x}
  BY <1>2, <1>3
<1>9. AddUp(f) = SumFunctionOnSet(f, S) /\ AddUp(g) = SumFunctionOnSet(g, S \cup {x})
  BY <1>8 DEF AddUp, SumFunction
<1> QED BY <1>2, <1>4, <1>5, <1>7, <1>8, <1>9

(***************************************************************************)
(* Items: [id, chars].                                                     *)
(***************************************************************************)
Item(M) == [id : M, chars : Nat]

LEMMA CharsGrow ==
    ASSUME NEW M, NEW items \in Seq(Item(M)), NEW item \in Item(M)
    PROVE  /\ Append(items, item) \in Seq(Item(M)) /\ Len(Append(items, item)) = Len(items) + 1
           /\ Chars(items) \in Nat /\ Chars(Append(items, item)) = Chars(items) + item.chars
           /\ ItemIds(Append(items, item)) = ItemIds(items) \cup {item.id}
           /\ ItemIds(items) \in SUBSET M
<1>1. PICK n : n = Len(items) /\ n \in Nat /\ DOMAIN items = 1..n
  OBVIOUS
<1>2. PICK more : more = Append(items, item)
  OBVIOUS
<1>3. /\ more \in Seq(Item(M)) /\ DOMAIN more = 1..(n + 1) /\ more[n + 1] = item
      /\ \A i \in 1..n : more[i] = items[i]
  BY <1>1, <1>2
<1>4. \A i \in 1..(n + 1) : more[i] \in Item(M) /\ more[i].chars \in Nat /\ more[i].id \in M
  <2>1. \A i \in 1..(n + 1) : more[i] \in Item(M)
    <3>1. Len(more) = n + 1
      BY <1>1, <1>2
    <3> QED BY <1>3, <3>1
  <2>2. \A it \in Item(M) : it.chars \in Nat /\ it.id \in M
    BY DEF Item
  <2> QED BY <2>1, <2>2
<1>5. PICK f, g : /\ f = [i \in DOMAIN items |-> items[i].chars]
                  /\ g = [i \in DOMAIN more |-> more[i].chars]
  OBVIOUS
<1>6. AddUp(g) = AddUp(f) + g[n + 1] /\ AddUp(f) \in Nat
  <2>1. DOMAIN f = 1..n /\ DOMAIN g = 1..(n + 1)
    BY <1>1, <1>3, <1>5
  <2>2. \A i \in 1..n : f[i] = g[i]
    BY <1>1, <1>3, <1>5
  <2>3. \A i \in 1..(n + 1) : g[i] \in Nat
    BY <1>3, <1>4, <1>5
  <2> QED BY <1>1, <2>1, <2>2, <2>3, AddUpMore
<1>7. g[n + 1] = item.chars
  BY <1>1, <1>3, <1>5
<1>8. ItemIds(more) = ItemIds(items) \cup {item.id}
  <2>1. 1..(n + 1) = (1..n) \cup {n + 1}
    BY <1>1
  <2> QED BY <1>1, <1>3, <2>1 DEF ItemIds
<1>9. ItemIds(items) \in SUBSET M
  BY <1>1, <1>3, <1>4 DEF ItemIds
<1>10. Len(more) = n + 1
  BY <1>1, <1>2
<1> QED BY <1>1, <1>2, <1>3, <1>5, <1>6, <1>7, <1>8, <1>9, <1>10 DEF Chars

LEMMA ItemsOf ==
    ASSUME NEW M, NEW items \in Seq(Item(M))
    PROVE  /\ Chars(items) \in Nat /\ Tokens(items) \in Nat /\ ItemIds(items) \in SUBSET M
           /\ \A i \in DOMAIN items : items[i].id \in M /\ items[i].chars \in Nat
<1>1. PICK n : n = Len(items) /\ n \in Nat /\ DOMAIN items = 1..n
  OBVIOUS
<1>2. \A i \in 1..n : items[i] \in Item(M) /\ items[i].chars \in Nat /\ items[i].id \in M
  <2>1. \A i \in 1..n : items[i] \in Item(M)
    BY <1>1
  <2>2. \A it \in Item(M) : it.chars \in Nat /\ it.id \in M
    BY DEF Item
  <2> QED BY <2>1, <2>2
<1>3. PICK f, g : /\ f = [i \in DOMAIN items |-> items[i].chars]
                  /\ g = [i \in DOMAIN items |-> EstimateTokens(items[i].chars)]
  OBVIOUS
<1>4. \A i \in 1..n : f[i] \in Nat /\ g[i] \in Nat
  <2>1. \A c \in Nat : EstimateTokens(c) \in Nat
    BY DEF EstimateTokens
  <2> QED BY <1>1, <1>2, <1>3, <2>1
<1>5. AddUp(f) \in Nat /\ AddUp(g) \in Nat
  BY <1>1, <1>3, <1>4, AddUpNat
<1> QED BY <1>1, <1>2, <1>3, <1>5 DEF Chars, Tokens, ItemIds

LEMMA NoItems ==
    /\ Chars(<<>>) = 0 /\ ItemIds(<<>>) = {} /\ Len(<<>>) = 0
    /\ \A M : <<>> \in Seq(Item(M))
<1>1. PICK none : none = <<>>
  OBVIOUS
<1>2. DOMAIN none = {} /\ Len(none) = 0 /\ \A M : none \in Seq(Item(M))
  BY <1>1
<1>3. Chars(none) = 0
  <2>1. PICK f : f = [i \in DOMAIN none |-> none[i].chars]
    OBVIOUS
  <2> QED BY <1>2, <2>1, AddUpEmpty DEF Chars
<1>4. ItemIds(none) = {}
  BY <1>2 DEF ItemIds
<1> QED BY <1>1, <1>2, <1>3, <1>4

(***************************************************************************)
(* pack_by_token_budget: what is packed is a prefix.                       *)
(***************************************************************************)
PackState(X) == [kept : Seq(X), used : Nat, open : BOOLEAN]
PackStart == [kept |-> <<>>, used |-> 0, open |-> TRUE]

LEMMA PackHitIs ==
    ASSUME NEW X, NEW maxItems, NEW maxTokens, NEW mem, \A x \in X : mem[x].chars \in Nat,
           NEW p \in PackState(X), NEW x \in X
    PROVE  /\ PackHit(p, x, maxItems, maxTokens, mem) \in PackState(X)
           /\ EstimateTokens(mem[x].chars) \in Nat
<1>1. EstimateTokens(mem[x].chars) \in Nat
  <2>1. \A c \in Nat : EstimateTokens(c) \in Nat
    BY DEF EstimateTokens
  <2> QED BY <2>1
<1>2. p.kept \in Seq(X) /\ p.used \in Nat /\ p.open \in BOOLEAN
  BY DEF PackState
<1>3. Append(p.kept, x) \in Seq(X) /\ p.used + EstimateTokens(mem[x].chars) \in Nat
  BY <1>1, <1>2
<1> QED BY <1>1, <1>2, <1>3 DEF PackHit, PackState

PackSteps(t, X, ids, maxItems, maxTokens, mem) ==
    /\ t \in [0..Len(ids) -> PackState(X)] /\ t[0] = PackStart
    /\ \A n \in 0..(Len(ids) - 1) :
          t[n + 1] = PackHit(t[n], ids[n + 1], maxItems, maxTokens, mem)
    /\ PackByTokenBudget(ids, maxItems, maxTokens, mem) = t[Len(ids)].kept
LEMMA PackTrace ==
    ASSUME NEW X, NEW ids \in Seq(X), NEW maxItems, NEW maxTokens, NEW mem,
           \A x \in X : mem[x].chars \in Nat
    PROVE  \E t : PackSteps(t, X, ids, maxItems, maxTokens, mem)
<1>0. DOMAIN ids = 1..Len(ids) /\ Len(ids) \in Nat
  OBVIOUS
<1>1. PICK A, base : A = PackState(X) /\ base = PackStart
  OBVIOUS
<1> DEFINE Op(p, x) == PackHit(p, x, maxItems, maxTokens, mem)
           F == [q \in A \X X |-> Op(q[1], q[2])]
           Body(h) == [u \in SUBSET DOMAIN ids |-> IF u = {} THEN base
                                                   ELSE Op(h[u \ {Max(u)}], ids[Max(u)])]
           iter == CHOOSE h : h = Body(h)
<1>2. PackByTokenBudget(ids, maxItems, maxTokens, mem) = iter[DOMAIN ids].kept
  BY <1>1 DEF PackByTokenBudget, FoldLeft, MapThenFoldSet, PackStart
<1>3. base \in A /\ F \in [A \X X -> A]
  <2>1. PackStart \in PackState(X)
    BY DEF PackStart, PackState
  <2>2. \A p \in A, x \in X : Op(p, x) \in A
    BY <1>1, PackHitIs
  <2> HIDE DEF Op
  <2> QED BY <1>1, <2>1, <2>2
<1>4. \A p \in A, x \in X : F[<<p, x>>] = Op(p, x)
  OBVIOUS
<1> HIDE DEF F, Op
<1>5. PICK g : FoldTable(F, base, ids, A, g)
  BY <1>3, FoldExists
<1>6. g = Body(g)
  <2>1. ASSUME NEW u \in SUBSET DOMAIN ids, u # {}
        PROVE g[u] = Op(g[u \ {Max(u)}], ids[Max(u)])
    <3>1. Max(u) \in u /\ u \ {Max(u)} \in SUBSET DOMAIN ids
      BY <1>0, <2>1, LastPosition
    <3>2. g[u] = F[<<g[u \ {Max(u)}], ids[Max(u)]>>] /\ g[u \ {Max(u)}] \in A
      BY <1>5, <2>1, <3>1 DEF FoldTable, FoldedBy
    <3>3. ids[Max(u)] \in X
      BY <2>1, <3>1
    <3> QED BY <1>4, <3>2, <3>3
  <2>2. g[{}] = base /\ g = [u \in SUBSET DOMAIN ids |-> g[u]]
    BY <1>5 DEF FoldTable, FoldedBy
  <2> QED BY <2>1, <2>2
<1> HIDE DEF Body
<1>7. PICK h : h = iter /\ h = Body(h)
  BY <1>6
<1> USE DEF Body
<1>8. Table(h, F, base, ids, A)
  <2>1. h[{}] = base
    BY <1>7
  <2>2. ASSUME NEW u \in SUBSET DOMAIN ids, u # {}, h[u \ {Max(u)}] \in A
        PROVE h[u] = F[<<h[u \ {Max(u)}], ids[Max(u)]>>]
    <3>1. h[u] = Op(h[u \ {Max(u)}], ids[Max(u)])
      BY <1>7, <2>2
    <3>2. Max(u) \in u
      BY <1>0, <2>2, LastPosition
    <3>3. ids[Max(u)] \in X
      BY <2>2, <3>2
    <3> QED BY <1>4, <2>2, <3>1, <3>3
  <2> QED BY <2>1, <2>2 DEF Table
<1> HIDE DEF Body, iter
<1>9. PICK t : Trace(t, F, base, ids, A, h[DOMAIN ids])
  BY <1>3, <1>8, TableTraces
<1>10. ASSUME NEW n \in 0..(Len(ids) - 1)
       PROVE t[n + 1] = PackHit(t[n], ids[n + 1], maxItems, maxTokens, mem)
  <2>1. n \in 0..Len(ids) /\ n + 1 \in DOMAIN ids
    BY <1>0
  <2>2. t[n] \in A /\ ids[n + 1] \in X
    BY <1>9, <2>1 DEF Trace
  <2>3. t[n + 1] = F[<<t[n], ids[n + 1]>>]
    BY <1>9 DEF Trace
  <2> QED BY <1>4, <2>2, <2>3 DEF Op
<1> QED BY <1>1, <1>2, <1>7, <1>9, <1>10 DEF Trace, PackSteps

(***************************************************************************)
(* Taking items: those there are stay, each that is taken is an item that  *)
(* was offered, clipped to the room left.                                  *)
(***************************************************************************)
TakeState(M) == [items : Seq(Item(M)), open : BOOLEAN]
TakeStart(taken) == [items |-> taken, open |-> TRUE]

LEMMA Clips ==
    ASSUME NEW c \in Nat, NEW r \in Nat
    PROVE  Clip(c, r) \in Nat /\ Clip(c, r) <= c /\ Clip(c, r) <= r
BY DEF Clip

TakesAs(t, n, item, c, maxItems, maxChars) ==
    /\ c \in Nat /\ c # 0 /\ c <= Less(maxChars, Chars(t.items))
    /\ n.items = Append(t.items, [id |-> item.id, chars |-> c])
    /\ Chars(n.items) = Chars(t.items) + c
    /\ ItemIds(n.items) = ItemIds(t.items) \cup {item.id}
    /\ Len(n.items) = Len(t.items) + 1 /\ Len(t.items) < maxItems
Takes(t, n, item, maxItems, maxChars) ==
    n.items = t.items \/ \E c : TakesAs(t, n, item, c, maxItems, maxChars)
LEMMA TakeItemIs ==
    ASSUME NEW M, NEW maxItems \in Nat, NEW maxChars \in Nat,
           NEW t \in TakeState(M), NEW item \in Item(M)
    PROVE  /\ TakeItem(t, item, maxItems, maxChars) \in TakeState(M)
           /\ Takes(t, TakeItem(t, item, maxItems, maxChars), item, maxItems, maxChars)
<1>1. PICK n : n = TakeItem(t, item, maxItems, maxChars)
  OBVIOUS
<1>2. t.items \in Seq(Item(M)) /\ t.open \in BOOLEAN
  BY DEF TakeState
<1>3. Chars(t.items) \in Nat /\ Len(t.items) \in Nat
  BY <1>2, ItemsOf
<1>4. PICK room, c : room = Less(maxChars, Chars(t.items)) /\ c = Clip(item.chars, room)
  OBVIOUS
<1>5. item.chars \in Nat /\ item.id \in M /\ room \in Nat
  BY <1>3, <1>4 DEF Item, Less
<1>6. c \in Nat /\ c <= room
  BY <1>4, <1>5, Clips
<1>7. CASE ~t.open \/ Len(t.items) >= maxItems \/ c = 0
  <2>1. n = [t EXCEPT !.open = FALSE]
    BY <1>1, <1>4, <1>7 DEF TakeItem
  <2>2. n \in TakeState(M) /\ n.items = t.items
    BY <2>1 DEF TakeState
  <2> QED BY <1>1, <2>2 DEF Takes
<1>8. CASE ~(~t.open \/ Len(t.items) >= maxItems \/ c = 0)
  <2>1. PICK it : it = [id |-> item.id, chars |-> c]
    OBVIOUS
  <2>2. n = [t EXCEPT !.items = Append(t.items, it)]
    BY <1>1, <1>4, <1>8, <2>1 DEF TakeItem
  <2>3. it \in Item(M) /\ it.chars = c /\ it.id = item.id
    BY <1>5, <1>6, <2>1 DEF Item
  <2>4. /\ Append(t.items, it) \in Seq(Item(M)) /\ Len(Append(t.items, it)) = Len(t.items) + 1
        /\ Chars(Append(t.items, it)) = Chars(t.items) + c
        /\ ItemIds(Append(t.items, it)) = ItemIds(t.items) \cup {item.id}
    BY <1>2, <2>3, CharsGrow
  <2>5. n \in TakeState(M) /\ n.items = Append(t.items, it)
    BY <2>2, <2>4 DEF TakeState
  <2>6. Len(t.items) < maxItems /\ c # 0
    BY <1>3, <1>8
  <2>7. TakesAs(t, n, item, c, maxItems, maxChars)
    BY <1>4, <1>6, <2>1, <2>4, <2>5, <2>6 DEF TakesAs
  <2> QED BY <1>1, <2>5, <2>7 DEF Takes
<1> QED BY <1>7, <1>8

TakeSteps(t, M, taken, items, maxItems, maxChars) ==
    /\ t \in [0..Len(items) -> TakeState(M)] /\ t[0] = TakeStart(taken)
    /\ \A n \in 0..(Len(items) - 1) : t[n + 1] = TakeItem(t[n], items[n + 1], maxItems, maxChars)
    /\ TakeItems(taken, items, maxItems, maxChars) = t[Len(items)].items
LEMMA TakeTrace ==
    ASSUME NEW M, NEW taken \in Seq(Item(M)), NEW items \in Seq(Item(M)),
           NEW maxItems \in Nat, NEW maxChars \in Nat
    PROVE  \E t : TakeSteps(t, M, taken, items, maxItems, maxChars)
<1>x. PICK I : I = Item(M)
  OBVIOUS
<1>0. DOMAIN items = 1..Len(items) /\ Len(items) \in Nat /\ items \in Seq(I)
  BY <1>x
<1>1. PICK A, base : A = TakeState(M) /\ base = TakeStart(taken)
  OBVIOUS
<1> DEFINE Op(p, x) == TakeItem(p, x, maxItems, maxChars)
           F == [q \in A \X I |-> Op(q[1], q[2])]
           Body(h) == [u \in SUBSET DOMAIN items |-> IF u = {} THEN base
                                                   ELSE Op(h[u \ {Max(u)}], items[Max(u)])]
           iter == CHOOSE h : h = Body(h)
<1>2. TakeItems(taken, items, maxItems, maxChars) = iter[DOMAIN items].items
  BY <1>1 DEF TakeItems, FoldLeft, MapThenFoldSet, TakeStart
<1>3. base \in A /\ F \in [A \X I -> A]
  <2>1. TakeStart(taken) \in TakeState(M)
    BY DEF TakeStart, TakeState
  <2>2. \A p \in A, x \in I : Op(p, x) \in A
    BY <1>1, <1>x, TakeItemIs
  <2> HIDE DEF Op
  <2> QED BY <1>1, <2>1, <2>2
<1>4. \A p \in A, x \in I : F[<<p, x>>] = Op(p, x)
  OBVIOUS
<1> HIDE DEF F, Op
<1>5. PICK g : FoldTable(F, base, items, A, g)
  BY <1>0, <1>3, FoldExists
<1>6. g = Body(g)
  <2>1. ASSUME NEW u \in SUBSET DOMAIN items, u # {}
        PROVE g[u] = Op(g[u \ {Max(u)}], items[Max(u)])
    <3>1. Max(u) \in u /\ u \ {Max(u)} \in SUBSET DOMAIN items
      BY <1>0, <2>1, LastPosition
    <3>2. g[u] = F[<<g[u \ {Max(u)}], items[Max(u)]>>] /\ g[u \ {Max(u)}] \in A
      BY <1>5, <2>1, <3>1 DEF FoldTable, FoldedBy
    <3>3. items[Max(u)] \in I
      BY <1>0, <2>1, <3>1
    <3> QED BY <1>4, <3>2, <3>3
  <2>2. g[{}] = base /\ g = [u \in SUBSET DOMAIN items |-> g[u]]
    BY <1>5 DEF FoldTable, FoldedBy
  <2> QED BY <2>1, <2>2
<1> HIDE DEF Body
<1>7. PICK h : h = iter /\ h = Body(h)
  BY <1>6
<1> USE DEF Body
<1>8. Table(h, F, base, items, A)
  <2>1. h[{}] = base
    BY <1>7
  <2>2. ASSUME NEW u \in SUBSET DOMAIN items, u # {}, h[u \ {Max(u)}] \in A
        PROVE h[u] = F[<<h[u \ {Max(u)}], items[Max(u)]>>]
    <3>1. h[u] = Op(h[u \ {Max(u)}], items[Max(u)])
      BY <1>7, <2>2
    <3>2. Max(u) \in u
      BY <1>0, <2>2, LastPosition
    <3>3. items[Max(u)] \in I
      BY <1>0, <2>2, <3>2
    <3> QED BY <1>4, <2>2, <3>1, <3>3
  <2> QED BY <2>1, <2>2 DEF Table
<1> HIDE DEF Body, iter
<1>9. PICK t : Trace(t, F, base, items, A, h[DOMAIN items])
  BY <1>0, <1>3, <1>8, TableTraces
<1>10. ASSUME NEW n \in 0..(Len(items) - 1)
       PROVE t[n + 1] = TakeItem(t[n], items[n + 1], maxItems, maxChars)
  <2>1. n \in 0..Len(items) /\ n + 1 \in DOMAIN items
    BY <1>0
  <2>2. t[n] \in A /\ items[n + 1] \in I
    BY <1>0, <1>9, <2>1 DEF Trace
  <2>3. t[n + 1] = F[<<t[n], items[n + 1]>>]
    BY <1>9 DEF Trace
  <2> QED BY <1>4, <2>2, <2>3 DEF Op
<1> QED BY <1>1, <1>2, <1>7, <1>9, <1>10 DEF Trace, TakeSteps

(***************************************************************************)
(* The snapshot: the ids it keeps are those it was offered, in order.      *)
(***************************************************************************)
AssembleState(M) == [kept : Seq(Item(M)), exhausted : BOOLEAN, tokens : Nat]
AssembleStart == [kept |-> <<>>, exhausted |-> FALSE, tokens |-> 0]
Budgeted(b) == b.items \in Nat /\ b.chars \in Nat /\ b.floor \in Nat

KeepsAs(t, n, id, c, budget, mem) ==
    /\ c \in Nat /\ n.kept = Append(t.kept, [id |-> id, chars |-> c]) /\ ~t.exhausted
    /\ Len(n.kept) = Len(t.kept) + 1 /\ Len(t.kept) < budget.items
    /\ n.tokens = t.tokens + EstimateTokens(mem[id].chars)
    /\ Fits(t.tokens, EstimateTokens(mem[id].chars), budget.tokens)
Keeps(t, n, id, budget, mem) ==
    \/ n.exhausted /\ n.kept = t.kept /\ n.tokens = t.tokens
    \/ \E c : KeepsAs(t, n, id, c, budget, mem)
LEMMA AssembleNextIs ==
    ASSUME NEW M, NEW mem, \A m \in M : mem[m].chars \in Nat, NEW budget, Budgeted(budget),
           NEW t \in AssembleState(M), NEW id \in M, Chars(t.kept) <= budget.chars
    PROVE  /\ AssembleNext(t, id, budget, mem) \in AssembleState(M)
           /\ Chars(AssembleNext(t, id, budget, mem).kept) <= budget.chars
           /\ Keeps(t, AssembleNext(t, id, budget, mem), id, budget, mem)
<1>1. PICK n : n = AssembleNext(t, id, budget, mem)
  OBVIOUS
<1>2. t.kept \in Seq(Item(M)) /\ t.exhausted \in BOOLEAN /\ t.tokens \in Nat
  BY DEF AssembleState
<1>3. Chars(t.kept) \in Nat /\ Len(t.kept) \in Nat
  BY <1>2, ItemsOf
<1>4. PICK chars, room, cost : /\ chars = mem[id].chars /\ room = budget.chars - Chars(t.kept)
                               /\ cost = EstimateTokens(mem[id].chars)
  OBVIOUS
<1>5. chars \in Nat /\ room \in Nat /\ cost \in Nat
  <2>1. chars \in Nat /\ room \in Nat
    BY <1>3, <1>4 DEF Budgeted
  <2> QED BY <1>4, <2>1 DEF EstimateTokens
<1>6. PICK stops : stops = (\/ t.exhausted \/ Len(t.kept) >= budget.items
                            \/ ~Fits(t.tokens, cost, budget.tokens)
                            \/ chars > room /\ room < budget.floor)
  OBVIOUS
<1>7. CASE stops
  <2>1. n = [t EXCEPT !.exhausted = TRUE]
    BY <1>1, <1>4, <1>6, <1>7 DEF AssembleNext
  <2>2. n \in AssembleState(M) /\ n.kept = t.kept /\ n.exhausted /\ n.tokens = t.tokens
    BY <2>1 DEF AssembleState
  <2> QED BY <1>1, <2>2 DEF Keeps
<1>8. CASE ~stops
  <2>1. PICK c, it : c = AtMost(chars, room) /\ it = [id |-> id, chars |-> c]
    OBVIOUS
  <2>2. n = [kept |-> Append(t.kept, it), exhausted |-> chars > room, tokens |-> t.tokens + cost]
    BY <1>1, <1>4, <1>6, <1>8, <2>1 DEF AssembleNext
  <2>3. c \in Nat /\ c <= room /\ it \in Item(M) /\ it.chars = c
    BY <1>5, <2>1 DEF AtMost, Item
  <2>4. /\ Append(t.kept, it) \in Seq(Item(M)) /\ Len(Append(t.kept, it)) = Len(t.kept) + 1
        /\ Chars(Append(t.kept, it)) = Chars(t.kept) + c
    BY <1>2, <2>3, CharsGrow
  <2>5. /\ n \in AssembleState(M) /\ n.kept = Append(t.kept, it) /\ n.tokens = t.tokens + cost
    BY <1>2, <1>5, <2>2, <2>4 DEF AssembleState
  <2>6. Chars(n.kept) <= budget.chars
    BY <1>3, <1>4, <2>3, <2>4, <2>5 DEF Budgeted
  <2>7. Len(t.kept) < budget.items /\ ~t.exhausted /\ Fits(t.tokens, cost, budget.tokens)
    BY <1>3, <1>6, <1>8 DEF Budgeted
  <2>8. KeepsAs(t, n, id, c, budget, mem)
    BY <1>4, <2>1, <2>3, <2>4, <2>5, <2>7 DEF KeepsAs
  <2> QED BY <1>1, <2>5, <2>6, <2>8 DEF Keeps
<1> QED BY <1>7, <1>8

AssembleRoom(M, budget) == {t \in AssembleState(M) : Chars(t.kept) <= budget.chars}
AssembleSteps(t, M, order, budget, mem) ==
    /\ t \in [0..Len(order) -> AssembleRoom(M, budget)] /\ t[0] = AssembleStart
    /\ \A n \in 0..(Len(order) - 1) : t[n + 1] = AssembleNext(t[n], order[n + 1], budget, mem)
    /\ Assemble(order, budget, mem) = t[Len(order)]
LEMMA AssembleTrace ==
    ASSUME NEW M, NEW order \in Seq(M), NEW budget, Budgeted(budget), NEW mem,
           \A m \in M : mem[m].chars \in Nat
    PROVE  \E t : AssembleSteps(t, M, order, budget, mem)
<1>0. DOMAIN order = 1..Len(order) /\ Len(order) \in Nat
  OBVIOUS
<1>1. PICK A, base : A = AssembleRoom(M, budget) /\ base = AssembleStart
  OBVIOUS
<1> DEFINE Op(p, x) == AssembleNext(p, x, budget, mem)
           F == [q \in A \X M |-> Op(q[1], q[2])]
           Body(h) == [u \in SUBSET DOMAIN order |-> IF u = {} THEN base
                                                   ELSE Op(h[u \ {Max(u)}], order[Max(u)])]
           iter == CHOOSE h : h = Body(h)
<1>2. Assemble(order, budget, mem) = iter[DOMAIN order]
  BY <1>1 DEF Assemble, FoldLeft, MapThenFoldSet, AssembleStart
<1>3. base \in A /\ F \in [A \X M -> A]
  <2>1. AssembleStart \in AssembleRoom(M, budget)
    <3>1. PICK none : none = <<>> /\ none \in Seq(Item(M)) /\ Chars(none) = 0
      BY NoItems
    <3> QED BY <3>1 DEF AssembleStart, AssembleState, AssembleRoom, Budgeted
  <2>2. \A p \in A, x \in M : Op(p, x) \in A
    BY <1>1, AssembleNextIs DEF AssembleRoom
  <2> HIDE DEF Op
  <2> QED BY <1>1, <2>1, <2>2
<1>4. \A p \in A, x \in M : F[<<p, x>>] = Op(p, x)
  OBVIOUS
<1> HIDE DEF F, Op
<1>5. PICK g : FoldTable(F, base, order, A, g)
  BY <1>3, FoldExists
<1>6. g = Body(g)
  <2>1. ASSUME NEW u \in SUBSET DOMAIN order, u # {}
        PROVE g[u] = Op(g[u \ {Max(u)}], order[Max(u)])
    <3>1. Max(u) \in u /\ u \ {Max(u)} \in SUBSET DOMAIN order
      BY <1>0, <2>1, LastPosition
    <3>2. g[u] = F[<<g[u \ {Max(u)}], order[Max(u)]>>] /\ g[u \ {Max(u)}] \in A
      BY <1>5, <2>1, <3>1 DEF FoldTable, FoldedBy
    <3>3. order[Max(u)] \in M
      BY <2>1, <3>1
    <3> QED BY <1>4, <3>2, <3>3
  <2>2. g[{}] = base /\ g = [u \in SUBSET DOMAIN order |-> g[u]]
    BY <1>5 DEF FoldTable, FoldedBy
  <2> QED BY <2>1, <2>2
<1> HIDE DEF Body
<1>7. PICK h : h = iter /\ h = Body(h)
  BY <1>6
<1> USE DEF Body
<1>8. Table(h, F, base, order, A)
  <2>1. h[{}] = base
    BY <1>7
  <2>2. ASSUME NEW u \in SUBSET DOMAIN order, u # {}, h[u \ {Max(u)}] \in A
        PROVE h[u] = F[<<h[u \ {Max(u)}], order[Max(u)]>>]
    <3>1. h[u] = Op(h[u \ {Max(u)}], order[Max(u)])
      BY <1>7, <2>2
    <3>2. Max(u) \in u
      BY <1>0, <2>2, LastPosition
    <3>3. order[Max(u)] \in M
      BY <2>2, <3>2
    <3> QED BY <1>4, <2>2, <3>1, <3>3
  <2> QED BY <2>1, <2>2 DEF Table
<1> HIDE DEF Body, iter
<1>9. PICK t : Trace(t, F, base, order, A, h[DOMAIN order])
  BY <1>3, <1>8, TableTraces
<1>10. ASSUME NEW n \in 0..(Len(order) - 1)
       PROVE t[n + 1] = AssembleNext(t[n], order[n + 1], budget, mem)
  <2>1. n \in 0..Len(order) /\ n + 1 \in DOMAIN order
    BY <1>0
  <2>2. t[n] \in A /\ order[n + 1] \in M
    BY <1>9, <2>1 DEF Trace
  <2>3. t[n + 1] = F[<<t[n], order[n + 1]>>]
    BY <1>9 DEF Trace
  <2> QED BY <1>4, <2>2, <2>3 DEF Op
<1> QED BY <1>1, <1>2, <1>7, <1>9, <1>10 DEF Trace, AssembleSteps

(***************************************************************************)
(* recall and context: the corpus, and its memories in the orders the      *)
(* statements and the packing use.                                         *)
(***************************************************************************)
LEMMA CorpusIs ==
    ASSUME memory \in Corpora
    PROVE  /\ IsFiniteSet(Memories) /\ Memories \in SUBSET Nat
           /\ \A S \in SUBSET Memories : IsFiniteSet(S) /\ S \in SUBSET Int
           /\ \A m \in Memories :
                /\ memory[m].category \in Categories
                /\ memory[m].project \in Projects \cup {Global}
                /\ \A field \in Numbers : memory[m][field] \in Nat
<1>1. IsFiniteSet(Memories) /\ Memories \in SUBSET Nat
  BY ReadsAssumption DEF Memories
<1>2. ASSUME NEW S \in SUBSET Memories PROVE IsFiniteSet(S) /\ S \in SUBSET Int
  <2>1. S \in SUBSET Int
    BY <1>1
  <2> QED BY <1>1, <2>1, FS_Subset
<1> QED BY <1>1, <1>2, ReadsAssumption DEF Memories

LEMMA FieldsAre ==
    ASSUME memory \in Corpora, NEW field \in Numbers
    PROVE  /\ \A m \in Memories : Field(field)[m] = memory[m][field] /\ Field(field)[m] \in Nat
           /\ \A m \in Memories : Each(memory, field)[m] = memory[m][field]
           /\ Field(field) = Each(memory, field)
<1>1. \A m \in Memories : Each(memory, field)[m] = memory[m][field]
  BY DEF Each, Memories
<1> QED BY <1>1, CorpusIs DEF Field

LEMMA PriorityIs ==
    ASSUME NEW strategy, NEW category \in Categories
    PROVE  Priority(strategy, category) \in 1..4
<1>1. PICK q : q = CategoryPriority(strategy)
  OBVIOUS
<1>2. \E i \in 1..4 : q[i] = category
  <2>1. \/ q = <<"fact", "constraint", "decision", "preference">>
        \/ q = <<"constraint", "decision", "preference", "fact">>
        \/ q = <<"decision", "constraint", "fact", "preference">>
        \/ q = <<"constraint", "decision", "fact", "preference">>
        \/ q = <<"preference", "constraint", "decision", "fact">>
    BY <1>1 DEF CategoryPriority
  <2>2. 1 \in 1..4 /\ 2 \in 1..4 /\ 3 \in 1..4 /\ 4 \in 1..4
    OBVIOUS
  <2> QED BY <2>1, <2>2 DEF Categories
<1>3. DOMAIN q = 1..4
  BY <1>1 DEF CategoryPriority
<1> QED BY <1>1, <1>2, <1>3 DEF Priority, RankIn

LEMMA PrioritiesAre ==
    ASSUME memory \in Corpora, NEW strategy, NEW m \in Memories
    PROVE  /\ Priorities(strategy, memory)[m] = Priority(strategy, memory[m].category)
           /\ Priorities(strategy, memory)[m] \in 1..4
BY CorpusIs, PriorityIs DEF Priorities, Memories

(* Best first: by strength, then the newest, then the smallest id.         *)
ByAge(S) == Greater(S, Field("created"), SmallerIn(S))
Best(S, strength) == Greater(S, strength, ByAge(S))
LEMMA TopIs ==
    ASSUME memory \in Corpora, NEW S \in SUBSET Memories, NEW strength,
           \A m \in S : strength[m] \in Int, NEW limit \in Nat
    PROVE  /\ Distinct(Top(S, strength, limit), S) /\ Len(Top(S, strength, limit)) <= limit
           /\ limit = Cardinality(S) => ListOf(Top(S, strength, limit), S, Best(S, strength))
<1>1. ListOf(Upwards(S), S, SmallerIn(S))
  BY CorpusIs, UpwardsLists
<1>2. \A m \in S : Field("created")[m] \in Int
  BY FieldsAre DEF Numbers
<1>3. ListOf(Descending(Upwards(S), Field("created")), S, ByAge(S))
  BY <1>1, <1>2, DescendingLists DEF ByAge
<1>4. PICK best : best = Descending(Descending(Upwards(S), Field("created")), strength)
  OBVIOUS
<1>5. ListOf(best, S, Best(S, strength))
  BY <1>3, <1>4, DescendingLists DEF Best
<1>6. best \in Seq(S) /\ Len(best) = Cardinality(S) /\ Cardinality(S) \in Nat
  BY <1>5, ListsIs
<1>7. PICK n : n = AtMost(limit, Len(best))
  OBVIOUS
<1>8. n \in 0..Len(best) /\ n <= limit
  BY <1>6, <1>7 DEF AtMost
<1>9. Top(S, strength, limit) = SubSeq(best, 1, n)
  BY <1>4, <1>7 DEF Top
<1>10. Distinct(SubSeq(best, 1, n), S) /\ Len(SubSeq(best, 1, n)) = n
  BY <1>5, <1>6, <1>8, Prefix, PrefixDistinct, ListIsDistinct
<1>11. ASSUME limit = Cardinality(S) PROVE SubSeq(best, 1, n) = best
  <2>1. n = Len(best)
    BY <1>6, <1>7, <1>11 DEF AtMost
  <2> QED BY <1>6, <2>1
<1> QED BY <1>5, <1>8, <1>9, <1>10, <1>11

LEMMA LegIs ==
    ASSUME memory \in Corpora, NEW field \in {"vector", "text", "trigram"}, Active \in SUBSET Memories
    PROVE  Distinct(Leg(Field(field)), Visible(Active))
<1>1. PICK S : S = {m \in Visible(Active) : Field(field)[m] > 0}
  OBVIOUS
<1>2. S \in SUBSET Memories /\ S \subseteq Visible(Active)
  BY <1>1 DEF Visible
<1>3. \A m \in S : Field(field)[m] \in Int
  BY <1>2, FieldsAre DEF Numbers
<1>4. Distinct(Top(S, Field(field), CandidateLimit), S)
  BY <1>2, <1>3, TopIs, ReadsAssumption
<1> QED BY <1>1, <1>2, <1>4, DistinctMore DEF Leg

(* The window by category: what it leaves out has as many of its category  *)
(* before it as the window takes.                                          *)
Crowded(q, m, S, limit) ==
    \E X \in SUBSET ToSet(q) :
        /\ Cardinality(X) = limit
        /\ \A x \in X : /\ memory[x].category = memory[m].category
                       /\ <<x, m>> \in Best(S, Field("importance"))
LEMMA CategoryTopIs ==
    ASSUME memory \in Corpora, NEW S \in SUBSET Memories, NEW limit \in Nat
    PROVE  /\ Distinct(CategoryTop(S, limit), S)
           /\ \A m \in S \ ToSet(CategoryTop(S, limit)) : Crowded(CategoryTop(S, limit), m, S, limit)
<1>1. PICK ranked : ranked = Top(S, Field("importance"), Cardinality(S))
  OBVIOUS
<1>2. ListOf(ranked, S, Best(S, Field("importance")))
  <2>1. \A m \in S : Field("importance")[m] \in Int
    BY FieldsAre DEF Numbers
  <2>2. Cardinality(S) \in Nat
    BY CorpusIs, FS_CardinalityType
  <2> QED BY <1>1, <2>1, <2>2, TopIs
<1> DEFINE Same(n) == {i \in DOMAIN ranked : memory[ranked[i]].category = memory[ranked[n]].category}
           Ahead(n) == {i \in 1..n : memory[ranked[i]].category = memory[ranked[n]].category}
<1>3. PICK T : T = {n \in DOMAIN ranked : Cardinality(Ahead(n)) <= limit}
  OBVIOUS
<1>4. CategoryTop(S, limit) = ElementsAt(ranked, T)
  BY <1>1, <1>3 DEF CategoryTop
<1>5. /\ Cardinality(S) \in Nat /\ DOMAIN ranked = 1..Cardinality(S) /\ ranked \in Seq(S)
      /\ ToSet(ranked) = S /\ \A i, j \in DOMAIN ranked : ranked[i] = ranked[j] => i = j
  BY <1>2, ListsIs
<1>6. PICK q : q = ElementsAt(ranked, T)
  OBVIOUS
<1>7. ListOf(q, {ranked[i] : i \in T}, Best(S, Field("importance"))) /\ {ranked[i] : i \in T} \subseteq S
  <2>1. T \in SUBSET DOMAIN ranked
    BY <1>3
  <2>2. \A i \in DOMAIN ranked : ranked[i] \in S
    BY <1>5 DEF ToSet
  <2> QED BY <1>2, <1>6, <2>1, <2>2, ElementsList
<1>8. ToSet(q) = {ranked[i] : i \in T}
  BY <1>7, ListsIs
<1>9. Distinct(q, S)
  BY <1>7, ListIsDistinct, DistinctMore
<1>10. ASSUME NEW m \in S, m \notin ToSet(q) PROVE Crowded(q, m, S, limit)
  <2>1. PICK n \in DOMAIN ranked : ranked[n] = m
    BY <1>5 DEF ToSet
  <2>2. n \notin T
    BY <1>8, <1>10, <2>1
  <2>3. PICK K : K = Same(n)
    OBVIOUS
  <2>4. K \in SUBSET Int /\ IsFiniteSet(K) /\ K \subseteq DOMAIN ranked /\ n \in K
    <3>1. IsFiniteSet(DOMAIN ranked)
      <4>1. PICK a, b : a = 1 /\ b = Cardinality(S) /\ a \in Int /\ b \in Int
        BY <1>5
      <4> QED BY <1>5, <4>1, FS_Interval
    <3>2. K \subseteq DOMAIN ranked /\ n \in K
      BY <2>1, <2>3
    <3>3. K \in SUBSET Int
      BY <1>5, <3>2
    <3> QED BY <3>1, <3>2, <3>3, FS_Subset
  <2>5. PICK u : ListOf(u, K, SmallerIn(K))
    BY <2>4, UpwardsLists
  <2>6. /\ Cardinality(K) \in Nat /\ DOMAIN u = 1..Cardinality(K) /\ u \in Seq(K) /\ ToSet(u) = K
        /\ Len(u) = Cardinality(K) /\ \A i, j \in DOMAIN u : i < j <=> u[i] < u[j]
    <3>1. \A i, j \in DOMAIN u : i < j <=> <<u[i], u[j]>> \in SmallerIn(K)
      BY <2>5 DEF ListOf
    <3>2. /\ Cardinality(K) \in Nat /\ DOMAIN u = 1..Cardinality(K) /\ u \in Seq(K) /\ ToSet(u) = K
          /\ Len(u) = Cardinality(K)
      BY <2>5, ListsIs
    <3>3. \A i \in DOMAIN u : u[i] \in K
      BY <3>2 DEF ToSet
    <3> QED BY <3>1, <3>2, <3>3 DEF SmallerIn
  <2>7. ASSUME NEW r \in DOMAIN u PROVE /\ Ahead(u[r]) = ToSet(SubSeq(u, 1, r))
                                        /\ Cardinality(Ahead(u[r])) = r
    <3>1. r \in 0..Len(u) /\ r \in Nat /\ u[r] \in K
      BY <2>6 DEF ToSet
    <3>2. ToSet(SubSeq(u, 1, r)) = {u[i] : i \in 1..r} /\ Len(SubSeq(u, 1, r)) = r
      BY <2>6, <3>1, Prefix
    <3>3. ListOf(SubSeq(u, 1, r), ToSet(SubSeq(u, 1, r)), SmallerIn(K))
      BY <2>5, <3>1, PrefixList
    <3>4. Cardinality(ToSet(SubSeq(u, 1, r))) = r
      BY <3>2, <3>3, ListsIs
    <3>5. memory[ranked[u[r]]].category = memory[ranked[n]].category /\ u[r] \in DOMAIN ranked
      BY <2>3, <3>1
    <3>6. \A i \in Ahead(u[r]) : i \in K /\ i <= u[r]
      BY <1>5, <2>3, <3>5
    <3>7. Ahead(u[r]) \subseteq {u[i] : i \in 1..r}
      <4> SUFFICES ASSUME NEW i \in Ahead(u[r]) PROVE i \in {u[j] : j \in 1..r}
        OBVIOUS
      <4>1. PICK j \in DOMAIN u : u[j] = i
        BY <2>6, <3>6 DEF ToSet
      <4>2. ~(r < j)
        <5>1. r < j => u[r] < u[j]
          BY <2>6, <4>1
        <5>2. u[r] \in Int /\ u[j] \in Int /\ u[j] <= u[r]
          BY <2>4, <3>1, <3>6, <4>1
        <5> QED BY <5>1, <5>2
      <4> QED BY <2>6, <3>1, <4>1, <4>2
    <3>8. ASSUME NEW i \in 1..r PROVE u[i] \in Ahead(u[r])
      <4>1. i \in DOMAIN u /\ u[i] \in K
        BY <2>6, <3>1 DEF ToSet
      <4>2. i = r \/ u[i] < u[r]
        BY <2>6, <3>1, <4>1
      <4>3. u[i] \in 1..u[r]
        <5>1. u[i] \in 1..Cardinality(S) /\ u[r] \in 1..Cardinality(S)
          BY <1>5, <2>4, <3>1, <4>1
        <5> QED BY <1>5, <4>2, <5>1
      <4> QED BY <2>3, <3>5, <4>1, <4>3
    <3> QED BY <3>2, <3>4, <3>7, <3>8
  <2>8. PICK r \in DOMAIN u : u[r] = n
    BY <2>4, <2>6 DEF ToSet
  <2>9. limit < r
    BY <1>3, <2>2, <2>6, <2>7, <2>8
  <2>10. limit \in 0..Len(u) /\ \A i \in 1..limit : i \in DOMAIN u /\ i < r
    BY <2>6, <2>9
  <2>11. PICK P : P = ToSet(SubSeq(u, 1, limit))
    OBVIOUS
  <2>12. P = {u[i] : i \in 1..limit} /\ Cardinality(P) = limit
    <3>1. P = {u[i] : i \in 1..limit} /\ Len(SubSeq(u, 1, limit)) = limit
      BY <2>6, <2>10, <2>11, Prefix
    <3>2. ListOf(SubSeq(u, 1, limit), ToSet(SubSeq(u, 1, limit)), SmallerIn(K))
      BY <2>5, <2>10, PrefixList
    <3> QED BY <2>11, <3>1, <3>2, ListsIs
  <2>13. \A p \in P : p \in T /\ p \in K /\ p < n
    <3> SUFFICES ASSUME NEW i \in 1..limit PROVE u[i] \in T /\ u[i] \in K /\ u[i] < n
      BY <2>12
    <3>1. u[i] \in K /\ i \in DOMAIN u
      BY <2>6, <2>10 DEF ToSet
    <3>2. Cardinality(Ahead(u[i])) <= limit
      <4>1. Cardinality(Ahead(u[i])) = i
        BY <2>7, <3>1
      <4> HIDE DEF Ahead
      <4> QED BY <4>1
    <3>3. u[i] < u[r]
      BY <2>6, <2>8, <2>10, <3>1
    <3> QED BY <1>3, <2>4, <2>8, <3>1, <3>2, <3>3
  <2>14. PICK X : X = {ranked[p] : p \in P}
    OBVIOUS
  <2>15. Cardinality(X) = limit
    <3>1. P \in SUBSET DOMAIN ranked
      BY <2>4, <2>13
    <3>2. ListOf(ElementsAt(ranked, P), X, Best(S, Field("importance")))
      BY <1>2, <2>14, <3>1, ElementsList
    <3>3. PICK w : ListOf(w, P, SmallerIn(P)) /\ DOMAIN ElementsAt(ranked, P) = DOMAIN w
      BY <1>5, <3>1, ElementsAre
    <3> QED BY <2>12, <3>2, <3>3, ListsIs
  <2>16. X \in SUBSET ToSet(q)
    BY <1>8, <2>13, <2>14
  <2>17. \A x \in X : /\ memory[x].category = memory[m].category
                     /\ <<x, m>> \in Best(S, Field("importance"))
    <3> SUFFICES ASSUME NEW p \in P PROVE /\ memory[ranked[p]].category = memory[m].category
                                          /\ <<ranked[p], m>> \in Best(S, Field("importance"))
      BY <2>14
    <3>1. p \in DOMAIN ranked /\ p < n /\ memory[ranked[p]].category = memory[ranked[n]].category
      BY <2>3, <2>4, <2>13
    <3> QED BY <1>2, <2>1, <3>1 DEF ListOf
  <2> QED BY <2>15, <2>16, <2>17 DEF Crowded
<1> QED BY <1>4, <1>6, <1>9, <1>10

(***************************************************************************)
(* The profile slices.                                                     *)
(***************************************************************************)
(* Items of M, each once. *)
OnceEach(items) == \A i, j \in DOMAIN items : items[i].id = items[j].id => i = j
Slice(items, M) == items \in Seq(Item(M)) /\ OnceEach(items)
Within(items, maxItems, maxChars) == Len(items) <= maxItems /\ Chars(items) <= maxChars

LEMMA OnceMore ==
    ASSUME NEW M, NEW items, Slice(items, M), NEW item \in Item(M), item.id \notin ItemIds(items)
    PROVE  Slice(Append(items, item), M)
<1>0. PICK n, more : n = Len(items) /\ more = Append(items, item)
  OBVIOUS
<1>1. /\ n = Len(items) /\ more = Append(items, item) /\ items \in Seq(Item(M))
      /\ DOMAIN items = 1..n /\ n \in Nat
  BY <1>0 DEF Slice
<1>2. /\ more \in Seq(Item(M)) /\ DOMAIN more = 1..(n + 1) /\ more[n + 1] = item
      /\ \A i \in 1..n : more[i] = items[i]
  BY <1>1
<1>3. \A i \in 1..n : items[i].id \in ItemIds(items) /\ items[i].id # item.id
  BY <1>1 DEF ItemIds
<1>4. ASSUME NEW i \in 1..(n + 1), NEW j \in 1..(n + 1), more[i].id = more[j].id PROVE i = j
  <2>1. CASE i = n + 1 \/ j = n + 1
    <3>1. i # n + 1 => i \in 1..n
      BY <1>1
    <3>2. j # n + 1 => j \in 1..n
      BY <1>1
    <3> QED BY <1>2, <1>3, <1>4, <2>1, <3>1, <3>2
  <2>2. CASE i # n + 1 /\ j # n + 1
    <3>1. i \in 1..n /\ j \in 1..n
      BY <1>1, <2>2
    <3> QED BY <1>1, <1>2, <1>4, <3>1 DEF Slice, OnceEach
  <2> QED BY <2>1, <2>2
<1> QED BY <1>1, <1>2, <1>4 DEF Slice, OnceEach

LEMMA TakeIs ==
    ASSUME NEW M, NEW taken, NEW items, NEW maxItems \in Nat, NEW maxChars \in Nat,
           Slice(taken, M), Slice(items, M), ItemIds(taken) \cap ItemIds(items) = {},
           Within(taken, maxItems, maxChars)
    PROVE  /\ Slice(TakeItems(taken, items, maxItems, maxChars), M)
           /\ Within(TakeItems(taken, items, maxItems, maxChars), maxItems, maxChars)
           /\ ItemIds(TakeItems(taken, items, maxItems, maxChars)) \subseteq ItemIds(taken) \cup ItemIds(items)
<1>1. /\ taken \in Seq(Item(M)) /\ items \in Seq(Item(M)) /\ Len(items) \in Nat
      /\ DOMAIN items = 1..Len(items)
  BY DEF Slice
<1>2. PICK t : TakeSteps(t, M, taken, items, maxItems, maxChars)
  BY <1>1, TakeTrace
<1> DEFINE Until(n) == {items[i].id : i \in 1..n}
           Good(n) == /\ Slice(t[n].items, M) /\ Within(t[n].items, maxItems, maxChars)
                      /\ ItemIds(t[n].items) \subseteq ItemIds(taken) \cup Until(n)
           G == {n \in 0..Len(items) : Good(n)}
<1>3. 0 \in G
  BY <1>1, <1>2 DEF TakeStart, TakeSteps
<1>4. ASSUME NEW n \in 0..(Len(items) - 1), n \in G PROVE n + 1 \in G
  <2>1. n \in 0..Len(items) /\ n + 1 \in 0..Len(items) /\ n + 1 \in DOMAIN items /\ n \in Nat
    BY <1>1
  <2>2. PICK s, item, next : s = t[n] /\ item = items[n + 1] /\ next = t[n + 1]
    OBVIOUS
  <2>3. s \in TakeState(M) /\ item \in Item(M) /\ next = TakeItem(s, item, maxItems, maxChars)
    BY <1>1, <1>2, <2>1, <2>2 DEF TakeSteps
  <2>4. /\ Slice(s.items, M) /\ Within(s.items, maxItems, maxChars)
        /\ ItemIds(s.items) \subseteq ItemIds(taken) \cup Until(n)
    BY <1>4, <2>2
  <2>5. Takes(s, next, item, maxItems, maxChars)
    BY <2>3, TakeItemIs
  <2>6. Until(n) \subseteq Until(n + 1) /\ item.id \in Until(n + 1)
    BY <1>1, <2>1, <2>2
  <2>7. CASE next.items = s.items
    BY <2>1, <2>2, <2>4, <2>6, <2>7
  <2>8. CASE \E c : TakesAs(s, next, item, c, maxItems, maxChars)
    <3>1. PICK c : TakesAs(s, next, item, c, maxItems, maxChars)
      BY <2>8
    <3>2. item.id \notin Until(n)
      <4>1. ASSUME NEW i \in 1..n PROVE items[i].id # items[n + 1].id
        <5>1. i \in DOMAIN items /\ i # n + 1
          BY <1>1, <2>1
        <5> QED BY <2>1, <5>1 DEF Slice, OnceEach
      <4> QED BY <2>2, <4>1
    <3>3. item.id \in ItemIds(items)
      BY <2>1, <2>2 DEF ItemIds
    <3>4. item.id \notin ItemIds(s.items)
      BY <2>4, <3>2, <3>3
    <3>p. PICK more : more = [id |-> item.id, chars |-> c]
      OBVIOUS
    <3>5. more = [id |-> item.id, chars |-> c] /\ more \in Item(M) /\ more.id = item.id
      <4>1. c \in Nat /\ item.id \in M
        BY <2>3, <3>1 DEF Item, TakesAs
      <4> QED BY <3>p, <4>1 DEF Item
    <3>6. Slice(next.items, M)
      BY <2>4, <3>1, <3>4, <3>5, OnceMore DEF TakesAs
    <3>7. Chars(s.items) \in Nat /\ Len(s.items) \in Nat
      BY <2>4, ItemsOf DEF Slice
    <3>8. Within(next.items, maxItems, maxChars)
      BY <2>4, <3>1, <3>7 DEF Within, Less, TakesAs
    <3>9. ItemIds(next.items) \subseteq ItemIds(taken) \cup Until(n + 1)
      BY <2>4, <2>6, <3>1 DEF TakesAs
    <3> QED BY <2>1, <2>2, <3>6, <3>8, <3>9
  <2> QED BY <2>5, <2>7, <2>8 DEF Takes
<1> HIDE DEF G
<1>5. 0..Len(items) \subseteq G
  BY <1>1, <1>3, <1>4, UpTo
<1> USE DEF G
<1>6. Good(Len(items))
  BY <1>1, <1>5
<1>7. Until(Len(items)) = ItemIds(items)
  BY <1>1 DEF ItemIds
<1> QED BY <1>2, <1>6, <1>7 DEF TakeSteps

LEMMA WholeIs ==
    ASSUME memory \in Corpora, NEW M \in SUBSET Memories, NEW ids, Distinct(ids, M)
    PROVE  Slice(Whole(ids, memory), M) /\ ItemIds(Whole(ids, memory)) = ToSet(ids)
<1>1. PICK w, n : w = Whole(ids, memory) /\ n = Len(ids)
  OBVIOUS
<1>2. n \in Nat /\ DOMAIN ids = 1..n /\ \A i \in 1..n : ids[i] \in M
  BY <1>1 DEF Distinct
<1>3. DOMAIN w = 1..n /\ \A i \in 1..n : w[i] = [id |-> ids[i], chars |-> memory[ids[i]].chars]
  BY <1>1, <1>2 DEF Whole
<1>4. \A m \in M : memory[m].chars \in Nat
  BY CorpusIs DEF Numbers
<1>5. \A i \in 1..n : w[i] \in Item(M) /\ w[i].id = ids[i]
  BY <1>2, <1>3, <1>4 DEF Item
<1>6. w \in Seq(Item(M))
  <2>1. w = [i \in 1..n |-> w[i]]
    BY <1>1, <1>2 DEF Whole
  <2> QED BY <1>2, <1>5, <2>1
<1>7. OnceEach(w)
  BY <1>2, <1>3, <1>5 DEF OnceEach, Distinct
<1>8. ItemIds(w) = ToSet(ids)
  BY <1>2, <1>3, <1>5 DEF ItemIds, ToSet
<1> QED BY <1>1, <1>6, <1>7, <1>8 DEF Slice

LEMMA NoSlice == \A M, maxItems, maxChars : /\ Slice(<<>>, M) /\ ItemIds(<<>>) = {}
                                            /\ maxItems \in Nat /\ maxChars \in Nat => Within(<<>>, maxItems, maxChars)
<1>1. PICK none : none = <<>> /\ DOMAIN none = {}
  OBVIOUS
<1>2. OnceEach(none)
  BY <1>1 DEF OnceEach
<1> QED BY <1>1, <1>2, NoItems DEF Slice, Within

LEMMA OrdersAre ==
    ASSUME memory \in Corpora, NEW S \in SUBSET Memories, NEW f \in Numbers, NEW g \in Numbers
    PROVE  Distinct(Descending(Descending(Upwards(S), Each(memory, f)), Each(memory, g)), S)
<1>1. ListOf(Upwards(S), S, SmallerIn(S))
  BY CorpusIs, UpwardsLists
<1>2. \A m \in S : Each(memory, f)[m] \in Int /\ Each(memory, g)[m] \in Int
  BY FieldsAre
<1>3. ListOf(Descending(Upwards(S), Each(memory, f)), S, Greater(S, Each(memory, f), SmallerIn(S)))
  BY <1>1, <1>2, DescendingLists
<1>4. \E R : ListOf(Descending(Descending(Upwards(S), Each(memory, f)), Each(memory, g)), S, R)
  BY <1>2, <1>3, DescendingLists
<1> QED BY <1>4, ListIsDistinct

LEMMA TakenWhole ==
    ASSUME memory \in Corpora, NEW S \in SUBSET Memories, NEW ids, Distinct(ids, S),
           NEW maxItems \in Nat, NEW maxChars \in Nat
    PROVE  /\ Slice(TakeItems(<<>>, Whole(ids, memory), maxItems, maxChars), S)
           /\ ItemIds(TakeItems(<<>>, Whole(ids, memory), maxItems, maxChars)) \subseteq S
<1>1. PICK none : none = <<>> /\ Slice(none, S) /\ ItemIds(none) = {} /\ Within(none, maxItems, maxChars)
  BY NoSlice
<1>2. Slice(Whole(ids, memory), S) /\ ItemIds(Whole(ids, memory)) = ToSet(ids)
  BY WholeIs
<1>3. Slice(TakeItems(none, Whole(ids, memory), maxItems, maxChars), S)
  BY <1>1, <1>2, TakeIs
<1> QED BY <1>1, <1>3, ItemsOf DEF Slice

LEMMA StaticSliceIs ==
    ASSUME memory \in Corpora, NEW S \in SUBSET Memories, NEW maxItems \in Nat, NEW maxChars \in Nat
    PROVE  Slice(StaticSlice(S, memory, maxItems, maxChars), S)
<1>1. PICK E : E = {m \in S : memory[m].category \in {"preference", "constraint"}} /\ E \in SUBSET Memories
  OBVIOUS
<1>2. PICK ids : ids = Descending(Descending(Upwards(E), Each(memory, "confirmed")), Each(memory, "importance"))
  OBVIOUS
<1>3. Distinct(ids, E)
  BY <1>1, <1>2, OrdersAre DEF Numbers
<1>4. Distinct(ids, S)
  BY <1>1, <1>3, DistinctMore
<1> QED BY <1>1, <1>2, <1>4, TakenWhole DEF StaticSlice

LEMMA DynamicSliceIs ==
    ASSUME memory \in Corpora, NEW S \in SUBSET Memories, NEW static,
           NEW maxItems \in Nat, NEW maxChars \in Nat
    PROVE  /\ Slice(DynamicSlice(S, static, memory, maxItems, maxChars), S)
           /\ ItemIds(static) \cap ItemIds(DynamicSlice(S, static, memory, maxItems, maxChars)) = {}
<1>1. PICK E : E = {m \in S \ ItemIds(static) : memory[m].recalled > 0} /\ E \in SUBSET Memories
  OBVIOUS
<1>2. PICK ids : ids = DynamicOrder(E, memory)
  OBVIOUS
<1>3. Distinct(ids, E)
  BY <1>1, <1>2, OrdersAre DEF Numbers, DynamicOrder
<1>4. PICK d : d = DynamicSlice(S, static, memory, maxItems, maxChars)
  OBVIOUS
<1>5. d = TakeItems(<<>>, Whole(ids, memory), maxItems, maxChars)
  BY <1>1, <1>2, <1>4 DEF DynamicSlice
<1>6. Slice(d, E) /\ ItemIds(d) \subseteq E
  BY <1>1, <1>3, <1>5, TakenWhole
<1>7. Slice(d, S)
  <2>1. Item(E) \subseteq Item(S)
    BY <1>1 DEF Item
  <2> QED BY <1>6, <2>1 DEF Slice
<1> QED BY <1>1, <1>4, <1>6, <1>7

LEMMA CapProfileIs ==
    ASSUME NEW M, NEW static, NEW dynamic, Slice(static, M), Slice(dynamic, M),
           ItemIds(static) \cap ItemIds(dynamic) = {}, NEW maxItems \in Nat, NEW maxChars \in Nat
    PROVE  /\ Slice(CapProfile(static, dynamic, maxItems, maxChars), M)
           /\ Within(CapProfile(static, dynamic, maxItems, maxChars), maxItems, maxChars)
           /\ ItemIds(CapProfile(static, dynamic, maxItems, maxChars)) \subseteq M
<1>1. PICK none : none = <<>> /\ Slice(none, M) /\ ItemIds(none) = {} /\ Within(none, maxItems, maxChars)
  BY NoSlice
<1>2. PICK first : first = TakeItems(none, static, maxItems, maxChars)
  OBVIOUS
<1>3. Slice(first, M) /\ Within(first, maxItems, maxChars) /\ ItemIds(first) \subseteq ItemIds(static)
  BY <1>1, <1>2, TakeIs
<1>4. ItemIds(first) \cap ItemIds(dynamic) = {}
  BY <1>3
<1>5. PICK both : both = TakeItems(first, dynamic, maxItems, maxChars)
  OBVIOUS
<1>6. Slice(both, M) /\ Within(both, maxItems, maxChars)
  BY <1>3, <1>4, <1>5, TakeIs
<1>7. both = CapProfile(static, dynamic, maxItems, maxChars)
  BY <1>1, <1>2, <1>5 DEF CapProfile
<1> QED BY <1>6, <1>7, ItemsOf DEF Slice

(***************************************************************************)
(* What a snapshot keeps is a prefix of its order, within the budgets.     *)
(***************************************************************************)
Costs(ids, n) == [i \in 1..n |-> EstimateTokens(memory[ids[i]].chars)]
Cost(ids, n) == AddUp(Costs(ids, n))

LEMMA CostGrows ==
    ASSUME memory \in Corpora, NEW ids \in Seq(Memories), NEW n \in 0..(Len(ids) - 1)
    PROVE  /\ Cost(ids, n) \in Nat /\ Cost(ids, n + 1) \in Nat
           /\ EstimateTokens(memory[ids[n + 1]].chars) \in Nat
           /\ Cost(ids, n + 1) = Cost(ids, n) + EstimateTokens(memory[ids[n + 1]].chars)
<1>1. \A i \in 1..(n + 1) : ids[i] \in Memories
  OBVIOUS
<1>2. \A m \in Memories : EstimateTokens(memory[m].chars) \in Nat
  <2>1. \A m \in Memories : memory[m].chars \in Nat
    BY CorpusIs DEF Numbers
  <2> QED BY <2>1 DEF EstimateTokens
<1>3. PICK f, g : f = Costs(ids, n) /\ g = Costs(ids, n + 1)
  OBVIOUS
<1>4. /\ DOMAIN f = 1..n /\ DOMAIN g = 1..(n + 1) /\ \A i \in 1..n : f[i] = g[i]
      /\ \A i \in 1..(n + 1) : g[i] \in Nat
      /\ g[n + 1] = EstimateTokens(memory[ids[n + 1]].chars)
  BY <1>1, <1>2, <1>3 DEF Costs
<1>5. AddUp(g) = AddUp(f) + g[n + 1] /\ AddUp(f) \in Nat
  BY <1>4, AddUpMore
<1> QED BY <1>3, <1>4, <1>5 DEF Cost

LEMMA NoCost == \A ids : Cost(ids, 0) = 0
<1>1. \A ids : DOMAIN Costs(ids, 0) = {}
  BY DEF Costs
<1> QED BY <1>1, AddUpEmpty DEF Cost

AsOffered(kept, order) == \A i \in 1..Len(kept) : kept[i].id = order[i]
InBudget(tokens, budget) == budget.tokens # NoBudget => tokens <= budget.tokens
Snapshot(kept, order, budget) ==
    /\ Len(kept) <= Len(order) /\ Len(kept) <= budget.items /\ Chars(kept) <= budget.chars
    /\ AsOffered(kept, order) /\ InBudget(Cost(order, Len(kept)), budget)

LEMMA AssembledIs ==
    ASSUME memory \in Corpora, NEW M \in SUBSET Memories, NEW order \in Seq(M), NEW budget,
           Budgeted(budget), budget.tokens \in Nat \cup {NoBudget}
    PROVE  /\ Assemble(order, budget, memory).kept \in Seq(Item(M))
           /\ Snapshot(Assemble(order, budget, memory).kept, order, budget)
<1>0. DOMAIN order = 1..Len(order) /\ Len(order) \in Nat /\ order \in Seq(Memories)
  OBVIOUS
<1>1. \A m \in M : memory[m].chars \in Nat
  BY CorpusIs DEF Numbers
<1>2. PICK t : AssembleSteps(t, M, order, budget, memory)
  BY <1>1, AssembleTrace
<1> DEFINE Good(n) == /\ Len(t[n].kept) <= n /\ (~t[n].exhausted => Len(t[n].kept) = n)
                      /\ Len(t[n].kept) <= budget.items /\ AsOffered(t[n].kept, order)
                      /\ t[n].tokens = Cost(order, Len(t[n].kept)) /\ InBudget(t[n].tokens, budget)
           G == {n \in 0..Len(order) : Good(n)}
<1>3. 0 \in G
  <2>1. t[0].kept = <<>> /\ t[0].tokens = 0 /\ Len(t[0].kept) = 0
    BY <1>2 DEF AssembleSteps, AssembleStart
  <2>2. AsOffered(t[0].kept, order)
    BY <2>1 DEF AsOffered
  <2> QED BY <1>0, <2>1, <2>2, NoCost DEF InBudget, Budgeted
<1>4. ASSUME NEW n \in 0..(Len(order) - 1), n \in G PROVE n + 1 \in G
  <2>1. n \in 0..Len(order) /\ n + 1 \in 0..Len(order) /\ n + 1 \in DOMAIN order /\ n \in Nat
    BY <1>0
  <2>2. PICK s, id, next : s = t[n] /\ id = order[n + 1] /\ next = t[n + 1]
    OBVIOUS
  <2>3. /\ s \in AssembleState(M) /\ Chars(s.kept) <= budget.chars /\ id \in M
        /\ next = AssembleNext(s, id, budget, memory)
    BY <1>0, <1>2, <2>1, <2>2 DEF AssembleSteps, AssembleRoom
  <2>4. Keeps(s, next, id, budget, memory)
    BY <1>1, <2>3, AssembleNextIs
  <2>5. /\ Len(s.kept) <= n /\ (~s.exhausted => Len(s.kept) = n)
        /\ Len(s.kept) <= budget.items /\ AsOffered(s.kept, order)
        /\ s.tokens = Cost(order, Len(s.kept)) /\ InBudget(s.tokens, budget)
    BY <1>4, <2>2
  <2>6. CASE next.exhausted /\ next.kept = s.kept /\ next.tokens = s.tokens
    <3>1. Len(s.kept) \in Nat
      BY <2>3 DEF AssembleState
    <3> QED BY <2>1, <2>2, <2>5, <2>6, <3>1
  <2>7. CASE \E c : KeepsAs(s, next, id, c, budget, memory)
    <3>1. PICK c : KeepsAs(s, next, id, c, budget, memory)
      BY <2>7
    <3>2. PICK it : it = [id |-> id, chars |-> c]
      OBVIOUS
    <3>3. /\ next.kept = Append(s.kept, it) /\ Len(next.kept) = n + 1 /\ Len(s.kept) = n
          /\ n + 1 <= budget.items /\ it.id = id
      BY <2>1, <2>5, <3>1, <3>2 DEF KeepsAs, Budgeted
    <3>4. s.kept \in Seq(Item(M)) /\ it \in Item(M)
      BY <2>3, <3>1, <3>2 DEF AssembleState, Item, KeepsAs
    <3>5. AsOffered(next.kept, order)
      <4>1. ASSUME NEW i \in 1..(n + 1) PROVE next.kept[i].id = order[i]
        <5>1. CASE i = n + 1
          BY <2>2, <3>3, <3>4, <5>1
        <5>2. CASE i # n + 1
          <6>1. i \in 1..n
            BY <2>1, <5>2
          <6>2. next.kept[i] = s.kept[i]
            BY <3>3, <3>4, <6>1
          <6> QED BY <2>5, <3>3, <6>1, <6>2 DEF AsOffered
        <5> QED BY <5>1, <5>2
      <4> QED BY <3>3, <4>1 DEF AsOffered
    <3>6. /\ Cost(order, n + 1) = Cost(order, n) + EstimateTokens(memory[order[n + 1]].chars)
      BY <1>0, CostGrows
    <3>7. next.tokens = Cost(order, n + 1)
      BY <2>2, <2>5, <3>1, <3>3, <3>6 DEF KeepsAs
    <3>8. InBudget(next.tokens, budget)
      BY <3>1 DEF KeepsAs, InBudget, Fits
    <3>9. Len(next.kept) <= n + 1 /\ Len(next.kept) <= budget.items
      BY <2>1, <3>3
    <3>10. next.tokens = Cost(order, Len(next.kept))
      BY <3>3, <3>7
    <3> QED BY <2>1, <2>2, <3>3, <3>5, <3>8, <3>9, <3>10
  <2> QED BY <2>4, <2>6, <2>7 DEF Keeps
<1> HIDE DEF G
<1>5. 0..Len(order) \subseteq G
  BY <1>0, <1>3, <1>4, UpTo
<1> USE DEF G
<1>6. Good(Len(order))
  BY <1>0, <1>5
<1>7. /\ t[Len(order)] \in AssembleState(M) /\ Chars(t[Len(order)].kept) <= budget.chars
      /\ Assemble(order, budget, memory) = t[Len(order)]
  BY <1>0, <1>2 DEF AssembleSteps, AssembleRoom
<1> QED BY <1>6, <1>7 DEF Snapshot, AssembleState

(***************************************************************************)
(* What recall packs is a prefix, and stops at the first that does not fit.*)
(***************************************************************************)
Stopped(ids, n, limit, tokens) ==
    \/ n = limit
    \/ tokens # NoBudget /\ Cost(ids, n) + EstimateTokens(memory[ids[n + 1]].chars) > tokens
PackedTo(hits, ids, n, limit, tokens) ==
    /\ n \in 0..Len(ids) /\ hits \in Seq(Memories) /\ Len(hits) = n /\ n <= limit
    /\ \A i \in 1..n : hits[i] = ids[i]
    /\ tokens # NoBudget => Cost(ids, n) <= tokens
    /\ n < Len(ids) => Stopped(ids, n, limit, tokens)

LEMMA PackedIs ==
    ASSUME memory \in Corpora, NEW ids \in Seq(Memories), NEW limit \in Nat,
           NEW tokens \in Nat \cup {NoBudget}
    PROVE  \E n : PackedTo(PackByTokenBudget(ids, limit, tokens, memory), ids, n, limit, tokens)
<1>0. DOMAIN ids = 1..Len(ids) /\ Len(ids) \in Nat
  OBVIOUS
<1>1. \A m \in Memories : memory[m].chars \in Nat
  BY CorpusIs DEF Numbers
<1>2. PICK t : PackSteps(t, Memories, ids, limit, tokens, memory)
  BY <1>1, PackTrace
<1> DEFINE Good(n) ==
              LET k == Len(t[n].kept) IN
              /\ k <= n /\ k <= limit /\ \A i \in 1..k : t[n].kept[i] = ids[i]
              /\ t[n].used = Cost(ids, k) /\ (tokens # NoBudget => t[n].used <= tokens)
              /\ IF t[n].open THEN k = n ELSE k < n /\ Stopped(ids, k, limit, tokens)
           G == {n \in 0..Len(ids) : Good(n)}
<1>3. 0 \in G
  <2>1. t[0].kept = <<>> /\ t[0].used = 0 /\ Len(t[0].kept) = 0 /\ t[0].open
    BY <1>2 DEF PackSteps, PackStart
  <2> QED BY <1>0, <2>1, NoCost
<1>4. ASSUME NEW n \in 0..(Len(ids) - 1), n \in G PROVE n + 1 \in G
  <2>1. n \in 0..Len(ids) /\ n + 1 \in 0..Len(ids) /\ n + 1 \in DOMAIN ids /\ n \in Nat
    BY <1>0
  <2>2. PICK s, id, next, k : s = t[n] /\ id = ids[n + 1] /\ next = t[n + 1] /\ k = Len(s.kept)
    OBVIOUS
  <2>3. /\ s \in PackState(Memories) /\ id \in Memories
        /\ next = PackHit(s, id, limit, tokens, memory)
    BY <1>0, <1>2, <2>1, <2>2 DEF PackSteps
  <2>4. /\ s.kept \in Seq(Memories) /\ s.used \in Nat /\ s.open \in BOOLEAN /\ k \in Nat
    BY <2>2, <2>3 DEF PackState
  <2>5. /\ k <= n /\ k <= limit /\ \A i \in 1..k : s.kept[i] = ids[i]
        /\ s.used = Cost(ids, k) /\ (tokens # NoBudget => s.used <= tokens)
        /\ s.open => k = n
        /\ ~s.open => k < n /\ Stopped(ids, k, limit, tokens)
    BY <1>4, <2>2
  <2>6. PICK cost : cost = EstimateTokens(memory[id].chars)
    OBVIOUS
  <2>7. cost \in Nat /\ Cost(ids, n + 1) = Cost(ids, n) + cost
    BY <1>0, <2>2, <2>6, CostGrows
  <2>8. CASE ~s.open \/ Len(s.kept) >= limit \/ ~Fits(s.used, cost, tokens)
    <3>1. next = [s EXCEPT !.open = FALSE]
      BY <2>3, <2>6, <2>8 DEF PackHit
    <3>2. next.kept = s.kept /\ next.used = s.used /\ next.open = FALSE
      BY <2>3, <3>1 DEF PackState
    <3>3. Stopped(ids, k, limit, tokens)
      <4>1. CASE ~s.open
        BY <2>5, <4>1
      <4>2. CASE Len(s.kept) >= limit
        BY <2>2, <2>4, <2>5, <4>2 DEF Stopped
      <4>3. CASE s.open /\ ~Fits(s.used, cost, tokens)
        BY <2>2, <2>4, <2>5, <2>6, <2>7, <4>3 DEF Stopped, Fits
      <4> QED BY <2>8, <4>1, <4>2, <4>3
    <3>4. k < n + 1 /\ k <= n + 1
      BY <2>1, <2>4, <2>5
    <3>5. Len(t[n + 1].kept) = k /\ t[n + 1].kept = s.kept /\ t[n + 1].used = s.used
      BY <2>2, <3>2
    <3>6. t[n + 1].open = FALSE
      BY <2>2, <3>2
    <3>7. Good(n + 1)
      BY <2>5, <3>3, <3>4, <3>5, <3>6
    <3> QED BY <2>1, <3>7
  <2>9. CASE ~(~s.open \/ Len(s.kept) >= limit \/ ~Fits(s.used, cost, tokens))
    <3>1. next = [s EXCEPT !.kept = Append(s.kept, id), !.used = s.used + cost]
      BY <2>3, <2>6, <2>9 DEF PackHit
    <3>2. next.kept = Append(s.kept, id) /\ next.used = s.used + cost /\ next.open
      BY <2>3, <2>9, <3>1 DEF PackState
    <3>3. k = n /\ n + 1 <= limit /\ Len(next.kept) = n + 1 /\ next.used = Cost(ids, n + 1)
      BY <2>1, <2>2, <2>4, <2>5, <2>7, <2>9, <3>2
    <3>4. tokens # NoBudget => next.used <= tokens
      BY <2>9, <3>2 DEF Fits
    <3>5. ASSUME NEW i \in 1..(n + 1) PROVE next.kept[i] = ids[i]
      <4>1. CASE i = n + 1
        BY <2>2, <2>4, <3>2, <3>3, <4>1
      <4>2. CASE i # n + 1
        <5>1. i \in 1..n
          BY <2>1, <4>2
        <5>2. next.kept[i] = s.kept[i]
          BY <2>2, <2>4, <3>2, <3>3, <5>1
        <5> QED BY <2>5, <3>3, <5>1, <5>2
      <4> QED BY <4>1, <4>2
    <3>6. Len(t[n + 1].kept) = n + 1 /\ t[n + 1].kept = next.kept /\ t[n + 1].used = next.used
      BY <2>2, <3>3
    <3>7. t[n + 1].open
      BY <2>2, <3>2
    <3>8. Good(n + 1)
      BY <2>1, <3>3, <3>4, <3>5, <3>6, <3>7
    <3> QED BY <2>1, <3>8
  <2> QED BY <2>8, <2>9
<1> HIDE DEF G
<1>5. 0..Len(ids) \subseteq G
  BY <1>0, <1>3, <1>4, UpTo
<1> USE DEF G
<1>6. Good(Len(ids))
  BY <1>0, <1>5
<1>7. PICK s, k : s = t[Len(ids)] /\ k = Len(s.kept)
  OBVIOUS
<1>8. s \in PackState(Memories) /\ PackByTokenBudget(ids, limit, tokens, memory) = s.kept
  BY <1>0, <1>2, <1>7 DEF PackSteps
<1>9. s.kept \in Seq(Memories) /\ k \in Nat
  BY <1>7, <1>8 DEF PackState
<1>10. PackedTo(s.kept, ids, k, limit, tokens)
  BY <1>0, <1>6, <1>7, <1>9 DEF PackedTo
<1> QED BY <1>8, <1>10

(***************************************************************************)
(* The invariant of the calls: each reads what some instant of the call    *)
(* showed, and a profile row of the current generation is of the memories  *)
(* that are active.                                                        *)
(***************************************************************************)
Sees(mem, c, S) ==
    {m \in S : \/ mem[m].project \in {c.project, Global}
               \/ c.op = "recall" /\ c.project = Global}
PoolsOf(c) ==
    <<[ids |-> c.vector, weight |-> 10], [ids |-> c.text, weight |-> 10],
      [ids |-> c.trigram, weight |-> TrigramWeight]>>
VotesOf(mem) == <<[value |-> Each(mem, "importance"), weight |-> ImportanceWeight]>>
FusedOf(mem, c) == Fuse(PoolsOf(c), VotesOf(mem), Each(mem, "created"))
FocusOf(mem, c) ==
    IF c.focus THEN SubSeq(FusedOf(mem, c), 1, AtMost(FocusLimit, Len(FusedOf(mem, c)))) ELSE <<>>
WindowOf(c) == c.items + AtMost(c.items, ProfileReserve.items) + 1
(* q is cut from a pool by the window: a memory of the pool that is not    *)
(* in q has as many of its category before it as the window takes.         *)
NotAfter(mem, x, m) ==
    \/ mem[x].importance > mem[m].importance
    \/ mem[x].importance = mem[m].importance /\ mem[x].created >= mem[m].created
Crowding(mem, q, m, limit) ==
    \E X \in SUBSET ToSet(q) :
        /\ Cardinality(X) = limit
        /\ \A x \in X : mem[x].category = mem[m].category /\ NotAfter(mem, x, m)
CutFrom(mem, q, pool, limit) ==
    Distinct(q, pool) /\ \A m \in pool \ ToSet(q) : Crowding(mem, q, m, limit)
TopOf(mem, q, c, project, sets) ==
    \E S \in sets : CutFrom(mem, q, {m \in S : mem[m].project = project}, WindowOf(c))
Counted(mem, t, c, sets) ==
    \E S \in sets : t = [k \in {mem[m].category : m \in DOMAIN mem} |->
                            Cardinality({m \in Sees(mem, c, S) : mem[m].category = k})]
RemainingOf(c) ==
    [items |-> Less(c.items, Len(c.profile)), chars |-> Less(c.chars, Chars(c.profile)),
     tokens |-> IF c.tokens = NoBudget THEN NoBudget ELSE Less(c.tokens, Tokens(c.profile)),
     floor |-> TruncateFloor]

Common(c) ==
    /\ {"pc", "op", "project", "tokens", "strategy", "vector"} \subseteq DOMAIN c
    /\ c.project \in Projects \cup {Global} /\ c.tokens \in Nat \cup {NoBudget}
LegRead(c, leg, V) == leg \in DOMAIN c /\ Distinct(c[leg], V)
LegsRead(c, V) == LegRead(c, "vector", V) /\ LegRead(c, "text", V) /\ LegRead(c, "trigram", V)

RecallDone(mem, c) ==
    /\ {"fused", "hits"} \subseteq DOMAIN c /\ c.fused = FusedOf(mem, c)
    /\ c.hits = PackByTokenBudget(ReorderByStrategy(c.fused, c.strategy, mem),
                                  c.limit, c.tokens, mem)
RecallInv(mem, c, sets) ==
    /\ Common(c) /\ c.op = "recall" /\ "limit" \in DOMAIN c /\ c.limit \in Nat
    /\ c.pc \in {"vector", "text", "trigram", "fuse", "done"}
    /\ LegRead(c, "vector", Sees(mem, c, UNION sets))
    /\ c.pc \in {"trigram", "fuse", "done"} => LegRead(c, "text", Sees(mem, c, UNION sets))
    /\ c.pc \in {"fuse", "done"} => LegRead(c, "trigram", Sees(mem, c, UNION sets))
    /\ c.pc = "done" => RecallDone(mem, c)

RowRead(mem, c, g) ==
    "row" \in DOMAIN c /\ Slice(c.row.static, DOMAIN mem) /\ c.row.generation \in Nat
    /\ c.row.generation <= g
CurrentRead(mem, c, sets) ==
    /\ "current" \in DOMAIN c /\ c.current \in BOOLEAN
    /\ c.current => ItemIds(c.row.static) \subseteq Sees(mem, c, UNION sets)
GlobalTopRead(mem, c, sets) == "globalTop" \in DOMAIN c /\ TopOf(mem, c.globalTop, c, Global, sets)
ProjectTopRead(mem, c, sets) ==
    /\ "projectTop" \in DOMAIN c
    /\ IF c.project = Global THEN c.projectTop = <<>>
       ELSE TopOf(mem, c.projectTop, c, c.project, sets)
DynamicRead(mem, c, sets) == "dynamic" \in DOMAIN c /\ c.dynamic \subseteq Sees(mem, c, UNION sets)
TotalsRead(mem, c, sets) == "totals" \in DOMAIN c /\ Counted(mem, c.totals, c, sets)

InCategory(mem, items, k) == {m \in ItemIds(items) : mem[m].category = k}
ContextDone(mem, c, V) ==
    /\ {"focused", "profile", "groups", "gaps"} \subseteq DOMAIN c
    /\ c.focused = ToSet(FocusOf(mem, c)) /\ Slice(c.profile, V)
    /\ Within(c.profile, AtMost(c.items, ProfileReserve.items), AtMost(c.chars, ProfileReserve.chars))
    /\ c.groups = Assemble(PackingOrder(c.globalTop, c.projectTop, FocusOf(mem, c), ItemIds(c.profile),
                                        c.strategy, mem), RemainingOf(c), mem).kept
    /\ c.gaps = [k \in DOMAIN c.totals |->
                    Less(c.totals[k], Cardinality(InCategory(mem, c.groups, k))
                                      + Cardinality(InCategory(mem, c.profile, k)))]
Searching == {"vector", "text", "trigram", "assemble", "done"}
ContextInv(mem, c, A, sets, g) ==
    /\ Common(c) /\ c.op = "context"
    /\ {"items", "chars", "focus", "embedded"} \subseteq DOMAIN c
    /\ c.items \in Nat /\ c.chars \in Nat /\ c.focus \in BOOLEAN
    /\ c.pc \in {"profile", "generation", "globalTop", "projectTop", "dynamic", "totals"} \cup Searching
    /\ LegsRead(c, Sees(mem, c, UNION sets))
    /\ c.pc # "profile" => RowRead(mem, c, g)
    /\ c.pc = "generation" /\ c.row.generation = g => ItemIds(c.row.static) \subseteq Sees(mem, c, A)
    /\ c.pc \in {"globalTop", "projectTop", "dynamic", "totals"} \cup Searching => CurrentRead(mem, c, sets)
    /\ c.pc \in {"projectTop", "dynamic", "totals"} \cup Searching => GlobalTopRead(mem, c, sets)
    /\ c.pc \in {"dynamic", "totals"} \cup Searching => ProjectTopRead(mem, c, sets)
    /\ c.pc \in {"totals"} \cup Searching => DynamicRead(mem, c, sets)
    /\ c.pc \in Searching => TotalsRead(mem, c, sets)
    /\ c.pc = "done" => ContextDone(mem, c, Sees(mem, c, UNION sets))

CallRead(mem, c, A, sets, g) ==
    /\ "pc" \in DOMAIN c
    /\ c.pc = "idle" \/ (A \in sets /\ (RecallInv(mem, c, sets) \/ ContextInv(mem, c, A, sets, g)))
RowInv(mem, row, p, A, g) ==
    /\ row.generation \in Nat /\ row.generation <= g /\ Slice(row.static, DOMAIN mem)
    /\ row.generation = g =>
          ItemIds(row.static) \subseteq {m \in A : mem[m].project \in {p, Global}}
ReadsInv ==
    /\ memory \in Corpora /\ generation \in Nat \ {0}
    /\ DOMAIN rows = Projects \cup {Global}
    /\ \A p \in DOMAIN rows : RowInv(memory, rows[p], p, Active, generation)
    /\ seen \subseteq SUBSET Memories
    /\ CallRead(memory, call, Active, seen, generation)

LEMMA ReadsStart == ReadsInit => ReadsInv
<1> SUFFICES ASSUME ReadsInit PROVE ReadsInv
  OBVIOUS
<1>1. PICK none : none = <<>> /\ Slice(none, Memories)
  BY NoSlice
<1>2. \A p \in Projects \cup {Global} : rows[p] = [generation |-> 0, static |-> none]
  BY <1>1 DEF ReadsInit, NoRow
<1>3. \A p \in Projects \cup {Global} : RowInv(memory, rows[p], p, Active, generation)
  BY <1>1, <1>2 DEF RowInv, ReadsInit, Memories
<1> QED BY <1>3 DEF ReadsInit, ReadsInv, CallRead, Memories

(* n is c at another statement, with what one returned. *)
Holds(n, c, next, field, value) ==
    /\ DOMAIN n = DOMAIN c \cup {field} /\ n.pc = next /\ n[field] = value
    /\ \A f \in DOMAIN c : f \notin {"pc", field} => n[f] = c[f]
LEMMA GotIs ==
    ASSUME NEW c, "pc" \in DOMAIN c, NEW next, NEW news, NEW field, field # "pc",
           DOMAIN news = {field}, NEW n, n = With([c EXCEPT !.pc = next], news)
    PROVE  Holds(n, c, next, field, news[field])
<1>1. PICK d : d = [c EXCEPT !.pc = next]
  OBVIOUS
<1>2. DOMAIN d = DOMAIN c /\ d.pc = next /\ \A f \in DOMAIN c : f # "pc" => d[f] = c[f]
  BY <1>1
<1>3. /\ DOMAIN n = DOMAIN d \cup {field} /\ n[field] = news[field]
      /\ \A f \in DOMAIN d \ {field} : n[f] = d[f]
  <2>1. n = With(d, news)
    BY <1>1
  <2>2. DOMAIN n = DOMAIN d \cup {field}
    BY <2>1 DEF With
  <2>3. \A f \in DOMAIN n : n[f] = IF f \in {field} THEN news[f] ELSE d[f]
    BY <2>1 DEF With
  <2> QED BY <2>2, <2>3
<1>4. n.pc = next
  BY <1>2, <1>3
<1> QED BY <1>2, <1>3, <1>4 DEF Holds

(* Memories that become active later do not disturb what was read.         *)
LEMMA SeesMore ==
    ASSUME NEW c, NEW S, NEW T, S \subseteq T
    PROVE  Sees(memory, c, S) \subseteq Sees(memory, c, T)
BY DEF Sees
LEMMA MoreSeen ==
    ASSUME NEW c, NEW A, NEW B, NEW sets, NEW more, sets \subseteq more, B \in more,
           NEW g \in Nat, CallRead(memory, c, A, sets, g), c.pc # "done"
    PROVE  CallRead(memory, c, B, more, g + 1)
<1>1. Sees(memory, c, UNION sets) \subseteq Sees(memory, c, UNION more)
  BY SeesMore
<1>2. \A q : Distinct(q, Sees(memory, c, UNION sets)) => Distinct(q, Sees(memory, c, UNION more))
  BY <1>1, DistinctMore
<1>3. \A leg : LegRead(c, leg, Sees(memory, c, UNION sets)) => LegRead(c, leg, Sees(memory, c, UNION more))
  BY <1>2 DEF LegRead
<1>4. RecallInv(memory, c, sets) => RecallInv(memory, c, more)
  BY <1>3 DEF RecallInv
<1>5. ASSUME ContextInv(memory, c, A, sets, g) PROVE ContextInv(memory, c, B, more, g + 1)
  <2>1. \A q, p : TopOf(memory, q, c, p, sets) => TopOf(memory, q, c, p, more)
    BY DEF TopOf
  <2>2. \A t : Counted(memory, t, c, sets) => Counted(memory, t, c, more)
    BY DEF Counted
  <2>3. c.pc # "profile" => RowRead(memory, c, g + 1) /\ c.row.generation # g + 1
    BY <1>5 DEF ContextInv, RowRead
  <2>4. CurrentRead(memory, c, sets) => CurrentRead(memory, c, more)
    BY <1>1 DEF CurrentRead
  <2>5. GlobalTopRead(memory, c, sets) => GlobalTopRead(memory, c, more)
    BY <2>1 DEF GlobalTopRead
  <2>6. ProjectTopRead(memory, c, sets) => ProjectTopRead(memory, c, more)
    BY <2>1 DEF ProjectTopRead
  <2>7. DynamicRead(memory, c, sets) => DynamicRead(memory, c, more)
    BY <1>1 DEF DynamicRead
  <2>8. TotalsRead(memory, c, sets) => TotalsRead(memory, c, more)
    BY <2>2 DEF TotalsRead
  <2>9. LegsRead(c, Sees(memory, c, UNION more))
    BY <1>3, <1>5 DEF LegsRead, ContextInv
  <2> QED BY <1>5, <2>3, <2>4, <2>5, <2>6, <2>7, <2>8, <2>9 DEF ContextInv
<1> QED BY <1>4, <1>5 DEF CallRead

(***************************************************************************)
(* What the actions of other sessions and the start of a call keep.        *)
(***************************************************************************)
LEMMA VisibleIs == \A S : Visible(S) = Sees(memory, call, S)
BY DEF Visible, Sees

LEMMA PoolsIn ==
    ASSUME ReadsInv
    PROVE  /\ Active \in SUBSET Memories /\ UNION seen \in SUBSET Memories
           /\ \A p : Pool(p) \in SUBSET Memories
           /\ ~At("idle") => Active \in seen /\ \A c : Sees(memory, c, Active) \subseteq Sees(memory, c, UNION seen)
<1>1. Active \in SUBSET Memories /\ UNION seen \in SUBSET Memories /\ \A p : Pool(p) \in SUBSET Memories
  BY DEF Active, Pool, ReadsInv
<1>2. ASSUME ~At("idle") PROVE Active \in seen
  BY <1>2 DEF ReadsInv, CallRead, At
<1>3. ASSUME ~At("idle"), NEW c PROVE Sees(memory, c, Active) \subseteq Sees(memory, c, UNION seen)
  <2>1. Active \subseteq UNION seen
    BY <1>2, <1>3
  <2> QED BY <2>1, SeesMore
<1> QED BY <1>1, <1>2, <1>3

LEMMA SelectStaticIs ==
    ASSUME ReadsInv, NEW project
    PROVE  Slice(SelectStatic(project), {m \in Active : memory[m].project \in {project, Global}})
<1>1. PICK S : S = Pool(project) \cup Pool(Global)
  OBVIOUS
<1>2. S = {m \in Active : memory[m].project \in {project, Global}}
  BY <1>1 DEF Pool
<1>3. S \in SUBSET Memories
  BY <1>1, PoolsIn
<1>4. ProfileStatic.items \in Nat /\ ProfileStatic.chars \in Nat /\ memory \in Corpora
  BY ReadsAssumption DEF ReadsInv
<1>5. Slice(StaticSlice(S, memory, ProfileStatic.items, ProfileStatic.chars), S)
  BY <1>3, <1>4, StaticSliceIs
<1> QED BY <1>1, <1>2, <1>5 DEF SelectStatic

LEMMA SliceMore ==
    ASSUME NEW items, NEW S, NEW T, S \subseteq T, Slice(items, S)
    PROVE  Slice(items, T)
<1>1. Item(S) \subseteq Item(T)
  BY DEF Item
<1> QED BY <1>1 DEF Slice

LEMMA SliceIds ==
    ASSUME NEW items, NEW S, Slice(items, S)
    PROVE  ItemIds(items) \subseteq S
BY ItemsOf DEF Slice

LEMMA SliceWithin ==
    ASSUME NEW items, NEW S, NEW T, Slice(items, S), ItemIds(items) \subseteq T
    PROVE  Slice(items, T)
<1>1. items \in Seq(Item(S)) /\ DOMAIN items = 1..Len(items) /\ Len(items) \in Nat
  BY DEF Slice
<1>2. \A i \in DOMAIN items : items[i] \in Item(S) /\ items[i].id \in T
  BY <1>1 DEF ItemIds
<1>3. \A it \in Item(S) : it.id \in T => it \in Item(T)
  BY DEF Item
<1>4. \A i \in DOMAIN items : items[i] \in Item(T)
  BY <1>2, <1>3
<1>5. items \in Seq(Item(T))
  BY <1>1, <1>4
<1> QED BY <1>5 DEF Slice

LEMMA WriteKeeps ==
    ASSUME ReadsInv, NEW retired, NEW stored, retired \subseteq Memories, stored \subseteq Memories,
           Write(retired, stored)
    PROVE  ReadsInv'
<1>1. PICK B : B = (Active \ retired) \cup stored
  OBVIOUS
<1>2. /\ memory' = memory /\ rows' = rows /\ call' = call /\ seen' = seen \cup {B}
      /\ generation' = generation + 1 /\ generation \in Nat \ {0}
      /\ ~At("idle") /\ ~At("done")
  BY <1>1 DEF Write, Running, ReadsInv
<1>3. Active' = B
  <2>1. stage' = [m \in Memories |-> IF m \in retired THEN "gone"
                                    ELSE IF m \in stored THEN "active" ELSE stage[m]]
    BY DEF Write
  <2>2. \A m \in Memories : stage'[m] = "active" <=> m \in B
    <3>1. \A m \in stored : m \notin retired
      BY DEF Write, Active
    <3> QED BY <1>1, <2>1, <3>1 DEF Active
  <2>3. Memories' = Memories
    BY <1>2 DEF Memories
  <2>4. B \subseteq Memories
    BY <1>1 DEF Active
  <2> QED BY <2>2, <2>3, <2>4 DEF Active
<1>4. \A p \in DOMAIN rows : RowInv(memory, rows[p], p, B, generation + 1)
  BY <1>2 DEF ReadsInv, RowInv
<1>5. CallRead(memory, call, B, seen \cup {B}, generation + 1)
  <2>1. CallRead(memory, call, Active, seen, generation) /\ call.pc # "done"
    BY <1>2 DEF ReadsInv, At
  <2> QED BY <1>2, <2>1, MoreSeen
<1>6. B \subseteq Memories /\ Memories' = Memories
  BY <1>1, <1>2 DEF Active, Memories
<1> QED BY <1>2, <1>3, <1>4, <1>5, <1>6 DEF ReadsInv

LEMMA MaterializeKeeps ==
    ASSUME ReadsInv, NEW project \in DOMAIN rows, Materialize(project)
    PROVE  ReadsInv'
<1>1. PICK row : row = [generation |-> generation, static |-> SelectStatic(project)]
  OBVIOUS
<1>2. /\ rows' = [rows EXCEPT ![project] = row] /\ memory' = memory /\ generation' = generation
      /\ call' = call /\ seen' = seen /\ Active' = Active /\ Memories' = Memories
  BY <1>1 DEF Materialize, Active, Memories
<1>3. RowInv(memory, row, project, Active, generation)
  <2>1. PICK S, static : /\ S = {m \in Active : memory[m].project \in {project, Global}}
                         /\ static = SelectStatic(project)
    OBVIOUS
  <2>2. Slice(static, S) /\ S \subseteq Memories
    BY <2>1, SelectStaticIs DEF Active
  <2>3. Slice(static, Memories) /\ ItemIds(static) \subseteq S
    BY <2>2, SliceMore, SliceIds
  <2> QED BY <1>1, <2>1, <2>3 DEF RowInv, ReadsInv, Memories
<1>4. \A p \in DOMAIN rows : RowInv(memory, rows'[p], p, Active, generation)
  BY <1>2, <1>3 DEF ReadsInv
<1>5. DOMAIN rows' = DOMAIN rows
  BY <1>2
<1> QED BY <1>2, <1>4, <1>5 DEF ReadsInv

(* A step that only moves the call. *)
LEMMA OnlyCall ==
    ASSUME ReadsInv, UNCHANGED <<memory, stage, generation, rows, seen>>,
           CallRead(memory, call', Active, seen, generation)
    PROVE  ReadsInv'
<1>1. Active' = Active /\ Memories' = Memories
  BY DEF Active, Memories
<1> QED BY <1>1 DEF ReadsInv

LEMMA EmptyList == \A S : Distinct(<<>>, S)
BY EmptyLeg DEF ReadLeg

LEMMA StartRecallKeeps ==
    ASSUME ReadsInv, NEW c \in Recalls, StartRecall(c)
    PROVE  ReadsInv'
<1>1. PICK embedded \in BOOLEAN :
        call' = With(c, [op |-> "recall", vector |-> <<>>, pc |-> IF embedded THEN "vector" ELSE "text"])
  BY DEF StartRecall
<1>2. PICK news, none : /\ none = <<>>
                        /\ news = [op |-> "recall", vector |-> none,
                                   pc |-> IF embedded THEN "vector" ELSE "text"]
  OBVIOUS
<1>3. /\ DOMAIN news = {"op", "vector", "pc"} /\ news.op = "recall" /\ news.vector = none
      /\ news.pc \in {"vector", "text"}
  BY <1>2
<1>4. PICK n : n = With(c, news) /\ n = call'
  BY <1>1, <1>2
<1>5. /\ DOMAIN n = DOMAIN c \cup {"op", "vector", "pc"} /\ n.op = "recall" /\ n.vector = none
      /\ n.pc \in {"vector", "text"}
      /\ \A f \in DOMAIN c : f \notin {"op", "vector", "pc"} => n[f] = c[f]
  BY <1>3, <1>4 DEF With
<1>6. /\ {"project", "tokens", "strategy", "limit"} \subseteq DOMAIN c
      /\ c.project \in Projects \cup {Global} /\ c.tokens \in Nat \cup {NoBudget} /\ c.limit \in Nat
  BY ReadsAssumption DEF Posed
<1>7. Common(n) /\ "limit" \in DOMAIN n /\ n.limit \in Nat
  BY <1>5, <1>6 DEF Common
<1>8. LegRead(n, "vector", Sees(memory, n, UNION {Active}))
  BY <1>2, <1>5, EmptyList DEF LegRead
<1>9. RecallInv(memory, n, {Active})
  BY <1>5, <1>7, <1>8 DEF RecallInv
<1>10. CallRead(memory, n, Active, {Active}, generation)
  BY <1>5, <1>9 DEF CallRead
<1>11. /\ UNCHANGED <<memory, stage, generation, rows>> /\ seen' = {Active} /\ Active' = Active
       /\ Memories' = Memories /\ Active \subseteq Memories
  BY DEF StartRecall, Active, Memories
<1> QED BY <1>4, <1>10, <1>11 DEF ReadsInv

LEMMA StartContextKeeps ==
    ASSUME ReadsInv, NEW c \in Contexts, StartContext(c)
    PROVE  ReadsInv'
<1>1. PICK embedded \in BOOLEAN :
        call' = With(c, [op |-> "context", pc |-> "profile", embedded |-> embedded,
                         vector |-> <<>>, text |-> <<>>, trigram |-> <<>>])
  BY DEF StartContext
<1>2. PICK none : none = <<>>
  OBVIOUS
<1>3. PICK news : news = [op |-> "context", pc |-> "profile", embedded |-> embedded,
                          vector |-> none, text |-> none, trigram |-> none]
  OBVIOUS
<1>4. /\ DOMAIN news = {"op", "pc", "embedded", "vector", "text", "trigram"} /\ news.op = "context"
      /\ news.vector = none /\ news.text = none /\ news.trigram = none /\ news.pc = "profile"
  BY <1>3
<1>5. PICK n : n = With(c, news) /\ n = call'
  BY <1>1, <1>2, <1>3
<1>6. /\ DOMAIN n = DOMAIN c \cup {"op", "pc", "embedded", "vector", "text", "trigram"}
      /\ n.op = "context" /\ n.vector = none /\ n.text = none /\ n.trigram = none /\ n.pc = "profile"
      /\ \A f \in DOMAIN c : f \notin {"op", "pc", "embedded", "vector", "text", "trigram"} => n[f] = c[f]
  BY <1>4, <1>5 DEF With
<1>7. /\ {"project", "tokens", "strategy", "items", "chars", "focus"} \subseteq DOMAIN c
      /\ c.project \in Projects \cup {Global} /\ c.tokens \in Nat \cup {NoBudget}
      /\ c.items \in Nat /\ c.chars \in Nat /\ c.focus \in BOOLEAN
  BY ReadsAssumption DEF Posed
<1>8. /\ Common(n) /\ {"items", "chars", "focus", "embedded"} \subseteq DOMAIN n
      /\ n.items \in Nat /\ n.chars \in Nat /\ n.focus \in BOOLEAN
  BY <1>6, <1>7 DEF Common
<1>9. LegsRead(n, Sees(memory, n, UNION {Active}))
  BY <1>2, <1>6, EmptyList DEF LegRead, LegsRead
<1>10. ContextInv(memory, n, Active, {Active}, generation)
  BY <1>6, <1>8, <1>9 DEF ContextInv, Searching
<1>11. CallRead(memory, n, Active, {Active}, generation)
  BY <1>6, <1>10 DEF CallRead
<1>12. /\ UNCHANGED <<memory, stage, generation, rows>> /\ seen' = {Active} /\ Active' = Active
       /\ Memories' = Memories /\ Active \subseteq Memories
  BY DEF StartContext, Active, Memories
<1> QED BY <1>5, <1>11, <1>12 DEF ReadsInv

(***************************************************************************)
(* The legs of the search: each keeps what the others read.                *)
(***************************************************************************)
Given == {"op", "project", "tokens", "strategy", "items", "chars", "focus", "embedded", "limit"}
LEMMA Kept ==
    ASSUME NEW c, NEW n, NEW next, NEW field, NEW value, Holds(n, c, next, field, value),
           "pc" \in DOMAIN c, field \notin Given, field # "pc", Common(c)
    PROVE  /\ Common(n) /\ n.pc = next /\ n.op = c.op /\ n.project = c.project
           /\ \A S : Sees(memory, n, S) = Sees(memory, c, S)
           /\ \A leg, V : field # leg /\ leg # "pc" /\ LegRead(c, leg, V) => LegRead(n, leg, V)
           /\ \A V : Distinct(value, V) => LegRead(n, field, V)
<1>1. /\ "op" \in DOMAIN c /\ "project" \in DOMAIN c /\ "tokens" \in DOMAIN c
      /\ n.op = c.op /\ n.project = c.project /\ n.tokens = c.tokens
  BY DEF Holds, Given, Common
<1>2. Common(n)
  BY <1>1 DEF Common, Holds
<1>3. \A S : Sees(memory, n, S) = Sees(memory, c, S)
  BY <1>1 DEF Sees
<1> QED BY <1>1, <1>2, <1>3 DEF LegRead, Holds

LEMMA KeptContext ==
    ASSUME NEW c, NEW n, NEW next, NEW field, NEW value, Holds(n, c, next, field, value),
           "pc" \in DOMAIN c, field \notin Given, field # "pc", Common(c),
           {"items", "chars", "focus", "embedded"} \subseteq DOMAIN c,
           c.items \in Nat /\ c.chars \in Nat /\ c.focus \in BOOLEAN, NEW sets, NEW g
    PROVE  /\ {"items", "chars", "focus", "embedded"} \subseteq DOMAIN n
           /\ n.items \in Nat /\ n.chars \in Nat /\ n.focus \in BOOLEAN
           /\ field # "row" /\ RowRead(memory, c, g) => RowRead(memory, n, g) /\ n.row = c.row
           /\ field \notin {"row", "current"} /\ CurrentRead(memory, c, sets) /\ "row" \in DOMAIN c
                 => CurrentRead(memory, n, sets)
           /\ field # "globalTop" /\ GlobalTopRead(memory, c, sets) => GlobalTopRead(memory, n, sets)
           /\ field # "projectTop" /\ ProjectTopRead(memory, c, sets) => ProjectTopRead(memory, n, sets)
           /\ field # "dynamic" /\ DynamicRead(memory, c, sets) => DynamicRead(memory, n, sets)
           /\ field # "totals" /\ TotalsRead(memory, c, sets) => TotalsRead(memory, n, sets)
           /\ WindowOf(n) = WindowOf(c)
<1>1. \A S : Sees(memory, n, S) = Sees(memory, c, S)
  BY Kept
<1>2. n.project = c.project
  BY Kept
<1>3. n.items = c.items /\ n.chars = c.chars /\ n.focus = c.focus
      /\ {"items", "chars", "focus", "embedded"} \subseteq DOMAIN n
  BY DEF Holds, Given
<1>4. WindowOf(n) = WindowOf(c)
  BY <1>3 DEF WindowOf
<1>5. \A q, p : TopOf(memory, q, c, p, sets) => TopOf(memory, q, n, p, sets)
  BY <1>4 DEF TopOf
<1>6. \A f \in DOMAIN c : f \notin {"pc", field} => f \in DOMAIN n /\ n[f] = c[f]
  BY DEF Holds
<1>7. field # "row" /\ RowRead(memory, c, g) => RowRead(memory, n, g) /\ n.row = c.row
  BY <1>6 DEF RowRead
<1>8. field \notin {"row", "current"} /\ CurrentRead(memory, c, sets) /\ "row" \in DOMAIN c
         => CurrentRead(memory, n, sets)
  BY <1>1, <1>6 DEF CurrentRead
<1>9. field # "globalTop" /\ GlobalTopRead(memory, c, sets) => GlobalTopRead(memory, n, sets)
  BY <1>5, <1>6 DEF GlobalTopRead
<1>10. field # "projectTop" /\ ProjectTopRead(memory, c, sets) => ProjectTopRead(memory, n, sets)
  BY <1>2, <1>5, <1>6 DEF ProjectTopRead
<1>11. field # "dynamic" /\ DynamicRead(memory, c, sets) => DynamicRead(memory, n, sets)
  BY <1>1, <1>6 DEF DynamicRead
<1>12. field # "totals" /\ TotalsRead(memory, c, sets) => TotalsRead(memory, n, sets)
  <2> SUFFICES ASSUME field # "totals", TotalsRead(memory, c, sets) PROVE TotalsRead(memory, n, sets)
    OBVIOUS
  <2>1. PICK S \in sets : c.totals = [k \in {memory[m].category : m \in DOMAIN memory} |->
                            Cardinality({m \in Sees(memory, c, S) : memory[m].category = k})]
    BY DEF TotalsRead, Counted
  <2>2. Sees(memory, n, S) = Sees(memory, c, S)
    BY <1>1
  <2>3. "totals" \in DOMAIN n /\ n.totals = c.totals
    BY <1>6 DEF TotalsRead
  <2> QED BY <2>1, <2>2, <2>3 DEF TotalsRead, Counted
<1> QED BY <1>3, <1>4, <1>7, <1>8, <1>9, <1>10, <1>11, <1>12

(* A leg of either call. *)
LEMMA LegKeeps ==
    ASSUME NEW c, NEW n, NEW next, NEW leg, NEW value, Holds(n, c, next, leg, value),
           NEW A, NEW sets, NEW g, CallRead(memory, c, A, sets, g), c.pc # "idle",
           <<c.pc, leg>> \in {<<"vector", "vector">>, <<"text", "text">>, <<"trigram", "trigram">>},
           Distinct(value, Sees(memory, c, UNION sets)),
           \/ leg = "vector" /\ next = "text"
           \/ leg = "text" /\ next = "trigram"
           \/ leg = "trigram" /\ next = IF c.op = "recall" THEN "fuse" ELSE "assemble"
    PROVE  CallRead(memory, n, A, sets, g)
<1>1. /\ "pc" \in DOMAIN c /\ A \in sets /\ leg \in {"vector", "text", "trigram"} /\ c.pc = leg
      /\ RecallInv(memory, c, sets) \/ ContextInv(memory, c, A, sets, g)
  BY DEF CallRead
<1>2. leg \notin Given /\ leg # "pc" /\ Common(c)
  BY <1>1 DEF Given, RecallInv, ContextInv
<1>3. PICK V : V = Sees(memory, c, UNION sets)
  OBVIOUS
<1>4. /\ Common(n) /\ n.pc = next /\ n.op = c.op /\ V = Sees(memory, n, UNION sets)
      /\ \A l : leg # l /\ l # "pc" /\ LegRead(c, l, V) => LegRead(n, l, V)
      /\ LegRead(n, leg, V) /\ "pc" \in DOMAIN n
  <2>1. "pc" \in DOMAIN n
    BY <1>1 DEF Holds
  <2> QED BY <1>1, <1>2, <1>3, <2>1, Kept
<1>5. ASSUME RecallInv(memory, c, sets) PROVE RecallInv(memory, n, sets)
  <2>1. "limit" \in DOMAIN n /\ n.limit \in Nat /\ n.op = "recall"
    BY <1>2, <1>4, <1>5 DEF RecallInv, Holds, Given
  <2>2. next \in {"text", "trigram", "fuse"}
    BY <1>5 DEF RecallInv
  <2>3. LegRead(n, "vector", V)
    BY <1>3, <1>4, <1>5 DEF RecallInv
  <2>4. next \in {"trigram", "fuse"} => LegRead(n, "text", V)
    BY <1>1, <1>3, <1>4, <1>5 DEF RecallInv
  <2>5. next = "fuse" => LegRead(n, "trigram", V)
    BY <1>1, <1>3, <1>4, <1>5 DEF RecallInv
  <2> QED BY <1>4, <2>1, <2>2, <2>3, <2>4, <2>5 DEF RecallInv
<1>6. ASSUME ContextInv(memory, c, A, sets, g) PROVE ContextInv(memory, n, A, sets, g)
  <2>1. n.op = "context" /\ next \in {"text", "trigram", "assemble"}
    BY <1>4, <1>6 DEF ContextInv
  <2>2. LegsRead(n, V)
    BY <1>1, <1>3, <1>4, <1>6 DEF ContextInv, LegsRead
  <2>3. /\ RowRead(memory, c, g) /\ CurrentRead(memory, c, sets) /\ GlobalTopRead(memory, c, sets)
        /\ ProjectTopRead(memory, c, sets) /\ DynamicRead(memory, c, sets) /\ TotalsRead(memory, c, sets)
        /\ {"items", "chars", "focus", "embedded"} \subseteq DOMAIN c
        /\ c.items \in Nat /\ c.chars \in Nat /\ c.focus \in BOOLEAN /\ "row" \in DOMAIN c
    BY <1>1, <1>6 DEF ContextInv, Searching, RowRead
  <2>4. /\ RowRead(memory, n, g) /\ CurrentRead(memory, n, sets) /\ GlobalTopRead(memory, n, sets)
        /\ ProjectTopRead(memory, n, sets) /\ DynamicRead(memory, n, sets) /\ TotalsRead(memory, n, sets)
        /\ {"items", "chars", "focus", "embedded"} \subseteq DOMAIN n
        /\ n.items \in Nat /\ n.chars \in Nat /\ n.focus \in BOOLEAN
    BY <1>1, <1>2, <2>3, KeptContext
  <2> QED BY <1>4, <2>1, <2>2, <2>4 DEF ContextInv, Searching
<1> QED BY <1>1, <1>4, <1>5, <1>6 DEF CallRead

LEMMA CandidatesKeep ==
    ASSUME ReadsInv, VectorCandidates \/ TextCandidates \/ TrigramCandidates
    PROVE  ReadsInv'
<1>1. PICK leg \in {"vector", "text", "trigram"} :
        \E next, value, news :
            /\ At(leg) /\ Got(next, news) /\ DOMAIN news = {leg} /\ news[leg] = value
            /\ value = <<>> \/ value = Leg(Field(leg))
            /\ \/ leg = "vector" /\ next = "text"
               \/ leg = "text" /\ next = "trigram"
               \/ leg = "trigram" /\ next = IF call.op = "recall" THEN "fuse" ELSE "assemble"
  <2>1. CASE VectorCandidates
    <3>1. PICK value, news : value = Leg(Field("vector")) /\ news = [vector |-> value]
      OBVIOUS
    <3>2. At("vector") /\ Got("text", news) /\ DOMAIN news = {"vector"} /\ news["vector"] = value
      BY <2>1, <3>1 DEF VectorCandidates
    <3> QED BY <3>1, <3>2
  <2>2. CASE TextCandidates
    <3>1. PICK value, news : value = Leg(Field("text")) /\ news = [text |-> value]
      OBVIOUS
    <3>2. At("text") /\ Got("trigram", news) /\ DOMAIN news = {"text"} /\ news["text"] = value
      BY <2>2, <3>1 DEF TextCandidates
    <3> QED BY <3>1, <3>2
  <2>3. CASE TrigramCandidates
    <3>1. PICK value : value = IF TrigramWeight = 0 THEN <<>> ELSE Leg(Field("trigram"))
      OBVIOUS
    <3>2. PICK news, next : news = [trigram |-> value] /\ next = IF call.op = "recall" THEN "fuse" ELSE "assemble"
      OBVIOUS
    <3>3. At("trigram") /\ Got(next, news) /\ DOMAIN news = {"trigram"} /\ news["trigram"] = value
      BY <2>3, <3>1, <3>2 DEF TrigramCandidates
    <3> QED BY <3>1, <3>2, <3>3
  <2> QED BY <2>1, <2>2, <2>3
<1>2. PICK next, value, news :
            /\ At(leg) /\ Got(next, news) /\ DOMAIN news = {leg} /\ news[leg] = value
            /\ value = <<>> \/ value = Leg(Field(leg))
            /\ \/ leg = "vector" /\ next = "text"
               \/ leg = "text" /\ next = "trigram"
               \/ leg = "trigram" /\ next = IF call.op = "recall" THEN "fuse" ELSE "assemble"
  BY <1>1
<1>3. memory \in Corpora /\ call.pc = leg /\ ~At("idle") /\ "pc" \in DOMAIN call
      /\ CallRead(memory, call, Active, seen, generation)
  BY <1>2 DEF At, ReadsInv, CallRead
<1>4. Distinct(value, Sees(memory, call, UNION seen))
  <2>1. CASE value = <<>>
    BY <2>1, EmptyList
  <2>2. CASE value = Leg(Field(leg))
    <3>1. Distinct(value, Visible(Active))
      BY <1>3, <2>2, LegIs, PoolsIn
    <3>2. Visible(Active) \subseteq Sees(memory, call, UNION seen)
      BY <1>3, PoolsIn, VisibleIs
    <3> QED BY <3>1, <3>2, DistinctMore
  <2> QED BY <1>2, <2>1, <2>2
<1>5. PICK n : n = call'
  OBVIOUS
<1>6. Holds(n, call, next, leg, value)
  <2>1. n = With([call EXCEPT !.pc = next], news)
    BY <1>2, <1>5 DEF Got
  <2>2. leg # "pc"
    OBVIOUS
  <2> QED BY <1>2, <1>3, <2>1, <2>2, GotIs
<1>7. CallRead(memory, n, Active, seen, generation)
  BY <1>2, <1>3, <1>4, <1>6, LegKeeps
<1> QED BY <1>2, <1>5, <1>7, OnlyCall DEF Got

(***************************************************************************)
(* The reads of context, one field each.                                   *)
(***************************************************************************)
LEMMA CutIs ==
    ASSUME memory \in Corpora, NEW S \in SUBSET Memories, NEW limit \in Nat
    PROVE  CutFrom(memory, CategoryTop(S, limit), S, limit)
<1>1. PICK q : q = CategoryTop(S, limit)
  OBVIOUS
<1>2. Distinct(q, S) /\ \A m \in S \ ToSet(q) : Crowded(q, m, S, limit)
  BY <1>1, CategoryTopIs
<1>3. ASSUME NEW x, NEW m, <<x, m>> \in Best(S, Field("importance")) PROVE NotAfter(memory, x, m)
  <2>1. /\ x \in S /\ m \in S
        /\ \/ Field("importance")[x] > Field("importance")[m]
           \/ /\ Field("importance")[x] = Field("importance")[m]
              /\ \/ Field("created")[x] > Field("created")[m]
                 \/ Field("created")[x] = Field("created")[m]
    BY <1>3 DEF Best, ByAge, Greater
  <2>2. /\ Field("importance")[x] = memory[x].importance /\ Field("importance")[m] = memory[m].importance
        /\ Field("created")[x] = memory[x].created /\ Field("created")[m] = memory[m].created
        /\ memory[x].created \in Nat /\ memory[m].created \in Nat
    BY <2>1, FieldsAre, CorpusIs DEF Numbers
  <2> QED BY <2>1, <2>2 DEF NotAfter
<1>4. ASSUME NEW m \in S \ ToSet(q) PROVE Crowding(memory, q, m, limit)
  <2>1. Crowded(q, m, S, limit)
    BY <1>2
  <2> QED BY <1>3, <2>1 DEF Crowded, Crowding
<1> QED BY <1>1, <1>2, <1>4 DEF CutFrom

(* The other reads of context: what one returns, and how it follows.       *)
Reading == {"row", "current", "globalTop", "projectTop", "dynamic", "totals"}
Follows(pc, field, next) ==
    \/ pc = "profile" /\ field = "row" /\ next = "generation"
    \/ pc = "generation" /\ field = "current" /\ next = "globalTop"
    \/ pc = "globalTop" /\ field = "globalTop" /\ next = "projectTop"
    \/ pc = "projectTop" /\ field = "projectTop" /\ next = "dynamic"
    \/ pc = "dynamic" /\ field = "dynamic" /\ next = "totals"
    \/ pc = "totals" /\ field = "totals" /\ next \in {"vector", "text", "assemble"}
RowIsOf(mem, n, A, g) ==
    /\ RowRead(mem, n, g)
    /\ n.row.generation = g => ItemIds(n.row.static) \subseteq Sees(mem, n, A)
Fresh(mem, n, field, A, sets, g) ==
    /\ field = "row" => RowIsOf(mem, n, A, g)
    /\ field = "current" => CurrentRead(mem, n, sets)
    /\ field = "globalTop" => GlobalTopRead(mem, n, sets)
    /\ field = "projectTop" => ProjectTopRead(mem, n, sets)
    /\ field = "dynamic" => DynamicRead(mem, n, sets)
    /\ field = "totals" => TotalsRead(mem, n, sets)

LEMMA ContextStep ==
    ASSUME NEW c, NEW n, NEW next, NEW field, NEW value, Holds(n, c, next, field, value),
           NEW A, NEW sets, NEW g, "pc" \in DOMAIN c, ContextInv(memory, c, A, sets, g),
           field \in Reading, Follows(c.pc, field, next), Fresh(memory, n, field, A, sets, g)
    PROVE  ContextInv(memory, n, A, sets, g)
<1>1. /\ field \notin Given /\ field # "pc" /\ field \notin {"vector", "text", "trigram"}
      /\ Common(c) /\ {"items", "chars", "focus", "embedded"} \subseteq DOMAIN c
      /\ c.items \in Nat /\ c.chars \in Nat /\ c.focus \in BOOLEAN
  BY DEF ContextInv, Reading, Given
<1>2. /\ Common(n) /\ n.pc = next /\ n.op = c.op
      /\ \A S : Sees(memory, n, S) = Sees(memory, c, S)
      /\ \A leg, V : field # leg /\ leg # "pc" /\ LegRead(c, leg, V) => LegRead(n, leg, V)
  BY <1>1, Kept
<1>3. LegsRead(n, Sees(memory, n, UNION sets))
  BY <1>1, <1>2 DEF ContextInv, LegsRead
<1>4. /\ {"items", "chars", "focus", "embedded"} \subseteq DOMAIN n
      /\ n.items \in Nat /\ n.chars \in Nat /\ n.focus \in BOOLEAN
  BY <1>1, KeptContext
<1>5. n.op = "context"
  BY <1>2 DEF ContextInv
<1> DEFINE Row == RowRead(memory, n, g)
           Current == CurrentRead(memory, n, sets)
           GTop == GlobalTopRead(memory, n, sets)
           PTop == ProjectTopRead(memory, n, sets)
           Dyn == DynamicRead(memory, n, sets)
           Tot == TotalsRead(memory, n, sets)
<1>6. /\ field # "row" /\ RowRead(memory, c, g) => Row
      /\ field \notin {"row", "current"} /\ CurrentRead(memory, c, sets) /\ RowRead(memory, c, g) => Current
      /\ field # "globalTop" /\ GlobalTopRead(memory, c, sets) => GTop
      /\ field # "projectTop" /\ ProjectTopRead(memory, c, sets) => PTop
      /\ field # "dynamic" /\ DynamicRead(memory, c, sets) => Dyn
      /\ field # "totals" /\ TotalsRead(memory, c, sets) => Tot
  <2>1. RowRead(memory, c, g) => "row" \in DOMAIN c
    BY DEF RowRead
  <2> QED BY <1>1, <2>1, KeptContext
<1>7. CASE c.pc = "profile"
  <2>1. Row /\ next = "generation" /\ (n.row.generation = g => ItemIds(n.row.static) \subseteq Sees(memory, n, A))
    BY <1>7 DEF Fresh, Follows, RowIsOf
  <2> QED BY <1>2, <1>3, <1>4, <1>5, <2>1 DEF ContextInv, Searching
<1>8. CASE c.pc = "generation"
  <2>1. Row /\ Current /\ next = "globalTop"
    BY <1>6, <1>8 DEF Fresh, Follows, ContextInv
  <2> QED BY <1>2, <1>3, <1>4, <1>5, <2>1 DEF ContextInv, Searching
<1>9. CASE c.pc = "globalTop"
  <2>1. Row /\ Current /\ GTop /\ next = "projectTop"
    BY <1>6, <1>9 DEF Fresh, Follows, ContextInv
  <2> QED BY <1>2, <1>3, <1>4, <1>5, <2>1 DEF ContextInv, Searching
<1>10. CASE c.pc = "projectTop"
  <2>1. Row /\ Current /\ GTop /\ PTop /\ next = "dynamic"
    BY <1>6, <1>10 DEF Fresh, Follows, ContextInv
  <2> QED BY <1>2, <1>3, <1>4, <1>5, <2>1 DEF ContextInv, Searching
<1>11. CASE c.pc = "dynamic"
  <2>1. Row /\ Current /\ GTop /\ PTop /\ Dyn /\ next = "totals"
    BY <1>6, <1>11 DEF Fresh, Follows, ContextInv
  <2> QED BY <1>2, <1>3, <1>4, <1>5, <2>1 DEF ContextInv, Searching
<1>12. CASE c.pc = "totals"
  <2>1. Row /\ Current /\ GTop /\ PTop /\ Dyn /\ Tot /\ next \in {"vector", "text", "assemble"}
    BY <1>6, <1>12 DEF Fresh, Follows, ContextInv
  <2> QED BY <1>2, <1>3, <1>4, <1>5, <2>1 DEF ContextInv, Searching
<1> QED BY <1>7, <1>8, <1>9, <1>10, <1>11, <1>12 DEF Follows

LEMMA ReadIs ==
    ASSUME ReadsInv, NEW next, NEW field \in Reading, NEW news, Got(next, news), DOMAIN news = {field},
           call.pc \in {"profile", "generation", "globalTop", "projectTop", "dynamic", "totals"}
    PROVE  /\ Holds(call', call, next, field, news[field])
           /\ ContextInv(memory, call, Active, seen, generation) /\ Active \in seen
           /\ "pc" \in DOMAIN call
           /\ \A S : Sees(memory, call', S) = Sees(memory, call, S)
           /\ call'.project = call.project /\ WindowOf(call') = WindowOf(call)
<1>1. ~RecallInv(memory, call, seen) /\ call.pc # "idle"
  BY DEF RecallInv
<1>2. "pc" \in DOMAIN call /\ Active \in seen /\ ContextInv(memory, call, Active, seen, generation)
  BY <1>1 DEF ReadsInv, CallRead
<1>3. PICK n : n = call'
  OBVIOUS
<1>4. Holds(n, call, next, field, news[field])
  <2>1. n = With([call EXCEPT !.pc = next], news)
    BY <1>3 DEF Got
  <2>2. field # "pc"
    BY DEF Reading
  <2> QED BY <1>2, <2>1, <2>2, GotIs
<1>5. /\ field \notin Given /\ field # "pc"
      /\ Common(call) /\ {"items", "chars", "focus", "embedded"} \subseteq DOMAIN call
      /\ call.items \in Nat /\ call.chars \in Nat /\ call.focus \in BOOLEAN
  BY <1>2 DEF ContextInv, Reading, Given
<1>6. (\A S : Sees(memory, n, S) = Sees(memory, call, S)) /\ n.project = call.project
  BY <1>2, <1>4, <1>5, Kept
<1>7. WindowOf(n) = WindowOf(call)
  BY <1>2, <1>4, <1>5, KeptContext
<1> QED BY <1>2, <1>3, <1>4, <1>6, <1>7

LEMMA ReadKeeps ==
    ASSUME ReadsInv, NEW next, NEW field \in Reading, NEW news, Got(next, news), DOMAIN news = {field},
           Follows(call.pc, field, next), Fresh(memory, call', field, Active, seen, generation)
    PROVE  ReadsInv'
<1>1. PICK n : n = call'
  OBVIOUS
<1>2. call.pc \in {"profile", "generation", "globalTop", "projectTop", "dynamic", "totals"}
  BY DEF Follows
<1>3. /\ Holds(n, call, next, field, news[field])
      /\ ContextInv(memory, call, Active, seen, generation) /\ Active \in seen
      /\ "pc" \in DOMAIN call
  BY <1>1, <1>2, ReadIs
<1>4. ContextInv(memory, n, Active, seen, generation)
  BY <1>1, <1>3, ContextStep
<1>5. CallRead(memory, n, Active, seen, generation)
  BY <1>3, <1>4 DEF CallRead, Holds
<1> QED BY <1>1, <1>5, OnlyCall DEF Got

(***************************************************************************)
(* Each of the reads.                                                      *)
(***************************************************************************)
LEMMA ReadProfileKeeps ==
    ASSUME ReadsInv, ReadProfile
    PROVE  ReadsInv'
<1>1. PICK row, news : row = rows[call.project] /\ news = [row |-> row]
  OBVIOUS
<1>2. /\ Got("generation", news) /\ DOMAIN news = {"row"} /\ news["row"] = row
      /\ call.pc = "profile" /\ ~At("idle")
  BY <1>1 DEF ReadProfile, At
<1>3. /\ Holds(call', call, "generation", "row", row)
      /\ ContextInv(memory, call, Active, seen, generation)
      /\ \A S : Sees(memory, call', S) = Sees(memory, call, S)
      /\ call'.project = call.project
  BY <1>2, ReadIs DEF Reading
<1>4. call.project \in DOMAIN rows
  BY <1>3 DEF ContextInv, Common, ReadsInv
<1>5. RowInv(memory, row, call.project, Active, generation)
  BY <1>1, <1>4 DEF ReadsInv
<1>6. PICK n : n = call'
  OBVIOUS
<1>7. n.row = row /\ "row" \in DOMAIN n
  BY <1>3, <1>6 DEF Holds
<1>8. {m \in Active : memory[m].project \in {call.project, Global}} \subseteq Sees(memory, n, Active)
  BY <1>3, <1>6 DEF Sees
<1>9. RowIsOf(memory, n, Active, generation)
  BY <1>5, <1>7, <1>8 DEF RowIsOf, RowRead, RowInv
<1>10. Fresh(memory, call', "row", Active, seen, generation)
  BY <1>6, <1>9 DEF Fresh
<1> QED BY <1>2, <1>10, ReadKeeps DEF Follows, Reading

LEMMA ReadGenerationKeeps ==
    ASSUME ReadsInv, ReadGeneration
    PROVE  ReadsInv'
<1>1. PICK known, news : known = (call.row.generation = generation) /\ news = [current |-> known]
  OBVIOUS
<1>2. /\ Got("globalTop", news) /\ DOMAIN news = {"current"} /\ news["current"] = known
      /\ call.pc = "generation" /\ ~At("idle")
  BY <1>1 DEF ReadGeneration, At
<1>3. /\ Holds(call', call, "globalTop", "current", known)
      /\ ContextInv(memory, call, Active, seen, generation)
      /\ \A S : Sees(memory, call', S) = Sees(memory, call, S)
  BY <1>2, ReadIs DEF Reading
<1>4. PICK n : n = call'
  OBVIOUS
<1>5. n.current = known /\ "current" \in DOMAIN n /\ n.row = call.row
  BY <1>2, <1>3, <1>4 DEF Holds, ContextInv, RowRead
<1>6. known => ItemIds(n.row.static) \subseteq Sees(memory, n, UNION seen)
  <2>1. known => ItemIds(n.row.static) \subseteq Sees(memory, call, Active)
    BY <1>1, <1>2, <1>3, <1>5 DEF ContextInv
  <2>2. Sees(memory, call, Active) \subseteq Sees(memory, call, UNION seen)
    BY <1>2, PoolsIn
  <2> QED BY <1>3, <1>4, <2>1, <2>2
<1>7. CurrentRead(memory, n, seen)
  <2>1. known \in BOOLEAN
    BY <1>1
  <2> QED BY <1>5, <1>6, <2>1 DEF CurrentRead
<1>8. Fresh(memory, call', "current", Active, seen, generation)
  BY <1>4, <1>7 DEF Fresh
<1> QED BY <1>2, <1>8, ReadKeeps DEF Follows, Reading

(* What the window of a read of one pool leaves.                           *)
LEMMA TopRead ==
    ASSUME ReadsInv, NEW n, NEW project, WindowOf(n) = WindowOf(call),
           ContextInv(memory, call, Active, seen, generation), Active \in seen
    PROVE  TopOf(memory, CategoryTop(Pool(project), PerCategoryLimit), n, project, seen)
<1>1. PICK limit, S : limit = PerCategoryLimit /\ S = Pool(project)
  OBVIOUS
<1>2. limit = WindowOf(n)
  BY <1>1 DEF PerCategoryLimit, WindowOf
<1>3. limit \in Nat
  <2>1. call.items \in Nat /\ ProfileReserve.items \in Nat
    BY ReadsAssumption DEF ContextInv
  <2> QED BY <1>1, <2>1 DEF PerCategoryLimit, AtMost
<1>4. S \in SUBSET Memories /\ memory \in Corpora
  BY <1>1, PoolsIn DEF ReadsInv
<1>5. CutFrom(memory, CategoryTop(S, limit), S, limit)
  BY <1>3, <1>4, CutIs
<1>6. S = {m \in Active : memory[m].project = project}
  BY <1>1 DEF Pool
<1> QED BY <1>1, <1>2, <1>5, <1>6 DEF TopOf

LEMMA ReadGlobalTopKeeps ==
    ASSUME ReadsInv, ReadGlobalTop
    PROVE  ReadsInv'
<1>1. PICK q : q = CategoryTop(Pool(Global), PerCategoryLimit)
  OBVIOUS
<1>2. PICK news : news = [globalTop |-> q]
  OBVIOUS
<1>3. /\ Got("projectTop", news) /\ DOMAIN news = {"globalTop"} /\ news["globalTop"] = q
      /\ call.pc = "globalTop"
  BY <1>1, <1>2 DEF ReadGlobalTop, At
<1>4. /\ Holds(call', call, "projectTop", "globalTop", q)
      /\ ContextInv(memory, call, Active, seen, generation) /\ Active \in seen
      /\ WindowOf(call') = WindowOf(call)
  BY <1>3, ReadIs DEF Reading
<1>5. PICK n : n = call'
  OBVIOUS
<1>6. TopOf(memory, q, n, Global, seen)
  BY <1>1, <1>4, <1>5, TopRead
<1>7. GlobalTopRead(memory, n, seen)
  BY <1>4, <1>5, <1>6 DEF GlobalTopRead, Holds
<1>8. Fresh(memory, call', "globalTop", Active, seen, generation)
  BY <1>5, <1>7 DEF Fresh
<1> QED BY <1>3, <1>8, ReadKeeps DEF Follows, Reading

LEMMA ReadProjectTopKeeps ==
    ASSUME ReadsInv, ReadProjectTop
    PROVE  ReadsInv'
<1>1. PICK q : q = IF call.project = Global THEN <<>>
                   ELSE CategoryTop(Pool(call.project), PerCategoryLimit)
  OBVIOUS
<1>2. PICK news : news = [projectTop |-> q]
  OBVIOUS
<1>3. /\ Got("dynamic", news) /\ DOMAIN news = {"projectTop"} /\ news["projectTop"] = q
      /\ call.pc = "projectTop"
  BY <1>1, <1>2 DEF ReadProjectTop, At
<1>4. /\ Holds(call', call, "dynamic", "projectTop", q)
      /\ ContextInv(memory, call, Active, seen, generation) /\ Active \in seen
      /\ WindowOf(call') = WindowOf(call) /\ call'.project = call.project
  BY <1>3, ReadIs DEF Reading
<1>5. PICK n : n = call'
  OBVIOUS
<1>6. call.project # Global => TopOf(memory, q, n, call.project, seen)
  BY <1>1, <1>4, <1>5, TopRead
<1>7. call.project = Global => q = <<>>
  BY <1>1
<1>8. ProjectTopRead(memory, n, seen)
  BY <1>4, <1>5, <1>6, <1>7 DEF ProjectTopRead, Holds
<1>9. Fresh(memory, call', "projectTop", Active, seen, generation)
  BY <1>5, <1>8 DEF Fresh
<1> QED BY <1>3, <1>9, ReadKeeps DEF Follows, Reading

LEMMA PrefixWithin ==
    ASSUME NEW S, NEW order \in Seq(S), NEW bound \in Nat
    PROVE  ToSet(SubSeq(order, 1, AtMost(bound, Len(order)))) \subseteq S
<1>1. PICK b : b = AtMost(bound, Len(order))
  OBVIOUS
<1>2. b \in Nat /\ b <= Len(order) /\ Len(order) \in Nat
  BY <1>1 DEF AtMost
<1>3. SubSeq(order, 1, b) \in Seq(S)
  BY <1>2
<1> QED BY <1>1, <1>3 DEF ToSet

LEMMA ReadDynamicKeeps ==
    ASSUME ReadsInv, ReadDynamic
    PROVE  ReadsInv'
<1>1. PICK d : d = DynamicCandidates
  OBVIOUS
<1>2. PICK news : news = [dynamic |-> d]
  OBVIOUS
<1>3. /\ Got("totals", news) /\ DOMAIN news = {"dynamic"} /\ news["dynamic"] = d
      /\ call.pc = "dynamic" /\ ~At("idle")
  BY <1>1, <1>2 DEF ReadDynamic, At
<1>4. /\ Holds(call', call, "totals", "dynamic", d)
      /\ \A S : Sees(memory, call', S) = Sees(memory, call, S)
  BY <1>3, ReadIs DEF Reading
<1>5. PICK S, bound : S = Recent(Active) /\ bound = ProfileStatic.items + ProfileDynamic.items
  OBVIOUS
<1>6. /\ S \subseteq Visible(Active) /\ S \in SUBSET Memories /\ memory \in Corpora
      /\ bound \in Nat
  <2>1. S \subseteq Active /\ S \subseteq Visible(Active)
    BY <1>5 DEF Recent, Visible
  <2>2. ProfileStatic.items \in Nat /\ ProfileDynamic.items \in Nat
    BY ReadsAssumption
  <2> QED BY <1>5, <2>1, <2>2, PoolsIn DEF ReadsInv
<1>7. PICK order : order = DynamicOrder(S, memory)
  OBVIOUS
<1>a. Distinct(order, S)
  BY <1>6, <1>7, OrdersAre DEF DynamicOrder, Numbers
<1>8. d = ToSet(SubSeq(order, 1, AtMost(bound, Len(order))))
  BY <1>1, <1>5, <1>7 DEF DynamicCandidates
<1>9. d \subseteq S
  BY <1>6, <1>a, <1>8, PrefixWithin DEF Distinct
<1>10. PICK n : n = call'
  OBVIOUS
<1>11. S \subseteq Sees(memory, n, UNION seen)
  <2>1. Visible(Active) \subseteq Sees(memory, call, UNION seen)
    BY <1>3, PoolsIn, VisibleIs
  <2> QED BY <1>4, <1>6, <1>10, <2>1
<1>12. DynamicRead(memory, n, seen)
  BY <1>4, <1>9, <1>10, <1>11 DEF DynamicRead, Holds
<1>13. Fresh(memory, call', "dynamic", Active, seen, generation)
  BY <1>10, <1>12 DEF Fresh
<1> QED BY <1>3, <1>13, ReadKeeps DEF Follows, Reading

LEMMA ReadTotalsKeeps ==
    ASSUME ReadsInv, ReadTotals
    PROVE  ReadsInv'
<1>1. PICK t : t = [k \in {memory[m].category : m \in Memories} |->
                           Cardinality({m \in Visible(Active) : memory[m].category = k})]
  OBVIOUS
<1>2. PICK news, next : news = [totals |-> t]
                        /\ next = IF ~call.focus THEN "assemble" ELSE IF call.embedded THEN "vector" ELSE "text"
  OBVIOUS
<1>3. /\ Got(next, news) /\ DOMAIN news = {"totals"} /\ news["totals"] = t
      /\ call.pc = "totals" /\ ~At("idle") /\ next \in {"vector", "text", "assemble"}
  BY <1>1, <1>2 DEF ReadTotals, At
<1>4. /\ Holds(call', call, next, "totals", t)
      /\ \A S : Sees(memory, call', S) = Sees(memory, call, S)
      /\ Active \in seen
  BY <1>3, ReadIs DEF Reading
<1>5. PICK n : n = call'
  OBVIOUS
<1>6. t = [k \in {memory[m].category : m \in DOMAIN memory} |->
                            Cardinality({m \in Sees(memory, n, Active) : memory[m].category = k})]
  <2>1. Visible(Active) = Sees(memory, n, Active)
    BY <1>4, <1>5, VisibleIs
  <2> QED BY <1>1, <2>1 DEF Memories
<1>7. Counted(memory, t, n, seen)
  BY <1>4, <1>6 DEF Counted
<1>8. TotalsRead(memory, n, seen)
  BY <1>4, <1>5, <1>7 DEF TotalsRead, Holds
<1>9. Fresh(memory, call', "totals", Active, seen, generation)
  BY <1>5, <1>8 DEF Fresh
<1> QED BY <1>3, <1>9, ReadKeeps DEF Follows, Reading

(***************************************************************************)
(* The end of recall.                                                      *)
(***************************************************************************)
(* n is c at its end, with what the last statements made. *)
Ended(n, c, news) ==
    /\ DOMAIN n = DOMAIN c \cup DOMAIN news /\ n.pc = "done"
    /\ \A f \in DOMAIN news : n[f] = news[f]
    /\ \A f \in DOMAIN c : f \notin DOMAIN news /\ f # "pc" => n[f] = c[f]
LEMMA EndIs ==
    ASSUME NEW c, "pc" \in DOMAIN c, NEW news, "pc" \notin DOMAIN news,
           NEW n, n = With([c EXCEPT !.pc = "done"], news)
    PROVE  Ended(n, c, news)
<1>1. PICK d : d = [c EXCEPT !.pc = "done"]
  OBVIOUS
<1>2. DOMAIN d = DOMAIN c /\ d.pc = "done" /\ \A f \in DOMAIN c : f # "pc" => d[f] = c[f]
  BY <1>1
<1>3. n = With(d, news)
  BY <1>1
<1>4. /\ DOMAIN n = DOMAIN d \cup DOMAIN news
      /\ \A f \in DOMAIN n : n[f] = IF f \in DOMAIN news THEN news[f] ELSE d[f]
  BY <1>3 DEF With
<1> QED BY <1>2, <1>4 DEF Ended

Kinds == {"vector", "text", "trigram"}
LEMMA EndKeeps ==
    ASSUME NEW c, NEW n, NEW news, Ended(n, c, news), "pc" \in DOMAIN c, Common(c), NEW V, LegsRead(c, V),
           DOMAIN news \cap (Given \cup Kinds) = {}
    PROVE  /\ Common(n) /\ n.op = c.op /\ n.project = c.project /\ LegsRead(n, V)
           /\ \A S : Sees(memory, n, S) = Sees(memory, c, S)
           /\ FusedOf(memory, n) = FusedOf(memory, c)
<1>1. /\ \A f \in Given : f \in DOMAIN c => f \in DOMAIN n /\ n[f] = c[f]
      /\ \A f \in Kinds : f \in DOMAIN c => f \in DOMAIN n /\ n[f] = c[f]
  BY DEF Ended, Given, Kinds
<1>2. Common(n) /\ n.op = c.op /\ n.project = c.project
  BY <1>1 DEF Common, Ended, Given
<1>3. /\ n.vector = c.vector /\ n.text = c.text /\ n.trigram = c.trigram
      /\ LegsRead(n, V)
  BY <1>1 DEF LegsRead, LegRead, Kinds
<1>4. \A S : Sees(memory, n, S) = Sees(memory, c, S)
  BY <1>2 DEF Sees
<1>5. FusedOf(memory, n) = FusedOf(memory, c)
  BY <1>3 DEF FusedOf, PoolsOf
<1> QED BY <1>2, <1>3, <1>4, <1>5

LEMMA FusedIsOf == Fused = FusedOf(memory, call)
BY DEF Fused, FusedOf, Pools, PoolsOf, VotesOf, Field

LEMMA FinishRecallKeeps ==
    ASSUME ReadsInv, FinishRecall
    PROVE  ReadsInv'
<1>1. PICK fused : fused = Fused
  OBVIOUS
<1>2. PICK ordered : ordered = ReorderByStrategy(fused, call.strategy, memory)
  OBVIOUS
<1>3. PICK hits : hits = PackByTokenBudget(ordered, call.limit, call.tokens, memory)
  OBVIOUS
<1>4. PICK news : news = [fused |-> fused, hits |-> hits]
  OBVIOUS
<1>5. call.pc = "fuse" /\ Got("done", news)
  BY <1>1, <1>2, <1>3, <1>4 DEF FinishRecall, At
<1>6. PICK n : n = call'
  OBVIOUS
<1>7. "pc" \in DOMAIN call /\ RecallInv(memory, call, seen) /\ Active \in seen
  BY <1>5 DEF ReadsInv, CallRead, ContextInv, Searching
<1>8. PICK V : V = Sees(memory, call, UNION seen)
  OBVIOUS
<1>9. Common(call) /\ LegsRead(call, V) /\ call.op = "recall" /\ "limit" \in DOMAIN call /\ call.limit \in Nat
  BY <1>5, <1>7, <1>8 DEF RecallInv, LegsRead
<1>10. Ended(n, call, news)
  <2>1. n = With([call EXCEPT !.pc = "done"], news)
    BY <1>5, <1>6 DEF Got
  <2> QED BY <1>4, <1>7, <2>1, EndIs
<1>11. DOMAIN news \cap (Given \cup Kinds) = {} /\ DOMAIN news = {"fused", "hits"}
       /\ news.fused = fused /\ news.hits = hits
  BY <1>4 DEF Given, Kinds
<1>12. /\ Common(n) /\ n.op = "recall" /\ LegsRead(n, V) /\ V = Sees(memory, n, UNION seen)
       /\ FusedOf(memory, n) = fused
  BY <1>1, <1>7, <1>8, <1>9, <1>10, <1>11, EndKeeps, FusedIsOf
<1>13. /\ n.pc = "done" /\ n.fused = fused /\ n.hits = hits /\ {"fused", "hits"} \subseteq DOMAIN n
       /\ n.limit = call.limit /\ n.tokens = call.tokens /\ n.strategy = call.strategy
       /\ "limit" \in DOMAIN n
  BY <1>9, <1>10, <1>11 DEF Ended, Common
<1>14. RecallDone(memory, n)
  BY <1>2, <1>3, <1>12, <1>13 DEF RecallDone
<1>15. RecallInv(memory, n, seen)
  BY <1>9, <1>12, <1>13, <1>14 DEF RecallInv, LegsRead
<1>16. CallRead(memory, n, Active, seen, generation)
  BY <1>7, <1>13, <1>15 DEF CallRead, Common, RecallInv
<1> QED BY <1>5, <1>6, <1>16, OnlyCall DEF Got

(***************************************************************************)
(* The end of context: the profile block, and the step as a record.        *)
(***************************************************************************)
Reserve(c) == [items |-> AtMost(c.items, ProfileReserve.items), chars |-> AtMost(c.chars, ProfileReserve.chars)]
LEMMA ProfileIs ==
    ASSUME ReadsInv, call.pc = "assemble", NEW V, V = Sees(memory, call, UNION seen)
    PROVE  /\ Slice(ProfileBlock, V)
           /\ Within(ProfileBlock, Reserve(call).items, Reserve(call).chars)
<1>1. /\ ContextInv(memory, call, Active, seen, generation) /\ memory \in Corpora
      /\ ~At("idle")
  BY DEF ReadsInv, CallRead, RecallInv, At
<1>2. V \in SUBSET Memories /\ Sees(memory, call, Active) \subseteq V
  BY <1>1, PoolsIn DEF Sees
<1>3. /\ RowRead(memory, call, generation) /\ CurrentRead(memory, call, seen) /\ DynamicRead(memory, call, seen)
      /\ call.items \in Nat /\ call.chars \in Nat /\ call.focus \in BOOLEAN
  BY <1>1 DEF ContextInv, Searching
<1>4. PICK static : static = Static
  OBVIOUS
<1>5. Slice(static, V)
  <2>1. CASE call.current
    <3>1. static = call.row.static
      BY <1>4, <2>1 DEF Static
    <3>2. Slice(static, DOMAIN memory) /\ ItemIds(static) \subseteq V
      BY <1>3, <2>1, <3>1 DEF RowRead, CurrentRead
    <3> QED BY <3>2, SliceWithin
  <2>2. CASE ~call.current
    <3>1. PICK S : S = {m \in Active : memory[m].project \in {call.project, Global}}
      OBVIOUS
    <3>2. static = SelectStatic(call.project)
      BY <1>4, <2>2 DEF Static
    <3>3. Slice(static, S)
      BY <3>1, <3>2, SelectStaticIs
    <3>4. S \subseteq V
      BY <1>2, <3>1 DEF Sees
    <3> QED BY <3>3, <3>4, SliceMore
  <2> QED BY <2>1, <2>2
<1>6. PICK D : D = IF call.current THEN call.dynamic ELSE Recent(Active)
  OBVIOUS
<1>7. D \subseteq V /\ D \in SUBSET Memories
  <2>1. Recent(Active) \subseteq Sees(memory, call, Active)
    BY VisibleIs DEF Recent
  <2> QED BY <1>2, <1>3, <1>6, <2>1 DEF DynamicRead
<1>8. PICK rest : rest = IF call.focus THEN <<>>
                         ELSE DynamicSlice(D, static, memory, ProfileDynamic.items, ProfileDynamic.chars)
  OBVIOUS
<1>9. Slice(rest, V) /\ ItemIds(static) \cap ItemIds(rest) = {}
  <2>1. CASE call.focus
    <3>1. rest = <<>>
      BY <1>8, <2>1
    <3> QED BY <3>1, NoSlice
  <2>2. CASE ~call.focus
    <3>1. rest = DynamicSlice(D, static, memory, ProfileDynamic.items, ProfileDynamic.chars)
      BY <1>8, <2>2
    <3>2. ProfileDynamic.items \in Nat /\ ProfileDynamic.chars \in Nat
      BY ReadsAssumption
    <3>3. Slice(rest, D) /\ ItemIds(static) \cap ItemIds(rest) = {}
      BY <1>1, <1>7, <3>1, <3>2, DynamicSliceIs
    <3> QED BY <1>7, <3>3, SliceMore
  <2> QED BY <2>1, <2>2
<1>10. PICK r : r = Reserve(call)
  OBVIOUS
<1>11. /\ r.items \in Nat /\ r.chars \in Nat
       /\ r.items = AtMost(call.items, ProfileReserve.items) /\ r.chars = AtMost(call.chars, ProfileReserve.chars)
  <2>1. ProfileReserve.items \in Nat /\ ProfileReserve.chars \in Nat
    BY ReadsAssumption
  <2> QED BY <1>3, <1>10, <2>1 DEF Reserve, AtMost
<1>12. Slice(CapProfile(static, rest, r.items, r.chars), V)
       /\ Within(CapProfile(static, rest, r.items, r.chars), r.items, r.chars)
  BY <1>5, <1>9, <1>11, CapProfileIs
<1>13. ProfileBlock = CapProfile(static, rest, r.items, r.chars)
  BY <1>4, <1>6, <1>8, <1>11 DEF ProfileBlock
<1> QED BY <1>10, <1>12, <1>13

OrderOfCall(profile) ==
    PackingOrder(call.globalTop, call.projectTop, FocusOf(memory, call), ItemIds(profile),
                 call.strategy, memory)
GapsOf(profile, groups) == [k \in DOMAIN call.totals |-> Gap(k, profile, groups)]
ContextEnds(rebuilt, profile, news) ==
    /\ rebuilt \in {TRUE, call.current}
    /\ profile = IF rebuilt THEN ProfileBlock ELSE <<>>
    /\ DOMAIN news = {"focused", "profile", "groups", "gaps"}
    /\ news.focused = ToSet(FocusOf(memory, call)) /\ news.profile = profile
    /\ news.groups = Assemble(OrderOfCall(profile), Remaining(profile), memory).kept
    /\ news.gaps = GapsOf(profile, news.groups)
    /\ call' = With([call EXCEPT !.pc = "done"], news)
    /\ rows' = IF call.current \/ ~rebuilt THEN rows
               ELSE [rows EXCEPT ![call.project] = [generation |-> generation, static |-> Static]]

LEMMA FinishContextIs ==
    ASSUME FinishContext
    PROVE  \E rebuilt, profile, news : ContextEnds(rebuilt, profile, news)
<1>1. PICK focus : focus = FocusOf(memory, call)
  OBVIOUS
<1>2. focus = IF call.focus THEN SubSeq(Fused, 1, AtMost(FocusLimit, Len(Fused))) ELSE <<>>
  BY <1>1, FusedIsOf DEF FocusOf
<1> DEFINE P(rebuilt) == IF rebuilt THEN ProfileBlock ELSE <<>>
           O(rebuilt) == PackingOrder(call.globalTop, call.projectTop, focus, Excluded(P(rebuilt)),
                                      call.strategy, memory)
           K(rebuilt) == Assemble(O(rebuilt), Remaining(P(rebuilt)), memory).kept
           G(rebuilt) == [k \in DOMAIN call.totals |-> Gap(k, P(rebuilt), K(rebuilt))]
<1>3. PICK rebuilt \in {TRUE, call.current} :
        /\ call' = With([call EXCEPT !.pc = "done"],
                        [focused |-> ToSet(focus), profile |-> P(rebuilt), groups |-> K(rebuilt),
                         gaps |-> G(rebuilt)])
        /\ rows' = IF call.current \/ ~rebuilt THEN rows
                   ELSE [rows EXCEPT ![call.project] = [generation |-> generation, static |-> Static]]
  BY <1>2 DEF FinishContext
<1>4. PICK profile, groups, gaps, focused : /\ profile = P(rebuilt) /\ groups = K(rebuilt)
                                            /\ gaps = G(rebuilt) /\ focused = ToSet(focus)
  OBVIOUS
<1>5. /\ groups = Assemble(OrderOfCall(profile), Remaining(profile), memory).kept
      /\ gaps = GapsOf(profile, groups)
      /\ profile = IF rebuilt THEN ProfileBlock ELSE <<>>
  BY <1>1, <1>4 DEF OrderOfCall, GapsOf, Excluded
<1>6. PICK news : news = [focused |-> focused, profile |-> profile, groups |-> groups, gaps |-> gaps]
  OBVIOUS
<1>7. call' = With([call EXCEPT !.pc = "done"], news)
  BY <1>3, <1>4, <1>6
<1> HIDE DEF P, O, K, G
<1>8. ContextEnds(rebuilt, profile, news)
  BY <1>1, <1>3, <1>4, <1>5, <1>6, <1>7 DEF ContextEnds
<1> QED BY <1>8

(***************************************************************************)
(* The end of context keeps the invariant; every step does.                *)
(***************************************************************************)
LEMMA ContextEndKeeps ==
    ASSUME ReadsInv, call.pc = "assemble", NEW rebuilt, NEW profile, NEW news,
           ContextEnds(rebuilt, profile, news)
    PROVE  CallRead(memory, call', Active, seen, generation)
<1>1. /\ ContextInv(memory, call, Active, seen, generation) /\ "pc" \in DOMAIN call /\ Active \in seen
      /\ memory \in Corpora
  BY DEF ReadsInv, CallRead, RecallInv
<1>2. PICK n, V : n = call' /\ V = Sees(memory, call, UNION seen)
  OBVIOUS
<1>3. DOMAIN news = {"focused", "profile", "groups", "gaps"} /\ DOMAIN news \cap (Given \cup Kinds) = {}
  BY DEF ContextEnds, Given, Kinds
<1>4. Ended(n, call, news)
  <2>1. n = With([call EXCEPT !.pc = "done"], news)
    BY <1>2 DEF ContextEnds
  <2> QED BY <1>1, <1>3, <2>1, EndIs
<1>5. /\ Common(call) /\ LegsRead(call, V) /\ call.op = "context"
      /\ {"items", "chars", "focus", "embedded"} \subseteq DOMAIN call
      /\ call.items \in Nat /\ call.chars \in Nat /\ call.focus \in BOOLEAN
  BY <1>1, <1>2 DEF ContextInv
<1>6. /\ Common(n) /\ n.op = "context" /\ n.project = call.project /\ LegsRead(n, V)
      /\ \A S : Sees(memory, n, S) = Sees(memory, call, S)
      /\ FusedOf(memory, n) = FusedOf(memory, call)
  BY <1>1, <1>3, <1>4, <1>5, EndKeeps
<1>7. /\ {"row", "current", "globalTop", "projectTop", "dynamic", "totals"} \subseteq DOMAIN call
      /\ RowRead(memory, call, generation) /\ CurrentRead(memory, call, seen)
      /\ GlobalTopRead(memory, call, seen) /\ ProjectTopRead(memory, call, seen)
      /\ DynamicRead(memory, call, seen) /\ TotalsRead(memory, call, seen)
  BY <1>1 DEF ContextInv, Searching, RowRead, CurrentRead, GlobalTopRead, ProjectTopRead,
              DynamicRead, TotalsRead
<1>8. /\ n.items = call.items /\ n.chars = call.chars /\ n.focus = call.focus
      /\ n.tokens = call.tokens /\ n.strategy = call.strategy
      /\ n.row = call.row /\ n.current = call.current /\ n.globalTop = call.globalTop
      /\ n.projectTop = call.projectTop /\ n.dynamic = call.dynamic /\ n.totals = call.totals
      /\ {"items", "chars", "focus", "embedded"} \subseteq DOMAIN n
      /\ {"row", "current", "globalTop", "projectTop", "dynamic", "totals"} \subseteq DOMAIN n
      /\ n.pc = "done"
  BY <1>3, <1>4, <1>5, <1>7 DEF Ended, Common
<1>9. /\ n.focused = news.focused /\ n.profile = news.profile /\ n.groups = news.groups /\ n.gaps = news.gaps
      /\ {"focused", "profile", "groups", "gaps"} \subseteq DOMAIN n
  BY <1>3, <1>4 DEF Ended
<1>10. WindowOf(n) = WindowOf(call) /\ FocusOf(memory, n) = FocusOf(memory, call)
  BY <1>6, <1>8 DEF WindowOf, FocusOf
<1>11. \A q, p : TopOf(memory, q, call, p, seen) => TopOf(memory, q, n, p, seen)
  BY <1>10 DEF TopOf
<1>12. GlobalTopRead(memory, n, seen) /\ ProjectTopRead(memory, n, seen)
  BY <1>6, <1>7, <1>8, <1>11 DEF GlobalTopRead, ProjectTopRead
<1>13. RowRead(memory, n, generation) /\ CurrentRead(memory, n, seen) /\ DynamicRead(memory, n, seen)
  BY <1>6, <1>7, <1>8 DEF RowRead, CurrentRead, DynamicRead
<1>14. TotalsRead(memory, n, seen)
  BY <1>6, <1>7, <1>8 DEF TotalsRead, Counted
<1>15. /\ n.profile = profile /\ n.focused = ToSet(FocusOf(memory, call))
       /\ n.groups = Assemble(OrderOfCall(profile), Remaining(profile), memory).kept
       /\ n.gaps = GapsOf(profile, n.groups)
  BY <1>9 DEF ContextEnds
<1>16. Slice(profile, V) /\ Within(profile, Reserve(call).items, Reserve(call).chars)
  <2>1. Reserve(call).items \in Nat /\ Reserve(call).chars \in Nat
    BY <1>5, ReadsAssumption DEF Reserve, AtMost
  <2>2. CASE rebuilt
    <3>1. profile = ProfileBlock
      BY <2>2 DEF ContextEnds
    <3> QED BY <1>2, <3>1, ProfileIs
  <2>3. CASE ~rebuilt
    <3>1. profile = <<>>
      BY <2>3 DEF ContextEnds
    <3> QED BY <2>1, <3>1, NoSlice
  <2> QED BY <2>2, <2>3
<1>17. Remaining(profile) = RemainingOf(n)
  BY <1>8, <1>15 DEF Remaining, RemainingOf, RemainingChars
<1>18. OrderOfCall(profile) = PackingOrder(n.globalTop, n.projectTop, FocusOf(memory, n), ItemIds(n.profile),
                                          n.strategy, memory)
  BY <1>8, <1>10, <1>15 DEF OrderOfCall
<1>19. n.gaps = [k \in DOMAIN n.totals |->
                    Less(n.totals[k], Cardinality(InCategory(memory, n.groups, k))
                                      + Cardinality(InCategory(memory, n.profile, k)))]
  BY <1>8, <1>15 DEF GapsOf, Gap, InCategory
<1>20. Within(n.profile, AtMost(n.items, ProfileReserve.items), AtMost(n.chars, ProfileReserve.chars))
  BY <1>8, <1>15, <1>16 DEF Reserve
<1>21. ContextDone(memory, n, V)
  BY <1>9, <1>10, <1>15, <1>16, <1>17, <1>18, <1>19, <1>20 DEF ContextDone
<1>22. V = Sees(memory, n, UNION seen)
  BY <1>2, <1>6
<1>23. ContextInv(memory, n, Active, seen, generation)
  BY <1>5, <1>6, <1>8, <1>12, <1>13, <1>14, <1>21, <1>22 DEF ContextInv, Searching
<1> QED BY <1>1, <1>2, <1>6, <1>23 DEF CallRead, Common

LEMMA FinishContextKeeps ==
    ASSUME ReadsInv, FinishContext
    PROVE  ReadsInv'
<1>1. PICK rebuilt, profile, news : ContextEnds(rebuilt, profile, news)
  BY FinishContextIs
<1>2. call.pc = "assemble" /\ UNCHANGED <<memory, stage, generation, seen>>
  BY DEF FinishContext, At
<1>3. CallRead(memory, call', Active, seen, generation)
  BY <1>1, <1>2, ContextEndKeeps
<1>4. PICK p, row : p = call.project /\ row = [generation |-> generation, static |-> Static]
  OBVIOUS
<1>5. rows' = rows \/ (~call.current /\ rows' = [rows EXCEPT ![p] = row])
  BY <1>1, <1>4 DEF ContextEnds
<1>6. ~call.current => RowInv(memory, row, p, Active, generation)
  <2> SUFFICES ASSUME ~call.current PROVE RowInv(memory, row, p, Active, generation)
    OBVIOUS
  <2>1. PICK S, static : /\ S = {m \in Active : memory[m].project \in {p, Global}}
                         /\ static = SelectStatic(p)
    OBVIOUS
  <2>2. Slice(static, S) /\ S \subseteq Memories
    BY <2>1, SelectStaticIs DEF Active
  <2>3. Slice(static, Memories) /\ ItemIds(static) \subseteq S
    BY <2>2, SliceMore, SliceIds
  <2>4. row.static = static /\ row.generation = generation
    BY <1>4, <2>1 DEF Static
  <2> QED BY <2>1, <2>3, <2>4 DEF RowInv, ReadsInv, Memories
<1>7. \A q \in DOMAIN rows : RowInv(memory, rows'[q], q, Active, generation)
  BY <1>5, <1>6 DEF ReadsInv
<1>8. DOMAIN rows' = DOMAIN rows /\ Active' = Active /\ Memories' = Memories
  BY <1>2, <1>5 DEF Active, Memories
<1> QED BY <1>2, <1>3, <1>7, <1>8 DEF ReadsInv

LEMMA ReadsStep ==
    ASSUME ReadsInv, [ReadsNext]_readVars
    PROVE  ReadsInv'
<1>1. ASSUME NEW c \in Recalls, StartRecall(c) PROVE ReadsInv'
  BY <1>1, StartRecallKeeps
<1>2. ASSUME NEW c \in Contexts, StartContext(c) PROVE ReadsInv'
  BY <1>2, StartContextKeeps
<1>3. CASE Read
  BY <1>3, CandidatesKeep, ReadProfileKeeps, ReadGenerationKeeps, ReadGlobalTopKeeps,
     ReadProjectTopKeeps, ReadDynamicKeeps, ReadTotalsKeeps DEF Read
<1>4. CASE FinishRecall
  BY <1>4, FinishRecallKeeps
<1>5. CASE FinishContext
  BY <1>5, FinishContextKeeps
<1>6. ASSUME NEW retired \in {{}} \cup {{m} : m \in Memories},
             NEW stored \in {{}} \cup {{m} : m \in Memories}, Write(retired, stored)
      PROVE ReadsInv'
  <2>1. retired \subseteq Memories /\ stored \subseteq Memories
    OBVIOUS
  <2> QED BY <1>6, <2>1, WriteKeeps
<1>7. ASSUME NEW project \in DOMAIN rows, Materialize(project) PROVE ReadsInv'
  BY <1>7, MaterializeKeeps
<1>8. CASE UNCHANGED readVars
  <2>1. UNCHANGED <<memory, stage, generation, rows, seen>> /\ call' = call
    BY <1>8 DEF readVars
  <2>2. CallRead(memory, call', Active, seen, generation)
    BY <2>1 DEF ReadsInv
  <2> QED BY <2>1, <2>2, OnlyCall
<1> QED BY <1>1, <1>2, <1>3, <1>4, <1>5, <1>6, <1>7, <1>8 DEF ReadsNext

(***************************************************************************)
(* What the invariant says of a recall that is done.                       *)
(***************************************************************************)
LEMMA PoolsAre ==
    ASSUME memory \in Corpora, NEW c, NEW V \in SUBSET Memories, LegsRead(c, V)
    PROVE  /\ Pooled(PoolsOf(c), V) /\ InPools(PoolsOf(c)) \in SUBSET V
           /\ Voted(VotesOf(memory)) /\ \A x \in V : Each(memory, "created")[x] \in Int
<1>1. PICK pools : pools = PoolsOf(c)
  OBVIOUS
<1>2. /\ DOMAIN pools = 1..3 /\ pools[1].ids = c.vector /\ pools[2].ids = c.text /\ pools[3].ids = c.trigram
      /\ pools[1].weight = 10 /\ pools[2].weight = 10 /\ pools[3].weight = TrigramWeight
  BY <1>1 DEF PoolsOf
<1>3. \A i \in 1..3 : Distinct(pools[i].ids, V) /\ pools[i].weight \in Nat
  BY <1>2, ReadsAssumption DEF LegsRead, LegRead
<1>4. pools \in Seq(ToSet(pools))
  <2>1. PICK a, b, d : a = pools[1] /\ b = pools[2] /\ d = pools[3]
    OBVIOUS
  <2>2. pools = <<a, b, d>>
    BY <1>1, <2>1 DEF PoolsOf
  <2>3. \A i \in DOMAIN pools : pools[i] \in ToSet(pools)
    BY DEF ToSet
  <2>4. a \in ToSet(pools) /\ b \in ToSet(pools) /\ d \in ToSet(pools)
    BY <1>2, <2>1, <2>3
  <2>5. \A X : a \in X /\ b \in X /\ d \in X => <<a, b, d>> \in Seq(X)
    OBVIOUS
  <2>6. <<a, b, d>> \in Seq(ToSet(pools))
    BY <2>4, <2>5
  <2> QED BY <2>2, <2>6
<1>5. Pooled(pools, V)
  BY <1>2, <1>3, <1>4 DEF Pooled
<1>6. Voted(VotesOf(memory))
  <2>1. PICK votes : votes = VotesOf(memory)
    OBVIOUS
  <2>2. DOMAIN votes = 1..1 /\ votes[1].weight = ImportanceWeight
    BY <2>1 DEF VotesOf
  <2>3. \A i \in 1..1 : votes[i].weight \in Nat
    BY <2>2, ReadsAssumption
  <2> QED BY <2>1, <2>2, <2>3 DEF Voted
<1>7. \A x \in V : Each(memory, "created")[x] \in Int
  BY FieldsAre DEF Numbers
<1> QED BY <1>1, <1>5, <1>6, <1>7, CandidatesFound

LEMMA FusedIs ==
    ASSUME memory \in Corpora, NEW c, NEW V \in SUBSET Memories, LegsRead(c, V)
    PROVE  /\ Distinct(FusedOf(memory, c), V) /\ ToSet(FusedOf(memory, c)) \subseteq V
           /\ \E R : ListOf(FusedOf(memory, c), ToSet(FusedOf(memory, c)),
                            FusedOrder(PoolsOf(c), VotesOf(memory), Each(memory, "created"), R))
           /\ ToSet(FusedOf(memory, c)) = InPools(PoolsOf(c))
<1>1. PICK q, pools, votes, created :
        /\ q = FusedOf(memory, c) /\ pools = PoolsOf(c) /\ votes = VotesOf(memory)
        /\ created = Each(memory, "created")
  OBVIOUS
<1>2. q = Fuse(pools, votes, created)
  BY <1>1 DEF FusedOf
<1>3. /\ Pooled(pools, V) /\ InPools(pools) \in SUBSET V /\ Voted(votes)
      /\ \A x \in V : created[x] \in Int
  BY <1>1, PoolsAre
<1>4. PICK R : ListOf(q, InPools(pools), FusedOrder(pools, votes, created, R))
  BY <1>2, <1>3, FusedList
<1>5. ToSet(q) = InPools(pools) /\ Distinct(q, InPools(pools))
  BY <1>4, ListsIs, ListIsDistinct
<1>6. Distinct(q, V)
  BY <1>3, <1>5, DistinctMore
<1> QED BY <1>1, <1>3, <1>4, <1>5, <1>6

(* The order of the hits, as RecallIsLongestPrefix has it.                 *)
RankOf(c, m) == IF c.strategy = NoBudget THEN 0 ELSE Priority(c.strategy, memory[m].category)
Preceding(c, q) ==
    {p \in ToSet(q) \X ToSet(q) :
        \/ RankOf(c, p[1]) < RankOf(c, p[2])
        \/ RankOf(c, p[1]) = RankOf(c, p[2]) /\ RankIn(q, p[1]) < RankIn(q, p[2])}
LEMMA OrderedIs ==
    ASSUME memory \in Corpora, NEW V \in SUBSET Memories, NEW q, Distinct(q, V), NEW c
    PROVE  ListOf(ReorderByStrategy(q, c.strategy, memory), ToSet(q), Preceding(c, q))
<1>1. PICK S : S = ToSet(q)
  OBVIOUS
<1>2. ListOf(q, S, OrderOf(q)) /\ S \subseteq Memories
  BY <1>1, DistinctLists
<1>3. CASE c.strategy = NoBudget
  <2>1. ReorderByStrategy(q, c.strategy, memory) = q
    BY <1>3 DEF ReorderByStrategy
  <2>2. Preceding(c, q) = OrderOf(q)
    BY <1>3 DEF Preceding, OrderOf, RankOf
  <2> QED BY <1>1, <1>2, <2>1, <2>2
<1>4. CASE c.strategy # NoBudget
  <2>1. PICK key : key = Priorities(c.strategy, memory)
    OBVIOUS
  <2>2. \A m \in S : key[m] \in Int /\ key[m] = RankOf(c, m)
    <3>1. \A m \in S : key[m] = RankOf(c, m)
      BY <1>2, <1>4, <2>1 DEF Priorities, RankOf, Memories
    <3>2. \A m \in S : Priority(c.strategy, memory[m].category) \in 1..4
      BY <1>2, CorpusIs, PriorityIs
    <3> QED BY <1>4, <3>1, <3>2 DEF RankOf
  <2>3. ListOf(Ascending(q, key), S, Lesser(S, key, OrderOf(q)))
    BY <1>2, <2>2, AscendingLists
  <2>4. Lesser(S, key, OrderOf(q)) = Preceding(c, q)
    BY <1>1, <2>2 DEF Lesser, Preceding, OrderOf
  <2> QED BY <1>1, <1>4, <2>1, <2>3, <2>4 DEF ReorderByStrategy
<1> QED BY <1>3, <1>4

LEMMA RecallState ==
    ASSUME ReadsInv, Done("recall")
    PROVE  /\ memory \in Corpora /\ RecallDone(memory, call) /\ call.limit \in Nat
           /\ call.tokens \in Nat \cup {NoBudget}
           /\ Visible(UNION seen) \in SUBSET Memories
           /\ LegsRead(call, Visible(UNION seen))
<1>1. RecallInv(memory, call, seen) /\ call.pc = "done" /\ memory \in Corpora
  BY DEF Done, At, ReadsInv, CallRead, ContextInv
<1>2. Visible(UNION seen) = Sees(memory, call, UNION seen)
  BY VisibleIs
<1>3. Visible(UNION seen) \in SUBSET Memories
  BY PoolsIn DEF Visible
<1> QED BY <1>1, <1>2, <1>3 DEF RecallInv, Common, LegsRead

LEMMA RecallNeutral ==
    ASSUME ReadsInv, Done("recall")
    PROVE  TiesAreNeutral
<1>1. PICK V, q : V = Visible(UNION seen) /\ q = call.fused
  OBVIOUS
<1>2. memory \in Corpora /\ V \in SUBSET Memories /\ LegsRead(call, V) /\ q = FusedOf(memory, call)
  BY <1>1, RecallState DEF RecallDone
<1>3. PICK pools, votes, created : pools = PoolsOf(call) /\ votes = VotesOf(memory)
                                   /\ created = Each(memory, "created")
  OBVIOUS
<1>4. PICK R : ListOf(q, ToSet(q), FusedOrder(pools, votes, created, R))
  BY <1>2, <1>3, FusedIs
<1>5. /\ Pooled(pools, V) /\ ToSet(q) = InPools(pools) /\ ToSet(q) \subseteq V
      /\ ToSet(Candidates(pools)) = ToSet(q)
  BY <1>2, <1>3, FusedIs, PoolsAre, CandidatesFound
<1>6. PICK found : found = Candidates(pools)
  OBVIOUS
<1>7. /\ \A m \in ToSet(q) : PoolScore(pools, m) \in Nat /\ VoteScore(found, votes, m) \in Nat
      /\ ToSet(found) = ToSet(q)
  <2>1. PICK n \in Nat : DOMAIN votes = 1..n /\ \A i \in 1..n : votes[i].weight \in Nat
    BY <1>2, <1>3, PoolsAre DEF Voted
  <2>2. IsFiniteSet(ToSet(found))
    BY <1>4, <1>5, <1>6, ListsIs
  <2>3. \A m : VoteScore(found, votes, m) \in Nat
    BY <2>1, <2>2, VoteScoreNat
  <2>4. \A m : PoolScore(pools, m) \in Nat
    BY <1>5, PoolScoreNat
  <2> QED BY <1>5, <1>6, <2>3, <2>4
<1>8. ASSUME NEW m \in ToSet(q), NEW n \in ToSet(q), memory[m].importance = memory[n].importance
      PROVE VoteScore(found, votes, m) = VoteScore(found, votes, n)
  <2>1. PICK value : value = Each(memory, "importance")
    OBVIOUS
  <2>2. value[m] = value[n]
    BY <1>2, <1>5, <1>8, <2>1, FieldsAre DEF Numbers
  <2>3. /\ DOMAIN votes = 1..1 /\ votes[1].value = value
    BY <1>3, <2>1 DEF VotesOf
  <2>4. CompetitionRank(found, value, m) = CompetitionRank(found, value, n)
    BY <2>2 DEF CompetitionRank
  <2>5. \A i \in DOMAIN votes : CompetitionRank(found, votes[i].value, m) = CompetitionRank(found, votes[i].value, n)
    BY <2>3, <2>4
  <2> QED BY <2>5 DEF VoteScore
<1>9. Pools = pools
  BY <1>3 DEF Pools, PoolsOf
<1>10. ASSUME NEW m \in ToSet(q), NEW n \in ToSet(q), m # n, memory[m].importance = memory[n].importance,
              RankIn(q, m) < RankIn(q, n)
       PROVE  \/ PoolScore(pools, m) > PoolScore(pools, n)
              \/ /\ PoolScore(pools, m) = PoolScore(pools, n)
                 /\ memory[m].created >= memory[n].created
  <2>1. <<m, n>> \in FusedOrder(pools, votes, created, R)
    BY <1>4, <1>10, RankIs
  <2>2. PICK score : score = ScoreIn(pools, votes)
    OBVIOUS
  <2>3. score[m] > score[n] \/ (score[m] = score[n] /\ created[m] >= created[n])
    <3>1. \/ score[m] > score[n]
          \/ score[m] = score[n] /\ <<m, n>> \in Greater(InPools(pools), created, R)
      BY <2>1, <2>2 DEF FusedOrder, Greater
    <3>2. <<m, n>> \in Greater(InPools(pools), created, R) => created[m] > created[n] \/ created[m] = created[n]
      BY DEF Greater
    <3>3. created[m] \in Nat /\ created[n] \in Nat
      BY <1>2, <1>3, <1>5, FieldsAre DEF Numbers
    <3> QED BY <3>1, <3>2, <3>3
  <2>4. /\ score[m] = PoolScore(pools, m) + VoteScore(found, votes, m)
        /\ score[n] = PoolScore(pools, n) + VoteScore(found, votes, n)
    BY <1>5, <1>6, <2>2 DEF ScoreIn
  <2>5. created[m] = memory[m].created /\ created[n] = memory[n].created
    BY <1>2, <1>3, <1>5, FieldsAre DEF Numbers
  <2>6. VoteScore(found, votes, m) = VoteScore(found, votes, n)
    BY <1>8, <1>10
  <2>7. PICK a, b, v, x, y : /\ a = PoolScore(pools, m) /\ b = PoolScore(pools, n)
                             /\ v = VoteScore(found, votes, m) /\ x = score[m] /\ y = score[n]
    OBVIOUS
  <2>8. a \in Nat /\ b \in Nat /\ v \in Nat /\ x = a + v /\ y = b + v
    BY <1>7, <2>4, <2>6, <2>7
  <2>9. (x > y => a > b) /\ (x = y => a = b)
    BY <2>8
  <2> QED BY <2>3, <2>5, <2>7, <2>9
<1> QED BY <1>1, <1>9, <1>10 DEF TiesAreNeutral

LEMMA RecallCut ==
    ASSUME ReadsInv, Done("recall")
    PROVE  RecallIsLongestPrefix /\ ToSet(call.hits) \subseteq Visible(UNION seen)
<1>1. PICK V, q, hits, limit, tokens :
        /\ V = Visible(UNION seen) /\ q = call.fused /\ hits = call.hits /\ limit = call.limit
        /\ tokens = call.tokens
  OBVIOUS
<1>a. /\ memory \in Corpora /\ V \in SUBSET Memories /\ LegsRead(call, V) /\ q = FusedOf(memory, call)
      /\ limit \in Nat /\ tokens \in Nat \cup {NoBudget}
  BY <1>1, RecallState DEF RecallDone
<1>2. memory \in Corpora /\ V \in SUBSET Memories /\ Distinct(q, V) /\ limit \in Nat
      /\ tokens \in Nat \cup {NoBudget}
  BY <1>a, FusedIs
<1>3. PICK ids : ids = ReorderByStrategy(q, call.strategy, memory)
  OBVIOUS
<1>4. hits = PackByTokenBudget(ids, limit, tokens, memory)
  BY <1>1, <1>3, RecallState DEF RecallDone
<1>5. PICK S : S = ToSet(q)
  OBVIOUS
<1>6. ListOf(ids, S, Preceding(call, q)) /\ S \subseteq V
  BY <1>2, <1>3, <1>5, OrderedIs, DistinctLists
<1>7. ids \in Seq(S) /\ Len(ids) \in Nat /\ DOMAIN ids = 1..Len(ids) /\ ToSet(ids) = S
  BY <1>6, ListsIs
<1>8. PICK n : PackedTo(hits, ids, n, limit, tokens)
  <2>1. ids \in Seq(Memories)
    BY <1>2, <1>6, <1>7
  <2> QED BY <1>2, <1>4, <2>1, PackedIs
<1>9. /\ n \in 0..Len(ids) /\ Len(hits) = n /\ DOMAIN hits = 1..n /\ n <= limit
      /\ \A i \in 1..n : hits[i] = ids[i]
      /\ tokens # NoBudget => Cost(ids, n) <= tokens
      /\ n < Len(ids) => Stopped(ids, n, limit, tokens)
  BY <1>8 DEF PackedTo
<1> DEFINE Rank(m) == IF call.strategy = NoBudget THEN 0 ELSE Priority(call.strategy, memory[m].category)
           Precedes(x, y) == \/ Rank(x) < Rank(y)
                             \/ Rank(x) = Rank(y) /\ RankIn(q, x) < RankIn(q, y)
           used == AddUp([i \in DOMAIN hits |-> EstimateTokens(memory[hits[i]].chars)])
           left == S \ ToSet(hits)
<1>10. used = Cost(ids, n)
  <2>1. [i \in DOMAIN hits |-> EstimateTokens(memory[hits[i]].chars)] = Costs(ids, n)
    BY <1>9 DEF Costs
  <2> QED BY <2>1 DEF Cost
<1>11. \A i, j \in 1..Len(ids) : i < j <=> Precedes(ids[i], ids[j])
  <2>1. \A i, j \in 1..Len(ids) : i < j <=> <<ids[i], ids[j]>> \in Preceding(call, q)
    BY <1>6, <1>7 DEF ListOf
  <2>2. \A i \in 1..Len(ids) : ids[i] \in S
    BY <1>7
  <2> QED BY <1>5, <2>1, <2>2 DEF Preceding, RankOf
<1> HIDE DEF used, Rank
<1>12. \A i \in DOMAIN hits : \A j \in 1..(i - 1) : Precedes(hits[j], hits[i])
  BY <1>9, <1>11
<1>13. \A m \in left : \E k \in 1..Len(ids) : ids[k] = m /\ k > n
  <2>1. \A m \in S : \E k \in 1..Len(ids) : ids[k] = m
    BY <1>6, <1>7 DEF ListOf
  <2>2. \A k \in 1..Len(ids) : k <= n => ids[k] \in ToSet(hits)
    BY <1>9 DEF ToSet
  <2> QED BY <1>7, <1>9, <2>1, <2>2
<1>14. \A m \in left : \A x \in ToSet(hits) : Precedes(x, m)
  <2>1. \A x \in ToSet(hits) : \E j \in 1..n : ids[j] = x
    BY <1>9 DEF ToSet
  <2> QED BY <1>9, <1>11, <1>13, <2>1
<1>15. ASSUME NEW m \in left, \A x \in left \ {m} : Precedes(m, x)
       PROVE  \/ Len(hits) = limit
              \/ tokens # NoBudget /\ used + EstimateTokens(memory[m].chars) > tokens
  <2>1. PICK k \in 1..Len(ids) : ids[k] = m /\ k > n
    BY <1>13
  <2>2. k = n + 1
    <3> SUFFICES ASSUME k # n + 1 PROVE FALSE
      OBVIOUS
    <3>1. n + 1 \in 1..Len(ids) /\ n + 1 < k /\ n + 1 > n
      BY <1>7, <1>9, <2>1
    <3>2. ids[n + 1] \notin ToSet(hits) /\ ids[n + 1] # m
      <4>1. \A i, j \in 1..Len(ids) : ids[i] = ids[j] => i = j
        BY <1>6, <1>7, ListsIs
      <4>2. \A x \in ToSet(hits) : \E j \in 1..n : ids[j] = x
        BY <1>9 DEF ToSet
      <4> QED BY <1>7, <1>9, <2>1, <3>1, <4>1, <4>2
    <3>3. ids[n + 1] \in left \ {m}
      BY <1>7, <3>1, <3>2
    <3>4. Precedes(ids[k], ids[n + 1])
      BY <1>15, <2>1, <3>3
    <3> QED BY <1>11, <2>1, <3>1, <3>4
  <2>3. n < Len(ids) /\ ids[n + 1] = m
    BY <1>7, <1>9, <2>1, <2>2
  <2> QED BY <1>9, <1>10, <2>3 DEF Stopped
<1>16. tokens # NoBudget => used <= tokens
  BY <1>9, <1>10
<1>17. RecallIsLongestPrefix
  BY <1>1, <1>5, <1>12, <1>14, <1>15, <1>16 DEF RecallIsLongestPrefix, used, Rank
<1>18. ToSet(hits) \subseteq V
  <2>1. \A i \in 1..n : hits[i] \in S
    BY <1>7, <1>9
  <2> QED BY <1>6, <1>9, <2>1 DEF ToSet
<1> QED BY <1>1, <1>17, <1>18

(***************************************************************************)
(* The order in which a snapshot is packed.                                *)
(***************************************************************************)
LEMMA JoinedAt ==
    ASSUME NEW X, NEW s \in Seq(X), NEW t \in Seq(X)
    PROVE  /\ Len(s) \in Nat /\ Len(t) \in Nat /\ DOMAIN s = 1..Len(s) /\ DOMAIN t = 1..Len(t)
           /\ s \o t \in Seq(X) /\ DOMAIN (s \o t) = 1..(Len(s) + Len(t))
           /\ \A i \in 1..Len(s) : (s \o t)[i] = s[i]
           /\ \A i \in 1..(Len(s) + Len(t)) :
                 i > Len(s) => i - Len(s) \in DOMAIN t /\ (s \o t)[i] = t[i - Len(s)]
<1>1. /\ Len(s) \in Nat /\ Len(t) \in Nat /\ DOMAIN s = 1..Len(s) /\ DOMAIN t = 1..Len(t)
      /\ s \o t \in Seq(X) /\ Len(s \o t) = Len(s) + Len(t)
  OBVIOUS
<1>2. DOMAIN (s \o t) = 1..(Len(s) + Len(t))
  BY <1>1
<1>3. \A k \in 1..(Len(s) + Len(t)) :
         (s \o t)[k] = IF k <= Len(s) THEN s[k] ELSE t[k - Len(s)]
  OBVIOUS
<1>4. ASSUME NEW i \in 1..(Len(s) + Len(t)), i > Len(s)
      PROVE i - Len(s) \in DOMAIN t /\ (s \o t)[i] = t[i - Len(s)]
  <2>1. ~(i <= Len(s)) /\ i - Len(s) \in 1..Len(t)
    BY <1>1, <1>4
  <2> QED BY <1>1, <1>3, <2>1
<1>5. ASSUME NEW i \in 1..Len(s) PROVE (s \o t)[i] = s[i]
  <2>1. i \in 1..(Len(s) + Len(t)) /\ i <= Len(s)
    BY <1>1
  <2> QED BY <1>3, <2>1
<1> QED BY <1>1, <1>2, <1>4, <1>5

LEMMA JoinedOnce ==
    ASSUME NEW X, NEW s, NEW t, Distinct(s, X), Distinct(t, X), ToSet(s) \cap ToSet(t) = {}
    PROVE  Distinct(s \o t, X)
<1>1. s \in Seq(X) /\ t \in Seq(X)
  BY DEF Distinct
<1>2. PICK q, a : q = s \o t /\ a = Len(s)
  OBVIOUS
<1>3. /\ a \in Nat /\ Len(t) \in Nat /\ DOMAIN s = 1..a /\ DOMAIN t = 1..Len(t)
      /\ q \in Seq(X) /\ DOMAIN q = 1..(a + Len(t))
      /\ \A i \in 1..a : q[i] = s[i]
      /\ \A i \in 1..(a + Len(t)) : i > a => i - a \in DOMAIN t /\ q[i] = t[i - a]
  BY <1>1, <1>2, JoinedAt
<1>4. ASSUME NEW i \in DOMAIN q, NEW j \in DOMAIN q, q[i] = q[j] PROVE i = j
  <2>1. CASE i <= a /\ j <= a
    <3>1. i \in DOMAIN s /\ j \in DOMAIN s /\ s[i] = s[j]
      BY <1>3, <1>4, <2>1
    <3> QED BY <3>1 DEF Distinct
  <2>2. CASE i > a /\ j > a
    <3>1. i - a \in DOMAIN t /\ j - a \in DOMAIN t /\ t[i - a] = t[j - a]
      BY <1>3, <1>4, <2>2
    <3>2. i - a = j - a
      BY <3>1 DEF Distinct
    <3> QED BY <1>3, <3>2
  <2>3. CASE i <= a /\ j > a
    <3>1. q[i] \in ToSet(s) /\ q[j] \in ToSet(t)
      BY <1>3, <2>3 DEF ToSet
    <3> QED BY <1>4, <3>1
  <2>4. CASE i > a /\ j <= a
    <3>1. q[j] \in ToSet(s) /\ q[i] \in ToSet(t)
      BY <1>3, <2>4 DEF ToSet
    <3> QED BY <1>4, <3>1
  <2> QED BY <1>3, <2>1, <2>2, <2>3, <2>4
<1> QED BY <1>2, <1>3, <1>4 DEF Distinct

MergedOrder(P, R) == Greater(P, Each(memory, "importance"), Greater(P, Each(memory, "created"), R))
LEMMA MergedIs ==
    ASSUME memory \in Corpora, NEW g, NEW p, Distinct(g, Memories), Distinct(p, Memories),
           ToSet(g) \cap ToSet(p) = {}
    PROVE  \E R : ListOf(Merged(g, p, memory), ToSet(g) \cup ToSet(p), MergedOrder(ToSet(g) \cup ToSet(p), R))
<1>1. PICK q, P : q = g \o p /\ P = ToSet(g) \cup ToSet(p)
  OBVIOUS
<1>2. Distinct(q, Memories) /\ ToSet(q) = P
  <2>1. g \in Seq(Memories) /\ p \in Seq(Memories)
    BY DEF Distinct
  <2> QED BY <1>1, <2>1, JoinedOnce, Joined
<1>3. ListOf(q, P, OrderOf(q)) /\ P \subseteq Memories
  BY <1>2, DistinctLists
<1>4. PICK created, importance : created = Each(memory, "created") /\ importance = Each(memory, "importance")
  OBVIOUS
<1>5. \A m \in P : created[m] \in Int /\ importance[m] \in Int
  BY <1>3, <1>4, FieldsAre DEF Numbers
<1>6. PICK first : first = Descending(q, created)
  OBVIOUS
<1>7. ListOf(first, P, Greater(P, created, OrderOf(q)))
  BY <1>3, <1>5, <1>6, DescendingLists
<1>8. ListOf(Descending(first, importance), P, Greater(P, importance, Greater(P, created, OrderOf(q))))
  BY <1>5, <1>7, DescendingLists
<1>9. Merged(g, p, memory) = Descending(first, importance)
  BY <1>1, <1>4, <1>6 DEF Merged
<1>10. ListOf(Merged(g, p, memory), P, MergedOrder(P, OrderOf(q)))
  BY <1>4, <1>8, <1>9 DEF MergedOrder
<1> QED BY <1>1, <1>10

LEMMA OfferedSooner ==
    ASSUME NEW s, NEW X, Distinct(s, X), NEW t, NEW P \in SUBSET X, NEW Q, ListOf(t, P, Q),
           NEW m \in ToSet(s) \cup P, NEW n \in P, n \notin ToSet(s), m \in ToSet(s) \/ <<m, n>> \in Q
    PROVE  <<m, n>> \in Sooner(s \o t)
<1>1. s \in Seq(X) /\ t \in Seq(X) /\ ToSet(t) = P
  <2>1. t \in Seq(P) /\ ToSet(t) = P
    BY ListsIs
  <2> QED BY <2>1 DEF Distinct
<1>2. PICK all, a : all = s \o t /\ a = Len(s)
  OBVIOUS
<1>3. /\ a \in Nat /\ Len(t) \in Nat /\ DOMAIN s = 1..a /\ DOMAIN t = 1..Len(t)
      /\ all \in Seq(X) /\ DOMAIN all = 1..(a + Len(t))
      /\ \A i \in 1..a : all[i] = s[i]
      /\ \A i \in 1..(a + Len(t)) : i > a => i - a \in DOMAIN t /\ all[i] = t[i - a]
  BY <1>1, <1>2, JoinedAt
<1>4. ToSet(all) = ToSet(s) \cup P
  BY <1>1, <1>2, Joined
<1>5. /\ FirstAt(all) \in SUBSET DOMAIN all /\ {all[i] : i \in FirstAt(all)} = ToSet(all)
  BY <1>3, Firsts
<1>6. PICK i \in FirstAt(all) : all[i] = m
  BY <1>4, <1>5
<1>7. PICK j \in FirstAt(all) : all[j] = n
  BY <1>4, <1>5
<1>8. j > a /\ j \in Nat /\ i \in Nat
  <2>1. j <= a => n \in ToSet(s)
    BY <1>3, <1>5, <1>7 DEF ToSet
  <2> QED BY <1>3, <1>5, <2>1
<1>9. i < j
  <2>1. CASE i <= a
    BY <1>3, <1>8, <2>1
  <2>2. CASE i > a
    <3>1. m \notin ToSet(s)
      <4> SUFFICES ASSUME m \in ToSet(s) PROVE FALSE
        OBVIOUS
      <4>1. PICK k \in DOMAIN s : s[k] = m
        BY DEF ToSet
      <4>2. k \in 1..(i - 1) /\ all[k] = m
        BY <1>3, <1>8, <2>2, <4>1
      <4> QED BY <1>6, <4>2 DEF FirstAt
    <3>2. /\ i - a \in DOMAIN t /\ j - a \in DOMAIN t /\ t[i - a] = m /\ t[j - a] = n
      BY <1>3, <1>5, <1>6, <1>7, <1>8, <2>2
    <3>3. i - a < j - a
      BY <3>1, <3>2 DEF ListOf
    <3> QED BY <1>3, <1>8, <3>3
  <2> QED BY <1>3, <1>8, <2>1, <2>2
<1> QED BY <1>2, <1>4, <1>6, <1>7, <1>9 DEF Sooner

(* The order of the packing, and what it keeps of the order of the pools.  *)
Earns(c, focus, m, n) ==
    \/ Priority(c.strategy, memory[m].category) < Priority(c.strategy, memory[n].category)
    \/ /\ memory[m].category = memory[n].category /\ n \notin focus
       /\ \/ memory[m].importance > memory[n].importance
          \/ memory[m].importance = memory[n].importance /\ memory[m].created > memory[n].created
OrderedBy(order, T, c, focus) ==
    \E R : /\ ListOf(order, T, R)
           /\ \A m, n \in T : Earns(c, focus, m, n) => <<m, n>> \in R
LEMMA PackingIs ==
    ASSUME memory \in Corpora, NEW g, NEW p, Distinct(g, Memories), Distinct(p, Memories),
           ToSet(g) \cap ToSet(p) = {}, NEW focus, Distinct(focus, Memories), NEW E, NEW c
    PROVE  OrderedBy(PackingOrder(g, p, focus, E, c.strategy, memory),
                     (ToSet(focus) \cup ToSet(g) \cup ToSet(p)) \ E, c, ToSet(focus))
<1>1. PICK merged, P : merged = Merged(g, p, memory) /\ P = ToSet(g) \cup ToSet(p)
  OBVIOUS
<1>2. PICK R0 : ListOf(merged, P, MergedOrder(P, R0))
  BY <1>1, MergedIs
<1>3. P \in SUBSET Memories /\ focus \in Seq(Memories) /\ merged \in Seq(Memories) /\ ToSet(merged) = P
  <2>1. ToSet(g) \subseteq Memories /\ ToSet(p) \subseteq Memories
    BY DistinctLists
  <2>2. merged \in Seq(P) /\ ToSet(merged) = P
    BY <1>2, ListsIs
  <2> QED BY <1>1, <2>1, <2>2 DEF Distinct
<1>4. PICK all, ss : all = focus \o merged /\ ss = <<focus, merged>>
  OBVIOUS
<1>5. /\ ss \in Seq(Seq(Memories)) /\ FlattenSeq(ss) = all
  <2>1. \A A : focus \in A /\ merged \in A => <<focus, merged>> \in Seq(A)
    OBVIOUS
  <2>2. ss \in Seq(Seq(Memories))
    BY <1>3, <1>4, <2>1
  <2>3. Len(ss) = 2 /\ ss[1] = focus /\ ss[2] = merged
    BY <1>4
  <2> QED BY <1>4, <2>2, <2>3, Flattened
<1>6. PICK offered, S : offered = FirstOccurrences(ss) /\ S = ToSet(focus) \cup P
  OBVIOUS
<1>7. ListOf(offered, S, Sooner(all)) /\ S \subseteq Memories
  <2>1. ToSet(all) = S
    BY <1>3, <1>4, <1>6, Joined
  <2>2. ToSet(focus) \subseteq Memories
    BY DistinctLists
  <2> QED BY <1>3, <1>5, <1>6, <2>1, <2>2, FirstOnes
<1>8. PICK kept, T : kept = {i \in DOMAIN offered : offered[i] \notin E} /\ T = S \ E
  OBVIOUS
<1>9. PICK ordered : ordered = ElementsAt(offered, kept)
  OBVIOUS
<1>10. ListOf(ordered, T, Sooner(all))
  <2>1. {offered[i] : i \in kept} = T
    <3>1. ToSet(offered) = S
      BY <1>7, ListsIs
    <3> QED BY <1>8, <3>1 DEF ToSet
  <2>2. kept \in SUBSET DOMAIN offered
    BY <1>8
  <2>3. ListOf(ordered, {offered[i] : i \in kept}, Sooner(all))
    BY <1>7, <1>9, <2>2, ElementsList
  <2> QED BY <2>1, <2>3
<1>11. PICK key : key = Priorities(c.strategy, memory)
  OBVIOUS
<1>12. \A m \in T : /\ m \in Memories /\ key[m] = Priority(c.strategy, memory[m].category) /\ key[m] \in Int
  <2>1. \A m \in T : m \in Memories
    BY <1>7, <1>8
  <2>2. \A m \in Memories : key[m] = Priority(c.strategy, memory[m].category) /\ key[m] \in 1..4
    BY <1>11, PrioritiesAre
  <2> QED BY <2>1, <2>2
<1>13. ListOf(Ascending(ordered, key), T, Lesser(T, key, Sooner(all)))
  BY <1>10, <1>12, AscendingLists
<1>14. Ascending(ordered, key) = PackingOrder(g, p, focus, E, c.strategy, memory)
  BY <1>1, <1>4, <1>6, <1>8, <1>9, <1>11 DEF PackingOrder
<1>15. ASSUME NEW m \in T, NEW n \in T, Earns(c, ToSet(focus), m, n)
       PROVE  <<m, n>> \in Lesser(T, key, Sooner(all))
  <2>1. CASE key[m] < key[n]
    BY <2>1 DEF Lesser
  <2>2. CASE ~(key[m] < key[n])
    <3>1. /\ memory[m].category = memory[n].category /\ n \notin ToSet(focus)
          /\ \/ memory[m].importance > memory[n].importance
             \/ memory[m].importance = memory[n].importance /\ memory[m].created > memory[n].created
      BY <1>12, <1>15, <2>2 DEF Earns
    <3>2. key[m] = key[n]
      BY <1>12, <3>1
    <3>3. n \in P /\ m \in ToSet(focus) \cup P
      BY <1>6, <1>8, <3>1
    <3>4. m \notin ToSet(focus) => <<m, n>> \in MergedOrder(P, R0)
      <4>1. /\ Each(memory, "importance")[m] = memory[m].importance
            /\ Each(memory, "importance")[n] = memory[n].importance
            /\ Each(memory, "created")[m] = memory[m].created
            /\ Each(memory, "created")[n] = memory[n].created
        BY <1>12, FieldsAre DEF Numbers
      <4> QED BY <3>1, <3>3, <4>1 DEF MergedOrder, Greater
    <3>5. <<m, n>> \in Sooner(all)
      BY <1>2, <1>3, <1>4, <3>1, <3>3, <3>4, OfferedSooner
    <3> QED BY <3>2, <3>5 DEF Lesser
  <2> QED BY <2>1, <2>2
<1>16. T = (ToSet(focus) \cup ToSet(g) \cup ToSet(p)) \ E
  BY <1>1, <1>6, <1>8
<1> QED BY <1>13, <1>14, <1>15, <1>16 DEF OrderedBy

(***************************************************************************)
(* What the invariant says of a context that is done.                      *)
(***************************************************************************)
LEMMA ContextState ==
    ASSUME ReadsInv, Done("context")
    PROVE  /\ memory \in Corpora /\ Active \in seen /\ call.op = "context"
           /\ Visible(UNION seen) \in SUBSET Memories
           /\ ContextDone(memory, call, Visible(UNION seen))
           /\ LegsRead(call, Visible(UNION seen))
           /\ GlobalTopRead(memory, call, seen) /\ ProjectTopRead(memory, call, seen)
           /\ TotalsRead(memory, call, seen)
           /\ call.items \in Nat /\ call.chars \in Nat /\ call.tokens \in Nat \cup {NoBudget}
<1>1. ContextInv(memory, call, Active, seen, generation) /\ call.pc = "done" /\ memory \in Corpora
      /\ Active \in seen
  BY DEF Done, At, ReadsInv, CallRead, RecallInv
<1>2. Visible(UNION seen) = Sees(memory, call, UNION seen)
  BY VisibleIs
<1>3. Visible(UNION seen) \in SUBSET Memories
  BY PoolsIn DEF Visible
<1> QED BY <1>1, <1>2, <1>3 DEF ContextInv, Common, Searching

Offered == (call.focused \cup ToSet(call.globalTop) \cup ToSet(call.projectTop)) \ ItemIds(call.profile)
LEMMA TopSeen ==
    ASSUME NEW q, NEW project, TopOf(memory, q, call, project, seen),
           call.op = "context", project \in {call.project, Global}
    PROVE  /\ Distinct(q, Visible(UNION seen))
           /\ \A x \in ToSet(q) : memory[x].project = project
<1>1. PICK S \in seen : CutFrom(memory, q, {m \in S : memory[m].project = project}, WindowOf(call))
  BY DEF TopOf
<1>2. PICK pool : pool = {m \in S : memory[m].project = project}
  OBVIOUS
<1>3. Distinct(q, pool)
  BY <1>1, <1>2 DEF CutFrom
<1>4. pool \subseteq Visible(UNION seen)
  BY <1>2 DEF Visible
<1>5. ToSet(q) \subseteq pool
  BY <1>3, DistinctLists
<1> QED BY <1>2, <1>3, <1>4, <1>5, DistinctMore

LEMMA FocusIs ==
    ASSUME memory \in Corpora, NEW c, NEW V \in SUBSET Memories, LegsRead(c, V)
    PROVE  Distinct(FocusOf(memory, c), V)
<1>1. PICK q : q = FusedOf(memory, c)
  OBVIOUS
<1>2. Distinct(q, V)
  BY <1>1, FusedIs
<1>3. CASE c.focus
  <2>1. PICK n : n = AtMost(FocusLimit, Len(q))
    OBVIOUS
  <2>2. Len(q) \in Nat
    BY <1>2 DEF Distinct
  <2>3. n \in 0..Len(q)
    BY <2>1, <2>2, ReadsAssumption DEF AtMost
  <2>4. FocusOf(memory, c) = SubSeq(q, 1, n)
    BY <1>1, <1>3, <2>1 DEF FocusOf
  <2> QED BY <1>2, <2>3, <2>4, PrefixDistinct
<1>4. CASE ~c.focus
  <2>1. FocusOf(memory, c) = <<>>
    BY <1>4 DEF FocusOf
  <2> QED BY <2>1, EmptyList
<1> QED BY <1>3, <1>4

(* The groups are the first of an order of what is offered.                *)
GroupsFrom(order) ==
    /\ OrderedBy(order, Offered, call, call.focused)
    /\ order \in Seq(Memories) /\ call.groups \in Seq(Item(Offered))
    /\ Snapshot(call.groups, order, RemainingOf(call))
    /\ Budgeted(RemainingOf(call))
LEMMA GroupsAre ==
    ASSUME ReadsInv, Done("context")
    PROVE  /\ Offered \subseteq Visible(UNION seen)
           /\ \E order : GroupsFrom(order)
<1>1. PICK V : V = Visible(UNION seen)
  OBVIOUS
<1>2. /\ memory \in Corpora /\ V \in SUBSET Memories /\ ContextDone(memory, call, V)
      /\ LegsRead(call, V) /\ GlobalTopRead(memory, call, seen) /\ ProjectTopRead(memory, call, seen)
      /\ call.items \in Nat /\ call.chars \in Nat /\ call.tokens \in Nat \cup {NoBudget}
      /\ call.op = "context"
  BY <1>1, ContextState
<1>3. PICK g, p, focus : g = call.globalTop /\ p = call.projectTop /\ focus = FocusOf(memory, call)
  OBVIOUS
<1>4. Distinct(g, V) /\ (\A x \in ToSet(g) : memory[x].project = Global)
  BY <1>1, <1>2, <1>3, TopSeen DEF GlobalTopRead
<1>5. Distinct(p, V) /\ (\A x \in ToSet(p) : memory[x].project # Global)
  <2>1. CASE call.project = Global
    <3>1. p = <<>> /\ ToSet(<<>>) = {}
      BY <1>2, <1>3, <2>1 DEF ProjectTopRead, ToSet
    <3> QED BY <3>1, EmptyList
  <2>2. CASE call.project # Global
    <3>1. TopOf(memory, p, call, call.project, seen)
      BY <1>2, <1>3, <2>2 DEF ProjectTopRead
    <3> QED BY <1>1, <1>2, <2>2, <3>1, TopSeen
  <2> QED BY <2>1, <2>2
<1>6. Distinct(focus, V) /\ ToSet(focus) = call.focused
  BY <1>2, <1>3, FocusIs DEF ContextDone
<1>7. /\ Distinct(g, Memories) /\ Distinct(p, Memories) /\ Distinct(focus, Memories)
      /\ ToSet(g) \cap ToSet(p) = {}
      /\ ToSet(g) \subseteq V /\ ToSet(p) \subseteq V /\ ToSet(focus) \subseteq V
  <2>1. ToSet(g) \subseteq V /\ ToSet(p) \subseteq V /\ ToSet(focus) \subseteq V
    BY <1>4, <1>5, <1>6, DistinctLists
  <2> QED BY <1>2, <1>4, <1>5, <1>6, <2>1, DistinctMore
<1>8. PICK E, T : E = ItemIds(call.profile) /\ T = (ToSet(focus) \cup ToSet(g) \cup ToSet(p)) \ E
  OBVIOUS
<1>9. T = Offered
  BY <1>3, <1>6, <1>8 DEF Offered
<1>10. PICK order : order = PackingOrder(g, p, focus, E, call.strategy, memory)
  OBVIOUS
<1>11. OrderedBy(order, T, call, ToSet(focus))
  BY <1>2, <1>7, <1>8, <1>10, PackingIs
<1>12. T \in SUBSET V
  BY <1>7, <1>8
<1>13. order \in Seq(T)
  BY <1>11, ListsIs DEF OrderedBy
<1>14. PICK b : b = RemainingOf(call)
  OBVIOUS
<1>15. Budgeted(b) /\ b.tokens \in Nat \cup {NoBudget}
  <2>1. Slice(call.profile, V)
    BY <1>2 DEF ContextDone
  <2>2. Len(call.profile) \in Nat /\ Chars(call.profile) \in Nat /\ Tokens(call.profile) \in Nat
    BY <2>1, ItemsOf DEF Slice
  <2>3. \A a \in Nat, d \in Nat : Less(a, d) \in Nat
    BY DEF Less
  <2> QED BY <1>2, <1>14, <2>2, <2>3, ReadsAssumption DEF RemainingOf, Budgeted
<1>16. call.groups = Assemble(order, b, memory).kept
  BY <1>2, <1>3, <1>8, <1>10, <1>14 DEF ContextDone
<1>17. call.groups \in Seq(Item(T)) /\ Snapshot(call.groups, order, b)
  <2>1. T \in SUBSET Memories
    BY <1>2, <1>12
  <2> QED BY <1>2, <1>13, <1>15, <1>16, <2>1, AssembledIs
<1>18. order \in Seq(Memories)
  BY <1>2, <1>12, <1>13
<1>19. GroupsFrom(order)
  BY <1>6, <1>9, <1>11, <1>14, <1>15, <1>17, <1>18 DEF GroupsFrom
<1> QED BY <1>1, <1>9, <1>12, <1>19

LEMMA ReadsVisible == ReadsInv => EachWasVisible
<1> SUFFICES ASSUME ReadsInv, At("done") PROVE Served \subseteq Visible(UNION seen)
  BY DEF EachWasVisible
<1>1. CASE Done("recall")
  BY <1>1, RecallCut DEF Served, Done
<1>2. CASE Done("context")
  <2>1. PICK order : GroupsFrom(order)
    BY <1>2, GroupsAre
  <2>2. ItemIds(call.groups) \subseteq Offered
    BY <2>1, ItemsOf DEF GroupsFrom
  <2>3. ItemIds(call.profile) \subseteq Visible(UNION seen)
    <3>1. Slice(call.profile, Visible(UNION seen))
      BY <1>2, ContextState DEF ContextDone
    <3> QED BY <3>1, SliceIds
  <2>4. Offered \subseteq Visible(UNION seen)
    BY <1>2, GroupsAre
  <2>5. call.op # "recall"
    BY <1>2 DEF Done
  <2> QED BY <2>2, <2>3, <2>4, <2>5 DEF Served
<1>3. call.op \in {"recall", "context"}
  BY DEF ReadsInv, CallRead, RecallInv, ContextInv, At
<1> QED BY <1>1, <1>2, <1>3 DEF Done

(***************************************************************************)
(* The caps, and what is counted as left out.                              *)
(***************************************************************************)
LEMMA CountIds ==
    ASSUME NEW M, NEW items \in Seq(Item(M))
    PROVE  /\ IsFiniteSet(ItemIds(items)) /\ Cardinality(ItemIds(items)) \in Nat
           /\ Cardinality(ItemIds(items)) <= Len(items)
           /\ OnceEach(items) => Cardinality(ItemIds(items)) = Len(items)
<1>1. PICK n, D, T : n = Len(items) /\ D = 1..n /\ T = ItemIds(items)
  OBVIOUS
<1>2. n \in Nat /\ DOMAIN items = D
  BY <1>1
<1>3. IsFiniteSet(D) /\ Cardinality(D) = n
  <2>1. PICK a, b : a = 1 /\ b = n /\ a \in Int /\ b \in Int /\ b >= 0
    BY <1>2
  <2>2. IsFiniteSet(a..b) /\ Cardinality(a..b) = n
    BY <2>1, FS_Interval
  <2> QED BY <1>1, <2>1, <2>2
<1>4. PICK f : f = [i \in D |-> items[i].id]
  OBVIOUS
<1>5. f \in Surjection(D, T)
  BY <1>1, <1>2, <1>4 DEF Surjection, ItemIds
<1>6. OnceEach(items) => f \in Injection(D, T)
  BY <1>2, <1>4, <1>5 DEF OnceEach, Injection, IsInjective, Surjection
<1>7. IsFiniteSet(T) /\ Cardinality(T) <= n /\ (Cardinality(T) = n <=> f \in Injection(D, T))
  BY <1>3, <1>5, FS_Surjection
<1>8. Cardinality(T) \in Nat
  BY <1>7, FS_CardinalityType
<1> QED BY <1>1, <1>6, <1>7, <1>8

LEMMA GroupsOnce ==
    ASSUME NEW order, GroupsFrom(order)
    PROVE  /\ OnceEach(call.groups) /\ Len(call.groups) \in Nat /\ Chars(call.groups) \in Nat
           /\ DOMAIN call.groups = 1..Len(call.groups)
           /\ \A i \in 1..Len(call.groups) : i \in DOMAIN order /\ call.groups[i].id = order[i]
           /\ ItemIds(call.groups) = {order[i] : i \in 1..Len(call.groups)}
<1>1. PICK groups, n : groups = call.groups /\ n = Len(groups)
  OBVIOUS
<1>2. groups \in Seq(Item(Offered)) /\ Snapshot(groups, order, RemainingOf(call))
      /\ order \in Seq(Memories) /\ OrderedBy(order, Offered, call, call.focused)
  BY <1>1 DEF GroupsFrom
<1>3. DOMAIN groups = 1..n /\ n \in Nat /\ Chars(groups) \in Nat /\ DOMAIN order = 1..Len(order)
      /\ Len(order) \in Nat
  BY <1>1, <1>2, ItemsOf
<1>4. n <= Len(order) /\ \A i \in 1..n : groups[i].id = order[i]
  BY <1>1, <1>2 DEF Snapshot, AsOffered
<1>5. \A i \in 1..n : i \in DOMAIN order
  BY <1>3, <1>4
<1>6. \A i, j \in DOMAIN order : order[i] = order[j] => i = j
  BY <1>2, ListsIs DEF OrderedBy
<1>7. OnceEach(groups)
  BY <1>3, <1>4, <1>5, <1>6 DEF OnceEach
<1>8. ItemIds(groups) = {order[i] : i \in 1..n}
  BY <1>3, <1>4 DEF ItemIds
<1> QED BY <1>1, <1>3, <1>4, <1>5, <1>7, <1>8

LEMMA ContextWithin ==
    ASSUME ReadsInv, Done("context")
    PROVE  WithinBudget
<1>1. PICK order : GroupsFrom(order)
  BY GroupsAre
<1>2. PICK profile, groups, n : profile = call.profile /\ groups = call.groups /\ n = Len(groups)
  OBVIOUS
<1>3. /\ memory \in Corpora /\ call.items \in Nat /\ call.chars \in Nat /\ call.tokens \in Nat \cup {NoBudget}
      /\ ContextDone(memory, call, Visible(UNION seen))
  BY ContextState
<1>4. /\ Slice(profile, Visible(UNION seen))
      /\ Within(profile, AtMost(call.items, ProfileReserve.items), AtMost(call.chars, ProfileReserve.chars))
  BY <1>2, <1>3 DEF ContextDone
<1>5. PICK l, cs, ts : l = Len(profile) /\ cs = Chars(profile) /\ ts = Tokens(profile)
  OBVIOUS
<1>6. l \in Nat /\ cs \in Nat /\ ts \in Nat
  BY <1>4, <1>5, ItemsOf DEF Slice
<1>7. l <= call.items /\ cs <= call.chars
  <2>1. PICK i, c : i = ProfileReserve.items /\ c = ProfileReserve.chars /\ i \in Nat /\ c \in Nat
    BY ReadsAssumption
  <2>2. l <= AtMost(call.items, i) /\ cs <= AtMost(call.chars, c)
    BY <1>4, <1>5, <2>1 DEF Within
  <2> QED BY <1>3, <1>6, <2>1, <2>2 DEF AtMost
<1>8. PICK b : b = RemainingOf(call)
  OBVIOUS
<1>9. /\ b.items = Less(call.items, l) /\ b.chars = Less(call.chars, cs)
      /\ b.tokens = IF call.tokens = NoBudget THEN NoBudget ELSE Less(call.tokens, ts)
  BY <1>2, <1>5, <1>8 DEF RemainingOf
<1>10. Snapshot(groups, order, b) /\ n \in Nat /\ Chars(groups) \in Nat /\ DOMAIN groups = 1..n
       /\ \A i \in 1..n : groups[i].id = order[i]
  BY <1>1, <1>2, <1>8, GroupsOnce DEF GroupsFrom
<1>11. l + n <= call.items
  <2>1. n <= Less(call.items, l)
    BY <1>2, <1>9, <1>10 DEF Snapshot
  <2> QED BY <1>3, <1>6, <1>7, <1>10, <2>1 DEF Less
<1>12. cs + Chars(groups) <= call.chars
  <2>1. PICK d : d = Chars(groups) /\ d \in Nat
    BY <1>10
  <2>2. d <= Less(call.chars, cs)
    BY <1>9, <1>10, <2>1 DEF Snapshot
  <2> QED BY <1>3, <1>6, <1>7, <2>1, <2>2 DEF Less
<1>13. ASSUME call.tokens # NoBudget
       PROVE Tokens(Whole([i \in DOMAIN groups |-> groups[i].id], memory)) <= Less(call.tokens, ts)
  <2>1. Less(call.tokens, ts) \in Nat
    BY <1>3, <1>6, <1>13 DEF Less
  <2>2. b.tokens # NoBudget /\ b.tokens = Less(call.tokens, ts)
    BY <1>9, <1>13, <2>1, ReadsAssumption
  <2>3. Cost(order, n) <= Less(call.tokens, ts)
    BY <1>2, <1>10, <2>2 DEF Snapshot, InBudget
  <2>4. PICK w : w = Whole([i \in DOMAIN groups |-> groups[i].id], memory)
    OBVIOUS
  <2>5. DOMAIN w = 1..n /\ \A i \in 1..n : w[i].chars = memory[order[i]].chars
    BY <1>10, <2>4 DEF Whole
  <2>6. [i \in DOMAIN w |-> EstimateTokens(w[i].chars)] = Costs(order, n)
    BY <2>5 DEF Costs
  <2> QED BY <2>3, <2>4, <2>6 DEF Tokens, Cost
<1> QED BY <1>2, <1>5, <1>11, <1>12, <1>13 DEF WithinBudget

LEMMA ContextCounts ==
    ASSUME ReadsInv, Done("context")
    PROVE  OmissionsTrue
<1> SUFFICES ASSUME Quiet PROVE OmissionsTrue
  BY DEF OmissionsTrue
<1>1. PICK order : GroupsFrom(order)
  BY GroupsAre
<1>2. PICK V, profile, groups : V = Visible(UNION seen) /\ profile = call.profile /\ groups = call.groups
  OBVIOUS
<1>3. /\ memory \in Corpora /\ V \in SUBSET Memories /\ ContextDone(memory, call, V) /\ Active \in seen
      /\ TotalsRead(memory, call, seen) /\ call.op = "context"
  BY <1>2, ContextState
<1>4. seen = {Active}
  <2>1. IsFiniteSet(seen)
    <3>1. IsFiniteSet(SUBSET Memories) /\ seen \in SUBSET (SUBSET Memories)
      BY <1>3, CorpusIs, FS_SUBSET DEF ReadsInv
    <3> QED BY <3>1, FS_Subset
  <2> QED BY <1>3, <2>1, FS_Singleton DEF Quiet
<1>5. V = Visible(Active) /\ V = Sees(memory, call, Active)
  BY <1>2, <1>4, VisibleIs
<1>6. PICK A, B : A = ItemIds(profile) /\ B = ItemIds(groups)
  OBVIOUS
<1>7. Slice(profile, V) /\ A \subseteq V
  BY <1>2, <1>3, <1>6, SliceIds DEF ContextDone
<1>8. B \subseteq Offered /\ Offered \subseteq V /\ A \cap B = {}
  <2>1. B \subseteq Offered
    BY <1>1, <1>2, <1>6, ItemsOf DEF GroupsFrom
  <2>2. Offered \subseteq V
    BY <1>2, GroupsAre
  <2> QED BY <1>2, <1>6, <2>1, <2>2 DEF Offered
<1>9. Served = A \cup B
  BY <1>2, <1>3, <1>6 DEF Served
<1>10. IsFiniteSet(V)
  BY <1>3, CorpusIs, FS_Subset
<1>11. /\ IsFiniteSet(A) /\ IsFiniteSet(B) /\ Cardinality(A) = Len(profile) /\ Cardinality(B) = Len(groups)
  <2>1. groups \in Seq(Item(Offered)) /\ OnceEach(groups)
    BY <1>1, <1>2, GroupsOnce DEF GroupsFrom
  <2>2. profile \in Seq(Item(V)) /\ OnceEach(profile)
    BY <1>7 DEF Slice
  <2> QED BY <1>6, <2>1, <2>2, CountIds
<1>12. Len(profile) + Len(groups) = Cardinality(A \cup B)
  <2>1. Cardinality(A \cap B) = 0 /\ Cardinality(A) \in Nat /\ Cardinality(B) \in Nat
    BY <1>8, <1>11, FS_EmptySet, FS_CardinalityType
  <2>2. Cardinality(A \cup B) = Cardinality(A) + Cardinality(B) - Cardinality(A \cap B)
    BY <1>11, FS_Union
  <2> QED BY <1>11, <2>1, <2>2
<1>13. ASSUME NEW k \in DOMAIN call.gaps
       PROVE call.gaps[k] = Cardinality({m \in V \ (A \cup B) : memory[m].category = k})
  <2> DEFINE Of(S) == {m \in S : memory[m].category = k}
  <2>1. /\ k \in DOMAIN call.totals
        /\ call.gaps[k] = Less(call.totals[k], Cardinality(Of(B)) + Cardinality(Of(A)))
    <3>1. call.gaps = [j \in DOMAIN call.totals |->
                         Less(call.totals[j], Cardinality(InCategory(memory, groups, j))
                                      + Cardinality(InCategory(memory, profile, j)))]
      BY <1>2, <1>3 DEF ContextDone
    <3>2. InCategory(memory, groups, k) = Of(B) /\ InCategory(memory, profile, k) = Of(A)
      BY <1>6 DEF InCategory
    <3> QED BY <3>1, <3>2
  <2>2. call.totals[k] = Cardinality(Of(V))
    <3>1. PICK S \in seen : call.totals = [j \in {memory[m].category : m \in DOMAIN memory} |->
                            Cardinality({m \in Sees(memory, call, S) : memory[m].category = j})]
      BY <1>3 DEF TotalsRead, Counted
    <3>2. Sees(memory, call, S) = V
      BY <1>4, <1>5, <3>1
    <3> QED BY <2>1, <3>1, <3>2
  <2>3. /\ IsFiniteSet(Of(V)) /\ IsFiniteSet(Of(A)) /\ IsFiniteSet(Of(B)) /\ IsFiniteSet(Of(V \ (A \cup B)))
        /\ Cardinality(Of(V)) \in Nat /\ Cardinality(Of(A)) \in Nat /\ Cardinality(Of(B)) \in Nat
        /\ Cardinality(Of(V \ (A \cup B))) \in Nat
    <3>1. /\ Of(V) \in SUBSET V /\ Of(A) \in SUBSET V /\ Of(B) \in SUBSET V /\ Of(V \ (A \cup B)) \in SUBSET V
      BY <1>7, <1>8
    <3>2. \A S \in SUBSET V : IsFiniteSet(S) /\ Cardinality(S) \in Nat
      BY <1>10, FS_Subset, FS_CardinalityType
    <3> QED BY <3>1, <3>2
  <2>4. PICK X, Y, Z, W : X = Of(A) /\ Y = Of(B) /\ Z = Of(V \ (A \cup B)) /\ W = Of(V)
    OBVIOUS
  <2>5. Cardinality(W) = Cardinality(X) + Cardinality(Y) + Cardinality(Z)
    <3>1. X \cap Y = {} /\ (X \cup Y) \cap Z = {} /\ W = (X \cup Y) \cup Z /\ Cardinality({}) = 0
      BY <1>7, <1>8, <2>4, FS_EmptySet
    <3>2. /\ IsFiniteSet(X) /\ IsFiniteSet(Y) /\ IsFiniteSet(Z)
          /\ Cardinality(X) \in Nat /\ Cardinality(Y) \in Nat /\ Cardinality(Z) \in Nat
      BY <2>3, <2>4
    <3>3. IsFiniteSet(X \cup Y) /\ Cardinality(X \cup Y) = Cardinality(X) + Cardinality(Y) - Cardinality(X \cap Y)
      BY <3>2, FS_Union
    <3>4. Cardinality((X \cup Y) \cup Z) = Cardinality(X \cup Y) + Cardinality(Z) - Cardinality((X \cup Y) \cap Z)
      BY <3>2, <3>3, FS_Union
    <3>5. Cardinality(X \cap Y) = 0 /\ Cardinality((X \cup Y) \cap Z) = 0
      BY <3>1
    <3>6. Cardinality(X \cup Y) = Cardinality(X) + Cardinality(Y)
      BY <3>2, <3>3, <3>5
    <3>7. Cardinality(W) = Cardinality(X \cup Y) + Cardinality(Z)
      <4>1. Cardinality(W) = Cardinality((X \cup Y) \cup Z)
        BY <3>1
      <4>2. PICK n : n = Cardinality(X) + Cardinality(Y) /\ n \in Nat
        BY <3>2
      <4> QED BY <3>2, <3>4, <3>5, <3>6, <4>1, <4>2
    <3> QED BY <3>6, <3>7
  <2>6. PICK a, b, v, r : /\ a = Cardinality(Of(A)) /\ b = Cardinality(Of(B)) /\ v = Cardinality(Of(V))
                          /\ r = Cardinality(Of(V \ (A \cup B)))
    OBVIOUS
  <2>7. a \in Nat /\ b \in Nat /\ v \in Nat /\ r \in Nat /\ v = a + b + r
    BY <2>3, <2>4, <2>5, <2>6
  <2>8. Less(v, b + a) = r
    BY <2>7 DEF Less
  <2> QED BY <2>1, <2>2, <2>6, <2>8
<1> QED BY <1>2, <1>5, <1>9, <1>12, <1>13 DEF OmissionsTrue

(***************************************************************************)
(* Nothing is passed over; the theorems.                                   *)
(***************************************************************************)
(* What is left out of the pools is crowded out of them.                   *)
LEMMA LeftOut ==
    ASSUME ReadsInv, Done("context"), NEW m \in Memories, m \notin Offered, m \notin ItemIds(call.profile),
           \A S \in seen : m \in Visible(S)
    PROVE  \E q : ToSet(q) \subseteq call.focused \cup ToSet(call.globalTop) \cup ToSet(call.projectTop)
                  /\ Crowding(memory, q, m, WindowOf(call))
<1>1. /\ memory \in Corpora /\ Active \in seen /\ call.op = "context"
      /\ GlobalTopRead(memory, call, seen) /\ ProjectTopRead(memory, call, seen)
  BY ContextState
<1>2. memory[m].project \in {call.project, Global}
  BY <1>1 DEF Visible
<1>3. \A S \in seen : m \in S
  BY DEF Visible
<1>4. PICK q, project : /\ TopOf(memory, q, call, project, seen) /\ memory[m].project = project
                        /\ q \in {call.globalTop, call.projectTop}
  <2>1. CASE memory[m].project = Global
    BY <1>1, <2>1 DEF GlobalTopRead
  <2>2. CASE memory[m].project # Global
    BY <1>1, <1>2, <2>2 DEF ProjectTopRead
  <2> QED BY <2>1, <2>2
<1>5. PICK S \in seen : CutFrom(memory, q, {x \in S : memory[x].project = project}, WindowOf(call))
  BY <1>4 DEF TopOf
<1>6. m \in {x \in S : memory[x].project = project}
  BY <1>3, <1>4
<1>7. m \notin ToSet(q)
  BY <1>4 DEF Offered
<1>8. Crowding(memory, q, m, WindowOf(call))
  BY <1>5, <1>6, <1>7 DEF CutFrom
<1> QED BY <1>4, <1>8

LEMMA GoesEarns ==
    ASSUME memory \in Corpora, NEW m \in Memories, NEW n \in Memories, Goes(m, n)
    PROVE  Earns(call, call.focused, m, n)
<1>1. PICK M, N : M = memory[m] /\ N = memory[n]
  OBVIOUS
<1>2. PICK category : category = [k \in {M.category, N.category} |-> Priority(call.strategy, k)]
  OBVIOUS
<1>3. category[M.category] = Priority(call.strategy, M.category) /\ category[N.category] = Priority(call.strategy, N.category)
  BY <1>2
<1>4. \/ category[M.category] < category[N.category]
      \/ /\ M.category = N.category /\ n \notin call.focused
         /\ \/ M.importance > N.importance
            \/ M.importance = N.importance /\ M.created > N.created
  BY <1>1, <1>2 DEF Goes
<1> QED BY <1>1, <1>3, <1>4 DEF Earns

(* What is before a memory goes where it goes.                             *)
LEMMA EarnsMore ==
    ASSUME memory \in Corpora, NEW x \in Memories, NEW m \in Memories, NEW n \in Memories,
           memory[x].category = memory[m].category, NotAfter(memory, x, m), NEW focus,
           Earns(call, focus, m, n)
    PROVE  Earns(call, focus, x, n)
<1>1. /\ memory[x].importance \in Nat /\ memory[m].importance \in Nat /\ memory[n].importance \in Nat
      /\ memory[x].created \in Nat /\ memory[m].created \in Nat /\ memory[n].created \in Nat
  BY CorpusIs DEF Numbers
<1> QED BY <1>1 DEF Earns, NotAfter

LEMMA ContextUnholed ==
    ASSUME ReadsInv, Done("context")
    PROVE  NothingPassedOver
<1> SUFFICES ASSUME NEW m \in Memories, m \notin Served, \A S \in seen : m \in Visible(S),
                    NEW n \in ItemIds(call.groups), Goes(m, n)
             PROVE  FALSE
  BY DEF NothingPassedOver
<1>1. PICK order : GroupsFrom(order)
  BY GroupsAre
<1>2. PICK groups, k, E, B : /\ groups = call.groups /\ k = Len(groups) /\ E = ItemIds(call.profile)
                             /\ B = ItemIds(groups)
  OBVIOUS
<1>3. /\ memory \in Corpora /\ call.op = "context" /\ call.items \in Nat
      /\ ContextDone(memory, call, Visible(UNION seen)) /\ Offered \subseteq Memories
  <2>1. Offered \subseteq Visible(UNION seen) /\ Visible(UNION seen) \in SUBSET Memories
    BY GroupsAre, ContextState
  <2> QED BY <2>1, ContextState
<1>4. Served = E \cup B
  BY <1>2, <1>3 DEF Served
<1>5. /\ k \in Nat /\ \A i \in 1..k : i \in DOMAIN order
      /\ B = {order[i] : i \in 1..k} /\ groups \in Seq(Item(Offered)) /\ B \subseteq Offered
  BY <1>1, <1>2, GroupsOnce, ItemsOf DEF GroupsFrom
<1>6. PICK R : /\ ListOf(order, Offered, R)
               /\ \A x, y \in Offered : Earns(call, call.focused, x, y) => <<x, y>> \in R
  BY <1>1 DEF GroupsFrom, OrderedBy
<1>7. n \in Offered /\ n \in Memories /\ n \in B
  BY <1>2, <1>3, <1>5
<1>8. Earns(call, call.focused, m, n)
  BY <1>3, <1>7, GoesEarns
<1>9. ASSUME NEW x \in Offered, Earns(call, call.focused, x, n) PROVE x \in B
  <2>1. PICK j \in 1..k : n = order[j]
    BY <1>5, <1>7
  <2>2. PICK i \in DOMAIN order : order[i] = x
    BY <1>6 DEF ListOf
  <2>3. <<order[i], order[j]>> \in R
    BY <1>6, <1>7, <1>9, <2>1, <2>2
  <2>4. i < j
    BY <1>5, <1>6, <2>1, <2>3 DEF ListOf
  <2>5. DOMAIN order = 1..Len(order) /\ Len(order) \in Nat
    BY <1>6 DEF ListOf
  <2>6. i \in 1..k
    BY <1>5, <2>4, <2>5
  <2> QED BY <1>5, <2>2, <2>6
<1>10. m \notin Offered
  BY <1>4, <1>8, <1>9
<1>11. PICK q : /\ ToSet(q) \subseteq call.focused \cup ToSet(call.globalTop) \cup ToSet(call.projectTop)
                /\ Crowding(memory, q, m, WindowOf(call))
  <2>1. m \notin ItemIds(call.profile)
    BY <1>2, <1>4
  <2> QED BY <1>10, <2>1, LeftOut
<1>12. PICK X \in SUBSET ToSet(q) : /\ Cardinality(X) = WindowOf(call)
                                    /\ \A x \in X : memory[x].category = memory[m].category /\ NotAfter(memory, x, m)
  BY <1>11 DEF Crowding
<1>13. X \subseteq E \cup B
  <2> SUFFICES ASSUME NEW x \in X, x \notin E PROVE x \in B
    OBVIOUS
  <2>1. x \in Offered
    BY <1>2, <1>11, <1>12 DEF Offered
  <2>2. x \in Memories
    BY <1>3, <2>1
  <2>3. Earns(call, call.focused, x, n)
    BY <1>3, <1>7, <1>8, <1>12, <2>2, EarnsMore
  <2> QED BY <1>9, <2>1, <2>3
<1>14. PICK l : l = Len(call.profile)
  OBVIOUS
<1>15. /\ IsFiniteSet(E) /\ IsFiniteSet(B) /\ Cardinality(E) <= l /\ Cardinality(B) <= k /\ l \in Nat
       /\ Cardinality(E) \in Nat /\ Cardinality(B) \in Nat
  <2>1. call.profile \in Seq(Item(Visible(UNION seen)))
    BY <1>3 DEF ContextDone, Slice
  <2>2. /\ IsFiniteSet(ItemIds(call.profile)) /\ Cardinality(ItemIds(call.profile)) \in Nat
        /\ Cardinality(ItemIds(call.profile)) <= Len(call.profile) /\ Len(call.profile) \in Nat
    BY <2>1, CountIds
  <2>3. IsFiniteSet(B) /\ Cardinality(B) \in Nat /\ Cardinality(B) <= k
    BY <1>2, <1>5, CountIds
  <2> QED BY <1>2, <1>14, <2>2, <2>3
<1>16. l + k <= call.items
  BY <1>2, <1>14, ContextWithin DEF WithinBudget
<1>17. Cardinality(X) <= l + k /\ Cardinality(X) \in Nat
  <2>1. IsFiniteSet(E \cup B) /\ Cardinality(E \cup B) = Cardinality(E) + Cardinality(B) - Cardinality(E \cap B)
    BY <1>15, FS_Union
  <2>2. IsFiniteSet(E \cap B)
    BY <1>15, FS_Subset
  <2>3. Cardinality(E \cap B) \in Nat /\ Cardinality(E \cup B) \in Nat
    BY <2>1, <2>2, FS_CardinalityType
  <2>4. IsFiniteSet(X) /\ Cardinality(X) <= Cardinality(E \cup B)
    BY <1>13, <2>1, FS_Subset
  <2>5. Cardinality(X) \in Nat
    BY <2>4, FS_CardinalityType
  <2> QED BY <1>5, <1>15, <2>1, <2>3, <2>4, <2>5
<1>18. WindowOf(call) >= call.items + 1 /\ WindowOf(call) \in Nat
  <2>1. PICK r : r = ProfileReserve.items /\ r \in Nat
    BY ReadsAssumption
  <2> QED BY <1>3, <2>1 DEF WindowOf, AtMost
<1> QED BY <1>3, <1>5, <1>12, <1>15, <1>16, <1>17, <1>18

LEMMA ReadsServe == ReadsInv => RecallServes /\ ContextServes
<1> SUFFICES ASSUME ReadsInv PROVE RecallServes /\ ContextServes
  OBVIOUS
<1>1. TiesAreNeutral
  BY RecallNeutral DEF TiesAreNeutral
<1>2. RecallIsLongestPrefix
  BY RecallCut DEF RecallIsLongestPrefix
<1>3. NothingPassedOver
  BY ContextUnholed DEF NothingPassedOver
<1>4. WithinBudget
  BY ContextWithin DEF WithinBudget
<1>5. OmissionsTrue
  BY ContextCounts DEF OmissionsTrue
<1> QED BY <1>1, <1>2, <1>3, <1>4, <1>5 DEF RecallServes, ContextServes

(* Whatever writes fall between the statements of a call, and however      *)
(* stale the profile row it finds, recall and context serve memories that  *)
(* were active and visible at an instant of the call (search_candidates    *)
(* and context_snapshot, memory_repo.py; recall and context, service.py).  *)
THEOREM OnlyVisible == ReadsSpec => []EachWasVisible
BY ReadsStart, ReadsStep, ReadsVisible, PTL DEF ReadsSpec

(* Recall ranks candidates of equal importance by the legs alone, and      *)
(* serves the longest prefix of its order that the limit and the budget    *)
(* allow (reciprocal_rank_fusion, reorder_by_strategy and                  *)
(* pack_by_token_budget).                                                  *)
THEOREM RecallsServe == ReadsSpec => []RecallServes
BY ReadsStart, ReadsStep, ReadsServe, PTL DEF ReadsSpec

(* A snapshot passes no memory over that was visible all along and goes    *)
(* before one it has, keeps every cap together with the profile, and, when *)
(* nothing was written, counts what it left out (SessionContextBudget and  *)
(* apply_profile_budget).                                                  *)
THEOREM ContextsServe == ReadsSpec => []ContextServes
BY ReadsStart, ReadsStep, ReadsServe, PTL DEF ReadsSpec

(***************************************************************************)
(* The memories of a graph and their pairs.                                *)
(***************************************************************************)
LEMMA ShapeIs ==
    ASSUME shape \in Shapes
    PROVE  /\ Nodes \subseteq Nat /\ IsFiniteSet(Nodes)
           /\ \A n \in Nodes : shape.importance[n] \in Nat
           /\ \A p \in NodePairs(Nodes) : Similarity(p) \in Nat
BY GraphAssumption DEF Nodes, Similarity

LEMMA PairsAre ==
    ASSUME shape \in Shapes, NEW S \in SUBSET Nodes
    PROVE  /\ IsFiniteSet(S) /\ IsFiniteSet(NodePairs(S)) /\ IsFiniteSet(Qualifying(S))
           /\ Qualifying(S) \in SUBSET NodePairs(S) /\ NodePairs(S) \in SUBSET NodePairs(Nodes)
           /\ \A p \in NodePairs(S) : /\ p = <<p[1], p[2]>> /\ p[1] \in S /\ p[2] \in S
                                      /\ p[1] \in Nat /\ p[2] \in Nat /\ p[1] < p[2]
                                      /\ Similarity(p) \in Nat
<1>1. IsFiniteSet(S)
  BY ShapeIs, FS_Subset
<1>2. IsFiniteSet(NodePairs(S))
  <2>1. IsFiniteSet(S \X S)
    BY <1>1, FS_Product
  <2> QED BY <2>1, FS_Subset DEF NodePairs
<1>3. NodePairs(S) \in SUBSET NodePairs(Nodes)
  BY DEF NodePairs
<1>4. IsFiniteSet(Qualifying(S)) /\ Qualifying(S) \in SUBSET NodePairs(S)
  BY <1>2, FS_Subset DEF Qualifying
<1>5. ASSUME NEW p \in NodePairs(S)
      PROVE  /\ p = <<p[1], p[2]>> /\ p[1] \in S /\ p[2] \in S
             /\ p[1] \in Nat /\ p[2] \in Nat /\ p[1] < p[2] /\ Similarity(p) \in Nat
  <2>1. p = <<p[1], p[2]>> /\ p[1] \in S /\ p[2] \in S /\ p[1] < p[2]
    BY DEF NodePairs
  <2> QED BY <1>3, <2>1, ShapeIs
<1> QED BY <1>1, <1>2, <1>3, <1>4, <1>5

(* The order of the pairs a statement returns. *)
Stronger(P) ==
    {pq \in P \X P : \/ Similarity(pq[1]) > Similarity(pq[2])
                     \/ /\ Similarity(pq[1]) = Similarity(pq[2])
                        /\ \/ pq[1][1] < pq[2][1]
                           \/ pq[1][1] = pq[2][1] /\ pq[1][2] < pq[2][2]}
LEMMA StrongestLists ==
    ASSUME shape \in Shapes, NEW P \in SUBSET NodePairs(Nodes)
    PROVE  ListOf(Strongest(P), P, Stronger(P))
<1>1. IsFiniteSet(P)
  BY PairsAre, FS_Subset
<1>2. \A p \in P : /\ p = <<p[1], p[2]>> /\ p[1] \in Nat /\ p[2] \in Nat
                   /\ Similarity(p) \in Nat
  BY PairsAre
<1>3. StrictOrder(Stronger(P), P)
  <2> DEFINE Beats(p, q) == \/ Similarity(p) > Similarity(q)
                            \/ /\ Similarity(p) = Similarity(q)
                               /\ p[1] < q[1] \/ (p[1] = q[1] /\ p[2] < q[2])
  <2>1. \A p, q \in P : <<p, q>> \in Stronger(P) <=> Beats(p, q)
    BY DEF Stronger
  <2>2. \A p \in P : ~Beats(p, p)
    BY <1>2
  <2>3. ASSUME NEW p \in P, NEW q \in P, p # q PROVE Beats(p, q) \/ Beats(q, p)
    <3>1. p[1] # q[1] \/ p[2] # q[2]
      BY <1>2, <2>3
    <3> QED BY <1>2, <3>1
  <2>4. ASSUME NEW p \in P, NEW q \in P, NEW r \in P, Beats(p, q), Beats(q, r) PROVE Beats(p, r)
    BY <1>2, <2>4
  <2> HIDE DEF Beats
  <2> QED BY <2>1, <2>2, <2>3, <2>4 DEF StrictOrder
<1>4. Strongest(P) = Arranged(P, Stronger(P))
  BY DEF Strongest, Stronger
<1> QED BY <1>1, <1>3, <1>4, ArrangedLists

(***************************************************************************)
(* _cap_pairs_by_degree                                                    *)
(***************************************************************************)
CapSteps(t, pairs, most) ==
    /\ t \in [0..Len(pairs) -> Seq(NodePairs(Nodes))] /\ t[0] = <<>>
    /\ \A n \in 0..(Len(pairs) - 1) : t[n + 1] = CapStep(t[n], pairs[n + 1], most)
    /\ CapPairsByDegree(pairs, most) = t[Len(pairs)]
LEMMA CapTrace ==
    ASSUME NEW pairs \in Seq(NodePairs(Nodes)), NEW most
    PROVE  \E t : CapSteps(t, pairs, most)
<1>0. DOMAIN pairs = 1..Len(pairs) /\ Len(pairs) \in Nat
  OBVIOUS
<1>1. PICK X, A, base : X = NodePairs(Nodes) /\ A = Seq(X) /\ base = <<>>
  OBVIOUS
<1> DEFINE Op(p, x) == CapStep(p, x, most)
           F == [q \in A \X X |-> Op(q[1], q[2])]
           Body(h) == [u \in SUBSET DOMAIN pairs |->
                          IF u = {} THEN base ELSE Op(h[u \ {Max(u)}], pairs[Max(u)])]
           iter == CHOOSE h : h = Body(h)
<1>2. CapPairsByDegree(pairs, most) = iter[DOMAIN pairs]
  BY <1>1 DEF CapPairsByDegree, FoldLeft, MapThenFoldSet
<1>3. base \in A /\ F \in [A \X X -> A]
  <2>1. \A p \in A, x \in X : Op(p, x) \in A
    BY <1>1 DEF CapStep
  <2> HIDE DEF Op
  <2> QED BY <1>1, <2>1
<1>4. \A p \in A, x \in X : F[<<p, x>>] = Op(p, x)
  OBVIOUS
<1> HIDE DEF F, Op
<1>a. pairs \in Seq(X)
  BY <1>1
<1>5. PICK g : FoldTable(F, base, pairs, A, g)
  BY <1>3, <1>a, FoldExists
<1>6. g = Body(g)
  <2>1. ASSUME NEW u \in SUBSET DOMAIN pairs, u # {}
        PROVE g[u] = Op(g[u \ {Max(u)}], pairs[Max(u)])
    <3>1. Max(u) \in u /\ u \ {Max(u)} \in SUBSET DOMAIN pairs
      BY <1>0, <2>1, LastPosition
    <3>2. g[u] = F[<<g[u \ {Max(u)}], pairs[Max(u)]>>] /\ g[u \ {Max(u)}] \in A
      BY <1>5, <2>1, <3>1 DEF FoldTable, FoldedBy
    <3>3. pairs[Max(u)] \in X
      BY <1>a, <2>1, <3>1
    <3> QED BY <1>4, <3>2, <3>3
  <2>2. g[{}] = base /\ g = [u \in SUBSET DOMAIN pairs |-> g[u]]
    BY <1>5 DEF FoldTable, FoldedBy
  <2> QED BY <2>1, <2>2
<1> HIDE DEF Body
<1>7. PICK h : h = iter /\ h = Body(h)
  BY <1>6
<1> USE DEF Body
<1>8. Table(h, F, base, pairs, A)
  <2>1. h[{}] = base
    BY <1>7
  <2>2. ASSUME NEW u \in SUBSET DOMAIN pairs, u # {}, h[u \ {Max(u)}] \in A
        PROVE h[u] = F[<<h[u \ {Max(u)}], pairs[Max(u)]>>]
    <3>1. h[u] = Op(h[u \ {Max(u)}], pairs[Max(u)])
      BY <1>7, <2>2
    <3>2. Max(u) \in u
      BY <1>0, <2>2, LastPosition
    <3>3. pairs[Max(u)] \in X
      BY <1>a, <2>2, <3>2
    <3> QED BY <1>4, <2>2, <3>1, <3>3
  <2> QED BY <2>1, <2>2 DEF Table
<1> HIDE DEF Body, iter
<1>9. PICK t : Trace(t, F, base, pairs, A, h[DOMAIN pairs])
  BY <1>3, <1>8, <1>a, TableTraces
<1>10. ASSUME NEW n \in 0..(Len(pairs) - 1) PROVE t[n + 1] = CapStep(t[n], pairs[n + 1], most)
  <2>1. n \in 0..Len(pairs) /\ n + 1 \in DOMAIN pairs
    BY <1>0
  <2>2. t[n] \in A /\ pairs[n + 1] \in X
    BY <1>9, <1>a, <2>1 DEF Trace
  <2>3. t[n + 1] = F[<<t[n], pairs[n + 1]>>]
    BY <1>9 DEF Trace
  <2> QED BY <1>4, <2>2, <2>3 DEF Op
<1> QED BY <1>1, <1>2, <1>7, <1>9, <1>10 DEF Trace, CapSteps

(* No end has more pairs than the bound, and a pair that is left out meets *)
(* the bound in earlier ones.                                              *)
DegreesWithin(P, most) == \A n \in Nodes : Cardinality(EdgesOf(n, P)) <= most
CrowdedOut(p, P, K, most) ==
    \E n \in {p[1], p[2]} : Cardinality({q \in EdgesOf(n, K) : q \in P}) >= most
CappedAt(pairs, K, i, most) ==
    /\ K \subseteq {pairs[j] : j \in 1..i} /\ DegreesWithin(K, most)
    /\ \A j \in 1..i : pairs[j] \in K \/ CrowdedOut(pairs[j], {pairs[l] : l \in 1..(j - 1)}, K, most)

LEMMA EdgesAre ==
    ASSUME shape \in Shapes, NEW P \in SUBSET NodePairs(Nodes), NEW n
    PROVE  /\ IsFiniteSet(P) /\ IsFiniteSet(EdgesOf(n, P)) /\ EdgesOf(n, P) \in SUBSET P
           /\ Cardinality(EdgesOf(n, P)) \in Nat
<1>1. IsFiniteSet(P)
  BY PairsAre, FS_Subset
<1>2. IsFiniteSet(EdgesOf(n, P)) /\ EdgesOf(n, P) \in SUBSET P
  BY <1>1, FS_Subset DEF EdgesOf
<1> QED BY <1>1, <1>2, FS_CardinalityType

LEMMA CapIs ==
    ASSUME shape \in Shapes, NEW pairs \in Seq(NodePairs(Nodes)), NEW most \in Nat
    PROVE  /\ CapPairsByDegree(pairs, most) \in Seq(ToSet(pairs))
           /\ CappedAt(pairs, ToSet(CapPairsByDegree(pairs, most)), Len(pairs), most)
<1>0. DOMAIN pairs = 1..Len(pairs) /\ Len(pairs) \in Nat
  OBVIOUS
<1>1. PICK t : CapSteps(t, pairs, most)
  BY CapTrace
<1> DEFINE G == {n \in 0..Len(pairs) : CappedAt(pairs, ToSet(t[n]), n, most)}
<1>2. 0 \in G
  <2>1. t[0] = <<>> /\ 0 \in 0..Len(pairs)
    BY <1>0, <1>1 DEF CapSteps
  <2>2. ToSet(t[0]) = {}
    BY <2>1 DEF ToSet
  <2>3. \A n \in Nodes : EdgesOf(n, {}) = {}
    BY DEF EdgesOf
  <2>4. DegreesWithin({}, most)
    <3>1. Cardinality({}) = 0 /\ 0 <= most
      BY FS_EmptySet
    <3>2. \A n \in Nodes : Cardinality(EdgesOf(n, {})) <= most
      BY <2>3, <3>1, Zenon
    <3> QED BY <3>2 DEF DegreesWithin
  <2>5. CappedAt(pairs, {}, 0, most)
    BY <2>4 DEF CappedAt
  <2> QED BY <2>1, <2>2, <2>5
<1>3. ASSUME NEW n \in 0..(Len(pairs) - 1), CappedAt(pairs, ToSet(t[n]), n, most)
      PROVE  CappedAt(pairs, ToSet(t[n + 1]), n + 1, most)
  <2>1. PICK m, p, K : /\ m = n + 1 /\ p = pairs[m] /\ K = ToSet(t[n]) /\ m \in DOMAIN pairs
                       /\ n \in Nat /\ m \in Nat /\ n \in 0..Len(pairs)
    BY <1>0
  <2>2. t[m] = CapStep(t[n], p, most) /\ t[n] \in Seq(NodePairs(Nodes))
    BY <1>1, <2>1 DEF CapSteps
  <2>3. p \in NodePairs(Nodes) /\ p[1] \in Nodes /\ p[2] \in Nodes
    BY <2>1, PairsAre
  <2>4. 1..m = (1..n) \cup {m} /\ m - 1 = n
    BY <2>1
  <2>5. CappedAt(pairs, K, n, most)
    BY <1>3, <2>1
  <2>6. K \in SUBSET NodePairs(Nodes)
    BY <2>1, <2>2 DEF ToSet
  <2>7. CASE Saturated(p, K, most)
    <3>1. t[m] = t[n]
      BY <2>1, <2>2, <2>7 DEF CapStep
    <3>2. PICK x \in {p[1], p[2]} : Cardinality(EdgesOf(x, K)) >= most
      BY <2>7 DEF Saturated
    <3>3. {q \in EdgesOf(x, K) : q \in {pairs[l] : l \in 1..n}} = EdgesOf(x, K)
      BY <2>5 DEF CappedAt, EdgesOf
    <3>4. CrowdedOut(p, {pairs[l] : l \in 1..n}, K, most)
      BY <3>2, <3>3 DEF CrowdedOut
    <3>5. K \subseteq {pairs[j] : j \in 1..m} /\ DegreesWithin(K, most)
      BY <2>4, <2>5 DEF CappedAt
    <3>6. \A j \in 1..m : pairs[j] \in K \/ CrowdedOut(pairs[j], {pairs[l] : l \in 1..(j - 1)}, K, most)
      <4>1. \A j \in 1..n : pairs[j] \in K \/ CrowdedOut(pairs[j], {pairs[l] : l \in 1..(j - 1)}, K, most)
        BY <2>5 DEF CappedAt
      <4>2. CrowdedOut(pairs[m], {pairs[l] : l \in 1..(m - 1)}, K, most)
        BY <2>1, <2>4, <3>4
      <4> QED BY <2>4, <4>1, <4>2
    <3>7. CappedAt(pairs, K, m, most)
      BY <3>5, <3>6 DEF CappedAt
    <3> QED BY <2>1, <3>1, <3>7
  <2>8. CASE ~Saturated(p, K, most)
    <3>1. PICK L : L = K \cup {p}
      OBVIOUS
    <3>2. t[m] = Append(t[n], p) /\ ToSet(t[m]) = L
      <4>1. t[m] = Append(t[n], p)
        BY <2>1, <2>2, <2>8 DEF CapStep
      <4>2. /\ Len(t[n]) \in Nat /\ DOMAIN Append(t[n], p) = 1..(Len(t[n]) + 1)
            /\ Append(t[n], p)[Len(t[n]) + 1] = p
            /\ \A i \in 1..Len(t[n]) : Append(t[n], p)[i] = t[n][i]
        BY <2>2
      <4>3. ToSet(Append(t[n], p)) = {Append(t[n], p)[i] : i \in 1..(Len(t[n]) + 1)}
        BY <4>2 DEF ToSet
      <4>4. 1..(Len(t[n]) + 1) = (1..Len(t[n])) \cup {Len(t[n]) + 1}
        BY <4>2
      <4>5. K = {t[n][i] : i \in 1..Len(t[n])}
        BY <2>1, <2>2 DEF ToSet
      <4>6. ToSet(Append(t[n], p)) = L
        BY <3>1, <4>2, <4>3, <4>4, <4>5
      <4> QED BY <4>1, <4>6
    <3>3. L \subseteq {pairs[j] : j \in 1..m}
      <4>1. K \subseteq {pairs[j] : j \in 1..n}
        BY <2>5 DEF CappedAt
      <4> QED BY <2>1, <2>4, <3>1, <4>1
    <3>4. DegreesWithin(L, most)
      <4> SUFFICES ASSUME NEW x \in Nodes PROVE Cardinality(EdgesOf(x, L)) <= most
        BY DEF DegreesWithin
      <4>1. Cardinality(EdgesOf(x, K)) <= most /\ IsFiniteSet(EdgesOf(x, K))
            /\ Cardinality(EdgesOf(x, K)) \in Nat
        BY <2>5, <2>6, EdgesAre DEF CappedAt, DegreesWithin
      <4>2. CASE x \in {p[1], p[2]}
        <5>1. Cardinality(EdgesOf(x, K)) < most
          BY <2>8, <4>1, <4>2 DEF Saturated
        <5>2. EdgesOf(x, L) = EdgesOf(x, K) \cup {p}
          BY <3>1, <4>2 DEF EdgesOf
        <5>3. Cardinality(EdgesOf(x, L)) <= Cardinality(EdgesOf(x, K)) + 1
          <6>1. PICK e : e = EdgesOf(x, K)
            OBVIOUS
          <6>2. IsFiniteSet(e) /\ Cardinality(e) \in Nat /\ EdgesOf(x, L) = e \cup {p}
            BY <4>1, <5>2, <6>1
          <6>3. Cardinality(e \cup {p}) <= Cardinality(e) + 1
            <7>1. p \in e => e \cup {p} = e
              OBVIOUS
            <7>2. p \notin e => Cardinality(e \cup {p}) = Cardinality(e) + 1
              BY <6>2, FS_AddElement
            <7>3. PICK c, d : c = Cardinality(e) /\ d = Cardinality(e \cup {p})
              OBVIOUS
            <7>4. c \in Nat /\ (d = c \/ d = c + 1)
              BY <6>2, <7>1, <7>2, <7>3
            <7>5. d <= c + 1
              BY <7>4
            <7> QED BY <7>3, <7>5
          <6> QED BY <6>1, <6>2, <6>3
        <5>4. PICK a, b : a = Cardinality(EdgesOf(x, L)) /\ b = Cardinality(EdgesOf(x, K))
          OBVIOUS
        <5>5. IsFiniteSet(EdgesOf(x, L))
          BY <4>1, <5>2, FS_AddElement
        <5>6. a \in Nat /\ b \in Nat
          BY <4>1, <5>4, <5>5, FS_CardinalityType
        <5> QED BY <5>1, <5>3, <5>4, <5>6
      <4>3. CASE x \notin {p[1], p[2]}
        <5>1. EdgesOf(x, L) = EdgesOf(x, K)
          BY <3>1, <4>3 DEF EdgesOf
        <5> QED BY <4>1, <5>1
      <4> QED BY <4>2, <4>3
    <3>5. ASSUME NEW j \in 1..m
          PROVE  pairs[j] \in L \/ CrowdedOut(pairs[j], {pairs[l] : l \in 1..(j - 1)}, L, most)
      <4>1. CASE j = m
        BY <2>1, <3>1, <4>1
      <4>2. CASE j # m
        <5>1. j \in 1..n
          BY <2>4, <4>2
        <5>2. CASE pairs[j] \in K
          BY <3>1, <5>2
        <5>3. CASE pairs[j] \notin K
          <6>1. PICK E : E = {pairs[l] : l \in 1..(j - 1)}
            OBVIOUS
          <6>2. CrowdedOut(pairs[j], E, K, most)
            BY <2>5, <5>1, <5>3, <6>1 DEF CappedAt
          <6>3. PICK x \in {pairs[j][1], pairs[j][2]} :
                   Cardinality({q \in EdgesOf(x, K) : q \in E}) >= most
            BY <6>2 DEF CrowdedOut
          <6>4. PICK u, v : /\ u = {q \in EdgesOf(x, K) : q \in E}
                            /\ v = {q \in EdgesOf(x, L) : q \in E}
            OBVIOUS
          <6>5. u \subseteq v /\ IsFiniteSet(v)
            <7>1. L \in SUBSET NodePairs(Nodes)
              BY <2>3, <2>6, <3>1
            <7>2. IsFiniteSet(EdgesOf(x, L))
              BY <7>1, EdgesAre
            <7>3. v \subseteq EdgesOf(x, L)
              BY <6>4
            <7>4. u \subseteq v
              BY <3>1, <6>4 DEF EdgesOf
            <7> QED BY <7>2, <7>3, <7>4, FS_Subset
          <6>6. Cardinality(u) <= Cardinality(v) /\ Cardinality(u) \in Nat /\ Cardinality(v) \in Nat
            BY <6>5, FS_Subset, FS_CardinalityType
          <6>7. Cardinality(v) >= most
            BY <6>3, <6>4, <6>6
          <6> QED BY <6>1, <6>4, <6>7 DEF CrowdedOut
        <5> QED BY <5>2, <5>3
      <4> QED BY <4>1, <4>2
    <3>6. CappedAt(pairs, L, m, most)
      BY <3>3, <3>4, <3>5 DEF CappedAt
    <3> QED BY <2>1, <3>2, <3>6
  <2> QED BY <2>7, <2>8
<1>4. 0..Len(pairs) \subseteq G
  <2>1. \A n \in 0..(Len(pairs) - 1) : n \in G => n + 1 \in G
    <3> SUFFICES ASSUME NEW n \in 0..(Len(pairs) - 1), n \in G PROVE n + 1 \in G
      OBVIOUS
    <3>1. n + 1 \in 0..Len(pairs) /\ CappedAt(pairs, ToSet(t[n]), n, most)
      BY <1>0
    <3> QED BY <1>3, <3>1
  <2> HIDE DEF G
  <2> QED BY <1>0, <1>2, <2>1, UpTo
<1>5. CappedAt(pairs, ToSet(CapPairsByDegree(pairs, most)), Len(pairs), most)
  <2>1. Len(pairs) \in 0..Len(pairs)
    BY <1>0
  <2>2. CappedAt(pairs, ToSet(t[Len(pairs)]), Len(pairs), most)
    BY <1>4, <2>1
  <2> QED BY <1>1, <2>2 DEF CapSteps
<1>6. CapPairsByDegree(pairs, most) \in Seq(ToSet(pairs))
  <2>1. PICK c : c = CapPairsByDegree(pairs, most)
    OBVIOUS
  <2>2. c \in Seq(NodePairs(Nodes))
    <3>1. Len(pairs) \in 0..Len(pairs)
      BY <1>0
    <3> QED BY <1>1, <2>1, <3>1 DEF CapSteps
  <2>3. ToSet(c) \subseteq ToSet(pairs)
    BY <1>0, <1>5, <2>1 DEF CappedAt, ToSet
  <2>4. c \in Seq(ToSet(c))
    BY <2>2 DEF ToSet
  <2>5. c \in Seq(ToSet(pairs))
    <3>1. PICK a, b : a = ToSet(c) /\ b = ToSet(pairs)
      OBVIOUS
    <3> QED BY <2>3, <2>4, <3>1
  <2> QED BY <2>1, <2>5
<1> QED BY <1>5, <1>6

(* A list within the bound is left as it is. *)
LEMMA CapOfCapped ==
    ASSUME shape \in Shapes, NEW pairs \in Seq(NodePairs(Nodes)), NEW most \in Nat,
           DegreesWithin(ToSet(pairs), most)
    PROVE  ToSet(CapPairsByDegree(pairs, most)) = ToSet(pairs)
<1>0. DOMAIN pairs = 1..Len(pairs) /\ Len(pairs) \in Nat
  OBVIOUS
<1>1. PICK K, P : K = ToSet(CapPairsByDegree(pairs, most)) /\ P = ToSet(pairs)
  OBVIOUS
<1>2. CappedAt(pairs, K, Len(pairs), most)
  BY <1>1, CapIs
<1>3. K \subseteq P /\ P \in SUBSET NodePairs(Nodes)
  <2>1. P = {pairs[j] : j \in 1..Len(pairs)}
    BY <1>0, <1>1 DEF ToSet
  <2>2. K \subseteq P
    BY <1>2, <2>1 DEF CappedAt
  <2> QED BY <1>0, <2>1, <2>2
<1>4. ASSUME NEW p \in P, p \notin K PROVE FALSE
  <2>1. PICK j \in 1..Len(pairs) : pairs[j] = p
    BY <1>0, <1>1, <1>4 DEF ToSet
  <2>2. PICK E : E = {pairs[l] : l \in 1..(j - 1)}
    OBVIOUS
  <2>3. CrowdedOut(p, E, K, most)
    BY <1>2, <1>4, <2>1, <2>2 DEF CappedAt
  <2>4. PICK n \in {p[1], p[2]} : Cardinality({q \in EdgesOf(n, K) : q \in E}) >= most
    BY <2>3 DEF CrowdedOut
  <2>5. p \in NodePairs(Nodes) /\ p[1] \in Nodes /\ p[2] \in Nodes /\ n \in Nodes
    BY <1>3, <1>4, <2>4, PairsAre
  <2>6. PICK u, v : u = {q \in EdgesOf(n, K) : q \in E} /\ v = EdgesOf(n, P)
    OBVIOUS
  <2>7. u \subseteq v \ {p} /\ p \in v
    <3>1. EdgesOf(n, K) \subseteq EdgesOf(n, P) \ {p}
      BY <1>3, <1>4 DEF EdgesOf
    <3>2. p \in EdgesOf(n, P)
      BY <2>4 DEF EdgesOf
    <3> QED BY <2>6, <3>1, <3>2
  <2>8. IsFiniteSet(v) /\ Cardinality(v) \in Nat /\ Cardinality(v) <= most
    <3>1. IsFiniteSet(v) /\ Cardinality(v) \in Nat
      BY <1>3, <2>6, EdgesAre
    <3>2. DegreesWithin(P, most)
      BY <1>1
    <3> QED BY <2>5, <2>6, <3>1, <3>2 DEF DegreesWithin
  <2>9. /\ IsFiniteSet(v \ {p}) /\ Cardinality(v \ {p}) = Cardinality(v) - 1
    BY <2>7, <2>8, FS_RemoveElement
  <2>10. Cardinality(u) <= Cardinality(v \ {p}) /\ IsFiniteSet(u)
    BY <2>7, <2>9, FS_Subset
  <2>11. PICK a, b : a = Cardinality(u) /\ b = Cardinality(v)
    OBVIOUS
  <2>12. a \in Nat /\ b \in Nat /\ a <= b - 1 /\ a >= most /\ b <= most
    <3>1. a \in Nat
      BY <2>10, <2>11, FS_CardinalityType
    <3>2. Cardinality(u) >= most
      BY <2>4, <2>6
    <3> QED BY <2>8, <2>9, <2>10, <2>11, <3>1, <3>2
  <2> QED BY <2>12
<1> QED BY <1>1, <1>3, <1>4

(* Pairs in their order: what is left out is crowded out by stronger ones. *)
Outdone(p, K, most) == \E n \in {p[1], p[2]} : Cardinality(AtLeastAsStrong(n, p, K)) >= most
LEMMA SortedCap ==
    ASSUME shape \in Shapes, NEW P \in SUBSET NodePairs(Nodes), NEW pairs, NEW most \in Nat,
           ListOf(pairs, P, Stronger(P)), NEW K, K = ToSet(CapPairsByDegree(pairs, most))
    PROVE  /\ K \in SUBSET P /\ DegreesWithin(K, most) /\ \A p \in P \ K : Outdone(p, K, most)
           /\ CapPairsByDegree(pairs, most) \in Seq(P)
<1>1. /\ pairs \in Seq(P) /\ ToSet(pairs) = P /\ DOMAIN pairs = 1..Len(pairs) /\ Len(pairs) \in Nat
      /\ \A i, j \in DOMAIN pairs : i < j <=> <<pairs[i], pairs[j]>> \in Stronger(P)
  BY ListsIs DEF ListOf
<1>2. pairs \in Seq(NodePairs(Nodes))
  BY <1>1
<1>3. CappedAt(pairs, K, Len(pairs), most) /\ CapPairsByDegree(pairs, most) \in Seq(P)
  BY <1>1, <1>2, CapIs
<1>4. K \in SUBSET P /\ DegreesWithin(K, most)
  BY <1>1, <1>3 DEF CappedAt, ToSet
<1>5. ASSUME NEW p \in P, p \notin K PROVE Outdone(p, K, most)
  <2>1. PICK j \in DOMAIN pairs : pairs[j] = p
    BY <1>1 DEF ToSet
  <2>2. PICK E : E = {pairs[l] : l \in 1..(j - 1)}
    OBVIOUS
  <2>3. CrowdedOut(p, E, K, most)
    BY <1>1, <1>3, <1>5, <2>1, <2>2 DEF CappedAt
  <2>4. PICK n \in {p[1], p[2]} : Cardinality({q \in EdgesOf(n, K) : q \in E}) >= most
    BY <2>3 DEF CrowdedOut
  <2>5. \A q \in E : q \in P /\ Similarity(q) >= Similarity(p)
    <3> SUFFICES ASSUME NEW l \in 1..(j - 1)
                 PROVE pairs[l] \in P /\ Similarity(pairs[l]) >= Similarity(p)
      BY <2>2
    <3>1. l \in DOMAIN pairs /\ l < j
      BY <1>1, <2>1
    <3>2. <<pairs[l], pairs[j]>> \in Stronger(P) /\ pairs[l] \in P
      BY <1>1, <3>1 DEF ToSet
    <3>3. Similarity(pairs[l]) \in Nat /\ Similarity(p) \in Nat
      BY <1>5, <3>2, PairsAre
    <3> QED BY <2>1, <3>2, <3>3 DEF Stronger
  <2>6. PICK u, v : u = {q \in EdgesOf(n, K) : q \in E} /\ v = AtLeastAsStrong(n, p, K)
    OBVIOUS
  <2>7. u \subseteq v
    <3>1. \A q \in u : q \in EdgesOf(n, K) /\ q \in K /\ q \in E
      BY <2>6 DEF EdgesOf
    <3>2. \A q \in u : q \in EdgesOf(n, K) \ {p} /\ Similarity(q) >= Similarity(p)
      BY <1>5, <2>5, <3>1
    <3> QED BY <2>6, <3>2 DEF AtLeastAsStrong
  <2>8. IsFiniteSet(v)
    <3>1. IsFiniteSet(EdgesOf(n, K))
      BY <1>4, EdgesAre
    <3>2. v \subseteq EdgesOf(n, K)
      BY <2>6 DEF AtLeastAsStrong
    <3> QED BY <3>1, <3>2, FS_Subset
  <2>9. Cardinality(u) <= Cardinality(v) /\ Cardinality(u) \in Nat /\ Cardinality(v) \in Nat
    BY <2>7, <2>8, FS_Subset, FS_CardinalityType
  <2>10. Cardinality(v) >= most
    BY <2>4, <2>6, <2>9
  <2> QED BY <2>6, <2>10 DEF Outdone
<1> QED BY <1>3, <1>4, <1>5

(***************************************************************************)
(* _scalable_graph_edges: pairs that are not read are among the strongest  *)
(* of neither end, and each pair is counted at both.                       *)
(***************************************************************************)
Overlooked(p, P, most) == \A n \in {p[1], p[2]} : Cardinality(AtLeastAsStrong(n, p, P)) >= most
LEMMA ScalableIs ==
    ASSUME shape \in Shapes, NEW S \in SUBSET Nodes, NEW most \in Nat
    PROVE  /\ ScalablePairs(S, most) \in Seq(Qualifying(S))
           /\ DegreesWithin(ToSet(ScalablePairs(S, most)), most)
           /\ \A p \in Qualifying(S) \ ToSet(ScalablePairs(S, most)) :
                 \/ Outdone(p, ToSet(ScalablePairs(S, most)), most)
                 \/ Overlooked(p, Qualifying(S), most)
<1>1. PICK Q, U, K : /\ Q = Qualifying(S) /\ U = UNION {NearestOf(n, S, most) : n \in S}
                     /\ K = ToSet(ScalablePairs(S, most))
  OBVIOUS
<1>2. Q \in SUBSET NodePairs(S) /\ Q \in SUBSET NodePairs(Nodes) /\ IsFiniteSet(Q)
  BY <1>1, PairsAre
<1>3. U \in SUBSET Q
  BY <1>1 DEF NearestOf, Neighbours, EdgesOf
<1>4. U \in SUBSET NodePairs(Nodes)
  BY <1>2, <1>3
<1>5. ListOf(Strongest(U), U, Stronger(U))
  BY <1>4, StrongestLists
<1>6. ScalablePairs(S, most) = CapPairsByDegree(Strongest(U), most)
  BY <1>1 DEF ScalablePairs
<1>7. /\ K \in SUBSET U /\ DegreesWithin(K, most) /\ \A p \in U \ K : Outdone(p, K, most)
      /\ ScalablePairs(S, most) \in Seq(U)
  <2>1. PICK pairs : pairs = Strongest(U)
    OBVIOUS
  <2>2. ListOf(pairs, U, Stronger(U)) /\ K = ToSet(CapPairsByDegree(pairs, most))
    BY <1>1, <1>5, <1>6, <2>1
  <2> QED BY <1>4, <1>6, <2>1, <2>2, SortedCap
<1>8. ScalablePairs(S, most) \in Seq(Q)
  BY <1>3, <1>7
<1>9. ASSUME NEW p \in Q, p \notin U, NEW n \in {p[1], p[2]}
      PROVE  Cardinality(AtLeastAsStrong(n, p, Q)) >= most
  <2>1. n \in S /\ p[1] \in S /\ p[2] \in S /\ p[1] \in Nat /\ p[2] \in Nat /\ Similarity(p) \in Nat
    BY <1>2, <1>9, PairsAre
  <2>2. Neighbours(n, S) = EdgesOf(n, Q) /\ p \in EdgesOf(n, Q)
    BY <1>1, <1>9 DEF Neighbours, EdgesOf
  <2>3. PICK u, v : /\ u = {q \in EdgesOf(n, Q) :
                               \/ Similarity(q) > Similarity(p)
                               \/ Similarity(q) = Similarity(p) /\ Other(q, n) < Other(p, n)}
                    /\ v = AtLeastAsStrong(n, p, Q)
    OBVIOUS
  <2>4. ~(Cardinality(u) < most)
    <3>1. p \notin NearestOf(n, S, most)
      BY <1>1, <1>9, <2>1
    <3> QED BY <2>2, <2>3, <3>1 DEF NearestOf
  <2>5. u \subseteq v
    <3> SUFFICES ASSUME NEW q \in u PROVE q \in v
      OBVIOUS
    <3>1. q \in EdgesOf(n, Q) /\ q \in Q
      BY <2>3 DEF EdgesOf
    <3>2. Similarity(q) \in Nat
      BY <1>2, <3>1, PairsAre
    <3>3. Similarity(q) >= Similarity(p)
      BY <2>1, <2>3, <3>2
    <3>4. q # p
      <4>1. Other(p, n) \in Nat
        BY <2>1 DEF Other
      <4> QED BY <2>1, <2>3, <4>1
    <3> QED BY <2>3, <3>1, <3>3, <3>4 DEF AtLeastAsStrong
  <2>6. IsFiniteSet(v)
    <3>1. IsFiniteSet(EdgesOf(n, Q))
      BY <1>2, EdgesAre
    <3>2. v \subseteq EdgesOf(n, Q)
      BY <2>3 DEF AtLeastAsStrong
    <3> QED BY <3>1, <3>2, FS_Subset
  <2>7. Cardinality(u) <= Cardinality(v) /\ Cardinality(u) \in Nat /\ Cardinality(v) \in Nat
    BY <2>5, <2>6, FS_Subset, FS_CardinalityType
  <2>8. Cardinality(v) >= most
    BY <2>4, <2>7
  <2> QED BY <2>3, <2>8
<1>10. ASSUME NEW p \in Q, p \notin K PROVE Outdone(p, K, most) \/ Overlooked(p, Q, most)
  <2>1. CASE p \in U
    BY <1>7, <1>10, <2>1
  <2>2. CASE p \notin U
    <3>1. \A n \in {p[1], p[2]} : Cardinality(AtLeastAsStrong(n, p, Q)) >= most
      BY <1>9, <2>2
    <3> QED BY <3>1 DEF Overlooked
  <2> QED BY <2>1, <2>2
<1> QED BY <1>1, <1>7, <1>8, <1>10

(* A pair is counted at both of its ends. *)
Degrees(S, P) == [n \in S |-> Cardinality(EdgesOf(n, P))]
LEMMA Handshake ==
    ASSUME shape \in Shapes, NEW S \in SUBSET Nodes, NEW P \in SUBSET NodePairs(S)
    PROVE  Cardinality(P) \in Nat /\ SumFunctionOnSet(Degrees(S, P), S) = 2 * Cardinality(P)
<1>1. IsFiniteSet(S) /\ IsFiniteSet(NodePairs(S)) /\ NodePairs(S) \in SUBSET NodePairs(Nodes)
  BY PairsAre
<1>2. IsFiniteSet(P) /\ Cardinality(P) \in Nat
  BY <1>1, FS_Subset, FS_CardinalityType
<1> DEFINE Sum(Q) == SumFunctionOnSet(Degrees(S, Q), S)
           F == {Q \in SUBSET P : Sum(Q) # 2 * Cardinality(Q)}
<1>3. F = {}
  <2> SUFFICES ASSUME F # {} PROVE FALSE
    OBVIOUS
  <2>1. F \in SUBSET (SUBSET P)
    OBVIOUS
  <2> HIDE DEF F
  <2>2. PICK Q \in F : \A R \in F : R \subseteq Q => R = Q
    BY <1>2, <2>1, SmallestSubset
  <2>3. /\ Q \in SUBSET P /\ Sum(Q) # 2 * Cardinality(Q) /\ IsFiniteSet(Q)
        /\ Cardinality(Q) \in Nat
    BY <1>2, <2>1, FS_Subset, FS_CardinalityType DEF F
  <2>4. Q # {}
    <3> SUFFICES ASSUME Q = {} PROVE FALSE
      OBVIOUS
    <3>1. PICK f : f = Degrees(S, {})
      OBVIOUS
    <3>2. \A n \in S : f[n] = 0
      <4>1. \A n \in S : EdgesOf(n, {}) = {}
        BY DEF EdgesOf
      <4>2. \A n \in S : f[n] = Cardinality({})
        BY <3>1, <4>1 DEF Degrees
      <4> QED BY <4>2, FS_EmptySet
    <3>3. SumFunctionOnSet(f, S) = 0
      BY <1>1, <3>2, SumZero
    <3> QED BY <2>3, <3>1, <3>3, FS_EmptySet
  <2>5. PICK p, R : p \in Q /\ R = Q \ {p}
    BY <2>4
  <2>6. R \in SUBSET P /\ R # Q /\ R \subseteq Q /\ p \notin R /\ Q = R \cup {p}
    BY <2>3, <2>5
  <2>7. Sum(R) = 2 * Cardinality(R)
    BY <2>2, <2>6 DEF F
  <2>8. Cardinality(R) = Cardinality(Q) - 1
    BY <2>3, <2>5, FS_RemoveElement
  <2>9. PICK a, b : a = p[1] /\ b = p[2]
    OBVIOUS
  <2>10. a \in S /\ b \in S /\ a # b
    <3>1. p \in NodePairs(S)
      BY <2>3, <2>5
    <3>2. a \in S /\ b \in S /\ a < b /\ a \in Nat /\ b \in Nat
      BY <2>9, <3>1, PairsAre
    <3> QED BY <3>2
  <2>11. PICK f, g, h : /\ f = Degrees(S, R) /\ h = Degrees(S, Q)
                        /\ g = [f EXCEPT ![a] = h[a]]
    OBVIOUS
  <2>12. ASSUME NEW n \in S PROVE /\ f[n] \in Nat /\ h[n] \in Nat
                                  /\ h[n] = IF n \in {a, b} THEN f[n] + 1 ELSE f[n]
    <3>1. R \in SUBSET NodePairs(Nodes) /\ Q \in SUBSET NodePairs(Nodes)
      BY <1>1, <2>3, <2>6
    <3>2. PICK e, d : e = EdgesOf(n, R) /\ d = EdgesOf(n, Q)
      OBVIOUS
    <3>3. /\ IsFiniteSet(e) /\ Cardinality(e) \in Nat /\ Cardinality(d) \in Nat
      BY <3>1, <3>2, EdgesAre
    <3>4. f[n] = Cardinality(e) /\ h[n] = Cardinality(d)
      BY <2>11, <3>2 DEF Degrees
    <3>5. CASE n \in {a, b}
      <4>1. d = e \cup {p} /\ p \notin e
        BY <2>6, <2>9, <3>2, <3>5 DEF EdgesOf
      <4>2. Cardinality(d) = Cardinality(e) + 1
        BY <3>3, <4>1, FS_AddElement
      <4> QED BY <3>3, <3>4, <3>5, <4>2
    <3>6. CASE n \notin {a, b}
      <4>1. d = e
        BY <2>6, <2>9, <3>2, <3>6 DEF EdgesOf
      <4> QED BY <3>3, <3>4, <3>6, <4>1
    <3> QED BY <3>5, <3>6
  <2>13. f = [n \in S |-> f[n]] /\ DOMAIN f = S
    BY <2>11 DEF Degrees
  <2>14. /\ \A n \in S : g[n] = IF n = a THEN h[a] ELSE f[n]
    BY <2>11, <2>13
  <2>15. \A n \in S : f[n] \in Int /\ g[n] \in Int /\ h[n] \in Int
    BY <2>10, <2>12, <2>14
  <2>16. /\ \A n \in S \ {a} : f[n] = g[n]
         /\ \A n \in S \ {b} : g[n] = h[n]
    BY <2>10, <2>12, <2>14
  <2>17. SumFunctionOnSet(g, S) = SumFunctionOnSet(f, S) + g[a] - f[a]
    BY <1>1, <2>10, <2>15, <2>16, SumChange
  <2>18. SumFunctionOnSet(h, S) = SumFunctionOnSet(g, S) + h[b] - g[b]
    BY <1>1, <2>10, <2>15, <2>16, SumChange
  <2>19. f[a] \in Nat /\ f[b] \in Nat /\ g[a] = f[a] + 1 /\ h[b] = f[b] + 1 /\ g[b] = f[b]
    BY <2>10, <2>12, <2>14
  <2>20. PICK x, y, z, c : /\ x = SumFunctionOnSet(f, S) /\ y = SumFunctionOnSet(g, S)
                           /\ z = SumFunctionOnSet(h, S) /\ c = Cardinality(R)
    OBVIOUS
  <2>21. x \in Int /\ c \in Nat /\ x = 2 * c /\ y = x + 1 /\ z = y + 1
    <3>1. x \in Int
      BY <1>1, <2>15, <2>20, SumInt
    <3>2. c \in Nat
      BY <1>2, <2>6, <2>20, FS_Subset, FS_CardinalityType
    <3>3. x = 2 * c
      BY <2>7, <2>11, <2>20
    <3>4. y = x + (f[a] + 1) - f[a]
      BY <2>17, <2>19, <2>20
    <3>5. y = x + 1
      BY <2>19, <3>1, <3>4
    <3>6. z = y + (f[b] + 1) - f[b]
      BY <2>18, <2>19, <2>20
    <3>7. z = y + 1
      BY <2>19, <3>1, <3>5, <3>6
    <3> QED BY <3>1, <3>2, <3>3, <3>5, <3>7
  <2>22. z = 2 * (c + 1) /\ c + 1 = Cardinality(Q)
    BY <2>3, <2>8, <2>20, <2>21
  <2>23. Sum(Q) = z
    BY <2>11, <2>20
  <2> QED BY <2>3, <2>22, <2>23
<1>4. Sum(P) = 2 * Cardinality(P)
  BY <1>3
<1> QED BY <1>2, <1>4

LEMMA ScalableTotalIs ==
    ASSUME shape \in Shapes, NEW S \in SUBSET Nodes
    PROVE  ScalableTotal(S) = Cardinality(Qualifying(S))
<1>1. PICK Q, f : Q = Qualifying(S) /\ f = Degrees(S, Q)
  OBVIOUS
<1>2. Q \in SUBSET NodePairs(S)
  BY <1>1, PairsAre
<1>3. Cardinality(Q) \in Nat /\ SumFunctionOnSet(f, S) = 2 * Cardinality(Q)
  BY <1>1, <1>2, Handshake
<1>4. ScalableTotal(S) = SumFunctionOnSet(f, S) \div 2
  <2>1. f = [n \in S |-> Cardinality(Neighbours(n, S))] /\ DOMAIN f = S
    BY <1>1 DEF Degrees, Neighbours
  <2> QED BY <2>1 DEF ScalableTotal, SumFunction
<1>5. \A c \in Nat : (2 * c) \div 2 = c
  OBVIOUS
<1> QED BY <1>1, <1>3, <1>4, <1>5

(***************************************************************************)
(* The first most of a set in an order are most of them, or all.           *)
(***************************************************************************)
LEMMA TopMost ==
    ASSUME NEW S, IsFiniteSet(S), NEW R, StrictOrder(R, S), NEW most \in Nat,
           NEW T, T = {x \in S : Cardinality(Earlier(x, S, R)) < most}
    PROVE  IsFiniteSet(T) /\ (T = S \/ most <= Cardinality(T))
<1>1. IsFiniteSet(T) /\ Cardinality(S) \in Nat /\ Cardinality(T) \in Nat
  BY FS_Subset, FS_CardinalityType
<1>2. \A x \in S : Cardinality(Earlier(x, S, R)) \in 0..(Cardinality(S) - 1)
  BY EarlierGrow
<1>3. CASE Cardinality(S) <= most
  <2>1. \A x \in S : Cardinality(Earlier(x, S, R)) < most
    BY <1>1, <1>2, <1>3
  <2> QED BY <1>1, <2>1
<1>4. CASE ~(Cardinality(S) <= most)
  <2>1. most \in 0..(Cardinality(S) - 1)
    BY <1>1, <1>4
  <2>2. PICK x \in S : Cardinality(Earlier(x, S, R)) = most
    BY <2>1, EveryPlace
  <2>3. Earlier(x, S, R) \subseteq T
    <3> SUFFICES ASSUME NEW y \in Earlier(x, S, R) PROVE y \in T
      OBVIOUS
    <3>1. y \in S /\ <<y, x>> \in R
      BY DEF Earlier
    <3>2. Cardinality(Earlier(y, S, R)) < Cardinality(Earlier(x, S, R))
      BY <3>1, EarlierGrow
    <3> QED BY <2>2, <3>1, <3>2
  <2>4. Cardinality(Earlier(x, S, R)) <= Cardinality(T)
    BY <1>1, <2>3, FS_Subset
  <2> QED BY <1>1, <2>2, <2>4
<1> QED BY <1>3, <1>4

(***************************************************************************)
(* Union-find: parents that lead to a root R of each node, h rising on the *)
(* way.  A step of find keeps the roots, and fewer nodes are higher.       *)
(***************************************************************************)
HalveState(N) == [parent : [N -> N], node : N]
Forest(f, h, R, N) ==
    /\ f \in [N -> N] /\ h \in [N -> Nat] /\ R \in [N -> N]
    /\ \A n \in N : /\ f[n] # n => h[n] < h[f[n]]
                    /\ R[f[n]] = R[n]
                    /\ f[n] = n => R[n] = n
Higher(h, x, N) == {m \in N : h[m] > h[x]}

LEMMA HalveIs ==
    ASSUME NEW N, NEW s \in HalveState(N)
    PROVE  /\ Halve(s) \in HalveState(N)
           /\ s.parent[s.node] = s.node => Halve(s) = s
           /\ s.parent[s.node] # s.node =>
                 /\ Halve(s).node = s.parent[s.parent[s.node]]
                 /\ Halve(s).parent =
                       [s.parent EXCEPT ![s.node] = s.parent[s.parent[s.node]]]
<1>1. s.parent \in [N -> N] /\ s.node \in N
  BY DEF HalveState
<1>2. s.parent[s.node] \in N /\ s.parent[s.parent[s.node]] \in N
  BY <1>1
<1>3. [s.parent EXCEPT ![s.node] = s.parent[s.parent[s.node]]] \in [N -> N]
  BY <1>1, <1>2
<1> QED BY <1>1, <1>2, <1>3 DEF Halve, HalveState

LEMMA HalveKeeps ==
    ASSUME NEW N, IsFiniteSet(N), NEW h, NEW R, NEW s \in HalveState(N),
           Forest(s.parent, h, R, N), s.parent[s.node] # s.node
    PROVE  /\ Forest(Halve(s).parent, h, R, N) /\ R[Halve(s).node] = R[s.node]
           /\ \A m \in N : s.parent[m] = m => Halve(s).parent[m] = m
           /\ Cardinality(Higher(h, Halve(s).node, N)) < Cardinality(Higher(h, s.node, N))
<1>1. PICK f, n, up, top, g : /\ f = s.parent /\ n = s.node /\ up = f[n] /\ top = f[up]
                              /\ g = [f EXCEPT ![n] = top]
  OBVIOUS
<1>2. Halve(s).node = top /\ Halve(s).parent = g
  BY <1>1, HalveIs
<1>3. f \in [N -> N] /\ n \in N /\ h \in [N -> Nat] /\ R \in [N -> N]
  BY <1>1 DEF HalveState, Forest
<1>4. up \in N /\ top \in N /\ up # n /\ h[n] \in Nat /\ h[up] \in Nat /\ h[top] \in Nat
  BY <1>1, <1>3
<1>5. \A m \in N : (f[m] # m => h[m] < h[f[m]]) /\ R[f[m]] = R[m] /\ (f[m] = m => R[m] = m)
  BY <1>1 DEF Forest
<1>6. h[n] < h[top] /\ R[top] = R[n] /\ top # n
  <2>1. h[n] < h[up] /\ (up = top \/ h[up] < h[top])
    BY <1>1, <1>3, <1>4, <1>5
  <2>2. h[n] < h[top]
    BY <1>4, <2>1
  <2>3. R[top] = R[n]
    BY <1>1, <1>3, <1>4, <1>5
  <2> QED BY <1>4, <2>2, <2>3
<1>7. g \in [N -> N] /\ \A m \in N : g[m] = IF m = n THEN top ELSE f[m]
  BY <1>1, <1>3, <1>4
<1>8. Forest(g, h, R, N)
  <2>1. \A m \in N : (g[m] # m => h[m] < h[g[m]]) /\ R[g[m]] = R[m] /\ (g[m] = m => R[m] = m)
    BY <1>5, <1>6, <1>7
  <2> QED BY <1>3, <1>7, <2>1 DEF Forest
<1>9. \A m \in N : f[m] = m => g[m] = m
  BY <1>1, <1>4, <1>7
<1>10. Cardinality(Higher(h, top, N)) < Cardinality(Higher(h, n, N))
  <2>1. PICK u, v : u = Higher(h, top, N) /\ v = Higher(h, n, N)
    OBVIOUS
  <2>2. u \subseteq v \ {top} /\ top \in v /\ v \subseteq N
    BY <1>3, <1>4, <1>6, <2>1 DEF Higher
  <2>3. IsFiniteSet(v) /\ Cardinality(v) \in Nat
    BY <2>2, FS_Subset, FS_CardinalityType
  <2>4. IsFiniteSet(v \ {top}) /\ Cardinality(v \ {top}) = Cardinality(v) - 1
    BY <2>2, <2>3, FS_RemoveElement
  <2>5. IsFiniteSet(u) /\ Cardinality(u) <= Cardinality(v \ {top}) /\ Cardinality(u) \in Nat
    BY <2>2, <2>4, FS_Subset, FS_CardinalityType
  <2>6. Cardinality(u) < Cardinality(v)
    BY <2>3, <2>4, <2>5
  <2> QED BY <2>1, <2>6
<1> QED BY <1>1, <1>2, <1>6, <1>8, <1>9, <1>10

FindSteps(t, f, x, N) ==
    /\ t \in [0..Cardinality(N) -> HalveState(N)] /\ t[0] = [parent |-> f, node |-> x]
    /\ \A n \in 0..(Cardinality(N) - 1) : t[n + 1] = Halve(t[n])
    /\ Found(f, x) = t[Cardinality(N)]
LEMMA FindTrace ==
    ASSUME NEW N, IsFiniteSet(N), NEW f \in [N -> N], NEW x \in N
    PROVE  \E t : FindSteps(t, f, x, N)
<1>s. PICK list : list = [i \in 1..Cardinality(N) |-> i]
  OBVIOUS
<1>a. list \in Seq(Nat) /\ DOMAIN list = 1..Len(list) /\ Len(list) \in Nat
  <2>1. Cardinality(N) \in Nat
    BY FS_CardinalityType
  <2> QED BY <1>s, <2>1
<1>1. PICK X, A, base : X = Nat /\ A = HalveState(N) /\ base = [parent |-> f, node |-> x]
  OBVIOUS
<1> DEFINE Op(p, i) == Halve(p)
           F == [q \in A \X X |-> Op(q[1], q[2])]
           Body(h) == [u \in SUBSET DOMAIN list |->
                          IF u = {} THEN base ELSE Op(h[u \ {Max(u)}], list[Max(u)])]
           iter == CHOOSE h : h = Body(h)
<1>2. Found(f, x) = iter[DOMAIN list]
  <2>1. DOMAIN f = N
    OBVIOUS
  <2> QED BY <1>s, <1>1, <2>1 DEF Found, FoldLeft, MapThenFoldSet
<1>3. base \in A /\ F \in [A \X X -> A]
  <2>1. base \in A /\ \A p \in A, i \in X : Op(p, i) \in A
    BY <1>1, HalveIs DEF HalveState
  <2> HIDE DEF Op
  <2> QED BY <2>1
<1>4. \A p \in A, i \in X : F[<<p, i>>] = Op(p, i)
  OBVIOUS
<1> HIDE DEF F, Op
<1>b. list \in Seq(X)
  BY <1>a, <1>1
<1>5. PICK g : FoldTable(F, base, list, A, g)
  BY <1>3, <1>b, FoldExists
<1>6. g = Body(g)
  <2>1. ASSUME NEW u \in SUBSET DOMAIN list, u # {}
        PROVE g[u] = Op(g[u \ {Max(u)}], list[Max(u)])
    <3>1. Max(u) \in u /\ u \ {Max(u)} \in SUBSET DOMAIN list
      BY <1>a, <2>1, LastPosition
    <3>2. g[u] = F[<<g[u \ {Max(u)}], list[Max(u)]>>] /\ g[u \ {Max(u)}] \in A
      BY <1>5, <2>1, <3>1 DEF FoldTable, FoldedBy
    <3>3. list[Max(u)] \in X
      BY <1>b, <2>1, <3>1
    <3> QED BY <1>4, <3>2, <3>3
  <2>2. g[{}] = base /\ g = [u \in SUBSET DOMAIN list |-> g[u]]
    BY <1>5 DEF FoldTable, FoldedBy
  <2> QED BY <2>1, <2>2
<1> HIDE DEF Body
<1>7. PICK h : h = iter /\ h = Body(h)
  BY <1>6
<1> USE DEF Body
<1>8. Table(h, F, base, list, A)
  <2>1. h[{}] = base
    BY <1>7
  <2>2. ASSUME NEW u \in SUBSET DOMAIN list, u # {}, h[u \ {Max(u)}] \in A
        PROVE h[u] = F[<<h[u \ {Max(u)}], list[Max(u)]>>]
    <3>1. h[u] = Op(h[u \ {Max(u)}], list[Max(u)])
      BY <1>7, <2>2
    <3>2. Max(u) \in u
      BY <1>a, <2>2, LastPosition
    <3>3. list[Max(u)] \in X
      BY <1>b, <2>2, <3>2
    <3> QED BY <1>4, <2>2, <3>1, <3>3
  <2> QED BY <2>1, <2>2 DEF Table
<1> HIDE DEF Body, iter
<1>9. PICK t : Trace(t, F, base, list, A, h[DOMAIN list])
  BY <1>3, <1>8, <1>b, TableTraces
<1>10. ASSUME NEW n \in 0..(Len(list) - 1) PROVE t[n + 1] = Halve(t[n])
  <2>1. n \in 0..Len(list) /\ n + 1 \in DOMAIN list
    BY <1>a
  <2>2. t[n] \in A /\ list[n + 1] \in X
    BY <1>9, <1>b, <2>1 DEF Trace
  <2>3. t[n + 1] = F[<<t[n], list[n + 1]>>]
    BY <1>9 DEF Trace
  <2> QED BY <1>4, <2>2, <2>3 DEF Op
<1>c. Len(list) = Cardinality(N)
  <2>1. Cardinality(N) \in Nat
    BY FS_CardinalityType
  <2> QED BY <1>s, <2>1
<1> QED BY <1>c, <1>s, <1>a, <1>1, <1>2, <1>7, <1>9, <1>10 DEF Trace, FindSteps

(* find ends at the root, and leaves the roots as they were. *)
FoundRoot(s, f, x, h, R, N) ==
    /\ s \in HalveState(N) /\ Forest(s.parent, h, R, N) /\ s.node = R[x]
    /\ s.parent[s.node] = s.node /\ \A m \in N : f[m] = m => s.parent[m] = m
LEMMA FoundIs ==
    ASSUME NEW N, IsFiniteSet(N), NEW f, NEW h, NEW R, Forest(f, h, R, N), NEW x \in N
    PROVE  FoundRoot(Found(f, x), f, x, h, R, N)
<1>1. f \in [N -> N] /\ h \in [N -> Nat] /\ R \in [N -> N]
  BY DEF Forest
<1>2. PICK t : FindSteps(t, f, x, N)
  BY <1>1, FindTrace
<1>3. PICK c : c = Cardinality(N) /\ c \in Nat
  BY FS_CardinalityType
<1>a. /\ t \in [0..c -> HalveState(N)] /\ t[0] = [parent |-> f, node |-> x] /\ Found(f, x) = t[c]
      /\ \A n \in 0..(c - 1) : t[n + 1] = Halve(t[n])
  BY <1>2, <1>3 DEF FindSteps
<1> DEFINE Reaches(s, n) ==
              /\ Forest(s.parent, h, R, N) /\ R[s.node] = R[x]
              /\ \A m \in N : f[m] = m => s.parent[m] = m
              /\ s.parent[s.node] = s.node \/ Cardinality(Higher(h, s.node, N)) + n < c
           G == {n \in 0..c : Reaches(t[n], n)}
<1>b. \A y : IsFiniteSet(Higher(h, y, N)) /\ Cardinality(Higher(h, y, N)) \in Nat
  <2>1. \A y : Higher(h, y, N) \subseteq N
    BY DEF Higher
  <2> QED BY <2>1, FS_Subset, FS_CardinalityType
<1>4. 0 \in G
  <2>1. 0 \in 0..c /\ t[0].parent = f /\ t[0].node = x
    BY <1>3, <1>a
  <2>2. Cardinality(Higher(h, x, N)) + 0 < c
    <3>1. PICK u : u = Higher(h, x, N)
      OBVIOUS
    <3>2. u \subseteq N \ {x}
      BY <1>1, <3>1 DEF Higher
    <3>3. IsFiniteSet(N \ {x}) /\ Cardinality(N \ {x}) = c - 1
      BY <1>3, FS_RemoveElement
    <3>4. Cardinality(u) <= c - 1 /\ Cardinality(u) \in Nat
      BY <1>b, <3>1, <3>2, <3>3, FS_Subset
    <3> QED BY <1>3, <3>1, <3>4
  <2> QED BY <2>1, <2>2
<1>5. ASSUME NEW n \in 0..(c - 1), Reaches(t[n], n) PROVE Reaches(t[n + 1], n + 1)
  <2>1. PICK s, r : s = t[n] /\ r = Halve(s) /\ r = t[n + 1] /\ s \in HalveState(N)
    <3>1. n \in 0..c
      BY <1>3
    <3> QED BY <1>a, <3>1
  <2>2. Reaches(s, n)
    BY <1>5, <2>1
  <2>3. CASE s.parent[s.node] = s.node
    <3>1. r = s
      BY <2>1, <2>3, HalveIs
    <3> QED BY <2>1, <2>2, <2>3, <3>1
  <2>4. CASE s.parent[s.node] # s.node
    <3>1. /\ Forest(r.parent, h, R, N) /\ R[r.node] = R[s.node]
          /\ \A m \in N : s.parent[m] = m => r.parent[m] = m
          /\ Cardinality(Higher(h, r.node, N)) < Cardinality(Higher(h, s.node, N))
      <4>1. Forest(s.parent, h, R, N) /\ s \in HalveState(N) /\ Halve(s) = r
        BY <2>1, <2>2
      <4> HIDE DEF Reaches
      <4> QED BY <2>4, <4>1, HalveKeeps
    <3>2. PICK a, b : a = Cardinality(Higher(h, r.node, N)) /\ b = Cardinality(Higher(h, s.node, N))
      OBVIOUS
    <3>3. a \in Nat /\ b \in Nat /\ n \in Nat /\ a < b /\ b + n < c
      BY <1>3, <1>b, <2>2, <2>4, <3>1, <3>2
    <3>4. a + (n + 1) < c
      BY <1>3, <3>3
    <3>5. Reaches(r, n + 1)
      BY <2>2, <3>1, <3>2, <3>4
    <3> HIDE DEF Reaches
    <3> QED BY <2>1, <3>5
  <2> QED BY <2>3, <2>4
<1>6. 0..c \subseteq G
  <2>1. \A n \in 0..(c - 1) : n \in G => n + 1 \in G
    <3> HIDE DEF Reaches
    <3> SUFFICES ASSUME NEW n \in 0..(c - 1), n \in G PROVE n + 1 \in G
      OBVIOUS
    <3>1. n + 1 \in 0..c /\ Reaches(t[n], n)
      BY <1>3
    <3> QED BY <1>5, <3>1
  <2> HIDE DEF G
  <2> QED BY <1>3, <1>4, <2>1, UpTo
<1>7. PICK s : s = Found(f, x) /\ Reaches(s, c) /\ s \in HalveState(N)
  <2>1. c \in 0..c
    BY <1>3
  <2> HIDE DEF Reaches
  <2> QED BY <1>6, <1>a, <2>1
<1>8. s.parent[s.node] = s.node
  <2>1. Cardinality(Higher(h, s.node, N)) \in Nat
    BY <1>b
  <2>2. ~(Cardinality(Higher(h, s.node, N)) + c < c)
    BY <1>3, <2>1
  <2> QED BY <1>7, <2>2
<1>9. s.node = R[x]
  <2>1. s.node \in N /\ Forest(s.parent, h, R, N) /\ R[s.node] = R[x]
    BY <1>7 DEF HalveState
  <2>2. R[s.node] = s.node
    BY <1>8, <2>1 DEF Forest
  <2> QED BY <2>1, <2>2
<1> QED BY <1>7, <1>8, <1>9 DEF FoundRoot

(* union hangs one root below the other. *)
RootsOf(R, N, a, b) == [m \in N |-> IF R[m] = b THEN a ELSE R[m]]
LEMMA UnitedIs ==
    ASSUME NEW N, IsFiniteSet(N), NEW f, NEW h, NEW R, Forest(f, h, R, N), NEW p \in N \X N
    PROVE  \E k : Forest(United(f, p), k, RootsOf(R, N, R[p[1]], R[p[2]]), N)
<1>1. p[1] \in N /\ p[2] \in N /\ h \in [N -> Nat] /\ R \in [N -> N]
  BY DEF Forest
<1>2. PICK s : s = Found(f, p[1]) /\ FoundRoot(s, f, p[1], h, R, N)
  BY <1>1, FoundIs
<1>3. Forest(s.parent, h, R, N)
  BY <1>2 DEF FoundRoot
<1>4. PICK r : r = Found(s.parent, p[2]) /\ FoundRoot(r, s.parent, p[2], h, R, N)
  BY <1>1, <1>3, FoundIs
<1>5. PICK a, b, e, g, Q : /\ a = R[p[1]] /\ b = R[p[2]] /\ e = r.parent
                           /\ g = [e EXCEPT ![b] = a] /\ Q = RootsOf(R, N, a, b)
  OBVIOUS
<1>6. /\ s.node = a /\ r.node = b /\ a \in N /\ b \in N /\ e[a] = a /\ e[b] = b
      /\ Forest(e, h, R, N)
  BY <1>1, <1>2, <1>4, <1>5 DEF FoundRoot
<1>7. United(f, p) = g
  BY <1>2, <1>4, <1>5, <1>6 DEF United
<1>8. e \in [N -> N] /\ R[a] = a /\ R[b] = b /\ h[a] \in Nat /\ h[b] \in Nat
      /\ \A m \in N : /\ e[m] \in N /\ h[m] \in Nat /\ R[m] \in N
                      /\ (e[m] # m => h[m] < h[e[m]]) /\ R[e[m]] = R[m]
                      /\ (e[m] = m => R[m] = m)
  BY <1>1, <1>6 DEF Forest
<1>9. g \in [N -> N] /\ \A m \in N : g[m] = IF m = b THEN a ELSE e[m]
  BY <1>5, <1>6, <1>8
<1>10. Q \in [N -> N] /\ \A m \in N : Q[m] = IF R[m] = b THEN a ELSE R[m]
  BY <1>5, <1>6, <1>8 DEF RootsOf
<1>11. PICK k : k = [m \in N |-> IF m = a /\ a # b THEN h[a] + h[b] + 1 ELSE h[m]]
  OBVIOUS
<1>12. k \in [N -> Nat] /\ \A m \in N : k[m] >= h[m] /\ (m # a \/ a = b => k[m] = h[m])
  BY <1>8, <1>11
<1>13. ASSUME NEW m \in N
       PROVE  (g[m] # m => k[m] < k[g[m]]) /\ Q[g[m]] = Q[m] /\ (g[m] = m => Q[m] = m)
  <2>1. CASE a = b
    <3>1. g[m] = e[m] /\ k[m] = h[m] /\ k[e[m]] = h[e[m]] /\ Q[m] = R[m] /\ Q[e[m]] = R[e[m]]
      BY <1>6, <1>8, <1>9, <1>10, <1>12, <2>1
    <3> QED BY <1>8, <3>1
  <2>2. CASE a # b /\ m = b
    <3>1. g[m] = a /\ k[a] = h[a] + h[b] + 1 /\ k[b] = h[b]
      BY <1>6, <1>9, <1>11, <1>12, <2>2
    <3>2. Q[a] = a /\ Q[b] = a
      BY <1>6, <1>8, <1>10, <2>2
    <3>3. k[b] < k[a]
      BY <1>8, <3>1
    <3> QED BY <2>2, <3>1, <3>2, <3>3
  <2>3. CASE a # b /\ m # b
    <3>1. g[m] = e[m]
      BY <1>9, <2>3
    <3>2. e[m] # m => k[m] < k[e[m]]
      <4> SUFFICES ASSUME e[m] # m PROVE k[m] < k[e[m]]
        OBVIOUS
      <4>1. m # a
        BY <1>6
      <4>2. k[m] = h[m] /\ h[m] < h[e[m]] /\ k[e[m]] >= h[e[m]]
        BY <1>8, <1>12, <4>1
      <4>3. k[e[m]] \in Nat /\ h[e[m]] \in Nat /\ h[m] \in Nat
        BY <1>8, <1>12
      <4> QED BY <4>2, <4>3
    <3>3. Q[e[m]] = Q[m]
      BY <1>8, <1>10
    <3>4. e[m] = m => Q[m] = m
      BY <1>8, <1>10, <2>3
    <3> QED BY <3>1, <3>2, <3>3, <3>4
  <2> QED BY <2>1, <2>2, <2>3
<1>14. Forest(g, k, Q, N)
  BY <1>9, <1>10, <1>12, <1>13 DEF Forest
<1> QED BY <1>5, <1>7, <1>14

(* What union-find knows after some of the pairs: their ends have the same *)
(* root, and a set that none of them leaves holds the roots of its members.*)
Joins(R, pairs, i, N) ==
    /\ \A j \in 1..i : R[pairs[j][1]] = R[pairs[j][2]]
    /\ \A S \in SUBSET N :
          (\A j \in 1..i : ~Cut(pairs[j], S)) => \A m \in N : m \in S <=> R[m] \in S
LEMMA JoinsMore ==
    ASSUME NEW N, NEW R \in [N -> N], NEW i \in Nat, NEW pairs, Joins(R, pairs, i, N),
           NEW p \in N \X N, pairs[i + 1] = p, \A j \in 1..i : pairs[j] \in N \X N,
           R[R[p[1]]] = R[p[1]], R[R[p[2]]] = R[p[2]]
    PROVE  Joins(RootsOf(R, N, R[p[1]], R[p[2]]), pairs, i + 1, N)
<1>1. PICK a, b, Q, k : a = R[p[1]] /\ b = R[p[2]] /\ Q = RootsOf(R, N, a, b) /\ k = i + 1
  OBVIOUS
<1>2. /\ k \in Nat /\ 1..k = (1..i) \cup {k} /\ pairs[k] = p /\ p[1] \in N /\ p[2] \in N
      /\ a \in N /\ b \in N /\ R[a] = a /\ R[b] = b
  BY <1>1
<1>3. \A m \in N : Q[m] = IF R[m] = b THEN a ELSE R[m]
  BY <1>1 DEF RootsOf
<1>4. ASSUME NEW j \in 1..k PROVE Q[pairs[j][1]] = Q[pairs[j][2]]
  <2>1. CASE j = k
    BY <1>1, <1>2, <1>3, <2>1
  <2>2. CASE j \in 1..i
    <3>1. pairs[j][1] \in N /\ pairs[j][2] \in N /\ R[pairs[j][1]] = R[pairs[j][2]]
      BY <2>2 DEF Joins
    <3> QED BY <1>3, <3>1
  <2> QED BY <1>2, <2>1, <2>2
<1>5. ASSUME NEW S \in SUBSET N, \A j \in 1..k : ~Cut(pairs[j], S), NEW m \in N
      PROVE  m \in S <=> Q[m] \in S
  <2>1. \A n \in N : n \in S <=> R[n] \in S
    BY <1>2, <1>5 DEF Joins
  <2>2. ~Cut(p, S)
    BY <1>2, <1>5
  <2>3. p[1] \in S <=> p[2] \in S
    BY <2>2 DEF Cut
  <2>4. a \in S <=> b \in S
    BY <1>1, <1>2, <2>1, <2>3
  <2> QED BY <1>3, <2>1, <2>4
<1>6. Joins(Q, pairs, k, N)
  <2>1. \A S \in SUBSET N :
           (\A j \in 1..k : ~Cut(pairs[j], S)) => \A m \in N : m \in S <=> Q[m] \in S
    BY <1>5
  <2> QED BY <1>4, <2>1 DEF Joins
<1> QED BY <1>1, <1>6

UniteSteps(t, pairs, N) ==
    /\ t \in [0..Len(pairs) -> [N -> N]] /\ t[0] = [n \in N |-> n]
    /\ \A n \in 0..(Len(pairs) - 1) : t[n + 1] = United(t[n], pairs[n + 1])
    /\ FoldLeft(United, [n \in N |-> n], pairs) = t[Len(pairs)]
LEMMA UnitedType ==
    ASSUME NEW N, IsFiniteSet(N), NEW f \in [N -> N], NEW p \in N \X N
    PROVE  United(f, p) \in [N -> N]
<1>1. ASSUME NEW g \in [N -> N], NEW x \in N PROVE Found(g, x) \in HalveState(N)
  <2>1. PICK t : FindSteps(t, g, x, N)
    BY FindTrace
  <2>2. Cardinality(N) \in 0..Cardinality(N)
    BY FS_CardinalityType
  <2> QED BY <2>1, <2>2 DEF FindSteps
<1>2. PICK s : s = Found(f, p[1]) /\ s \in HalveState(N)
  BY <1>1
<1>3. s.parent \in [N -> N] /\ s.node \in N
  BY <1>2 DEF HalveState
<1>4. PICK r : r = Found(s.parent, p[2]) /\ r \in HalveState(N)
  BY <1>1, <1>3
<1>5. r.parent \in [N -> N] /\ r.node \in N
  BY <1>4 DEF HalveState
<1>6. United(f, p) = [r.parent EXCEPT ![r.node] = s.node]
  BY <1>2, <1>4 DEF United
<1> QED BY <1>3, <1>5, <1>6

LEMMA UniteTrace ==
    ASSUME NEW N, IsFiniteSet(N), NEW pairs \in Seq(N \X N)
    PROVE  \E t : UniteSteps(t, pairs, N)
<1>s. PICK list : list = pairs
  OBVIOUS
<1>a. list \in Seq((N \X N)) /\ DOMAIN list = 1..Len(list) /\ Len(list) \in Nat
  BY <1>s
<1>1. PICK X, A, base : X = (N \X N) /\ A = [N -> N] /\ base = [n \in N |-> n]
  OBVIOUS
<1> DEFINE Op(p, x) == United(p, x)
           F == [q \in A \X X |-> Op(q[1], q[2])]
           Body(h) == [u \in SUBSET DOMAIN list |->
                          IF u = {} THEN base ELSE Op(h[u \ {Max(u)}], list[Max(u)])]
           iter == CHOOSE h : h = Body(h)
<1>2. FoldLeft(United, [n \in N |-> n], pairs) = iter[DOMAIN list]
  BY <1>s, <1>1 DEF FoldLeft, MapThenFoldSet
<1>3. base \in A /\ F \in [A \X X -> A]
  <2>1. base \in A /\ \A p \in A, x \in X : Op(p, x) \in A
    BY <1>1, UnitedType
  <2> HIDE DEF Op
  <2> QED BY <2>1
<1>4. \A p \in A, x \in X : F[<<p, x>>] = Op(p, x)
  OBVIOUS
<1> HIDE DEF F, Op
<1>b. list \in Seq(X)
  BY <1>a, <1>1
<1>5. PICK g : FoldTable(F, base, list, A, g)
  BY <1>3, <1>b, FoldExists
<1>6. g = Body(g)
  <2>1. ASSUME NEW u \in SUBSET DOMAIN list, u # {}
        PROVE g[u] = Op(g[u \ {Max(u)}], list[Max(u)])
    <3>1. Max(u) \in u /\ u \ {Max(u)} \in SUBSET DOMAIN list
      BY <1>a, <2>1, LastPosition
    <3>2. g[u] = F[<<g[u \ {Max(u)}], list[Max(u)]>>] /\ g[u \ {Max(u)}] \in A
      BY <1>5, <2>1, <3>1 DEF FoldTable, FoldedBy
    <3>3. list[Max(u)] \in X
      BY <1>b, <2>1, <3>1
    <3> QED BY <1>4, <3>2, <3>3
  <2>2. g[{}] = base /\ g = [u \in SUBSET DOMAIN list |-> g[u]]
    BY <1>5 DEF FoldTable, FoldedBy
  <2> QED BY <2>1, <2>2
<1> HIDE DEF Body
<1>7. PICK h : h = iter /\ h = Body(h)
  BY <1>6
<1> USE DEF Body
<1>8. Table(h, F, base, list, A)
  <2>1. h[{}] = base
    BY <1>7
  <2>2. ASSUME NEW u \in SUBSET DOMAIN list, u # {}, h[u \ {Max(u)}] \in A
        PROVE h[u] = F[<<h[u \ {Max(u)}], list[Max(u)]>>]
    <3>1. h[u] = Op(h[u \ {Max(u)}], list[Max(u)])
      BY <1>7, <2>2
    <3>2. Max(u) \in u
      BY <1>a, <2>2, LastPosition
    <3>3. list[Max(u)] \in X
      BY <1>b, <2>2, <3>2
    <3> QED BY <1>4, <2>2, <3>1, <3>3
  <2> QED BY <2>1, <2>2 DEF Table
<1> HIDE DEF Body, iter
<1>9. PICK t : Trace(t, F, base, list, A, h[DOMAIN list])
  BY <1>3, <1>8, <1>b, TableTraces
<1>10. ASSUME NEW n \in 0..(Len(list) - 1) PROVE t[n + 1] = United(t[n], pairs[n + 1])
  <2>1. n \in 0..Len(list) /\ n + 1 \in DOMAIN list
    BY <1>a
  <2>2. t[n] \in A /\ list[n + 1] \in X
    BY <1>9, <1>b, <2>1 DEF Trace
  <2>3. t[n + 1] = F[<<t[n], list[n + 1]>>]
    BY <1>9 DEF Trace
  <2>4. t[n + 1] = Op(t[n], list[n + 1])
    BY <1>4, <2>2, <2>3
  <2> QED BY <1>s, <2>4 DEF Op
<1> QED BY <1>s, <1>a, <1>1, <1>2, <1>7, <1>9, <1>10 DEF Trace, UniteSteps

(* All pairs are joined, by parents that are a forest. *)
AllJoined(f, pairs, N) ==
    \E h, R : Forest(f, h, R, N) /\ Joins(R, pairs, Len(pairs), N)
JoinedUpTo(f, pairs, i, N) == \E h, R : Forest(f, h, R, N) /\ Joins(R, pairs, i, N)
LEMMA UniteAll ==
    ASSUME NEW N, IsFiniteSet(N), NEW pairs \in Seq(N \X N)
    PROVE  AllJoined(FoldLeft(United, [n \in N |-> n], pairs), pairs, N)
<1>0. DOMAIN pairs = 1..Len(pairs) /\ Len(pairs) \in Nat
  OBVIOUS
<1>1. PICK t : UniteSteps(t, pairs, N)
  BY UniteTrace
<1> DEFINE G == {n \in 0..Len(pairs) : JoinedUpTo(t[n], pairs, n, N)}
<1>2. 0 \in G
  <2>1. PICK f, h : f = [n \in N |-> n] /\ h = [n \in N |-> 0]
    OBVIOUS
  <2>2. Forest(f, h, f, N)
    BY <2>1 DEF Forest
  <2>3. Joins(f, pairs, 0, N)
    BY <2>1 DEF Joins
  <2>4. JoinedUpTo(f, pairs, 0, N)
    BY <2>2, <2>3 DEF JoinedUpTo
  <2> QED BY <1>0, <1>1, <2>1, <2>4 DEF UniteSteps
<1>3. ASSUME NEW n \in 0..(Len(pairs) - 1), JoinedUpTo(t[n], pairs, n, N)
      PROVE  JoinedUpTo(t[n + 1], pairs, n + 1, N)
  <2>1. PICK f, p : /\ f = t[n] /\ p = pairs[n + 1] /\ p \in N \X N /\ n \in Nat
                    /\ \A j \in 1..n : pairs[j] \in N \X N
    BY <1>0
  <2>2. PICK h, R : Forest(f, h, R, N) /\ Joins(R, pairs, n, N)
    BY <1>3, <2>1 DEF JoinedUpTo
  <2>3. R \in [N -> N] /\ p[1] \in N /\ p[2] \in N
    BY <2>1, <2>2 DEF Forest
  <2>4. \A x \in N : R[R[x]] = R[x]
    <3> SUFFICES ASSUME NEW x \in N PROVE R[R[x]] = R[x]
      OBVIOUS
    <3>1. PICK s : FoundRoot(s, f, x, h, R, N)
      BY <2>2, FoundIs
    <3>2. s.node = R[x] /\ s.parent[R[x]] = R[x] /\ Forest(s.parent, h, R, N) /\ R[x] \in N
      BY <2>3, <3>1 DEF FoundRoot
    <3> QED BY <3>2 DEF Forest
  <2>5. PICK Q : Q = RootsOf(R, N, R[p[1]], R[p[2]])
    OBVIOUS
  <2>6. PICK k : Forest(United(f, p), k, Q, N)
    BY <2>1, <2>2, <2>5, UnitedIs
  <2>7. Joins(Q, pairs, n + 1, N)
    BY <2>1, <2>2, <2>3, <2>4, <2>5, JoinsMore
  <2>8. t[n + 1] = United(f, p)
    BY <1>1, <2>1 DEF UniteSteps
  <2> QED BY <2>6, <2>7, <2>8 DEF JoinedUpTo
<1>4. 0..Len(pairs) \subseteq G
  <2>1. \A n \in 0..(Len(pairs) - 1) : n \in G => n + 1 \in G
    <3> SUFFICES ASSUME NEW n \in 0..(Len(pairs) - 1), n \in G PROVE n + 1 \in G
      OBVIOUS
    <3>1. n + 1 \in 0..Len(pairs) /\ JoinedUpTo(t[n], pairs, n, N)
      BY <1>0
    <3> QED BY <1>3, <3>1
  <2> HIDE DEF G
  <2> QED BY <1>0, <1>2, <2>1, UpTo
<1>5. Len(pairs) \in 0..Len(pairs)
  BY <1>0
<1>6. JoinedUpTo(t[Len(pairs)], pairs, Len(pairs), N)
  BY <1>4, <1>5
<1>7. FoldLeft(United, [n \in N |-> n], pairs) = t[Len(pairs)]
  BY <1>1 DEF UniteSteps
<1>8. PICK f : f = t[Len(pairs)] /\ f = FoldLeft(United, [n \in N |-> n], pairs)
  BY <1>7
<1>9. AllJoined(f, pairs, N)
  BY <1>6, <1>8 DEF JoinedUpTo, AllJoined
<1> QED BY <1>8, <1>9

(***************************************************************************)
(* What the report makes of the pairs it reads.                            *)
(***************************************************************************)
Inside(pairs) == ToSet(SameBucket(pairs))
IsComponent(c, inside) ==
    /\ \A p \in inside : ~Cut(p, c)
    /\ \A S \in (SUBSET c) \ {{}, c} : \E p \in inside : Cut(p, S)
Unites(clusters, p) == \E c \in clusters : {p[1], p[2]} \subseteq c

LEMMA InsideIs ==
    ASSUME NEW X, NEW pairs \in Seq(X)
    PROVE  /\ SameBucket(pairs) \in Seq(X)
           /\ Inside(pairs) = {p \in ToSet(pairs) : shape.bucket[p[1]] = shape.bucket[p[2]]}
<1>1. PICK P : P = {i \in DOMAIN pairs : shape.bucket[pairs[i][1]] = shape.bucket[pairs[i][2]]}
  OBVIOUS
<1>2. SameBucket(pairs) = ElementsAt(pairs, P) /\ P \in SUBSET DOMAIN pairs
  BY <1>1 DEF SameBucket
<1>3. SameBucket(pairs) \in Seq(X) /\ Inside(pairs) = {pairs[i] : i \in P}
  BY <1>2, ElementsAre DEF Inside
<1>4. {pairs[i] : i \in P} = {p \in ToSet(pairs) : shape.bucket[p[1]] = shape.bucket[p[2]]}
  BY <1>1 DEF ToSet
<1> QED BY <1>3, <1>4

LEMMA ClustersAre ==
    ASSUME shape \in Shapes, NEW N \in SUBSET Nodes, NEW pairs \in Seq(NodePairs(N)),
           NEW clusters, clusters = ClusterByBucket(N, pairs)
    PROVE  /\ \A c \in clusters : IsComponent(c, Inside(pairs))
           /\ \A p \in Inside(pairs) : Unites(clusters, p)
           /\ \A p \in FindContradictions(pairs) : Unites(clusters, p)
<1>1. IsFiniteSet(N) /\ NodePairs(N) \subseteq N \X N
  BY PairsAre DEF NodePairs
<1>2. PICK same, inside, f : /\ same = SameBucket(pairs) /\ inside = Inside(pairs)
                             /\ f = FoldLeft(United, [n \in N |-> n], same)
  OBVIOUS
<1>3. same \in Seq(N \X N) /\ same \in Seq(NodePairs(N)) /\ inside = ToSet(same)
  <2>1. same \in Seq(NodePairs(N))
    BY <1>2, InsideIs
  <2> QED BY <1>1, <1>2, <2>1 DEF Inside
<1>4. DOMAIN same = 1..Len(same) /\ inside \subseteq NodePairs(N)
      /\ inside = {same[j] : j \in 1..Len(same)}
  <2>1. DOMAIN same = 1..Len(same)
    BY <1>3
  <2>2. inside = {same[j] : j \in 1..Len(same)}
    BY <1>3, <2>1 DEF ToSet
  <2>3. inside \subseteq NodePairs(N)
    BY <1>3, <2>1, <2>2
  <2> QED BY <2>1, <2>2, <2>3
<1>5. AllJoined(f, same, N)
  BY <1>1, <1>2, <1>3, UniteAll
<1>6. PICK h, R : Forest(f, h, R, N) /\ Joins(R, same, Len(same), N)
  BY <1>5 DEF AllJoined
<1>7. \A m \in N : Found(f, m).node = R[m] /\ R[m] \in N
  <2> SUFFICES ASSUME NEW m \in N PROVE Found(f, m).node = R[m] /\ R[m] \in N
    OBVIOUS
  <2>1. FoundRoot(Found(f, m), f, m, h, R, N)
    BY <1>1, <1>6, FoundIs
  <2> QED BY <1>6, <2>1 DEF FoundRoot, Forest
<1> DEFINE Group(n) == {m \in N : R[m] = R[n]}
<1>8. clusters = {g \in {Group(n) : n \in N} : Cardinality(g) >= 2}
  <2>1. \A n \in N : Group(n) = {m \in N : Found(f, m).node = Found(f, n).node}
    BY <1>7
  <2>2. {Group(n) : n \in N}
          = {{m \in N : Found(f, m).node = Found(f, n).node} : n \in N}
    <3> HIDE DEF Group
    <3> QED BY <2>1
  <2>3. clusters = {g \in {{m \in N : Found(f, m).node = Found(f, n).node} : n \in N} :
                      Cardinality(g) >= 2}
    BY <1>2 DEF ClusterByBucket
  <2> QED BY <2>2, <2>3
<1>9. \A p \in inside : p[1] \in N /\ p[2] \in N /\ p[1] # p[2] /\ R[p[1]] = R[p[2]]
  <2> SUFFICES ASSUME NEW p \in inside
               PROVE p[1] \in N /\ p[2] \in N /\ p[1] # p[2] /\ R[p[1]] = R[p[2]]
    OBVIOUS
  <2>1. p \in NodePairs(N)
    BY <1>4
  <2>2. p[1] \in N /\ p[2] \in N /\ p[1] \in Nat /\ p[2] \in Nat /\ p[1] < p[2]
    BY <2>1, PairsAre
  <2>3. PICK j \in 1..Len(same) : same[j] = p
    BY <1>4
  <2> QED BY <1>6, <2>2, <2>3 DEF Joins
<1>10. ASSUME NEW c \in clusters PROVE IsComponent(c, inside)
  <2>1. PICK n \in N : c = {m \in N : R[m] = R[n]}
    BY <1>8
  <2>2. \A p \in inside : ~Cut(p, c)
    BY <1>9, <2>1 DEF Cut
  <2>3. ASSUME NEW S \in (SUBSET c) \ {{}, c}, \A p \in inside : ~Cut(p, S) PROVE FALSE
    <3>1. S \in SUBSET N /\ \A j \in 1..Len(same) : ~Cut(same[j], S)
      BY <1>4, <2>1, <2>3
    <3>2. \A m \in N : m \in S <=> R[m] \in S
      BY <1>6, <3>1 DEF Joins
    <3>3. PICK x, y : x \in S /\ y \in c \ S
      BY <2>3
    <3>4. x \in N /\ y \in N /\ R[x] = R[n] /\ R[y] = R[n]
      BY <2>1, <2>3, <3>3
    <3> QED BY <3>2, <3>3, <3>4
  <2> QED BY <2>2, <2>3 DEF IsComponent
<1>11. ASSUME NEW x \in N, NEW y \in N, x # y, R[x] = R[y]
       PROVE  \E c \in clusters : {x, y} \subseteq c
  <2>1. PICK c : c = Group(x)
    OBVIOUS
  <2>2. {x, y} \subseteq c /\ c \subseteq N
    BY <1>11, <2>1
  <2>3. Cardinality(c) >= 2
    <3>1. IsFiniteSet(c) /\ Cardinality(c) \in Nat
      BY <1>1, <2>2, FS_Subset, FS_CardinalityType
    <3>2. IsFiniteSet(c \ {x}) /\ Cardinality(c \ {x}) = Cardinality(c) - 1
      BY <2>2, <3>1, FS_RemoveElement
    <3>3. Cardinality(c \ {x}) # 0 /\ Cardinality(c \ {x}) \in Nat
      <4>1. c \ {x} # {}
        BY <1>11, <2>2
      <4> QED BY <3>2, <4>1, FS_EmptySet, FS_CardinalityType
    <3> QED BY <3>1, <3>2, <3>3
  <2>4. c \in clusters
    BY <1>8, <2>1, <2>3
  <2> QED BY <2>2, <2>4
<1>12. \A p \in inside : Unites(clusters, p)
  <2> SUFFICES ASSUME NEW p \in inside PROVE Unites(clusters, p)
    OBVIOUS
  <2>1. \E c \in clusters : {p[1], p[2]} \subseteq c
    BY <1>9, <1>11
  <2> QED BY <2>1 DEF Unites
<1>13. \A p \in FindContradictions(pairs) : Unites(clusters, p)
  <2> SUFFICES ASSUME NEW p \in FindContradictions(pairs) PROVE Unites(clusters, p)
    OBVIOUS
  <2>1. PICK q \in inside : p = q \/ p = <<q[2], q[1]>>
    BY <1>2 DEF FindContradictions, Inside
  <2>2. {p[1], p[2]} = {q[1], q[2]}
    <3>1. p = <<q[2], q[1]>> => p[1] = q[2] /\ p[2] = q[1]
      OBVIOUS
    <3> QED BY <2>1, <3>1
  <2> QED BY <1>12, <2>1, <2>2 DEF Unites
<1> QED BY <1>2, <1>10, <1>12, <1>13

(***************************************************************************)
(* The invariant of the graph: what a call has read lasts whatever others  *)
(* do meanwhile, and is what the store still holds as long as they do      *)
(* nothing.                                                                *)
(***************************************************************************)
GraphFields == {"op", "bucket", "limit", "neighbours", "minNodes"}
AskIs(m) ==
    /\ GraphFields \cup {"pc"} \subseteq DOMAIN m
    /\ m.op \in {"graph", "hygiene"} /\ m.limit \in Nat /\ m.neighbours \in Nat
    /\ m.minNodes \in Nat
    /\ m.pc \in {"total", "nodes", "pairs", "finish", "done", "neighbours", "listed"}
Wide(m) == m.total > m.minNodes
Totals(m) == m.pc # "total"
Selected(m) == m.pc \notin {"total", "nodes"}
Completed(m) == m.pc \in {"done", "neighbours", "listed"}
ReportOf(m) ==
    /\ \A c \in m.clusters : IsComponent(c, Inside(m.pairs))
    /\ \A p \in Inside(m.pairs) : Unites(m.clusters, p)
    /\ \A p \in m.contradictions : Unites(m.clusters, p)
Lasting(m) ==
    /\ AskIs(m)
    /\ Totals(m) => "total" \in DOMAIN m /\ m.total \in Nat
    /\ Selected(m) => "nodes" \in DOMAIN m /\ m.nodes \in SUBSET Nodes
    /\ m.pc = "finish" =>
          {"pairs", "edgeTotal"} \subseteq DOMAIN m /\ m.pairs \in Seq(NodePairs(m.nodes))
    /\ Completed(m) /\ m.op = "graph" =>
          /\ {"edges", "truncated", "edgesTruncated", "edgeTotal"} \subseteq DOMAIN m
          /\ m.edges \in SUBSET NodePairs(m.nodes) /\ DegreesWithin(m.edges, m.neighbours)
    /\ Completed(m) /\ m.op = "hygiene" => ReportOf(m)
    /\ m.pc \in {"neighbours", "listed"} => m.op = "graph" /\ "seed" \in DOMAIN m /\ m.seed \in Nodes

Won(edges, P, most, wide) ==
    \A p \in P \ edges : Outdone(p, edges, most) \/ (wide /\ Overlooked(p, P, most))
PairsTrue(m) ==
    LET P == Qualifying(m.nodes)
    IN /\ m.edgeTotal = Cardinality(P) /\ m.pairs \in Seq(P)
       /\ Wide(m) => /\ DegreesWithin(ToSet(m.pairs), m.neighbours)
                     /\ Won(ToSet(m.pairs), P, m.neighbours, TRUE)
       /\ ~Wide(m) => ListOf(m.pairs, P, Stronger(P))
GraphTrue(m) ==
    LET P == Qualifying(m.nodes)
    IN /\ m.edges \in SUBSET P /\ Won(m.edges, P, m.neighbours, Wide(m))
       /\ m.edgeTotal = Cardinality(P)
       /\ m.edgesTruncated <=> m.edges # P
       /\ m.truncated <=> m.nodes # InBucket(m.bucket)
ReportTrue(m) ==
    \A p \in Qualifying(m.nodes) :
       shape.bucket[p[1]] = shape.bucket[p[2]] => Unites(m.clusters, p)
Ends(n, edges) == {Other(p, n) : p \in EdgesOf(n, edges)}
Covers(related, n, ends) ==
    /\ Cardinality(ends) <= Cardinality(related)
    /\ \A m \in ends \ related : \A o \in related : Closeness(n, o) >= Closeness(n, m)
Still(m) ==
    /\ Totals(m) => m.total = Cardinality(InBucket(m.bucket))
    /\ Selected(m) => m.nodes \subseteq InBucket(m.bucket)
    /\ m.pc = "finish" => PairsTrue(m)
    /\ Completed(m) /\ m.op = "graph" => GraphTrue(m)
    /\ Completed(m) /\ m.op = "hygiene" /\ ~Wide(m) => ReportTrue(m)
    /\ m.pc = "neighbours" => /\ m.seed \in alive /\ model[m.seed] # NoModel
                              /\ "provenance" \in DOMAIN m /\ m.provenance = model[m.seed]
    /\ m.pc = "listed" => Covers(m.related, m.seed, Ends(m.seed, m.edges))

GraphCallInv(m) == m.pc = "idle" \/ (Lasting(m) /\ (touches = 0 => Still(m)))
GraphInv ==
    /\ shape \in Shapes /\ alive \in SUBSET Nodes /\ touches \in Nat
    /\ GraphCallInv(asked)

LEMMA GraphStart == GraphInit => GraphInv
BY DEF GraphInit, GraphInv, GraphCallInv

LEMMA BucketIs ==
    ASSUME GraphInv, NEW bucket
    PROVE  /\ InBucket(bucket) \in SUBSET alive /\ InBucket(bucket) \in SUBSET Nodes
           /\ IsFiniteSet(InBucket(bucket)) /\ Cardinality(InBucket(bucket)) \in Nat
           /\ IsFiniteSet(alive)
<1>1. alive \in SUBSET Nodes /\ IsFiniteSet(Nodes) /\ InBucket(bucket) \subseteq alive
  BY ShapeIs DEF GraphInv, InBucket
<1> QED BY <1>1, FS_Subset, FS_CardinalityType

(* What a statement adds to the call. *)
Onward(m, next, news) == With([m EXCEPT !.pc = next], news)
MovedOn(n, m, next, news) ==
    /\ DOMAIN n = DOMAIN m \cup DOMAIN news /\ n.pc = next
    /\ \A f \in DOMAIN m \ DOMAIN news : f # "pc" => n[f] = m[f]
    /\ \A f \in DOMAIN news : n[f] = news[f]
LEMMA ReturnedIs ==
    ASSUME NEW m, AskIs(m), NEW next, NEW news, "pc" \notin DOMAIN news,
           NEW n, n = Onward(m, next, news)
    PROVE  MovedOn(n, m, next, news)
<1>0. "pc" \in DOMAIN m
  BY DEF AskIs
<1>1. PICK k : k = [m EXCEPT !.pc = next]
  OBVIOUS
<1>2. DOMAIN k = DOMAIN m /\ k.pc = next /\ \A f \in DOMAIN m : f # "pc" => k[f] = m[f]
  BY <1>0, <1>1
<1>3. n = [f \in DOMAIN k \cup DOMAIN news |-> IF f \in DOMAIN news THEN news[f] ELSE k[f]]
  BY <1>1 DEF With, Onward
<1>4. DOMAIN n = DOMAIN m \cup DOMAIN news
  BY <1>2, <1>3
<1>5. \A f \in DOMAIN n : n[f] = IF f \in DOMAIN news THEN news[f] ELSE k[f]
  BY <1>3
<1> QED BY <1>0, <1>2, <1>4, <1>5 DEF MovedOn

(* The call moves on while the store rests. *)
LEMMA GraphKept ==
    ASSUME GraphInv, UNCHANGED <<shape, model, alive, touches>>, NEW n, asked' = n,
           Lasting(n), touches = 0 => Still(n)
    PROVE  GraphInv'
<1>1. GraphCallInv(n)
  BY DEF GraphCallInv
<1>2. Lasting(n)' = Lasting(n)
  BY DEF Lasting, AskIs, Totals, Selected, Completed, ReportOf, Nodes, NodePairs, DegreesWithin,
         EdgesOf, IsComponent, Inside, SameBucket, Unites, Cut, GraphFields
<1>3. InBucket(n.bucket)' = InBucket(n.bucket) /\ Qualifying(n.nodes)' = Qualifying(n.nodes)
  BY DEF InBucket, Qualifying, NodePairs, Comparable, Similarity
<1>4. PairsTrue(n)' = PairsTrue(n) /\ GraphTrue(n)' = GraphTrue(n)
  <2>1. PICK P : P = Qualifying(n.nodes)
    OBVIOUS
  <2>2. \A K, k, w : Won(K, P, k, w)' = Won(K, P, k, w)
    BY DEF Won, Outdone, Overlooked, AtLeastAsStrong, Similarity, EdgesOf
  <2>3. Stronger(P)' = Stronger(P)
    BY DEF Stronger, Similarity
  <2>4. \A K, k : DegreesWithin(K, k)' = DegreesWithin(K, k)
    BY DEF DegreesWithin, Nodes, EdgesOf
  <2> QED BY <1>3, <2>1, <2>2, <2>3, <2>4 DEF PairsTrue, GraphTrue
<1>5. ReportTrue(n)' = ReportTrue(n)
  BY <1>3 DEF ReportTrue, Unites
<1>6. \A r, s, e : Covers(r, s, e)' = Covers(r, s, e)
  BY DEF Covers, Closeness, Similarity
<1>7. Still(n)' = Still(n)
  BY <1>3, <1>4, <1>5, <1>6 DEF Still, Totals, Selected, Completed, Wide, Ends, EdgesOf, Other
<1>8. GraphCallInv(asked)'
  BY <1>2, <1>7 DEF GraphCallInv
<1> QED BY <1>8 DEF GraphInv, Nodes

LEMMA AskGraphKeeps ==
    ASSUME GraphInv, NEW a \in GraphAsks, AskGraph(a)
    PROVE  GraphInv'
<1>1. PICK n, news : /\ n = With(a, news) /\ asked' = n /\ news = [pc |-> "total"]
                     /\ UNCHANGED <<shape, model, alive, touches>>
  BY DEF AskGraph
<1>2. /\ DOMAIN a = GraphFields /\ a.op \in {"graph", "hygiene"} /\ a.limit \in Nat
      /\ a.neighbours \in Nat /\ a.minNodes \in Nat
  BY GraphAssumption DEF GraphFields
<1>3. DOMAIN news = {"pc"} /\ news["pc"] = "total"
  BY <1>1
<1>4. /\ DOMAIN n = GraphFields \cup {"pc"} /\ n["pc"] = "total"
      /\ \A f \in GraphFields : n[f] = a[f]
  BY <1>1, <1>2, <1>3 DEF With, GraphFields
<1>5. n.op = a.op /\ n.limit = a.limit /\ n.neighbours = a.neighbours /\ n.minNodes = a.minNodes
  BY <1>4 DEF GraphFields
<1>6. Lasting(n)
  BY <1>2, <1>4, <1>5 DEF Lasting, AskIs, Totals, Selected, Completed
<1>7. Still(n)
  BY <1>4 DEF Still, Totals, Selected, Completed
<1> QED BY <1>1, <1>6, <1>7, GraphKept

(* A call at a statement, and after it. *)
LEMMA AtIs ==
    ASSUME GraphInv, NEW pc, pc # "idle", AskedAt(pc)
    PROVE  \E m : m = asked /\ m.pc = pc /\ Lasting(m) /\ (touches = 0 => Still(m))
BY DEF GraphInv, GraphCallInv, AskedAt

GraphStep(m, n, next, news) ==
    /\ n = Onward(m, next, news) /\ asked' = n
    /\ UNCHANGED <<shape, model, alive, touches>>
LEMMA StepAsks ==
    ASSUME NEW m, AskIs(m), NEW next, NEW news, "pc" \notin DOMAIN news,
           NEW n, n = Onward(m, next, news), DOMAIN news \cap GraphFields = {},
           next \in {"total", "nodes", "pairs", "finish", "done", "neighbours", "listed"}
    PROVE  /\ AskIs(n) /\ n.op = m.op /\ n.bucket = m.bucket /\ n.limit = m.limit
           /\ n.neighbours = m.neighbours /\ n.minNodes = m.minNodes
<1>1. /\ DOMAIN n = DOMAIN m \cup DOMAIN news /\ n.pc = next
      /\ \A f \in DOMAIN m \ DOMAIN news : f # "pc" => n[f] = m[f]
  <2>1. MovedOn(n, m, next, news)
    BY ReturnedIs
  <2> QED BY <2>1 DEF MovedOn
<1>2. GraphFields \cup {"pc"} \subseteq DOMAIN m
  BY DEF AskIs
<1>3. \A f \in GraphFields : n[f] = m[f]
  <2>1. "pc" \notin GraphFields
    BY DEF GraphFields
  <2> QED BY <1>1, <1>2, <2>1
<1>4. /\ n.op = m.op /\ n.bucket = m.bucket /\ n.limit = m.limit
      /\ n.neighbours = m.neighbours /\ n.minNodes = m.minNodes
  BY <1>3 DEF GraphFields
<1> QED BY <1>1, <1>2, <1>4 DEF AskIs

LEMMA CountTotalKeeps == ASSUME GraphInv, CountTotal PROVE GraphInv'
<1>1. PICK m : m = asked /\ m.pc = "total" /\ Lasting(m) /\ (touches = 0 => Still(m))
  BY AtIs DEF CountTotal
<1>2. PICK total : total = Cardinality(InBucket(m.bucket)) /\ total \in Nat
  BY BucketIs
<1>3. PICK news, n : news = [total |-> total] /\ n = Onward(m, "nodes", news)
  OBVIOUS
<1>4. GraphStep(m, n, "nodes", news)
  BY <1>1, <1>2, <1>3 DEF CountTotal, Returned, GraphStep, Onward
<1>5. DOMAIN news = {"total"} /\ news["total"] = total
  BY <1>3
<1>6. AskIs(m)
  BY <1>1 DEF Lasting
<1>7. AskIs(n) /\ n.bucket = m.bucket /\ DOMAIN news \cap GraphFields = {}
  <2>1. "pc" \notin DOMAIN news /\ DOMAIN news \cap GraphFields = {}
    BY <1>5 DEF GraphFields
  <2> QED BY <1>3, <1>6, <2>1, StepAsks
<1>8. n.pc = "nodes" /\ "total" \in DOMAIN n /\ n.total = total
  <2>1. MovedOn(n, m, "nodes", news)
    BY <1>3, <1>5, <1>6, ReturnedIs
  <2> QED BY <1>5, <2>1 DEF MovedOn
<1>9. Lasting(n)
  BY <1>2, <1>7, <1>8 DEF Lasting, Totals, Selected, Completed
<1>10. Still(n)
  BY <1>2, <1>7, <1>8 DEF Still, Totals, Selected, Completed
<1> QED BY <1>4, <1>9, <1>10, GraphKept DEF GraphStep

LEMMA FewNodes ==
    ASSUME shape \in Shapes, NEW S \in SUBSET Nodes, Cardinality(S) < 2
    PROVE  NodePairs(S) = {} /\ Qualifying(S) = {}
<1>1. ASSUME NEW p \in NodePairs(S) PROVE FALSE
  <2>1. p[1] \in S /\ p[2] \in S /\ p[1] # p[2]
    <3>1. p[1] \in S /\ p[2] \in S /\ p[1] \in Nat /\ p[2] \in Nat /\ p[1] < p[2]
      BY PairsAre
    <3> QED BY <3>1
  <2>2. IsFiniteSet(S) /\ Cardinality(S) \in Nat
    BY PairsAre, FS_CardinalityType
  <2>3. PICK T : T = S \ {p[1]}
    OBVIOUS
  <2>4. IsFiniteSet(T) /\ Cardinality(T) = Cardinality(S) - 1 /\ T # {}
    BY <2>1, <2>2, <2>3, FS_RemoveElement
  <2>5. Cardinality(T) \in Nat /\ Cardinality(T) # 0
    BY <2>4, FS_CardinalityType, FS_EmptySet
  <2> QED BY <2>2, <2>4, <2>5
<1> QED BY <1>1 DEF Qualifying

(* With no pairs there is nothing to read. *)
LEMMA NoPairs ==
    ASSUME shape \in Shapes, NEW m, Qualifying(m.nodes) = {}, m.pairs = <<>>, m.edgeTotal = 0,
           m.neighbours \in Nat
    PROVE  PairsTrue(m)
<1>1. PICK none, P : none = m.pairs /\ none = <<>> /\ P = Qualifying(m.nodes) /\ P = {}
  OBVIOUS
<1>2. none \in Seq(P) /\ DOMAIN none = {} /\ Len(none) = 0 /\ ToSet(none) = {}
  BY <1>1 DEF ToSet
<1>3. Cardinality(P) = 0
  BY <1>1, FS_EmptySet
<1>4. DegreesWithin({}, m.neighbours)
  <2>1. \A n \in Nodes : EdgesOf(n, {}) = {}
    BY DEF EdgesOf
  <2>2. Cardinality({}) = 0 /\ 0 <= m.neighbours
    BY FS_EmptySet
  <2>3. \A n \in Nodes : Cardinality(EdgesOf(n, {})) <= m.neighbours
    BY <2>1, <2>2, Zenon
  <2> QED BY <2>3 DEF DegreesWithin
<1>5. Won({}, P, m.neighbours, TRUE)
  BY <1>1 DEF Won
<1>6. ListOf(none, P, Stronger(P))
  BY <1>1, <1>2, <1>3 DEF ListOf
<1> QED BY <1>1, <1>2, <1>3, <1>4, <1>5, <1>6 DEF PairsTrue

LEMMA SelectNodesKeeps == ASSUME GraphInv, SelectNodes PROVE GraphInv'
<1>1. PICK m : m = asked /\ m.pc = "nodes" /\ Lasting(m) /\ (touches = 0 => Still(m))
  BY AtIs DEF SelectNodes
<1>2. PICK S : S = Foremost(InBucket(m.bucket), m.limit)
  OBVIOUS
<1>3. S \subseteq InBucket(m.bucket) /\ S \in SUBSET Nodes
  BY <1>2, BucketIs DEF Foremost
<1>a. AskIs(m) /\ "total" \in DOMAIN m /\ m.total \in Nat
  BY <1>1 DEF Lasting, Totals
<1>b. touches = 0 => m.total = Cardinality(InBucket(m.bucket))
  BY <1>1 DEF Still, Totals
<1>4. CASE Cardinality(S) < 2
  <2>1. PICK old, more, news, n :
           /\ old = [nodes |-> S, mismatch |-> Mismatch(S)]
           /\ more = [pairs |-> <<>>, edgeTotal |-> 0] /\ news = With(old, more)
           /\ n = Onward(m, "finish", news)
    OBVIOUS
  <2>2. GraphStep(m, n, "finish", news)
    BY <1>1, <1>2, <1>4, <2>1 DEF SelectNodes, Returned, GraphStep, Onward
  <2>3. /\ DOMAIN news = {"nodes", "mismatch", "pairs", "edgeTotal"}
        /\ news["nodes"] = S /\ news["pairs"] = <<>> /\ news["edgeTotal"] = 0
    <3>1. DOMAIN old = {"nodes", "mismatch"} /\ DOMAIN more = {"pairs", "edgeTotal"}
          /\ old["nodes"] = S /\ more["pairs"] = <<>> /\ more["edgeTotal"] = 0
      BY <2>1
    <3>2. news = [f \in DOMAIN old \cup DOMAIN more |-> IF f \in DOMAIN more THEN more[f] ELSE old[f]]
      BY <2>1 DEF With
    <3>3. DOMAIN news = DOMAIN old \cup DOMAIN more
      BY <3>2
    <3>4. \A f \in DOMAIN news : news[f] = IF f \in DOMAIN more THEN more[f] ELSE old[f]
      BY <3>2
    <3> QED BY <3>1, <3>3, <3>4
  <2>4. AskIs(n) /\ n.bucket = m.bucket /\ n.neighbours = m.neighbours
    <3>1. "pc" \notin DOMAIN news /\ DOMAIN news \cap GraphFields = {}
      BY <2>3 DEF GraphFields
    <3> QED BY <1>a, <2>1, <3>1, StepAsks
  <2>5. /\ n.pc = "finish" /\ {"nodes", "pairs", "edgeTotal", "total"} \subseteq DOMAIN n
        /\ n.total = m.total /\ n.nodes = S /\ n.pairs = <<>> /\ n.edgeTotal = 0
    <3>1. MovedOn(n, m, "finish", news)
      BY <1>a, <2>1, <2>3, ReturnedIs
    <3>2. "total" \in DOMAIN m \ DOMAIN news
      BY <1>a, <2>3
    <3> QED BY <2>3, <3>1, <3>2 DEF MovedOn
  <2>6. Lasting(n)
    <3>1. n.pairs \in Seq(NodePairs(n.nodes))
      BY <2>5
    <3> QED BY <1>3, <1>a, <2>4, <2>5, <3>1 DEF Lasting, Totals, Selected, Completed
  <2>7. ASSUME touches = 0 PROVE Still(n)
    <3>1. PairsTrue(n)
      <4>1. Qualifying(n.nodes) = {} /\ n.neighbours \in Nat
        BY <1>3, <1>4, <2>4, <2>5, FewNodes DEF GraphInv, AskIs
      <4> QED BY <2>5, <4>1, NoPairs DEF GraphInv
    <3> QED BY <1>3, <1>b, <2>4, <2>5, <2>7, <3>1 DEF Still, Completed
  <2> QED BY <2>2, <2>6, <2>7, GraphKept DEF GraphStep
<1>5. CASE ~(Cardinality(S) < 2)
  <2>1. PICK news, n :
           /\ news = [nodes |-> S, mismatch |-> Mismatch(S)]
           /\ n = Onward(m, "pairs", news)
    OBVIOUS
  <2>2. GraphStep(m, n, "pairs", news)
    BY <1>1, <1>2, <1>5, <2>1 DEF SelectNodes, Returned, GraphStep, Onward
  <2>3. DOMAIN news = {"nodes", "mismatch"} /\ news["nodes"] = S
    BY <2>1
  <2>4. AskIs(n) /\ n.bucket = m.bucket /\ n.neighbours = m.neighbours
    <3>1. "pc" \notin DOMAIN news /\ DOMAIN news \cap GraphFields = {}
      BY <2>3 DEF GraphFields
    <3> QED BY <1>a, <2>1, <3>1, StepAsks
  <2>5. /\ n.pc = "pairs" /\ {"nodes", "total"} \subseteq DOMAIN n
        /\ n.total = m.total /\ n.nodes = S
    <3>1. MovedOn(n, m, "pairs", news)
      BY <1>a, <2>1, <2>3, ReturnedIs
    <3>2. "total" \in DOMAIN m \ DOMAIN news
      BY <1>a, <2>3
    <3> QED BY <2>3, <3>1, <3>2 DEF MovedOn
  <2>6. Lasting(n)
    BY <1>3, <1>a, <2>4, <2>5 DEF Lasting, Totals, Selected, Completed
  <2>7. ASSUME touches = 0 PROVE Still(n)
    BY <1>3, <1>b, <2>4, <2>5, <2>7 DEF Still, Completed
  <2> QED BY <2>2, <2>6, <2>7, GraphKept DEF GraphStep
<1> QED BY <1>4, <1>5

LEMMA ReadPairsKeeps == ASSUME GraphInv, ReadPairs PROVE GraphInv'
<1>1. PICK m : m = asked /\ m.pc = "pairs" /\ Lasting(m) /\ (touches = 0 => Still(m))
  BY AtIs DEF ReadPairs
<1>2. PICK S, P, k : S = m.nodes /\ P = Qualifying(S) /\ k = m.neighbours
  OBVIOUS
<1>3. /\ AskIs(m) /\ {"total", "nodes"} \subseteq DOMAIN m /\ m.total \in Nat
      /\ S \in SUBSET Nodes /\ k \in Nat
  BY <1>1, <1>2 DEF Lasting, Totals, Selected, AskIs
<1>4. shape \in Shapes /\ P \in SUBSET NodePairs(S) /\ NodePairs(S) \in SUBSET NodePairs(Nodes)
  BY <1>2, <1>3, PairsAre DEF GraphInv
<1>5. PICK pairs, total : /\ pairs = IF Wide(m) THEN ScalablePairs(S, k) ELSE Strongest(P)
                          /\ total = IF Wide(m) THEN ScalableTotal(S) ELSE Cardinality(P)
  OBVIOUS
<1>6. PICK news, n : /\ news = [pairs |-> pairs, edgeTotal |-> total]
                     /\ n = Onward(m, "finish", news)
  OBVIOUS
<1>7. GraphStep(m, n, "finish", news)
  BY <1>1, <1>2, <1>5, <1>6
     DEF ReadPairs, Returned, GraphStep, Onward, ScalableEdgesEnabled, Wide
<1>8. DOMAIN news = {"pairs", "edgeTotal"} /\ news["pairs"] = pairs /\ news["edgeTotal"] = total
  BY <1>6
<1>9. AskIs(n) /\ n.bucket = m.bucket /\ n.neighbours = k /\ n.minNodes = m.minNodes
  <2>1. "pc" \notin DOMAIN news /\ DOMAIN news \cap GraphFields = {}
    BY <1>8 DEF GraphFields
  <2> QED BY <1>2, <1>3, <1>6, <2>1, StepAsks
<1>10. /\ n.pc = "finish" /\ {"nodes", "pairs", "edgeTotal", "total"} \subseteq DOMAIN n
       /\ n.total = m.total /\ n.nodes = S /\ n.pairs = pairs /\ n.edgeTotal = total
  <2>1. MovedOn(n, m, "finish", news)
    BY <1>3, <1>6, <1>8, ReturnedIs
  <2>2. "total" \in DOMAIN m \ DOMAIN news /\ "nodes" \in DOMAIN m \ DOMAIN news
    BY <1>3, <1>8
  <2> QED BY <1>2, <1>8, <2>1, <2>2 DEF MovedOn
<1>11. total = Cardinality(P)
  BY <1>2, <1>3, <1>4, <1>5, ScalableTotalIs
<1>12. /\ pairs \in Seq(P)
       /\ Wide(m) => DegreesWithin(ToSet(pairs), k) /\ Won(ToSet(pairs), P, k, TRUE)
       /\ ~Wide(m) => ListOf(pairs, P, Stronger(P))
  <2>1. CASE Wide(m)
    <3>1. pairs = ScalablePairs(S, k)
      BY <1>5, <2>1
    <3>2. /\ pairs \in Seq(P) /\ DegreesWithin(ToSet(pairs), k)
          /\ \A p \in P \ ToSet(pairs) : Outdone(p, ToSet(pairs), k) \/ Overlooked(p, P, k)
      BY <1>2, <1>3, <1>4, <3>1, ScalableIs
    <3> QED BY <2>1, <3>2 DEF Won
  <2>2. CASE ~Wide(m)
    <3>1. P \in SUBSET NodePairs(Nodes)
      BY <1>4
    <3>2. ListOf(pairs, P, Stronger(P))
      BY <1>4, <1>5, <2>2, <3>1, StrongestLists
    <3> QED BY <2>2, <3>2, ListsIs
  <2> QED BY <2>1, <2>2
<1>13. Lasting(n)
  <2>1. n.pairs \in Seq(NodePairs(n.nodes))
    BY <1>4, <1>10, <1>12
  <2> QED BY <1>3, <1>9, <1>10, <2>1 DEF Lasting, Completed
<1>14. ASSUME touches = 0 PROVE Still(n)
  <2>1. Wide(n) = Wide(m) /\ Qualifying(n.nodes) = P
    BY <1>2, <1>9, <1>10 DEF Wide
  <2>2. PairsTrue(n)
    BY <1>9, <1>10, <1>11, <1>12, <2>1 DEF PairsTrue
  <2>3. m.total = Cardinality(InBucket(m.bucket)) /\ m.nodes \subseteq InBucket(m.bucket)
    BY <1>1, <1>14 DEF Still, Totals, Selected
  <2> QED BY <1>2, <1>9, <1>10, <2>2, <2>3 DEF Still, Completed
<1> QED BY <1>7, <1>13, <1>14, GraphKept DEF GraphStep

(* A part of a finite set is smaller unless it is all of it. *)
LEMMA PartIs ==
    ASSUME NEW S, IsFiniteSet(S), NEW T \in SUBSET S
    PROVE  Cardinality(S) > Cardinality(T) <=> T # S
<1>1. PICK a, b : a = Cardinality(S) /\ b = Cardinality(T)
  OBVIOUS
<1>2. a \in Nat /\ b \in Nat /\ b <= a /\ (a = b => S = T)
  BY <1>1, FS_Subset, FS_CardinalityType
<1>3. T = S => a = b
  BY <1>1
<1> QED BY <1>1, <1>2, <1>3

LEMMA FinishGraphKeeps == ASSUME GraphInv, FinishGraph PROVE GraphInv'
<1>1. PICK m : /\ m = asked /\ m.pc = "finish" /\ m.op = "graph" /\ Lasting(m)
               /\ (touches = 0 => Still(m))
  BY AtIs DEF FinishGraph
<1>2. PICK S, P, k, edges : /\ S = m.nodes /\ P = Qualifying(S) /\ k = m.neighbours
                            /\ edges = ToSet(CapPairsByDegree(m.pairs, k))
  OBVIOUS
<1>3. /\ AskIs(m) /\ {"total", "nodes", "pairs", "edgeTotal"} \subseteq DOMAIN m /\ m.total \in Nat
      /\ S \in SUBSET Nodes /\ k \in Nat /\ m.pairs \in Seq(NodePairs(S))
  BY <1>1, <1>2 DEF Lasting, Totals, Selected, AskIs
<1>4. shape \in Shapes /\ P \in SUBSET NodePairs(S) /\ NodePairs(S) \in SUBSET NodePairs(Nodes)
  BY <1>2, <1>3, PairsAre DEF GraphInv
<1>5. edges \in SUBSET NodePairs(S) /\ DegreesWithin(edges, k)
  <2>1. m.pairs \in Seq(NodePairs(Nodes))
    BY <1>3, <1>4
  <2>2. CappedAt(m.pairs, edges, Len(m.pairs), k)
    BY <1>2, <1>3, <1>4, <2>1, CapIs
  <2>3. \A j \in 1..Len(m.pairs) : m.pairs[j] \in NodePairs(S)
    BY <1>3
  <2> QED BY <2>2, <2>3 DEF CappedAt
<1>6. PICK lost, lostEdges : /\ lost = (m.total > Cardinality(S))
                             /\ lostEdges = (m.edgeTotal > Cardinality(edges))
  OBVIOUS
<1>7. PICK news, n :
         /\ news = [edges |-> edges, truncated |-> lost, edgesTruncated |-> lostEdges]
         /\ n = Onward(m, "done", news)
  OBVIOUS
<1>8. GraphStep(m, n, "done", news)
  BY <1>1, <1>2, <1>6, <1>7 DEF FinishGraph, Returned, GraphStep, Onward
<1>9. /\ DOMAIN news = {"edges", "truncated", "edgesTruncated"} /\ news["edges"] = edges
      /\ news["truncated"] = lost /\ news["edgesTruncated"] = lostEdges
  BY <1>7
<1>10. /\ AskIs(n) /\ n.op = "graph" /\ n.bucket = m.bucket /\ n.neighbours = k
       /\ n.minNodes = m.minNodes
  <2>1. "pc" \notin DOMAIN news /\ DOMAIN news \cap GraphFields = {}
    BY <1>9 DEF GraphFields
  <2> QED BY <1>1, <1>2, <1>3, <1>7, <2>1, StepAsks
<1>11. /\ n.pc = "done"
       /\ {"nodes", "edges", "edgeTotal", "total", "truncated", "edgesTruncated"} \subseteq DOMAIN n
       /\ n.total = m.total /\ n.nodes = S /\ n.edges = edges /\ n.edgeTotal = m.edgeTotal
       /\ n.truncated = lost /\ n.edgesTruncated = lostEdges
  <2>1. MovedOn(n, m, "done", news)
    BY <1>3, <1>7, <1>9, ReturnedIs
  <2>2. {"total", "nodes", "edgeTotal"} \subseteq DOMAIN m \ DOMAIN news
    BY <1>3, <1>9
  <2> QED BY <1>2, <1>9, <2>1, <2>2 DEF MovedOn
<1>12. Lasting(n)
  BY <1>3, <1>5, <1>10, <1>11 DEF Lasting, Completed
<1>13. ASSUME touches = 0 PROVE Still(n)
  <2>1. /\ m.total = Cardinality(InBucket(m.bucket)) /\ S \subseteq InBucket(m.bucket)
        /\ PairsTrue(m)
    BY <1>1, <1>2, <1>13 DEF Still, Totals, Selected
  <2>2. /\ m.edgeTotal = Cardinality(P) /\ m.pairs \in Seq(P)
        /\ Wide(m) => DegreesWithin(ToSet(m.pairs), k) /\ Won(ToSet(m.pairs), P, k, TRUE)
        /\ ~Wide(m) => ListOf(m.pairs, P, Stronger(P))
    BY <1>2, <2>1 DEF PairsTrue
  <2>3. P \in SUBSET NodePairs(Nodes) /\ IsFiniteSet(P)
    BY <1>2, <1>3, <1>4, PairsAre
  <2>4. edges \in SUBSET P /\ Won(edges, P, k, Wide(m))
    <3>1. CASE Wide(m)
      <4>1. edges = ToSet(m.pairs)
        <5>1. m.pairs \in Seq(NodePairs(Nodes))
          BY <1>3, <1>4
        <5> QED BY <1>2, <1>3, <1>4, <2>2, <3>1, <5>1, CapOfCapped
      <4>2. ToSet(m.pairs) \subseteq P
        BY <2>2 DEF ToSet
      <4> QED BY <2>2, <3>1, <4>1, <4>2 DEF Won
    <3>2. CASE ~Wide(m)
      <4>1. PICK pairs : pairs = m.pairs
        OBVIOUS
      <4>2. ListOf(pairs, P, Stronger(P)) /\ edges = ToSet(CapPairsByDegree(pairs, k))
        BY <1>2, <2>2, <3>2, <4>1
      <4>3. edges \in SUBSET P /\ \A p \in P \ edges : Outdone(p, edges, k)
        BY <1>3, <1>4, <2>3, <4>2, SortedCap
      <4> QED BY <4>3 DEF Won
    <3> QED BY <3>1, <3>2
  <2>5. lostEdges <=> edges # P
    BY <1>6, <2>2, <2>3, <2>4, PartIs
  <2>6. lost <=> S # InBucket(m.bucket)
    <3>1. PICK B : B = InBucket(m.bucket) /\ IsFiniteSet(B)
      BY BucketIs
    <3>2. lost <=> S # B
      BY <1>6, <2>1, <3>1, PartIs
    <3> QED BY <3>1, <3>2
  <2>7. Wide(n) = Wide(m)
    BY <1>10, <1>11 DEF Wide
  <2>8. GraphTrue(n)
    BY <1>2, <1>10, <1>11, <2>2, <2>4, <2>5, <2>6, <2>7 DEF GraphTrue
  <2> QED BY <1>2, <1>10, <1>11, <2>1, <2>8 DEF Still, Completed
<1> QED BY <1>8, <1>12, <1>13, GraphKept DEF GraphStep

LEMMA FinishReportKeeps == ASSUME GraphInv, FinishReport PROVE GraphInv'
<1>1. PICK m : /\ m = asked /\ m.pc = "finish" /\ m.op = "hygiene" /\ Lasting(m)
               /\ (touches = 0 => Still(m))
  BY AtIs DEF FinishReport
<1>2. PICK S, P : S = m.nodes /\ P = Qualifying(S)
  OBVIOUS
<1>3. /\ AskIs(m) /\ {"total", "nodes", "pairs", "edgeTotal"} \subseteq DOMAIN m /\ m.total \in Nat
      /\ S \in SUBSET Nodes /\ m.pairs \in Seq(NodePairs(S))
  BY <1>1, <1>2 DEF Lasting, Totals, Selected
<1>4. PICK pairs, clusters, doubts, capped :
         /\ pairs = m.pairs /\ clusters = ClusterByBucket(S, pairs)
         /\ doubts = FindContradictions(pairs) /\ capped = (m.total > Cardinality(S))
  OBVIOUS
<1>5. PICK news, n :
         /\ news = [clusters |-> clusters, contradictions |-> doubts, capped |-> capped]
         /\ n = Onward(m, "done", news)
  OBVIOUS
<1>6. GraphStep(m, n, "done", news)
  BY <1>1, <1>2, <1>4, <1>5 DEF FinishReport, Returned, GraphStep, Onward
<1>7. /\ DOMAIN news = {"clusters", "contradictions", "capped"} /\ news["clusters"] = clusters
      /\ news["contradictions"] = doubts
  BY <1>5
<1>8. AskIs(n) /\ n.op = "hygiene" /\ n.bucket = m.bucket /\ n.minNodes = m.minNodes
  <2>1. "pc" \notin DOMAIN news /\ DOMAIN news \cap GraphFields = {}
    BY <1>7 DEF GraphFields
  <2> QED BY <1>1, <1>3, <1>5, <2>1, StepAsks
<1>9. /\ n.pc = "done" /\ {"nodes", "total"} \subseteq DOMAIN n
      /\ n.total = m.total /\ n.nodes = S /\ n.pairs = pairs /\ n.clusters = clusters
      /\ n.contradictions = doubts
  <2>1. MovedOn(n, m, "done", news)
    BY <1>3, <1>5, <1>7, ReturnedIs
  <2>2. {"total", "nodes", "pairs"} \subseteq DOMAIN m \ DOMAIN news
    BY <1>3, <1>7
  <2> QED BY <1>2, <1>4, <1>7, <2>1, <2>2 DEF MovedOn
<1>10. /\ \A c \in clusters : IsComponent(c, Inside(pairs))
       /\ \A p \in Inside(pairs) : Unites(clusters, p)
       /\ \A p \in doubts : Unites(clusters, p)
  BY <1>3, <1>4, ClustersAre DEF GraphInv
<1>11. Lasting(n)
  <2>1. ReportOf(n)
    BY <1>9, <1>10 DEF ReportOf
  <2> QED BY <1>3, <1>8, <1>9, <2>1 DEF Lasting, Completed
<1>12. ASSUME touches = 0 PROVE Still(n)
  <2>1. /\ m.total = Cardinality(InBucket(m.bucket)) /\ S \subseteq InBucket(m.bucket)
        /\ PairsTrue(m)
    BY <1>1, <1>2, <1>12 DEF Still, Totals, Selected
  <2>2. ASSUME ~Wide(m) PROVE ReportTrue(n)
    <3>1. ListOf(pairs, P, Stronger(P))
      BY <1>2, <1>4, <2>1, <2>2 DEF PairsTrue
    <3>2. ToSet(pairs) = P
      BY <3>1, ListsIs
    <3>3. pairs \in Seq(NodePairs(S))
      BY <1>3, <1>4
    <3>4. Inside(pairs) = {p \in P : shape.bucket[p[1]] = shape.bucket[p[2]]}
      BY <3>2, <3>3, InsideIs
    <3> QED BY <1>2, <1>9, <1>10, <3>4 DEF ReportTrue
  <2>3. Wide(n) = Wide(m)
    BY <1>8, <1>9 DEF Wide
  <2> QED BY <1>2, <1>8, <1>9, <2>1, <2>2, <2>3 DEF Still, Completed
<1> QED BY <1>6, <1>11, <1>12, GraphKept DEF GraphStep

(* The ends of the edges of a memory are memories like it.                 *)
LEMMA EndsAre ==
    ASSUME GraphInv, NEW S \in SUBSET alive, NEW edges \in SUBSET Qualifying(S), NEW n
    PROVE  /\ IsFiniteSet(Ends(n, edges)) /\ Cardinality(Ends(n, edges)) \in Nat
           /\ Cardinality(Ends(n, edges)) <= Cardinality(EdgesOf(n, edges))
           /\ Cardinality(EdgesOf(n, edges)) \in Nat
           /\ \A m \in Ends(n, edges) :
                 /\ n \in alive /\ m \in alive \ {n} /\ model[n] # NoModel
                 /\ model[m] = model[n] /\ Closeness(n, m) > 0
<1>1. shape \in Shapes /\ S \in SUBSET Nodes /\ edges \in SUBSET NodePairs(S)
      /\ edges \in SUBSET NodePairs(Nodes)
  <2>1. shape \in Shapes /\ S \in SUBSET Nodes
    BY DEF GraphInv
  <2> QED BY <2>1, PairsAre
<1>2. PICK E, T : E = EdgesOf(n, edges) /\ T = Ends(n, edges)
  OBVIOUS
<1>3. IsFiniteSet(E) /\ Cardinality(E) \in Nat /\ E \in SUBSET edges
  BY <1>1, <1>2, EdgesAre
<1>4. IsFiniteSet(T) /\ Cardinality(T) <= Cardinality(E) /\ Cardinality(T) \in Nat
  <2>1. PICK f : f = [p \in E |-> Other(p, n)]
    OBVIOUS
  <2>2. T = {Other(p, n) : p \in E}
    BY <1>2 DEF Ends
  <2>3. f \in Surjection(E, T)
    BY <2>1, <2>2 DEF Surjection
  <2> QED BY <1>3, <2>3, FS_Surjection, FS_CardinalityType
<1>5. ASSUME NEW m \in T
      PROVE  /\ n \in alive /\ m \in alive \ {n} /\ model[n] # NoModel
             /\ model[m] = model[n] /\ Closeness(n, m) > 0
  <2>1. PICK p \in E : m = Other(p, n)
    BY <1>2 DEF Ends
  <2>2. p \in edges /\ n \in {p[1], p[2]}
    BY <1>2 DEF EdgesOf
  <2>3. /\ p = <<p[1], p[2]>> /\ p[1] \in S /\ p[2] \in S /\ p[1] \in Nat /\ p[2] \in Nat
        /\ p[1] < p[2]
    BY <1>1, <2>2, PairsAre
  <2>4. Similarity(p) > 0 /\ model[p[1]] = model[p[2]] /\ model[p[1]] # NoModel
    BY <2>2 DEF Qualifying, Comparable
  <2>5. p[1] # p[2] /\ ~(p[2] < p[1])
    BY <2>3
  <2>6. CASE n = p[1]
    <3>1. m = p[2]
      BY <2>1, <2>6 DEF Other
    <3>2. Closeness(n, m) = Similarity(p)
      <4>1. ~(m < n) /\ <<n, m>> = p
        BY <2>3, <2>5, <2>6, <3>1
      <4> QED BY <4>1 DEF Closeness
    <3> QED BY <2>3, <2>4, <2>5, <2>6, <3>1, <3>2
  <2>7. CASE n = p[2]
    <3>1. m = p[1]
      BY <2>1, <2>5, <2>7 DEF Other
    <3>2. Closeness(n, m) = Similarity(p)
      <4>1. m < n /\ <<m, n>> = p
        BY <2>3, <2>7, <3>1
      <4> QED BY <4>1 DEF Closeness
    <3> QED BY <2>3, <2>4, <2>5, <2>7, <3>1, <3>2
  <2> QED BY <2>2, <2>6, <2>7
<1> QED BY <1>2, <1>3, <1>4, <1>5

LEMMA GraphFresh ==
    ASSUME GraphInv, NEW m, m.pc \in {"done", "neighbours"}, m.op = "graph", Lasting(m),
           touches = 0 => Still(m)
    PROVE  /\ AskIs(m) /\ m.total \in Nat /\ m.nodes \in SUBSET Nodes
           /\ {"total", "nodes", "edges", "truncated", "edgesTruncated", "edgeTotal"}
                 \subseteq DOMAIN m
           /\ m.edges \in SUBSET NodePairs(m.nodes) /\ DegreesWithin(m.edges, m.neighbours)
           /\ m.neighbours \in Nat
           /\ touches = 0 => /\ m.total = Cardinality(InBucket(m.bucket))
                             /\ m.nodes \subseteq InBucket(m.bucket) /\ m.nodes \in SUBSET alive
                             /\ GraphTrue(m) /\ m.edges \in SUBSET Qualifying(m.nodes)
<1>1. /\ AskIs(m) /\ m.total \in Nat /\ m.nodes \in SUBSET Nodes
      /\ {"total", "nodes", "edges", "truncated", "edgesTruncated", "edgeTotal"} \subseteq DOMAIN m
      /\ m.edges \in SUBSET NodePairs(m.nodes) /\ DegreesWithin(m.edges, m.neighbours)
      /\ m.neighbours \in Nat
  BY DEF Lasting, Totals, Selected, Completed, AskIs
<1>2. ASSUME touches = 0
      PROVE  /\ m.total = Cardinality(InBucket(m.bucket))
             /\ m.nodes \subseteq InBucket(m.bucket) /\ m.nodes \in SUBSET alive
             /\ GraphTrue(m) /\ m.edges \in SUBSET Qualifying(m.nodes)
  <2>1. /\ m.total = Cardinality(InBucket(m.bucket)) /\ m.nodes \subseteq InBucket(m.bucket)
        /\ GraphTrue(m)
    BY <1>2 DEF Still, Totals, Selected, Completed
  <2>2. InBucket(m.bucket) \in SUBSET alive
    BY BucketIs
  <2> QED BY <2>1, <2>2 DEF GraphTrue
<1> QED BY <1>1, <1>2

(* What a step to the related memories keeps of the graph. *)
LEMMA GraphStays ==
    ASSUME GraphInv, NEW m, m.pc \in {"done", "neighbours"}, m.op = "graph", Lasting(m),
           touches = 0 => Still(m), NEW next \in {"neighbours", "listed"},
           NEW news, DOMAIN news \subseteq {"seed", "provenance", "related"},
           NEW n, n = Onward(m, next, news), "seed" \in DOMAIN n, n.seed \in Nodes
    PROVE  /\ Lasting(n) /\ n.pc = next /\ n.nodes = m.nodes /\ n.edges = m.edges
           /\ n.neighbours = m.neighbours /\ n.bucket = m.bucket
           /\ touches = 0 => /\ n.total = Cardinality(InBucket(n.bucket))
                             /\ n.nodes \subseteq InBucket(n.bucket) /\ GraphTrue(n)
<1>1. /\ AskIs(m) /\ m.total \in Nat /\ m.nodes \in SUBSET Nodes
      /\ {"total", "nodes", "edges", "truncated", "edgesTruncated", "edgeTotal"} \subseteq DOMAIN m
      /\ m.edges \in SUBSET NodePairs(m.nodes) /\ DegreesWithin(m.edges, m.neighbours)
      /\ touches = 0 => /\ m.total = Cardinality(InBucket(m.bucket))
                        /\ m.nodes \subseteq InBucket(m.bucket) /\ GraphTrue(m)
  BY GraphFresh
<1>2. "pc" \notin DOMAIN news /\ DOMAIN news \cap GraphFields = {}
  BY DEF GraphFields
<1>3. /\ AskIs(n) /\ n.op = "graph" /\ n.bucket = m.bucket /\ n.neighbours = m.neighbours
      /\ n.minNodes = m.minNodes
  BY <1>1, <1>2, StepAsks
<1>4. MovedOn(n, m, next, news)
  BY <1>1, <1>2, ReturnedIs
<1>5. /\ n.pc = next
      /\ {"total", "nodes", "edges", "truncated", "edgesTruncated", "edgeTotal"} \subseteq DOMAIN n
      /\ n.total = m.total /\ n.nodes = m.nodes /\ n.edges = m.edges
      /\ n.truncated = m.truncated /\ n.edgesTruncated = m.edgesTruncated
      /\ n.edgeTotal = m.edgeTotal
  <2>1. {"total", "nodes", "edges", "truncated", "edgesTruncated", "edgeTotal"}
           \subseteq DOMAIN m \ DOMAIN news
    BY <1>1
  <2> QED BY <1>4, <2>1 DEF MovedOn
<1>6. Lasting(n)
  BY <1>1, <1>3, <1>5 DEF Lasting, Completed
<1>7. ASSUME touches = 0 PROVE GraphTrue(n)
  <2>1. GraphTrue(m)
    BY <1>1, <1>7
  <2>2. Wide(n) = Wide(m)
    BY <1>3, <1>5 DEF Wide
  <2> QED BY <1>3, <1>5, <2>1, <2>2 DEF GraphTrue
<1> QED BY <1>1, <1>3, <1>5, <1>6, <1>7

LEMMA ReadSeedKeeps == ASSUME GraphInv, NEW x \in Nodes, ReadSeed(x) PROVE GraphInv'
<1>1. PICK m : /\ m = asked /\ m.pc = "done" /\ m.op = "graph" /\ Lasting(m)
               /\ (touches = 0 => Still(m))
  BY AtIs DEF ReadSeed
<1>a. AskIs(m)
  BY <1>1 DEF Lasting
<1>2. CASE x \in alive /\ model[x] # NoModel
  <2>1. PICK news, n : /\ news = [seed |-> x, provenance |-> model[x]]
                       /\ n = Onward(m, "neighbours", news)
    OBVIOUS
  <2>2. GraphStep(m, n, "neighbours", news)
    BY <1>1, <1>2, <2>1 DEF ReadSeed, Returned, GraphStep, Onward
  <2>3. DOMAIN news = {"seed", "provenance"} /\ news["seed"] = x /\ news["provenance"] = model[x]
    BY <2>1
  <2>4. MovedOn(n, m, "neighbours", news)
    BY <1>a, <2>1, <2>3, ReturnedIs
  <2>5. {"seed", "provenance"} \subseteq DOMAIN n /\ n.seed = x /\ n.provenance = model[x]
    BY <2>3, <2>4 DEF MovedOn
  <2>6. /\ Lasting(n) /\ n.pc = "neighbours"
        /\ touches = 0 => /\ n.total = Cardinality(InBucket(n.bucket))
                          /\ n.nodes \subseteq InBucket(n.bucket) /\ GraphTrue(n)
    <3>1. /\ DOMAIN news \subseteq {"seed", "provenance", "related"}
          /\ n = Onward(m, "neighbours", news)
      BY <2>1, <2>3
    <3>2. "seed" \in DOMAIN n /\ n.seed \in Nodes
      BY <2>5
    <3> QED BY <1>1, <3>1, <3>2, GraphStays
  <2>7. n.op = "graph"
    BY <2>6 DEF Lasting
  <2>8. touches = 0 => Still(n)
    BY <1>2, <2>5, <2>6, <2>7 DEF Still, Completed
  <2> QED BY <2>2, <2>6, <2>8, GraphKept DEF GraphStep
<1>3. CASE ~(x \in alive /\ model[x] # NoModel)
  <2>1. PICK news, n : news = [seed |-> x, related |-> {}] /\ n = Onward(m, "listed", news)
    OBVIOUS
  <2>2. GraphStep(m, n, "listed", news)
    BY <1>1, <1>3, <2>1 DEF ReadSeed, Returned, GraphStep, Onward
  <2>3. DOMAIN news = {"seed", "related"} /\ news["seed"] = x /\ news["related"] = {}
    BY <2>1
  <2>4. MovedOn(n, m, "listed", news)
    BY <1>a, <2>1, <2>3, ReturnedIs
  <2>5. {"seed", "related"} \subseteq DOMAIN n /\ n.seed = x /\ n.related = {}
    BY <2>3, <2>4 DEF MovedOn
  <2>6. /\ Lasting(n) /\ n.pc = "listed" /\ n.edges = m.edges
        /\ touches = 0 => /\ n.total = Cardinality(InBucket(n.bucket))
                          /\ n.nodes \subseteq InBucket(n.bucket) /\ GraphTrue(n)
    <3>1. /\ DOMAIN news \subseteq {"seed", "provenance", "related"}
          /\ n = Onward(m, "listed", news)
      BY <2>1, <2>3
    <3>2. "seed" \in DOMAIN n /\ n.seed \in Nodes
      BY <2>5
    <3>3. m.pc \in {"done", "neighbours"} /\ Lasting(m) /\ (touches = 0 => Still(m))
      BY <1>1
    <3> QED BY <1>1, <3>1, <3>2, <3>3, GraphStays
  <2>7. n.op = "graph"
    BY <2>6 DEF Lasting
  <2>8. ASSUME touches = 0 PROVE Covers(n.related, n.seed, Ends(n.seed, n.edges))
    <3>1. m.nodes \in SUBSET alive /\ m.edges \in SUBSET Qualifying(m.nodes)
      BY <1>1, <2>8, GraphFresh
    <3>2. PICK T : T = Ends(x, m.edges)
      OBVIOUS
    <3>3. T = {}
      BY <1>3, <3>1, <3>2, EndsAre
    <3>4. Covers({}, x, {})
      <4>1. Cardinality({}) <= Cardinality({})
        BY FS_EmptySet
      <4> QED BY <4>1 DEF Covers
    <3> QED BY <2>5, <2>6, <3>2, <3>3, <3>4
  <2>9. touches = 0 => Still(n)
    BY <2>6, <2>7, <2>8 DEF Still, Completed
  <2> QED BY <2>2, <2>6, <2>9, GraphKept DEF GraphStep
<1> QED BY <1>2, <1>3

(* The nearest of its relatives, while nothing changes. *)
LEMMA NearestCover ==
    ASSUME GraphInv, NEW m, m = asked, AskIs(m), m.pc = "neighbours", m.seed \in alive,
           model[m.seed] # NoModel, m.provenance = model[m.seed],
           NEW S \in SUBSET alive, NEW edges \in SUBSET Qualifying(S),
           DegreesWithin(edges, m.neighbours)
    PROVE  Covers(Nearest(m.seed, m.neighbours), m.seed, Ends(m.seed, edges))
<1>1. PICK n, k, ends, rel, near : /\ n = m.seed /\ k = m.neighbours /\ ends = Ends(n, edges)
                                   /\ rel = Relatives(n) /\ near = Nearest(n, k)
  OBVIOUS
<1>2. n \in Nodes /\ k \in Nat /\ alive \in SUBSET Nodes /\ IsFiniteSet(alive) /\ shape \in Shapes
  BY <1>1, BucketIs DEF GraphInv, AskIs
<1>3. rel = {o \in alive \ {n} : model[o] = model[n] /\ Closeness(n, o) > 0}
  BY <1>1 DEF Relatives
<1>4. IsFiniteSet(rel) /\ rel \subseteq alive \ {n}
  <2>1. rel \subseteq alive
    BY <1>3
  <2> QED BY <1>2, <1>3, <2>1, FS_Subset
<1>5. \A o \in rel : o \in Nat /\ Closeness(n, o) \in Nat
  <2> SUFFICES ASSUME NEW o \in rel PROVE o \in Nat /\ Closeness(n, o) \in Nat
    OBVIOUS
  <2>1. o \in Nodes /\ o # n /\ o \in Nat /\ n \in Nat
    BY <1>2, <1>4, ShapeIs
  <2>2. PICK p : p = (IF o < n THEN <<o, n>> ELSE <<n, o>>)
    OBVIOUS
  <2>3. p \in NodePairs(Nodes)
    <3>1. o < n => <<o, n>> \in NodePairs(Nodes)
      BY <1>2, <2>1 DEF NodePairs
    <3>2. ~(o < n) => n < o
      BY <2>1
    <3>3. ~(o < n) => <<n, o>> \in NodePairs(Nodes)
      BY <1>2, <2>1, <3>2 DEF NodePairs
    <3> QED BY <2>2, <3>1, <3>3
  <2>4. Closeness(n, o) = Similarity(p)
    BY <2>2 DEF Closeness
  <2> QED BY <1>2, <2>1, <2>3, <2>4, ShapeIs
<1> DEFINE R == {q \in rel \X rel : \/ Closeness(n, q[1]) > Closeness(n, q[2])
                                    \/ Closeness(n, q[1]) = Closeness(n, q[2]) /\ q[1] < q[2]}
<1>6. StrictOrder(R, rel)
  BY <1>5 DEF StrictOrder
<1>7. near = {x \in rel : Cardinality(Earlier(x, rel, R)) < k}
  <2>1. \A x \in rel : Earlier(x, rel, R) =
           {o \in rel : \/ Closeness(n, o) > Closeness(n, x)
                        \/ Closeness(n, o) = Closeness(n, x) /\ o < x}
    BY DEF Earlier
  <2>2. near = {x \in rel : Cardinality({o \in rel :
                   \/ Closeness(n, o) > Closeness(n, x)
                   \/ Closeness(n, o) = Closeness(n, x) /\ o < x}) < k}
    BY <1>1 DEF Nearest
  <2> HIDE DEF R
  <2> QED BY <2>1, <2>2
<1>a. \A x, y \in rel : Closeness(n, x) > Closeness(n, y) => <<x, y>> \in R
  OBVIOUS
<1> HIDE DEF R
<1>8. IsFiniteSet(near) /\ (near = rel \/ k <= Cardinality(near)) /\ Cardinality(near) \in Nat
  BY <1>2, <1>4, <1>6, <1>7, TopMost, FS_CardinalityType
<1>9. /\ IsFiniteSet(ends) /\ Cardinality(ends) \in Nat /\ Cardinality(ends) <= k
      /\ ends \subseteq rel
  <2>1. /\ IsFiniteSet(ends) /\ Cardinality(ends) \in Nat
        /\ Cardinality(ends) <= Cardinality(EdgesOf(n, edges))
        /\ Cardinality(EdgesOf(n, edges)) \in Nat
        /\ \A o \in ends : /\ o \in alive \ {n} /\ model[o] = model[n] /\ Closeness(n, o) > 0
    BY <1>1, EndsAre
  <2>2. Cardinality(EdgesOf(n, edges)) <= k
    BY <1>1, <1>2 DEF DegreesWithin
  <2>3. ends \subseteq rel
    BY <1>3, <2>1
  <2> QED BY <1>2, <2>1, <2>2, <2>3
<1>10. Cardinality(ends) <= Cardinality(near)
  <2>1. CASE near = rel
    BY <1>4, <1>9, <2>1, FS_Subset
  <2>2. CASE k <= Cardinality(near)
    BY <1>2, <1>8, <1>9, <2>2
  <2> QED BY <1>8, <2>1, <2>2
<1>11. ASSUME NEW x \in ends \ near, NEW o \in near, ~(Closeness(n, o) >= Closeness(n, x))
       PROVE  FALSE
  <2>1. x \in rel /\ o \in rel /\ x \notin near
    BY <1>7, <1>9
  <2>2. Closeness(n, x) > Closeness(n, o)
    BY <1>5, <1>11, <2>1
  <2>3. <<x, o>> \in R
    BY <1>a, <2>1, <2>2
  <2>4. Cardinality(Earlier(x, rel, R)) < Cardinality(Earlier(o, rel, R))
    BY <1>4, <1>6, <2>1, <2>3, EarlierGrow
  <2>5. PICK a, b : a = Cardinality(Earlier(x, rel, R)) /\ b = Cardinality(Earlier(o, rel, R))
    OBVIOUS
  <2>6. a \in Nat /\ b \in Nat
    <3>1. Earlier(x, rel, R) \subseteq rel /\ Earlier(o, rel, R) \subseteq rel
      BY DEF Earlier
    <3> QED BY <1>4, <2>5, <3>1, FS_Subset, FS_CardinalityType
  <2>7. b < k /\ ~(a < k)
    BY <1>7, <2>1, <2>5
  <2> QED BY <1>2, <2>4, <2>5, <2>6, <2>7
<1> QED BY <1>1, <1>10, <1>11 DEF Covers

LEMMA ReadRelatedKeeps == ASSUME GraphInv, ReadRelated PROVE GraphInv'
<1>1. PICK m : m = asked /\ m.pc = "neighbours" /\ Lasting(m) /\ (touches = 0 => Still(m))
  BY AtIs DEF ReadRelated
<1>2. AskIs(m) /\ m.op = "graph" /\ "seed" \in DOMAIN m /\ m.seed \in Nodes
  BY <1>1 DEF Lasting
<1>3. PICK related : related = Nearest(m.seed, m.neighbours)
  OBVIOUS
<1>4. PICK news, n : news = [related |-> related] /\ n = Onward(m, "listed", news)
  OBVIOUS
<1>5. GraphStep(m, n, "listed", news)
  BY <1>1, <1>3, <1>4 DEF ReadRelated, Returned, GraphStep, Onward
<1>6. DOMAIN news = {"related"} /\ news["related"] = related
  BY <1>4
<1>7. MovedOn(n, m, "listed", news)
  BY <1>2, <1>4, <1>6, ReturnedIs
<1>8. {"seed", "related"} \subseteq DOMAIN n /\ n.seed = m.seed /\ n.related = related
  <2>1. "seed" \in DOMAIN m \ DOMAIN news
    BY <1>2, <1>6
  <2> QED BY <1>6, <1>7, <2>1 DEF MovedOn
<1>9. /\ Lasting(n) /\ n.pc = "listed" /\ n.edges = m.edges
      /\ touches = 0 => /\ n.total = Cardinality(InBucket(n.bucket))
                        /\ n.nodes \subseteq InBucket(n.bucket) /\ GraphTrue(n)
  BY <1>1, <1>2, <1>4, <1>6, <1>8, GraphStays
<1>10. n.op = "graph"
  BY <1>9 DEF Lasting
<1>11. ASSUME touches = 0 PROVE Covers(n.related, n.seed, Ends(n.seed, n.edges))
  <2>1. /\ m.nodes \in SUBSET alive /\ m.edges \in SUBSET Qualifying(m.nodes)
        /\ DegreesWithin(m.edges, m.neighbours)
    BY <1>1, <1>2, <1>11, GraphFresh
  <2>2. m.seed \in alive /\ model[m.seed] # NoModel /\ m.provenance = model[m.seed]
    BY <1>1, <1>11 DEF Still
  <2>3. Covers(related, m.seed, Ends(m.seed, m.edges))
    BY <1>1, <1>2, <1>3, <2>1, <2>2, NearestCover
  <2> QED BY <1>8, <1>9, <2>3
<1>12. touches = 0 => Still(n)
  BY <1>9, <1>10, <1>11 DEF Still, Completed
<1> QED BY <1>5, <1>9, <1>12, GraphKept DEF GraphStep

(* Others retire or restamp a memory: what is read lasts. *)
LEMMA TouchKeeps ==
    ASSUME GraphInv, Touching, alive' \in SUBSET Nodes
    PROVE  GraphInv'
<1>1. /\ touches' = touches + 1 /\ UNCHANGED <<shape, asked>> /\ touches \in Nat
      /\ asked.pc # "idle"
  BY DEF Touching, AskedAt, GraphInv
<1>2. touches' \in Nat /\ touches' # 0
  BY <1>1
<1>3. Lasting(asked)
  BY <1>1 DEF GraphInv, GraphCallInv
<1>4. Lasting(asked)'
  BY <1>1, <1>3
     DEF Lasting, AskIs, Totals, Selected, Completed, ReportOf, Nodes, NodePairs, DegreesWithin,
         EdgesOf, IsComponent, Inside, SameBucket, Unites, Cut, GraphFields
<1>5. GraphCallInv(asked)'
  BY <1>2, <1>4 DEF GraphCallInv
<1> QED BY <1>1, <1>2, <1>5 DEF GraphInv, Nodes

LEMMA GraphStepKeeps == GraphInv /\ [GraphNext]_graphVars => GraphInv'
<1> SUFFICES ASSUME GraphInv, [GraphNext]_graphVars PROVE GraphInv'
  OBVIOUS
<1>1. ASSUME NEW a \in GraphAsks, AskGraph(a) PROVE GraphInv'
  BY <1>1, AskGraphKeeps
<1>2. CASE CountTotal
  BY <1>2, CountTotalKeeps
<1>3. CASE SelectNodes
  BY <1>3, SelectNodesKeeps
<1>4. CASE ReadPairs
  BY <1>4, ReadPairsKeeps
<1>5. CASE FinishGraph
  BY <1>5, FinishGraphKeeps
<1>6. CASE FinishReport
  BY <1>6, FinishReportKeeps
<1>7. CASE ReadRelated
  BY <1>7, ReadRelatedKeeps
<1>8. ASSUME NEW n \in Nodes, ReadSeed(n) PROVE GraphInv'
  BY <1>8, ReadSeedKeeps
<1>9. ASSUME NEW n \in Nodes, Retire(n) PROVE GraphInv'
  BY <1>9, TouchKeeps DEF Retire, GraphInv
<1>10. ASSUME NEW n \in Nodes, NEW m \in Models, Restamp(n, m) PROVE GraphInv'
  BY <1>10, TouchKeeps DEF Restamp, GraphInv
<1>11. CASE UNCHANGED graphVars
  <2>1. UNCHANGED <<shape, model, alive, touches, asked>>
    BY <1>11 DEF graphVars
  <2>2. CASE asked.pc = "idle"
    BY <2>1, <2>2 DEF GraphInv, GraphCallInv, Nodes
  <2>3. CASE asked.pc # "idle"
    <3>1. PICK m : m = asked /\ Lasting(m) /\ (touches = 0 => Still(m))
      BY <2>3 DEF GraphInv, GraphCallInv
    <3> QED BY <2>1, <3>1, GraphKept
  <2> QED BY <2>2, <2>3
<1> QED BY <1>1, <1>2, <1>3, <1>4, <1>5, <1>6, <1>7, <1>8, <1>9, <1>10, <1>11 DEF GraphNext

LEMMA GraphTells == GraphInv => GraphTellsTrue
<1> SUFFICES ASSUME GraphInv PROVE GraphTellsTrue
  OBVIOUS
<1>1. PICK m : m = asked /\ (m.pc # "idle" => Lasting(m) /\ (touches = 0 => Still(m)))
  BY DEF GraphInv, GraphCallInv
<1>2. StrongestEdgesWin /\ TruncationTold
  <2> SUFFICES ASSUME Answered("graph") PROVE StrongestEdgesWin /\ TruncationTold
    BY DEF StrongestEdgesWin, TruncationTold
  <2>1. m.pc = "done" /\ m.op = "graph" /\ Lasting(m) /\ (touches = 0 => Still(m))
    BY <1>1 DEF Answered, AskedAt
  <2>2. PICK P, k : P = Qualifying(m.nodes) /\ k = m.neighbours
    OBVIOUS
  <2>3. /\ m.nodes \in SUBSET Nodes /\ DegreesWithin(m.edges, k)
        /\ touches = 0 => GraphTrue(m)
    BY <2>1, <2>2, GraphFresh
  <2>4. \A n \in m.nodes : Cardinality(EdgesOf(n, m.edges)) <= k
    BY <2>3 DEF DegreesWithin
  <2>5. ASSUME Undisturbed
        PROVE  /\ Won(m.edges, P, k, Wide(m)) /\ m.edgeTotal = Cardinality(P)
               /\ m.edgesTruncated <=> m.edges # P
               /\ m.truncated <=> m.nodes # InBucket(m.bucket)
    BY <2>2, <2>3, <2>5 DEF Undisturbed, GraphTrue
  <2>6. TruncationTold
    BY <1>1, <2>2, <2>5 DEF TruncationTold
  <2>7. ASSUME Undisturbed, NEW p \in P \ m.edges
        PROVE  \/ \E n \in {p[1], p[2]} : Cardinality(AtLeastAsStrong(n, p, m.edges)) >= k
               \/ /\ ScalableEdgesEnabled
                  /\ \A n \in {p[1], p[2]} : Cardinality(AtLeastAsStrong(n, p, P)) >= k
    BY <1>1, <2>5, <2>7 DEF Won, Outdone, Overlooked, Wide, ScalableEdgesEnabled
  <2>8. StrongestEdgesWin
    BY <1>1, <2>2, <2>4, <2>7 DEF StrongestEdgesWin
  <2> QED BY <2>6, <2>8
<1>3. RelatedCoverEdges
  <2> SUFFICES ASSUME AskedAt("listed"), Undisturbed
               PROVE Covers(asked.related, asked.seed, Ends(asked.seed, asked.edges))
    BY DEF RelatedCoverEdges, Covers, Ends
  <2>1. m.pc = "listed" /\ Still(m)
    BY <1>1 DEF AskedAt, Undisturbed
  <2> QED BY <1>1, <2>1 DEF Still
<1>4. ClustersAreComponents
  <2> SUFFICES ASSUME Answered("hygiene") PROVE ClustersAreComponents
    BY DEF ClustersAreComponents
  <2>1. m.pc = "done" /\ m.op = "hygiene" /\ Lasting(m) /\ (touches = 0 => Still(m))
    BY <1>1 DEF Answered, AskedAt
  <2>2. ReportOf(m) /\ (touches = 0 /\ ~Wide(m) => ReportTrue(m))
    BY <2>1 DEF Lasting, Still, Completed
  <2>3. PICK inside : inside = Inside(m.pairs) /\ inside = ToSet(SameBucket(asked.pairs))
    BY <1>1 DEF Inside
  <2>4. ASSUME NEW c \in m.clusters
        PROVE  /\ \A p \in inside : ~Cut(p, c)
               /\ \A S \in (SUBSET c) \ {{}, c} : \E p \in inside : Cut(p, S)
    BY <2>2, <2>3 DEF ReportOf, IsComponent
  <2>5. ASSUME NEW p \in inside \cup m.contradictions
        PROVE  \E c \in m.clusters : {p[1], p[2]} \subseteq c
    BY <2>2, <2>3 DEF ReportOf, Unites
  <2>6. ASSUME Undisturbed, ~ScalableEdgesEnabled, NEW p \in Qualifying(m.nodes)
        PROVE  \/ shape.bucket[p[1]] # shape.bucket[p[2]]
               \/ \E c \in m.clusters : {p[1], p[2]} \subseteq c
    BY <1>1, <2>2, <2>6 DEF Undisturbed, ScalableEdgesEnabled, Wide, ReportTrue, Unites
  <2> QED BY <1>1, <2>3, <2>4, <2>5, <2>6 DEF ClustersAreComponents
<1> QED BY <1>2, <1>3, <1>4 DEF GraphTellsTrue

(* No graph and no report of hygiene tells anything that is not true of    *)
(* the pairs it was read from, whatever is retired or restamped meanwhile  *)
(* (graph_snapshot, related_to and _cap_pairs_by_degree of memory_repo.py, *)
(* memory_graph of memory/service.py, the clusters of hygiene.py).         *)
THEOREM GraphsTell == GraphSpec => []GraphTellsTrue
<1>1. GraphInit => GraphInv
  BY GraphStart
<1>2. GraphInv /\ [GraphNext]_graphVars => GraphInv'
  BY GraphStepKeeps
<1>3. GraphInv => GraphTellsTrue
  BY GraphTells
<1> QED BY <1>1, <1>2, <1>3, PTL DEF GraphSpec
=============================================================================
