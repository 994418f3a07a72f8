---------------------------- MODULE MemoryGraph -----------------------------
(***************************************************************************)
(* The memory graph and the hygiene report: graph_snapshot and related_to  *)
(* (db/repositories/memory_repo.py), memory_graph (memory/service.py) and  *)
(* the clusters of hygiene.py, while other sessions retire rows or restamp *)
(* vectors between the statements.  A memory is a number, its id; a pair   *)
(* is <<i, j>> with i < j, and its similarity is 0 below the floor of the  *)
(* call.  Rows that are retired stay in the table, so the statement that   *)
(* reads pairs still finds the memories the one before it selected.        *)
(***************************************************************************)
EXTENDS Data, SequencesExt

CONSTANTS
    Shapes,         \* [similarity, bucket, importance, cues], of the memories
    Models,         \* embedding models
    NoModel,        \* no recorded provenance
    Everywhere,     \* the bucket of a call without a visibility filter
    GraphAsks,      \* [op, bucket, limit, neighbours, minNodes]
    MaxTouches      \* bound: memories retired or restamped by others

VARIABLES
    shape,          \* the contents, fixed
    model,          \* memory -> embedding_model
    alive,          \* memories that are active
    asked,          \* the graph call in progress and what it has read
    touches

graphVars == <<shape, model, alive, asked, touches>>

Nodes == DOMAIN shape.importance
Similarity(p) == shape.similarity[p]
NodePairs(S) == {p \in S \X S : p[1] < p[2]}
Comparable(p) ==
    Similarity(p) > 0 /\ model[p[1]] = model[p[2]] /\ model[p[1]] # NoModel
Qualifying(S) == {p \in NodePairs(S) : Comparable(p)}
EdgesOf(n, P) == {p \in P : n \in {p[1], p[2]}}
Other(p, n) == IF p[1] = n THEN p[2] ELSE p[1]
AskedAt(pc) == asked.pc = pc

ASSUME GraphAssumption ==
    /\ \A s \in Shapes :
          LET ids == DOMAIN s.importance
          IN /\ ids \subseteq Nat /\ IsFiniteSet(ids) /\ \A n \in ids : s.importance[n] \in Nat
             /\ \A p \in NodePairs(ids) : s.similarity[p] \in Nat
    /\ \A a \in GraphAsks :
          /\ DOMAIN a = {"op", "bucket", "limit", "neighbours", "minNodes"}
          /\ a.op \in {"graph", "hygiene"}
          /\ {a.limit, a.neighbours, a.minNodes} \subseteq Nat

GraphInit ==
    /\ shape \in Shapes
    /\ model \in [Nodes -> Models \cup {NoModel}]
    /\ alive = Nodes
    /\ asked = [pc |-> "idle"]
    /\ touches = 0

(***************************************************************************)
(* The statements of graph_snapshot.                                       *)
(***************************************************************************)
InBucket(bucket) == {n \in alive : bucket \in {Everywhere, shape.bucket[n]}}
Returned(next, news) ==
    /\ asked' = With([asked EXCEPT !.pc = next], news)
    /\ UNCHANGED <<shape, model, alive, touches>>

AskGraph(a) ==
    /\ AskedAt("idle")
    /\ asked' = With(a, [pc |-> "total"])
    /\ UNCHANGED <<shape, model, alive, touches>>

CountTotal ==
    /\ AskedAt("total")
    /\ Returned("nodes", [total |-> Cardinality(InBucket(asked.bucket))])

(* The most important, then the newest (ids grow with age here).           *)
Foremost(S, limit) ==
    {n \in S : Cardinality({m \in S : \/ shape.importance[m] > shape.importance[n]
                                      \/ shape.importance[m] = shape.importance[n] /\ m < n})
               < limit}
Mismatch(S) == \E n \in S : model[n] = NoModel \/ \E m \in S : model[m] # model[n]
SelectNodes ==
    /\ AskedAt("nodes")
    /\ LET S    == Foremost(InBucket(asked.bucket), asked.limit)
           news == [nodes |-> S, mismatch |-> Mismatch(S)]
       IN IF Cardinality(S) < 2
          THEN Returned("finish", With(news, [pairs |-> <<>>, edgeTotal |-> 0]))
          ELSE Returned("pairs", news)

(* Pairs by descending similarity, then by their ids. *)
Strongest(P) ==
    LET Leads(p, q) == \/ Similarity(p) > Similarity(q)
                       \/ /\ Similarity(p) = Similarity(q)
                          /\ p[1] < q[1] \/ (p[1] = q[1] /\ p[2] < q[2])
    IN Arranged(P, {pq \in P \X P : Leads(pq[1], pq[2])})

(* Mutant of Saturated: only the first endpoint is looked at. *)
SourceSaturated(p, kept, most) == Cardinality(EdgesOf(p[1], kept)) >= most
Saturated(p, kept, most) == \E n \in {p[1], p[2]} : Cardinality(EdgesOf(n, kept)) >= most

(* _cap_pairs_by_degree *)
CapStep(capped, p, most) ==
    IF Saturated(p, ToSet(capped), most) THEN capped ELSE Append(capped, p)
CapPairsByDegree(pairs, most) ==
    FoldLeft(LAMBDA capped, p : CapStep(capped, p, most), <<>>, pairs)

(* _scalable_graph_edges: each node's strongest, and how many it has.      *)
Neighbours(n, S) == EdgesOf(n, Qualifying(S))
NearestOf(n, S, most) ==
    {p \in Neighbours(n, S) :
        Cardinality({q \in Neighbours(n, S) :
                        \/ Similarity(q) > Similarity(p)
                        \/ Similarity(q) = Similarity(p) /\ Other(q, n) < Other(p, n)}) < most}
ScalablePairs(S, most) ==
    CapPairsByDegree(Strongest(UNION {NearestOf(n, S, most) : n \in S}), most)
(* Mutant of ScalableTotal: the pairs it returns are counted. *)
CappedTotal(S) == Len(ScalablePairs(S, asked.neighbours))
ScalableTotal(S) == SumFunction([n \in S |-> Cardinality(Neighbours(n, S))]) \div 2

ScalableEdgesEnabled == asked.total > asked.minNodes
ReadPairs ==
    /\ AskedAt("pairs")
    /\ LET S == asked.nodes
           P == Qualifying(S)
       IN Returned("finish",
                IF ScalableEdgesEnabled
                THEN [pairs |-> ScalablePairs(S, asked.neighbours), edgeTotal |-> ScalableTotal(S)]
                ELSE [pairs |-> Strongest(P), edgeTotal |-> Cardinality(P)])

(***************************************************************************)
(* memory_graph and related_memories.                                      *)
(***************************************************************************)
FinishGraph ==
    /\ AskedAt("finish") /\ asked.op = "graph"
    /\ LET edges == ToSet(CapPairsByDegree(asked.pairs, asked.neighbours))
       IN Returned("done", [edges |-> edges,
                         truncated |-> asked.total > Cardinality(asked.nodes),
                         edgesTruncated |-> asked.edgeTotal > Cardinality(edges)])

(* A graph on the screen, and the memories related to one of its nodes:    *)
(* related_to reads the seed's vector, then its neighbours, by the same    *)
(* bound, without the visibility filter of the graph.                      *)
ReadSeed(n) ==
    /\ AskedAt("done") /\ asked.op = "graph"
    /\ IF n \in alive /\ model[n] # NoModel
       THEN Returned("neighbours", [seed |-> n, provenance |-> model[n]])
       ELSE Returned("listed", [seed |-> n, related |-> {}])
Closeness(n, m) == Similarity(IF m < n THEN <<m, n>> ELSE <<n, m>>)
Relatives(n) ==
    {m \in alive \ {n} : model[m] = asked.provenance /\ Closeness(n, m) > 0}
(* Mutant of Nearest: the order is reversed. *)
Farthest(n, most) ==
    {m \in Relatives(n) :
        Cardinality({o \in Relatives(n) : Closeness(n, o) < Closeness(n, m)}) < most}
Nearest(n, most) ==
    {m \in Relatives(n) :
        Cardinality({o \in Relatives(n) : \/ Closeness(n, o) > Closeness(n, m)
                                          \/ Closeness(n, o) = Closeness(n, m) /\ o < m})
        < most}
ReadRelated ==
    /\ AskedAt("neighbours")
    /\ Returned("listed", [related |-> Nearest(asked.seed, asked.neighbours)])

(***************************************************************************)
(* build_hygiene_report: union-find over the pairs inside a bucket.        *)
(***************************************************************************)
SameBucket(pairs) ==
    ElementsAt(pairs, {i \in DOMAIN pairs : shape.bucket[pairs[i][1]] = shape.bucket[pairs[i][2]]})

(* find, with path halving: the parents it leaves and the root it finds.   *)
(* A step at a root changes nothing, and no path has more steps than there *)
(* are memories (FoundIs of RetrievalProofs).                              *)
Halve(s) ==
    LET up == s.parent[s.node]
    IN IF up = s.node THEN s
       ELSE [parent |-> [s.parent EXCEPT ![s.node] = s.parent[up]], node |-> s.parent[up]]
Found(parents, n) ==
    FoldLeft(LAMBDA s, i : Halve(s), [parent |-> parents, node |-> n],
             [i \in 1..Cardinality(DOMAIN parents) |-> i])

(* Mutant of United: the second memory is hung below the first, not its root. *)
UnitedBelow(parents, p) ==
    LET a == Found(parents, p[1])
    IN [a.parent EXCEPT ![p[2]] = a.node]
United(parents, p) ==
    LET a == Found(parents, p[1])
        b == Found(a.parent, p[2])
    IN [b.parent EXCEPT ![b.node] = a.node]

ClusterByBucket(nodes, pairs) ==
    LET parents == FoldLeft(United, [n \in nodes |-> n], SameBucket(pairs))
        groups  == {{m \in nodes : Found(parents, m).node = Found(parents, n).node} : n \in nodes}
    IN {g \in groups : Cardinality(g) >= 2}

(* The memory with a cue the other lacks comes first; both may have one.   *)
FindContradictions(pairs) ==
    {IF shape.cues[p[1]] \ shape.cues[p[2]] # {} THEN p ELSE <<p[2], p[1]>> :
        p \in {q \in ToSet(SameBucket(pairs)) : shape.cues[q[1]] # shape.cues[q[2]]}}

FinishReport ==
    /\ AskedAt("finish") /\ asked.op = "hygiene"
    /\ Returned("done", [clusters |-> ClusterByBucket(asked.nodes, asked.pairs),
                      contradictions |-> FindContradictions(asked.pairs),
                      capped |-> asked.total > Cardinality(asked.nodes)])

(***************************************************************************)
(* Other sessions: forget, and the backfill of embeddings (Reembed).       *)
(***************************************************************************)
Touching ==
    /\ ~AskedAt("idle") /\ ~AskedAt("listed")
    /\ touches < MaxTouches /\ touches' = touches + 1
    /\ UNCHANGED <<shape, asked>>
Retire(n) == Touching /\ n \in alive /\ alive' = alive \ {n} /\ UNCHANGED model
Restamp(n, new) ==
    Touching /\ model[n] # new /\ model' = [model EXCEPT ![n] = new] /\ UNCHANGED alive

GraphNext ==
    \/ \E a \in GraphAsks : AskGraph(a)
    \/ CountTotal \/ SelectNodes \/ ReadPairs \/ FinishGraph \/ FinishReport
    \/ ReadRelated
    \/ \E n \in Nodes : ReadSeed(n) \/ Retire(n)
    \/ \E n \in Nodes, m \in Models : Restamp(n, m)

GraphSpec == GraphInit /\ [][GraphNext]_graphVars

(***************************************************************************)
(* Properties.                                                             *)
(***************************************************************************)
Answered(op) == AskedAt("done") /\ asked.op = op
Undisturbed == touches = 0

(* No memory has more edges than the bound, and an edge that is missing    *)
(* has been crowded out: one of its ends is full of edges as strong, or,   *)
(* when each memory only reads its nearest, it was among those of neither  *)
(* end ("the strongest edges win when a node is over its cap",             *)
(* _cap_pairs_by_degree).                                                  *)
AtLeastAsStrong(n, p, P) == {q \in EdgesOf(n, P) \ {p} : Similarity(q) >= Similarity(p)}
StrongestEdgesWin ==
    Answered("graph") =>
        LET k == asked.neighbours
            P == Qualifying(asked.nodes)
        IN /\ \A n \in asked.nodes : Cardinality(EdgesOf(n, asked.edges)) <= k
           /\ Undisturbed => \A p \in P \ asked.edges :
                 \/ \E n \in {p[1], p[2]} : Cardinality(AtLeastAsStrong(n, p, asked.edges)) >= k
                 \/ /\ ScalableEdgesEnabled
                    /\ \A n \in {p[1], p[2]} : Cardinality(AtLeastAsStrong(n, p, P)) >= k

(* Whichever way the edges are read, a graph says exactly when it left out *)
(* an edge, and when it left out a memory ("the pre-cap qualifying pair    *)
(* count is still reported exactly by both paths", graph_snapshot).        *)
TruncationTold ==
    Answered("graph") /\ Undisturbed =>
        /\ asked.edgeTotal = Cardinality(Qualifying(asked.nodes))
        /\ asked.edgesTruncated <=> asked.edges # Qualifying(asked.nodes)
        /\ asked.truncated <=> asked.nodes # InBucket(asked.bucket)

(* While nothing changes, the memories related to a node of the graph are  *)
(* at least as many as its edges, and an edge leads to one of them unless  *)
(* they are all as close.                                                  *)
RelatedCoverEdges ==
    AskedAt("listed") /\ Undisturbed =>
        LET n    == asked.seed
            ends == {Other(p, n) : p \in EdgesOf(n, asked.edges)}
        IN /\ Cardinality(ends) <= Cardinality(asked.related)
           /\ \A m \in ends \ asked.related :
                 \A o \in asked.related : Closeness(n, o) >= Closeness(n, m)

(* The clusters of a report are the connected parts of its pairs: no pair  *)
(* leaves one, none can be split without cutting a pair, and the two sides *)
(* of a contradiction are in the same one.  Where pairs are read in full   *)
(* every pair of similar memories of a bucket is inside a cluster.         *)
Cut(p, S) == (p[1] \in S) # (p[2] \in S)
ClustersAreComponents ==
    Answered("hygiene") =>
        LET inside == ToSet(SameBucket(asked.pairs))
        IN /\ \A c \in asked.clusters :
                 /\ \A p \in inside : ~Cut(p, c)
                 /\ \A S \in (SUBSET c) \ {{}, c} : \E p \in inside : Cut(p, S)
           /\ \A p \in inside \cup asked.contradictions :
                 \E c \in asked.clusters : {p[1], p[2]} \subseteq c
           /\ (Undisturbed /\ ~ScalableEdgesEnabled) =>
                 \A p \in Qualifying(asked.nodes) :
                    \/ shape.bucket[p[1]] # shape.bucket[p[2]]
                    \/ \E c \in asked.clusters : {p[1], p[2]} \subseteq c

(* What the graph and the report made of it tell is true of the pairs they *)
(* were read from: the strongest edges, what was left out, the neighbours  *)
(* of a node and the clusters.                                             *)
GraphTellsTrue ==
    StrongestEdgesWin /\ TruncationTold /\ RelatedCoverEdges /\ ClustersAreComponents
=============================================================================
