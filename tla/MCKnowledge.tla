---------------------------- MODULE MCKnowledge -----------------------------
(* The instance of Knowledge for TLC; the .cfg files choose the sizes. *)
EXTENDS Knowledge, TLC

CONSTANT Size  \* memories of Reads
(* category, project, importance, chars, recalled, confirmed; the legs.    *)
Memo(c, p, i, n, r, v, t, g) ==
    [category |-> c, project |-> p, importance |-> i, chars |-> n, recalled |-> r,
     vector |-> v, text |-> t, trigram |-> g]
Templates ==
    <<Memo("preference", Global, 1, 6, 1, 0, 1, 1), Memo("constraint", "pA", 2, 3, 0, 2, 1, 0),
     Memo("fact", "pA", 2, 5, 1, 1, 0, 2), Memo("fact", Global, 1, 2, 0, 1, 2, 0),
     Memo("fact", "pB", 2, 2, 2, 2, 2, 2)>>

(* Any choice of them, stored in the order of the list.                    *)
Selections ==
    {kind \in [1..Size -> DOMAIN Templates] : \A m \in 2..Size : kind[m - 1] < kind[m]}
(* More facts of one project than a pool has room for.                     *)
Crowds == {<<2, 3, 3, 3>>, <<1, 4, 4, 4, 4>>}
MCCorpora ==
    {[m \in DOMAIN kind |-> [created |-> m, confirmed |-> m] @@ Templates[kind[m]]] :
        kind \in Selections \cup Crowds}

Ask(project, limit, tokens, strategy) ==
    [project |-> project, limit |-> limit, tokens |-> tokens, strategy |-> strategy]
MCRecalls == {Ask("pA", 2, NoBudget, "debugging"), Ask(Global, 3, 19, NoBudget)}

Show(project, items, chars, tokens, strategy, focus) ==
    [project |-> project, items |-> items, chars |-> chars, tokens |-> tokens,
     strategy |-> strategy, focus |-> focus]
MCContexts ==
    {Show("pA", 2, 12, NoBudget, NoBudget, FALSE), Show("pA", 3, 8, NoBudget, "coding", TRUE),
     Show("pA", 1, 12, NoBudget, NoBudget, FALSE), Show(Global, 3, 12, 20, NoBudget, FALSE)}

MCProfileStatic == [items |-> 2, chars |-> 8]
MCProfileDynamic == [items |-> 1, chars |-> 5]
MCProfileReserve == [items |-> 1, chars |-> 5]

(* The same texts in either order, and a text given twice. *)
MCItemLists == {<<"x", "y">>, <<"y", "x">>, <<Invalid, "y", "y">>}

(* Four memories for the graph, the first two being the closest.          *)
FourPairs == {p \in (1..4) \X (1..4) : p[1] < p[2]}
MCShapes ==
    {[similarity |-> s, bucket |-> b, importance |-> <<1, 2, 1, 1>>,
      cues |-> <<{}, {"never"}, {"not"}, {"not"}>>] :
        s \in {f \in [FourPairs -> 0..2] : f[<<1, 2>>] = 2 /\ f[<<3, 4>>] > 0 /\ f[<<2, 4>>] < 2},
        b \in {<<"b1", "b1", "b1", "b1">>, <<"b1", "b1", "b2", "b1">>}}
AskFor(op, bucket, limit, neighbours, minNodes) ==
    [op |-> op, bucket |-> bucket, limit |-> limit, neighbours |-> neighbours,
     minNodes |-> minNodes]
MCGraphAsks ==
    {AskFor("graph", Everywhere, 4, 1, 3), AskFor("graph", Everywhere, 4, 1, 9),
     AskFor("graph", "b1", 2, 2, 2), AskFor("hygiene", Everywhere, 4, 1, 3),
     AskFor("hygiene", Everywhere, 3, 9, 9), AskFor("hygiene", Everywhere, 4, 9, 9)}

MCProcedures ==
    [bucket : {"pA", "global"}, vector : {1, 2}, text : {0, 1}]

(* The newest memory may be stored during the call, the others are there; *)
(* one row of the graph may lack its provenance; the parts that rest stay *)
(* in one state.                                                          *)
Resting(S) == CHOOSE x \in S : TRUE
MCInit ==
    /\ part \in Parts
    /\ memory \in IF part = "reads" THEN Corpora ELSE {Resting(Corpora)}
    /\ shape \in IF part = "graph" THEN Shapes ELSE {Resting(Shapes)}
    /\ procedure \in IF part = "skills" THEN [SkillIds -> Procedures]
                     ELSE {[s \in SkillIds |-> Resting(Procedures)]}
    /\ model \in {[n \in Nodes |-> Resting(Models)]}
                \cup {[n \in Nodes |-> IF n = 2 THEN NoModel ELSE Resting(Models)]}
    /\ subject = IF part = "advice" THEN [i \in Entries |-> IF i = 2 THEN 2 ELSE 1]
                 ELSE [i \in Entries |-> i]
    /\ entry = Before(IF part = "pages" THEN 2..Stored ELSE 1..Stored)
    /\ stale = IF part = "pages" THEN {3} ELSE {}
    /\ KnowledgeInit
    /\ \A n \in Nodes : model[n] = NoModel => part = "graph" /\ shape.bucket[3] = "b1"
    /\ \A m \in Memories : stage[m] = "new" => m = Cardinality(Memories)
    /\ part # "reads" => \A m \in Memories : stage[m] = "active"
    /\ part # "backfill" => vectors = [i \in RowIds |-> "none"]
MCKnowledgeSpec == MCInit /\ [][KnowledgeNext]_knowledgeVars /\ KnowledgeFairness
=============================================================================
