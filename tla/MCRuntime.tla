----------------------------- MODULE MCRuntime ------------------------------
(* The instance of Runtime for TLC; the .cfg file chooses the sizes. *)
EXTENDS Runtime

(* Requests: bodies within and over each limit, in one chunk or several;   *)
(* the ways to come through proxies; the answers of the guard.             *)
Req(path, isDeclared, chunks, long) ==
    [path |-> path, host |-> "allowed", origin |-> "none",
     declared |-> IF isDeclared THEN FoldLeft(LAMBDA a, b : a + b, 0, chunks) ELSE NoLimit,
     chunks |-> chunks, long |-> long, forged |-> <<>>, hops |-> <<"client">>]
Via(forged, hops) ==
    [Req("/mcp/", FALSE, <<1>>, FALSE) EXCEPT !.forged = forged, !.hops = hops]
MCRequests ==
    {Req(p, d, c, l) :
        p \in {"/api/v1/auth/login", "/api/v1/memories", "/mcp/", "/health"}, d \in BOOLEAN,
        c \in {<<2>>, <<1, 1>>, <<2, 1>>, <<1, 1, 2>>, <<0>>}, l \in BOOLEAN}
    \cup {Via(f, h) :
        f \in {<<>>, <<"other">>, <<"proxy1">>, <<"other", Garbage>>},
        h \in {<<"client">>, <<"client", "proxy1">>, <<"client", "proxy1", "proxy2">>,
               <<"client", "proxy1", "relay", "proxy2">>}}
    \cup {[Req(p, TRUE, <<2>>, FALSE) EXCEPT !.host = h, !.origin = o] :
        p \in {"/mcp", "/mcp/"}, h \in {"allowed", "other"}, o \in {"none", "allowed", "other"}}

(* Names of projects as lists of words; two are those of a sentinel.       *)
NameList == <<NoProject, <<"p">>, <<"none">>, <<"__other__">>>>
MCNames == ToSet(NameList) \ {NoProject}
(* Any choice of them, in the order of the list.                           *)
MCProjects ==
    {[e \in Events |-> NameList[kind[e]]] :
        kind \in {k \in [Events -> 1..4] : \A e, f \in Events : e < f => k[e] <= k[f]}}

(* The parts that rest stay in one state. *)
Resting(S) == CHOOSE x \in S : TRUE
MCInit ==
    /\ part \in Parts
    /\ request \in IF part = "boundary" THEN Requests ELSE {Resting(Requests)}
    /\ handler \in IF part = "boundary" THEN Handlers ELSE {Resting(Handlers)}
    /\ projectOf \in IF part = "activity" THEN MCProjects ELSE {Resting(MCProjects)}
    /\ RuntimeInit
(* Users and profile keys, alike among themselves, are served and recorded *)
(* for the first time in their order.                                      *)
UserInOrder(u) == \A v \in Users : v < u => \E m \in Memories : served[<<v, m>>] > 0
ItemInOrder(q, i) == i <= records[q] + 1
UsageNext ==
    \/ \E k \in Keys : UserInOrder(k[1]) /\ Record(k)
    \/ \E r \in Readers : \/ \E u \in Users : FlushUser(r, u)
                          \/ ReaderStep(r) \/ Cancel(r)
    \/ \E w \in Workers : WorkerStep(w)
    \/ \E t \in Tasks : Flush(t)
    \/ Stop
QueuesNext ==
    \/ \E q \in Queues : \/ \E i \in Items : ItemInOrder(q, i) /\ RecordItem(q, i)
                         \/ QueueStep(q) \/ StopWorker(q)
    \/ Exit \/ Stopped \/ Cancelled \/ Close
MCRuntimeNext ==
    \/ Moves("usage") /\ UsageNext
    \/ Moves("workers") /\ QueuesNext
    \/ Moves("boundary") /\ BoundaryNext
    \/ Moves("readiness") /\ ReadinessNext
    \/ Moves("activity") /\ ActivityNext
MCRuntimeSpec ==
    /\ MCInit /\ [][MCRuntimeNext]_runtimeVars
    /\ UsageFairness /\ QueueFairness /\ ActivityFairness
=============================================================================
