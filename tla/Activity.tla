------------------------------ MODULE Activity ------------------------------
(***************************************************************************)
(* Tool activity from the call to the dashboard: on_call_tool (src/        *)
(* recallum/telemetry/middleware.py) records an event with an id of its    *)
(* own, the buffer's worker (Workers) inserts it in batches that may fail  *)
(* or be committed without the worker learning it, retention purges, and   *)
(* aggregate (telemetry/repository.py) counts in several READ COMMITTED    *)
(* statements; by_day and by_tool are read like the total.                 *)
(***************************************************************************)
EXTENDS Integers, FiniteSets, Functions, Sequences

CONSTANTS
    Events,      \* numbers: ids in the order of their calls
    Names,       \* names of projects, as sequences of words
    MaxBuckets,  \* MAX_PROJECT_BUCKETS
    InsertSize,  \* batch_size
    MaxSpoiled   \* bound: inserts that fail or lose their answer

ASSUME NamesAssumption == \A name \in Names : name \in Seq(Range(name)) /\ name # <<>>

VARIABLES
    projectOf,   \* event -> the name of its project, or NoProject
    calls,       \* events recorded
    waitingEvents, batchEvents,
    rowEvents,   \* what the table holds
    spoiled,
    counting     \* the aggregate in progress

activityVars == <<projectOf, calls, waitingEvents, batchEvents, rowEvents, spoiled, counting>>

NoProject == <<>>
AggregateAt(step) == counting.step = step

ActivityInit ==
    /\ projectOf \in [Events -> Names \cup {NoProject}]
    /\ calls = {} /\ waitingEvents = {} /\ batchEvents = {} /\ rowEvents = {} /\ spoiled = 0
    /\ counting = [step |-> "idle"]

(* A call that returns or raises; one that is cancelled leaves no event.   *)
OnCallTool(e) ==
    /\ e \notin calls /\ \A f \in Events \ calls : e <= f
    /\ calls' = calls \cup {e} /\ waitingEvents' = waitingEvents \cup {e}
    /\ UNCHANGED <<projectOf, batchEvents, rowEvents, spoiled, counting>>

(* The buffer keeps the order of the calls.                                *)
Oldest(S) == {e \in S : Cardinality({f \in S : f < e}) < InsertSize}
TakeBatch ==
    /\ batchEvents = {} /\ waitingEvents # {}
    /\ batchEvents' = Oldest(waitingEvents) /\ waitingEvents' = waitingEvents \ batchEvents'
    /\ UNCHANGED <<projectOf, calls, rowEvents, spoiled, counting>>

(* Mutant of Insertable: no ON CONFLICT, so an id that is there fails all. *)
NoConflict == batchEvents \cap rowEvents = {}
Insertable == TRUE
Disturb ==
    counting' = IF AggregateAt("idle") THEN counting ELSE [counting EXCEPT !.disturbed = TRUE]

InsertBatch ==
    /\ batchEvents # {} /\ Insertable
    /\ rowEvents' = rowEvents \cup batchEvents /\ batchEvents' = {}
    /\ Disturb
    /\ UNCHANGED <<projectOf, calls, waitingEvents, spoiled>>
(* It fails before or after the commit; either way the events are put back. *)
SpoilBatch ==
    /\ batchEvents # {} /\ spoiled < MaxSpoiled /\ spoiled' = spoiled + 1
    /\ \/ UNCHANGED <<rowEvents, counting>>
       \/ Insertable /\ rowEvents' = rowEvents \cup batchEvents /\ Disturb
    /\ waitingEvents' = waitingEvents \cup batchEvents /\ batchEvents' = {}
    /\ UNCHANGED <<projectOf, calls>>

(* purge_before: the rows older than a cutoff, which every event that      *)
(* still waits is younger than.                                            *)
PurgeBefore(e) ==
    /\ \A f \in waitingEvents \cup batchEvents : e < f
    /\ \E f \in rowEvents : f <= e
    /\ rowEvents' = {f \in rowEvents : f > e}
    /\ Disturb
    /\ UNCHANGED <<projectOf, calls, waitingEvents, batchEvents, spoiled>>

(***************************************************************************)
(* aggregate                                                               *)
(***************************************************************************)
(* Mutant of ProjectBucketLabel: names are taken as they are. *)
PlainLabel(name) == IF name = NoProject THEN <<"none">> ELSE name
ProjectBucketLabel(name) ==
    IF name = NoProject THEN <<"none">>
    ELSE IF name \in {<<"none">>, <<"__other__">>} \/ name[1] = "project:"
         THEN <<"project:">> \o name
         ELSE name

CountOf(name) == Cardinality({e \in rowEvents : projectOf[e] = name})
Named == {projectOf[e] : e \in rowEvents}
(* The most used, by count; equals in either order.                        *)
Buckets ==
    {B \in SUBSET Named :
        /\ Cardinality(B) = IF Cardinality(Named) < MaxBuckets THEN Cardinality(Named)
                            ELSE MaxBuckets
        /\ \A b \in B, n \in Named \ B : CountOf(b) >= CountOf(n)}

CountAll ==
    /\ AggregateAt("idle")
    /\ counting' = [step |-> "projects", total |-> Cardinality(rowEvents), disturbed |-> FALSE]
    /\ UNCHANGED <<projectOf, calls, waitingEvents, batchEvents, rowEvents, spoiled>>

(* A dictionary: of names with one label the last one stays.               *)
CountByProject ==
    /\ AggregateAt("projects")
    /\ \E B \in Buckets :
          LET labels == {ProjectBucketLabel(b) : b \in B}
              counts == [l \in labels |->
                            CountOf(CHOOSE b \in B : ProjectBucketLabel(b) = l)]
          IN counting' = [step |-> "shown", total |-> counting.total,
                          disturbed |-> counting.disturbed, byProject |-> counts, listed |-> B,
                          other |-> counting.total - SumFunctionOnSet(counts, labels)]
    /\ UNCHANGED <<projectOf, calls, waitingEvents, batchEvents, rowEvents, spoiled>>

Store == TakeBatch \/ InsertBatch
ActivityNext ==
    \/ \E e \in Events : OnCallTool(e) \/ PurgeBefore(e)
    \/ Store \/ SpoilBatch \/ CountAll \/ CountByProject
ActivitySpec == ActivityInit /\ [][ActivityNext]_activityVars /\ WF_activityVars(Store)

(***************************************************************************)
(* Properties.                                                             *)
(***************************************************************************)
(* Events that were recorded are stored in the end, although a batch       *)
(* failed, also when it had been stored already (insert_batch,             *)
(* "on_conflict_do_nothing").                                              *)
EventsGetStored == calls = Events ~> waitingEvents \cup batchEvents = {}

(* While nothing is inserted or purged between the statements, a dashboard *)
(* shows for each project it lists its own count -- also for projects      *)
(* named like a sentinel ("aggregate sentinels cannot collide",            *)
(* project_bucket_label) -- and counts the others together.                *)
ActivityAddsUp ==
    AggregateAt("shown") /\ ~counting.disturbed =>
        /\ \A b \in counting.listed : counting.byProject[ProjectBucketLabel(b)] = CountOf(b)
        /\ counting.other = Cardinality({e \in rowEvents : projectOf[e] \notin counting.listed})
        /\ <<"__other__">> \notin DOMAIN counting.byProject
=============================================================================
