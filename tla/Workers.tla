------------------------------ MODULE Workers -------------------------------
(***************************************************************************)
(* The background workers and the application's lifecycle: TelemetryBuffer *)
(* (src/recallum/telemetry/buffer.py), ProfileRebuildQueue                 *)
(* (src/recallum/memory/profile_rebuild.py) and UsageBuffer                *)
(* (src/recallum/memory/usage.py) run the same loop over a bounded queue   *)
(* with different policies; _LifecycleCoordinator (src/recallum/app.py)    *)
(* stops them together, then shutdown_container (src/recallum/container.py)*)
(* closes what they use.                                                   *)
(*                                                                         *)
(* A lock is never held across an await, so what happens between two       *)
(* awaits is one step.  An item is a telemetry event, the usage of one     *)
(* memory (UsageBuffer has its counts) or a profile key.  Requests record  *)
(* while the application serves: the server ends them before the lifespan  *)
(* exits.                                                                  *)
(***************************************************************************)
EXTENDS Naturals, Sequences, FiniteSets, SequencesExt

CONSTANTS
    Queues,      \* subset of {"telemetry", "usage", "profiles"}
    Items,       \* what is recorded: 1..n
    MaxRecords,  \* bound: calls that record
    ChunkSize, QueueLimit,
    LifespanCancelled,  \* the lifespan's task may be cancelled while it stops them
    MaxBroken    \* bound: repository and close calls that fail

ASSUME QueuesAssumption == Queues \subseteq {"telemetry", "usage", "profiles"}
ASSUME QueueLimitsAssumption ==
    /\ ChunkSize \in Nat \ {0} /\ QueueLimit \in Nat \ {0}
    /\ ChunkSize <= QueueLimit
    /\ MaxBroken \in Nat /\ MaxRecords \in Nat /\ LifespanCancelled \in BOOLEAN
    /\ IsFiniteSet(Items) /\ Items = 1..Cardinality(Items)

Resources == <<"http", "usage", "engine">>

VARIABLES
    waiting,  \* queue -> items waiting, oldest first
    inHand,   \* queue -> items of the flush in progress
    pc,       \* queue -> where its worker is
    wake,     \* queue -> its event is set
    asked,    \* queue -> stop was called
    phase,    \* of the lifespan: "serving", "stopping", a resource, "exited"
    closed,   \* resources closed
    tried,    \* resources shutdown_container has come to
    broken,   \* calls that failed (bounded)
    owed,     \* history: queue -> items recorded, neither done nor dropped
    records   \* calls that recorded (bounded)

queues == <<waiting, inHand, pc, wake, asked, owed, records>>
workersVars == <<queues, phase, closed, tried, broken>>

WorkersInit ==
    /\ waiting = [q \in Queues |-> <<>>] /\ inHand = [q \in Queues |-> <<>>]
    /\ pc = [q \in Queues |-> IF q = "telemetry" THEN "start" ELSE "wait"]
    /\ wake = [q \in Queues |-> FALSE] /\ asked = [q \in Queues |-> FALSE]
    /\ phase = "serving" /\ closed = {} /\ tried = {} /\ broken = 0
    /\ owed = [q \in Queues |-> {}] /\ records = [q \in Queues |-> 0]

(***************************************************************************)
(* record, record_recall / record_context, enqueue: nobody awaits a        *)
(* repository.  A full queue drops its oldest item, usage the new one; a   *)
(* profile key that waits already is not queued again.                     *)
(***************************************************************************)
Full(q) == Len(waiting[q]) >= QueueLimit

Enqueued(q, i) ==
    IF ~Full(q) THEN Append(waiting[q], i)
    ELSE IF q = "usage" THEN waiting[q] ELSE Append(Tail(waiting[q]), i)

(* The items that a record call counts as dropped. *)
Displaced(q, i) == IF ~Full(q) THEN {} ELSE IF q = "usage" THEN {i} ELSE {Head(waiting[q])}

(* Mutant of Wakes: enqueue forgets the event. *)
WakesOthers(q, s) == q # "profiles" /\ Len(s) >= ChunkSize
Wakes(q, s) == q = "profiles" \/ Len(s) >= ChunkSize

RecordItem(q, i) ==
    LET s == Enqueued(q, i)
    IN /\ phase = "serving"
       /\ MapThenSumSet(LAMBDA r : records[r], Queues) < MaxRecords
       /\ IF q = "profiles" THEN i \notin ToSet(waiting[q]) ELSE i = records[q] + 1
       /\ waiting' = [waiting EXCEPT ![q] = s]
       /\ wake' = [wake EXCEPT ![q] = @ \/ Wakes(q, s)]
       /\ owed' = [owed EXCEPT ![q] = (@ \cup {i}) \ Displaced(q, i)]
       /\ records' = [records EXCEPT ![q] = @ + 1]
       /\ UNCHANGED <<inHand, pc, asked, phase, closed, tried, broken>>

(***************************************************************************)
(* flush: take a batch, one repository call, and on failure put it back in *)
(* front, the oldest dropped beyond the limit.                             *)
(***************************************************************************)
Taken(q) == IF q = "usage" \/ Len(waiting[q]) <= ChunkSize THEN Len(waiting[q]) ELSE ChunkSize

TakeItems(q, call) ==
    /\ waiting[q] # <<>>
    /\ inHand' = [inHand EXCEPT ![q] = SubSeq(waiting[q], 1, Taken(q))]
    /\ waiting' = [waiting EXCEPT ![q] = SubSeq(@, Taken(q) + 1, Len(@))]
    /\ pc' = [pc EXCEPT ![q] = call]

(* insert_batch skips what it inserted before, apply_usage is modelled in  *)
(* UsageBuffer, and rebuilding catches each key's failure.                 *)
Succeeds(q) ==
    /\ inHand' = [inHand EXCEPT ![q] = <<>>]
    /\ owed' = [owed EXCEPT ![q] = @ \ (ToSet(inHand[q]) \ ToSet(waiting[q]))]
    /\ UNCHANGED <<waiting, broken>>

Combined(q) == inHand[q] \o waiting[q]
Excess(q) == IF Len(Combined(q)) > QueueLimit THEN Len(Combined(q)) - QueueLimit ELSE 0

(* Mutants of RequeuedItems: the limit is not looked at; the batch is lost. *)
RequeuedAll(q) == Combined(q)
BatchLost(q)   == waiting[q]
RequeuedItems(q)    == SubSeq(Combined(q), Excess(q) + 1, Len(Combined(q)))

Fails(q) ==
    /\ q # "profiles"
    /\ broken < MaxBroken /\ broken' = broken + 1
    /\ waiting' = [waiting EXCEPT ![q] = RequeuedItems(q)]
    /\ inHand' = [inHand EXCEPT ![q] = <<>>]
    /\ owed' = [owed EXCEPT ![q] = @ \ ToSet(SubSeq(Combined(q), 1, Excess(q)))]

(***************************************************************************)
(* The loop (_run): wait for the event, or for an interval; drain; purge   *)
(* (telemetry, at an interval); and once closing, a final drain.           *)
(***************************************************************************)
Wait(q) ==
    /\ pc[q] = "wait"
    /\ q = "profiles" => wake[q]
    /\ wake' = [wake EXCEPT ![q] = FALSE]
    /\ pc' = [pc EXCEPT ![q] = "drain"]
    /\ UNCHANGED <<waiting, inHand, asked, owed, records, phase, closed, tried, broken>>

(* Mutant of Rest: closing is not looked at after a drain. *)
RestAlways(q) == "wait"
Rest(q) == IF asked[q] THEN "final" ELSE "wait"
Drained(q) == {Rest(q)} \cup (IF q = "telemetry" THEN {"purge"} ELSE {})

(* Draining goes on: while there is a full batch, profiles while anything. *)
MoreToDrain(q, s) == s # <<>> /\ (q = "profiles" \/ Len(s) >= ChunkSize)

Drain(q) ==
    /\ pc[q] = "drain"
    /\ \/ TakeItems(q, "flush")
       \/ /\ waiting[q] = <<>> /\ UNCHANGED <<waiting, inHand>>
          /\ \E next \in Drained(q) : pc' = [pc EXCEPT ![q] = next]
    /\ UNCHANGED <<wake, asked, owed, records, phase, closed, tried, broken>>

Flushed(q) ==
    /\ pc[q] = "flush"
    /\ \/ /\ Succeeds(q)
          /\ \E next \in IF MoreToDrain(q, waiting[q]) THEN {"drain"} ELSE Drained(q) :
                pc' = [pc EXCEPT ![q] = next]
       \/ /\ Fails(q)
          /\ \E next \in Drained(q) : pc' = [pc EXCEPT ![q] = next]
    /\ UNCHANGED <<wake, asked, records, phase, closed, tried>>

(* A purge that fails is logged; the worker's first one precedes its loop. *)
Purged(q) ==
    /\ \/ pc[q] = "start" /\ pc' = [pc EXCEPT ![q] = "wait"]
       \/ pc[q] = "purge" /\ pc' = [pc EXCEPT ![q] = Rest(q)]
    /\ UNCHANGED <<waiting, inHand, wake, asked, owed, records, phase, closed, tried, broken>>

Final(q) ==
    /\ pc[q] = "final"
    /\ \/ TakeItems(q, "last")
       \/ waiting[q] = <<>> /\ pc' = [pc EXCEPT ![q] = "ended"] /\ UNCHANGED <<waiting, inHand>>
    /\ UNCHANGED <<wake, asked, owed, records, phase, closed, tried, broken>>

FinalFlushed(q) ==
    /\ pc[q] = "last"
    /\ \/ Succeeds(q) /\ pc' = [pc EXCEPT ![q] = "final"]
       \/ Fails(q) /\ pc' = [pc EXCEPT ![q] = "ended"]
    /\ UNCHANGED <<wake, asked, records, phase, closed, tried>>

(***************************************************************************)
(* Shutdown: the coordinator stops the workers together and waits for all  *)
(* of them, whatever each raises.                                          *)
(***************************************************************************)
Exit ==
    /\ phase = "serving" /\ phase' = "stopping"
    /\ UNCHANGED <<queues, closed, tried, broken>>

StopWorker(q) ==
    /\ phase = "stopping" /\ ~asked[q]
    /\ asked' = [asked EXCEPT ![q] = TRUE]
    /\ wake' = [wake EXCEPT ![q] = TRUE]
    /\ UNCHANGED <<waiting, inHand, pc, owed, records, phase, closed, tried, broken>>

(* Mutant of AllStopped: the gather does not wait. *)
StopsCalled == \A q \in Queues : asked[q]
AllStopped == \A q \in Queues : asked[q] /\ pc[q] = "ended"

Stopped ==
    /\ phase = "stopping" /\ AllStopped
    /\ phase' = "http"
    /\ UNCHANGED <<queues, closed, tried, broken>>

(* Cancelling the lifespan's task cancels the stops in progress, these the *)
(* workers they await, and shutdown_container is not reached: what those   *)
(* workers were writing is lost.                                           *)
Cancelled ==
    /\ LifespanCancelled /\ phase = "stopping"
    /\ phase' = "exited"
    /\ pc' = [q \in Queues |-> IF asked[q] THEN "ended" ELSE pc[q]]
    /\ inHand' = [q \in Queues |-> IF asked[q] THEN <<>> ELSE inHand[q]]
    /\ owed' = [q \in Queues |->
           IF asked[q] THEN owed[q] \ (ToSet(inHand[q]) \ ToSet(waiting[q])) ELSE owed[q]]
    /\ UNCHANGED <<waiting, wake, asked, records, closed, tried, broken>>

(***************************************************************************)
(* shutdown_container: http, usage, engine in this order; one that fails   *)
(* or is cancelled does not keep the later ones open.  Whether usage is    *)
(* closed here depends on what the provider reports (dependency_injector); *)
(* its worker is gone, so its stop flushes once.                           *)
(***************************************************************************)
NextResource(name) == CASE name = "http" -> "usage" [] name = "usage" -> "engine"
                        [] OTHER -> "exited"

CloseResource(name) ==
    /\ phase = name /\ name \notin tried
    /\ phase' = NextResource(name)
    /\ tried' = tried \cup {name}
    /\ \/ closed' = closed \cup {name} /\ UNCHANGED broken
       \/ name = "usage" /\ UNCHANGED <<closed, broken>>
       \/ /\ broken < MaxBroken /\ broken' = broken + 1
          /\ UNCHANGED closed
    /\ (name = "usage" /\ "usage" \in Queues /\ closed' # closed) => waiting["usage"] = <<>>
    /\ UNCHANGED queues

FlushOnClose ==
    /\ phase = "usage" /\ "usage" \in Queues
    /\ "usage" \notin tried
    /\ TakeItems("usage", "close")
    /\ tried' = tried \cup {"usage"}
    /\ UNCHANGED <<wake, asked, owed, records, phase, closed, broken>>

FlushedOnClose ==
    /\ "usage" \in Queues /\ pc["usage"] = "close"
    /\ Succeeds("usage") \/ Fails("usage")
    /\ pc' = [pc EXCEPT !["usage"] = "ended"]
    /\ phase' = "engine" /\ closed' = closed \cup {"usage"}
    /\ UNCHANGED <<wake, asked, records, tried>>

QueueStep(q) == Wait(q) \/ Drain(q) \/ Flushed(q) \/ Purged(q) \/ Final(q) \/ FinalFlushed(q)
Close == \/ \E name \in ToSet(Resources) : CloseResource(name)
         \/ FlushOnClose \/ FlushedOnClose

WorkersNext ==
    \/ \E q \in Queues : \/ \E i \in Items : RecordItem(q, i)
                         \/ QueueStep(q) \/ StopWorker(q)
    \/ Exit \/ Stopped \/ Cancelled \/ Close

WorkersSpec == WorkersInit /\ [][WorkersNext]_workersVars

(* The event loop runs what can run; a repository call ends.               *)
WorkersFairness ==
    /\ \A q \in Queues : WF_workersVars(QueueStep(q)) /\ WF_workersVars(StopWorker(q))
    /\ WF_workersVars(Stopped) /\ WF_workersVars(Close)

FairWorkersSpec == WorkersSpec /\ WorkersFairness

(***************************************************************************)
(* Properties.                                                             *)
(***************************************************************************)
(* What was recorded and neither written nor counted as dropped is in the  *)
(* queue or in the flush in progress: a batch that failed while the queue  *)
(* kept filling, or a key enqueued while it was being rebuilt, is not      *)
(* forgotten, and none outgrows the limit of the queue                     *)
(* (telemetry/buffer.py flush, profile_rebuild.py enqueue).                *)
NothingForgotten ==
    \A q \in Queues : /\ owed[q] \subseteq ToSet(waiting[q]) \cup ToSet(inHand[q])
                       /\ Len(waiting[q]) <= QueueLimit

(* Nothing is written or read after the engine is disposed: the            *)
(* coordinator disposes it only when every worker has ended (app.py,       *)
(* "HTTP must drain before the engine it may still use. Usage flush also   *)
(* needs the engine", container.py).                                       *)
EngineOutlivesWorkers ==
    "engine" \in closed =>
        \A q \in Queues : pc[q] \notin {"start", "flush", "purge", "last", "close"}

(* A profile key that waits is taken, though this worker has no interval   *)
(* to wake it: its event is set whenever something was queued after it     *)
(* last looked (profile_rebuild.py, _run).                                 *)
KeysTaken ==
    \A i \in Items :
        ("profiles" \in Queues /\ i \in ToSet(waiting["profiles"]))
            ~> (phase = "exited" \/ i \notin ToSet(waiting["profiles"]))

(* Shutdown ends, with PostgreSQL unavailable at any moment: "an orderly   *)
(* shutdown without looping forever when PostgreSQL is unavailable"        *)
(* (telemetry/buffer.py, and the same loop in the other two).              *)
ShutdownEnds == phase = "stopping" ~> phase = "exited"

(* "mounted/body exceptions remain available while all cleanup is          *)
(* attempted" (app.py): when the lifespan has exited, shutdown_container   *)
(* has come to every resource.                                             *)
AllCleanupAttempted == phase = "exited" => tried = ToSet(Resources)
=============================================================================
