---------------------------- MODULE UsageBuffer -----------------------------
(***************************************************************************)
(* Deferred usage counting (src/recallum/memory/usage.py): serving a       *)
(* memory adds to a bounded in-memory buffer; a worker applies it in       *)
(* batches, and a read that depends on recent usage first applies its own  *)
(* user's share with flush_user (service.py, _flush_pending_usage).        *)
(*                                                                         *)
(* The buffer's lock is never held across an await, so a locked section is *)
(* one step; a flush is: take the batch, one repository call per user,     *)
(* finish.  A record call with several ids is several Record steps.  The   *)
(* recall and context deltas of a key are one count, and served_at is not  *)
(* kept.  The insertion order of the pending keys is abstracted: what a    *)
(* failed flush drops of its own keys is any choice of the right size.     *)
(***************************************************************************)
EXTENDS Naturals, FiniteSets, FiniteSetsExt, Functions

CONSTANTS
    Users, Memories,
    Readers,      \* requests that may call flush_user
    Workers,      \* {} or {the lifecycle-owned task}
    BufferLimit,  \* distinct pending keys
    BatchSize,    \* usage.batch_size
    Cancels,      \* a request may be cancelled while it flushes
    MaxServes,    \* bound: serves recorded
    MaxFailures   \* bound: repository calls that fail

ASSUME TasksAssumption ==
    /\ IsFiniteSet(Readers) /\ IsFiniteSet(Workers)
    /\ Readers \cap Workers = {} /\ Cardinality(Workers) <= 1
ASSUME LimitsAssumption ==
    /\ BufferLimit \in Nat \ {0} /\ BatchSize \in Nat \ {0}
    /\ MaxServes \in Nat /\ MaxFailures \in Nat /\ Cancels \in BOOLEAN

Keys  == Users \X Memories
Tasks == Readers \cup Workers
Of(u) == {k \in Keys : k[1] = u}
Nothing == [k \in Keys |-> 0]

VARIABLES
    pending,   \* key -> count waiting in the buffer (0: no entry)
    inflight,  \* users with an apply in flight
    task,      \* reader or worker -> its step and local state
    dropped,   \* key -> serves dropped (the code's counter is their sum)
    closing,   \* stop was called
    failures,  \* repository calls that failed (bounded)
    applied,   \* memories table: key -> count applied
    served,    \* history: key -> serves recorded
    repeated,  \* history: key -> count applied by calls that then reported failure
    lost,      \* history: key -> serves in a flush whose request was cancelled
    stranded   \* history: users such a flush left in flight

cancellations == <<lost, stranded>>
vars == <<pending, inflight, task, dropped, closing, failures, applied, served, repeated,
          cancellations>>
ledger == <<dropped, closing, failures, applied, served, repeated, cancellations>>

Entries(f)  == {k \in Keys : f[k] > 0}
Count(f)    == MapThenSumSet(LAMBDA k : f[k], Keys)
Plus(f, g)  == [k \in Keys |-> f[k] + g[k]]
Only(f, S)  == [k \in Keys |-> IF k \in S THEN f[k] ELSE 0]

Go(t, state) == task' = [task EXCEPT ![t] = state]
On(t, where) == task[t].pc = where
Batch(t) == IF task[t].pc \in {"apply", "finish"} THEN task[t].batch ELSE Nothing

Init ==
    /\ pending = Nothing /\ inflight = {} /\ dropped = Nothing /\ closing = FALSE
    /\ task = [t \in Tasks |-> [pc |-> "idle"]]
    /\ failures = 0 /\ applied = Nothing /\ served = Nothing /\ repeated = Nothing
    /\ lost = Nothing /\ stranded = {}

(***************************************************************************)
(* record_recall and record_context: no repository call; a new key beyond  *)
(* the limit is dropped and counted.                                       *)
(***************************************************************************)
Record(k) ==
    /\ Count(served) < MaxServes
    /\ served' = [served EXCEPT ![k] = @ + 1]
    /\ IF pending[k] = 0 /\ Cardinality(Entries(pending)) >= BufferLimit
       THEN dropped' = [dropped EXCEPT ![k] = @ + 1] /\ UNCHANGED pending
       ELSE pending' = [pending EXCEPT ![k] = @ + 1] /\ UNCHANGED dropped
    /\ UNCHANGED <<inflight, task, closing, failures, applied, repeated, cancellations>>

(***************************************************************************)
(* Taking a batch: flush takes everything, whoever is in flight;           *)
(* flush_user waits for its user and takes that user's keys.               *)
(***************************************************************************)
Take(S, users) == /\ pending' = Only(pending, Keys \ S)
                  /\ inflight' = inflight \cup users

FlushUser(r, u) ==
    /\ On(r, "idle")
    /\ Go(r, [pc |-> "wait", user |-> u, due |-> Only(served, Of(u))])
    /\ UNCHANGED <<pending, inflight, ledger>>

(* flush_user looks again whenever a flush finishes. *)
Ready(r) == task[r].user \notin inflight

FlushUserTake(r) ==
    LET u == task[r].user
    IN /\ On(r, "wait") /\ Ready(r)
       /\ Entries(pending) \cap Of(u) # {}
       /\ Take(Of(u), {u})
       /\ Go(r, [pc |-> "apply", batch |-> Only(pending, Of(u)), users |-> {u},
                 left |-> {u}, due |-> task[r].due])
       /\ UNCHANGED <<ledger>>

FlushUserEmpty(r) ==
    LET u == task[r].user
    IN /\ On(r, "wait") /\ Ready(r)
       /\ Entries(pending) \cap Of(u) = {}
       /\ Go(r, [pc |-> "flushed", due |-> task[r].due])
       /\ UNCHANGED <<pending, inflight, ledger>>

(* The read goes on; it may serve memories with Record. *)
Continue(r) ==
    /\ On(r, "flushed")
    /\ Go(r, [pc |-> "idle"])
    /\ UNCHANGED <<pending, inflight, ledger>>

(***************************************************************************)
(* Applying: one repository call per user of the batch.  The first failure *)
(* stops the batch; a call may also fail after it committed.               *)
(***************************************************************************)
(* What remains to apply; the mutant would requeue what was applied. *)
RemainingAll(b, u) == b
Remaining(b, u)    == Only(b, Keys \ Of(u))

ApplyUser(t, u) ==
    /\ On(t, "apply") /\ u \in task[t].left
    /\ applied' = Plus(applied, Only(task[t].batch, Of(u)))
    /\ Go(t, [task[t] EXCEPT !.batch = Remaining(@, u), !.left = @ \ {u}])
    /\ UNCHANGED <<pending, inflight, dropped, closing, failures, served, repeated, cancellations>>

Applied(t) ==
    /\ On(t, "apply") /\ task[t].left = {}
    /\ Go(t, [task[t] EXCEPT !.pc = "finish"])
    /\ UNCHANGED <<pending, inflight, ledger>>

ApplyFails(t, u, committed) ==
    /\ On(t, "apply") /\ u \in task[t].left
    /\ failures < MaxFailures
    /\ failures' = failures + 1
    /\ LET done == IF committed THEN Only(task[t].batch, Of(u)) ELSE Nothing
       IN applied' = Plus(applied, done) /\ repeated' = Plus(repeated, done)
    /\ Go(t, [task[t] EXCEPT !.pc = "finish"])
    /\ UNCHANGED <<pending, inflight, dropped, closing, served, cancellations>>

(* The request is cancelled in the repository call: CancelledError is no   *)
(* Exception, so neither the requeue nor the finish runs.                  *)
Cancel(r) ==
    /\ Cancels
    /\ \/ On(r, "wait") /\ UNCHANGED cancellations
       \/ /\ On(r, "apply")
          /\ lost' = Plus(lost, task[r].batch)
          /\ stranded' = stranded \cup task[r].users
    /\ Go(r, [pc |-> "idle"])
    /\ UNCHANGED <<pending, inflight, dropped, closing, failures, applied, served, repeated>>

(***************************************************************************)
(* Finishing: what was not applied goes back, the oldest dropped beyond    *)
(* the limit; the users leave inflight and the waiting flushes look again. *)
(***************************************************************************)
(* A count requeued is added to the newer one; the mutant replaces it. *)
NewerOnly(b) == [k \in Keys |-> IF pending[k] > 0 THEN pending[k] ELSE b[k]]
Requeued(b)  == Plus(pending, b)

(* The mutant leaves the users of a failed flush in flight. *)
ReleasedOnSuccess(t) == IF task[t].left = {} THEN inflight \ task[t].users ELSE inflight
Released(t)          == inflight \ task[t].users

(* Mutant of Overflow: what is requeued may exceed the limit. *)
NoOverflow(merged) == 0
Overflow(merged) ==
    LET n == Cardinality(Entries(merged))
    IN IF n > BufferLimit THEN n - BufferLimit ELSE 0

Finish(t, succeeds, next) ==
    LET b == task[t].batch
        merged == Requeued(b)
    IN /\ On(t, "finish")
       /\ succeeds = (task[t].left = {})
       /\ \E D \in SUBSET (Entries(b) \ Entries(pending)) :
             /\ Cardinality(D) = Overflow(merged)
             /\ pending' = Only(merged, Keys \ D)
             /\ dropped' = Plus(dropped, Only(merged, D))
       /\ inflight' = Released(t)
       /\ Go(t, next)
       /\ UNCHANGED <<closing, failures, applied, served, repeated, cancellations>>

FlushUserFinish(r) ==
    \/ On(r, "finish") /\ Finish(r, TRUE, [pc |-> "flushed", due |-> task[r].due])
    \/ Finish(r, FALSE, [pc |-> "idle"])

(***************************************************************************)
(* The worker: woken by a full buffer or by its interval (so at any time), *)
(* it flushes while batches are full; once closing, until nothing is left  *)
(* or a flush fails.                                                       *)
(***************************************************************************)
WorkerWakes(w) ==
    /\ On(w, "idle")
    /\ Go(w, [pc |-> "drain"])
    /\ UNCHANGED <<pending, inflight, ledger>>

(* Mutant of AfterDrain: closing is not looked at again. *)
BackToSleep == [pc |-> "idle"]
AfterDrain == IF closing THEN [pc |-> "final"] ELSE [pc |-> "idle"]

WorkerTake(w) ==
    /\ On(w, "drain") \/ On(w, "final")
    /\ Entries(pending) # {}
    /\ LET users == {k[1] : k \in Entries(pending)}
       IN /\ Take(Keys, users)
          /\ Go(w, [pc |-> "apply", batch |-> pending, users |-> users,
                    left |-> users, phase |-> task[w].pc])
    /\ UNCHANGED <<ledger>>

WorkerEmpty(w) ==
    /\ Entries(pending) = {}
    /\ \/ On(w, "drain") /\ Go(w, AfterDrain)
       \/ On(w, "final") /\ Go(w, [pc |-> "stopped"])
    /\ UNCHANGED <<pending, inflight, ledger>>

WorkerFinish(w) ==
    \/ /\ On(w, "finish") /\ task[w].phase = "drain"
       /\ \/ Finish(w, TRUE, IF Cardinality(Entries(pending)) < BatchSize
                             THEN AfterDrain ELSE [pc |-> "drain"])
          \/ Finish(w, FALSE, AfterDrain)
    \/ /\ On(w, "finish") /\ task[w].phase = "final"
       /\ \/ Finish(w, TRUE, [pc |-> "final"])
          \/ Finish(w, FALSE, [pc |-> "stopped"])

Stop ==
    /\ Workers # {} /\ ~closing
    /\ closing' = TRUE
    /\ UNCHANGED <<pending, inflight, task, dropped, failures, applied, served, repeated,
                   cancellations>>

Flush(t) == \/ \E u \in Users : \/ ApplyUser(t, u)
                                \/ \E committed \in BOOLEAN : ApplyFails(t, u, committed)
            \/ Applied(t)

ReaderStep(r) == FlushUserTake(r) \/ FlushUserEmpty(r) \/ Continue(r) \/ FlushUserFinish(r)
WorkerStep(w) == WorkerWakes(w) \/ WorkerTake(w) \/ WorkerEmpty(w) \/ WorkerFinish(w)

Next ==
    \/ \E k \in Keys : Record(k)
    \/ \E r \in Readers : \/ \E u \in Users : FlushUser(r, u)
                          \/ ReaderStep(r) \/ Cancel(r)
    \/ \E w \in Workers : WorkerStep(w)
    \/ \E t \in Tasks : Flush(t)
    \/ Stop

Spec == Init /\ [][Next]_vars

(* The event loop runs every task that can run; a repository call ends.    *)
Fairness ==
    /\ \A r \in Readers : WF_vars(ReaderStep(r))
    /\ \A w \in Workers : WF_vars(WorkerStep(w))
    /\ \A t \in Tasks : WF_vars(Flush(t))

FairSpec == Spec /\ Fairness

(***************************************************************************)
(* Properties.                                                             *)
(***************************************************************************)
(* Every serve recorded is waiting, in flight, applied, counted as dropped *)
(* or was in a flush whose request was cancelled: failed, overlapping and  *)
(* final flushes lose none silently and count none twice ("su perdida MUST *)
(* ser observable", openspec agent-memory-retrieval), while the buffer     *)
(* never has more keys than its limit ("Lo pendiente MUST estar acotado"). *)
InBatches(k) == SumFunctionOnSet([t \in Tasks |-> Batch(t)[k]], Tasks)
LossObservable ==
    /\ \A k \in Keys :
          served[k] + repeated[k]
              = pending[k] + InBatches(k) + applied[k] + dropped[k] + lost[k]
    /\ Cardinality(Entries(pending)) <= BufferLimit

(* When flush_user reports success, what its user had been served before   *)
(* the call is applied: "MUST ser visible para la proxima asamblea del     *)
(* slice dynamic de ese usuario" (openspec agent-memory-retrieval).        *)
FlushUserComplete ==
    \A r \in Readers : On(r, "flushed") =>
        \A k \in Keys : task[r].due[k] <= applied[k] + dropped[k]

(* A read that flushes its usage goes on: no flush_user waits for ever     *)
(* ("usage flush failed; the read continues", service.py).                 *)
ReadContinues == \A r \in Readers : On(r, "wait") ~> ~On(r, "wait")

(* The same, short of the users whom a cancelled flush left in flight: no  *)
(* failure, overlap or stop makes a flush_user wait for ever.              *)
OnlyTheStrandedWait ==
    \A r \in Readers : On(r, "wait") ~> (~On(r, "wait") \/ task[r].user \in stranded)

(* An orderly stop ends the worker, whatever fails and whoever is          *)
(* cancelled: its final drain never waits for a user in flight ("MUST      *)
(* aplicarse en un cierre ordenado", openspec agent-memory-retrieval).     *)
StopDrains == \A w \in Workers : closing ~> On(w, "stopped")
=============================================================================
