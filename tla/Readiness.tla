----------------------------- MODULE Readiness ------------------------------
(***************************************************************************)
(* One readiness request (src/recallum/app.py): _probe_dependencies runs a *)
(* bounded probe of each dependency beside the other, under a bound on     *)
(* both.  A dependency may answer at any time or never; a timer fires at   *)
(* its time or later; the request itself may be cancelled.                 *)
(***************************************************************************)
EXTENDS Naturals

CONSTANTS
    Dependencies,
    ProbeTimeout,      \* per_dependency_timeout_seconds
    AggregateTimeout,  \* aggregate_timeout_seconds
    MaxElapsed         \* bound: time

ASSUME TimeoutsAssumption == {ProbeTimeout, AggregateTimeout, MaxElapsed} \subseteq Nat

VARIABLES
    probe,    \* dependency -> "running", "up", "down", "cancelling", "cancelled"
    asking,   \* "probing", "answering" or "abandoned" (cleaning up), "answered", "gone"
    report,   \* dependency -> whether it is reported healthy
    elapsed

readinessVars == <<probe, asking, report, elapsed>>

ReadinessInit ==
    /\ probe = [d \in Dependencies |-> "running"]
    /\ asking = "probing"
    /\ report = [d \in Dependencies |-> FALSE]
    /\ elapsed = 0

Live == {d \in Dependencies : probe[d] \in {"running", "cancelling"}}

(* The probe returns, fails, or wait_for ends it.                          *)
ProbeEnds(d) ==
    /\ probe[d] = "running"
    /\ probe' = [probe EXCEPT ![d] = "up"] \/ probe' = [probe EXCEPT ![d] = "down"]
    /\ UNCHANGED <<asking, report, elapsed>>
ProbeTimesOut(d) ==
    /\ probe[d] = "running" /\ elapsed >= ProbeTimeout
    /\ probe' = [probe EXCEPT ![d] = "down"]
    /\ UNCHANGED <<asking, report, elapsed>>
ProbeCancelled(d) ==
    /\ probe[d] = "cancelling"
    /\ probe' = [probe EXCEPT ![d] = "cancelled"]
    /\ UNCHANGED <<asking, report, elapsed>>

(* Mutant of Completed: when the time is up nothing counts. *)
AllOrNothing(d) == Live = {} /\ \A o \in Dependencies : probe[o] \in {"up", "down"}
Completed(d) == probe[d] \in {"up", "down"}
Reports == [d \in Dependencies |-> Completed(d) /\ probe[d] = "up"]

CancelLive == [d \in Dependencies |-> IF probe[d] = "running" THEN "cancelling" ELSE probe[d]]

(* gather returns, or wait_for cancels what it waits for and lets it end.  *)
Gathered ==
    /\ asking = "probing" /\ Live = {}
    /\ report' = Reports /\ asking' = "answering"
    /\ UNCHANGED <<probe, elapsed>>
AggregateTimesOut ==
    /\ asking = "probing" /\ elapsed >= AggregateTimeout
    /\ probe' = CancelLive
    /\ UNCHANGED <<asking, report, elapsed>>
Abandon ==
    /\ asking = "probing"
    /\ asking' = "abandoned" /\ probe' = CancelLive
    /\ UNCHANGED <<report, elapsed>>

(* Mutant of Settled: the cleanup does not wait for what it cancelled. *)
NotAwaited == TRUE
Settled == Live = {}
CleanUp ==
    /\ asking \in {"answering", "abandoned"} /\ Settled
    /\ asking' = IF asking = "answering" THEN "answered" ELSE "gone"
    /\ UNCHANGED <<probe, report, elapsed>>

Elapse ==
    /\ asking = "probing" /\ elapsed < MaxElapsed
    /\ elapsed' = elapsed + 1 /\ UNCHANGED <<probe, asking, report>>

ReadinessNext ==
    \/ \E d \in Dependencies : ProbeEnds(d) \/ ProbeTimesOut(d) \/ ProbeCancelled(d)
    \/ Gathered \/ AggregateTimesOut \/ Abandon \/ CleanUp \/ Elapse
ReadinessSpec == ReadinessInit /\ [][ReadinessNext]_readinessVars

(***************************************************************************)
(* Properties.                                                             *)
(***************************************************************************)
(* A dependency is reported healthy exactly when its own probe ended and   *)
(* said so, however the other one hangs ("Preserve a completed healthy     *)
(* result when the other dependency exhausts the aggregate budget",        *)
(* _probe_dependencies).                                                   *)
HealthyReported ==
    asking = "answered" => \A d \in Dependencies : report[d] <=> probe[d] = "up"

(* No probe outlives its request, answered or cancelled.                   *)
NoProbeOutlives == asking \in {"answered", "gone"} => Live = {}

(* A readiness request tells what its probes found and leaves none behind. *)
ProbesTold == HealthyReported /\ NoProbeOutlives
=============================================================================
