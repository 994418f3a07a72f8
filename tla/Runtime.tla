------------------------------ MODULE Runtime -------------------------------
(***************************************************************************)
(* The process around the services -- UsageBuffer in the detail of its     *)
(* counts; Workers, the three loops and their shutdown; the Boundary of a  *)
(* request; the Readiness probes; tool Activity -- beside each other.      *)
(* They share no state as they are modelled, so a behaviour moves one of   *)
(* them, chosen at its start: what each does in any interleaving, at the   *)
(* cost of the sum of their states.                                        *)
(***************************************************************************)
EXTENDS UsageBuffer, Workers, Boundary, Readiness, Activity

VARIABLE part  \* the component that moves

runtimeVars == <<part, vars, workersVars, boundaryVars, readinessVars, activityVars>>

Parts == {"usage", "workers", "boundary", "readiness", "activity"}

RuntimeInit ==
    /\ part \in Parts
    /\ Init /\ WorkersInit /\ BoundaryInit /\ ReadinessInit /\ ActivityInit

(* Moves(p): part p moves, and of the others nothing does.                 *)
Moves(p) ==
    /\ part = p /\ UNCHANGED part
    /\ p # "usage" => UNCHANGED vars
    /\ p # "workers" => UNCHANGED workersVars
    /\ p # "boundary" => UNCHANGED boundaryVars
    /\ p # "readiness" => UNCHANGED readinessVars
    /\ p # "activity" => UNCHANGED activityVars

RuntimeNext ==
    \/ Moves("usage") /\ Next
    \/ Moves("workers") /\ WorkersNext
    \/ Moves("boundary") /\ BoundaryNext
    \/ Moves("readiness") /\ ReadinessNext
    \/ Moves("activity") /\ ActivityNext

(* The fairness of each component, on the steps of its own behaviours. *)
UsageFairness ==
    /\ \A r \in Readers : WF_runtimeVars(Moves("usage") /\ ReaderStep(r))
    /\ \A w \in Workers : WF_runtimeVars(Moves("usage") /\ WorkerStep(w))
    /\ \A t \in Tasks : WF_runtimeVars(Moves("usage") /\ Flush(t))
QueueFairness ==
    /\ \A q \in Queues : /\ WF_runtimeVars(Moves("workers") /\ QueueStep(q))
                         /\ WF_runtimeVars(Moves("workers") /\ StopWorker(q))
    /\ WF_runtimeVars(Moves("workers") /\ Stopped) /\ WF_runtimeVars(Moves("workers") /\ Close)
ActivityFairness == WF_runtimeVars(Moves("activity") /\ Store)

RuntimeSpec ==
    /\ RuntimeInit /\ [][RuntimeNext]_runtimeVars
    /\ UsageFairness /\ QueueFairness /\ ActivityFairness

(* Nobody waits for ever and nothing recorded stays behind: not a read     *)
(* that flushes its usage, nor a stop, a profile key, an event or the      *)
(* shutdown (usage.py, profile_rebuild.py, buffer.py, app.py).             *)
RuntimeMovesOn ==
    OnlyTheStrandedWait /\ StopDrains /\ KeysTaken /\ ShutdownEnds /\ EventsGetStored
=============================================================================
