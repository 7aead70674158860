------------------------- MODULE DetectionPipeline -------------------------
(***************************************************************************)
(* The enrichment worker and the decision runner on the soc-ai-* indices   *)
(* they share: what the worker creates is what the runner reads, in the    *)
(* order of the time at which it was scored.                               *)
(***************************************************************************)
EXTENDS Integers, Sequences, FiniteSets

CONSTANTS
  Vector, Invalid, Exported, Model, IsolationForest, PullLimit, PageSize, DrainLimit,
  DayLength, MaxTime, MaxModelChanges, MaxRequeues, MaxFaults,
  About, Alert, Intel, Doc, AddressWorld, Key, Limit

VARIABLES
  vectors, serving, configured, late, missed, jobs, cursor, pull, batch, stage, indexed,
  now, changes, requeues, faults,                            \* the worker's
  telemetry, mode, position, outcomes, hits, at, verdict, decisions, commands,
  overtaken                                                  \* the runner's

\* The documents of soc-ai-* as the runner's search returns them.
Anomalies == {[id |-> d.vector, at |-> d.event.at] : d \in indexed}

Worker == INSTANCE Enrichment

Runner == INSTANCE DecisionRunner
            WITH Anomaly <- Vector, anomalies <- Anomalies, stage <- at,
                 TickLength <- 1, MaxTicks <- MaxTime

runnerVars == <<telemetry, mode, position, outcomes, hits, at, verdict, decisions, commands>>
workerVars == <<vectors, serving, configured, late, missed, jobs, cursor, pull, batch,
                stage, indexed, changes, requeues>>
vars == <<workerVars, runnerVars, now, faults, overtaken>>

Init ==
  /\ Worker!Init
  /\ Runner!InitRunner
  /\ telemetry = {}
  /\ overtaken = {}

\* A step of the worker; what it indexes behind the runner is remembered.
WorkerStep ==
  /\ Worker!Next
  /\ overtaken' = overtaken \cup
       {d.id : d \in {x \in Anomalies' \ Anomalies : ~Runner!After(x, position)}}
  /\ UNCHANGED runnerVars

RunnerStep ==
  /\ UNCHANGED workerVars
  /\ Runner!Work \/ Runner!Faulty

Next == WorkerStep \/ RunnerStep

Spec == Init /\ [][Next]_vars
-----------------------------------------------------------------------------
\* An anomaly that was scored before the time of the runner's cursor has an
\* outcome in the runner's ledger, although its delivery to the index may have
\* been retried (drain, run_once): "the decision runner and workers retry and
\* never skip".
NeverSkipped ==
  \A d \in Anomalies : d.at < position[1] => outcomes[d.id] # "none"
=============================================================================
