------------------------- MODULE EndpointIsolation -------------------------
(***************************************************************************)
(* Isolating one endpoint through Wazuh: the adapter and the manager       *)
(* client of response/adapters/wazuh.py and response/transports/           *)
(* wazuh_api.py, and the script that the agent runs,                       *)
(* docker/wazuh/active-response/cxyz_endpoint_isolation.py.                *)
(*                                                                         *)
(* The manager accepts a request and answers; the agent runs the accepted  *)
(* requests later, in their order; what its scripts did is learnt from     *)
(* marker files, which file integrity monitoring (FIM) reports later       *)
(* still.  The orchestrator calls for one operation of an endpoint at a    *)
(* time and applies each once.                                             *)
(***************************************************************************)
EXTENDS Naturals, Sequences

CONSTANTS
  Op,          \* operations, by idempotency key
  NoOp,        \* no operation
  MaxFaults,   \* bound: crashes, lost and failing requests and scripts
  MaxLate,     \* bound: requests carried out after the client gave them up
  MaxReboots,  \* bound: restarts of the endpoint
  MaxQueue     \* bound: accepted requests that the agent has not run

ASSUME IsolationAssumption ==
  /\ NoOp \notin Op
  /\ MaxFaults \in Nat /\ MaxLate \in Nat /\ MaxReboots \in Nat /\ MaxQueue \in Nat

VARIABLES
  table,      \* the operation whose nftables table is installed, or NoOp
  marker,     \* operations with a marker file on the endpoint
  reported,   \* operations whose marker the FIM inventory lists
  inbox,      \* requests the manager has accepted and the agent not yet run
  script,     \* the script the agent is running
  wire,       \* requests the client gave up and the manager will still get
  job,        \* the adapter call in progress
  phase,      \* what the caller knows of each operation
  proven,     \* history: operations that were once verified
  amiss,      \* history: a verification succeeded with no isolation in force
  disturbed,  \* history: a late request arrived or the endpoint restarted
  faults, late, reboots

endpoint == <<table, marker, script>>
manager == <<reported, inbox, wire>>
history == <<proven, amiss, disturbed>>
bounds == <<faults, late, reboots>>
vars == <<endpoint, manager, job, phase, history, bounds>>

Request == [run: {"isolate", "restore"}, op: Op]
NoJob == [call |-> "none", op |-> NoOp, pc |-> "idle", ok |-> FALSE]
NoScript == [run |-> "none", op |-> NoOp, step |-> "idle"]

Init ==
  /\ table = NoOp /\ marker = {} /\ script = NoScript
  /\ reported = {} /\ inbox = <<>> /\ wire = {}
  /\ job = NoJob
  /\ phase = [k \in Op |-> "new"]
  /\ proven = {} /\ amiss = FALSE /\ disturbed = FALSE
  /\ faults = 0 /\ late = 0 /\ reboots = 0

Fault == faults < MaxFaults /\ faults' = faults + 1 /\ UNCHANGED <<late, reboots>>
Returns(ok) == job' = [job EXCEPT !.pc = "done", !.ok = ok]
-----------------------------------------------------------------------------
(* The adapter and the manager client.                                     *)

Start(k, call, pc) ==
  /\ job = NoJob /\ Len(inbox) < MaxQueue
  /\ job' = [call |-> call, op |-> k, pc |-> pc, ok |-> FALSE]
  /\ UNCHANGED <<endpoint, manager, history, bounds>>

\* The orchestrator's target exclusion and its single apply.
StartApply(k) ==
  /\ phase[k] = "new" /\ \A o \in Op \ {k} : phase[o] \in {"new", "ended"}
  /\ Start(k, "apply", "trigger")
  /\ phase' = [phase EXCEPT ![k] = "unknown"]

StartVerify(k) == phase[k] = "applied" /\ Start(k, "verify", "await") /\ UNCHANGED phase

StartRevert(k) ==
  /\ phase[k] \in {"unknown", "applied", "verified"}
  /\ Start(k, "revert", "trigger")
  /\ phase' = [phase EXCEPT ![k] = "unknown"]

Wanted == [run |-> IF job.call = "apply" THEN "isolate" ELSE "restore", op |-> job.op]

\* _trigger: the manager accepts the request; a revert then awaits its effect.
Trigger ==
  /\ job.pc = "trigger"
  /\ inbox' = Append(inbox, Wanted)
  /\ IF job.call = "apply" THEN Returns(TRUE) ELSE job' = [job EXCEPT !.pc = "await"]
  /\ UNCHANGED <<endpoint, reported, wire, phase, history, bounds>>

\* The request is refused (no active agent, no token), or its answer is lost,
\* or the client gives it up while it is on its way.
TriggerRaises ==
  /\ job.pc = "trigger"
  /\ Returns(FALSE)
  /\ \/ Fault /\ UNCHANGED <<inbox, wire>>
     \/ Fault /\ inbox' = Append(inbox, Wanted) /\ UNCHANGED wire
     \/ /\ late < MaxLate /\ late' = late + 1
        /\ wire' = wire \cup {Wanted}
        /\ UNCHANGED <<inbox, faults, reboots>>
  /\ UNCHANGED <<endpoint, reported, phase, history>>

\* The FIM answer a call waits for: the marker for verify, none for revert.
Sought == (job.op \in reported) <=> (job.call = "verify")

\* _await finds what it waits for.
AwaitSucceeds ==
  /\ job.pc = "await" /\ Sought
  /\ Returns(TRUE)
  /\ proven' = IF job.call = "verify" THEN proven \cup {job.op} ELSE proven
  /\ amiss' = (amiss \/ (job.call = "verify" /\ table # job.op))
  /\ UNCHANGED <<endpoint, manager, phase, disturbed, bounds>>

\* The deadline passes, or a read fails.
AwaitFails ==
  /\ job.pc = "await"
  /\ \/ ~Sought /\ UNCHANGED bounds
     \/ Fault
  /\ Returns(FALSE)
  /\ UNCHANGED <<endpoint, manager, phase, history>>

\* The outcome, as the caller records it.
Outcome ==
  IF ~job.ok THEN "unknown"
  ELSE CASE job.call = "apply" -> "applied" [] job.call = "verify" -> "verified" [] OTHER -> "ended"

Finish ==
  /\ job.pc = "done"
  /\ phase' = [phase EXCEPT ![job.op] = Outcome]
  /\ job' = NoJob
  /\ UNCHANGED <<endpoint, manager, history, bounds>>

\* The orchestrator dies during a call or before it records the outcome.
Crash ==
  /\ job # NoJob
  /\ Fault
  /\ phase' = [phase EXCEPT ![job.op] = IF job.call = "verify" THEN @ ELSE "unknown"]
  /\ job' = NoJob
  /\ UNCHANGED <<endpoint, manager, history>>
-----------------------------------------------------------------------------
(* The manager and the agent, as the client's code assumes them.           *)

\* A request the client gave up reaches the manager after all.
Arrive ==
  /\ \E q \in wire : wire' = wire \ {q} /\ inbox' = Append(inbox, q)
  /\ disturbed' = TRUE
  /\ UNCHANGED <<endpoint, reported, job, phase, proven, amiss, bounds>>

\* An accepted request never reaches the agent.
Lose ==
  /\ inbox # <<>> /\ Fault
  /\ inbox' = Tail(inbox)
  /\ UNCHANGED <<endpoint, reported, wire, job, phase, history>>

\* The agent starts the script of the oldest request.
RunScript ==
  /\ script = NoScript /\ inbox # <<>>
  /\ script' = [run |-> Head(inbox).run, op |-> Head(inbox).op, step |-> "nft"]
  /\ inbox' = Tail(inbox)
  /\ UNCHANGED <<table, marker, reported, wire, job, phase, history, bounds>>

\* FIM brings its inventory up to date for one marker.
FimReports(k) ==
  /\ ~(k \in reported <=> k \in marker)
  /\ reported' = IF k \in marker THEN reported \cup {k} ELSE reported \ {k}
  /\ UNCHANGED <<endpoint, inbox, wire, job, phase, history, bounds>>

\* A restart of the endpoint: rulesets are not persistent, files are.
Reboot ==
  /\ reboots < MaxReboots /\ reboots' = reboots + 1
  /\ table' = NoOp /\ script' = NoScript
  /\ disturbed' = TRUE
  /\ UNCHANGED <<marker, manager, job, phase, proven, amiss, faults, late>>
-----------------------------------------------------------------------------
(* The script on the endpoint.                                             *)

AtStep(run, step) == script.run = run /\ script.step = step
NextStep(step) == script' = [script EXCEPT !.step = step]

\* Mutant: a ruleset that nft refuses is taken for an active one.
IsolateUnchecked ==
  /\ AtStep("isolate", "nft")
  /\ table' \in {table, script.op}
  /\ NextStep("marker")
  /\ UNCHANGED <<marker, manager, job, phase, history, bounds>>

\* isolate: one nft transaction replaces whatever table there is.
IsolateRules ==
  /\ AtStep("isolate", "nft")
  /\ table' = script.op
  /\ NextStep("marker")
  /\ UNCHANGED <<marker, manager, job, phase, history, bounds>>

IsolateMarker ==
  /\ AtStep("isolate", "marker")
  /\ marker' = marker \cup {script.op}
  /\ script' = NoScript
  /\ UNCHANGED <<table, manager, job, phase, history, bounds>>

\* Mutant: any failure of nft is taken for the absence of the table.
RestoreUnchecked ==
  /\ AtStep("restore", "nft")
  /\ table' \in {table, NoOp}
  /\ NextStep("marker")
  /\ UNCHANGED <<marker, manager, job, phase, history, bounds>>

\* restore: delete the table, whoever installed it; none is as good.
RestoreRules ==
  /\ AtStep("restore", "nft")
  /\ table' = NoOp
  /\ NextStep("marker")
  /\ UNCHANGED <<marker, manager, job, phase, history, bounds>>

RestoreMarker ==
  /\ AtStep("restore", "marker")
  /\ marker' = marker \ {script.op}
  /\ script' = NoScript
  /\ UNCHANGED <<table, manager, job, phase, history, bounds>>

\* nft refuses, or the file system does: the script ends where it stands.
ScriptFails ==
  /\ script # NoScript /\ Fault
  /\ script' = NoScript
  /\ UNCHANGED <<table, marker, manager, job, phase, history>>

Adapter == Trigger \/ TriggerRaises \/ AwaitSucceeds \/ AwaitFails \/ Finish \/ Crash
Agent == RunScript \/ IsolateRules \/ IsolateMarker \/ RestoreRules \/ RestoreMarker \/ ScriptFails

Next ==
  \/ \E k \in Op : StartApply(k) \/ StartVerify(k) \/ StartRevert(k) \/ FimReports(k)
  \/ Adapter \/ Agent \/ Arrive \/ Lose \/ Reboot

Spec == Init /\ [][Next]_vars
-----------------------------------------------------------------------------
(* Properties.                                                             *)

\* Every variable keeps to its values.
TypeOK ==
  /\ table \in Op \cup {NoOp} /\ marker \subseteq Op
  /\ script \in [run: {"isolate", "restore"}, op: Op, step: {"nft", "marker"}] \cup {NoScript}
  /\ reported \subseteq Op /\ inbox \in Seq(Request) /\ wire \subseteq Request
  /\ job \in [call: {"apply", "verify", "revert"}, op: Op, pc: {"trigger", "await", "done"},
              ok: BOOLEAN] \cup {NoJob}
  /\ phase \in [Op -> {"new", "unknown", "applied", "verified", "ended"}]
  /\ proven \subseteq Op /\ amiss \in BOOLEAN /\ disturbed \in BOOLEAN
  /\ faults \in Nat /\ late \in Nat /\ reboots \in Nat

\* A verified isolation that is reported reverted is lifted, whatever was lost,
\* late or restarted on the way: the marker goes only after the ruleset.
VerifiedIsolationLifted == \A k \in proven : phase[k] = "ended" => table # k

\* Unless a given-up request arrived late or the endpoint restarted, a
\* verification succeeds only over the operation's own isolation: reports that
\* lag, failing scripts and requests left over from earlier operations on the
\* endpoint do not deceive it.  The two exceptions are real: restore deletes
\* whatever table there is, and a marker outlives the ruleset it stands for.
VerifiedIsIsolated == amiss => disturbed
=============================================================================
