--------------------------- MODULE ResponseService ---------------------------
(***************************************************************************)
(* The response service of response/service/runner.py around the           *)
(* orchestrator: start-up recovery, intake, the scheduler's pass and the   *)
(* export of the audit.  The engine's steps are those of Orchestrator; the *)
(* time it is given is `now`, which a pass reads once, at its beginning.   *)
(*                                                                         *)
(* Two threads share `lock`: the scheduler, whose place in a pass is       *)
(* `stage`, and an HTTP request.  The export runs outside the lock.        *)
(* Modelled in `enforce` mode; in `observe` mode the engine is never       *)
(* called.                                                                 *)
(***************************************************************************)
EXTENDS Naturals, Sequences, FiniteSets

CONSTANTS Response, None, TargetOf, PolicyOf, Catalogs, Protected, Ttl, AuthLife,
          RateWindow, MaxActions, ClockMayRegress, MaxClock, MaxCrashes,
          MaxAdapterFailures,
          RecoverEvery,   \* recover_every: passes between two recoveries
          MaxOutages      \* bound: failed deliveries to Elasticsearch

ASSUME ServiceAssumption == RecoverEvery \in Nat \ {0} /\ MaxOutages \in Nat

\* What the engine assumes of the constants it shares.
ASSUME EngineAssumption ==
  /\ None \notin Response /\ IsFiniteSet(Response)
  /\ Catalogs \in Nat \ {0} /\ DOMAIN Protected = 1..Catalogs
  /\ Ttl \in Nat \ {0} /\ AuthLife \in Nat
  /\ RateWindow \in Nat /\ MaxActions \in Nat
  /\ ClockMayRegress \in BOOLEAN
  /\ MaxClock \in Nat /\ MaxCrashes \in Nat /\ MaxAdapterFailures \in Nat

VARIABLES ram, disk, audit, intents, admitted, health, call, catalog, effect,
          applies, refused, crashes, failures,
          wall,       \* the real time
          now,        \* the time the engine was last given
          lock,       \* ResponseService._lock: "free", "scheduler" or "request"
          wanted,     \* the response the request under the lock submits
          stage,      \* where the scheduler thread stands
          queue,      \* the responses a stage of the pass has still to handle
          swept,      \* the stage has called expire_due or recover_pending
          ticks,      \* passes so far, modulo RecoverEvery
          upto,       \* the events the export has read, per response
          sending,    \* the response whose event was created and is not marked
          delivered,  \* events of a response in soc-response-*
          marked,     \* store table `exported`: events marked, per response
          outages     \* failed deliveries so far

engine == <<ram, disk, audit, intents, admitted, health, call, catalog, effect,
            applies, refused, crashes, failures>>
thread == <<lock, wanted, stage, queue, swept, ticks>>
export == <<upto, sending, delivered, marked, outages>>
vars == <<engine, wall, now, thread, export>>

Engine == INSTANCE Orchestrator WITH clock <- now

Nothing == [r \in Response |-> 0]

Init ==
  /\ Engine!Init
  /\ wall = 0
  /\ lock = "scheduler" /\ wanted = None
  /\ stage = "boot"
  /\ queue = {} /\ swept = FALSE /\ ticks = 0
  /\ upto = Nothing /\ sending = None
  /\ delivered = Nothing /\ marked = Nothing /\ outages = 0

\* The engine carries on with the operation it has begun.
EngineWorks ==
  /\ Engine!InProgress
  /\ UNCHANGED <<wall, thread, export>>

\* The engine is up and has finished its last operation.
Returned == health = "up" /\ call = Engine!Idle

\* The scheduler moves to a stage with a fresh list of responses to handle.
Enter(s, responses) == stage' = s /\ queue' = responses /\ swept' = FALSE

\* The pass or the start-up ends, with the lock released.
Leave(s) == Enter(s, {}) /\ lock' = "free"
-----------------------------------------------------------------------------
(* Start-up.                                                               *)

\* The process starts and builds the orchestrator from the store.
Boot ==
  /\ stage = "off"
  /\ Engine!Restart
  /\ Enter("boot", {}) /\ lock' = "scheduler"
  /\ UNCHANGED <<wall, wanted, ticks, export>>

\* Mutant: work starts without recovering unfinished operations.
StartUnrecovered ==
  /\ stage = "boot" /\ Returned
  /\ now' = wall
  /\ Leave("wait") /\ ticks' = 0
  /\ UNCHANGED <<engine, wall, wanted, export>>

\* start: read the clock, then recover_pending, before any request or pass.
Start ==
  /\ stage = "boot" /\ Returned
  /\ now' = wall
  /\ Enter("startup", {}) /\ ticks' = 0
  /\ UNCHANGED <<engine, wall, lock, wanted, export>>

\* recover_pending, of start-up and of every RecoverEvery-th pass.
Recover ==
  /\ stage \in {"startup", "recover"} /\ Returned
  /\ ~swept
  /\ Engine!RecoverPending
  /\ swept' = TRUE
  /\ UNCHANGED <<wall, lock, wanted, stage, queue, ticks, export>>

Started ==
  /\ stage = "startup" /\ Returned
  /\ swept \/ Engine!Unfinished = {}
  /\ Leave("wait")
  /\ UNCHANGED <<engine, wall, now, wanted, ticks, export>>
-----------------------------------------------------------------------------
(* accept.                                                                 *)

\* A request takes the lock and reads the clock.
Accept(r) ==
  /\ lock = "free" /\ stage \in {"wait", "export"} /\ Returned
  /\ lock' = "request" /\ wanted' = r
  /\ now' = wall
  /\ UNCHANGED <<engine, wall, stage, queue, swept, ticks, export>>

\* submit of a new command; a known one is answered from its record.
AcceptSubmits ==
  /\ lock = "request" /\ Returned
  /\ wanted # None
  /\ Engine!Submit(wanted)
  /\ wanted' = None
  /\ UNCHANGED <<wall, lock, stage, queue, swept, ticks, export>>

\* The request ends: answered, refused as a duplicate or invalid, or raised.
AcceptEnds ==
  /\ lock = "request" /\ (Returned \/ health = "failed")
  /\ lock' = "free" /\ wanted' = None
  /\ UNCHANGED <<engine, wall, now, stage, queue, swept, ticks, export>>
-----------------------------------------------------------------------------
(* tick.                                                                   *)

\* pending_apply and awaiting_verification.
PendingApply == {r \in Response : Engine!Applicable(r) /\ ram[r].pending = "none"}
AwaitingVerification == {r \in Response : ram[r].state = "APPLIED" /\ ram[r].pending = "none"}

\* A pass begins: it takes the lock, reads the clock and lists what to apply.
TickBegins ==
  /\ stage = "wait" /\ lock = "free" /\ Returned
  /\ lock' = "scheduler"
  /\ now' = wall
  /\ Enter("apply", PendingApply)
  /\ UNCHANGED <<engine, wall, wanted, ticks, export>>

\* apply of the next response.
TickApplies ==
  /\ stage = "apply" /\ Returned
  /\ \E r \in queue :
       /\ Engine!ApplyDenied(r) \/ Engine!BeginApply(r)
       /\ queue' = queue \ {r}
  /\ UNCHANGED <<wall, lock, wanted, stage, swept, ticks, export>>

\* apply raises CommandRejected because the target is engaged; the exception
\* leaves tick, and with it the rest of the pass, the export included.
TickRaises ==
  /\ stage = "apply" /\ Returned
  /\ \E r \in queue : Engine!StillAuthorized(r) /\ ~Engine!TargetAvailable(r)
  /\ Leave("wait")
  /\ UNCHANGED <<engine, wall, now, wanted, ticks, export>>

TickVerifies ==
  /\ stage = "verify" /\ Returned
  /\ \E r \in queue : Engine!Verify(r) /\ queue' = queue \ {r}
  /\ UNCHANGED <<wall, lock, wanted, stage, swept, ticks, export>>

TickExpires ==
  /\ stage = "expire" /\ Returned
  /\ ~swept
  /\ Engine!ExpireDue
  /\ swept' = TRUE
  /\ UNCHANGED <<wall, lock, wanted, stage, queue, ticks, export>>

\* Mutant: a pass ends after its verifications.
TickMovesOnWithoutExpiry ==
  /\ Returned
  /\ \/ stage = "apply" /\ queue = {} /\ Enter("verify", AwaitingVerification)
        /\ UNCHANGED <<lock, ticks, upto>>
     \/ stage = "verify" /\ queue = {}
        /\ Leave("export") /\ upto' = [r \in Response |-> Len(audit[r])]
        /\ UNCHANGED ticks
  /\ UNCHANGED <<engine, wall, now, wanted, sending, delivered, marked, outages>>

\* The pass counter, as far as it decides when to recover.
NextTick == (ticks + 1) % RecoverEvery

\* The end of a stage. The last one releases the lock and reads what to export.
TickMovesOn ==
  /\ Returned
  /\ LET toExport == Leave("export") /\ upto' = [r \in Response |-> Len(audit[r])]
     IN \/ /\ stage = "apply" /\ queue = {}
           /\ Enter("verify", AwaitingVerification)
           /\ UNCHANGED <<lock, ticks, upto>>
        \/ /\ stage = "verify" /\ queue = {}
           /\ Enter("expire", {})
           /\ UNCHANGED <<lock, ticks, upto>>
        \/ /\ stage = "expire" /\ (swept \/ Engine!Due = {})
           /\ ticks' = NextTick
           /\ IF ticks' = 0 THEN Enter("recover", {}) /\ UNCHANGED <<lock, upto>> ELSE toExport
        \/ /\ stage = "recover" /\ (swept \/ Engine!Unfinished = {})
           /\ toExport
           /\ UNCHANGED ticks
  /\ UNCHANGED <<engine, wall, now, wanted, sending, delivered, marked, outages>>

\* Storage failed under the pass: its operation raised and the pass is over.
TickFails ==
  /\ health = "failed" /\ stage \in {"apply", "verify", "expire", "recover"}
  /\ Leave("wait")
  /\ UNCHANGED <<engine, wall, now, wanted, ticks, export>>
-----------------------------------------------------------------------------
(* AuditExporter.export.                                                   *)

\* Mutant: a delivery that was not acknowledged is taken for one that was.
ExportTrusts ==
  /\ stage = "export" /\ sending = None
  /\ \E r \in Response : marked[r] < upto[r] /\ sending' = r
  /\ UNCHANGED <<engine, wall, now, thread, upto, delivered, marked, outages>>

\* The next event is created under its own id; one delivered before is found.
ExportCreates ==
  /\ stage = "export" /\ sending = None
  /\ \E r \in Response :
       /\ marked[r] < upto[r]
       /\ sending' = r
       /\ delivered' = [delivered EXCEPT ![r] = marked[r] + 1]
  /\ UNCHANGED <<engine, wall, now, thread, upto, marked, outages>>

\* Mutant: one delivery marks all events of its response.
ExportMarksAll ==
  /\ stage = "export" /\ sending # None
  /\ marked' = [marked EXCEPT ![sending] = upto[sending]]
  /\ sending' = None
  /\ UNCHANGED <<engine, wall, now, thread, upto, delivered, outages>>

\* mark_exported, once the event is known to be delivered.
ExportMarks ==
  /\ stage = "export" /\ sending # None
  /\ marked' = [marked EXCEPT ![sending] = @ + 1]
  /\ sending' = None
  /\ UNCHANGED <<engine, wall, now, thread, upto, delivered, outages>>

\* The pass returns: all was exported, or a delivery failed, its event created
\* or not, or the mark failed.
ExportEnds ==
  /\ stage = "export"
  /\ \/ /\ sending = None /\ \A r \in Response : marked[r] >= upto[r]
        /\ UNCHANGED <<delivered, outages>>
     \/ /\ outages < MaxOutages /\ outages' = outages + 1
        /\ \/ UNCHANGED delivered
           \/ /\ sending = None
              /\ \E r \in Response : marked[r] < upto[r] /\ delivered' = [delivered EXCEPT ![r] = marked[r] + 1]
  /\ stage' = "wait" /\ upto' = Nothing /\ sending' = None
  /\ UNCHANGED <<engine, wall, now, lock, wanted, queue, swept, ticks, marked>>
-----------------------------------------------------------------------------
(* The process and its environment.                                        *)

\* The threads die with the process, wherever they stand.
ThreadsDie ==
  /\ Enter("off", {}) /\ lock' = "scheduler" /\ wanted' = None
  /\ upto' = Nothing /\ sending' = None
  /\ UNCHANGED <<wall, ticks, delivered, marked, outages>>

Crash == Engine!Crash /\ ThreadsDie

\* After a storage failure an operator stops the service, as the engine's error
\* says; a start-up that failed ends by itself.
Stop == Engine!Stop /\ lock # "request" /\ stage \in {"startup", "wait", "export"} /\ ThreadsDie

EffectLost(r) == Engine!EffectLost(r) /\ UNCHANGED <<wall, thread, export>>

WallTick ==
  /\ wall < MaxClock /\ wall' = wall + 1
  /\ UNCHANGED <<engine, now, thread, export>>

Startup == Boot \/ Start \/ Recover \/ Started
Pass == TickBegins \/ TickApplies \/ TickRaises \/ TickVerifies \/ TickExpires \/ TickMovesOn \/ TickFails
Export == ExportCreates \/ ExportMarks \/ ExportEnds
Request == AcceptSubmits \/ AcceptEnds

Next ==
  \/ EngineWorks \/ Startup \/ Pass \/ Export \/ Request
  \/ \E r \in Response : Accept(r) \/ EffectLost(r)
  \/ Crash \/ Stop \/ WallTick

Spec == Init /\ [][Next]_vars

\* The scheduler thread and the requests run on (service/__main__.py's loop
\* survives a pass that raises), the scheduler gets the lock between requests in
\* the end, the service is restarted when it ends (`restart: unless-stopped`)
\* and stopped by an operator when storage failed.
FairSpec ==
  /\ Spec
  /\ WF_vars(EngineWorks) /\ WF_vars(Startup) /\ WF_vars(Pass) /\ WF_vars(Export)
  /\ SF_vars(TickBegins) /\ WF_vars(AcceptEnds) /\ WF_vars(Stop) /\ WF_vars(WallTick)
-----------------------------------------------------------------------------
(* Properties.                                                             *)

\* Every variable of the service keeps to its values.
TypeOK ==
  /\ Engine!TypeOK
  /\ wall \in Nat
  /\ lock \in {"free", "scheduler", "request"}
  /\ wanted \in Response \cup {None}
  /\ stage \in {"off", "boot", "startup", "wait", "apply", "verify", "expire", "recover", "export"}
  /\ queue \subseteq Response
  /\ swept \in BOOLEAN
  /\ ticks \in 0 .. RecoverEvery - 1
  /\ upto \in [Response -> Nat] /\ sending \in Response \cup {None}
  /\ delivered \in [Response -> Nat] /\ marked \in [Response -> Nat]
  /\ outages \in Nat

\* An apply that an earlier process left uncertain has been compensated, or has
\* failed to be, before the service accepts or applies anything: its record no
\* longer waits for an apply outcome nobody is going to deliver.
UncertainApplyCompensated ==
  health = "up" /\ stage \notin {"boot", "startup"} =>
    \A r \in Response :
      ram[r].state = "REQUESTED" /\ ram[r].pending = "apply" => call.on = r

\* Exported means delivered and delivered means committed, across crashes
\* between commit, creation and mark: no event is lost to the analysts, and they
\* never see one the journal does not hold.
ExportFaithful ==
  \A r \in Response : marked[r] <= delivered[r] /\ delivered[r] <= Len(audit[r])

\* Every response that touched, or may have touched, its target ends, although
\* reversals are only reached through passes that a conflict can cut short.
ResponsesEnd ==
  \A r \in Response :
    Engine!Unresolved(disk[r]) ~> (Engine!Latest(audit[r]) \in Engine!TERMINAL_STATES /\ ~effect[r])

\* Every committed audit event is delivered, also those committed while an
\* export runs, those of a process that died and those of passes cut short.
EventsDelivered == \A r \in Response : []<>(delivered[r] = Len(audit[r]))
=============================================================================
