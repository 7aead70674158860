---------------------------- MODULE Orchestrator ----------------------------
(***************************************************************************)
(* The response orchestrator of response/orchestrator/engine.py on its     *)
(* SQLite store (store.py): admission, apply, verify, expiry, rollback and *)
(* crash recovery of constrained containment actions.                      *)
(*                                                                         *)
(* Every public operation runs under one mutex (`_serialized`), so one     *)
(* operation is in progress at a time; `call` is where it stands.  A step  *)
(* ends at each durable commit and at each adapter call, the points where  *)
(* a crash tells two outcomes apart.  A refused or rejected operation      *)
(* changes nothing and is not an action: its guard is simply false.        *)
(***************************************************************************)
EXTENDS Integers, Sequences, FiniteSets

CONSTANTS
  Response,            \* response ids: sha256 of the idempotency key
  None,                \* no response
  TargetOf,            \* [Response -> (action, normalised target)]
  PolicyOf,            \* [Response -> policy id]
  Catalogs,            \* versions of the policy catalog: 1..Catalogs
  Protected,           \* [1..Catalogs -> set of protected targets]
  Ttl,                 \* ttl_seconds of the policy
  AuthLife,            \* longest time a signed command stays authorized
  RateWindow,          \* rate_limit.window_seconds
  MaxActions,          \* rate_limit.max_actions
  ClockMayRegress,     \* whether the wall clock may be stepped back
  MaxClock,            \* bound: the clock stays in 0..MaxClock
  MaxCrashes,          \* bound: crashes and storage faults
  MaxAdapterFailures   \* bound: adapter calls that fail or time out

ASSUME ConstantsAssumption ==
  /\ None \notin Response
  /\ IsFiniteSet(Response)
  /\ Catalogs \in Nat \ {0}
  /\ DOMAIN Protected = 1..Catalogs
  /\ Ttl \in Nat \ {0}
  /\ AuthLife \in Nat
  /\ RateWindow \in Nat
  /\ MaxActions \in Nat
  /\ ClockMayRegress \in BOOLEAN
  /\ MaxClock \in Nat
  /\ MaxCrashes \in Nat
  /\ MaxAdapterFailures \in Nat

VARIABLES
  ram,        \* ResponseOrchestrator._records, of the running process
  disk,       \* store table `records`: the last committed snapshot
  audit,      \* store table `audit`: the states of the events, in order
  intents,    \* store table `apply_intents`
  admitted,   \* store table `admissions`: admitted_at of the first event
  health,     \* "up", "failed" (_storage_failed) or "down"
  call,       \* the operation in progress
  catalog,    \* version of the catalog the process was started with
  clock,      \* wall clock
  effect,     \* whether the containment of a response is in force
  applies,    \* history: number of adapter.apply calls per response
  refused,    \* history: the store has refused a checkpoint
  crashes,    \* crashes and storage faults so far
  failures    \* adapter failures so far

store == <<disk, audit, intents, admitted>>
world == <<catalog, clock, effect, applies>>
vars  == <<ram, store, health, call, world, refused, crashes, failures>>

State == {"REQUESTED", "APPLIED", "VERIFIED", "EXPIRED", "ROLLED_BACK", "FAILED"}
Active == {"APPLIED", "VERIFIED"}
TERMINAL_STATES == {"EXPIRED", "ROLLED_BACK"}

\* `_ResponseRecord`; "until" and "policy" are the signed command's.
Record == [state: State \cup {"NONE"}, number: Nat, ref: BOOLEAN,
           authorized: BOOLEAN, pending: {"none", "apply", "revert"},
           expires: Nat, until: Nat, policy: 0..Catalogs]

NoRecord == [state |-> "NONE", number |-> 0, ref |-> FALSE,
             authorized |-> FALSE, pending |-> "none",
             expires |-> 0, until |-> 0, policy |-> 0]

\* The operation in progress: where it stands, on which response, what the
\* adapter answered, the state a revert is to end in, and the responses a
\* batch (expire_due, recover_pending) has still to revert.
Call == [pc: {"idle", "admit", "applying", "applied", "reverting", "reverted", "batch"},
         on: Response \cup {None}, ok: BOOLEAN,
         terminal: TERMINAL_STATES, batch: {"none", "expire", "recover"},
         todo: SUBSET Response]

Idle == [pc |-> "idle", on |-> None, ok |-> FALSE, terminal |-> "ROLLED_BACK",
         batch |-> "none", todo |-> {}]

At(pc, r) == [Idle EXCEPT !.pc = pc, !.on = r]

Init ==
  /\ ram = [r \in Response |-> NoRecord]
  /\ disk = [r \in Response |-> NoRecord]
  /\ audit = [r \in Response |-> <<>>]
  /\ intents = {}
  /\ admitted = [r \in Response |-> 0]
  /\ health = "up"
  /\ call = Idle
  /\ catalog \in 1..Catalogs
  /\ clock = 0
  /\ effect = [r \in Response |-> FALSE]
  /\ applies = [r \in Response |-> 0]
  /\ refused = FALSE
  /\ crashes = 0
  /\ failures = 0

-----------------------------------------------------------------------------
(* audit.py and store.py: the transactional checkpoint.                    *)

\* The state of the latest audit event of a response, "NONE" without one.
Latest(history) == IF history = <<>> THEN "NONE" ELSE history[Len(history)]

Allowed(s) ==
  CASE s = "NONE"      -> {"REQUESTED"}
    [] s = "REQUESTED" -> {"APPLIED", "FAILED", "ROLLED_BACK"}
    [] s = "APPLIED"   -> {"VERIFIED", "ROLLED_BACK", "FAILED"}
    [] s = "VERIFIED"  -> {"EXPIRED", "ROLLED_BACK", "FAILED"}
    [] s = "FAILED"    -> {"FAILED", "ROLLED_BACK"}
    [] OTHER           -> {}

\* validate_transition: `previous` and `intent` are what the engine's record
\* says, `history` what the store holds.
ValidTransition(previous, number, state, intent, history) ==
  /\ previous = Latest(history)
  /\ state \in Allowed(Latest(history))
  /\ \/ Latest(history) = "FAILED"
     \/ Latest(history) = "REQUESTED" /\ state = "ROLLED_BACK"
     => intent \/ \E i \in 1..Len(history) : history[i] = "APPLIED"
  /\ number = Len(history) + 1

\* A checkpoint without an event must match the latest one, and claims the
\* apply intent of a response at most once.
ValidSnapshot(r, rec) ==
  /\ Len(audit[r]) > 0
  /\ rec.state = Latest(audit[r])
  /\ rec.number = Len(audit[r])
  /\ rec.pending = "apply" => r \notin intents

\* The committed transaction of a checkpoint that carries an audit event.
WriteEvent(r, rec) ==
  /\ disk' = [disk EXCEPT ![r] = rec]
  /\ audit' = [audit EXCEPT ![r] = Append(@, rec.state)]
  /\ admitted' = IF rec.number = 1 THEN [admitted EXCEPT ![r] = clock] ELSE admitted
  /\ UNCHANGED intents

\* The committed transaction of a checkpoint without one.
WriteSnapshot(r, rec) ==
  /\ disk' = [disk EXCEPT ![r] = rec]
  /\ intents' = IF rec.pending = "apply" THEN intents \cup {r} ELSE intents
  /\ UNCHANGED <<audit, admitted>>

\* _checkpoint: any exception leaves the instance refusing every operation.
StorageFails == health' = "failed" /\ call' = Idle

\* The commit raised: it is lost, or took effect without the caller knowing.
StorageFault == crashes < MaxCrashes /\ crashes' = crashes + 1 /\ StorageFails

\* _transition: the RAM record follows only after the commit.
Transition(r, new, next) ==
  LET valid == ValidTransition(ram[r].state, new.number, new.state,
                               ram[r].pending # "none", audit[r])
  IN \/ /\ valid
        /\ WriteEvent(r, new)
        /\ ram' = [ram EXCEPT ![r] = new]
        /\ call' = next
        /\ UNCHANGED <<health, refused, crashes>>
     \/ /\ valid
        /\ WriteEvent(r, new) \/ UNCHANGED store
        /\ StorageFault
        /\ UNCHANGED <<ram, refused>>
     \/ /\ ~valid
        /\ StorageFails
        /\ refused' = TRUE
        /\ UNCHANGED <<ram, store, crashes>>

\* _checkpoint without an event: the RAM record was changed before it.
Checkpoint(r, new, next) ==
  /\ ram' = [ram EXCEPT ![r] = new]
  /\ \/ /\ ValidSnapshot(r, new)
        /\ WriteSnapshot(r, new)
        /\ call' = next
        /\ UNCHANGED <<health, refused, crashes>>
     \/ /\ ValidSnapshot(r, new)
        /\ WriteSnapshot(r, new) \/ UNCHANGED store
        /\ StorageFault
        /\ UNCHANGED refused
     \/ /\ ~ValidSnapshot(r, new)
        /\ StorageFails
        /\ refused' = TRUE
        /\ UNCHANGED <<store, crashes>>

\* The record of `r` moved to `state` by one transition.
Moved(r, state) == [ram[r] EXCEPT !.state = state, !.number = @ + 1]

\* _fail: the unfinished operation, if any, stays recorded for recovery.
Fail(r, next) == Transition(r, Moved(r, "FAILED"), next)

\* The transition that completes an operation (clear_intent=True).
Complete(r, state, next) ==
  Transition(r, [Moved(r, state) EXCEPT !.pending = "none"], next)
-----------------------------------------------------------------------------
(* engine.py: admission.                                                   *)

\* _serialized: no operation in progress, and storage has not failed.
Ready == health = "up" /\ call = Idle

\* The process still runs the operation that stands at `pc`.
Running(pc) == health = "up" /\ call.pc = pc


\* Mutant: admissions stamped ahead of the current clock are not counted.
RequestedBetween(policy, since) ==
  Cardinality({r \in Response : /\ audit[r] # <<>>
                                /\ PolicyOf[r] = policy
                                /\ admitted[r] > since
                                /\ admitted[r] <= clock})

\* store.requested_since: committed submissions, denied ones included.
RequestedSince(policy, since) ==
  Cardinality({r \in Response : /\ audit[r] # <<>>
                                /\ PolicyOf[r] = policy
                                /\ admitted[r] > since})

\* submit, up to the committed REQUESTED event. A known key is answered from
\* its record and changes nothing. The command was checked by
\* _validate_command: it carries the active policy hash and its authorization
\* has not expired.
Submit(r) ==
  /\ Ready
  /\ ram[r] = NoRecord
  /\ clock + Ttl <= MaxClock
  /\ \E until \in clock + 1 .. clock + AuthLife :
       Transition(r, [NoRecord EXCEPT !.state = "REQUESTED", !.number = 1,
                                      !.expires = clock + Ttl,
                                      !.until = until, !.policy = catalog],
                  At("admit", r))
  /\ UNCHANGED <<world, failures>>

\* submit's denials: a protected target, or more submissions in the window
\* ending at this one's timestamp than the policy may act on.
Denied(r) ==
  \/ TargetOf[r] \in Protected[catalog]
  \/ RequestedSince(PolicyOf[r], admitted[r] - RateWindow) > MaxActions

\* The rest of submit: deny, or authorize.
Admit ==
  /\ Running("admit")
  /\ LET r == call.on
     IN \/ Denied(r)  /\ Fail(r, Idle)
        \/ ~Denied(r) /\ Checkpoint(r, [ram[r] EXCEPT !.authorized = TRUE], Idle)
  /\ UNCHANGED <<world, failures>>
-----------------------------------------------------------------------------
(* engine.py: apply.                                                       *)

\* The response has an active or unresolved containment operation.
Unresolved(rec) ==
  rec.pending # "none" \/ (rec.state = "FAILED" /\ rec.ref) \/ rec.state \in Active


\* Mutant: an operation cut short by a crash does not hold its target.
TargetAvailableUnlessActive(r) ==
  \A o \in Response \ {r} : TargetOf[o] = TargetOf[r] => ram[o].state \notin Active

\* _assert_target_available: no other record of the same target is engaged.
TargetAvailable(r) ==
  \A o \in Response \ {r} : TargetOf[o] = TargetOf[r] => ~Unresolved(ram[o])

\* The recheck at the privileged side effect.
StillAuthorized(r) ==
  /\ clock < ram[r].expires
  /\ clock < ram[r].until
  /\ ram[r].policy = catalog
  /\ TargetOf[r] \notin Protected[catalog]

\* The records apply accepts; any other call raises.
Applicable(r) ==
  ram[r].state = "REQUESTED" /\ ram[r].authorized /\ ~ram[r].ref

\* apply, when the queued command has outlived its authorization or its TTL.
ApplyDenied(r) ==
  /\ Ready
  /\ Applicable(r)
  /\ ~StillAuthorized(r)
  /\ Fail(r, Idle)
  /\ UNCHANGED <<world, failures>>


\* Mutant: the adapter is called before the intent is durable.
BeginApplyUnclaimed(r) ==
  /\ Ready
  /\ Applicable(r)
  /\ StillAuthorized(r)
  /\ TargetAvailable(r)
  /\ call' = At("applying", r)
  /\ UNCHANGED <<ram, store, health, refused, crashes, world, failures>>

\* apply, up to the durable intent that precedes the side effect.
BeginApply(r) ==
  /\ Ready
  /\ Applicable(r)
  /\ StillAuthorized(r)
  /\ TargetAvailable(r)
  /\ Checkpoint(r, [ram[r] EXCEPT !.ref = TRUE, !.pending = "apply"],
                At("applying", r))
  /\ UNCHANGED <<world, failures>>

\* _invoke: an adapter that fails, raises or times out may have done its work.
AdapterFails == failures < MaxAdapterFailures /\ failures' = failures + 1


\* Mutant: an apply that timed out is tried again.
AdapterApplyRetried ==
  /\ Running("applying")
  /\ applies' = [applies EXCEPT ![call.on] = @ + 1]
  /\ \/ /\ effect' = [effect EXCEPT ![call.on] = TRUE]
        /\ call' = [call EXCEPT !.pc = "applied", !.ok = TRUE]
        /\ UNCHANGED failures
     \/ /\ AdapterFails
        /\ UNCHANGED <<effect, call>>
  /\ UNCHANGED <<ram, store, health, catalog, clock, refused, crashes>>

\* adapter.apply.
AdapterApply ==
  /\ Running("applying")
  /\ applies' = [applies EXCEPT ![call.on] = @ + 1]
  /\ \/ /\ effect' = [effect EXCEPT ![call.on] = TRUE]
        /\ call' = [call EXCEPT !.pc = "applied", !.ok = TRUE]
        /\ UNCHANGED failures
     \/ /\ AdapterFails
        /\ \E inForce \in BOOLEAN : effect' = [effect EXCEPT ![call.on] = inForce]
        /\ call' = [call EXCEPT !.pc = "applied"]
  /\ UNCHANGED <<ram, store, health, catalog, clock, refused, crashes>>

\* apply, after the adapter answered.
FinishApply ==
  /\ Running("applied")
  /\ \/ call.ok  /\ Complete(call.on, "APPLIED", Idle)
     \/ ~call.ok /\ Fail(call.on, Idle)
  /\ UNCHANGED <<world, failures>>
-----------------------------------------------------------------------------
(* engine.py: verification and reversal.                                   *)

\* _begin_operation("revert").
BeginRevert(r, terminal, batch, todo) ==
  Checkpoint(r, [ram[r] EXCEPT !.pending = "revert"],
             [At("reverting", r) EXCEPT !.terminal = terminal,
                                        !.batch = batch, !.todo = todo])

\* verify: promote on evidence; otherwise, or once the TTL has elapsed, revert.
\* The adapter can only prove a containment that is in force.
Verify(r) ==
  /\ Ready
  /\ ram[r].state = "APPLIED"
  /\ ram[r].pending = "none"
  /\ \/ /\ clock >= ram[r].expires
        /\ BeginRevert(r, "ROLLED_BACK", "none", {})
        /\ UNCHANGED failures
     \/ /\ clock < ram[r].expires /\ effect[r]
        /\ Transition(r, Moved(r, "VERIFIED"), Idle)
        /\ UNCHANGED failures
     \/ /\ clock < ram[r].expires
        /\ IF effect[r] THEN AdapterFails ELSE UNCHANGED failures
        /\ BeginRevert(r, "ROLLED_BACK", "none", {})
  /\ UNCHANGED world

\* rollback: the manual reversal, also of a failed reversal.
Rollback(r) ==
  /\ Ready
  /\ Unresolved(ram[r])
  /\ BeginRevert(r, "ROLLED_BACK", "none", {})
  /\ UNCHANGED <<world, failures>>


\* Mutant: expiry ends every response as EXPIRED, verified or not.
BatchTerminalExpired(batch, r) == IF batch = "expire" THEN "EXPIRED" ELSE "ROLLED_BACK"

\* Mutant: expiry leaves a response that was never verified in FAILED.
BatchTerminalFailed(batch, r) ==
  IF ram[r].state = "VERIFIED" THEN "EXPIRED"
  ELSE IF batch = "expire" THEN "FAILED" ELSE "ROLLED_BACK"

\* The state in which a batch leaves a response it reverts.
BatchTerminal(batch, r) ==
  IF batch = "expire" /\ ram[r].state = "VERIFIED" THEN "EXPIRED" ELSE "ROLLED_BACK"

\* The responses expire_due and recover_pending revert.
Due == {r \in Response : Unresolved(ram[r]) /\ clock >= ram[r].expires}
Unfinished == {r \in Response : ram[r].pending # "none"}

\* The next reversal of a batch; a reversal that fails does not end it.
RevertNext(batch, todo) ==
  \E r \in todo : BeginRevert(r, BatchTerminal(batch, r), batch, todo \ {r})

\* expire_due, up to its first reversal.
ExpireDue == Ready /\ RevertNext("expire", Due) /\ UNCHANGED <<world, failures>>

\* recover_pending, up to its first reversal.
RecoverPending == Ready /\ RevertNext("recover", Unfinished) /\ UNCHANGED <<world, failures>>

\* The next iteration of either batch.
ContinueBatch ==
  Running("batch") /\ RevertNext(call.batch, call.todo) /\ UNCHANGED <<world, failures>>

\* adapter.revert: reported done only when the containment is gone.
AdapterRevert ==
  /\ Running("reverting")
  /\ \/ /\ effect' = [effect EXCEPT ![call.on] = FALSE]
        /\ call' = [call EXCEPT !.pc = "reverted", !.ok = TRUE]
        /\ UNCHANGED failures
     \/ /\ AdapterFails
        /\ \E gone \in BOOLEAN : effect' = [effect EXCEPT ![call.on] = @ /\ ~gone]
        /\ call' = [call EXCEPT !.pc = "reverted", !.ok = FALSE]
  /\ UNCHANGED <<ram, store, health, catalog, clock, applies, refused, crashes>>


\* Mutant: a reversal the adapter could not prove is taken as done.
FinishRevertUnproved ==
  /\ Running("reverted")
  /\ Complete(call.on, call.terminal,
              IF call.todo = {} THEN Idle
              ELSE [Idle EXCEPT !.pc = "batch", !.batch = call.batch, !.todo = call.todo])
  /\ UNCHANGED <<world, failures>>

\* _revert, after the adapter answered; a batch goes on with what is left.
FinishRevert ==
  /\ Running("reverted")
  /\ LET next == IF call.todo = {} THEN Idle
                 ELSE [Idle EXCEPT !.pc = "batch", !.batch = call.batch, !.todo = call.todo]
     IN \/ call.ok  /\ Complete(call.on, call.terminal, next)
        \/ ~call.ok /\ Fail(call.on, next)
  /\ UNCHANGED <<world, failures>>
-----------------------------------------------------------------------------
(* Process life cycle and environment.                                     *)

\* What a process leaves behind when it dies: nothing but the store.
Down == health' = "down" /\ call' = Idle /\ ram' = [r \in Response |-> NoRecord]

\* The process dies between any two steps.
Crash ==
  /\ health = "up" /\ crashes < MaxCrashes /\ crashes' = crashes + 1
  /\ Down
  /\ UNCHANGED <<store, world, refused, failures>>

\* An operator stops a process whose storage failed.
Stop ==
  /\ health = "failed"
  /\ Down
  /\ UNCHANGED <<store, world, refused, crashes, failures>>

\* load: a snapshot that differs from its audit history stops the start.
LoadConsistent ==
  \A r \in Response : /\ disk[r].state = Latest(audit[r])
                      /\ disk[r].number = Len(audit[r])

\* __init__ on an existing store, possibly with a redeployed policy catalog.
Restart ==
  /\ health = "down"
  /\ LoadConsistent
  /\ health' = "up"
  /\ ram' = disk
  /\ catalog' \in 1..Catalogs
  /\ UNCHANGED <<store, call, clock, effect, applies, refused, crashes, failures>>

\* A containment goes away by itself: device timeout, reboot, an operator.
EffectLost(r) ==
  /\ effect[r]
  /\ effect' = [effect EXCEPT ![r] = FALSE]
  /\ UNCHANGED <<ram, store, health, call, catalog, clock, applies, refused, crashes, failures>>

\* The wall clock, which a time service may also step back.
Tick ==
  /\ clock < MaxClock /\ clock' = clock + 1
  /\ UNCHANGED <<ram, store, health, call, catalog, effect, applies, refused, crashes, failures>>

ClockStepsBack ==
  /\ ClockMayRegress /\ clock' \in 0 .. clock - 1
  /\ UNCHANGED <<ram, store, health, call, catalog, effect, applies, refused, crashes, failures>>

\* The steps of the operation in progress.
InProgress ==
  \/ Admit \/ AdapterApply \/ FinishApply
  \/ ContinueBatch \/ AdapterRevert \/ FinishRevert

\* The operations, and what the environment does to the process.
Operation ==
  \/ \E r \in Response : Submit(r) \/ ApplyDenied(r) \/ BeginApply(r) \/ Verify(r) \/ Rollback(r)
  \/ ExpireDue \/ RecoverPending

Environment ==
  \/ \E r \in Response : EffectLost(r)
  \/ Crash \/ Stop \/ Restart \/ Tick \/ ClockStepsBack

Next == InProgress \/ Operation \/ Environment

Spec == Init /\ [][Next]_vars
-----------------------------------------------------------------------------
(* Properties.                                                             *)

\* Every variable keeps to the values the code gives it.
TypeOK ==
  /\ ram \in [Response -> Record]
  /\ disk \in [Response -> Record]
  /\ audit \in [Response -> Seq(State)]
  /\ intents \in SUBSET Response
  /\ admitted \in [Response -> Nat]
  /\ health \in {"up", "failed", "down"}
  /\ call \in Call
  /\ catalog \in 1..Catalogs
  /\ clock \in Nat
  /\ effect \in [Response -> BOOLEAN]
  /\ applies \in [Response -> Nat]
  /\ refused \in BOOLEAN
  /\ crashes \in Nat
  /\ failures \in Nat

\* The engine never asks the ledger for a transition it refuses, nor claims an
\* apply intent twice, nor leaves a snapshot that load would reject: a refusal
\* sets _storage_failed, after which no containment can be reverted, and an
\* inconsistent snapshot keeps the process from starting again.
StoreAlwaysAccepts == ~refused /\ LoadConsistent

\* A containment in force is always one the durable record shows as active or
\* unresolved, so that expire_due and recover_pending revert it after a crash at
\* any point: the intent is committed before the side effect, and a response is
\* reported ended only after its containment is gone.
ContainmentRecoverable == \A r \in Response : effect[r] => Unresolved(disk[r])

\* Two responses never contain the same target at once, so that reverting one
\* cannot lift another's containment (_assert_target_available).
OneContainmentPerTarget ==
  \A r, o \in Response :
    effect[r] /\ effect[o] /\ TargetOf[r] = TargetOf[o] => r = o

\* adapter.apply is called at most once for a response over its whole life,
\* whatever crashes and restarts happen ("never replay an uncertain apply").
AppliedAtMostOnce == \A r \in Response : applies[r] <= 1

\* The authorized responses of the same policy in the window that ends with
\* the admission of `last`.
AuthorizedUpTo(last) ==
  {r \in Response : /\ disk[r].authorized
                    /\ PolicyOf[r] = PolicyOf[last]
                    /\ admitted[r] > admitted[last] - RateWindow
                    /\ admitted[r] <= admitted[last]}

\* In every window of the rate limit, measured on admission timestamps, at most
\* max_actions responses of a policy are authorized, even when the wall clock is
\* stepped back and the process restarts between them.
RateLimited ==
  \A last \in Response :
    disk[last].authorized => Cardinality(AuthorizedUpTo(last)) <= MaxActions

\* The orchestrator implements the lifecycle its clients rely on.
Lifecycle == INSTANCE ResponseLifecycle
               WITH status <- [r \in Response |-> Latest(audit[r])],
                    claimed <- intents,
                    touched <- {r \in Response : applies[r] > 0},
                    contained <- effect
ImplementsLifecycle == Lifecycle!Spec
=============================================================================
