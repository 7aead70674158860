----------------------- MODULE ResponseServiceProofs -----------------------
(***************************************************************************)
(* Proofs about ResponseService, for every set of responses, any number of *)
(* crashes, storage faults, adapter failures and failed deliveries.        *)
(* What OrchestratorProofs shows of the engine is carried over: the        *)
(* service gives the engine the time it last read, `now`.                  *)
(***************************************************************************)
EXTENDS ResponseService, TLAPS

Proofs == INSTANCE OrchestratorProofs WITH clock <- now

\* A record whose apply has no known outcome.
Uncertain(r) == ram[r].state = "REQUESTED" /\ ram[r].pending = "apply"

\* Where the threads stand, and what the engine can be doing there.
ThreadsOK ==
  /\ stage = "off" => health = "down"
  /\ lock = "request" => stage \in {"wait", "export"}
  /\ stage = "boot" \/ (stage = "startup" /\ ~swept) => call = Engine!Idle
  /\ stage = "startup" => call.pc \in {"idle", "reverting", "reverted", "batch"}

\* During start-up every uncertain apply is still on the list of the recovery;
\* afterwards the only one is that of the call in progress.
CoveredOK ==
  health = "up" =>
    /\ stage = "startup" /\ swept => \A r \in Response : Uncertain(r) => r \in call.todo
    /\ stage \notin {"boot", "startup"} =>
         \A r \in Response : Uncertain(r) => call.on = r /\ call.pc \in {"applying", "applied"}

\* What is read, created and marked, against what is committed.
ExportOK ==
  /\ upto \in [Response -> Nat] /\ delivered \in [Response -> Nat] /\ marked \in [Response -> Nat]
  /\ sending \in Response \cup {None}
  /\ sending # None => delivered[sending] = marked[sending] + 1
  /\ \A r \in Response : /\ marked[r] <= delivered[r]
                         /\ delivered[r] <= Len(audit[r])
                         /\ upto[r] <= Len(audit[r])

\* What the threads work on are responses.
WorkOK == queue \subseteq Response /\ wanted \in Response \cup {None}

\* The inductive invariant: the engine's and the service's own.
Core == Proofs!Inv /\ wall \in Nat /\ ThreadsOK /\ CoveredOK /\ ExportOK
Inv == Core /\ WorkOK
-----------------------------------------------------------------------------
(* The engine inside the service is the engine of OrchestratorProofs.      *)

\* The two kinds of commit are the same.
LEMMA SameCommits ==
  /\ \A r, new, next : Engine!Transition(r, new, next) => Proofs!Transition(r, new, next)
  /\ \A r, new, next : Engine!Checkpoint(r, new, next) => Proofs!Checkpoint(r, new, next)
  /\ Engine!Ready => Proofs!Ready
  /\ \A pc : Engine!Running(pc) => Proofs!Running(pc)
<1>1. ASSUME NEW r, NEW new, NEW next, Engine!Transition(r, new, next)
      PROVE  Proofs!Transition(r, new, next)
  BY <1>1 DEF Engine!Transition, Proofs!Transition, Engine!ValidTransition,
      Proofs!ValidTransition, Engine!Latest, Proofs!Latest, Engine!Allowed, Proofs!Allowed,
      Engine!WriteEvent, Proofs!WriteEvent, Engine!StorageFails, Proofs!StorageFails,
      Engine!StorageFault, Proofs!StorageFault, Engine!store, Proofs!store, Engine!Idle, Proofs!Idle
<1>2. ASSUME NEW r, NEW new, NEW next, Engine!Checkpoint(r, new, next)
      PROVE  Proofs!Checkpoint(r, new, next)
  BY <1>2 DEF Engine!Checkpoint, Proofs!Checkpoint, Engine!ValidSnapshot, Proofs!ValidSnapshot,
      Engine!Latest, Proofs!Latest, Engine!WriteSnapshot, Proofs!WriteSnapshot,
      Engine!StorageFails, Proofs!StorageFails, Engine!StorageFault, Proofs!StorageFault,
      Engine!store, Proofs!store, Engine!Idle, Proofs!Idle
<1> QED BY <1>1, <1>2 DEF Engine!Ready, Proofs!Ready, Engine!Running, Proofs!Running,
      Engine!Idle, Proofs!Idle

\* So is every step of the operation in progress,
LEMMA SameProgress == Engine!InProgress => Proofs!InProgress
<1>1. Engine!Admit => Proofs!Admit
  <2>1. \A r : Engine!Denied(r) <=> Proofs!Denied(r)
    BY DEF Engine!Denied, Proofs!Denied, Engine!RequestedSince, Proofs!RequestedSince,
      Engine!Cardinality, Proofs!Cardinality
  <2> QED BY <2>1, SameCommits DEF Engine!Admit, Proofs!Admit, Engine!world, Proofs!world,
      Engine!Fail, Proofs!Fail, Engine!Moved, Proofs!Moved, Engine!Idle, Proofs!Idle
<1>2. Engine!AdapterApply => Proofs!AdapterApply
  BY SameCommits DEF Engine!AdapterApply, Proofs!AdapterApply, Engine!AdapterFails,
      Proofs!AdapterFails, Engine!store, Proofs!store
<1>3. Engine!FinishApply => Proofs!FinishApply
  BY SameCommits DEF Engine!FinishApply, Proofs!FinishApply, Engine!Complete, Proofs!Complete,
      Engine!Fail, Proofs!Fail, Engine!Moved, Proofs!Moved, Engine!Idle, Proofs!Idle,
      Engine!world, Proofs!world
<1>4. Engine!ContinueBatch => Proofs!ContinueBatch
  BY SameCommits DEF Engine!ContinueBatch, Proofs!ContinueBatch, Engine!RevertNext,
      Proofs!RevertNext, Engine!BeginRevert, Proofs!BeginRevert, Engine!BatchTerminal,
      Proofs!BatchTerminal, Engine!At, Proofs!At, Engine!Idle, Proofs!Idle, Engine!world,
      Proofs!world
<1>5. Engine!AdapterRevert => Proofs!AdapterRevert
  BY SameCommits DEF Engine!AdapterRevert, Proofs!AdapterRevert, Engine!AdapterFails,
      Proofs!AdapterFails, Engine!store, Proofs!store
<1>6. Engine!FinishRevert => Proofs!FinishRevert
  BY SameCommits DEF Engine!FinishRevert, Proofs!FinishRevert, Engine!Complete, Proofs!Complete,
      Engine!Fail, Proofs!Fail, Engine!Moved, Proofs!Moved, Engine!Idle, Proofs!Idle,
      Engine!world, Proofs!world
<1> QED BY <1>1, <1>2, <1>3, <1>4, <1>5, <1>6 DEF Engine!InProgress, Proofs!InProgress

\* every operation the service calls,
LEMMA SameOperations ==
  /\ \A r \in Response : /\ Engine!Submit(r) => Proofs!Submit(r)
                         /\ Engine!ApplyDenied(r) => Proofs!ApplyDenied(r)
                         /\ Engine!BeginApply(r) => Proofs!BeginApply(r)
                         /\ Engine!Verify(r) => Proofs!Verify(r)
  /\ Engine!ExpireDue => Proofs!ExpireDue
  /\ Engine!RecoverPending => Proofs!RecoverPending
<1>1. ASSUME NEW r \in Response, Engine!Submit(r) PROVE Proofs!Submit(r)
  BY <1>1, SameCommits DEF Engine!Submit, Proofs!Submit, Engine!NoRecord, Proofs!NoRecord,
      Engine!At, Proofs!At, Engine!Idle, Proofs!Idle, Engine!world, Proofs!world
<1>2. ASSUME NEW r \in Response, Engine!ApplyDenied(r) PROVE Proofs!ApplyDenied(r)
  BY <1>2, SameCommits DEF Engine!ApplyDenied, Proofs!ApplyDenied, Engine!Applicable,
      Proofs!Applicable, Engine!StillAuthorized, Proofs!StillAuthorized, Engine!Fail,
      Proofs!Fail, Engine!Moved, Proofs!Moved, Engine!Idle, Proofs!Idle, Engine!world, Proofs!world
<1>3. ASSUME NEW r \in Response, Engine!BeginApply(r) PROVE Proofs!BeginApply(r)
  BY <1>3, SameCommits
  DEF Engine!BeginApply, Proofs!BeginApply, Engine!Applicable, Proofs!Applicable,
      Engine!StillAuthorized, Proofs!StillAuthorized, Engine!TargetAvailable,
      Proofs!TargetAvailable, Engine!Unresolved, Proofs!Unresolved, Engine!Active, Proofs!Active,
      Engine!At, Proofs!At, Engine!Idle, Proofs!Idle, Engine!world, Proofs!world
<1>4. ASSUME NEW r \in Response, Engine!Verify(r) PROVE Proofs!Verify(r)
  BY <1>4, SameCommits DEF Engine!Verify, Proofs!Verify, Engine!BeginRevert, Proofs!BeginRevert,
      Engine!Moved, Proofs!Moved, Engine!AdapterFails, Proofs!AdapterFails, Engine!At, Proofs!At,
      Engine!Idle, Proofs!Idle, Engine!world, Proofs!world
<1>5. Engine!ExpireDue => Proofs!ExpireDue
  BY SameCommits DEF Engine!ExpireDue, Proofs!ExpireDue, Engine!Due, Proofs!Due,
      Engine!Unresolved, Proofs!Unresolved, Engine!Active, Proofs!Active, Engine!RevertNext,
      Proofs!RevertNext, Engine!BeginRevert, Proofs!BeginRevert, Engine!BatchTerminal,
      Proofs!BatchTerminal, Engine!At, Proofs!At, Engine!Idle, Proofs!Idle, Engine!world,
      Proofs!world
<1>6. Engine!RecoverPending => Proofs!RecoverPending
  BY SameCommits DEF Engine!RecoverPending, Proofs!RecoverPending, Engine!Unfinished,
      Proofs!Unfinished, Engine!RevertNext, Proofs!RevertNext, Engine!BeginRevert,
      Proofs!BeginRevert, Engine!BatchTerminal, Proofs!BatchTerminal, Engine!At, Proofs!At,
      Engine!Idle, Proofs!Idle, Engine!world, Proofs!world
<1> QED BY <1>1, <1>2, <1>3, <1>4, <1>5, <1>6

\* and what happens to the process.
LEMMA SameEnvironment ==
  /\ Engine!Crash => Proofs!Crash
  /\ Engine!Stop => Proofs!Stop
  /\ Engine!Restart => Proofs!Restart
  /\ \A r \in Response : Engine!EffectLost(r) => Proofs!EffectLost(r)
BY DEF Engine!Crash, Proofs!Crash, Engine!Stop, Proofs!Stop, Engine!Restart, Proofs!Restart,
      Engine!EffectLost, Proofs!EffectLost, Engine!Down, Proofs!Down, Engine!NoRecord,
      Proofs!NoRecord, Engine!Idle, Proofs!Idle, Engine!LoadConsistent, Proofs!LoadConsistent,
      Engine!Latest, Proofs!Latest, Engine!store, Proofs!store, Engine!world, Proofs!world

\* Hence a step of the engine keeps what the engine relies on.
LEMMA EngineKeepsInv ==
  ASSUME Proofs!Inv,
         \/ Engine!InProgress \/ Engine!ExpireDue \/ Engine!RecoverPending
         \/ Engine!Crash \/ Engine!Stop \/ Engine!Restart
         \/ \E r \in Response : \/ Engine!Submit(r) \/ Engine!ApplyDenied(r) \/ Engine!BeginApply(r)
                                \/ Engine!Verify(r) \/ Engine!EffectLost(r)
  PROVE  Proofs!Inv'
<1>1. Proofs!Next
  BY SameProgress, SameOperations, SameEnvironment DEF Proofs!Next, Proofs!Operation,
      Proofs!Environment
<1> QED BY <1>1, Proofs!NextKeepsInv, EngineAssumption DEF IsFiniteSet, Proofs!IsFiniteSet

\* So does a step of the service that leaves the engine alone, also one that
\* reads the clock.
LEMMA ClockKeepsInv ==
  ASSUME Proofs!Inv, UNCHANGED engine, now' \in Nat
  PROVE  Proofs!Inv'
BY DEF engine, Proofs!Inv, Proofs!TypeOK, Proofs!Durable, Proofs!RecordOK, Proofs!EffectOK,
       Proofs!Exclusive, Proofs!Process

-----------------------------------------------------------------------------
(* What a step of the engine does to records, call and audit.              *)

\* A commit moves one record and the call, or storage fails; the audit grows.
LEMMA CommitShape ==
  ASSUME Proofs!Inv, NEW r \in Response, NEW new, NEW next,
         Engine!Transition(r, new, next) \/ Engine!Checkpoint(r, new, next)
  PROVE  /\ \/ health' = "failed" /\ call' = Engine!Idle
            \/ health' = health /\ call' = next /\ ram' = [ram EXCEPT ![r] = new]
         /\ \A q \in Response : Len(audit[q]) <= Len(audit'[q])
<1>1. audit \in [Response -> Seq(Proofs!State)] /\ \A q \in Response : Len(audit[q]) \in Nat
  BY DEF Proofs!Inv, Proofs!TypeOK
<1>2. \A q \in Response : Len(audit[q]) <= Len(audit'[q])
  <2>1. CASE Engine!WriteEvent(r, new) /\ new.state \in Proofs!State
    <3>1. audit' = [audit EXCEPT ![r] = Append(@, new.state)]
      BY <2>1 DEF Engine!WriteEvent
    <3>2. Len(Append(audit[r], new.state)) = Len(audit[r]) + 1
      BY <1>1, <2>1
    <3> QED BY <1>1, <3>1, <3>2
  <2>2. CASE audit' = audit
    BY <1>1, <2>2
  <2>3. ASSUME Engine!Transition(r, new, next), audit' # audit
        PROVE  Engine!WriteEvent(r, new) /\ new.state \in Proofs!State
    BY <2>3 DEF Engine!Transition, Engine!ValidTransition, Engine!Allowed, Engine!store, Proofs!State
  <2> QED BY <2>1, <2>2, <2>3 DEF Engine!Checkpoint, Engine!WriteSnapshot, Engine!store
<1> QED BY <1>2 DEF Engine!Transition, Engine!Checkpoint, Engine!StorageFault, Engine!StorageFails

\* The engine's Fail, Complete and BeginRevert are commits of known records.
LEMMA Outcomes ==
  ASSUME Proofs!Inv, NEW r \in Response
  PROVE  /\ \A s : Engine!Moved(r, s).state = s
         /\ \A s : [Engine!Moved(r, s) EXCEPT !.pending = "none"].state = s
         /\ [ram[r] EXCEPT !.pending = "revert"].pending = "revert"
<1>1. ram[r] \in Proofs!Record
  BY DEF Proofs!Inv, Proofs!TypeOK
<1> QED BY <1>1 DEF Proofs!Record, Engine!Moved

\* The outcome of an operation is committed as success or as failure.
LEMMA OutcomeCommits ==
  ASSUME Proofs!Inv, NEW r \in Response, NEW s, NEW next,
         Engine!Complete(r, s, next) \/ Engine!Fail(r, next)
  PROVE  \E new : Engine!Transition(r, new, next) /\ new.state \in {s, "FAILED"}
<1>1. CASE Engine!Complete(r, s, next)
  <2> DEFINE new == [Engine!Moved(r, s) EXCEPT !.pending = "none"]
  <2>1. new.state = s
    BY Outcomes
  <2>2. Engine!Transition(r, new, next)
    BY <1>1 DEF Engine!Complete
  <2> HIDE DEF new
  <2> QED BY <2>1, <2>2
<1>2. CASE Engine!Fail(r, next)
  <2> DEFINE new == Engine!Moved(r, "FAILED")
  <2>1. new.state = "FAILED"
    BY Outcomes
  <2>2. Engine!Transition(r, new, next)
    BY <1>2 DEF Engine!Fail
  <2> HIDE DEF new
  <2> QED BY <2>1, <2>2
<1> QED BY <1>1, <1>2

\* A step of the engine on one record keeps the uncertain applies covered.
LEMMA RecordStep ==
  ASSUME Core, health = "up", NEW r \in Response, NEW new, NEW next,
         \/ health' = "failed" /\ call' = Engine!Idle
         \/ health' = health /\ call' = next /\ ram' = [ram EXCEPT ![r] = new],
         UNCHANGED <<stage, lock>>, stage # "boot",
         stage = "startup" =>
           /\ swept' /\ next.pc \in {"idle", "reverting", "reverted", "batch"}
           /\ \A q \in Response \ {r} : Uncertain(q) => q \in next.todo,
         stage # "startup" => \A q \in Response \ {r} : ~Uncertain(q),
         new.state = "REQUESTED" /\ new.pending = "apply" =>
           stage # "startup" /\ next.on = r /\ next.pc = "applying"
  PROVE  ThreadsOK' /\ CoveredOK'
<1>1. ram \in [Response -> Proofs!Record]
  BY DEF Core, Proofs!Inv, Proofs!TypeOK
<1>2. stage # "off"
  BY DEF Core, ThreadsOK
<1>3. CASE health' = "failed" /\ call' = Engine!Idle
  BY <1>2, <1>3 DEF Core, ThreadsOK, CoveredOK, Engine!Idle
<1>4. CASE health' = health /\ call' = next /\ ram' = [ram EXCEPT ![r] = new]
  <2>1. \A q \in Response : ram'[q] = IF q = r THEN new ELSE ram[q]
    BY <1>1, <1>4
  <2>2. ThreadsOK'
    BY <1>2, <1>4 DEF Core, ThreadsOK
  <2>3. CoveredOK'
    BY <1>4, <2>1 DEF CoveredOK, Uncertain
  <2> QED BY <2>2, <2>3
<1> QED BY <1>3, <1>4

\* So does the commit that makes it.
LEMMA CommitStep ==
  ASSUME Core, health = "up", NEW r \in Response, NEW new, NEW next,
         Engine!Transition(r, new, next) \/ Engine!Checkpoint(r, new, next),
         UNCHANGED <<stage, lock>>, stage # "boot",
         stage = "startup" => swept' /\ next.pc \in {"idle", "reverting", "reverted", "batch"},
         \A q \in Response \ {r} : Uncertain(q) => stage = "startup" /\ q \in next.todo,
         new.state = "REQUESTED" /\ new.pending = "apply" =>
           stage # "startup" /\ next.on = r /\ next.pc = "applying"
  PROVE  ThreadsOK' /\ CoveredOK' /\ \A q \in Response : Len(audit[q]) <= Len(audit'[q])
<1>1. /\ \/ health' = "failed" /\ call' = Engine!Idle
         \/ health' = health /\ call' = next /\ ram' = [ram EXCEPT ![r] = new]
      /\ \A q \in Response : Len(audit[q]) <= Len(audit'[q])
  BY CommitShape DEF Core
<1>2. ThreadsOK' /\ CoveredOK'
  BY <1>1, RecordStep
<1> QED BY <1>1, <1>2

\* A step of the operation in progress.
LEMMA ProgressKeeps ==
  ASSUME Core, Engine!InProgress, UNCHANGED <<wall, thread, export>>
  PROVE  ThreadsOK' /\ CoveredOK' /\ \A q \in Response : Len(audit[q]) <= Len(audit'[q])
<1> DEFINE r == call.on
<1>1. /\ health = "up" /\ call.pc \in {"admit", "applying", "applied", "batch", "reverting", "reverted"}
      /\ UNCHANGED <<stage, lock, swept>>
  BY DEF Engine!InProgress, Engine!Admit, Engine!AdapterApply, Engine!FinishApply, Engine!ContinueBatch,
         Engine!AdapterRevert, Engine!FinishRevert, Engine!Running, thread
<1>2. /\ call \in Proofs!Call /\ ram \in [Response -> Proofs!Record]
      /\ call.pc # "batch" => r \in Response
      /\ call.todo \subseteq Response
      /\ \A q \in Response : Len(audit[q]) \in Nat
  BY <1>1 DEF Core, Proofs!Inv, Proofs!TypeOK, Proofs!Process, Proofs!Call
<1>3. /\ stage \notin {"off", "boot"}
      /\ stage = "startup" => swept /\ call.pc \in {"reverting", "reverted", "batch"}
  BY <1>1 DEF Core, ThreadsOK, Engine!Idle
<1>4. \A q \in Response :
        Uncertain(q) => IF stage = "startup" THEN q \in call.todo
                        ELSE q = r /\ call.pc \in {"applying", "applied"}
  BY <1>1, <1>3 DEF Core, CoveredOK
<1>5. CASE Engine!Admit
  <2>1. call.pc = "admit" /\ stage # "startup" /\ r \in Response
    BY <1>2, <1>3, <1>5 DEF Engine!Admit, Engine!Running
  <2>2. CASE Engine!Fail(r, Engine!Idle)
    <3> DEFINE new == Engine!Moved(r, "FAILED")
    <3>1. new.state = "FAILED"
      BY <2>1, Outcomes DEF Core
    <3>2. Engine!Transition(r, new, Engine!Idle)
      BY <2>2 DEF Engine!Fail
    <3>3. \A q \in Response : ~Uncertain(q)
      BY <1>4, <2>1
    <3> HIDE DEF new
    <3> QED BY <1>1, <1>3, <2>1, <3>1, <3>2, <3>3, CommitStep
  <2>3. CASE Engine!Checkpoint(r, [ram[r] EXCEPT !.authorized = TRUE], Engine!Idle)
    <3> DEFINE new == [ram[r] EXCEPT !.authorized = TRUE]
    <3>1. new.state = ram[r].state /\ new.pending = ram[r].pending
      BY <1>2, <2>1 DEF Proofs!Record
    <3>2. \A q \in Response : ~Uncertain(q)
      BY <1>4, <2>1
    <3>3. ~(new.state = "REQUESTED" /\ new.pending = "apply")
      BY <2>1, <3>1, <3>2 DEF Uncertain
    <3>4. Engine!Checkpoint(r, new, Engine!Idle)
      BY <2>3
    <3> HIDE DEF new
    <3> QED BY <1>1, <1>3, <2>1, <3>2, <3>3, <3>4, CommitStep
  <2> QED BY <1>5, <2>2, <2>3 DEF Engine!Admit
<1>6. CASE Engine!AdapterApply \/ Engine!AdapterRevert
  <2>1. PICK pc \in {"applied", "reverted"}, ok \in BOOLEAN :
          /\ call' = [call EXCEPT !.pc = pc, !.ok = ok]
          /\ call.pc = IF pc = "applied" THEN "applying" ELSE "reverting"
          /\ UNCHANGED <<ram, audit, health>>
    <3>1. CASE Engine!AdapterApply
      BY <1>2, <3>1 DEF Engine!AdapterApply, Engine!Running, Engine!store, Proofs!Call
    <3>2. CASE Engine!AdapterRevert
      BY <1>2, <3>2 DEF Engine!AdapterRevert, Engine!Running, Engine!store, Proofs!Call
    <3> QED BY <1>6, <3>1, <3>2
  <2>2. call'.pc = pc /\ call'.on = r /\ call'.todo = call.todo
    BY <1>2, <2>1 DEF Proofs!Call
  <2>3. ThreadsOK'
    BY <1>1, <1>3, <2>1, <2>2 DEF Core, ThreadsOK
  <2>4. CoveredOK'
    BY <1>1, <1>4, <2>1, <2>2 DEF CoveredOK, Uncertain
  <2> QED BY <1>2, <2>1, <2>3, <2>4
<1>7. CASE Engine!FinishApply
  <2>1. call.pc = "applied" /\ stage # "startup" /\ r \in Response
    BY <1>2, <1>3, <1>7 DEF Engine!FinishApply, Engine!Running
  <2>2. PICK new : Engine!Transition(r, new, Engine!Idle) /\ new.state \in {"APPLIED", "FAILED"}
    BY <1>7, <2>1, OutcomeCommits DEF Engine!FinishApply, Core
  <2>3. \A q \in Response \ {r} : ~Uncertain(q)
    BY <1>4, <2>1
  <2> QED BY <1>1, <1>3, <2>1, <2>2, <2>3, CommitStep
<1>8. CASE Engine!ContinueBatch
  <2>1. call.pc = "batch"
    BY <1>8 DEF Engine!ContinueBatch, Engine!Running
  <2>2. PICK o \in call.todo :
          Engine!BeginRevert(o, Engine!BatchTerminal(call.batch, o), call.batch, call.todo \ {o})
    BY <1>8 DEF Engine!ContinueBatch, Engine!RevertNext
  <2> DEFINE next == [Engine!At("reverting", o) EXCEPT !.terminal = Engine!BatchTerminal(call.batch, o),
                                                       !.batch = call.batch, !.todo = call.todo \ {o}]
  <2>3. next.pc = "reverting" /\ next.todo = call.todo \ {o}
    BY DEF Engine!At, Engine!Idle
  <2>4. PICK new : Engine!Checkpoint(o, new, next) /\ o \in Response /\ new.pending = "revert"
    BY <1>2, <2>2, Outcomes DEF Engine!BeginRevert, Core
  <2>5. \A q \in Response \ {o} : Uncertain(q) => stage = "startup" /\ q \in next.todo
    BY <1>4, <2>1, <2>3
  <2> HIDE DEF next
  <2> QED BY <1>1, <1>3, <2>3, <2>4, <2>5, CommitStep
<1>9. CASE Engine!FinishRevert
  <2> DEFINE next == IF call.todo = {} THEN Engine!Idle
                     ELSE [Engine!Idle EXCEPT !.pc = "batch", !.batch = call.batch, !.todo = call.todo]
  <2>1. call.pc = "reverted" /\ r \in Response
    BY <1>2, <1>9 DEF Engine!FinishRevert, Engine!Running
  <2>2. next.pc \in {"idle", "batch"} /\ next.todo = call.todo
    BY DEF Engine!Idle
  <2>3. "REQUESTED" \notin {call.terminal, "FAILED"}
    BY <1>2 DEF Proofs!Call, Proofs!TERMINAL_STATES
  <2>4. PICK new : Engine!Transition(r, new, next) /\ new.state \in {call.terminal, "FAILED"}
    BY <1>9, <2>1, OutcomeCommits DEF Engine!FinishRevert, Core
  <2>5. \A q \in Response \ {r} : Uncertain(q) => stage = "startup" /\ q \in next.todo
    BY <1>4, <2>1, <2>2
  <2> HIDE DEF next
  <2> QED BY <1>1, <1>3, <2>1, <2>2, <2>3, <2>4, <2>5, CommitStep
<1> QED BY <1>5, <1>6, <1>7, <1>8, <1>9 DEF Engine!InProgress

\* The list of a batch: its first reversal.
LEMMA BatchBegins ==
  ASSUME Core, health = "up", UNCHANGED <<stage, lock>>, stage # "boot",
         NEW batch, NEW todo \in SUBSET Response, Engine!RevertNext(batch, todo),
         stage = "startup" => swept',
         \A q \in Response : Uncertain(q) => stage = "startup" /\ q \in todo
  PROVE  ThreadsOK' /\ CoveredOK' /\ \A q \in Response : Len(audit[q]) <= Len(audit'[q])
<1>1. PICK o \in todo : Engine!BeginRevert(o, Engine!BatchTerminal(batch, o), batch, todo \ {o})
  BY DEF Engine!RevertNext
<1> DEFINE next == [Engine!At("reverting", o) EXCEPT !.terminal = Engine!BatchTerminal(batch, o),
                                                     !.batch = batch, !.todo = todo \ {o}]
<1>2. next.pc = "reverting" /\ next.todo = todo \ {o}
  BY DEF Engine!At, Engine!Idle
<1>3. PICK new : Engine!Checkpoint(o, new, next) /\ o \in Response /\ new.pending = "revert"
  BY <1>1, Outcomes DEF Engine!BeginRevert, Core
<1> HIDE DEF next
<1> QED BY <1>2, <1>3, CommitStep

\* An operation of the engine, begun by a pass or a request.
LEMMA OperationKeeps ==
  ASSUME Core, UNCHANGED <<stage, lock>>, stage \notin {"boot", "startup"},
         \/ Engine!ExpireDue
         \/ \E r \in Response : Engine!Submit(r) \/ Engine!ApplyDenied(r) \/ Engine!BeginApply(r)
                                \/ Engine!Verify(r)
  PROVE  ThreadsOK' /\ CoveredOK' /\ \A q \in Response : Len(audit[q]) <= Len(audit'[q])
<1>1. health = "up" /\ call = Engine!Idle
  BY DEF Engine!ExpireDue, Engine!Submit, Engine!ApplyDenied, Engine!BeginApply, Engine!Verify, Engine!Ready
<1>2. \A q \in Response : ~Uncertain(q)
  BY <1>1 DEF Core, CoveredOK, Engine!Idle
<1>3. ram \in [Response -> Proofs!Record]
  BY DEF Core, Proofs!Inv, Proofs!TypeOK
<1>4. CASE Engine!ExpireDue
  <2>1. Engine!Due \in SUBSET Response
    BY DEF Engine!Due
  <2> QED BY <1>1, <1>2, <1>4, <2>1, BatchBegins DEF Engine!ExpireDue
<1>5. ASSUME NEW r \in Response, Engine!Submit(r)
      PROVE  ThreadsOK' /\ CoveredOK' /\ \A q \in Response : Len(audit[q]) <= Len(audit'[q])
  <2>1. PICK until : Engine!Transition(r, [Engine!NoRecord EXCEPT !.state = "REQUESTED", !.number = 1,
                                            !.expires = now + Ttl, !.until = until, !.policy = catalog],
                                       Engine!At("admit", r))
    BY <1>5 DEF Engine!Submit
  <2> DEFINE new == [Engine!NoRecord EXCEPT !.state = "REQUESTED", !.number = 1,
                                            !.expires = now + Ttl, !.until = until, !.policy = catalog]
             next == Engine!At("admit", r)
  <2>2. new.pending = "none"
    BY DEF Engine!NoRecord
  <2>3. Engine!Transition(r, new, next)
    BY <2>1
  <2> HIDE DEF new, next
  <2> QED BY <1>1, <1>2, <2>2, <2>3, CommitStep
<1>6. ASSUME NEW r \in Response, Engine!ApplyDenied(r)
      PROVE  ThreadsOK' /\ CoveredOK' /\ \A q \in Response : Len(audit[q]) <= Len(audit'[q])
  <2>1. PICK new : Engine!Transition(r, new, Engine!Idle) /\ new.state = "FAILED"
    BY <1>6, OutcomeCommits DEF Engine!ApplyDenied, Core
  <2> QED BY <1>1, <1>2, <2>1, CommitStep
<1>7. ASSUME NEW r \in Response, Engine!BeginApply(r)
      PROVE  ThreadsOK' /\ CoveredOK' /\ \A q \in Response : Len(audit[q]) <= Len(audit'[q])
  <2> DEFINE next == Engine!At("applying", r)
  <2>1. next.on = r /\ next.pc = "applying"
    BY DEF Engine!At, Engine!Idle
  <2>2. PICK new : Engine!Checkpoint(r, new, next)
    BY <1>7 DEF Engine!BeginApply
  <2> HIDE DEF next
  <2> QED BY <1>1, <1>2, <2>1, <2>2, CommitStep
<1>8. ASSUME NEW r \in Response, Engine!Verify(r)
      PROVE  ThreadsOK' /\ CoveredOK' /\ \A q \in Response : Len(audit[q]) <= Len(audit'[q])
  <2>1. PICK new, next : /\ Engine!Transition(r, new, next) \/ Engine!Checkpoint(r, new, next)
                         /\ new.state = "VERIFIED" \/ new.pending = "revert"
    <3>1. CASE Engine!BeginRevert(r, "ROLLED_BACK", "none", {})
      BY <3>1, Outcomes DEF Engine!BeginRevert, Core
    <3>2. CASE Engine!Transition(r, Engine!Moved(r, "VERIFIED"), Engine!Idle)
      BY <3>2, Outcomes DEF Core
    <3> QED BY <1>8, <3>1, <3>2 DEF Engine!Verify
  <2> QED BY <1>1, <1>2, <2>1, CommitStep
<1> QED BY <1>4, <1>5, <1>6, <1>7, <1>8

\* recover_pending: at start-up it lists every uncertain apply.
LEMMA RecoverKeeps ==
  ASSUME Core, Recover
  PROVE  ThreadsOK' /\ CoveredOK' /\ \A q \in Response : Len(audit[q]) <= Len(audit'[q])
<1>1. /\ health = "up" /\ call = Engine!Idle /\ stage \in {"startup", "recover"} /\ swept'
      /\ UNCHANGED <<stage, lock>> /\ Engine!RevertNext("recover", Engine!Unfinished)
  BY DEF Recover, Returned, Engine!RecoverPending
<1>2. Engine!Unfinished \in SUBSET Response /\ \A q \in Response : Uncertain(q) => q \in Engine!Unfinished
  BY DEF Engine!Unfinished, Uncertain
<1>3. stage = "recover" => \A q \in Response : ~Uncertain(q)
  BY <1>1 DEF Core, CoveredOK, Engine!Idle
<1> QED BY <1>1, <1>2, <1>3, BatchBegins
-----------------------------------------------------------------------------
(* The export.                                                             *)

\* A growing audit leaves what was exported as it was.
LEMMA GrowthKeepsExport ==
  ASSUME ExportOK, Proofs!Inv, Proofs!Inv', UNCHANGED <<upto, sending, delivered, marked>>,
         \A q \in Response : Len(audit[q]) <= Len(audit'[q])
  PROVE  ExportOK'
<1>1. \A q \in Response : Len(audit[q]) \in Nat /\ Len(audit'[q]) \in Nat
  BY DEF Proofs!Inv, Proofs!TypeOK
<1> QED BY <1>1 DEF ExportOK

\* A thread that dies or ends its export gives up only what it had read.
LEMMA ForgettingKeepsExport ==
  ASSUME ExportOK, Proofs!Inv, UNCHANGED <<audit, delivered, marked>>, upto' = Nothing, sending' = None
  PROVE  ExportOK'
<1>1. \A q \in Response : Len(audit[q]) \in Nat
  BY DEF Proofs!Inv, Proofs!TypeOK
<1> QED BY <1>1 DEF ExportOK, Nothing

\* Creating, marking and giving up.
LEMMA ExportKeeps ==
  ASSUME Core, Export
  PROVE  Core'
<1>0. \A q \in Response : Len(audit[q]) \in Nat
  BY DEF Core, Proofs!Inv, Proofs!TypeOK
<1>1. UNCHANGED <<engine, wall, now, lock, swept>> /\ stage = "export"
  BY DEF Export, ExportCreates, ExportMarks, ExportEnds, thread
<1>2. Proofs!Inv' /\ wall' \in Nat
  BY <1>1, ClockKeepsInv DEF Core, Proofs!Inv, Proofs!TypeOK
<1>3. stage' \in {"export", "wait"}
  BY <1>1 DEF Export, ExportCreates, ExportMarks, ExportEnds, thread
<1>4. ThreadsOK' /\ CoveredOK'
  BY <1>1, <1>3 DEF Core, ThreadsOK, CoveredOK, Uncertain, engine
<1>5. ExportOK'
  <2>1. CASE ExportCreates
    <3>1. PICK r \in Response : marked[r] < upto[r] /\ sending' = r
                                /\ delivered' = [delivered EXCEPT ![r] = marked[r] + 1]
      BY <2>1 DEF ExportCreates
    <3>2. UNCHANGED <<upto, marked, audit>>
      BY <2>1 DEF ExportCreates, engine
    <3> QED BY <1>0, <3>1, <3>2 DEF Core, ExportOK
  <2>2. CASE ExportMarks
    <3>1. /\ sending \in Response /\ marked' = [marked EXCEPT ![sending] = @ + 1] /\ sending' = None
          /\ UNCHANGED <<upto, delivered, audit>>
      BY <2>2 DEF ExportMarks, engine, Core, ExportOK
    <3>2. ExportOK
      BY DEF Core
    <3>3. /\ marked' \in [Response -> Nat]
          /\ \A q \in Response : marked'[q] = IF q = sending THEN marked[q] + 1 ELSE marked[q]
      BY <3>1, <3>2 DEF ExportOK
    <3>4. delivered[sending] = marked[sending] + 1
      BY <3>1, <3>2, EngineAssumption DEF ExportOK
    <3>5. \A q \in Response : marked'[q] <= delivered'[q]
      BY <3>1, <3>2, <3>3, <3>4 DEF ExportOK
    <3> QED BY <3>1, <3>2, <3>3, <3>5 DEF ExportOK
  <2>3. CASE ExportEnds
    <3>1. upto' = Nothing /\ sending' = None /\ UNCHANGED <<marked, audit>>
      BY <2>3 DEF ExportEnds, engine
    <3>2. CASE delivered' = delivered
      BY <3>1, <3>2, ForgettingKeepsExport DEF Core
    <3>3. ASSUME NEW r \in Response, marked[r] < upto[r],
                 delivered' = [delivered EXCEPT ![r] = marked[r] + 1]
          PROVE  ExportOK'
      BY <1>0, <3>1, <3>3 DEF Core, ExportOK, Nothing
    <3> QED BY <2>3, <3>2, <3>3 DEF ExportEnds
  <2> QED BY <2>1, <2>2, <2>3 DEF Export
<1> QED BY <1>2, <1>4, <1>5 DEF Core
-----------------------------------------------------------------------------
(* The threads.                                                            *)

\* A step of a thread that leaves engine and export alone, within the work that
\* follows start-up.
LEMMA WorkKeeps ==
  ASSUME Core, UNCHANGED engine, now' \in {now, wall}, wall' \in Nat,
         UNCHANGED <<sending, delivered, marked>>,
         upto' = upto \/ upto' = [r \in Response |-> Len(audit[r])],
         \/ UNCHANGED <<stage, swept>>
         \/ /\ stage \notin {"off", "boot", "startup"}
            /\ stage' \in {"wait", "apply", "verify", "expire", "recover", "export"},
         lock' = "request" => stage' \in {"wait", "export"}
  PROVE  Core'
<1>1. now \in Nat /\ wall \in Nat /\ \A q \in Response : Len(audit[q]) \in Nat
  BY DEF Core, Proofs!Inv, Proofs!TypeOK
<1>2. UNCHANGED <<ram, audit, health, call>>
  BY DEF engine
<1>3. Proofs!Inv'
  BY <1>1, ClockKeepsInv DEF Core
<1>4. ThreadsOK' /\ CoveredOK'
  BY <1>2 DEF Core, ThreadsOK, CoveredOK, Uncertain
<1>5. ExportOK'
  BY <1>1, <1>2 DEF Core, ExportOK
<1> QED BY <1>3, <1>4, <1>5 DEF Core

\* Start-up: the clock is read, unfinished operations are recovered, and only
\* then the lock is released.
LEMMA StartupKeeps ==
  ASSUME Core, Startup
  PROVE  Core'
<1>1. CASE Boot
  <2>1. /\ Proofs!Inv' /\ UNCHANGED <<audit, call, wall, upto, sending, delivered, marked>>
        /\ stage' = "boot" /\ lock' = "scheduler" /\ call = Engine!Idle
    BY <1>1, EngineKeepsInv
    DEF Boot, Enter, Engine!Restart, Engine!store, export, Core, Proofs!Inv, Proofs!Process, Engine!Idle, Proofs!Idle
  <2>2. ThreadsOK' /\ CoveredOK'
    BY <2>1 DEF ThreadsOK, CoveredOK
  <2>3. ExportOK'
    BY <2>1 DEF Core, ExportOK
  <2> QED BY <2>1, <2>2, <2>3 DEF Core
<1>2. CASE Start
  <2>1. /\ UNCHANGED <<engine, audit, call, wall, lock, upto, sending, delivered, marked>>
        /\ stage = "boot" /\ stage' = "startup" /\ ~swept' /\ now' = wall
    BY <1>2 DEF Start, Enter, engine, export
  <2>2. Proofs!Inv'
    BY <2>1, ClockKeepsInv DEF Core
  <2>3. ThreadsOK' /\ CoveredOK'
    BY <2>1 DEF Core, ThreadsOK, CoveredOK, Engine!Idle
  <2>4. ExportOK'
    BY <2>1 DEF Core, ExportOK
  <2> QED BY <2>1, <2>2, <2>3, <2>4 DEF Core
<1>3. CASE Recover
  <2>1. Proofs!Inv'
    BY <1>3, EngineKeepsInv DEF Recover, Core
  <2>2. UNCHANGED <<wall, upto, sending, delivered, marked>>
    BY <1>3 DEF Recover, export
  <2> QED BY <1>3, <2>1, <2>2, RecoverKeeps, GrowthKeepsExport DEF Core
<1>4. CASE Started
  <2>1. /\ UNCHANGED <<engine, ram, audit, health, call, wall, now, upto, sending, delivered, marked>>
        /\ health = "up" /\ call = Engine!Idle /\ stage = "startup" /\ stage' = "wait" /\ lock' = "free"
    BY <1>4 DEF Started, Leave, Enter, Returned, engine, export
  <2>2. \A r \in Response : ~Uncertain(r)
    <3>1. CASE swept
      BY <2>1, <3>1 DEF Core, CoveredOK, Engine!Idle
    <3>2. CASE Engine!Unfinished = {}
      BY <3>2 DEF Engine!Unfinished, Uncertain
    <3> QED BY <1>4, <3>1, <3>2 DEF Started
  <2>3. Proofs!Inv'
    BY <2>1, ClockKeepsInv DEF Core, Proofs!Inv, Proofs!TypeOK
  <2>4. ThreadsOK' /\ CoveredOK'
    BY <2>1, <2>2 DEF ThreadsOK, CoveredOK, Uncertain
  <2>5. ExportOK'
    BY <2>1 DEF Core, ExportOK
  <2> QED BY <2>1, <2>3, <2>4, <2>5 DEF Core
<1> QED BY <1>1, <1>2, <1>3, <1>4 DEF Startup

\* An operation of the engine that a thread begins.
LEMMA CallKeeps ==
  ASSUME Core, UNCHANGED <<wall, lock, stage, export>>, stage \notin {"boot", "startup"},
         \/ Engine!ExpireDue
         \/ \E r \in Response : Engine!Submit(r) \/ Engine!ApplyDenied(r) \/ Engine!BeginApply(r)
                                \/ Engine!Verify(r)
  PROVE  Core'
<1>1. Proofs!Inv'
  BY EngineKeepsInv DEF Core
<1>2. UNCHANGED <<upto, sending, delivered, marked>>
  BY DEF export
<1>3. ThreadsOK' /\ CoveredOK' /\ \A q \in Response : Len(audit[q]) <= Len(audit'[q])
  BY OperationKeeps
<1> QED BY <1>1, <1>2, <1>3, GrowthKeepsExport DEF Core

\* The scheduler's pass.
LEMMA PassKeeps ==
  ASSUME Inv, Pass
  PROVE  Core'
<1>1. CASE TickBegins \/ TickRaises \/ TickMovesOn \/ TickFails
  <2>1. /\ UNCHANGED <<engine, wall, sending, delivered, marked>> /\ now' \in {now, wall}
        /\ stage \notin {"off", "boot", "startup"}
    BY <1>1 DEF TickBegins, TickRaises, TickMovesOn, TickFails, export
  <2>2. /\ upto' = upto \/ upto' = [r \in Response |-> Len(audit[r])]
        /\ stage' \in {"wait", "apply", "verify", "expire", "recover", "export"}
    BY <1>1 DEF TickBegins, TickRaises, TickMovesOn, TickFails, Leave, Enter, export
  <2>3. lock' = "request" => stage' \in {"wait", "export"}
    BY <1>1 DEF TickBegins, TickRaises, TickMovesOn, TickFails, Leave, Enter, Inv, Core, ThreadsOK
  <2>4. wall' \in Nat /\ Core
    BY <2>1 DEF Inv, Core
  <2> QED BY <2>1, <2>2, <2>3, <2>4, WorkKeeps
<1>2. CASE TickApplies \/ TickVerifies \/ TickExpires
  <2>1. /\ UNCHANGED <<wall, lock, stage, export>> /\ stage \in {"apply", "verify", "expire"}
    BY <1>2 DEF TickApplies, TickVerifies, TickExpires
  <2>2. \/ Engine!ExpireDue
        \/ \E r \in Response : Engine!ApplyDenied(r) \/ Engine!BeginApply(r) \/ Engine!Verify(r)
    BY <1>2 DEF TickApplies, TickVerifies, TickExpires, Inv, WorkOK
  <2> QED BY <2>1, <2>2, CallKeeps DEF Inv
<1> QED BY <1>1, <1>2 DEF Pass

\* A request.
LEMMA RequestKeeps ==
  ASSUME Inv, Request \/ \E r \in Response : Accept(r)
  PROVE  Core'
<1>1. CASE AcceptEnds \/ \E r \in Response : Accept(r)
  <2>1. /\ UNCHANGED <<engine, wall, stage, swept, upto, sending, delivered, marked>>
        /\ now' \in {now, wall} /\ (lock' = "request" => stage' \in {"wait", "export"})
    BY <1>1 DEF AcceptEnds, Accept, export
  <2>2. wall' \in Nat /\ Core
    BY <2>1 DEF Inv, Core
  <2> QED BY <2>1, <2>2, WorkKeeps
<1>2. CASE AcceptSubmits
  <2>1. /\ UNCHANGED <<wall, lock, stage, export>> /\ stage \in {"wait", "export"}
        /\ wanted \in Response /\ Engine!Submit(wanted)
    BY <1>2 DEF AcceptSubmits, Inv, Core, ThreadsOK, WorkOK
  <2> QED BY <2>1, CallKeeps DEF Inv
<1> QED BY <1>1, <1>2 DEF Request

\* The process ends, wherever its threads stand.
LEMMA DeathKeeps ==
  ASSUME Core, Crash \/ Stop
  PROVE  Core'
<1>1. Proofs!Inv'
  BY EngineKeepsInv DEF Core, Crash, Stop
<1>2. /\ health' = "down" /\ stage' = "off" /\ lock' = "scheduler" /\ upto' = Nothing /\ sending' = None
      /\ UNCHANGED <<audit, wall, delivered, marked>>
  BY DEF Crash, Stop, ThreadsDie, Enter, Engine!Crash, Engine!Stop, Engine!Down, Engine!store
<1>3. ThreadsOK' /\ CoveredOK'
  BY <1>2 DEF ThreadsOK, CoveredOK
<1>4. ExportOK'
  BY <1>2, ForgettingKeepsExport DEF Core
<1> QED BY <1>1, <1>2, <1>3, <1>4 DEF Core

\* The engine carries on, and the world around it.
LEMMA AroundKeeps ==
  ASSUME Core, EngineWorks \/ WallTick \/ \E r \in Response : EffectLost(r)
  PROVE  Core'
<1>1. CASE EngineWorks
  <2>1. Proofs!Inv' /\ UNCHANGED <<wall, upto, sending, delivered, marked>>
    BY <1>1, EngineKeepsInv DEF EngineWorks, export, Core
  <2>2. ThreadsOK' /\ CoveredOK' /\ \A q \in Response : Len(audit[q]) <= Len(audit'[q])
    BY <1>1, ProgressKeeps DEF EngineWorks
  <2> QED BY <2>1, <2>2, GrowthKeepsExport DEF Core
<1>2. CASE WallTick
  <2>1. /\ UNCHANGED <<engine, stage, swept, lock, upto, sending, delivered, marked>>
        /\ now' = now /\ wall' \in Nat
    BY <1>2 DEF WallTick, thread, export, Core
  <2>2. lock' = "request" => stage' \in {"wait", "export"}
    BY <2>1 DEF Core, ThreadsOK
  <2> QED BY <2>1, <2>2, WorkKeeps
<1>3. ASSUME NEW r \in Response, EffectLost(r) PROVE Core'
  <2>1. Proofs!Inv'
    BY <1>3, EngineKeepsInv DEF EffectLost, Core
  <2>2. UNCHANGED <<ram, audit, health, call, wall, lock, stage, swept, upto, sending, delivered, marked>>
    BY <1>3 DEF EffectLost, Engine!EffectLost, Engine!store, thread, export
  <2> QED BY <2>1, <2>2 DEF Core, ThreadsOK, CoveredOK, Uncertain, ExportOK
<1> QED BY <1>1, <1>2, <1>3
-----------------------------------------------------------------------------
(* The theorems.                                                           *)

\* The engine keeps its own invariant inside the service, and the threads keep
\* to the order the service promises, across crashes and storage failures.
THEOREM Invariance == Spec => []Inv
<1>1. Init => Inv
  <2> SUFFICES ASSUME Init PROVE Inv
    OBVIOUS
  <2>1. Proofs!Inv
    <3>1. Proofs!Init
      BY DEF Init, Engine!Init, Proofs!Init, Engine!NoRecord, Proofs!NoRecord, Engine!Idle, Proofs!Idle
    <3> QED BY <3>1, Proofs!InitEstablishesInv, EngineAssumption DEF IsFiniteSet, Proofs!IsFiniteSet
  <2>2. ThreadsOK /\ CoveredOK /\ wall \in Nat
    BY DEF Init, Engine!Init, ThreadsOK, CoveredOK
  <2>3. ExportOK /\ WorkOK
    BY DEF Init, Engine!Init, Nothing, ExportOK, WorkOK
  <2> QED BY <2>1, <2>2, <2>3 DEF Inv, Core
<1>2. Inv /\ [Next]_vars => Inv'
  <2> SUFFICES ASSUME Inv, [Next]_vars PROVE Inv'
    OBVIOUS
  <2>1. CASE UNCHANGED vars
    <3>1. /\ UNCHANGED <<engine, now, wall, stage, swept, lock, upto, sending, delivered, marked>>
          /\ UNCHANGED <<queue, wanted>>
      BY <2>1 DEF vars, thread, export
    <3>2. Core /\ wall' \in Nat /\ (lock' = "request" => stage' \in {"wait", "export"})
      BY <3>1 DEF Inv, Core, ThreadsOK
    <3>3. Core'
      BY <3>1, <3>2, WorkKeeps
    <3> QED BY <3>1, <3>3 DEF Inv, WorkOK
  <2>2. CASE Next
    <3>1. Core'
      BY <2>2, StartupKeeps, PassKeeps, ExportKeeps, RequestKeeps, DeathKeeps, AroundKeeps DEF Inv, Next
    <3>2. WorkOK'
      <4>1. CASE EngineWorks \/ WallTick \/ \E r \in Response : EffectLost(r)
        BY <4>1 DEF EngineWorks, WallTick, EffectLost, thread, Inv, WorkOK
      <4>2. CASE Startup \/ Crash \/ Stop
        BY <4>2 DEF Startup, Boot, Start, Recover, Started, Crash, Stop, ThreadsDie, Leave, Enter, Inv, WorkOK
      <4>3. CASE Pass
        BY <4>3 DEF Pass, TickBegins, TickApplies, TickRaises, TickVerifies, TickExpires, TickMovesOn,
                    TickFails, Leave, Enter, PendingApply, AwaitingVerification, Inv, WorkOK
      <4>4. CASE Export \/ Request \/ \E r \in Response : Accept(r)
        BY <4>4 DEF Export, ExportCreates, ExportMarks, ExportEnds, Request, AcceptSubmits, AcceptEnds,
                    Accept, thread, Inv, WorkOK
      <4> QED BY <2>2, <4>1, <4>2, <4>3, <4>4 DEF Next
    <3> QED BY <3>1, <3>2 DEF Inv
  <2> QED BY <2>1, <2>2
<1> QED BY <1>1, <1>2, PTL DEF Spec

\* Before a request or a pass acts, no record waits for an apply outcome that
\* nobody is going to deliver.
THEOREM Compensation == Spec => []UncertainApplyCompensated
<1>1. Inv => UncertainApplyCompensated
  BY DEF Inv, Core, CoveredOK, Uncertain, UncertainApplyCompensated
<1> QED BY <1>1, Invariance, PTL

\* Marked events are delivered and delivered events are committed.
THEOREM ExportIsFaithful == Spec => []ExportFaithful
<1>1. Inv => ExportFaithful
  BY DEF Inv, Core, ExportOK, ExportFaithful
<1> QED BY <1>1, Invariance, PTL

\* Inside the service, whatever times its passes and requests read, the engine
\* keeps what it promises: nothing is refused by the store, what is in force is
\* recoverable from it, targets are exclusive and nothing is applied twice.
THEOREM EnginePromises ==
  Spec => [](/\ Engine!StoreAlwaysAccepts
             /\ Engine!ContainmentRecoverable
             /\ Engine!OneContainmentPerTarget
             /\ Engine!AppliedAtMostOnce)
<1> DEFINE P == /\ Engine!StoreAlwaysAccepts
                /\ Engine!ContainmentRecoverable
                /\ Engine!OneContainmentPerTarget
                /\ Engine!AppliedAtMostOnce
<1>1. Inv => P
  <2> SUFFICES ASSUME Proofs!Durable PROVE P
    BY DEF Inv, Core, Proofs!Inv
  <2>1. Engine!StoreAlwaysAccepts
    BY DEF Proofs!Durable, Proofs!RecordOK, Engine!StoreAlwaysAccepts, Engine!LoadConsistent,
           Engine!Latest, Proofs!Latest
  <2>2. \A r \in Response : Engine!Unresolved(disk[r]) <=> Proofs!Unresolved(disk[r])
    BY DEF Engine!Unresolved, Proofs!Unresolved, Engine!Active, Proofs!Active
  <2>3. Engine!ContainmentRecoverable /\ Engine!AppliedAtMostOnce
    BY <2>2 DEF Proofs!Durable, Proofs!EffectOK, Engine!ContainmentRecoverable, Engine!AppliedAtMostOnce
  <2>4. Engine!OneContainmentPerTarget
    BY DEF Proofs!Durable, Proofs!EffectOK, Proofs!Exclusive, Engine!OneContainmentPerTarget
  <2> QED BY <2>1, <2>3, <2>4
<1> QED BY <1>1, Invariance, PTL
=============================================================================
