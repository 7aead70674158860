------------------------- MODULE OrchestratorProofs -------------------------
(***************************************************************************)
(* Proofs about Orchestrator, for every set of responses, every number of  *)
(* crashes and adapter failures and every clock behaviour.                 *)
(***************************************************************************)
EXTENDS Orchestrator, FiniteSetTheorems, TLAPS

\* What the store holds agrees with itself: the snapshot is the last audit
\* event, an adapter reference is exactly a claimed apply intent, and an
\* operation is pending from the intent until its outcome is committed.
RecordOK(r) ==
  /\ disk[r].state = Latest(audit[r])
  /\ disk[r].number = Len(audit[r])
  /\ disk[r].state = "NONE" => disk[r] = NoRecord
  /\ disk[r].ref <=> r \in intents
  /\ disk[r].ref => disk[r].authorized
  /\ disk[r].pending # "none" => disk[r].ref
  /\ disk[r].state \in Active \cup TERMINAL_STATES => disk[r].ref
  /\ disk[r].state \in {"REQUESTED", "FAILED"} /\ disk[r].ref => disk[r].pending # "none"
  /\ disk[r].state \in TERMINAL_STATES => disk[r].pending = "none"

\* What is in force on the enforcement points is covered by the store.
EffectOK(r) ==
  /\ effect[r] => Unresolved(disk[r])
  /\ applies[r] <= 1
  /\ applies[r] > 0 => r \in intents

\* No two unresolved responses share a target.
Exclusive ==
  \A r, o \in Response :
    Unresolved(disk[r]) /\ Unresolved(disk[o]) /\ TargetOf[r] = TargetOf[o] => r = o

Durable == (\A r \in Response : RecordOK(r) /\ EffectOK(r)) /\ Exclusive /\ ~refused

\* A running process works on exactly what is committed, and stands where the
\* committed record says it does.
Process ==
  /\ health = "up" => ram = disk
  /\ health # "up" => call = Idle
  /\ call.pc = "idle" => call = Idle
  /\ call.pc \notin {"idle", "batch"} => call.on \in Response \ call.todo
  /\ call.pc = "admit" => /\ disk[call.on].state = "REQUESTED"
                          /\ ~disk[call.on].authorized
  /\ call.pc \in {"applying", "applied"} => /\ disk[call.on].state = "REQUESTED"
                                            /\ disk[call.on].pending = "apply"
  /\ call.pc = "applying" => applies[call.on] = 0 /\ ~effect[call.on]
  /\ call.pc \in {"reverting", "reverted"} =>
       /\ disk[call.on].pending = "revert"
       /\ call.terminal = "EXPIRED" => disk[call.on].state = "VERIFIED"
  /\ call.pc = "reverted" /\ call.ok => ~effect[call.on]
  /\ \A r \in call.todo : Unresolved(disk[r])

\* The inductive invariant.
Inv == TypeOK /\ Durable /\ Process
-----------------------------------------------------------------------------
(* The two kinds of commit keep the store's half of the invariant.         *)

\* What a snapshot needs for the store to stay consistent with itself.
Shaped(r, new, claims) ==
  /\ new.ref <=> r \in claims
  /\ new.ref => new.authorized
  /\ new.pending # "none" => new.ref
  /\ new.state \in Active \cup TERMINAL_STATES => new.ref
  /\ new.state \in {"REQUESTED", "FAILED"} /\ new.ref => new.pending # "none"
  /\ new.state \in TERMINAL_STATES => new.pending = "none"
  /\ effect[r] => Unresolved(new)

\* The transition an operation asks for is one the ledger accepts and that
\* engages no target.
EventFits(r, new) ==
  /\ new.state \in State
  /\ ValidTransition(disk[r].state, new.number, new.state, disk[r].pending # "none", audit[r])
  /\ Shaped(r, new, intents)
  /\ Unresolved(new) => Unresolved(disk[r])

\* So is the checkpoint, which may engage a target nothing else holds.
SnapshotFits(r, new) ==
  /\ ValidSnapshot(r, new)
  /\ Shaped(r, new, IF new.pending = "apply" THEN intents \cup {r} ELSE intents)
  /\ \/ Unresolved(new) => Unresolved(disk[r])
     \/ \A o \in Response \ {r} : TargetOf[o] = TargetOf[r] => ~Unresolved(disk[o])

\* Appending an event makes it the latest one.
LEMMA LatestOfAppend ==
  ASSUME NEW h \in Seq(State), NEW s \in State
  PROVE  /\ Append(h, s) \in Seq(State)
         /\ Latest(Append(h, s)) = s
         /\ Len(Append(h, s)) = Len(h) + 1
BY DEF Latest

\* The latest state of a history is "NONE" exactly when there is no event.
LEMMA LatestOfHistory ==
  ASSUME NEW h \in Seq(State)
  PROVE  /\ Len(h) > 0 => Latest(h) \in State
         /\ Len(h) = 0 <=> Latest(h) = "NONE"
<1>1. Len(h) \in Nat /\ (Len(h) = 0 <=> h = <<>>)
  OBVIOUS
<1>2. CASE Len(h) = 0
  BY <1>1, <1>2 DEF Latest
<1>3. CASE Len(h) # 0
  <2>1. Latest(h) = h[Len(h)] /\ Len(h) \in 1..Len(h)
    BY <1>1, <1>3 DEF Latest
  <2>2. h[Len(h)] \in State
    BY <2>1
  <2> QED BY <1>1, <1>3, <2>1, <2>2 DEF State
<1> QED BY <1>2, <1>3

\* A fitting audited transition, once committed, keeps the store consistent.
LEMMA EventKeepsDurable ==
  ASSUME TypeOK, Durable, NEW r \in Response, NEW new \in Record,
         EventFits(r, new), WriteEvent(r, new), UNCHANGED <<effect, applies, refused>>
  PROVE  Durable'
<1>1. /\ disk' = [disk EXCEPT ![r] = new]
      /\ audit' = [audit EXCEPT ![r] = Append(@, new.state)]
      /\ intents' = intents
      /\ new.number = Len(audit[r]) + 1
      /\ new.state \in State
  BY DEF WriteEvent, EventFits, ValidTransition
<1>2. ASSUME NEW q \in Response PROVE RecordOK(q)'
  <2>1. CASE q = r
    <3>1. disk'[q] = new /\ audit'[q] = Append(audit[r], new.state)
      BY <1>1, <2>1 DEF TypeOK
    <3>2. audit[r] \in Seq(State)
      BY DEF TypeOK
    <3>3. Latest(audit'[q]) = new.state /\ Len(audit'[q]) = new.number
      BY <1>1, <3>1, <3>2, LatestOfAppend
    <3> QED BY <1>1, <2>1, <3>1, <3>3 DEF RecordOK, EventFits, Shaped, State
  <2>2. CASE q # r
    BY <1>1, <2>2 DEF Durable, RecordOK, TypeOK
  <2> QED BY <2>1, <2>2
<1>3. ASSUME NEW q \in Response PROVE EffectOK(q)'
  BY <1>1 DEF Durable, EffectOK, EventFits, Shaped, TypeOK
<1>4. Exclusive'
  BY <1>1 DEF Durable, Exclusive, EventFits, TypeOK
<1> QED BY <1>2, <1>3, <1>4 DEF Durable

\* So does a fitting checkpoint without an event.
LEMMA SnapshotKeepsDurable ==
  ASSUME TypeOK, Durable, NEW r \in Response, NEW new \in Record,
         SnapshotFits(r, new), WriteSnapshot(r, new), UNCHANGED <<effect, applies, refused>>
  PROVE  Durable'
<1>1. /\ disk' = [disk EXCEPT ![r] = new]
      /\ audit' = audit
      /\ intents' = IF new.pending = "apply" THEN intents \cup {r} ELSE intents
  BY DEF WriteSnapshot
<1>2. ASSUME NEW q \in Response PROVE RecordOK(q)'
  <2>1. CASE q = r
    <3>1. disk'[q] = new
      BY <1>1, <2>1 DEF TypeOK
    <3>2. new.state # "NONE"
      BY LatestOfHistory DEF SnapshotFits, ValidSnapshot, TypeOK, State
    <3> QED BY <1>1, <2>1, <3>1, <3>2 DEF RecordOK, SnapshotFits, ValidSnapshot, Shaped
  <2>2. CASE q # r
    BY <1>1, <2>2 DEF Durable, RecordOK, TypeOK
  <2> QED BY <2>1, <2>2
<1>3. ASSUME NEW q \in Response PROVE EffectOK(q)'
  BY <1>1 DEF Durable, EffectOK, SnapshotFits, Shaped, TypeOK
<1>4. Exclusive'
  BY <1>1 DEF Durable, Exclusive, SnapshotFits, TypeOK
<1> QED BY <1>2, <1>3, <1>4 DEF Durable

-----------------------------------------------------------------------------
(* The engine's two ways of committing, with their storage faults.         *)

\* _transition, whatever becomes of its commit, keeps the invariant's store half,
\* is never refused, and leaves a process that still runs where `next` says.
LEMMA TransitionStep ==
  ASSUME Inv, NEW r \in Response, NEW new \in Record, NEW next \in Call,
         health = "up", EventFits(r, new),
         Transition(r, new, next), UNCHANGED <<world, failures>>
  PROVE  /\ TypeOK' /\ Durable'
         /\ \/ /\ health' = "up" /\ call' = next
               /\ disk' = [disk EXCEPT ![r] = new] /\ ram' = disk'
            \/ health' = "failed" /\ call' = Idle
<1> USE DEF Inv
<1>1. ram = disk
  BY DEF Process
<1>2. ValidTransition(ram[r].state, new.number, new.state, ram[r].pending # "none", audit[r])
  BY <1>1 DEF EventFits
<1>3. /\ WriteEvent(r, new) \/ UNCHANGED store
      /\ UNCHANGED refused
      /\ \/ /\ WriteEvent(r, new) /\ ram' = [ram EXCEPT ![r] = new]
            /\ call' = next /\ UNCHANGED <<health, crashes>>
         \/ /\ crashes' = crashes + 1 /\ StorageFails /\ UNCHANGED ram
  BY <1>2 DEF Transition, StorageFault
<1>4. UNCHANGED <<catalog, clock, effect, applies, failures>>
  BY DEF world
<1>5. Durable'
  <2>1. CASE WriteEvent(r, new)
    BY <1>3, <1>4, <2>1, EventKeepsDurable
  <2>2. CASE UNCHANGED store
    BY <1>3, <1>4, <2>2 DEF store, Durable, RecordOK, EffectOK, Exclusive
  <2> QED BY <1>3, <2>1, <2>2
<1>6. TypeOK'
  <2>1. disk' \in [Response -> Record] /\ intents' \in SUBSET Response
    BY <1>3 DEF TypeOK, WriteEvent, store
  <2>2. audit' \in [Response -> Seq(State)]
    <3>1. audit[r] \in Seq(State) /\ new.state \in State
      BY DEF TypeOK, EventFits
    <3>2. Append(audit[r], new.state) \in Seq(State)
      BY <3>1, LatestOfAppend
    <3> QED BY <1>3, <3>2 DEF TypeOK, WriteEvent, store
  <2>3. admitted' \in [Response -> Nat]
    BY <1>3 DEF TypeOK, WriteEvent, store
  <2>4. ram' \in [Response -> Record]
    BY <1>3 DEF TypeOK
  <2>7. crashes' \in Nat
    BY <1>3 DEF TypeOK
  <2>5. Idle \in Call
    BY DEF Idle, Call, TERMINAL_STATES
  <2>6. call' \in Call /\ health' \in {"up", "failed", "down"}
    BY <1>3, <2>5 DEF TypeOK, StorageFails
  <2> QED BY <1>3, <1>4, <2>1, <2>2, <2>3, <2>4, <2>6, <2>7 DEF TypeOK
<1>7. \/ /\ health' = "up" /\ call' = next
         /\ disk' = [disk EXCEPT ![r] = new] /\ ram' = disk'
      \/ health' = "failed" /\ call' = Idle
  BY <1>1, <1>3 DEF WriteEvent, StorageFails
<1> QED BY <1>5, <1>6, <1>7

\* The same of _checkpoint without an event.
LEMMA CheckpointStep ==
  ASSUME Inv, NEW r \in Response, NEW new \in Record, NEW next \in Call,
         health = "up", SnapshotFits(r, new),
         Checkpoint(r, new, next), UNCHANGED <<catalog, clock, effect, applies>>,
         failures' \in Nat
  PROVE  /\ TypeOK' /\ Durable'
         /\ \/ /\ health' = "up" /\ call' = next
               /\ disk' = [disk EXCEPT ![r] = new] /\ ram' = disk'
            \/ health' = "failed" /\ call' = Idle
<1> USE DEF Inv
<1>1. ram = disk
  BY DEF Process
<1>2. ValidSnapshot(r, new)
  BY DEF SnapshotFits
<1>3. /\ WriteSnapshot(r, new) \/ UNCHANGED store
      /\ UNCHANGED refused
      /\ ram' = [ram EXCEPT ![r] = new]
      /\ \/ /\ WriteSnapshot(r, new) /\ call' = next /\ UNCHANGED <<health, crashes>>
         \/ /\ crashes' = crashes + 1 /\ StorageFails
  BY <1>2 DEF Checkpoint, StorageFault
<1>5. Durable'
  <2>1. CASE WriteSnapshot(r, new)
    BY <1>3, <2>1, SnapshotKeepsDurable
  <2>2. CASE UNCHANGED store
    BY <1>3, <2>2 DEF store, Durable, RecordOK, EffectOK, Exclusive
  <2> QED BY <1>3, <2>1, <2>2
<1>6. TypeOK'
  <2>1. disk' \in [Response -> Record] /\ intents' \in SUBSET Response
    BY <1>3 DEF TypeOK, WriteSnapshot, store
  <2>2. audit' \in [Response -> Seq(State)] /\ admitted' \in [Response -> Nat]
    BY <1>3 DEF TypeOK, WriteSnapshot, store
  <2>4. ram' \in [Response -> Record]
    BY <1>3 DEF TypeOK
  <2>7. crashes' \in Nat
    BY <1>3 DEF TypeOK
  <2>5. Idle \in Call
    BY DEF Idle, Call, TERMINAL_STATES
  <2>6. call' \in Call /\ health' \in {"up", "failed", "down"}
    BY <1>3, <2>5 DEF TypeOK, StorageFails
  <2> QED BY <1>3, <2>1, <2>2, <2>4, <2>6, <2>7 DEF TypeOK
<1>7. \/ /\ health' = "up" /\ call' = next
         /\ disk' = [disk EXCEPT ![r] = new] /\ ram' = disk'
      \/ health' = "failed" /\ call' = Idle
  BY <1>1, <1>3 DEF WriteSnapshot, StorageFails
<1> QED BY <1>5, <1>6, <1>7
-----------------------------------------------------------------------------
(* One lemma per action that commits.                                      *)

\* The positions an operation may be left in are of the type of `call`.
LEMMA CallTypes ==
  ASSUME NEW r \in Response
  PROVE  /\ Idle \in Call
         /\ At("admit", r) \in Call /\ At("applying", r) \in Call
BY DEF Idle, At, Call, TERMINAL_STATES

\* The history of a response with a committed event is not empty.
LEMMA HistoryOf ==
  ASSUME TypeOK, Durable, NEW r \in Response
  PROVE  /\ disk[r] \in Record
         /\ disk[r].number = Len(audit[r]) /\ Len(audit[r]) \in Nat
         /\ disk[r].state = Latest(audit[r])
         /\ disk[r].state # "NONE" => Len(audit[r]) > 0
BY LatestOfHistory DEF TypeOK, Durable, RecordOK

\* Beginning a reversal of an unresolved response.
LEMMA RevertStep ==
  ASSUME Inv, health = "up", NEW r \in Response, Unresolved(disk[r]),
         NEW terminal \in TERMINAL_STATES, NEW batch \in {"none", "expire", "recover"},
         terminal = "EXPIRED" => disk[r].state = "VERIFIED",
         NEW todo \in SUBSET Response, r \notin todo, \A o \in todo : Unresolved(disk[o]),
         BeginRevert(r, terminal, batch, todo),
         UNCHANGED world, failures' \in Nat
  PROVE  Inv'
<1> DEFINE new == [disk[r] EXCEPT !.pending = "revert"]
           next == [At("reverting", r) EXCEPT !.terminal = terminal,
                                              !.batch = batch, !.todo = todo]
<1>1. /\ disk[r] \in Record /\ RecordOK(r) /\ EffectOK(r)
      /\ ram = disk
  BY DEF Inv, TypeOK, Durable, Process
<1>2. new \in Record
  BY <1>1 DEF Record
<1>3. next \in Call
  BY DEF At, Idle, Call
<1>4. disk[r].ref /\ disk[r].state \notin TERMINAL_STATES \cup {"NONE"}
  BY <1>1 DEF RecordOK, Unresolved, NoRecord, Active, TERMINAL_STATES
<1>5. SnapshotFits(r, new)
  <2>1. /\ new.state = disk[r].state /\ new.number = disk[r].number
        /\ new.ref = disk[r].ref /\ new.authorized = disk[r].authorized
        /\ new.pending = "revert"
    BY <1>1 DEF Record
  <2>2. ValidSnapshot(r, new)
    BY <2>1, <1>4, HistoryOf DEF Inv, ValidSnapshot
  <2>3. Shaped(r, new, intents)
    BY <2>1, <1>1, <1>4 DEF Shaped, RecordOK, Unresolved
  <2> QED BY <2>1, <2>2, <2>3 DEF SnapshotFits
<1>6. Checkpoint(r, new, next) /\ UNCHANGED <<catalog, clock, effect, applies>>
  BY <1>1 DEF BeginRevert, world
<1>7. /\ TypeOK' /\ Durable'
      /\ \/ /\ health' = "up" /\ call' = next
            /\ disk' = [disk EXCEPT ![r] = new] /\ ram' = disk'
         \/ health' = "failed" /\ call' = Idle
  BY <1>2, <1>3, <1>5, <1>6, CheckpointStep
<1>8. Process'
  <2>1. CASE health' = "failed" /\ call' = Idle
    BY <2>1 DEF Process, Idle
  <2>2. CASE /\ health' = "up" /\ call' = next
             /\ disk' = [disk EXCEPT ![r] = new] /\ ram' = disk'
    <3>1. /\ call'.pc = "reverting" /\ call'.on = r /\ call'.todo = todo
          /\ call'.terminal = terminal
      BY <2>2 DEF At, Idle
    <3>2. /\ disk'[r].pending = "revert" /\ disk'[r].state = disk[r].state
          /\ \A o \in todo : disk'[o] = disk[o]
      BY <1>1, <2>2 DEF Record, Inv, TypeOK
    <3> QED BY <2>2, <3>1, <3>2 DEF Process
  <2> QED BY <1>7, <2>1, <2>2
<1> QED BY <1>7, <1>8 DEF Inv

\* An operation that ends with a transition, or goes on with the rest of a
\* batch, none of which it touched.
LEMMA EventStep ==
  ASSUME Inv, health = "up", NEW r \in Response, NEW new \in Record, EventFits(r, new),
         NEW next \in Call,
         \/ next = Idle
         \/ /\ next.pc = "batch" /\ r \notin next.todo
            /\ \A o \in next.todo : Unresolved(disk[o]),
         Transition(r, new, next), UNCHANGED <<world, failures>>
  PROVE  Inv'
<1>1. /\ TypeOK' /\ Durable'
      /\ \/ /\ health' = "up" /\ call' = next
            /\ disk' = [disk EXCEPT ![r] = new] /\ ram' = disk'
         \/ health' = "failed" /\ call' = Idle
  BY TransitionStep
<1>2. CASE call' = Idle
  BY <1>1, <1>2 DEF Inv, Process, Idle
<1>3. CASE /\ health' = "up" /\ call' = next
           /\ disk' = [disk EXCEPT ![r] = new] /\ ram' = disk'
           /\ next # Idle
  <2>1. \A o \in next.todo : disk'[o] = disk[o]
    BY <1>3 DEF Call, Inv, TypeOK
  <2> QED BY <1>1, <1>3, <2>1 DEF Inv, Process
<1> QED BY <1>1, <1>2, <1>3

\* The failure of the operation on a response whose lifecycle is not over:
\* always a transition the ledger accepts.
LEMMA FailFits ==
  ASSUME Inv, health = "up", NEW r \in Response,
         \/ disk[r].state = "REQUESTED"
         \/ disk[r].pending # "none"
  PROVE  Moved(r, "FAILED") \in Record /\ EventFits(r, Moved(r, "FAILED"))
<1> DEFINE new == Moved(r, "FAILED")
<1>1. disk[r] \in Record /\ RecordOK(r) /\ EffectOK(r) /\ ram = disk
  BY DEF Inv, TypeOK, Durable, Process
<1>2. /\ new \in Record
      /\ new.state = "FAILED" /\ new.number = disk[r].number + 1
      /\ new.ref = disk[r].ref /\ new.authorized = disk[r].authorized
      /\ new.pending = disk[r].pending
  <2>1. new = [disk[r] EXCEPT !.state = "FAILED", !.number = disk[r].number + 1]
    BY <1>1 DEF Moved
  <2>2. disk[r].number + 1 \in Nat
    BY <1>1 DEF Record
  <2>3. new \in Record
    BY <1>1, <2>1, <2>2 DEF Record, State
  <2> QED BY <1>1, <2>1, <2>3 DEF Record
<1>3. disk[r].state \in {"REQUESTED", "APPLIED", "VERIFIED", "FAILED"}
  BY <1>1 DEF RecordOK, NoRecord, Record, State, TERMINAL_STATES
<1>4. ValidTransition(disk[r].state, new.number, new.state, disk[r].pending # "none", audit[r])
  <2>1. "FAILED" \in Allowed(disk[r].state)
    BY <1>3 DEF Allowed
  <2> QED BY <1>1, <1>2, <1>3, <2>1, HistoryOf DEF Inv, ValidTransition
<1>5. Shaped(r, new, intents) /\ (Unresolved(new) => Unresolved(disk[r]))
  BY <1>1, <1>2, <1>3
     DEF Shaped, RecordOK, EffectOK, Unresolved, Active, TERMINAL_STATES
<1> QED BY <1>2, <1>4, <1>5 DEF EventFits, State

\* submit, up to the committed REQUESTED event.
LEMMA SubmitKeepsInv ==
  ASSUME Inv, NEW r \in Response, Submit(r)
  PROVE  Inv'
<1>1. /\ health = "up" /\ ram = disk /\ disk[r] = NoRecord
      /\ RecordOK(r) /\ EffectOK(r)
  BY DEF Submit, Ready, Inv, Process, Durable
<1>2. PICK until \in clock + 1 .. clock + AuthLife :
        Transition(r, [NoRecord EXCEPT !.state = "REQUESTED", !.number = 1,
                                       !.expires = clock + Ttl,
                                       !.until = until, !.policy = catalog],
                   At("admit", r))
  BY DEF Submit
<1> DEFINE new == [NoRecord EXCEPT !.state = "REQUESTED", !.number = 1,
                                   !.expires = clock + Ttl,
                                   !.until = until, !.policy = catalog]
<1>3. /\ new.state = "REQUESTED" /\ new.number = 1 /\ ~new.ref
      /\ ~new.authorized /\ new.pending = "none"
  BY DEF NoRecord
<1>4. new \in Record
  <2>1. clock + Ttl \in Nat /\ until \in Nat /\ catalog \in 0..Catalogs
    BY ConstantsAssumption DEF Inv, TypeOK
  <2> QED BY <2>1 DEF NoRecord, Record, State
<1>5. EventFits(r, new)
  <2>1. Len(audit[r]) = 0 /\ Latest(audit[r]) = "NONE"
    BY <1>1 DEF RecordOK, NoRecord
  <2>2. ValidTransition(disk[r].state, new.number, new.state, disk[r].pending # "none", audit[r])
    BY <1>1, <1>3, <2>1 DEF ValidTransition, Allowed, NoRecord
  <2>3. Shaped(r, new, intents) /\ ~Unresolved(new)
    BY <1>1, <1>3 DEF Shaped, RecordOK, EffectOK, Unresolved, NoRecord, Active, TERMINAL_STATES
  <2> QED BY <1>3, <2>2, <2>3 DEF EventFits, State
<1>6. /\ TypeOK' /\ Durable'
      /\ \/ /\ health' = "up" /\ call' = At("admit", r)
            /\ disk' = [disk EXCEPT ![r] = new] /\ ram' = disk'
         \/ health' = "failed" /\ call' = Idle
  <2>1. At("admit", r) \in Call /\ UNCHANGED <<world, failures>>
    BY CallTypes DEF Submit
  <2> HIDE DEF new
  <2> QED BY <1>1, <1>2, <1>4, <1>5, <2>1, TransitionStep DEF new
<1>7. CASE call' = Idle
  BY <1>6, <1>7 DEF Inv, Process, Idle, At
<1>8. CASE /\ health' = "up" /\ call' = At("admit", r)
           /\ disk' = [disk EXCEPT ![r] = new] /\ ram' = disk'
  <2>1. disk'[r] = new
    BY <1>8 DEF Inv, TypeOK
  <2>2. /\ call'.pc = "admit" /\ call'.on = r /\ call'.todo = {}
    BY <1>8 DEF At, Idle
  <2> QED BY <1>3, <1>6, <1>8, <2>1, <2>2 DEF Inv, Process
<1> QED BY <1>6, <1>7, <1>8

\* submit, from that event to the denial or the authorization.
LEMMA AdmitKeepsInv ==
  ASSUME Inv, Admit
  PROVE  Inv'
<1> DEFINE r == call.on
           new == [ram[r] EXCEPT !.authorized = TRUE]
<1>1. /\ health = "up" /\ ram = disk /\ r \in Response
      /\ disk[r].state = "REQUESTED" /\ ~disk[r].authorized
      /\ disk[r] \in Record /\ RecordOK(r) /\ EffectOK(r)
  BY DEF Admit, Running, Inv, Process, Durable, TypeOK
<1>2. UNCHANGED <<world, failures>>
  BY DEF Admit
<1>3. CASE Fail(r, Idle)
  BY <1>1, <1>2, <1>3, FailFits, CallTypes, EventStep DEF Fail
<1>4. CASE Checkpoint(r, new, Idle)
  <2>1. /\ new \in Record /\ new.state = "REQUESTED" /\ new.number = disk[r].number
        /\ ~new.ref /\ new.authorized /\ new.pending = "none"
    BY <1>1 DEF Record, RecordOK
  <2>2. SnapshotFits(r, new)
    <3>1. ValidSnapshot(r, new)
      BY <1>1, <2>1, HistoryOf DEF Inv, ValidSnapshot
    <3>2. Shaped(r, new, intents) /\ ~Unresolved(new)
      BY <1>1, <2>1 DEF Shaped, RecordOK, EffectOK, Unresolved, Active, TERMINAL_STATES
    <3> QED BY <2>1, <3>1, <3>2 DEF SnapshotFits
  <2>3. TypeOK' /\ Durable' /\ call' = Idle /\ (health' = "up" => ram' = disk')
    <3>1. Idle \in Call /\ failures' \in Nat /\ UNCHANGED <<catalog, clock, effect, applies>>
      BY <1>1, <1>2, CallTypes DEF Inv, TypeOK, world
    <3> HIDE DEF new
    <3> QED BY <1>1, <1>4, <2>1, <2>2, <3>1, CheckpointStep
  <2> QED BY <2>3 DEF Inv, Process, Idle
<1> QED BY <1>3, <1>4 DEF Admit

\* apply of a command that outlived its authorization.
LEMMA ApplyDeniedKeepsInv ==
  ASSUME Inv, NEW r \in Response, ApplyDenied(r)
  PROVE  Inv'
<1>1. health = "up" /\ disk[r].state = "REQUESTED"
  BY DEF ApplyDenied, Ready, Applicable, Inv, Process
<1> QED BY <1>1, FailFits, CallTypes, EventStep DEF ApplyDenied, Fail

\* apply, up to the durable intent: the target is free, so exclusion is kept.
LEMMA BeginApplyKeepsInv ==
  ASSUME Inv, NEW r \in Response, BeginApply(r)
  PROVE  Inv'
<1> DEFINE new == [ram[r] EXCEPT !.ref = TRUE, !.pending = "apply"]
<1>1. /\ health = "up" /\ ram = disk
      /\ disk[r].state = "REQUESTED" /\ disk[r].authorized /\ ~disk[r].ref
      /\ disk[r] \in Record /\ RecordOK(r) /\ EffectOK(r)
  BY DEF BeginApply, Ready, Applicable, Inv, Process, Durable, TypeOK
<1>2. /\ new \in Record /\ new.state = "REQUESTED" /\ new.number = disk[r].number
      /\ new.ref /\ new.authorized /\ new.pending = "apply"
  BY <1>1 DEF Record
<1>3. r \notin intents /\ ~Unresolved(disk[r]) /\ ~effect[r] /\ applies[r] = 0
  BY <1>1 DEF RecordOK, EffectOK, Unresolved, Active, Inv, TypeOK
<1>4. SnapshotFits(r, new)
  <2>1. ValidSnapshot(r, new)
    BY <1>1, <1>2, <1>3, HistoryOf DEF Inv, ValidSnapshot
  <2>2. Shaped(r, new, intents \cup {r})
    BY <1>2, <1>3 DEF Shaped, TERMINAL_STATES
  <2>3. \A o \in Response \ {r} : TargetOf[o] = TargetOf[r] => ~Unresolved(disk[o])
    BY <1>1 DEF BeginApply, TargetAvailable
  <2> QED BY <1>2, <2>1, <2>2, <2>3 DEF SnapshotFits
<1>5. /\ TypeOK' /\ Durable'
      /\ \/ /\ health' = "up" /\ call' = At("applying", r)
            /\ disk' = [disk EXCEPT ![r] = new] /\ ram' = disk'
         \/ health' = "failed" /\ call' = Idle
  <2>1. /\ Checkpoint(r, new, At("applying", r)) /\ At("applying", r) \in Call
        /\ UNCHANGED <<catalog, clock, effect, applies>> /\ failures' \in Nat
    BY CallTypes DEF BeginApply, Inv, TypeOK, world
  <2> HIDE DEF new
  <2> QED BY <1>1, <1>2, <1>4, <2>1, CheckpointStep
<1>6. CASE call' = Idle
  BY <1>5, <1>6 DEF Inv, Process, Idle, At
<1>7. CASE /\ health' = "up" /\ call' = At("applying", r)
           /\ disk' = [disk EXCEPT ![r] = new] /\ ram' = disk'
  <2>1. disk'[r] = new /\ effect'[r] = effect[r] /\ applies'[r] = applies[r]
    BY <1>7 DEF Inv, TypeOK, BeginApply, world
  <2>2. call'.pc = "applying" /\ call'.on = r /\ call'.todo = {}
    BY <1>7 DEF At, Idle
  <2> QED BY <1>2, <1>3, <1>5, <1>7, <2>1, <2>2 DEF Inv, Process
<1> QED BY <1>5, <1>6, <1>7

\* The record a completed operation commits.
LEMMA CompletedRecord ==
  ASSUME Inv, health = "up", NEW r \in Response, NEW s \in State
  PROVE  LET new == [Moved(r, s) EXCEPT !.pending = "none"]
         IN /\ new \in Record /\ new.state = s /\ new.number = disk[r].number + 1
            /\ new.ref = disk[r].ref /\ new.authorized = disk[r].authorized
            /\ new.pending = "none"
<1>1. disk[r] \in Record /\ ram = disk
  BY DEF Inv, TypeOK, Process
<1>2. [Moved(r, s) EXCEPT !.pending = "none"]
        = [disk[r] EXCEPT !.state = s, !.number = disk[r].number + 1, !.pending = "none"]
  BY <1>1 DEF Moved, Record
<1>3. disk[r].number + 1 \in Nat
  BY <1>1 DEF Record
<1>4. [disk[r] EXCEPT !.state = s, !.number = disk[r].number + 1, !.pending = "none"] \in Record
  BY <1>1, <1>3 DEF Record
<1> QED BY <1>1, <1>2, <1>3, <1>4 DEF Record

\* The adapter's apply, with any outcome: the intent is durable by then.
LEMMA AdapterApplyKeepsInv ==
  ASSUME Inv, AdapterApply
  PROVE  Inv'
<1> DEFINE r == call.on
<1>1. /\ health = "up" /\ call.pc = "applying" /\ r \in Response \ call.todo
      /\ RecordOK(r) /\ disk[r].pending = "apply" /\ applies[r] = 0
  BY DEF AdapterApply, Running, Inv, Process, Durable
<1>2. \E inForce, ok \in BOOLEAN : /\ effect' = [effect EXCEPT ![r] = inForce]
                                   /\ call' = [call EXCEPT !.pc = "applied", !.ok = ok]
  <2>1. call = [call EXCEPT !.ok = call.ok] /\ call.ok \in BOOLEAN
    BY DEF Inv, TypeOK, Call
  <2>2. [call EXCEPT !.pc = "applied"] = [call EXCEPT !.pc = "applied", !.ok = call.ok]
    BY DEF Inv, TypeOK, Call
  <2> QED BY <2>1, <2>2 DEF AdapterApply
<1>3. PICK inForce \in BOOLEAN, ok \in BOOLEAN :
        /\ effect' = [effect EXCEPT ![r] = inForce]
        /\ call' = [call EXCEPT !.pc = "applied", !.ok = ok]
  BY <1>2
<1>4. /\ applies' = [applies EXCEPT ![r] = applies[r] + 1]
      /\ UNCHANGED <<ram, disk, audit, intents, admitted, health, catalog, clock, refused, crashes>>
      /\ failures' \in Nat
  BY DEF AdapterApply, AdapterFails, store, Inv, TypeOK
<1>5. TypeOK'
  <2>1. call' \in Call
    BY <1>3 DEF Inv, TypeOK, Call
  <2> QED BY <1>1, <1>3, <1>4, <2>1 DEF Inv, TypeOK
<1>6. Durable'
  <2>1. ASSUME NEW q \in Response PROVE (RecordOK(q) /\ EffectOK(q))'
    <3>1. RecordOK(q)'
      BY <1>4 DEF Inv, Durable, RecordOK
    <3>2. CASE q = r
      <4>1. disk'[q].pending # "none" /\ applies'[q] = 1 /\ q \in intents'
        BY <1>1, <1>4, <3>2 DEF RecordOK, Inv, TypeOK
      <4> QED BY <3>1, <4>1 DEF EffectOK, Unresolved
    <3>3. CASE q # r
      <4>1. disk'[q] = disk[q] /\ effect'[q] = effect[q] /\ applies'[q] = applies[q]
        BY <1>1, <1>3, <1>4, <3>3 DEF Inv, TypeOK
      <4> QED BY <1>4, <3>1, <4>1 DEF Inv, Durable, EffectOK
    <3> QED BY <3>1, <3>2, <3>3
  <2> QED BY <1>4, <2>1 DEF Inv, Durable, Exclusive
<1>7. Process'
  <2>1. call'.pc = "applied" /\ call'.on = r /\ call'.todo = call.todo
    BY <1>3 DEF Inv, TypeOK, Call
  <2> QED BY <1>1, <1>4, <2>1 DEF Inv, Process
<1> QED BY <1>5, <1>6, <1>7 DEF Inv

\* apply, after the adapter answered.
LEMMA FinishApplyKeepsInv ==
  ASSUME Inv, FinishApply
  PROVE  Inv'
<1> DEFINE r == call.on
           new == [Moved(r, "APPLIED") EXCEPT !.pending = "none"]
<1>1. /\ health = "up" /\ r \in Response /\ RecordOK(r)
      /\ disk[r].state = "REQUESTED" /\ disk[r].pending = "apply"
  BY DEF FinishApply, Running, Inv, Process, Durable
<1>2. UNCHANGED <<world, failures>>
  BY DEF FinishApply
<1>3. CASE Fail(r, Idle)
  BY <1>1, <1>2, <1>3, FailFits, CallTypes, EventStep DEF Fail
<1>4. CASE Complete(r, "APPLIED", Idle)
  <2>1. /\ new \in Record /\ new.state = "APPLIED" /\ new.number = disk[r].number + 1
        /\ new.ref = disk[r].ref /\ new.authorized = disk[r].authorized
        /\ new.pending = "none"
    BY <1>1, CompletedRecord DEF State
  <2>2. EventFits(r, new)
    <3>1. ValidTransition(disk[r].state, new.number, new.state, disk[r].pending # "none", audit[r])
      BY <1>1, <2>1, HistoryOf DEF Inv, ValidTransition, Allowed
    <3>2. Shaped(r, new, intents) /\ Unresolved(disk[r])
      BY <1>1, <2>1 DEF Shaped, RecordOK, Unresolved, Active, TERMINAL_STATES
    <3> QED BY <2>1, <3>1, <3>2 DEF EventFits, State
  <2> QED BY <1>1, <1>2, <1>4, <2>1, <2>2, CallTypes, EventStep DEF Complete
<1> QED BY <1>3, <1>4 DEF FinishApply

\* verify: promotion, or the beginning of a reversal.
LEMMA VerifyKeepsInv ==
  ASSUME Inv, NEW r \in Response, Verify(r)
  PROVE  Inv'
<1> DEFINE new == Moved(r, "VERIFIED")
<1>1. /\ health = "up" /\ ram = disk /\ disk[r] \in Record /\ RecordOK(r) /\ EffectOK(r)
      /\ disk[r].state = "APPLIED" /\ disk[r].pending = "none" /\ Unresolved(disk[r])
  BY DEF Verify, Ready, Inv, Process, Durable, TypeOK, Unresolved, Active
<1>2. UNCHANGED world /\ failures' \in Nat
  BY DEF Verify, AdapterFails, Inv, TypeOK
<1>3. CASE BeginRevert(r, "ROLLED_BACK", "none", {})
  <2>1. "ROLLED_BACK" \in TERMINAL_STATES /\ "ROLLED_BACK" # "EXPIRED"
    BY DEF TERMINAL_STATES
  <2> QED BY <1>1, <1>2, <1>3, <2>1, RevertStep
<1>4. CASE Transition(r, new, Idle) /\ UNCHANGED failures
  <2>1. new = [disk[r] EXCEPT !.state = "VERIFIED", !.number = disk[r].number + 1]
    BY <1>1 DEF Moved
  <2>2. disk[r].number + 1 \in Nat
    BY <1>1 DEF Record
  <2>3. new \in Record
    BY <1>1, <2>1, <2>2 DEF Record, State
  <2>4. /\ new.state = "VERIFIED" /\ new.number = disk[r].number + 1
        /\ new.ref = disk[r].ref /\ new.authorized = disk[r].authorized
        /\ new.pending = "none"
    BY <1>1, <2>1 DEF Record
  <2>5. EventFits(r, new)
    <3>1. ValidTransition(disk[r].state, new.number, new.state, disk[r].pending # "none", audit[r])
      BY <1>1, <2>4, HistoryOf DEF Inv, ValidTransition, Allowed
    <3>2. Shaped(r, new, intents)
      BY <1>1, <2>4 DEF Shaped, RecordOK, Unresolved, Active, TERMINAL_STATES
    <3> QED BY <1>1, <2>4, <3>1, <3>2 DEF EventFits, State
  <2> QED BY <1>1, <1>2, <1>4, <2>3, <2>5, CallTypes, EventStep
<1> QED BY <1>3, <1>4 DEF Verify

\* rollback, up to the durable intent to revert.
LEMMA RollbackKeepsInv ==
  ASSUME Inv, NEW r \in Response, Rollback(r)
  PROVE  Inv'
<1>1. /\ health = "up" /\ Unresolved(disk[r]) /\ UNCHANGED world /\ failures' \in Nat
      /\ "ROLLED_BACK" \in TERMINAL_STATES /\ "ROLLED_BACK" # "EXPIRED"
  BY DEF Rollback, Ready, Inv, Process, TypeOK, TERMINAL_STATES
<1> QED BY <1>1, RevertStep DEF Rollback

\* A step of a batch over unresolved responses.
LEMMA BatchKeepsInv ==
  ASSUME Inv, health = "up", NEW batch \in {"none", "expire", "recover"}, NEW todo \in SUBSET Response,
         \A o \in todo : Unresolved(disk[o]),
         RevertNext(batch, todo), UNCHANGED <<world, failures>>
  PROVE  Inv'
<1>1. PICK r \in todo : BeginRevert(r, BatchTerminal(batch, r), batch, todo \ {r})
  BY DEF RevertNext
<1>2. /\ BatchTerminal(batch, r) \in TERMINAL_STATES
      /\ BatchTerminal(batch, r) = "EXPIRED" => disk[r].state = "VERIFIED"
  BY DEF BatchTerminal, TERMINAL_STATES, Inv, Process
<1>3. UNCHANGED world /\ failures' \in Nat
  BY DEF Inv, TypeOK
<1> QED BY <1>1, <1>2, <1>3, RevertStep

\* expire_due and recover_pending.
LEMMA BatchesKeepInv ==
  ASSUME Inv, ExpireDue \/ RecoverPending \/ ContinueBatch
  PROVE  Inv'
<1>1. CASE ExpireDue
  <2>1. Due \in SUBSET Response /\ \A o \in Due : Unresolved(disk[o])
    BY <1>1 DEF Due, ExpireDue, Ready, Inv, Process
  <2> QED BY <1>1, <2>1, BatchKeepsInv DEF ExpireDue, Ready
<1>2. CASE RecoverPending
  <2>1. Unfinished \in SUBSET Response /\ \A o \in Unfinished : Unresolved(disk[o])
    BY <1>2 DEF Unfinished, Unresolved, RecoverPending, Ready, Inv, Process
  <2> QED BY <1>2, <2>1, BatchKeepsInv DEF RecoverPending, Ready
<1>3. CASE ContinueBatch
  <2>1. /\ call.todo \in SUBSET Response /\ \A o \in call.todo : Unresolved(disk[o])
        /\ call.batch \in {"none", "expire", "recover"}
    BY DEF Inv, TypeOK, Call, Process
  <2> QED BY <1>3, <2>1, BatchKeepsInv DEF ContinueBatch, Running
<1> QED BY <1>1, <1>2, <1>3

\* The adapter's revert: reported done only with the containment gone.
LEMMA AdapterRevertKeepsInv ==
  ASSUME Inv, AdapterRevert
  PROVE  Inv'
<1> DEFINE r == call.on
<1>1. /\ health = "up" /\ call.pc = "reverting" /\ r \in Response \ call.todo
  BY DEF AdapterRevert, Running, Inv, Process
<1>2. PICK inForce \in BOOLEAN, ok \in BOOLEAN :
        /\ effect' = [effect EXCEPT ![r] = inForce]
        /\ call' = [call EXCEPT !.pc = "reverted", !.ok = ok]
        /\ inForce => effect[r]
        /\ ok => ~inForce
  <2>1. CASE /\ effect' = [effect EXCEPT ![r] = FALSE]
             /\ call' = [call EXCEPT !.pc = "reverted", !.ok = TRUE]
    BY <2>1
  <2>2. CASE /\ \E gone \in BOOLEAN : effect' = [effect EXCEPT ![r] = @ /\ ~gone]
             /\ call' = [call EXCEPT !.pc = "reverted", !.ok = FALSE]
    <3>1. PICK gone \in BOOLEAN : effect' = [effect EXCEPT ![r] = effect[r] /\ ~gone]
      BY <2>2
    <3>2. (effect[r] /\ ~gone) \in BOOLEAN
      OBVIOUS
    <3> QED BY <2>2, <3>1, <3>2
  <2> QED BY <2>1, <2>2 DEF AdapterRevert
<1>3. /\ UNCHANGED <<ram, disk, audit, intents, admitted, health, catalog, clock, applies, refused, crashes>>
      /\ failures' \in Nat
  BY DEF AdapterRevert, AdapterFails, store, Inv, TypeOK
<1>4. TypeOK'
  <2>1. call' \in Call
    BY <1>2 DEF Inv, TypeOK, Call
  <2> QED BY <1>1, <1>2, <1>3, <2>1 DEF Inv, TypeOK
<1>5. Durable'
  <2>1. ASSUME NEW q \in Response PROVE (RecordOK(q) /\ EffectOK(q))'
    <3>1. RecordOK(q)'
      BY <1>3 DEF Inv, Durable, RecordOK
    <3>2. effect'[q] => effect[q]
      BY <1>1, <1>2 DEF Inv, TypeOK
    <3> QED BY <1>3, <3>1, <3>2 DEF Inv, Durable, EffectOK
  <2> QED BY <1>3, <2>1 DEF Inv, Durable, Exclusive
<1>6. Process'
  <2>1. /\ call'.pc = "reverted" /\ call'.on = r /\ call'.todo = call.todo
        /\ call'.ok = ok /\ call'.terminal = call.terminal /\ effect'[r] = inForce
    BY <1>1, <1>2 DEF Inv, TypeOK, Call
  <2> QED BY <1>1, <1>2, <1>3, <2>1 DEF Inv, Process
<1> QED BY <1>4, <1>5, <1>6 DEF Inv

\* _revert, after the adapter answered.
LEMMA FinishRevertKeepsInv ==
  ASSUME Inv, FinishRevert
  PROVE  Inv'
<1> DEFINE r == call.on
           next == IF call.todo = {} THEN Idle
                   ELSE [Idle EXCEPT !.pc = "batch", !.batch = call.batch, !.todo = call.todo]
           new == [Moved(r, call.terminal) EXCEPT !.pending = "none"]
<1>1. /\ health = "up" /\ r \in Response /\ r \notin call.todo
      /\ RecordOK(r) /\ disk[r].pending = "revert"
      /\ call.terminal = "EXPIRED" => disk[r].state = "VERIFIED"
      /\ call.ok => ~effect[r]
      /\ call.terminal \in TERMINAL_STATES /\ disk[r] \in Record
      /\ UNCHANGED <<world, failures>>
  BY DEF FinishRevert, Running, Inv, Process, Durable, TypeOK, Call
<1>2. /\ next \in Call
      /\ \/ next = Idle
         \/ /\ next.pc = "batch" /\ r \notin next.todo
            /\ \A o \in next.todo : Unresolved(disk[o])
  <2>1. CASE call.todo = {}
    BY <1>1, <2>1, CallTypes
  <2>2. CASE call.todo # {}
    <3>1. /\ next \in Call /\ next.pc = "batch" /\ next.todo = call.todo
      BY <2>2 DEF Idle, Call, TERMINAL_STATES, Inv, TypeOK
    <3> QED BY <1>1, <3>1 DEF Inv, Process
  <2> QED BY <2>1, <2>2
<1>3. CASE ~call.ok /\ Fail(r, next)
  <2>1. Moved(r, "FAILED") \in Record /\ EventFits(r, Moved(r, "FAILED"))
    BY <1>1, FailFits
  <2> HIDE DEF next
  <2> QED BY <1>1, <1>2, <1>3, <2>1, EventStep DEF Fail
<1>4. CASE call.ok /\ Complete(r, call.terminal, next)
  <2>1. /\ new \in Record /\ new.state = call.terminal /\ new.number = disk[r].number + 1
        /\ new.ref = disk[r].ref /\ new.authorized = disk[r].authorized
        /\ new.pending = "none"
    <3>1. call.terminal \in State
      BY <1>1 DEF State, TERMINAL_STATES
    <3> QED BY <1>1, <3>1, CompletedRecord
  <2>2. EventFits(r, new)
    <3>1. disk[r].state \in {"REQUESTED", "APPLIED", "VERIFIED", "FAILED"}
      BY <1>1 DEF RecordOK, NoRecord, Record, State, TERMINAL_STATES
    <3>2. call.terminal \in Allowed(disk[r].state)
      BY <1>1, <3>1 DEF Allowed, TERMINAL_STATES
    <3>3. ValidTransition(disk[r].state, new.number, new.state, disk[r].pending # "none", audit[r])
      BY <1>1, <2>1, <3>2, HistoryOf DEF Inv, ValidTransition
    <3>4. Shaped(r, new, intents) /\ Unresolved(disk[r])
      BY <1>1, <1>4, <2>1 DEF Shaped, RecordOK, Unresolved, Active, TERMINAL_STATES
    <3> QED BY <1>1, <2>1, <3>3, <3>4 DEF EventFits, State, TERMINAL_STATES
  <2>3. Transition(r, new, next)
    BY <1>4 DEF Complete
  <2> HIDE DEF next, new
  <2> QED BY <1>1, <1>2, <2>1, <2>2, <2>3, EventStep
<1> QED BY <1>3, <1>4 DEF FinishRevert

\* A crash keeps what is committed; a restart takes it up again; the rest only
\* moves time or takes a containment out of force.
LEMMA EnvironmentKeepsInv ==
  ASSUME Inv, Environment
  PROVE  Inv'
<1>1. CASE Crash \/ Stop
  <2>1. /\ UNCHANGED <<disk, audit, intents, admitted, catalog, clock, effect, applies, refused, failures>>
        /\ health' = "down" /\ call' = Idle /\ ram' = [r \in Response |-> NoRecord]
        /\ crashes' \in Nat
    BY <1>1 DEF Crash, Stop, Down, store, world, Inv, TypeOK
  <2>2. NoRecord \in Record /\ Idle \in Call
    BY ConstantsAssumption DEF NoRecord, Record, Idle, Call, TERMINAL_STATES
  <2>3. TypeOK'
    BY <2>1, <2>2 DEF Inv, TypeOK
  <2>4. Durable'
    BY <2>1 DEF Inv, Durable, RecordOK, EffectOK, Exclusive
  <2>5. Process'
    BY <2>1 DEF Process, Idle
  <2> QED BY <2>3, <2>4, <2>5 DEF Inv
<1>2. CASE Restart
  <2>1. /\ UNCHANGED <<disk, audit, intents, admitted, call, clock, effect, applies, refused, crashes, failures>>
        /\ health' = "up" /\ ram' = disk /\ catalog' \in 1..Catalogs /\ call = Idle
    BY <1>2 DEF Restart, store, Inv, Process
  <2>3. TypeOK'
    BY <2>1 DEF Inv, TypeOK
  <2>4. Durable'
    BY <2>1 DEF Inv, Durable, RecordOK, EffectOK, Exclusive
  <2>5. Process'
    BY <2>1 DEF Process, Idle
  <2> QED BY <2>3, <2>4, <2>5 DEF Inv
<1>3. CASE \E r \in Response : EffectLost(r)
  <2>1. PICK r \in Response : EffectLost(r)
    BY <1>3
  <2>2. /\ UNCHANGED <<ram, disk, audit, intents, admitted, health, call, catalog, clock, applies, refused, crashes, failures>>
        /\ effect' = [effect EXCEPT ![r] = FALSE]
    BY <2>1 DEF EffectLost, store
  <2>3. TypeOK'
    BY <2>2 DEF Inv, TypeOK
  <2>4. \A q \in Response : effect'[q] => effect[q]
    BY <2>2 DEF Inv, TypeOK
  <2>5. Durable'
    BY <2>2, <2>4 DEF Inv, Durable, RecordOK, EffectOK, Exclusive
  <2>6. Process'
    BY <2>2, <2>4 DEF Inv, Process
  <2> QED BY <2>3, <2>5, <2>6 DEF Inv
<1>4. CASE Tick \/ ClockStepsBack
  <2>1. UNCHANGED <<ram, disk, audit, intents, admitted, health, call, catalog, effect, applies, refused, crashes, failures>>
    BY <1>4 DEF Tick, ClockStepsBack, store
  <2>2. clock' \in Nat
    BY <1>4 DEF Tick, ClockStepsBack, Inv, TypeOK
  <2>3. TypeOK'
    BY <2>1, <2>2 DEF Inv, TypeOK
  <2>4. Durable' /\ Process'
    BY <2>1 DEF Inv, Durable, RecordOK, EffectOK, Exclusive, Process
  <2> QED BY <2>3, <2>4 DEF Inv
<1> QED BY <1>1, <1>2, <1>3, <1>4 DEF Environment

\* The invariant holds of an empty store.
LEMMA InitEstablishesInv ==
  ASSUME Init
  PROVE  Inv
<1>1. NoRecord \in Record /\ Idle \in Call
  BY ConstantsAssumption DEF NoRecord, Record, Idle, Call, TERMINAL_STATES
<1>2. TypeOK
  <2>1. <<>> \in Seq(State)
    OBVIOUS
  <2>2. audit \in [Response -> Seq(State)]
    BY <2>1 DEF Init
  <2>3. /\ ram \in [Response -> Record] /\ disk \in [Response -> Record] /\ call \in Call
        /\ admitted \in [Response -> Nat] /\ applies \in [Response -> Nat]
        /\ effect \in [Response -> BOOLEAN]
    BY <1>1 DEF Init
  <2> QED BY <2>2, <2>3 DEF Init, TypeOK
<1>3. Durable
  BY DEF Init, Durable, RecordOK, EffectOK, Exclusive, Unresolved, NoRecord, Latest,
         Active, TERMINAL_STATES
<1>4. Process
  BY DEF Init, Process, Idle
<1> QED BY <1>2, <1>3, <1>4 DEF Inv

\* Every step keeps the invariant.
LEMMA NextKeepsInv ==
  ASSUME Inv, Next
  PROVE  Inv'
<1>1. CASE InProgress
  BY <1>1, AdmitKeepsInv, AdapterApplyKeepsInv, FinishApplyKeepsInv, BatchesKeepInv,
     AdapterRevertKeepsInv, FinishRevertKeepsInv DEF InProgress
<1>2. CASE Operation
  BY <1>2, SubmitKeepsInv, ApplyDeniedKeepsInv, BeginApplyKeepsInv, VerifyKeepsInv,
     RollbackKeepsInv, BatchesKeepInv DEF Operation
<1>3. CASE Environment
  BY <1>3, EnvironmentKeepsInv
<1> QED BY <1>1, <1>2, <1>3 DEF Next

\* The committed state and the running process agree at every step of every
\* operation, across crashes, lost and ambiguous commits and adapter failures.
THEOREM Invariance == Spec => []Inv
<1>1. Init => Inv
  BY InitEstablishesInv
<1>2. Inv /\ [Next]_vars => Inv'
  <2>1. ASSUME Inv, UNCHANGED vars PROVE Inv'
    <3>1. UNCHANGED <<ram, disk, audit, intents, admitted, health, call, catalog, clock,
                      effect, applies, refused, crashes, failures>>
      BY <2>1 DEF vars, store, world
    <3> QED BY <2>1, <3>1 DEF Inv, TypeOK, Durable, RecordOK, EffectOK, Exclusive, Process
  <2> QED BY <2>1, NextKeepsInv
<1> QED BY <1>1, <1>2, PTL DEF Spec

\* Every variable keeps its type.
THEOREM TypeCorrect == Spec => []TypeOK
BY Invariance, PTL DEF Inv

\* The ledger never refuses what the engine asks of it, and the store can always
\* be loaded again.
THEOREM StoreAcceptance == Spec => []StoreAlwaysAccepts
<1>1. Inv => StoreAlwaysAccepts
  BY DEF Inv, Durable, RecordOK, StoreAlwaysAccepts, LoadConsistent
<1> QED BY <1>1, Invariance, PTL

\* Whatever is in force can be found in the store and reverted from it.
THEOREM Recoverability == Spec => []ContainmentRecoverable
<1>1. Inv => ContainmentRecoverable
  BY DEF Inv, Durable, EffectOK, ContainmentRecoverable
<1> QED BY <1>1, Invariance, PTL

\* Two responses never contain one target at the same time.
THEOREM TargetExclusion == Spec => []OneContainmentPerTarget
<1>1. Inv => OneContainmentPerTarget
  BY DEF Inv, Durable, EffectOK, Exclusive, OneContainmentPerTarget
<1> QED BY <1>1, Invariance, PTL

\* No response is ever applied twice.
THEOREM SingleApplication == Spec => []AppliedAtMostOnce
<1>1. Inv => AppliedAtMostOnce
  BY DEF Inv, Durable, EffectOK, AppliedAtMostOnce
<1> QED BY <1>1, Invariance, PTL
-----------------------------------------------------------------------------
(* The rate limit.                                                         *)

\* A step that authorizes nothing and keeps the admission of what is authorized.
Quiet == \A r \in Response :
           disk'[r].authorized => disk[r].authorized /\ admitted'[r] = admitted[r]

\* A step that authorizes nobody and moves no admission timestamp of an
\* authorized response keeps the rate limit.
LEMMA QuietKeepsRate ==
  ASSUME Inv, RateLimited, Quiet
  PROVE  RateLimited'
<1> SUFFICES ASSUME NEW last \in Response, disk'[last].authorized
             PROVE  Cardinality(AuthorizedUpTo(last)') <= MaxActions
  BY DEF RateLimited
<1>1. disk[last].authorized /\ admitted'[last] = admitted[last]
  BY DEF Quiet
<1>2. AuthorizedUpTo(last)' \subseteq AuthorizedUpTo(last)
  BY <1>1 DEF AuthorizedUpTo, Quiet
<1>3. IsFiniteSet(AuthorizedUpTo(last)) /\ Cardinality(AuthorizedUpTo(last)) \in Nat
  <2>1. AuthorizedUpTo(last) \subseteq Response
    BY DEF AuthorizedUpTo
  <2> QED BY <2>1, ConstantsAssumption, FS_Subset, FS_CardinalityType
<1>4. /\ Cardinality(AuthorizedUpTo(last)') \in Nat
      /\ Cardinality(AuthorizedUpTo(last)') <= Cardinality(AuthorizedUpTo(last))
  BY <1>2, <1>3, FS_Subset, FS_CardinalityType
<1> QED BY <1>1, <1>3, <1>4, ConstantsAssumption DEF RateLimited

\* An audited transition that does not authorize is such a step.
LEMMA TransitionIsQuiet ==
  ASSUME Inv, NEW r \in Response, NEW new, NEW next,
         Transition(r, new, next), new.authorized = disk[r].authorized
  PROVE  Quiet
<1>1. CASE WriteEvent(r, new)
           /\ ValidTransition(ram[r].state, new.number, new.state, ram[r].pending # "none", audit[r])
  <2>1. /\ disk' = [disk EXCEPT ![r] = new] /\ new.number = Len(audit[r]) + 1
        /\ admitted' = IF new.number = 1 THEN [admitted EXCEPT ![r] = clock] ELSE admitted
    BY <1>1 DEF WriteEvent, ValidTransition
  <2>2. disk[r].authorized => new.number # 1
    <3>1. disk[r].authorized => disk[r].state # "NONE"
      BY DEF Inv, Durable, RecordOK, NoRecord
    <3> QED BY <2>1, <3>1, HistoryOf DEF Inv
  <2> QED BY <2>1, <2>2 DEF Quiet, Inv, TypeOK
<1>2. CASE UNCHANGED store
  BY <1>2 DEF Quiet, store
<1> QED BY <1>1, <1>2 DEF Transition

\* So is a checkpoint that does not authorize.
LEMMA CheckpointIsQuiet ==
  ASSUME Inv, NEW r \in Response, NEW new, NEW next,
         Checkpoint(r, new, next), new.authorized = disk[r].authorized
  PROVE  Quiet
<1>1. CASE WriteSnapshot(r, new)
  BY <1>1 DEF WriteSnapshot, Quiet, Inv, TypeOK
<1>2. CASE UNCHANGED store
  BY <1>2 DEF Quiet, store
<1> QED BY <1>1, <1>2 DEF Checkpoint

\* Moving a record to another state does not change its authorization.
LEMMA MovedAuthorized ==
  ASSUME Inv, health = "up", NEW r \in Response, NEW s
  PROVE  /\ Moved(r, s).authorized = disk[r].authorized
         /\ [Moved(r, s) EXCEPT !.pending = "none"].authorized = disk[r].authorized
<1>1. disk[r] \in Record /\ ram = disk
  BY DEF Inv, TypeOK, Process
<1> QED BY <1>1 DEF Moved, Record

\* Authorizing a response: everything authorized in a window that holds it was
\* admitted in the window that the admission check has just counted.
LEMMA AuthorizationKeepsRate ==
  ASSUME Inv, RateLimited, health = "up", call.pc = "admit", ~Denied(call.on),
         Checkpoint(call.on, [ram[call.on] EXCEPT !.authorized = TRUE], Idle)
  PROVE  RateLimited'
<1> DEFINE r == call.on
           new == [ram[r] EXCEPT !.authorized = TRUE]
           counted == {x \in Response : /\ audit[x] # <<>>
                                        /\ PolicyOf[x] = PolicyOf[r]
                                        /\ admitted[x] > admitted[r] - RateWindow}
<1>1. /\ r \in Response /\ ram = disk /\ disk[r] \in Record /\ disk[r].state = "REQUESTED"
  BY DEF Inv, Process, TypeOK
<1>2. CASE UNCHANGED store
  BY <1>2, QuietKeepsRate DEF store, Quiet
<1>3. CASE WriteSnapshot(r, new)
  <2>1. disk' = [disk EXCEPT ![r] = new] /\ admitted' = admitted
    BY <1>3 DEF WriteSnapshot
  <2>2. \A x \in Response : disk'[x].authorized => x = r \/ disk[x].authorized
    BY <2>1 DEF Inv, TypeOK
  <2>3. \A x \in Response : disk'[x].authorized => audit[x] # <<>>
    <3>1. \A x \in Response : x = r \/ disk[x].authorized => disk[x].state # "NONE"
      BY <1>1 DEF Inv, Durable, RecordOK, NoRecord
    <3>2. \A x \in Response : disk[x].state # "NONE" => audit[x] # <<>>
      BY DEF Inv, Durable, RecordOK, Latest
    <3> QED BY <2>2, <3>1, <3>2
  <2>4. IsFiniteSet(counted) /\ Cardinality(counted) \in Nat /\ Cardinality(counted) <= MaxActions
    <3>1. counted \subseteq Response
      OBVIOUS
    <3>2. IsFiniteSet(counted) /\ Cardinality(counted) \in Nat
      BY <3>1, ConstantsAssumption, FS_Subset, FS_CardinalityType
    <3>3. ~(Cardinality(counted) > MaxActions)
      BY DEF Denied, RequestedSince
    <3> QED BY <3>2, <3>3, ConstantsAssumption
  <2> SUFFICES ASSUME NEW last \in Response, disk'[last].authorized
               PROVE  Cardinality(AuthorizedUpTo(last)') <= MaxActions
    BY DEF RateLimited
  <2>5. \A x \in Response : admitted[x] \in Nat
    BY DEF Inv, TypeOK
  <2>6. CASE r \in AuthorizedUpTo(last)'
    <3>1. /\ PolicyOf[r] = PolicyOf[last]
          /\ admitted[r] <= admitted[last]
      BY <2>1, <2>6 DEF AuthorizedUpTo
    <3>2. AuthorizedUpTo(last)' \subseteq counted
      <4> SUFFICES ASSUME NEW x \in AuthorizedUpTo(last)' PROVE x \in counted
        OBVIOUS
      <4>1. /\ x \in Response /\ disk'[x].authorized /\ PolicyOf[x] = PolicyOf[last]
            /\ admitted[x] > admitted[last] - RateWindow
        BY <2>1 DEF AuthorizedUpTo
      <4>2. admitted[x] > admitted[r] - RateWindow
        <5>1. admitted[x] \in Nat /\ admitted[r] \in Nat /\ admitted[last] \in Nat /\ RateWindow \in Nat
          BY <1>1, <2>5, <4>1, ConstantsAssumption
        <5> QED BY <3>1, <4>1, <5>1
      <4> QED BY <2>3, <3>1, <4>1, <4>2
    <3>3. /\ Cardinality(AuthorizedUpTo(last)') \in Nat
          /\ Cardinality(AuthorizedUpTo(last)') <= Cardinality(counted)
      <4> HIDE DEF counted
      <4> QED BY <2>4, <3>2, FS_Subset, FS_CardinalityType
    <3> QED BY <2>4, <3>3, ConstantsAssumption
  <2>7. CASE r \notin AuthorizedUpTo(last)'
    <3>1. last # r => disk[last].authorized
      BY <2>2
    <3>2. CASE last = r /\ RateWindow > 0
      BY <1>1, <2>1, <2>5, <2>7, <3>2, ConstantsAssumption DEF AuthorizedUpTo
    <3>3. CASE RateWindow = 0
      <4>1. AuthorizedUpTo(last)' = {}
        BY <2>1, <2>5, <3>3 DEF AuthorizedUpTo
      <4> QED BY <4>1, FS_EmptySet, ConstantsAssumption
    <3>4. CASE last # r
      <4>1. AuthorizedUpTo(last)' \subseteq AuthorizedUpTo(last)
        BY <2>1, <2>2, <2>7 DEF AuthorizedUpTo
      <4>2. AuthorizedUpTo(last) \subseteq Response
        BY DEF AuthorizedUpTo
      <4>3. IsFiniteSet(AuthorizedUpTo(last)) /\ Cardinality(AuthorizedUpTo(last)) \in Nat
        BY <4>2, ConstantsAssumption, FS_Subset, FS_CardinalityType
      <4>4. /\ Cardinality(AuthorizedUpTo(last)') \in Nat
            /\ Cardinality(AuthorizedUpTo(last)') <= Cardinality(AuthorizedUpTo(last))
        BY <4>1, <4>3, FS_Subset, FS_CardinalityType
      <4> QED BY <3>1, <3>4, <4>3, <4>4, ConstantsAssumption DEF RateLimited
    <3> QED BY <3>2, <3>3, <3>4, ConstantsAssumption
  <2> QED BY <2>6, <2>7
<1> QED BY <1>2, <1>3 DEF Checkpoint

\* A batch only marks an operation as pending.
LEMMA RevertIsQuiet ==
  ASSUME Inv, health = "up", NEW r \in Response, NEW terminal, NEW batch, NEW todo,
         BeginRevert(r, terminal, batch, todo)
  PROVE  Quiet
<1>1. disk[r] \in Record /\ ram = disk
  BY DEF Inv, TypeOK, Process
<1>2. [ram[r] EXCEPT !.pending = "revert"].authorized = disk[r].authorized
  BY <1>1 DEF Record
<1> QED BY <1>2, CheckpointIsQuiet DEF BeginRevert

\* Every step keeps the rate limit; only submit's authorization needs the count.
LEMMA NextKeepsRate == Inv /\ RateLimited /\ [Next]_vars => RateLimited'
<1> SUFFICES ASSUME Inv, RateLimited, [Next]_vars PROVE RateLimited'
  OBVIOUS
<1>1. CASE Admit
  <2>1. CASE Fail(call.on, Idle)
    <3>1. health = "up" /\ call.on \in Response
      BY <1>1 DEF Admit, Running, Inv, Process
    <3> QED BY <2>1, <3>1, MovedAuthorized, TransitionIsQuiet, QuietKeepsRate DEF Fail
  <2>2. CASE ~Denied(call.on) /\ Checkpoint(call.on, [ram[call.on] EXCEPT !.authorized = TRUE], Idle)
    BY <1>1, <2>2, AuthorizationKeepsRate DEF Admit, Running
  <2> QED BY <1>1, <2>1, <2>2 DEF Admit
<1>2. CASE AdapterApply \/ AdapterRevert
  BY <1>2, QuietKeepsRate DEF AdapterApply, AdapterRevert, store, Quiet
<1>3. CASE FinishApply \/ FinishRevert
  <2>1. health = "up" /\ call.on \in Response
    BY <1>3 DEF FinishApply, FinishRevert, Running, Inv, Process
  <2> QED BY <1>3, <2>1, MovedAuthorized, TransitionIsQuiet, QuietKeepsRate
          DEF FinishApply, FinishRevert, Fail, Complete
<1>4. ASSUME NEW r \in Response, Submit(r) PROVE RateLimited'
  <2>1. health = "up" /\ ram = disk /\ disk[r] = NoRecord
    BY <1>4 DEF Submit, Ready, Inv, Process
  <2>2. PICK until : Transition(r, [NoRecord EXCEPT !.state = "REQUESTED", !.number = 1,
                                       !.expires = clock + Ttl,
                                       !.until = until, !.policy = catalog], At("admit", r))
    BY <1>4 DEF Submit
  <2>3. [NoRecord EXCEPT !.state = "REQUESTED", !.number = 1, !.expires = clock + Ttl,
                         !.until = until, !.policy = catalog].authorized = disk[r].authorized
    BY <2>1 DEF NoRecord
  <2> QED BY <2>2, <2>3, TransitionIsQuiet, QuietKeepsRate
<1>5. ASSUME NEW r \in Response, ApplyDenied(r) PROVE RateLimited'
  BY <1>5, MovedAuthorized, TransitionIsQuiet, QuietKeepsRate DEF ApplyDenied, Ready, Fail
<1>6. ASSUME NEW r \in Response, BeginApply(r) PROVE RateLimited'
  <2>1. disk[r] \in Record /\ ram = disk
    BY <1>6 DEF BeginApply, Ready, Inv, TypeOK, Process
  <2>2. [ram[r] EXCEPT !.ref = TRUE, !.pending = "apply"].authorized = disk[r].authorized
    BY <2>1 DEF Record
  <2> QED BY <1>6, <2>2, CheckpointIsQuiet, QuietKeepsRate DEF BeginApply
<1>7. ASSUME NEW r \in Response, Verify(r) PROVE RateLimited'
  BY <1>7, MovedAuthorized, TransitionIsQuiet, RevertIsQuiet, QuietKeepsRate DEF Verify, Ready
<1>8. ASSUME NEW r \in Response, Rollback(r) PROVE RateLimited'
  BY <1>8, RevertIsQuiet, QuietKeepsRate DEF Rollback, Ready
<1>9. CASE ExpireDue \/ RecoverPending \/ ContinueBatch
  <2>1. health = "up"
    BY <1>9 DEF ExpireDue, RecoverPending, ContinueBatch, Ready, Running
  <2>2. \E r \in Response : \E terminal, batch, todo : BeginRevert(r, terminal, batch, todo)
    <3>1. Due \subseteq Response /\ Unfinished \subseteq Response /\ call.todo \subseteq Response
      BY DEF Due, Unfinished, Inv, TypeOK, Call
    <3> QED BY <1>9, <3>1 DEF ExpireDue, RecoverPending, ContinueBatch, RevertNext
  <2> QED BY <2>1, <2>2, RevertIsQuiet, QuietKeepsRate
<1>10. CASE Environment
  <2>1. UNCHANGED <<disk, admitted>>
    BY <1>10 DEF Environment, EffectLost, Crash, Stop, Restart, Tick, ClockStepsBack, store
  <2> QED BY <2>1, QuietKeepsRate DEF Quiet
<1>11. CASE UNCHANGED vars
  BY <1>11, QuietKeepsRate DEF vars, store, Quiet
<1> QED BY <1>1, <1>2, <1>3, <1>4, <1>5, <1>6, <1>7, <1>8, <1>9, <1>10, <1>11
        DEF Next, InProgress, Operation

\* The durable admission log bounds what is authorized in every window of
\* admission timestamps, without any assumption on the clock.
THEOREM RateLimitHolds == Spec => []RateLimited
<1>1. Init => RateLimited
  BY DEF Init, RateLimited, NoRecord
<1>2. Inv /\ RateLimited /\ [Next]_vars => RateLimited'
  BY NextKeepsRate
<1> QED BY <1>1, <1>2, Invariance, PTL DEF Spec
-----------------------------------------------------------------------------
(* The orchestrator implements ResponseLifecycle.                          *)

\* An audited transition is a Record step of the lifecycle, or changes nothing
\* that it shows.
LEMMA TransitionRefines ==
  ASSUME Inv, Inv', NEW r \in Response, NEW new, new.state \in State, NEW next,
         Transition(r, new, next), UNCHANGED <<effect, applies>>
  PROVE  [Lifecycle!Next]_(Lifecycle!vars)
<1>1. CASE UNCHANGED store
  BY <1>1 DEF store, Lifecycle!vars
<1>2. CASE /\ WriteEvent(r, new)
           /\ ValidTransition(ram[r].state, new.number, new.state, ram[r].pending # "none", audit[r])
  <2>1. /\ disk'[r] = new
        /\ audit' = [audit EXCEPT ![r] = Append(audit[r], new.state)]
        /\ intents' = intents
        /\ audit[r] \in Seq(State)
    BY <1>2 DEF WriteEvent, Inv, TypeOK
  <2>2. Latest(Append(audit[r], new.state)) = new.state
    BY <2>1, LatestOfAppend
  <2>3. [q \in Response |-> Latest(audit[q])]'
          = [[q \in Response |-> Latest(audit[q])] EXCEPT ![r] = new.state]
    <3>1. \A q \in Response : Latest(audit'[q]) = IF q = r THEN new.state ELSE Latest(audit[q])
      BY <2>1, <2>2 DEF Inv, TypeOK
    <3> QED BY <3>1
  <2>4. new.state \in Lifecycle!Allowed(Latest(audit[r]))
    BY <1>2 DEF ValidTransition, Allowed, Lifecycle!Allowed
  <2>5. /\ new.state \in TERMINAL_STATES => ~effect[r]
        /\ new.state \in TERMINAL_STATES \cup {"APPLIED"} => r \in intents
    <3>1. RecordOK(r)' /\ EffectOK(r)'
      BY DEF Inv, Durable
    <3> QED BY <2>1, <3>1 DEF RecordOK, EffectOK, Unresolved, Active, TERMINAL_STATES
  <2>6. Lifecycle!Record(r, new.state)
    BY <2>1, <2>3, <2>4, <2>5 DEF Lifecycle!Record, Lifecycle!Terminal, TERMINAL_STATES
  <2>7. new.state \in Lifecycle!State
    BY DEF State, Lifecycle!State
  <2> QED BY <2>6, <2>7 DEF Lifecycle!Next
<1> QED BY <1>1, <1>2 DEF Transition

\* A checkpoint is a Claim step when it records an apply intent, and a stutter
\* otherwise.
LEMMA CheckpointRefines ==
  ASSUME Inv, Inv', NEW r \in Response, NEW new, NEW next,
         new.pending = "apply" => disk[r].state = "REQUESTED",
         Checkpoint(r, new, next), UNCHANGED <<effect, applies>>
  PROVE  [Lifecycle!Next]_(Lifecycle!vars)
<1>1. CASE UNCHANGED store
  BY <1>1 DEF store, Lifecycle!vars
<1>2. CASE WriteSnapshot(r, new) /\ new.pending # "apply"
  BY <1>2 DEF WriteSnapshot, Lifecycle!vars
<1>3. CASE WriteSnapshot(r, new) /\ ValidSnapshot(r, new) /\ new.pending = "apply"
  <2>1. /\ disk' = [disk EXCEPT ![r] = new] /\ intents' = intents \cup {r}
        /\ audit' = audit /\ r \notin intents /\ Latest(audit[r]) = "REQUESTED"
    BY <1>3 DEF WriteSnapshot, ValidSnapshot, Inv, Durable, RecordOK
  <2>2. Unresolved(disk'[r])
    BY <1>3, <2>1 DEF Unresolved, Inv, TypeOK
  <2>3. ASSUME NEW o \in Response \ {r}, TargetOf[o] = TargetOf[r]
        PROVE  ~(o \in intents /\ Latest(audit[o]) \notin TERMINAL_STATES)
    <3>1. SUFFICES ASSUME o \in intents, Latest(audit[o]) \notin TERMINAL_STATES
                   PROVE  Unresolved(disk'[o])
      BY <2>2, <2>3 DEF Inv, Durable, Exclusive
    <3>2. RecordOK(o) /\ disk[o] \in Record /\ disk'[o] = disk[o]
      BY <2>1 DEF Inv, Durable, TypeOK
    <3> QED BY <3>1, <3>2 DEF RecordOK, Unresolved, NoRecord, Record, State, Active, TERMINAL_STATES
  <2>4. Lifecycle!Claim(r)
    BY <2>1, <2>3 DEF Lifecycle!Claim, Lifecycle!Engaged, Lifecycle!Terminal, TERMINAL_STATES
  <2> QED BY <2>4 DEF Lifecycle!Next
<1> QED BY <1>1, <1>2, <1>3 DEF Checkpoint

\* Every step of the orchestrator is a step of the lifecycle or a stutter.
LEMMA NextRefines == Inv /\ Inv' /\ [Next]_vars => [Lifecycle!Next]_(Lifecycle!vars)
<1> SUFFICES ASSUME Inv, Inv', [Next]_vars PROVE [Lifecycle!Next]_(Lifecycle!vars)
  OBVIOUS
<1>1. ASSUME NEW r \in Response, NEW s \in State, health = "up"
      PROVE  /\ Moved(r, s).state = s
             /\ [Moved(r, s) EXCEPT !.pending = "none"].state = s
  <2>1. disk[r] \in Record /\ ram = disk
    BY <1>1 DEF Inv, TypeOK, Process
  <2> QED BY <2>1 DEF Moved, Record
<1>2. "FAILED" \in State /\ "APPLIED" \in State /\ "VERIFIED" \in State
  BY DEF State
<1>3. ASSUME NEW r \in Response, NEW terminal, NEW batch, NEW todo, health = "up",
             BeginRevert(r, terminal, batch, todo), UNCHANGED <<effect, applies>>
      PROVE  [Lifecycle!Next]_(Lifecycle!vars)
  <2>1. [ram[r] EXCEPT !.pending = "revert"].pending = "revert"
    BY DEF Inv, TypeOK, Record
  <2> QED BY <1>3, <2>1, CheckpointRefines DEF BeginRevert
<1>4. CASE Admit
  <2>1. /\ health = "up" /\ call.on \in Response /\ UNCHANGED <<effect, applies>>
        /\ ram = disk /\ disk[call.on].state = "REQUESTED"
    BY <1>4 DEF Admit, Running, Inv, Process, world
  <2> QED BY <1>1, <1>2, <1>4, <2>1, TransitionRefines, CheckpointRefines DEF Admit, Fail
<1>5. CASE AdapterApply
  <2>1. PICK r \in Response : r = call.on
    BY <1>5 DEF AdapterApply, Running, Inv, Process
  <2>2. /\ RecordOK(r) /\ disk[r].state = "REQUESTED"
        /\ disk[r].pending = "apply" /\ applies[r] = 0
    BY <1>5, <2>1 DEF AdapterApply, Running, Inv, Process, Durable
  <2>3. /\ applies' = [applies EXCEPT ![r] = applies[r] + 1]
        /\ audit' = audit /\ intents' = intents
    BY <1>5, <2>1 DEF AdapterApply, store
  <2>4. \E inForce \in BOOLEAN : effect' = [effect EXCEPT ![r] = inForce]
    BY <1>5, <2>1 DEF AdapterApply
  <2>5. {q \in Response : applies'[q] > 0} = {q \in Response : applies[q] > 0} \cup {r}
    BY <2>2, <2>3 DEF Inv, TypeOK
  <2>6. r \in intents \ {q \in Response : applies[q] > 0}
    BY <2>2 DEF RecordOK
  <2>7. [q \in Response |-> Latest(audit[q])][r] = "REQUESTED"
    BY <2>2 DEF RecordOK
  <2>8. [q \in Response |-> Latest(audit'[q])] = [q \in Response |-> Latest(audit[q])]
    BY <2>3
  <2>9. Lifecycle!Touch(r)
    BY <2>3, <2>4, <2>5, <2>6, <2>7, <2>8 DEF Lifecycle!Touch
  <2> QED BY <2>9 DEF Lifecycle!Next
<1>6. CASE FinishApply \/ FinishRevert
  <2>1. /\ health = "up" /\ call.on \in Response /\ UNCHANGED <<effect, applies>>
        /\ call.terminal \in State
    BY <1>6 DEF FinishApply, FinishRevert, Running, Inv, Process, world,
                TypeOK, Call, State, TERMINAL_STATES
  <2> QED BY <1>1, <1>2, <1>6, <2>1, TransitionRefines
          DEF FinishApply, FinishRevert, Fail, Complete
<1>7. CASE ExpireDue \/ RecoverPending \/ ContinueBatch
  <2>1. health = "up" /\ UNCHANGED <<effect, applies>>
    BY <1>7 DEF ExpireDue, RecoverPending, ContinueBatch, Ready, Running, world
  <2>2. \E r \in Response : \E terminal, batch, todo : BeginRevert(r, terminal, batch, todo)
    <3>1. Due \subseteq Response /\ Unfinished \subseteq Response /\ call.todo \subseteq Response
      BY DEF Due, Unfinished, Inv, TypeOK, Call
    <3> QED BY <1>7, <3>1 DEF ExpireDue, RecoverPending, ContinueBatch, RevertNext
  <2> QED BY <1>3, <2>1, <2>2
<1>8. CASE AdapterRevert \/ \E r \in Response : EffectLost(r)
  <2>1. UNCHANGED <<audit, intents, applies>>
    BY <1>8 DEF AdapterRevert, EffectLost, store
  <2>2. \E r \in Response : effect' = [effect EXCEPT ![r] = FALSE] \/ effect' = effect
    <3>1. CASE AdapterRevert
      <4>1. call.on \in Response
        BY <3>1 DEF AdapterRevert, Running, Inv, Process
      <4>2. CASE effect' = [effect EXCEPT ![call.on] = FALSE]
        BY <4>1, <4>2
      <4>3. CASE \E gone \in BOOLEAN : effect' = [effect EXCEPT ![call.on] = @ /\ ~gone]
        <5>1. PICK gone \in BOOLEAN : effect' = [effect EXCEPT ![call.on] = effect[call.on] /\ ~gone]
          BY <4>3
        <5>2. effect[call.on] \in BOOLEAN /\ effect \in [Response -> BOOLEAN]
          BY <4>1 DEF Inv, TypeOK
        <5>3. CASE gone = TRUE
          BY <4>1, <5>1, <5>3
        <5>4. CASE gone = FALSE
          <6>1. (effect[call.on] /\ ~gone) = effect[call.on]
            BY <5>2, <5>4
          <6>2. effect' = effect
            BY <4>1, <5>1, <5>2, <6>1
          <6> QED BY <4>1, <6>2
        <5> QED BY <5>3, <5>4
      <4> QED BY <3>1, <4>2, <4>3 DEF AdapterRevert
    <3>2. CASE \E r \in Response : EffectLost(r)
      BY <3>2 DEF EffectLost
    <3> QED BY <1>8, <3>1, <3>2
  <2>3. PICK r \in Response : effect' = [effect EXCEPT ![r] = FALSE] \/ effect' = effect
    BY <2>2
  <2>4. CASE effect[r] /\ effect' = [effect EXCEPT ![r] = FALSE]
    <3>1. Lifecycle!Release(r)
      BY <2>1, <2>4 DEF Lifecycle!Release
    <3> QED BY <3>1 DEF Lifecycle!Next
  <2>5. CASE effect' = effect
    BY <2>1, <2>5 DEF Lifecycle!vars
  <2>6. CASE ~effect[r] /\ effect' = [effect EXCEPT ![r] = FALSE]
    <3>1. effect' = effect
      BY <2>6 DEF Inv, TypeOK
    <3> QED BY <2>1, <3>1 DEF Lifecycle!vars
  <2> QED BY <2>3, <2>4, <2>5, <2>6
<1>9. ASSUME NEW r \in Response, Submit(r) PROVE [Lifecycle!Next]_(Lifecycle!vars)
  <2>1. PICK until : Transition(r, [NoRecord EXCEPT !.state = "REQUESTED", !.number = 1,
                                       !.expires = clock + Ttl,
                                       !.until = until, !.policy = catalog], At("admit", r))
    BY <1>9 DEF Submit
  <2>2. [NoRecord EXCEPT !.state = "REQUESTED", !.number = 1, !.expires = clock + Ttl,
                         !.until = until, !.policy = catalog].state \in State
    BY DEF NoRecord, State
  <2>3. UNCHANGED <<effect, applies>>
    BY <1>9 DEF Submit, world
  <2> QED BY <2>1, <2>2, <2>3, TransitionRefines
<1>10. ASSUME NEW r \in Response, ApplyDenied(r) PROVE [Lifecycle!Next]_(Lifecycle!vars)
  <2>1. health = "up" /\ UNCHANGED <<effect, applies>>
    BY <1>10 DEF ApplyDenied, Ready, world
  <2> QED BY <1>1, <1>2, <1>10, <2>1, TransitionRefines DEF ApplyDenied, Fail
<1>11. ASSUME NEW r \in Response, BeginApply(r) PROVE [Lifecycle!Next]_(Lifecycle!vars)
  <2>1. disk[r].state = "REQUESTED" /\ UNCHANGED <<effect, applies>>
    BY <1>11 DEF BeginApply, Ready, Applicable, world, Inv, Process
  <2> QED BY <1>11, <2>1, CheckpointRefines DEF BeginApply
<1>12. ASSUME NEW r \in Response, Verify(r) PROVE [Lifecycle!Next]_(Lifecycle!vars)
  <2>1. health = "up" /\ UNCHANGED <<effect, applies>>
    BY <1>12 DEF Verify, Ready, world
  <2> QED BY <1>1, <1>2, <1>3, <1>12, <2>1, TransitionRefines DEF Verify
<1>13. ASSUME NEW r \in Response, Rollback(r) PROVE [Lifecycle!Next]_(Lifecycle!vars)
  <2>1. health = "up" /\ UNCHANGED <<effect, applies>>
    BY <1>13 DEF Rollback, Ready, world
  <2> QED BY <1>3, <1>13, <2>1 DEF Rollback
<1>14. CASE Crash \/ Stop \/ Restart \/ Tick \/ ClockStepsBack
  BY <1>14 DEF Crash, Stop, Restart, Tick, ClockStepsBack, store, world, Lifecycle!vars
<1>15. CASE UNCHANGED vars
  BY <1>15 DEF vars, store, world, Lifecycle!vars
<1> QED BY <1>4, <1>5, <1>6, <1>7, <1>8, <1>9, <1>10, <1>11, <1>12, <1>13, <1>14, <1>15
        DEF Next, InProgress, Operation, Environment

\* Every behaviour of the orchestrator, crashes and failures included, is one the
\* audited lifecycle allows.
THEOREM Refinement == Spec => ImplementsLifecycle
<1>1. Init => Lifecycle!Init
  <2> SUFFICES ASSUME Init PROVE Lifecycle!Init
    OBVIOUS
  <2>1. \A r \in Response : Latest(audit[r]) = "NONE" /\ ~(applies[r] > 0)
    BY DEF Init, Latest
  <2> QED BY <2>1 DEF Init, Lifecycle!Init
<1>2. Inv /\ Inv' /\ [Next]_vars => [Lifecycle!Next]_(Lifecycle!vars)
  BY NextRefines
<1> QED BY <1>1, <1>2, Invariance, PTL DEF Spec, ImplementsLifecycle, Lifecycle!Spec
=============================================================================
