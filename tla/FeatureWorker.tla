--------------------------- MODULE FeatureWorker ---------------------------
(***************************************************************************)
(* The feature worker of soc/workers/features.py: it turns the normalized  *)
(* events of a closed five-minute window into one vector per entity,       *)
(* creates the vectors in soc-features-* and keeps the outcome of every    *)
(* window in a private SQLite ledger.                                      *)
(*                                                                         *)
(* Windows are numbered.  The events of an entity in a window only grow in *)
(* number, so their count stands for the event set whose hash the vector   *)
(* id contains.  The two feature schemas have separate rows and separate   *)
(* documents; this is one of them.  The `single_owner` lock admits one     *)
(* worker at a time.                                                       *)
(***************************************************************************)
EXTENDS Integers, Sequences, FiniteSets, SequencesExt, Paging

CONSTANTS
  Entity,        \* entities (source addresses or hosts) seen in the events
  MaxWindow,     \* bound: windows 1..MaxWindow
  Malformed,     \* windows whose events break the feature contract
  Lookback,      \* --lookback-minutes, in windows
  MaxWindows,    \* --max-windows of one pass
  MaxEvents,     \* --max-events of one window
  MaxIngested,   \* [Entity -> bound on its events in one window]
  MaxFaults      \* bound: failed or unacknowledged requests and crashes

ASSUME FeatureAssumption ==
  /\ IsFiniteSet(Entity)
  /\ MaxWindow \in Nat \ {0}
  /\ Malformed \subseteq 1..MaxWindow
  /\ Lookback \in Nat \ {0}
  /\ MaxWindows \in Nat \ {0}
  /\ MaxEvents \in Nat
  /\ MaxIngested \in [Entity -> Nat]
  /\ MaxFaults \in Nat

Window == 1..MaxWindow
Status == {"none", "done", "empty", "oversized", "failed"}

VARIABLES
  closed,    \* windows 1..closed ended at least `lag` ago
  events,    \* [Window -> [Entity -> Nat]]: normalized events in the index
  vectors,   \* soc-features-*: created vectors
  ledger,    \* FeatureState: outcome of each window
  queue,     \* windows this pass has still to process, the current one first
  built,     \* vectors the engine built for the current window
  unsent,    \* those of them that are not created yet
  faults     \* faults so far

vars == <<closed, events, vectors, ledger, queue, built, unsent, faults>>

\* A vector, identified by its entity, its window and its exact event set.
Vector == [window: Window, entity: Entity, n: Nat \ {0}]

\* A row of the ledger: the outcome and the number of vectors delivered.
Row == [status: Status, vectors: Nat]

Init ==
  /\ closed = 0
  /\ events = [w \in Window |-> [e \in Entity |-> 0]]
  /\ vectors = {}
  /\ ledger = [w \in Window |-> [status |-> "none", vectors |-> 0]]
  /\ queue = <<>>
  /\ built = {}
  /\ unsent = {}
  /\ faults = 0
-----------------------------------------------------------------------------
(* The world: time passes, and log shippers index events late.             *)

Tick ==
  /\ closed < MaxWindow
  /\ closed' = closed + 1
  /\ UNCHANGED <<events, vectors, ledger, queue, built, unsent, faults>>

Ingest(w, e) ==
  /\ w <= closed + 1
  /\ events[w][e] < MaxIngested[e]
  /\ events' = [events EXCEPT ![w][e] = @ + 1]
  /\ UNCHANGED <<closed, vectors, ledger, queue, built, unsent, faults>>
-----------------------------------------------------------------------------
(* The ledger and the windows of one pass.                                 *)

Failed == {w \in Window : ledger[w].status = "failed"}
Settled == {w \in Window : ledger[w].status \notin {"none", "failed"}}

\* FeatureState.last_done, 0 while no window is settled.
last_done == Max(Settled \cup {0})

\* The windows a pass considers begin after the last settled one, or at the
\* lookback when there is none.
Since ==
  IF last_done # 0 THEN last_done + 1 ELSE Max({1, closed + 1 - Lookback})

closed_windows ==
  {w \in Window : Since <= w /\ w <= closed /\ w < Since + MaxWindows}

\* Failed windows retried in one pass.
RetrySlots == Max({1, MaxWindows \div 4})

\* Mutant: one retry slot fewer.
RetriedFewer == FirstOf(Failed, RetrySlots - 1, <)

\* The oldest failed windows, as many as a pass retries.
Retried == FirstOf(Failed, RetrySlots, <)

\* Mutant: a failed window that is also a candidate is queued twice.
PendingDuplicated(retried) ==
  LET pending == closed_windows \ Settled
  IN  FirstOf(pending, Cardinality(pending), <)

\* The candidates that are neither settled nor among the retried, oldest first.
PendingWindows(retried) ==
  LET pending == closed_windows \ (Settled \cup Range(retried))
  IN  FirstOf(pending, Cardinality(pending), <)

\* run_once: read the ledger, and queue the windows of this pass, failed ones
\* first and none of them twice.
run_once ==
  /\ queue = <<>>
  /\ \E retried \in Retried : \E pending \in PendingWindows(retried) :
       queue' = retried \o pending
  /\ queue' # <<>>
  /\ UNCHANGED <<closed, events, vectors, ledger, built, unsent, faults>>

\* FeatureState.record: the window leaves the queue with its outcome.
Recorded(status, n) ==
  /\ ledger' = [ledger EXCEPT ![Head(queue)] = [status |-> status, vectors |-> n]]
  /\ queue' = Tail(queue)
  /\ built' = {}
  /\ unsent' = {}
-----------------------------------------------------------------------------
(* process_window.                                                         *)

Present(w) == {e \in Entity : events[w][e] > 0}

CountOf(w) == FoldSet(LAMBDA e, total : total + events[w][e], 0, Entity)

\* The vectors the engine builds from the fetched events.
Built(w) == {[window |-> w, entity |-> e, n |-> events[w][e]] : e \in Present(w)}

\* Fetch the events of the window; more than the cap, none, or events the
\* contract refuses end the window before anything is created.
Fetch ==
  /\ queue # <<>> /\ built = {}
  /\ LET w == Head(queue)
     IN \/ CountOf(w) > MaxEvents /\ Recorded("oversized", 0)
        \/ CountOf(w) = 0 /\ Recorded("empty", 0)
        \/ CountOf(w) \in 1..MaxEvents /\ w \in Malformed /\ Recorded("failed", 0)
        \/ /\ CountOf(w) \in 1..MaxEvents /\ w \notin Malformed
           /\ built' = Built(w)
           /\ unsent' = Built(w)
           /\ UNCHANGED <<ledger, queue>>
  /\ UNCHANGED <<closed, events, vectors, faults>>

\* elastic.create of one vector; 409 answers that it exists already.
Create(v) ==
  /\ v \in unsent
  /\ vectors' = vectors \cup {v}
  /\ unsent' = unsent \ {v}
  /\ UNCHANGED <<closed, events, ledger, queue, built, faults>>

\* The request fails, or it succeeds and its acknowledgement is lost.
CreateFails(v) ==
  /\ v \in unsent
  /\ faults < MaxFaults
  /\ faults' = faults + 1
  /\ vectors' \in {vectors, vectors \cup {v}}
  /\ Recorded("failed", 0)
  /\ UNCHANGED <<closed, events>>

\* Mutant: the outcome is recorded once the first vector is created.
FinishEarly ==
  /\ built # {}
  /\ unsent # built
  /\ Recorded("done", Cardinality(built))
  /\ UNCHANGED <<closed, events, vectors, faults>>

Finish ==
  /\ built # {}
  /\ unsent = {}
  /\ Recorded("done", Cardinality(built))
  /\ UNCHANGED <<closed, events, vectors, faults>>

\* The process dies: by a crash, or because no handler catches the error of
\* a failed fetch.  The ledger and the index remain.
Crash ==
  /\ queue # <<>>
  /\ faults < MaxFaults
  /\ faults' = faults + 1
  /\ queue' = <<>>
  /\ built' = {}
  /\ unsent' = {}
  /\ UNCHANGED <<closed, events, vectors, ledger>>

Work ==
  \/ run_once
  \/ Fetch
  \/ \E v \in unsent : Create(v)
  \/ Finish

Next ==
  \/ Tick
  \/ \E w \in Window, e \in Entity : Ingest(w, e)
  \/ Work
  \/ \E v \in unsent : CreateFails(v)
  \/ Crash

\* The worker loops forever and its container is restarted when it exits.
Spec == Init /\ [][Next]_vars /\ WF_vars(Work)
-----------------------------------------------------------------------------
\* Every variable keeps to its values.
TypeOK ==
  /\ closed \in 0..MaxWindow
  /\ events \in [Window -> [Entity -> Nat]]
  /\ vectors \subseteq Vector
  /\ ledger \in [Window -> Row]
  /\ queue \in Seq(Window)
  /\ built \subseteq Vector
  /\ unsent \subseteq built
  /\ faults \in 0..MaxFaults

\* A window recorded as done has, in the index, a vector of each entity it was
\* counted for: neither a lost acknowledgement, a partial delivery nor a crash
\* lets process_window settle a window whose vectors are missing.
DoneIsDelivered ==
  \A w \in Window :
    ledger[w].status = "done" =>
      Cardinality({v.entity : v \in {x \in vectors : x.window = w}})
        >= ledger[w].vectors

\* Once a window is settled nothing is created for it any more, however late its
\* events arrive: "late log shipping does not change a window that was already
\* emitted".
SettledWindowsFixed ==
  [][\A v \in vectors' \ vectors : v.window \notin Settled]_vars

\* A window that failed for a passing reason is settled in the end: the windows
\* whose events break the contract never take all the retry slots of a pass, as
\* long as there are fewer of them than slots.
FailedWindowsSettle ==
  \A w \in Window \ Malformed : w \in Failed ~> w \in Settled
=============================================================================
