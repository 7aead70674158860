------------------------ MODULE FeatureWorkerProofs ------------------------
(***************************************************************************)
(* Proofs about FeatureWorker, for every set of entities, number of        *)
(* windows and limits, any number of late events, lost acknowledgements    *)
(* and crashes.                                                            *)
(***************************************************************************)
EXTENDS FeatureWorker, FiniteSetTheorems, SequenceTheorems, TLAPS

\* A pass holds every window once, and none that is settled.
QueueOK ==
  /\ \A i, j \in DOMAIN queue : queue[i] = queue[j] => i = j
  /\ \A i \in DOMAIN queue : queue[i] \notin Settled

\* The vectors in hand are those of the current window, one per entity; they are
\* in the index or still to be created.
BuiltOK ==
  /\ built # {} => queue # <<>> /\ \A v \in built : v.window = Head(queue)
  /\ \A u, v \in built : u.entity = v.entity => u = v
  /\ built \subseteq vectors \cup unsent

\* The inductive invariant.
Inv == TypeOK /\ QueueOK /\ BuiltOK /\ DoneIsDelivered

\* The entities that have a vector of a window in the index.
Delivered(w) == {v.entity : v \in {x \in vectors : x.window = w}}
-----------------------------------------------------------------------------
(* Cardinalities.                                                          *)

\* Each vector of `built` is of an entity of its own.
LEMMA OneEntityEach ==
  ASSUME TypeOK, BuiltOK, NEW w \in Window, \A v \in built : v.window = w, built \subseteq vectors
  PROVE  Cardinality(Delivered(w)) >= Cardinality(built) /\ Cardinality(built) \in Nat
<1>1. Delivered(w) \in SUBSET Entity
  BY DEF Delivered, TypeOK, Vector
<1>2. IsFiniteSet(Delivered(w))
  BY <1>1, FS_Subset, FeatureAssumption
<1> DEFINE f == [v \in built |-> v.entity]
<1>3. f \in Injection(built, Delivered(w))
  <2>1. f \in [built -> Delivered(w)]
    BY DEF Delivered
  <2>2. \A u, v \in built : f[u] = f[v] => u = v
    BY DEF BuiltOK
  <2> QED BY <2>1, <2>2 DEF Injection, IsInjective
<1> HIDE DEF f
<1>4. IsFiniteSet(built) /\ Cardinality(built) <= Cardinality(Delivered(w))
  BY <1>2, <1>3, FS_Injection
<1>5. Cardinality(built) \in Nat /\ Cardinality(Delivered(w)) \in Nat
  BY <1>2, <1>4, FS_CardinalityType
<1> QED BY <1>4, <1>5

\* What was delivered stays delivered.
LEMMA DeliveredGrows ==
  ASSUME TypeOK, TypeOK', vectors \subseteq vectors', NEW w \in Window
  PROVE  /\ Cardinality(Delivered(w)) \in Nat /\ Cardinality(Delivered(w)') \in Nat
         /\ Cardinality(Delivered(w)) <= Cardinality(Delivered(w)')
<1>1. Delivered(w) \in SUBSET Entity /\ Delivered(w)' \in SUBSET Entity
  BY DEF Delivered, TypeOK, Vector
<1>2. Delivered(w) \in SUBSET (Delivered(w)')
  BY DEF Delivered
<1>3. IsFiniteSet(Delivered(w)) /\ IsFiniteSet(Delivered(w)')
  BY <1>1, FS_Subset, FeatureAssumption
<1> QED BY <1>2, <1>3, FS_Subset, FS_CardinalityType

\* A step that leaves the ledger alone and takes nothing from the index.
LEMMA LedgerKeeps ==
  ASSUME Inv, TypeOK', UNCHANGED ledger, vectors \subseteq vectors'
  PROVE  DoneIsDelivered'
<1>1. ASSUME NEW w \in Window, ledger'[w].status = "done"
      PROVE  Cardinality(Delivered(w)') >= ledger'[w].vectors
  <2>1. ledger[w].vectors \in Nat
    BY DEF Inv, TypeOK, Row
  <2>2. Cardinality(Delivered(w)) >= ledger[w].vectors
    BY <1>1 DEF Inv, DoneIsDelivered, Delivered
  <2>3. /\ Cardinality(Delivered(w)) \in Nat /\ Cardinality(Delivered(w)') \in Nat
        /\ Cardinality(Delivered(w)) <= Cardinality(Delivered(w)')
    BY DeliveredGrows DEF Inv
  <2> QED BY <2>1, <2>2, <2>3
<1> QED BY <1>1 DEF DoneIsDelivered, Delivered
-----------------------------------------------------------------------------
(* The queue of a pass.                                                    *)

\* A set of windows is finite, and a window is a number.
LEMMA Windows ==
  /\ \A w \in Window : w \in Int
  /\ \A S \in SUBSET Window : IsFiniteSet(S) /\ Cardinality(S) \in Nat
<1>1. MaxWindow \in Int
  BY FeatureAssumption
<1>2. IsFiniteSet(Window)
  BY <1>1, FS_Interval DEF Window
<1>3. \A S \in SUBSET Window : IsFiniteSet(S) /\ Cardinality(S) \in Nat
  BY <1>2, FS_Subset, FS_CardinalityType
<1>4. \A w \in Window : w \in Int
  BY <1>1 DEF Window
<1> QED BY <1>3, <1>4

\* A page of windows is a sequence of them.
LEMMA Pages ==
  ASSUME NEW S \in SUBSET Window, NEW limit \in Nat,
         NEW page \in [1..Min({limit, Cardinality(S)}) -> S]
  PROVE  page \in Seq(S) /\ DOMAIN page = 1..Min({limit, Cardinality(S)})
<1> DEFINE c == Cardinality(S)
           size == Min({limit, c})
<1>1. c \in Nat
  BY Windows
<1>2. page \in [1..size -> S]
  OBVIOUS
<1> HIDE DEF c
<1>3. size \in Nat
  <2>1. \E x \in {limit, c} : \A y \in {limit, c} : x <= y
    BY <1>1, limit <= c \/ c <= limit
  <2>2. Min({limit, c}) \in {limit, c}
    BY <2>1 DEF Min
  <2> QED BY <1>1, <2>2
<1>4. size = Min({limit, Cardinality(S)})
  BY DEF c
<1> HIDE DEF size
<1> QED BY <1>2, <1>3, <1>4

\* The queue of a pass holds no window twice and none that is settled.
LEMMA PassQueue ==
  ASSUME TypeOK, NEW retried \in Retried, NEW pending \in PendingWindows(retried)
  PROVE  /\ retried \o pending \in Seq(Window)
         /\ \A i, j \in DOMAIN (retried \o pending) :
              (retried \o pending)[i] = (retried \o pending)[j] => i = j
         /\ \A i \in DOMAIN (retried \o pending) : (retried \o pending)[i] \notin Settled
<1>1. RetrySlots \in Nat
  <2> DEFINE n == MaxWindows \div 4
  <2>1. n \in Nat
    BY FeatureAssumption
  <2> HIDE DEF n
  <2>2. \E x \in {1, n} : \A y \in {1, n} : x >= y
    BY <2>1, 1 <= n \/ n <= 1
  <2>3. Max({1, n}) \in {1, n}
    BY <2>2 DEF Max
  <2> QED BY <2>1, <2>3 DEF RetrySlots, n
<1>2. /\ retried \in Seq(Failed)
      /\ \A j, k \in DOMAIN retried : j < k => retried[j] < retried[k]
  <2>1. Failed \in SUBSET Window
    BY DEF Failed
  <2>2. /\ retried \in [1..Min({RetrySlots, Cardinality(Failed)}) -> Failed]
        /\ \A j, k \in 1..Min({RetrySlots, Cardinality(Failed)}) : j < k => retried[j] < retried[k]
    BY DEF Retried, FirstOf
  <2> QED BY <1>1, <2>1, <2>2, Pages
<1> DEFINE P == closed_windows \ (Settled \cup Range(retried))
<1>3. P \in SUBSET Window /\ P \cap Settled = {} /\ P \cap Range(retried) = {}
  BY DEF closed_windows
<1>4. /\ pending \in [1..Min({Cardinality(P), Cardinality(P)}) -> P]
      /\ \A j, k \in 1..Min({Cardinality(P), Cardinality(P)}) : j < k => pending[j] < pending[k]
  BY DEF PendingWindows, FirstOf
<1> HIDE DEF P
<1>5. Cardinality(P) \in Nat
  BY <1>3, Windows
<1>6. pending \in Seq(P) /\ \A j, k \in DOMAIN pending : j < k => pending[j] < pending[k]
  BY <1>3, <1>4, <1>5, Pages
<1>7. Failed \subseteq Window /\ Failed \cap Settled = {}
  BY DEF Failed, Settled
<1>8. /\ Len(retried) \in Nat /\ DOMAIN retried = 1..Len(retried)
      /\ \A i \in DOMAIN retried : retried[i] \in Failed /\ retried[i] \in Range(retried)
  BY <1>2 DEF Range
<1>9. /\ Len(pending) \in Nat /\ DOMAIN pending = 1..Len(pending)
      /\ \A i \in DOMAIN pending : pending[i] \in P
  BY <1>6
<1>10. retried \in Seq(Window) /\ pending \in Seq(Window)
  BY <1>2, <1>3, <1>6, <1>7
<1> DEFINE q == retried \o pending
<1>11. /\ q \in Seq(Window) /\ DOMAIN q = 1..(Len(retried) + Len(pending))
       /\ \A i \in DOMAIN q : q[i] = IF i <= Len(retried) THEN retried[i] ELSE pending[i - Len(retried)]
  BY <1>10, ConcatProperties, LenProperties
<1> HIDE DEF q
<1>12. \A i \in DOMAIN q : \/ i \in DOMAIN retried /\ q[i] = retried[i]
                           \/ /\ i - Len(retried) \in DOMAIN pending /\ i > Len(retried)
                              /\ q[i] = pending[i - Len(retried)]
  BY <1>8, <1>9, <1>11
<1>13. \A i \in DOMAIN q : q[i] \notin Settled
  BY <1>3, <1>7, <1>8, <1>9, <1>12
<1>14. ASSUME NEW i \in DOMAIN q, NEW j \in DOMAIN q, i < j
       PROVE  q[i] # q[j]
  <2>0. i \in Nat /\ j \in Nat
    BY <1>11
  <2>1. CASE i \in DOMAIN retried /\ q[i] = retried[i] /\ j \in DOMAIN retried /\ q[j] = retried[j]
    <3>1. retried[i] < retried[j] /\ retried[i] \in Int
      BY <1>2, <1>7, <1>8, <1>14, <2>1, Windows
    <3> QED BY <2>1, <3>1
  <2>2. CASE /\ i \in DOMAIN retried /\ q[i] = retried[i]
             /\ j - Len(retried) \in DOMAIN pending /\ q[j] = pending[j - Len(retried)]
    BY <1>3, <1>8, <1>9, <2>2
  <2>3. CASE /\ i - Len(retried) \in DOMAIN pending /\ q[i] = pending[i - Len(retried)]
             /\ j - Len(retried) \in DOMAIN pending /\ q[j] = pending[j - Len(retried)]
    <3>1. i - Len(retried) < j - Len(retried)
      BY <1>8, <1>14, <2>0
    <3>2. pending[i - Len(retried)] < pending[j - Len(retried)]
      BY <1>6, <2>3, <3>1
    <3>3. pending[i - Len(retried)] \in Int
      BY <1>3, <1>9, <2>3, Windows
    <3> QED BY <2>3, <3>2, <3>3
  <2> QED BY <1>8, <1>12, <1>14, <2>0, <2>1, <2>2, <2>3
<1>15. \A i, j \in DOMAIN q : q[i] = q[j] => i = j
  <2>1. DOMAIN q \subseteq Int
    BY <1>11
  <2> QED BY <1>14, <2>1
<1> QED BY <1>11, <1>13, <1>15 DEF q
-----------------------------------------------------------------------------
(* The steps.                                                              *)

\* record(): the current window leaves the queue with its outcome.
LEMMA RecordedKeeps ==
  ASSUME Inv, queue # <<>>, NEW status \in Status, NEW n \in Nat, Recorded(status, n),
         UNCHANGED <<closed, events>>, vectors \subseteq vectors', vectors' \subseteq Vector,
         faults' \in 0..MaxFaults,
         status = "done" => Cardinality(Delivered(Head(queue))) >= n
  PROVE  Inv'
<1> DEFINE w == Head(queue)
<1>1. TypeOK /\ QueueOK /\ ledger \in [Window -> Row] /\ queue \in Seq(Window)
  BY DEF Inv, TypeOK
<1>2. w \in Window /\ w = queue[1] /\ 1 \in DOMAIN queue
  BY <1>1
<1>3. /\ ledger' = [ledger EXCEPT ![w] = [status |-> status, vectors |-> n]]
      /\ queue' = Tail(queue) /\ built' = {} /\ unsent' = {}
  BY DEF Recorded
<1>4. /\ queue' \in Seq(Window) /\ DOMAIN queue' = 1..(Len(queue) - 1)
      /\ DOMAIN queue = 1..Len(queue) /\ Len(queue) \in Nat
      /\ \A i \in DOMAIN queue' : i + 1 \in DOMAIN queue /\ queue'[i] = queue[i + 1]
  BY <1>1, <1>3
<1> HIDE DEF w
<1>5. [status |-> status, vectors |-> n] \in Row
  BY DEF Row
<1>6. /\ ledger' \in [Window -> Row]
      /\ \A x \in Window : ledger'[x] = IF x = w THEN [status |-> status, vectors |-> n] ELSE ledger[x]
  BY <1>1, <1>2, <1>3, <1>5
<1>7. TypeOK'
  BY <1>1, <1>3, <1>4, <1>6 DEF TypeOK
<1>8. QueueOK'
  <2>1. \A i, j \in DOMAIN queue' : queue'[i] = queue'[j] => i = j
    <3>1. ASSUME NEW i \in DOMAIN queue', NEW j \in DOMAIN queue', queue'[i] = queue'[j]
          PROVE  i = j
      <4>1. i + 1 = j + 1
        BY <1>1, <1>4, <3>1 DEF QueueOK
      <4> QED BY <1>4, <4>1
    <3> QED BY <3>1
  <2>2. ASSUME NEW i \in DOMAIN queue'
        PROVE  queue'[i] \notin Settled'
    <3>1. i + 1 # 1 /\ i + 1 \in DOMAIN queue /\ queue'[i] = queue[i + 1] /\ queue'[i] \in Window
      BY <1>4
    <3>2. queue'[i] # w
      BY <1>1, <1>2, <3>1 DEF QueueOK
    <3>3. queue'[i] \notin Settled
      BY <1>1, <3>1 DEF QueueOK
    <3> QED BY <1>6, <3>1, <3>2, <3>3 DEF Settled
  <2> QED BY <2>1, <2>2 DEF QueueOK
<1>9. BuiltOK'
  BY <1>3 DEF BuiltOK
<1>10. DoneIsDelivered'
  <2>1. ASSUME NEW x \in Window, ledger'[x].status = "done"
        PROVE  Cardinality(Delivered(x)') >= ledger'[x].vectors
    <3>1. /\ Cardinality(Delivered(x)) \in Nat /\ Cardinality(Delivered(x)') \in Nat
          /\ Cardinality(Delivered(x)) <= Cardinality(Delivered(x)')
      BY <1>1, <1>7, DeliveredGrows
    <3>2. ledger'[x].vectors \in Nat
      BY <1>6 DEF Row
    <3>3. Cardinality(Delivered(x)) >= ledger'[x].vectors
      <4>1. CASE x = w
        BY <1>6, <2>1, <4>1 DEF w
      <4>2. CASE x # w
        BY <1>6, <2>1, <4>2 DEF Inv, DoneIsDelivered, Delivered
      <4> QED BY <4>1, <4>2
    <3> QED BY <3>1, <3>2, <3>3
  <2> QED BY <2>1 DEF DoneIsDelivered, Delivered
<1> QED BY <1>7, <1>8, <1>9, <1>10 DEF Inv

\* Tick, Ingest and Crash.
LEMMA WorldSteps ==
  ASSUME Inv, Tick \/ (\E w \in Window, e \in Entity : Ingest(w, e)) \/ Crash
  PROVE  Inv'
<1>1. UNCHANGED <<vectors, ledger>>
  BY DEF Tick, Ingest, Crash
<1>2. TypeOK
  BY DEF Inv
<1>3. CASE Tick
  <2>1. closed' \in 0..MaxWindow /\ UNCHANGED <<events, queue, built, unsent, faults>>
    BY <1>2, <1>3, FeatureAssumption DEF Tick, TypeOK
  <2>2. TypeOK'
    BY <1>1, <1>2, <2>1 DEF TypeOK
  <2>3. QueueOK' /\ BuiltOK'
    BY <1>1, <2>1 DEF Inv, QueueOK, BuiltOK, Settled
  <2> QED BY <1>1, <2>2, <2>3, LedgerKeeps DEF Inv
<1>4. CASE \E w \in Window, e \in Entity : Ingest(w, e)
  <2>1. PICK w \in Window, e \in Entity : Ingest(w, e)
    BY <1>4
  <2>2. events' = [events EXCEPT ![w][e] = @ + 1] /\ UNCHANGED <<closed, queue, built, unsent, faults>>
    BY <2>1 DEF Ingest
  <2>3. events' \in [Window -> [Entity -> Nat]]
    <3>1. events[w] \in [Entity -> Nat] /\ events[w][e] + 1 \in Nat
      BY <1>2 DEF TypeOK
    <3>2. [events[w] EXCEPT ![e] = @ + 1] \in [Entity -> Nat]
      BY <3>1
    <3> QED BY <1>2, <2>2, <3>2 DEF TypeOK
  <2>4. TypeOK'
    BY <1>1, <1>2, <2>2, <2>3 DEF TypeOK
  <2>5. QueueOK' /\ BuiltOK'
    BY <1>1, <2>2 DEF Inv, QueueOK, BuiltOK, Settled
  <2> QED BY <1>1, <2>4, <2>5, LedgerKeeps DEF Inv
<1>5. CASE Crash
  <2>1. /\ faults' \in 0..MaxFaults /\ queue' = <<>> /\ built' = {} /\ unsent' = {}
        /\ UNCHANGED <<closed, events>>
    BY <1>2, <1>5, FeatureAssumption DEF Crash, TypeOK
  <2>2. DOMAIN queue' = {} /\ queue' \in Seq(Window)
    BY <2>1
  <2>3. TypeOK'
    BY <1>1, <1>2, <2>1, <2>2 DEF TypeOK
  <2>4. QueueOK' /\ BuiltOK'
    BY <2>1, <2>2 DEF QueueOK, BuiltOK
  <2> QED BY <1>1, <2>3, <2>4, LedgerKeeps DEF Inv
<1> QED BY <1>3, <1>4, <1>5

\* run_once.
LEMMA PassBegins ==
  ASSUME Inv, run_once
  PROVE  Inv'
<1>1. queue = <<>> /\ UNCHANGED <<closed, events, vectors, ledger, built, unsent, faults>>
  BY DEF run_once
<1>2. TypeOK /\ built = {}
  BY <1>1 DEF Inv, BuiltOK
<1>3. PICK retried \in Retried : \E pending \in PendingWindows(retried) : queue' = retried \o pending
  BY DEF run_once
<1>4. PICK pending \in PendingWindows(retried) : queue' = retried \o pending
  BY <1>3
<1>5. /\ queue' \in Seq(Window)
      /\ \A i, j \in DOMAIN queue' : queue'[i] = queue'[j] => i = j
      /\ \A i \in DOMAIN queue' : queue'[i] \notin Settled
  BY <1>2, <1>4, PassQueue
<1>6. TypeOK'
  BY <1>1, <1>2, <1>5 DEF TypeOK
<1>7. QueueOK' /\ BuiltOK'
  <2>1. Settled' = Settled
    BY <1>1 DEF Settled
  <2>2. QueueOK'
    BY <1>5, <2>1 DEF QueueOK
  <2>3. BuiltOK'
    BY <1>1, <1>2 DEF BuiltOK
  <2> QED BY <2>2, <2>3
<1> QED BY <1>1, <1>6, <1>7, LedgerKeeps DEF Inv

\* Fetch.
LEMMA FetchStep ==
  ASSUME Inv, Fetch
  PROVE  Inv'
<1> DEFINE w == Head(queue)
<1>1. queue # <<>> /\ built = {} /\ UNCHANGED <<closed, events, vectors, faults>>
  BY DEF Fetch
<1>2. TypeOK /\ w \in Window
  BY <1>1 DEF Inv, TypeOK
<1>3. ASSUME NEW status \in {"oversized", "empty", "failed"}, Recorded(status, 0)
      PROVE  Inv'
  <2>1. status \in Status /\ status # "done" /\ vectors' \subseteq Vector /\ faults' \in 0..MaxFaults
    BY <1>1, <1>2 DEF Status, TypeOK
  <2> QED BY <1>1, <1>3, <2>1, RecordedKeeps
<1>4. ASSUME built' = Built(w), unsent' = Built(w), UNCHANGED <<ledger, queue>>
      PROVE  Inv'
  <2>1. \A v \in built' : \E e \in Entity : v = [window |-> w, entity |-> e, n |-> events[w][e]]
                                            /\ events[w][e] \in Nat \ {0}
    BY <1>2, <1>4 DEF Built, Present, TypeOK
  <2>2. /\ \A v \in built' : v \in Vector /\ v.window = w
        /\ \A u, v \in built' : u.entity = v.entity => u = v
    BY <1>2, <2>1 DEF Vector
  <2>3. TypeOK'
    BY <1>1, <1>2, <1>4, <2>2 DEF TypeOK
  <2>4. BuiltOK'
    BY <1>1, <1>4, <2>2 DEF BuiltOK
  <2>5. QueueOK'
    BY <1>4 DEF Inv, QueueOK, Settled
  <2> QED BY <1>1, <1>4, <2>3, <2>4, <2>5, LedgerKeeps DEF Inv
<1> QED BY <1>3, <1>4 DEF Fetch

\* Create.
LEMMA CreateStep ==
  ASSUME Inv, NEW v \in unsent, Create(v)
  PROVE  Inv'
<1>1. /\ vectors' = vectors \cup {v} /\ unsent' = unsent \ {v}
      /\ UNCHANGED <<closed, events, ledger, queue, built, faults>>
  BY DEF Create
<1>2. TypeOK /\ v \in Vector
  BY DEF Inv, TypeOK
<1>3. TypeOK'
  BY <1>1, <1>2 DEF TypeOK
<1>4. QueueOK' /\ BuiltOK'
  BY <1>1 DEF Inv, QueueOK, BuiltOK, Settled
<1> QED BY <1>1, <1>3, <1>4, LedgerKeeps DEF Inv

\* CreateFails.
LEMMA CreateFailsStep ==
  ASSUME Inv, NEW v \in unsent, CreateFails(v)
  PROVE  Inv'
<1>1. /\ vectors' \in {vectors, vectors \cup {v}} /\ Recorded("failed", 0)
      /\ faults < MaxFaults /\ faults' = faults + 1 /\ UNCHANGED <<closed, events>>
  BY DEF CreateFails
<1>2. TypeOK /\ v \in Vector /\ v \in built
  BY DEF Inv, TypeOK
<1>3. queue # <<>>
  BY <1>2 DEF Inv, BuiltOK
<1>4. faults' \in 0..MaxFaults /\ vectors' \subseteq Vector /\ vectors \subseteq vectors'
  BY <1>1, <1>2, FeatureAssumption DEF TypeOK
<1>5. "failed" \in Status /\ "failed" # "done"
  BY DEF Status
<1> QED BY <1>1, <1>3, <1>4, <1>5, RecordedKeeps

\* Finish: all vectors in hand are in the index.
LEMMA FinishStep ==
  ASSUME Inv, Finish
  PROVE  Inv'
<1>1. /\ built # {} /\ unsent = {} /\ Recorded("done", Cardinality(built))
      /\ UNCHANGED <<closed, events, vectors, faults>>
  BY DEF Finish
<1>2. TypeOK /\ BuiltOK /\ queue # <<>> /\ built \subseteq vectors
      /\ \A v \in built : v.window = Head(queue)
  BY <1>1 DEF Inv, BuiltOK
<1>3. Head(queue) \in Window
  BY <1>2 DEF TypeOK
<1>4. Cardinality(Delivered(Head(queue))) >= Cardinality(built) /\ Cardinality(built) \in Nat
  BY <1>2, <1>3, OneEntityEach
<1>5. "done" \in Status /\ faults' \in 0..MaxFaults /\ vectors' \subseteq Vector
  BY <1>1, <1>2 DEF Status, TypeOK
<1> QED BY <1>1, <1>2, <1>4, <1>5, RecordedKeeps
-----------------------------------------------------------------------------
(* The theorems.                                                           *)

\* Nothing is queued or settled at first.
LEMMA InitEstablishesInv ==
  ASSUME Init
  PROVE  Inv
<1>1. /\ closed = 0 /\ events = [w \in Window |-> [e \in Entity |-> 0]] /\ vectors = {}
      /\ ledger = [w \in Window |-> [status |-> "none", vectors |-> 0]]
      /\ queue = <<>> /\ built = {} /\ unsent = {} /\ faults = 0
  BY DEF Init
<1>2. ledger \in [Window -> Row] /\ \A w \in Window : ledger[w].status # "done"
  BY <1>1 DEF Row, Status
<1>3. TypeOK
  <2>1. events \in [Window -> [Entity -> Nat]]
    BY <1>1
  <2> QED BY <1>1, <1>2, <2>1, FeatureAssumption DEF TypeOK
<1>4. QueueOK /\ BuiltOK
  <2>1. DOMAIN queue = {}
    BY <1>1
  <2> QED BY <1>1, <2>1 DEF QueueOK, BuiltOK
<1>5. DoneIsDelivered
  BY <1>2 DEF DoneIsDelivered
<1> QED BY <1>3, <1>4, <1>5 DEF Inv

\* Every step keeps the invariant.
LEMMA NextKeepsInv ==
  ASSUME Inv, Next
  PROVE  Inv'
<1>1. CASE Tick \/ (\E w \in Window, e \in Entity : Ingest(w, e)) \/ Crash
  BY <1>1, WorldSteps
<1>2. CASE Work
  BY <1>2, PassBegins, FetchStep, CreateStep, FinishStep DEF Work
<1>3. CASE \E v \in unsent : CreateFails(v)
  BY <1>3, CreateFailsStep
<1> QED BY <1>1, <1>2, <1>3 DEF Next

\* The invariant of the worker, its ledger and the index it writes.
THEOREM Invariance == Spec => []Inv
<1>1. Inv /\ UNCHANGED vars => Inv'
  <2> SUFFICES ASSUME Inv, UNCHANGED vars PROVE Inv'
    OBVIOUS
  <2>1. UNCHANGED <<closed, events, vectors, ledger, queue, built, unsent, faults>>
    BY DEF vars
  <2>2. TypeOK' /\ QueueOK' /\ BuiltOK'
    BY <2>1 DEF Inv, TypeOK, QueueOK, BuiltOK, Settled
  <2> QED BY <2>1, <2>2, LedgerKeeps DEF Inv
<1> QED BY <1>1, InitEstablishesInv, NextKeepsInv, PTL DEF Spec

\* A window is done only when each entity it was counted for has its vector.
THEOREM DoneWindowsDelivered == Spec => []DoneIsDelivered
<1>1. Inv => DoneIsDelivered
  BY DEF Inv
<1> QED BY <1>1, Invariance, PTL

\* Nothing is created for a window that was settled before.
THEOREM SettledStayFixed == Spec => SettledWindowsFixed
<1>1. Inv /\ [Next]_vars => [\A v \in vectors' \ vectors : v.window \notin Settled]_vars
  <2> SUFFICES ASSUME Inv, Next, NEW v \in vectors' \ vectors
               PROVE  v.window \notin Settled
    BY DEF vars
  <2>1. v \in unsent
    BY DEF Next, Work, Tick, Ingest, run_once, Fetch, Create, Finish, CreateFails, Crash
  <2>2. v \in built /\ queue # <<>> /\ v.window = Head(queue)
    BY <2>1 DEF Inv, TypeOK, BuiltOK
  <2>3. 1 \in DOMAIN queue /\ Head(queue) = queue[1]
    BY <2>2 DEF Inv, TypeOK
  <2> QED BY <2>2, <2>3 DEF Inv, QueueOK
<1> QED BY <1>1, Invariance, PTL DEF Spec, SettledWindowsFixed

=============================================================================
