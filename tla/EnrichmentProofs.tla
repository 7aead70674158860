-------------------------- MODULE EnrichmentProofs --------------------------
(***************************************************************************)
(* Proofs about Enrichment, for every set of vectors and of models, every  *)
(* limit, and any number of faults, requeues and model changes.            *)
(***************************************************************************)
EXTENDS Enrichment, FiniteSetTheorems, TLAPS

\* A job is known by its vector and the model it was queued for; the event it
\* carries is one of that model, and a job that was sent has one.
JobsOK ==
  /\ \A i, j \in DOMAIN jobs : jobs[i].vector = jobs[j].vector /\ jobs[i].hash = jobs[j].hash => i = j
  /\ \A i \in DOMAIN jobs :
       /\ jobs[i].event # NoEvent => jobs[i].event.by = jobs[i].hash
       /\ jobs[i].state = "sent" => jobs[i].event # NoEvent /\ DocumentOf(jobs[i]) \in indexed

\* What is indexed is the event a job carries.
IndexedOK ==
  \A d \in indexed : \E i \in DOMAIN jobs : d = DocumentOf(jobs[i]) /\ jobs[i].event # NoEvent

\* How far the delivery of the current job has come.
StageOK ==
  batch # <<>> =>
    /\ stage \in {"put", "ack"} => Current.event # NoEvent
    /\ stage = "ack" => DocumentOf(Current) \in indexed

\* The page in hand lies ahead of the scan, in order and without a gap, except
\* for what was indexed after it was fetched.
PageOK ==
  /\ \A i \in DOMAIN pull.page : pull.at < pull.page[i]
  /\ \A i, j \in DOMAIN pull.page : i < j => pull.page[i] < pull.page[j]
  /\ \A v \in vectors \ missed, i \in DOMAIN pull.page :
       pull.at < v /\ v <= pull.page[i] => \E j \in DOMAIN pull.page : pull.page[j] = v

\* Whatever the scan has passed is queued, also before the cursor is saved,
\* unless it was indexed behind the scan.
PullOK ==
  pull.on =>
    /\ cursor <= pull.at
    /\ \A v \in vectors \ (late \cup missed \cup Invalid) :
         v <= pull.at => \E m \in Model : Queued(v, m)
    /\ PageOK

\* The inductive invariant.
Inv == TypeOK /\ now \in 0..MaxTime /\ JobsOK /\ IndexedOK /\ StageOK /\ PullOK /\ PulledIsQueued
-----------------------------------------------------------------------------
(* Sets and sequences.                                                     *)

\* Of two numbers one is the smaller and one the larger.
LEMMA MinMaxOfTwo ==
  ASSUME NEW a \in Int, NEW b \in Int
  PROVE  /\ Min({a, b}) \in {a, b} /\ Min({a, b}) <= a /\ Min({a, b}) <= b
         /\ Max({a, b}) \in {a, b} /\ a <= Max({a, b}) /\ b <= Max({a, b})
<1>1. \E x \in {a, b} : \A y \in {a, b} : x <= y
  BY a <= b \/ b <= a
<1>2. \E x \in {a, b} : \A y \in {a, b} : x >= y
  BY a <= b \/ b <= a
<1>3. Min({a, b}) \in {a, b} /\ \A y \in {a, b} : Min({a, b}) <= y
  BY <1>1 DEF Min
<1>4. Max({a, b}) \in {a, b} /\ \A y \in {a, b} : Max({a, b}) >= y
  BY <1>2 DEF Max
<1> QED BY <1>3, <1>4

\* A page of a table of numbered rows is a sequence of their numbers.
LEMMA DueIsPage ==
  ASSUME jobs \in Seq(Job), NEW b \in Due
  PROVE  b \in Seq(DOMAIN jobs)
<1> DEFINE ready == {i \in DOMAIN jobs : jobs[i].state \in {"pending", "scored"} /\ ~jobs[i].backoff}
           size == Min({DrainLimit, Cardinality(ready)})
<1>1. IsFiniteSet(DOMAIN jobs) /\ ready \in SUBSET (DOMAIN jobs)
  <2>1. DOMAIN jobs = 1..Len(jobs) /\ Len(jobs) \in Nat
    OBVIOUS
  <2> QED BY <2>1, FS_Interval
<1>2. Cardinality(ready) \in Nat
  BY <1>1, FS_Subset, FS_CardinalityType
<1>3. b \in [1..size -> ready]
  BY DEF Due, FirstOf
<1> HIDE DEF ready
<1>4. size \in Nat
  <2>1. Cardinality(ready) \in Int /\ DrainLimit \in Int /\ DrainLimit \in Nat
    BY <1>2, EnrichmentAssumption
  <2>2. Min({DrainLimit, Cardinality(ready)}) \in {DrainLimit, Cardinality(ready)}
    BY <2>1, MinMaxOfTwo
  <2> QED BY <1>2, <2>1, <2>2
<1> HIDE DEF size
<1> QED BY <1>1, <1>3, <1>4
-----------------------------------------------------------------------------
(* The outbox.                                                             *)

\* Rows are only added, and of an old row neither the key nor a saved event
\* changes: then what is indexed still is what the jobs carry.
LEMMA OutboxGrows ==
  ASSUME Inv, DOMAIN jobs \subseteq DOMAIN jobs',
         \A i, j \in DOMAIN jobs' : jobs'[i].vector = jobs'[j].vector /\ jobs'[i].hash = jobs'[j].hash => i = j,
         \A i \in DOMAIN jobs : /\ jobs'[i].vector = jobs[i].vector /\ jobs'[i].hash = jobs[i].hash
                                /\ jobs[i].event # NoEvent => jobs'[i].event = jobs[i].event,
         \A i \in DOMAIN jobs' :
           /\ jobs'[i].event # NoEvent => jobs'[i].event.by = jobs'[i].hash
           /\ jobs'[i].state = "sent" =>
                \/ i \in DOMAIN jobs /\ jobs[i].state = "sent"
                \/ jobs'[i].event # NoEvent /\ DocumentOf(jobs'[i]) \in indexed',
         indexed \subseteq indexed',
         \A d \in indexed' \ indexed :
           \E i \in DOMAIN jobs' : d = DocumentOf(jobs'[i]) /\ jobs'[i].event # NoEvent
  PROVE  JobsOK' /\ IndexedOK'
<1>1. \A i \in DOMAIN jobs : jobs[i].event # NoEvent =>
        DocumentOf(jobs'[i]) = DocumentOf(jobs[i]) /\ jobs'[i].event # NoEvent
  BY DEF DocumentOf
<1>2. IndexedOK'
  BY <1>1 DEF Inv, IndexedOK
<1>3. JobsOK'
  BY <1>1 DEF Inv, JobsOK
<1> QED BY <1>2, <1>3

\* A change of one row that keeps its key and a saved event.
LEMMA RowChanges ==
  ASSUME Inv, NEW h \in DOMAIN jobs, NEW row \in Job, jobs' = [jobs EXCEPT ![h] = row],
         row.vector = jobs[h].vector, row.hash = jobs[h].hash,
         jobs[h].event # NoEvent => row.event = jobs[h].event,
         row.event # NoEvent => row.event.by = row.hash,
         row.state = "sent" => row.event # NoEvent /\ DocumentOf(row) \in indexed',
         indexed \subseteq indexed',
         \A d \in indexed' \ indexed : d = DocumentOf(row) /\ row.event # NoEvent
  PROVE  /\ jobs' \in Seq(Job) /\ DOMAIN jobs' = DOMAIN jobs
         /\ JobsOK' /\ IndexedOK'
         /\ \A v, m : Queued(v, m) => Queued(v, m)'
         /\ jobs'[h] = row
<1>1. jobs \in Seq(Job)
  BY DEF Inv, TypeOK
<1>2. jobs' \in Seq(Job) /\ DOMAIN jobs' = DOMAIN jobs
  BY <1>1
<1>3. \A i \in DOMAIN jobs : jobs'[i] = IF i = h THEN row ELSE jobs[i]
  BY <1>1
<1>4. JobsOK' /\ IndexedOK'
  <2>1. \A i, j \in DOMAIN jobs' : jobs'[i].vector = jobs'[j].vector /\ jobs'[i].hash = jobs'[j].hash => i = j
    BY <1>2, <1>3 DEF Inv, JobsOK
  <2>2. \A i \in DOMAIN jobs' :
          /\ jobs'[i].event # NoEvent => jobs'[i].event.by = jobs'[i].hash
          /\ jobs'[i].state = "sent" =>
               \/ i \in DOMAIN jobs /\ jobs[i].state = "sent"
               \/ jobs'[i].event # NoEvent /\ DocumentOf(jobs'[i]) \in indexed'
    BY <1>2, <1>3 DEF Inv, JobsOK
  <2>3. \A d \in indexed' \ indexed :
          \E i \in DOMAIN jobs' : d = DocumentOf(jobs'[i]) /\ jobs'[i].event # NoEvent
    BY <1>2, <1>3
  <2>4. \A i \in DOMAIN jobs : /\ jobs'[i].vector = jobs[i].vector /\ jobs'[i].hash = jobs[i].hash
                               /\ jobs[i].event # NoEvent => jobs'[i].event = jobs[i].event
    BY <1>3
  <2> QED BY <1>2, <2>1, <2>2, <2>3, <2>4, OutboxGrows
<1>5. \A v, m : Queued(v, m) => Queued(v, m)'
  BY <1>2, <1>3 DEF Queued
<1> QED BY <1>2, <1>3, <1>4, <1>5

\* enqueue adds a row for a pair that has none.
LEMMA EnqueueGrows ==
  ASSUME Inv, NEW v \in Vector, jobs' = Enqueued(v), UNCHANGED indexed
  PROVE  /\ jobs' \in Seq(Job) /\ DOMAIN jobs \subseteq DOMAIN jobs'
         /\ \A i \in DOMAIN jobs : jobs'[i] = jobs[i]
         /\ JobsOK' /\ IndexedOK'
         /\ \A u, m : Queued(u, m) => Queued(u, m)'
         /\ v \notin Invalid => \E m \in Model : Queued(v, m)'
<1>1. jobs \in Seq(Job) /\ configured \in Model
  BY DEF Inv, TypeOK
<1>2. CASE v \in Invalid \/ Queued(v, configured)
  <2>1. jobs' = jobs
    BY <1>2 DEF Enqueued
  <2>2. \A u, m : Queued(u, m) => Queued(u, m)'
    BY <2>1 DEF Queued
  <2>3. JobsOK' /\ IndexedOK'
    BY <2>1 DEF Inv, JobsOK, IndexedOK
  <2> QED BY <1>1, <1>2, <2>1, <2>2, <2>3
<1>3. CASE v \notin Invalid /\ ~Queued(v, configured)
  <2> DEFINE row == [vector |-> v, hash |-> configured, state |-> "pending",
                     event |-> NoEvent, backoff |-> FALSE]
             last == Len(jobs) + 1
  <2>1. row \in Job /\ jobs' = Append(jobs, row)
    BY <1>1, <1>3 DEF Job, Enqueued
  <2>2. row.vector = v /\ row.hash = configured /\ row.state = "pending" /\ row.event = NoEvent
    OBVIOUS
  <2> HIDE DEF row
  <2>3. /\ jobs' \in Seq(Job) /\ DOMAIN jobs' = DOMAIN jobs \cup {last} /\ last \notin DOMAIN jobs
        /\ jobs'[last] = row /\ \A i \in DOMAIN jobs : jobs'[i] = jobs[i]
    BY <1>1, <2>1
  <2> HIDE DEF last
  <2>4. \A i \in DOMAIN jobs : ~(jobs[i].vector = v /\ jobs[i].hash = configured)
    BY <1>3 DEF Queued
  <2>5. \A i, j \in DOMAIN jobs' : jobs'[i].vector = jobs'[j].vector /\ jobs'[i].hash = jobs'[j].hash => i = j
    BY <2>2, <2>3, <2>4 DEF Inv, JobsOK
  <2>6. JobsOK' /\ IndexedOK'
    <3>1. \A i \in DOMAIN jobs' :
            /\ jobs'[i].event # NoEvent => jobs'[i].event.by = jobs'[i].hash
            /\ jobs'[i].state = "sent" => i \in DOMAIN jobs /\ jobs[i].state = "sent"
      BY <2>2, <2>3 DEF Inv, JobsOK
    <3> QED BY <2>3, <2>5, <3>1, OutboxGrows
  <2>7. \A u, m : Queued(u, m) => Queued(u, m)'
    BY <2>3 DEF Queued
  <2>8. \E m \in Model : Queued(v, m)'
    <3>1. jobs'[last].vector = v /\ jobs'[last].hash = configured /\ last \in DOMAIN jobs'
      BY <2>2, <2>3
    <3> QED BY <1>1, <3>1 DEF Queued
  <2> QED BY <2>3, <2>6, <2>7, <2>8
<1> QED BY <1>2, <1>3
-----------------------------------------------------------------------------
(* The steps.                                                              *)

\* A step that leaves outbox, index and batch alone.
LEMMA WorldKeeps ==
  ASSUME Inv, UNCHANGED <<jobs, indexed, batch, stage>>
  PROVE  JobsOK' /\ IndexedOK' /\ StageOK'
BY DEF Inv, JobsOK, IndexedOK, StageOK, Current

\* Nothing is delivered.
LEMMA EmptyBatch ==
  ASSUME batch' = <<>> \/ stage' = "score"
  PROVE  StageOK'
BY DEF StageOK

\* The scan stays as it is or is given up, the vectors do not change, and what
\* was queued stays queued.
LEMMA ScanKeeps ==
  ASSUME Inv, UNCHANGED <<vectors, late, cursor>>, UNCHANGED <<pull, missed>> \/ pull' = Idle,
         \A u, m : Queued(u, m) => Queued(u, m)'
  PROVE  PullOK' /\ PulledIsQueued'
BY DEF Inv, PullOK, PageOK, PulledIsQueued, Idle

\* No scan is in progress.
LEMMA IdleScan == Idle \in Pull /\ ~Idle.on
BY EnrichmentAssumption DEF Idle, Pull

\* Positions are numbers.
LEMMA Positions ==
  ASSUME TypeOK
  PROVE  /\ Vector \subseteq Nat /\ vectors \subseteq Nat /\ cursor \in Nat /\ pull.at \in Nat
         /\ pull.at \in Vector \cup {0} /\ pull.seen \in 0..PullLimit
         /\ pull.page \in Seq(Vector) /\ \A i \in DOMAIN pull.page : pull.page[i] \in Nat
<1>1. Vector \subseteq Nat
  BY EnrichmentAssumption
<1>2. cursor \in Vector \cup {0} /\ vectors \subseteq Vector
  BY DEF TypeOK
<1>3. pull.at \in Vector \cup {0} /\ pull.seen \in 0..PullLimit /\ pull.page \in Seq(Vector)
  BY DEF TypeOK, Pull
<1>4. cursor \in Nat /\ vectors \subseteq Nat
  BY <1>1, <1>2
<1>5. pull.at \in Nat
  <2>1. \A x \in Vector \cup {0} : x \in Nat
    BY <1>1
  <2> QED BY <1>3, <2>1
<1>6. \A i \in DOMAIN pull.page : pull.page[i] \in Nat
  <2>1. \A page \in Seq(Vector) : \A i \in DOMAIN page : page[i] \in Vector
    OBVIOUS
  <2> QED BY <1>1, <1>3, <2>1
<1> QED BY <1>1, <1>3, <1>4, <1>5, <1>6

\* The scan has searched the index up to the end of its page.
LEMMA ReachedCovers ==
  ASSUME Inv, pull.on
  PROVE  /\ Reached \in Nat /\ pull.at <= Reached
         /\ \A i \in DOMAIN pull.page : pull.page[i] <= Reached
<1> DEFINE page == pull.page
<1>1. /\ page \in Seq(Vector) /\ pull.at \in Nat /\ \A i \in DOMAIN page : page[i] \in Nat
      /\ \A i \in DOMAIN page : pull.at < page[i]
      /\ \A i, j \in DOMAIN page : i < j => page[i] < page[j]
  BY Positions DEF Inv, PullOK, PageOK
<1>2. Reached = IF page = <<>> THEN pull.at ELSE page[Len(page)]
  BY DEF Reached
<1> HIDE DEF page
<1>3. CASE page = <<>>
  BY <1>1, <1>2, <1>3 DEF page
<1>4. CASE page # <<>>
  <2>1. Len(page) \in DOMAIN page /\ \A i \in DOMAIN page : i = Len(page) \/ i < Len(page)
    BY <1>1, <1>4
  <2>2. Reached = page[Len(page)]
    BY <1>2, <1>4
  <2>3. Reached \in Nat /\ pull.at <= Reached
    BY <1>1, <2>1, <2>2
  <2>4. \A i \in DOMAIN page : page[i] <= Reached
    BY <1>1, <2>1, <2>2
  <2> QED BY <2>3, <2>4 DEF page
<1> QED BY <1>3, <1>4

\* Tick, Deliver, ChangeModel and Reconfigure.
LEMMA WorldSteps ==
  ASSUME Inv, \/ Tick
              \/ \E v \in Vector : Deliver(v)
              \/ \E m \in Model : ChangeModel(m) \/ Reconfigure(m)
  PROVE  Inv'
<1>1. UNCHANGED <<jobs, cursor, pull, batch, stage, indexed>>
  BY DEF Tick, Deliver, ChangeModel, Reconfigure, queueVars, workVars
<1>2. JobsOK' /\ IndexedOK' /\ StageOK'
  BY <1>1, WorldKeeps
<1>3. \A u, m : Queued(u, m) => Queued(u, m)'
  BY <1>1 DEF Queued
<1>4. CASE \E v \in Vector : Deliver(v)
  <2>1. PICK v \in Vector : Deliver(v)
    BY <1>4
  <2>2. /\ vectors' = vectors \cup {v} /\ v \notin vectors
        /\ late' = IF v <= cursor THEN late \cup {v} ELSE late
        /\ missed' = IF v <= Reached THEN missed \cup {v} ELSE missed
        /\ UNCHANGED <<serving, configured, now>>
    BY <2>1 DEF Deliver, bounds
  <2>3. v \in Nat /\ cursor \in Nat /\ pull.at \in Nat /\ \A i \in DOMAIN pull.page : pull.page[i] \in Nat
    BY Positions DEF Inv
  <2>4. /\ v <= cursor => v \in late'
        /\ v <= Reached => v \in missed'
    BY <2>2
  <2>5. /\ late \subseteq late' /\ late' \subseteq late \cup {v}
        /\ missed \subseteq missed' /\ missed' \subseteq missed \cup {v}
    BY <2>2
  <2>6. TypeOK' /\ now' \in 0..MaxTime
    BY <1>1, <2>2, <2>5 DEF Inv, TypeOK
  <2>7. PulledIsQueued'
    BY <1>1, <1>3, <2>2, <2>4, <2>5 DEF Inv, PulledIsQueued
  <2>8. PullOK'
    <3> SUFFICES ASSUME pull.on PROVE PullOK'
      BY <1>1 DEF PullOK
    <3>1. /\ Reached \in Nat /\ pull.at <= Reached
          /\ \A i \in DOMAIN pull.page : pull.page[i] <= Reached
      BY ReachedCovers
    <3>2. v <= pull.at \/ (\E i \in DOMAIN pull.page : v <= pull.page[i]) => v \in missed'
      BY <2>3, <2>4, <3>1
    <3>3. cursor' <= pull'.at
      BY <1>1 DEF Inv, PullOK
    <3>4. \A u \in vectors' \ (late' \cup missed' \cup Invalid) :
            u <= pull'.at => \E m \in Model : Queued(u, m)'
      BY <1>1, <1>3, <2>2, <2>5, <3>2 DEF Inv, PullOK
    <3>5. PageOK'
      <4>1. PageOK
        BY DEF Inv, PullOK
      <4>2. ASSUME NEW u \in vectors' \ missed', NEW i \in DOMAIN pull.page,
                   pull.at < u, u <= pull.page[i]
            PROVE  \E j \in DOMAIN pull.page : pull.page[j] = u
        <5>1. u # v
          BY <3>2, <4>2
        <5>2. u \in vectors \ missed
          BY <2>2, <2>5, <5>1
        <5> QED BY <4>1, <4>2, <5>2 DEF PageOK
      <4> QED BY <1>1, <4>1, <4>2 DEF PageOK
    <3> QED BY <1>1, <3>3, <3>4, <3>5 DEF PullOK
  <2> QED BY <1>2, <2>6, <2>7, <2>8 DEF Inv
<1>5. CASE Tick \/ \E m \in Model : ChangeModel(m) \/ Reconfigure(m)
  <2>1. UNCHANGED <<vectors, late, missed>> /\ serving' \in Model /\ configured' \in Model /\ now' \in 0..MaxTime
    BY <1>5, EnrichmentAssumption DEF Tick, ChangeModel, Reconfigure, worldVars, Inv, TypeOK
  <2>2. TypeOK'
    BY <1>1, <2>1 DEF Inv, TypeOK
  <2>3. PullOK' /\ PulledIsQueued'
    BY <1>1, <1>3, <2>1, ScanKeeps
  <2> QED BY <1>2, <2>1, <2>2, <2>3 DEF Inv
<1> QED BY <1>4, <1>5

\* PullNext and Import.
LEMMA EnqueueSteps ==
  ASSUME Inv, PullNext \/ \E v \in Vector : Import(v)
  PROVE  Inv'
<1>1. UNCHANGED <<vectors, serving, configured, late, missed, cursor, batch, stage, indexed, now>>
  BY DEF PullNext, Import, worldVars, workVars, bounds
<1>2. TypeOK
  BY DEF Inv
<1>3. CASE PullNext
  <2> DEFINE page == pull.page
  <2>0. PICK v : v = Head(page)
    OBVIOUS
  <2>1. /\ pull.on /\ pull.seen < PullLimit /\ page # <<>> /\ jobs' = Enqueued(v)
        /\ pull' = [pull EXCEPT !.at = v, !.seen = @ + 1, !.page = Tail(page)]
    BY <1>3, <2>0 DEF PullNext
  <2>2. /\ page \in Seq(Vector) /\ pull.at \in Nat /\ pull.seen \in 0..PullLimit
        /\ vectors \subseteq Nat /\ \A i \in DOMAIN page : page[i] \in Nat
    BY <1>2, Positions
  <2>3. PageOK
    BY <2>1 DEF Inv, PullOK
  <2>4. /\ 1 \in DOMAIN page /\ v = page[1] /\ v \in Vector /\ v \in Nat /\ v > pull.at
        /\ Tail(page) \in Seq(Vector) /\ DOMAIN Tail(page) = 1..(Len(page) - 1)
        /\ \A i \in DOMAIN Tail(page) : i + 1 \in DOMAIN page /\ Tail(page)[i] = page[i + 1]
        /\ \A j \in DOMAIN page : j = 1 \/ (j - 1 \in DOMAIN Tail(page) /\ Tail(page)[j - 1] = page[j])
    <3>1. 1 \in DOMAIN page /\ v = page[1]
      BY <2>0, <2>1, <2>2
    <3>2. v \in Vector /\ v \in Nat /\ v > pull.at
      BY <2>2, <2>3, <3>1 DEF PageOK
    <3> HIDE DEF page
    <3> QED BY <2>1, <2>2, <3>1, <3>2
  <2>5. pull'.on = TRUE /\ pull'.at = v /\ pull'.page = Tail(page) /\ pull' \in Pull
    <3>1. pull.seen + 1 \in 0..PullLimit
      BY <2>1, <2>2, EnrichmentAssumption
    <3>2. pull \in Pull
      BY <1>2 DEF TypeOK
    <3> QED BY <2>1, <2>4, <3>1, <3>2 DEF Pull
  <2>6. /\ jobs' \in Seq(Job) /\ DOMAIN jobs \subseteq DOMAIN jobs'
        /\ \A i \in DOMAIN jobs : jobs'[i] = jobs[i]
        /\ JobsOK' /\ IndexedOK'
        /\ \A u, m : Queued(u, m) => Queued(u, m)'
        /\ v \notin Invalid => \E m \in Model : Queued(v, m)'
    BY <1>1, <2>1, <2>4, EnqueueGrows
  <2>7. TypeOK'
    <3>1. batch' \in Seq(DOMAIN jobs')
      BY <1>1, <1>2, <2>6 DEF TypeOK
    <3> QED BY <1>1, <1>2, <2>5, <2>6, <3>1 DEF TypeOK
  <2>8. StageOK'
    <3>1. batch # <<>> => Head(batch) \in DOMAIN jobs
      BY <1>2 DEF TypeOK
    <3>2. batch # <<>> => Current' = Current
      BY <1>1, <2>6, <3>1 DEF Current
    <3> QED BY <1>1, <3>2 DEF Inv, StageOK
  <2>9. PullOK'
    <3>1. cursor' <= pull'.at
      <4>1. cursor <= pull.at /\ cursor \in Nat
        BY <1>2, <2>1, EnrichmentAssumption DEF Inv, PullOK, TypeOK
      <4> QED BY <1>1, <2>2, <2>4, <2>5, <4>1
    <3>2. ASSUME NEW u \in vectors \ (late \cup missed \cup Invalid), u <= v
          PROVE  \E m \in Model : Queued(u, m)'
      <4>1. u <= pull.at \/ u = v
        <5>1. u <= pull.at \/ \E j \in DOMAIN page : page[j] = u
          BY <2>2, <2>3, <2>4, <3>2 DEF PageOK
        <5>2. ASSUME NEW j \in DOMAIN page, page[j] = u PROVE u = v
          <6>1. j = 1 \/ 1 < j
            BY <2>2
          <6>2. 1 < j => v < u
            BY <2>3, <2>4, <5>2 DEF PageOK
          <6> QED BY <2>2, <2>4, <3>2, <5>2, <6>1, <6>2
        <5> QED BY <5>1, <5>2
      <4> QED BY <2>1, <2>6, <4>1 DEF Inv, PullOK
    <3>3. PageOK'
      <4> DEFINE rest == Tail(page)
      <4>1. \A i \in DOMAIN rest : v < rest[i]
        <5> SUFFICES ASSUME NEW i \in DOMAIN rest PROVE v < rest[i]
          OBVIOUS
        <5>1. i + 1 \in DOMAIN page /\ rest[i] = page[i + 1] /\ 1 < i + 1
          BY <2>4
        <5> QED BY <2>3, <2>4, <5>1 DEF PageOK
      <4>2. \A i, j \in DOMAIN rest : i < j => rest[i] < rest[j]
        <5> SUFFICES ASSUME NEW i \in DOMAIN rest, NEW j \in DOMAIN rest, i < j PROVE rest[i] < rest[j]
          OBVIOUS
        <5>1. /\ i + 1 \in DOMAIN page /\ rest[i] = page[i + 1] /\ j + 1 \in DOMAIN page
              /\ rest[j] = page[j + 1] /\ i + 1 < j + 1
          BY <2>4
        <5> QED BY <2>3, <5>1 DEF PageOK
      <4>3. ASSUME NEW u \in vectors \ missed, NEW i \in DOMAIN rest, v < u, u <= rest[i]
            PROVE  \E j \in DOMAIN rest : rest[j] = u
        <5>1. i + 1 \in DOMAIN page /\ u <= page[i + 1] /\ pull.at < u
          BY <2>2, <2>4, <4>3
        <5>2. PICK j \in DOMAIN page : page[j] = u
          BY <2>3, <5>1 DEF PageOK
        <5>3. j # 1
          BY <2>2, <2>4, <4>3, <5>2
        <5> QED BY <2>4, <5>2, <5>3
      <4> HIDE DEF page
      <4> QED BY <1>1, <2>5, <4>1, <4>2, <4>3 DEF PageOK
    <3> QED BY <1>1, <2>5, <3>1, <3>2, <3>3 DEF PullOK
  <2>10. PulledIsQueued'
    BY <1>1, <2>6 DEF Inv, PulledIsQueued
  <2> QED BY <1>1, <2>6, <2>7, <2>8, <2>9, <2>10 DEF Inv
<1>4. CASE \E v \in Vector : Import(v)
  <2>1. PICK v \in Vector : Import(v)
    BY <1>4
  <2>2. jobs' = Enqueued(v) /\ UNCHANGED pull /\ batch = <<>>
    BY <2>1 DEF Import, workVars
  <2>3. /\ jobs' \in Seq(Job) /\ JobsOK' /\ IndexedOK'
        /\ \A u, m : Queued(u, m) => Queued(u, m)'
    BY <1>1, <2>2, EnqueueGrows
  <2>4. TypeOK'
    BY <1>1, <1>2, <2>2, <2>3 DEF TypeOK
  <2>5. StageOK' /\ PullOK' /\ PulledIsQueued'
    BY <1>1, <2>2, <2>3, EmptyBatch, ScanKeeps
  <2> QED BY <1>1, <2>3, <2>4, <2>5 DEF Inv
<1> QED BY <1>3, <1>4

\* A page is the next vectors in order.
LEMMA PageIsNext ==
  ASSUME TypeOK, NEW page \in NextPage
  PROVE  /\ page \in Seq(Vector)
         /\ \A i \in DOMAIN page : page[i] \in Ahead
         /\ \A i, j \in DOMAIN page : i < j => page[i] < page[j]
         /\ \A v \in Ahead : \/ \E j \in DOMAIN page : page[j] = v
                            \/ \A j \in DOMAIN page : page[j] < v
<1>1. PICK size : size = Min({PageSize, Cardinality(Ahead)})
  OBVIOUS
<1>2. /\ page \in [1..size -> Ahead]
      /\ \A j, k \in 1..size : j < k => page[j] < page[k]
      /\ \A x \in Ahead : \/ \E j \in 1..size : page[j] = x
                         \/ \A j \in 1..size : page[j] < x
  BY <1>1 DEF NextPage, FirstOf
<1>3. Ahead \subseteq Vector /\ IsFiniteSet(Ahead)
  <2>1. Ahead \subseteq Vector
    BY DEF Ahead, TypeOK
  <2> QED BY <2>1, EnrichmentAssumption, FS_Subset
<1>4. size \in Nat
  <2>1. Cardinality(Ahead) \in Nat /\ PageSize \in Nat /\ Cardinality(Ahead) \in Int /\ PageSize \in Int
    BY <1>3, FS_CardinalityType, EnrichmentAssumption
  <2>2. Min({PageSize, Cardinality(Ahead)}) \in {PageSize, Cardinality(Ahead)}
    BY <2>1, MinMaxOfTwo
  <2> QED BY <1>1, <2>1, <2>2
<1>5. DOMAIN page = 1..size /\ page \in Seq(Vector)
  BY <1>2, <1>3, <1>4
<1> QED BY <1>2, <1>5

\* FetchPage.
LEMMA PageFetched ==
  ASSUME Inv, FetchPage
  PROVE  Inv'
<1>1. UNCHANGED <<vectors, serving, configured, late, missed, jobs, cursor, batch, stage, indexed, now>>
  BY DEF FetchPage, worldVars, queueVars, bounds
<1>2. PICK page \in NextPage :
        pull.on /\ pull' = [pull EXCEPT !.page = page, !.more = Len(page) >= PageSize]
  BY DEF FetchPage
<1>3. TypeOK /\ pull \in Pull
  BY DEF Inv, TypeOK
<1>4. /\ page \in Seq(Vector)
      /\ \A i \in DOMAIN page : page[i] \in Ahead
      /\ \A i, j \in DOMAIN page : i < j => page[i] < page[j]
      /\ \A v \in Ahead : \/ \E j \in DOMAIN page : page[j] = v
                         \/ \A j \in DOMAIN page : page[j] < v
  BY <1>3, PageIsNext
<1>5. pull' \in Pull /\ pull'.on /\ pull'.at = pull.at /\ pull'.page = page
  <2>1. (Len(page) >= PageSize) \in BOOLEAN
    OBVIOUS
  <2> QED BY <1>2, <1>3, <1>4, <2>1 DEF Pull
<1>6. TypeOK' /\ JobsOK' /\ IndexedOK' /\ StageOK'
  BY <1>1, <1>3, <1>5, WorldKeeps DEF TypeOK
<1>7. \A u, m : Queued(u, m) => Queued(u, m)'
  BY <1>1 DEF Queued
<1>8. PulledIsQueued'
  BY <1>1, <1>7 DEF Inv, PulledIsQueued
<1>9. PageOK'
  <2>1. \A i \in DOMAIN page : pull.at < page[i] /\ page[i] \in Nat
    BY <1>3, <1>4, Positions DEF Ahead
  <2>2. ASSUME NEW v \in vectors \ missed, NEW i \in DOMAIN page, pull.at < v, v <= page[i]
        PROVE  \E j \in DOMAIN page : page[j] = v
    <3>1. v \in Ahead /\ v \in Nat /\ pull.at \in Nat
      BY <1>3, <2>2, Positions DEF Ahead
    <3>2. ~(page[i] < v)
      BY <2>1, <2>2, <3>1
    <3> QED BY <1>4, <3>1, <3>2
  <2> QED BY <1>1, <1>4, <1>5, <2>1, <2>2 DEF PageOK
<1>10. PullOK'
  BY <1>1, <1>2, <1>5, <1>7, <1>9 DEF Inv, PullOK
<1> QED BY <1>1, <1>6, <1>8, <1>10 DEF Inv

\* BeginPull, EndPull, PullFails and Crash.
LEMMA PullSteps ==
  ASSUME Inv, BeginPull \/ EndPull \/ PullFails \/ Crash
  PROVE  Inv'
<1>1. UNCHANGED <<vectors, serving, configured, jobs, indexed, now>>
  BY DEF BeginPull, EndPull, PullFails, Crash, worldVars, queueVars, bounds
<1>2. JobsOK' /\ IndexedOK'
  BY <1>1 DEF Inv, JobsOK, IndexedOK
<1>3. \A u, m : Queued(u, m) => Queued(u, m)'
  BY <1>1 DEF Queued
<1>4. TypeOK
  BY DEF Inv
<1>5. CASE BeginPull
  <2>1. /\ batch' = <<>> /\ pull' = [Idle EXCEPT !.on = TRUE, !.at = cursor, !.more = TRUE]
        /\ UNCHANGED <<late, missed, cursor, stage, batch>>
    BY <1>5 DEF BeginPull, queueVars, worldVars
  <2>2. pull' \in Pull /\ pull'.at = cursor /\ pull'.page = <<>>
    <3>1. pull' = [on |-> TRUE, at |-> cursor, seen |-> 0, page |-> <<>>, more |-> TRUE]
      BY <2>1 DEF Idle
    <3>2. cursor \in Vector \cup {0} /\ 0 \in 0..PullLimit /\ <<>> \in Seq(Vector)
      BY <1>4, EnrichmentAssumption DEF TypeOK
    <3> QED BY <3>1, <3>2 DEF Pull
  <2>3. TypeOK' /\ StageOK'
    BY <1>1, <1>4, <2>1, <2>2, EmptyBatch DEF TypeOK
  <2>4. PullOK' /\ PulledIsQueued'
    <3>1. cursor <= cursor
      BY <1>4, EnrichmentAssumption DEF TypeOK
    <3>2. PageOK'
      BY <2>2 DEF PageOK
    <3> QED BY <1>1, <1>3, <2>1, <2>2, <3>1, <3>2 DEF Inv, PullOK, PulledIsQueued
  <2> QED BY <1>1, <1>2, <2>3, <2>4 DEF Inv
<1>6. CASE EndPull
  <2>1. /\ pull.on /\ cursor' = pull.at /\ pull' = Idle /\ batch' \in Due /\ stage' = "score"
        /\ late' = late \cup {v \in missed : v <= pull.at} /\ missed' = {}
    BY <1>6 DEF EndPull, ScanEnds
  <2>2. batch' \in Seq(DOMAIN jobs')
    BY <1>1, <1>4, <2>1, DueIsPage DEF TypeOK
  <2>3. TypeOK' /\ StageOK'
    <3>1. late' \subseteq vectors' /\ missed' \subseteq vectors' /\ cursor' \in Vector \cup {0}
      BY <1>1, <1>4, <2>1, Positions DEF TypeOK
    <3> QED BY <1>1, <1>4, <2>1, <2>2, <3>1, IdleScan, EmptyBatch DEF TypeOK
  <2>4. PullOK'
    BY <2>1, IdleScan DEF PullOK
  <2>5. PulledIsQueued'
    BY <1>1, <1>3, <2>1 DEF Inv, PullOK, PulledIsQueued
  <2> QED BY <1>1, <1>2, <2>3, <2>4, <2>5 DEF Inv
<1>7. CASE PullFails \/ Crash
  <2>1. /\ UNCHANGED <<cursor, late>> /\ pull' = Idle /\ missed' = {}
        /\ UNCHANGED <<batch, stage>> \/ (batch' = <<>> /\ stage' = "score")
    BY <1>7 DEF PullFails, Crash, queueVars
  <2>2. TypeOK'
    <3>1. batch' \in Seq(DOMAIN jobs') /\ stage' \in {"score", "put", "ack"}
      <4>1. CASE UNCHANGED <<batch, stage>>
        BY <1>1, <1>4, <4>1 DEF TypeOK
      <4>2. CASE batch' = <<>> /\ stage' = "score"
        BY <4>2
      <4> QED BY <2>1, <4>1, <4>2
    <3> QED BY <1>1, <1>4, <2>1, <3>1, IdleScan DEF TypeOK
  <2>3. StageOK'
    BY <1>1, <2>1, WorldKeeps, EmptyBatch
  <2>4. PullOK' /\ PulledIsQueued'
    BY <1>1, <1>3, <2>1, ScanKeeps
  <2> QED BY <1>1, <1>2, <2>2, <2>3, <2>4 DEF Inv
<1> QED BY <1>5, <1>6, <1>7

\* A step on one row of the outbox.
LEMMA RowKeeps ==
  ASSUME Inv, NEW h \in DOMAIN jobs, NEW row \in Job, jobs' = [jobs EXCEPT ![h] = row],
         row.vector = jobs[h].vector, row.hash = jobs[h].hash,
         jobs[h].event # NoEvent => row.event = jobs[h].event,
         row.event # NoEvent => row.event.by = row.hash,
         row.state = "sent" => row.event # NoEvent /\ DocumentOf(row) \in indexed',
         indexed' = indexed \/ (indexed' = indexed \cup {DocumentOf(row)} /\ row.event # NoEvent),
         UNCHANGED <<worldVars, cursor, pull, now>>,
         batch' \in Seq(DOMAIN jobs), stage' \in {"score", "put", "ack"}, StageOK'
  PROVE  Inv'
<1>1. /\ jobs' \in Seq(Job) /\ DOMAIN jobs' = DOMAIN jobs
      /\ JobsOK' /\ IndexedOK'
      /\ \A v, m : Queued(v, m) => Queued(v, m)'
  BY RowChanges
<1>2. indexed' \subseteq Document
  <2>1. ASSUME row.event # NoEvent PROVE DocumentOf(row) \in Document
    <3>1. /\ row.event \in [at: 0..MaxTime, by: Model] /\ row.vector \in Vector /\ row.hash \in Model
          /\ row.event \in [at: Nat, by: Model] /\ row.event.at \in Nat
      BY <2>1 DEF Job
    <3>2. Day(row.event.at) \in Nat
      <4>1. DayLength \in Nat \ {0}
        BY EnrichmentAssumption
      <4> QED BY <3>1, <4>1 DEF Day
    <3> QED BY <3>1, <3>2 DEF DocumentOf, Document
  <2> QED BY <2>1 DEF Inv, TypeOK
<1>3. TypeOK'
  BY <1>1, <1>2 DEF Inv, TypeOK, worldVars
<1>4. PullOK' /\ PulledIsQueued'
  BY <1>1, ScanKeeps DEF worldVars
<1> QED BY <1>1, <1>3, <1>4 DEF Inv

\* What the outbox's failed() writes.
LEMMA FailedRow ==
  ASSUME Inv, batch # <<>>, NEW retryable \in BOOLEAN, FailJob(retryable)
  PROVE  \E row \in Job : /\ jobs' = [jobs EXCEPT ![Head(batch)] = row]
                          /\ row.vector = Current.vector /\ row.hash = Current.hash
                          /\ row.event = Current.event
                          /\ row.state \in {Current.state, "deadletter"}
<1>1. Head(batch) \in DOMAIN jobs /\ jobs \in Seq(Job) /\ Current \in Job
  BY DEF Inv, TypeOK, Current
<1> DEFINE row == [Current EXCEPT !.backoff = TRUE,
                                  !.state = IF retryable THEN @ ELSE "deadletter"]
<1>2. /\ row \in Job /\ row.vector = Current.vector /\ row.hash = Current.hash
      /\ row.event = Current.event /\ row.state \in {Current.state, "deadletter"}
  BY <1>1 DEF Job
<1>3. jobs' = [jobs EXCEPT ![Head(batch)] = row]
  BY <1>1 DEF FailJob, Current
<1> HIDE DEF row
<1> QED BY <1>2, <1>3

\* ScoreFails, PutFails, and a Score that dead-letters.
LEMMA FailSteps ==
  ASSUME Inv, batch # <<>>, NEW retryable \in BOOLEAN, FailJob(retryable),
         UNCHANGED <<worldVars, cursor, pull, now>>,
         \/ indexed' = indexed
         \/ indexed' = indexed \cup {DocumentOf(Current)} /\ stage = "put"
  PROVE  Inv'
<1>1. PICK row \in Job : /\ jobs' = [jobs EXCEPT ![Head(batch)] = row]
                         /\ row.vector = Current.vector /\ row.hash = Current.hash
                         /\ row.event = Current.event
                         /\ row.state \in {Current.state, "deadletter"}
  BY FailedRow
<1>2. Head(batch) \in DOMAIN jobs /\ Tail(batch) \in Seq(DOMAIN jobs)
  BY DEF Inv, TypeOK
<1>3. batch' = Tail(batch) /\ stage' = "score"
  BY DEF FailJob, NextJob
<1>4. DocumentOf(row) = DocumentOf(Current)
  BY <1>1 DEF DocumentOf
<1>5. stage = "put" => row.event # NoEvent
  BY <1>1 DEF Inv, StageOK
<1>6. row.state = "sent" => row.event # NoEvent /\ DocumentOf(row) \in indexed'
  BY <1>1, <1>2, <1>4 DEF Inv, JobsOK, Current
<1>7. row.event # NoEvent => row.event.by = row.hash
  BY <1>1, <1>2 DEF Inv, JobsOK, Current
<1>8. indexed' = indexed \/ (indexed' = indexed \cup {DocumentOf(row)} /\ row.event # NoEvent)
  BY <1>4, <1>5
<1> QED BY <1>1, <1>2, <1>3, <1>6, <1>7, <1>8, EmptyBatch, RowKeeps DEF Current

\* Score.
LEMMA ScoreStep ==
  ASSUME Inv, Score
  PROVE  Inv'
<1>1. batch # <<>> /\ stage = "score" /\ UNCHANGED <<worldVars, cursor, pull, indexed, now>>
  BY DEF Score, bounds
<1>2. Head(batch) \in DOMAIN jobs /\ Current \in Job /\ jobs \in Seq(Job) /\ batch \in Seq(DOMAIN jobs)
  BY <1>1 DEF Inv, TypeOK, Current
<1>3. CASE Current.event # NoEvent /\ stage' = "put" /\ UNCHANGED <<jobs, batch>>
  <2>1. TypeOK'
    BY <1>1, <1>3 DEF Inv, TypeOK, worldVars
  <2>2. StageOK' /\ JobsOK' /\ IndexedOK'
    BY <1>1, <1>3 DEF Inv, StageOK, JobsOK, IndexedOK, Current
  <2>3. \A u, m : Queued(u, m) => Queued(u, m)'
    BY <1>3 DEF Queued
  <2>4. PullOK' /\ PulledIsQueued'
    BY <1>1, <2>3, ScanKeeps DEF worldVars
  <2> QED BY <1>1, <2>1, <2>2, <2>4 DEF Inv
<1>4. CASE FailJob(FALSE)
  BY <1>1, <1>4, FailSteps
<1>5. ASSUME Current.event = NoEvent, Matches(Current), stage' = "put", UNCHANGED batch,
             jobs' = [jobs EXCEPT ![Head(batch)].event = [at |-> now, by |-> serving],
                                  ![Head(batch)].state = "scored"]
      PROVE  Inv'
  <2> DEFINE event == [at |-> now, by |-> serving]
             row == [Current EXCEPT !.event = event, !.state = "scored"]
  <2>1. event \in [at: 0..MaxTime, by: Model] /\ event # NoEvent /\ event.by = Current.hash
    <3>1. now \in 0..MaxTime /\ serving \in Model /\ serving = Current.hash
      BY <1>5 DEF Inv, TypeOK, Matches
    <3>2. event.at # -1 /\ NoEvent.at = -1
      BY <3>1, EnrichmentAssumption DEF NoEvent
    <3> QED BY <3>1, <3>2
  <2>2. jobs' = [jobs EXCEPT ![Head(batch)] = row]
    BY <1>2, <1>5 DEF Current
  <2> HIDE DEF event
  <2>3. /\ row \in Job /\ row.vector = Current.vector /\ row.hash = Current.hash
        /\ row.event = event /\ row.state = "scored"
    BY <1>2, <2>1 DEF Job
  <2> HIDE DEF row
  <2>4. jobs'[Head(batch)] = row
    BY <1>2, <2>2
  <2>5. StageOK'
    BY <1>5, <2>1, <2>3, <2>4 DEF StageOK, Current
  <2>6. /\ row.event # NoEvent /\ row.event.by = row.hash /\ row.state # "sent"
        /\ jobs[Head(batch)].event = NoEvent
        /\ row.vector = jobs[Head(batch)].vector /\ row.hash = jobs[Head(batch)].hash
    BY <1>5, <2>1, <2>3 DEF Current
  <2>7. batch' \in Seq(DOMAIN jobs) /\ stage' \in {"score", "put", "ack"}
    BY <1>2, <1>5
  <2> QED BY <1>1, <1>2, <2>2, <2>3, <2>5, <2>6, <2>7, RowKeeps
<1> QED BY <1>3, <1>4, <1>5 DEF Score

\* Put and Sent.
LEMMA DeliverySteps ==
  ASSUME Inv, Put \/ Sent
  PROVE  Inv'
<1>1. batch # <<>> /\ UNCHANGED <<worldVars, cursor, pull, now>>
  BY DEF Put, Sent, bounds, queueVars
<1>2. /\ Head(batch) \in DOMAIN jobs /\ Current \in Job /\ jobs \in Seq(Job)
      /\ batch \in Seq(DOMAIN jobs) /\ Tail(batch) \in Seq(DOMAIN jobs)
  BY <1>1 DEF Inv, TypeOK, Current
<1>3. CASE Put
  <2>1. stage = "put" /\ stage' = "ack" /\ UNCHANGED <<jobs, batch>> /\ Current.event # NoEvent
    BY <1>3 DEF Put, queueVars, Inv, StageOK
  <2>2. \/ indexed' = indexed /\ DocumentOf(Current) \in indexed
        \/ indexed' = indexed \cup {DocumentOf(Current)}
    <3>1. CASE \E d \in indexed : /\ d.vector = Current.vector /\ d.hash = Current.hash
                                  /\ d.day = Day(Current.event.at)
      <4>1. PICK d \in indexed : d.vector = Current.vector /\ d.hash = Current.hash
        BY <3>1
      <4>2. PICK i \in DOMAIN jobs : d = DocumentOf(jobs[i])
        BY DEF Inv, IndexedOK
      <4>3. d.vector = jobs[i].vector /\ d.hash = jobs[i].hash
        BY <4>2 DEF DocumentOf
      <4>4. i = Head(batch)
        BY <1>2, <4>1, <4>3 DEF Inv, JobsOK, Current
      <4>5. indexed' = indexed
        BY <1>3, <3>1 DEF Put
      <4> QED BY <4>2, <4>4, <4>5 DEF Current
    <3>2. CASE ~\E d \in indexed : /\ d.vector = Current.vector /\ d.hash = Current.hash
                                   /\ d.day = Day(Current.event.at)
      BY <1>3, <3>2 DEF Put
    <3> QED BY <3>1, <3>2
  <2>3. StageOK'
    BY <2>1, <2>2 DEF StageOK, Current
  <2>4. jobs' = [jobs EXCEPT ![Head(batch)] = Current]
    BY <1>2, <2>1 DEF Current
  <2>5. /\ Current.event.by = Current.hash
        /\ Current.state = "sent" => DocumentOf(Current) \in indexed
    BY <1>2, <2>1 DEF Inv, JobsOK, Current
  <2> QED BY <1>1, <1>2, <2>1, <2>2, <2>3, <2>4, <2>5, RowKeeps DEF Current
<1>4. CASE Sent
  <2>1. /\ stage = "ack" /\ jobs' = [jobs EXCEPT ![Head(batch)].state = "sent"]
        /\ batch' = Tail(batch) /\ stage' = "score" /\ UNCHANGED indexed
        /\ Current.event # NoEvent /\ DocumentOf(Current) \in indexed
    BY <1>4 DEF Sent, NextJob, Inv, StageOK
  <2> DEFINE row == [Current EXCEPT !.state = "sent"]
  <2>2. jobs' = [jobs EXCEPT ![Head(batch)] = row]
    BY <1>2, <2>1 DEF Current
  <2>3. row \in Job /\ row.vector = Current.vector /\ row.hash = Current.hash /\ row.event = Current.event
    BY <1>2 DEF Job
  <2> HIDE DEF row
  <2>4. DocumentOf(row) = DocumentOf(Current)
    BY <2>3 DEF DocumentOf
  <2>5. Current.event.by = Current.hash
    BY <1>2, <2>1 DEF Inv, JobsOK, Current
  <2> QED BY <1>1, <1>2, <2>1, <2>2, <2>3, <2>4, <2>5, EmptyBatch, RowKeeps DEF Current
<1> QED BY <1>3, <1>4

\* BackoffEnds and Requeue.
LEMMA OperatorSteps ==
  ASSUME Inv, NEW i \in DOMAIN jobs, BackoffEnds(i) \/ Requeue(i)
  PROVE  Inv'
<1>1. UNCHANGED <<worldVars, cursor, pull, batch, stage, indexed, now>>
  BY DEF BackoffEnds, Requeue, workVars, bounds
<1>2. jobs[i] \in Job /\ jobs \in Seq(Job) /\ batch \in Seq(DOMAIN jobs) /\ stage \in {"score", "put", "ack"}
  BY DEF Inv, TypeOK
<1>3. PICK row \in Job : /\ jobs' = [jobs EXCEPT ![i] = row]
                         /\ row.vector = jobs[i].vector /\ row.hash = jobs[i].hash
                         /\ row.event = jobs[i].event /\ row.state # "sent"
  <2>1. CASE BackoffEnds(i)
    <3> DEFINE row == [jobs[i] EXCEPT !.backoff = FALSE]
    <3>1. row \in Job /\ row.vector = jobs[i].vector /\ row.hash = jobs[i].hash /\ row.event = jobs[i].event
      BY <1>2 DEF Job
    <3>2. row.state # "sent"
      BY <1>2, <2>1 DEF BackoffEnds, Job
    <3>3. jobs' = [jobs EXCEPT ![i] = row]
      BY <1>2, <2>1 DEF BackoffEnds
    <3> HIDE DEF row
    <3> QED BY <3>1, <3>2, <3>3
  <2>2. CASE Requeue(i)
    <3> DEFINE row == [jobs[i] EXCEPT !.state = IF jobs[i].event = NoEvent THEN "pending" ELSE "scored",
                                      !.backoff = FALSE]
    <3>1. /\ row \in Job /\ row.vector = jobs[i].vector /\ row.hash = jobs[i].hash
          /\ row.event = jobs[i].event /\ row.state # "sent"
      BY <1>2 DEF Job
    <3>2. jobs' = [jobs EXCEPT ![i] = row]
      BY <1>2, <2>2 DEF Requeue
    <3> HIDE DEF row
    <3> QED BY <3>1, <3>2
  <2> QED BY <2>1, <2>2
<1>4. StageOK'
  <2>1. batch # <<>> => Head(batch) \in DOMAIN jobs
    BY <1>2
  <2>2. batch # <<>> => Current'.vector = Current.vector /\ Current'.hash = Current.hash
                        /\ Current'.event = Current.event
    BY <1>1, <1>2, <1>3, <2>1 DEF Current
  <2>3. batch # <<>> => DocumentOf(Current)' = DocumentOf(Current)
    BY <2>2 DEF DocumentOf
  <2> QED BY <1>1, <2>2, <2>3 DEF Inv, StageOK
<1>5. row.event # NoEvent => row.event.by = row.hash
  BY <1>3 DEF Inv, JobsOK
<1> QED BY <1>1, <1>2, <1>3, <1>4, <1>5, RowKeeps
-----------------------------------------------------------------------------
(* The theorems.                                                           *)

\* The outbox is empty at first.
LEMMA InitEstablishesInv ==
  ASSUME Init
  PROVE  Inv
<1>1. /\ now = 0 /\ jobs = <<>> /\ batch = <<>> /\ pull = Idle /\ vectors = {} /\ late = {} /\ missed = {}
      /\ cursor = 0 /\ indexed = {} /\ stage = "score" /\ serving \in Model /\ configured \in Model
  BY DEF Init, InitQueue
<1>2. TypeOK /\ now \in 0..MaxTime
  BY <1>1, IdleScan, EnrichmentAssumption DEF TypeOK
<1>3. JobsOK /\ IndexedOK /\ StageOK /\ PullOK /\ PulledIsQueued
  BY <1>1, IdleScan DEF JobsOK, IndexedOK, StageOK, PullOK, PulledIsQueued
<1> QED BY <1>2, <1>3 DEF Inv

\* Every step keeps the invariant.
LEMMA NextKeepsInv ==
  ASSUME Inv, Next
  PROVE  Inv'
<1>1. CASE Tick \/ (\E v \in Vector : Deliver(v)) \/ \E m \in Model : ChangeModel(m) \/ Reconfigure(m)
  BY <1>1, WorldSteps
<1>2. CASE PullNext \/ \E v \in Vector : Import(v)
  BY <1>2, EnqueueSteps
<1>3. CASE BeginPull \/ EndPull \/ PullFails \/ Crash
  BY <1>3, PullSteps
<1>4. CASE Score \/ FetchPage
  BY <1>4, ScoreStep, PageFetched
<1>5. CASE Put \/ Sent
  BY <1>5, DeliverySteps
<1>6. CASE \E i \in DOMAIN jobs : BackoffEnds(i) \/ Requeue(i)
  BY <1>6, OperatorSteps
<1>7. CASE ScoreFails \/ PutFails
  <2>1. batch # <<>> /\ UNCHANGED <<worldVars, cursor, pull, now>>
    BY <1>7 DEF ScoreFails, PutFails
  <2>2. PICK retryable \in BOOLEAN :
          /\ FailJob(retryable)
          /\ \/ indexed' = indexed
             \/ indexed' = indexed \cup {DocumentOf(Current)} /\ stage = "put"
    BY <1>7 DEF ScoreFails, PutFails
  <2> QED BY <2>1, <2>2, FailSteps
<1> QED BY <1>1, <1>2, <1>3, <1>4, <1>5, <1>6, <1>7 DEF Next, Work, Drain, Faulty

\* The invariant of the worker, its outbox and the indices it writes.
THEOREM Invariance == Spec => []Inv
<1>1. Inv /\ UNCHANGED vars => Inv'
  <2> SUFFICES ASSUME Inv, UNCHANGED vars PROVE Inv'
    OBVIOUS
  <2>1. UNCHANGED <<vectors, serving, configured, late, missed, jobs, cursor, pull, batch, stage, indexed, now>>
    BY DEF vars, worldVars, queueVars, workVars, bounds
  <2>2. TypeOK'
    BY <2>1 DEF Inv, TypeOK
  <2>3. \A u, m : Queued(u, m) => Queued(u, m)'
    BY <2>1 DEF Queued
  <2> QED BY <2>1, <2>2, <2>3, WorldKeeps, ScanKeeps DEF Inv
<1> QED BY <1>1, InitEstablishesInv, NextKeepsInv, PTL DEF Spec

\* However often a job is tried, whatever fails, on whichever day: one event per
\* job in all the indices, of the model it was queued for, and a job is marked
\* sent only when it is there.
THEOREM OneDocument == Spec => []OneDocumentPerJob
<1>1. Inv => OneDocumentPerJob
  <2> SUFFICES ASSUME Inv PROVE OneDocumentPerJob
    OBVIOUS
  <2>1. ASSUME NEW d \in indexed
        PROVE  d.event.by = d.hash /\ \E i \in DOMAIN jobs : d = DocumentOf(jobs[i])
    <3>1. PICK i \in DOMAIN jobs : d = DocumentOf(jobs[i]) /\ jobs[i].event # NoEvent
      BY DEF Inv, IndexedOK
    <3>2. d.event = jobs[i].event /\ d.hash = jobs[i].hash
      BY <3>1 DEF DocumentOf
    <3> QED BY <3>1, <3>2 DEF Inv, JobsOK
  <2> QED BY <2>1 DEF OneDocumentPerJob, Inv, JobsOK
<1> QED BY <1>1, Invariance, PTL

\* No vector that was in the index when the scan searched its place is behind
\* the cursor without a job.
THEOREM NoVectorLost == Spec => []PulledIsQueued
<1>1. Inv => PulledIsQueued
  BY DEF Inv
<1> QED BY <1>1, Invariance, PTL

=============================================================================
