----------------------------- MODULE Enrichment -----------------------------
(***************************************************************************)
(* The enrichment worker of soc/workers/enrichment.py and its durable      *)
(* outbox (outbox.py): it pulls feature vectors from soc-features-*, has   *)
(* them scored by the inference service and creates one anomaly event per  *)
(* job in the daily soc-ai-* indices.                                      *)
(*                                                                         *)
(* A vector is the rank of its sort key (window_end, vector_id) among the  *)
(* vectors of the schema.  A job is a vector together with the approved    *)
(* metadata hash it was queued under: its id is the hash of both.  One     *)
(* worker at a time holds the outbox lock.  A step ends at each commit of  *)
(* the outbox and at each request, where a crash tells outcomes apart.     *)
(***************************************************************************)
EXTENDS Integers, Sequences, FiniteSets, FiniteSetsExt, Paging

CONSTANTS
  Vector,        \* vectors, ordered by their sort key
  Invalid,       \* vectors that break the feature contract
  Exported,      \* vectors of a file an operator imports
  Model,         \* metadata hashes of approved models
  IsolationForest, \* those of isolation forests
  PullLimit,     \* vectors pulled in one pass
  PageSize,      \* vectors fetched by one search of a pull
  DrainLimit,    \* jobs drained in one pass
  DayLength,     \* instants in one day: the index name is the day
  MaxTime,       \* bound: instants 0..MaxTime
  MaxModelChanges, \* bound: model promotions and worker reconfigurations
  MaxRequeues,   \* bound: operator requeues
  MaxFaults      \* bound: failed requests, lost answers and crashes

ASSUME EnrichmentAssumption ==
  /\ IsFiniteSet(Vector) /\ Vector \subseteq Nat \ {0}
  /\ Invalid \subseteq Vector
  /\ Exported \subseteq Vector \ Invalid
  /\ IsolationForest \subseteq Model
  /\ PullLimit \in Nat \ {0}
  /\ PageSize \in 1..PullLimit
  /\ DrainLimit \in Nat \ {0}
  /\ DayLength \in Nat \ {0}
  /\ MaxTime \in Nat /\ MaxModelChanges \in Nat
  /\ MaxRequeues \in Nat /\ MaxFaults \in Nat

VARIABLES
  vectors,     \* soc-features-*
  serving,     \* hash of the model the inference service answers with
  configured,  \* SOC_AI_METADATA_SHA256 of the worker
  jobs,        \* outbox table `jobs`, in the order of created_at
  cursor,      \* outbox meta `features_cursor`, 0 before the first pull
  pull,        \* the pull in progress: last hit, hits so far, rest of the page
  batch,       \* jobs the drain in progress has still to deliver
  stage,       \* where the first job of the batch stands
  indexed,     \* soc-ai-*: documents created, each in the index of its day
  late,        \* history: vectors indexed when the cursor had passed them or
               \* a scan that then moved it past them had made its search
  missed,      \* history: vectors indexed behind the searches of this scan
  now,         \* wall clock
  changes,     \* model changes so far
  requeues,    \* requeues so far
  faults       \* faults so far

queueVars == <<jobs, cursor>>
workVars == <<pull, batch, stage>>
bounds == <<now, changes, requeues, faults>>
worldVars == <<vectors, serving, configured, late, missed>>
vars == <<worldVars, queueVars, workVars, indexed, bounds>>

NoEvent == [at |-> -1, by |-> "none"]

\* A row of the outbox.  `event` is the scored event: its @timestamp and the
\* model it is bound to.  `backoff` says that next_attempt lies ahead.
Job == [vector: Vector, hash: Model,
        state: {"pending", "scored", "sent", "deadletter"},
        event: {NoEvent} \cup [at: 0..MaxTime, by: Model], backoff: BOOLEAN]

\* `more` says that the scan will search again when its page is used up.
Idle == [on |-> FALSE, at |-> 0, seen |-> 0, page |-> <<>>, more |-> FALSE]

Pull == [on: BOOLEAN, at: Vector \cup {0}, seen: 0..PullLimit,
         page: Seq(Vector), more: BOOLEAN]

Document == [vector: Vector, hash: Model, day: Nat, event: [at: Nat, by: Model]]

Day(t) == t \div DayLength

InitQueue ==
  /\ jobs = <<>>
  /\ cursor = 0
  /\ pull = Idle
  /\ batch = <<>>
  /\ stage = "score"
  /\ indexed = {}
  /\ late = {}
  /\ missed = {}
  /\ changes = 0
  /\ requeues = 0
  /\ faults = 0

Init ==
  /\ vectors = {}
  /\ serving \in Model
  /\ configured = serving
  /\ now = 0
  /\ InitQueue
-----------------------------------------------------------------------------
(* The world.                                                              *)

Tick ==
  /\ now < MaxTime
  /\ now' = now + 1
  /\ UNCHANGED <<worldVars, queueVars, workVars, indexed, changes, requeues, faults>>

\* The place up to which the scan in progress has searched the index.
Reached == IF pull.page = <<>> THEN pull.at ELSE pull.page[Len(pull.page)]

\* The feature worker creates a vector, in any order: a retried window is
\* delivered after later ones.
Deliver(v) ==
  /\ v \notin vectors
  /\ vectors' = vectors \cup {v}
  /\ late' = IF v <= cursor THEN late \cup {v} ELSE late
  /\ missed' = IF v <= Reached THEN missed \cup {v} ELSE missed
  /\ UNCHANGED <<serving, configured, queueVars, workVars, indexed, bounds>>

\* The inference service is restarted with another approved model.
ChangeModel(m) ==
  /\ changes < MaxModelChanges
  /\ m # serving
  /\ serving' = m
  /\ changes' = changes + 1
  /\ UNCHANGED <<vectors, configured, late, missed, queueVars, workVars, indexed, now, requeues, faults>>

\* The worker is restarted with the approved hash of another model.
Reconfigure(m) ==
  /\ ~pull.on /\ batch = <<>>
  /\ changes < MaxModelChanges
  /\ m # configured
  /\ configured' = m
  /\ changes' = changes + 1
  /\ UNCHANGED <<vectors, serving, late, missed, queueVars, workVars, indexed, now, requeues, faults>>

Fault ==
  /\ faults < MaxFaults
  /\ faults' = faults + 1
-----------------------------------------------------------------------------
(* pull_features.                                                          *)

Queued(v, m) == \E i \in DOMAIN jobs : jobs[i].vector = v /\ jobs[i].hash = m

BeginPull ==
  /\ ~pull.on /\ batch = <<>>
  /\ pull' = [Idle EXCEPT !.on = TRUE, !.at = cursor, !.more = TRUE]
  /\ UNCHANGED <<worldVars, queueVars, batch, stage, indexed, bounds>>

\* The vectors that lie ahead of the scan when it searches.
Ahead == {v \in vectors : v > pull.at}

\* The answer to the search: the next vectors in the order of the index.
NextPage == FirstOf(Ahead, PageSize, <)

\* The scan searches for its next page, which it iterates as it was found; a
\* page that is not full is the last.
FetchPage ==
  /\ pull.on
  /\ pull.page = <<>> /\ pull.more
  /\ \E page \in NextPage :
       pull' = [pull EXCEPT !.page = page, !.more = Len(page) >= PageSize]
  /\ UNCHANGED <<worldVars, queueVars, batch, stage, indexed, bounds>>

\* Outbox.enqueue: INSERT OR IGNORE.
Enqueued(v) ==
  IF v \in Invalid \/ Queued(v, configured) THEN jobs
  ELSE Append(jobs, [vector |-> v, hash |-> configured, state |-> "pending",
                     event |-> NoEvent, backoff |-> FALSE])

\* Mutant: the cursor is saved before the hit is queued.
PullNextCursorFirst ==
  /\ pull.on
  /\ pull.page # <<>>
  /\ pull.seen < PullLimit
  /\ LET v == Head(pull.page)
     IN \/ /\ cursor < v /\ cursor' = v /\ UNCHANGED <<jobs, pull>>
        \/ /\ cursor = v /\ jobs' = Enqueued(v)
           /\ pull' = [pull EXCEPT !.at = v, !.seen = @ + 1, !.page = Tail(@)]
           /\ UNCHANGED cursor
  /\ UNCHANGED <<worldVars, batch, stage, indexed, bounds>>

\* The next hit of the page.
PullNext ==
  /\ pull.on
  /\ pull.page # <<>>
  /\ pull.seen < PullLimit
  /\ jobs' = Enqueued(Head(pull.page))
  /\ pull' = [pull EXCEPT !.at = Head(pull.page), !.seen = @ + 1, !.page = Tail(@)]
  /\ UNCHANGED <<worldVars, cursor, batch, stage, indexed, bounds>>

\* The `import` command: queue a vector of an exported file.
Import(v) ==
  /\ ~pull.on /\ batch = <<>>
  /\ v \in Exported
  /\ ~Queued(v, configured)
  /\ jobs' = Enqueued(v)
  /\ UNCHANGED <<worldVars, cursor, workVars, indexed, bounds>>

\* Mutant: a job whose event was saved is no longer due.
DuePending ==
  FirstOf({i \in DOMAIN jobs : jobs[i].state = "pending" /\ ~jobs[i].backoff}, DrainLimit, <)

\* Outbox.due: the oldest jobs whose next attempt has come.
Due ==
  FirstOf({i \in DOMAIN jobs : jobs[i].state \in {"pending", "scored"} /\ ~jobs[i].backoff},
          DrainLimit, <)

\* The scan has returned its last hit, or one more than the limit.
ScanEnds ==
  /\ pull.on
  /\ \/ pull.page = <<>> /\ ~pull.more
     \/ pull.page # <<>> /\ pull.seen >= PullLimit

\* Mutant: the cursor is set to the end of the page, handled or not.
EndPullPageEnd ==
  /\ ScanEnds
  /\ cursor' = Reached
  /\ late' = late \cup {v \in missed : v <= Reached}
  /\ missed' = {}
  /\ pull' = Idle
  /\ batch' \in Due
  /\ stage' = "score"
  /\ UNCHANGED <<vectors, serving, configured, jobs, indexed, bounds>>

\* The end of the scan: save the last hit as the cursor, then read the jobs
\* that are due.
EndPull ==
  /\ ScanEnds
  /\ cursor' = pull.at
  /\ late' = late \cup {v \in missed : v <= pull.at}
  /\ missed' = {}
  /\ pull' = Idle
  /\ batch' \in Due
  /\ stage' = "score"
  /\ UNCHANGED <<vectors, serving, configured, jobs, indexed, bounds>>

\* A failed search ends the pass; what was queued stays, the cursor too.
PullFails ==
  /\ pull.on
  /\ pull.page = <<>> /\ pull.more
  /\ Fault
  /\ pull' = Idle
  /\ missed' = {}
  /\ UNCHANGED <<vectors, serving, configured, late, queueVars, batch, stage, indexed,
                 now, changes, requeues>>
-----------------------------------------------------------------------------
(* drain: score, save the event, create it, mark it sent.                  *)

Current == jobs[Head(batch)]

NextJob ==
  /\ batch' = Tail(batch)
  /\ stage' = "score"

\* Outbox.failed.
FailJob(retryable) ==
  /\ jobs' = [jobs EXCEPT ![Head(batch)].backoff = TRUE,
                          ![Head(batch)].state = IF retryable THEN @ ELSE "deadletter"]
  /\ NextJob

\* Mutant: the metadata hash of the answer is not compared.
MatchesAny(job) == serving \in IsolationForest

\* anomaly_event binds the event to the model the job was queued for, and
\* accepts the answers of an isolation forest only.
Matches(job) == serving = job.hash /\ serving \in IsolationForest

\* Mutant: an event that was not delivered is scored again on the retry.
ScoreAgain ==
  /\ batch # <<>> /\ stage = "score"
  /\ \/ /\ Matches(Current)
        /\ jobs' = [jobs EXCEPT ![Head(batch)].event = [at |-> now, by |-> serving],
                                ![Head(batch)].state = "scored"]
        /\ stage' = "put"
        /\ UNCHANGED batch
     \/ /\ ~Matches(Current)
        /\ FailJob(FALSE)
  /\ UNCHANGED <<worldVars, cursor, pull, indexed, bounds>>

\* A scored job is sent again as it was saved; otherwise ask for a score and
\* save the event, or dead-letter the job when the model is another one.
Score ==
  /\ batch # <<>> /\ stage = "score"
  /\ \/ /\ Current.event # NoEvent
        /\ stage' = "put"
        /\ UNCHANGED <<jobs, batch>>
     \/ /\ Current.event = NoEvent
        /\ Matches(Current)
        /\ jobs' = [jobs EXCEPT ![Head(batch)].event = [at |-> now, by |-> serving],
                                ![Head(batch)].state = "scored"]
        /\ stage' = "put"
        /\ UNCHANGED batch
     \/ /\ Current.event = NoEvent
        /\ ~Matches(Current)
        /\ FailJob(FALSE)
  /\ UNCHANGED <<worldVars, cursor, pull, indexed, bounds>>

\* The inference service cannot be reached, has no model or refuses the request
\* for good, or the history of the vector cannot be read.
ScoreFails ==
  /\ batch # <<>> /\ stage = "score"
  /\ Current.event = NoEvent
  /\ Fault
  /\ \E retryable \in BOOLEAN : FailJob(retryable)
  /\ UNCHANGED <<worldVars, cursor, pull, indexed, now, changes, requeues>>

\* The document of a scored job, in the index of its event's day.
DocumentOf(job) == [vector |-> job.vector, hash |-> job.hash,
                    day |-> Day(job.event.at), event |-> job.event]

\* PUT _create in one index: a second one of the same id is refused with 409,
\* which counts as the delivery of this very job.
Put ==
  /\ batch # <<>> /\ stage = "put"
  /\ indexed' = IF \E d \in indexed : /\ d.vector = Current.vector
                                      /\ d.hash = Current.hash
                                      /\ d.day = Day(Current.event.at)
                THEN indexed ELSE indexed \cup {DocumentOf(Current)}
  /\ stage' = "ack"
  /\ UNCHANGED <<worldVars, queueVars, pull, batch, bounds>>

\* Mutant: a failed request is taken for a delivery.
PutFailsUnseen ==
  /\ batch # <<>> /\ stage = "put"
  /\ Fault
  /\ stage' = "ack"
  /\ UNCHANGED <<worldVars, queueVars, pull, batch, indexed, now, changes, requeues>>

\* The request fails or its answer is lost; or the index refuses it for good.
PutFails ==
  /\ batch # <<>> /\ stage = "put"
  /\ Fault
  /\ \/ indexed' \in {indexed, indexed \cup {DocumentOf(Current)}} /\ FailJob(TRUE)
     \/ UNCHANGED indexed /\ FailJob(FALSE)
  /\ UNCHANGED <<worldVars, cursor, pull, now, changes, requeues>>

\* Outbox.sent.
Sent ==
  /\ batch # <<>> /\ stage = "ack"
  /\ jobs' = [jobs EXCEPT ![Head(batch)].state = "sent"]
  /\ NextJob
  /\ UNCHANGED <<worldVars, cursor, pull, indexed, bounds>>

\* The delay of a failed job has passed.
BackoffEnds(i) ==
  /\ jobs[i].backoff
  /\ jobs[i].state \in {"pending", "scored"}
  /\ jobs' = [jobs EXCEPT ![i].backoff = FALSE]
  /\ UNCHANGED <<worldVars, cursor, workVars, indexed, bounds>>

\* The `requeue` command, which takes the outbox lock.
Requeue(i) ==
  /\ ~pull.on /\ batch = <<>>
  /\ requeues < MaxRequeues
  /\ jobs[i].state = "deadletter"
  /\ jobs' = [jobs EXCEPT ![i].state = IF jobs[i].event = NoEvent THEN "pending" ELSE "scored",
                          ![i].backoff = FALSE]
  /\ requeues' = requeues + 1
  /\ UNCHANGED <<worldVars, cursor, workVars, indexed, now, changes, faults>>

\* The worker dies; the outbox and the indices remain.
Crash ==
  /\ pull.on \/ batch # <<>>
  /\ Fault
  /\ pull' = Idle
  /\ missed' = {}
  /\ batch' = <<>>
  /\ stage' = "score"
  /\ UNCHANGED <<vectors, serving, configured, late, queueVars, indexed, now, changes, requeues>>

Drain == Score \/ Put \/ Sent

Work == BeginPull \/ FetchPage \/ PullNext \/ EndPull \/ Drain

Faulty == PullFails \/ ScoreFails \/ PutFails \/ Crash

Next ==
  \/ Tick
  \/ \E v \in Vector : Deliver(v) \/ Import(v)
  \/ \E m \in Model : ChangeModel(m) \/ Reconfigure(m)
  \/ Work
  \/ \E i \in DOMAIN jobs : BackoffEnds(i) \/ Requeue(i)
  \/ Faulty

\* There is one job at most for a valid vector and a model.
MaxJobs == Cardinality(Vector \ Invalid) * Cardinality(Model)

\* `serve` loops forever, its container is restarted when it exits, and the
\* delay of a failed job is finite.
Fairness ==
  /\ WF_vars(Work)
  /\ \A i \in 1..MaxJobs :
       WF_vars(i \in DOMAIN jobs /\ BackoffEnds(i))

Spec == Init /\ [][Next]_vars /\ Fairness
-----------------------------------------------------------------------------
\* Every variable keeps to its values.
TypeOK ==
  /\ vectors \subseteq Vector /\ late \subseteq vectors /\ missed \subseteq vectors
  /\ serving \in Model /\ configured \in Model
  /\ jobs \in Seq(Job)
  /\ cursor \in Vector \cup {0}
  /\ pull \in Pull
  /\ batch \in Seq(DOMAIN jobs)
  /\ stage \in {"score", "put", "ack"}
  /\ indexed \subseteq Document

\* Whatever is retried, and over whichever midnight, the documents of a job in
\* all the daily indices are one: the event that was saved in the outbox before
\* the first attempt to create it, with the score of the model the job was
\* queued for also when the service changed its model before the drain.  A job
\* is marked sent only when that document is in the index.
OneDocumentPerJob ==
  /\ \A d \in indexed :
       d.event.by = d.hash /\ \E i \in DOMAIN jobs : d = DocumentOf(jobs[i])
  /\ \A i \in DOMAIN jobs :
       jobs[i].state = "sent" => DocumentOf(jobs[i]) \in indexed

\* A vector behind the cursor is in the outbox, unless the cursor had passed its
\* place when it was indexed, or the scan that moved the cursor past it had
\* fetched the page of its place before.  A crash between the commits of the jobs
\* and of the cursor loses none, nor does a scan that stops at its limit in the
\* middle of a page; a vector that a scan missed and that scan did not commit is
\* found by the next one.
PulledIsQueued ==
  \A v \in vectors \ (late \cup Invalid) :
    v <= cursor => \E m \in Model : Queued(v, m)

\* No transient failure drops a job: every job is sent in the end, or is
\* dead-lettered where an operator sees it.
JobsEnd ==
  \A i \in 1..MaxJobs :
    i \in DOMAIN jobs
      ~> i \in DOMAIN jobs /\ jobs[i].state \in {"sent", "deadletter"}
=============================================================================
