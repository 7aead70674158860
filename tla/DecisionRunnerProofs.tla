------------------------ MODULE DecisionRunnerProofs ------------------------
(***************************************************************************)
(* Proofs about DecisionRunner, for every set of anomalies and alerts,     *)
(* every policy document, and any number of faults and mode changes.       *)
(***************************************************************************)
EXTENDS DecisionRunner, FiniteSetTheorems, WellFoundedInduction, TLAPS

\* The order of the index: d comes after c.
Precedes(c, d) == After(d, <<c.at, c.id>>)

\* The documents of the index and the pass over them.
DocsOK ==
  /\ TypeOK /\ IsFiniteSet(anomalies)
  /\ position \in Int \X Int
  /\ hits \in Seq(anomalies)

\* The pass is ahead of the cursor and in order, and misses nothing up to its
\* last hit but what was indexed behind it; the cursor moves past an anomaly
\* that has an outcome.
PassOK ==
  /\ \A i \in DOMAIN hits : After(hits[i], position)
  /\ \A i, j \in DOMAIN hits : i < j => Precedes(hits[i], hits[j])
  /\ hits # <<>> =>
       \A d \in anomalies :
         After(d, position) /\ ~Precedes(Last(hits), d) /\ d.id \notin overtaken
           => \E i \in DOMAIN hits : hits[i] = d
  /\ hits # <<>> /\ stage = "advance" => outcomes[Current] # "none"

\* The verdict in hand is about the current anomaly; it is written before it is
\* sent, and sent before it is recorded.
VerdictOK ==
  hits # <<>> /\ stage \in {"write", "send", "record"} =>
    /\ verdict.outcome \in OutcomeName \ {"none"}
    /\ verdict.id.anomaly = About[Current].anomaly.event_id
    /\ stage = "send" => \E d \in decisions : d.id = verdict.id
    /\ stage = "record" /\ verdict.outcome = "response_requested" => verdict.id \in commands

\* The inductive invariant.
Inv == DocsOK /\ PassOK /\ VerdictOK /\ NothingSkipped /\ CommandIsRecorded
-----------------------------------------------------------------------------
(* What the engine answers.                                                *)

\* A verdict that has a decision event is about the anomaly it was asked for,
\* and only such a verdict can be a request for a response.
LEMMA VerdictShape ==
  ASSUME NEW a \in Anomaly, NEW signals
  PROVE  /\ Verdict(a, signals).outcome \in OutcomeName \ {"none"}
         /\ \/ /\ Verdict(a, signals).id = <<>>
               /\ Verdict(a, signals).outcome # "response_requested"
            \/ /\ Verdict(a, signals).id # <<>>
               /\ Verdict(a, signals).id.anomaly = About[a].anomaly.event_id
<1> DEFINE result == Evaluate(Doc, AddressWorld, About[a].policy, About[a].anomaly,
                              signals, About[a].target, now, Key)
           rule == RuleOf(Doc, About[a].policy)
           material == Material(Doc, rule, About[a].anomaly, signals, About[a].target)
           rejection == Rejection(Doc, AddressWorld, rule, About[a].anomaly, signals, About[a].target, now)
           outcome == Outcome(rejection, About[a].anomaly)
<1>1. outcome \in {"response_requested", "denied", "alert", "store_only"}
  BY DEF Outcome
<1>2. material # <<>> /\ Identity(material) # <<>>
      /\ Identity(material).anomaly = About[a].anomaly.event_id
  <2>1. "anomaly" \in DOMAIN material /\ material.anomaly = About[a].anomaly.event_id
    BY DEF Material
  <2>2. DOMAIN <<>> = {}
    OBVIOUS
  <2>3. material # <<>>
    BY <2>1, <2>2
  <2> HIDE DEF material
  <2>4. Identity(material) = [anomaly |-> material.anomaly, signals |-> material.signals]
    BY <2>3 DEF Identity
  <2>5. "anomaly" \in DOMAIN Identity(material)
    BY <2>4
  <2> QED BY <2>1, <2>2, <2>3, <2>4, <2>5
<1>3. \/ result.id = <<>> /\ result.outcome \in {"rejected", "anomaly_only"}
      \/ result.id = material /\ result.outcome = outcome
  <2> HIDE DEF rejection, outcome, material
  <2> QED BY DEF Evaluate, rejection, outcome, material
<1>4. CASE Unanswerable(a) # "none"
  <2>1. Verdict(a, signals) = [outcome |-> Unanswerable(a), id |-> <<>>]
    BY <1>4 DEF Verdict
  <2>2. Unanswerable(a) \in {"unsupported_entity", "no_policy"}
    BY <1>4 DEF Unanswerable
  <2> QED BY <2>1, <2>2 DEF OutcomeName
<1>5. CASE Unanswerable(a) = "none"
  <2>1. Verdict(a, signals) = [outcome |-> Downgraded(result.outcome), id |-> Identity(result.id)]
    BY <1>5 DEF Verdict
  <2> HIDE DEF result, material, outcome
  <2>2. Verdict(a, signals).outcome = Downgraded(result.outcome) /\ Verdict(a, signals).id = Identity(result.id)
    BY <2>1
  <2>3. Identity(<<>>) = <<>>
    BY DEF Identity
  <2>4. Downgraded(result.outcome) \in {result.outcome, "alert"}
    BY DEF Downgraded
  <2> QED BY <1>1, <1>2, <1>3, <2>2, <2>3, <2>4 DEF OutcomeName
<1> QED BY <1>4, <1>5
-----------------------------------------------------------------------------
(* The order of the index.                                                 *)

\* Documents are in a strict total order.
LEMMA Order ==
  ASSUME NEW c \in [id: Anomaly, at: Nat], NEW d \in [id: Anomaly, at: Nat],
         NEW p \in Int \X Int
  PROVE  /\ ~Precedes(c, c)
         /\ Precedes(c, d) => ~Precedes(d, c)
         /\ Precedes(c, d) /\ After(c, p) => After(d, p)
         /\ ~Precedes(c, d) /\ After(d, p) => After(c, p)
<1>1. c.id \in Int /\ c.at \in Int /\ d.id \in Int /\ d.at \in Int /\ p[1] \in Int /\ p[2] \in Int
  <2>1. \A x \in Anomaly : x \in Int
    BY RunnerAssumption
  <2> QED BY <2>1
<1>2. /\ Precedes(c, d) <=> d.at > c.at \/ (d.at = c.at /\ d.id > c.id)
      /\ Precedes(d, c) <=> c.at > d.at \/ (d.at = c.at /\ c.id > d.id)
      /\ Precedes(c, c) <=> c.at > c.at \/ (c.at = c.at /\ c.id > c.id)
  BY DEF Precedes, After
<1>3. /\ After(c, p) <=> c.at > p[1] \/ (c.at = p[1] /\ c.id > p[2])
      /\ After(d, p) <=> d.at > p[1] \/ (d.at = p[1] /\ d.id > p[2])
  BY DEF After
<1> QED BY <1>1, <1>2, <1>3

\* The order is transitive.
LEMMA OrderTransitive ==
  ASSUME NEW b \in [id: Anomaly, at: Nat], NEW c \in [id: Anomaly, at: Nat],
         NEW d \in [id: Anomaly, at: Nat]
  PROVE  /\ Precedes(b, c) /\ Precedes(c, d) => Precedes(b, d)
         /\ ~Precedes(b, d) /\ Precedes(b, c) => ~Precedes(c, d)
<1>1. b.id \in Int /\ b.at \in Int /\ c.id \in Int /\ c.at \in Int /\ d.id \in Int /\ d.at \in Int
  <2>1. \A x \in Anomaly : x \in Int
    BY RunnerAssumption
  <2> QED BY <2>1
<1>2. /\ Precedes(b, c) <=> c.at > b.at \/ (c.at = b.at /\ c.id > b.id)
      /\ Precedes(c, d) <=> d.at > c.at \/ (d.at = c.at /\ d.id > c.id)
      /\ Precedes(b, d) <=> d.at > b.at \/ (d.at = b.at /\ d.id > b.id)
  BY DEF Precedes, After
<1> QED BY <1>1, <1>2
-----------------------------------------------------------------------------
(* Parts of the invariant that several steps keep.                         *)

\* Facts about the pass in hand.
LEMMA PassFacts ==
  ASSUME DocsOK
  PROVE  /\ anomalies \subseteq [id: Anomaly, at: Nat]
         /\ \A i \in DOMAIN hits : hits[i] \in anomalies
         /\ hits # <<>> => /\ Head(hits) = hits[1] /\ 1 \in DOMAIN hits /\ Current \in Anomaly
                           /\ Last(hits) = hits[Len(hits)] /\ Len(hits) \in DOMAIN hits
                           /\ Last(hits) \in anomalies /\ Head(hits) \in anomalies
<1>1. hits \in Seq(anomalies) /\ anomalies \subseteq [id: Anomaly, at: Nat]
  BY DEF DocsOK, TypeOK
<1>2. \A i \in DOMAIN hits : hits[i] \in anomalies
  BY <1>1
<1>3. ASSUME hits # <<>>
      PROVE  /\ Head(hits) = hits[1] /\ 1 \in DOMAIN hits
             /\ Last(hits) = hits[Len(hits)] /\ Len(hits) \in DOMAIN hits
  BY <1>1, <1>3 DEF Last
<1>4. ASSUME hits # <<>>
      PROVE  Head(hits) \in [id: Anomaly, at: Nat] /\ Current \in Anomaly
  BY <1>1, <1>2, <1>3, <1>4 DEF Current
<1> QED BY <1>1, <1>2, <1>3, <1>4

\* No pass, or the same one.
LEMMA EmptyPass ==
  ASSUME hits' = <<>>
  PROVE  PassOK'
<1>1. DOMAIN hits' = {}
  OBVIOUS
<1>2. hits' = <<>>
  OBVIOUS
<1> QED BY ONLY <1>1, <1>2 DEF PassOK

\* The pass goes on over the same index.
LEMMA SamePass ==
  ASSUME PassOK, UNCHANGED <<hits, anomalies, position, overtaken>>,
         hits # <<>> /\ stage' = "advance" => outcomes'[Current] # "none"
  PROVE  PassOK'
<1>1. Last(hits)' = Last(hits) /\ Current' = Current
  BY DEF Last, Current
<1>2. /\ \A i \in DOMAIN hits : After(hits[i], position)
      /\ \A i, j \in DOMAIN hits : i < j => Precedes(hits[i], hits[j])
  BY DEF PassOK
<1>3. ASSUME hits # <<>>, NEW d \in anomalies,
             After(d, position), ~Precedes(Last(hits), d), d.id \notin overtaken
      PROVE  \E i \in DOMAIN hits : hits[i] = d
  BY <1>3 DEF PassOK
<1> QED BY <1>1, <1>2, <1>3 DEF PassOK

\* The index, the cursor and the pass stay, or the pass ends; an outcome that
\* was recorded is not taken back.
LEMMA ScanKeeps ==
  ASSUME Inv, UNCHANGED <<anomalies, position, overtaken>>, hits' = hits \/ hits' = <<>>,
         \A a \in Anomaly : outcomes[a] # "none" => outcomes'[a] # "none",
         hits' # <<>> /\ stage' = "advance" => stage = "advance" \/ outcomes'[Current] # "none"
  PROVE  PassOK' /\ NothingSkipped'
<1>1. DocsOK
  BY DEF Inv
<1>2. NothingSkipped'
  BY <1>1, PassFacts DEF Inv, NothingSkipped
<1>3. CASE hits' = <<>>
  BY <1>2, <1>3, EmptyPass
<1>4. CASE hits' = hits
  <2>1. Current' = Current /\ (hits # <<>> => Current \in Anomaly)
    BY <1>1, <1>4, PassFacts DEF Current
  <2>2. hits # <<>> /\ stage' = "advance" => outcomes'[Current] # "none"
    BY <1>4, <2>1 DEF Inv, PassOK
  <2> QED BY <1>2, <1>4, <2>1, <2>2, SamePass DEF Inv
<1> QED BY <1>2, <1>3, <1>4

\* Neither commands nor decision events are taken back, and no outcome becomes
\* a request for a response.
LEMMA RecordsKeep ==
  ASSUME CommandIsRecorded, decisions \subseteq decisions', commands \subseteq commands',
         \A c \in commands' \ commands : \E d \in decisions' : d.id = c,
         \A a \in Anomaly : outcomes'[a] = "response_requested" =>
           \/ outcomes[a] = "response_requested"
           \/ \E c \in commands' : c.anomaly = About[a].anomaly.event_id
  PROVE  CommandIsRecorded'
<1>1. \A c \in commands' : \E d \in decisions' : d.id = c
  BY DEF CommandIsRecorded
<1>2. ASSUME NEW a \in Anomaly, outcomes'[a] = "response_requested"
      PROVE  \E c \in commands' : c.anomaly = About[a].anomaly.event_id
  BY <1>2 DEF CommandIsRecorded
<1> QED BY <1>1, <1>2 DEF CommandIsRecorded

\* No verdict is in hand.
LEMMA NoVerdictInHand ==
  ASSUME hits' = <<>> \/ stage' \in {"evaluate", "advance"}
  PROVE  VerdictOK'
BY DEF VerdictOK

\* record() of an outcome, and the pass goes on to move the cursor.
LEMMA RecordKeeps ==
  ASSUME Inv, hits # <<>>, NEW outcome \in OutcomeName \ {"none"}, Record(outcome),
         UNCHANGED <<anomalies, telemetry, overtaken, mode, position, decisions, commands>>,
         outcome = "response_requested" =>
           \E c \in commands : c.anomaly = About[Current].anomaly.event_id
  PROVE  Inv'
<1>1. /\ outcomes' = [outcomes EXCEPT ![Current] = outcome] /\ stage' = "advance"
      /\ UNCHANGED <<hits, verdict>>
  BY DEF Record
<1>2. DocsOK /\ outcomes \in [Anomaly -> OutcomeName] /\ Current \in Anomaly
  BY PassFacts DEF Inv, DocsOK, TypeOK
<1>3. /\ outcomes' \in [Anomaly -> OutcomeName]
      /\ \A a \in Anomaly : outcomes'[a] = IF a = Current THEN outcome ELSE outcomes[a]
  BY <1>1, <1>2
<1>4. DocsOK'
  BY <1>1, <1>2, <1>3 DEF DocsOK, TypeOK
<1>5. PassOK' /\ NothingSkipped'
  BY <1>1, <1>2, <1>3, ScanKeeps
<1>6. CommandIsRecorded'
  BY <1>2, <1>3, RecordsKeep DEF Inv
<1>7. VerdictOK'
  BY <1>1, NoVerdictInHand
<1> QED BY <1>4, <1>5, <1>6, <1>7 DEF Inv

\* A step that leaves the ledger alone and goes on with the pass or ends it.
LEMMA PassKeeps ==
  ASSUME Inv, UNCHANGED <<anomalies, overtaken, position, outcomes>>,
         telemetry' \subseteq Alert, mode' \in {"observe", "enforce"},
         hits' = hits \/ hits' = <<>>,
         stage' \in {"evaluate", "write", "send", "record"} \/ stage' = stage,
         decisions \subseteq decisions', commands \subseteq commands',
         \A c \in commands' \ commands : \E d \in decisions' : d.id = c,
         VerdictOK'
  PROVE  Inv'
<1>1. DocsOK'
  <2>1. hits' \in Seq(anomalies')
    <3>1. CASE hits' = hits
      BY <3>1 DEF Inv, DocsOK
    <3>2. CASE hits' = <<>>
      BY <3>2
    <3> QED BY <3>1, <3>2
  <2>2. stage' \in {"evaluate", "write", "send", "record", "advance"}
    BY DEF Inv, DocsOK, TypeOK
  <2> QED BY <2>1, <2>2 DEF Inv, DocsOK, TypeOK
<1>2. PassOK' /\ NothingSkipped'
  BY ScanKeeps
<1>3. CommandIsRecorded'
  BY RecordsKeep DEF Inv
<1> QED BY <1>1, <1>2, <1>3 DEF Inv
-----------------------------------------------------------------------------
(* The steps.                                                              *)

\* Index: an anomaly appears ahead of the pass, or is remembered as overtaken.
LEMMA IndexStep ==
  ASSUME Inv, NEW a \in Anomaly, NEW at \in Nat, Index(a, at)
  PROVE  Inv'
<1> DEFINE new == [id |-> a, at |-> at]
<1>1. /\ \A d \in anomalies : d.id # a
      /\ anomalies' = anomalies \cup {new}
      /\ overtaken' = IF After(new, position) /\ After(new, Reached) THEN overtaken ELSE overtaken \cup {a}
      /\ UNCHANGED <<telemetry, mode, position, outcomes, hits, stage, verdict, decisions, commands>>
  BY DEF Index, ledgerVars, passVars
<1>2. new \in [id: Anomaly, at: Nat] /\ new.id = a
  OBVIOUS
<1> HIDE DEF new
<1>3. DocsOK /\ PassOK /\ NothingSkipped
  BY DEF Inv
<1>4. overtaken \subseteq overtaken' /\ overtaken' \subseteq overtaken \cup {a}
  BY <1>1
<1>5. a \in overtaken' \/ (After(new, position) /\ (hits # <<>> => Precedes(Last(hits), new)))
  BY <1>1 DEF Reached, Precedes
<1>6. DocsOK'
  <2>1. IsFiniteSet(anomalies')
    BY <1>1, <1>3, FS_AddElement DEF DocsOK
  <2>2. hits' \in Seq(anomalies')
    BY <1>1, <1>3 DEF DocsOK
  <2> QED BY <1>1, <1>2, <1>3, <1>4, <2>1, <2>2 DEF DocsOK, TypeOK
<1>7. NothingSkipped'
  BY <1>1, <1>2, <1>3, <1>4, <1>5 DEF NothingSkipped
<1>8. PassOK'
  <2>1. hits' = hits /\ Last(hits)' = Last(hits) /\ Current' = Current
    BY <1>1 DEF Last, Current
  <2>2. /\ \A i \in DOMAIN hits' : After(hits'[i], position')
        /\ \A i, j \in DOMAIN hits' : i < j => Precedes(hits'[i], hits'[j])
        /\ hits' # <<>> /\ stage' = "advance" => outcomes'[Current'] # "none"
    BY <1>1, <1>3, <2>1 DEF PassOK
  <2>3. ASSUME hits # <<>>, NEW d \in anomalies',
               After(d, position), ~Precedes(Last(hits), d), d.id \notin overtaken'
        PROVE  \E i \in DOMAIN hits : hits[i] = d
    <3>1. d # new
      BY <1>2, <1>5, <2>3
    <3> QED BY <1>1, <1>3, <1>4, <2>3, <3>1 DEF PassOK
  <2> QED BY <1>1, <2>1, <2>2, <2>3 DEF PassOK
<1>9. VerdictOK'
  BY <1>1 DEF Inv, VerdictOK, Current
<1>10. CommandIsRecorded'
  BY <1>1 DEF Inv, CommandIsRecorded
<1> QED BY <1>6, <1>7, <1>8, <1>9, <1>10 DEF Inv

\* run_once: the pass begins with the first anomalies after the cursor.
LEMMA PassBegins ==
  ASSUME Inv, run_once
  PROVE  Inv'
<1>1. /\ hits' \in FirstOf(Pending, Limit, LAMBDA c, d : After(d, <<c.at, c.id>>))
      /\ stage' = "evaluate"
      /\ UNCHANGED <<anomalies, telemetry, overtaken, mode, position, outcomes, decisions, commands>>
  BY DEF run_once, worldVars, ledgerVars
<1>2. DocsOK /\ PassOK /\ NothingSkipped /\ CommandIsRecorded
  BY DEF Inv
<1>3. Cardinality(Pending) \in Nat
  BY <1>2, FS_Subset, FS_CardinalityType DEF Pending, DocsOK
<1>4. PICK size : size = Min({Limit, Cardinality(Pending)})
  OBVIOUS
<1>5. size \in Nat
  <2> DEFINE c == Cardinality(Pending)
  <2>1. c \in Nat /\ Limit \in Nat
    BY <1>3, RunnerAssumption
  <2> HIDE DEF c
  <2>2. \E x \in {Limit, c} : \A y \in {Limit, c} : x <= y
    BY <2>1, Limit <= c \/ c <= Limit
  <2>3. Min({Limit, c}) \in {Limit, c}
    BY <2>2 DEF Min
  <2> QED BY <1>4, <2>1, <2>3 DEF c
<1>6. /\ hits' \in [1..size -> Pending]
      /\ \A j, k \in 1..size : j < k => Precedes(hits'[j], hits'[k])
      /\ \A x \in Pending : \/ \E j \in 1..size : hits'[j] = x
                            \/ \A j \in 1..size : Precedes(hits'[j], x)
  BY <1>1, <1>4 DEF FirstOf, Precedes
<1>7. /\ hits' \in Seq(anomalies) /\ DOMAIN hits' = 1..size /\ Len(hits') = size
      /\ \A i \in 1..size : After(hits'[i], position)
  <2>1. Pending \subseteq anomalies /\ \A d \in Pending : After(d, position)
    BY DEF Pending
  <2> HIDE DEF Pending
  <2> QED BY <1>5, <1>6, <2>1
<1>8. DocsOK'
  BY <1>1, <1>2, <1>7 DEF DocsOK, TypeOK
<1>9. NothingSkipped' /\ CommandIsRecorded'
  BY <1>1, <1>2 DEF NothingSkipped, CommandIsRecorded
<1>10. PassOK'
  <2>1. ASSUME hits' # <<>>, NEW d \in anomalies, After(d, position), ~Precedes(Last(hits)', d)
        PROVE  \E i \in DOMAIN hits' : hits'[i] = d
    <3>1. size # 0
      BY <1>7, <2>1
    <3>2. Last(hits)' = hits'[size] /\ size \in 1..size
      BY <1>5, <1>7, <3>1 DEF Last
    <3>3. d \in Pending
      BY <2>1 DEF Pending
    <3> QED BY <1>6, <1>7, <2>1, <3>2, <3>3
  <2> QED BY <1>1, <1>6, <1>7, <2>1 DEF PassOK
<1>11. VerdictOK'
  BY <1>1, NoVerdictInHand
<1> QED BY <1>8, <1>9, <1>10, <1>11 DEF Inv

\* Advance: the cursor moves to the first hit.
LEMMA AdvanceStep ==
  ASSUME Inv, Advance
  PROVE  Inv'
<1>1. /\ hits # <<>> /\ stage = "advance" /\ stage' = "evaluate"
      /\ position' = <<Head(hits).at, Head(hits).id>> /\ hits' = Tail(hits)
      /\ UNCHANGED <<anomalies, telemetry, overtaken, mode, outcomes, decisions, commands>>
  BY DEF Advance, worldVars
<1>2. DocsOK /\ PassOK /\ NothingSkipped /\ CommandIsRecorded
  BY DEF Inv
<1>3. /\ hits \in Seq(anomalies) /\ anomalies \subseteq [id: Anomaly, at: Nat]
      /\ position \in Int \X Int
  BY <1>2 DEF DocsOK, TypeOK
<1>4. PICK h \in anomalies : h = Head(hits) /\ h = hits[1] /\ 1 \in DOMAIN hits /\ Current = h.id
  BY <1>1, <1>2, PassFacts DEF Current
<1>5. /\ hits' \in Seq(anomalies) /\ Len(hits) \in Nat /\ Len(hits') = Len(hits) - 1
      /\ DOMAIN hits = 1..Len(hits) /\ DOMAIN hits' = 1..(Len(hits) - 1)
      /\ \A i \in DOMAIN hits' : i + 1 \in DOMAIN hits /\ hits'[i] = hits[i + 1]
  BY <1>1, <1>3
<1>6. \A d : After(d, position') <=> Precedes(h, d)
  BY <1>1, <1>4 DEF Precedes
<1>7. DocsOK'
  <2>1. h.at \in Int /\ h.id \in Int
    <3>1. \A x \in Anomaly : x \in Int
      BY RunnerAssumption
    <3> QED BY <1>3, <3>1
  <2>2. position' \in Int \X Int
    BY <1>1, <1>4, <2>1
  <2> QED BY <1>1, <1>2, <1>5, <2>2 DEF DocsOK, TypeOK
<1>8. ASSUME NEW d \in anomalies, After(d, position), d.id \notin overtaken, ~Precedes(Last(hits), d)
      PROVE  d = h \/ \E i \in DOMAIN hits' : hits'[i] = d
  <2>1. PICK i \in DOMAIN hits : hits[i] = d
    BY <1>1, <1>2, <1>8 DEF PassOK
  <2>2. CASE i = 1
    BY <1>4, <2>1, <2>2
  <2>3. CASE i # 1
    <3>1. i - 1 \in DOMAIN hits' /\ (i - 1) + 1 = i
      BY <1>5, <2>3
    <3> QED BY <1>5, <2>1, <3>1
  <2> QED BY <2>2, <2>3
<1>9. \A i \in DOMAIN hits' : Precedes(h, hits'[i])
  <2>1. ASSUME NEW i \in DOMAIN hits'
        PROVE  Precedes(h, hits'[i])
    <3>1. 1 < i + 1 /\ i + 1 \in DOMAIN hits
      BY <1>5
    <3> QED BY <1>2, <1>4, <1>5, <3>1 DEF PassOK
  <2> QED BY <2>1
<1>10. NothingSkipped'
  <2>1. ASSUME NEW d \in anomalies, ~Precedes(h, d), d.id \notin overtaken
        PROVE  outcomes[d.id] # "none"
    <3>1. CASE ~After(d, position)
      BY <1>2, <2>1, <3>1 DEF NothingSkipped
    <3>2. CASE After(d, position)
      <4>1. ~Precedes(Last(hits), d)
        <5>1. Last(hits) \in anomalies /\ Last(hits) = hits[Len(hits)] /\ Len(hits) \in DOMAIN hits
          BY <1>1, <1>2, PassFacts
        <5>2. Last(hits) = h \/ Precedes(h, Last(hits))
          BY <1>2, <1>4, <1>5, <5>1 DEF PassOK
        <5> QED BY <1>3, <2>1, <5>1, <5>2, OrderTransitive
      <4>2. d = h
        BY <1>8, <1>9, <2>1, <3>2, <4>1
      <4> QED BY <1>1, <1>2, <1>4, <4>2 DEF PassOK
    <3> QED BY <3>1, <3>2
  <2> QED BY <1>1, <1>6, <2>1 DEF NothingSkipped
<1>11. PassOK'
  <2>1. \A i \in DOMAIN hits' : After(hits'[i], position')
    BY <1>6, <1>9
  <2>2. \A i, j \in DOMAIN hits' : i < j => Precedes(hits'[i], hits'[j])
    <3>1. ASSUME NEW i \in DOMAIN hits', NEW j \in DOMAIN hits', i < j
          PROVE  Precedes(hits'[i], hits'[j])
      <4>1. i + 1 \in DOMAIN hits /\ j + 1 \in DOMAIN hits /\ i + 1 < j + 1
        BY <1>5, <3>1
      <4> QED BY <1>2, <1>5, <4>1 DEF PassOK
    <3> QED BY <3>1
  <2>3. ASSUME hits' # <<>>, NEW d \in anomalies, After(d, position'),
               ~Precedes(Last(hits)', d), d.id \notin overtaken
        PROVE  \E i \in DOMAIN hits' : hits'[i] = d
    <3>1. Last(hits)' = Last(hits)
      <4>1. Len(hits') # 0
        BY <1>5, <2>3
      <4>2. Len(hits') \in DOMAIN hits' /\ Len(hits') + 1 = Len(hits)
        BY <1>5, <4>1
      <4> QED BY <1>5, <4>2 DEF Last
    <3>2. Precedes(h, d)
      BY <1>6, <2>3
    <3>3. d # h /\ After(d, position)
      <4>1. After(h, position)
        BY <1>2, <1>4 DEF PassOK
      <4> QED BY <1>3, <3>2, <4>1, Order
    <3> QED BY <1>8, <2>3, <3>1, <3>3
  <2> QED BY <1>1, <2>1, <2>2, <2>3 DEF PassOK
<1>12. CommandIsRecorded' /\ VerdictOK'
  BY <1>1, <1>2, NoVerdictInHand DEF CommandIsRecorded
<1> QED BY <1>7, <1>10, <1>11, <1>12 DEF Inv

\* Evaluated.
LEMMA EvaluatedStep ==
  ASSUME Inv, Evaluated
  PROVE  Inv'
<1>1. /\ hits # <<>> /\ stage = "evaluate"
      /\ UNCHANGED <<anomalies, telemetry, overtaken, mode, position, decisions, commands>>
  BY DEF Evaluated, worldVars
<1>2. Current \in Anomaly /\ telemetry \subseteq Alert /\ mode \in {"observe", "enforce"}
  BY <1>1, PassFacts DEF Inv, DocsOK, TypeOK
<1>3. PICK v : /\ v.outcome \in OutcomeName \ {"none"}
               /\ v.id = <<>> => v.outcome # "response_requested"
               /\ v.id # <<>> => v.id.anomaly = About[Current].anomaly.event_id
               /\ \/ v.id = <<>> /\ Record(v.outcome)
                  \/ /\ v.id # <<>> /\ verdict' = v /\ stage' = "write"
                     /\ UNCHANGED <<hits, outcomes>>
  <2>1. PICK signals : \E v \in {Verdict(Current, signals)} :
                         \/ v.id = <<>> /\ Record(v.outcome)
                         \/ /\ v.id # <<>> /\ verdict' = v /\ stage' = "write"
                            /\ UNCHANGED <<hits, outcomes>>
    BY DEF Evaluated
  <2> DEFINE w == Verdict(Current, signals)
  <2>2. /\ w.outcome \in OutcomeName \ {"none"}
        /\ \/ w.id = <<>> /\ w.outcome # "response_requested"
           \/ w.id # <<>> /\ w.id.anomaly = About[Current].anomaly.event_id
    BY <1>2, VerdictShape
  <2> HIDE DEF w
  <2>3. \/ w.id = <<>> /\ Record(w.outcome)
        \/ w.id # <<>> /\ verdict' = w /\ stage' = "write" /\ UNCHANGED <<hits, outcomes>>
    BY <2>1 DEF w
  <2> QED BY <2>2, <2>3
<1>4. CASE v.id = <<>> /\ Record(v.outcome)
  BY <1>1, <1>3, <1>4, RecordKeeps
<1>5. CASE v.id # <<>> /\ verdict' = v /\ stage' = "write" /\ UNCHANGED <<hits, outcomes>>
  <2>1. VerdictOK'
    BY <1>3, <1>5 DEF VerdictOK, Current
  <2> QED BY <1>1, <1>2, <1>5, <2>1, PassKeeps
<1> QED BY <1>3, <1>4, <1>5

\* WriteDecision, and Written itself.
LEMMA WriteStep ==
  ASSUME Inv, WriteDecision
  PROVE  Inv'
<1>1. /\ hits # <<>> /\ stage = "write" /\ decisions' = Written
      /\ stage' = IF verdict.outcome = "response_requested" THEN "send" ELSE "record"
      /\ UNCHANGED <<anomalies, telemetry, overtaken, mode, position, outcomes, hits, verdict, commands>>
  BY DEF WriteDecision, worldVars, ledgerVars
<1>2. decisions \subseteq decisions' /\ \E d \in decisions' : d.id = verdict.id
  BY <1>1 DEF Written
<1>3. telemetry \subseteq Alert /\ mode \in {"observe", "enforce"}
  BY DEF Inv, DocsOK, TypeOK
<1>4. VerdictOK'
  BY <1>1, <1>2 DEF Inv, VerdictOK, Current
<1> QED BY <1>1, <1>2, <1>3, <1>4, PassKeeps

\* Send.
LEMMA SendStep ==
  ASSUME Inv, Send
  PROVE  Inv'
<1>1. /\ hits # <<>> /\ stage = "send" /\ commands' = commands \cup {verdict.id} /\ stage' = "record"
      /\ UNCHANGED <<anomalies, telemetry, overtaken, mode, position, outcomes, hits, verdict, decisions>>
  BY DEF Send, worldVars, ledgerVars
<1>2. telemetry \subseteq Alert /\ mode \in {"observe", "enforce"}
  BY DEF Inv, DocsOK, TypeOK
<1>3. /\ \E d \in decisions : d.id = verdict.id
      /\ verdict.outcome \in OutcomeName \ {"none"}
      /\ verdict.id.anomaly = About[Current].anomaly.event_id
  BY <1>1 DEF Inv, VerdictOK
<1>4. VerdictOK'
  BY <1>1, <1>3 DEF VerdictOK, Current
<1> QED BY <1>1, <1>2, <1>3, <1>4, PassKeeps

\* RecordVerdict.
LEMMA RecordStep ==
  ASSUME Inv, RecordVerdict
  PROVE  Inv'
<1>1. /\ hits # <<>> /\ stage = "record" /\ Record(verdict.outcome)
      /\ UNCHANGED <<anomalies, telemetry, overtaken, mode, position, decisions, commands>>
  BY DEF RecordVerdict, worldVars
<1>2. /\ verdict.outcome \in OutcomeName \ {"none"}
      /\ verdict.id.anomaly = About[Current].anomaly.event_id
      /\ verdict.outcome = "response_requested" => verdict.id \in commands
  BY <1>1 DEF Inv, VerdictOK
<1> QED BY <1>1, <1>2, RecordKeeps

\* EvidenceFails, WriteFails, SendFails and Crash: the pass ends, or the anomaly
\* is recorded as one that cannot be decided or delivered.
LEMMA FaultSteps ==
  ASSUME Inv, Faulty
  PROVE  Inv'
<1>1. hits # <<>> /\ UNCHANGED <<anomalies, telemetry, overtaken, position>>
  BY DEF Faulty, EvidenceFails, WriteFails, SendFails, Crash, worldVars, ledgerVars
<1>2. telemetry \subseteq Alert /\ mode \in {"observe", "enforce"}
  BY DEF Inv, DocsOK, TypeOK
<1>3. ASSUME Break, UNCHANGED outcomes, mode' \in {"observe", "enforce"},
             decisions \subseteq decisions', commands \subseteq commands',
             \A c \in commands' \ commands : \E d \in decisions' : d.id = c
      PROVE  Inv'
  <2>1. hits' = <<>> /\ stage' = "evaluate"
    BY <1>3 DEF Break
  <2> QED BY <1>1, <1>2, <1>3, <2>1, NoVerdictInHand, PassKeeps
<1>4. ASSUME NEW outcome \in {"evidence_error", "delivery_failed"}, Record(outcome),
             UNCHANGED <<mode, decisions, commands>>
      PROVE  Inv'
  <2>1. outcome \in OutcomeName \ {"none"} /\ outcome # "response_requested"
    BY DEF OutcomeName
  <2> QED BY <1>1, <1>4, <2>1, RecordKeeps
<1>5. CASE EvidenceFails
  BY <1>2, <1>3, <1>4, <1>5 DEF EvidenceFails
<1>6. CASE WriteFails
  <2>1. decisions \subseteq Written
    BY DEF Written
  <2> QED BY <1>2, <1>3, <1>4, <1>6, <2>1 DEF WriteFails
<1>7. CASE SendFails
  <2>1. stage = "send" /\ UNCHANGED <<mode, decisions>>
    BY <1>7 DEF SendFails
  <2>2. \E d \in decisions : d.id = verdict.id
    BY <1>1, <2>1 DEF Inv, VerdictOK
  <2>3. CASE commands' \in {commands, commands \cup {verdict.id}} /\ Break /\ UNCHANGED outcomes
    BY <1>2, <1>3, <2>1, <2>2, <2>3
  <2>4. CASE UNCHANGED commands /\ Record("delivery_failed")
    BY <1>4, <2>1, <2>4
  <2> QED BY <1>7, <2>3, <2>4 DEF SendFails
<1>8. CASE Crash
  <2>1. Break /\ mode' \in {"observe", "enforce"} /\ UNCHANGED <<outcomes, decisions, commands>>
    BY <1>8 DEF Crash, ledgerVars
  <2> QED BY <1>3, <2>1
<1> QED BY <1>5, <1>6, <1>7, <1>8 DEF Faulty

\* Tick, Observe and stuttering.
LEMMA WorldSteps ==
  ASSUME Inv, Tick \/ (\E x \in Alert : Observe(x)) \/ UNCHANGED vars
  PROVE  Inv'
<1>1. UNCHANGED <<anomalies, overtaken, mode, position, outcomes, hits, stage, verdict, decisions, commands>>
  BY DEF Tick, Observe, vars, worldVars, ledgerVars, passVars
<1>2. telemetry \subseteq Alert /\ mode \in {"observe", "enforce"}
  BY DEF Inv, DocsOK, TypeOK
<1>3. telemetry' \subseteq Alert
  <2>1. CASE \E x \in Alert : Observe(x)
    BY <1>2, <2>1 DEF Observe
  <2>2. CASE Tick \/ UNCHANGED vars
    BY <1>2, <2>2 DEF Tick, vars, worldVars
  <2> QED BY <2>1, <2>2
<1>4. VerdictOK'
  BY <1>1 DEF Inv, VerdictOK, Current
<1> QED BY <1>1, <1>2, <1>3, <1>4, PassKeeps
-----------------------------------------------------------------------------
(* The theorems.                                                           *)

\* Nothing has been decided at first.
LEMMA InitEstablishesInv ==
  ASSUME Init
  PROVE  Inv
<1>1. /\ anomalies = {} /\ telemetry = {} /\ overtaken = {} /\ mode \in {"observe", "enforce"}
      /\ position = <<-1, 0>> /\ outcomes = [a \in Anomaly |-> "none"] /\ hits = <<>>
      /\ stage = "evaluate" /\ decisions = {} /\ commands = {}
  BY DEF Init, InitRunner
<1>2. DocsOK
  <2>1. outcomes \in [Anomaly -> OutcomeName]
    BY <1>1 DEF OutcomeName
  <2> QED BY <1>1, <2>1, FS_EmptySet DEF DocsOK, TypeOK
<1>3. PassOK
  <2>1. DOMAIN hits = {}
    BY <1>1
  <2> QED BY <1>1, <2>1 DEF PassOK
<1>4. VerdictOK /\ NothingSkipped /\ CommandIsRecorded
  BY <1>1 DEF VerdictOK, NothingSkipped, CommandIsRecorded
<1> QED BY <1>2, <1>3, <1>4 DEF Inv

\* Every step keeps the invariant.
LEMMA NextKeepsInv ==
  ASSUME Inv, Next
  PROVE  Inv'
<1>1. CASE Tick \/ \E x \in Alert : Observe(x)
  BY <1>1, WorldSteps
<1>2. CASE \E a \in Anomaly, t \in 0..MaxTicks : Index(a, t * TickLength)
  <2>1. PICK a \in Anomaly, t \in 0..MaxTicks : Index(a, t * TickLength)
    BY <1>2
  <2>2. t * TickLength \in Nat
    BY RunnerAssumption
  <2> QED BY <2>1, <2>2, IndexStep
<1>3. CASE Work
  BY <1>3, PassBegins, EvaluatedStep, WriteStep, SendStep, RecordStep, AdvanceStep DEF Work
<1>4. CASE Faulty
  BY <1>4, FaultSteps
<1> QED BY <1>1, <1>2, <1>3, <1>4 DEF Next

\* The invariant of the runner, its ledger and the indices it reads and writes.
THEOREM Invariance == Spec => []Inv
<1>1. Inv /\ UNCHANGED vars => Inv'
  BY WorldSteps
<1> QED BY <1>1, InitEstablishesInv, NextKeepsInv, PTL DEF Spec

\* The cursor never passes an anomaly that was there to be seen and has no
\* outcome, whatever fails and however the page is cut.
THEOREM NoneSkipped == Spec => []NothingSkipped
<1>1. Inv => NothingSkipped
  BY DEF Inv
<1> QED BY <1>1, Invariance, PTL

\* Every accepted command has its decision event, and every recorded request
\* its accepted command.
THEOREM RecordsAgree == Spec => []CommandIsRecorded
<1>1. Inv => CommandIsRecorded
  BY DEF Inv
<1> QED BY <1>1, Invariance, PTL

-----------------------------------------------------------------------------
(* How many commands an anomaly leads to.                                  *)

\* The commands accepted for an anomaly.
Issued(a) == {c \in commands : c.anomaly = About[a].anomaly.event_id}

\* The runner is past the attempt to deliver: no command follows without a
\* fault in between.
Closed(a) ==
  \/ \E d \in anomalies : d.id = a /\ ~After(d, position)
  \/ hits # <<>> /\ Current = a /\ stage \in {"record", "advance"}

\* The key of the command that may be sent next.
InHand(a) ==
  IF hits # <<>> /\ Current = a /\ stage \in {"write", "send"} THEN {verdict.id} ELSE {}

AlertsOn(a) == {x \in telemetry : x.about = a}

\* The idempotency key of a command for an anomaly on some evidence.
KeyOn(a, evidence) == [anomaly |-> About[a].anomaly.event_id, signals |-> evidence]
KeyNow(a) == KeyOn(a, NormalSignals(Signals(a)))

\* The keys that were or may be used, up to the alerts of now.
Keys(a) == (Issued(a) \cup InHand(a) \cup {KeyNow(a)}) \ {KeyOn(a, {})}

Spare(a) == IF a \in Intel THEN 1 ELSE 0

\* One attempt more than there were faults has delivered at most one command
\* more; and every alert adds at most one key to those of an anomaly.
CountOf(a) ==
  /\ Cardinality(Issued(a)) <= faults + (IF Closed(a) THEN 1 ELSE 0)
  /\ KeyOn(a, {}) \notin Issued(a) \cup InHand(a)
  /\ Cardinality(Keys(a)) <= Cardinality(AlertsOn(a)) + Spare(a)

Count ==
  /\ faults \in Nat /\ IsFiniteSet(commands) /\ IsFiniteSet(telemetry)
  /\ \A c, d \in anomalies : c.id = d.id => c = d
  /\ \A a \in Anomaly : CountOf(a)

\* The list of a finite set is a sequence, empty for the empty set.
LEMMA ListOfSet ==
  ASSUME NEW S, IsFiniteSet(S)
  PROVE  /\ SetToSeq(S) \in Seq(S)
         /\ S = {} => DOMAIN SetToSeq(S) = {}
<1>1. Cardinality(S) \in Nat /\ ExistsBijection(1..Cardinality(S), S)
  BY FS_CardinalityType
<1>2. \E f \in [1..Cardinality(S) -> S] : IsInjective(f)
  BY <1>1 DEF ExistsBijection, Bijection, Injection, IsInjective
<1>3. SetToSeq(S) \in [1..Cardinality(S) -> S]
  BY <1>2 DEF SetToSeq
<1>4. S = {} => Cardinality(S) = 0
  BY FS_EmptySet
<1> QED BY <1>1, <1>3, <1>4

\* A list that is not empty has an index.
LEMMA ListHasFirst ==
  ASSUME NEW S, NEW list \in Seq(S), list # <<>>
  PROVE  DOMAIN list # {}
<1>1. Len(list) \in Nat /\ DOMAIN list = 1..Len(list)
  OBVIOUS
<1>2. Len(list) # 0
  OBVIOUS
<1>3. 1 \in DOMAIN list
  BY <1>1, <1>2
<1> QED BY <1>3

\* A list of signals is a sequence; without alerts and without the threat
\* intelligence list there are none.
LEMMA SignalsList ==
  ASSUME NEW a, IsFiniteSet(telemetry)
  PROVE  /\ Signals(a) # <<>> => DOMAIN Signals(a) # {}
         /\ AlertsOn(a) = {} /\ a \notin Intel => Signals(a) = <<>>
<1> DEFINE P == AlertSignals(a, "suricata")
           Q == CollapsedSignal(a, "honeypot")
           R == AlertSignals(a, "wazuh")
           S == CollapsedSignal(a, "authentication")
           T == ContextSignal(a, "threat_intel", a \in Intel)
           U == ContextSignal(a, "protected_asset", Seen(a, "protected_asset") # {})
           All == Range(P) \cup Range(Q) \cup Range(R) \cup Range(S) \cup Range(T) \cup Range(U)
<1>1. ASSUME NEW kind
      PROVE  /\ AlertSignals(a, kind) \in Seq(Range(AlertSignals(a, kind)))
             /\ AlertsOn(a) = {} => AlertSignals(a, kind) = <<>>
  <2> DEFINE W == Worst(Seen(a, kind))
             worst == SetToSeq(W)
  <2>1. W \subseteq telemetry
    BY DEF Worst, Seen
  <2>2. worst \in Seq(W) /\ (W = {} => DOMAIN worst = {})
    BY <2>1, FS_Subset, ListOfSet
  <2>3. DOMAIN worst = 1..Len(worst) /\ Len(worst) \in Nat
    BY <2>2
  <2>4. DOMAIN AlertSignals(a, kind) = DOMAIN worst
    BY DEF AlertSignals
  <2>5. AlertSignals(a, kind) \in [DOMAIN worst -> Range(AlertSignals(a, kind))]
    <3>1. AlertSignals(a, kind) = [i \in DOMAIN worst |-> AlertSignals(a, kind)[i]]
      BY DEF AlertSignals
    <3> QED BY <2>4, <3>1 DEF Range
  <2>6. AlertsOn(a) = {} => W = {}
    BY DEF AlertsOn, Worst, Seen
  <2> HIDE DEF W, worst
  <2>7. AlertSignals(a, kind) \in Seq(Range(AlertSignals(a, kind)))
    BY <2>3, <2>5
  <2>8. ASSUME AlertsOn(a) = {}
        PROVE  AlertSignals(a, kind) = <<>>
    BY <2>2, <2>4, <2>6, <2>7, <2>8
  <2> QED BY <2>7, <2>8
<1>2. ASSUME NEW kind
      PROVE  /\ CollapsedSignal(a, kind) \in Seq(Range(CollapsedSignal(a, kind)))
             /\ AlertsOn(a) = {} => CollapsedSignal(a, kind) = <<>>
  <2>1. CASE Seen(a, kind) = {}
    <3>1. CollapsedSignal(a, kind) = <<>>
      BY <2>1 DEF CollapsedSignal
    <3> QED BY <3>1
  <2>2. CASE Seen(a, kind) # {}
    <3>1. AlertsOn(a) # {}
      BY <2>2 DEF Seen, AlertsOn
    <3>2. PICK x : CollapsedSignal(a, kind) = <<x>>
      BY <2>2 DEF CollapsedSignal
    <3> QED BY <3>1, <3>2 DEF Range
  <2> QED BY <2>1, <2>2
<1>3. ASSUME NEW kind, NEW holds
      PROVE  /\ ContextSignal(a, kind, holds) \in Seq(Range(ContextSignal(a, kind, holds)))
             /\ ~holds => ContextSignal(a, kind, holds) = <<>>
  <2>1. CASE ~holds
    <3>1. ContextSignal(a, kind, holds) = <<>>
      BY <2>1 DEF ContextSignal
    <3> QED BY <3>1
  <2>2. CASE holds
    <3>1. PICK x : ContextSignal(a, kind, holds) = <<x>>
      BY <2>2 DEF ContextSignal
    <3>2. ContextSignal(a, kind, holds) \in Seq(Range(ContextSignal(a, kind, holds)))
      BY <3>1 DEF Range
    <3> QED BY <2>2, <3>2
  <2> QED BY <2>1, <2>2
<1>4. /\ P \in Seq(All) /\ Q \in Seq(All) /\ R \in Seq(All) /\ S \in Seq(All)
      /\ T \in Seq(All) /\ U \in Seq(All)
  <2>1. /\ P \in Seq(Range(P)) /\ Q \in Seq(Range(Q)) /\ R \in Seq(Range(R)) /\ S \in Seq(Range(S))
        /\ T \in Seq(Range(T)) /\ U \in Seq(Range(U))
    BY <1>1, <1>2, <1>3
  <2> HIDE DEF P, Q, R, S, T, U
  <2> QED BY <2>1
<1>5. Signals(a) = P \o Q \o R \o S \o T \o U
  BY DEF Signals
<1>6. Signals(a) \in Seq(All)
  <2> HIDE DEF P, Q, R, S, T, U, All
  <2> QED BY <1>4, <1>5
<1>7. ASSUME AlertsOn(a) = {}, a \notin Intel
      PROVE  Signals(a) = <<>>
  <2>1. P = <<>> /\ Q = <<>> /\ R = <<>> /\ S = <<>>
    BY <1>1, <1>2, <1>7
  <2>2. Seen(a, "protected_asset") = {}
    BY <1>7 DEF Seen, AlertsOn
  <2>3. T = <<>> /\ U = <<>>
    BY <1>3, <1>7, <2>2
  <2> HIDE DEF P, Q, R, S, T, U
  <2> QED BY <1>5, <2>1, <2>3
<1>8. Signals(a) # <<>> => DOMAIN Signals(a) # {}
  <2> HIDE DEF P, Q, R, S, T, U, All
  <2> QED BY <1>6, ListHasFirst
<1> QED BY <1>7, <1>8

\* The signals on an anomaly change only with the alerts on it.
LEMMA SignalsStay ==
  ASSUME NEW a, AlertsOn(a)' = AlertsOn(a)
  PROVE  KeyNow(a)' = KeyNow(a)
<1>1. ASSUME NEW kind
      PROVE  Seen(a, kind)' = Seen(a, kind)
  BY DEF AlertsOn, Seen
<1>2. ASSUME NEW kind
      PROVE  AlertSignals(a, kind)' = AlertSignals(a, kind)
  BY <1>1 DEF AlertSignals, Signal
<1>3. ASSUME NEW kind
      PROVE  CollapsedSignal(a, kind)' = CollapsedSignal(a, kind)
  <2>1. Seen(a, kind)' = Seen(a, kind)
    BY <1>1
  <2> QED BY <2>1 DEF CollapsedSignal, Signal
<1>4. Signals(a)' = Signals(a)
  <2>1. /\ AlertSignals(a, "suricata")' = AlertSignals(a, "suricata")
        /\ AlertSignals(a, "wazuh")' = AlertSignals(a, "wazuh")
    BY <1>2
  <2>2. /\ CollapsedSignal(a, "honeypot")' = CollapsedSignal(a, "honeypot")
        /\ CollapsedSignal(a, "authentication")' = CollapsedSignal(a, "authentication")
    BY <1>3
  <2>3. Seen(a, "protected_asset")' = Seen(a, "protected_asset")
    BY <1>1
  <2> QED BY <2>1, <2>2, <2>3 DEF Signals
<1> QED BY <1>4 DEF KeyNow, KeyOn

\* A verdict that has an identity has that of the evidence of the moment.
LEMMA VerdictKey ==
  ASSUME NEW a \in Anomaly, IsFiniteSet(telemetry), Verdict(a, Signals(a)).id # <<>>
  PROVE  Verdict(a, Signals(a)).id = KeyNow(a) /\ KeyNow(a) # KeyOn(a, {})
<1> DEFINE signals == Signals(a)
           result == Evaluate(Doc, AddressWorld, About[a].policy, About[a].anomaly,
                              signals, About[a].target, now, Key)
           rule == RuleOf(Doc, About[a].policy)
           material == Material(Doc, rule, About[a].anomaly, signals, About[a].target)
<1>1. Verdict(a, signals).id = Identity(result.id)
  <2>1. CASE Unanswerable(a) # "none"
    BY <2>1 DEF Verdict
  <2>2. CASE Unanswerable(a) = "none"
    <3> HIDE DEF result
    <3> QED BY <2>2 DEF Verdict, result
  <2> QED BY <2>1, <2>2
<1>2. result.id # <<>>
  <2> HIDE DEF result
  <2> QED BY <1>1 DEF Identity
<1>3. result.id = material /\ signals # <<>>
  <2> HIDE DEF material
  <2> QED BY <1>2 DEF Evaluate, material
<1>4. Identity(result.id) = [anomaly |-> material.anomaly, signals |-> material.signals]
  <2> HIDE DEF material, result
  <2> QED BY <1>2, <1>3 DEF Identity
<1>5. material.anomaly = About[a].anomaly.event_id /\ material.signals = NormalSignals(signals)
  BY DEF Material
<1>6. Verdict(a, signals).id = KeyNow(a)
  <2> HIDE DEF material, result
  <2> QED BY <1>1, <1>4, <1>5 DEF KeyNow, KeyOn
<1>7. NormalSignals(signals) # {}
  <2>1. DOMAIN signals # {}
    BY <1>3, SignalsList
  <2> HIDE DEF signals
  <2> QED BY <2>1 DEF NormalSignals
<1>8. KeyNow(a) # KeyOn(a, {})
  <2> HIDE DEF signals
  <2>1. KeyNow(a).signals = NormalSignals(signals) /\ KeyOn(a, {}).signals = {}
    BY DEF KeyNow, KeyOn, signals
  <2> QED BY <1>7, <2>1
<1> QED BY <1>6, <1>8

\* One element more counts at most one more.
LEMMA OneMore ==
  ASSUME NEW S, NEW x, IsFiniteSet(S)
  PROVE  /\ IsFiniteSet(S \cup {x})
         /\ Cardinality(S) \in Nat /\ Cardinality(S \cup {x}) \in Nat
         /\ Cardinality(S \cup {x}) <= Cardinality(S) + 1
<1>1. Cardinality(S) \in Nat
  BY FS_CardinalityType
<1>2. /\ IsFiniteSet(S \cup {x})
      /\ Cardinality(S \cup {x}) = IF x \in S THEN Cardinality(S) ELSE Cardinality(S) + 1
  BY FS_AddElement
<1> QED BY <1>1, <1>2

\* What a step can do to the attempts at an anomaly.
AttemptStep ==
  /\ \/ commands' = commands
     \/ /\ hits # <<>> /\ stage = "send" /\ commands' = commands \cup {verdict.id}
        /\ faults' = faults + 1 \/ (hits' = hits /\ stage' = "record")
  /\ \/ UNCHANGED <<hits, stage, verdict>>
     \/ hits' = <<>>
     \/ stage' \notin {"write", "send"}
     \/ stage = "write" /\ UNCHANGED <<hits, verdict>>
     \/ /\ hits # <<>> /\ stage' = "write" /\ hits' = hits /\ verdict'.id = KeyNow(Current)
        /\ KeyNow(Current) # KeyOn(Current, {})
  /\ \/ telemetry' = telemetry
     \/ \E x : /\ x \notin telemetry /\ telemetry' = telemetry \cup {x}
               /\ UNCHANGED <<commands, hits, stage, verdict>>
  /\ \/ anomalies' = anomalies
     \/ \E d : anomalies' = anomalies \cup {d} /\ \A c \in anomalies : c.id # d.id

\* Every step is such a step, without or with a fault.
LEMMA EveryStep ==
  ASSUME Inv, Count, Next \/ UNCHANGED vars
  PROVE  AttemptStep /\ faults' \in {faults, faults + 1}
<1>1. CASE Tick \/ UNCHANGED vars
  BY <1>1 DEF Tick, AttemptStep, vars, worldVars, ledgerVars, passVars
<1>2. CASE \E x \in Alert : Observe(x)
  BY <1>2 DEF Observe, AttemptStep, ledgerVars, passVars
<1>3. CASE \E a \in Anomaly, t \in 0..MaxTicks : Index(a, t * TickLength)
  BY <1>3 DEF Index, AttemptStep, ledgerVars, passVars
<1>4. CASE run_once
  BY <1>4 DEF run_once, AttemptStep, worldVars, ledgerVars
<1>5. CASE Evaluated
  <2>1. /\ hits # <<>> /\ UNCHANGED <<telemetry, anomalies, commands, faults>>
        /\ \/ Verdict(Current, Signals(Current)).id = <<>> /\ stage' = "advance"
           \/ /\ Verdict(Current, Signals(Current)).id # <<>>
              /\ stage' = "write" /\ verdict' = Verdict(Current, Signals(Current)) /\ UNCHANGED hits
    BY <1>5 DEF Evaluated, Record, worldVars
  <2>2. Current \in Anomaly /\ IsFiniteSet(telemetry)
    BY <2>1, PassFacts DEF Inv, Count
  <2>3. Verdict(Current, Signals(Current)).id # <<>> =>
          /\ Verdict(Current, Signals(Current)).id = KeyNow(Current)
          /\ KeyNow(Current) # KeyOn(Current, {})
    BY <2>2, VerdictKey
  <2> QED BY <2>1, <2>3 DEF AttemptStep
<1>6. CASE WriteDecision
  BY <1>6 DEF WriteDecision, AttemptStep, worldVars, ledgerVars
<1>7. CASE Send
  BY <1>7 DEF Send, AttemptStep, worldVars, ledgerVars
<1>8. CASE RecordVerdict
  BY <1>8 DEF RecordVerdict, Record, AttemptStep, worldVars
<1>9. CASE Advance
  BY <1>9 DEF Advance, AttemptStep, worldVars
<1>10. CASE EvidenceFails
  BY <1>10 DEF EvidenceFails, Fault, Break, Record, AttemptStep, worldVars
<1>11. CASE WriteFails
  BY <1>11 DEF WriteFails, Fault, Break, Record, AttemptStep, worldVars
<1>12. CASE SendFails
  BY <1>12 DEF SendFails, Fault, Break, Record, AttemptStep, worldVars
<1>13. CASE Crash
  BY <1>13 DEF Crash, Fault, Break, AttemptStep, worldVars, ledgerVars
<1> QED BY <1>1, <1>2, <1>3, <1>4, <1>5, <1>6, <1>7, <1>8, <1>9, <1>10, <1>11, <1>12, <1>13
        DEF Next, Work, Faulty

\* Without a fault an attempt that is over stays so: the cursor only moves on.
LEMMA ClosedStays ==
  ASSUME Inv, Count, Next \/ UNCHANGED vars, faults' = faults, NEW a \in Anomaly, Closed(a)
  PROVE  Closed(a)'
<1>1. faults \in Nat
  BY DEF Count
<1>2. CASE UNCHANGED vars \/ Tick \/ \E x \in Alert : Observe(x)
  <2>1. UNCHANGED <<anomalies, position, hits, stage>>
    BY <1>2 DEF Tick, Observe, vars, worldVars, ledgerVars, passVars
  <2> QED BY <2>1 DEF Closed, Current, After
<1>3. CASE \E b \in Anomaly, t \in 0..MaxTicks : Index(b, t * TickLength)
  <2>1. anomalies \subseteq anomalies' /\ UNCHANGED <<position, hits, stage>>
    BY <1>3 DEF Index, ledgerVars, passVars
  <2> QED BY <2>1 DEF Closed, Current, After
<1>4. CASE run_once \/ Evaluated \/ WriteDecision \/ Send
  <2>1. /\ UNCHANGED <<anomalies, position>>
        /\ hits = <<>> \/ stage \in {"evaluate", "write", "send"}
    BY <1>4 DEF run_once, Evaluated, WriteDecision, Send, worldVars, ledgerVars
  <2> QED BY <2>1 DEF Closed, After
<1>5. CASE RecordVerdict
  <2>1. UNCHANGED <<anomalies, position, hits>> /\ stage' = "advance"
    BY <1>5 DEF RecordVerdict, Record, worldVars
  <2> QED BY <2>1 DEF Closed, Current, After
<1>6. CASE Advance
  <2> DEFINE h == Head(hits)
  <2>1. /\ hits # <<>> /\ position' = <<h.at, h.id>> /\ anomalies' = anomalies
    BY <1>6 DEF Advance, worldVars
  <2>2. /\ h = hits[1] /\ h \in anomalies /\ 1 \in DOMAIN hits
        /\ anomalies \subseteq [id: Anomaly, at: Nat] /\ position \in Int \X Int
    BY <2>1, PassFacts DEF Inv, DocsOK
  <2>3. After(h, position)
    BY <2>2 DEF Inv, PassOK
  <2>4. \A d \in anomalies : After(d, position)' <=> Precedes(h, d)
    BY <2>1 DEF After, Precedes
  <2>5. CASE \E d \in anomalies : d.id = a /\ ~After(d, position)
    <3>1. PICK d \in anomalies : d.id = a /\ ~After(d, position)
      BY <2>5
    <3>2. ~Precedes(h, d)
      BY <2>2, <2>3, <3>1, Order
    <3> QED BY <2>1, <2>4, <3>1, <3>2 DEF Closed
  <2>6. CASE Current = a
    <3>1. ~Precedes(h, h)
      BY <2>2, Order
    <3> QED BY <2>1, <2>2, <2>4, <2>6, <3>1 DEF Closed, Current
  <2> QED BY <2>5, <2>6 DEF Closed
<1>7. CASE Faulty
  <2>1. faults' = faults + 1
    BY <1>7 DEF Faulty, EvidenceFails, WriteFails, SendFails, Crash, Fault
  <2> QED BY <1>1, <2>1
<1> QED BY <1>2, <1>3, <1>4, <1>5, <1>6, <1>7 DEF Next, Work

\* A command is sent for the current anomaly, of which no attempt is over.
LEMMA SendingIsOpen ==
  ASSUME Inv, Count, hits # <<>>, stage = "send", NEW a \in Anomaly
  PROVE  /\ a = Current => ~Closed(a)
         /\ verdict.id.anomaly = About[a].anomaly.event_id => a = Current
<1>1. /\ Head(hits) = hits[1] /\ 1 \in DOMAIN hits /\ Head(hits) \in anomalies
      /\ Current \in Anomaly /\ Current = Head(hits).id
  BY PassFacts DEF Inv, Current
<1>2. After(Head(hits), position)
  BY <1>1 DEF Inv, PassOK
<1>3. verdict.id.anomaly = About[Current].anomaly.event_id
  BY DEF Inv, VerdictOK
<1>4. verdict.id.anomaly = About[a].anomaly.event_id => a = Current
  BY <1>1, <1>3, RunnerAssumption
<1> QED BY <1>1, <1>2, <1>4 DEF Count, Closed

\* The first bound: a fault for every command but one.
LEMMA AttemptsCounted ==
  ASSUME Inv, Count, Next \/ UNCHANGED vars, NEW a \in Anomaly
  PROVE  Cardinality(Issued(a)') <= faults' + (IF Closed(a)' THEN 1 ELSE 0)
<1>1. AttemptStep /\ faults' \in {faults, faults + 1} /\ faults \in Nat
  BY EveryStep DEF Count
<1>2. /\ IsFiniteSet(Issued(a)) /\ Cardinality(Issued(a)) \in Nat
  <2>1. IsFiniteSet(commands) /\ Issued(a) \subseteq commands
    BY DEF Count, Issued
  <2> QED BY <2>1, FS_Subset, FS_CardinalityType
<1>3. Cardinality(Issued(a)) <= faults + (IF Closed(a) THEN 1 ELSE 0)
  BY DEF Count, CountOf
<1>4. CASE Issued(a)' = Issued(a)
  <2>1. faults' = faults /\ Closed(a) => Closed(a)'
    BY ClosedStays
  <2> QED BY <1>1, <1>2, <1>3, <1>4, <2>1
<1>5. CASE Issued(a)' # Issued(a)
  <2>1. hits # <<>> /\ stage = "send" /\ commands' = commands \cup {verdict.id}
        /\ (faults' = faults + 1 \/ (hits' = hits /\ stage' = "record"))
    BY <1>1, <1>5 DEF AttemptStep, Issued
  <2>2. verdict.id.anomaly = About[a].anomaly.event_id
    BY <1>5, <2>1 DEF Issued
  <2>3. a = Current /\ ~Closed(a)
    BY <2>1, <2>2, SendingIsOpen
  <2>4. Issued(a)' = Issued(a) \cup {verdict.id}
    BY <2>1, <2>2 DEF Issued
  <2>5. Cardinality(Issued(a)') \in Nat /\ Cardinality(Issued(a)') <= Cardinality(Issued(a)) + 1
    BY <1>2, <2>4, OneMore
  <2>6. hits' = hits /\ stage' = "record" => Closed(a)'
    BY <2>1, <2>3 DEF Closed, Current
  <2> QED BY <1>1, <1>2, <1>3, <2>1, <2>3, <2>5, <2>6
<1> QED BY <1>4, <1>5

\* The second bound: an alert for every key.
LEMMA KeysCounted ==
  ASSUME Inv, Count, Next \/ UNCHANGED vars, NEW a \in Anomaly
  PROVE  /\ KeyOn(a, {})' \notin Issued(a)' \cup InHand(a)'
         /\ Cardinality(Keys(a)') <= Cardinality(AlertsOn(a)') + Spare(a)
<1>1. AttemptStep
  BY EveryStep
<1>2. KeyOn(a, {})' = KeyOn(a, {}) /\ KeyOn(a, {}) \notin Issued(a) \cup InHand(a)
  BY DEF Count, CountOf, KeyOn
<1>3. Issued(a)' \subseteq Issued(a) \cup InHand(a)
  <2>1. ASSUME hits # <<>>, stage = "send", commands' = commands \cup {verdict.id}
        PROVE  Issued(a)' \subseteq Issued(a) \cup InHand(a)
    <3>1. verdict.id.anomaly = About[a].anomaly.event_id => a = Current
      BY <2>1, SendingIsOpen
    <3> QED BY <2>1, <3>1 DEF Issued, InHand
  <2> QED BY <1>1, <2>1 DEF AttemptStep, Issued
<1>4. InHand(a)' \subseteq InHand(a) \cup ({KeyNow(a)} \ {KeyOn(a, {})})
  <2>1. CASE hits' = hits
    <3>1. Current' = Current
      BY <2>1 DEF Current
    <3> QED BY <1>1, <2>1, <3>1 DEF AttemptStep, InHand
  <2>2. CASE hits' # hits
    BY <1>1, <2>2 DEF AttemptStep, InHand
  <2> QED BY <2>1, <2>2
<1>5. KeyOn(a, {})' \notin Issued(a)' \cup InHand(a)'
  BY <1>2, <1>3, <1>4
<1>6. /\ IsFiniteSet(Keys(a)) /\ Cardinality(Keys(a)) \in Nat
      /\ IsFiniteSet(AlertsOn(a)) /\ Cardinality(AlertsOn(a)) \in Nat
  <2>1. IsFiniteSet(commands) /\ Issued(a) \subseteq commands
        /\ IsFiniteSet(telemetry) /\ AlertsOn(a) \subseteq telemetry
    BY DEF Count, Issued, AlertsOn
  <2>2. IsFiniteSet(Issued(a)) /\ IsFiniteSet(AlertsOn(a))
    BY <2>1, FS_Subset
  <2>3. IsFiniteSet(InHand(a))
    BY FS_EmptySet, FS_Singleton DEF InHand
  <2>4. IsFiniteSet(Issued(a) \cup InHand(a) \cup {KeyNow(a)})
    BY <2>2, <2>3, FS_Union, FS_AddElement
  <2>5. IsFiniteSet(Keys(a))
    BY <2>4, FS_RemoveElement DEF Keys
  <2> QED BY <2>2, <2>5, FS_CardinalityType
<1>7. Cardinality(Keys(a)) <= Cardinality(AlertsOn(a)) + Spare(a) /\ Spare(a) \in {0, 1}
  BY DEF Count, CountOf, Spare
<1>8. CASE AlertsOn(a)' = AlertsOn(a)
  <2>1. KeyNow(a)' = KeyNow(a)
    BY <1>8, SignalsStay
  <2>2. Keys(a)' \subseteq Keys(a)
    BY <1>2, <1>3, <1>4, <2>1 DEF Keys
  <2>3. Cardinality(Keys(a)') <= Cardinality(Keys(a)) /\ Cardinality(Keys(a)') \in Nat
    BY <1>6, <2>2, FS_Subset, FS_CardinalityType
  <2> QED BY <1>5, <1>6, <1>7, <1>8, <2>3
<1>9. CASE AlertsOn(a)' # AlertsOn(a)
  <2>1. PICK x : /\ x \notin telemetry /\ telemetry' = telemetry \cup {x}
                 /\ UNCHANGED <<commands, hits, stage, verdict>>
    BY <1>1, <1>9 DEF AttemptStep, AlertsOn
  <2>2. AlertsOn(a)' = AlertsOn(a) \cup {x} /\ x \notin AlertsOn(a)
    BY <1>9, <2>1 DEF AlertsOn
  <2>3. Cardinality(AlertsOn(a)') = Cardinality(AlertsOn(a)) + 1
    BY <1>6, <2>2, FS_AddElement
  <2>4. Issued(a)' = Issued(a) /\ InHand(a)' = InHand(a)
    BY <2>1 DEF Issued, InHand, Current
  <2>5. Keys(a)' \subseteq Keys(a) \cup {KeyNow(a)'}
    BY <1>2, <2>4 DEF Keys
  <2>6. /\ Cardinality(Keys(a) \cup {KeyNow(a)'}) <= Cardinality(Keys(a)) + 1
        /\ IsFiniteSet(Keys(a) \cup {KeyNow(a)'})
        /\ Cardinality(Keys(a) \cup {KeyNow(a)'}) \in Nat
    BY <1>6, OneMore
  <2>7. /\ Cardinality(Keys(a)') <= Cardinality(Keys(a) \cup {KeyNow(a)'})
        /\ Cardinality(Keys(a)') \in Nat
    BY <2>5, <2>6, FS_Subset, FS_CardinalityType
  <2> QED BY <1>5, <1>6, <1>7, <2>3, <2>6, <2>7
<1> QED BY <1>8, <1>9

\* Every step keeps the counts.
LEMMA NextKeepsCount ==
  ASSUME Inv, Count, Next \/ UNCHANGED vars
  PROVE  Count'
<1>1. AttemptStep /\ faults' \in {faults, faults + 1}
  BY EveryStep
<1>2. faults' \in Nat /\ IsFiniteSet(commands)' /\ IsFiniteSet(telemetry)'
  <2>1. faults \in Nat /\ IsFiniteSet(commands) /\ IsFiniteSet(telemetry)
    BY DEF Count
  <2>2. /\ commands' = commands \/ commands' = commands \cup {verdict.id}
        /\ telemetry' = telemetry \/ \E x : telemetry' = telemetry \cup {x}
    BY <1>1 DEF AttemptStep
  <2> QED BY <1>1, <2>1, <2>2, FS_AddElement
<1>3. \A c, d \in anomalies' : c.id = d.id => c = d
  BY <1>1 DEF Count, AttemptStep
<1>4. ASSUME NEW a \in Anomaly
      PROVE  CountOf(a)'
  <2>1. Spare(a)' = Spare(a)
    BY DEF Spare
  <2> QED BY <2>1, AttemptsCounted, KeysCounted DEF CountOf
<1> QED BY <1>2, <1>3, <1>4 DEF Count

\* No commands and no alerts at first.
LEMMA InitEstablishesCount ==
  ASSUME Init
  PROVE  Count
<1>1. /\ anomalies = {} /\ telemetry = {} /\ hits = <<>> /\ commands = {} /\ faults = 0
  BY DEF Init, InitRunner
<1>2. IsFiniteSet(commands) /\ IsFiniteSet(telemetry)
  BY <1>1, FS_EmptySet
<1>3. ASSUME NEW a \in Anomaly
      PROVE  CountOf(a)
  <2>1. Issued(a) = {} /\ InHand(a) = {} /\ AlertsOn(a) = {}
    BY <1>1 DEF Issued, InHand, AlertsOn
  <2>2. Keys(a) \subseteq {KeyNow(a)}
    BY <2>1 DEF Keys
  <2>3. a \notin Intel => Keys(a) = {}
    <3>1. a \notin Intel => Signals(a) = <<>>
      BY <1>2, <2>1, SignalsList
    <3>2. NormalSignals(<<>>) = {}
      BY DEF NormalSignals
    <3> QED BY <2>2, <3>1, <3>2 DEF Keys, KeyNow
  <2>4. Cardinality(Keys(a)) <= Cardinality(AlertsOn(a)) + Spare(a)
    <3>1. Cardinality(AlertsOn(a)) = 0
      BY <2>1, FS_EmptySet
    <3>2. CASE a \in Intel
      <4>1. IsFiniteSet({KeyNow(a)}) /\ Cardinality({KeyNow(a)}) = 1
        BY FS_Singleton
      <4>2. Cardinality(Keys(a)) <= 1
        BY <2>2, <4>1, FS_Subset
      <4> QED BY <3>1, <3>2, <4>2 DEF Spare
    <3>3. CASE a \notin Intel
      <4>1. Cardinality(Keys(a)) = 0
        BY <2>3, <3>3, FS_EmptySet
      <4> QED BY <3>1, <3>3, <4>1 DEF Spare
    <3> QED BY <3>2, <3>3
  <2>5. Cardinality(Issued(a)) <= faults + (IF Closed(a) THEN 1 ELSE 0)
    BY <1>1, <2>1, FS_EmptySet
  <2> QED BY <2>1, <2>4, <2>5 DEF CountOf
<1> QED BY <1>1, <1>2, <1>3 DEF Count

\* However often an anomaly is tried, it leads to one command more than there
\* were faults, and to one for each state of the evidence at the most.
THEOREM CommandsBounded == Spec => []CommandsPerAnomaly
<1>1. Inv /\ Count /\ [Next]_vars => Count'
  BY NextKeepsCount
<1>2. Init => Count
  BY InitEstablishesCount
<1>3. ASSUME Count
      PROVE  CommandsPerAnomaly
  <2>1. SUFFICES ASSUME NEW a \in Anomaly
                 PROVE  /\ Cardinality(Issued(a)) <= 1 + faults
                        /\ Cardinality(Issued(a)) <= Cardinality(AlertsOn(a)) + Spare(a)
    BY DEF CommandsPerAnomaly, Issued, AlertsOn, Spare
  <2>2. /\ IsFiniteSet(commands) /\ Issued(a) \subseteq commands /\ faults \in Nat
        /\ IsFiniteSet(telemetry) /\ AlertsOn(a) \subseteq telemetry
    BY <1>3 DEF Count, Issued, AlertsOn
  <2>3. /\ IsFiniteSet(Issued(a)) /\ Cardinality(Issued(a)) \in Nat
        /\ IsFiniteSet(AlertsOn(a)) /\ Cardinality(AlertsOn(a)) \in Nat
    BY <2>2, FS_Subset, FS_CardinalityType
  <2>4. Cardinality(Issued(a)) <= faults + (IF Closed(a) THEN 1 ELSE 0)
    BY <1>3 DEF Count, CountOf
  <2>5. Issued(a) \subseteq Keys(a)
    BY <1>3 DEF Count, CountOf, Keys
  <2>6. IsFiniteSet(Keys(a))
    <3>1. IsFiniteSet(InHand(a))
      BY FS_EmptySet, FS_Singleton DEF InHand
    <3>2. IsFiniteSet(Issued(a) \cup InHand(a) \cup {KeyNow(a)})
      BY <2>3, <3>1, FS_Union, FS_AddElement
    <3> QED BY <3>2, FS_RemoveElement DEF Keys
  <2>7. Cardinality(Issued(a)) <= Cardinality(Keys(a)) /\ Cardinality(Keys(a)) \in Nat
    BY <2>5, <2>6, FS_Subset, FS_CardinalityType
  <2>8. Cardinality(Keys(a)) <= Cardinality(AlertsOn(a)) + Spare(a) /\ Spare(a) \in {0, 1}
    BY <1>3 DEF Count, CountOf, Spare
  <2> QED BY <2>2, <2>3, <2>4, <2>7, <2>8
<1> QED BY <1>1, <1>2, <1>3, Invariance, PTL DEF Spec
=============================================================================
