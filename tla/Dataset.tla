------------------------------- MODULE Dataset -------------------------------
(***************************************************************************)
(* The dataset of ai/training: a capture of normalized events and the      *)
(* attack scenarios that were run become three temporal partitions with    *)
(* labels and a membership ledger (build_dataset.py), which training       *)
(* validates before it reads a vector (partitions.py, pipeline.py,         *)
(* ai/evaluation/labels.py).                                               *)
(*                                                                         *)
(* Times are minutes from a midnight.  Scenarios are a sequence of records *)
(* in the order of their file.  The digest of a file is the file.          *)
(***************************************************************************)
EXTENDS Evaluation

PARTITIONS == {"train", "validation", "test"}
Place(name) == CASE name = "train" -> 1 [] name = "validation" -> 2 [] name = "test" -> 3

Day(t) == t \div 1440

\* load_scenarios.
load_scenarios(scenarios) ==
  /\ \A i \in DOMAIN scenarios : scenarios[i].start < scenarios[i].end
  /\ \A i, j \in DOMAIN scenarios : scenarios[i].id = scenarios[j].id => i = j

\* _session: the first scenario of the file that covers the event, its last
\* instant included, else the day of the entity.
_session(schema, e, scenarios) ==
  LET entity == EntityOf(schema, e)
      hits == {i \in DOMAIN scenarios : /\ scenarios[i].entity = entity
                                        /\ scenarios[i].start <= e.at /\ e.at <= scenarios[i].end}
  IN  IF hits # {} THEN <<"scenario", scenarios[Min(hits)].id>> ELSE <<"entity-day", entity, Day(e.at)>>

\* Mutant: the scenario must have begun before the window does.
_attack_scenarioLate(vector, scenarios) ==
  {scenarios[i] : i \in {i \in DOMAIN scenarios :
     /\ scenarios[i].entity = vector.entity
     /\ scenarios[i].start <= vector.window_start /\ vector.window_start < scenarios[i].end}}

\* _attack_scenario: of the scenarios that overlap the window the one that
\* starts first, the first in the file of several.
_attack_scenario(vector, scenarios) ==
  LET hits == {i \in DOMAIN scenarios : /\ scenarios[i].entity = vector.entity
                                        /\ vector.window_start < scenarios[i].end
                                        /\ vector.window_end > scenarios[i].start}
      first == {i \in hits : \A j \in hits : scenarios[i].start <= scenarios[j].start}
  IN  {scenarios[i] : i \in {i \in first : \A j \in first : i <= j}}
-----------------------------------------------------------------------------
(* Building.                                                               *)

BoundariesValid(boundaries) ==
  /\ Len(boundaries) = 4
  /\ \A i \in DOMAIN boundaries : boundaries[i] % WINDOW = 0
  /\ \A i \in 1 .. 3 : boundaries[i] < boundaries[i + 1]

PartitionOf(boundaries, t) ==
  CHOOSE name \in PARTITIONS :
    boundaries[Place(name)] <= t /\ t < boundaries[Place(name) + 1]

FloorWindow(t) == t - (t % WINDOW)

\* A vector with its members, as build files it.
Row(schema, vector, events, scenarios, boundaries) ==
  LET mine == Restrict(events, {i \in DOMAIN events : EntityOf(schema, events[i]) = vector.entity})
  IN  [vector |-> vector, partition |-> PartitionOf(boundaries, vector.window_start),
       attack |-> _attack_scenario(vector, scenarios),
       ids |-> [i \in DOMAIN mine |-> mine[i].id],
       sessions |-> {_session(schema, mine[i], scenarios) : i \in DOMAIN mine}]

Dropped(row) == row.partition = "train" /\ row.attack # {}

\* Mutant: only the rows that are kept can straddle a boundary.
StraddlesKept(rows) ==
  \E r, q \in {r \in rows : ~Dropped(r)} :
    r.attack # {} /\ r.attack = q.attack /\ r.partition # q.partition

Straddles(rows) ==
  \E r, q \in rows : r.attack # {} /\ r.attack = q.attack /\ r.partition # q.partition

\* The events of the capture that lie within the boundaries, by window.
Inside(events, boundaries) ==
  {i \in DOMAIN events : boundaries[1] <= events[i].at /\ events[i].at < boundaries[4]}
by_window(events, boundaries, t) ==
  Restrict(events, {i \in Inside(events, boundaries) : FloorWindow(events[i].at) = t})
WindowStarts(events, boundaries) == {FloorWindow(events[i].at) : i \in Inside(events, boundaries)}

\* One row for every vector of every window, kept or not.
AllRows(schema, events, scenarios, boundaries, baseline) ==
  UNION {LET own == by_window(events, boundaries, t)
         IN  {Row(schema, v, own, scenarios, boundaries) : v \in UNION Vectors(schema, own, t, {}, baseline)} :
           t \in WindowStarts(events, boundaries)}

\* build: the rows of the dataset.  A window the feature engine refuses, ids
\* that do not reproduce the hash of a vector, a scenario in two partitions, an
\* empty partition or one without both kinds of rows refuses the whole capture.
build(schema, events, scenarios, boundaries, baseline) ==
  LET rows == AllRows(schema, events, scenarios, boundaries, baseline)
      kept == {r \in rows : ~Dropped(r)}
  IN  IF /\ BoundariesValid(boundaries) /\ load_scenarios(scenarios)
         /\ \A t \in WindowStarts(events, boundaries) :
              ~Refused(schema, by_window(events, boundaries, t), t)
         /\ \A r \in kept : IsInjective(r.ids)
         /\ ~Straddles(rows)
         /\ \A name \in PARTITIONS : \E r \in kept : r.partition = name
         /\ \A name \in {"validation", "test"} :
              {r.attack # {} : r \in {r \in kept : r.partition = name}} = BOOLEAN
      THEN {kept} ELSE {}

\* write_dataset: the files of a dataset.
write_dataset(schema, rows, boundaries) ==
  LET of(name) == {r \in rows : r.partition = name}
      vectors(name) == {r.vector : r \in of(name)}
      ledger == [name \in PARTITIONS |->
                   [vectors |-> vectors(name),
                    members |-> {[vector |-> r.vector, ids |-> ToSet(r.ids),
                                  sessions |-> r.sessions] : r \in of(name)}]]
      labels == {[vector |-> r.vector, label |-> IF r.attack # {} THEN 1 ELSE 0,
                  scenario |-> r.attack] : r \in rows}
  IN  [vectors |-> [name \in PARTITIONS |-> vectors(name)], ledger |-> ledger, labels |-> labels,
       manifest |->
         [schema |-> schema, range |-> <<boundaries[1], boundaries[4]>>, ledger |-> ledger,
          labels |-> labels,
          split |-> [name \in PARTITIONS |->
                       [start |-> boundaries[Place(name)], end |-> boundaries[Place(name) + 1],
                        count |-> Cardinality(vectors(name)),
                        sessions |-> UNION {r.sessions : r \in of(name)}]]]]
-----------------------------------------------------------------------------
(* Loading.                                                                *)

\* validate_vector.
validate_vector(vector) ==
  /\ require_exact_features(vector.schema, vector.features)
  /\ vector.window_end - vector.window_start = WINDOW

MemberOf(files, name, vector) ==
  CHOOSE m \in files.ledger[name].members : m.vector = vector

\* The rows of one partition against its bounds and its ledger.
PartitionValid(files, name) ==
  LET bounds == files.manifest.split[name]
      rows == files.vectors[name]
      members == files.ledger[name].members
  IN  /\ files.manifest.range[1] <= bounds.start /\ bounds.start < bounds.end
      /\ bounds.end <= files.manifest.range[2]
      /\ rows = files.ledger[name].vectors
      /\ Cardinality(rows) = bounds.count /\ Cardinality(rows) = Cardinality(members)
      /\ \A v \in rows :
           /\ validate_vector(v) /\ v.schema = files.manifest.schema
           /\ bounds.start <= v.window_start /\ v.window_end <= bounds.end
           /\ \E m \in members : m.vector = v
           /\ LET m == MemberOf(files, name, v)
              IN m.ids # {} /\ m.sessions # {} /\ m.ids = v.id[4]
      /\ \A v, w \in rows :
           (v.entity = w.entity /\ v.window_start = w.window_start) => v = w
      /\ UNION {m.sessions : m \in members} = bounds.sessions

\* Mutant: only the source events are kept apart.
IsolatedEvents(files) ==
  \A p, q \in PARTITIONS : p # q =>
    \A m \in files.ledger[p].members, n \in files.ledger[q].members : m.ids \cap n.ids = {}

\* No source event and no session has two owners.
Isolated(files) ==
  \A p, q \in PARTITIONS : p # q =>
    \A m \in files.ledger[p].members, n \in files.ledger[q].members :
      m.ids \cap n.ids = {} /\ m.sessions \cap n.sessions = {}

\* validate_partitions: the manifest binds the ledger, and the ledger the files
\* of the vectors.
validate_partitions(files) ==
  /\ files.ledger = files.manifest.ledger
  /\ files.manifest.split["train"].end <= files.manifest.split["validation"].start
  /\ files.manifest.split["validation"].end <= files.manifest.split["test"].start
  /\ \A name \in PARTITIONS : PartitionValid(files, name)
  /\ Isolated(files)

\* Mutant: the file of the labels is not compared with the manifest.
load_labelsUnbound(files) ==
  /\ \A l \in files.labels : (l.label = 1) <=> (l.scenario # {})
  /\ \A l, k \in files.labels : l.vector = k.vector => l = k

\* load_labels: at most one label for a vector; a benign one names no scenario.
load_labels(files) ==
  /\ files.labels = files.manifest.labels
  /\ \A l \in files.labels : (l.label = 1) <=> (l.scenario # {})
  /\ \A l, k \in files.labels : l.vector = k.vector => l = k

\* labels_for: a vector without a label is an error.
labels_for(files, name) ==
  {l.label : l \in {l \in files.labels : l.vector \in files.vectors[name]}}
Labelled(files, name) ==
  \A v \in files.vectors[name] : \E l \in files.labels : l.vector = v

\* load_dataset.
load_dataset(files, schema) ==
  /\ files.manifest.schema = schema
  /\ \A name \in PARTITIONS : files.vectors[name] # {}
  /\ validate_partitions(files)
  /\ load_labels(files)
  /\ \A name \in PARTITIONS : Labelled(files, name)
  /\ labels_for(files, "train") = {0}
  /\ \A name \in {"validation", "test"} : labels_for(files, name) = {0, 1}
=============================================================================
