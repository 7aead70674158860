------------------------------ MODULE Features ------------------------------
(***************************************************************************)
(* The feature engine of ai/features: the vectors of one window, their     *)
(* closed contracts, and the history a sequence model is given, both as    *)
(* training builds it (sequences.py) and as the enrichment worker fetches  *)
(* it (soc/workers/enrichment.py).                                         *)
(*                                                                         *)
(* Times are minutes.  An event is a record of what the engine reads of    *)
(* it; texts are the sets of the words the engine looks for.  A digest is  *)
(* the value it is the digest of.                                          *)
(***************************************************************************)
EXTENDS Integers, Sequences, FiniteSets, SequencesExt

WINDOW == 5

\* An absent entity, destination, port or name.  An optional value of another
\* kind is the empty set or the set of the value.
Missing == "missing"

NETWORK == "network-window-v1"
ENDPOINT == "endpoint-window-v1"

NETWORK_FEATURES ==
  {"connection_count", "unique_dst_ip", "unique_dst_port", "bytes_out", "bytes_in",
   "blocked_ratio", "dns_query_count", "unique_domain_count", "tls_count",
   "suricata_alert_count", "failed_auth_count"}
ENDPOINT_FEATURES ==
  {"process_count", "rare_process_count", "powershell_count", "failed_login_count",
   "fim_change_count", "account_change_count", "privilege_change_count"}

expected_feature_names(schema) == IF schema = NETWORK THEN NETWORK_FEATURES ELSE ENDPOINT_FEATURES

\* A ratio is the pair of its parts.
InUnit(ratio) == ratio[1] >= 0 /\ ratio[2] >= 1 /\ ratio[1] <= ratio[2]

\* require_exact_features: exactly the names of the contract, no negative value.
require_exact_features(schema, features) ==
  /\ DOMAIN features = expected_feature_names(schema)
  /\ \A n \in DOMAIN features :
       IF n = "blocked_ratio" THEN InUnit(features[n]) ELSE features[n] >= 0
-----------------------------------------------------------------------------
(* The events of a window.                                                 *)

\* Mutant: the window is closed at both ends.
InWindowClosed(e, start) == start <= e.at /\ e.at <= start + WINDOW

InWindow(e, start) == start <= e.at /\ e.at < start + WINDOW

\* The places of the events of a window in the input.
Places(events, start) == {i \in DOMAIN events : InWindow(events[i], start)}

\* Mutant: an event takes the place of another one with its id.
ConflictingNever(events, start) == FALSE

\* Two events of the window have one id and differ; an identical copy is the
\* same event.
Conflicting(events, start) ==
  \E i, j \in Places(events, start) : events[i].id = events[j].id /\ events[i] # events[j]

\* _validate_and_select: the last event of every id of the window.
_validate_and_select(events, start) ==
  {events[i] : i \in {i \in Places(events, start) :
                        \A j \in Places(events, start) : events[j].id = events[i].id => j <= i}}

EntityOf(schema, e) == IF schema = NETWORK THEN e.src ELSE e.host

\* Telemetry that is not normalized, wherever it lies in time.
Raw(events) == \E i \in DOMAIN events : events[i].dataset = "raw"

\* What refuses an input: such telemetry, contradictory events, and an address
\* that is none in the window.
Refused(schema, events, start) ==
  \/ Raw(events) \/ Conflicting(events, start)
  \/ schema = NETWORK /\ \E e \in _validate_and_select(events, start) : e.src = "invalid"
-----------------------------------------------------------------------------
(* The features.                                                           *)

Count(S, Test(_)) == Cardinality({e \in S : Test(e)})
Distinct(S, Value(_)) == Cardinality({Value(e) : e \in S} \ {Missing})

\* The sum of the values, none of them negative: every event counts once for
\* each unit of its value.
Total(S, Value(_)) == Cardinality(UNION {{<<e, n>> : n \in 1 .. Value(e)} : e \in S})

Suricata(e, type) == e.dataset = "suricata.eve" /\ e.type = type

\* Mutant: every Suricata record is a connection.
ConnectionAny(e) == e.dataset \in {"firewall.syslog", "suricata.eve"}

\* _is_connection_record.
Connection(e) == e.dataset = "firewall.syslog" \/ Suricata(e, "flow")

\* _event_bytes and _numeric.
NonNegative(n) == IF n < 0 THEN 0 ELSE n
BytesOut(e) == NonNegative(e.sent)
BytesIn(e) == IF Suricata(e, "flow") THEN NonNegative(e.received) ELSE 0

FailedAuth(e) == "authentication" \in e.categories /\ e.outcome = "failure"

_network_features(E) ==
  LET connections == {e \in E : Connection(e)}
      n == Cardinality(connections)
      queries == {e \in E : Suricata(e, "dns") /\ e.query}
  IN  [connection_count |-> n,
       unique_dst_ip |-> Distinct(connections, LAMBDA e : e.dst),
       unique_dst_port |-> Distinct(connections, LAMBDA e : e.port),
       bytes_out |-> Total(connections, BytesOut),
       bytes_in |-> Total(connections, BytesIn),
       blocked_ratio |-> IF n = 0 THEN <<0, 1>>
                         ELSE <<Count(connections, LAMBDA e : e.blocked), n>>,
       dns_query_count |-> Cardinality(queries),
       unique_domain_count |-> Distinct(queries, LAMBDA e : e.domain),
       tls_count |-> Count(E, LAMBDA e : Suricata(e, "tls")),
       suricata_alert_count |->
         Count(E, LAMBDA e : Suricata(e, "alert") \/ (e.dataset = "suricata.eve" /\ e.alert)),
       failed_auth_count |-> Count(E, FailedAuth)]

\* A name is rare when it is listed as such, or when there is a baseline that
\* does not hold it (baseline is optional).
Rare(name, rare, baseline) ==
  name # Missing /\ (name \in rare \/ \E known \in baseline : name \notin known)

_endpoint_features(E, rare, baseline) ==
  LET processes == {e \in E : "process" \in e.categories}
  IN  [process_count |-> Cardinality(processes),
       rare_process_count |-> Count(processes, LAMBDA e : Rare(e.process, rare, baseline)),
       powershell_count |-> Count(processes, LAMBDA e : "powershell" \in e.text),
       failed_login_count |-> Count(E, FailedAuth),
       fim_change_count |-> Count(E, LAMBDA e : "file" \in e.categories),
       account_change_count |-> Count(E, LAMBDA e : "account" \in e.text),
       privilege_change_count |-> Count(E, LAMBDA e : "privilege" \in e.text)]

\* _vector_id: what identifies a vector.
VectorOf(schema, entity, start, E, features) ==
  [id |-> <<schema, entity, start, {e.id : e \in E}>>, schema |-> schema, entity |-> entity,
   window_start |-> start, window_end |-> start + WINDOW,
   count |-> Cardinality(E), features |-> features]

\* build_network_vectors and build_endpoint_vectors: one vector for every
\* entity of the window, unless the input is refused.
Vectors(schema, events, start, rare, baseline) ==
  IF Refused(schema, events, start) THEN {}
  ELSE LET selected == _validate_and_select(events, start)
           entities == {EntityOf(schema, e) : e \in selected} \ {Missing}
           own(n) == {e \in selected : EntityOf(schema, e) = n}
       IN  {{VectorOf(schema, n, start, own(n),
                      IF schema = NETWORK THEN _network_features(own(n))
                      ELSE _endpoint_features(own(n), rare, baseline)) : n \in entities}}
-----------------------------------------------------------------------------
(* Sequences.                                                              *)

\* history_window_ends: the windows before, oldest first.
history_window_ends(end, length) == [i \in 1 .. length - 1 |-> end - WINDOW * (length - i)]

\* entity_history over the vectors of a partition; the last of two vectors of
\* one entity and window is the one the index keeps.
entity_history(vector, vectors, length) ==
  LET ends == history_window_ends(vector.window_end, length)
      at(t) == {i \in DOMAIN vectors : vectors[i].entity = vector.entity
                                       /\ vectors[i].window_end = t}
  IN  [i \in DOMAIN ends |->
         {vectors[k].features : k \in IF at(ends[i]) = {} THEN {} ELSE {Max(at(ends[i]))}}]

\* The first n places of a set of places.
FirstOf(n, S) == {i \in S : Cardinality({j \in S : j <= i}) <= n}

\* Mutant: the search returns the windows of any entity.
FetchedOfAnyone(vector, vectors, length) ==
  LET ends == history_window_ends(vector.window_end, length)
      page == FirstOf(Len(ends), {i \in DOMAIN vectors : vectors[i].window_end \in ToSet(ends)})
      at(t) == {i \in page : vectors[i].window_end = t}
  IN  [i \in DOMAIN ends |->
         {vectors[k].features : k \in IF at(ends[i]) = {} THEN {} ELSE {Max(at(ends[i]))}}]

\* make_history_fetcher: the search returns at most as many vectors as there
\* are windows.
Fetched(vector, vectors, length) ==
  LET ends == history_window_ends(vector.window_end, length)
      hits == {i \in DOMAIN vectors : /\ vectors[i].schema = vector.schema
                                      /\ vectors[i].entity = vector.entity
                                      /\ vectors[i].window_end \in ToSet(ends)}
      page == FirstOf(Len(ends), hits)
      at(t) == {i \in page : vectors[i].window_end = t}
  IN  [i \in DOMAIN ends |->
         {vectors[k].features : k \in IF at(ends[i]) = {} THEN {} ELSE {Max(at(ends[i]))}}]

NoEvents(schema) ==
  [n \in expected_feature_names(schema) |-> IF n = "blocked_ratio" THEN <<0, 1>> ELSE 0]

\* sequence_matrix: a window without events is a row of zeros.
sequence_matrix(schema, history, features) ==
  Append([i \in DOMAIN history |->
            IF history[i] = {} THEN NoEvents(schema) ELSE CHOOSE f \in history[i] : TRUE], features)
=============================================================================
