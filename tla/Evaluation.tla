----------------------------- MODULE Evaluation -----------------------------
(***************************************************************************)
(* The evaluation of detectors in ai/evaluation: static rules, a model and *)
(* their hybrid, the threshold chosen on the validation partition, and the *)
(* metrics on the test partition.                                          *)
(*                                                                         *)
(* A score is a whole number between 0 and One; models score even numbers, *)
(* so that the smallest step above a score, Epsilon, is below the next     *)
(* one.  A quotient is the pair of its parts.  A model is its sequence     *)
(* length and the function from matrices to scores.  A partition is a      *)
(* sequence of rows, each a vector with its label.                         *)
(***************************************************************************)
EXTENDS Features

One == 4
Epsilon == 1

\* An evaluation that is refused.
NoThreshold == -1
NoScenario == "none"

AtLeastRatio(p, q) == p[1] * q[2] >= q[1] * p[2]
-----------------------------------------------------------------------------
(* Detectors.                                                              *)

Limits(schema) ==
  IF schema = NETWORK THEN [suricata_alert_count |-> 1, failed_auth_count |-> 20]
  ELSE [powershell_count |-> 1, privilege_change_count |-> 1, account_change_count |-> 1]

\* StaticRuleSet.fires; the second disjunct is the scan signature.
fires(vector) ==
  \/ \E n \in DOMAIN Limits(vector.schema) : vector.features[n] >= Limits(vector.schema)[n]
  \/ /\ vector.schema = NETWORK
     /\ vector.features.connection_count >= 10
     /\ AtLeastRatio(vector.features.blocked_ratio, <<1, 2>>)
     /\ vector.features.unique_dst_port >= 3

StaticScore(vector) == IF fires(vector) THEN One ELSE 0

\* ModelDetector.score: a sequence model is given the history of the entity.
ModelScore(model, vector, history) ==
  model.score[IF model.length > 1 THEN sequence_matrix(vector.schema, history, vector.features)
              ELSE <<vector.features>>]

\* Mutant: the hybrid is the mean of its parts.
scoreMean(detector, vector, history) ==
  CASE detector.kind = "static" -> StaticScore(vector)
    [] detector.kind = "model" -> ModelScore(detector.model, vector, history)
    [] detector.kind = "hybrid" ->
         (StaticScore(vector) + ModelScore(detector.model, vector, history)) \div 2

\* Detector.score; HybridDetector takes the higher of the two.
score(detector, vector, history) ==
  CASE detector.kind = "static" -> StaticScore(vector)
    [] detector.kind = "model" -> ModelScore(detector.model, vector, history)
    [] detector.kind = "hybrid" ->
         Max({StaticScore(vector), ModelScore(detector.model, vector, history)})

\* build_detectors, for one model.
build_detectors(model) ==
  <<[kind |-> "static", model |-> model], [kind |-> "model", model |-> model],
    [kind |-> "hybrid", model |-> model]>>

\* score_partition: history comes from the rows of the same partition.
score_partition(detector, rows) ==
  LET vectors == [i \in DOMAIN rows |-> rows[i].vector]
      past(v) == IF detector.kind # "static" /\ detector.model.length > 1
                 THEN entity_history(v, vectors, detector.model.length) ELSE <<>>
  IN  [i \in DOMAIN rows |-> score(detector, vectors[i], past(vectors[i]))]
-----------------------------------------------------------------------------
(* The threshold.                                                          *)

Firing(scores, threshold) == {i \in DOMAIN scores : scores[i] >= threshold}
Attacks(rows) == {i \in DOMAIN rows : rows[i].attack}

\* Confusion counts at a threshold: true and false positives, false negatives.
TP(rows, scores, t) == Cardinality(Firing(scores, t) \cap Attacks(rows))
FP(rows, scores, t) == Cardinality(Firing(scores, t) \ Attacks(rows))
FN(rows, scores, t) == Cardinality(Attacks(rows) \ Firing(scores, t))

\* _f1, as a quotient.
_f1(rows, scores, t) ==
  LET tp == TP(rows, scores, t)
      denominator == 2 * tp + FP(rows, scores, t) + FN(rows, scores, t)
  IN  IF denominator = 0 THEN <<0, 1>> ELSE <<2 * tp, denominator>>

\* False positives per hour within the budget.
WithinBudget(rows, scores, t, minutes, budget) == FP(rows, scores, t) * 60 <= budget * minutes

\* Mutant: the best F1 of all candidates, the budget only checked afterwards.
select_thresholdUnbudgeted(rows, scores, minutes, budget) ==
  LET best == {t \in ToSet(scores) : \A u \in ToSet(scores) :
                 AtLeastRatio(_f1(rows, scores, t), _f1(rows, scores, u))}
  IN  IF Attacks(rows) \in {{}, DOMAIN rows} THEN NoThreshold ELSE Max(best)

\* select_threshold: of the observed scores within the budget the one with the
\* best F1, the highest of several; else just above the highest benign score.
select_threshold(rows, scores, minutes, budget) ==
  LET kept == {t \in ToSet(scores) : WithinBudget(rows, scores, t, minutes, budget)}
      best == {t \in kept : \A u \in kept :
                 AtLeastRatio(_f1(rows, scores, t), _f1(rows, scores, u))}
      benign == Max({scores[i] : i \in DOMAIN rows \ Attacks(rows)})
  IN  CASE Attacks(rows) \in {{}, DOMAIN rows} -> NoThreshold
        [] OTHER -> IF best # {} THEN Max(best)
                    ELSE IF benign >= One THEN NoThreshold
                    ELSE Min({One, benign + Epsilon})

\* tune_threshold: the static detector keeps its own threshold of one half.
tune_threshold(detector, rows, minutes, budget) ==
  IF detector.kind = "static" THEN One \div 2
  ELSE select_threshold(rows, score_partition(detector, rows), minutes, budget)
-----------------------------------------------------------------------------
(* The metrics.                                                            *)

\* detection_delays: from the onset of a scenario to the end of its first
\* firing window.
detection_delays(rows, scores, threshold) ==
  LET labelled == {i \in Attacks(rows) : rows[i].scenario # NoScenario}
      fired == labelled \cap Firing(scores, threshold)
      delay(i) == Max({0, rows[i].vector.window_end - rows[i].onset})
      own(s) == {i \in fired : rows[i].scenario = s}
  IN  [first |-> [s \in {rows[i].scenario : i \in fired} |-> Min({delay(i) : i \in own(s)})],
       scenarios |-> {rows[i].scenario : i \in labelled}]

Ratio(n, d) == IF d = 0 THEN <<0, 1>> ELSE <<n, d>>

\* evaluate and evaluate_detector: no metrics when the threshold is refused, or
\* when no scenario is detected where one is required.
evaluate(detector, rows, threshold, minutes, required) ==
  LET scores == score_partition(detector, rows)
      delays == detection_delays(rows, scores, threshold)
      tp == TP(rows, scores, threshold)
  IN  IF threshold \notin 0 .. One \/ (required /\ DOMAIN delays.first = {}) THEN {}
      ELSE {[precision |-> Ratio(tp, Cardinality(Firing(scores, threshold))),
             recall |-> Ratio(tp, Cardinality(Attacks(rows))),
             f1 |-> _f1(rows, scores, threshold),
             false_positives |-> FP(rows, scores, threshold),
             minutes |-> minutes, threshold |-> threshold,
             delays |-> delays.first, scenarios |-> delays.scenarios]}

\* run_benchmark: every detector is tuned on validation and evaluated on test;
\* a threshold that cannot be selected ends the benchmark without a row.
run_benchmark(model, validation, test, minutes, budget) ==
  LET detectors == build_detectors(model)
      threshold == [i \in DOMAIN detectors |->
                      tune_threshold(detectors[i], validation, minutes, budget)]
  IN  IF \E i \in DOMAIN detectors : threshold[i] = NoThreshold THEN <<>>
      ELSE [i \in DOMAIN detectors |->
              evaluate(detectors[i], test, threshold[i], minutes, FALSE)]

\* What write_candidate records of a model: nothing when its threshold is
\* refused, when it detects no scenario of the test partition, or when the
\* benchmark ends early, be it for the threshold of another detector.
write_candidate(model, validation, test, minutes, budget) ==
  LET detector == [kind |-> "model", model |-> model]
      threshold == tune_threshold(detector, validation, minutes, budget)
      benchmark == run_benchmark(model, validation, test, minutes, budget)
  IN  IF threshold = NoThreshold \/ benchmark = <<>> THEN {}
      ELSE {[metrics |-> row, benchmark |-> benchmark] :
              row \in evaluate(detector, test, threshold, minutes, TRUE)}
-----------------------------------------------------------------------------
(* Sequence training and serving.                                          *)

\* What the LSTM trainer fits: the matrix of every vector of the training
\* partition, with the history of that partition only; {} when the length is
\* refused.
training_sequences(vectors, schema, length) ==
  IF length \notin 2 .. 288 THEN {}
  ELSE {[i \in DOMAIN vectors |->
           sequence_matrix(schema, entity_history(vectors[i], vectors, length), vectors[i].features)]}

\* Mutant: a score at the threshold is no anomaly.
InferAbove(approved, features, history) ==
  LET matrix == IF approved.model.length > 1 THEN sequence_matrix(approved.schema, history, features)
                ELSE <<features>>
  IN  {[score |-> approved.model.score[matrix],
        is_anomaly |-> approved.model.score[matrix] > approved.threshold]}

\* ApprovedModel.infer: a model of single windows takes no history; {} when the
\* history is refused.
Infer(approved, features, history) ==
  LET matrix == IF approved.model.length > 1 THEN sequence_matrix(approved.schema, history, features)
                ELSE <<features>>
  IN  IF Len(history) # approved.model.length - 1 THEN {}
      ELSE {[score |-> approved.model.score[matrix],
             is_anomaly |-> approved.model.score[matrix] >= approved.threshold]}

Refusal(status, counted) == [status |-> status, counted |-> counted, result |-> {}]

\* POST /v1/infer with the model the service could load, {} if none: the
\* status, the counter that the request raised, and the result.  An entity
\* that is no address is refused before anything is counted.
infer(provider, request) ==
  CASE request.schema = NETWORK /\ request.entity = "invalid" -> Refusal(422, "nothing")
    [] OTHER ->
       IF ~require_exact_features(request.schema, request.features) THEN Refusal(422, "errors")
       ELSE IF provider = {} THEN Refusal(503, "errors")
       ELSE LET approved == CHOOSE a \in provider : TRUE
            IN  IF \/ request.schema # approved.schema
                   \/ Len(request.history) # approved.model.length - 1
                   \/ \E i \in DOMAIN request.history : \E f \in request.history[i] :
                        ~require_exact_features(request.schema, f)
                THEN Refusal(422, "errors")
                ELSE [status |-> 200, counted |-> "requests",
                      result |-> Infer(approved, request.features, request.history)]
=============================================================================
