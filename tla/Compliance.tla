----------------------------- MODULE Compliance -----------------------------
(***************************************************************************)
(* The compliance evidence of compliance/: the wiring of controls to       *)
(* tests, the artifact a test leaves (with the hook of                     *)
(* tests/validation/conftest.py), the provenance that binds it to a source *)
(* tree, and the report over the artifacts of a run.                       *)
(*                                                                         *)
(* A test is named by its directory, file and function; the directory "" is *)
(* a name without one.  A world is the state of the checkout: the content  *)
(* of the commit and of the working tree, whether files are untracked,     *)
(* whether git answers, the commit that GIT_SHA names in its place, and    *)
(* the deployment settings.  A hash is the value it is the hash of.        *)
(***************************************************************************)
EXTENDS Integers, Sequences, FiniteSets, SequencesExt

PROFILES == {"path-a", "path-b"}

\* A control without a verifier for a profile.
NoTest == [file |-> "", function |-> ""]
-----------------------------------------------------------------------------
(* The catalog.                                                            *)

\* applies_to_profile: a control without a scope applies to every profile.
Scope(control) == IF control.applicable = {} THEN PROFILES ELSE control.applicable
applies_to_profile(control, profile) == profile \in Scope(control)

\* verifier_for.
verifier_for(control, profile) ==
  IF profile = "path-b" THEN control.verified_by_path_b ELSE control.verified_by

\* resolve: the file name must be that of exactly one file.
resolve(files, test) ==
  /\ Cardinality({f \in files : f.file = test.file}) = 1
  /\ \E f \in files : f.file = test.file /\ test.function \in f.functions

\* check_wiring: the catalog has no problem.
Wired(catalog, files) ==
  /\ \A i \in DOMAIN catalog, p \in PROFILES :
       LET test == verifier_for(catalog[i], p)
       IN  IF applies_to_profile(catalog[i], p)
           THEN test # NoTest /\ resolve(files, test)
           ELSE test = NoTest
  /\ \A i, j \in DOMAIN catalog, p \in PROFILES :
       (/\ applies_to_profile(catalog[i], p) /\ applies_to_profile(catalog[j], p)
        /\ verifier_for(catalog[i], p) = verifier_for(catalog[j], p)) => i = j
-----------------------------------------------------------------------------
(* Provenance.                                                             *)

\* source_tree_hash and _tracked_files: with git the tracked files as they are
\* in the working tree; without it every file.
source_tree_hash(world) ==
  IF world.git THEN <<world.work>> ELSE <<world.work, world.untracked>>

\* git_sha: what GIT_SHA names, otherwise the head; <<>> is "unknown".
git_sha(world) ==
  IF world.GIT_SHA # <<>> THEN world.GIT_SHA
  ELSE IF world.git THEN <<world.head>> ELSE <<>>

\* Mutant: untracked files do not make the tree dirty.
git_dirtyTracked(world) == ~world.git \/ world.work # world.head

\* git_dirty: also when git does not answer.
git_dirty(world) == ~world.git \/ world.work # world.head \/ world.untracked

\* current_provenance.  The catalog, the topology and the tests are tracked
\* files, so that the tree stands for their hashes as well.
current_provenance(world) ==
  [git_sha |-> git_sha(world), git_dirty |-> git_dirty(world),
   source_tree_sha256 |-> source_tree_hash(world),
   deployment_config_sha256 |-> world.settings]
-----------------------------------------------------------------------------
(* Artifacts.                                                              *)

classify_result(passed, assertion_failure, recorded) ==
  IF passed THEN IF recorded THEN "PASS" ELSE "ERROR"
  ELSE IF assertion_failure THEN "FAIL" ELSE "ERROR"

\* classify_phase_result; "none" leaves the artifact alone.
classify_phase_result(phase, outcome, recorded) ==
  IF phase = "call" THEN classify_result(outcome = "passed", outcome = "failed", recorded)
  ELSE IF outcome = "passed" THEN "none" ELSE "ERROR"

\* verified_test_suffix: a node id ends with "/" and the verifier.
HasSuffix(node, test) ==
  node.dir # "" /\ node.file = test.file /\ node.function = test.function

\* mapped_control_for_nodeid.
mapped_control_for_nodeid(catalog, node) ==
  LET hits == {i \in DOMAIN catalog : HasSuffix(node, catalog[i].verified_by)}
  IN  {catalog[i].id : i \in {i \in hits : \A j \in hits : i <= j}}

\* The payload of an artifact (pytest_runtest_makereport, record_evidence).
Payload(control, node, result, world, environment, run) ==
  [control_id |-> control, test_id |-> node, result |-> result, run_id |-> run,
   environment |-> environment, valid |-> TRUE, provenance |-> current_provenance(world)]

\* The phases of a test and what pytest says of each: no call after a setup
\* that does not pass, and a teardown in any case.
Phases(t) ==
  IF t.setup = "passed" THEN <<<<"setup", t.setup>>, <<"call", t.call>>, <<"teardown", t.teardown>>>>
  ELSE <<<<"setup", t.setup>>, <<"teardown", t.teardown>>>>

\* The result a test leaves in its artifact: a later phase overwrites the
\* file of an earlier one.
ResultOf(t) ==
  LET result == [i \in DOMAIN Phases(t) |->
                   classify_phase_result(Phases(t)[i][1], Phases(t)[i][2],
                                         t.recorded /\ t.setup = "passed")]
      written == {i \in DOMAIN result : result[i] # "none"}
  IN  IF written = {} THEN "none" ELSE result[Max(written)]

\* The artifact of a pytest test, if it leaves one.  The control is the one the
\* test recorded, or the mapped one when it recorded none.
TestArtifact(catalog, t, world, environment, run) ==
  {Payload(IF t.recorded /\ t.setup = "passed" THEN t.claims ELSE c, t.node, ResultOf(t),
           world, environment, run) :
     c \in IF ResultOf(t) = "none" THEN {} ELSE mapped_control_for_nodeid(catalog, t.node)}

\* The artifact of a script (record_evidence) or of a step of the Path B audit
\* (execute, emit): the step says which control it is about, and the audit
\* always names its own environment.
StepArtifact(t, world, environment, run) ==
  Payload(t.claims, t.node, classify_result(t.call = "passed", t.call = "failed", TRUE), world,
          IF t.runner = "audit" THEN "path-b" ELSE environment, run)

ArtifactOf(catalog, t, world, environment, run) ==
  IF t.runner = "pytest" THEN TestArtifact(catalog, t, world, environment, run)
  ELSE {StepArtifact(t, world, environment, run)}
-----------------------------------------------------------------------------
(* The report.  The files of a run are a function on the places of their   *)
(* names in the order of the directory listing.                            *)

\* load_evidence: the artifacts that can be read and are well formed.
load_evidence(files) ==
  [k \in {k \in DOMAIN files : files[k].valid /\ files[k].result \in {"PASS", "FAIL", "ERROR"}}
     |-> files[k]]

ArtifactErrors(files) ==
  LET evidence == load_evidence(files)
  IN  \/ DOMAIN evidence # DOMAIN files
      \/ \E i, j \in DOMAIN evidence :
           i # j /\ evidence[i].control_id = evidence[j].control_id
                 /\ evidence[i].test_id = evidence[j].test_id

\* validate_provenance: mixed, stale or mislabelled evidence, and in strict
\* mode evidence from a tree that is dirty or unknown.
ProvenanceErrors(evidence, run, world, strict, profile) ==
  /\ DOMAIN evidence # {}
  /\ LET baseline == evidence[Min(DOMAIN evidence)]
     IN \/ \E i \in DOMAIN evidence :
             \/ evidence[i].run_id # run
             \/ evidence[i].environment # baseline.environment
             \/ evidence[i].provenance # baseline.provenance
             \/ evidence[i].provenance # current_provenance(world)
        \/ profile = "path-b" /\ baseline.environment # "path-b"
        \/ profile = "path-a" /\ baseline.environment \notin {"local-containerlab", "path-a"}
        \/ strict /\ (baseline.provenance.git_sha = <<>> \/ baseline.provenance.git_dirty)

\* Mutant: any artifact of the control counts, whatever test it is of.
MatchesControl(artifact, control, profile) == artifact.control_id = control.id

\* An artifact of the control by the test that verifies it.
Matches(artifact, control, profile) ==
  LET test == verifier_for(control, profile)
  IN  /\ artifact.control_id = control.id
      /\ artifact.test_id.file = test.file /\ artifact.test_id.function = test.function

\* status_for: the last artifact by file name.
status_for(control, evidence, profile) ==
  LET matches == {k \in DOMAIN evidence : Matches(evidence[k], control, profile)}
  IN  IF matches = {} THEN "UNVERIFIED" ELSE evidence[Max(matches)].result

\* main: the exit code of the report.
Report(catalog, files, run, world, strict, profile) ==
  LET evidence == load_evidence(files)
      nonpass == \/ \E i \in DOMAIN catalog :
                      /\ applies_to_profile(catalog[i], profile)
                      /\ status_for(catalog[i], evidence, profile) # "PASS"
                 \/ ArtifactErrors(files)
                 \/ ProvenanceErrors(evidence, run, world, strict, profile)
  IN  IF strict /\ nonpass THEN 1 ELSE 0
=============================================================================
