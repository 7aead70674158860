------------------------------ MODULE TryLinux ------------------------------
(***************************************************************************)
(* scripts/try_linux.py, which installs, builds and tests the whole lab in *)
(* stages that need one another.                                           *)
(*                                                                         *)
(* The work of a stage is the status its check returns, or the commands it *)
(* runs with what becomes of each; a status is all that is kept of a       *)
(* result.                                                                 *)
(***************************************************************************)
EXTENDS Naturals, Sequences, FiniteSetsExt

All == {"full", "quick", "offline"}
Live == {"full", "quick"}
Full == {"full"}

\* A stage whose failure is a finding does not block the ones that need it.
Stage(id, needs, modes) == [id |-> id, needs |-> needs, modes |-> modes, finding |-> FALSE]
Finding(id, needs, modes) == [id |-> id, needs |-> needs, modes |-> modes, finding |-> TRUE]

\* build_stages, in the order in which they run.
Stages == <<
  Stage("host-os", {}, All),
  Stage("host-sudo", {"host-os"}, Live),
  Stage("deps-packages", {"host-sudo"}, Live),
  Stage("deps-docker", {"deps-packages"}, Live),
  Stage("deps-docker-access", {"deps-docker"}, Live),
  Stage("deps-containerlab", {"deps-packages"}, Full),
  Stage("deps-sysctl", {"host-sudo"}, Live),
  Stage("deps-python", {"host-os"}, All),
  Stage("offline-static", {"deps-python"}, All),
  Finding("offline-tests", {"deps-python"}, All),
  Stage("offline-compose", {"deps-python", "deps-docker-access"}, Live),
  Stage("viz-start", {"deps-python"}, All),
  Stage("secrets", {"deps-python"}, Live),
  Stage("images", {"deps-docker-access", "secrets"}, Live),
  Stage("dc-network", {"deps-docker-access", "secrets"}, Live),
  Stage("wazuh-config", {"images", "dc-network"}, Live),
  Stage("fabric-up", {"deps-containerlab", "dc-network", "deps-sysctl"}, Full),
  Stage("fabric-verify", {"fabric-up"}, Full),
  Stage("security-up", {"wazuh-config", "fabric-verify"}, Full),
  Stage("soc-up", {"images", "dc-network", "deps-sysctl"}, Live),
  Stage("soc-smoke", {"soc-up"}, Live),
  Stage("mgmt-network", {"deps-docker-access"}, {"quick"}),
  Stage("demo-model", {"deps-python", "secrets"}, Live),
  Stage("soc-ai-up", {"soc-smoke", "demo-model", "mgmt-network"}, Live),
  Stage("dmzlab-up", {"fabric-verify", "images"}, Full),
  Stage("dmzlab-verify", {"dmzlab-up"}, Full),
  Finding("dmzlab-siem", {"dmzlab-verify", "soc-smoke"}, Full),
  Finding("configure", {"fabric-verify", "security-up"}, Full),
  Finding("validate", {"configure"}, Full),
  Finding("attack", {"validate"}, Full),
  Finding("soc-validate", {"soc-ai-up", "fabric-verify"}, Full),
  Stage("report", {"soc-validate"}, Full)>>

-----------------------------------------------------------------------------
(* One stage.                                                              *)

\* Runner.run_cmd: the exit code that counts.
run_cmd(cmd, dry_run) ==
  CASE dry_run -> 0
    [] ~dry_run /\ ~cmd.found -> 127
    [] ~dry_run /\ cmd.found /\ cmd.hangs -> 124
    [] OTHER -> IF cmd.rc \in cmd.ok_codes THEN 0 ELSE cmd.rc

\* Runner.run_stage: a check is not made in a dry run, the first command that
\* fails ends the stage, and an exception of the runner is a failure.
run_stage(work, dry_run) ==
  CASE work.kind = "check" -> IF dry_run THEN "SKIP" ELSE work.status
    [] work.kind = "raises" -> "FAIL"
    [] work.kind = "cmds" ->
         IF work.cmds = <<>> THEN "SKIP"
         ELSE IF \E i \in DOMAIN work.cmds : run_cmd(work.cmds[i], dry_run) # 0 THEN "FAIL" ELSE "PASS"
-----------------------------------------------------------------------------
(* A run.                                                                  *)

\* select: the places of the selected stages; --only takes stages of any mode;
\* {} when --from names a stage that is not selected.
select(o) ==
  LET named == {i \in DOMAIN Stages : IF o.only # {} THEN Stages[i].id \in o.only
                                      ELSE o.mode \in Stages[i].modes}
      from == {i \in named : o.start = {} \/ Stages[i].id \in o.start}
  IN  IF from = {} THEN {}
      ELSE {{i \in named : Min(from) <= i /\ Stages[i].id \notin o.skip}}

\* A run of the selected stages, before the first of them.  For every stage
\* that has run, above keeps the selected stages that it needs, directly or
\* through others: the program has no such record.
NewRun(o, chosen) ==
  [options |-> o, chosen |-> chosen, results |-> <<>>, above |-> <<>>, over |-> FALSE,
   interrupted |-> FALSE]

Left(run) == run.chosen \ DOMAIN run.results

Needed(i, run) == {d \in run.chosen : Stages[d].id \in Stages[i].needs}

\* Mutant: a blocked stage does not block the ones that need it.
BlockersFailed(i, run) ==
  {d \in Needed(i, run) \cap DOMAIN run.results : run.results[d] = "FAIL" /\ ~Stages[d].finding}

\* The selected stages of which this one needs the result and must not run.
Blockers(i, run) ==
  {d \in Needed(i, run) \cap DOMAIN run.results :
     \/ run.results[d] = "BLOCKED"
     \/ run.results[d] = "FAIL" /\ ~Stages[d].finding}

StatusOf(i, run) ==
  IF Blockers(i, run) # {} /\ run.options.only = {} THEN "BLOCKED"
  ELSE run_stage(run.options.work[Stages[i].id], run.options.dry_run)

\* A function that has one more value.
Extend(f, i, value) == [j \in DOMAIN f \cup {i} |-> IF j = i THEN value ELSE f[j]]

\* The next stage of main: a failure ends the run with --fail-fast.
Advance(run) ==
  LET i == Min(Left(run))
      status == StatusOf(i, run)
  IN  [run EXCEPT !.results = Extend(@, i, status),
                  !.above = Extend(@, i, UNION {{d} \cup (IF d \in DOMAIN @ THEN @[d] ELSE {}) :
                                                  d \in Needed(i, run)}),
                  !.over = status = "FAIL" /\ run.options.fail_fast]

\* An interrupt during a stage ends the run without the stage's result.
Interrupt(run) == [run EXCEPT !.over = TRUE, !.interrupted = TRUE]

\* Mutant: what the tests find does not count.
summarizeHarness(results) ==
  IF \E i \in DOMAIN results : results[i] = "FAIL" /\ ~Stages[i].finding THEN 1 ELSE 0

\* summarize: the exit code.
summarize(results) == IF \E i \in DOMAIN results : results[i] = "FAIL" THEN 1 ELSE 0
=============================================================================
