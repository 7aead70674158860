--------------------------- MODULE ModelRegistry ---------------------------
(***************************************************************************)
(* The life of a model: a training run writes a candidate directory        *)
(* (ai/training/pipeline.py), two candidates are compared                  *)
(* (ai/evaluation/compare.py), promotion and retirement copy a directory   *)
(* under another status (ai/training/promote.py), and the inference        *)
(* service loads the directory it was deployed with (ai/api/main.py,       *)
(* ai/models/isolation_forest.py).                                         *)
(*                                                                         *)
(* Every command is a process of its own that writes one file at a time    *)
(* and may die between two files.  A digest is the value it is the digest  *)
(* of.  The metrics of a model on a dataset are the pair of the two.       *)
(***************************************************************************)
EXTENDS Naturals, Sequences, FiniteSets

CONSTANTS
  Dir,          \* directories
  Job,          \* processes that may run at once
  Forest,       \* fitted Isolation Forest models
  Lstm,         \* fitted LSTM autoencoders
  Dataset,      \* dataset manifests
  Good,         \* pairs of model and dataset whose test metrics meet the policy
  Contract,     \* versions of the feature contract in the repository
  SharedOutput, \* whether two commands may be given one output directory
  None,         \* absent
  MaxStarts,    \* bound: commands started
  MaxFaults     \* bound: commands killed, artifacts damaged
ASSUME RegistryAssumption ==
  /\ Forest \cap Lstm = {} /\ Good \subseteq (Forest \cup Lstm) \X Dataset
  /\ Contract # {}
  /\ None \notin [model : Forest \cup Lstm \cup {None}, contract : Contract]
  /\ SharedOutput \in BOOLEAN
  /\ MaxStarts \in Nat /\ MaxFaults \in Nat

VARIABLES
  dirs,      \* the files of each directory
  jobs,      \* the running commands
  contract,  \* the feature contract of the repository
  results,   \* metadata digests that promote and retire returned
  promoted,  \* history: the ones that promote returned
  provider,  \* the inference service: its configuration and its loaded model
  starts, faults

vars == <<dirs, jobs, contract, results, promoted, provider, starts, faults>>

Model == Forest \cup Lstm
FileName == {"artifact", "schema", "metadata", "evaluation", "comparison", "approval"}
Empty == [f \in FileName |-> None]
Idle == [kind |-> "idle", todo |-> <<>>]

\* The bytes of a model, which carry the contract it was fitted for.  The name
\* of the file follows from the algorithm.
Artifact(m, k) == [model |-> m, contract |-> k]

Init ==
  /\ dirs = [d \in Dir |-> Empty]
  /\ jobs = [j \in Job |-> Idle]
  /\ contract = CHOOSE k \in Contract : TRUE
  /\ results = {} /\ promoted = {}
  /\ provider = [dir |-> None, trusted |-> None, model |-> None]
  /\ starts = 0 /\ faults = 0

Running == {j \in Job : jobs[j] # Idle}

\* No running command uses the directory, unless operators may share it.
Free(d) == SharedOutput \/ \A j \in Running : d \notin {jobs[j].to, jobs[j].from, jobs[j].cmp}

Start(j, job) ==
  /\ starts < MaxStarts
  /\ jobs[j] = Idle
  /\ jobs' = [jobs EXCEPT ![j] = job]
  /\ starts' = starts + 1
  /\ UNCHANGED <<dirs, contract, results, promoted, provider, faults>>
-----------------------------------------------------------------------------
(* Training.                                                               *)

\* check_provenance_arguments, load_dataset and the fit; the output directory
\* is checked before the model is fitted.
Train(j, m, d, to) ==
  /\ dirs[to] = Empty
  /\ Free(to)
  /\ Start(j, [kind |-> "train", model |-> m, data |-> d, from |-> None, to |-> to,
               cmp |-> None, meta |-> None,
               todo |-> <<"artifact", "schema", "metadata", "evaluation">>])

\* Mutant: the digest is taken of the model in memory, the metrics of any.
CandidateOfUntested(job, artifact) ==
  [status |-> "candidate", artifact |-> artifact, data |-> job.data, contract |-> contract,
   metrics |-> CHOOSE g \in Good : TRUE]

\* The provenance of a candidate; the digest is of the file that was written.
CandidateOf(job, artifact) ==
  [status |-> "candidate", artifact |-> artifact, data |-> job.data, contract |-> contract,
   metrics |-> <<job.model, job.data>>]
-----------------------------------------------------------------------------
(* Comparison, promotion and retirement.                                   *)

\* The artifact a directory's own provenance names is there.
Intact(files) == files.metadata # None /\ files.artifact = files.metadata.artifact

\* _candidate_model.
CandidateModel(files, models, data) ==
  /\ Intact(files)
  /\ files.metadata.status = "candidate"
  /\ files.metadata.artifact.model \in models
  /\ files.metadata.data = data

\* compare: both candidates against one dataset.
Compare(j, forest, lstm, d, to) ==
  /\ CandidateModel(dirs[forest], Forest, d)
  /\ CandidateModel(dirs[lstm], Lstm, d)
  /\ dirs[to] = Empty
  /\ Free(to)
  /\ Start(j, [kind |-> "compare", data |-> d, from |-> forest, to |-> to, cmp |-> lstm,
               models |-> {dirs[forest].artifact, dirs[lstm].artifact},
               meta |-> None, todo |-> <<"comparison">>])

\* The evaluation must be of this artifact, contract, dataset and metrics.
EvaluationBound(files) ==
  /\ files.evaluation # None
  /\ files.evaluation.artifact = files.metadata.artifact
  /\ files.evaluation.contract = files.metadata.contract
  /\ files.evaluation.data = files.metadata.data
  /\ files.evaluation.metrics = files.metadata.metrics

\* verify_candidate.
VerifyCandidate(files) ==
  /\ Intact(files)
  /\ files.metadata.status = "candidate"
  /\ files.metadata.contract = contract
  /\ EvaluationBound(files)
  /\ files.evaluation.metrics \in Good

\* verify_comparison, when one is given.
VerifyComparison(cmp, metadata) ==
  cmp # None =>
    /\ dirs[cmp].comparison # None
    /\ dirs[cmp].comparison.data = metadata.data
    /\ metadata.artifact \in dirs[cmp].comparison.models

\* Mutant: the approval is written before the files are copied.
PromoteApprovalFirst(j, from, cmp, to) ==
  /\ VerifyCandidate(dirs[from])
  /\ VerifyComparison(cmp, dirs[from].metadata)
  /\ dirs[to] = Empty
  /\ Free(to)
  /\ Start(j, [kind |-> "promote", from |-> from, to |-> to, cmp |-> cmp,
               meta |-> [dirs[from].metadata EXCEPT !.status = "approved"],
               todo |-> <<"approval", "metadata", "artifact", "schema", "evaluation",
                          "comparison">>])

\* promote: the copies, the approved metadata, the comparison and, last, the
\* approval record.
Promote(j, from, cmp, to) ==
  /\ VerifyCandidate(dirs[from])
  /\ VerifyComparison(cmp, dirs[from].metadata)
  /\ dirs[to] = Empty
  /\ Free(to)
  /\ Start(j, [kind |-> "promote", from |-> from, to |-> to, cmp |-> cmp,
               meta |-> [dirs[from].metadata EXCEPT !.status = "approved"],
               todo |-> <<"artifact", "schema", "evaluation", "metadata", "comparison",
                          "approval">>])

\* retire: every file is carried over, the status is not ("revoked" is treated
\* as "retired" is).
Retire(j, from, to) ==
  /\ dirs[from].metadata # None
  /\ dirs[to] = Empty
  /\ Free(to)
  /\ Start(j, [kind |-> "retire", from |-> from, to |-> to, cmp |-> from,
               meta |-> [dirs[from].metadata EXCEPT !.status = "retired"],
               todo |-> <<"artifact", "schema", "evaluation", "comparison", "approval",
                          "metadata">>])

\* What promote and retire put beside the metadata: the approval record, the
\* comparison if one is given, and copies; a file that is missing is not copied.
Carried(job, f) ==
  CASE job.kind = "promote" /\ f = "approval" -> [digest |-> job.meta]
    [] f = "comparison" -> IF job.cmp = None THEN None ELSE dirs[job.cmp].comparison
    [] OTHER -> dirs[job.from][f]

\* What a training run puts beside the metadata.
Trained(job, f) ==
  CASE f = "artifact" -> Artifact(job.model, contract)
    [] f = "schema" -> contract
    [] f = "evaluation" ->
         [artifact |-> job.meta.artifact, contract |-> job.meta.contract,
          data |-> job.meta.data, metrics |-> job.meta.metrics]

\* What a command writes into a file.
Content(job, f) ==
  IF f = "metadata" THEN job.meta
  ELSE CASE job.kind = "train" -> Trained(job, f)
         [] job.kind = "compare" -> [data |-> job.data, models |-> job.models]
         [] job.kind \in {"promote", "retire"} -> Carried(job, f)

\* The provenance a command will write; a training run reads its artifact back
\* for the digest once the schema is written.
Provenance(job, f) ==
  IF job.kind = "train" /\ f = "schema" THEN CandidateOf(job, dirs[job.to].artifact)
  ELSE job.meta

\* The next file of a command is written.
Write(j) ==
  /\ jobs[j].todo # <<>>
  /\ LET f == Head(jobs[j].todo)
     IN /\ dirs' = [dirs EXCEPT ![jobs[j].to][f] = Content(jobs[j], f)]
        /\ jobs' = [jobs EXCEPT ![j].todo = Tail(@), ![j].meta = Provenance(jobs[j], f)]
  /\ UNCHANGED <<contract, results, promoted, provider, starts, faults>>

\* The command ends and prints the digest of the metadata it wrote.
Finish(j) ==
  /\ j \in Running /\ jobs[j].todo = <<>>
  /\ jobs' = [jobs EXCEPT ![j] = Idle]
  /\ results' = IF jobs[j].kind \in {"promote", "retire"}
                THEN results \cup {jobs[j].meta} ELSE results
  /\ promoted' = IF jobs[j].kind = "promote" THEN promoted \cup {jobs[j].meta} ELSE promoted
  /\ UNCHANGED <<dirs, contract, provider, starts, faults>>
-----------------------------------------------------------------------------
(* The inference service.                                                  *)

\* Mutant: the status in the provenance is not read.
LoadsAnyStatus(files, trusted) ==
  /\ trusted # None /\ files.metadata = trusted
  /\ files.artifact = trusted.artifact
  /\ trusted.contract = contract
  /\ files.schema = contract
  /\ files.artifact.model # None /\ files.artifact.contract = contract

\* load_approved_model; damaged bytes cannot be deserialized.
Loads(files, trusted) ==
  /\ trusted # None /\ files.metadata = trusted
  /\ trusted.status = "approved"
  /\ files.artifact = trusted.artifact
  /\ trusted.contract = contract
  /\ files.schema = contract
  /\ files.artifact.model # None /\ files.artifact.contract = contract

\* ModelProvider.get, for an inference or a readiness probe: a loaded model is
\* kept; a failed load changes nothing and is tried again with the next request.
Get ==
  /\ provider.dir # None /\ provider.model = None
  /\ Loads(dirs[provider.dir], provider.trusted)
  /\ provider' = [provider EXCEPT !.model = dirs[provider.dir]]
  /\ UNCHANGED <<dirs, jobs, contract, results, promoted, starts, faults>>

\* The service is started with a directory and a digest some command printed.
Deploy(d, digest) ==
  /\ digest \in results
  /\ provider' = [dir |-> d, trusted |-> digest, model |-> None]
  /\ UNCHANGED <<dirs, jobs, contract, results, promoted, starts, faults>>
-----------------------------------------------------------------------------
(* The world.                                                              *)

Fault == faults < MaxFaults /\ faults' = faults + 1

\* A command is killed between two files.
Crash(j) ==
  /\ j \in Running
  /\ Fault
  /\ jobs' = [jobs EXCEPT ![j] = Idle]
  /\ UNCHANGED <<dirs, contract, results, promoted, provider, starts>>

Damaged(files) == files.artifact # None /\ files.artifact.model = None

\* An artifact is damaged on disk.
Damage(d) ==
  /\ dirs[d].artifact # None /\ ~Damaged(dirs[d])
  /\ Fault
  /\ dirs' = [dirs EXCEPT ![d].artifact.model = None]
  /\ UNCHANGED <<jobs, contract, results, promoted, provider, starts>>

\* An operator empties a directory no command uses.
Clear(d) ==
  /\ dirs[d] # Empty
  /\ \A j \in Running : d \notin {jobs[j].to, jobs[j].from, jobs[j].cmp}
  /\ starts < MaxStarts /\ starts' = starts + 1
  /\ dirs' = [dirs EXCEPT ![d] = Empty]
  /\ UNCHANGED <<jobs, contract, results, promoted, provider, faults>>

\* A release with another contract; the service starts anew with it.
Release(k) ==
  /\ k # contract /\ Running = {}
  /\ starts < MaxStarts /\ starts' = starts + 1
  /\ contract' = k
  /\ provider' = [provider EXCEPT !.model = None]
  /\ UNCHANGED <<dirs, jobs, results, promoted, faults>>

Next ==
  \/ \E j \in Job :
       \/ \E m \in Model, d \in Dataset, to \in Dir : Train(j, m, d, to)
       \/ \E f, l, to \in Dir, d \in Dataset : Compare(j, f, l, d, to)
       \/ \E from, to \in Dir, cmp \in Dir \cup {None} : Promote(j, from, cmp, to)
       \/ \E from, to \in Dir : Retire(j, from, to)
       \/ Write(j) \/ Finish(j) \/ Crash(j)
  \/ \E d \in Dir : (\E digest \in results : Deploy(d, digest)) \/ Damage(d) \/ Clear(d)
  \/ \E k \in Contract : Release(k)
  \/ Get

Spec == Init /\ [][Next]_vars
-----------------------------------------------------------------------------
Metadata == [status: {"candidate", "approved", "retired"},
             artifact: [model: Model \cup {None}, contract: Contract],
             data: Dataset, contract: Contract, metrics: Model \X Dataset]

\* Every variable keeps to its values.
TypeOK ==
  /\ DOMAIN dirs = Dir /\ contract \in Contract
  /\ \A d \in Dir : dirs[d].metadata \in Metadata \cup {None}
  /\ results \subseteq Metadata /\ promoted \subseteq results

\* Whatever is trained, killed, damaged, promoted, retired and deployed in
\* between, the bytes that serve inference are of a model whose own test
\* metrics met the promotion policy, on the contract the service runs with, and
\* of a registry that a promotion completed: never a candidate or the output of
\* `retire`, although the operator is given digests of both kinds.
ServedMeetsPolicy ==
  provider.model # None =>
    /\ <<provider.model.artifact.model, provider.model.metadata.data>> \in Good
    /\ provider.model.artifact.contract = contract
    /\ provider.model.metadata \in promoted

\* An approval record is the last file of a promotion: a registry that has one
\* can be loaded as long as its artifact is not damaged.
ApprovalIsComplete ==
  \A d \in Dir :
    /\ dirs[d].approval # None /\ dirs[d].metadata # None
    /\ dirs[d].metadata.status = "approved"
    /\ ~Damaged(dirs[d]) /\ dirs[d].metadata.contract = contract
    => Loads(dirs[d], dirs[d].metadata)

=============================================================================
