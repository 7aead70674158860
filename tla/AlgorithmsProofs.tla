------------------------- MODULE AlgorithmsProofs -------------------------
(***************************************************************************)
(* Proofs about the model registry (ModelRegistry), for commands that are  *)
(* given output directories of their own, and then about the parts that    *)
(* stand alone (Algorithms), for all inputs InputAssumption admits.        *)
(*                                                                         *)
(* The inductive invariant of the registry ties the files of a directory   *)
(* to the command that writes it: what is still to be written is absent, a *)
(* metadata file comes after what it describes, and the metrics a digest   *)
(* is bound to are those of the model behind the digest unless its bytes   *)
(* were damaged before they were read back.                                *)
(***************************************************************************)
EXTENDS ModelRegistry, Algorithms, FiniteSetTheorems, WellFoundedInduction, TLAPS

ArtifactFile == [model : Model \cup {None}, contract : Contract]

\* An artifact, or what damage made of it.
Maybe(a) == {a, [a EXCEPT !.model = None]}

\* The metrics are of the model behind the digest, the bytes carry the contract
\* of the provenance, and what is approved meets the policy.
Sound(meta) ==
  /\ meta.artifact.model = None \/ meta.metrics = <<meta.artifact.model, meta.data>>
  /\ meta.artifact.contract = meta.contract
  /\ meta.status = "approved" => meta.metrics \in Good

\* What is left to write for each kind of command.
TrainTodo ==
  {<<"artifact", "schema", "metadata", "evaluation">>, <<"schema", "metadata", "evaluation">>,
   <<"metadata", "evaluation">>, <<"evaluation">>, <<>>}
PromoteTodo ==
  {<<"artifact", "schema", "evaluation", "metadata", "comparison", "approval">>,
   <<"schema", "evaluation", "metadata", "comparison", "approval">>,
   <<"evaluation", "metadata", "comparison", "approval">>,
   <<"metadata", "comparison", "approval">>, <<"comparison", "approval">>, <<"approval">>, <<>>}
RetireTodo ==
  {<<"artifact", "schema", "evaluation", "comparison", "approval", "metadata">>,
   <<"schema", "evaluation", "comparison", "approval", "metadata">>,
   <<"evaluation", "comparison", "approval", "metadata">>,
   <<"comparison", "approval", "metadata">>, <<"approval", "metadata">>, <<"metadata">>, <<>>}
CompareTodo == {<<"comparison">>, <<>>}

TrainJob ==
  [kind : {"train"}, model : Model, data : Dataset, from : {None}, to : Dir, cmp : {None},
   meta : Metadata \cup {None}, todo : TrainTodo]
CompareJob ==
  [kind : {"compare"}, data : Dataset, from : Dir, to : Dir, cmp : Dir,
   models : SUBSET ArtifactFile, meta : {None}, todo : CompareTodo]
PromoteJob ==
  [kind : {"promote"}, from : Dir, to : Dir, cmp : Dir \cup {None}, meta : Metadata,
   todo : PromoteTodo]
RetireJob ==
  [kind : {"retire"}, from : Dir, to : Dir, cmp : Dir, meta : Metadata, todo : RetireTodo]

\* The file is still to be written.
Waits(todo, f) == \E i \in DOMAIN todo : todo[i] = f

\* A metadata file describes the files beside it.
FilesOK(d) ==
  dirs[d].metadata # None =>
    LET meta == dirs[d].metadata
    IN  /\ meta \in Metadata /\ Sound(meta)
        /\ meta.status # "retired" => dirs[d].schema = meta.contract
        /\ meta.status = "approved" => dirs[d].artifact \in Maybe(meta.artifact)

TrainOK(job) ==
  /\ job \in TrainJob
  /\ ~Waits(job.todo, "artifact") =>
       dirs[job.to].artifact \in Maybe(Artifact(job.model, contract))
  /\ ~Waits(job.todo, "schema") =>
       /\ dirs[job.to].schema = contract
       /\ job.meta \in Metadata /\ Sound(job.meta)
       /\ job.meta.status = "candidate" /\ job.meta.contract = contract

PromoteOK(job) ==
  /\ job \in PromoteJob
  /\ Sound(job.meta) /\ job.meta.status = "approved" /\ job.meta.contract = contract
  /\ dirs[job.from].artifact \in Maybe(job.meta.artifact)
  /\ dirs[job.from].schema = contract
  /\ ~Waits(job.todo, "artifact") => dirs[job.to].artifact \in Maybe(job.meta.artifact)
  /\ ~Waits(job.todo, "schema") => dirs[job.to].schema = contract
  /\ ~Waits(job.todo, "metadata") => dirs[job.to].metadata = job.meta
  /\ \A i \in Running : jobs[i].to = job.from => jobs[i].todo = <<>>

RetireOK(job) ==
  /\ job \in RetireJob
  /\ Sound(job.meta) /\ job.meta.status = "retired"

CompareOK(job) == job \in CompareJob /\ dirs[job.to].metadata = None

JobOK(job) == TrainOK(job) \/ PromoteOK(job) \/ RetireOK(job) \/ CompareOK(job)

\* What a command has still to write is absent.
StillAbsent(job) == \A f \in FileName : Waits(job.todo, f) => dirs[job.to][f] = None

Typed ==
  /\ DOMAIN dirs = Dir /\ \A d \in Dir : DOMAIN dirs[d] = FileName
  /\ DOMAIN jobs = Job
  /\ contract \in Contract
  /\ DOMAIN provider = {"dir", "trusted", "model"}

ResultsOK ==
  /\ \A meta \in results :
       meta \in Metadata /\ Sound(meta) /\ (meta.status = "approved" => meta \in promoted)
  /\ provider.trusted \in results \cup {None}

Inv ==
  /\ Typed
  /\ \A d \in Dir : FilesOK(d)
  /\ \A j \in Running : JobOK(jobs[j]) /\ StillAbsent(jobs[j])
  /\ \A i, j \in Running : i # j => jobs[i].to # jobs[j].to
  /\ ResultsOK
  /\ ServedMeetsPolicy
-----------------------------------------------------------------------------
(* The lists of files.                                                     *)

\* Writing the first file of a list leaves the others to be written.
LEMMA TrainLists ==
  ASSUME NEW t \in TrainTodo, t # <<>>
  PROVE  /\ Tail(t) \in TrainTodo /\ Head(t) \in {"artifact", "schema", "metadata", "evaluation"}
         /\ \A f : Waits(t, f) <=> (f = Head(t) \/ Waits(Tail(t), f))
         /\ ~Waits(Tail(t), Head(t))
         /\ Waits(t, "evaluation")
         /\ Head(t) = "artifact" => Waits(t, "schema")
         /\ Head(t) \in {"artifact", "schema"} => Waits(t, "metadata")
         /\ Head(t) # "artifact" => ~Waits(t, "artifact")
         /\ Head(t) = "metadata" => ~Waits(t, "schema")
<1>1. CASE t = <<"artifact", "schema", "metadata", "evaluation">>
  <2>1. /\ Head(t) = "artifact" /\ Tail(t) = <<"schema", "metadata", "evaluation">>
        /\ \A f : Waits(t, f) <=> f \in {"artifact", "schema", "metadata", "evaluation"}
        /\ \A f : Waits(Tail(t), f) <=> f \in {"schema", "metadata", "evaluation"}
    BY <1>1 DEF Waits
  <2> QED BY <2>1 DEF TrainTodo
<1>2. CASE t = <<"schema", "metadata", "evaluation">>
  <2>1. /\ Head(t) = "schema" /\ Tail(t) = <<"metadata", "evaluation">>
        /\ \A f : Waits(t, f) <=> f \in {"schema", "metadata", "evaluation"}
        /\ \A f : Waits(Tail(t), f) <=> f \in {"metadata", "evaluation"}
    BY <1>2 DEF Waits
  <2> QED BY <2>1 DEF TrainTodo
<1>3. CASE t = <<"metadata", "evaluation">>
  <2>1. /\ Head(t) = "metadata" /\ Tail(t) = <<"evaluation">>
        /\ \A f : Waits(t, f) <=> f \in {"metadata", "evaluation"}
        /\ \A f : Waits(Tail(t), f) <=> f \in {"evaluation"}
    BY <1>3 DEF Waits
  <2> QED BY <2>1 DEF TrainTodo
<1>4. CASE t = <<"evaluation">>
  <2>1. /\ Head(t) = "evaluation" /\ Tail(t) = <<>>
        /\ \A f : Waits(t, f) <=> f \in {"evaluation"}
        /\ \A f : Waits(Tail(t), f) <=> f \in {}
    BY <1>4 DEF Waits
  <2> QED BY <2>1 DEF TrainTodo
<1> QED BY <1>1, <1>2, <1>3, <1>4 DEF TrainTodo

\* The same for a promotion.
LEMMA PromoteLists ==
  ASSUME NEW t \in PromoteTodo, t # <<>>
  PROVE  /\ Tail(t) \in PromoteTodo /\ Head(t) \in FileName
         /\ \A f : Waits(t, f) <=> (f = Head(t) \/ Waits(Tail(t), f))
         /\ ~Waits(Tail(t), Head(t))
         /\ Head(t) \in {"artifact", "schema"} => Waits(t, "metadata")
         /\ Head(t) = "metadata" => ~Waits(t, "artifact") /\ ~Waits(t, "schema")
<1>1. CASE t = <<"artifact", "schema", "evaluation", "metadata", "comparison", "approval">>
  <2>1. /\ Head(t) = "artifact" /\ Tail(t) = <<"schema", "evaluation", "metadata", "comparison", "approval">>
        /\ \A f : Waits(t, f) <=> f \in {"artifact", "schema", "evaluation", "metadata", "comparison", "approval"}
        /\ \A f : Waits(Tail(t), f) <=> f \in {"schema", "evaluation", "metadata", "comparison", "approval"}
    BY <1>1 DEF Waits
  <2> QED BY <2>1 DEF PromoteTodo, FileName
<1>2. CASE t = <<"schema", "evaluation", "metadata", "comparison", "approval">>
  <2>1. /\ Head(t) = "schema" /\ Tail(t) = <<"evaluation", "metadata", "comparison", "approval">>
        /\ \A f : Waits(t, f) <=> f \in {"schema", "evaluation", "metadata", "comparison", "approval"}
        /\ \A f : Waits(Tail(t), f) <=> f \in {"evaluation", "metadata", "comparison", "approval"}
    BY <1>2 DEF Waits
  <2> QED BY <2>1 DEF PromoteTodo, FileName
<1>3. CASE t = <<"evaluation", "metadata", "comparison", "approval">>
  <2>1. /\ Head(t) = "evaluation" /\ Tail(t) = <<"metadata", "comparison", "approval">>
        /\ \A f : Waits(t, f) <=> f \in {"evaluation", "metadata", "comparison", "approval"}
        /\ \A f : Waits(Tail(t), f) <=> f \in {"metadata", "comparison", "approval"}
    BY <1>3 DEF Waits
  <2> QED BY <2>1 DEF PromoteTodo, FileName
<1>4. CASE t = <<"metadata", "comparison", "approval">>
  <2>1. /\ Head(t) = "metadata" /\ Tail(t) = <<"comparison", "approval">>
        /\ \A f : Waits(t, f) <=> f \in {"metadata", "comparison", "approval"}
        /\ \A f : Waits(Tail(t), f) <=> f \in {"comparison", "approval"}
    BY <1>4 DEF Waits
  <2> QED BY <2>1 DEF PromoteTodo, FileName
<1>5. CASE t = <<"comparison", "approval">>
  <2>1. /\ Head(t) = "comparison" /\ Tail(t) = <<"approval">>
        /\ \A f : Waits(t, f) <=> f \in {"comparison", "approval"}
        /\ \A f : Waits(Tail(t), f) <=> f \in {"approval"}
    BY <1>5 DEF Waits
  <2> QED BY <2>1 DEF PromoteTodo, FileName
<1>6. CASE t = <<"approval">>
  <2>1. /\ Head(t) = "approval" /\ Tail(t) = <<>>
        /\ \A f : Waits(t, f) <=> f \in {"approval"}
        /\ \A f : Waits(Tail(t), f) <=> f \in {}
    BY <1>6 DEF Waits
  <2> QED BY <2>1 DEF PromoteTodo, FileName
<1> QED BY <1>1, <1>2, <1>3, <1>4, <1>5, <1>6 DEF PromoteTodo

\* The same for a retirement, which writes the metadata last.
LEMMA RetireLists ==
  ASSUME NEW t \in RetireTodo, t # <<>>
  PROVE  /\ Tail(t) \in RetireTodo /\ Head(t) \in FileName
         /\ \A f : Waits(t, f) <=> (f = Head(t) \/ Waits(Tail(t), f))
         /\ ~Waits(Tail(t), Head(t))
         /\ Waits(t, "metadata")
<1>1. CASE t = <<"artifact", "schema", "evaluation", "comparison", "approval", "metadata">>
  <2>1. /\ Head(t) = "artifact" /\ Tail(t) = <<"schema", "evaluation", "comparison", "approval", "metadata">>
        /\ \A f : Waits(t, f) <=> f \in {"artifact", "schema", "evaluation", "comparison", "approval", "metadata"}
        /\ \A f : Waits(Tail(t), f) <=> f \in {"schema", "evaluation", "comparison", "approval", "metadata"}
    BY <1>1 DEF Waits
  <2> QED BY <2>1 DEF RetireTodo, FileName
<1>2. CASE t = <<"schema", "evaluation", "comparison", "approval", "metadata">>
  <2>1. /\ Head(t) = "schema" /\ Tail(t) = <<"evaluation", "comparison", "approval", "metadata">>
        /\ \A f : Waits(t, f) <=> f \in {"schema", "evaluation", "comparison", "approval", "metadata"}
        /\ \A f : Waits(Tail(t), f) <=> f \in {"evaluation", "comparison", "approval", "metadata"}
    BY <1>2 DEF Waits
  <2> QED BY <2>1 DEF RetireTodo, FileName
<1>3. CASE t = <<"evaluation", "comparison", "approval", "metadata">>
  <2>1. /\ Head(t) = "evaluation" /\ Tail(t) = <<"comparison", "approval", "metadata">>
        /\ \A f : Waits(t, f) <=> f \in {"evaluation", "comparison", "approval", "metadata"}
        /\ \A f : Waits(Tail(t), f) <=> f \in {"comparison", "approval", "metadata"}
    BY <1>3 DEF Waits
  <2> QED BY <2>1 DEF RetireTodo, FileName
<1>4. CASE t = <<"comparison", "approval", "metadata">>
  <2>1. /\ Head(t) = "comparison" /\ Tail(t) = <<"approval", "metadata">>
        /\ \A f : Waits(t, f) <=> f \in {"comparison", "approval", "metadata"}
        /\ \A f : Waits(Tail(t), f) <=> f \in {"approval", "metadata"}
    BY <1>4 DEF Waits
  <2> QED BY <2>1 DEF RetireTodo, FileName
<1>5. CASE t = <<"approval", "metadata">>
  <2>1. /\ Head(t) = "approval" /\ Tail(t) = <<"metadata">>
        /\ \A f : Waits(t, f) <=> f \in {"approval", "metadata"}
        /\ \A f : Waits(Tail(t), f) <=> f \in {"metadata"}
    BY <1>5 DEF Waits
  <2> QED BY <2>1 DEF RetireTodo, FileName
<1>6. CASE t = <<"metadata">>
  <2>1. /\ Head(t) = "metadata" /\ Tail(t) = <<>>
        /\ \A f : Waits(t, f) <=> f \in {"metadata"}
        /\ \A f : Waits(Tail(t), f) <=> f \in {}
    BY <1>6 DEF Waits
  <2> QED BY <2>1 DEF RetireTodo, FileName
<1> QED BY <1>1, <1>2, <1>3, <1>4, <1>5, <1>6 DEF RetireTodo

\* The same for a comparison.
LEMMA CompareLists ==
  ASSUME NEW t \in CompareTodo, t # <<>>
  PROVE  /\ Tail(t) = <<>> /\ Head(t) = "comparison"
         /\ \A f : ~Waits(Tail(t), f)
<1>1. t = <<"comparison">>
  BY DEF CompareTodo
<1> QED BY <1>1 DEF Waits

\* Nothing is left at the end.
LEMMA NothingWaits == \A f : ~Waits(<<>>, f)
  BY DEF Waits
-----------------------------------------------------------------------------
(* What a step that writes nothing relevant keeps.                         *)

\* The directory is as it was, or its artifact was damaged.
Kept(d) ==
  /\ dirs'[d].schema = dirs[d].schema /\ dirs'[d].metadata = dirs[d].metadata
  /\ \/ dirs'[d].artifact = dirs[d].artifact
     \/ dirs'[d].artifact = [dirs[d].artifact EXCEPT !.model = None]

\* Damaged bytes stay damaged.
LEMMA MaybeKept ==
  ASSUME NEW a \in ArtifactFile, NEW b \in Maybe(a),
         NEW c, c = b \/ c = [b EXCEPT !.model = None]
  PROVE  c \in Maybe(a)
<1>1. [[a EXCEPT !.model = None] EXCEPT !.model = None] = [a EXCEPT !.model = None]
  BY DEF ArtifactFile
<1> QED BY <1>1 DEF Maybe

\* The description of a directory stays true.
LEMMA FilesKept ==
  ASSUME NEW d \in Dir, FilesOK(d), Kept(d)
  PROVE  FilesOK(d)'
<1> SUFFICES ASSUME dirs[d].metadata # None PROVE FilesOK(d)'
  BY DEF FilesOK, Kept
<1>1. PICK meta : meta = dirs[d].metadata
  OBVIOUS
<1>2. /\ meta \in Metadata /\ Sound(meta) /\ meta # None
      /\ meta.status # "retired" => dirs[d].schema = meta.contract
      /\ meta.status = "approved" => dirs[d].artifact \in Maybe(meta.artifact)
  BY <1>1 DEF FilesOK
<1>3. meta.artifact \in ArtifactFile
  BY <1>2 DEF Metadata, ArtifactFile
<1>4. meta.status = "approved" => dirs'[d].artifact \in Maybe(meta.artifact)
  BY <1>2, <1>3, MaybeKept DEF Kept
<1>5. dirs'[d].metadata = meta /\ dirs'[d].schema = dirs[d].schema
  BY <1>1 DEF Kept
<1>6. Sound(meta)' <=> Sound(meta)
  BY DEF Sound
<1> QED BY <1>2, <1>4, <1>5, <1>6 DEF FilesOK, Sound, Maybe

\* So do the facts about a command that did not move.
LEMMA JobKept ==
  ASSUME NEW j, JobOK(jobs[j]), jobs'[j] = jobs[j], contract' = contract,
         Kept(jobs[j].to),
         jobs[j].kind = "promote" =>
           /\ Kept(jobs[j].from)
           /\ \A i \in Running' : jobs'[i].to = jobs[j].from => jobs'[i].todo = <<>>
  PROVE  JobOK(jobs[j])'
<1>1. PICK job : job = jobs[j]
  OBVIOUS
<1>2. JobOK(job) /\ Kept(job.to) /\ jobs'[j] = job
  BY <1>1
<1>3. CASE TrainOK(job)
  <2>1. job \in TrainJob /\ job.to \in Dir /\ job.model \in Model /\ contract' = contract
    BY <1>3 DEF TrainOK, TrainJob
  <2>2. CASE Waits(job.todo, "artifact")
    <3>1. ~Waits(job.todo, "schema") =>
            /\ dirs'[job.to].schema = contract
            /\ job.meta \in Metadata /\ Sound(job.meta)
            /\ job.meta.status = "candidate" /\ job.meta.contract = contract
      BY <1>2, <1>3 DEF TrainOK, Kept
    <3> QED BY <1>2, <2>1, <2>2, <3>1 DEF JobOK, TrainOK, Sound
  <2>3. CASE ~Waits(job.todo, "artifact")
    <3>1. dirs'[job.to].artifact \in Maybe(Artifact(job.model, contract))
      <4>1. dirs[job.to].artifact \in Maybe(Artifact(job.model, contract))
        BY <1>3, <2>3 DEF TrainOK
      <4>2. CASE contract \in Contract
        <5>1. Artifact(job.model, contract) \in ArtifactFile
          BY <2>1, <4>2 DEF Artifact, ArtifactFile
        <5> QED BY <1>2, <4>1, <5>1, MaybeKept DEF Kept
      <4>3. CASE contract \notin Contract
        <5>1. [[Artifact(job.model, contract) EXCEPT !.model = None] EXCEPT !.model = None] = [Artifact(job.model, contract) EXCEPT !.model = None]
          BY DEF Artifact
        <5> QED BY <1>2, <4>1, <5>1 DEF Kept, Maybe
      <4> QED BY <4>2, <4>3
    <3>2. ~Waits(job.todo, "schema") =>
            /\ dirs'[job.to].schema = contract
            /\ job.meta \in Metadata /\ Sound(job.meta)
            /\ job.meta.status = "candidate" /\ job.meta.contract = contract
      BY <1>2, <1>3 DEF TrainOK, Kept
    <3> QED BY <1>2, <2>1, <3>1, <3>2 DEF JobOK, TrainOK, Sound, Maybe, Artifact
  <2> QED BY <2>2, <2>3
<1>4. CASE PromoteOK(job)
  <2>1. job.kind = "promote" /\ job.meta.artifact \in ArtifactFile
    BY <1>4 DEF PromoteOK, PromoteJob, Metadata, ArtifactFile
  <2>2. /\ Kept(job.from)
        /\ \A i \in Running' : jobs'[i].to = job.from => jobs'[i].todo = <<>>
    BY <1>1, <2>1
  <2>3. /\ dirs'[job.from].artifact \in Maybe(job.meta.artifact)
        /\ dirs'[job.from].schema = contract
    BY <1>4, <2>1, <2>2, MaybeKept DEF PromoteOK, Kept
  <2>4. ~Waits(job.todo, "artifact") => dirs'[job.to].artifact \in Maybe(job.meta.artifact)
    BY <1>2, <1>4, <2>1, MaybeKept DEF PromoteOK, Kept
  <2>5. /\ ~Waits(job.todo, "schema") => dirs'[job.to].schema = contract
        /\ ~Waits(job.todo, "metadata") => dirs'[job.to].metadata = job.meta
    BY <1>2, <1>4 DEF PromoteOK, Kept
  <2>6. job \in PromoteJob /\ Sound(job.meta) /\ job.meta.status = "approved" /\ job.meta.contract = contract
    BY <1>4 DEF PromoteOK
  <2>7. PromoteOK(jobs[j])'
    BY <1>2, <2>2, <2>3, <2>4, <2>5, <2>6 DEF PromoteOK, Sound, Maybe
  <2> QED BY <2>7 DEF JobOK
<1>5. CASE RetireOK(job) \/ CompareOK(job)
  BY <1>2, <1>5 DEF JobOK, RetireOK, CompareOK, Sound, Kept
<1> QED BY <1>2, <1>3, <1>4, <1>5 DEF JobOK
-----------------------------------------------------------------------------
(* The beginning of a command.                                             *)

\* A command that starts on an empty directory of its own, with everything it
\* relies on, keeps the invariant.
LEMMA StartKeeps ==
  ASSUME Inv, SharedOutput = FALSE, NEW j \in Job, NEW job, Start(j, job),
         job.to \in Dir, dirs[job.to] = Empty, Free(job.to), JobOK(job),
         job.kind = "promote" => job.to # job.from
  PROVE  Inv'
<1>1. /\ jobs[j] = Idle /\ jobs' = [jobs EXCEPT ![j] = job]
      /\ UNCHANGED <<dirs, contract, results, promoted, provider>>
  BY DEF Start
<1>2. /\ Typed /\ (\A d \in Dir : FilesOK(d)) /\ ResultsOK /\ ServedMeetsPolicy
      /\ \A i \in Running : JobOK(jobs[i]) /\ StillAbsent(jobs[i])
      /\ \A i, k \in Running : i # k => jobs[i].to # jobs[k].to
  BY DEF Inv
<1>3. job # Idle
  <2>1. job.kind \in {"train", "promote", "retire", "compare"}
    BY DEF JobOK, TrainOK, PromoteOK, RetireOK, CompareOK, TrainJob, PromoteJob, RetireJob, CompareJob
  <2> QED BY <2>1 DEF Idle
<1>4. /\ DOMAIN jobs' = Job /\ jobs'[j] = job /\ \A i \in Job : i # j => jobs'[i] = jobs[i]
      /\ Running' = Running \cup {j} /\ j \notin Running
  <2>1. DOMAIN jobs' = Job /\ jobs'[j] = job /\ \A i \in Job : i # j => jobs'[i] = jobs[i]
    BY <1>1, <1>2 DEF Typed
  <2> QED BY <1>1, <1>3, <2>1 DEF Running
<1>5. \A i \in Running : job.to # jobs[i].to /\ job.to # jobs[i].from
  BY DEF Free
<1>6. \A d : Kept(d)
  BY <1>1 DEF Kept
<1>7. \A i, k \in Running' : i # k => jobs'[i].to # jobs'[k].to
  BY <1>2, <1>4, <1>5 DEF Running
<1>8. ASSUME NEW i \in Running PROVE JobOK(jobs[i])' /\ StillAbsent(jobs[i])'
  <2>1. i \in Job /\ i # j /\ jobs'[i] = jobs[i]
    BY <1>4 DEF Running
  <2>2. ASSUME jobs[i].kind = "promote", NEW k \in Running', jobs'[k].to = jobs[i].from
        PROVE  jobs'[k].todo = <<>>
    <3>1. k # j /\ k \in Running /\ jobs'[k] = jobs[k]
      BY <1>4, <1>5, <2>2 DEF Running
    <3>2. PromoteOK(jobs[i])
      BY <1>2, <2>2 DEF JobOK, TrainOK, RetireOK, CompareOK, TrainJob, RetireJob, CompareJob
    <3> QED BY <2>2, <3>1, <3>2 DEF PromoteOK
  <2>3. JobOK(jobs[i])'
    BY <1>1, <1>2, <1>6, <2>1, <2>2, JobKept
  <2> QED BY <1>1, <1>2, <2>1, <2>3 DEF StillAbsent
<1>9. JobOK(jobs[j])'
  <2>1. CASE PromoteOK(job)
    <3>1. \A i \in Running' : jobs'[i].to = job.from => jobs'[i].todo = <<>>
      BY <1>4, <2>1 DEF PromoteOK, PromoteJob, Running
    <3> QED BY <1>1, <1>4, <2>1, <3>1 DEF JobOK, PromoteOK, Sound, Maybe
  <2>2. CASE TrainOK(job) \/ RetireOK(job) \/ CompareOK(job)
    BY <1>1, <1>4, <2>2 DEF JobOK, TrainOK, RetireOK, CompareOK, Sound, Maybe, Artifact
  <2> QED BY <2>1, <2>2 DEF JobOK
<1>10. StillAbsent(jobs[j])'
  BY <1>1, <1>4 DEF StillAbsent, Empty
<1>11. \A i \in Running' : JobOK(jobs[i])' /\ StillAbsent(jobs[i])'
  BY <1>4, <1>8, <1>9, <1>10
<1>12. Typed' /\ ResultsOK' /\ ServedMeetsPolicy' /\ \A d \in Dir : FilesOK(d)'
  BY <1>1, <1>2, <1>4, <1>6, FilesKept DEF Typed, ResultsOK, ServedMeetsPolicy, Sound
<1> QED BY <1>7, <1>11, <1>12 DEF Inv

\* Training.
LEMMA TrainStep ==
  ASSUME Inv, SharedOutput = FALSE, NEW j \in Job, NEW m \in Model, NEW d \in Dataset, NEW to \in Dir,
         Train(j, m, d, to)
  PROVE  Inv'
<1> DEFINE job == [kind |-> "train", model |-> m, data |-> d, from |-> None, to |-> to,
                   cmp |-> None, meta |-> None,
                   todo |-> <<"artifact", "schema", "metadata", "evaluation">>]
<1>1. Start(j, job) /\ dirs[to] = Empty /\ Free(to)
  BY DEF Train
<1>2. job \in TrainJob /\ job.to = to /\ job.kind = "train"
  BY DEF TrainJob, TrainTodo
<1>3. Waits(job.todo, "artifact") /\ Waits(job.todo, "schema")
  BY DEF Waits
<1>4. JobOK(job)
  BY <1>2, <1>3 DEF JobOK, TrainOK
<1> HIDE DEF job
<1> QED BY <1>1, <1>2, <1>4, StartKeeps

\* A comparison.
LEMMA CompareStep ==
  ASSUME Inv, SharedOutput = FALSE, NEW j \in Job, NEW f \in Dir, NEW l \in Dir, NEW to \in Dir,
         NEW d \in Dataset, Compare(j, f, l, d, to)
  PROVE  Inv'
<1> DEFINE job == [kind |-> "compare", data |-> d, from |-> f, to |-> to, cmp |-> l,
                   models |-> {dirs[f].artifact, dirs[l].artifact},
                   meta |-> None, todo |-> <<"comparison">>]
<1>1. /\ Start(j, job) /\ dirs[to] = Empty /\ Free(to)
      /\ CandidateModel(dirs[f], Forest, d) /\ CandidateModel(dirs[l], Lstm, d)
  BY DEF Compare
<1>2. dirs[f].artifact \in ArtifactFile /\ dirs[l].artifact \in ArtifactFile
  BY <1>1 DEF CandidateModel, Intact, Inv, FilesOK, Metadata, ArtifactFile
<1>3. job \in CompareJob /\ job.to = to /\ job.kind = "compare"
  BY <1>2 DEF CompareJob, CompareTodo
<1>4. JobOK(job)
  BY <1>1, <1>3 DEF JobOK, CompareOK, Empty, FileName
<1> HIDE DEF job
<1> QED BY <1>1, <1>3, <1>4, StartKeeps

\* A retirement.
LEMMA RetireStep ==
  ASSUME Inv, SharedOutput = FALSE, NEW j \in Job, NEW from \in Dir, NEW to \in Dir, Retire(j, from, to)
  PROVE  Inv'
<1> DEFINE meta == [dirs[from].metadata EXCEPT !.status = "retired"]
<1> DEFINE job == [kind |-> "retire", from |-> from, to |-> to, cmp |-> from, meta |-> meta,
                   todo |-> <<"artifact", "schema", "evaluation", "comparison", "approval",
                              "metadata">>]
<1>1. Start(j, job) /\ dirs[to] = Empty /\ Free(to) /\ dirs[from].metadata # None
  BY DEF Retire
<1>2. dirs[from].metadata \in Metadata /\ Sound(dirs[from].metadata)
  BY <1>1 DEF Inv, FilesOK
<1>3. meta \in Metadata /\ Sound(meta) /\ meta.status = "retired"
  BY <1>2 DEF Metadata, Sound
<1> HIDE DEF meta
<1>4. job \in RetireJob /\ job.to = to /\ job.kind = "retire" /\ job.meta = meta
  BY <1>3 DEF RetireJob, RetireTodo
<1>5. JobOK(job)
  BY <1>3, <1>4 DEF JobOK, RetireOK
<1> HIDE DEF job
<1> QED BY <1>1, <1>4, <1>5, StartKeeps

\* A promotion: the candidate meets the policy, its writer is done with it, and
\* its files belong together.
LEMMA PromoteStep ==
  ASSUME Inv, SharedOutput = FALSE, NEW j \in Job, NEW from \in Dir, NEW to \in Dir,
         NEW cmp \in Dir \cup {None}, Promote(j, from, cmp, to)
  PROVE  Inv'
<1> DEFINE old == dirs[from].metadata
<1> DEFINE meta == [old EXCEPT !.status = "approved"]
<1> DEFINE job == [kind |-> "promote", from |-> from, to |-> to, cmp |-> cmp, meta |-> meta,
                   todo |-> <<"artifact", "schema", "evaluation", "metadata", "comparison",
                              "approval">>]
<1>1. Start(j, job) /\ dirs[to] = Empty /\ Free(to) /\ VerifyCandidate(dirs[from])
  BY DEF Promote
<1>2. /\ old # None /\ dirs[from].artifact = old.artifact /\ old.status = "candidate"
      /\ old.contract = contract /\ dirs[from].evaluation # None /\ old.metrics \in Good
  BY <1>1 DEF VerifyCandidate, Intact, EvaluationBound
<1>3. old \in Metadata /\ Sound(old) /\ dirs[from].schema = contract
  BY <1>2 DEF Inv, FilesOK
<1>4. from # to
  BY <1>1, <1>2 DEF Empty, FileName
<1>5. ASSUME NEW i \in Running, jobs[i].to = from PROVE jobs[i].todo = <<>>
  <2>1. JobOK(jobs[i]) /\ StillAbsent(jobs[i])
    BY DEF Inv
  <2>2. CASE TrainOK(jobs[i])
    BY <1>2, <1>5, <2>1, <2>2, TrainLists DEF TrainOK, TrainJob, StillAbsent, FileName
  <2>3. CASE PromoteOK(jobs[i])
    BY <1>2, <1>5, <2>1, <2>3 DEF PromoteOK, StillAbsent, FileName
  <2>4. CASE RetireOK(jobs[i])
    BY <1>2, <1>5, <2>1, <2>4, RetireLists DEF RetireOK, RetireJob, StillAbsent, FileName
  <2>5. CASE CompareOK(jobs[i])
    BY <1>2, <1>5, <2>5 DEF CompareOK
  <2> QED BY <2>1, <2>2, <2>3, <2>4, <2>5 DEF JobOK
<1>6. /\ meta \in Metadata /\ Sound(meta) /\ meta.status = "approved"
      /\ meta.contract = contract /\ meta.artifact = old.artifact
  <2> HIDE DEF old
  <2> QED BY <1>2, <1>3 DEF Metadata, Sound
<1> HIDE DEF meta, old
<1>7. /\ job \in PromoteJob /\ job.to = to /\ job.from = from /\ job.kind = "promote" /\ job.meta = meta
      /\ Waits(job.todo, "artifact") /\ Waits(job.todo, "schema") /\ Waits(job.todo, "metadata")
  <2>1. job \in PromoteJob /\ job.to = to /\ job.from = from /\ job.kind = "promote" /\ job.meta = meta
    BY <1>6 DEF PromoteJob, PromoteTodo
  <2>2. Waits(job.todo, "artifact") /\ Waits(job.todo, "schema") /\ Waits(job.todo, "metadata")
    BY DEF Waits
  <2> QED BY <2>1, <2>2
<1> HIDE DEF job
<1>8. JobOK(job)
  BY <1>2, <1>3, <1>5, <1>6, <1>7 DEF JobOK, PromoteOK, Maybe
<1> QED BY <1>1, <1>4, <1>7, <1>8, StartKeeps
-----------------------------------------------------------------------------
(* A file is written.                                                      *)

\* The list of a command that still has to write.
LEMMA Lists ==
  ASSUME NEW job, JobOK(job), job.todo # <<>>
  PROVE  /\ Head(job.todo) \in FileName
         /\ \A f \in FileName : Waits(Tail(job.todo), f) => Waits(job.todo, f) /\ f # Head(job.todo)
         /\ Waits(job.todo, Head(job.todo))
<1>1. CASE TrainOK(job)
  BY <1>1, TrainLists DEF TrainOK, TrainJob, FileName
<1>2. CASE PromoteOK(job)
  BY <1>2, PromoteLists DEF PromoteOK, PromoteJob
<1>3. CASE RetireOK(job)
  BY <1>3, RetireLists DEF RetireOK, RetireJob
<1>4. CASE CompareOK(job)
  <2>1. job.todo = <<"comparison">>
    BY <1>4 DEF CompareOK, CompareJob, CompareTodo
  <2> QED BY <1>4, <2>1, CompareLists DEF CompareOK, CompareJob, FileName, Waits
<1> QED BY <1>1, <1>2, <1>3, <1>4 DEF JobOK

\* What the step does to the directories and to the command.
LEMMA WriteEffect ==
  ASSUME Inv, NEW j \in Job, Write(j)
  PROVE  LET job == jobs[j]
             f == Head(job.todo)
         IN  /\ j \in Running /\ Running' = Running /\ job.todo # <<>> /\ job.to \in Dir
             /\ DOMAIN dirs' = Dir /\ (\A d \in Dir : DOMAIN dirs'[d] = FileName)
             /\ \A d \in Dir : d # job.to => dirs'[d] = dirs[d]
             /\ dirs'[job.to][f] = Content(job, f)
             /\ \A g \in FileName : g # f => dirs'[job.to][g] = dirs[job.to][g]
             /\ DOMAIN jobs' = Job /\ \A i \in Job : i # j => jobs'[i] = jobs[i]
             /\ jobs'[j] = [job EXCEPT !.todo = Tail(job.todo), !.meta = Provenance(job, f)]
             /\ jobs'[j].to = job.to /\ jobs'[j].kind = job.kind
             /\ UNCHANGED <<contract, results, promoted, provider>>
<1>1. /\ jobs[j].todo # <<>>
      /\ dirs' = [dirs EXCEPT ![jobs[j].to][Head(jobs[j].todo)] = Content(jobs[j], Head(jobs[j].todo))]
      /\ jobs' = [jobs EXCEPT ![j].todo = Tail(@), ![j].meta = Provenance(jobs[j], Head(jobs[j].todo))]
      /\ UNCHANGED <<contract, results, promoted, provider>>
  BY DEF Write
<1>2. j \in Running
  BY <1>1 DEF Running, Idle
<1>3. JobOK(jobs[j]) /\ DOMAIN dirs = Dir /\ (\A d \in Dir : DOMAIN dirs[d] = FileName) /\ DOMAIN jobs = Job
  BY <1>2 DEF Inv, Typed
<1>4. Head(jobs[j].todo) \in FileName
  BY <1>1, <1>3, Lists
<1>5. /\ jobs[j].to \in Dir /\ jobs[j].kind # "idle"
      /\ {"kind", "to", "todo", "meta"} \subseteq DOMAIN jobs[j]
  BY <1>3 DEF JobOK, TrainOK, PromoteOK, RetireOK, CompareOK, TrainJob, PromoteJob, RetireJob, CompareJob
<1>6. /\ DOMAIN dirs' = Dir /\ (\A d \in Dir : DOMAIN dirs'[d] = FileName)
      /\ \A d \in Dir : d # jobs[j].to => dirs'[d] = dirs[d]
      /\ dirs'[jobs[j].to][Head(jobs[j].todo)] = Content(jobs[j], Head(jobs[j].todo))
      /\ \A g \in FileName : g # Head(jobs[j].todo) => dirs'[jobs[j].to][g] = dirs[jobs[j].to][g]
  BY <1>1, <1>3, <1>4, <1>5
<1>7. /\ DOMAIN jobs' = Job /\ \A i \in Job : i # j => jobs'[i] = jobs[i]
      /\ jobs'[j] = [jobs[j] EXCEPT !.todo = Tail(jobs[j].todo), !.meta = Provenance(jobs[j], Head(jobs[j].todo))]
  BY <1>1, <1>3
<1>8. jobs'[j].to = jobs[j].to /\ jobs'[j].kind = jobs[j].kind
  BY <1>5, <1>7
<1>9. Running' = Running
  <2>1. jobs'[j] # Idle
    BY <1>5, <1>8 DEF Idle
  <2> QED BY <1>2, <1>7, <2>1 DEF Running
<1> QED BY <1>1, <1>2, <1>5, <1>6, <1>7, <1>8, <1>9

\* Of a training run.
LEMMA TrainWrites ==
  ASSUME Inv, NEW j \in Job, Write(j), TrainOK(jobs[j])
  PROVE  TrainOK(jobs[j])' /\ FilesOK(jobs[j].to)'
<1>1. PICK job, f, to : job = jobs[j] /\ f = Head(job.todo) /\ to = job.to
  OBVIOUS
<1>2. /\ job \in TrainJob /\ job.todo \in TrainTodo /\ to \in Dir /\ job.kind = "train"
      /\ job.model \in Model /\ job.data \in Dataset
      /\ ~Waits(job.todo, "artifact") => dirs[to].artifact \in Maybe(Artifact(job.model, contract))
      /\ ~Waits(job.todo, "schema") =>
           /\ dirs[to].schema = contract
           /\ job.meta \in Metadata /\ Sound(job.meta)
           /\ job.meta.status = "candidate" /\ job.meta.contract = contract
  BY <1>1 DEF TrainOK, TrainJob
<1>3. /\ job.todo # <<>> /\ dirs'[to][f] = Content(job, f) /\ contract' = contract
      /\ \A g \in FileName : g # f => dirs'[to][g] = dirs[to][g]
      /\ jobs'[j] = [job EXCEPT !.todo = Tail(job.todo), !.meta = Provenance(job, f)]
  BY <1>1, WriteEffect
<1>4. /\ Tail(job.todo) \in TrainTodo /\ f \in {"artifact", "schema", "metadata", "evaluation"}
      /\ \A g : Waits(job.todo, g) <=> (g = f \/ Waits(Tail(job.todo), g))
      /\ ~Waits(Tail(job.todo), f)
      /\ f = "artifact" => Waits(job.todo, "schema")
      /\ f \in {"artifact", "schema"} => Waits(job.todo, "metadata")
      /\ f # "artifact" => ~Waits(job.todo, "artifact")
      /\ f = "metadata" => ~Waits(job.todo, "schema")
  BY <1>1, <1>2, <1>3, TrainLists
<1>5. contract \in Contract /\ FilesOK(to) /\ (f \in {"artifact", "schema"} => dirs[to].metadata = None)
  <2>1. j \in Running
    BY WriteEffect
  <2>2. StillAbsent(job) /\ FilesOK(to) /\ contract \in Contract
    BY <1>1, <1>2, <2>1 DEF Inv, Typed
  <2> QED BY <1>1, <1>4, <2>2 DEF StillAbsent, FileName
<1>6. PICK new : new = jobs'[j]
  OBVIOUS
<1>7. /\ new.todo = Tail(job.todo) /\ new.meta = Provenance(job, f) /\ new.to = to
      /\ new.model = job.model /\ new.data = job.data
      /\ Provenance(job, f) \in Metadata \cup {None} => new \in TrainJob
  BY <1>1, <1>2, <1>3, <1>4, <1>6 DEF TrainJob
<1>8. CASE f = "artifact"
  <2>1. dirs'[to].artifact = Artifact(job.model, contract) /\ Provenance(job, f) = job.meta
    BY <1>2, <1>3, <1>8 DEF Content, Trained, Provenance
  <2>2. dirs'[to].metadata = None /\ Waits(new.todo, "schema")
    BY <1>3, <1>4, <1>5, <1>7, <1>8 DEF FileName
  <2>3. new \in TrainJob
    BY <1>2, <1>7, <2>1 DEF TrainJob
  <2>4. TrainOK(jobs[j])'
    BY <1>3, <1>6, <1>7, <2>1, <2>2, <2>3 DEF TrainOK, Maybe, Artifact
  <2> QED BY <1>6, <1>7, <2>2, <2>4 DEF FilesOK
<1>9. CASE f = "schema"
  <2>1. /\ dirs'[to].schema = contract /\ dirs'[to].metadata = None
        /\ dirs'[to].artifact = dirs[to].artifact
    BY <1>2, <1>3, <1>5, <1>9 DEF Content, Trained, FileName
  <2>2. dirs[to].artifact \in Maybe(Artifact(job.model, contract))
    BY <1>2, <1>4, <1>9
  <2>3. /\ dirs[to].artifact \in ArtifactFile /\ dirs[to].artifact.contract = contract
        /\ dirs[to].artifact.model \in {None, job.model}
    BY <1>2, <1>5, <2>2 DEF Maybe, Artifact, ArtifactFile
  <2>4. new.meta = CandidateOf(job, dirs[to].artifact)
    BY <1>1, <1>2, <1>7, <1>9 DEF Provenance
  <2>5. /\ new.meta \in Metadata /\ Sound(new.meta)
        /\ new.meta.status = "candidate" /\ new.meta.contract = contract
    BY <1>2, <1>5, <2>3, <2>4 DEF CandidateOf, Metadata, Sound, ArtifactFile
  <2>6. new \in TrainJob
    BY <1>7, <2>5
  <2>7. TrainOK(jobs[j])'
    BY <1>3, <1>6, <1>7, <2>1, <2>2, <2>5, <2>6 DEF TrainOK, Maybe, Artifact, Sound
  <2> QED BY <1>6, <1>7, <2>1, <2>7 DEF FilesOK
<1>10. CASE f \in {"metadata", "evaluation"}
  <2>1. /\ dirs'[to].schema = dirs[to].schema /\ dirs'[to].artifact = dirs[to].artifact
        /\ Provenance(job, f) = job.meta
    BY <1>3, <1>10 DEF FileName, Provenance
  <2>2. /\ Waits(new.todo, "artifact") <=> Waits(job.todo, "artifact")
        /\ Waits(new.todo, "schema") <=> Waits(job.todo, "schema")
        /\ new.meta = job.meta /\ new \in TrainJob
    <3>1. job.meta \in Metadata \cup {None}
      BY <1>2 DEF TrainJob
    <3> QED BY <1>4, <1>7, <1>10, <2>1, <3>1
  <2>3. TrainOK(jobs[j])'
    BY <1>2, <1>3, <1>6, <1>7, <2>1, <2>2 DEF TrainOK, Maybe, Artifact, Sound
  <2>4. CASE f = "metadata"
    <3>1. dirs'[to].metadata = job.meta
      BY <1>3, <2>4 DEF Content
    <3>2. /\ job.meta \in Metadata /\ Sound(job.meta) /\ job.meta.status = "candidate"
          /\ dirs'[to].schema = job.meta.contract
      BY <1>2, <1>4, <2>1, <2>4
    <3>3. FilesOK(to)'
      BY <3>1, <3>2 DEF FilesOK, Sound
    <3> QED BY <1>6, <1>7, <2>3, <3>3
  <2>5. CASE f = "evaluation"
    <3>1. Kept(to)
      BY <1>3, <2>1, <2>5 DEF Kept, FileName
    <3>2. FilesOK(to)'
      BY <1>2, <1>5, <3>1, FilesKept
    <3> QED BY <1>6, <1>7, <2>3, <3>2
  <2> QED BY <1>10, <2>4, <2>5
<1> QED BY <1>4, <1>8, <1>9, <1>10

\* Of a promotion.
LEMMA PromoteWrites ==
  ASSUME Inv, NEW j \in Job, Write(j), PromoteOK(jobs[j])
  PROVE  PromoteOK(jobs[j])' /\ FilesOK(jobs[j].to)'
<1>1. PICK job, f, to : job = jobs[j] /\ f = Head(job.todo) /\ to = job.to
  OBVIOUS
<1>2. /\ job \in PromoteJob /\ job.todo \in PromoteTodo /\ to \in Dir /\ job.from \in Dir
      /\ job.kind = "promote" /\ job.meta \in Metadata
      /\ Sound(job.meta) /\ job.meta.status = "approved" /\ job.meta.contract = contract
      /\ dirs[job.from].artifact \in Maybe(job.meta.artifact)
      /\ dirs[job.from].schema = contract
      /\ ~Waits(job.todo, "artifact") => dirs[to].artifact \in Maybe(job.meta.artifact)
      /\ ~Waits(job.todo, "schema") => dirs[to].schema = contract
      /\ ~Waits(job.todo, "metadata") => dirs[to].metadata = job.meta
      /\ \A i \in Running : jobs[i].to = job.from => jobs[i].todo = <<>>
  BY <1>1 DEF PromoteOK, PromoteJob
<1>3. /\ job.todo # <<>> /\ dirs'[to][f] = Content(job, f) /\ contract' = contract
      /\ \A g \in FileName : g # f => dirs'[to][g] = dirs[to][g]
      /\ \A d \in Dir : d # to => dirs'[d] = dirs[d]
      /\ jobs'[j] = [job EXCEPT !.todo = Tail(job.todo), !.meta = Provenance(job, f)]
      /\ j \in Running /\ Running' = Running /\ \A i \in Job : i # j => jobs'[i] = jobs[i]
  BY <1>1, WriteEffect
<1>4. /\ Tail(job.todo) \in PromoteTodo /\ f \in FileName
      /\ \A g : Waits(job.todo, g) <=> (g = f \/ Waits(Tail(job.todo), g))
      /\ ~Waits(Tail(job.todo), f)
      /\ f \in {"artifact", "schema"} => Waits(job.todo, "metadata")
      /\ f = "metadata" => ~Waits(job.todo, "artifact") /\ ~Waits(job.todo, "schema")
  BY <1>1, <1>2, <1>3, PromoteLists
<1>5. FilesOK(to) /\ (f \in {"artifact", "schema"} => dirs[to].metadata = None)
  <2>1. StillAbsent(job) /\ FilesOK(to)
    BY <1>1, <1>2, <1>3 DEF Inv
  <2> QED BY <1>1, <1>4, <2>1 DEF StillAbsent, FileName
<1>6. PICK new : new = jobs'[j]
  OBVIOUS
<1>7. /\ new.todo = Tail(job.todo) /\ new.meta = job.meta /\ new.to = to /\ new.from = job.from
      /\ new \in PromoteJob
  <2>1. Provenance(job, f) = job.meta
    BY <1>2 DEF Provenance
  <2> QED BY <1>1, <1>2, <1>3, <1>4, <1>6, <2>1 DEF PromoteJob
<1>8. to # job.from /\ dirs'[job.from] = dirs[job.from]
  BY <1>1, <1>2, <1>3
<1>9. \A i \in Running' : jobs'[i].to = job.from => jobs'[i].todo = <<>>
  <2>1. \A i \in Running : i \in Job
    BY DEF Running
  <2> QED BY <1>2, <1>3, <1>6, <1>7, <1>8, <2>1
<1>10. /\ f = "artifact" => dirs'[to].artifact = dirs[job.from].artifact
       /\ f = "schema" => dirs'[to].schema = dirs[job.from].schema
       /\ f = "metadata" => dirs'[to].metadata = job.meta
       /\ f # "artifact" => dirs'[to].artifact = dirs[to].artifact
       /\ f # "schema" => dirs'[to].schema = dirs[to].schema
       /\ f # "metadata" => dirs'[to].metadata = dirs[to].metadata
  BY <1>2, <1>3 DEF Content, Carried, FileName
<1>11. ~Waits(new.todo, "artifact") => dirs'[to].artifact \in Maybe(job.meta.artifact)
  BY <1>2, <1>4, <1>7, <1>10
<1>12. /\ ~Waits(new.todo, "schema") => dirs'[to].schema = contract
       /\ ~Waits(new.todo, "metadata") => dirs'[to].metadata = job.meta
  BY <1>2, <1>4, <1>7, <1>10
<1>13. PromoteOK(jobs[j])'
  BY <1>2, <1>3, <1>6, <1>7, <1>8, <1>9, <1>11, <1>12 DEF PromoteOK, Sound, Maybe
<1>14. FilesOK(to)'
  <2>1. CASE f \in {"artifact", "schema"}
    BY <1>5, <1>10, <2>1 DEF FilesOK
  <2>2. CASE f = "metadata"
    <3>1. /\ dirs'[to].metadata = job.meta /\ dirs'[to].schema = job.meta.contract
          /\ dirs'[to].artifact \in Maybe(job.meta.artifact)
      BY <1>2, <1>4, <1>10, <2>2
    <3> QED BY <1>2, <3>1 DEF FilesOK, Sound, Maybe
  <2>3. CASE f \notin {"artifact", "schema", "metadata"}
    <3>1. Kept(to)
      BY <1>10, <2>3 DEF Kept
    <3> QED BY <1>2, <1>5, <3>1, FilesKept
  <2> QED BY <2>1, <2>2, <2>3
<1> QED BY <1>6, <1>7, <1>13, <1>14

\* Of a retirement or a comparison.
LEMMA OthersWrite ==
  ASSUME Inv, NEW j \in Job, Write(j), RetireOK(jobs[j]) \/ CompareOK(jobs[j])
  PROVE  (RetireOK(jobs[j]) \/ CompareOK(jobs[j]))' /\ FilesOK(jobs[j].to)'
<1>1. PICK job, f, to : job = jobs[j] /\ f = Head(job.todo) /\ to = job.to
  OBVIOUS
<1>2. /\ job.todo # <<>> /\ dirs'[to][f] = Content(job, f) /\ to \in Dir
      /\ \A g \in FileName : g # f => dirs'[to][g] = dirs[to][g]
      /\ jobs'[j] = [job EXCEPT !.todo = Tail(job.todo), !.meta = Provenance(job, f)]
      /\ j \in Running
  BY <1>1, WriteEffect
<1>3. StillAbsent(job) /\ FilesOK(to)
  BY <1>1, <1>2 DEF Inv
<1>4. PICK new : new = jobs'[j]
  OBVIOUS
<1>5. CASE RetireOK(job)
  <2>1. job \in RetireJob /\ job.kind = "retire" /\ job.todo \in RetireTodo /\ Sound(job.meta)
        /\ job.meta \in Metadata /\ job.meta.status = "retired"
    BY <1>5 DEF RetireOK, RetireJob
  <2>2. Tail(job.todo) \in RetireTodo /\ f \in FileName /\ Waits(job.todo, "metadata")
    BY <1>1, <1>2, <2>1, RetireLists
  <2>3. new \in RetireJob /\ new.meta = job.meta /\ new.to = to
    <3>1. Provenance(job, f) = job.meta
      BY <2>1 DEF Provenance
    <3> QED BY <1>1, <1>2, <1>4, <2>1, <2>2, <3>1 DEF RetireJob
  <2>4. dirs[to].metadata = None
    BY <1>1, <1>3, <2>2 DEF StillAbsent, FileName
  <2>5. dirs'[to].metadata \in {None, job.meta}
    BY <1>2, <2>2, <2>4 DEF Content, FileName
  <2>6. FilesOK(to)'
    BY <2>1, <2>5 DEF FilesOK, Sound
  <2> QED BY <1>4, <2>1, <2>3, <2>6 DEF RetireOK, Sound
<1>6. CASE CompareOK(job)
  <2>1. /\ job \in CompareJob /\ job.kind = "compare" /\ job.todo \in CompareTodo
        /\ dirs[to].metadata = None /\ job.meta = None
    BY <1>1, <1>6 DEF CompareOK, CompareJob
  <2>2. Tail(job.todo) = <<>> /\ f = "comparison"
    BY <1>1, <1>2, <2>1, CompareLists
  <2>3. new \in CompareJob /\ new.to = to
    <3>1. Provenance(job, f) = None
      BY <2>1 DEF Provenance
    <3> QED BY <1>1, <1>2, <1>4, <2>1, <2>2, <3>1 DEF CompareJob, CompareTodo
  <2>4. dirs'[to].metadata = None
    BY <1>2, <2>1, <2>2 DEF FileName
  <2> QED BY <1>4, <2>3, <2>4 DEF CompareOK, FilesOK
<1> QED BY <1>1, <1>5, <1>6

\* The next file of any command.
LEMMA WriteStep ==
  ASSUME Inv, NEW j \in Job, Write(j)
  PROVE  Inv'
<1>1. /\ j \in Running /\ Running' = Running /\ jobs[j].todo # <<>> /\ jobs[j].to \in Dir
      /\ DOMAIN dirs' = Dir /\ (\A d \in Dir : DOMAIN dirs'[d] = FileName)
      /\ \A d \in Dir : d # jobs[j].to => dirs'[d] = dirs[d]
      /\ DOMAIN jobs' = Job /\ \A i \in Job : i # j => jobs'[i] = jobs[i]
      /\ jobs'[j].to = jobs[j].to
      /\ UNCHANGED <<contract, results, promoted, provider>>
  BY WriteEffect
<1>2. /\ Typed /\ (\A d \in Dir : FilesOK(d)) /\ ResultsOK /\ ServedMeetsPolicy
      /\ \A i \in Running : i \in Job /\ JobOK(jobs[i]) /\ StillAbsent(jobs[i])
      /\ \A i, k \in Running : i # k => jobs[i].to # jobs[k].to
  BY DEF Inv, Running
<1>3. JobOK(jobs[j])' /\ FilesOK(jobs[j].to)'
  BY <1>1, <1>2, TrainWrites, PromoteWrites, OthersWrite DEF JobOK
<1>4. StillAbsent(jobs[j])'
  <2>1. PICK job, f : job = jobs[j] /\ f = Head(job.todo)
    OBVIOUS
  <2>2. \A g \in FileName : g # f => dirs'[job.to][g] = dirs[job.to][g]
    BY <2>1, WriteEffect
  <2>3. jobs'[j].todo = Tail(job.todo) /\ jobs'[j].to = job.to
    <3>1. jobs'[j] = [job EXCEPT !.todo = Tail(job.todo), !.meta = Provenance(job, f)]
      BY <2>1, WriteEffect
    <3>2. "todo" \in DOMAIN job /\ "to" \in DOMAIN job /\ job = jobs[j]
      BY <1>1, <1>2, <2>1 DEF JobOK, TrainOK, PromoteOK, RetireOK, CompareOK, TrainJob, PromoteJob,
                              RetireJob, CompareJob
    <3> QED BY <3>1, <3>2
  <2>4. \A g \in FileName : Waits(Tail(job.todo), g) => Waits(job.todo, g) /\ g # f
    BY <1>1, <1>2, <2>1, Lists
  <2>5. \A g \in FileName : Waits(job.todo, g) => dirs[job.to][g] = None
    BY <1>1, <1>2, <2>1 DEF StillAbsent
  <2> QED BY <2>2, <2>3, <2>4, <2>5 DEF StillAbsent
<1>5. ASSUME NEW i \in Running, i # j PROVE JobOK(jobs[i])' /\ StillAbsent(jobs[i])'
  <2>1. jobs'[i] = jobs[i] /\ JobOK(jobs[i]) /\ StillAbsent(jobs[i]) /\ jobs[i].to # jobs[j].to
    BY <1>1, <1>2, <1>5
  <2>2. jobs[i].to \in Dir /\ dirs'[jobs[i].to] = dirs[jobs[i].to]
    BY <1>1, <2>1 DEF JobOK, TrainOK, PromoteOK, RetireOK, CompareOK, TrainJob, PromoteJob,
                      RetireJob, CompareJob
  <2>3. ASSUME jobs[i].kind = "promote"
        PROVE  /\ Kept(jobs[i].from)
               /\ \A k \in Running' : jobs'[k].to = jobs[i].from => jobs'[k].todo = <<>>
    <3>1. PromoteOK(jobs[i])
      BY <2>1, <2>3 DEF JobOK, TrainOK, RetireOK, CompareOK, TrainJob, RetireJob, CompareJob
    <3>2. jobs[i].from \in Dir /\ jobs[i].from # jobs[j].to
      BY <1>1, <3>1 DEF PromoteOK, PromoteJob
    <3>3. Kept(jobs[i].from)
      BY <1>1, <3>2 DEF Kept
    <3>4. \A k \in Running' : jobs'[k].to = jobs[i].from => jobs'[k].todo = <<>>
      BY <1>1, <1>2, <3>1, <3>2 DEF PromoteOK
    <3> QED BY <3>3, <3>4
  <2>4. JobOK(jobs[i])'
    BY <1>1, <2>1, <2>2, <2>3, JobKept DEF Kept
  <2> QED BY <2>1, <2>2, <2>4 DEF StillAbsent
<1>6. ASSUME NEW d \in Dir PROVE FilesOK(d)'
  <2>1. CASE d = jobs[j].to
    BY <1>1, <1>3, <2>1
  <2>2. CASE d # jobs[j].to
    BY <1>1, <1>2, <2>2, FilesKept DEF Kept
  <2> QED BY <2>1, <2>2
<1>7. Typed' /\ ResultsOK' /\ ServedMeetsPolicy'
  BY <1>1, <1>2 DEF Typed, ResultsOK, ServedMeetsPolicy, Sound
<1>8. \A i, k \in Running' : i # k => jobs'[i].to # jobs'[k].to
  BY <1>1, <1>2
<1>9. \A i \in Running' : JobOK(jobs[i])' /\ StillAbsent(jobs[i])'
  BY <1>1, <1>3, <1>4, <1>5
<1> QED BY <1>6, <1>7, <1>8, <1>9 DEF Inv
-----------------------------------------------------------------------------
(* The end of a command, the world and the service.                        *)

\* Commands that go on keep what they rely on when directories are damaged or
\* other commands end.
LEMMA CommandsKeep ==
  ASSUME Inv, contract' = contract, Running' \subseteq Running, \A d \in Dir : Kept(d),
         \A i \in Running' : jobs'[i] = jobs[i],
         \A d \in Dir : \A f \in FileName : dirs[d][f] = None => dirs'[d][f] = None
  PROVE  /\ \A d \in Dir : FilesOK(d)'
         /\ \A i \in Running' : JobOK(jobs[i])' /\ StillAbsent(jobs[i])'
         /\ \A i, k \in Running' : i # k => jobs'[i].to # jobs'[k].to
<1>1. /\ \A d \in Dir : FilesOK(d)
      /\ \A i \in Running : JobOK(jobs[i]) /\ StillAbsent(jobs[i])
      /\ \A i, k \in Running : i # k => jobs[i].to # jobs[k].to
  BY DEF Inv
<1>2. ASSUME NEW i \in Running' PROVE JobOK(jobs[i])' /\ StillAbsent(jobs[i])'
  <2>1. i \in Running /\ jobs'[i] = jobs[i] /\ JobOK(jobs[i]) /\ StillAbsent(jobs[i])
    BY <1>1, <1>2
  <2>2. jobs[i].to \in Dir
    BY <2>1 DEF JobOK, TrainOK, PromoteOK, RetireOK, CompareOK, TrainJob, PromoteJob, RetireJob, CompareJob
  <2>3. ASSUME jobs[i].kind = "promote"
        PROVE  /\ Kept(jobs[i].from)
               /\ \A k \in Running' : jobs'[k].to = jobs[i].from => jobs'[k].todo = <<>>
    <3>1. PromoteOK(jobs[i])
      BY <2>1, <2>3 DEF JobOK, TrainOK, RetireOK, CompareOK, TrainJob, RetireJob, CompareJob
    <3> QED BY <3>1 DEF PromoteOK, PromoteJob
  <2>4. JobOK(jobs[i])'
    BY <2>1, <2>2, <2>3, JobKept
  <2> QED BY <2>1, <2>2, <2>4 DEF StillAbsent
<1>3. \A d \in Dir : FilesOK(d)'
  BY <1>1, FilesKept
<1>4. \A i, k \in Running' : i # k => jobs'[i].to # jobs'[k].to
  BY <1>1
<1> QED BY <1>2, <1>3, <1>4

\* A command ends, by itself or killed.
LEMMA EndSteps ==
  ASSUME Inv, NEW j \in Job, Finish(j) \/ Crash(j)
  PROVE  Inv'
<1>1. /\ j \in Running /\ jobs' = [jobs EXCEPT ![j] = Idle]
      /\ UNCHANGED <<dirs, contract, provider>>
      /\ \/ UNCHANGED <<results, promoted>>
         \/ /\ jobs[j].kind = "promote"
            /\ results' = results \cup {jobs[j].meta} /\ promoted' = promoted \cup {jobs[j].meta}
         \/ /\ jobs[j].kind = "retire"
            /\ results' = results \cup {jobs[j].meta} /\ promoted' = promoted
  BY DEF Finish, Crash
<1>2. /\ Typed /\ ResultsOK /\ ServedMeetsPolicy /\ JobOK(jobs[j])
  BY <1>1 DEF Inv
<1>3. DOMAIN jobs' = Job /\ jobs'[j] = Idle /\ \A i \in Job : i # j => jobs'[i] = jobs[i]
  BY <1>1, <1>2 DEF Typed
<1>4. Running' \subseteq Running /\ \A i \in Running' : jobs'[i] = jobs[i]
  BY <1>3 DEF Running
<1>5. /\ \A d \in Dir : FilesOK(d)'
      /\ \A i \in Running' : JobOK(jobs[i])' /\ StillAbsent(jobs[i])'
      /\ \A i, k \in Running' : i # k => jobs'[i].to # jobs'[k].to
  BY <1>1, <1>4, CommandsKeep DEF Kept
<1>6. /\ jobs[j].kind = "promote" => jobs[j].meta \in Metadata /\ Sound(jobs[j].meta)
      /\ jobs[j].kind = "retire" =>
           jobs[j].meta \in Metadata /\ Sound(jobs[j].meta) /\ jobs[j].meta.status = "retired"
  BY <1>2 DEF JobOK, TrainOK, PromoteOK, RetireOK, CompareOK, TrainJob, PromoteJob, RetireJob, CompareJob
<1>7. promoted \subseteq promoted' /\ results \subseteq results'
  BY <1>1
<1>8. ASSUME NEW meta \in results'
      PROVE  meta \in Metadata /\ Sound(meta) /\ (meta.status = "approved" => meta \in promoted')
  <2>1. CASE meta \in results
    BY <1>2, <1>7, <2>1 DEF ResultsOK
  <2>2. CASE meta \notin results
    BY <1>1, <1>6, <2>2
  <2> QED BY <2>1, <2>2
<1>9. ResultsOK'
  BY <1>1, <1>2, <1>7, <1>8 DEF ResultsOK, Sound
<1>10. Typed' /\ ServedMeetsPolicy'
  BY <1>1, <1>2, <1>3, <1>7 DEF Typed, ServedMeetsPolicy
<1> QED BY <1>5, <1>9, <1>10 DEF Inv

\* An artifact is damaged.
LEMMA DamageStep ==
  ASSUME Inv, NEW d \in Dir, Damage(d)
  PROVE  Inv'
<1>1. /\ dirs[d].artifact # None /\ dirs' = [dirs EXCEPT ![d].artifact.model = None]
      /\ UNCHANGED <<jobs, contract, results, promoted, provider>>
  BY DEF Damage
<1>2. Typed /\ ResultsOK /\ ServedMeetsPolicy
  BY DEF Inv
<1>3. /\ DOMAIN dirs' = Dir /\ \A e \in Dir : DOMAIN dirs'[e] = FileName
      /\ \A e \in Dir : e # d => dirs'[e] = dirs[e]
      /\ dirs'[d].artifact = [dirs[d].artifact EXCEPT !.model = None]
      /\ \A f \in FileName : f # "artifact" => dirs'[d][f] = dirs[d][f]
  BY <1>1, <1>2 DEF Typed, FileName
<1>4. \A e \in Dir : Kept(e)
  BY <1>3 DEF Kept, FileName
<1>5. \A e \in Dir : \A f \in FileName : dirs[e][f] = None => dirs'[e][f] = None
  BY <1>1, <1>3
<1>6. Running' = Running /\ \A i \in Running' : jobs'[i] = jobs[i]
  BY <1>1 DEF Running
<1>7. /\ \A e \in Dir : FilesOK(e)'
      /\ \A i \in Running' : JobOK(jobs[i])' /\ StillAbsent(jobs[i])'
      /\ \A i, k \in Running' : i # k => jobs'[i].to # jobs'[k].to
  BY <1>1, <1>4, <1>5, <1>6, CommandsKeep
<1>8. Typed' /\ ResultsOK' /\ ServedMeetsPolicy'
  BY <1>1, <1>2, <1>3 DEF Typed, ResultsOK, ServedMeetsPolicy, Sound
<1> QED BY <1>7, <1>8 DEF Inv

\* An operator empties a directory that no command uses.
LEMMA ClearStep ==
  ASSUME Inv, NEW d \in Dir, Clear(d)
  PROVE  Inv'
<1>1. /\ \A j \in Running : d # jobs[j].to /\ d # jobs[j].from
      /\ dirs' = [dirs EXCEPT ![d] = Empty]
      /\ UNCHANGED <<jobs, contract, results, promoted, provider>>
  BY DEF Clear
<1>2. /\ Typed /\ ResultsOK /\ ServedMeetsPolicy /\ \A e \in Dir : FilesOK(e)
      /\ \A i \in Running : JobOK(jobs[i]) /\ StillAbsent(jobs[i])
      /\ \A i, k \in Running : i # k => jobs[i].to # jobs[k].to
  BY DEF Inv
<1>3. /\ DOMAIN dirs' = Dir /\ dirs'[d] = Empty /\ \A e \in Dir : e # d => dirs'[e] = dirs[e]
  BY <1>1, <1>2 DEF Typed
<1>4. \A e \in Dir : DOMAIN dirs'[e] = FileName
  BY <1>2, <1>3 DEF Typed, Empty
<1>5. ASSUME NEW e \in Dir PROVE FilesOK(e)'
  <2>1. CASE e = d
    BY <1>3, <2>1 DEF FilesOK, Empty, FileName
  <2>2. CASE e # d
    BY <1>2, <1>3, <2>2, FilesKept DEF Kept
  <2> QED BY <2>1, <2>2
<1>6. Running' = Running
  BY <1>1 DEF Running
<1>7. ASSUME NEW i \in Running PROVE JobOK(jobs[i])' /\ StillAbsent(jobs[i])'
  <2>1. JobOK(jobs[i]) /\ StillAbsent(jobs[i]) /\ jobs' = jobs
    BY <1>1, <1>2
  <2>2. jobs[i].to \in Dir /\ dirs'[jobs[i].to] = dirs[jobs[i].to]
    BY <1>1, <1>3, <2>1 DEF JobOK, TrainOK, PromoteOK, RetireOK, CompareOK, TrainJob, PromoteJob,
                            RetireJob, CompareJob
  <2>3. ASSUME jobs[i].kind = "promote"
        PROVE  /\ Kept(jobs[i].from)
               /\ \A k \in Running' : jobs'[k].to = jobs[i].from => jobs'[k].todo = <<>>
    <3>1. PromoteOK(jobs[i])
      BY <2>1, <2>3 DEF JobOK, TrainOK, RetireOK, CompareOK, TrainJob, RetireJob, CompareJob
    <3>2. jobs[i].from \in Dir /\ dirs'[jobs[i].from] = dirs[jobs[i].from]
      BY <1>1, <1>3, <3>1 DEF PromoteOK, PromoteJob
    <3> QED BY <1>6, <2>1, <3>1, <3>2 DEF PromoteOK, Kept
  <2>4. JobOK(jobs[i])'
    BY <1>1, <2>1, <2>2, <2>3, JobKept DEF Kept
  <2> QED BY <2>1, <2>2, <2>4 DEF StillAbsent
<1>8. Typed' /\ ResultsOK' /\ ServedMeetsPolicy'
  BY <1>1, <1>2, <1>3, <1>4 DEF Typed, ResultsOK, ServedMeetsPolicy, Sound
<1> QED BY <1>1, <1>2, <1>5, <1>6, <1>7, <1>8 DEF Inv

\* A release, while no command runs.
LEMMA ReleaseStep ==
  ASSUME Inv, NEW k \in Contract, Release(k)
  PROVE  Inv'
<1>1. /\ Running = {} /\ contract' = k /\ provider' = [provider EXCEPT !.model = None]
      /\ UNCHANGED <<dirs, jobs, results, promoted>>
  BY DEF Release
<1>2. Typed /\ ResultsOK /\ \A e \in Dir : FilesOK(e)
  BY DEF Inv
<1>3. Running' = {}
  BY <1>1 DEF Running
<1>4. \A e \in Dir : FilesOK(e)'
  BY <1>1, <1>2, FilesKept DEF Kept
<1>5. /\ DOMAIN provider' = {"dir", "trusted", "model"} /\ provider'.model = None
      /\ provider'.trusted = provider.trusted
  BY <1>1, <1>2 DEF Typed
<1>6. Typed' /\ ResultsOK' /\ ServedMeetsPolicy'
  BY <1>1, <1>2, <1>5 DEF Typed, ResultsOK, ServedMeetsPolicy, Sound
<1> QED BY <1>3, <1>4, <1>6 DEF Inv

\* The service is deployed, or loads its model.
LEMMA ServiceSteps ==
  ASSUME Inv, Get \/ \E d \in Dir : \E digest \in results : Deploy(d, digest)
  PROVE  Inv'
<1>1. UNCHANGED <<dirs, jobs, contract, results, promoted>>
  BY DEF Get, Deploy
<1>2. Typed /\ ResultsOK
  BY DEF Inv
<1>3. /\ \A d \in Dir : FilesOK(d)'
      /\ \A i \in Running' : JobOK(jobs[i])' /\ StillAbsent(jobs[i])'
      /\ \A i, k \in Running' : i # k => jobs'[i].to # jobs'[k].to
  <2>1. Running' \subseteq Running
    BY <1>1 DEF Running
  <2> QED BY <1>1, <2>1, CommandsKeep DEF Kept
<1>4. CASE Get
  <2>1. PICK files, trusted : files = dirs[provider.dir] /\ trusted = provider.trusted
    OBVIOUS
  <2>2. Loads(files, trusted) /\ provider' = [provider EXCEPT !.model = files]
    BY <1>4, <2>1 DEF Get
  <2>3. /\ DOMAIN provider' = {"dir", "trusted", "model"} /\ provider'.model = files
        /\ provider'.trusted = trusted
    BY <1>2, <2>1, <2>2 DEF Typed
  <2>4. /\ trusted \in results /\ files.metadata = trusted /\ trusted.status = "approved"
        /\ files.artifact = trusted.artifact /\ files.artifact.model # None
        /\ files.artifact.contract = contract
    BY <1>2, <2>1, <2>2 DEF Loads, ResultsOK
  <2>5. Sound(trusted) /\ trusted \in promoted
    BY <1>2, <2>4 DEF ResultsOK
  <2>6. <<files.artifact.model, files.metadata.data>> \in Good
    BY <2>4, <2>5 DEF Sound
  <2>7. ServedMeetsPolicy'
    BY <1>1, <2>3, <2>4, <2>5, <2>6 DEF ServedMeetsPolicy
  <2>8. Typed' /\ ResultsOK'
    BY <1>1, <1>2, <2>1, <2>3 DEF Typed, ResultsOK, Sound
  <2> QED BY <1>3, <2>7, <2>8 DEF Inv
<1>5. CASE \E d \in Dir : \E digest \in results : Deploy(d, digest)
  <2>1. /\ DOMAIN provider' = {"dir", "trusted", "model"} /\ provider'.model = None
        /\ provider'.trusted \in results
    BY <1>5 DEF Deploy
  <2>2. Typed' /\ ResultsOK' /\ ServedMeetsPolicy'
    BY <1>1, <1>2, <2>1 DEF Typed, ResultsOK, ServedMeetsPolicy, Sound
  <2> QED BY <1>3, <2>2 DEF Inv
<1> QED BY <1>4, <1>5
-----------------------------------------------------------------------------
(* The theorems.                                                           *)

\* Directories, running commands, printed digests and the service stay in the
\* relation that the loader and the promotion rely on.
THEOREM Invariance == ASSUME SharedOutput = FALSE PROVE Spec => []Inv
<1>1. Init => Inv
  <2> SUFFICES ASSUME Init PROVE Inv
    OBVIOUS
  <2>1. contract \in Contract
    BY RegistryAssumption DEF Init
  <2>2. Running = {}
    BY DEF Init, Running
  <2>3. Typed
    BY <2>1 DEF Init, Typed, Empty
  <2>4. (\A d \in Dir : FilesOK(d)) /\ ResultsOK /\ ServedMeetsPolicy
    BY DEF Init, FilesOK, ResultsOK, ServedMeetsPolicy, Empty, FileName
  <2> QED BY <2>2, <2>3, <2>4 DEF Inv
<1>2. Inv /\ [Next]_vars => Inv'
  <2> SUFFICES ASSUME Inv, [Next]_vars PROVE Inv'
    OBVIOUS
  <2>1. CASE UNCHANGED vars
    <3>1. UNCHANGED <<dirs, jobs, contract, results, promoted, provider>>
      BY <2>1 DEF vars
    <3>2. Running' = Running
      BY <3>1 DEF Running
    <3>3. /\ \A d \in Dir : FilesOK(d)'
          /\ \A i \in Running' : JobOK(jobs[i])' /\ StillAbsent(jobs[i])'
          /\ \A i, k \in Running' : i # k => jobs'[i].to # jobs'[k].to
      BY <3>1, <3>2, CommandsKeep DEF Kept
    <3> QED BY <3>1, <3>3 DEF Inv, Typed, ResultsOK, ServedMeetsPolicy, Sound
  <2>2. CASE \E j \in Job :
               \/ \E m \in Model, d \in Dataset, to \in Dir : Train(j, m, d, to)
               \/ \E f, l, to \in Dir, d \in Dataset : Compare(j, f, l, d, to)
               \/ \E from, to \in Dir, cmp \in Dir \cup {None} : Promote(j, from, cmp, to)
               \/ \E from, to \in Dir : Retire(j, from, to)
    BY <2>2, TrainStep, CompareStep, PromoteStep, RetireStep
  <2>3. CASE \E j \in Job : Write(j) \/ Finish(j) \/ Crash(j)
    BY <2>3, WriteStep, EndSteps
  <2>4. CASE \E d \in Dir : Damage(d) \/ Clear(d)
    BY <2>4, DamageStep, ClearStep
  <2>5. CASE \E k \in Contract : Release(k)
    BY <2>5, ReleaseStep
  <2>6. CASE Get \/ \E d \in Dir : \E digest \in results : Deploy(d, digest)
    BY <2>6, ServiceSteps
  <2> QED BY <2>1, <2>2, <2>3, <2>4, <2>5, <2>6 DEF Next
<1> QED BY <1>1, <1>2, PTL DEF Spec

\* The bytes that serve inference are of a model whose own test metrics met the
\* policy, on the contract of the service, and of a completed promotion, for
\* commands with output directories of their own.
THEOREM ServedIsPromoted ==
  ASSUME SharedOutput = FALSE PROVE Spec => []ServedMeetsPolicy
<1>1. Inv => ServedMeetsPolicy
  BY DEF Inv
<1> QED BY <1>1, Invariance, PTL

\* A registry with an approval record can be loaded, unless its artifact was
\* damaged, although promotion copies file by file and may be killed.
THEOREM ApprovedLoads ==
  ASSUME SharedOutput = FALSE PROVE Spec => []ApprovalIsComplete
<1>1. Inv => ApprovalIsComplete
  <2> SUFFICES ASSUME Inv, NEW d \in Dir, dirs[d].metadata # None,
                      dirs[d].metadata.status = "approved",
                      ~Damaged(dirs[d]), dirs[d].metadata.contract = contract
               PROVE  Loads(dirs[d], dirs[d].metadata)
    BY DEF ApprovalIsComplete
  <2>1. PICK meta : meta = dirs[d].metadata
    OBVIOUS
  <2>2. /\ meta \in Metadata /\ Sound(meta) /\ dirs[d].schema = contract
        /\ dirs[d].artifact \in Maybe(meta.artifact)
    BY <2>1 DEF Inv, FilesOK
  <2>3. meta.artifact \in ArtifactFile
    BY <2>2 DEF Metadata, ArtifactFile
  <2>4. /\ meta.artifact # None /\ [meta.artifact EXCEPT !.model = None] # None
        /\ [meta.artifact EXCEPT !.model = None].model = None
    <3>1. [meta.artifact EXCEPT !.model = None] \in ArtifactFile
      BY <2>3 DEF ArtifactFile
    <3> QED BY <2>3, <3>1, RegistryAssumption DEF ArtifactFile, Model
  <2>5. dirs[d].artifact = meta.artifact /\ dirs[d].artifact.model # None
    BY <2>2, <2>4 DEF Damaged, Maybe
  <2> QED BY <2>1, <2>2, <2>5 DEF Loads, Sound
<1> QED BY <1>1, Invariance, PTL
-----------------------------------------------------------------------------
(* The parts that stand alone (Algorithms).                                *)

\* A step chooses an input, or goes on with a run, the ledgers or the credential.
LEMMA PureSteps ==
  ASSUME AlgorithmsNext
  PROVE  \/ /\ input.of = "nothing"
            /\ \/ \E o \in Trials : \E chosen \in select(o) :
                    input' = [of |-> "trial", value |-> NewRun(o, chosen)]
               \/ \E i \in Captures : input' = [of |-> "capture", value |-> i]
               \/ \E i \in Experiments : input' = [of |-> "experiment", value |-> i]
               \/ \E i \in Histories : input' = [of |-> "history", value |-> i]
               \/ \E i \in Benchmarks : input' = [of |-> "benchmark", value |-> i]
               \/ \E i \in Requests : input' = [of |-> "request", value |-> i]
               \/ \E i \in Audits : input' = [of |-> "audit", value |-> i]
               \/ \E i \in Firewalls : input' = [of |-> "firewall", value |-> i]
               \/ input' = [of |-> "ledgers", value |-> NewLedgers]
               \/ \E t \in {"k1", "k2"} : input' = [of |-> "credential", value |-> NewCredential(t)]
         \/ input.of = "ledgers" /\ CallLedgers
         \/ input.of = "credential" /\ UseCredential
         \/ input.of = "trial" /\ RunLab
<1>1. CASE ExtractFeatures
  BY <1>1 DEF ExtractFeatures, Choose
<1>2. CASE LookUpHistory
  BY <1>2 DEF LookUpHistory, Choose
<1>3. CASE CompareDetectors
  BY <1>3 DEF CompareDetectors, Choose
<1>4. CASE BuildDataset
  BY <1>4 DEF BuildDataset, Choose
<1>5. CASE Decide
  BY <1>5 DEF Decide, Choose
<1>6. CASE ReportCompliance
  BY <1>6 DEF ReportCompliance, Choose
<1>7. CASE BlockAddress
  BY <1>7 DEF BlockAddress, Choose
<1>8. CASE TryLab
  BY <1>8 DEF TryLab, Choose
<1>9. CASE OpenLedgers
  BY <1>9 DEF OpenLedgers, Choose
<1>10. CASE StartWorker
  BY <1>10 DEF StartWorker, Choose
<1>11. CASE CallLedgers
  <2>1. input.of = "ledgers"
    BY ONLY <1>11, Zenon DEF CallLedgers
  <2> QED BY <1>11, <2>1
<1>12. CASE UseCredential
  BY <1>12 DEF UseCredential
<1>13. CASE RunLab
  BY <1>13 DEF RunLab
<1> QED BY <1>1, <1>2, <1>3, <1>4, <1>5, <1>6, <1>7, <1>8, <1>9, <1>10, <1>11, <1>12, <1>13 DEF AlgorithmsNext

Shaped == input = [of |-> input.of, value |-> input.value]

\* Going on with a run, the ledgers or the credential leaves the kind of the input.
LEMMA GoingOn ==
  ASSUME Shaped
  PROVE  /\ CallLedgers => Shaped' /\ input'.of = input.of
         /\ UseCredential => Shaped' /\ input'.of = input.of
         /\ RunLab => Shaped' /\ input'.of = input.of
<1>1. ASSUME NEW v, input' = [input EXCEPT !.value = v]
      PROVE  input' = [of |-> input.of, value |-> v] /\ Shaped' /\ input'.of = input.of
  BY <1>1 DEF Shaped
<1>2. CallLedgers => \E v : input' = [input EXCEPT !.value = v]
  <2>1. ASSUME NEW call, Call(call)
        PROVE  input' = [input EXCEPT !.value = Called(input.value, call)]
    BY <2>1 DEF Call
  <2> QED BY <2>1, Zenon DEF CallLedgers
<1>3. UseCredential => \E v : input' = [input EXCEPT !.value = v]
  <2>1. ASSUME input' = [input EXCEPT !.value = Reload(@)]
        PROVE  input' = [input EXCEPT !.value = Reload(input.value)]
    BY <2>1
  <2>2. ASSUME NEW t, input' = [input EXCEPT !.value = Provision(@, t)]
        PROVE  input' = [input EXCEPT !.value = Provision(input.value, t)]
    BY <2>2
  <2> QED BY <2>1, <2>2, Zenon DEF UseCredential
<1>4. RunLab => \E v : input' = [input EXCEPT !.value = v]
  <2>1. ASSUME input' = [input EXCEPT !.value = Advance(@)]
        PROVE  input' = [input EXCEPT !.value = Advance(input.value)]
    BY <2>1
  <2>2. ASSUME input' = [input EXCEPT !.value = Interrupt(@)]
        PROVE  input' = [input EXCEPT !.value = Interrupt(input.value)]
    BY <2>2
  <2> QED BY <2>1, <2>2, Zenon DEF RunLab
<1> QED BY <1>1, <1>2, <1>3, <1>4

-----------------------------------------------------------------------------
(* The credential.                                                         *)

\* The record of a worker.
Worker(s, t, p, v, q) == [file |-> [stamp |-> s, token |-> t], _stamp |-> p, _value |-> v, pending |-> q]

\* Every stamp the worker knows is that of a version that was written, and its
\* value is the token of the file when that version is the last.
StampSeen(q, s) == q = <<>> \/ \E n \in 0..s : q = <<n>>
ValueCurrent(s, t, p, v) == p = s /\ t \notin {"malformed", "no file"} => v = t

CredentialOK(c) ==
  \E s \in Nat : \E p \in 0..s : \E t, v, q :
    c = Worker(s, t, p, v, q) /\ StampSeen(q, s) /\ ValueCurrent(s, t, p, v)

LEMMA WorkerOK ==
  ASSUME NEW s \in Nat, NEW t, NEW v, NEW q, NEW p \in 0..s, StampSeen(q, s), ValueCurrent(s, t, p, v)
  PROVE  CredentialOK(Worker(s, t, p, v, q))
<1> QED BY Zenon DEF CredentialOK

\* A step of the worker: the token that it reads may be newer than the stamp
\* it took, never older.
LEMMA ReloadKeeps ==
  ASSUME NEW c, CredentialOK(c)
  PROVE  CredentialOK(Reload(c))
<1>0. PICK s \in Nat : \E p \in 0..s :
        \E t, v, q : c = Worker(s, t, p, v, q) /\ StampSeen(q, s) /\ ValueCurrent(s, t, p, v)
  BY DEF CredentialOK
<1>1. PICK p \in 0..s : \E t, v, q : c = Worker(s, t, p, v, q) /\ StampSeen(q, s) /\ ValueCurrent(s, t, p, v)
  BY <1>0
<1>2. PICK t, v, q : c = Worker(s, t, p, v, q) /\ StampSeen(q, s) /\ ValueCurrent(s, t, p, v)
  BY <1>1
<1>3. /\ c.file.stamp = s /\ c.file.token = t /\ c._stamp = p /\ c._value = v /\ c.pending = q
      /\ \A x : [c EXCEPT !.pending = x] = Worker(s, t, p, v, x)
  BY <1>2 DEF Worker
<1>4. ASSUME NEW n
      PROVE  [c EXCEPT !.pending = <<>>, !._value = t, !._stamp = n] = Worker(s, t, n, t, <<>>)
  <2>1. [Worker(s, t, p, v, <<>>) EXCEPT !._value = t] = Worker(s, t, p, t, <<>>)
    BY DEF Worker
  <2>2. [Worker(s, t, p, t, <<>>) EXCEPT !._stamp = n] = Worker(s, t, n, t, <<>>)
    BY DEF Worker
  <2> QED BY <1>3, <2>1, <2>2
<1>5. CASE q = <<>>
  <2>1. Reload(c) = c \/ Reload(c) = Worker(s, t, p, v, <<s>>)
    BY <1>3, <1>5 DEF Reload
  <2>2. StampSeen(<<s>>, s)
    BY DEF StampSeen
  <2>3. CredentialOK(Worker(s, t, p, v, <<s>>))
    BY <1>2, <2>2, WorkerOK
  <2> QED BY <2>1, <2>3
<1>6. ASSUME NEW n \in 0..s, q = <<n>>
      PROVE  CredentialOK(Reload(c))
  <2>1. q # <<>> /\ q[1] = n /\ StampSeen(<<>>, s)
    BY <1>6 DEF StampSeen
  <2>2. CASE t \in {"malformed", "no file"}
    <3>1. Reload(c) = Worker(s, t, p, v, <<>>)
      BY <1>3, <2>1, <2>2 DEF Reload, Malformed, NoFile
    <3> QED BY <1>2, <2>1, <3>1, WorkerOK
  <2>3. CASE t \notin {"malformed", "no file"}
    <3>1. Reload(c) = Worker(s, t, n, t, <<>>)
      BY <1>3, <1>4, <2>1, <2>3 DEF Reload, Malformed, NoFile
    <3>2. ValueCurrent(s, t, n, t)
      BY DEF ValueCurrent
    <3> QED BY <1>6, <2>1, <3>1, <3>2, WorkerOK
  <2> QED BY <2>2, <2>3
<1> QED BY <1>2, <1>5, <1>6 DEF StampSeen

\* A step of the provisioning job, whose version no worker knows yet.
LEMMA ProvisionKeeps ==
  ASSUME NEW c, CredentialOK(c), NEW x
  PROVE  CredentialOK(Provision(c, x))
<1>0. PICK s \in Nat : \E p \in 0..s : \E t, v, q : c = Worker(s, t, p, v, q) /\ StampSeen(q, s)
  BY DEF CredentialOK
<1>1. PICK p \in 0..s : \E t, v, q : c = Worker(s, t, p, v, q) /\ StampSeen(q, s)
  BY <1>0
<1>2. PICK t, v, q : c = Worker(s, t, p, v, q) /\ StampSeen(q, s)
  BY <1>1
<1>3. Provision(c, x) = Worker(s + 1, x, p, v, q)
  BY <1>2 DEF Worker, Provision
<1>4. s + 1 \in Nat /\ p \in 0..(s + 1) /\ p # s + 1
  OBVIOUS
<1>5. StampSeen(q, s + 1)
  BY <1>2 DEF StampSeen
<1>6. ValueCurrent(s + 1, x, p, v)
  BY <1>4, Zenon DEF ValueCurrent
<1> QED BY <1>3, <1>4, <1>5, <1>6, WorkerOK

-----------------------------------------------------------------------------
(* The audit ledgers.                                                      *)

\* The events that CallLedgers builds.
AuditRow ==
  [response_id : Response, policy_id : {"policy"}, state : STATES, action_intent : BOOLEAN,
   at : {1, 2}, previous_state : STATES \cup {"none"}, transition_number : Nat]

LEMMA RowFields ==
  ASSUME NEW e \in AuditRow
  PROVE  /\ e.response_id \in Response /\ e.state \in STATES /\ e.policy_id = "policy"
         /\ e.transition_number \in Nat /\ e.at \in {1, 2}
<1> QED BY DEF AuditRow

\* A history: each event is one that may follow those before it.
Valid(h) == \A i \in 1..Len(h) : validate_transition(h[i], SubSeq(h, 1, i - 1))

IsHistory(h, r) ==
  /\ h \in Seq(AuditRow) /\ Len(h) > 0
  /\ \A i \in 1..Len(h) : h[i].response_id = r
  /\ Valid(h)

LEMMA LastStateOf ==
  ASSUME NEW h \in Seq(AuditRow)
  PROVE  /\ Len(h) = 0 => LastState(h) = "none"
         /\ Len(h) > 0 => LastState(h) = h[Len(h)].state /\ LastState(h) \in STATES
<1>1. CASE Len(h) = 0
  <2>1. h = <<>>
    BY <1>1
  <2> QED BY <1>1, <2>1 DEF LastState, NoState
<1>2. CASE Len(h) > 0
  <2>1. h # <<>> /\ Len(h) \in 1..Len(h) /\ h[Len(h)] \in AuditRow
    BY <1>2
  <2>2. LastState(h) = h[Len(h)].state
    BY <2>1 DEF LastState, Last
  <2> QED BY <1>2, <2>1, <2>2, RowFields
<1> QED BY <1>1, <1>2

\* What may follow what.
LEMMA AllowedIs ==
  /\ _ALLOWED("none") = {"REQUESTED"}
  /\ _ALLOWED("REQUESTED") = {"APPLIED", "FAILED", "ROLLED_BACK"}
  /\ _ALLOWED("APPLIED") = {"VERIFIED", "ROLLED_BACK", "FAILED"}
  /\ _ALLOWED("VERIFIED") = {"EXPIRED", "ROLLED_BACK", "FAILED"}
  /\ _ALLOWED("FAILED") = {"FAILED", "ROLLED_BACK"}
  /\ _ALLOWED("EXPIRED") = {} /\ _ALLOWED("ROLLED_BACK") = {}
<1> QED BY DEF _ALLOWED, NoState, TERMINAL_STATES

\* The events before an event of a history.
LEMMA PrefixOf ==
  ASSUME NEW h \in Seq(AuditRow), NEW i \in 1..Len(h)
  PROVE  /\ SubSeq(h, 1, i - 1) \in Seq(AuditRow) /\ Len(SubSeq(h, 1, i - 1)) = i - 1
         /\ \A j \in 1..(i - 1) : SubSeq(h, 1, i - 1)[j] = h[j]
         /\ LastState(SubSeq(h, 1, i - 1)) = IF i = 1 THEN "none" ELSE h[i - 1].state
<1>1. /\ SubSeq(h, 1, i - 1) \in Seq(AuditRow) /\ Len(SubSeq(h, 1, i - 1)) = i - 1
      /\ \A j \in 1..(i - 1) : SubSeq(h, 1, i - 1)[j] = h[j]
  OBVIOUS
<1> DEFINE p == SubSeq(h, 1, i - 1)
<1> HIDE DEF p
<1>2. CASE i = 1
  <2>1. Len(p) = 0 /\ p \in Seq(AuditRow)
    BY <1>1, <1>2 DEF p
  <2>2. LastState(p) = "none"
    BY <2>1, LastStateOf
  <2> QED BY <1>1, <1>2, <2>2 DEF p
<1>3. CASE i # 1
  <2>1. Len(p) > 0 /\ p \in Seq(AuditRow) /\ Len(p) = i - 1 /\ p[i - 1] = h[i - 1]
    BY <1>1, <1>3 DEF p
  <2>2. LastState(p) = h[i - 1].state
    BY <2>1, LastStateOf
  <2> QED BY <1>1, <1>3, <2>2 DEF p
<1> QED BY <1>2, <1>3

\* What the lifecycle makes of a history.
LEMMA HistoryFacts ==
  ASSUME NEW r, NEW h, IsHistory(h, r), NEW i \in 1..Len(h)
  PROVE  /\ h[i] \in AuditRow /\ h[i].transition_number = i
         /\ h[i].state = "REQUESTED" <=> i = 1
         /\ i > 1 => /\ i - 1 \in 1..Len(h) /\ h[i - 1] \in AuditRow
                     /\ h[i].state \in _ALLOWED(h[i - 1].state)
                     /\ (h[i - 1].state = "FAILED" \/ (h[i - 1].state = "REQUESTED" /\ h[i].state = "ROLLED_BACK"))
                          => (\E j \in 1..(i - 1) : h[j].state = "APPLIED") \/ h[i].action_intent
<1>1. h \in Seq(AuditRow) /\ h[i] \in AuditRow /\ validate_transition(h[i], SubSeq(h, 1, i - 1))
  BY DEF IsHistory, Valid
<1> DEFINE p == SubSeq(h, 1, i - 1)
<1>2. /\ p \in Seq(AuditRow) /\ Len(p) = i - 1 /\ DOMAIN p = 1..(i - 1)
      /\ \A j \in 1..(i - 1) : p[j] = h[j]
      /\ LastState(p) = IF i = 1 THEN "none" ELSE h[i - 1].state
  BY <1>1, PrefixOf
<1> HIDE DEF p
<1>3. /\ h[i].state \in _ALLOWED(LastState(p))
      /\ (LastState(p) = "FAILED" \/ (LastState(p) = "REQUESTED" /\ h[i].state = "ROLLED_BACK"))
           => (\E j \in DOMAIN p : p[j].state = "APPLIED") \/ h[i].action_intent
      /\ h[i].transition_number = Len(p) + 1
  BY <1>1, Zenon DEF validate_transition, p
<1>4. h[i].transition_number = i
  BY <1>2, <1>3
<1>5. CASE i = 1
  <2>1. h[i].state = "REQUESTED"
    BY <1>2, <1>3, <1>5, AllowedIs
  <2> QED BY <1>1, <1>4, <1>5, <2>1
<1>6. CASE i # 1
  <2>1. i > 1 /\ i - 1 \in 1..Len(h) /\ h[i - 1] \in AuditRow
    BY <1>1, <1>6
  <2>2. h[i - 1].state \in STATES /\ h[i].state \in _ALLOWED(h[i - 1].state)
    BY <1>2, <1>3, <1>6, <2>1, RowFields
  <2>3. h[i].state # "REQUESTED"
    BY <2>2, AllowedIs DEF STATES
  <2> QED BY <1>1, <1>2, <1>3, <1>4, <1>6, <2>1, <2>2, <2>3
<1> QED BY <1>5, <1>6

\* The first k events of a history are k rows.
LEMMA CountPrefix ==
  ASSUME NEW r, NEW h, IsHistory(h, r), NEW k \in 0..Len(h)
  PROVE  Cardinality({h[i] : i \in 1..k}) = k
<1> DEFINE f == [i \in 1..k |-> h[i]]
           S == {h[i] : i \in 1..k}
<1>1. Len(h) \in Nat /\ k \in Nat
  BY DEF IsHistory
<1>2. ASSUME NEW i \in 1..k, NEW j \in 1..k, h[i] = h[j]
      PROVE  i = j
  <2>1. i \in 1..Len(h) /\ j \in 1..Len(h)
    BY <1>1
  <2> QED BY <1>2, <2>1, HistoryFacts
<1>3. f \in [1..k -> S] /\ \A x \in S : \E i \in 1..k : f[i] = x
  OBVIOUS
<1>4. f \in Bijection(1..k, S)
  BY <1>2, <1>3 DEF Bijection, Injection, Surjection, IsInjective
<1>5. ExistsBijection(1..k, S)
  BY <1>4 DEF ExistsBijection
<1> HIDE DEF S, f
<1>6. Cardinality(S) = k
  BY <1>1, <1>5, FS_CountingElements
<1> QED BY <1>6 DEF S

\* The dictionary of a ledger in memory, and the table a file keeps for it.
HistoriesOK(B) == IsFiniteSet(DOMAIN B) /\ \A r \in DOMAIN B : IsHistory(B[r], r)
AuditOf(B) == {e \in AuditRow : \E r \in DOMAIN B : \E i \in 1..Len(B[r]) : e = B[r][i]}

\* The rows of a response.
LEMMA RowsOf ==
  ASSUME NEW B, HistoriesOK(B), NEW r
  PROVE  {e \in AuditOf(B) : e.response_id = r}
           = IF r \in DOMAIN B THEN {B[r][i] : i \in 1..Len(B[r])} ELSE {}
<1> DEFINE rows == {e \in AuditOf(B) : e.response_id = r}
<1>1. ASSUME NEW e \in rows
      PROVE  r \in DOMAIN B /\ \E i \in 1..Len(B[r]) : e = B[r][i]
  <2>1. PICK q \in DOMAIN B : \E i \in 1..Len(B[q]) : e = B[q][i]
    BY DEF AuditOf
  <2>2. PICK i \in 1..Len(B[q]) : e = B[q][i]
    BY <2>1
  <2>3. B[q][i].response_id = q
    BY DEF HistoriesOK, IsHistory
  <2> QED BY <2>2, <2>3
<1>2. ASSUME r \in DOMAIN B, NEW i \in 1..Len(B[r])
      PROVE  B[r][i] \in rows
  <2>1. IsHistory(B[r], r)
    BY <1>2 DEF HistoriesOK
  <2>2. B[r][i] \in AuditRow /\ B[r][i].response_id = r
    BY <2>1, HistoryFacts DEF IsHistory
  <2> QED BY <1>2, <2>2 DEF AuditOf
<1> HIDE DEF rows
<1>3. rows = IF r \in DOMAIN B THEN {B[r][i] : i \in 1..Len(B[r])} ELSE {}
  BY <1>1, <1>2
<1> QED BY <1>3 DEF rows

\* The file gives back the history that is in memory.
LEMMA FileIsMemory ==
  ASSUME NEW B, HistoriesOK(B), NEW f, f.audit = AuditOf(B), NEW r
  PROVE  FileEvents(f, r) = IF r \in DOMAIN B THEN B[r] ELSE <<>>
<1> DEFINE rows == {e \in f.audit : e.response_id = r}
           before(e) == {x \in rows : x.transition_number < e.transition_number}
           nth(n) == CHOOSE e \in rows : Cardinality(before(e)) = n - 1
<1>1. FileEvents(f, r) = [n \in 1..Cardinality(rows) |-> nth(n)]
  BY DEF FileEvents
<1>2. rows = IF r \in DOMAIN B THEN {B[r][i] : i \in 1..Len(B[r])} ELSE {}
  BY RowsOf
<1>3. CASE r \notin DOMAIN B
  <2>1. Cardinality(rows) = 0
    BY <1>2, <1>3, FS_EmptySet
  <2> HIDE DEF rows, nth
  <2> QED BY <1>1, <1>3, <2>1
<1>4. CASE r \in DOMAIN B
  <2> DEFINE h == B[r]
  <2>1. IsHistory(h, r) /\ rows = {h[i] : i \in 1..Len(h)}
    BY <1>2, <1>4 DEF HistoriesOK
  <2> HIDE DEF h, rows
  <2>2. h \in Seq(AuditRow) /\ Len(h) \in Nat /\ Len(h) \in 0..Len(h)
    BY <2>1 DEF IsHistory
  <2>3. Cardinality(rows) = Len(h)
    BY <2>1, <2>2, CountPrefix
  <2>4. ASSUME NEW i \in 1..Len(h)
        PROVE  h[i] \in rows /\ Cardinality(before(h[i])) = i - 1
    <3>1. \A j \in 1..Len(h) : h[j].transition_number = j
      BY <2>1, HistoryFacts
    <3>2. before(h[i]) = {h[j] : j \in 1..(i - 1)}
      BY <2>1, <2>2, <3>1
    <3>3. i - 1 \in 0..Len(h)
      BY <2>2
    <3>4. Cardinality({h[j] : j \in 1..(i - 1)}) = i - 1
      BY <2>1, <3>3, CountPrefix
    <3> HIDE DEF before
    <3> QED BY <2>1, <3>2, <3>4
  <2> HIDE DEF before
  <2>5. ASSUME NEW n \in 1..Len(h)
        PROVE  nth(n) = h[n]
    <3>1. h[n] \in rows /\ Cardinality(before(h[n])) = n - 1
      BY <2>4
    <3>2. nth(n) \in rows /\ Cardinality(before(nth(n))) = n - 1
      BY <3>1
    <3> HIDE DEF nth
    <3>3. PICK m \in 1..Len(h) : nth(n) = h[m]
      BY <2>1, <3>2
    <3>4. m - 1 = n - 1
      BY <2>4, <3>2, <3>3
    <3> QED BY <2>2, <3>3, <3>4
  <2> HIDE DEF nth
  <2>6. FileEvents(f, r) = [n \in 1..Len(h) |-> h[n]]
    BY <1>1, <2>3, <2>5
  <2>7. h = [n \in 1..Len(h) |-> h[n]]
    BY <2>2
  <2> QED BY <1>4, <2>6, <2>7 DEF h
<1> QED BY <1>3, <1>4

\* The file counts first events and the memory requests: they are the same.
LEMMA SameRequests ==
  ASSUME NEW B, HistoriesOK(B), NEW f, f.audit = AuditOf(B), NEW m, m.by_response = B, NEW since \in Nat
  PROVE  MemoryRequestedSince(m, "policy", since) = FileRequestedSince(f, "policy", since)
<1> DEFINE D == {r \in DOMAIN B : B[r][1].at > since}
           P == {<<r, 1>> : r \in D}
           R == {B[r][1] : r \in D}
           pair == [r \in D |-> <<r, 1>>]
           first == [r \in D |-> B[r][1]]
<1>1. ASSUME NEW r \in DOMAIN B
      PROVE  /\ B[r][1] \in AuditRow /\ B[r][1].response_id = r /\ 1 \in 1..Len(B[r])
             /\ DOMAIN B[r] = 1..Len(B[r])
             /\ \A i \in 1..Len(B[r]) :
                  /\ B[r][i] \in AuditRow /\ B[r][i].policy_id = "policy" /\ B[r][i].transition_number = i
                  /\ B[r][i].state = "REQUESTED" <=> i = 1
  <2>1. IsHistory(B[r], r)
    BY DEF HistoriesOK
  <2>2. B[r] \in Seq(AuditRow) /\ 1 \in 1..Len(B[r]) /\ B[r][1].response_id = r
    BY <2>1 DEF IsHistory
  <2>3. ASSUME NEW i \in 1..Len(B[r])
        PROVE  /\ B[r][i] \in AuditRow /\ B[r][i].policy_id = "policy" /\ B[r][i].transition_number = i
               /\ B[r][i].state = "REQUESTED" <=> i = 1
    BY <2>1, HistoryFacts, RowFields
  <2> QED BY <2>2, <2>3
<1>2. MemoryRequestedSince(m, "policy", since) = Cardinality(P)
  <2> DEFINE counted(e) == e.state = "REQUESTED" /\ e.policy_id = "policy" /\ e.at > since
             events(r) == {i \in DOMAIN m.by_response[r] : counted(m.by_response[r][i])}
             U == UNION {{r} \X events(r) : r \in DOMAIN m.by_response}
  <2>1. MemoryRequestedSince(m, "policy", since) = Cardinality(U)
    BY DEF MemoryRequestedSince
  <2>2. ASSUME NEW r \in DOMAIN B
        PROVE  events(r) = IF r \in D THEN {1} ELSE {}
    BY <1>1
  <2> HIDE DEF events
  <2>3. U = P
    BY <2>2
  <2> QED BY <2>1, <2>3
<1>3. FileRequestedSince(f, "policy", since) = Cardinality(R)
  <2> DEFINE W == {e \in f.audit : e.transition_number = 1 /\ e.policy_id = "policy" /\ e.at > since}
  <2>1. FileRequestedSince(f, "policy", since) = Cardinality(W)
    BY DEF FileRequestedSince
  <2>2. W = R
    BY <1>1 DEF AuditOf
  <2> QED BY <2>1, <2>2
<1>4. IsFiniteSet(D)
  BY FS_Subset DEF HistoriesOK
<1>5. pair \in Bijection(D, P)
  BY DEF Bijection, Injection, Surjection, IsInjective
<1>6. first \in Bijection(D, R)
  <2>1. first \in [D -> R] /\ \A x \in R : \E r \in D : first[r] = x
    OBVIOUS
  <2>2. \A r, q \in D : first[r] = first[q] => r = q
    BY <1>1
  <2> HIDE DEF D, R, first
  <2> QED BY <2>1, <2>2 DEF Bijection, Injection, Surjection, IsInjective
<1> HIDE DEF D, P, R, pair, first
<1>7. Cardinality(P) = Cardinality(D) /\ Cardinality(R) = Cardinality(D)
  BY <1>4, <1>5, <1>6, FS_Bijection DEF ExistsBijection
<1> QED BY <1>2, <1>3, <1>7

\* Nothing follows a state that says the response was lifted.
LEMMA TerminalIsLast ==
  ASSUME NEW r, NEW h, IsHistory(h, r), NEW i \in 1..Len(h), h[i].state \in {"EXPIRED", "ROLLED_BACK"}
  PROVE  i = Len(h)
<1>1. SUFFICES ASSUME i # Len(h) PROVE FALSE
  OBVIOUS
<1>2. h \in Seq(AuditRow) /\ i + 1 \in 1..Len(h) /\ i + 1 > 1 /\ (i + 1) - 1 = i
  BY <1>1 DEF IsHistory
<1>3. h[i + 1].state \in _ALLOWED(h[i].state)
  BY <1>2, HistoryFacts
<1> QED BY <1>3, AllowedIs

\* A rollback has its ground in the history.
LEMMA RollbackFounded ==
  ASSUME NEW r, NEW h, IsHistory(h, r), NEW i \in 1..Len(h), h[i].state = "ROLLED_BACK"
  PROVE  h[i].action_intent \/ \E j \in 1..(i - 1) : h[j].state = "APPLIED"
<1>1. i > 1 /\ i - 1 \in 1..Len(h) /\ h[i - 1] \in AuditRow
  <2>1. i # 1
    BY HistoryFacts
  <2> QED BY <2>1, HistoryFacts
<1>2. h[i - 1].state \in {"REQUESTED", "APPLIED", "VERIFIED", "FAILED"}
  <2>1. "ROLLED_BACK" \in _ALLOWED(h[i - 1].state) /\ h[i - 1].state \in STATES
    BY <1>1, HistoryFacts, RowFields
  <2> QED BY <2>1, AllowedIs DEF STATES
<1>3. CASE h[i - 1].state \in {"REQUESTED", "FAILED"}
  BY <1>1, <1>3, HistoryFacts
<1>4. CASE h[i - 1].state = "APPLIED"
  <2>1. i - 1 \in 1..(i - 1)
    BY <1>1
  <2> QED BY <1>4, <2>1
<1>5. CASE h[i - 1].state = "VERIFIED"
  <2> DEFINE k == i - 1
  <2>1. k \in 1..Len(h) /\ h[k].state = "VERIFIED"
    BY <1>1, <1>5
  <2>2. k # 1
    BY <2>1, HistoryFacts
  <2>3. k > 1 /\ h[k - 1] \in AuditRow /\ h[k].state \in _ALLOWED(h[k - 1].state)
    BY <2>1, <2>2, HistoryFacts
  <2>4. h[k - 1].state = "APPLIED"
    BY <2>1, <2>3, AllowedIs, RowFields DEF STATES
  <2>5. k - 1 \in 1..(i - 1)
    BY <2>3
  <2> QED BY <2>4, <2>5
<1> QED BY <1>2, <1>3, <1>4, <1>5

\* Both ledgers as one: histories, claims and commands.
CommandsOf(C) == {[response_id |-> r, body |-> C[r]] : r \in DOMAIN C}
Memory(B, A, C) == [by_response |-> B, apply_intents |-> A, commands |-> C]
File(B, A, C) == [commands |-> CommandsOf(C), apply_intents |-> A, audit |-> AuditOf(B)]
Books(B, A, C) == [memory |-> Memory(B, A, C), file |-> File(B, A, C), alike |-> TRUE]

\* What the calls keep: the file holds what the memory holds, and only a
\* response with a history was claimed.
LedgersOK(l) == \E B, A, C : l = Books(B, A, C) /\ HistoriesOK(B) /\ A \subseteq DOMAIN B

LEMMA BooksFields ==
  ASSUME NEW B, NEW A, NEW C
  PROVE  /\ Books(B, A, C).memory = Memory(B, A, C) /\ Books(B, A, C).file = File(B, A, C)
         /\ Books(B, A, C).alike
         /\ Memory(B, A, C).by_response = B /\ Memory(B, A, C).apply_intents = A
         /\ Memory(B, A, C).commands = C
         /\ File(B, A, C).commands = CommandsOf(C) /\ File(B, A, C).apply_intents = A
         /\ File(B, A, C).audit = AuditOf(B)
<1> QED BY DEF Books, Memory, File

\* Such ledgers are faithful.
LEMMA BooksFaithful ==
  ASSUME NEW B, NEW A, NEW C, HistoriesOK(B), A \subseteq DOMAIN B,
         input.value = Books(B, A, C)
  PROVE  LedgersFaithful
<1> DEFINE m == input.value.memory
           f == input.value.file
<1>1. /\ input.value.alike
      /\ m.by_response = B /\ m.apply_intents = A /\ m.commands = C
      /\ f.commands = CommandsOf(C) /\ f.apply_intents = A /\ f.audit = AuditOf(B)
  <2>1. input.value.alike /\ m = Memory(B, A, C) /\ f = File(B, A, C)
    BY BooksFields
  <2> HIDE DEF m, f
  <2> QED BY <2>1, BooksFields
<1> HIDE DEF m, f
<1>2. ASSUME NEW r
      PROVE  FileEvents(f, r) = (IF r \in DOMAIN B THEN B[r] ELSE <<>>)
  BY <1>1, FileIsMemory
<1>3. ASSUME NEW r
      PROVE  MemoryEvents(m, r) = (IF r \in DOMAIN B THEN B[r] ELSE <<>>)
  BY <1>1 DEF MemoryEvents
<1>4. LedgersAgree
  <2>1. \A since \in 0..2 : MemoryRequestedSince(m, "policy", since)
                             = FileRequestedSince(f, "policy", since)
    BY <1>1, SameRequests
  <2>2. {[response_id |-> r, body |-> m.commands[r]] : r \in DOMAIN m.commands} = f.commands
    BY <1>1 DEF CommandsOf
  <2>3. \A r \in Response : MemoryEvents(m, r) = FileEvents(f, r)
    BY <1>2, <1>3
  <2>4. m.apply_intents = f.apply_intents
    BY <1>1
  <2> QED BY <1>1, <2>1, <2>2, <2>3, <2>4, Zenon DEF LedgersAgree, Given, m, f
<1>5. ASSUME NEW r, NEW i \in DOMAIN FileEvents(f, r)
      PROVE  r \in DOMAIN B /\ FileEvents(f, r) = B[r] /\ IsHistory(B[r], r) /\ i \in 1..Len(B[r])
  <2>1. r \in DOMAIN B
    BY <1>2, <1>5
  <2>2. FileEvents(f, r) = B[r] /\ IsHistory(B[r], r)
    BY <1>2, <2>1 DEF HistoriesOK
  <2> QED BY <1>5, <2>1, <2>2 DEF IsHistory
<1>6. RecoveryIsFounded
  <2>1. ASSUME NEW r, NEW i \in DOMAIN FileEvents(f, r),
               FileEvents(f, r)[i].state = "ROLLED_BACK"
        PROVE  /\ i = Len(FileEvents(f, r))
               /\ \/ FileEvents(f, r)[i].action_intent
                  \/ \E j \in 1..(i - 1) : FileEvents(f, r)[j].state = "APPLIED"
    BY <1>5, <2>1, TerminalIsLast, RollbackFounded
  <2> QED BY <2>1, Zenon DEF RecoveryIsFounded, Given, m, f
<1>7. UnresolvedIsQueued
  <2>1. ASSUME NEW r \in A
        PROVE  LastState(FileEvents(f, r)) \notin {"EXPIRED", "ROLLED_BACK", "none"}
                 <=> \A i \in DOMAIN FileEvents(f, r) :
                       FileEvents(f, r)[i].state \notin {"EXPIRED", "ROLLED_BACK"}
    <3> DEFINE h == B[r]
    <3>1. FileEvents(f, r) = h /\ IsHistory(h, r)
      BY <1>2 DEF HistoriesOK
    <3> HIDE DEF h
    <3>2. h \in Seq(AuditRow) /\ Len(h) \in 1..Len(h) /\ DOMAIN h = 1..Len(h)
      BY <3>1 DEF IsHistory
    <3>3. LastState(h) = h[Len(h)].state /\ LastState(h) \in STATES
      BY <3>2, LastStateOf
    <3>4. LastState(h) # "none"
      BY <3>3 DEF STATES
    <3>5. \A i \in 1..Len(h) : h[i].state \in {"EXPIRED", "ROLLED_BACK"} => i = Len(h)
      BY <3>1, TerminalIsLast
    <3> QED BY <3>1, <3>2, <3>3, <3>4, <3>5
  <2>2. ASSUME NEW r
        PROVE  r \in recovery_queue(f) <=>
                 r \in A /\ LastState(FileEvents(f, r)) \notin {"EXPIRED", "ROLLED_BACK", "none"}
    BY <1>1 DEF recovery_queue, TERMINAL_STATES, NoState
  <2> QED BY <1>1, <2>1, <2>2, Zenon DEF UnresolvedIsQueued, Given, m, f
<1> QED BY <1>4, <1>6, <1>7 DEF LedgersFaithful

\* What the two ledgers answer to a call.
Answers(l, call, M, F) ==
  \/ /\ call.kind = "save"
     /\ M = MemorySave(l.memory, call.response, call.command)
     /\ F = FileSave(l.file, call.response, call.command)
  \/ /\ call.kind = "claim"
     /\ M = MemoryClaim(l.memory, call.response)
     /\ F = FileClaim(l.file, call.response)
  \/ /\ call.kind = "append"
     /\ M = MemoryAppend(l.memory, call.event)
     /\ F = FileAppend(l.file, call.event)

\* The ledgers after a call that both refuse.
LEMMA BothRefuse ==
  ASSUME NEW l, NEW call, Answers(l, call, {}, {})
  PROVE  Called(l, call) = [memory |-> l.memory, file |-> l.file, alike |-> TRUE]
<1> QED BY DEF Called, Answers

\* And after one that both accept.
LEMMA BothAccept ==
  ASSUME NEW l, NEW call, NEW x, NEW y, Answers(l, call, {x}, {y})
  PROVE  Called(l, call) = [memory |-> x, file |-> y, alike |-> TRUE]
<1> DEFINE Book(old, new) == IF new = {} THEN old ELSE CHOOSE z \in new : TRUE
<1>1. Called(l, call) = [memory |-> Book(l.memory, {x}), file |-> Book(l.file, {y}),
                              alike |-> ({x} = {}) <=> ({y} = {})]
  BY DEF Called, Answers
<1>2. Book(l.memory, {x}) = x /\ Book(l.file, {y}) = y /\ {x} # {} /\ {y} # {}
  OBVIOUS
<1> HIDE DEF Book
<1> QED BY <1>1, <1>2

LEMMA NothingStored ==
  ASSUME NEW B, NEW A, NEW C, NEW call, HistoriesOK(B), A \subseteq DOMAIN B,
         NEW B2, NEW A2, NEW C2, HistoriesOK(B2), A2 \subseteq DOMAIN B2,
         Called(Books(B, A, C), call)
           = [memory |-> Memory(B2, A2, C2), file |-> File(B2, A2, C2), alike |-> TRUE]
  PROVE  LedgersOK(Called(Books(B, A, C), call))
<1>1. Called(Books(B, A, C), call) = Books(B2, A2, C2)
  BY DEF Books
<1> QED BY <1>1, Zenon DEF LedgersOK

LEMMA CommandRows ==
  ASSUME NEW C
  PROVE  /\ \A r \in DOMAIN C : [response_id |-> r, body |-> C[r]] \in CommandsOf(C)
         /\ \A row \in CommandsOf(C) : row.response_id \in DOMAIN C /\ row.body = C[row.response_id]
<1> QED BY DEF CommandsOf

\* save_command: the same command may be saved again, another may not.
LEMMA SaveKeeps ==
  ASSUME NEW B, NEW A, NEW C, HistoriesOK(B), A \subseteq DOMAIN B, NEW r, NEW c
  PROVE  LedgersOK(Called(Books(B, A, C), Save(r, c)))
<1> DEFINE l == Books(B, A, C)
           call == Save(r, c)
           M == MemorySave(l.memory, r, c)
           F == FileSave(l.file, r, c)
           C2 == Stored(C, r, c)
<1>1. call.kind = "save" /\ call.response = r /\ call.command = c
  BY DEF Save
<1>2. l.memory = Memory(B, A, C) /\ l.file = File(B, A, C)
  BY BooksFields
<1>3. /\ DOMAIN C2 = DOMAIN C \cup {r}
      /\ \A k \in DOMAIN C \cup {r} : C2[k] = IF k = r THEN c ELSE C[k]
  BY DEF Stored
<1>4. [Memory(B, A, C) EXCEPT !.commands = C2] = Memory(B, A, C2)
  BY DEF Memory
<1>5. Memory(B, A, C).commands = C /\ File(B, A, C).commands = CommandsOf(C)
  BY BooksFields
<1>6. CASE r \in DOMAIN C /\ C[r] # c
  <2>1. M = {}
    BY <1>2, <1>5, <1>6 DEF MemorySave
  <2>2. \E row \in {row \in CommandsOf(C) : row.response_id = r} : row.body # c
    <3> DEFINE row == [response_id |-> r, body |-> C[r]]
    <3>1. row.response_id = r /\ row.body = C[r] /\ row \in CommandsOf(C)
      BY <1>6, CommandRows
    <3> HIDE DEF row
    <3> QED BY <1>6, <3>1
  <2>3. F = {}
    BY <1>2, <1>5, <2>2 DEF FileSave
  <2> HIDE DEF l, call, M, F
  <2>4. Called(l, call) = [memory |-> l.memory, file |-> l.file, alike |-> TRUE]
    <3>1. Answers(l, call, M, F)
      BY <1>1 DEF M, F, Answers
    <3> QED BY <2>1, <2>3, <3>1, BothRefuse
  <2>5. Called(l, call) = [memory |-> Memory(B, A, C), file |-> File(B, A, C), alike |-> TRUE]
    BY <1>2, <2>4
  <2> QED BY <2>5, NothingStored DEF l, call
<1>7. CASE ~(r \in DOMAIN C /\ C[r] # c)
  <2>1. M = {Memory(B, A, C2)}
    BY <1>2, <1>4, <1>5, <1>7 DEF MemorySave
  <2> DEFINE previous == {row \in CommandsOf(C) : row.response_id = r}
             new == [response_id |-> r, body |-> c]
  <2>2. ~\E row \in previous : row.body # c
    BY <1>7, CommandRows
  <2>3. ASSUME r \in DOMAIN C
        PROVE  previous # {} /\ new \in CommandsOf(C)
    <3>1. new \in CommandsOf(C) /\ new.response_id = r
      BY <1>7, <2>3, CommandRows
    <3> HIDE DEF new
    <3> QED BY <3>1
  <2>4. ASSUME r \notin DOMAIN C
        PROVE  previous = {}
    BY <2>4, CommandRows
  <2>5. CommandsOf(C2) = CommandsOf(C) \cup {new}
    <3>1. ASSUME NEW k \in DOMAIN C
          PROVE  [response_id |-> k, body |-> C[k]] = [response_id |-> k, body |-> C2[k]]
      BY <1>3, <1>7
    <3>2. C2[r] = c
      BY <1>3
    <3> HIDE DEF C2
    <3> QED BY <1>3, <3>1, <3>2 DEF CommandsOf
  <2> HIDE DEF previous, new, C2
  <2>6. ASSUME r \in DOMAIN C
        PROVE  F = {File(B, A, C2)}
    <3>1. CommandsOf(C2) = CommandsOf(C)
      BY <2>3, <2>5, <2>6
    <3>2. File(B, A, C2) = File(B, A, C)
      BY <3>1 DEF File
    <3>3. F = {File(B, A, C)}
      BY <1>2, <1>5, <2>2, <2>3, <2>6 DEF FileSave, previous
    <3> HIDE DEF F
    <3> QED BY <3>2, <3>3
  <2>7. ASSUME r \notin DOMAIN C
        PROVE  F = {File(B, A, C2)}
    <3>1. [File(B, A, C) EXCEPT !.commands = CommandsOf(C2)] = File(B, A, C2)
      BY DEF File
    <3>2. F = {[File(B, A, C) EXCEPT !.commands = CommandsOf(C) \cup {new}]}
      BY <1>2, <1>5, <2>2, <2>4, <2>7 DEF FileSave, previous, new
    <3> HIDE DEF F
    <3> QED BY <2>5, <3>1, <3>2
  <2> HIDE DEF l, call, M, F
  <2>8. F = {File(B, A, C2)}
    BY <2>6, <2>7
  <2>9. Called(l, call) = [memory |-> Memory(B, A, C2), file |-> File(B, A, C2), alike |-> TRUE]
    <3>1. Answers(l, call, M, F)
      BY <1>1 DEF M, F, Answers
    <3> QED BY <2>1, <2>8, <3>1, BothAccept
  <2> QED BY <2>9, NothingStored DEF l, call
<1> QED BY <1>6, <1>7

\* claim_apply: once, and only of a response that was requested.
LEMMA ClaimKeeps ==
  ASSUME NEW B, NEW A, NEW C, HistoriesOK(B), A \subseteq DOMAIN B, NEW r
  PROVE  LedgersOK(Called(Books(B, A, C), Claim(r)))
<1> DEFINE l == Books(B, A, C)
           call == Claim(r)
           M == MemoryClaim(l.memory, r)
           F == FileClaim(l.file, r)
           h == IF r \in DOMAIN B THEN B[r] ELSE <<>>
           A2 == A \cup {r}
<1>1. call.kind = "claim" /\ call.response = r
  BY DEF Claim
<1>2. l.memory = Memory(B, A, C) /\ l.file = File(B, A, C)
  BY BooksFields
<1>3. /\ Memory(B, A, C).apply_intents = A /\ File(B, A, C).apply_intents = A
      /\ Memory(B, A, C).by_response = B /\ File(B, A, C).audit = AuditOf(B)
  BY BooksFields
<1>4. MemoryEvents(Memory(B, A, C), r) = h /\ FileEvents(File(B, A, C), r) = h
  BY <1>3, FileIsMemory DEF MemoryEvents
<1>5. /\ [Memory(B, A, C) EXCEPT !.apply_intents = A2] = Memory(B, A2, C)
      /\ [File(B, A, C) EXCEPT !.apply_intents = A2] = File(B, A2, C)
  BY DEF Memory, File
<1>6. LastState(h) = "REQUESTED" => r \in DOMAIN B
  <2>1. LastState(<<>>) = "none"
    BY DEF LastState, NoState
  <2> QED BY <2>1
<1> HIDE DEF h
<1>7. CASE r \in A \/ LastState(h) # "REQUESTED"
  <2>1. M = {} /\ F = {}
    BY <1>2, <1>3, <1>4, <1>7 DEF MemoryClaim, FileClaim
  <2>2. Answers(l, call, M, F)
    BY <1>1 DEF Answers
  <2> HIDE DEF l, call, M, F
  <2>3. Called(l, call) = [memory |-> l.memory, file |-> l.file, alike |-> TRUE]
    BY <2>1, <2>2, BothRefuse
  <2>4. Called(l, call) = [memory |-> Memory(B, A, C), file |-> File(B, A, C), alike |-> TRUE]
    BY <1>2, <2>3
  <2> QED BY <2>4, NothingStored DEF l, call
<1>8. CASE r \notin A /\ LastState(h) = "REQUESTED"
  <2>1. M = {Memory(B, A2, C)}
    BY <1>2, <1>3, <1>4, <1>5, <1>8 DEF MemoryClaim
  <2>2. F = {File(B, A2, C)}
    BY <1>2, <1>3, <1>4, <1>5, <1>8 DEF FileClaim
  <2>3. Answers(l, call, M, F)
    BY <1>1 DEF Answers
  <2>4. A2 \subseteq DOMAIN B
    BY <1>6, <1>8
  <2> HIDE DEF l, call, M, F, A2
  <2>5. Called(l, call) = [memory |-> Memory(B, A2, C), file |-> File(B, A2, C), alike |-> TRUE]
    BY <2>1, <2>2, <2>3, BothAccept
  <2> QED BY <2>4, <2>5, NothingStored DEF l, call
<1> QED BY <1>7, <1>8

\* A history with one more event.
LEMMA Extended ==
  ASSUME NEW h \in Seq(AuditRow), Valid(h), NEW e \in AuditRow
  PROVE  /\ Append(h, e) \in Seq(AuditRow) /\ Len(Append(h, e)) = Len(h) + 1
         /\ \A i \in 1..Len(h) : Append(h, e)[i] = h[i]
         /\ Append(h, e)[Len(h) + 1] = e
         /\ Valid(Append(h, e)) <=> validate_transition(e, h)
<1> DEFINE g == Append(h, e)
<1>1. /\ g \in Seq(AuditRow) /\ Len(g) = Len(h) + 1 /\ \A i \in 1..Len(h) : g[i] = h[i]
      /\ g[Len(h) + 1] = e /\ Len(h) \in Nat
  OBVIOUS
<1>2. ASSUME NEW i \in 1..(Len(h) + 1)
      PROVE  SubSeq(g, 1, i - 1) = SubSeq(h, 1, i - 1)
  OBVIOUS
<1>3. SubSeq(h, 1, (Len(h) + 1) - 1) = h
  OBVIOUS
<1> HIDE DEF g
<1>4. ASSUME NEW i \in 1..Len(h)
      PROVE  validate_transition(g[i], SubSeq(g, 1, i - 1))
  <2>1. i \in 1..(Len(h) + 1) /\ g[i] = h[i] /\ validate_transition(h[i], SubSeq(h, 1, i - 1))
    BY <1>1 DEF Valid
  <2> QED BY <1>2, <2>1
<1>5. Valid(g) <=> validate_transition(e, h)
  <2>1. Len(h) + 1 \in 1..(Len(h) + 1)
    BY <1>1
  <2>2. SubSeq(g, 1, (Len(h) + 1) - 1) = h
    BY <1>2, <1>3, <2>1
  <2>3. \A i \in 1..(Len(h) + 1) : i \in 1..Len(h) \/ i = Len(h) + 1
    BY <1>1
  <2> QED BY <1>1, <1>4, <2>1, <2>2, <2>3 DEF Valid
<1> QED BY <1>1, <1>5 DEF g

\* append: the replay of the file accepts what the memory accepts, and then the
\* number is free.
LEMMA AppendKeeps ==
  ASSUME NEW B, NEW A, NEW C, HistoriesOK(B), A \subseteq DOMAIN B, NEW e \in AuditRow
  PROVE  LedgersOK(Called(Books(B, A, C), Record(e)))
<1> DEFINE l == Books(B, A, C)
           call == Record(e)
           M == MemoryAppend(l.memory, e)
           F == FileAppend(l.file, e)
           r == e.response_id
           h == IF r \in DOMAIN B THEN B[r] ELSE <<>>
           g == Append(h, e)
           B2 == Stored(B, r, g)
<1>1. Answers(l, call, M, F)
  BY DEF Record, Answers
<1>2. l.memory = Memory(B, A, C) /\ l.file = File(B, A, C)
  BY BooksFields
<1>3. Memory(B, A, C).by_response = B /\ File(B, A, C).audit = AuditOf(B)
  BY BooksFields
<1>4. MemoryEvents(Memory(B, A, C), r) = h /\ FileEvents(File(B, A, C), r) = h
  BY <1>3, FileIsMemory DEF MemoryEvents
<1>5. h \in Seq(AuditRow) /\ Valid(h) /\ \A i \in 1..Len(h) : h[i].response_id = r /\ h[i].transition_number = i
  <2>1. CASE r \in DOMAIN B
    <3>1. IsHistory(h, r)
      BY <2>1 DEF HistoriesOK
    <3> HIDE DEF h
    <3>2. \A i \in 1..Len(h) : h[i].transition_number = i
      BY <3>1, HistoryFacts
    <3> QED BY <3>1, <3>2 DEF IsHistory
  <2>2. CASE r \notin DOMAIN B
    BY <2>2 DEF Valid
  <2> QED BY <2>1, <2>2
<1>6. /\ DOMAIN B2 = DOMAIN B \cup {r}
      /\ \A k \in DOMAIN B \cup {r} : B2[k] = IF k = r THEN g ELSE B[k]
  BY DEF Stored
<1>7. r \in DOMAIN B => h = B[r]
  OBVIOUS
<1>8. \A x \in AuditOf(B) : x.response_id = r => \E i \in 1..Len(h) : x = h[i]
  <2>1. {x \in AuditOf(B) : x.response_id = r} = IF r \in DOMAIN B THEN {B[r][i] : i \in 1..Len(B[r])} ELSE {}
    BY RowsOf
  <2> HIDE DEF h, r
  <2> QED BY <1>7, <2>1
<1> HIDE DEF h
<1>9. /\ g \in Seq(AuditRow) /\ Len(g) = Len(h) + 1 /\ Len(h) \in Nat
      /\ \A i \in 1..Len(h) : g[i] = h[i]
      /\ g[Len(h) + 1] = e
      /\ Valid(g) <=> validate_transition(e, h)
  BY <1>5, Extended
<1>10. M = IF validate_transition(e, h) THEN {[Memory(B, A, C) EXCEPT !.by_response = B2]} ELSE {}
  BY <1>2, <1>3, <1>4 DEF MemoryAppend
<1>11. F = IF Valid(g) /\ ~\E x \in AuditOf(B) : x.response_id = r /\ x.transition_number = e.transition_number
           THEN {[File(B, A, C) EXCEPT !.audit = AuditOf(B) \cup {e}]} ELSE {}
  <2>1. DOMAIN g = 1..Len(g)
    BY <1>9
  <2> HIDE DEF g
  <2> QED BY <1>2, <1>3, <1>4, <2>1 DEF FileAppend, Valid, g
<1>12. CASE ~validate_transition(e, h)
  <2>1. M = {} /\ F = {}
    BY <1>9, <1>10, <1>11, <1>12
  <2> HIDE DEF l, call, M, F
  <2>2. Called(l, call) = [memory |-> l.memory, file |-> l.file, alike |-> TRUE]
    BY <1>1, <2>1, BothRefuse
  <2>3. Called(l, call) = [memory |-> Memory(B, A, C), file |-> File(B, A, C), alike |-> TRUE]
    BY <1>2, <2>2
  <2> QED BY <2>3, NothingStored DEF l, call
<1>13. CASE validate_transition(e, h)
  <2>1. e.transition_number = Len(h) + 1
    BY <1>13 DEF validate_transition
  <2>2. ~\E x \in AuditOf(B) : x.response_id = r /\ x.transition_number = e.transition_number
    BY <1>5, <1>8, <1>9, <2>1
  <2>3. IsHistory(g, r)
    <3> HIDE DEF g
    <3> QED BY <1>5, <1>9, <1>13 DEF IsHistory
  <2> HIDE DEF g, B2
  <2>4. HistoriesOK(B2)
    <3>1. IsFiniteSet(DOMAIN B2)
      BY <1>6, FS_AddElement DEF HistoriesOK
    <3>2. ASSUME NEW k \in DOMAIN B2
          PROVE  IsHistory(B2[k], k)
      BY <1>6, <2>3 DEF HistoriesOK
    <3> QED BY <3>1, <3>2 DEF HistoriesOK
  <2>5. AuditOf(B2) = AuditOf(B) \cup {e}
    <3>1. ASSUME NEW x \in AuditOf(B2)
          PROVE  x \in AuditOf(B) \cup {e}
      <4>1. PICK k \in DOMAIN B2 : \E i \in 1..Len(B2[k]) : x = B2[k][i]
        BY DEF AuditOf
      <4>2. PICK i \in 1..Len(B2[k]) : x = B2[k][i]
        BY <4>1
      <4>3. CASE k # r
        BY <1>6, <4>2, <4>3 DEF AuditOf
      <4>4. CASE k = r
        <5>1. x = g[i] /\ i \in 1..(Len(h) + 1)
          BY <1>6, <1>9, <4>2, <4>4
        <5>2. CASE i = Len(h) + 1
          BY <1>9, <5>1, <5>2
        <5>3. CASE i # Len(h) + 1
          <6>1. i \in 1..Len(h) /\ x = h[i]
            BY <1>9, <5>1, <5>3
          <6>2. r \in DOMAIN B
            BY <6>1 DEF h
          <6> QED BY <1>7, <6>1, <6>2 DEF AuditOf
        <5> QED BY <5>2, <5>3
      <4> QED BY <4>3, <4>4
    <3>2. ASSUME NEW x \in AuditOf(B)
          PROVE  x \in AuditOf(B2)
      <4>1. PICK k \in DOMAIN B : \E i \in 1..Len(B[k]) : x = B[k][i]
        BY DEF AuditOf
      <4>2. PICK i \in 1..Len(B[k]) : x = B[k][i]
        BY <4>1
      <4>3. CASE k # r
        BY <1>6, <4>2, <4>3 DEF AuditOf
      <4>4. CASE k = r
        <5>1. i \in 1..Len(g) /\ x = g[i] /\ B2[r] = g /\ r \in DOMAIN B2
          BY <1>6, <1>7, <1>9, <4>2, <4>4
        <5> QED BY <5>1 DEF AuditOf
      <4> QED BY <4>3, <4>4
    <3>3. e \in AuditOf(B2)
      <4>1. Len(h) + 1 \in 1..Len(g) /\ e = g[Len(h) + 1] /\ B2[r] = g /\ r \in DOMAIN B2
        BY <1>6, <1>9
      <4> QED BY <4>1 DEF AuditOf
    <3> QED BY <3>1, <3>2, <3>3
  <2>6. M = {Memory(B2, A, C)}
    <3>1. [Memory(B, A, C) EXCEPT !.by_response = B2] = Memory(B2, A, C)
      BY DEF Memory
    <3> HIDE DEF M
    <3> QED BY <1>10, <1>13, <3>1
  <2>7. F = {File(B2, A, C)}
    <3>1. [File(B, A, C) EXCEPT !.audit = AuditOf(B2)] = File(B2, A, C)
      BY DEF File
    <3> HIDE DEF F
    <3> QED BY <1>9, <1>11, <1>13, <2>2, <2>5, <3>1
  <2>8. A \subseteq DOMAIN B2
    BY <1>6
  <2> HIDE DEF l, call, M, F
  <2>9. Called(l, call) = [memory |-> Memory(B2, A, C), file |-> File(B2, A, C), alike |-> TRUE]
    BY <1>1, <2>6, <2>7, BothAccept
  <2> QED BY <2>4, <2>8, <2>9, NothingStored DEF l, call
<1> QED BY <1>12, <1>13

\* The event of a caller that has read this much of a history.
LEMMA EventIsRow ==
  ASSUME NEW r \in Response, NEW s \in STATES, NEW intent \in BOOLEAN, NEW at \in {1, 2},
         NEW read \in Seq(AuditRow)
  PROVE  EventOf(r, "policy", s, intent, at, read) \in AuditRow
<1>1. LastState(read) \in STATES \cup {"none"} /\ Len(read) + 1 \in Nat
  BY LastStateOf
<1> QED BY <1>1 DEF EventOf, AuditRow

LEMMA ReadIsHistory ==
  ASSUME NEW h \in Seq(AuditRow)
  PROVE  \A read \in ReadsOf(h) : read \in Seq(AuditRow)
<1> QED BY DEF ReadsOf, Front

\* Whatever is called next, both ledgers still hold the same.
LEMMA CallKeeps ==
  ASSUME Shaped, LedgersOK(input.value), CallLedgers
  PROVE  LedgersOK(input'.value)
<1>1. PICK B, A, C : input.value = Books(B, A, C) /\ HistoriesOK(B) /\ A \subseteq DOMAIN B
  BY Zenon DEF LedgersOK
<1>2. ASSUME NEW r
      PROVE  MemoryEvents(input.value.memory, r) \in Seq(AuditRow)
  <2>1. input.value.memory.by_response = B
    BY <1>1, BooksFields
  <2>2. MemoryEvents(input.value.memory, r) = IF r \in DOMAIN B THEN B[r] ELSE <<>>
    BY <2>1 DEF MemoryEvents
  <2> QED BY <1>1, <2>2 DEF HistoriesOK, IsHistory
<1>3. ASSUME NEW call, Call(call), LedgersOK(Called(Books(B, A, C), call))
      PROVE  LedgersOK(input'.value)
  <2>1. input'.value = Called(Books(B, A, C), call)
    BY <1>1, <1>3 DEF Shaped, Call
  <2> QED BY <1>3, <2>1
<1>4. ASSUME NEW e \in AuditRow, Call(Record(e))
      PROVE  LedgersOK(input'.value)
  BY <1>1, <1>3, <1>4, AppendKeeps
<1>5. PICK r \in Response :
        \/ \E c \in {"c1", "c2"} : Call(Save(r, c))
        \/ Call(Claim(r))
        \/ \E read \in ReadsOf(MemoryEvents(input.value.memory, r)) :
             \/ \E at \in {1, 2} : Call(Record(EventOf(r, "policy", "REQUESTED", FALSE, at, read)))
             \/ \E s \in STATES, intent \in BOOLEAN :
                  Call(Record(EventOf(r, "policy", s, intent, 2, read)))
  BY Zenon DEF CallLedgers
<1>6. ASSUME NEW c, Call(Save(r, c))
      PROVE  LedgersOK(input'.value)
  BY <1>1, <1>3, <1>6, SaveKeeps
<1>7. CASE Call(Claim(r))
  BY <1>1, <1>3, <1>7, ClaimKeeps
<1>8. \A read \in ReadsOf(MemoryEvents(input.value.memory, r)) : read \in Seq(AuditRow)
  BY <1>2, ReadIsHistory
<1>9. ASSUME NEW read \in Seq(AuditRow), NEW at \in {1, 2},
             Call(Record(EventOf(r, "policy", "REQUESTED", FALSE, at, read)))
      PROVE  LedgersOK(input'.value)
  <2> DEFINE no == FALSE
  <2>1. no \in BOOLEAN /\ "REQUESTED" \in STATES
    BY DEF STATES
  <2> HIDE DEF no
  <2>2. EventOf(r, "policy", "REQUESTED", no, at, read) \in AuditRow
    BY <2>1, EventIsRow
  <2> QED BY <1>4, <1>9, <2>2 DEF no
<1>10. ASSUME NEW read \in Seq(AuditRow), NEW s \in STATES, NEW intent \in BOOLEAN,
              Call(Record(EventOf(r, "policy", s, intent, 2, read)))
       PROVE  LedgersOK(input'.value)
  <2>1. EventOf(r, "policy", s, intent, 2, read) \in AuditRow
    BY EventIsRow
  <2> QED BY <1>4, <1>10, <2>1
<1> QED BY <1>5, <1>6, <1>7, <1>8, <1>9, <1>10, Zenon

\* Before any call.
LEMMA NewLedgersOK == LedgersOK(NewLedgers)
<1> DEFINE B == <<>>
           A == {}
           C == <<>>
<1>1. DOMAIN B = {} /\ DOMAIN C = {}
  OBVIOUS
<1>2. HistoriesOK(B) /\ A \subseteq DOMAIN B
  BY <1>1, FS_EmptySet DEF HistoriesOK
<1>3. AuditOf(B) = {} /\ CommandsOf(C) = {}
  BY <1>1 DEF AuditOf, CommandsOf
<1>4. NewLedgers = Books(B, A, C)
  BY <1>3 DEF NewLedgers, NewMemory, NewFile, Books, Memory, File
<1> HIDE DEF A, B, C
<1> QED BY <1>2, <1>4, Zenon DEF LedgersOK
-----------------------------------------------------------------------------
(* Finite sets with an order.                                              *)

\* A strict order on a non-empty finite set has a maximal element.
LEMMA Maximal ==
  ASSUME NEW S, IsFiniteSet(S), S # {}, NEW R,
         \A x \in S : <<x, x>> \notin R,
         \A x, y, z \in S : <<x, y>> \in R /\ <<y, z>> \in R => <<x, z>> \in R
  PROVE  \E x \in S : \A y \in S : <<x, y>> \notin R
<1> DEFINE above(s) == {y \in S : <<s, y>> \in R}
           T == {above(s) : s \in S}
           O == StrictSubsetOrdering(S)
<1>1. T \subseteq FiniteSubsetsOf(S) /\ T # {}
  <2>1. \A s \in S : above(s) \in SUBSET S
    OBVIOUS
  <2>2. \A s \in S : IsFiniteSet(above(s))
    BY <2>1, FS_Subset
  <2>3. \A s \in S : above(s) \in FiniteSubsetsOf(S)
    <3> HIDE DEF above
    <3> QED BY <2>1, <2>2 DEF FiniteSubsetsOf
  <2> HIDE DEF above
  <2> QED BY <2>3
<1>2. PICK m \in T : \A t \in T : <<t, m>> \notin O
  <2>1. IsWellFoundedOn(O, FiniteSubsetsOf(S))
    BY FS_StrictSubsetOrderingWellFounded
  <2> HIDE DEF T, O
  <2> QED BY <1>1, <2>1, WFMin
<1>3. PICK x \in S : m = above(x)
  OBVIOUS
<1>4. ASSUME NEW y \in S, <<x, y>> \in R
      PROVE  FALSE
  <2>1. y \in m /\ y \notin above(y)
    BY <1>3, <1>4
  <2>2. above(y) \subseteq m
    BY <1>3, <1>4
  <2>3. <<above(y), m>> \in O
    BY <1>3, <2>1, <2>2 DEF StrictSubsetOrdering
  <2> QED BY <1>2, <2>3
<1> QED BY <1>4

\* A non-empty finite set of numbers has a largest and a smallest one.
LEMMA MaxOfNats ==
  ASSUME NEW S \in SUBSET Nat, IsFiniteSet(S), S # {}
  PROVE  /\ Max(S) \in S /\ \A y \in S : y <= Max(S)
         /\ Min(S) \in S /\ \A y \in S : Min(S) <= y
<1> DEFINE Up == {p \in S \X S : p[1] < p[2]}
           Down == {p \in S \X S : p[2] < p[1]}
<1>1. PICK x \in S : \A y \in S : <<x, y>> \notin Up
  <2>1. /\ \A u \in S : <<u, u>> \notin Up
        /\ \A u, v, w \in S : <<u, v>> \in Up /\ <<v, w>> \in Up => <<u, w>> \in Up
    OBVIOUS
  <2> HIDE DEF Up
  <2> QED BY <2>1, Maximal
<1>2. PICK z \in S : \A y \in S : <<z, y>> \notin Down
  <2>1. /\ \A u \in S : <<u, u>> \notin Down
        /\ \A u, v, w \in S : <<u, v>> \in Down /\ <<v, w>> \in Down => <<u, w>> \in Down
    OBVIOUS
  <2> HIDE DEF Down
  <2> QED BY <2>1, Maximal
<1>3. ASSUME NEW y \in S
      PROVE  x >= y /\ z <= y
  <2>1. <<x, y>> \notin Up /\ <<z, y>> \notin Down
    BY <1>1, <1>2
  <2>2. ~(x < y) /\ ~(y < z)
    BY <2>1
  <2> QED BY <2>2
<1>4. Max(S) \in S /\ \A y \in S : Max(S) >= y
  BY <1>3, Zenon DEF Max
<1>5. Min(S) \in S /\ \A y \in S : Min(S) <= y
  BY <1>3, Zenon DEF Min
<1> QED BY <1>4, <1>5

\* Of two numbers one is the larger and one the smaller.
LEMMA MaxOfTwo ==
  ASSUME NEW a \in Int, NEW b \in Int
  PROVE  /\ Max({a, b}) \in {a, b} /\ a <= Max({a, b}) /\ b <= Max({a, b})
         /\ Min({a, b}) \in {a, b} /\ Min({a, b}) <= a /\ Min({a, b}) <= b
<1>1. \E x \in {a, b} : \A y \in {a, b} : x >= y
  OBVIOUS
<1>2. \E x \in {a, b} : \A y \in {a, b} : x <= y
  OBVIOUS
<1>3. Max({a, b}) \in {a, b} /\ \A y \in {a, b} : Max({a, b}) >= y
  BY ONLY <1>1, Zenon DEF Max
<1>4. Min({a, b}) \in {a, b} /\ \A y \in {a, b} : Min({a, b}) <= y
  BY ONLY <1>2, Zenon DEF Min
<1> QED BY <1>3, <1>4
-----------------------------------------------------------------------------
(* Runs of the lab.                                                        *)

LEMMA StagesDomain == DOMAIN Stages = 1..32
BY DEF Stages

\* Every stage comes after the ones that it needs.
LEMMA StagesInOrder ==
  ASSUME NEW i \in DOMAIN Stages, NEW d \in DOMAIN Stages, Stages[d].id \in Stages[i].needs
  PROVE  d < i
<1>1. i \in 1..32 /\ d \in 1..32
  BY StagesDomain
<1>2. /\ Stages[1].id = "host-os" /\ Stages[2].id = "host-sudo"
      /\ Stages[3].id = "deps-packages" /\ Stages[4].id = "deps-docker"
      /\ Stages[5].id = "deps-docker-access" /\ Stages[6].id = "deps-containerlab"
      /\ Stages[7].id = "deps-sysctl" /\ Stages[8].id = "deps-python"
      /\ Stages[9].id = "offline-static" /\ Stages[10].id = "offline-tests"
      /\ Stages[11].id = "offline-compose" /\ Stages[12].id = "viz-start"
      /\ Stages[13].id = "secrets" /\ Stages[14].id = "images"
      /\ Stages[15].id = "dc-network" /\ Stages[16].id = "wazuh-config"
      /\ Stages[17].id = "fabric-up" /\ Stages[18].id = "fabric-verify"
      /\ Stages[19].id = "security-up" /\ Stages[20].id = "soc-up"
      /\ Stages[21].id = "soc-smoke" /\ Stages[22].id = "mgmt-network"
      /\ Stages[23].id = "demo-model" /\ Stages[24].id = "soc-ai-up"
      /\ Stages[25].id = "dmzlab-up" /\ Stages[26].id = "dmzlab-verify"
      /\ Stages[27].id = "dmzlab-siem" /\ Stages[28].id = "configure"
      /\ Stages[29].id = "validate" /\ Stages[30].id = "attack"
      /\ Stages[31].id = "soc-validate" /\ Stages[32].id = "report"
  BY DEF Stages, Stage, Finding
<1>3. CASE i \in 1..8
  <2>1. /\ Stages[1].needs = {}
        /\ Stages[2].needs = {"host-os"}
        /\ Stages[3].needs = {"host-sudo"}
        /\ Stages[4].needs = {"deps-packages"}
        /\ Stages[5].needs = {"deps-docker"}
        /\ Stages[6].needs = {"deps-packages"}
        /\ Stages[7].needs = {"host-sudo"}
        /\ Stages[8].needs = {"host-os"}
    BY DEF Stages, Stage, Finding
  <2> QED BY <1>1, <1>2, <1>3, <2>1
<1>4. CASE i \in 9..16
  <2>1. /\ Stages[9].needs = {"deps-python"}
        /\ Stages[10].needs = {"deps-python"}
        /\ Stages[11].needs = {"deps-python", "deps-docker-access"}
        /\ Stages[12].needs = {"deps-python"}
        /\ Stages[13].needs = {"deps-python"}
        /\ Stages[14].needs = {"deps-docker-access", "secrets"}
        /\ Stages[15].needs = {"deps-docker-access", "secrets"}
        /\ Stages[16].needs = {"images", "dc-network"}
    BY DEF Stages, Stage, Finding
  <2> QED BY <1>1, <1>2, <1>4, <2>1
<1>5. CASE i \in 17..24
  <2>1. /\ Stages[17].needs = {"deps-containerlab", "dc-network", "deps-sysctl"}
        /\ Stages[18].needs = {"fabric-up"}
        /\ Stages[19].needs = {"wazuh-config", "fabric-verify"}
        /\ Stages[20].needs = {"images", "dc-network", "deps-sysctl"}
        /\ Stages[21].needs = {"soc-up"}
        /\ Stages[22].needs = {"deps-docker-access"}
        /\ Stages[23].needs = {"deps-python", "secrets"}
        /\ Stages[24].needs = {"soc-smoke", "demo-model", "mgmt-network"}
    BY DEF Stages, Stage, Finding
  <2> QED BY <1>1, <1>2, <1>5, <2>1
<1>6. CASE i \in 25..32
  <2>1. /\ Stages[25].needs = {"fabric-verify", "images"}
        /\ Stages[26].needs = {"dmzlab-up"}
        /\ Stages[27].needs = {"dmzlab-verify", "soc-smoke"}
        /\ Stages[28].needs = {"fabric-verify", "security-up"}
        /\ Stages[29].needs = {"configure"}
        /\ Stages[30].needs = {"validate"}
        /\ Stages[31].needs = {"soc-ai-up", "fabric-verify"}
        /\ Stages[32].needs = {"soc-validate"}
    BY DEF Stages, Stage, Finding
  <2> QED BY <1>1, <1>2, <1>6, <2>1
<1> QED BY <1>1, <1>3, <1>4, <1>5, <1>6

LabRun(options, chosen, found, above, over, interrupted) ==
  [options |-> options, chosen |-> chosen, results |-> found, above |-> above, over |-> over,
   interrupted |-> interrupted]

Statuses == {"PASS", "WARN", "SKIP", "FAIL", "BLOCKED"}

\* A failure that holds others back.
Broke(found, d) == d \in DOMAIN found /\ found[d] = "FAIL" /\ ~Stages[d].finding

\* What has run comes before what has not, and a stage was held back for a
\* failure above it.
Underway(options, chosen, found, above, over, interrupted) ==
  /\ options \in Trials /\ chosen \subseteq DOMAIN Stages
  /\ DOMAIN found \subseteq chosen /\ DOMAIN above = DOMAIN found
  /\ \A i \in DOMAIN found, d \in chosen : d < i => d \in DOMAIN found
  /\ \A i \in DOMAIN found :
       /\ found[i] \in Statuses /\ above[i] \subseteq DOMAIN found
       /\ options.only = {} => (found[i] = "BLOCKED" <=> \E d \in above[i] : Broke(found, d))
       /\ options.only # {} => found[i] # "BLOCKED"
  /\ over /\ ~interrupted => \E i \in DOMAIN found : found[i] = "FAIL"

LabOK(run) ==
  \E options, chosen, found, above, over, interrupted :
    /\ run = LabRun(options, chosen, found, above, over, interrupted)
    /\ Underway(options, chosen, found, above, over, interrupted)

LEMMA SelectedStages ==
  ASSUME NEW o, NEW chosen \in select(o)
  PROVE  chosen \subseteq DOMAIN Stages
BY DEF select

LEMMA NewRunOK ==
  ASSUME NEW o \in Trials, NEW chosen \in select(o)
  PROVE  LabOK(NewRun(o, chosen))
<1> DEFINE none == <<>>
           no == FALSE
<1>1. NewRun(o, chosen) = LabRun(o, chosen, none, none, no, no)
  BY DEF NewRun, LabRun
<1>2. DOMAIN none = {} /\ ~no
  OBVIOUS
<1> HIDE DEF none, no
<1>3. Underway(o, chosen, none, none, no, no)
  BY <1>2, SelectedStages DEF Underway
<1> QED BY <1>1, <1>3, Zenon DEF LabOK

LEMMA InterruptOK ==
  ASSUME NEW run, LabOK(run)
  PROVE  LabOK(Interrupt(run))
<1>1. PICK o, C, found, above, over, interrupted :
             /\ run = LabRun(o, C, found, above, over, interrupted)
             /\ Underway(o, C, found, above, over, interrupted)
  BY Zenon DEF LabOK
<1> DEFINE yes == TRUE
<1>2. Interrupt(run) = LabRun(o, C, found, above, yes, yes)
  <2>1. /\ run.options = o /\ run.chosen = C /\ run.results = found /\ run.above = above
        /\ DOMAIN run = {"options", "chosen", "results", "above", "over", "interrupted"}
    BY <1>1 DEF LabRun
  <2>2. Interrupt(run) = [run EXCEPT !.over = yes, !.interrupted = yes]
    BY DEF Interrupt
  <2> HIDE DEF yes
  <2>3. [run EXCEPT !.over = yes, !.interrupted = yes]
          = [n \in DOMAIN run |-> IF n = "interrupted" THEN yes ELSE IF n = "over" THEN yes ELSE run[n]]
    BY <2>1
  <2> QED BY <2>1, <2>2, <2>3 DEF LabRun
<1>3. yes
  OBVIOUS
<1> HIDE DEF yes
<1>4. Underway(o, C, found, above, yes, yes)
  BY <1>1, <1>3 DEF Underway
<1> QED BY <1>2, <1>4, Zenon DEF LabOK

\* The status of a stage is one of five, and a held back one has a blocker.
LEMMA StatusIs ==
  ASSUME NEW run, run.options \in Trials, NEW i \in DOMAIN Stages
  PROVE  /\ StatusOf(i, run) \in Statuses
         /\ StatusOf(i, run) = "BLOCKED" <=> (Blockers(i, run) # {} /\ run.options.only = {})
<1> DEFINE work == run.options.work[Stages[i].id]
           status == run_stage(work, run.options.dry_run)
<1>1. /\ work.kind \in {"check", "raises", "cmds"}
      /\ work.kind = "check" => work.status \in {"PASS", "WARN", "FAIL", "SKIP"}
  <2>1. TrialInputs
    BY InputAssumption
  <2> QED BY <2>1, Zenon DEF TrialInputs
<1> HIDE DEF work
<1>2. status \in {"PASS", "WARN", "FAIL", "SKIP"}
  BY <1>1 DEF run_stage
<1>3. StatusOf(i, run) = IF Blockers(i, run) # {} /\ run.options.only = {} THEN "BLOCKED" ELSE status
  BY DEF StatusOf, work
<1> HIDE DEF status
<1> QED BY <1>2, <1>3 DEF Statuses

AboveOf(i, run) ==
  UNION {{d} \cup (IF d \in DOMAIN run.above THEN run.above[d] ELSE {}) : d \in Needed(i, run)}

LEMMA AdvanceIs ==
  ASSUME NEW o, NEW C, NEW found, NEW above, NEW over, NEW interrupted, NEW run,
         run = LabRun(o, C, found, above, over, interrupted), NEW i, i = Min(Left(run))
  PROVE  Advance(run) = LabRun(o, C, Extend(found, i, StatusOf(i, run)), Extend(above, i, AboveOf(i, run)),
                               StatusOf(i, run) = "FAIL" /\ o.fail_fast, interrupted)
<1>1. /\ run.options = o /\ run.chosen = C /\ run.results = found /\ run.above = above
      /\ run.over = over /\ run.interrupted = interrupted
      /\ DOMAIN run = {"options", "chosen", "results", "above", "over", "interrupted"}
  BY DEF LabRun
<1> DEFINE s == Extend(found, i, StatusOf(i, run))
           a == Extend(above, i, AboveOf(i, run))
           e == StatusOf(i, run) = "FAIL" /\ o.fail_fast
<1>2. Advance(run) = [run EXCEPT !.results = s, !.above = a, !.over = e]
  BY <1>1, Zenon DEF Advance, AboveOf
<1> HIDE DEF s, a, e
<1>3. [run EXCEPT !.results = s, !.above = a, !.over = e]
        = [n \in DOMAIN run |-> IF n = "over" THEN e ELSE IF n = "above" THEN a
                                ELSE IF n = "results" THEN s ELSE run[n]]
  BY <1>1
<1>4. [run EXCEPT !.results = s, !.above = a, !.over = e] = LabRun(o, C, s, a, e, interrupted)
  BY <1>1, <1>3 DEF LabRun
<1> QED BY <1>2, <1>4 DEF s, a, e

LEMMA AdvanceOK ==
  ASSUME NEW run, LabOK(run), Left(run) # {}
  PROVE  LabOK(Advance(run))
<1>1. PICK o, C, found, above, over, interrupted :
             /\ run = LabRun(o, C, found, above, over, interrupted)
             /\ Underway(o, C, found, above, over, interrupted)
  BY Zenon DEF LabOK
<1>2. /\ run.options = o /\ run.chosen = C /\ run.results = found /\ run.above = above
  BY <1>1 DEF LabRun
<1>3. /\ o \in Trials /\ C \subseteq DOMAIN Stages
      /\ DOMAIN found \subseteq C /\ DOMAIN above = DOMAIN found
      /\ \A j \in DOMAIN found, d \in C : d < j => d \in DOMAIN found
      /\ \A j \in DOMAIN found :
           /\ found[j] \in Statuses /\ above[j] \subseteq DOMAIN found
           /\ o.only = {} => (found[j] = "BLOCKED" <=> \E d \in above[j] : Broke(found, d))
           /\ o.only # {} => found[j] # "BLOCKED"
  BY <1>1 DEF Underway
<1> DEFINE i == Min(Left(run))
           status == StatusOf(i, run)
           ups == AboveOf(i, run)
           s == Extend(found, i, status)
           a == Extend(above, i, ups)
           e == status = "FAIL" /\ o.fail_fast
<1>4. i \in C /\ i \notin DOMAIN found /\ i \in DOMAIN Stages /\ \A d \in Left(run) : i <= d
  <2>1. Left(run) = C \ DOMAIN found
    BY <1>2 DEF Left
  <2>2. DOMAIN Stages \subseteq Nat /\ IsFiniteSet(DOMAIN Stages)
    <3>1. 1 \in Int /\ 32 \in Int
      OBVIOUS
    <3>2. IsFiniteSet(1..32)
      BY <3>1, FS_Interval, Zenon
    <3> QED BY <3>2, StagesDomain
  <2>3. Left(run) \in SUBSET Nat /\ IsFiniteSet(Left(run))
    BY <1>3, <2>1, <2>2, FS_Subset
  <2>4. i \in Left(run) /\ \A d \in Left(run) : i <= d
    BY <2>3, MaxOfNats
  <2> QED BY <1>3, <2>1, <2>4
<1>5. Advance(run) = LabRun(o, C, s, a, e, interrupted)
  BY <1>1, AdvanceIs
<1> HIDE DEF i
<1>6. /\ status \in Statuses
      /\ status = "BLOCKED" <=> (Blockers(i, run) # {} /\ o.only = {})
  BY <1>2, <1>3, <1>4, StatusIs
<1> HIDE DEF status, ups
<1>7. /\ DOMAIN s = DOMAIN found \cup {i} /\ s[i] = status /\ \A j \in DOMAIN found : s[j] = found[j]
      /\ DOMAIN a = DOMAIN above \cup {i} /\ a[i] = ups /\ \A j \in DOMAIN above : a[j] = above[j]
  BY <1>3, <1>4 DEF Extend
<1> HIDE DEF s, a
<1>8. ASSUME NEW d \in Needed(i, run)
      PROVE  d \in C /\ d \in DOMAIN found /\ d < i
  <2>1. d \in C /\ Stages[d].id \in Stages[i].needs
    BY <1>2 DEF Needed
  <2>2. d < i
    BY <1>3, <1>4, <2>1, StagesInOrder
  <2>3. i \in Int /\ d \in Int
    BY <1>3, <1>4, <2>1, StagesDomain
  <2>4. d \notin Left(run)
    BY <1>4, <2>2, <2>3
  <2> QED BY <1>2, <2>1, <2>2, <2>4 DEF Left
<1>9. ups = UNION {{d} \cup above[d] : d \in Needed(i, run)}
  <2>1. \A d \in Needed(i, run) : d \in DOMAIN above
    BY <1>3, <1>8
  <2> QED BY <1>2, <2>1 DEF ups, AboveOf
<1>10. ups \subseteq DOMAIN found
  BY <1>3, <1>8, <1>9
<1>11. \A d \in DOMAIN found : Broke(s, d) <=> Broke(found, d)
  BY <1>7 DEF Broke
<1>12. o.only = {} => (status = "BLOCKED" <=> \E d \in ups : Broke(s, d))
  <2> SUFFICES ASSUME o.only = {}
               PROVE  Blockers(i, run) # {} <=> \E d \in ups : Broke(found, d)
    BY <1>6, <1>10, <1>11
  <2>1. Blockers(i, run) = {d \in Needed(i, run) : found[d] = "BLOCKED" \/ Broke(found, d)}
    BY <1>2, <1>8 DEF Blockers, Broke
  <2>2. ASSUME NEW d \in Blockers(i, run)
        PROVE  \E f \in ups : Broke(found, f)
    <3>1. d \in Needed(i, run) /\ d \in DOMAIN found /\ (found[d] = "BLOCKED" \/ Broke(found, d))
      BY <1>8, <2>1
    <3>2. d \in ups /\ above[d] \subseteq ups
      BY <1>9, <3>1
    <3>3. CASE found[d] = "BLOCKED"
      BY <1>3, <3>1, <3>2, <3>3
    <3> QED BY <3>1, <3>2, <3>3
  <2>3. ASSUME NEW f \in ups, Broke(found, f)
        PROVE  Blockers(i, run) # {}
    <3>1. PICK d \in Needed(i, run) : f = d \/ f \in above[d]
      BY <1>9
    <3>2. f \in above[d] => found[d] = "BLOCKED"
      BY <1>3, <1>8, <2>3
    <3> QED BY <2>1, <2>3, <3>1, <3>2
  <2> QED BY <2>2, <2>3
<1>13. \A j \in DOMAIN s : /\ s[j] \in Statuses /\ a[j] \subseteq DOMAIN s
                           /\ o.only = {} => (s[j] = "BLOCKED" <=> \E d \in a[j] : Broke(s, d))
                           /\ o.only # {} => s[j] # "BLOCKED"
  <2>1. /\ s[i] \in Statuses /\ a[i] \subseteq DOMAIN s
        /\ o.only = {} => (s[i] = "BLOCKED" <=> \E d \in a[i] : Broke(s, d))
        /\ o.only # {} => s[i] # "BLOCKED"
    BY <1>6, <1>7, <1>10, <1>12
  <2>2. ASSUME NEW j \in DOMAIN found
        PROVE  /\ s[j] \in Statuses /\ a[j] \subseteq DOMAIN s
               /\ o.only = {} => (s[j] = "BLOCKED" <=> \E d \in a[j] : Broke(s, d))
               /\ o.only # {} => s[j] # "BLOCKED"
    <3>1. s[j] = found[j] /\ a[j] = above[j] /\ above[j] \subseteq DOMAIN found
      BY <1>3, <1>7
    <3> QED BY <1>3, <1>7, <1>11, <3>1
  <2> QED BY <1>7, <2>1, <2>2
<1>14. \A j \in DOMAIN s, d \in C : d < j => d \in DOMAIN s
  <2> SUFFICES ASSUME NEW d \in C, d < i, d \notin DOMAIN found
               PROVE  FALSE
    BY <1>3, <1>7
  <2>1. d \in Left(run)
    BY <1>2 DEF Left
  <2>2. i \in Int /\ d \in Int
    BY <1>3, <1>4, StagesDomain
  <2> QED BY <1>4, <2>1, <2>2
<1>15. e => s[i] = "FAIL" /\ i \in DOMAIN s
  BY <1>7
<1> HIDE DEF e
<1>16. Underway(o, C, s, a, e, interrupted)
  BY <1>3, <1>4, <1>7, <1>13, <1>14, <1>15 DEF Underway
<1> QED BY <1>5, <1>16, Zenon DEF LabOK
-----------------------------------------------------------------------------
(* Every input is one of its kind.                                         *)

Inputs ==
  /\ Shaped
  /\ input.of = "capture" => input.value \in Captures
  /\ input.of = "experiment" => input.value \in Experiments
  /\ input.of = "history" => input.value \in Histories
  /\ input.of = "benchmark" => input.value \in Benchmarks
  /\ input.of = "request" => input.value \in Requests
  /\ input.of = "audit" => input.value \in Audits
  /\ input.of = "firewall" => input.value \in Firewalls
  /\ input.of = "ledgers" => LedgersOK(input.value)
  /\ input.of = "credential" => CredentialOK(input.value)
  /\ input.of = "trial" => LabOK(input.value)

LEMMA InputsKept == Inputs /\ [AlgorithmsNext]_input => Inputs'
<1> SUFFICES ASSUME Inputs, [AlgorithmsNext]_input PROVE Inputs'
  OBVIOUS
<1>1. ASSUME NEW k, NEW i, input' = [of |-> k, value |-> i],
             k = "capture" => i \in Captures, k = "experiment" => i \in Experiments,
             k = "history" => i \in Histories, k = "benchmark" => i \in Benchmarks,
             k = "request" => i \in Requests, k = "audit" => i \in Audits,
             k = "firewall" => i \in Firewalls, k = "ledgers" => LedgersOK(i),
             k = "credential" => CredentialOK(i), k = "trial" => LabOK(i)
      PROVE  Inputs'
  BY <1>1 DEF Inputs, Shaped
<1>2. CASE UNCHANGED input
  BY <1>2 DEF Inputs, Shaped
<1>3. ASSUME NEW o \in Trials, NEW chosen \in select(o),
             input' = [of |-> "trial", value |-> NewRun(o, chosen)]
      PROVE  Inputs'
  BY <1>1, <1>3, NewRunOK
<1>3a. ASSUME NEW i \in Captures, input' = [of |-> "capture", value |-> i]
       PROVE  Inputs'
  BY <1>1, <1>3a
<1>3b. ASSUME NEW i \in Experiments, input' = [of |-> "experiment", value |-> i]
       PROVE  Inputs'
  BY <1>1, <1>3b
<1>4. ASSUME NEW i \in Requests, input' = [of |-> "request", value |-> i]
      PROVE  Inputs'
  BY <1>1, <1>4
<1>4a. ASSUME NEW i \in Histories, input' = [of |-> "history", value |-> i]
       PROVE  Inputs'
  BY <1>1, <1>4a
<1>4b. ASSUME NEW i \in Benchmarks, input' = [of |-> "benchmark", value |-> i]
       PROVE  Inputs'
  BY <1>1, <1>4b
<1>5. ASSUME NEW i \in Audits, input' = [of |-> "audit", value |-> i]
      PROVE  Inputs'
  BY <1>1, <1>5
<1>6. ASSUME NEW i \in Firewalls, input' = [of |-> "firewall", value |-> i]
      PROVE  Inputs'
  BY <1>1, <1>6
<1>7. CASE input' = [of |-> "ledgers", value |-> NewLedgers]
  BY <1>1, <1>7, NewLedgersOK
<1>8. ASSUME NEW t, input' = [of |-> "credential", value |-> NewCredential(t)]
      PROVE  Inputs'
  <2>1. NewCredential(t) = Worker(1, t, 1, t, <<>>)
    BY DEF Worker, NewCredential
  <2>2. 1 \in Nat /\ 1 \in 0..1 /\ StampSeen(<<>>, 1) /\ ValueCurrent(1, t, 1, t)
    BY DEF StampSeen, ValueCurrent
  <2>3. CredentialOK(NewCredential(t))
    BY <2>1, <2>2, WorkerOK
  <2> QED BY <1>1, <1>8, <2>3
<1>9. CASE input.of = "ledgers" /\ CallLedgers
  <2>1. Shaped' /\ input'.of = "ledgers"
    BY <1>9, GoingOn DEF Inputs
  <2>2. LedgersOK(input'.value)
    BY <1>9, CallKeeps DEF Inputs
  <2> QED BY <2>1, <2>2 DEF Inputs
<1>10. CASE input.of = "credential" /\ UseCredential
  <2>1. Shaped' /\ input'.of = "credential" /\ CredentialOK(input.value)
    BY <1>10, GoingOn DEF Inputs
  <2>2. CASE input' = [input EXCEPT !.value = Reload(@)]
    <3>1. input'.value = Reload(input.value)
      BY <2>2 DEF Inputs, Shaped
    <3> QED BY <2>1, <3>1, ReloadKeeps DEF Inputs
  <2>3. ASSUME NEW t, input' = [input EXCEPT !.value = Provision(@, t)]
        PROVE  Inputs'
    <3>1. input'.value = Provision(input.value, t)
      BY <2>3 DEF Inputs, Shaped
    <3> QED BY <2>1, <3>1, ProvisionKeeps DEF Inputs
  <2> QED BY <1>10, <2>2, <2>3 DEF UseCredential
<1>10a. CASE input.of = "trial" /\ RunLab
  <2>1. Shaped' /\ input'.of = "trial" /\ LabOK(input.value) /\ Left(input.value) # {}
    BY <1>10a, GoingOn DEF Inputs, RunLab
  <2>2. CASE input' = [input EXCEPT !.value = Advance(@)]
    <3>1. input'.value = Advance(input.value)
      BY <2>2 DEF Inputs, Shaped
    <3> QED BY <2>1, <3>1, AdvanceOK DEF Inputs
  <2>3. CASE input' = [input EXCEPT !.value = Interrupt(@)]
    <3>1. input'.value = Interrupt(input.value)
      BY <2>3 DEF Inputs, Shaped
    <3> QED BY <2>1, <3>1, InterruptOK DEF Inputs
  <2> QED BY <1>10a, <2>2, <2>3 DEF RunLab
<1>11. CASE AlgorithmsNext
  BY <1>3, <1>3a, <1>3b, <1>4, <1>4a, <1>4b, <1>5, <1>6, <1>7, <1>8, <1>9, <1>10, <1>10a, <1>11, PureSteps
<1> QED BY <1>2, <1>11

LEMMA AlwaysInputs == AlgorithmsSpec => []Inputs
<1>1. AlgorithmsInit => Inputs
  BY DEF AlgorithmsInit, Inputs, Shaped
<1> QED BY <1>1, InputsKept, PTL DEF AlgorithmsSpec

\* A worker that will not read its credential again has the one in the file, in
\* every interleaving of its stat and its read with the provisioning job.
THEOREM CredentialCurrent == AlgorithmsSpec => []CredentialIsCurrent
<1>1. Inputs => CredentialIsCurrent
  <2>1. SUFFICES ASSUME NEW c, CredentialOK(c), c._stamp = c.file.stamp,
                        c.file.token \notin {"malformed", "no file"}
                 PROVE  c._value = c.file.token
    BY DEF Inputs, CredentialIsCurrent, Given, Malformed, NoFile
  <2>2. \E s \in Nat : \E p \in 0..s : \E t, v, q : c = Worker(s, t, p, v, q) /\ ValueCurrent(s, t, p, v)
    BY <2>1, Zenon DEF CredentialOK
  <2>3. PICK s, p, t, v, q : c = Worker(s, t, p, v, q) /\ ValueCurrent(s, t, p, v)
    BY <2>2, Zenon
  <2>4. c.file.stamp = s /\ c.file.token = t /\ c._stamp = p /\ c._value = v
    BY <2>3 DEF Worker
  <2> QED BY <2>1, <2>3, <2>4 DEF ValueCurrent
<1> QED BY <1>1, AlwaysInputs, PTL

\* In every sequence of calls by any number of processes the file and the
\* memory accept the same calls and keep the same histories, which are legal,
\* and the recovery queue of the file is complete.
THEOREM LedgersHold == AlgorithmsSpec => []LedgersFaithful
<1>1. Inputs => LedgersFaithful
  <2>1. CASE input.of # "ledgers"
    BY <2>1 DEF LedgersFaithful, LedgersAgree, RecoveryIsFounded, UnresolvedIsQueued,
                Given
  <2>2. ASSUME LedgersOK(input.value)
        PROVE  LedgersFaithful
    <3>1. PICK B, A, C : input.value = Books(B, A, C) /\ HistoriesOK(B) /\ A \subseteq DOMAIN B
      BY <2>2, Zenon DEF LedgersOK
    <3> QED BY <3>1, BooksFaithful
  <2> QED BY <2>1, <2>2 DEF Inputs
<1> QED BY <1>1, AlwaysInputs, PTL

\* In every run of any selection of stages, whatever fails and whenever it is
\* interrupted: a stage is held back exactly when one above it failed, and an
\* exit code of 0 means that every selected stage ran and none failed.
THEOREM LabRunsFaithful == AlgorithmsSpec => []LabRunFaithful
<1>1. Inputs => LabRunFaithful
  <2>1. CASE input.of # "trial"
    BY <2>1 DEF LabRunFaithful, FailureBlocks, ZeroMeansDone, Given
  <2>2. ASSUME LabOK(input.value)
        PROVE  LabRunFaithful
    <3>1. PICK o, C, found, above, over, interrupted :
                 /\ input.value = LabRun(o, C, found, above, over, interrupted)
                 /\ Underway(o, C, found, above, over, interrupted)
      BY <2>2, Zenon DEF LabOK
    <3>2. /\ input.value.options = o /\ input.value.chosen = C /\ input.value.results = found
          /\ input.value.above = above /\ input.value.over = over
          /\ input.value.interrupted = interrupted
      BY <3>1 DEF LabRun
    <3>3. FailureBlocks
      BY <3>1, <3>2 DEF FailureBlocks, Given, Underway, Broke
    <3>4. ASSUME over \/ Left(input.value) = {}, summarize(found) = 0, ~interrupted, NEW i \in C
          PROVE  i \in DOMAIN found /\ found[i] \in {"PASS", "WARN", "SKIP"}
      <4>1. \A j \in DOMAIN found : found[j] # "FAIL"
        BY <3>4 DEF summarize
      <4>2. ~over
        BY <3>1, <3>4, <4>1 DEF Underway
      <4>3. i \in DOMAIN found
        BY <3>2, <3>4, <4>2 DEF Left
      <4>4. found[i] # "BLOCKED"
        BY <3>1, <4>1, <4>3 DEF Underway, Broke
      <4>5. found[i] \in {"PASS", "WARN", "SKIP", "FAIL", "BLOCKED"}
        BY <3>1, <4>3 DEF Underway, Statuses
      <4> QED BY <4>1, <4>3, <4>4, <4>5
    <3>5. ZeroMeansDone
      BY <3>2, <3>4 DEF ZeroMeansDone, Given
    <3> QED BY <3>3, <3>5 DEF LabRunFaithful
  <2> QED BY <2>1, <2>2 DEF Inputs
<1> QED BY <1>1, AlwaysInputs, PTL
-----------------------------------------------------------------------------
(* The firewalls.                                                          *)

\* What an add puts into a set, and what is left without the address.
LEMMA PutAndWithout ==
  ASSUME NEW E, NEW a, NEW until
  PROVE  /\ HasHost(Put(E, a, until), a)
         /\ Without(Put(E, a, until), a) = Without(E, a)
         /\ Without(Without(E, a), a) = Without(E, a)
         /\ ~HasHost(Without(E, a), a)
<1>1. ~HasHost(Without(E, a), a) /\ Without(Without(E, a), a) = Without(E, a)
  BY DEF HasHost, Without
<1>2. CASE HasHost(E, a)
  BY <1>1, <1>2 DEF Put
<1>3. CASE ~HasHost(E, a)
  <2>1. Put(E, a, until) = E \cup {Entry("host", a, until)}
    BY <1>3 DEF Put
  <2>2. Entry("host", a, until).kind = "host" /\ Entry("host", a, until).address = a
    BY DEF Entry
  <2> QED BY <1>1, <2>1, <2>2 DEF HasHost, Without
<1> QED BY <1>2, <1>3

\* The shape of a firewall (FirewallInputs).
IsFirewall(fw) ==
  \E E : fw \in [backend : {"nftables", "opnsense", "vyos"}, permitted : BOOLEAN, broken : BOOLEAN,
                 entries : {E}]

LEMMA WallIs ==
  ASSUME NEW fw, IsFirewall(fw), NEW x
  PROVE  /\ fw.backend \in {"nftables", "opnsense", "vyos"}
         /\ IsFirewall([fw EXCEPT !.entries = x])
         /\ [fw EXCEPT !.entries = x].backend = fw.backend
         /\ [fw EXCEPT !.entries = x].permitted = fw.permitted
         /\ [fw EXCEPT !.entries = x].broken = fw.broken
         /\ [fw EXCEPT !.entries = x].entries = x
<1>1. PICK E : fw \in [backend : {"nftables", "opnsense", "vyos"}, permitted : BOOLEAN, broken : BOOLEAN,
                       entries : {E}]
  BY DEF IsFirewall
<1>2. [fw EXCEPT !.entries = x] \in [backend : {"nftables", "opnsense", "vyos"}, permitted : BOOLEAN,
                                     broken : BOOLEAN, entries : {x}]
  BY <1>1
<1>3. IsFirewall([fw EXCEPT !.entries = x])
  BY <1>2, Zenon DEF IsFirewall
<1> QED BY <1>1, <1>3

\* A firewall that takes this address: its device works and, of the nftables
\* agent, it knows the client and may block the address.
Takes(fw, a) ==
  /\ ~fw.broken
  /\ fw.backend = "nftables" => fw.permitted /\ ~a.special

\* The client of the agent gives the answer of one that succeeds.
LEMMA NftReply ==
  ASSUME NEW fw, NEW path, NEW a, NEW lifetime, NEW E, NEW present,
         do_POST(fw, path, a, lifetime) = Reply(200, E, present)
  PROVE  /\ {r.entries : r \in Nft(fw, path, a, lifetime)} = {E}
         /\ {r.present : r \in Nft(fw, path, a, lifetime)} = {present}
<1> DEFINE reply == Reply(200, E, present)
<1>1. reply.status = 200 /\ reply.entries = E /\ reply.present = present
  BY DEF Reply
<1> HIDE DEF reply
<1>2. Nft(fw, path, a, lifetime) = {reply}
  BY <1>1 DEF Nft, reply
<1> QED BY <1>1, <1>2

LEMMA RemoveIs ==
  ASSUME NEW fw, IsFirewall(fw), NEW a, Takes(fw, a)
  PROVE  SetRemove(fw, a) = {Without(fw.entries, a)}
<1>1. CASE fw.backend = "nftables"
  <2> DEFINE left == Without(fw.entries, a)
             no == FALSE
  <2>1. NftDelete(fw, a) = {left}
    BY DEF Takes, NftDelete
  <2> HIDE DEF left
  <2>2. do_POST(fw, "remove", a, {}) = Reply(200, left, no)
    BY <1>1, <2>1 DEF Takes, do_POST, parse
  <2> HIDE DEF no
  <2>3. {r.entries : r \in Nft(fw, "remove", a, {})} = {left}
    BY <2>2, NftReply
  <2>4. SetRemove(fw, a) = {left}
    BY <1>1, <2>3 DEF SetRemove
  <2> QED BY <2>4 DEF left
<1>2. CASE fw.backend = "opnsense"
  BY <1>2 DEF Takes, SetRemove, OPNsenseRemove, Works
<1>3. CASE fw.backend = "vyos"
  BY <1>3 DEF Takes, SetRemove, VyosRemove, Works
<1> QED BY <1>1, <1>2, <1>3, WallIs

\* What a firewall that is asked for the address finds.
Has(fw, a) ==
  IF fw.backend = "opnsense" THEN \E e \in fw.entries : e.address = a ELSE HasHost(fw.entries, a)

LEMMA ContainsIs ==
  ASSUME NEW fw, IsFirewall(fw), NEW a, Takes(fw, a)
  PROVE  /\ Has(fw, a) => SetContains(fw, a) = {TRUE}
         /\ ~Has(fw, a) => SetContains(fw, a) = {FALSE}
<1>1. CASE fw.backend = "nftables"
  <2> DEFINE found == HasHost(fw.entries, a)
  <2>1. do_POST(fw, "contains", a, {}) = Reply(200, fw.entries, found)
    BY <1>1 DEF Takes, do_POST, parse
  <2>2. Has(fw, a) <=> found
    BY <1>1 DEF Has
  <2>3. found \in BOOLEAN
    BY DEF HasHost
  <2> HIDE DEF found
  <2>4. {r.present : r \in Nft(fw, "contains", a, {})} = {found}
    BY <2>1, NftReply
  <2>5. SetContains(fw, a) = {found}
    BY <1>1, <2>4 DEF SetContains
  <2> QED BY <2>2, <2>3, <2>5, Zenon
<1>2. CASE fw.backend = "opnsense"
  <2> DEFINE found == \E e \in fw.entries : e.address = a
  <2>1. SetContains(fw, a) = Works(fw, found)
    BY <1>2 DEF SetContains, OPNsenseContains
  <2>2. Has(fw, a) <=> found
    BY <1>2 DEF Has
  <2>3. found \in BOOLEAN
    OBVIOUS
  <2> HIDE DEF found
  <2>4. SetContains(fw, a) = {found}
    BY <2>1 DEF Takes, Works
  <2> QED BY <2>2, <2>3, <2>4, Zenon
<1>3. CASE fw.backend = "vyos"
  <2> DEFINE found == HasHost(fw.entries, a)
  <2>1. SetContains(fw, a) = Works(fw, found)
    BY <1>3 DEF SetContains, VyosContains
  <2>2. Has(fw, a) <=> found
    BY <1>3 DEF Has
  <2>3. found \in BOOLEAN
    BY DEF HasHost
  <2> HIDE DEF found
  <2>4. SetContains(fw, a) = {found}
    BY <2>1 DEF Takes, Works
  <2> QED BY <2>2, <2>3, <2>4, Zenon
<1> QED BY <1>1, <1>2, <1>3, WallIs

\* An add that is answered changed the set as asked.
LEMMA AddIs ==
  ASSUME NEW fw, IsFirewall(fw), NEW a, NEW s, NEW added \in SetAdd(fw, a, {s})
  PROVE  Takes(fw, a) /\ \E until : added = Put(fw.entries, a, until)
<1>1. CASE fw.backend = "nftables"
  <2>1. PICK r : r = do_POST(fw, "add", a, {s}) /\ r.status = 200 /\ r.entries = added
    BY <1>1 DEF SetAdd, Nft
  <2>2. fw.permitted /\ ~a.special /\ ~fw.broken
    BY <2>1 DEF do_POST, Reply, parse
  <2>3. SecondsPermitted(s)
    BY <2>1, <2>2 DEF do_POST, Reply, parse
  <2>4. r = Reply(200, Put(fw.entries, a, s), FALSE)
    BY <2>1, <2>2, <2>3 DEF do_POST, parse
  <2> QED BY <2>1, <2>2, <2>4 DEF Reply, Takes
<1>2. CASE fw.backend = "opnsense"
  BY <1>2 DEF Takes, SetAdd, OPNsenseAdd, Works
<1>3. CASE fw.backend = "vyos"
  BY <1>3 DEF Takes, SetAdd, VyosAdd, Works
<1> QED BY <1>1, <1>2, <1>3, WallIs

\* A working agent takes a lifetime that it permits and holds the address as
\* long.
LEMMA AgentAdds ==
  ASSUME NEW fw, NEW a, fw.backend = "nftables", fw.permitted, ~fw.broken, ~a.special,
         ~HasHost(fw.entries, a), NEW s, SecondsPermitted(s)
  PROVE  fw.entries \cup {Entry("host", a, s)} \in SetAdd(fw, a, {s})
<1> DEFINE put == Put(fw.entries, a, s)
           no == FALSE
<1>1. put = fw.entries \cup {Entry("host", a, s)}
  BY DEF Put
<1>2. (CHOOSE x \in {s} : TRUE) = s /\ {s} # {}
  OBVIOUS
<1>3. do_POST(fw, "add", a, {s}) = Reply(200, put, no)
  BY <1>2 DEF do_POST, parse
<1> HIDE DEF put, no
<1>4. {r.entries : r \in Nft(fw, "add", a, {s})} = {put}
  BY <1>3, NftReply
<1>5. put \in SetAdd(fw, a, {s})
  BY <1>4 DEF SetAdd
<1> QED BY <1>1, <1>5

\* The agent permits the lifetime of every rule, and that is longer than the
\* rule's by the grace.
LEMMA LifetimePermitted ==
  ASSUME NEW ttl, RuleTtl(ttl)
  PROVE  /\ ttl \in Nat /\ LifetimeOf(ttl) = {ttl + 300} /\ SecondsPermitted(ttl + 300)
<1>1. ttl \in Nat /\ ~(ttl <= 0)
  BY DEF RuleTtl
<1>2. SecondsPermitted(ttl + 300)
  BY DEF RuleTtl, SecondsPermitted, MAX_LIFETIME
<1>3. LifetimeOf(ttl) = {ttl + 300}
  BY <1>1 DEF LifetimeOf, BACKSTOP_GRACE_SECONDS
<1> QED BY <1>1, <1>2, <1>3

\* What BackendsAreSets says of a firewall, an address and what an add left.
LEMMA BackendIsSet ==
  ASSUME NEW fw, IsFirewall(fw), NEW a, NEW s, NEW added \in SetAdd(fw, a, {s})
  PROVE  /\ Without(added, a) = Without(fw.entries, a)
         /\ SetContains([fw EXCEPT !.entries = added], a) = {TRUE}
         /\ SetRemove([fw EXCEPT !.entries = added], a) = {Without(fw.entries, a)}
         /\ SetRemove([fw EXCEPT !.entries = Without(fw.entries, a)], a)
              = {Without(fw.entries, a)}
         /\ \/ SetContains([fw EXCEPT !.entries = Without(fw.entries, a)], a) = {FALSE}
            \/ fw.backend = "opnsense" /\ \E e \in Without(fw.entries, a) : e.address = a
<1> DEFINE others == Without(fw.entries, a)
           At(entries) == [fw EXCEPT !.entries = entries]
<1>1. Takes(fw, a) /\ \E until : added = Put(fw.entries, a, until)
  BY AddIs
<1>2. ASSUME NEW x
      PROVE  /\ IsFirewall(At(x)) /\ At(x).backend = fw.backend /\ At(x).permitted = fw.permitted
             /\ At(x).broken = fw.broken /\ At(x).entries = x
  BY WallIs
<1> HIDE DEF At
<1>3. ASSUME NEW x
      PROVE  IsFirewall(At(x)) /\ Takes(At(x), a) /\ At(x).entries = x /\ At(x).backend = fw.backend
  BY <1>1, <1>2 DEF Takes
<1>4. /\ Without(added, a) = others /\ HasHost(added, a)
      /\ Without(others, a) = others /\ ~HasHost(others, a)
  BY <1>1, PutAndWithout
<1> HIDE DEF others
<1>5. \E e \in added : e.address = a
  BY <1>4 DEF HasHost
<1>6. SetContains(At(added), a) = {TRUE}
  <2>1. Has(At(added), a)
    BY <1>3, <1>4, <1>5, Zenon DEF Has
  <2> QED BY <1>3, <2>1, ContainsIs
<1>7. SetRemove(At(added), a) = {others} /\ SetRemove(At(others), a) = {others}
  BY <1>3, <1>4, RemoveIs
<1>8. \/ SetContains(At(others), a) = {FALSE}
      \/ fw.backend = "opnsense" /\ \E e \in others : e.address = a
  <2>1. Has(At(others), a) => fw.backend = "opnsense" /\ \E e \in others : e.address = a
    BY <1>3, <1>4, Zenon DEF Has
  <2> QED BY <1>3, <2>1, ContainsIs
<1> QED BY <1>4, <1>6, <1>7, <1>8 DEF At, others

\* For every firewall, address and time to live: the three backends are the set
\* that the ownership ledger takes them for, and the agent's timeout outlasts
\* the response and nothing else.
THEOREM BackendsHold == AlgorithmsSpec => []BackendsFaithful
<1>0. FirewallInputs
  BY InputAssumption
<1>3. ASSUME NEW i \in Firewalls
      PROVE  /\ IsFirewall(i.firewall) /\ i.ttl \in Nat
             /\ LifetimeOf(i.ttl) = {i.ttl + 300} /\ SecondsPermitted(i.ttl + 300)
  <2>1. IsFirewall(i.firewall) /\ RuleTtl(i.ttl)
    BY <1>0, Zenon DEF FirewallInputs, IsFirewall
  <2> QED BY <2>1, LifetimePermitted
<1>4. Inputs => BackendsAreSets
  <2>1. SUFFICES ASSUME input.of = "firewall", input.value \in Firewalls
                 PROVE  BackendsAreSets
    BY DEF Inputs, BackendsAreSets, Given
  <2>2. IsFirewall(input.value.firewall) /\ LifetimeOf(input.value.ttl) = {input.value.ttl + 300}
    BY <1>3, <2>1
  <2> DEFINE fw == input.value.firewall
             a == input.value.address
             others == Without(fw.entries, a)
  <2>3. ASSUME NEW added \in SetAdd(fw, a, LifetimeOf(input.value.ttl))
        PROVE  /\ Without(added, a) = others
               /\ SetContains([fw EXCEPT !.entries = added], a) = {TRUE}
               /\ SetRemove([fw EXCEPT !.entries = added], a) = {others}
               /\ SetRemove([fw EXCEPT !.entries = others], a) = {others}
               /\ \/ SetContains([fw EXCEPT !.entries = others], a) = {FALSE}
                  \/ fw.backend = "opnsense" /\ \E e \in others : e.address = a
    <3>1. IsFirewall(fw) /\ added \in SetAdd(fw, a, {input.value.ttl + 300})
      BY <2>2, <2>3
    <3> HIDE DEF fw, a
    <3> QED BY <3>1, BackendIsSet
  <2> QED BY <2>3, Zenon DEF BackendsAreSets, Given
<1>5. Inputs => BackstopHolds
  <2>1. SUFFICES ASSUME NEW i \in Firewalls, i.firewall.backend = "nftables", i.firewall.permitted,
                        ~i.firewall.broken, ~i.address.special,
                        ~HasHost(i.firewall.entries, i.address)
                 PROVE  \E added \in SetAdd(i.firewall, i.address, LifetimeOf(i.ttl)) :
                          /\ HasHost(LeftAfter(added, i.ttl), i.address)
                          /\ ~HasHost(LeftAfter(added, i.ttl + 300), i.address)
    BY DEF Inputs, BackstopHolds, Given, BACKSTOP_GRACE_SECONDS
  <2> DEFINE e == Entry("host", i.address, i.ttl + 300)
             added == i.firewall.entries \cup {e}
  <2>2. added \in SetAdd(i.firewall, i.address, LifetimeOf(i.ttl))
    BY <1>3, <2>1, AgentAdds
  <2>3. e.kind = "host" /\ e.address = i.address /\ e.until = i.ttl + 300
    BY DEF Entry
  <2>4. HasHost(LeftAfter(added, i.ttl), i.address)
    BY <1>3, <2>3 DEF HasHost, LeftAfter
  <2>5. ~HasHost(LeftAfter(added, i.ttl + 300), i.address)
    BY <1>3, <2>1, <2>3 DEF HasHost, LeftAfter
  <2> QED BY <2>2, <2>4, <2>5
<1> QED BY <1>4, <1>5, AlwaysInputs, PTL DEF BackendsFaithful
-----------------------------------------------------------------------------
(* Decisions.                                                              *)

\* What a document that loads promises.
LEMMA Loaded ==
  ASSUME NEW doc, CatalogLoads(doc)
  PROVE  /\ doc.command_valid_for \in Int /\ doc.command_valid_for > 0
         /\ doc.evidence_max_age \in Int
         /\ \A i \in DOMAIN doc.policies : doc.policies[i].min_ai_score \in Int
         /\ \A i, j \in DOMAIN doc.policies : doc.policies[i].id = doc.policies[j].id => i = j
<1>0. ASSUME NEW n, NEW low, NEW high, BoundedInt(n, low, high)
      PROVE  n \in Int /\ n >= low
  BY <1>0 DEF BoundedInt
<1>1. /\ doc.command_valid_for \in Int /\ doc.command_valid_for > 0 /\ doc.evidence_max_age \in Int
  <2>1. /\ BoundedInt(doc.command_valid_for, 30, 900)
        /\ BoundedInt(doc.evidence_max_age, 30, 86400)
    BY SMT DEF CatalogLoads
  <2> QED BY <1>0, <2>1
<1>2. ASSUME NEW i \in DOMAIN doc.policies
      PROVE  doc.policies[i].min_ai_score \in Int
  <2>1. BoundedInt(doc.policies[i].min_ai_score, 90, 100)
    BY SMT DEF CatalogLoads, RuleLoads
  <2> QED BY <1>0, <2>1
<1>3. \A i, j \in DOMAIN doc.policies : doc.policies[i].id = doc.policies[j].id => i = j
  BY SMT DEF CatalogLoads
<1> QED BY <1>1, <1>2, <1>3

LEMMA RuleOfIs ==
  ASSUME NEW doc, NEW id, KnownPolicy(doc, id)
  PROVE  \E i \in DOMAIN doc.policies : RuleOf(doc, id) = doc.policies[i] /\ doc.policies[i].id = id
<1> QED BY DEF KnownPolicy, RuleOf

\* What a verdict to respond went through.
LEMMA Responds ==
  ASSUME NEW r, NEW signals, Verdict(r, signals).outcome = "response_requested"
  PROVE  LET rule == RuleOf(r.doc, r.policy)
         IN  /\ KnownPolicy(r.doc, r.policy) /\ AnomalyValid(r.anomaly)
             /\ EvidenceBound(r.anomaly, signals, r.target)
             /\ Fresh(r.doc, r.anomaly, signals, r.now)
             /\ r.anomaly.is_anomaly /\ ~(r.anomaly.score < rule.min_ai_score)
             /\ Corroborated(rule, signals)
             /\ TargetAllowed(r.doc.protections, r.world, rule.action, NormalTarget(r.target))
             /\ Verdict(r, signals).command
                  = Command(r.doc, rule, r.anomaly, signals, r.target, r.now, "key")
<1> DEFINE rule == RuleOf(r.doc, r.policy)
           rejection == Rejection(r.doc, r.world, rule, r.anomaly, signals, r.target, r.now)
<1>1. ~(\/ ~KnownPolicy(r.doc, r.policy) \/ ~AnomalyValid(r.anomaly) \/ ~TargetValid(r.target)
        \/ ~SignalsValid(signals) \/ ~EvidenceBound(r.anomaly, signals, r.target))
  BY DEF Verdict, Evaluate
<1>2. signals # <<>>
  BY <1>1 DEF Verdict, Evaluate
<1>3. Verdict(r, signals)
        = [outcome |-> Outcome(rejection, r.anomaly),
           id |-> Material(r.doc, rule, r.anomaly, signals, r.target),
           command |-> IF rejection = "none"
                       THEN Command(r.doc, rule, r.anomaly, signals, r.target, r.now, "key")
                       ELSE NoCommand]
  BY <1>1, <1>2 DEF Verdict, Evaluate
<1> HIDE DEF rejection
<1>4. rejection = "none"
  BY <1>3 DEF Outcome
<1>5. Verdict(r, signals).command
        = Command(r.doc, rule, r.anomaly, signals, r.target, r.now, "key")
  BY <1>3, <1>4
<1>6. /\ Fresh(r.doc, r.anomaly, signals, r.now)
      /\ r.anomaly.is_anomaly /\ ~(r.anomaly.score < rule.min_ai_score)
      /\ Corroborated(rule, signals)
      /\ TargetAllowed(r.doc.protections, r.world, rule.action, NormalTarget(r.target))
  BY <1>4 DEF rejection, Rejection
<1> QED BY <1>1, <1>5, <1>6

\* A command is justified by its evidence.
LEMMA Justified ==
  ASSUME RequestInputs, NEW r \in Requests,
         Verdict(r, r.signals).outcome = "response_requested"
  PROVE  LET rule == RuleOf(r.doc, r.policy)
             evidence == {r.anomaly} \cup ToSet(r.signals)
         IN  /\ r.anomaly.score >= r.anomaly.threshold /\ r.anomaly.score >= rule.min_ai_score
             /\ \A e \in evidence : /\ r.now - e.observed_at <= r.doc.evidence_max_age
                                    /\ e.observed_at - r.now <= FutureSkew
                                    /\ e.target.value = r.target.value
             /\ \E s \in ToSet(r.signals), q \in rule.require_any :
                  /\ s.type = q.kind /\ s.reference # r.anomaly.event_id
                  /\ q.min_severity # Absent => s.severity >= q.min_severity
                  /\ q.min_count # Absent => s.count >= q.min_count
             /\ rule.action = "block_ip" => r.target.value \notin r.doc.protections.protected
             /\ rule.action = "isolate_host" => r.target.value \notin r.doc.protections.protected_hosts
<1> DEFINE rule == RuleOf(r.doc, r.policy)
           signals == r.signals
<1>1. /\ KnownPolicy(r.doc, r.policy) /\ AnomalyValid(r.anomaly)
      /\ EvidenceBound(r.anomaly, signals, r.target)
      /\ Fresh(r.doc, r.anomaly, signals, r.now)
      /\ r.anomaly.is_anomaly /\ ~(r.anomaly.score < rule.min_ai_score)
      /\ Corroborated(rule, signals)
      /\ TargetAllowed(r.doc.protections, r.world, rule.action, NormalTarget(r.target))
  BY Responds
<1>2. /\ CatalogLoads(r.doc) /\ r.now \in Int /\ r.anomaly.observed_at \in Int
      /\ \A i \in DOMAIN signals : IsSignal(signals[i])
  BY Zenon DEF RequestInputs
<1>3. r.anomaly.score \in Int /\ rule.min_ai_score \in Int /\ r.doc.evidence_max_age \in Int
  <2>1. r.anomaly.score \in Int
    BY <1>1 DEF AnomalyValid
  <2> QED BY <1>1, <1>2, <2>1, RuleOfIs, Loaded
<1> HIDE DEF rule, signals
<1>4. r.anomaly.score >= r.anomaly.threshold
  BY <1>1 DEF AnomalyValid
<1>5. r.anomaly.score >= rule.min_ai_score
  BY <1>1, <1>3
<1>6. \A i \in DOMAIN signals : signals[i].observed_at \in Int
  BY <1>2 DEF IsSignal
<1>7. ASSUME NEW t \in Int, t \in {r.anomaly.observed_at} \cup {signals[i].observed_at : i \in DOMAIN signals}
      PROVE  r.now - t <= r.doc.evidence_max_age /\ t - r.now <= FutureSkew
  <2>1. t \in (r.now - r.doc.evidence_max_age)..(r.now + FutureSkew)
    BY <1>1, <1>7 DEF Fresh
  <2> QED BY <1>2, <1>3, <2>1 DEF FutureSkew
<1>8. ASSUME NEW x, NormalTarget(x) = NormalTarget(r.target)
      PROVE  x.value = r.target.value
  BY <1>8 DEF NormalTarget
<1>9. ASSUME NEW e \in {r.anomaly} \cup ToSet(signals)
      PROVE  /\ r.now - e.observed_at <= r.doc.evidence_max_age
             /\ e.observed_at - r.now <= FutureSkew
             /\ e.target.value = r.target.value
  <2>1. CASE e = r.anomaly
    <3>1. NormalTarget(r.anomaly.target) = NormalTarget(r.target)
      BY <1>1 DEF EvidenceBound
    <3> QED BY <1>2, <1>7, <1>8, <2>1, <3>1
  <2>2. ASSUME NEW i \in DOMAIN signals, e = signals[i]
        PROVE  /\ r.now - e.observed_at <= r.doc.evidence_max_age
               /\ e.observed_at - r.now <= FutureSkew
               /\ e.target.value = r.target.value
    <3>1. NormalTarget(signals[i].target) = NormalTarget(r.target)
      BY <1>1 DEF EvidenceBound
    <3> QED BY <1>6, <1>7, <1>8, <2>2, <3>1
  <2> QED BY <2>1, <2>2 DEF ToSet
<1>10. \E s \in ToSet(signals), q \in rule.require_any :
         /\ s.type = q.kind /\ s.reference # r.anomaly.event_id
         /\ q.min_severity # Absent => s.severity >= q.min_severity
         /\ q.min_count # Absent => s.count >= q.min_count
  <2>1. PICK q \in rule.require_any, i \in DOMAIN signals : Corroborates(q, signals[i])
    BY <1>1 DEF Corroborated
  <2>2. signals[i].reference # r.anomaly.event_id /\ signals[i] \in ToSet(signals)
    BY <1>1 DEF EvidenceBound, ToSet
  <2>3. /\ signals[i].type = q.kind
        /\ q.min_severity # Absent => signals[i].severity >= q.min_severity
        /\ q.min_count # Absent => signals[i].count >= q.min_count
    BY <2>1, Zenon DEF Corroborates, AtLeast
  <2> QED BY <2>2, <2>3, Zenon
<1>11. NormalTarget(r.target).value = r.target.value
  BY DEF NormalTarget
<1>12. /\ rule.action = "block_ip" => r.target.value \notin r.doc.protections.protected
       /\ rule.action = "isolate_host" => r.target.value \notin r.doc.protections.protected_hosts
  BY <1>1, <1>11 DEF TargetAllowed
<1> QED BY <1>4, <1>5, <1>9, <1>10, <1>12 DEF rule, signals

\* Two documents with the same safeguards differ in their rules alone.
LEMMA SameSafeguards ==
  ASSUME NEW d, NEW e, IsDocument(d), IsDocument(e)
  PROVE  Safeguards(d) = Safeguards(e)
           <=> [d EXCEPT !.policies = <<>>] = [e EXCEPT !.policies = <<>>]
<1> DEFINE Bare(x) == [protections |-> x.protections, rate_limit |-> x.rate_limit, dedup |-> x.dedup,
                       command_valid_for |-> x.command_valid_for,
                       evidence_max_age |-> x.evidence_max_age, policies |-> <<>>]
<1>1. ASSUME NEW x, IsDocument(x)
      PROVE  [x EXCEPT !.policies = <<>>] = Bare(x)
  BY <1>1 DEF IsDocument
<1>2. Bare(d) = Bare(e) <=> Safeguards(d) = Safeguards(e)
  BY DEF Safeguards
<1> QED BY <1>1, <1>2

\* The rule of a hash: a document has the rule under its identifier exactly
\* when one of its entries is that rule.
LEMMA HashOfRule ==
  ASSUME NEW d, NEW doc, NEW rule, CatalogLoads(doc)
  PROVE  /\ KnownPolicy(doc, rule.id)
         /\ PolicyHash(d, rule) = PolicyHash(doc, RuleOf(doc, rule.id))
         <=> /\ rule \in ToSet(doc.policies)
             /\ Safeguards(d) = Safeguards(doc)
<1> DEFINE other == RuleOf(doc, rule.id)
<1>1. PolicyHash(d, rule) = PolicyHash(doc, other)
        <=> rule = other /\ Safeguards(d) = Safeguards(doc)
  BY DEF PolicyHash
<1>2. KnownPolicy(doc, rule.id) => other \in ToSet(doc.policies)
  BY RuleOfIs DEF ToSet
<1>3. ASSUME rule \in ToSet(doc.policies)
      PROVE  KnownPolicy(doc, rule.id) /\ rule = other
  <2>1. PICK i \in DOMAIN doc.policies : doc.policies[i] = rule
    BY <1>3 DEF ToSet
  <2>2. KnownPolicy(doc, rule.id)
    BY <2>1, Zenon DEF KnownPolicy
  <2>3. PICK j \in DOMAIN doc.policies : other = doc.policies[j] /\ doc.policies[j].id = rule.id
    BY <2>2, RuleOfIs
  <2>4. i = j
    BY <2>1, <2>3, Loaded, Zenon
  <2> QED BY <2>1, <2>2, <2>3, <2>4
<1> HIDE DEF other
<1>4. KnownPolicy(doc, rule.id) /\ rule = other <=> rule \in ToSet(doc.policies)
  BY <1>2, <1>3, Zenon
<1> QED BY <1>1, <1>4, Zenon DEF other

\* When an orchestrator accepts the command of a decision.
LEMMA Accepted ==
  ASSUME NEW d, NEW doc, NEW rule, NEW anomaly, NEW signals, NEW target, NEW issued \in Int, NEW delay \in Int,
         CatalogLoads(d), CatalogLoads(doc),
         rule.action = "block_ip" => target.type = "ip",
         rule.action = "isolate_host" => target.type = "host"
  PROVE  CommandAccepted(doc, {"key"}, Command(d, rule, anomaly, signals, target, issued, "key"), issued + delay)
         <=> /\ rule \in ToSet(doc.policies)
             /\ Safeguards(d) = Safeguards(doc)
             /\ delay \in -60 .. d.command_valid_for - 1
<1> DEFINE command == Command(d, rule, anomaly, signals, target, issued, "key")
           body == command.body
           valid == d.command_valid_for
           other == RuleOf(doc, rule.id)
<1>1. /\ body.policy = rule.id /\ body.hash = PolicyHash(d, rule) /\ body.action = rule.action
      /\ body.ttl = rule.ttl /\ body.target.type = target.type /\ body.key_id = "key"
      /\ body.issued_at = issued /\ body.expires_at = issued + valid
      /\ command.signature = <<body.key_id, body>>
  BY DEF Command, NormalTarget
<1>2. valid \in Int /\ valid > 0 /\ doc.command_valid_for \in Int
  BY Loaded
<1> HIDE DEF command, body, valid, other
<1>3. SignatureValid(command, {"key"}, issued + delay) <=> delay < valid
  <2>1. SignatureValid(command, {"key"}, issued + delay) <=> issued < issued + valid /\ issued + delay < issued + valid
    BY <1>1, Zenon DEF SignatureValid, body
  <2> QED BY <1>2, <2>1
<1>4. CommandAccepted(doc, {"key"}, command, issued + delay)
      <=> /\ KnownPolicy(doc, rule.id)
          /\ PolicyHash(d, rule) = PolicyHash(doc, other)
          /\ rule.action = other.action /\ rule.ttl = other.ttl
          /\ issued <= issued + delay + FutureSkew
          /\ issued + valid - issued <= doc.command_valid_for
          /\ SignatureValid(command, {"key"}, issued + delay)
  <2>1. RuleOf(doc, body.policy) = other
    BY <1>1, Zenon DEF other
  <2>2. CommandAccepted(doc, {"key"}, command, issued + delay)
        <=> /\ KnownPolicy(doc, body.policy)
            /\ body.hash = PolicyHash(doc, other)
            /\ body.action = other.action /\ body.ttl = other.ttl
            /\ body.action = "block_ip" => body.target.type = "ip"
            /\ body.action = "isolate_host" => body.target.type = "host"
            /\ body.issued_at <= issued + delay + FutureSkew
            /\ body.expires_at - body.issued_at <= doc.command_valid_for
            /\ SignatureValid(command, {"key"}, issued + delay)
    BY <2>1, Zenon DEF CommandAccepted, body
  <2>3. KnownPolicy(doc, body.policy) <=> KnownPolicy(doc, rule.id)
    BY <1>1, Zenon
  <2>4. body.hash = PolicyHash(doc, other) <=> PolicyHash(d, rule) = PolicyHash(doc, other)
    BY <1>1, Zenon
  <2>5. body.action = other.action /\ body.ttl = other.ttl <=> rule.action = other.action /\ rule.ttl = other.ttl
    BY <1>1, Zenon
  <2>6. /\ body.action = "block_ip" => body.target.type = "ip"
        /\ body.action = "isolate_host" => body.target.type = "host"
    BY <1>1, Zenon
  <2>7. /\ body.issued_at <= issued + delay + FutureSkew <=> issued <= issued + delay + FutureSkew
        /\ body.expires_at - body.issued_at <= doc.command_valid_for
             <=> issued + valid - issued <= doc.command_valid_for
    BY <1>1, <1>2 DEF FutureSkew
  <2> QED BY <2>2, <2>3, <2>4, <2>5, <2>6, <2>7, Zenon
<1>5. /\ issued <= issued + delay + FutureSkew <=> delay >= -60
      /\ issued + valid - issued <= doc.command_valid_for <=> valid <= doc.command_valid_for
  BY <1>2 DEF FutureSkew
<1>6. /\ KnownPolicy(doc, rule.id)
      /\ PolicyHash(d, rule) = PolicyHash(doc, other)
      <=> /\ rule \in ToSet(doc.policies)
          /\ Safeguards(d) = Safeguards(doc)
  BY HashOfRule, Zenon DEF other
<1>7. PolicyHash(d, rule) = PolicyHash(doc, other) => rule = other
  BY DEF PolicyHash
<1>8. Safeguards(d) = Safeguards(doc) => valid = doc.command_valid_for
  BY DEF Safeguards, valid
<1>9. delay \in -60 .. valid - 1 <=> delay >= -60 /\ delay < valid
  BY <1>2
<1>10. Safeguards(d) = Safeguards(doc) => valid <= doc.command_valid_for
  BY <1>2, <1>8
<1>11. rule = other => rule.action = other.action /\ rule.ttl = other.ttl
  OBVIOUS
<1> QED BY <1>3, <1>4, <1>5, <1>6, <1>7, <1>9, <1>10, <1>11, Zenon DEF command, valid

\* What may lie between the decision and the orchestrator.
LEMMA Honoured ==
  ASSUME RequestInputs, NEW r \in Requests, NEW q \in Requests, NEW delay \in Int,
         Verdict(r, r.signals).outcome = "response_requested"
  PROVE  CommandAccepted(q.doc, {"key"}, Verdict(r, r.signals).command, r.now + delay)
         <=> /\ [q.doc EXCEPT !.policies = <<>>] = [r.doc EXCEPT !.policies = <<>>]
             /\ RuleOf(r.doc, r.policy) \in ToSet(q.doc.policies)
             /\ delay \in -60 .. r.doc.command_valid_for - 1
<1> DEFINE rule == RuleOf(r.doc, r.policy)
           command == Command(r.doc, rule, r.anomaly, r.signals, r.target, r.now, "key")
<1>1. /\ CatalogLoads(r.doc) /\ IsDocument(r.doc) /\ r.now \in Int
      /\ CatalogLoads(q.doc) /\ IsDocument(q.doc)
  BY Zenon DEF RequestInputs
<1>2. /\ TargetAllowed(r.doc.protections, r.world, rule.action, NormalTarget(r.target))
      /\ Verdict(r, r.signals).command = command
  BY Responds
<1> HIDE DEF rule
<1>3. /\ rule.action = "block_ip" => r.target.type = "ip"
      /\ rule.action = "isolate_host" => r.target.type = "host"
  BY <1>2 DEF TargetAllowed, NormalTarget
<1>4. CommandAccepted(q.doc, {"key"}, command, r.now + delay)
      <=> /\ rule \in ToSet(q.doc.policies)
          /\ Safeguards(r.doc) = Safeguards(q.doc)
          /\ delay \in -60 .. r.doc.command_valid_for - 1
  BY <1>1, <1>3, Accepted
<1>5. Safeguards(r.doc) = Safeguards(q.doc)
        <=> [q.doc EXCEPT !.policies = <<>>] = [r.doc EXCEPT !.policies = <<>>]
  BY <1>1, SameSafeguards
<1> HIDE DEF command
<1> QED BY <1>2, <1>4, <1>5, Zenon DEF rule

\* The verdict knows the signals by six questions.
LEMMA SameVerdict ==
  ASSUME NEW r, NEW s, NEW t,
         SignalsValid(s) <=> SignalsValid(t),
         EvidenceBound(r.anomaly, s, r.target) <=> EvidenceBound(r.anomaly, t, r.target),
         s = <<>> <=> t = <<>>,
         NormalSignals(s) = NormalSignals(t)
  PROVE  /\ Verdict(r, t).id = Verdict(r, s).id
         /\ /\ Fresh(r.doc, r.anomaly, s, r.now) <=> Fresh(r.doc, r.anomaly, t, r.now)
            /\ Corroborated(RuleOf(r.doc, r.policy), s)
                 <=> Corroborated(RuleOf(r.doc, r.policy), t)
            => Verdict(r, t).outcome = Verdict(r, s).outcome
<1> DEFINE rule == RuleOf(r.doc, r.policy)
           refused(x) == \/ ~KnownPolicy(r.doc, r.policy) \/ ~AnomalyValid(r.anomaly)
                         \/ ~TargetValid(r.target) \/ ~SignalsValid(x)
                         \/ ~EvidenceBound(r.anomaly, x, r.target)
           rejection(x) == Rejection(r.doc, r.world, rule, r.anomaly, x, r.target, r.now)
           material(x) == Material(r.doc, rule, r.anomaly, x, r.target)
<1>1. ASSUME NEW x
      PROVE  /\ Verdict(r, x).id = IF refused(x) \/ x = <<>> THEN <<>> ELSE material(x)
             /\ Verdict(r, x).outcome = IF refused(x) THEN "rejected"
                                             ELSE IF x = <<>> THEN "anomaly_only"
                                             ELSE Outcome(rejection(x), r.anomaly)
  <2> HIDE DEF rejection, material
  <2>1. CASE refused(x)
    BY <2>1 DEF Verdict, Evaluate
  <2>2. CASE ~refused(x) /\ x = <<>>
    BY <2>2 DEF Verdict, Evaluate
  <2>3. CASE ~refused(x) /\ x # <<>>
    BY <2>3 DEF Verdict, Evaluate, rejection, material
  <2> QED BY <2>1, <2>2, <2>3
<1>2. refused(s) <=> refused(t)
  OBVIOUS
<1>3. material(s) = material(t)
  BY DEF Material
<1>4. ASSUME Fresh(r.doc, r.anomaly, s, r.now) <=> Fresh(r.doc, r.anomaly, t, r.now),
             Corroborated(rule, s) <=> Corroborated(rule, t)
      PROVE  rejection(s) = rejection(t)
  BY <1>4 DEF Rejection
<1> HIDE DEF refused, rejection, material
<1>5. Verdict(r, t).id = Verdict(r, s).id
  BY <1>1, <1>2, <1>3
<1>6. rejection(s) = rejection(t) => Verdict(r, t).outcome = Verdict(r, s).outcome
  BY <1>1, <1>2
<1> QED BY <1>4, <1>5, <1>6

\* p takes each signal of t to its place in s.
Swaps(p, s, t) ==
  /\ DOMAIN t = DOMAIN s /\ (s = <<>> <=> t = <<>>)
  /\ \A i \in DOMAIN s : p[i] \in DOMAIN s /\ p[p[i]] = i /\ t[i] = s[p[i]]

\* The same signals at other places are the same evidence.
LEMMA Permuted ==
  ASSUME NEW r, NEW s, NEW t, NEW p, Swaps(p, s, t)
  PROVE  /\ Verdict(r, t).id = Verdict(r, s).id
         /\ Verdict(r, t).outcome = Verdict(r, s).outcome
<1> DEFINE rule == RuleOf(r.doc, r.policy)
<1>0. /\ DOMAIN t = DOMAIN s /\ (s = <<>> <=> t = <<>>)
      /\ \A i \in DOMAIN s : p[i] \in DOMAIN s /\ p[p[i]] = i /\ t[i] = s[p[i]]
  BY DEF Swaps
<1>1. \A i \in DOMAIN s : p[i] \in DOMAIN s /\ s[i] = t[p[i]]
  BY <1>0
<1>2. SignalsValid(s) <=> SignalsValid(t)
  <2>1. ASSUME NEW x, NEW y, DOMAIN y = DOMAIN x, SignalsValid(x),
               \A i \in DOMAIN x : p[i] \in DOMAIN x /\ p[p[i]] = i /\ y[i] = x[p[i]]
        PROVE  SignalsValid(y)
    <3>1. ASSUME NEW i \in DOMAIN y
          PROVE  /\ y[i].type \in SUPPORTED_SIGNAL_TYPES
                 /\ y[i].severity >= Absent /\ y[i].count >= Absent
                 /\ TargetValid(y[i].target)
      <4>1. y[i] = x[p[i]] /\ p[i] \in DOMAIN x
        BY <2>1, Zenon
      <4>2. /\ x[p[i]].type \in SUPPORTED_SIGNAL_TYPES
            /\ x[p[i]].severity >= Absent /\ x[p[i]].count >= Absent
            /\ TargetValid(x[p[i]].target)
        BY <2>1, <4>1, Zenon DEF SignalsValid
      <4> QED BY <4>1, <4>2, Zenon
    <3>2. ASSUME NEW i \in DOMAIN y, NEW j \in DOMAIN y, y[i].reference = y[j].reference
          PROVE  i = j
      <4>1. /\ y[i] = x[p[i]] /\ p[i] \in DOMAIN x /\ p[p[i]] = i
            /\ y[j] = x[p[j]] /\ p[j] \in DOMAIN x /\ p[p[j]] = j
        BY <2>1, Zenon
      <4>2. p[i] = p[j]
        BY <2>1, <3>2, <4>1 DEF SignalsValid
      <4> QED BY <4>1, <4>2
    <3> QED BY <3>1, <3>2 DEF SignalsValid
  <2>2. \A i \in DOMAIN t : p[i] \in DOMAIN t /\ p[p[i]] = i /\ s[i] = t[p[i]]
    BY <1>0, <1>1
  <2>3. SignalsValid(s) => SignalsValid(t)
    BY <1>0, <2>1
  <2>4. SignalsValid(t) => SignalsValid(s)
    BY <1>0, <2>1, <2>2
  <2> QED BY <2>3, <2>4
<1>3. EvidenceBound(r.anomaly, s, r.target) <=> EvidenceBound(r.anomaly, t, r.target)
  <2> DEFINE B(x) == /\ NormalTarget(x.target) = NormalTarget(r.target)
                     /\ x.reference # r.anomaly.event_id
  <2>1. ASSUME NEW x
        PROVE  EvidenceBound(r.anomaly, x, r.target)
               <=> NormalTarget(r.anomaly.target) = NormalTarget(r.target) /\ \A i \in DOMAIN x : B(x[i])
    BY DEF EvidenceBound
  <2> HIDE DEF B
  <2>2. (\A i \in DOMAIN s : B(s[i])) <=> (\A i \in DOMAIN t : B(t[i]))
    BY <1>0, <1>1
  <2> QED BY <2>1, <2>2, Zenon
<1>4. NormalSignals(s) = NormalSignals(t)
  <2> DEFINE N(x) == [x EXCEPT !.target = NormalTarget(@)]
  <2> HIDE DEF N
  <2>1. {N(s[i]) : i \in DOMAIN s} = {N(t[i]) : i \in DOMAIN t}
    BY <1>0, <1>1
  <2> QED BY <2>1 DEF N, NormalSignals
<1>5. Fresh(r.doc, r.anomaly, s, r.now) <=> Fresh(r.doc, r.anomaly, t, r.now)
  <2>1. {s[i].observed_at : i \in DOMAIN s} = {t[i].observed_at : i \in DOMAIN t}
    BY <1>0, <1>1
  <2> QED BY <2>1, Zenon DEF Fresh
<1>6. Corroborated(rule, s) <=> Corroborated(rule, t)
  BY <1>0, <1>1 DEF Corroborated
<1> HIDE DEF rule
<1> QED BY <1>0, <1>2, <1>3, <1>4, <1>5, <1>6, SameVerdict DEF rule

\* Reading the list from its end.
LEMMA ReversedVerdict ==
  ASSUME NEW S, NEW s \in Seq(S), NEW r
  PROVE  /\ Verdict(r, Reverse(s)).id = Verdict(r, s).id
         /\ Verdict(r, Reverse(s)).outcome = Verdict(r, s).outcome
<1> DEFINE t == Reverse(s)
           p == [i \in DOMAIN s |-> Len(s) - i + 1]
<1>1. Len(s) \in Nat /\ DOMAIN s = 1..Len(s)
  OBVIOUS
<1>2. t = [i \in 1..Len(s) |-> s[(Len(s) - i) + 1]]
  BY DEF Reverse
<1>3. ASSUME NEW i \in DOMAIN s
      PROVE  p[i] \in DOMAIN s /\ p[p[i]] = i /\ t[i] = s[p[i]]
  BY <1>1, <1>2
<1>4. DOMAIN t = DOMAIN s
  BY <1>1, <1>2
<1>5. s = <<>> <=> t = <<>>
  <2>1. t \in Seq(S)
    BY <1>1, <1>2
  <2>2. Len(t) = Len(s)
    BY <1>1, <1>2, <2>1
  <2> QED BY <2>1, <2>2
<1> HIDE DEF t, p
<1>6. /\ Verdict(r, t).id = Verdict(r, s).id
      /\ Verdict(r, t).outcome = Verdict(r, s).outcome
  <2>1. Swaps(p, s, t)
    BY <1>3, <1>4, <1>5 DEF Swaps
  <2> QED BY <2>1, Permuted
<1> QED BY <1>6 DEF t

\* Spelling a target in another way.
LEMMA RespelledVerdict ==
  ASSUME NEW S, NEW s \in Seq(S), NEW r, \A i \in DOMAIN s : IsSignal(s[i])
  PROVE  Verdict(r, Respelled(s)).id = Verdict(r, s).id
<1> DEFINE t == Respelled(s)
           N(x) == [x EXCEPT !.target = NormalTarget(@)]
<1>1. DOMAIN t = DOMAIN s /\ \A i \in DOMAIN s : t[i] = [s[i] EXCEPT !.target.spelling = "other"]
  BY DEF Respelled
<1>2. ASSUME NEW x, NEW y, IsSignal(x), y = [x EXCEPT !.target.spelling = "other"]
      PROVE  /\ y.type = x.type /\ y.reference = x.reference /\ y.severity = x.severity /\ y.count = x.count
             /\ y.target.type = x.target.type /\ y.target.value = x.target.value
             /\ N(y) = N(x)
  BY <1>2 DEF IsSignal, NormalTarget
<1> HIDE DEF N
<1>3. \A i \in DOMAIN s : /\ t[i].type = s[i].type /\ t[i].reference = s[i].reference
                          /\ t[i].severity = s[i].severity /\ t[i].count = s[i].count
                          /\ t[i].target.type = s[i].target.type /\ t[i].target.value = s[i].target.value
                          /\ N(t[i]) = N(s[i])
  BY <1>1, <1>2
<1>4. s = <<>> <=> t = <<>>
  <2>1. t = [i \in 1..Len(s) |-> [s[i] EXCEPT !.target.spelling = "other"]]
    BY DEF Respelled
  <2>2. s = <<>> <=> DOMAIN s = {}
    OBVIOUS
  <2>3. t = <<>> <=> DOMAIN t = {}
    BY <2>1
  <2> QED BY <1>1, <2>2, <2>3
<1> HIDE DEF t
<1>5. \A i \in DOMAIN s : /\ TargetValid(t[i].target) <=> TargetValid(s[i].target)
                          /\ NormalTarget(t[i].target) = NormalTarget(s[i].target)
  BY <1>3 DEF TargetValid, NormalTarget
<1>6. SignalsValid(s) <=> SignalsValid(t)
  BY <1>1, <1>3, <1>5, Zenon DEF SignalsValid
<1>7. EvidenceBound(r.anomaly, s, r.target) <=> EvidenceBound(r.anomaly, t, r.target)
  BY <1>1, <1>3, <1>5, Zenon DEF EvidenceBound
<1>8. NormalSignals(s) = NormalSignals(t)
  <2>1. {N(s[i]) : i \in DOMAIN s} = {N(t[i]) : i \in DOMAIN t}
    BY <1>1, <1>3
  <2> QED BY <2>1 DEF N, NormalSignals
<1>9. Verdict(r, t).id = Verdict(r, s).id
  BY <1>4, <1>6, <1>7, <1>8, SameVerdict
<1> QED BY <1>9 DEF t

\* For every catalog, anomaly, list of signals and target: a command is justified
\* by its evidence, an orchestrator honours it exactly while it is valid and
\* under the same rule and safeguards, and its identity does not depend on the
\* order of the signals nor on how their targets are spelled.
THEOREM CommandsFaithful == AlgorithmsSpec => []CommandFaithful
<1>0. RequestInputs
  BY InputAssumption
<1>1. Inputs => CommandIsJustified
  <2>1. SUFFICES ASSUME input.of = "request", input.value \in Requests,
                        Verdict(input.value, input.value.signals).outcome = "response_requested"
                 PROVE  CommandIsJustified
    BY DEF Inputs, CommandIsJustified, Given
  <2> QED BY <1>0, <2>1, Justified, Zenon DEF CommandIsJustified, Given
<1>2. Inputs => CommandHonoured
  <2>1. SUFFICES ASSUME input.of = "request", input.value \in Requests,
                        Verdict(input.value, input.value.signals).outcome = "response_requested"
                 PROVE  CommandHonoured
    BY DEF Inputs, CommandHonoured, Given
  <2> DEFINE r == input.value
             Delays == {-61, -60, 0, r.doc.command_valid_for - 1, r.doc.command_valid_for}
             Honours(doc, delay) ==
               CommandAccepted(doc, {"key"}, Verdict(r, r.signals).command, r.now + delay)
               <=> /\ [doc EXCEPT !.policies = <<>>] = [r.doc EXCEPT !.policies = <<>>]
                   /\ RuleOf(r.doc, r.policy) \in ToSet(doc.policies)
                   /\ delay \in -60 .. r.doc.command_valid_for - 1
  <2>2. ASSUME NEW q \in Requests, NEW delay \in Int
        PROVE  Honours(q.doc, delay)
    <3> HIDE DEF r
    <3>1. r \in Requests /\ Verdict(r, r.signals).outcome = "response_requested"
      BY <2>1 DEF r
    <3> QED BY <1>0, <3>1, Honoured
  <2>3. ASSUME NEW delay \in Delays
        PROVE  delay \in Int
    <3>1. CatalogLoads(input.value.doc)
      BY <1>0, <2>1, Zenon DEF RequestInputs
    <3>2. input.value.doc.command_valid_for \in Int
      BY <3>1, Loaded
    <3> QED BY <3>2
  <2>4. \A doc \in {q.doc : q \in Requests}, delay \in Delays : Honours(doc, delay)
    <3> HIDE DEF Honours, Delays
    <3> QED BY <2>2, <2>3
  <2> QED BY <2>4, Zenon DEF CommandHonoured, Given
<1>3. Inputs => KeyIgnoresOrder
  <2>1. SUFFICES ASSUME input.of = "request", input.value \in Requests
                 PROVE  KeyIgnoresOrder
    BY DEF Inputs, KeyIgnoresOrder, Given
  <2> DEFINE r == input.value
             S == {r.signals[i] : i \in DOMAIN r.signals}
  <2>2. r.signals \in Seq(S) /\ \A i \in DOMAIN r.signals : IsSignal(r.signals[i])
    BY <1>0, <2>1, Zenon DEF RequestInputs
  <2> HIDE DEF r, S
  <2>3. /\ Verdict(r, Reverse(r.signals)).id = Verdict(r, r.signals).id
        /\ Verdict(r, Reverse(r.signals)).outcome = Verdict(r, r.signals).outcome
    BY <2>2, ReversedVerdict
  <2>4. Verdict(r, Respelled(r.signals)).id = Verdict(r, r.signals).id
    BY <2>2, RespelledVerdict
  <2> QED BY <2>3, <2>4, Zenon DEF KeyIgnoresOrder, Given, r
<1> QED BY <1>1, <1>2, <1>3, AlwaysInputs, PTL DEF CommandFaithful
-----------------------------------------------------------------------------
(* Compliance.                                                             *)

\* A test of pytest passes only in all its phases and with its observations.
LEMMA PassedPhases ==
  ASSUME NEW t, ResultOf(t) = "PASS"
  PROVE  /\ t.recorded /\ t.setup = "passed"
         /\ t.call = "passed" /\ t.teardown = "passed"
<1> DEFINE phases == Phases(t)
           recorded == t.recorded /\ t.setup = "passed"
           result == [i \in DOMAIN phases |-> classify_phase_result(phases[i][1], phases[i][2], recorded)]
           written == {i \in DOMAIN result : result[i] # "none"}
<1>1. written # {} /\ result[Max(written)] = "PASS"
  BY DEF ResultOf
<1>2. ASSUME NEW phase \in {"setup", "teardown"}, NEW outcome
      PROVE  classify_phase_result(phase, outcome, recorded)
               = IF outcome = "passed" THEN "none" ELSE "ERROR"
  BY DEF classify_phase_result
<1>3. classify_phase_result("call", t.call, recorded) = "PASS" => t.call = "passed" /\ recorded
  BY DEF classify_phase_result, classify_result
<1>4. /\ phases[1] = <<"setup", t.setup>>
      /\ t.setup = "passed" => /\ DOMAIN phases = 1..3
                               /\ phases[2] = <<"call", t.call>> /\ phases[3] = <<"teardown", t.teardown>>
      /\ t.setup # "passed" => /\ DOMAIN phases = 1..2 /\ phases[2] = <<"teardown", t.teardown>>
  BY DEF Phases
<1> HIDE DEF phases, recorded
<1>5. /\ result[1] \in {"none", "ERROR"} /\ DOMAIN result = DOMAIN phases
      /\ t.setup = "passed" => /\ result[2] = classify_phase_result("call", t.call, recorded)
                               /\ result[3] = IF t.teardown = "passed" THEN "none" ELSE "ERROR"
      /\ t.setup # "passed" => result[2] \in {"none", "ERROR"}
  <2>1. 1 \in DOMAIN phases /\ 2 \in DOMAIN phases /\ (t.setup = "passed" => 3 \in DOMAIN phases)
    BY <1>4
  <2>2. \A i \in DOMAIN phases : result[i] = classify_phase_result(phases[i][1], phases[i][2], recorded)
    OBVIOUS
  <2> HIDE DEF result
  <2>3. result[1] = classify_phase_result("setup", t.setup, recorded)
    BY <1>4, <2>1, <2>2
  <2>4. t.setup = "passed" => /\ result[2] = classify_phase_result("call", t.call, recorded)
                              /\ result[3] = classify_phase_result("teardown", t.teardown, recorded)
    BY <1>4, <2>1, <2>2
  <2>5. t.setup # "passed" => result[2] = classify_phase_result("teardown", t.teardown, recorded)
    BY <1>4, <2>1, <2>2
  <2>6. DOMAIN result = DOMAIN phases
    BY DEF result
  <2> QED BY <1>2, <2>3, <2>4, <2>5, <2>6
<1> HIDE DEF result
<1>6. written \in SUBSET Nat /\ IsFiniteSet(written)
  <2>1. written \subseteq 1..3
    BY <1>4, <1>5
  <2>2. IsFiniteSet(1..3)
    <3> DEFINE first == 1
               last == 3
    <3>1. first \in Int /\ last \in Int
      OBVIOUS
    <3> HIDE DEF first, last
    <3>2. IsFiniteSet(first..last)
      BY <3>1, FS_Interval
    <3> QED BY <3>2 DEF first, last
  <2> QED BY <2>1, <2>2, FS_Subset
<1> HIDE DEF written
<1>7. Max(written) \in written /\ \A i \in written : i <= Max(written)
  BY <1>1, <1>6, MaxOfNats
<1>8. PICK m \in DOMAIN phases : result[m] = "PASS" /\ \A i \in DOMAIN phases : result[i] # "none" => i <= m
  BY <1>1, <1>5, <1>7 DEF written
<1>9. t.setup = "passed"
  BY <1>4, <1>5, <1>8
<1>10. m = 2
  BY <1>4, <1>5, <1>8, <1>9
<1>11. result[3] = "none"
  BY <1>4, <1>8, <1>9, <1>10
<1> QED BY <1>3, <1>5, <1>8, <1>9, <1>10, <1>11 DEF recorded

\* The evidence that a report loads, and the test that left each artifact.
Evidence(a) == load_evidence(Artifacts(a))
LeftBy(a, t) == ArtifactOf(a.catalog, t, a.tested, a.environment, RunName)

LEMMA EvidenceIs ==
  ASSUME NEW a
  PROVE  \A k \in DOMAIN Evidence(a) : k \in DOMAIN a.tests /\ Evidence(a)[k] \in LeftBy(a, a.tests[k])
<1> DEFINE files == Artifacts(a)
           D == {k \in DOMAIN a.tests : LeftBy(a, a.tests[k]) # {}}
<1>1. files = [k \in D |-> CHOOSE f \in LeftBy(a, a.tests[k]) : TRUE]
  BY DEF Artifacts, LeftBy
<1>2. \A k \in DOMAIN files : k \in DOMAIN a.tests /\ files[k] \in LeftBy(a, a.tests[k])
  BY <1>1
<1> HIDE DEF files
<1>3. \A k \in DOMAIN load_evidence(files) : k \in DOMAIN files /\ load_evidence(files)[k] = files[k]
  BY DEF load_evidence
<1> QED BY <1>2, <1>3 DEF Evidence, files

\* Where an artifact comes from and what it says.
LEMMA ArtifactSays ==
  ASSUME NEW a, NEW t, NEW x \in LeftBy(a, t)
  PROVE  /\ x.test_id = t.node /\ x.provenance = current_provenance(a.tested)
         /\ x.environment = IF t.runner = "audit" THEN "path-b" ELSE a.environment
         /\ x.result = "PASS" =>
              /\ x.control_id = t.claims /\ t.call = "passed"
              /\ t.runner = "pytest" => t.recorded /\ t.setup = "passed" /\ t.teardown = "passed"
<1>1. CASE t.runner = "pytest"
  <2> DEFINE control(c) == IF t.recorded /\ t.setup = "passed" THEN t.claims ELSE c
  <2>1. PICK c : x = Payload(control(c), t.node, ResultOf(t), a.tested, a.environment, RunName)
    BY <1>1 DEF LeftBy, ArtifactOf, TestArtifact
  <2> HIDE DEF control
  <2>2. /\ x.test_id = t.node /\ x.provenance = current_provenance(a.tested)
        /\ x.environment = a.environment /\ x.result = ResultOf(t) /\ x.control_id = control(c)
    BY <2>1 DEF Payload
  <2>3. x.result = "PASS" => /\ t.recorded /\ t.setup = "passed"
                             /\ t.call = "passed" /\ t.teardown = "passed"
    BY <2>2, PassedPhases
  <2>4. t.recorded /\ t.setup = "passed" => control(c) = t.claims
    BY DEF control
  <2>5. t.runner # "audit"
    BY <1>1
  <2> QED BY <2>2, <2>3, <2>4, <2>5, Zenon
<1>2. CASE t.runner # "pytest"
  <2> DEFINE result == classify_result(t.call = "passed", t.call = "failed", TRUE)
  <2>1. x = Payload(t.claims, t.node, result, a.tested,
                         IF t.runner = "audit" THEN "path-b" ELSE a.environment, RunName)
    BY <1>2 DEF LeftBy, ArtifactOf, StepArtifact
  <2>2. result = "PASS" => t.call = "passed"
    BY DEF classify_result
  <2> HIDE DEF result
  <2>3. /\ x.test_id = t.node /\ x.provenance = current_provenance(a.tested)
        /\ x.environment = IF t.runner = "audit" THEN "path-b" ELSE a.environment
        /\ x.result = result /\ x.control_id = t.claims
    BY <2>1 DEF Payload
  <2> QED BY <1>2, <2>2, <2>3, Zenon
<1> QED BY <1>1, <1>2

\* What a report that passes has not found.
LEMMA PassesMeans ==
  ASSUME NEW a, Passes(a)
  PROVE  /\ \A i \in DOMAIN a.catalog : applies_to_profile(a.catalog[i], a.profile)
              => status_for(a.catalog[i], Evidence(a), a.profile) = "PASS"
         /\ ~ProvenanceErrors(Evidence(a), RunName, a.reported, TRUE, a.profile)
<1> DEFINE yes == TRUE
<1> HIDE DEF yes
<1>1. Report(a.catalog, Artifacts(a), RunName, a.reported, yes, a.profile) = 0
  BY DEF Passes, yes
<1>2. /\ \A i \in DOMAIN a.catalog : applies_to_profile(a.catalog[i], a.profile)
           => status_for(a.catalog[i], Evidence(a), a.profile) = "PASS"
      /\ ~ProvenanceErrors(Evidence(a), RunName, a.reported, yes, a.profile)
  <2> DEFINE nonpass == \/ \E i \in DOMAIN a.catalog :
                             /\ applies_to_profile(a.catalog[i], a.profile)
                             /\ status_for(a.catalog[i], Evidence(a), a.profile) # "PASS"
                        \/ ArtifactErrors(Artifacts(a))
                        \/ ProvenanceErrors(Evidence(a), RunName, a.reported, yes, a.profile)
  <2>1. (IF yes /\ nonpass THEN 1 ELSE 0) = 0
    BY <1>1, Zenon DEF Report, Evidence
  <2>2. yes
    BY DEF yes
  <2>3. ~nonpass
    <3> HIDE DEF nonpass
    <3> QED BY <2>1, <2>2
  <2> QED BY <2>3, Zenon
<1> QED BY <1>2 DEF yes

\* A control that is reported to pass was tested by its verifier, which passed.
LEMMA PassedControl ==
  ASSUME NEW a, a.tests \in Seq({a.tests[k] : k \in DOMAIN a.tests}), NEW control,
         status_for(control, Evidence(a), a.profile) = "PASS"
  PROVE  \E k \in DOMAIN Evidence(a) :
           Evidence(a)[k].result = "PASS" /\ Matches(Evidence(a)[k], control, a.profile)
<1> DEFINE evidence == Evidence(a)
           matches == {k \in DOMAIN evidence : Matches(evidence[k], control, a.profile)}
<1>1. matches # {} /\ evidence[Max(matches)].result = "PASS"
  BY DEF status_for
<1>2. matches \in SUBSET Nat /\ IsFiniteSet(matches)
  <2>1. matches \subseteq DOMAIN a.tests
    BY EvidenceIs
  <2>2. Len(a.tests) \in Nat /\ DOMAIN a.tests = 1..Len(a.tests)
    OBVIOUS
  <2> HIDE DEF matches
  <2>3. matches \in SUBSET Nat /\ \A k \in matches : k <= Len(a.tests)
    BY <2>1, <2>2
  <2> QED BY <2>2, <2>3, FS_BoundedSetOfNaturals
<1>3. Max(matches) \in matches
  <2> HIDE DEF matches
  <2> QED BY <1>1, <1>2, MaxOfNats
<1> QED BY <1>1, <1>3

\* All evidence of a report that passes is about what is reported on, which is
\* committed, and was gathered in the environment of the profile.
LEMMA ProvenanceMeans ==
  ASSUME NEW a, Passes(a), NEW k \in DOMAIN Evidence(a)
  PROVE  /\ Evidence(a)[k].provenance = current_provenance(a.reported)
         /\ ~Evidence(a)[k].provenance.git_dirty
         /\ a.profile = "path-b" => Evidence(a)[k].environment = "path-b"
         /\ a.profile = "path-a" => Evidence(a)[k].environment # "path-b"
<1> DEFINE evidence == Evidence(a)
           baseline == evidence[Min(DOMAIN evidence)]
           yes == TRUE
<1> HIDE DEF yes
<1>1. ~ProvenanceErrors(evidence, RunName, a.reported, yes, a.profile) /\ yes
  BY PassesMeans DEF yes
<1> HIDE DEF evidence
<1>2. DOMAIN evidence # {}
  BY DEF evidence
<1>3. /\ \A i \in DOMAIN evidence : /\ evidence[i].environment = baseline.environment
                                    /\ evidence[i].provenance = baseline.provenance
                                    /\ evidence[i].provenance = current_provenance(a.reported)
      /\ a.profile = "path-b" => baseline.environment = "path-b"
      /\ a.profile = "path-a" => baseline.environment \in {"local-containerlab", "path-a"}
      /\ ~baseline.provenance.git_dirty
  BY <1>1, <1>2, Zenon DEF ProvenanceErrors
<1> HIDE DEF baseline
<1>4. /\ evidence[k].environment = baseline.environment /\ evidence[k].provenance = baseline.provenance
      /\ evidence[k].provenance = current_provenance(a.reported)
  BY <1>3 DEF evidence
<1>5. ~evidence[k].provenance.git_dirty
  BY <1>3, <1>4, Zenon
<1>6. /\ a.profile = "path-b" => evidence[k].environment = "path-b"
      /\ a.profile = "path-a" => evidence[k].environment # "path-b"
  BY <1>3, <1>4
<1> QED BY <1>4, <1>5, <1>6 DEF evidence

\* Two worlds of the same provenance, and committed, are the same.
LEMMA SameWorld ==
  ASSUME NEW w, NEW v, current_provenance(w) = current_provenance(v),
         ~current_provenance(w).git_dirty
  PROVE  w.work = v.work /\ w.settings = v.settings /\ ~w.untracked /\ ~v.untracked
<1>1. /\ current_provenance(w).git_dirty = git_dirty(w)
      /\ current_provenance(w).source_tree_sha256 = source_tree_hash(w)
      /\ current_provenance(w).deployment_config_sha256 = w.settings
      /\ current_provenance(v).git_dirty = git_dirty(v)
      /\ current_provenance(v).source_tree_sha256 = source_tree_hash(v)
      /\ current_provenance(v).deployment_config_sha256 = v.settings
  BY DEF current_provenance
<1>2. /\ ~git_dirty(w) /\ ~git_dirty(v) /\ w.settings = v.settings
      /\ source_tree_hash(w) = source_tree_hash(v)
  BY <1>1, Zenon
<1>3. w.git /\ v.git /\ ~w.untracked /\ ~v.untracked
  BY <1>2, Zenon DEF git_dirty
<1>4. <<w.work>> = <<v.work>>
  BY <1>2, <1>3, Zenon DEF source_tree_hash
<1> QED BY <1>2, <1>3, <1>4

\* For every catalog, every list of tests and every state of the checkout: a
\* strict report that passes shows that the verifier of every control that
\* applies passed, in the environment of the profile, on the sources and
\* settings that are reported on.
THEOREM StrictReportsHold == AlgorithmsSpec => []StrictReportHolds
<1>0. AuditInputs
  BY InputAssumption
<1>1. ASSUME NEW a \in Audits
      PROVE  /\ a.tests \in Seq({a.tests[k] : k \in DOMAIN a.tests}) /\ a.profile \in {"path-a", "path-b"}
             /\ \A k \in DOMAIN a.tests, i \in DOMAIN a.catalog :
                  /\ a.tests[k].node.file = a.catalog[i].verified_by_path_b.file
                  /\ a.tests[k].node.function = a.catalog[i].verified_by_path_b.function
                  => a.tests[k].runner = "audit"
  BY <1>0, Zenon DEF AuditInputs, PROFILES
<1>2. Inputs => StrictReportIsCurrent
  <2>1. SUFFICES ASSUME NEW a \in Audits, Passes(a), Proven(a)
                 PROVE  /\ a.tested.work = a.reported.work /\ a.tested.settings = a.reported.settings
                        /\ ~a.tested.untracked /\ ~a.reported.untracked
    BY Zenon DEF Inputs, StrictReportIsCurrent, Given
  <2>2. PICK i \in DOMAIN a.catalog : applies_to_profile(a.catalog[i], a.profile)
    BY <2>1 DEF Proven
  <2>3. status_for(a.catalog[i], Evidence(a), a.profile) = "PASS"
    BY <2>1, <2>2, PassesMeans
  <2>4. PICK k \in DOMAIN Evidence(a) : Evidence(a)[k].result = "PASS"
    BY <1>1, <2>1, <2>3, PassedControl
  <2>5. Evidence(a)[k].provenance = current_provenance(a.tested)
    BY EvidenceIs, ArtifactSays
  <2>6. /\ current_provenance(a.tested) = current_provenance(a.reported)
        /\ ~current_provenance(a.tested).git_dirty
    BY <2>1, <2>5, ProvenanceMeans, Zenon
  <2> QED BY <2>6, SameWorld
<1>3. Inputs => StrictReportIsProven
  <2> DEFINE Tested(a, i, k) ==
               /\ a.tests[k].node.file = verifier_for(a.catalog[i], a.profile).file
               /\ a.tests[k].node.function = verifier_for(a.catalog[i], a.profile).function
               /\ a.tests[k].claims = a.catalog[i].id /\ a.tests[k].call = "passed"
               /\ a.tests[k].runner = "pytest" =>
                    a.tests[k].recorded /\ a.tests[k].setup = "passed" /\ a.tests[k].teardown = "passed"
               /\ (a.tests[k].runner = "audit") <=> (a.profile = "path-b")
  <2>1. SUFFICES ASSUME NEW a \in Audits, Passes(a), NEW i \in DOMAIN a.catalog,
                        applies_to_profile(a.catalog[i], a.profile)
                 PROVE  \E k \in DOMAIN a.tests : Tested(a, i, k)
    BY Zenon DEF Inputs, StrictReportIsProven, Given
  <2>2. status_for(a.catalog[i], Evidence(a), a.profile) = "PASS"
    BY <2>1, PassesMeans
  <2>3. PICK k \in DOMAIN Evidence(a) :
          Evidence(a)[k].result = "PASS" /\ Matches(Evidence(a)[k], a.catalog[i], a.profile)
    BY <1>1, <2>2, PassedControl
  <2> DEFINE t == a.tests[k]
             x == Evidence(a)[k]
  <2>4. k \in DOMAIN a.tests /\ x \in LeftBy(a, t)
    BY EvidenceIs
  <2> HIDE DEF t, x
  <2>5. /\ x.test_id = t.node
        /\ x.environment = IF t.runner = "audit" THEN "path-b" ELSE a.environment
        /\ x.control_id = t.claims /\ t.call = "passed"
        /\ t.runner = "pytest" => t.recorded /\ t.setup = "passed" /\ t.teardown = "passed"
    BY <2>3, <2>4, ArtifactSays DEF x
  <2>6. /\ x.control_id = a.catalog[i].id
        /\ t.node.file = verifier_for(a.catalog[i], a.profile).file
        /\ t.node.function = verifier_for(a.catalog[i], a.profile).function
    BY <2>3, <2>5, Zenon DEF Matches, x
  <2>7. /\ a.profile = "path-a" => x.environment # "path-b"
        /\ a.profile \in {"path-a", "path-b"}
    BY <1>1, <2>1, ProvenanceMeans DEF x
  <2>8. ASSUME a.profile = "path-b" PROVE t.runner = "audit"
    <3>1. verifier_for(a.catalog[i], a.profile) = a.catalog[i].verified_by_path_b
      BY <2>8 DEF verifier_for
    <3> QED BY <1>1, <2>4, <2>6, <3>1 DEF t
  <2>9. (t.runner = "audit") <=> (a.profile = "path-b")
    BY <2>5, <2>7, <2>8
  <2> QED BY <2>4, <2>5, <2>6, <2>9, Zenon DEF t
<1> QED BY <1>2, <1>3, AlwaysInputs, PTL DEF StrictReportHolds
-----------------------------------------------------------------------------
(* Histories.                                                              *)

\* A set of which no two members share a mark of 1..n fits on a page of n.
LEMMA AllOnThePage ==
  ASSUME NEW n \in Nat, NEW S, NEW mark, \A i \in S : mark[i] \in 1..n,
         \A i, j \in S : mark[i] = mark[j] => i = j
  PROVE  FirstOf(n, S) = S
<1>1. IsFiniteSet(1..n) /\ Cardinality(1..n) = n
  BY FS_Interval
<1>2. ASSUME NEW T, T \subseteq S
      PROVE  Cardinality(T) <= n
  <2> DEFINE f == [i \in T |-> mark[i]]
  <2>1. f \in Injection(T, 1..n)
    BY <1>2 DEF Injection, IsInjective
  <2> HIDE DEF f
  <2> QED BY <1>1, <2>1, FS_Injection
<1>3. ASSUME NEW i \in S
      PROVE  Cardinality({j \in S : j <= i}) <= n
  <2> DEFINE T == {j \in S : j <= i}
  <2>1. T \subseteq S
    OBVIOUS
  <2> HIDE DEF T
  <2>2. Cardinality(T) <= n
    BY <1>2, <2>1
  <2> QED BY <2>2 DEF T
<1> QED BY <1>3, Zenon DEF FirstOf

\* No two vectors of one kind and entity end at the same time.
OneVector(vectors) ==
  \A i, j \in DOMAIN vectors :
    (/\ vectors[i].entity = vectors[j].entity /\ vectors[i].schema = vectors[j].schema
     /\ vectors[i].window_end = vectors[j].window_end) => i = j

\* What is fetched for a vector is the history of the vectors of its kind.
LEMMA FetchedIsHistory ==
  ASSUME NEW vectors, NEW size \in Nat, DOMAIN vectors = 1..size, OneVector(vectors), NEW vector,
         NEW length \in Nat, length >= 1, NEW own,
         DOMAIN own = {i \in DOMAIN vectors : vectors[i].schema = vector.schema},
         \A i \in DOMAIN own : own[i] = vectors[i]
  PROVE  Fetched(vector, vectors, length) = entity_history(vector, own, length)
<1> DEFINE ends == history_window_ends(vector.window_end, length)
           found == {i \in DOMAIN vectors : /\ vectors[i].schema = vector.schema
                                           /\ vectors[i].entity = vector.entity
                                           /\ vectors[i].window_end \in ToSet(ends)}
           shown(t) == {i \in FirstOf(Len(ends), found) : vectors[i].window_end = t}
           kept(t) == {i \in DOMAIN own : own[i].entity = vector.entity /\ own[i].window_end = t}
<1>1. DOMAIN ends = 1..(length - 1) /\ Len(ends) = length - 1
  BY DEF history_window_ends
<1> HIDE DEF ends
<1>2. FirstOf(Len(ends), found) = found
  <2> DEFINE mark == [i \in found |-> CHOOSE x \in DOMAIN ends : ends[x] = vectors[i].window_end]
  <2>1. ASSUME NEW i \in found
        PROVE  mark[i] \in 1..(length - 1) /\ ends[mark[i]] = vectors[i].window_end
    <3>1. \E x \in DOMAIN ends : ends[x] = vectors[i].window_end
      BY DEF ToSet
    <3>2. mark[i] \in DOMAIN ends /\ ends[mark[i]] = vectors[i].window_end
      BY <3>1
    <3> QED BY <1>1, <3>2
  <2>2. ASSUME NEW i \in found, NEW j \in found, mark[i] = mark[j]
        PROVE  i = j
    <3>1. ends[mark[i]] = vectors[i].window_end /\ ends[mark[j]] = vectors[j].window_end
      BY <2>1
    <3> HIDE DEF mark
    <3>2. vectors[i].window_end = vectors[j].window_end
      BY <2>2, <3>1
    <3> QED BY <3>2 DEF OneVector
  <2> HIDE DEF mark, found
  <2>3. length - 1 \in Nat
    OBVIOUS
  <2> QED BY <1>1, <2>1, <2>2, <2>3, AllOnThePage
<1>3. ASSUME NEW i \in DOMAIN ends
      PROVE  shown(ends[i]) = kept(ends[i])
  BY <1>2 DEF ToSet
<1> DEFINE Newest(S) == IF S = {} THEN {} ELSE {Max(S)}
<1>4. Fetched(vector, vectors, length)
        = [i \in DOMAIN ends |-> {vectors[k].features : k \in Newest(shown(ends[i]))}]
  BY Zenon DEF Fetched, ends
<1>5. entity_history(vector, own, length)
        = [i \in DOMAIN ends |-> {own[k].features : k \in Newest(kept(ends[i]))}]
  BY Zenon DEF entity_history, ends
<1>6. ASSUME NEW t, kept(t) # {}
      PROVE  Max(kept(t)) \in DOMAIN own
  <2>1. kept(t) \in SUBSET Nat /\ \A i \in kept(t) : i <= size
    OBVIOUS
  <2>2. kept(t) \subseteq DOMAIN own
    OBVIOUS
  <2> DEFINE K == kept(t)
  <2>3. K \in SUBSET Nat /\ (\A i \in K : i <= size) /\ K # {} /\ K \subseteq DOMAIN own
    BY <1>6, <2>1, <2>2
  <2> HIDE DEF K
  <2>4. IsFiniteSet(K)
    BY <2>3, FS_BoundedSetOfNaturals
  <2>5. Max(K) \in K
    BY <2>3, <2>4, MaxOfNats
  <2> QED BY <2>3, <2>5 DEF K
<1>7. ASSUME NEW i \in DOMAIN ends
      PROVE  {vectors[k].features : k \in Newest(shown(ends[i]))} = {own[k].features : k \in Newest(kept(ends[i]))}
  <2> DEFINE K == kept(ends[i])
  <2>1. shown(ends[i]) = K /\ (K # {} => Max(K) \in DOMAIN own)
    BY <1>3, <1>6
  <2> HIDE DEF K, shown
  <2>2. {vectors[k].features : k \in Newest(K)} = {own[k].features : k \in Newest(K)}
    BY <2>1
  <2> QED BY <2>1, <2>2 DEF K
<1> HIDE DEF shown, kept, Newest
<1> QED BY <1>4, <1>5, <1>7

\* For every list of vectors in which an entity has one vector for a window:
\* what the worker fetches makes the matrix that the trainer fitted.
THEOREM HistoriesServed == AlgorithmsSpec => []HistoryServedAsTrained
<1>0. HistoryInputs
  BY InputAssumption
<1>1. Inputs => HistoryServedAsTrained
  <2> DEFINE Own(vectors, schema) ==
               Restrict(vectors, {i \in DOMAIN vectors : vectors[i].schema = schema})
             Same(vectors, schema, length) ==
               \A fitted \in training_sequences(Own(vectors, schema), schema, length),
                  i \in DOMAIN Own(vectors, schema) :
                 sequence_matrix(schema, Fetched(Own(vectors, schema)[i], vectors, length),
                                      Own(vectors, schema)[i].features) = fitted[i]
  <2>1. SUFFICES ASSUME NEW vectors \in Histories, OneVector(vectors),
                        NEW schema \in Schemas, NEW length \in 2 .. 3
                 PROVE  Same(vectors, schema, length)
    BY Zenon DEF Inputs, HistoryServedAsTrained, Given, OneVector
  <2> DEFINE own == Own(vectors, schema)
  <2>2. Len(vectors) \in Nat /\ DOMAIN vectors = 1..Len(vectors)
    <3>1. vectors \in Seq({vectors[i] : i \in DOMAIN vectors})
      BY <1>0, Zenon DEF HistoryInputs
    <3> QED BY <3>1
  <2>3. /\ DOMAIN own = {i \in DOMAIN vectors : vectors[i].schema = schema}
        /\ \A i \in DOMAIN own : own[i] = vectors[i] /\ own[i].schema = schema
    BY DEF Restrict
  <2> HIDE DEF Own, own
  <2>4. ASSUME NEW i \in DOMAIN own
        PROVE  Fetched(own[i], vectors, length) = entity_history(own[i], own, length)
    <3>1. own[i].schema = schema /\ length \in Nat /\ length >= 1
      BY <2>3
    <3> QED BY <2>1, <2>2, <2>3, <3>1, FetchedIsHistory
  <2>5. ASSUME NEW fitted \in training_sequences(own, schema, length), NEW i \in DOMAIN own
        PROVE  fitted[i] = sequence_matrix(schema, entity_history(own[i], own, length), own[i].features)
    <3> DEFINE M == [k \in DOMAIN own |->
                       sequence_matrix(schema, entity_history(own[k], own, length), own[k].features)]
    <3>1. training_sequences(own, schema, length) = {} \/ training_sequences(own, schema, length) = {M}
      BY Zenon DEF training_sequences
    <3>2. fitted = M
      BY <2>5, <3>1, Zenon
    <3> QED BY <3>2
  <2>6. ASSUME NEW fitted \in training_sequences(own, schema, length), NEW i \in DOMAIN own
        PROVE  sequence_matrix(schema, Fetched(own[i], vectors, length), own[i].features) = fitted[i]
    BY <2>4, <2>5, Zenon
  <2> QED BY <2>6, Zenon DEF own
<1> QED BY <1>1, AlwaysInputs, PTL
-----------------------------------------------------------------------------
(* Benchmarks.                                                             *)

\* A quotient, and when it is above another one.
Quotient(p) == p[1] \in Nat /\ p[2] \in Nat \ {0}

LEMMA Scaled ==
  ASSUME NEW x \in Int, NEW y \in Int, NEW z \in Nat \ {0}
  PROVE  x < y <=> x * z < y * z
<1> QED OBVIOUS

LEMMA RatioTransitive ==
  ASSUME NEW a \in Nat, NEW b \in Nat \ {0}, NEW c \in Nat, NEW d \in Nat \ {0},
         NEW e \in Nat, NEW f \in Nat \ {0}, a * d < c * b, c * f < e * d
  PROVE  a * f < e * b
<1>1. /\ a * d \in Int /\ c * b \in Int /\ c * f \in Int /\ e * d \in Int /\ a * f \in Int /\ e * b \in Int
  OBVIOUS
<1>2. (a * d) * f < (c * b) * f /\ (c * f) * b < (e * d) * b
  BY <1>1, Scaled
<1>3. (c * b) * f = (c * f) * b
  OBVIOUS
<1>4. (a * d) * f = (a * f) * d /\ (e * d) * b = (e * b) * d
  OBVIOUS
<1>5. (a * f) * d < (e * b) * d
  <2>1. (a * d) * f \in Int /\ (c * b) * f \in Int /\ (c * f) * b \in Int /\ (e * d) * b \in Int
    BY <1>1
  <2> QED BY <1>2, <1>3, <1>4, <2>1
<1> QED BY <1>1, <1>5, Scaled

\* Of finitely many quotients one is the highest.
LEMMA BestRatio ==
  ASSUME NEW S, IsFiniteSet(S), S # {}, NEW p, \A s \in S : Quotient(p[s])
  PROVE  \E t \in S : \A u \in S : AtLeastRatio(p[t], p[u])
<1> DEFINE R == {x \in S \X S : p[x[1]][1] * p[x[2]][2] < p[x[2]][1] * p[x[1]][2]}
<1>1. ASSUME NEW x \in S, NEW y \in S
      PROVE  /\ <<x, y>> \in R <=> p[x][1] * p[y][2] < p[y][1] * p[x][2]
             /\ p[x][1] * p[y][2] \in Int /\ p[y][1] * p[x][2] \in Int
  BY DEF Quotient
<1> HIDE DEF R
<1>2. \A x \in S : <<x, x>> \notin R
  BY <1>1
<1>3. ASSUME NEW x \in S, NEW y \in S, NEW z \in S, <<x, y>> \in R, <<y, z>> \in R
      PROVE  <<x, z>> \in R
  <2> DEFINE a == p[x][1]
             b == p[x][2]
             c == p[y][1]
             d == p[y][2]
             e == p[z][1]
             f == p[z][2]
  <2>1. a \in Nat /\ b \in Nat \ {0} /\ c \in Nat /\ d \in Nat \ {0} /\ e \in Nat /\ f \in Nat \ {0}
    BY DEF Quotient
  <2>2. a * d < c * b /\ c * f < e * d
    BY <1>1, <1>3
  <2> HIDE DEF a, b, c, d, e, f
  <2>3. a * f < e * b
    BY <2>1, <2>2, RatioTransitive
  <2> QED BY <1>1, <2>3 DEF a, b, e, f
<1>4. PICK t \in S : \A u \in S : <<t, u>> \notin R
  BY <1>2, <1>3, Maximal
<1>5. ASSUME NEW u \in S
      PROVE  AtLeastRatio(p[t], p[u])
  <2>1. ~(p[t][1] * p[u][2] < p[u][1] * p[t][2])
    BY <1>1, <1>4
  <2>2. p[t][1] * p[u][2] >= p[u][1] * p[t][2]
    <3> DEFINE l == p[t][1] * p[u][2]
               r == p[u][1] * p[t][2]
    <3>1. l \in Int /\ r \in Int /\ ~(l < r)
      BY <1>1, <2>1
    <3> HIDE DEF l, r
    <3>2. l >= r
      BY <3>1
    <3> QED BY <3>2 DEF l, r
  <2> QED BY <2>2, Zenon DEF AtLeastRatio
<1> QED BY <1>5

\* A partition and its scores.
Scored(rows, scores, n) ==
  /\ n \in Nat /\ DOMAIN rows = 1..n /\ DOMAIN scores = 1..n
  /\ \A i \in 1..n : scores[i] \in 0..4

LEMMA CountsOf ==
  ASSUME NEW n \in Nat, NEW X, X \subseteq 1..n
  PROVE  IsFiniteSet(X) /\ Cardinality(X) \in Nat /\ (X = {} => Cardinality(X) = 0)
<1>1. IsFiniteSet(1..n)
  BY FS_Interval
<1>2. IsFiniteSet(X)
  BY <1>1, FS_Subset
<1> QED BY <1>2, FS_CardinalityType, FS_EmptySet

\* F1 is a quotient, and it is that of what fires.
LEMMA F1Is ==
  ASSUME NEW rows, NEW scores, NEW n, Scored(rows, scores, n), NEW t
  PROVE  /\ Quotient(_f1(rows, scores, t)) /\ FP(rows, scores, t) \in Nat
         /\ Firing(scores, t) = {} => _f1(rows, scores, t)[1] = 0
<1> DEFINE tp == TP(rows, scores, t)
           fp == FP(rows, scores, t)
           fn == FN(rows, scores, t)
<1>1. n \in Nat /\ Firing(scores, t) \subseteq 1..n /\ Attacks(rows) \subseteq 1..n
  BY DEF Scored, Firing, Attacks
<1>2. tp \in Nat /\ (Firing(scores, t) = {} => tp = 0)
  <2> DEFINE X == Firing(scores, t) \cap Attacks(rows)
  <2>1. X \subseteq 1..n /\ (Firing(scores, t) = {} => X = {})
    BY <1>1
  <2> HIDE DEF X
  <2>2. Cardinality(X) \in Nat /\ (X = {} => Cardinality(X) = 0)
    BY <1>1, <2>1, CountsOf
  <2> QED BY <2>1, <2>2, Zenon DEF X, TP
<1>3. fp \in Nat
  <2> DEFINE X == Firing(scores, t) \ Attacks(rows)
  <2>1. X \subseteq 1..n
    BY <1>1
  <2> HIDE DEF X
  <2>2. Cardinality(X) \in Nat
    BY <1>1, <2>1, CountsOf
  <2> QED BY <2>2, Zenon DEF X, FP
<1>4. fn \in Nat
  <2> DEFINE X == Attacks(rows) \ Firing(scores, t)
  <2>1. X \subseteq 1..n
    BY <1>1
  <2> HIDE DEF X
  <2>2. Cardinality(X) \in Nat
    BY <1>1, <2>1, CountsOf
  <2> QED BY <2>2, Zenon DEF X, FN
<1>5. _f1(rows, scores, t) = IF 2 * tp + fp + fn = 0 THEN <<0, 1>> ELSE <<2 * tp, 2 * tp + fp + fn>>
  BY DEF _f1
<1> HIDE DEF tp, fp, fn
<1>6. Quotient(_f1(rows, scores, t)) /\ (tp = 0 => _f1(rows, scores, t)[1] = 0)
  BY <1>2, <1>3, <1>4, <1>5 DEF Quotient
<1> QED BY <1>2, <1>3, <1>6 DEF fp

LEMMA SameFiring ==
  ASSUME NEW rows, NEW scores, NEW t, NEW u, Firing(scores, t) = Firing(scores, u)
  PROVE  /\ _f1(rows, scores, t) = _f1(rows, scores, u)
         /\ FP(rows, scores, t) = FP(rows, scores, u)
<1>1. /\ TP(rows, scores, t) = TP(rows, scores, u)
      /\ FP(rows, scores, t) = FP(rows, scores, u)
      /\ FN(rows, scores, t) = FN(rows, scores, u)
  BY Zenon DEF TP, FP, FN
<1> QED BY <1>1, Zenon DEF _f1

\* A threshold at which something fires does what an observed score does.
LEMMA Observed ==
  ASSUME NEW rows, NEW scores, NEW n, Scored(rows, scores, n), NEW u \in Int, Firing(scores, u) # {}
  PROVE  \E m \in ToSet(scores) : Firing(scores, m) = Firing(scores, u)
<1> DEFINE S == {scores[i] : i \in Firing(scores, u)}
           m == Min(S)
<1>1. \A i \in DOMAIN scores : scores[i] \in Nat /\ scores[i] <= 4
  BY DEF Scored
<1>2. S \in SUBSET Nat /\ S # {} /\ \A s \in S : s <= 4
  BY <1>1 DEF Firing
<1>3. m \in S /\ \A y \in S : m <= y
  <2> HIDE DEF S
  <2>1. IsFiniteSet(S)
    <3> DEFINE top == 4
    <3>1. top \in Nat /\ \A s \in S : s <= top
      BY <1>2
    <3> HIDE DEF top
    <3> QED BY <1>2, <3>1, FS_BoundedSetOfNaturals
  <2> QED BY <1>2, <2>1, MaxOfNats
<1> HIDE DEF m
<1>4. m \in Nat /\ m >= u /\ m \in ToSet(scores)
  BY <1>1, <1>3 DEF Firing, ToSet
<1>5. ASSUME NEW i \in DOMAIN scores
      PROVE  scores[i] >= m <=> scores[i] >= u
  <2>1. scores[i] >= u => scores[i] \in S
    BY DEF Firing
  <2> HIDE DEF S
  <2> QED BY <1>1, <1>3, <1>4, <2>1
<1>6. Firing(scores, m) = Firing(scores, u)
  BY <1>5 DEF Firing
<1> QED BY <1>4, <1>6

\* A quotient is at least one that is zero.
LEMMA AboveZero ==
  ASSUME NEW p, NEW q, Quotient(p), Quotient(q), q[1] = 0
  PROVE  AtLeastRatio(p, q)
<1>1. p[1] * q[2] >= 0 /\ 0 * p[2] = 0
  BY DEF Quotient
<1> QED BY <1>1 DEF AtLeastRatio

\* What select_threshold answers when there are attacks and benign rows.
LEMMA Tuned ==
  ASSUME NEW rows, NEW scores, NEW n, Scored(rows, scores, n), NEW minutes \in Nat, NEW budget \in Nat,
         Attacks(rows) \notin {{}, DOMAIN rows}
  PROVE  LET t == select_threshold(rows, scores, minutes, budget)
             allowed == {u \in 0 .. One : WithinBudget(rows, scores, u, minutes, budget)}
         IN  IF t = NoThreshold THEN allowed = {}
             ELSE /\ t \in allowed
                  /\ \A u \in allowed :
                       AtLeastRatio(_f1(rows, scores, t), _f1(rows, scores, u))
<1> DEFINE Fits(u) == WithinBudget(rows, scores, u, minutes, budget)
           F(u) == _f1(rows, scores, u)
           kept == {u \in ToSet(scores) : Fits(u)}
           best == {u \in kept : \A v \in kept : AtLeastRatio(F(u), F(v))}
           quiet == {scores[i] : i \in DOMAIN rows \ Attacks(rows)}
           benign == Max(quiet)
           t == select_threshold(rows, scores, minutes, budget)
           allowed == {u \in 0 .. One : Fits(u)}
<1>1. t = IF best # {} THEN Max(best)
          ELSE IF benign >= One THEN NoThreshold
          ELSE Min({One, benign + Epsilon})
  BY Zenon DEF select_threshold
<1>2. \A i \in DOMAIN scores : scores[i] \in 0..4
  BY DEF Scored
<1>3. ToSet(scores) \subseteq 0..4 /\ kept \subseteq 0..4 /\ best \subseteq kept
  BY <1>2 DEF ToSet
<1>4. ASSUME NEW S, S \subseteq 0..4, S # {}
      PROVE  IsFiniteSet(S) /\ Max(S) \in S /\ \A y \in S : y <= Max(S)
  <2> DEFINE top == 4
  <2>1. S \in SUBSET Nat /\ top \in Nat /\ \A s \in S : s <= top
    BY <1>4
  <2> HIDE DEF top
  <2>2. IsFiniteSet(S)
    BY <2>1, FS_BoundedSetOfNaturals
  <2> QED BY <1>4, <2>1, <2>2, MaxOfNats
<1>5. ASSUME NEW u
      PROVE  Quotient(F(u)) /\ FP(rows, scores, u) \in Nat /\ (Firing(scores, u) = {} => F(u)[1] = 0)
  BY F1Is
<1>6. ASSUME NEW u, NEW v, Firing(scores, u) = Firing(scores, v)
      PROVE  F(u) = F(v) /\ (Fits(u) <=> Fits(v))
  BY <1>6, SameFiring DEF WithinBudget
<1>7. ASSUME NEW u \in allowed
      PROVE  Firing(scores, u) = {} \/ \E m \in kept : Firing(scores, m) = Firing(scores, u) /\ F(m) = F(u)
  <2>1. u \in Int /\ Fits(u)
    BY DEF One
  <2> HIDE DEF Fits, F
  <2>2. Firing(scores, u) # {}
          => \E m \in ToSet(scores) : Firing(scores, m) = Firing(scores, u)
    BY <2>1, Observed
  <2> QED BY <1>6, <2>1, <2>2
<1>8. kept # {} => best # {}
  <2>1. SUFFICES ASSUME kept # {} PROVE best # {}
    OBVIOUS
  <2> DEFINE p == [u \in kept |-> F(u)]
  <2>2. IsFiniteSet(kept)
    <3> HIDE DEF kept
    <3> QED BY <1>3, <1>4, <2>1
  <2>3. \A u \in kept : p[u] = F(u)
    OBVIOUS
  <2>4. \A u \in kept : Quotient(p[u])
    BY <1>5, <2>3
  <2> HIDE DEF p, kept, F
  <2>5. \E u \in kept : \A v \in kept : AtLeastRatio(p[u], p[v])
    BY <2>1, <2>2, <2>4, BestRatio
  <2> QED BY <2>3, <2>5
<1>9. quiet # {} /\ quiet \subseteq 0..4
  <2>1. \E i \in DOMAIN rows : i \notin Attacks(rows)
    BY DEF Attacks
  <2>2. DOMAIN rows = DOMAIN scores
    BY DEF Scored
  <2> QED BY <1>2, <2>1, <2>2
<1>10. benign \in quiet /\ \A y \in quiet : y <= benign
  <2> HIDE DEF quiet
  <2> QED BY <1>4, <1>9
<1>11. CASE best # {}
  <2>1. t \in best
    <3> HIDE DEF best, t
    <3>1. best \subseteq 0..4
      BY <1>3
    <3> QED BY <1>1, <1>4, <1>11, <3>1
  <2>2. t \in kept /\ \A v \in kept : AtLeastRatio(F(t), F(v))
    <3> HIDE DEF t
    <3> QED BY <2>1
  <2> HIDE DEF t, best, F, Fits
  <2>3. t \in 0..4 /\ Fits(t)
    BY <1>3, <2>2
  <2>4. t \in allowed /\ t # NoThreshold
    BY <2>3 DEF One, NoThreshold
  <2>5. ASSUME NEW u \in allowed
        PROVE  AtLeastRatio(F(t), F(u))
    <3>1. CASE Firing(scores, u) = {}
      BY <1>5, <3>1, AboveZero
    <3>2. CASE \E m \in kept : F(m) = F(u)
      BY <2>2, <3>2, Zenon
    <3> QED BY <1>7, <3>1, <3>2
  <2> QED BY <2>4, <2>5, Zenon DEF t, F, Fits
<1>12. CASE best = {} /\ benign >= One
  <2>1. t = NoThreshold
    BY <1>1, <1>12
  <2>2. ASSUME NEW u \in allowed
        PROVE  FALSE
    <3>1. PICK i \in DOMAIN rows : scores[i] = benign
      BY <1>10
    <3>2. i \in Firing(scores, u)
      <4>1. u \in 0..4 /\ i \in DOMAIN scores
        BY DEF One, Scored
      <4>2. scores[i] \in 0..4 /\ scores[i] >= 4
        BY <1>2, <1>12, <3>1, <4>1 DEF One
      <4> HIDE DEF allowed
      <4>3. scores[i] >= u
        BY <4>1, <4>2
      <4> QED BY <4>1, <4>3 DEF Firing
    <3>3. kept # {}
      BY <1>7, <3>2
    <3> QED BY <1>8, <1>12, <3>3
  <2> HIDE DEF t
  <2> QED BY <2>1, <2>2, Zenon DEF t
<1>13. CASE best = {} /\ ~(benign >= One)
  <2>1. benign \in 0..4 /\ ~(benign >= 4)
    BY <1>9, <1>10, <1>13 DEF One
  <2>2. t = Min({4, benign + 1})
    BY <1>1, <1>13 DEF One, Epsilon
  <2> HIDE DEF t, benign
  <2>3. t = benign + 1 /\ t \in 0..4
    <3>1. benign + 1 \in Int /\ 4 \in Int /\ benign + 1 <= 4
      BY <2>1
    <3> DEFINE a == benign + 1
               top == 4
    <3>2. Min({top, a}) \in {top, a} /\ Min({top, a}) <= a /\ Min({top, a}) <= top
      <4>1. top \in Int /\ a \in Int
        BY <3>1
      <4> HIDE DEF a, top
      <4> QED BY <4>1, MaxOfTwo
    <3> QED BY <2>1, <2>2, <3>1, <3>2
  <2>4. FP(rows, scores, t) = 0
    <3>1. ASSUME NEW i \in Firing(scores, t), i \notin Attacks(rows)
          PROVE  FALSE
      <4>1. i \in DOMAIN scores /\ scores[i] >= t /\ i \in DOMAIN rows /\ scores[i] \in 0..4
        BY <1>2 DEF Firing, Scored
      <4>2. scores[i] <= benign
        BY <1>10, <3>1, <4>1
      <4> QED BY <2>1, <2>3, <4>1, <4>2
    <3>2. Firing(scores, t) \ Attacks(rows) = {}
      BY <3>1
    <3>3. n \in Nat /\ {} \subseteq 1..n
      BY DEF Scored
    <3> QED BY <3>2, <3>3, CountsOf DEF FP
  <2>5. Fits(t)
    <3>1. budget * minutes >= 0
      OBVIOUS
    <3> QED BY <2>4, <3>1 DEF WithinBudget
  <2>6. t \in allowed /\ t # NoThreshold
    BY <2>3, <2>5 DEF One, NoThreshold
  <2>7. ASSUME NEW u \in allowed
        PROVE  AtLeastRatio(F(t), F(u))
    <3>1. Firing(scores, u) = {}
      BY <1>7, <1>8, <1>13
    <3> HIDE DEF F
    <3> QED BY <1>5, <3>1, AboveZero
  <2> HIDE DEF F, Fits
  <2> QED BY <2>6, <2>7, Zenon DEF t, F, Fits
<1> QED BY <1>11, <1>12, <1>13

\* A detector, and the history of a row for a model.
Detector(kind, model) == [kind |-> kind, model |-> model]
VectorsOf(rows) == [i \in DOMAIN rows |-> rows[i].vector]
PastOf(model, rows, i) ==
  IF model.length > 1 THEN entity_history(VectorsOf(rows)[i], VectorsOf(rows), model.length) ELSE <<>>

\* The score of a row by each detector.
LEMMA ScoresOf ==
  ASSUME NEW model, NEW rows, NEW kind
  PROVE  /\ DOMAIN score_partition(Detector(kind, model), rows) = DOMAIN rows
         /\ \A i \in DOMAIN rows :
              LET v == VectorsOf(rows)[i]
                  s == score_partition(Detector(kind, model), rows)[i]
                  m == ModelScore(model, v, PastOf(model, rows, i))
              IN  /\ kind = "static" => s = StaticScore(v)
                  /\ kind = "model" => s = m
                  /\ kind = "hybrid" => s = Max({StaticScore(v), m})
<1> DEFINE d == Detector(kind, model)
           past(v) == IF d.kind # "static" /\ d.model.length > 1
                      THEN entity_history(v, VectorsOf(rows), d.model.length) ELSE <<>>
           S == score_partition(d, rows)
<1>1. d.kind = kind /\ d.model = model
  BY DEF Detector
<1>2. S = [i \in DOMAIN rows |-> score(d, VectorsOf(rows)[i], past(VectorsOf(rows)[i]))]
  BY Zenon DEF score_partition, VectorsOf
<1> HIDE DEF d
<1>3. kind # "static" => \A i : past(VectorsOf(rows)[i]) = PastOf(model, rows, i)
  BY <1>1 DEF PastOf
<1> HIDE DEF past
<1>4. ASSUME NEW v, NEW h
      PROVE  /\ kind = "static" => score(d, v, h) = StaticScore(v)
             /\ kind = "model" => score(d, v, h) = ModelScore(model, v, h)
             /\ kind = "hybrid" => score(d, v, h) = Max({StaticScore(v), ModelScore(model, v, h)})
  BY <1>1 DEF score
<1>5. ASSUME NEW i \in DOMAIN rows
      PROVE  LET v == VectorsOf(rows)[i]
                 s == S[i]
                 m == ModelScore(model, v, PastOf(model, rows, i))
             IN  /\ kind = "static" => s = StaticScore(v)
                 /\ kind = "model" => s = m
                 /\ kind = "hybrid" => s = Max({StaticScore(v), m})
  <2>1. S[i] = score(d, VectorsOf(rows)[i], past(VectorsOf(rows)[i]))
    BY <1>2
  <2> HIDE DEF S
  <2>2. CASE kind = "static"
    BY <1>4, <2>1, <2>2
  <2>3. CASE kind # "static"
    <3>1. S[i] = score(d, VectorsOf(rows)[i], PastOf(model, rows, i))
      BY <1>3, <2>1, <2>3
    <3> QED BY <1>4, <2>3, <3>1
  <2> QED BY <2>2, <2>3
<1>6. DOMAIN S = DOMAIN rows
  BY <1>2
<1> QED BY <1>5, <1>6, Zenon DEF S, d

\* Every detector scores every row, the hybrid at least as high as the rules.
LEMMA PartitionScored ==
  ASSUME NEW model, NEW rows, PartitionInput(model, rows)
  PROVE  /\ \A kind \in {"static", "model", "hybrid"} :
              Scored(rows, score_partition(Detector(kind, model), rows), Len(rows))
         /\ \A i \in DOMAIN rows :
              /\ score_partition(Detector("static", model), rows)[i] \in {0, 4}
              /\ score_partition(Detector("static", model), rows)[i]
                   <= score_partition(Detector("hybrid", model), rows)[i]
<1> DEFINE n == Len(rows)
           S(kind) == score_partition(Detector(kind, model), rows)
<1>1. n \in Nat /\ DOMAIN rows = 1..n
  <2>1. rows \in Seq({rows[i] : i \in DOMAIN rows})
    BY Zenon DEF PartitionInput
  <2> QED BY <2>1
<1>2. \A i \in DOMAIN rows : S("model")[i] \in 0..4
  <2>1. \A i \in DOMAIN rows : S("model")[i] \in 0 .. One
    BY Zenon DEF PartitionInput, Detector
  <2> QED BY <2>1 DEF One
<1>3. ASSUME NEW i \in DOMAIN rows
      PROVE  S("static")[i] \in {0, 4} /\ S("hybrid")[i] \in 0..4 /\ S("static")[i] <= S("hybrid")[i]
  <2> DEFINE v == VectorsOf(rows)[i]
             m == ModelScore(model, v, PastOf(model, rows, i))
  <2>1. S("static")[i] = StaticScore(v) /\ S("model")[i] = m /\ S("hybrid")[i] = Max({StaticScore(v), m})
    <3>1. ASSUME NEW kind
          PROVE  /\ kind = "static" => S(kind)[i] = StaticScore(v)
                 /\ kind = "model" => S(kind)[i] = m
                 /\ kind = "hybrid" => S(kind)[i] = Max({StaticScore(v), m})
      BY ScoresOf
    <3> HIDE DEF S, m, v
    <3> QED BY <3>1
  <2> DEFINE s == StaticScore(v)
  <2>2. s \in {0, 4}
    BY DEF StaticScore, One
  <2>3. m \in 0..4
    BY <1>2, <2>1
  <2> HIDE DEF s, m
  <2>4. s \in Int /\ m \in Int
    BY <2>2, <2>3
  <2>5. Max({s, m}) \in {s, m} /\ s <= Max({s, m})
    BY <2>4, MaxOfTwo
  <2> QED BY <2>1, <2>2, <2>3, <2>5 DEF s
<1>4. \A kind : DOMAIN S(kind) = DOMAIN rows
  BY ScoresOf, Zenon
<1> HIDE DEF S, n
<1>5. ASSUME NEW kind \in {"static", "model", "hybrid"}
      PROVE  Scored(rows, S(kind), n)
  BY <1>1, <1>2, <1>3, <1>4 DEF Scored
<1> QED BY <1>3, <1>5 DEF S, n

\* A threshold that is chosen is one of a score.
LEMMA ThresholdIs ==
  ASSUME NEW rows, NEW scores, NEW n, Scored(rows, scores, n), NEW minutes \in Nat, NEW budget \in Nat
  PROVE  LET t == select_threshold(rows, scores, minutes, budget)
         IN  t # NoThreshold => t \in 0..4
<1> DEFINE t == select_threshold(rows, scores, minutes, budget)
           allowed == {u \in 0 .. One : WithinBudget(rows, scores, u, minutes, budget)}
<1>1. CASE Attacks(rows) \in {{}, DOMAIN rows}
  <2>1. t = NoThreshold
    BY <1>1, Zenon DEF select_threshold
  <2> QED BY <2>1
<1>2. CASE Attacks(rows) \notin {{}, DOMAIN rows}
  <2>1. t # NoThreshold => t \in allowed
    BY <1>2, Tuned, Zenon
  <2> HIDE DEF t
  <2>2. t # NoThreshold => t \in 0..4
    BY <2>1 DEF One
  <2> QED BY <2>2, Zenon DEF t
<1> QED BY <1>1, <1>2

\* What a benchmark is made from.
BenchmarkOK(b) ==
  /\ b.minutes \in Nat /\ b.budget \in Nat /\ b.model.length \in Nat \ {0}
  /\ PartitionInput(b.model, b.validation) /\ PartitionInput(b.model, b.test)

LEMMA BenchmarkTuned ==
  ASSUME NEW b, BenchmarkOK(b), NEW kind \in {"model", "hybrid"}
  PROVE  LET detector == Detector(kind, b.model)
             rows == b.validation
             scores == score_partition(detector, rows)
             t == tune_threshold(detector, rows, b.minutes, b.budget)
             allowed == {u \in 0 .. One : WithinBudget(rows, scores, u, b.minutes, b.budget)}
         IN  /\ t # NoThreshold => t \in 0..4
             /\ Attacks(rows) \notin {{}, DOMAIN rows} =>
                  IF t = NoThreshold THEN allowed = {}
                  ELSE /\ t \in allowed
                       /\ \A u \in allowed : AtLeastRatio(_f1(rows, scores, t), _f1(rows, scores, u))
<1> DEFINE detector == Detector(kind, b.model)
           rows == b.validation
           scores == score_partition(detector, rows)
           t == tune_threshold(detector, rows, b.minutes, b.budget)
           n == Len(rows)
           minutes == b.minutes
           budget == b.budget
<1>1. minutes \in Nat /\ budget \in Nat /\ PartitionInput(b.model, rows)
  BY Zenon DEF BenchmarkOK
<1>2. kind \in {"static", "model", "hybrid"} /\ detector.kind # "static"
  BY DEF Detector
<1>3. Scored(rows, scores, n)
  BY <1>1, <1>2, PartitionScored, Zenon
<1>4. t = select_threshold(rows, scores, minutes, budget)
  BY <1>2, Zenon DEF tune_threshold
<1> HIDE DEF detector, rows, scores, t, n, minutes, budget
<1>5. t # NoThreshold => t \in 0..4
  BY <1>1, <1>3, <1>4, ThresholdIs, Zenon
<1> DEFINE allowed == {u \in 0 .. One : WithinBudget(rows, scores, u, minutes, budget)}
<1>6. Attacks(rows) \notin {{}, DOMAIN rows} =>
                  IF t = NoThreshold THEN allowed = {}
                  ELSE /\ t \in allowed
                       /\ \A u \in allowed : AtLeastRatio(_f1(rows, scores, t), _f1(rows, scores, u))
  BY <1>1, <1>3, <1>4, Tuned, Zenon
<1> QED BY <1>5, <1>6, Zenon DEF detector, rows, scores, t, minutes, budget

\* Where more fires, every scenario is detected that was, and no later.
LEMMA DelaysKept ==
  ASSUME NEW rows, NEW n \in Nat, DOMAIN rows = 1..n,
         \A i \in DOMAIN rows : rows[i].onset \in Int /\ rows[i].vector.window_end \in Int,
         NEW less, NEW t, NEW more, NEW u, Firing(less, t) \subseteq Firing(more, u)
  PROVE  LET few == detection_delays(rows, less, t).first
             many == detection_delays(rows, more, u).first
         IN  \A s \in DOMAIN few : s \in DOMAIN many /\ many[s] <= few[s]
<1> DEFINE labelled == {i \in Attacks(rows) : rows[i].scenario # NoScenario}
           delay(i) == Max({0, rows[i].vector.window_end - rows[i].onset})
           Own(F, s) == {i \in labelled \cap F : rows[i].scenario = s}
           First(F) == [s \in {rows[i].scenario : i \in labelled \cap F} |-> Min({delay(i) : i \in Own(F, s)})]
           A == Firing(less, t)
           B == Firing(more, u)
<1>1. detection_delays(rows, less, t).first = First(A) /\ detection_delays(rows, more, u).first = First(B)
  BY DEF detection_delays
<1>2. labelled \subseteq 1..n
  BY DEF Attacks
<1>3. ASSUME NEW i \in labelled
      PROVE  delay(i) \in Nat
  <2> DEFINE d == rows[i].vector.window_end - rows[i].onset
             z == 0
  <2>1. z \in Int /\ d \in Int /\ z = 0
    BY <1>2
  <2> HIDE DEF d, z
  <2>2. Max({z, d}) \in {z, d} /\ z <= Max({z, d})
    BY <2>1, MaxOfTwo
  <2>3. Max({z, d}) \in Nat
    BY <2>1, <2>2
  <2> QED BY <2>3, Zenon DEF d, z
<1> HIDE DEF delay, labelled, A, B
<1>4. ASSUME NEW S, S \subseteq labelled, S # {}
      PROVE  LET D == {delay(i) : i \in S} IN Min(D) \in D /\ \A y \in D : Min(D) <= y
  <2> DEFINE D == {delay(i) : i \in S}
  <2>1. IsFiniteSet(S)
    <3>1. S \subseteq 1..n
      BY <1>2, <1>4
    <3> QED BY <3>1, CountsOf
  <2>2. D \in SUBSET Nat /\ D # {}
    BY <1>3, <1>4
  <2>3. IsFiniteSet(D)
    <3> DEFINE f == [i \in S |-> delay(i)]
    <3>1. D = {f[i] : i \in S}
      OBVIOUS
    <3>2. f \in Surjection(S, D)
      BY DEF Surjection
    <3> HIDE DEF D, f
    <3> QED BY <2>1, <3>2, FS_Surjection
  <2> HIDE DEF D
  <2>4. Min(D) \in D /\ \A y \in D : Min(D) <= y
    BY <2>2, <2>3, MaxOfNats
  <2> QED BY <2>4, Zenon DEF D
<1>5. ASSUME NEW s \in DOMAIN First(A)
      PROVE  s \in DOMAIN First(B) /\ First(B)[s] <= First(A)[s]
  <2> DEFINE OA == Own(A, s)
             OB == Own(B, s)
             DA == {delay(i) : i \in OA}
             DB == {delay(i) : i \in OB}
  <2>1. A \subseteq B
    BY DEF A, B
  <2>2. s \in DOMAIN First(B)
    BY <1>5, <2>1
  <2>3. OA \subseteq OB /\ OA # {} /\ OB # {} /\ OA \subseteq labelled /\ OB \subseteq labelled
    BY <1>5, <2>1
  <2>4. DA \subseteq DB
    BY <2>3
  <2>5. First(A)[s] = Min(DA) /\ First(B)[s] = Min(DB)
    BY <1>5, <2>2
  <2> HIDE DEF First, OA, OB
  <2>6. Min(DA) \in DA
    BY <1>4, <2>3, Zenon
  <2>7. \A y \in DB : Min(DB) <= y
    BY <1>4, <2>3, Zenon
  <2> HIDE DEF DA, DB
  <2> QED BY <2>2, <2>4, <2>5, <2>6, <2>7
<1> HIDE DEF First
<1> QED BY <1>1, <1>5, Zenon

\* The threshold, the scores, the delays and the metrics of a detector of a
\* benchmark.
TunedAt(b, kind) == tune_threshold(Detector(kind, b.model), b.validation, b.minutes, b.budget)
TestScores(b, kind) == score_partition(Detector(kind, b.model), b.test)
DelaysOf(b, kind) == detection_delays(b.test, TestScores(b, kind), TunedAt(b, kind)).first
MetricsOf(b, kind) == evaluate(Detector(kind, b.model), b.test, TunedAt(b, kind), b.minutes, FALSE)
Candidates(b) == write_candidate(b.model, b.validation, b.test, b.minutes, b.budget)

\* What a candidate records: three thresholds that were chosen, and the
\* metrics of each detector at its own.
LEMMA Candidate ==
  ASSUME NEW b, NEW candidate \in Candidates(b)
  PROVE  /\ \A kind \in {"static", "model", "hybrid"} : TunedAt(b, kind) # NoThreshold
         /\ candidate.benchmark[1] = MetricsOf(b, "static")
         /\ candidate.benchmark[3] = MetricsOf(b, "hybrid")
<1> DEFINE model == b.model
           validation == b.validation
           test == b.test
           minutes == b.minutes
           budget == b.budget
           D(kind) == Detector(kind, model)
           T(kind) == tune_threshold(D(kind), validation, minutes, budget)
           R == run_benchmark(model, validation, test, minutes, budget)
           E(kind, required) == evaluate(D(kind), test, T(kind), minutes, required)
<1>1. /\ R # <<>>
      /\ candidate \in {[metrics |-> row, benchmark |-> R] : row \in E("model", TRUE)}
  <2>1. write_candidate(model, validation, test, minutes, budget)
          = IF T("model") = NoThreshold \/ R = <<>> THEN {}
            ELSE {[metrics |-> row, benchmark |-> R] : row \in E("model", TRUE)}
    BY Zenon DEF write_candidate, Detector
  <2>2. candidate \in write_candidate(model, validation, test, minutes, budget)
    BY Zenon DEF Candidates
  <2> HIDE DEF R, T, E
  <2> QED BY <2>1, <2>2, Zenon
<1>2. candidate.benchmark = R
  <2> DEFINE M == E("model", TRUE)
  <2>1. candidate \in {[metrics |-> row, benchmark |-> R] : row \in M}
    BY <1>1
  <2> HIDE DEF R, M
  <2> QED BY <2>1
<1> DEFINE ds == build_detectors(model)
<1>3. DOMAIN ds = 1..3 /\ ds[1] = D("static") /\ ds[2] = D("model") /\ ds[3] = D("hybrid")
  BY DEF build_detectors, Detector
<1> DEFINE threshold == [i \in DOMAIN ds |-> tune_threshold(ds[i], validation, minutes, budget)]
<1> DEFINE no == FALSE
<1>4. R = IF \E i \in DOMAIN ds : threshold[i] = NoThreshold THEN <<>>
          ELSE [i \in DOMAIN ds |-> evaluate(ds[i], test, threshold[i], minutes, no)]
  BY Zenon DEF run_benchmark
<1> HIDE DEF ds, D, R, no
<1>5. threshold[1] = T("static") /\ threshold[2] = T("model") /\ threshold[3] = T("hybrid")
  BY <1>3
<1> HIDE DEF threshold, T
<1>6. \A i \in DOMAIN ds : threshold[i] # NoThreshold
  BY <1>1, <1>4, Zenon
<1>7. R = [i \in DOMAIN ds |-> evaluate(ds[i], test, threshold[i], minutes, no)]
  BY <1>4, <1>6, Zenon
<1>8. R[1] = E("static", no) /\ R[3] = E("hybrid", no)
  BY <1>3, <1>5, <1>7
<1>9. R[1] = E("static", FALSE) /\ R[3] = E("hybrid", FALSE)
  BY <1>8 DEF no
<1>10. \A kind \in {"static", "model", "hybrid"} : T(kind) # NoThreshold
  <2>1. T("static") # NoThreshold /\ T("model") # NoThreshold /\ T("hybrid") # NoThreshold
    BY <1>3, <1>5, <1>6
  <2> QED BY <2>1
<1> QED BY <1>2, <1>9, <1>10, Zenon DEF T, D, TunedAt, MetricsOf

\* The metrics at a threshold that was chosen.
LEMMA Metrics ==
  ASSUME NEW b, NEW kind
  PROVE  /\ \A row \in MetricsOf(b, kind) : row.delays = DelaysOf(b, kind)
         /\ TunedAt(b, kind) \in 0..4 => MetricsOf(b, kind) # {}
<1> DEFINE t == TunedAt(b, kind)
           first == DelaysOf(b, kind)
           MetricsRow(p, r, f, q, c) ==
             [precision |-> p, recall |-> r, f1 |-> f, false_positives |-> q,
              minutes |-> b.minutes, threshold |-> t, delays |-> first, scenarios |-> c]
<1>1. \E p, r, f, q, c : MetricsOf(b, kind) = IF t \notin 0 .. One THEN {} ELSE {MetricsRow(p, r, f, q, c)}
  BY Zenon DEF evaluate, MetricsOf, DelaysOf, TestScores
<1> HIDE DEF first, t
<1>2. \A p, r, f, q, c : MetricsRow(p, r, f, q, c).delays = first
  OBVIOUS
<1> HIDE DEF MetricsRow
<1>3. \A row \in MetricsOf(b, kind) : row.delays = first
  BY <1>1, <1>2
<1>4. t \in 0..4 => MetricsOf(b, kind) # {}
  <2>1. t \in 0 .. One => MetricsOf(b, kind) # {}
    BY <1>1, Zenon
  <2> QED BY <2>1 DEF One
<1> QED BY <1>3, <1>4, Zenon DEF first, t

\* The hybrid of a candidate keeps what the rules find.
LEMMA HybridKept ==
  ASSUME NEW b, BenchmarkOK(b),
         NEW candidate \in Candidates(b),
         NEW static \in candidate.benchmark[1]
  PROVE  \E hybrid \in candidate.benchmark[3] :
           \A s \in DOMAIN static.delays : s \in DOMAIN hybrid.delays /\ hybrid.delays[s] <= static.delays[s]
<1> DEFINE rows == b.test
           T(kind) == TunedAt(b, kind)
           S(kind) == TestScores(b, kind)
<1>1. T("hybrid") \in 0..4
  <2>1. T("hybrid") # NoThreshold
    BY Candidate
  <2>2. T("hybrid") # NoThreshold => T("hybrid") \in 0..4
    BY BenchmarkTuned DEF TunedAt
  <2> HIDE DEF T
  <2> QED BY <2>1, <2>2
<1>2. T("static") = 2
  <2> DEFINE d == Detector("static", b.model)
  <2>1. d.kind = "static"
    BY DEF Detector
  <2> HIDE DEF d
  <2>2. tune_threshold(d, b.validation, b.minutes, b.budget) = 2
    BY <2>1 DEF tune_threshold, One
  <2> QED BY <2>2, Zenon DEF d, TunedAt
<1>3. candidate.benchmark[1] = MetricsOf(b, "static") /\ candidate.benchmark[3] = MetricsOf(b, "hybrid")
  BY Candidate
<1>4. \A kind : \A row \in MetricsOf(b, kind) : row.delays = DelaysOf(b, kind)
  BY Metrics
<1>5. MetricsOf(b, "hybrid") # {}
  BY <1>1, Metrics
<1>7. PartitionInput(b.model, rows)
  BY Zenon DEF BenchmarkOK
<1>8. /\ Len(rows) \in Nat /\ DOMAIN rows = 1..Len(rows)
      /\ \A i \in DOMAIN rows : rows[i].onset \in Int /\ rows[i].vector.window_end \in Int
  <2>1. rows \in Seq({rows[i] : i \in DOMAIN rows})
    BY <1>7, Zenon DEF PartitionInput
  <2>2. \A i \in DOMAIN rows : rows[i].onset \in Int /\ rows[i].vector.window_end \in Int
    BY <1>7, Zenon DEF PartitionInput
  <2> HIDE DEF rows
  <2> QED BY <2>1, <2>2
<1>9. \A i \in DOMAIN rows : S("static")[i] \in {0, 4} /\ S("static")[i] <= S("hybrid")[i]
  BY <1>7, PartitionScored, Zenon DEF TestScores
<1>10. DOMAIN S("static") = DOMAIN rows /\ DOMAIN S("hybrid") = DOMAIN rows /\ \A i \in DOMAIN rows : S("hybrid")[i] \in Int
  <2> DEFINE n == Len(rows)
  <2>1. Scored(rows, S("static"), n) /\ Scored(rows, S("hybrid"), n)
    BY <1>7, PartitionScored DEF TestScores
  <2> HIDE DEF rows, n
  <2> QED BY <2>1 DEF Scored
<1> DEFINE a == S("static")
           h == S("hybrid")
           t == T("static")
           u == T("hybrid")
<1>11. Firing(a, t) \subseteq Firing(h, u)
  <2> HIDE DEF rows
  <2>1. ASSUME NEW i \in DOMAIN rows, a[i] >= t
        PROVE  h[i] >= u
    BY <1>1, <1>2, <1>9, <1>10, <2>1
  <2> HIDE DEF a, h, t, u
  <2>2. DOMAIN a = DOMAIN rows /\ DOMAIN h = DOMAIN rows
    BY <1>10 DEF a, h
  <2> QED BY <2>1, <2>2, Zenon DEF Firing
<1> HIDE DEF a, h, t, u, rows
<1>12. \A s \in DOMAIN detection_delays(rows, a, t).first :
         /\ s \in DOMAIN detection_delays(rows, h, u).first
         /\ detection_delays(rows, h, u).first[s] <= detection_delays(rows, a, t).first[s]
  BY <1>8, <1>11, DelaysKept
<1>13. \A s \in DOMAIN DelaysOf(b, "static") :
         s \in DOMAIN DelaysOf(b, "hybrid") /\ DelaysOf(b, "hybrid")[s] <= DelaysOf(b, "static")[s]
  BY <1>12, Zenon DEF a, h, t, u, rows, DelaysOf
<1>14. PICK hybrid \in candidate.benchmark[3] : hybrid.delays = DelaysOf(b, "hybrid")
  BY <1>3, <1>4, <1>5, Zenon
<1>15. static.delays = DelaysOf(b, "static")
  BY <1>3, <1>4, Zenon
<1> QED BY <1>13, <1>14, <1>15, Zenon

\* A list of m things has the length m.
LEMMA LengthOf ==
  ASSUME NEW m \in Nat, NEW f, NEW g, f = [i \in 1..m |-> g[i]]
  PROVE  Len(f) = m /\ DOMAIN f = 1..m
<1> QED OBVIOUS

\* A fetched history has as many windows as the model looks back, and their
\* features are those of vectors.
LEMMA HistoryOf ==
  ASSUME NEW vectors, NEW n \in Nat, DOMAIN vectors = 1..n, NEW vector, NEW length \in Nat, length >= 1
  PROVE  /\ Len(Fetched(vector, vectors, length)) = length - 1
         /\ DOMAIN Fetched(vector, vectors, length) = 1..(length - 1)
         /\ \A i \in 1..(length - 1) : \A f \in entity_history(vector, vectors, length)[i] :
              \E k \in DOMAIN vectors : f = vectors[k].features
<1> DEFINE ends == history_window_ends(vector.window_end, length)
           m == length - 1
           Newest(S) == IF S = {} THEN {} ELSE {Max(S)}
           kept(t) == {i \in DOMAIN vectors : vectors[i].entity = vector.entity /\ vectors[i].window_end = t}
<1>1. DOMAIN ends = 1..m /\ m \in Nat
  BY DEF history_window_ends
<1>2. \E g : Fetched(vector, vectors, length) = [i \in DOMAIN ends |-> g[i]]
  <2> DEFINE hits0 == {i \in DOMAIN vectors : /\ vectors[i].schema = vector.schema
                                              /\ vectors[i].entity = vector.entity
                                              /\ vectors[i].window_end \in ToSet(ends)}
             shown(t) == {i \in FirstOf(Len(ends), hits0) : vectors[i].window_end = t}
             row(i) == {vectors[k].features : k \in Newest(shown(ends[i]))}
             g == [i \in DOMAIN ends |-> row(i)]
  <2>1. Fetched(vector, vectors, length) = g
    BY Zenon DEF Fetched
  <2> HIDE DEF row, ends
  <2>2. g = [i \in DOMAIN ends |-> g[i]]
    OBVIOUS
  <2> HIDE DEF g
  <2> QED BY <2>1, <2>2, Zenon
<1>3. entity_history(vector, vectors, length)
        = [i \in DOMAIN ends |-> {vectors[k].features : k \in Newest(kept(ends[i]))}]
  BY Zenon DEF entity_history
<1> HIDE DEF ends, m
<1>4. PICK g : Fetched(vector, vectors, length) = [i \in 1..m |-> g[i]]
  BY <1>1, <1>2
<1>5. Len(Fetched(vector, vectors, length)) = m /\ DOMAIN Fetched(vector, vectors, length) = 1..m
  BY <1>1, <1>4, LengthOf
<1>6. ASSUME NEW i \in 1..m, NEW f \in entity_history(vector, vectors, length)[i]
      PROVE  \E k \in DOMAIN vectors : f = vectors[k].features
  <2> DEFINE K == kept(ends[i])
  <2>1. K \in SUBSET Nat /\ (\A j \in K : j <= n) /\ K \subseteq DOMAIN vectors
    OBVIOUS
  <2>2. entity_history(vector, vectors, length)[i] = {vectors[k].features : k \in Newest(K)}
    BY <1>1, <1>3
  <2> HIDE DEF K
  <2>3. PICK k \in Newest(K) : f = vectors[k].features
    BY <1>6, <2>2
  <2>4. K # {} /\ k = Max(K)
    OBVIOUS
  <2>5. IsFiniteSet(K)
    BY <2>1, FS_BoundedSetOfNaturals
  <2>6. Max(K) \in K
    BY <2>1, <2>4, <2>5, MaxOfNats
  <2> QED BY <2>1, <2>3, <2>4, <2>6
<1> QED BY <1>5, <1>6 DEF m

\* An approved model, and what the service answers to a request that is valid.
Approved(model, threshold) == [schema |-> NETWORK, model |-> model, threshold |-> threshold]

LEMMA Answered ==
  ASSUME NEW model, NEW threshold, NEW request, request.schema = NETWORK, request.entity # "invalid",
         require_exact_features(NETWORK, request.features)
  PROVE  LET answer == infer({Approved(model, threshold)}, request)
         IN  /\ Len(request.history) # model.length - 1 => answer.result = {}
             /\ (/\ Len(request.history) = model.length - 1
                 /\ \A i \in DOMAIN request.history : \A f \in request.history[i] :
                      require_exact_features(NETWORK, f))
                => answer.result = Infer(Approved(model, threshold), request.features, request.history)
<1> DEFINE p == Approved(model, threshold)
           answer == infer({p}, request)
           chosen == CHOOSE a \in {p} : TRUE
           odd == \E i \in DOMAIN request.history : \E f \in request.history[i] :
                    ~require_exact_features(request.schema, f)
           served == [status |-> 200, counted |-> "requests",
                      result |-> Infer(chosen, request.features, request.history)]
<1>1. answer = IF \/ request.schema # chosen.schema
                  \/ Len(request.history) # chosen.model.length - 1
                  \/ odd
               THEN Refusal(422, "errors") ELSE served
  <2>1. ~(request.schema = NETWORK /\ request.entity = "invalid")
    OBVIOUS
  <2>2. require_exact_features(request.schema, request.features)
    OBVIOUS
  <2>3. {p} # {}
    OBVIOUS
  <2> QED BY <2>1, <2>2, <2>3, Zenon DEF infer
<1>2. chosen = p
  OBVIOUS
<1>3. p.schema = NETWORK /\ p.model = model
  BY DEF Approved
<1>4. served.result = Infer(chosen, request.features, request.history)
  OBVIOUS
<1>5. Refusal(422, "errors").result = {}
  BY DEF Refusal
<1> HIDE DEF p, answer, chosen, odd, served
<1>6. Len(request.history) # model.length - 1 => answer.result = {}
  BY <1>1, <1>2, <1>3, <1>5, Zenon
<1>7. Len(request.history) = model.length - 1 /\ ~odd
        => answer.result = Infer(p, request.features, request.history)
  BY <1>1, <1>2, <1>3, <1>4, Zenon
<1>8. (\A i \in DOMAIN request.history : \A f \in request.history[i] :
         require_exact_features(NETWORK, f)) => ~odd
  BY Zenon DEF odd
<1> QED BY <1>6, <1>7, <1>8, Zenon DEF answer, p

\* For a row of the test partition the service answers what was counted.
RowRight(model, rows, threshold, i, length) ==
  LET vectors == VectorsOf(rows)
      scores == score_partition(Detector("model", model), rows)
      answer == infer({Approved(model, threshold)}, RequestFor(vectors[i], vectors, length))
  IN  IF length # model.length THEN answer.result = {}
      ELSE answer.result = {[score |-> scores[i], is_anomaly |-> i \in Firing(scores, threshold)]}

LEMMA RowServed ==
  ASSUME NEW model, model.length \in Nat \ {0}, NEW rows, PartitionInput(model, rows), NEW threshold,
         NEW i \in DOMAIN rows, NEW length \in 1 .. 3
  PROVE  RowRight(model, rows, threshold, i, length)
<1> DEFINE vectors == VectorsOf(rows)
           v == vectors[i]
           scores == score_partition(Detector("model", model), rows)
           request == RequestFor(v, vectors, length)
           answer == infer({Approved(model, threshold)}, request)
           history == IF length > 1 THEN Fetched(v, vectors, length) ELSE <<>>
           n == Len(rows)
<1>1. n \in Nat /\ DOMAIN rows = 1..n
  <2>1. rows \in Seq({rows[k] : k \in DOMAIN rows})
    BY Zenon DEF PartitionInput
  <2> QED BY <2>1
<1>2. DOMAIN vectors = 1..n /\ \A k \in DOMAIN vectors : vectors[k] = rows[k].vector
  BY <1>1 DEF VectorsOf
<1>3. \A k \in DOMAIN vectors :
        /\ vectors[k].schema = NETWORK /\ vectors[k].entity # "invalid"
        /\ require_exact_features(NETWORK, vectors[k].features)
  <2>1. \A k \in DOMAIN rows :
          /\ rows[k].vector.schema = NETWORK /\ rows[k].vector.entity # "invalid"
          /\ require_exact_features(NETWORK, rows[k].vector.features)
    BY Zenon DEF PartitionInput
  <2> HIDE DEF vectors, n
  <2> QED BY <1>1, <1>2, <2>1
<1>4. OneVector(vectors)
  <2>1. \A j, k \in DOMAIN rows :
          (/\ rows[j].vector.entity = rows[k].vector.entity
           /\ rows[j].vector.window_end = rows[k].vector.window_end) => j = k
    BY Zenon DEF PartitionInput
  <2> HIDE DEF vectors, n
  <2> QED BY <1>1, <1>2, <2>1 DEF OneVector
<1>5. i \in DOMAIN vectors /\ length \in Nat /\ length >= 1
  BY <1>1, <1>2
<1> HIDE DEF vectors, n
<1>6. /\ request.schema = v.schema /\ request.entity = v.entity /\ request.features = v.features
      /\ request.history = history
  BY DEF RequestFor
<1> HIDE DEF request, v
<1>7. v.schema = NETWORK /\ v.entity # "invalid" /\ require_exact_features(NETWORK, v.features)
  BY <1>3, <1>5, Zenon DEF v
<1>8. length > 1 => Fetched(v, vectors, length) = entity_history(v, vectors, length)
  <2>1. DOMAIN vectors = {k \in DOMAIN vectors : vectors[k].schema = v.schema}
    BY <1>3, <1>7
  <2> QED BY <1>1, <1>2, <1>4, <1>5, <2>1, FetchedIsHistory
<1>9. /\ Len(history) = length - 1
      /\ \A k \in DOMAIN history : \A f \in history[k] : require_exact_features(NETWORK, f)
  <2>1. CASE ~(length > 1)
    <3>1. history = <<>> /\ length = 1
      BY <1>5, <2>1
    <3> QED BY <3>1
  <2>2. CASE length > 1
    <3>1. /\ Len(Fetched(v, vectors, length)) = length - 1
          /\ DOMAIN Fetched(v, vectors, length) = 1..(length - 1)
          /\ \A k \in 1..(length - 1) : \A f \in entity_history(v, vectors, length)[k] :
               \E j \in DOMAIN vectors : f = vectors[j].features
      <4>1. n \in Nat /\ DOMAIN vectors = 1..n /\ length \in Nat /\ length >= 1
        BY <1>1, <1>2, <1>5
      <4> QED BY <4>1, HistoryOf
    <3>2. history = Fetched(v, vectors, length)
      BY <2>2
    <3> HIDE DEF history
    <3>3. ASSUME NEW k \in DOMAIN history, NEW f \in history[k]
          PROVE  require_exact_features(NETWORK, f)
      <4>1. k \in 1..(length - 1) /\ f \in entity_history(v, vectors, length)[k]
        BY <1>8, <2>2, <3>1, <3>2, <3>3
      <4>2. PICK j \in DOMAIN vectors : f = vectors[j].features
        BY <3>1, <4>1
      <4> QED BY <1>3, <4>2, Zenon
    <3> QED BY <3>1, <3>2, <3>3
  <2> QED BY <2>1, <2>2
<1> HIDE DEF history
<1>10. /\ Len(request.history) # model.length - 1 => answer.result = {}
       /\ (/\ Len(request.history) = model.length - 1
           /\ \A k \in DOMAIN request.history : \A f \in request.history[k] :
                require_exact_features(NETWORK, f))
          => answer.result = Infer(Approved(model, threshold), request.features, request.history)
  BY <1>6, <1>7, Answered
<1>11. CASE length # model.length
  <2>1. Len(request.history) # model.length - 1
    BY <1>5, <1>6, <1>9, <1>11
  <2> HIDE DEF answer
  <2>2. answer.result = {}
    BY <1>10, <2>1
  <2> QED BY <1>11, <2>2, Zenon DEF answer, request, v, vectors, RowRight
<1>12. CASE length = model.length
  <2> DEFINE matrix == IF model.length > 1 THEN sequence_matrix(NETWORK, history, v.features)
                       ELSE <<v.features>>
             s == model.score[matrix]
             a == Approved(model, threshold)
  <2>1. answer.result = Infer(a, v.features, history)
    <3>1. Len(request.history) = model.length - 1
      BY <1>6, <1>9, <1>12
    <3> HIDE DEF answer
    <3> QED BY <1>6, <1>9, <1>10, <3>1
  <2>2. a.model = model /\ a.schema = NETWORK /\ a.threshold = threshold
    BY DEF Approved
  <2> HIDE DEF a
  <2>3. Len(history) = a.model.length - 1
    BY <1>9, <1>12, <2>2
  <2>4. Infer(a, v.features, history) = {[score |-> s, is_anomaly |-> s >= threshold]}
    BY <2>2, <2>3, Zenon DEF Infer
  <2>5. scores[i] = ModelScore(model, v, PastOf(model, rows, i)) /\ DOMAIN scores = DOMAIN rows
    BY ScoresOf DEF v, vectors
  <2>6. length > 1 => PastOf(model, rows, i) = history
    BY <1>8, <1>12 DEF PastOf, v, vectors, history
  <2>7. scores[i] = s
    <3>1. ModelScore(model, v, PastOf(model, rows, i))
            = model.score[IF model.length > 1
                          THEN sequence_matrix(v.schema, PastOf(model, rows, i), v.features)
                          ELSE <<v.features>>]
      BY Zenon DEF ModelScore
    <3> HIDE DEF scores
    <3> QED BY <1>7, <1>12, <2>5, <2>6, <3>1
  <2> HIDE DEF s, scores, matrix
  <2>8. (i \in Firing(scores, threshold)) = (s >= threshold)
    BY <2>5, <2>7 DEF Firing
  <2> DEFINE is == i \in Firing(scores, threshold)
  <2>9. answer.result = {[score |-> scores[i], is_anomaly |-> is]}
    <3> HIDE DEF answer, is
    <3>1. is = (s >= threshold)
      BY <2>8 DEF is
    <3> QED BY <2>1, <2>4, <2>7, <3>1, Zenon
  <2> HIDE DEF answer
  <2> QED BY <1>12, <2>9, Zenon DEF answer, request, v, vectors, scores, RowRight
<1> QED BY <1>11, <1>12

\* For every benchmark: the threshold that is chosen is the best within the
\* budget, the hybrid of a candidate keeps every scenario that the static rules
\* detect, and the service answers with the verdicts that were counted.
THEOREM BenchmarksFaithful == AlgorithmsSpec => []BenchmarkFaithful
<1>0. BenchmarkInputs
  BY InputAssumption
<1>1. ASSUME Inputs, input.of = "benchmark"
      PROVE  BenchmarkOK(input.value)
  <2>1. input.value \in Benchmarks
    BY <1>1 DEF Inputs
  <2> QED BY <1>0, <2>1, Zenon DEF BenchmarkInputs, BenchmarkOK
<1>2. Inputs => TunedIsBest
  <2>1. ASSUME Inputs, input.of = "benchmark", NEW kind \in {"model", "hybrid"}
        PROVE  LET b == input.value
                   detector == Detector(kind, b.model)
                   rows == b.validation
                   scores == score_partition(detector, rows)
                   t == tune_threshold(detector, rows, b.minutes, b.budget)
                   allowed == {u \in 0 .. One : WithinBudget(rows, scores, u, b.minutes, b.budget)}
               IN  Attacks(rows) \notin {{}, DOMAIN rows} =>
                     IF t = NoThreshold THEN allowed = {}
                     ELSE /\ t \in allowed
                          /\ \A u \in allowed :
                               AtLeastRatio(_f1(rows, scores, t), _f1(rows, scores, u))
    <3> DEFINE b == input.value
    <3>1. BenchmarkOK(b)
      BY <1>1, <2>1
    <3> HIDE DEF b
    <3>2. LET detector == Detector(kind, b.model)
              rows == b.validation
              scores == score_partition(detector, rows)
              t == tune_threshold(detector, rows, b.minutes, b.budget)
              allowed == {u \in 0 .. One : WithinBudget(rows, scores, u, b.minutes, b.budget)}
          IN  Attacks(rows) \notin {{}, DOMAIN rows} =>
                IF t = NoThreshold THEN allowed = {}
                ELSE /\ t \in allowed
                     /\ \A u \in allowed :
                          AtLeastRatio(_f1(rows, scores, t), _f1(rows, scores, u))
      BY <3>1, BenchmarkTuned, Zenon
    <3> QED BY <3>2, Zenon DEF b
  <2> QED BY <2>1, Zenon DEF TunedIsBest, Given, Detector
<1>3. Inputs => HybridKeepsStatic
  <2>1. ASSUME Inputs, input.of = "benchmark", NEW candidate \in Candidates(input.value),
               NEW static \in candidate.benchmark[1]
        PROVE  \E hybrid \in candidate.benchmark[3] :
                 \A s \in DOMAIN static.delays : s \in DOMAIN hybrid.delays /\ hybrid.delays[s] <= static.delays[s]
    <3> DEFINE b == input.value
    <3>1. BenchmarkOK(b) /\ candidate \in Candidates(b)
      BY <1>1, <2>1
    <3> HIDE DEF b
    <3> QED BY <3>1, HybridKept
  <2> QED BY <2>1, Zenon DEF HybridKeepsStatic, Given, Candidates
<1>4. Inputs => ServedAsEvaluated
  <2>1. ASSUME NEW b, BenchmarkOK(b), NEW threshold, NEW i \in DOMAIN VectorsOf(b.test), NEW length \in 1 .. 3
        PROVE  RowRight(b.model, b.test, threshold, i, length)
    <3>1. PartitionInput(b.model, b.test) /\ b.model.length \in Nat \ {0}
      BY <2>1, Zenon DEF BenchmarkOK
    <3>2. i \in DOMAIN b.test
      BY <2>1 DEF VectorsOf
    <3> QED BY <3>1, <3>2, RowServed
  <2>2. ASSUME Inputs, input.of = "benchmark", NEW candidate \in Candidates(input.value),
               NEW i \in DOMAIN VectorsOf(input.value.test), NEW length \in 1 .. 3
        PROVE  RowRight(input.value.model, input.value.test, candidate.metrics.threshold, i, length)
    BY <1>1, <2>1, <2>2, Zenon
  <2> QED BY <2>2, Zenon DEF ServedAsEvaluated, Given, Candidates, RowRight, VectorsOf, Approved, Detector
<1>5. Inputs => BenchmarkFaithful
  BY <1>2, <1>3, <1>4, Zenon DEF BenchmarkFaithful
<1> QED BY <1>5, AlwaysInputs, PTL

\* The values of a function with a finite domain.
LEMMA RangeFinite ==
  ASSUME NEW f, IsFiniteSet(DOMAIN f)
  PROVE  IsFiniteSet(ToSet(f))
<1> DEFINE S == DOMAIN f
           g == [x \in S |-> f[x]]
           T == {f[x] : x \in S}
<1>1. g \in Surjection(S, T)
  BY DEF Surjection
<1> HIDE DEF g
<1>2. IsFiniteSet(T)
  <2> HIDE DEF T, S
  <2>1. IsFiniteSet(S)
    BY DEF S
  <2> QED BY <1>1, <2>1, FS_Surjection
<1> QED BY <1>2 DEF ToSet
-----------------------------------------------------------------------------
(* The vectors of a window.                                                *)

\* A list of events or a part of one.
Listed(events) == DOMAIN events \in SUBSET Nat /\ IsFiniteSet(DOMAIN events)

\* What the engine makes of a set of events.
EventsIn(A, start) == {e \in A : InWindow(e, start)}
OwnOf(schema, A, start, n) == {e \in EventsIn(A, start) : EntityOf(schema, e) = n}
EntitiesOf(schema, A, start) == {EntityOf(schema, e) : e \in EventsIn(A, start)} \ {Missing}
RefusedSet(schema, A, start) ==
  \/ \E e \in A : e.dataset = "raw"
  \/ \E e, f \in EventsIn(A, start) : e.id = f.id /\ e # f
  \/ schema = NETWORK /\ \E e \in EventsIn(A, start) : e.src = "invalid"
FeaturesOf(schema, E, rare, baseline) ==
  IF schema = NETWORK THEN _network_features(E) ELSE _endpoint_features(E, rare, baseline)
VectorFor(schema, A, start, n, rare, baseline) ==
  VectorOf(schema, n, start, OwnOf(schema, A, start, n),
           FeaturesOf(schema, OwnOf(schema, A, start, n), rare, baseline))
VectorSet(schema, A, start, rare, baseline) ==
  {VectorFor(schema, A, start, n, rare, baseline) : n \in EntitiesOf(schema, A, start)}

\* Where no two events contradict each other, all events of the window are
\* selected.
LEMMA SelectedIs ==
  ASSUME NEW events, Listed(events), NEW start, ~Conflicting(events, start)
  PROVE  _validate_and_select(events, start) = EventsIn(ToSet(events), start)
<1> DEFINE P == Places(events, start)
<1>0. P \subseteq DOMAIN events /\ \A i \in DOMAIN events : i \in P <=> InWindow(events[i], start)
  BY DEF Places
<1>1. P \in SUBSET Nat /\ IsFiniteSet(P)
  <2>1. DOMAIN events \in SUBSET Nat /\ IsFiniteSet(DOMAIN events)
    BY DEF Listed
  <2> HIDE DEF P
  <2> QED BY <1>0, <2>1, FS_Subset
<1>2. \A i, j \in P : events[i].id = events[j].id => events[i] = events[j]
  BY DEF Conflicting
<1>3. _validate_and_select(events, start) =
        {events[i] : i \in {i \in P : \A j \in P : events[j].id = events[i].id => j <= i}}
  BY DEF _validate_and_select
<1>4. EventsIn(ToSet(events), start) = {events[i] : i \in P}
  BY <1>0 DEF EventsIn, ToSet
<1> HIDE DEF P
<1>5. ASSUME NEW i \in P
      PROVE  \E m \in P : /\ events[m] = events[i]
                          /\ \A j \in P : events[j].id = events[m].id => j <= m
  <2> DEFINE S == {j \in P : events[j].id = events[i].id}
             m == Max(S)
  <2>1. S \in SUBSET Nat /\ S # {}
    BY <1>1, <1>5
  <2>2. IsFiniteSet(S)
    BY <1>1, FS_Subset
  <2>3. m \in S /\ \A y \in S : y <= m
    <3> HIDE DEF S
    <3> QED BY <2>1, <2>2, MaxOfNats
  <2>4. m \in P /\ events[m].id = events[i].id
    BY <2>3
  <2> HIDE DEF m
  <2>5. events[m] = events[i]
    BY <1>2, <2>4
  <2> QED BY <2>3, <2>4, <2>5
<1> QED BY <1>3, <1>4, <1>5

\* The vectors of a window are a function of the set of its events.
LEMMA VectorsAre ==
  ASSUME NEW events, Listed(events), NEW schema, NEW start, NEW rare, NEW baseline
  PROVE  Vectors(schema, events, start, rare, baseline) =
           IF RefusedSet(schema, ToSet(events), start) THEN {}
           ELSE {VectorSet(schema, ToSet(events), start, rare, baseline)}
<1> DEFINE A == ToSet(events)
<1>1. Conflicting(events, start) <=> \E e, f \in EventsIn(A, start) : e.id = f.id /\ e # f
  BY DEF Conflicting, Places, EventsIn, ToSet
<1>2. (\E i \in DOMAIN events : events[i].dataset = "raw") <=> \E e \in A : e.dataset = "raw"
  BY DEF ToSet
<1>3. CASE Conflicting(events, start)
  BY <1>1, <1>3 DEF Vectors, Refused, Raw, RefusedSet
<1>4. CASE ~Conflicting(events, start)
  <2> DEFINE S == _validate_and_select(events, start)
  <2>1. S = EventsIn(A, start)
    BY <1>4, SelectedIs
  <2>2. Refused(schema, events, start) <=> RefusedSet(schema, A, start)
    <3>1. Refused(schema, events, start) <=>
            \/ \E i \in DOMAIN events : events[i].dataset = "raw"
            \/ Conflicting(events, start)
            \/ schema = NETWORK /\ \E e \in S : e.src = "invalid"
      BY DEF Refused, Raw
    <3> HIDE DEF S, A
    <3> QED BY <1>1, <1>2, <2>1, <3>1, Zenon DEF RefusedSet
  <2>3. CASE Refused(schema, events, start)
    BY <2>2, <2>3 DEF Vectors
  <2>4. CASE ~Refused(schema, events, start)
    <3> DEFINE own(n) == {e \in S : EntityOf(schema, e) = n}
               features(n) == IF schema = NETWORK THEN _network_features(own(n))
                              ELSE _endpoint_features(own(n), rare, baseline)
               entities == {EntityOf(schema, e) : e \in S} \ {Missing}
    <3>1. Vectors(schema, events, start, rare, baseline) =
            {{VectorOf(schema, n, start, own(n), features(n)) : n \in entities}}
      BY <2>4, Zenon DEF Vectors
    <3>2. entities = EntitiesOf(schema, A, start)
      BY <2>1, Zenon DEF EntitiesOf
    <3>3. \A n : own(n) = OwnOf(schema, A, start, n)
      BY <2>1, Zenon DEF OwnOf
    <3>4. \A n : features(n) = FeaturesOf(schema, own(n), rare, baseline)
      BY Zenon DEF FeaturesOf
    <3> HIDE DEF own, features, entities, S
    <3>5. \A n : VectorOf(schema, n, start, own(n), features(n)) = VectorFor(schema, A, start, n, rare, baseline)
      BY <3>3, <3>4, Zenon DEF VectorFor
    <3> HIDE DEF A
    <3>6. {VectorOf(schema, n, start, own(n), features(n)) : n \in entities} =
            VectorSet(schema, A, start, rare, baseline)
      BY <3>2, <3>5 DEF VectorSet
    <3>7. Vectors(schema, events, start, rare, baseline) = {VectorSet(schema, A, start, rare, baseline)}
      BY <3>1, <3>6, Zenon
    <3>8. ~RefusedSet(schema, A, start)
      BY <2>2, <2>4
    <3> QED BY <3>7, <3>8, Zenon DEF A
  <2> QED BY <2>3, <2>4
<1> QED BY <1>3, <1>4

LEMMA ListIsListed ==
  ASSUME NEW events, EventInputs(events)
  PROVE  /\ Listed(events) /\ Len(events) \in Nat /\ DOMAIN events = 1..Len(events)
         /\ IsFiniteSet(ToSet(events))
         /\ \A e \in ToSet(events) : e.at \in Int /\ e.sent \in Int /\ e.received \in Int
<1>1. /\ events \in Seq({events[i] : i \in DOMAIN events})
      /\ \A i \in DOMAIN events : events[i].at \in Int /\ events[i].sent \in Int /\ events[i].received \in Int
  BY Zenon DEF EventInputs
<1>2. Len(events) \in Nat /\ DOMAIN events = 1..Len(events)
  BY <1>1
<1>3. IsFiniteSet(DOMAIN events)
  BY <1>2, FS_Interval
<1>4. DOMAIN events \in SUBSET Nat
  BY <1>2
<1>5. \A e \in ToSet(events) : e.at \in Int /\ e.sent \in Int /\ e.received \in Int
  BY <1>1, Zenon DEF ToSet
<1>6. IsFiniteSet(ToSet(events))
  BY <1>3, RangeFinite
<1> QED BY <1>2, <1>3, <1>4, <1>5, <1>6 DEF Listed

\* Reading the list from its end or twice.
LEMMA SameEvents ==
  ASSUME NEW S, NEW s \in Seq(S)
  PROVE  /\ DOMAIN Reverse(s) = 1..Len(s) /\ ToSet(Reverse(s)) = ToSet(s)
         /\ DOMAIN (s \o s) = 1..(Len(s) + Len(s)) /\ ToSet(s \o s) = ToSet(s)
<1> DEFINE t == Reverse(s)
           d == s \o s
           n == Len(s)
<1>1. n \in Nat /\ DOMAIN s = 1..n
  OBVIOUS
<1>2. t = [i \in 1..n |-> s[(n - i) + 1]]
  BY DEF Reverse
<1>3. DOMAIN t = 1..n
  BY <1>2
<1>4. \A i \in 1..n : (n - i) + 1 \in 1..n /\ t[i] = s[(n - i) + 1] /\ t[(n - i) + 1] = s[i]
  BY <1>1, <1>2
<1>5. ToSet(t) = ToSet(s)
  <2> HIDE DEF t, n
  <2> QED BY <1>1, <1>3, <1>4 DEF ToSet
<1>6. DOMAIN d = 1..(n + n) /\ \A i \in 1..n : d[i] = s[i]
  BY <1>1
<1>7. \A i \in 1..(n + n) : \E j \in 1..n : d[i] = s[j]
  <2> TAKE i \in 1..(n + n)
  <2>1. CASE i <= n
    <3>1. i \in 1..n /\ d[i] = s[i]
      BY <1>1, <2>1
    <3> QED BY <3>1
  <2>2. CASE ~(i <= n)
    <3>1. i - n \in 1..n /\ d[i] = s[i - n]
      BY <1>1, <2>2
    <3> QED BY <3>1
  <2> QED BY <2>1, <2>2
<1>8. ToSet(d) = ToSet(s)
  <2>1. \A i \in 1..n : i \in 1..(n + n)
    BY <1>1
  <2> HIDE DEF d, n
  <2> QED BY <1>1, <1>6, <1>7, <2>1 DEF ToSet
<1> QED BY <1>3, <1>5, <1>6, <1>8

LEMMA OrderIgnored ==
  ASSUME NEW events, EventInputs(events), NEW schema, NEW start, NEW rare, NEW baseline
  PROVE  /\ Vectors(schema, Reverse(events), start, rare, baseline)
              = Vectors(schema, events, start, rare, baseline)
         /\ Vectors(schema, events \o events, start, rare, baseline)
              = Vectors(schema, events, start, rare, baseline)
<1>1. Listed(events) /\ Len(events) \in Nat
  BY ListIsListed
<1>2. /\ DOMAIN Reverse(events) = 1..Len(events) /\ ToSet(Reverse(events)) = ToSet(events)
      /\ DOMAIN (events \o events) = 1..(Len(events) + Len(events))
      /\ ToSet(events \o events) = ToSet(events)
  BY SameEvents DEF EventInputs
<1>3. Listed(Reverse(events))
  BY <1>1, <1>2, FS_Interval DEF Listed
<1>4. Listed(events \o events)
  BY <1>1, <1>2, FS_Interval DEF Listed
<1> DEFINE of(A) == IF RefusedSet(schema, A, start) THEN {} ELSE {VectorSet(schema, A, start, rare, baseline)}
<1>5. Vectors(schema, events, start, rare, baseline) = of(ToSet(events))
  BY <1>1, VectorsAre
<1>6. Vectors(schema, Reverse(events), start, rare, baseline) = of(ToSet(Reverse(events)))
  BY <1>3, VectorsAre
<1>7. Vectors(schema, events \o events, start, rare, baseline) = of(ToSet(events \o events))
  BY <1>4, VectorsAre
<1> HIDE DEF of
<1> QED BY <1>2, <1>5, <1>6, <1>7, Zenon

\* What is counted.
LEMMA SomeOf ==
  ASSUME NEW S, IsFiniteSet(S), NEW T, T \subseteq S
  PROVE  Cardinality(T) \in Nat /\ Cardinality(T) <= Cardinality(S) /\ Cardinality(S) \in Nat
<1>1. IsFiniteSet(T) /\ Cardinality(T) <= Cardinality(S)
  BY FS_Subset
<1> QED BY <1>1, FS_CardinalityType

LEMMA DistinctOf ==
  ASSUME NEW f, IsFiniteSet(DOMAIN f)
  PROVE  Cardinality(ToSet(f) \ {Missing}) \in Nat
<1>1. IsFiniteSet(ToSet(f))
  BY RangeFinite
<1> QED BY <1>1, SomeOf

LEMMA TotalOf ==
  ASSUME NEW f, IsFiniteSet(DOMAIN f), \A e \in DOMAIN f : f[e] \in Nat
  PROVE  Cardinality(UNION {{<<e, n>> : n \in 1 .. f[e]} : e \in DOMAIN f}) \in Nat
<1> DEFINE units(e) == {<<e, n>> : n \in 1 .. f[e]}
           g == [e \in DOMAIN f |-> units(e)]
<1>1. ASSUME NEW e \in DOMAIN f
      PROVE  IsFiniteSet(units(e))
  <2>1. IsFiniteSet(1 .. f[e])
    BY FS_Interval
  <2>2. IsFiniteSet({e})
    BY FS_Singleton
  <2>3. IsFiniteSet({e} \X (1 .. f[e]))
    BY <2>1, <2>2, FS_Product
  <2>4. units(e) \subseteq {e} \X (1 .. f[e])
    OBVIOUS
  <2> QED BY <2>3, <2>4, FS_Subset
<1> HIDE DEF units
<1>2. DOMAIN g = DOMAIN f /\ ToSet(g) = {units(e) : e \in DOMAIN f}
  BY DEF ToSet
<1> HIDE DEF g
<1>3. IsFiniteSet(ToSet(g))
  BY <1>2, RangeFinite
<1>4. \A T \in ToSet(g) : IsFiniteSet(T)
  BY <1>1, <1>2
<1>5. IsFiniteSet(UNION ToSet(g))
  BY <1>3, <1>4, FS_UNION
<1>6. Cardinality(UNION {units(e) : e \in DOMAIN f}) \in Nat
  BY <1>2, <1>5, FS_CardinalityType
<1> QED BY <1>6 DEF units

\* The features of a window meet their contract.
LEMMA NetworkValid ==
  ASSUME NEW E, IsFiniteSet(E), \A e \in E : e.sent \in Int /\ e.received \in Int
  PROVE  require_exact_features(NETWORK, _network_features(E))
<1> DEFINE C == {e \in E : Connection(e)}
           n == Cardinality(C)
           queries == {e \in E : Suricata(e, "dns") /\ e.query}
           blocked == {e \in C : e.blocked}
           F == _network_features(E)
<1>1. IsFiniteSet(C) /\ IsFiniteSet(queries)
  BY FS_Subset
<1>2. \A e \in C : e.sent \in Int /\ e.received \in Int
  OBVIOUS
<1>3. n \in Nat /\ Cardinality(queries) \in Nat
  BY <1>1, FS_CardinalityType
<1>4. Cardinality(blocked) \in Nat /\ Cardinality(blocked) <= n
  BY <1>1, SomeOf
<1> HIDE DEF C, queries
<1>5. /\ Distinct(C, LAMBDA e : e.dst) \in Nat
      /\ Distinct(C, LAMBDA e : e.port) \in Nat
      /\ Distinct(queries, LAMBDA e : e.domain) \in Nat
  <2>1. ASSUME NEW S, IsFiniteSet(S), NEW k
        PROVE  Cardinality({e[k] : e \in S} \ {Missing}) \in Nat
    <3> DEFINE f == [e \in S |-> e[k]]
    <3>1. DOMAIN f = S /\ ToSet(f) = {e[k] : e \in S}
      BY DEF ToSet
    <3> HIDE DEF f
    <3> QED BY <2>1, <3>1, DistinctOf
  <2> QED BY <1>1, <2>1 DEF Distinct
<1>6. /\ Total(C, BytesOut) \in Nat
      /\ Total(C, BytesIn) \in Nat
  <2> DEFINE f == [e \in C |-> BytesOut(e)]
             g == [e \in C |-> BytesIn(e)]
  <2>1. DOMAIN f = C /\ \A e \in C : f[e] = BytesOut(e) /\ f[e] \in Nat
    BY <1>2 DEF BytesOut, NonNegative
  <2>2. DOMAIN g = C /\ \A e \in C : g[e] = BytesIn(e) /\ g[e] \in Nat
    BY <1>2 DEF BytesIn, NonNegative
  <2> HIDE DEF f, g
  <2>3. Cardinality(UNION {{<<e, k>> : k \in 1 .. f[e]} : e \in C}) \in Nat
    BY <1>1, <2>1, TotalOf
  <2>4. Cardinality(UNION {{<<e, k>> : k \in 1 .. g[e]} : e \in C}) \in Nat
    BY <1>1, <2>2, TotalOf
  <2>5. UNION {{<<e, k>> : k \in 1 .. f[e]} : e \in C} = UNION {{<<e, k>> : k \in 1 .. BytesOut(e)} : e \in C}
    BY <2>1
  <2>6. UNION {{<<e, k>> : k \in 1 .. g[e]} : e \in C} = UNION {{<<e, k>> : k \in 1 .. BytesIn(e)} : e \in C}
    BY <2>2
  <2> QED BY <2>3, <2>4, <2>5, <2>6 DEF Total
<1>7. /\ Count(E, LAMBDA e : Suricata(e, "tls")) \in Nat
      /\ Count(E, LAMBDA e : Suricata(e, "alert") \/ (e.dataset = "suricata.eve" /\ e.alert)) \in Nat
      /\ Count(E, FailedAuth) \in Nat
  <2>1. \A T \in SUBSET E : Cardinality(T) \in Nat
    BY SomeOf
  <2>2. /\ {e \in E : Suricata(e, "tls")} \in SUBSET E
        /\ {e \in E : Suricata(e, "alert") \/ (e.dataset = "suricata.eve" /\ e.alert)} \in SUBSET E
        /\ {e \in E : FailedAuth(e)} \in SUBSET E
    OBVIOUS
  <2> QED BY <2>1, <2>2, Zenon DEF Count
<1>8. F = [connection_count |-> n,
           unique_dst_ip |-> Distinct(C, LAMBDA e : e.dst),
           unique_dst_port |-> Distinct(C, LAMBDA e : e.port),
           bytes_out |-> Total(C, BytesOut),
           bytes_in |-> Total(C, BytesIn),
           blocked_ratio |-> IF n = 0 THEN <<0, 1>> ELSE <<Count(C, LAMBDA e : e.blocked), n>>,
           dns_query_count |-> Cardinality(queries),
           unique_domain_count |-> Distinct(queries, LAMBDA e : e.domain),
           tls_count |-> Count(E, LAMBDA e : Suricata(e, "tls")),
           suricata_alert_count |->
             Count(E, LAMBDA e : Suricata(e, "alert") \/ (e.dataset = "suricata.eve" /\ e.alert)),
           failed_auth_count |-> Count(E, FailedAuth)]
  BY DEF _network_features, C, queries
<1>9. DOMAIN F = NETWORK_FEATURES
  BY <1>8 DEF NETWORK_FEATURES
<1>10. InUnit(F.blocked_ratio)
  <2>1. Count(C, LAMBDA e : e.blocked) = Cardinality(blocked)
    BY DEF Count
  <2>2. F.blocked_ratio = IF n = 0 THEN <<0, 1>> ELSE <<Cardinality(blocked), n>>
    <3>1. F.blocked_ratio = IF n = 0 THEN <<0, 1>> ELSE <<Count(C, LAMBDA e : e.blocked), n>>
      BY <1>8
    <3> HIDE DEF F, n
    <3> QED BY <2>1, <3>1, Zenon
  <2> HIDE DEF n, blocked, F
  <2>3. CASE n = 0
    BY <2>2, <2>3 DEF InUnit
  <2>4. CASE n # 0
    BY <1>3, <1>4, <2>2, <2>4 DEF InUnit
  <2> QED BY <2>3, <2>4
<1>11. \A k \in NETWORK_FEATURES \ {"blocked_ratio"} : F[k] \in Nat
  BY <1>3, <1>5, <1>6, <1>7, <1>8 DEF NETWORK_FEATURES
<1> HIDE DEF F
<1>12. ASSUME NEW k \in DOMAIN F
       PROVE  IF k = "blocked_ratio" THEN InUnit(F[k]) ELSE F[k] >= 0
  <2>1. CASE k = "blocked_ratio"
    BY <1>10, <2>1
  <2>2. CASE k # "blocked_ratio"
    BY <1>9, <1>11, <2>2
  <2> QED BY <2>1, <2>2
<1>13. expected_feature_names(NETWORK) = NETWORK_FEATURES
  BY DEF expected_feature_names
<1> QED BY <1>9, <1>12, <1>13, Zenon DEF require_exact_features, F

LEMMA EndpointValid ==
  ASSUME NEW E, IsFiniteSet(E), NEW rare, NEW baseline
  PROVE  require_exact_features(ENDPOINT, _endpoint_features(E, rare, baseline))
<1> DEFINE P == {e \in E : "process" \in e.categories}
           F == _endpoint_features(E, rare, baseline)
<1>1. \A T \in SUBSET E : Cardinality(T) \in Nat
  BY SomeOf
<1>2. P \in SUBSET E
  OBVIOUS
<1> HIDE DEF P
<1>3. /\ Cardinality(P) \in Nat
      /\ Count(P, LAMBDA e : Rare(e.process, rare, baseline)) \in Nat
      /\ Count(P, LAMBDA e : "powershell" \in e.text) \in Nat
  <2>1. /\ {e \in P : Rare(e.process, rare, baseline)} \in SUBSET E
        /\ {e \in P : "powershell" \in e.text} \in SUBSET E
    BY <1>2
  <2> QED BY <1>1, <1>2, <2>1, Zenon DEF Count
<1>4. /\ Count(E, FailedAuth) \in Nat
      /\ Count(E, LAMBDA e : "file" \in e.categories) \in Nat
      /\ Count(E, LAMBDA e : "account" \in e.text) \in Nat
      /\ Count(E, LAMBDA e : "privilege" \in e.text) \in Nat
  <2>1. /\ {e \in E : FailedAuth(e)} \in SUBSET E /\ {e \in E : "file" \in e.categories} \in SUBSET E
        /\ {e \in E : "account" \in e.text} \in SUBSET E /\ {e \in E : "privilege" \in e.text} \in SUBSET E
    OBVIOUS
  <2> QED BY <1>1, <2>1, Zenon DEF Count
<1>5. F = [process_count |-> Cardinality(P),
           rare_process_count |-> Count(P, LAMBDA e : Rare(e.process, rare, baseline)),
           powershell_count |-> Count(P, LAMBDA e : "powershell" \in e.text),
           failed_login_count |-> Count(E, FailedAuth),
           fim_change_count |-> Count(E, LAMBDA e : "file" \in e.categories),
           account_change_count |-> Count(E, LAMBDA e : "account" \in e.text),
           privilege_change_count |-> Count(E, LAMBDA e : "privilege" \in e.text)]
  BY DEF _endpoint_features, P
<1>6. DOMAIN F = ENDPOINT_FEATURES
  BY <1>5 DEF ENDPOINT_FEATURES
<1>7. \A k \in ENDPOINT_FEATURES : F[k] \in Nat /\ k # "blocked_ratio"
  BY <1>3, <1>4, <1>5 DEF ENDPOINT_FEATURES
<1> HIDE DEF F
<1>8. \A k \in DOMAIN F : IF k = "blocked_ratio" THEN InUnit(F[k]) ELSE F[k] >= 0
  BY <1>6, <1>7
<1>9. expected_feature_names(ENDPOINT) = ENDPOINT_FEATURES
  BY DEF expected_feature_names, ENDPOINT, NETWORK
<1> QED BY <1>6, <1>8, <1>9, Zenon DEF require_exact_features, F

\* The fields of a vector.
IsVectorOf(v, schema, A, start, n, rare, baseline) ==
  /\ v.id = <<schema, n, start, {e.id : e \in OwnOf(schema, A, start, n)}>>
  /\ v.schema = schema /\ v.entity = n
  /\ v.window_start = start /\ v.window_end = start + WINDOW
  /\ v.count = Cardinality(OwnOf(schema, A, start, n))
  /\ v.features = FeaturesOf(schema, OwnOf(schema, A, start, n), rare, baseline)

LEMMA VectorFields ==
  ASSUME NEW schema, NEW A, NEW start, NEW n, NEW rare, NEW baseline
  PROVE  IsVectorOf(VectorFor(schema, A, start, n, rare, baseline), schema, A, start, n, rare, baseline)
<1> DEFINE E == OwnOf(schema, A, start, n)
           F == FeaturesOf(schema, E, rare, baseline)
           I == {e.id : e \in E}
           v == VectorFor(schema, A, start, n, rare, baseline)
<1>1. v = [id |-> <<schema, n, start, I>>, schema |-> schema, entity |-> n,
           window_start |-> start, window_end |-> start + WINDOW,
           count |-> Cardinality(E), features |-> F]
  BY DEF VectorFor, VectorOf
<1> HIDE DEF E, F, I, v
<1>2. /\ v.id = <<schema, n, start, I>> /\ v.schema = schema /\ v.entity = n
      /\ v.window_start = start /\ v.window_end = start + WINDOW
      /\ v.count = Cardinality(E) /\ v.features = F
  BY <1>1
<1> QED BY <1>2, Zenon DEF IsVectorOf, E, F, I, v

\* Every vector is valid.
LEMMA VectorValid ==
  ASSUME NEW schema \in Schemas, NEW A, IsFiniteSet(A), NEW start \in Int, NEW n, NEW rare, NEW baseline,
         \A e \in A : e.sent \in Int /\ e.received \in Int
  PROVE  validate_vector(VectorFor(schema, A, start, n, rare, baseline))
<1> DEFINE E == OwnOf(schema, A, start, n)
           v == VectorFor(schema, A, start, n, rare, baseline)
<1>1. E \subseteq A
  BY DEF OwnOf, EventsIn
<1> HIDE DEF E
<1>2. IsFiniteSet(E) /\ \A e \in E : e.sent \in Int /\ e.received \in Int
  BY <1>1, FS_Subset
<1>3. require_exact_features(schema, FeaturesOf(schema, E, rare, baseline))
  <2>1. CASE schema = NETWORK
    BY <1>2, <2>1, NetworkValid DEF FeaturesOf
  <2>2. CASE schema # NETWORK
    <3>1. schema = ENDPOINT
      BY <2>2 DEF Schemas
    <3> QED BY <1>2, <2>2, <3>1, EndpointValid DEF FeaturesOf
  <2> QED BY <2>1, <2>2
<1>4. /\ v.schema = schema /\ v.features = FeaturesOf(schema, E, rare, baseline)
      /\ v.window_start = start /\ v.window_end = start + WINDOW
  <2>1. IsVectorOf(v, schema, A, start, n, rare, baseline)
    BY VectorFields
  <2> HIDE DEF v
  <2> QED BY <2>1, Zenon DEF IsVectorOf, E
<1> HIDE DEF v
<1>5. v.window_end - v.window_start = WINDOW
  BY <1>4 DEF WINDOW
<1>6. require_exact_features(v.schema, v.features)
  BY <1>3, <1>4, Zenon
<1> QED BY <1>5, <1>6, Zenon DEF validate_vector, v

\* Without the records that describe a flow again an entity has the same
\* connections.
LEMMA SameConnections ==
  ASSUME NEW E, NEW D, D = {e \in E : ~Again(e)}
  PROVE  \A k \in ConnectionFeatures : _network_features(E)[k] = _network_features(D)[k]
<1> DEFINE C(X) == {e \in X : Connection(e)}
           n(X) == Cardinality(C(X))
           F(X) == _network_features(X)
<1>1. C(D) = C(E)
  BY DEF Again, Connection, Suricata
<1>2. ASSUME NEW X
      PROVE  /\ F(X).connection_count = n(X)
             /\ F(X).unique_dst_ip = Distinct(C(X), LAMBDA e : e.dst)
             /\ F(X).unique_dst_port = Distinct(C(X), LAMBDA e : e.port)
             /\ F(X).bytes_out = Total(C(X), BytesOut)
             /\ F(X).bytes_in = Total(C(X), BytesIn)
             /\ F(X).blocked_ratio = IF n(X) = 0 THEN <<0, 1>> ELSE <<Count(C(X), LAMBDA e : e.blocked), n(X)>>
  BY DEF _network_features
<1> HIDE DEF C, F
<1>3. /\ F(E).connection_count = F(D).connection_count
      /\ F(E).unique_dst_ip = F(D).unique_dst_ip
      /\ F(E).unique_dst_port = F(D).unique_dst_port
      /\ F(E).bytes_out = F(D).bytes_out
      /\ F(E).bytes_in = F(D).bytes_in
      /\ F(E).blocked_ratio = F(D).blocked_ratio
  BY <1>1, <1>2, Zenon
<1>4. \A k \in ConnectionFeatures : F(E)[k] = F(D)[k]
  BY <1>3 DEF ConnectionFeatures
<1> QED BY <1>4 DEF F

LEMMA CountedOnce ==
  ASSUME NEW events, EventInputs(events), NEW start,
         NEW V \in Vectors(NETWORK, events, start, {}, {}),
         NEW W \in Vectors(NETWORK, Restrict(events, {i \in DOMAIN events : ~Again(events[i])}), start, {}, {}),
         NEW v \in V
  PROVE  \/ \E w \in W : /\ w.entity = v.entity
                         /\ \A k \in ConnectionFeatures : v.features[k] = w.features[k]
         \/ v.features.connection_count = 0 /\ \A w \in W : w.entity # v.entity
<1> DEFINE D == {i \in DOMAIN events : ~Again(events[i])}
           plain == Restrict(events, D)
           A == ToSet(events)
           B == ToSet(plain)
           of(X, n) == VectorFor(NETWORK, X, start, n, {}, {})
           own(X, n) == OwnOf(NETWORK, X, start, n)
<1>1. Listed(events)
  BY ListIsListed
<1>2. DOMAIN plain = D /\ \A i \in D : plain[i] = events[i]
  BY DEF Restrict
<1>3. Listed(plain)
  BY <1>1, <1>2, FS_Subset DEF Listed
<1>4. B = {e \in A : ~Again(e)}
  BY <1>2 DEF ToSet
<1>5. V = VectorSet(NETWORK, A, start, {}, {})
  BY <1>1, VectorsAre
<1>6. W = VectorSet(NETWORK, B, start, {}, {})
  BY <1>3, VectorsAre
<1> HIDE DEF plain, A, B
<1>7. PICK n \in EntitiesOf(NETWORK, A, start) : v = of(A, n)
  BY <1>5 DEF VectorSet
<1>8. \A X, m : /\ of(X, m).entity = m
                /\ of(X, m).features = _network_features(own(X, m))
  <2> TAKE X, m
  <2>1. IsVectorOf(of(X, m), NETWORK, X, start, m, {}, {})
    BY VectorFields
  <2> HIDE DEF of
  <2> QED BY <2>1, Zenon DEF IsVectorOf, FeaturesOf
<1>9. own(B, n) = {e \in own(A, n) : ~Again(e)}
  BY <1>4 DEF OwnOf, EventsIn
<1>10. n # Missing /\ own(A, n) # {}
  BY <1>7 DEF EntitiesOf, OwnOf
<1>11. CASE n \in EntitiesOf(NETWORK, B, start)
  <2>1. of(B, n) \in W
    BY <1>6, <1>11 DEF VectorSet
  <2>2. \A k \in ConnectionFeatures : _network_features(own(A, n))[k] = _network_features(own(B, n))[k]
    BY <1>9, SameConnections
  <2> HIDE DEF of, own
  <2>3. of(B, n).entity = v.entity /\ \A k \in ConnectionFeatures : v.features[k] = of(B, n).features[k]
    BY <1>7, <1>8, <2>2
  <2> QED BY <2>1, <2>3
<1>12. CASE n \notin EntitiesOf(NETWORK, B, start)
  <2>1. own(B, n) = {}
    BY <1>10, <1>12 DEF EntitiesOf, OwnOf
  <2>2. \A w \in W : w.entity # n
    <3>1. \A w \in W : \E m \in EntitiesOf(NETWORK, B, start) : w = of(B, m)
      BY <1>6 DEF VectorSet
    <3> HIDE DEF of, own
    <3> QED BY <1>8, <1>12, <3>1
  <2>3. _network_features(own(A, n)).connection_count = 0
    <3>1. {e \in own(A, n) : Connection(e)} = {}
      <4> HIDE DEF own
      <4> QED BY <1>9, <2>1 DEF Again, Connection, Suricata
    <3>2. _network_features(own(A, n)).connection_count = Cardinality({e \in own(A, n) : Connection(e)})
      <4> HIDE DEF own
      <4> QED BY DEF _network_features
    <3> QED BY <3>1, <3>2, FS_EmptySet
  <2> HIDE DEF of, own
  <2> QED BY <1>7, <1>8, <2>2, <2>3
<1> QED BY <1>11, <1>12

\* The vectors of two windows that follow each other.
LEMMA WindowsApart ==
  ASSUME NEW schema \in Schemas, NEW events, EventInputs(events),
         NEW V \in Vectors(schema, events, 0, {}, {}), NEW W \in Vectors(schema, events, WINDOW, {}, {})
  PROVE  /\ \A v \in V \cup W : validate_vector(v)
         /\ \A entity \in {EntityOf(schema, e) : e \in ToSet(events)} \ {Missing} :
              Counted(V, entity) + Counted(W, entity)
                = Cardinality({e \in ToSet(events) :
                                 EntityOf(schema, e) = entity /\ e.at \in 0 .. 2 * WINDOW - 1})
<1> DEFINE A == ToSet(events)
<1>1. /\ Listed(events) /\ IsFiniteSet(A)
      /\ \A e \in A : e.at \in Int /\ e.sent \in Int /\ e.received \in Int
  BY ListIsListed
<1>2. V = VectorSet(schema, A, 0, {}, {}) /\ W = VectorSet(schema, A, WINDOW, {}, {})
  <2>1. ASSUME NEW t, NEW X \in Vectors(schema, events, t, {}, {})
        PROVE  X = VectorSet(schema, A, t, {}, {})
    BY <1>1, <2>1, VectorsAre
  <2> QED BY <2>1
<1> HIDE DEF A
<1>3. ASSUME NEW t \in Int, NEW v \in VectorSet(schema, A, t, {}, {})
      PROVE  validate_vector(v)
  <2>1. PICK n : v = VectorFor(schema, A, t, n, {}, {})
    BY <1>3 DEF VectorSet
  <2> QED BY <1>1, <2>1, VectorValid
<1>4. ASSUME NEW t \in Int, NEW n, n # Missing
      PROVE  Counted(VectorSet(schema, A, t, {}, {}), n) = Cardinality(OwnOf(schema, A, t, n))
  <2> DEFINE X == VectorSet(schema, A, t, {}, {})
             of(m) == VectorFor(schema, A, t, m, {}, {})
  <2>1. X = {of(m) : m \in EntitiesOf(schema, A, t)}
    BY DEF VectorSet
  <2>2. \A m : of(m).entity = m /\ of(m).count = Cardinality(OwnOf(schema, A, t, m))
    <3> TAKE m
    <3>1. IsVectorOf(of(m), schema, A, t, m, {}, {})
      BY VectorFields
    <3> HIDE DEF of
    <3> QED BY <3>1, Zenon DEF IsVectorOf
  <2> HIDE DEF X, of
  <2>3. CASE n \in EntitiesOf(schema, A, t)
    <3> DEFINE v == CHOOSE v \in X : v.entity = n
    <3>1. of(n) \in X /\ of(n).entity = n
      BY <2>1, <2>2, <2>3
    <3>2. v \in X /\ v.entity = n
      BY <3>1, Zenon
    <3>3. Counted(X, n) = v.count
      BY <3>1, Zenon DEF Counted
    <3> HIDE DEF v
    <3>4. v = of(n)
      BY <2>1, <2>2, <3>2
    <3> QED BY <2>2, <3>3, <3>4 DEF X
  <2>4. CASE n \notin EntitiesOf(schema, A, t)
    <3>1. OwnOf(schema, A, t, n) = {}
      BY <1>4, <2>4 DEF EntitiesOf, OwnOf
    <3>2. ~\E v \in X : v.entity = n
      BY <2>1, <2>2, <2>4
    <3>3. Counted(X, n) = 0
      BY <3>2, Zenon DEF Counted
    <3> QED BY <3>1, <3>3, FS_EmptySet DEF X
  <2> QED BY <2>3, <2>4
<1>5. \A v \in V \cup W : validate_vector(v)
  BY <1>2, <1>3 DEF WINDOW
<1>6. ASSUME NEW n, n # Missing
      PROVE  Counted(V, n) + Counted(W, n)
               = Cardinality({e \in A : EntityOf(schema, e) = n /\ e.at \in 0 .. 2 * WINDOW - 1})
  <2> DEFINE S == OwnOf(schema, A, 0, n)
             T == OwnOf(schema, A, WINDOW, n)
             U == {e \in A : EntityOf(schema, e) = n /\ e.at \in 0 .. 2 * WINDOW - 1}
  <2>1. S \cup T = U /\ S \cap T = {}
    BY <1>1 DEF OwnOf, EventsIn, InWindow, WINDOW
  <2>2. S \subseteq A /\ T \subseteq A
    BY DEF OwnOf, EventsIn
  <2>3. Counted(V, n) = Cardinality(S) /\ Counted(W, n) = Cardinality(T)
    BY <1>2, <1>4, <1>6 DEF WINDOW
  <2> HIDE DEF S, T, U
  <2>4. IsFiniteSet(S) /\ IsFiniteSet(T)
    BY <1>1, <2>2, FS_Subset
  <2>5. Cardinality(S) \in Nat /\ Cardinality(T) \in Nat
    BY <2>4, FS_CardinalityType
  <2>6. Cardinality(U) = Cardinality(S) + Cardinality(T) - Cardinality({})
    BY <2>1, <2>4, FS_Union
  <2>7. Cardinality({}) = 0
    BY FS_EmptySet
  <2> QED BY <2>3, <2>5, <2>6, <2>7 DEF U
<1> QED BY <1>5, <1>6 DEF A

CountedOnceIn(events) ==
  \A start \in Starts :
    \A V \in Vectors(NETWORK, events, start, {}, {}),
       W \in Vectors(NETWORK, Restrict(events, {i \in DOMAIN events : ~Again(events[i])}), start, {}, {}) :
      \A v \in V :
        \/ \E w \in W : /\ w.entity = v.entity
                        /\ \A n \in ConnectionFeatures : v.features[n] = w.features[n]
        \/ v.features.connection_count = 0 /\ \A w \in W : w.entity # v.entity

\* For every list of events: the vectors of a window are a function of the set
\* of its events, count a flow once however many records describe it, meet
\* their contract, and share no event with the vectors of the next window.
THEOREM VectorsHold == AlgorithmsSpec => []VectorsFaithful
<1>0. CaptureInputs
  BY InputAssumption
<1>1. Inputs => VectorsFaithful
  <2>1. SUFFICES ASSUME NEW events, EventInputs(events), input.of = "capture", input.value = events
                 PROVE  VectorsFaithful
    <3>1. ASSUME input.of = "capture", Inputs
          PROVE  EventInputs(input.value)
      BY <1>0, <3>1 DEF CaptureInputs, Inputs
    <3> QED BY <3>1, Zenon DEF VectorsFaithful, VectorsIgnoreOrder, ConnectionsCountedOnce, WindowsPartition, Given
  <2>2. VectorsIgnoreOrder
    <3> DEFINE baseline == {{"init"}}
    <3>1. ASSUME NEW schema, NEW start
          PROVE  /\ Vectors(schema, events, start, {}, baseline)
                      = Vectors(schema, Reverse(events), start, {}, baseline)
                 /\ Vectors(schema, events, start, {}, baseline)
                      = Vectors(schema, events \o events, start, {}, baseline)
      <4> HIDE DEF baseline
      <4> QED BY <2>1, OrderIgnored
    <3> QED BY <2>1, <3>1, Zenon DEF VectorsIgnoreOrder, Given
  <2>3. ConnectionsCountedOnce
    <3>1. CountedOnceIn(events)
      BY <2>1, CountedOnce DEF CountedOnceIn
    <3>2. CountedOnceIn(input.value) => ConnectionsCountedOnce
      BY Zenon DEF ConnectionsCountedOnce, CountedOnceIn, Given
    <3> QED BY <2>1, <3>1, <3>2, Zenon
  <2>4. WindowsPartition
    BY <2>1, WindowsApart, Zenon DEF WindowsPartition, Given
  <2> QED BY <2>2, <2>3, <2>4 DEF VectorsFaithful
<1> QED BY <1>1, AlwaysInputs, PTL
-----------------------------------------------------------------------------
(* Datasets.                                                               *)

\* The rows of an experiment, by window and entity.
WindowSet(x, t) == ToSet(by_window(x.events, x.boundaries, t))
StartsOf(x) == WindowStarts(x.events, x.boundaries)
Own(x, t, n) == OwnOf(x.schema, WindowSet(x, t), t, n)
TheVector(x, t, n) == VectorFor(x.schema, WindowSet(x, t), t, n, {}, {})
TheRow(x, t, n) ==
  Row(x.schema, TheVector(x, t, n), by_window(x.events, x.boundaries, t), x.scenarios, x.boundaries)
DataRows(x) == AllRows(x.schema, x.events, x.scenarios, x.boundaries, {})
Extracted(x) ==
  \A t \in StartsOf(x) : ~Refused(x.schema, by_window(x.events, x.boundaries, t), t)

LEMMA FloorFacts ==
  ASSUME NEW at \in Int
  PROVE  /\ FloorWindow(at) \in Int /\ FloorWindow(at) % 5 = 0
         /\ FloorWindow(at) <= at /\ at < FloorWindow(at) + 5
BY DEF FloorWindow, WINDOW

\* The events of a window.
LEMMA WindowOf ==
  ASSUME NEW x, ExperimentInput(x), BoundariesValid(x.boundaries), NEW t
  PROVE  /\ Listed(by_window(x.events, x.boundaries, t)) /\ IsFiniteSet(WindowSet(x, t))
         /\ WindowSet(x, t) = {e \in ToSet(x.events) : /\ x.boundaries[1] <= e.at /\ e.at < x.boundaries[4]
                                                       /\ FloorWindow(e.at) = t}
<1> DEFINE events == x.events
           D == {i \in DOMAIN events : /\ x.boundaries[1] <= events[i].at /\ events[i].at < x.boundaries[4]
                                       /\ FloorWindow(events[i].at) = t}
           w == by_window(x.events, x.boundaries, t)
<1>1. Listed(events)
  BY ListIsListed DEF ExperimentInput
<1>2. DOMAIN w = D /\ \A i \in D : w[i] = events[i]
  BY DEF by_window, Restrict, Inside
<1> HIDE DEF w
<1>3. Listed(w)
  BY <1>1, <1>2, FS_Subset DEF Listed
<1>4. IsFiniteSet(ToSet(w))
  BY <1>3, RangeFinite DEF Listed
<1>5. ToSet(w) = {e \in ToSet(events) : /\ x.boundaries[1] <= e.at /\ e.at < x.boundaries[4]
                                        /\ FloorWindow(e.at) = t}
  BY <1>2 DEF ToSet
<1> QED BY <1>3, <1>4, <1>5 DEF WindowSet, w

LEMMA StartOf ==
  ASSUME NEW x, NEW t
  PROVE  t \in StartsOf(x) <=> \E e \in ToSet(x.events) : /\ x.boundaries[1] <= e.at /\ e.at < x.boundaries[4]
                                                         /\ t = FloorWindow(e.at)
BY DEF StartsOf, WindowStarts, Inside, ToSet

\* All events of a window lie in it.
LEMMA OwnIs ==
  ASSUME NEW x, ExperimentInput(x), BoundariesValid(x.boundaries), NEW t, NEW n
  PROVE  /\ Own(x, t, n) = {e \in WindowSet(x, t) : EntityOf(x.schema, e) = n}
         /\ EntitiesOf(x.schema, WindowSet(x, t), t) = {EntityOf(x.schema, e) : e \in WindowSet(x, t)} \ {Missing}
         /\ n # Missing => (n \in EntitiesOf(x.schema, WindowSet(x, t), t) <=> Own(x, t, n) # {})
<1> DEFINE A == WindowSet(x, t)
<1>1. \A e \in A : InWindow(e, t)
  <2>1. ASSUME NEW e \in A
        PROVE  e.at \in Int /\ FloorWindow(e.at) = t
    <3>1. e \in ToSet(x.events) /\ FloorWindow(e.at) = t
      BY WindowOf
    <3>2. e.at \in Int
      BY <3>1, ListIsListed DEF ExperimentInput
    <3> QED BY <3>1, <3>2
  <2> HIDE DEF A
  <2> QED BY <2>1, FloorFacts DEF InWindow, WINDOW
<1> HIDE DEF A
<1>2. EventsIn(A, t) = A
  BY <1>1 DEF EventsIn
<1>3. Own(x, t, n) = {e \in A : EntityOf(x.schema, e) = n}
  BY <1>2 DEF Own, OwnOf, A
<1>4. EntitiesOf(x.schema, A, t) = {EntityOf(x.schema, e) : e \in A} \ {Missing}
  BY <1>2 DEF EntitiesOf
<1>5. n # Missing => (n \in EntitiesOf(x.schema, A, t) <=> Own(x, t, n) # {})
  BY <1>3, <1>4
<1> QED BY <1>3, <1>4, <1>5 DEF A

\* One row for every window and entity.
LEMMA RowsAre ==
  ASSUME NEW x, ExperimentInput(x), BoundariesValid(x.boundaries), Extracted(x), NEW r
  PROVE  r \in DataRows(x) <=>
           \E t \in StartsOf(x) : \E n \in EntitiesOf(x.schema, WindowSet(x, t), t) : r = TheRow(x, t, n)
<1> DEFINE own(t) == by_window(x.events, x.boundaries, t)
           V(t) == Vectors(x.schema, own(t), t, {}, {})
<1>1. ASSUME NEW t \in StartsOf(x)
      PROVE  V(t) = {VectorSet(x.schema, WindowSet(x, t), t, {}, {})}
  <2>1. Listed(own(t)) /\ ToSet(own(t)) = WindowSet(x, t)
    BY WindowOf DEF WindowSet
  <2>2. V(t) # {}
    BY <1>1 DEF Extracted, Vectors
  <2> HIDE DEF own
  <2> QED BY <2>1, <2>2, VectorsAre
<1>2. ASSUME NEW t \in StartsOf(x)
      PROVE  UNION V(t) = {TheVector(x, t, n) : n \in EntitiesOf(x.schema, WindowSet(x, t), t)}
  <2> HIDE DEF V
  <2>1. UNION V(t) = VectorSet(x.schema, WindowSet(x, t), t, {}, {})
    BY <1>1
  <2> QED BY <2>1 DEF VectorSet, TheVector
<1>3. r \in DataRows(x) <=>
        \E t \in StartsOf(x) : \E v \in UNION V(t) :
          r = Row(x.schema, v, own(t), x.scenarios, x.boundaries)
  BY DEF DataRows, AllRows, StartsOf
<1> HIDE DEF V
<1>4. ASSUME NEW t \in StartsOf(x)
      PROVE  (\E v \in UNION V(t) : r = Row(x.schema, v, own(t), x.scenarios, x.boundaries))
             <=> \E n \in EntitiesOf(x.schema, WindowSet(x, t), t) : r = TheRow(x, t, n)
  BY <1>2 DEF TheRow
<1> QED BY <1>3, <1>4

LEMMA FourBoundaries ==
  ASSUME NEW b \in Seq(Int), BoundariesValid(b)
  PROVE  /\ Len(b) = 4 /\ b[1] \in Int /\ b[2] \in Int /\ b[3] \in Int /\ b[4] \in Int
         /\ b[1] % 5 = 0 /\ b[2] % 5 = 0 /\ b[3] % 5 = 0 /\ b[4] % 5 = 0
         /\ b[1] < b[2] /\ b[2] < b[3] /\ b[3] < b[4]
<1>1. /\ Len(b) = 4 /\ \A i \in DOMAIN b : b[i] % WINDOW = 0
      /\ \A i \in 1 .. 3 : b[i] < b[i + 1]
  BY Zenon DEF BoundariesValid
<1>2. DOMAIN b = 1..4 /\ \A i \in DOMAIN b : b[i] \in Int
  <2>1. DOMAIN b = 1..Len(b) /\ \A i \in 1..Len(b) : b[i] \in Int
    OBVIOUS
  <2> QED BY <1>1, <2>1, Zenon
<1>3. 1 \in DOMAIN b /\ 2 \in DOMAIN b /\ 3 \in DOMAIN b /\ 4 \in DOMAIN b
  BY <1>2
<1>4. WINDOW = 5
  BY DEF WINDOW
<1>5. b[1] < b[1 + 1] /\ b[2] < b[2 + 1] /\ b[3] < b[3 + 1]
  BY <1>1
<1>6. 1 + 1 = 2 /\ 2 + 1 = 3 /\ 3 + 1 = 4
  OBVIOUS
<1> QED BY <1>1, <1>2, <1>3, <1>4, <1>5, <1>6

\* The partition of a time.
LEMMA PartitionIs ==
  ASSUME NEW b \in Seq(Int), BoundariesValid(b), NEW t \in Int, b[1] <= t, t < b[4]
  PROVE  /\ PartitionOf(b, t) \in PARTITIONS
         /\ \A p \in PARTITIONS : /\ Place(p) \in 1..3 /\ b[Place(p)] \in Int /\ b[Place(p) + 1] \in Int
                                  /\ b[Place(p)] % 5 = 0 /\ b[Place(p) + 1] % 5 = 0
                                  /\ b[1] <= b[Place(p)] /\ b[Place(p)] < b[Place(p) + 1]
                                  /\ b[Place(p) + 1] <= b[4]
         /\ \A p \in PARTITIONS : (b[Place(p)] <= t /\ t < b[Place(p) + 1]) <=> p = PartitionOf(b, t)
<1>1. /\ Place("train") = 1 /\ Place("validation") = 2 /\ Place("test") = 3
  BY DEF Place
<1>2. /\ Len(b) = 4 /\ b[1] \in Int /\ b[2] \in Int /\ b[3] \in Int /\ b[4] \in Int
      /\ b[1] % 5 = 0 /\ b[2] % 5 = 0 /\ b[3] % 5 = 0 /\ b[4] % 5 = 0
      /\ b[1] < b[2] /\ b[2] < b[3] /\ b[3] < b[4]
  BY FourBoundaries
<1>3. \A p \in PARTITIONS : p = "train" \/ p = "validation" \/ p = "test"
  BY DEF PARTITIONS
<1>4. 1 + 1 = 2 /\ 2 + 1 = 3 /\ 3 + 1 = 4 /\ "train" \in PARTITIONS /\ "validation" \in PARTITIONS
      /\ "test" \in PARTITIONS
  BY DEF PARTITIONS
<1>5. \A p \in PARTITIONS : /\ Place(p) \in 1..3 /\ b[Place(p)] \in Int /\ b[Place(p) + 1] \in Int
                            /\ b[Place(p)] % 5 = 0 /\ b[Place(p) + 1] % 5 = 0
                            /\ b[1] <= b[Place(p)] /\ b[Place(p)] < b[Place(p) + 1]
                            /\ b[Place(p) + 1] <= b[4]
  BY <1>1, <1>2, <1>3, <1>4
<1> DEFINE In(p) == b[Place(p)] <= t /\ t < b[Place(p) + 1]
<1>6. In("train") \/ In("validation") \/ In("test")
  BY <1>1, <1>2, <1>4
<1>7. \A p, q \in PARTITIONS : In(p) /\ In(q) => p = q
  <2> TAKE p, q \in PARTITIONS
  <2> HAVE In(p) /\ In(q)
  <2>1. /\ In("train") => t < b[2]
        /\ In("validation") => b[2] <= t /\ t < b[3]
        /\ In("test") => b[3] <= t
    BY <1>1, <1>2, <1>4
  <2> HIDE DEF In
  <2> QED BY <1>2, <1>3, <2>1
<1>8. PartitionOf(b, t) = CHOOSE p \in PARTITIONS : In(p)
  BY Zenon DEF PartitionOf
<1> HIDE DEF In
<1>9. PartitionOf(b, t) \in PARTITIONS /\ In(PartitionOf(b, t))
  BY <1>4, <1>6, <1>8, Zenon
<1>10. \A p \in PARTITIONS : In(p) <=> p = PartitionOf(b, t)
  BY <1>7, <1>9
<1> QED BY <1>5, <1>9, <1>10 DEF In

\* A window lies in one partition, and its partition is that of its events.
LEMMA WindowInPartition ==
  ASSUME NEW b \in Seq(Int), BoundariesValid(b), NEW at \in Int, b[1] <= at, at < b[4]
  PROVE  LET t == FloorWindow(at)
             p == PartitionOf(b, t)
         IN  /\ t \in Int /\ b[1] <= t /\ t < b[4] /\ p \in PARTITIONS /\ p = PartitionOf(b, at)
             /\ b[Place(p)] <= t /\ t + 5 <= b[Place(p) + 1]
<1> DEFINE t == FloorWindow(at)
           p == PartitionOf(b, t)
           q == PartitionOf(b, at)
<1>1. t \in Int /\ t % 5 = 0 /\ t <= at /\ at < t + 5
  BY FloorFacts
<1> HIDE DEF t
<1>2. /\ q \in PARTITIONS
      /\ \A k \in PARTITIONS : /\ Place(k) \in 1..3 /\ b[Place(k)] \in Int /\ b[Place(k) + 1] \in Int
                               /\ b[Place(k)] % 5 = 0 /\ b[Place(k) + 1] % 5 = 0
                               /\ b[1] <= b[Place(k)] /\ b[Place(k)] < b[Place(k) + 1]
                               /\ b[Place(k) + 1] <= b[4]
      /\ \A k \in PARTITIONS : (b[Place(k)] <= at /\ at < b[Place(k) + 1]) <=> k = q
  BY PartitionIs
<1> HIDE DEF q
<1>3. ASSUME NEW l \in Int, NEW h \in Int, l % 5 = 0, h % 5 = 0, l <= at, at < h
      PROVE  l <= t /\ t + 5 <= h
  BY <1>1, <1>3
<1>4. b[Place(q)] <= t /\ t + 5 <= b[Place(q) + 1]
  BY <1>2, <1>3
<1>5. b[1] <= t /\ t < b[4] /\ b[1] \in Int /\ b[4] \in Int
  <2>1. b[1] \in Int /\ b[4] \in Int
    BY FourBoundaries
  <2> DEFINE l == b[Place(q)]
             h == b[Place(q) + 1]
  <2>2. l \in Int /\ h \in Int /\ b[1] <= l /\ h <= b[4] /\ l <= t /\ t + 5 <= h
    BY <1>2, <1>4, Zenon
  <2> HIDE DEF l, h
  <2> QED BY <1>1, <2>1, <2>2
<1>6. \A k \in PARTITIONS : (b[Place(k)] <= t /\ t < b[Place(k) + 1]) <=> k = p
  BY <1>1, <1>5, PartitionIs
<1> HIDE DEF p
<1>7. p = q
  BY <1>1, <1>2, <1>4, <1>6
<1> QED BY <1>1, <1>2, <1>4, <1>5, <1>7 DEF t, p, q

\* What a row holds.
RowFacts(x, t, n, r) ==
  /\ r.vector = TheVector(x, t, n) /\ r.vector.entity = n /\ r.vector.schema = x.schema
  /\ t \in Int /\ r.vector.window_start = t /\ r.vector.window_end = t + 5
  /\ validate_vector(r.vector)
  /\ n # Missing /\ Own(x, t, n) # {}
  /\ r.vector.id[4] = {e.id : e \in Own(x, t, n)}
  /\ ToSet(r.ids) = {e.id : e \in Own(x, t, n)}
  /\ r.sessions = {_session(x.schema, e, x.scenarios) : e \in Own(x, t, n)}
  /\ r.partition = PartitionOf(x.boundaries, t) /\ r.partition \in PARTITIONS
  /\ x.boundaries[Place(r.partition)] <= t /\ t + 5 <= x.boundaries[Place(r.partition) + 1]
  /\ r.attack = _attack_scenario(r.vector, x.scenarios)

LEMMA RowIs ==
  ASSUME NEW x, ExperimentInput(x), BoundariesValid(x.boundaries), NEW t \in StartsOf(x),
         NEW n \in EntitiesOf(x.schema, WindowSet(x, t), t)
  PROVE  RowFacts(x, t, n, TheRow(x, t, n))
<1> DEFINE w == by_window(x.events, x.boundaries, t)
           D == {i \in DOMAIN w : EntityOf(x.schema, w[i]) = TheVector(x, t, n).entity}
           mine == Restrict(w, D)
           v == TheVector(x, t, n)
           r == TheRow(x, t, n)
           own == Own(x, t, n)
<1>1. PICK e \in ToSet(x.events) : /\ x.boundaries[1] <= e.at /\ e.at < x.boundaries[4]
                                  /\ t = FloorWindow(e.at)
  BY StartOf
<1>2. e.at \in Int
  BY ListIsListed DEF ExperimentInput
<1>3. /\ t \in Int /\ PartitionOf(x.boundaries, t) \in PARTITIONS
      /\ x.boundaries[Place(PartitionOf(x.boundaries, t))] <= t
      /\ t + 5 <= x.boundaries[Place(PartitionOf(x.boundaries, t)) + 1]
  <2>1. x.boundaries \in Seq(Int)
    BY DEF ExperimentInput
  <2> QED BY <1>1, <1>2, <2>1, WindowInPartition
<1>4. /\ v.entity = n /\ v.schema = x.schema /\ v.window_start = t /\ v.window_end = t + 5
      /\ v.id = <<x.schema, n, t, {f.id : f \in own}>>
  <2>1. IsVectorOf(v, x.schema, WindowSet(x, t), t, n, {}, {})
    BY VectorFields DEF TheVector
  <2> HIDE DEF v
  <2>2. WINDOW = 5
    BY DEF WINDOW
  <2> QED BY <2>1, <2>2, Zenon DEF IsVectorOf, Own
<1>5. validate_vector(v)
  <2>1. /\ IsFiniteSet(WindowSet(x, t))
        /\ \A f \in WindowSet(x, t) : f \in ToSet(x.events)
    BY WindowOf
  <2>2. \A f \in WindowSet(x, t) : f.sent \in Int /\ f.received \in Int
    BY <2>1, ListIsListed DEF ExperimentInput
  <2>3. x.schema \in Schemas
    BY DEF ExperimentInput, Schemas
  <2> QED BY <1>3, <2>1, <2>2, <2>3, VectorValid DEF TheVector
<1>6. /\ own = {f \in WindowSet(x, t) : EntityOf(x.schema, f) = n}
      /\ n # Missing /\ own # {}
  <2>1. n # Missing
    BY DEF EntitiesOf
  <2> QED BY <2>1, OwnIs
<1> HIDE DEF v, own
<1>7. DOMAIN mine = D /\ \A i \in D : mine[i] = w[i]
  BY DEF Restrict
<1>8. ToSet(mine) = own
  <2>1. ToSet(mine) = {w[i] : i \in D}
    BY <1>7 DEF ToSet
  <2>2. {w[i] : i \in D} = {f \in ToSet(w) : EntityOf(x.schema, f) = n}
    BY <1>4 DEF ToSet, v
  <2> QED BY <1>6, <2>1, <2>2 DEF WindowSet
<1>9. r = [vector |-> v, partition |-> PartitionOf(x.boundaries, v.window_start),
           attack |-> _attack_scenario(v, x.scenarios),
           ids |-> [i \in DOMAIN mine |-> mine[i].id],
           sessions |-> {_session(x.schema, mine[i], x.scenarios) : i \in DOMAIN mine}]
  BY DEF TheRow, Row, v
<1> HIDE DEF mine, r
<1>10. /\ r.vector = v /\ r.partition = PartitionOf(x.boundaries, t)
       /\ r.attack = _attack_scenario(v, x.scenarios)
       /\ r.ids = [i \in DOMAIN mine |-> mine[i].id]
       /\ r.sessions = {_session(x.schema, mine[i], x.scenarios) : i \in DOMAIN mine}
  BY <1>4, <1>9
<1>11. ToSet(r.ids) = {f.id : f \in own}
  BY <1>8, <1>10 DEF ToSet
<1>12. r.sessions = {_session(x.schema, f, x.scenarios) : f \in own}
  BY <1>8, <1>10 DEF ToSet
<1>13. v.id[4] = {f.id : f \in own}
  BY <1>4
<1>14. /\ r.vector = v /\ r.vector.entity = n /\ r.vector.schema = x.schema
       /\ t \in Int /\ r.vector.window_start = t /\ r.vector.window_end = t + 5
       /\ validate_vector(r.vector) /\ n # Missing /\ own # {}
       /\ r.vector.id[4] = {f.id : f \in own} /\ ToSet(r.ids) = {f.id : f \in own}
  BY <1>3, <1>4, <1>5, <1>6, <1>10, <1>11, <1>13, Zenon
<1>15. /\ r.partition = PartitionOf(x.boundaries, t) /\ r.partition \in PARTITIONS
       /\ x.boundaries[Place(r.partition)] <= t /\ t + 5 <= x.boundaries[Place(r.partition) + 1]
       /\ r.attack = _attack_scenario(r.vector, x.scenarios)
  BY <1>3, <1>10, Zenon
<1> QED BY <1>12, <1>14, <1>15, Zenon DEF RowFacts, v, own, r

LEMMA EachRow ==
  ASSUME NEW x, ExperimentInput(x), BoundariesValid(x.boundaries), Extracted(x), NEW r \in DataRows(x)
  PROVE  \E t \in StartsOf(x) : \E n \in EntitiesOf(x.schema, WindowSet(x, t), t) :
           r = TheRow(x, t, n) /\ RowFacts(x, t, n, r)
<1>1. PICK t \in StartsOf(x) : \E n \in EntitiesOf(x.schema, WindowSet(x, t), t) : r = TheRow(x, t, n)
  BY RowsAre
<1>2. PICK n \in EntitiesOf(x.schema, WindowSet(x, t), t) : r = TheRow(x, t, n)
  BY <1>1
<1>3. RowFacts(x, t, n, TheRow(x, t, n))
  BY RowIs
<1> QED BY <1>2, <1>3, Zenon

\* Entity and window determine the row.
LEMMA RowDetermined ==
  ASSUME NEW x, ExperimentInput(x), BoundariesValid(x.boundaries), Extracted(x),
         NEW r \in DataRows(x), NEW q \in DataRows(x),
         r.vector.entity = q.vector.entity, r.vector.window_start = q.vector.window_start
  PROVE  r = q
<1>1. ASSUME NEW s \in DataRows(x)
      PROVE  s = TheRow(x, s.vector.window_start, s.vector.entity)
  <2>1. PICK t \in StartsOf(x) : \E n \in EntitiesOf(x.schema, WindowSet(x, t), t) :
                                  s = TheRow(x, t, n) /\ RowFacts(x, t, n, s)
    BY EachRow
  <2>2. PICK n \in EntitiesOf(x.schema, WindowSet(x, t), t) : s = TheRow(x, t, n) /\ RowFacts(x, t, n, s)
    BY <2>1
  <2>3. s.vector.entity = n /\ s.vector.window_start = t
    BY <2>2 DEF RowFacts
  <2> QED BY <2>2, <2>3
<1> QED BY <1>1

LEMMA RowsFinite ==
  ASSUME NEW x, ExperimentInput(x), BoundariesValid(x.boundaries), Extracted(x)
  PROVE  IsFiniteSet(DataRows(x))
<1> DEFINE D == DOMAIN x.events
           f == [i \in D |-> TheRow(x, FloorWindow(x.events[i].at), EntityOf(x.schema, x.events[i]))]
<1>1. IsFiniteSet(D)
  BY ListIsListed DEF ExperimentInput, Listed
<1>2. IsFiniteSet(ToSet(f))
  <2>1. DOMAIN f = D
    OBVIOUS
  <2> HIDE DEF f, D
  <2> QED BY <1>1, <2>1, RangeFinite
<1>3. DataRows(x) \subseteq ToSet(f)
  <2> SUFFICES ASSUME NEW r \in DataRows(x) PROVE r \in ToSet(f)
    OBVIOUS
  <2>1. PICK t \in StartsOf(x) : \E n \in EntitiesOf(x.schema, WindowSet(x, t), t) : r = TheRow(x, t, n)
    BY RowsAre
  <2>2. PICK n \in EntitiesOf(x.schema, WindowSet(x, t), t) : r = TheRow(x, t, n)
    BY <2>1
  <2>3. PICK e \in WindowSet(x, t) : n = EntityOf(x.schema, e)
    BY <2>2, OwnIs
  <2>4. e \in ToSet(x.events) /\ FloorWindow(e.at) = t
    BY <2>3, WindowOf
  <2>5. PICK i \in D : e = x.events[i]
    BY <2>4 DEF ToSet
  <2>6. f[i] = r
    BY <2>2, <2>3, <2>4, <2>5
  <2>7. DOMAIN f = D
    OBVIOUS
  <2> HIDE DEF f
  <2> QED BY <2>5, <2>6, <2>7 DEF ToSet
<1> QED BY <1>2, <1>3, FS_Subset

\* What training relies on, of the rows of a dataset.
Filed(schema, b, r) ==
  /\ r.vector.schema = schema /\ validate_vector(r.vector)
  /\ r.partition \in PARTITIONS
  /\ b[Place(r.partition)] <= r.vector.window_start /\ r.vector.window_end <= b[Place(r.partition) + 1]
  /\ ToSet(r.ids) = r.vector.id[4] /\ ToSet(r.ids) # {} /\ r.sessions # {}
FiledRows(schema, b, R) ==
  /\ IsFiniteSet(R)
  /\ \A r \in R : Filed(schema, b, r)
  /\ \A r, q \in R :
       (r.vector.entity = q.vector.entity /\ r.vector.window_start = q.vector.window_start) => r = q

LEMMA BuiltIsFiled ==
  ASSUME NEW x, ExperimentInput(x), BoundariesValid(x.boundaries), Extracted(x),
         NEW R \in SUBSET DataRows(x)
  PROVE  FiledRows(x.schema, x.boundaries, R)
<1>1. IsFiniteSet(R)
  BY RowsFinite, FS_Subset
<1>2. ASSUME NEW r \in R
      PROVE  Filed(x.schema, x.boundaries, r)
  <2>1. PICK t \in StartsOf(x) : \E n \in EntitiesOf(x.schema, WindowSet(x, t), t) :
                                  r = TheRow(x, t, n) /\ RowFacts(x, t, n, r)
    BY EachRow
  <2>2. PICK n \in EntitiesOf(x.schema, WindowSet(x, t), t) : RowFacts(x, t, n, r)
    BY <2>1
  <2>3. Own(x, t, n) # {}
    BY <2>2 DEF RowFacts
  <2>4. {e.id : e \in Own(x, t, n)} # {} /\ {_session(x.schema, e, x.scenarios) : e \in Own(x, t, n)} # {}
    BY <2>3
  <2> QED BY <2>2, <2>4 DEF RowFacts, Filed
<1>3. \A r, q \in R :
        (r.vector.entity = q.vector.entity /\ r.vector.window_start = q.vector.window_start) => r = q
  BY RowDetermined
<1> QED BY <1>1, <1>2, <1>3 DEF FiledRows

\* The rows of a partition, and its entries in the ledger and the labels.
RowsIn(R, name) == {r \in R : r.partition = name}
VectorsIn(R, name) == {r.vector : r \in RowsIn(R, name)}
Member(r) == [vector |-> r.vector, ids |-> ToSet(r.ids), sessions |-> r.sessions]
MembersIn(R, name) == {Member(r) : r \in RowsIn(R, name)}
LabelOf(r) == [vector |-> r.vector, label |-> IF r.attack # {} THEN 1 ELSE 0, scenario |-> r.attack]

\* What the files of a dataset hold.
FilesOf(schema, R, b, F) ==
  /\ F.vectors = [name \in PARTITIONS |-> VectorsIn(R, name)]
  /\ F.ledger = [name \in PARTITIONS |-> [vectors |-> VectorsIn(R, name), members |-> MembersIn(R, name)]]
  /\ F.labels = {LabelOf(r) : r \in R}
  /\ F.manifest.schema = schema /\ F.manifest.range = <<b[1], b[4]>>
  /\ F.manifest.ledger = F.ledger /\ F.manifest.labels = F.labels
  /\ F.manifest.split = [name \in PARTITIONS |->
                           [start |-> b[Place(name)], end |-> b[Place(name) + 1],
                            count |-> Cardinality(VectorsIn(R, name)),
                            sessions |-> UNION {r.sessions : r \in RowsIn(R, name)}]]

LEMMA FilesAre ==
  ASSUME NEW schema, NEW R, NEW b
  PROVE  FilesOf(schema, R, b, write_dataset(schema, R, b))
BY DEF FilesOf, write_dataset, RowsIn, VectorsIn, MembersIn, Member, LabelOf

\* What the files hold for a partition.
FilesFor(b, R, F, name) ==
  /\ F.vectors[name] = VectorsIn(R, name)
  /\ F.ledger[name].vectors = VectorsIn(R, name)
  /\ F.ledger[name].members = MembersIn(R, name)
  /\ F.manifest.split[name].start = b[Place(name)]
  /\ F.manifest.split[name].end = b[Place(name) + 1]
  /\ F.manifest.split[name].count = Cardinality(VectorsIn(R, name))
  /\ F.manifest.split[name].sessions = UNION {r.sessions : r \in RowsIn(R, name)}

LEMMA FilesForIs ==
  ASSUME NEW schema, NEW R, NEW b, NEW F, FilesOf(schema, R, b, F), NEW name \in PARTITIONS
  PROVE  FilesFor(b, R, F, name)
<1>1. F.vectors[name] = VectorsIn(R, name)
  BY DEF FilesOf
<1>2. F.ledger[name] = [vectors |-> VectorsIn(R, name), members |-> MembersIn(R, name)]
  BY DEF FilesOf
<1>3. F.manifest.split[name] = [start |-> b[Place(name)], end |-> b[Place(name) + 1],
                                count |-> Cardinality(VectorsIn(R, name)),
                                sessions |-> UNION {r.sessions : r \in RowsIn(R, name)}]
  BY DEF FilesOf
<1> QED BY <1>1, <1>2, <1>3 DEF FilesFor

LEMMA MemberFields ==
  ASSUME NEW r
  PROVE  Member(r).vector = r.vector /\ Member(r).ids = ToSet(r.ids) /\ Member(r).sessions = r.sessions
BY DEF Member

\* The vectors of a partition are as many as its members.
LEMMA AsManyMembers ==
  ASSUME NEW schema, NEW b, NEW R, FiledRows(schema, b, R), NEW name
  PROVE  Cardinality(VectorsIn(R, name)) = Cardinality(MembersIn(R, name))
<1> DEFINE S == VectorsIn(R, name)
           T == MembersIn(R, name)
           f == [m \in T |-> m.vector]
<1>1. \A m \in T : \E r \in RowsIn(R, name) : m = Member(r) /\ m.vector = r.vector
  BY MemberFields DEF MembersIn
<1>2. f \in [T -> S]
  BY <1>1 DEF VectorsIn
<1>3. \A m, k \in T : f[m] = f[k] => m = k
  BY <1>1 DEF RowsIn, FiledRows
<1>4. \A v \in S : \E m \in T : f[m] = v
  BY MemberFields DEF MembersIn, VectorsIn
<1>5. IsFiniteSet(T)
  <2> DEFINE g == [r \in RowsIn(R, name) |-> Member(r)]
  <2>1. IsFiniteSet(RowsIn(R, name))
    BY FS_Subset DEF FiledRows, RowsIn
  <2>2. IsFiniteSet(ToSet(g))
    <3>1. DOMAIN g = RowsIn(R, name)
      OBVIOUS
    <3> HIDE DEF g
    <3> QED BY <2>1, <3>1, RangeFinite
  <2> QED BY <2>2 DEF ToSet, MembersIn
<1>6. f \in Bijection(T, S)
  <2> HIDE DEF S, T, f
  <2> QED BY <1>2, <1>3, <1>4 DEF Bijection, Injection, Surjection, IsInjective
<1> HIDE DEF S, T, f
<1> QED BY <1>5, <1>6, FS_Bijection DEF ExistsBijection, S, T

\* Every partition that was written is valid.
LEMMA WrittenValid ==
  ASSUME NEW schema, NEW b \in Seq(Int), BoundariesValid(b), NEW R, FiledRows(schema, b, R),
         NEW F, FilesOf(schema, R, b, F), NEW name \in PARTITIONS
  PROVE  PartitionValid(F, name)
<1> DEFINE S == VectorsIn(R, name)
           T == MembersIn(R, name)
<1>1. FilesFor(b, R, F, name)
  BY FilesForIs
<1>2. /\ F.manifest.range[1] <= F.manifest.split[name].start
      /\ F.manifest.split[name].start < F.manifest.split[name].end
      /\ F.manifest.split[name].end <= F.manifest.range[2]
  <2>1. F.manifest.range[1] = b[1] /\ F.manifest.range[2] = b[4]
    BY DEF FilesOf
  <2>2. b[1] \in Int /\ b[1] <= b[1] /\ b[1] < b[4]
    BY FourBoundaries
  <2>3. b[1] <= b[Place(name)] /\ b[Place(name)] < b[Place(name) + 1] /\ b[Place(name) + 1] <= b[4]
    BY <2>2, PartitionIs
  <2> QED BY <1>1, <2>1, <2>3 DEF FilesFor
<1>3. Cardinality(S) = Cardinality(T)
  BY AsManyMembers
<1>4. ASSUME NEW v \in S
      PROVE  /\ validate_vector(v) /\ v.schema = F.manifest.schema
             /\ b[Place(name)] <= v.window_start /\ v.window_end <= b[Place(name) + 1]
             /\ \E m \in T : m.vector = v
             /\ MemberOf(F, name, v).ids # {} /\ MemberOf(F, name, v).sessions # {}
             /\ MemberOf(F, name, v).ids = v.id[4]
  <2>1. PICK r \in RowsIn(R, name) : v = r.vector
    BY <1>4 DEF VectorsIn
  <2>2. r \in R /\ r.partition = name /\ Filed(schema, b, r)
    BY <2>1 DEF RowsIn, FiledRows
  <2>3. Member(r) \in T /\ Member(r).vector = v
    BY <2>1, MemberFields DEF MembersIn
  <2>4. MemberOf(F, name, v) = CHOOSE m \in T : m.vector = v
    BY <1>1 DEF MemberOf, FilesFor
  <2>5. MemberOf(F, name, v) \in T /\ MemberOf(F, name, v).vector = v
    BY <2>3, <2>4
  <2>6. PICK q \in RowsIn(R, name) : MemberOf(F, name, v) = Member(q)
    BY <2>5 DEF MembersIn
  <2>7. q = r
    <3>1. q \in R /\ q.vector = r.vector
      BY <2>1, <2>5, <2>6, MemberFields DEF RowsIn
    <3> QED BY <2>2, <3>1 DEF FiledRows
  <2>8. MemberOf(F, name, v).ids = ToSet(r.ids) /\ MemberOf(F, name, v).sessions = r.sessions
    BY <2>6, <2>7, MemberFields
  <2>9. F.manifest.schema = schema
    BY DEF FilesOf
  <2> HIDE DEF T
  <2> QED BY <2>1, <2>2, <2>3, <2>8, <2>9 DEF Filed
<1>5. \A v, w \in S : (v.entity = w.entity /\ v.window_start = w.window_start) => v = w
  BY DEF VectorsIn, RowsIn, FiledRows
<1>6. UNION {m.sessions : m \in T} = UNION {r.sessions : r \in RowsIn(R, name)}
  BY MemberFields DEF MembersIn
<1> HIDE DEF S, T
<1>7. /\ F.vectors[name] = S /\ F.ledger[name].vectors = S /\ F.ledger[name].members = T
      /\ F.manifest.split[name].start = b[Place(name)]
      /\ F.manifest.split[name].end = b[Place(name) + 1]
      /\ F.manifest.split[name].count = Cardinality(S)
      /\ F.manifest.split[name].sessions = UNION {r.sessions : r \in RowsIn(R, name)}
  BY <1>1 DEF FilesFor, S, T
<1> QED BY <1>2, <1>3, <1>4, <1>5, <1>6, <1>7, Zenon DEF PartitionValid

\* Rows in different partitions have no event and no session in common.
RowsApart(R) ==
  \A r, q \in R : r.partition # q.partition =>
    /\ r.sessions \cap q.sessions = {}
    /\ ToSet(r.ids) \cap ToSet(q.ids) = {}

LEMMA IsolatedIs ==
  ASSUME NEW schema, NEW b, NEW R, FiledRows(schema, b, R), NEW F, FilesOf(schema, R, b, F)
  PROVE  Isolated(F) <=> RowsApart(R)
<1>1. ASSUME NEW p \in PARTITIONS
      PROVE  F.ledger[p].members = MembersIn(R, p)
  BY FilesForIs DEF FilesFor
<1>2. ASSUME Isolated(F), NEW r \in R, NEW q \in R, r.partition # q.partition
      PROVE  r.sessions \cap q.sessions = {} /\ ToSet(r.ids) \cap ToSet(q.ids) = {}
  <2>1. r.partition \in PARTITIONS /\ q.partition \in PARTITIONS
    BY DEF FiledRows, Filed
  <2>2. Member(r) \in MembersIn(R, r.partition) /\ Member(q) \in MembersIn(R, q.partition)
    BY DEF MembersIn, RowsIn
  <2>3. Member(r).ids \cap Member(q).ids = {} /\ Member(r).sessions \cap Member(q).sessions = {}
    BY <1>1, <1>2, <2>1, <2>2 DEF Isolated
  <2> QED BY <2>3, MemberFields
<1>3. ASSUME RowsApart(R), NEW p \in PARTITIONS, NEW k \in PARTITIONS, p # k,
             NEW m \in F.ledger[p].members, NEW n \in F.ledger[k].members
      PROVE  m.ids \cap n.ids = {} /\ m.sessions \cap n.sessions = {}
  <2>1. PICK r \in RowsIn(R, p) : m = Member(r)
    BY <1>1 DEF MembersIn
  <2>2. PICK q \in RowsIn(R, k) : n = Member(q)
    BY <1>1 DEF MembersIn
  <2>3. r \in R /\ q \in R /\ r.partition # q.partition
    BY <1>3, <2>1, <2>2 DEF RowsIn
  <2>4. r.sessions \cap q.sessions = {} /\ ToSet(r.ids) \cap ToSet(q.ids) = {}
    BY <1>3, <2>3 DEF RowsApart
  <2> QED BY <2>1, <2>2, <2>4, MemberFields
<1> QED BY <1>2, <1>3 DEF Isolated, RowsApart

LEMMA LabelFields ==
  ASSUME NEW r
  PROVE  /\ LabelOf(r).vector = r.vector /\ LabelOf(r).scenario = r.attack
         /\ LabelOf(r).label \in {0, 1} /\ (LabelOf(r).label = 1 <=> r.attack # {})
BY DEF LabelOf

\* What build ensures of the labels of the rows it keeps.
Balanced(R) ==
  /\ \A name \in PARTITIONS : RowsIn(R, name) # {}
  /\ \A r \in RowsIn(R, "train") : r.attack = {}
  /\ \A name \in {"validation", "test"} : {r.attack # {} : r \in RowsIn(R, name)} = BOOLEAN

LEMMA LabelsAre ==
  ASSUME NEW schema, NEW b, NEW R, FiledRows(schema, b, R), NEW F, FilesOf(schema, R, b, F),
         NEW name \in PARTITIONS
  PROVE  labels_for(F, name) = {LabelOf(r).label : r \in RowsIn(R, name)}
<1>1. F.labels = {LabelOf(r) : r \in R}
  BY DEF FilesOf
<1>2. F.vectors[name] = VectorsIn(R, name)
  BY FilesForIs DEF FilesFor
<1>3. ASSUME NEW r \in R, r.vector \in VectorsIn(R, name)
      PROVE  r \in RowsIn(R, name)
  BY <1>3 DEF VectorsIn, RowsIn, FiledRows
<1>4. ASSUME NEW r \in RowsIn(R, name)
      PROVE  r \in R /\ r.vector \in VectorsIn(R, name)
  BY DEF VectorsIn, RowsIn
<1>5. {l \in F.labels : l.vector \in F.vectors[name]} = {LabelOf(r) : r \in RowsIn(R, name)}
  <2>1. ASSUME NEW l \in F.labels, l.vector \in F.vectors[name]
        PROVE  l \in {LabelOf(r) : r \in RowsIn(R, name)}
    BY <1>1, <1>2, <1>3, <2>1, LabelFields
  <2>2. ASSUME NEW r \in RowsIn(R, name)
        PROVE  LabelOf(r) \in F.labels /\ LabelOf(r).vector \in F.vectors[name]
    BY <1>1, <1>2, <1>4, LabelFields
  <2> QED BY <2>1, <2>2
<1> QED BY <1>5 DEF labels_for

\* Training loads a dataset as it was written unless rows of two partitions
\* share an event or a session.
LEMMA WrittenLoads ==
  ASSUME NEW schema, NEW b \in Seq(Int), BoundariesValid(b), NEW R, FiledRows(schema, b, R),
         Balanced(R), NEW F, FilesOf(schema, R, b, F)
  PROVE  load_dataset(F, schema) <=> RowsApart(R)
<1>1. F.manifest.schema = schema
  BY DEF FilesOf
<1>2. ASSUME NEW name \in PARTITIONS
      PROVE  F.vectors[name] = VectorsIn(R, name)
  BY FilesForIs DEF FilesFor
<1>3. \A name \in PARTITIONS : F.vectors[name] # {}
  <2>1. \A name \in PARTITIONS : VectorsIn(R, name) # {}
    BY DEF Balanced, VectorsIn
  <2> QED BY <1>2, <2>1
<1>4. validate_partitions(F) <=> RowsApart(R)
  <2>1. F.ledger = F.manifest.ledger
    BY DEF FilesOf
  <2>2. /\ F.manifest.split["train"].end <= F.manifest.split["validation"].start
        /\ F.manifest.split["validation"].end <= F.manifest.split["test"].start
    <3>1. "train" \in PARTITIONS /\ "validation" \in PARTITIONS /\ "test" \in PARTITIONS
      BY DEF PARTITIONS
    <3>2. Place("train") = 1 /\ Place("validation") = 2 /\ Place("test") = 3
      BY DEF Place
    <3>3. \A name \in PARTITIONS : FilesFor(b, R, F, name)
      BY FilesForIs
    <3>4. /\ F.manifest.split["train"].end = b[1 + 1] /\ F.manifest.split["validation"].start = b[2]
          /\ F.manifest.split["validation"].end = b[2 + 1] /\ F.manifest.split["test"].start = b[3]
      BY <3>1, <3>2, <3>3, Zenon DEF FilesFor
    <3>5. b[2] \in Int /\ b[3] \in Int
      BY FourBoundaries
    <3>6. b[2] <= b[2] /\ b[3] <= b[3] /\ 1 + 1 = 2 /\ 2 + 1 = 3
      BY <3>5
    <3> QED BY <3>4, <3>6, Zenon
  <2>3. \A name \in PARTITIONS : PartitionValid(F, name)
    BY WrittenValid
  <2>4. Isolated(F) <=> RowsApart(R)
    BY IsolatedIs
  <2> QED BY <2>1, <2>2, <2>3, <2>4, Zenon DEF validate_partitions
<1>5. load_labels(F)
  <2>1. F.labels = F.manifest.labels /\ F.labels = {LabelOf(r) : r \in R}
    BY DEF FilesOf
  <2>2. \A l \in F.labels : (l.label = 1) <=> (l.scenario # {})
    BY <2>1, LabelFields
  <2>3. \A l, k \in F.labels : l.vector = k.vector => l = k
    BY <2>1, LabelFields DEF FiledRows
  <2> QED BY <2>1, <2>2, <2>3 DEF load_labels
<1>6. ASSUME NEW name \in PARTITIONS
      PROVE  Labelled(F, name)
  <2>1. F.labels = {LabelOf(r) : r \in R}
    BY DEF FilesOf
  <2> QED BY <1>2, <2>1, LabelFields DEF Labelled, VectorsIn, RowsIn
<1>7. labels_for(F, "train") = {0}
  <2>1. "train" \in PARTITIONS
    BY DEF PARTITIONS
  <2>2. labels_for(F, "train") = {LabelOf(r).label : r \in RowsIn(R, "train")}
    BY <2>1, LabelsAre
  <2>3. \A r \in RowsIn(R, "train") : LabelOf(r).label = 0
    BY LabelFields DEF Balanced
  <2> QED BY <2>1, <2>2, <2>3 DEF Balanced
<1>8. ASSUME NEW name \in {"validation", "test"}
      PROVE  labels_for(F, name) = {0, 1}
  <2>1. name \in PARTITIONS
    BY DEF PARTITIONS
  <2>2. labels_for(F, name) = {LabelOf(r).label : r \in RowsIn(R, name)}
    BY <2>1, LabelsAre
  <2>3. {r.attack # {} : r \in RowsIn(R, name)} = BOOLEAN
    BY DEF Balanced
  <2>4. TRUE \in {r.attack # {} : r \in RowsIn(R, name)} /\ FALSE \in {r.attack # {} : r \in RowsIn(R, name)}
    BY <2>3
  <2>5. (\E r \in RowsIn(R, name) : r.attack # {}) /\ (\E r \in RowsIn(R, name) : r.attack = {})
    BY <2>4
  <2> QED BY <2>2, <2>5, LabelFields
<1> QED BY <1>1, <1>3, <1>4, <1>5, <1>6, <1>7, <1>8, Zenon DEF load_dataset

\* The scenarios that overlap the window of a vector.
Hits(v, scenarios) ==
  {i \in DOMAIN scenarios : /\ scenarios[i].entity = v.entity
                            /\ v.window_start < scenarios[i].end
                            /\ v.window_end > scenarios[i].start}

\* The scenario of a vector is one that overlaps it, if there is any.
LEMMA AttackOf ==
  ASSUME NEW v, NEW s, IsFiniteSet(DOMAIN s), DOMAIN s \subseteq Int,
         \A i \in DOMAIN s : s[i].start \in Int
  PROVE  /\ _attack_scenario(v, s) # {} <=> Hits(v, s) # {}
         /\ \A i \in Hits(v, s) : Hits(v, s) \subseteq {i} => _attack_scenario(v, s) = {s[i]}
<1> DEFINE H == Hits(v, s)
           first == {i \in H : \A j \in H : s[i].start <= s[j].start}
           least == {i \in first : \A j \in first : i <= j}
<1>1. _attack_scenario(v, s) = {s[i] : i \in least}
  BY DEF _attack_scenario, Hits
<1>2. H \subseteq DOMAIN s /\ H \subseteq Int /\ \A i \in H : s[i].start \in Int
  BY DEF Hits
<1>3. IsFiniteSet(H)
  <2> HIDE DEF H
  <2> QED BY <1>2, FS_Subset
<1> HIDE DEF H
<1>4. least \subseteq H
  OBVIOUS
<1>5. ASSUME H # {}
      PROVE  least # {}
  <2> DEFINE Q == {p \in H \X H : \/ s[p[2]].start < s[p[1]].start
                                  \/ s[p[2]].start = s[p[1]].start /\ p[2] < p[1]}
  <2>0. ASSUME NEW i \in H, NEW j \in H
        PROVE  <<i, j>> \in Q <=> (\/ s[j].start < s[i].start
                                   \/ s[j].start = s[i].start /\ j < i)
    OBVIOUS
  <2> HIDE DEF Q
  <2>1. \A i \in H : <<i, i>> \notin Q
    BY <1>2, <2>0
  <2>2. \A i, j, k \in H : <<i, j>> \in Q /\ <<j, k>> \in Q => <<i, k>> \in Q
    <3> SUFFICES ASSUME NEW i \in H, NEW j \in H, NEW k \in H, <<i, j>> \in Q, <<j, k>> \in Q
                 PROVE  <<i, k>> \in Q
      OBVIOUS
    <3>1. /\ s[i].start \in Int /\ s[j].start \in Int /\ s[k].start \in Int
          /\ i \in Int /\ j \in Int /\ k \in Int
      BY <1>2
    <3>2. /\ s[j].start < s[i].start \/ (s[j].start = s[i].start /\ j < i)
          /\ s[k].start < s[j].start \/ (s[k].start = s[j].start /\ k < j)
      BY <2>0
    <3>3. s[k].start < s[i].start \/ (s[k].start = s[i].start /\ k < i)
      BY <3>1, <3>2
    <3> QED BY <2>0, <3>3
  <2>3. PICK i \in H : \A j \in H : <<i, j>> \notin Q
    BY <1>3, <1>5, <2>1, <2>2, Maximal
  <2>4. \A j \in H : ~(\/ s[j].start < s[i].start
                       \/ s[j].start = s[i].start /\ j < i)
    BY <2>0, <2>3
  <2>5. \A j \in H : s[i].start <= s[j].start
    BY <1>2, <2>4
  <2>6. i \in first
    BY <2>5
  <2>7. ASSUME NEW j \in first
        PROVE  i <= j
    <3>1. j \in H /\ s[j].start <= s[i].start
      BY <2>7
    <3> QED BY <1>2, <2>4, <2>5, <3>1
  <2> HIDE DEF first
  <2> QED BY <2>6, <2>7
<1>6. ASSUME NEW i \in H, H \subseteq {i}
      PROVE  _attack_scenario(v, s) = {s[i]}
  <2>1. least = {i}
    <3> HIDE DEF least
    <3> QED BY <1>4, <1>5, <1>6
  <2> HIDE DEF least
  <2> QED BY <1>1, <2>1
<1> HIDE DEF least
<1> QED BY <1>1, <1>4, <1>5, <1>6 DEF H

LEMMA ScenariosOf ==
  ASSUME NEW x, ExperimentInput(x)
  PROVE  /\ IsFiniteSet(DOMAIN x.scenarios) /\ DOMAIN x.scenarios \subseteq Int
         /\ \A i \in DOMAIN x.scenarios : /\ x.scenarios[i].start \in Int /\ x.scenarios[i].end \in Int
                                          /\ x.scenarios[i].entity # Missing
<1>1. x.scenarios \in Seq({x.scenarios[i] : i \in DOMAIN x.scenarios})
  BY DEF ExperimentInput
<1>2. PICK n \in Nat : DOMAIN x.scenarios = 1..n
  <2> DEFINE s == x.scenarios
             T == {x.scenarios[i] : i \in DOMAIN x.scenarios}
  <2>1. s \in Seq(T)
    BY <1>1
  <2> HIDE DEF s, T
  <2>2. DOMAIN s = 1..Len(s) /\ Len(s) \in Nat
    BY <2>1
  <2> QED BY <2>2 DEF s
<1>3. IsFiniteSet(1..n)
  BY FS_Interval
<1> QED BY <1>2, <1>3 DEF ExperimentInput

\* An event within a scenario and the window of a vector of its entity makes
\* the scenario overlap the vector.
LEMMA WithinHits ==
  ASSUME NEW x, ExperimentInput(x), NEW t \in Int, NEW n, NEW v,
         v.entity = n, v.window_start = t, v.window_end = t + 5,
         NEW i \in DOMAIN x.scenarios, x.scenarios[i].entity = n,
         NEW at \in Int, x.scenarios[i].start <= at, at < x.scenarios[i].end,
         t <= at, at < t + 5
  PROVE  i \in Hits(v, x.scenarios)
<1>1. x.scenarios[i].start \in Int /\ x.scenarios[i].end \in Int
  BY ScenariosOf
<1>2. t < x.scenarios[i].end /\ t + 5 > x.scenarios[i].start
  BY <1>1
<1> QED BY <1>2 DEF Hits

\* What build gives for an experiment.
LEMMA BuiltIs ==
  ASSUME NEW x, NEW rows \in Built(x)
  PROVE  /\ rows = {r \in DataRows(x) : ~Dropped(r)}
         /\ BoundariesValid(x.boundaries) /\ Extracted(x) /\ ~Straddles(DataRows(x))
         /\ \A name \in PARTITIONS : \E r \in rows : r.partition = name
         /\ \A name \in {"validation", "test"} :
              {r.attack # {} : r \in {r \in rows : r.partition = name}} = BOOLEAN
BY DEF Built, build, DataRows, Extracted, StartsOf

LEMMA BuiltBalanced ==
  ASSUME NEW x, NEW rows \in Built(x)
  PROVE  Balanced(rows)
<1>1. \A name \in PARTITIONS : \E r \in rows : r.partition = name
  BY BuiltIs
<1>2. \A name \in {"validation", "test"} :
        {r.attack # {} : r \in {r \in rows : r.partition = name}} = BOOLEAN
  BY BuiltIs
<1>3. \A r \in rows : ~Dropped(r)
  BY BuiltIs
<1> QED BY <1>1, <1>2, <1>3 DEF Balanced, RowsIn, Dropped

LoadsApart(x) ==
  \A rows \in Built(x) :
    load_dataset(write_dataset(x.schema, rows, x.boundaries), x.schema) <=> RowsApart(rows)

LEMMA LoadsWhenApart ==
  ASSUME NEW x, ExperimentInput(x)
  PROVE  LoadsApart(x)
<1> SUFFICES ASSUME NEW rows \in Built(x)
             PROVE  load_dataset(write_dataset(x.schema, rows, x.boundaries), x.schema) <=> RowsApart(rows)
  BY DEF LoadsApart
<1>1. rows \in SUBSET DataRows(x) /\ BoundariesValid(x.boundaries) /\ Extracted(x)
  <2>1. rows = {r \in DataRows(x) : ~Dropped(r)} /\ BoundariesValid(x.boundaries) /\ Extracted(x)
    BY BuiltIs
  <2> QED BY <2>1
<1>2. FiledRows(x.schema, x.boundaries, rows)
  BY <1>1, BuiltIsFiled
<1>3. Balanced(rows)
  BY BuiltBalanced
<1>4. FilesOf(x.schema, rows, x.boundaries, write_dataset(x.schema, rows, x.boundaries))
  BY FilesAre
<1>5. x.boundaries \in Seq(Int)
  BY DEF ExperimentInput
<1> QED BY <1>1, <1>2, <1>3, <1>4, <1>5, WrittenLoads

BenignTraining(x) ==
  \A rows \in Built(x) :
    \A r \in rows : r.partition = "train" =>
      \A e \in ToSet(x.events), i \in DOMAIN x.scenarios :
        ~ /\ EntityOf(x.schema, e) = r.vector.entity /\ InWindow(e, r.vector.window_start)
          /\ x.scenarios[i].entity = r.vector.entity
          /\ x.scenarios[i].start <= e.at /\ e.at < x.scenarios[i].end

LEMMA TrainingBenign ==
  ASSUME NEW x, ExperimentInput(x)
  PROVE  BenignTraining(x)
<1> SUFFICES ASSUME NEW rows \in Built(x), NEW r \in rows, r.partition = "train",
                    NEW e \in ToSet(x.events), NEW i \in DOMAIN x.scenarios,
                    InWindow(e, r.vector.window_start), x.scenarios[i].entity = r.vector.entity,
                    x.scenarios[i].start <= e.at, e.at < x.scenarios[i].end
             PROVE  FALSE
  BY DEF BenignTraining
<1>1. BoundariesValid(x.boundaries) /\ Extracted(x) /\ r \in DataRows(x) /\ ~Dropped(r)
  <2>1. rows = {q \in DataRows(x) : ~Dropped(q)} /\ BoundariesValid(x.boundaries) /\ Extracted(x)
    BY BuiltIs
  <2> QED BY <2>1
<1>2. PICK t \in StartsOf(x) : \E n \in EntitiesOf(x.schema, WindowSet(x, t), t) :
                                r = TheRow(x, t, n) /\ RowFacts(x, t, n, r)
  BY <1>1, EachRow
<1>3. PICK n \in EntitiesOf(x.schema, WindowSet(x, t), t) : RowFacts(x, t, n, r)
  BY <1>2
<1>4. /\ t \in Int /\ r.vector.entity = n /\ r.vector.window_start = t /\ r.vector.window_end = t + 5
      /\ r.attack = _attack_scenario(r.vector, x.scenarios)
  BY <1>3 DEF RowFacts
<1>5. e.at \in Int /\ t <= e.at /\ e.at < t + 5
  <2>1. e.at \in Int
    BY ListIsListed DEF ExperimentInput
  <2> QED BY <1>4, <2>1 DEF InWindow, WINDOW
<1>6. i \in Hits(r.vector, x.scenarios)
  BY <1>4, <1>5, WithinHits
<1>7. _attack_scenario(r.vector, x.scenarios) # {}
  BY <1>6, ScenariosOf, AttackOf
<1> QED BY <1>1, <1>4, <1>7 DEF Dropped

\* The scenarios of an entity lie a window apart.
ScenariosApart(x) ==
  \A i, j \in DOMAIN x.scenarios :
    \/ i = j \/ x.scenarios[i].entity # x.scenarios[j].entity
    \/ x.scenarios[i].end + WINDOW <= x.scenarios[j].start
    \/ x.scenarios[j].end + WINDOW <= x.scenarios[i].start
WithinScenario(x, i, e) ==
  /\ EntityOf(x.schema, e) = x.scenarios[i].entity
  /\ x.scenarios[i].start <= e.at /\ e.at < x.scenarios[i].end
  /\ x.boundaries[1] <= e.at /\ e.at < x.boundaries[4]

\* Then an event within a scenario gives a row of it, in the partition of the
\* event.
LEMMA RowOfScenario ==
  ASSUME NEW x, ExperimentInput(x), ScenariosApart(x), BoundariesValid(x.boundaries), Extracted(x),
         NEW i \in DOMAIN x.scenarios, NEW e \in ToSet(x.events), WithinScenario(x, i, e)
  PROVE  \E r \in DataRows(x) : /\ r.attack = {x.scenarios[i]}
                              /\ r.partition = PartitionOf(x.boundaries, e.at)
<1> DEFINE t == FloorWindow(e.at)
           n == EntityOf(x.schema, e)
           r == TheRow(x, t, n)
           s == x.scenarios
<1>1. e.at \in Int
  BY ListIsListed DEF ExperimentInput
<1>2. /\ n = s[i].entity /\ s[i].start <= e.at /\ e.at < s[i].end
      /\ x.boundaries[1] <= e.at /\ e.at < x.boundaries[4]
  BY DEF WithinScenario
<1>3. t \in Int /\ t <= e.at /\ e.at < t + 5
  BY <1>1, FloorFacts
<1>4. t \in StartsOf(x) /\ e \in WindowSet(x, t)
  BY <1>2, StartOf, WindowOf
<1>5. n # Missing
  BY <1>2, ScenariosOf
<1>6. n \in EntitiesOf(x.schema, WindowSet(x, t), t)
  <2> HIDE DEF t
  <2> QED BY <1>4, <1>5, OwnIs
<1>7. PartitionOf(x.boundaries, t) = PartitionOf(x.boundaries, e.at)
  <2>1. x.boundaries \in Seq(Int)
    BY DEF ExperimentInput
  <2> QED BY <1>1, <1>2, <2>1, WindowInPartition
<1> HIDE DEF t, n
<1>8. RowFacts(x, t, n, r) /\ r \in DataRows(x)
  BY <1>4, <1>6, RowIs, RowsAre
<1> HIDE DEF r
<1>9. /\ r.vector.entity = n /\ r.vector.window_start = t /\ r.vector.window_end = t + 5
      /\ r.attack = _attack_scenario(r.vector, s) /\ r.partition = PartitionOf(x.boundaries, t)
  BY <1>8 DEF RowFacts
<1>10. i \in Hits(r.vector, s)
  BY <1>1, <1>2, <1>3, <1>9, WithinHits
<1>11. ASSUME NEW j \in Hits(r.vector, s), j # i
       PROVE  FALSE
  <2>1. /\ j \in DOMAIN s /\ s[j].entity = n /\ t < s[j].end /\ t + 5 > s[j].start
        /\ t < s[i].end /\ t + 5 > s[i].start
    BY <1>9, <1>10 DEF Hits
  <2>2. /\ s[i].start \in Int /\ s[i].end \in Int /\ s[j].start \in Int /\ s[j].end \in Int
    BY <2>1, ScenariosOf
  <2>3. s[i].end + 5 <= s[j].start \/ s[j].end + 5 <= s[i].start
    BY <1>2, <1>11, <2>1 DEF ScenariosApart, WINDOW
  <2> QED BY <1>3, <2>1, <2>2, <2>3
<1>12. r.attack = {s[i]}
  <2>1. Hits(r.vector, s) \subseteq {i}
    BY <1>11
  <2> QED BY <1>9, <1>10, <2>1, ScenariosOf, AttackOf
<1> QED BY <1>7, <1>8, <1>9, <1>12

OnePartitionEach(x) ==
  ScenariosApart(x) =>
    \A rows \in Built(x), i \in DOMAIN x.scenarios :
      \A e, f \in {e \in ToSet(x.events) : WithinScenario(x, i, e)} :
        PartitionOf(x.boundaries, e.at) = PartitionOf(x.boundaries, f.at)

LEMMA OnePartition ==
  ASSUME NEW x, ExperimentInput(x)
  PROVE  OnePartitionEach(x)
<1> SUFFICES ASSUME ScenariosApart(x), NEW rows \in Built(x), NEW i \in DOMAIN x.scenarios,
                    NEW e \in ToSet(x.events), NEW f \in ToSet(x.events),
                    WithinScenario(x, i, e), WithinScenario(x, i, f)
             PROVE  PartitionOf(x.boundaries, e.at) = PartitionOf(x.boundaries, f.at)
  BY DEF OnePartitionEach
<1>1. BoundariesValid(x.boundaries) /\ Extracted(x) /\ ~Straddles(DataRows(x))
  BY BuiltIs
<1>2. PICK r \in DataRows(x) : r.attack = {x.scenarios[i]} /\ r.partition = PartitionOf(x.boundaries, e.at)
  BY <1>1, RowOfScenario
<1>3. PICK q \in DataRows(x) : q.attack = {x.scenarios[i]} /\ q.partition = PartitionOf(x.boundaries, f.at)
  BY <1>1, RowOfScenario
<1>4. r.attack # {} /\ r.attack = q.attack
  BY <1>2, <1>3
<1> QED BY <1>1, <1>2, <1>3, <1>4 DEF Straddles

\* The files of a dataset with files of another one put in their place.
Mixed(F, v, l, k) == [F EXCEPT !.vectors = v, !.ledger = l, !.labels = k]

LEMMA MixedFields ==
  ASSUME NEW F, NEW a, NEW c, NEW d, NEW m, NEW v, NEW l, NEW k,
         F = [vectors |-> a, ledger |-> c, labels |-> d, manifest |-> m]
  PROVE  Mixed(F, v, l, k) = [vectors |-> v, ledger |-> l, labels |-> k, manifest |-> m]
<1> DEFINE M == Mixed(F, v, l, k)
<1>1. DOMAIN F = {"vectors", "ledger", "labels", "manifest"} /\ F.manifest = m
  OBVIOUS
<1>2. M = [n \in DOMAIN F |-> IF n = "labels" THEN k ELSE IF n = "ledger" THEN l
                             ELSE IF n = "vectors" THEN v ELSE F[n]]
  BY <1>1 DEF Mixed
<1> HIDE DEF M
<1>3. M = [vectors |-> v, ledger |-> l, labels |-> k, manifest |-> m]
  BY <1>1, <1>2
<1> QED BY <1>3 DEF M

LEMMA MixedIsWhole ==
  ASSUME NEW schema, NEW b, NEW R, NEW Q, NEW v, NEW l, NEW k,
         v \in {write_dataset(schema, R, b).vectors, write_dataset(schema, Q, b).vectors},
         load_dataset(Mixed(write_dataset(schema, R, b), v, l, k), schema)
  PROVE  Mixed(write_dataset(schema, R, b), v, l, k) = write_dataset(schema, R, b)
<1> DEFINE F == write_dataset(schema, R, b)
           G == write_dataset(schema, Q, b)
           files == Mixed(F, v, l, k)
<1>1. /\ F.vectors = [name \in PARTITIONS |-> VectorsIn(R, name)]
      /\ F.ledger = [name \in PARTITIONS |-> [vectors |-> VectorsIn(R, name), members |-> MembersIn(R, name)]]
      /\ F.manifest.ledger = F.ledger /\ F.manifest.labels = F.labels
  <2>1. FilesOf(schema, R, b, F)
    BY FilesAre
  <2> HIDE DEF F
  <2> QED BY <2>1, Zenon DEF FilesOf
<1>2. G.vectors = [name \in PARTITIONS |-> VectorsIn(Q, name)]
  <2>1. FilesOf(schema, Q, b, G)
    BY FilesAre
  <2> HIDE DEF G
  <2> QED BY <2>1, Zenon DEF FilesOf
<1>3. F = [vectors |-> F.vectors, ledger |-> F.ledger, labels |-> F.labels, manifest |-> F.manifest]
  BY DEF write_dataset
<1> HIDE DEF F, G
<1>4. files = [vectors |-> v, ledger |-> l, labels |-> k, manifest |-> F.manifest]
  BY <1>3, MixedFields
<1> HIDE DEF files
<1>5. /\ files.vectors = v /\ files.ledger = l /\ files.labels = k /\ files.manifest = F.manifest
  BY <1>4
<1>6. /\ files.ledger = files.manifest.ledger /\ files.labels = files.manifest.labels
      /\ \A name \in PARTITIONS : files.vectors[name] = files.ledger[name].vectors
  <2>1. load_dataset(files, schema)
    BY DEF files, F
  <2> QED BY <2>1, Zenon DEF load_dataset, validate_partitions, load_labels, PartitionValid
<1>7. l = F.ledger /\ k = F.labels
  BY <1>1, <1>5, <1>6
<1>8. \A name \in PARTITIONS : v[name] = F.vectors[name]
  <2> TAKE name \in PARTITIONS
  <2>1. v[name] = F.ledger[name].vectors
    BY <1>5, <1>6, <1>7
  <2>2. F.ledger[name] = [vectors |-> VectorsIn(R, name), members |-> MembersIn(R, name)]
    BY <1>1
  <2>3. F.vectors[name] = VectorsIn(R, name)
    BY <1>1
  <2> QED BY <2>1, <2>2, <2>3
<1>9. v = F.vectors
  <2>1. v \in {F.vectors, G.vectors}
    BY DEF F, G
  <2>2. v = [name \in PARTITIONS |-> v[name]]
    BY <1>1, <1>2, <2>1
  <2> QED BY <1>1, <1>8, <2>2
<1> QED BY <1>3, <1>4, <1>7, <1>9 DEF files, F

NoMixing(x, others) ==
  \A rows \in Built(x), other \in others :
    LET F == write_dataset(x.schema, rows, x.boundaries)
        G == write_dataset(x.schema, other, x.boundaries)
    IN  \A v \in {F.vectors, G.vectors}, l \in {F.ledger, G.ledger}, k \in {F.labels, G.labels} :
          load_dataset(Mixed(F, v, l, k), x.schema) => Mixed(F, v, l, k) = F

LEMMA NeverMixed ==
  ASSUME NEW x, NEW others
  PROVE  NoMixing(x, others)
<1> DEFINE W(R) == write_dataset(x.schema, R, x.boundaries)
<1>1. ASSUME NEW rows, NEW other, NEW v \in {W(rows).vectors, W(other).vectors}, NEW l, NEW k
      PROVE  load_dataset(Mixed(W(rows), v, l, k), x.schema) => Mixed(W(rows), v, l, k) = W(rows)
  BY MixedIsWhole
<1> QED BY <1>1, Zenon DEF NoMixing

\* For every list of events, scenarios and boundaries: a dataset that was built
\* loads exactly when its partitions share no event and no session, its
\* training partition has no event from within a scenario, no scenario has
\* events in two partitions, and training takes no mixture of two datasets.
THEOREM NoLeakageHolds == AlgorithmsSpec => []NoLeakage
<1>0. ExperimentInputs
  BY InputAssumption
<1>1. Inputs => NoLeakage
  <2>1. SUFFICES ASSUME NEW x, ExperimentInput(x), input.of = "experiment", input.value = x
                 PROVE  NoLeakage
    <3>1. ASSUME input.of = "experiment", Inputs
          PROVE  ExperimentInput(input.value)
      BY <1>0, <3>1 DEF ExperimentInputs, Inputs
    <3> QED BY <3>1, Zenon DEF NoLeakage, BuiltLoads, TrainIsBenign, ScenarioInOnePartition,
                               MixedFilesRefused, Given
  <2>2. BuiltLoads
    <3>1. LoadsApart(x)
      BY <2>1, LoadsWhenApart
    <3>2. LoadsApart(input.value) => BuiltLoads
      BY Zenon DEF LoadsApart, RowsApart, BuiltLoads, Given
    <3> QED BY <2>1, <3>1, <3>2, Zenon
  <2>3. TrainIsBenign
    <3>1. BenignTraining(x)
      BY <2>1, TrainingBenign
    <3>2. BenignTraining(input.value) => TrainIsBenign
      BY Zenon DEF BenignTraining, TrainIsBenign, Given
    <3> QED BY <2>1, <3>1, <3>2, Zenon
  <2>4. ScenarioInOnePartition
    <3>1. OnePartitionEach(x)
      BY <2>1, OnePartition
    <3>2. OnePartitionEach(input.value) => ScenarioInOnePartition
      BY Zenon DEF OnePartitionEach, ScenariosApart, WithinScenario, ScenarioInOnePartition, Given
    <3> QED BY <2>1, <3>1, <3>2, Zenon
  <2>5. MixedFilesRefused
    <3> DEFINE Others(y) == Built([y EXCEPT !.events[1].sent = 7])
                              \cup UNION {Built([y EXCEPT !.scenarios = s]) : s \in ScenarioFiles}
    <3>1. NoMixing(x, Others(x))
      <4> HIDE DEF Others
      <4> QED BY NeverMixed
    <3>2. NoMixing(input.value, Others(input.value)) => MixedFilesRefused
      BY Zenon DEF NoMixing, Mixed, MixedFilesRefused, Given
    <3> HIDE DEF Others
    <3> QED BY <2>1, <3>1, <3>2, Zenon
  <2> QED BY <2>2, <2>3, <2>4, <2>5 DEF NoLeakage
<1> QED BY <1>1, AlwaysInputs, PTL
=============================================================================
