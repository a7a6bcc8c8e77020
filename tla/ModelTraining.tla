----------------------------- MODULE ModelTraining -----------------------------
(***************************************************************************)
(* A training job: the rows are split, the algorithms of the zoo are       *)
(* trained on one part and evaluated on the other, a champion is selected, *)
(* saved and registered.  Any step may raise, which ends the job and       *)
(* leaves what it has stored; a registered artifact is loaded behind its   *)
(* checksum.                                                               *)
(***************************************************************************)
EXTENDS Integers, Sequences, FiniteSets, SequencesExt

CONSTANTS
    Examples, Positives,     \* labelled rows, those of label 1
    Zoos,               \* sequences of [algorithm, params]
    Supported,          \* algorithms with a trainer whose library is installed
    Scores,             \* of the cross-validation, of a report
    Paths,              \* where artifacts are saved
    MaxJobs             \* bound on the jobs of a behaviour

\* What the zoos of the configuration list
Configs == UNION {ToSet(zoo) : zoo \in Zoos}

ASSUME TrainingAssumption ==
    /\ Zoos \subseteq Seq(Configs)
    /\ Positives \subseteq Examples /\ Scores \subseteq Int /\ MaxJobs \in Nat

VARIABLES
    job,            \* the job, as far as it came
    jobs,           \* jobs so far
    stored,         \* files of the artifact store
    registered,     \* registered champions, with what they were selected by
    served          \* the artifacts loaded, with their records

training == <<job, jobs, stored, registered, served>>

NoJob == [phase |-> "none", zoo |-> <<>>, train |-> {}, holdout |-> {}, trainers |-> <<>>,
          results |-> <<>>, reports |-> <<>>, champion |-> 0, path |-> "none"]

TrainingInit ==
    job = NoJob /\ jobs = 0 /\ stored = <<>> /\ registered = {} /\ served = {}

Progress(change) == job' = change /\ UNCHANGED <<jobs, stored, registered, served>>
Extended(f, key, value) == [k \in DOMAIN f \cup {key} |-> IF k = key THEN value ELSE f[k]]

\* The rows of a CreditDataset by their label; both parts of a split have some
\* of each.
Classes == {Positives, Examples \ Positives}
Splits == {H \in SUBSET Examples : \A class \in Classes : class \cap H # {} /\ class \ H # {}}

\* CreditTrainingOrchestrator.run, with the split of CreditDataset
Split ==
    /\ job = NoJob /\ jobs < MaxJobs
    /\ \E zoo \in Zoos, holdout \in Splits :
           job' = [NoJob EXCEPT !.phase = "training", !.zoo = zoo,
                       !.train = Examples \ holdout, !.holdout = holdout]
    /\ jobs' = jobs + 1
    /\ UNCHANGED <<stored, registered, served>>

\* BaseTrainer.train: the model of a configuration, and the mean of its folds
Fitted(config, rows) == [algorithm |-> config.algorithm, params |-> config.params, rows |-> rows]
Scored(config, score) == [algorithm |-> config.algorithm, params |-> config.params, score |-> score]

Trainable(config) == config.algorithm \in Supported

\* TrainingPipeline.run: one trainer is kept for an algorithm.
Train ==
    /\ job.phase = "training" /\ job.zoo # <<>>
    /\ LET config == Head(job.zoo)
           rest == [job EXCEPT !.zoo = Tail(@)]
       IN  IF ~Trainable(config) THEN Progress(rest)
           ELSE \E score \in Scores :
               Progress([rest EXCEPT
                   !.trainers = Extended(@, config.algorithm, Fitted(config, job.train)),
                   !.results = Append(@, Scored(config, score))])

\* CreditModelEvaluator.evaluate: the report on a model, with the composite of
\* its metrics and whether it passes the gates
Measured(name, trainer, rows, score, eligible) ==
    [model |-> name, trainer |-> trainer, rows |-> rows, score |-> score, eligible |-> eligible]

\* The model kept for each result's algorithm is evaluated on the holdout.
Evaluate ==
    /\ job.phase = "training" /\ job.zoo = <<>> /\ Len(job.reports) < Len(job.results)
    /\ LET name == job.results[Len(job.reports) + 1].algorithm
       IN  \E score \in Scores, eligible \in BOOLEAN :
               Progress([job EXCEPT !.reports = Append(@,
                   Measured(name, job.trainers[name], job.holdout, score, eligible))])

\* Eligible reports before the others, then the highest score
Best(reports) == {k \in DOMAIN reports : \A l \in DOMAIN reports :
    /\ reports[l].eligible => reports[k].eligible
    /\ reports[k].eligible = reports[l].eligible => reports[k].score >= reports[l].score}

NamesUnique == \A k, l \in DOMAIN job.reports : job.reports[k].model = job.reports[l].model => k = l

\* Mutant: reports are not told apart.
CompareAmbiguous ==
    /\ job.phase = "training" /\ job.zoo = <<>>
    /\ job.results # <<>> /\ Len(job.reports) = Len(job.results)
    /\ \E k \in DOMAIN job.reports : job.reports[k].eligible
    /\ \E k \in Best(job.reports) : Progress([job EXCEPT !.phase = "selected", !.champion = k])

\* ModelComparisonService.compare, which requires an eligible model by default
Compare ==
    /\ job.phase = "training" /\ job.zoo = <<>>
    /\ job.results # <<>> /\ Len(job.reports) = Len(job.results)
    /\ NamesUnique
    /\ \E k \in DOMAIN job.reports : job.reports[k].eligible
    /\ \E k \in Best(job.reports) : Progress([job EXCEPT !.phase = "selected", !.champion = k])

Champion == job.trainers[job.reports[job.champion].model]

\* ArtifactStore.save writes the file in place ...
Dump ==
    /\ job.phase = "selected"
    /\ \E path \in Paths :
           /\ job' = [job EXCEPT !.phase = "dumping", !.path = path]
           /\ stored' = Extended(stored, path, [whole |-> FALSE, trainer |-> Champion])
    /\ UNCHANGED <<jobs, registered, served>>

\* ... and takes the checksum when it is written.
Saved ==
    /\ job.phase = "dumping"
    /\ job' = [job EXCEPT !.phase = "saved"]
    /\ stored' = [stored EXCEPT ![job.path].whole = TRUE]
    /\ UNCHANGED <<jobs, registered, served>>

\* TrainingRegistrationService.register: a result of the selected algorithm
\* and the artifact
Register ==
    /\ job.phase = "saved"
    /\ \E k \in DOMAIN job.results :
           /\ job.results[k].algorithm = job.reports[job.champion].model
           /\ registered' = registered \cup
                  {[path |-> job.path, checksum |-> stored[job.path], result |-> job.results[k],
                    reports |-> job.reports, champion |-> job.champion]}
    /\ job' = NoJob
    /\ UNCHANGED <<jobs, stored, served>>

\* An exception, a refused comparison or a crash
Abandon == job # NoJob /\ Progress(NoJob)

\* ArtifactStore.load, by the record of the artifact
Load(record) ==
    /\ record.path \in DOMAIN stored /\ stored[record.path] = record.checksum
    /\ served' = served \cup {[record |-> record, artifact |-> stored[record.path]]}
    /\ UNCHANGED <<job, jobs, stored, registered>>

Training ==
    \/ Split \/ Train \/ Evaluate \/ Compare \/ Dump \/ Saved \/ Register \/ Abandon
    \/ \E record \in registered : Load(record)

(***************************************************************************)
(* Properties.                                                             *)
(***************************************************************************)

\* What is registered and what is loaded is the model the comparison selected:
\* the trainer of the best eligible report, with its own training result, and
\* no row it was evaluated on was among those it was fitted to - whatever the
\* zoo names twice or lacks, whatever raises and whatever file is overwritten.
ChampionMeasured ==
    /\ \A r \in registered :
           LET report == r.reports[r.champion] IN
           /\ r.checksum.whole /\ r.checksum.trainer = report.trainer
           /\ report.eligible /\ report.rows \cap report.trainer.rows = {}
           /\ \A k \in DOMAIN r.reports :
                  r.reports[k].eligible => r.reports[k].score <= report.score
           /\ r.result.params = report.trainer.params
    /\ \A s \in served : s.artifact.whole
                         /\ s.artifact.trainer = s.record.reports[s.record.champion].trainer
================================================================================
