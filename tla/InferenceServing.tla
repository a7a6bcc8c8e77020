---------------------------- MODULE InferenceServing ----------------------------
(***************************************************************************)
(* Inference.  The library composes the fitted pipeline with the decision  *)
(* engine: a request becomes a frame of one row, which every stage         *)
(* transforms before the models see it.  The service is the deployment of  *)
(* the same engine without a pipeline: replicas load the bundle of the     *)
(* production version, answer the backend's calls over HTTP and report     *)
(* each outcome to a window of events they share in Redis.  Training jobs  *)
(* run elsewhere: the stage tells which of the three a behaviour is of.    *)
(***************************************************************************)
EXTENDS Preprocessing, DecisionPolicy, ModelTraining

CONSTANTS
    Requests,           \* raw requests: owner, columns in order, cells
    Required,           \* columns a decision needs
    MaxDecisions,       \* bound on the decisions of the library
    Calls,              \* calls of the backend
    Replicas,
    Versions,           \* model versions of the registry
    Servable,           \* those whose one artifact is a valid bundle
    None,               \* no version, no replica
    Limit,              \* calls admitted in a window of the rate limit
    Retention,          \* events kept
    Answers,            \* probabilities the models of the service give
    FraudWeight         \* probability of an anomaly -> the share of it that counts

ASSUME InferenceAssumption ==
    /\ \A r \in Requests : /\ r.cols \in Seq(ToSet(r.cols))
                           /\ r.cell \in [ToSet(r.cols) -> Value]
    /\ None \notin Versions \cup Replicas
    /\ Servable \subseteq Versions
    /\ Limit \in Nat /\ Retention \in Nat \ {0} /\ MaxDecisions \in Nat
    /\ Answers \subseteq Probability
    /\ FraudWeight \in [Probability -> Probability]

VARIABLES
    decisions,      \* what the library decided
    production,     \* the registry's production version
    loaded,         \* the version each replica serves
    call,           \* each call, at the backend and at the replica
    hits,           \* calls counted in the rate limit's window
    reachable,      \* Redis answers
    window,         \* the events kept (they expire when no call is made for a while)
    reported        \* history: the events that reached Redis

serving == <<production, loaded, call, hits, reachable, window, reported>>
vars == <<preprocessing, training, decisions, serving>>

NoCall == [caller |-> "idle", server |-> "none", replica |-> None, complete |-> FALSE,
           credit |-> Failed, anomaly |-> Failed, told |-> FALSE]
Unavailable == [NoCall EXCEPT !.caller = "unavailable"]

Init ==
    /\ \/ PreprocessingInit
       \/ /\ cfg = <<>> /\ frame = <<>> /\ fitted = Nothing /\ kept = 0 /\ pairs = {}
          /\ stage \in {"service", "training"}
    /\ TrainingInit
    /\ decisions = {}
    /\ production = None /\ loaded = [p \in Replicas |-> None]
    /\ call = [c \in Calls |-> NoCall]
    /\ hits = 0 /\ reachable = TRUE /\ window = <<>> /\ reported = <<>>

(***************************************************************************)
(* The library: EnterpriseInferenceEngine.                                 *)
(***************************************************************************)

\* InferenceValidator.validate: required keys, whatever their values
Valid(r) == r.cols # <<>> /\ Required \subseteq ToSet(r.cols)

Raw(r) == FrameOf(<<[label |-> 1, who |-> r.who, cell |-> r.cell]>>, r.cols)

\* all(notna) of the required columns, of a row as the pipeline left it
Complete(f) == \A c \in Required :
    c \in Columns(f) /\ \A row \in ToSet(f.rows) : row.cell[c] # Missing

\* The models may answer on any row, also one with gaps, and a number or not; but
\* there is no first probability of no row.
Infer(r) ==
    /\ stage = "trained" /\ Cardinality(decisions) < MaxDecisions
    /\ Valid(r)
    /\ LET raw == Raw(r)
           processed == Transformed(raw)
       IN  /\ processed.ok
           /\ \E credit \in Probability \cup {NaN, Failed},
                 fraud \in Probability \cup {NaN, Failed, Absent} :
                  /\ credit # Failed => processed.rows # <<>>
                  /\ decisions' = decisions \cup
                         {[raw |-> raw, row |-> processed,
                           verdict |-> Decision(credit, fraud, Complete(processed))]}
    /\ UNCHANGED <<preprocessing, training, serving>>

FitLibrary == Fit /\ UNCHANGED <<training, decisions, serving>>

RunTraining == stage = "training" /\ Training /\ UNCHANGED <<preprocessing, decisions, serving>>

(***************************************************************************)
(* The service.                                                            *)
(***************************************************************************)
Service == stage = "service" /\ UNCHANGED <<preprocessing, training, decisions>>

Put(c, change) == call' = [call EXCEPT ![c] = change]

\* The registry's production version is replaced.
Replace(v) ==
    /\ Service /\ production # v
    /\ production' = v
    /\ UNCHANGED <<loaded, call, hits, reachable, window, reported>>

\* CanonicalRuntime.load_production, and the ping of the monitor
Startup(p) ==
    /\ Service /\ loaded[p] = None
    /\ production \in Servable /\ reachable
    /\ loaded' = [loaded EXCEPT ![p] = production]
    /\ UNCHANGED <<production, call, hits, reachable, window, reported>>

\* A replica dies: its connections are reset.
Crash(p) ==
    /\ Service /\ loaded[p] # None
    /\ loaded' = [loaded EXCEPT ![p] = None]
    /\ call' = [c \in Calls |->
           IF call[c].replica = p THEN Unavailable ELSE call[c]]
    /\ UNCHANGED <<production, hits, reachable, window, reported>>

\* RedisRateLimiter.enforce: the call that exceeds the limit is counted too
Admit(c) ==
    /\ Service /\ call[c] = NoCall
    /\ hits' = IF reachable THEN hits + 1 ELSE hits
    /\ Put(c, [NoCall EXCEPT !.caller = IF ~reachable THEN "unavailable"
                                        ELSE IF hits + 1 > Limit THEN "refused" ELSE "admitted"])
    /\ UNCHANGED <<production, loaded, reachable, window, reported>>

WindowEnds ==
    /\ Service /\ reachable /\ hits > 0
    /\ hits' = 0
    /\ UNCHANGED <<production, loaded, call, reachable, window, reported>>

\* MLClient sends the request to a replica, or finds none.
Send(c) ==
    /\ Service /\ call[c].caller = "admitted"
    /\ \/ \E p \in Replicas, complete \in BOOLEAN :
              /\ loaded[p] # None
              /\ Put(c, [call[c] EXCEPT !.caller = "waiting", !.server = "computing",
                             !.replica = p, !.complete = complete])
       \/ /\ \A p \in Replicas : loaded[p] = None
          /\ Put(c, Unavailable)
    /\ UNCHANGED <<production, loaded, hits, reachable, window, reported>>

\* BaseTrainer.predict_proba and FraudDetectionPipeline.analyze, of one row
CreditAnswers == Answers \cup {Failed}
AnomalyAnswers == Answers \cup {Failed}

\* CanonicalRuntime._predict: each model answers or fails.
Predict(c) ==
    /\ Service /\ call[c].server = "computing"
    /\ \E credit \in CreditAnswers, anomaly \in AnomalyAnswers :
           Put(c, [call[c] EXCEPT !.server = "computed", !.credit = credit, !.anomaly = anomaly])
    /\ UNCHANGED <<production, loaded, hits, reachable, window, reported>>

\* ... or what follows them raises: an unsafe artifact, an explanation
Break(c) ==
    /\ Service /\ call[c].server = "computing"
    /\ Put(c, [call[c] EXCEPT !.server = "broken"])
    /\ UNCHANGED <<production, loaded, hits, reachable, window, reported>>

\* Mutant: the bound is that of the events already kept.
TrimmedBefore(events) ==
    IF Len(events) > Retention + 1
    THEN SubSeq(events, Len(events) - Retention, Len(events)) ELSE events

\* LTRIM key -retention -1
Trimmed(events) ==
    IF Len(events) > Retention
    THEN SubSeq(events, Len(events) - Retention + 1, Len(events)) ELSE events

\* The event of an outcome: one transaction of Redis, or a line in the log
Report(c) ==
    /\ Service /\ call[c].server \in {"computed", "broken"}
    /\ LET event == [call |-> c, success |-> call[c].server = "computed"]
       IN  IF reachable
           THEN /\ window' = Trimmed(Append(window, event))
                /\ reported' = Append(reported, event)
           ELSE UNCHANGED <<window, reported>>
    /\ Put(c, [call[c] EXCEPT !.server = IF @ = "computed" THEN "answering" ELSE "failing",
                              !.told = reachable])
    /\ UNCHANGED <<production, loaded, hits, reachable>>

\* The response arrives: MLClient takes one that meets its contract.
Answer(c) ==
    /\ Service /\ call[c].server \in {"answering", "failing"}
    /\ Put(c, IF call[c].caller = "waiting" /\ call[c].server = "answering"
              THEN [call[c] EXCEPT !.caller = "answered", !.server = "none", !.replica = None]
              ELSE Unavailable)
    /\ UNCHANGED <<production, loaded, hits, reachable, window, reported>>

\* The backend stops waiting; the replica goes on.
TimeOut(c) ==
    /\ Service /\ call[c].caller = "waiting"
    /\ Put(c, [call[c] EXCEPT !.caller = "unavailable"])
    /\ UNCHANGED <<production, loaded, hits, reachable, window, reported>>

RedisChanges ==
    /\ Service
    /\ reachable' = ~reachable
    /\ UNCHANGED <<production, loaded, call, hits, window, reported>>

ServiceNext ==
    \/ \E v \in Versions : Replace(v)
    \/ \E p \in Replicas : Startup(p) \/ Crash(p)
    \/ WindowEnds \/ RedisChanges
    \/ \E c \in Calls :
           Admit(c) \/ Send(c) \/ Predict(c) \/ Break(c) \/ Report(c) \/ Answer(c) \/ TimeOut(c)

Next == FitLibrary \/ RunTraining \/ (\E r \in Requests : Infer(r)) \/ ServiceNext

Spec == Init /\ [][Next]_vars

(***************************************************************************)
(* What an answer of the service says.                                     *)
(***************************************************************************)

\* FraudScoringEngine.score of the one signal the service has
Screened(anomaly) == IF anomaly = Failed THEN Failed ELSE FraudWeight[Clamped(anomaly)]

Verdict(c) == Decision(call[c].credit, Screened(call[c].anomaly), call[c].complete)

\* The probability of the decision, or 0.0, is scored as an anomaly again.
Rescored(c) == IF Screened(call[c].anomaly) = Failed THEN FraudWeight[0]
               ELSE FraudWeight[Screened(call[c].anomaly)]

ReportedSeverity(c) ==
    CASE FraudLevel(Rescored(c)) \in {"very_low", "low"} -> "low"
      [] FraudLevel(Rescored(c)) = "moderate" -> "medium"
      [] OTHER -> FraudLevel(Rescored(c))

Answered == {c \in Calls : call[c].caller = "answered"}

(***************************************************************************)
(* Properties.                                                             *)
(***************************************************************************)

\* Where no fallback of the configuration is an approval, no failure, timeout or
\* stage of the pipeline makes one: it has a credit answer that is approved, a
\* fraud answer below the levels that block, and a value in each required column
\* of the row as the pipeline left it (DecisionEngine.decide, CanonicalRuntime).
\* Gaps elsewhere are the models' affair, and NaN is the probability 0.
ApprovalEarned ==
    "approve" \notin Fallbacks =>
        /\ \A d \in decisions : d.verdict.action = "approve" =>
               /\ Earned(d.verdict)
               /\ d.row.rows # <<>> /\ Required \subseteq Columns(d.row)
               /\ \A c \in Required, row \in ToSet(d.row.rows) : row.cell[c] # Missing
        /\ \A c \in Answered : Verdict(c).action = "approve" => Earned(Verdict(c))

\* Whatever words, gaps and order of columns a request has, a pipeline that
\* answers gives the models the schema they were trained on, the requester's
\* row or none, and no gap in a column that was filled at training time.
FilledBy(c) == /\ c \in DOMAIN fitted.fills
               /\ fitted.fills[c].strategy \notin Directional
               /\ fitted.fills[c].value # Missing
SchemaHeld == \A d \in decisions :
    ToSet(d.raw.cols) = ToSet(cfg.cols) =>
        /\ ToSet(d.row.cols) = ToSet(fitted.trained)
        /\ On("select") \/ d.raw.cols = cfg.cols => d.row.cols = fitted.trained
        /\ Len(d.row.rows) <= 1
        /\ \A row \in ToSet(d.row.rows) : /\ row.who = d.raw.rows[1].who
                                          /\ \A c \in Columns(d.row) : FilledBy(c) => row.cell[c] # Missing

\* The replicas' window holds the latest outcomes, each reported once and in
\* order, as many as are kept; Redis away when a call ends costs its event, not
\* the answer, and any other answer was reported.
OutcomesReported ==
    /\ Len(window) <= Retention
    /\ window = SubSeq(reported, Len(reported) - Len(window) + 1, Len(reported))
    /\ Len(reported) >= Retention => Len(window) = Retention
    /\ \A i, j \in DOMAIN reported : reported[i].call = reported[j].call => i = j
    /\ \A c \in Answered : call[c].told =>
           \E i \in DOMAIN reported : reported[i] = [call |-> c, success |-> TRUE]

\* FRAUD_CASE_MANAGEMENT.md: the screening of a loan that is not low becomes
\* an alert; the backend raises one for every reported severity but low.
ScreeningsAlert == \A c \in Answered :
    Screened(call[c].anomaly) # Failed
        /\ FraudLevel(Screened(call[c].anomaly)) \notin {"very_low", "low"}
    => ReportedSeverity(c) # "low"
=================================================================================
