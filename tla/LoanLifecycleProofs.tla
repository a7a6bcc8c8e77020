------------------------- MODULE LoanLifecycleProofs -------------------------
(***************************************************************************)
(* What TLAPS proves of LoanLifecycle, for any loans, sessions, alerts,    *)
(* settings and amounts and any number of requests.                        *)
(***************************************************************************)
EXTENDS LoanLifecycle, SequenceTheorems, TLAPS

(***************************************************************************)
(* Workflow events.                                                        *)
(***************************************************************************)
LEMMA StepsProperties ==
  ASSUME NEW from \in LoanStatus, NEW path \in Seq(LoanStatus)
  PROVE  /\ Steps(from, path) \in Seq(Event)
         /\ Len(Steps(from, path)) = Len(path)
         /\ \A i \in 1..Len(path) :
              /\ Steps(from, path)[i].from = Source(from, path, i)
              /\ Steps(from, path)[i].to = path[i]
<1> DEFINE row(i) == [from |-> Source(from, path, i), to |-> path[i]]
<1>1. Len(path) \in Nat
  OBVIOUS
<1>2. \A i \in 1..Len(path) : path[i] \in LoanStatus
  BY ElementOfSeq
<1>3. \A i \in 1..Len(path) : Source(from, path, i) \in LoanStatus
  BY <1>1, <1>2 DEF Source
<1>4. \A i \in 1..Len(path) : row(i) \in Event
  BY <1>2, <1>3 DEF Event
<1>5. Steps(from, path) = [i \in 1..Len(path) |-> row(i)]
  BY DEF Steps
<1> HIDE DEF row
<1>6. [i \in 1..Len(path) |-> row(i)] \in [1..Len(path) -> Event]
  BY <1>4
<1>7. Steps(from, path) \in Seq(Event)
  BY <1>1, <1>5, <1>6, SeqDef
<1>8. Len(Steps(from, path)) = Len(path)
  BY <1>1, <1>5, <1>6, <1>7, LenProperties
<1>9. QED
  BY <1>5, <1>7, <1>8 DEF row

(***************************************************************************)
(* Type correctness.                                                       *)
(***************************************************************************)
LEMMA ServingType ==
  ASSUME TypeOK, NEW s \in Sessions, Serving(s)
  PROVE  request[s] \in Request
BY DEF TypeOK, Serving, Disposition, Idle

LEMMA DisposingType ==
  ASSUME TypeOK, NEW s \in Sessions, Working(s, "disposing")
  PROVE  request[s] \in Disposition
<1>1. request[s] \notin Request
  BY DEF Request, Working
<1>2. request[s] # Idle
  BY DEF Idle, Working
<1>3. QED
  BY <1>1, <1>2 DEF TypeOK

LEMMA FlushType ==
  ASSUME TypeOK, NEW s \in Sessions, Serving(s),
         NEW path \in Seq(LoanStatus), path # <<>>,
         NEW phase \in {"analysing", "flushed"},
         Flush(s, path, phase)
  PROVE  TypeOK'
<1>1. request[s] \in Request
  BY ServingType
<1> DEFINE r == request[s]
           next == [r EXCEPT !.phase = phase, !.seen = path[Len(path)],
                             !.pending = r.pending \o Steps(r.seen, path)]
<1>2. r.seen \in LoanStatus /\ r.pending \in Seq(Event)
  BY <1>1 DEF Request
<1>3. path[Len(path)] \in LoanStatus
  BY EmptySeq, ElementOfSeq
<1>4. r.pending \o Steps(r.seen, path) \in Seq(Event)
  BY <1>2, StepsProperties, ConcatProperties
<1>5. next \in Request
  BY <1>1, <1>3, <1>4 DEF Request
<1>6. request' = [request EXCEPT ![s] = next]
  BY DEF Flush
<1>7. request' \in [Sessions -> Request \cup Disposition \cup {Idle}]
  BY <1>5, <1>6 DEF TypeOK
<1>8. QED
  BY <1>7 DEF Flush, TypeOK, loanRows

LEMMA PublishType ==
  ASSUME TypeOK, NEW s \in Sessions, Serving(s), Publish(s)
  PROVE  /\ status' \in [Loans -> LoanStatus]
         /\ events' \in [Loans -> Seq(Event)]
         /\ request' \in [Sessions -> Request \cup Disposition \cup {Idle}]
         /\ policy' \in Policies
         /\ served' \in Nat
<1>1. request[s] \in Request
  BY ServingType
<1>2. /\ request[s].loan \in Loans /\ request[s].seen \in LoanStatus
      /\ request[s].pending \in Seq(Event)
  BY <1>1 DEF Request
<1>3. events[request[s].loan] \o request[s].pending \in Seq(Event)
  BY <1>2, ConcatProperties DEF TypeOK
<1>4. QED
  BY <1>2, <1>3 DEF Publish, TypeOK

\* Steps that only rewrite a request, keep its loan and flush nothing.
LEMMA RequestStepType ==
  ASSUME TypeOK, NEW s \in Sessions,
         NEW next \in Request \cup Disposition \cup {Idle},
         request' = [request EXCEPT ![s] = next],
         UNCHANGED <<status, events, alerts, policy, loanRows>>,
         served' \in Nat
  PROVE  TypeOK'
BY DEF TypeOK, loanRows

LEMMA PathsAreSequences ==
  /\ <<"submitted", "under_review">> \in Seq(LoanStatus)
  /\ <<"ai_risk_analysis">> \in Seq(LoanStatus)
  /\ <<"disbursed", "active">> \in Seq(LoanStatus)
  /\ <<"closed">> \in Seq(LoanStatus)
  /\ \A to \in LoanStatus : <<to>> \in Seq(LoanStatus)
  /\ \A seen : ScreeningPath(seen) \in Seq(LoanStatus)
  /\ \A d : DecisionTarget(d) \in LoanStatus
<1>1. /\ <<"submitted", "under_review">> \in Seq(LoanStatus)
      /\ <<"ai_risk_analysis">> \in Seq(LoanStatus)
      /\ <<"disbursed", "active">> \in Seq(LoanStatus)
      /\ <<"closed">> \in Seq(LoanStatus)
      /\ <<"officer_review">> \in Seq(LoanStatus)
      /\ <<"fraud_screening", "officer_review">> \in Seq(LoanStatus)
      /\ <<>> \in Seq(LoanStatus)
  BY DEF LoanStatus
<1>2. \A to \in LoanStatus : <<to>> \in Seq(LoanStatus)
  OBVIOUS
<1>3. ASSUME NEW seen
      PROVE  ScreeningPath(seen) \in Seq(LoanStatus)
  <2>1. \/ ScreeningPath(seen) = <<"fraud_screening", "officer_review">>
        \/ ScreeningPath(seen) = <<"officer_review">>
        \/ ScreeningPath(seen) = <<>>
    BY Zenon DEF ScreeningPath
  <2>2. QED
    BY <1>1, <2>1
<1>4. \A d : DecisionTarget(d) \in LoanStatus
  BY DEF DecisionTarget, LoanStatus
<1>5. QED
  BY <1>1, <1>2, <1>3, <1>4

LEMMA AdvanceType ==
  ASSUME TypeOK, AlertLocked, NEW s \in Sessions, Advance(s)
  PROVE  TypeOK'
<1> DEFINE r == request[s]
<1>1. CASE SubmitWrite(s)
  <2>1. Serving(s)
    BY <1>1 DEF SubmitWrite, Working, Serving
  <2>2. QED
    BY <1>1, <2>1, FlushType, PathsAreSequences DEF SubmitWrite
<1>2. CASE \E to \in LoanStatus : TransitionWrite(s, to)
  <2>1. Serving(s)
    BY <1>2 DEF TransitionWrite, Working, Serving
  <2>2. PICK to \in LoanStatus : TransitionWrite(s, to)
    BY <1>2
  <2>3. QED
    BY <2>1, <2>2, FlushType, PathsAreSequences DEF TransitionWrite
<1>3. CASE WorkflowCommit(s)
  <2>1. Serving(s)
    BY <1>3 DEF WorkflowCommit, Working, Serving
  <2>2. QED
    BY <1>3, <2>1, PublishType DEF WorkflowCommit, TypeOK, loanRows
<1>4. CASE FraudClearance(s)
  <2>1. r \in Request
    BY <1>4, ServingType DEF FraudClearance, Working, Serving
  <2>2. [r EXCEPT !.phase = "cleared"] \in Request
    BY <2>1 DEF Request
  <2>3. QED
    BY <1>4, <2>2, RequestStepType DEF FraudClearance, TypeOK
<1>5. CASE DecisionWrite(s)
  <2>1. Serving(s)
    BY <1>5 DEF DecisionWrite, Working, Serving
  <2>2. QED
    BY <1>5, <2>1, FlushType, PathsAreSequences DEF DecisionWrite
<1>6. CASE DecisionCommit(s)
  <2>1. Serving(s)
    BY <1>6 DEF DecisionCommit, Working, Serving
  <2>2. r.loan \in Loans /\ r.op \in DecisionType
    BY <1>6, <2>1, ServingType DEF DecisionCommit, Request
  <2>3. decisions' \in [Loans -> SUBSET DecisionType]
    BY <1>6, <2>2 DEF DecisionCommit, TypeOK
  <2>4. QED
    BY <1>6, <2>1, <2>3, PublishType DEF DecisionCommit, TypeOK
<1>7. CASE AnalysisStart(s)
  <2>1. Serving(s)
    BY <1>7 DEF AnalysisStart, Working, Serving
  <2>2. QED
    BY <1>7, <2>1, FlushType, PathsAreSequences DEF AnalysisStart
<1>8. CASE AnalysisRestart(s)
  <2>1. r \in Request
    BY <1>8, ServingType DEF AnalysisRestart, Working, Serving
  <2>2. [r EXCEPT !.phase = "analysing"] \in Request
    BY <2>1 DEF Request
  <2>3. QED
    BY <1>8, <2>2, RequestStepType DEF AnalysisRestart, TypeOK
<1>9. CASE AnalysisAdvance(s)
  <2> DEFINE path == ScreeningPath(r.seen)
  <2>1. Serving(s)
    BY <1>9 DEF AnalysisAdvance, Working, Serving
  <2>2. CASE path = <<>>
    <3>1. r \in Request
      BY <2>1, ServingType
    <3>2. [r EXCEPT !.phase = "flushed"] \in Request
      BY <3>1 DEF Request
    <3>3. QED
      BY <1>9, <2>2, <3>2, RequestStepType DEF AnalysisAdvance, TypeOK
  <2>3. CASE path # <<>>
    BY <1>9, <2>1, <2>3, FlushType, PathsAreSequences DEF AnalysisAdvance
  <2>4. QED
    BY <2>2, <2>3
<1>10. CASE AnalysisCommit(s)
  <2>1. Serving(s)
    BY <1>10 DEF AnalysisCommit, Working, Serving
  <2>2. r.loan \in Loans
    BY <2>1, ServingType DEF Request
  <2>3. analysed' \in [Loans -> BOOLEAN]
    BY <1>10, <2>2 DEF AnalysisCommit, TypeOK
  <2>4. alerts' \in [Alerts -> Alert \cup {NoAlert}]
    <3>1. CASE alerts' = alerts
      BY <3>1 DEF TypeOK
    <3>2. CASE alerts' # alerts
      <4>1. PICK a \in Alerts, severity \in Severity :
              alerts' = [alerts EXCEPT ![a] =
                [loan |-> r.loan, severity |-> severity, status |-> "open"]]
        BY <1>10, <3>2 DEF AnalysisCommit
      <4>2. [loan |-> r.loan, severity |-> severity, status |-> "open"]
              \in Alert
        BY <2>2 DEF Alert
      <4>3. QED
        BY <4>1, <4>2 DEF TypeOK
    <3>3. QED
      BY <3>1, <3>2
  <2>5. QED
    BY <1>10, <2>1, <2>3, <2>4, PublishType DEF AnalysisCommit, TypeOK
<1>11. CASE DisbursementWrite(s)
  <2>1. r \in Request
    BY <1>11, ServingType DEF DisbursementWrite, Working, Serving
  <2> DEFINE path == <<"disbursed", "active">>
             next == [r EXCEPT !.phase = "flushed", !.seen = "active",
                               !.pending = Steps(status[r.loan], path)]
  <2>2. status[r.loan] \in LoanStatus
    BY <2>1 DEF TypeOK, Request
  <2>3. Steps(status[r.loan], path) \in Seq(Event)
    BY <2>2, StepsProperties, PathsAreSequences
  <2>4. next \in Request
    BY <2>1, <2>3 DEF Request, LoanStatus
  <2>5. request' = [request EXCEPT ![s] = next]
    BY <1>11 DEF DisbursementWrite
  <2>6. QED
    BY <1>11, <2>4, <2>5, RequestStepType DEF DisbursementWrite, TypeOK
<1>12. CASE DisbursementCommit(s)
  <2>1. Serving(s)
    BY <1>12 DEF DisbursementCommit, Working, Serving
  <2>2. r.loan \in Loans
    BY <2>1, ServingType DEF Request
  <2>3. disbursed' \in [Loans -> BOOLEAN]
    BY <1>12, <2>2 DEF DisbursementCommit, TypeOK
  <2>4. QED
    BY <1>12, <2>1, <2>3, PublishType DEF DisbursementCommit, TypeOK
<1>13. CASE RepaymentAllocate(s)
  <2>1. r \in Request
    BY <1>13, ServingType DEF RepaymentAllocate, Working, Serving
  <2>2. /\ r.loan \in Loans /\ allocated[r.loan] \in Nat
        /\ Outstanding(r.loan) \in Int
    BY <2>1, LoanAssumption DEF TypeOK, Request, Outstanding
  <2>3. PICK amount \in 1..Outstanding(r.loan) :
          request' = [request EXCEPT
            ![s].phase = IF amount = Outstanding(r.loan) THEN "allocated"
                                                         ELSE "flushed",
            ![s].amount = amount, ![s].base = allocated[r.loan]]
    BY <1>13 DEF RepaymentAllocate
  <2> DEFINE next == [r EXCEPT
                !.phase = IF amount = Outstanding(r.loan) THEN "allocated"
                                                          ELSE "flushed",
                !.amount = amount, !.base = allocated[r.loan]]
  <2>4. amount \in Nat
    BY <2>2
  <2>5. (IF amount = Outstanding(r.loan) THEN "allocated" ELSE "flushed")
          \in {"allocated", "flushed"}
    OBVIOUS
  <2>6. next \in Request
    BY <2>1, <2>2, <2>4, <2>5 DEF Request
  <2>7. request' = [request EXCEPT ![s] = next]
    BY <2>3
  <2>8. QED
    BY <1>13, <2>6, <2>7, RequestStepType DEF RepaymentAllocate, TypeOK
<1>14. CASE RepaymentClose(s)
  <2>1. Serving(s)
    BY <1>14 DEF RepaymentClose, Working, Serving
  <2>2. QED
    BY <1>14, <2>1, FlushType, PathsAreSequences DEF RepaymentClose
<1>15. CASE RepaymentCommit(s)
  <2>1. Serving(s)
    BY <1>15 DEF RepaymentCommit, Working, Serving
  <2>2. r.loan \in Loans /\ r.base \in Nat /\ r.amount \in Nat
    BY <2>1, ServingType DEF Request
  <2>3. /\ allocated' \in [Loans -> Nat]
        /\ repaid' \in [Loans -> Nat]
    BY <1>15, <2>2 DEF RepaymentCommit, TypeOK
  <2>4. QED
    BY <1>15, <2>1, <2>3, PublishType DEF RepaymentCommit, TypeOK
<1>16. CASE \E d \in {"confirmed", "dismissed"} : DispositionCommit(s, d)
  <2>1. PICK d \in {"confirmed", "dismissed"} : DispositionCommit(s, d)
    BY <1>16
  <2>2. r \in Disposition /\ Working(s, "disposing")
    BY <2>1, DisposingType DEF DispositionCommit
  <2>3. alerts' \in [Alerts -> Alert \cup {NoAlert}]
    <3>1. r.alert \in Alerts
      BY <2>2 DEF Disposition
    <3>2. alerts[r.alert] \in Alert
      BY <2>2, <3>1 DEF TypeOK, AlertLocked
    <3>3. [alerts[r.alert] EXCEPT !.status = d] \in Alert
      BY <3>2 DEF Alert
    <3>4. QED
      BY <2>1, <3>1, <3>3 DEF DispositionCommit, TypeOK
  <2>4. QED
    BY <2>1, <2>3 DEF DispositionCommit, TypeOK, loanRows
<1>17. CASE Refused(s)
  BY <1>17, RequestStepType DEF Refused, RollBack, TypeOK
<1>18. QED
  BY <1>1, <1>2, <1>3, <1>4, <1>5, <1>6, <1>7, <1>8, <1>9, <1>10, <1>11,
     <1>12, <1>13, <1>14, <1>15, <1>16, <1>17 DEF Advance

\* A step of a session leaves the requests of the others alone.
LEMMA StepsAreLocal ==
  ASSUME TypeOK, NEW s \in Sessions, Advance(s) \/ Fail(s)
  PROVE  /\ \A t \in Sessions \ {s} : request'[t] = request[t]
         /\ ~Working(s, "disposing")'
<1> DEFINE Local == /\ \A t \in Sessions \ {s} : request'[t] = request[t]
                    /\ ~Working(s, "disposing")'
<1>0. ASSUME NEW phase \in {"cleared", "analysing", "flushed"},
             request' = [request EXCEPT ![s].phase = phase]
      PROVE  Local
  BY <1>0 DEF Working, TypeOK, Request, Disposition, Idle
<1>1. ASSUME NEW path, NEW phase \in {"analysing", "flushed"}, Flush(s, path, phase)
      PROVE  Local
  BY <1>1 DEF Flush, Working, TypeOK
<1>2. ASSUME Publish(s)
      PROVE  Local
  BY <1>2 DEF Publish, Working, Idle, TypeOK
<1>3. CASE SubmitWrite(s) \/ (\E to \in LoanStatus : TransitionWrite(s, to))
             \/ DecisionWrite(s) \/ AnalysisStart(s) \/ RepaymentClose(s)
  BY <1>1, <1>3
     DEF SubmitWrite, TransitionWrite, DecisionWrite, AnalysisStart, RepaymentClose
<1>4. CASE WorkflowCommit(s) \/ DecisionCommit(s) \/ AnalysisCommit(s)
             \/ DisbursementCommit(s) \/ RepaymentCommit(s)
  BY <1>2, <1>4 DEF WorkflowCommit, DecisionCommit, AnalysisCommit,
                    DisbursementCommit, RepaymentCommit
<1>5. CASE FraudClearance(s) \/ AnalysisRestart(s)
  BY <1>0, <1>5 DEF FraudClearance, AnalysisRestart
<1>6. CASE AnalysisAdvance(s)
  <2>1. CASE ScreeningPath(request[s].seen) = <<>>
    BY <1>0, <1>6, <2>1 DEF AnalysisAdvance
  <2>2. CASE ScreeningPath(request[s].seen) # <<>>
    BY <1>1, <1>6, <2>2 DEF AnalysisAdvance
  <2>3. QED
    BY <2>1, <2>2
<1>7. CASE DisbursementWrite(s) \/ RepaymentAllocate(s)
  <2>1. CASE DisbursementWrite(s)
    BY <2>1, ServingType DEF DisbursementWrite, Serving, Working, Request, TypeOK
  <2>2. CASE RepaymentAllocate(s)
    <3>1. request[s] \in Request
      BY <2>2, ServingType DEF RepaymentAllocate, Serving, Working
    <3>2. PICK phase \in {"allocated", "flushed"},
               amount \in 1..Outstanding(request[s].loan),
               base \in {allocated[request[s].loan]} :
            request' = [request EXCEPT ![s].phase = phase,
                                       ![s].amount = amount, ![s].base = base]
      BY <2>2 DEF RepaymentAllocate
    <3>3. QED
      BY <3>1, <3>2 DEF Working, Request, TypeOK
  <2>3. QED
    BY <1>7, <2>1, <2>2
<1>8. CASE \E d \in {"confirmed", "dismissed"} : DispositionCommit(s, d)
  BY <1>8 DEF DispositionCommit, Working, Idle, TypeOK
<1>9. CASE Refused(s) \/ Fail(s)
  BY <1>9 DEF Refused, Fail, RollBack, Working, Idle, TypeOK
<1>10. QED
  BY <1>3, <1>4, <1>5, <1>6, <1>7, <1>8, <1>9 DEF Advance

\* Alerts change only when an analysis or a disposition commits.
LEMMA AlertsKept ==
  ASSUME NEW s \in Sessions, Advance(s) \/ Fail(s), ~AnalysisCommit(s),
         \A d \in {"confirmed", "dismissed"} : ~DispositionCommit(s, d)
  PROVE  alerts' = alerts
<1>1. CASE AnalysisAdvance(s)
  BY <1>1 DEF AnalysisAdvance, Flush
<1>2. CASE Refused(s) \/ Fail(s)
  BY <1>2 DEF Refused, Fail, RollBack
<1>3. CASE \/ SubmitWrite(s) \/ (\E to \in LoanStatus : TransitionWrite(s, to))
           \/ DecisionWrite(s) \/ AnalysisStart(s) \/ RepaymentClose(s)
  BY <1>3 DEF SubmitWrite, TransitionWrite, DecisionWrite, AnalysisStart,
              RepaymentClose, Flush
<1>4. CASE \/ WorkflowCommit(s) \/ DecisionCommit(s) \/ DisbursementCommit(s)
           \/ RepaymentCommit(s) \/ FraudClearance(s) \/ AnalysisRestart(s)
           \/ DisbursementWrite(s) \/ RepaymentAllocate(s)
  BY <1>4 DEF WorkflowCommit, DecisionCommit, DisbursementCommit, RepaymentCommit,
              FraudClearance, AnalysisRestart, DisbursementWrite, RepaymentAllocate
<1>5. QED
  BY <1>1, <1>2, <1>3, <1>4 DEF Advance

\* The alert under disposition is locked from its read to the commit.
LEMMA AlertLockedStep ==
  ASSUME TypeOK, AlertLocked, [Next]_vars
  PROVE  AlertLocked'
<1>1. CASE \E s \in Sessions, a \in Alerts : DispositionLock(s, a)
  <2>1. PICK s \in Sessions, a \in Alerts : DispositionLock(s, a)
    BY <1>1
  <2>2. /\ request' = [request EXCEPT ![s] = [phase |-> "disposing", alert |-> a]]
        /\ alerts' = alerts /\ alerts[a] # NoAlert /\ alerts[a].status = "open"
        /\ \A other \in Sessions : ~HoldsAlert(other, a)
    BY <2>1 DEF DispositionLock
  <2>3. request'[s] = [phase |-> "disposing", alert |-> a]
    BY <2>2 DEF TypeOK
  <2>4. \A t \in Sessions \ {s} : request'[t] = request[t]
    BY <2>2 DEF TypeOK
  <2>5. QED
    BY <2>2, <2>3, <2>4 DEF AlertLocked, Working, HoldsAlert
<1>2. CASE \E s \in Sessions, d \in {"confirmed", "dismissed"} : DispositionCommit(s, d)
  <2>1. PICK s \in Sessions, d \in {"confirmed", "dismissed"} : DispositionCommit(s, d)
    BY <1>2
  <2> DEFINE a == request[s].alert
  <2>2. /\ request' = [request EXCEPT ![s] = Idle]
        /\ alerts' = [alerts EXCEPT ![a].status = d]
        /\ Working(s, "disposing") /\ a \in Alerts
    BY <2>1, DisposingType DEF DispositionCommit, Disposition
  <2>3. ~Working(s, "disposing")'
    BY <2>2 DEF Working, Idle, TypeOK
  <2>4. ASSUME NEW t \in Sessions, Working(t, "disposing")'
        PROVE  /\ request'[t] = request[t]
               /\ request[t].alert # a
               /\ alerts'[request[t].alert] = alerts[request[t].alert]
    <3>1. request'[t] = request[t] /\ t # s
      BY <2>2, <2>3, <2>4 DEF TypeOK
    <3>2. Working(t, "disposing")
      BY <2>4, <3>1 DEF Working
    <3>3. request[t].alert # a
      BY <2>2, <3>1, <3>2 DEF AlertLocked, HoldsAlert
    <3>4. QED
      BY <2>2, <3>1, <3>2, <3>3, DisposingType DEF TypeOK, Disposition
  <2>5. QED
    BY <2>4 DEF AlertLocked, Working, HoldsAlert
<1>3. ASSUME \A a \in Alerts : alerts[a] # NoAlert => alerts'[a] = alerts[a],
             \A t \in Sessions : Working(t, "disposing")' => request'[t] = request[t]
      PROVE  AlertLocked'
  <2>1. \A t \in Sessions : Working(t, "disposing") => request[t].alert \in Alerts
    BY DisposingType DEF Disposition
  <2>2. QED
    BY <1>3, <2>1 DEF AlertLocked, Working, HoldsAlert
<1>4. CASE \E s \in Sessions : Advance(s) \/ Fail(s)
  <2>1. PICK s \in Sessions : Advance(s) \/ Fail(s)
    BY <1>4
  <2>2. \A t \in Sessions : Working(t, "disposing")' => request'[t] = request[t]
    BY <2>1, StepsAreLocal
  <2>3. CASE AnalysisCommit(s)
    <3>1. \A a \in Alerts : alerts[a] # NoAlert => alerts'[a] = alerts[a]
      BY <2>3 DEF AnalysisCommit, TypeOK
    <3>2. QED
      BY <1>3, <2>2, <3>1
  <2>4. CASE \E d \in {"confirmed", "dismissed"} : DispositionCommit(s, d)
    BY <1>2, <2>4
  <2>5. QED
    BY <1>2, <1>3, <2>1, <2>2, <2>3, <2>4, AlertsKept
<1>5. CASE \E s \in Sessions, op \in Operations, l \in Loans : Begin(s, op, l)
  <2>1. \A t \in Sessions : Working(t, "disposing")' => request'[t] = request[t]
    BY <1>5 DEF Begin, Working, TypeOK
  <2>2. alerts' = alerts
    BY <1>5 DEF Begin
  <2>3. QED
    BY <1>3, <2>1, <2>2
<1>6. CASE (\E p \in Policies : UpdateSettings(p)) \/ UNCHANGED vars
  BY <1>3, <1>6 DEF UpdateSettings, vars
<1>7. QED
  BY <1>1, <1>4, <1>5, <1>6 DEF Next

LEMMA TypeStep ==
  ASSUME TypeOK, AlertLocked, [Next]_vars
  PROVE  TypeOK'
<1>1. ASSUME NEW s \in Sessions, NEW op \in Operations, NEW l \in Loans, Begin(s, op, l)
      PROVE  TypeOK'
  <2> DEFINE begun == [op |-> op, phase |-> "read", loan |-> l, seen |-> status[l],
        pending |-> <<>>,
        known |-> IF op = "approve" THEN BlockingAlerts(l) ELSE {},
        amount |-> 0, base |-> 0]
  <2>1. status[l] \in LoanStatus /\ <<>> \in Seq(Event)
    BY DEF TypeOK
  <2>2. (IF op = "approve" THEN BlockingAlerts(l) ELSE {}) \in SUBSET Alerts
    BY DEF BlockingAlerts
  <2>3. begun \in Request
    BY <2>1, <2>2 DEF Request, Operations
  <2>4. request' = [request EXCEPT ![s] = begun]
    BY <1>1 DEF Begin
  <2> HIDE DEF begun
  <2>5. served' \in Nat /\ UNCHANGED <<status, events, alerts, policy, loanRows>>
    BY <1>1 DEF Begin, TypeOK
  <2>6. QED
    BY <2>3, <2>4, <2>5, RequestStepType
<1>2. ASSUME NEW s \in Sessions, NEW a \in Alerts, DispositionLock(s, a)
      PROVE  TypeOK'
  <2>1. [phase |-> "disposing", alert |-> a] \in Disposition
    BY DEF Disposition
  <2>2. /\ request' = [request EXCEPT ![s] = [phase |-> "disposing", alert |-> a]]
        /\ UNCHANGED <<status, events, alerts, policy, loanRows>>
        /\ served' \in Nat
    BY <1>2 DEF DispositionLock, TypeOK
  <2>3. QED
    BY <2>1, <2>2, RequestStepType
<1>3. ASSUME NEW s \in Sessions, Fail(s)
      PROVE  TypeOK'
  BY <1>3, RequestStepType DEF Fail, RollBack, TypeOK
<1>4. CASE (\E p \in Policies : UpdateSettings(p)) \/ UNCHANGED vars
  BY <1>4 DEF UpdateSettings, TypeOK, vars, loanRows
<1>5. QED
  BY <1>1, <1>2, <1>3, <1>4, AdvanceType DEF Next

\* Every reachable state is well-typed: no handler writes a status, an event,
\* an alert or a balance outside its domain, whatever requests overlap.
THEOREM TypeCorrect == Spec => []TypeOK
<1>1. Init => TypeOK /\ AlertLocked
  <2>1. SUFFICES ASSUME Init PROVE TypeOK /\ AlertLocked
    OBVIOUS
  <2>2. TypeOK
    BY <2>1 DEF Init, TypeOK, LoanStatus
  <2>3. AlertLocked
    BY <2>1 DEF Init, AlertLocked, Working, Idle
  <2>4. QED
    BY <2>2, <2>3
<1>2. TypeOK /\ AlertLocked /\ [Next]_vars => (TypeOK /\ AlertLocked)'
  BY TypeStep, AlertLockedStep
<1>3. QED
  BY <1>1, <1>2, PTL DEF Spec

(***************************************************************************)
(* Fraud alerts: a disposition is terminal, and what an approval was       *)
(* cleared of stays dismissed until the approval ends.                     *)
(***************************************************************************)
AlertsInvariant == TypeOK /\ AlertLocked /\ ApprovalsKnow

\* A raised alert keeps its loan and severity, and its status once disposed.
LEMMA AlertsMonotone ==
  ASSUME TypeOK, AlertLocked, [Next]_vars, NEW a \in Alerts, alerts[a] # NoAlert
  PROVE  /\ alerts'[a] # NoAlert
         /\ alerts'[a].loan = alerts[a].loan
         /\ alerts'[a].severity = alerts[a].severity
         /\ alerts[a].status # "open" => alerts'[a] = alerts[a]
<1>1. alerts[a] \in Alert
  BY DEF TypeOK
<1>2. CASE \E s \in Sessions : AnalysisCommit(s)
  <2>1. alerts'[a] = alerts[a]
    BY <1>2 DEF AnalysisCommit, TypeOK
  <2>2. QED
    BY <2>1
<1>3. CASE \E s \in Sessions, d \in {"confirmed", "dismissed"} : DispositionCommit(s, d)
  <2>1. PICK s \in Sessions, d \in {"confirmed", "dismissed"} : DispositionCommit(s, d)
    BY <1>3
  <2>2. PICK b \in Alerts : b = request[s].alert
    BY <2>1, DisposingType DEF DispositionCommit, Disposition
  <2>3. /\ alerts' = [alerts EXCEPT ![b].status = d]
        /\ alerts[b].status = "open"
    BY <2>1, <2>2 DEF DispositionCommit, AlertLocked
  <2>4. CASE a = b
    <3>1. alerts'[a] = [alerts[a] EXCEPT !.status = d]
      BY <2>3, <2>4 DEF TypeOK
    <3>2. /\ alerts'[a].status = d
          /\ alerts'[a].loan = alerts[a].loan
          /\ alerts'[a].severity = alerts[a].severity
      BY <1>1, <3>1 DEF Alert
    <3>3. alerts'[a] # NoAlert
      BY <3>2 DEF NoAlert
    <3>4. QED
      BY <2>3, <2>4, <3>2, <3>3
  <2>5. CASE a # b
    BY <2>3, <2>5 DEF TypeOK
  <2>6. QED
    BY <2>4, <2>5
<1>4. CASE alerts' = alerts
  BY <1>4
<1>5. alerts' = alerts \/ (\E s \in Sessions : AnalysisCommit(s))
        \/ (\E s \in Sessions, d \in {"confirmed", "dismissed"} : DispositionCommit(s, d))
  <2>1. CASE \E s \in Sessions : Advance(s) \/ Fail(s)
    BY <2>1, AlertsKept
  <2>2. CASE \E s \in Sessions, op \in Operations, l \in Loans : Begin(s, op, l)
    BY <2>2 DEF Begin
  <2>3. CASE \E s \in Sessions, b \in Alerts : DispositionLock(s, b)
    BY <2>3 DEF DispositionLock
  <2>4. CASE (\E p \in Policies : UpdateSettings(p)) \/ UNCHANGED vars
    BY <2>4 DEF UpdateSettings, vars
  <2>5. QED
    BY <2>1, <2>2, <2>3, <2>4 DEF Next
<1>6. QED
  BY <1>2, <1>3, <1>4, <1>5

\* The request of an approval keeps what it knows; only FraudClearance takes
\* it out of its first phase.
KeepsApproval(s) ==
  Serving(s)' =>
    /\ Serving(s)
    /\ request'[s].known = request[s].known
    /\ request'[s].op = request[s].op /\ request'[s].loan = request[s].loan
    /\ request[s].op = "approve" /\ request[s].phase = "read"
         => request'[s].phase = "read"

LEMMA ApprovalKept ==
  ASSUME TypeOK, NEW s \in Sessions, Advance(s) \/ Fail(s), ~FraudClearance(s)
  PROVE  KeepsApproval(s)
<1> DEFINE r == request[s]
<1>1. ASSUME NEW path, NEW phase \in {"analysing", "flushed"}, Flush(s, path, phase),
             Serving(s), r.op = "approve" => r.phase # "read"
      PROVE  KeepsApproval(s)
  <2>1. r \in Request
    BY <1>1, ServingType
  <2>2. /\ request'[s].known = r.known /\ request'[s].op = r.op
        /\ request'[s].loan = r.loan
    BY <1>1, <2>1 DEF Flush, TypeOK, Request
  <2>3. QED
    BY <1>1, <2>2 DEF KeepsApproval
<1>2. ASSUME request'[s] = Idle
      PROVE  KeepsApproval(s)
  BY <1>2 DEF KeepsApproval, Serving, Idle
<1>3. ASSUME NEW phase \in {"analysing", "flushed"}, r.op # "approve", Serving(s),
             request' = [request EXCEPT ![s].phase = phase]
      PROVE  KeepsApproval(s)
  <2>1. r \in Request /\ request'[s] = [r EXCEPT !.phase = phase]
    BY <1>3, ServingType DEF TypeOK
  <2>2. QED
    BY <1>3, <2>1 DEF KeepsApproval, Request
<1>4. CASE SubmitWrite(s) \/ (\E to \in LoanStatus : TransitionWrite(s, to))
             \/ AnalysisStart(s) \/ RepaymentClose(s)
  BY <1>1, <1>4 DEF SubmitWrite, TransitionWrite, AnalysisStart, RepaymentClose,
                    Working, Serving
<1>5. CASE DecisionWrite(s)
  BY <1>1, <1>5 DEF DecisionWrite, Working, Serving
<1>6. CASE WorkflowCommit(s) \/ DecisionCommit(s) \/ AnalysisCommit(s)
             \/ DisbursementCommit(s) \/ RepaymentCommit(s)
  BY <1>2, <1>6 DEF WorkflowCommit, DecisionCommit, AnalysisCommit,
                    DisbursementCommit, RepaymentCommit, Publish, TypeOK
<1>7. CASE AnalysisRestart(s)
  BY <1>3, <1>7 DEF AnalysisRestart, Working, Serving
<1>8. CASE AnalysisAdvance(s)
  <2>1. CASE ScreeningPath(r.seen) = <<>>
    BY <1>3, <1>8, <2>1 DEF AnalysisAdvance, Working, Serving
  <2>2. CASE ScreeningPath(r.seen) # <<>>
    BY <1>1, <1>8, <2>2 DEF AnalysisAdvance, Working, Serving
  <2>3. QED
    BY <2>1, <2>2
<1>9. CASE DisbursementWrite(s) \/ RepaymentAllocate(s)
  <2>1. r \in Request /\ Serving(s) /\ r.op # "approve"
    BY <1>9, ServingType DEF DisbursementWrite, RepaymentAllocate, Working, Serving
  <2>2. /\ request'[s].known = r.known /\ request'[s].op = r.op
        /\ request'[s].loan = r.loan
    <3>1. CASE DisbursementWrite(s)
      BY <2>1, <3>1 DEF DisbursementWrite, TypeOK, Request
    <3>2. CASE RepaymentAllocate(s)
      <4>1. PICK phase \in {"allocated", "flushed"},
                 amount \in 1..Outstanding(request[s].loan),
                 base \in {allocated[request[s].loan]} :
              request' = [request EXCEPT ![s].phase = phase,
                                         ![s].amount = amount, ![s].base = base]
        BY <3>2 DEF RepaymentAllocate
      <4>2. QED
        BY <2>1, <4>1 DEF TypeOK, Request
    <3>3. QED
      BY <1>9, <3>1, <3>2
  <2>3. QED
    BY <2>1, <2>2 DEF KeepsApproval
<1>10. CASE \E d \in {"confirmed", "dismissed"} : DispositionCommit(s, d)
  BY <1>2, <1>10 DEF DispositionCommit, TypeOK
<1>11. CASE Refused(s) \/ Fail(s)
  BY <1>2, <1>11 DEF Refused, Fail, RollBack, TypeOK
<1>12. QED
  BY <1>4, <1>5, <1>6, <1>7, <1>8, <1>9, <1>10, <1>11 DEF Advance

LEMMA KnownKept ==
  ASSUME AlertsInvariant, [Next]_vars, NEW t \in Sessions, Serving(t)', KeepsApproval(t)
  PROVE  KnownAlerts(t)'
<1> DEFINE r == request[t]
<1>1. /\ Serving(t) /\ KnownAlerts(t) /\ r \in Request
      /\ request'[t].known = r.known
      /\ request'[t].op = r.op /\ request'[t].loan = r.loan
      /\ r.op = "approve" /\ r.phase = "read" => request'[t].phase = "read"
  BY ServingType DEF KeepsApproval, AlertsInvariant, ApprovalsKnow
<1>2. ASSUME NEW a \in r.known
      PROVE  /\ r.op = "approve"
             /\ alerts'[a] # NoAlert /\ alerts'[a].severity \in Blocking
             /\ alerts'[a].loan = r.loan
             /\ r.phase # "read" => alerts'[a].status = "dismissed"
  <2>1. a \in Alerts
    BY <1>1 DEF Request
  <2>2. /\ r.op = "approve"
        /\ alerts[a] # NoAlert /\ alerts[a].severity \in Blocking
        /\ alerts[a].loan = r.loan
        /\ r.phase # "read" => alerts[a].status = "dismissed"
    BY <1>1 DEF KnownAlerts
  <2>3. QED
    BY <2>1, <2>2, AlertsMonotone DEF AlertsInvariant
<1>3. QED
  BY <1>1, <1>2 DEF KnownAlerts

LEMMA AlertsStep ==
  ASSUME AlertsInvariant, [Next]_vars
  PROVE  AlertsInvariant'
<1>1. TypeOK' /\ AlertLocked'
  BY TypeStep, AlertLockedStep DEF AlertsInvariant
<1>2. SUFFICES ASSUME NEW t \in Sessions, Serving(t)' PROVE KnownAlerts(t)'
  BY <1>1 DEF AlertsInvariant, ApprovalsKnow
<1>3. CASE request'[t] = request[t]
  BY <1>2, <1>3, KnownKept DEF KeepsApproval, Serving
<1>4. CASE FraudClearance(t)
  <2>1. PICK r \in Request : r = request[t] /\ r.phase = "read" /\ r.op = "approve"
    BY <1>4, ServingType DEF FraudClearance, Working, Serving, AlertsInvariant
  <2>2. /\ request'[t] = [r EXCEPT !.phase = "cleared"]
        /\ alerts' = alerts /\ BlockingAlerts(r.loan) = {}
    BY <1>4, <2>1 DEF FraudClearance, AlertsInvariant, TypeOK
  <2>3. /\ request'[t].known = r.known /\ request'[t].loan = r.loan
        /\ request'[t].op = "approve"
    BY <2>1, <2>2 DEF Request
  <2>4. ASSUME NEW a \in r.known
        PROVE  /\ alerts[a] # NoAlert /\ alerts[a].severity \in Blocking
               /\ alerts[a].loan = r.loan /\ alerts[a].status = "dismissed"
    <3>1. a \in Alerts
      BY DEF Request
    <3>2. /\ alerts[a] # NoAlert /\ alerts[a].severity \in Blocking
          /\ alerts[a].loan = r.loan
      BY <1>4, <2>1 DEF FraudClearance, Working, Serving, AlertsInvariant,
                        ApprovalsKnow, KnownAlerts
    <3>3. a \notin BlockingAlerts(r.loan)
      BY <2>2
    <3>4. QED
      BY <3>1, <3>2, <3>3 DEF BlockingAlerts
  <2>5. QED
    BY <2>2, <2>3, <2>4 DEF KnownAlerts
<1>5. CASE \E s \in Sessions : Advance(s) \/ Fail(s)
  <2>1. PICK s \in Sessions : Advance(s) \/ Fail(s)
    BY <1>5
  <2>2. CASE t = s
    BY <1>2, <1>4, <2>1, <2>2, ApprovalKept, KnownKept DEF AlertsInvariant
  <2>3. CASE t # s
    BY <1>3, <2>1, <2>3, StepsAreLocal DEF AlertsInvariant
  <2>4. QED
    BY <2>2, <2>3
<1>6. CASE \E s \in Sessions, op \in Operations, l \in Loans : Begin(s, op, l)
  <2>1. PICK s \in Sessions, op \in Operations, l \in Loans : Begin(s, op, l)
    BY <1>6
  <2>2. CASE t = s
    <3>1. /\ request'[t].op = op /\ request'[t].phase = "read"
          /\ request'[t].loan = l
          /\ request'[t].known = IF op = "approve" THEN BlockingAlerts(l) ELSE {}
          /\ alerts' = alerts
      BY <2>1, <2>2 DEF Begin, AlertsInvariant, TypeOK
    <3>2. QED
      BY <3>1 DEF KnownAlerts, BlockingAlerts
  <2>3. CASE t # s
    BY <1>3, <2>1, <2>3 DEF Begin, AlertsInvariant, TypeOK
  <2>4. QED
    BY <2>2, <2>3
<1>7. CASE \E s \in Sessions, a \in Alerts : DispositionLock(s, a)
  <2>1. PICK s \in Sessions, a \in Alerts : DispositionLock(s, a)
    BY <1>7
  <2>2. t # s
    BY <1>2, <2>1 DEF DispositionLock, Serving, AlertsInvariant, TypeOK
  <2>3. QED
    BY <1>3, <2>1, <2>2 DEF DispositionLock, AlertsInvariant, TypeOK
<1>8. CASE (\E p \in Policies : UpdateSettings(p)) \/ UNCHANGED vars
  BY <1>3, <1>8 DEF UpdateSettings, vars
<1>9. QED
  BY <1>5, <1>6, <1>7, <1>8 DEF Next

LEMMA AlertsInit ==
  ASSUME Init
  PROVE  AlertsInvariant
<1>1. TypeOK
  BY DEF Init, TypeOK, LoanStatus
<1>2. AlertLocked /\ ApprovalsKnow
  BY DEF Init, AlertLocked, ApprovalsKnow, Working, Serving, Idle
<1>3. QED
  BY <1>1, <1>2 DEF AlertsInvariant

\* An approval under way was cleared of every blocking alert that had been
\* committed when it began, and those alerts stay dismissed until it ends.
THEOREM ClearanceIsSound == Spec => []ClearanceHolds
<1>1. ASSUME AlertsInvariant, NEW s \in Sessions, Serving(s),
             request[s].op = "approve", ~Working(s, "read"), NEW a \in request[s].known
      PROVE  alerts[a].status = "dismissed"
  BY <1>1 DEF AlertsInvariant, ApprovalsKnow, KnownAlerts, Working
<1>2. AlertsInvariant => ClearanceHolds
  BY <1>1 DEF ClearanceHolds
<1>3. QED
  BY <1>2, AlertsInit, AlertsStep, PTL DEF Spec

\* No interleaving of investigators, analyses and approvals changes an alert
\* that has been confirmed or dismissed.
THEOREM DispositionsAreTerminal == Spec => DispositionTerminal
<1> DEFINE step == \A a \in Alerts : alerts[a] # NoAlert /\ alerts[a].status # "open"
                                       => alerts'[a] = alerts[a]
<1>1. ASSUME AlertsInvariant, [Next]_vars PROVE [step]_alerts
  BY <1>1, AlertsMonotone DEF AlertsInvariant
<1>2. QED
  BY <1>1, AlertsInit, AlertsStep, PTL DEF Spec, DispositionTerminal
==============================================================================
