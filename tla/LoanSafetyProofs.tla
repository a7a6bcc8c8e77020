-------------------------- MODULE LoanSafetyProofs ---------------------------
(***************************************************************************)
(* The safety invariants of LoanLifecycle, proved for every value of its   *)
(* constants.  A step is first sorted into one of a few kinds by what it   *)
(* does to the loan row and its workflow events; each part of the          *)
(* inductive invariant is then shown to survive each kind.                 *)
(***************************************************************************)
EXTENDS LoanLifecycleProofs, WellFoundedInduction

(***************************************************************************)
(* The kinds of steps.                                                     *)
(***************************************************************************)
SameRow(s) ==
  /\ request'[s].loan = request[s].loan
  /\ request'[s].op = request[s].op
  /\ request'[s].seen = request[s].seen
  /\ request'[s].pending = request[s].pending
  /\ request'[s].known = request[s].known

\* No row and no workflow event is written, committed or not.
KeepsRows ==
  /\ UNCHANGED <<status, events>>
  /\ \A s \in Sessions : Serving(s)' =>
       /\ Serving(s) /\ SameRow(s)
       /\ request'[s].phase \in {"read", "cleared"}
            => request[s].phase \in {"read", "cleared"}

ShortPath == {path \in Seq(LoanStatus) : Len(path) \in 1..2}

\* Consecutive transitions are flushed, out of the status the request knows
\* or (a disbursement) the one it has just read again.
Flushes(s) ==
  /\ Serving(s)
  /\ \E from \in LoanStatus, path \in ShortPath,
        phase \in {"analysing", "flushed"} :
       /\ \/ from = request[s].seen
          \/ from = status[request[s].loan] /\ request[s].pending = <<>>
       /\ Permitted(policy, Amount[request[s].loan], from, path)
       /\ request' = [request EXCEPT
            ![s].phase = phase, ![s].seen = path[Len(path)],
            ![s].pending = request[s].pending \o Steps(from, path)]
       /\ UNCHANGED <<status, events>>

LEMMA PathsAreShort ==
  /\ <<"submitted", "under_review">> \in ShortPath
  /\ <<"ai_risk_analysis">> \in ShortPath
  /\ <<"disbursed", "active">> \in ShortPath
  /\ <<"closed">> \in ShortPath
  /\ \A to \in LoanStatus : <<to>> \in ShortPath
  /\ \A seen : ScreeningPath(seen) # <<>> => ScreeningPath(seen) \in ShortPath
<1>1. /\ <<"submitted", "under_review">> \in ShortPath
      /\ <<"ai_risk_analysis">> \in ShortPath
      /\ <<"disbursed", "active">> \in ShortPath
      /\ <<"closed">> \in ShortPath
      /\ <<"officer_review">> \in ShortPath
      /\ <<"fraud_screening", "officer_review">> \in ShortPath
  BY DEF ShortPath, LoanStatus
<1>2. \A to \in LoanStatus : <<to>> \in ShortPath
  BY DEF ShortPath
<1>3. ASSUME NEW seen, ScreeningPath(seen) # <<>>
      PROVE  ScreeningPath(seen) \in ShortPath
  <2>1. \/ ScreeningPath(seen) = <<"fraud_screening", "officer_review">>
        \/ ScreeningPath(seen) = <<"officer_review">>
        \/ ScreeningPath(seen) = <<>>
    BY Zenon DEF ScreeningPath
  <2>2. QED
    BY <1>1, <1>3, <2>1
<1>4. QED
  BY <1>1, <1>2, <1>3

LEMMA FlushKind ==
  ASSUME TypeOK, NEW s \in Sessions, Serving(s), NEW path \in ShortPath,
         NEW phase \in {"analysing", "flushed"}, Flush(s, path, phase)
  PROVE  Flushes(s)
<1>1. request[s].seen \in LoanStatus
  BY ServingType DEF Request
<1>2. QED
  BY <1>1 DEF Flush, Flushes

\* A step that rewrites one request and keeps what it knows of the loan row.
LEMMA QuietKind ==
  ASSUME TypeOK, NEW s \in Sessions, NEW next,
         request' = [request EXCEPT ![s] = next],
         UNCHANGED <<status, events>>,
         next.phase \in {"idle", "disposing"}
           \/ /\ Serving(s) /\ next.loan = request[s].loan
              /\ next.op = request[s].op /\ next.seen = request[s].seen
              /\ next.pending = request[s].pending
              /\ next.known = request[s].known
              /\ next.phase \in {"read", "cleared"}
                   => request[s].phase \in {"read", "cleared"}
  PROVE  KeepsRows
<1>1. request'[s] = next /\ \A t \in Sessions \ {s} : request'[t] = request[t]
  BY DEF TypeOK
<1>2. QED
  BY <1>1 DEF KeepsRows, SameRow, Serving

LEMMA AdvanceKinds ==
  ASSUME TypeOK, NEW s \in Sessions, Advance(s) \/ Fail(s),
         Serving(s) => ReadIsGrounded(s)
  PROVE  \/ KeepsRows
         \/ Flushes(s)
         \/ Serving(s) /\ Working(s, "flushed") /\ Publish(s)
<1> DEFINE r == request[s]
<1>1. CASE SubmitWrite(s)
  BY <1>1, FlushKind, PathsAreShort DEF SubmitWrite, Working, Serving
<1>2. CASE \E to \in LoanStatus : TransitionWrite(s, to)
  BY <1>2, FlushKind, PathsAreShort DEF TransitionWrite, Working, Serving
<1>3. CASE WorkflowCommit(s) \/ DecisionCommit(s) \/ AnalysisCommit(s)
             \/ DisbursementCommit(s) \/ RepaymentCommit(s)
  BY <1>3 DEF WorkflowCommit, DecisionCommit, AnalysisCommit, Working, Serving,
              DisbursementCommit, RepaymentCommit
<1>4. CASE FraudClearance(s)
  <2>1. r \in Request /\ Serving(s) /\ r.phase = "read"
    BY <1>4, ServingType DEF FraudClearance, Working, Serving
  <2>2. request' = [request EXCEPT ![s] = [r EXCEPT !.phase = "cleared"]]
    BY <1>4 DEF FraudClearance
  <2>3. QED
    BY <1>4, <2>1, <2>2, QuietKind DEF FraudClearance, Request
<1>5. CASE DecisionWrite(s)
  <2>1. DecisionTarget(r.op) \in LoanStatus
    BY PathsAreSequences
  <2>2. QED
    BY <1>5, <2>1, FlushKind, PathsAreShort DEF DecisionWrite, Working, Serving
<1>6. CASE AnalysisStart(s)
  BY <1>6, FlushKind, PathsAreShort DEF AnalysisStart, Working, Serving
<1>7. CASE AnalysisRestart(s)
  <2>1. r \in Request /\ Serving(s) /\ r.phase = "read"
    BY <1>7, ServingType DEF AnalysisRestart, Working, Serving
  <2>2. request' = [request EXCEPT ![s] = [r EXCEPT !.phase = "analysing"]]
    BY <1>7 DEF AnalysisRestart
  <2>3. QED
    BY <1>7, <2>1, <2>2, QuietKind DEF AnalysisRestart, Request
<1>8. CASE AnalysisAdvance(s)
  <2>1. r \in Request /\ Serving(s) /\ r.phase = "analysing"
    BY <1>8, ServingType DEF AnalysisAdvance, Working, Serving
  <2>2. CASE ScreeningPath(r.seen) = <<>>
    <3>1. request' = [request EXCEPT ![s] = [r EXCEPT !.phase = "flushed"]]
      BY <1>8, <2>2 DEF AnalysisAdvance
    <3>2. QED
      BY <1>8, <2>1, <2>2, <3>1, QuietKind DEF AnalysisAdvance, Request
  <2>3. CASE ScreeningPath(r.seen) # <<>>
    BY <1>8, <2>1, <2>3, FlushKind, PathsAreShort DEF AnalysisAdvance
  <2>4. QED
    BY <2>2, <2>3
<1>9. CASE DisbursementWrite(s)
  <2> DEFINE path == <<"disbursed", "active">>
  <2>1. Serving(s) /\ r \in Request /\ r.phase = "read"
    BY <1>9, ServingType DEF DisbursementWrite, Working, Serving
  <2>2. status[r.loan] \in LoanStatus
    BY <2>1 DEF TypeOK, Request
  <2>3. r.pending = <<>>
    BY <2>1 DEF ReadIsGrounded
  <2>4. r.pending \o Steps(status[r.loan], path) = Steps(status[r.loan], path)
    BY <2>2, <2>3, StepsProperties, PathsAreSequences, ConcatEmptySeq
  <2>5. path \in ShortPath /\ path[Len(path)] = "active"
    BY PathsAreShort
  <2>6. /\ Permitted(policy, Amount[r.loan], status[r.loan], path)
        /\ request' = [request EXCEPT
             ![s].phase = "flushed", ![s].seen = path[Len(path)],
             ![s].pending = r.pending \o Steps(status[r.loan], path)]
        /\ UNCHANGED <<status, events>>
    BY <1>9, <2>4, <2>5 DEF DisbursementWrite
  <2> HIDE DEF path
  <2>7. QED
    BY <2>1, <2>2, <2>3, <2>5, <2>6 DEF Flushes
<1>10. CASE RepaymentAllocate(s)
  <2>1. r \in Request /\ Serving(s) /\ r.phase = "read"
    BY <1>10, ServingType DEF RepaymentAllocate, Working, Serving
  <2>2. PICK phase \in {"allocated", "flushed"},
             amount \in 1..Outstanding(request[s].loan),
             base \in {allocated[request[s].loan]} :
          request' = [request EXCEPT ![s].phase = phase,
                                     ![s].amount = amount, ![s].base = base]
    BY <1>10 DEF RepaymentAllocate
  <2> DEFINE next == [r EXCEPT !.phase = phase, !.amount = amount, !.base = base]
  <2>3. request' = [request EXCEPT ![s] = next]
    BY <2>2
  <2>4. /\ next.loan = r.loan /\ next.op = r.op /\ next.seen = r.seen
        /\ next.pending = r.pending /\ next.known = r.known
        /\ next.phase = phase
    BY <2>1 DEF Request
  <2>5. QED
    BY <1>10, <2>1, <2>3, <2>4, QuietKind DEF RepaymentAllocate
<1>11. CASE RepaymentClose(s)
  BY <1>11, FlushKind, PathsAreShort DEF RepaymentClose, Working, Serving
<1>12. CASE \E d \in {"confirmed", "dismissed"} : DispositionCommit(s, d)
  BY <1>12, QuietKind DEF DispositionCommit, Idle
<1>13. CASE Refused(s) \/ Fail(s)
  BY <1>13, QuietKind DEF Refused, Fail, RollBack, Idle
<1>14. QED
  BY <1>1, <1>2, <1>3, <1>4, <1>5, <1>6, <1>7, <1>8, <1>9, <1>10, <1>11,
     <1>12, <1>13 DEF Advance

(***************************************************************************)
(* Targets of workflow events, and the order of the stages among them.     *)
(***************************************************************************)
Targets(seq) == {seq[i].to : i \in 1..Len(seq)}

LEMMA ConcatTargets ==
  ASSUME NEW a \in Seq(Event), NEW b \in Seq(Event)
  PROVE  Targets(a \o b) = Targets(a) \cup Targets(b)
<1>1. /\ Len(a) \in Nat /\ Len(b) \in Nat /\ Len(a \o b) = Len(a) + Len(b)
      /\ \A i \in 1..Len(a) : (a \o b)[i] = a[i]
      /\ \A i \in 1..Len(b) : (a \o b)[Len(a) + i] = b[i]
      /\ \A i \in 1..(Len(a) + Len(b)) :
           i \in 1..Len(a) \/ i - Len(a) \in 1..Len(b)
  BY ConcatProperties
<1>2. Targets(a \o b) \subseteq Targets(a) \cup Targets(b)
  <2>1. SUFFICES ASSUME NEW i \in 1..(Len(a) + Len(b))
                 PROVE  (a \o b)[i].to \in Targets(a) \cup Targets(b)
    BY <1>1 DEF Targets
  <2>2. CASE i \in 1..Len(a)
    BY <1>1, <2>2 DEF Targets
  <2>3. CASE i - Len(a) \in 1..Len(b)
    <3>1. (a \o b)[i] = b[i - Len(a)]
      BY <1>1, <2>3
    <3>2. QED
      BY <2>3, <3>1 DEF Targets
  <2>4. QED
    BY <1>1, <2>2, <2>3
<1>3. Targets(a) \subseteq Targets(a \o b)
  <2>1. SUFFICES ASSUME NEW i \in 1..Len(a) PROVE a[i].to \in Targets(a \o b)
    BY DEF Targets
  <2>2. i \in 1..Len(a \o b) /\ (a \o b)[i] = a[i]
    BY <1>1
  <2>3. QED
    BY <2>2 DEF Targets
<1>4. Targets(b) \subseteq Targets(a \o b)
  <2>1. SUFFICES ASSUME NEW i \in 1..Len(b) PROVE b[i].to \in Targets(a \o b)
    BY DEF Targets
  <2>2. Len(a) + i \in 1..Len(a \o b) /\ (a \o b)[Len(a) + i] = b[i]
    BY <1>1
  <2>3. QED
    BY <2>2 DEF Targets
<1>5. QED
  BY <1>2, <1>3, <1>4

LEMMA StagesUnion ==
  ASSUME NEW l, NEW A, NEW B, StagesInOrder(l, A), StagesInOrder(l, B)
  PROVE  StagesInOrder(l, A \cup B)
BY DEF StagesInOrder

\* A permitted step out of a known status keeps the stages in order.
LEMMA StagesStep ==
  ASSUME TypeOK, NEW l \in Loans, NEW K, StagesInOrder(l, K),
         NEW from \in K, NEW to \in Allowed(policy, Amount[l], from)
  PROVE  StagesInOrder(l, K \cup {to})
<1>1. <<from, to>> \in LOAN_TRANSITIONS
  BY DEF Allowed
<1>2. /\ to = "under_review" => from \in {"submitted", "needs_more_info"}
      /\ to = "needs_more_info" => from \in {"under_review"} \cup PastScreening
      /\ to = "ai_risk_analysis" => from = "under_review"
      /\ to = "fraud_screening" => from = "ai_risk_analysis"
      /\ to = "officer_review" => from = "fraud_screening"
      /\ to \in PastScreening \ {"officer_review"} => from \in PastScreening
      /\ to \in {"approved", "rejected"}
           => from \in {"officer_review", "analyst_review"}
  BY <1>1 DEF LOAN_TRANSITIONS, PastScreening
<1>3. ASSUME \A p \in Policies : AnalystRequired(p, Amount[l]),
             to \in {"approved", "rejected"}
      PROVE  from = "analyst_review"
  BY <1>2, <1>3 DEF Allowed, TypeOK
<1>4. QED
  BY <1>2, <1>3 DEF StagesInOrder, PastScreening

LEMMA StagesPath ==
  ASSUME TypeOK, NEW l \in Loans, NEW K, StagesInOrder(l, K),
         NEW from \in K, NEW path \in ShortPath,
         Permitted(policy, Amount[l], from, path)
  PROVE  StagesInOrder(l, K \cup {path[i] : i \in 1..Len(path)})
<1>1. path[1] \in Allowed(policy, Amount[l], from)
  BY DEF ShortPath, Permitted, Source
<1>2. StagesInOrder(l, K \cup {path[1]})
  BY <1>1, StagesStep
<1>3. CASE Len(path) = 1
  <2>1. {path[i] : i \in 1..Len(path)} = {path[1]}
    BY <1>3
  <2>2. QED
    BY <1>2, <2>1
<1>4. CASE Len(path) = 2
  <2>1. path[2] \in Allowed(policy, Amount[l], path[1])
    BY <1>4 DEF Permitted, Source
  <2>2. StagesInOrder(l, (K \cup {path[1]}) \cup {path[2]})
    BY <1>2, <2>1, StagesStep
  <2>3. {path[i] : i \in 1..Len(path)} = {path[1], path[2]}
    BY <1>4
  <2>4. (K \cup {path[1]}) \cup {path[2]} = K \cup {path[1], path[2]}
    OBVIOUS
  <2>5. QED
    BY <2>2, <2>3, <2>4
<1>5. QED
  BY <1>3, <1>4 DEF ShortPath

\* What a request knows stays grounded when more statuses are committed.
LEMMA ReadsKept ==
  ASSUME TypeOK, NEW t \in Sessions, Serving(t), Serving(t)', ReadIsGrounded(t),
         SameRow(t),
         request'[t].phase \in {"read", "cleared"}
           => request[t].phase \in {"read", "cleared"},
         Reached(request[t].loan) \subseteq Reached(request[t].loan)',
         StagesInOrder(request[t].loan, Reached(request[t].loan)')
  PROVE  ReadIsGrounded(t)'
<1> DEFINE r == request[t]
           before == Reached(r.loan) \cup PendingTargets(r)
           after == Reached(r.loan)' \cup PendingTargets(r)
<1>1. /\ request'[t].loan = r.loan /\ request'[t].seen = r.seen
      /\ request'[t].pending = r.pending
  BY DEF SameRow
<1>2. (Reached(request[t].loan) \cup PendingTargets(request[t]))' = after
  BY <1>1 DEF PendingTargets, Reached
<1>3. StagesInOrder(r.loan, before)
  BY DEF ReadIsGrounded
<1>4. StagesInOrder(r.loan, before \cup Reached(r.loan)')
  BY <1>3, StagesUnion
<1>5. before \cup Reached(r.loan)' = after
  OBVIOUS
<1>6. StagesInOrder(r.loan, after)
  BY <1>4, <1>5
<1>7. r.seen \in after
  BY DEF ReadIsGrounded
<1>8. Chained(r.pending, Reached(r.loan))
  BY DEF ReadIsGrounded
<1>9. Chained(request'[t].pending, (Reached(request[t].loan))')
  BY <1>1, <1>8 DEF Chained
<1>10. request'[t].pending # <<>> => LastOf(request'[t].pending).to = request'[t].seen
  BY <1>1 DEF ReadIsGrounded
<1>11. request'[t].phase \in {"read", "cleared"} => request'[t].pending = <<>>
  BY <1>1 DEF ReadIsGrounded
<1>12. QED
  BY <1>1, <1>2, <1>6, <1>7, <1>9, <1>10, <1>11 DEF ReadIsGrounded

(***************************************************************************)
(* The rows a request knows, step by step.                                 *)
(***************************************************************************)
RowsInvariant ==
  TypeOK /\ AlertLocked /\ StatusIsLastEvent /\ EventsGrounded /\ RequestsGrounded

LEMMA StatusReached ==
  ASSUME TypeOK, StatusIsLastEvent, NEW l \in Loans
  PROVE  status[l] \in Reached(l)
<1>1. events[l] \in Seq(Event)
  BY DEF TypeOK
<1>2. CASE events[l] = <<>>
  BY <1>2 DEF StatusIsLastEvent, Reached
<1>3. CASE events[l] # <<>>
  <2>1. Len(events[l]) \in 1..Len(events[l])
    BY <1>1, <1>3, EmptySeq
  <2>2. QED
    BY <1>3, <2>1 DEF StatusIsLastEvent, LastOf, Reached
<1>4. QED
  BY <1>2, <1>3

LEMMA RowsKept ==
  ASSUME RowsInvariant, KeepsRows
  PROVE  (StatusIsLastEvent /\ EventsGrounded /\ RequestsGrounded)'
<1>1. \A l : Reached(l)' = Reached(l)
  BY DEF KeepsRows, Reached
<1>2. StatusIsLastEvent' /\ EventsGrounded'
  BY DEF RowsInvariant, StatusIsLastEvent, EventsGrounded, KeepsRows, LastOf
<1>3. \A l \in Loans : StagesInOrder(l, Reached(l)')
  BY <1>1 DEF RowsInvariant, RequestsGrounded
<1>4. ASSUME NEW t \in Sessions, Serving(t)' PROVE ReadIsGrounded(t)'
  <2>1. /\ Serving(t) /\ SameRow(t)
        /\ request'[t].phase \in {"read", "cleared"}
             => request[t].phase \in {"read", "cleared"}
    BY <1>4 DEF KeepsRows
  <2>2. request[t].loan \in Loans
    BY <2>1, ServingType DEF RowsInvariant, Request
  <2>3. ReadIsGrounded(t) /\ TypeOK
    BY <2>1 DEF RowsInvariant, RequestsGrounded
  <2>4. /\ (Reached(request[t].loan))' = Reached(request[t].loan)
        /\ StagesInOrder(request[t].loan, Reached(request[t].loan))
    BY <2>1, <2>2 DEF KeepsRows, SameRow, Reached, RowsInvariant, RequestsGrounded
  <2>5. StagesInOrder(request[t].loan, Reached(request[t].loan))'
    BY <2>1, <2>4 DEF SameRow, StagesInOrder
  <2>6. QED
    BY <1>4, <2>1, <2>3, <2>4, <2>5, ReadsKept
<1>5. QED
  BY <1>2, <1>3, <1>4 DEF RequestsGrounded, StagesInOrder

\* A request that keeps its row while another session's begins or flushes.
LEMMA OthersKept ==
  ASSUME RowsInvariant, UNCHANGED <<status, events>>, NEW t \in Sessions,
         request'[t] = request[t], Serving(t)'
  PROVE  ReadIsGrounded(t)'
<1>1. Serving(t) /\ ReadIsGrounded(t)
  BY DEF Serving, RowsInvariant, RequestsGrounded
<1>2. SameRow(t) /\ TypeOK /\ request[t].loan \in Loans
  BY <1>1, ServingType DEF SameRow, RowsInvariant, Request
<1>3. (Reached(request[t].loan))' = Reached(request[t].loan)
  BY DEF Reached
<1>4. StagesInOrder(request[t].loan, Reached(request[t].loan))
  BY <1>2 DEF RowsInvariant, RequestsGrounded
<1>5. StagesInOrder(request[t].loan, Reached(request[t].loan))'
  BY <1>3, <1>4 DEF StagesInOrder
<1>6. QED
  BY <1>1, <1>2, <1>3, <1>5, ReadsKept

LEMMA RowsBegun ==
  ASSUME RowsInvariant, NEW s \in Sessions, NEW op \in Operations, NEW l \in Loans,
         Begin(s, op, l)
  PROVE  (StatusIsLastEvent /\ EventsGrounded /\ RequestsGrounded)'
<1>1. /\ request'[s].seen = status[l] /\ request'[s].loan = l
      /\ request'[s].pending = <<>>
      /\ \A t \in Sessions \ {s} : request'[t] = request[t]
      /\ UNCHANGED <<status, events>>
  BY DEF Begin, RowsInvariant, TypeOK
<1>2. StatusIsLastEvent' /\ EventsGrounded'
  BY <1>1 DEF RowsInvariant, StatusIsLastEvent, EventsGrounded, LastOf
<1>3. \A k \in Loans : Reached(k)' = Reached(k)
  BY <1>1 DEF Reached
<1>4. ReadIsGrounded(s)'
  <2>1. status[l] \in Reached(l)
    BY StatusReached DEF RowsInvariant
  <2>2. PendingTargets(request[s])' = {} /\ Reached(request[s].loan)' = Reached(l)
    BY <1>1 DEF PendingTargets, Reached
  <2>3. StagesInOrder(l, Reached(l) \cup {})
    BY DEF RowsInvariant, RequestsGrounded
  <2>4. StagesInOrder(request[s].loan,
          Reached(request[s].loan) \cup PendingTargets(request[s]))'
    BY <1>1, <2>2, <2>3 DEF StagesInOrder
  <2>5. QED
    BY <1>1, <2>1, <2>2, <2>4 DEF ReadIsGrounded, Chained
<1>5. ASSUME NEW t \in Sessions \ {s}, Serving(t)' PROVE ReadIsGrounded(t)'
  BY <1>1, <1>5, OthersKept
<1>6. \A k \in Loans : StagesInOrder(k, Reached(k))'
  BY <1>3 DEF RowsInvariant, RequestsGrounded, StagesInOrder
<1>7. QED
  BY <1>2, <1>4, <1>5, <1>6 DEF RequestsGrounded

\* Flushed events extend the request's chain of legal steps.
LEMMA ChainExtended ==
  ASSUME TypeOK, NEW l \in Loans, NEW pending \in Seq(Event),
         NEW from \in LoanStatus, NEW path \in ShortPath, NEW reached,
         from \in reached \cup Targets(pending),
         Permitted(policy, Amount[l], from, path),
         Chained(pending, reached)
  PROVE  LET after == pending \o Steps(from, path) IN
         /\ after \in Seq(Event) /\ after # <<>>
         /\ LastOf(after).to = path[Len(path)]
         /\ Targets(after) = Targets(pending) \cup {path[i] : i \in 1..Len(path)}
         /\ Chained(after, reached)
<1> DEFINE after == pending \o Steps(from, path)
           steps == Steps(from, path)
           n == Len(pending)
           m == Len(path)
<1>1. path \in Seq(LoanStatus) /\ n \in Nat /\ (m = 1 \/ m = 2)
  BY DEF ShortPath
<1>2. /\ steps \in Seq(Event) /\ Len(steps) = m
      /\ \A i \in 1..m :
           steps[i].from = Source(from, path, i) /\ steps[i].to = path[i]
  BY <1>1, StepsProperties
<1>0. \A i \in 1..m : path[i] \in Allowed(policy, Amount[l], Source(from, path, i))
  BY DEF Permitted
<1> HIDE DEF after, steps, n, m
<1>3. /\ after \in Seq(Event) /\ Len(after) = n + m
      /\ \A i \in 1..n : after[i] = pending[i]
      /\ \A i \in 1..m : after[n + i] = steps[i]
  BY <1>1, <1>2, ConcatProperties DEF after, steps, n
<1>4. after # <<>>
  BY <1>1, <1>3, EmptySeq
<1>5. LastOf(after).to = path[Len(path)]
  <2>1. m \in 1..m /\ Len(after) = n + m
    BY <1>1, <1>3
  <2>2. LastOf(after) = steps[m]
    BY <1>3, <2>1 DEF LastOf
  <2>3. QED
    BY <1>2, <2>1, <2>2 DEF m
<1>6. Targets(steps) = {path[i] : i \in 1..Len(path)}
  BY <1>2 DEF Targets, m
<1>7. Targets(after) = Targets(pending) \cup {path[i] : i \in 1..Len(path)}
  BY <1>2, <1>6, ConcatTargets DEF after, steps
<1>8. /\ 1 \in 1..m
      /\ m = 2 => 2 \in 1..m
  BY <1>1
<1>10. /\ after[n + 1].from = from /\ after[n + 1].to = path[1]
       /\ <<from, path[1]>> \in LOAN_TRANSITIONS
  <2>1. Source(from, path, 1) = from
    BY DEF Source
  <2>2. path[1] \in Allowed(policy, Amount[l], from)
    BY <1>0, <1>8, <2>1
  <2>3. after[n + 1] = steps[1] /\ steps[1].from = from /\ steps[1].to = path[1]
    BY <1>2, <1>3, <1>8, <2>1
  <2>4. QED
    BY <2>2, <2>3 DEF Allowed
<1>11. m = 2 =>
         /\ after[n + 2].from = path[1] /\ after[n + 2].to = path[2]
         /\ <<path[1], path[2]>> \in LOAN_TRANSITIONS
  <2>1. Source(from, path, 2) = path[1]
    BY DEF Source
  <2>2. m = 2 => path[2] \in Allowed(policy, Amount[l], path[1])
    BY <1>0, <1>8, <2>1
  <2>3. m = 2 => after[n + 2] = steps[2] /\ steps[2].from = path[1]
                   /\ steps[2].to = path[2]
    BY <1>2, <1>3, <1>8, <2>1
  <2>4. QED
    BY <2>2, <2>3 DEF Allowed
<1>12. ASSUME NEW i \in 1..(n + m)
       PROVE  /\ <<after[i].from, after[i].to>> \in LOAN_TRANSITIONS
              /\ \/ after[i].from \in reached
                 \/ \E j \in 1..(i - 1) : after[j].to = after[i].from
  <2>1. CASE i \in 1..n
    <3>1. \A j \in 1..(i - 1) : after[j] = pending[j]
      BY <1>1, <1>3, <2>1
    <3>2. after[i] = pending[i]
      BY <1>3, <2>1
    <3>3. QED
      BY <2>1, <3>1, <3>2 DEF Chained, n
  <2>2. CASE i = n + 1
    <3>1. CASE from \in Targets(pending)
      <4>1. PICK j \in 1..n : pending[j].to = from
        BY <3>1 DEF Targets, n
      <4>2. j \in 1..(i - 1) /\ after[j].to = from
        BY <1>1, <1>3, <2>2, <4>1
      <4>3. QED
        BY <1>10, <2>2, <4>2
    <3>2. QED
      BY <1>10, <2>2, <3>1
  <2>3. CASE i = n + 2 /\ m = 2
    <3>1. n + 1 \in 1..(i - 1)
      BY <1>1, <2>3
    <3>2. QED
      BY <1>10, <1>11, <2>3, <3>1
  <2>4. i \in 1..n \/ i = n + 1 \/ (i = n + 2 /\ m = 2)
    BY <1>1
  <2>5. QED
    BY <2>1, <2>2, <2>3, <2>4
<1>13. QED
  BY <1>3, <1>4, <1>5, <1>7, <1>12 DEF Chained, after

LEMMA RowsFlushed ==
  ASSUME RowsInvariant, NEW s \in Sessions, Flushes(s)
  PROVE  (StatusIsLastEvent /\ EventsGrounded /\ RequestsGrounded)'
<1>0. PICK r \in Request, l \in Loans : r = request[s] /\ l = r.loan
  BY ServingType DEF Flushes, RowsInvariant, Request
<1>1. Serving(s) /\ r.pending \in Seq(Event) /\ r.seen \in LoanStatus
  BY DEF Flushes, Request
<1>2. PICK from \in LoanStatus, path \in ShortPath, phase \in {"analysing", "flushed"} :
        /\ from = r.seen \/ from = status[l]
        /\ Permitted(policy, Amount[l], from, path)
        /\ request' = [request EXCEPT
             ![s].phase = phase, ![s].seen = path[Len(path)],
             ![s].pending = r.pending \o Steps(from, path)]
        /\ UNCHANGED <<status, events>>
  BY <1>0 DEF Flushes
<1> DEFINE after == r.pending \o Steps(from, path)
<1>3. /\ request'[s].loan = l /\ request'[s].seen = path[Len(path)]
      /\ request'[s].pending = after /\ request'[s].phase = phase
      /\ \A t \in Sessions \ {s} : request'[t] = request[t]
  BY <1>0, <1>1, <1>2 DEF RowsInvariant, TypeOK, Request
<1>4. ReadIsGrounded(s)
  BY <1>1 DEF RowsInvariant, RequestsGrounded
<1>5. from \in Reached(l) \cup Targets(r.pending)
  <2>1. status[l] \in Reached(l)
    BY <1>1, StatusReached DEF RowsInvariant
  <2>2. QED
    BY <1>0, <1>2, <1>4, <2>1 DEF ReadIsGrounded, PendingTargets, Targets
<1>6. /\ after # <<>>
      /\ LastOf(after).to = path[Len(path)]
      /\ Targets(after) = Targets(r.pending) \cup {path[i] : i \in 1..Len(path)}
      /\ Chained(after, Reached(l))
  <2>1. PICK reached : reached = Reached(l)
    OBVIOUS
  <2>2. Chained(r.pending, reached)
    BY <1>0, <1>4, <2>1 DEF ReadIsGrounded
  <2>3. TypeOK /\ from \in reached \cup Targets(r.pending)
    BY <1>5, <2>1 DEF RowsInvariant
  <2>4. Permitted(policy, Amount[l], from, path)
    BY <1>2
  <2>5. /\ after # <<>>
        /\ LastOf(after).to = path[Len(path)]
        /\ Targets(after) = Targets(r.pending) \cup {path[i] : i \in 1..Len(path)}
        /\ Chained(after, reached)
    BY <1>1, <2>2, <2>3, <2>4, ChainExtended
  <2>6. QED
    BY <2>1, <2>5
<1>7. path[Len(path)] \in Targets(after)
  <2>1. Len(path) \in 1..Len(path)
    <3>1. Len(path) = 1 \/ Len(path) = 2
      BY DEF ShortPath
    <3>2. QED
      BY <3>1
  <2>2. QED
    BY <1>6, <2>1
<1>8. StagesInOrder(l, Reached(l) \cup Targets(after))
  <2> DEFINE known == Reached(l) \cup Targets(r.pending)
             new == {path[i] : i \in 1..Len(path)}
  <2>1. StagesInOrder(l, known) /\ TypeOK
    BY <1>0, <1>4 DEF ReadIsGrounded, PendingTargets, Targets, RowsInvariant
  <2>2. from \in known
    BY <1>5
  <2>3. StagesInOrder(l, known \cup new)
    <3> HIDE DEF known
    <3>1. QED
      BY <1>2, <2>1, <2>2, StagesPath
  <2>4. known \cup new = Reached(l) \cup Targets(after)
    BY <1>6
  <2>5. QED
    BY <2>3, <2>4
<1>9. \A k \in Loans : Reached(k)' = Reached(k)
  BY <1>2 DEF Reached
<1>10. ReadIsGrounded(s)'
  <2>1. /\ (Reached(request[s].loan))' = Reached(l)
        /\ PendingTargets(request[s])' = Targets(after)
    <3>1. (Reached(request[s].loan))' = Reached(l)
      BY <1>2, <1>3 DEF Reached
    <3>2. PendingTargets(request[s])' = Targets(request'[s].pending)
      BY DEF PendingTargets, Targets
    <3>3. QED
      BY <1>3, <3>1, <3>2
  <2> HIDE DEF after
  <2>2. (request[s].seen)' \in (Reached(request[s].loan) \cup PendingTargets(request[s]))'
    BY <1>3, <1>7, <2>1
  <2>3. StagesInOrder(request[s].loan,
          Reached(request[s].loan) \cup PendingTargets(request[s]))'
    BY <1>3, <1>8, <2>1 DEF StagesInOrder
  <2>4. /\ request'[s].pending # <<>>
        /\ LastOf(request'[s].pending).to = request'[s].seen
        /\ request'[s].phase \notin {"read", "cleared"}
    BY <1>2, <1>3, <1>6
  <2>5. QED
    BY <1>3, <1>6, <2>1, <2>2, <2>3, <2>4 DEF ReadIsGrounded, LastOf
<1>11. ASSUME NEW t \in Sessions \ {s}, Serving(t)' PROVE ReadIsGrounded(t)'
  BY <1>2, <1>3, <1>11, OthersKept
<1>12. StatusIsLastEvent' /\ EventsGrounded'
  BY <1>2 DEF RowsInvariant, StatusIsLastEvent, EventsGrounded, LastOf
<1>13. \A k \in Loans : StagesInOrder(k, Reached(k))'
  BY <1>9 DEF RowsInvariant, RequestsGrounded, StagesInOrder
<1>14. QED
  BY <1>10, <1>11, <1>12, <1>13 DEF RequestsGrounded

LEMMA RowsPublished ==
  ASSUME RowsInvariant, NEW s \in Sessions, Serving(s), Publish(s)
  PROVE  (StatusIsLastEvent /\ EventsGrounded /\ RequestsGrounded)'
<1>0. PICK r \in Request, l \in Loans, old \in Seq(Event), new \in Seq(Event) :
        r = request[s] /\ l = r.loan /\ old = events[l] /\ new = r.pending
  BY ServingType DEF RowsInvariant, Request, TypeOK
<1>1. PICK n \in Nat, m \in Nat : n = Len(old) /\ m = Len(new)
  OBVIOUS
<1>2. /\ events'[l] = old \o new
      /\ \A k \in Loans \ {l} : events'[k] = events[k] /\ status'[k] = status[k]
      /\ status'[l] = IF new = <<>> THEN status[l] ELSE r.seen
      /\ request'[s] = Idle
      /\ \A t \in Sessions \ {s} : request'[t] = request[t]
  BY <1>0 DEF Publish, RowsInvariant, TypeOK
<1>3. ReadIsGrounded(s)
  BY DEF RowsInvariant, RequestsGrounded
<1>4. /\ Len(events'[l]) = n + m
      /\ \A i \in 1..n : events'[l][i] = old[i]
      /\ \A i \in 1..m : events'[l][n + i] = new[i]
  <2>1. /\ Len(old \o new) = Len(old) + Len(new)
        /\ \A i \in 1..Len(old) : (old \o new)[i] = old[i]
        /\ \A i \in 1..Len(new) : (old \o new)[Len(old) + i] = new[i]
    BY ConcatProperties
  <2>2. QED
    BY <1>1, <1>2, <2>1
<1>5. StatusIsLastEvent'
  <2>1. \A k \in Loans \ {l} :
          status'[k] = IF events'[k] = <<>> THEN "draft" ELSE LastOf(events'[k]).to
    BY <1>2 DEF RowsInvariant, StatusIsLastEvent, LastOf
  <2>2. CASE new = <<>>
    <3>1. events'[l] = old /\ status'[l] = status[l]
      BY <1>0, <1>2, <2>2, ConcatEmptySeq
    <3>2. QED
      BY <1>0, <2>1, <3>1 DEF RowsInvariant, StatusIsLastEvent, LastOf
  <2>3. CASE new # <<>>
    <3>1. m \in 1..m
      BY <1>1, <2>3, EmptySeq
    <3>2. LastOf(events'[l]) = new[m]
      BY <1>1, <1>4, <3>1 DEF LastOf
    <3>3. new[m].to = r.seen
      BY <1>0, <1>1, <1>3, <2>3 DEF ReadIsGrounded, LastOf
    <3>4. events'[l] # <<>>
      BY <1>1, <1>4, <3>1, EmptySeq
    <3>5. status'[l] = LastOf(events'[l]).to
      BY <1>2, <2>3, <3>2, <3>3
    <3>6. QED
      BY <2>1, <3>4, <3>5 DEF StatusIsLastEvent, LastOf
  <2>4. QED
    BY <2>2, <2>3
<1>6. Reached(l)' = Reached(l) \cup Targets(new)
  <2>1. Targets(events'[l]) = Targets(old) \cup Targets(new)
    BY <1>2, ConcatTargets
  <2>2. Reached(l)' = {"draft"} \cup Targets(events'[l])
    BY DEF Reached, Targets
  <2>3. Reached(l) = {"draft"} \cup Targets(old)
    BY <1>0 DEF Reached, Targets
  <2>4. QED
    BY <2>1, <2>2, <2>3
<1>7. EventsGrounded'
  <2>1. \A k \in Loans \ {l} : Chained(events'[k], {"draft"})
    BY <1>2 DEF RowsInvariant, EventsGrounded
  <2> DEFINE all == events'[l]
  <2>2. Chained(old, {"draft"}) /\ Chained(new, Reached(l))
    BY <1>0, <1>3 DEF RowsInvariant, EventsGrounded, ReadIsGrounded
  <2>3. ASSUME NEW i \in 1..(n + m)
        PROVE  /\ <<all[i].from, all[i].to>> \in LOAN_TRANSITIONS
               /\ \/ all[i].from \in {"draft"}
                  \/ \E j \in 1..(i - 1) : all[j].to = all[i].from
    <3>1. CASE i \in 1..n
      <4>1. \A j \in 1..(i - 1) : all[j] = old[j]
        BY <1>1, <1>4, <3>1
      <4>2. all[i] = old[i]
        BY <1>4, <3>1
      <4>3. QED
        BY <1>1, <2>2, <3>1, <4>1, <4>2 DEF Chained
    <3>2. CASE i - n \in 1..m
      <4>1. PICK k \in 1..m : k = i - n
        BY <3>2
      <4>2. all[i] = new[k]
        BY <1>1, <1>4, <4>1
      <4>3. /\ <<new[k].from, new[k].to>> \in LOAN_TRANSITIONS
            /\ \/ new[k].from \in Reached(l)
               \/ \E j \in 1..(k - 1) : new[j].to = new[k].from
        BY <1>1, <2>2, <4>1 DEF Chained
      <4>4. CASE new[k].from \in Reached(l) /\ new[k].from # "draft"
        <5>1. PICK j \in 1..n : old[j].to = new[k].from
          BY <1>0, <1>1, <4>4 DEF Reached
        <5>2. j \in 1..(i - 1) /\ all[j].to = new[k].from
          BY <1>1, <1>4, <4>1, <5>1
        <5>3. QED
          BY <4>2, <4>3, <5>2
      <4>5. CASE \E j \in 1..(k - 1) : new[j].to = new[k].from
        <5>1. PICK j \in 1..(k - 1) : new[j].to = new[k].from
          BY <4>5
        <5>2. j \in 1..m /\ n + j \in 1..(i - 1)
          BY <1>1, <4>1, <5>1
        <5>3. all[n + j].to = new[k].from
          BY <1>4, <5>1, <5>2
        <5>4. QED
          BY <4>2, <4>3, <5>2, <5>3
      <4>6. QED
        BY <4>2, <4>3, <4>4, <4>5
    <3>3. QED
      BY <1>1, <3>1, <3>2
  <2>4. Chained(all, {"draft"})
    BY <1>4, <2>3 DEF Chained
  <2>5. QED
    BY <2>1, <2>4 DEF EventsGrounded
<1>8. \A k \in Loans \ {l} : Reached(k)' = Reached(k)
  BY <1>2 DEF Reached
<1>9. \A k \in Loans : StagesInOrder(k, Reached(k)')
  <2>1. StagesInOrder(l, Reached(l)')
    BY <1>0, <1>3, <1>6 DEF ReadIsGrounded, PendingTargets, Targets
  <2>2. \A k \in Loans \ {l} : StagesInOrder(k, Reached(k)')
    BY <1>8 DEF RowsInvariant, RequestsGrounded
  <2>3. QED
    BY <2>1, <2>2
<1>10. ASSUME NEW t \in Sessions, Serving(t)' PROVE ReadIsGrounded(t)'
  <2>1. t # s /\ request'[t] = request[t] /\ Serving(t)
    BY <1>2, <1>10 DEF Serving, Idle
  <2>2. request[t].loan \in Loans
    BY <2>1, ServingType DEF RowsInvariant, Request
  <2>3. SameRow(t) /\ ReadIsGrounded(t) /\ TypeOK
    BY <2>1 DEF SameRow, RowsInvariant, RequestsGrounded
  <2>4. \A k \in Loans : Reached(k) \subseteq Reached(k)'
    BY <1>6, <1>8
  <2>5. /\ Reached(request[t].loan) \subseteq (Reached(request[t].loan))'
        /\ StagesInOrder(request[t].loan, Reached(request[t].loan))'
    <3>1. (Reached(request[t].loan))' = {"draft"} \cup Targets(events'[request[t].loan])
      BY <2>1 DEF Reached, Targets
    <3>2. \A k : Reached(k)' = {"draft"} \cup Targets(events'[k])
      BY DEF Reached, Targets
    <3>3. QED
      BY <1>9, <2>1, <2>2, <2>4, <3>1, <3>2 DEF StagesInOrder
  <2>6. QED
    BY <1>10, <2>1, <2>3, <2>5, ReadsKept
<1>11. QED
  BY <1>5, <1>7, <1>9, <1>10 DEF RequestsGrounded, StagesInOrder

LEMMA RowsStep ==
  ASSUME RowsInvariant, [Next]_vars
  PROVE  RowsInvariant'
<1>1. TypeOK' /\ AlertLocked'
  BY TypeStep, AlertLockedStep DEF RowsInvariant
<1>2. CASE \E s \in Sessions : Advance(s) \/ Fail(s)
  <2>1. PICK s \in Sessions : Advance(s) \/ Fail(s)
    BY <1>2
  <2>2. TypeOK /\ (Serving(s) => ReadIsGrounded(s))
    BY DEF RowsInvariant, RequestsGrounded
  <2>3. KeepsRows \/ Flushes(s) \/ (Serving(s) /\ Publish(s))
    BY <2>1, <2>2, AdvanceKinds
  <2>4. QED
    BY <1>1, <2>3, RowsKept, RowsFlushed, RowsPublished DEF RowsInvariant
<1>3. CASE \E s \in Sessions, op \in Operations, l \in Loans : Begin(s, op, l)
  BY <1>1, <1>3, RowsBegun DEF RowsInvariant
<1>4. CASE \E s \in Sessions, a \in Alerts : DispositionLock(s, a)
  <2>1. KeepsRows
    BY <1>4, QuietKind DEF DispositionLock, RowsInvariant
  <2>2. QED
    BY <1>1, <2>1, RowsKept DEF RowsInvariant
<1>5. CASE (\E p \in Policies : UpdateSettings(p)) \/ UNCHANGED vars
  <2>1. KeepsRows
    BY <1>5 DEF UpdateSettings, vars, KeepsRows, SameRow, Serving
  <2>2. QED
    BY <1>1, <2>1, RowsKept DEF RowsInvariant
<1>6. QED
  BY <1>2, <1>3, <1>4, <1>5 DEF Next

LEMMA RowsInit ==
  ASSUME Init
  PROVE  RowsInvariant
<1>1. TypeOK
  BY DEF Init, TypeOK, LoanStatus
<1>2. \A l \in Loans : Reached(l) = {"draft"}
  BY DEF Init, Reached
<1>3. RequestsGrounded
  BY <1>2 DEF Init, RequestsGrounded, Serving, Idle, StagesInOrder, PastScreening
<1>4. AlertLocked /\ StatusIsLastEvent /\ EventsGrounded
  BY DEF Init, AlertLocked, Working, Idle, StatusIsLastEvent, EventsGrounded, Chained
<1>5. QED
  BY <1>1, <1>3, <1>4 DEF RowsInvariant

(***************************************************************************)
(* What the stored rows say without their order.  A set of statuses with   *)
(* draft that the rows do not lead out of has every status reached: the    *)
(* first event to write one outside it would have come from inside.        *)
(***************************************************************************)
LEMMA ClosedReaches ==
  ASSUME TypeOK, EventsGrounded, NEW l \in Loans, NEW known, "draft" \in known,
         \A row \in Ledger(l) : row.from \in known => row.to \in known
  PROVE  Reached(l) \subseteq known
<1> DEFINE Outside == {i \in 1..Len(events[l]) : events[l][i].to \notin known}
<1>1. Len(events[l]) \in Nat
  BY DEF TypeOK
<1>2. SUFFICES ASSUME Outside # {} PROVE FALSE
  BY DEF Reached
<1>3. Outside \subseteq Nat
  BY <1>1
<1> HIDE DEF Outside
<1>4. PICK i \in Outside : \A j \in Outside : <<j, i>> \notin OpToRel(<, Nat)
  BY <1>2, <1>3, NatLessThanWellFounded, WFMin
<1>5. \A j \in Outside : ~(j < i)
  BY <1>3, <1>4 DEF OpToRel
<1>6. /\ i \in 1..Len(events[l]) /\ events[l][i].to \notin known
      /\ \A j \in 1..(i - 1) : events[l][j].to \in known
  BY <1>1, <1>5 DEF Outside
<1>7. events[l][i].from \in known
  BY <1>1, <1>6 DEF EventsGrounded, Chained
<1>8. QED
  BY <1>6, <1>7 DEF Ledger

\* Whatever requests overlap, the stored rows of every loan, read in any order,
\* lead from draft to its status.
THEOREM LedgerExplains == Spec => []LedgerExplainsStatus
<1>1. ASSUME RowsInvariant, NEW l \in Loans, NEW known \in SUBSET Reached(l),
             "draft" \in known,
             \A row \in Ledger(l) : row.from \in known => row.to \in known
      PROVE  status[l] \in known
  <2>1. Reached(l) \subseteq known
    BY <1>1, ClosedReaches DEF RowsInvariant
  <2>2. status[l] \in Reached(l)
    BY <1>1, StatusReached DEF RowsInvariant
  <2>3. QED
    BY <2>1, <2>2
<1>2. RowsInvariant => LedgerExplainsStatus
  BY <1>1 DEF LedgerExplainsStatus
<1>3. QED
  BY <1>2, RowsInit, RowsStep, PTL DEF Spec

\* Every committed workflow event is an edge of the safety graph, out of a
\* status the loan had committed before.
THEOREM EventsAreGrounded == Spec => []EventsGrounded
<1>1. RowsInvariant => EventsGrounded
  BY DEF RowsInvariant
<1>2. QED
  BY <1>1, RowsInit, RowsStep, PTL DEF Spec

\* No loan is behind officer review without having committed each mandatory
\* screening stage.
THEOREM StagesAreMandatory == Spec => []NoStageSkipped
<1>1. ASSUME RowsInvariant, NEW l \in Loans,
             Reached(l) \cap PastScreening # {}
      PROVE  SafetyPath \subseteq Reached(l)
  BY <1>1 DEF RowsInvariant, RequestsGrounded, StagesInOrder, SafetyPath
<1>2. RowsInvariant => NoStageSkipped
  BY <1>1 DEF NoStageSkipped
<1>3. QED
  BY <1>2, RowsInit, RowsStep, PTL DEF Spec

\* Where every settings of the tenant require the analyst for a loan, an
\* officer never decides it around analyst review.
THEOREM AnalystIsNotBypassed == Spec => []AnalystGate
<1>1. ASSUME RowsInvariant, NEW l \in Loans,
             \A p \in Policies : AnalystRequired(p, Amount[l]),
             Reached(l) \cap {"approved", "rejected"} # {}
      PROVE  "analyst_review" \in Reached(l)
  BY <1>1 DEF RowsInvariant, RequestsGrounded, StagesInOrder
<1>2. RowsInvariant => AnalystGate
  BY <1>1 DEF AnalystGate
<1>3. QED
  BY <1>2, RowsInit, RowsStep, PTL DEF Spec
==============================================================================
