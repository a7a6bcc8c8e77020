--------------------------- MODULE LoanLockProofs ----------------------------
(***************************************************************************)
(* What the row locks of LoanLifecycle protect, proved for every value of  *)
(* its constants: the balance a repayment allocates and the approval a     *)
(* disbursement pays out on.                                               *)
(***************************************************************************)
EXTENDS LoanSafetyProofs

balances == <<disbursed, allocated, repaid>>

(***************************************************************************)
(* What a step of a session does to the locks it holds and the balances.   *)
(***************************************************************************)
Releases(s) == ~Serving(s)'

Keeps(s) ==
  /\ Serving(s) /\ Serving(s)' /\ SameRow(s)
  /\ request[s].op \notin {"disburse", "repay"}

LocksLoan(s) ==
  /\ Serving(s) /\ Serving(s)' /\ LoanFree(s, request[s].loan)
  /\ request'[s].loan = request[s].loan /\ request'[s].op = request[s].op
  /\ request'[s].amount = request[s].amount /\ request'[s].base = request[s].base
  /\ request'[s].pending # <<>>
  /\ request[s].op # "disburse"
  /\ request[s].op = "repay" =>
       /\ request[s].phase = "allocated" /\ request'[s].phase = "flushed"
       /\ request'[s].seen = "closed"

Quietly(s) ==
  /\ Releases(s) \/ Keeps(s) \/ LocksLoan(s)
  /\ UNCHANGED <<status, events>> /\ UNCHANGED balances

Commits(s) ==
  /\ Serving(s) /\ request[s].phase = "flushed" /\ Publish(s)
  /\ request[s].op \notin {"disburse", "repay"}
  /\ UNCHANGED balances

LEMMA FlushLocks ==
  ASSUME RowsInvariant, NEW s \in Sessions, Serving(s), NEW path \in ShortPath,
         NEW phase \in {"analysing", "flushed"}, Flush(s, path, phase),
         request[s].op # "disburse",
         request[s].op = "repay" =>
           request[s].phase = "allocated" /\ phase = "flushed" /\ path = <<"closed">>
  PROVE  Quietly(s)
<1> DEFINE r == request[s]
<1>1. r \in Request
  BY ServingType DEF RowsInvariant
<1>2. r.pending \o Steps(r.seen, path) # <<>>
  <2>1. PICK before \in Seq(Event), steps \in Seq(Event) :
          /\ before = r.pending /\ steps = Steps(r.seen, path)
          /\ Len(steps) = Len(path)
    BY <1>1, StepsProperties DEF ShortPath, Request
  <2>2. Len(path) = 1 \/ Len(path) = 2
    BY DEF ShortPath
  <2>3. steps # <<>>
    BY <2>1, <2>2, EmptySeq
  <2>4. before \o steps # <<>>
    BY <2>3, ConcatSimplifications!concIsEmpty
  <2>5. QED
    BY <2>1, <2>4
<1>3. /\ request'[s].loan = r.loan /\ request'[s].op = r.op
      /\ request'[s].amount = r.amount /\ request'[s].base = r.base
      /\ request'[s].phase = phase
      /\ request'[s].seen = path[Len(path)]
      /\ request'[s].pending = r.pending \o Steps(r.seen, path)
  BY <1>1 DEF Flush, RowsInvariant, TypeOK, Request
<1>4. r.op = "repay" => request'[s].seen = "closed"
  <2>1. path = <<"closed">> => path[Len(path)] = "closed"
    OBVIOUS
  <2>2. QED
    BY <1>3, <2>1
<1>5. LocksLoan(s)
  BY <1>2, <1>3, <1>4 DEF LocksLoan, Flush, Serving
<1>6. QED
  BY <1>5 DEF Quietly, Flush, loanRows, balances

LEMMA AdvanceEffects ==
  ASSUME RowsInvariant, NEW s \in Sessions, Advance(s) \/ Fail(s)
  PROVE  \/ Quietly(s) \/ Commits(s) \/ DisbursementWrite(s)
         \/ DisbursementCommit(s) \/ RepaymentAllocate(s) \/ RepaymentCommit(s)
<1> DEFINE r == request[s]
<1>1. CASE SubmitWrite(s)
  BY <1>1, FlushLocks, PathsAreShort DEF SubmitWrite, Working, Serving
<1>2. CASE \E to \in LoanStatus : TransitionWrite(s, to)
  BY <1>2, FlushLocks, PathsAreShort DEF TransitionWrite, Working, Serving
<1>3. CASE WorkflowCommit(s)
  BY <1>3 DEF WorkflowCommit, Working, Serving, Commits, loanRows, balances
<1>4. CASE FraudClearance(s)
  <2>1. r \in Request /\ Serving(s) /\ r.phase = "read" /\ r.op = "approve"
    BY <1>4, ServingType DEF FraudClearance, Working, Serving, RowsInvariant
  <2>2. request'[s] = [r EXCEPT !.phase = "cleared"]
    BY <1>4 DEF FraudClearance, RowsInvariant, TypeOK
  <2>3. Keeps(s)
    BY <2>1, <2>2 DEF Keeps, SameRow, Serving, Request
  <2>4. QED
    BY <1>4, <2>3 DEF FraudClearance, Quietly, loanRows, balances
<1>5. CASE DecisionWrite(s)
  <2>1. DecisionTarget(r.op) \in LoanStatus
    BY PathsAreSequences
  <2>2. r.op \notin {"disburse", "repay"}
    BY <1>5 DEF DecisionWrite, DecisionType
  <2>3. QED
    BY <1>5, <2>1, <2>2, FlushLocks, PathsAreShort DEF DecisionWrite, Working, Serving
<1>6. CASE DecisionCommit(s)
  BY <1>6 DEF DecisionCommit, DecisionType, Working, Serving, Commits, balances
<1>7. CASE AnalysisStart(s)
  BY <1>7, FlushLocks, PathsAreShort DEF AnalysisStart, Working, Serving
<1>8. CASE AnalysisRestart(s)
  <2>1. r \in Request /\ Serving(s) /\ r.op = "analyze"
    BY <1>8, ServingType DEF AnalysisRestart, Working, Serving, RowsInvariant
  <2>2. request'[s] = [r EXCEPT !.phase = "analysing"]
    BY <1>8 DEF AnalysisRestart, RowsInvariant, TypeOK
  <2>3. Keeps(s)
    BY <2>1, <2>2 DEF Keeps, SameRow, Serving, Request
  <2>4. QED
    BY <1>8, <2>3 DEF AnalysisRestart, Quietly, loanRows, balances
<1>9. CASE AnalysisAdvance(s)
  <2>1. r \in Request /\ Serving(s) /\ r.op = "analyze"
    BY <1>9, ServingType DEF AnalysisAdvance, Working, Serving, RowsInvariant
  <2>2. CASE ScreeningPath(r.seen) = <<>>
    <3>1. request'[s] = [r EXCEPT !.phase = "flushed"]
      BY <1>9, <2>2 DEF AnalysisAdvance, RowsInvariant, TypeOK
    <3>2. Keeps(s)
      BY <2>1, <3>1 DEF Keeps, SameRow, Serving, Request
    <3>3. QED
      BY <1>9, <2>2, <3>2 DEF AnalysisAdvance, Quietly, loanRows, balances
  <2>3. CASE ScreeningPath(r.seen) # <<>>
    BY <1>9, <2>1, <2>3, FlushLocks, PathsAreShort DEF AnalysisAdvance
  <2>4. QED
    BY <2>2, <2>3
<1>10. CASE AnalysisCommit(s)
  BY <1>10 DEF AnalysisCommit, Working, Serving, Commits, balances
<1>11. CASE RepaymentClose(s)
  BY <1>11, FlushLocks, PathsAreShort DEF RepaymentClose, Working, Serving
<1>12. CASE \E d \in {"confirmed", "dismissed"} : DispositionCommit(s, d)
  BY <1>12 DEF DispositionCommit, Quietly, Releases, Serving, Idle, RowsInvariant,
               TypeOK, loanRows, balances
<1>13. CASE Refused(s) \/ Fail(s)
  BY <1>13 DEF Refused, Fail, RollBack, Quietly, Releases, Serving, Idle,
               RowsInvariant, TypeOK, loanRows, balances
<1>14. QED
  BY <1>1, <1>2, <1>3, <1>4, <1>5, <1>6, <1>7, <1>8, <1>9, <1>10, <1>11,
     <1>12, <1>13 DEF Advance

(***************************************************************************)
(* The invariant.                                                          *)
(***************************************************************************)
LocksInvariant ==
  RowsInvariant /\ LocksProtect /\ RepaymentsConserved /\ FullRepaymentCloses

LEMMA BalancesType ==
  ASSUME TypeOK, NEW l \in Loans
  PROVE  allocated[l] \in Nat /\ repaid[l] \in Nat /\ Due[l] \in Nat /\ Due[l] > 0
BY LoanAssumption DEF TypeOK

\* A session whose request does not change keeps what its locks protect as
\* long as no other session writes the rows they lock.
LEMMA OtherLocksKept ==
  ASSUME LocksInvariant, NEW t \in Sessions, request'[t] = request[t], Serving(t)',
         HoldsLoan(t, request[t].loan)
           => /\ status'[request[t].loan] = status[request[t].loan]
              /\ disbursed'[request[t].loan] = disbursed[request[t].loan],
         HoldsInstallments(t, request[t].loan)
           => allocated'[request[t].loan] = allocated[request[t].loan],
         disbursed[request[t].loan] => disbursed'[request[t].loan]
  PROVE  DisbursementHolds(t)' /\ RepaymentHolds(t)'
<1> DEFINE r == request[t]
<1>1. Serving(t) /\ DisbursementHolds(t) /\ RepaymentHolds(t)
  BY DEF Serving, LocksInvariant, LocksProtect
<1>2. DisbursementHolds(t)'
  BY <1>1 DEF DisbursementHolds, HoldsLoan
<1>3. HoldsInstallments(t, request[t].loan)' = HoldsInstallments(t, request[t].loan)
  BY DEF HoldsInstallments, Serving
<1>4. RepaymentHolds(t)'
  BY <1>1, <1>3 DEF RepaymentHolds
<1>5. QED
  BY <1>2, <1>4

LEMMA ExclusionKept ==
  ASSUME LocksInvariant,
         \A t \in Sessions, l \in Loans :
            /\ HoldsLoan(t, l)' => HoldsLoan(t, l)
            /\ HoldsInstallments(t, l)' => HoldsInstallments(t, l)
  PROVE  RowLocksExclude'
BY DEF LocksInvariant, LocksProtect, RowLocksExclude

\* A session that takes a free loan row keeps the locks exclusive.
LEMMA ExclusionTaken ==
  ASSUME LocksInvariant, NEW s \in Sessions, NEW l \in Loans, LoanFree(s, l),
         \A k \in Loans : HoldsLoan(s, k)' => k = l,
         \A k \in Loans : HoldsInstallments(s, k)' => HoldsInstallments(s, k),
         \A t \in Sessions \ {s} : request'[t] = request[t]
  PROVE  RowLocksExclude'
<1>1. \A t \in Sessions \ {s}, k \in Loans :
        /\ HoldsLoan(t, k)' => HoldsLoan(t, k)
        /\ HoldsInstallments(t, k)' => HoldsInstallments(t, k)
  BY DEF HoldsLoan, HoldsInstallments, Serving
<1>2. \A t \in Sessions \ {s} : ~HoldsLoan(t, l)
  BY DEF LoanFree
<1>3. QED
  BY <1>1, <1>2 DEF LocksInvariant, LocksProtect, RowLocksExclude

LEMMA QuietLocks ==
  ASSUME LocksInvariant, NEW s \in Sessions, Quietly(s),
         \A t \in Sessions \ {s} : request'[t] = request[t]
  PROVE  LocksProtect'
<1>1. /\ UNCHANGED <<status, disbursed, allocated>>
      /\ Releases(s) \/ Keeps(s) \/ LocksLoan(s)
  BY DEF Quietly, balances
<1>2. ASSUME NEW t \in Sessions \ {s}, Serving(t)'
      PROVE  DisbursementHolds(t)' /\ RepaymentHolds(t)'
  BY <1>1, <1>2, OtherLocksKept
<1>3. \A t \in Sessions \ {s}, l \in Loans :
        /\ HoldsLoan(t, l)' => HoldsLoan(t, l)
        /\ HoldsInstallments(t, l)' => HoldsInstallments(t, l)
  BY DEF HoldsLoan, HoldsInstallments, Serving
<1>4. CASE Releases(s)
  <2>1. \A l \in Loans : ~HoldsLoan(s, l)' /\ ~HoldsInstallments(s, l)'
    BY <1>4 DEF Releases, HoldsLoan, HoldsInstallments
  <2>2. RowLocksExclude'
    BY <1>3, <2>1, ExclusionKept
  <2>3. QED
    BY <1>2, <1>4, <2>2 DEF Releases, LocksProtect
<1>5. CASE Keeps(s)
  <2>1. \A l \in Loans : HoldsLoan(s, l)' => HoldsLoan(s, l)
    BY <1>5 DEF Keeps, SameRow, HoldsLoan
  <2>2. \A l \in Loans : ~HoldsInstallments(s, l)'
    BY <1>5 DEF Keeps, SameRow, HoldsInstallments
  <2>3. RowLocksExclude'
    BY <1>3, <2>1, <2>2, ExclusionKept
  <2>4. DisbursementHolds(s)' /\ RepaymentHolds(s)'
    BY <1>5 DEF Keeps, SameRow, DisbursementHolds, RepaymentHolds, HoldsInstallments
  <2>5. QED
    BY <1>2, <2>3, <2>4 DEF LocksProtect
<1>6. CASE LocksLoan(s)
  <2>1. PICK l \in Loans : l = request[s].loan
    BY <1>6, ServingType DEF LocksLoan, LocksInvariant, RowsInvariant, Request
  <2>2. /\ Serving(s) /\ LoanFree(s, l)
        /\ \A k \in Loans : HoldsLoan(s, k)' => k = l
        /\ \A k \in Loans : HoldsInstallments(s, k)' => HoldsInstallments(s, k)
    BY <1>6, <2>1 DEF LocksLoan, HoldsLoan, HoldsInstallments
  <2>3. RowLocksExclude'
    BY <2>2, ExclusionTaken
  <2>4. DisbursementHolds(s)'
    BY <1>6 DEF LocksLoan, DisbursementHolds
  <2>5. RepaymentHolds(s)'
    <3>1. RepaymentHolds(s)
      BY <2>2 DEF LocksInvariant, LocksProtect
    <3>2. CASE request[s].op = "repay"
      <4>1. HoldsInstallments(s, request[s].loan)
        BY <1>6, <3>2 DEF LocksLoan, HoldsInstallments
      <4>2. QED
        BY <1>1, <1>6, <3>1, <3>2, <4>1 DEF LocksLoan, RepaymentHolds
    <3>3. CASE request[s].op # "repay"
      BY <1>6, <3>3 DEF LocksLoan, RepaymentHolds, HoldsInstallments
    <3>4. QED
      BY <3>2, <3>3
  <2>6. QED
    BY <1>2, <2>3, <2>4, <2>5 DEF LocksProtect
<1>7. QED
  BY <1>1, <1>4, <1>5, <1>6

\* A commit writes the row of a loan that no other session holds.
LEMMA CommitLocks ==
  ASSUME LocksInvariant, NEW s \in Sessions, NEW l \in Loans, Serving(s), Publish(s),
         l = request[s].loan,
         \A k \in Loans \ {l} : disbursed'[k] = disbursed[k] /\ allocated'[k] = allocated[k],
         \A k \in Loans : disbursed[k] => disbursed'[k],
         disbursed'[l] # disbursed[l] => request[s].pending # <<>>,
         allocated'[l] # allocated[l] => HoldsInstallments(s, l)
  PROVE  LocksProtect'
<1>1. /\ request'[s] = Idle
      /\ \A t \in Sessions \ {s} : request'[t] = request[t]
      /\ \A k \in Loans \ {l} : status'[k] = status[k]
      /\ request[s].pending = <<>> => status' = status
  BY DEF Publish, LocksInvariant, RowsInvariant, TypeOK
<1>2. ~Serving(s)'
  BY <1>1 DEF Serving, Idle
<1>3. \A t \in Sessions, k \in Loans :
        /\ HoldsLoan(t, k)' => HoldsLoan(t, k)
        /\ HoldsInstallments(t, k)' => HoldsInstallments(t, k)
  <2>1. \A k \in Loans : ~HoldsLoan(s, k)' /\ ~HoldsInstallments(s, k)'
    BY <1>2 DEF HoldsLoan, HoldsInstallments
  <2>2. \A t \in Sessions \ {s}, k \in Loans :
          /\ HoldsLoan(t, k)' => HoldsLoan(t, k)
          /\ HoldsInstallments(t, k)' => HoldsInstallments(t, k)
    BY <1>1 DEF HoldsLoan, HoldsInstallments, Serving
  <2>3. QED
    BY <2>1, <2>2
<1>4. RowLocksExclude'
  BY <1>3, ExclusionKept
<1>5. ASSUME NEW t \in Sessions, Serving(t)'
      PROVE  DisbursementHolds(t)' /\ RepaymentHolds(t)'
  <2>1. t # s /\ request'[t] = request[t] /\ Serving(t)
    BY <1>1, <1>2, <1>5 DEF Serving
  <2>2. request[t].loan \in Loans
    BY <2>1, ServingType DEF LocksInvariant, RowsInvariant, Request
  <2>3. RowLocksExclude
    BY DEF LocksInvariant, LocksProtect
  <2>4. HoldsLoan(t, request[t].loan)
          => /\ status'[request[t].loan] = status[request[t].loan]
             /\ disbursed'[request[t].loan] = disbursed[request[t].loan]
    <3>1. SUFFICES ASSUME HoldsLoan(t, request[t].loan), request[t].loan = l
                   PROVE  status' = status /\ disbursed'[l] = disbursed[l]
      BY <1>1, <2>2
    <3>2. ~HoldsLoan(s, l)
      BY <2>1, <2>2, <2>3, <3>1 DEF RowLocksExclude
    <3>3. request[s].pending = <<>>
      BY <3>2 DEF HoldsLoan
    <3>4. QED
      BY <1>1, <3>3
  <2>5. HoldsInstallments(t, request[t].loan)
          => allocated'[request[t].loan] = allocated[request[t].loan]
    BY <2>1, <2>2, <2>3 DEF RowLocksExclude
  <2>6. disbursed[request[t].loan] => disbursed'[request[t].loan]
    BY <2>2
  <2>7. QED
    BY <1>5, <2>1, <2>4, <2>5, <2>6, OtherLocksKept
<1>6. QED
  BY <1>4, <1>5 DEF LocksProtect

LEMMA DisbursementWriteLocks ==
  ASSUME LocksInvariant, NEW s \in Sessions, DisbursementWrite(s)
  PROVE  LocksProtect' /\ UNCHANGED <<events, disbursed, allocated, repaid>>
<1>0. PICK r \in Request, l \in Loans : r = request[s] /\ l = r.loan
  BY ServingType DEF DisbursementWrite, Working, Serving, LocksInvariant,
                     RowsInvariant, Request
<1>1. /\ Serving(s) /\ r.op = "disburse" /\ Lockable(s, l)
      /\ status[l] = "approved" /\ ~disbursed[l]
  BY <1>0 DEF DisbursementWrite, Working, Serving
<1>2. PICK rows \in Seq(Event) :
        rows = Steps(status[l], <<"disbursed", "active">>) /\ rows # <<>>
  <2>1. status[l] \in LoanStatus
    BY <1>0 DEF LocksInvariant, RowsInvariant, TypeOK
  <2>2. PICK rows \in Seq(Event) :
          /\ rows = Steps(status[l], <<"disbursed", "active">>)
          /\ Len(rows) = Len(<<"disbursed", "active">>)
    BY <2>1, StepsProperties, PathsAreSequences
  <2>3. Len(rows) = 2
    BY <2>2
  <2>4. rows # <<>>
    BY <2>3, EmptySeq
  <2>5. QED
    BY <2>2, <2>4
<1>3. /\ request'[s].loan = l /\ request'[s].op = "disburse"
      /\ request'[s].phase = "flushed" /\ request'[s].seen = "active"
      /\ request'[s].pending = rows
      /\ \A t \in Sessions \ {s} : request'[t] = request[t]
      /\ UNCHANGED <<status, events, disbursed, allocated, repaid>>
  BY <1>0, <1>1, <1>2 DEF DisbursementWrite, loanRows, LocksInvariant,
                         RowsInvariant, TypeOK, Request
<1>4. RowLocksExclude'
  <2>1. LoanFree(s, l)
    BY <1>1 DEF Lockable
  <2>2. \A k \in Loans : HoldsLoan(s, k)' => k = l
    BY <1>3 DEF HoldsLoan
  <2>3. \A k \in Loans : ~HoldsInstallments(s, k)'
    BY <1>3 DEF HoldsInstallments
  <2>4. QED
    BY <1>3, <2>1, <2>2, <2>3, ExclusionTaken
<1>5. DisbursementHolds(s)' /\ RepaymentHolds(s)'
  BY <1>1, <1>2, <1>3 DEF DisbursementHolds, RepaymentHolds, HoldsInstallments
<1>6. ASSUME NEW t \in Sessions \ {s}, Serving(t)'
      PROVE  DisbursementHolds(t)' /\ RepaymentHolds(t)'
  BY <1>3, <1>6, OtherLocksKept
<1>7. QED
  BY <1>3, <1>4, <1>5, <1>6 DEF LocksProtect

LEMMA RepaymentAllocateLocks ==
  ASSUME LocksInvariant, NEW s \in Sessions, RepaymentAllocate(s)
  PROVE  LocksProtect' /\ UNCHANGED <<events, disbursed, allocated, repaid>>
<1>0. PICK r \in Request, l \in Loans : r = request[s] /\ l = r.loan
  BY ServingType DEF RepaymentAllocate, Working, Serving, LocksInvariant,
                     RowsInvariant, Request
<1>1. PICK amount \in 1..Outstanding(l) :
        request' = [request EXCEPT
          ![s].phase = IF amount = Outstanding(l) THEN "allocated" ELSE "flushed",
          ![s].amount = amount, ![s].base = allocated[l]]
  BY <1>0 DEF RepaymentAllocate
<1>2. /\ Serving(s) /\ r.op = "repay" /\ r.phase = "read"
      /\ \A other \in Sessions \ {s} : ~HoldsInstallments(other, l)
      /\ UNCHANGED <<status, events, disbursed, allocated, repaid>>
  BY <1>0 DEF RepaymentAllocate, Working, Serving, loanRows
<1>3. TypeOK /\ allocated[l] \in Nat /\ Due[l] \in Nat
  BY BalancesType DEF LocksInvariant, RowsInvariant
<1>4. /\ disbursed[l] /\ amount \in Nat /\ amount > 0
      /\ allocated[l] + amount <= Due[l]
      /\ amount = Outstanding(l) <=> allocated[l] + amount = Due[l]
  <2>1. CASE disbursed[l]
    <3>1. Outstanding(l) = Due[l] - allocated[l]
      BY <2>1 DEF Outstanding
    <3>2. QED
      BY <1>3, <2>1, <3>1
  <2>2. CASE ~disbursed[l]
    <3>1. Outstanding(l) = 0
      BY <2>2 DEF Outstanding
    <3>2. QED
      BY <3>1
  <2>3. QED
    BY <2>1, <2>2
<1>5. /\ request'[s].loan = l /\ request'[s].op = "repay"
      /\ request'[s].phase = IF amount = Outstanding(l) THEN "allocated" ELSE "flushed"
      /\ request'[s].pending = r.pending
      /\ request'[s].amount = amount /\ request'[s].base = allocated[l]
      /\ \A t \in Sessions \ {s} : request'[t] = request[t]
  BY <1>0, <1>1, <1>2 DEF LocksInvariant, RowsInvariant, TypeOK, Request
<1>6. r.pending = <<>>
  BY <1>0, <1>2 DEF LocksInvariant, RowsInvariant, RequestsGrounded, ReadIsGrounded
<1>7. RowLocksExclude'
  <2>1. \A t \in Sessions \ {s}, k \in Loans :
          /\ HoldsLoan(t, k)' => HoldsLoan(t, k)
          /\ HoldsInstallments(t, k)' => HoldsInstallments(t, k)
    BY <1>5 DEF HoldsLoan, HoldsInstallments, Serving
  <2>2. \A k \in Loans : ~HoldsLoan(s, k)'
    BY <1>5, <1>6 DEF HoldsLoan
  <2>3. \A k \in Loans : HoldsInstallments(s, k)' => k = l
    BY <1>5 DEF HoldsInstallments
  <2>4. QED
    BY <1>2, <2>1, <2>2, <2>3 DEF LocksInvariant, LocksProtect, RowLocksExclude
<1>8. DisbursementHolds(s)'
  BY <1>5 DEF DisbursementHolds
<1>9. RepaymentHolds(s)'
  <2>1. CASE amount = Outstanding(l)
    BY <1>2, <1>3, <1>4, <1>5, <2>1 DEF RepaymentHolds
  <2>2. CASE amount # Outstanding(l)
    BY <1>2, <1>3, <1>4, <1>5, <2>2 DEF RepaymentHolds
  <2>3. QED
    BY <2>1, <2>2
<1>10. ASSUME NEW t \in Sessions \ {s}, Serving(t)'
       PROVE  DisbursementHolds(t)' /\ RepaymentHolds(t)'
  BY <1>2, <1>5, <1>10, OtherLocksKept
<1>11. QED
  BY <1>2, <1>7, <1>8, <1>9, <1>10 DEF LocksProtect

\* The balances are kept, and what has been reached stays reached.
LEMMA BalancesKept ==
  ASSUME LocksInvariant, UNCHANGED balances,
         \A l \in Loans : Reached(l) \subseteq Reached(l)'
  PROVE  RepaymentsConserved' /\ FullRepaymentCloses'
<1>1. RepaymentsConserved'
  BY DEF LocksInvariant, RepaymentsConserved, balances
<1>2. \A l \in Loans : Outstanding(l)' = Outstanding(l)
  BY DEF Outstanding, balances
<1>3. FullRepaymentCloses'
  BY <1>2 DEF LocksInvariant, FullRepaymentCloses, balances
<1>4. QED
  BY <1>1, <1>3

LEMMA PublishReaches ==
  ASSUME LocksInvariant, NEW s \in Sessions, Serving(s), Publish(s)
  PROVE  /\ \A l \in Loans : Reached(l) \subseteq Reached(l)'
         /\ \A l \in Loans : l = request[s].loan /\ request[s].pending # <<>>
              => request[s].seen \in Reached(l)'
<1>1. PICK l \in Loans, old \in Seq(Event), new \in Seq(Event) :
        l = request[s].loan /\ old = events[l] /\ new = request[s].pending
  BY ServingType DEF LocksInvariant, RowsInvariant, Request, TypeOK
<1>2. /\ events'[l] = old \o new
      /\ \A k \in Loans \ {l} : events'[k] = events[k]
  BY <1>1 DEF Publish, LocksInvariant, RowsInvariant, TypeOK
<1>3. Reached(l)' = {"draft"} \cup Targets(old) \cup Targets(new)
  <2>1. Targets(events'[l]) = Targets(old) \cup Targets(new)
    BY <1>2, ConcatTargets
  <2>2. Reached(l)' = {"draft"} \cup Targets(events'[l])
    BY DEF Reached, Targets
  <2>3. QED
    BY <2>1, <2>2
<1>4. Reached(l) = {"draft"} \cup Targets(old)
  BY <1>1 DEF Reached, Targets
<1>5. \A k \in Loans \ {l} : Reached(k)' = Reached(k)
  BY <1>2 DEF Reached
<1>6. new # <<>> => request[s].seen \in Targets(new)
  <2>1. SUFFICES ASSUME new # <<>> PROVE request[s].seen \in Targets(new)
    OBVIOUS
  <2>2. LastOf(new).to = request[s].seen
    BY <1>1, <2>1 DEF LocksInvariant, RowsInvariant, RequestsGrounded, ReadIsGrounded
  <2>3. Len(new) \in 1..Len(new)
    BY <2>1, EmptySeq
  <2>4. QED
    BY <2>2, <2>3 DEF LastOf, Targets
<1>7. QED
  BY <1>1, <1>3, <1>4, <1>5, <1>6

LEMMA DisbursementCommitLocks ==
  ASSUME LocksInvariant, NEW s \in Sessions, DisbursementCommit(s)
  PROVE  (LocksProtect /\ RepaymentsConserved /\ FullRepaymentCloses)'
<1>0. PICK l \in Loans : l = request[s].loan
  BY ServingType DEF DisbursementCommit, Working, Serving, LocksInvariant,
                     RowsInvariant, Request
<1>1. /\ Serving(s) /\ Publish(s)
      /\ disbursed' = [disbursed EXCEPT ![l] = TRUE]
      /\ UNCHANGED <<allocated, repaid>>
      /\ request[s].pending # <<>> /\ ~disbursed[l]
  BY <1>0 DEF DisbursementCommit, Working, Serving, LocksInvariant, LocksProtect,
              DisbursementHolds
<1>2. /\ disbursed'[l] = TRUE /\ allocated' = allocated /\ repaid' = repaid
      /\ \A k \in Loans \ {l} : disbursed'[k] = disbursed[k]
  BY <1>1 DEF LocksInvariant, RowsInvariant, TypeOK
<1>3. LocksProtect'
  BY <1>0, <1>1, <1>2, CommitLocks
<1>4. \A k \in Loans :
        /\ allocated[k] \in Nat /\ repaid[k] \in Nat /\ Due[k] \in Nat /\ Due[k] > 0
        /\ disbursed[k] \in BOOLEAN
  BY BalancesType DEF LocksInvariant, RowsInvariant, TypeOK
<1>5. allocated[l] = 0
  BY <1>1, <1>4 DEF LocksInvariant, RepaymentsConserved
<1>6. RepaymentsConserved'
  BY <1>2 DEF LocksInvariant, RepaymentsConserved
<1>7. FullRepaymentCloses'
  <2>1. ASSUME NEW k \in Loans, disbursed'[k], Outstanding(k)' = 0
        PROVE  "closed" \in Reached(k)'
    <3>1. CASE k = l
      BY <1>2, <1>4, <1>5, <2>1, <3>1 DEF Outstanding
    <3>2. CASE k # l
      <4>1. disbursed[k] /\ Outstanding(k) = 0
        BY <1>2, <2>1, <3>2 DEF Outstanding
      <4>2. QED
        BY <1>1, <4>1, PublishReaches DEF LocksInvariant, FullRepaymentCloses
    <3>3. QED
      BY <3>1, <3>2
  <2>2. QED
    BY <2>1 DEF FullRepaymentCloses
<1>8. QED
  BY <1>3, <1>6, <1>7

LEMMA RepaymentCommitLocks ==
  ASSUME LocksInvariant, NEW s \in Sessions, RepaymentCommit(s)
  PROVE  (LocksProtect /\ RepaymentsConserved /\ FullRepaymentCloses)'
<1>0. PICK r \in Request, l \in Loans : r = request[s] /\ l = r.loan
  BY ServingType DEF RepaymentCommit, Working, Serving, LocksInvariant,
                     RowsInvariant, Request
<1>1. /\ Serving(s) /\ Publish(s) /\ HoldsInstallments(s, l)
      /\ r.phase = "flushed"
      /\ allocated' = [allocated EXCEPT ![l] = r.base + r.amount]
      /\ repaid' = [repaid EXCEPT ![l] = @ + r.amount]
      /\ disbursed' = disbursed
  BY <1>0 DEF RepaymentCommit, Working, Serving, HoldsInstallments
<1>2. /\ disbursed[l] /\ r.base = allocated[l] /\ r.base + r.amount <= Due[l]
      /\ r.amount > 0
      /\ r.base + r.amount = Due[l] => r.pending # <<>> /\ r.seen = "closed"
  BY <1>0, <1>1 DEF LocksInvariant, LocksProtect, RepaymentHolds
<1>3. /\ allocated'[l] = allocated[l] + r.amount
      /\ repaid'[l] = repaid[l] + r.amount
      /\ \A k \in Loans \ {l} : allocated'[k] = allocated[k] /\ repaid'[k] = repaid[k]
  BY <1>1, <1>2 DEF LocksInvariant, RowsInvariant, TypeOK
<1>4. \A k \in Loans :
        /\ allocated[k] \in Nat /\ repaid[k] \in Nat /\ Due[k] \in Nat /\ Due[k] > 0
  BY BalancesType DEF LocksInvariant, RowsInvariant
<1>5. LocksProtect'
  BY <1>0, <1>1, <1>3, CommitLocks
<1>6. RepaymentsConserved'
  BY <1>1, <1>2, <1>3, <1>4 DEF LocksInvariant, RepaymentsConserved
<1>7. FullRepaymentCloses'
  <2>1. ASSUME NEW k \in Loans, disbursed'[k], Outstanding(k)' = 0
        PROVE  "closed" \in Reached(k)'
    <3>1. CASE k = l
      <4>1. r.base + r.amount = Due[l]
        <5>1. Outstanding(l)' = Due[l] - allocated'[l] /\ Outstanding(l)' = 0
          BY <1>1, <1>2, <2>1, <3>1 DEF Outstanding
        <5>2. r.base \in Nat /\ r.amount \in Nat /\ Due[l] \in Nat
          BY <1>4 DEF Request
        <5>3. allocated'[l] = r.base + r.amount
          BY <1>2, <1>3
        <5>4. QED
          BY <5>1, <5>2, <5>3
      <4>2. QED
        BY <1>0, <1>1, <1>2, <3>1, <4>1, PublishReaches
    <3>2. CASE k # l
      <4>1. disbursed[k] /\ Outstanding(k) = 0
        BY <1>1, <1>3, <2>1, <3>2 DEF Outstanding
      <4>2. QED
        BY <1>1, <4>1, PublishReaches DEF LocksInvariant, FullRepaymentCloses
    <3>3. QED
      BY <3>1, <3>2
  <2>2. QED
    BY <2>1 DEF FullRepaymentCloses
<1>8. QED
  BY <1>5, <1>6, <1>7

LEMMA QuietReaches ==
  ASSUME UNCHANGED events
  PROVE  \A l \in Loans : Reached(l) \subseteq Reached(l)'
BY DEF Reached

LEMMA LocksStep ==
  ASSUME LocksInvariant, [Next]_vars
  PROVE  LocksInvariant'
<1> DEFINE Goal == (LocksProtect /\ RepaymentsConserved /\ FullRepaymentCloses)'
<1>1. RowsInvariant'
  BY RowsStep DEF LocksInvariant
<1>2. ASSUME NEW s \in Sessions, Advance(s) \/ Fail(s)
      PROVE  Goal
  <2>1. \A t \in Sessions \ {s} : request'[t] = request[t]
    BY <1>2, StepsAreLocal DEF LocksInvariant, RowsInvariant
  <2>2. CASE Quietly(s)
    <3>1. UNCHANGED balances /\ UNCHANGED events
      BY <2>2 DEF Quietly
    <3>2. QED
      BY <2>1, <2>2, <3>1, QuietLocks, QuietReaches, BalancesKept
  <2>3. CASE Commits(s)
    <3>1. PICK l \in Loans : l = request[s].loan
      BY <2>3, ServingType DEF Commits, LocksInvariant, RowsInvariant, Request
    <3>2. /\ Serving(s) /\ Publish(s) /\ UNCHANGED balances
          /\ disbursed' = disbursed /\ allocated' = allocated
      BY <2>3 DEF Commits, balances
    <3>3. LocksProtect'
      BY <3>1, <3>2, CommitLocks
    <3>4. QED
      BY <3>2, <3>3, PublishReaches, BalancesKept
  <2>4. CASE DisbursementWrite(s)
    BY <2>4, DisbursementWriteLocks, QuietReaches, BalancesKept DEF balances
  <2>5. CASE RepaymentAllocate(s)
    BY <2>5, RepaymentAllocateLocks, QuietReaches, BalancesKept DEF balances
  <2>6. CASE DisbursementCommit(s)
    BY <2>6, DisbursementCommitLocks
  <2>7. CASE RepaymentCommit(s)
    BY <2>7, RepaymentCommitLocks
  <2>8. QED
    BY <1>2, <2>2, <2>3, <2>4, <2>5, <2>6, <2>7, AdvanceEffects DEF LocksInvariant
<1>3. ASSUME NEW s \in Sessions, NEW op \in Operations, NEW l \in Loans, Begin(s, op, l)
      PROVE  Goal
  <2>1. /\ request'[s].pending = <<>> /\ request'[s].phase = "read"
        /\ \A t \in Sessions \ {s} : request'[t] = request[t]
        /\ UNCHANGED <<status, events, disbursed, allocated, repaid>>
    BY <1>3 DEF Begin, loanRows, LocksInvariant, RowsInvariant, TypeOK
  <2>2. DisbursementHolds(s)' /\ RepaymentHolds(s)'
    BY <2>1 DEF DisbursementHolds, RepaymentHolds, HoldsInstallments
  <2>3. ASSUME NEW t \in Sessions \ {s}, Serving(t)'
        PROVE  DisbursementHolds(t)' /\ RepaymentHolds(t)'
    BY <2>1, <2>3, OtherLocksKept
  <2>4. \A t \in Sessions, k \in Loans :
          /\ HoldsLoan(t, k)' => HoldsLoan(t, k)
          /\ HoldsInstallments(t, k)' => HoldsInstallments(t, k)
    BY <2>1 DEF HoldsLoan, HoldsInstallments, Serving
  <2>5. RowLocksExclude'
    BY <2>4, ExclusionKept
  <2>6. LocksProtect'
    BY <2>2, <2>3, <2>5 DEF LocksProtect
  <2>7. QED
    BY <2>1, <2>6, QuietReaches, BalancesKept DEF balances
<1>4. ASSUME NEW s \in Sessions, NEW a \in Alerts, DispositionLock(s, a)
      PROVE  Goal
  <2>1. /\ request'[s].phase = "disposing"
        /\ \A t \in Sessions \ {s} : request'[t] = request[t]
        /\ UNCHANGED <<status, events>> /\ UNCHANGED balances
    BY <1>4 DEF DispositionLock, loanRows, balances, LocksInvariant, RowsInvariant, TypeOK
  <2>2. Quietly(s)
    BY <2>1 DEF Quietly, Releases, Serving
  <2>3. QED
    BY <2>1, <2>2, QuietLocks, QuietReaches, BalancesKept
<1>5. ASSUME (\E p \in Policies : UpdateSettings(p)) \/ UNCHANGED vars
      PROVE  Goal
  <2>1. /\ UNCHANGED <<request, status, events, disbursed, allocated>>
        /\ UNCHANGED balances
    BY <1>5 DEF UpdateSettings, vars, loanRows, balances
  <2>2. ASSUME NEW t \in Sessions, Serving(t)'
        PROVE  DisbursementHolds(t)' /\ RepaymentHolds(t)'
    BY <2>1, <2>2, OtherLocksKept
  <2>3. \A t \in Sessions, k \in Loans :
          /\ HoldsLoan(t, k)' => HoldsLoan(t, k)
          /\ HoldsInstallments(t, k)' => HoldsInstallments(t, k)
    BY <2>1 DEF HoldsLoan, HoldsInstallments, Serving
  <2>4. LocksProtect'
    BY <2>2, <2>3, ExclusionKept DEF LocksProtect
  <2>5. QED
    BY <2>1, <2>4, QuietReaches, BalancesKept
<1>6. QED
  <2> SUFFICES Goal
    BY <1>1 DEF LocksInvariant
  <2> HIDE DEF Goal
  <2>1. CASE \E s \in Sessions : Advance(s) \/ Fail(s)
    BY <1>2, <2>1
  <2>2. CASE \E s \in Sessions, op \in Operations, l \in Loans : Begin(s, op, l)
    BY <1>3, <2>2
  <2>3. CASE \E s \in Sessions, a \in Alerts : DispositionLock(s, a)
    BY <1>4, <2>3
  <2>4. QED
    BY <1>5, <2>1, <2>2, <2>3 DEF Next

LEMMA LocksInit ==
  ASSUME Init
  PROVE  LocksInvariant
<1>1. \A s \in Sessions : ~Serving(s)
  BY DEF Init, Serving, Idle
<1>2. LocksProtect
  BY <1>1 DEF LocksProtect, RowLocksExclude, HoldsLoan, HoldsInstallments
<1>3. \A l \in Loans : Due[l] \in Nat
  BY LoanAssumption
<1>4. RepaymentsConserved /\ FullRepaymentCloses
  BY <1>3 DEF Init, RepaymentsConserved, FullRepaymentCloses
<1>5. QED
  BY <1>2, <1>4, RowsInit DEF LocksInvariant

\* The installments of a loan always carry exactly what its repayments add up
\* to, and never more than is due, however repayments overlap.
THEOREM RepaymentsAreConserved == Spec => []RepaymentsConserved
<1>1. LocksInvariant => RepaymentsConserved
  BY DEF LocksInvariant
<1>2. QED
  BY <1>1, LocksInit, LocksStep, PTL DEF Spec

\* A loan whose balance is paid was closed by the payment.
THEOREM FullRepaymentIsClosed == Spec => []FullRepaymentCloses
<1>1. LocksInvariant => FullRepaymentCloses
  BY DEF LocksInvariant
<1>2. QED
  BY <1>1, LocksInit, LocksStep, PTL DEF Spec

\* Money goes out once, on a loan whose committed status is approved when the
\* disbursement commits.
THEOREM DisbursedOnce == Spec => DisbursedOnceFromApproved
<1> DEFINE step == \A l \in Loans : DisbursementAction(l)
           rows == <<disbursed, status, allocated>>
<1>1. ASSUME LocksInvariant, [Next]_vars
      PROVE  [step]_rows
  <2>1. SUFFICES ASSUME NEW l \in Loans, disbursed'[l] # disbursed[l]
                 PROVE  /\ ~disbursed[l]
                        /\ status[l] = "approved" /\ status'[l] = "active"
                        /\ allocated[l] = 0
    BY DEF DisbursementAction
  <2>2. PICK s \in Sessions : DisbursementCommit(s)
    <3>1. CASE \E s \in Sessions : Advance(s) \/ Fail(s)
      <4>1. PICK s \in Sessions : Advance(s) \/ Fail(s)
        BY <3>1
      <4>2. \/ UNCHANGED balances \/ DisbursementCommit(s) \/ DisbursementWrite(s)
            \/ RepaymentAllocate(s) \/ RepaymentCommit(s)
        BY <1>1, <4>1, AdvanceEffects DEF LocksInvariant, Quietly, Commits
      <4>3. QED
        BY <2>1, <4>2 DEF balances, DisbursementWrite, RepaymentAllocate,
                          RepaymentCommit, loanRows
    <3>2. CASE \E s \in Sessions, op \in Operations, k \in Loans : Begin(s, op, k)
      BY <2>1, <3>2 DEF Begin, loanRows
    <3>3. CASE \E s \in Sessions, a \in Alerts : DispositionLock(s, a)
      BY <2>1, <3>3 DEF DispositionLock, loanRows
    <3>4. CASE (\E p \in Policies : UpdateSettings(p)) \/ UNCHANGED vars
      BY <2>1, <3>4 DEF UpdateSettings, vars, loanRows
    <3>5. QED
      BY <1>1, <3>1, <3>2, <3>3, <3>4 DEF Next
  <2>3. PICK r \in Request : r = request[s] /\ Serving(s)
    BY <1>1, <2>2, ServingType DEF DisbursementCommit, Working, Serving,
                                   LocksInvariant, RowsInvariant
  <2>4. l = r.loan
    BY <1>1, <2>1, <2>2, <2>3
       DEF DisbursementCommit, Request, LocksInvariant, RowsInvariant, TypeOK
  <2>5. /\ r.pending # <<>> /\ r.seen = "active"
        /\ status[l] = "approved" /\ ~disbursed[l]
    BY <1>1, <2>2, <2>3, <2>4 DEF DisbursementCommit, Working, LocksInvariant,
                                  LocksProtect, DisbursementHolds
  <2>6. status'[l] = "active"
    BY <1>1, <2>2, <2>3, <2>4, <2>5
       DEF DisbursementCommit, Publish, LocksInvariant, RowsInvariant, TypeOK
  <2>7. allocated[l] = 0
    BY <1>1, <2>5, BalancesType
       DEF LocksInvariant, RowsInvariant, RepaymentsConserved
  <2>8. QED
    BY <2>5, <2>6, <2>7
<1>2. QED
  BY <1>1, LocksInit, LocksStep, PTL DEF Spec, DisbursedOnceFromApproved

-----------------------------------------------------------------------------
(***************************************************************************)
(* Requests that do not overlap on a loan implement the state machine.     *)
(* Nothing else writes the loan while one is running, so its flushed path  *)
(* leads on from the committed status, not only from some earlier one.     *)
(***************************************************************************)
RequestsApart ==
  \A s, t \in Sessions :
    Serving(s) /\ Serving(t) /\ request[s].loan = request[t].loan => s = t

Walked(rows) == [i \in 1..Len(rows) |-> rows[i].to]

LegalOn(from, path) ==
  \A i \in 1..Len(path) : <<Source(from, path, i), path[i]>> \in LOAN_TRANSITIONS

\* A running request is on a path out of the committed status: none before
\* its first flush, one of the machine's afterwards.
OnPath(s) ==
  LET r == request[s]
      path == Walked(r.pending) IN
  /\ path = <<>> => r.seen = status[r.loan]
  /\ path # <<>> => path \in StateMachine!Path /\ r.seen = path[Len(path)]
  /\ LegalOn(status[r.loan], path)
  /\ r.phase \in {"read", "cleared", "allocated"} => path = <<>>
  /\ r.phase = "analysing" => path \in {<<>>, <<"ai_risk_analysis">>}
  /\ r.op = "disburse" /\ r.phase = "flushed" => path = <<"disbursed", "active">>

PathInvariant == \A s \in Sessions : Serving(s) => OnPath(s)

LEMMA WalkedType ==
  ASSUME NEW rows \in Seq(Event)
  PROVE  /\ Walked(rows) \in Seq(LoanStatus)
         /\ Len(Walked(rows)) = Len(rows)
         /\ Walked(rows) = <<>> <=> rows = <<>>
<1>0. Len(rows) \in Nat /\ \A i \in 1..Len(rows) : rows[i] \in Event
  BY ElementOfSeq
<1>1. Len(rows) \in Nat /\ \A i \in 1..Len(rows) : rows[i].to \in LoanStatus
  BY <1>0 DEF Event
<1>2. Walked(rows) \in [1..Len(rows) -> LoanStatus]
  BY <1>1 DEF Walked
<1>3. Walked(rows) \in Seq(LoanStatus)
  BY <1>1, <1>2, SeqDef
<1>4. Len(Walked(rows)) = Len(rows)
  BY <1>1, <1>2, <1>3, LenProperties
<1>5. QED
  BY <1>3, <1>4, EmptySeq

LEMMA WalkedConcat ==
  ASSUME NEW a \in Seq(Event), NEW b \in Seq(Event)
  PROVE  Walked(a \o b) = Walked(a) \o Walked(b)
<1> DEFINE left == Walked(a \o b)
           right == Walked(a) \o Walked(b)
<1>1. /\ a \o b \in Seq(Event) /\ Len(a \o b) = Len(a) + Len(b)
      /\ \A i \in 1..(Len(a) + Len(b)) :
           (a \o b)[i] = IF i <= Len(a) THEN a[i] ELSE b[i - Len(a)]
  BY ConcatProperties
<1>1a. /\ Walked(a) \in Seq(LoanStatus) /\ Len(Walked(a)) = Len(a)
      /\ Walked(b) \in Seq(LoanStatus) /\ Len(Walked(b)) = Len(b)
  BY WalkedType
<1>2. /\ left \in Seq(LoanStatus) /\ Len(left) = Len(a) + Len(b)
      /\ right \in Seq(LoanStatus) /\ Len(right) = Len(a) + Len(b)
      /\ \A i \in 1..(Len(a) + Len(b)) :
           right[i] = IF i <= Len(a) THEN Walked(a)[i] ELSE Walked(b)[i - Len(a)]
  <2>1. left \in Seq(LoanStatus) /\ Len(left) = Len(a) + Len(b)
    BY <1>1, WalkedType
  <2>2. QED
    BY <1>1a, <2>1, ConcatProperties
<1>3. Len(a) \in Nat /\ Len(b) \in Nat
  OBVIOUS
<1>4. ASSUME NEW i \in 1..(Len(a) + Len(b))
      PROVE  left[i] = right[i]
  <2>1. left[i] = (a \o b)[i].to
    BY <1>1 DEF Walked
  <2>2. CASE i <= Len(a)
    <3>1. i \in 1..Len(a)
      BY <1>3, <2>2
    <3>2. QED
      BY <1>1, <1>2, <2>1, <2>2, <3>1 DEF Walked
  <2>3. CASE ~(i <= Len(a))
    <3>1. i - Len(a) \in 1..Len(b)
      BY <1>3, <2>3
    <3>2. QED
      BY <1>1, <1>2, <2>1, <2>3, <3>1 DEF Walked
  <2>4. QED
    BY <2>2, <2>3
<1> HIDE DEF left, right
<1>5. left = right
  BY <1>2, <1>4, SeqEqual
<1>6. QED
  BY <1>5 DEF left, right

LEMMA WalkedSteps ==
  ASSUME NEW from \in LoanStatus, NEW path \in Seq(LoanStatus)
  PROVE  Walked(Steps(from, path)) = path
<1> DEFINE rows == Steps(from, path)
<1>1. /\ rows \in Seq(Event) /\ Len(rows) = Len(path)
      /\ \A i \in 1..Len(path) : rows[i].to = path[i]
  BY StepsProperties
<1>2. /\ Walked(rows) \in Seq(LoanStatus) /\ Len(Walked(rows)) = Len(path)
      /\ \A i \in 1..Len(path) : Walked(rows)[i] = path[i]
  <2>1. \A i \in 1..Len(rows) : Walked(rows)[i] = rows[i].to
    BY DEF Walked
  <2>2. QED
    BY <1>1, <2>1, WalkedType
<1> HIDE DEF rows
<1>3. Walked(rows) = path
  BY <1>2, SeqEqual
<1>4. QED
  BY <1>3 DEF rows

\* The path of a request that starts, or goes on, out of what it has seen.
LEMMA LegalConcat ==
  ASSUME NEW from \in LoanStatus, NEW before \in Seq(LoanStatus),
         NEW path \in Seq(LoanStatus), NEW seen,
         LegalOn(from, before), LegalOn(seen, path),
         seen = IF before = <<>> THEN from ELSE before[Len(before)]
  PROVE  LegalOn(from, before \o path)
<1> DEFINE whole == before \o path
<1>1. /\ Len(before) \in Nat /\ Len(path) \in Nat
      /\ Len(whole) = Len(before) + Len(path)
      /\ \A i \in 1..(Len(before) + Len(path)) :
           whole[i] = IF i <= Len(before) THEN before[i] ELSE path[i - Len(before)]
  BY ConcatProperties
<1> HIDE DEF whole
<1>2. SUFFICES ASSUME NEW i \in 1..(Len(before) + Len(path))
               PROVE  <<Source(from, whole, i), whole[i]>> \in LOAN_TRANSITIONS
  BY <1>1 DEF LegalOn, whole
<1>3. CASE i <= Len(before)
  <2>1. i \in 1..Len(before) /\ whole[i] = before[i]
    BY <1>1, <1>3
  <2>2. Source(from, whole, i) = Source(from, before, i)
    BY <1>1, <1>3 DEF Source
  <2>3. QED
    BY <2>1, <2>2 DEF LegalOn
<1>4. CASE ~(i <= Len(before))
  <2> DEFINE j == i - Len(before)
  <2>1. j \in 1..Len(path) /\ whole[i] = path[j]
    BY <1>1, <1>4
  <2>2. Source(from, whole, i) = Source(seen, path, j)
    <3>1. CASE j = 1
      <4>1. CASE before = <<>>
        BY <1>1, <3>1, <4>1 DEF Source
      <4>2. CASE before # <<>>
        <5>1. Len(before) # 0
          BY <4>2, EmptySeq
        <5>2. whole[i - 1] = before[Len(before)] /\ i # 1
          BY <1>1, <3>1, <5>1
        <5>3. QED
          BY <3>1, <4>2, <5>2 DEF Source
      <4>3. QED
        BY <4>1, <4>2
    <3>2. CASE j # 1
      <4>0. /\ i - 1 \in 1..(Len(before) + Len(path))
            /\ ~(i - 1 <= Len(before)) /\ (i - 1) - Len(before) = j - 1
        BY <1>1, <1>4, <2>1, <3>2
      <4>1. whole[i - 1] = path[(i - 1) - Len(before)]
        BY <1>1, <4>0
      <4>2. i # 1
        BY <4>0
      <4>3. QED
        BY <3>2, <4>0, <4>1, <4>2 DEF Source
    <3>3. QED
      BY <3>1, <3>2
  <2>3. QED
    BY <2>1, <2>2 DEF LegalOn
<1>5. QED
  BY <1>3, <1>4

(***************************************************************************)
(* A request stays on its path.                                            *)
(***************************************************************************)
LEMMA MachinePaths ==
  /\ \A to \in LoanStatus : <<to>> \in StateMachine!Path
  /\ <<"submitted", "under_review">> \in StateMachine!Path
  /\ <<"disbursed", "active">> \in StateMachine!Path
  /\ <<"fraud_screening", "officer_review">> \in StateMachine!Path
  /\ <<"ai_risk_analysis">> \o <<"fraud_screening", "officer_review">>
       \in StateMachine!Path
<1>1. \A to \in LoanStatus : <<to>> \in StateMachine!Path
  BY DEF StateMachine!Path, StateMachine!LoanStatus, LoanStatus
<1>2. /\ <<"submitted", "under_review">> \in StateMachine!LOAN_TRANSITIONS
      /\ <<"disbursed", "active">> \in StateMachine!LOAN_TRANSITIONS
      /\ <<"fraud_screening", "officer_review">> \in StateMachine!LOAN_TRANSITIONS
  <2>1. /\ <<"approved", "disbursed">> \in StateMachine!LOAN_TRANSITIONS
        /\ <<"submitted", "under_review">> \in StateMachine!LOAN_TRANSITIONS
        /\ <<"disbursed", "active">> \in StateMachine!LOAN_TRANSITIONS
        /\ <<"fraud_screening", "officer_review">> \in StateMachine!LOAN_TRANSITIONS
    BY DEF StateMachine!LOAN_TRANSITIONS
  <2>2. QED
    BY <2>1
<1>3. <<"ai_risk_analysis">> \o <<"fraud_screening", "officer_review">>
        = <<"ai_risk_analysis", "fraud_screening", "officer_review">>
  <2> DEFINE a == <<"ai_risk_analysis">>
             b == <<"fraud_screening", "officer_review">>
             c == <<"ai_risk_analysis", "fraud_screening", "officer_review">>
  <2>1. a \in Seq(LoanStatus) /\ b \in Seq(LoanStatus) /\ c \in Seq(LoanStatus)
    BY DEF LoanStatus
  <2>2. /\ Len(a) = 1 /\ a[1] = c[1]
        /\ Len(b) = 2 /\ b[1] = c[2] /\ b[2] = c[3]
        /\ Len(c) = 3
    OBVIOUS
  <2> HIDE DEF a, b, c
  <2>3. /\ a \o b \in Seq(LoanStatus) /\ Len(a \o b) = 3
        /\ \A i \in 1..(Len(a) + Len(b)) :
             (a \o b)[i] = IF i <= Len(a) THEN a[i] ELSE b[i - Len(a)]
    <3>1. Len(a \o b) = Len(a) + Len(b)
      BY <2>1, ConcatProperties
    <3>2. QED
      BY <2>1, <2>2, <3>1, ConcatProperties
  <2>4. (a \o b)[1] = c[1] /\ (a \o b)[2] = c[2] /\ (a \o b)[3] = c[3]
    BY <2>2, <2>3
  <2>5. a \o b = c
    BY <2>1, <2>2, <2>3, <2>4, SeqEqual
  <2>6. QED
    BY <2>5 DEF a, b, c
<1>4. QED
  BY <1>1, <1>2, <1>3 DEF StateMachine!Path

LEMMA PathKept ==
  ASSUME NEW t \in Sessions, OnPath(t), request'[t] = request[t],
         status'[request[t].loan] = status[request[t].loan]
  PROVE  OnPath(t)'
BY DEF OnPath, Walked, LegalOn, Source

\* A step that flushes nothing.
LEMMA PathSame ==
  ASSUME NEW s \in Sessions, OnPath(s), SameRow(s), status' = status,
         request[s].op # "disburse",
         \/ Walked(request[s].pending) = <<>>
         \/ request'[s].phase = "flushed"
  PROVE  OnPath(s)'
BY DEF OnPath, SameRow, Walked, LegalOn, Source

LEMMA PathFlushed ==
  ASSUME TypeOK, NEW s \in Sessions, Serving(s), OnPath(s),
         NEW path \in Seq(LoanStatus), path # <<>>,
         NEW phase \in {"analysing", "flushed"}, Flush(s, path, phase),
         request[s].op # "disburse",
         Walked(request[s].pending) \o path \in StateMachine!Path,
         phase = "analysing" =>
           Walked(request[s].pending) \o path = <<"ai_risk_analysis">>
  PROVE  OnPath(s)'
<1> DEFINE r == request[s]
           before == Walked(r.pending)
           whole == before \o path
<1>1. /\ r \in Request /\ r.pending \in Seq(Event) /\ r.seen \in LoanStatus
      /\ r.loan \in Loans /\ status[r.loan] \in LoanStatus
  BY ServingType DEF Request, TypeOK
<1>2. before \in Seq(LoanStatus)
  BY <1>1, WalkedType
<1>3. /\ request'[s].loan = r.loan /\ request'[s].op = r.op
      /\ request'[s].phase = phase /\ request'[s].seen = path[Len(path)]
      /\ request'[s].pending = r.pending \o Steps(r.seen, path)
      /\ status' = status
  BY <1>1 DEF Flush, TypeOK, Request
<1>4. Walked(request'[s].pending) = whole
  <2>1. Steps(r.seen, path) \in Seq(Event)
    BY <1>1, StepsProperties
  <2>2. Walked(r.pending \o Steps(r.seen, path)) = before \o Walked(Steps(r.seen, path))
    BY <1>1, <2>1, WalkedConcat
  <2>3. Walked(Steps(r.seen, path)) = path
    BY <1>1, WalkedSteps
  <2>4. QED
    BY <1>3, <2>2, <2>3
<1>5. LegalOn(r.seen, path)
  BY DEF Flush, Permitted, Allowed, LegalOn
<1>6. r.seen = IF before = <<>> THEN status[r.loan] ELSE before[Len(before)]
  BY DEF OnPath
<1>7. LegalOn(status[r.loan], before)
  BY DEF OnPath
<1>8. LegalOn(status[r.loan], whole)
  BY <1>1, <1>2, <1>5, <1>6, <1>7, LegalConcat
<1>9. whole # <<>> /\ whole[Len(whole)] = path[Len(path)]
  <2>1. Len(path) \in Nat \ {0} /\ Len(before) \in Nat
    BY <1>2, EmptySeq
  <2>2. Len(whole) = Len(before) + Len(path) /\ whole \in Seq(LoanStatus)
    BY <1>2, ConcatProperties
  <2>3. whole[Len(before) + Len(path)] = path[Len(path)]
    BY <1>2, <2>1, ConcatProperties
  <2>4. whole # <<>>
    BY <2>1, <2>2, EmptySeq
  <2>5. QED
    BY <2>2, <2>3, <2>4
<1> HIDE DEF whole, before
<1>10. /\ whole \in StateMachine!Path
       /\ phase = "analysing" => whole = <<"ai_risk_analysis">>
  BY DEF whole, before
<1>11. LegalOn(status'[request'[s].loan], whole)
  BY <1>3, <1>8
<1>12. QED
  BY <1>3, <1>4, <1>9, <1>10, <1>11 DEF OnPath

CommitsPath(s) ==
  /\ Serving(s) /\ Working(s, "flushed") /\ Publish(s)
  /\ UNCHANGED disbursed \/ DisbursementCommit(s)

StaysOnPath(s) ==
  /\ UNCHANGED <<status, events, disbursed>>
  /\ Serving(s)' =>
       Serving(s) /\ request'[s].loan = request[s].loan /\ OnPath(s)'

\* The first flush of a request takes the whole path.
LEMMA FirstFlush ==
  ASSUME TypeOK, NEW s \in Sessions, Serving(s), OnPath(s),
         NEW path \in Seq(LoanStatus), path # <<>>, path \in StateMachine!Path,
         NEW phase \in {"analysing", "flushed"}, Flush(s, path, phase),
         request[s].op # "disburse", Walked(request[s].pending) = <<>>,
         phase = "analysing" => path = <<"ai_risk_analysis">>
  PROVE  StaysOnPath(s)
<1>1. Walked(request[s].pending) \o path = path
  BY ConcatEmptySeq
<1>2. OnPath(s)'
  BY <1>1, PathFlushed
<1>3. request[s] \in Request
  BY ServingType
<1>4. request'[s].loan = request[s].loan
  BY <1>3 DEF Flush, TypeOK, Request
<1>5. QED
  BY <1>2, <1>4 DEF StaysOnPath, Flush, loanRows

\* A step that rewrites the phase, or what a repayment allocates.
LEMMA PhaseStep ==
  ASSUME TypeOK, NEW s \in Sessions, Serving(s), OnPath(s), NEW next,
         request' = [request EXCEPT ![s] = next],
         UNCHANGED <<status, events, disbursed>>,
         next.loan = request[s].loan, next.op = request[s].op,
         next.seen = request[s].seen, next.pending = request[s].pending,
         next.known = request[s].known,
         request[s].op # "disburse",
         Walked(request[s].pending) = <<>> \/ next.phase = "flushed"
  PROVE  StaysOnPath(s)
<1>1. request'[s] = next
  BY DEF TypeOK
<1>2. SameRow(s)
  BY <1>1 DEF SameRow
<1>3. OnPath(s)'
  BY <1>1, <1>2, PathSame
<1>4. QED
  BY <1>1, <1>3 DEF StaysOnPath

LEMMA PathAdvances ==
  ASSUME TypeOK, NEW s \in Sessions, Advance(s) \/ Fail(s),
         Serving(s) => OnPath(s)
  PROVE  CommitsPath(s) \/ StaysOnPath(s)
<1> DEFINE r == request[s]
<1>1. CASE SubmitWrite(s)
  <2>1. /\ Serving(s) /\ Walked(r.pending) = <<>> /\ r.op = "submit"
        /\ Flush(s, <<"submitted", "under_review">>, "flushed")
    BY <1>1 DEF SubmitWrite, Working, Serving, OnPath
  <2>2. QED
    BY <2>1, FirstFlush, MachinePaths, PathsAreSequences
<1>2. CASE \E to \in LoanStatus : TransitionWrite(s, to)
  <2>1. PICK to \in LoanStatus : TransitionWrite(s, to)
    BY <1>2
  <2>2. /\ Serving(s) /\ Walked(r.pending) = <<>> /\ r.op = "transition"
        /\ Flush(s, <<to>>, "flushed")
    BY <2>1 DEF TransitionWrite, Working, Serving, OnPath
  <2>3. QED
    BY <2>2, FirstFlush, MachinePaths, PathsAreSequences
<1>3. CASE WorkflowCommit(s) \/ DecisionCommit(s) \/ AnalysisCommit(s)
             \/ DisbursementCommit(s) \/ RepaymentCommit(s)
  BY <1>3 DEF WorkflowCommit, DecisionCommit, AnalysisCommit, Working, Serving,
              DisbursementCommit, RepaymentCommit, CommitsPath, loanRows
<1>4. CASE FraudClearance(s)
  <2>1. /\ r \in Request /\ Serving(s) /\ Walked(r.pending) = <<>>
        /\ r.op = "approve"
    BY <1>4, ServingType DEF FraudClearance, Working, Serving, OnPath
  <2>2. request' = [request EXCEPT ![s] = [r EXCEPT !.phase = "cleared"]]
    BY <1>4 DEF FraudClearance
  <2>3. QED
    BY <1>4, <2>1, <2>2, PhaseStep DEF FraudClearance, Request, loanRows
<1>5. CASE DecisionWrite(s)
  <2>1. /\ Serving(s) /\ Walked(r.pending) = <<>>
        /\ Flush(s, <<DecisionTarget(r.op)>>, "flushed")
    BY <1>5 DEF DecisionWrite, Working, Serving, OnPath
  <2>2. r.op # "disburse"
    BY <1>5 DEF DecisionWrite, DecisionType
  <2>3. DecisionTarget(r.op) \in LoanStatus
    BY PathsAreSequences
  <2>4. QED
    BY <2>1, <2>2, <2>3, FirstFlush, MachinePaths, PathsAreSequences
<1>6. CASE AnalysisStart(s)
  <2>1. /\ Serving(s) /\ Walked(r.pending) = <<>> /\ r.op = "analyze"
        /\ Flush(s, <<"ai_risk_analysis">>, "analysing")
    BY <1>6 DEF AnalysisStart, Working, Serving, OnPath
  <2>2. "ai_risk_analysis" \in LoanStatus
    BY DEF LoanStatus
  <2>3. QED
    BY <2>1, <2>2, FirstFlush, MachinePaths, PathsAreSequences
<1>7. CASE AnalysisRestart(s)
  <2>1. /\ r \in Request /\ Serving(s) /\ Walked(r.pending) = <<>>
        /\ r.op = "analyze"
    BY <1>7, ServingType DEF AnalysisRestart, Working, Serving, OnPath
  <2>2. request' = [request EXCEPT ![s] = [r EXCEPT !.phase = "analysing"]]
    BY <1>7 DEF AnalysisRestart
  <2>3. QED
    BY <1>7, <2>1, <2>2, PhaseStep DEF AnalysisRestart, Request, loanRows
<1>8. CASE AnalysisAdvance(s)
  <2> DEFINE path == ScreeningPath(r.seen)
             before == Walked(r.pending)
  <2>1. /\ r \in Request /\ Serving(s) /\ OnPath(s) /\ r.op = "analyze"
        /\ before \in {<<>>, <<"ai_risk_analysis">>}
    BY <1>8, ServingType DEF AnalysisAdvance, Working, Serving, OnPath
  <2>2. CASE path = <<>>
    <3>1. request' = [request EXCEPT ![s] = [r EXCEPT !.phase = "flushed"]]
      BY <1>8, <2>2 DEF AnalysisAdvance
    <3>2. QED
      BY <1>8, <2>1, <2>2, <3>1, PhaseStep DEF AnalysisAdvance, Request, loanRows
  <2>3. CASE path # <<>>
    <3>1. Flush(s, path, "flushed")
      BY <1>8, <2>3 DEF AnalysisAdvance
    <3>2. \/ path = <<"officer_review">>
          \/ path = <<"fraud_screening", "officer_review">>
      BY <2>3, Zenon DEF ScreeningPath
    <3>3. path \in Seq(LoanStatus) /\ path \in StateMachine!Path
      BY <3>2, MachinePaths, PathsAreSequences DEF LoanStatus
    <3>4. CASE before = <<>>
      BY <2>1, <2>3, <3>1, <3>3, <3>4, FirstFlush
    <3>5. CASE before = <<"ai_risk_analysis">>
      <4>1. before # <<>> /\ before[Len(before)] = "ai_risk_analysis"
        BY <3>5
      <4>2. r.seen = "ai_risk_analysis"
        BY <2>1, <4>1 DEF OnPath
      <4>3. path = <<"fraud_screening", "officer_review">>
        BY <4>2 DEF ScreeningPath
      <4>4. before \o path \in StateMachine!Path
        BY <3>5, <4>3, MachinePaths
      <4>5. OnPath(s)'
        BY <2>1, <2>3, <3>1, <3>3, <4>4, PathFlushed
      <4>6. request'[s].loan = r.loan
        BY <2>1, <3>1 DEF Flush, TypeOK, Request
      <4>7. QED
        BY <2>1, <3>1, <4>5, <4>6 DEF StaysOnPath, Flush, loanRows
    <3>6. QED
      BY <2>1, <3>4, <3>5
  <2>4. QED
    BY <2>2, <2>3
<1>9. CASE DisbursementWrite(s)
  <2> DEFINE path == <<"disbursed", "active">>
  <2>1. Serving(s) /\ r \in Request /\ OnPath(s)
    BY <1>9, ServingType DEF DisbursementWrite, Working, Serving
  <2>2. status[r.loan] \in LoanStatus /\ path \in Seq(LoanStatus)
    BY <2>1, PathsAreSequences DEF TypeOK, Request
  <2>3. /\ request'[s].loan = r.loan /\ request'[s].op = r.op
        /\ request'[s].phase = "flushed" /\ request'[s].seen = "active"
        /\ request'[s].pending = Steps(status[r.loan], path)
        /\ UNCHANGED <<status, events, disbursed>>
    BY <1>9, <2>1 DEF DisbursementWrite, TypeOK, Request, loanRows
  <2>4. Walked(request'[s].pending) = path
    BY <2>2, <2>3, WalkedSteps
  <2>5. LegalOn(status[r.loan], path)
    BY <1>9 DEF DisbursementWrite, Permitted, Allowed, LegalOn
  <2>6. path # <<>> /\ path[Len(path)] = "active" /\ path \in StateMachine!Path
    BY MachinePaths
  <2>7. path = <<"disbursed", "active">>
    OBVIOUS
  <2> HIDE DEF path
  <2>8. OnPath(s)'
    BY <2>3, <2>4, <2>5, <2>6, <2>7 DEF OnPath
  <2>9. QED
    BY <2>1, <2>3, <2>8 DEF StaysOnPath
<1>10. CASE RepaymentAllocate(s)
  <2>1. /\ r \in Request /\ Serving(s) /\ Walked(r.pending) = <<>>
        /\ r.op = "repay"
    BY <1>10, ServingType DEF RepaymentAllocate, Working, Serving, OnPath
  <2>2. PICK phase \in {"allocated", "flushed"},
             amount \in 1..Outstanding(request[s].loan),
             base \in {allocated[request[s].loan]} :
          request' = [request EXCEPT ![s].phase = phase,
                                     ![s].amount = amount, ![s].base = base]
    BY <1>10 DEF RepaymentAllocate
  <2> DEFINE next == [r EXCEPT !.phase = phase, !.amount = amount, !.base = base]
  <2>3. request' = [request EXCEPT ![s] = next]
    BY <2>2
  <2>4. /\ next.loan = r.loan /\ next.op = r.op /\ next.seen = r.seen
        /\ next.pending = r.pending /\ next.known = r.known
    BY <2>1 DEF Request
  <2>5. QED
    BY <1>10, <2>1, <2>3, <2>4, PhaseStep DEF RepaymentAllocate, loanRows
<1>11. CASE RepaymentClose(s)
  <2>1. /\ Serving(s) /\ Walked(r.pending) = <<>> /\ r.op = "repay"
        /\ Flush(s, <<"closed">>, "flushed")
    BY <1>11 DEF RepaymentClose, Working, Serving, OnPath
  <2>2. "closed" \in LoanStatus
    BY DEF LoanStatus
  <2>3. QED
    BY <2>1, <2>2, FirstFlush, MachinePaths, PathsAreSequences
<1>12. CASE \E d \in {"confirmed", "dismissed"} : DispositionCommit(s, d)
  BY <1>12 DEF DispositionCommit, StaysOnPath, Serving, Idle, TypeOK, loanRows
<1>13. CASE Refused(s) \/ Fail(s)
  BY <1>13 DEF Refused, Fail, RollBack, StaysOnPath, Serving, Idle, TypeOK, loanRows
<1>14. QED
  BY <1>1, <1>2, <1>3, <1>4, <1>5, <1>6, <1>7, <1>8, <1>9, <1>10, <1>11,
     <1>12, <1>13 DEF Advance

LEMMA PathStep ==
  ASSUME LocksInvariant, PathInvariant, RequestsApart, [Next]_vars
  PROVE  PathInvariant'
<1>0. TypeOK
  BY DEF LocksInvariant, RowsInvariant
<1>1. ASSUME NEW s \in Sessions, Advance(s) \/ Fail(s),
             NEW t \in Sessions, Serving(t)'
      PROVE  OnPath(t)'
  <2>1. CommitsPath(s) \/ StaysOnPath(s)
    BY <1>0, <1>1, PathAdvances DEF PathInvariant
  <2>2. \A u \in Sessions \ {s} : request'[u] = request[u]
    BY <1>0, <1>1, StepsAreLocal
  <2>3. CASE t = s
    <3>1. CommitsPath(s) => ~Serving(s)'
      BY <1>0 DEF CommitsPath, Publish, Serving, Idle, TypeOK
    <3>2. QED
      BY <1>1, <2>1, <2>3, <3>1 DEF StaysOnPath
  <2>4. CASE t # s
    <3>1. request'[t] = request[t] /\ Serving(t) /\ OnPath(t)
      BY <1>1, <2>2, <2>4 DEF Serving, PathInvariant
    <3>2. request[t].loan \in Loans
      BY <1>0, <3>1, ServingType DEF Request
    <3>3. status'[request[t].loan] = status[request[t].loan]
      <4>1. CASE CommitsPath(s)
        <5>1. request[s].loan # request[t].loan
          BY <2>4, <3>1, <4>1 DEF CommitsPath, RequestsApart
        <5>2. QED
          BY <1>0, <3>2, <4>1, <5>1 DEF CommitsPath, Publish, TypeOK
      <4>2. CASE StaysOnPath(s)
        BY <4>2 DEF StaysOnPath
      <4>3. QED
        BY <2>1, <4>1, <4>2
    <3>4. QED
      BY <3>1, <3>3, PathKept
  <2>5. QED
    BY <2>3, <2>4
<1>2. ASSUME NEW s \in Sessions, NEW op \in Operations, NEW l \in Loans,
             Begin(s, op, l), NEW t \in Sessions, Serving(t)'
      PROVE  OnPath(t)'
  <2>1. /\ request'[s].pending = <<>> /\ request'[s].phase = "read"
        /\ request'[s].loan = l /\ request'[s].seen = status[l]
        /\ \A u \in Sessions \ {s} : request'[u] = request[u]
        /\ status' = status
    BY <1>0, <1>2 DEF Begin, TypeOK
  <2>2. CASE t = s
    <3>1. Walked(<<>>) = <<>>
      BY DEF Walked
    <3>2. LegalOn(status[l], <<>>)
      BY DEF LegalOn
    <3>3. QED
      BY <2>1, <2>2, <3>1, <3>2 DEF OnPath
  <2>3. CASE t # s
    <3>1. request'[t] = request[t] /\ Serving(t) /\ OnPath(t)
      BY <1>2, <2>1, <2>3 DEF Serving, PathInvariant
    <3>2. QED
      BY <2>1, <3>1, PathKept
  <2>4. QED
    BY <2>2, <2>3
<1>3. ASSUME UNCHANGED status, NEW t \in Sessions, Serving(t)',
             request'[t] = request[t]
      PROVE  OnPath(t)'
  BY <1>3, PathKept DEF Serving, PathInvariant
<1>4. ASSUME NEW s \in Sessions, NEW a \in Alerts, DispositionLock(s, a),
             NEW t \in Sessions, Serving(t)'
      PROVE  OnPath(t)'
  <2>1. ~Serving(s)' /\ \A u \in Sessions \ {s} : request'[u] = request[u]
    BY <1>0, <1>4 DEF DispositionLock, Serving, TypeOK
  <2>2. QED
    BY <1>3, <1>4, <2>1 DEF DispositionLock
<1>5. ASSUME (\E p \in Policies : UpdateSettings(p)) \/ UNCHANGED vars,
             NEW t \in Sessions, Serving(t)'
      PROVE  OnPath(t)'
  BY <1>3, <1>5 DEF UpdateSettings, vars
<1>6. SUFFICES ASSUME NEW t \in Sessions, Serving(t)' PROVE OnPath(t)'
  BY DEF PathInvariant
<1>7. CASE \E s \in Sessions : Advance(s) \/ Fail(s)
  BY <1>1, <1>6, <1>7
<1>8. CASE \E s \in Sessions, op \in Operations, l \in Loans : Begin(s, op, l)
  BY <1>2, <1>6, <1>8
<1>9. CASE \E s \in Sessions, a \in Alerts : DispositionLock(s, a)
  BY <1>4, <1>6, <1>9
<1>10. QED
  BY <1>5, <1>6, <1>7, <1>8, <1>9 DEF Next

LEMMA PathInit ==
  ASSUME Init
  PROVE  PathInvariant
BY DEF Init, PathInvariant, Serving, Idle

(***************************************************************************)
(* Its commit is a step of the machine.                                    *)
(***************************************************************************)
LEMMA TrailEnds ==
  ASSUME LocksInvariant, NEW l \in Loans
  PROVE  /\ trail[l] = <<"draft">> \o Walked(events[l])
         /\ Walked(events[l]) \in Seq(LoanStatus)
         /\ StateMachine!Current(l) = status[l]
<1> DEFINE before == Walked(events[l])
<1>1. events[l] \in Seq(Event) /\ StatusIsLastEvent
  BY DEF LocksInvariant, RowsInvariant, TypeOK
<1>2. before \in Seq(LoanStatus) /\ Len(before) = Len(events[l])
  BY <1>1, WalkedType
<1>3. trail[l] = <<"draft">> \o before
  BY DEF trail, Walked
<1>4. <<"draft">> \in Seq(LoanStatus) /\ Len(<<"draft">>) = 1
  BY DEF LoanStatus
<1>5. /\ Len(trail[l]) = 1 + Len(before)
      /\ trail[l][1] = "draft"
      /\ Len(before) # 0 => trail[l][1 + Len(before)] = before[Len(before)]
  <2> DEFINE first == <<"draft">>
  <2>1. first[1] = "draft" /\ first \in Seq(LoanStatus) /\ Len(first) = 1
    BY <1>4
  <2> HIDE DEF first, before
  <2>2. /\ Len(first \o before) = 1 + Len(before)
        /\ \A i \in 1..(1 + Len(before)) :
             (first \o before)[i] = IF i <= 1 THEN first[i] ELSE before[i - 1]
    BY <1>2, <2>1, ConcatProperties, SMTT(30)
  <2>3. Len(before) \in Nat
    BY <1>2
  <2>4. QED
    BY <1>3, <2>1, <2>2, <2>3 DEF first
<1>6. StateMachine!Current(l) = trail[l][Len(trail[l])]
  BY DEF StateMachine!Current
<1>7. CASE events[l] = <<>>
  <2>1. Len(before) = 0
    BY <1>2, <1>7
  <2>2. status[l] = "draft"
    BY <1>1, <1>7 DEF StatusIsLastEvent
  <2>3. QED
    BY <1>2, <1>3, <1>5, <1>6, <2>1, <2>2
<1>8. CASE events[l] # <<>>
  <2>1. Len(events[l]) \in Nat \ {0}
    BY <1>1, <1>8, EmptySeq
  <2>2. status[l] = events[l][Len(events[l])].to
    BY <1>1, <1>8 DEF StatusIsLastEvent, LastOf
  <2>3. before[Len(before)] = events[l][Len(events[l])].to
    BY <1>2, <2>1 DEF Walked
  <2>4. trail[l][Len(trail[l])] = before[Len(before)]
    BY <1>2, <1>5, <2>1
  <2>5. QED
    BY <1>2, <1>3, <1>6, <2>2, <2>3, <2>4
<1>9. QED
  BY <1>7, <1>8

LEMMA CommitWalks ==
  ASSUME LocksInvariant, NEW s \in Sessions, OnPath(s), CommitsPath(s),
         NEW l \in Loans, l = request[s].loan, NEW path, path = Walked(request[s].pending)
  PROVE  /\ path = <<>> => UNCHANGED trail
         /\ path # <<>> => path \in StateMachine!Path
         /\ StateMachine!Walk(l, path)
<1> DEFINE r == request[s]
<1>1. /\ TypeOK /\ r \in Request /\ r.pending \in Seq(Event)
      /\ events[l] \in Seq(Event)
  BY ServingType DEF LocksInvariant, RowsInvariant, CommitsPath, Request, TypeOK
<1>2. path \in Seq(LoanStatus)
  BY <1>1, WalkedType
<1>3. /\ trail[l] = <<"draft">> \o Walked(events[l])
      /\ Walked(events[l]) \in Seq(LoanStatus)
      /\ StateMachine!Current(l) = status[l]
  BY TrailEnds
<1>4. events' = [events EXCEPT ![l] = @ \o r.pending]
  BY DEF CommitsPath, Publish
<1>5. trail'[l] = trail[l] \o path
  <2>1. trail'[l] = <<"draft">> \o Walked(events[l] \o r.pending)
    BY <1>1, <1>4 DEF trail, Walked, TypeOK
  <2>2. Walked(events[l] \o r.pending) = Walked(events[l]) \o path
    BY <1>1, WalkedConcat
  <2>3. <<"draft">> \in Seq(LoanStatus)
    BY DEF LoanStatus
  <2>4. <<"draft">> \o (Walked(events[l]) \o path)
          = (<<"draft">> \o Walked(events[l])) \o path
    BY <1>2, <1>3, <2>3, ConcatAssociative
  <2>5. QED
    BY <1>3, <2>1, <2>2, <2>4
<1>6. trail' = [trail EXCEPT ![l] = @ \o path]
  <2>1. \A k \in Loans \ {l} : trail'[k] = trail[k]
    BY <1>1, <1>4 DEF trail, TypeOK
  <2>2. trail = [k \in Loans |-> trail[k]] /\ trail' = [k \in Loans |-> trail'[k]]
    BY DEF trail
  <2> HIDE DEF trail
  <2>3. QED
    BY <1>5, <2>1, <2>2
<1>7. path = <<>> => trail' = trail
  <2>1. ASSUME path = <<>> PROVE trail[l] \o path = trail[l]
    <3>1. trail[l] \in Seq(LoanStatus)
      <4>1. <<"draft">> \in Seq(LoanStatus)
        BY DEF LoanStatus
      <4>2. QED
        BY <1>3, <4>1, ConcatProperties
    <3>2. QED
      BY <2>1, <3>1, ConcatEmptySeq
  <2>2. trail = [k \in Loans |-> trail[k]]
    BY DEF trail
  <2> HIDE DEF trail
  <2>3. QED
    BY <1>6, <2>1, <2>2
<1>8. StateMachine!LegalPath(StateMachine!Current(l), path)
  <2>1. LegalOn(status[l], path)
    BY DEF OnPath
  <2>2. QED
    BY <1>3, <2>1 DEF LegalOn, Source, LOAN_TRANSITIONS, StateMachine!LegalPath,
                      StateMachine!Source, StateMachine!LOAN_TRANSITIONS
<1>9. StateMachine!Walk(l, path)
  BY <1>6, <1>8 DEF StateMachine!Walk
<1>10. path # <<>> => path \in StateMachine!Path
  BY DEF OnPath
<1>11. QED
  BY <1>7, <1>9, <1>10

LEMMA NextFollows ==
  ASSUME LocksInvariant, PathInvariant, [Next]_vars
  PROVE  [StateMachine!Next]_<<trail, disbursed>>
<1>0. UNCHANGED events => UNCHANGED trail
  BY DEF trail
<1>1. ASSUME NEW s \in Sessions, Advance(s) \/ Fail(s)
      PROVE  StateMachine!Next \/ UNCHANGED <<trail, disbursed>>
  <2>1. TypeOK /\ (Serving(s) => OnPath(s))
    BY DEF LocksInvariant, RowsInvariant, PathInvariant
  <2>2. CASE StaysOnPath(s)
    BY <1>0, <2>2 DEF StaysOnPath
  <2>3. CASE CommitsPath(s)
    <3> DEFINE path == Walked(request[s].pending)
    <3>1. PICK l \in Loans : l = request[s].loan
      BY <2>1, <2>3, ServingType DEF CommitsPath, Request
    <3>2. OnPath(s)
      BY <2>1, <2>3 DEF CommitsPath
    <3>3. /\ path = <<>> => UNCHANGED trail
          /\ path # <<>> => path \in StateMachine!Path
          /\ StateMachine!Walk(l, path)
      BY <2>3, <3>1, <3>2, CommitWalks
    <3>4. CASE UNCHANGED disbursed
      <4>1. path # <<>> => StateMachine!Move(l)
        BY <3>3, <3>4 DEF StateMachine!Move
      <4>2. QED
        BY <3>3, <3>4, <4>1 DEF StateMachine!Next
    <3>5. CASE DisbursementCommit(s)
      <4>1. /\ Serving(s) /\ request[s].op = "disburse"
            /\ request[s].phase = "flushed"
            /\ disbursed' = [disbursed EXCEPT ![l] = TRUE]
        BY <2>3, <3>1, <3>5 DEF DisbursementCommit, CommitsPath, Working
      <4>2. status[l] = "approved" /\ ~disbursed[l]
        BY <3>1, <4>1 DEF LocksInvariant, LocksProtect, DisbursementHolds
      <4>3. path = <<"disbursed", "active">>
        BY <3>2, <4>1 DEF OnPath
      <4>4. StateMachine!Current(l) = "approved"
        BY <4>2, TrailEnds
      <4>5. StateMachine!Fund(l)
        BY <3>3, <4>1, <4>2, <4>3, <4>4 DEF StateMachine!Fund
      <4>6. QED
        BY <4>5 DEF StateMachine!Next
    <3>6. QED
      BY <2>3, <3>4, <3>5 DEF CommitsPath
  <2>4. QED
    BY <1>1, <2>1, <2>2, <2>3, PathAdvances
<1>2. CASE \E s \in Sessions, op \in Operations, l \in Loans : Begin(s, op, l)
  BY <1>0, <1>2 DEF Begin, loanRows
<1>3. CASE \E s \in Sessions, a \in Alerts : DispositionLock(s, a)
  BY <1>0, <1>3 DEF DispositionLock, loanRows
<1>4. CASE (\E p \in Policies : UpdateSettings(p)) \/ UNCHANGED vars
  BY <1>0, <1>4 DEF UpdateSettings, vars, loanRows
<1>5. CASE \E s \in Sessions : Advance(s) \/ Fail(s)
  BY <1>1, <1>5
<1>6. QED
  BY <1>2, <1>3, <1>4, <1>5 DEF Next

LEMMA InitFollows ==
  ASSUME Init
  PROVE  StateMachine!Init
<1>1. \A l \in Loans : <<"draft">> \o [i \in 1..0 |-> events[l][i].to] = <<"draft">>
  <2>1. ASSUME NEW l \in Loans PROVE [i \in 1..0 |-> events[l][i].to] = <<>>
    OBVIOUS
  <2>2. <<"draft">> \in Seq(LoanStatus)
    BY DEF LoanStatus
  <2>3. QED
    BY <2>1, <2>2, ConcatEmptySeq
<1>2. \A l \in Loans : Len(events[l]) = 0
  BY DEF Init
<1>3. trail = [l \in Loans |-> <<"draft">>]
  BY <1>1, <1>2 DEF trail
<1>4. QED
  BY <1>3 DEF Init, StateMachine!Init

\* While no two requests run on one loan, whatever runs on the others, the
\* backend does what the workflow promises: every loan goes one legal step
\* after the other, and its money goes out once, on the step from approved to
\* active.
THEOREM RequestsApartFollow ==
  Spec /\ []RequestsApart => FollowsStateMachine
<1>1. Init => LocksInvariant /\ PathInvariant
  BY LocksInit, PathInit
<1>2. LocksInvariant /\ PathInvariant /\ RequestsApart /\ [Next]_vars
        => (LocksInvariant /\ PathInvariant)'
  BY LocksStep, PathStep
<1>3. Init => StateMachine!Init
  BY InitFollows
<1>4. LocksInvariant /\ PathInvariant /\ [Next]_vars
        => [StateMachine!Next]_<<trail, disbursed>>
  BY NextFollows
<1>5. QED
  BY <1>1, <1>2, <1>3, <1>4, PTL DEF Spec, FollowsStateMachine, StateMachine!Spec

\* In particular the requests of one session, which run one after the other.
THEOREM SerialRequestsFollow ==
  ASSUME \A s, t \in Sessions : s = t
  PROVE  Spec => FollowsStateMachine
<1>1. RequestsApart
  BY DEF RequestsApart
<1>2. QED
  BY <1>1, RequestsApartFollow, PTL
==============================================================================
