--------------------------- MODULE LoanLifecycle ----------------------------
(***************************************************************************)
(* The life of a loan application in the backend: the HTTP requests that   *)
(* move it (submit, transition, analyze, decision, disburse, repayments),  *)
(* the disposition of fraud alerts and the tenant's workflow settings.     *)
(*                                                                         *)
(* Each request runs in ONE database transaction (db/session.py) at READ   *)
(* COMMITTED: what it has flushed is invisible until it commits, and an    *)
(* exception rolls all of it back.  A request is modelled by the steps     *)
(* between which other requests can run: the read of the loan row, the     *)
(* statements that depend on other rows or wait for a row lock, and the    *)
(* commit.  The loan row the session has read stays in its identity map    *)
(* (`seen'): service.get_loan never reads it again, and the UPDATE of      *)
(* its status has no version check, so it overwrites whatever committed    *)
(* in between.  Row locks are derived: a request that has flushed a status *)
(* update holds the loan row, an allocated repayment holds the             *)
(* installments, an alert under disposition is held by its investigator.   *)
(***************************************************************************)
EXTENDS LoanTransitions, FiniteSets

CONSTANTS
  Loans,          \* loan applications
  Sessions,       \* concurrent request handlers, one transaction each
  Alerts,         \* identities of fraud alerts, not yet raised
  Policies,       \* the loan_workflow settings the tenant may choose from
  Amount,         \* requested amount of each loan
  Due,            \* principal plus interest of each loan's schedule
  MaxRequests     \* bound: requests begun in a behaviour

ASSUME LoanAssumption ==
  /\ Policies \subseteq LoanWorkflowSettings /\ Policies # {}
  /\ Amount \in [Loans -> Nat \ {0}]
  /\ Due \in [Loans -> Nat \ {0}]
  /\ MaxRequests \in Nat

VARIABLES
  status,         \* loan_applications.status, committed
  events,         \* history: loan_workflow_events of each loan as committed
  decisions,      \* kinds of loan_decisions rows of each loan
  analysed,       \* the loan has AI result rows (risk score, score, ...)
  alerts,         \* fraud_alerts
  disbursed,      \* the loan has its loan_disbursements row and schedule
  allocated,      \* sum of principal_paid + interest_paid, its installments
  repaid,         \* sum of its loan_repayments rows
  policy,         \* organization.settings["loan_workflow"]
  request,        \* the transaction each session is running
  served          \* requests begun so far

vars == <<status, events, decisions, analysed, alerts, disbursed, allocated,
          repaid, policy, request, served>>

loanRows == <<decisions, analysed, disbursed, allocated, repaid>>
-----------------------------------------------------------------------------
Severity == {"medium", "high"}          \* a "low" screening raises no alert
Blocking == {"high"}                    \* approval_blocking_fraud_severities

NoAlert == [status |-> "none"]
Alert == [loan: Loans, severity: Severity,
          status: {"open", "confirmed", "dismissed"}]

Idle == [phase |-> "idle"]

\* A running request.  `pending' are its flushed, uncommitted workflow
\* events; `known' is a history field: the blocking alerts on the loan,
\* committed and not dismissed, when an approval began.
Request ==
  [op: {"submit", "transition", "analyze", "disburse", "repay"}
         \cup DecisionType,
   phase: {"read", "cleared", "analysing", "allocated", "flushed"},
   loan: Loans, seen: LoanStatus, pending: Seq(Event),
   known: SUBSET Alerts, amount: Nat, base: Nat]

Disposition == [phase: {"disposing"}, alert: Alerts]

TypeOK ==
  /\ status \in [Loans -> LoanStatus]
  /\ events \in [Loans -> Seq(Event)]
  /\ decisions \in [Loans -> SUBSET DecisionType]
  /\ analysed \in [Loans -> BOOLEAN]
  /\ alerts \in [Alerts -> Alert \cup {NoAlert}]
  /\ disbursed \in [Loans -> BOOLEAN]
  /\ allocated \in [Loans -> Nat]
  /\ repaid \in [Loans -> Nat]
  /\ policy \in Policies
  /\ request \in [Sessions -> Request \cup Disposition \cup {Idle}]
  /\ served \in Nat

Init ==
  /\ status = [l \in Loans |-> "draft"]
  /\ events = [l \in Loans |-> <<>>]
  /\ decisions = [l \in Loans |-> {}]
  /\ analysed = [l \in Loans |-> FALSE]
  /\ alerts = [a \in Alerts |-> NoAlert]
  /\ disbursed = [l \in Loans |-> FALSE]
  /\ allocated = [l \in Loans |-> 0]
  /\ repaid = [l \in Loans |-> 0]
  /\ policy \in Policies
  /\ request = [s \in Sessions |-> Idle]
  /\ served = 0
-----------------------------------------------------------------------------
(***************************************************************************)
(* Sessions and row locks.                                                 *)
(***************************************************************************)
Serving(s) == request[s].phase \notin {"idle", "disposing"}

Working(s, phase) == request[s].phase = phase

HoldsLoan(s, l) ==
  Serving(s) /\ request[s].loan = l /\ request[s].pending # <<>>

LoanFree(s, l) == \A other \in Sessions \ {s} : ~HoldsLoan(other, l)

HoldsInstallments(s, l) ==
  /\ Serving(s) /\ request[s].loan = l /\ request[s].op = "repay"
  /\ request[s].phase \in {"allocated", "flushed"}

HoldsAlert(s, a) == Working(s, "disposing") /\ request[s].alert = a

\* A disbursement reads the loan FOR UPDATE: it waits for requests that have
\* flushed rows referencing the loan, and holds such inserts back itself.
HeldForUpdate(s, l) ==
  \E other \in Sessions \ {s} :
    HoldsLoan(other, l) /\ request[other].op = "disburse"

References(s, l) ==
  /\ Serving(s) /\ request[s].loan = l
  /\ request[s].phase \in {"allocated", "flushed"}

Lockable(s, l) ==
  LoanFree(s, l) /\ \A other \in Sessions \ {s} : ~References(other, l)

\* Mutant: a confirmed alert no longer blocks.
BlockingOpenAlerts(l) ==
  {a \in Alerts : /\ alerts[a] # NoAlert
                  /\ alerts[a].loan = l
                  /\ alerts[a].severity \in Blocking
                  /\ alerts[a].status = "open"}

BlockingAlerts(l) ==
  {a \in Alerts : /\ alerts[a] # NoAlert
                  /\ alerts[a].loan = l
                  /\ alerts[a].severity \in Blocking
                  /\ alerts[a].status # "dismissed"}

Outstanding(l) == IF disbursed[l] THEN Due[l] - allocated[l] ELSE 0

-----------------------------------------------------------------------------
(***************************************************************************)
(* service.get_loan: the first statement of every request reads the        *)
(* committed row, without a lock, into the session.                        *)
(***************************************************************************)
Begin(s, op, l) ==
  /\ Working(s, "idle")
  /\ served < MaxRequests
  /\ served' = served + 1
  /\ request' = [request EXCEPT ![s] =
       [op |-> op, phase |-> "read", loan |-> l, seen |-> status[l],
        pending |-> <<>>,
        known |-> IF op = "approve" THEN BlockingAlerts(l) ELSE {},
        amount |-> 0, base |-> 0]]
  /\ UNCHANGED <<status, events, alerts, policy, loanRows>>

\* Mutant: the target is not checked against the graph.
FlushUnchecked(s, path, phase) ==
  LET r == request[s] IN
  /\ LoanFree(s, r.loan)
  /\ request' = [request EXCEPT
       ![s].phase = phase,
       ![s].seen = path[Len(path)],
       ![s].pending = r.pending \o Steps(r.seen, path)]
  /\ UNCHANGED <<status, events, alerts, policy, loanRows, served>>

\* service.transition, once or several times in a row: check each target
\* against the policy read now, set the status, flush.  The flush waits for
\* the row and then overwrites it.
Flush(s, path, phase) ==
  LET r == request[s] IN
  /\ LoanFree(s, r.loan)
  /\ Permitted(policy, Amount[r.loan], r.seen, path)
  /\ request' = [request EXCEPT
       ![s].phase = phase,
       ![s].seen = path[Len(path)],
       ![s].pending = r.pending \o Steps(r.seen, path)]
  /\ UNCHANGED <<status, events, alerts, policy, loanRows, served>>

\* Mutant: one workflow event per request, the last.
PublishLastOnly(s) ==
  LET r == request[s]
      kept == IF r.pending = <<>> THEN <<>> ELSE <<r.pending[Len(r.pending)]>> IN
  /\ status' = IF r.pending = <<>> THEN status
               ELSE [status EXCEPT ![r.loan] = r.seen]
  /\ events' = [events EXCEPT ![r.loan] = @ \o kept]
  /\ request' = [request EXCEPT ![s] = Idle]
  /\ UNCHANGED <<policy, served>>

\* The commit makes the pending status and workflow events visible, ends the
\* transaction and releases its locks.  That `events' keeps the order of the
\* commits is history: the table does not (see Ledger).
Publish(s) ==
  LET r == request[s] IN
  /\ status' = IF r.pending = <<>> THEN status
               ELSE [status EXCEPT ![r.loan] = r.seen]
  /\ events' = [events EXCEPT ![r.loan] = @ \o r.pending]
  /\ request' = [request EXCEPT ![s] = Idle]
  /\ UNCHANGED <<policy, served>>

-----------------------------------------------------------------------------
(***************************************************************************)
(* POST /loans/{id}/submit and /transition.                                *)
(***************************************************************************)
SubmitWrite(s) ==
  /\ Working(s, "read") /\ request[s].op = "submit"
  /\ Flush(s, <<"submitted", "under_review">>, "flushed")

TransitionWrite(s, to) ==
  /\ Working(s, "read") /\ request[s].op = "transition"
  /\ Flush(s, <<to>>, "flushed")

WorkflowCommit(s) ==
  /\ Working(s, "flushed") /\ request[s].op \in {"submit", "transition"}
  /\ Publish(s)
  /\ UNCHANGED <<alerts, loanRows>>

-----------------------------------------------------------------------------
(***************************************************************************)
(* POST /loans/{id}/decision.  An approval first reads the fraud alerts    *)
(* (ensure_fraud_clearance); the decision row and the transition follow.   *)
(***************************************************************************)
FraudClearance(s) ==
  /\ Working(s, "read") /\ request[s].op = "approve"
  /\ BlockingAlerts(request[s].loan) = {}
  /\ request' = [request EXCEPT ![s].phase = "cleared"]
  /\ UNCHANGED <<status, events, alerts, policy, loanRows, served>>

DecisionWrite(s) ==
  /\ request[s].phase \in {"read", "cleared"}
  /\ request[s].op \in DecisionType
  /\ request[s].op = "approve" => Working(s, "cleared")
  /\ Flush(s, <<DecisionTarget(request[s].op)>>, "flushed")

DecisionCommit(s) ==
  /\ Working(s, "flushed") /\ request[s].op \in DecisionType
  /\ Publish(s)
  /\ decisions' =
       [decisions EXCEPT ![request[s].loan] = @ \cup {request[s].op}]
  /\ UNCHANGED <<alerts, analysed, disbursed, allocated, repaid>>

-----------------------------------------------------------------------------
(***************************************************************************)
(* POST /loans/{id}/analyze.  A loan under review is moved to              *)
(* ai_risk_analysis (and its row held) before the ML call; at any other    *)
(* status the analysis runs all the same.  The result rows are flushed,    *)
(* then the loan is taken on to officer review from where the session last *)
(* saw it.                                                                 *)
(***************************************************************************)
AnalysisStart(s) ==
  /\ Working(s, "read") /\ request[s].op = "analyze"
  /\ request[s].seen = "under_review"
  /\ Flush(s, <<"ai_risk_analysis">>, "analysing")

AnalysisRestart(s) ==
  /\ Working(s, "read") /\ request[s].op = "analyze"
  /\ request[s].seen # "under_review"
  /\ request' = [request EXCEPT ![s].phase = "analysing"]
  /\ UNCHANGED <<status, events, alerts, policy, loanRows, served>>

ScreeningPath(seen) ==
  CASE seen = "ai_risk_analysis" -> <<"fraud_screening", "officer_review">>
    [] seen = "fraud_screening"  -> <<"officer_review">>
    [] OTHER                     -> <<>>

AnalysisAdvance(s) ==
  LET path == ScreeningPath(request[s].seen) IN
  /\ Working(s, "analysing") /\ request[s].op = "analyze"
  /\ IF path = <<>>
       THEN /\ ~HeldForUpdate(s, request[s].loan)
            /\ request' = [request EXCEPT ![s].phase = "flushed"]
            /\ UNCHANGED <<status, events, alerts, policy, loanRows, served>>
       ELSE Flush(s, path, "flushed")

\* analyze_loan raises an alert unless the screening came out "low".
AnalysisCommit(s) ==
  /\ Working(s, "flushed") /\ request[s].op = "analyze"
  /\ Publish(s)
  /\ analysed' = [analysed EXCEPT ![request[s].loan] = TRUE]
  /\ \/ alerts' = alerts
     \/ \E a \in Alerts, severity \in Severity :
          /\ alerts[a] = NoAlert
          /\ alerts' = [alerts EXCEPT ![a] =
               [loan |-> request[s].loan, severity |-> severity,
                status |-> "open"]]
  /\ UNCHANGED <<decisions, disbursed, allocated, repaid>>

-----------------------------------------------------------------------------
(***************************************************************************)
(* POST /loans/{id}/disburse.  refresh(with_for_update) waits for the row  *)
(* and reads it again, so the guards hold until the commit.                *)
(***************************************************************************)
\* Mutant: the loan row is read without a lock.
DisbursementUnlocked(s) ==
  LET l == request[s].loan
      path == <<"disbursed", "active">> IN
  /\ Working(s, "read") /\ request[s].op = "disburse"
  /\ status[l] = "approved"
  /\ ~disbursed[l]
  /\ Permitted(policy, Amount[l], status[l], path)
  /\ request' = [request EXCEPT
       ![s].phase = "flushed", ![s].seen = "active",
       ![s].pending = Steps(status[l], path)]
  /\ UNCHANGED <<status, events, alerts, policy, loanRows, served>>

DisbursementWrite(s) ==
  LET l == request[s].loan
      path == <<"disbursed", "active">> IN
  /\ Working(s, "read") /\ request[s].op = "disburse"
  /\ Lockable(s, l)
  /\ status[l] = "approved"
  /\ ~disbursed[l]
  /\ Permitted(policy, Amount[l], status[l], path)
  /\ request' = [request EXCEPT
       ![s].phase = "flushed", ![s].seen = "active",
       ![s].pending = Steps(status[l], path)]
  /\ UNCHANGED <<status, events, alerts, policy, loanRows, served>>

DisbursementCommit(s) ==
  /\ Working(s, "flushed") /\ request[s].op = "disburse"
  /\ Publish(s)
  /\ disbursed' = [disbursed EXCEPT ![request[s].loan] = TRUE]
  /\ UNCHANGED <<alerts, decisions, analysed, allocated, repaid>>

-----------------------------------------------------------------------------
(***************************************************************************)
(* POST /loans/{id}/repayments.  The status is checked on the unlocked     *)
(* read; the installments are then locked and read, the payment allocated, *)
(* and a payment of exactly the outstanding balance closes the loan.       *)
(***************************************************************************)
\* Mutants: the installments are read without a lock; a payment of the whole
\* balance is not recognised as the last.
RepaymentUnlocked(s) ==
  LET l == request[s].loan IN
  /\ Working(s, "read") /\ request[s].op = "repay"
  /\ request[s].seen \in {"active", "defaulted"}
  /\ \E amount \in 1..Outstanding(l) :
       request' = [request EXCEPT
         ![s].phase = IF amount = Outstanding(l) THEN "allocated"
                                                 ELSE "flushed",
         ![s].amount = amount, ![s].base = allocated[l]]
  /\ UNCHANGED <<status, events, alerts, policy, loanRows, served>>

RepaymentNeverLast(s) ==
  LET l == request[s].loan IN
  /\ Working(s, "read") /\ request[s].op = "repay"
  /\ request[s].seen \in {"active", "defaulted"}
  /\ \A other \in Sessions \ {s} : ~HoldsInstallments(other, l)
  /\ ~HeldForUpdate(s, l)
  /\ \E amount \in 1..Outstanding(l) :
       request' = [request EXCEPT
         ![s].phase = IF amount > Outstanding(l) THEN "allocated"
                                                 ELSE "flushed",
         ![s].amount = amount, ![s].base = allocated[l]]
  /\ UNCHANGED <<status, events, alerts, policy, loanRows, served>>

RepaymentAllocate(s) ==
  LET l == request[s].loan IN
  /\ Working(s, "read") /\ request[s].op = "repay"
  /\ request[s].seen \in {"active", "defaulted"}
  /\ \A other \in Sessions \ {s} : ~HoldsInstallments(other, l)
  /\ ~HeldForUpdate(s, l)
  /\ \E amount \in 1..Outstanding(l) :
       request' = [request EXCEPT
         ![s].phase = IF amount = Outstanding(l) THEN "allocated"
                                                 ELSE "flushed",
         ![s].amount = amount, ![s].base = allocated[l]]
  /\ UNCHANGED <<status, events, alerts, policy, loanRows, served>>

RepaymentClose(s) ==
  /\ Working(s, "allocated") /\ request[s].op = "repay"
  /\ Flush(s, <<"closed">>, "flushed")

RepaymentCommit(s) ==
  LET r == request[s] IN
  /\ Working(s, "flushed") /\ r.op = "repay"
  /\ Publish(s)
  /\ allocated' = [allocated EXCEPT ![r.loan] = r.base + r.amount]
  /\ repaid' = [repaid EXCEPT ![r.loan] = @ + r.amount]
  /\ UNCHANGED <<alerts, decisions, analysed, disbursed>>

-----------------------------------------------------------------------------
(***************************************************************************)
(* POST /fraud/alerts/{id}/resolve locks the alert, insists that it is     *)
(* open and records one terminal disposition.                              *)
(***************************************************************************)
\* Mutant: the alert is read without a lock.
DispositionUnlocked(s, a) ==
  /\ Working(s, "idle")
  /\ served < MaxRequests
  /\ alerts[a] # NoAlert
  /\ alerts[a].status = "open"
  /\ served' = served + 1
  /\ request' = [request EXCEPT ![s] = [phase |-> "disposing", alert |-> a]]
  /\ UNCHANGED <<status, events, alerts, policy, loanRows>>

DispositionLock(s, a) ==
  /\ Working(s, "idle")
  /\ served < MaxRequests
  /\ \A other \in Sessions : ~HoldsAlert(other, a)
  /\ alerts[a] # NoAlert
  /\ alerts[a].status = "open"
  /\ served' = served + 1
  /\ request' = [request EXCEPT ![s] = [phase |-> "disposing", alert |-> a]]
  /\ UNCHANGED <<status, events, alerts, policy, loanRows>>

DispositionCommit(s, disposition) ==
  /\ Working(s, "disposing")
  /\ alerts' = [alerts EXCEPT ![request[s].alert].status = disposition]
  /\ request' = [request EXCEPT ![s] = Idle]
  /\ UNCHANGED <<status, events, policy, loanRows, served>>

\* PATCH /organizations/current: the tenant changes its workflow settings.
UpdateSettings(p) ==
  /\ policy # p
  /\ policy' = p
  /\ UNCHANGED <<status, events, alerts, request, loanRows, served>>

-----------------------------------------------------------------------------
(***************************************************************************)
(* The ways a request ends without committing.  Refused: a guard of the    *)
(* service raises, which it can only do once the rows it depends on are    *)
(* readable.  Fail: the ML engine does not answer, the connection or the   *)
(* process dies.  Both roll the transaction back.                          *)
(***************************************************************************)
\* Mutants: the connection goes back to the pool with the request's state;
\* the error is swallowed and the transaction stays open.
RollBackPooled(s) ==
  /\ request' = [request EXCEPT ![s].phase = "idle"]
  /\ UNCHANGED <<status, events, alerts, policy, loanRows, served>>

RollBackForgotten(s) ==
  /\ request' = [request EXCEPT ![s] = request[s]]
  /\ UNCHANGED <<status, events, alerts, policy, loanRows, served>>

RollBack(s) ==
  /\ request' = [request EXCEPT ![s] = Idle]
  /\ UNCHANGED <<status, events, alerts, policy, loanRows, served>>

RefusedPath(s) ==
  LET r == request[s]
      refuses(path) == ~Permitted(policy, Amount[r.loan], r.seen, path) IN
  \/ r.op = "submit" /\ refuses(<<"submitted", "under_review">>)
  \/ r.op = "transition" /\ \E to \in LoanStatus : refuses(<<to>>)
  \/ /\ r.op \in DecisionType
     /\ r.op = "approve" => Working(s, "cleared")
     /\ refuses(<<DecisionTarget(r.op)>>)

Refused(s) ==
  LET r == request[s] IN
  /\ Serving(s)
  /\ \/ r.phase \in {"read", "cleared"} /\ RefusedPath(s)
     \/ /\ Working(s, "read") /\ r.op = "approve"
        /\ BlockingAlerts(r.loan) # {}
     \/ /\ Working(s, "read") /\ r.op = "disburse" /\ Lockable(s, r.loan)
        /\ status[r.loan] # "approved" \/ disbursed[r.loan]
     \/ /\ Working(s, "read") /\ r.op = "repay"
        /\ \/ r.seen \notin {"active", "defaulted"}
           \/ \A other \in Sessions \ {s} : ~HoldsInstallments(other, r.loan)
  /\ RollBack(s)

Fail(s) == ~Working(s, "idle") /\ RollBack(s)

-----------------------------------------------------------------------------
\* What a running request does when it is its turn.
Advance(s) ==
  \/ SubmitWrite(s)
  \/ \E to \in LoanStatus : TransitionWrite(s, to)
  \/ WorkflowCommit(s)
  \/ FraudClearance(s)
  \/ DecisionWrite(s)
  \/ DecisionCommit(s)
  \/ AnalysisStart(s)
  \/ AnalysisRestart(s)
  \/ AnalysisAdvance(s)
  \/ AnalysisCommit(s)
  \/ DisbursementWrite(s)
  \/ DisbursementCommit(s)
  \/ RepaymentAllocate(s)
  \/ RepaymentClose(s)
  \/ RepaymentCommit(s)
  \/ \E d \in {"confirmed", "dismissed"} : DispositionCommit(s, d)
  \/ Refused(s)

Operations == {"submit", "transition", "analyze", "disburse", "repay"}
                \cup DecisionType

Next ==
  \/ \E s \in Sessions :
       \/ \E op \in Operations, l \in Loans : Begin(s, op, l)
       \/ \E a \in Alerts : DispositionLock(s, a)
       \/ Advance(s)
       \/ Fail(s)
  \/ \E p \in Policies : UpdateSettings(p)

Spec == Init /\ [][Next]_vars

\* A request handler that can take its next step eventually takes it: the
\* database grants a free lock and the ML client has a timeout.  Nothing
\* obliges a client to begin a request or a connection to fail.
FairSpec == Spec /\ \A s \in Sessions : WF_vars(Advance(s))
-----------------------------------------------------------------------------
(***************************************************************************)
(* Properties that hold of every interleaving.                             *)
(***************************************************************************)
LastOf(seq) == seq[Len(seq)]

\* The statuses a loan has committed, according to its workflow events.
Reached(l) ==
  {"draft"} \cup {events[l][i].to : i \in 1..Len(events[l])}

\* An alert under disposition is still open, and one session's at most.
AlertLocked ==
  \A s \in Sessions : Working(s, "disposing") =>
    LET a == request[s].alert IN
    /\ alerts[a] # NoAlert /\ alerts[a].status = "open"
    /\ \A other \in Sessions : HoldsAlert(other, a) => other = s

\* The rows of loan_workflow_events as the table has them.  created_at is the
\* start of the transaction (loan/models.py:71), one for all its rows, and the
\* order in which overlapping requests committed is nowhere on record.
Ledger(l) == {events[l][i] : i \in 1..Len(events[l])}

\* The stored rows account for the status, whatever overwrote what and in
\* whatever order they are read: a chain of recorded steps leads from draft to
\* it.  Said without the chain: whoever counts as known draft and what a row
\* leads to from something known, knows the status (service.transition adds the
\* row of each step in the transaction that sets the status).
LedgerExplainsStatus ==
  \A l \in Loans : \A known \in SUBSET Reached(l) :
    /\ "draft" \in known
    /\ \A row \in Ledger(l) : row.from \in known => row.to \in known
    => status[l] \in known

\* Every workflow event is an edge of the safety graph, out of a status the
\* loan had really committed before: a stale read is an old truth, never an
\* invention.
Chained(rows, reached) ==
  \A i \in 1..Len(rows) :
    /\ <<rows[i].from, rows[i].to>> \in LOAN_TRANSITIONS
    /\ \/ rows[i].from \in reached
       \/ \E j \in 1..(i - 1) : rows[j].to = rows[i].from

EventsGrounded == \A l \in Loans : Chained(events[l], {"draft"})

\* No loan gets behind officer review, by whatever requests in whatever
\* order, unless it was committed in each stage of the mandatory path before
\* (docs/LOAN_WORKFLOW_GOVERNANCE.md:9-12).
NoStageSkipped ==
  \A l \in Loans :
    Reached(l) \cap PastScreening # {} => SafetyPath \subseteq Reached(l)

\* Where every settings the tenant may choose require the analyst for a
\* loan's amount, no officer decision takes it around analyst review.
AnalystGate ==
  \A l \in Loans :
    /\ \A p \in Policies : AnalystRequired(p, Amount[l])
    /\ Reached(l) \cap {"approved", "rejected"} # {}
    => "analyst_review" \in Reached(l)

\* An approval that has its clearance was cleared of everything known when
\* it began: each blocking alert committed before the request is dismissed,
\* and stays so until the decision commits.
ClearanceHolds ==
  \A s \in Sessions :
    Serving(s) /\ request[s].op = "approve" /\ ~Working(s, "read")
      => \A a \in request[s].known : alerts[a].status = "dismissed"

\* Two repayments never allocate the same balance: the installments carry
\* exactly what the repayment rows add up to, and never more than is due.
RepaymentsConserved ==
  \A l \in Loans :
    /\ allocated[l] = repaid[l]
    /\ allocated[l] <= Due[l]
    /\ allocated[l] > 0 => disbursed[l]

\* Whoever pays the last cent closes the loan in the same transaction, from
\* active or from defaulted (docs/LOAN_SERVICING.md:17).
FullRepaymentCloses ==
  \A l \in Loans :
    disbursed[l] /\ Outstanding(l) = 0 => "closed" \in Reached(l)

\* Money goes out once, and only on a loan whose committed status is
\* approved at the moment of the commit, with the contract row, the schedule
\* and both workflow steps in one transaction.
DisbursementAction(l) ==
  disbursed'[l] # disbursed[l]
    => /\ ~disbursed[l]
       /\ status[l] = "approved" /\ status'[l] = "active"
       /\ allocated[l] = 0

DisbursedOnceFromApproved ==
  [][\A l \in Loans : DisbursementAction(l)]_<<disbursed, status, allocated>>

\* A recorded disposition is terminal: two investigators cannot both resolve
\* an alert, and nothing reopens it (docs/FRAUD_CASE_MANAGEMENT.md:16-17).
DispositionTerminal ==
  [][\A a \in Alerts :
       alerts[a] # NoAlert /\ alerts[a].status # "open"
         => alerts'[a] = alerts[a]]_alerts

\* Locks are never waited for in a circle: a request that has begun ends,
\* with a commit or with a refusal.
RequestsEnd ==
  \A s \in Sessions : ~Working(s, "idle") ~> Working(s, "idle")

-----------------------------------------------------------------------------
(***************************************************************************)
(* The inductive invariant behind these properties: what a running request *)
(* knows of the committed rows, and what its row locks protect.            *)
(***************************************************************************)
\* The status is what the last commit with a workflow event wrote.
StatusIsLastEvent ==
  \A l \in Loans :
    status[l] = IF events[l] = <<>> THEN "draft" ELSE LastOf(events[l]).to

PendingTargets(r) == {r.pending[i].to : i \in 1..Len(r.pending)}

\* No stage of the screening path in a set of statuses of loan l without the
\* ones before it, and no officer decision without the analyst it needs.
StagesInOrder(l, statuses) ==
  /\ "under_review" \in statuses => "submitted" \in statuses
  /\ "needs_more_info" \in statuses => "under_review" \in statuses
  /\ "ai_risk_analysis" \in statuses => "under_review" \in statuses
  /\ "fraud_screening" \in statuses => "ai_risk_analysis" \in statuses
  /\ statuses \cap PastScreening # {}
       => {"fraud_screening", "officer_review"} \subseteq statuses
  /\ (\A p \in Policies : AnalystRequired(p, Amount[l]))
       => (statuses \cap {"approved", "rejected"} # {}
             => "analyst_review" \in statuses)

\* What a request has read or flushed: a status the loan has committed or
\* the request itself is about to, a chain of legal steps out of it.
ReadIsGrounded(s) ==
  LET r == request[s]
      known == Reached(r.loan) \cup PendingTargets(r) IN
  /\ r.seen \in known
  /\ r.pending # <<>> => LastOf(r.pending).to = r.seen
  /\ r.phase \in {"read", "cleared"} => r.pending = <<>>
  /\ StagesInOrder(r.loan, known)
  /\ Chained(r.pending, Reached(r.loan))

\* A disbursement that has written its rows holds an approved loan.
DisbursementHolds(s) ==
  LET r == request[s] IN
  r.op = "disburse" /\ r.phase = "flushed" =>
    /\ r.pending # <<>> /\ r.seen = "active"
    /\ status[r.loan] = "approved" /\ ~disbursed[r.loan]

\* A repayment that has allocated its amount holds the balance it read, and
\* closes the loan when it pays all of it.
RepaymentHolds(s) ==
  LET r == request[s] IN
  HoldsInstallments(s, r.loan) =>
    /\ disbursed[r.loan]
    /\ r.base = allocated[r.loan] /\ r.base + r.amount <= Due[r.loan]
    /\ r.amount > 0
    /\ r.phase = "allocated" => r.base + r.amount = Due[r.loan]
    /\ r.phase = "flushed" /\ r.base + r.amount = Due[r.loan]
         => r.pending # <<>> /\ r.seen = "closed"

\* What an approval knew of: blocking alerts, dismissed once it is cleared.
KnownAlerts(s) ==
  LET r == request[s] IN
  \A a \in r.known :
    /\ r.op = "approve"
    /\ alerts[a] # NoAlert /\ alerts[a].severity \in Blocking
    /\ alerts[a].loan = r.loan
    /\ r.phase # "read" => alerts[a].status = "dismissed"

\* A loan row and the installments of a loan have one holder.
RowLocksExclude ==
  \A s, t \in Sessions, l \in Loans :
    \/ HoldsLoan(s, l) /\ HoldsLoan(t, l)
    \/ HoldsInstallments(s, l) /\ HoldsInstallments(t, l)
    => s = t

RequestsGrounded ==
  /\ \A s \in Sessions : Serving(s) => ReadIsGrounded(s)
  /\ \A l \in Loans : StagesInOrder(l, Reached(l))

LocksProtect ==
  /\ RowLocksExclude
  /\ \A s \in Sessions : Serving(s) => DisbursementHolds(s) /\ RepaymentHolds(s)

ApprovalsKnow == \A s \in Sessions : Serving(s) => KnownAlerts(s)

Inductive == AlertLocked /\ RequestsGrounded /\ LocksProtect /\ ApprovalsKnow

-----------------------------------------------------------------------------
(***************************************************************************)
(* Promises of the documentation: they hold when requests do not overlap,  *)
(* and the runs show which of them survive requests that do.               *)
(***************************************************************************)

\* The graph has no edge out of rejected or closed, and an illegal transition
\* does not mutate the loan (docs/LOAN_WORKFLOW_GOVERNANCE.md:16-17): what is
\* rejected or closed stays so.
TerminalIsFinal ==
  [][\A l \in Loans :
       status[l] \in {"rejected", "closed"} => status'[l] = status[l]]_status

\* What a client of the workflow may rely on when requests do not overlap:
\* one legal step after the other, and money out once.  trail is the loan's
\* commits read off its workflow events.
trail == [l \in Loans |->
            <<"draft">> \o [i \in 1..Len(events[l]) |-> events[l][i].to]]

StateMachine == INSTANCE LoanStateMachine WITH funded <- disbursed

FollowsStateMachine == StateMachine!Spec
==============================================================================
