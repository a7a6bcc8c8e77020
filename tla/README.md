# CreditIQ: models, model checks and proofs

TLA+ specifications of the parts of CreditIQ whose correctness depends on
*order*: requests that overlap in the database, guards checked on rows that
have moved on since, transactions that roll back half way, stages that see what
earlier stages left, replicas that crash between an answer and its record.  The models are
translated from `src/`; `PROJECT.json` maps each definition to the lines it
stands for, lists the runs, the mutants that show each property to be
breakable, the hazards and the theorems.

Run a check with `tlc -config LoanOrigination.cfg MCLoanLifecycle.tla`, a
proof with `tlapm LoanSafetyProofs.tla`.

## 1. The system

| Component | State it keeps | Operations | Talks to | What must be true of it |
|---|---|---|---|---|
| Loan workflow (`backend/app/modules/loan/{router,service,workflow}.py`) | `loan_applications.status`, `loan_workflow_events`, `loan_decisions` | create, submit, transition, analyze, decide | fraud, credit intelligence, organization settings, audit | only legal edges are taken; mandatory stages are not skipped; the stored rows lead to the status; decisions go through the analyst where the tenant says so |
| Loan servicing (`loan/servicing.py`) | `loan_disbursements`, `loan_installments`, `loan_repayments` | disburse, record repayment, arrears | loan workflow, products | money goes out once; no balance is paid twice; a paid loan is closed; the schedule repays the principal exactly |
| Loan products (`loan/products.py`) | `loan_products` | create, update, validate | loan creation | limits are ordered; codes are unique |
| Fraud cases (`fraud/service.py`) | `fraud_alerts` | list, read, resolve | loan decision | a disposition is terminal; approval waits for it |
| Credit intelligence (`credit_intelligence/`) | AI result rows | analyze | ML engine (HTTP), fraud alerts | an analysis is all there or not at all |
| Sessions and MFA (`identity/{service,router}.py`, `core/security.py`) | `refresh_tokens`, TOTP step of a user | login, challenge, verify, refresh, logout, switch tenant | every request | one live token per rotation chain; reuse revokes the family; a code is used once; a suspension ends sessions |
| Users and roles (`identity/service.py`) | `users`, `roles` | create, suspend, custom roles | sessions | a tenant keeps an administrator; nobody grants what he lacks |
| Request dependencies (`core/{deps,data_scope,rate_limit}.py`, `db/session.py`) | one transaction per request; Redis counters | permission, tenant scope, limit | all routers | a request commits whole or not at all; a caller sees its tenant |
| Organizations (`organization/`) | settings, branches | onboard, update | workflow policy | settings are valid when stored |
| Integrations (`integration/`) | API keys | create, revoke | -- | a revoked key is dead |
| Applicants and documents (`applicant/`) | profile, transactions, document rows and files | update, simulate, upload, download | ClamAV, file store | a row has its file and its scan |
| Schema (`backend/migrations/`, `db/{base,bootstrap}.py`) | tables, keys, policies, revision | upgrade, downgrade, check, seed | startup, `db/session.py` | a revision has one schema, but for flags without effect; every tenant table is isolated and usable |
| Audit (`audit/`), analytics (`api/`) | `audit_logs` | record, read | all | append-only; a change starts where the last one ended |
| Model operations (`ai-engine/.../model_operations/`) | registry document, artifacts, alerts | register, transition, promote, roll back | ML serving | one production version; the file is never torn |
| Decision engine (`ai-engine/.../decision/`) | none | recommend | preprocessing, models | approval only on complete data and two answers that warrant it |
| ML serving (`ml-engine/`) | loaded bundle, window of events in Redis | predict, monitor | registry artifacts, backend | outcomes are recorded once, in order; severities mean what they say |
| Preprocessing (`ai-engine/.../preprocessing/`) | what each stage learned | fit, transform | decision engine | labels stay with rows; requests get the training schema |
| Training (`ai-engine/.../credit_intelligence/`) | one job's trainers, results, reports | split, train, evaluate, compare, save, register | artifacts, registry | the champion registered is the one measured |
| Frontend (`frontend/src/lib`) | access token, refresh promise | call, refresh, logout | backend | one refresh for parallel 401s |

Every state-changing backend request runs in one PostgreSQL transaction at READ
COMMITTED (`db/session.py:23-40`) with an SQLAlchemy session that has
`autoflush=False` and an identity map.  What is hard in this system follows
from that line: the loan is read without a lock and never again
(`service.get_loan`), its `UPDATE` carries no version, so two requests may both
pass a guard on the same status and both commit.  Some operations defend
themselves with row locks (disbursement: `FOR UPDATE` and a re-read;
repayment: the installments; disposition: the alert), the others do not.

## 2. Plan

Most important behaviour first.

| # | Module | Contents | State |
|---|---|---|---|
| 1 | `LoanTransitions` | statuses, safety graph, tenant policy, ledger rows | done |
| 2 | `LoanLifecycle` (+ `MCLoanLifecycle`) | overlapping requests on loans, alerts and settings | done |
| 3 | `LoanStateMachine` | what the workflow promises; refined by 2 when requests on a loan do not overlap | done |
| 4 | `LoanLifecycleProofs`, `LoanSafetyProofs`, `LoanLockProofs` | type correctness, safety invariants, action properties, the refinement of 3 | done |
| 5 | `Amortization`, `LoanServicing` (+ `MCLoanServicing`), abstract `LoanAccount`, `LoanServicingProofs` | the schedule and its rounding; due dates; interest-first allocation over installments; external references under overlap; statements | done |
| 6 | `ModelLifecycle`, `ModelRegistry` (+ `MCModelRegistry`), abstract `ModelStages`, `ModelRegistryProofs` | lifecycle graph, promotion, rollback, read-modify-write of the file by threads and processes, crash around `os.replace` | done |
| 7 | `Sessions` (+ `MCSessions`), `SessionsProofs` | rotation, reuse detection and its rolled-back revocation, logout, one-time codes, enrolment, suspension, the frontend's single-flight refresh | done |
| 8 | `TenantSchema`, `TenantRecords` (+ `MCTenantRecords`), `RecordsProofs` | the migrations statement by statement; names, audited edits, simulated ledger, documents on the schema they lead to | done |
| 9 | `Preprocessing`, `DecisionPolicy`, `ModelTraining`, composed by `InferenceServing` (+ `MCInferenceServing`), `InferenceProofs` | the fitted pipeline and what it does to requests; the ordered rules of a decision; a training job; the replicated service | done |
| 10 | proofs about the fitted pipeline of 9 | a row's own label | done |
| 11 | the same for `SchemaHeld` | the training schema for every request | done |

Abstract specifications: `LoanStateMachine`, implemented by requests that do not
overlap on a loan; a
balance that only falls, `LoanAccount`, implemented by allocation over
installments; stages that change in one step, `ModelStages`, implemented by
write-and-replace.

Which module composes which: `LoanLifecycle` and `LoanServicing` are two views
of one loan (a schedule is a total in the first, the loan's status is `closed`
or not in the second).  `TenantRecords` extends `TenantSchema`: its
requests run at the head.  `InferenceServing` extends `Preprocessing`,
`DecisionPolicy` and `ModelTraining`.

## 3. The loan component

### State and actions

| Model | Code |
|---|---|
| `status`, `events`, `decisions`, `disbursed`, `allocated`, `repaid`, `analysed`, `alerts` | committed rows, reduced to what the properties tell apart: a schedule is one total `Due`, the installments' paid columns one sum |
| `policy` | `organization.settings["loan_workflow"]` |
| `request[s]` | the transaction of one handler: its operation, how far it has come (`phase`), the loan row in its identity map (`seen`), its flushed but uncommitted events (`pending`), the payment it has allocated (`amount` on top of `base`) |
| `request[s].known` | a history field, read by no action's guard: the blocking alerts committed when an approval began |
| `Begin` | the first `get_loan` of a handler: unlocked read of the committed row |
| `Flush` | one or several calls of `service.transition`: the policy check on `seen`, the event, the flush that waits for the row's lock and overwrites it |
| `Publish` | commit in `tenant_session` |
| `SubmitWrite`, `TransitionWrite`, `WorkflowCommit` | `POST /submit`, `/transition` |
| `FraudClearance`, `DecisionWrite`, `DecisionCommit` | `POST /decision` |
| `AnalysisStart`, `AnalysisRestart`, `AnalysisAdvance`, `AnalysisCommit` | `POST /analyze`; the ML call lies between the first two and the third |
| `DisbursementWrite`, `DisbursementCommit` | `POST /disburse` |
| `RepaymentAllocate`, `RepaymentClose`, `RepaymentCommit` | `POST /repayments` |
| `DispositionLock`, `DispositionCommit` | `POST /fraud/alerts/{id}/resolve` |
| `UpdateSettings` | `PATCH` of the organization's settings |
| `Refused`, `Fail` | a guard raises; the ML engine, the connection or the process fails: rollback of everything |

A request is cut into steps only where another one can make a difference: at
its first read, where it waits for a lock or reads other rows, and at the
commit.  Row locks are not variables: `HoldsLoan`, `HoldsInstallments`,
`HoldsAlert`, `HeldForUpdate` and `References` derive them from what a
transaction has flushed, with PostgreSQL's rules (an update of a non-key column
lets foreign-key inserts pass; `FOR UPDATE` does not).

Steps of one handler that hold the same lock throughout (both transitions of
`submit`, the two of a disbursement) are one `Flush` of a path: nothing can
come between them that either would notice.

### Runs

| Run | Behaviours | Shows |
|---|---|---|
| `loan_origination` | two overlapping handlers, one loan from draft, up to 6 requests, one alert, settings that alternate between "required" and a threshold the amount meets exactly | `TypeOK`, `LedgerExplainsStatus`, `EventsGrounded`, `NoStageSkipped`, `ClearanceHolds`, `AnalystGate`, `DispositionTerminal` |
| `loan_servicing` | two handlers under fairness, from an approved loan, up to 5 requests, balance 3, the analyst optional | `RepaymentsConserved`, `FullRepaymentCloses`, `DisbursedOnceFromApproved`, `RequestsEnd` |
| `loan_serial` | one handler, 8 requests: enough for the longest path from draft to closed; the analyst optional | `FollowsStateMachine` (refinement; the state machine's terminal statuses are final) |
| `loan_terminal_overwritten` | two handlers, from draft | **violated**: `TerminalIsFinal` |

Bounds.  One loan: requests share rows only through their loan (alerts and
installments belong to it), so a second loan adds no interleaving.  Two
sessions are the least that overlap; every property violated here is violated
by two, and the theorems cover any number.  Six requests take a loan from draft
through an analysis to a decision with two to spare for the overlap.  `Due` is
3 so that a payment may be first, middle or last.  `ApprovedInit` is the state
that submit, an analysis without an alert and an approval lead to.

Fairness.  `FairSpec` asks weak fairness of `Advance(s)`, what a running
handler does next: a free lock is granted and the ML client has a timeout
(`ml_engine_timeout_seconds`).  Nothing is asked of `Begin`, `Fail` or the
investigator's choice of a disposition.  `CHECK_DEADLOCK FALSE`: a behaviour
ends when its `MaxRequests` are used up.

### What the runs show

* **A terminal status is overwritten.**  Two handlers read `officer_review`;
  one rejects and commits, the other's approval passed the graph check on the
  same status and overwrites it.  `docs/LOAN_WORKFLOW_GOVERNANCE.md:16-17`
  promises that an illegal transition does not mutate the loan.  The stored
  rows still lead from draft to the status (`LedgerExplainsStatus`), and every
  event starts from a status that was once committed (`EventsGrounded`), but not
  from the last.
* **The ledger has no order of commits.**  `events` keeps it, as a history; the
  table does not.  `created_at` is `now()`, the start of the transaction
  (`loan/models.py:71`), one value for the rows of a request, and
  `workflow_history` sorts by it (`service.py:192-201`).  When the
  request that began first commits last, its row is listed before the one it
  overwrote, and the last row shown is not the status.  Where requests overlap the
  order of `events` is therefore nothing a reader of the table could check, and
  `LedgerExplainsStatus` speaks of the rows as a set (`Ledger`): it says
  what they show whichever way they are sorted.
* **`POST /transition` is a way round.**  It accepts every edge of the graph, so
  serial requests too disburse a loan that nobody decided on and no analysis
  screened, which `docs/ARCHITECTURE.md:449` rules out, past an open blocking
  alert (only `decide` calls `ensure_fraud_clearance`) and without contract or
  schedule.  `LoanStateMachine` has these steps: it promises what the code does.

### Proofs

From `LoanAssumption` (settings are valid settings, amounts and totals are
positive), for any number of loans, sessions, alerts and requests.

| Theorem | Says |
|---|---|
| `TypeCorrect` | `Spec => []TypeOK` |
| `LedgerExplains`, `EventsAreGrounded`, `StagesAreMandatory`, `AnalystIsNotBypassed` | the ledger and stage invariants |
| `RepaymentsAreConserved`, `FullRepaymentIsClosed`, `DisbursedOnce` | what the row locks protect |
| `ClearanceIsSound`, `DispositionsAreTerminal` | what the alert locks protect |
| `RequestsApartFollow` | `Spec /\ []RequestsApart => FollowsStateMachine`: while no two requests run on one loan, the backend implements `LoanStateMachine` |
| `SerialRequestsFollow` | the same of a single session, which is what the run checks |

The argument.  None of the invariants is inductive: each depends on what
running requests know and hold.  `Inductive`, which TLC found to hold on the
instances of the runs before it was proved, adds

* `RequestsGrounded`: what a request has read was once committed, its pending
  events are a chain of legal steps out of that, and the statuses committed
  together with its own respect the order of the stages (`StagesInOrder`), so
  stages stay in order however commits overwrite each other;
* `LocksProtect`: a loan row and the installments of a loan have one holder,
  a disbursement that has written holds a loan still approved, and a repayment
  that has allocated holds the balance it read;
* `ApprovalsKnow` and `AlertLocked`: blocking alerts known to a cleared
  approval are dismissed, and an alert under disposition is open and held once.

`LedgerExplains` takes the order back out: `StatusIsLastEvent` and `EventsGrounded`, about
the history, are inductive, and a set of statuses that has draft and is
closed under the rows has every status reached, since the first event that
wrote one outside would have come from inside (`ClosedReaches`).

`LoanSafetyProofs` first sorts the steps into kinds by what they do to the loan
row (a read, a flush, a publication, nothing), and shows each conjunct survive
each kind; `LoanLockProofs` does the same for locks and balances.  Temporal
steps are PTL over these.

The refinement needs more than `Inductive`, which only says that a request's
events start from *some* status the loan had.  `PathInvariant` says what is true
when nobody else writes the loan: the targets a request has flushed are one of
the machine's paths out of the status that is committed *now*, none before
its first flush.  `PathAdvances` shows each step of a handler keep that, so that a
commit is a `Walk` (`CommitWalks`), and with `DisbursementHolds` that of a
disbursement is `Fund`.  `RequestsApart` is a hypothesis about behaviours, not
about the code: overlapping requests break it, and `loan_terminal_overwritten`
shows what the machine then loses.

Model-checked only: `RequestsEnd` (liveness).

## 4. Servicing

`LoanLifecycle` sees a schedule as one total.  `LoanServicing` opens it up:
installments with principal and interest, due and paid, and repayment rows with
their external references.  In turn a disbursement is one step here, and of the
loan's status only `closed` is left.

### State and actions

| Model | Code |
|---|---|
| `contract` | `loan_disbursements`: principal in cents, months, monthly rate as a fraction, first due date |
| `schedule`, `paid` | `loan_installments`: the due and the paid columns |
| `repayments` | `loan_repayments`, in commit order |
| `request[s]` | a repayment (its copy `work` of the locked rows, the installment `next` in the loop, what is `remaining`) or a statement (the rows it has read) |
| `BuildAmortizationSchedule`, `Money`, `AddMonths` | the functions of those names in `servicing.py`; exact fractions where the code computes with 28 digits |
| `Disburse` | `create_disbursement` |
| `BeginRepayment`, `CheckReference` | the unlocked reads of `record_repayment`: the loan, a duplicate reference |
| `LockInstallments` | `SELECT ... FOR UPDATE` and the guards of `allocate_repayment` |
| `AllocateNext` | one round of its loop |
| `InsertRepayment` | the flush: waits while another transaction's uncommitted row has the reference (`InFlight`), fails once a committed one has (`Recorded`) |
| `CommitRepayment` | the commit, which closes the loan if the payment was the whole balance |
| `BeginStatement`, `ReadRepayments`, `Reply` | the two SELECTs of `servicing_data` and the answer |
| `Refused`, `Fail` | a guard or the unique constraint raises; the connection or process fails |

### Run

`loan_repayments`: two handlers under fairness, two loans, one reference, up to 3
requests, amounts of nothing, a cent and 5 cents.  The first loan is offered on
four terms (no interest and a remainder; more months than cents; ten percent a
month; 100 percent a year, the most the schema takes, over four months), so that
the last installment takes up a remainder, early ones are empty, and one payment
ends within an installment or spans several; the second exists to meet
the first one's reference.  Due dates run from a 31st over a year's end to a 29
February.  Three requests are two that overlap and one before or after them.

| Property | Says |
|---|---|
| `AllocationInOrder` | oldest installment first, interest before principal, nothing beyond its due |
| `ReferencesUnique` | a reference is recorded once, although both requests find none before they insert |
| `ScheduleReconciles` | principal adds up exactly, interest never rises, due dates ascend |
| `StatementBounded` | a statement read around a payment counts at least the payments its installments show, and never more than is due |
| `ImplementsAccount` | the rows implement `LoanAccount`: what is owed falls by what is received, and the loan closes at zero |
| `RequestsEnd` | no circle of installment locks and uncommitted references |
| `TypeOK` | no amount due or paid is negative |

Fairness is that of section 3: `Advance(s)`, a free lock is granted.

### Proofs

`LoanServicingProofs`, for any loans, contracts, sessions, references and
amounts, from `ServicingAssumption` (amounts are natural numbers, no reference is
the absent one) and `ScheduleAssumption` (the terms offered are `Terms`: positive
principal and months, a rate that is a fraction of natural numbers, a date).

| Theorem | Says |
|---|---|
| `ServicingTypeCorrect` | `Spec => []TypeOK`: nothing due or paid is negative |
| `ScheduleAmortizes` | of all terms: the schedule of `build_amortization_schedule` has an installment a month, none with a negative amount, on balances from the principal down |
| `LocksProtectAllocation` | `[]Inductive`: what the row locks keep true of the loop |
| `AllocationIsInOrder`, `ReferencesAreUnique` | `AllocationInOrder`, `ReferencesUnique` |
| `SchedulesReconcile` | `[]ScheduleReconciles` |
| `StatementsAreBounded` | `[]StatementBounded` |
| `ServicingImplementsAccount` | `Spec => ImplementsAccount`: the rows refine `LoanAccount` |

*The schedule.*  The code never checks that the level payment covers the
interest, and it must: otherwise principal would be negative.  `PaymentCovers`
shows that it does, rounding to cents included, for every rate and length
(`PowersGrow`: a compounded rate outgrows the simple one), whence
`PrincipalIs` and `ScheduleAmortizes`; the last installment's remainder makes the sum
exact (`PrincipalsAddUp`).

*Induction.*  The library's induction theorems take an operator as a parameter,
which no installed prover can instantiate.  Where induction over the months or
the installments is needed, `Power`, `SumOf` and the schedule's balance are
recursive functions; `Recursion` shows that a function so defined exists and
obeys its equation, and `Induction` is the least-counterexample principle
for a *set* of numbers, which each lemma instantiates with its own.

*The allocation.*  `AllocationInOrder` is not inductive: the rows are written from
a copy.  `Inductive` follows the loop (`Loop`): while money remains, everything before
`next` is settled in the copy; from `next` on the copy is what the database
has, which `LocksExclude` keeps true.  `InsertsUnique` gives an inserted and not
yet committed row its reference.  `OneRequest` carries all of it over the steps
that change one request only; `Round` is the arithmetic of one installment.

*The sums.*  `LedgerInvariant` adds: a loan has the schedule of its contract
(`Scheduled`); its installments show what its repayments add up to, all of it once
it is closed (`Kept`); what a repayment has taken off its amount is what it has
put into its copy (`Counted`); a statement has read installments no newer
than the repayments it counts (`Told`).  `ServicingImplementsAccount` follows step by step:
`DisburseOpens`, `CommitIsAPayment`, and no other step moves what is owed.

Model-checked only: `RequestsEnd` (liveness).

Left out: `paid_at` (every later payment rewrites that of the installments
already settled), days past due and overdue amounts, the choice of the rate.

## 5. The model registry

### State and actions

| Model | Code |
|---|---|
| `document` | the JSON file: the stage of each version and the audit events; a version that is not in it is `created` |
| `call[c]` | what a thread is doing: asked, its reads made (`checked`, `ready`), or under the lock with the `snapshot` that `_read` returned |
| `ProcessOf` | the process of a thread; one process has one `FileModelRegistry`, so its threads share the `RLock` |
| `MeetsFloors`, `Regressions` | what the policy makes of the versions' metrics, which never change once registered |
| `Ask` | a call of `register`, `transition`, `PromotionService.promote` or `RollbackService.execute` |
| `CandidateRead`, `IncumbentCompared` | the two unlocked reads of a promotion, with the policy |
| `SourceRead` | the unlocked read of a rollback |
| `Lock` | `with self._lock: state = self._read()` |
| `Register`, `Transition`, `Promote`, `Rollback` | the guards on the snapshot, the audit event, and `os.replace` of the whole document |
| `Fail`, `Crash` | a guard raises, the write fails, a process dies: the file is as it was |

Between `_read` and `os.replace` a caller touches nothing others see, so the
two are the steps; whoever replaces the file last wins.  Readers only
(`list_versions`, `audit_events`) are left out.  An audit event names a model by name and
version, which among the run's versions of one model says what the full reference does.

### Runs

| Run | Behaviours | Shows |
|---|---|---|
| `registry_threads` | two threads of one process, two governed versions and a newcomer, 3 calls | `UniqueProduction`, `AuditExplains`, `ProductionEarned`, `AuditGrows`, `LifecycleSteps` (the steps of `ModelStages`) |

Bounds.  Three versions of one identity are an incumbent and two rivals;
versions of other identities share only the file.  `GovernedInit` is where one
caller leads: every version but the newcomer a champion, one promoted.  Two callers
overlap, and a third call lets one lost update meet another change; the
theorems cover any number, and several processes.  `CHECK_DEADLOCK FALSE`: calls run out.  Callers of
one instance are interchangeable, hence the symmetry.  No fairness is
assumed: nothing here waits but for a lock that a `with` block releases.

### What the checks leave standing

* **The check is outside the lock.**  A promotion compares its candidate with an
  incumbent that another thread replaces before the locked promotion, and the
  candidate then displaces a version it was never compared with.  The check of
  a rollback's source lies outside the lock as well.  Without overlap neither
  goes wrong, which is proved (`PromotionIsBounded`, `RollbackLeavesItsSource`)
  and no run repeats.  `docs/MODEL_SERVING_OPERATIONS.md:30` forbids concurrent
  writers; the lock and the two services read as if threads were allowed.
* **The history of a rollback.**  The event says the restored version moved from
  `production` to `production`; it was a champion.

The policy guards `PromotionService` alone: `transition` lets a champion into
an empty production, and a rollback lets one replace the incumbent, without it.
No text promises otherwise, so `PromotionBounded` speaks of promotions.

### Proofs

`ModelRegistryProofs`, from `RegistryAssumption`, for any versions, identities,
callers and numbers of calls.

| Theorem | Under | Says |
|---|---|---|
| `ProductionIsUnique`, `AuditExplainsStages`, `ProductionIsEarned` | any processes | `UniqueProduction`, `AuditExplains`, `ProductionEarned` always hold |
| `AuditOnlyGrows`, `LifecycleStepsAreLegal`, `ImplementsLifecycle` | one process (`OneProcess`) | `AuditGrows`; `LifecycleSteps`; the registry implements `ModelStages` from the empty file on |
| `PromotionIsBounded`, `RollbackLeavesItsSource` | one caller (`OneCaller`) | `PromotionBounded`, `RollbackLeavesSource` |

Nothing can be said of the file alone: a process may replace it by what it made
of a snapshot long out of date.  So `Inductive` asks the same of every
snapshot in flight as of the file (`Sound`), and `WrittenIsSound` shows that one
event appended together with the stages it accounts for keeps a document sound.
With one process, `SnapshotIsCurrent` (a held lock means the snapshot is the
document) turns what is written into a step of the file itself; with one
caller, `DecisionsStand` carries what a service has read up to the write.

## 6. Sessions

### State and actions

| Model | Code |
|---|---|
| `users`, `tokens` | committed rows: status and second factor; refresh tokens with whether they are revoked |
| `tokens[t].family`, `.late`, `accepted` | history, read by no guard: the login a token descends from, whether a suspension could see it, the codes accepted |
| `request[h]` | one handler's transaction: what it read, what its UPDATE has written |
| `tab`, `cookie` | `api.ts` and `auth.tsx`: the shared promise and who waits for it, the access token, the challenge; the browser's one cookie |
| `Login`, `Verify`, `Refresh`, `JoinRefresh`, `Logout`, `Enrol`, `SetStatus` | a request and its first reads |
| `ReadToken`, `ReuseDetected`, `ReadUser` | `refresh_tokens`, statement by statement; reuse raises, and `admin_session` rolls back |
| `Decide`, `StatusWrite`, `StatusCommit` | `update_user_status`: the count, the UPDATEs of the user and the tokens with their locks, the commit |
| `IssueCommit`, `LogoutCommit`, `EnrolCommit`, `Fail` | commits, which wait for the rows a status update holds; rollback |
| `Deliver`, `Lose`, `Tick` | the answer arrives or not; the next time step of one-time codes |

### Runs

`identity_sessions`: two handlers, one tab, an administrator and a manager, three
requests, codes of up to two time steps, from nobody signed in or from a
session; under weak fairness of `Step(h)`: a handler goes on or fails, because
its client has a timeout, and the browser learns of it.  Three requests are a
session and two that overlap.

| Property | Says |
|---|---|
| `FamilyLinear` | a login has one live token |
| `SuspensionReaches` | what is live of a disabled user's tokens was issued on a status read before the suspension had committed |
| `AdministratorLeft` | an administrator stays active |
| `CodesAdvance` | no code is accepted twice, and a second factor in force was confirmed by a code of its own secret |
| `CallersAnswered` | callers that wait for a refresh are answered (liveness) |

`identity_reuse` is **violated**: `ReuseRevokes`.  A refresh that finds its token used
revokes all sessions of the user and raises in the same transaction, so the
revocation is rolled back.  `docs/ARCHITECTURE.md:574` promises it.

What the properties do not say, because the code does not do it:

* `FamilyLinear` rests on the browser.  Two tabs, or a retry after a connection
  that dropped while its handler still ran, present one token twice; its row is
  read without a lock and both rotate it.
* `CodesAdvance` and `AdministratorLeft` are stated for requests of their kind
  that do not overlap (`Alone`): neither the last step nor the count of
  administrators is read under a lock.  The count also looks only at the
  status `disabled`; setting the last administrator back to `invited` passes.
* `StatusLabelled`.  The router reads `.value` of a status the column type loads
  as plain text (`identity/router.py:391`), which raises; the run assumes the
  label is there, so that there is a suspension to check.  `identity_reuse` does
  without.

### Proofs

`SessionsProofs`, from `SessionsAssumption`, for any users, tabs, handlers and
numbers of requests and time steps.

| Theorem | Under | Says |
|---|---|---|
| `SessionsTypeCorrect` | | the type invariant, with what each operation carries in each phase |
| `SuspensionsReach` | | `[]SuspensionReaches` |
| `FamiliesAreLinear` | one tab (`OneTab`) | `[]FamilyLinear` |
| `AnAdministratorIsLeft` | an administrator exists | `[]AdministratorLeft` |
| `CodesOnlyAdvance` | | `[]CodesAdvance` |

None is inductive; each has its invariant.

* `SuspensionInvariant`: a request that is about to issue a token and not marked
  `late` has a user who is not disabled (`LateInFlight`); tokens that came behind
  the UPDATE of a suspension not yet committed are marked (`LateBehindUpdate`).
* `FamilyInvariant`: a refresh in flight is the only one, its tab's promise being
  set (`RefreshShared`, hence one tab), and after its reads it rotates the only token of its
  family that may be live (`RotatesNewest`); a family is named by a token no
  newer than its members (`FamiliesBounded`), so a login starts one of its own.
* `AdministratorInvariant`: status requests do not overlap (`OneStatusRequest`,
  which `Alone` asks of the environment), so whom a suspension counted on is
  still active when it commits (`DecidedSafely`).  `IsFiniteSet(Users)` is
  what lets the count be reasoned about.
* `CodesInvariant`: a row remembers the last step accepted with its secret
  (`StepRemembered`), a request about to commit has a code of that secret and
  a later step (`CodeStillGood`), or a secret of which no code was ever accepted
  (`SecretStillFresh`).

Model-checked only: `CallersAnswered` (liveness).

## 7. Schema and records

`TenantSchema` is the chain of revisions as sequences of statements over a set
of objects: tables, foreign keys, later columns and constraints, policies, and
of each table whether row-level security is enabled and forced.
`Command` starts an Alembic command of one or more revisions, at any time, `Execute` runs a statement,
`Migrated` and `RolledBack` end its transaction, `SeedTenant` and `SeedRecords` are the two
transactions of the seeding, `Serve` the startup check.  Rows are not in the
model: a statement that is refused for the rows it finds (the unique constraints
of 76f511ab91c2, a02dac7c6b35 and d62f9f6b2071 on keys that repeat, or d62f9f6b2071's
SET NOT NULL) is a `RolledBack`, which may come at any statement.  `Classes` is the other
account of the schema, that of the mapped classes (`db/all_models.py`): tables,
foreign keys and, of the rest, what came after the first revision.  `TenantRecords` has what two handlers do
then.

| Model | Code |
|---|---|
| `named`; `CreateBranch`, `CreateProduct`, `CreateRole`, `CreateUser`, `RenameRole`, `Write`, `Commit` | the unlocked look, the normalisation, the unique constraints and the locks of an uncommitted key |
| `record`, `audit`; `Update...`, `Read`, `WriteEdit`, `CommitEdit` | a snapshot for the audit (under a lock for a profile), then an UPDATE of the columns that differ |
| `wallet`; `Simulate`, `CommitSimulate` | count, delete and insert of `simulate_transactions` |
| `documents`, `files`; `Upload`, `Store`, `Flush`, `CommitDocument` | the scan, the temporary file and its rename, the row, and the cleanup of a failed flush |

`tenant_records`: every way up and down the chain from the empty database and
up to the head, failures and restarts of the seeding included, also while an instance serves;
then, from the head and with no further command, two handlers, two
requests (three when the last inserts), three names of which two differ in
case and one is a system role's, patches of one limit and of both.

| Property | Says |
|---|---|
| `NamesDistinct` | no two rows go by one name, codes and roles in any case, and no role by a system role's |
| `AuditChains` | the audited changes of a row start where the last one ended: always for profiles, for other rows without overlap |
| `OneAtATime` | limits stay in order and a simulation replaces the last, without overlap |
| `RowHasFile` | a document row names a whole file |
| `MigrationsReversible` | no command meets a statement PostgreSQL refuses for what the schema has or lacks; a revision has the schema its upgrades build, but for flags a downgrade leaves (below) |
| `ServedAsMapped` | at the head, however reached, are the tables, references and later columns of the mapped classes, and every tenant table is enabled, forced and under exactly one policy |

The downgrade of c3094e1cde73 drops the policies and disables row-level
security, but does not take back its FORCE: the initial revision reached by a
downgrade has 22 tables that are still forced, one reached from the base has none
(`LeftBehind`).  The flag says nothing while row security is disabled, and the next upgrade
sets it anyway; it is the only trace that a way through the chain leaves.

`schema_policies` is **violated**: `PoliciesReadTheTenant`.  The policy of
`ai_decision_recommendations` reads `app.current_org_id`; sessions set
`app.current_org` (`db/session.py:3`, `:31`).

Overlap is excluded (`Alone`) only where nothing in the code excludes it and
the property then fails: `update_product` validates an unlocked snapshot, two
simulations each delete what they see.  No fairness is assumed: there is no
liveness property.  A file without a row may remain after a failed commit;
a tenant without records after a crash between the seeding's transactions.

### Proofs

`RecordsProofs`, from `RecordsAssumption` (upper case is idempotent; patches are of
known fields), for any names, patches, handlers and numbers of requests.

| Theorem | Says |
|---|---|
| `RecordsTypeCorrect` | the type invariant, with what each handler has computed by each phase |
| `NamesStayDistinct` | `[]NamesDistinct` |
| `AuditsChain` | `[]AuditChains` |
| `OneAtATimeIsSafe` | `[]OneAtATime` |
| `RowsHaveFiles` | `[]RowHasFile` |

They are about requests that run at the head, after the last command of Alembic
(`asked = 0` in `Next`): what a downgrade does to stored rows is not modelled.

* Names: what is committed is distinct by key (`KeysDistinct`) and normal
  (`NamesNormal`), and so is what requests hold: an uncommitted key is one
  request's and no other row's (`KeysHeld`).  The proof does not use the unlocked look: it
  saves an exception, the constraint is what counts.
* Edits: `EditInvariant` says that the snapshot of a request that will commit is the
  row (`SnapshotsFresh`), since of a profile one request at most holds the lock
  (`OneProfile`) and of the rest one at most runs (`OneAlone`).  `ChainInvariant`
  states `AuditChains` from the end of the ledger, the row being its last
  state, which `ChainGrows` extends by one change; `LimitsInvariant` and
  `WalletInvariant` carry the limits and the batches a request has seen.
* Documents: no two uploads, and no upload and row, share a number
  (`NumbersDistinct`); a request that has stored its file still has it
  (`FilesStored`), although the cleanup of another removes files.

Model-checked only: `MigrationsReversible` and `ServedAsMapped`.  They speak of the
one chain of migrations there is, without a parameter, and the run explores all of
its states: a proof would say no more.

## 8. Inference, training, serving

`InferenceServing` extends three modules.  `stage` says which part a behaviour
is of: a pipeline being fitted (`clean` to `trained`), the `service`, or `training`
jobs.  The three share no state in the code either: the service is deployed
without a pipeline, and jobs run elsewhere.

| Module | Model | Code |
|---|---|---|
| `Preprocessing` | `frame` (columns, rows, types by column), `fitted`, `FitClean` ... `FitSelect` | `PreprocessingPipeline.fit_transform`, a stage at a time; the cleaners, imputers, outlier bounds, encodings, scalers, selections it is configured with |
| | `Transformed` | `transform`: every stage of a request's frame of one row |
| | `pairs` | history: the owners of a row and of the label used for it |
| `DecisionPolicy` | `Decision`, `Recommend`, `CreditBand`, `FraudLevel` | `DecisionEngine.decide`, the rules of `policy.py` in their order, score and bands |
| | `Earned` | the reference: approval on complete data, a credit band that recommends it and a fraud level that does not block |
| `ModelTraining` | `job`, `Split` ... `Register`, `Abandon`, `Load` | `CreditTrainingOrchestrator.run`, `TrainingPipeline.run`, the comparison, `ArtifactStore`, the registration |
| `InferenceServing` | `Infer` | `EnterpriseInferenceEngine.infer`: validation, pipeline, models, decision |
| | `call`, `loaded`, `Admit`, `Send`, `Predict`, `Break`, `Report`, `Answer`, `TimeOut`, `Crash`, `Startup` | a call at the backend (rate limit, `MLClient`) and at the replica (`CanonicalRuntime`) |
| | `window`, `reported` | the list in Redis; history: all events that reached it |

Values.  A cell is a number, a word (from `Text` on) or `Missing`, which is neither: no
arithmetic of a stage makes a gap.  A mean or a median is the
middle value of the column, the half width of the interval outside which outliers
lie is one of `Widths`, and what a selection keeps is chosen nondeterministically: what
matters later is whether a gap is filled, a row dropped, a column made or left
out.  Probabilities are five points of an ordered scale, each in another band of
`base.yaml`.

### Runs

`inference`: five pipelines (that of `base.yaml`, and others the configuration
schema admits: outliers clipped or removed, each way to encode and select, two
to scale, rows dropped), fitted on every frame of three rows out of four with a
gap, a word with spaces and a missing-value token; seven requests with
gaps, words never seen, amounts and columns in another order or absent; a
replica that crashes and starts again, and three calls, a window of two events, a limit of one call; two training jobs over zoos with an
algorithm named twice, one whose library is missing and one path for all
artifacts.  Bounds: three calls overlap or follow each other, and in a window of two
events their order shows and the third displaces the first; two jobs let one
overwrite the artifact of another.  The service's models fail or give one answer here; all answers
of the scale are those of `inference_severity`.  One replica has the steps that matter to the window, since
each outcome is one transaction of Redis whoever reports it; the theorems
are for any number.  Calls are interchangeable.

| Property | Says |
|---|---|
| `LabelsFollow` | a stage that learns from labels learns each row's own |
| `SchemaHeld` | a pipeline that answers gives the models the columns they were trained on, the requester's row or none, and no gap in a column filled at training |
| `ApprovalEarned` | where no configured fallback is an approval, approval is earned, in the library and in what the service answers: no failure, gap in a required column, timeout or missing fraud answer becomes one |
| `OutcomesReported` | the window is the end of what was reported, each call once; an answer was reported if Redis was there |
| `ChampionMeasured` | what is registered and loaded is the best eligible model, with its own result, measured on rows it was not fitted to |

`inference_severity` is **violated**: `ScreeningsAlert`.  `runtime.py:202` scores the fraud
probability of the decision as an anomaly once more; with one signal, weighed
by one half, a screening that is not low is reported as low, and the backend
raises no alert (`docs/FRAUD_CASE_MANAGEMENT.md:3`).

No fairness is assumed here: every property is a safety property.
`CHECK_DEADLOCK FALSE`: calls, decisions and jobs run out.

What the properties do not say:

* `LabelsFollow` speaks of frames of which the cleaners kept every row.
  `DuplicateRemover` numbers the remaining rows anew, and selection then looks
  labels up by the new numbers: after a dropped row they are another row's.
* `ApprovalEarned` is silent where a fallback (`on_fraud_failure` and its like) is
  configured as `approve`; they are plain strings (`DecisionConfig`), `base.yaml`'s are `manual_review`.
* A gap outside `required_features` that no imputer had a value for goes to the
  credit model, which `_predict` calls as it is: four of the five algorithms of
  `base.yaml`'s zoo take a gap and answer, so a row with one may be approved.
  The model lets a model answer on any row, or fail.
* A model may answer NaN.  `_clamp01` turns it into 0.0, the best score there is,
  and `Earned` counts it as that: nothing in the code refuses it.
* Imputation precedes the completeness check, so a gap that was filled is not
  one (`inference/engine.py:60`); `ApprovalEarned` speaks of the row as the models see it.
* A replica serves the version it loaded at startup; promotion does not reach it.
* `ArtifactStore.load` verifies a file and opens it again; the model does both in
  one step.  Its comparison requires an eligible model, the default of
  `ModelComparisonService.compare`.

### Proofs

| Theorem | Says |
|---|---|
| `InferenceProofs.ApprovalsAreEarned` | `Spec => []ApprovalEarned` |
| `InferenceProofs.OutcomesAreReported` | `Spec => []OutcomesReported` |
| `InferenceProofs.ChampionsAreMeasured` | `Spec => []ChampionMeasured` |
| `InferenceProofs.LabelsAreFollowed` | `Spec => []LabelsFollow` |
| `InferenceProofs.SchemaIsHeld` | `Spec => []SchemaHeld` |

for any pipelines, frames, requests, replicas, calls, retention, zoos, splits
and numbers of jobs, from the modules' assumptions (retention is positive; scores are integers; a
configuration has the fields of `Default`, a list of columns, a list of encodings and a
list of steps whose cleaners are registered; a training frame is a list of rows, and
rows and requests have a value or a gap in each of their columns; `Missing` is not a number;
synonyms are words, and an amount is read as a number or not at all).

`ApprovalsAreEarned`, with its hypothesis on the fallbacks: `DecisionEarned` shows that the ordered rules approve only what
the declarative `Earned` allows; an answer of the service is a decision of the
call's own fields, and the library's decisions are kept as they were made (`EarnedNext`).

`OutcomesAreReported` is not inductive.  `ServingInvariant` adds what a call's
phase says of the history: a call that has not come to its report is in no event
(`SilentUnreported`), one that knows of a recorded success has its event
(`TellsTruth`), and the window is the end of the history by length
(`Latest`), which append-and-trim preserves (`TrimmedLatest`).  Steps are sorted into
those that leave the history alone (`QuietStep`), and `ReportStep`.

`ChampionsAreMeasured` follows a job (`TrainingInvariant`): every trainer kept
was fitted on the training part by one of the results (`TrainersFit`), which need not be the
only one of its algorithm; reports follow results (`ReportsFollow`); the
comparison's demand that names differ makes the champion's result the only
one of its name (`ChampionSelected`, `RegisterStep`); the file is the
champion's until the job ends (`Filed`), and a loaded one has the checksum
registered.

`LabelsAreFollowed` needs what the frame has become (`FittingInvariant`): while the
cleaners have kept every row, each row's index label is one of the training
frame and the row is that label's; and as long as there are as many rows as there
were, a row's label is its position, which is what target encoding relies on.  Its lemmas
relate the frame before and after a stage.  `Same`: each row in its place, its cells
apart (`RefilledSame`, every stage that computes cells).  `Some`: rows of the frame before,
all of them when as many (`SiftedSome`, from `NthKept` and `SiftedOf` about
taking elements of a sequence out).  `Fewer`: the same, but possibly numbered again,
which is what a cleaner does (`CleanerFewer`).  A sequence of cleaners is defined by
recursion over the configured steps: `CleanedExists` shows by induction
that the frames in between exist, `CleanFewer` that the last is `Fewer`.  Then
`StagesSome` and `StageStep` take care of every stage but the first, `CleanStep` of that one.

`SchemaIsHeld` relates two runs of the same six stages, long apart: the fitting, which
fixes `fitted.trained`, and a request's, on other rows.  What they share is in
`SchemaInvariant`, which `inference`'s states satisfy too:

* `FrameMade`: up to encoding the frame has the configured columns; after it, those
  `EncodedColumns` makes of them with the categories learned (`MadeOf`), which are
  the columns trained on unless a selection chose some.
* `Learned`: what fills a column is a value, ends of intervals and centres are numbers,
  categories are lists, maps give numbers.  Without this a treated or a
  scaled cell could be a gap again.
* `Prepared`: the lists of the configuration.

The argument goes by stage.  `Table`: every row has a value or a gap in every column.  A
stage that computes cells or takes rows out keeps a table a table with its columns
(`Keeps`: `CleanerKeeps`, `ImputedKeeps`, `TreatedKeeps`, `ScaledKeeps`), and those after
imputation leave no gap where there was none (`Full`).  That a statistic is a value
of its column needs that there is a most frequent value and a middle one (`ModeOf`,
`StatisticOf`, from `ExtremesOf`).  Encoding changes the columns: `ColumnsOf` says which it
makes, by induction over the configured encodings (`JoinedExists`), and
`MadeAlike` that the order of a request's columns does not matter to their set;
`EncodeMakes` that each has a value in every row.  `TransformedMakes` puts the
stages together for one request; `SchemaCleaned` to `SchemaSelected` take the stages as
they are fitted.

Every safety property of `inference` is proved.

## 9. Not modelled

Left out of the loan component: the branch and applicant scope of a caller and
his permissions (they only refuse); audit rows (one insert in the caller's
transaction); scores, explanations and recommendations (data); loan creation
(its result is the initial state); reads.  Of servicing: `paid_at`, which every
later payment rewrites for the installments already settled, arrears, the
choice of the rate.

Left out of model operations: alerts, experiments, drift and lineage; two
registries opened on one path by one process, which share a temporary file's
name and no lock.

Left out of identity and records: switching tenants, permission sets of roles,
closing a branch, revoking an API key (each one flag or row); derived ratios
of a profile, which six SELECTs at READ COMMITTED may read torn; column types,
grants and plain indexes of the schema.  Of the migrations, what they do to rows:
the codes that d62f9f6b2071 gives to stored products (an UPDATE, which a role
under forced row-level security without a tenant would not see through), the
permissions that 92c61cc1938f and e67c019a10b4 insert and delete, what a
downgrade drops; and requests served while a command changes the schema under
them.

Left out of the AI engine: the Boolean and date normalizers, generated
features, calibration, search, explanations, the multi-signal fraud score and
the analyses behind it; the crash between an artifact of a pipeline and its
manifest (`preprocessing/serialization.py:52-61`), after which the file is there without
its checksum and cannot be loaded.  Of the service: the expiry of the window and
the thresholds of its alerts.

Not planned: analytics and reports (read-only), pages and deployment files.
