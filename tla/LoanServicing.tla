---------------------------- MODULE LoanServicing ----------------------------
(***************************************************************************)
(* Servicing of disbursed loans: the schedule, the repayments with their   *)
(* references, their allocation to the installments, and the statement     *)
(* (servicing.py).                                                         *)
(*                                                                         *)
(* As in LoanLifecycle a request is one READ COMMITTED transaction, cut    *)
(* where other requests can run: after the read of the loan, after the     *)
(* check for a duplicate reference, at the lock of the installments and    *)
(* at the flush of the repayment row, which waits while another            *)
(* transaction holds an uncommitted row with its reference, and fails once *)
(* a committed row has it.  The loop over the locked installments          *)
(* is one step per installment, in the request's own copy of the rows.     *)
(* The row lock of the loan and the statuses around servicing are modelled *)
(* in LoanLifecycle: here a disbursement is one step and a loan is open or *)
(* closed.                                                                 *)
(***************************************************************************)
EXTENDS Amortization

CONSTANTS
  Loans,          \* approved loans of one tenant
  Sessions,       \* concurrent request handlers
  Contracts,      \* terms each loan may be disbursed on
  References,     \* external references a client may send
  NoReference,    \* the client sends none (NULL)
  Amounts,        \* amounts a client may send, rounded to cents
  MaxRequests     \* bound: requests begun in a behaviour

ASSUME ServicingAssumption ==
  /\ Amounts \subseteq Nat /\ MaxRequests \in Nat
  /\ NoReference \notin References

\* Disbursement refuses terms that cannot be scheduled.
ASSUME ScheduleAssumption ==
  \A l \in Loans : \A t \in Contracts[l] : Terms(t)

VARIABLES
  contract,       \* loan_disbursements: the terms a loan is disbursed on
  schedule,       \* loan_installments: principal_due, interest_due
  paid,           \* loan_installments: principal_paid, interest_paid
  repayments,     \* loan_repayments, in commit order
  closed,         \* the loan is fully repaid and closed
  request,        \* the transaction each session is running
  served          \* requests begun so far

rows == <<contract, schedule, paid, repayments, closed>>
vars == <<rows, request, served>>

NoContract == [principal |-> 0]
Nothing == [principal |-> 0, interest |-> 0]
Idle == [phase |-> "idle"]

Row == [loan: Loans, amount: Nat, reference: References \cup {NoReference}]

\* A repayment under way.  `work' is its copy of the locked installments,
\* `next' the installment the loop is at, `last' that it pays everything.
Repaying ==
  [phase: {"read", "checked", "allocating", "inserted"}, loan: Loans,
   amount: Nat, reference: References \cup {NoReference},
   work: Seq(Installment), next: Nat \ {0}, remaining: Nat, last: BOOLEAN]

\* A statement under way: the installments it has read, then the repayments.
Stating ==
  [phase: {"stating", "stated"}, loan: Loans, work: Seq(Installment),
   ledger: Seq(Row)]

TypeOK ==
  /\ contract \in [Loans -> (UNION {Contracts[l] : l \in Loans}) \cup {NoContract}]
  /\ schedule \in [Loans -> Seq(Installment)]
  /\ paid \in [Loans -> Seq(Installment)]
  /\ repayments \in Seq(Row)
  /\ closed \in [Loans -> BOOLEAN]
  /\ request \in [Sessions -> Repaying \cup Stating \cup {Idle}]
  /\ served \in Nat

Init ==
  /\ contract = [l \in Loans |-> NoContract]
  /\ schedule = [l \in Loans |-> <<>>]
  /\ paid = [l \in Loans |-> <<>>]
  /\ repayments = <<>>
  /\ closed = [l \in Loans |-> FALSE]
  /\ request = [s \in Sessions |-> Idle]
  /\ served = 0
-----------------------------------------------------------------------------
\* The sum of a sequence of amounts, term by term.
SumOf(amounts) ==
  LET sum[n \in 0..Len(amounts)] == IF n = 0 THEN 0 ELSE sum[n - 1] + amounts[n]
  IN  sum[Len(amounts)]

Total(installments) ==
  SumOf([i \in 1..Len(installments) |->
           installments[i].principal + installments[i].interest])

Outstanding(due, got) == Total(due) - Total(got)

Received(l, ledger) ==
  SumOf([i \in 1..Len(ledger) |-> IF ledger[i].loan = l THEN ledger[i].amount ELSE 0])

Working(s, phase) == request[s].phase = phase

\* Row locks on the installments of a loan, to the end of the transaction.
HoldsInstallments(s, l) ==
  request[s].phase \in {"allocating", "inserted"} /\ request[s].loan = l

InstallmentsFree(s, l) ==
  \A other \in Sessions \ {s} : ~HoldsInstallments(other, l)

\* uq_repayment_org_external_reference: NULLs are not duplicates.
Recorded(reference) ==
  /\ reference # NoReference
  /\ \E i \in 1..Len(repayments) : repayments[i].reference = reference

InFlight(s, reference) ==
  /\ reference # NoReference
  /\ \E other \in Sessions \ {s} :
       Working(other, "inserted") /\ request[other].reference = reference
-----------------------------------------------------------------------------
\* create_disbursement: the contract, its schedule, and the loan is active.
Disburse(l, t) ==
  /\ contract[l] = NoContract
  /\ contract' = [contract EXCEPT ![l] = t]
  /\ schedule' = [schedule EXCEPT ![l] = BuildAmortizationSchedule(t)]
  /\ paid' = [paid EXCEPT ![l] =
       [i \in 1..Len(BuildAmortizationSchedule(t)) |-> Nothing]]
  /\ UNCHANGED <<repayments, closed, request, served>>

\* record_repayment reads the loan, without a lock: it must be in servicing.
BeginRepayment(s, l, amount, reference) ==
  /\ Working(s, "idle") /\ served < MaxRequests
  /\ contract[l] # NoContract /\ ~closed[l]
  /\ request' = [request EXCEPT ![s] =
       [phase |-> "read", loan |-> l, amount |-> amount,
        reference |-> reference, work |-> <<>>, next |-> 1,
        remaining |-> amount, last |-> FALSE]]
  /\ served' = served + 1
  /\ UNCHANGED rows

CheckReference(s) ==
  /\ Working(s, "read")
  /\ ~Recorded(request[s].reference)
  /\ request' = [request EXCEPT ![s].phase = "checked"]
  /\ UNCHANGED <<rows, served>>

\* Mutant: the installments are read without a lock.
LockNoInstallments(s) ==
  LET r == request[s]
      outstanding == Outstanding(schedule[r.loan], paid[r.loan]) IN
  /\ Working(s, "checked")
  /\ r.amount \in 1..outstanding
  /\ request' = [request EXCEPT
       ![s].phase = "allocating", ![s].work = paid[r.loan], ![s].next = 1,
       ![s].last = r.amount = outstanding]
  /\ UNCHANGED <<rows, served>>

\* SELECT ... FOR UPDATE, then the guards of allocate_repayment.
LockInstallments(s) ==
  LET r == request[s]
      outstanding == Outstanding(schedule[r.loan], paid[r.loan]) IN
  /\ Working(s, "checked") /\ InstallmentsFree(s, r.loan)
  /\ r.amount \in 1..outstanding
  /\ request' = [request EXCEPT
       ![s].phase = "allocating", ![s].work = paid[r.loan], ![s].next = 1,
       ![s].last = r.amount = outstanding]
  /\ UNCHANGED <<rows, served>>

\* Mutant: the principal is served before the interest.
AllocatePrincipalFirst(s) ==
  LET r == request[s]
      due == schedule[r.loan][r.next]
      got == r.work[r.next]
      principal == Lesser(due.principal - got.principal, r.remaining)
      interest == Lesser(due.interest - got.interest, r.remaining - principal)
  IN
  /\ Working(s, "allocating")
  /\ r.next <= Len(r.work) /\ r.remaining > 0
  /\ request' = [request EXCEPT
       ![s].next = r.next + 1,
       ![s].remaining = r.remaining - interest - principal,
       ![s].work[r.next] = [principal |-> got.principal + principal,
                            interest |-> got.interest + interest]]
  /\ UNCHANGED <<rows, served>>

\* One round of the loop over the installments, in sequence order.
AllocateNext(s) ==
  LET r == request[s]
      due == schedule[r.loan][r.next]
      got == r.work[r.next]
      interest == Lesser(due.interest - got.interest, r.remaining)
      principal == Lesser(due.principal - got.principal, r.remaining - interest)
  IN
  /\ Working(s, "allocating")
  /\ r.next <= Len(r.work) /\ r.remaining > 0
  /\ request' = [request EXCEPT
       ![s].next = r.next + 1,
       ![s].remaining = r.remaining - interest - principal,
       ![s].work[r.next] = [principal |-> got.principal + principal,
                            interest |-> got.interest + interest]]
  /\ UNCHANGED <<rows, served>>

Allocated(s) ==
  /\ Working(s, "allocating")
  /\ request[s].next > Len(request[s].work) \/ request[s].remaining = 0

\* Mutant: no unique constraint, the check before has to do.
InsertUnconstrained(s) ==
  /\ Allocated(s)
  /\ request' = [request EXCEPT ![s].phase = "inserted"]
  /\ UNCHANGED <<rows, served>>

\* The flush of the repayment row and the installments.
InsertRepayment(s) ==
  /\ Allocated(s)
  /\ ~Recorded(request[s].reference) /\ ~InFlight(s, request[s].reference)
  /\ request' = [request EXCEPT ![s].phase = "inserted"]
  /\ UNCHANGED <<rows, served>>

\* Mutant: a payment closes the loan when it settles the last installment
\* it touched.
CommitClosesEarly(s) ==
  LET r == request[s] IN
  /\ Working(s, "inserted")
  /\ paid' = [paid EXCEPT ![r.loan] = r.work]
  /\ repayments' = Append(repayments,
       [loan |-> r.loan, amount |-> r.amount, reference |-> r.reference])
  /\ closed' = [closed EXCEPT
       ![r.loan] = r.work[r.next - 1] = schedule[r.loan][r.next - 1]]
  /\ request' = [request EXCEPT ![s] = Idle]
  /\ UNCHANGED <<contract, schedule, served>>

\* The loan is closed by the payment of the whole outstanding balance.
CommitRepayment(s) ==
  LET r == request[s] IN
  /\ Working(s, "inserted")
  /\ paid' = [paid EXCEPT ![r.loan] = r.work]
  /\ repayments' = Append(repayments,
       [loan |-> r.loan, amount |-> r.amount, reference |-> r.reference])
  /\ closed' = [closed EXCEPT ![r.loan] = @ \/ r.last]
  /\ request' = [request EXCEPT ![s] = Idle]
  /\ UNCHANGED <<contract, schedule, served>>
-----------------------------------------------------------------------------
\* servicing_data: two SELECTs, the installments and then the repayments.
BeginStatement(s, l) ==
  /\ Working(s, "idle") /\ served < MaxRequests
  /\ request' = [request EXCEPT ![s] =
       [phase |-> "stating", loan |-> l, work |-> paid[l], ledger |-> <<>>]]
  /\ served' = served + 1
  /\ UNCHANGED rows

ReadRepayments(s) ==
  /\ Working(s, "stating")
  /\ request' = [request EXCEPT
       ![s].phase = "stated", ![s].ledger = repayments]
  /\ UNCHANGED <<rows, served>>

\* Mutants: the connection goes back to the pool with the request's state;
\* the error is swallowed and the transaction stays open.
RollBackPooled(s) ==
  /\ request' = [request EXCEPT ![s].phase = "idle"]
  /\ UNCHANGED <<rows, served>>

RollBackForgotten(s) ==
  /\ request' = [request EXCEPT ![s] = request[s]]
  /\ UNCHANGED <<rows, served>>

RollBack(s) ==
  /\ request' = [request EXCEPT ![s] = Idle]
  /\ UNCHANGED <<rows, served>>

\* A guard or the unique constraint raises.
Refused(s) ==
  LET r == request[s] IN
  /\ \/ Working(s, "read") /\ Recorded(r.reference)
     \/ /\ Working(s, "checked") /\ InstallmentsFree(s, r.loan)
        /\ r.amount \notin
             1..Outstanding(schedule[r.loan], paid[r.loan])
     \/ Allocated(s) /\ Recorded(r.reference)
  /\ RollBack(s)

Reply(s) == Working(s, "stated") /\ RollBack(s)

Fail(s) == ~Working(s, "idle") /\ RollBack(s)
-----------------------------------------------------------------------------
Advance(s) ==
  \/ CheckReference(s)
  \/ LockInstallments(s)
  \/ AllocateNext(s)
  \/ InsertRepayment(s)
  \/ CommitRepayment(s)
  \/ ReadRepayments(s)
  \/ Refused(s)
  \/ Reply(s)

Next ==
  \/ \E l \in Loans : \E t \in Contracts[l] : Disburse(l, t)
  \/ \E s \in Sessions :
       \/ \E l \in Loans, amount \in Amounts,
             reference \in References \cup {NoReference} :
               BeginRepayment(s, l, amount, reference)
       \/ \E l \in Loans : BeginStatement(s, l)
       \/ Advance(s)
       \/ Fail(s)

Spec == Init /\ [][Next]_vars

\* The database grants free locks and runs what it has begun.
FairSpec == Spec /\ \A s \in Sessions : WF_vars(Advance(s))
-----------------------------------------------------------------------------
(***************************************************************************)
(* Properties.                                                             *)
(***************************************************************************)

\* The rows of a loan after any repayments are those of an honest ledger:
\* the oldest installment first, interest before principal, and no
\* installment paid beyond its due (docs/LOAN_SERVICING.md:16).
InOrder(due, got) ==
  /\ Len(got) = Len(due)
  /\ \A i \in 1..Len(due) :
       /\ got[i].interest <= due[i].interest
       /\ got[i].principal <= due[i].principal
       /\ got[i].principal > 0 => got[i].interest = due[i].interest
       /\ got[i] # Nothing => \A j \in 1..(i - 1) : got[j] = due[j]

AllocationInOrder == \A l \in Loans : InOrder(schedule[l], paid[l])

\* No external reference is recorded twice, although the check for it and
\* the insert are steps of two transactions that may overlap, on one loan or
\* on two (docs/LOAN_SERVICING.md:17-18).
ReferencesUnique ==
  \A i, j \in 1..Len(repayments) :
    repayments[i].reference = repayments[j].reference
      => i = j \/ repayments[i].reference = NoReference

\* The rounded installments of every contract add up to its principal
\* exactly, interest never rises from one to the next, and the due dates
\* ascend across month ends and year ends (docs/LOAN_SERVICING.md:14-15).
ScheduleReconciles ==
  \A l \in Loans : contract[l] # NoContract =>
    LET due == schedule[l] IN
    /\ SumOf([i \in 1..Len(due) |-> due[i].principal]) = contract[l].principal
    /\ \A i \in 2..Len(due) :
         /\ due[i].interest <= due[i - 1].interest
         /\ Earlier(DueDate(contract[l], i - 1), DueDate(contract[l], i))

\* A statement read around a payment may disagree with itself in one way
\* only: its installments show the payment later than its balance does, so
\* it never states more outstanding than its installments leave unpaid.
StatementBounded ==
  \A s \in Sessions : Working(s, "stated") =>
    LET r == request[s] IN
    /\ Received(r.loan, r.ledger) >= Total(r.work)
    /\ Received(r.loan, r.ledger) <= Total(schedule[r.loan])

\* Every request ends, also one that waits for another's uncommitted row.
RequestsEnd ==
  \A s \in Sessions : ~Working(s, "idle") ~> Working(s, "idle")

\* The installments of a loan are the account of LoanAccount: what they
\* leave outstanding falls by the amounts of the repayment rows, and the
\* loan is closed by the payment that leaves nothing.
Account == INSTANCE LoanAccount WITH
  opened <- [l \in Loans |-> contract[l] # NoContract],
  owed <- [l \in Loans |-> Outstanding(schedule[l], paid[l])],
  received <- [l \in Loans |-> Received(l, repayments)],
  closed <- closed

ImplementsAccount == Account!Spec
-----------------------------------------------------------------------------
(***************************************************************************)
(* The inductive invariant: what the installment locks protect and what    *)
(* the allocation loop has done so far, and who may hold a reference.      *)
(***************************************************************************)
LocksExclude ==
  \A s, t \in Sessions, l \in Loans :
    HoldsInstallments(s, l) /\ HoldsInstallments(t, l) => s = t

\* While money remains, everything before `next' is settled; from `next' on
\* the copy is still what the database has.
Loop(r, due, got) ==
  /\ InOrder(due, r.work)
  /\ \A i \in r.next..Len(r.work) : r.work[i] = got[i]
  /\ r.remaining > 0 =>
       \A i \in 1..Len(r.work) : i < r.next => r.work[i] = due[i]

LoopInOrder(s) ==
  LET r == request[s] IN
  r.phase \in {"allocating", "inserted"} =>
    Loop(r, schedule[r.loan], paid[r.loan])

\* A repayment under way is one of a disbursed loan.
ServicedOnly ==
  \A s \in Sessions :
    request[s].phase \in {"read", "checked", "allocating", "inserted"}
      => contract[request[s].loan] # NoContract

\* A row that is flushed and not yet committed owns its reference.
InsertsUnique ==
  \A s \in Sessions : Working(s, "inserted") =>
    ~Recorded(request[s].reference) /\ ~InFlight(s, request[s].reference)

Inductive ==
  /\ AllocationInOrder
  /\ LocksExclude
  /\ ServicedOnly
  /\ \A s \in Sessions : LoopInOrder(s)
  /\ ReferencesUnique
  /\ InsertsUnique
==============================================================================
