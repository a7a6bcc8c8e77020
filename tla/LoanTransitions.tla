--------------------------- MODULE LoanTransitions ---------------------------
(***************************************************************************)
(* The vocabulary of the loan workflow: the statuses, the mandatory safety *)
(* graph (backend/app/shared/enums.py) and the tenant policy that may only *)
(* remove edges from it (backend/app/modules/loan/workflow.py).  There is  *)
(* no state here; the modules of the loan component extend this one.       *)
(***************************************************************************)
EXTENDS Naturals, Sequences

LoanStatus ==
  {"draft", "submitted", "under_review", "ai_risk_analysis",
   "fraud_screening", "officer_review", "analyst_review", "needs_more_info",
   "approved", "rejected", "disbursed", "active", "closed", "defaulted"}

\* The graph of enums.py, as the set of its edges.
LOAN_TRANSITIONS ==
  {<<"draft", "submitted">>,
   <<"submitted", "under_review">>,
   <<"under_review", "ai_risk_analysis">>,
   <<"under_review", "needs_more_info">>,
   <<"ai_risk_analysis", "fraud_screening">>,
   <<"fraud_screening", "officer_review">>,
   <<"officer_review", "analyst_review">>,
   <<"officer_review", "needs_more_info">>,
   <<"officer_review", "approved">>,
   <<"officer_review", "rejected">>,
   <<"analyst_review", "approved">>,
   <<"analyst_review", "rejected">>,
   <<"analyst_review", "needs_more_info">>,
   <<"needs_more_info", "under_review">>,
   <<"approved", "disbursed">>,
   <<"disbursed", "active">>,
   <<"active", "closed">>,
   <<"active", "defaulted">>,
   <<"defaulted", "closed">>}

DecisionType == {"approve", "reject", "needs_more_info"}

\* service.decide maps a decision to the status it asks for.
DecisionTarget(d) ==
  CASE d = "approve" -> "approved"
    [] d = "reject"  -> "rejected"
    [] OTHER         -> "needs_more_info"

-----------------------------------------------------------------------------
(***************************************************************************)
(* A tenant's loan_workflow settings.  A threshold is meaningful only      *)
(* under the "amount_threshold" policy (the validator refuses the rest),   *)
(* so the other two policies carry 0.                                      *)
(***************************************************************************)
LoanWorkflowSettings ==
  [analyst_review: {"optional", "required"}, threshold: {0},
   allow_needs_more_info: BOOLEAN, allow_default: BOOLEAN]
    \cup
  [analyst_review: {"amount_threshold"}, threshold: Nat \ {0},
   allow_needs_more_info: BOOLEAN, allow_default: BOOLEAN]

AnalystRequired(policy, amount) ==
  \/ policy.analyst_review = "required"
  \/ policy.analyst_review = "amount_threshold" /\ amount >= policy.threshold

\* Mutant: the analyst gate holds back approvals only, not rejections.
AllowedRejections(policy, amount, current) ==
  {to \in LoanStatus :
     /\ <<current, to>> \in LOAN_TRANSITIONS
     /\ to = "needs_more_info" => policy.allow_needs_more_info
     /\ to = "defaulted" => policy.allow_default
     /\ current = "officer_review" /\ AnalystRequired(policy, amount)
          => to # "approved"}

\* LoanWorkflowPolicy.allowed: the graph minus what the tenant switched off.
Allowed(policy, amount, current) ==
  {to \in LoanStatus :
     /\ <<current, to>> \in LOAN_TRANSITIONS
     /\ to = "needs_more_info" => policy.allow_needs_more_info
     /\ to = "defaulted" => policy.allow_default
     /\ current = "officer_review" /\ AnalystRequired(policy, amount)
          => to \notin {"approved", "rejected"}}

-----------------------------------------------------------------------------
(***************************************************************************)
(* A LoanWorkflowEvent row keeps the status the service read and the one   *)
(* it wrote.  Steps(from, path) are the rows of consecutive transitions.   *)
(***************************************************************************)
Event == [from: LoanStatus, to: LoanStatus]

Source(from, path, i) == IF i = 1 THEN from ELSE path[i - 1]

\* Mutant: the event is written from the row the assignment has changed.
StepsAfterUpdate(from, path) ==
  [i \in 1..Len(path) |-> [from |-> path[i], to |-> path[i]]]

Steps(from, path) ==
  [i \in 1..Len(path) |-> [from |-> Source(from, path, i), to |-> path[i]]]

\* Every target of the path is allowed from the one before it.
Permitted(policy, amount, from, path) ==
  \A i \in 1..Len(path) :
    path[i] \in Allowed(policy, amount, Source(from, path, i))

\* The statuses that lie behind the mandatory screening stages, the three
\* stages themselves, and the statuses of a loan whose money is out.
PastScreening ==
  {"officer_review", "analyst_review", "approved", "rejected",
   "disbursed", "active", "closed", "defaulted"}
SafetyPath == {"submitted", "under_review", "ai_risk_analysis",
               "fraud_screening", "officer_review"}
Serviced == {"disbursed", "active", "closed", "defaulted"}
==============================================================================
