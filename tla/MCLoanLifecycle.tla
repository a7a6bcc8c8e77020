-------------------------- MODULE MCLoanLifecycle ---------------------------
(***************************************************************************)
(* Small instances of LoanLifecycle for TLC.                               *)
(***************************************************************************)
EXTENDS LoanLifecycle, TLC

CONSTANTS l1, s1, s2, a1

Settings(review, threshold) ==
  [analyst_review |-> review, threshold |-> threshold,
   allow_needs_more_info |-> TRUE, allow_default |-> TRUE]

\* Settings that leave the analyst to the officer.
OptionalPolicies == {Settings("optional", 0)}

\* Settings under which a loan of amount 2 always needs the analyst: the
\* threshold it meets exactly, and the unconditional policy.
AnalystPolicies ==
  {Settings("required", 0), Settings("amount_threshold", 2)}

LoanAmount == [l \in Loans |-> 2]
LoanDue == [l \in Loans |-> 3]

SessionSymmetry == Permutations(Sessions)

-----------------------------------------------------------------------------
(***************************************************************************)
(* Behaviours that start where three requests of one session have led:     *)
(* submit, an analysis without an alert, and an approval.                  *)
(***************************************************************************)
ApprovedPath ==
  <<"submitted", "under_review", "ai_risk_analysis", "fraud_screening",
    "officer_review", "approved">>

ApprovedInit ==
  /\ status = [l \in Loans |-> "approved"]
  /\ events = [l \in Loans |-> Steps("draft", ApprovedPath)]
  /\ decisions = [l \in Loans |-> {"approve"}]
  /\ analysed = [l \in Loans |-> TRUE]
  /\ alerts = [a \in Alerts |-> NoAlert]
  /\ disbursed = [l \in Loans |-> FALSE]
  /\ allocated = [l \in Loans |-> 0]
  /\ repaid = [l \in Loans |-> 0]
  /\ policy \in Policies
  /\ request = [s \in Sessions |-> Idle]
  /\ served = 0

ApprovedSpec == ApprovedInit /\ [][Next]_vars
FairApprovedSpec == ApprovedSpec /\ \A s \in Sessions : WF_vars(Advance(s))
==============================================================================
