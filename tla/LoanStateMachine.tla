--------------------------- MODULE LoanStateMachine ---------------------------
(***************************************************************************)
(* What the loan workflow promises, with the requests, sessions and rows   *)
(* that deliver it left out: a loan takes legal steps of the safety graph, *)
(* one after the other, and its funds are paid out once, on the step from  *)
(* approved to active.  LoanLifecycle implements it when requests do not   *)
(* overlap.                                                                *)
(***************************************************************************)
EXTENDS LoanTransitions

CONSTANT Loans

VARIABLES
  trail,          \* the statuses each loan has had, newest last
  funded          \* its funds have been paid out

Init ==
  /\ trail = [l \in Loans |-> <<"draft">>]
  /\ funded = [l \in Loans |-> FALSE]

Current(l) == trail[l][Len(trail[l])]

LegalPath(from, path) ==
  \A i \in 1..Len(path) : <<Source(from, path, i), path[i]>> \in LOAN_TRANSITIONS

Walk(l, path) ==
  /\ LegalPath(Current(l), path)
  /\ trail' = [trail EXCEPT ![l] = @ \o path]

\* One request takes a loan up to three steps on: an analysis walks it from
\* under_review to officer_review.
Path == {<<s>> : s \in LoanStatus}
          \cup LOAN_TRANSITIONS
          \cup {<<"ai_risk_analysis", "fraud_screening", "officer_review">>}

Move(l) ==
  /\ \E path \in Path : Walk(l, path)
  /\ UNCHANGED funded

Fund(l) ==
  /\ ~funded[l]
  /\ Current(l) = "approved"
  /\ Walk(l, <<"disbursed", "active">>)
  /\ funded' = [funded EXCEPT ![l] = TRUE]

Next == \E l \in Loans : Move(l) \/ Fund(l)

Spec == Init /\ [][Next]_<<trail, funded>>
===============================================================================
