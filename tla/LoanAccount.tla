----------------------------- MODULE LoanAccount -----------------------------
(***************************************************************************)
(* What servicing promises of a loan account, whatever requests overlap:   *)
(* once opened, what is owed falls by exactly what is received, never      *)
(* below zero; the account closes with the payment that brings it to zero. *)
(***************************************************************************)
EXTENDS Integers

CONSTANT Loans

VARIABLES
  opened,         \* the loan has been disbursed
  owed,           \* principal and interest not yet paid
  received,       \* sum of the payments
  closed          \* the loan is fully repaid

account == <<opened, owed, received, closed>>

Init ==
  /\ opened = [l \in Loans |-> FALSE] /\ closed = opened
  /\ owed = [l \in Loans |-> 0] /\ received = owed

Open(l) ==
  /\ ~opened[l]
  /\ opened' = [opened EXCEPT ![l] = TRUE]
  /\ owed'[l] > 0
  /\ owed' = [owed EXCEPT ![l] = owed'[l]]
  /\ UNCHANGED <<received, closed>>

\* One payment, of what is owed at most.
Pay(l) ==
  LET amount == received'[l] - received[l] IN
  /\ opened[l] /\ ~closed[l]
  /\ amount \in 1..owed[l]
  /\ received' = [received EXCEPT ![l] = @ + amount]
  /\ owed' = [owed EXCEPT ![l] = @ - amount]
  /\ closed' = [closed EXCEPT ![l] = owed'[l] = 0]
  /\ UNCHANGED opened

Next == \E l \in Loans : Open(l) \/ Pay(l)

Spec == Init /\ [][Next]_account
==============================================================================
