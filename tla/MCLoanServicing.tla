--------------------------- MODULE MCLoanServicing ---------------------------
(***************************************************************************)
(* Small instances of LoanServicing for TLC.                               *)
(***************************************************************************)
EXTENDS LoanServicing, TLC

CONSTANTS l1, l2, s1, s2, ref

\* Terms: principal in cents, months, monthly rate num/den, first due date.
\* Dates that meet the year's end, a leap day and a short month.
NewYearsEve == [year |-> 2027, month |-> 12, day |-> 31]
MidYear == [year |-> 2026, month |-> 6, day |-> 30]

Offer(principal, tenor, num, den, first) ==
  [principal |-> principal, tenor |-> tenor, num |-> num, den |-> den,
   first |-> first]

\* l1: no interest and a remainder in the last installment; fewer cents than
\* months; a rate of ten percent a month; the highest rate the schema takes.
\* l2: one installment.
OfferedContracts ==
  (l1 :> {Offer(5, 3, 0, 1, NewYearsEve), Offer(1, 3, 0, 1, MidYear),
          Offer(5, 2, 1, 10, NewYearsEve), Offer(40, 4, 1, 12, MidYear)})
  @@ (l2 :> {Offer(1, 1, 0, 1, MidYear)})
==============================================================================
