---------------------------- MODULE Amortization ----------------------------
(***************************************************************************)
(* The repayment schedule of a disbursed loan: monthly installments of a   *)
(* reducing balance (servicing.build_amortization_schedule).  Amounts are  *)
(* integers, in cents; the monthly rate is the fraction num/den, exact     *)
(* where the code computes with 28 decimal digits.                         *)
(***************************************************************************)
EXTENDS Integers, Sequences

Date == [year: Nat, month: 1..12, day: 1..31]

\* The terms of a disbursement that are fit to be scheduled.
Terms(t) ==
  /\ t.principal \in Nat \ {0} /\ t.tenor \in Nat \ {0}
  /\ t.num \in Nat /\ t.den \in Nat \ {0}
  /\ t.first \in Date

Installment == [principal: Nat, interest: Nat]

Lesser(a, b) == IF a <= b THEN a ELSE b

\* _money: the fraction n/d to the nearest cent, a half away from zero.
Money(n, d) ==
  IF n >= 0 THEN (2 * n + d) \div (2 * d) ELSE -((d - 2 * n) \div (2 * d))

\* x to the n-th, step by step.
Power(x, n) ==
  LET power[i \in 0..n] == IF i = 0 THEN 1 ELSE x * power[i - 1]
  IN  power[n]

\* The level payment as a fraction: principal * r * g / (g - 1) where
\* r = num/den and g = (1 + r)^tenor.
Payment(t) ==
  LET g == Power(t.num + t.den, t.tenor)
      unit == Power(t.den, t.tenor)
  IN
  IF t.num = 0
    THEN [n |-> t.principal, d |-> t.tenor]
    ELSE [n |-> t.principal * t.num * g, d |-> t.den * (g - unit)]

InterestOn(t, balance) == Money(balance * t.num, t.den)

\* Mutant: the last installment is a level one too.
LevelPrincipalOf(t, i, balance) ==
  LET p == Payment(t) IN
  Lesser(Money(p.n - InterestOn(t, balance) * p.d, p.d), balance)

\* The principal in installment i when `balance' is still to be scheduled.
PrincipalOf(t, i, balance) ==
  LET p == Payment(t) IN
  IF i = t.tenor
    THEN balance
    ELSE Lesser(Money(p.n - InterestOn(t, balance) * p.d, p.d), balance)

BuildAmortizationSchedule(t) ==
  LET left[i \in 0..t.tenor] ==
        IF i = 0 THEN t.principal
        ELSE left[i - 1] - PrincipalOf(t, i, left[i - 1])
  IN [i \in 1..t.tenor |->
        [principal |-> PrincipalOf(t, i, left[i - 1]),
         interest |-> InterestOn(t, left[i - 1])]]
-----------------------------------------------------------------------------
\* Due dates: calendar months on, on the last valid day of a short month.
MonthLength(year, month) ==
  IF month = 2
    THEN IF year % 4 = 0 /\ (year % 100 # 0 \/ year % 400 = 0) THEN 29 ELSE 28
    ELSE IF month \in {4, 6, 9, 11} THEN 30 ELSE 31

\* Mutant: the month wraps, the year stays.
AddMonthsInYear(date, months) ==
  LET month == ((date.month - 1 + months) % 12) + 1 IN
  [year |-> date.year, month |-> month,
   day |-> Lesser(date.day, MonthLength(date.year, month))]

AddMonths(date, months) ==
  LET index == date.month - 1 + months
      year == date.year + (index \div 12)
      month == (index % 12) + 1
  IN [year |-> year, month |-> month,
      day |-> Lesser(date.day, MonthLength(year, month))]

DueDate(t, i) == AddMonths(t.first, i - 1)

Earlier(a, b) ==
  \/ a.year < b.year
  \/ a.year = b.year /\ a.month < b.month
  \/ a.year = b.year /\ a.month = b.month /\ a.day < b.day
==============================================================================
