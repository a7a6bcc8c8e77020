------------------------- MODULE LoanServicingProofs -------------------------
(***************************************************************************)
(* Proofs about LoanServicing, for any loans, contracts, sessions,         *)
(* references and amounts.                                                 *)
(*                                                                         *)
(* The first invariant is IInv.  Most actions change one session's request *)
(* and nothing else: lemma OneRequest says what the new request has to     *)
(* satisfy for IInv to survive.  A disbursement and a commit change the    *)
(* rows and are treated apart.                                             *)
(*                                                                         *)
(* The second, LedgerInvariant, is about sums of money and is inductive    *)
(* together with IInv.  It rests on the lemmas that come first: induction, *)
(* sums, and what a schedule is.  At the end is the refinement of          *)
(* LoanAccount.                                                            *)
(***************************************************************************)
EXTENDS LoanServicing, WellFoundedInduction, TLAPS

(***************************************************************************)
(* Induction up to a bound, over a set: what the least natural number      *)
(* outside it would be.                                                    *)
(***************************************************************************)
LEMMA Least ==
  ASSUME NEW T \in SUBSET Nat, T # {}
  PROVE  \E m \in T : \A k \in T : m <= k
<1>1. PICK m \in T : \A k \in T : <<k, m>> \notin OpToRel(<, Nat)
  BY NatLessThanWellFounded, WFMin
<1>2. \A k \in T : ~(k < m)
  BY <1>1 DEF OpToRel
<1> QED
  BY <1>2

LEMMA Induction ==
  ASSUME NEW n \in Nat, NEW T, 0 \in T, \A m \in 0..(n - 1) : m \in T => m + 1 \in T
  PROVE  \A m \in 0..n : m \in T
<1> DEFINE Rest == {m \in 0..n : m \notin T}
<1>1. SUFFICES ASSUME Rest # {} PROVE FALSE
  OBVIOUS
<1>2. Rest \in SUBSET Nat
  OBVIOUS
<1> HIDE DEF Rest
<1>3. PICK m \in Rest : \A k \in Rest : m <= k
  BY <1>1, <1>2, Least
<1>4. m \in 0..n /\ m \notin T /\ m # 0
  BY <1>3 DEF Rest
<1>5. m - 1 \in 0..(n - 1) /\ (m - 1) + 1 = m /\ ~(m <= m - 1)
  BY <1>4
<1>6. m - 1 \in T
  BY <1>3, <1>5 DEF Rest
<1> QED
  BY <1>4, <1>5, <1>6

\* A function on 0..n defined by recursion exists: `step' takes the value
\* before i to the one at i.
Recurs(s, n, V, first, step) ==
  /\ s \in [0..n -> V] /\ s[0] = first
  /\ \A i \in 1..n : s[i] = step[i][s[i - 1]]

LEMMA Recursion ==
  ASSUME NEW n \in Nat, NEW V, NEW first \in V, NEW step \in [1..n -> [V -> V]]
  PROVE  \E s : Recurs(s, n, V, first, step)
<1> DEFINE Has(m) == \E s : Recurs(s, m, V, first, step)
           T == {m \in 0..n : Has(m)}
<1>1. Has(0)
  <2> DEFINE s == [i \in 0..0 |-> first]
  <2>1. Recurs(s, 0, V, first, step)
    BY DEF Recurs
  <2> QED
    BY <2>1
<1>2. ASSUME NEW m \in 0..(n - 1), Has(m)
      PROVE  Has(m + 1)
  <2>1. PICK s : Recurs(s, m, V, first, step)
    BY <1>2
  <2> DEFINE last == step[m + 1][s[m]]
             t == [i \in 0..(m + 1) |-> IF i \in 0..m THEN s[i] ELSE last]
  <2>2. m + 1 \in 1..n /\ s[m] \in V
    BY <2>1 DEF Recurs
  <2>3. last \in V
    BY <2>2
  <2> HIDE DEF last
  <2>4. t \in [0..(m + 1) -> V] /\ t[0] = first
    BY <2>1, <2>3 DEF Recurs
  <2>5. ASSUME NEW i \in 1..(m + 1)
        PROVE  t[i] = step[i][t[i - 1]]
    <3>1. CASE i \in 1..m
      <4>1. t[i] = s[i] /\ t[i - 1] = s[i - 1]
        BY <3>1
      <4> HIDE DEF t
      <4> QED
        BY <4>1, <2>1, <3>1 DEF Recurs
    <3>2. CASE i = m + 1
      <4>1. t[i] = last /\ t[i - 1] = s[m]
        BY <3>2
      <4> HIDE DEF t
      <4> QED
        BY <4>1, <3>2 DEF last
    <3> QED
      BY <3>1, <3>2
  <2> HIDE DEF t
  <2>6. Recurs(t, m + 1, V, first, step)
    BY <2>4, <2>5 DEF Recurs
  <2> QED
    BY <2>6
<1> HIDE DEF Has
<1>3. 0 \in T /\ \A m \in 0..(n - 1) : m \in T => m + 1 \in T
  BY <1>1, <1>2
<1> HIDE DEF T
<1>4. n \in T
  <2>1. \A m \in 0..n : m \in T
    BY <1>3, Induction
  <2> QED
    BY <2>1
<1> QED
  BY <1>4 DEF T, Has

-----------------------------------------------------------------------------
(***************************************************************************)
(* Sums.  A sum's terms are summed up by some function; any function that  *)
(* sums them up ends in it.                                                *)
(***************************************************************************)
SumsUp(s, amounts) ==
  /\ s \in [0..Len(amounts) -> Int] /\ s[0] = 0
  /\ \A i \in 1..Len(amounts) : s[i] = s[i - 1] + amounts[i]

LEMMA SumOfTerms ==
  ASSUME NEW amounts \in Seq(Int)
  PROVE  \E s : SumsUp(s, amounts) /\ SumOf(amounts) = s[Len(amounts)]
<1> DEFINE n == Len(amounts)
           sum[i \in 0..n] == IF i = 0 THEN 0 ELSE sum[i - 1] + amounts[i]
           step == [i \in 1..n |-> [v \in Int |-> v + amounts[i]]]
           zero == 0
           V == Int
<1>0. n \in Nat /\ \A i \in 1..n : amounts[i] \in Int
  OBVIOUS
<1> HIDE DEF n
<1>1. step \in [1..n -> [V -> V]] /\ zero \in V
  BY <1>0
<1>2. \A i \in 1..n, v \in V : step[i][v] = v + amounts[i]
  OBVIOUS
<1> HIDE DEF step, V, zero
<1>3. PICK s : Recurs(s, n, V, zero, step)
  BY <1>0, <1>1, Recursion
<1>4. ASSUME NEW i \in 1..n PROVE s[i] = s[i - 1] + amounts[i]
  <2>1. i - 1 \in 0..n
    BY <1>0
  <2>2. s[i - 1] \in V
    BY <2>1, <1>3 DEF Recurs
  <2> QED
    BY <2>2, <1>2, <1>3 DEF Recurs
<1>10. s \in [0..n -> Int] /\ s[0] = 0
  BY <1>3 DEF zero, V, Recurs
<1>5. s = [i \in 0..n |-> IF i = 0 THEN 0 ELSE s[i - 1] + amounts[i]]
  BY <1>0, <1>10, <1>4
<1>6. sum = [i \in 0..n |-> IF i = 0 THEN 0 ELSE sum[i - 1] + amounts[i]]
  BY <1>5
<1>7. SumOf(amounts) = sum[n]
  BY DEF SumOf, n
<1> HIDE DEF sum
<1>8. \A m \in 0..n : sum[m] = s[m]
  <2> DEFINE T == {m \in 0..n : sum[m] = s[m]}
  <2>1. 0 \in T
    BY <1>0, <1>10, <1>6
  <2>2. ASSUME NEW m \in 0..(n - 1), m \in T
        PROVE  m + 1 \in T
    BY <2>2, <1>0, <1>4, <1>6
  <2> HIDE DEF T
  <2>3. \A m \in 0..n : m \in T
    BY <1>0, <2>1, <2>2, Induction
  <2> QED
    BY <2>3 DEF T
<1>9. SumsUp(s, amounts)
  BY <1>4, <1>10 DEF SumsUp, n
<1> QED
  BY <1>0, <1>7, <1>8, <1>9 DEF n

LEMMA SumIs ==
  ASSUME NEW amounts \in Seq(Int), NEW s, SumsUp(s, amounts)
  PROVE  SumOf(amounts) = s[Len(amounts)]
<1> DEFINE n == Len(amounts)
<1>1. PICK t : SumsUp(t, amounts) /\ SumOf(amounts) = t[n]
  BY SumOfTerms
<1> DEFINE T == {m \in 0..n : t[m] = s[m]}
<1>2. 0 \in T
  BY <1>1 DEF SumsUp
<1>3. ASSUME NEW m \in 0..(n - 1), m \in T
      PROVE  m + 1 \in T
  BY <1>3, <1>1 DEF SumsUp
<1>4. \A m \in 0..n : m \in T
  <2>0. n \in Nat
    OBVIOUS
  <2> HIDE DEF T, n
  <2> QED
    BY <2>0, <1>2, <1>3, Induction
<1> QED
  BY <1>1, <1>4

LEMMA SumTyped ==
  ASSUME NEW amounts \in Seq(Int)
  PROVE  SumOf(amounts) \in Int
BY SumOfTerms DEF SumsUp

\* One more term, and another one in its place.
LEMMA SumAppend ==
  ASSUME NEW amounts \in Seq(Int), NEW more \in Seq(Int), NEW x \in Int,
         Len(more) = Len(amounts) + 1, more[Len(more)] = x,
         \A i \in 1..Len(amounts) : more[i] = amounts[i]
  PROVE  SumOf(more) = SumOf(amounts) + x
<1> DEFINE n == Len(amounts)
<1>1. PICK s : SumsUp(s, amounts) /\ SumOf(amounts) = s[n]
  BY SumOfTerms
<1> DEFINE t == [i \in 0..(n + 1) |-> IF i \in 0..n THEN s[i] ELSE s[n] + x]
<1>2. SumsUp(t, more)
  <2>1. s[n] \in Int /\ s \in [0..n -> Int] /\ s[0] = 0
    BY <1>1 DEF SumsUp
  <2>2. t \in [0..Len(more) -> Int] /\ t[0] = 0
    BY <2>1
  <2>3. ASSUME NEW i \in 1..(n + 1)
        PROVE  t[i] = t[i - 1] + more[i]
    <3>1. CASE i \in 1..n
      <4>1. s[i] = s[i - 1] + amounts[i]
        BY <1>1, <3>1 DEF SumsUp
      <4> QED
        BY <4>1, <3>1
    <3>2. CASE i = n + 1
      BY <3>2
    <3> QED
      BY <3>1, <3>2
  <2> QED
    BY <2>2, <2>3 DEF SumsUp
<1>3. SumOf(more) = t[Len(more)]
  <2> HIDE DEF t
  <2> QED
    BY <1>2, SumIs
<1> QED
  BY <1>1, <1>3

LEMMA SumReplace ==
  ASSUME NEW a \in Seq(Int), NEW b \in Seq(Int), NEW k \in 1..Len(a), Len(b) = Len(a),
         \A i \in 1..Len(a) : i # k => b[i] = a[i]
  PROVE  SumOf(b) = SumOf(a) - a[k] + b[k]
<1> DEFINE n == Len(a)
<1>1. PICK s : SumsUp(s, a) /\ SumOf(a) = s[n]
  BY SumOfTerms
<1>2. s \in [0..n -> Int] /\ s[0] = 0 /\ a[k] \in Int /\ b[k] \in Int
  BY <1>1 DEF SumsUp
<1> DEFINE t == [i \in 0..n |-> IF i < k THEN s[i] ELSE s[i] - a[k] + b[k]]
<1>3. SumsUp(t, b)
  <2>1. t \in [0..Len(b) -> Int] /\ t[0] = 0
    BY <1>2
  <2>2. ASSUME NEW i \in 1..n
        PROVE  t[i] = t[i - 1] + b[i]
    <3>1. s[i] = s[i - 1] + a[i] /\ a[i] \in Int
      BY <1>1 DEF SumsUp
    <3>0. i \in 0..n /\ i - 1 \in 0..n /\ s[i] \in Int /\ s[i - 1] \in Int /\ b[i] \in Int
      <4>1. i \in 0..n /\ i - 1 \in 0..n /\ i \in 1..Len(b)
        OBVIOUS
      <4>2. b[i] \in Int
        BY <4>1
      <4> HIDE DEF n
      <4> QED
        BY <4>1, <4>2, <1>2
    <3>2. CASE i < k
      BY <3>0, <3>1, <3>2, <1>2
    <3>3. CASE i = k
      <4>1. t[i] = s[i] - a[k] + b[k] /\ t[i - 1] = s[i - 1] /\ a[i] = a[k] /\ b[i] = b[k]
        BY <3>0, <3>3
      <4> HIDE DEF t
      <4> QED
        BY <4>1, <3>0, <3>1, <1>2
    <3>4. CASE i > k
      <4>1. t[i] = s[i] - a[k] + b[k] /\ t[i - 1] = s[i - 1] - a[k] + b[k] /\ b[i] = a[i]
        BY <3>0, <3>4
      <4> HIDE DEF t
      <4> QED
        BY <4>1, <3>0, <3>1, <1>2, SMTT(30)
    <3> QED
      BY <3>2, <3>3, <3>4
  <2> QED
    BY <2>1, <2>2 DEF SumsUp
<1>4. SumOf(b) = t[n]
  <2> HIDE DEF t
  <2> QED
    BY <1>3, SumIs
<1> QED
  BY <1>1, <1>4

LEMMA SumMonotone ==
  ASSUME NEW a \in Seq(Int), NEW b \in Seq(Int), Len(b) = Len(a),
         \A i \in 1..Len(a) : a[i] <= b[i]
  PROVE  SumOf(a) <= SumOf(b)
<1> DEFINE n == Len(a)
<1>1. PICK s : SumsUp(s, a) /\ SumOf(a) = s[n]
  BY SumOfTerms
<1>2. PICK t : SumsUp(t, b) /\ SumOf(b) = t[n]
  BY SumOfTerms
<1> DEFINE T == {m \in 0..n : s[m] <= t[m]}
<1>3. 0 \in T
  BY <1>1, <1>2 DEF SumsUp
<1>4. ASSUME NEW m \in 0..(n - 1), m \in T
      PROVE  m + 1 \in T
  <2>1. s[m + 1] = s[m] + a[m + 1] /\ t[m + 1] = t[m] + b[m + 1]
    <3>1. m + 1 \in 1..n /\ (m + 1) - 1 = m
      OBVIOUS
    <3>2. m + 1 \in 1..Len(b)
      BY <3>1
    <3>3. s[m + 1] = s[(m + 1) - 1] + a[m + 1]
      BY <3>1, <1>1 DEF SumsUp
    <3>4. t[m + 1] = t[(m + 1) - 1] + b[m + 1]
      BY <3>2, <1>2 DEF SumsUp
    <3> QED
      BY <3>1, <3>3, <3>4
  <2>0. m \in 0..n /\ m + 1 \in 1..n
    OBVIOUS
  <2>2. /\ s[m] \in Int /\ t[m] \in Int /\ s[m] <= t[m]
        /\ a[m + 1] \in Int /\ b[m + 1] \in Int /\ a[m + 1] <= b[m + 1]
    <3>1. s \in [0..n -> Int] /\ t \in [0..n -> Int]
      BY <1>1, <1>2 DEF SumsUp
    <3>2. a[m + 1] \in Int /\ b[m + 1] \in Int /\ a[m + 1] <= b[m + 1]
      BY <2>0
    <3>3. s[m] <= t[m]
      BY <1>4
    <3> HIDE DEF n, T
    <3> QED
      BY <2>0, <3>1, <3>2, <3>3
  <2> QED
    BY <2>1, <2>2
<1>5. \A m \in 0..n : m \in T
  <2>0. n \in Nat
    OBVIOUS
  <2> HIDE DEF T, n
  <2> QED
    BY <2>0, <1>3, <1>4, Induction
<1> QED
  BY <1>1, <1>2, <1>5

LEMMA SumZero ==
  ASSUME NEW a \in Seq(Int), \A i \in 1..Len(a) : a[i] = 0
  PROVE  SumOf(a) = 0
<1> DEFINE s == [i \in 0..Len(a) |-> 0]
<1>1. SumsUp(s, a)
  BY DEF SumsUp
<1>2. SumOf(a) = s[Len(a)]
  <2> HIDE DEF s
  <2> QED
    BY <1>1, SumIs
<1> QED
  BY <1>2

-----------------------------------------------------------------------------
(***************************************************************************)
(* The money of a loan: what its installments and its ledger add up to.    *)
(***************************************************************************)
Amount(installment) == installment.principal + installment.interest

LEMMA TotalIs ==
  ASSUME NEW x \in Seq(Installment)
  PROVE  /\ [i \in 1..Len(x) |-> Amount(x[i])] \in Seq(Int)
         /\ Len([i \in 1..Len(x) |-> Amount(x[i])]) = Len(x)
         /\ \A i \in 1..Len(x) : Amount(x[i]) \in Nat
         /\ Total(x) = SumOf([i \in 1..Len(x) |-> Amount(x[i])])
<1>1. ASSUME NEW i \in 1..Len(x)
      PROVE  Amount(x[i]) \in Nat
  <2>1. x[i] \in Installment
    OBVIOUS
  <2> QED
    BY <2>1 DEF Installment, Amount
<1>2. Total(x) = SumOf([i \in 1..Len(x) |-> Amount(x[i])])
  BY DEF Total, Amount
<1>3. \A i \in 1..Len(x) : Amount(x[i]) \in Int
  BY <1>1
<1>4. Len(x) \in Nat
  OBVIOUS
<1> HIDE DEF Amount
<1> DEFINE a == [i \in 1..Len(x) |-> Amount(x[i])]
<1>5. a \in Seq(Int) /\ Len(a) = Len(x)
  BY <1>3, <1>4
<1> QED
  BY <1>1, <1>2, <1>5

LEMMA TotalOfNothing ==
  ASSUME NEW x \in Seq(Installment), \A i \in 1..Len(x) : x[i] = Nothing
  PROVE  Total(x) = 0
<1>1. \A i \in 1..Len(x) : Amount(x[i]) = 0
  BY DEF Amount, Nothing
<1> HIDE DEF Amount
<1> DEFINE a == [i \in 1..Len(x) |-> Amount(x[i])]
<1>2. a \in Seq(Int) /\ Len(a) = Len(x) /\ Total(x) = SumOf(a)
  BY TotalIs
<1>3. \A i \in 1..Len(a) : a[i] = 0
  BY <1>1, <1>2
<1> HIDE DEF a
<1> QED
  BY <1>2, <1>3, SumZero

LEMMA TotalMonotone ==
  ASSUME NEW x \in Seq(Installment), NEW y \in Seq(Installment), Len(y) = Len(x),
         \A i \in 1..Len(x) : x[i].principal <= y[i].principal /\ x[i].interest <= y[i].interest
  PROVE  Total(x) <= Total(y)
<1> DEFINE a == [i \in 1..Len(x) |-> Amount(x[i])]
           b == [i \in 1..Len(y) |-> Amount(y[i])]
<1>1. /\ a \in Seq(Int) /\ Len(a) = Len(x) /\ Total(x) = SumOf(a)
      /\ b \in Seq(Int) /\ Len(b) = Len(y) /\ Total(y) = SumOf(b)
  BY TotalIs
<1>2. ASSUME NEW i \in 1..Len(x)
      PROVE  Amount(x[i]) <= Amount(y[i])
  <2>1. x[i] \in Installment /\ y[i] \in Installment
    OBVIOUS
  <2> QED
    BY <2>1 DEF Amount, Installment
<1> HIDE DEF Amount
<1>3. \A i \in 1..Len(a) : a[i] <= b[i]
  BY <1>1, <1>2
<1> HIDE DEF a, b
<1> QED
  BY <1>1, <1>3, SumMonotone

LEMMA TotalTyped ==
  ASSUME NEW x \in Seq(Installment)
  PROVE  Total(x) \in Nat
<1> DEFINE none == [i \in 1..Len(x) |-> Nothing]
<1>1. none \in Seq(Installment) /\ Len(none) = Len(x) /\ \A i \in 1..Len(x) : none[i] = Nothing
  BY DEF Installment, Nothing
<1> HIDE DEF none
<1>2. Total(none) = 0
  BY <1>1, TotalOfNothing
<1>3. Total(none) <= Total(x)
  <2>1. ASSUME NEW i \in 1..Len(none)
        PROVE  none[i].principal <= x[i].principal /\ none[i].interest <= x[i].interest
    <3>1. x[i] \in Installment /\ none[i] = Nothing
      BY <1>1
    <3> QED
      BY <3>1 DEF Installment, Nothing
  <2> QED
    BY <1>1, <2>1, TotalMonotone
<1>4. Total(x) \in Int
  BY TotalIs, SumTyped
<1> QED
  BY <1>2, <1>3, <1>4

LEMMA TotalReplace ==
  ASSUME NEW x \in Seq(Installment), NEW y \in Seq(Installment), Len(y) = Len(x),
         NEW k \in 1..Len(x), \A i \in 1..Len(x) : i # k => y[i] = x[i]
  PROVE  Total(y) = Total(x) - Amount(x[k]) + Amount(y[k])
<1> DEFINE a == [i \in 1..Len(x) |-> Amount(x[i])]
           b == [i \in 1..Len(y) |-> Amount(y[i])]
<1>1. /\ a \in Seq(Int) /\ Len(a) = Len(x) /\ Total(x) = SumOf(a)
      /\ b \in Seq(Int) /\ Len(b) = Len(y) /\ Total(y) = SumOf(b)
  BY TotalIs
<1>2. /\ \A i \in 1..Len(a) : i # k => b[i] = a[i]
      /\ a[k] = Amount(x[k]) /\ b[k] = Amount(y[k]) /\ k \in 1..Len(a)
  BY <1>1
<1> HIDE DEF a, b
<1>3. SumOf(b) = SumOf(a) - a[k] + b[k]
  BY <1>1, <1>2, SumReplace
<1> QED
  BY <1>1, <1>2, <1>3

LEMMA TotalInOrder ==
  ASSUME NEW due \in Seq(Installment), NEW got \in Seq(Installment), InOrder(due, got)
  PROVE  /\ Total(got) \in Nat /\ Total(due) \in Nat /\ Total(got) <= Total(due)
         /\ Outstanding(due, got) = Total(due) - Total(got)
<1>1. Total(got) <= Total(due)
  BY TotalMonotone DEF InOrder
<1> QED
  BY <1>1, TotalTyped DEF Outstanding

LEMMA ReceivedIs ==
  ASSUME NEW ledger \in Seq(Row), NEW l
  PROVE  LET a == [i \in 1..Len(ledger) |-> IF ledger[i].loan = l THEN ledger[i].amount ELSE 0]
         IN  a \in Seq(Int) /\ Len(a) = Len(ledger) /\ Received(l, ledger) = SumOf(a)
<1> DEFINE a == [i \in 1..Len(ledger) |-> IF ledger[i].loan = l THEN ledger[i].amount ELSE 0]
<1>1. ASSUME NEW i \in 1..Len(ledger)
      PROVE  (IF ledger[i].loan = l THEN ledger[i].amount ELSE 0) \in Int
  <2>1. ledger[i] \in Row
    OBVIOUS
  <2> QED
    BY <2>1 DEF Row
<1>2. a \in Seq(Int) /\ Len(a) = Len(ledger)
  <2>1. Len(ledger) \in Nat
    OBVIOUS
  <2> QED
    BY <1>1, <2>1
<1> QED
  BY <1>2 DEF Received

LEMMA ReceivedNothing ==
  ASSUME NEW ledger \in Seq(Row), ledger = <<>>, NEW l
  PROVE  Received(l, ledger) = 0
<1> DEFINE a == [i \in 1..Len(ledger) |-> IF ledger[i].loan = l THEN ledger[i].amount ELSE 0]
<1>1. a \in Seq(Int) /\ Len(a) = Len(ledger) /\ Received(l, ledger) = SumOf(a)
  BY ReceivedIs
<1>2. Len(ledger) = 0
  OBVIOUS
<1> HIDE DEF a
<1>3. \A i \in 1..Len(a) : a[i] = 0
  BY <1>1, <1>2
<1> QED
  BY <1>1, <1>3, SumZero

LEMMA ReceivedMore ==
  ASSUME NEW ledger \in Seq(Row), NEW row \in Row, NEW l
  PROVE  Received(l, Append(ledger, row))
           = Received(l, ledger) + (IF row.loan = l THEN row.amount ELSE 0)
<1> DEFINE more == Append(ledger, row)
           x == IF row.loan = l THEN row.amount ELSE 0
           a == [i \in 1..Len(ledger) |-> IF ledger[i].loan = l THEN ledger[i].amount ELSE 0]
           b == [i \in 1..Len(more) |-> IF more[i].loan = l THEN more[i].amount ELSE 0]
<1>1. more \in Seq(Row) /\ x \in Int
  BY DEF Row
<1>2. /\ Len(more) = Len(ledger) + 1 /\ more[Len(more)] = row
      /\ \A i \in 1..Len(ledger) : more[i] = ledger[i]
  OBVIOUS
<1>3. a \in Seq(Int) /\ Len(a) = Len(ledger) /\ Received(l, ledger) = SumOf(a)
  BY ReceivedIs
<1> HIDE DEF more
<1>4. b \in Seq(Int) /\ Len(b) = Len(more) /\ Received(l, more) = SumOf(b)
  BY <1>1, ReceivedIs
<1>5. /\ Len(b) = Len(a) + 1 /\ b[Len(b)] = x
      /\ \A i \in 1..Len(a) : b[i] = a[i]
  BY <1>2, <1>3, <1>4
<1> HIDE DEF a, b, x
<1>6. SumOf(b) = SumOf(a) + x
  BY <1>1, <1>3, <1>4, <1>5, SumAppend
<1> QED
  BY <1>3, <1>4, <1>6 DEF more, x

-----------------------------------------------------------------------------
(***************************************************************************)
(* The level payment.  Powers grow with their base, so that the payment    *)
(* covers the interest and no installment has a negative principal.        *)
(***************************************************************************)
LEMMA ProductOrder ==
  ASSUME NEW x \in Nat, NEW y \in Nat, NEW k \in Nat, x <= y
  PROVE  x * k <= y * k /\ x * k \in Nat /\ y * k \in Nat
<1>1. y - x \in Nat /\ y = x + (y - x)
  OBVIOUS
<1>2. (y - x) * k \in Nat
  BY <1>1
<1>3. y * k = x * k + (y - x) * k
  BY <1>1
<1>4. x * k \in Nat
  OBVIOUS
<1> QED
  BY <1>2, <1>3, <1>4

LEMMA PowerOf ==
  ASSUME NEW x \in Nat \ {0}, NEW n \in Nat
  PROVE  \E p \in [0..n -> Nat \ {0}] :
            /\ Power(x, n) = p[n] /\ p[0] = 1
            /\ \A i \in 1..n : p[i] = x * p[i - 1]
<1> DEFINE V == Nat \ {0}
           power[i \in 0..n] == IF i = 0 THEN 1 ELSE x * power[i - 1]
           step == [i \in 1..n |-> [v \in V |-> x * v]]
<1>1. \A v \in V : x * v \in V
  OBVIOUS
<1>2. step \in [1..n -> [V -> V]]
  BY <1>1
<1>3. \A i \in 1..n, v \in V : step[i][v] = x * v
  OBVIOUS
<1>4. 1 \in V
  OBVIOUS
<1> HIDE DEF step, V
<1>5. PICK p : Recurs(p, n, V, 1, step)
  BY <1>2, <1>4, Recursion
<1>6. ASSUME NEW i \in 1..n PROVE p[i] = x * p[i - 1]
  <2>1. i - 1 \in 0..n
    OBVIOUS
  <2>2. p[i - 1] \in V
    BY <2>1, <1>5 DEF Recurs
  <2> QED
    BY <2>2, <1>3, <1>5 DEF Recurs
<1>7. p = [i \in 0..n |-> IF i = 0 THEN 1 ELSE x * p[i - 1]]
  BY <1>5, <1>6 DEF Recurs
<1>8. power = [i \in 0..n |-> IF i = 0 THEN 1 ELSE x * power[i - 1]]
  BY <1>7
<1>9. Power(x, n) = power[n]
  BY DEF Power
<1> HIDE DEF power
<1>10. \A m \in 0..n : power[m] = p[m]
  <2> DEFINE T == {m \in 0..n : power[m] = p[m]}
  <2>1. 0 \in T
    BY <1>5, <1>8 DEF Recurs
  <2>2. ASSUME NEW m \in 0..(n - 1), m \in T
        PROVE  m + 1 \in T
    BY <2>2, <1>6, <1>8
  <2> HIDE DEF T
  <2>3. \A m \in 0..n : m \in T
    BY <2>1, <2>2, Induction
  <2> QED
    BY <2>3 DEF T
<1> QED
  <2>1. p \in [0..n -> Nat \ {0}] /\ p[0] = 1
    BY <1>5 DEF V, Recurs
  <2>2. Power(x, n) = p[n]
    BY <1>9, <1>10
  <2> QED
    BY <1>6, <2>1, <2>2

LEMMA PowersGrow ==
  ASSUME NEW x \in Nat \ {0}, NEW y \in Nat \ {0}, x <= y, NEW n \in Nat \ {0}
  PROVE  /\ Power(x, n) \in Nat \ {0} /\ Power(y, n) \in Nat \ {0}
         /\ x < y => Power(x, n) < Power(y, n)
<1>1. PICK p \in [0..n -> Nat \ {0}] :
        /\ Power(x, n) = p[n] /\ p[0] = 1 /\ \A i \in 1..n : p[i] = x * p[i - 1]
  BY PowerOf
<1>2. PICK q \in [0..n -> Nat \ {0}] :
        /\ Power(y, n) = q[n] /\ q[0] = 1 /\ \A i \in 1..n : q[i] = y * q[i - 1]
  BY PowerOf
<1> DEFINE T == {m \in 0..n : p[m] <= q[m]}
<1>3. 0 \in T
  BY <1>1, <1>2
<1>4. ASSUME NEW m \in 0..(n - 1), m \in T
      PROVE  m + 1 \in T
  <2>1. /\ m + 1 \in 1..n /\ m \in 0..n /\ p[m] <= q[m]
        /\ p[m + 1] = x * p[m] /\ q[m + 1] = y * q[m]
    <3>1. m + 1 \in 1..n /\ (m + 1) - 1 = m /\ m \in 0..n /\ p[m] <= q[m]
      BY <1>4
    <3> HIDE DEF T
    <3>2. /\ p[m + 1] = x * p[(m + 1) - 1] /\ q[m + 1] = y * q[(m + 1) - 1]
      BY <1>1, <1>2, <3>1
    <3> QED
      BY <3>1, <3>2
  <2>2. p[m] \in Nat /\ q[m] \in Nat
    BY <2>1
  <2>3. p[m] * x <= q[m] * x /\ x * q[m] <= y * q[m]
        /\ p[m] * x \in Nat /\ q[m] * x \in Nat /\ y * q[m] \in Nat
    BY <2>1, <2>2, ProductOrder
  <2>4. p[m] * x = x * p[m] /\ q[m] * x = x * q[m]
    BY <2>2
  <2>5. p[m + 1] <= q[m + 1]
    BY <2>1, <2>3, <2>4
  <2> QED
    BY <2>1, <2>5
<1> HIDE DEF T
<1>5. \A m \in 0..n : m \in T
  BY <1>3, <1>4, Induction
<1>6. n - 1 \in 0..n /\ n \in 1..n
  OBVIOUS
<1>7. p[n - 1] <= q[n - 1] /\ p[n] = x * p[n - 1] /\ q[n] = y * q[n - 1]
  BY <1>1, <1>2, <1>5, <1>6 DEF T
<1>8. p[n - 1] \in Nat \ {0} /\ q[n - 1] \in Nat \ {0} /\ p[n] \in Nat \ {0} /\ q[n] \in Nat \ {0}
  BY <1>6
<1>9. ASSUME x < y PROVE p[n] < q[n]
  <2> DEFINE u == p[n - 1]
             v == q[n - 1]
  <2>0. u \in Nat \ {0} /\ v \in Nat \ {0} /\ u <= v
    BY <1>7, <1>8
  <2> HIDE DEF u, v
  <2>1. u * x <= v * x /\ (x + 1) * v <= y * v
    BY <2>0, <1>9, ProductOrder
  <2>2. u * x = x * u /\ v * x = x * v /\ (x + 1) * v = x * v + v
    BY <2>0
  <2>3. x * u \in Nat /\ x * v \in Nat /\ y * v \in Nat
    BY <2>0
  <2>4. x * u < y * v
    <3> DEFINE a == x * u
               b == x * v
               c == y * v
    <3>1. a <= b /\ b + v <= c /\ a \in Nat /\ b \in Nat /\ c \in Nat
      BY <2>1, <2>2, <2>3
    <3> HIDE DEF a, b, c
    <3>2. a < c
      BY <2>0, <3>1
    <3> QED
      BY <3>2 DEF a, c
  <2> QED
    BY <1>7, <2>4 DEF u, v
<1> QED
  BY <1>1, <1>2, <1>8, <1>9

\* More than minus half a cent is not rounded below zero.
LEMMA MoneyTyped ==
  ASSUME NEW n \in Int, NEW d \in Nat \ {0}, 0 < 2 * n + d
  PROVE  Money(n, d) \in Nat
<1>1. CASE n >= 0
  <2>1. 2 * n + d \in Nat /\ 2 * d \in Nat \ {0}
    BY <1>1
  <2>2. (2 * n + d) \div (2 * d) \in Nat
    BY <2>1
  <2> QED
    BY <1>1, <2>2 DEF Money
<1>2. CASE n < 0
  <2>1. d - 2 * n \in 0..(2 * d - 1) /\ 2 * d \in Nat \ {0}
    BY <1>2
  <2>2. (d - 2 * n) \div (2 * d) = 0
    BY <2>1
  <2> QED
    BY <1>2, <2>2 DEF Money
<1> QED
  BY <1>1, <1>2

LEMMA MoneyBounded ==
  ASSUME NEW n \in Nat, NEW d \in Nat \ {0}
  PROVE  Money(n, d) \in Nat /\ (2 * d) * Money(n, d) <= 2 * n + d
<1> DEFINE m == 2 * n + d
           e == 2 * d
<1>1. m \in Nat /\ e \in Nat \ {0} /\ Money(n, d) = m \div e
  BY DEF Money
<1> HIDE DEF m, e
<1>2. m \div e \in Nat /\ e * (m \div e) <= m
  BY <1>1
<1> QED
  BY <1>1, <1>2 DEF m, e

LEMMA PaymentCovers ==
  ASSUME NEW P \in Nat, NEW b \in Nat, b <= P, P # 0, NEW num \in Nat \ {0},
         NEW den \in Nat \ {0}, NEW g \in Nat, NEW u \in Nat \ {0}, u < g,
         NEW I \in Nat, (2 * den) * I <= 2 * (b * num) + den
  PROVE  /\ den * (g - u) \in Nat \ {0} /\ P * num * g - I * (den * (g - u)) \in Int
         /\ 0 < 2 * (P * num * g - I * (den * (g - u))) + den * (g - u)
<1> DEFINE e == g - u
           k == P * num
           j == b * num
           d == den * e
<1>1. e \in Nat \ {0} /\ g = e + u
  OBVIOUS
<1>2. j <= k /\ j \in Nat /\ k \in Nat /\ k # 0
  <2>1. P * num \in Nat \ {0}
    OBVIOUS
  <2> QED
    BY <2>1, ProductOrder
<1> HIDE DEF e, k, j
<1>3. d \in Nat \ {0}
  BY <1>1
<1>4. ((2 * den) * I) * e <= (2 * k + den) * e
  <2> DEFINE x == (2 * den) * I
             y == 2 * k + den
  <2>1. x \in Nat /\ y \in Nat
    BY <1>2
  <2>2. x <= y
    <3>1. x <= 2 * j + den
      BY DEF j
    <3> HIDE DEF x
    <3> QED
      BY <1>2, <2>1, <3>1
  <2> HIDE DEF x, y
  <2>3. x * e <= y * e
    BY <1>1, <2>1, <2>2, ProductOrder
  <2> QED
    BY <2>3 DEF x, y
<1>5. ((2 * den) * I) * e = 2 * (I * d) /\ (2 * k + den) * e = 2 * (k * e) + d
  BY <1>1, <1>2
<1>6. k * g = k * e + k * u /\ k * u \in Nat \ {0} /\ k * e \in Nat /\ I * d \in Nat
      /\ k * g \in Nat
  BY <1>1, <1>2, <1>3
<1> HIDE DEF d
<1>7. 0 < 2 * (k * g - I * d) + d /\ k * g - I * d \in Int
  <2> DEFINE kg == k * g
             ke == k * e
             ku == k * u
             id == I * d
  <2>1. /\ 2 * id <= 2 * ke + d /\ kg = ke + ku
        /\ ku \in Nat \ {0} /\ ke \in Nat /\ id \in Nat /\ kg \in Nat
    BY <1>4, <1>5, <1>6
  <2> HIDE DEF kg, ke, ku, id
  <2>2. 0 < 2 * (kg - id) + d /\ kg - id \in Int
    BY <1>3, <2>1
  <2> QED
    BY <2>2 DEF kg, id
<1> QED
  BY <1>3, <1>7 DEF k, d, e

LEMMA PrincipalIs ==
  ASSUME NEW t, Terms(t), NEW i \in 1..t.tenor, NEW b \in 0..t.principal
  PROVE  PrincipalOf(t, i, b) \in 0..b
<1> DEFINE p == Payment(t)
           paying == Money(p.n - InterestOn(t, b) * p.d, p.d)
           g == Power(t.num + t.den, t.tenor)
           u == Power(t.den, t.tenor)
           I == InterestOn(t, b)
<1>1. /\ t.principal \in Nat \ {0} /\ t.tenor \in Nat \ {0}
      /\ t.num \in Nat /\ t.den \in Nat \ {0} /\ b \in Nat
  BY DEF Terms
<1>2. b * t.num \in Nat
  BY <1>1
<1>3. I \in Nat /\ (2 * t.den) * I <= 2 * (b * t.num) + t.den
  BY <1>1, <1>2, MoneyBounded DEF InterestOn
<1>4. paying \in Nat
  <2>1. CASE t.num = 0
    <3>1. p.n = t.principal /\ p.d = t.tenor
      BY <2>1 DEF Payment
    <3>2. I = 0
      <4>1. b * t.num = 0
        BY <1>1, <2>1
      <4> HIDE DEF I
      <4>2. (2 * t.den) * I <= t.den
        <5> DEFINE j == b * t.num
        <5>1. j = 0 /\ (2 * t.den) * I <= 2 * j + t.den
          BY <1>3, <4>1
        <5> HIDE DEF j
        <5> QED
          BY <1>1, <5>1
      <4>3. I # 0 => (2 * t.den) * I >= 2 * t.den
        <5>1. SUFFICES ASSUME I # 0 PROVE (2 * t.den) * I >= 2 * t.den
          OBVIOUS
        <5>2. 1 * (2 * t.den) <= I * (2 * t.den)
          BY <1>1, <1>3, <5>1, ProductOrder
        <5> QED
          BY <1>1, <1>3, <5>2
      <4> QED
        BY <1>1, <1>3, <4>2, <4>3
    <3>3. I * p.d = 0
      <4> HIDE DEF I, p
      <4> QED
        BY <1>1, <3>1, <3>2
    <3>4. p.n - I * p.d = t.principal
      <4> HIDE DEF I, p
      <4> QED
        BY <1>1, <3>1, <3>3
    <3> HIDE DEF I, p
    <3>5. Money(p.n - I * p.d, p.d) \in Nat
      BY <1>1, <3>1, <3>4, MoneyTyped
    <3> QED
      BY <3>5 DEF I, p
  <2>2. CASE t.num # 0
    <3>1. t.num + t.den \in Nat \ {0} /\ t.den <= t.num + t.den /\ t.den < t.num + t.den
      BY <1>1, <2>2
    <3>2. g \in Nat /\ u \in Nat \ {0} /\ u < g
      BY <1>1, <3>1, PowersGrow
    <3>3. p.n = t.principal * t.num * g /\ p.d = t.den * (g - u)
      BY <2>2 DEF Payment
    <3> HIDE DEF g, u, I, p
    <3>4. p.d \in Nat \ {0} /\ p.n - I * p.d \in Int /\ 0 < 2 * (p.n - I * p.d) + p.d
      <4>1. t.num \in Nat \ {0} /\ b <= t.principal
        BY <1>1, <2>2
      <4>2. /\ t.den * (g - u) \in Nat \ {0}
            /\ t.principal * t.num * g - I * (t.den * (g - u)) \in Int
            /\ 0 < 2 * (t.principal * t.num * g - I * (t.den * (g - u))) + t.den * (g - u)
        BY <1>1, <1>3, <3>2, <4>1, PaymentCovers
      <4> QED
        BY <3>3, <4>2
    <3>5. Money(p.n - I * p.d, p.d) \in Nat
      BY <3>4, MoneyTyped
    <3> QED
      BY <3>5 DEF I, p
  <2> QED
    BY <2>1, <2>2
<1>5. PrincipalOf(t, i, b) = IF i = t.tenor THEN b ELSE Lesser(paying, b)
  BY DEF PrincipalOf
<1> HIDE DEF paying
<1> QED
  BY <1>1, <1>4, <1>5 DEF Lesser

(***************************************************************************)
(* The schedule of a contract.                                             *)
(***************************************************************************)
\* What is left after each installment, down to nothing.
Balances(left, t, due) ==
  /\ left \in [0..t.tenor -> Nat] /\ left[0] = t.principal /\ left[t.tenor] = 0
  /\ \A i \in 1..t.tenor : /\ due[i].principal = left[i - 1] - left[i]
                           /\ due[i].principal \in Nat
                           /\ due[i].interest = InterestOn(t, left[i - 1])

\* The schedule of any terms pays them off: as many installments as months,
\* none with a negative amount, the last one leaving nothing, and the interest
\* of each that of the balance before it (build_amortization_schedule).
THEOREM ScheduleAmortizes ==
  ASSUME NEW t, Terms(t)
  PROVE  /\ BuildAmortizationSchedule(t) \in Seq(Installment)
         /\ Len(BuildAmortizationSchedule(t)) = t.tenor
         /\ \E left : Balances(left, t, BuildAmortizationSchedule(t))
<1> DEFINE n == t.tenor
           V == 0..t.principal
           step == [i \in 1..n |-> [v \in V |-> v - PrincipalOf(t, i, v)]]
           due == BuildAmortizationSchedule(t)
           left[i \in 0..n] == IF i = 0 THEN t.principal
                               ELSE left[i - 1] - PrincipalOf(t, i, left[i - 1])
<1>1. n \in Nat \ {0} /\ t.principal \in Nat
  BY DEF Terms
<1>2. ASSUME NEW i \in 1..n, NEW v \in V
      PROVE  PrincipalOf(t, i, v) \in 0..v /\ v - PrincipalOf(t, i, v) \in V
  <2>1. PrincipalOf(t, i, v) \in 0..v
    BY PrincipalIs
  <2> QED
    BY <1>1, <2>1
<1>3. step \in [1..n -> [V -> V]] /\ t.principal \in V
  BY <1>1, <1>2
<1>4. \A i \in 1..n, v \in V : step[i][v] = v - PrincipalOf(t, i, v)
  OBVIOUS
<1> HIDE DEF step, V, n
<1>5. PICK s : Recurs(s, n, V, t.principal, step)
  BY <1>1, <1>3, Recursion
<1>6. ASSUME NEW i \in 1..n
      PROVE  /\ s[i - 1] \in V /\ s[i] = s[i - 1] - PrincipalOf(t, i, s[i - 1])
             /\ PrincipalOf(t, i, s[i - 1]) \in 0..s[i - 1]
  <2>1. i - 1 \in 0..n
    BY <1>1
  <2>2. s[i - 1] \in V
    BY <2>1, <1>5 DEF Recurs
  <2> QED
    BY <2>2, <1>2, <1>4, <1>5 DEF Recurs
<1>7. s \in [0..n -> Nat] /\ s[0] = t.principal
  BY <1>5 DEF Recurs, V
<1>8. s = [i \in 0..n |-> IF i = 0 THEN t.principal
                          ELSE s[i - 1] - PrincipalOf(t, i, s[i - 1])]
  BY <1>1, <1>6, <1>7
<1>9. left = [i \in 0..n |-> IF i = 0 THEN t.principal
                             ELSE left[i - 1] - PrincipalOf(t, i, left[i - 1])]
  BY <1>8
<1>10. due = [i \in 1..n |-> [principal |-> PrincipalOf(t, i, left[i - 1]),
                              interest |-> InterestOn(t, left[i - 1])]]
  BY DEF BuildAmortizationSchedule, n
<1> HIDE DEF left, due
<1>11. \A m \in 0..n : left[m] = s[m]
  <2> DEFINE T == {m \in 0..n : left[m] = s[m]}
  <2>1. 0 \in T
    BY <1>1, <1>7, <1>9
  <2>2. ASSUME NEW m \in 0..(n - 1), m \in T
        PROVE  m + 1 \in T
    <3>1. m + 1 \in 1..n /\ m + 1 \in 0..n /\ (m + 1) - 1 = m /\ m + 1 # 0 /\ left[m] = s[m]
      BY <1>1, <2>2
    <3>2. left[m + 1] = left[m] - PrincipalOf(t, m + 1, left[m])
      BY <3>1, <1>9
    <3>3. s[m + 1] = s[m] - PrincipalOf(t, m + 1, s[m])
      BY <3>1, <1>6
    <3> QED
      BY <3>1, <3>2, <3>3
  <2> HIDE DEF T
  <2>3. \A m \in 0..n : m \in T
    BY <1>1, <2>1, <2>2, Induction
  <2> QED
    BY <2>3 DEF T
<1>12. ASSUME NEW i \in 1..n
       PROVE  /\ due[i] \in Installment /\ s[i - 1] \in Nat
              /\ due[i].principal = PrincipalOf(t, i, s[i - 1])
              /\ due[i].interest = InterestOn(t, s[i - 1])
  <2> DEFINE principal == PrincipalOf(t, i, s[i - 1])
             interest == InterestOn(t, s[i - 1])
  <2>1. i - 1 \in 0..n
    BY <1>1
  <2>2. left[i - 1] = s[i - 1] /\ s[i - 1] \in Nat
    BY <2>1, <1>7, <1>11
  <2>3. s[i - 1] * t.num \in Nat /\ t.den \in Nat \ {0}
    BY <2>2 DEF Terms
  <2>4. interest \in Nat
    BY <2>3, MoneyBounded DEF InterestOn
  <2>5. principal \in Nat
    BY <1>6, <2>2
  <2>6. due[i] = [principal |-> principal, interest |-> interest]
    BY <1>10, <2>2
  <2> HIDE DEF principal, interest
  <2>7. /\ due[i] \in Installment
        /\ due[i].principal = principal /\ due[i].interest = interest
    BY <2>4, <2>5, <2>6 DEF Installment
  <2> QED
    BY <2>2, <2>7 DEF principal, interest
<1>13. due \in Seq(Installment) /\ Len(due) = n
  <2>1. \A i \in 1..n : due[i] \in Installment
    BY <1>12
  <2>2. due = [i \in 1..n |-> due[i]]
    BY <1>10
  <2> HIDE DEF due
  <2> QED
    BY <1>1, <2>1, <2>2
<1>14. s[n] = 0
  <2>1. n \in 1..n
    BY <1>1
  <2>2. s[n] = s[n - 1] - PrincipalOf(t, n, s[n - 1]) /\ s[n - 1] \in Nat
    BY <2>1, <1>6, <1>12
  <2>3. PrincipalOf(t, n, s[n - 1]) = s[n - 1]
    BY DEF PrincipalOf, n
  <2> QED
    BY <2>2, <2>3
<1>15. ASSUME NEW i \in 1..n
       PROVE  /\ due[i].principal = s[i - 1] - s[i] /\ due[i].principal \in Nat
              /\ due[i].interest = InterestOn(t, s[i - 1])
  <2> DEFINE principal == PrincipalOf(t, i, s[i - 1])
  <2>1. /\ due[i].principal = principal /\ due[i].interest = InterestOn(t, s[i - 1])
        /\ s[i - 1] \in Nat
    BY <1>12
  <2>2. s[i] = s[i - 1] - principal /\ principal \in 0..s[i - 1]
    BY <1>6
  <2> HIDE DEF principal
  <2> QED
    BY <2>1, <2>2
<1>16. Balances(s, t, due)
  BY <1>7, <1>14, <1>15 DEF Balances, n
<1> QED
  BY <1>13, <1>16 DEF due, n

LEMMA PrincipalsAddUp ==
  ASSUME NEW t, Terms(t)
  PROVE  LET due == BuildAmortizationSchedule(t) IN
         SumOf([i \in 1..Len(due) |-> due[i].principal]) = t.principal
<1> DEFINE n == t.tenor
           due == BuildAmortizationSchedule(t)
           a == [i \in 1..Len(due) |-> due[i].principal]
<1>0. PICK left : Balances(left, t, due)
  BY ScheduleAmortizes
<1>1. /\ left \in [0..n -> Nat] /\ left[0] = t.principal /\ left[n] = 0
      /\ Len(due) = n
      /\ \A i \in 1..n : /\ due[i].principal \in Nat
                         /\ due[i].principal = left[i - 1] - left[i]
  BY <1>0, ScheduleAmortizes DEF Balances
<1>2. n \in Nat \ {0} /\ t.principal \in Nat
  BY DEF Terms
<1> HIDE DEF due
<1>3. /\ a \in Seq(Int) /\ Len(a) = n
      /\ \A i \in 1..n : a[i] = due[i].principal
  <2>1. Len(due) = n /\ n \in Nat /\ \A i \in 1..n : due[i].principal \in Int
    BY <1>1, <1>2
  <2> HIDE DEF n
  <2>2. a = [i \in 1..n |-> due[i].principal]
    BY <2>1
  <2> HIDE DEF a
  <2> QED
    BY <2>1, <2>2
<1> HIDE DEF a
<1> DEFINE s == [i \in 0..n |-> t.principal - left[i]]
<1>4. SumsUp(s, a)
  <2>1. s \in [0..Len(a) -> Int] /\ s[0] = 0
    BY <1>1, <1>2, <1>3
  <2>2. ASSUME NEW i \in 1..Len(a)
        PROVE  s[i] = s[i - 1] + a[i]
    <3>1. i \in 1..n /\ i \in 0..n /\ i - 1 \in 0..n
      BY <1>2, <1>3
    <3>2. s[i] = t.principal - left[i] /\ s[i - 1] = t.principal - left[i - 1]
      BY <3>1
    <3>3. a[i] = left[i - 1] - left[i] /\ left[i - 1] \in Nat /\ left[i] \in Nat
      BY <3>1, <1>1, <1>3
    <3> HIDE DEF s, n
    <3> QED
      BY <3>2, <3>3, <1>2
  <2> QED
    BY <2>1, <2>2 DEF SumsUp
<1>5. SumOf(a) = s[n]
  <2> HIDE DEF s, n
  <2> QED
    BY <1>3, <1>4, SumIs
<1>6. s[n] = t.principal
  BY <1>1, <1>2
<1> QED
  BY <1>5, <1>6 DEF a, due

(***************************************************************************)
(* Interest never rises, and due dates ascend.                             *)
(***************************************************************************)
LEMMA QuotientOrder ==
  ASSUME NEW x \in Nat, NEW y \in Nat, NEW d \in Nat \ {0}, x <= y
  PROVE  x \div d <= y \div d
<1> DEFINE p == x \div d
           q == y \div d
<1>1. p \in Nat /\ q \in Nat /\ x = d * p + (x % d) /\ y = d * q + (y % d)
      /\ x % d \in 0..(d - 1) /\ y % d \in 0..(d - 1)
  OBVIOUS
<1> HIDE DEF p, q
<1>2. SUFFICES ASSUME q < p PROVE FALSE
  BY <1>1 DEF p, q
<1>3. q + 1 <= p /\ q + 1 \in Nat
  BY <1>1, <1>2
<1>4. (q + 1) * d <= p * d
  BY <1>1, <1>3, ProductOrder
<1>5. (q + 1) * d = d * q + d /\ p * d = d * p
  BY <1>1
<1>6. d * q \in Nat /\ d * p \in Nat
  BY <1>1
<1> QED
  BY <1>1, <1>4, <1>5, <1>6

LEMMA InterestOrder ==
  ASSUME NEW t, Terms(t), NEW x \in Nat, NEW y \in Nat, x <= y
  PROVE  InterestOn(t, x) <= InterestOn(t, y)
<1> DEFINE m == x * t.num
           n == y * t.num
<1>1. t.num \in Nat /\ t.den \in Nat \ {0}
  BY DEF Terms
<1>2. m <= n /\ m \in Nat /\ n \in Nat
  BY <1>1, ProductOrder
<1> HIDE DEF m, n
<1>3. 2 * m + t.den <= 2 * n + t.den /\ 2 * m + t.den \in Nat /\ 2 * n + t.den \in Nat
      /\ 2 * t.den \in Nat \ {0}
  BY <1>1, <1>2
<1>4. (2 * m + t.den) \div (2 * t.den) <= (2 * n + t.den) \div (2 * t.den)
  BY <1>3, QuotientOrder
<1>5. Money(m, t.den) <= Money(n, t.den)
  BY <1>2, <1>4 DEF Money
<1> QED
  BY <1>5 DEF InterestOn, m, n

LEMMA InterestNeverRises ==
  ASSUME NEW t, Terms(t),
         NEW i \in 2..Len(BuildAmortizationSchedule(t))
  PROVE  LET due == BuildAmortizationSchedule(t) IN due[i].interest <= due[i - 1].interest
<1> DEFINE n == t.tenor
           due == BuildAmortizationSchedule(t)
<1>0. PICK left : Balances(left, t, due)
  BY ScheduleAmortizes
<1>1. /\ left \in [0..n -> Nat] /\ Len(due) = n
      /\ \A j \in 1..n : /\ due[j].principal \in Nat
                         /\ due[j].principal = left[j - 1] - left[j]
                         /\ due[j].interest = InterestOn(t, left[j - 1])
  BY <1>0, ScheduleAmortizes DEF Balances
<1>2. n \in Nat \ {0}
  BY DEF Terms
<1> HIDE DEF due, n
<1>3. i \in 1..n /\ i - 1 \in 1..n /\ i - 1 \in 0..n /\ (i - 1) - 1 \in 0..n
  BY <1>1, <1>2 DEF due
<1>4. /\ due[i].interest = InterestOn(t, left[i - 1])
      /\ due[i - 1].interest = InterestOn(t, left[(i - 1) - 1])
      /\ due[i - 1].principal = left[(i - 1) - 1] - left[i - 1]
      /\ due[i - 1].principal \in Nat
  BY <1>1, <1>3
<1>5. left[i - 1] \in Nat /\ left[(i - 1) - 1] \in Nat
  BY <1>1, <1>3
<1>6. left[i - 1] <= left[(i - 1) - 1]
  BY <1>4, <1>5
<1>7. InterestOn(t, left[i - 1]) <= InterestOn(t, left[(i - 1) - 1])
  BY <1>5, <1>6, InterestOrder
<1> QED
  BY <1>4, <1>7 DEF due

LEMMA DueDatesAscend ==
  ASSUME NEW t, Terms(t), NEW i \in Nat, i >= 2
  PROVE  Earlier(DueDate(t, i - 1), DueDate(t, i))
<1> DEFINE y == t.first.year
           m == t.first.month
           a == m - 1 + ((i - 1) - 1)
           b == m - 1 + (i - 1)
           p == DueDate(t, i - 1)
           q == DueDate(t, i)
<1>1. y \in Nat /\ m \in 1..12
  BY DEF Terms, Date
<1>2. /\ p.year = y + (a \div 12) /\ p.month = (a % 12) + 1
      /\ q.year = y + (b \div 12) /\ q.month = (b % 12) + 1
  BY DEF DueDate, AddMonths
<1> HIDE DEF p, q
<1>3. a \in Nat /\ b = a + 1
  BY <1>1
<1> HIDE DEF a, b
<1>4. \/ b \div 12 = a \div 12 /\ b % 12 = (a % 12) + 1
      \/ b \div 12 = (a \div 12) + 1
  BY <1>3
<1>5. a \div 12 \in Nat /\ b \div 12 \in Nat /\ a % 12 \in 0..11 /\ b % 12 \in 0..11
  BY <1>3
<1>6. Earlier(p, q)
  <2>1. CASE b \div 12 = a \div 12 /\ b % 12 = (a % 12) + 1
    BY <1>1, <1>2, <1>5, <2>1 DEF Earlier
  <2>2. CASE b \div 12 = (a \div 12) + 1
    BY <1>1, <1>2, <1>5, <2>2 DEF Earlier
  <2> QED
    BY <1>4, <2>1, <2>2
<1> QED
  BY <1>6 DEF p, q

\* What ScheduleReconciles says of one contract.
LEMMA Reconciles ==
  ASSUME NEW t, Terms(t)
  PROVE  LET due == BuildAmortizationSchedule(t) IN
         /\ SumOf([i \in 1..Len(due) |-> due[i].principal]) = t.principal
         /\ \A i \in 2..Len(due) :
              /\ due[i].interest <= due[i - 1].interest
              /\ Earlier(DueDate(t, i - 1), DueDate(t, i))
<1> DEFINE due == BuildAmortizationSchedule(t)
<1>1. SumOf([i \in 1..Len(due) |-> due[i].principal]) = t.principal
  BY PrincipalsAddUp
<1>2. ASSUME NEW i \in 2..Len(due)
      PROVE  due[i].interest <= due[i - 1].interest
  BY InterestNeverRises
<1>3. ASSUME NEW i \in 2..Len(due)
      PROVE  Earlier(DueDate(t, i - 1), DueDate(t, i))
  <2>1. i \in Nat /\ i >= 2
    <3>1. Len(due) \in Nat
      BY ScheduleAmortizes
    <3> HIDE DEF due
    <3> QED
      BY <3>1
  <2> QED
    BY <2>1, DueDatesAscend
<1> QED
  BY <1>1, <1>2, <1>3

\* What is disbursed is owed.
LEMMA SomethingIsOwed ==
  ASSUME NEW t, Terms(t)
  PROVE  Total(BuildAmortizationSchedule(t)) \in Nat \ {0}
<1> DEFINE due == BuildAmortizationSchedule(t)
           a == [i \in 1..Len(due) |-> due[i].principal]
           b == [i \in 1..Len(due) |-> Amount(due[i])]
<1>1. SumOf(a) = t.principal /\ t.principal \in Nat \ {0}
  BY PrincipalsAddUp DEF Terms
<1>8. due \in Seq(Installment)
  BY ScheduleAmortizes
<1>2. b \in Seq(Int) /\ Len(b) = Len(due) /\ Total(due) = SumOf(b) /\ Total(due) \in Nat
  BY <1>8, TotalIs, TotalTyped
<1>3. \A i \in 1..Len(due) : due[i] \in Installment
  BY <1>8
<1>4. Len(due) \in Nat
  BY <1>8
<1> HIDE DEF due
<1>5. \A i \in 1..Len(due) : due[i].principal \in Int /\ due[i].principal <= Amount(due[i])
  BY <1>3 DEF Amount, Installment
<1> HIDE DEF Amount
<1>6. a \in Seq(Int) /\ Len(a) = Len(b) /\ \A i \in 1..Len(a) : a[i] <= b[i]
  BY <1>2, <1>4, <1>5
<1> HIDE DEF a, b
<1>7. SumOf(a) <= SumOf(b)
  BY <1>2, <1>6, SumMonotone
<1> QED
  BY <1>1, <1>2, <1>7 DEF due

-----------------------------------------------------------------------------
(***************************************************************************)
(* The installments' order and the references' owners.                     *)
(***************************************************************************)
IInv == TypeOK /\ Inductive

Requests == Repaying \cup Stating \cup {Idle}

Paying(q) == q.phase \in {"read", "checked", "allocating", "inserted"}
Holding(q) == q.phase \in {"allocating", "inserted"}

\* An action of one session that leaves the rows alone preserves IInv if the
\* request it leaves behind is well-typed, loops in order over installments
\* nobody else holds, and owns its reference once it has inserted it.
LEMMA OneRequest ==
  ASSUME IInv, NEW s \in Sessions, NEW q \in Requests,
         request' = [request EXCEPT ![s] = q],
         UNCHANGED rows, served' \in Nat,
         Paying(q) => contract[q.loan] # NoContract,
         Holding(q) => /\ Loop(q, schedule[q.loan], paid[q.loan])
                       /\ InstallmentsFree(s, q.loan),
         q.phase = "inserted" => /\ ~Recorded(q.reference)
                                 /\ ~InFlight(s, q.reference)
  PROVE  IInv'
<1> USE DEF IInv, Requests
<1>1. TypeOK'
  BY DEF TypeOK, rows
<1>2. /\ request'[s] = q
      /\ \A t \in Sessions \ {s} : request'[t] = request[t]
  BY DEF TypeOK
<1>3. AllocationInOrder' /\ ReferencesUnique'
  BY DEF Inductive, AllocationInOrder, ReferencesUnique, InOrder, rows
<1>4. LocksExclude'
  BY <1>2 DEF Inductive, LocksExclude, HoldsInstallments, InstallmentsFree,
     Holding
<1>5. \A t \in Sessions : LoopInOrder(t)'
  <2> TAKE t \in Sessions
  <2>1. CASE t = s
    BY <1>2, <2>1 DEF LoopInOrder, Holding, rows
  <2>2. CASE t # s
    BY <1>2, <2>2 DEF Inductive, LoopInOrder, rows
  <2> QED
    BY <2>1, <2>2
<1>8. ServicedOnly'
  BY <1>2 DEF Inductive, ServicedOnly, Paying, rows
<1>6. \A reference : Recorded(reference)' <=> Recorded(reference)
  BY DEF Recorded, rows
<1>7. InsertsUnique'
  BY <1>2, <1>6 DEF Inductive, InsertsUnique, InFlight, Working
<1> QED
  BY <1>1, <1>3, <1>4, <1>5, <1>7, <1>8 DEF Inductive

\* Which kind of request is in which phase.
LEMMA KindOfRequest ==
  ASSUME TypeOK, NEW s \in Sessions
  PROVE  /\ request[s] \in Requests
         /\ Paying(request[s]) => request[s] \in Repaying
         /\ request[s].phase \in {"stating", "stated"} => request[s] \in Stating
<1>1. request[s] \in Repaying \cup Stating \cup {Idle}
  BY DEF TypeOK
<1>2. \A q \in Stating : q.phase \in {"stating", "stated"}
  BY DEF Stating
<1>3. \A q \in Repaying :
        q.phase \in {"read", "checked", "allocating", "inserted"}
  BY DEF Repaying
<1> QED
  BY <1>1, <1>2, <1>3 DEF Requests, Paying, Idle

LEMMA InitIInv == Init => IInv
<1> SUFFICES ASSUME Init PROVE IInv
  OBVIOUS
<1> USE DEF Init, Idle, Nothing
<1>1. TypeOK
  <2>1. <<>> \in Seq(Installment) /\ <<>> \in Seq(Row)
    OBVIOUS
  <2> QED
    BY <2>1 DEF TypeOK
<1>2. AllocationInOrder
  BY DEF AllocationInOrder, InOrder
<1>3. LocksExclude /\ \A s \in Sessions : LoopInOrder(s)
  BY DEF LocksExclude, HoldsInstallments, LoopInOrder
<1>4. ReferencesUnique /\ InsertsUnique
  BY DEF ReferencesUnique, InsertsUnique, Working
<1>5. ServicedOnly
  BY DEF ServicedOnly
<1> QED
  BY <1>1, <1>2, <1>3, <1>4, <1>5 DEF IInv, Inductive

LEMMA DisburseIInv ==
  ASSUME IInv, NEW l \in Loans, NEW t \in Contracts[l], Disburse(l, t)
  PROVE  IInv'
<1> DEFINE due == BuildAmortizationSchedule(t)
<1> DEFINE got == [i \in 1..Len(due) |-> Nothing]
<1>1. due \in Seq(Installment)
  BY ScheduleAssumption, ScheduleAmortizes
<1>2. /\ contract[l] = NoContract
      /\ contract' = [contract EXCEPT ![l] = t]
      /\ schedule' = [schedule EXCEPT ![l] = due]
      /\ paid' = [paid EXCEPT ![l] = got]
      /\ UNCHANGED <<repayments, closed, request, served>>
  BY DEF Disburse
<1> HIDE DEF due
<1>3. got \in Seq(Installment) /\ Len(got) = Len(due)
  BY <1>1 DEF Installment, Nothing
<1>4. InOrder(due, got)
  <2>1. \A i \in 1..Len(due) : due[i] \in Installment /\ got[i] = Nothing
    BY <1>1
  <2> HIDE DEF got
  <2> QED
    BY <1>3, <2>1 DEF InOrder, Installment, Nothing
<1> HIDE DEF got
<1>5. TypeOK'
  BY <1>1, <1>2, <1>3 DEF IInv, TypeOK
<1>6. AllocationInOrder'
  BY <1>2, <1>4 DEF IInv, TypeOK, Inductive, AllocationInOrder
<1>7. ServicedOnly' /\ LocksExclude'
  <2>1. t # NoContract
    BY ScheduleAssumption DEF Terms, NoContract
  <2> QED
    BY <1>2, <2>1 DEF IInv, TypeOK, Inductive, ServicedOnly, LocksExclude,
       HoldsInstallments
<1>8. ASSUME NEW s \in Sessions PROVE LoopInOrder(s)'
  <2>1. CASE Holding(request[s])
    <3>1. request[s].loan # l
      BY <1>2, <2>1 DEF IInv, Inductive, ServicedOnly, Holding
    <3> QED
      BY <1>2, <3>1 DEF IInv, TypeOK, Inductive, LoopInOrder
  <2> QED
    BY <1>2, <2>1 DEF LoopInOrder, Holding
<1>9. ReferencesUnique' /\ InsertsUnique'
  BY <1>2 DEF IInv, Inductive, ReferencesUnique, InsertsUnique, Recorded,
     InFlight, Working
<1> QED
  BY <1>5, <1>6, <1>7, <1>8, <1>9 DEF IInv, Inductive

-----------------------------------------------------------------------------
(***************************************************************************)
(* The steps of one session that leave the rows alone.                     *)
(***************************************************************************)
LEMMA BeginRepaymentIInv ==
  ASSUME IInv, NEW s \in Sessions, NEW l \in Loans, NEW amount \in Amounts,
         NEW reference \in References \cup {NoReference},
         BeginRepayment(s, l, amount, reference)
  PROVE  IInv'
<1> DEFINE q == [phase |-> "read", loan |-> l, amount |-> amount,
                 reference |-> reference, work |-> <<>>, next |-> 1,
                 remaining |-> amount, last |-> FALSE]
<1>1. q \in Requests
  BY ServicingAssumption DEF Requests, Repaying
<1>2. request' = [request EXCEPT ![s] = q] /\ UNCHANGED rows
      /\ served' \in Nat /\ contract[l] # NoContract
  BY DEF BeginRepayment, IInv, TypeOK
<1>3. q.phase = "read" /\ q.loan = l
  OBVIOUS
<1> HIDE DEF q
<1> QED
  BY <1>1, <1>2, <1>3, OneRequest DEF Holding, Paying

LEMMA CheckReferenceIInv ==
  ASSUME IInv, NEW s \in Sessions, CheckReference(s)
  PROVE  IInv'
<1> DEFINE q == [request[s] EXCEPT !.phase = "checked"]
<1>1. request[s] \in Repaying
  BY KindOfRequest DEF CheckReference, Working, IInv, Paying
<1>2. q \in Requests /\ q.phase = "checked" /\ q.loan = request[s].loan
  BY <1>1 DEF Requests, Repaying
<1>3. request' = [request EXCEPT ![s] = q] /\ UNCHANGED rows
      /\ served' \in Nat /\ contract[q.loan] # NoContract
  BY <1>2 DEF CheckReference, Working, IInv, TypeOK, Inductive, ServicedOnly
<1> HIDE DEF q
<1> QED
  BY <1>2, <1>3, OneRequest DEF Holding, Paying

LEMMA LockedRepaying ==
  ASSUME NEW r \in Repaying, NEW w \in Seq(Installment), NEW b \in BOOLEAN,
         NEW n \in Nat \ {0}
  PROVE  [r EXCEPT !.phase = "allocating", !.work = w, !.next = n, !.last = b]
           \in Repaying
<1> DEFINE half == [r EXCEPT !.phase = "allocating", !.work = w, !.next = n]
<1>1. half \in Repaying
  BY DEF Repaying
<1>2. [r EXCEPT !.phase = "allocating", !.work = w, !.next = n, !.last = b]
        = [half EXCEPT !.last = b]
  BY DEF Repaying
<1> HIDE DEF half
<1>3. [half EXCEPT !.last = b] \in Repaying
  BY <1>1 DEF Repaying
<1> QED
  BY <1>2, <1>3

LEMMA LockInstallmentsIInv ==
  ASSUME IInv, NEW s \in Sessions, LockInstallments(s)
  PROVE  IInv'
<1> DEFINE r == request[s]
<1> DEFINE last ==
      r.amount = Outstanding(schedule[r.loan], paid[r.loan])
<1> DEFINE q == [r EXCEPT !.phase = "allocating", !.work = paid[r.loan],
                          !.next = 1, !.last = last]
<1>1. r \in Repaying
  <2>1. r.phase = "checked"
    BY DEF LockInstallments, Working
  <2> QED
    BY <2>1, KindOfRequest DEF IInv, Paying
<1>2. request' = [request EXCEPT ![s] = q] /\ UNCHANGED rows
      /\ served' \in Nat /\ contract[r.loan] # NoContract
  BY DEF LockInstallments, Working, IInv, TypeOK, Inductive, ServicedOnly
<1>3. last \in BOOLEAN
  OBVIOUS
<1>4. InstallmentsFree(s, r.loan)
  BY DEF LockInstallments
<1> HIDE DEF last
<1>5. /\ q \in Requests /\ q.phase = "allocating" /\ q.loan = r.loan
      /\ q.work = paid[r.loan] /\ q.next = 1
  <2>1. r.loan \in Loans /\ paid[r.loan] \in Seq(Installment)
    BY <1>1 DEF Repaying, IInv, TypeOK
  <2> HIDE DEF r
  <2>2. 1 \in Nat \ {0}
    OBVIOUS
  <2>4. q \in Repaying
    BY <1>1, <1>3, <2>1, <2>2, LockedRepaying
  <2> QED
    BY <1>1, <2>4 DEF Requests, Repaying
<1>7. Loop(q, schedule[q.loan], paid[q.loan])
  <2>1. r.loan \in Loans
    BY <1>1 DEF Repaying
  <2> QED
    BY <1>5, <2>1 DEF Loop, IInv, TypeOK, Inductive, AllocationInOrder
<1> HIDE DEF q
<1> QED
  BY <1>2, <1>4, <1>5, <1>7, OneRequest DEF Holding, Paying

\* One round of the loop: what an installment receives keeps it in order, and
\* whatever leaves money over has settled it.
LEMMA Round ==
  ASSUME NEW due \in Installment, NEW got \in Installment,
         NEW remaining \in Nat, NEW interest, NEW principal,
         got.interest <= due.interest, got.principal <= due.principal,
         got.principal > 0 => got.interest = due.interest,
         interest = Lesser(due.interest - got.interest, remaining),
         principal = Lesser(due.principal - got.principal, remaining - interest),
         NEW new, NEW left,
         new = [principal |-> got.principal + principal,
                interest |-> got.interest + interest],
         left = remaining - interest - principal
  PROVE  /\ new \in Installment /\ left \in Nat
         /\ new.interest <= due.interest /\ new.principal <= due.principal
         /\ new.principal > 0 => new.interest = due.interest
         /\ left > 0 => new = due
         /\ got = due => new = due
<1>1. /\ due.principal \in Nat /\ due.interest \in Nat
      /\ got.principal \in Nat /\ got.interest \in Nat
      /\ due = [principal |-> due.principal, interest |-> due.interest]
  BY DEF Installment
<1>2. /\ interest \in Nat /\ interest <= remaining
      /\ interest <= due.interest - got.interest
      /\ interest < remaining => interest = due.interest - got.interest
  BY <1>1 DEF Lesser
<1>3. /\ principal \in Nat /\ principal <= remaining - interest
      /\ principal <= due.principal - got.principal
      /\ principal < remaining - interest
           => principal = due.principal - got.principal
  <2>1. due.principal - got.principal \in Nat /\ remaining - interest \in Nat
    BY <1>1, <1>2
  <2> QED
    BY <2>1 DEF Lesser
<1>4. /\ remaining - interest - principal \in Nat
      /\ got.principal + principal \in Nat /\ got.interest + interest \in Nat
      /\ got.interest + interest <= due.interest
      /\ got.principal + principal <= due.principal
  BY <1>1, <1>2, <1>3
<1>5. got.principal + principal > 0 => got.interest + interest = due.interest
  BY <1>1, <1>2, <1>3
<1>6. remaining - interest - principal > 0 \/ got = due
        => /\ got.interest + interest = due.interest
           /\ got.principal + principal = due.principal
  BY <1>1, <1>2, <1>3
<1> QED
  BY <1>1, <1>4, <1>5, <1>6 DEF Installment

LEMMA AllocateNextIInv ==
  ASSUME IInv, NEW s \in Sessions, AllocateNext(s)
  PROVE  IInv'
<1> DEFINE r == request[s]
           i == r.next
           D == schedule[r.loan]
           P == paid[r.loan]
           interest == Lesser(D[i].interest - r.work[i].interest, r.remaining)
           principal == Lesser(D[i].principal - r.work[i].principal,
                               r.remaining - interest)
           new == [principal |-> r.work[i].principal + principal,
                   interest |-> r.work[i].interest + interest]
           W == [r.work EXCEPT ![i] = new]
           left == r.remaining - interest - principal
           q == [r EXCEPT !.next = i + 1, !.remaining = left, !.work = W]
<1>1. r.phase = "allocating" /\ i <= Len(r.work) /\ r.remaining > 0
  BY DEF AllocateNext, Working
<1>2. r \in Repaying
  BY <1>1, KindOfRequest DEF IInv, Paying
<1>3. UNCHANGED rows /\ served' \in Nat
  BY DEF AllocateNext, IInv, TypeOK
<1>4. request' = [request EXCEPT ![s] = q]
  BY <1>2 DEF AllocateNext, IInv, TypeOK, Repaying
<1>5. /\ D \in Seq(Installment) /\ P \in Seq(Installment)
      /\ r.work \in Seq(Installment) /\ i \in Nat \ {0}
      /\ r.remaining \in Nat /\ r.loan \in Loans
  BY <1>2 DEF Repaying, IInv, TypeOK
<1>6. Loop(r, D, P)
  BY <1>1 DEF IInv, Inductive, LoopInOrder
<1>7. contract[r.loan] # NoContract /\ InstallmentsFree(s, r.loan)
  BY <1>1, <1>5 DEF IInv, Inductive, ServicedOnly, LocksExclude,
     InstallmentsFree, HoldsInstallments
<1>8. /\ new \in Installment /\ left \in Nat
      /\ new.interest <= D[i].interest /\ new.principal <= D[i].principal
      /\ new.principal > 0 => new.interest = D[i].interest
      /\ left > 0 => new = D[i]
      /\ r.work[i] = D[i] => new = D[i]
  <2>1. i \in 1..Len(D) /\ D[i] \in Installment /\ r.work[i] \in Installment
    BY <1>1, <1>5, <1>6 DEF Loop, InOrder
  <2>2. /\ r.work[i].interest <= D[i].interest
        /\ r.work[i].principal <= D[i].principal
        /\ r.work[i].principal > 0 => r.work[i].interest = D[i].interest
    BY <1>6, <2>1 DEF Loop, InOrder
  <2> HIDE DEF D, i, r
  <2>3. /\ interest = Lesser(D[i].interest - r.work[i].interest, r.remaining)
        /\ principal = Lesser(D[i].principal - r.work[i].principal,
                              r.remaining - interest)
        /\ new = [principal |-> r.work[i].principal + principal,
                  interest |-> r.work[i].interest + interest]
        /\ left = r.remaining - interest - principal
    OBVIOUS
  <2> HIDE DEF interest, principal, new, left
  <2> QED
    BY <1>5, <2>1, <2>2, <2>3, Round, SMTT(60)
<1> HIDE DEF new, left, interest, principal
<1>9. /\ W \in Seq(Installment) /\ Len(W) = Len(r.work) /\ W[i] = new
      /\ \A j \in 1..Len(W) : j # i => W[j] = r.work[j]
  BY <1>1, <1>5, <1>8
<1>10. /\ q \in Requests /\ q.phase = "allocating" /\ q.loan = r.loan
       /\ q.next = i + 1 /\ q.remaining = left /\ q.work = W
  <2> HIDE DEF W, r
  <2>1. i + 1 \in Nat \ {0}
    BY <1>5
  <2>2. q \in Repaying
    BY <1>2, <1>8, <1>9, <2>1 DEF Repaying
  <2> QED
    BY <1>1, <1>2, <2>2 DEF Requests, Repaying
<1>11. Loop(q, D, P)
  <2>1. /\ InOrder(D, r.work)
        /\ \A j \in i..Len(r.work) : r.work[j] = P[j]
        /\ \A j \in 1..Len(r.work) : j < i => r.work[j] = D[j]
    BY <1>1, <1>6 DEF Loop
  <2> HIDE DEF W, D, P, q, r, i
  <2>2. i \in 1..Len(D) /\ Len(D) = Len(W) /\ Len(D) \in Nat
    BY <1>1, <1>5, <1>9, <2>1 DEF InOrder
  <2>3. ASSUME NEW j \in 1..Len(D)
        PROVE  /\ W[j].interest <= D[j].interest
               /\ W[j].principal <= D[j].principal
               /\ W[j].principal > 0 => W[j].interest = D[j].interest
    BY <1>8, <1>9, <2>1, <2>2 DEF InOrder
  <2>4. ASSUME NEW j \in 1..Len(D), W[j] # Nothing, NEW k \in 1..(j - 1)
        PROVE  W[k] = D[k]
    <3>1. k \in 1..Len(D) /\ k < j
      BY <2>2
    <3>2. CASE j <= i
      BY <1>9, <2>1, <2>2, <3>1, <3>2
    <3>3. CASE j > i
      <4>1. r.work[j] # Nothing
        BY <1>9, <2>2, <2>4, <3>3
      <4>2. r.work[k] = D[k]
        BY <2>1, <3>1, <4>1 DEF InOrder
      <4> QED
        BY <1>8, <1>9, <2>2, <3>1, <4>2
    <3> QED
      BY <2>2, <3>2, <3>3
  <2>5. InOrder(D, W)
    BY <2>2, <2>3, <2>4 DEF InOrder
  <2>6. \A j \in (i + 1)..Len(W) : W[j] = P[j]
    BY <1>9, <2>1, <2>2
  <2>7. left > 0 => \A j \in 1..Len(W) : j < i + 1 => W[j] = D[j]
    BY <1>8, <1>9, <2>1, <2>2
  <2> QED
    BY <1>10, <2>5, <2>6, <2>7 DEF Loop
<1> HIDE DEF q
<1> QED
  BY <1>3, <1>4, <1>7, <1>10, <1>11, OneRequest DEF Holding, Paying

LEMMA InsertRepaymentIInv ==
  ASSUME IInv, NEW s \in Sessions, InsertRepayment(s)
  PROVE  IInv'
<1> DEFINE r == request[s]
           q == [r EXCEPT !.phase = "inserted"]
<1>1. r.phase = "allocating"
  BY DEF InsertRepayment, Allocated, Working
<1>2. r \in Repaying
  BY <1>1, KindOfRequest DEF IInv, Paying
<1>3. /\ request' = [request EXCEPT ![s] = q] /\ UNCHANGED rows
      /\ served' \in Nat
      /\ ~Recorded(r.reference) /\ ~InFlight(s, r.reference)
  BY DEF InsertRepayment, IInv, TypeOK
<1>4. /\ contract[r.loan] # NoContract /\ InstallmentsFree(s, r.loan)
      /\ Loop(r, schedule[r.loan], paid[r.loan])
  BY <1>1, <1>2 DEF IInv, Inductive, ServicedOnly, LocksExclude, LoopInOrder,
     InstallmentsFree, HoldsInstallments, Repaying
<1> HIDE DEF r
<1>5. /\ q \in Requests /\ q.loan = r.loan /\ q.work = r.work
      /\ q.next = r.next /\ q.remaining = r.remaining
      /\ q.reference = r.reference
  BY <1>2 DEF Requests, Repaying
<1>6. Loop(q, schedule[q.loan], paid[q.loan])
  BY <1>4, <1>5 DEF Loop
<1> HIDE DEF q
<1> QED
  BY <1>3, <1>4, <1>5, <1>6, OneRequest

LEMMA StatementIInv ==
  ASSUME IInv, NEW s \in Sessions,
         ReadRepayments(s) \/ \E l \in Loans : BeginStatement(s, l)
  PROVE  IInv'
<1>1. ASSUME NEW l \in Loans, BeginStatement(s, l) PROVE IInv'
  <2> DEFINE q == [phase |-> "stating", loan |-> l, work |-> paid[l],
                   ledger |-> <<>>]
  <2>1. paid[l] \in Seq(Installment) /\ <<>> \in Seq(Row)
    BY DEF IInv, TypeOK
  <2>2. q \in Requests /\ q.phase = "stating"
    BY <2>1 DEF Requests, Stating
  <2>3. /\ request' = [request EXCEPT ![s] = q] /\ UNCHANGED rows
        /\ served' \in Nat
    BY <1>1 DEF BeginStatement, IInv, TypeOK
  <2> HIDE DEF q
  <2> QED
    BY <2>2, <2>3, OneRequest DEF Holding, Paying
<1>2. CASE ReadRepayments(s)
  <2> DEFINE r == request[s]
             q == [r EXCEPT !.phase = "stated", !.ledger = repayments]
  <2>1. r \in Stating /\ repayments \in Seq(Row)
    BY <1>2, KindOfRequest DEF ReadRepayments, Working, IInv, TypeOK
  <2>2. /\ request' = [request EXCEPT ![s] = q] /\ UNCHANGED rows
        /\ served' \in Nat
    BY <1>2 DEF ReadRepayments, IInv, TypeOK
  <2> HIDE DEF r
  <2>3. q \in Requests /\ q.phase = "stated"
    BY <2>1 DEF Requests, Stating
  <2> HIDE DEF q
  <2> QED
    BY <2>2, <2>3, OneRequest DEF Holding, Paying
<1> QED
  BY <1>1, <1>2

\* Refused, Reply and Fail all roll back.
LEMMA RollBackIInv ==
  ASSUME IInv, NEW s \in Sessions, RollBack(s)
  PROVE  IInv'
<1>1. Idle \in Requests /\ Idle.phase = "idle"
  BY DEF Requests, Idle
<1>2. /\ request' = [request EXCEPT ![s] = Idle] /\ UNCHANGED rows
      /\ served' \in Nat
  BY DEF RollBack, IInv, TypeOK
<1> QED
  BY <1>1, <1>2, OneRequest DEF Holding, Paying

-----------------------------------------------------------------------------
(***************************************************************************)
(* The commit of a repayment: its copy becomes the installments of a loan  *)
(* nobody else is allocating to, and its row joins the ledger with a       *)
(* reference nobody else has.                                              *)
(***************************************************************************)
LEMMA CommitIInv ==
  ASSUME IInv, NEW s \in Sessions, CommitRepayment(s)
  PROVE  IInv'
<1> DEFINE r == request[s]
           row == [loan |-> r.loan, amount |-> r.amount,
                   reference |-> r.reference]
<1>1. r.phase = "inserted"
  BY DEF CommitRepayment, Working
<1>2. r \in Repaying
  BY <1>1, KindOfRequest DEF IInv, Paying
<1>3. /\ paid' = [paid EXCEPT ![r.loan] = r.work]
      /\ repayments' = Append(repayments, row)
      /\ closed' = [closed EXCEPT ![r.loan] = @ \/ r.last]
      /\ request' = [request EXCEPT ![s] = Idle]
      /\ UNCHANGED <<contract, schedule, served>>
  BY DEF CommitRepayment
<1>4. /\ InOrder(schedule[r.loan], r.work)
      /\ ~Recorded(r.reference) /\ ~InFlight(s, r.reference)
  BY <1>1 DEF IInv, Inductive, LoopInOrder, Loop, InsertsUnique, Working
<1>5. \A t \in Sessions \ {s} : ~HoldsInstallments(t, r.loan)
  BY <1>1, <1>2 DEF IInv, Inductive, LocksExclude, HoldsInstallments, Repaying
<1>6. row \in Row /\ r.loan \in Loans /\ r.work \in Seq(Installment)
      /\ row.reference = r.reference /\ r.last \in BOOLEAN
  BY <1>2 DEF Repaying, Row
<1>7. /\ request'[s] = Idle
      /\ \A t \in Sessions \ {s} : request'[t] = request[t]
  BY <1>3 DEF IInv, TypeOK
<1>8. Idle.phase = "idle" /\ Idle \in Requests
  BY DEF Idle, Requests
<1> HIDE DEF r, row
<1>9. TypeOK'
  <2>1. repayments' \in Seq(Row) /\ paid' \in [Loans -> Seq(Installment)]
    BY <1>3, <1>6 DEF IInv, TypeOK
  <2>2. closed' \in [Loans -> BOOLEAN]
    <3>1. \A l \in Loans : closed[l] \in BOOLEAN
      BY DEF IInv, TypeOK
    <3>2. (closed[r.loan] \/ r.last) \in BOOLEAN
      OBVIOUS
    <3>3. closed' = [closed EXCEPT ![r.loan] = closed[r.loan] \/ r.last]
      BY <1>3
    <3> QED
      BY <1>6, <3>1, <3>2, <3>3, Zenon DEF IInv, TypeOK
  <2>3. request' \in [Sessions -> Repaying \cup Stating \cup {Idle}]
    BY <1>3, <1>8 DEF IInv, TypeOK, Requests
  <2> QED
    BY <1>3, <2>1, <2>2, <2>3 DEF IInv, TypeOK
<1>10. AllocationInOrder'
  BY <1>3, <1>4, <1>6 DEF IInv, TypeOK, Inductive, AllocationInOrder
<1>11. LocksExclude'
  BY <1>7, <1>8 DEF IInv, Inductive, LocksExclude, HoldsInstallments
<1>12. ServicedOnly'
  BY <1>3, <1>7, <1>8 DEF IInv, Inductive, ServicedOnly
<1>13. ASSUME NEW t \in Sessions PROVE LoopInOrder(t)'
  <2>1. CASE t = s
    BY <1>7, <1>8, <2>1 DEF LoopInOrder
  <2>2. CASE t # s
    BY <1>3, <1>5, <1>7, <2>2 DEF IInv, TypeOK, Inductive, LoopInOrder,
       HoldsInstallments
  <2> QED
    BY <2>1, <2>2
<1>14. /\ Len(repayments') = Len(repayments) + 1
       /\ Len(repayments) \in Nat
       /\ \A i \in 1..Len(repayments) : repayments'[i] = repayments[i]
       /\ repayments'[Len(repayments) + 1] = row
  BY <1>3, <1>6 DEF IInv, TypeOK
<1>15. ReferencesUnique'
  BY <1>4, <1>6, <1>14 DEF IInv, Inductive, ReferencesUnique, Recorded
<1>16. ASSUME NEW t \in Sessions, Working(t, "inserted")'
       PROVE  ~Recorded(request[t].reference)' /\ ~InFlight(t, request[t].reference)'
  <2>1. t # s /\ request'[t] = request[t] /\ Working(t, "inserted")
    BY <1>7, <1>8, <1>16 DEF Working
  <2>2. ~Recorded(request[t].reference) /\ ~InFlight(t, request[t].reference)
    BY <2>1 DEF IInv, Inductive, InsertsUnique
  <2>3. request[t].reference # r.reference \/ r.reference = NoReference
    BY <1>4, <2>1 DEF InFlight
  <2>4. ~Recorded(request[t].reference)'
    BY <1>6, <1>14, <2>1, <2>2, <2>3 DEF Recorded
  <2>5. ~InFlight(t, request[t].reference)'
    BY <1>7, <1>8, <2>1, <2>2 DEF InFlight, Working
  <2> QED
    BY <2>4, <2>5
<1>17. InsertsUnique'
  BY <1>16 DEF InsertsUnique
<1> QED
  BY <1>9, <1>10, <1>11, <1>12, <1>13, <1>15, <1>17 DEF IInv, Inductive

-----------------------------------------------------------------------------
(***************************************************************************)
(* The invariant and the theorems.                                         *)
(***************************************************************************)
LEMMA NextIInv == IInv /\ [Next]_vars => IInv'
<1> SUFFICES ASSUME IInv, [Next]_vars PROVE IInv'
  OBVIOUS
<1>1. ASSUME NEW l \in Loans, NEW t \in Contracts[l], Disburse(l, t)
      PROVE  IInv'
  BY <1>1, DisburseIInv
<1>2. ASSUME NEW s \in Sessions, NEW l \in Loans, NEW amount \in Amounts,
             NEW reference \in References \cup {NoReference},
             BeginRepayment(s, l, amount, reference)
      PROVE  IInv'
  BY <1>2, BeginRepaymentIInv
<1>3. ASSUME NEW s \in Sessions, NEW l \in Loans, BeginStatement(s, l)
      PROVE  IInv'
  BY <1>3, StatementIInv
<1>4. ASSUME NEW s \in Sessions, Advance(s) PROVE IInv'
  <2>1. CASE CheckReference(s)
    BY <2>1, CheckReferenceIInv
  <2>2. CASE LockInstallments(s)
    BY <2>2, LockInstallmentsIInv
  <2>3. CASE AllocateNext(s)
    BY <2>3, AllocateNextIInv
  <2>4. CASE InsertRepayment(s)
    BY <2>4, InsertRepaymentIInv
  <2>5. CASE CommitRepayment(s)
    BY <2>5, CommitIInv
  <2>6. CASE ReadRepayments(s)
    BY <2>6, StatementIInv
  <2>7. CASE Refused(s) \/ Reply(s)
    BY <2>7, RollBackIInv DEF Refused, Reply
  <2> QED
    BY <1>4, <2>1, <2>2, <2>3, <2>4, <2>5, <2>6, <2>7 DEF Advance
<1>5. ASSUME NEW s \in Sessions, Fail(s) PROVE IInv'
  BY <1>5, RollBackIInv DEF Fail
<1>6. CASE UNCHANGED vars
  <2>1. UNCHANGED <<contract, schedule, paid, repayments, closed, request,
                    served>>
    BY <1>6 DEF vars, rows
  <2> QED
    BY <2>1 DEF IInv, TypeOK, Inductive, AllocationInOrder, LocksExclude,
       HoldsInstallments, ServicedOnly, LoopInOrder, ReferencesUnique,
       InsertsUnique, Recorded, InFlight, Working
<1> QED
  BY <1>1, <1>2, <1>3, <1>4, <1>5, <1>6 DEF Next

LEMMA Invariant == Spec => []IInv
BY InitIInv, NextIInv, PTL DEF Spec

\* Every reachable state is well-typed: no amount, due or paid, falls below
\* zero (allocate_repayment).
THEOREM ServicingTypeCorrect == Spec => []TypeOK
<1>1. IInv => TypeOK
  BY DEF IInv
<1> QED
  BY <1>1, Invariant, PTL

\* What the runs check as Inductive holds of any loans, contracts, sessions
\* and references: the locks protect the loop (record_repayment).
THEOREM LocksProtectAllocation == Spec => []Inductive
<1>1. IInv => Inductive
  BY DEF IInv
<1> QED
  BY <1>1, Invariant, PTL

\* Whatever repayments overlap, each loan's money lies in its oldest
\* installments, interest before principal, and never above what is due
\* (allocate_repayment).
THEOREM AllocationIsInOrder == Spec => []AllocationInOrder
<1>1. IInv => AllocationInOrder
  BY DEF IInv, Inductive
<1> QED
  BY <1>1, Invariant, PTL

\* No reference is recorded twice, by any number of overlapping requests
\* (record_repayment and its unique constraint).
THEOREM ReferencesAreUnique == Spec => []ReferencesUnique
<1>1. IInv => ReferencesUnique
  BY DEF IInv, Inductive
<1> QED
  BY <1>1, Invariant, PTL

-----------------------------------------------------------------------------
(***************************************************************************)
(* The ledger.  A loan has the schedule of its contract, its installments  *)
(* hold what its repayment rows add up to, and it is closed only when they *)
(* hold all that is due.  A repayment under way has put into its copy what *)
(* it has taken off its amount; a statement has read no more than was paid *)
(* then, and what is paid never falls.                                     *)
(***************************************************************************)
Scheduled(l) ==
  /\ contract[l] = NoContract
       => schedule[l] = <<>> /\ paid[l] = <<>> /\ closed[l] = FALSE
  /\ contract[l] # NoContract
       => /\ contract[l] \in Contracts[l]
          /\ schedule[l] = BuildAmortizationSchedule(contract[l])

Kept(l) ==
  /\ Received(l, repayments) = Total(paid[l])
  /\ closed[l] => Total(paid[l]) = Total(schedule[l])

Counted(q, due, got) ==
  /\ q.phase \in {"read", "checked"} => q.remaining = q.amount
  /\ Holding(q) => /\ Total(q.work) = Total(got) + (q.amount - q.remaining)
                   /\ q.amount \in 1..Outstanding(due, got)
                   /\ q.last <=> q.amount = Outstanding(due, got)
  /\ q.phase = "inserted" => q.remaining = 0

Told(q, due, got) ==
  /\ q.phase \in {"stating", "stated"} => Total(q.work) <= Total(got)
  /\ q.phase = "stated" => /\ Total(q.work) <= Received(q.loan, q.ledger)
                           /\ Received(q.loan, q.ledger) <= Total(due)

Accounted(s) ==
  /\ Counted(request[s], schedule[request[s].loan], paid[request[s].loan])
  /\ Told(request[s], schedule[request[s].loan], paid[request[s].loan])

LedgerInvariant ==
  /\ \A l \in Loans : Scheduled(l) /\ Kept(l)
  /\ \A s \in Sessions : Accounted(s)

LEMMA EmptyTotal ==
  ASSUME NEW x \in Seq(Installment), x = <<>>
  PROVE  Total(x) = 0
<1>1. Len(x) = 0
  OBVIOUS
<1>2. \A i \in 1..Len(x) : x[i] = Nothing
  BY <1>1
<1> QED
  BY <1>2, TotalOfNothing

LEMMA InitLedger == Init => LedgerInvariant
<1> SUFFICES ASSUME Init PROVE LedgerInvariant
  OBVIOUS
<1>0. <<>> \in Seq(Row) /\ <<>> \in Seq(Installment)
  OBVIOUS
<1>1. ASSUME NEW l \in Loans PROVE Scheduled(l) /\ Kept(l)
  <2>1. Received(l, repayments) = 0
    BY <1>0, ReceivedNothing DEF Init
  <2>2. paid[l] = <<>> /\ contract[l] = NoContract /\ schedule[l] = <<>> /\ closed[l] = FALSE
    BY DEF Init
  <2>3. Total(paid[l]) = 0
    BY <1>0, <2>2, EmptyTotal
  <2> QED
    BY <2>1, <2>2, <2>3 DEF Scheduled, Kept
<1>2. ASSUME NEW s \in Sessions PROVE Accounted(s)
  BY DEF Init, Idle, Accounted, Counted, Told, Holding
<1> QED
  BY <1>1, <1>2 DEF LedgerInvariant

\* What a loan's installments are worth, whichever loan.
LEMMA LoanTotals ==
  ASSUME IInv, NEW l \in Loans
  PROVE  /\ schedule[l] \in Seq(Installment) /\ paid[l] \in Seq(Installment)
         /\ Total(schedule[l]) \in Nat /\ Total(paid[l]) \in Nat
         /\ Total(paid[l]) <= Total(schedule[l])
         /\ Outstanding(schedule[l], paid[l]) = Total(schedule[l]) - Total(paid[l])
<1>1. /\ schedule[l] \in Seq(Installment) /\ paid[l] \in Seq(Installment)
      /\ InOrder(schedule[l], paid[l])
  BY DEF IInv, TypeOK, Inductive, AllocationInOrder
<1> QED
  BY <1>1, TotalInOrder

\* The counterpart of OneRequest.
LEMMA OneAccounted ==
  ASSUME IInv, LedgerInvariant, NEW s \in Sessions, NEW q \in Requests,
         request' = [request EXCEPT ![s] = q], UNCHANGED rows,
         Counted(q, schedule[q.loan], paid[q.loan]),
         Told(q, schedule[q.loan], paid[q.loan])
  PROVE  LedgerInvariant'
<1>1. UNCHANGED <<contract, schedule, paid, repayments, closed>>
  BY DEF rows
<1>2. ASSUME NEW l \in Loans PROVE Scheduled(l)' /\ Kept(l)'
  BY <1>1 DEF LedgerInvariant, Scheduled, Kept
<1>3. ASSUME NEW t \in Sessions PROVE Accounted(t)'
  <2>1. CASE t = s
    <3>1. request'[t] = q
      BY <2>1 DEF IInv, TypeOK
    <3> QED
      BY <1>1, <3>1 DEF Accounted
  <2>2. CASE t # s
    <3>1. request'[t] = request[t] /\ Accounted(t)
      BY <2>2 DEF IInv, TypeOK, LedgerInvariant
    <3> QED
      BY <1>1, <3>1 DEF Accounted
  <2> QED
    BY <2>1, <2>2
<1> QED
  BY <1>2, <1>3 DEF LedgerInvariant

LEMMA DisburseLedger ==
  ASSUME IInv, LedgerInvariant, NEW l \in Loans, NEW t \in Contracts[l], Disburse(l, t)
  PROVE  LedgerInvariant'
<1> DEFINE due == BuildAmortizationSchedule(t)
           got == [i \in 1..Len(due) |-> Nothing]
<1>1. due \in Seq(Installment) /\ t # NoContract
  BY ScheduleAssumption, ScheduleAmortizes DEF Terms, NoContract
<1>2. /\ contract[l] = NoContract
      /\ contract' = [contract EXCEPT ![l] = t]
      /\ schedule' = [schedule EXCEPT ![l] = due]
      /\ paid' = [paid EXCEPT ![l] = got]
      /\ UNCHANGED <<repayments, closed, request, served>>
  BY DEF Disburse
<1>3. got \in Seq(Installment) /\ \A i \in 1..Len(got) : got[i] = Nothing
  BY <1>1 DEF Installment, Nothing
<1>4. /\ contract'[l] = t /\ schedule'[l] = due /\ paid'[l] = got
      /\ \A k \in Loans \ {l} : /\ contract'[k] = contract[k]
                                /\ schedule'[k] = schedule[k] /\ paid'[k] = paid[k]
  BY <1>2 DEF IInv, TypeOK
<1>5. schedule[l] = <<>> /\ paid[l] = <<>> /\ closed[l] = FALSE
  BY <1>2 DEF LedgerInvariant, Scheduled
<1> HIDE DEF got
<1>6. /\ Total(got) = 0 /\ Total(due) \in Nat
      /\ Total(schedule[l]) = 0 /\ Total(paid[l]) = 0
  <2>1. <<>> \in Seq(Installment)
    OBVIOUS
  <2>2. Total(<<>>) = 0
    BY <2>1, EmptyTotal
  <2> HIDE DEF due
  <2> QED
    BY <1>1, <1>3, <1>5, <2>2, TotalOfNothing, TotalTyped
<1>7. ASSUME NEW k \in Loans PROVE Scheduled(k)' /\ Kept(k)'
  <2>1. Scheduled(k) /\ Kept(k)
    BY DEF LedgerInvariant
  <2>2. CASE k = l
    <3>1. Scheduled(k)'
      BY <1>1, <1>4, <2>2 DEF Scheduled
    <3>2. Received(l, repayments') = 0
      BY <1>2, <1>6, <2>1, <2>2 DEF Kept
    <3>3. closed'[l] = FALSE
      BY <1>2, <1>5
    <3>4. Kept(k)'
      BY <1>4, <1>6, <2>2, <3>2, <3>3 DEF Kept
    <3> QED
      BY <3>1, <3>4
  <2>3. CASE k # l
    BY <1>2, <1>4, <2>1, <2>3 DEF Scheduled, Kept
  <2> QED
    BY <2>2, <2>3
<1>8. ASSUME NEW s \in Sessions PROVE Accounted(s)'
  <2> DEFINE q == request[s]
  <2>1. Accounted(s) /\ request'[s] = q
    BY <1>2 DEF LedgerInvariant
  <2>2. q.phase \in {"stating", "stated"} \/ Paying(q) => q.loan \in Loans
    BY KindOfRequest DEF IInv, Stating, Repaying
  <2>3. CASE q.loan # l
    <3>1. ~(q.phase \in {"stating", "stated"} \/ Paying(q)) => Accounted(s)'
      BY <2>1 DEF Accounted, Counted, Told, Paying, Holding
    <3>2. q.loan \in Loans => Accounted(s)'
      BY <1>4, <2>1, <2>3 DEF Accounted
    <3> QED
      BY <2>2, <3>1, <3>2
  <2>4. CASE q.loan = l
    <3>1. ~Paying(q)
      BY <1>2, <2>4 DEF IInv, Inductive, ServicedOnly, Paying
    <3>2. Counted(q, due, got)
      BY <3>1 DEF Paying, Counted, Holding
    <3>3. Told(q, schedule[l], paid[l])
      BY <2>1, <2>4 DEF Accounted
    <3> HIDE DEF due
    <3>4. Told(q, due, got)
      <4>1. q.phase \in {"stating", "stated"} => Total(q.work) <= Total(got)
        BY <1>6, <3>3 DEF Told
      <4>2. q.phase = "stated" => Received(q.loan, q.ledger) <= Total(due)
        <5>1. SUFFICES ASSUME q.phase = "stated"
              PROVE  Received(q.loan, q.ledger) <= Total(due)
          OBVIOUS
        <5>2. q.ledger \in Seq(Row)
          BY <5>1, KindOfRequest DEF IInv, Stating
        <5>3. Received(q.loan, q.ledger) \in Int
          BY <5>2, ReceivedIs, SumTyped
        <5>4. Received(q.loan, q.ledger) <= 0
          BY <5>1, <1>6, <3>3 DEF Told
        <5> QED
          BY <1>6, <5>3, <5>4
      <4> QED
        BY <3>3, <4>1, <4>2 DEF Told
    <3> QED
      BY <1>4, <2>1, <2>4, <3>2, <3>4 DEF Accounted
  <2> QED
    BY <2>3, <2>4
<1> QED
  BY <1>7, <1>8 DEF LedgerInvariant

LEMMA BeginRepaymentLedger ==
  ASSUME IInv, LedgerInvariant, NEW s \in Sessions, NEW l \in Loans, NEW amount \in Amounts,
         NEW reference \in References \cup {NoReference},
         BeginRepayment(s, l, amount, reference)
  PROVE  LedgerInvariant'
<1> DEFINE q == [phase |-> "read", loan |-> l, amount |-> amount,
                 reference |-> reference, work |-> <<>>, next |-> 1,
                 remaining |-> amount, last |-> FALSE]
<1>1. q \in Requests
  BY ServicingAssumption DEF Requests, Repaying
<1>2. request' = [request EXCEPT ![s] = q] /\ UNCHANGED rows
  BY DEF BeginRepayment
<1>3. q.phase = "read" /\ q.remaining = q.amount
  OBVIOUS
<1> HIDE DEF q
<1>4. Counted(q, schedule[q.loan], paid[q.loan]) /\ Told(q, schedule[q.loan], paid[q.loan])
  BY <1>3 DEF Counted, Told, Holding
<1> QED
  BY <1>1, <1>2, <1>4, OneAccounted

LEMMA CheckReferenceLedger ==
  ASSUME IInv, LedgerInvariant, NEW s \in Sessions, CheckReference(s)
  PROVE  LedgerInvariant'
<1> DEFINE q == [request[s] EXCEPT !.phase = "checked"]
<1>1. request[s] \in Repaying /\ request[s].phase = "read"
  BY KindOfRequest DEF CheckReference, Working, IInv, Paying
<1>2. request[s].remaining = request[s].amount
  BY <1>1 DEF LedgerInvariant, Accounted, Counted
<1>3. q \in Requests /\ q.phase = "checked" /\ q.remaining = q.amount
  BY <1>1, <1>2 DEF Requests, Repaying
<1>4. request' = [request EXCEPT ![s] = q] /\ UNCHANGED rows
  BY DEF CheckReference
<1> HIDE DEF q
<1>5. Counted(q, schedule[q.loan], paid[q.loan]) /\ Told(q, schedule[q.loan], paid[q.loan])
  BY <1>3 DEF Counted, Told, Holding
<1> QED
  BY <1>3, <1>4, <1>5, OneAccounted

LEMMA LockInstallmentsLedger ==
  ASSUME IInv, LedgerInvariant, NEW s \in Sessions, LockInstallments(s)
  PROVE  LedgerInvariant'
<1> DEFINE r == request[s]
           outstanding == Outstanding(schedule[r.loan], paid[r.loan])
           last == r.amount = outstanding
           q == [r EXCEPT !.phase = "allocating", !.work = paid[r.loan],
                          !.next = 1, !.last = last]
<1>1. r.phase = "checked" /\ r.amount \in 1..outstanding
  BY DEF LockInstallments, Working
<1>2. r \in Repaying /\ r.loan \in Loans /\ r.amount \in Nat
  <2>1. r \in Repaying
    BY <1>1, KindOfRequest DEF IInv, Paying
  <2> QED
    BY <2>1 DEF Repaying
<1>3. request' = [request EXCEPT ![s] = q] /\ UNCHANGED rows
  BY DEF LockInstallments
<1>4. r.remaining = r.amount
  BY <1>1 DEF LedgerInvariant, Accounted, Counted
<1>5. paid[r.loan] \in Seq(Installment) /\ Total(paid[r.loan]) \in Nat
  BY <1>2, LoanTotals
<1>6. last \in BOOLEAN
  OBVIOUS
<1> HIDE DEF r
<1>7. /\ q \in Requests /\ q.phase = "allocating" /\ q.loan = r.loan
      /\ q.work = paid[r.loan] /\ q.amount = r.amount /\ q.remaining = r.remaining
      /\ q.last = last
  <2> HIDE DEF last
  <2>1. 1 \in Nat \ {0}
    OBVIOUS
  <2>2. q \in Repaying
    BY <1>2, <1>5, <1>6, <2>1, LockedRepaying
  <2> QED
    BY <1>2, <2>2 DEF Requests, Repaying
<1> HIDE DEF q
<1>8. Counted(q, schedule[q.loan], paid[q.loan])
  <2>1. Total(q.work) = Total(paid[q.loan]) + (q.amount - q.remaining)
    BY <1>2, <1>4, <1>5, <1>7
  <2>2. q.amount \in 1..Outstanding(schedule[q.loan], paid[q.loan])
    BY <1>1, <1>7
  <2>3. q.last <=> q.amount = Outstanding(schedule[q.loan], paid[q.loan])
    BY <1>7
  <2> QED
    BY <1>7, <2>1, <2>2, <2>3 DEF Counted
<1>9. Told(q, schedule[q.loan], paid[q.loan])
  BY <1>7 DEF Told
<1> QED
  BY <1>3, <1>7, <1>8, <1>9, OneAccounted

LEMMA AllocateNextLedger ==
  ASSUME IInv, LedgerInvariant, NEW s \in Sessions, AllocateNext(s)
  PROVE  LedgerInvariant'
<1> DEFINE r == request[s]
           i == r.next
           D == schedule[r.loan]
           P == paid[r.loan]
           interest == Lesser(D[i].interest - r.work[i].interest, r.remaining)
           principal == Lesser(D[i].principal - r.work[i].principal,
                               r.remaining - interest)
           new == [principal |-> r.work[i].principal + principal,
                   interest |-> r.work[i].interest + interest]
           W == [r.work EXCEPT ![i] = new]
           left == r.remaining - interest - principal
           q == [r EXCEPT !.next = i + 1, !.remaining = left, !.work = W]
<1>1. r.phase = "allocating" /\ i <= Len(r.work) /\ r.remaining > 0
  BY DEF AllocateNext, Working
<1>2. r \in Repaying
  BY <1>1, KindOfRequest DEF IInv, Paying
<1>3. UNCHANGED rows
  BY DEF AllocateNext
<1>4. request' = [request EXCEPT ![s] = q]
  BY <1>2 DEF AllocateNext, IInv, TypeOK, Repaying
<1>5. /\ D \in Seq(Installment) /\ P \in Seq(Installment)
      /\ r.work \in Seq(Installment) /\ i \in Nat \ {0}
      /\ r.remaining \in Nat /\ r.loan \in Loans /\ r.amount \in Nat
  BY <1>2 DEF Repaying, IInv, TypeOK
<1>6. Loop(r, D, P) /\ Counted(r, D, P)
  BY <1>1 DEF IInv, Inductive, LoopInOrder, LedgerInvariant, Accounted
<1>7. i \in 1..Len(r.work) /\ D[i] \in Installment /\ r.work[i] \in Installment
  BY <1>1, <1>5, <1>6 DEF Loop, InOrder
<1>8. /\ new \in Installment /\ left \in Nat /\ interest \in Int /\ principal \in Int
      /\ Amount(new) = Amount(r.work[i]) + (r.remaining - left)
  <2>2. /\ r.work[i].interest <= D[i].interest
        /\ r.work[i].principal <= D[i].principal
        /\ r.work[i].principal > 0 => r.work[i].interest = D[i].interest
    <3>1. i \in 1..Len(D)
      BY <1>5, <1>6, <1>7 DEF Loop, InOrder
    <3> QED
      BY <1>6, <3>1 DEF Loop, InOrder
  <2> HIDE DEF D, i, r
  <2>3. /\ interest = Lesser(D[i].interest - r.work[i].interest, r.remaining)
        /\ principal = Lesser(D[i].principal - r.work[i].principal,
                              r.remaining - interest)
        /\ new = [principal |-> r.work[i].principal + principal,
                  interest |-> r.work[i].interest + interest]
        /\ left = r.remaining - interest - principal
    OBVIOUS
  <2>5. /\ r.work[i].principal \in Int /\ r.work[i].interest \in Int
        /\ D[i].principal \in Int /\ D[i].interest \in Int
    BY <1>7 DEF Installment
  <2> HIDE DEF interest, principal, new, left
  <2>4. interest \in Int /\ principal \in Int
    <3>1. interest \in Int
      BY <1>5, <2>3, <2>5 DEF Lesser
    <3> QED
      BY <1>5, <2>3, <2>5, <3>1 DEF Lesser
  <2>6. new \in Installment /\ left \in Nat
    BY <1>5, <1>7, <2>2, <2>3, Round, SMTT(60)
  <2>7. new.principal = r.work[i].principal + principal
        /\ new.interest = r.work[i].interest + interest
    BY <2>3
  <2>8. /\ Amount(new) = new.principal + new.interest
        /\ Amount(r.work[i]) = r.work[i].principal + r.work[i].interest
    BY DEF Amount
  <2>9. r.remaining - left = interest + principal
    BY <1>5, <2>3, <2>4
  <2>10. Amount(new) = Amount(r.work[i]) + (r.remaining - left)
    BY <2>4, <2>5, <2>7, <2>8, <2>9
  <2> QED
    BY <2>4, <2>6, <2>10
<1> HIDE DEF new, left, interest, principal
<1>9. /\ W \in Seq(Installment) /\ Len(W) = Len(r.work) /\ W[i] = new
      /\ \A j \in 1..Len(r.work) : j # i => W[j] = r.work[j]
  BY <1>5, <1>7, <1>8
<1>10. /\ q \in Requests /\ q.phase = "allocating" /\ q.loan = r.loan
       /\ q.remaining = left /\ q.work = W /\ q.amount = r.amount /\ q.last = r.last
  <2> HIDE DEF W, r
  <2>1. i + 1 \in Nat \ {0}
    BY <1>5
  <2>2. q \in Repaying
    BY <1>2, <1>8, <1>9, <2>1 DEF Repaying
  <2> QED
    BY <1>1, <1>2, <2>2 DEF Requests, Repaying
<1> HIDE DEF W
<1>11. Total(W) = Total(r.work) + (r.remaining - left)
  <2> HIDE DEF i, r
  <2>1. Total(W) = Total(r.work) - Amount(r.work[i]) + Amount(W[i])
    BY <1>5, <1>7, <1>9, TotalReplace
  <2>2. Amount(r.work[i]) \in Nat /\ Total(r.work) \in Nat
    BY <1>5, <1>7, TotalIs, TotalTyped
  <2> QED
    BY <1>5, <1>8, <1>9, <2>1, <2>2
<1>12. Total(r.work) = Total(P) + (r.amount - r.remaining)
  BY <1>1, <1>6 DEF Counted, Holding
<1>13. Total(P) \in Nat
  BY <1>5, TotalTyped
<1> HIDE DEF q
<1>14. Counted(q, D, P)
  <2>1. Total(q.work) = Total(P) + (q.amount - q.remaining)
    <3> HIDE DEF r, P
    <3> QED
      BY <1>5, <1>8, <1>10, <1>11, <1>12, <1>13
  <2>2. /\ q.amount \in 1..Outstanding(D, P)
        /\ q.last <=> q.amount = Outstanding(D, P)
    BY <1>1, <1>6, <1>10 DEF Counted, Holding
  <2> QED
    BY <1>10, <2>1, <2>2 DEF Counted
<1>15. Told(q, D, P)
  BY <1>10 DEF Told
<1> QED
  BY <1>3, <1>4, <1>10, <1>14, <1>15, OneAccounted

\* A copy that is in order and worth all that is due is all that is due:
\* nothing is left of an amount the loop has gone past the end with.
LEMMA InsertRepaymentLedger ==
  ASSUME IInv, LedgerInvariant, NEW s \in Sessions, InsertRepayment(s)
  PROVE  LedgerInvariant'
<1> DEFINE r == request[s]
           D == schedule[r.loan]
           P == paid[r.loan]
           q == [r EXCEPT !.phase = "inserted"]
<1>1. r.phase = "allocating" /\ (r.next > Len(r.work) \/ r.remaining = 0)
  BY DEF InsertRepayment, Allocated, Working
<1>2. r \in Repaying
  BY <1>1, KindOfRequest DEF IInv, Paying
<1>3. request' = [request EXCEPT ![s] = q] /\ UNCHANGED rows
  BY DEF InsertRepayment
<1>4. Loop(r, D, P) /\ Counted(r, D, P)
  BY <1>1 DEF IInv, Inductive, LoopInOrder, LedgerInvariant, Accounted
<1>5. /\ r.work \in Seq(Installment) /\ r.next \in Nat /\ r.remaining \in Nat
      /\ r.amount \in Nat /\ r.loan \in Loans
  BY <1>2 DEF Repaying
<1>6. /\ D \in Seq(Installment) /\ P \in Seq(Installment)
      /\ Total(D) \in Nat /\ Total(P) \in Nat /\ Outstanding(D, P) = Total(D) - Total(P)
  BY <1>5, LoanTotals
<1>7. /\ q \in Requests /\ q.phase = "inserted" /\ q.loan = r.loan /\ q.work = r.work
      /\ q.amount = r.amount /\ q.remaining = r.remaining /\ q.last = r.last
  BY <1>1, <1>2 DEF Requests, Repaying
<1> HIDE DEF r, D, P, q
<1>8. r.remaining = 0
  <2>1. SUFFICES ASSUME r.remaining > 0 PROVE FALSE
    BY <1>5
  <2>2. r.next > Len(r.work)
    BY <1>1, <2>1
  <2>3. /\ Len(r.work) = Len(D) /\ Len(D) \in Nat
        /\ \A i \in 1..Len(r.work) : r.work[i] = D[i]
    <3>1. /\ Len(r.work) = Len(D)
          /\ \A i \in 1..Len(r.work) : i < r.next => r.work[i] = D[i]
      BY <1>4, <2>1 DEF Loop, InOrder
    <3> QED
      BY <1>5, <1>6, <2>2, <3>1
  <2>4. r.work = D
    BY <1>5, <1>6, <2>3, SMTT(30)
  <2>5. /\ Total(D) = Total(P) + (r.amount - r.remaining)
        /\ r.amount \in 1..(Total(D) - Total(P))
    BY <1>1, <1>4, <1>6, <2>4 DEF Counted, Holding
  <2> QED
    BY <1>5, <1>6, <2>1, <2>5
<1>9. Counted(q, D, P)
  BY <1>1, <1>4, <1>7, <1>8 DEF Counted, Holding
<1>10. Told(q, D, P)
  BY <1>7 DEF Told
<1> QED
  BY <1>3, <1>7, <1>9, <1>10, OneAccounted DEF D, P

LEMMA StatementLedger ==
  ASSUME IInv, LedgerInvariant, NEW s \in Sessions,
         ReadRepayments(s) \/ \E l \in Loans : BeginStatement(s, l)
  PROVE  LedgerInvariant'
<1>1. ASSUME NEW l \in Loans, BeginStatement(s, l) PROVE LedgerInvariant'
  <2> DEFINE q == [phase |-> "stating", loan |-> l, work |-> paid[l],
                   ledger |-> <<>>]
  <2>1. /\ paid[l] \in Seq(Installment) /\ <<>> \in Seq(Row) /\ Total(paid[l]) \in Nat
    BY LoanTotals
  <2>2. q \in Requests /\ q.phase = "stating" /\ q.work = paid[q.loan] /\ q.loan = l
    BY <2>1 DEF Requests, Stating
  <2>3. request' = [request EXCEPT ![s] = q] /\ UNCHANGED rows
    BY <1>1 DEF BeginStatement
  <2> HIDE DEF q
  <2>4. Counted(q, schedule[q.loan], paid[q.loan]) /\ Told(q, schedule[q.loan], paid[q.loan])
    BY <2>1, <2>2 DEF Counted, Told, Holding
  <2> QED
    BY <2>2, <2>3, <2>4, OneAccounted
<1>2. CASE ReadRepayments(s)
  <2> DEFINE r == request[s]
             q == [r EXCEPT !.phase = "stated", !.ledger = repayments]
  <2>1. r.phase = "stating" /\ r \in Stating /\ repayments \in Seq(Row)
    BY <1>2, KindOfRequest DEF ReadRepayments, Working, IInv, TypeOK
  <2>2. request' = [request EXCEPT ![s] = q] /\ UNCHANGED rows
    BY <1>2 DEF ReadRepayments
  <2>3. Told(r, schedule[r.loan], paid[r.loan])
    BY DEF LedgerInvariant, Accounted
  <2> HIDE DEF r
  <2>4. /\ q \in Requests /\ q.phase = "stated" /\ q.loan = r.loan /\ q.loan \in Loans
        /\ q.work = r.work /\ q.ledger = repayments
    BY <2>1 DEF Requests, Stating
  <2> HIDE DEF q
  <2>5. Received(q.loan, q.ledger) = Total(paid[q.loan])
    BY <2>4 DEF LedgerInvariant, Kept
  <2>6. Told(q, schedule[q.loan], paid[q.loan])
    BY <2>1, <2>3, <2>4, <2>5, LoanTotals DEF Told
  <2>7. Counted(q, schedule[q.loan], paid[q.loan])
    BY <2>4 DEF Counted, Holding
  <2> QED
    BY <2>2, <2>4, <2>6, <2>7, OneAccounted
<1> QED
  BY <1>1, <1>2

LEMMA RollBackLedger ==
  ASSUME IInv, LedgerInvariant, NEW s \in Sessions, RollBack(s)
  PROVE  LedgerInvariant'
<1>1. Idle \in Requests /\ Idle.phase = "idle"
  BY DEF Requests, Idle
<1>2. request' = [request EXCEPT ![s] = Idle] /\ UNCHANGED rows
  BY DEF RollBack
<1>3. /\ Counted(Idle, schedule[Idle.loan], paid[Idle.loan])
      /\ Told(Idle, schedule[Idle.loan], paid[Idle.loan])
  BY <1>1 DEF Counted, Told, Holding
<1> QED
  BY <1>1, <1>2, <1>3, OneAccounted

\* What a commit does to the accounts: its loan has been paid the amount,
\* which was owed, and is closed if nothing is left.
LEMMA CommitPays ==
  ASSUME IInv, LedgerInvariant, NEW s \in Sessions, CommitRepayment(s)
  PROVE  LET l == request[s].loan
             amount == request[s].amount
         IN  /\ l \in Loans /\ contract[l] # NoContract /\ closed[l] = FALSE
             /\ amount \in 1..Outstanding(schedule[l], paid[l])
             /\ paid'[l] \in Seq(Installment)
             /\ Total(paid'[l]) = Total(paid[l]) + amount
             /\ Received(l, repayments') = Received(l, repayments) + amount
             /\ closed'[l] = (amount = Outstanding(schedule[l], paid[l]))
             /\ UNCHANGED <<contract, schedule>>
             /\ \A k \in Loans \ {l} :
                  /\ paid'[k] = paid[k] /\ closed'[k] = closed[k]
                  /\ Received(k, repayments') = Received(k, repayments)
<1> DEFINE r == request[s]
           l == r.loan
           row == [loan |-> r.loan, amount |-> r.amount,
                   reference |-> r.reference]
<1>1. r.phase = "inserted"
  BY DEF CommitRepayment, Working
<1>2. r \in Repaying
  BY <1>1, KindOfRequest DEF IInv, Paying
<1>3. /\ paid' = [paid EXCEPT ![l] = r.work]
      /\ repayments' = Append(repayments, row)
      /\ closed' = [closed EXCEPT ![l] = @ \/ r.last]
      /\ UNCHANGED <<contract, schedule>>
  BY DEF CommitRepayment
<1>4. /\ row \in Row /\ l \in Loans /\ r.work \in Seq(Installment)
      /\ r.amount \in Nat /\ r.remaining \in Nat /\ r.last \in BOOLEAN
  BY <1>2 DEF Repaying, Row
<1>5. contract[l] # NoContract
  BY <1>1 DEF IInv, Inductive, ServicedOnly
<1>6. Counted(r, schedule[l], paid[l])
  BY DEF LedgerInvariant, Accounted
<1>7. /\ Total(r.work) = Total(paid[l]) + (r.amount - r.remaining)
      /\ r.amount \in 1..Outstanding(schedule[l], paid[l])
      /\ r.last <=> r.amount = Outstanding(schedule[l], paid[l])
      /\ r.remaining = 0
  BY <1>1, <1>6 DEF Counted, Holding
<1>8. Scheduled(l) /\ Kept(l)
  BY <1>4 DEF LedgerInvariant
<1>9. /\ Total(schedule[l]) \in Nat /\ Total(paid[l]) \in Nat
      /\ Outstanding(schedule[l], paid[l]) = Total(schedule[l]) - Total(paid[l])
  BY <1>4, LoanTotals
<1>10. closed[l] \in BOOLEAN /\ repayments \in Seq(Row)
  BY <1>4 DEF IInv, TypeOK
<1> HIDE DEF r
<1>11. closed[l] = FALSE
  <2>1. Total(schedule[l]) # Total(paid[l])
    BY <1>4, <1>7, <1>9
  <2> QED
    BY <1>8, <1>10, <2>1 DEF Kept
<1>12. paid'[l] = r.work /\ Total(paid'[l]) = Total(paid[l]) + r.amount
  <2>1. paid'[l] = r.work
    BY <1>3, <1>4 DEF IInv, TypeOK
  <2> HIDE DEF l
  <2> QED
    BY <1>4, <1>7, <1>9, <2>1
<1>13. closed'[l] = (r.amount = Outstanding(schedule[l], paid[l]))
  <2>1. closed'[l] = (closed[l] \/ r.last)
    BY <1>3, <1>4 DEF IInv, TypeOK
  <2> HIDE DEF l
  <2> QED
    BY <1>4, <1>7, <1>11, <2>1
<1>14. row.loan = l /\ row.amount = r.amount
  OBVIOUS
<1> HIDE DEF row
<1>15. \A k : Received(k, repayments')
                = Received(k, repayments) + (IF l = k THEN r.amount ELSE 0)
  BY <1>3, <1>4, <1>10, <1>14, ReceivedMore
<1>16. \A k : Received(k, repayments) \in Int
  BY <1>10, ReceivedIs, SumTyped
<1>17. ASSUME NEW k \in Loans \ {l}
       PROVE  /\ paid'[k] = paid[k] /\ closed'[k] = closed[k]
              /\ Received(k, repayments') = Received(k, repayments)
  <2>1. paid'[k] = paid[k] /\ closed'[k] = closed[k]
    BY <1>3 DEF IInv, TypeOK
  <2>2. Received(k, repayments') = Received(k, repayments) + 0
    BY <1>15
  <2>3. Received(k, repayments) \in Int
    BY <1>16
  <2> QED
    BY <2>1, <2>2, <2>3
<1>18. Received(l, repayments') = Received(l, repayments) + r.amount
  BY <1>15
<1> QED
  BY <1>3, <1>4, <1>5, <1>7, <1>11, <1>12, <1>13, <1>17, <1>18 DEF r

LEMMA CommitLedger ==
  ASSUME IInv, LedgerInvariant, NEW s \in Sessions, CommitRepayment(s)
  PROVE  LedgerInvariant'
<1> DEFINE l == request[s].loan
           amount == request[s].amount
           owed == Outstanding(schedule[l], paid[l])
<1>1. /\ l \in Loans /\ contract[l] # NoContract /\ closed[l] = FALSE
      /\ amount \in 1..owed
      /\ Total(paid'[l]) = Total(paid[l]) + amount
      /\ Received(l, repayments') = Received(l, repayments) + amount
      /\ closed'[l] = (amount = owed)
      /\ UNCHANGED <<contract, schedule>>
      /\ \A k \in Loans \ {l} :
           /\ paid'[k] = paid[k] /\ closed'[k] = closed[k]
           /\ Received(k, repayments') = Received(k, repayments)
  BY CommitPays
<1>2. /\ Total(schedule[l]) \in Nat /\ Total(paid[l]) \in Nat
      /\ owed = Total(schedule[l]) - Total(paid[l])
  BY <1>1, LoanTotals
<1>3. /\ request' = [request EXCEPT ![s] = Idle] /\ request[s].phase = "inserted"
  BY DEF CommitRepayment, Working
<1>4. /\ request'[s] = Idle /\ Idle.phase = "idle"
      /\ \A t \in Sessions \ {s} : request'[t] = request[t]
  BY <1>3 DEF IInv, TypeOK, Idle
<1>5. \A t \in Sessions \ {s} : ~HoldsInstallments(t, l)
  BY <1>1, <1>3 DEF IInv, Inductive, LocksExclude, HoldsInstallments
<1> HIDE DEF l, amount, owed
<1>6. ASSUME NEW k \in Loans PROVE Scheduled(k)' /\ Kept(k)'
  <2>1. Scheduled(k) /\ Kept(k)
    BY DEF LedgerInvariant
  <2>2. CASE k = l
    <3>1. Scheduled(k)'
      BY <1>1, <2>1, <2>2 DEF Scheduled
    <3>2. Received(l, repayments') = Total(paid'[l])
      BY <1>1, <2>1, <2>2 DEF Kept
    <3>3. closed'[l] => Total(paid'[l]) = Total(schedule[l])
      <4>1. amount = owed => Total(paid'[l]) = Total(schedule[l])
        BY <1>1, <1>2
      <4>2. closed'[l] => amount = owed
        BY <1>1, Zenon
      <4> QED
        BY <4>1, <4>2
    <3> QED
      BY <1>1, <2>2, <3>1, <3>2, <3>3 DEF Kept
  <2>3. CASE k # l
    BY <1>1, <2>1, <2>3 DEF Scheduled, Kept
  <2> QED
    BY <2>2, <2>3
<1>7. ASSUME NEW t \in Sessions PROVE Accounted(t)'
  <2>1. CASE t = s
    BY <1>4, <2>1 DEF Accounted, Counted, Told, Holding
  <2>2. CASE t # s /\ request[t].loan # l
    <3> DEFINE q == request[t]
    <3>1. Accounted(t) /\ request'[t] = q
      BY <1>4, <2>2 DEF LedgerInvariant
    <3>2. CASE q.loan \in Loans
      BY <1>1, <2>2, <3>1, <3>2 DEF Accounted
    <3>3. CASE q.loan \notin Loans
      <4>1. ~(q.phase \in {"stating", "stated"} \/ Paying(q))
        BY <3>3, KindOfRequest DEF IInv, Stating, Repaying
      <4> QED
        BY <3>1, <4>1 DEF Accounted, Counted, Told, Paying, Holding
    <3> QED
      BY <3>2, <3>3
  <2>3. CASE t # s /\ request[t].loan = l
    <3> DEFINE q == request[t]
    <3>1. /\ Counted(q, schedule[l], paid[l]) /\ Told(q, schedule[l], paid[l])
          /\ request'[t] = q
      BY <1>4, <2>3 DEF LedgerInvariant, Accounted
    <3>2. ~Holding(q)
      BY <1>5, <2>3 DEF HoldsInstallments, Holding
    <3>3. Counted(q, schedule[l], paid'[l])
      BY <3>1, <3>2 DEF Counted, Holding
    <3>4. Told(q, schedule[l], paid'[l])
      <4>1. SUFFICES ASSUME q.phase \in {"stating", "stated"}
            PROVE  Total(q.work) <= Total(paid'[l])
        BY <3>1 DEF Told
      <4>2. q.work \in Seq(Installment)
        BY <4>1, KindOfRequest DEF IInv, Stating
      <4>3. Total(q.work) \in Nat /\ Total(q.work) <= Total(paid[l])
        BY <3>1, <4>1, <4>2, TotalTyped DEF Told
      <4>4. amount \in Nat
        BY <1>1, <1>2
      <4> QED
        BY <1>1, <1>2, <4>3, <4>4
    <3> QED
      BY <1>1, <2>3, <3>1, <3>3, <3>4 DEF Accounted
  <2> QED
    BY <2>1, <2>2, <2>3
<1> QED
  BY <1>6, <1>7 DEF LedgerInvariant

LEMMA NextLedger == IInv /\ LedgerInvariant /\ [Next]_vars => LedgerInvariant'
<1> SUFFICES ASSUME IInv, LedgerInvariant, [Next]_vars PROVE LedgerInvariant'
  OBVIOUS
<1>1. ASSUME NEW l \in Loans, NEW t \in Contracts[l], Disburse(l, t)
      PROVE  LedgerInvariant'
  BY <1>1, DisburseLedger
<1>2. ASSUME NEW s \in Sessions, NEW l \in Loans, NEW amount \in Amounts,
             NEW reference \in References \cup {NoReference},
             BeginRepayment(s, l, amount, reference)
      PROVE  LedgerInvariant'
  BY <1>2, BeginRepaymentLedger
<1>3. ASSUME NEW s \in Sessions, NEW l \in Loans, BeginStatement(s, l)
      PROVE  LedgerInvariant'
  BY <1>3, StatementLedger
<1>4. ASSUME NEW s \in Sessions, Advance(s) PROVE LedgerInvariant'
  <2>1. CASE CheckReference(s)
    BY <2>1, CheckReferenceLedger
  <2>2. CASE LockInstallments(s)
    BY <2>2, LockInstallmentsLedger
  <2>3. CASE AllocateNext(s)
    BY <2>3, AllocateNextLedger
  <2>4. CASE InsertRepayment(s)
    BY <2>4, InsertRepaymentLedger
  <2>5. CASE CommitRepayment(s)
    BY <2>5, CommitLedger
  <2>6. CASE ReadRepayments(s)
    BY <2>6, StatementLedger
  <2>7. CASE Refused(s) \/ Reply(s)
    BY <2>7, RollBackLedger DEF Refused, Reply
  <2> QED
    BY <1>4, <2>1, <2>2, <2>3, <2>4, <2>5, <2>6, <2>7 DEF Advance
<1>5. ASSUME NEW s \in Sessions, Fail(s) PROVE LedgerInvariant'
  BY <1>5, RollBackLedger DEF Fail
<1>6. CASE UNCHANGED vars
  <2>1. UNCHANGED <<contract, schedule, paid, repayments, closed, request>>
    BY <1>6 DEF vars, rows
  <2> QED
    BY <2>1 DEF LedgerInvariant, Scheduled, Kept, Accounted
<1> QED
  BY <1>1, <1>2, <1>3, <1>4, <1>5, <1>6 DEF Next

\* Both invariants together.
LEMMA Ledger == Spec => [](IInv /\ LedgerInvariant)
<1>1. Init => IInv /\ LedgerInvariant
  BY InitIInv, InitLedger
<1>2. IInv /\ LedgerInvariant /\ [Next]_vars => (IInv /\ LedgerInvariant)'
  BY NextIInv, NextLedger
<1> QED
  BY <1>1, <1>2, PTL DEF Spec

\* The schedule of any contract that can be scheduled adds up to the
\* principal, its interest never rises and its dates ascend
\* (build_amortization_schedule, add_months).
THEOREM SchedulesReconcile == Spec => []ScheduleReconciles
<1>1. IInv /\ LedgerInvariant => ScheduleReconciles
  <2> SUFFICES ASSUME LedgerInvariant, NEW l \in Loans, contract[l] # NoContract
               PROVE  LET due == schedule[l] IN
                      /\ SumOf([i \in 1..Len(due) |-> due[i].principal]) = contract[l].principal
                      /\ \A i \in 2..Len(due) :
                           /\ due[i].interest <= due[i - 1].interest
                           /\ Earlier(DueDate(contract[l], i - 1), DueDate(contract[l], i))
    BY DEF ScheduleReconciles
  <2>1. /\ contract[l] \in Contracts[l]
        /\ schedule[l] = BuildAmortizationSchedule(contract[l])
    BY DEF LedgerInvariant, Scheduled
  <2>2. Terms(contract[l])
    BY <2>1, ScheduleAssumption
  <2> QED
    BY <2>1, <2>2, Reconciles
<1> QED
  BY <1>1, Ledger, PTL

\* However payments commit between the two reads of a statement, its balance
\* counts at least what its installments show as paid, and no more than is
\* due (servicing_data).
THEOREM StatementsAreBounded == Spec => []StatementBounded
<1>1. IInv /\ LedgerInvariant => StatementBounded
  <2> SUFFICES ASSUME IInv, LedgerInvariant, NEW s \in Sessions, Working(s, "stated")
               PROVE  /\ Received(request[s].loan, request[s].ledger) >= Total(request[s].work)
                      /\ Received(request[s].loan, request[s].ledger)
                           <= Total(schedule[request[s].loan])
    BY DEF StatementBounded
  <2>1. /\ Total(request[s].work) <= Received(request[s].loan, request[s].ledger)
        /\ Received(request[s].loan, request[s].ledger) <= Total(schedule[request[s].loan])
    BY DEF LedgerInvariant, Accounted, Told, Working
  <2>2. request[s] \in Stating
    BY KindOfRequest DEF IInv, Working
  <2>3. request[s].work \in Seq(Installment) /\ request[s].ledger \in Seq(Row)
    BY <2>2 DEF Stating
  <2>4. /\ Total(request[s].work) \in Nat
        /\ Received(request[s].loan, request[s].ledger) \in Int
    <3>1. Total(request[s].work) \in Nat
      BY <2>3, TotalTyped
    <3>2. Received(request[s].loan, request[s].ledger) \in Int
      BY <2>3, ReceivedIs, SumTyped
    <3> QED
      BY <3>1, <3>2
  <2> QED
    BY <2>1, <2>4
<1> QED
  BY <1>1, Ledger, PTL

-----------------------------------------------------------------------------
(***************************************************************************)
(* The refinement.  A disbursement opens the account of its loan, a commit *)
(* is a payment, and every other step leaves the accounts as they are.     *)
(***************************************************************************)
LEMMA InitAccount == Init => Account!Init
<1> SUFFICES ASSUME Init PROVE Account!Init
  OBVIOUS
<1>1. \A l \in Loans : /\ contract[l] = NoContract /\ closed[l] = FALSE
                       /\ schedule[l] = <<>> /\ paid[l] = <<>>
  BY DEF Init
<1>2. \A l \in Loans : (contract[l] # NoContract) = FALSE
  BY <1>1
<1>3. \A l \in Loans : /\ Outstanding(schedule[l], paid[l]) = 0
                       /\ Received(l, repayments) = 0
  <2>1. <<>> \in Seq(Installment) /\ <<>> \in Seq(Row) /\ repayments = <<>>
    BY DEF Init
  <2>2. Total(<<>>) = 0
    BY <2>1, EmptyTotal
  <2> TAKE l \in Loans
  <2>3. Outstanding(schedule[l], paid[l]) = 0
    BY <1>1, <2>2 DEF Outstanding
  <2>4. Received(l, repayments) = 0
    BY <2>1, ReceivedNothing
  <2> QED
    BY <2>3, <2>4
<1>4. closed = [l \in Loans |-> FALSE]
  BY DEF Init
<1> QED
  BY <1>2, <1>3, <1>4 DEF Account!Init

LEMMA DisburseOpens ==
  ASSUME IInv, LedgerInvariant, NEW l \in Loans, NEW t \in Contracts[l], Disburse(l, t)
  PROVE  Account!Open(l)
<1> DEFINE due == BuildAmortizationSchedule(t)
           got == [i \in 1..Len(due) |-> Nothing]
<1>1. due \in Seq(Installment) /\ t # NoContract /\ Terms(t)
  BY ScheduleAssumption, ScheduleAmortizes DEF Terms, NoContract
<1>2. /\ contract[l] = NoContract
      /\ contract' = [contract EXCEPT ![l] = t]
      /\ schedule' = [schedule EXCEPT ![l] = due]
      /\ paid' = [paid EXCEPT ![l] = got]
      /\ UNCHANGED <<repayments, closed>>
  BY DEF Disburse
<1>3. got \in Seq(Installment) /\ \A i \in 1..Len(got) : got[i] = Nothing
  BY <1>1 DEF Installment, Nothing
<1>4. /\ contract'[l] = t /\ schedule'[l] = due /\ paid'[l] = got
      /\ \A k \in Loans \ {l} : /\ contract'[k] = contract[k]
                                /\ schedule'[k] = schedule[k] /\ paid'[k] = paid[k]
  BY <1>2 DEF IInv, TypeOK
<1>5. Total(due) \in Nat \ {0}
  BY <1>1, SomethingIsOwed
<1> HIDE DEF due, got
<1>6. Total(got) = 0
  BY <1>3, TotalOfNothing
<1>7. Outstanding(schedule'[l], paid'[l]) > 0
  BY <1>4, <1>5, <1>6 DEF Outstanding
<1>8. /\ (contract[l] # NoContract) = FALSE /\ (contract'[l] # NoContract) = TRUE
      /\ \A k \in Loans \ {l} :
           /\ (contract'[k] # NoContract) = (contract[k] # NoContract)
           /\ Outstanding(schedule'[k], paid'[k]) = Outstanding(schedule[k], paid[k])
  BY <1>1, <1>2, <1>4
<1>9. [k \in Loans |-> contract'[k] # NoContract]
        = [[k \in Loans |-> contract[k] # NoContract] EXCEPT ![l] = TRUE]
  BY <1>8
<1>10. [k \in Loans |-> Outstanding(schedule'[k], paid'[k])]
         = [[k \in Loans |-> Outstanding(schedule[k], paid[k])] EXCEPT
              ![l] = Outstanding(schedule'[l], paid'[l])]
  BY <1>8
<1> QED
  BY <1>2, <1>7, <1>8, <1>9, <1>10 DEF Account!Open

LEMMA CommitIsAPayment ==
  ASSUME IInv, LedgerInvariant, NEW s \in Sessions, CommitRepayment(s)
  PROVE  Account!Pay(request[s].loan)
<1> DEFINE l == request[s].loan
           amount == request[s].amount
           owed == Outstanding(schedule[l], paid[l])
<1>1. /\ l \in Loans /\ contract[l] # NoContract /\ closed[l] = FALSE
      /\ amount \in 1..owed
      /\ Total(paid'[l]) = Total(paid[l]) + amount
      /\ Received(l, repayments') = Received(l, repayments) + amount
      /\ closed'[l] = (amount = owed)
      /\ UNCHANGED <<contract, schedule>>
      /\ \A k \in Loans \ {l} :
           /\ paid'[k] = paid[k] /\ closed'[k] = closed[k]
           /\ Received(k, repayments') = Received(k, repayments)
  BY CommitPays
<1>2. /\ Total(schedule[l]) \in Nat /\ Total(paid[l]) \in Nat
      /\ owed = Total(schedule[l]) - Total(paid[l])
  BY <1>1, LoanTotals
<1>3. Received(l, repayments) = Total(paid[l])
  BY <1>1 DEF LedgerInvariant, Kept
<1>4. closed \in [Loans -> BOOLEAN] /\ closed' \in [Loans -> BOOLEAN]
  BY NextIInv DEF IInv, TypeOK, Next, Advance
<1> HIDE DEF l, amount, owed
<1>5. /\ Received(l, repayments') - Received(l, repayments) = amount
      /\ Outstanding(schedule'[l], paid'[l]) = owed - amount
  BY <1>1, <1>2, <1>3 DEF Outstanding
<1>6. [k \in Loans |-> Received(k, repayments')]
        = [[k \in Loans |-> Received(k, repayments)] EXCEPT
             ![l] = Received(l, repayments) + amount]
  BY <1>1
<1>7. [k \in Loans |-> Outstanding(schedule'[k], paid'[k])]
        = [[k \in Loans |-> Outstanding(schedule[k], paid[k])] EXCEPT
             ![l] = owed - amount]
  BY <1>1, <1>5
<1>8. closed' = [closed EXCEPT ![l] = owed - amount = 0]
  <2>1. closed'[l] = (owed - amount = 0)
    BY <1>1, <1>2
  <2> QED
    BY <1>1, <1>4, <2>1
<1>9. Account!Pay(l)
  BY <1>1, <1>4, <1>5, <1>6, <1>7, <1>8 DEF Account!Pay, owed
<1> QED
  BY <1>9 DEF l

LEMMA NextAccount ==
  IInv /\ LedgerInvariant /\ [Next]_vars => [Account!Next]_Account!account
<1> SUFFICES ASSUME IInv, LedgerInvariant, [Next]_vars
             PROVE  Account!Next \/ UNCHANGED Account!account
  OBVIOUS
<1>1. ASSUME NEW l \in Loans, NEW t \in Contracts[l], Disburse(l, t)
      PROVE  Account!Next
  BY <1>1, DisburseOpens DEF Account!Next
<1>2. ASSUME NEW s \in Sessions, CommitRepayment(s)
      PROVE  Account!Next
  BY <1>2, CommitPays, CommitIsAPayment DEF Account!Next
<1>3. ASSUME UNCHANGED rows PROVE UNCHANGED Account!account
  BY <1>3 DEF rows, Account!account
<1>4. \/ \E l \in Loans : \E t \in Contracts[l] : Disburse(l, t)
      \/ \E s \in Sessions : CommitRepayment(s)
      \/ UNCHANGED rows
  BY DEF Next, Advance, vars, BeginRepayment, BeginStatement, CheckReference,
     LockInstallments, AllocateNext, InsertRepayment, ReadRepayments, Refused,
     Reply, Fail, RollBack
<1> QED
  BY <1>1, <1>2, <1>3, <1>4

\* Whatever requests overlap, the rows of any loans behave as the accounts of
\* LoanAccount: money comes in by amounts that were owed, what is owed falls
\* by as much, and the loan is closed by the payment that leaves nothing
\* (record_repayment, allocate_repayment).
THEOREM ServicingImplementsAccount == Spec => ImplementsAccount
<1>1. Spec => Account!Init /\ [][Account!Next]_Account!account
  BY InitAccount, NextAccount, Ledger, PTL DEF Spec
<1> QED
  BY <1>1 DEF ImplementsAccount, Account!Spec
=============================================================================
