----------------------------- MODULE DecisionPolicy -----------------------------
(***************************************************************************)
(* The lending decision: a probability of default and a probability of     *)
(* fraud become scores, bands and one recommendation.  Probabilities are   *)
(* points of an ordered scale 0..Certain; what an assessor may answer      *)
(* instead of one is above the scale.                                      *)
(***************************************************************************)
EXTENDS Integers, Sequences

CONSTANTS
    Certain,            \* the probability 1
    Scorecard,          \* probability of default -> credit score
    FraudScorecard,     \* probability of fraud -> fraud score
    CreditBands,        \* [min, band] by falling score
    FraudBands,
    Recommendation,     \* credit band -> base recommendation
    RejectLevels,       \* fraud levels that force a rejection
    BlockLevels,        \* fraud levels that block an automatic approval
    BlockAction, OnFraudFailure, OnCreditFailure, OnIncomplete

NaN == Certain + 1          \* not a number
Failed == Certain + 2       \* the assessor raised
Absent == Certain + 3       \* there is no fraud assessor

\* The fallbacks are strings of the configuration; nothing keeps one from being
\* "approve".
Fallbacks == {BlockAction, OnFraudFailure, OnCreditFailure, OnIncomplete}

ASSUME ScaleAssumption == Certain \in Nat

Probability == 0..Certain

\* min(1.0, max(0.0, x)): of 0.0 and not-a-number, max keeps the first
Clamped(p) == IF p = NaN THEN 0 ELSE p

Banded(score, bands) ==
    LET met == {i \in DOMAIN bands : score >= bands[i].min}
    IN  IF met = {} THEN bands[Len(bands)].band
        ELSE bands[CHOOSE i \in met : \A j \in met : i <= j].band

CreditScore(p) == Scorecard[Clamped(p)]
FraudScore(p) == FraudScorecard[Clamped(p)]

CreditBand(p) == Banded(CreditScore(p), CreditBands)
FraudLevel(p) == Banded(FraudScore(p), FraudBands)

Base(band) == IF band \in DOMAIN Recommendation THEN Recommendation[band] ELSE "review"

\* Mutant: without a fraud answer, the credit risk alone decides.
RecommendBlind(band, level, creditOk, fraudOk, complete) ==
    IF ~complete THEN OnIncomplete
    ELSE IF ~creditOk THEN OnCreditFailure
    ELSE IF fraudOk /\ level \in RejectLevels THEN "reject"
    ELSE IF fraudOk /\ level \in BlockLevels /\ Base(band) = "approve" THEN BlockAction
    ELSE Base(band)

\* DecisionPolicy.recommend
Recommend(band, level, creditOk, fraudOk, complete) ==
    IF ~complete THEN OnIncomplete
    ELSE IF ~creditOk THEN OnCreditFailure
    ELSE IF fraudOk /\ level \in RejectLevels THEN "reject"
    ELSE IF fraudOk /\ level \in BlockLevels /\ Base(band) = "approve" THEN BlockAction
    ELSE IF ~fraudOk /\ Base(band) = "approve" THEN OnFraudFailure
    ELSE Base(band)

\* DecisionEngine.decide: a failed credit model counts as certain default
CreditOk(credit) == credit # Failed
FraudOk(fraud) == fraud \notin {Failed, Absent}
Assessed(credit) == IF CreditOk(credit) THEN credit ELSE Certain

Decision(credit, fraud, complete) ==
    [credit |-> credit, fraud |-> fraud, complete |-> complete,
     action |-> Recommend(CreditBand(Assessed(credit)),
                          IF FraudOk(fraud) THEN FraudLevel(fraud) ELSE "none",
                          CreditOk(credit), FraudOk(fraud), complete)]

\* The other recommendations are more cautious than an approval, and a
\* rejection more than these.
Caution(action) == IF action = "approve" THEN 0 ELSE IF action = "reject" THEN 2 ELSE 1

\* What an approval takes: data, a credit model that answered with a risk
\* that is approved, and a fraud answer below the levels that block.
Earned(d) ==
    /\ d.complete
    /\ CreditOk(d.credit) /\ Base(CreditBand(d.credit)) = "approve"
    /\ FraudOk(d.fraud) /\ FraudLevel(d.fraud) \notin RejectLevels \cup BlockLevels
=================================================================================
