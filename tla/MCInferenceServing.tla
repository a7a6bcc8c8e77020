--------------------------- MODULE MCInferenceServing ---------------------------
(***************************************************************************)
(* Pipelines like the one of base.yaml and others its schema admits, three *)
(* training rows out of four, requests with gaps, new words and columns in *)
(* another order; a replica and three calls.                               *)
(***************************************************************************)
EXTENDS InferenceServing, TLC

CONSTANTS p1, c1, c2, c3, v1, v2, none, missing

Income == Column("income")
Debt == Column("debt")
Status == Column("status")
Raws == <<Income, Debt, Status>>

Employed == 101
Spaced == 102           \* " Employed"
SelfDash == 103         \* "self-employed"
SelfSpace == 104        \* "self employed": encoded under the same name
NA == 105
Dollars == 106          \* "$6"
Junk == 107

MCCanonical == Spaced :> Employed
MCSafeNames == SelfSpace :> SelfDash
MCAmounts == Dollars :> 6

Row(income, debt, status) == (Income :> income) @@ (Debt :> debt) @@ (Status :> status)

Rows == {Row(4, 2, Employed), Row(5, 1, Spaced), Row(9, Missing, SelfDash), Row(NA, 3, SelfSpace)}
MCTrainings == {[i \in 1..3 |-> [who |-> i, cell |-> s[i]]] : s \in {s \in [1..3 -> Rows] : s[1] # s[2]}}

Request(cols, cell) == [who |-> 9, cols |-> cols, cell |-> cell]
MCRequests ==
    {Request(Raws, c) : c \in {Row(5, 2, Employed), Row(NA, 2, SelfSpace), Row(Missing, 9, Junk),
                               Row(4, Missing, NA), Row(Dollars, 1, Spaced)}}
    \cup {Request(<<Debt, Income, Status>>, Row(5, 2, Employed)),
          Request(<<Income, Status>>, [c \in {Income, Status} |-> Row(4, 2, Employed)[c]])}

Step(name) == [name |-> name, columns |-> {}, rules |-> {}, left |-> Income, right |-> Income,
               action |-> "none"]
Rule(low, high, drop) == [column |-> Income, low |-> low, high |-> high, drop |-> drop]

Base0 == [Default EXCEPT
          !.on = {"clean", "impute", "outliers", "encode", "scale", "select"},
          !.cols = Raws,
          !.steps = <<Step("whitespace"), Step("standardize_missing"),
                      Step("categorical_cleanup"), Step("correct_dtypes"), Step("drop_duplicates")>>,
          !.encoding = <<[column |-> Status, strategy |-> "label"]>>,
          !.features = 2]

Typing == <<Step("whitespace"), Step("standardize_missing"), Step("correct_dtypes")>>
MCPipelines ==
    { Base0,
      \* outliers removed, labels used twice
      [Base0 EXCEPT !.steps = Typing, !.action = "remove", !.outlierColumns = {Income},
           !.encoding = <<[column |-> Status, strategy |-> "frequency"]>>,
           !.selection = "importance"],
      [Base0 EXCEPT !.steps = Typing, !.outliers = "isolation_forest", !.scaling = "minmax",
           !.encoding = <<[column |-> Status, strategy |-> "target"]>>,
           !.selection = "mutual_information"],
      \* the other cleaners and imputers
      [Base0 EXCEPT !.steps = <<Step("standardize_missing"),
               [Step("currency") EXCEPT !.columns = {Income}],
               [Step("invalid_values") EXCEPT !.rules = {Rule(0, 8, FALSE)}],
               [Step("consistency") EXCEPT !.left = Debt, !.right = Income, !.action = "set_nan"]>>,
           !.strategies = (Income :> "constant") @@ (Debt :> "knn") @@ (Status :> "ffill"),
           !.encoding = <<[column |-> Status, strategy |-> "hash"]>>,
           !.selection = "correlation"],
      [Base0 EXCEPT !.steps = Typing \o <<
               [Step("invalid_values") EXCEPT !.rules = {Rule(0, 8, TRUE)}],
               [Step("consistency") EXCEPT !.left = Debt, !.right = Income, !.action = "drop"]>>,
           !.strategies = Status :> "bfill", !.numeric = "mean",
           !.encoding = <<[column |-> Status, strategy |-> "one_hot"]>>,
           !.on = @ \ {"outliers", "scale", "select"}] }

\* Two scales with one set of points: the scores of both at each of them
MCScorecard == [p \in 0..4 |-> <<850, 753, 686, 572, 300>>[p + 1]]
MCFraudScorecard == [p \in 0..4 |-> <<0, 250, 500, 700, 1000>>[p + 1]]
MCFraudWeight == [p \in 0..4 |-> <<0, 0, 1, 1, 2>>[p + 1]]

\* base.yaml
Band(min, band) == [min |-> min, band |-> band]
MCCreditBands == <<Band(760, "very_low"), Band(690, "low"), Band(620, "medium"),
                   Band(500, "high"), Band(300, "very_high")>>
MCFraudBands == <<Band(801, "critical"), Band(601, "high"), Band(401, "moderate"),
                  Band(201, "low"), Band(0, "very_low")>>
MCRecommendation == [b \in {"very_low", "low"} |-> "approve"] @@ [b \in {"medium"} |-> "review"]
                    @@ [b \in {"high", "very_high"} |-> "reject"]

\* Zoos: two algorithms, one twice, one without its library, nothing to train
Algorithm(name, params) == [algorithm |-> name, params |-> params]
MCZoos == {<<Algorithm("logistic", 1), Algorithm("forest", 1)>>,
           <<Algorithm("logistic", 1), Algorithm("logistic", 2)>>,
           <<Algorithm("boost", 1), Algorithm("forest", 2)>>, <<Algorithm("boost", 1)>>}

MCRequired == {Income}

\* One call of the full scale
AllAnswers == Probability

Symmetry == Permutations({c1, c2, c3})
=================================================================================
