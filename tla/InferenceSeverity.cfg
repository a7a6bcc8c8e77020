SPECIFICATION Spec
CONSTANTS
    p1 = p1
    c1 = c1
    c2 = c2
    c3 = c3
    v1 = v1
    v2 = v2
    none = none
    missing = missing
    Pipelines <- MCPipelines
    Trainings <- MCTrainings
    Defaulted = {2}
    Canonical <- MCCanonical
    Tokens = {105}
    Amounts <- MCAmounts
    SafeNames <- MCSafeNames
    Widths = {1, 5}
    Buckets = 2
    Missing = missing
    Certain = 4
    Scorecard <- MCScorecard
    FraudScorecard <- MCFraudScorecard
    CreditBands <- MCCreditBands
    FraudBands <- MCFraudBands
    Recommendation <- MCRecommendation
    RejectLevels = {"critical"}
    BlockLevels = {"high", "critical"}
    BlockAction = "manual_review"
    OnFraudFailure = "manual_review"
    OnCreditFailure = "manual_review"
    OnIncomplete = "manual_review"
    Examples = {1, 2, 3, 4}
    Positives = {1, 2}
    Zoos <- MCZoos
    Supported = {"logistic", "forest"}
    Scores = {0, 1}
    Paths = {"credit"}
    MaxJobs = 0
    Requests <- MCRequests
    Required <- MCRequired
    MaxDecisions = 0
    Calls = {c1}
    Replicas = {p1}
    Versions = {v1, v2}
    Servable = {v1}
    None = none
    Limit = 1
    Retention = 1
    Answers <- AllAnswers
    FraudWeight <- MCFraudWeight
INVARIANT ScreeningsAlert
CHECK_DEADLOCK FALSE
