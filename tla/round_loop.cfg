SPECIFICATION FairSpec
CONSTANTS
    MaxRounds = 1
    Multiplier = 4
    Increment = 2
    QueueLimit = 2
    ReadsToSum = 2
    Plan <- PlanOfTwo
    Paths = {a}
    MaxCalls = 2
    MaxGuidance = 3
INVARIANTS CallsAreAnswered NoticesLastUntilRead GuidanceIsKept BudgetFollowsProgress PlanFollowsTools AnswerIsLast
PROPERTY RunEnds
CHECK_DEADLOCK FALSE
