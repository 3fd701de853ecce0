SPECIFICATION Spec
CONSTANTS
    Keep = 4
    UserKinds = {"log"}
    AnswerKinds = {"answer", "failure", "task"}
    Compressors = {c1}
    MaxPosts = 1
    MaxMessages = 7
INVARIANTS SummaryIsExact CurrentRequestStands
CHECK_DEADLOCK FALSE
