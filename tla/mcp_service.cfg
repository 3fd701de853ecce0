SPECIFICATION Spec
CONSTANTS
    Users = {u1}
    Runs = {r1}
    Callers = {c1}
    MaxProcesses = 2
    MaxRequests = 3
    Controls = {"edit", "unready"}
INVARIANTS AnswerIsOwn ToolsFollowConnection NoOrphan ConnectedIsServed
CHECK_DEADLOCK FALSE
