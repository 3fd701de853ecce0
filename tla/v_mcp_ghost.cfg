SPECIFICATION Spec
CONSTANTS
    Users = {u1}
    Runs = {}
    Callers = {c1}
    MaxProcesses = 1
    MaxRequests = 3
    Controls = {}
INVARIANT ToolsHaveAServer
CHECK_DEADLOCK FALSE
