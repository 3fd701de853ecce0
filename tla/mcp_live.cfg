SPECIFICATION FairSpec
CONSTANTS
    Users = {u1}
    Runs = {}
    Callers = {c1}
    MaxProcesses = 2
    MaxRequests = 3
    Controls = {"auto", "check"}
PROPERTIES EverythingEnds DeathIsNoticed
CHECK_DEADLOCK FALSE
