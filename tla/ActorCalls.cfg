SPECIFICATION FairSpec
CONSTANTS
    None = None
    Types = {"t"}
    Methods = {"m"}
    Callbacks = {"m", "typo"}
    Calls = {"c1", "c2"}
    ArgLists <- MCArgLists
    Results <- MCResults
    Data <- MCData
    Periods = {"time", "dated", "missing"}
    Failures = {"crash", "throw"}
INVARIANTS TypeOK ArgumentsArrive ScheduledArrive ResultArrives
PROPERTIES EveryCallEnds
