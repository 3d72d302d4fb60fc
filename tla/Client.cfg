SPECIFICATION Spec
CONSTANTS
    Callers = {"c1", "c2"}
    Protocols = {"http", "grpc"}
    Asks <- MCAsks
    Texts <- MCTexts
    RefusalStatuses = {400, 500}
    MaxUses = 2
    Subscribers = {"s1", "s2"}
    MaxVersion = 2
INVARIANTS TypeOK ConfigurationIsHeard
PROPERTIES ImplementsPromise EveryCallSettles ItemsAreTaken StopEndsOwn NothingAfterStop
CHECK_DEADLOCK FALSE
