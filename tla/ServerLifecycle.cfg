SPECIFICATION FairSpec
CONSTANTS
    mixed = mixed
    lower = lower
    barred = barred
    shared = shared
    own = own
    k1 = k1
    k2 = k2
    Names = {mixed, lower, barred}
    Lower <- MCLower
    Cut <- MCCut
    Paths = {shared, own}
    Path <- MCPath
    Route <- MCRoute
    Endpoints <- MCEndpoints
    Payloads <- MCPayloads
    Results <- MCResults
    Protocols = {"http", "grpc"}
    Calls = {k1, k2}
    MaxRetry = 2
    Failures = {"bind", "throw"}
INVARIANTS TypeOK InitializedListens HandledByItsOwn PayloadArrives AnswerTellsOutcome
PROPERTIES TopicEventsAnswered InitializedOnHealth StartEnds StopEnds
