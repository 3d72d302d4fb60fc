SPECIFICATION Spec
CONSTANTS
    mixed = mixed
    lower = lower
    barred = barred
    shared = shared
    own = own
    k1 = k1
    k2 = k2
    Names = {mixed, lower, barred}
    Lower <- MCLower
    Cut <- MCCut
    Paths = {shared, own}
    Path <- MCPath
    Route <- MCRoute
    Endpoints <- MCSpelled
    Payloads <- MCPayloads
    Results <- MCResults
    Protocols = {"grpc"}
    Calls = {k1}
    MaxRetry = 2
    Failures = {}
PROPERTIES SubscribedIsHeard
