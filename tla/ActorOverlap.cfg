SPECIFICATION FairSpec
CONSTANTS
    s1 = s1
    s2 = s2
    i1 = i1
    i2 = i2
    i3 = i3
    i4 = i4
    r1 = r1
    r2 = r2
    r3 = r3
    Null = Null
    Missing = Missing
    None = None
    Names = {"n1"}
    Sized = {s1}
    Unsized = {}
    Blank = {Null}
    Factory <- MCFactory
    Ids = {"a"}
    Instances = {i1, i2}
    Requests = {r1, r2}
    Args = {s1}
    Disciplines = {"drain", "free"}
    Failures = {"hook", "commit", "crash"}
INVARIANTS SingleInstance OnlyActivatedServe
PROPERTIES OnlyDeactivatedLeave EveryRequestEnds
