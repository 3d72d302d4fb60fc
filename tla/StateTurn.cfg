SPECIFICATION Spec
CONSTANTS
    n1 = n1
    n2 = n2
    c1 = c1
    c2 = c2
    s1 = s1
    s2 = s2
    num = num
    zero = zero
    Null = Null
    Missing = Missing
    Names = {n1, n2}
    Callers = {c1, c2}
    Sized = {s1, s2}
    Unsized = {}
    Blank = {Null}
    Factory <- MCFactory
    Ops <- MCOpsButAdd
    Args = {s1, s2}
    Touches <- MCTouchesOwn
    Overlap = FALSE
    Failures = {"read"}
    SidecarOps = {"upsert", "remove"}
INVARIANTS TypeOK AddIsFresh ChangeIsOfStored CleanIsStored
PROPERTIES ChangeSurvives ImplementsCache
