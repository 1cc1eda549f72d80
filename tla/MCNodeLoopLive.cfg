SPECIFICATION FairSpec
CONSTANTS
    i1 = i1
    p1 = p1
    p2 = p2
    t1 = t1
    extra = extra
    u1 = u1
    None = None
    Plan = {p1, p2}
    Task = {t1, u1}
    Intake = {i1}
    PlanOf <- SomePlanOf
    Rank <- SomeRank
    Source <- SomeSource
    Acceptance = {u1}
    Apart = {}
    Written = {t1, u1}
    FirstPlans = {p1}
    Retries = 1
    Repairs = 1
    MaxFails = 1
PROPERTY RunEnds
