SPECIFICATION Safety
CONSTANTS
    i1 = i1
    i2 = i2
    i3 = i3
    pA = pA
    pB = pB
    Item = {i1, i2}
    Project = {pA}
    ProjectOf <- MCProjectOf
    Worker = {w1}
    QueueCapacity = 0
    NoItem = NoItem
    NoActor = NoActor
    ActorQueueCapacity = 1
    Actor = {a1, a2}
    HasWork = {i1, i2}
    CallerBound = {}
    Removable = {pA}
    MaxAsks = 0
    Returned = {"nil"}
SYMMETRY ItemSymmetry
INVARIANTS CountersRight ReservationsOwned ActiveRight ExitedIsClean
CHECK_DEADLOCK FALSE
