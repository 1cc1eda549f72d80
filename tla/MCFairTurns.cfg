SPECIFICATION FairSpec
CONSTANTS
    i1 = i1
    i2 = i2
    i3 = i3
    pA = pA
    pB = pB
    Item = {i1, i2, i3}
    Project = {pA, pB}
    ProjectOf <- MCProjectOf
    Worker = {w1, w2}
    QueueCapacity = 1
    NoItem = NoItem
    Returned = {"nil", "canceled"}
INVARIANTS TypeOK QueueRight OneOwner OneResult NobodyOvertakesTwice
PROPERTIES EveryItemFinishes CloseCompletes
CHECK_DEADLOCK FALSE
