SPECIFICATION Spec
CONSTANTS
    i1 = i1
    i2 = i2
    i3 = i3
    pA = pA
    pB = pB
    Item = {i1, i2}
    Project = {pA}
    ProjectOf <- MCProjectOf
    Worker = {w1}
    QueueCapacity = 0
    NoItem = NoItem
    NoActor = NoActor
    ActorQueueCapacity = 1
    Actor = {a1}
    HasWork = {i1}
    CallerBound = {i1}
    Removable = {}
    MaxAsks = 1
    Returned = {"nil"}
INVARIANTS ActorTypeOK MailboxRight
PROPERTIES KeepsContract QueuedCancellation EveryCommandAnswered ClosedActorEnds
CHECK_DEADLOCK FALSE
