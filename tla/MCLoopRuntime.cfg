SPECIFICATION Safety
CONSTANTS
    start = start
    again = again
    stop = stop
    run = run
    retry = retry
    tick = tick
    starting = starting
    restarting = restarting
    stopping = stopping
    running = running
    ticking = ticking
    Command = {start, again, stop, tick}
    NoCommand = NoCommand
    KindOf <- Kinds
    Op = {starting, restarting, stopping, ticking}
    OpOf <- Keys
    Automatic = {tick}
    Impatient = {}
    Plan = {p1}
    NoPlan = NoPlan
    Stopper = {}
    PlanOf <- SomePlan
    MaxRest = 0
    MaxFaults = 0
INVARIANTS TimerFollowsLoop NoFakeRunning
CHECK_DEADLOCK FALSE
