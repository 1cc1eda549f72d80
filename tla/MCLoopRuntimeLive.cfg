SPECIFICATION Spec
CONSTANTS
    start = start
    again = again
    stop = stop
    run = run
    retry = retry
    tick = tick
    starting = starting
    restarting = restarting
    stopping = stopping
    running = running
    ticking = ticking
    Command = {run, retry, stop}
    NoCommand = NoCommand
    KindOf <- Kinds
    Op = {running, stopping}
    OpOf <- Keys
    Automatic = {}
    Impatient = {}
    Plan = {p1}
    NoPlan = NoPlan
    Stopper = {}
    PlanOf <- SomePlan
    MaxRest = 0
    MaxFaults = 0
PROPERTIES EveryCommandSettles CallersReturn
CHECK_DEADLOCK FALSE
