SPECIFICATION Safety
CONSTANTS
    start = start
    again = again
    stop = stop
    run = run
    retry = retry
    tick = tick
    starting = starting
    restarting = restarting
    stopping = stopping
    running = running
    ticking = ticking
    Command = {run, tick}
    NoCommand = NoCommand
    KindOf <- Kinds
    Op = {running, ticking}
    OpOf <- Keys
    Automatic = {}
    Impatient = {run}
    Plan = {p1, p2}
    NoPlan = NoPlan
    Stopper = {g1}
    PlanOf <- SomePlan
    MaxRest = 1
    MaxFaults = 1
INVARIANTS LoopTypeOK OneRunAtATime WorksOnRunning CancelledNeverSucceeds PlanStopHonoured
PROPERTY FirstTerminalWins
CHECK_DEADLOCK FALSE
