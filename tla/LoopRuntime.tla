---------------------------- MODULE LoopRuntime ----------------------------
(***************************************************************************)
(* The loop service of one project (application/loop: commands.go,         *)
(* run_once.go, scheduler.go, runtime.go) over the operation store and the *)
(* scheduler.                                                              *)
(*                                                                         *)
(* Of the scheduler only CommandContract is used: every callback and every *)
(* answer is a step the contract allows, and ProjectActor implements the   *)
(* contract.  Besides, the actor of the project runs one callback at a     *)
(* time.  A callback is a sequence of steps, one for each transaction of   *)
(* the operation store or the state store and for each section of the      *)
(* service's mutex another goroutine may observe.                          *)
(*                                                                         *)
(* An element of Command is a request to Execute.  Two requests with the   *)
(* same idempotency key are requests for the same operation.               *)
(***************************************************************************)
EXTENDS Operation, Sequences, FiniteSets

CONSTANTS
    Command, NoCommand,
    KindOf,          \* "start", "stop" or "run"
    Op, OpOf,        \* the operation of a request: its kind and idempotency key
    Automatic,            \* the run requests a timer may make: a bound on the ticks
    Impatient,       \* the requests whose caller may leave before the reply
    Plan, NoPlan,
    Stopper, PlanOf, \* requests to stop a plan
    MaxRest,         \* a bound on the cancellations through the operations endpoint
    MaxFaults        \* a bound on the store calls that fail

LoopKinds == {"start", "stop", "run"}
Runs == {c \in Command : KindOf[c] = "run"}
Starts == {c \in Command : KindOf[c] = "start"}

ASSUME LoopAssumption ==
    /\ KindOf \in [Command -> LoopKinds] /\ OpOf \in [Command -> Op] /\ PlanOf \in [Stopper -> Plan]
    /\ \A c, d \in Command : OpOf[c] = OpOf[d] => KindOf[c] = KindOf[d]
    /\ Automatic \subseteq Runs /\ Impatient \subseteq Command \ Automatic
    /\ NoCommand \notin Command /\ NoPlan \notin Plan /\ Stopper \cap Command = {}
    /\ Command \cap {"off", "sleep", "tick", "ended"} = {}   \* timer holds either
    /\ MaxRest \in Nat /\ MaxFaults \in Nat

VARIABLES
    owner, place, gone, shutdown, calls, result,   \* the contract's
    row,         \* the operation rows
    loop,        \* the project's row of the state store
    at,          \* where the callbacks and the work of a command are
    held,        \* the version of its operation the command knows
    noop,        \* request.noop
    replied,     \* a reply is in request.reply
    exec,        \* where Execute is
    workErr,     \* the error of the work
    active,      \* service.active: the run that owns the project
    planStops,   \* service.planStops
    armed,       \* service.schedules: named by the start request that armed it
    timer,       \* where the goroutine of each schedule is
    step, seen,  \* cancelActiveOperation, by a stop, a run or a plan stopper
    aim,         \* the run it was called for, or found
    rest, faults \* how often the bounded steps happened

contractVars == << owner, place, gone, shutdown, calls, result >>
cancelVars == << step, seen, aim >>
vars == << contractVars, row, loop, at, held, noop, replied, exec, workErr,
           active, planStops, armed, timer, cancelVars, rest, faults >>

Home == 1   \* the actor of the project
Scheduler == INSTANCE CommandContract WITH Item <- Command, HasWork <- Runs, Actor <- {Home}, NoActor <- 0

NoRun == [command |-> NoCommand, version |-> 0, cancelled |-> FALSE, plan |-> NoPlan]
Canceller == Command \cup Stopper

Init ==
    /\ Scheduler!Init
    /\ row = [o \in Op |-> Absent]
    /\ loop = [running |-> FALSE, phase |-> "idle"]
    /\ at = [c \in Command |-> "new"]
    /\ held = [c \in Command |-> 0]
    /\ noop = [c \in Command |-> FALSE]
    /\ replied = [c \in Command |-> FALSE]
    /\ exec = [c \in Command |-> "new"]
    /\ workErr = [c \in Command |-> "nil"]
    /\ active = NoRun
    /\ planStops = {}
    /\ armed = NoCommand
    /\ timer = [s \in Starts |-> "off"]
    /\ step = [g \in Canceller |-> "idle"]
    /\ seen = [g \in Canceller |-> 0]
    /\ aim = [g \in Canceller |-> NoCommand]
    /\ rest = 0
    /\ faults = 0

Row(c) == row[OpOf[c]]
Goes(c, label) == at' = [at EXCEPT ![c] = label]

\* The actor is in a callback, or between two of the same command.
Busy == \E c \in Command : at[c] \notin {"new", "work", "complete", "over"}

\* It may take command c from its mailbox.
Turn(c) ==
    /\ ~Busy /\ at[c] = "new" /\ Scheduler!Waits(c)
    /\ \A d \in Command : Scheduler!Waits(d) => place[c] <= place[d]

\* A store call fails on a cancelled context, and for reasons of its own.
Fault == faults < MaxFaults /\ faults' = faults + 1
Works(c) == ~gone[c] /\ UNCHANGED faults
Fails(c) == (gone[c] /\ UNCHANGED faults) \/ Fault

\* The row becomes what the transaction r returned; the command keeps its version.
Stores(c, r) ==
    /\ row' = [row EXCEPT ![OpOf[c]] = r.row]
    /\ held' = [held EXCEPT ![c] = r.row.version]

-----------------------------------------------------------------------------
(* Execute, in the goroutine of the caller or of a timer *)

Submit(c) ==
    /\ exec[c] = "new" /\ c \notin Automatic
    /\ Scheduler!Accept(c, Home)
    /\ exec' = [exec EXCEPT ![c] = "accepted"]
    /\ UNCHANGED << row, loop, at, held, noop, replied, workErr, active, planStops, armed, timer, cancelVars, rest, faults >>

\* request.submission is assigned after the actor may have begun.
Link(c) ==
    /\ exec[c] = "accepted"
    /\ exec' = [exec EXCEPT ![c] = "waiting"]
    /\ UNCHANGED << contractVars, row, loop, at, held, noop, replied, workErr, active, planStops, armed, timer, cancelVars, rest, faults >>

Return(c) ==
    /\ exec[c] = "waiting" /\ replied[c]
    /\ exec' = [exec EXCEPT ![c] = "returned"]
    /\ UNCHANGED << contractVars, row, loop, at, held, noop, replied, workErr, active, planStops, armed, timer, cancelVars, rest, faults >>

\* The caller's context ends: select may take this branch although a reply is there.
CallerLeaves(c) ==
    /\ c \in Impatient /\ exec[c] = "waiting"
    /\ exec' = [exec EXCEPT ![c] = "returned"]
    /\ Scheduler!Leave({c})
    /\ UNCHANGED << row, loop, at, held, noop, replied, workErr, active, planStops, armed, timer, cancelVars, rest, faults >>

-----------------------------------------------------------------------------
(* The start callback *)

\* The actor answers without a callback: the context is cancelled, or the pool
\* has no room.  Nothing is put in request.reply.
TurnedAway(c) ==
    /\ Turn(c)
    /\ \/ gone[c] /\ UNCHANGED faults
       \/ c \in Runs /\ Fault
    /\ Goes(c, "answer")
    /\ UNCHANGED << contractVars, row, loop, held, noop, replied, exec, workErr, active, planStops, armed, timer, cancelVars, rest >>

Create(c) ==
    /\ Turn(c)
    /\ \/ /\ Works(c) /\ Row(c) = Absent
          /\ Stores(c, Done(Fresh)) /\ Goes(c, "claim") /\ UNCHANGED noop
       \/ /\ Works(c) /\ Row(c) # Absent
          /\ noop' = [noop EXCEPT ![c] = TRUE]
          /\ Goes(c, "started") /\ UNCHANGED << row, held >>
       \/ Fails(c) /\ Goes(c, "startFailed") /\ UNCHANGED << row, held, noop >>
    /\ UNCHANGED << contractVars, loop, replied, exec, workErr, active, planStops, armed, timer, cancelVars, rest >>

ClaimOperation(c) ==
    /\ at[c] = "claim"
    /\ LET r == Claim(Row(c), held[c])
       IN  \/ Works(c) /\ r.ok /\ Stores(c, r) /\ Goes(c, KindOf[c])
           \/ Works(c) /\ ~r.ok /\ Goes(c, "unclaim") /\ UNCHANGED << row, held >>
           \/ Fails(c) /\ Goes(c, "unclaim") /\ UNCHANGED << row, held >>
    /\ UNCHANGED << contractVars, loop, noop, replied, exec, workErr, active, planStops, armed, timer, cancelVars, rest >>

\* cancelCreated: what was created is cancelled if it could not be claimed.
CancelCreated(c) ==
    /\ at[c] = "unclaim"
    /\ \/ Works(c) /\ Stores(c, Transition(Row(c), held[c], "cancelled"))
       \/ Fails(c) /\ UNCHANGED << row, held >>
    /\ Goes(c, "startFailed")
    /\ UNCHANGED << contractVars, loop, noop, replied, exec, workErr, active, planStops, armed, timer, cancelVars, rest >>

StartLoop(c) ==
    /\ at[c] = "start"
    /\ \/ /\ Works(c)
          /\ loop' = IF loop.running THEN loop ELSE [running |-> TRUE, phase |-> "running"]
          /\ Goes(c, IF loop.running THEN "succeed" ELSE "succeedAndArm")
       \/ Fails(c) /\ Goes(c, "fail") /\ UNCHANGED loop
    /\ UNCHANGED << contractVars, row, held, noop, replied, exec, workErr, active, planStops, armed, timer, cancelVars, rest >>

StopLoop(c) ==
    /\ at[c] = "stop"
    /\ \/ Works(c) /\ loop' = [running |-> FALSE, phase |-> "stopped"] /\ Goes(c, "disarm")
       \/ Fails(c) /\ Goes(c, "fail") /\ UNCHANGED loop
    /\ UNCHANGED << contractVars, row, held, noop, replied, exec, workErr, active, planStops, armed, timer, cancelVars, rest >>

\* Disarm, then look for a run to cancel.
Disarm(c) ==
    /\ at[c] = "disarm"
    /\ armed' = NoCommand
    /\ aim' = [aim EXCEPT ![c] = active.command]
    /\ step' = [step EXCEPT ![c] = IF active = NoRun THEN "done" ELSE "look"]
    /\ Goes(c, "succeed")
    /\ UNCHANGED << contractVars, row, loop, held, noop, replied, exec, workErr, active, planStops, timer, seen, rest, faults >>

NeverBusy == FALSE   \* Fault: the gate is open
HasActive == active # NoRun

\* A run while another owns the project succeeds without doing anything.
BeginRun(c) ==
    /\ at[c] = "run"
    /\ IF HasActive
       THEN /\ noop' = [noop EXCEPT ![c] = TRUE]
            /\ Goes(c, "succeed") /\ UNCHANGED << loop, active, faults >>
       ELSE /\ UNCHANGED noop
            /\ \/ /\ Works(c)
                  /\ loop' = [loop EXCEPT !.phase = "scan"]
                  /\ active' = [NoRun EXCEPT !.command = c, !.version = held[c]]
                  /\ Goes(c, "started")
               \/ Fails(c) /\ Goes(c, "fail") /\ UNCHANGED << loop, active >>
    /\ UNCHANGED << contractVars, row, held, replied, exec, workErr, planStops, armed, timer, cancelVars, rest >>

Succeed(c) ==
    /\ at[c] \in {"succeed", "succeedAndArm"} /\ step[c] \in {"idle", "done"}
    /\ LET r == Transition(Row(c), held[c], "succeeded")
       IN  \/ Works(c) /\ r.ok /\ Stores(c, r) /\ Goes(c, IF at[c] = "succeed" THEN "started" ELSE "arm")
           \/ Works(c) /\ ~r.ok /\ Goes(c, "fail") /\ UNCHANGED << row, held >>
           \/ Fails(c) /\ Goes(c, "fail") /\ UNCHANGED << row, held >>
    /\ UNCHANGED << contractVars, loop, noop, replied, exec, workErr, active, planStops, armed, timer, cancelVars, rest >>

Arm(c) ==
    /\ at[c] = "arm"
    /\ armed' = c
    /\ timer' = [timer EXCEPT ![c] = "sleep"]
    /\ Goes(c, "started")
    /\ UNCHANGED << contractVars, row, loop, held, noop, replied, exec, workErr, active, planStops, cancelVars, rest, faults >>

FailClaimed(c) ==
    /\ at[c] = "fail"
    /\ \/ Works(c) /\ Stores(c, Transition(Row(c), held[c], "failed"))
       \/ Fails(c) /\ UNCHANGED << row, held >>
    /\ Goes(c, "startFailed")
    /\ UNCHANGED << contractVars, loop, noop, replied, exec, workErr, active, planStops, armed, timer, cancelVars, rest >>

RepliesToWork(c) == replied' = [replied EXCEPT ![c] = ~noop[c]]   \* Fault: no reply to a repeated request
Replies(c) == replied' = [replied EXCEPT ![c] = TRUE]

\* The callback replies and returns.
StartReturns(c) ==
    /\ at[c] \in {"started", "startFailed"}
    /\ Scheduler!Start(c) /\ calls'[c] = << IF at[c] = "started" THEN "start" ELSE "startFailed" >>
    /\ Replies(c)
    /\ Goes(c, IF at[c] = "started" /\ c \in Runs THEN "launch" ELSE "answer")
    /\ UNCHANGED << row, loop, held, noop, exec, workErr, active, planStops, armed, timer, cancelVars, rest, faults >>

-----------------------------------------------------------------------------
(* The work of a run and its completion *)

\* The actor does not launch the work of a cancelled context, nor completes it.
Launch(c) ==
    /\ at[c] = "launch"
    /\ Goes(c, IF gone[c] THEN "answer" ELSE "work")
    /\ UNCHANGED << contractVars, row, loop, held, noop, replied, exec, workErr, active, planStops, armed, timer, cancelVars, rest, faults >>

IgnoresIntent(p) == FALSE   \* Fault: an earlier stop of the plan is forgotten
StopPending(p) == p \in planStops

\* AssociatePlan: the runner claimed a plan.  If its stop was already requested
\* the run is cancelled here.
Associate(c, p) ==
    /\ at[c] = "work" /\ ~noop[c] /\ step[c] \in {"idle", "done"}
    /\ active.command = c /\ ~active.cancelled
    /\ active' = [active EXCEPT !.plan = p]
    /\ step' = [step EXCEPT ![c] = IF StopPending(p) THEN "look" ELSE @]
    /\ aim' = [aim EXCEPT ![c] = c]
    /\ UNCHANGED << contractVars, row, loop, at, held, noop, replied, exec, workErr, planStops, armed, timer, seen, rest, faults >>

WorkReturns(c) ==
    /\ at[c] = "work" /\ step[c] \in {"idle", "done"}
    /\ \E err \in {"nil", "failed", "canceled"} :
         /\ err = "canceled" => gone[c]
         /\ err = "failed" => ~noop[c]
         /\ workErr' = [workErr EXCEPT ![c] = err]
    /\ Goes(c, "complete")
    /\ UNCHANGED << contractVars, row, loop, held, noop, replied, exec, active, planStops, armed, timer, cancelVars, rest, faults >>

ClaimedVersion(c) == held[c]   \* Fault: the version of the claim
CurrentVersion(c) == active.version

\* The complete callback copies the active run and decides from the copy.
BeginComplete(c) ==
    /\ at[c] = "complete" /\ ~Busy
    /\ Scheduler!Complete(c)
    /\ IF noop[c] \/ active.command # c THEN Goes(c, "answer") /\ UNCHANGED held
       ELSE /\ held' = [held EXCEPT ![c] = CurrentVersion(c)]
            /\ Goes(c, IF active.cancelled \/ workErr[c] = "canceled" THEN "cancelled" ELSE "finish")
    /\ UNCHANGED << row, loop, noop, replied, exec, workErr, active, planStops, armed, timer, cancelVars, rest, faults >>

FinishedStops(state, err) == [running |-> err = "nil" /\ state.running, phase |-> "waiting"]   \* Fault: an error ends the loop
Finished(state, err) ==
    IF ~state.running /\ state.phase = "stopped" THEN state
    ELSE [state EXCEPT !.phase = IF err # "nil" THEN "error" ELSE IF state.running THEN "waiting" ELSE "idle"]

FinishRun(c) ==
    /\ at[c] = "finish"
    /\ \/ /\ UNCHANGED faults
          /\ loop' = Finished(loop, workErr[c])
          /\ Goes(c, IF workErr[c] = "nil" THEN "succeeded" ELSE "failed")
       \/ Fault /\ Goes(c, "failed") /\ UNCHANGED loop
    /\ UNCHANGED << contractVars, row, held, noop, replied, exec, workErr, active, planStops, armed, timer, cancelVars, rest >>

\* ConfirmCancel, Fail or Succeed, at the version copied; a conflict is not retried.
Settle(c) ==
    /\ at[c] \in {"cancelled", "failed", "succeeded"}
    /\ \/ UNCHANGED faults /\ Stores(c, Transition(Row(c), held[c], at[c]))
       \/ Fault /\ UNCHANGED << row, held >>
    /\ Goes(c, "clear")
    /\ UNCHANGED << contractVars, loop, noop, replied, exec, workErr, active, planStops, armed, timer, cancelVars, rest >>

FreesUncancelled(c) == active.command = c /\ ~active.cancelled   \* Fault: a cancelled run is not cleared
Frees(c) == active.command = c

Clear(c) ==
    /\ at[c] = "clear"
    /\ IF Frees(c) THEN active' = NoRun /\ planStops' = {} ELSE UNCHANGED << active, planStops >>
    /\ Goes(c, "answer")
    /\ UNCHANGED << contractVars, row, loop, held, noop, replied, exec, workErr, armed, timer, cancelVars, rest, faults >>

\* The actor answers the submission, which nobody waits for.
Answer(c) ==
    /\ at[c] = "answer"
    /\ Scheduler!Answer(c)
    /\ LET r == result'[c][1]
           h == calls[c]
       IN  ~r.cancelled /\ r.err = IF h \in {<< >>, << "startFailed" >>} THEN "failed"
                                  ELSE IF c \in Runs /\ Len(h) = 1 THEN "canceled" ELSE "nil"
    /\ Goes(c, "over")
    /\ UNCHANGED << row, loop, held, noop, replied, exec, workErr, active, planStops, armed, timer, cancelVars, rest, faults >>

Callback(c) ==
    \/ TurnedAway(c) \/ Create(c) \/ ClaimOperation(c) \/ CancelCreated(c) \/ StartLoop(c) \/ StopLoop(c) \/ Disarm(c)
    \/ BeginRun(c) \/ Succeed(c) \/ Arm(c) \/ FailClaimed(c) \/ StartReturns(c) \/ Launch(c)
    \/ BeginComplete(c) \/ FinishRun(c) \/ Settle(c) \/ Clear(c) \/ Answer(c)

-----------------------------------------------------------------------------
(* Timers *)

Ticks(s) == {c \in Automatic : exec[c] = "new"}

\* The timer fires, or is cancelled, and checks that it still owns the project.
Fire(s) ==
    /\ timer[s] = "sleep"
    /\ \/ armed # s /\ timer' = [timer EXCEPT ![s] = "ended"]
       \/ armed = s /\ Ticks(s) # {} /\ timer' = [timer EXCEPT ![s] = "tick"]
    /\ UNCHANGED << contractVars, row, loop, at, held, noop, replied, exec, workErr, active, planStops, armed, cancelVars, rest, faults >>

\* A schedule that is no longer armed may still tick once.
Tick(s) ==
    /\ timer[s] = "tick"
    /\ \E c \in Ticks(s) :
         /\ Scheduler!Accept(c, Home)
         /\ exec' = [exec EXCEPT ![c] = "accepted"]
         /\ timer' = [timer EXCEPT ![s] = c]
    /\ UNCHANGED << row, loop, at, held, noop, replied, workErr, active, planStops, armed, cancelVars, rest, faults >>

Sleep(s) ==
    /\ timer[s] \in Automatic /\ exec[timer[s]] = "returned"
    /\ timer' = [timer EXCEPT ![s] = "sleep"]
    /\ UNCHANGED << contractVars, row, loop, at, held, noop, replied, exec, workErr, active, planStops, armed, cancelVars, rest, faults >>

-----------------------------------------------------------------------------
(* Cancellation of the active run *)

LeavesWord == "done"   \* Fault: a plan that was claimed already is left to run
Asks == IF active.plan = NoPlan THEN "done" ELSE "look"

\* plan.stop: cancel the run of this plan, or leave word for a run that has not
\* claimed its plan yet.  In the second case no step reads aim: it is the history
\* of the stop, for PlanStopHonoured.
StopPlan(g) ==
    /\ step[g] = "idle" /\ g \in Stopper
    /\ active # NoRun /\ active.plan \in {NoPlan, PlanOf[g]}
    /\ planStops' = IF active.plan = NoPlan THEN planStops \cup {PlanOf[g]} ELSE planStops
    /\ step' = [step EXCEPT ![g] = Asks]
    /\ aim' = [aim EXCEPT ![g] = active.command]
    /\ UNCHANGED << contractVars, row, loop, at, held, noop, replied, exec, workErr, active, armed, timer, seen, rest, faults >>

\* Of the cancellers only a stop command lends its own context.
Abandoned(g) == g \in Command /\ KindOf[g] = "stop" /\ gone[g]

\* cancelActiveOperation looks up the active run and gives up if it is another.
Look(g) ==
    /\ step[g] = "look"
    /\ IF active.command = aim[g]
       THEN /\ step' = [step EXCEPT ![g] = "request"]
            /\ seen' = [seen EXCEPT ![g] = active.version]
       ELSE step' = [step EXCEPT ![g] = "done"] /\ UNCHANGED seen
    /\ UNCHANGED << contractVars, row, loop, at, held, noop, replied, exec, workErr, active, planStops, armed, timer, aim, rest, faults >>

\* The run may end in between: the version it had is all the transaction is given.
Request(g) ==
    /\ step[g] = "request"
    /\ LET o == OpOf[aim[g]]
           r == RequestCancellation(row[o], seen[g])
           givesUp == step' = [step EXCEPT ![g] = "done"] /\ UNCHANGED << row, seen >>
       IN  \/ Abandoned(g) /\ givesUp /\ UNCHANGED faults
           \/ Fault /\ givesUp
           \/ /\ ~Abandoned(g) /\ UNCHANGED faults
              /\ row' = [row EXCEPT ![o] = r.row]
              /\ seen' = [seen EXCEPT ![g] = r.row.version]
              /\ step' = [step EXCEPT ![g] = IF r.ok THEN "mark" ELSE "done"]
    /\ UNCHANGED << contractVars, loop, at, held, noop, replied, exec, workErr, active, planStops, armed, timer, aim, rest >>

\* The run learns the new version, and its context is cancelled if Execute has
\* assigned request.submission.
Mark(g) ==
    /\ step[g] = "mark"
    /\ step' = [step EXCEPT ![g] = "done"]
    /\ IF active.command = aim[g]
       THEN /\ active' = [active EXCEPT !.cancelled = TRUE, !.version = seen[g]]
            /\ IF exec[aim[g]] # "accepted" THEN Scheduler!Leave({aim[g]}) ELSE UNCHANGED contractVars
       ELSE UNCHANGED << active, contractVars >>
    /\ UNCHANGED << row, loop, at, held, noop, replied, exec, workErr, planStops, armed, timer, seen, aim, rest, faults >>

\* POST .../operations/{id}/actions/cancel by a client that has just read the row.
RestCancel(o) ==
    /\ rest < MaxRest /\ row[o].status \in {"queued", "running"}
    /\ rest' = rest + 1
    /\ row' = [row EXCEPT ![o] = RequestCancellation(@, @.version).row]
    /\ UNCHANGED << contractVars, loop, at, held, noop, replied, exec, workErr, active, planStops, armed, timer, cancelVars, faults >>

-----------------------------------------------------------------------------

Executing(c) == Link(c) \/ Return(c)
Working(c) == WorkReturns(c) \/ \E p \in Plan : Associate(c, p)
Timing(s) == Fire(s) \/ Tick(s) \/ Sleep(s)
Cancelling(g) == Look(g) \/ Request(g) \/ Mark(g)

Next ==
    \/ \E c \in Command : Submit(c) \/ Executing(c) \/ CallerLeaves(c) \/ Callback(c) \/ Working(c)
    \/ \E s \in Starts : Timing(s)
    \/ \E g \in Stopper : StopPlan(g)
    \/ \E g \in Canceller : Cancelling(g)
    \/ \E o \in Op : RestCancel(o)

\* The goroutines run and the runner returns; nobody has to call anything.  The
\* callbacks all run in the one goroutine of the project's actor.
Fairness ==
    /\ WF_vars(\E c \in Command : Callback(c))
    /\ \A c \in Command : WF_vars(Executing(c)) /\ WF_vars(Working(c))
    /\ \A s \in Starts : WF_vars(Timing(s))
    /\ \A g \in Canceller : WF_vars(Cancelling(g))

Safety == Init /\ [][Next]_vars
Spec == Safety /\ Fairness

-----------------------------------------------------------------------------
(* Properties *)

\* Types and the labels of every process.
LoopTypeOK ==
    /\ row \in [Op -> Operation] /\ loop.running \in BOOLEAN
    /\ at \in [Command -> {"new", "claim", "unclaim", "start", "stop", "run", "disarm", "succeed", "succeedAndArm", "arm",
                           "fail", "started", "startFailed", "launch", "work", "complete", "finish", "cancelled", "failed",
                           "succeeded", "clear", "answer", "over"}]
    /\ held \in [Command -> Nat] /\ active.command \in Command \cup {NoCommand}
    /\ active.plan \in Plan \cup {NoPlan} /\ planStops \subseteq Plan
    /\ armed \in Starts \cup {NoCommand}
    /\ timer \in [Starts -> {"off", "sleep", "tick", "ended"} \cup Automatic]
    /\ step \in [Canceller -> {"idle", "look", "request", "mark", "done"}]

\* The runs between their launch and the end of their completion.
InRun(c) == c \in Runs /\ ~noop[c] /\ at[c] \in {"launch", "work", "complete", "finish", "cancelled", "failed", "succeeded", "clear"}

\* The busy gate: one run works at a time, and service.active is that run
\* until its completion clears it (hasActive, setActive, clearActive).
OneRunAtATime == \A c \in Command : InRun(c) => active.command = c

\* A run works on an operation that is still running: nobody settles it but
\* its own completion, whoever asks for its cancellation meanwhile.
WorksOnRunning == \A c \in Command : InRun(c) /\ at[c] # "clear" => Row(c).status = "running"

\* Once its cancellation is recorded an operation does not end as succeeded,
\* though the run copies its cancelled flag before it settles (complete): the
\* version decides.
CancelledNeverSucceeds == \A o \in Op : row[o].cancelRequested => row[o].status # "succeeded"

\* The first terminal status stays: a completion, a stop, a retry or a client
\* that comes later changes nothing of the operation.
FirstTerminalWins == [][\A o \in Op : row[o].status \in Terminal => row'[o] = row[o]]_vars

\* Whichever comes first, plan.stop or the run's claim of the plan: a run that
\* has a plan somebody asked to stop in its time is cancelled, or about to be,
\* unless the store failed.  A stop before the claim leaves word, which the
\* claim reads (associatePlan); a stop after it cancels (CancelPlanExecution).
PlanStopHonoured ==
    \A g \in Stopper :
        faults = 0 /\ step[g] # "idle" /\ aim[g] = active.command /\ active.plan = PlanOf[g] =>
            \/ active.cancelled
            \/ \E h \in Canceller : step[h] \in {"look", "request", "mark"} /\ aim[h] = active.command

\* The timer follows the stored state: the loop is stored as running if and
\* only if a live schedule is armed, but for the start or stop in between.
TimerFollowsLoop ==
    (\A c \in Command : at[c] \notin {"succeedAndArm", "arm", "disarm"}) =>
        (loop.running <=> armed # NoCommand /\ timer[armed] # "ended")

\* An operation is not left running by a command that is over: no fake running
\* operation, and no run that owns the project for ever.
NoFakeRunning ==
    /\ \A o \in Op : row[o].status = "running" =>
          \E c \in Command : OpOf[c] = o /\ at[c] \notin {"new", "answer", "over"}
    /\ active # NoRun => InRun(active.command) \/ at[active.command] = "started"

\* Every command the actor accepted brings its operation to a terminal status.
EveryCommandSettles == \A c \in Command : owner[c] = Home ~> Row(c).status \in Terminal

\* Every caller gets its reply, the timers too: a schedule never hangs in Execute.
CallersReturn == \A c \in Command : exec[c] = "waiting" ~> exec[c] = "returned"

\* A requested cancellation is decided: the operation ends.
CancellationIsDecided == \A o \in Op : row[o].cancelRequested ~> row[o].status \in Terminal
=============================================================================
