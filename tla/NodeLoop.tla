------------------------------ MODULE NodeLoop ------------------------------
(***************************************************************************)
(* The loop of the desktop program itself (LoopService, src/src/loop), for *)
(* one project.  JavaScript runs one piece of code at a time, so a step    *)
(* here is what an async function does between two awaits: the agent, the  *)
(* validation command, a hook script, a pause before a retry.  Everything  *)
(* a user can ask for (start, stop, run, interrupt, append, delete ...) is *)
(* handled between two such steps.                                         *)
(*                                                                         *)
(* A plan lives twice: rows of the database (planStatus, taskStatus) and   *)
(* the check boxes of its file (line); syncPlanTasks copies the second     *)
(* into the first.  `job' is the async function at work on a task, or on a *)
(* plan (to generate or to validate it), `run' the caller that holds the   *)
(* project's busy flag.  One script is enabled at every hook stage: a      *)
(* project without it behaves as if the script ended at once.              *)
(***************************************************************************)
EXTENDS Naturals, FiniteSets

CONSTANTS
  Plan, Task, Intake,
  PlanOf,       \* the plan of each task
  Rank,         \* the order of plans, tasks and intakes (sort_order, age)
  Acceptance,   \* the tasks whose title marks them as final acceptance
  Apart,        \* the pairs of tasks whose scopes allow them to run together
  Source,       \* the intake each plan is generated for
  Written,      \* the tasks the agent writes; the others can be appended
  FirstPlans,   \* the plans that exist at first
  Retries,      \* the length of TASK_RETRY_BACKOFF_SECONDS (4)
  Repairs,      \* the repairs a failed validation gets (2)
  MaxFails,     \* the failures after which a generation waits (3)
  None

Worker == Plan \cup Task

ASSUME NodeAssumption ==
  /\ Plan \cap Task = {}
  /\ PlanOf \in [Task -> Plan]
  /\ Rank \in [Worker \cup Intake -> Nat]
  /\ Acceptance \subseteq Task /\ Written \subseteq Task
  /\ FirstPlans \subseteq Plan
  /\ Source \in [Plan -> Intake]
  /\ Apart \subseteq SUBSET Task
  /\ Retries \in Nat /\ Repairs \in Nat /\ MaxFails \in Nat \ {0}
  /\ None \notin Worker \cup Intake
  /\ \A S \in Apart : IsFiniteSet(S) /\ Cardinality(S) = 2

VARIABLES
  running,      \* runtime.running
  run,          \* the holder of runtime.busy
  job,          \* the async function on each task and each plan
  planStatus, passed,          \* plans.status, plans.validation_passed
  taskStatus,                  \* plan_tasks.status
  line,                        \* the task's line in the plan file
  intake, link, fails          \* status, linked_plan_id, generate_fail_count

vars == <<running, run, job, planStatus, passed, taskStatus, line, intake, link, fails>>
planVars == <<planStatus, passed, taskStatus, line>>
intakeVars == <<intake, link, fails>>

TasksOf(p) == {t \in Task : PlanOf[t] = p}
First(S) == CHOOSE x \in S : \A y \in S : Rank[x] <= Rank[y]
Last(S) == CHOOSE x \in S : \A y \in S : Rank[y] <= Rank[x]

IdleRun == [stage |-> "idle", kind |-> "loop", loop |-> FALSE, on |-> {}, acc |-> None]
Busy == run.stage # "idle"

NoJob == [at |-> "none", child |-> "none", tries |-> 0, again |-> FALSE, saw |-> <<>>]
\* A job that waits for a new child process.
At(stage, tries) == [NoJob EXCEPT !.at = stage, !.child = "alive", !.tries = tries]
\* A job that waits for an agent, with the plan file the guard will restore.
Guarded(stage, tries, p, ln) == [At(stage, tries) EXCEPT !.saw = [u \in TasksOf(p) |-> ln[u]]]

PlanExists(p) == planStatus[p] # "none"
TaskExists(t) == taskStatus[t] # "none"
PlanFor(w) == IF w \in Plan THEN w ELSE PlanOf[w]

\* The children in runtime.activeOperations, and the planId and taskId they
\* are registered with (a cancelled one is no longer there).
Listed(w) == job[w].child = "alive"
OpPlan(w) == IF job[w].at \in {"gen", "genFail"} THEN None ELSE PlanFor(w)
OpTask(w) == IF w \in Task THEN w
             ELSE IF job[w].at \in {"check", "repair"} THEN run.acc ELSE None

Rows(ts, p) == {t \in TasksOf(p) : ts[t] # "none"}
Pending(ts, p) == {t \in TasksOf(p) : ts[t] = "pending"}
IsFinalAcceptance(ts, t) == t \in Acceptance /\ t = Last(Rows(ts, PlanOf[t]))
HasFinalAcceptance(ts, p) == Rows(ts, p) # {} /\ Last(Rows(ts, p)) \in Acceptance
AllCompleted(ts, p) == Rows(ts, p) # {} /\ \A t \in Rows(ts, p) : ts[t] = "completed"

\* syncPlanTasks: the file's lines decide which rows there are; a tick makes
\* a row completed, and a running, blocked or completed row keeps its status.
SyncedTaskStatus(parsed, current) ==
  IF parsed = "absent" THEN "none"
  ELSE IF parsed = "done" \/ current = "completed" THEN "completed"
  ELSE IF current \in {"running", "blocked"} THEN current ELSE "pending"

Synced(ts, ln, p) ==
  [t \in Task |-> IF t \in TasksOf(p) THEN SyncedTaskStatus(ln[t], ts[t]) ELSE ts[t]]

SyncedPlanStatus(ts, p, status, done) ==
  IF done \/ status = "completed" THEN "completed"
  ELSE IF AllCompleted(ts, p) THEN "ready_for_validation" ELSE "running"

\* finishTaskRun(.., { onlyIfRunning: true }) for the tasks of S.
Finished(ts, S, status) ==
  [t \in Task |-> IF t \in S /\ ts[t] = "running" THEN status ELSE ts[t]]

Ticked(ln, t) == IF ln[t] = "absent" THEN ln ELSE [ln EXCEPT ![t] = "done"]

\* runCodexWithPlanGuard: the file is put back as it was before the agent.
Restored(w) == [t \in Task |-> IF t \in DOMAIN job[w].saw THEN job[w].saw[t] ELSE line[t]]

\* The intakes whose last linked plan is now completed.
CompleteLinkedIntakes(p) ==
  intake' = [i \in Intake |-> IF link[i] = p /\ intake[i] = "open" THEN "completed" ELSE intake[i]]
-----------------------------------------------------------------------------
(* The busy flag *)

\* What the caller does when the worker it awaits returns.
RunAfter(w) ==
  IF w \notin run.on THEN run
  ELSE IF run.on # {w} THEN [run EXCEPT !.on = @ \ {w}]
  ELSE IF run.stage = "generate" THEN [run EXCEPT !.stage = "scan", !.on = {}]
  ELSE IF run.kind = "loop" THEN [run EXCEPT !.stage = "end", !.on = {}, !.acc = None]
  ELSE IdleRun

\* Fault: the busy flag is not put down in a finally block.
ReturnKeepsBusy(w) == job' = [job EXCEPT ![w] = NoJob] /\ UNCHANGED run

Return(w) == job' = [job EXCEPT ![w] = NoJob] /\ run' = RunAfter(w)
Stay(w, next) == job' = [job EXCEPT ![w] = next] /\ UNCHANGED run

Working(r, S, acc) == [r EXCEPT !.stage = "work", !.on = S, !.acc = acc]

\* The plan ids the next generation of i can take (a bound of the model): ids
\* grow, and an id is given again only when nothing works on it any more.
Spare(i) ==
  {p \in Plan : /\ Source[p] = i
                /\ \A w \in {p} \cup TasksOf(p) : job[w].at = "none"
                /\ \A q \in Plan : PlanExists(q) => Rank[q] < Rank[p]}

\* An intake the loop would generate a plan for: after MaxFails failures it
\* is skipped until 15 minutes have passed, which they may have.
Candidates(fs, cooled) ==
  {i \in Intake : /\ intake[i] = "open" /\ link[i] = None /\ Spare(i) # {}
                  /\ fs[i] < MaxFails \/ i \in cooled}

\* runOnce, up to its first await: an intake is generated before any scan.
BeginRun(fs, loop) ==
  \E cooled \in SUBSET {i \in Intake : fs[i] = MaxFails} :
    LET C == Candidates(fs, cooled)
        r == [IdleRun EXCEPT !.loop = loop]
        p == First(Spare(First(C)))
    IN \/ /\ C = {}
          /\ run' = [r EXCEPT !.stage = "scan"]
          /\ UNCHANGED job
       \/ /\ C # {}
          /\ job' = [job EXCEPT ![p] = At("gen", 0)]
          /\ run' = [r EXCEPT !.stage = "generate", !.on = {p}]

\* Fault: a run begins whether the project is busy or not.
RunOnceAnyway(fs, loop) == BeginRun(fs, loop)

\* What runOnce does when the project is busy is nothing.
RunOnce(fs, loop) == IF Busy THEN UNCHANGED <<run, job>> ELSE BeginRun(fs, loop)
-----------------------------------------------------------------------------
(* Executing a task *)

Opened(ln, S) == [t \in Task |-> IF t \in S /\ ln[t] # "absent" THEN "open" ELSE ln[t]]

\* executeTask for the tasks of S, in their order: the row is running, the
\* box is cleared, the agent is started with the file as it then is.
ExecuteTask(ts, S, tries) ==
  /\ taskStatus' = [t \in Task |-> IF t \in S THEN "running" ELSE ts[t]]
  /\ line' = Opened(line, S)
  /\ job' = [w \in Worker |->
       IF w \notin S THEN job[w]
       ELSE Guarded("cli", tries, PlanOf[w], Opened(line, {u \in S : Rank[u] <= Rank[w]}))]

\* completeTask and refreshPlanProgress: the plan's status is recomputed from
\* its rows, whatever it was.
CompleteTask(t, ln) ==
  LET ts == [taskStatus EXCEPT ![t] = "completed"]
      p == PlanOf[t]
  IN /\ line' = Ticked(ln, t)
     /\ taskStatus' = ts
     /\ planStatus' = [planStatus EXCEPT
          ![p] = IF AllCompleted(ts, p) THEN "ready_for_validation" ELSE "running"]

\* The agent of task t has ended.
CliDone(t) ==
  /\ job[t].at = "cli"
  /\ \/ /\ ~TaskExists(t)
        /\ Return(t)
        /\ UNCHANGED planVars
     \/ /\ TaskExists(t) /\ job[t].child # "cancelled"
        /\ CompleteTask(t, Restored(t))
        /\ Stay(t, At("after", job[t].tries))
        /\ UNCHANGED passed
     \/ /\ TaskExists(t)
        /\ line' = Restored(t)
        /\ taskStatus' = Finished(taskStatus, {t}, "pending")
        /\ \E again \in IF job[t].child = "cancelled" THEN {FALSE} ELSE BOOLEAN :
             Stay(t, [At("fail", job[t].tries) EXCEPT !.again = again])
        /\ UNCHANGED <<planStatus, passed>>
  /\ UNCHANGED <<running, intakeVars>>

\* The task:after or on:fail script of task t has ended.
TaskHookDone(t) ==
  /\ job[t].at \in {"after", "fail"}
  /\ IF job[t].at = "fail" /\ TaskExists(t) /\ job[t].again /\ job[t].tries < Retries
     THEN Stay(t, [NoJob EXCEPT !.at = "backoff", !.tries = job[t].tries + 1])
     ELSE Return(t)
  /\ UNCHANGED <<running, planVars, intakeVars>>

\* The pause is over; the retry asks only whether the row is still there.
BackoffDone(t) ==
  /\ job[t].at = "backoff"
  /\ \/ /\ ~TaskExists(t)
        /\ Return(t)
        /\ UNCHANGED planVars
     \/ /\ TaskExists(t)
        /\ ExecuteTask(taskStatus, {t}, job[t].tries)
        /\ UNCHANGED <<run, planStatus, passed>>
  /\ UNCHANGED <<running, intakeVars>>
-----------------------------------------------------------------------------
(* Validating a plan *)

\* The plan passes: it is completed with the intakes linked to it, and so is
\* the acceptance task when its row is still there.
Pass(ts, ps, p, acc) ==
  /\ planStatus' = [ps EXCEPT ![p] = "completed"]
  /\ passed' = [passed EXCEPT ![p] = TRUE]
  /\ CompleteLinkedIntakes(p)
  /\ IF acc # None /\ ts[acc] # "none"
     THEN /\ taskStatus' = [ts EXCEPT ![acc] = "completed"]
          /\ line' = Ticked(line, acc)
     ELSE /\ taskStatus' = ts
          /\ UNCHANGED line

Fail(p) ==
  /\ planStatus' = [planStatus EXCEPT ![p] = "validation_failed"]
  /\ UNCHANGED passed

\* validatePlan, up to its first await; `free' is the run without it.
\* Without a command the plan passes at once.  (A bound of the model: the
\* plan:after script of a recreated plan ends before the plan is validated.)
Validate(ts, ps, p, acc, r, free) ==
  LET started == IF acc = None THEN ts ELSE [ts EXCEPT ![acc] = "running"] IN
  \/ /\ Pass(started, ps, p, acc)
     /\ run' = free
     /\ UNCHANGED job
  \/ /\ job[p].at = "none"
     /\ planStatus' = ps
     /\ taskStatus' = started
     /\ job' = [job EXCEPT ![p] = At("before", 0)]
     /\ run' = Working(r, {p}, acc)
     /\ UNCHANGED <<passed, line, intake>>

\* Fault: the acceptance row is left as it is.
AccForgotten == taskStatus

AccFailed == Finished(taskStatus, {run.acc}, "pending")

\* The validation:before script has ended; it can veto the validation.
BeforeDone(p) ==
  /\ job[p].at = "before"
  /\ \/ /\ ~PlanExists(p)
        /\ Return(p)
        /\ UNCHANGED planVars
     \/ /\ PlanExists(p)
        /\ Fail(p)
        /\ taskStatus' = AccFailed
        /\ Return(p)
        /\ UNCHANGED line
     \/ /\ PlanExists(p)
        /\ Stay(p, At("check", 0))
        /\ UNCHANGED planVars
  /\ UNCHANGED <<running, intakeVars>>

Target(p) == PlanExists(p) /\ (run.acc = None \/ TaskExists(run.acc))
Dropped(p) == job[p].child = "cancelled" \/ ~Target(p)

RepairsLeft(p) == job[p].tries < Repairs

\* The validation command has ended: it passed, failed and is repaired, or
\* failed for good (no attempt left, or the environment is to blame).
CheckDone(p) ==
  /\ job[p].at = "check"
  /\ \/ /\ Dropped(p)
        /\ Return(p)
        /\ UNCHANGED <<planVars, intakeVars>>
     \/ /\ ~Dropped(p)
        /\ Pass(taskStatus, planStatus, p, run.acc)
        /\ Return(p)
        /\ UNCHANGED <<link, fails>>
     \/ /\ ~Dropped(p) /\ RepairsLeft(p)
        /\ Fail(p)
        /\ Stay(p, Guarded("repair", job[p].tries + 1, p, line))
        /\ UNCHANGED <<taskStatus, line, intakeVars>>
     \/ /\ ~Dropped(p)
        /\ Fail(p)
        /\ taskStatus' = AccFailed
        /\ Stay(p, At("vfail", 0))
        /\ UNCHANGED <<line, intakeVars>>
  /\ UNCHANGED running

\* The agent that repairs has ended; the validation command runs again.
RepairDone(p) ==
  /\ job[p].at = "repair"
  /\ line' = IF Target(p) THEN Restored(p) ELSE line
  /\ IF Dropped(p) THEN Return(p) ELSE Stay(p, At("check", job[p].tries))
  /\ UNCHANGED <<running, planStatus, passed, taskStatus, intakeVars>>

ValidationHookDone(p) ==
  /\ job[p].at = "vfail"
  /\ Return(p)
  /\ UNCHANGED <<running, planVars, intakeVars>>
-----------------------------------------------------------------------------
(* Generating a plan *)

\* Fault: the link is written without asking whether the intake is there.
LinkedAnyway(i, p) == [link EXCEPT ![i] = p]

\* UPDATE .. SET linked_plan_id: nothing to update once the intake is gone.
Linked(i, p) == IF intake[i] = "gone" THEN link ELSE [link EXCEPT ![i] = p]

\* The agent has written a valid plan file: the plan is inserted and synced,
\* which makes it running; a draft is then put back to draft.  The intake may
\* be gone by now.
GenerateOk(p) ==
  LET i == Source[p]
      W == TasksOf(p) \cap Written
  IN /\ job[p].at = "gen"
     /\ \E status \in {"running", "draft"} :
          planStatus' = [planStatus EXCEPT ![p] = status]
     /\ passed' = [passed EXCEPT ![p] = FALSE]
     /\ taskStatus' = [t \in Task |-> IF t \in W THEN "pending" ELSE taskStatus[t]]
     /\ line' = [t \in Task |-> IF t \in W THEN "open" ELSE line[t]]
     /\ link' = Linked(i, p)
     /\ fails' = [fails EXCEPT ![i] = 0]
     /\ Stay(p, At("planAfter", 0))
     /\ UNCHANGED <<running, intake>>

GenerateFailed(p) ==
  /\ job[p].at = "gen"
  /\ Stay(p, At("genFail", 0))
  /\ UNCHANGED <<running, planVars, intakeVars>>

GenerateHookDone(p) ==
  /\ job[p].at \in {"planAfter", "genFail"}
  /\ fails' = IF job[p].at = "planAfter" \/ fails[Source[p]] = MaxFails THEN fails
              ELSE [fails EXCEPT ![Source[p]] = @ + 1]
  /\ Return(p)
  /\ UNCHANGED <<running, planVars, intake, link>>
-----------------------------------------------------------------------------
(* The run of the loop *)

Runnable == {p \in Plan : planStatus[p] \in {"pending", "running", "ready_for_validation"}}
EndRun(r) == [r EXCEPT !.stage = "end", !.on = {}, !.acc = None]

\* processPlan: sync the rows, then execute the first pending task, or
\* validate when it is the final acceptance or no task is pending.
ProcessPlan(p) ==
  LET ts == Synced(taskStatus, line, p)
      ps == [planStatus EXCEPT ![p] = SyncedPlanStatus(ts, p, planStatus[p], passed[p])]
      t == First(Pending(ts, p))
  IN \/ /\ Pending(ts, p) # {}
        /\ ~IsFinalAcceptance(ts, t)
        /\ planStatus' = ps
        /\ ExecuteTask(ts, {t}, 0)
        /\ run' = Working(run, {t}, None)
        /\ UNCHANGED <<passed, intake>>
     \/ /\ Pending(ts, p) # {}
        /\ IsFinalAcceptance(ts, t)
        /\ Validate(ts, ps, p, t, run, EndRun(run))
     \/ /\ Pending(ts, p) = {}
        /\ HasFinalAcceptance(ts, p) /\ ps[p] = "completed"
        /\ planStatus' = ps
        /\ taskStatus' = ts
        /\ run' = EndRun(run)
        /\ UNCHANGED <<job, passed, line, intake>>
     \/ /\ Pending(ts, p) = {}
        /\ ~(HasFinalAcceptance(ts, p) /\ ps[p] = "completed")
        /\ Validate(ts, ps, p, None, run, EndRun(run))

\* The scan of the plan directory has returned.
ScanDone ==
  /\ run.stage = "scan"
  /\ \/ /\ (run.loop /\ ~running) \/ Runnable = {}
        /\ run' = EndRun(run)
        /\ UNCHANGED <<job, planVars, intake>>
     \/ /\ ~(run.loop /\ ~running) /\ Runnable # {}
        /\ ProcessPlan(First(Runnable))
  /\ UNCHANGED <<running, link, fails>>

\* The loop:end script has ended and the busy flag falls.
RunEnd ==
  /\ run.stage = "end"
  /\ run' = IdleRun
  /\ UNCHANGED <<running, job, planVars, intakeVars>>
-----------------------------------------------------------------------------
(* What the user does *)

Start ==
  /\ ~running
  /\ running' = TRUE
  /\ RunOnce(fails, TRUE)
  /\ UNCHANGED <<planVars, intakeVars>>

\* The interval timer of a started loop.
Tick ==
  /\ running /\ ~Busy
  /\ BeginRun(fails, TRUE)
  /\ UNCHANGED <<running, planVars, intakeVars>>

\* The children of W are sent SIGTERM.  That decides nothing: a child that is
\* killed may count as a success (waitForChild: code ?? 0), and the function
\* that awaits it does not know.  Their rows, if running, are pending.
Kill(W, T) ==
  LET rows == {OpTask(w) : w \in W} \cup T
  IN taskStatus' = Finished(taskStatus, rows, "pending") /\ UNCHANGED job

Operations == {w \in Worker : Listed(w)}

\* stopProjectRuntime
StopLoop ==
  /\ running \/ Operations # {}
  /\ running' = FALSE
  /\ Kill(Operations, {})
  /\ UNCHANGED <<run, planStatus, passed, line, intakeVars>>

\* stopRuntimeTask: a started loop is stopped altogether.
StopTask(t) ==
  /\ TaskExists(t)
  /\ running' = FALSE
  /\ Kill(IF running THEN Operations ELSE {w \in Operations : OpTask(w) = t}, {t})
  /\ UNCHANGED <<run, planStatus, passed, line, intakeVars>>

\* Fault: only the agents are looked for, the scripts and commands run on.
CancelAgents(S) ==
  job' = [w \in Worker |-> IF job[w].at \in {"cli", "repair"} /\ Listed(w) /\ OpPlan(w) \in S
                           THEN [job[w] EXCEPT !.child = "cancelled"] ELSE job[w]]

\* stopPlanOperations: the children of the plans S are cancelled and no
\* longer listed.
Cancel(S) ==
  job' = [w \in Worker |-> IF Listed(w) /\ OpPlan(w) \in S
                           THEN [job[w] EXCEPT !.child = "cancelled"] ELSE job[w]]

\* interruptPlan, for the plans S.
Interrupt(S) ==
  /\ Cancel(S)
  /\ taskStatus' = [t \in Task |-> IF PlanOf[t] \in S /\ taskStatus[t] \in {"pending", "running"}
                                   THEN "blocked" ELSE taskStatus[t]]
  /\ planStatus' = [p \in Plan |-> IF p \in S THEN "interrupted" ELSE planStatus[p]]
  /\ UNCHANGED <<running, run, passed, line, intakeVars>>

IsPlanRunning(p) ==
  \/ planStatus[p] = "running"
  \/ \E t \in TasksOf(p) : taskStatus[t] = "running"
  \/ \E w \in Operations : OpPlan(w) = p

StopPlan(p) == PlanExists(p) /\ IsPlanRunning(p) /\ Interrupt({p})

\* interruptPlansForIntake: whatever the plan is doing, unless completed.
InterruptIntake(i) ==
  /\ link[i] # None /\ planStatus[link[i]] # "completed"
  /\ Interrupt({link[i]})

\* The rows of p with a status of S, and p itself, are pending again.
Reset(p, T, S) ==
  /\ taskStatus' = [t \in Task |-> IF t \in T /\ taskStatus[t] \in S THEN "pending" ELSE taskStatus[t]]
  /\ planStatus' = [planStatus EXCEPT ![p] = "pending"]
  /\ passed' = [passed EXCEPT ![p] = FALSE]
  /\ UNCHANGED <<running, run, job, line, intakeVars>>

\* resumePlan: whatever the status of the plan, and while it runs, too.  (That it
\* takes up "failed" tasks of a plan that failed its validation makes no
\* difference: no task is stored with that status.)
Resume(p) ==
  /\ PlanExists(p)
  /\ Reset(p, TasksOf(p), {"blocked"})

\* reExecutePlan
ReExecute(p) ==
  /\ planStatus[p] = "completed"
  /\ Reset(p, TasksOf(p), {"completed"})

\* redoTask: not while the plan runs.
RedoTask(t) ==
  /\ taskStatus[t] = "completed" /\ ~IsPlanRunning(PlanOf[t])
  /\ Reset(PlanOf[t], {t}, {"completed"})

\* appendTaskToIntakePlan: a line in the file, before a final acceptance; the
\* plan is put back to work and synced; a started loop runs at once.
Append(i, t) ==
  LET p == PlanOf[t]
      done == planStatus[p] = "completed"
      ts == [u \in Task |-> IF done /\ u \in TasksOf(p) /\ taskStatus[u] = "completed"
                            THEN "pending" ELSE taskStatus[u]]
      ln == [line EXCEPT ![t] = "open"]
      asleep == planStatus[p] = "interrupted"
      ps == [passed EXCEPT ![p] = asleep /\ passed[p]]
      status == IF asleep \/ done \/ passed[p] THEN "pending" ELSE planStatus[p]
      synced == Synced(ts, ln, p)
  IN /\ link[i] = p
     /\ line[t] = "absent" /\ taskStatus[t] = "none" /\ job[t].at = "none"
     /\ line' = ln
     /\ taskStatus' = synced
     /\ planStatus' = [planStatus EXCEPT ![p] = SyncedPlanStatus(synced, p, status, ps[p])]
     /\ passed' = ps
     /\ IF running THEN RunOnce(fails, TRUE) ELSE UNCHANGED <<run, job>>
     /\ UNCHANGED <<running, intakeVars>>

\* The plans S are deleted with their rows and files.
Delete(S) ==
  /\ Cancel(S)
  /\ planStatus' = [p \in Plan |-> IF p \in S THEN "none" ELSE planStatus[p]]
  /\ passed' = [p \in Plan |-> p \notin S /\ passed[p]]
  /\ taskStatus' = [t \in Task |-> IF PlanOf[t] \in S THEN "none" ELSE taskStatus[t]]
  /\ line' = [t \in Task |-> IF PlanOf[t] \in S THEN "absent" ELSE line[t]]
  /\ link' = [i \in Intake |-> IF link[i] \in S THEN None ELSE link[i]]
  /\ UNCHANGED <<running, run, fails>>

DeletePlan(p) ==
  /\ PlanExists(p)
  /\ Delete({p})
  /\ UNCHANGED intake

DeleteIntake(i) ==
  /\ intake[i] # "gone"
  /\ Delete({link[i]} \ {None})
  /\ intake' = [intake EXCEPT ![i] = "gone"]

\* activateDraftPlan
Activated(p) == IF planStatus[p] = "draft" THEN [planStatus EXCEPT ![p] = "running"] ELSE planStatus

\* runTask: any task whatever its status; the final acceptance is a validation.
RunTask(t) ==
  LET p == PlanOf[t]
      r == [IdleRun EXCEPT !.kind = "task"]
  IN /\ ~Busy /\ TaskExists(t)
     /\ \/ /\ IsFinalAcceptance(taskStatus, t)
           /\ Validate(taskStatus, Activated(p), p, t, r, IdleRun)
        \/ /\ ~IsFinalAcceptance(taskStatus, t)
           /\ ExecuteTask(taskStatus, {t}, 0)
           /\ planStatus' = Activated(p)
           /\ run' = Working(r, {t}, None)
           /\ UNCHANGED <<passed, intake>>
     /\ UNCHANGED <<running, link, fails>>

\* runTaskBatches, for one batch of two.
RunBatch(S) ==
  /\ ~Busy
  /\ \A t \in S : taskStatus[t] = "pending" /\ job[t].at = "none"
  /\ \A t \in S : planStatus[PlanOf[t]] # "completed" /\ ~passed[PlanOf[t]]
  /\ planStatus' = [p \in Plan |-> IF p \in {PlanOf[t] : t \in S} THEN Activated(p)[p] ELSE planStatus[p]]
  /\ ExecuteTask(taskStatus, S, 0)
  /\ run' = Working([IdleRun EXCEPT !.kind = "batch"], S, None)
  /\ UNCHANGED <<running, passed, intakeVars>>

\* recreatePlanFromIntake: a generation that no busy flag holds back.
Recreate(p) ==
  /\ planStatus[p] = "completed"
  /\ \E i \in Intake :
       /\ link[i] = p /\ Spare(i) # {}
       /\ job' = [job EXCEPT ![First(Spare(i))] = At("gen", 0)]
  /\ UNCHANGED <<running, run, planVars, intakeVars>>

\* retryIntakePlanGeneration
RetryIntake(i) ==
  /\ intake[i] = "open" /\ link[i] = None
  /\ fails' = [fails EXCEPT ![i] = 0]
  /\ RunOnce(fails', running)
  /\ UNCHANGED <<running, planVars, intake, link>>

\* The program is killed and started again (resetStoredRuntimeState).  What
\* its children still do to the workspace afterwards is not modelled.
Restart ==
  /\ running' = FALSE
  /\ run' = IdleRun
  /\ job' = [w \in Worker |-> NoJob]
  /\ taskStatus' = Finished(taskStatus, Task, "pending")
  /\ UNCHANGED <<planStatus, passed, line, intakeVars>>
-----------------------------------------------------------------------------
Init ==
  /\ running = FALSE
  /\ run = IdleRun
  /\ job = [w \in Worker |-> NoJob]
  /\ planStatus = [p \in Plan |-> IF p \in FirstPlans THEN "running" ELSE "none"]
  /\ passed = [p \in Plan |-> FALSE]
  /\ taskStatus = [t \in Task |-> IF t \in Written /\ PlanOf[t] \in FirstPlans THEN "pending" ELSE "none"]
  /\ line = [t \in Task |-> IF t \in Written /\ PlanOf[t] \in FirstPlans THEN "open" ELSE "absent"]
  /\ intake = [i \in Intake |-> "open"]
  /\ link = [i \in Intake |->
       IF \E p \in FirstPlans : Source[p] = i THEN First({p \in FirstPlans : Source[p] = i}) ELSE None]
  /\ fails = [i \in Intake |-> 0]

\* A job goes on when what it awaits answers; the loop's own run goes on.
TaskStep(t) == CliDone(t) \/ TaskHookDone(t) \/ BackoffDone(t)
PlanStep(p) ==
  \/ BeforeDone(p) \/ CheckDone(p) \/ RepairDone(p) \/ ValidationHookDone(p)
  \/ GenerateOk(p) \/ GenerateFailed(p) \/ GenerateHookDone(p)
RunStep == ScanDone \/ RunEnd

User ==
  \/ Start \/ StopLoop
  \/ \E t \in Task : StopTask(t) \/ RedoTask(t) \/ RunTask(t) \/ \E i \in Intake : Append(i, t)
  \/ \E p \in Plan : StopPlan(p) \/ Resume(p) \/ ReExecute(p) \/ DeletePlan(p) \/ Recreate(p)
  \/ \E i \in Intake : InterruptIntake(i) \/ DeleteIntake(i) \/ RetryIntake(i)
  \/ \E S \in Apart : RunBatch(S)

Next ==
  \/ \E t \in Task : TaskStep(t)
  \/ \E p \in Plan : PlanStep(p)
  \/ RunStep \/ Tick \/ User \/ Restart

Fairness ==
  /\ \A t \in Task : WF_vars(TaskStep(t))
  /\ \A p \in Plan : WF_vars(PlanStep(p))
  /\ WF_vars(RunStep)

Spec == Init /\ [][Next]_vars
FairSpec == Spec /\ Fairness
-----------------------------------------------------------------------------
(* Properties *)

Stages == {"none", "gen", "genFail", "planAfter", "before", "check", "repair", "vfail",
           "cli", "after", "fail", "backoff"}

\* Types; and rows and links never outlive their plan, nor links their intake,
\* whatever a generation or a batch finishes after they were deleted.
NodeTypeOK ==
  /\ running \in BOOLEAN
  /\ run \in [stage : {"idle", "generate", "scan", "work", "end"}, kind : {"loop", "task", "batch"},
              loop : BOOLEAN, on : SUBSET Worker, acc : Task \cup {None}]
  /\ \A w \in Worker :
       /\ job[w].at \in Stages
       /\ job[w].child \in {"none", "alive", "cancelled"}
       /\ job[w].tries \in 0..(Retries + Repairs)
       /\ job[w].again \in BOOLEAN
  /\ planStatus \in [Plan -> {"none", "draft", "pending", "running", "ready_for_validation",
                              "completed", "validation_failed", "interrupted"}]
  /\ passed \in [Plan -> BOOLEAN]
  /\ taskStatus \in [Task -> {"none", "pending", "running", "blocked", "completed"}]
  /\ line \in [Task -> {"absent", "open", "done"}]
  /\ intake \in [Intake -> {"open", "completed", "gone"}]
  /\ link \in [Intake -> Plan \cup {None}]
  /\ fails \in [Intake -> 0..MaxFails]
  /\ \A t \in Task : TaskExists(t) => PlanExists(PlanOf[t])
  /\ \A i \in Intake : link[i] # None => PlanExists(link[i]) /\ intake[i] # "gone"

\* A row that says running has a function at work on it: the task's own
\* agent, or the validation the task stands for.
RunningHasWorker ==
  \A t \in Task : taskStatus[t] = "running" =>
    \/ job[t].at = "cli"
    \/ run.acc = t /\ job[PlanOf[t]].at \in {"before", "check", "repair"}

\* Nothing is started for a plan that was deleted, and what was running for
\* it has been sent a signal.
NoAgentForDeleted ==
  \A w \in Worker : Listed(w) /\ OpPlan(w) # None => PlanExists(OpPlan(w))

\* Agents that may write to the workspace are alone in it, but for the tasks
\* of one batch.
Agents == {w \in Worker : job[w].at \in {"cli", "repair"}}
AgentsApart == Cardinality(Agents) > 1 => Agents \in Apart /\ run.kind = "batch"

\* A task whose plan was stopped or interrupted, and so is blocked, runs again
\* only when the user runs it or resumes the plan.  No run checks it: the code
\* does not keep it after a backoff (see the README).
StopHonoured == [][\A t \in Task : taskStatus[t] = "blocked" /\ taskStatus'[t] = "running" => ~Busy]_vars

\* The busy flag falls, or the loop would never run again.
RunEnds == Busy ~> ~Busy
=============================================================================
