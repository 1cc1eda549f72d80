--------------------------- MODULE NodeLoopProofs ---------------------------
(***************************************************************************)
(* Proofs about NodeLoop, for any plans, tasks and intakes: rows never     *)
(* outlive their plan, a row that says running has a function at work on   *)
(* it, nothing runs for a deleted plan unless it was sent a signal, and    *)
(* the agents of two callers are never in the workspace together.          *)
(***************************************************************************)
EXTENDS NodeLoop, FiniteSetTheorems, WellFoundedInduction, TLAPS

TaskStages == {"none", "cli", "after", "fail", "backoff"}
CheckStages == {"before", "check", "repair", "vfail"}
PlanStages == {"none", "gen", "genFail", "planAfter"} \cup CheckStages
Lines == {"absent", "open", "done"}
Rowed == {"none", "pending", "running", "blocked", "completed"}
Planned == {"none", "draft", "pending", "running", "ready_for_validation",
            "completed", "validation_failed", "interrupted"}
Files == UNION {[S -> Lines] : S \in SUBSET Task}
Children == {"none", "alive", "cancelled"}

TaskJob == [at : TaskStages, child : Children, tries : 0..Retries, again : BOOLEAN, saw : Files]
PlanJob == [at : PlanStages, child : Children, tries : 0..Repairs, again : BOOLEAN, saw : Files]
Runs == [stage : {"idle", "generate", "scan", "work", "end"}, kind : {"loop", "task", "batch"},
         loop : BOOLEAN, on : SUBSET Worker, acc : Task \cup {None}]

\* What each kind of worker can be waiting for.
JobsTyped ==
  /\ job \in [Worker -> TaskJob \cup PlanJob]
  /\ \A t \in Task : job[t] \in TaskJob
  /\ \A p \in Plan : job[p] \in PlanJob

\* The types.
NodeTyped ==
  /\ running \in BOOLEAN
  /\ run \in Runs
  /\ JobsTyped
  /\ planStatus \in [Plan -> Planned]
  /\ passed \in [Plan -> BOOLEAN]
  /\ taskStatus \in [Task -> Rowed]
  /\ line \in [Task -> Lines]
  /\ intake \in [Intake -> {"open", "completed", "gone"}]
  /\ link \in [Intake -> Plan \cup {None}]
  /\ fails \in [Intake -> 0..MaxFails]

\* Rows live no longer than their plan, links than their plan and intake.
Rooted ==
  /\ \A t \in Task : taskStatus[t] # "none" => planStatus[PlanOf[t]] # "none"
  /\ \A i \in Intake : link[i] # None => planStatus[link[i]] # "none" /\ intake[i] # "gone"
-----------------------------------------------------------------------------
(* The operators *)

\* A set of naturals that is not empty has a least element.
LEMMA Least ==
  ASSUME NEW S \in SUBSET Nat, S # {}
  PROVE  \E m \in S : \A n \in S : m <= n
<1>1. PICK m \in S : \A n \in S : ~(<<n, m>> \in OpToRel(<, Nat))
  BY NatLessThanWellFounded, WFMin
<1>2. \A n \in S : ~(<<n, m>> \in {ss \in Nat \X Nat : ss[1] < ss[2]})
  BY <1>1 DEF OpToRel
<1>3. ASSUME NEW n \in S PROVE m <= n
  <2>1. m \in Nat /\ n \in Nat
    BY <1>1
  <2>2. <<n, m>> \in Nat \X Nat
    BY <2>1
  <2>3. ~(n < m)
    BY <1>2, <2>2
  <2> QED
    BY <2>1, <2>3
<1> QED
  BY <1>1, <1>3

\* The first of some plans, tasks or intakes is one of them.
LEMMA FirstIsIn ==
  ASSUME NEW S \in SUBSET (Worker \cup Intake), S # {}
  PROVE  First(S) \in S
<1> DEFINE R == {Rank[x] : x \in S}
<1>1. R \in SUBSET Nat /\ R # {}
  BY NodeAssumption
<1>2. PICK m \in R : \A n \in R : m <= n
  BY <1>1, Least
<1>3. PICK x \in S : Rank[x] = m
  BY <1>2
<1>4. \A y \in S : Rank[x] <= Rank[y]
  BY <1>2, <1>3
<1> QED
  BY <1>3, <1>4 DEF First

\* The jobs the operators build have the types of jobs.
LEMMA JobTypes ==
  /\ NoJob \in TaskJob /\ NoJob \in PlanJob
  /\ \A stage \in TaskStages, n \in 0..Retries : At(stage, n) \in TaskJob
  /\ \A stage \in PlanStages, n \in 0..Repairs : At(stage, n) \in PlanJob
  /\ \A ln \in [Task -> Lines], p \in Plan, n \in 0..Retries : Guarded("cli", n, p, ln) \in TaskJob
  /\ \A ln \in [Task -> Lines], p \in Plan, n \in 0..Repairs : Guarded("repair", n, p, ln) \in PlanJob
<1>1. <<>> \in Files
  <2>1. <<>> \in [{} -> Lines]
    OBVIOUS
  <2> QED
    BY <2>1 DEF Files
<1>2. \A ln \in [Task -> Lines], p \in Plan : [u \in TasksOf(p) |-> ln[u]] \in Files
  <2> SUFFICES ASSUME NEW ln \in [Task -> Lines], NEW p \in Plan
               PROVE  [u \in TasksOf(p) |-> ln[u]] \in Files
    OBVIOUS
  <2>1. TasksOf(p) \in SUBSET Task
    BY DEF TasksOf
  <2>2. [u \in TasksOf(p) |-> ln[u]] \in [TasksOf(p) -> Lines]
    BY <2>1
  <2> QED
    BY <2>1, <2>2 DEF Files
<1>3. NodeAssumption
  BY NodeAssumption
<1>4. NoJob \in TaskJob /\ NoJob \in PlanJob
  BY <1>1, <1>3 DEF NoJob, TaskJob, PlanJob, TaskStages, PlanStages, Children, NodeAssumption
<1>5. \A stage \in TaskStages, n \in 0..Retries : At(stage, n) \in TaskJob
  BY <1>1, <1>3 DEF At, NoJob, TaskJob, TaskStages, Children, NodeAssumption
<1>6. \A stage \in PlanStages, n \in 0..Repairs : At(stage, n) \in PlanJob
  BY <1>1, <1>3 DEF At, NoJob, PlanJob, PlanStages, CheckStages, Children, NodeAssumption
<1>7. \A ln \in [Task -> Lines], p \in Plan, n \in 0..Retries : Guarded("cli", n, p, ln) \in TaskJob
  BY <1>2, <1>3 DEF Guarded, At, NoJob, TaskJob, TaskStages, Children, NodeAssumption
<1>8. \A ln \in [Task -> Lines], p \in Plan, n \in 0..Repairs : Guarded("repair", n, p, ln) \in PlanJob
  BY <1>2, <1>3 DEF Guarded, At, NoJob, PlanJob, PlanStages, CheckStages, Children, NodeAssumption
<1> QED
  BY <1>4, <1>5, <1>6, <1>7, <1>8

\* A worker is a plan or a task.
LEMMA Kinds == /\ Worker = Plan \cup Task
               /\ Plan \cap Task = {}
               /\ PlanOf \in [Task -> Plan]
               /\ Source \in [Plan -> Intake]
               /\ None \notin Plan /\ None \notin Task /\ None \notin Intake
               /\ FirstPlans \subseteq Plan
               /\ Retries \in Nat /\ Repairs \in Nat /\ MaxFails \in Nat \ {0}
               /\ \A S \in Apart : S \in SUBSET Task
BY NodeAssumption DEF NodeAssumption, Worker

\* The caller of a worker that returns goes on.
LEMMA RunAfterTyped == ASSUME run \in Runs, NEW w \in Worker PROVE RunAfter(w) \in Runs
BY Kinds DEF RunAfter, IdleRun, Runs

\* A job of a task is replaced by a job of a task.
LEMMA TaskJobStays ==
  ASSUME NodeTyped, NEW t \in Task, NEW j \in TaskJob,
         job' = [job EXCEPT ![t] = j]
  PROVE  JobsTyped'
BY Kinds DEF NodeTyped, JobsTyped

\* And a job of a plan by a job of a plan.
LEMMA PlanJobStays ==
  ASSUME NodeTyped, NEW p \in Plan, NEW j \in PlanJob,
         job' = [job EXCEPT ![p] = j]
  PROVE  JobsTyped'
BY Kinds DEF NodeTyped, JobsTyped

\* A worker that returns leaves the types as they are.
LEMMA ReturnTyped ==
  ASSUME NodeTyped, NEW w \in Worker, Return(w)
  PROVE  run' \in Runs /\ JobsTyped'
<1>1. run' \in Runs
  BY RunAfterTyped DEF Return, NodeTyped
<1>2. CASE w \in Task
  BY <1>1, <1>2, TaskJobStays, JobTypes DEF Return
<1>3. CASE w \in Plan
  BY <1>1, <1>3, PlanJobStays, JobTypes DEF Return
<1> QED
  BY <1>2, <1>3 DEF Worker

\* The plan a new generation takes is a plan that does not exist.
LEMMA SpareIsNew ==
  ASSUME NEW i \in Intake, Spare(i) # {}
  PROVE  /\ First(Spare(i)) \in Plan
         /\ Source[First(Spare(i))] = i
         /\ planStatus[First(Spare(i))] = "none"
         /\ job[First(Spare(i))].at = "none"
<1>1. First(Spare(i)) \in Spare(i)
  BY FirstIsIn DEF Spare, Worker
<1>2. Rank[First(Spare(i))] \in Nat
  BY <1>1, NodeAssumption DEF Spare, NodeAssumption, Worker
<1> QED
  BY <1>1, <1>2 DEF Spare, PlanExists

\* What the beginning of a run does: it scans, or it generates a new plan.
LEMMA RunBegins ==
  ASSUME NEW fs, NEW loop \in BOOLEAN, BeginRun(fs, loop)
  PROVE  \/ /\ run' = [IdleRun EXCEPT !.loop = loop, !.stage = "scan"]
            /\ job' = job
         \/ \E p \in Plan : /\ planStatus[p] = "none" /\ job[p].at = "none"
                            /\ job' = [job EXCEPT ![p] = At("gen", 0)]
                            /\ run' = [IdleRun EXCEPT !.loop = loop, !.stage = "generate", !.on = {p}]
<1>1. PICK cooled \in SUBSET {i \in Intake : fs[i] = MaxFails} :
        LET C == Candidates(fs, cooled)
            r == [IdleRun EXCEPT !.loop = loop]
            p == First(Spare(First(C)))
        IN \/ /\ C = {}
              /\ run' = [r EXCEPT !.stage = "scan"]
              /\ UNCHANGED job
           \/ /\ C # {}
              /\ job' = [job EXCEPT ![p] = At("gen", 0)]
              /\ run' = [r EXCEPT !.stage = "generate", !.on = {p}]
  BY DEF BeginRun
<1> DEFINE C == Candidates(fs, cooled)
           p == First(Spare(First(C)))
<1>2. CASE C = {}
  BY <1>1, <1>2
<1>3. CASE C # {}
  <2>1. First(C) \in C
    BY <1>3, FirstIsIn DEF Candidates
  <2>2. First(C) \in Intake /\ Spare(First(C)) # {}
    BY <2>1 DEF Candidates
  <2>3. p \in Plan /\ planStatus[p] = "none" /\ job[p].at = "none"
    BY <2>2, SpareIsNew
  <2>4. /\ job' = [job EXCEPT ![p] = At("gen", 0)]
        /\ run' = [IdleRun EXCEPT !.loop = loop, !.stage = "generate", !.on = {p}]
    BY <1>1, <1>3
  <2> QED
    BY <2>3, <2>4
<1> QED
  BY <1>2, <1>3

\* A run that begins, or does not because the project is busy.
LEMMA BeginTyped ==
  ASSUME NodeTyped, NEW fs, NEW loop \in BOOLEAN,
         BeginRun(fs, loop) \/ UNCHANGED <<run, job>>
  PROVE  run' \in Runs /\ JobsTyped'
<1>1. CASE UNCHANGED <<run, job>>
  BY <1>1 DEF NodeTyped, JobsTyped
<1>2. CASE job' = job /\ run' = [IdleRun EXCEPT !.loop = loop, !.stage = "scan"]
  BY <1>2 DEF NodeTyped, JobsTyped, IdleRun, Runs
<1>3. ASSUME NEW p \in Plan, job' = [job EXCEPT ![p] = At("gen", 0)],
             run' = [IdleRun EXCEPT !.loop = loop, !.stage = "generate", !.on = {p}]
      PROVE  run' \in Runs /\ JobsTyped'
  <2>0. At("gen", 0) \in PlanJob
    BY JobTypes, Kinds DEF PlanStages
  <2>1. JobsTyped'
    BY <1>3, <2>0, PlanJobStays
  <2> QED
    BY <1>3, <2>1, Kinds DEF IdleRun, Runs
<1> QED
  BY <1>1, <1>2, <1>3, RunBegins

\* The rows a file's lines make are rows, and no new plan gets any.
LEMMA SyncTyped ==
  ASSUME NEW ts \in [Task -> Rowed], NEW ln \in [Task -> Lines], NEW p \in Plan
  PROVE  /\ Synced(ts, ln, p) \in [Task -> Rowed]
         /\ \A t \in Task : Synced(ts, ln, p)[t] # "none" => ts[t] # "none" \/ PlanOf[t] = p
         /\ \A t \in Task : Synced(ts, ln, p)[t] = "running" => ts[t] = "running"
         /\ \A status \in Planned, done \in BOOLEAN :
              SyncedPlanStatus(Synced(ts, ln, p), p, status, done) \in Planned \ {"none"}
<1>1. \A t \in Task : PlanOf[t] # p => t \notin TasksOf(p)
  BY DEF TasksOf
<1> QED
  BY <1>1 DEF Synced, SyncedTaskStatus, SyncedPlanStatus, Rowed, Planned, Lines

\* The agents of some tasks start: the rows run, and only tasks get jobs.
LEMMA ExecuteTyped ==
  ASSUME NodeTyped, NEW ts \in [Task -> Rowed], NEW S \in SUBSET Task, NEW n \in 0..Retries,
         ExecuteTask(ts, S, n)
  PROVE  /\ taskStatus' \in [Task -> Rowed]
         /\ line' \in [Task -> Lines]
         /\ JobsTyped'
         /\ \A t \in Task : taskStatus'[t] # "none" => t \in S \/ ts[t] # "none"
<1>1. taskStatus' \in [Task -> Rowed]
  BY DEF ExecuteTask, Rowed
<1>2. \A U \in SUBSET Task : Opened(line, U) \in [Task -> Lines]
  BY DEF NodeTyped, Opened, Lines
<1>3. \A t \in Task : Guarded("cli", n, PlanOf[t], Opened(line, {u \in S : Rank[u] <= Rank[t]})) \in TaskJob
  <2> SUFFICES ASSUME NEW t \in Task
               PROVE  Guarded("cli", n, PlanOf[t], Opened(line, {u \in S : Rank[u] <= Rank[t]})) \in TaskJob
    OBVIOUS
  <2>1. Opened(line, {u \in S : Rank[u] <= Rank[t]}) \in [Task -> Lines]
    BY <1>2
  <2>2. PlanOf[t] \in Plan
    BY Kinds
  <2> QED
    BY <2>1, <2>2, JobTypes
<1>4. \A w \in Worker : job'[w] = IF w \notin S THEN job[w]
        ELSE Guarded("cli", n, PlanOf[w], Opened(line, {u \in S : Rank[u] <= Rank[w]}))
  BY DEF ExecuteTask
<1>5. ASSUME NEW t \in Task PROVE job'[t] \in TaskJob
  <2>1. t \in Worker
    BY DEF Worker
  <2>2. CASE t \in S
    BY <1>3, <1>4, <2>1, <2>2
  <2>3. CASE t \notin S
    BY <1>4, <2>1, <2>3 DEF NodeTyped, JobsTyped
  <2> QED
    BY <2>2, <2>3
<1>6. ASSUME NEW p \in Plan PROVE job'[p] \in PlanJob
  <2>1. p \in Worker /\ p \notin S
    BY Kinds
  <2> QED
    BY <1>4, <2>1 DEF NodeTyped, JobsTyped
<1>7. job' \in [Worker -> TaskJob \cup PlanJob]
  <2>1. \A w \in Worker : job'[w] \in TaskJob \cup PlanJob
    BY <1>5, <1>6, Kinds
  <2>2. job' = [w \in Worker |-> job'[w]]
    BY DEF ExecuteTask
  <2> QED
    BY <2>1, <2>2
<1>8. line' \in [Task -> Lines]
  BY <1>2 DEF ExecuteTask
<1>9. \A t \in Task : taskStatus'[t] # "none" => t \in S \/ ts[t] # "none"
  BY DEF ExecuteTask
<1> QED
  BY <1>1, <1>5, <1>6, <1>7, <1>8, <1>9 DEF JobsTyped

\* A plan that passes keeps the types and brings back no row and no intake.
LEMMA PassTyped ==
  ASSUME NodeTyped, NEW ts \in [Task -> Rowed], NEW ps \in [Plan -> Planned],
         NEW p \in Plan, NEW acc \in Task \cup {None}, Pass(ts, ps, p, acc)
  PROVE  /\ planStatus' \in [Plan -> Planned]
         /\ passed' \in [Plan -> BOOLEAN]
         /\ intake' \in [Intake -> {"open", "completed", "gone"}]
         /\ taskStatus' \in [Task -> Rowed]
         /\ line' \in [Task -> Lines]
         /\ \A t \in Task : taskStatus'[t] # "none" => ts[t] # "none"
         /\ \A q \in Plan : ps[q] # "none" => planStatus'[q] # "none"
         /\ \A i \in Intake : intake[i] # "gone" => intake'[i] # "gone"
BY Kinds DEF NodeTyped, Pass, CompleteLinkedIntakes, Ticked, Rowed, Planned, Lines

\* A validation that starts, or passes at once, does so too.
LEMMA ValidateTyped ==
  ASSUME NodeTyped, NEW ts \in [Task -> Rowed], NEW ps \in [Plan -> Planned],
         NEW p \in Plan, NEW acc \in Task \cup {None}, NEW r \in Runs, NEW free \in Runs,
         Validate(ts, ps, p, acc, r, free)
  PROVE  /\ planStatus' \in [Plan -> Planned]
         /\ passed' \in [Plan -> BOOLEAN]
         /\ intake' \in [Intake -> {"open", "completed", "gone"}]
         /\ taskStatus' \in [Task -> Rowed]
         /\ line' \in [Task -> Lines]
         /\ run' \in Runs
         /\ JobsTyped'
         /\ \A t \in Task : taskStatus'[t] # "none" => ts[t] # "none" \/ t = acc
         /\ \A q \in Plan : ps[q] # "none" => planStatus'[q] # "none"
         /\ \A i \in Intake : intake[i] # "gone" => intake'[i] # "gone"
<1> DEFINE started == IF acc = None THEN ts ELSE [ts EXCEPT ![acc] = "running"]
<1>1. started \in [Task -> Rowed]
  BY Kinds DEF Rowed
<1>2. \A t \in Task : started[t] # "none" => ts[t] # "none" \/ t = acc
  BY Kinds
<1>3. CASE Pass(started, ps, p, acc) /\ run' = free /\ UNCHANGED job
  <2> HIDE DEF started
  <2>1. JobsTyped'
    BY <1>3 DEF NodeTyped, JobsTyped
  <2> QED
    BY <1>1, <1>2, <1>3, <2>1, PassTyped
<1>4. CASE /\ planStatus' = ps
           /\ taskStatus' = started
           /\ job' = [job EXCEPT ![p] = At("before", 0)]
           /\ run' = Working(r, {p}, acc)
           /\ UNCHANGED <<passed, line, intake>>
  <2>1. At("before", 0) \in PlanJob
    BY JobTypes, Kinds DEF PlanStages, CheckStages
  <2>2. JobsTyped'
    BY <1>4, <2>1, PlanJobStays
  <2>3. run' \in Runs
    <3>1. {p} \in SUBSET Worker
      BY DEF Worker
    <3> QED
      BY <1>4, <3>1 DEF Working, Runs
  <2> HIDE DEF started
  <2> QED
    BY <1>1, <1>2, <1>4, <2>2, <2>3 DEF NodeTyped
<1> QED
  BY <1>3, <1>4 DEF Validate
-----------------------------------------------------------------------------
(* Types, and what lives how long *)

\* Rows and links stay rooted when no plan and no intake goes and new rows
\* belong to plans that are there.
LEMMA RootedStays ==
  ASSUME Rooted, NodeTyped,
         \A p \in Plan : planStatus[p] # "none" => planStatus'[p] # "none",
         \A t \in Task : taskStatus'[t] # "none" => taskStatus[t] # "none" \/ planStatus'[PlanOf[t]] # "none",
         \A i \in Intake : intake[i] # "gone" => intake'[i] # "gone",
         link' = link
  PROVE  Rooted'
BY Kinds DEF Rooted, NodeTyped

\* The same for a step that touches no row, no plan and no link.
LEMMA RootedSame ==
  ASSUME Rooted, UNCHANGED <<planStatus, taskStatus, intake, link>>
  PROVE  Rooted'
BY DEF Rooted

\* Nor does ending what runs take a plan away.
LEMMA FinishedTyped ==
  ASSUME NodeTyped, NEW S, taskStatus' = Finished(taskStatus, S, "pending")
  PROVE  /\ taskStatus' \in [Task -> Rowed]
         /\ \A t \in Task : taskStatus'[t] # "none" => taskStatus[t] # "none"
         /\ \A t \in Task : taskStatus'[t] = "running" => taskStatus[t] = "running" /\ t \notin S
BY DEF NodeTyped, Finished, Rowed

\* Cancelling marks children and changes nothing else of a job.
LEMMA CancelTyped ==
  ASSUME NodeTyped, NEW S, Cancel(S)
  PROVE  JobsTyped'
<1>1. \A w \in Worker : job'[w] = job[w] \/ job'[w] = [job[w] EXCEPT !.child = "cancelled"]
  BY DEF Cancel
<1>2. ASSUME NEW t \in Task PROVE job'[t] \in TaskJob
  <2>1. job[t] \in TaskJob /\ t \in Worker
    BY DEF NodeTyped, JobsTyped, Worker
  <2>2. [job[t] EXCEPT !.child = "cancelled"] \in TaskJob
    BY <2>1 DEF TaskJob, Children
  <2> QED
    BY <1>1, <2>1, <2>2
<1>3. ASSUME NEW p \in Plan PROVE job'[p] \in PlanJob
  <2>1. job[p] \in PlanJob /\ p \in Worker
    BY DEF NodeTyped, JobsTyped, Worker
  <2>2. [job[p] EXCEPT !.child = "cancelled"] \in PlanJob
    BY <2>1 DEF PlanJob, Children
  <2> QED
    BY <1>1, <2>1, <2>2
<1>4. \A w \in Worker : job'[w] \in TaskJob \cup PlanJob
  BY <1>2, <1>3 DEF Worker
<1>5. job' = [w \in Worker |-> job'[w]]
  BY DEF Cancel
<1> QED
  BY <1>2, <1>3, <1>4, <1>5 DEF JobsTyped

\* The file the guard puts back is a file.
LEMMA RestoredTyped ==
  ASSUME NodeTyped, NEW w \in Worker
  PROVE  Restored(w) \in [Task -> Lines]
<1>1. job[w].saw \in Files
  BY DEF NodeTyped, JobsTyped, TaskJob, PlanJob, Worker
<1>2. PICK S \in SUBSET Task : job[w].saw \in [S -> Lines]
  BY <1>1 DEF Files
<1> QED
  BY <1>2 DEF Restored, NodeTyped

\* Every step of a task keeps the types, and no row comes back from a
\* deletion.
LEMMA TaskStepTyped ==
  ASSUME NodeTyped, Rooted, NEW t \in Task, TaskStep(t)
  PROVE  NodeTyped' /\ Rooted'
<1>0. t \in Worker /\ PlanOf[t] \in Plan /\ job[t] \in TaskJob
  BY Kinds DEF NodeTyped, JobsTyped
<1>1. CASE Return(t) /\ UNCHANGED <<running, planVars, intakeVars>>
  <2>1. run' \in Runs /\ JobsTyped'
    BY <1>0, <1>1, ReturnTyped
  <2> QED
    BY <1>1, <2>1, RootedSame DEF NodeTyped, planVars, intakeVars
<1>2. CASE /\ TaskExists(t)
           /\ CompleteTask(t, Restored(t))
           /\ Stay(t, At("after", job[t].tries))
           /\ UNCHANGED <<passed, running, intakeVars>>
  <2>1. At("after", job[t].tries) \in TaskJob
    BY <1>0, JobTypes DEF TaskJob, TaskStages
  <2>2. JobsTyped'
    BY <1>2, <2>1, TaskJobStays DEF Stay
  <2>3. line' \in [Task -> Lines]
    BY <1>0, <1>2, RestoredTyped DEF CompleteTask, Ticked, Lines
  <2>4. taskStatus' \in [Task -> Rowed] /\ planStatus' \in [Plan -> Planned]
    BY <1>2 DEF CompleteTask, NodeTyped, Rowed, Planned
  <2>5. \A p \in Plan : planStatus[p] # "none" => planStatus'[p] # "none"
    BY <1>2 DEF CompleteTask, NodeTyped, Planned
  <2>6. \A u \in Task : taskStatus'[u] # "none" => taskStatus[u] # "none"
    BY <1>2 DEF CompleteTask, NodeTyped, TaskExists
  <2>7. Rooted'
    BY <1>2, <2>5, <2>6, RootedStays DEF intakeVars
  <2> QED
    BY <1>2, <2>2, <2>3, <2>4, <2>7 DEF NodeTyped, intakeVars, Stay
<1>3. CASE /\ line' = Restored(t)
           /\ taskStatus' = Finished(taskStatus, {t}, "pending")
           /\ \E again \in BOOLEAN : Stay(t, [At("fail", job[t].tries) EXCEPT !.again = again])
           /\ UNCHANGED <<planStatus, passed, running, intakeVars>>
  <2>1. PICK again \in BOOLEAN : Stay(t, [At("fail", job[t].tries) EXCEPT !.again = again])
    BY <1>3
  <2>2. At("fail", job[t].tries) \in TaskJob
    BY <1>0, JobTypes DEF TaskJob, TaskStages
  <2>3. [At("fail", job[t].tries) EXCEPT !.again = again] \in TaskJob
    BY <2>2 DEF TaskJob
  <2>4. JobsTyped'
    BY <2>1, <2>3, TaskJobStays DEF Stay
  <2>5. Rooted'
    BY <1>3, FinishedTyped, RootedStays DEF intakeVars
  <2> QED
    BY <1>0, <1>3, <2>1, <2>4, <2>5, FinishedTyped, RestoredTyped DEF NodeTyped, intakeVars, Stay
<1>4. CASE TaskHookDone(t)
  <2>1. CASE job[t].at = "fail" /\ TaskExists(t) /\ job[t].again /\ job[t].tries < Retries
    <3>0. job[t].tries + 1 \in 0..Retries
      BY <1>0, <2>1, Kinds DEF TaskJob
    <3>1. [NoJob EXCEPT !.at = "backoff", !.tries = job[t].tries + 1] \in TaskJob
      BY <3>0, JobTypes DEF TaskJob, TaskStages
    <3>2. JobsTyped'
      BY <1>4, <2>1, <3>1, TaskJobStays DEF TaskHookDone, Stay
    <3> QED
      BY <1>4, <2>1, <3>2, RootedSame DEF TaskHookDone, Stay, NodeTyped, planVars, intakeVars
  <2>2. CASE ~(job[t].at = "fail" /\ TaskExists(t) /\ job[t].again /\ job[t].tries < Retries)
    BY <1>1, <1>4, <2>2 DEF TaskHookDone
  <2> QED
    BY <2>1, <2>2
<1>5. CASE /\ TaskExists(t)
           /\ ExecuteTask(taskStatus, {t}, job[t].tries)
           /\ UNCHANGED <<run, planStatus, passed, running, intakeVars>>
  <2>1. job[t].tries \in 0..Retries /\ taskStatus \in [Task -> Rowed]
    BY <1>0 DEF NodeTyped, TaskJob
  <2>2. /\ taskStatus' \in [Task -> Rowed] /\ line' \in [Task -> Lines] /\ JobsTyped'
        /\ \A u \in Task : taskStatus'[u] # "none" => u \in {t} \/ taskStatus[u] # "none"
    BY <1>5, <2>1, ExecuteTyped
  <2>3. Rooted'
    BY <1>5, <2>2, RootedStays DEF intakeVars, TaskExists
  <2> QED
    BY <1>5, <2>2, <2>3 DEF NodeTyped, intakeVars
<1>6. CASE CliDone(t)
  BY <1>1, <1>2, <1>3, <1>6 DEF CliDone
<1>7. CASE BackoffDone(t)
  BY <1>1, <1>5, <1>7 DEF BackoffDone
<1> QED
  BY <1>4, <1>6, <1>7 DEF TaskStep

\* The job of a plan moves on, and nothing else does.
LEMMA PlanMoves ==
  ASSUME NodeTyped, NEW p \in Plan, NEW j \in PlanJob, Stay(p, j)
  PROVE  run' \in Runs /\ JobsTyped'
BY PlanJobStays DEF Stay, NodeTyped

\* Fail writes a status over the status of a plan that is there.
LEMMA FailTyped ==
  ASSUME NodeTyped, NEW p \in Plan, Fail(p)
  PROVE  /\ planStatus' \in [Plan -> Planned]
         /\ passed' \in [Plan -> BOOLEAN]
         /\ \A q \in Plan : planStatus[q] # "none" => planStatus'[q] # "none"
BY DEF NodeTyped, Fail, Planned

\* So does the end of a validation command.
LEMMA CheckTyped ==
  ASSUME NodeTyped, Rooted, NEW p \in Plan, CheckDone(p)
  PROVE  NodeTyped' /\ Rooted'
<1>0. p \in Worker /\ job[p] \in PlanJob /\ run.acc \in Task \cup {None}
  BY DEF Worker, NodeTyped, JobsTyped, Runs
<1>1. CASE Return(p) /\ UNCHANGED <<running, planVars, intakeVars>>
  BY <1>0, <1>1, ReturnTyped, RootedSame DEF NodeTyped, planVars, intakeVars
<1>2. CASE Pass(taskStatus, planStatus, p, run.acc) /\ Return(p) /\ UNCHANGED <<running, link, fails>>
  <2>1. run' \in Runs /\ JobsTyped'
    BY <1>0, <1>2, ReturnTyped
  <2>2. /\ planStatus' \in [Plan -> Planned]
        /\ passed' \in [Plan -> BOOLEAN]
        /\ intake' \in [Intake -> {"open", "completed", "gone"}]
        /\ taskStatus' \in [Task -> Rowed]
        /\ line' \in [Task -> Lines]
        /\ \A t \in Task : taskStatus'[t] # "none" => taskStatus[t] # "none"
        /\ \A q \in Plan : planStatus[q] # "none" => planStatus'[q] # "none"
        /\ \A i \in Intake : intake[i] # "gone" => intake'[i] # "gone"
    BY <1>0, <1>2, PassTyped DEF NodeTyped
  <2>3. Rooted'
    BY <1>2, <2>2, RootedStays
  <2> QED
    BY <1>2, <2>1, <2>2, <2>3 DEF NodeTyped
<1>3. CASE /\ RepairsLeft(p) /\ Fail(p)
           /\ Stay(p, Guarded("repair", job[p].tries + 1, p, line))
           /\ UNCHANGED <<running, taskStatus, line, intakeVars>>
  <2>1. job[p].tries + 1 \in 0..Repairs
    BY <1>0, <1>3, Kinds DEF PlanJob, RepairsLeft
  <2>2. Guarded("repair", job[p].tries + 1, p, line) \in PlanJob
    BY <2>1, JobTypes DEF NodeTyped
  <2>3. run' \in Runs /\ JobsTyped'
    BY <1>3, <2>2, PlanMoves
  <2>4. Rooted'
    BY <1>3, FailTyped, RootedStays DEF intakeVars
  <2> QED
    BY <1>3, <2>3, <2>4, FailTyped DEF NodeTyped, intakeVars
<1>4. CASE /\ Fail(p) /\ taskStatus' = AccFailed
           /\ Stay(p, At("vfail", 0))
           /\ UNCHANGED <<running, line, intakeVars>>
  <2>1. At("vfail", 0) \in PlanJob
    BY JobTypes, Kinds DEF PlanStages, CheckStages
  <2>2. run' \in Runs /\ JobsTyped'
    BY <1>4, <2>1, PlanMoves
  <2>3. taskStatus' = Finished(taskStatus, {run.acc}, "pending")
    BY <1>4 DEF AccFailed
  <2>4. Rooted'
    BY <1>4, <2>3, FailTyped, FinishedTyped, RootedStays DEF intakeVars
  <2> QED
    BY <1>4, <2>2, <2>3, <2>4, FailTyped, FinishedTyped DEF NodeTyped, intakeVars
<1> QED
  BY <1>1, <1>2, <1>3, <1>4 DEF CheckDone

\* So does every step of a plan.
LEMMA PlanStepTyped ==
  ASSUME NodeTyped, Rooted, NEW p \in Plan, PlanStep(p)
  PROVE  NodeTyped' /\ Rooted'
<1>0. p \in Worker /\ job[p] \in PlanJob /\ run.acc \in Task \cup {None}
  BY DEF Worker, NodeTyped, JobsTyped, Runs
<1>1. CASE Return(p) /\ UNCHANGED <<running, planVars, intakeVars>>
  BY <1>0, <1>1, ReturnTyped, RootedSame DEF NodeTyped, planVars, intakeVars
<1>2. \A stage \in PlanStages : At(stage, 0) \in PlanJob
  BY JobTypes, Kinds
<1>3. CASE BeforeDone(p)
  <2>1. CASE /\ PlanExists(p) /\ Fail(p) /\ taskStatus' = AccFailed
             /\ Return(p)
             /\ UNCHANGED <<line, running, intakeVars>>
    <3>1. run' \in Runs /\ JobsTyped'
      BY <1>0, <2>1, ReturnTyped
    <3>2. taskStatus' = Finished(taskStatus, {run.acc}, "pending")
      BY <2>1 DEF AccFailed
    <3>3. Rooted'
      BY <2>1, <3>2, FailTyped, FinishedTyped, RootedStays DEF intakeVars
    <3> QED
      BY <2>1, <3>1, <3>2, <3>3, FailTyped, FinishedTyped DEF NodeTyped, intakeVars
  <2>2. CASE Stay(p, At("check", 0)) /\ UNCHANGED <<planVars, running, intakeVars>>
    <3>1. run' \in Runs /\ JobsTyped'
      BY <1>2, <2>2, PlanMoves DEF PlanStages, CheckStages
    <3> QED
      BY <2>2, <3>1, RootedSame DEF NodeTyped, planVars, intakeVars
  <2> QED
    BY <1>1, <1>3, <2>1, <2>2 DEF BeforeDone
<1>4. CASE RepairDone(p)
  <2>1. line' \in [Task -> Lines]
    BY <1>0, <1>4, RestoredTyped DEF RepairDone, NodeTyped
  <2>2. At("check", job[p].tries) \in PlanJob
    BY <1>0, JobTypes DEF PlanJob, PlanStages, CheckStages
  <2>3. run' \in Runs /\ JobsTyped'
    BY <1>0, <1>4, <2>2, ReturnTyped, PlanMoves DEF RepairDone
  <2> QED
    BY <1>4, <2>1, <2>3, RootedSame DEF RepairDone, NodeTyped, intakeVars
<1>5. CASE ValidationHookDone(p)
  BY <1>1, <1>5 DEF ValidationHookDone
<1>6. CASE GenerateOk(p)
  <2>1. run' \in Runs /\ JobsTyped'
    BY <1>2, <1>6, PlanMoves DEF GenerateOk, PlanStages
  <2>2. /\ planStatus' \in [Plan -> Planned] /\ planStatus'[p] # "none"
        /\ \A q \in Plan : planStatus[q] # "none" => planStatus'[q] # "none"
    BY <1>6 DEF GenerateOk, NodeTyped, Planned
  <2>3. /\ passed' \in [Plan -> BOOLEAN]
        /\ taskStatus' \in [Task -> Rowed]
        /\ line' \in [Task -> Lines]
    BY <1>6 DEF GenerateOk, NodeTyped, Rowed, Lines
  <2>9. /\ fails' = [fails EXCEPT ![Source[p]] = 0] /\ intake' = intake
        /\ link' = Linked(Source[p], p)
    BY <1>6 DEF GenerateOk
  <2>4. fails' \in [Intake -> 0..MaxFails]
    BY <2>9, Kinds DEF NodeTyped
  <2>5. link' \in [Intake -> Plan \cup {None}]
    BY <2>9 DEF Linked, NodeTyped
  <2>6. \A i \in Intake : link'[i] # None => link'[i] = link[i] \/ (link'[i] = p /\ intake[i] # "gone")
    <3>1. link \in [Intake -> Plan \cup {None}]
      BY DEF NodeTyped
    <3>2. CASE intake[Source[p]] = "gone"
      BY <2>9, <3>2 DEF Linked
    <3>3. CASE intake[Source[p]] # "gone"
      BY <2>9, <3>1, <3>3 DEF Linked
    <3> QED
      BY <3>2, <3>3
  <2>7. \A t \in Task : taskStatus'[t] # "none" => taskStatus[t] # "none" \/ PlanOf[t] = p
    BY <1>6 DEF GenerateOk, TasksOf
  <2>8. Rooted'
    BY <2>2, <2>9, <2>5, <2>6, <2>7, Kinds DEF Rooted, NodeTyped
  <2> QED
    BY <1>6, <2>1, <2>2, <2>3, <2>4, <2>5, <2>8, <2>9 DEF NodeTyped, GenerateOk
<1>7. CASE GenerateFailed(p)
  <2>1. run' \in Runs /\ JobsTyped'
    BY <1>2, <1>7, PlanMoves DEF GenerateFailed, PlanStages
  <2> QED
    BY <1>7, <2>1, RootedSame DEF GenerateFailed, NodeTyped, planVars, intakeVars
<1>8. CASE GenerateHookDone(p)
  <2>1. run' \in Runs /\ JobsTyped'
    BY <1>0, <1>8, ReturnTyped DEF GenerateHookDone
  <2>2. fails' \in [Intake -> 0..MaxFails]
    <3>1. Source[p] \in Intake /\ fails[Source[p]] \in 0..MaxFails /\ MaxFails \in Nat
      BY Kinds DEF NodeTyped
    <3>2. fails[Source[p]] # MaxFails => fails[Source[p]] + 1 \in 0..MaxFails
      BY <3>1
    <3> QED
      BY <1>8, <3>1, <3>2 DEF GenerateHookDone, NodeTyped
  <2> QED
    BY <1>8, <2>1, <2>2, RootedSame DEF GenerateHookDone, NodeTyped, planVars
<1> QED
  BY <1>3, <1>4, <1>5, <1>6, <1>7, <1>8, CheckTyped DEF PlanStep

\* processPlan starts a task or a validation of a plan that is there.
LEMMA ProcessTyped ==
  ASSUME NodeTyped, Rooted, NEW p \in Runnable, ProcessPlan(p), UNCHANGED <<running, link, fails>>
  PROVE  NodeTyped' /\ Rooted'
<1> DEFINE ts == Synced(taskStatus, line, p)
           ps == [planStatus EXCEPT ![p] = SyncedPlanStatus(ts, p, planStatus[p], passed[p])]
           t == First(Pending(ts, p))
<1>0. p \in Plan /\ planStatus[p] # "none"
  BY DEF Runnable
<1>1. /\ ts \in [Task -> Rowed]
      /\ \A u \in Task : ts[u] # "none" => taskStatus[u] # "none" \/ PlanOf[u] = p
      /\ SyncedPlanStatus(ts, p, planStatus[p], passed[p]) \in Planned \ {"none"}
  BY <1>0, SyncTyped DEF NodeTyped
<1>2. /\ ps \in [Plan -> Planned]
      /\ \A q \in Plan : planStatus[q] # "none" => ps[q] # "none"
      /\ ps[p] # "none"
  BY <1>0, <1>1 DEF NodeTyped
<1>3. Pending(ts, p) # {} => t \in Task /\ PlanOf[t] = p
  <2>1. Pending(ts, p) \in SUBSET (Worker \cup Intake)
    BY DEF Pending, TasksOf, Worker
  <2>2. Pending(ts, p) # {} => t \in Pending(ts, p)
    BY <2>1, FirstIsIn
  <2> QED
    BY <2>2 DEF Pending, TasksOf
<1>4. run \in Runs /\ EndRun(run) \in Runs
  BY DEF NodeTyped, EndRun, Runs
<1>5. ASSUME /\ planStatus' \in [Plan -> Planned]
             /\ taskStatus' \in [Task -> Rowed]
             /\ \A u \in Task : taskStatus'[u] # "none" => ts[u] # "none" \/ PlanOf[u] = p
             /\ \A q \in Plan : ps[q] # "none" => planStatus'[q] # "none"
             /\ \A i \in Intake : intake[i] # "gone" => intake'[i] # "gone"
      PROVE  Rooted'
  <2> HIDE DEF ts, ps
  <2>1. \A q \in Plan : planStatus[q] # "none" => planStatus'[q] # "none"
    BY <1>2, <1>5
  <2>2. \A u \in Task : taskStatus'[u] # "none" => taskStatus[u] # "none" \/ planStatus'[PlanOf[u]] # "none"
    BY <1>0, <1>1, <1>2, <1>5
  <2> QED
    BY <1>5, <2>1, <2>2, RootedStays
<1>6. CASE /\ Pending(ts, p) # {}
           /\ planStatus' = ps
           /\ ExecuteTask(ts, {t}, 0)
           /\ run' = Working(run, {t}, None)
           /\ UNCHANGED <<passed, intake>>
  <2>1. 0 \in 0..Retries /\ {t} \in SUBSET Task
    BY <1>3, <1>6, Kinds
  <2> HIDE DEF ts, ps, t
  <2>2. /\ taskStatus' \in [Task -> Rowed] /\ line' \in [Task -> Lines] /\ JobsTyped'
        /\ \A u \in Task : taskStatus'[u] # "none" => u \in {t} \/ ts[u] # "none"
    BY <1>1, <1>6, <2>1, ExecuteTyped
  <2>3. run' \in Runs
    <3>1. {t} \in SUBSET Worker
      BY <2>1 DEF Worker
    <3> QED
      BY <1>4, <1>6, <3>1 DEF Working, Runs
  <2>4. Rooted'
    BY <1>2, <1>3, <1>5, <1>6, <2>2
  <2> QED
    BY <1>2, <1>6, <2>2, <2>3, <2>4 DEF NodeTyped
<1>7. ASSUME NEW acc \in Task \cup {None}, acc # None => PlanOf[acc] = p,
             Validate(ts, ps, p, acc, run, EndRun(run))
      PROVE  NodeTyped' /\ Rooted'
  <2> HIDE DEF ts, ps
  <2>1. /\ planStatus' \in [Plan -> Planned]
        /\ passed' \in [Plan -> BOOLEAN]
        /\ intake' \in [Intake -> {"open", "completed", "gone"}]
        /\ taskStatus' \in [Task -> Rowed]
        /\ line' \in [Task -> Lines]
        /\ run' \in Runs
        /\ JobsTyped'
        /\ \A u \in Task : taskStatus'[u] # "none" => ts[u] # "none" \/ u = acc
        /\ \A q \in Plan : ps[q] # "none" => planStatus'[q] # "none"
        /\ \A i \in Intake : intake[i] # "gone" => intake'[i] # "gone"
    BY <1>0, <1>1, <1>2, <1>4, <1>7, ValidateTyped
  <2>2. Rooted'
    BY <1>5, <1>7, <2>1, Kinds
  <2> QED
    BY <2>1, <2>2 DEF NodeTyped
<1>8. CASE /\ planStatus' = ps
           /\ taskStatus' = ts
           /\ run' = EndRun(run)
           /\ UNCHANGED <<job, passed, line, intake>>
  <2> HIDE DEF ts, ps
  <2>1. Rooted'
    BY <1>1, <1>2, <1>5, <1>8
  <2> QED
    BY <1>1, <1>2, <1>4, <1>8, <2>1 DEF NodeTyped, JobsTyped
<1>9. t \in Task => t # None
  BY Kinds
<1> QED
  BY <1>3, <1>6, <1>7, <1>8, <1>9 DEF ProcessPlan

\* So does every step of the run itself.
LEMMA RunStepTyped ==
  ASSUME NodeTyped, Rooted, RunStep
  PROVE  NodeTyped' /\ Rooted'
<1>1. EndRun(run) \in Runs /\ IdleRun \in Runs
  BY Kinds DEF NodeTyped, EndRun, IdleRun, Runs
<1>2. CASE run' \in {EndRun(run), IdleRun} /\ UNCHANGED <<running, job, planVars, intakeVars>>
  BY <1>1, <1>2, RootedSame DEF NodeTyped, JobsTyped, planVars, intakeVars
<1>3. CASE RunEnd
  BY <1>2, <1>3 DEF RunEnd
<1>4. CASE ScanDone
  <2>1. CASE Runnable # {} /\ ProcessPlan(First(Runnable)) /\ UNCHANGED <<running, link, fails>>
    <3>1. First(Runnable) \in Runnable
      BY <2>1, FirstIsIn DEF Runnable, Worker
    <3> QED
      BY <2>1, <3>1, ProcessTyped
  <2> QED
    BY <1>2, <1>4, <2>1 DEF ScanDone, intakeVars
<1> QED
  BY <1>3, <1>4 DEF RunStep

\* Cancelling, or resetting, some plans and rows.
LEMMA UserTyped ==
  ASSUME NodeTyped, Rooted,
         \/ StopLoop \/ \E t \in Task : StopTask(t) \/ RedoTask(t)
         \/ \E p \in Plan : StopPlan(p) \/ Resume(p) \/ ReExecute(p)
         \/ \E i \in Intake : InterruptIntake(i)
  PROVE  NodeTyped' /\ Rooted'
<1>1. ASSUME NEW W, NEW T, Kill(W, T), running' \in BOOLEAN,
             UNCHANGED <<run, planStatus, passed, line, intakeVars>>
      PROVE  NodeTyped' /\ Rooted'
  <2>1. /\ taskStatus' \in [Task -> Rowed]
        /\ \A t \in Task : taskStatus'[t] # "none" => taskStatus[t] # "none"
    BY <1>1, FinishedTyped DEF Kill
  <2>2. Rooted'
    BY <1>1, <2>1, RootedStays DEF intakeVars
  <2> QED
    BY <1>1, <2>1, <2>2 DEF NodeTyped, JobsTyped, intakeVars, Kill
<1>2. ASSUME NEW S, Interrupt(S), \A p \in Plan \cap S : planStatus[p] # "none"
      PROVE  NodeTyped' /\ Rooted'
  <2>1. JobsTyped'
    BY <1>2, CancelTyped DEF Interrupt
  <2>2. /\ taskStatus' \in [Task -> Rowed]
        /\ \A t \in Task : taskStatus'[t] # "none" => taskStatus[t] # "none"
    BY <1>2 DEF Interrupt, NodeTyped, Rowed
  <2>3. /\ planStatus' \in [Plan -> Planned]
        /\ \A p \in Plan : planStatus[p] # "none" => planStatus'[p] # "none"
    BY <1>2 DEF Interrupt, NodeTyped, Planned
  <2>4. Rooted'
    BY <1>2, <2>2, <2>3, RootedStays DEF Interrupt, intakeVars
  <2> QED
    BY <1>2, <2>1, <2>2, <2>3, <2>4 DEF NodeTyped, Interrupt, intakeVars
<1>3. ASSUME NEW p \in Plan, NEW T, NEW S, "none" \notin S, Reset(p, T, S)
      PROVE  NodeTyped' /\ Rooted'
  <2>1. /\ taskStatus' \in [Task -> Rowed]
        /\ \A t \in Task : taskStatus'[t] # "none" => taskStatus[t] # "none"
    BY <1>3 DEF Reset, NodeTyped, Rowed
  <2>2. /\ planStatus' \in [Plan -> Planned]
        /\ \A q \in Plan : planStatus[q] # "none" => planStatus'[q] # "none"
        /\ passed' \in [Plan -> BOOLEAN]
    BY <1>3 DEF Reset, NodeTyped, Planned
  <2>3. Rooted'
    BY <1>3, <2>1, <2>2, RootedStays DEF Reset, intakeVars
  <2> QED
    BY <1>3, <2>1, <2>2, <2>3 DEF NodeTyped, JobsTyped, Reset, intakeVars
<1>4. CASE StopLoop
  BY <1>1, <1>4 DEF StopLoop
<1>5. ASSUME NEW t \in Task, StopTask(t) PROVE NodeTyped' /\ Rooted'
  BY <1>1, <1>5 DEF StopTask
<1>6. ASSUME NEW t \in Task, RedoTask(t) PROVE NodeTyped' /\ Rooted'
  BY <1>3, <1>6, Kinds DEF RedoTask
<1>7. ASSUME NEW p \in Plan, StopPlan(p) PROVE NodeTyped' /\ Rooted'
  BY <1>2, <1>7 DEF StopPlan, PlanExists
<1>8. ASSUME NEW p \in Plan, Resume(p) PROVE NodeTyped' /\ Rooted'
  BY <1>3, <1>8 DEF Resume, PlanExists
<1>9. ASSUME NEW p \in Plan, ReExecute(p) PROVE NodeTyped' /\ Rooted'
  BY <1>3, <1>9 DEF ReExecute
<1>10. ASSUME NEW i \in Intake, InterruptIntake(i) PROVE NodeTyped' /\ Rooted'
  BY <1>2, <1>10 DEF InterruptIntake, Rooted
<1> QED
  BY <1>4, <1>5, <1>6, <1>7, <1>8, <1>9, <1>10

\* Deleting plans takes their rows and links with them.
LEMMA DeleteTyped ==
  ASSUME NodeTyped, Rooted, NEW S, Delete(S),
         \/ intake' = intake
         \/ \E i \in Intake : /\ intake' = [intake EXCEPT ![i] = "gone"]
                              /\ S = {link[i]} \ {None}
  PROVE  NodeTyped' /\ Rooted'
<1>1. JobsTyped'
  BY CancelTyped DEF Delete
<1>2. planStatus' \in [Plan -> Planned] /\ passed' \in [Plan -> BOOLEAN]
  BY DEF Delete, NodeTyped, Planned
<1>3. taskStatus' \in [Task -> Rowed] /\ line' \in [Task -> Lines]
  BY DEF Delete, NodeTyped, Rowed, Lines
<1>4. link' \in [Intake -> Plan \cup {None}]
  BY DEF Delete, NodeTyped
<1>5. intake' \in [Intake -> {"open", "completed", "gone"}]
  BY DEF NodeTyped
<1>6. \A t \in Task : taskStatus'[t] # "none" => planStatus'[PlanOf[t]] # "none"
  BY Kinds DEF Delete, Rooted
<1>7. ASSUME NEW i \in Intake, link'[i] # None
      PROVE  planStatus'[link'[i]] # "none" /\ intake'[i] # "gone"
  <2>1. link'[i] = link[i] /\ link[i] \notin S /\ link[i] \in Plan
    BY <1>7 DEF Delete, NodeTyped
  <2>2. planStatus'[link'[i]] # "none" /\ intake[i] # "gone"
    BY <1>7, <2>1 DEF Delete, Rooted
  <2>3. intake'[i] # "gone"
    BY <1>7, <2>1, <2>2 DEF NodeTyped
  <2> QED
    BY <2>2, <2>3
<1>8. Rooted'
  BY <1>6, <1>7 DEF Rooted
<1> QED
  BY <1>1, <1>2, <1>3, <1>4, <1>5, <1>8 DEF NodeTyped, Delete

\* A run begins and nothing else changes but some rows' fields.
LEMMA AppendTyped ==
  ASSUME NodeTyped, Rooted, NEW i \in Intake, NEW t \in Task, Append(i, t)
  PROVE  NodeTyped' /\ Rooted'
<1> DEFINE p == PlanOf[t]
           done == planStatus[p] = "completed"
           ts == [u \in Task |-> IF done /\ u \in TasksOf(p) /\ taskStatus[u] = "completed"
                                 THEN "pending" ELSE taskStatus[u]]
           ln == [line EXCEPT ![t] = "open"]
           asleep == planStatus[p] = "interrupted"
           ps == [passed EXCEPT ![p] = asleep /\ passed[p]]
           status == IF asleep \/ done \/ passed[p] THEN "pending" ELSE planStatus[p]
           synced == Synced(ts, ln, p)
<1>0. p \in Plan /\ link[i] = p /\ planStatus[p] # "none"
  BY Kinds DEF Append, Rooted
<1>1. /\ ts \in [Task -> Rowed] /\ ln \in [Task -> Lines]
      /\ \A u \in Task : ts[u] # "none" => taskStatus[u] # "none"
  BY DEF NodeTyped, Rowed, Lines
<1>2. passed[p] \in BOOLEAN /\ ps \in [Plan -> BOOLEAN] /\ ps[p] \in BOOLEAN
  BY <1>0, Zenon DEF NodeTyped
<1>3. status \in Planned
  BY <1>0 DEF NodeTyped, Planned
<1>4. /\ line' = ln /\ taskStatus' = synced
      /\ planStatus' = [planStatus EXCEPT ![p] = SyncedPlanStatus(synced, p, status, ps[p])]
      /\ passed' = ps
      /\ IF running THEN RunOnce(fails, TRUE) ELSE UNCHANGED <<run, job>>
      /\ UNCHANGED <<running, intakeVars>>
  BY DEF Append
<1> HIDE DEF ts, ln, ps, status
<1>5. /\ synced \in [Task -> Rowed]
      /\ \A u \in Task : synced[u] # "none" => ts[u] # "none" \/ PlanOf[u] = p
      /\ SyncedPlanStatus(synced, p, status, ps[p]) \in Planned \ {"none"}
  BY <1>0, <1>1, <1>2, <1>3, SyncTyped
<1> HIDE DEF synced
<1>6. /\ planStatus' \in [Plan -> Planned]
      /\ \A q \in Plan : planStatus[q] # "none" => planStatus'[q] # "none"
  BY <1>0, <1>4, <1>5 DEF NodeTyped
<1>7. \A u \in Task : taskStatus'[u] # "none" => taskStatus[u] # "none" \/ planStatus'[PlanOf[u]] # "none"
  BY <1>0, <1>1, <1>4, <1>5, <1>6
<1>8. Rooted'
  BY <1>4, <1>6, <1>7, RootedStays DEF intakeVars
<1>9. run' \in Runs /\ JobsTyped'
  BY <1>4, BeginTyped DEF RunOnce
<1> QED
  BY <1>1, <1>2, <1>4, <1>5, <1>6, <1>8, <1>9 DEF NodeTyped, intakeVars

\* Tasks the user runs: one of them, or two of them together.
LEMMA RunTyped ==
  ASSUME NodeTyped, Rooted,
         \/ \E t \in Task : RunTask(t)
         \/ \E S \in Apart : RunBatch(S)
  PROVE  NodeTyped' /\ Rooted'
<1>0. \A r \in Runs, U \in SUBSET Worker, acc \in Task \cup {None} : Working(r, U, acc) \in Runs
  BY DEF Working, Runs
<1>1. \A kind \in {"loop", "task", "batch"} : [IdleRun EXCEPT !.kind = kind] \in Runs
  BY Kinds DEF IdleRun, Runs
<1>2. \A p \in Plan : /\ Activated(p) \in [Plan -> Planned]
                      /\ \A q \in Plan : planStatus[q] # "none" => Activated(p)[q] # "none"
  BY DEF NodeTyped, Activated, Planned
<1>3. ASSUME NEW U \in SUBSET Task, \A u \in U : taskStatus[u] # "none",
             ExecuteTask(taskStatus, U, 0), planStatus' \in [Plan -> Planned],
             \A q \in Plan : planStatus[q] # "none" => planStatus'[q] # "none",
             run' \in Runs, UNCHANGED <<running, passed, intakeVars>>
      PROVE  NodeTyped' /\ Rooted'
  <2>1. /\ taskStatus' \in [Task -> Rowed] /\ line' \in [Task -> Lines] /\ JobsTyped'
        /\ \A u \in Task : taskStatus'[u] # "none" => u \in U \/ taskStatus[u] # "none"
    <3>1. 0 \in 0..Retries /\ taskStatus \in [Task -> Rowed]
      BY Kinds DEF NodeTyped
    <3> QED
      BY <1>3, <3>1, ExecuteTyped
  <2>2. Rooted'
    BY <1>3, <2>1, RootedStays DEF intakeVars
  <2> QED
    BY <1>3, <2>1, <2>2 DEF NodeTyped, intakeVars
<1>4. ASSUME NEW t \in Task, RunTask(t) PROVE NodeTyped' /\ Rooted'
  <2> DEFINE p == PlanOf[t]
             r == [IdleRun EXCEPT !.kind = "task"]
  <2>1. p \in Plan /\ r \in Runs /\ t # None /\ taskStatus[t] # "none" /\ {t} \in SUBSET Worker
    BY <1>1, <1>4, Kinds DEF RunTask, TaskExists
  <2>2. planStatus[p] # "none"
    BY <2>1 DEF Rooted
  <2>3. IdleRun \in Runs
    BY Kinds DEF IdleRun, Runs
  <2>4. CASE Validate(taskStatus, Activated(p), p, t, r, IdleRun) /\ UNCHANGED <<running, link, fails>>
    <3>1. /\ planStatus' \in [Plan -> Planned]
          /\ passed' \in [Plan -> BOOLEAN]
          /\ intake' \in [Intake -> {"open", "completed", "gone"}]
          /\ taskStatus' \in [Task -> Rowed]
          /\ line' \in [Task -> Lines]
          /\ run' \in Runs
          /\ JobsTyped'
          /\ \A u \in Task : taskStatus'[u] # "none" => taskStatus[u] # "none" \/ u = t
          /\ \A q \in Plan : Activated(p)[q] # "none" => planStatus'[q] # "none"
          /\ \A i \in Intake : intake[i] # "gone" => intake'[i] # "gone"
      <4>1. taskStatus \in [Task -> Rowed] /\ Activated(p) \in [Plan -> Planned]
        BY <1>2, <2>1 DEF NodeTyped
      <4> HIDE DEF r
      <4> QED
        BY <2>1, <2>3, <2>4, <4>1, ValidateTyped
    <3>2. Rooted'
      BY <1>2, <2>1, <2>2, <2>4, <3>1, RootedStays
    <3> QED
      BY <2>4, <3>1, <3>2 DEF NodeTyped
  <2>5. CASE /\ ExecuteTask(taskStatus, {t}, 0) /\ planStatus' = Activated(p)
             /\ run' = Working(r, {t}, None)
             /\ UNCHANGED <<passed, intake, running, link, fails>>
    BY <1>0, <1>2, <1>3, <2>1, <2>5 DEF intakeVars
  <2> QED
    BY <1>4, <2>4, <2>5 DEF RunTask
<1>5. ASSUME NEW S \in Apart, RunBatch(S) PROVE NodeTyped' /\ Rooted'
  <2>1. S \in SUBSET Task /\ S \in SUBSET Worker
    BY Kinds
  <2>2. run' \in Runs
    BY <1>0, <1>1, <1>5, <2>1 DEF RunBatch
  <2>3. \A q \in Plan : planStatus'[q] = Activated(q)[q] \/ planStatus'[q] = planStatus[q]
    BY <1>5 DEF RunBatch
  <2>4. planStatus' = [q \in Plan |-> planStatus'[q]]
    BY <1>5 DEF RunBatch
  <2>5. /\ planStatus' \in [Plan -> Planned]
        /\ \A q \in Plan : planStatus[q] # "none" => planStatus'[q] # "none"
    <3>1. \A q \in Plan : planStatus'[q] \in Planned
      BY <1>2, <2>3 DEF NodeTyped
    <3> QED
      BY <1>2, <2>3, <2>4, <3>1
  <2>6. \A u \in S : taskStatus[u] # "none"
    BY <1>5, <2>1 DEF RunBatch
  <2> QED
    BY <1>3, <1>5, <2>1, <2>2, <2>5, <2>6 DEF RunBatch
<1> QED
  BY <1>4, <1>5

\* A loop that begins a run, a generation the user asks for.
LEMMA LoopTyped ==
  ASSUME NodeTyped, Rooted,
         \/ Start \/ Tick \/ Restart
         \/ \E p \in Plan : Recreate(p)
         \/ \E i \in Intake : RetryIntake(i)
  PROVE  NodeTyped' /\ Rooted'
<1>1. CASE Start
  <2>1. run' \in Runs /\ JobsTyped'
    BY <1>1, BeginTyped DEF Start, RunOnce
  <2> QED
    BY <1>1, <2>1, RootedSame DEF Start, NodeTyped, planVars, intakeVars
<1>2. CASE Tick
  <2>1. run' \in Runs /\ JobsTyped'
    BY <1>2, BeginTyped DEF Tick
  <2> QED
    BY <1>2, <2>1, RootedSame DEF Tick, NodeTyped, planVars, intakeVars
<1>3. CASE Restart
  <2>1. JobsTyped'
    BY <1>3, JobTypes, Kinds DEF Restart, JobsTyped
  <2>2. IdleRun \in Runs
    BY Kinds DEF IdleRun, Runs
  <2>3. Rooted'
    BY <1>3, FinishedTyped, RootedStays DEF Restart, intakeVars
  <2> QED
    BY <1>3, <2>1, <2>2, <2>3, FinishedTyped DEF Restart, NodeTyped, intakeVars
<1>4. ASSUME NEW p \in Plan, Recreate(p) PROVE NodeTyped' /\ Rooted'
  <2>1. PICK i \in Intake : Spare(i) # {} /\ job' = [job EXCEPT ![First(Spare(i))] = At("gen", 0)]
    BY <1>4 DEF Recreate
  <2>2. First(Spare(i)) \in Plan /\ At("gen", 0) \in PlanJob
    BY <2>1, SpareIsNew, JobTypes, Kinds DEF PlanStages
  <2>3. JobsTyped'
    BY <2>1, <2>2, PlanJobStays
  <2> QED
    BY <1>4, <2>3, RootedSame DEF Recreate, NodeTyped, planVars, intakeVars
<1>5. ASSUME NEW i \in Intake, RetryIntake(i) PROVE NodeTyped' /\ Rooted'
  <2>1. run' \in Runs /\ JobsTyped'
    BY <1>5, BeginTyped DEF RetryIntake, RunOnce, NodeTyped
  <2>2. fails' \in [Intake -> 0..MaxFails]
    BY <1>5, Kinds DEF RetryIntake, NodeTyped
  <2> QED
    BY <1>5, <2>1, <2>2, RootedSame DEF RetryIntake, NodeTyped, planVars
<1> QED
  BY <1>1, <1>2, <1>3, <1>4, <1>5

\* Every step keeps the types and leaves nothing without its plan.
LEMMA NextTyped == NodeTyped /\ Rooted /\ [Next]_vars => NodeTyped' /\ Rooted'
<1> SUFFICES ASSUME NodeTyped, Rooted, [Next]_vars PROVE NodeTyped' /\ Rooted'
  OBVIOUS
<1>1. CASE vars' = vars
  BY <1>1 DEF vars, NodeTyped, JobsTyped, Rooted
<1>2. ASSUME NEW p \in Plan, DeletePlan(p) PROVE NodeTyped' /\ Rooted'
  BY <1>2, DeleteTyped DEF DeletePlan
<1>3. ASSUME NEW i \in Intake, DeleteIntake(i) PROVE NodeTyped' /\ Rooted'
  BY <1>3, DeleteTyped DEF DeleteIntake
<1>4. ASSUME User PROVE NodeTyped' /\ Rooted'
  BY <1>2, <1>3, <1>4, UserTyped, AppendTyped, RunTyped, LoopTyped DEF User
<1> QED
  BY <1>1, <1>4, TaskStepTyped, PlanStepTyped, RunStepTyped, LoopTyped DEF Next

\* The types hold at first, and the first links are to the first plans.
LEMMA InitTyped == Init => NodeTyped /\ Rooted
<1> SUFFICES ASSUME Init PROVE NodeTyped /\ Rooted
  OBVIOUS
<1>1. JobsTyped
  BY JobTypes, Kinds DEF Init, JobsTyped
<1>2. IdleRun \in Runs
  BY Kinds DEF IdleRun, Runs
<1>3. \A i \in Intake : link[i] # None => link[i] \in FirstPlans
  <2> SUFFICES ASSUME NEW i \in Intake, \E p \in FirstPlans : Source[p] = i
               PROVE  First({p \in FirstPlans : Source[p] = i}) \in FirstPlans
    BY DEF Init
  <2>1. {p \in FirstPlans : Source[p] = i} # {}
    OBVIOUS
  <2>2. {p \in FirstPlans : Source[p] = i} \in SUBSET (Worker \cup Intake)
    BY Kinds
  <2> QED
    BY <2>1, <2>2, FirstIsIn
<1>4. link \in [Intake -> Plan \cup {None}]
  BY <1>3, Kinds DEF Init
<1>5. /\ planStatus \in [Plan -> Planned] /\ passed \in [Plan -> BOOLEAN]
      /\ taskStatus \in [Task -> Rowed] /\ line \in [Task -> Lines]
  BY DEF Init, Planned, Rowed, Lines
<1>6. fails \in [Intake -> 0..MaxFails] /\ intake \in [Intake -> {"open", "completed", "gone"}]
  BY Kinds DEF Init
<1>7. Rooted
  BY <1>3, Kinds DEF Init, Rooted
<1> QED
  BY <1>1, <1>2, <1>4, <1>5, <1>6, <1>7 DEF Init, NodeTyped

\* THEOREM: rows and links never outlive their plan, nor links their intake,
\* and everything keeps its type, whatever is deleted while it is worked on.
THEOREM NodeTypesHold == Spec => []NodeTypeOK
<1>1. NodeTyped /\ Rooted => NodeTypeOK
  <2> SUFFICES ASSUME NodeTyped, Rooted PROVE NodeTypeOK
    OBVIOUS
  <2>1. ASSUME NEW w \in Worker
        PROVE  /\ job[w].at \in Stages
               /\ job[w].child \in {"none", "alive", "cancelled"}
               /\ job[w].tries \in 0..(Retries + Repairs)
               /\ job[w].again \in BOOLEAN
    <3>1. job[w] \in TaskJob \/ job[w] \in PlanJob
      BY DEF NodeTyped, JobsTyped
    <3>2. Retries \in Nat /\ Repairs \in Nat
      BY Kinds
    <3> QED
      BY <3>1, <3>2 DEF TaskJob, PlanJob, TaskStages, PlanStages, CheckStages, Children, Stages
  <2> QED
    BY <2>1 DEF NodeTyped, Rooted, NodeTypeOK, Runs, Planned, Rowed, Lines, TaskExists, PlanExists
<1> QED
  BY <1>1, InitTyped, NextTyped, PTL DEF Spec

\* The types and the roots hold in every state.
LEMMA StaysTyped == Spec => [](NodeTyped /\ Rooted)
BY InitTyped, NextTyped, PTL DEF Spec
-----------------------------------------------------------------------------
(* What runs for a deleted plan *)

\* The plan of a child that was sent no signal is there.
Wanted(w) == job[w].child = "alive" =>
               job[w].at \in {"gen", "genFail"} \/ planStatus[PlanFor(w)] # "none"
AllWanted == \A w \in Worker : Wanted(w)

\* Some workers change their jobs, and no plan goes.
LEMMA WantedMoves ==
  ASSUME AllWanted, NodeTyped,
         \A p \in Plan : planStatus[p] # "none" => planStatus'[p] # "none",
         NEW S \in SUBSET Worker,
         \A w \in Worker \ S : job'[w] = job[w],
         \A w \in S : \/ job'[w].child # "alive"
                      \/ job'[w].at \in {"gen", "genFail"}
                      \/ planStatus'[PlanFor(w)] # "none"
  PROVE  AllWanted'
<1>1. \A w \in Worker : PlanFor(w) \in Plan
  BY Kinds DEF PlanFor
<1>2. ASSUME NEW w \in Worker PROVE Wanted(w)'
  BY <1>1 DEF AllWanted, Wanted, PlanFor
<1> QED
  BY <1>2 DEF AllWanted

\* A worker that returns has no child.
LEMMA WantedReturn ==
  ASSUME AllWanted, NodeTyped, NEW w \in Worker, Return(w),
         \A p \in Plan : planStatus[p] # "none" => planStatus'[p] # "none"
  PROVE  AllWanted'
<1>1. /\ job'[w].child = "none"
      /\ \A v \in Worker \ {w} : job'[v] = job[v]
  BY DEF Return, NoJob, NodeTyped, JobsTyped
<1>2. {w} \in SUBSET Worker
  OBVIOUS
<1>3. \A v \in {w} : \/ job'[v].child # "alive"
                     \/ job'[v].at \in {"gen", "genFail"}
                     \/ planStatus'[PlanFor(v)] # "none"
  BY <1>1
<1> QED
  BY <1>1, <1>2, <1>3, WantedMoves

\* A worker that goes on starts a child only for a plan that is there.
LEMMA WantedStay ==
  ASSUME AllWanted, NodeTyped, NEW w \in Worker, NEW j, job' = [job EXCEPT ![w] = j],
         \/ j.child # "alive"
         \/ j.at \in {"gen", "genFail"}
         \/ planStatus'[PlanFor(w)] # "none",
         \A p \in Plan : planStatus[p] # "none" => planStatus'[p] # "none"
  PROVE  AllWanted'
<1>1. /\ job'[w] = j
      /\ \A v \in Worker \ {w} : job'[v] = job[v]
  BY DEF NodeTyped, JobsTyped
<1>2. {w} \in SUBSET Worker
  OBVIOUS
<1>3. \A v \in {w} : \/ job'[v].child # "alive"
                     \/ job'[v].at \in {"gen", "genFail"}
                     \/ planStatus'[PlanFor(v)] # "none"
  BY <1>1
<1> QED
  BY <1>1, <1>2, <1>3, WantedMoves

\* Where no job changes, plans that stay are enough.
LEMMA WantedSame ==
  ASSUME AllWanted, NodeTyped, job' = job,
         \A p \in Plan : planStatus[p] # "none" => planStatus'[p] # "none"
  PROVE  AllWanted'
<1>1. /\ {} \in SUBSET Worker
      /\ \A w \in Worker \ {} : job'[w] = job[w]
  OBVIOUS
<1> QED
  BY <1>1, WantedMoves

\* A run that begins scans, or generates a plan that is not there yet.
LEMMA WantedBegin ==
  ASSUME AllWanted, NodeTyped, NEW fs, NEW loop \in BOOLEAN,
         BeginRun(fs, loop) \/ UNCHANGED <<run, job>>,
         \A p \in Plan : planStatus[p] # "none" => planStatus'[p] # "none"
  PROVE  AllWanted'
<1>1. \A p \in Plan : p \in Worker
  BY DEF Worker
<1>2. At("gen", 0).at = "gen"
  BY DEF At, NoJob
<1> QED
  BY <1>1, <1>2, RunBegins, WantedSame, WantedStay

\* The agents of tasks that are there start.
LEMMA WantedExecute ==
  ASSUME AllWanted, NodeTyped, NEW ts, NEW S \in SUBSET Task, NEW n, ExecuteTask(ts, S, n),
         \A t \in S : planStatus[PlanOf[t]] # "none",
         \A p \in Plan : planStatus[p] # "none" => planStatus'[p] # "none"
  PROVE  AllWanted'
<1>1. S \in SUBSET Worker
  BY DEF Worker
<1>2. \A w \in Worker \ S : job'[w] = job[w]
  BY DEF ExecuteTask
<1>3. \A w \in S : planStatus'[PlanFor(w)] # "none"
  BY Kinds DEF PlanFor
<1> QED
  BY <1>1, <1>2, <1>3, WantedMoves

\* Plans may go when their children are cancelled with them.
LEMMA WantedCancel ==
  ASSUME AllWanted, NodeTyped, NEW S, Cancel(S),
         \A p \in Plan : planStatus[p] # "none" => p \in S \/ planStatus'[p] # "none"
  PROVE  AllWanted'
<1> SUFFICES ASSUME NEW w \in Worker PROVE Wanted(w)'
  BY DEF AllWanted
<1>1. job[w] \in TaskJob \cup PlanJob
  BY DEF NodeTyped, JobsTyped
<1>2. CASE Listed(w) /\ OpPlan(w) \in S
  <2>1. job'[w] = [job[w] EXCEPT !.child = "cancelled"]
    BY <1>2 DEF Cancel
  <2>2. job'[w].child = "cancelled"
    BY <1>1, <2>1 DEF TaskJob, PlanJob
  <2> QED
    BY <2>2 DEF Wanted
<1>3. CASE ~(Listed(w) /\ OpPlan(w) \in S)
  <2>1. job'[w] = job[w]
    BY <1>3 DEF Cancel
  <2>2. PlanFor(w) \in Plan /\ PlanFor(w)' = PlanFor(w)
    BY Kinds DEF PlanFor
  <2> QED
    BY <1>3, <2>1, <2>2 DEF Wanted, AllWanted, Listed, OpPlan
<1> QED
  BY <1>2, <1>3

\* A validation starts its script only for a plan that is there.
LEMMA WantedValidate ==
  ASSUME AllWanted, NodeTyped, NEW ts, NEW ps \in [Plan -> Planned], NEW p \in Plan, NEW acc,
         NEW r, NEW free, Validate(ts, ps, p, acc, r, free), ps[p] # "none",
         \A q \in Plan : planStatus[q] # "none" => ps[q] # "none"
  PROVE  AllWanted'
<1>1. CASE job' = job /\ planStatus' = [ps EXCEPT ![p] = "completed"]
  BY <1>1, WantedSame
<1>2. CASE planStatus' = ps /\ job' = [job EXCEPT ![p] = At("before", 0)]
  <2>1. p \in Worker /\ PlanFor(p) = p
    BY DEF Worker, PlanFor
  <2> QED
    BY <1>2, <2>1, WantedStay
<1> QED
  BY <1>1, <1>2 DEF Validate, Pass

\* Whatever a step does but deleting, the plans that are there stay.
PlansStay == \A p \in Plan : planStatus[p] # "none" => planStatus'[p] # "none"

\* No step of a task or a plan starts a child for a deleted plan.
LEMMA JobStepWanted ==
  ASSUME AllWanted, NodeTyped, Rooted,
         \/ \E t \in Task : TaskStep(t)
         \/ \E p \in Plan : PlanStep(p)
  PROVE  AllWanted'
<1>1. ASSUME NEW t \in Task, TaskStep(t) PROVE AllWanted'
  <2>0. t \in Worker /\ PlanFor(t) = PlanOf[t] /\ PlanOf[t] \in Plan
    BY Kinds DEF PlanFor
  <2>1. PlansStay
    BY <1>1 DEF TaskStep, CliDone, TaskHookDone, BackoffDone, CompleteTask, planVars, NodeTyped, PlansStay
  <2>2. TaskExists(t) => planStatus[PlanOf[t]] # "none"
    BY DEF Rooted, TaskExists
  <2>3. CASE Return(t)
    BY <2>0, <2>1, <2>3, WantedReturn DEF PlansStay
  <2>4. ASSUME TaskExists(t), NEW j, Stay(t, j) PROVE AllWanted'
    BY <2>0, <2>1, <2>2, <2>4, WantedStay DEF Stay, PlansStay
  <2>5. ASSUME NEW ts, NEW n, TaskExists(t), ExecuteTask(ts, {t}, n) PROVE AllWanted'
    <3>1. {t} \in SUBSET Task /\ \A u \in {t} : planStatus[PlanOf[u]] # "none"
      BY <2>2, <2>5
    <3> QED
      BY <2>1, <2>5, <3>1, WantedExecute DEF PlansStay
  <2> QED
    BY <1>1, <2>3, <2>4, <2>5 DEF TaskStep, CliDone, TaskHookDone, BackoffDone
<1>2. ASSUME NEW p \in Plan, PlanStep(p) PROVE AllWanted'
  <2>0. p \in Worker /\ PlanFor(p) = p
    BY DEF Worker, PlanFor
  <2>1. PlansStay
    BY <1>2 DEF PlanStep, BeforeDone, CheckDone, RepairDone, ValidationHookDone, GenerateOk,
         GenerateFailed, GenerateHookDone, Pass, Fail, planVars, NodeTyped, PlansStay
  <2>3. CASE Return(p)
    BY <2>0, <2>1, <2>3, WantedReturn DEF PlansStay
  <2>4. ASSUME planStatus'[p] # "none", NEW j, Stay(p, j) PROVE AllWanted'
    BY <2>0, <2>1, <2>4, WantedStay DEF Stay, PlansStay
  <2>5. ~Dropped(p) => planStatus[p] # "none"
    BY DEF Dropped, Target, PlanExists
  <2>6. CASE BeforeDone(p)
    BY <2>1, <2>3, <2>4, <2>6 DEF BeforeDone, PlanExists, PlansStay
  <2>7. CASE CheckDone(p)
    BY <2>1, <2>3, <2>4, <2>5, <2>7 DEF CheckDone, PlansStay
  <2>8. CASE RepairDone(p)
    BY <2>1, <2>3, <2>4, <2>5, <2>8 DEF RepairDone, PlansStay
  <2>9. CASE GenerateOk(p)
    <3>1. planStatus'[p] # "none"
      BY <2>9 DEF GenerateOk, NodeTyped
    <3> QED
      BY <2>4, <2>9, <3>1 DEF GenerateOk
  <2>10. CASE GenerateFailed(p)
    <3>1. At("genFail", 0).at = "genFail"
      BY DEF At, NoJob
    <3> QED
      BY <2>0, <2>1, <2>10, <3>1, WantedStay DEF GenerateFailed, Stay, PlansStay
  <2> QED
    BY <1>2, <2>3, <2>6, <2>7, <2>8, <2>9, <2>10 DEF PlanStep, ValidationHookDone, GenerateHookDone
<1> QED
  BY <1>1, <1>2

\* Nor does a step of the run.
LEMMA RunStepWanted ==
  ASSUME AllWanted, NodeTyped, Rooted, RunStep
  PROVE  AllWanted'
<1>1. CASE job' = job /\ PlansStay
  BY <1>1, WantedSame DEF PlansStay
<1>2. ASSUME NEW p \in Runnable, ProcessPlan(p) PROVE AllWanted'
  <2> DEFINE ts == Synced(taskStatus, line, p)
             ps == [planStatus EXCEPT ![p] = SyncedPlanStatus(ts, p, planStatus[p], passed[p])]
             t == First(Pending(ts, p))
  <2>0. p \in Plan /\ planStatus[p] # "none"
    BY DEF Runnable
  <2>1. SyncedPlanStatus(ts, p, planStatus[p], passed[p]) \in Planned \ {"none"}
    BY DEF SyncedPlanStatus, Planned
  <2>2. /\ ps \in [Plan -> Planned] /\ ps[p] # "none"
        /\ \A q \in Plan : planStatus[q] # "none" => ps[q] # "none"
    BY <2>0, <2>1 DEF NodeTyped
  <2>3. Pending(ts, p) # {} => t \in Task /\ PlanOf[t] = p
    <3>1. Pending(ts, p) \in SUBSET (Worker \cup Intake)
      BY DEF Pending, TasksOf, Worker
    <3>2. Pending(ts, p) # {} => t \in Pending(ts, p)
      BY <3>1, FirstIsIn
    <3> QED
      BY <3>2 DEF Pending, TasksOf
  <2> HIDE DEF ts, ps, t
  <2>4. CASE Pending(ts, p) # {} /\ planStatus' = ps /\ ExecuteTask(ts, {t}, 0)
    <3>1. {t} \in SUBSET Task /\ \A u \in {t} : planStatus[PlanOf[u]] # "none"
      BY <2>0, <2>3, <2>4
    <3> QED
      BY <2>2, <2>4, <3>1, WantedExecute
  <2>5. ASSUME NEW acc, Validate(ts, ps, p, acc, run, EndRun(run)) PROVE AllWanted'
    BY <2>0, <2>2, <2>5, WantedValidate
  <2>6. CASE planStatus' = ps /\ job' = job
    BY <2>2, <2>6, WantedSame
  <2> QED
    BY <1>2, <2>4, <2>5, <2>6 DEF ProcessPlan, ts, ps, t
<1>3. CASE RunEnd
  BY <1>1, <1>3 DEF RunEnd, planVars, PlansStay
<1>4. CASE ScanDone
  <2>1. Runnable # {} => First(Runnable) \in Runnable
    BY FirstIsIn DEF Runnable, Worker
  <2> QED
    BY <1>1, <1>2, <1>4, <2>1 DEF ScanDone, planVars, PlansStay
<1> QED
  BY <1>3, <1>4 DEF RunStep

\* Nor does anything the user does, deleting plans included.
LEMMA UserWanted ==
  ASSUME AllWanted, NodeTyped, Rooted, User \/ Tick \/ Restart
  PROVE  AllWanted'
<1>1. ASSUME NEW fs, NEW loop \in BOOLEAN, BeginRun(fs, loop) \/ UNCHANGED <<run, job>>, PlansStay
      PROVE  AllWanted'
  BY <1>1, WantedBegin DEF PlansStay
<1>2. CASE job' = job /\ PlansStay
  BY <1>2, WantedSame DEF PlansStay
<1>3. CASE Start \/ Tick \/ \E i \in Intake : RetryIntake(i)
  BY <1>1, <1>3 DEF Start, Tick, RetryIntake, RunOnce, PlansStay, planVars, NodeTyped
<1>4. ASSUME NEW t \in Task, NEW i \in Intake, Append(i, t) PROVE AllWanted'
  <2>1. PlansStay
    <3>1. \A ts, s, d : SyncedPlanStatus(ts, PlanOf[t], s, d) # "none"
      BY DEF SyncedPlanStatus
    <3>2. \A q \in Plan : planStatus'[q] = planStatus[q] \/ planStatus'[q] # "none"
      BY <1>4, <3>1 DEF Append, NodeTyped
    <3> QED
      BY <3>2 DEF PlansStay
  <2>2. BeginRun(fails, TRUE) \/ UNCHANGED <<run, job>>
    BY <1>4 DEF Append, RunOnce
  <2> QED
    BY <1>1, <2>1, <2>2
<1>5. ASSUME NEW t \in Task, RunTask(t) PROVE AllWanted'
  <2> DEFINE p == PlanOf[t]
             r == [IdleRun EXCEPT !.kind = "task"]
  <2>1. p \in Plan /\ planStatus[p] # "none"
    BY <1>5, Kinds DEF RunTask, TaskExists, Rooted
  <2>2. /\ Activated(p) \in [Plan -> Planned]
        /\ \A q \in Plan : planStatus[q] # "none" => Activated(p)[q] # "none"
    BY DEF NodeTyped, Activated, Planned
  <2>3. CASE Validate(taskStatus, Activated(p), p, t, r, IdleRun)
    BY <2>1, <2>2, <2>3, WantedValidate
  <2>4. CASE ExecuteTask(taskStatus, {t}, 0) /\ planStatus' = Activated(p)
    <3>1. {t} \in SUBSET Task /\ \A u \in {t} : planStatus[PlanOf[u]] # "none"
      BY <2>1
    <3> QED
      BY <2>2, <2>4, <3>1, WantedExecute
  <2> QED
    BY <1>5, <2>3, <2>4 DEF RunTask
<1>6. ASSUME NEW S \in Apart, RunBatch(S) PROVE AllWanted'
  <2>1. PlansStay
    BY <1>6 DEF RunBatch, Activated, NodeTyped, PlansStay
  <2>2. S \in SUBSET Task /\ \A u \in S : planStatus[PlanOf[u]] # "none"
    BY <1>6, Kinds DEF RunBatch, Rooted
  <2> QED
    BY <1>6, <2>1, <2>2, WantedExecute DEF RunBatch, PlansStay
<1>7. ASSUME NEW S, Interrupt(S) PROVE AllWanted'
  <2>1. \A p \in Plan : planStatus[p] # "none" => p \in S \/ planStatus'[p] # "none"
    BY <1>7 DEF Interrupt
  <2> QED
    BY <1>7, <2>1, WantedCancel DEF Interrupt
<1>8. ASSUME NEW S, Delete(S) PROVE AllWanted'
  <2>1. \A p \in Plan : planStatus[p] # "none" => p \in S \/ planStatus'[p] # "none"
    BY <1>8 DEF Delete
  <2> QED
    BY <1>8, <2>1, WantedCancel DEF Delete
<1>9. ASSUME NEW p \in Plan, Recreate(p) PROVE AllWanted'
  <2>1. PICK i \in Intake : Spare(i) # {} /\ job' = [job EXCEPT ![First(Spare(i))] = At("gen", 0)]
    BY <1>9 DEF Recreate
  <2>2. First(Spare(i)) \in Worker
    BY <2>1, SpareIsNew DEF Worker
  <2>3. At("gen", 0).at = "gen" /\ PlansStay
    BY <1>9 DEF At, NoJob, Recreate, planVars, PlansStay
  <2> QED
    BY <2>1, <2>2, <2>3, WantedStay DEF PlansStay
<1>10. CASE Restart
  BY <1>10 DEF Restart, AllWanted, Wanted, NoJob
<1>11. ASSUME NEW p \in Plan, NEW T, NEW S, Reset(p, T, S) PROVE AllWanted'
  BY <1>2, <1>11 DEF Reset, NodeTyped, PlansStay
<1>12. CASE StopLoop \/ \E t \in Task : StopTask(t)
  BY <1>2, <1>12 DEF StopLoop, StopTask, Kill, PlansStay
<1>13. CASE User
  BY <1>3, <1>4, <1>5, <1>6, <1>7, <1>8, <1>9, <1>11, <1>12, <1>13, Kinds
     DEF User, RedoTask, StopPlan, Resume, ReExecute, DeletePlan, InterruptIntake, DeleteIntake
<1> QED
  BY <1>3, <1>10, <1>13

\* THEOREM: no agent, command or script of a deleted plan is left that was not
\* sent a signal, and none is started for it: not by a validation that goes
\* on, nor by a retry, a batch or a run of the loop.
THEOREM NothingForDeleted == Spec => []NoAgentForDeleted
<1>1. Init => AllWanted
  BY DEF Init, AllWanted, Wanted, NoJob
<1>2. AllWanted /\ NodeTyped /\ Rooted /\ [Next]_vars => AllWanted'
  <2> SUFFICES ASSUME AllWanted, NodeTyped, Rooted, [Next]_vars PROVE AllWanted'
    OBVIOUS
  <2>1. CASE vars' = vars
    BY <2>1 DEF vars, AllWanted, Wanted, PlanFor
  <2> QED
    BY <2>1, JobStepWanted, RunStepWanted, UserWanted DEF Next
<1>3. AllWanted => NoAgentForDeleted
  BY DEF AllWanted, Wanted, NoAgentForDeleted, Listed, OpPlan, PlanExists
<1> QED
  BY <1>1, <1>2, <1>3, StaysTyped, PTL DEF Spec
-----------------------------------------------------------------------------
(* Who works for whom *)

\* Every function at work on a task or on a validation is one the holder of
\* the busy flag awaits; the holder awaits one worker, or those of a batch;
\* an acceptance task is remembered only while its plan is validated.
Awaits ==
  /\ \A t \in Task : job[t].at # "none" => run.stage = "work" /\ t \in run.on
  /\ \A p \in Plan : job[p].at \in CheckStages => run.stage = "work" /\ p \in run.on
  /\ run.stage = "work" => \A p \in Plan : p \in run.on => job[p].at \in CheckStages
  /\ run.stage = "work" /\ run.kind # "batch" => \A v, w \in run.on : v = w
  /\ run.stage = "work" /\ run.kind = "batch" => \E S \in Apart : run.on \subseteq S
  /\ run.acc # None => run.stage = "work" /\ run.on = {PlanOf[run.acc]}
  /\ run.stage \in {"generate", "scan"} => run.kind = "loop"

\* A row that runs has its own agent, or a validation that was not cancelled.
Backed ==
  \A t \in Task : taskStatus[t] = "running" =>
    \/ job[t].at = "cli"
    \/ /\ run.acc = t
       /\ job[PlanOf[t]].at \in {"before", "check", "repair"}
       /\ job[PlanOf[t]].child # "cancelled"

\* Nothing works and no row runs unless a run is at work.
LEMMA FreeBefore ==
  ASSUME Awaits, Backed, run.stage # "work"
  PROVE  /\ \A t \in Task : job[t].at = "none" /\ taskStatus[t] # "running"
         /\ \A p \in Plan : job[p].at \notin CheckStages
         /\ run.acc = None
BY Kinds DEF Awaits, Backed

\* When a worker returns, its caller awaits what is left of its workers, or
\* goes on alone.
LEMMA AwaitsReturn ==
  ASSUME Awaits, NodeTyped, NEW w \in Worker, Return(w)
  PROVE  Awaits'
<1>0. /\ job'[w].at = "none"
      /\ \A v \in Worker \ {w} : job'[v] = job[v]
      /\ run' = RunAfter(w)
  BY DEF Return, NoJob, NodeTyped, JobsTyped
<1>1. CASE w \notin run.on
  <2>1. run' = run
    BY <1>0, <1>1 DEF RunAfter
  <2>2. \A p \in Plan : p = w => job[p].at \notin CheckStages
    BY <1>1 DEF Awaits
  <2> QED
    BY <1>0, <1>1, <2>1, <2>2 DEF Awaits, Worker, CheckStages
<1>2. CASE w \in run.on /\ run.on # {w}
  <2>1. run' = [run EXCEPT !.on = run.on \ {w}]
    BY <1>0, <1>2 DEF RunAfter
  <2>2. /\ run'.stage = run.stage /\ run'.on = run.on \ {w}
        /\ run'.kind = run.kind /\ run'.acc = run.acc
    BY <2>1 DEF NodeTyped, Runs
  <2>3. run.acc = None
    BY <1>2 DEF Awaits
  <2> QED
    BY <1>0, <1>2, <2>2, <2>3 DEF Awaits, Worker, CheckStages
<1>3. CASE run.on = {w}
  <2>1. /\ run'.stage \in {"scan", "end", "idle"} /\ run'.acc = None
        /\ run'.stage = "scan" => run'.kind = "loop"
    <3>1. CASE run.stage = "generate"
      <4>1. run' = [run EXCEPT !.stage = "scan", !.on = {}] /\ run.acc = None /\ run.kind = "loop"
        BY <1>0, <1>3, <3>1 DEF RunAfter, Awaits
      <4> QED
        BY <4>1 DEF NodeTyped, Runs
    <3>2. CASE run.stage # "generate"
      BY <1>0, <1>3, <3>2 DEF RunAfter, NodeTyped, Runs, IdleRun
    <3> QED
      BY <3>1, <3>2
  <2>2. \A t \in Task : job'[t].at = "none"
    BY <1>0, <1>3 DEF Awaits, Worker
  <2>3. \A p \in Plan : job'[p].at \notin CheckStages
    BY <1>0, <1>3 DEF Awaits, Worker, CheckStages
  <2> QED
    BY <2>1, <2>2, <2>3 DEF Awaits
<1> QED
  BY <1>1, <1>2, <1>3

\* Jobs go on, or are cancelled, while their caller waits.
LEMMA AwaitsGoOn ==
  ASSUME Awaits, run' = run,
         \A t \in Task : job'[t].at # "none" => job[t].at # "none",
         \A p \in Plan : job'[p].at \in CheckStages <=> job[p].at \in CheckStages
  PROVE  Awaits'
BY DEF Awaits

\* A worker that goes on within its kind of work is still awaited.
LEMMA AwaitsStay ==
  ASSUME Awaits, NodeTyped, NEW w \in Worker, NEW j, job' = [job EXCEPT ![w] = j], run' = run,
         w \in Task => job[w].at # "none",
         w \in Plan => (j.at \in CheckStages <=> job[w].at \in CheckStages)
  PROVE  Awaits'
<1>1. job'[w] = j /\ \A v \in Worker \ {w} : job'[v] = job[v]
  BY DEF NodeTyped, JobsTyped
<1> QED
  BY <1>1, AwaitsGoOn DEF Worker

\* A run that is not at work begins something else.
LEMMA AwaitsElse ==
  ASSUME Awaits, Backed, run.stage # "work", run'.stage # "work", run'.acc = None,
         run'.stage \in {"generate", "scan"} => run'.kind = "loop",
         \A t \in Task : job'[t].at # "none" => job[t].at # "none",
         \A p \in Plan : job'[p].at \in CheckStages => job[p].at \in CheckStages
  PROVE  Awaits'
BY FreeBefore DEF Awaits

\* A run begins only when nobody else holds the busy flag.
LEMMA AwaitsBegin ==
  ASSUME Awaits, Backed, NodeTyped, NEW fs, NEW loop \in BOOLEAN,
         \/ ~Busy /\ BeginRun(fs, loop)
         \/ UNCHANGED <<run, job>>
  PROVE  Awaits'
<1>1. CASE UNCHANGED <<run, job>>
  BY <1>1, AwaitsGoOn
<1>2. CASE ~Busy /\ BeginRun(fs, loop)
  <2>1. run.stage # "work"
    BY <1>2 DEF Busy
  <2>2. CASE job' = job /\ run' = [IdleRun EXCEPT !.loop = loop, !.stage = "scan"]
    <3>1. run'.stage = "scan" /\ run'.acc = None /\ run'.kind = "loop"
      BY <2>2 DEF IdleRun
    <3> QED
      BY <2>1, <2>2, <3>1, AwaitsElse
  <2>3. ASSUME NEW p \in Plan, job' = [job EXCEPT ![p] = At("gen", 0)],
               run' = [IdleRun EXCEPT !.loop = loop, !.stage = "generate", !.on = {p}]
        PROVE  Awaits'
    <3>1. run'.stage = "generate" /\ run'.acc = None /\ run'.kind = "loop"
      BY <2>3 DEF IdleRun
    <3>2. /\ job'[p].at = "gen"
          /\ \A v \in Worker \ {p} : job'[v] = job[v]
      BY <2>3, Kinds DEF NodeTyped, JobsTyped, At, NoJob
    <3>3. /\ \A t \in Task : job'[t].at # "none" => job[t].at # "none"
          /\ \A q \in Plan : job'[q].at \in CheckStages => job[q].at \in CheckStages
      BY <3>2, Kinds DEF CheckStages
    <3> QED
      BY <2>1, <3>1, <3>3, AwaitsElse
  <2> QED
    BY <1>2, <2>2, <2>3, RunBegins
<1> QED
  BY <1>1, <1>2

\* A run starts the agents of S: one task, or the tasks of a batch.
LEMMA AwaitsExecute ==
  ASSUME Awaits, Backed, NodeTyped, run.stage # "work",
         NEW ts, NEW S \in SUBSET Task, ExecuteTask(ts, S, 0),
         NEW r \in Runs, run' = Working(r, S, None),
         r.kind = "batch" => S \in Apart,
         r.kind # "batch" => \A t, u \in S : t = u
  PROVE  Awaits'
<1>1. run'.stage = "work" /\ run'.on = S /\ run'.acc = None /\ run'.kind = r.kind
  BY DEF Working, Runs
<1>2. /\ \A p \in Plan : job'[p] = job[p]
      /\ \A t \in Task : t \notin S => job'[t] = job[t]
  BY Kinds DEF ExecuteTask
<1>3. /\ \A t \in Task : job[t].at = "none"
      /\ \A p \in Plan : job[p].at \notin CheckStages
  BY FreeBefore
<1>4. \A p \in Plan : p \notin S
  BY Kinds
<1> QED
  BY <1>1, <1>2, <1>3, <1>4 DEF Awaits

\* A run validates a plan, alone or for an acceptance task, or is done with it.
LEMMA AwaitsValidate ==
  ASSUME Awaits, Backed, NodeTyped, run.stage # "work",
         NEW ts, NEW ps, NEW p \in Plan, NEW acc \in Task \cup {None},
         acc # None => PlanOf[acc] = p,
         NEW r \in Runs, r.kind # "batch", NEW free \in Runs, free.stage \in {"idle", "end"}, free.acc = None,
         Validate(ts, ps, p, acc, r, free)
  PROVE  Awaits'
<1>1. CASE run' = free /\ job' = job
  BY <1>1, AwaitsElse
<1>2. CASE job' = [job EXCEPT ![p] = At("before", 0)] /\ run' = Working(r, {p}, acc)
  <2>1. run'.stage = "work" /\ run'.on = {p} /\ run'.acc = acc /\ run'.kind = r.kind
    BY <1>2 DEF Working, Runs
  <2>2. /\ job'[p].at = "before"
        /\ \A v \in Worker \ {p} : job'[v] = job[v]
    BY <1>2 DEF NodeTyped, JobsTyped, At, NoJob, Worker
  <2>3. /\ \A t \in Task : job[t].at = "none"
        /\ \A q \in Plan : job[q].at \notin CheckStages
    BY FreeBefore
  <2>4. \A t \in Task : job'[t] = job[t]
    BY <2>2, Kinds
  <2>5. \A q \in Plan : q # p => job'[q] = job[q]
    BY <2>2 DEF Worker
  <2> QED
    BY <2>1, <2>2, <2>3, <2>4, <2>5 DEF Awaits, CheckStages
<1> QED
  BY <1>1, <1>2 DEF Validate

\* Rows go on with the jobs they had, or stop running.
LEMMA BackedKeeps ==
  ASSUME Backed,
         \A t \in Task : taskStatus'[t] = "running" =>
           /\ taskStatus[t] = "running"
           /\ job[t].at = "cli" => job'[t].at = "cli"
           /\ run.acc = t => /\ run'.acc = t
                             /\ job'[PlanOf[t]].at = job[PlanOf[t]].at
                             /\ job'[PlanOf[t]].child = job[PlanOf[t]].child
  PROVE  Backed'
BY DEF Backed

\* No row is left running when nothing works.
LEMMA BackedNone ==
  ASSUME \A t \in Task : taskStatus'[t] # "running"
  PROVE  Backed'
BY DEF Backed

\* Rows are set running together with the agents that work on them.
LEMMA BackedExecute ==
  ASSUME Backed, NodeTyped, run.acc = None, NEW ts, NEW S \in SUBSET Task, NEW n, ExecuteTask(ts, S, n),
         \A t \in Task : ts[t] = "running" => taskStatus[t] = "running"
  PROVE  Backed'
<1>1. \A t \in S : job'[t].at = "cli"
  BY DEF ExecuteTask, Guarded, At, NoJob, Worker
<1>2. \A t \in Task \ S : job'[t] = job[t] /\ taskStatus'[t] = ts[t]
  BY DEF ExecuteTask, Worker
<1>3. \A t \in Task \ S : taskStatus'[t] = "running" => job[t].at = "cli"
  BY <1>2, Kinds DEF Backed
<1> QED
  BY <1>1, <1>2, <1>3 DEF Backed

\* The row of an acceptance task runs with the validation it stands for.
LEMMA BackedValidate ==
  ASSUME NodeTyped, NEW ts \in [Task -> Rowed], NEW ps, NEW p \in Plan, NEW acc \in Task \cup {None},
         acc # None => PlanOf[acc] = p, NEW r \in Runs, NEW free,
         Validate(ts, ps, p, acc, r, free),
         \A t \in Task : ts[t] # "running"
  PROVE  Backed'
<1> DEFINE started == IF acc = None THEN ts ELSE [ts EXCEPT ![acc] = "running"]
<1>1. CASE Pass(started, ps, p, acc)
  <2>1. \A t \in Task : taskStatus'[t] # "running"
    BY <1>1, Kinds DEF Pass
  <2> QED
    BY <2>1, BackedNone
<1>2. CASE /\ taskStatus' = started
           /\ job' = [job EXCEPT ![p] = At("before", 0)]
           /\ run' = Working(r, {p}, acc)
  <2>1. run'.acc = acc /\ job'[p].at = "before" /\ job'[p].child = "alive"
    BY <1>2 DEF Working, Runs, At, NoJob, NodeTyped, JobsTyped, Worker
  <2>2. \A t \in Task : taskStatus'[t] = "running" => t = acc
    BY <1>2
  <2>3. acc \in Task => PlanOf[acc] = p
    BY Kinds
  <2> QED
    BY <2>1, <2>2, <2>3 DEF Backed
<1> QED
  BY <1>1, <1>2 DEF Validate

\* The steps of a task.
LEMMA TaskStepBacked ==
  ASSUME Awaits, Backed, NodeTyped, Rooted, NEW t \in Task, TaskStep(t)
  PROVE  Awaits' /\ Backed'
<1>0. t \in Worker /\ t \notin Plan /\ job[t].at # "none"
  BY Kinds DEF TaskStep, CliDone, TaskHookDone, BackoffDone
<1>1. run.acc = None
  BY <1>0, Kinds DEF Awaits, NodeTyped, Runs
<1>2. job[t].at # "cli" => taskStatus[t] # "running"
  BY <1>1, Kinds DEF Backed
<1>3. \A u \in Task : taskStatus[u] = "running" => job[u].at = "cli"
  BY <1>1, Kinds DEF Backed
<1>4. ASSUME NEW j, job' = [job EXCEPT ![t] = j],
             \A u \in Task : taskStatus'[u] = "running" => u # t /\ taskStatus[u] = "running"
      PROVE  Backed'
  <2>1. \A u \in Task : u # t => job'[u] = job[u]
    BY <1>4 DEF NodeTyped, JobsTyped, Worker
  <2> QED
    BY <1>3, <1>4, <2>1 DEF Backed
<1>5. ASSUME \A u \in Task : taskStatus'[u] = "running" => u # t /\ taskStatus[u] = "running",
             Return(t) \/ \E j : Stay(t, j)
      PROVE  Awaits' /\ Backed'
  <2>1. CASE Return(t)
    BY <1>0, <1>4, <1>5, <2>1, AwaitsReturn DEF Return
  <2>2. ASSUME NEW j, Stay(t, j) PROVE Awaits' /\ Backed'
    BY <1>0, <1>4, <1>5, <2>2, AwaitsStay DEF Stay
  <2> QED
    BY <1>5, <2>1, <2>2
<1>6. CASE CliDone(t)
  <2>1. \A u \in Task : taskStatus'[u] = "running" => u # t /\ taskStatus[u] = "running"
    BY <1>6 DEF CliDone, CompleteTask, Finished, NodeTyped, planVars, TaskExists
  <2> QED
    BY <1>5, <1>6, <2>1 DEF CliDone
<1>7. CASE TaskHookDone(t)
  BY <1>2, <1>5, <1>7 DEF TaskHookDone, planVars
<1>8. CASE BackoffDone(t)
  <2>1. CASE Return(t) /\ UNCHANGED planVars
    BY <1>2, <1>5, <1>8, <2>1 DEF BackoffDone, planVars
  <2>2. CASE ExecuteTask(taskStatus, {t}, job[t].tries) /\ run' = run
    <3>1. {t} \in SUBSET Task
      OBVIOUS
    <3>2. \A w \in Worker : w # t => job'[w] = job[w]
      BY <2>2 DEF ExecuteTask
    <3>3. Awaits'
      BY <1>0, <2>2, <3>2, AwaitsGoOn DEF Worker
    <3> QED
      BY <1>1, <2>2, <3>1, <3>3, BackedExecute
  <2> QED
    BY <1>8, <2>1, <2>2 DEF BackoffDone
<1> QED
  BY <1>6, <1>7, <1>8 DEF TaskStep

\* The steps of a plan.
LEMMA PlanStepBacked ==
  ASSUME Awaits, Backed, NodeTyped, Rooted, NEW p \in Plan, PlanStep(p)
  PROVE  Awaits' /\ Backed'
<1>0. p \in Worker /\ p \notin Task
  BY Kinds DEF Worker
<1>1. \A t \in Task : run.acc = t => job[t].at = "none"
  BY Kinds DEF Awaits
<1>2. \A t \in Task : run.acc = t /\ job[p].at \in CheckStages => PlanOf[t] = p
  BY Kinds DEF Awaits
<1>3. ASSUME NEW j, job' = [job EXCEPT ![p] = j]
      PROVE  /\ \A w \in Worker : w # p => job'[w] = job[w]
             /\ job'[p] = j
  BY <1>0, <1>3 DEF NodeTyped, JobsTyped
<1>4. ASSUME Return(p), job[p].at \in CheckStages,
             \A t \in Task : taskStatus'[t] = "running" => run.acc # t /\ taskStatus[t] = "running"
      PROVE  Awaits' /\ Backed'
  <2>1. \A t \in Task : job'[t] = job[t]
    BY <1>0, <1>3, <1>4 DEF Return, Worker
  <2>2. Backed'
    BY <1>4, <2>1 DEF Backed
  <2> QED
    BY <1>0, <1>4, <2>2, AwaitsReturn
<1>5. ASSUME Return(p) \/ \E j : Stay(p, j) /\ j.at \notin CheckStages,
             job[p].at \notin CheckStages,
             \A t \in Task : taskStatus'[t] = "running" => taskStatus[t] = "running"
      PROVE  Awaits' /\ Backed'
  <2>1. \A w \in Worker : w # p => job'[w] = job[w]
    BY <1>3, <1>5 DEF Return, Stay
  <2>2. Awaits'
    BY <1>0, <1>5, AwaitsReturn, AwaitsStay DEF Stay
  <2>3. \A t \in Task : run.acc = t => run' = run
    <3>1. \A t \in Task : run.acc = t => p \notin run.on
      BY <1>5, Kinds DEF Awaits
    <3> QED
      BY <1>5, <3>1 DEF Return, Stay, RunAfter
  <2>4. \A t \in Task : job[PlanOf[t]].at \in CheckStages => job'[PlanOf[t]] = job[PlanOf[t]]
    BY <1>5, <2>1, Kinds DEF Worker
  <2>5. Backed'
    <3> SUFFICES ASSUME NEW t \in Task, taskStatus'[t] = "running"
                 PROVE  \/ job'[t].at = "cli"
                        \/ /\ run'.acc = t
                           /\ job'[PlanOf[t]].at \in {"before", "check", "repair"}
                           /\ job'[PlanOf[t]].child # "cancelled"
      BY DEF Backed
    <3>1. job'[t] = job[t]
      BY <1>0, <2>1 DEF Worker
    <3> QED
      BY <1>5, <2>3, <2>4, <3>1 DEF Backed, CheckStages
  <2> QED
    BY <2>2, <2>5
<1>6. ASSUME NEW j, Stay(p, j), j.at \in CheckStages, job[p].at \in CheckStages,
             \A t \in Task : taskStatus'[t] = "running" =>
               /\ taskStatus[t] = "running"
               /\ run.acc = t => j.at # "vfail" /\ j.child # "cancelled"
      PROVE  Awaits' /\ Backed'
  <2>1. (\A w \in Worker : w # p => job'[w] = job[w]) /\ job'[p] = j
    BY <1>3, <1>6 DEF Stay
  <2>2. Awaits'
    BY <1>0, <1>6, AwaitsStay DEF Stay
  <2>3. Backed'
    <3> SUFFICES ASSUME NEW t \in Task, taskStatus'[t] = "running"
                 PROVE  \/ job'[t].at = "cli"
                        \/ /\ run'.acc = t
                           /\ job'[PlanOf[t]].at \in {"before", "check", "repair"}
                           /\ job'[PlanOf[t]].child # "cancelled"
      BY DEF Backed
    <3>1. job'[t] = job[t] /\ run' = run
      BY <1>0, <1>6, <2>1 DEF Worker, Stay
    <3> QED
      BY <1>2, <1>6, <2>1, <3>1 DEF Backed, CheckStages
  <2> QED
    BY <2>2, <2>3
<1>7. Dropped(p) /\ job[p].at \in CheckStages =>
        \A t \in Task : taskStatus[t] = "running" => run.acc # t
  <2> SUFFICES ASSUME Dropped(p), job[p].at \in CheckStages, NEW t \in Task,
                      taskStatus[t] = "running", run.acc = t
               PROVE  FALSE
    OBVIOUS
  <2>1. PlanOf[t] = p /\ job[t].at = "none"
    BY <1>1, <1>2
  <2>2. job[p].child # "cancelled"
    BY <2>1 DEF Backed
  <2> QED
    BY <2>1, <2>2 DEF Dropped, Target, Rooted, PlanExists, TaskExists
<1>8. \A t \in Task : job[p].at = "vfail" /\ taskStatus[t] = "running" => run.acc # t
  BY <1>1, <1>2 DEF Backed, CheckStages
<1>9. CASE BeforeDone(p)
  <2>1. ~PlanExists(p) => \A t \in Task : taskStatus[t] = "running" => run.acc # t
    BY <1>7, <1>9 DEF BeforeDone, Dropped, Target, CheckStages
  <2>2. At("check", 0).at = "check" /\ At("check", 0).child = "alive"
    BY DEF At, NoJob
  <2>3. job[p].at \in CheckStages
    BY <1>9 DEF BeforeDone, CheckStages
  <2>4. CASE ~PlanExists(p) /\ Return(p) /\ UNCHANGED planVars
    BY <1>4, <2>1, <2>3, <2>4 DEF planVars
  <2>5. CASE taskStatus' = AccFailed /\ Return(p)
    BY <1>4, <2>3, <2>5 DEF AccFailed, Finished
  <2>6. CASE Stay(p, At("check", 0)) /\ UNCHANGED planVars
    BY <1>6, <2>2, <2>3, <2>6 DEF planVars, CheckStages
  <2> QED
    BY <1>9, <2>4, <2>5, <2>6 DEF BeforeDone
<1>10. CASE CheckDone(p)
  <2>1. job[p].at \in CheckStages
    BY <1>10 DEF CheckDone, CheckStages
  <2>2. CASE Dropped(p) /\ Return(p) /\ UNCHANGED planVars
    BY <1>4, <1>7, <2>1, <2>2 DEF planVars
  <2>3. CASE ~Dropped(p) /\ Pass(taskStatus, planStatus, p, run.acc) /\ Return(p)
    <3>1. \A t \in Task : taskStatus'[t] = "running" => run.acc # t /\ taskStatus[t] = "running"
      BY <2>3, Kinds DEF Pass, NodeTyped, Dropped, Target, TaskExists
    <3> QED
      BY <1>4, <2>1, <2>3, <3>1
  <2>4. CASE Stay(p, Guarded("repair", job[p].tries + 1, p, line)) /\ UNCHANGED taskStatus
    <3>1. /\ Guarded("repair", job[p].tries + 1, p, line).at = "repair"
          /\ Guarded("repair", job[p].tries + 1, p, line).child = "alive"
      BY DEF Guarded, At, NoJob
    <3> QED
      BY <1>6, <2>1, <2>4, <3>1 DEF CheckStages
  <2>5. CASE taskStatus' = AccFailed /\ Stay(p, At("vfail", 0))
    <3>1. At("vfail", 0).at = "vfail" /\ At("vfail", 0).child = "alive"
      BY DEF At, NoJob
    <3> QED
      BY <1>6, <2>1, <2>5, <3>1 DEF CheckStages, AccFailed, Finished
  <2> QED
    BY <1>10, <2>2, <2>3, <2>4, <2>5 DEF CheckDone
<1>11. CASE RepairDone(p)
  <2>1. job[p].at \in CheckStages /\ taskStatus' = taskStatus
    BY <1>11 DEF RepairDone, CheckStages
  <2>2. CASE Dropped(p) /\ Return(p)
    BY <1>4, <1>7, <2>1, <2>2
  <2>3. CASE Stay(p, At("check", job[p].tries))
    <3>1. At("check", job[p].tries).at = "check" /\ At("check", job[p].tries).child = "alive"
      BY DEF At, NoJob
    <3> QED
      BY <1>6, <2>1, <2>3, <3>1 DEF CheckStages
  <2> QED
    BY <1>11, <2>2, <2>3 DEF RepairDone
<1>12. CASE ValidationHookDone(p)
  BY <1>4, <1>8, <1>12 DEF ValidationHookDone, CheckStages, planVars
<1>13. CASE GenerateOk(p)
  <2>1. At("planAfter", 0).at \notin CheckStages
    BY DEF At, NoJob, CheckStages
  <2>2. \A t \in Task : taskStatus'[t] = "running" => taskStatus[t] = "running"
    BY <1>13 DEF GenerateOk
  <2> QED
    BY <1>5, <1>13, <2>1, <2>2 DEF GenerateOk, CheckStages
<1>14. CASE GenerateFailed(p)
  <2>1. At("genFail", 0).at \notin CheckStages
    BY DEF At, NoJob, CheckStages
  <2> QED
    BY <1>5, <1>14, <2>1 DEF GenerateFailed, CheckStages, planVars
<1>15. CASE GenerateHookDone(p)
  BY <1>5, <1>15 DEF GenerateHookDone, CheckStages, planVars
<1> QED
  BY <1>9, <1>10, <1>11, <1>12, <1>13, <1>14, <1>15 DEF PlanStep

\* The steps of the run itself.
LEMMA RunStepBacked ==
  ASSUME Awaits, Backed, NodeTyped, Rooted, RunStep
  PROVE  Awaits' /\ Backed'
<1>0. run.stage # "work"
  BY DEF RunStep, ScanDone, RunEnd
<1>1. /\ \A t \in Task : job[t].at = "none" /\ taskStatus[t] # "running"
      /\ \A p \in Plan : job[p].at \notin CheckStages
      /\ run.acc = None
  BY <1>0, FreeBefore
<1>2. /\ EndRun(run) \in Runs /\ EndRun(run).stage = "end" /\ EndRun(run).acc = None
      /\ IdleRun.stage = "idle" /\ IdleRun.acc = None
  BY Kinds DEF EndRun, IdleRun, NodeTyped, Runs
<1>3. CASE run' \in {EndRun(run), IdleRun} /\ job' = job /\ \A t \in Task : taskStatus'[t] # "running"
  BY <1>0, <1>2, <1>3, AwaitsElse, BackedNone
<1>4. ASSUME NEW p \in Runnable, run.stage = "scan", ProcessPlan(p), run.kind = "loop"
      PROVE  Awaits' /\ Backed'
  <2> DEFINE ts == Synced(taskStatus, line, p)
             ps == [planStatus EXCEPT ![p] = SyncedPlanStatus(ts, p, planStatus[p], passed[p])]
             t == First(Pending(ts, p))
  <2>0. p \in Plan
    BY DEF Runnable
  <2>1. ts \in [Task -> Rowed] /\ \A u \in Task : ts[u] # "running"
    BY <1>1, <2>0, SyncTyped DEF NodeTyped
  <2>2. Pending(ts, p) # {} => t \in Task /\ PlanOf[t] = p
    <3>1. Pending(ts, p) \in SUBSET (Worker \cup Intake)
      BY DEF Pending, TasksOf, Worker
    <3>2. Pending(ts, p) # {} => t \in Pending(ts, p)
      BY <3>1, FirstIsIn
    <3> QED
      BY <3>2 DEF Pending, TasksOf
  <2> HIDE DEF ts, ps, t
  <2>3. run \in Runs
    BY DEF NodeTyped
  <2>4. CASE Pending(ts, p) # {} /\ ExecuteTask(ts, {t}, 0) /\ run' = Working(run, {t}, None)
    <3>1. {t} \in SUBSET Task
      BY <2>2, <2>4
    <3>2. Awaits'
      BY <1>0, <1>4, <2>3, <2>4, <3>1, AwaitsExecute
    <3> QED
      BY <1>1, <2>1, <2>4, <3>1, <3>2, BackedExecute
  <2>5. ASSUME NEW acc \in Task \cup {None}, acc # None => PlanOf[acc] = p,
               Validate(ts, ps, p, acc, run, EndRun(run))
        PROVE  Awaits' /\ Backed'
    <3>1. run.kind # "batch" /\ EndRun(run).stage \in {"idle", "end"}
      BY <1>2, <1>4
    <3>2. Awaits'
      BY <1>0, <1>2, <2>0, <2>3, <2>5, <3>1, AwaitsValidate
    <3>3. Backed'
      BY <2>0, <2>1, <2>3, <2>5, BackedValidate
    <3> QED
      BY <3>2, <3>3
  <2>6. CASE taskStatus' = ts /\ run' = EndRun(run) /\ job' = job
    BY <1>3, <2>1, <2>6
  <2>7. t \in Task => t # None
    BY Kinds
  <2> QED
    BY <1>4, <2>2, <2>4, <2>5, <2>6, <2>7 DEF ProcessPlan, ts, ps, t
<1>5. CASE RunEnd
  BY <1>1, <1>3, <1>5 DEF RunEnd, planVars
<1>6. CASE ScanDone
  <2>1. Runnable # {} => First(Runnable) \in Runnable
    BY FirstIsIn DEF Runnable, Worker
  <2>2. run.stage = "scan" /\ run.kind = "loop"
    BY <1>6 DEF ScanDone, Awaits
  <2>3. CASE run' = EndRun(run) /\ UNCHANGED <<job, planVars, intake>>
    BY <1>1, <1>3, <2>3 DEF planVars
  <2> QED
    BY <1>4, <1>6, <2>1, <2>2, <2>3 DEF ScanDone
<1> QED
  BY <1>5, <1>6 DEF RunStep

\* What the user does.
LEMMA UserBacked ==
  ASSUME Awaits, Backed, NodeTyped, Rooted, User \/ Tick \/ Restart
  PROVE  Awaits' /\ Backed'
<1>1. ASSUME NEW fs, NEW loop \in BOOLEAN,
             (~Busy /\ BeginRun(fs, loop)) \/ UNCHANGED <<run, job>>,
             \A t \in Task : taskStatus'[t] = "running" => taskStatus[t] = "running"
      PROVE  Awaits' /\ Backed'
  <2>1. Awaits'
    BY <1>1, AwaitsBegin
  <2>2. CASE UNCHANGED <<run, job>>
    BY <1>1, <2>1, <2>2 DEF Backed
  <2>3. CASE ~Busy
    <3>1. \A t \in Task : taskStatus[t] # "running"
      BY <2>3, FreeBefore DEF Busy
    <3> QED
      BY <1>1, <2>1, <3>1 DEF Backed
  <2> QED
    BY <1>1, <2>1, <2>2, <2>3
<1>2. CASE /\ UNCHANGED <<run, job>>
           /\ \A t \in Task : taskStatus'[t] = "running" => taskStatus[t] = "running"
  BY <1>1, <1>2
<1>3. CASE Start \/ Tick \/ \E i \in Intake : RetryIntake(i)
  BY <1>1, <1>3 DEF Start, Tick, RetryIntake, RunOnce, planVars, NodeTyped
<1>4. ASSUME NEW t \in Task, NEW i \in Intake, Append(i, t) PROVE Awaits' /\ Backed'
  <2>1. (~Busy /\ BeginRun(fails, TRUE)) \/ UNCHANGED <<run, job>>
    BY <1>4 DEF Append, RunOnce
  <2>2. \A u \in Task : taskStatus'[u] = "running" => taskStatus[u] = "running"
    BY <1>4 DEF Append, Synced, SyncedTaskStatus, NodeTyped
  <2> QED
    BY <1>1, <2>1, <2>2
<1>5. ASSUME NEW t \in Task, RunTask(t) PROVE Awaits' /\ Backed'
  <2> DEFINE p == PlanOf[t]
             r == [IdleRun EXCEPT !.kind = "task"]
  <2>1. /\ p \in Plan /\ t # None /\ run.stage # "work"
        /\ r \in Runs /\ r.kind = "task"
        /\ IdleRun \in Runs /\ IdleRun.stage = "idle" /\ IdleRun.acc = None
    BY <1>5, Kinds DEF RunTask, Busy, IdleRun, Runs
  <2>2. run.acc = None /\ \A u \in Task : taskStatus[u] # "running"
    BY <2>1, FreeBefore
  <2>3. taskStatus \in [Task -> Rowed]
    BY DEF NodeTyped
  <2> HIDE DEF r
  <2>4. CASE Validate(taskStatus, Activated(p), p, t, r, IdleRun)
    <3>1. Awaits'
      BY <2>1, <2>4, AwaitsValidate
    <3>2. Backed'
      BY <2>1, <2>2, <2>3, <2>4, BackedValidate
    <3> QED
      BY <3>1, <3>2
  <2>5. CASE ExecuteTask(taskStatus, {t}, 0) /\ run' = Working(r, {t}, None)
    <3>1. {t} \in SUBSET Task
      OBVIOUS
    <3>2. Awaits'
      BY <2>1, <2>5, <3>1, AwaitsExecute
    <3> QED
      BY <2>2, <2>5, <3>1, <3>2, BackedExecute
  <2> QED
    BY <1>5, <2>4, <2>5 DEF RunTask, r
<1>6. ASSUME NEW S \in Apart, RunBatch(S) PROVE Awaits' /\ Backed'
  <2> DEFINE r == [IdleRun EXCEPT !.kind = "batch"]
  <2>1. /\ S \in SUBSET Task /\ run.stage # "work"
        /\ r \in Runs /\ r.kind = "batch"
    BY <1>6, Kinds DEF RunBatch, Busy, IdleRun, Runs
  <2> HIDE DEF r
  <2>2. ExecuteTask(taskStatus, S, 0) /\ run' = Working(r, S, None)
    BY <1>6 DEF RunBatch, r
  <2>3. Awaits'
    BY <2>1, <2>2, AwaitsExecute
  <2>4. run.acc = None
    BY <2>1, FreeBefore
  <2> QED
    BY <2>1, <2>2, <2>3, <2>4, BackedExecute
<1>7. ASSUME NEW S, Cancel(S), run' = run,
             \A t \in Task : taskStatus'[t] = "running" => PlanOf[t] \notin S /\ taskStatus[t] = "running"
      PROVE  Awaits' /\ Backed'
  <2>1. \A w \in Worker : /\ job'[w].at = job[w].at
                          /\ job'[w] = job[w] \/ (Listed(w) /\ OpPlan(w) \in S)
    <3> SUFFICES ASSUME NEW w \in Worker
                 PROVE  /\ job'[w].at = job[w].at
                        /\ job'[w] = job[w] \/ (Listed(w) /\ OpPlan(w) \in S)
      OBVIOUS
    <3>1. job[w] \in TaskJob \/ job[w] \in PlanJob
      BY DEF NodeTyped, JobsTyped
    <3> QED
      BY <1>7, <3>1 DEF Cancel, TaskJob, PlanJob
  <2>2. Awaits'
    <3>1. \A w \in Worker : job'[w].at = job[w].at
      BY <2>1
    <3> QED
      BY <1>7, <3>1, AwaitsGoOn DEF Worker
  <2>3. ASSUME NEW t \in Task, taskStatus'[t] = "running", run.acc = t,
               job[PlanOf[t]].at \in {"before", "check", "repair"}
        PROVE  job'[PlanOf[t]] = job[PlanOf[t]]
    <3>1. PlanOf[t] \in Plan /\ PlanOf[t] \in Worker /\ PlanOf[t] \notin S
      BY <1>7, <2>3, Kinds
    <3>2. OpPlan(PlanOf[t]) = PlanOf[t]
      BY <2>3, <3>1 DEF OpPlan, PlanFor
    <3> QED
      BY <2>1, <3>1, <3>2
  <2>4. Backed'
    <3>1. \A t \in Task : job'[t].at = job[t].at
      BY <2>1 DEF Worker
    <3> QED
      BY <1>7, <2>3, <3>1 DEF Backed
  <2> QED
    BY <2>2, <2>4
<1>8. ASSUME NEW S, Interrupt(S) PROVE Awaits' /\ Backed'
  <2>1. \A t \in Task : taskStatus'[t] = "running" => PlanOf[t] \notin S /\ taskStatus[t] = "running"
    BY <1>8 DEF Interrupt
  <2> QED
    BY <1>7, <1>8, <2>1 DEF Interrupt
<1>9. ASSUME NEW S, Delete(S) PROVE Awaits' /\ Backed'
  <2>1. \A t \in Task : taskStatus'[t] = "running" => PlanOf[t] \notin S /\ taskStatus[t] = "running"
    BY <1>9 DEF Delete
  <2> QED
    BY <1>7, <1>9, <2>1 DEF Delete
<1>10. ASSUME NEW p \in Plan, Recreate(p) PROVE Awaits' /\ Backed'
  <2>1. PICK i \in Intake : Spare(i) # {} /\ job' = [job EXCEPT ![First(Spare(i))] = At("gen", 0)]
    BY <1>10 DEF Recreate
  <2> DEFINE q == First(Spare(i))
  <2>2. q \in Plan /\ q \in Worker /\ q \notin Task /\ job[q].at = "none"
    BY <2>1, SpareIsNew, Kinds
  <2> HIDE DEF q
  <2>3. At("gen", 0).at = "gen"
    BY DEF At, NoJob
  <2>4. run' = run /\ taskStatus' = taskStatus /\ job' = [job EXCEPT ![q] = At("gen", 0)]
    BY <1>10, <2>1 DEF Recreate, planVars, q
  <2>5. Awaits'
    BY <2>2, <2>3, <2>4, AwaitsStay DEF CheckStages
  <2>6. \A w \in Worker : w # q => job'[w] = job[w]
    BY <2>4
  <2>7. \A t \in Task : job'[t] = job[t] /\ (PlanOf[t] # q => job'[PlanOf[t]] = job[PlanOf[t]])
    BY <2>2, <2>6, Kinds
  <2> QED
    BY <2>2, <2>4, <2>5, <2>7 DEF Backed
<1>11. CASE Restart
  <2>1. IdleRun.stage = "idle" /\ IdleRun.acc = None /\ NoJob.at = "none"
    BY DEF IdleRun, NoJob
  <2>2. \A t \in Task : taskStatus'[t] # "running"
    BY <1>11 DEF Restart, Finished
  <2>3. run' = IdleRun /\ \A w \in Worker : job'[w] = NoJob
    BY <1>11 DEF Restart
  <2> QED
    BY <2>1, <2>2, <2>3, BackedNone DEF Awaits, CheckStages, Worker
<1>12. ASSUME NEW p, NEW T, NEW S, Reset(p, T, S) PROVE Awaits' /\ Backed'
  BY <1>2, <1>12 DEF Reset
<1>13. CASE StopLoop \/ \E t \in Task : StopTask(t)
  BY <1>2, <1>13 DEF StopLoop, StopTask, Kill, Finished
<1>14. CASE User
  BY <1>3, <1>4, <1>5, <1>6, <1>8, <1>9, <1>10, <1>12, <1>13, <1>14
     DEF User, RedoTask, StopPlan, Resume, ReExecute, DeletePlan, InterruptIntake, DeleteIntake
<1> QED
  BY <1>3, <1>11, <1>14

\* What works for whom holds in every state.
LEMMA StaysBacked == Spec => [](Awaits /\ Backed)
<1>1. Init => Awaits /\ Backed
  BY DEF Init, Awaits, Backed, IdleRun, NoJob, CheckStages, Worker
<1>2. Awaits /\ Backed /\ NodeTyped /\ Rooted /\ [Next]_vars => Awaits' /\ Backed'
  <2> SUFFICES ASSUME Awaits, Backed, NodeTyped, Rooted, [Next]_vars PROVE Awaits' /\ Backed'
    OBVIOUS
  <2>1. CASE vars' = vars
    BY <2>1 DEF vars, Awaits, Backed
  <2> QED
    BY <2>1, TaskStepBacked, PlanStepBacked, RunStepBacked, UserBacked DEF Next
<1> QED
  BY <1>1, <1>2, StaysTyped, PTL DEF Spec

\* THEOREM: a row that says running has a function at work on it, in every
\* interleaving of a run with stops, interrupts, deletions and restarts.
THEOREM RunningRowsWorked == Spec => []RunningHasWorker
<1>1. Backed => RunningHasWorker
  BY DEF Backed, RunningHasWorker
<1> QED
  BY <1>1, StaysBacked, PTL

\* THEOREM: agents that may write to the workspace are alone in it, but for
\* the tasks of one batch: the busy flag is never got round.
THEOREM OneCallerWrites == Spec => []AgentsApart
<1>1. ASSUME Awaits, NodeTyped PROVE AgentsApart
  <2> SUFFICES ASSUME Cardinality(Agents) > 1 PROVE Agents \in Apart /\ run.kind = "batch"
    BY DEF AgentsApart
  <2>1. Agents \subseteq run.on
    <3> SUFFICES ASSUME NEW w \in Agents PROVE w \in run.on
      OBVIOUS
    <3>1. w \in Worker /\ job[w].at \in {"cli", "repair"}
      BY DEF Agents
    <3>2. CASE w \in Task
      BY <1>1, <3>1, <3>2 DEF Awaits
    <3>3. CASE w \in Plan
      <4>1. job[w].at # "cli"
        BY <1>1, <3>3 DEF NodeTyped, JobsTyped, PlanJob, PlanStages, CheckStages
      <4> QED
        BY <1>1, <3>1, <3>3, <4>1 DEF Awaits, CheckStages
    <3> QED
      BY <3>1, <3>2, <3>3 DEF Worker
  <2>2. Agents # {}
    BY FS_EmptySet
  <2>3. run.stage = "work"
    <3>1. PICK w \in Agents : TRUE
      BY <2>2
    <3>2. w \in Worker /\ job[w].at \in {"cli", "repair"}
      BY DEF Agents
    <3>3. CASE w \in Task
      BY <1>1, <3>2, <3>3 DEF Awaits
    <3>4. CASE w \in Plan
      <4>1. job[w].at # "cli"
        BY <1>1, <3>4 DEF NodeTyped, JobsTyped, PlanJob, PlanStages, CheckStages
      <4> QED
        BY <1>1, <3>2, <3>4, <4>1 DEF Awaits, CheckStages
    <3> QED
      BY <3>2, <3>3, <3>4 DEF Worker
  <2>4. run.kind = "batch"
    <3> SUFFICES ASSUME run.kind # "batch" PROVE FALSE
      OBVIOUS
    <3>1. PICK w \in Agents : TRUE
      BY <2>2
    <3>2. Agents = {w}
      BY <1>1, <2>1, <2>3, <3>1 DEF Awaits
    <3>3. Cardinality({w}) = 1
      BY FS_Singleton
    <3> QED
      BY <3>2, <3>3
  <2>5. PICK S \in Apart : run.on \subseteq S
    BY <1>1, <2>3, <2>4 DEF Awaits
  <2>6. IsFiniteSet(S) /\ Cardinality(S) = 2 /\ Agents \subseteq S
    BY <2>1, <2>5, NodeAssumption DEF NodeAssumption
  <2>7. Cardinality(Agents) = 2
    BY <2>6, FS_Subset, FS_CardinalityType
  <2>8. Agents = S
    BY <2>6, <2>7, FS_Subset
  <2> QED
    BY <2>4, <2>8
<1> QED
  BY <1>1, StaysBacked, StaysTyped, PTL
=============================================================================
