------------------------- MODULE LoopRuntimeProofs -------------------------
(***************************************************************************)
(* What holds of the loop service for any number of requests, stoppers,    *)
(* clients and failures: how the operation rows change, that one run works *)
(* at a time and on an operation that is still running, that a cancelled   *)
(* operation does not succeed, and that the stop of a plan is not lost.    *)
(* And, while nothing fails and nobody interferes, that the timer follows  *)
(* the loop and no operation is left running.                              *)
(***************************************************************************)
EXTENDS LoopRuntime, TLAPS

-----------------------------------------------------------------------------
(* The operation rows *)

RowsTyped == row \in [Op -> Operation]

\* What one transaction makes of the row o: nothing, a new operation, a legal
\* transition, or the mark of a requested cancellation.
Evolves(o, p) ==
    \/ p = o
    \/ o = Absent /\ p = Fresh
    \/ /\ p.status \in Legal(o.status)
       /\ p.version = o.version + 1 /\ p.cancelRequested = o.cancelRequested
    \/ /\ o.status \in {"running", "absent"} /\ p.status = o.status
       /\ p.version = o.version + 1 /\ p.cancelRequested

Makes(r, o) == r.row \in Operation /\ Evolves(o, r.row)

\* A transition is a legal one, or changes nothing (Transition in the store).
LEMMA TransitionMakes ==
    ASSUME NEW o \in Operation, NEW version, NEW target \in Status
    PROVE  Makes(Transition(o, version, target), o)
<1>1. CASE o.status = target
  BY <1>1 DEF Makes, Evolves, Transition, Done
<1>2. CASE o.status # target /\ (target \notin Legal(o.status) \/ o.version # version)
  BY <1>2 DEF Makes, Evolves, Transition, Failed
<1>3. CASE o.status # target /\ target \in Legal(o.status) /\ o.version = version
  <2>1. Transition(o, version, target).row = [o EXCEPT !.status = target, !.version = @ + 1]
    BY <1>3 DEF Transition, Done
  <2>2. o.version + 1 \in Nat
    BY DEF Operation
  <2>3. [o EXCEPT !.status = target, !.version = @ + 1] \in Operation
    BY <2>2 DEF Operation
  <2>4. Evolves(o, [o EXCEPT !.status = target, !.version = @ + 1])
    BY <1>3 DEF Operation, Evolves
  <2> QED
    BY <2>1, <2>3, <2>4 DEF Makes
<1> QED
  BY <1>1, <1>2, <1>3

\* So is a claim.
LEMMA ClaimMakes ==
    ASSUME NEW o \in Operation, NEW version
    PROVE  Makes(Claim(o, version), o)
<1>1. CASE o.status \in {"queued", "running"}
  BY <1>1, TransitionMakes DEF Claim, Status
<1>2. CASE o.status \notin {"queued", "running"}
  BY <1>2 DEF Claim, Makes, Evolves, Failed
<1> QED
  BY <1>1, <1>2

\* A request for cancellation leaves the row, cancels what is queued, or marks
\* what is running.
LEMMA RequestMakes ==
    ASSUME NEW o \in Operation, NEW version
    PROVE  Makes(RequestCancellation(o, version), o)
<1>1. CASE o.status \in Terminal \/ (o.status = "running" /\ o.cancelRequested)
  BY <1>1 DEF RequestCancellation, Makes, Evolves, Done
<1>2. CASE o.status \notin Terminal /\ ~(o.status = "running" /\ o.cancelRequested)
  <2>1. CASE o.version # version
    BY <1>2, <2>1 DEF RequestCancellation, Makes, Evolves, Failed
  <2>2. CASE o.version = version /\ o.status = "queued"
    <3>1. RequestCancellation(o, version) = Transition(o, version, "cancelled")
      BY <1>2, <2>2 DEF RequestCancellation
    <3> QED
      BY <3>1, TransitionMakes DEF Status, Terminal
  <2>3. CASE o.version = version /\ o.status # "queued"
    <3>1. RequestCancellation(o, version).row = [o EXCEPT !.cancelRequested = TRUE, !.version = @ + 1]
      BY <1>2, <2>3 DEF RequestCancellation, Done
    <3>2. o.version + 1 \in Nat
      BY DEF Operation
    <3>3. [o EXCEPT !.cancelRequested = TRUE, !.version = @ + 1] \in Operation
      BY <3>2 DEF Operation
    <3>4. o.status \in {"running", "absent"}
      BY <1>2, <2>3 DEF Operation, Status
    <3>5. Evolves(o, [o EXCEPT !.cancelRequested = TRUE, !.version = @ + 1])
      BY <3>4 DEF Operation, Evolves
    <3> QED
      BY <3>1, <3>3, <3>5 DEF Makes
  <2> QED
    BY <2>1, <2>2, <2>3
<1> QED
  BY <1>1, <1>2

\* The steps of a command that write its row.
Writes(c) ==
    \/ Create(c) \/ ClaimOperation(c) \/ CancelCreated(c)
    \/ Succeed(c) \/ FailClaimed(c) \/ Settle(c)

\* Only a row's own commands write it, and anybody may request its cancellation.
RowStep ==
    /\ row' \in [Op -> Operation]
    /\ \A o \in Op : Evolves(row[o], row'[o])
    /\ \A o \in Op :
          \/ row'[o] = row[o]
          \/ \E c \in Command : OpOf[c] = o /\ Writes(c)
          \/ \E version : row'[o] = RequestCancellation(row[o], version).row

\* The store call of a command is such a step.
LEMMA StoresRow ==
    ASSUME RowsTyped, NEW c \in Command, NEW r, Makes(r, Row(c)), Stores(c, r), Writes(c)
    PROVE  RowStep
<1>1. OpOf[c] \in Op
  BY LoopAssumption
<1>2. row' = [row EXCEPT ![OpOf[c]] = r.row]
  BY DEF Stores
<1> QED
  BY <1>1, <1>2 DEF RowsTyped, RowStep, Makes, Evolves, Row

\* Every step of the service, of its callers and of other clients is such a step.
LEMMA NextRows ==
    ASSUME RowsTyped, [Next]_vars
    PROVE  RowStep
<1>0. ASSUME row' = row PROVE RowStep
  BY <1>0 DEF RowsTyped, RowStep, Evolves
<1>1. ASSUME NEW c \in Command PROVE Row(c) \in Operation
  BY LoopAssumption DEF RowsTyped, Row
<1>2. ASSUME NEW c \in Command, Create(c) PROVE RowStep
  <2>1. CASE row' = row
    BY <2>1, <1>0
  <2>2. CASE Row(c) = Absent /\ Stores(c, Done(Fresh))
    <3>1. Makes(Done(Fresh), Row(c))
      BY <2>2 DEF Makes, Evolves, Done, Fresh, Operation, Status
    <3> QED
      BY <1>2, <2>2, <3>1, StoresRow DEF Writes
  <2> QED
    BY <1>2, <2>1, <2>2 DEF Create
<1>3. ASSUME NEW c \in Command, ClaimOperation(c) PROVE RowStep
  <2>1. Stores(c, Claim(Row(c), held[c])) \/ row' = row
    BY <1>3 DEF ClaimOperation
  <2>2. Makes(Claim(Row(c), held[c]), Row(c))
    BY <1>1, ClaimMakes
  <2> QED
    BY <1>3, <2>1, <2>2, <1>0, StoresRow DEF Writes
<1>5. ASSUME NEW c \in Command, CancelCreated(c) \/ Succeed(c) \/ FailClaimed(c) \/ Settle(c) PROVE RowStep
  <2>1. row' = row \/ \E target \in Status : Stores(c, Transition(Row(c), held[c], target))
    <3>1. CASE CancelCreated(c)
      BY <3>1 DEF CancelCreated, Status, Terminal
    <3>2. CASE Succeed(c)
      BY <3>2 DEF Succeed, Status, Terminal
    <3>3. CASE FailClaimed(c)
      BY <3>3 DEF FailClaimed, Status, Terminal
    <3>4. CASE Settle(c)
      BY <3>4 DEF Settle, Status, Terminal
    <3> QED
      BY <1>5, <3>1, <3>2, <3>3, <3>4
  <2>2. ASSUME NEW target \in Status, Stores(c, Transition(Row(c), held[c], target)) PROVE RowStep
    BY <1>1, <1>5, <2>2, TransitionMakes, StoresRow DEF Writes
  <2> QED
    BY <2>1, <2>2, <1>0
<1>6. ASSUME NEW c \in Command, Callback(c) PROVE RowStep
  <2>1. \/ Create(c) \/ ClaimOperation(c) \/ CancelCreated(c) \/ Succeed(c) \/ FailClaimed(c) \/ Settle(c)
        \/ row' = row
    BY <1>6 DEF Callback, TurnedAway, StartLoop, StopLoop, Disarm, BeginRun, Arm, StartReturns, Launch,
                BeginComplete, FinishRun, Clear, Answer
  <2> QED
    BY <2>1, <1>0, <1>2, <1>3, <1>5
<1>a. ASSUME NEW o \in Op, NEW version, row' = [row EXCEPT ![o] = RequestCancellation(row[o], version).row]
      PROVE  RowStep
  <2>1. row[o] \in Operation
    BY DEF RowsTyped
  <2>2. Makes(RequestCancellation(row[o], version), row[o])
    BY <2>1, RequestMakes
  <2>3. row'[o] = RequestCancellation(row[o], version).row /\ \A p \in Op : p # o => row'[p] = row[p]
    BY <1>a DEF RowsTyped
  <2>4. row' \in [Op -> Operation]
    BY <1>a, <2>2 DEF RowsTyped, Makes
  <2> QED
    BY <2>2, <2>3, <2>4 DEF RowStep, Makes, Evolves
<1>7. ASSUME NEW g \in Canceller, Request(g) PROVE RowStep
  <2>1. \/ row' = row
        \/ \E o : row' = [row EXCEPT ![o] = RequestCancellation(row[o], seen[g]).row]
    BY <1>7 DEF Request
  <2>2. ASSUME NEW o, o \notin Op, row' = [row EXCEPT ![o] = RequestCancellation(row[o], seen[g]).row]
        PROVE  row' = row
    BY <2>2 DEF RowsTyped
  <2> QED
    BY <2>1, <2>2, <1>0, <1>a
<1>8. ASSUME NEW o \in Op, RestCancel(o) PROVE RowStep
  <2>1. row' = [row EXCEPT ![o] = RequestCancellation(row[o], row[o].version).row]
    BY <1>8 DEF RestCancel
  <2> QED
    BY <2>1, <1>a
<1>9. CASE \/ \E c \in Command : Submit(c) \/ Executing(c) \/ CallerLeaves(c) \/ Working(c)
           \/ \E s \in Starts : Timing(s)
           \/ \E g \in Stopper : StopPlan(g)
           \/ \E g \in Canceller : Look(g) \/ Mark(g)
           \/ UNCHANGED vars
  <2>1. row' = row
    BY <1>9 DEF Submit, Executing, Link, Return, CallerLeaves, Working, WorkReturns, Associate, Timing, Fire, Tick,
                Sleep, StopPlan, Look, Mark, vars
  <2> QED
    BY <2>1, <1>0
<1> QED
  BY <1>6, <1>7, <1>8, <1>9 DEF Next, Cancelling

\* The rows keep their type.
LEMMA RowsStayTyped == Safety => []RowsTyped
<1>1. Init => RowsTyped
  BY DEF Init, RowsTyped, Absent, Operation, Status, Terminal
<1>2. RowsTyped /\ [Next]_vars => RowsTyped'
  BY NextRows DEF RowStep, RowsTyped
<1> QED
  BY <1>1, <1>2, PTL DEF Safety

\* For any requests, retries, clients and failures the first terminal status of
\* an operation is its last (the store's Transition and RequestCancellation).
THEOREM FirstOutcomeStays == Safety => FirstTerminalWins
<1>1. RowsTyped /\ [Next]_vars => (\A o \in Op : row[o].status \in Terminal => row'[o] = row[o])
  <2> SUFFICES ASSUME RowsTyped, [Next]_vars, NEW o \in Op, row[o].status \in Terminal
               PROVE  row'[o] = row[o]
    OBVIOUS
  <2>1. Evolves(row[o], row'[o])
    BY NextRows DEF RowStep
  <2> QED
    BY <2>1 DEF Evolves, Terminal, Legal, Absent
<1>2. RowsTyped /\ [Next]_vars => [\A o \in Op : row[o].status \in Terminal => row'[o] = row[o]]_vars
  BY <1>1
<1> QED
  BY <1>2, RowsStayTyped, PTL DEF Safety, FirstTerminalWins

-----------------------------------------------------------------------------
(* Types *)

Labels == {"new", "claim", "unclaim", "start", "stop", "run", "disarm", "succeed", "succeedAndArm", "arm", "fail", "started",
           "startFailed", "launch", "work", "complete", "finish", "cancelled", "failed", "succeeded", "clear", "answer", "over"}
LoopRow == [running : BOOLEAN, phase : {"idle", "running", "stopped", "scan", "waiting", "error"}]
ActiveRun == [command : Command, version : Nat, cancelled : BOOLEAN, plan : Plan \cup {NoPlan}]

\* The type invariant, and what it needs: the variables it does not name, who
\* may stand at the labels that arm a timer, and that there is a run to cancel.
LoopTyped ==
    /\ row \in [Op -> Operation]
    /\ loop \in LoopRow
    /\ at \in [Command -> Labels]
    /\ held \in [Command -> Nat]
    /\ noop \in [Command -> BOOLEAN]
    /\ active \in ActiveRun \cup {NoRun}
    /\ planStops \subseteq Plan
    /\ armed \in Starts \cup {NoCommand}
    /\ timer \in [Starts -> {"off", "sleep", "tick", "ended"} \cup Automatic]
    /\ step \in [Canceller -> {"idle", "look", "request", "mark", "done"}]
    /\ seen \in [Canceller -> Nat]
    /\ aim \in [Canceller -> Command \cup {NoCommand}]
    /\ \A c \in Command : at[c] \in {"start", "succeedAndArm", "arm"} => c \in Starts
    /\ \A g \in Canceller : step[g] \in {"look", "request", "mark"} => aim[g] \in Command

\* The types that are proved are those the runs check.
LEMMA TypedIsTypeOK == LoopTyped => LoopTypeOK
BY DEF LoopTyped, LoopTypeOK, Labels, LoopRow, ActiveRun, NoRun

\* The types hold at first.
LEMMA InitTyped == Init => LoopTyped
BY LoopAssumption DEF Init, LoopTyped, Labels, LoopRow, ActiveRun, NoRun, Absent, Operation, Status, Terminal

\* A store call leaves the command with the version of its row.
LEMMA StoresHeld ==
    ASSUME LoopTyped, NEW c \in Command, NEW r, Stores(c, r), row' \in [Op -> Operation]
    PROVE  /\ Row(c)' = r.row
           /\ held' = [held EXCEPT ![c] = Row(c)'.version]
           /\ held' \in [Command -> Nat]
<1>1. OpOf[c] \in Op
  BY LoopAssumption
<1>2. row'[OpOf[c]] = r.row
  BY <1>1 DEF LoopTyped, Stores
<1>3. r.row.version \in Nat
  BY <1>1, <1>2 DEF Operation
<1> QED
  BY <1>2, <1>3 DEF LoopTyped, Stores, Row

\* A run and what becomes of it.
LEMMA ActiveRuns ==
    /\ \A r \in ActiveRun, p \in Plan : [r EXCEPT !.plan = p] \in ActiveRun
    /\ \A r \in ActiveRun : r.command \in Command /\ r.version \in Nat
    /\ NoRun.command = NoCommand /\ NoRun.command \notin Command /\ NoRun.version \in Nat
BY LoopAssumption DEF ActiveRun, NoRun

\* The rows of the loop.
LEMMA LoopRows ==
    /\ [running |-> TRUE, phase |-> "running"] \in LoopRow
    /\ [running |-> FALSE, phase |-> "stopped"] \in LoopRow
    /\ \A r \in LoopRow : [r EXCEPT !.phase = "scan"] \in LoopRow
BY DEF LoopRow

\* A callback keeps the types.
LEMMA CallbackTyped ==
    ASSUME LoopTyped, NEW c \in Command, Callback(c), row' \in [Op -> Operation]
    PROVE  LoopTyped'
<1> USE LoopAssumption DEF Goes, Labels, Canceller, Starts, contractVars, cancelVars
<1>1. CASE TurnedAway(c)
  BY <1>1 DEF TurnedAway, LoopTyped
<1>2. CASE Create(c)
  <2>1. held' \in [Command -> Nat]
    BY <1>2, StoresHeld DEF Create, LoopTyped
  <2>2. noop' \in [Command -> BOOLEAN]
    BY <1>2 DEF Create, LoopTyped
  <2> QED
    BY <1>2, <2>1, <2>2 DEF Create, LoopTyped
<1>3. CASE ClaimOperation(c)
  BY <1>3, StoresHeld DEF ClaimOperation, LoopTyped, LoopKinds
<1>4. CASE CancelCreated(c)
  BY <1>4, StoresHeld DEF CancelCreated, LoopTyped
<1>5. CASE StartLoop(c)
  <2>1. loop' \in LoopRow
    BY <1>5, LoopRows DEF StartLoop, LoopTyped
  <2> QED
    BY <1>5, <2>1 DEF StartLoop, LoopTyped
<1>6. CASE StopLoop(c)
  <2>1. loop' \in LoopRow
    BY <1>6, LoopRows DEF StopLoop, LoopTyped
  <2> QED
    BY <1>6, <2>1 DEF StopLoop, LoopTyped
<1>7. CASE Disarm(c)
  <2>1. active.command \in Command \cup {NoCommand} /\ (active # NoRun => active.command \in Command)
    BY <1>7, ActiveRuns DEF Disarm, LoopTyped
  <2> QED
    BY <1>7, <2>1 DEF Disarm, LoopTyped
<1>8. CASE BeginRun(c)
  <2>1. loop' \in LoopRow
    BY <1>8, LoopRows DEF BeginRun, LoopTyped
  <2>2. active' \in ActiveRun \cup {NoRun}
    <3>1. held[c] \in Nat
      BY DEF LoopTyped
    <3>2. active' = active \/ active' = [command |-> c, version |-> held[c], cancelled |-> FALSE, plan |-> NoPlan]
      BY <1>8 DEF BeginRun, NoRun
    <3>3. [command |-> c, version |-> held[c], cancelled |-> FALSE, plan |-> NoPlan] \in ActiveRun
      BY <3>1 DEF ActiveRun
    <3> QED
      BY <3>2, <3>3 DEF LoopTyped
  <2>3. noop' \in [Command -> BOOLEAN]
    BY <1>8, Zenon DEF BeginRun, LoopTyped, HasActive
  <2> QED
    BY <1>8, <2>1, <2>2, <2>3 DEF BeginRun, LoopTyped
<1>9. CASE Succeed(c)
  BY <1>9, StoresHeld DEF Succeed, LoopTyped
<1>10. CASE Arm(c)
  BY <1>10 DEF Arm, LoopTyped
<1>11. CASE FailClaimed(c)
  BY <1>11, StoresHeld DEF FailClaimed, LoopTyped
<1>12. CASE StartReturns(c)
  BY <1>12 DEF StartReturns, LoopTyped, Replies
<1>13. CASE Launch(c)
  BY <1>13 DEF Launch, LoopTyped
<1>14. CASE BeginComplete(c)
  <2>1. active.version \in Nat
    BY <1>14, ActiveRuns DEF BeginComplete, LoopTyped
  <2> QED
    BY <1>14, <2>1 DEF BeginComplete, LoopTyped, CurrentVersion
<1>15. CASE FinishRun(c)
  BY <1>15 DEF FinishRun, LoopTyped, LoopRow, Finished
<1>16. CASE Settle(c)
  BY <1>16, StoresHeld DEF Settle, LoopTyped
<1>17. CASE Clear(c)
  BY <1>17, ActiveRuns DEF Clear, LoopTyped, Frees
<1>18. CASE Answer(c)
  BY <1>18 DEF Answer, LoopTyped
<1> QED
  BY <1>1, <1>2, <1>3, <1>4, <1>5, <1>6, <1>7, <1>8, <1>9, <1>10, <1>11, <1>12, <1>13, <1>14, <1>15, <1>16, <1>17, <1>18 DEF Callback

\* So does every step.
LEMMA NextTyped ==
    ASSUME LoopTyped, [Next]_vars
    PROVE  LoopTyped'
<1>r. row' \in [Op -> Operation]
  BY NextRows DEF RowStep, LoopTyped, RowsTyped
<1> USE LoopAssumption, <1>r DEF Canceller, Starts, contractVars, cancelVars
<1>1. ASSUME NEW c \in Command, Callback(c) PROVE LoopTyped'
  BY <1>1, CallbackTyped
<1>2. ASSUME NEW c \in Command, Submit(c) PROVE LoopTyped'
  BY <1>2 DEF Submit, LoopTyped
<1>3. ASSUME NEW c \in Command, Link(c) PROVE LoopTyped'
  BY <1>3 DEF Link, LoopTyped
<1>4. ASSUME NEW c \in Command, Return(c) PROVE LoopTyped'
  BY <1>4 DEF Return, LoopTyped
<1>5. ASSUME NEW c \in Command, CallerLeaves(c) PROVE LoopTyped'
  BY <1>5 DEF CallerLeaves, LoopTyped
<1>6. ASSUME NEW c \in Command, WorkReturns(c) PROVE LoopTyped'
  BY <1>6 DEF WorkReturns, LoopTyped, Goes, Labels
<1>7. ASSUME NEW s \in Starts, Fire(s) PROVE LoopTyped'
  BY <1>7 DEF Fire, LoopTyped
<1>8. ASSUME NEW s \in Starts, Tick(s) PROVE LoopTyped'
  BY <1>8 DEF Tick, LoopTyped, Ticks
<1>9. ASSUME NEW s \in Starts, Sleep(s) PROVE LoopTyped'
  BY <1>9 DEF Sleep, LoopTyped
<1>10. ASSUME NEW g \in Stopper, StopPlan(g) PROVE LoopTyped'
  <2>1. active.command \in Command
    BY <1>10, ActiveRuns DEF StopPlan, LoopTyped
  <2>2. planStops' \subseteq Plan
    BY <1>10 DEF StopPlan, LoopTyped
  <2> QED
    BY <1>10, <2>1, <2>2 DEF StopPlan, Asks, LoopTyped
<1>11. ASSUME NEW g \in Canceller, Look(g) PROVE LoopTyped'
  <2>1. active.version \in Nat
    BY ActiveRuns DEF LoopTyped
  <2> QED
    BY <1>11, <2>1 DEF Look, LoopTyped
<1>12. ASSUME NEW g \in Canceller, Request(g) PROVE LoopTyped'
  <2> DEFINE o == OpOf[aim[g]]
  <2>1. aim[g] \in Command /\ o \in Op
    BY <1>12 DEF Request, LoopTyped
  <2>2. seen' = seen \/ seen' = [seen EXCEPT ![g] = row'[o].version]
    BY <1>12, <2>1 DEF Request, LoopTyped
  <2>3. row'[o].version \in Nat
    BY <2>1 DEF Operation
  <2>4. seen' \in [Canceller -> Nat]
    BY <2>2, <2>3 DEF LoopTyped
  <2> QED
    BY <1>12, <2>1, <2>4 DEF Request, LoopTyped
<1>13. ASSUME NEW g \in Canceller, Mark(g) PROVE LoopTyped'
  <2>1. aim[g] \in Command /\ seen[g] \in Nat
    BY <1>13 DEF Mark, LoopTyped
  <2>2. active' \in ActiveRun \cup {NoRun}
    <3>1. CASE active.command = aim[g]
      <4>1. active \in ActiveRun
        BY <2>1, <3>1, ActiveRuns DEF LoopTyped
      <4>2. active' = [active EXCEPT !.cancelled = TRUE, !.version = seen[g]]
        BY <1>13, <3>1 DEF Mark
      <4> QED
        BY <2>1, <4>1, <4>2 DEF ActiveRun
    <3>2. CASE active.command # aim[g]
      BY <1>13, <3>2 DEF Mark, LoopTyped
    <3> QED
      BY <3>1, <3>2
  <2> QED
    BY <1>13, <2>2 DEF Mark, LoopTyped
<1>14. ASSUME NEW o \in Op, RestCancel(o) PROVE LoopTyped'
  BY <1>14 DEF RestCancel, LoopTyped
<1>15. ASSUME NEW c \in Command, NEW p \in Plan, Associate(c, p) PROVE LoopTyped'
  BY <1>15, ActiveRuns DEF Associate, LoopTyped
<1>16. CASE UNCHANGED vars
  BY <1>16 DEF vars, LoopTyped
<1> QED
  BY <1>1, <1>2, <1>3, <1>4, <1>5, <1>6, <1>7, <1>8, <1>9, <1>10, <1>11, <1>12, <1>13, <1>14, <1>15, <1>16 DEF Next,
            Executing, Working, Timing, Cancelling

\* The types hold in every state.
LEMMA StaysTyped == Safety => []LoopTyped
BY InitTyped, NextTyped, PTL DEF Safety

\* The variables of the loop service keep their types.
THEOREM LoopTypesHold == Safety => []LoopTypeOK
BY StaysTyped, TypedIsTypeOK, PTL

-----------------------------------------------------------------------------
(* Who moves what *)

\* A step that is not of command d leaves it where it is.
Same(d) == at'[d] = at[d] /\ noop'[d] = noop[d] /\ held'[d] = held[d]

\* A step moves one callback, or lets one plan return, and no other command.
LEMMA Moves ==
    ASSUME LoopTyped, [Next]_vars, NEW d \in Command
    PROVE  Callback(d) \/ WorkReturns(d) \/ Same(d)
<1>1. ASSUME NEW c \in Command, Callback(c) PROVE Callback(d) \/ Same(d)
  <2> SUFFICES ASSUME c # d PROVE Same(d)
    BY <1>1
  <2> USE DEF Goes, Same, LoopTyped
  <2>1. CASE TurnedAway(c)
    BY <2>1 DEF TurnedAway
  <2>2. CASE Create(c)
    BY <2>2 DEF Create, Stores
  <2>3. CASE ClaimOperation(c)
    BY <2>3 DEF ClaimOperation, Stores
  <2>4. CASE CancelCreated(c)
    BY <2>4 DEF CancelCreated, Stores
  <2>5. CASE StartLoop(c)
    BY <2>5 DEF StartLoop
  <2>6. CASE StopLoop(c)
    BY <2>6 DEF StopLoop
  <2>7. CASE Disarm(c)
    BY <2>7 DEF Disarm
  <2>8. CASE BeginRun(c)
    BY <2>8 DEF BeginRun
  <2>9. CASE Succeed(c)
    BY <2>9 DEF Succeed, Stores
  <2>10. CASE Arm(c)
    BY <2>10 DEF Arm
  <2>11. CASE FailClaimed(c)
    BY <2>11 DEF FailClaimed, Stores
  <2>12. CASE StartReturns(c)
    BY <2>12 DEF StartReturns
  <2>13. CASE Launch(c)
    BY <2>13 DEF Launch
  <2>14. CASE BeginComplete(c)
    BY <2>14 DEF BeginComplete
  <2>15. CASE FinishRun(c)
    BY <2>15 DEF FinishRun
  <2>16. CASE Settle(c)
    BY <2>16 DEF Settle, Stores
  <2>17. CASE Clear(c)
    BY <2>17 DEF Clear
  <2>18. CASE Answer(c)
    BY <2>18 DEF Answer
  <2> QED
    BY <1>1, <2>1, <2>2, <2>3, <2>4, <2>5, <2>6, <2>7, <2>8, <2>9, <2>10, <2>11, <2>12, <2>13, <2>14, <2>15, <2>16, <2>17, <2>18 DEF Callback
<1>2. ASSUME NEW c \in Command, WorkReturns(c) PROVE WorkReturns(d) \/ Same(d)
  BY <1>2 DEF WorkReturns, Goes, Same, LoopTyped
<1>3. CASE \/ \E c \in Command : Submit(c) \/ Executing(c) \/ CallerLeaves(c) \/ \E p \in Plan : Associate(c, p)
           \/ \E s \in Starts : Timing(s)
           \/ \E g \in Stopper : StopPlan(g)
           \/ \E g \in Canceller : Cancelling(g)
           \/ \E o \in Op : RestCancel(o)
           \/ UNCHANGED vars
  <2>1. UNCHANGED << at, noop, held >>
    BY <1>3 DEF Submit, Executing, Link, Return, CallerLeaves, Associate, Timing, Fire, Tick, Sleep, StopPlan,
                Cancelling, Look, Request, Mark, RestCancel, vars
  <2> QED
    BY <2>1 DEF Same
<1> QED
  BY <1>1, <1>2, <1>3 DEF Next, Working

\* service.active is set by a run that begins, and changed by its claim of a
\* plan, by a canceller and by its completion (setActive, associatePlan,
\* cancelActiveOperation, clearActive).
LEMMA ActiveMoves ==
    ASSUME [Next]_vars
    PROVE  \/ active' = active
           \/ \E c \in Command : BeginRun(c) \/ Clear(c) \/ \E p \in Plan : Associate(c, p)
           \/ \E g \in Canceller : Mark(g)
<1>1. ASSUME NEW c \in Command, Callback(c) PROVE active' = active \/ BeginRun(c) \/ Clear(c)
  BY <1>1 DEF Callback, TurnedAway, Create, ClaimOperation, CancelCreated, StartLoop, StopLoop, Disarm, Succeed, Arm,
              FailClaimed, StartReturns, Launch, BeginComplete, FinishRun, Settle, Answer
<1>2. CASE \/ \E c \in Command : Submit(c) \/ Executing(c) \/ CallerLeaves(c) \/ WorkReturns(c)
           \/ \E s \in Starts : Timing(s)
           \/ \E g \in Stopper : StopPlan(g)
           \/ \E g \in Canceller : Look(g) \/ Request(g)
           \/ \E o \in Op : RestCancel(o)
           \/ UNCHANGED vars
  BY <1>2 DEF Submit, Executing, Link, Return, CallerLeaves, WorkReturns, Timing, Fire, Tick, Sleep, StopPlan,
              Look, Request, RestCancel, vars
<1> QED
  BY <1>1, <1>2 DEF Next, Working, Cancelling

-----------------------------------------------------------------------------
(* One run at a time *)

\* The labels at which a run is that found the gate busy, or that owns it.
Posts == \A c \in Command :
    /\ at[c] \in {"run", "launch", "work", "complete", "finish", "cancelled", "failed", "succeeded", "clear"} => c \in Runs
    /\ at[c] \in {"stop", "disarm"} => KindOf[c] = "stop"
    /\ at[c] = "succeed" /\ c \in Runs => noop[c]
    /\ at[c] \in {"finish", "cancelled", "failed", "succeeded", "clear"} => ~noop[c]

\* The run has set service.active and has not cleared it.
Owns(c) == c \in Runs /\ ~noop[c] /\ (at[c] = "started" \/ InRun(c))
OwnersActive == \A c \in Command : Owns(c) => active.command = c

\* A callback only reaches posts of its kind of command.
LEMMA PostsStep ==
    ASSUME LoopTyped, Posts, [Next]_vars
    PROVE  Posts'
<1> SUFFICES ASSUME NEW c \in Command
             PROVE  /\ at'[c] \in {"run", "launch", "work", "complete", "finish", "cancelled", "failed", "succeeded", "clear"}
                         => c \in Runs
                    /\ at'[c] \in {"stop", "disarm"} => KindOf[c] = "stop"
                    /\ at'[c] = "succeed" /\ c \in Runs => noop'[c]
                    /\ at'[c] \in {"finish", "cancelled", "failed", "succeeded", "clear"} => ~noop'[c]
  BY DEF Posts, Runs
<1> USE LoopAssumption DEF Goes, LoopTyped, Posts, Runs, Starts
<1>1. CASE TurnedAway(c)
  BY <1>1 DEF TurnedAway
<1>2. CASE Create(c)
  BY <1>2 DEF Create
<1>3. CASE ClaimOperation(c)
  BY <1>3 DEF ClaimOperation, LoopKinds
<1>4. CASE CancelCreated(c)
  BY <1>4 DEF CancelCreated
<1>5. CASE StartLoop(c)
  BY <1>5 DEF StartLoop
<1>6. CASE StopLoop(c)
  BY <1>6 DEF StopLoop
<1>7. CASE Disarm(c)
  BY <1>7 DEF Disarm
<1>8. CASE BeginRun(c)
  BY <1>8 DEF BeginRun, HasActive
<1>9. CASE Succeed(c)
  BY <1>9 DEF Succeed
<1>10. CASE Arm(c)
  BY <1>10 DEF Arm
<1>11. CASE FailClaimed(c)
  BY <1>11 DEF FailClaimed
<1>12. CASE StartReturns(c)
  BY <1>12 DEF StartReturns
<1>13. CASE Launch(c)
  BY <1>13 DEF Launch
<1>14. CASE BeginComplete(c)
  BY <1>14 DEF BeginComplete
<1>15. CASE FinishRun(c)
  BY <1>15 DEF FinishRun
<1>16. CASE Settle(c)
  BY <1>16 DEF Settle
<1>17. CASE Clear(c)
  BY <1>17 DEF Clear
<1>18. CASE Answer(c)
  BY <1>18 DEF Answer
<1>19. CASE WorkReturns(c)
  BY <1>19 DEF WorkReturns
<1>20. CASE Same(c)
  BY <1>20 DEF Same
<1> QED
  BY Moves, <1>1, <1>2, <1>3, <1>4, <1>5, <1>6, <1>7, <1>8, <1>9, <1>10, <1>11, <1>12, <1>13, <1>14, <1>15, <1>16, <1>17, <1>18, <1>19, <1>20 DEF Callback

\* A run comes to own the project only by the step that sets service.active.
LEMMA OwnsMoves ==
    ASSUME LoopTyped, Posts, OwnersActive, [Next]_vars, NEW c \in Command, Owns(c)'
    PROVE  Owns(c) \/ BeginRun(c)
<1> USE DEF Goes, LoopTyped, Posts, Owns, InRun, Runs
<1>1. CASE TurnedAway(c)
  BY <1>1 DEF TurnedAway
<1>2. CASE Create(c)
  BY <1>2 DEF Create
<1>3. CASE ClaimOperation(c)
  BY <1>3, LoopAssumption DEF ClaimOperation, LoopKinds
<1>4. CASE CancelCreated(c)
  BY <1>4 DEF CancelCreated
<1>5. CASE StartLoop(c)
  BY <1>5 DEF StartLoop
<1>6. CASE StopLoop(c)
  BY <1>6 DEF StopLoop
<1>7. CASE Disarm(c)
  BY <1>7 DEF Disarm
<1>8. CASE BeginRun(c)
  BY <1>8
<1>9. CASE Succeed(c)
  BY <1>9 DEF Succeed
<1>10. CASE Arm(c)
  BY <1>10 DEF Arm, Starts
<1>11. CASE FailClaimed(c)
  BY <1>11 DEF FailClaimed
<1>12. CASE StartReturns(c)
  BY <1>12 DEF StartReturns
<1>13. CASE Launch(c)
  BY <1>13 DEF Launch
<1>14. CASE BeginComplete(c)
  BY <1>14 DEF BeginComplete, OwnersActive
<1>15. CASE FinishRun(c)
  BY <1>15 DEF FinishRun
<1>16. CASE Settle(c)
  BY <1>16 DEF Settle
<1>17. CASE Clear(c)
  BY <1>17 DEF Clear
<1>18. CASE Answer(c)
  BY <1>18 DEF Answer
<1>19. CASE WorkReturns(c)
  BY <1>19 DEF WorkReturns
<1>20. CASE Same(c)
  BY <1>20 DEF Same
<1> QED
  BY Moves, <1>1, <1>2, <1>3, <1>4, <1>5, <1>6, <1>7, <1>8, <1>9, <1>10, <1>11, <1>12, <1>13, <1>14, <1>15, <1>16, <1>17, <1>18, <1>19, <1>20 DEF Callback

\* Every step keeps the owners active.
LEMMA OwnersStep ==
    ASSUME LoopTyped, Posts, OwnersActive, [Next]_vars
    PROVE  OwnersActive'
<1> SUFFICES ASSUME NEW c \in Command, Owns(c)'
             PROVE  active'.command = c
  BY DEF OwnersActive
<1>1. Owns(c) \/ BeginRun(c)
  BY OwnsMoves
<1>2. CASE BeginRun(c)
  <2>1. active = NoRun
    BY <1>2 DEF BeginRun, HasActive, LoopTyped, Owns
  <2>2. at'[c] = "started" => active' = [NoRun EXCEPT !.command = c, !.version = held[c]]
    BY <1>2, <2>1 DEF BeginRun, HasActive, Goes, LoopTyped
  <2>3. at'[c] = "started"
    BY <1>2, <2>1 DEF BeginRun, HasActive, Goes, LoopTyped, Owns, InRun
  <2> QED
    BY <2>2, <2>3 DEF NoRun
<1>3. CASE Owns(c)
  <2>1. active.command = c /\ active \in ActiveRun
    BY <1>3, ActiveRuns DEF OwnersActive, LoopTyped
  <2>2. ASSUME NEW d \in Command, BeginRun(d) PROVE active' = active
    BY <2>1, <2>2, ActiveRuns DEF BeginRun, HasActive
  <2>3. ASSUME NEW d \in Command, Clear(d) PROVE active' = active
    <3>1. d # c
      BY <2>3 DEF Clear, Goes, LoopTyped, Owns, InRun
    <3> QED
      BY <2>1, <2>3, <3>1 DEF Clear, Frees
  <2>4. ASSUME NEW d \in Command, NEW p \in Plan, Associate(d, p) PROVE active'.command = c
    BY <2>1, <2>4 DEF Associate, ActiveRun
  <2>5. ASSUME NEW g \in Canceller, Mark(g) PROVE active'.command = c
    BY <2>1, <2>5 DEF Mark, ActiveRun
  <2> QED
    BY <2>1, <2>2, <2>3, <2>4, <2>5, ActiveMoves
<1> QED
  BY <1>1, <1>2, <1>3

\* Posts and owners hold in every state.
LEMMA StaysOwned == Safety => [](LoopTyped /\ Posts /\ OwnersActive)
<1>1. Init => Posts /\ OwnersActive
  BY DEF Init, Posts, OwnersActive, Owns, InRun
<1> QED
  BY <1>1, InitTyped, NextTyped, PostsStep, OwnersStep, PTL DEF Safety

\* The busy gate: whatever requests, timers and retries come, one run at a time
\* works and service.active is that run until its completion clears it
\* (hasActive, setActive, clearActive).
THEOREM OneRunWorks == Safety => []OneRunAtATime
<1>1. OwnersActive => OneRunAtATime
  BY DEF OwnersActive, OneRunAtATime, Owns, InRun
<1> QED
  BY <1>1, StaysOwned, PTL

-----------------------------------------------------------------------------
(* A run works on a running operation *)

\* The command has created the operation and has not settled it.
Holds(c) ==
    \/ at[c] \in {"claim", "unclaim", "start", "stop", "run", "disarm", "succeed", "succeedAndArm", "arm", "fail"}
    \/ Owns(c)

\* Of the requests for one operation only the one that created it works on it.
OneHolder ==
    /\ \A c \in Command : Holds(c) => Row(c).status # "absent"
    /\ \A c, d \in Command : Holds(c) /\ Holds(d) /\ OpOf[c] = OpOf[d] => c = d

RunsOn(c) == at[c] = "run" \/ (Owns(c) /\ at[c] # "clear")
HoldersRun == \A c \in Command :
    /\ RunsOn(c) => Row(c).status = "running"
    /\ at[c] = "claim" => Row(c).status # "running"
    /\ active.command = c => Row(c).status \in {"running"} \cup Terminal

\* What the first part of the invariant says of a run's place.
Placed == LoopTyped /\ Posts /\ OwnersActive

\* Who holds an operation held it before, or has just created it.
LEMMA HoldsMoves ==
    ASSUME Placed, [Next]_vars, NEW c \in Command, Holds(c)'
    PROVE  Holds(c) \/ (Create(c) /\ Row(c) = Absent /\ Row(c)' = Fresh)
<1> USE DEF Placed
<1>1. CASE Owns(c)'
  BY <1>1, OwnsMoves DEF Holds, BeginRun
<1>2. CASE ~Owns(c)'
  <2> USE <1>2 DEF Goes, LoopTyped, Holds
  <2>1. CASE TurnedAway(c)
    BY <2>1 DEF TurnedAway
  <2>2. CASE Create(c)
    <3>1. Row(c) = Absent /\ Stores(c, Done(Fresh))
      BY <2>2 DEF Create
    <3> QED
      BY <2>2, <3>1, LoopAssumption DEF Stores, Done, Row
  <2>3. CASE ClaimOperation(c)
    BY <2>3 DEF ClaimOperation
  <2>4. CASE CancelCreated(c)
    BY <2>4 DEF CancelCreated
  <2>5. CASE StartLoop(c)
    BY <2>5 DEF StartLoop
  <2>6. CASE StopLoop(c)
    BY <2>6 DEF StopLoop
  <2>7. CASE Disarm(c)
    BY <2>7 DEF Disarm
  <2>8. CASE BeginRun(c)
    BY <2>8 DEF BeginRun
  <2>9. CASE Succeed(c)
    BY <2>9 DEF Succeed
  <2>10. CASE Arm(c)
    BY <2>10 DEF Arm
  <2>11. CASE FailClaimed(c)
    BY <2>11 DEF FailClaimed
  <2>12. CASE StartReturns(c)
    BY <2>12 DEF StartReturns
  <2>13. CASE Launch(c)
    BY <2>13 DEF Launch
  <2>14. CASE BeginComplete(c)
    BY <2>14 DEF BeginComplete
  <2>15. CASE FinishRun(c)
    BY <2>15 DEF FinishRun
  <2>16. CASE Settle(c)
    BY <2>16 DEF Settle
  <2>17. CASE Clear(c)
    BY <2>17 DEF Clear
  <2>18. CASE Answer(c)
    BY <2>18 DEF Answer
  <2>19. CASE WorkReturns(c)
    BY <2>19 DEF WorkReturns
  <2>20. CASE Same(c)
    BY <2>20 DEF Same, Owns, InRun
  <2> QED
    BY Moves, <2>1, <2>2, <2>3, <2>4, <2>5, <2>6, <2>7, <2>8, <2>9, <2>10, <2>11, <2>12, <2>13, <2>14, <2>15, <2>16, <2>17, <2>18, <2>19, <2>20 DEF Callback
<1> QED
  BY <1>1, <1>2

\* A command that writes its row holds it, unless it looks for it.
LEMMA WritersHold ==
    ASSUME Placed, NEW c \in Command, Writes(c)
    PROVE  Holds(c) \/ (Create(c) /\ (Row(c) = Absent \/ row' = row))
<1>1. CASE Create(c)
  BY <1>1 DEF Create
<1>2. CASE Settle(c)
  BY <1>2 DEF Settle, Placed, Posts, Holds, Owns, InRun
<1>3. CASE ClaimOperation(c) \/ CancelCreated(c) \/ Succeed(c) \/ FailClaimed(c)
  BY <1>3 DEF ClaimOperation, CancelCreated, Succeed, FailClaimed, Holds
<1> QED
  BY <1>1, <1>2, <1>3 DEF Writes

\* Every step leaves one holder.
LEMMA OneHolderStep ==
    ASSUME Placed, OneHolder, [Next]_vars
    PROVE  OneHolder'
<1>r. RowStep
  BY NextRows DEF Placed, LoopTyped, RowsTyped
<1>1. ASSUME NEW c \in Command, Holds(c)' PROVE Row(c)'.status # "absent"
  <2>1. CASE Holds(c)
    <3>1. Row(c).status # "absent" /\ OpOf[c] \in Op
      BY <2>1, LoopAssumption DEF OneHolder
    <3> QED
      BY <3>1, <1>r DEF RowStep, Evolves, Row, Legal, Terminal, Absent
  <2>2. CASE Create(c) /\ Row(c)' = Fresh
    BY <2>2 DEF Fresh
  <2> QED
    BY <1>1, <2>1, <2>2, HoldsMoves
<1>2. ASSUME NEW c \in Command, NEW d \in Command, c # d, OpOf[c] = OpOf[d], Holds(c)', Create(d), Row(d) = Absent
      PROVE  FALSE
  <2>1. ~Holds(c)
    BY <1>2 DEF OneHolder, Row, Absent
  <2>2. at[c] = "new" /\ at'[c] = at[c] /\ noop'[c] = noop[c]
    BY <1>2, <2>1, HoldsMoves DEF Create, Turn, Goes, Placed, LoopTyped
  <2> QED
    BY <1>2, <2>2 DEF Holds, Owns, InRun
<1>3. ASSUME NEW c \in Command, NEW d \in Command, Holds(c)', Holds(d)', OpOf[c] = OpOf[d]
      PROVE  c = d
  <2>1. CASE Holds(c) /\ Holds(d)
    BY <1>3, <2>1 DEF OneHolder
  <2>2. CASE ~(Holds(c) /\ Holds(d))
    BY <1>2, <1>3, <2>2, HoldsMoves
  <2> QED
    BY <2>1, <2>2
<1>4. \A c \in Command : Holds(c)' => Row(c)'.status # "absent"
  BY <1>1
<1>5. \A c, d \in Command : Holds(c)' /\ Holds(d)' /\ OpOf[c] = OpOf[d] => c = d
  BY <1>3
<1> QED
  BY <1>4, <1>5 DEF OneHolder

\* The row that a command holds is written by that command alone; anybody else
\* can only request its cancellation.
LEMMA HeldRow ==
    ASSUME Placed, OneHolder, [Next]_vars, NEW c \in Command, Holds(c)
    PROVE  \/ Row(c)' = Row(c)
           \/ Writes(c)
           \/ \E version : Row(c)' = RequestCancellation(Row(c), version).row
<1>1. OpOf[c] \in Op /\ Row(c).status # "absent"
  BY LoopAssumption DEF OneHolder
<1>2. ASSUME NEW d \in Command, OpOf[d] = OpOf[c], Writes(d) PROVE d = c \/ Row(c)' = Row(c)
  <2>1. CASE Holds(d)
    BY <1>2, <2>1 DEF OneHolder
  <2>2. CASE Create(d) /\ Row(d) = Absent
    BY <1>1, <1>2, <2>2 DEF Row, Absent
  <2>3. CASE row' = row
    BY <2>3 DEF Row
  <2> QED
    BY <1>2, <2>1, <2>2, <2>3, WritersHold
<1> QED
  BY <1>1, <1>2, NextRows DEF RowStep, RowsTyped, Placed, LoopTyped, Row

\* A request for cancellation decides nothing of a running operation, and makes
\* no other one running.
LEMMA RequestOnRunning ==
    ASSUME NEW o \in Operation, NEW version
    PROVE  RequestCancellation(o, version).row.status = "running" <=> o.status = "running"
<1>1. CASE o.status \in Terminal \/ (o.status = "running" /\ o.cancelRequested) \/ o.version # version
  BY <1>1 DEF RequestCancellation, Done, Failed
<1>2. CASE ~(o.status \in Terminal \/ (o.status = "running" /\ o.cancelRequested) \/ o.version # version) /\ o.status = "queued"
  BY <1>2 DEF RequestCancellation, Transition, Done, Failed, Legal, Operation
<1>3. CASE ~(o.status \in Terminal \/ (o.status = "running" /\ o.cancelRequested) \/ o.version # version) /\ o.status # "queued"
  BY <1>3 DEF RequestCancellation, Done, Operation
<1> QED
  BY <1>1, <1>2, <1>3

\* A claim that succeeds leaves the operation running.
LEMMA ClaimRuns ==
    ASSUME NEW o \in Operation, NEW version, Claim(o, version).ok
    PROVE  Claim(o, version).row.status = "running"
BY DEF Claim, Transition, Done, Failed, Operation

\* A run gets to its work by its claim, and does not write its row there.
LEMMA RunsOnMoves ==
    ASSUME Placed, [Next]_vars, NEW c \in Command, RunsOn(c)'
    PROVE  \/ RunsOn(c) /\ ~Writes(c)
           \/ ClaimOperation(c) /\ Stores(c, Claim(Row(c), held[c])) /\ Claim(Row(c), held[c]).ok
<1> SUFFICES ASSUME ~ClaimOperation(c)
             PROVE  RunsOn(c) /\ (at[c] \in {"cancelled", "failed", "succeeded"} => at'[c] = at[c])
  <2>1. CASE ClaimOperation(c)
    BY <2>1 DEF ClaimOperation, Goes, RunsOn, Owns, InRun, Placed, LoopTyped
  <2>2. ASSUME RunsOn(c), Writes(c) PROVE at[c] \in {"cancelled", "failed", "succeeded"} /\ at'[c] = "clear"
    BY <2>2 DEF RunsOn, Owns, InRun, Writes, Create, Turn, ClaimOperation, CancelCreated, Succeed, FailClaimed,
              Settle,
                Goes, Placed, LoopTyped
  <2> QED
    BY <2>1, <2>2
<1> USE DEF Placed, LoopTyped, Posts, Goes, RunsOn, Owns, InRun
<1>1. CASE TurnedAway(c)
  BY <1>1 DEF TurnedAway
<1>2. CASE Create(c)
  BY <1>2 DEF Create
<1>3. CASE ClaimOperation(c)
  BY <1>3
<1>4. CASE CancelCreated(c)
  BY <1>4 DEF CancelCreated
<1>5. CASE StartLoop(c)
  BY <1>5 DEF StartLoop
<1>6. CASE StopLoop(c)
  BY <1>6 DEF StopLoop
<1>7. CASE Disarm(c)
  BY <1>7 DEF Disarm
<1>8. CASE BeginRun(c)
  BY <1>8 DEF BeginRun
<1>9. CASE Succeed(c)
  BY <1>9 DEF Succeed
<1>10. CASE Arm(c)
  BY <1>10 DEF Arm, Starts, Runs
<1>11. CASE FailClaimed(c)
  BY <1>11 DEF FailClaimed
<1>12. CASE StartReturns(c)
  BY <1>12 DEF StartReturns
<1>13. CASE Launch(c)
  BY <1>13 DEF Launch
<1>14. CASE BeginComplete(c)
  BY <1>14 DEF BeginComplete
<1>15. CASE FinishRun(c)
  BY <1>15 DEF FinishRun
<1>16. CASE Settle(c)
  BY <1>16 DEF Settle
<1>17. CASE Clear(c)
  BY <1>17 DEF Clear
<1>18. CASE Answer(c)
  BY <1>18 DEF Answer
<1>19. CASE WorkReturns(c)
  BY <1>19 DEF WorkReturns
<1>20. CASE Same(c)
  BY <1>20 DEF Same
<1> QED
  BY Moves, <1>1, <1>2, <1>3, <1>4, <1>5, <1>6, <1>7, <1>8, <1>9, <1>10, <1>11, <1>12, <1>13, <1>14, <1>15, <1>16, <1>17, <1>18, <1>19, <1>20 DEF Callback

\* service.active names a run only because it began, or still.
LEMMA ActiveCommand ==
    ASSUME LoopTyped, [Next]_vars, NEW c \in Command, active'.command = c
    PROVE  active.command = c \/ BeginRun(c)
<1>1. ASSUME NEW d \in Command, BeginRun(d) PROVE active.command = c \/ BeginRun(c)
  BY <1>1 DEF BeginRun, NoRun
<1>2. ASSUME NEW d \in Command, Clear(d) PROVE active.command = c
  BY <1>2, ActiveRuns DEF Clear
<1>3. ASSUME NEW d \in Command, NEW p \in Plan, Associate(d, p) PROVE active.command = c
  <2>1. active \in ActiveRun
    BY <1>3, ActiveRuns DEF Associate, LoopTyped
  <2> QED
    BY <1>3, <2>1 DEF Associate, ActiveRun
<1>4. ASSUME NEW g \in Canceller, Mark(g) PROVE active.command = c
  BY <1>4 DEF Mark, LoopTyped, ActiveRun, NoRun
<1> QED
  BY <1>1, <1>2, <1>3, <1>4, ActiveMoves

\* Every step keeps the holders running.
LEMMA HoldersStep ==
    ASSUME Placed, OneHolder, HoldersRun, [Next]_vars
    PROVE  HoldersRun'
<1> SUFFICES ASSUME NEW c \in Command
             PROVE  /\ RunsOn(c)' => Row(c)'.status = "running"
                    /\ at'[c] = "claim" => Row(c)'.status # "running"
                    /\ active'.command = c => Row(c)'.status \in {"running"} \cup Terminal
  BY DEF HoldersRun
<1>o. OpOf[c] \in Op /\ Row(c) \in Operation /\ Evolves(Row(c), Row(c)')
  BY LoopAssumption, NextRows DEF RowStep, RowsTyped, Placed, LoopTyped, Row
<1>1. ASSUME RunsOn(c)' PROVE Row(c)'.status = "running"
  <2>1. CASE ClaimOperation(c) /\ Stores(c, Claim(Row(c), held[c])) /\ Claim(Row(c), held[c]).ok
    <3>1. Row(c)' = Claim(Row(c), held[c]).row
      BY <2>1, <1>o DEF Stores, Row, Placed, LoopTyped
    <3> QED
      BY <2>1, <3>1, <1>o, ClaimRuns
  <2>2. CASE RunsOn(c) /\ ~Writes(c)
    <3>1. Holds(c) /\ Row(c).status = "running"
      BY <2>2 DEF RunsOn, Holds, HoldersRun
    <3> QED
      BY <2>2, <3>1, <1>o, HeldRow, RequestOnRunning
  <2> QED
    BY <1>1, <2>1, <2>2, RunsOnMoves
<1>2. ASSUME at'[c] = "claim" PROVE Row(c)'.status # "running"
  <2>1. CASE Create(c) /\ Row(c)' = Fresh
    BY <2>1 DEF Fresh
  <2>2. CASE Holds(c)
    <3>1. at[c] = "claim" /\ ~Writes(c)
      <4> USE <1>2, <2>2 DEF Placed, LoopTyped, Goes
      <4>1. ~Callback(c)
        BY LoopAssumption DEF Callback, TurnedAway, Create, ClaimOperation, CancelCreated, StartLoop, StopLoop,
                  Disarm, BeginRun, Succeed,
               Arm, FailClaimed, StartReturns, Launch, BeginComplete, FinishRun, Settle, Clear, Answer, Turn, Holds,
               Owns, InRun, LoopKinds
      <4>2. ~WorkReturns(c)
        BY DEF WorkReturns
      <4> QED
        BY <4>1, <4>2, Moves DEF Same, Writes, Callback
    <3>2. Row(c).status # "running"
      BY <3>1 DEF HoldersRun
    <3> QED
      BY <2>2, <3>1, <3>2, <1>o, HeldRow, RequestOnRunning
  <2> QED
    BY <1>2, <2>1, <2>2, HoldsMoves DEF Holds
<1>3. ASSUME active'.command = c PROVE Row(c)'.status \in {"running"} \cup Terminal
  <2>1. active.command = c \/ BeginRun(c)
    BY <1>3, ActiveCommand DEF Placed
  <2>2. Row(c).status \in {"running"} \cup Terminal
    BY <2>1 DEF HoldersRun, RunsOn, BeginRun
  <2> QED
    BY <2>2, <1>o DEF Evolves, Legal, Terminal, Absent
<1> QED
  BY <1>1, <1>2, <1>3

\* One holder, and it runs, in every state.
LEMMA StaysRunning == Safety => [](Placed /\ OneHolder /\ HoldersRun)
<1>1. Init => Placed /\ OneHolder /\ HoldersRun
  BY InitTyped, LoopAssumption
     DEF Init, Placed, Posts, OwnersActive, OneHolder, HoldersRun, Holds, RunsOn, Owns, InRun, NoRun
<1>2. Placed /\ OneHolder /\ HoldersRun /\ [Next]_vars => (Placed /\ OneHolder /\ HoldersRun)'
  BY NextTyped, PostsStep, OwnersStep, OneHolderStep, HoldersStep DEF Placed
<1> QED
  BY <1>1, <1>2, PTL DEF Safety

\* A run works on an operation that is still running, whatever its retries, the
\* stops and the clients of the operations endpoint do to the row meanwhile.
THEOREM RunsWorkOnRunning == Safety => []WorksOnRunning
<1>1. HoldersRun => WorksOnRunning
  BY DEF HoldersRun, WorksOnRunning, RunsOn, Owns, InRun
<1> QED
  BY <1>1, StaysRunning, PTL

-----------------------------------------------------------------------------
(* A cancelled operation does not succeed *)

\* The version v of the row o is that of its claim or was marked since: a
\* transaction given v succeeds only if no cancellation was requested.
Knows(v, o) ==
    /\ o.status \in {"running"} \cup Terminal
    /\ v <= o.version
    /\ o.cancelRequested => v < o.version
    /\ o.status = "running" /\ ~o.cancelRequested => v = o.version

\* At these labels a command will settle with the version of its claim.
Settling == {"start", "stop", "run", "disarm", "succeed", "succeedAndArm", "finish", "succeeded"}

Known ==
    /\ \A o \in Op : row[o].cancelRequested => row[o].status \notin {"queued", "succeeded"}
    /\ \A c \in Command : at[c] \in Settling => Knows(held[c], Row(c))
    /\ \A c \in Command : active.command = c /\ ~active.cancelled => Knows(active.version, Row(c))

\* What the second part of the invariant says of a run's operation.
Engaged == Placed /\ OneHolder /\ HoldersRun

\* What was known of a row stays known.
LEMMA KnowsLasts ==
    ASSUME NEW o \in Operation, NEW p \in Operation, NEW v \in Nat, Knows(v, o), Evolves(o, p)
    PROVE  Knows(v, p)
<1> USE DEF Operation
<1>1. CASE p = o
  BY <1>1
<1>2. CASE o = Absent
  BY <1>2 DEF Knows, Absent, Terminal
<1>3. CASE p.status \in Legal(o.status) /\ p.version = o.version + 1 /\ p.cancelRequested = o.cancelRequested
  <2>1. o.status = "running" /\ p.status \in Terminal
    BY <1>3 DEF Knows, Legal, Terminal
  <2>2. v <= p.version /\ v < p.version
    BY <1>3 DEF Knows
  <2> QED
    BY <2>1, <2>2 DEF Knows, Terminal
<1>4. CASE o.status \in {"running", "absent"} /\ p.status = o.status /\ p.version = o.version + 1 /\ p.cancelRequested
  BY <1>4 DEF Knows, Terminal
<1> QED
  BY <1>1, <1>2, <1>3, <1>4 DEF Evolves

\* A transition to succeeded needs the current version.
LEMMA SuccessNeedsVersion ==
    ASSUME NEW o \in Operation, NEW v, NEW target \in Status, o.status # "succeeded",
           Transition(o, v, target).row.status = "succeeded"
    PROVE  o.version = v /\ o.status = "running"
BY DEF Transition, Done, Failed, Legal, Operation, Terminal

\* A claim by the version of a queued operation is known to the command.
LEMMA ClaimKnows ==
    ASSUME NEW o \in Operation, NEW v, Claim(o, v).ok, o.status # "running", ~(o.status = "queued" /\ o.cancelRequested)
    PROVE  Knows(Claim(o, v).row.version, Claim(o, v).row)
<1>1. o.status = "queued" /\ ~o.cancelRequested
  BY DEF Claim, Failed
<1>2. Claim(o, v).row = [o EXCEPT !.status = "running", !.version = @ + 1]
  BY <1>1 DEF Claim, Transition, Done, Failed
<1> QED
  BY <1>1, <1>2 DEF Knows, Operation

\* A command goes on when it has written its row.
LEMMA WritersMove ==
    ASSUME LoopTyped, NEW c \in Command, Writes(c)
    PROVE  /\ at[c] \in {"new", "claim", "unclaim", "succeed", "succeedAndArm", "fail", "cancelled", "failed", "succeeded"}
           /\ at'[c] # at[c]
BY LoopAssumption DEF LoopTyped, Goes, Writes, Create, Turn, ClaimOperation, CancelCreated, Succeed, FailClaimed,
          Settle,
   LoopKinds

\* A command settles with the version of its claim, or of the active run.
LEMMA SettlingMoves ==
    ASSUME Engaged, [Next]_vars, NEW c \in Command, at'[c] \in Settling
    PROVE  \/ at[c] \in Settling /\ held'[c] = held[c] /\ ~Writes(c)
           \/ ClaimOperation(c) /\ Stores(c, Claim(Row(c), held[c])) /\ Claim(Row(c), held[c]).ok
           \/ BeginComplete(c) /\ held'[c] = active.version /\ active.command = c /\ ~active.cancelled
<1>w. /\ Writes(c) => at[c] \in {"new", "claim", "unclaim", "succeed", "succeedAndArm", "fail", "cancelled", "failed", "succeeded"}
      /\ Writes(c) => at'[c] # at[c]
  BY WritersMove DEF Engaged, Placed
<1> USE <1>w DEF Engaged, Placed, LoopTyped, Goes, Settling
<1>1. CASE TurnedAway(c)
  BY <1>1 DEF TurnedAway
<1>2. CASE Create(c)
  BY <1>2 DEF Create
<1>3. CASE ClaimOperation(c)
  BY <1>3 DEF ClaimOperation
<1>4. CASE CancelCreated(c)
  BY <1>4 DEF CancelCreated
<1>5. CASE StartLoop(c)
  BY <1>5 DEF StartLoop
<1>6. CASE StopLoop(c)
  BY <1>6 DEF StopLoop
<1>7. CASE Disarm(c)
  BY <1>7 DEF Disarm
<1>8. CASE BeginRun(c)
  BY <1>8 DEF BeginRun
<1>9. CASE Succeed(c)
  BY <1>9 DEF Succeed
<1>10. CASE Arm(c)
  BY <1>10 DEF Arm
<1>11. CASE FailClaimed(c)
  BY <1>11 DEF FailClaimed
<1>12. CASE StartReturns(c)
  BY <1>12 DEF StartReturns
<1>13. CASE Launch(c)
  BY <1>13 DEF Launch
<1>14. CASE BeginComplete(c)
  BY <1>14 DEF BeginComplete, CurrentVersion, Posts
<1>15. CASE FinishRun(c)
  BY <1>15 DEF FinishRun
<1>16. CASE Settle(c)
  BY <1>16 DEF Settle
<1>17. CASE Clear(c)
  BY <1>17 DEF Clear
<1>18. CASE Answer(c)
  BY <1>18 DEF Answer
<1>19. CASE WorkReturns(c)
  BY <1>19 DEF WorkReturns
<1>20. CASE Same(c)
  BY <1>20 DEF Same
<1> QED
  BY Moves, <1>1, <1>2, <1>3, <1>4, <1>5, <1>6, <1>7, <1>8, <1>9, <1>10, <1>11, <1>12, <1>13, <1>14, <1>15, <1>16, <1>17, <1>18, <1>19, <1>20 DEF Callback

\* Every step keeps what callbacks know.
LEMMA KnownStep ==
    ASSUME Engaged, Known, [Next]_vars
    PROVE  Known'
<1>r. RowStep
  BY NextRows DEF Engaged, Placed, LoopTyped, RowsTyped
<1>o. ASSUME NEW c \in Command
      PROVE  OpOf[c] \in Op /\ Row(c) \in Operation /\ Row(c)' \in Operation /\ Evolves(Row(c), Row(c)')
  BY <1>r, LoopAssumption DEF RowStep, Engaged, Placed, LoopTyped, Row
<1>1. ASSUME NEW o \in Op, row'[o].cancelRequested PROVE row'[o].status \notin {"queued", "succeeded"}
  <2>0. row[o] \in Operation /\ Evolves(row[o], row'[o])
    BY <1>r DEF RowStep, Engaged, Placed, LoopTyped
  <2>1. CASE row'[o] = row[o]
    BY <1>1, <2>1 DEF Known
  <2>2. CASE row'[o].status \in Legal(row[o].status) /\ row'[o].cancelRequested = row[o].cancelRequested
    <3>1. row[o].status = "running" /\ row'[o].status # "queued"
      BY <1>1, <2>0, <2>2 DEF Known, Legal, Terminal
    <3>2. ASSUME row'[o].status = "succeeded" PROVE FALSE
      <4>1. PICK c \in Command : OpOf[c] = o /\ Writes(c)
        <5>1. row'[o] # row[o]
          BY <3>1, <3>2
        <5>2. ASSUME NEW version PROVE row'[o] # RequestCancellation(row[o], version).row
          BY <2>0, <3>1, <3>2, RequestOnRunning
        <5> QED
          BY <1>r, <5>1, <5>2 DEF RowStep
      <4>2. row[o] = Row(c) /\ row'[o] = Row(c)'
        BY <4>1 DEF Row
      <4>3. PICK target \in Status : Row(c)' = Transition(Row(c), held[c], target).row
                                     /\ (target = "succeeded" => at[c] \in Settling)
        <5> USE <3>1, <3>2, <4>1, <4>2 DEF Stores, Row, Engaged, Placed, LoopTyped, Status, Terminal, Settling
        <5>1. CASE Create(c)
          BY <5>1 DEF Create, Done, Fresh, Absent
        <5>2. CASE ClaimOperation(c)
          BY <5>2 DEF ClaimOperation, HoldersRun
        <5>3. CASE CancelCreated(c)
          BY <5>3 DEF CancelCreated
        <5>4. CASE Succeed(c)
          BY <5>4 DEF Succeed
        <5>5. CASE FailClaimed(c)
          BY <5>5 DEF FailClaimed
        <5>6. CASE Settle(c)
          BY <5>6 DEF Settle
        <5> QED
          BY <4>1, <5>1, <5>2, <5>3, <5>4, <5>5, <5>6 DEF Writes
      <4>4. target = "succeeded" /\ Row(c).version = held[c]
        BY <1>o, <3>1, <3>2, <4>2, <4>3, SuccessNeedsVersion DEF Transition, Done, Failed
      <4>5. Knows(held[c], Row(c))
        BY <4>3, <4>4 DEF Known
      <4>6. ~Row(c).cancelRequested
        BY <1>o, <4>4, <4>5 DEF Knows, Operation
      <4> QED
        BY <1>1, <2>2, <4>2, <4>6
    <3> QED
      BY <3>1, <3>2
  <2>3. CASE row[o].status \in {"running", "absent"} /\ row'[o].status = row[o].status
    BY <2>3
  <2>4. CASE row[o] = Absent /\ row'[o] = Fresh
    BY <1>1, <2>4 DEF Fresh
  <2> QED
    BY <2>0, <2>1, <2>2, <2>3, <2>4 DEF Evolves
<1>2. ASSUME NEW c \in Command, at'[c] \in Settling PROVE Knows(held'[c], Row(c)')
  <2>0. held[c] \in Nat /\ active.version \in Nat
    BY ActiveRuns DEF Engaged, Placed, LoopTyped
  <2>1. CASE at[c] \in Settling /\ held'[c] = held[c]
    BY <2>0, <2>1, <1>o, KnowsLasts DEF Known
  <2>2. CASE ClaimOperation(c) /\ Stores(c, Claim(Row(c), held[c])) /\ Claim(Row(c), held[c]).ok
    <3>1. Row(c)' = Claim(Row(c), held[c]).row /\ held'[c] = Claim(Row(c), held[c]).row.version
      BY <2>2, <1>o DEF Stores, Row, Engaged, Placed, LoopTyped
    <3>2. Row(c).status # "running" /\ ~(Row(c).status = "queued" /\ Row(c).cancelRequested)
      BY <2>2, <1>o DEF ClaimOperation, HoldersRun, Engaged, Known, Row
    <3> QED
      BY <2>2, <3>1, <3>2, <1>o, ClaimKnows
  <2>3. CASE held'[c] = active.version /\ active.command = c /\ ~active.cancelled
    BY <2>0, <2>3, <1>o, KnowsLasts DEF Known
  <2> QED
    BY <1>2, <2>1, <2>2, <2>3, SettlingMoves
<1>3. ASSUME NEW c \in Command, active'.command = c, ~active'.cancelled PROVE Knows(active'.version, Row(c)')
  <2>0. held[c] \in Nat /\ active.version \in Nat
    BY ActiveRuns DEF Engaged, Placed, LoopTyped
  <2>1. CASE active.command = c /\ active'.version = active.version /\ ~active.cancelled
    BY <2>0, <2>1, <1>o, KnowsLasts DEF Known
  <2>2. CASE at[c] = "run" /\ active'.version = held[c]
    BY <2>0, <2>2, <1>o, KnowsLasts DEF Known, Settling
  <2>3. ASSUME NEW d \in Command, BeginRun(d)
        PROVE  active' = active \/ (at[c] = "run" /\ active'.version = held[c])
    BY <1>3, <2>3 DEF BeginRun, NoRun
  <2>4. ASSUME NEW d \in Command, Clear(d) PROVE active' = active
    BY <1>3, <2>4, ActiveRuns DEF Clear
  <2>5. ASSUME NEW d \in Command, NEW p \in Plan, Associate(d, p)
        PROVE  active.command = c /\ active'.version = active.version /\ ~active.cancelled
    <3>1. active \in ActiveRun
      BY <2>5, ActiveRuns DEF Associate, Engaged, Placed, LoopTyped
    <3> QED
      BY <1>3, <2>5, <3>1 DEF Associate, ActiveRun
  <2>6. ASSUME NEW g \in Canceller, Mark(g) PROVE active' = active
    BY <1>3, <2>6 DEF Mark, Engaged, Placed, LoopTyped, ActiveRun, NoRun
  <2> QED
    BY <1>3, <2>1, <2>2, <2>3, <2>4, <2>5, <2>6, ActiveMoves
<1> QED
  BY <1>1, <1>2, <1>3 DEF Known, Row

\* What callbacks know holds in every state.
LEMMA StaysKnown == Safety => [](Engaged /\ Known)
<1>1. Init => Known
  BY LoopAssumption DEF Init, Known, Settling, NoRun, Absent
<1> QED
  BY <1>1, StaysRunning, KnownStep, PTL DEF Safety, Engaged

\* Once its cancellation is recorded an operation does not end as succeeded,
\* however the steps of the canceller, of the completion and of other clients
\* interleave: the version decides (cancelActiveOperation, complete).
THEOREM CancelledDoesNotSucceed == Safety => []CancelledNeverSucceeds
<1>1. Known => CancelledNeverSucceeds
  BY DEF Known, CancelledNeverSucceeds
<1> QED
  BY <1>1, StaysKnown, PTL

-----------------------------------------------------------------------------
(* The stop of a plan is not lost *)

\* A run that claimed a plan somebody asked to stop cancels itself, and nothing
\* but a failing store can keep it from that.
Stopping ==
    /\ faults \in Nat
    /\ \A c \in Command : at[c] \in {"new", "claim", "run"} => step[c] = "idle"
    /\ \A c \in Command : active.command = c => c \in Runs
    /\ \A c \in Command :
          step[c] = "request" /\ aim[c] = c /\ active.command = c /\ ~active.cancelled => Knows(seen[c], Row(c))
    /\ faults = 0 /\ active.plan \in planStops /\ ~active.cancelled =>
          LET c == active.command IN c \in Command /\ aim[c] = c /\ step[c] \in {"look", "request", "mark"}

Settled == Engaged /\ Known

\* The number of failed store calls never shrinks.
LEMMA FaultsGrow ==
    ASSUME faults \in Nat, [Next]_vars
    PROVE  faults' \in {faults, faults + 1}
<1> USE DEF Fault, Works, Fails
<1>1. ASSUME NEW c \in Command, Callback(c) PROVE faults' \in {faults, faults + 1}
  BY <1>1 DEF Callback, TurnedAway, Create, ClaimOperation, CancelCreated, StartLoop, StopLoop, Disarm, BeginRun,
            Succeed,
              Arm, FailClaimed, StartReturns, Launch, BeginComplete, FinishRun, Settle, Clear, Answer
<1>2. CASE \/ \E c \in Command : Submit(c) \/ Executing(c) \/ CallerLeaves(c) \/ Working(c)
           \/ \E s \in Starts : Timing(s)
           \/ \E g \in Stopper : StopPlan(g)
           \/ \E g \in Canceller : Cancelling(g)
           \/ \E o \in Op : RestCancel(o)
           \/ UNCHANGED vars
  BY <1>2 DEF Submit, Executing, Link, Return, CallerLeaves, Working, WorkReturns, Associate, Timing, Fire, Tick,
            Sleep,
              StopPlan, Cancelling, Look, Request, Mark, RestCancel, vars
<1> QED
  BY <1>1, <1>2 DEF Next

\* A stop is remembered by plan.stop and forgotten with the run
\* (CancelPlanExecution, clearActive).
LEMMA StopsMove ==
    ASSUME [Next]_vars
    PROVE  \/ planStops' = planStops
           \/ active' = NoRun
           \/ active' = active /\ active.plan = NoPlan /\ planStops \subseteq planStops'
<1>1. ASSUME NEW c \in Command, Callback(c) PROVE planStops' = planStops \/ active' = NoRun
  BY <1>1 DEF Callback, TurnedAway, Create, ClaimOperation, CancelCreated, StartLoop, StopLoop, Disarm, BeginRun,
            Succeed,
              Arm, FailClaimed, StartReturns, Launch, BeginComplete, FinishRun, Settle, Clear, Answer
<1>2. ASSUME NEW g \in Stopper, StopPlan(g)
      PROVE  planStops' = planStops \/ (active' = active /\ active.plan = NoPlan /\ planStops \subseteq planStops')
  BY <1>2 DEF StopPlan
<1>3. CASE \/ \E c \in Command : Submit(c) \/ Executing(c) \/ CallerLeaves(c) \/ Working(c)
           \/ \E s \in Starts : Timing(s)
           \/ \E g \in Canceller : Cancelling(g)
           \/ \E o \in Op : RestCancel(o)
           \/ UNCHANGED vars
  BY <1>3 DEF Submit, Executing, Link, Return, CallerLeaves, Working, WorkReturns, Associate, Timing, Fire, Tick,
            Sleep,
              Cancelling, Look, Request, Mark, RestCancel, vars
<1> QED
  BY <1>1, <1>2, <1>3 DEF Next

\* The steps of one canceller.
LEMMA CancellerMoves ==
    ASSUME LoopTyped, [Next]_vars, NEW c \in Command
    PROVE  \/ step'[c] = step[c] /\ seen'[c] = seen[c] /\ aim'[c] = aim[c]
           \/ Disarm(c) \/ Look(c) \/ Request(c) \/ Mark(c)
           \/ \E p \in Plan : Associate(c, p)
<1> DEFINE Still == step'[c] = step[c] /\ seen'[c] = seen[c] /\ aim'[c] = aim[c]
<1> USE DEF LoopTyped, Canceller
<1>1. ASSUME NEW d \in Command, Callback(d) PROVE Still \/ Disarm(c)
  <2>1. CASE Disarm(d)
    BY <2>1 DEF Disarm
  <2>2. CASE ~Disarm(d)
    BY <1>1, <2>2 DEF Callback, TurnedAway, Create, ClaimOperation, CancelCreated, StartLoop, StopLoop, BeginRun,
              Succeed,
              Arm, FailClaimed, StartReturns, Launch, BeginComplete, FinishRun, Settle, Clear, Answer, cancelVars
  <2> QED
    BY <2>1, <2>2
<1>2. ASSUME NEW g \in Canceller, Cancelling(g) PROVE Still \/ Look(c) \/ Request(c) \/ Mark(c)
  <2>1. CASE g = c
    BY <1>2, <2>1 DEF Cancelling
  <2>2. CASE g # c
    BY <1>2, <2>2 DEF Cancelling, Look, Request, Mark
  <2> QED
    BY <2>1, <2>2
<1>3. ASSUME NEW d \in Command, NEW p \in Plan, Associate(d, p) PROVE Still \/ Associate(c, p)
  BY <1>3 DEF Associate
<1>4. ASSUME NEW g \in Stopper, StopPlan(g) PROVE Still
  BY <1>4, LoopAssumption DEF StopPlan
<1>5. CASE \/ \E d \in Command : Submit(d) \/ Executing(d) \/ CallerLeaves(d) \/ WorkReturns(d)
           \/ \E s \in Starts : Timing(s)
           \/ \E o \in Op : RestCancel(o)
           \/ UNCHANGED vars
  BY <1>5 DEF Submit, Executing, Link, Return, CallerLeaves, WorkReturns, Timing, Fire, Tick, Sleep, RestCancel,
            cancelVars, vars
<1> QED
  BY <1>1, <1>2, <1>3, <1>4, <1>5 DEF Next, Working

\* Before it works a command has nothing to cancel.
LEMMA IdleBefore ==
    ASSUME Settled, Stopping, [Next]_vars, NEW c \in Command, at'[c] \in {"new", "claim", "run"}
    PROVE  step'[c] = "idle"
<1>1. at[c] \in {"new", "claim", "run"} /\ ~Disarm(c)
  <2> USE LoopAssumption DEF Settled, Engaged, Placed, LoopTyped, Goes
  <2>1. Callback(c) => at[c] \in {"new", "claim", "run"}
    BY DEF Callback, TurnedAway, Create, Turn, ClaimOperation, CancelCreated, StartLoop, StopLoop, Disarm, BeginRun,
              Succeed,
              Arm, FailClaimed, StartReturns, Launch, BeginComplete, FinishRun, Settle, Clear, Answer
  <2>2. ~WorkReturns(c)
    BY DEF WorkReturns
  <2>3. ~Disarm(c)
    BY DEF Disarm
  <2> QED
    BY <2>1, <2>2, <2>3, Moves DEF Same
<1>2. step[c] = "idle"
  BY <1>1 DEF Stopping
<1> QED
  BY <1>1, <1>2, CancellerMoves DEF Look, Request, Mark, Associate, Settled, Engaged, Placed

\* The run stays the active one and uncancelled, or it has just begun.
LEMMA StillActive ==
    ASSUME LoopTyped, [Next]_vars, NEW c \in Command, active'.command = c, ~active'.cancelled, ~BeginRun(c)
    PROVE  active.command = c /\ ~active.cancelled /\ active'.version = active.version
<1>1. ASSUME NEW d \in Command, BeginRun(d) PROVE active' = active
  BY <1>1 DEF BeginRun, NoRun
<1>2. ASSUME NEW d \in Command, Clear(d) PROVE active' = active
  BY <1>2, ActiveRuns DEF Clear
<1>3. ASSUME NEW d \in Command, NEW p \in Plan, Associate(d, p)
      PROVE  active.command = c /\ active'.version = active.version /\ ~active.cancelled
  <2>1. active \in ActiveRun
    BY <1>3, ActiveRuns DEF Associate, LoopTyped
  <2> QED
    BY <1>3, <2>1 DEF Associate, ActiveRun
<1>4. ASSUME NEW g \in Canceller, Mark(g) PROVE active' = active
  BY <1>4 DEF Mark, LoopTyped, ActiveRun, NoRun
<1> QED
  BY <1>1, <1>2, <1>3, <1>4, ActiveMoves

\* The transaction that cancels a running operation is accepted at a known version.
LEMMA RequestAccepted ==
    ASSUME NEW o \in Operation, NEW v, Knows(v, o)
    PROVE  RequestCancellation(o, v).ok
BY DEF Knows, RequestCancellation, Done, Terminal, Operation

\* A canceller of the active run itself is about to request its cancellation by
\* the version of the run.
LEMMA RequestKnows ==
    ASSUME Settled, Stopping, [Next]_vars, NEW c \in Command,
           step'[c] = "request", aim'[c] = c, active'.command = c, ~active'.cancelled
    PROVE  Knows(seen'[c], Row(c)')
<1>o. OpOf[c] \in Op /\ Row(c) \in Operation /\ Row(c)' \in Operation /\ Evolves(Row(c), Row(c)')
  BY NextRows, LoopAssumption DEF RowStep, RowsTyped, Settled, Engaged, Placed, LoopTyped, Row
<1> USE DEF Settled, Engaged, Placed, LoopTyped, Canceller
<1>1. CASE Look(c)
  <2>1. active.command = c /\ ~active.cancelled /\ seen'[c] = active.version
    BY <1>1 DEF Look
  <2>2. active.version \in Nat
    BY ActiveRuns
  <2> QED
    BY <2>1, <2>2, <1>o, KnowsLasts DEF Known
<1>2. CASE step'[c] = step[c] /\ seen'[c] = seen[c] /\ aim'[c] = aim[c]
  <2>1. ~BeginRun(c)
    BY <1>2 DEF BeginRun, Stopping
  <2>2. active.command = c /\ ~active.cancelled
    BY <2>1, StillActive
  <2>3. Knows(seen[c], Row(c)) /\ seen[c] \in Nat
    BY <1>2, <2>2 DEF Stopping
  <2> QED
    BY <1>2, <2>3, <1>o, KnowsLasts
<1>3. ~Disarm(c) /\ ~Request(c) /\ ~Mark(c) /\ \A p \in Plan : ~Associate(c, p)
  BY DEF Disarm, Request, Mark, Associate
<1> QED
  BY <1>1, <1>2, <1>3, CancellerMoves

\* The run goes on cancelling itself until it is cancelled.
LEMMA GoesOn ==
    ASSUME Settled, Stopping, [Next]_vars, faults' = 0, faults = 0, NEW c \in Command,
           active' = active, active.command = c, ~active.cancelled, aim[c] = c, step[c] \in {"look", "request", "mark"}
    PROVE  aim'[c] = c /\ step'[c] \in {"look", "request", "mark"}
<1> USE DEF Settled, Engaged, Placed, LoopTyped, Canceller
<1>1. KindOf[c] = "run"
  BY DEF Stopping, Runs
<1>2. CASE Disarm(c)
  BY <1>1, <1>2 DEF Disarm, Posts
<1>3. CASE Look(c)
  BY <1>3 DEF Look
<1>4. CASE Request(c)
  <2>1. CASE step[c] = "request"
    <3>1. RequestCancellation(Row(c), seen[c]).ok
      <4>1. Knows(seen[c], Row(c)) /\ Row(c) \in Operation
        BY <2>1, LoopAssumption DEF Stopping, Row
      <4> QED
        BY <4>1, RequestAccepted
    <3>2. ~Abandoned(c) /\ ~Fault
      BY <1>1 DEF Abandoned, Fault
    <3> QED
      BY <1>4, <3>1, <3>2 DEF Request, Row
  <2> QED
    BY <1>4, <2>1 DEF Request
<1>5. CASE Mark(c)
  BY <1>5 DEF Mark, ActiveRun, NoRun
<1>6. CASE \E p \in Plan : Associate(c, p)
  BY <1>6 DEF Associate
<1> QED
  BY <1>2, <1>3, <1>4, <1>5, <1>6, CancellerMoves

\* Every step keeps a plan that is stopping on its way.
LEMMA StoppingStep ==
    ASSUME Settled, Stopping, [Next]_vars
    PROVE  Stopping'
<1> USE DEF Settled, Engaged, Placed
<1>f. faults \in Nat /\ faults' \in {faults, faults + 1}
  BY FaultsGrow DEF Stopping
<1>t. LoopTyped'
  BY NextTyped
<1>1. ASSUME NEW c \in Command, active'.command = c PROVE c \in Runs
  BY <1>1, ActiveCommand DEF Stopping, BeginRun, Posts
<1>2. ASSUME faults' = 0, active'.plan \in planStops', ~active'.cancelled
      PROVE  LET c == active'.command IN c \in Command /\ aim'[c] = c /\ step'[c] \in {"look", "request", "mark"}
  <2>0. faults = 0 /\ active' # NoRun /\ active'.plan # NoPlan
    BY <1>2, <1>f, <1>t, LoopAssumption DEF LoopTyped, NoRun
  <2>1. CASE active' = active
    <3>1. planStops' = planStops
      BY <2>0, <2>1, StopsMove
    <3>2. /\ active.command \in Command /\ aim[active.command] = active.command
          /\ step[active.command] \in {"look", "request", "mark"}
      BY <1>2, <2>0, <2>1, <3>1 DEF Stopping
    <3> QED
      BY <1>2, <2>0, <2>1, <3>2, GoesOn
  <2>2. ASSUME NEW d \in Command, BeginRun(d) PROVE active' = active
    BY <2>0, <2>2 DEF BeginRun, NoRun
  <2>3. ASSUME NEW d \in Command, Clear(d) PROVE active' = active
    BY <2>0, <2>3 DEF Clear
  <2>4. ASSUME NEW g \in Canceller, Mark(g) PROVE active' = active
    BY <1>2, <2>0, <2>4 DEF Mark, LoopTyped, ActiveRun, NoRun
  <2>5. ASSUME NEW d \in Command, NEW p \in Plan, Associate(d, p)
        PROVE  LET c == active'.command IN c \in Command /\ aim'[c] = c /\ step'[c] \in {"look", "request", "mark"}
    <3>1. active \in ActiveRun
      BY <2>5, ActiveRuns DEF Associate, LoopTyped
    <3>2. active'.command = d /\ active'.plan = p /\ planStops' = planStops
      BY <2>5, <3>1 DEF Associate, ActiveRun
    <3>3. step' = [step EXCEPT ![d] = "look"] /\ aim' = [aim EXCEPT ![d] = d]
      BY <1>2, <2>5, <3>2 DEF Associate, StopPending
    <3> QED
      BY <3>2, <3>3 DEF LoopTyped, Canceller
  <2> QED
    BY <2>1, <2>2, <2>3, <2>4, <2>5, ActiveMoves
<1>3. \A c \in Command : at'[c] \in {"new", "claim", "run"} => step'[c] = "idle"
  BY IdleBefore
<1>4. \A c \in Command : step'[c] = "request" /\ aim'[c] = c /\ active'.command = c /\ ~active'.cancelled
                         => Knows(seen'[c], Row(c)')
  BY RequestKnows
<1> QED
  BY <1>f, <1>1, <1>2, <1>3, <1>4 DEF Stopping, Row

\* A plan stop that found the run has left word for it, or goes on cancelling
\* it, and nothing but a failing store can keep it from that.  The run it found
\* had begun, so that no run that begins later is taken for it.
Before == {"new", "claim", "run"}
Heeding ==
    /\ \A c \in Command : active.command = c => at[c] \notin Before
    /\ \A g \in Stopper : step[g] # "idle" => aim[g] \in Command /\ at[aim[g]] \notin Before
    /\ \A g \in Stopper :
          step[g] = "request" /\ aim[g] = active.command /\ ~active.cancelled => Knows(seen[g], Row(aim[g]))
    /\ \A g \in Stopper :
          faults = 0 /\ step[g] # "idle" /\ aim[g] = active.command /\ ~active.cancelled =>
              PlanOf[g] \in planStops \/ step[g] \in {"look", "request", "mark"}

\* The steps of one plan stop.
LEMMA StopperMoves ==
    ASSUME LoopTyped, [Next]_vars, NEW g \in Stopper
    PROVE  \/ step'[g] = step[g] /\ seen'[g] = seen[g] /\ aim'[g] = aim[g]
           \/ StopPlan(g) \/ Look(g) \/ Request(g) \/ Mark(g)
<1> DEFINE Still == step'[g] = step[g] /\ seen'[g] = seen[g] /\ aim'[g] = aim[g]
<1> USE LoopAssumption DEF LoopTyped, Canceller
<1>1. ASSUME NEW d \in Command, Callback(d) PROVE Still
  <2>1. CASE Disarm(d)
    BY <2>1 DEF Disarm
  <2>2. CASE ~Disarm(d)
    BY <1>1, <2>2 DEF Callback, TurnedAway, Create, ClaimOperation, CancelCreated, StartLoop, StopLoop, BeginRun,
              Succeed,
              Arm, FailClaimed, StartReturns, Launch, BeginComplete, FinishRun, Settle, Clear, Answer, cancelVars
  <2> QED
    BY <2>1, <2>2
<1>2. ASSUME NEW h \in Canceller, Cancelling(h) PROVE Still \/ Look(g) \/ Request(g) \/ Mark(g)
  <2>1. CASE h = g
    BY <1>2, <2>1 DEF Cancelling
  <2>2. CASE h # g
    BY <1>2, <2>2 DEF Cancelling, Look, Request, Mark
  <2> QED
    BY <2>1, <2>2
<1>3. ASSUME NEW d \in Command, NEW p \in Plan, Associate(d, p) PROVE Still
  BY <1>3 DEF Associate
<1>4. ASSUME NEW h \in Stopper, StopPlan(h) PROVE Still \/ StopPlan(g)
  BY <1>4 DEF StopPlan
<1>5. CASE \/ \E d \in Command : Submit(d) \/ Executing(d) \/ CallerLeaves(d) \/ WorkReturns(d)
           \/ \E s \in Starts : Timing(s)
           \/ \E o \in Op : RestCancel(o)
           \/ UNCHANGED vars
  BY <1>5 DEF Submit, Executing, Link, Return, CallerLeaves, WorkReturns, Timing, Fire, Tick, Sleep, RestCancel,
            cancelVars, vars
<1> QED
  BY <1>1, <1>2, <1>3, <1>4, <1>5 DEF Next, Working

\* A command that has begun does not begin again.
LEMMA BegunStays ==
    ASSUME Settled, [Next]_vars, NEW c \in Command, at[c] \notin Before
    PROVE  at'[c] \notin Before
<1> USE LoopAssumption DEF Settled, Engaged, Placed, LoopTyped, Goes, Before, LoopKinds
<1>1. Callback(c) => at'[c] \notin Before
  BY DEF Callback, TurnedAway, Create, Turn, ClaimOperation, CancelCreated, StartLoop, StopLoop, Disarm, BeginRun,
            Succeed,
            Arm, FailClaimed, StartReturns, Launch, BeginComplete, FinishRun, Settle, Clear, Answer
<1>2. WorkReturns(c) => at'[c] \notin Before
  BY DEF WorkReturns
<1> QED
  BY <1>1, <1>2, Moves DEF Same

\* A plan stop that will request the cancellation knows the version of the run.
LEMMA StopperKnows ==
    ASSUME Settled, Heeding, [Next]_vars, NEW g \in Stopper,
           step'[g] = "request", aim'[g] = active'.command, ~active'.cancelled
    PROVE  Knows(seen'[g], row'[OpOf[aim'[g]]])
<1> USE DEF Settled, Engaged, Placed, LoopTyped, Canceller
<1>0. ~StopPlan(g) /\ ~Request(g) /\ ~Mark(g)
  BY DEF StopPlan, Asks, Request, Mark
<1>1. step[g] # "idle" /\ aim'[g] = aim[g] /\ aim[g] \in Command
  BY <1>0, StopperMoves DEF Look, Heeding
<1>c. PICK c \in Command : c = aim[g]
  BY <1>1
<1>b. at[c] \notin Before
  BY <1>1, <1>c DEF Heeding
<1>o. OpOf[c] \in Op /\ Row(c) \in Operation /\ Row(c)' \in Operation /\ Evolves(Row(c), Row(c)')
  BY NextRows, LoopAssumption DEF RowStep, RowsTyped, Row
<1>r. row'[OpOf[aim'[g]]] = Row(c)' /\ Row(c) = Row(aim[g])
  BY <1>1, <1>c DEF Row
<1>2. CASE Look(g)
  <2>1. active.command = c /\ ~active.cancelled /\ seen'[g] = active.version
    BY <1>2, <1>1, <1>c DEF Look
  <2>2. active.version \in Nat
    BY ActiveRuns
  <2> QED
    BY <2>1, <2>2, <1>o, <1>r, <1>1, KnowsLasts DEF Known
<1>3. CASE step'[g] = step[g] /\ seen'[g] = seen[g] /\ aim'[g] = aim[g]
  <2>1. ~BeginRun(c)
    BY <1>b DEF BeginRun, Before
  <2>2. active.command = c /\ ~active.cancelled
    BY <2>1, <1>1, <1>c, StillActive
  <2>3. Knows(seen[g], Row(c)) /\ seen[g] \in Nat
    BY <1>3, <1>c, <1>r, <2>2 DEF Heeding
  <2> QED
    BY <1>3, <2>3, <1>o, <1>r, KnowsLasts
<1> QED
  BY <1>0, <1>2, <1>3, StopperMoves

\* A plan stop neither forgets its word nor gives up on the run it found.
LEMMA StopperGoesOn ==
    ASSUME Settled, Heeding, faults \in Nat, faults' \in {faults, faults + 1}, [Next]_vars, NEW g \in Stopper,
           faults' = 0, step'[g] # "idle", aim'[g] = active'.command, ~active'.cancelled, active'.command \in Command
    PROVE  PlanOf[g] \in planStops' \/ step'[g] \in {"look", "request", "mark"}
<1> DEFINE c == aim[g]
<1> USE DEF Settled, Engaged, Placed, LoopTyped, Canceller
<1>f. faults = 0
  OBVIOUS
<1>1. CASE StopPlan(g)
  BY <1>1 DEF StopPlan, Asks
<1>2. CASE ~StopPlan(g)
  <2>1. step[g] # "idle" /\ aim'[g] = c /\ c \in Command /\ at[c] \notin Before
    BY <1>2, StopperMoves DEF Look, Request, Mark, Heeding
  <2>2. ~BeginRun(c)
    BY <2>1 DEF BeginRun, Before
  <2>3. active.command = c /\ ~active.cancelled
    BY <2>1, <2>2, StillActive
  <2>4. CASE Look(g)
    BY <2>4, <2>3 DEF Look
  <2>5. CASE Request(g)
    <3>1. Knows(seen[g], row[OpOf[c]]) /\ row[OpOf[c]] \in Operation
      BY <2>1, <2>3, <2>5, LoopAssumption DEF Heeding, Request, Row
    <3>2. RequestCancellation(row[OpOf[c]], seen[g]).ok
      BY <3>1, RequestAccepted
    <3>3. ~Abandoned(g) /\ ~Fault
      BY <1>f, LoopAssumption DEF Abandoned, Fault
    <3> QED
      BY <2>5, <3>2, <3>3 DEF Request
  <2>6. CASE Mark(g)
    BY <2>3, <2>6 DEF Mark, ActiveRun, NoRun
  <2>7. CASE step'[g] = step[g] /\ seen'[g] = seen[g] /\ aim'[g] = aim[g]
    <3>1. PlanOf[g] \in planStops \/ step[g] \in {"look", "request", "mark"}
      BY <1>f, <2>1, <2>3 DEF Heeding
    <3>2. planStops \subseteq planStops'
      BY StopsMove, LoopAssumption DEF NoRun
    <3> QED
      BY <2>7, <3>1, <3>2
  <2> QED
    BY <1>2, <2>4, <2>5, <2>6, <2>7, StopperMoves
<1> QED
  BY <1>1, <1>2

\* Every step keeps a plan stop on its way.
LEMMA HeedingStep ==
    ASSUME Settled, Stopping, Heeding, [Next]_vars
    PROVE  Heeding'
<1>f. faults \in Nat /\ faults' \in {faults, faults + 1}
  BY FaultsGrow DEF Stopping
<1>1. ASSUME NEW c \in Command, active'.command = c PROVE at'[c] \notin Before
  <2>1. CASE BeginRun(c)
    BY <1>1, <2>1, LoopAssumption DEF BeginRun, Before, Goes, Settled, Engaged, Placed, LoopTyped, HasActive, NoRun
  <2>2. CASE active.command = c
    BY <2>2, BegunStays DEF Heeding
  <2> QED
    BY <1>1, <2>1, <2>2, ActiveCommand DEF Settled, Engaged, Placed
<1>2. ASSUME NEW g \in Stopper, step'[g] # "idle" PROVE aim'[g] \in Command /\ at'[aim'[g]] \notin Before
  <2>1. CASE StopPlan(g)
    <3>1. active.command \in Command /\ aim'[g] = active.command
      BY <2>1, ActiveRuns DEF StopPlan, Settled, Engaged, Placed, LoopTyped, Canceller
    <3> QED
      BY <3>1, BegunStays DEF Heeding
  <2>2. CASE ~StopPlan(g)
    <3>1. step[g] # "idle" /\ aim'[g] = aim[g]
      BY <1>2, <2>2, StopperMoves DEF Look, Request, Mark, Settled, Engaged, Placed
    <3> QED
      BY <3>1, BegunStays DEF Heeding
  <2> QED
    BY <2>1, <2>2
<1>3. ASSUME NEW g \in Stopper, step'[g] = "request", aim'[g] = active'.command, ~active'.cancelled
      PROVE  Knows(seen'[g], row'[OpOf[aim'[g]]])
  BY <1>3, StopperKnows
<1>4. ASSUME NEW g \in Stopper, faults' = 0, step'[g] # "idle", aim'[g] = active'.command, ~active'.cancelled
      PROVE  PlanOf[g] \in planStops' \/ step'[g] \in {"look", "request", "mark"}
  BY <1>f, <1>2, <1>4, StopperGoesOn
<1> QED
  BY <1>1, <1>2, <1>3, <1>4 DEF Heeding, Row

\* Whichever comes first, plan.stop or the run's claim of the plan: a run that
\* has a plan somebody asked to stop in its time is cancelled, or about to be,
\* unless a store call failed.  The stop that comes first leaves word for the
\* claim (associatePlan); the stop that comes second cancels the run itself
\* (CancelPlanExecution).
THEOREM PlanStopIsHonoured == Safety => []PlanStopHonoured
<1>1. Init => Stopping /\ Heeding
  BY LoopAssumption DEF Init, Stopping, Heeding, NoRun, Canceller
<1>2. Safety => [](Settled /\ Stopping /\ Heeding)
  BY <1>1, StaysKnown, StoppingStep, HeedingStep, PTL DEF Safety, Settled
<1>3. ASSUME Stopping, Heeding PROVE PlanStopHonoured
  <2> SUFFICES ASSUME NEW g \in Stopper, faults = 0, step[g] # "idle", aim[g] = active.command,
                      active.plan = PlanOf[g], ~active.cancelled
               PROVE  \E h \in Canceller : step[h] \in {"look", "request", "mark"} /\ aim[h] = active.command
    BY DEF PlanStopHonoured
  <2>1. CASE PlanOf[g] \in planStops
    BY <2>1, <1>3 DEF Stopping, Canceller
  <2>2. CASE step[g] \in {"look", "request", "mark"}
    BY <2>2 DEF Canceller
  <2> QED
    BY <1>3, <2>1, <2>2 DEF Heeding
<1> QED
  BY <1>2, <1>3, PTL

-----------------------------------------------------------------------------
(* Steps that nothing disturbs *)

\* At these labels the actor is not in a callback of the command.
Resting == {"new", "work", "complete", "over"}
Alone == \A c, d \in Command : at[c] \notin Resting /\ at[d] \notin Resting => c = d

\* The counters of the bounded steps, and the contexts.
Bounded == faults \in Nat /\ rest \in Nat /\ gone \in [Command -> BOOLEAN]

\* The operation of a command that is neither claimed by its run nor settled,
\* as the command left it.
Early == {"start", "stop", "run", "disarm", "succeed", "succeedAndArm"}
Claimed(c) ==
    /\ at[c] = "claim" => Row(c) = Fresh /\ held[c] = 1
    /\ at[c] \in Early =>
          Row(c).status = "running" /\ Row(c).version = 2 /\ ~Row(c).cancelRequested /\ held[c] = 2

\* Nobody requests the cancellation of the operation of c.
Untouched(c) == \A g \in Canceller : step[g] = "request" => OpOf[aim[g]] # OpOf[c]

\* A step moves one command at most.
LEMMA OneMoves ==
    ASSUME LoopTyped, [Next]_vars, NEW c \in Command, NEW d \in Command, at'[c] # at[c], at'[d] # at[d]
    PROVE  c = d
<1>1. ASSUME NEW e \in Command, NEW label, Goes(e, label) PROVE c = d
  BY <1>1 DEF Goes, LoopTyped
<1>2. ASSUME NEW e \in Command, Callback(e) PROVE c = d
  <2>1. \E label : Goes(e, label)
    <3>1. CASE BeginRun(e) \/ BeginComplete(e)
      BY <3>1 DEF BeginRun, BeginComplete
    <3>2. CASE ~(BeginRun(e) \/ BeginComplete(e))
      BY <1>2, <3>2 DEF Callback, TurnedAway, Create, ClaimOperation, CancelCreated, StartLoop, StopLoop, Disarm,
                Succeed, Arm,
              FailClaimed, StartReturns, Launch, FinishRun, Settle, Clear, Answer
    <3> QED
      BY <3>1, <3>2
  <2> QED
    BY <2>1, <1>1
<1>3. ASSUME NEW e \in Command, WorkReturns(e) PROVE c = d
  BY <1>1, <1>3 DEF WorkReturns
<1>4. CASE \/ \E e \in Command : Submit(e) \/ Executing(e) \/ CallerLeaves(e) \/ \E p \in Plan : Associate(e, p)
           \/ \E s \in Starts : Timing(s)
           \/ \E g \in Stopper : StopPlan(g)
           \/ \E g \in Canceller : Cancelling(g)
           \/ \E o \in Op : RestCancel(o)
           \/ UNCHANGED vars
  BY <1>4 DEF Submit, Executing, Link, Return, CallerLeaves, Associate, Timing, Fire, Tick, Sleep, StopPlan,
                Cancelling, Look, Request, Mark, RestCancel, vars
<1> QED
  BY <1>2, <1>3, <1>4 DEF Next, Working

\* A callback begins only when no other is going on.
LEMMA BeginsAlone ==
    ASSUME LoopTyped, [Next]_vars, NEW c \in Command, at[c] \in Resting, at'[c] \notin Resting
    PROVE  ~Busy
<1> USE DEF Resting, Goes, LoopTyped
<1>1. ~WorkReturns(c) /\ ~Same(c)
  BY DEF WorkReturns, Same
<1>2. Callback(c) => ~Busy
  BY DEF Callback, TurnedAway, Create, Turn, ClaimOperation, CancelCreated, StartLoop, StopLoop, Disarm, BeginRun,
            Succeed,
              Arm, FailClaimed, StartReturns, Launch, BeginComplete, FinishRun, Settle, Clear, Answer
<1> QED
  BY <1>1, <1>2, Moves

\* Callbacks stay one at a time.
LEMMA AloneStep ==
    ASSUME LoopTyped, Alone, [Next]_vars
    PROVE  Alone'
<1> SUFFICES ASSUME NEW c \in Command, NEW d \in Command, at'[c] \notin Resting, at'[d] \notin Resting, c # d
             PROVE  FALSE
  BY DEF Alone
<1>1. CASE at[c] \in Resting /\ at[d] \in Resting
  BY <1>1, OneMoves
<1>2. CASE at[c] \notin Resting /\ at[d] \in Resting
  BY <1>2, BeginsAlone DEF Busy, Resting
<1>3. CASE at[c] \in Resting /\ at[d] \notin Resting
  BY <1>3, BeginsAlone DEF Busy, Resting
<1> QED
  BY <1>1, <1>2, <1>3 DEF Alone

\* A context ends by the answer, by the caller, or by a canceller of the run.
LEMMA ContextsEnd ==
    ASSUME LoopTyped, Bounded, [Next]_vars
    PROVE  /\ Bounded'
           /\ \A c \in Command : gone'[c] =>
                \/ gone[c] \/ Answer(c)
                \/ CallerLeaves(c)
                \/ \E g \in Canceller : Mark(g) /\ aim[g] = c /\ active.command = c
<1>f. faults' \in Nat
  BY FaultsGrow DEF Bounded
<1>r. rest' \in Nat
  <2>1. ASSUME NEW c \in Command, Callback(c) PROVE rest' = rest
    BY <2>1 DEF Callback, TurnedAway, Create, ClaimOperation, CancelCreated, StartLoop, StopLoop, Disarm, BeginRun,
              Succeed,
              Arm, FailClaimed, StartReturns, Launch, BeginComplete, FinishRun, Settle, Clear, Answer
  <2>2. ASSUME NEW o \in Op, RestCancel(o) PROVE rest' \in Nat
    BY <2>2 DEF RestCancel, Bounded
  <2>3. CASE \/ \E e \in Command : Submit(e) \/ Executing(e) \/ CallerLeaves(e) \/ Working(e)
             \/ \E s \in Starts : Timing(s)
             \/ \E g \in Stopper : StopPlan(g)
             \/ \E g \in Canceller : Cancelling(g)
             \/ UNCHANGED vars
    BY <2>3 DEF Submit, Executing, Link, Return, CallerLeaves, Working, WorkReturns, Associate, Timing, Fire, Tick,
              Sleep, StopPlan,
                Cancelling, Look, Request, Mark, vars, Bounded
  <2> QED
    BY <2>1, <2>2, <2>3 DEF Next, Bounded
<1> DEFINE Ends == /\ gone' \in [Command -> BOOLEAN]
                   /\ \A c \in Command : gone'[c] =>
                        \/ gone[c] \/ Answer(c)
                        \/ CallerLeaves(c)
                        \/ \E g \in Canceller : Mark(g) /\ aim[g] = c /\ active.command = c
<1>0. gone' = gone => Ends
  BY DEF Bounded
<1> HIDE DEF Ends
<1>1. ASSUME NEW c \in Command, Callback(c) PROVE Ends
  <2>1. CASE Answer(c)
    <3>1. gone' = [gone EXCEPT ![c] = TRUE]
      BY <2>1 DEF Answer, Scheduler!Answer
    <3> QED
      BY <2>1, <3>1 DEF Bounded, Ends
  <2>2. CASE ~Answer(c)
    <3>1. gone' = gone
      BY <1>1, <2>2 DEF Callback, TurnedAway, Create, ClaimOperation, CancelCreated, StartLoop, StopLoop, Disarm,
                BeginRun, Succeed,
              Arm, FailClaimed, StartReturns, Launch, BeginComplete, FinishRun, Settle, Clear, contractVars,
              Scheduler!Start, Scheduler!Complete, Scheduler!Invoke
    <3> QED
      BY <3>1, <1>0
  <2> QED
    BY <2>1, <2>2
<1>2. ASSUME NEW c \in Command, CallerLeaves(c) PROVE Ends
  <2>1. gone' = [i \in Command |-> gone[i] \/ i \in {c}]
    BY <1>2 DEF CallerLeaves, Scheduler!Leave
  <2> QED
    BY <1>2, <2>1 DEF Bounded, Ends
<1>3. ASSUME NEW g \in Canceller, Mark(g) PROVE Ends
  <2>1. CASE gone' = gone
    BY <2>1, <1>0
  <2>2. CASE gone' # gone
    <3>1. active.command = aim[g] /\ gone' = [i \in Command |-> gone[i] \/ i \in {aim[g]}]
      BY <1>3, <2>2 DEF Mark, Scheduler!Leave, contractVars
    <3> QED
      BY <1>3, <3>1 DEF Bounded, Ends
  <2> QED
    BY <2>1, <2>2
<1>4. ASSUME \/ \E e \in Command : Submit(e) \/ Executing(e) \/ Working(e)
             \/ \E s \in Starts : Timing(s)
             \/ \E g \in Stopper : StopPlan(g)
             \/ \E g \in Canceller : Look(g) \/ Request(g)
             \/ \E o \in Op : RestCancel(o)
             \/ UNCHANGED vars
      PROVE  Ends
  <2>1. gone' = gone
    BY <1>4 DEF Submit, Executing, Link, Return, Working, WorkReturns, Associate, Timing, Fire, Tick, Sleep, StopPlan,
                Look, Request, RestCancel, vars, contractVars, Scheduler!Accept
  <2> QED
    BY <2>1, <1>0
<1> QED
  BY <1>f, <1>r, <1>1, <1>2, <1>3, <1>4 DEF Next, Cancelling, Bounded, Ends

\* Nothing fails, and nobody uses the operations endpoint.
LEMMA NothingFails ==
    ASSUME Bounded, MaxFaults = 0, MaxRest = 0
    PROVE  ~Fault /\ \A o \in Op : ~RestCancel(o)
BY DEF Bounded, Fault, RestCancel

\* The row that a command holds is written by that command, or by a canceller.
LEMMA RowWriters ==
    ASSUME Placed, OneHolder, [Next]_vars, NEW c \in Command, Holds(c), \A o \in Op : ~RestCancel(o)
    PROVE  Row(c)' = Row(c) \/ Writes(c) \/ \E g \in Canceller : Request(g) /\ OpOf[aim[g]] = OpOf[c]
<1>0. OpOf[c] \in Op /\ Row(c).status # "absent" /\ row \in [Op -> Operation]
  BY LoopAssumption DEF OneHolder, Placed, LoopTyped
<1>1. ASSUME NEW d \in Command, Writes(d) PROVE Row(c)' = Row(c) \/ Writes(c)
  <2>1. CASE OpOf[d] = OpOf[c]
    <3>1. CASE Holds(d)
      BY <1>1, <2>1, <3>1 DEF OneHolder
    <3>2. CASE Create(d) /\ Row(d) = Absent
      BY <1>0, <2>1, <3>2 DEF Row, Absent
    <3>3. CASE row' = row
      BY <3>3 DEF Row
    <3> QED
      BY <1>1, <3>1, <3>2, <3>3, WritersHold
  <2>2. CASE OpOf[d] # OpOf[c]
    BY <1>0, <1>1, <2>2 DEF Writes, Create, ClaimOperation, CancelCreated, Succeed, FailClaimed, Settle, Stores, Row
  <2> QED
    BY <2>1, <2>2
<1>2. ASSUME NEW d \in Command, Callback(d), ~Writes(d) PROVE row' = row
  BY <1>2 DEF Writes, Callback, TurnedAway, StartLoop, StopLoop, Disarm, BeginRun,
              Arm, StartReturns, Launch, BeginComplete, FinishRun, Clear, Answer
<1>3. ASSUME NEW g \in Canceller, Request(g), OpOf[aim[g]] # OpOf[c] PROVE Row(c)' = Row(c)
  BY <1>0, <1>3 DEF Request, Row
<1>4. CASE \/ \E e \in Command : Submit(e) \/ Executing(e) \/ CallerLeaves(e) \/ Working(e)
           \/ \E s \in Starts : Timing(s)
           \/ \E g \in Stopper : StopPlan(g)
           \/ \E g \in Canceller : Look(g) \/ Mark(g)
           \/ UNCHANGED vars
  BY <1>4 DEF Submit, Executing, Link, Return, CallerLeaves, Working, WorkReturns, Associate, Timing, Fire, Tick,
            Sleep, StopPlan,
                Look, Mark, vars, Row
<1> QED
  BY <1>1, <1>2, <1>3, <1>4 DEF Next, Cancelling, Row

\* A command creates its operation, claims it and settles it, and no step of it fails.
LEMMA ClaimedStep ==
    ASSUME Placed, OneHolder, Bounded, MaxFaults = 0, MaxRest = 0, [Next]_vars, NEW c \in Command, Claimed(c),
           gone[c] => at[c] \notin Early \cup {"new", "claim"},
           at[c] \in Early \cup {"claim"} => Untouched(c)
    PROVE  Claimed(c)'
<1>n. ~Fault /\ \A o \in Op : ~RestCancel(o)
  BY NothingFails
<1>o. OpOf[c] \in Op /\ row \in [Op -> Operation] /\ at \in [Command -> Labels] /\ held \in [Command -> Nat]
  BY LoopAssumption DEF Placed, LoopTyped
<1> USE <1>n, <1>o DEF Goes, Early
<1>1. CASE Create(c)
  <2>1. CASE Stores(c, Done(Fresh)) /\ Goes(c, "claim")
    BY <2>1 DEF Stores, Done, Fresh, Claimed, Row
  <2>2. CASE at'[c] \notin Early \cup {"claim"}
    BY <2>2 DEF Claimed
  <2> QED
    BY <1>1, <2>1, <2>2 DEF Create
<1>2. CASE ClaimOperation(c)
  <2>1. at[c] = "claim" /\ Row(c) = Fresh /\ held[c] = 1 /\ ~Fails(c)
    BY <1>2 DEF ClaimOperation, Claimed, Fails
  <2> DEFINE r == [Fresh EXCEPT !.status = "running", !.version = @ + 1]
  <2>2. Claim(Row(c), held[c]) = Done(r)
    BY <2>1 DEF Claim, Transition, Fresh, Legal
  <2>5. r.status = "running" /\ r.version = 2 /\ ~r.cancelRequested
    BY DEF Fresh
  <2> HIDE DEF r
  <2>3. Stores(c, Claim(Row(c), held[c])) /\ Goes(c, KindOf[c])
    BY <1>2, <2>1, <2>2 DEF ClaimOperation, Done
  <2>4. at'[c] # "claim"
    BY <2>3, LoopAssumption DEF LoopKinds
  <2> QED
    BY <2>2, <2>3, <2>4, <2>5 DEF Claimed, Stores, Done, Row
<1>3. CASE at'[c] \in Early \cup {"claim"} /\ ~Create(c) /\ ~ClaimOperation(c)
  <2>1. at[c] \in Early \cup {"claim"} /\ (at[c] = "claim" <=> at'[c] = "claim") /\ held'[c] = held[c] /\ ~Writes(c)
    <3>w. /\ Writes(c) => at[c] \in {"new", "claim", "unclaim", "succeed", "succeedAndArm", "fail", "cancelled", "failed", "succeeded"}
          /\ Writes(c) => at'[c] # at[c]
      BY WritersMove DEF Placed
    <3>1. CASE Same(c)
      BY <1>3, <3>1, <3>w DEF Same
    <3>2. CASE WorkReturns(c)
      BY <1>3, <3>2 DEF WorkReturns
    <3>3. CASE Callback(c)
      BY <1>3, <3>3, <3>w DEF Callback, TurnedAway, CancelCreated, StartLoop, StopLoop, Disarm, BeginRun, Succeed,
              Arm, FailClaimed, StartReturns, Launch, BeginComplete, FinishRun, Settle, Clear, Answer
    <3> QED
      BY <3>1, <3>2, <3>3, Moves DEF Placed
  <2>2. Row(c)' = Row(c)
    BY <2>1, RowWriters DEF Holds, Untouched, Request
  <2> QED
    BY <2>1, <2>2 DEF Claimed
<1>4. CASE at'[c] \notin Early \cup {"claim"}
  BY <1>4 DEF Claimed
<1> QED
  BY <1>1, <1>2, <1>3, <1>4

-----------------------------------------------------------------------------
(* The timer follows the loop *)

\* Only runs are cancelled.
AimsAtRuns ==
    /\ \A c \in Command : active.command = c => c \in Runs
    /\ \A g \in Canceller : step[g] \in {"look", "request", "mark"} => aim[g] \in Runs

\* A start is about to arm its timer, or a stop to disarm it.
Arming(c) == at[c] \in {"succeedAndArm", "arm"}
Disarming(c) == at[c] = "disarm"

\* The loop is stored as running and a live schedule is armed, or neither, but
\* for the callback that has done the first of the two.
Timed ==
    /\ armed # NoCommand => timer[armed] \notin {"off", "ended"}
    /\ \A c \in Command : Arming(c) => loop.running
    /\ \A c \in Command : Disarming(c) => ~loop.running
    /\ (\A c \in Command : ~Arming(c) /\ ~Disarming(c)) => (loop.running <=> armed # NoCommand)

\* The starts hold their operations, and nobody cancels their contexts.
StartsWork == \A c \in Starts : Claimed(c) /\ (gone[c] => at[c] = "over")

Quiet == Placed /\ OneHolder /\ Bounded /\ Alone /\ AimsAtRuns /\ StartsWork

\* Cancellers stay with runs.
LEMMA AimsStep ==
    ASSUME Placed, AimsAtRuns, [Next]_vars
    PROVE  AimsAtRuns'
<1> USE DEF Placed
<1>1. ASSUME NEW c \in Command, active'.command = c PROVE c \in Runs
  BY <1>1, ActiveCommand DEF AimsAtRuns, BeginRun, Posts
<1>2. ASSUME NEW g \in Canceller, step'[g] \in {"look", "request", "mark"} PROVE aim'[g] \in Runs
  <2> DEFINE Good == aim'[g] \in Runs
  <2>0. step'[g] = step[g] /\ aim'[g] = aim[g] => Good
    BY <1>2 DEF AimsAtRuns
  <2>a. active # NoRun => active.command \in Runs
    BY ActiveRuns DEF AimsAtRuns, LoopTyped
  <2>1. ASSUME NEW c \in Command, Disarm(c) PROVE Good
    BY <1>2, <2>a, <2>0, <2>1 DEF Disarm, LoopTyped, Canceller
  <2>2. ASSUME NEW c \in Command, Callback(c), ~Disarm(c) PROVE Good
    <3>1. step' = step /\ aim' = aim
      BY <2>2 DEF Callback, TurnedAway, Create, ClaimOperation, CancelCreated, StartLoop, StopLoop, BeginRun, Succeed,
              Arm, FailClaimed, StartReturns, Launch, BeginComplete, FinishRun, Settle, Clear, Answer, cancelVars
    <3> QED
      BY <3>1, <2>0
  <2>3. ASSUME NEW c \in Command, NEW p \in Plan, Associate(c, p) PROVE Good
    BY <1>2, <2>0, <2>3 DEF Associate, LoopTyped, Canceller, Posts
  <2>4. ASSUME NEW h \in Stopper, StopPlan(h) PROVE Good
    BY <1>2, <2>a, <2>0, <2>4 DEF StopPlan, LoopTyped, Canceller
  <2>5. ASSUME NEW h \in Canceller, Cancelling(h) PROVE Good
    <3>1. aim' = aim /\ (step'[g] # step[g] => step[g] \in {"look", "request", "mark"})
      BY <2>5 DEF Cancelling, Look, Request, Mark, LoopTyped
    <3> QED
      BY <1>2, <3>1 DEF AimsAtRuns
  <2>6. ASSUME \/ \E e \in Command : Submit(e) \/ Executing(e) \/ CallerLeaves(e) \/ WorkReturns(e)
               \/ \E s \in Starts : Timing(s)
               \/ \E o \in Op : RestCancel(o)
               \/ UNCHANGED vars
        PROVE  Good
    <3>1. step' = step /\ aim' = aim
      BY <2>6 DEF Submit, Executing, Link, Return, CallerLeaves, WorkReturns, Timing, Fire, Tick, Sleep, RestCancel,
                vars, cancelVars
    <3> QED
      BY <3>1, <2>0
  <2> QED
    BY <2>1, <2>2, <2>3, <2>4, <2>5, <2>6 DEF Next, Working
<1> QED
  BY <1>1, <1>2 DEF AimsAtRuns

\* Nothing disturbs the starts.
LEMMA StartsStep ==
    ASSUME Quiet, MaxFaults = 0, MaxRest = 0, Impatient \cap Starts = {}, [Next]_vars
    PROVE  StartsWork'
<1> SUFFICES ASSUME NEW c \in Starts
             PROVE  Claimed(c)' /\ (gone'[c] => at'[c] = "over")
  BY DEF StartsWork
<1> USE DEF Quiet
<1>0. c \in Command /\ c \notin Runs
  BY DEF Starts, Runs
<1>1. Untouched(c)
  <2> SUFFICES ASSUME NEW g \in Canceller, step[g] = "request"
               PROVE  OpOf[aim[g]] # OpOf[c]
    BY DEF Untouched
  <2>1. aim[g] \in Runs
    BY DEF AimsAtRuns
  <2> QED
    BY <2>1, LoopAssumption DEF Runs, Starts
<1>2. Claimed(c) /\ (gone[c] => at[c] = "over")
  BY DEF StartsWork
<1>3. Claimed(c)'
  BY <1>0, <1>1, <1>2, ClaimedStep DEF Early
<1>4. ASSUME gone'[c] PROVE at'[c] = "over"
  <2>1. gone[c] \/ Answer(c)
    <3>1. ~CallerLeaves(c)
      BY DEF CallerLeaves
    <3>2. active.command # c
      BY <1>0 DEF AimsAtRuns
    <3> QED
      BY <1>0, <1>4, <3>1, <3>2, ContextsEnd DEF Placed
  <2>2. CASE Answer(c)
    BY <1>0, <2>2 DEF Answer, Goes, Placed, LoopTyped
  <2>3. CASE at[c] = "over"
    <3>1. ~Callback(c) /\ ~WorkReturns(c)
      BY <2>3 DEF WorkReturns, Callback, TurnedAway, Create, Turn, ClaimOperation, CancelCreated, StartLoop,
                StopLoop, Disarm, BeginRun,
              Succeed, Arm, FailClaimed, StartReturns, Launch, BeginComplete, FinishRun, Settle, Clear, Answer
    <3> QED
      BY <1>0, <2>3, <3>1, Moves DEF Same, Placed
  <2> QED
    BY <1>2, <2>1, <2>2, <2>3
<1> QED
  BY <1>3, <1>4

\* A start that has stored the loop as running succeeds.
LEMMA StartSucceeds ==
    ASSUME Quiet, MaxFaults = 0, MaxRest = 0, NEW c \in Command, Succeed(c), at[c] = "succeedAndArm"
    PROVE  at'[c] = "arm"
<1>0. c \in Starts /\ ~Fault /\ OpOf[c] \in Op
  BY NothingFails, LoopAssumption DEF Quiet, Placed, LoopTyped
<1>1. ~gone[c] /\ Row(c).status = "running" /\ Row(c).version = held[c]
  BY <1>0 DEF Quiet, StartsWork, Claimed, Early
<1>2. Transition(Row(c), held[c], "succeeded").ok
  BY <1>1 DEF Transition, Done, Legal, Terminal
<1> QED
  BY <1>0, <1>1, <1>2 DEF Succeed, Fails, Goes, Quiet, Placed, LoopTyped

\* Every step keeps the timer with the loop.
LEMMA TimedStep ==
    ASSUME Quiet, Timed, MaxFaults = 0, MaxRest = 0, [Next]_vars
    PROVE  Timed'
<1> USE DEF Quiet, Placed, LoopTyped, Goes, Arming, Disarming, Labels
<1>n. ~Fault /\ NoCommand \notin Command /\ Starts \subseteq Command
  BY NothingFails, LoopAssumption DEF Starts
\* The step of a command that leaves the loop and its timer alone.
<1>0. ASSUME loop'.running = loop.running, armed' = armed, timer' = timer,
             \A c \in Command : Arming(c)' <=> Arming(c), \A c \in Command : Disarming(c)' <=> Disarming(c)
      PROVE  Timed'
  BY <1>0 DEF Timed
<1>1. ASSUME NEW c \in Command, Callback(c) PROVE Timed'
  <2>o. ASSUME at[c] \notin Resting, NEW d \in Command, d # c PROVE ~Arming(d) /\ ~Disarming(d)
    BY <2>o DEF Alone, Resting
  <2> USE DEF Resting
  <2>1. CASE StartLoop(c)
    <3>1. at[c] = "start" /\ c \in Starts /\ ~gone[c]
      BY <2>1 DEF StartLoop, StartsWork
    <3>2. (\A d \in Command : ~Arming(d) /\ ~Disarming(d)) /\ armed' = armed /\ timer' = timer
      BY <2>1, <2>o, <3>1 DEF StartLoop
    <3>3. CASE loop.running
      BY <2>1, <1>n, <3>1, <3>2, <3>3 DEF StartLoop, Fails, Timed
    <3>4. CASE ~loop.running
      <4>1. loop'.running /\ at' = [at EXCEPT ![c] = "succeedAndArm"]
        BY <2>1, <1>n, <3>1, <3>4 DEF StartLoop, Fails
      <4> QED
        BY <3>1, <3>2, <4>1 DEF Timed
    <3> QED
      BY <3>3, <3>4
  <2>2. CASE StopLoop(c)
    <3>1. (\A d \in Command : ~Arming(d) /\ ~Disarming(d)) /\ armed' = armed /\ timer' = timer
      BY <2>2, <2>o DEF StopLoop
    <3>2. CASE ~loop'.running /\ at' = [at EXCEPT ![c] = "disarm"]
      BY <3>1, <3>2 DEF Timed
    <3>3. CASE loop' = loop /\ at' = [at EXCEPT ![c] = "fail"]
      BY <3>1, <3>3 DEF Timed
    <3> QED
      BY <2>2, <3>2, <3>3 DEF StopLoop
  <2>3. CASE Disarm(c)
    <3>1. at[c] = "disarm" /\ ~loop.running /\ loop' = loop /\ armed' = NoCommand /\ at' = [at EXCEPT ![c] = "succeed"]
      BY <2>3 DEF Disarm, Timed
    <3>2. \A d \in Command : ~Arming(d)' /\ ~Disarming(d)'
      BY <2>o, <3>1
    <3> QED
      BY <3>1, <3>2 DEF Timed
  <2>4. CASE Succeed(c)
    <3>1. loop' = loop /\ armed' = armed /\ timer' = timer
      BY <2>4 DEF Succeed
    <3>2. CASE at[c] = "succeed"
      <4>1. at' = [at EXCEPT ![c] = "started"] \/ at' = [at EXCEPT ![c] = "fail"]
        BY <2>4, <3>2 DEF Succeed
      <4> QED
        BY <3>1, <3>2, <4>1, <1>0
    <3>3. CASE at[c] = "succeedAndArm"
      <4>1. at'[c] = "arm" /\ \A d \in Command : d # c => at'[d] = at[d]
        BY <2>4, <3>3, StartSucceeds DEF Succeed
      <4> QED
        BY <3>1, <3>3, <4>1, <1>0
    <3> QED
      BY <2>4, <3>2, <3>3 DEF Succeed
  <2>5. CASE Arm(c)
    <3>1. /\ at[c] = "arm" /\ c \in Starts /\ loop.running /\ loop' = loop /\ armed' = c
          /\ timer'[c] = "sleep" /\ at' = [at EXCEPT ![c] = "started"]
      BY <2>5 DEF Arm, Timed
    <3>2. \A d \in Command : ~Arming(d)' /\ ~Disarming(d)'
      BY <2>o, <3>1
    <3> QED
      BY <3>1, <3>2, <1>n DEF Timed
  <2>6. CASE BeginRun(c)
    <3>1. loop'.running = loop.running /\ armed' = armed /\ timer' = timer
      BY <2>6 DEF BeginRun, LoopRow
    <3>2. at[c] = "run" /\ at'[c] \in {"succeed", "started", "fail"} /\ \A d \in Command : d # c => at'[d] = at[d]
      BY <2>6 DEF BeginRun, HasActive
    <3> QED
      BY <3>1, <3>2, <1>0
  <2>7. CASE FinishRun(c)
    <3>1. loop'.running = loop.running /\ armed' = armed /\ timer' = timer
      BY <2>7 DEF FinishRun, Finished, LoopRow
    <3>2. at[c] = "finish" /\ at'[c] \in {"succeeded", "failed"} /\ \A d \in Command : d # c => at'[d] = at[d]
      BY <2>7 DEF FinishRun
    <3> QED
      BY <3>1, <3>2, <1>0
  <2>8. CASE ~(StartLoop(c) \/ StopLoop(c) \/ Disarm(c) \/ Succeed(c) \/ Arm(c) \/ BeginRun(c) \/ FinishRun(c))
    <3>1. loop' = loop /\ armed' = armed /\ timer' = timer
      BY <1>1, <2>8 DEF Callback, TurnedAway, Create, ClaimOperation, CancelCreated, FailClaimed, StartReturns,
                Launch, BeginComplete,
              Settle, Clear, Answer
    <3> DEFINE Pending == {"succeedAndArm", "arm", "disarm"}
    <3>2. at[c] \notin Pending /\ \E label \in Labels : label \notin Pending /\ at' = [at EXCEPT ![c] = label]
      <4>1. CASE ClaimOperation(c)
        <5>1. at[c] = "claim" /\ KindOf[c] \in Labels \ Pending
          BY <4>1, LoopAssumption DEF ClaimOperation, LoopKinds
        <5> QED
          BY <4>1, <5>1 DEF ClaimOperation
      <4>2. CASE BeginComplete(c)
        BY <4>2 DEF BeginComplete
      <4>3. CASE TurnedAway(c) \/ Create(c) \/ CancelCreated(c) \/ FailClaimed(c) \/ Settle(c) \/ Clear(c) \/ Answer(c)
        BY <4>3 DEF TurnedAway, Create, Turn, CancelCreated, FailClaimed, Settle, Clear, Answer
      <4>4. CASE StartReturns(c) \/ Launch(c)
        BY <4>4 DEF StartReturns, Launch
      <4> QED
        BY <1>1, <2>8, <4>1, <4>2, <4>3, <4>4 DEF Callback
    <3> QED
      BY <3>1, <3>2, <1>0
  <2> QED
    BY <1>1, <2>1, <2>2, <2>3, <2>4, <2>5, <2>6, <2>7, <2>8
<1>2. ASSUME NEW s \in Starts, Timing(s) PROVE Timed'
  <2>1. loop' = loop /\ armed' = armed /\ at' = at
    BY <1>2 DEF Timing, Fire, Tick, Sleep
  <2>2. armed # NoCommand /\ timer[armed] \notin {"off", "ended"} => timer'[armed] \notin {"off", "ended"}
    <3>1. timer' = [timer EXCEPT ![s] = timer'[s]]
      BY <1>2 DEF Timing, Fire, Tick, Sleep
    <3>2. armed = s /\ timer[s] \notin {"off", "ended"} => timer'[s] \notin {"off", "ended"}
      BY <1>2, LoopAssumption DEF Timing, Fire, Tick, Sleep, Ticks, Runs
    <3> QED
      BY <3>1, <3>2
  <2> QED
    BY <2>1, <2>2 DEF Timed
<1>3. CASE \/ \E e \in Command : Submit(e) \/ Executing(e) \/ CallerLeaves(e) \/ WorkReturns(e) \/ \E p \in Plan : Associate(e, p)
           \/ \E g \in Stopper : StopPlan(g)
           \/ \E g \in Canceller : Cancelling(g)
           \/ \E o \in Op : RestCancel(o)
           \/ UNCHANGED vars
  <2>1. loop' = loop /\ armed' = armed /\ timer' = timer
    BY <1>3 DEF Submit, Executing, Link, Return, CallerLeaves, WorkReturns, Associate, StopPlan,
                Cancelling, Look, Request, Mark, RestCancel, vars
  <2>2. at' = at \/ \E e \in Command : at[e] = "work" /\ at' = [at EXCEPT ![e] = "complete"]
    BY <1>3 DEF Submit, Executing, Link, Return, CallerLeaves, WorkReturns, Associate, StopPlan,
                Cancelling, Look, Request, Mark, RestCancel, vars
  <2> QED
    BY <2>1, <2>2, <1>0
<1> QED
  BY <1>1, <1>2, <1>3 DEF Next, Working

\* While no store call fails and nobody leaves a start or uses the operations
\* endpoint, the loop is stored as running if and only if a live schedule is armed,
\* but for the start or stop in between: for any starts, stops, ticks, runs and
\* plan stoppers (startLoop, stopLoop, arm, disarm).
THEOREM TimerIsRight ==
    ASSUME MaxFaults = 0, MaxRest = 0, Impatient \cap Starts = {}
    PROVE  Safety => []TimerFollowsLoop
<1>1. Init => Bounded /\ Alone /\ AimsAtRuns /\ StartsWork /\ Timed
  BY LoopAssumption DEF Init, Scheduler!Init, Bounded, Alone, AimsAtRuns, StartsWork, Claimed, Early, Timed, Arming,
            Disarming, Resting,
        NoRun, Canceller, Starts
<1>2. Quiet /\ Timed /\ [Next]_vars => Bounded' /\ Alone' /\ AimsAtRuns' /\ StartsWork' /\ Timed'
  BY ContextsEnd, AloneStep, AimsStep, StartsStep, TimedStep DEF Quiet, Placed
<1>3. Safety => [](Quiet /\ Timed)
  BY <1>1, <1>2, StaysRunning, PTL DEF Safety, Quiet
<1>4. Timed => TimerFollowsLoop
  BY DEF Timed, TimerFollowsLoop, Arming, Disarming
<1> QED
  BY <1>3, <1>4, PTL

-----------------------------------------------------------------------------
(* No fake running operation *)

\* A canceller has looked for its run and is not done.
Aims(g) == step[g] \in {"look", "request", "mark"}

\* The command will settle its operation.
Responsible(c) == at[c] \in Early \/ (Owns(c) /\ at[c] # "clear")

\* The version by which a run will settle: complete copies that of service.active.
Version(c) == IF at[c] \in {"finish", "cancelled", "failed", "succeeded"} THEN held[c] ELSE active.version

AtWork == {"work", "complete", "finish", "cancelled", "failed", "succeeded", "clear", "answer", "over"}

\* Callbacks that succeed: the labels of a failure are never reached, a run that
\* begins is not a repeated one, and contexts end during the work or later.
Succeeding == \A c \in Command :
    /\ Claimed(c)
    /\ at[c] \notin {"unclaim", "fail", "startFailed"}
    /\ at[c] \in {"new", "claim", "run"} => ~noop[c]
    /\ gone[c] => at[c] \in AtWork

\* service.active is a run that owns the project.
OwnerRuns == active # NoRun => Owns(active.command)

\* A stop cancels the run that works, and its completion waits for it.
StopsAim == \A g \in Canceller : Aims(g) =>
    /\ g \in Command /\ at[g] = "succeed" /\ KindOf[g] = "stop"
    /\ active # NoRun /\ aim[g] = active.command /\ at[aim[g]] \in {"work", "complete"}
    /\ step[g] = "request" => seen[g] = active.version
    /\ step[g] = "mark" => seen[g] = Row(aim[g]).version

\* A run knows the version of its row, or will be told.
VersionKnown == \A c \in Command : Owns(c) /\ at[c] # "clear" =>
    Version(c) = Row(c).version \/ \E g \in Canceller : step[g] = "mark"

\* Somebody will settle what is running.
RunningIsOwned == \A o \in Op : row[o].status = "running" => \E c \in Command : OpOf[c] = o /\ Responsible(c)

NoPlanStops == planStops = {}

Base == Placed /\ OneHolder /\ HoldersRun /\ Bounded /\ Alone
Calm == Base /\ NoPlanStops /\ Succeeding /\ OwnerRuns /\ StopsAim /\ VersionKnown /\ RunningIsOwned

\* No failures, no impatient callers, no plan is stopped, nobody uses the
\* operations endpoint.
Undisturbed == MaxFaults = 0 /\ MaxRest = 0 /\ Impatient = {} /\ Stopper = {}

\* A command whose operation a canceller requests is at work.
LEMMA RequestsAtWork ==
    ASSUME Calm, NEW c \in Command, Holds(c), NEW g \in Canceller, Aims(g), OpOf[aim[g]] = OpOf[c]
    PROVE  c = aim[g] /\ at[c] \in {"work", "complete"}
<1>1. Owns(aim[g]) /\ aim[g] \in Command /\ at[aim[g]] \in {"work", "complete"}
  BY ActiveRuns DEF Calm, Base, Placed, LoopTyped, StopsAim, OwnerRuns
<1>2. Holds(aim[g])
  BY <1>1 DEF Holds
<1> QED
  BY <1>1, <1>2 DEF Calm, Base, OneHolder

\* Of the cancellers only one is at it.
LEMMA OneAims ==
    ASSUME Calm, NEW g \in Canceller, NEW h \in Canceller, Aims(g), Aims(h)
    PROVE  g = h
BY DEF Calm, Base, Alone, Resting, StopsAim

\* Every call of a callback succeeds.
LEMMA CallbackSucceeds ==
    ASSUME Calm, Undisturbed, NEW c \in Command, Callback(c)
    PROVE  at'[c] \notin {"unclaim", "fail", "startFailed"} /\ ~TurnedAway(c) /\ (Launch(c) => at'[c] = "work")
<1>n. ~Fault
  BY NothingFails DEF Undisturbed, Calm, Base
<1> USE <1>n DEF Calm, Base, Placed, LoopTyped, Goes, Fails
<1>s. /\ Claimed(c)
      /\ at[c] \notin {"unclaim", "fail", "startFailed"}
      /\ gone[c] => at[c] \in AtWork
  BY DEF Succeeding
<1>1. ~TurnedAway(c)
  BY <1>s DEF TurnedAway, Turn, AtWork
<1>2. CASE Create(c)
  BY <1>s, <1>1, <1>2 DEF Create, Turn, AtWork, Launch
<1>3. CASE ClaimOperation(c)
  <2>1. Claim(Row(c), held[c]).ok /\ at[c] = "claim" /\ ~gone[c]
    BY <1>s, <1>3 DEF ClaimOperation, Claimed, Claim, Transition, Fresh, Legal, Done, AtWork
  <2> QED
    BY <1>3, <2>1, <1>1, LoopAssumption DEF ClaimOperation, LoopKinds, Launch
<1>4. CASE StartLoop(c) \/ StopLoop(c) \/ BeginRun(c)
  BY <1>s, <1>1, <1>4 DEF StartLoop, StopLoop, BeginRun, AtWork, Launch
<1>5. CASE Succeed(c)
  <2>1. Transition(Row(c), held[c], "succeeded").ok /\ at[c] \in {"succeed", "succeedAndArm"} /\ ~gone[c]
    BY <1>s, <1>5 DEF Succeed, Claimed, Early, Transition, Legal, Done, Terminal, AtWork
  <2> QED
    BY <1>1, <1>5, <2>1 DEF Succeed, Launch
<1>6. CASE CancelCreated(c) \/ FailClaimed(c)
  BY <1>s, <1>6 DEF CancelCreated, FailClaimed
<1>7. CASE Launch(c)
  BY <1>s, <1>1, <1>7 DEF Launch, AtWork
<1>8. CASE Disarm(c) \/ Arm(c) \/ StartReturns(c)
  BY <1>8, <1>1 DEF Disarm, Arm, StartReturns, Launch
<1>9. CASE BeginComplete(c) \/ FinishRun(c) \/ Settle(c) \/ Clear(c) \/ Answer(c)
  BY <1>9, <1>1 DEF BeginComplete, FinishRun, Settle, Clear, Answer, Launch
<1> QED
  BY <1>1, <1>2, <1>3, <1>4, <1>5, <1>6, <1>7, <1>8, <1>9 DEF Callback

\* A run owns the project until its completion clears it.
LEMMA OwnsStays ==
    ASSUME Calm, Undisturbed, [Next]_vars, NEW c \in Command, Owns(c), ~Clear(c)
    PROVE  Owns(c)'
<1>0. c \in Runs /\ ~noop[c] /\ active.command = c /\ (at[c] = "started" \/ InRun(c))
  BY DEF Owns, Calm, Base, Placed, OwnersActive
<1> USE DEF Calm, Base, Placed, LoopTyped, Goes, Owns, InRun
<1>1. CASE Same(c)
  BY <1>0, <1>1 DEF Same
<1>2. CASE WorkReturns(c)
  BY <1>0, <1>2 DEF WorkReturns
<1>3. CASE Callback(c)
  <2>1. CASE StartReturns(c)
    BY <1>0, <2>1 DEF StartReturns
  <2>2. CASE Launch(c)
    BY <1>0, <1>3, <2>2, CallbackSucceeds DEF Launch
  <2>3. CASE BeginComplete(c)
    BY <1>0, <2>3 DEF BeginComplete
  <2>4. CASE FinishRun(c) \/ Settle(c)
    BY <1>0, <2>4 DEF FinishRun, Settle
  <2>5. ~Answer(c)
    BY <1>0 DEF Answer
  <2>6. ~(TurnedAway(c) \/ Create(c) \/ ClaimOperation(c) \/ CancelCreated(c) \/ StartLoop(c) \/ StopLoop(c) \/ Disarm(c)
          \/ BeginRun(c) \/ Succeed(c) \/ Arm(c) \/ FailClaimed(c))
    BY <1>0 DEF TurnedAway, Create, Turn, ClaimOperation, CancelCreated, StartLoop, StopLoop, Disarm, BeginRun,
              Succeed, Arm, FailClaimed
  <2> QED
    BY <1>3, <2>1, <2>2, <2>3, <2>4, <2>5, <2>6 DEF Callback
<1> QED
  BY <1>1, <1>2, <1>3, Moves

\* Every step succeeds.
LEMMA SucceedingStep ==
    ASSUME Calm, Undisturbed, [Next]_vars
    PROVE  Succeeding'
<1> SUFFICES ASSUME NEW c \in Command
             PROVE  /\ Claimed(c)'
                    /\ at'[c] \notin {"unclaim", "fail", "startFailed"}
                    /\ at'[c] \in {"new", "claim", "run"} => ~noop'[c]
                    /\ gone'[c] => at'[c] \in AtWork
  BY DEF Succeeding
<1>s. /\ Claimed(c)
      /\ at[c] \notin {"unclaim", "fail", "startFailed"}
      /\ at[c] \in {"new", "claim", "run"} => ~noop[c]
      /\ gone[c] => at[c] \in AtWork
  BY DEF Calm, Succeeding
<1>1. Claimed(c)'
  <2>1. at[c] \in Early \cup {"claim"} => Untouched(c)
    <3> SUFFICES ASSUME at[c] \in Early \cup {"claim"}, NEW g \in Canceller, step[g] = "request"
                 PROVE  OpOf[aim[g]] # OpOf[c]
      BY DEF Untouched
    <3>1. Holds(c) /\ at[c] \notin {"work", "complete"}
      BY DEF Holds, Early
    <3> QED
      BY <3>1, RequestsAtWork DEF Aims
  <2>2. gone[c] => at[c] \notin Early \cup {"new", "claim"}
    BY <1>s DEF AtWork, Early
  <2> QED
    BY <1>s, <2>1, <2>2, ClaimedStep DEF Calm, Base, Undisturbed
<1>2. at'[c] \notin {"unclaim", "fail", "startFailed"}
  <2>1. CASE Callback(c)
    BY <2>1, CallbackSucceeds
  <2>2. CASE WorkReturns(c)
    BY <2>2 DEF WorkReturns, Goes, Calm, Base, Placed, LoopTyped
  <2>3. CASE Same(c)
    BY <1>s, <2>3 DEF Same
  <2> QED
    BY <2>1, <2>2, <2>3, Moves DEF Calm, Base, Placed
<1>3. ASSUME at'[c] \in {"new", "claim", "run"} PROVE ~noop'[c]
  <2> USE DEF Goes, Calm, Base, Placed, LoopTyped
  <2>1. CASE Same(c)
    BY <1>s, <1>3, <2>1 DEF Same
  <2>2. CASE Create(c) \/ ClaimOperation(c)
    BY <1>s, <1>3, <2>2 DEF Create, Turn, ClaimOperation
  <2>3. ~WorkReturns(c)
    BY <1>3 DEF WorkReturns
  <2>4. Callback(c) => Create(c) \/ ClaimOperation(c)
    BY <1>3 DEF Callback, TurnedAway, CancelCreated, StartLoop, StopLoop, Disarm, BeginRun, Succeed,
              Arm, FailClaimed, StartReturns, Launch, BeginComplete, FinishRun, Settle, Clear, Answer
  <2> QED
    BY <2>1, <2>2, <2>3, <2>4, Moves
<1>4. ASSUME gone'[c] PROVE at'[c] \in AtWork
  <2> USE DEF Goes, Calm, Base, Placed, LoopTyped
  <2>1. CASE at[c] \in AtWork
    <3>1. CASE Same(c)
      BY <2>1, <3>1 DEF Same
    <3>2. CASE WorkReturns(c)
      BY <3>2 DEF WorkReturns, AtWork
    <3>3. CASE Callback(c)
      BY <2>1, <3>3 DEF AtWork, Callback, TurnedAway, Create, Turn, ClaimOperation, CancelCreated, StartLoop,
                StopLoop, Disarm, BeginRun, Succeed,
              Arm, FailClaimed, StartReturns, Launch, BeginComplete, FinishRun, Settle, Clear, Answer
    <3> QED
      BY <3>1, <3>2, <3>3, Moves
  <2>2. CASE Answer(c)
    BY <2>2 DEF Answer, AtWork
  <2>3. ASSUME NEW g \in Canceller, Mark(g), aim[g] = c PROVE at[c] \in AtWork
    BY <2>3 DEF Mark, StopsAim, Aims, AtWork
  <2>4. ~CallerLeaves(c)
    BY DEF CallerLeaves, Undisturbed
  <2> QED
    BY <1>s, <1>4, <2>1, <2>2, <2>3, <2>4, ContextsEnd
<1> QED
  BY <1>1, <1>2, <1>3, <1>4

\* service.active stays with its owner.
LEMMA OwnerStep ==
    ASSUME Calm, Undisturbed, [Next]_vars
    PROVE  OwnerRuns'
<1> USE DEF Calm, Base, Placed, LoopTyped
<1>t. active' # NoRun => active'.command \in Command
  <2>1. active' \in ActiveRun \cup {NoRun}
    BY NextTyped
  <2> QED
    BY <2>1, ActiveRuns
<1> SUFFICES ASSUME active' # NoRun, NEW c \in Command, active'.command = c PROVE Owns(c)'
  BY <1>t DEF OwnerRuns, Owns, InRun
<1>1. ASSUME active.command = c PROVE Owns(c)'
  <2>1. Owns(c)
    BY <1>1, ActiveRuns DEF OwnerRuns
  <2>2. ~Clear(c)
    BY <1>1 DEF Clear, Frees
  <2> QED
    BY <2>1, <2>2, OwnsStays
<1>2. ASSUME BeginRun(c), active.command # c PROVE Owns(c)'
  <2>1. at'[c] = "started" /\ at[c] = "run" /\ noop'[c] = noop[c]
    BY <1>2, CallbackSucceeds DEF BeginRun, Goes, Callback
  <2> QED
    BY <2>1 DEF Owns, Posts, Succeeding
<1> QED
  BY <1>1, <1>2, ActiveCommand

\* The version of a row changes by a request only, while its run works.
LEMMA RunRow ==
    ASSUME Calm, Undisturbed, [Next]_vars, NEW c \in Command, Owns(c), at[c] # "clear", at'[c] # "clear"
    PROVE  Row(c)' = Row(c) \/ \E g \in Canceller : step'[g] = "mark"
<1> USE DEF Calm, Base, Placed, LoopTyped
<1>0. OpOf[c] \in Op /\ Holds(c) /\ active.command = c /\ Row(c).status = "running"
  BY LoopAssumption DEF Holds, OwnersActive, HoldersRun, RunsOn
<1>1. ASSUME NEW g \in Canceller, Request(g), Row(c)' # Row(c) PROVE step'[g] = "mark"
  <2> DEFINE r == RequestCancellation(row[OpOf[aim[g]]], seen[g])
  <2>1. row' = [row EXCEPT ![OpOf[aim[g]]] = r.row] /\ step' = [step EXCEPT ![g] = IF r.ok THEN "mark" ELSE "done"]
    BY <1>1 DEF Request, Row
  <2>2. r.row # row[OpOf[aim[g]]]
    BY <1>0, <1>1, <2>1 DEF Row
  <2>3. r.ok
    BY <2>2 DEF RequestCancellation, Transition, Done, Failed
  <2> QED
    BY <2>1, <2>3
<1>2. ~Writes(c)
  <2>1. /\ Writes(c) => at[c] \in {"new", "claim", "unclaim", "succeed", "succeedAndArm", "fail", "cancelled", "failed", "succeeded"}
        /\ at[c] = "started" \/ InRun(c)
    BY WritersMove DEF Owns
  <2>2. ~Settle(c)
    BY DEF Settle, Goes
  <2> QED
    BY <2>1, <2>2 DEF InRun, Writes, Create, Turn, ClaimOperation, CancelCreated, Succeed, FailClaimed
<1>3. \A o \in Op : ~RestCancel(o)
  BY NothingFails DEF Undisturbed
<1> QED
  BY <1>0, <1>1, <1>2, <1>3, RowWriters

\* A stop goes on cancelling the run that works.
LEMMA StopsAimStep ==
    ASSUME Calm, Undisturbed, [Next]_vars
    PROVE  StopsAim'
<1> SUFFICES ASSUME NEW g \in Canceller, Aims(g)'
             PROVE  /\ g \in Command /\ at'[g] = "succeed" /\ KindOf[g] = "stop"
                    /\ active' # NoRun /\ aim'[g] = active'.command /\ at'[aim'[g]] \in {"work", "complete"}
                    /\ step'[g] = "request" => seen'[g] = active'.version
                    /\ step'[g] = "mark" => seen'[g] = row'[OpOf[aim'[g]]].version
  BY DEF StopsAim, Row
<1> USE DEF Calm, Base, Placed, LoopTyped
<1>c. g \in Command /\ Canceller = Command
  BY DEF Undisturbed, Canceller
<1>a. active # NoRun => active.command \in Command /\ Owns(active.command)
  BY ActiveRuns DEF OwnerRuns
<1>b. Aims(g) => aim[g] \in Command /\ Owns(aim[g]) /\ Holds(aim[g]) /\ OpOf[aim[g]] \in Op
  BY <1>a, LoopAssumption DEF StopsAim, Holds
<1>1. CASE Disarm(g)
  <2> DEFINE c == active.command
  <2>1. /\ at[g] = "disarm" /\ KindOf[g] = "stop" /\ active' = active /\ active # NoRun
        /\ at' = [at EXCEPT ![g] = "succeed"] /\ aim'[g] = c /\ step'[g] = "look"
    BY <1>1, <1>c DEF Disarm, Goes, Posts, Aims
  <2>2. c \in Command /\ c # g /\ at[c] \in {"work", "complete"}
    BY <1>a, <1>c, <2>1 DEF Owns, InRun, Alone, Resting
  <2> QED
    BY <1>c, <2>1, <2>2
<1>2. CASE Look(g)
  <2>1. Aims(g) /\ aim' = aim /\ active' = active /\ at' = at /\ step'[g] = "request" /\ seen'[g] = active.version
    BY <1>2, <1>c DEF Look, Aims
  <2> QED
    BY <1>c, <2>1 DEF StopsAim
<1>3. CASE Request(g)
  <2>1. Aims(g) /\ aim' = aim /\ active' = active /\ at' = at /\ step'[g] = "mark"
    BY <1>3, <1>c DEF Request, Aims
  <2>2. seen'[g] = row'[OpOf[aim[g]]].version
    BY <1>3, <1>b, <1>c, <2>1 DEF Request
  <2> QED
    BY <1>c, <2>1, <2>2 DEF StopsAim
<1>4. CASE step'[g] = step[g] /\ seen'[g] = seen[g] /\ aim'[g] = aim[g]
  <2> DEFINE c == aim[g]
  <2>0. Aims(g)
    BY <1>4 DEF Aims
  <2>a. /\ at[g] = "succeed" /\ KindOf[g] = "stop" /\ active # NoRun /\ c = active.command /\ at[c] \in {"work", "complete"}
        /\ step[g] = "request" => seen[g] = active.version
        /\ step[g] = "mark" => seen[g] = Row(c).version
    BY <2>0 DEF StopsAim
  <2>b. c \in Command /\ Owns(c) /\ Holds(c) /\ OpOf[c] \in Op /\ Busy
    BY <1>b, <1>c, <2>0, <2>a DEF Busy
  <2>1. at'[g] = "succeed"
    <3>1. ~WorkReturns(g)
      BY <2>a DEF WorkReturns
    <3>2. ~Callback(g)
      BY <2>a, <2>0 DEF Aims, Callback, TurnedAway, Create, Turn, ClaimOperation, CancelCreated, StartLoop, StopLoop,
                Disarm, BeginRun, Succeed, Arm,
              FailClaimed, StartReturns, Launch, BeginComplete, FinishRun, Settle, Clear, Answer
    <3> QED
      BY <1>c, <2>a, <3>1, <3>2, Moves DEF Same
  <2>2. at'[c] \in {"work", "complete"}
    <3>1. ~Callback(c)
      BY <2>a, <2>b DEF Callback, TurnedAway, Create, Turn, ClaimOperation, CancelCreated, StartLoop, StopLoop,
                Disarm, BeginRun, Succeed, Arm,
              FailClaimed, StartReturns, Launch, BeginComplete, FinishRun, Settle, Clear, Answer
    <3>2. CASE WorkReturns(c)
      BY <2>b, <3>2 DEF WorkReturns, Goes
    <3> QED
      BY <2>a, <2>b, <3>1, <3>2, Moves DEF Same
  <2>3. active' # NoRun /\ active'.command = active.command /\ active'.version = active.version
    <3>0. active \in ActiveRun
      BY <2>a
    <3>1. ASSUME NEW d \in Command, BeginRun(d) \/ Clear(d) PROVE FALSE
      BY <3>1, <1>c, <2>a DEF BeginRun, Clear, Alone, Resting
    <3>2. ASSUME NEW d \in Command, NEW p \in Plan, Associate(d, p) PROVE active'.command = active.command /\ active'.version = active.version
      BY <3>0, <3>2 DEF Associate, ActiveRun
    <3>3. ASSUME NEW h \in Canceller, Mark(h) PROVE FALSE
      <4>1. Aims(h) /\ step'[h] = "done"
        BY <3>3 DEF Mark, Aims
      <4> QED
        BY <2>0, <4>1, OneAims DEF Aims
    <3>4. active'.command = active.command /\ active'.version = active.version
      BY <3>1, <3>2, <3>3, ActiveMoves
    <3> QED
      BY <2>a, <2>b, <3>4, ActiveRuns
  <2>4. ASSUME step[g] = "mark" PROVE row'[OpOf[c]] = Row(c)
    <3>1. ~Writes(c)
      BY <2>a, <2>b, WritersMove
    <3>2. ASSUME NEW h \in Canceller, Request(h) PROVE FALSE
      <4>1. Aims(h) /\ step[h] = "request"
        BY <3>2 DEF Request, Aims
      <4> QED
        BY <2>0, <2>4, <4>1, OneAims
    <3>3. \A o \in Op : ~RestCancel(o)
      BY NothingFails DEF Undisturbed
    <3> QED
      BY <2>b, <3>1, <3>2, <3>3, RowWriters DEF Row
  <2> QED
    BY <1>c, <1>4, <2>a, <2>1, <2>2, <2>3, <2>4
<1>5. ~Mark(g) /\ \A p \in Plan : ~Associate(g, p)
  <2>1. ~Mark(g)
    BY DEF Mark, Aims
  <2>2. ASSUME NEW p \in Plan, Associate(g, p) PROVE FALSE
    <3>1. step' = step
      BY <2>2 DEF Associate, StopPending, NoPlanStops
    <3> QED
      BY <2>2, <3>1 DEF Associate, Aims
  <2> QED
    BY <2>1, <2>2
<1> QED
  BY <1>c, <1>1, <1>2, <1>3, <1>4, <1>5, CancellerMoves

\* A run goes on knowing its version.
LEMMA VersionStep ==
    ASSUME Calm, Undisturbed, [Next]_vars
    PROVE  VersionKnown'
<1> USE DEF Calm, Base, Placed, LoopTyped
<1> SUFFICES ASSUME NEW c \in Command, Owns(c)', at'[c] # "clear"
             PROVE  Version(c)' = Row(c)'.version \/ \E g \in Canceller : step'[g] = "mark"
  BY DEF VersionKnown
<1> DEFINE Copied == {"finish", "cancelled", "failed", "succeeded"}
<1>0. OpOf[c] \in Op
  BY LoopAssumption
<1>1. CASE ~Owns(c)
  <2>1. BeginRun(c)
    BY <1>1, OwnsMoves
  <2>2. at[c] = "run" /\ row' = row /\ at'[c] = "started"
    BY <2>1 DEF BeginRun, HasActive, Goes, Owns, InRun
  <2>3. active' = [NoRun EXCEPT !.command = c, !.version = held[c]]
    BY <2>1, <2>2 DEF BeginRun, HasActive, Goes
  <2>4. Row(c).version = held[c]
    BY <2>2 DEF Succeeding, Claimed, Early
  <2> QED
    BY <2>2, <2>3, <2>4 DEF Version, Row, NoRun
<1>2. CASE Owns(c)
  <2>0. active.command = c /\ active # NoRun /\ active \in ActiveRun /\ at[c] # "clear"
    <3>1. active.command = c
      BY <1>2 DEF OwnersActive
    <3>2. ASSUME at[c] = "clear" PROVE FALSE
      <4>1. Callback(c) => at'[c] = "answer"
        BY <3>2 DEF Goes, Callback, TurnedAway, Create, Turn, ClaimOperation, CancelCreated, StartLoop, StopLoop,
                  Disarm, BeginRun, Succeed, Arm,
              FailClaimed, StartReturns, Launch, BeginComplete, FinishRun, Settle, Clear, Answer
      <4>2. ~WorkReturns(c)
        BY <3>2 DEF WorkReturns
      <4> QED
        BY <3>2, <4>1, <4>2, Moves DEF Same, Owns, InRun
    <3> QED
      BY <3>1, <3>2, ActiveRuns
  <2>1. CASE \E g \in Canceller : step[g] = "mark"
    <3>1. PICK g \in Canceller : step[g] = "mark"
      BY <2>1
    <3>2. g \in Command /\ aim[g] = c /\ at[c] \in {"work", "complete"} /\ seen[g] = Row(c).version
      BY <2>0, <3>1 DEF StopsAim, Aims
    <3>3. CASE Mark(g)
      <4>1. active' = [active EXCEPT !.cancelled = TRUE, !.version = seen[g]] /\ row' = row /\ at' = at
        BY <2>0, <3>2, <3>3 DEF Mark
      <4> QED
        BY <2>0, <3>2, <4>1 DEF Version, Row, ActiveRun
    <3>4. CASE ~Mark(g)
      <4>1. ~Disarm(g) /\ ~Look(g) /\ ~Request(g) /\ \A p \in Plan : ~Associate(g, p)
        BY <3>1, <3>2 DEF Disarm, Look, Request, Associate, StopsAim, Aims
      <4> QED
        BY <3>1, <3>2, <3>4, <4>1, CancellerMoves
    <3> QED
      BY <3>3, <3>4
  <2>2. CASE ~\E g \in Canceller : step[g] = "mark"
    <3>1. Version(c) = Row(c).version
      BY <1>2, <2>0, <2>2 DEF VersionKnown
    <3>2. Row(c)' = Row(c) \/ \E g \in Canceller : step'[g] = "mark"
      BY <1>2, <2>0, RunRow
    <3>3. active'.version = active.version
      <4>1. ASSUME NEW d \in Command, BeginRun(d) PROVE active' = active
        BY <2>0, <4>1 DEF BeginRun, HasActive
      <4>2. ASSUME NEW d \in Command, Clear(d) PROVE active' = active
        BY <2>0, <4>2 DEF Clear, Frees
      <4>3. ASSUME NEW d \in Command, NEW p \in Plan, Associate(d, p) PROVE active'.version = active.version
        BY <2>0, <4>3 DEF Associate, ActiveRun
      <4>4. ~\E g \in Canceller : Mark(g)
        BY <2>2 DEF Mark
      <4> QED
        BY <4>1, <4>2, <4>3, <4>4, ActiveMoves
    <3>4. Version(c)' = Version(c)
      <4> USE DEF Goes, Version
      <4>1. CASE Same(c)
        BY <3>3, <4>1 DEF Same
      <4>2. CASE WorkReturns(c)
        BY <3>3, <4>2 DEF WorkReturns
      <4>3. CASE BeginComplete(c)
        BY <1>2, <2>0, <4>3 DEF BeginComplete, CurrentVersion, Owns
      <4>4. CASE FinishRun(c)
        BY <4>4 DEF FinishRun
      <4>5. CASE Callback(c) /\ ~BeginComplete(c) /\ ~FinishRun(c)
        <5>1. at[c] \notin Copied /\ at'[c] \notin Copied
          BY <1>2, <2>0, <4>5 DEF Owns, InRun, Callback, TurnedAway, Create, Turn, ClaimOperation, CancelCreated,
                    StartLoop, StopLoop, Disarm, BeginRun,
              Succeed, Arm, FailClaimed, StartReturns, Launch, Settle, Clear, Answer
        <5> QED
          BY <3>3, <5>1
      <4> QED
        BY <4>1, <4>2, <4>3, <4>4, <4>5, Moves
    <3> QED
      BY <3>1, <3>2, <3>4
  <2> QED
    BY <2>1, <2>2
<1> QED
  BY <1>1, <1>2

\* A transition to an end makes nothing running.
LEMMA EndsAreNotRunning ==
    ASSUME NEW o \in Operation, NEW v, NEW target \in Terminal
    PROVE  /\ Transition(o, v, target).row.status = "running" => o.status = "running"
           /\ o.status = "running" /\ o.version = v => Transition(o, v, target).row.status = target
BY DEF Transition, Done, Failed, Legal, Terminal, Operation

\* What is running stays somebody's.
LEMMA RunningStep ==
    ASSUME Calm, Undisturbed, [Next]_vars
    PROVE  RunningIsOwned'
<1> USE DEF Calm, Base, Placed, LoopTyped
<1> SUFFICES ASSUME NEW o \in Op, row'[o].status = "running"
             PROVE  \E c \in Command : OpOf[c] = o /\ Responsible(c)'
  BY DEF RunningIsOwned
<1>r. row[o] \in Operation /\ Evolves(row[o], row'[o])
  BY NextRows DEF RowStep, RowsTyped
<1>1. CASE row[o].status = "running"
  <2>1. PICK c \in Command : OpOf[c] = o /\ Responsible(c)
    BY <1>1 DEF RunningIsOwned
  <2>r. OpOf[c] \in Op /\ row[o] = Row(c) /\ Row(c) \in Operation /\ Row(c).status = "running" /\ row'[o] = Row(c)'
    BY <1>1, <2>1 DEF Row
  <2>n. ~Fault
    BY NothingFails DEF Undisturbed
  <2> SUFFICES Responsible(c)'
    BY <2>1
  <2> USE DEF Goes
  <2>2. CASE at[c] \in Early
    <3> USE <2>2 DEF Early
    <3>1. CASE Same(c)
      BY <3>1 DEF Same, Responsible
    <3>2. ~WorkReturns(c)
      BY DEF WorkReturns
    <3>3. CASE Succeed(c)
      <4>1. Stores(c, Transition(Row(c), held[c], "succeeded"))
        BY <3>3, CallbackSucceeds DEF Succeed, Callback
      <4>2. Row(c)' = Transition(Row(c), held[c], "succeeded").row
        BY <2>r, <4>1 DEF Stores, Row
      <4>3. Row(c).version = held[c]
        BY DEF Succeeding, Claimed
      <4> QED
        BY <2>r, <4>2, <4>3, EndsAreNotRunning DEF Terminal
    <3>4. CASE StartLoop(c) \/ StopLoop(c) \/ Disarm(c)
      BY <3>4, CallbackSucceeds DEF StartLoop, StopLoop, Disarm, Callback, Responsible
    <3>5. CASE BeginRun(c)
      <4>1. at[c] = "run" /\ c \in Runs /\ ~noop[c]
        BY <3>5 DEF BeginRun, Posts, Succeeding
      <4>2. at'[c] \in Early \/ (at'[c] = "started" /\ noop' = noop)
        BY <3>5, CallbackSucceeds DEF BeginRun, Callback
      <4> QED
        BY <4>1, <4>2 DEF Responsible, Owns
    <3>6. Callback(c) => Succeed(c) \/ StartLoop(c) \/ StopLoop(c) \/ Disarm(c) \/ BeginRun(c)
      BY DEF Callback, TurnedAway, Create, Turn, ClaimOperation, CancelCreated, Arm,
              FailClaimed, StartReturns, Launch, BeginComplete, FinishRun, Settle, Clear, Answer
    <3> QED
      BY <3>1, <3>2, <3>3, <3>4, <3>5, <3>6, Moves
  <2>3. CASE Owns(c) /\ at[c] # "clear"
    <3>1. Owns(c)' /\ active.command = c
      BY <2>3, OwnsStays DEF Clear, OwnersActive
    <3>2. CASE Settle(c)
      <4>1. at[c] \in {"cancelled", "failed", "succeeded"} /\ Stores(c, Transition(Row(c), held[c], at[c]))
        BY <2>n, <3>2 DEF Settle
      <4>2. Row(c)' = Transition(Row(c), held[c], at[c]).row
        BY <2>r, <4>1 DEF Stores, Row
      <4>3. ~\E g \in Canceller : step[g] = "mark"
        BY <3>1, <4>1 DEF StopsAim, Aims
      <4>4. Row(c).version = held[c]
        BY <2>3, <4>1, <4>3 DEF VersionKnown, Version
      <4> QED
        BY <2>r, <4>1, <4>2, <4>4, EndsAreNotRunning DEF Terminal
    <3>3. CASE ~Settle(c)
      <4>1. at'[c] # "clear"
        <5>1. Callback(c) => at'[c] # "clear"
          BY <2>3, <3>3 DEF Owns, InRun, Callback, TurnedAway, Create, Turn, ClaimOperation, CancelCreated,
                    StartLoop, StopLoop, Disarm, BeginRun, Succeed, Arm,
              FailClaimed, StartReturns, Launch, BeginComplete, FinishRun, Clear, Answer
        <5>2. WorkReturns(c) => at'[c] # "clear"
          BY DEF WorkReturns
        <5> QED
          BY <2>3, <5>1, <5>2, Moves DEF Same
      <4> QED
        BY <3>1, <4>1 DEF Responsible
    <3> QED
      BY <3>2, <3>3
  <2> QED
    BY <2>1, <2>2, <2>3 DEF Responsible
<1>2. CASE row[o].status # "running"
  <2>1. PICK c \in Command : OpOf[c] = o /\ Writes(c)
    <3>1. ASSUME NEW version PROVE row'[o] # RequestCancellation(row[o], version).row
      BY <1>2, <1>r, RequestOnRunning
    <3> QED
      BY <1>2, <3>1, NextRows DEF RowStep, RowsTyped
  <2>2. row[o] = Row(c) /\ row'[o] = Row(c)'
    BY <2>1 DEF Row
  <2>r. OpOf[c] \in Op /\ Row(c) \in Operation
    BY <2>1, <2>2
  <2>3. CASE ClaimOperation(c)
    <3>1. at'[c] \in Early
      BY <2>3, CallbackSucceeds, LoopAssumption DEF ClaimOperation, Goes, LoopKinds, Early, Callback
    <3> QED
      BY <2>1, <3>1 DEF Responsible
  <2>4. CASE Create(c)
    BY <1>2, <2>2, <2>4, <2>r DEF Create, Stores, Done, Fresh, Row
  <2>5. CASE CancelCreated(c) \/ Succeed(c) \/ FailClaimed(c) \/ Settle(c)
    <3>1. row' = row \/ \E target \in Terminal : Stores(c, Transition(Row(c), held[c], target))
      BY <2>5 DEF CancelCreated, Succeed, FailClaimed, Settle, Terminal
    <3>2. row' = row \/ \E target \in Terminal : Row(c)' = Transition(Row(c), held[c], target).row
      BY <2>r, <3>1 DEF Stores, Row
    <3> QED
      BY <1>2, <2>2, <2>r, <3>2, EndsAreNotRunning
  <2> QED
    BY <2>1, <2>3, <2>4, <2>5 DEF Writes
<1> QED
  BY <1>1, <1>2

\* Without plan stoppers there is no word for a run.
LEMMA NoPlanStopsStep ==
    ASSUME NoPlanStops, Undisturbed, [Next]_vars
    PROVE  NoPlanStops'
<1> USE DEF NoPlanStops
<1>1. ASSUME NEW c \in Command, Callback(c) PROVE planStops' = {}
  BY <1>1 DEF Callback, TurnedAway, Create, ClaimOperation, CancelCreated, StartLoop, StopLoop, Disarm, BeginRun,
            Succeed, Arm,
              FailClaimed, StartReturns, Launch, BeginComplete, FinishRun, Settle, Clear, Answer
<1>2. CASE \/ \E e \in Command : Submit(e) \/ Executing(e) \/ CallerLeaves(e) \/ Working(e)
           \/ \E s \in Starts : Timing(s)
           \/ \E g \in Canceller : Cancelling(g)
           \/ \E o \in Op : RestCancel(o)
           \/ UNCHANGED vars
  BY <1>2 DEF Submit, Executing, Link, Return, CallerLeaves, Working, WorkReturns, Associate, Timing, Fire, Tick,
            Sleep,
              Cancelling, Look, Request, Mark, RestCancel, vars
<1>3. ~\E g \in Stopper : StopPlan(g)
  BY DEF Undisturbed
<1> QED
  BY <1>1, <1>2, <1>3 DEF Next

\* While nothing fails and nobody interferes from outside the loop, no operation
\* is left running by a command that is over, and no run owns the project for
\* ever: for any starts, stops, runs, retries and ticks, stops that cancel a run
\* included (startCommand, cancelActiveOperation, complete, clearActive).
THEOREM NothingIsLeftRunning ==
    ASSUME Undisturbed
    PROVE  Safety => []NoFakeRunning
<1> USE DEF Undisturbed
<1>1. Init => Base /\ Calm
  BY LoopAssumption, InitTyped DEF Init, Scheduler!Init, Base, Calm, Placed, OneHolder, HoldersRun, Posts,
            OwnersActive, Holds, RunsOn,
       Owns, InRun, Bounded, Alone, Succeeding, Claimed, Early,
       OwnerRuns, StopsAim, Aims, VersionKnown, RunningIsOwned, Resting, NoRun, Canceller, Absent, NoPlanStops
<1>2. Calm /\ [Next]_vars => Bounded' /\ Alone' /\ Succeeding' /\ OwnerRuns' /\ StopsAim' /\ VersionKnown' /\ RunningIsOwned' /\ NoPlanStops'
  BY ContextsEnd, AloneStep, SucceedingStep, OwnerStep, StopsAimStep, VersionStep, RunningStep, NoPlanStopsStep DEF Calm, Base, Placed
<1>4. Safety => []Calm
  BY <1>1, <1>2, StaysRunning, PTL DEF Safety, Calm, Base
<1>5. Calm => NoFakeRunning
  BY ActiveRuns DEF Calm, Base, Placed, LoopTyped, NoFakeRunning, RunningIsOwned, Responsible, OwnerRuns, Owns,
            InRun, Early
<1> QED
  BY <1>4, <1>5, PTL
=============================================================================
