----------------------------- MODULE WorkerPool -----------------------------
(***************************************************************************)
(* The global bounded worker pool (runtime/scheduler/worker_pool.go).      *)
(*                                                                         *)
(* A client reserves capacity, then starts the reservation with some work  *)
(* or releases it.  Started work waits in a fair queue until one of the    *)
(* pool's goroutines pops it, runs it and delivers one result.  One mutex  *)
(* protects the pool; every action is one critical section of it, or the   *)
(* code a goroutine runs between two of them.                              *)
(*                                                                         *)
(* An element of Item stands for a reservation and then for the work item  *)
(* made from it.  Its state is the code's workState, with the states       *)
(* of the reservation before it:                                           *)
(*   "none" -> "reserved" -> "queued" -> "running" -> "cancelling"         *)
(*                \-> "released"   \----------\----------> "finished"      *)
(* The clients (project actors, see ProjectActor) are free to take their   *)
(* steps in any order and to cancel at any time.                           *)
(***************************************************************************)
EXTENDS FairQueue

CONSTANTS
    Worker,         \* the pool's goroutines: WorkerLimit of them
    QueueCapacity,  \* capacity beyond the workers
    NoItem,         \* what a worker holds between two items
    Returned        \* the errors Work returns, of those below

Errors == {"nil", "failed", "canceled"}

ASSUME PoolAssumption ==
    /\ IsFiniteSet(Worker) /\ Worker # {}      \* WorkPoolConfig.valid
    /\ QueueCapacity \in Nat
    /\ NoItem \notin Item
    /\ Returned \subseteq Errors

WorkerLimit == Cardinality(Worker)
Capacity == WorkerLimit + QueueCapacity

VARIABLES
    queue,       \* fairQueue
    reserved,    \* counters of PoolStats, kept by hand in the code
    running,
    inFlight,
    active,      \* the set of accepted items without a result
    closed,
    state,       \* state of each item
    callerDone,  \* the context the client gave for the item is done
    pc,          \* where each worker is
    holds,       \* the item it popped
    outcome,     \* the result execute() computed, delivered by finish()
    done,        \* the item's result channel: the results sent on it
    invoked      \* how often the item's Work was called

poolVars == << queue, reserved, running, inFlight, active, closed, state,
               callerDone, pc, holds, outcome, done, invoked >>

States == {"none", "reserved", "released", "queued", "running", "cancelling", "finished"}
Result == [started : BOOLEAN, cancelled : BOOLEAN, err : Errors]
CancelledStarted == [started |-> TRUE, cancelled |-> TRUE, err |-> "canceled"]   \* Fault
CancelledResult == [started |-> FALSE, cancelled |-> TRUE, err |-> "canceled"]

\* The item's own context is cancelled exactly when its state becomes
\* cancelling or finished; it also inherits the caller's.
CtxErr(i) == callerDone[i] \/ state[i] \in {"cancelling", "finished"}

PoolInit ==
    /\ queue = EmptyQueue
    /\ reserved = 0 /\ running = 0 /\ inFlight = 0
    /\ active = {} /\ closed = FALSE
    /\ state = [i \in Item |-> "none"]
    /\ callerDone = [i \in Item |-> FALSE]
    /\ pc = [w \in Worker |-> "next"]
    /\ holds = [w \in Worker |-> NoItem]
    /\ outcome = [w \in Worker |-> CancelledResult]
    /\ done = [i \in Item |-> << >>]
    /\ invoked = [i \in Item |-> 0]

-----------------------------------------------------------------------------
(* Clients *)

\* Reserve refuses a closed pool and a full one.  Fault: off by one.
AdmitsOneMore == ~closed /\ inFlight <= Capacity
Admits == ~closed /\ inFlight < Capacity

Reserve(i) ==
    /\ state[i] = "none" /\ ~callerDone[i]
    /\ Admits
    /\ inFlight' = inFlight + 1
    /\ reserved' = reserved + 1
    /\ state' = [state EXCEPT ![i] = "reserved"]
    /\ UNCHANGED << queue, running, active, closed, callerDone, pc, holds, outcome, done, invoked >>

\* sync.Cond: Signal wakes one waiter if there is one, Broadcast all of them.
Waiting == {w \in Worker : pc[w] = "waiting"}
SignalForgotten == pc' = pc   \* Fault
Signal == IF Waiting = {} THEN pc' = pc
          ELSE \E w \in Waiting : pc' = [pc EXCEPT ![w] = "next"]
Broadcast == pc' = [w \in Worker |-> IF pc[w] = "waiting" THEN "next" ELSE pc[w]]

\* The reservation is given back: by Release, and by a Start whose context is
\* done or that finds the pool closed.
GiveBack(i) ==
    /\ reserved' = reserved - 1
    /\ inFlight' = inFlight - 1
    /\ state' = [state EXCEPT ![i] = "released"]
    /\ UNCHANGED << queue, running, active, closed, callerDone, pc, holds, outcome, done, invoked >>

\* Faults: Release is not idempotent, or has no effect.
ReleaseAgain(i) == state[i] \in {"reserved", "released"} /\ GiveBack(i)
ReleaseForgotten(i) == state[i] = "reserved" /\ UNCHANGED poolVars
Release(i) == state[i] = "reserved" /\ GiveBack(i)

StartRefused(i) == state[i] = "reserved" /\ (CtxErr(i) \/ closed) /\ GiveBack(i)

StartReserved(i) ==
    /\ state[i] = "reserved" /\ ~CtxErr(i) /\ ~closed
    /\ reserved' = reserved - 1
    /\ state' = [state EXCEPT ![i] = "queued"]
    /\ queue' = Push(queue, i)
    /\ active' = active \cup {i}
    /\ Signal
    /\ UNCHANGED << running, inFlight, closed, callerDone, holds, outcome, done, invoked >>

\* finishLocked for the items of a set: only an active item is delivered.
\* Fault: it stays active.
FinishKeepsActive(items, result) ==
    /\ UNCHANGED active
    /\ inFlight' = inFlight - Cardinality(items \cap active)
    /\ done' = [i \in Item |-> IF i \in items \cap active THEN Append(done[i], result) ELSE done[i]]

FinishLocked(items, result) ==
    LET open == items \cap active
    IN  /\ active' = active \ items
        /\ inFlight' = inFlight - Cardinality(open)
        /\ done' = [i \in Item |-> IF i \in open THEN Append(done[i], result) ELSE done[i]]

CancelQueued(i) ==
    /\ state[i] = "queued" /\ Holds(queue, i)
    /\ queue' = RemoveItem(queue, i)
    /\ state' = [state EXCEPT ![i] = "finished"]
    /\ FinishLocked({i}, CancelledResult)
    /\ UNCHANGED << reserved, running, closed, callerDone, pc, holds, outcome, invoked >>

CancelRunning(i) ==
    /\ state[i] = "running"
    /\ state' = [state EXCEPT ![i] = "cancelling"]
    /\ UNCHANGED << queue, reserved, running, inFlight, active, closed, callerDone,
                    pc, holds, outcome, done, invoked >>

\* A handle's Cancel is without effect in every other state.
Cancel(i) == CancelQueued(i) \/ CancelRunning(i)

\* The contexts the clients passed for some items are cancelled, by whoever owns
\* them: a caller that leaves, or a project actor that closes.
CancelCallers(items) ==
    /\ items # {} /\ \A i \in items : ~callerDone[i]
    /\ callerDone' = [i \in Item |-> callerDone[i] \/ i \in items]
    /\ UNCHANGED << queue, reserved, running, inFlight, active, closed, state,
                    pc, holds, outcome, done, invoked >>

ClosePool ==
    /\ ~closed
    /\ closed' = TRUE
    /\ LET drained == Drained(queue)
       IN  /\ queue' = [EmptyQueue EXCEPT !.length = queue.length - Cardinality(drained)]
           /\ state' = [i \in Item |-> IF i \in drained THEN "finished"
                                       ELSE IF i \in active /\ state[i] = "running" THEN "cancelling"
                                       ELSE state[i]]
           /\ FinishLocked(drained, CancelledResult)
    /\ Broadcast
    /\ UNCHANGED << reserved, running, callerDone, holds, outcome, invoked >>

-----------------------------------------------------------------------------
(* Workers *)

Goto(w, label) == pc' = [pc EXCEPT ![w] = label]

Wait(w) ==
    /\ pc[w] = "next" /\ queue.length = 0 /\ ~closed
    /\ Goto(w, "waiting")
    /\ UNCHANGED << queue, reserved, running, inFlight, active, closed, state,
                    callerDone, holds, outcome, done, invoked >>

\* A worker returns from its loop when the pool is closed and drained, and also
\* when Pop gives it nothing.
Exit(w) ==
    /\ pc[w] = "next"
    /\ IF queue.length = 0 THEN closed ELSE Turns(queue) = {}
    /\ queue' = IF queue.length = 0 THEN queue ELSE Pop(queue)
    /\ Goto(w, "exited")
    /\ UNCHANGED << reserved, running, inFlight, active, closed, state,
                    callerDone, holds, outcome, done, invoked >>

\* An item whose context is already done is finished without becoming running.
Take(w) ==
    /\ pc[w] = "next" /\ queue.length # 0 /\ Turns(queue) # {}
    /\ LET i == Popped(queue)
       IN  /\ queue' = Pop(queue)
           /\ holds' = [holds EXCEPT ![w] = i]
           /\ IF state[i] # "queued" THEN UNCHANGED << state, running >>
              ELSE IF CtxErr(i)
              THEN state' = [state EXCEPT ![i] = "finished"] /\ UNCHANGED running
              ELSE state' = [state EXCEPT ![i] = "running"] /\ running' = running + 1
    /\ Goto(w, "execute")
    /\ UNCHANGED << reserved, inFlight, active, closed, callerDone, outcome, done, invoked >>

\* The check of execute() before it calls Work.
SkipsWork(i) == state[i] = "finished" \/ CtxErr(i)

Execute(w) ==
    /\ pc[w] = "execute"
    /\ LET i == holds[w]
       IN  IF SkipsWork(i)
           THEN /\ outcome' = [outcome EXCEPT ![w] = CancelledResult]
                /\ Goto(w, "finish")
                /\ UNCHANGED invoked
           ELSE /\ invoked' = [invoked EXCEPT ![i] = @ + 1]
                /\ Goto(w, "work")
                /\ UNCHANGED outcome
    /\ UNCHANGED << queue, reserved, running, inFlight, active, closed, state, callerDone, holds, done >>

\* Work returns (a panic counts as an error); a cancellation requested in the
\* meantime overrides what it returned.
WorkReturns(w, err) ==
    /\ pc[w] = "work"
    /\ LET cancelled == state[holds[w]] = "cancelling"
       IN  outcome' = [outcome EXCEPT ![w] =
               [started |-> TRUE, cancelled |-> cancelled, err |-> IF cancelled THEN "canceled" ELSE err]]
    /\ Goto(w, "finish")
    /\ UNCHANGED << queue, reserved, running, inFlight, active, closed, state,
                    callerDone, holds, done, invoked >>

Finish(w) ==
    /\ pc[w] = "finish"
    /\ LET i == holds[w]
       IN  /\ running' = IF state[i] \in {"running", "cancelling"} THEN running - 1 ELSE running
           /\ state' = [state EXCEPT ![i] = "finished"]
           /\ FinishLocked({i}, outcome[w])
    /\ holds' = [holds EXCEPT ![w] = NoItem]
    /\ outcome' = [outcome EXCEPT ![w] = CancelledResult]
    /\ Goto(w, "next")
    /\ UNCHANGED << queue, reserved, closed, callerDone, invoked >>

WorkerStep(w) ==
    \/ Wait(w) \/ Exit(w) \/ Take(w) \/ Execute(w) \/ Finish(w)
    \/ \E err \in Returned : WorkReturns(w, err)

ClientStep(i) ==
    \/ Reserve(i) \/ Release(i) \/ StartRefused(i) \/ StartReserved(i)
    \/ Cancel(i)

PoolNext ==
    \/ \E i \in Item : ClientStep(i)
    \/ \E items \in SUBSET Item : CancelCallers(items)
    \/ ClosePool
    \/ \E w \in Worker : WorkerStep(w)

\* The Go runtime schedules every goroutine, and Work returns: it observes its
\* context, and the runners it calls bound every process they start.
PoolFairness == \A w \in Worker : WF_poolVars(WorkerStep(w))

PoolSafety == PoolInit /\ [][PoolNext]_poolVars
PoolSpec == PoolSafety /\ PoolFairness

-----------------------------------------------------------------------------
(* Properties *)

TypeOK ==
    /\ queue \in [byProject : [Project -> Seq(Item)], order : Seq(Project), length : Int]
    /\ reserved \in Nat /\ running \in Nat /\ inFlight \in Nat
    /\ active \subseteq Item
    /\ closed \in BOOLEAN
    /\ state \in [Item -> States]
    /\ callerDone \in [Item -> BOOLEAN]
    /\ pc \in [Worker -> {"next", "waiting", "execute", "work", "finish", "exited"}]
    /\ holds \in [Worker -> Item \cup {NoItem}]
    /\ outcome \in [Worker -> Result]
    /\ done \in [Item -> Seq(Result)]
    /\ invoked \in [Item -> Nat]

InState(S) == {i \in Item : state[i] \in S}
ReservedCount == Cardinality(InState({"reserved"}))
RunningCount == Cardinality(InState({"running", "cancelling"}))

\* PoolStats is right: the counters kept by hand at ten places of the code equal
\* what they count, and what is admitted never exceeds the configured capacity,
\* nor what runs the number of workers.
CountersRight ==
    /\ reserved = ReservedCount
    /\ running = RunningCount
    /\ inFlight = reserved + Cardinality(active)
    /\ inFlight <= Capacity
    /\ running <= WorkerLimit

\* The three parts of the fair queue agree with each other and with the items:
\* those in state queued are in it, each once and under its own project, every
\* project that waits has one turn, and length, the only part a worker looks at
\* before it sleeps or pops, counts them.
QueueRight == Represents(queue, InState({"queued"}))

\* One owner: between Pop and finish an item is in the hands of exactly one
\* worker, whatever is cancelled or closed meanwhile, and an item that is not
\* finished is either queued or in a worker's hands.
Held(i) == \E w \in Worker : holds[w] = i

OneOwner ==
    /\ \A w \in Worker : holds[w] # NoItem <=> pc[w] \in {"execute", "work", "finish"}
    /\ \A v, w \in Worker : holds[v] = holds[w] /\ holds[v] # NoItem => v = w
    /\ \A i \in Item :
         /\ state[i] \in {"none", "reserved", "released", "queued"} => ~Held(i)
         /\ state[i] \in {"running", "cancelling"} => Held(i)
         /\ state[i] = "finished" => (Held(i) <=> done[i] = << >>)

\* A handle "exposes one immutable terminal result": an accepted item is active
\* until its only result is sent, and never after.  (A second send would panic,
\* on a closed channel.)
OneResult ==
    /\ \A i \in Item : Len(done[i]) <= 1 /\ (done[i] # << >> => state[i] = "finished")
    /\ active = {i \in Item : \/ state[i] \in {"queued", "running", "cancelling"}
                              \/ state[i] = "finished" /\ done[i] = << >>}

\* The result tells whether Work ran: Started is reported exactly for an item
\* whose Work was called, and it is never called twice.
StartedIsTrue ==
    /\ \A i \in Item :
         /\ invoked[i] <= 1
         /\ state[i] \notin {"running", "cancelling", "finished"} => invoked[i] = 0
         /\ done[i] # << >> => (done[i][1].started <=> invoked[i] = 1)
    /\ \A w \in Worker :
         /\ pc[w] = "execute" => invoked[holds[w]] = 0
         /\ pc[w] = "work" => invoked[holds[w]] = 1
         /\ pc[w] = "finish" => (outcome[w].started <=> invoked[holds[w]] = 1)

\* Close reaches everything: in a closed pool nothing waits and nothing runs
\* that has not been told to stop, whatever was reserved or popped around it.
ShutDown == closed => InState({"queued", "running"}) = {}

\* "Cancelled queued work never invokes Work", nor does work whose caller
\* cancelled before a worker looked at it, whatever was cancelled and popped in
\* between.
CancelledNeverInvoked ==
    [][\A i \in Item : invoked'[i] # invoked[i] => state[i] = "running" /\ ~callerDone[i] /\ ~closed]_poolVars

\* A goroutine of the pool leaves its loop only at shutdown: the pool never
\* loses a worker while it is open.
NoWorkerLost == \A w \in Worker : pc[w] = "exited" => closed

\* Every accepted item gets its result: no wake-up is lost between Signal and
\* Wait, and neither a cancellation nor shutdown forgets an item.
EveryItemFinishes == \A i \in Item : state[i] = "queued" ~> done[i] # << >>

\* Close returns: once closed, all workers leave.
CloseCompletes == closed ~> \A w \in Worker : pc[w] = "exited"

=============================================================================
