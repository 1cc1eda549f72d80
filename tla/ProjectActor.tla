---------------------------- MODULE ProjectActor ----------------------------
(***************************************************************************)
(* The project actors and their manager (runtime/scheduler/actor.go and    *)
(* manager.go), composed with the worker pool they share.                  *)
(*                                                                         *)
(* An element of Item is a submitted command, and the pool's reservation   *)
(* and work item made for it if it is in HasWork.  An actor is a goroutine *)
(* that takes entries from its inbox: commands, cancellation requests and  *)
(* completions.  Only it invokes the callbacks Start, Cancel and Complete; *)
(* the pool's workers invoke Work.  Every action of an actor is one        *)
(* critical section of its mutex, one call into the pool or one callback.  *)
(*                                                                         *)
(* callerDone[i] of the pool is the done state of the request's context.   *)
(***************************************************************************)
EXTENDS WorkerPool

CONSTANTS
    HasWork,             \* the commands with a Work callback
    Actor, NoActor,      \* actor instances; a bound on how many are created
    ActorQueueCapacity,
    CallerBound,         \* the commands submitted with a context its owner may cancel
    Removable,           \* the projects that may be deleted
    MaxAsks              \* a bound on the calls of Submission.Cancel per command

ASSUME ActorAssumption ==
    /\ HasWork \subseteq Item /\ CallerBound \subseteq Item /\ Removable \subseteq Project
    /\ NoActor \notin Actor
    /\ ActorQueueCapacity \in Nat \ {0}
    /\ MaxAsks \in Nat

VARIABLES
    managerClosed,
    actorOf,         \* manager.actors
    unlinked,        \* actors deleted from the map whose Close is still to come
    route,           \* the actor Manager.Submit found for a command
    sequence,        \* its number among the commands the actor accepted
    inbox,
    queuedCommands,  \* commands in the inbox, counted by hand
    owned,           \* actor.active
    shut,            \* actor.closed
    at,              \* where each actor's goroutine is
    current,         \* the request it is working on
    verdict,         \* the result it is about to deliver
    handle,          \* request.work is set
    forwarding,      \* the goroutine that waits for the handle's result
    dropped,         \* Close: the pending commands it still has to answer
    stopping,        \* Close: the active requests whose handles it looks at
    asked,           \* calls of Submission.Cancel
    calls,           \* history of the callbacks of each command
    result           \* the results sent on request.done

actorVars == << managerClosed, actorOf, unlinked, route, sequence, inbox, queuedCommands, owned,
                shut, at, current, verdict, handle, forwarding, dropped, stopping, asked, calls, result >>
vars == << poolVars, actorVars >>

CommandResult == [started : BOOLEAN, cancelled : BOOLEAN, err : Errors \cup {"refused"}]
Verdict(started, err) == [started |-> started, cancelled |-> err = "canceled", err |-> err]

Command(i) == [kind |-> "command", request |-> i]
CancelEntryMistyped(i) == Command(i)   \* Fault: the wrong kind of entry
CancelEntry(i) == [kind |-> "cancel", request |-> i]
Completion(i) == [kind |-> "complete", request |-> i]
Entry == [kind : {"command", "cancel", "complete"}, request : Item]

Init ==
    /\ PoolInit
    /\ managerClosed = FALSE
    /\ actorOf = [p \in Project |-> NoActor]
    /\ unlinked = {}
    /\ route = [i \in Item |-> NoActor]
    /\ sequence = [i \in Item |-> 0]
    /\ inbox = [a \in Actor |-> << >>]
    /\ queuedCommands = [a \in Actor |-> 0]
    /\ owned = [a \in Actor |-> {}]
    /\ shut = [a \in Actor |-> FALSE]
    /\ at = [a \in Actor |-> "unborn"]
    /\ current = [a \in Actor |-> NoItem]
    /\ verdict = [a \in Actor |-> Verdict(FALSE, "nil")]
    /\ handle = [i \in Item |-> FALSE]
    /\ forwarding = [i \in Item |-> FALSE]
    /\ dropped = [a \in Actor |-> {}]
    /\ stopping = [a \in Actor |-> {}]
    /\ asked = [i \in Item |-> 0]
    /\ calls = [i \in Item |-> << >>]
    /\ result = [i \in Item |-> << >>]

\* The contexts of some requests are cancelled; those already done stay so.
CancelContexts(items) ==
    LET fresh == {i \in items : ~callerDone[i]}
    IN  IF fresh = {} THEN UNCHANGED poolVars ELSE CancelCallers(fresh)

\* WorkHandle.Cancel, with or without an effect.
CancelHandle(i) ==
    IF state[i] \in {"queued", "running"} THEN Cancel(i) ELSE UNCHANGED poolVars

AwakeNobody(a) == at   \* Fault: the signal is forgotten

\* Another goroutine signals the actor.
Awake(a) == [at EXCEPT ![a] = IF @ = "waiting" THEN "next" ELSE @]

Accepted(i) == sequence[i] # 0

-----------------------------------------------------------------------------
(* Clients *)

\* Manager.Submit, first half: find or create the project's actor.
Route(i) ==
    /\ route[i] = NoActor /\ ~callerDone[i] /\ ~managerClosed
    /\ LET p == ProjectOf[i]
       IN  IF actorOf[p] # NoActor
           THEN route' = [route EXCEPT ![i] = actorOf[p]] /\ UNCHANGED << actorOf, at >>
           ELSE \E a \in Actor :
                  /\ at[a] = "unborn"
                  /\ at' = [at EXCEPT ![a] = "next"]
                  /\ actorOf' = [actorOf EXCEPT ![p] = a]
                  /\ route' = [route EXCEPT ![i] = a]
    /\ UNCHANGED poolVars
    /\ UNCHANGED << managerClosed, unlinked, sequence, inbox, queuedCommands, owned, shut, current, verdict,
                    handle, forwarding, dropped, stopping, asked, calls, result >>

\* Second half: Actor.Submit, which finds the actor as it is by now.
Accept(i) ==
    LET a == route[i]
    IN  /\ a # NoActor /\ ~Accepted(i) /\ ~callerDone[i]
        /\ ~shut[a] /\ queuedCommands[a] < ActorQueueCapacity
        /\ sequence' = [sequence EXCEPT ![i] = 1 + Cardinality({j \in Item : route[j] = a /\ Accepted(j)})]
        /\ inbox' = [inbox EXCEPT ![a] = Append(@, Command(i))]
        /\ queuedCommands' = [queuedCommands EXCEPT ![a] = @ + 1]
        /\ at' = Awake(a)
        /\ UNCHANGED poolVars
        /\ UNCHANGED << managerClosed, actorOf, unlinked, route, owned, shut, current, verdict,
                        handle, forwarding, dropped, stopping, asked, calls, result >>

Refuse(i) ==
    LET a == route[i]
    IN  /\ a # NoActor /\ ~Accepted(i)
        /\ callerDone[i] \/ shut[a] \/ queuedCommands[a] >= ActorQueueCapacity
        /\ route' = [route EXCEPT ![i] = NoActor]
        /\ UNCHANGED poolVars
        /\ UNCHANGED << managerClosed, actorOf, unlinked, sequence, inbox, queuedCommands, owned, shut, at,
                        current, verdict, handle, forwarding, dropped, stopping, asked, calls, result >>

\* Submission.Cancel.  A closed actor refuses it.
RequestCancel(i) ==
    LET a == route[i]
    IN  /\ Accepted(i) /\ ~shut[a] /\ asked[i] < MaxAsks
        /\ asked' = [asked EXCEPT ![i] = @ + 1]
        /\ CancelContexts({i})
        /\ inbox' = [inbox EXCEPT ![a] = Append(@, CancelEntry(i))]
        /\ at' = Awake(a)
        /\ UNCHANGED << managerClosed, actorOf, unlinked, route, sequence, queuedCommands, owned, shut, current,
                        verdict, handle, forwarding, dropped, stopping, calls, result >>

\* The context given to Submit is cancelled.
CallerLeaves(i) ==
    /\ i \in CallerBound /\ route[i] # NoActor
    /\ CancelCallers({i})
    /\ UNCHANGED actorVars

-----------------------------------------------------------------------------
(* The actor's goroutine *)

Goes(a, label) == at' = [at EXCEPT ![a] = label]

\* The goroutine is done with an entry; its local variables go out of scope.
Loops(a) == Goes(a, "next") /\ current' = [current EXCEPT ![a] = NoItem]

\* Fault: an early return that forgets to finish the request.
ReturnsSilently(a, r) == Goes(a, "next") /\ verdict' = [verdict EXCEPT ![a] = r]

\* It will deliver this result and go on with the next entry.
Resolves(a, r) ==
    /\ Goes(a, "finish")
    /\ verdict' = [verdict EXCEPT ![a] = r]

\* nextEntry: nothing will come any more.  Fault: a closed actor does not wait
\* for the commands it still owns.
OverWhenShut(a) == shut[a]
Over(a) == shut[a] /\ owned[a] = {}

Sleep(a) ==
    /\ at[a] = "next" /\ inbox[a] = << >> /\ ~Over(a)
    /\ Goes(a, "waiting")
    /\ UNCHANGED poolVars
    /\ UNCHANGED << managerClosed, actorOf, unlinked, route, sequence, inbox, queuedCommands, owned, shut,
                    current, verdict, handle, forwarding, dropped, stopping, asked, calls, result >>

Leave(a) ==
    /\ at[a] = "next" /\ inbox[a] = << >> /\ Over(a)
    /\ Goes(a, "exited")
    /\ UNCHANGED poolVars
    /\ UNCHANGED << managerClosed, actorOf, unlinked, route, sequence, inbox, queuedCommands, owned, shut,
                    current, verdict, handle, forwarding, dropped, stopping, asked, calls, result >>

\* nextEntry: the entry taken was counted when it was queued.  Fault: so are the
\* cancellation requests and the completions.
CountedAlways(a, entry) == TRUE
Counted(a, entry) == entry.kind = "command" /\ queuedCommands[a] > 0

Receive(a) ==
    /\ at[a] = "next" /\ inbox[a] # << >>
    /\ LET entry == Head(inbox[a])
       IN  /\ Goes(a, entry.kind)
           /\ current' = [current EXCEPT ![a] = entry.request]
           /\ queuedCommands' = [queuedCommands EXCEPT ![a] = IF Counted(a, entry) THEN @ - 1 ELSE @]
    /\ inbox' = [inbox EXCEPT ![a] = Tail(@)]
    /\ UNCHANGED poolVars
    /\ UNCHANGED << managerClosed, actorOf, unlinked, route, sequence, owned, shut, verdict,
                    handle, forwarding, dropped, stopping, asked, calls, result >>

\* The context a queued command is submitted with is looked at once, before the
\* command is admitted.  Fault: not even then.
NeverWithdrawn(i) == FALSE
Withdrawn(i) == callerDone[i]

\* execute(): up to the mark in actor.active.
Admit(a) ==
    /\ at[a] = "command"
    /\ LET i == current[a]
       IN  IF Withdrawn(i) THEN Resolves(a, Verdict(FALSE, "canceled")) /\ UNCHANGED owned
           ELSE IF shut[a] THEN Resolves(a, Verdict(FALSE, "refused")) /\ UNCHANGED owned
           ELSE /\ owned' = [owned EXCEPT ![a] = @ \cup {i}]
                /\ Goes(a, IF i \in HasWork THEN "reserve" ELSE "start")
                /\ UNCHANGED verdict
    /\ UNCHANGED poolVars
    /\ UNCHANGED << managerClosed, actorOf, unlinked, route, sequence, inbox, queuedCommands, shut, current,
                    handle, forwarding, dropped, stopping, asked, calls, result >>

ReserveSlot(a) ==
    /\ at[a] = "reserve"
    /\ LET i == current[a]
       IN  \/ Reserve(i) /\ Goes(a, "start") /\ UNCHANGED verdict
           \/ callerDone[i] /\ Resolves(a, Verdict(FALSE, "canceled")) /\ UNCHANGED poolVars
           \/ ~callerDone[i] /\ ~Admits /\ Resolves(a, Verdict(FALSE, "refused")) /\ UNCHANGED poolVars
    /\ UNCHANGED << managerClosed, actorOf, unlinked, route, sequence, inbox, queuedCommands, owned, shut,
                    current, handle, forwarding, dropped, stopping, asked, calls, result >>

Invoked(i, callback) == [calls EXCEPT ![i] = Append(@, callback)]

CallStart(a) ==
    /\ at[a] = "start"
    /\ LET i == current[a]
       IN  \/ /\ calls' = Invoked(i, "start")
              /\ IF i \in HasWork THEN Goes(a, "launch") /\ UNCHANGED verdict
                 ELSE Resolves(a, Verdict(TRUE, "nil"))
              /\ UNCHANGED poolVars
           \/ /\ calls' = Invoked(i, "startFailed")
              /\ Resolves(a, Verdict(FALSE, "failed"))
              /\ IF i \in HasWork THEN Release(i) ELSE UNCHANGED poolVars
    /\ UNCHANGED << managerClosed, actorOf, unlinked, route, sequence, inbox, queuedCommands, owned, shut,
                    current, handle, forwarding, dropped, stopping, asked, result >>

\* execute() after a successful Start: the reservation becomes work, unless the
\* context was cancelled or the pool closed in the meantime.
Launch(a) ==
    /\ at[a] = "launch"
    /\ LET i == current[a]
       IN  \/ StartReserved(i) /\ Goes(a, "attach") /\ UNCHANGED verdict
           \/ callerDone[i] /\ Release(i) /\ Resolves(a, Verdict(TRUE, "canceled"))
           \/ ~callerDone[i] /\ StartRefused(i) /\ Resolves(a, Verdict(TRUE, "refused"))
    /\ UNCHANGED << managerClosed, actorOf, unlinked, route, sequence, inbox, queuedCommands, owned, shut,
                    current, handle, forwarding, dropped, stopping, asked, calls, result >>

Attach(a) ==
    /\ at[a] = "attach"
    /\ handle' = [handle EXCEPT ![current[a]] = TRUE]
    /\ forwarding' = [forwarding EXCEPT ![current[a]] = TRUE]
    /\ Loops(a)
    /\ UNCHANGED poolVars
    /\ UNCHANGED << managerClosed, actorOf, unlinked, route, sequence, inbox, queuedCommands, owned, shut,
                    verdict, dropped, stopping, asked, calls, result >>

\* cancelCalled.  Fault: it is ignored.
CallsCancelAgain(i) == Invoked(i, "cancel")
CallsCancelOnce(i) == IF "cancel" \in ToSet(calls[i]) THEN calls ELSE Invoked(i, "cancel")

\* cancel(): the callback once, for an active request only.
CallCancel(a) ==
    /\ at[a] = "cancel"
    /\ LET i == current[a]
       IN  IF i \notin owned[a] THEN Loops(a) /\ UNCHANGED calls
           ELSE /\ calls' = CallsCancelOnce(i)
                /\ IF handle[i] THEN Goes(a, "cancelWork") /\ UNCHANGED current ELSE Loops(a)
    /\ UNCHANGED poolVars
    /\ UNCHANGED << managerClosed, actorOf, unlinked, route, sequence, inbox, queuedCommands, owned, shut,
                    verdict, handle, forwarding, dropped, stopping, asked, result >>

CancelWork(a) ==
    /\ at[a] = "cancelWork"
    /\ CancelHandle(current[a])
    /\ Loops(a)
    /\ UNCHANGED << managerClosed, actorOf, unlinked, route, sequence, inbox, queuedCommands, owned, shut,
                    verdict, handle, forwarding, dropped, stopping, asked, calls, result >>

\* complete(): an error of the callback replaces the one of the work.
CallComplete(a) ==
    /\ at[a] = "complete"
    /\ LET i == current[a]
           work == done[i][1]
       IN  /\ calls' = Invoked(i, "complete")
           /\ \E err \in {work.err, "failed"} :
                Resolves(a, [started |-> TRUE, cancelled |-> work.cancelled \/ work.err = "canceled", err |-> err])
    /\ UNCHANGED poolVars
    /\ UNCHANGED << managerClosed, actorOf, unlinked, route, sequence, inbox, queuedCommands, owned, shut,
                    current, handle, forwarding, dropped, stopping, asked, result >>

\* commandRequest.finish sends one result only.
Sent(i, r) == [result EXCEPT ![i] = IF @ = << >> THEN << r >> ELSE @]

Deliver(a) ==
    /\ at[a] = "finish"
    /\ LET i == current[a]
       IN  /\ owned' = [owned EXCEPT ![a] = @ \ {i}]
           /\ CancelContexts({i})
           /\ result' = Sent(i, verdict[a])
    /\ Loops(a)
    /\ verdict' = [verdict EXCEPT ![a] = Verdict(FALSE, "nil")]
    /\ UNCHANGED << managerClosed, actorOf, unlinked, route, sequence, inbox, queuedCommands, shut, handle, forwarding, dropped, stopping, asked, calls >>

ActorStep(a) ==
    \/ Sleep(a) \/ Leave(a) \/ Receive(a) \/ Admit(a) \/ ReserveSlot(a) \/ CallStart(a) \/ Launch(a)
    \/ Attach(a) \/ CallCancel(a) \/ CancelWork(a) \/ CallComplete(a) \/ Deliver(a)

\* postCompletion: the goroutine started with the work forwards its result,
\* also to an actor that is closed.
Forward(i) ==
    LET a == route[i]
    IN  /\ forwarding[i] /\ done[i] # << >>
        /\ forwarding' = [forwarding EXCEPT ![i] = FALSE]
        /\ inbox' = [inbox EXCEPT ![a] = Append(@, Completion(i))]
        /\ at' = Awake(a)
        /\ UNCHANGED poolVars
        /\ UNCHANGED << managerClosed, actorOf, unlinked, route, sequence, queuedCommands, owned, shut, current,
                        verdict, handle, dropped, stopping, asked, calls, result >>

-----------------------------------------------------------------------------
(* Close, by the goroutine of RemoveProject or of Manager.Close *)

\* The places of an inbox in increasing order: the only element of the set.
InOrder(places) == {s \in SetToSeqs(places) : \A j, k \in DOMAIN s : j < k => s[j] < s[k]}

\* The critical section: the pending commands leave the inbox, the active ones
\* are cancelled, in the order of a map iteration.
CloseActor(a) ==
    LET pending == {i \in Item : Command(i) \in ToSet(inbox[a])}
    IN  /\ ~shut[a]
        /\ shut' = [shut EXCEPT ![a] = TRUE]
        /\ \E kept \in InOrder({k \in DOMAIN inbox[a] : inbox[a][k].kind # "command"}), order \in SetToSeqs(owned[a]) :
             inbox' = [inbox EXCEPT ![a] =
                 [k \in DOMAIN kept |-> @[kept[k]]] \o [k \in DOMAIN order |-> CancelEntry(order[k])]]
        /\ queuedCommands' = [queuedCommands EXCEPT ![a] = 0]
        /\ CancelContexts(owned[a])
        /\ dropped' = [dropped EXCEPT ![a] = pending]
        /\ stopping' = [stopping EXCEPT ![a] = owned[a]]
        /\ at' = Awake(a)
        /\ UNCHANGED << route, sequence, owned, current, verdict, handle, forwarding, asked, calls, result >>

DropPending(a) ==
    /\ \E i \in dropped[a] :
         /\ dropped' = [dropped EXCEPT ![a] = @ \ {i}]
         /\ owned' = [owned EXCEPT ![a] = @ \ {i}]
         /\ CancelContexts({i})
         /\ result' = Sent(i, Verdict(FALSE, "canceled"))
    /\ at' = Awake(a)
    /\ UNCHANGED << managerClosed, actorOf, unlinked, route, sequence, inbox, queuedCommands, shut, current,
                    verdict, handle, forwarding, stopping, asked, calls >>

\* Close reads request.work without the mutex, so it may miss a handle that has
\* just been set.
StopWork(a) ==
    /\ dropped[a] = {}
    /\ \E i \in stopping[a] :
         /\ stopping' = [stopping EXCEPT ![a] = @ \ {i}]
         /\ \/ handle[i] /\ CancelHandle(i)
            \/ UNCHANGED poolVars
    /\ UNCHANGED << managerClosed, actorOf, unlinked, route, sequence, inbox, queuedCommands, owned, shut, at,
                    current, verdict, handle, forwarding, dropped, asked, calls, result >>

RemoveProject(p) ==
    /\ ~managerClosed /\ actorOf[p] # NoActor
    /\ unlinked' = unlinked \cup {actorOf[p]}
    /\ actorOf' = [actorOf EXCEPT ![p] = NoActor]
    /\ UNCHANGED poolVars
    /\ UNCHANGED << managerClosed, route, sequence, inbox, queuedCommands, owned, shut, at, current, verdict,
                    handle, forwarding, dropped, stopping, asked, calls, result >>

CloseRemoved(a) ==
    /\ a \in unlinked
    /\ CloseActor(a)
    /\ unlinked' = unlinked \ {a}
    /\ UNCHANGED << managerClosed, actorOf >>

\* Manager.Close stops admission, then closes the actors one after the other,
\* then the pool.  It waits for each of them until its context is done: here it
\* may stop waiting at any time.
CloseManager ==
    /\ ~managerClosed
    /\ managerClosed' = TRUE
    /\ UNCHANGED poolVars
    /\ UNCHANGED << actorOf, unlinked, route, sequence, inbox, queuedCommands, owned, shut, at, current, verdict,
                    handle, forwarding, dropped, stopping, asked, calls, result >>

Linked == {a \in Actor : \E p \in Project : actorOf[p] = a}

CloseLinked(a) ==
    /\ managerClosed /\ a \in Linked
    /\ CloseActor(a)
    /\ UNCHANGED << managerClosed, actorOf, unlinked >>

CloseScheduler ==
    /\ managerClosed /\ \A a \in Linked : shut[a]
    /\ ClosePool
    /\ UNCHANGED actorVars

CloserStep(a) == CloseRemoved(a) \/ CloseLinked(a) \/ DropPending(a) \/ StopWork(a)

-----------------------------------------------------------------------------

Client ==
    \/ \E i \in Item : Route(i) \/ Accept(i) \/ Refuse(i) \/ RequestCancel(i) \/ CallerLeaves(i)
    \/ \E p \in Removable : RemoveProject(p)
    \/ CloseManager

PoolWorker(w) == WorkerStep(w) /\ UNCHANGED actorVars

Next ==
    \/ Client
    \/ \E a \in Actor : ActorStep(a) \/ CloserStep(a)
    \/ \E i \in Item : Forward(i)
    \/ CloseScheduler
    \/ \E w \in Worker : PoolWorker(w)

\* Every goroutine is scheduled, callbacks and Work return, and a Close that
\* has begun is carried on by its caller.
Fairness ==
    /\ \A a \in Actor : WF_vars(ActorStep(a)) /\ WF_vars(CloserStep(a))
    /\ \A i \in Item : WF_vars(Forward(i))
    /\ WF_vars(CloseScheduler)
    /\ \A w \in Worker : WF_vars(PoolWorker(w))

Safety == Init /\ [][Next]_vars
Spec == Safety /\ Fairness

-----------------------------------------------------------------------------
(* Properties *)

Working == {"command", "reserve", "start", "launch", "attach",
            "cancel", "cancelWork", "complete", "finish"}

\* Types; and a goroutine has a request in its hands exactly while it works on
\* an entry.
ActorTypeOK ==
    /\ managerClosed \in BOOLEAN
    /\ actorOf \in [Project -> Actor \cup {NoActor}] /\ unlinked \subseteq Actor
    /\ route \in [Item -> Actor \cup {NoActor}] /\ sequence \in [Item -> Nat]
    /\ inbox \in [Actor -> Seq(Entry)] /\ queuedCommands \in [Actor -> Nat]
    /\ owned \in [Actor -> SUBSET Item] /\ shut \in [Actor -> BOOLEAN]
    /\ at \in [Actor -> {"unborn", "next", "waiting", "exited"} \cup Working]
    /\ current \in [Actor -> Item \cup {NoItem}] /\ \A a \in Actor : current[a] \in Item <=> at[a] \in Working
    /\ verdict \in [Actor -> CommandResult]
    /\ handle \in [Item -> BOOLEAN] /\ forwarding \in [Item -> BOOLEAN]
    /\ dropped \in [Actor -> SUBSET Item] /\ stopping \in [Actor -> SUBSET Item]
    /\ asked \in [Item -> 0 .. MaxAsks]
    /\ calls \in [Item -> Seq({"start", "startFailed", "cancel", "complete"})]
    /\ result \in [Item -> Seq(CommandResult)]

\* The mailbox is bounded by the commands in it: the counter Submit admits by
\* counts them, through cancellations, completions and Close.
MailboxRight ==
    \A a \in Actor :
        /\ queuedCommands[a] = Cardinality({k \in DOMAIN inbox[a] : inbox[a][k].kind = "command"})
        /\ queuedCommands[a] <= ActorQueueCapacity

\* "An accepted state mutation is never left without worker capacity", nor
\* capacity without an actor: the pool's reservations are those of the actors
\* that are about to start or launch a command, one each.
ReservationsOwned ==
    \A i \in Item : state[i] = "reserved" <=>
        i \in HasWork /\ \E a \in Actor : current[a] = i /\ at[a] \in {"start", "launch"}

\* actor.active, by which Close knows what to cancel and when to stop: exactly
\* the commands admitted and not yet answered.
Busy(a) == at[a] \in {"reserve", "start", "launch", "attach"}

ActiveRight ==
    \A a \in Actor : owned[a] =
        {i \in Item : route[i] = a /\ result[i] = << >> /\
            \/ handle[i]
            \/ current[a] = i /\ (Busy(a) \/ (at[a] = "finish" /\ i \in owned[a]))}

\* "A deleted project cannot retain a worker slot or post a late completion":
\* when the goroutine of an actor has ended, which is what RemoveProject waits
\* for, its commands hold nothing in the pool, and nothing is on its way to it.
ExitedIsClean ==
    \A a \in Actor : at[a] = "exited" =>
        /\ inbox[a] = << >>
        /\ \A i \in Item : route[i] = a /\ Accepted(i) =>
             /\ state[i] \in {"none", "released", "finished"} /\ ~Held(i)
             /\ ~forwarding[i]
             /\ result[i] # << >> \/ i \in dropped[a]

\* "Queued cancellation never starts external work": a command whose context
\* is cancelled while it waits in the mailbox never reaches Start.
WaitsCancelled(i) ==
    callerDone[i] /\ \E a \in Actor : Command(i) \in ToSet(inbox[a])

QueuedCancellation == \A i \in Item : [](WaitsCancelled(i) => [](calls[i] = << >>))

\* The actors and the pool together keep the contract of the scheduler.
Contract == INSTANCE CommandContract WITH
    owner <- [i \in Item |-> IF Accepted(i) THEN route[i] ELSE NoActor],
    place <- sequence, gone <- callerDone, shutdown <- closed

KeepsContract == Contract!Spec

\* The actors use the pool only in the ways WorkerPool allows its clients.
UsesPool == PoolSafety

\* Every accepted command is answered, whatever is cancelled, removed or closed.
EveryCommandAnswered == \A i \in Item : Accepted(i) ~> result[i] # << >>

\* A closed actor gets rid of everything it accepted and ends, so that
\* RemoveProject and Close return without their deadline.
ClosedActorEnds == \A a \in Actor : shut[a] ~> at[a] = "exited"

=============================================================================
