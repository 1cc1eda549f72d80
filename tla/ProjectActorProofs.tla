------------------------- MODULE ProjectActorProofs -------------------------
(***************************************************************************)
(* The actors and the pool, for any commands, projects, actors, workers    *)
(* and capacities.                                                         *)
(*                                                                         *)
(* The first part proves that every step of the composed system is a step  *)
(* of WorkerPool or leaves the pool alone (UsesPool).  It needs to know    *)
(* only that what the actors hand to the pool are commands: the goroutine  *)
(* of a busy actor works on one, the inboxes name commands, Close cancels  *)
(* commands.  What WorkerPoolProofs proves of the pool then holds of the   *)
(* composed system.  The last part types the results: they are put together *)
(* from those of the pool, which are there when a completion is posted.     *)
(***************************************************************************)
EXTENDS ProjectActor, WorkerPoolProofs

\* Every accepted command has an actor, and every project's actor is one.
Routed ==
    /\ actorOf \in [Project -> Actor \cup {NoActor}]
    /\ route \in [Item -> Actor \cup {NoActor}]
    /\ sequence \in [Item -> Nat]
    /\ \A i \in Item : Accepted(i) => route[i] \in Actor

\* Whatever an actor or its Close works on is a command.
Named ==
    /\ inbox \in [Actor -> Seq(Entry)]
    /\ owned \in [Actor -> SUBSET Item]
    /\ dropped \in [Actor -> SUBSET Item]
    /\ stopping \in [Actor -> SUBSET Item]

\* Exactly the actors at work have a command in their hands.
Handed ==
    /\ at \in [Actor -> {"unborn", "next", "waiting", "exited"} \cup Working]
    /\ current \in [Actor -> Item \cup {NoItem}]
    /\ \A a \in Actor : current[a] \in Item <=> at[a] \in Working

Shape == Routed /\ Named /\ Handed

\* Nothing has been submitted.
LEMMA InitShape == Init => Shape
  BY ItemAssumption, PoolAssumption DEF Init, Shape, Routed, Named, Handed, Accepted, Working

\* What another goroutine does to an actor's place: nothing, or it wakes it.
LEMMA AwakeHanded ==
  ASSUME Handed, NEW a \in Actor, at' = Awake(a), current' = current
  PROVE  Handed'
  BY DEF Handed, Awake, Working

\* A command is routed to an actor, found or created.
LEMMA RouteShape ==
  ASSUME Shape, NEW i \in Item, Route(i)
  PROVE  Shape'
  <1> DEFINE p == ProjectOf[i]
  <1>1. p \in Project
    BY ItemAssumption
  <1>2. CASE actorOf[p] # NoActor
    BY <1>1, <1>2 DEF Route, Shape, Routed, Named, Handed, Accepted
  <1>3. CASE actorOf[p] = NoActor
    <2>1. PICK a \in Actor : /\ at[a] = "unborn" /\ at' = [at EXCEPT ![a] = "next"]
                             /\ actorOf' = [actorOf EXCEPT ![p] = a]
                             /\ route' = [route EXCEPT ![i] = a]
      BY <1>3 DEF Route
    <2>2. UNCHANGED << sequence, inbox, owned, dropped, stopping, current >>
      BY DEF Route
    <2>3. Routed'
      BY <1>1, <2>1, <2>2 DEF Shape, Routed, Accepted
    <2>4. Named' /\ Handed'
      BY <2>1, <2>2 DEF Shape, Named, Handed, Working
    <2> QED BY <2>3, <2>4 DEF Shape
  <1> QED BY <1>2, <1>3

\* Submission puts a command into the inbox of its actor.
LEMMA AcceptShape ==
  ASSUME Shape, NEW i \in Item, Accept(i)
  PROVE  Shape'
  <1> DEFINE a == route[i]
             n == Cardinality({j \in Item : route[j] = a /\ Accepted(j)})
  <1>1. a \in Actor
    BY DEF Accept, Shape, Routed
  <1>2. n \in Nat
    <2>1. IsFiniteSet({j \in Item : route[j] = a /\ Accepted(j)})
      BY ItemAssumption, FS_Subset
    <2> QED BY <2>1, FS_CardinalityType
  <1>3. /\ sequence' = [sequence EXCEPT ![i] = 1 + n]
        /\ inbox' = [inbox EXCEPT ![a] = Append(@, Command(i))]
        /\ at' = Awake(a)
        /\ UNCHANGED << actorOf, route, owned, dropped, stopping, current >>
    BY DEF Accept
  <1> HIDE DEF a, n
  <1>4. Routed'
    BY <1>1, <1>2, <1>3 DEF Shape, Routed, Accepted, a
  <1>5. Command(i) \in Entry
    BY DEF Command, Entry
  <1>6. Named'
    BY <1>1, <1>3, <1>5 DEF Shape, Named
  <1>7. Handed'
    BY <1>1, <1>3, AwakeHanded DEF Shape
  <1> QED BY <1>4, <1>6, <1>7 DEF Shape

\* A refused command can be submitted again.
LEMMA RefuseShape ==
  ASSUME Shape, NEW i \in Item, Refuse(i)
  PROVE  Shape'
  BY DEF Refuse, Shape, Routed, Named, Handed, Accepted

\* A cancellation request names its command.
LEMMA RequestCancelShape ==
  ASSUME Shape, NEW i \in Item, RequestCancel(i)
  PROVE  Shape'
  <1> DEFINE a == route[i]
  <1>1. a \in Actor
    BY DEF RequestCancel, Shape, Routed
  <1>2. /\ inbox' = [inbox EXCEPT ![a] = Append(@, CancelEntry(i))]
        /\ at' = Awake(a)
        /\ UNCHANGED << actorOf, route, sequence, owned, dropped, stopping, current >>
    BY DEF RequestCancel
  <1> HIDE DEF a
  <1>3. CancelEntry(i) \in Entry
    BY DEF CancelEntry, Entry
  <1>4. Routed' /\ Named'
    BY <1>1, <1>2, <1>3 DEF Shape, Routed, Accepted, Named
  <1>5. Handed'
    BY <1>1, <1>2, AwakeHanded DEF Shape
  <1> QED BY <1>4, <1>5 DEF Shape

\* An update of an actor that is none changes nothing.
LEMMA NoUpdate ==
  ASSUME NEW f, NEW S, f \in [Actor -> S], NEW x, x \notin Actor, NEW y
  PROVE  [f EXCEPT ![x] = y] = f
  OBVIOUS

\* So does a completion.
LEMMA ForwardShape ==
  ASSUME Shape, NEW i \in Item, Forward(i)
  PROVE  Shape'
  <1> DEFINE a == route[i]
  <1>1. /\ inbox' = [inbox EXCEPT ![a] = Append(inbox[a], Completion(i))]
        /\ at' = Awake(a)
        /\ UNCHANGED << actorOf, route, sequence, owned, dropped, stopping, current >>
    BY DEF Forward
  <1> HIDE DEF a
  <1>2. CASE a \in Actor
    <2>1. Completion(i) \in Entry
      BY DEF Completion, Entry
    <2>2. Routed' /\ Named'
      BY <1>1, <1>2, <2>1 DEF Shape, Routed, Accepted, Named
    <2>3. Handed'
      BY <1>1, <1>2, AwakeHanded DEF Shape
    <2> QED BY <2>2, <2>3 DEF Shape
  <1>3. CASE a \notin Actor
    <2>1. inbox' = inbox
      BY <1>1, <1>3, NoUpdate DEF Shape, Named
    <2>2. at' = at
      <3>1. at' = [at EXCEPT ![a] = IF at[a] = "waiting" THEN "next" ELSE at[a]]
        BY <1>1 DEF Awake
      <3> QED BY <1>3, <3>1, NoUpdate DEF Shape, Handed
    <2> QED BY <1>1, <2>1, <2>2 DEF Shape, Routed, Accepted, Named, Handed
  <1> QED BY <1>2, <1>3

\* A goroutine without work sleeps or ends.
LEMMA SleepShape ==
  ASSUME Shape, NEW a \in Actor, Sleep(a) \/ Leave(a)
  PROVE  Shape'
  BY DEF Sleep, Leave, Goes, Shape, Routed, Accepted, Named, Handed, Working

\* A received entry puts a command in the hands of the actor.
LEMMA ReceiveShape ==
  ASSUME Shape, NEW a \in Actor, Receive(a)
  PROVE  Shape'
  <1> DEFINE entry == Head(inbox[a])
  <1>1. inbox[a] \in Seq(Entry) /\ inbox[a] # << >>
    BY DEF Shape, Named, Receive
  <1>2. entry \in Entry /\ Tail(inbox[a]) \in Seq(Entry)
    BY <1>1
  <1>3. entry.kind \in Working /\ entry.request \in Item
    BY <1>2 DEF Entry, Working
  <1>4. /\ at' = [at EXCEPT ![a] = entry.kind]
        /\ current' = [current EXCEPT ![a] = entry.request]
        /\ inbox' = [inbox EXCEPT ![a] = Tail(@)]
        /\ UNCHANGED << actorOf, route, sequence, owned, dropped, stopping >>
    BY DEF Receive, Goes
  <1> HIDE DEF entry
  <1>5. Routed' /\ Named'
    BY <1>2, <1>4 DEF Shape, Routed, Accepted, Named
  <1>6. Handed'
    BY <1>3, <1>4 DEF Shape, Handed
  <1> QED BY <1>5, <1>6 DEF Shape

\* The other steps of an actor keep its command in its hands or put it down.
LEMMA KeepsCommand ==
  ASSUME Shape, NEW a \in Actor, at[a] \in Working,
         NEW label, label \in Working, at' = [at EXCEPT ![a] = label], current' = current
  PROVE  Handed'
  BY DEF Shape, Handed

\* An entry that is done with is put down.
LEMMA PutsDown ==
  ASSUME Shape, NEW a \in Actor, Loops(a)
  PROVE  Handed'
  BY PoolAssumption DEF Shape, Handed, Loops, Goes, Working

\* An admitted command becomes active.
LEMMA AdmitShape ==
  ASSUME Shape, NEW a \in Actor, Admit(a)
  PROVE  Shape'
  <1>1. at[a] \in Working /\ current[a] \in Item
    BY DEF Admit, Shape, Handed, Working
  <1>2. \E label \in {"finish", "reserve", "start"} : at' = [at EXCEPT ![a] = label]
    BY DEF Admit, Resolves, Goes
  <1>3. UNCHANGED << actorOf, route, sequence, inbox, dropped, stopping, current >>
    BY DEF Admit
  <1>4. owned' = owned \/ owned' = [owned EXCEPT ![a] = @ \cup {current[a]}]
    BY DEF Admit
  <1>5. {"finish", "reserve", "start"} \subseteq Working
    BY DEF Working
  <1>6. Handed'
    <2>1. PICK label \in Working : at' = [at EXCEPT ![a] = label]
      BY <1>2, <1>5
    <2>2. current' = current
      BY <1>3
    <2> QED BY <1>1, <2>1, <2>2, KeepsCommand
  <1>7. owned' \in [Actor -> SUBSET Item]
    BY <1>1, <1>4 DEF Shape, Named
  <1>8. Routed' /\ Named'
    BY <1>3, <1>7 DEF Shape, Routed, Accepted, Named
  <1> QED BY <1>6, <1>8 DEF Shape

\* The steps that leave everything else to the pool or to the callbacks.
Elsewhere == UNCHANGED << actorOf, route, sequence, inbox, owned, dropped, stopping >>

\* Such steps keep what is routed and what is named.
LEMMA ElsewhereShape ==
  ASSUME Shape, Elsewhere
  PROVE  Routed' /\ Named'
  BY DEF Elsewhere, Shape, Routed, Accepted, Named

\* The steps that go on with the same command.
LEMMA BusyShape ==
  ASSUME Shape, NEW a \in Actor,
         ReserveSlot(a) \/ CallStart(a) \/ Launch(a) \/ CallComplete(a)
  PROVE  Shape'
  <1>1. at[a] \in Working
    BY DEF ReserveSlot, CallStart, Launch, CallComplete, Working
  <1>2. Elsewhere /\ current' = current
    BY DEF ReserveSlot, CallStart, Launch, CallComplete, Elsewhere
  <1>3. \E label \in Working : at' = [at EXCEPT ![a] = label]
    BY DEF ReserveSlot, CallStart, Launch, CallComplete, Resolves, Goes, Working
  <1> QED BY <1>1, <1>2, <1>3, KeepsCommand, ElsewhereShape DEF Shape

\* The steps that end the work on an entry.
LEMMA DoneShape ==
  ASSUME Shape, NEW a \in Actor, Attach(a) \/ CallCancel(a) \/ CancelWork(a)
  PROVE  Shape'
  <1>1. Elsewhere
    BY DEF Attach, CallCancel, CancelWork, Elsewhere
  <1>2. Routed' /\ Named'
    BY <1>1, ElsewhereShape
  <1>3. Loops(a) \/ (CallCancel(a) /\ current' = current /\ at' = [at EXCEPT ![a] = "cancelWork"])
    BY DEF Attach, CallCancel, CancelWork, Goes
  <1>4. CASE Loops(a)
    BY <1>2, <1>4, PutsDown DEF Shape
  <1>5. CASE CallCancel(a) /\ current' = current /\ at' = [at EXCEPT ![a] = "cancelWork"]
    BY <1>2, <1>5, KeepsCommand DEF Shape, CallCancel, Working
  <1> QED BY <1>3, <1>4, <1>5

\* A delivered command is active no more.
LEMMA DeliverShape ==
  ASSUME Shape, NEW a \in Actor, Deliver(a)
  PROVE  Shape'
  <1>1. /\ Loops(a) /\ owned' = [owned EXCEPT ![a] = @ \ {current[a]}]
        /\ UNCHANGED << actorOf, route, sequence, inbox, dropped, stopping >>
    BY DEF Deliver
  <1>2. Routed' /\ Named'
    BY <1>1 DEF Shape, Routed, Accepted, Named
  <1> QED BY <1>1, <1>2, PutsDown DEF Shape

\* Close rebuilds the inbox out of entries of it and of cancellations, and
\* works on the commands that were pending or active.
LEMMA CloseActorShape ==
  ASSUME Shape, NEW a \in Actor, CloseActor(a), actorOf' \in [Project -> Actor \cup {NoActor}]
  PROVE  Shape'
  <1> DEFINE places == {k \in DOMAIN inbox[a] : inbox[a][k].kind # "command"}
             pending == {i \in Item : Command(i) \in ToSet(inbox[a])}
  <1>1. PICK kept \in InOrder(places), order \in SetToSeqs(owned[a]) :
          inbox' = [inbox EXCEPT ![a] =
            [k \in DOMAIN kept |-> @[kept[k]]] \o [k \in DOMAIN order |-> CancelEntry(order[k])]]
    BY DEF CloseActor
  <1>2. /\ dropped' = [dropped EXCEPT ![a] = pending]
        /\ stopping' = [stopping EXCEPT ![a] = owned[a]]
        /\ at' = Awake(a)
        /\ UNCHANGED << route, sequence, owned, current >>
    BY DEF CloseActor
  <1>3. [k \in DOMAIN kept |-> inbox[a][kept[k]]] \in Seq(Entry)
    <2>1. kept \in [1 .. Cardinality(places) -> places] /\ IsFiniteSet(places)
      <3>1. kept \in [1 .. Cardinality(places) -> places]
        BY DEF InOrder, SetToSeqs
      <3>2. inbox[a] \in Seq(Entry)
        BY DEF Shape, Named
      <3>3. IsFiniteSet(1 .. Len(inbox[a]))
        <4>1. Len(inbox[a]) \in Int /\ 1 \in Int
          BY <3>2
        <4> QED BY <4>1, FS_Interval
      <3>4. places \subseteq 1 .. Len(inbox[a])
        <4>1. DOMAIN inbox[a] = 1 .. Len(inbox[a])
          BY <3>2
        <4> QED BY <4>1
      <3> QED BY <3>1, <3>3, <3>4, FS_Subset
    <2>2. Cardinality(places) \in Nat
      BY <2>1, FS_CardinalityType
    <2>3. \A k \in places : inbox[a][k] \in Entry
      BY DEF Shape, Named
    <2> HIDE DEF places
    <2> QED BY <2>1, <2>2, <2>3
  <1>4. [k \in DOMAIN order |-> CancelEntry(order[k])] \in Seq(Entry)
    <2>1. order \in [1 .. Cardinality(owned[a]) -> owned[a]] /\ owned[a] \subseteq Item
      BY DEF SetToSeqs, Shape, Named
    <2>2. Cardinality(owned[a]) \in Nat
      BY <2>1, ItemAssumption, FS_Subset, FS_CardinalityType
    <2>3. \A k \in DOMAIN order : CancelEntry(order[k]) \in Entry
      BY <2>1 DEF CancelEntry, Entry
    <2> QED BY <2>1, <2>2, <2>3
  <1>5. inbox' \in [Actor -> Seq(Entry)]
    BY <1>1, <1>3, <1>4 DEF Shape, Named
  <1>6. pending \subseteq Item
    OBVIOUS
  <1> HIDE DEF pending
  <1>7. Routed' /\ Named'
    BY <1>2, <1>5, <1>6 DEF Shape, Routed, Accepted, Named
  <1>8. Handed'
    BY <1>2, AwakeHanded DEF Shape
  <1> QED BY <1>7, <1>8 DEF Shape

\* Every step of a Close.
LEMMA CloserShape ==
  ASSUME Shape, NEW a \in Actor, CloserStep(a)
  PROVE  Shape'
  <1>1. CASE CloseRemoved(a) \/ CloseLinked(a)
    <2>1. actorOf' = actorOf /\ CloseActor(a)
      BY <1>1 DEF CloseRemoved, CloseLinked
    <2>2. actorOf' \in [Project -> Actor \cup {NoActor}]
      BY <2>1 DEF Shape, Routed
    <2> QED BY <2>1, <2>2, CloseActorShape
  <1>2. CASE DropPending(a)
    <2>1. PICK i \in dropped[a] : /\ dropped' = [dropped EXCEPT ![a] = @ \ {i}]
                                  /\ owned' = [owned EXCEPT ![a] = @ \ {i}]
      BY <1>2 DEF DropPending
    <2>2. at' = Awake(a) /\ UNCHANGED << actorOf, route, sequence, inbox, stopping, current >>
      BY <1>2 DEF DropPending
    <2>3. Routed' /\ Named'
      BY <2>1, <2>2 DEF Shape, Routed, Accepted, Named
    <2>4. Handed'
      BY <2>2, AwakeHanded DEF Shape
    <2> QED BY <2>3, <2>4 DEF Shape
  <1>3. CASE StopWork(a)
    <2>1. PICK i \in stopping[a] : stopping' = [stopping EXCEPT ![a] = @ \ {i}]
      BY <1>3 DEF StopWork
    <2>2. UNCHANGED << actorOf, route, sequence, inbox, owned, dropped, at, current >>
      BY <1>3 DEF StopWork
    <2> QED BY <2>1, <2>2 DEF Shape, Routed, Accepted, Named, Handed
  <1> QED BY <1>1, <1>2, <1>3 DEF CloserStep

\* A project without an actor.
LEMMA RemoveProjectShape ==
  ASSUME Shape, NEW p \in Project, RemoveProject(p)
  PROVE  Shape'
  <1>1. /\ actorOf' = [actorOf EXCEPT ![p] = NoActor]
        /\ UNCHANGED << route, sequence, inbox, owned, dropped, stopping, at, current >>
    BY DEF RemoveProject
  <1> QED BY <1>1 DEF Shape, Routed, Accepted, Named, Handed

\* The steps that leave the actors alone.
LEMMA StillShape ==
  ASSUME Shape, UNCHANGED << actorOf, route, sequence, inbox, owned, dropped, stopping, at, current >>
  PROVE  Shape'
  BY DEF Shape, Routed, Accepted, Named, Handed

\* Every step of the composed system.
LEMMA NextShape ==
  ASSUME Shape, [Next]_vars
  PROVE  Shape'
  <1>1. CASE Client
    <2>1. ASSUME NEW i \in Item,
                 Route(i) \/ Accept(i) \/ Refuse(i) \/ RequestCancel(i) \/ CallerLeaves(i)
          PROVE  Shape'
      <3>1. CallerLeaves(i) => Shape'
        BY StillShape DEF CallerLeaves, actorVars
      <3> QED BY <2>1, <3>1, RouteShape, AcceptShape, RefuseShape, RequestCancelShape
    <2>2. ASSUME NEW p \in Removable, RemoveProject(p)
          PROVE  Shape'
      BY <2>2, ActorAssumption, RemoveProjectShape
    <2>3. CloseManager => Shape'
      BY StillShape DEF CloseManager
    <2> QED BY <1>1, <2>1, <2>2, <2>3 DEF Client
  <1>2. ASSUME NEW a \in Actor, ActorStep(a)
        PROVE  Shape'
    BY <1>2, SleepShape, ReceiveShape, AdmitShape, BusyShape, DoneShape, DeliverShape DEF ActorStep
  <1>3. ASSUME NEW a \in Actor, CloserStep(a)
        PROVE  Shape'
    BY <1>3, CloserShape
  <1>4. ASSUME NEW i \in Item, Forward(i)
        PROVE  Shape'
    BY <1>4, ForwardShape
  <1>5. CASE CloseScheduler \/ (\E w \in Worker : PoolWorker(w)) \/ UNCHANGED vars
    BY <1>5, StillShape DEF CloseScheduler, PoolWorker, actorVars, vars
  <1> QED BY <1>1, <1>2, <1>3, <1>4, <1>5 DEF Next

\* What the actors hand to the pool are commands.
THEOREM ActorsHandCommands == Safety => []Shape
  <1> QED BY InitShape, NextShape, PTL DEF Safety

-----------------------------------------------------------------------------
(* Every step of the actors is one of the pool, or leaves it alone. *)

\* Cancelling contexts is a step of the pool's clients, or none.
LEMMA ContextsUsePool ==
  ASSUME NEW items \in SUBSET Item, CancelContexts(items)
  PROVE  [PoolNext]_poolVars
  <1> DEFINE fresh == {i \in items : ~callerDone[i]}
  <1>1. fresh \in SUBSET Item
    OBVIOUS
  <1>2. UNCHANGED poolVars \/ CancelCallers(fresh)
    BY DEF CancelContexts
  <1> HIDE DEF fresh
  <1> QED BY <1>1, <1>2 DEF PoolNext

\* So is cancelling a handle.
LEMMA HandleUsesPool ==
  ASSUME NEW i \in Item, CancelHandle(i)
  PROVE  [PoolNext]_poolVars
  BY DEF CancelHandle, PoolNext, ClientStep

\* The clients of the actors touch the pool through contexts only.
LEMMA ClientUsesPool ==
  ASSUME Shape, Client
  PROVE  [PoolNext]_poolVars
  <1>1. ASSUME NEW i \in Item, Route(i) \/ Accept(i) \/ Refuse(i)
        PROVE  UNCHANGED poolVars
    BY <1>1 DEF Route, Accept, Refuse
  <1>2. ASSUME NEW i \in Item, RequestCancel(i)
        PROVE  [PoolNext]_poolVars
    <2>1. CancelContexts({i}) /\ {i} \in SUBSET Item
      BY <1>2 DEF RequestCancel
    <2> QED BY <2>1, ContextsUsePool
  <1>3. ASSUME NEW i \in Item, CallerLeaves(i)
        PROVE  PoolNext
    <2>1. CancelCallers({i}) /\ {i} \in SUBSET Item
      BY <1>3 DEF CallerLeaves
    <2> QED BY <2>1 DEF PoolNext
  <1>4. ASSUME NEW p \in Removable, RemoveProject(p)
        PROVE  UNCHANGED poolVars
    BY <1>4 DEF RemoveProject
  <1>5. CloseManager => UNCHANGED poolVars
    BY DEF CloseManager
  <1> QED BY <1>1, <1>2, <1>3, <1>4, <1>5 DEF Client

\* An actor's goroutine reserves, releases, starts and cancels for the command
\* in its hands.
LEMMA ActorUsesPool ==
  ASSUME Shape, NEW a \in Actor, ActorStep(a)
  PROVE  [PoolNext]_poolVars
  <1> DEFINE i == current[a]
  <1>1. at[a] \in Working => i \in Item
    BY DEF Shape, Handed
  <1> HIDE DEF i
  <1>2. CASE Sleep(a) \/ Leave(a) \/ Receive(a) \/ Admit(a) \/ Attach(a) \/ CallCancel(a) \/ CallComplete(a)
    BY <1>2 DEF Sleep, Leave, Receive, Admit, Attach, CallCancel, CallComplete
  <1>3. CASE ReserveSlot(a)
    <2>1. i \in Item /\ (Reserve(i) \/ UNCHANGED poolVars)
      BY <1>1, <1>3 DEF ReserveSlot, Working, i
    <2> QED BY <2>1 DEF PoolNext, ClientStep
  <1>4. CASE CallStart(a)
    <2>1. i \in Item /\ (Release(i) \/ UNCHANGED poolVars)
      BY <1>1, <1>4 DEF CallStart, Working, i
    <2> QED BY <2>1 DEF PoolNext, ClientStep
  <1>5. CASE Launch(a)
    <2>1. i \in Item /\ (StartReserved(i) \/ Release(i) \/ StartRefused(i))
      BY <1>1, <1>5 DEF Launch, Working, i
    <2> QED BY <2>1 DEF PoolNext, ClientStep
  <1>6. CASE CancelWork(a)
    <2>1. i \in Item /\ CancelHandle(i)
      BY <1>1, <1>6 DEF CancelWork, Working, i
    <2> QED BY <2>1, HandleUsesPool
  <1>7. CASE Deliver(a)
    <2>1. {i} \in SUBSET Item /\ CancelContexts({i})
      BY <1>1, <1>7 DEF Deliver, Working, i
    <2> QED BY <2>1, ContextsUsePool
  <1> QED BY <1>2, <1>3, <1>4, <1>5, <1>6, <1>7 DEF ActorStep

\* Close cancels the contexts and the handles of commands.
LEMMA CloserUsesPool ==
  ASSUME Shape, NEW a \in Actor, CloserStep(a)
  PROVE  [PoolNext]_poolVars
  <1>1. CASE CloseRemoved(a) \/ CloseLinked(a)
    <2>1. CancelContexts(owned[a]) /\ owned[a] \in SUBSET Item
      BY <1>1 DEF CloseRemoved, CloseLinked, CloseActor, Shape, Named
    <2> QED BY <2>1, ContextsUsePool
  <1>2. CASE DropPending(a)
    <2>1. PICK i \in dropped[a] : CancelContexts({i})
      BY <1>2 DEF DropPending
    <2>2. {i} \in SUBSET Item
      BY DEF Shape, Named
    <2> QED BY <2>1, <2>2, ContextsUsePool
  <1>3. CASE StopWork(a)
    <2>1. PICK i \in stopping[a] : CancelHandle(i) \/ UNCHANGED poolVars
      BY <1>3 DEF StopWork
    <2>2. i \in Item
      BY DEF Shape, Named
    <2> QED BY <2>1, <2>2, HandleUsesPool
  <1> QED BY <1>1, <1>2, <1>3 DEF CloserStep

\* Every step of the composed system, seen from the pool.
LEMMA NextUsesPool ==
  ASSUME Shape, [Next]_vars
  PROVE  [PoolNext]_poolVars
  <1>1. ASSUME NEW i \in Item, Forward(i)
        PROVE  UNCHANGED poolVars
    BY <1>1 DEF Forward
  <1>2. CloseScheduler => PoolNext
    BY DEF CloseScheduler, PoolNext
  <1>3. ASSUME NEW w \in Worker, PoolWorker(w)
        PROVE  PoolNext
    BY <1>3 DEF PoolWorker, PoolNext
  <1>4. UNCHANGED vars => UNCHANGED poolVars
    BY DEF vars
  <1> QED BY <1>1, <1>2, <1>3, <1>4, ClientUsesPool, ActorUsesPool, CloserUsesPool DEF Next

\* UsesPool: seen from the pool, the composed system is the pool with its
\* clients.
THEOREM ActorsUsePool == Safety => UsesPool
  <1>1. Init => PoolInit
    BY DEF Init
  <1> QED BY <1>1, NextUsesPool, ActorsHandCommands, PTL DEF Safety, UsesPool, PoolSafety

\* So the counters, the queue, ownership and the results of the pool are right
\* under any number of actors, whatever they cancel, remove and close.
THEOREM SchedulerBounded == Safety => []CountersRight
  BY ActorsUsePool, PoolBounded, PTL DEF UsesPool

\* An item has one owner, whoever cancels it.
THEOREM SchedulerOneOwner == Safety => []OneOwner
  BY ActorsUsePool, PoolOneOwner, PTL DEF UsesPool

\* And one result, which a command's completion then forwards.
THEOREM SchedulerOneResult == Safety => []OneResult
  BY ActorsUsePool, PoolOneResult, PTL DEF UsesPool

-----------------------------------------------------------------------------
(* Types.  The result of a command is put together from the result of its   *)
(* work, which is there when its completion is posted.                      *)

Managed ==
    /\ managerClosed \in BOOLEAN /\ unlinked \subseteq Actor
    /\ queuedCommands \in [Actor -> Nat] /\ shut \in [Actor -> BOOLEAN]
    /\ asked \in [Item -> 0 .. MaxAsks]

Told ==
    /\ verdict \in [Actor -> CommandResult]
    /\ handle \in [Item -> BOOLEAN] /\ forwarding \in [Item -> BOOLEAN]
    /\ calls \in [Item -> Seq({"start", "startFailed", "cancel", "complete"})]
    /\ result \in [Item -> Seq(CommandResult)]

\* A completion is posted for finished work only.
Posted ==
    \A a \in Actor :
        /\ \A k \in DOMAIN inbox[a] :
             inbox[a][k].kind = "complete" => done[inbox[a][k].request] # << >>
        /\ at[a] = "complete" => done[current[a]] # << >>

\* A result, once sent, stays.
LEMMA DoneStays ==
  ASSUME TypeOK, [PoolNext]_poolVars, NEW i \in Item, done[i] # << >>
  PROVE  done'[i] # << >>
  <1>1. ASSUME NEW items, NEW r, FinishLocked(items, r)
        PROVE  done'[i] # << >>
    <2>1. done[i] \in Seq(Result)
      BY DEF TypeOK
    <2>2. done'[i] = done[i] \/ done'[i] = Append(done[i], r)
      BY <1>1 DEF FinishLocked
    <2> QED BY <2>1, <2>2
  <1>2. ASSUME NEW j \in Item, ClientStep(j)
        PROVE  done' = done \/ \E items, r : FinishLocked(items, r)
    BY <1>2 DEF ClientStep, Reserve, Release, GiveBack, StartRefused, StartReserved, Cancel, CancelQueued, CancelRunning
  <1>3. ASSUME NEW items \in SUBSET Item, CancelCallers(items)
        PROVE  done' = done
    BY <1>3 DEF CancelCallers
  <1>4. ClosePool => \E items, r : FinishLocked(items, r)
    BY DEF ClosePool
  <1>5. ASSUME NEW w \in Worker, WorkerStep(w)
        PROVE  done' = done \/ \E items, r : FinishLocked(items, r)
    BY <1>5 DEF WorkerStep, Wait, Exit, Take, Execute, WorkReturns, Finish
  <1>6. UNCHANGED poolVars => done' = done
    BY DEF poolVars
  <1> QED BY <1>1, <1>2, <1>3, <1>4, <1>5, <1>6 DEF PoolNext

\* The initial values have their types.
LEMMA InitTyped ==
  ASSUME Init
  PROVE  Managed /\ Told /\ Posted
  <1>1. Managed
    <2>1. /\ managerClosed = FALSE /\ unlinked = {} /\ shut = [a \in Actor |-> FALSE]
          /\ queuedCommands = [a \in Actor |-> 0] /\ asked = [i \in Item |-> 0]
      BY DEF Init
    <2>2. 0 \in 0 .. MaxAsks
      BY ActorAssumption
    <2>3. asked \in [Item -> 0 .. MaxAsks] /\ queuedCommands \in [Actor -> Nat]
      BY <2>1, <2>2
    <2>4. managerClosed \in BOOLEAN /\ unlinked \subseteq Actor /\ shut \in [Actor -> BOOLEAN]
      BY <2>1, Zenon
    <2> QED BY <2>3, <2>4 DEF Managed
  <1>2. Told
    <2>1. Verdict(FALSE, "nil") \in CommandResult
      BY DEF Verdict, CommandResult, Errors
    <2>2. /\ verdict = [a \in Actor |-> Verdict(FALSE, "nil")]
          /\ handle = [i \in Item |-> FALSE] /\ forwarding = [i \in Item |-> FALSE]
          /\ calls = [i \in Item |-> << >>] /\ result = [i \in Item |-> << >>]
      BY DEF Init
    <2>3. verdict \in [Actor -> CommandResult]
      BY <2>1, <2>2
    <2>4. handle \in [Item -> BOOLEAN] /\ forwarding \in [Item -> BOOLEAN]
      BY <2>2, Zenon
    <2>5. << >> \in Seq({"start", "startFailed", "cancel", "complete"}) /\ << >> \in Seq(CommandResult)
      OBVIOUS
    <2> QED BY <2>2, <2>3, <2>4, <2>5 DEF Told
  <1>3. Posted
    <2>1. inbox = [a \in Actor |-> << >>] /\ at = [a \in Actor |-> "unborn"]
      BY DEF Init
    <2> QED BY <2>1 DEF Posted
  <1> QED BY <1>1, <1>2, <1>3

\* The bookkeeping of the manager and of the mailboxes.
LEMMA NextManaged ==
  ASSUME Shape, Managed, [Next]_vars
  PROVE  Managed'
  <1>1. ASSUME NEW i \in Item,
               Route(i) \/ Accept(i) \/ Refuse(i) \/ RequestCancel(i) \/ CallerLeaves(i) \/ Forward(i)
        PROVE  Managed'
    <2>1. CASE Accept(i)
      <3> DEFINE a == route[i]
      <3>1. /\ a \in Actor /\ queuedCommands' = [queuedCommands EXCEPT ![a] = @ + 1]
            /\ UNCHANGED << managerClosed, unlinked, shut, asked >>
        BY <2>1 DEF Accept, Shape, Routed
      <3> QED BY <3>1 DEF Managed
    <2>2. CASE RequestCancel(i)
      <3>1. asked' = [asked EXCEPT ![i] = @ + 1] /\ asked[i] < MaxAsks
        BY <2>2 DEF RequestCancel
      <3>2. asked' \in [Item -> 0 .. MaxAsks]
        BY <3>1, ActorAssumption DEF Managed
      <3> QED BY <2>2, <3>2 DEF RequestCancel, Managed
    <2> QED BY <1>1, <2>1, <2>2 DEF Route, Refuse, CallerLeaves, Forward, actorVars, Managed
  <1>2. ASSUME NEW p \in Removable, RemoveProject(p)
        PROVE  Managed'
    <2>1. actorOf[p] \in Actor
      BY <1>2, ActorAssumption DEF RemoveProject, Shape, Routed
    <2> QED BY <1>2, <2>1 DEF RemoveProject, Managed
  <1>3. CloseManager => Managed'
    BY DEF CloseManager, Managed
  <1>4. ASSUME NEW a \in Actor, ActorStep(a)
        PROVE  Managed'
    <2>1. CASE Receive(a)
      BY <2>1 DEF Receive, Counted, Managed
    <2>2. CASE ~Receive(a)
      <3>1. UNCHANGED << managerClosed, unlinked, queuedCommands, shut, asked >>
        BY <1>4, <2>2 DEF ActorStep, Sleep, Leave, Admit, ReserveSlot, CallStart, Launch, Attach,
                          CallCancel, CancelWork, CallComplete, Deliver
      <3> QED BY <3>1 DEF Managed
    <2> QED BY <2>1, <2>2
  <1>5. ASSUME NEW a \in Actor, CloserStep(a)
        PROVE  Managed'
    <2>1. CASE CloseRemoved(a) \/ CloseLinked(a)
      <3>1. /\ shut' = [shut EXCEPT ![a] = TRUE] /\ queuedCommands' = [queuedCommands EXCEPT ![a] = 0]
            /\ unlinked' \subseteq unlinked /\ UNCHANGED << managerClosed, asked >>
        BY <2>1 DEF CloseRemoved, CloseLinked, CloseActor
      <3> QED BY <3>1 DEF Managed
    <2>2. CASE DropPending(a) \/ StopWork(a)
      <3>1. UNCHANGED << managerClosed, unlinked, queuedCommands, shut, asked >>
        BY <2>2 DEF DropPending, StopWork
      <3> QED BY <3>1 DEF Managed
    <2> QED BY <1>5, <2>1, <2>2 DEF CloserStep
  <1>6. CloseScheduler \/ (\E w \in Worker : PoolWorker(w)) \/ UNCHANGED vars => Managed'
    BY DEF CloseScheduler, PoolWorker, actorVars, vars, Managed
  <1> QED BY <1>1, <1>2, <1>3, <1>4, <1>5, <1>6 DEF Next, Client

\* A result that is sent is a command's result.
LEMMA SentTyped ==
  ASSUME Told, NEW i \in Item, NEW r \in CommandResult, result' = Sent(i, r)
  PROVE  result' \in [Item -> Seq(CommandResult)]
  BY DEF Sent, Told

\* The steps of an actor's goroutine.
LEMMA ActorStepTold ==
  ASSUME Shape, TypeOK, Told, Posted, NEW a \in Actor, ActorStep(a)
  PROVE  Told'
  <1> DEFINE i == current[a]
  <1>1. at[a] \in Working => i \in Item
    BY DEF Shape, Handed
  <1>2. \A started \in BOOLEAN, err \in Errors \cup {"refused"} : Verdict(started, err) \in CommandResult
    BY DEF Verdict, CommandResult
  <1>3. {"nil", "failed", "canceled"} \subseteq Errors
    BY DEF Errors
  <1>4. ASSUME NEW c \in {"start", "startFailed", "cancel", "complete"}, i \in Item
        PROVE  Invoked(i, c) \in [Item -> Seq({"start", "startFailed", "cancel", "complete"})]
    BY <1>4 DEF Invoked, Told
  <1> HIDE DEF i
  <1>5. CASE Sleep(a) \/ Leave(a) \/ Receive(a) \/ CancelWork(a)
    <2>1. UNCHANGED << verdict, handle, forwarding, calls, result >>
      BY <1>5 DEF Sleep, Leave, Receive, CancelWork
    <2> QED BY <2>1 DEF Told
  <1>6. CASE Admit(a) \/ ReserveSlot(a) \/ Launch(a)
    <2>1. UNCHANGED << handle, forwarding, calls, result >>
      BY <1>6 DEF Admit, ReserveSlot, Launch
    <2>2. \/ verdict' = verdict
          \/ \E started \in BOOLEAN, err \in Errors \cup {"refused"} :
               verdict' = [verdict EXCEPT ![a] = Verdict(started, err)]
      BY <1>3, <1>6 DEF Admit, ReserveSlot, Launch, Resolves
    <2>3. verdict' \in [Actor -> CommandResult]
      BY <1>2, <2>2 DEF Told
    <2> QED BY <2>1, <2>3 DEF Told
  <1>7. CASE CallStart(a)
    <2>1. i \in Item
      BY <1>1, <1>7 DEF CallStart, Working
    <2>2. UNCHANGED << handle, forwarding, result >> /\ (calls' = Invoked(i, "start") \/ calls' = Invoked(i, "startFailed"))
      BY <1>7 DEF CallStart, i
    <2>3. \/ verdict' = verdict
          \/ \E started \in BOOLEAN, err \in Errors \cup {"refused"} :
               verdict' = [verdict EXCEPT ![a] = Verdict(started, err)]
      BY <1>3, <1>7 DEF CallStart, Resolves
    <2>4. verdict' \in [Actor -> CommandResult]
      BY <1>2, <2>3 DEF Told
    <2> QED BY <1>4, <2>1, <2>2, <2>4 DEF Told
  <1>8. CASE Attach(a)
    BY <1>8 DEF Attach, Told
  <1>9. CASE CallCancel(a)
    <2>1. i \in Item
      BY <1>1, <1>9 DEF CallCancel, Working
    <2>2. UNCHANGED << verdict, handle, forwarding, result >> /\ (calls' = calls \/ calls' = Invoked(i, "cancel"))
      BY <1>9 DEF CallCancel, CallsCancelOnce, i
    <2> QED BY <1>4, <2>1, <2>2 DEF Told
  <1>10. CASE CallComplete(a)
    <2>1. i \in Item /\ done[i] # << >>
      BY <1>1, <1>10 DEF CallComplete, Working, Posted, i
    <2>2. done[i][1] \in Result
      BY <2>1 DEF TypeOK
    <2>3. UNCHANGED << handle, forwarding, result >> /\ calls' = Invoked(i, "complete")
      BY <1>10 DEF CallComplete, i
    <2>4. PICK err \in {done[i][1].err, "failed"} :
            verdict' = [verdict EXCEPT ![a] =
              [started |-> TRUE, cancelled |-> done[i][1].cancelled \/ done[i][1].err = "canceled", err |-> err]]
      BY <1>10 DEF CallComplete, Resolves, i
    <2>5. err \in Errors /\ done[i][1].cancelled \in BOOLEAN
      BY <1>3, <2>2, <2>4 DEF Result
    <2>6. verdict' \in [Actor -> CommandResult]
      BY <2>4, <2>5 DEF Told, CommandResult
    <2> QED BY <1>4, <2>1, <2>3, <2>6 DEF Told
  <1>11. CASE Deliver(a)
    <2>1. i \in Item
      BY <1>1, <1>11 DEF Deliver, Working
    <2>2. verdict[a] \in CommandResult
      BY DEF Told
    <2>3. /\ UNCHANGED << handle, forwarding, calls >> /\ result' = Sent(i, verdict[a])
          /\ verdict' = [verdict EXCEPT ![a] = Verdict(FALSE, "nil")]
      BY <1>11 DEF Deliver, i
    <2>4. verdict' \in [Actor -> CommandResult]
      BY <1>2, <1>3, <2>3 DEF Told
    <2> QED BY <2>1, <2>2, <2>3, <2>4, SentTyped DEF Told
  <1> QED BY <1>5, <1>6, <1>7, <1>8, <1>9, <1>10, <1>11 DEF ActorStep

\* And those of everybody else.
LEMMA NextTold ==
  ASSUME Shape, TypeOK, Told, Posted, [Next]_vars
  PROVE  Told'
  <1>1. ASSUME NEW i \in Item, Forward(i)
        PROVE  Told'
    BY <1>1 DEF Forward, Told
  <1>2. ASSUME NEW a \in Actor, DropPending(a)
        PROVE  Told'
    <2>1. PICK i \in dropped[a] : result' = Sent(i, Verdict(FALSE, "canceled"))
      BY <1>2 DEF DropPending
    <2>2. i \in Item /\ Verdict(FALSE, "canceled") \in CommandResult
      BY DEF Shape, Named, Verdict, CommandResult, Errors
    <2>3. UNCHANGED << verdict, handle, forwarding, calls >>
      BY <1>2 DEF DropPending
    <2> QED BY <2>1, <2>2, <2>3, SentTyped DEF Told
  <1>3. ASSUME UNCHANGED << verdict, handle, forwarding, calls, result >>
        PROVE  Told'
    BY <1>3 DEF Told
  <1>4. Client \/ CloseScheduler \/ (\E w \in Worker : PoolWorker(w)) \/ UNCHANGED vars => Told'
    <2>1. Client => UNCHANGED << verdict, handle, forwarding, calls, result >>
      BY DEF Client, Route, Accept, Refuse, RequestCancel, CallerLeaves, RemoveProject, CloseManager, actorVars
    <2>2. CloseScheduler \/ (\E w \in Worker : PoolWorker(w)) \/ UNCHANGED vars
            => UNCHANGED << verdict, handle, forwarding, calls, result >>
      BY DEF CloseScheduler, PoolWorker, actorVars, vars
    <2> QED BY <1>3, <2>1, <2>2
  <1>5. ASSUME NEW a \in Actor, CloseRemoved(a) \/ CloseLinked(a) \/ StopWork(a)
        PROVE  Told'
    <2>1. UNCHANGED << verdict, handle, forwarding, calls, result >>
      BY <1>5 DEF CloseRemoved, CloseLinked, CloseActor, StopWork
    <2> QED BY <1>3, <2>1
  <1> QED BY <1>1, <1>2, <1>4, <1>5, ActorStepTold DEF Next, CloserStep

\* Entries are appended to an inbox; a completion only for finished work.
LEMMA AppendPosted ==
  ASSUME Shape, Posted, NEW a \in Actor, NEW e \in Entry,
         inbox' = [inbox EXCEPT ![a] = Append(@, e)], at' = Awake(a), current' = current,
         \A j \in Item : done[j] # << >> => done'[j] # << >>,
         e.kind = "complete" => done'[e.request] # << >>
  PROVE  Posted'
  <1>1. ASSUME NEW b \in Actor, NEW k \in DOMAIN inbox'[b], inbox'[b][k].kind = "complete"
        PROVE  done'[inbox'[b][k].request] # << >>
    <2>1. inbox[a] \in Seq(Entry) /\ inbox[b] \in Seq(Entry)
      BY DEF Shape, Named
    <2>2. CASE k \in DOMAIN inbox[b]
      <3>1. inbox'[b][k] = inbox[b][k] /\ inbox[b][k] \in Entry
        BY <2>1, <2>2 DEF Shape, Named
      <3>2. inbox[b][k].request \in Item
        BY <3>1 DEF Entry
      <3> QED BY <1>1, <2>2, <3>1, <3>2 DEF Posted
    <2>3. CASE k \notin DOMAIN inbox[b]
      <3>1. b = a /\ inbox'[a] = Append(inbox[a], e)
        BY <2>3 DEF Shape, Named
      <3>2. k = Len(inbox[a]) + 1
        BY <2>1, <2>3, <3>1
      <3>3. inbox'[b][k] = e
        BY <2>1, <3>1, <3>2
      <3> QED BY <1>1, <3>3
    <2> QED BY <2>2, <2>3
  <1>2. ASSUME NEW b \in Actor, at'[b] = "complete"
        PROVE  done'[current'[b]] # << >>
    <2>1. at[b] = "complete"
      BY <1>2 DEF Awake, Shape, Handed
    <2>2. current[b] \in Item
      BY <2>1 DEF Shape, Handed, Working
    <2> QED BY <2>1, <2>2 DEF Posted
  <1> QED BY <1>1, <1>2 DEF Posted

\* Nothing is added to an inbox, and no goroutine begins with a completion.
LEMMA StillPosted ==
  ASSUME Shape, Posted, inbox' = inbox,
         \A a \in Actor : at'[a] = "complete" => at[a] = "complete" /\ current'[a] = current[a],
         \A j \in Item : done[j] # << >> => done'[j] # << >>
  PROVE  Posted'
  <1>1. ASSUME NEW a \in Actor, NEW k \in DOMAIN inbox[a], inbox[a][k].kind = "complete"
        PROVE  done'[inbox[a][k].request] # << >>
    <2>1. inbox[a][k] \in Entry
      BY DEF Shape, Named
    <2>2. inbox[a][k].request \in Item
      BY <2>1 DEF Entry
    <2> QED BY <1>1, <2>2 DEF Posted
  <1>2. ASSUME NEW a \in Actor, at'[a] = "complete"
        PROVE  done'[current'[a]] # << >>
    <2>1. at[a] = "complete" /\ current'[a] = current[a] /\ current[a] \in Item
      BY <1>2 DEF Shape, Handed, Working
    <2> QED BY <2>1 DEF Posted
  <1> QED BY <1>1, <1>2 DEF Posted

\* The next entry: its request is in hand, as it was in the inbox.
LEMMA ReceivePosted ==
  ASSUME Shape, Posted, NEW a \in Actor, Receive(a)
  PROVE  Posted'
  <1> DEFINE entry == Head(inbox[a])
  <1>1. inbox[a] \in Seq(Entry) /\ inbox[a] # << >>
    BY DEF Shape, Named, Receive
  <1>2. entry = inbox[a][1] /\ 1 \in DOMAIN inbox[a]
    BY <1>1
  <1>3. /\ at' = [at EXCEPT ![a] = entry.kind]
        /\ current' = [current EXCEPT ![a] = entry.request]
        /\ inbox' = [inbox EXCEPT ![a] = Tail(@)]
        /\ done' = done
    BY DEF Receive, Goes, poolVars
  <1> HIDE DEF entry
  <1>4. ASSUME NEW b \in Actor, NEW k \in DOMAIN inbox'[b], inbox'[b][k].kind = "complete"
        PROVE  done'[inbox'[b][k].request] # << >>
    <2>1. CASE b = a
      <3>1. inbox'[b] = Tail(inbox[a])
        BY <1>3, <2>1 DEF Shape, Named
      <3>2. k + 1 \in DOMAIN inbox[a] /\ inbox'[b][k] = inbox[a][k + 1]
        BY <1>1, <1>4, <3>1
      <3> QED BY <1>3, <1>4, <3>2 DEF Posted
    <2>2. CASE b # a
      <3>1. inbox'[b] = inbox[b]
        BY <1>3, <2>2 DEF Shape, Named
      <3> QED BY <1>3, <1>4, <3>1 DEF Posted
    <2> QED BY <2>1, <2>2
  <1>5. ASSUME NEW b \in Actor, at'[b] = "complete"
        PROVE  done'[current'[b]] # << >>
    <2>1. CASE b = a
      <3>1. entry.kind = "complete" /\ current'[b] = entry.request
        BY <1>3, <1>5, <2>1 DEF Shape, Handed
      <3> QED BY <1>2, <1>3, <3>1 DEF Posted
    <2>2. CASE b # a
      <3>1. at[b] = "complete" /\ current'[b] = current[b]
        BY <1>3, <1>5, <2>2 DEF Shape, Handed
      <3> QED BY <1>3, <3>1 DEF Posted
    <2> QED BY <2>1, <2>2
  <1> QED BY <1>4, <1>5 DEF Posted

\* Close keeps some of the entries and adds cancellation requests.
LEMMA CloseActorPosted ==
  ASSUME Shape, Posted, NEW a \in Actor, CloseActor(a),
         \A j \in Item : done[j] # << >> => done'[j] # << >>
  PROVE  Posted'
  <1> DEFINE places == {k \in DOMAIN inbox[a] : inbox[a][k].kind # "command"}
  <1>1. PICK kept \in InOrder(places), order \in SetToSeqs(owned[a]) :
          inbox' = [inbox EXCEPT ![a] =
            [k \in DOMAIN kept |-> @[kept[k]]] \o [k \in DOMAIN order |-> CancelEntry(order[k])]]
    BY DEF CloseActor
  <1> DEFINE old == [k \in DOMAIN kept |-> inbox[a][kept[k]]]
             new == [k \in DOMAIN order |-> CancelEntry(order[k])]
  <1>2. \A b \in Actor : inbox'[b] = IF b = a THEN old \o new ELSE inbox[b]
    BY <1>1 DEF Shape, Named
  <1>3. at' = Awake(a) /\ current' = current
    BY DEF CloseActor
  <1>4. /\ kept \in [1 .. Cardinality(places) -> places] /\ Cardinality(places) \in Nat
        /\ order \in [1 .. Cardinality(owned[a]) -> owned[a]] /\ Cardinality(owned[a]) \in Nat
    <2>1. /\ kept \in [1 .. Cardinality(places) -> places]
          /\ order \in [1 .. Cardinality(owned[a]) -> owned[a]]
      BY DEF InOrder, SetToSeqs
    <2>2. inbox[a] \in Seq(Entry) /\ owned[a] \subseteq Item
      BY DEF Shape, Named
    <2>3. DOMAIN inbox[a] = 1 .. Len(inbox[a]) /\ Len(inbox[a]) \in Int /\ 1 \in Int
      BY <2>2
    <2>4. IsFiniteSet(1 .. Len(inbox[a])) /\ places \subseteq 1 .. Len(inbox[a])
      BY <2>3, FS_Interval
    <2>5. IsFiniteSet(places) /\ IsFiniteSet(owned[a])
      BY <2>2, <2>4, ItemAssumption, FS_Subset
    <2> QED BY <2>1, <2>5, FS_CardinalityType
  <1>5. \A k \in DOMAIN old : old[k].kind = "complete" => done[old[k].request] # << >> /\ old[k].request \in Item
    <2>1. ASSUME NEW k \in DOMAIN old, old[k].kind = "complete"
          PROVE  done[old[k].request] # << >> /\ old[k].request \in Item
      <3>1. kept[k] \in places /\ old[k] = inbox[a][kept[k]]
        BY <1>4, <2>1
      <3>2. kept[k] \in DOMAIN inbox[a]
        BY <3>1
      <3>3. inbox[a][kept[k]] \in Entry
        BY <3>2 DEF Shape, Named
      <3> QED BY <2>1, <3>1, <3>2, <3>3 DEF Posted, Entry
    <2> QED BY <2>1
  <1>6. \A k \in DOMAIN new : new[k].kind # "complete"
    BY DEF CancelEntry
  <1>7. Len(old) \in Nat /\ DOMAIN old = 1 .. Len(old) /\ Len(new) \in Nat /\ DOMAIN new = 1 .. Len(new)
    <2> HIDE DEF places
    <2> QED BY <1>4
  <1> HIDE DEF old, new, places
  <1>8. ASSUME NEW b \in Actor, NEW k \in DOMAIN inbox'[b], inbox'[b][k].kind = "complete"
        PROVE  done'[inbox'[b][k].request] # << >>
    <2>1. CASE b = a
      <3>1. inbox'[b] = old \o new
        BY <1>2, <2>1
      <3>2. k \in 1 .. (Len(old) + Len(new))
        BY <1>7, <1>8, <3>1
      <3>3. CASE k <= Len(old)
        <4>1. k \in DOMAIN old /\ inbox'[b][k] = old[k]
          BY <1>7, <3>1, <3>2, <3>3
        <4> QED BY <1>5, <1>8, <4>1
      <3>4. CASE k > Len(old)
        <4>1. (k - Len(old)) \in DOMAIN new /\ inbox'[b][k] = new[k - Len(old)]
          BY <1>7, <3>1, <3>2, <3>4
        <4> QED BY <1>6, <1>8, <4>1
      <3> QED BY <1>7, <3>2, <3>3, <3>4
    <2>2. CASE b # a
      <3>1. inbox'[b] = inbox[b]
        BY <1>2, <2>2
      <3>2. inbox[b][k] \in Entry
        BY <1>8, <3>1 DEF Shape, Named
      <3>3. inbox[b][k].request \in Item
        BY <3>2 DEF Entry
      <3> QED BY <1>8, <3>1, <3>3 DEF Posted
    <2> QED BY <2>1, <2>2
  <1>9. ASSUME NEW b \in Actor, at'[b] = "complete"
        PROVE  done'[current'[b]] # << >>
    <2>1. at[b] = "complete"
      BY <1>3, <1>9 DEF Awake, Shape, Handed
    <2>2. current[b] \in Item
      BY <2>1 DEF Shape, Handed, Working
    <2> QED BY <1>3, <2>1, <2>2 DEF Posted
  <1> QED BY <1>8, <1>9 DEF Posted

\* Every step posts completions for finished work only.
LEMMA NextPosted ==
  ASSUME Shape, TypeOK, Posted, [Next]_vars
  PROVE  Posted'
  <1>1. \A j \in Item : done[j] # << >> => done'[j] # << >>
    BY NextUsesPool, DoneStays
  <1>2. ASSUME NEW i \in Item, Accept(i) \/ RequestCancel(i)
        PROVE  Posted'
    <2>1. route[i] \in Actor
      BY <1>2 DEF Accept, RequestCancel, Shape, Routed
    <2>2. /\ \E e \in {Command(i), CancelEntry(i)} : inbox' = [inbox EXCEPT ![route[i]] = Append(@, e)]
          /\ at' = Awake(route[i]) /\ current' = current
      BY <1>2 DEF Accept, RequestCancel
    <2>3. \A e \in {Command(i), CancelEntry(i)} : e \in Entry /\ e.kind # "complete"
      BY DEF Command, CancelEntry, Entry
    <2> QED BY <1>1, <2>1, <2>2, <2>3, AppendPosted
  <1>3. ASSUME NEW i \in Item, Forward(i)
        PROVE  Posted'
    <2>1. /\ inbox' = [inbox EXCEPT ![route[i]] = Append(inbox[route[i]], Completion(i))]
          /\ at' = Awake(route[i]) /\ current' = current /\ done[i] # << >>
      BY <1>3 DEF Forward
    <2>2. CASE route[i] \in Actor
      <3>1. Completion(i) \in Entry /\ Completion(i).request = i
        BY DEF Completion, Entry
      <3> QED BY <1>1, <2>1, <2>2, <3>1, AppendPosted
    <2>3. CASE route[i] \notin Actor
      <3>1. inbox' = inbox
        BY <2>1, <2>3, NoUpdate DEF Shape, Named
      <3>2. \A a \in Actor : at'[a] = "complete" => at[a] = "complete" /\ current'[a] = current[a]
        BY <2>1 DEF Awake, Shape, Handed
      <3> QED BY <1>1, <3>1, <3>2, StillPosted
    <2> QED BY <2>2, <2>3
  <1>4. ASSUME NEW a \in Actor, CloseRemoved(a) \/ CloseLinked(a)
        PROVE  Posted'
    BY <1>1, <1>4, CloseActorPosted DEF CloseRemoved, CloseLinked
  <1>5. ASSUME NEW a \in Actor, ActorStep(a), ~Receive(a)
        PROVE  Posted'
    <2>1. inbox' = inbox
      BY <1>5 DEF ActorStep, Sleep, Leave, Admit, ReserveSlot, CallStart, Launch, Attach,
                  CallCancel, CancelWork, CallComplete, Deliver
    <2>2. \E label \in {"next", "waiting", "exited", "reserve", "start", "launch", "attach", "cancelWork", "finish"} :
            at' = [at EXCEPT ![a] = label]
      BY <1>5 DEF ActorStep, Sleep, Leave, Admit, ReserveSlot, CallStart, Launch, Attach,
                  CallCancel, CancelWork, CallComplete, Deliver, Loops, Goes, Resolves
    <2>3. current' = current \/ current' = [current EXCEPT ![a] = NoItem]
      BY <1>5 DEF ActorStep, Sleep, Leave, Admit, ReserveSlot, CallStart, Launch, Attach,
                  CallCancel, CancelWork, CallComplete, Deliver, Loops
    <2>4. \A b \in Actor : at'[b] = "complete" => at[b] = "complete" /\ current'[b] = current[b]
      BY <2>2, <2>3 DEF Shape, Handed
    <2> QED BY <1>1, <2>1, <2>4, StillPosted
  <1>6. ASSUME inbox' = inbox, current' = current, \E a : at' = at \/ at' = Awake(a) \/ at' = [at EXCEPT ![a] = "next"]
        PROVE  Posted'
    <2>1. \A b \in Actor : at'[b] = "complete" => at[b] = "complete" /\ current'[b] = current[b]
      BY <1>6 DEF Awake, Shape, Handed
    <2> QED BY <1>1, <1>6, <2>1, StillPosted
  <1>7. ASSUME NEW i \in Item, Route(i) \/ Refuse(i) \/ CallerLeaves(i)
        PROVE  Posted'
    <2>1. inbox' = inbox /\ current' = current /\ \E a : at' = at \/ at' = [at EXCEPT ![a] = "next"]
      BY <1>7 DEF Route, Refuse, CallerLeaves, actorVars
    <2> QED BY <1>6, <2>1
  <1>8. ASSUME NEW p \in Removable, RemoveProject(p)
        PROVE  Posted'
    BY <1>6, <1>8 DEF RemoveProject
  <1>9. CloseManager \/ CloseScheduler \/ (\E w \in Worker : PoolWorker(w)) \/ UNCHANGED vars => Posted'
    <2>1. CloseManager \/ CloseScheduler \/ (\E w \in Worker : PoolWorker(w)) \/ UNCHANGED vars
            => UNCHANGED << inbox, current, at >>
      BY DEF CloseManager, CloseScheduler, PoolWorker, actorVars, vars
    <2> QED BY <1>6, <2>1
  <1>10. ASSUME NEW a \in Actor, DropPending(a) \/ StopWork(a)
         PROVE  Posted'
    BY <1>6, <1>10 DEF DropPending, StopWork
  <1> QED BY <1>2, <1>3, <1>4, <1>5, <1>7, <1>8, <1>9, <1>10, ReceivePosted DEF Next, Client, CloserStep

\* The actors' variables keep their types; in particular a goroutine has a
\* request in its hands exactly while it works on an entry, and what it delivers
\* is a result, however the work ended.
THEOREM ActorsTyped == Safety => []ActorTypeOK
  <1>1. Init => Managed /\ Told /\ Posted
    BY InitTyped
  <1>2. Shape /\ TypeOK /\ Managed /\ Told /\ Posted /\ [Next]_vars => (Managed /\ Told /\ Posted)'
    BY NextManaged, NextTold, NextPosted
  <1>3. Shape /\ Managed /\ Told => ActorTypeOK
    BY DEF Shape, Routed, Named, Handed, Managed, Told, ActorTypeOK
  <1>4. Safety => []TypeOK
    BY ActorsUsePool, PoolTyped, PTL DEF UsesPool
  <1> QED BY <1>1, <1>2, <1>3, <1>4, ActorsHandCommands, PTL DEF Safety


=============================================================================
