-------------------------- MODULE FairTurnsProofs --------------------------
(***************************************************************************)
(* The turns are fair for any items, projects, workers and capacity.       *)
(*                                                                         *)
(* The bound alone is not inductive: it says nothing of what comes next.   *)
(* What a step needs is that a project that had its turn while another     *)
(* waits stands behind it in the rotation, however often it left the queue *)
(* and came back.                                                          *)
(***************************************************************************)
EXTENDS FairTurns, WorkerPoolProofs

\* a stands before b.
Before(s, a, b) == \E j, k \in DOMAIN s : j < k /\ s[j] = a /\ s[k] = b

\* A project that had a turn while another waits, and waits again, is behind it.
Turned ==
    /\ passed \in [Project -> [Project -> {0, 1}]]
    /\ \A p, q \in Project :
         passed[p][q] = 1 => WaitsNow(p) /\ (WaitsNow(q) => Before(queue.order, p, q))

-----------------------------------------------------------------------------
(* The order of a sequence *)

\* A new element stands behind all others.
LEMMA AppendBefore ==
    ASSUME NEW S, NEW s \in Seq(S), NEW x \in S
    PROVE  /\ \A a, b : Before(s, a, b) => Before(Append(s, x), a, b)
           /\ \A a \in ToSet(s) : Before(Append(s, x), a, x)
  <1>1. PICK n \in Nat : n = Len(s) /\ DOMAIN s = 1 .. n
    BY LenProperties
  <1>2. /\ DOMAIN Append(s, x) = 1 .. n + 1 /\ Append(s, x)[n + 1] = x
        /\ \A k \in 1 .. n : Append(s, x)[k] = s[k] /\ k \in 1 .. n + 1 /\ k < n + 1
    BY <1>1
  <1>3. n + 1 \in 1 .. n + 1
    BY <1>1
  <1>4. ASSUME NEW a, NEW b, Before(s, a, b) PROVE Before(Append(s, x), a, b)
    BY <1>1, <1>2, <1>4 DEF Before
  <1>5. ASSUME NEW a \in ToSet(s) PROVE Before(Append(s, x), a, x)
    BY <1>1, <1>2, <1>3 DEF Before, ToSet
  <1> QED BY <1>4, <1>5

\* Nothing stands before the first element, and without it the others keep their order.
LEMMA TailBefore ==
    ASSUME NEW S, NEW s \in Seq(S), s # << >>, IsInjective(s)
    PROVE  /\ \A a : ~Before(s, a, Head(s))
           /\ \A a, b : a # Head(s) /\ Before(s, a, b) => Before(Tail(s), a, b)
  <1>1. PICK n \in Nat : n = Len(s) /\ DOMAIN s = 1 .. n
    BY LenProperties
  <1>2. n # 0 /\ Head(s) = s[1] /\ 1 \in 1 .. n
    BY <1>1, EmptySeq
  <1>3. DOMAIN Tail(s) = 1 .. n - 1 /\ \A k \in 1 .. n - 1 : Tail(s)[k] = s[k + 1]
    BY <1>1, <1>2, HeadTailProperties, LenProperties
  <1>4. ASSUME NEW a, Before(s, a, Head(s)) PROVE FALSE
    <2>1. PICK j \in 1 .. n, k \in 1 .. n : j < k /\ s[k] = s[1]
      BY <1>1, <1>2, <1>4 DEF Before
    <2>2. k = 1
      BY <1>1, <1>2, <2>1 DEF IsInjective
    <2> QED BY <2>1, <2>2
  <1>5. ASSUME NEW a, NEW b, a # Head(s), Before(s, a, b) PROVE Before(Tail(s), a, b)
    <2>1. PICK j \in 1 .. n, k \in 1 .. n : j < k /\ s[j] = a /\ s[k] = b
      BY <1>1, <1>5 DEF Before
    <2>2. j # 1
      BY <1>2, <1>5, <2>1
    <2>3. PICK i \in 1 .. n - 1, l \in 1 .. n - 1 : i + 1 = j /\ l + 1 = k
      <3>1. j - 1 \in 1 .. n - 1 /\ k - 1 \in 1 .. n - 1 /\ (j - 1) + 1 = j /\ (k - 1) + 1 = k
        BY <1>1, <2>1, <2>2
      <3> QED BY <3>1
    <2>4. i < l /\ Tail(s)[i] = a /\ Tail(s)[l] = b
      BY <1>3, <2>1, <2>3
    <2> QED BY <1>3, <2>4 DEF Before
  <1> QED BY <1>4, <1>5

\* Wherever an element is removed, the others keep their order.
LEMMA RemoveFirstBefore ==
    ASSUME NEW S, NEW s \in Seq(S), NEW x, IsInjective(s), x \in ToSet(s),
           NEW a, NEW b, a # x, b # x, Before(s, a, b)
    PROVE  Before(RemoveFirst(s, x), a, b)
  <1>1. PICK n \in Nat : n = Len(s) /\ DOMAIN s = 1 .. n
    BY LenProperties
  <1>2. PICK t : t = RemoveFirst(s, x)
    OBVIOUS
  <1>3. PICK k \in 1 .. n :
          /\ s[k] = x
          /\ t \in Seq(S) /\ Len(t) = n - 1
          /\ \A j \in 1 .. k - 1 : t[j] = s[j]
          /\ \A j \in k .. n - 1 : t[j] = s[j + 1]
    BY <1>1, <1>2, RemoveFirstParts
  <1>4. DOMAIN t = 1 .. n - 1
    BY <1>3, LenProperties
  <1>5. ASSUME NEW j \in 1 .. n, s[j] # x
        PROVE  \E i \in DOMAIN t : t[i] = s[j] /\ i = IF j < k THEN j ELSE j - 1
    <2>1. j # k
      BY <1>3, <1>5
    <2>2. CASE j < k
      <3>1. j \in 1 .. n - 1 /\ j \in 1 .. k - 1
        BY <1>1, <2>2
      <3> QED BY <1>3, <1>4, <2>2, <3>1
    <2>3. CASE ~(j < k)
      <3>1. j - 1 \in 1 .. n - 1 /\ j - 1 \in k .. n - 1 /\ (j - 1) + 1 = j
        BY <1>1, <2>1, <2>3
      <3> QED BY <1>3, <1>4, <2>3, <3>1
    <2> QED BY <2>2, <2>3
  <1>6. PICK j \in 1 .. n, l \in 1 .. n : j < l /\ s[j] = a /\ s[l] = b
    BY <1>1 DEF Before
  <1>7. PICK i \in DOMAIN t : t[i] = a /\ i = IF j < k THEN j ELSE j - 1
    BY <1>5, <1>6
  <1>8. PICK m \in DOMAIN t : t[m] = b /\ m = IF l < k THEN l ELSE l - 1
    BY <1>5, <1>6
  <1>9. j # k /\ l # k /\ j < l /\ j \in Int /\ k \in Int /\ l \in Int
    BY <1>3, <1>6
  <1>10. i < m
    BY <1>7, <1>8, <1>9
  <1> QED BY <1>2, <1>7, <1>8, <1>10 DEF Before

-----------------------------------------------------------------------------
(* The order of the rotation *)

InQueue(q, p) == q.byProject[p] # << >>

\* Projects that go on waiting keep their order, and one that comes stands behind them.
KeepsOrder(q, r) ==
    \A a, b \in Project :
        /\ InQueue(q, a) /\ InQueue(r, a) /\ InQueue(r, b)
        /\ InQueue(q, b) => Before(q.order, a, b)
        => Before(r.order, a, b)

LEMMA PushKeeps ==
    ASSUME NEW q \in Queues, NEW waiting \in SUBSET Item, Represents(q, waiting), NEW i \in Item
    PROVE  KeepsOrder(q, Push(q, i))
  <1> DEFINE p == ProjectOf[i]
             r == Push(q, i)
  <1>1. p \in Project /\ q.byProject \in [Project -> Seq(Item)] /\ q.order \in Seq(Project)
    BY ItemAssumption DEF Queues
  <1>2. /\ r.byProject = [q.byProject EXCEPT ![p] = Append(q.byProject[p], i)]
        /\ r.order = IF q.byProject[p] = << >> THEN Append(q.order, p) ELSE q.order
    BY DEF Push
  <1> HIDE DEF r
  <1> SUFFICES ASSUME NEW a \in Project, NEW b \in Project, InQueue(q, a), InQueue(r, b),
                      InQueue(q, b) => Before(q.order, a, b)
               PROVE  Before(r.order, a, b)
    BY DEF KeepsOrder, r
  <1>3. a \in ToSet(q.order)
    BY DEF InQueue, Represents
  <1>4. CASE InQueue(q, b)
    BY <1>1, <1>2, <1>4, AppendBefore
  <1>5. CASE ~InQueue(q, b)
    <2>1. b = p
      BY <1>1, <1>2, <1>5 DEF InQueue
    <2>2. r.order = Append(q.order, p)
      BY <1>2, <1>5, <2>1 DEF InQueue
    <2> QED BY <1>1, <1>3, <2>1, <2>2, AppendBefore
  <1> QED BY <1>4, <1>5

LEMMA RemoveKeeps ==
    ASSUME NEW q \in Queues, NEW waiting \in SUBSET Item, Represents(q, waiting), NEW i \in waiting
    PROVE  KeepsOrder(q, RemoveItem(q, i))
  <1> DEFINE p    == ProjectOf[i]
             left == RemoveFirst(q.byProject[p], i)
             r    == RemoveItem(q, i)
  <1>1. p \in Project /\ q.byProject \in [Project -> Seq(Item)] /\ q.order \in Seq(Project)
    BY ItemAssumption DEF Queues
  <1>2. Holds(q, i)
    BY HoldsWaiting
  <1>3. /\ r.byProject = [q.byProject EXCEPT ![p] = left]
        /\ r.order = IF left = << >> THEN RemoveFirst(q.order, p) ELSE q.order
    BY <1>2 DEF RemoveItem
  <1>4. InQueue(q, p)
    BY <1>2 DEF Holds, InQueue
  <1> HIDE DEF r, left
  <1> SUFFICES ASSUME NEW a \in Project, NEW b \in Project, InQueue(r, a), InQueue(r, b),
                      InQueue(q, b) => Before(q.order, a, b)
               PROVE  Before(r.order, a, b)
    BY DEF KeepsOrder, r
  <1>5. Before(q.order, a, b)
    BY <1>1, <1>3, <1>4 DEF InQueue
  <1>6. CASE left # << >>
    BY <1>3, <1>5, <1>6
  <1>7. CASE left = << >>
    <2>1. a # p /\ b # p
      BY <1>1, <1>3, <1>7 DEF InQueue
    <2>2. p \in ToSet(q.order) /\ IsInjective(q.order)
      BY <1>1, <1>4 DEF InQueue, Represents
    <2>3. Before(RemoveFirst(q.order, p), a, b)
      BY <1>1, <1>5, <2>1, <2>2, RemoveFirstBefore
    <2> QED BY <1>3, <1>7, <2>3
  <1> QED BY <1>6, <1>7

\* The project served was the first of the rotation; the others keep their order, and
\* if it goes on waiting it stands behind them.
LEMMA PopKeeps ==
    ASSUME NEW q \in Queues, NEW waiting \in SUBSET Item, Represents(q, waiting), q.length # 0
    PROVE  LET h == ProjectOf[Popped(q)]
               r == Pop(q)
           IN  /\ h \in Project /\ InQueue(q, h)
               /\ \A a \in Project : ~Before(q.order, a, h)
               /\ \A a \in Project \ {h} : InQueue(r, a) <=> InQueue(q, a)
               /\ \A a, b \in Project \ {h} : Before(q.order, a, b) => Before(r.order, a, b)
               /\ InQueue(r, h) => \A a \in Project \ {h} : InQueue(q, a) => Before(r.order, a, h)
  <1> DEFINE p    == q.order[1]
             rest == Tail(q.order)
             left == Tail(q.byProject[p])
             r    == Pop(q)
  <1>1. /\ Turns(q) # {} /\ Min(Turns(q)) = 1
        /\ q.order # << >> /\ p \in Project /\ q.byProject[p] # << >>
    BY TurnsOfNonEmpty
  <1>2. /\ q.byProject \in [Project -> Seq(Item)] /\ q.order \in Seq(Project)
        /\ q.byProject[p] \in Seq(Item) /\ q.length \in Int
    BY <1>1 DEF Queues
  <1>3. IsInjective(q.byProject[p]) /\ IsInjective(q.order)
    BY <1>1 DEF Represents
  <1>4. ProjectOf[Popped(q)] = p
    <2>1. Popped(q) = Head(q.byProject[p])
      BY <1>1 DEF Popped
    <2>2. Popped(q) \in ToSet(q.byProject[p])
      BY <1>1, <1>2, <1>3, <2>1, TailDistinct
    <2> QED BY <1>1, <2>2 DEF Represents
  <1>5. SubSeq(q.order, 1 + 1, Len(q.order)) = rest
    BY <1>1, <1>2, TailIsSubSeq
  <1>6. Head(q.order) = p
    BY <1>1, <1>2
  <1>7. /\ r.byProject = [q.byProject EXCEPT ![p] = left]
        /\ r.order = IF left = << >> THEN rest ELSE Append(rest, p)
    BY <1>1, <1>5 DEF Pop
  <1>8. /\ \A a : ~Before(q.order, a, p)
        /\ \A a, b : a # p /\ Before(q.order, a, b) => Before(rest, a, b)
    <2>1. /\ \A a : ~Before(q.order, a, Head(q.order))
          /\ \A a, b : a # Head(q.order) /\ Before(q.order, a, b) => Before(Tail(q.order), a, b)
      BY <1>1, <1>2, <1>3, TailBefore
    <2> QED BY <1>6, <2>1
  <1>9. rest \in Seq(Project) /\ ToSet(rest) = ToSet(q.order) \ {p}
    BY <1>1, <1>2, <1>3, <1>6, TailDistinct
  <1>10. /\ \A a, b : Before(rest, a, b) => Before(Append(rest, p), a, b)
         /\ \A a \in ToSet(rest) : Before(Append(rest, p), a, p)
    BY <1>1, <1>9, AppendBefore
  <1> HIDE DEF r, rest, left
  <1>11. \A a \in Project \ {p} : InQueue(r, a) <=> InQueue(q, a)
    BY <1>2, <1>7 DEF InQueue
  <1>12. \A a, b \in Project \ {p} : Before(q.order, a, b) => Before(r.order, a, b)
    BY <1>7, <1>8, <1>10
  <1>13. ASSUME InQueue(r, p), NEW a \in Project \ {p}, InQueue(q, a) PROVE Before(r.order, a, p)
    <2>1. left # << >>
      BY <1>1, <1>2, <1>7, <1>13 DEF InQueue
    <2>2. a \in ToSet(rest)
      BY <1>9, <1>13 DEF InQueue, Represents
    <2> QED BY <1>7, <1>10, <2>1, <2>2
  <1>14. InQueue(q, p)
    BY <1>1 DEF InQueue
  <1> QED
    BY <1>1, <1>4, <1>8, <1>11, <1>12, <1>13, <1>14 DEF r

-----------------------------------------------------------------------------
(* The steps *)

\* What is queued, as the lemmas about the queue need it.
LEMMA QueueIsRight ==
    PoolInv => /\ queue \in Queues /\ InState({"queued"}) \in SUBSET Item
               /\ Represents(queue, InState({"queued"}))
  BY DEF PoolInv, TypeOK, Queues, InState, QueueRight

\* A worker that takes an item serves one project, the first of the rotation.
LEMMA TakeServes ==
    ASSUME PoolInv, NEW w \in Worker, Take(w)
    PROVE  /\ queue' = Pop(queue) /\ queue.length # 0
           /\ \A p : Served(p) <=> p = ProjectOf[Popped(queue)]
  <1>1. /\ pc[w] = "next" /\ queue.length # 0 /\ queue' = Pop(queue)
        /\ holds' = [holds EXCEPT ![w] = Popped(queue)]
        /\ pc' = [pc EXCEPT ![w] = "execute"]
    BY DEF Take, Goto
  <1>2. pc \in [Worker -> {"next", "waiting", "execute", "work", "finish", "exited"}]
        /\ holds \in [Worker -> Item \cup {NoItem}]
    BY DEF PoolInv, TypeOK
  <1>3. holds'[w] = Popped(queue) /\ pc'[w] = "execute"
        /\ \A v \in Worker : v # w => pc'[v] = pc[v]
    BY <1>1, <1>2
  <1>4. \A p : Served(p) <=> p = ProjectOf[Popped(queue)]
    BY <1>1, <1>3 DEF Served
  <1> QED BY <1>1, <1>4

\* Every other step serves none, and leaves the waiting projects in their order.
LEMMA OthersKeep ==
    ASSUME PoolInv, [PoolNext]_poolVars, \A w \in Worker : ~Take(w)
    PROVE  /\ \A p : ~Served(p)
           /\ KeepsOrder(queue, queue') \/ \A p \in Project : ~InQueue(queue', p)
  <1>0. pc \in [Worker -> {"next", "waiting", "execute", "work", "finish", "exited"}]
    BY DEF PoolInv, TypeOK
  <1>1. /\ queue \in Queues /\ InState({"queued"}) \in SUBSET Item
        /\ Represents(queue, InState({"queued"}))
    BY QueueIsRight
  <1>2. KeepsOrder(queue, queue)
    BY DEF KeepsOrder
  <1>3. ASSUME NEW i \in Item, ClientStep(i)
        PROVE  KeepsOrder(queue, queue') /\ \A w \in Worker : pc'[w] # "execute" \/ pc'[w] = pc[w]
    <2>1. CASE StartReserved(i)
      <3>1. queue' = Push(queue, i) /\ Signal
        BY <2>1 DEF StartReserved
      <3>2. \A w \in Worker : pc'[w] # "execute" \/ pc'[w] = pc[w]
        BY <1>0, <3>1 DEF Signal, Waiting
      <3> QED BY <1>1, <3>1, <3>2, PushKeeps
    <2>2. CASE CancelQueued(i)
      <3>1. queue' = RemoveItem(queue, i) /\ i \in InState({"queued"}) /\ pc' = pc
        BY <2>2 DEF CancelQueued, InState
      <3> QED BY <1>1, <3>1, RemoveKeeps
    <2>3. CASE Reserve(i) \/ GiveBack(i) \/ CancelRunning(i)
      BY <1>2, <2>3 DEF Reserve, GiveBack, CancelRunning
    <2> QED BY <1>3, <2>1, <2>2, <2>3 DEF ClientStep, Release, StartRefused, Cancel
  <1>4. CASE ClosePool
    <2>1. queue' = [EmptyQueue EXCEPT !.length = queue'.length] /\ Broadcast
      BY <1>4 DEF ClosePool
    <2>2. \A p \in Project : ~InQueue(queue', p)
      BY <2>1 DEF EmptyQueue, InQueue
    <2>3. \A w \in Worker : pc'[w] # "execute" \/ pc'[w] = pc[w]
      BY <1>0, <2>1 DEF Broadcast
    <2> QED BY <2>2, <2>3 DEF Served
  <1>5. ASSUME NEW w \in Worker, WorkerStep(w)
        PROVE  queue' = queue /\ \A v \in Worker : pc'[v] # "execute" \/ pc'[v] = pc[v]
    <2>1. CASE Exit(w)
      <3>1. queue.length = 0 \/ Turns(queue) = {}
        BY <2>1 DEF Exit
      <3>2. queue.length = 0
        BY <1>1, <3>1, TurnsOfNonEmpty
      <3> QED BY <1>0, <2>1, <3>2 DEF Exit, Goto
    <2>2. CASE Wait(w) \/ Execute(w) \/ Finish(w)
      BY <1>0, <2>2 DEF Wait, Execute, Finish, Goto
    <2>3. ASSUME NEW err \in Returned, WorkReturns(w, err)
          PROVE  queue' = queue /\ \A v \in Worker : pc'[v] # "execute" \/ pc'[v] = pc[v]
      BY <1>0, <2>3 DEF WorkReturns, Goto
    <2> QED BY <1>5, <2>1, <2>2, <2>3 DEF WorkerStep
  <1>6. ASSUME NEW items \in SUBSET Item, CancelCallers(items) PROVE queue' = queue /\ pc' = pc
    BY <1>6 DEF CancelCallers
  <1>7. CASE UNCHANGED poolVars
    BY <1>2, <1>7 DEF poolVars, Served
  <1> QED BY <1>2, <1>3, <1>4, <1>5, <1>6, <1>7 DEF PoolNext, Served

LEMMA TurnedStart == Init => Turned
  BY DEF Init, Turned

LEMMA TurnedStep ==
    ASSUME PoolInv, Turned, PoolNext, Count
    PROVE  Turned'
  <1> DEFINE reset(p) == ~WaitsNow(p) \/ ~WaitsNow(p)' \/ Served(p)
  <1>1. \A p, q \in Project :
          passed'[p][q] = IF reset(p) THEN 0 ELSE IF Served(q) THEN passed[p][q] + 1 ELSE passed[p][q]
    BY DEF Count
  <1>2. /\ queue \in Queues /\ InState({"queued"}) \in SUBSET Item
        /\ Represents(queue, InState({"queued"}))
    BY QueueIsRight
  <1>3. \A p : WaitsNow(p) <=> InQueue(queue, p)
    BY DEF WaitsNow, InQueue
  <1>4. \A p : WaitsNow(p)' <=> InQueue(queue', p)
    BY DEF WaitsNow, InQueue
  <1>5. \A p, q \in Project : passed[p][q] \in {0, 1}
    BY DEF Turned
  <1>6. CASE \E w \in Worker : Take(w)
    <2>1. PICK h : h = ProjectOf[Popped(queue)] /\ queue' = Pop(queue) /\ queue.length # 0 /\ \A p : Served(p) <=> p = h
      BY <1>6, TakeServes
    <2>2. /\ h \in Project /\ InQueue(queue, h)
          /\ \A a \in Project : ~Before(queue.order, a, h)
          /\ \A a \in Project \ {h} : InQueue(queue', a) <=> InQueue(queue, a)
          /\ \A a, b \in Project \ {h} : Before(queue.order, a, b) => Before(queue'.order, a, b)
          /\ InQueue(queue', h) => \A a \in Project \ {h} : InQueue(queue, a) => Before(queue'.order, a, h)
      BY <1>2, <2>1, PopKeeps
    <2>3. ASSUME NEW p \in Project, NEW q \in Project
          PROVE  passed'[p][q] \in {0, 1}
                 /\ (passed'[p][q] = 1 => WaitsNow(p)' /\ (WaitsNow(q)' => Before(queue'.order, p, q)))
      <3>1. CASE reset(p)
        BY <1>1, <3>1
      <3>2. CASE ~reset(p) /\ q = h
        <4>1. p # h /\ InQueue(queue, p) /\ InQueue(queue', p)
          BY <1>3, <1>4, <2>1, <3>2
        <4>2. passed[p][q] # 1
          BY <1>3, <2>2, <3>2 DEF Turned
        <4>3. passed'[p][q] = 1
          BY <1>1, <1>5, <2>1, <3>2, <4>2
        <4> QED BY <1>3, <1>4, <2>2, <3>2, <4>1, <4>3
      <3>3. CASE ~reset(p) /\ q # h
        <4>1. p # h /\ InQueue(queue, p) /\ InQueue(queue', p)
          BY <1>3, <1>4, <2>1, <3>3
        <4>2. passed'[p][q] = passed[p][q]
          BY <1>1, <2>1, <3>3
        <4>3. ASSUME passed[p][q] = 1, InQueue(queue', q) PROVE Before(queue'.order, p, q)
          BY <1>3, <2>2, <3>3, <4>1, <4>3 DEF Turned
        <4> QED BY <1>4, <1>5, <4>1, <4>2, <4>3
      <3> QED BY <3>1, <3>2, <3>3
    <2> QED BY <2>3 DEF Turned, Count
  <1>7. CASE \A w \in Worker : ~Take(w)
    <2>1. /\ \A p : ~Served(p)
          /\ KeepsOrder(queue, queue') \/ \A p \in Project : ~InQueue(queue', p)
      BY <1>7, OthersKeep
    <2>2. ASSUME NEW p \in Project, NEW q \in Project
          PROVE  passed'[p][q] \in {0, 1}
                 /\ (passed'[p][q] = 1 => WaitsNow(p)' /\ (WaitsNow(q)' => Before(queue'.order, p, q)))
      <3>1. CASE reset(p)
        BY <1>1, <3>1
      <3>2. CASE ~reset(p)
        <4>1. InQueue(queue, p) /\ InQueue(queue', p)
          BY <1>3, <1>4, <3>2
        <4>2. passed'[p][q] = passed[p][q]
          BY <1>1, <2>1, <3>2
        <4>3. ASSUME passed[p][q] = 1, InQueue(queue', q) PROVE Before(queue'.order, p, q)
          <5>1. KeepsOrder(queue, queue')
            BY <2>1, <4>1
          <5>2. InQueue(queue, q) => Before(queue.order, p, q)
            BY <1>3, <4>3 DEF Turned
          <5> QED BY <4>1, <4>3, <5>1, <5>2 DEF KeepsOrder
        <4> QED BY <1>4, <1>5, <4>1, <4>2, <4>3
      <3> QED BY <3>1, <3>2
    <2> QED BY <2>2 DEF Turned, Count
  <1> QED BY <1>6, <1>7

-----------------------------------------------------------------------------
(* The theorem *)

\* Counting the turns does not disturb the pool.
LEMMA TurnsUsePool == Spec => PoolSafety
  <1>1. Init => PoolInit
    BY DEF Init
  <1>2. [Next]_vars => [PoolNext]_poolVars
    BY DEF Next, vars
  <1> QED BY <1>1, <1>2, PTL DEF Spec, PoolSafety

\* However many items a project queues, starts or cancels, between two turns of a
\* project that waits it gets at most one (fairQueue.Pop).
THEOREM TurnsAreFair == Spec => []NobodyOvertakesTwice
  <1>1. PoolInv /\ Turned /\ [Next]_vars => Turned'
    <2>1. CASE Next
      BY <2>1, TurnedStep DEF Next
    <2>2. CASE UNCHANGED vars
      BY <2>2 DEF vars, poolVars, Turned, WaitsNow
    <2> QED BY <2>1, <2>2
  <1>2. Turned => NobodyOvertakesTwice
    <2> SUFFICES ASSUME Turned, NEW p \in Project, NEW q \in Project PROVE passed[p][q] <= 1
      BY DEF NobodyOvertakesTwice
    <2>1. passed[p][q] \in {0, 1}
      BY DEF Turned
    <2> QED BY <2>1
  <1> QED BY TurnedStart, TurnsUsePool, PoolInvariant, <1>1, <1>2, PTL DEF Spec

=============================================================================
