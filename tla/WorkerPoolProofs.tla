-------------------------- MODULE WorkerPoolProofs --------------------------
(***************************************************************************)
(* What the operations of the fair queue do to the set it represents, and  *)
(* the safety of the worker pool over it, for any items, projects, workers *)
(* and queue capacity.                                                     *)
(*                                                                         *)
(* The invariant is the conjunction of the invariants the runs check; none *)
(* is inductive alone.  That a worker pops only what is in state "queued"  *)
(* (QueueRight) is why an item has one owner, one owner is why running     *)
(* never exceeds the number of workers, and why finish() delivers an item  *)
(* that is still active, without which the counters would drift.           *)
(***************************************************************************)
EXTENDS WorkerPool, SequenceTheorems, FiniteSetTheorems, TLAPS

Queues == [byProject : [Project -> Seq(Item)], order : Seq(Project), length : Int]

-----------------------------------------------------------------------------
(* Sequences without duplicates *)

\* A new element at the end: still no duplicate, one element more.
LEMMA AppendDistinct ==
    ASSUME NEW S, NEW s \in Seq(S), NEW x \in S, IsInjective(s), x \notin ToSet(s)
    PROVE  /\ Append(s, x) \in Seq(S)
           /\ IsInjective(Append(s, x))
           /\ ToSet(Append(s, x)) = ToSet(s) \cup {x}
           /\ Append(s, x) # << >>
  <1> DEFINE t == Append(s, x)
  <1>1. /\ t \in Seq(S) /\ t # << >> /\ Len(t) = Len(s) + 1
        /\ \A k \in 1 .. Len(s) : t[k] = s[k]
        /\ t[Len(s) + 1] = x
    BY AppendProperties
  <1>2. /\ Len(s) \in Nat /\ DOMAIN s = 1 .. Len(s)
        /\ DOMAIN t = 1 .. (Len(s) + 1)
    BY <1>1, LenProperties
  <1> HIDE DEF t
  <1>3. IsInjective(t)
    BY <1>1, <1>2 DEF IsInjective, ToSet
  <1>4. ToSet(t) = ToSet(s) \cup {x}
    BY <1>1, <1>2 DEF ToSet
  <1> QED
    BY <1>1, <1>3, <1>4 DEF t

\* The first element taken away: exactly that one is gone.
LEMMA TailDistinct ==
    ASSUME NEW S, NEW s \in Seq(S), s # << >>, IsInjective(s)
    PROVE  /\ Head(s) \in ToSet(s)
           /\ Tail(s) \in Seq(S)
           /\ IsInjective(Tail(s))
           /\ ToSet(Tail(s)) = ToSet(s) \ {Head(s)}
  <1> DEFINE t == Tail(s)
  <1>1. /\ t \in Seq(S) /\ Len(t) = Len(s) - 1
        /\ \A k \in 1 .. Len(t) : t[k] = s[k + 1]
    BY HeadTailProperties
  <1>2. /\ Len(s) \in Nat \ {0} /\ DOMAIN s = 1 .. Len(s)
        /\ DOMAIN t = 1 .. (Len(s) - 1)
        /\ Head(s) = s[1]
    BY <1>1, LenProperties, EmptySeq
  <1> HIDE DEF t
  <1>3. IsInjective(t)
    BY <1>1, <1>2 DEF IsInjective
  <1>4. ASSUME NEW k \in 2 .. Len(s) PROVE s[k] \in ToSet(t)
    <2>1. k - 1 \in DOMAIN t /\ t[k - 1] = s[k]
      BY <1>1, <1>2
    <2> QED
      BY <2>1 DEF ToSet
  <1>5. ASSUME NEW k \in DOMAIN t PROVE t[k] \in ToSet(s) \ {Head(s)}
    <2>1. k \in Int /\ k + 1 \in DOMAIN s /\ k + 1 # 1 /\ 1 \in DOMAIN s /\ t[k] = s[k + 1]
      BY <1>1, <1>2
    <2>2. s[k + 1] # s[1]
      BY <2>1 DEF IsInjective
    <2> QED
      BY <1>2, <2>1, <2>2 DEF ToSet
  <1>6. ASSUME NEW x \in ToSet(s), x # Head(s) PROVE x \in ToSet(t)
    <2>1. PICK k \in DOMAIN s : s[k] = x
      BY DEF ToSet
    <2> QED
      BY <1>2, <1>4, <1>6, <2>1
  <1>7. ToSet(t) = ToSet(s) \ {Head(s)}
    BY <1>5, <1>6 DEF ToSet
  <1>8. Head(s) \in ToSet(s)
    <2>1. 1 \in DOMAIN s
      BY <1>2
    <2> QED
      BY <1>2, <2>1 DEF ToSet
  <1> QED
    BY <1>1, <1>3, <1>7, <1>8 DEF t

\* Removing an element wherever it is: what stands behind it moves up.
LEMMA RemoveFirstParts ==
    ASSUME NEW S, NEW s \in Seq(S), NEW x, IsInjective(s), x \in ToSet(s)
    PROVE  \E k \in 1 .. Len(s) :
             /\ s[k] = x
             /\ RemoveFirst(s, x) \in Seq(S) /\ Len(RemoveFirst(s, x)) = Len(s) - 1
             /\ \A j \in 1 .. k - 1 : RemoveFirst(s, x)[j] = s[j]
             /\ \A j \in k .. Len(s) - 1 : RemoveFirst(s, x)[j] = s[j + 1]
  <1>1. PICK k \in 1 .. Len(s) : s[k] = x
    BY DEF ToSet
  <1>2. SelectInSeq(s, LAMBDA v : v = x) = k
    BY <1>1 DEF SelectInSeq, Min, IsInjective
  <1> DEFINE front == SubSeq(s, 1, k - 1)
             back  == SubSeq(s, k + 1, Len(s))
             t     == front \o back
  <1>3. RemoveFirst(s, x) = t
    BY <1>1, <1>2 DEF RemoveFirst, RemoveAt
  <1> DEFINE n == Len(s)
  <1>4. n \in Nat /\ DOMAIN s = 1 .. n /\ (\A j \in 1 .. n : s[j] \in S) /\ k \in 1 .. n
    BY LenProperties, ElementOfSeq
  <1> HIDE DEF n
  <1>5. /\ front \in Seq(S) /\ Len(front) = k - 1
        /\ \A j \in 1 .. k - 1 : front[j] = s[j]
    <2>1. \A j \in 1 .. k - 1 : s[j] \in S
      BY <1>4
    <2>2. /\ front \in Seq(S)
          /\ Len(front) = IF 1 <= k - 1 THEN (k - 1) - 1 + 1 ELSE 0
          /\ \A j \in 1 .. (k - 1) - 1 + 1 : front[j] = s[1 + j - 1]
      BY <1>4, <2>1, SubSeqProperties
    <2> QED BY <1>4, <2>2
  <1>6. /\ back \in Seq(S) /\ Len(back) = n - k
        /\ \A j \in 1 .. n - k : back[j] = s[k + j]
    <2>1. \A j \in k + 1 .. n : s[j] \in S
      BY <1>4
    <2>2. /\ back \in Seq(S)
          /\ Len(back) = IF k + 1 <= n THEN n - (k + 1) + 1 ELSE 0
          /\ \A j \in 1 .. n - (k + 1) + 1 : back[j] = s[k + 1 + j - 1]
      BY <1>4, <2>1, SubSeqProperties DEF n
    <2> QED BY <1>4, <2>2
  <1> HIDE DEF front, back
  <1>7. /\ t \in Seq(S) /\ Len(t) = n - 1
        /\ \A j \in 1 .. k - 1 : t[j] = s[j]
        /\ \A j \in k .. n - 1 : t[j] = s[j + 1]
    <2>1. /\ t \in Seq(S) /\ Len(t) = Len(front) + Len(back)
          /\ \A j \in 1 .. Len(front) + Len(back) :
               t[j] = IF j <= Len(front) THEN front[j] ELSE back[j - Len(front)]
      BY <1>5, <1>6, ConcatProperties
    <2>2. ASSUME NEW j \in k .. n - 1 PROVE t[j] = s[j + 1]
      <3>1. j - (k - 1) \in 1 .. n - k /\ k + (j - (k - 1)) = j + 1
        BY <1>4
      <3>2. j \in 1 .. Len(front) + Len(back) /\ ~(j <= Len(front))
        BY <1>4, <1>5, <1>6
      <3> QED BY <1>5, <1>6, <2>1, <3>1, <3>2
    <2> QED BY <1>4, <1>5, <1>6, <2>1, <2>2
  <1> QED
    BY <1>1, <1>3, <1>7 DEF n

\* Exactly that one is gone.
LEMMA RemoveFirstDistinct ==
    ASSUME NEW S, NEW s \in Seq(S), NEW x, IsInjective(s), x \in ToSet(s)
    PROVE  /\ RemoveFirst(s, x) \in Seq(S)
           /\ IsInjective(RemoveFirst(s, x))
           /\ ToSet(RemoveFirst(s, x)) = ToSet(s) \ {x}
  <1> DEFINE t == RemoveFirst(s, x)
             n == Len(s)
  <1>1. PICK k \in 1 .. n :
          /\ s[k] = x
          /\ t \in Seq(S) /\ Len(t) = n - 1
          /\ \A j \in 1 .. k - 1 : t[j] = s[j]
          /\ \A j \in k .. n - 1 : t[j] = s[j + 1]
    BY RemoveFirstParts
  <1>2. s[k] = x
    BY <1>1
  <1>3. n \in Nat /\ DOMAIN s = 1 .. n /\ (\A j \in 1 .. n : s[j] \in S) /\ k \in 1 .. n
    BY LenProperties, ElementOfSeq
  <1> HIDE DEF n, t
  <1>4. DOMAIN t = 1 .. n - 1
    BY <1>1, LenProperties
  \* The place in s an element of t comes from.
  <1> DEFINE from == [j \in 1 .. n - 1 |-> IF j < k THEN j ELSE j + 1]
  <1>5. /\ \A j \in DOMAIN t : from[j] \in DOMAIN s /\ from[j] # k /\ t[j] = s[from[j]]
        /\ \A j1, j2 \in DOMAIN t : from[j1] = from[j2] => j1 = j2
        /\ \A j \in DOMAIN s : j # k => \E m \in DOMAIN t : from[m] = j
    <2>1. \A j \in DOMAIN t : from[j] \in DOMAIN s /\ from[j] # k /\ t[j] = s[from[j]]
      BY <1>1, <1>3, <1>4
    <2>2. \A j1, j2 \in DOMAIN t : from[j1] = from[j2] => j1 = j2
      BY <1>3, <1>4
    <2>3. ASSUME NEW j \in DOMAIN s, j # k PROVE \E m \in DOMAIN t : from[m] = j
      <3>1. CASE j < k
        <4>1. j \in DOMAIN t /\ from[j] = j
          BY <1>3, <1>4, <3>1
        <4> QED BY <4>1
      <3>2. CASE j > k
        <4>1. j - 1 \in DOMAIN t /\ from[j - 1] = j
          BY <1>3, <1>4, <3>2
        <4> QED BY <4>1
      <3> QED BY <1>3, <2>3, <3>1, <3>2
    <2> QED BY <2>1, <2>2, <2>3
  <1> HIDE DEF from
  <1>6. IsInjective(t)
    BY <1>5 DEF IsInjective
  <1>7. ASSUME NEW j \in DOMAIN t PROVE t[j] \in ToSet(s) \ {x}
    BY <1>2, <1>3, <1>5 DEF IsInjective, ToSet
  <1>8. ToSet(t) = ToSet(s) \ {x}
    <2>1. ASSUME NEW y \in ToSet(s), y # x PROVE y \in ToSet(t)
      BY <1>1, <1>5, <2>1 DEF ToSet
    <2> QED
      BY <1>7, <2>1 DEF ToSet
  <1> QED
    BY <1>1, <1>6, <1>8 DEF t

-----------------------------------------------------------------------------
(* The operations of the queue *)

\* Nothing is queued in the empty queue.
LEMMA EmptyRepresents == EmptyQueue \in Queues /\ Represents(EmptyQueue, {})
  <1>1. EmptyQueue \in Queues
    BY EmptySeq DEF EmptyQueue, Queues
  <1>2. Cardinality({}) = 0
    BY FS_EmptySet
  <1>3. IsInjective(<< >>) /\ ToSet(<< >>) = {}
    BY DEF IsInjective, ToSet
  <1> QED
    BY <1>1, <1>2, <1>3 DEF EmptyQueue, Represents

\* Every queued item is held, in the queue of its project.
LEMMA HoldsWaiting ==
    ASSUME NEW q \in Queues, NEW waiting \in SUBSET Item, Represents(q, waiting), NEW i \in Item
    PROVE  Holds(q, i) <=> i \in waiting
  <1>1. ProjectOf[i] \in Project
    BY ItemAssumption
  <1>2. i \in ToSet(q.byProject[ProjectOf[i]]) <=> i \in waiting
    BY <1>1 DEF Represents
  <1> QED
    BY <1>2 DEF Holds, ToSet

\* Push adds the item to the set.
LEMMA PushRepresents ==
    ASSUME NEW q \in Queues, NEW waiting \in SUBSET Item, Represents(q, waiting),
           NEW i \in Item, i \notin waiting
    PROVE  Push(q, i) \in Queues /\ Represents(Push(q, i), waiting \cup {i})
  <1> DEFINE p == ProjectOf[i]
             r == Push(q, i)
  <1>1. p \in Project /\ q.byProject \in [Project -> Seq(Item)] /\ q.order \in Seq(Project)
        /\ q.byProject[p] \in Seq(Item) /\ q.length \in Int
    BY ItemAssumption DEF Queues
  <1>2. IsInjective(q.byProject[p]) /\ i \notin ToSet(q.byProject[p])
    BY <1>1 DEF Represents
  <1>3. /\ Append(q.byProject[p], i) \in Seq(Item)
        /\ IsInjective(Append(q.byProject[p], i))
        /\ ToSet(Append(q.byProject[p], i)) = ToSet(q.byProject[p]) \cup {i}
        /\ Append(q.byProject[p], i) # << >>
    BY <1>1, <1>2, AppendDistinct
  <1>4. /\ r.byProject = [q.byProject EXCEPT ![p] = Append(q.byProject[p], i)]
        /\ r.order = IF q.byProject[p] = << >> THEN Append(q.order, p) ELSE q.order
        /\ r.length = q.length + 1
    BY DEF Push
  <1>5. /\ r.order \in Seq(Project) /\ IsInjective(r.order)
        /\ ToSet(r.order) = ToSet(q.order) \cup {p}
    <2>1. CASE q.byProject[p] = << >>
      <3>1. p \notin ToSet(q.order)
        BY <1>1, <2>1 DEF Represents
      <3> QED BY <1>1, <1>4, <2>1, <3>1, AppendDistinct DEF Represents
    <2>2. CASE q.byProject[p] # << >>
      BY <1>1, <1>4, <2>2 DEF Represents
    <2> QED BY <2>1, <2>2
  <1>6. r \in Queues
    BY <1>1, <1>3, <1>5 DEF Push, Queues
  <1>7. ASSUME NEW o \in Project
        PROVE  /\ IsInjective(r.byProject[o])
               /\ ToSet(r.byProject[o]) = {j \in waiting \cup {i} : ProjectOf[j] = o}
               /\ r.byProject[o] # << >> <=> q.byProject[o] # << >> \/ o = p
    <2>1. CASE o = p
      BY <1>1, <1>3, <1>4, <2>1 DEF Represents
    <2>2. CASE o # p
      BY <1>1, <1>4, <2>2 DEF Represents
    <2> QED BY <2>1, <2>2
  <1>8. ToSet(r.order) = {o \in Project : r.byProject[o] # << >>}
    BY <1>1, <1>5, <1>7 DEF Represents
  <1>9. r.length = Cardinality(waiting \cup {i})
    <2>1. IsFiniteSet(waiting)
      BY ItemAssumption, FS_Subset
    <2>2. Cardinality(waiting \cup {i}) = Cardinality(waiting) + 1
      BY <2>1, FS_AddElement
    <2> QED BY <1>4, <2>2 DEF Represents
  <1> HIDE DEF r
  <1>10. r \in Queues /\ Represents(r, waiting \cup {i})
    BY <1>5, <1>6, <1>7, <1>8, <1>9 DEF Represents
  <1> QED
    BY <1>10 DEF r

\* RemoveItem takes exactly the item out of the set.
LEMMA RemoveRepresents ==
    ASSUME NEW q \in Queues, NEW waiting \in SUBSET Item, Represents(q, waiting),
           NEW i \in waiting
    PROVE  RemoveItem(q, i) \in Queues /\ Represents(RemoveItem(q, i), waiting \ {i})
  <1> DEFINE p    == ProjectOf[i]
             left == RemoveFirst(q.byProject[p], i)
             r    == RemoveItem(q, i)
  <1>1. p \in Project /\ q.byProject \in [Project -> Seq(Item)] /\ q.order \in Seq(Project)
        /\ q.byProject[p] \in Seq(Item) /\ q.length \in Int
    BY ItemAssumption DEF Queues
  <1>2. IsInjective(q.byProject[p]) /\ i \in ToSet(q.byProject[p])
    BY <1>1 DEF Represents
  <1>3. /\ left \in Seq(Item) /\ IsInjective(left)
        /\ ToSet(left) = ToSet(q.byProject[p]) \ {i}
    BY <1>1, <1>2, RemoveFirstDistinct
  <1>4. q.byProject[p] # << >>
    BY <1>2 DEF ToSet
  <1>5. Holds(q, i)
    BY HoldsWaiting
  <1>6. /\ r.byProject = [q.byProject EXCEPT ![p] = left]
        /\ r.order = IF left = << >> THEN RemoveFirst(q.order, p) ELSE q.order
        /\ r.length = q.length - 1
    BY <1>5 DEF RemoveItem
  <1>7. r = [byProject |-> [q.byProject EXCEPT ![p] = left],
             order |-> IF left = << >> THEN RemoveFirst(q.order, p) ELSE q.order,
             length |-> q.length - 1]
    BY <1>5 DEF RemoveItem
  <1> HIDE DEF r, left
  <1>8. /\ r.order \in Seq(Project) /\ IsInjective(r.order)
        /\ ToSet(r.order) = IF left = << >> THEN ToSet(q.order) \ {p} ELSE ToSet(q.order)
    <2>1. p \in ToSet(q.order) /\ IsInjective(q.order)
      BY <1>1, <1>4 DEF Represents
    <2>2. CASE left = << >>
      BY <1>1, <1>6, <2>1, <2>2, RemoveFirstDistinct
    <2>3. CASE left # << >>
      BY <1>1, <1>6, <2>1, <2>3
    <2> QED BY <2>2, <2>3
  <1>9. r \in Queues
    <2>1. [q.byProject EXCEPT ![p] = left] \in [Project -> Seq(Item)] /\ q.length - 1 \in Int
      BY <1>1, <1>3
    <2>2. (IF left = << >> THEN RemoveFirst(q.order, p) ELSE q.order) \in Seq(Project)
      BY <1>6, <1>8
    <2> QED BY <1>7, <2>1, <2>2 DEF Queues
  <1>10. ASSUME NEW o \in Project
         PROVE  /\ IsInjective(r.byProject[o])
                /\ ToSet(r.byProject[o]) = {j \in waiting \ {i} : ProjectOf[j] = o}
                /\ r.byProject[o] # << >> <=> q.byProject[o] # << >> /\ (o = p => left # << >>)
    <2>1. CASE o = p
      BY <1>1, <1>3, <1>4, <1>6, <2>1 DEF Represents
    <2>2. CASE o # p
      BY <1>1, <1>6, <2>2 DEF Represents
    <2> QED BY <2>1, <2>2
  <1>11. ToSet(r.order) = {o \in Project : r.byProject[o] # << >>}
    BY <1>1, <1>8, <1>10 DEF Represents
  <1>12. r.length = Cardinality(waiting \ {i})
    <2>1. IsFiniteSet(waiting)
      BY ItemAssumption, FS_Subset
    <2>2. Cardinality(waiting \ {i}) = Cardinality(waiting) - 1
      BY <2>1, FS_RemoveElement
    <2> QED BY <1>6, <2>2 DEF Represents
  <1>13. r \in Queues /\ Represents(r, waiting \ {i})
    BY <1>8, <1>9, <1>10, <1>11, <1>12 DEF Represents
  <1> QED
    BY <1>13 DEF r

\* A queue that counts something has a turn to give, the first one.
LEMMA TurnsOfNonEmpty ==
    ASSUME NEW q \in Queues, NEW waiting \in SUBSET Item, Represents(q, waiting), q.length # 0
    PROVE  /\ Turns(q) # {} /\ Min(Turns(q)) = 1
           /\ q.order # << >> /\ q.order[1] \in Project
           /\ q.byProject[q.order[1]] # << >>
  <1>1. waiting # {}
    BY FS_EmptySet DEF Represents
  <1>2. PICK i \in waiting : TRUE
    BY <1>1
  <1>3. ProjectOf[i] \in Project /\ i \in ToSet(q.byProject[ProjectOf[i]])
    BY ItemAssumption DEF Represents
  <1>4. q.byProject[ProjectOf[i]] # << >>
    BY <1>3 DEF ToSet
  <1>5. ProjectOf[i] \in ToSet(q.order)
    BY <1>3, <1>4 DEF Represents
  <1>6. q.order \in Seq(Project) /\ q.order # << >>
    BY <1>5 DEF Queues, ToSet
  <1>7. DOMAIN q.order = 1 .. Len(q.order) /\ Len(q.order) \in Nat \ {0}
    BY <1>6, LenProperties, EmptySeq
  <1>8. \A k \in DOMAIN q.order : q.order[k] \in Project /\ q.byProject[q.order[k]] # << >>
    BY DEF Represents, ToSet
  <1>9. Turns(q) = 1 .. Len(q.order) /\ 1 \in Turns(q)
    BY <1>7, <1>8 DEF Turns
  <1>10. Min(Turns(q)) = 1
    BY <1>7, <1>9 DEF Min
  <1> QED
    BY <1>6, <1>7, <1>8, <1>9, <1>10

\* Pop takes out of the set the item it returns.
LEMMA PopRepresents ==
    ASSUME NEW q \in Queues, NEW waiting \in SUBSET Item, Represents(q, waiting), q.length # 0
    PROVE  /\ Popped(q) \in waiting
           /\ Pop(q) \in Queues
           /\ Represents(Pop(q), waiting \ {Popped(q)})
  <1> DEFINE p    == q.order[1]
             rest == Tail(q.order)
             left == Tail(q.byProject[p])
             i    == Popped(q)
             r    == Pop(q)
  <1>1. /\ Turns(q) # {} /\ Min(Turns(q)) = 1
        /\ q.order # << >> /\ p \in Project /\ q.byProject[p] # << >>
    BY TurnsOfNonEmpty
  <1>2. /\ q.byProject \in [Project -> Seq(Item)] /\ q.order \in Seq(Project)
        /\ q.byProject[p] \in Seq(Item) /\ q.length \in Int
    BY <1>1 DEF Queues
  <1>3. IsInjective(q.byProject[p]) /\ IsInjective(q.order)
    BY <1>1 DEF Represents
  <1>4. i = Head(q.byProject[p])
    BY <1>1 DEF Popped
  <1>5. /\ i \in ToSet(q.byProject[p]) /\ left \in Seq(Item) /\ IsInjective(left)
        /\ ToSet(left) = ToSet(q.byProject[p]) \ {i}
    BY <1>1, <1>2, <1>3, <1>4, TailDistinct
  <1>6. i \in waiting /\ ProjectOf[i] = p
    BY <1>1, <1>5 DEF Represents
  <1>7. SubSeq(q.order, 1 + 1, Len(q.order)) = rest
    BY <1>1, <1>2, TailIsSubSeq
  <1>8. /\ rest \in Seq(Project) /\ IsInjective(rest) /\ ToSet(rest) = ToSet(q.order) \ {p}
    BY <1>1, <1>2, <1>3, TailDistinct, Head(q.order) = q.order[1]
  <1>9. r = [byProject |-> [q.byProject EXCEPT ![p] = left],
             order |-> IF left = << >> THEN rest ELSE Append(rest, p),
             length |-> q.length - 1]
    BY <1>1, <1>7 DEF Pop
  <1> HIDE DEF r, left, rest, i
  <1>10. /\ r.order \in Seq(Project) /\ IsInjective(r.order)
         /\ ToSet(r.order) = IF left = << >> THEN ToSet(q.order) \ {p} ELSE ToSet(q.order)
    <2>1. p \in ToSet(q.order) /\ p \notin ToSet(rest)
      BY <1>1, <1>8 DEF Represents
    <2>2. CASE left = << >>
      BY <1>8, <1>9, <2>2
    <2>3. CASE left # << >>
      <3>1. /\ Append(rest, p) \in Seq(Project) /\ IsInjective(Append(rest, p))
            /\ ToSet(Append(rest, p)) = ToSet(rest) \cup {p}
        BY <1>1, <1>8, <2>1, AppendDistinct
      <3>2. ToSet(rest) \cup {p} = ToSet(q.order)
        BY <1>8, <2>1
      <3> QED BY <1>9, <2>3, <3>1, <3>2
    <2> QED BY <2>2, <2>3
  <1>11. r \in Queues
    BY <1>1, <1>2, <1>5, <1>9, <1>10 DEF Queues
  <1>12. ASSUME NEW o \in Project
         PROVE  /\ IsInjective(r.byProject[o])
                /\ ToSet(r.byProject[o]) = {j \in waiting \ {i} : ProjectOf[j] = o}
                /\ r.byProject[o] # << >> <=> q.byProject[o] # << >> /\ (o = p => left # << >>)
    <2>1. CASE o = p
      BY <1>1, <1>2, <1>5, <1>9, <2>1 DEF Represents
    <2>2. CASE o # p
      BY <1>1, <1>2, <1>6, <1>9, <2>2 DEF Represents
    <2> QED BY <2>1, <2>2
  <1>13. ToSet(r.order) = {o \in Project : r.byProject[o] # << >>}
    BY <1>1, <1>10, <1>12 DEF Represents
  <1>14. r.length = Cardinality(waiting \ {i})
    <2>1. IsFiniteSet(waiting)
      BY ItemAssumption, FS_Subset
    <2>2. Cardinality(waiting \ {i}) = Cardinality(waiting) - 1
      BY <1>6, <2>1, FS_RemoveElement
    <2> QED BY <1>9, <2>2 DEF Represents
  <1>15. r \in Queues /\ Represents(r, waiting \ {i})
    BY <1>10, <1>11, <1>12, <1>13, <1>14 DEF Represents
  <1> QED
    BY <1>6, <1>15 DEF r, i

\* Drain returns everything that waits.
LEMMA DrainedAll ==
    ASSUME NEW q \in Queues, NEW waiting \in SUBSET Item, Represents(q, waiting)
    PROVE  Drained(q) = waiting
  <1>1. ASSUME NEW i \in waiting PROVE \E k \in DOMAIN q.order : q.order[k] = ProjectOf[i]
    <2>1. ProjectOf[i] \in Project /\ i \in ToSet(q.byProject[ProjectOf[i]])
      BY ItemAssumption DEF Represents
    <2>2. q.byProject[ProjectOf[i]] # << >>
      BY <2>1 DEF ToSet
    <2>3. ProjectOf[i] \in ToSet(q.order)
      BY <2>1, <2>2 DEF Represents
    <2> QED BY <2>3 DEF ToSet
  <1> QED
    BY <1>1, HoldsWaiting DEF Drained

-----------------------------------------------------------------------------
(* The worker pool *)

PoolInv ==
    /\ TypeOK
    /\ QueueRight
    /\ OneOwner
    /\ OneResult
    /\ CountersRight
    /\ StartedIsTrue
    /\ NoWorkerLost

-----------------------------------------------------------------------------
(* Counting *)

\* Moving one item to another state changes a count by at most one.
LEMMA StateMoves ==
    ASSUME NEW CONSTANT S, NEW i \in Item, NEW t,
           state \in [Item -> States], state' = [state EXCEPT ![i] = t]
    PROVE  /\ InState(S)' = IF t \in S THEN InState(S) \cup {i} ELSE InState(S) \ {i}
           /\ Cardinality(InState(S)) \in Nat /\ Cardinality(InState(S)') \in Nat
           /\ Cardinality(InState(S)') =
                IF t \in S
                THEN IF state[i] \in S THEN Cardinality(InState(S)) ELSE Cardinality(InState(S)) + 1
                ELSE IF state[i] \in S THEN Cardinality(InState(S)) - 1 ELSE Cardinality(InState(S))
  <1>1. InState(S)' = IF t \in S THEN InState(S) \cup {i} ELSE InState(S) \ {i}
    BY DEF InState
  <1>2. IsFiniteSet(InState(S)) /\ Cardinality(InState(S)) \in Nat
    BY ItemAssumption, FS_Subset, FS_CardinalityType DEF InState
  <1>3. i \in InState(S) <=> state[i] \in S
    BY DEF InState
  <1>4. /\ Cardinality(InState(S) \cup {i}) =
             IF i \in InState(S) THEN Cardinality(InState(S)) ELSE Cardinality(InState(S)) + 1
        /\ Cardinality(InState(S) \ {i}) =
             IF i \in InState(S) THEN Cardinality(InState(S)) - 1 ELSE Cardinality(InState(S))
    BY <1>2, FS_AddElement, FS_RemoveElement
  <1>5. Cardinality(InState(S)') \in Nat
    BY <1>1, <1>2, FS_AddElement, FS_RemoveElement, FS_CardinalityType
  <1> QED
    BY <1>1, <1>2, <1>3, <1>4, <1>5

\* The sets counted are finite.
LEMMA CountsFinite ==
    ASSUME NEW S, active \subseteq Item
    PROVE  /\ IsFiniteSet(InState(S)) /\ Cardinality(InState(S)) \in Nat
           /\ IsFiniteSet(active) /\ Cardinality(active) \in Nat
  <1>1. InState(S) \subseteq Item
    BY DEF InState
  <1> QED
    BY <1>1, ItemAssumption, FS_Subset, FS_CardinalityType

\* The two counts the code keeps, when one item moves to another state.
LEMMA CountsMove ==
    ASSUME NEW i \in Item, NEW t \in States,
           state \in [Item -> States], state' = [state EXCEPT ![i] = t]
    PROVE  /\ ReservedCount' \in Nat /\ RunningCount' \in Nat
           /\ ReservedCount' = ReservedCount + (IF t = "reserved" THEN 1 ELSE 0)
                                             - (IF state[i] = "reserved" THEN 1 ELSE 0)
           /\ RunningCount' = RunningCount + (IF t \in {"running", "cancelling"} THEN 1 ELSE 0)
                                           - (IF state[i] \in {"running", "cancelling"} THEN 1 ELSE 0)
  <1>1. /\ ReservedCount \in Nat /\ ReservedCount' \in Nat
        /\ ReservedCount' = IF t \in {"reserved"}
                THEN IF state[i] \in {"reserved"} THEN ReservedCount ELSE ReservedCount + 1
                ELSE IF state[i] \in {"reserved"} THEN ReservedCount - 1 ELSE ReservedCount
    BY StateMoves DEF ReservedCount
  <1>2. /\ RunningCount \in Nat /\ RunningCount' \in Nat
        /\ RunningCount' = IF t \in {"running", "cancelling"}
                THEN IF state[i] \in {"running", "cancelling"} THEN RunningCount ELSE RunningCount + 1
                ELSE IF state[i] \in {"running", "cancelling"} THEN RunningCount - 1 ELSE RunningCount
    BY StateMoves DEF RunningCount
  <1> QED BY <1>1, <1>2

\* What is counted and what bounds it are natural numbers.
LEMMA Numbers ==
    ASSUME active \subseteq Item
    PROVE  /\ WorkerLimit \in Nat /\ QueueCapacity \in Nat /\ Capacity = WorkerLimit + QueueCapacity
           /\ Cardinality(active) \in Nat /\ ReservedCount \in Nat /\ RunningCount \in Nat
  BY PoolAssumption, FS_CardinalityType, CountsFinite DEF WorkerLimit, Capacity, ReservedCount, RunningCount

\* Items each in the hands of a worker: there are at most as many as workers.
LEMMA HeldBound ==
    ASSUME NEW items, NEW hands, \A i \in items : \E w \in Worker : hands[w] = i
    PROVE  Cardinality(items) <= WorkerLimit
  <1> DEFINE owner == [i \in items |-> CHOOSE w \in Worker : hands[w] = i]
  <1>1. \A i \in items : owner[i] \in Worker /\ hands[owner[i]] = i
    OBVIOUS
  <1>2. owner \in Injection(items, Worker)
    BY <1>1 DEF Injection, IsInjective
  <1> QED
    BY <1>2, FS_Injection, PoolAssumption DEF WorkerLimit

-----------------------------------------------------------------------------
(* The initial state and the steps *)

\* The idle pool satisfies the invariant.
LEMMA InitInv == PoolInit => PoolInv
  <1> SUFFICES ASSUME PoolInit PROVE PoolInv
    OBVIOUS
  <1>1. EmptyQueue \in Queues /\ Represents(EmptyQueue, {})
    BY EmptyRepresents
  <1>2. TypeOK
    <2>1. \A i \in Item : << >> \in Seq(Result)
      OBVIOUS
    <2>2. CancelledResult \in Result
      BY DEF CancelledResult, Result, Errors
    <2> QED BY <1>1, <2>1, <2>2 DEF PoolInit, TypeOK, Queues, States
  <1>3. \A S : "none" \notin S => InState(S) = {}
    BY DEF PoolInit, InState
  <1>4. QueueRight
    BY <1>1, <1>3 DEF PoolInit, QueueRight
  <1>5. OneOwner /\ OneResult /\ StartedIsTrue /\ NoWorkerLost
    BY PoolAssumption DEF PoolInit, OneOwner, Held, OneResult, StartedIsTrue, NoWorkerLost
  <1>6. CountersRight
    <2>1. Cardinality({}) = 0
      BY FS_EmptySet
    <2>2. InState({"reserved"}) = {} /\ InState({"running", "cancelling"}) = {}
      BY <1>3
    <2>3. ReservedCount = 0 /\ RunningCount = 0 /\ Cardinality(active) = 0 /\ active \subseteq Item
      BY <2>1, <2>2 DEF ReservedCount, RunningCount, PoolInit
    <2> QED BY <2>3, Numbers DEF PoolInit, CountersRight
  <1> QED BY <1>2, <1>4, <1>5, <1>6 DEF PoolInv

\* A reservation is admitted only below the capacity.
LEMMA ReserveInv ==
    ASSUME PoolInv, NEW i \in Item, Reserve(i) PROVE PoolInv'
  <1> USE DEF PoolInv
  <1>1. TypeOK'
    BY DEF TypeOK, Reserve, States
  <1>2. state \in [Item -> States] /\ state[i] = "none" /\ state' = [state EXCEPT ![i] = "reserved"]
    BY DEF TypeOK, Reserve
  <1>3. QueueRight'
    <2>1. InState({"queued"})' = InState({"queued"})
      BY <1>2 DEF InState
    <2> QED BY <2>1 DEF QueueRight, Reserve, Represents
  <1>4. OneOwner'
    BY <1>2 DEF OneOwner, Held, Reserve, TypeOK
  <1>5. OneResult'
    BY <1>2 DEF OneResult, Reserve, TypeOK
  <1>6. CountersRight'
    <2>1. active \subseteq Item /\ "reserved" \in States
      BY DEF TypeOK, States
    <2>2. /\ ReservedCount' = ReservedCount + (IF "reserved" = "reserved" THEN 1 ELSE 0)
                                             - (IF state[i] = "reserved" THEN 1 ELSE 0)
          /\ RunningCount' = RunningCount + (IF "reserved" \in {"running", "cancelling"} THEN 1 ELSE 0)
                                           - (IF state[i] \in {"running", "cancelling"} THEN 1 ELSE 0)
      BY <1>2, <2>1, CountsMove
    <2>3. ReservedCount' = ReservedCount + 1 /\ RunningCount' = RunningCount
      BY <1>2, <2>1, <2>2, Numbers
    <2> QED BY <2>1, <2>3, Numbers DEF CountersRight, Reserve, Admits
  <1>7. StartedIsTrue'
    BY <1>2 DEF StartedIsTrue, Reserve, TypeOK
  <1>8. NoWorkerLost'
    BY DEF NoWorkerLost, Reserve
  <1> QED BY <1>1, <1>3, <1>4, <1>5, <1>6, <1>7, <1>8

\* A reservation is given back, with its place in the capacity.
LEMMA GiveBackInv ==
    ASSUME PoolInv, NEW i \in Item, state[i] = "reserved", GiveBack(i) PROVE PoolInv'
  <1> USE DEF PoolInv
  <1>1. /\ state \in [Item -> States] /\ state' = [state EXCEPT ![i] = "released"]
        /\ active \subseteq Item /\ "released" \in States /\ active' = active
    BY DEF TypeOK, GiveBack, States
  <1>2. CountersRight' /\ reserved' \in Nat /\ inFlight' \in Nat
    <2>1. /\ ReservedCount' = ReservedCount + (IF "released" = "reserved" THEN 1 ELSE 0)
                                             - (IF state[i] = "reserved" THEN 1 ELSE 0)
          /\ RunningCount' = RunningCount + (IF "released" \in {"running", "cancelling"} THEN 1 ELSE 0)
                                           - (IF state[i] \in {"running", "cancelling"} THEN 1 ELSE 0)
      BY <1>1, CountsMove
    <2>2. ReservedCount' = ReservedCount - 1 /\ RunningCount' = RunningCount
      BY <1>1, <2>1, Numbers
    <2>3. ReservedCount' \in Nat
      BY <1>1, CountsMove
    <2> QED BY <1>1, <2>2, <2>3, Numbers DEF CountersRight, GiveBack
  <1>3. TypeOK'
    BY <1>2 DEF TypeOK, GiveBack, States
  <1>4. QueueRight'
    <2>1. InState({"queued"})' = InState({"queued"})
      BY <1>1 DEF InState
    <2> QED BY <2>1 DEF QueueRight, GiveBack, Represents
  <1>5. OneOwner' /\ OneResult' /\ StartedIsTrue' /\ NoWorkerLost'
    BY <1>1 DEF OneOwner, Held, OneResult, StartedIsTrue, NoWorkerLost, GiveBack, TypeOK
  <1> QED BY <1>2, <1>3, <1>4, <1>5

\* Started work waits in the queue, and in the capacity its reservation held.
LEMMA StartReservedInv ==
    ASSUME PoolInv, NEW i \in Item, StartReserved(i) PROVE PoolInv'
  <1> USE DEF PoolInv
  <1>1. /\ state \in [Item -> States] /\ state' = [state EXCEPT ![i] = "queued"]
        /\ active \subseteq Item /\ "queued" \in States /\ active' = active \cup {i}
        /\ state[i] = "reserved" /\ i \notin active /\ active' \subseteq Item
    BY DEF TypeOK, StartReserved, States, OneResult
  <1>2. CountersRight' /\ reserved' \in Nat
    <2>1. /\ ReservedCount' = ReservedCount + (IF "queued" = "reserved" THEN 1 ELSE 0)
                                             - (IF state[i] = "reserved" THEN 1 ELSE 0)
          /\ RunningCount' = RunningCount + (IF "queued" \in {"running", "cancelling"} THEN 1 ELSE 0)
                                           - (IF state[i] \in {"running", "cancelling"} THEN 1 ELSE 0)
      BY <1>1, CountsMove
    <2>2. ReservedCount' = ReservedCount - 1 /\ RunningCount' = RunningCount
      BY <1>1, <2>1, Numbers
    <2>3. ReservedCount' \in Nat
      BY <1>1, CountsMove
    <2>4. Cardinality(active') = Cardinality(active) + 1
      BY <1>1, CountsFinite, FS_AddElement
    <2> QED BY <1>1, <2>2, <2>3, <2>4, Numbers DEF CountersRight, StartReserved
  <1>3. queue' \in Queues /\ QueueRight'
    <2>1. InState({"queued"})' = InState({"queued"}) \cup {i} /\ i \notin InState({"queued"})
      BY <1>1 DEF InState
    <2>2. queue \in Queues /\ InState({"queued"}) \in SUBSET Item
      BY DEF TypeOK, Queues, InState
    <2> QED BY <2>1, <2>2, PushRepresents DEF QueueRight, StartReserved
  <1>4. /\ pc' \in [Worker -> {"next", "waiting", "execute", "work", "finish", "exited"}]
        /\ \A w \in Worker : \/ pc'[w] = pc[w]
                             \/ pc[w] = "waiting" /\ pc'[w] = "next"
    BY DEF StartReserved, Signal, Waiting, TypeOK
  <1>5. TypeOK'
    BY <1>1, <1>2, <1>3, <1>4 DEF TypeOK, StartReserved, Queues
  <1>6. OneOwner' /\ NoWorkerLost'
    <2>1. UNCHANGED << holds, done, closed >> /\ \A j \in Item : Held(j)' = Held(j)
      BY DEF StartReserved, Held
    <2>2. \A w \in Worker :
            /\ pc'[w] \in {"execute", "work", "finish"} <=> pc[w] \in {"execute", "work", "finish"}
            /\ pc'[w] = "exited" => pc[w] = "exited"
      BY <1>4
    <2>3. \A j \in Item : state'[j] = IF j = i THEN "queued" ELSE state[j]
      BY <1>1
    <2> QED BY <1>1, <2>1, <2>2, <2>3 DEF OneOwner, NoWorkerLost
  <1>7. OneResult'
    BY <1>1 DEF OneResult, StartReserved, TypeOK
  <1>8. StartedIsTrue'
    <2>1. UNCHANGED << holds, outcome, done, invoked >>
      BY DEF StartReserved
    <2>2. \A w \in Worker : pc'[w] \in {"execute", "work", "finish"} => pc'[w] = pc[w]
      BY <1>4
    <2>3. \A j \in Item : state'[j] = state[j] \/ (j = i /\ state[j] = "reserved")
      BY <1>1
    <2>4. invoked[i] = 0 /\ done[i] = << >>
      BY <1>1 DEF StartedIsTrue, OneResult
    <2>5. \A j \in Item :
            /\ invoked'[j] <= 1
            /\ state'[j] \notin {"running", "cancelling", "finished"} => invoked'[j] = 0
            /\ done'[j] # << >> => (done'[j][1].started <=> invoked'[j] = 1)
      BY <2>1, <2>3, <2>4 DEF StartedIsTrue
    <2>6. \A w \in Worker :
            /\ pc'[w] = "execute" => invoked'[holds'[w]] = 0
            /\ pc'[w] = "work" => invoked'[holds'[w]] = 1
            /\ pc'[w] = "finish" => (outcome'[w].started <=> invoked'[holds'[w]] = 1)
      BY <2>1, <2>2 DEF StartedIsTrue
    <2> QED BY <2>5, <2>6 DEF StartedIsTrue
  <1> QED BY <1>2, <1>3, <1>5, <1>6, <1>7, <1>8

\* The callers' contexts are not part of the pool's accounting.
LEMMA CancelCallersInv ==
    ASSUME PoolInv, NEW items \in SUBSET Item, CancelCallers(items) PROVE PoolInv'
  <1> USE DEF PoolInv
  <1>1. TypeOK'
    BY DEF TypeOK, CancelCallers
  <1>2. \A S : InState(S)' = InState(S)
    BY DEF InState, CancelCallers
  <1>3. QueueRight' /\ CountersRight'
    BY <1>2 DEF QueueRight, Represents, CountersRight, ReservedCount, RunningCount, CancelCallers
  <1>4. OneOwner' /\ OneResult' /\ StartedIsTrue' /\ NoWorkerLost'
    BY DEF OneOwner, Held, OneResult, StartedIsTrue, NoWorkerLost, CancelCallers
  <1> QED BY <1>1, <1>3, <1>4

\* Cancelled in the queue: out of the queue, and delivered at once.
LEMMA CancelQueuedInv ==
    ASSUME PoolInv, NEW i \in Item, CancelQueued(i) PROVE PoolInv'
  <1> USE DEF PoolInv
  <1>1. /\ state \in [Item -> States] /\ state' = [state EXCEPT ![i] = "finished"]
        /\ active \subseteq Item /\ "finished" \in States /\ i \in active
        /\ state[i] = "queued" /\ done[i] = << >>
    BY DEF TypeOK, CancelQueued, States, OneResult
  <1>2. /\ active' = active \ {i} /\ Cardinality({i} \cap active) = 1
        /\ inFlight' = inFlight - 1
        /\ done' = [j \in Item |-> IF j = i THEN << CancelledResult >> ELSE done[j]]
    <2>1. {i} \cap active = {i} /\ Cardinality({i}) = 1
      BY <1>1, FS_Singleton
    <2>2. Append(<< >>, CancelledResult) = << CancelledResult >>
      OBVIOUS
    <2> QED BY <1>1, <2>1, <2>2 DEF CancelQueued, FinishLocked
  <1>3. CountersRight' /\ inFlight' \in Nat
    <2>1. /\ ReservedCount' = ReservedCount + (IF "finished" = "reserved" THEN 1 ELSE 0)
                                             - (IF state[i] = "reserved" THEN 1 ELSE 0)
          /\ RunningCount' = RunningCount + (IF "finished" \in {"running", "cancelling"} THEN 1 ELSE 0)
                                           - (IF state[i] \in {"running", "cancelling"} THEN 1 ELSE 0)
      BY <1>1, CountsMove
    <2>2. ReservedCount' = ReservedCount /\ RunningCount' = RunningCount
      BY <1>1, <2>1, Numbers
    <2>3. Cardinality(active') = Cardinality(active) - 1 /\ Cardinality(active') \in Nat
      BY <1>1, <1>2, CountsFinite, FS_RemoveElement, FS_CardinalityType
    <2>4. UNCHANGED << reserved, running >>
      BY DEF CancelQueued
    <2> QED BY <1>1, <1>2, <2>2, <2>3, <2>4, Numbers DEF CountersRight
  <1>4. queue' \in Queues /\ QueueRight'
    <2>1. InState({"queued"})' = InState({"queued"}) \ {i} /\ i \in InState({"queued"})
      BY <1>1 DEF InState
    <2>2. queue \in Queues /\ InState({"queued"}) \in SUBSET Item
      BY DEF TypeOK, Queues, InState
    <2> QED BY <2>1, <2>2, RemoveRepresents DEF QueueRight, CancelQueued
  <1>5. CancelledResult \in Result
    BY DEF CancelledResult, Result, Errors
  <1>6. TypeOK'
    <2>1. done' \in [Item -> Seq(Result)]
      BY <1>2, <1>5 DEF TypeOK
    <2> QED BY <1>1, <1>2, <1>3, <1>4, <2>1 DEF TypeOK, CancelQueued, Queues
  <1>7. /\ \A j \in Item : state'[j] = IF j = i THEN "finished" ELSE state[j]
        /\ \A j \in Item : done'[j] = IF j = i THEN << CancelledResult >> ELSE done[j]
        /\ Len(<< CancelledResult >>) = 1 /\ << CancelledResult >> # << >>
        /\ << CancelledResult >>[1].started = FALSE
    BY <1>1, <1>2 DEF CancelledResult
  <1>8. UNCHANGED << pc, holds, outcome, closed, invoked >> /\ \A j \in Item : Held(j)' = Held(j)
    BY DEF CancelQueued, Held
  <1>9. OneOwner' /\ NoWorkerLost'
    BY <1>1, <1>7, <1>8 DEF OneOwner, NoWorkerLost
  <1>10. OneResult'
    BY <1>1, <1>2, <1>7 DEF OneResult
  <1>11. StartedIsTrue'
    <2>1. invoked[i] = 0
      BY <1>1 DEF StartedIsTrue
    <2> QED BY <1>1, <1>7, <1>8, <2>1 DEF StartedIsTrue
  <1> QED BY <1>3, <1>4, <1>6, <1>9, <1>10, <1>11

\* Cancelled in a worker's hands: it still counts as running.
LEMMA CancelRunningInv ==
    ASSUME PoolInv, NEW i \in Item, CancelRunning(i) PROVE PoolInv'
  <1> USE DEF PoolInv
  <1>1. /\ state \in [Item -> States] /\ state' = [state EXCEPT ![i] = "cancelling"]
        /\ active \subseteq Item /\ "cancelling" \in States /\ state[i] = "running"
        /\ UNCHANGED << queue, reserved, running, inFlight, active, closed,
                        pc, holds, outcome, done, invoked >>
    BY DEF TypeOK, CancelRunning, States
  <1>2. TypeOK'
    BY <1>1 DEF TypeOK, CancelRunning
  <1>3. CountersRight'
    <2>1. /\ ReservedCount' = ReservedCount + (IF "cancelling" = "reserved" THEN 1 ELSE 0)
                                             - (IF state[i] = "reserved" THEN 1 ELSE 0)
          /\ RunningCount' = RunningCount + (IF "cancelling" \in {"running", "cancelling"} THEN 1 ELSE 0)
                                           - (IF state[i] \in {"running", "cancelling"} THEN 1 ELSE 0)
      BY <1>1, CountsMove
    <2>2. ReservedCount' = ReservedCount /\ RunningCount' = RunningCount
      BY <1>1, <2>1, Numbers
    <2> QED BY <1>1, <2>2, Numbers DEF CountersRight
  <1>4. QueueRight'
    <2>1. InState({"queued"})' = InState({"queued"})
      BY <1>1 DEF InState
    <2> QED BY <1>1, <2>1 DEF QueueRight, Represents
  <1>5. \A j \in Item : state'[j] = (IF j = i THEN "cancelling" ELSE state[j]) /\ Held(j)' = Held(j)
    BY <1>1 DEF Held
  <1>6. OneOwner' /\ NoWorkerLost' /\ OneResult' /\ StartedIsTrue'
    BY <1>1, <1>5 DEF OneOwner, NoWorkerLost, OneResult, StartedIsTrue
  <1> QED BY <1>2, <1>3, <1>4, <1>6

\* Closing delivers all that is queued and leaves what runs to its workers.
LEMMA ClosePoolInv ==
    ASSUME PoolInv, ClosePool PROVE PoolInv'
  <1> USE DEF PoolInv
  <1> DEFINE Q == InState({"queued"})
  <1>1. Drained(queue) = Q /\ Q \subseteq Item /\ Q \subseteq active /\ active \subseteq Item
    <2>1. queue \in Queues /\ Q \in SUBSET Item
      BY DEF TypeOK, Queues, InState
    <2> QED BY <2>1, DrainedAll DEF QueueRight, OneResult, InState, TypeOK
  <1>2. /\ state' = [j \in Item |-> IF j \in Q THEN "finished"
                                    ELSE IF j \in active /\ state[j] = "running" THEN "cancelling"
                                    ELSE state[j]]
        /\ queue' = [EmptyQueue EXCEPT !.length = queue.length - Cardinality(Q)]
        /\ active' = active \ Q
        /\ inFlight' = inFlight - Cardinality(Q \cap active)
        /\ done' = [j \in Item |-> IF j \in Q \cap active THEN Append(done[j], CancelledResult) ELSE done[j]]
        /\ pc' = [w \in Worker |-> IF pc[w] = "waiting" THEN "next" ELSE pc[w]]
        /\ closed' = TRUE
        /\ UNCHANGED << reserved, running, callerDone, holds, outcome, invoked >>
    BY <1>1 DEF ClosePool, FinishLocked, Broadcast
  <1>3. Q \cap active = Q /\ \A j \in Q : done[j] = << >> /\ state[j] = "queued"
    BY <1>1 DEF OneResult, InState
  <1>4. queue' = EmptyQueue
    <2>1. queue.length = Cardinality(Q)
      BY DEF QueueRight, Represents
    <2>2. Cardinality(Q) \in Nat
      BY <1>1, CountsFinite
    <2>3. queue.length - Cardinality(Q) = 0
      BY <2>1, <2>2
    <2> QED BY <1>2, <2>3 DEF EmptyQueue
  <1>5. \A j \in Item : done'[j] = IF j \in Q THEN << CancelledResult >> ELSE done[j]
    <2>1. Append(<< >>, CancelledResult) = << CancelledResult >>
      OBVIOUS
    <2> QED BY <1>2, <1>3, <2>1
  <1>6. CancelledResult \in Result /\ CancelledResult.started = FALSE
    BY DEF CancelledResult, Result, Errors
  <1>7. /\ Len(<< CancelledResult >>) = 1 /\ << CancelledResult >> # << >>
        /\ << CancelledResult >>[1] = CancelledResult /\ << CancelledResult >> \in Seq(Result)
    BY <1>6
  <1> HIDE DEF Q
  <1>8. /\ state' \in [Item -> States]
        /\ \A j \in Item : \/ j \in Q /\ state[j] = "queued" /\ state'[j] = "finished"
                           \/ j \notin Q /\ state[j] # "queued" /\ state'[j] = state[j]
                           \/ j \notin Q /\ state[j] = "running" /\ state'[j] = "cancelling"
    BY <1>2, <1>3 DEF TypeOK, States, Q, InState
  <1>9. CountersRight' /\ inFlight' \in Nat
    <2>1. InState({"reserved"})' = InState({"reserved"})
      BY <1>8 DEF InState
    <2>2. InState({"running", "cancelling"})' = InState({"running", "cancelling"})
      BY <1>8 DEF InState
    <2>3. Cardinality(active') = Cardinality(active) - Cardinality(Q)
      <3>1. active \cap Q = Q
        BY <1>3
      <3>2. IsFiniteSet(active)
        BY <1>1, CountsFinite
      <3>3. Cardinality(active \ Q) = Cardinality(active) - Cardinality(active \cap Q)
        BY <3>2, FS_Difference
      <3> QED BY <1>2, <3>1, <3>3
    <2>4. Cardinality(active') \in Nat /\ Cardinality(Q) \in Nat
      BY <1>1, <1>2, CountsFinite, FS_Difference, FS_CardinalityType, FS_Subset
    <2>5. ReservedCount' = ReservedCount /\ RunningCount' = RunningCount
      BY <2>1, <2>2 DEF ReservedCount, RunningCount
    <2>6. inFlight' = inFlight - Cardinality(Q) /\ UNCHANGED << reserved, running >>
      BY <1>2, <1>3
    <2> QED BY <1>1, <2>3, <2>4, <2>5, <2>6, Numbers DEF CountersRight
  <1>10. TypeOK'
    <2>1. done' \in [Item -> Seq(Result)]
      BY <1>2, <1>5, <1>7 DEF TypeOK
    <2>2. queue' \in Queues
      BY <1>4, EmptyRepresents
    <2>3. pc' \in [Worker -> {"next", "waiting", "execute", "work", "finish", "exited"}]
      BY <1>2 DEF TypeOK
    <2> QED BY <1>1, <1>2, <1>8, <1>9, <2>1, <2>2, <2>3 DEF TypeOK, Queues
  <1>11. QueueRight'
    <2>1. InState({"queued"})' = {}
      BY <1>8 DEF InState
    <2> QED BY <1>4, <2>1, EmptyRepresents DEF QueueRight
  <1>12. \A w \in Worker : pc'[w] = pc[w] \/ (pc[w] = "waiting" /\ pc'[w] = "next")
    BY <1>2 DEF TypeOK
  <1>13. \A j \in Item : Held(j)' = Held(j)
    BY <1>2 DEF Held
  <1>14. OneOwner' /\ NoWorkerLost'
    <2>1. \A j \in Item :
            /\ state'[j] \in {"none", "reserved", "released", "queued"} => ~Held(j)'
            /\ state'[j] \in {"running", "cancelling"} => Held(j)'
            /\ state'[j] = "finished" => (Held(j)' <=> done'[j] = << >>)
      BY <1>5, <1>7, <1>8, <1>13 DEF OneOwner
    <2>2. \A w \in Worker : holds'[w] # NoItem <=> pc'[w] \in {"execute", "work", "finish"}
      BY <1>2, <1>12 DEF OneOwner
    <2> QED BY <1>2, <2>1, <2>2 DEF OneOwner, NoWorkerLost
  <1>15. OneResult'
    BY <1>1, <1>2, <1>5, <1>7, <1>8 DEF OneResult
  <1>16. StartedIsTrue'
    <2>1. \A w \in Worker : pc'[w] \in {"execute", "work", "finish"} => pc'[w] = pc[w]
      BY <1>12
    <2>2. \A j \in Q : invoked[j] = 0
      BY <1>1, <1>3 DEF StartedIsTrue
    <2> QED BY <1>2, <1>5, <1>6, <1>7, <1>8, <2>1, <2>2 DEF StartedIsTrue
  <1> QED BY <1>9, <1>10, <1>11, <1>14, <1>15, <1>16

-----------------------------------------------------------------------------
(* The workers *)

\* A worker that only moves its program counter outside an item.
LEMMA WaitInv ==
    ASSUME PoolInv, NEW w \in Worker, Wait(w) PROVE PoolInv'
  <1> USE DEF PoolInv
  <1>1. /\ pc' = [pc EXCEPT ![w] = "waiting"] /\ pc[w] = "next"
        /\ UNCHANGED << queue, reserved, running, inFlight, active, closed, state,
                        callerDone, holds, outcome, done, invoked >>
    BY DEF Wait, Goto
  <1>2. TypeOK'
    BY <1>1 DEF TypeOK
  <1>3. \A S : InState(S)' = InState(S)
    BY <1>1 DEF InState
  <1>4. QueueRight' /\ CountersRight'
    BY <1>1, <1>3 DEF QueueRight, Represents, CountersRight, ReservedCount, RunningCount
  <1>5. \A v \in Worker : pc'[v] = IF v = w THEN "waiting" ELSE pc[v]
    BY <1>1 DEF TypeOK
  <1>6. OneOwner' /\ OneResult' /\ StartedIsTrue' /\ NoWorkerLost'
    BY <1>1, <1>5 DEF OneOwner, Held, OneResult, StartedIsTrue, NoWorkerLost
  <1> QED BY <1>2, <1>4, <1>6

\* Pop never comes back empty-handed, so a worker leaves only a closed pool.
LEMMA ExitInv ==
    ASSUME PoolInv, NEW w \in Worker, Exit(w) PROVE PoolInv'
  <1> USE DEF PoolInv
  <1>1. queue.length = 0 /\ closed
    <2>1. queue \in Queues /\ InState({"queued"}) \in SUBSET Item
      BY DEF TypeOK, Queues, InState
    <2>2. queue.length # 0 => Turns(queue) # {}
      BY <2>1, TurnsOfNonEmpty DEF QueueRight
    <2> QED BY <2>2 DEF Exit
  <1>2. /\ pc' = [pc EXCEPT ![w] = "exited"] /\ pc[w] = "next"
        /\ UNCHANGED << queue, reserved, running, inFlight, active, closed, state,
                        callerDone, holds, outcome, done, invoked >>
    BY <1>1 DEF Exit, Goto
  <1>3. TypeOK'
    BY <1>2 DEF TypeOK
  <1>4. \A S : InState(S)' = InState(S)
    BY <1>2 DEF InState
  <1>5. QueueRight' /\ CountersRight'
    BY <1>2, <1>4 DEF QueueRight, Represents, CountersRight, ReservedCount, RunningCount
  <1>6. \A v \in Worker : pc'[v] = IF v = w THEN "exited" ELSE pc[v]
    BY <1>2 DEF TypeOK
  <1>7. OneOwner' /\ OneResult' /\ StartedIsTrue' /\ NoWorkerLost'
    BY <1>1, <1>2, <1>6 DEF OneOwner, Held, OneResult, StartedIsTrue, NoWorkerLost
  <1> QED BY <1>3, <1>5, <1>7

\* What is popped was queued, so nobody else has it.
LEMMA TakeInv ==
    ASSUME PoolInv, NEW w \in Worker, Take(w) PROVE PoolInv'
  <1> USE DEF PoolInv
  <1> DEFINE i == Popped(queue)
             t == IF CtxErr(i) THEN "finished" ELSE "running"
  <1>1. /\ i \in Item /\ state[i] = "queued" /\ queue' = Pop(queue) /\ queue' \in Queues
        /\ Represents(queue', InState({"queued"}) \ {i})
    <2>1. queue \in Queues /\ InState({"queued"}) \in SUBSET Item /\ queue.length # 0
      BY DEF TypeOK, Queues, InState, Take
    <2> QED BY <2>1, PopRepresents DEF QueueRight, Take, InState
  <1>2. /\ state' = [state EXCEPT ![i] = t] /\ t \in States /\ t \in {"finished", "running"}
        /\ running' = IF t = "running" THEN running + 1 ELSE running
        /\ holds' = [holds EXCEPT ![w] = i]
        /\ pc' = [pc EXCEPT ![w] = "execute"] /\ pc[w] = "next"
        /\ UNCHANGED << reserved, inFlight, active, closed, callerDone, outcome, done, invoked >>
    BY <1>1 DEF Take, Goto, States
  <1> HIDE DEF i, t
  <1>3. state \in [Item -> States] /\ active \subseteq Item /\ active' = active
    BY <1>2 DEF TypeOK
  <1>4. /\ \A j \in Item : state'[j] = IF j = i THEN t ELSE state[j]
        /\ \A v \in Worker : holds'[v] = IF v = w THEN i ELSE holds[v]
        /\ \A v \in Worker : pc'[v] = IF v = w THEN "execute" ELSE pc[v]
    BY <1>1, <1>2, <1>3 DEF TypeOK
  <1>5. \A v \in Worker : holds[v] # i
    BY <1>1 DEF OneOwner, Held
  <1>6. i # NoItem /\ done[i] = << >> /\ invoked[i] = 0 /\ holds[w] = NoItem
    BY <1>1, <1>2, PoolAssumption DEF OneResult, StartedIsTrue, OneOwner
  <1>7. \A j \in Item : Held(j)' <=> Held(j) \/ j = i
    BY <1>1, <1>4, <1>6, PoolAssumption DEF Held
  <1>8. OneOwner'
    <2>1. \A v \in Worker : holds'[v] # NoItem <=> pc'[v] \in {"execute", "work", "finish"}
      BY <1>4, <1>6 DEF OneOwner
    <2>2. \A u, v \in Worker : holds'[u] = holds'[v] /\ holds'[u] # NoItem => u = v
      BY <1>4, <1>5 DEF OneOwner
    <2>3. \A j \in Item :
            /\ state'[j] \in {"none", "reserved", "released", "queued"} => ~Held(j)'
            /\ state'[j] \in {"running", "cancelling"} => Held(j)'
            /\ state'[j] = "finished" => (Held(j)' <=> done'[j] = << >>)
      BY <1>2, <1>4, <1>6, <1>7 DEF OneOwner
    <2> QED BY <2>1, <2>2, <2>3 DEF OneOwner
  <1>9. OneResult' /\ NoWorkerLost'
    BY <1>1, <1>2, <1>4, <1>6 DEF OneResult, NoWorkerLost
  <1>10. StartedIsTrue'
    <2>1. \A j \in Item :
            /\ invoked'[j] <= 1
            /\ state'[j] \notin {"running", "cancelling", "finished"} => invoked'[j] = 0
            /\ done'[j] # << >> => (done'[j][1].started <=> invoked'[j] = 1)
      BY <1>2, <1>4, <1>6 DEF StartedIsTrue
    <2>2. \A v \in Worker :
            /\ pc'[v] = "execute" => invoked'[holds'[v]] = 0
            /\ pc'[v] = "work" => invoked'[holds'[v]] = 1
            /\ pc'[v] = "finish" => (outcome'[v].started <=> invoked'[holds'[v]] = 1)
      BY <1>2, <1>4, <1>6 DEF StartedIsTrue
    <2> QED BY <2>1, <2>2 DEF StartedIsTrue
  <1>11. QueueRight'
    <2>1. InState({"queued"})' = InState({"queued"}) \ {i}
      BY <1>2, <1>4 DEF InState
    <2> QED BY <1>1, <2>1 DEF QueueRight
  <1>12. TypeOK'
    <2>1. running' \in Nat
      BY <1>2 DEF TypeOK
    <2> QED BY <1>1, <1>2, <2>1 DEF TypeOK, Queues
  <1>13. CountersRight'
    <2>1. /\ ReservedCount' = ReservedCount + (IF t = "reserved" THEN 1 ELSE 0)
                                             - (IF state[i] = "reserved" THEN 1 ELSE 0)
          /\ RunningCount' = RunningCount + (IF t \in {"running", "cancelling"} THEN 1 ELSE 0)
                                           - (IF state[i] \in {"running", "cancelling"} THEN 1 ELSE 0)
      BY <1>1, <1>2, <1>3, CountsMove
    <2>2. /\ ReservedCount' = ReservedCount
          /\ RunningCount' = IF t = "running" THEN RunningCount + 1 ELSE RunningCount
      BY <1>1, <1>2, <1>3, <2>1, Numbers
    <2>3. RunningCount' <= WorkerLimit
      <3>1. \A j \in InState({"running", "cancelling"})' : \E v \in Worker : holds'[v] = j
        BY <1>8 DEF OneOwner, Held, InState
      <3> QED BY <3>1, HeldBound DEF RunningCount
    <2> QED BY <1>2, <1>3, <2>2, <2>3, Numbers DEF CountersRight
  <1> QED BY <1>8, <1>9, <1>10, <1>11, <1>12, <1>13

\* The check before Work, and the call of Work.
LEMMA ExecuteInv ==
    ASSUME PoolInv, NEW w \in Worker, Execute(w) PROVE PoolInv'
  <1> USE DEF PoolInv
  <1> DEFINE i == holds[w]
  <1>1. pc[w] = "execute" /\ i \in Item /\ invoked[i] = 0
    BY DEF Execute, OneOwner, StartedIsTrue, TypeOK
  <1>2. UNCHANGED << queue, reserved, running, inFlight, active, closed, state, callerDone, holds, done >>
    BY DEF Execute
  <1>3. \/ /\ outcome' = [outcome EXCEPT ![w] = CancelledResult]
           /\ pc' = [pc EXCEPT ![w] = "finish"] /\ invoked' = invoked
        \/ /\ invoked' = [invoked EXCEPT ![i] = 1]
           /\ pc' = [pc EXCEPT ![w] = "work"] /\ outcome' = outcome /\ ~SkipsWork(i)
    BY <1>1 DEF Execute, Goto, TypeOK
  <1>4. CancelledResult \in Result /\ CancelledResult.started = FALSE
    BY DEF CancelledResult, Result, Errors
  <1>5. state[i] \in {"running", "cancelling", "finished"}
        /\ (\A v \in Worker : v # w => holds[v] # i) /\ (state[i] = "finished" => done[i] = << >>)
    <2>1. Held(i) /\ state[i] \in States /\ i # NoItem
      BY <1>1, PoolAssumption DEF Held, TypeOK
    <2>2. state[i] \notin {"none", "reserved", "released", "queued"}
      BY <1>1, <2>1 DEF OneOwner
    <2> QED BY <1>1, <2>1, <2>2 DEF OneOwner, States
  <1>6. done[i] = << >>
    BY <1>1, <1>5 DEF OneResult
  <1> HIDE DEF i
  <1>7. TypeOK'
    <2>1. pc' \in [Worker -> {"next", "waiting", "execute", "work", "finish", "exited"}]
      BY <1>3 DEF TypeOK
    <2>2. outcome' \in [Worker -> Result]
      BY <1>3, <1>4 DEF TypeOK
    <2>3. invoked' \in [Item -> Nat]
      BY <1>3 DEF TypeOK
    <2> QED BY <1>2, <2>1, <2>2, <2>3 DEF TypeOK
  <1>8. \A S : InState(S)' = InState(S)
    BY <1>2 DEF InState
  <1>9. QueueRight' /\ CountersRight'
    BY <1>2, <1>8 DEF QueueRight, Represents, CountersRight, ReservedCount, RunningCount
  <1>10. \A v \in Worker : IF v = w THEN pc'[v] \in {"finish", "work"} ELSE pc'[v] = pc[v]
    BY <1>3 DEF TypeOK
  <1>11. OneOwner' /\ OneResult' /\ NoWorkerLost'
    BY <1>1, <1>2, <1>10 DEF OneOwner, Held, OneResult, NoWorkerLost
  <1>12. StartedIsTrue'
    <2>1. CASE invoked' = invoked /\ pc' = [pc EXCEPT ![w] = "finish"] /\ outcome' = [outcome EXCEPT ![w] = CancelledResult]
      BY <1>1, <1>2, <1>4, <2>1 DEF StartedIsTrue, TypeOK, i
    <2>2. CASE invoked' = [invoked EXCEPT ![i] = 1] /\ pc' = [pc EXCEPT ![w] = "work"] /\ outcome' = outcome
      <3>1. \A j \in Item : invoked'[j] = IF j = i THEN 1 ELSE invoked[j]
        BY <2>2 DEF TypeOK
      <3>2. \A v \in Worker : pc'[v] = IF v = w THEN "work" ELSE pc[v]
        BY <2>2 DEF TypeOK
      <3>3. \A v \in Worker : pc'[v] \in {"execute", "work", "finish"} => holds[v] \in Item
        BY <1>1, <3>2 DEF OneOwner, TypeOK
      <3>4. \A v \in Worker :
              /\ pc'[v] = "execute" => invoked'[holds'[v]] = 0
              /\ pc'[v] = "work" => invoked'[holds'[v]] = 1
              /\ pc'[v] = "finish" => (outcome'[v].started <=> invoked'[holds'[v]] = 1)
        BY <1>2, <1>5, <2>2, <3>1, <3>2, <3>3 DEF StartedIsTrue, i
      <3>5. \A j \in Item :
              /\ invoked'[j] <= 1
              /\ state'[j] \notin {"running", "cancelling", "finished"} => invoked'[j] = 0
              /\ done'[j] # << >> => (done'[j][1].started <=> invoked'[j] = 1)
        BY <1>2, <1>5, <1>6, <3>1 DEF StartedIsTrue
      <3> QED BY <3>4, <3>5 DEF StartedIsTrue
    <2> QED BY <1>3, <2>1, <2>2
  <1> QED BY <1>7, <1>9, <1>11, <1>12

\* Work returns: the outcome says it was started.
LEMMA WorkReturnsInv ==
    ASSUME PoolInv, NEW w \in Worker, NEW err \in Errors, WorkReturns(w, err) PROVE PoolInv'
  <1> USE DEF PoolInv
  <1> DEFINE cancelled == state[holds[w]] = "cancelling"
             r == [started |-> TRUE, cancelled |-> cancelled, err |-> IF cancelled THEN "canceled" ELSE err]
  <1>1. /\ pc[w] = "work" /\ pc' = [pc EXCEPT ![w] = "finish"]
        /\ outcome' = [outcome EXCEPT ![w] = r]
        /\ UNCHANGED << queue, reserved, running, inFlight, active, closed, state,
                        callerDone, holds, done, invoked >>
    BY DEF WorkReturns, Goto
  <1>2. r \in Result /\ r.started = TRUE
    BY DEF Result, Errors
  <1> HIDE DEF r
  <1>3. TypeOK'
    BY <1>1, <1>2 DEF TypeOK
  <1>4. \A S : InState(S)' = InState(S)
    BY <1>1 DEF InState
  <1>5. QueueRight' /\ CountersRight'
    BY <1>1, <1>4 DEF QueueRight, Represents, CountersRight, ReservedCount, RunningCount
  <1>6. /\ \A v \in Worker : pc'[v] = IF v = w THEN "finish" ELSE pc[v]
        /\ \A v \in Worker : outcome'[v] = IF v = w THEN r ELSE outcome[v]
    BY <1>1 DEF TypeOK
  <1>7. OneOwner' /\ OneResult' /\ NoWorkerLost'
    BY <1>1, <1>6 DEF OneOwner, Held, OneResult, NoWorkerLost
  <1>8. StartedIsTrue'
    BY <1>1, <1>2, <1>6 DEF StartedIsTrue
  <1> QED BY <1>3, <1>5, <1>7, <1>8

\* The item a worker finishes is still active: its place is freed and its
\* result sent.
LEMMA FinishInv ==
    ASSUME PoolInv, NEW w \in Worker, Finish(w) PROVE PoolInv'
  <1> USE DEF PoolInv
  <1> DEFINE i == holds[w]
             r == outcome[w]
  <1>1. pc[w] = "finish" /\ i \in Item /\ i # NoItem /\ r \in Result /\ (r.started <=> invoked[i] = 1)
    BY PoolAssumption DEF Finish, OneOwner, StartedIsTrue, TypeOK
  <1>2. /\ state[i] \in {"running", "cancelling", "finished"} /\ done[i] = << >> /\ i \in active
        /\ \A v \in Worker : v # w => holds[v] # i
    <2>1. Held(i) /\ state[i] \in States
      BY <1>1 DEF Held, TypeOK
    <2>2. state[i] \notin {"none", "reserved", "released", "queued"}
      BY <1>1, <2>1 DEF OneOwner
    <2>3. done[i] = << >>
      BY <1>1, <2>1, <2>2 DEF OneOwner, OneResult, States
    <2> QED BY <1>1, <2>1, <2>2, <2>3 DEF OneOwner, OneResult, States
  <1>3. /\ state' = [state EXCEPT ![i] = "finished"]
        /\ running' = IF state[i] \in {"running", "cancelling"} THEN running - 1 ELSE running
        /\ holds' = [holds EXCEPT ![w] = NoItem]
        /\ outcome' = [outcome EXCEPT ![w] = CancelledResult]
        /\ pc' = [pc EXCEPT ![w] = "next"]
        /\ UNCHANGED << queue, reserved, closed, callerDone, invoked >>
    BY DEF Finish, Goto
  <1>4. /\ active' = active \ {i} /\ inFlight' = inFlight - 1
        /\ done' = [j \in Item |-> IF j = i THEN << r >> ELSE done[j]]
    <2>1. {i} \cap active = {i} /\ Cardinality({i}) = 1
      BY <1>2, FS_Singleton
    <2>2. Append(<< >>, r) = << r >>
      OBVIOUS
    <2> QED BY <1>2, <2>1, <2>2 DEF Finish, FinishLocked
  <1>5. /\ << r >> \in Seq(Result) /\ Len(<< r >>) = 1 /\ << r >> # << >> /\ << r >>[1] = r
        /\ CancelledResult \in Result
    BY <1>1 DEF CancelledResult, Result, Errors
  <1> HIDE DEF i, r
  <1>6. state \in [Item -> States] /\ active \subseteq Item /\ "finished" \in States
    BY DEF TypeOK, States
  <1>7. /\ \A j \in Item : state'[j] = IF j = i THEN "finished" ELSE state[j]
        /\ \A j \in Item : done'[j] = IF j = i THEN << r >> ELSE done[j]
        /\ \A v \in Worker : holds'[v] = IF v = w THEN NoItem ELSE holds[v]
        /\ \A v \in Worker : pc'[v] = IF v = w THEN "next" ELSE pc[v]
        /\ \A v \in Worker : v # w => outcome'[v] = outcome[v]
    BY <1>3, <1>4 DEF TypeOK
  <1>8. \A j \in Item : Held(j)' <=> Held(j) /\ j # i
    <2>1. holds[w] = i /\ \A j \in Item : j # NoItem
      BY PoolAssumption DEF i
    <2> QED BY <1>2, <1>7, <2>1 DEF Held
  <1>9. OneOwner'
    <2>1. \A v \in Worker : holds'[v] # NoItem <=> pc'[v] \in {"execute", "work", "finish"}
      BY <1>7 DEF OneOwner
    <2>2. \A u, v \in Worker : holds'[u] = holds'[v] /\ holds'[u] # NoItem => u = v
      BY <1>7 DEF OneOwner
    <2>3. \A j \in Item :
            /\ state'[j] \in {"none", "reserved", "released", "queued"} => ~Held(j)'
            /\ state'[j] \in {"running", "cancelling"} => Held(j)'
            /\ state'[j] = "finished" => (Held(j)' <=> done'[j] = << >>)
      BY <1>5, <1>7, <1>8 DEF OneOwner
    <2> QED BY <2>1, <2>2, <2>3 DEF OneOwner
  <1>10. OneResult' /\ NoWorkerLost'
    BY <1>2, <1>3, <1>4, <1>5, <1>7 DEF OneResult, NoWorkerLost
  <1>11. StartedIsTrue'
    <2>1. \A j \in Item :
            /\ invoked'[j] <= 1
            /\ state'[j] \notin {"running", "cancelling", "finished"} => invoked'[j] = 0
            /\ done'[j] # << >> => (done'[j][1].started <=> invoked'[j] = 1)
      BY <1>1, <1>3, <1>5, <1>7 DEF StartedIsTrue
    <2>2. \A v \in Worker :
            /\ pc'[v] = "execute" => invoked'[holds'[v]] = 0
            /\ pc'[v] = "work" => invoked'[holds'[v]] = 1
            /\ pc'[v] = "finish" => (outcome'[v].started <=> invoked'[holds'[v]] = 1)
      BY <1>3, <1>7 DEF StartedIsTrue
    <2> QED BY <2>1, <2>2 DEF StartedIsTrue
  <1>12. QueueRight'
    <2>1. InState({"queued"})' = InState({"queued"})
      BY <1>2, <1>7 DEF InState
    <2> QED BY <1>3, <2>1 DEF QueueRight, Represents
  <1>13. CountersRight' /\ running' \in Nat /\ inFlight' \in Nat
    <2>1. /\ RunningCount' \in Nat
          /\ ReservedCount' = ReservedCount + (IF "finished" = "reserved" THEN 1 ELSE 0)
                                             - (IF state[i] = "reserved" THEN 1 ELSE 0)
          /\ RunningCount' = RunningCount + (IF "finished" \in {"running", "cancelling"} THEN 1 ELSE 0)
                                           - (IF state[i] \in {"running", "cancelling"} THEN 1 ELSE 0)
      BY <1>1, <1>3, <1>6, CountsMove
    <2>2. /\ ReservedCount' = ReservedCount
          /\ RunningCount' = IF state[i] \in {"running", "cancelling"} THEN RunningCount - 1 ELSE RunningCount
      BY <1>2, <1>6, <2>1, Numbers
    <2>3. Cardinality(active') = Cardinality(active) - 1 /\ Cardinality(active') \in Nat
      BY <1>2, <1>4, <1>6, CountsFinite, FS_RemoveElement, FS_CardinalityType
    <2> QED BY <1>3, <1>4, <1>6, <2>1, <2>2, <2>3, Numbers DEF CountersRight
  <1>14. TypeOK'
    <2>1. done' \in [Item -> Seq(Result)]
      BY <1>4, <1>5 DEF TypeOK
    <2> QED BY <1>3, <1>4, <1>5, <1>6, <1>13, <2>1 DEF TypeOK
  <1> QED BY <1>9, <1>10, <1>11, <1>12, <1>13, <1>14

-----------------------------------------------------------------------------
(* The theorems *)

\* The invariant of the pool holds in every reachable state: its counters count
\* what they claim and never pass the configured bounds, its queue is the set
\* of queued items, every item has one owner and one result, and no worker is
\* lost, for any number of items, projects and workers.
THEOREM PoolInvariant == PoolSafety => []PoolInv
  <1>1. PoolInit => PoolInv
    BY InitInv
  <1>2. PoolInv /\ [PoolNext]_poolVars => PoolInv'
    <2> SUFFICES ASSUME PoolInv, [PoolNext]_poolVars PROVE PoolInv'
      OBVIOUS
    <2>1. ASSUME NEW i \in Item, ClientStep(i) PROVE PoolInv'
      BY <2>1, ReserveInv, GiveBackInv, StartReservedInv, CancelQueuedInv, CancelRunningInv
      DEF ClientStep, Release, StartRefused, Cancel
    <2>2. CASE ClosePool
      BY <2>2, ClosePoolInv
    <2>3. ASSUME NEW w \in Worker, WorkerStep(w) PROVE PoolInv'
      BY <2>3, PoolAssumption, WaitInv, ExitInv, TakeInv, ExecuteInv, WorkReturnsInv, FinishInv DEF WorkerStep
    <2>4. CASE UNCHANGED poolVars
      <3>1. \A S : InState(S)' = InState(S)
        BY <2>4 DEF poolVars, InState
      <3> QED
        BY <2>4, <3>1 DEF PoolInv, poolVars, TypeOK, QueueRight, Represents, OneOwner, Held, OneResult,
           CountersRight, ReservedCount, RunningCount, StartedIsTrue, NoWorkerLost
    <2>5. ASSUME NEW items \in SUBSET Item, CancelCallers(items) PROVE PoolInv'
      BY <2>5, CancelCallersInv
    <2> QED BY <2>1, <2>2, <2>3, <2>4, <2>5 DEF PoolNext
  <1> QED BY <1>1, <1>2, PTL DEF PoolSafety

\* Every variable keeps its type.
THEOREM PoolTyped == PoolSafety => []TypeOK
  BY PoolInvariant, PTL DEF PoolInv

\* Admission and execution stay within WorkerLimit and QueueCapacity, and
\* PoolStats is exact.
THEOREM PoolBounded == PoolSafety => []CountersRight
  BY PoolInvariant, PTL DEF PoolInv

\* An item is never in the hands of two workers.
THEOREM PoolOneOwner == PoolSafety => []OneOwner
  BY PoolInvariant, PTL DEF PoolInv

\* An accepted item is sent at most one result.
THEOREM PoolOneResult == PoolSafety => []OneResult
  BY PoolInvariant, PTL DEF PoolInv

\* The fair queue and the states of the items agree.
THEOREM PoolQueueRight == PoolSafety => []QueueRight
  BY PoolInvariant, PTL DEF PoolInv

\* Started is reported exactly for the items whose Work was called, once.
THEOREM PoolStartedIsTrue == PoolSafety => []StartedIsTrue
  BY PoolInvariant, PTL DEF PoolInv

\* No worker leaves an open pool.
THEOREM PoolKeepsWorkers == PoolSafety => []NoWorkerLost
  BY PoolInvariant, PTL DEF PoolInv

\* In a closed pool nothing is queued and nothing runs uncancelled.
THEOREM PoolShutDown == PoolSafety => []ShutDown
  <1>1. PoolInit => ShutDown
    BY DEF PoolInit, ShutDown
  <1>2. PoolInv /\ ShutDown /\ [PoolNext]_poolVars => ShutDown'
    <2> SUFFICES ASSUME PoolInv, ShutDown, [PoolNext]_poolVars, closed' PROVE InState({"queued", "running"})' = {}
      BY DEF ShutDown
    <2>1. CASE ClosePool
      <3>1. Drained(queue) = InState({"queued"})
        <4>1. queue \in Queues /\ InState({"queued"}) \in SUBSET Item
          BY DEF PoolInv, TypeOK, Queues, InState
        <4> QED BY <4>1, DrainedAll DEF PoolInv, QueueRight
      <3>2. state' = [i \in Item |-> IF i \in InState({"queued"}) THEN "finished"
                                     ELSE IF i \in active /\ state[i] = "running" THEN "cancelling"
                                     ELSE state[i]]
        BY <2>1, <3>1 DEF ClosePool
      <3> QED BY <3>2 DEF InState, PoolInv, OneResult
    <2>2. ASSUME NEW i \in Item, ClientStep(i) PROVE InState({"queued", "running"})' = {}
      <3>1. closed /\ InState({"queued", "running"}) = {}
        BY <2>2 DEF ShutDown, ClientStep, Reserve, Release, StartRefused, GiveBack, StartReserved,
                    Cancel, CancelQueued, CancelRunning
      <3>2. \A j \in Item : state'[j] \in {"queued", "running"} => state[j] \in {"queued", "running"}
        BY <2>2, <3>1 DEF ClientStep, Reserve, Release, StartRefused, GiveBack, StartReserved,
                    Cancel, CancelQueued, CancelRunning, PoolInv, TypeOK
      <3> QED BY <3>1, <3>2 DEF InState
    <2>3. ASSUME NEW w \in Worker, WorkerStep(w) PROVE InState({"queued", "running"})' = {}
      <3>1. closed /\ InState({"queued", "running"}) = {}
        BY <2>3 DEF ShutDown, WorkerStep, Wait, Exit, Take, Execute, WorkReturns, Finish
      <3>2. ~Take(w)
        <4>1. InState({"queued"}) = {}
          BY <3>1 DEF InState
        <4>2. queue.length = 0
          BY <4>1, FS_EmptySet DEF PoolInv, QueueRight, Represents
        <4> QED BY <4>2 DEF Take
      <3>3. \A j \in Item : state'[j] \in {"queued", "running"} => state[j] \in {"queued", "running"}
        BY <2>3, <3>2 DEF WorkerStep, Wait, Exit, Execute, WorkReturns, Finish, PoolInv, TypeOK
      <3> QED BY <3>1, <3>3 DEF InState
    <2>4. CASE UNCHANGED poolVars
      BY <2>4 DEF poolVars, ShutDown, InState
    <2>5. ASSUME NEW items \in SUBSET Item, CancelCallers(items) PROVE InState({"queued", "running"})' = {}
      BY <2>5 DEF CancelCallers, ShutDown, InState
    <2> QED BY <2>1, <2>2, <2>3, <2>4, <2>5 DEF PoolNext
  <1> QED BY <1>1, <1>2, PoolInvariant, PTL DEF PoolSafety

\* Work is only called for an item no cancellation has reached, in an open pool.
THEOREM PoolCancelledNeverInvoked == PoolSafety => CancelledNeverInvoked
  <1>1. PoolInv /\ ShutDown /\ [PoolNext]_poolVars =>
          [\A i \in Item : invoked'[i] # invoked[i] => state[i] = "running" /\ ~callerDone[i] /\ ~closed]_poolVars
    <2> SUFFICES ASSUME PoolInv, ShutDown, PoolNext, NEW i \in Item, invoked'[i] # invoked[i]
                 PROVE  state[i] = "running" /\ ~callerDone[i] /\ ~closed
      OBVIOUS
    <2>1. PICK w \in Worker : Execute(w)
      BY DEF PoolNext, ClientStep, Reserve, Release, StartRefused, GiveBack, StartReserved, Cancel,
             CancelQueued, CancelRunning, CancelCallers, ClosePool, WorkerStep, Wait, Exit, Take,
             WorkReturns, Finish
    <2>2. i = holds[w] /\ ~SkipsWork(i)
      BY <2>1 DEF Execute, PoolInv, TypeOK
    <2>3. Held(i) /\ state[i] \in States
      BY <2>2 DEF Held, PoolInv, TypeOK
    <2>4. state[i] = "running" /\ ~callerDone[i]
      BY <2>2, <2>3 DEF SkipsWork, CtxErr, PoolInv, OneOwner, States
    <2> QED BY <2>4 DEF ShutDown, InState
  <1> QED BY <1>1, PoolInvariant, PoolShutDown, PTL DEF PoolSafety, CancelledNeverInvoked

=============================================================================
