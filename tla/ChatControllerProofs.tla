------------------------ MODULE ChatControllerProofs ------------------------
(***************************************************************************)
(* What ChatController guarantees for every number of messages, rounds and *)
(* crashes: the types, the one agent loop and the queue that serves every  *)
(* message, and the order in which messages get their turns.               *)
(***************************************************************************)
EXTENDS ChatController, FiniteSetTheorems, SequenceTheorems, TLAPS

Rows == {"unsent", "queued", "done", "deleted"}
Entry == [id : Message, state : {"queued", "processing"}, text : {0, 1}]
Answer == [of : Message, status : {"done", "aborted"}]

\* Messages stand in a queue in the order they were sent.
Line(q) == \A j, k \in DOMAIN q : j < k => q[j].id < q[k].id

\* The agent loop that runs is that of the current message, the newest one started.
OneLoop ==
    /\ \A m \in Message : turn[m] # "idle" <=> m = current
    /\ current # None => current = last

\* The queue is in line; its processing item is the running turn's, and a queue
\* without a running turn is empty.
Ordered ==
    /\ Line(items)
    /\ \A k \in DOMAIN items : items[k].state = "processing" <=> items[k].id = current
    /\ current # None => \E k \in DOMAIN items : items[k].id = current
    /\ current = None => items = << >>

\* A conversation has its controller exactly while a turn runs; what is deleted has
\* no queued row.
Controlled ==
    /\ exists => (held <=> current # None)
    /\ ~exists => ~held /\ \A m \in Message : row[m] # "queued"

\* Every queued row is a waiting item of q, with its content.
Restored(q, r) == \A m \in Message : r[m] = "queued" => \E k \in DOMAIN q : q[k] = Item(m, "queued")

\* Messages are numbered as they are sent, and what waits was sent after the newest
\* message that got its turn.
Numbering(q, r, l) ==
    /\ \A m, n \in Message : m < n /\ r[n] # "unsent" => r[m] # "unsent"
    /\ \A m \in Message : r[m] = "queued" => m > l
    /\ \A k \in DOMAIN q : r[q[k].id] # "unsent" /\ (q[k].state = "queued" => q[k].id > l)
    /\ l # 0 => r[l] # "unsent"

\* What a step may do to the turns: see TurnsInOrder.
TurnsStep ==
    \A m \in Message : turn[m] = "idle" /\ turn'[m] # "idle" => m > last /\ \A n \in 1 .. m : row'[n] # "queued"

ChatInv ==
    /\ ChatTypeOK /\ OneLoop /\ Ordered /\ Controlled
    /\ held => Restored(items, row)
    /\ Numbering(items, row, last)
-----------------------------------------------------------------------------
(* The operators *)

LEMMA ChatConstants == MaxMessages \in Nat /\ MaxRounds \in Nat \ {0} /\ MaxFaults \in Nat /\ None \notin Message
BY ChatAssumption DEF Message

\* Ascending lists a finite set of numbers from the smallest to the greatest.
LEMMA AscendingLists ==
  ASSUME NEW S \in SUBSET Nat, IsFiniteSet(S)
  PROVE  /\ Cardinality(S) \in Nat
         /\ Ascending(S) \in [1 .. Cardinality(S) -> S]
         /\ \A i, j \in 1 .. Cardinality(S) : i < j => Ascending(S)[i] < Ascending(S)[j]
         /\ \A x \in S : \E i \in 1 .. Cardinality(S) : Ascending(S)[i] = x
<1> DEFINE c == Cardinality(S)
           Upto(k) == { j \in S : j <= k }
           rank == [k \in S |-> Cardinality(Upto(k))]
<1>1. c \in Nat
  BY FS_CardinalityType
<1>2. ASSUME NEW k \in S
      PROVE  IsFiniteSet(Upto(k)) /\ Cardinality(Upto(k)) \in 1 .. c
  <2>1. IsFiniteSet(Upto(k)) /\ Cardinality(Upto(k)) <= c
    BY FS_Subset
  <2>2. Cardinality(Upto(k)) \in Nat
    BY <2>1, FS_CardinalityType
  <2>3. Cardinality(Upto(k)) # 0
    BY <2>1, FS_EmptySet
  <2> QED
    BY <1>1, <2>1, <2>2, <2>3
<1>3. ASSUME NEW j \in S, NEW k \in S, j < k PROVE Cardinality(Upto(j)) < Cardinality(Upto(k))
  <2>0. j \in Nat /\ k \in Nat /\ S \subseteq Nat
    OBVIOUS
  <2>1. Upto(j) \subseteq Upto(k) /\ k \in Upto(k) /\ k \notin Upto(j)
    <3>1. \A i \in S : i <= j => i <= k
      BY <1>3, <2>0
    <3>2. k <= k /\ ~(k <= j)
      BY <1>3, <2>0
    <3> QED
      BY <3>1, <3>2
  <2>2. Cardinality(Upto(j)) <= Cardinality(Upto(k)) /\ Cardinality(Upto(j)) # Cardinality(Upto(k))
    BY <1>2, <2>1, FS_Subset
  <2> QED
    BY <1>2, <2>2
<1>4. rank \in Surjection(S, 1 .. c)
  <2>1. rank \in [S -> 1 .. c]
    BY <1>2
  <2>2. ASSUME NEW j \in S, NEW k \in S, rank[j] = rank[k] PROVE j = k
    <3>1. Cardinality(Upto(j)) = Cardinality(Upto(k)) /\ Cardinality(Upto(j)) \in Nat
      BY <1>1, <1>2, <2>2
    <3>2. ~(j < k) /\ ~(k < j)
      BY <1>3, <3>1
    <3> QED
      BY <3>2
  <2>3. rank \in Injection(S, 1 .. c)
    BY <2>1, <2>2 DEF Injection, IsInjective
  <2>4. IsFiniteSet(1 .. c) /\ Cardinality(1 .. c) = c
    BY <1>1, FS_Interval
  <2> QED
    BY <2>3, <2>4, FS_Injection
<1>5. \A n \in 1 .. c : \E k \in S : Cardinality(Upto(k)) = n
  BY <1>4 DEF Surjection
<1>6. \A n \in 1 .. c : Ascending(S)[n] \in S /\ Cardinality(Upto(Ascending(S)[n])) = n
  BY <1>5 DEF Ascending
<1>7. Ascending(S) \in [1 .. c -> S]
  BY <1>6 DEF Ascending
<1>8. ASSUME NEW i \in 1 .. c, NEW j \in 1 .. c, i < j PROVE Ascending(S)[i] < Ascending(S)[j]
  <2>1. PICK a \in S : a = Ascending(S)[i] /\ Cardinality(Upto(a)) = i
    BY <1>6
  <2>2. PICK b \in S : b = Ascending(S)[j] /\ Cardinality(Upto(b)) = j
    BY <1>6
  <2>3. a # b /\ ~(b < a)
    <3>1. i \in Nat /\ j \in Nat /\ i < j
      BY <1>1, <1>8
    <3>2. b < a => j < i
      BY <1>3, <2>1, <2>2
    <3> QED
      BY <2>1, <2>2, <3>1, <3>2
  <2>4. a \in Nat /\ b \in Nat
    OBVIOUS
  <2> QED
    BY <2>1, <2>2, <2>3, <2>4
<1>9. ASSUME NEW x \in S PROVE \E i \in 1 .. c : Ascending(S)[i] = x
  <2>1. PICK i \in 1 .. c : i = Cardinality(Upto(x))
    BY <1>2
  <2>2. PICK y \in S : y = Ascending(S)[i] /\ Cardinality(Upto(y)) = i
    BY <1>6
  <2>3. ~(x < y) /\ ~(y < x)
    <3>1. i \in Nat
      BY <1>1
    <3>2. (x < y => i < i) /\ (y < x => i < i)
      BY <1>3, <2>1, <2>2
    <3> QED
      BY <3>1, <3>2
  <2>4. x \in Nat /\ y \in Nat
    OBVIOUS
  <2> QED
    BY <2>2, <2>3, <2>4
<1> QED
  BY <1>1, <1>7, <1>8, <1>9

\* Positions of a sequence are finitely many numbers.
LEMMA Positions ==
  ASSUME NEW T, NEW q \in Seq(T), NEW K \in SUBSET DOMAIN q
  PROVE  K \in SUBSET Nat /\ IsFiniteSet(K)
<1>1. PICK n \in Nat : n = Len(q)
  OBVIOUS
<1>2. K \subseteq 1 .. n
  BY <1>1
<1>3. IsFiniteSet(1 .. n)
  BY FS_Interval
<1> QED
  BY <1>2, <1>3, FS_Subset

\* Kept takes the items at the positions it is given, in their order.
LEMMA KeptItems ==
  ASSUME NEW T, NEW q \in Seq(T), NEW K \in SUBSET DOMAIN q
  PROVE  /\ Kept(q, K) \in Seq(T)
         /\ \A i \in DOMAIN Kept(q, K) : \E k \in K : Kept(q, K)[i] = q[k]
         /\ \A k \in K : \E i \in DOMAIN Kept(q, K) : Kept(q, K)[i] = q[k]
<1>1. DOMAIN q = 1 .. Len(q) /\ Len(q) \in Nat
  OBVIOUS
<1>2. K \in SUBSET Nat /\ IsFiniteSet(K)
  BY Positions
<1>3. PICK c \in Nat : c = Cardinality(K)
  BY <1>2, AscendingLists
<1>4. /\ Ascending(K) \in [1 .. c -> K]
      /\ \A x \in K : \E i \in 1 .. c : Ascending(K)[i] = x
  BY <1>2, <1>3, AscendingLists
<1>5. Kept(q, K) = [n \in 1 .. c |-> q[Ascending(K)[n]]]
  BY <1>3 DEF Kept
<1>6. \A n \in 1 .. c : q[Ascending(K)[n]] \in T
  BY <1>1, <1>4
<1>7. Kept(q, K) \in Seq(T) /\ DOMAIN Kept(q, K) = 1 .. c
  BY <1>5, <1>6
<1>8. \A n \in 1 .. c : Ascending(K)[n] \in K /\ Kept(q, K)[n] = q[Ascending(K)[n]]
  BY <1>4, <1>5
<1>9. \A k \in K : \E n \in 1 .. c : Kept(q, K)[n] = q[k]
  BY <1>4, <1>5
<1> QED
  BY <1>7, <1>8, <1>9

\* So what is kept of a line is a line.
LEMMA KeptLine ==
  ASSUME NEW q \in Seq(Entry), NEW K \in SUBSET DOMAIN q, Line(q)
  PROVE  Line(Kept(q, K))
<1>1. DOMAIN q = 1 .. Len(q) /\ Len(q) \in Nat
  OBVIOUS
<1>2. K \in SUBSET Nat /\ IsFiniteSet(K)
  BY Positions
<1>3. PICK c \in Nat : c = Cardinality(K)
  BY <1>2, AscendingLists
<1>4. /\ Ascending(K) \in [1 .. c -> K]
      /\ \A i, j \in 1 .. c : i < j => Ascending(K)[i] < Ascending(K)[j]
  BY <1>2, <1>3, AscendingLists
<1>5. Kept(q, K) = [n \in 1 .. c |-> q[Ascending(K)[n]]]
  BY <1>3 DEF Kept
<1> QED
  BY <1>4, <1>5 DEF Line

\* The next item of a queue in line is the oldest that waits.
LEMMA FirstIsOldest ==
  ASSUME NEW q \in Seq(Entry), Line(q), Queued(q) # {}
  PROVE  /\ FirstOf(q) \in Queued(q)
         /\ \A k \in Queued(q) : q[FirstOf(q)].id <= q[k].id
<1>1. DOMAIN q = 1 .. Len(q) /\ Len(q) \in Nat /\ Queued(q) \subseteq DOMAIN q
  BY DEF Queued
<1>2. Queued(q) \in SUBSET Nat /\ IsFiniteSet(Queued(q))
  BY <1>1, Positions
<1>3. PICK c \in Nat : c = Cardinality(Queued(q))
  BY <1>2, AscendingLists
<1>4. /\ Ascending(Queued(q)) \in [1 .. c -> Queued(q)]
      /\ \A i, j \in 1 .. c : i < j => Ascending(Queued(q))[i] < Ascending(Queued(q))[j]
      /\ \A x \in Queued(q) : \E i \in 1 .. c : Ascending(Queued(q))[i] = x
  BY <1>2, <1>3, AscendingLists
<1>5. 1 \in 1 .. c
  BY <1>4
<1>6. PICK f \in Queued(q) : f = Ascending(Queued(q))[1]
  BY <1>4, <1>5
<1>7. ASSUME NEW k \in Queued(q) PROVE f <= k
  <2>1. PICK i \in 1 .. c : Ascending(Queued(q))[i] = k
    BY <1>4
  <2>2. CASE i = 1
    BY <1>2, <1>6, <2>1, <2>2
  <2>3. CASE 1 < i
    <3>1. f < k
      BY <1>4, <1>5, <1>6, <2>1, <2>3
    <3>2. f \in Nat /\ k \in Nat
      BY <1>2
    <3> QED
      BY <3>1, <3>2
  <2> QED
    BY <2>1, <2>2, <2>3
<1>8. FirstOf(q) \in Queued(q) /\ \A k \in Queued(q) : FirstOf(q) <= k
  BY <1>7 DEF FirstOf
<1>9. PICK g \in Queued(q) : g = FirstOf(q) /\ \A k \in Queued(q) : g <= k
  BY <1>8
<1>10. ASSUME NEW k \in Queued(q) PROVE q[g].id <= q[k].id
  <2>1. g \in DOMAIN q /\ k \in DOMAIN q /\ g \in Nat /\ k \in Nat /\ g <= k
    BY <1>1, <1>2, <1>9
  <2>2. q[g].id \in Nat /\ q[k].id \in Nat
    <3>1. q[g] \in Entry /\ q[k] \in Entry
      BY <1>1, <2>1
    <3> QED
      BY <3>1 DEF Entry, Message
  <2>3. CASE g = k
    BY <2>2, <2>3
  <2>4. CASE g < k
    BY <2>1, <2>2, <2>4 DEF Line
  <2> QED
    BY <2>1, <2>3, <2>4
<1> QED
  BY <1>8, <1>9, <1>10

\* Rows taken out of the queue.
LEMMA DoneRows ==
  ASSUME NEW r \in [Message -> Rows], NEW ms
  PROVE  /\ Done(r, ms) \in [Message -> Rows]
         /\ \A m \in Message : /\ Done(r, ms)[m] = "unsent" <=> r[m] = "unsent"
                               /\ Done(r, ms)[m] = "queued" <=> r[m] = "queued" /\ m \notin ms
BY DEF Done, Rows
-----------------------------------------------------------------------------
(* The dispatch of the queue *)

Awaited == {"idle", "llm", "codex", "title", "tool"}

\* A queue that only waits, in a conversation where no turn runs: what it can dispatch.
Ready(q, r, t, n, ex) ==
    /\ q \in Seq(Entry) /\ Line(q) /\ Queued(q) = DOMAIN q
    /\ r \in [Message -> Rows] /\ Numbering(q, r, last) /\ Restored(q, r)
    /\ t = [m \in Message |-> "idle"] /\ n \in [Message -> 0 .. MaxRounds]
    /\ ex \subseteq Message /\ last \in Message \cup {0}

\* What the dispatch leaves behind.
Dispatched ==
    /\ items' \in Seq(Entry) /\ row' \in [Message -> Rows] /\ current' \in Message \cup {None}
    /\ turn' \in [Message -> Awaited] /\ round' \in [Message -> 0 .. MaxRounds]
    /\ extra' \subseteq Message /\ last' \in Message \cup {0}
    /\ OneLoop' /\ Ordered' /\ Numbering(items', row', last')
    /\ current' = None => \A m \in Message : row'[m] # "queued"
    /\ Restored(items', row')
    /\ \A m \in Message : turn'[m] # "idle" => m > last /\ \A k \in 1 .. m : row'[k] # "queued"

LEMMA RestServes ==
  ASSUME NEW q, NEW r, NEW t, NEW n, NEW ex, Ready(q, r, t, n, ex),
         Idle(q, None), Rest(q, r, None, ex), turn' = t, round' = n
  PROVE  Dispatched
<1> USE DEF Ready, Rest
<1>1. DOMAIN q = {} /\ DOMAIN q = 1 .. Len(q) /\ Len(q) \in Nat
  BY DEF Idle
<1>2. q = << >>
  BY <1>1
<1>3. \A m \in Message : r[m] # "queued"
  BY <1>1 DEF Restored
<1>4. None \notin Message
  BY ChatConstants
<1>5. OneLoop' /\ Ordered'
  BY <1>1, <1>2, <1>4 DEF OneLoop, Ordered, Line
<1>6. turn' \in [Message -> Awaited] /\ \A m \in Message : turn'[m] = "idle"
  BY DEF Awaited
<1> QED
  BY <1>3, <1>5, <1>6 DEF Dispatched

LEMMA FailServes ==
  ASSUME NEW q, NEW r, NEW t, NEW n, NEW ex, Ready(q, r, t, n, ex),
         ~Idle(q, None), FailAll(q, r, ex), turn' = t, round' = n
  PROVE  Dispatched
<1> USE DEF Ready, FailAll
<1>1. PICK l \in Nat : l = Len(q) /\ DOMAIN q = 1 .. l /\ l # 0
  BY DEF Idle
<1>a. \A k \in 1 .. l : q[k] \in Entry
  BY <1>1
<1>b. \A k \in 1 .. l : q[k].id \in Message /\ q[k].state = "queued"
  BY <1>1, <1>a DEF Entry, Queued
<1>2. /\ \A k \in 1 .. l : q[k] \in Entry /\ q[k].id \in Message /\ q[k].state = "queued"
      /\ \A m \in Waiting(q) : m \in Message
      /\ \A k \in 1 .. l : q[k].id \in Waiting(q)
  BY <1>1, <1>a, <1>b DEF Waiting
<1>3. PICK z \in Message : z = q[l].id /\ last' = z /\ r[z] # "unsent"
  BY <1>1, <1>2 DEF Last, Numbering
<1>4. \A m \in Message : row'[m] # "queued"
  <2> SUFFICES ASSUME NEW m \in Message, row'[m] = "queued" PROVE FALSE
    OBVIOUS
  <2>1. r[m] = "queued" /\ m \notin Waiting(q)
    BY DoneRows
  <2>2. PICK k \in DOMAIN q : q[k] = Item(m, "queued")
    BY <2>1 DEF Restored
  <2> QED
    BY <1>1, <1>2, <2>1, <2>2 DEF Item
<1>5. row' \in [Message -> Rows] /\ \A m \in Message : row'[m] = "unsent" <=> r[m] = "unsent"
  BY DoneRows
<1>6. Numbering(items', row', last')
  BY <1>3, <1>4, <1>5 DEF Numbering
<1>7. None \notin Message /\ current' = None /\ \A m \in Message : turn'[m] = "idle"
  BY ChatConstants
<1>8. OneLoop' /\ Ordered'
  BY <1>7 DEF OneLoop, Ordered, Line
<1>9. items' \in Seq(Entry) /\ Restored(items', row') /\ turn' \in [Message -> Awaited]
  BY <1>4 DEF Restored, Awaited
<1> QED
  BY <1>2, <1>3, <1>4, <1>5, <1>6, <1>7, <1>8, <1>9 DEF Dispatched

LEMMA BeginServes ==
  ASSUME NEW q, NEW r, NEW t, NEW n, NEW ex, Ready(q, r, t, n, ex),
         ~Idle(q, None), Begin(q, r, ex, t, n)
  PROVE  Dispatched
<1> USE DEF Ready
<1>1. PICK l \in Nat : l = Len(q) /\ DOMAIN q = 1 .. l
  OBVIOUS
<1>2. \A k \in 1 .. l : q[k] \in Entry /\ q[k].id \in Message /\ q[k].state = "queued"
  <2>1. \A k \in 1 .. l : q[k] \in Entry
    BY <1>1
  <2> QED
    BY <1>1, <2>1 DEF Entry, Queued
<1>3. PICK f \in 1 .. l : f = FirstOf(q) /\ \A k \in 1 .. l : q[f].id <= q[k].id
  BY <1>1, FirstIsOldest DEF Idle
<1>4. PICK m \in Message : m = q[f].id
  BY <1>2
<1>5. /\ items' = [q EXCEPT ![f].state = "processing"] /\ row' = Done(r, {m})
      /\ current' = m /\ last' = m /\ extra' = ex
      /\ round' = [n EXCEPT ![m] = 1]
  BY <1>3, <1>4 DEF Begin, Marked
<1>6. PICK backend \in {"llm", "codex"} : turn' = [t EXCEPT ![m] = backend]
  BY <1>3, <1>4 DEF Begin
<1>7. /\ items' \in Seq(Entry) /\ DOMAIN items' = 1 .. l
      /\ \A k \in 1 .. l : items'[k].id = q[k].id
      /\ items'[f].state = "processing" /\ \A k \in (1 .. l) \ {f} : items'[k] = q[k]
  <2>1. [q[f] EXCEPT !.state = "processing"] \in Entry /\ [q[f] EXCEPT !.state = "processing"].id = m
        /\ [q[f] EXCEPT !.state = "processing"].state = "processing"
    BY <1>2, <1>4 DEF Entry
  <2>2. items' = [q EXCEPT ![f] = [q[f] EXCEPT !.state = "processing"]]
    BY <1>1, <1>5
  <2> QED
    BY <1>1, <1>4, <2>1, <2>2
<1>8. \A k \in (1 .. l) \ {f} : q[k].id # m
  <2> SUFFICES ASSUME NEW k \in (1 .. l) \ {f} PROVE q[k].id # m
    OBVIOUS
  <2>1. q[k].id \in Nat /\ q[f].id \in Nat
    BY <1>2 DEF Message
  <2>2. k < f \/ f < k
    OBVIOUS
  <2>3. q[k].id < q[f].id \/ q[f].id < q[k].id
    BY <1>1, <2>2 DEF Line
  <2> QED
    BY <1>4, <2>1, <2>3
<1>9. /\ row' \in [Message -> Rows]
      /\ \A j \in Message : /\ row'[j] = "unsent" <=> r[j] = "unsent"
                            /\ row'[j] = "queued" <=> r[j] = "queued" /\ j # m
  <2>1. PICK ms : ms = {m}
    OBVIOUS
  <2>2. /\ Done(r, ms) \in [Message -> Rows]
        /\ \A j \in Message : /\ Done(r, ms)[j] = "unsent" <=> r[j] = "unsent"
                              /\ Done(r, ms)[j] = "queued" <=> r[j] = "queued" /\ j \notin ms
    BY DoneRows
  <2>3. row' = Done(r, ms)
    BY <1>5, <2>1
  <2> QED
    BY <2>1, <2>2, <2>3
<1>10. \A j \in Message : r[j] = "queued" => m <= j
  <2> SUFFICES ASSUME NEW j \in Message, r[j] = "queued" PROVE m <= j
    OBVIOUS
  <2>1. PICK k \in 1 .. l : q[k] = Item(j, "queued")
    BY <1>1 DEF Restored
  <2> QED
    BY <1>3, <1>4, <2>1 DEF Item
<1>11. m > last /\ r[m] # "unsent"
  BY <1>1, <1>2, <1>4 DEF Numbering
<1>12. OneLoop'
  BY <1>5, <1>6 DEF OneLoop
<1>13. Ordered'
  <2>1. Line(items')
    BY <1>1, <1>7 DEF Line
  <2>2. \A k \in 1 .. l : items'[k].state = "processing" <=> items'[k].id = m
    BY <1>2, <1>4, <1>7, <1>8
  <2>3. m # None
    BY ChatConstants
  <2> QED
    BY <1>4, <1>5, <1>7, <2>1, <2>2, <2>3 DEF Ordered
<1>14. Numbering(items', row', last')
  <2>1. \A j \in Message : row'[j] = "queued" => j > m
    BY <1>9, <1>10 DEF Message
  <2>2. ASSUME NEW k \in 1 .. l PROVE row'[items'[k].id] # "unsent" /\ (items'[k].state = "queued" => items'[k].id > m)
    <3>1. row'[items'[k].id] # "unsent"
      BY <1>1, <1>2, <1>7, <1>9 DEF Numbering
    <3>2. q[k].id \in Nat /\ m \in Nat
      BY <1>2 DEF Message
    <3>3. items'[k].state = "queued" => q[k].id # m /\ m <= q[k].id
      BY <1>3, <1>4, <1>7, <1>8
    <3> QED
      BY <1>7, <3>1, <3>2, <3>3
  <2>3. \A i, j \in Message : i < j /\ row'[j] # "unsent" => row'[i] # "unsent"
    BY <1>9 DEF Numbering
  <2> QED
    BY <1>5, <1>7, <1>9, <1>11, <2>1, <2>2, <2>3 DEF Numbering
<1>15. Restored(items', row')
  <2> SUFFICES ASSUME NEW j \in Message, row'[j] = "queued" PROVE \E k \in DOMAIN items' : items'[k] = Item(j, "queued")
    BY DEF Restored
  <2>1. r[j] = "queued" /\ j # m
    BY <1>9
  <2>2. PICK k \in 1 .. l : q[k] = Item(j, "queued")
    BY <1>1, <2>1 DEF Restored
  <2>3. k # f
    BY <1>4, <2>1, <2>2 DEF Item
  <2> QED
    BY <1>7, <2>2, <2>3
<1>16. \A i \in Message : turn'[i] # "idle" => i > last /\ \A j \in 1 .. i : row'[j] # "queued"
  <2>1. \A i \in Message : turn'[i] # "idle" => i = m
    BY <1>6
  <2>2. \A j \in 1 .. m : j \in Message /\ j \in Nat /\ j <= m
    BY ChatConstants DEF Message
  <2>3. \A j \in 1 .. m : row'[j] # "queued"
    BY <1>9, <1>10, <2>2 DEF Message
  <2> QED
    BY <1>11, <2>1, <2>3
<1>17. turn' \in [Message -> Awaited] /\ round' \in [Message -> 0 .. MaxRounds]
  BY <1>5, <1>6, ChatConstants DEF Awaited
<1>18. current' # None
  BY <1>5, ChatConstants
<1> QED
  BY <1>5, <1>7, <1>9, <1>12, <1>13, <1>14, <1>15, <1>16, <1>17, <1>18 DEF Dispatched

\* pump() with no turn running.
LEMMA PumpServes ==
  ASSUME NEW q, NEW r, NEW t, NEW n, NEW ex, Ready(q, r, t, n, ex), Pump(q, r, None, t, n, ex)
  PROVE  Dispatched
BY RestServes, BeginServes, FailServes DEF Pump
-----------------------------------------------------------------------------
(* The first state *)

LEMMA ChatStart == Init => ChatInv
<1> SUFFICES ASSUME Init PROVE ChatInv
  OBVIOUS
<1> USE DEF Init
<1>1. None \notin Message /\ MaxRounds \in Nat /\ MaxFaults \in Nat
  BY ChatConstants
<1>2. << >> \in Seq([of : Message, status : {"done", "aborted"}])
      /\ << >> \in Seq([id : Message, state : {"queued", "processing"}, text : {0, 1}])
  OBVIOUS
<1>3. ChatTypeOK
  <2>1. /\ row \in [Message -> {"unsent", "queued", "done", "deleted"}] /\ text \in [Message -> {0, 1}]
        /\ turn \in [Message -> {"idle", "llm", "codex", "title", "tool"}]
    OBVIOUS
  <2>2. round \in [Message -> 0 .. MaxRounds] /\ faults \in 0 .. MaxFaults
    BY <1>1
  <2>3. extra \cup cut \subseteq Message /\ current \in Message \cup {None} /\ last \in Message \cup {0}
    OBVIOUS
  <2> QED
    BY <1>2, <2>1, <2>2, <2>3 DEF ChatTypeOK
<1>4. OneLoop /\ Ordered /\ Controlled
  BY <1>1 DEF OneLoop, Ordered, Line, Controlled
<1>5. Restored(items, row) /\ Numbering(items, row, last)
  BY DEF Restored, Numbering
<1> QED
  BY <1>3, <1>4, <1>5 DEF ChatInv
-----------------------------------------------------------------------------
(* The agent loop *)

\* A turn ends: what is left of the queue is ready to be dispatched.
LEMMA ReleasedReady ==
  ASSUME ChatInv, NEW m \in Message, turn[m] # "idle", NEW ex \in SUBSET Message
  PROVE  Ready(Released, row, [turn EXCEPT ![m] = "idle"], [round EXCEPT ![m] = 0], ex)
<1> USE DEF ChatInv
<1>1. items \in Seq(Entry) /\ row \in [Message -> Rows] /\ Queued(items) \in SUBSET DOMAIN items
      /\ last \in Message \cup {0} /\ turn \in [Message -> Awaited] /\ round \in [Message -> 0 .. MaxRounds]
  BY DEF ChatTypeOK, Entry, Rows, Awaited, Queued
<1>2. /\ Released \in Seq(Entry)
      /\ \A i \in DOMAIN Released : \E k \in Queued(items) : Released[i] = items[k]
      /\ \A k \in Queued(items) : \E i \in DOMAIN Released : Released[i] = items[k]
  BY <1>1, KeptItems DEF Released
<1>3. Line(Released)
  BY <1>1, KeptLine DEF Released, Ordered
<1>4. Queued(Released) = DOMAIN Released
  BY <1>2 DEF Queued
<1>5. Numbering(Released, row, last)
  BY <1>1, <1>2 DEF Numbering
<1>6. Restored(Released, row)
  <2> SUFFICES ASSUME NEW j \in Message, row[j] = "queued"
               PROVE  \E i \in DOMAIN Released : Released[i] = Item(j, "queued")
    BY DEF Restored
  <2>1. held
    BY ChatConstants DEF Controlled, OneLoop
  <2>2. PICK k \in DOMAIN items : items[k] = Item(j, "queued")
    BY <2>1 DEF Restored
  <2>3. k \in Queued(items)
    BY <2>2 DEF Item, Queued
  <2> QED
    BY <1>2, <2>2, <2>3
<1>7. [turn EXCEPT ![m] = "idle"] = [j \in Message |-> "idle"]
  <2>1. \A j \in Message : j # m => turn[j] = "idle"
    BY DEF OneLoop
  <2> QED
    BY <1>1, <2>1
<1>8. [round EXCEPT ![m] = 0] \in [Message -> 0 .. MaxRounds]
  BY <1>1, ChatConstants
<1> QED
  BY <1>1, <1>2, <1>3, <1>4, <1>5, <1>6, <1>7, <1>8 DEF Ready

LEMMA FinishKeeps ==
  ASSUME ChatInv, NEW m \in Message, turn[m] # "idle", NEW ex \in SUBSET Message, Finish(m, ex),
         answers' \in Seq(Answer)
  PROVE  ChatInv' /\ TurnsStep
<1>1. Pump(Released, row, None, [turn EXCEPT ![m] = "idle"], [round EXCEPT ![m] = 0], ex)
  BY DEF Finish
<1>2. Dispatched
  BY <1>1, ReleasedReady, PumpServes
<1>3. held' = (held /\ current' # None) /\ cut' = cut \ {m} /\ UNCHANGED << exists, text, faults >>
  BY DEF Finish
<1>4. ChatTypeOK'
  BY <1>2, <1>3 DEF Dispatched, ChatInv, ChatTypeOK, Entry, Rows, Awaited, Answer
<1>5. m = current /\ None \notin Message
  BY ChatConstants DEF ChatInv, OneLoop
<1>6. Controlled'
  <2>1. exists => held
    BY <1>5 DEF ChatInv, Controlled
  <2>2. ~exists => ~held
    BY DEF ChatInv, Controlled
  <2>3. ~exists => \A j \in Message : row'[j] # "queued"
    <3> SUFFICES ASSUME ~exists, NEW j \in Message, row'[j] = "queued" PROVE FALSE
      OBVIOUS
    <3>1. row[j] # "queued"
      BY DEF ChatInv, Controlled
    <3>2. row \in [Message -> Rows]
      BY DEF ChatInv, ChatTypeOK, Rows
    <3> QED
      BY <1>1, <3>1, <3>2, DoneRows DEF Pump, Rest, Begin, FailAll
  <2>4. held \in BOOLEAN /\ exists \in BOOLEAN
    BY DEF ChatInv, ChatTypeOK
  <2> QED
    BY <1>3, <2>1, <2>2, <2>3, <2>4 DEF Controlled
<1>7. Restored(items, row)'
  BY <1>2, <1>3 DEF Dispatched, Restored, Item
<1>8. TurnsStep
  BY <1>2 DEF Dispatched, TurnsStep
<1> QED
  BY <1>2, <1>4, <1>6, <1>7, <1>8 DEF ChatInv, Dispatched
-----------------------------------------------------------------------------
(* Sending *)

\* Messages are numbered without a gap: the next number is the only one above them all.
LEMMA NextNumber ==
  ASSUME ChatInv, NEW m, m = Cardinality({ n \in Message : row[n] # "unsent" }) + 1
  PROVE  m \in Nat /\ \A n \in Message : row[n] # "unsent" <=> n < m
<1> DEFINE S == { n \in Message : row[n] # "unsent" }
<1>1. IsFiniteSet(Message) /\ MaxMessages \in Nat
  BY ChatConstants, FS_Interval DEF Message
<1>2. IsFiniteSet(S) /\ S \subseteq Message
  BY <1>1, FS_Subset
<1>3. PICK c \in Nat : c = Cardinality(S) /\ m = c + 1
  BY <1>2, FS_CardinalityType
<1>4. ASSUME NEW n \in S PROVE n <= c
  <2>1. n \in Nat /\ 1 <= n /\ n <= MaxMessages
    BY <1>1, <1>2 DEF Message
  <2>2. 1 .. n \subseteq S
    <3> SUFFICES ASSUME NEW j \in 1 .. n PROVE j \in S
      OBVIOUS
    <3>1. j \in Message /\ (j = n \/ j < n)
      BY <1>1, <2>1 DEF Message
    <3> QED
      BY <1>2, <3>1 DEF ChatInv, Numbering
  <2>3. Cardinality(1 .. n) = n
    BY <2>1, FS_Interval
  <2> QED
    BY <1>2, <1>3, <2>2, <2>3, FS_Subset
<1>5. ASSUME NEW n \in Message, n \notin S PROVE c < n
  <2>1. n \in Nat /\ 1 <= n /\ n <= MaxMessages
    BY <1>1 DEF Message
  <2>2. S \subseteq 1 .. n - 1
    <3> SUFFICES ASSUME NEW j \in S PROVE j \in 1 .. n - 1
      OBVIOUS
    <3>1. j \in Message /\ row[j] # "unsent" /\ row[n] = "unsent"
      BY <1>2, <1>5
    <3>2. ~(n < j) /\ n # j
      BY <3>1 DEF ChatInv, Numbering
    <3>3. j \in Nat /\ 1 <= j
      BY <3>1, <1>1 DEF Message
    <3> QED
      BY <2>1, <3>2, <3>3
  <2>3. IsFiniteSet(1 .. n - 1) /\ Cardinality(1 .. n - 1) = n - 1
    BY <2>1, FS_Interval
  <2>4. c <= n - 1
    BY <1>3, <2>2, <2>3, FS_Subset
  <2> QED
    BY <1>3, <2>1, <2>4
<1>6. ASSUME NEW n \in Message PROVE row[n] # "unsent" <=> n < m
  <2>1. n \in Nat
    BY <1>1 DEF Message
  <2>2. n \in S <=> n <= c
    BY <1>3, <1>4, <1>5, <2>1
  <2> QED
    BY <1>3, <2>1, <2>2
<1> QED
  BY <1>3, <1>6

\* A new message at the end of a queue in line, and its row.
LEMMA SentKeeps ==
  ASSUME ChatInv, NEW q \in Seq(Entry), Line(q), Restored(q, row), Numbering(q, row, last),
         NEW m \in Message, \A n \in Message : row[n] # "unsent" <=> n < m
  PROVE  LET new == Append(q, Item(m, "queued"))
             r   == [row EXCEPT ![m] = "queued"]
         IN  /\ new \in Seq(Entry) /\ Line(new) /\ r \in [Message -> Rows]
             /\ Restored(new, r) /\ Numbering(new, r, last)
<1> DEFINE new == Append(q, Item(m, "queued"))
           r   == [row EXCEPT ![m] = "queued"]
<1>0. row \in [Message -> Rows] /\ text \in [Message -> {0, 1}] /\ last \in Message \cup {0}
  BY DEF ChatInv, ChatTypeOK, Rows
<1>1. PICK l \in Nat : l = Len(q) /\ DOMAIN q = 1 .. l
  OBVIOUS
<1>2. Item(m, "queued") \in Entry /\ Item(m, "queued").id = m
  BY <1>0 DEF Item, Entry
<1>3. /\ new \in Seq(Entry) /\ DOMAIN new = 1 .. l + 1 /\ new[l + 1] = Item(m, "queued")
      /\ \A k \in 1 .. l : new[k] = q[k] /\ k \in 1 .. l + 1
  BY <1>1, <1>2
<1>4. \A k \in 1 .. l + 1 : k \in 1 .. l \/ k = l + 1
  BY <1>1
<1>5. \A k \in 1 .. l : q[k].id \in Message /\ q[k].id < m
  <2>1. \A k \in 1 .. l : q[k] \in Entry
    BY <1>1
  <2>2. \A k \in 1 .. l : q[k].id \in Message
    BY <2>1 DEF Entry
  <2> QED
    BY <1>1, <2>2 DEF Numbering
<1>6. Line(new)
  <2> SUFFICES ASSUME NEW j \in 1 .. l + 1, NEW k \in 1 .. l + 1, j < k PROVE new[j].id < new[k].id
    BY <1>3 DEF Line
  <2>1. j \in 1 .. l
    BY <1>1
  <2>2. CASE k \in 1 .. l
    BY <1>1, <1>3, <2>1, <2>2 DEF Line
  <2>3. CASE k = l + 1
    BY <1>2, <1>3, <1>5, <2>1, <2>3
  <2> QED
    BY <1>4, <2>2, <2>3
<1>7. r \in [Message -> Rows] /\ r[m] = "queued" /\ \A n \in Message : n # m => r[n] = row[n]
  BY <1>0 DEF Rows
<1>8. Restored(new, r)
  <2> SUFFICES ASSUME NEW n \in Message, r[n] = "queued" PROVE \E k \in DOMAIN new : new[k] = Item(n, "queued")
    BY DEF Restored
  <2>1. CASE n = m
    <3>1. l + 1 \in DOMAIN new
      BY <1>1, <1>3
    <3> QED
      BY <1>3, <2>1, <3>1
  <2>2. CASE n # m
    <3>1. PICK k \in 1 .. l : q[k] = Item(n, "queued")
      BY <1>1, <1>7, <2>2 DEF Restored
    <3> QED
      BY <1>3, <3>1
  <2> QED
    BY <2>1, <2>2
<1>9. m > last
  BY <1>0, ChatConstants DEF Numbering, Message
<1>10. Numbering(new, r, last)
  <2>1. \A j, n \in Message : j < n /\ r[n] # "unsent" => r[j] # "unsent"
    <3> SUFFICES ASSUME NEW j \in Message, NEW n \in Message, j < n, r[n] # "unsent" PROVE r[j] # "unsent"
      OBVIOUS
    <3>1. j < m
      BY <1>7 DEF Message
    <3> QED
      BY <1>7, <3>1
  <2>2. \A n \in Message : r[n] = "queued" => n > last
    BY <1>7, <1>9 DEF Numbering
  <2>3. ASSUME NEW k \in 1 .. l + 1
        PROVE  r[new[k].id] # "unsent" /\ (new[k].state = "queued" => new[k].id > last)
    <3>1. CASE k = l + 1
      BY <1>2, <1>3, <1>7, <1>9, <3>1
    <3>2. CASE k \in 1 .. l
      <4>1. row[q[k].id] # "unsent" /\ (q[k].state = "queued" => q[k].id > last)
        BY <1>1, <3>2 DEF Numbering
      <4> QED
        BY <1>3, <1>5, <1>7, <3>2, <4>1
    <3> QED
      BY <1>4, <3>1, <3>2
  <2>4. last # 0 => r[last] # "unsent"
    BY <1>0, <1>7 DEF Numbering
  <2> QED
    BY <1>3, <2>1, <2>2, <2>3, <2>4 DEF Numbering
<1> QED
  BY <1>3, <1>6, <1>7, <1>8, <1>10

\* The queue of a new controller: the queued rows in line.
LEMMA RebuiltQueue ==
  ASSUME ChatInv, ~held, exists
  PROVE  /\ Queue \in Seq(Entry) /\ Line(Queue) /\ Queued(Queue) = DOMAIN Queue
         /\ Restored(Queue, row) /\ Numbering(Queue, row, last)
<1> DEFINE S == { m \in Message : row[m] = "queued" }
<1>1. IsFiniteSet(Message) /\ Message \in SUBSET Nat
  BY ChatConstants, FS_Interval DEF Message
<1>2. S \in SUBSET Nat /\ IsFiniteSet(S)
  BY <1>1, FS_Subset
<1>3. PICK c \in Nat : c = Cardinality(S)
  BY <1>2, AscendingLists
<1>4. /\ Ascending(S) \in [1 .. c -> S]
      /\ \A i, j \in 1 .. c : i < j => Ascending(S)[i] < Ascending(S)[j]
      /\ \A x \in S : \E i \in 1 .. c : Ascending(S)[i] = x
  BY <1>2, <1>3, AscendingLists
<1>5. PICK ms : ms = Ascending(S)
  OBVIOUS
<1>6. Queue = [k \in 1 .. c |-> Item(ms[k], "queued")]
  BY <1>4, <1>5 DEF Queue
<1>7. ms \in [1 .. c -> S]
  BY <1>4, <1>5
<1>8. \A k \in 1 .. c : ms[k] \in Message /\ row[ms[k]] = "queued"
  BY <1>7
<1>9. \A k \in 1 .. c : Queue[k] \in Entry /\ Queue[k].id = ms[k] /\ Queue[k].state = "queued"
  <2>1. text \in [Message -> {0, 1}]
    BY DEF ChatInv, ChatTypeOK
  <2> QED
    BY <1>6, <1>8, <2>1 DEF Item, Entry
<1>10. Queue \in Seq(Entry) /\ DOMAIN Queue = 1 .. c
  BY <1>6, <1>9
<1>11. Line(Queue)
  BY <1>4, <1>5, <1>9, <1>10 DEF Line
<1>12. Queued(Queue) = DOMAIN Queue
  BY <1>9, <1>10 DEF Queued
<1>13. Restored(Queue, row)
  BY <1>4, <1>5, <1>6, <1>10 DEF Restored
<1>14. Numbering(Queue, row, last)
  <2>1. \A k \in 1 .. c : row[Queue[k].id] # "unsent" /\ Queue[k].id > last
    BY <1>8, <1>9 DEF ChatInv, Numbering
  <2> QED
    BY <1>10, <2>1 DEF ChatInv, Numbering
<1> QED
  BY <1>10, <1>11, <1>12, <1>13, <1>14

LEMMA SendKeeps == ChatInv /\ Send => ChatInv' /\ TurnsStep
<1> SUFFICES ASSUME ChatInv, Send PROVE ChatInv' /\ TurnsStep
  OBVIOUS
<1>1. PICK m \in Message : m = Cardinality({ n \in Message : row[n] # "unsent" }) + 1
  BY DEF Send
<1>2. \A n \in Message : row[n] # "unsent" <=> n < m
  BY <1>1, NextNumber
<1>3. PICK r : r = [row EXCEPT ![m] = "queued"]
  OBVIOUS
<1>4. PICK new : new = Append(Queue, Item(m, "queued"))
  OBVIOUS
<1>5. /\ exists /\ Pump(new, r, current, turn, round, extra)
      /\ held' = (current' # None)
      /\ UNCHANGED << exists, text, answers, cut, faults >>
  BY <1>1, <1>3, <1>4 DEF Send
<1>6. Queue \in Seq(Entry) /\ Line(Queue) /\ Restored(Queue, row) /\ Numbering(Queue, row, last)
  <2>1. CASE held
    <3>1. Queue = items
      BY <2>1 DEF Queue
    <3> QED
      BY <2>1, <3>1 DEF ChatInv, ChatTypeOK, Entry, Ordered
  <2>2. CASE ~held
    BY <1>5, <2>2, RebuiltQueue
  <2> QED
    BY <2>1, <2>2
<1>7. /\ new \in Seq(Entry) /\ Line(new) /\ r \in [Message -> Rows]
      /\ Restored(new, r) /\ Numbering(new, r, last)
  BY <1>2, <1>3, <1>4, <1>6, SentKeeps
<1>8. PICK l \in Nat : l = Len(Queue) /\ DOMAIN Queue = 1 .. l
  BY <1>6
<1>9. PICK e : e = Item(m, "queued") /\ e \in Entry /\ e.id = m /\ e.state = "queued"
  <2>1. text \in [Message -> {0, 1}]
    BY DEF ChatInv, ChatTypeOK
  <2>2. Item(m, "queued") \in Entry /\ Item(m, "queued").id = m /\ Item(m, "queued").state = "queued"
    BY <2>1 DEF Item, Entry
  <2> QED
    BY <2>2
<1>10. /\ DOMAIN new = 1 .. l + 1 /\ new[l + 1] = e
       /\ \A k \in 1 .. l : new[k] = Queue[k] /\ k \in 1 .. l + 1
  BY <1>4, <1>6, <1>8, <1>9
<1>11. \A k \in 1 .. l + 1 : k \in 1 .. l \/ k = l + 1
  BY <1>8
<1>12. l + 1 \in 1 .. l + 1
  BY <1>8
<1>13. None \notin Message
  BY ChatConstants
<1>14. CASE held
  <2>1. current # None /\ current \in Message /\ current = last /\ Queue = items
    BY <1>5, <1>14 DEF ChatInv, ChatTypeOK, Controlled, OneLoop, Queue
  <2>2. items' = new /\ row' = r /\ current' = current /\ extra' = extra /\ last' = last
        /\ turn' = turn /\ round' = round /\ held' = TRUE
    BY <1>5, <2>1 DEF Pump, Idle, Rest
  <2>3. current # m
    <3>1. last # 0
      BY <2>1, ChatConstants DEF Message
    <3>2. current < m
      BY <1>2, <2>1, <3>1 DEF ChatInv, Numbering
    <3> QED
      BY <3>2 DEF Message
  <2>4. ChatTypeOK'
    BY <1>5, <1>7, <2>2 DEF ChatInv, ChatTypeOK, Entry, Rows
  <2>5. OneLoop'
    BY <2>2 DEF ChatInv, OneLoop
  <2>6. Ordered'
    <3>1. ASSUME NEW k \in 1 .. l + 1 PROVE new[k].state = "processing" <=> new[k].id = current
      <4>1. CASE k \in 1 .. l
        BY <1>8, <1>10, <2>1, <4>1 DEF ChatInv, Ordered
      <4>2. CASE k = l + 1
        BY <1>9, <1>10, <2>3, <4>2
      <4> QED
        BY <1>11, <4>1, <4>2
    <3>2. \E k \in 1 .. l + 1 : new[k].id = current
      BY <1>8, <1>10, <2>1 DEF ChatInv, Ordered
    <3> QED
      BY <1>7, <1>10, <2>1, <2>2, <3>1, <3>2 DEF Ordered
  <2>7. Controlled'
    BY <1>5, <2>1, <2>2 DEF Controlled
  <2>8. Restored(items, row)' /\ Numbering(items', row', last')
    BY <1>5, <1>7, <2>2 DEF Restored, Item
  <2> QED
    BY <2>2, <2>4, <2>5, <2>6, <2>7, <2>8 DEF ChatInv, TurnsStep
<1>15. CASE ~held
  <2>1. current = None /\ Queued(Queue) = DOMAIN Queue
    BY <1>5, <1>15, RebuiltQueue DEF ChatInv, Controlled
  <2>2. Queued(new) = DOMAIN new
    <3>1. \A k \in 1 .. l + 1 : new[k].state = "queued"
      BY <1>8, <1>9, <1>10, <1>11, <2>1 DEF Queued
    <3> QED
      BY <1>10, <3>1 DEF Queued
  <2>3. turn = [j \in Message |-> "idle"] /\ round \in [Message -> 0 .. MaxRounds]
        /\ extra \subseteq Message /\ last \in Message \cup {0}
    BY <1>13, <2>1 DEF ChatInv, ChatTypeOK, OneLoop
  <2>4. Ready(new, r, turn, round, extra)
    BY <1>7, <2>2, <2>3 DEF Ready
  <2>5. Dispatched
    BY <1>5, <2>1, <2>4, PumpServes
  <2>6. ChatTypeOK'
    BY <1>5, <2>5 DEF Dispatched, ChatInv, ChatTypeOK, Entry, Rows, Awaited
  <2>7. Controlled'
    BY <1>5 DEF Controlled
  <2>8. Restored(items, row)'
    BY <1>5, <2>5 DEF Dispatched, Restored, Item
  <2> QED
    BY <2>5, <2>6, <2>7, <2>8 DEF ChatInv, Dispatched, TurnsStep
<1> QED
  BY <1>14, <1>15
-----------------------------------------------------------------------------
(* The other requests *)

LEMMA StopKeeps == ChatInv /\ Stop => ChatInv' /\ TurnsStep
<1> SUFFICES ASSUME ChatInv, Stop PROVE ChatInv' /\ TurnsStep
  OBVIOUS
<1>1. /\ current \in Message /\ cut' = cut \cup {current} /\ answers' = Aborted
      /\ UNCHANGED << exists, row, text, extra, held, items, current, turn, round, faults, last >>
  BY DEF Stop, ChatInv, ChatTypeOK
<1>2. Aborted \in Seq(Answer)
  <2>1. answers \in Seq(Answer)
    BY DEF ChatInv, ChatTypeOK, Answer
  <2>2. PICK l \in Nat : l = Len(answers) /\ DOMAIN answers = 1 .. l
    BY <2>1
  <2>3. \A k \in 1 .. l : answers[k] \in Answer
    BY <2>1, <2>2
  <2>4. \A k \in 1 .. l : [answers[k] EXCEPT !.status = "aborted"] \in Answer
    BY <2>3 DEF Answer
  <2>5. PICK f : f = [k \in 1 .. l |-> Aborted[k]]
    OBVIOUS
  <2>6. Aborted = f
    BY <2>2, <2>5 DEF Aborted
  <2>7. \A k \in 1 .. l : f[k] \in {answers[k], [answers[k] EXCEPT !.status = "aborted"]}
    BY <2>2, <2>5 DEF Aborted
  <2>8. \A k \in 1 .. l : f[k] \in Answer
    BY <2>3, <2>4, <2>7
  <2>9. f \in Seq(Answer)
    BY <2>5, <2>8
  <2> QED
    BY <2>6, <2>9
<1>3. ChatTypeOK'
  BY <1>1, <1>2 DEF ChatInv, ChatTypeOK, Answer
<1>4. OneLoop' /\ Ordered' /\ Controlled' /\ TurnsStep
  BY <1>1 DEF ChatInv, OneLoop, Ordered, Line, Controlled, TurnsStep
<1>5. (held => Restored(items, row))' /\ Numbering(items, row, last)'
  BY <1>1 DEF ChatInv, Restored, Item, Numbering
<1> QED
  BY <1>3, <1>4, <1>5 DEF ChatInv

\* Some waiting items leave the queue and their rows are deleted, while a turn runs.
LEMMA DroppedKeeps ==
  ASSUME ChatInv, NEW K \in SUBSET DOMAIN items, items' = Kept(items, K),
         \A k \in DOMAIN items \ K : items[k].state = "queued",
         row' \in [Message -> Rows],
         \A m \in Message : row'[m] = row[m] \/ (row[m] # "unsent" /\ row'[m] = "deleted"),
         UNCHANGED << text, current, turn, round, faults, last >>
  PROVE  /\ items' \in Seq(Entry) /\ OneLoop' /\ Ordered' /\ Numbering(items', row', last') /\ TurnsStep
         /\ \A k \in K : \E i \in DOMAIN items' : items'[i] = items[k]
<1>1. items \in Seq(Entry) /\ row \in [Message -> Rows] /\ last \in Message \cup {0}
  BY DEF ChatInv, ChatTypeOK, Entry, Rows
<1>2. /\ items' \in Seq(Entry)
      /\ \A i \in DOMAIN items' : \E k \in K : items'[i] = items[k]
      /\ \A k \in K : \E i \in DOMAIN items' : items'[i] = items[k]
  BY <1>1, KeptItems
<1>3. Line(items')
  BY <1>1, KeptLine DEF ChatInv, Ordered
<1>4. OneLoop' /\ TurnsStep
  BY DEF ChatInv, OneLoop, TurnsStep
<1>5. Ordered'
  <2>1. \A i \in DOMAIN items' : items'[i].state = "processing" <=> items'[i].id = current
    BY <1>2 DEF ChatInv, Ordered
  <2>2. current # None => \E i \in DOMAIN items' : items'[i].id = current
    <3> SUFFICES ASSUME current # None PROVE \E i \in DOMAIN items' : items'[i].id = current
      OBVIOUS
    <3>1. PICK k \in DOMAIN items : items[k].id = current /\ items[k].state = "processing"
      BY DEF ChatInv, Ordered
    <3>2. k \in K
      BY <3>1
    <3> QED
      BY <1>2, <3>1, <3>2
  <2>3. current = None => items' = << >>
    <3> SUFFICES ASSUME current = None PROVE items' = << >>
      OBVIOUS
    <3>1. DOMAIN items = {}
      BY DEF ChatInv, Ordered
    <3>2. DOMAIN items' = {}
      BY <1>2, <3>1
    <3> QED
      BY <1>2, <3>2, EmptySeq
  <2> QED
    BY <1>3, <2>1, <2>2, <2>3 DEF Ordered
<1>6. Numbering(items', row', last')
  <2>1. \A m \in Message : (row'[m] = "unsent" <=> row[m] = "unsent") /\ (row'[m] = "queued" => row[m] = "queued")
    OBVIOUS
  <2>2. \A i \in DOMAIN items' : items'[i].id \in Message
    <3>1. \A i \in DOMAIN items' : items'[i] \in Entry
      BY <1>2
    <3> QED
      BY <3>1 DEF Entry
  <2>3. \A i \in DOMAIN items' : row'[items'[i].id] # "unsent" /\ (items'[i].state = "queued" => items'[i].id > last)
    BY <1>2, <2>1, <2>2 DEF ChatInv, Numbering
  <2>4. last # 0 => row'[last] # "unsent"
    BY <1>1, <2>1 DEF ChatInv, Numbering
  <2> QED
    BY <2>1, <2>3, <2>4 DEF ChatInv, Numbering
<1> QED
  BY <1>2, <1>4, <1>5, <1>6

LEMMA CancelKeeps == ASSUME ChatInv, NEW m \in Message, CancelItem(m) PROVE ChatInv' /\ TurnsStep
<1>1. /\ held /\ m \in Waiting(items)
      /\ row' = [row EXCEPT ![m] = "deleted"]
      /\ UNCHANGED << exists, text, answers, extra, held, current, turn, round, cut, faults, last >>
  BY DEF CancelItem
<1>2. PICK K \in SUBSET DOMAIN items : K = { k \in DOMAIN items : items[k].id # m } /\ items' = Kept(items, K)
  BY DEF CancelItem
<1>3. PICK w \in DOMAIN items : items[w].id = m /\ items[w].state = "queued"
  BY <1>1 DEF Waiting, Queued
<1>4. /\ row \in [Message -> Rows] /\ row[m] # "unsent"
      /\ \A k \in DOMAIN items : items[k] \in Entry
  <2>1. items \in Seq(Entry) /\ row \in [Message -> Rows]
    BY DEF ChatInv, ChatTypeOK, Entry, Rows
  <2>2. row[items[w].id] # "unsent"
    BY DEF ChatInv, Numbering
  <2> QED
    BY <1>3, <2>1, <2>2
<1>5. \A k \in DOMAIN items \ K : items[k].state = "queued"
  <2> SUFFICES ASSUME NEW k \in DOMAIN items, items[k].id = m PROVE items[k].state = "queued"
    BY <1>2
  <2>1. items[k] \in Entry /\ items[w].state # "processing"
    BY <1>3, <1>4
  <2>2. items[k].state # "processing"
    BY <1>3, <2>1 DEF ChatInv, Ordered
  <2> QED
    BY <2>1, <2>2 DEF Entry
<1>6. row' \in [Message -> Rows] /\ \A n \in Message : row'[n] = row[n] \/ (row[n] # "unsent" /\ row'[n] = "deleted")
  BY <1>1, <1>4 DEF Rows
<1>7. /\ items' \in Seq(Entry) /\ OneLoop' /\ Ordered' /\ Numbering(items', row', last') /\ TurnsStep
      /\ \A k \in K : \E i \in DOMAIN items' : items'[i] = items[k]
  BY <1>1, <1>2, <1>5, <1>6, DroppedKeeps
<1>8. ChatTypeOK'
  BY <1>1, <1>6, <1>7 DEF ChatInv, ChatTypeOK, Entry, Rows
<1>9. Controlled'
  BY <1>1, <1>6 DEF ChatInv, Controlled
<1>10. Restored(items, row)'
  <2> SUFFICES ASSUME NEW n \in Message, row'[n] = "queued" PROVE \E i \in DOMAIN items' : items'[i] = Item(n, "queued")
    BY <1>1 DEF Restored, Item
  <2>1. row[n] = "queued" /\ n # m
    BY <1>1, <1>4, <1>6
  <2>2. PICK k \in DOMAIN items : items[k] = Item(n, "queued")
    BY <1>1, <2>1 DEF ChatInv, Restored
  <2>3. k \in K
    BY <1>2, <2>1, <2>2 DEF Item
  <2> QED
    BY <1>7, <2>2, <2>3
<1> QED
  BY <1>7, <1>8, <1>9, <1>10 DEF ChatInv

LEMMA EditKeeps == ASSUME ChatInv, NEW m \in Message, EditItem(m) PROVE ChatInv' /\ TurnsStep
<1>1. /\ held
      /\ items' = [k \in DOMAIN items |-> IF items[k].id = m THEN [items[k] EXCEPT !.text = 1] ELSE items[k]]
      /\ text' = [text EXCEPT ![m] = 1]
      /\ UNCHANGED << exists, row, answers, extra, held, current, turn, round, cut, faults, last >>
  BY DEF EditItem
<1>2. items \in Seq(Entry) /\ row \in [Message -> Rows] /\ text \in [Message -> {0, 1}]
  BY DEF ChatInv, ChatTypeOK, Entry, Rows
<1>3. PICK l \in Nat : l = Len(items) /\ DOMAIN items = 1 .. l
  BY <1>2
<1>4. /\ \A k \in 1 .. l : items[k] \in Entry
      /\ DOMAIN items' = 1 .. l
  BY <1>1, <1>2, <1>3
<1>5. ASSUME NEW k \in 1 .. l
      PROVE  /\ items'[k] \in Entry /\ items'[k].id = items[k].id /\ items'[k].state = items[k].state
             /\ items'[k].text = IF items[k].id = m THEN 1 ELSE items[k].text
  BY <1>1, <1>3, <1>4 DEF Entry
<1>6. items' \in Seq(Entry)
  <2>1. PICK f : f = [k \in 1 .. l |-> items'[k]]
    OBVIOUS
  <2>2. items' = f
    BY <1>1, <1>3, <2>1
  <2>3. f \in Seq(Entry)
    BY <1>5, <2>1
  <2> QED
    BY <2>2, <2>3
<1>7. ChatTypeOK'
  BY <1>1, <1>2, <1>6 DEF ChatInv, ChatTypeOK, Entry
<1>8. OneLoop' /\ Controlled' /\ TurnsStep
  BY <1>1 DEF ChatInv, OneLoop, Controlled, TurnsStep
<1>9. Ordered'
  <2>1. Line(items')
    BY <1>3, <1>4, <1>5 DEF ChatInv, Ordered, Line
  <2>2. \A k \in 1 .. l : items'[k].state = "processing" <=> items'[k].id = current
    BY <1>3, <1>5 DEF ChatInv, Ordered
  <2>3. current # None => \E k \in 1 .. l : items'[k].id = current
    BY <1>3, <1>5 DEF ChatInv, Ordered
  <2>4. current # None
    <3>1. exists
      BY <1>1 DEF ChatInv, Controlled
    <3> QED
      BY <1>1, <3>1 DEF ChatInv, Controlled
  <2> QED
    BY <1>1, <1>4, <2>1, <2>2, <2>3, <2>4 DEF Ordered
<1>10. Restored(items, row)'
  <2> SUFFICES ASSUME NEW n \in Message, row[n] = "queued"
               PROVE  \E k \in DOMAIN items' : items'[k] = [id |-> n, state |-> "queued", text |-> text'[n]]
    BY <1>1 DEF Restored, Item
  <2>1. PICK k \in 1 .. l : items[k] = [id |-> n, state |-> "queued", text |-> text[n]]
    BY <1>1, <1>3 DEF ChatInv, Restored, Item
  <2>2. items'[k] = [id |-> n, state |-> "queued", text |-> text'[n]]
    <3>1. CASE n = m
      BY <1>1, <1>2, <1>3, <2>1, <3>1
    <3>2. CASE n # m
      BY <1>1, <1>2, <1>3, <2>1, <3>2
    <3> QED
      BY <3>1, <3>2
  <2> QED
    BY <1>4, <2>2
<1>11. Numbering(items, row, last)'
  BY <1>1, <1>3, <1>4, <1>5 DEF ChatInv, Numbering
<1> QED
  BY <1>7, <1>8, <1>9, <1>10, <1>11 DEF ChatInv

LEMMA ClearKeeps == ASSUME ChatInv, ClearQueue PROVE ChatInv' /\ TurnsStep
<1>1. /\ held
      /\ row' = [m \in Message |-> IF row[m] = "queued" THEN "deleted" ELSE row[m]]
      /\ UNCHANGED << exists, text, answers, extra, held, current, turn, round, cut, faults, last >>
  BY DEF ClearQueue
<1>2. PICK K \in SUBSET DOMAIN items : K = DOMAIN items \ Queued(items) /\ items' = Kept(items, K)
  BY DEF ClearQueue
<1>3. row \in [Message -> Rows]
  BY DEF ChatInv, ChatTypeOK, Rows
<1>4. \A k \in DOMAIN items \ K : items[k].state = "queued"
  BY <1>2 DEF Queued
<1>5. row' \in [Message -> Rows]
      /\ \A n \in Message : row'[n] # "queued" /\ (row'[n] = row[n] \/ (row[n] # "unsent" /\ row'[n] = "deleted"))
  BY <1>1, <1>3 DEF Rows
<1>6. items' \in Seq(Entry) /\ OneLoop' /\ Ordered' /\ Numbering(items', row', last') /\ TurnsStep
  BY <1>1, <1>2, <1>4, <1>5, DroppedKeeps
<1>7. ChatTypeOK'
  BY <1>1, <1>5, <1>6 DEF ChatInv, ChatTypeOK, Entry, Rows
<1>8. Controlled' /\ Restored(items, row)'
  BY <1>1, <1>5 DEF ChatInv, Controlled, Restored
<1> QED
  BY <1>6, <1>7, <1>8 DEF ChatInv

LEMMA ErasedRows ==
  ASSUME ChatInv
  PROVE  /\ Erased \in [Message -> Rows]
         /\ \A n \in Message : Erased[n] # "queued" /\ (Erased[n] = row[n] \/ (row[n] # "unsent" /\ Erased[n] = "deleted"))
<1>1. row \in [Message -> Rows]
  BY DEF ChatInv, ChatTypeOK, Rows
<1> QED
  BY <1>1 DEF Erased, Rows

LEMMA HistoryKeeps == ASSUME ChatInv, ClearHistory PROVE ChatInv' /\ TurnsStep
<1>1. /\ row' = Erased /\ answers' = << >> /\ extra' = {}
      /\ UNCHANGED << exists, text, held, items, current, turn, round, cut, faults, last >>
  BY DEF ClearHistory
<1>2. row' \in [Message -> Rows] /\ \A n \in Message : row'[n] # "queued" /\ (row'[n] = "unsent" <=> row[n] = "unsent")
  BY <1>1, ErasedRows
<1>3. items \in Seq(Entry) /\ last \in Message \cup {0} /\ \A k \in DOMAIN items : items[k].id \in Message
  <2>1. items \in Seq(Entry) /\ last \in Message \cup {0}
    BY DEF ChatInv, ChatTypeOK, Entry
  <2>2. \A k \in DOMAIN items : items[k] \in Entry
    BY <2>1
  <2> QED
    BY <2>1, <2>2 DEF Entry
<1>4. << >> \in Seq(Answer)
  OBVIOUS
<1>5. ChatTypeOK'
  <2>1. extra' \cup cut' \subseteq Message
    BY <1>1 DEF ChatInv, ChatTypeOK
  <2> QED
    BY <1>1, <1>2, <1>4, <2>1 DEF ChatInv, ChatTypeOK, Rows, Answer
<1>6. OneLoop' /\ Ordered' /\ TurnsStep
  BY <1>1 DEF ChatInv, OneLoop, Ordered, Line, TurnsStep
<1>7. Controlled' /\ Restored(items, row)'
  BY <1>1, <1>2 DEF ChatInv, Controlled, Restored
<1>8. Numbering(items, row, last)'
  BY <1>1, <1>2, <1>3 DEF ChatInv, Numbering
<1> QED
  BY <1>5, <1>6, <1>7, <1>8 DEF ChatInv

LEMMA DeleteKeeps == ASSUME ChatInv, DeleteConversation PROVE ChatInv' /\ TurnsStep
<1>1. /\ exists' = FALSE /\ held' = FALSE
      /\ cut' = IF held /\ current # None THEN cut \cup {current} ELSE cut
      /\ row' = Erased /\ answers' = << >> /\ extra' = {}
      /\ UNCHANGED << text, current, turn, round, faults, last >>
  BY DEF DeleteConversation
<1>2. PICK K \in SUBSET DOMAIN items : K = DOMAIN items \ Queued(items) /\ items' = Kept(items, K)
  BY DEF DeleteConversation
<1>3. \A k \in DOMAIN items \ K : items[k].state = "queued"
  BY <1>2 DEF Queued
<1>4. row' \in [Message -> Rows]
      /\ \A n \in Message : row'[n] # "queued" /\ (row'[n] = row[n] \/ (row[n] # "unsent" /\ row'[n] = "deleted"))
  BY <1>1, ErasedRows
<1>5. items' \in Seq(Entry) /\ OneLoop' /\ Ordered' /\ Numbering(items', row', last') /\ TurnsStep
  BY <1>1, <1>2, <1>3, <1>4, DroppedKeeps
<1>6. << >> \in Seq(Answer)
  OBVIOUS
<1>7. ChatTypeOK'
  <2>1. extra' \cup cut' \subseteq Message
    BY <1>1 DEF ChatInv, ChatTypeOK
  <2> QED
    BY <1>1, <1>4, <1>5, <1>6, <2>1 DEF ChatInv, ChatTypeOK, Rows, Entry, Answer
<1>8. Controlled' /\ ~held'
  BY <1>1, <1>4 DEF Controlled
<1> QED
  BY <1>5, <1>7, <1>8 DEF ChatInv

LEMMA CrashKeeps == ASSUME ChatInv, Crash PROVE ChatInv' /\ TurnsStep
<1>1. /\ faults < MaxFaults /\ faults' = faults + 1
      /\ held' = FALSE /\ items' = << >> /\ current' = None
      /\ turn' = [m \in Message |-> "idle"] /\ round' = [m \in Message |-> 0] /\ cut' = {}
      /\ UNCHANGED << exists, row, text, answers, extra, last >>
  BY DEF Crash, stored
<1>2. None \notin Message /\ MaxFaults \in Nat /\ MaxRounds \in Nat
  BY ChatConstants
<1>3. << >> \in Seq(Entry) /\ DOMAIN items' = {}
  BY <1>1
<1>4. ChatTypeOK'
  <2>1. turn' \in [Message -> Awaited] /\ round' \in [Message -> 0 .. MaxRounds]
    BY <1>1, <1>2 DEF Awaited
  <2>2. faults' \in 0 .. MaxFaults
    BY <1>1, <1>2 DEF ChatInv, ChatTypeOK
  <2>3. extra' \cup cut' \subseteq Message
    BY <1>1 DEF ChatInv, ChatTypeOK
  <2>4. items' \in Seq(Entry)
    BY <1>1, <1>3
  <2> QED
    BY <1>1, <2>1, <2>2, <2>3, <2>4 DEF ChatInv, ChatTypeOK, Entry, Awaited
<1>5. OneLoop' /\ TurnsStep
  BY <1>1, <1>2 DEF OneLoop, TurnsStep
<1>6. Ordered'
  BY <1>1, <1>3 DEF Ordered, Line
<1>7. Controlled' /\ ~held'
  BY <1>1 DEF ChatInv, Controlled
<1>8. Numbering(items, row, last)'
  BY <1>1, <1>3 DEF ChatInv, Numbering
<1> QED
  BY <1>4, <1>5, <1>6, <1>7, <1>8 DEF ChatInv
-----------------------------------------------------------------------------
(* The steps of a loop *)

LEMMA AnsweredTyped ==
  ASSUME ChatInv, NEW m \in Message, Answered(m)
  PROVE  answers' \in Seq(Answer)
<1>1. answers \in Seq(Answer) /\ [of |-> m, status |-> "done"] \in Answer
  BY DEF ChatInv, ChatTypeOK, Answer
<1> QED
  BY <1>1 DEF Answered

\* A loop goes on to its next await: nothing but what it awaits, its round and its rows changes.
LEMMA GoesOn ==
  ASSUME ChatInv, NEW m \in Message, turn[m] # "idle", NEW w \in Awaited \ {"idle"}, turn' = [turn EXCEPT ![m] = w],
         round' \in [Message -> 0 .. MaxRounds], extra' \subseteq Message, answers' \in Seq(Answer),
         UNCHANGED << exists, row, text, held, items, current, cut, faults, last >>
  PROVE  ChatInv' /\ TurnsStep
<1>1. turn \in [Message -> Awaited]
  BY DEF ChatInv, ChatTypeOK, Awaited
<1>2. turn' \in [Message -> Awaited] /\ \A n \in Message : turn'[n] # "idle" <=> turn[n] # "idle"
  BY <1>1
<1>3. ChatTypeOK'
  BY <1>2 DEF ChatInv, ChatTypeOK, Awaited, Answer
<1>4. OneLoop' /\ Ordered' /\ Controlled' /\ TurnsStep
  BY <1>2 DEF ChatInv, OneLoop, Ordered, Line, Controlled, TurnsStep
<1>5. (held => Restored(items, row))' /\ Numbering(items, row, last)'
  BY DEF ChatInv, Restored, Item, Numbering
<1> QED
  BY <1>3, <1>4, <1>5 DEF ChatInv

LEMMA LoopKeeps == ASSUME ChatInv, NEW m \in Message, Loop(m) PROVE ChatInv' /\ TurnsStep
<1>1. /\ answers \in Seq(Answer) /\ round \in [Message -> 0 .. MaxRounds]
      /\ extra \in SUBSET Message /\ extra \cup {m} \in SUBSET Message
  BY DEF ChatInv, ChatTypeOK, Answer
<1>2. ASSUME NEW backend \in {"llm", "codex"}, Fails(m, backend) PROVE ChatInv' /\ TurnsStep
  <2>1. turn[m] # "idle" /\ answers' \in Seq(Answer)
    BY <1>1, <1>2 DEF Fails
  <2>2. PICK ex \in SUBSET Message : Finish(m, ex)
    BY <1>1, <1>2 DEF Fails
  <2> QED
    BY <2>1, <2>2, FinishKeeps
<1>3. CASE AnswerText(m)
  <2>1. turn[m] # "idle" /\ answers' \in Seq(Answer)
    BY <1>3, AnsweredTyped DEF AnswerText
  <2>2. CASE Finish(m, extra)
    BY <1>1, <2>1, <2>2, FinishKeeps
  <2>3. CASE ~Finish(m, extra)
    <3>1. turn' = [turn EXCEPT ![m] = "title"]
          /\ UNCHANGED << exists, row, text, extra, held, items, current, round, cut, faults, last >>
      BY <1>3, <2>3 DEF AnswerText
    <3>2. "title" \in Awaited \ {"idle"}
      BY DEF Awaited
    <3> QED
      BY <1>1, <2>1, <3>1, <3>2, GoesOn
  <2> QED
    BY <2>2, <2>3
<1>4. CASE TitleEnds(m)
  BY <1>1, <1>4, FinishKeeps DEF TitleEnds
<1>5. CASE CallTools(m)
  <2>1. turn[m] # "idle" /\ answers' \in Seq(Answer)
    BY <1>5, AnsweredTyped DEF CallTools
  <2>2. turn' = [turn EXCEPT ![m] = "tool"]
        /\ UNCHANGED << exists, row, text, extra, held, items, current, round, cut, faults, last >>
    BY <1>5 DEF CallTools
  <2>3. "tool" \in Awaited \ {"idle"}
    BY DEF Awaited
  <2> QED
    BY <1>1, <2>1, <2>2, <2>3, GoesOn
<1>6. CASE ToolsEnd(m)
  <2>1. turn[m] # "idle" /\ answers' \in Seq(Answer)
    BY <1>1, <1>6 DEF ToolsEnd
  <2>2. CASE Finish(m, extra \cup {m})
    BY <1>1, <2>1, <2>2, FinishKeeps
  <2>3. CASE ~Finish(m, extra \cup {m})
    <3>1. /\ round[m] < MaxRounds /\ round' = [round EXCEPT ![m] = round[m] + 1]
          /\ turn' = [turn EXCEPT ![m] = "llm"] /\ extra' = extra \cup {m}
          /\ UNCHANGED << exists, row, text, held, items, current, cut, faults, last >>
      BY <1>6, <2>3 DEF ToolsEnd
    <3>2. "llm" \in Awaited \ {"idle"}
      BY DEF Awaited
    <3>3. round[m] + 1 \in 0 .. MaxRounds
      BY <1>1, <3>1, ChatConstants
    <3>4. round' \in [Message -> 0 .. MaxRounds]
      BY <1>1, <3>1, <3>3
    <3> QED
      BY <1>1, <2>1, <3>1, <3>2, <3>4, GoesOn
  <2> QED
    BY <2>2, <2>3
<1>7. CASE CodexAnswers(m)
  <2>1. turn[m] # "idle" /\ answers' \in Seq(Answer)
    BY <1>7, AnsweredTyped DEF CodexAnswers
  <2> QED
    BY <1>1, <1>7, <2>1, FinishKeeps DEF CodexAnswers
<1> QED
  BY <1>2, <1>3, <1>4, <1>5, <1>6, <1>7 DEF Loop
-----------------------------------------------------------------------------
(* Every step *)

LEMMA ChatStep == ChatInv /\ [Next]_vars => ChatInv' /\ (UNCHANGED vars \/ TurnsStep)
<1> SUFFICES ASSUME ChatInv, [Next]_vars PROVE ChatInv' /\ (UNCHANGED vars \/ TurnsStep)
  OBVIOUS
<1>1. CASE Send \/ Stop \/ ClearQueue \/ ClearHistory \/ DeleteConversation
  BY <1>1, SendKeeps, StopKeeps, ClearKeeps, HistoryKeeps, DeleteKeeps
<1>2. CASE \E m \in Message : CancelItem(m) \/ EditItem(m)
  BY <1>2, CancelKeeps, EditKeeps
<1>3. CASE Crash
  BY <1>3, CrashKeeps
<1>4. CASE \E m \in Message : Loop(m)
  BY <1>4, LoopKeeps
<1>5. CASE UNCHANGED vars
  <2>1. UNCHANGED << exists, row, text, answers, extra, held, items, current, turn, round, cut, faults, last >>
    BY <1>5 DEF vars, stored, memory
  <2>2. ChatTypeOK'
    BY <2>1 DEF ChatInv, ChatTypeOK
  <2>3. OneLoop' /\ Ordered' /\ Controlled'
    BY <2>1 DEF ChatInv, OneLoop, Ordered, Line, Controlled
  <2>4. (held => Restored(items, row))' /\ Numbering(items, row, last)'
    BY <2>1 DEF ChatInv, Restored, Item, Numbering
  <2> QED
    BY <1>5, <2>2, <2>3, <2>4 DEF ChatInv
<1> QED
  BY <1>1, <1>2, <1>3, <1>4, <1>5 DEF Next, Request

\* What QueueServed says, from the invariant.
LEMMA InvServes == ChatInv => QueueServed
<1> SUFFICES ASSUME ChatInv PROVE QueueServed
  OBVIOUS
<1> DEFINE waiting == { i \in ToSet(items) : i.state = "queued" }
           busy == { m \in Message : turn[m] # "idle" }
<1>1. items \in Seq(Entry)
  BY DEF ChatInv, ChatTypeOK, Entry
<1>2. \A k \in DOMAIN items : items[k] \in Entry
  BY <1>1
<1>3. \A k \in DOMAIN items : items[k].id \in Message /\ items[k].state \in {"queued", "processing"}
  BY <1>2 DEF Entry
<1>4. ToSet(items) = { items[k] : k \in DOMAIN items }
  BY DEF ToSet
<1>5. busy = { m \in Message : m = current }
  BY DEF ChatInv, OneLoop
<1>6. ASSUME NEW m, m \in busy PROVE \E i \in ToSet(items) \ waiting : i.id = m
  <2>1. m = current /\ current # None
    BY <1>5, <1>6, ChatConstants
  <2>2. PICK k \in DOMAIN items : items[k].id = current
    BY <2>1 DEF ChatInv, Ordered
  <2>3. items[k].state = "processing"
    BY <2>2 DEF ChatInv, Ordered
  <2> QED
    BY <1>4, <2>1, <2>2, <2>3
<1>7. ASSUME NEW i \in ToSet(items) \ waiting PROVE i.id \in busy
  <2>1. PICK k \in DOMAIN items : i = items[k]
    BY <1>4
  <2>2. items[k].id = current
    BY <1>3, <1>7, <2>1 DEF ChatInv, Ordered
  <2> QED
    BY <1>3, <1>5, <2>1, <2>2
<1>8. busy = { i.id : i \in ToSet(items) \ waiting }
  BY <1>6, <1>7
<1>9. busy = {} => waiting = {}
  <2> SUFFICES ASSUME busy = {} PROVE items = << >>
    BY <1>4
  <2>1. current \notin Message
    BY <1>5
  <2>2. current = None
    BY <2>1 DEF ChatInv, ChatTypeOK
  <2> QED
    BY <2>2 DEF ChatInv, Ordered
<1>10. held => \A m \in Message : row[m] = "queued" => [id |-> m, state |-> "queued", text |-> text[m]] \in waiting
  BY <1>4 DEF ChatInv, Restored, Item
<1> QED
  BY <1>5, <1>8, <1>9, <1>10 DEF QueueServed
-----------------------------------------------------------------------------
(* What is proved *)

\* At every moment a conversation has one agent loop, its queue is in line, and every
\* queued row is an item of the controller that has the conversation.
THEOREM ChatInvariant == Spec => []ChatInv
<1>1. ChatInv /\ [Next]_vars => ChatInv'
  BY ChatStep
<1> QED
  BY ChatStart, <1>1, PTL DEF Spec

\* The state of the chat is always what its types say, with no round above the limit.
THEOREM ChatTypesHold == Spec => []ChatTypeOK
<1>1. ChatInv => ChatTypeOK
  BY DEF ChatInv
<1> QED
  BY ChatInvariant, <1>1, PTL

\* The turn that runs is the one the controller knows and owns the processing item;
\* nothing waits while none runs, and a restart restores what the controller serves
\* (dispatch, finishGeneration and the handlers of the queue).
THEOREM QueueIsServed == Spec => []QueueServed
BY ChatInvariant, InvServes, PTL

\* Messages get their turns in the order they were sent and at most once, whatever is
\* stopped, cancelled, cleared or restored after a restart (nextQueued, restoreQueue).
THEOREM TurnsAreInOrder == Spec => TurnsInOrder
<1>1. ChatInv /\ [Next]_vars => [TurnsStep]_vars
  BY ChatStep
<1>2. [TurnsStep]_vars => [\A m \in Message : turn[m] = "idle" /\ turn'[m] # "idle" =>
                              m > last /\ \A n \in 1 .. m : row'[n] # "queued"]_vars
  BY DEF TurnsStep
<1> QED
  BY ChatInvariant, <1>1, <1>2, PTL DEF Spec, TurnsInOrder
=============================================================================
