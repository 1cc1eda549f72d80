------------------------- MODULE ActorContractProofs -------------------------
(***************************************************************************)
(* What the actors promise, for any commands, projects, actors, workers    *)
(* and capacities: their mailboxes are bounded, their bookkeeping agrees   *)
(* with the pool's, a goroutine that ends leaves nothing behind, and the   *)
(* composed system implements CommandContract.                             *)
(***************************************************************************)
EXTENDS ProjectActorProofs, FunctionTheorems, SequenceTheorems

-----------------------------------------------------------------------------
(* The inboxes *)

\* An entry is put at the end of one inbox, and the others stay.
Puts(a, e) ==
    /\ \A b \in Actor : Len(inbox[b]) \in Nat /\ DOMAIN inbox[b] = 1 .. Len(inbox[b])
    /\ \A b \in Actor : DOMAIN inbox'[b] = 1 .. (IF b = a THEN Len(inbox[b]) + 1 ELSE Len(inbox[b]))
    /\ \A b \in Actor : \A k \in 1 .. Len(inbox[b]) : inbox'[b][k] = inbox[b][k]
    /\ inbox'[a][Len(inbox[a]) + 1] = e

\* Append does so.
LEMMA AppendPuts ==
  ASSUME inbox \in [Actor -> Seq(Entry)], NEW a \in Actor, NEW e \in Entry,
         inbox' = [inbox EXCEPT ![a] = Append(@, e)]
  PROVE  Puts(a, e)
  <1>1. \A b \in Actor : inbox[b] \in Seq(Entry)
    OBVIOUS
  <1>2. inbox'[a] = Append(inbox[a], e) /\ \A b \in Actor : b # a => inbox'[b] = inbox[b]
    OBVIOUS
  <1>3. \A b \in Actor : Len(inbox[b]) \in Nat /\ DOMAIN inbox[b] = 1 .. Len(inbox[b])
    BY <1>1
  <1>4. DOMAIN inbox'[a] = 1 .. (Len(inbox[a]) + 1)
    BY <1>1, <1>2
  <1>5. \A k \in 1 .. Len(inbox[a]) : inbox'[a][k] = inbox[a][k]
    BY <1>1, <1>2
  <1>6. inbox'[a][Len(inbox[a]) + 1] = e
    BY <1>1, <1>2
  <1> QED BY <1>2, <1>3, <1>4, <1>5, <1>6 DEF Puts

\* The first entry leaves an inbox.
Takes(a) ==
    /\ \A b \in Actor : Len(inbox[b]) \in Nat /\ DOMAIN inbox[b] = 1 .. Len(inbox[b])
    /\ Len(inbox[a]) > 0
    /\ DOMAIN inbox'[a] = 1 .. (Len(inbox[a]) - 1)
    /\ \A k \in 1 .. (Len(inbox[a]) - 1) : inbox'[a][k] = inbox[a][k + 1]
    /\ \A b \in Actor : b # a => inbox'[b] = inbox[b]

\* Receive does so.
LEMMA ReceiveTakes ==
  ASSUME Shape, NEW a \in Actor, Receive(a)
  PROVE  Takes(a)
  <1>1. inbox \in [Actor -> Seq(Entry)] /\ inbox[a] # << >> /\ inbox' = [inbox EXCEPT ![a] = Tail(@)]
    BY DEF Shape, Named, Receive
  <1>2. \A b \in Actor : inbox[b] \in Seq(Entry)
    BY <1>1
  <1>3. \A b \in Actor : Len(inbox[b]) \in Nat /\ DOMAIN inbox[b] = 1 .. Len(inbox[b])
    BY <1>2
  <1>4. inbox'[a] = Tail(inbox[a]) /\ \A b \in Actor : b # a => inbox'[b] = inbox[b]
    BY <1>1
  <1>5. Len(inbox[a]) > 0
    BY <1>1, <1>2
  <1>6. DOMAIN inbox'[a] = 1 .. (Len(inbox[a]) - 1)
    BY <1>1, <1>2, <1>4
  <1>7. \A k \in 1 .. (Len(inbox[a]) - 1) : inbox'[a][k] = inbox[a][k + 1]
    BY <1>1, <1>2, <1>4
  <1> QED BY <1>3, <1>4, <1>5, <1>6, <1>7 DEF Takes

\* Close keeps what is no command, in its order, and adds cancellations of the
\* active commands.
Rebuilds(a) ==
    /\ \A b \in Actor : b # a => inbox'[b] = inbox[b]
    /\ \A k \in DOMAIN inbox'[a] : inbox'[a][k].kind # "command"
    /\ \A k \in DOMAIN inbox'[a] : inbox'[a][k].request \in owned[a] \/ \E m \in DOMAIN inbox[a] : inbox'[a][k] = inbox[a][m]
    /\ \A j, k \in DOMAIN inbox'[a] : inbox'[a][j] = inbox'[a][k] /\ inbox'[a][j].kind = "complete" /\ j # k =>
         \E l, m \in DOMAIN inbox[a] : l # m /\ inbox[a][l] = inbox'[a][j] /\ inbox[a][m] = inbox'[a][j]
    /\ \A k \in DOMAIN inbox'[a] : inbox'[a][k].kind = "complete" =>
         \E m \in DOMAIN inbox[a] : inbox'[a][k] = inbox[a][m]

\* CloseActor does so.
LEMMA CloseRebuilds ==
  ASSUME Shape, NEW a \in Actor, CloseActor(a)
  PROVE  Rebuilds(a)
  <1> DEFINE places == {k \in DOMAIN inbox[a] : inbox[a][k].kind # "command"}
  <1>1. PICK kept \in InOrder(places), order \in SetToSeqs(owned[a]) :
          inbox' = [inbox EXCEPT ![a] =
            [k \in DOMAIN kept |-> @[kept[k]]] \o [k \in DOMAIN order |-> CancelEntry(order[k])]]
    BY DEF CloseActor
  <1> DEFINE old == [k \in DOMAIN kept |-> inbox[a][kept[k]]]
             new == [k \in DOMAIN order |-> CancelEntry(order[k])]
  <1>2. \A b \in Actor : inbox'[b] = IF b = a THEN old \o new ELSE inbox[b]
    BY <1>1 DEF Shape, Named
  <1>3. /\ kept \in [1 .. Cardinality(places) -> places] /\ Cardinality(places) \in Nat
        /\ order \in [1 .. Cardinality(owned[a]) -> owned[a]] /\ Cardinality(owned[a]) \in Nat
    <2>1. /\ kept \in [1 .. Cardinality(places) -> places]
          /\ order \in [1 .. Cardinality(owned[a]) -> owned[a]]
      BY DEF InOrder, SetToSeqs
    <2>2. inbox[a] \in Seq(Entry) /\ owned[a] \subseteq Item
      BY DEF Shape, Named
    <2>3. DOMAIN inbox[a] = 1 .. Len(inbox[a]) /\ Len(inbox[a]) \in Int /\ 1 \in Int
      BY <2>2
    <2>4. IsFiniteSet(1 .. Len(inbox[a])) /\ places \subseteq 1 .. Len(inbox[a])
      BY <2>3, FS_Interval
    <2>5. IsFiniteSet(places) /\ IsFiniteSet(owned[a])
      BY <2>2, <2>4, ItemAssumption, FS_Subset
    <2> QED BY <2>1, <2>5, FS_CardinalityType
  <1>4. \A k \in DOMAIN old : kept[k] \in places /\ old[k] = inbox[a][kept[k]]
    BY <1>3
  <1>5. \A j, k \in DOMAIN old : j < k => kept[j] < kept[k]
    BY DEF InOrder
  <1>6. \A k \in DOMAIN new : new[k].kind = "cancel" /\ new[k].request \in owned[a]
    BY <1>3 DEF CancelEntry
  <1>7. old \in Seq(Entry) /\ new \in Seq(Entry)
    <2>1. \A k \in places : inbox[a][k] \in Entry
      BY DEF Shape, Named
    <2>2. \A k \in DOMAIN order : CancelEntry(order[k]) \in Entry
      BY <1>3 DEF CancelEntry, Entry, Shape, Named
    <2>3. old \in Seq(Entry)
      <3> HIDE DEF places
      <3> QED BY <1>3, <2>1
    <2>4. new \in Seq(Entry)
      BY <1>3, <2>2
    <2> QED BY <2>3, <2>4
  <1>8. \A m \in places : m \in DOMAIN inbox[a] /\ m \in Int /\ inbox[a][m].kind # "command"
    <2>1. inbox[a] \in Seq(Entry)
      BY DEF Shape, Named
    <2> QED BY <2>1
  <1> HIDE DEF old, new, places
  <1>9. inbox'[a] = old \o new /\ DOMAIN inbox'[a] = 1 .. (Len(old) + Len(new))
    <2>1. inbox'[a] = old \o new
      BY <1>2
    <2> QED BY <1>7, <2>1
  <1>10. \A k \in DOMAIN inbox'[a] : IF k <= Len(old) THEN k \in DOMAIN old /\ inbox'[a][k] = old[k]
                                     ELSE (k - Len(old)) \in DOMAIN new /\ inbox'[a][k] = new[k - Len(old)]
    <2>1. ASSUME NEW k \in 1 .. (Len(old) + Len(new))
          PROVE  (old \o new)[k] = IF k <= Len(old) THEN old[k] ELSE new[k - Len(old)]
      BY <1>7
    <2>2. /\ Len(old) \in Nat /\ DOMAIN old = 1 .. Len(old)
          /\ Len(new) \in Nat /\ DOMAIN new = 1 .. Len(new)
      BY <1>7
    <2>3. ASSUME NEW k \in 1 .. (Len(old) + Len(new))
          PROVE  IF k <= Len(old) THEN k \in DOMAIN old ELSE (k - Len(old)) \in DOMAIN new
      BY <2>2
    <2> QED BY <1>9, <2>1, <2>3
  <1>11. \A k \in DOMAIN inbox'[a] : inbox'[a][k].kind # "command"
    BY <1>4, <1>6, <1>8, <1>10
  <1>12. \A k \in DOMAIN inbox'[a] : inbox'[a][k].request \in owned[a] \/ \E m \in DOMAIN inbox[a] : inbox'[a][k] = inbox[a][m]
    BY <1>4, <1>6, <1>8, <1>10
  <1>13. \A k \in DOMAIN inbox'[a] : inbox'[a][k].kind = "complete" =>
           k \in DOMAIN old /\ kept[k] \in DOMAIN inbox[a] /\ inbox[a][kept[k]] = inbox'[a][k]
    BY <1>4, <1>6, <1>8, <1>10
  <1>14. ASSUME NEW j \in DOMAIN inbox'[a], NEW k \in DOMAIN inbox'[a],
                inbox'[a][j] = inbox'[a][k], inbox'[a][j].kind = "complete", j # k
         PROVE  \E l, m \in DOMAIN inbox[a] : l # m /\ inbox[a][l] = inbox'[a][j] /\ inbox[a][m] = inbox'[a][j]
    <2>1. /\ j \in DOMAIN old /\ k \in DOMAIN old /\ kept[j] \in DOMAIN inbox[a] /\ kept[k] \in DOMAIN inbox[a]
          /\ inbox[a][kept[j]] = inbox'[a][j] /\ inbox[a][kept[k]] = inbox'[a][j]
      BY <1>13, <1>14
    <2>2. kept[j] \in Int /\ kept[k] \in Int
      BY <1>4, <1>8, <2>1
    <2>3. j < k \/ k < j
      BY <1>7, <1>14, <2>1
    <2>4. kept[j] # kept[k]
      BY <1>5, <2>1, <2>2, <2>3
    <2> QED BY <2>1, <2>4
  <1> QED BY <1>2, <1>11, <1>12, <1>13, <1>14 DEF Rebuilds

-----------------------------------------------------------------------------
(* The mailbox: what Submit admits by counts the commands in the inbox. *)

Commands(a) == {k \in DOMAIN inbox[a] : inbox[a][k].kind = "command"}

\* There are finitely many.
LEMMA CommandsFinite ==
  ASSUME Shape, NEW a \in Actor
  PROVE  IsFiniteSet(Commands(a)) /\ Cardinality(Commands(a)) \in Nat
  <1>1. inbox[a] \in Seq(Entry)
    BY DEF Shape, Named
  <1>2. DOMAIN inbox[a] = 1 .. Len(inbox[a]) /\ Len(inbox[a]) \in Int /\ 1 \in Int
    BY <1>1
  <1>3. IsFiniteSet(1 .. Len(inbox[a])) /\ Commands(a) \subseteq 1 .. Len(inbox[a])
    BY <1>2, FS_Interval DEF Commands
  <1> QED BY <1>3, FS_Subset, FS_CardinalityType

\* One more, if a command is put into the inbox.
LEMMA CommandsPut ==
  ASSUME Shape, NEW a \in Actor, NEW e \in Entry, Puts(a, e), NEW b \in Actor
  PROVE  Cardinality(Commands(b))' =
           Cardinality(Commands(b)) + (IF b = a /\ e.kind = "command" THEN 1 ELSE 0)
  <1> DEFINE n == Len(inbox[b]) + 1
  <1>1. n \notin Commands(b) /\ n \in Nat
    BY DEF Puts, Commands
  <1>2. Commands(b)' = IF b = a /\ e.kind = "command" THEN Commands(b) \cup {n} ELSE Commands(b)
    <2>1. CASE b = a
      <3>1. DOMAIN inbox'[b] = DOMAIN inbox[b] \cup {n} /\ inbox'[b][n] = e
        BY <2>1 DEF Puts
      <3>2. \A k \in DOMAIN inbox[b] : inbox'[b][k] = inbox[b][k]
        BY DEF Puts
      <3> QED BY <2>1, <3>1, <3>2 DEF Commands
    <2>2. CASE b # a
      <3>1. DOMAIN inbox'[b] = DOMAIN inbox[b]
        BY <2>2 DEF Puts
      <3>2. \A k \in DOMAIN inbox[b] : inbox'[b][k] = inbox[b][k]
        BY DEF Puts
      <3> QED BY <2>2, <3>1, <3>2 DEF Commands
    <2> QED BY <2>1, <2>2
  <1>3. IsFiniteSet(Commands(b)) /\ Cardinality(Commands(b)) \in Nat
    BY CommandsFinite
  <1>4. Cardinality(Commands(b)') = IF b = a /\ e.kind = "command" THEN Cardinality(Commands(b)) + 1
                                   ELSE Cardinality(Commands(b))
    <2> HIDE DEF n
    <2> QED BY <1>1, <1>2, <1>3, FS_AddElement
  <1> QED BY <1>3, <1>4

\* One less, if the entry taken is a command.
LEMMA CommandsTaken ==
  ASSUME Shape, NEW a \in Actor, Takes(a), NEW b \in Actor
  PROVE  Cardinality(Commands(b))' =
           Cardinality(Commands(b)) - (IF b = a /\ inbox[a][1].kind = "command" THEN 1 ELSE 0)
  <1>1. IsFiniteSet(Commands(b)) /\ Cardinality(Commands(b)) \in Nat
    BY CommandsFinite
  <1>2. CASE b # a
    <2>1. Commands(b)' = Commands(b)
      BY <1>2 DEF Takes, Commands
    <2> QED BY <1>1, <1>2, <2>1
  <1>3. CASE b = a
    <2> DEFINE rest == Commands(a) \ {1}
               moved == Commands(a)'
               f == [k \in rest |-> k - 1]
    <2>1. \A k \in rest : k \in Nat /\ k > 1 /\ k - 1 \in moved
      BY DEF Takes, Commands
    <2>2. \A k \in moved : k \in Nat /\ k + 1 \in rest
      BY DEF Takes, Commands
    <2>3. f \in Bijection(rest, moved)
      <3> HIDE DEF rest, moved
      <3>1. f \in [rest -> moved]
        BY <2>1
      <3>2. \A j, k \in rest : f[j] = f[k] => j = k
        BY <2>1
      <3>3. \A k \in moved : \E j \in rest : f[j] = k
        <4>1. \A k \in moved : f[k + 1] = k
          BY <2>1, <2>2
        <4> QED BY <2>2, <4>1
      <3> QED BY <3>1, <3>2, <3>3, Fun_IsBij
    <2>4. IsFiniteSet(rest) /\ Cardinality(rest) = IF 1 \in Commands(a) THEN Cardinality(Commands(a)) - 1
                                                   ELSE Cardinality(Commands(a))
      BY <1>1, <1>3, FS_RemoveElement
    <2>5. ExistsBijection(rest, moved)
      BY <2>3 DEF ExistsBijection
    <2>6. Cardinality(moved) = Cardinality(rest)
      <3> HIDE DEF rest, moved
      <3> QED BY <2>4, <2>5, FS_Bijection
    <2>7. 1 \in Commands(a) <=> inbox[a][1].kind = "command"
      BY DEF Takes, Commands
    <2> QED BY <1>1, <1>3, <2>4, <2>6, <2>7
  <1> QED BY <1>2, <1>3

\* Commands in an inbox that stays.
LEMMA CommandsStay ==
  ASSUME MailboxRight, UNCHANGED << inbox, queuedCommands >>
  PROVE  MailboxRight'
  BY DEF MailboxRight

\* Every step keeps the counter right.
LEMMA NextMailbox ==
  ASSUME Shape, Managed, MailboxRight, [Next]_vars
  PROVE  MailboxRight'
  <1> USE DEF Commands
  <1>1. \A b \in Actor : /\ queuedCommands[b] = Cardinality(Commands(b))
                         /\ queuedCommands[b] <= ActorQueueCapacity /\ queuedCommands[b] \in Nat
    BY DEF MailboxRight, Managed
  <1> HIDE DEF Commands
  <1>2. ASSUME \A b \in Actor : /\ queuedCommands'[b] = Cardinality(Commands(b))'
                                /\ queuedCommands'[b] <= ActorQueueCapacity
        PROVE  MailboxRight'
    BY <1>2 DEF MailboxRight, Commands
  <1>3. ASSUME NEW i \in Item, Accept(i)
        PROVE  MailboxRight'
    <2> DEFINE a == route[i]
    <2>1. /\ a \in Actor /\ inbox' = [inbox EXCEPT ![a] = Append(@, Command(i))]
          /\ queuedCommands[a] < ActorQueueCapacity /\ queuedCommands' = [queuedCommands EXCEPT ![a] = @ + 1]
      BY <1>3 DEF Accept, Shape, Routed
    <2>2. Command(i) \in Entry /\ Command(i).kind = "command"
      BY DEF Command, Entry
    <2> HIDE DEF a
    <2>3. Puts(a, Command(i))
      BY <2>1, <2>2, AppendPuts DEF Shape, Named
    <2>4. \A b \in Actor : Cardinality(Commands(b))' = Cardinality(Commands(b)) + (IF b = a THEN 1 ELSE 0)
      BY <2>1, <2>2, <2>3, CommandsPut
    <2>5. \A b \in Actor : queuedCommands'[b] = IF b = a THEN queuedCommands[b] + 1 ELSE queuedCommands[b]
      BY <2>1 DEF Managed
    <2>6. ActorQueueCapacity \in Nat
      BY ActorAssumption
    <2> QED BY <1>1, <1>2, <2>1, <2>4, <2>5, <2>6
  <1>4. ASSUME NEW a \in Actor, NEW e \in Entry, e.kind # "command",
               inbox' = [inbox EXCEPT ![a] = Append(@, e)], queuedCommands' = queuedCommands
        PROVE  MailboxRight'
    <2>1. Puts(a, e)
      BY <1>4, AppendPuts DEF Shape, Named
    <2>2. \A b \in Actor : Cardinality(Commands(b))' = Cardinality(Commands(b)) + 0
      BY <1>4, <2>1, CommandsPut
    <2> QED BY <1>1, <1>2, <1>4, <2>2
  <1>5. ASSUME NEW i \in Item, RequestCancel(i)
        PROVE  MailboxRight'
    <2>1. /\ route[i] \in Actor /\ inbox' = [inbox EXCEPT ![route[i]] = Append(@, CancelEntry(i))]
          /\ queuedCommands' = queuedCommands
      BY <1>5 DEF RequestCancel, Shape, Routed
    <2>2. CancelEntry(i) \in Entry /\ CancelEntry(i).kind # "command"
      BY DEF CancelEntry, Entry
    <2> QED BY <1>4, <2>1, <2>2
  <1>6. ASSUME NEW i \in Item, Forward(i)
        PROVE  MailboxRight'
    <2>1. inbox' = [inbox EXCEPT ![route[i]] = Append(inbox[route[i]], Completion(i))] /\ queuedCommands' = queuedCommands
      BY <1>6 DEF Forward
    <2>2. Completion(i) \in Entry /\ Completion(i).kind # "command"
      BY DEF Completion, Entry
    <2>3. route[i] \notin Actor => inbox' = inbox
      BY <2>1, NoUpdate DEF Shape, Named
    <2> QED BY <1>4, <2>1, <2>2, <2>3, CommandsStay
  <1>7. ASSUME NEW a \in Actor, Receive(a)
        PROVE  MailboxRight'
    <2>1. Takes(a)
      BY <1>7, ReceiveTakes
    <2>2. inbox[a][1] = Head(inbox[a])
      BY <1>7 DEF Receive, Shape, Named
    <2>3. queuedCommands' = [queuedCommands EXCEPT ![a] =
            IF inbox[a][1].kind = "command" /\ queuedCommands[a] > 0 THEN @ - 1 ELSE @]
      BY <1>7, <2>2 DEF Receive, Counted
    <2>4. \A b \in Actor : Cardinality(Commands(b))' =
            Cardinality(Commands(b)) - (IF b = a /\ inbox[a][1].kind = "command" THEN 1 ELSE 0)
      BY <2>1, CommandsTaken
    <2>5. inbox[a][1].kind = "command" => Cardinality(Commands(a)) > 0
      <3>1. inbox[a][1].kind = "command" => 1 \in Commands(a)
        BY <2>1 DEF Takes, Commands
      <3>2. IsFiniteSet(Commands(a)) /\ Cardinality(Commands(a)) \in Nat
        BY CommandsFinite
      <3>3. Cardinality(Commands(a)) = 0 => Commands(a) = {}
        BY <3>2, FS_EmptySet
      <3> QED BY <3>1, <3>2, <3>3
    <2>6. \A b \in Actor : queuedCommands'[b] =
            queuedCommands[b] - (IF b = a /\ inbox[a][1].kind = "command" THEN 1 ELSE 0)
      BY <1>1, <2>3, <2>5 DEF Managed
    <2>7. ActorQueueCapacity \in Nat
      BY ActorAssumption
    <2> QED BY <1>1, <1>2, <2>4, <2>6, <2>7
  <1>8. ASSUME NEW a \in Actor, CloseRemoved(a) \/ CloseLinked(a)
        PROVE  MailboxRight'
    <2>1. CloseActor(a)
      BY <1>8 DEF CloseRemoved, CloseLinked
    <2>2. Rebuilds(a)
      BY <2>1, CloseRebuilds
    <2>3. queuedCommands' = [queuedCommands EXCEPT ![a] = 0]
      BY <2>1 DEF CloseActor
    <2>4. Cardinality(Commands(a))' = 0
      <3>1. Commands(a)' = {}
        BY <2>2 DEF Commands, Rebuilds
      <3> QED BY <3>1, FS_EmptySet
    <2>5. \A b \in Actor : b # a => Commands(b)' = Commands(b)
      BY <2>2 DEF Commands, Rebuilds
    <2>6. \A b \in Actor : queuedCommands'[b] = IF b = a THEN 0 ELSE queuedCommands[b]
      BY <2>3 DEF Managed
    <2>7. ActorQueueCapacity \in Nat
      BY ActorAssumption
    <2> QED BY <1>1, <1>2, <2>4, <2>5, <2>6, <2>7
  <1>9. ASSUME NEW i \in Item, Route(i) \/ Refuse(i) \/ CallerLeaves(i)
        PROVE  MailboxRight'
    BY <1>9, CommandsStay DEF Route, Refuse, CallerLeaves, actorVars
  <1>10. (\E p \in Removable : RemoveProject(p)) \/ CloseManager \/ CloseScheduler
         \/ (\E w \in Worker : PoolWorker(w)) \/ UNCHANGED vars => MailboxRight'
    BY CommandsStay DEF RemoveProject, CloseManager, CloseScheduler, PoolWorker, actorVars, vars
  <1>11. ASSUME NEW a \in Actor, ActorStep(a), ~Receive(a)
         PROVE  MailboxRight'
    <2>1. UNCHANGED << inbox, queuedCommands >>
      BY <1>11 DEF ActorStep, Sleep, Leave, Admit, ReserveSlot, CallStart, Launch, Attach,
                   CallCancel, CancelWork, CallComplete, Deliver
    <2> QED BY <2>1, CommandsStay
  <1>12. ASSUME NEW a \in Actor, DropPending(a) \/ StopWork(a)
         PROVE  MailboxRight'
    BY <1>12, CommandsStay DEF DropPending, StopWork
  <1> QED BY <1>3, <1>5, <1>6, <1>7, <1>8, <1>9, <1>10, <1>11, <1>12 DEF Next, Client, CloserStep

\* MailboxRight: the counter that Submit admits by counts the commands in the
\* inbox, through cancellations, completions and Close, and bounds them.
THEOREM MailboxBounded == Safety => []MailboxRight
  <1>1. Init => MailboxRight /\ Managed
    <2> SUFFICES ASSUME Init PROVE MailboxRight
      BY InitTyped
    <2>1. \A a \in Actor : inbox[a] = << >> /\ queuedCommands[a] = 0
      BY DEF Init
    <2>2. Cardinality({}) = 0 /\ ActorQueueCapacity \in Nat
      BY ActorAssumption, FS_EmptySet
    <2>3. \A a \in Actor : Commands(a) = {}
      BY <2>1 DEF Commands
    <2>4. ASSUME NEW a \in Actor
          PROVE  queuedCommands[a] = Cardinality(Commands(a)) /\ queuedCommands[a] <= ActorQueueCapacity
      <3>1. Commands(a) = {} /\ queuedCommands[a] = 0
        BY <2>1, <2>3
      <3>2. Cardinality(Commands(a)) = 0
        BY <2>2, <3>1
      <3> QED BY <2>2, <3>1, <3>2
    <2> QED BY <2>4 DEF MailboxRight, Commands
  <1>2. Shape /\ Managed /\ MailboxRight /\ [Next]_vars => (Managed /\ MailboxRight)'
    BY NextManaged, NextMailbox
  <1> QED BY <1>1, <1>2, ActorsHandCommands, PTL DEF Safety

-----------------------------------------------------------------------------
(* Whatever an actor works on was accepted by it. *)

Of(a) == {i \in Item : Accepted(i) /\ route[i] = a}

Ours ==
    /\ \A a \in Actor : \A k \in DOMAIN inbox[a] : inbox[a][k].request \in Of(a)
    /\ \A a \in Actor : at[a] \in Working => current[a] \in Of(a)
    /\ \A a \in Actor : owned[a] \subseteq Of(a) /\ dropped[a] \subseteq Of(a) /\ stopping[a] \subseteq Of(a)
    /\ \A i \in Item : (forwarding[i] => handle[i]) /\ (handle[i] => Accepted(i))

\* An accepted command stays with its actor.
Settled == \A i \in Item : Accepted(i) => Accepted(i)' /\ route'[i] = route[i]

\* No step takes a command from the actor that accepted it.
LEMMA NextSettled ==
  ASSUME Shape, [Next]_vars
  PROVE  Settled
  <1>1. ASSUME UNCHANGED << route, sequence >>
        PROVE  Settled
    BY <1>1 DEF Settled, Accepted
  <1>2. ASSUME NEW i \in Item, Route(i)
        PROVE  Settled
    <2>1. ~Accepted(i) /\ sequence' = sequence
      BY <1>2, ActorAssumption DEF Route, Shape, Routed
    <2>2. \A j \in Item \ {i} : route'[j] = route[j]
      BY <1>2 DEF Route, Shape, Routed
    <2> QED BY <2>1, <2>2 DEF Settled, Accepted
  <1>3. ASSUME NEW i \in Item, Accept(i)
        PROVE  Settled
    <2> DEFINE n == Cardinality({j \in Item : route[j] = route[i] /\ Accepted(j)})
    <2>1. sequence' = [sequence EXCEPT ![i] = 1 + n] /\ route' = route /\ ~Accepted(i)
      BY <1>3 DEF Accept
    <2> HIDE DEF n
    <2> QED BY <2>1 DEF Settled, Accepted, Shape, Routed
  <1>4. ASSUME NEW i \in Item, Refuse(i)
        PROVE  Settled
    BY <1>4 DEF Refuse, Settled, Accepted, Shape, Routed
  <1>5. ASSUME NEW i \in Item, RequestCancel(i) \/ CallerLeaves(i) \/ Forward(i)
        PROVE  Settled
    BY <1>1, <1>5 DEF RequestCancel, CallerLeaves, Forward, actorVars
  <1>6. (\E p \in Removable : RemoveProject(p)) \/ CloseManager \/ CloseScheduler
        \/ (\E w \in Worker : PoolWorker(w)) \/ UNCHANGED vars => Settled
    BY <1>1 DEF RemoveProject, CloseManager, CloseScheduler, PoolWorker, actorVars, vars
  <1>7. ASSUME NEW a \in Actor, ActorStep(a)
        PROVE  Settled
    <2>1. UNCHANGED << route, sequence >>
      BY <1>7 DEF ActorStep, Sleep, Leave, Receive, Admit, ReserveSlot, CallStart, Launch, Attach,
                  CallCancel, CancelWork, CallComplete, Deliver
    <2> QED BY <1>1, <2>1
  <1>8. ASSUME NEW a \in Actor, CloserStep(a)
        PROVE  Settled
    BY <1>1, <1>8 DEF CloserStep, CloseRemoved, CloseLinked, CloseActor, DropPending, StopWork
  <1> QED BY <1>2, <1>3, <1>4, <1>5, <1>6, <1>7, <1>8 DEF Next, Client

\* What is new anywhere has to be accepted; what is old was.
LEMMA OursKept ==
  ASSUME Ours, Settled,
         \A a \in Actor : \A k \in DOMAIN inbox'[a] :
            \/ \E m \in DOMAIN inbox[a] : inbox'[a][k] = inbox[a][m]
            \/ inbox'[a][k].request \in Of(a)',
         \A a \in Actor : at'[a] \in Working =>
            (at[a] \in Working /\ current'[a] = current[a]) \/ current'[a] \in Of(a),
         \A a \in Actor : /\ owned'[a] \subseteq owned[a] \cup Of(a)
                          /\ dropped'[a] \subseteq dropped[a] \cup Of(a)
                          /\ stopping'[a] \subseteq stopping[a] \cup Of(a),
         \A i \in Item : (forwarding'[i] => handle'[i]) /\ (handle'[i] => handle[i] \/ Accepted(i))
  PROVE  Ours'
  <1>1. \A a \in Actor : Of(a) \subseteq Of(a)'
    BY DEF Of, Settled
  <1>2. \A a \in Actor : \A k \in DOMAIN inbox'[a] : inbox'[a][k].request \in Of(a)'
    BY <1>1 DEF Ours
  <1>3. \A a \in Actor : at'[a] \in Working => current'[a] \in Of(a)'
    BY <1>1 DEF Ours
  <1>4. \A a \in Actor : owned'[a] \subseteq Of(a)' /\ dropped'[a] \subseteq Of(a)' /\ stopping'[a] \subseteq Of(a)'
    BY <1>1 DEF Ours
  <1>5. \A i \in Item : (forwarding'[i] => handle'[i]) /\ (handle'[i] => Accepted(i)')
    BY DEF Ours, Settled
  <1> QED BY <1>2, <1>3, <1>4, <1>5 DEF Ours

\* An entry of an accepted command is put into an inbox.
LEMMA PutsOurs ==
  ASSUME Shape, Ours, Settled, NEW a \in Actor, NEW e \in Entry,
         inbox' = [inbox EXCEPT ![a] = Append(@, e)], e.request \in Of(a)',
         at' = Awake(a), UNCHANGED << current, owned, dropped, stopping, handle >>,
         \A i \in Item : forwarding'[i] => forwarding[i]
  PROVE  Ours'
  <1>1. Puts(a, e)
    BY AppendPuts DEF Shape, Named
  <1>2. \A b \in Actor : \A k \in DOMAIN inbox'[b] :
            \/ \E m \in DOMAIN inbox[b] : inbox'[b][k] = inbox[b][m]
            \/ inbox'[b][k].request \in Of(b)'
    <2>1. ASSUME NEW b \in Actor, NEW k \in DOMAIN inbox'[b]
          PROVE  \/ \E m \in DOMAIN inbox[b] : inbox'[b][k] = inbox[b][m]
                 \/ inbox'[b][k].request \in Of(b)'
      <3>1. k \in DOMAIN inbox[b] => inbox'[b][k] = inbox[b][k]
        BY <1>1 DEF Puts
      <3>2. k \notin DOMAIN inbox[b] => b = a /\ inbox'[b][k] = e
        BY <1>1 DEF Puts
      <3> QED BY <3>1, <3>2
    <2> QED BY <2>1
  <1>3. \A b \in Actor : at'[b] \in Working => at[b] \in Working /\ current'[b] = current[b]
    BY DEF Awake, Shape, Handed, Working
  <1>4. \A i \in Item : (forwarding'[i] => handle'[i]) /\ (handle'[i] => handle[i] \/ Accepted(i))
    BY DEF Ours
  <1> QED BY <1>2, <1>3, <1>4, OursKept

\* The inboxes stay.
LEMMA QuietOurs ==
  ASSUME Shape, Ours, Settled, UNCHANGED inbox,
         \A a \in Actor : at'[a] \in Working => at[a] \in Working /\ current'[a] = current[a],
         \A a \in Actor : /\ owned'[a] \subseteq owned[a] \cup Of(a)
                          /\ dropped'[a] \subseteq dropped[a]
                          /\ stopping'[a] \subseteq stopping[a],
         \A i \in Item : (forwarding'[i] => handle'[i]) /\ (handle'[i] => handle[i] \/ Accepted(i))
  PROVE  Ours'
  <1>1. \A a \in Actor : \A k \in DOMAIN inbox'[a] :
            \/ \E m \in DOMAIN inbox[a] : inbox'[a][k] = inbox[a][m]
            \/ inbox'[a][k].request \in Of(a)'
    OBVIOUS
  <1> QED BY <1>1, OursKept

\* The steps of an actor's goroutine.
LEMMA ActorOurs ==
  ASSUME Shape, Told, Ours, Settled, NEW a \in Actor, ActorStep(a)
  PROVE  Ours'
  <1>1. CASE Receive(a)
    <2>1. Takes(a)
      BY <1>1, ReceiveTakes
    <2>2. inbox[a][1] = Head(inbox[a])
      BY <1>1 DEF Receive, Shape, Named
    <2>3. /\ at' = [at EXCEPT ![a] = inbox[a][1].kind] /\ current' = [current EXCEPT ![a] = inbox[a][1].request]
          /\ UNCHANGED << owned, dropped, stopping, handle, forwarding >>
      BY <1>1, <2>2 DEF Receive, Goes
    <2>4. inbox[a][1].request \in Of(a)
      BY <2>1 DEF Takes, Ours
    <2>5. \A b \in Actor : at'[b] \in Working =>
            (at[b] \in Working /\ current'[b] = current[b]) \/ current'[b] \in Of(b)
      BY <2>3, <2>4 DEF Shape, Handed
    <2>6. \A b \in Actor : \A k \in DOMAIN inbox'[b] :
            \/ \E m \in DOMAIN inbox[b] : inbox'[b][k] = inbox[b][m]
            \/ inbox'[b][k].request \in Of(b)'
      <3>1. ASSUME NEW k \in DOMAIN inbox'[a]
            PROVE  k + 1 \in DOMAIN inbox[a] /\ inbox'[a][k] = inbox[a][k + 1]
        BY <2>1 DEF Takes
      <3>2. \A b \in Actor : b # a => inbox'[b] = inbox[b]
        BY <2>1 DEF Takes
      <3> QED BY <3>1, <3>2
    <2>7. \A i \in Item : (forwarding'[i] => handle'[i]) /\ (handle'[i] => handle[i] \/ Accepted(i))
      BY <2>3 DEF Ours
    <2> QED BY <2>3, <2>5, <2>6, <2>7, OursKept
  <1>2. CASE ~Receive(a)
    <2>1. UNCHANGED << inbox, dropped, stopping >>
      BY <1>2 DEF ActorStep, Sleep, Leave, Admit, ReserveSlot, CallStart, Launch, Attach,
                  CallCancel, CancelWork, CallComplete, Deliver
    <2>2. \/ \E label \in {"next", "waiting", "exited"} : at' = [at EXCEPT ![a] = label]
          \/ /\ at[a] \in Working /\ current' = current
             /\ \E label : at' = [at EXCEPT ![a] = label]
      BY <1>2 DEF ActorStep, Sleep, Leave, Admit, ReserveSlot, CallStart, Launch, Attach,
                  CallCancel, CancelWork, CallComplete, Deliver, Loops, Goes, Resolves, Working
    <2>3. current' = current \/ current' = [current EXCEPT ![a] = NoItem]
      BY <1>2 DEF ActorStep, Sleep, Leave, Admit, ReserveSlot, CallStart, Launch, Attach,
                  CallCancel, CancelWork, CallComplete, Deliver, Loops
    <2>4. \A b \in Actor : at'[b] \in Working => at[b] \in Working /\ current'[b] = current[b]
      BY <2>2, <2>3 DEF Shape, Handed, Working
    <2>5. (Admit(a) \/ Attach(a)) => current[a] \in Of(a)
      BY DEF Admit, Attach, Working, Ours
    <2>6. \A b \in Actor : owned'[b] \subseteq owned[b] \cup Of(b)
      <3>1. owned' = owned \/ owned' = [owned EXCEPT ![a] = @ \ {current[a]}]
            \/ (Admit(a) /\ owned' = [owned EXCEPT ![a] = @ \cup {current[a]}])
        BY <1>2 DEF ActorStep, Sleep, Leave, Admit, ReserveSlot, CallStart, Launch, Attach,
                    CallCancel, CancelWork, CallComplete, Deliver
      <3> QED BY <2>5, <3>1 DEF Shape, Named
    <2>7. \A i \in Item : (forwarding'[i] => handle'[i]) /\ (handle'[i] => handle[i] \/ Accepted(i))
      <3>1. \/ UNCHANGED << handle, forwarding >>
            \/ Attach(a) /\ handle' = [handle EXCEPT ![current[a]] = TRUE] /\ forwarding' = [forwarding EXCEPT ![current[a]] = TRUE]
        BY <1>2 DEF ActorStep, Sleep, Leave, Admit, ReserveSlot, CallStart, Launch, Attach,
                    CallCancel, CancelWork, CallComplete, Deliver
      <3>2. CASE UNCHANGED << handle, forwarding >>
        BY <3>2 DEF Ours
      <3>3. CASE Attach(a) /\ handle' = [handle EXCEPT ![current[a]] = TRUE]
                 /\ forwarding' = [forwarding EXCEPT ![current[a]] = TRUE]
        <4>1. Accepted(current[a]) /\ current[a] \in Item
          BY <2>5, <3>3 DEF Of
        <4>2. \A i \in Item : i # current[a] => handle'[i] = handle[i] /\ forwarding'[i] = forwarding[i]
          BY <3>3
        <4>3. handle'[current[a]]
          BY <3>3, <4>1 DEF Told
        <4> QED BY <4>1, <4>2, <4>3 DEF Ours
      <3> QED BY <3>1, <3>2, <3>3
    <2> QED BY <2>1, <2>4, <2>6, <2>7, QuietOurs
  <1> QED BY <1>1, <1>2

\* And the others.
LEMMA NextOurs ==
  ASSUME Shape, Told, Ours, [Next]_vars
  PROVE  Ours'
  <1> USE NextSettled
  <1>1. ASSUME UNCHANGED << inbox, current, handle, forwarding >>,
               \A a \in Actor : at'[a] \in Working => at[a] \in Working,
               \A a \in Actor : /\ owned'[a] \subseteq owned[a]
                                /\ dropped'[a] \subseteq dropped[a]
                                /\ stopping'[a] \subseteq stopping[a]
        PROVE  Ours'
    <2>1. \A i \in Item : (forwarding'[i] => handle'[i]) /\ (handle'[i] => handle[i] \/ Accepted(i))
      BY <1>1 DEF Ours
    <2> QED BY <1>1, <2>1, QuietOurs
  <1>2. ASSUME NEW i \in Item, Route(i) \/ Refuse(i) \/ CallerLeaves(i)
        PROVE  Ours'
    <2>1. UNCHANGED << inbox, current, handle, forwarding, owned, dropped, stopping >>
      BY <1>2 DEF Route, Refuse, CallerLeaves, actorVars
    <2>2. at' = at \/ \E a \in Actor : at' = [at EXCEPT ![a] = "next"]
      BY <1>2 DEF Route, Refuse, CallerLeaves, actorVars
    <2>3. \A a \in Actor : at'[a] \in Working => at[a] \in Working
      BY <2>2 DEF Shape, Handed, Working
    <2> QED BY <1>1, <2>1, <2>3
  <1>3. ASSUME NEW i \in Item, Accept(i) \/ RequestCancel(i)
        PROVE  Ours'
    <2>1. route[i] \in Actor /\ route'[i] = route[i]
      BY <1>3 DEF Accept, RequestCancel, Shape, Routed
    <2>2. PICK e \in {Command(i), CancelEntry(i)} : inbox' = [inbox EXCEPT ![route[i]] = Append(@, e)]
      BY <1>3 DEF Accept, RequestCancel
    <2>3. e \in Entry /\ e.request = i
      BY DEF Command, CancelEntry, Entry
    <2>4. Accepted(i)'
      <3>1. CASE RequestCancel(i)
        BY <3>1 DEF RequestCancel, Settled
      <3>2. CASE Accept(i)
        <4> DEFINE n == Cardinality({j \in Item : route[j] = route[i] /\ Accepted(j)})
        <4>1. sequence' = [sequence EXCEPT ![i] = 1 + n]
          BY <3>2 DEF Accept
        <4>2. n \in Nat
          <5>1. IsFiniteSet({j \in Item : route[j] = route[i] /\ Accepted(j)})
            BY ItemAssumption, FS_Subset
          <5> QED BY <5>1, FS_CardinalityType
        <4> HIDE DEF n
        <4>3. sequence'[i] = 1 + n
          BY <4>1 DEF Shape, Routed
        <4> QED BY <4>2, <4>3 DEF Accepted
      <3> QED BY <1>3, <3>1, <3>2
    <2>5. e.request \in Of(route[i])'
      BY <2>1, <2>3, <2>4 DEF Of
    <2>6. at' = Awake(route[i]) /\ UNCHANGED << current, owned, dropped, stopping, handle, forwarding >>
      BY <1>3 DEF Accept, RequestCancel
    <2> QED BY <2>1, <2>2, <2>3, <2>5, <2>6, PutsOurs
  <1>4. ASSUME NEW i \in Item, Forward(i)
        PROVE  Ours'
    <2>1. Accepted(i) /\ route[i] \in Actor /\ route'[i] = route[i] /\ Accepted(i)'
      BY <1>4 DEF Forward, Ours, Shape, Routed, Settled
    <2>2. Completion(i) \in Entry /\ Completion(i).request = i /\ i \in Of(route[i])'
      BY <2>1 DEF Completion, Entry, Of
    <2>3. /\ inbox' = [inbox EXCEPT ![route[i]] = Append(@, Completion(i))]
          /\ at' = Awake(route[i]) /\ UNCHANGED << current, owned, dropped, stopping, handle >>
      BY <1>4 DEF Forward
    <2>4. \A j \in Item : forwarding'[j] => forwarding[j]
      BY <1>4 DEF Forward, Told
    <2> QED BY <2>1, <2>2, <2>3, <2>4, PutsOurs
  <1>5. ASSUME NEW a \in Actor, CloseRemoved(a) \/ CloseLinked(a)
        PROVE  Ours'
    <2>1. CloseActor(a)
      BY <1>5 DEF CloseRemoved, CloseLinked
    <2>2. Rebuilds(a)
      BY <2>1, CloseRebuilds
    <2> DEFINE pending == {i \in Item : Command(i) \in ToSet(inbox[a])}
    <2>3. /\ dropped' = [dropped EXCEPT ![a] = pending] /\ stopping' = [stopping EXCEPT ![a] = owned[a]]
          /\ at' = Awake(a) /\ UNCHANGED << owned, current, handle, forwarding, route, sequence >>
      BY <2>1 DEF CloseActor
    <2>4. pending \subseteq Of(a)
      <3>1. ASSUME NEW i \in Item, Command(i) \in ToSet(inbox[a])
            PROVE  i \in Of(a)
        <4>1. PICK k \in DOMAIN inbox[a] : inbox[a][k] = Command(i)
          BY <3>1 DEF ToSet
        <4>2. inbox[a][k].request = i
          BY <4>1 DEF Command
        <4> QED BY <4>2 DEF Ours
      <3> QED BY <3>1
    <2> HIDE DEF pending
    <2>5. \A b \in Actor : owned[b] \subseteq Of(b)
      BY DEF Ours
    <2>6. \A b \in Actor : /\ owned'[b] \subseteq owned[b] \cup Of(b)
                           /\ dropped'[b] \subseteq dropped[b] \cup Of(b)
                           /\ stopping'[b] \subseteq stopping[b] \cup Of(b)
      BY <2>3, <2>4, <2>5 DEF Shape, Named
    <2>7. \A b \in Actor : at'[b] \in Working => at[b] \in Working /\ current'[b] = current[b]
      BY <2>3 DEF Awake, Shape, Handed, Working
    <2>8. \A b \in Actor : Of(b)' = Of(b)
      BY <2>3 DEF Of, Accepted
    <2>9. \A b \in Actor : \A k \in DOMAIN inbox'[b] :
            \/ \E m \in DOMAIN inbox[b] : inbox'[b][k] = inbox[b][m]
            \/ inbox'[b][k].request \in Of(b)'
      BY <2>2, <2>5, <2>8 DEF Rebuilds
    <2>10. \A i \in Item : (forwarding'[i] => handle'[i]) /\ (handle'[i] => handle[i] \/ Accepted(i))
      BY <2>3 DEF Ours
    <2> QED BY <2>6, <2>7, <2>9, <2>10, OursKept
  <1>6. ASSUME NEW a \in Actor, DropPending(a) \/ StopWork(a)
        PROVE  Ours'
    <2>1. UNCHANGED << inbox, current, handle, forwarding >> /\ (at' = at \/ at' = Awake(a))
      BY <1>6 DEF DropPending, StopWork
    <2>2. \A b \in Actor : at'[b] \in Working => at[b] \in Working
      BY <2>1 DEF Awake, Shape, Handed, Working
    <2>3. \E x : /\ owned' = [owned EXCEPT ![a] = @ \ {x}] \/ owned' = owned
                 /\ dropped' = [dropped EXCEPT ![a] = @ \ {x}] \/ dropped' = dropped
                 /\ stopping' = [stopping EXCEPT ![a] = @ \ {x}] \/ stopping' = stopping
      BY <1>6 DEF DropPending, StopWork
    <2>4. \A b \in Actor : /\ owned'[b] \subseteq owned[b]
                           /\ dropped'[b] \subseteq dropped[b]
                           /\ stopping'[b] \subseteq stopping[b]
      BY <2>3 DEF Shape, Named
    <2> QED BY <1>1, <2>1, <2>2, <2>4
  <1>7. (\E p \in Removable : RemoveProject(p)) \/ CloseManager \/ CloseScheduler
        \/ (\E w \in Worker : PoolWorker(w)) \/ UNCHANGED vars => Ours'
    <2>1. (\E p \in Removable : RemoveProject(p)) \/ CloseManager \/ CloseScheduler
          \/ (\E w \in Worker : PoolWorker(w)) \/ UNCHANGED vars
            => UNCHANGED << inbox, current, handle, forwarding, at, owned, dropped, stopping >>
      BY DEF RemoveProject, CloseManager, CloseScheduler, PoolWorker, actorVars, vars
    <2> QED BY <1>1, <2>1
  <1> QED BY <1>2, <1>3, <1>4, <1>5, <1>6, <1>7, ActorOurs DEF Next, Client, CloserStep

-----------------------------------------------------------------------------
(* The order of the commands *)

\* The commands of an actor are as many as its last one is told.
Numbered == \A a \in Actor : \A i \in Of(a) : sequence[i] <= Cardinality(Of(a))

\* Only Accept gives an actor a command.
LEMMA OfStays ==
  ASSUME Shape, [Next]_vars, ~\E i \in Item : Accept(i)
  PROVE  sequence' = sequence /\ \A a \in Actor : Of(a)' = Of(a)
  <1>1. ASSUME UNCHANGED << route, sequence >>
        PROVE  sequence' = sequence /\ \A a \in Actor : Of(a)' = Of(a)
    BY <1>1 DEF Of, Accepted
  <1>2. ASSUME NEW i \in Item, Route(i) \/ Refuse(i)
        PROVE  sequence' = sequence /\ \A a \in Actor : Of(a)' = Of(a)
    <2>1. ~Accepted(i) /\ sequence' = sequence
      BY <1>2, ActorAssumption DEF Route, Refuse, Shape, Routed
    <2>2. \A j \in Item \ {i} : route'[j] = route[j]
      BY <1>2 DEF Route, Refuse, Shape, Routed
    <2> QED BY <2>1, <2>2 DEF Of, Accepted
  <1>3. ASSUME NEW i \in Item, RequestCancel(i) \/ CallerLeaves(i) \/ Forward(i)
        PROVE  UNCHANGED << route, sequence >>
    BY <1>3 DEF RequestCancel, CallerLeaves, Forward, actorVars
  <1>4. (\E p \in Removable : RemoveProject(p)) \/ CloseManager \/ CloseScheduler
        \/ (\E w \in Worker : PoolWorker(w)) \/ UNCHANGED vars => UNCHANGED << route, sequence >>
    BY DEF RemoveProject, CloseManager, CloseScheduler, PoolWorker, actorVars, vars
  <1>5. ASSUME NEW a \in Actor, ActorStep(a)
        PROVE  UNCHANGED << route, sequence >>
    BY <1>5 DEF ActorStep, Sleep, Leave, Receive, Admit, ReserveSlot, CallStart, Launch, Attach,
                CallCancel, CancelWork, CallComplete, Deliver
  <1>6. ASSUME NEW a \in Actor, CloserStep(a)
        PROVE  UNCHANGED << route, sequence >>
    BY <1>6 DEF CloserStep, CloseRemoved, CloseLinked, CloseActor, DropPending, StopWork
  <1> QED BY <1>1, <1>2, <1>3, <1>4, <1>5, <1>6 DEF Next, Client

\* Accept numbers the command with how many it makes.
LEMMA AcceptNumbers ==
  ASSUME Shape, NEW i \in Item, Accept(i)
  PROVE  /\ route[i] \in Actor /\ i \notin Of(route[i])
         /\ \A a \in Actor : Of(a)' = IF a = route[i] THEN Of(a) \cup {i} ELSE Of(a)
         /\ \A a \in Actor : IsFiniteSet(Of(a)) /\ Cardinality(Of(a)) \in Nat
         /\ sequence'[i] = 1 + Cardinality(Of(route[i]))
         /\ \A a \in Actor : Cardinality(Of(a))' = Cardinality(Of(a)) + (IF a = route[i] THEN 1 ELSE 0)
         /\ \A j \in Item \ {i} : sequence'[j] = sequence[j]
  <1>1. route[i] \in Actor /\ ~Accepted(i) /\ route' = route
    BY DEF Accept, Shape, Routed
  <1>2. \A a \in Actor : IsFiniteSet(Of(a)) /\ Cardinality(Of(a)) \in Nat
    <2>1. \A a \in Actor : Of(a) \subseteq Item
      BY DEF Of
    <2> QED BY <2>1, ItemAssumption, FS_Subset, FS_CardinalityType
  <1>3. Of(route[i]) = {j \in Item : route[j] = route[i] /\ Accepted(j)}
    BY DEF Of
  <1>4. sequence' = [sequence EXCEPT ![i] = 1 + Cardinality(Of(route[i]))]
    BY <1>3 DEF Accept
  <1>5. sequence'[i] = 1 + Cardinality(Of(route[i])) /\ \A j \in Item \ {i} : sequence'[j] = sequence[j]
    BY <1>4 DEF Shape, Routed
  <1>6. Accepted(i)'
    BY <1>1, <1>2, <1>5 DEF Accepted
  <1>7. \A a \in Actor : Of(a)' = IF a = route[i] THEN Of(a) \cup {i} ELSE Of(a)
    BY <1>1, <1>5, <1>6 DEF Of, Accepted
  <1>8. i \notin Of(route[i])
    BY <1>1 DEF Of
  <1>9. ASSUME NEW a \in Actor
        PROVE  Cardinality(Of(a))' = Cardinality(Of(a)) + (IF a = route[i] THEN 1 ELSE 0)
    <2>1. CASE a = route[i]
      <3>1. Of(a)' = Of(a) \cup {i} /\ i \notin Of(a)
        BY <1>7, <1>8, <2>1
      <3>2. Cardinality(Of(a) \cup {i}) = Cardinality(Of(a)) + 1
        BY <1>2, <3>1, FS_AddElement
      <3> QED BY <2>1, <3>1, <3>2
    <2>2. CASE a # route[i]
      <3>1. Of(a)' = Of(a)
        BY <1>7, <2>2
      <3> QED BY <1>2, <2>2, <3>1
    <2> QED BY <2>1, <2>2
  <1> QED BY <1>1, <1>2, <1>5, <1>7, <1>8, <1>9

\* Every step keeps the numbers below the count.
LEMMA NextNumbered ==
  ASSUME Shape, Numbered, [Next]_vars
  PROVE  Numbered'
  <1>1. ASSUME ~\E i \in Item : Accept(i)
        PROVE  Numbered'
    BY <1>1, OfStays DEF Numbered
  <1>2. ASSUME NEW i \in Item, Accept(i)
        PROVE  Numbered'
    <2>1. /\ route[i] \in Actor /\ i \notin Of(route[i])
          /\ \A a \in Actor : Of(a)' = IF a = route[i] THEN Of(a) \cup {i} ELSE Of(a)
          /\ \A a \in Actor : IsFiniteSet(Of(a)) /\ Cardinality(Of(a)) \in Nat
          /\ sequence'[i] = 1 + Cardinality(Of(route[i]))
          /\ \A a \in Actor : Cardinality(Of(a))' = Cardinality(Of(a)) + (IF a = route[i] THEN 1 ELSE 0)
          /\ \A j \in Item \ {i} : sequence'[j] = sequence[j]
      BY <1>2, AcceptNumbers
    <2>2. ASSUME NEW a \in Actor, NEW j \in Of(a)'
          PROVE  sequence'[j] <= Cardinality(Of(a))'
      <3>1. CASE a # route[i]
        <4>1. Of(a)' = Of(a) /\ j \in Of(a)
          BY <2>1, <2>2, <3>1
        <4>2. j # i /\ j \in Item
          BY <3>1, <4>1 DEF Of
        <4>3. Cardinality(Of(a))' = Cardinality(Of(a)) /\ sequence'[j] = sequence[j]
          BY <2>1, <3>1, <4>2
        <4> QED BY <4>1, <4>3 DEF Numbered
      <3>2. CASE a = route[i] /\ j = i
        BY <2>1, <3>2
      <3>3. CASE a = route[i] /\ j # i
        <4>1. j \in Of(a) /\ j \in Item
          BY <2>1, <2>2, <3>3 DEF Of
        <4>2. sequence[j] <= Cardinality(Of(a)) /\ sequence[j] \in Nat
          BY <4>1 DEF Numbered, Shape, Routed
        <4> QED BY <2>1, <3>3, <4>1, <4>2
      <3> QED BY <3>1, <3>2, <3>3
    <2> QED BY <2>2 DEF Numbered
  <1> QED BY <1>1, <1>2

\* The commands that wait in an inbox, and those that Close still has to answer.
Pending(a) == {i \in Item : \E k \in DOMAIN inbox[a] : inbox[a][k] = Command(i)}
Line(a) == Pending(a) \cup dropped[a]

Early == {"command", "reserve", "start", "launch", "attach"}

\* Commands leave the inbox in the order they are numbered: those that wait are
\* in order, and the one in the hands of the actor came before them.
InLine ==
    \A a \in Actor :
        /\ shut[a] => Pending(a) = {}
        /\ ~shut[a] => dropped[a] = {}
        /\ \A j, k \in DOMAIN inbox[a] : j < k /\ inbox[a][j].kind = "command" /\ inbox[a][k].kind = "command"
             => sequence[inbox[a][j].request] < sequence[inbox[a][k].request]
        /\ at[a] \in Early => \A j \in Line(a) : sequence[current[a]] < sequence[j]

\* An entry is known by its kind and its request.
LEMMA EntryIs ==
  ASSUME NEW e \in Entry, e.kind = "command"
  PROVE  e = Command(e.request) /\ e.request \in Item
  BY DEF Entry, Command

\* Those pending are the requests of the commands in the inbox.
LEMMA PendingIs ==
  ASSUME Shape, NEW a \in Actor
  PROVE  /\ \A k \in DOMAIN inbox[a] : inbox[a][k].kind = "command" => inbox[a][k].request \in Pending(a)
         /\ \A i \in Pending(a) : \E k \in DOMAIN inbox[a] : inbox[a][k].kind = "command" /\ inbox[a][k].request = i
         /\ Line(a) \subseteq Item
  <1>1. \A k \in DOMAIN inbox[a] : inbox[a][k] \in Entry
    BY DEF Shape, Named
  <1>2. \A k \in DOMAIN inbox[a] : inbox[a][k].kind = "command" => inbox[a][k].request \in Pending(a)
    BY <1>1, EntryIs DEF Pending
  <1>3. \A i \in Pending(a) : \E k \in DOMAIN inbox[a] : inbox[a][k].kind = "command" /\ inbox[a][k].request = i
    BY DEF Pending, Command
  <1> QED BY <1>2, <1>3 DEF Line, Pending, Shape, Named

\* An entry is put into an inbox.
LEMMA PendingPut ==
  ASSUME NEW a \in Actor, NEW e \in Entry, Puts(a, e), NEW b \in Actor
  PROVE  Pending(b)' = IF b = a /\ e.kind = "command" THEN Pending(b) \cup {e.request} ELSE Pending(b)
  <1>1. \A k \in DOMAIN inbox[b] : k \in DOMAIN inbox'[b] /\ inbox'[b][k] = inbox[b][k]
    BY DEF Puts
  <1>2. \A k \in DOMAIN inbox'[b] : k \in DOMAIN inbox[b] \/ (b = a /\ inbox'[b][k] = e)
    BY DEF Puts
  <1>3. b = a => \E k \in DOMAIN inbox'[b] : inbox'[b][k] = e
    BY DEF Puts
  <1>4. \A i \in Item : e = Command(i) <=> e.kind = "command" /\ e.request = i
    BY EntryIs DEF Command
  <1>5. e.request \in Item
    BY DEF Entry
  <1> QED BY <1>1, <1>2, <1>3, <1>4, <1>5 DEF Pending

\* The inboxes stay, and the line gets shorter if it changes.
LEMMA LineShrinks ==
  ASSUME InLine, UNCHANGED << sequence, inbox, shut >>,
         \A a \in Actor : dropped'[a] \subseteq dropped[a],
         \A a \in Actor : at'[a] \in Early => at[a] \in Early /\ current'[a] = current[a]
  PROVE  InLine'
  <1>1. \A a \in Actor : Pending(a)' = Pending(a) /\ Line(a)' \subseteq Line(a)
    BY DEF Pending, Line
  <1> QED BY <1>1 DEF InLine

\* An entry that is no command is put into an inbox.
LEMMA OtherInLine ==
  ASSUME Shape, InLine, NEW a \in Actor, NEW e \in Entry, e.kind # "command",
         inbox' = [inbox EXCEPT ![a] = Append(@, e)], at' = Awake(a),
         UNCHANGED << sequence, shut, dropped, current >>
  PROVE  InLine'
  <1>1. Puts(a, e)
    BY AppendPuts DEF Shape, Named
  <1>2. \A b \in Actor : Pending(b)' = Pending(b)
    BY <1>1, PendingPut
  <1>3. \A b \in Actor : Line(b)' = Line(b)
    BY <1>2 DEF Line
  <1>4. \A b \in Actor : at'[b] \in Early => at[b] \in Early
    BY DEF Awake, Shape, Handed, Early
  <1>5. ASSUME NEW b \in Actor, NEW j \in DOMAIN inbox'[b], NEW k \in DOMAIN inbox'[b], j < k,
               inbox'[b][j].kind = "command", inbox'[b][k].kind = "command"
        PROVE  sequence[inbox'[b][j].request] < sequence[inbox'[b][k].request]
    <2>1. j \in DOMAIN inbox[b] /\ k \in DOMAIN inbox[b]
      BY <1>1, <1>5 DEF Puts
    <2>2. inbox'[b][j] = inbox[b][j] /\ inbox'[b][k] = inbox[b][k]
      BY <1>1, <2>1 DEF Puts
    <2> QED BY <1>5, <2>1, <2>2 DEF InLine
  <1> QED BY <1>2, <1>3, <1>4, <1>5 DEF InLine

\* An accepted command is the last of the line.
LEMMA AcceptInLine ==
  ASSUME Shape, Ours, Numbered, InLine, NEW i \in Item, Accept(i)
  PROVE  InLine'
  <1> DEFINE a == route[i]
             n == Cardinality(Of(a))
  <1>1. /\ a \in Actor /\ n \in Nat /\ i \notin Of(a) /\ sequence'[i] = 1 + n
        /\ \A j \in Item \ {i} : sequence'[j] = sequence[j]
    BY AcceptNumbers
  <1>2. \A j \in Of(a) : sequence[j] <= n /\ sequence[j] \in Nat /\ j \in Item /\ j # i
    BY <1>1 DEF Numbered, Of, Shape, Routed
  <1>3. /\ inbox' = [inbox EXCEPT ![a] = Append(@, Command(i))] /\ at' = Awake(a) /\ ~shut[a] /\ ~Accepted(i)
        /\ UNCHANGED << shut, dropped, current >>
    BY DEF Accept
  <1> HIDE DEF n, a
  <1>4. Command(i) \in Entry /\ Command(i).kind = "command" /\ Command(i).request = i
    BY DEF Command, Entry
  <1>5. Puts(a, Command(i))
    BY <1>1, <1>3, <1>4, AppendPuts DEF Shape, Named
  <1>6. \A b \in Actor : Pending(b)' = IF b = a THEN Pending(b) \cup {i} ELSE Pending(b)
    BY <1>1, <1>4, <1>5, PendingPut
  <1>7. \A b \in Actor : Line(b)' = IF b = a THEN Line(b) \cup {i} ELSE Line(b)
    BY <1>6, <1>3 DEF Line
  <1>8. \A b \in Actor : at'[b] \in Early => at[b] \in Early
    BY <1>3 DEF Awake, Shape, Handed, Early
  <1>9. \A b \in Actor : \A j \in Of(b) : j \in Item \ {i}
    BY <1>3 DEF Of
  <1>10. \A b \in Actor : Line(b) \subseteq Of(b)
    BY PendingIs DEF Line, Ours
  <1>11. ASSUME NEW b \in Actor, at'[b] \in Early, NEW j \in Line(b)'
         PROVE  sequence'[current'[b]] < sequence'[j]
    <2>1. at[b] \in Early /\ current'[b] = current[b] /\ current[b] \in Of(b)
      BY <1>3, <1>8, <1>11 DEF Ours, Early, Working
    <2>2. sequence'[current'[b]] = sequence[current[b]]
      BY <1>1, <1>9, <2>1
    <2>3. CASE j \in Line(b)
      <3>1. sequence'[j] = sequence[j]
        BY <1>1, <1>9, <1>10, <2>3
      <3> QED BY <2>1, <2>2, <2>3, <3>1 DEF InLine
    <2>4. CASE j \notin Line(b)
      <3>1. b = a /\ j = i
        BY <1>7, <1>11, <2>4
      <3> QED BY <1>1, <1>2, <2>1, <2>2, <3>1
    <2> QED BY <2>3, <2>4
  <1>12. ASSUME NEW b \in Actor, NEW j \in DOMAIN inbox'[b], NEW k \in DOMAIN inbox'[b], j < k,
                inbox'[b][j].kind = "command", inbox'[b][k].kind = "command"
         PROVE  sequence'[inbox'[b][j].request] < sequence'[inbox'[b][k].request]
    <2>1. j \in DOMAIN inbox[b] /\ inbox'[b][j] = inbox[b][j]
      BY <1>5, <1>12 DEF Puts
    <2>2. inbox[b][j].request \in Of(b)
      BY <2>1 DEF Ours
    <2>3. sequence'[inbox'[b][j].request] = sequence[inbox[b][j].request]
      BY <1>1, <1>9, <2>1, <2>2
    <2>4. CASE k \in DOMAIN inbox[b]
      <3>1. inbox'[b][k] = inbox[b][k] /\ inbox[b][k].request \in Of(b)
        BY <1>5, <2>4 DEF Puts, Ours
      <3>2. sequence'[inbox'[b][k].request] = sequence[inbox[b][k].request]
        BY <1>1, <1>9, <3>1
      <3> QED BY <1>12, <2>1, <2>3, <2>4, <3>1, <3>2 DEF InLine
    <2>5. CASE k \notin DOMAIN inbox[b]
      <3>1. b = a /\ inbox'[b][k].request = i
        BY <1>4, <1>5, <2>5 DEF Puts
      <3> QED BY <1>1, <1>2, <2>2, <2>3, <3>1
    <2> QED BY <2>4, <2>5
  <1>13. \A b \in Actor : (shut'[b] => Pending(b)' = {}) /\ (~shut'[b] => dropped'[b] = {})
    BY <1>3, <1>6 DEF InLine
  <1> QED BY <1>11, <1>12, <1>13 DEF InLine

\* The command received came before those left.
LEMMA ReceiveInLine ==
  ASSUME Shape, InLine, NEW a \in Actor, Receive(a)
  PROVE  InLine'
  <1>1. Takes(a)
    BY ReceiveTakes
  <1>2. inbox[a][1] = Head(inbox[a]) /\ inbox[a][1] \in Entry
    BY DEF Receive, Shape, Named
  <1>3. /\ at' = [at EXCEPT ![a] = inbox[a][1].kind] /\ current' = [current EXCEPT ![a] = inbox[a][1].request]
        /\ UNCHANGED << sequence, shut, dropped >>
    BY <1>2 DEF Receive, Goes
  <1>4. \A k \in DOMAIN inbox'[a] : /\ k + 1 \in DOMAIN inbox[a] /\ inbox'[a][k] = inbox[a][k + 1]
                                    /\ k \in Nat /\ 1 \in DOMAIN inbox[a] /\ 1 < k + 1
    BY <1>1 DEF Takes
  <1>5. \A b \in Actor : b # a => inbox'[b] = inbox[b]
    BY <1>1 DEF Takes
  <1>6. Pending(a)' \subseteq Pending(a)
    BY <1>4 DEF Pending
  <1>7. \A b \in Actor : Pending(b)' \subseteq Pending(b)
    BY <1>5, <1>6 DEF Pending
  <1>8. \A b \in Actor : (shut'[b] => Pending(b)' = {}) /\ (~shut'[b] => dropped'[b] = {})
    BY <1>3, <1>7 DEF InLine
  <1>9. ASSUME NEW b \in Actor, NEW j \in DOMAIN inbox'[b], NEW k \in DOMAIN inbox'[b], j < k,
               inbox'[b][j].kind = "command", inbox'[b][k].kind = "command"
        PROVE  sequence[inbox'[b][j].request] < sequence[inbox'[b][k].request]
    <2>1. CASE b # a
      BY <1>5, <1>9, <2>1 DEF InLine
    <2>2. CASE b = a
      <3>1. /\ j + 1 \in DOMAIN inbox[a] /\ k + 1 \in DOMAIN inbox[a] /\ j + 1 < k + 1
            /\ inbox'[a][j] = inbox[a][j + 1] /\ inbox'[a][k] = inbox[a][k + 1]
        BY <1>4, <1>9, <2>2
      <3> QED BY <1>9, <2>2, <3>1 DEF InLine
    <2> QED BY <2>1, <2>2
  <1>10. ASSUME NEW b \in Actor, at'[b] \in Early, NEW j \in Line(b)'
         PROVE  sequence[current'[b]] < sequence[j]
    <2>1. CASE b # a
      <3>1. at'[b] = at[b] /\ current'[b] = current[b] /\ j \in Line(b)
        BY <1>3, <1>5, <1>10, <2>1 DEF Shape, Handed, Line, Pending
      <3> QED BY <1>10, <3>1 DEF InLine
    <2>2. CASE b = a
      <3>1. inbox[a][1].kind = "command" /\ current'[a] = inbox[a][1].request
        <4>1. at'[a] = inbox[a][1].kind /\ current'[a] = inbox[a][1].request
          BY <1>3 DEF Shape, Handed
        <4>2. inbox[a][1].kind \in {"command", "cancel", "complete"}
          BY <1>2 DEF Entry
        <4> QED BY <1>10, <2>2, <4>1, <4>2 DEF Early
      <3>2. 1 \in DOMAIN inbox[a]
        BY <1>1 DEF Takes
      <3>3. Pending(a) # {}
        BY <3>1, <3>2, PendingIs
      <3>4. dropped'[a] = {}
        BY <1>3, <3>3 DEF InLine
      <3>5. j \in Pending(a)'
        BY <1>10, <2>2, <3>4 DEF Line
      <3>6. PICK k \in DOMAIN inbox'[a] : inbox'[a][k] = Command(j)
        BY <3>5 DEF Pending
      <3>7. inbox[a][k + 1].kind = "command" /\ inbox[a][k + 1].request = j
        BY <1>4, <3>6 DEF Command
      <3> QED BY <1>4, <2>2, <3>1, <3>6, <3>7 DEF InLine
    <2> QED BY <2>1, <2>2
  <1> QED BY <1>3, <1>8, <1>9, <1>10 DEF InLine

\* Close drops the commands that wait.
LEMMA CloseDrops ==
  ASSUME Shape, Managed, InLine, NEW a \in Actor, CloseActor(a)
  PROVE  InLine' /\ \A b \in Actor : Line(b)' = Line(b)
  <1>1. Rebuilds(a)
    BY CloseRebuilds
  <1>2. {i \in Item : Command(i) \in ToSet(inbox[a])} = Pending(a)
    BY DEF ToSet, Pending
  <1>3. /\ dropped' = [dropped EXCEPT ![a] = Pending(a)] /\ shut' = [shut EXCEPT ![a] = TRUE] /\ ~shut[a]
        /\ at' = Awake(a) /\ UNCHANGED << sequence, current >>
    BY <1>2 DEF CloseActor
  <1>4. Pending(a)' = {}
    BY <1>1 DEF Rebuilds, Pending, Command
  <1>5. \A b \in Actor : b # a => Pending(b)' = Pending(b) /\ inbox'[b] = inbox[b]
    BY <1>1 DEF Rebuilds, Pending
  <1>6. \A b \in Actor : Line(b)' = Line(b)
    <2>1. dropped'[a] = Pending(a) /\ dropped[a] = {}
      BY <1>3 DEF Shape, Named, InLine
    <2>2. \A b \in Actor : b # a => dropped'[b] = dropped[b]
      BY <1>3 DEF Shape, Named
    <2> QED BY <1>4, <1>5, <2>1, <2>2 DEF Line
  <1>7. \A b \in Actor : at'[b] \in Early => at[b] \in Early
    BY <1>3 DEF Awake, Shape, Handed, Early
  <1>8. ASSUME NEW b \in Actor, NEW j \in DOMAIN inbox'[b], NEW k \in DOMAIN inbox'[b], j < k,
               inbox'[b][j].kind = "command", inbox'[b][k].kind = "command"
        PROVE  sequence[inbox'[b][j].request] < sequence[inbox'[b][k].request]
    <2>1. b # a
      BY <1>1, <1>8 DEF Rebuilds
    <2> QED BY <1>5, <1>8, <2>1 DEF InLine
  <1>9. \A b \in Actor : (shut'[b] => Pending(b)' = {}) /\ (~shut'[b] => dropped'[b] = {})
    <2>1. \A b \in Actor : b # a => dropped'[b] = dropped[b] /\ shut'[b] = shut[b]
      BY <1>3 DEF Shape, Named
    <2>2. ~shut'[a] => dropped'[a] = {}
      BY <1>3 DEF Managed
    <2> QED BY <1>4, <1>5, <2>1, <2>2 DEF InLine
  <1> QED BY <1>3, <1>6, <1>7, <1>8, <1>9 DEF InLine

\* A goroutine works on a command until it is answered or put down.
LEMMA StepsOn ==
  ASSUME Shape, NEW a \in Actor, ActorStep(a), ~Receive(a)
  PROVE  /\ UNCHANGED << route, sequence, inbox, shut, dropped, stopping, unlinked, actorOf, managerClosed, queuedCommands, asked >>
         /\ \A b \in Actor \ {a} : at'[b] = at[b] /\ current'[b] = current[b]
         /\ at'[a] \in Working => at[a] \in Working /\ current'[a] = current[a]
         /\ at'[a] \in Early => at[a] \in Early
  <1>1. UNCHANGED << route, sequence, inbox, shut, dropped, stopping, unlinked, actorOf, managerClosed, queuedCommands, asked >>
    BY DEF ActorStep, Sleep, Leave, Admit, ReserveSlot, CallStart, Launch, Attach,
           CallCancel, CancelWork, CallComplete, Deliver
  <1>2. current' = current \/ current' = [current EXCEPT ![a] = NoItem]
    BY DEF ActorStep, Sleep, Leave, Admit, ReserveSlot, CallStart, Launch, Attach,
           CallCancel, CancelWork, CallComplete, Deliver, Loops
  <1>3. \/ \E label \in {"next", "waiting", "exited"} : at' = [at EXCEPT ![a] = label]
        \/ /\ at[a] \in Working /\ current' = current
           /\ \E label : at' = [at EXCEPT ![a] = label] /\ (label \in Early => at[a] \in Early)
    <2>1. CASE Sleep(a) \/ Leave(a) \/ Attach(a) \/ CancelWork(a) \/ Deliver(a)
      BY <2>1 DEF Sleep, Leave, Attach, CancelWork, Deliver, Loops, Goes
    <2>2. CASE CallCancel(a)
      <3>1. Loops(a) \/ (Goes(a, "cancelWork") /\ current' = current)
        BY <2>2 DEF CallCancel
      <3>2. at[a] \in Working /\ "cancelWork" \notin Early
        BY <2>2 DEF CallCancel, Working, Early
      <3> QED BY <3>1, <3>2 DEF Loops, Goes
    <2>3. CASE CallComplete(a)
      <3>1. at[a] \in Working /\ current' = current /\ at' = [at EXCEPT ![a] = "finish"] /\ "finish" \notin Early
        BY <2>3 DEF CallComplete, Resolves, Goes, Working, Early
      <3> QED BY <3>1
    <2>4. CASE Admit(a) \/ ReserveSlot(a) \/ CallStart(a) \/ Launch(a)
      <3>1. at[a] \in Early /\ at[a] \in Working /\ current' = current
        BY <2>4 DEF Admit, ReserveSlot, CallStart, Launch, Early, Working
      <3>2. \E label : at' = [at EXCEPT ![a] = label]
        BY <2>4 DEF Admit, ReserveSlot, CallStart, Launch, Resolves, Goes
      <3> QED BY <3>1, <3>2
    <2> QED BY <2>1, <2>2, <2>3, <2>4 DEF ActorStep
  <1>4. \A b \in Actor \ {a} : at'[b] = at[b] /\ current'[b] = current[b]
    BY <1>2, <1>3 DEF Shape, Handed
  <1>5. \A label : at' = [at EXCEPT ![a] = label] => at'[a] = label
    BY DEF Shape, Handed
  <1>6. at'[a] \in Working => at[a] \in Working /\ current'[a] = current[a]
    BY <1>3, <1>5 DEF Working
  <1>7. at'[a] \in Early => at[a] \in Early
    BY <1>3, <1>5 DEF Early
  <1> QED BY <1>1, <1>4, <1>6, <1>7

\* Every step keeps the line.
LEMMA NextInLine ==
  ASSUME Shape, Managed, Ours, Numbered, InLine, [Next]_vars
  PROVE  InLine'
  <1>1. ASSUME UNCHANGED << sequence, inbox, shut, dropped, current >>,
               \A a \in Actor : at'[a] \in Early => at[a] \in Early
        PROVE  InLine'
    BY <1>1, LineShrinks
  <1>2. ASSUME NEW i \in Item, Route(i) \/ Refuse(i) \/ CallerLeaves(i)
        PROVE  InLine'
    <2>1. UNCHANGED << sequence, inbox, shut, dropped, current >>
      BY <1>2 DEF Route, Refuse, CallerLeaves, actorVars
    <2>2. at' = at \/ \E a \in Actor : at' = [at EXCEPT ![a] = "next"]
      BY <1>2 DEF Route, Refuse, CallerLeaves, actorVars
    <2>3. \A a \in Actor : at'[a] \in Early => at[a] \in Early
      BY <2>2 DEF Shape, Handed, Early
    <2> QED BY <1>1, <2>1, <2>3
  <1>3. ASSUME NEW i \in Item, RequestCancel(i)
        PROVE  InLine'
    <2>1. /\ route[i] \in Actor /\ inbox' = [inbox EXCEPT ![route[i]] = Append(@, CancelEntry(i))]
          /\ at' = Awake(route[i]) /\ UNCHANGED << sequence, shut, dropped, current >>
      BY <1>3 DEF RequestCancel, Shape, Routed
    <2>2. CancelEntry(i) \in Entry /\ CancelEntry(i).kind # "command"
      BY DEF CancelEntry, Entry
    <2> QED BY <2>1, <2>2, OtherInLine
  <1>4. ASSUME NEW i \in Item, Forward(i)
        PROVE  InLine'
    <2>1. /\ route[i] \in Actor /\ inbox' = [inbox EXCEPT ![route[i]] = Append(@, Completion(i))]
          /\ at' = Awake(route[i]) /\ UNCHANGED << sequence, shut, dropped, current >>
      BY <1>4 DEF Forward, Ours, Shape, Routed
    <2>2. Completion(i) \in Entry /\ Completion(i).kind # "command"
      BY DEF Completion, Entry
    <2> QED BY <2>1, <2>2, OtherInLine
  <1>5. ASSUME NEW a \in Actor, ActorStep(a), ~Receive(a)
        PROVE  InLine'
    <2>1. UNCHANGED << sequence, inbox, shut, dropped >>
      BY <1>5, StepsOn
    <2>2. \A b \in Actor : at'[b] \in Early => at[b] \in Early /\ current'[b] = current[b]
      BY <1>5, StepsOn DEF Early, Working
    <2> QED BY <2>1, <2>2, LineShrinks
  <1>6. ASSUME NEW a \in Actor, CloseRemoved(a) \/ CloseLinked(a)
        PROVE  InLine'
    BY <1>6, CloseDrops DEF CloseRemoved, CloseLinked
  <1>7. ASSUME NEW a \in Actor, DropPending(a) \/ StopWork(a)
        PROVE  InLine'
    <2>1. UNCHANGED << sequence, inbox, shut, current >> /\ (at' = at \/ at' = Awake(a))
      BY <1>7 DEF DropPending, StopWork
    <2>2. \A b \in Actor : at'[b] \in Early => at[b] \in Early
      BY <2>1 DEF Awake, Shape, Handed, Early
    <2>3. \E x : dropped' = [dropped EXCEPT ![a] = @ \ {x}] \/ dropped' = dropped
      BY <1>7 DEF DropPending, StopWork
    <2>4. \A b \in Actor : dropped'[b] \subseteq dropped[b]
      BY <2>3 DEF Shape, Named
    <2> QED BY <2>1, <2>2, <2>4, LineShrinks
  <1>8. (\E p \in Removable : RemoveProject(p)) \/ CloseManager \/ CloseScheduler
        \/ (\E w \in Worker : PoolWorker(w)) \/ UNCHANGED vars => InLine'
    <2>1. (\E p \in Removable : RemoveProject(p)) \/ CloseManager \/ CloseScheduler
          \/ (\E w \in Worker : PoolWorker(w)) \/ UNCHANGED vars
            => UNCHANGED << sequence, inbox, shut, dropped, current, at >>
      BY DEF RemoveProject, CloseManager, CloseScheduler, PoolWorker, actorVars, vars
    <2> QED BY <1>1, <2>1
  <1> QED BY <1>2, <1>3, <1>4, <1>5, <1>6, <1>7, <1>8, AcceptInLine, ReceiveInLine DEF Next, Client, CloserStep

-----------------------------------------------------------------------------
(* The story of a command *)

\* What the pool holds for a command, and whether it is done with it.
Grip(i) == IF state[i] \in {"none", "reserved", "released"} THEN state[i] ELSE "work"
Idle(i) == state[i] \in {"none", "released"} \/ done[i] # << >>

\* A pool step that neither gives nor takes a reservation.
Calm ==
    /\ \A i \in Item : /\ Grip(i)' = Grip(i) /\ (Idle(i) => Idle(i)')
                       /\ callerDone[i] => callerDone'[i]
    /\ closed => closed'

\* The pool does not move.
LEMMA CalmStill ==
  ASSUME UNCHANGED poolVars
  PROVE  Calm
  BY DEF Calm, Grip, Idle, poolVars

\* Contexts are no matter of reservations.
LEMMA CalmContexts ==
  ASSUME TypeOK, NEW items, CancelContexts(items)
  PROVE  Calm
  <1> DEFINE fresh == {i \in items : ~callerDone[i]}
  <1>1. CASE UNCHANGED poolVars
    BY <1>1, CalmStill
  <1>2. CASE CancelCallers(fresh)
    <2>1. callerDone' = [i \in Item |-> callerDone[i] \/ i \in fresh] /\ UNCHANGED << closed, state, done >>
      BY <1>2 DEF CancelCallers
    <2> HIDE DEF fresh
    <2>2. \A i \in Item : callerDone[i] => callerDone'[i]
      BY <2>1
    <2> QED BY <2>1, <2>2 DEF Calm, Grip, Idle
  <1> QED BY <1>1, <1>2 DEF CancelContexts

\* One command moves on in the pool.
LEMMA CalmMove ==
  ASSUME TypeOK, [PoolNext]_poolVars, UNCHANGED << callerDone, closed >>,
         \A i \in Item : state'[i] # state[i] =>
            /\ state[i] \notin {"none", "reserved", "released"}
            /\ state'[i] \notin {"none", "reserved", "released"}
  PROVE  Calm
  <1>1. \A i \in Item : done[i] # << >> => done'[i] # << >>
    BY DoneStays
  <1>2. \A i \in Item : Grip(i)' = Grip(i)
    BY DEF Grip
  <1>3. \A i \in Item : Idle(i) => Idle(i)'
    BY <1>1 DEF Idle
  <1> QED BY <1>2, <1>3 DEF Calm

\* Nor are cancelled handles.
LEMMA CalmHandle ==
  ASSUME TypeOK, NEW i \in Item, CancelHandle(i)
  PROVE  Calm
  <1>1. CASE UNCHANGED poolVars
    BY <1>1, CalmStill
  <1>2. CASE Cancel(i)
    <2>1. PoolNext
      BY <1>2 DEF PoolNext, ClientStep
    <2>2. \E t \in {"finished", "cancelling"} : state' = [state EXCEPT ![i] = t]
      BY <1>2 DEF Cancel, CancelQueued, CancelRunning
    <2>3. state[i] \in {"queued", "running"} /\ UNCHANGED << callerDone, closed >>
      BY <1>2 DEF Cancel, CancelQueued, CancelRunning
    <2>4. \A j \in Item : state'[j] # state[j] => /\ state[j] \notin {"none", "reserved", "released"}
                                                  /\ state'[j] \notin {"none", "reserved", "released"}
      BY <2>2, <2>3 DEF TypeOK
    <2> QED BY <2>1, <2>3, <2>4, CalmMove
  <1> QED BY <1>1, <1>2 DEF CancelHandle

\* Nor the steps of the workers.
LEMMA CalmWorker ==
  ASSUME PoolInv, NEW w \in Worker, WorkerStep(w)
  PROVE  Calm
  <1>1. TypeOK /\ PoolNext
    BY DEF PoolInv, PoolNext
  <1>2. UNCHANGED << callerDone, closed >>
    BY DEF WorkerStep, Wait, Exit, Take, Execute, WorkReturns, Finish
  <1>3. \A j \in Item : state'[j] # state[j] => /\ state[j] \notin {"none", "reserved", "released"}
                                                /\ state'[j] \notin {"none", "reserved", "released"}
    <2>1. CASE Take(w)
      <3>1. \/ state' = state
            \/ /\ state[Popped(queue)] = "queued"
               /\ \E t \in {"finished", "running"} : state' = [state EXCEPT ![Popped(queue)] = t]
        BY <2>1 DEF Take
      <3> QED BY <1>1, <3>1 DEF TypeOK
    <2>2. CASE Finish(w)
      <3>1. holds[w] # NoItem /\ state' = [state EXCEPT ![holds[w]] = "finished"]
        BY <2>2 DEF Finish, PoolInv, OneOwner
      <3>2. holds[w] \in Item /\ Held(holds[w])
        BY <1>1, <3>1 DEF TypeOK, Held
      <3>3. state[holds[w]] \notin {"none", "reserved", "released"}
        BY <3>2 DEF PoolInv, OneOwner
      <3> QED BY <1>1, <3>1, <3>3 DEF TypeOK
    <2>3. CASE ~Take(w) /\ ~Finish(w)
      <3>1. state' = state
        BY <2>3 DEF WorkerStep, Wait, Exit, Execute, WorkReturns
      <3> QED BY <3>1
    <2> QED BY <2>1, <2>2, <2>3
  <1> QED BY <1>1, <1>2, <1>3, CalmMove

\* Nor shutdown.
LEMMA CalmClose ==
  ASSUME PoolInv, ClosePool
  PROVE  Calm
  <1>1. TypeOK /\ PoolNext
    BY DEF PoolInv, PoolNext
  <1>2. Drained(queue) = InState({"queued"})
    <2>1. queue \in Queues /\ InState({"queued"}) \in SUBSET Item
      BY <1>1 DEF TypeOK, Queues, InState
    <2> QED BY <2>1, DrainedAll DEF PoolInv, QueueRight
  <1>3. state' = [i \in Item |-> IF i \in Drained(queue) THEN "finished"
                                 ELSE IF i \in active /\ state[i] = "running" THEN "cancelling"
                                 ELSE state[i]]
    BY DEF ClosePool
  <1>4. \A j \in Item : state'[j] # state[j] => /\ state[j] \notin {"none", "reserved", "released"}
                                                /\ state'[j] \notin {"none", "reserved", "released"}
    BY <1>2, <1>3 DEF InState
  <1>5. \A j \in Item : Grip(j)' = Grip(j)
    BY <1>4 DEF Grip
  <1>6. \A j \in Item : Idle(j) => Idle(j)'
    <2>1. \A j \in Item : done[j] # << >> => done'[j] # << >>
      BY <1>1, DoneStays
    <2> QED BY <1>4, <2>1 DEF Idle
  <1>7. callerDone' = callerDone /\ closed'
    BY DEF ClosePool
  <1> QED BY <1>5, <1>6, <1>7 DEF Calm

\* A reservation is given or taken for one command.
Grabs(i) ==
    /\ \A j \in Item : j # i => Grip(j)' = Grip(j)
    /\ \A j \in Item : j # i => (Idle(j) => Idle(j)')
    /\ callerDone' = callerDone /\ closed' = closed

\* That is what the steps for a reservation do.
LEMMA GrabsOne ==
  ASSUME TypeOK, NEW i \in Item
  PROVE  /\ Reserve(i) => Grabs(i) /\ Grip(i)' = "reserved"
         /\ Release(i) => Grabs(i) /\ Grip(i)' = "released" /\ Idle(i)'
         /\ StartRefused(i) => Grabs(i) /\ Grip(i)' = "released" /\ Idle(i)'
         /\ StartReserved(i) => Grabs(i) /\ Grip(i)' = "work"
  <1>1. ASSUME NEW t \in States, state' = [state EXCEPT ![i] = t], UNCHANGED << done, callerDone, closed >>
        PROVE  Grabs(i) /\ state'[i] = t
    <2>1. state'[i] = t /\ \A j \in Item \ {i} : state'[j] = state[j]
      BY <1>1 DEF TypeOK
    <2> QED BY <1>1, <2>1 DEF Grabs, Grip, Idle
  <1>2. Reserve(i) => Grabs(i) /\ Grip(i)' = "reserved"
    <2>1. Reserve(i) => state' = [state EXCEPT ![i] = "reserved"] /\ UNCHANGED << done, callerDone, closed >>
      BY DEF Reserve
    <2> QED BY <1>1, <2>1 DEF Grip, States
  <1>3. Release(i) \/ StartRefused(i) => Grabs(i) /\ Grip(i)' = "released" /\ Idle(i)'
    <2>1. Release(i) \/ StartRefused(i) => state' = [state EXCEPT ![i] = "released"] /\ UNCHANGED << done, callerDone, closed >>
      BY DEF Release, StartRefused, GiveBack
    <2> QED BY <1>1, <2>1 DEF Grip, Idle, States
  <1>4. StartReserved(i) => Grabs(i) /\ Grip(i)' = "work"
    <2>1. StartReserved(i) => state' = [state EXCEPT ![i] = "queued"] /\ UNCHANGED << done, callerDone, closed >>
      BY DEF StartReserved
    <2> QED BY <1>1, <2>1 DEF Grip, States
  <1> QED BY <1>2, <1>3, <1>4

\* Histories of two and of three callbacks.
LEMMA AppendSecond ==
  ASSUME NEW x, NEW y
  PROVE  Append(<< x >>, y) = << x, y >>
  <1>1. Append(<< x >>, y) \in Seq({x, y}) /\ Len(Append(<< x >>, y)) = 2
    OBVIOUS
  <1>2. << x, y >> \in Seq({x, y}) /\ Len(<< x, y >>) = 2
    OBVIOUS
  <1>3. \A k \in 1 .. 2 : Append(<< x >>, y)[k] = << x, y >>[k]
    OBVIOUS
  <1> QED BY <1>1, <1>2, <1>3, SeqEqual

\* The same with one callback more.
LEMMA AppendThird ==
  ASSUME NEW x, NEW y, NEW z
  PROVE  Append(<< x, y >>, z) = << x, y, z >>
  <1>1. Append(<< x, y >>, z) \in Seq({x, y, z}) /\ Len(Append(<< x, y >>, z)) = 3
    OBVIOUS
  <1>2. << x, y, z >> \in Seq({x, y, z}) /\ Len(<< x, y, z >>) = 3
    OBVIOUS
  <1>3. \A k \in 1 .. 3 : Append(<< x, y >>, z)[k] = << x, y, z >>[k]
    OBVIOUS
  <1> QED BY <1>1, <1>2, <1>3, SeqEqual

\* Where the goroutine of its actor is with a command it got from Submit.
Hands == Early \cup {"finish"}
Label(i) ==
    LET a == route[i]
    IN  IF a \in Actor /\ current[a] = i /\ at[a] \in Hands THEN at[a] ELSE "none"

Lined(i) == \E a \in Actor : i \in Line(a)
Owned(i) == \E a \in Actor : i \in owned[a]

\* Nothing has been done for it, no callback and no reservation.
Unbegun(i) ==
    calls[i] = << >> /\ result[i] = << >> /\ ~handle[i] /\ ~forwarding[i] /\ Grip(i) = "none"

\* The result about to be delivered fits the callbacks that were made.
Deserves(i) ==
    LET r == verdict[route[i]]
        h == calls[i]
    IN  \/ h \in {<< >>, << "startFailed" >>} /\ ~r.started /\ r.err # "nil"
        \/ h = << "start" >> /\ i \notin HasWork /\ r.started /\ r.err = "nil"
        \/ /\ h = << "start" >> /\ i \in HasWork /\ ~handle[i]
           /\ r.started /\ r.err # "nil" /\ (callerDone[i] \/ closed)
        \/ h \in {<< "start", "complete" >>, << "start", "cancel", "complete" >>} /\ handle[i] /\ r.started

\* What is true of a command while it waits, ...
WhileWaiting(i) ==
    /\ ~Accepted(i) \/ Lined(i) \/ Label(i) \in {"command", "reserve"} => Unbegun(i)
    /\ Lined(i) => Label(i) # "finish"
    /\ Accepted(i) /\ Label(i) = "none" => Lined(i) \/ handle[i] \/ result[i] # << >>

\* ... while its actor starts it, ...
WhileStarting(i) ==
    /\ Label(i) \in {"reserve", "launch", "attach"} => i \in HasWork
    /\ Label(i) \in {"start", "launch", "attach"} => result[i] = << >> /\ ~handle[i] /\ ~forwarding[i]
    /\ Label(i) = "start" => calls[i] = << >> /\ Grip(i) = IF i \in HasWork THEN "reserved" ELSE "none"
    /\ Label(i) = "launch" => calls[i] = << "start" >> /\ Grip(i) = "reserved"
    /\ Label(i) = "attach" => calls[i] = << "start" >> /\ Grip(i) = "work"
    /\ Grip(i) = "reserved" => Label(i) \in {"start", "launch"}

\* ... while its work runs, ...
WhileWorking(i) ==
    /\ handle[i] => i \in HasWork /\ Grip(i) = "work"
    /\ handle[i] /\ result[i] = << >> /\ Label(i) # "finish" => calls[i] \in {<< "start" >>, << "start", "cancel" >>}

\* ... when it is answered and afterwards; ...
WhenAnswered(i) ==
    /\ Label(i) = "finish" => result[i] = << >> /\ ~forwarding[i] /\ Idle(i) /\ Deserves(i)
    /\ result[i] # << >> => Idle(i) /\ ~forwarding[i]

\* ... and when its actor counts it as active.
WhenOwned(i) ==
    Owned(i) <=> /\ result[i] = << >>
                 /\ \/ handle[i]
                    \/ Label(i) \in {"reserve", "start", "launch", "attach"}
                    \/ Label(i) = "finish" /\ Owned(i)

Story(i) == WhileWaiting(i) /\ WhileStarting(i) /\ WhileWorking(i) /\ WhenAnswered(i) /\ WhenOwned(i)
Stories == \A i \in Item : Story(i)

\* What does not touch a command leaves its story true.
LEMMA SameStory ==
  ASSUME NEW i \in Item, Story(i),
         Accepted(i)' <=> Accepted(i), Lined(i)' <=> Lined(i), Label(i)' = Label(i), Owned(i)' <=> Owned(i),
         calls'[i] = calls[i], result'[i] = result[i], handle'[i] = handle[i], forwarding'[i] => forwarding[i],
         Grip(i)' = Grip(i), Idle(i) => Idle(i)', callerDone[i] => callerDone'[i], closed => closed',
         Label(i) = "finish" => route'[i] = route[i] /\ verdict'[route[i]] = verdict[route[i]]
  PROVE  Story(i)'
  <1>1. WhileWaiting(i)'
    BY DEF Story, WhileWaiting, Unbegun
  <1>2. WhileStarting(i)'
    BY DEF Story, WhileStarting
  <1>3. WhileWorking(i)'
    BY DEF Story, WhileWorking
  <1>4. Label(i) = "finish" /\ Deserves(i) => Deserves(i)'
    BY DEF Deserves
  <1>5. WhenAnswered(i)'
    BY <1>4 DEF Story, WhenAnswered
  <1>6. WhenOwned(i)'
    BY DEF Story, WhenOwned
  <1> QED BY <1>1, <1>2, <1>3, <1>5, <1>6 DEF Story

\* A command in the hands of an actor is one of its own.
LEMMA LabelIs ==
  ASSUME Ours, NEW a \in Actor, at[a] \in Hands
  PROVE  /\ current[a] \in Item /\ route[current[a]] = a /\ Accepted(current[a])
         /\ Label(current[a]) = at[a]
  BY DEF Ours, Of, Label, Hands, Early, Working

\* Hands that do not move.
LEMMA LabelStays ==
  ASSUME Ours, Ours', NEW i \in Item, route'[i] = route[i] \/ ~(Accepted(i) \/ Accepted(i)'),
         \A a \in Actor : at[a] \in Hands \/ at'[a] \in Hands => at'[a] = at[a] /\ current'[a] = current[a]
  PROVE  Label(i)' = Label(i)
  <1>1. CASE route'[i] = route[i]
    BY <1>1 DEF Label
  <1>2. CASE ~(Accepted(i) \/ Accepted(i)')
    <2>1. \A a \in Actor : current[a] = i => at[a] \notin Hands
      BY <1>2 DEF Ours, Of, Hands, Early, Working
    <2>2. \A a \in Actor : current'[a] = i => at'[a] \notin Hands
      BY <1>2 DEF Ours, Of, Hands, Early, Working
    <2> QED BY <2>1, <2>2 DEF Label
  <1> QED BY <1>1, <1>2

\* An actor at work moves on with its command.
LEMMA LabelMoves ==
  ASSUME Shape, Ours, NEW a \in Actor, at[a] \in Working, NEW i, i = current[a], route' = route,
         \A b \in Actor \ {a} : at'[b] = at[b] /\ current'[b] = current[b],
         current'[a] \in {i, NoItem}
  PROVE  /\ i \in Item /\ route[i] = a /\ Accepted(i)
         /\ Label(i) = IF at[a] \in Hands THEN at[a] ELSE "none"
         /\ Label(i)' = IF current'[a] = i /\ at'[a] \in Hands THEN at'[a] ELSE "none"
         /\ \A j \in Item \ {i} : Label(j)' = Label(j)
         /\ \A j \in Item \ {i} : Label(j) # "none" => route[j] # a
  <1>1. i \in Item /\ route[i] = a /\ Accepted(i)
    BY DEF Ours, Of
  <1>2. Label(i) = IF at[a] \in Hands THEN at[a] ELSE "none"
    BY <1>1 DEF Label
  <1>3. Label(i)' = IF current'[a] = i /\ at'[a] \in Hands THEN at'[a] ELSE "none"
    BY <1>1 DEF Label
  <1>4. ASSUME NEW j \in Item \ {i}
        PROVE  Label(j)' = Label(j) /\ (Label(j) # "none" => route[j] # a)
    BY PoolAssumption DEF Label
  <1> QED BY <1>1, <1>2, <1>3, <1>4

\* A command in line is not in the hands of its actor.
LEMMA EarlyNotLined ==
  ASSUME Shape, Ours, InLine, NEW a \in Actor, at[a] \in Early, NEW i, i = current[a]
  PROVE  ~Lined(i)
  <1> SUFFICES ASSUME NEW b \in Actor, i \in Line(b)
               PROVE  FALSE
    BY DEF Lined
  <1>1. i \in Of(b)
    BY PendingIs DEF Line, Ours
  <1>2. i \in Of(a)
    BY DEF Ours, Early, Working
  <1>3. a = b
    BY <1>1, <1>2 DEF Of
  <1>4. sequence[i] < sequence[i] /\ sequence[i] \in Nat
    BY <1>1, <1>3 DEF InLine, Of, Shape, Routed
  <1> QED BY <1>4

\* A command is active with its own actor only.
LEMMA OwnedHere ==
  ASSUME Ours, NEW a \in Actor, NEW i \in Item, route[i] = a
  PROVE  Owned(i) <=> i \in owned[a]
  BY DEF Ours, Of, Owned

\* What a step of an actor at work does not change.
LEMMA StepFacts ==
  ASSUME Shape, Ours, Ours', InLine, NEW a \in Actor, ActorStep(a), ~Receive(a), at[a] \in Working,
         NEW i, i = current[a]
  PROVE  /\ i \in Item /\ route[i] = a /\ Accepted(i) /\ Accepted(i)' /\ UNCHANGED << route, sequence >>
         /\ \A j \in Item : Lined(j)' <=> Lined(j)
         /\ at[a] \in Early => ~Lined(i)
         /\ Label(i) = IF at[a] \in Hands THEN at[a] ELSE "none"
         /\ Label(i)' = IF current'[a] = i /\ at'[a] \in Hands THEN at'[a] ELSE "none"
         /\ \A j \in Item \ {i} : Label(j)' = Label(j) /\ (Label(j) # "none" => route[j] # a)
         /\ Owned(i) <=> i \in owned[a]
         /\ Owned(i)' <=> i \in owned'[a]
  <1>1. /\ UNCHANGED << route, sequence, inbox, dropped >>
        /\ \A b \in Actor \ {a} : at'[b] = at[b] /\ current'[b] = current[b]
    BY StepsOn
  <1>2. current'[a] \in {i, NoItem}
    <2>1. current' = current \/ current' = [current EXCEPT ![a] = NoItem]
      BY DEF ActorStep, Sleep, Leave, Admit, ReserveSlot, CallStart, Launch, Attach,
             CallCancel, CancelWork, CallComplete, Deliver, Loops
    <2> QED BY <2>1 DEF Shape, Handed
  <1>3. /\ i \in Item /\ route[i] = a /\ Accepted(i)
        /\ Label(i) = IF at[a] \in Hands THEN at[a] ELSE "none"
        /\ Label(i)' = IF current'[a] = i /\ at'[a] \in Hands THEN at'[a] ELSE "none"
        /\ \A j \in Item \ {i} : Label(j)' = Label(j)
        /\ \A j \in Item \ {i} : Label(j) # "none" => route[j] # a
    BY <1>1, <1>2, LabelMoves
  <1>4. Accepted(i)'
    BY <1>1, <1>3 DEF Accepted
  <1>5. \A j \in Item : Lined(j)' <=> Lined(j)
    BY <1>1 DEF Lined, Line, Pending
  <1>6. Owned(i) <=> i \in owned[a]
    BY <1>3, OwnedHere
  <1>7. Owned(i)' <=> i \in owned'[a]
    BY <1>1, <1>3 DEF Ours, Of, Owned
  <1> QED BY <1>1, <1>3, <1>4, <1>5, <1>6, <1>7, EarlyNotLined

\* A step for one command leaves the others alone.
LEMMA OthersStory ==
  ASSUME Shape, Ours, Ours', InLine, Stories, NEW a \in Actor, ActorStep(a), ~Receive(a), at[a] \in Working,
         NEW i, i = current[a],
         \A j \in Item \ {i} : /\ calls'[j] = calls[j] /\ result'[j] = result[j]
                               /\ handle'[j] = handle[j] /\ forwarding'[j] = forwarding[j],
         \A j \in Item \ {i} : Grip(j)' = Grip(j) /\ (Idle(j) => Idle(j)'),
         \A j \in Item \ {i} : callerDone[j] => callerDone'[j],
         closed => closed',
         \A b \in Actor : owned'[b] \ {i} = owned[b] \ {i},
         \A b \in Actor \ {a} : verdict'[b] = verdict[b]
  PROVE  \A j \in Item \ {i} : Story(j)'
  <1> SUFFICES ASSUME NEW j \in Item \ {i} PROVE Story(j)'
    OBVIOUS
  <1>1. /\ UNCHANGED << route, sequence >> /\ (Lined(j)' <=> Lined(j)) /\ Label(j)' = Label(j)
        /\ Label(j) # "none" => route[j] # a
    BY StepFacts
  <1>2. Accepted(j)' <=> Accepted(j)
    BY <1>1 DEF Accepted
  <1>3. Owned(j)' <=> Owned(j)
    BY DEF Owned
  <1>4. Label(j) = "finish" => route'[j] = route[j] /\ verdict'[route[j]] = verdict[route[j]]
    BY <1>1 DEF Label
  <1>5. Story(j)
    BY DEF Stories
  <1> QED BY <1>1, <1>2, <1>3, <1>4, <1>5, SameStory

\* A command is admitted, unless it is withdrawn or its actor is closed.
LEMMA AdmitStory ==
  ASSUME Shape, Told, Ours, Ours', InLine, Stories, NEW a \in Actor, NEW i, i = current[a], Admit(a)
  PROVE  Stories'
  <1>1. at[a] = "command" /\ ActorStep(a) /\ ~Receive(a)
    BY DEF Admit, ActorStep, Receive
  <1>2. at[a] \in Working /\ at[a] \in Early /\ at[a] \in Hands
    BY <1>1 DEF Working, Early, Hands
  <1>3. UNCHANGED << poolVars, calls, result, handle, forwarding, current >>
    BY DEF Admit
  <1>4. Calm
    BY <1>3, CalmStill
  <1>5. \/ /\ at' = [at EXCEPT ![a] = "finish"] /\ owned' = owned
           /\ \E err \in {"canceled", "refused"} : verdict' = [verdict EXCEPT ![a] = Verdict(FALSE, err)]
        \/ /\ at' = [at EXCEPT ![a] = IF i \in HasWork THEN "reserve" ELSE "start"]
           /\ owned' = [owned EXCEPT ![a] = @ \cup {i}] /\ verdict' = verdict
    BY DEF Admit, Resolves, Goes
  <1>7. /\ i \in Item /\ route[i] = a /\ Accepted(i) /\ Accepted(i)' /\ UNCHANGED << route, sequence >>
        /\ ~Lined(i) /\ ~Lined(i)' /\ Label(i) = "command"
        /\ Label(i)' = IF current'[a] = i /\ at'[a] \in Hands THEN at'[a] ELSE "none"
        /\ Owned(i) <=> i \in owned[a]
        /\ Owned(i)' <=> i \in owned'[a]
    BY <1>1, <1>2, StepFacts
  <1>8. Story(i) /\ Unbegun(i) /\ ~Owned(i)
    BY <1>7 DEF Stories, Story, WhileWaiting, WhenOwned, Unbegun
  <1>9. Unbegun(i)' /\ Grip(i)' = "none" /\ Idle(i)'
    BY <1>3, <1>4, <1>7, <1>8 DEF Unbegun, Calm, Idle, Grip
  <1>10. \A j \in Item \ {i} : Story(j)'
    <2>1. \A b \in Actor : owned'[b] \ {i} = owned[b] \ {i}
      BY <1>5 DEF Shape, Named
    <2>2. \A b \in Actor \ {a} : verdict'[b] = verdict[b]
      BY <1>5 DEF Told
    <2> QED BY <1>1, <1>2, <1>3, <1>4, <2>1, <2>2, OthersStory DEF Calm
  <1>11. CASE at' = [at EXCEPT ![a] = "finish"] /\ owned' = owned
              /\ \E err \in {"canceled", "refused"} : verdict' = [verdict EXCEPT ![a] = Verdict(FALSE, err)]
    <2>1. Label(i)' = "finish" /\ ~Owned(i)'
      BY <1>3, <1>7, <1>8, <1>11 DEF Shape, Handed, Hands
    <2>2. verdict'[a].started = FALSE /\ verdict'[a].err # "nil"
      BY <1>11 DEF Told, Verdict
    <2>3. Deserves(i)'
      BY <1>7, <1>9, <2>2 DEF Deserves, Unbegun
    <2>4. Story(i)'
      BY <1>7, <1>9, <2>1, <2>3 DEF Story, WhileWaiting, WhileStarting, WhileWorking, WhenAnswered, WhenOwned, Unbegun
    <2> QED BY <1>10, <2>4 DEF Stories
  <1>12. CASE at' = [at EXCEPT ![a] = IF i \in HasWork THEN "reserve" ELSE "start"]
              /\ owned' = [owned EXCEPT ![a] = @ \cup {i}] /\ verdict' = verdict
    <2>1. Label(i)' = IF i \in HasWork THEN "reserve" ELSE "start"
      BY <1>3, <1>7, <1>12 DEF Shape, Handed, Hands, Early
    <2>2. Owned(i)'
      BY <1>7, <1>12 DEF Shape, Named
    <2>3. Story(i)'
      BY <1>7, <1>9, <2>1, <2>2 DEF Story, WhileWaiting, WhileStarting, WhileWorking, WhenAnswered, WhenOwned, Unbegun
    <2> QED BY <1>10, <2>3 DEF Stories
  <1> QED BY <1>5, <1>11, <1>12

\* A slot of the pool is reserved for its work, or it is answered.
LEMMA ReserveSlotStory ==
  ASSUME Shape, Told, TypeOK, Ours, Ours', InLine, Stories, NEW a \in Actor, NEW i, i = current[a], ReserveSlot(a)
  PROVE  Stories'
  <1>1. at[a] = "reserve" /\ ActorStep(a) /\ ~Receive(a) /\ at[a] \in Working
    BY DEF ReserveSlot, ActorStep, Receive, Working
  <1>2. /\ i \in Item /\ route[i] = a /\ Accepted(i) /\ Accepted(i)' /\ UNCHANGED << route, sequence >>
        /\ Lined(i)' <=> Lined(i)
        /\ at[a] \in Early => ~Lined(i)
        /\ Label(i) = IF at[a] \in Hands THEN at[a] ELSE "none"
        /\ Label(i)' = IF current'[a] = i /\ at'[a] \in Hands THEN at'[a] ELSE "none"
        /\ Owned(i) <=> i \in owned[a]
        /\ Owned(i)' <=> i \in owned'[a]
    BY <1>1, StepFacts
  <1>3. Story(i)
    BY <1>2 DEF Stories
  <1>4. Label(i) = "reserve" /\ ~Lined(i) /\ ~Lined(i)'
    BY <1>1, <1>2 DEF Hands, Early
  <1>5. Unbegun(i) /\ i \in HasWork /\ i \in owned[a] /\ Idle(i)
    BY <1>2, <1>3, <1>4 DEF Story, WhileWaiting, WhileStarting, WhileWorking, WhenAnswered, WhenOwned, Unbegun, Grip, Idle
  <1>6. UNCHANGED << calls, result, handle, forwarding, owned, current >>
    BY DEF ReserveSlot
  <1>7. \/ Reserve(i) /\ at' = [at EXCEPT ![a] = "start"] /\ verdict' = verdict
        \/ /\ UNCHANGED poolVars /\ at' = [at EXCEPT ![a] = "finish"]
           /\ \E err \in {"canceled", "refused"} : verdict' = [verdict EXCEPT ![a] = Verdict(FALSE, err)]
    BY DEF ReserveSlot, Resolves, Goes
  <1>8. \A j \in Item \ {i} : /\ Grip(j)' = Grip(j) /\ (Idle(j) => Idle(j)')
                              /\ callerDone[j] => callerDone'[j]
    BY <1>2, <1>7, GrabsOne, CalmStill DEF Grabs, Calm
  <1>9. closed => closed'
    BY <1>2, <1>7, GrabsOne, CalmStill DEF Grabs, Calm
  <1>10. \A j \in Item \ {i} : Story(j)'
    <2>1. \A b \in Actor \ {a} : verdict'[b] = verdict[b]
      BY <1>7 DEF Told
    <2> QED BY <1>1, <1>6, <1>8, <1>9, <2>1, OthersStory
  <1>11. CASE Reserve(i) /\ at' = [at EXCEPT ![a] = "start"] /\ verdict' = verdict
    <2>1. Label(i)' = "start"
      BY <1>2, <1>6, <1>11 DEF Shape, Handed, Hands, Early
    <2>2. Grip(i)' = "reserved"
      BY <1>2, <1>11, GrabsOne
    <2>3. Story(i)'
      BY <1>2, <1>4, <1>5, <1>6, <2>1, <2>2 DEF Story, WhileWaiting, WhileStarting, WhileWorking, WhenAnswered, WhenOwned, Unbegun
    <2> QED BY <1>10, <2>3 DEF Stories
  <1>12. CASE UNCHANGED poolVars /\ at' = [at EXCEPT ![a] = "finish"]
              /\ \E err \in {"canceled", "refused"} : verdict' = [verdict EXCEPT ![a] = Verdict(FALSE, err)]
    <2>1. Label(i)' = "finish"
      BY <1>2, <1>6, <1>12 DEF Shape, Handed, Hands
    <2>2. verdict'[a].started = FALSE /\ verdict'[a].err # "nil"
      BY <1>12 DEF Told, Verdict
    <2>3. Grip(i)' = Grip(i) /\ Idle(i)'
      BY <1>2, <1>5, <1>12, CalmStill DEF Calm
    <2>4. Deserves(i)'
      BY <1>2, <1>5, <1>6, <2>2 DEF Deserves, Unbegun
    <2>5. Story(i)'
      BY <1>2, <1>4, <1>5, <1>6, <2>1, <2>3, <2>4 DEF Story, WhileWaiting, WhileStarting, WhileWorking, WhenAnswered, WhenOwned, Unbegun
    <2> QED BY <1>10, <2>5 DEF Stories
  <1> QED BY <1>7, <1>11, <1>12

\* Start is called: it is launched, or answered.
LEMMA CallStartStory ==
  ASSUME Shape, Told, TypeOK, Ours, Ours', InLine, Stories, NEW a \in Actor, NEW i, i = current[a], CallStart(a)
  PROVE  Stories'
  <1>1. at[a] = "start" /\ ActorStep(a) /\ ~Receive(a) /\ at[a] \in Working
    BY DEF CallStart, ActorStep, Receive, Working
  <1>2. /\ i \in Item /\ route[i] = a /\ Accepted(i) /\ Accepted(i)' /\ UNCHANGED << route, sequence >>
        /\ Lined(i)' <=> Lined(i)
        /\ at[a] \in Early => ~Lined(i)
        /\ Label(i) = IF at[a] \in Hands THEN at[a] ELSE "none"
        /\ Label(i)' = IF current'[a] = i /\ at'[a] \in Hands THEN at'[a] ELSE "none"
        /\ Owned(i) <=> i \in owned[a]
        /\ Owned(i)' <=> i \in owned'[a]
    BY <1>1, StepFacts
  <1>3. Story(i)
    BY <1>2 DEF Stories
  <1>4. Label(i) = "start" /\ ~Lined(i) /\ ~Lined(i)'
    BY <1>1, <1>2 DEF Hands, Early
  <1>5. /\ result[i] = << >> /\ ~handle[i] /\ ~forwarding[i] /\ calls[i] = << >> /\ i \in owned[a]
        /\ Grip(i) = IF i \in HasWork THEN "reserved" ELSE "none"
    BY <1>2, <1>3, <1>4 DEF Story, WhileWaiting, WhileStarting, WhileWorking, WhenAnswered, WhenOwned
  <1>6. UNCHANGED << result, handle, forwarding, owned, current >>
    BY DEF CallStart
  <1>7. \/ /\ calls' = Invoked(i, "start") /\ UNCHANGED << poolVars, verdict >> /\ i \in HasWork
           /\ at' = [at EXCEPT ![a] = "launch"]
        \/ /\ calls' = Invoked(i, "start") /\ UNCHANGED poolVars /\ i \notin HasWork
           /\ at' = [at EXCEPT ![a] = "finish"] /\ verdict' = [verdict EXCEPT ![a] = Verdict(TRUE, "nil")]
        \/ /\ calls' = Invoked(i, "startFailed") /\ (IF i \in HasWork THEN Release(i) ELSE UNCHANGED poolVars)
           /\ at' = [at EXCEPT ![a] = "finish"] /\ verdict' = [verdict EXCEPT ![a] = Verdict(FALSE, "failed")]
    BY DEF CallStart, Resolves, Goes
  <1>8. \A j \in Item \ {i} : /\ Grip(j)' = Grip(j) /\ (Idle(j) => Idle(j)')
                              /\ callerDone[j] => callerDone'[j]
    BY <1>2, <1>7, GrabsOne, CalmStill DEF Grabs, Calm
  <1>9. closed => closed'
    BY <1>2, <1>7, GrabsOne, CalmStill DEF Grabs, Calm
  <1>10. \A c : calls' = Invoked(i, c) => calls'[i] = << c >> /\ \A j \in Item \ {i} : calls'[j] = calls[j]
    BY <1>2, <1>5 DEF Invoked, Told
  <1>11. \A j \in Item \ {i} : Story(j)'
    <2>1. \A b \in Actor \ {a} : verdict'[b] = verdict[b]
      BY <1>7 DEF Told
    <2>2. \A j \in Item \ {i} : calls'[j] = calls[j]
      BY <1>7, <1>10
    <2> QED BY <1>1, <1>6, <1>8, <1>9, <2>1, <2>2, OthersStory
  <1>12. CASE calls' = Invoked(i, "start") /\ UNCHANGED << poolVars, verdict >> /\ i \in HasWork
              /\ at' = [at EXCEPT ![a] = "launch"]
    <2>1. Label(i)' = "launch"
      BY <1>2, <1>6, <1>12 DEF Shape, Handed, Hands, Early
    <2>2. Grip(i)' = "reserved" /\ calls'[i] = << "start" >>
      BY <1>2, <1>5, <1>10, <1>12, CalmStill DEF Calm
    <2>3. Story(i)'
      BY <1>2, <1>4, <1>5, <1>6, <1>12, <2>1, <2>2 DEF Story, WhileWaiting, WhileStarting, WhileWorking, WhenAnswered, WhenOwned
    <2> QED BY <1>11, <2>3 DEF Stories
  <1>13. CASE calls' = Invoked(i, "start") /\ UNCHANGED poolVars /\ i \notin HasWork
              /\ at' = [at EXCEPT ![a] = "finish"] /\ verdict' = [verdict EXCEPT ![a] = Verdict(TRUE, "nil")]
    <2>1. Label(i)' = "finish"
      BY <1>2, <1>6, <1>13 DEF Shape, Handed, Hands
    <2>2. Grip(i)' = "none" /\ Idle(i)' /\ calls'[i] = << "start" >>
      BY <1>2, <1>5, <1>10, <1>13, CalmStill DEF Calm, Grip, Idle
    <2>3. verdict'[a].started = TRUE /\ verdict'[a].err = "nil"
      BY <1>13 DEF Told, Verdict
    <2>4. Deserves(i)'
      BY <1>2, <1>13, <2>2, <2>3 DEF Deserves
    <2>5. Story(i)'
      BY <1>2, <1>4, <1>5, <1>6, <2>1, <2>2, <2>4 DEF Story, WhileWaiting, WhileStarting, WhileWorking, WhenAnswered, WhenOwned
    <2> QED BY <1>11, <2>5 DEF Stories
  <1>14. CASE calls' = Invoked(i, "startFailed") /\ (IF i \in HasWork THEN Release(i) ELSE UNCHANGED poolVars)
              /\ at' = [at EXCEPT ![a] = "finish"] /\ verdict' = [verdict EXCEPT ![a] = Verdict(FALSE, "failed")]
    <2>1. Label(i)' = "finish"
      BY <1>2, <1>6, <1>14 DEF Shape, Handed, Hands
    <2>2. Grip(i)' \in {"none", "released"} /\ Idle(i)'
      <3>1. CASE i \in HasWork
        BY <1>2, <1>14, <3>1, GrabsOne
      <3>2. CASE i \notin HasWork
        BY <1>2, <1>5, <1>14, <3>2, CalmStill DEF Calm, Grip, Idle
      <3> QED BY <3>1, <3>2
    <2>3. verdict'[a].started = FALSE /\ verdict'[a].err # "nil" /\ calls'[i] = << "startFailed" >>
      BY <1>10, <1>14 DEF Told, Verdict
    <2>4. Deserves(i)'
      BY <1>2, <2>3 DEF Deserves
    <2>5. Story(i)'
      BY <1>2, <1>4, <1>5, <1>6, <2>1, <2>2, <2>4 DEF Story, WhileWaiting, WhileStarting, WhileWorking, WhenAnswered, WhenOwned
    <2> QED BY <1>11, <2>5 DEF Stories
  <1> QED BY <1>7, <1>12, <1>13, <1>14

\* The reservation becomes work, or the command is answered.
LEMMA LaunchStory ==
  ASSUME Shape, Told, TypeOK, Ours, Ours', InLine, Stories, NEW a \in Actor, NEW i, i = current[a], Launch(a)
  PROVE  Stories'
  <1>1. at[a] = "launch" /\ ActorStep(a) /\ ~Receive(a) /\ at[a] \in Working
    BY DEF Launch, ActorStep, Receive, Working
  <1>2. /\ i \in Item /\ route[i] = a /\ Accepted(i) /\ Accepted(i)' /\ UNCHANGED << route, sequence >>
        /\ Lined(i)' <=> Lined(i)
        /\ at[a] \in Early => ~Lined(i)
        /\ Label(i) = IF at[a] \in Hands THEN at[a] ELSE "none"
        /\ Label(i)' = IF current'[a] = i /\ at'[a] \in Hands THEN at'[a] ELSE "none"
        /\ Owned(i) <=> i \in owned[a]
        /\ Owned(i)' <=> i \in owned'[a]
    BY <1>1, StepFacts
  <1>3. Story(i)
    BY <1>2 DEF Stories
  <1>4. Label(i) = "launch" /\ ~Lined(i) /\ ~Lined(i)'
    BY <1>1, <1>2 DEF Hands, Early
  <1>5. /\ result[i] = << >> /\ ~handle[i] /\ ~forwarding[i] /\ calls[i] = << "start" >> /\ i \in owned[a]
        /\ i \in HasWork /\ Grip(i) = "reserved"
    BY <1>2, <1>3, <1>4 DEF Story, WhileWaiting, WhileStarting, WhileWorking, WhenAnswered, WhenOwned
  <1>6. UNCHANGED << calls, result, handle, forwarding, owned, current >>
    BY DEF Launch
  <1>7. \/ StartReserved(i) /\ at' = [at EXCEPT ![a] = "attach"] /\ verdict' = verdict
        \/ /\ (Release(i) /\ callerDone[i]) \/ (StartRefused(i) /\ ~callerDone[i])
           /\ at' = [at EXCEPT ![a] = "finish"]
           /\ \E err \in {"canceled", "refused"} : verdict' = [verdict EXCEPT ![a] = Verdict(TRUE, err)]
    BY DEF Launch, Resolves, Goes
  <1>8. Grabs(i)
    BY <1>2, <1>7, GrabsOne
  <1>9. \A j \in Item \ {i} : Story(j)'
    <2>1. \A b \in Actor \ {a} : verdict'[b] = verdict[b]
      BY <1>7 DEF Told
    <2> QED BY <1>1, <1>6, <1>8, <2>1, OthersStory DEF Grabs
  <1>10. CASE StartReserved(i) /\ at' = [at EXCEPT ![a] = "attach"] /\ verdict' = verdict
    <2>1. Label(i)' = "attach"
      BY <1>2, <1>6, <1>10 DEF Shape, Handed, Hands, Early
    <2>2. Grip(i)' = "work"
      BY <1>2, <1>10, GrabsOne
    <2>3. Story(i)'
      BY <1>2, <1>4, <1>5, <1>6, <2>1, <2>2 DEF Story, WhileWaiting, WhileStarting, WhileWorking, WhenAnswered, WhenOwned
    <2> QED BY <1>9, <2>3 DEF Stories
  <1>11. CASE /\ (Release(i) /\ callerDone[i]) \/ (StartRefused(i) /\ ~callerDone[i])
              /\ at' = [at EXCEPT ![a] = "finish"]
              /\ \E err \in {"canceled", "refused"} : verdict' = [verdict EXCEPT ![a] = Verdict(TRUE, err)]
    <2>1. Label(i)' = "finish"
      BY <1>2, <1>6, <1>11 DEF Shape, Handed, Hands
    <2>2. Grip(i)' = "released" /\ Idle(i)'
      BY <1>2, <1>11, GrabsOne
    <2>3. verdict'[a].started = TRUE /\ verdict'[a].err # "nil"
      BY <1>11 DEF Told, Verdict
    <2>4. callerDone[i] \/ closed
      BY <1>11 DEF StartRefused, CtxErr
    <2>5. callerDone'[i] \/ closed'
      BY <1>8, <2>4 DEF Grabs
    <2>6. Deserves(i)'
      BY <1>2, <1>5, <1>6, <2>3, <2>5 DEF Deserves
    <2>7. Story(i)'
      BY <1>2, <1>4, <1>5, <1>6, <2>1, <2>2, <2>6 DEF Story, WhileWaiting, WhileStarting, WhileWorking, WhenAnswered, WhenOwned
    <2> QED BY <1>9, <2>7 DEF Stories
  <1> QED BY <1>7, <1>10, <1>11

\* Its handle is kept, and its result awaited.
LEMMA AttachStory ==
  ASSUME Shape, Told, TypeOK, Ours, Ours', InLine, Stories, NEW a \in Actor, NEW i, i = current[a], Attach(a)
  PROVE  Stories'
  <1>1. at[a] = "attach" /\ ActorStep(a) /\ ~Receive(a) /\ at[a] \in Working
    BY DEF Attach, ActorStep, Receive, Working
  <1>2. /\ i \in Item /\ route[i] = a /\ Accepted(i) /\ Accepted(i)' /\ UNCHANGED << route, sequence >>
        /\ Lined(i)' <=> Lined(i)
        /\ at[a] \in Early => ~Lined(i)
        /\ Label(i) = IF at[a] \in Hands THEN at[a] ELSE "none"
        /\ Label(i)' = IF current'[a] = i /\ at'[a] \in Hands THEN at'[a] ELSE "none"
        /\ Owned(i) <=> i \in owned[a]
        /\ Owned(i)' <=> i \in owned'[a]
    BY <1>1, StepFacts
  <1>3. Story(i)
    BY <1>2 DEF Stories
  <1>4. Label(i) = "attach" /\ ~Lined(i) /\ ~Lined(i)'
    BY <1>1, <1>2 DEF Hands, Early
  <1>5. /\ result[i] = << >> /\ ~handle[i] /\ ~forwarding[i] /\ calls[i] = << "start" >> /\ i \in owned[a]
        /\ i \in HasWork /\ Grip(i) = "work"
    BY <1>2, <1>3, <1>4 DEF Story, WhileWaiting, WhileStarting, WhileWorking, WhenAnswered, WhenOwned
  <1>6. /\ UNCHANGED << poolVars, calls, result, owned, verdict >>
        /\ handle' = [handle EXCEPT ![i] = TRUE] /\ forwarding' = [forwarding EXCEPT ![i] = TRUE]
        /\ at' = [at EXCEPT ![a] = "next"]
    BY DEF Attach, Loops, Goes
  <1>7. Calm
    BY <1>6, CalmStill
  <1>8. \A j \in Item \ {i} : Story(j)'
    <2>1. \A j \in Item \ {i} : handle'[j] = handle[j] /\ forwarding'[j] = forwarding[j]
      BY <1>6 DEF Told
    <2> QED BY <1>1, <1>6, <1>7, <2>1, OthersStory DEF Calm
  <1>9. Label(i)' = "none"
    BY <1>2, <1>6 DEF Shape, Handed, Hands, Early
  <1>10. handle'[i] /\ Grip(i)' = "work" /\ i \in owned'[a] /\ calls'[i] = << "start" >> /\ result'[i] = << >>
    BY <1>2, <1>5, <1>6, <1>7 DEF Told, Calm
  <1>11. Story(i)'
    BY <1>2, <1>4, <1>5, <1>9, <1>10 DEF Story, WhileWaiting, WhileStarting, WhileWorking, WhenAnswered, WhenOwned
  <1> QED BY <1>8, <1>11 DEF Stories

\* Cancel is called once, for an active command with a handle.
LEMMA CallCancelStory ==
  ASSUME Shape, Told, TypeOK, Ours, Ours', InLine, Stories, NEW a \in Actor, NEW i, i = current[a], CallCancel(a)
  PROVE  Stories'
  <1>1. at[a] = "cancel" /\ ActorStep(a) /\ ~Receive(a) /\ at[a] \in Working
    BY DEF CallCancel, ActorStep, Receive, Working
  <1>2. /\ i \in Item /\ route[i] = a /\ Accepted(i) /\ Accepted(i)' /\ UNCHANGED << route, sequence >>
        /\ Lined(i)' <=> Lined(i)
        /\ at[a] \in Early => ~Lined(i)
        /\ Label(i) = IF at[a] \in Hands THEN at[a] ELSE "none"
        /\ Label(i)' = IF current'[a] = i /\ at'[a] \in Hands THEN at'[a] ELSE "none"
        /\ Owned(i) <=> i \in owned[a]
        /\ Owned(i)' <=> i \in owned'[a]
    BY <1>1, StepFacts
  <1>3. Story(i)
    BY <1>2 DEF Stories
  <1>4. Label(i) = "none" /\ Label(i)' = "none"
    <2>1. at'[a] \notin Hands
      BY DEF CallCancel, Loops, Goes, Shape, Handed, Hands, Early
    <2> QED BY <1>1, <1>2, <2>1 DEF Hands, Early
  <1>5. UNCHANGED << poolVars, result, handle, forwarding, owned, verdict >>
    BY DEF CallCancel
  <1>6. Calm
    BY <1>5, CalmStill
  <1>7. calls' = calls \/ (i \in owned[a] /\ "cancel" \notin ToSet(calls[i]) /\ calls' = Invoked(i, "cancel"))
    BY DEF CallCancel, CallsCancelOnce
  <1>8. \A j \in Item \ {i} : Story(j)'
    <2>1. \A j \in Item \ {i} : calls'[j] = calls[j]
      BY <1>7 DEF Invoked, Told
    <2> QED BY <1>1, <1>5, <1>6, <2>1, OthersStory DEF Calm
  <1>9. CASE calls' = calls
    <2>1. Story(i)'
      BY <1>2, <1>3, <1>4, <1>5, <1>6, <1>9, SameStory DEF Calm
    <2> QED BY <1>8, <2>1 DEF Stories
  <1>10. CASE i \in owned[a] /\ "cancel" \notin ToSet(calls[i]) /\ calls' = Invoked(i, "cancel")
    <2>1. handle[i] /\ result[i] = << >> /\ i \in HasWork /\ Grip(i) = "work" /\ ~Lined(i)
      BY <1>2, <1>3, <1>4, <1>10 DEF Story, WhileWaiting, WhileStarting, WhileWorking, WhenAnswered, WhenOwned, Unbegun
    <2>2. calls[i] \in {<< "start" >>, << "start", "cancel" >>}
      BY <1>3, <1>4, <2>1 DEF Story, WhileWorking
    <2>3. calls[i] = << "start" >>
      BY <1>10, <2>2 DEF ToSet
    <2>4. calls'[i] = << "start", "cancel" >>
      <3>1. calls'[i] = Append(calls[i], "cancel")
        BY <1>2, <1>10 DEF Invoked, Told
      <3>2. Append(<< "start" >>, "cancel") = << "start", "cancel" >>
        BY AppendSecond
      <3> QED BY <2>3, <3>1, <3>2
    <2>5. Grip(i)' = "work"
      BY <1>2, <1>6, <2>1 DEF Calm
    <2>6. Story(i)'
      BY <1>2, <1>4, <1>5, <1>10, <2>1, <2>4, <2>5 DEF Story, WhileWaiting, WhileStarting, WhileWorking, WhenAnswered, WhenOwned
    <2> QED BY <1>8, <2>6 DEF Stories
  <1> QED BY <1>7, <1>9, <1>10

\* The handle is cancelled.
LEMMA CancelWorkStory ==
  ASSUME Shape, Told, TypeOK, Ours, Ours', InLine, Stories, NEW a \in Actor, NEW i, i = current[a], CancelWork(a)
  PROVE  Stories'
  <1>1. at[a] = "cancelWork" /\ ActorStep(a) /\ ~Receive(a) /\ at[a] \in Working
    BY DEF CancelWork, ActorStep, Receive, Working
  <1>2. /\ i \in Item /\ route[i] = a /\ Accepted(i) /\ Accepted(i)' /\ UNCHANGED << route, sequence >>
        /\ Lined(i)' <=> Lined(i)
        /\ at[a] \in Early => ~Lined(i)
        /\ Label(i) = IF at[a] \in Hands THEN at[a] ELSE "none"
        /\ Label(i)' = IF current'[a] = i /\ at'[a] \in Hands THEN at'[a] ELSE "none"
        /\ Owned(i) <=> i \in owned[a]
        /\ Owned(i)' <=> i \in owned'[a]
    BY <1>1, StepFacts
  <1>3. Story(i)
    BY <1>2 DEF Stories
  <1>4. Label(i) = "none" /\ Label(i)' = "none"
    <2>1. at'[a] \notin Hands
      BY DEF CancelWork, Loops, Goes, Shape, Handed, Hands, Early
    <2> QED BY <1>1, <1>2, <2>1 DEF Hands, Early
  <1>5. UNCHANGED << calls, result, handle, forwarding, owned, verdict >> /\ CancelHandle(i)
    BY DEF CancelWork
  <1>6. Calm
    BY <1>2, <1>5, CalmHandle
  <1>7. \A j \in Item \ {i} : Story(j)'
    BY <1>1, <1>5, <1>6, OthersStory DEF Calm
  <1>8. Story(i)'
    BY <1>2, <1>3, <1>4, <1>5, <1>6, SameStory DEF Calm
  <1> QED BY <1>7, <1>8 DEF Stories

\* Complete is called, once, for finished work.
LEMMA CallCompleteStory ==
  ASSUME Shape, Told, TypeOK, Ours, Ours', InLine, Stories, NEW a \in Actor, NEW i, i = current[a], CallComplete(a),
         handle[i], result[i] = << >>, ~forwarding[i], done[i] # << >>, done[i][1] \in Result
  PROVE  Stories'
  <1>1. at[a] = "complete" /\ ActorStep(a) /\ ~Receive(a) /\ at[a] \in Working
    BY DEF CallComplete, ActorStep, Receive, Working
  <1>2. /\ i \in Item /\ route[i] = a /\ Accepted(i) /\ Accepted(i)' /\ UNCHANGED << route, sequence >>
        /\ Lined(i)' <=> Lined(i)
        /\ at[a] \in Early => ~Lined(i)
        /\ Label(i) = IF at[a] \in Hands THEN at[a] ELSE "none"
        /\ Label(i)' = IF current'[a] = i /\ at'[a] \in Hands THEN at'[a] ELSE "none"
        /\ Owned(i) <=> i \in owned[a]
        /\ Owned(i)' <=> i \in owned'[a]
    BY <1>1, StepFacts
  <1>3. Story(i)
    BY <1>2 DEF Stories
  <1>4. Label(i) = "none"
    BY <1>1, <1>2 DEF Hands, Early
  <1>5. /\ i \in HasWork /\ Grip(i) = "work" /\ ~Lined(i) /\ i \in owned[a] /\ Idle(i)
        /\ calls[i] \in {<< "start" >>, << "start", "cancel" >>}
    BY <1>2, <1>3, <1>4 DEF Story, WhileWaiting, WhileStarting, WhileWorking, WhenAnswered, WhenOwned, Unbegun, Idle
  <1>6. /\ UNCHANGED << poolVars, result, handle, forwarding, owned, current >>
        /\ calls' = Invoked(i, "complete") /\ at' = [at EXCEPT ![a] = "finish"]
    BY DEF CallComplete, Resolves, Goes
  <1>7. \E cancelled, err : verdict' = [verdict EXCEPT ![a] = [started |-> TRUE, cancelled |-> cancelled, err |-> err]]
    BY DEF CallComplete, Resolves
  <1>8. Calm
    BY <1>6, CalmStill
  <1>9. \A j \in Item \ {i} : Story(j)'
    <2>1. \A j \in Item \ {i} : calls'[j] = calls[j]
      BY <1>6 DEF Invoked, Told
    <2>2. \A b \in Actor \ {a} : verdict'[b] = verdict[b]
      BY <1>7 DEF Told
    <2> QED BY <1>1, <1>6, <1>8, <2>1, <2>2, OthersStory DEF Calm
  <1>10. Label(i)' = "finish"
    BY <1>2, <1>6 DEF Shape, Handed, Hands
  <1>11. verdict'[a].started = TRUE
    BY <1>7 DEF Told
  <1>12. calls'[i] \in {<< "start", "complete" >>, << "start", "cancel", "complete" >>}
    <2>1. calls'[i] = Append(calls[i], "complete")
      BY <1>2, <1>6 DEF Invoked, Told
    <2>2. /\ Append(<< "start" >>, "complete") = << "start", "complete" >>
          /\ Append(<< "start", "cancel" >>, "complete") = << "start", "cancel", "complete" >>
      BY AppendSecond, AppendThird
    <2> QED BY <1>5, <2>1, <2>2
  <1>13. Deserves(i)'
    BY <1>2, <1>6, <1>11, <1>12 DEF Deserves
  <1>14. Grip(i)' = "work" /\ Idle(i)'
    BY <1>2, <1>5, <1>8 DEF Calm
  <1>15. Story(i)'
    BY <1>2, <1>5, <1>6, <1>10, <1>12, <1>13, <1>14 DEF Story, WhileWaiting, WhileStarting, WhileWorking, WhenAnswered, WhenOwned
  <1> QED BY <1>9, <1>15 DEF Stories

\* The command is answered.
LEMMA DeliverStory ==
  ASSUME Shape, Told, TypeOK, Ours, Ours', InLine, Stories, NEW a \in Actor, NEW i, i = current[a], Deliver(a)
  PROVE  Stories'
  <1>1. at[a] = "finish" /\ ActorStep(a) /\ ~Receive(a) /\ at[a] \in Working
    BY DEF Deliver, ActorStep, Receive, Working
  <1>2. /\ i \in Item /\ route[i] = a /\ Accepted(i) /\ Accepted(i)' /\ UNCHANGED << route, sequence >>
        /\ Lined(i)' <=> Lined(i)
        /\ at[a] \in Early => ~Lined(i)
        /\ Label(i) = IF at[a] \in Hands THEN at[a] ELSE "none"
        /\ Label(i)' = IF current'[a] = i /\ at'[a] \in Hands THEN at'[a] ELSE "none"
        /\ Owned(i) <=> i \in owned[a]
        /\ Owned(i)' <=> i \in owned'[a]
    BY <1>1, StepFacts
  <1>3. Story(i)
    BY <1>2 DEF Stories
  <1>4. Label(i) = "finish" /\ ~Lined(i)
    BY <1>1, <1>2, <1>3 DEF Hands, Story, WhileWaiting
  <1>5. result[i] = << >> /\ ~forwarding[i] /\ Idle(i) /\ (handle[i] => i \in HasWork /\ Grip(i) = "work")
    BY <1>3, <1>4 DEF Story, WhileWaiting, WhileStarting, WhileWorking, WhenAnswered, WhenOwned
  <1>6. /\ UNCHANGED << calls, handle, forwarding >> /\ at' = [at EXCEPT ![a] = "next"]
        /\ owned' = [owned EXCEPT ![a] = @ \ {i}] /\ CancelContexts({i}) /\ result' = Sent(i, verdict[a])
        /\ verdict' = [verdict EXCEPT ![a] = Verdict(FALSE, "nil")]
    BY DEF Deliver, Loops, Goes
  <1>7. Calm
    BY <1>6, CalmContexts
  <1>8. \A j \in Item \ {i} : Story(j)'
    <2>1. \A j \in Item \ {i} : result'[j] = result[j]
      BY <1>6 DEF Sent, Told
    <2>2. \A b \in Actor \ {a} : verdict'[b] = verdict[b]
      BY <1>6 DEF Told
    <2>3. \A b \in Actor : owned'[b] \ {i} = owned[b] \ {i}
      BY <1>6 DEF Shape, Named
    <2> QED BY <1>1, <1>6, <1>7, <2>1, <2>2, <2>3, OthersStory DEF Calm
  <1>9. Label(i)' = "none"
    BY <1>2, <1>6 DEF Shape, Handed, Hands, Early
  <1>10. result'[i] # << >> /\ i \notin owned'[a]
    BY <1>2, <1>5, <1>6 DEF Sent, Told, Shape, Named
  <1>11. Grip(i)' = Grip(i) /\ Idle(i)'
    BY <1>2, <1>5, <1>7 DEF Calm
  <1>12. Grip(i) # "reserved"
    BY <1>3, <1>4 DEF Story, WhileStarting
  <1>13. Story(i)'
    BY <1>2, <1>4, <1>5, <1>6, <1>9, <1>10, <1>11, <1>12 DEF Story, WhileWaiting, WhileStarting, WhileWorking, WhenAnswered, WhenOwned
  <1> QED BY <1>8, <1>13 DEF Stories

\* A step that moves no command.
LEMMA QuietStories ==
  ASSUME Ours, Ours', Calm, Stories, UNCHANGED << owned, calls, result, handle, verdict >>,
         \A i \in Item : /\ Accepted(i)' <=> Accepted(i)
                         /\ Lined(i)' <=> Lined(i)
                         /\ Accepted(i) => route'[i] = route[i]
                         /\ forwarding'[i] => forwarding[i],
         \A a \in Actor : at[a] \in Hands \/ at'[a] \in Hands => at'[a] = at[a] /\ current'[a] = current[a]
  PROVE  Stories'
  <1> SUFFICES ASSUME NEW i \in Item PROVE Story(i)'
    BY DEF Stories
  <1>1. Label(i)' = Label(i)
    BY LabelStays
  <1>2. Owned(i)' <=> Owned(i)
    BY DEF Owned
  <1>3. Label(i) = "finish" => route'[i] = route[i] /\ verdict'[route[i]] = verdict[route[i]]
    BY DEF Label, Ours, Of, Hands, Working
  <1>4. Story(i) /\ Grip(i)' = Grip(i) /\ (Idle(i) => Idle(i)') /\ (callerDone[i] => callerDone'[i]) /\ (closed => closed')
    BY DEF Stories, Calm
  <1> QED BY <1>1, <1>2, <1>3, <1>4, SameStory

\* An accepted command gets in line.
LEMMA AcceptStory ==
  ASSUME Shape, Ours, Ours', Stories, NEW i \in Item, Accept(i)
  PROVE  Stories'
  <1>1. /\ route[i] \in Actor /\ ~Accepted(i) /\ sequence' = [sequence EXCEPT ![i] = 1 + Cardinality({j \in Item : route[j] = route[i] /\ Accepted(j)})]
        /\ inbox' = [inbox EXCEPT ![route[i]] = Append(@, Command(i))] /\ at' = Awake(route[i])
        /\ UNCHANGED << poolVars, route, owned, current, verdict, handle, forwarding, dropped, calls, result >>
    BY DEF Accept, Shape, Routed
  <1>2. Accepted(i)' /\ \A j \in Item \ {i} : Accepted(j)' <=> Accepted(j)
    <2>1. Settled
      <3>1. [Next]_vars
        BY DEF Next, Client
      <3> QED BY <3>1, NextSettled
    <2>2. \A j \in Item \ {i} : sequence'[j] = sequence[j]
      BY <1>1 DEF Shape, Routed
    <2>3. sequence'[i] # 0
      BY AcceptNumbers
    <2> QED BY <2>2, <2>3 DEF Accepted
  <1>3. /\ Pending(route[i])' = Pending(route[i]) \cup {i}
        /\ \A b \in Actor \ {route[i]} : Pending(b)' = Pending(b)
    <2>1. Command(i) \in Entry /\ Command(i).kind = "command" /\ Command(i).request = i
      BY DEF Command, Entry
    <2>2. Puts(route[i], Command(i))
      BY <1>1, <2>1, AppendPuts DEF Shape, Named
    <2> QED BY <1>1, <2>1, <2>2, PendingPut
  <1>4. Lined(i)' /\ \A j \in Item \ {i} : Lined(j)' <=> Lined(j)
    BY <1>1, <1>3 DEF Lined, Line
  <1>5. Calm
    BY <1>1, CalmStill
  <1>6. \A a \in Actor : at[a] \in Hands \/ at'[a] \in Hands => at'[a] = at[a] /\ current'[a] = current[a]
    BY <1>1 DEF Awake, Shape, Handed, Hands, Early
  <1>7. \A j \in Item : Label(j)' = Label(j)
    BY <1>1, <1>6, LabelStays
  <1>8. \A j \in Item : Owned(j)' <=> Owned(j)
    BY <1>1 DEF Owned
  <1>9. ASSUME NEW j \in Item \ {i}
        PROVE  Story(j)'
    <2>1. Story(j)
      BY DEF Stories
    <2> QED BY <1>1, <1>2, <1>4, <1>5, <1>7, <1>8, <2>1, SameStory DEF Calm
  <1>10. Story(i)'
    <2>1. Story(i) /\ Unbegun(i)
      BY <1>1 DEF Stories, Story, WhileWaiting
    <2>2. Label(i) = "none"
      BY <1>1 DEF Label, Ours, Of, Hands, Early, Working
    <2>3. ~Owned(i)
      BY <2>1, <2>2 DEF Story, WhenOwned, Unbegun
    <2>4. Unbegun(i)'
      BY <1>1, <1>5, <2>1 DEF Unbegun, Calm
    <2> QED BY <1>2, <1>4, <1>7, <1>8, <2>2, <2>3, <2>4
            DEF Story, WhileWaiting, WhileStarting, WhileWorking, WhenAnswered, WhenOwned, Unbegun
  <1> QED BY <1>9, <1>10 DEF Stories

\* The first command leaves the line for the hands of its actor; what is no
\* command leaves the line as it is.
LEMMA ReceiveLine ==
  ASSUME Shape, Ours, Ours', InLine, InLine', NEW a \in Actor, Receive(a), NEW i, i = current'[a]
  PROVE  /\ i \in Of(a) /\ at[a] = "next"
         /\ at' = [at EXCEPT ![a] = inbox[a][1].kind] /\ current' = [current EXCEPT ![a] = inbox[a][1].request]
         /\ inbox[a][1] \in Entry
         /\ \A j \in Item : j # i \/ inbox[a][1].kind # "command" => (Lined(j)' <=> Lined(j))
         /\ inbox[a][1].kind = "command" => Lined(i) /\ ~Lined(i)'
  <1>1. Takes(a)
    BY ReceiveTakes
  <1>2. /\ at[a] = "next" /\ at' = [at EXCEPT ![a] = Head(inbox[a]).kind]
        /\ current' = [current EXCEPT ![a] = Head(inbox[a]).request]
        /\ UNCHANGED << route, sequence, dropped >>
    BY DEF Receive, Goes
  <1>3. inbox[a] \in Seq(Entry) /\ inbox[a] # << >>
    BY DEF Receive, Shape, Named
  <1>4. Head(inbox[a]) = inbox[a][1] /\ inbox[a][1] \in Entry /\ 1 \in DOMAIN inbox[a]
    BY <1>3
  <1>5. i = inbox[a][1].request /\ i \in Of(a) /\ at'[a] = inbox[a][1].kind
    BY <1>2, <1>4 DEF Shape, Handed, Ours
  <1>6. /\ \A k \in DOMAIN inbox'[a] : k + 1 \in DOMAIN inbox[a] /\ inbox'[a][k] = inbox[a][k + 1]
        /\ \A k \in DOMAIN inbox[a] : k # 1 => k - 1 \in DOMAIN inbox'[a] /\ inbox'[a][k - 1] = inbox[a][k]
        /\ \A b \in Actor : b # a => inbox'[b] = inbox[b]
    BY <1>1 DEF Takes
  <1>7. \A j \in Item : j # i \/ inbox[a][1].kind # "command" => inbox[a][1] # Command(j)
    BY <1>5 DEF Command
  <1>8. \A j \in Item : j # i \/ inbox[a][1].kind # "command" => (j \in Pending(a)' <=> j \in Pending(a))
    BY <1>6, <1>7 DEF Pending
  <1>9. \A b \in Actor : b # a => Pending(b)' = Pending(b)
    BY <1>6 DEF Pending
  <1>10. ASSUME NEW j \in Item, j # i \/ inbox[a][1].kind # "command"
         PROVE  Lined(j)' <=> Lined(j)
    <2>1. \A b \in Actor : j \in Line(b)' <=> j \in Line(b)
      BY <1>2, <1>8, <1>9, <1>10 DEF Line
    <2> QED BY <2>1 DEF Lined
  <1>11. ASSUME inbox[a][1].kind = "command"
         PROVE  Lined(i) /\ ~Lined(i)'
    <2>1. i \in Pending(a)
      BY <1>4, <1>5, <1>11, PendingIs
    <2>2. Lined(i)
      BY <2>1 DEF Lined, Line
    <2>3. i \notin Line(a)'
      <3>1. at'[a] \in Early /\ sequence'[i] \in Nat
        BY <1>2, <1>5, <1>11 DEF Early, Of, Shape, Routed
      <3>2. i \in Line(a)' => sequence'[i] < sequence'[i]
        BY <3>1 DEF InLine
      <3> QED BY <3>1, <3>2
    <2>4. ASSUME NEW b \in Actor, b # a, i \in Line(b)'
          PROVE  FALSE
      <3>1. i \in Line(b)
        BY <1>2, <1>9, <2>4 DEF Line
      <3>2. i \in Of(b)
        BY <3>1, PendingIs DEF Line, Ours
      <3> QED BY <1>5, <2>4, <3>2 DEF Of
    <2> QED BY <2>2, <2>3, <2>4 DEF Lined
  <1> QED BY <1>2, <1>4, <1>5, <1>10, <1>11

\* So the actor begins with it.
LEMMA ReceiveStory ==
  ASSUME Shape, Ours, Ours', InLine, InLine', Stories, NEW a \in Actor, Receive(a)
  PROVE  Stories'
  <1>1. PICK i : i = current'[a]
    OBVIOUS
  <1>2. /\ i \in Of(a) /\ at[a] = "next"
        /\ at' = [at EXCEPT ![a] = inbox[a][1].kind] /\ current' = [current EXCEPT ![a] = inbox[a][1].request]
        /\ inbox[a][1] \in Entry
        /\ \A j \in Item : j # i \/ inbox[a][1].kind # "command" => (Lined(j)' <=> Lined(j))
        /\ inbox[a][1].kind = "command" => Lined(i) /\ ~Lined(i)'
    BY <1>1, ReceiveLine
  <1>3. UNCHANGED << poolVars, route, sequence, owned, verdict, handle, forwarding, calls, result >>
    BY DEF Receive
  <1>4. Calm /\ \A j \in Item : Accepted(j)' <=> Accepted(j)
    BY <1>3, CalmStill DEF Accepted
  <1>5. CASE inbox[a][1].kind # "command"
    <2>1. inbox[a][1].kind \in {"cancel", "complete"}
      BY <1>2, <1>5 DEF Entry
    <2>2. \A b \in Actor : at[b] \in Hands \/ at'[b] \in Hands => at'[b] = at[b] /\ current'[b] = current[b]
      BY <1>2, <2>1 DEF Shape, Handed, Hands, Early
    <2> QED BY <1>2, <1>3, <1>4, <1>5, <2>2, QuietStories
  <1>6. CASE inbox[a][1].kind = "command"
    <2>1. i \in Item /\ route[i] = a /\ Accepted(i) /\ at'[a] = "command" /\ "command" \in Hands
      BY <1>2, <1>6 DEF Of, Shape, Handed, Hands, Early
    <2>2. Label(i)' = "command" /\ Label(i) = "none"
      BY <1>1, <1>2, <1>3, <2>1 DEF Label, Hands, Early
    <2>3. Unbegun(i) /\ Story(i)
      BY <1>2, <1>6, <2>1 DEF Stories, Story, WhileWaiting
    <2>4. Unbegun(i)'
      BY <1>3, <1>4, <2>1, <2>3 DEF Unbegun, Calm
    <2>5. ~Owned(i)'
      BY <1>3, <2>2, <2>3 DEF Story, WhenOwned, Unbegun, Owned
    <2>6. Story(i)'
      BY <1>2, <1>6, <2>2, <2>4, <2>5 DEF Story, WhileWaiting, WhileStarting, WhileWorking, WhenAnswered, WhenOwned, Unbegun
    <2>7. ASSUME NEW j \in Item \ {i}
          PROVE  Story(j)'
      <3>1. Label(j)' = Label(j)
        <4>1. \A b \in Actor : b # a => at'[b] = at[b] /\ current'[b] = current[b]
          BY <1>2 DEF Shape, Handed
        <4>2. at[a] \notin Hands
          BY <1>2 DEF Hands, Early
        <4> QED BY <1>1, <1>3, <4>1, <4>2 DEF Label
      <3>2. Owned(j)' <=> Owned(j)
        BY <1>3 DEF Owned
      <3>3. Story(j) /\ (Lined(j)' <=> Lined(j))
        BY <1>2 DEF Stories
      <3> QED BY <1>3, <1>4, <3>1, <3>2, <3>3, SameStory DEF Calm
    <2> QED BY <2>6, <2>7 DEF Stories
  <1> QED BY <1>5, <1>6

\* Close answers a command that waited.
LEMMA DropPendingStory ==
  ASSUME Shape, Told, TypeOK, Ours, Ours', InLine, Stories, NEW a \in Actor, DropPending(a)
  PROVE  Stories'
  <1>1. PICK i \in dropped[a] :
          /\ dropped' = [dropped EXCEPT ![a] = @ \ {i}]
          /\ owned' = [owned EXCEPT ![a] = @ \ {i}]
          /\ CancelContexts({i})
          /\ result' = Sent(i, Verdict(FALSE, "canceled"))
    BY DEF DropPending
  <1>2. at' = Awake(a) /\ UNCHANGED << route, sequence, inbox, current, verdict, handle, forwarding, calls >>
    BY DEF DropPending
  <1>3. i \in Item /\ route[i] = a /\ Accepted(i) /\ i \in Line(a) /\ Lined(i) /\ i \in Of(a)
    BY DEF Ours, Of, Line, Lined
  <1>4. Calm /\ \A j \in Item : Accepted(j)' <=> Accepted(j)
    BY <1>1, <1>2, CalmContexts DEF Accepted
  <1>5. \A b \in Actor : at[b] \in Hands \/ at'[b] \in Hands => at'[b] = at[b] /\ current'[b] = current[b]
    BY <1>2 DEF Awake, Shape, Handed, Hands, Early
  <1>6. \A j \in Item : Label(j)' = Label(j)
    BY <1>2, <1>5, LabelStays
  <1>7. Label(i) = "none"
    <2>1. Label(i) # "finish"
      BY <1>3 DEF Stories, Story, WhileWaiting
    <2>2. current[a] = i => at[a] \notin Early
      BY <1>3, EarlyNotLined
    <2> QED BY <1>3, <2>1, <2>2 DEF Label, Hands
  <1>8. Pending(a) = {} /\ \A b \in Actor : Pending(b)' = Pending(b)
    BY <1>2 DEF InLine, Pending
  <1>9. dropped'[a] = dropped[a] \ {i} /\ \A b \in Actor : b # a => dropped'[b] = dropped[b]
    BY <1>1 DEF Shape, Named
  <1>10. owned'[a] = owned[a] \ {i} /\ \A b \in Actor : b # a => owned'[b] = owned[b]
    BY <1>1 DEF Shape, Named
  <1>11. \A b \in Actor : b # a => i \notin Line(b) /\ i \notin owned[b]
    <2>1. \A b \in Actor : i \in Line(b) => i \in Of(b)
      BY PendingIs DEF Line, Ours
    <2> QED BY <1>3, <2>1 DEF Of, Ours
  <1>12. ~Lined(i)' /\ ~Owned(i)'
    BY <1>8, <1>9, <1>10, <1>11 DEF Lined, Line, Owned
  <1>13. \A j \in Item \ {i} : (Lined(j)' <=> Lined(j)) /\ (Owned(j)' <=> Owned(j))
    <2>1. \A j \in Item \ {i} : \A b \in Actor : (j \in dropped'[b] <=> j \in dropped[b]) /\ (j \in owned'[b] <=> j \in owned[b])
      BY <1>9, <1>10
    <2> QED BY <1>8, <2>1 DEF Lined, Line, Owned
  <1>14. \A j \in Item \ {i} : result'[j] = result[j]
    BY <1>1 DEF Sent, Told
  <1>15. ASSUME NEW j \in Item \ {i}
         PROVE  Story(j)'
    <2>1. Story(j)
      BY DEF Stories
    <2> QED BY <1>2, <1>4, <1>6, <1>13, <1>14, <2>1, SameStory DEF Calm
  <1>16. Unbegun(i)
    BY <1>3 DEF Stories, Story, WhileWaiting
  <1>17. result'[i] # << >> /\ ~handle'[i] /\ ~forwarding'[i] /\ Grip(i)' = "none"
    BY <1>1, <1>2, <1>3, <1>4, <1>16 DEF Unbegun, Sent, Told, Calm
  <1>18. Idle(i)'
    BY <1>17 DEF Grip, Idle
  <1>19. Accepted(i)' /\ Label(i)' = "none"
    BY <1>3, <1>4, <1>6, <1>7
  <1>20. Story(i)'
    BY <1>12, <1>17, <1>18, <1>19 DEF Story, WhileWaiting, WhileStarting, WhileWorking, WhenAnswered, WhenOwned
  <1> QED BY <1>15, <1>20 DEF Stories

-----------------------------------------------------------------------------
(* The completion of a command *)

\* Its work was launched and it has not been completed.
Posting(i) == handle[i] /\ result[i] = << >> /\ Label(i) # "finish"

\* One thing stands for that at most: the goroutine that waits for the result,
\* an entry of an inbox, or the call of complete().
OnceFor(i) ==
    /\ forwarding[i] => Posting(i)
    /\ \A a \in Actor : \A k \in DOMAIN inbox[a] : inbox[a][k] = Completion(i) =>
         Posting(i) /\ ~forwarding[i] /\ \A j \in DOMAIN inbox[a] : inbox[a][j] = Completion(i) => j = k
    /\ \A a \in Actor : at[a] = "complete" /\ current[a] = i =>
         Posting(i) /\ ~forwarding[i] /\ \A j \in DOMAIN inbox[a] : inbox[a][j] # Completion(i)

Once == \A i \in Item : OnceFor(i)

\* No completion is added to an inbox.
NoneAdded(a) ==
    \A i \in Item :
        /\ \A k \in DOMAIN inbox'[a] : inbox'[a][k] = Completion(i) =>
             \E m \in DOMAIN inbox[a] : inbox[a][m] = Completion(i)
        /\ \A j, k \in DOMAIN inbox'[a] : j # k /\ inbox'[a][j] = Completion(i) /\ inbox'[a][k] = Completion(i) =>
             \E l, m \in DOMAIN inbox[a] : l # m /\ inbox[a][l] = Completion(i) /\ inbox[a][m] = Completion(i)

\* Another entry is put into an inbox, or Close rebuilds it.
LEMMA NoneAddedBy ==
  ASSUME NEW a \in Actor,
         \/ Rebuilds(a)
         \/ Takes(a)
         \/ \E e \in Entry : Puts(a, e) /\ e.kind # "complete"
  PROVE  \A b \in Actor : NoneAdded(b)
  <1>1. ASSUME NEW e \in Entry, Puts(a, e), e.kind # "complete", NEW b \in Actor
        PROVE  NoneAdded(b)
    <2>1. \A i \in Item : Completion(i) # e
      BY <1>1 DEF Completion
    <2>2. \A k \in DOMAIN inbox'[b] : (b = a /\ inbox'[b][k] = e) \/ (k \in DOMAIN inbox[b] /\ inbox'[b][k] = inbox[b][k])
      BY <1>1 DEF Puts
    <2> QED BY <2>1, <2>2 DEF NoneAdded
  <1>2. ASSUME Rebuilds(a), NEW b \in Actor
        PROVE  NoneAdded(b)
    <2>1. CASE b # a
      BY <1>2, <2>1 DEF Rebuilds, NoneAdded
    <2>2. CASE b = a
      <3>1. \A i : Completion(i).kind = "complete"
        BY DEF Completion
      <3> QED BY <1>2, <2>2, <3>1 DEF Rebuilds, NoneAdded
    <2> QED BY <2>1, <2>2
  <1>3. ASSUME Takes(a), NEW b \in Actor
        PROVE  NoneAdded(b)
    <2>1. CASE b # a
      BY <1>3, <2>1 DEF Takes, NoneAdded
    <2>2. CASE b = a
      <3>1. \A k \in DOMAIN inbox'[a] : k + 1 \in DOMAIN inbox[a] /\ inbox'[a][k] = inbox[a][k + 1]
        BY <1>3 DEF Takes
      <3>2. \A j, k \in DOMAIN inbox'[a] : j # k => j + 1 # k + 1
        BY <1>3 DEF Takes
      <3> QED BY <2>2, <3>1, <3>2 DEF NoneAdded
    <2> QED BY <2>1, <2>2
  <1> QED BY <1>1, <1>2, <1>3

\* Nothing stands for a completion of the command any more.
Quit(i) ==
    /\ ~forwarding'[i]
    /\ \A a \in Actor : \A k \in DOMAIN inbox[a] : inbox[a][k] # Completion(i)
    /\ \A a \in Actor : at'[a] = "complete" => current'[a] # i

\* A step that begins no completion.
LEMMA OnceStays ==
  ASSUME Once,
         \A i \in Item : (Posting(i) => Posting(i)' /\ (forwarding'[i] <=> forwarding[i])) \/ Quit(i),
         \A i \in Item : forwarding'[i] => forwarding[i],
         \A a \in Actor : NoneAdded(a),
         \A a \in Actor : at'[a] = "complete" => at[a] = "complete" /\ current'[a] = current[a]
  PROVE  Once'
  <1> SUFFICES ASSUME NEW i \in Item PROVE OnceFor(i)'
    BY DEF Once
  <1>1. OnceFor(i) /\ (forwarding'[i] => forwarding[i])
    BY DEF Once
  <1>2. CASE Posting(i) => Posting(i)' /\ (forwarding'[i] <=> forwarding[i])
    <2>1. ASSUME NEW a \in Actor, NEW k \in DOMAIN inbox'[a], inbox'[a][k] = Completion(i)
          PROVE  Posting(i)' /\ ~forwarding'[i] /\ \A j \in DOMAIN inbox'[a] : inbox'[a][j] = Completion(i) => j = k
      <3>1. Posting(i) /\ ~forwarding[i]
        BY <1>1, <2>1 DEF NoneAdded, OnceFor
      <3>2. \A j \in DOMAIN inbox'[a] : inbox'[a][j] = Completion(i) => j = k
        BY <1>1, <2>1 DEF NoneAdded, OnceFor
      <3> QED BY <1>1, <1>2, <3>1, <3>2
    <2>2. ASSUME NEW a \in Actor, at'[a] = "complete", current'[a] = i
          PROVE  Posting(i)' /\ ~forwarding'[i] /\ \A j \in DOMAIN inbox'[a] : inbox'[a][j] # Completion(i)
      <3>1. at[a] = "complete" /\ current[a] = i
        BY <2>2
      <3>2. Posting(i) /\ ~forwarding[i] /\ \A j \in DOMAIN inbox[a] : inbox[a][j] # Completion(i)
        BY <1>1, <3>1 DEF OnceFor
      <3> QED BY <1>1, <1>2, <3>2 DEF NoneAdded
    <2> QED BY <1>1, <1>2, <2>1, <2>2 DEF OnceFor
  <1>3. CASE Quit(i)
    <2>1. \A a \in Actor : \A k \in DOMAIN inbox'[a] : inbox'[a][k] # Completion(i)
      BY <1>3 DEF Quit, NoneAdded
    <2> QED BY <1>3, <2>1 DEF Quit, OnceFor
  <1> QED BY <1>2, <1>3

\* The next entry may be a completion: then it is in hand and no more in the inbox.
LEMMA ReceiveOnce ==
  ASSUME Shape, Ours, Ours', InLine, InLine', Stories, Once, NEW a \in Actor, Receive(a)
  PROVE  Once'
  <1>1. PICK i : i = current'[a]
    OBVIOUS
  <1>2. /\ i \in Of(a) /\ at[a] = "next"
        /\ at' = [at EXCEPT ![a] = inbox[a][1].kind] /\ current' = [current EXCEPT ![a] = inbox[a][1].request]
        /\ inbox[a][1] \in Entry
    BY <1>1, ReceiveLine
  <1>3. UNCHANGED << route, handle, forwarding, result >>
    BY DEF Receive
  <1>4. Takes(a)
    BY ReceiveTakes
  <1>5. \A b \in Actor : b # a => at'[b] = at[b] /\ current'[b] = current[b]
    BY <1>2 DEF Shape, Handed
  <1>6. at'[a] = inbox[a][1].kind /\ i = inbox[a][1].request /\ at'[a] \in {"command", "cancel", "complete"}
    BY <1>1, <1>2 DEF Shape, Handed, Entry
  <1>7. \A j \in Item : Label(j) # "finish" => Label(j)' # "finish"
    BY <1>2, <1>3, <1>5, <1>6 DEF Label
  <1>8. \A j \in Item : Posting(j) => Posting(j)'
    BY <1>3, <1>7 DEF Posting
  <1>9. CASE inbox[a][1].kind # "complete"
    BY <1>3, <1>4, <1>5, <1>6, <1>8, <1>9, NoneAddedBy, OnceStays
  <1>10. CASE inbox[a][1].kind = "complete"
    <2>1. inbox[a][1] = Completion(i) /\ i \in Item /\ route[i] = a /\ 1 \in DOMAIN inbox[a]
      BY <1>2, <1>4, <1>6, <1>10 DEF Entry, Completion, Of, Takes
    <2>2. Posting(i) /\ ~forwarding[i] /\ \A k \in DOMAIN inbox[a] : inbox[a][k] = Completion(i) => k = 1
      BY <2>1 DEF Once, OnceFor
    <2>3. \A k \in DOMAIN inbox'[a] : inbox'[a][k] # Completion(i)
      BY <1>4, <2>2 DEF Takes
    <2>4. \A b \in Actor : b # a => \A k \in DOMAIN inbox'[b] : inbox'[b][k] # Completion(i)
      BY <1>4, <2>1 DEF Takes, Ours, Of, Completion
    <2>5. OnceFor(i)'
      <3>1. \A b \in Actor : at'[b] = "complete" /\ current'[b] = i => b = a
        BY <1>5, <2>1 DEF Ours, Of, Working
      <3> QED BY <1>3, <1>8, <2>1, <2>2, <2>3, <2>4, <3>1 DEF OnceFor
    <2>6. ASSUME NEW j \in Item \ {i}
          PROVE  OnceFor(j)'
      <3>1. \A b \in Actor : NoneAdded(b)
        BY <1>4, NoneAddedBy
      <3>2. \A b \in Actor : at'[b] = "complete" /\ current'[b] = j => at[b] = "complete" /\ current[b] = j
        BY <1>1, <1>5
      <3>3. OnceFor(j)
        BY DEF Once
      <3>4. \A b \in Actor : \A k \in DOMAIN inbox'[b] : inbox'[b][k] = Completion(j) =>
              Posting(j)' /\ ~forwarding'[j] /\ \A m \in DOMAIN inbox'[b] : inbox'[b][m] = Completion(j) => m = k
        BY <1>3, <1>8, <3>1, <3>3 DEF NoneAdded, OnceFor
      <3>5. \A b \in Actor : at'[b] = "complete" /\ current'[b] = j =>
              Posting(j)' /\ ~forwarding'[j] /\ \A m \in DOMAIN inbox'[b] : inbox'[b][m] # Completion(j)
        BY <1>3, <1>8, <3>1, <3>2, <3>3 DEF NoneAdded, OnceFor
      <3> QED BY <1>3, <1>8, <3>3, <3>4, <3>5 DEF OnceFor
    <2> QED BY <2>5, <2>6 DEF Once
  <1> QED BY <1>9, <1>10

\* A command that was not launched, or was answered, has nothing to complete.
LEMMA NothingPosted ==
  ASSUME Once, NEW i \in Item, ~Posting(i)
  PROVE  /\ ~forwarding[i]
         /\ \A a \in Actor : \A k \in DOMAIN inbox[a] : inbox[a][k] # Completion(i)
         /\ \A a \in Actor : at[a] = "complete" => current[a] # i
  BY DEF Once, OnceFor

\* Its result is forwarded to its actor.
LEMMA ForwardOnce ==
  ASSUME Shape, Told, Ours, Ours', Once, NEW i \in Item, Forward(i)
  PROVE  Once'
  <1>1. /\ forwarding[i] /\ forwarding' = [forwarding EXCEPT ![i] = FALSE]
        /\ inbox' = [inbox EXCEPT ![route[i]] = Append(@, Completion(i))] /\ at' = Awake(route[i])
        /\ UNCHANGED << route, current, handle, result >> /\ route[i] \in Actor
    BY DEF Forward, Ours, Shape, Routed
  <1>2. Puts(route[i], Completion(i))
    <2>1. Completion(i) \in Entry
      BY DEF Completion, Entry
    <2> QED BY <1>1, <2>1, AppendPuts DEF Shape, Named
  <1>3. \A b \in Actor : at[b] \in Hands \/ at'[b] \in Hands => at'[b] = at[b] /\ current'[b] = current[b]
    BY <1>1 DEF Awake, Shape, Handed, Hands, Early
  <1>4. \A j \in Item : Posting(j)' <=> Posting(j)
    <2>1. \A j \in Item : Label(j)' = Label(j)
      BY <1>1, <1>3, LabelStays
    <2> QED BY <1>1, <2>1 DEF Posting
  <1>5. \A b \in Actor : at'[b] = "complete" => at[b] = "complete" /\ current'[b] = current[b]
    BY <1>1 DEF Awake, Shape, Handed
  <1>6. ASSUME NEW j \in Item \ {i}
        PROVE  OnceFor(j)'
    <2>1. \A b \in Actor : \A k \in DOMAIN inbox'[b] : inbox'[b][k] = Completion(j) =>
            k \in DOMAIN inbox[b] /\ inbox[b][k] = Completion(j)
      <3>1. Completion(j) # Completion(i)
        BY DEF Completion
      <3>2. \A b \in Actor : \A k \in DOMAIN inbox'[b] :
              inbox'[b][k] = Completion(i) \/ (k \in DOMAIN inbox[b] /\ inbox'[b][k] = inbox[b][k])
        BY <1>2 DEF Puts
      <3> QED BY <3>1, <3>2
    <2>2. \A b \in Actor : \A k \in DOMAIN inbox[b] : k \in DOMAIN inbox'[b] /\ inbox'[b][k] = inbox[b][k]
      BY <1>2 DEF Puts
    <2>3. OnceFor(j)
      BY DEF Once
    <2>4. forwarding'[j] = forwarding[j]
      BY <1>1
    <2>5. \A b \in Actor : \A k \in DOMAIN inbox'[b] : inbox'[b][k] = Completion(j) =>
            Posting(j)' /\ ~forwarding'[j] /\ \A m \in DOMAIN inbox'[b] : inbox'[b][m] = Completion(j) => m = k
      BY <1>4, <2>1, <2>3, <2>4 DEF OnceFor
    <2>6. \A b \in Actor : at'[b] = "complete" /\ current'[b] = j =>
            Posting(j)' /\ ~forwarding'[j] /\ \A m \in DOMAIN inbox'[b] : inbox'[b][m] # Completion(j)
      BY <1>4, <1>5, <2>1, <2>3, <2>4 DEF OnceFor
    <2> QED BY <1>4, <2>3, <2>4, <2>5, <2>6 DEF OnceFor
  <1>7. OnceFor(i)'
    <2>1. /\ Posting(i) /\ \A b \in Actor : at[b] = "complete" => current[b] # i
          /\ \A b \in Actor : \A k \in DOMAIN inbox[b] : inbox[b][k] # Completion(i)
      BY <1>1 DEF Once, OnceFor
    <2>2. \A b \in Actor : \A k \in DOMAIN inbox'[b] : inbox'[b][k] = Completion(i) =>
            b = route[i] /\ k = Len(inbox[b]) + 1
      BY <1>2, <2>1 DEF Puts
    <2>3. ~forwarding'[i]
      BY <1>1 DEF Told
    <2> QED BY <1>4, <1>5, <2>1, <2>2, <2>3 DEF OnceFor
  <1> QED BY <1>6, <1>7 DEF Once

\* A goroutine is started that waits for the result.
LEMMA AttachOnce ==
  ASSUME Shape, Told, Ours, Ours', InLine, Stories, Once, NEW a \in Actor, NEW i, i = current[a], Attach(a)
  PROVE  Once'
  <1>1. at[a] = "attach" /\ ActorStep(a) /\ ~Receive(a) /\ at[a] \in Working
    BY DEF Attach, ActorStep, Receive, Working
  <1>2. /\ i \in Item /\ Label(i) = "attach"
        /\ Label(i)' = IF current'[a] = i /\ at'[a] \in Hands THEN at'[a] ELSE "none"
        /\ \A j \in Item \ {i} : Label(j)' = Label(j)
    BY <1>1, StepFacts DEF Hands, Early
  <1>3. result[i] = << >> /\ ~handle[i]
    BY <1>2 DEF Stories, Story, WhileStarting
  <1>4. /\ UNCHANGED << inbox, result >>
        /\ handle' = [handle EXCEPT ![i] = TRUE] /\ forwarding' = [forwarding EXCEPT ![i] = TRUE]
        /\ at' = [at EXCEPT ![a] = "next"] /\ \A b \in Actor : b # a => current'[b] = current[b]
    BY DEF Attach, Loops, Goes, Shape, Handed
  <1>5. \A b \in Actor : at'[b] = "complete" => at[b] = "complete" /\ current'[b] = current[b]
    BY <1>4 DEF Shape, Handed
  <1>6. OnceFor(i)'
    <2>1. /\ \A b \in Actor : \A k \in DOMAIN inbox[b] : inbox[b][k] # Completion(i)
          /\ \A b \in Actor : at[b] = "complete" => current[b] # i
      BY <1>2, <1>3, NothingPosted DEF Posting
    <2>2. Label(i)' = "none"
      BY <1>2, <1>4 DEF Shape, Handed, Hands, Early
    <2>3. Posting(i)'
      BY <1>2, <1>3, <1>4, <2>2 DEF Posting, Told
    <2> QED BY <1>4, <1>5, <2>1, <2>3 DEF OnceFor
  <1>7. ASSUME NEW j \in Item \ {i}
        PROVE  OnceFor(j)'
    <2>1. handle'[j] = handle[j] /\ forwarding'[j] = forwarding[j] /\ result'[j] = result[j]
      BY <1>4 DEF Told
    <2>2. Posting(j)' <=> Posting(j)
      BY <1>2, <2>1 DEF Posting
    <2>3. OnceFor(j)
      BY DEF Once
    <2> QED BY <1>4, <1>5, <2>1, <2>2, <2>3 DEF OnceFor
  <1> QED BY <1>6, <1>7 DEF Once

\* The other steps of an actor's goroutine.
LEMMA ActorOnce ==
  ASSUME Shape, Told, Ours, Ours', InLine, Stories, Once, NEW a \in Actor, NEW i, i = current[a],
         ActorStep(a), ~Receive(a), ~Attach(a)
  PROVE  Once'
  <1>1. inbox' = inbox /\ UNCHANGED << handle, forwarding, route >>
    BY DEF ActorStep, Sleep, Leave, Admit, ReserveSlot, CallStart, Launch,
           CallCancel, CancelWork, CallComplete, Deliver
  <1>2. \A b \in Actor : NoneAdded(b)
    BY <1>1 DEF NoneAdded
  <1>3. \A b \in Actor \ {a} : at'[b] = at[b] /\ current'[b] = current[b]
    BY StepsOn
  <1>4. at'[a] # "complete"
    <2>1. \E label : at' = [at EXCEPT ![a] = label] /\ label # "complete"
      BY DEF ActorStep, Sleep, Leave, Admit, ReserveSlot, CallStart, Launch,
             CallCancel, CancelWork, CallComplete, Deliver, Loops, Goes, Resolves
    <2> QED BY <2>1 DEF Shape, Handed
  <1>5. \A b \in Actor : at'[b] = "complete" => at[b] = "complete" /\ current'[b] = current[b]
    BY <1>3, <1>4
  <1>6. CASE at[a] \notin Working
    <2>1. at'[a] \notin Hands /\ result' = result
      <3>1. Sleep(a) \/ Leave(a)
        BY <1>6 DEF ActorStep, Working, Admit, ReserveSlot, CallStart, Launch,
                    CallCancel, CancelWork, CallComplete, Deliver
      <3> QED BY <3>1 DEF Sleep, Leave, Goes, Shape, Handed, Hands, Early
    <2>2. \A b \in Actor : at[b] \in Hands \/ at'[b] \in Hands => at'[b] = at[b] /\ current'[b] = current[b]
      BY <1>3, <1>6, <2>1 DEF Hands, Early, Working
    <2>3. \A j \in Item : Label(j)' = Label(j)
      BY <1>1, <2>2, LabelStays
    <2>4. \A j \in Item : Posting(j) => Posting(j)'
      BY <1>1, <2>1, <2>3 DEF Posting
    <2> QED BY <1>1, <1>2, <1>5, <2>4, OnceStays
  <1>7. CASE at[a] \in Working
    <2>1. /\ i \in Item /\ route[i] = a /\ Accepted(i)
          /\ Label(i) = IF at[a] \in Hands THEN at[a] ELSE "none"
          /\ Label(i)' = IF current'[a] = i /\ at'[a] \in Hands THEN at'[a] ELSE "none"
          /\ \A j \in Item \ {i} : Label(j)' = Label(j)
      BY <1>7, StepFacts
    <2>2. \A j \in Item \ {i} : result'[j] = result[j]
      BY <2>1 DEF ActorStep, Sleep, Leave, Admit, ReserveSlot, CallStart, Launch, Told,
             CallCancel, CancelWork, CallComplete, Deliver, Sent
    <2>3. \A j \in Item \ {i} : Posting(j) => Posting(j)'
      BY <1>1, <2>1, <2>2 DEF Posting
    <2>4. (Posting(i) => Posting(i)') \/ Quit(i)
      <3>1. CASE at[a] \in Early
        <4>1. ~handle[i]
          BY <2>1, <3>1 DEF Stories, Story, WhileWaiting, WhileStarting, Unbegun, Early, Hands
        <4> QED BY <4>1 DEF Posting
      <3>2. CASE CallCancel(a) \/ CancelWork(a)
        <4>1. result' = result /\ at'[a] \notin Hands
          BY <3>2 DEF CallCancel, CancelWork, Loops, Goes, Shape, Handed, Hands, Early
        <4> QED BY <1>1, <2>1, <4>1 DEF Posting
      <3>3. CASE Deliver(a)
        <4>1. Label(i) = "finish"
          BY <2>1, <3>3 DEF Deliver, Hands
        <4> QED BY <4>1 DEF Posting
      <3>4. CASE CallComplete(a)
        <4>1. ~forwarding[i] /\ \A k \in DOMAIN inbox[a] : inbox[a][k] # Completion(i)
          BY <2>1, <3>4 DEF CallComplete, Once, OnceFor
        <4>2. \A b \in Actor : b # a => \A k \in DOMAIN inbox[b] : inbox[b][k] # Completion(i)
          BY <2>1 DEF Ours, Of, Completion
        <4>3. \A b \in Actor : at'[b] = "complete" => current'[b] # i
          BY <1>3, <1>4, <2>1 DEF Ours, Of, Working
        <4> QED BY <1>1, <4>1, <4>2, <4>3 DEF Quit
      <3>5. at[a] \in Early \/ CallCancel(a) \/ CancelWork(a) \/ Deliver(a) \/ CallComplete(a)
        BY <1>7 DEF ActorStep, Sleep, Leave, Admit, ReserveSlot, CallStart, Launch, Early, Working
      <3> QED BY <3>1, <3>2, <3>3, <3>4, <3>5
    <2> QED BY <1>1, <1>2, <1>5, <2>1, <2>3, <2>4, OnceStays
  <1> QED BY <1>6, <1>7

-----------------------------------------------------------------------------
(* Every step *)

\* The steps that are not taken by the goroutines of actors, nor deal with a
\* command that waits.
Aside ==
    \/ \E i \in Item : Route(i) \/ Refuse(i) \/ RequestCancel(i) \/ CallerLeaves(i) \/ Forward(i)
    \/ \E p \in Removable : RemoveProject(p)
    \/ CloseManager \/ CloseScheduler
    \/ \E a \in Actor : CloseRemoved(a) \/ CloseLinked(a) \/ StopWork(a)
    \/ \E w \in Worker : PoolWorker(w)
    \/ UNCHANGED vars

\* They leave the callbacks, the results and the hands of the actors alone.
LEMMA AsideFacts ==
  ASSUME Shape, PoolInv, Managed, Told, Ours, InLine, Aside
  PROVE  /\ UNCHANGED << sequence, current, owned, calls, result, handle, verdict >>
         /\ \A i \in Item : (Accepted(i) => route'[i] = route[i]) /\ (forwarding'[i] => forwarding[i])
         /\ \A a \in Actor : at'[a] \in Working \/ at[a] \in Working => at'[a] = at[a]
         /\ \A i \in Item : Lined(i)' <=> Lined(i)
         /\ Calm
  <1>1. UNCHANGED << sequence, current, owned, calls, result, handle, verdict >>
    BY DEF Aside, Route, Refuse, RequestCancel, CallerLeaves, Forward, RemoveProject, CloseManager,
           CloseScheduler, CloseRemoved, CloseLinked, CloseActor, StopWork, PoolWorker, vars, actorVars
  <1>2. \A i \in Item : forwarding'[i] => forwarding[i]
    <2>1. forwarding' = forwarding \/ \E i \in Item : forwarding[i] /\ forwarding' = [forwarding EXCEPT ![i] = FALSE]
      BY DEF Aside, Route, Refuse, RequestCancel, CallerLeaves, Forward, RemoveProject, CloseManager,
             CloseScheduler, CloseRemoved, CloseLinked, CloseActor, StopWork, PoolWorker, vars, actorVars
    <2> QED BY <2>1 DEF Told
  <1>3. [Next]_vars
    BY DEF Aside, Next, Client, CloserStep
  <1>4. \A i \in Item : Accepted(i) => route'[i] = route[i]
    BY <1>3, NextSettled DEF Settled
  <1>5. \A a \in Actor : at'[a] \in Working \/ at[a] \in Working => at'[a] = at[a]
    <2>1. \/ at' = at
          \/ \E a \in Actor : at[a] = "unborn" /\ at' = [at EXCEPT ![a] = "next"]
          \/ \E a : at' = Awake(a)
      BY DEF Aside, Route, Refuse, RequestCancel, CallerLeaves, Forward, RemoveProject, CloseManager,
             CloseScheduler, CloseRemoved, CloseLinked, CloseActor, StopWork, PoolWorker, vars, actorVars
    <2> QED BY <2>1 DEF Awake, Shape, Handed, Working
  <1>6. \A b \in Actor : Line(b)' = Line(b)
    <2>1. ASSUME NEW a \in Actor, CloseRemoved(a) \/ CloseLinked(a)
          PROVE  \A b \in Actor : Line(b)' = Line(b)
      BY <2>1, CloseDrops DEF CloseRemoved, CloseLinked
    <2>2. ASSUME NEW i \in Item, RequestCancel(i) \/ Forward(i)
          PROVE  \A b \in Actor : Line(b)' = Line(b)
      <3>1. PICK e \in {CancelEntry(i), Completion(i)} : inbox' = [inbox EXCEPT ![route[i]] = Append(@, e)]
        BY <2>2 DEF RequestCancel, Forward
      <3>2. route[i] \in Actor /\ dropped' = dropped
        BY <2>2 DEF RequestCancel, Forward, Ours, Shape, Routed
      <3>3. e \in Entry /\ e.kind # "command"
        BY DEF CancelEntry, Completion, Entry
      <3>4. Puts(route[i], e)
        BY <3>1, <3>2, <3>3, AppendPuts DEF Shape, Named
      <3>5. \A b \in Actor : Pending(b)' = Pending(b)
        BY <3>2, <3>3, <3>4, PendingPut
      <3> QED BY <3>2, <3>5 DEF Line
    <2>3. UNCHANGED << inbox, dropped >> => \A b \in Actor : Line(b)' = Line(b)
      BY DEF Line, Pending
    <2>4. \/ UNCHANGED << inbox, dropped >>
          \/ \E a \in Actor : CloseRemoved(a) \/ CloseLinked(a)
          \/ \E i \in Item : RequestCancel(i) \/ Forward(i)
      BY DEF Aside, Route, Refuse, CallerLeaves, RemoveProject, CloseManager,
             CloseScheduler, StopWork, PoolWorker, vars, actorVars
    <2> QED BY <2>1, <2>2, <2>3, <2>4
  <1>7. Calm
    <2>1. TypeOK
      BY DEF PoolInv
    <2>2. (\E items : CancelContexts(items)) => Calm
      BY <2>1, CalmContexts
    <2>3. ASSUME NEW i \in Item, CallerLeaves(i)
          PROVE  Calm
      <3>1. callerDone' = [j \in Item |-> callerDone[j] \/ j \in {i}] /\ UNCHANGED << closed, state, done >>
        BY <2>3 DEF CallerLeaves, CancelCallers
      <3> QED BY <3>1 DEF Calm, Grip, Idle
    <2>4. ASSUME NEW a \in Actor, StopWork(a)
          PROVE  Calm
      <3>1. PICK i \in stopping[a] : CancelHandle(i) \/ UNCHANGED poolVars
        BY <2>4 DEF StopWork
      <3>2. i \in Item
        BY DEF Shape, Named
      <3> QED BY <2>1, <3>1, <3>2, CalmHandle, CalmStill
    <2>5. CloseScheduler \/ (\E w \in Worker : PoolWorker(w)) => Calm
      BY CalmClose, CalmWorker DEF CloseScheduler, PoolWorker
    <2>6. \/ UNCHANGED poolVars
          \/ \E items : CancelContexts(items)
          \/ \E i \in Item : CallerLeaves(i)
          \/ \E a \in Actor : StopWork(a)
          \/ CloseScheduler
          \/ \E w \in Worker : PoolWorker(w)
      BY DEF Aside, Route, Refuse, RequestCancel, Forward, RemoveProject, CloseManager,
             CloseRemoved, CloseLinked, CloseActor, vars
    <2> QED BY <2>2, <2>3, <2>4, <2>5, <2>6, CalmStill
  <1> QED BY <1>1, <1>2, <1>4, <1>5, <1>6, <1>7 DEF Lined

\* Every step is one of these, of an actor's goroutine, or the end of a wait.
LEMMA Steps ==
  ASSUME [Next]_vars
  PROVE  \/ Aside
         \/ \E i \in Item : Accept(i)
         \/ \E a \in Actor : ActorStep(a) \/ DropPending(a)
  BY DEF Next, Client, CloserStep, Aside

\* Every step tells the stories on.
LEMMA NextStories ==
  ASSUME Shape, PoolInv, Managed, Told, Posted, Ours, Numbered, InLine, Stories, Once, [Next]_vars
  PROVE  Stories'
  <1>1. Ours' /\ InLine' /\ TypeOK
    BY NextOurs, NextInLine DEF PoolInv
  <1>2. CASE Aside
    <2>1. \A i \in Item : Accepted(i)' <=> Accepted(i)
      BY <1>2, AsideFacts DEF Accepted
    <2>2. \A a \in Actor : at[a] \in Hands \/ at'[a] \in Hands => at'[a] = at[a] /\ current'[a] = current[a]
      BY <1>2, AsideFacts DEF Hands, Early, Working
    <2> QED BY <1>1, <1>2, <2>1, <2>2, AsideFacts, QuietStories
  <1>3. ASSUME NEW a \in Actor, ActorStep(a)
        PROVE  Stories'
    <2>1. PICK i : i = current[a]
      OBVIOUS
    <2>2. CASE Sleep(a) \/ Leave(a)
      <3>1. /\ at[a] = "next" /\ \E label \in {"waiting", "exited"} : at' = [at EXCEPT ![a] = label]
            /\ UNCHANGED << poolVars, sequence, route, inbox, dropped, current, owned, calls, result, handle, verdict, forwarding >>
        BY <2>2 DEF Sleep, Leave, Goes
      <3>2. \A b \in Actor : at[b] \in Hands \/ at'[b] \in Hands => at'[b] = at[b] /\ current'[b] = current[b]
        BY <3>1 DEF Shape, Handed, Hands, Early
      <3>3. \A j \in Item : (Accepted(j)' <=> Accepted(j)) /\ (Lined(j)' <=> Lined(j))
        BY <3>1 DEF Accepted, Lined, Line, Pending
      <3> QED BY <1>1, <3>1, <3>2, <3>3, CalmStill, QuietStories
    <2>3. CASE CallComplete(a)
      <3>1. i \in Item /\ at[a] = "complete" /\ done[i] # << >>
        BY <2>1, <2>3 DEF CallComplete, Posted, Ours, Of, Working
      <3>2. Posting(i) /\ ~forwarding[i]
        BY <2>1, <3>1 DEF Once, OnceFor
      <3>3. done[i] \in Seq(Result)
        BY <1>1, <3>1 DEF TypeOK
      <3>4. done[i][1] \in Result
        BY <3>1, <3>3
      <3> QED BY <1>1, <2>1, <2>3, <3>1, <3>2, <3>4, CallCompleteStory DEF Posting
    <2>4. CASE Receive(a)
      BY <1>1, <2>4, ReceiveStory
    <2>5. CASE Admit(a) \/ ReserveSlot(a) \/ CallStart(a) \/ Launch(a)
      BY <1>1, <2>1, <2>5, AdmitStory, ReserveSlotStory, CallStartStory, LaunchStory
    <2>6. CASE Attach(a) \/ CallCancel(a) \/ CancelWork(a) \/ Deliver(a)
      BY <1>1, <2>1, <2>6, AttachStory, CallCancelStory, CancelWorkStory, DeliverStory
    <2> QED BY <1>3, <2>2, <2>3, <2>4, <2>5, <2>6 DEF ActorStep
  <1>4. ASSUME NEW i \in Item, Accept(i)
        PROVE  Stories'
    BY <1>1, <1>4, AcceptStory
  <1>5. ASSUME NEW a \in Actor, DropPending(a)
        PROVE  Stories'
    BY <1>1, <1>5, DropPendingStory
  <1> QED BY <1>2, <1>3, <1>4, <1>5, Steps

\* And completes what was launched at most once.
LEMMA NextOnce ==
  ASSUME Shape, PoolInv, Managed, Told, Ours, Ours', Numbered, InLine, InLine', Stories, Once, [Next]_vars
  PROVE  Once'
  <1>1. CASE Aside /\ ~\E i \in Item : Forward(i)
    <2>1. /\ UNCHANGED << current, result, handle >>
          /\ \A a \in Actor : at'[a] \in Working \/ at[a] \in Working => at'[a] = at[a]
          /\ \A i \in Item : Accepted(i) => route'[i] = route[i]
      BY <1>1, AsideFacts
    <2>2. forwarding' = forwarding
      BY <1>1 DEF Aside, Route, Refuse, RequestCancel, CallerLeaves, RemoveProject, CloseManager,
             CloseScheduler, CloseRemoved, CloseLinked, CloseActor, StopWork, PoolWorker, vars, actorVars
    <2>3. \A a \in Actor : at[a] \in Hands \/ at'[a] \in Hands => at'[a] = at[a] /\ current'[a] = current[a]
      BY <2>1 DEF Hands, Early, Working
    <2>4. \A i \in Item : Posting(i) => Posting(i)'
      <3>1. \A i \in Item : Accepted(i) => Label(i)' = Label(i)
        BY <2>1, <2>3, LabelStays
      <3> QED BY <2>1, <3>1 DEF Posting, Ours
    <2>5. \A a \in Actor : at'[a] = "complete" => at[a] = "complete" /\ current'[a] = current[a]
      BY <2>1 DEF Working
    <2>6. \A b \in Actor : NoneAdded(b)
      <3>1. CASE inbox' = inbox
        BY <3>1 DEF NoneAdded
      <3>2. ASSUME NEW i \in Item, RequestCancel(i)
            PROVE  \A b \in Actor : NoneAdded(b)
        <4>1. route[i] \in Actor /\ inbox' = [inbox EXCEPT ![route[i]] = Append(@, CancelEntry(i))]
          BY <3>2 DEF RequestCancel, Shape, Routed
        <4>2. CancelEntry(i) \in Entry /\ CancelEntry(i).kind # "complete"
          BY DEF CancelEntry, Entry
        <4>3. Puts(route[i], CancelEntry(i))
          BY <4>1, <4>2, AppendPuts DEF Shape, Named
        <4> QED BY <4>1, <4>2, <4>3, NoneAddedBy
      <3>3. ASSUME NEW a \in Actor, CloseActor(a)
            PROVE  \A b \in Actor : NoneAdded(b)
        BY <3>3, CloseRebuilds, NoneAddedBy
      <3>4. inbox' = inbox \/ (\E i \in Item : RequestCancel(i)) \/ (\E a \in Actor : CloseActor(a))
        BY <1>1 DEF Aside, Route, Refuse, CallerLeaves, RemoveProject, CloseManager,
             CloseScheduler, CloseRemoved, CloseLinked, StopWork, PoolWorker, vars, actorVars
      <3> QED BY <3>1, <3>2, <3>3, <3>4
    <2> QED BY <2>2, <2>4, <2>5, <2>6, OnceStays
  <1>2. ASSUME NEW i \in Item, Forward(i)
        PROVE  Once'
    BY <1>2, ForwardOnce
  <1>3. ASSUME NEW a \in Actor, ActorStep(a)
        PROVE  Once'
    <2>1. PICK i : i = current[a]
      OBVIOUS
    <2> QED BY <1>3, <2>1, ReceiveOnce, AttachOnce, ActorOnce
  <1>4. ASSUME NEW i \in Item, Accept(i)
        PROVE  Once'
    <2>1. /\ route[i] \in Actor /\ inbox' = [inbox EXCEPT ![route[i]] = Append(@, Command(i))]
          /\ UNCHANGED << route, current, handle, result, forwarding >> /\ at' = Awake(route[i])
      BY <1>4 DEF Accept, Shape, Routed
    <2>2. Command(i) \in Entry /\ Command(i).kind # "complete"
      BY DEF Command, Entry
    <2>3. \A b \in Actor : NoneAdded(b)
      BY <2>1, <2>2, AppendPuts, NoneAddedBy DEF Shape, Named
    <2>4. /\ \A b \in Actor : at[b] \in Hands \/ at'[b] \in Hands => at'[b] = at[b] /\ current'[b] = current[b]
          /\ \A b \in Actor : at'[b] = "complete" => at[b] = "complete" /\ current'[b] = current[b]
      BY <2>1 DEF Awake, Shape, Handed, Hands, Early
    <2>5. \A j \in Item : Label(j)' = Label(j)
      BY <2>1, <2>4, LabelStays
    <2> QED BY <2>1, <2>3, <2>4, <2>5, OnceStays DEF Posting
  <1>5. ASSUME NEW a \in Actor, DropPending(a)
        PROVE  Once'
    <2>1. PICK i \in dropped[a] : result' = Sent(i, Verdict(FALSE, "canceled"))
      BY <1>5 DEF DropPending
    <2>2. /\ UNCHANGED << route, inbox, current, handle, forwarding >> /\ at' = Awake(a)
      BY <1>5 DEF DropPending
    <2>3. /\ \A b \in Actor : at[b] \in Hands \/ at'[b] \in Hands => at'[b] = at[b] /\ current'[b] = current[b]
          /\ \A b \in Actor : at'[b] = "complete" => at[b] = "complete" /\ current'[b] = current[b]
      BY <2>2 DEF Awake, Shape, Handed, Hands, Early
    <2>4. \A j \in Item : Label(j)' = Label(j)
      BY <2>2, <2>3, LabelStays
    <2>5. i \in Item /\ ~handle[i]
      <3>1. i \in Item /\ Lined(i)
        BY DEF Shape, Named, Lined, Line
      <3> QED BY <3>1 DEF Stories, Story, WhileWaiting, Unbegun
    <2>6. \A j \in Item : Posting(j) => Posting(j)'
      <3>1. \A j \in Item \ {i} : result'[j] = result[j]
        BY <2>1 DEF Sent, Told
      <3> QED BY <2>2, <2>4, <2>5, <3>1 DEF Posting
    <2> QED BY <2>2, <2>3, <2>6, OnceStays DEF NoneAdded
  <1> QED BY <1>1, <1>2, <1>3, <1>4, <1>5, Steps

\* A goroutine ends with an empty inbox and nothing active.
Ended == \A a \in Actor : at[a] = "exited" => shut[a] /\ owned[a] = {} /\ inbox[a] = << >>

\* Nobody gives it anything afterwards.
LEMMA NextEnded ==
  ASSUME Shape, Managed, Told, Ours, Stories, Once, Ended, [Next]_vars
  PROVE  Ended'
  <1>1. ASSUME NEW a \in Actor, at'[a] = "exited", at[a] # "exited"
        PROVE  Leave(a)
    <2>1. \/ \E b \in Actor : ActorStep(b) /\ ~Receive(b)
          \/ \E b, label : at' = [at EXCEPT ![b] = label] /\ label # "exited"
          \/ (\E b : at' = Awake(b)) \/ at' = at
      <3>1. \A b \in Actor : Receive(b) => Head(inbox[b]).kind # "exited"
        <4>1. \A b \in Actor : Receive(b) => inbox[b] # << >> /\ inbox[b] \in Seq(Entry)
          BY DEF Receive, Shape, Named
        <4>2. \A b \in Actor : Receive(b) => Head(inbox[b]) \in Entry
          BY <4>1
        <4> QED BY <4>2 DEF Entry
      <3>2. \A b \in Actor : Receive(b) => \E label : at' = [at EXCEPT ![b] = label] /\ label # "exited"
        BY <3>1 DEF Receive, Goes
      <3>3. (\E b \in Actor : ActorStep(b)) \/ (\E i \in Item : Route(i)) \/ (\E b : at' = Awake(b)) \/ at' = at
        BY DEF Next, Client, CloserStep, Accept, Refuse, RequestCancel, CallerLeaves, Forward, RemoveProject,
               CloseManager, CloseScheduler, CloseRemoved, CloseLinked, CloseActor, DropPending, StopWork,
               PoolWorker, vars, actorVars
      <3>4. \A i \in Item : Route(i) => at' = at \/ \E b : at' = [at EXCEPT ![b] = "next"]
        BY DEF Route
      <3> QED BY <3>2, <3>3, <3>4
    <2>2. ASSUME NEW b \in Actor, ActorStep(b), ~Receive(b)
          PROVE  Leave(a)
      <3>1. b = a
        BY <1>1, <2>2, StepsOn
      <3>2. Leave(b) \/ \E label : at' = [at EXCEPT ![b] = label] /\ label # "exited"
        BY <2>2 DEF ActorStep, Sleep, Admit, ReserveSlot, CallStart, Launch, Attach,
                    CallCancel, CancelWork, CallComplete, Deliver, Loops, Goes, Resolves
      <3> QED BY <1>1, <3>1, <3>2 DEF Shape, Handed
    <2> QED BY <1>1, <2>1, <2>2 DEF Awake, Shape, Handed
  <1>2. ASSUME NEW a \in Actor, Leave(a)
        PROVE  shut'[a] /\ owned'[a] = {} /\ inbox'[a] = << >>
    BY <1>2 DEF Leave, Over
  <1>3. ASSUME NEW a \in Actor, at[a] = "exited"
        PROVE  shut'[a] /\ owned'[a] = {} /\ inbox'[a] = << >>
    <2>1. shut[a] /\ owned[a] = {} /\ inbox[a] = << >>
      BY <1>3 DEF Ended
    <2>2. \A b \in Actor : ActorStep(b) => b # a
      BY <1>3 DEF ActorStep, Sleep, Leave, Receive, Admit, ReserveSlot, CallStart, Launch, Attach,
                  CallCancel, CancelWork, CallComplete, Deliver
    <2>3. \A i \in Item : route[i] = a => ~forwarding[i]
      <3>1. ASSUME NEW i \in Item, route[i] = a, forwarding[i]
            PROVE  FALSE
        <4>1. handle[i] /\ result[i] = << >>
          BY <3>1 DEF Once, OnceFor, Posting
        <4>2. Owned(i)
          BY <4>1 DEF Stories, Story, WhenOwned
        <4> QED BY <2>1, <3>1, <4>2, OwnedHere
      <3> QED BY <3>1
    <2>4. \A i \in Item : (Accept(i) \/ RequestCancel(i) \/ Forward(i)) => route[i] \in Actor /\ route[i] # a
      BY <2>1, <2>3 DEF Accept, RequestCancel, Forward, Shape, Routed, Ours
    <2>5. \A b \in Actor : CloseActor(b) => b # a
      BY <2>1 DEF CloseActor
    <2>6. inbox'[a] = inbox[a]
      <3>1. \/ inbox' = inbox
            \/ \E i \in Item : \E e : (Accept(i) \/ RequestCancel(i) \/ Forward(i)) /\ inbox' = [inbox EXCEPT ![route[i]] = Append(@, e)]
            \/ \E b \in Actor : CloseActor(b)
            \/ \E b \in Actor : Receive(b)
        BY DEF Next, Client, CloserStep, Route, Accept, Refuse, RequestCancel, CallerLeaves, Forward, RemoveProject,
               CloseManager, CloseScheduler, CloseRemoved, CloseLinked, DropPending, StopWork, PoolWorker, vars, actorVars,
               ActorStep, Sleep, Leave, Admit, ReserveSlot, CallStart, Launch, Attach,
               CallCancel, CancelWork, CallComplete, Deliver
      <3>2. \A b \in Actor : CloseActor(b) => inbox'[a] = inbox[a]
        BY <2>5, CloseRebuilds DEF Rebuilds
      <3>3. \A b \in Actor : Receive(b) => inbox'[a] = inbox[a]
        BY <2>2, ReceiveTakes DEF Takes, ActorStep
      <3>4. ASSUME NEW i \in Item, NEW e, route[i] # a, inbox' = [inbox EXCEPT ![route[i]] = Append(@, e)]
            PROVE  inbox'[a] = inbox[a]
        BY <3>4 DEF Shape, Named
      <3> QED BY <2>4, <3>1, <3>2, <3>3, <3>4
    <2>7. shut'[a]
      <3>1. shut' = shut \/ \E b \in Actor : shut' = [shut EXCEPT ![b] = TRUE]
        BY DEF Next, Client, CloserStep, Route, Accept, Refuse, RequestCancel, CallerLeaves, Forward, RemoveProject,
               CloseManager, CloseScheduler, CloseRemoved, CloseLinked, CloseActor, DropPending, StopWork, PoolWorker, vars, actorVars,
               ActorStep, Sleep, Leave, Receive, Admit, ReserveSlot, CallStart, Launch, Attach,
               CallCancel, CancelWork, CallComplete, Deliver
      <3> QED BY <2>1, <3>1 DEF Managed
    <2>8. owned'[a] \subseteq owned[a]
      <3>1. \/ owned' = owned
            \/ \E b \in Actor : \E S : owned' = [owned EXCEPT ![b] = @ \ S]
            \/ \E b \in Actor : Admit(b) /\ \E S : owned' = [owned EXCEPT ![b] = @ \cup S]
        BY DEF Next, Client, CloserStep, Route, Accept, Refuse, RequestCancel, CallerLeaves, Forward, RemoveProject,
               CloseManager, CloseScheduler, CloseRemoved, CloseLinked, CloseActor, DropPending, StopWork, PoolWorker, vars, actorVars,
               ActorStep, Sleep, Leave, Receive, Admit, ReserveSlot, CallStart, Launch, Attach,
               CallCancel, CancelWork, CallComplete, Deliver
      <3> QED BY <2>2, <3>1 DEF ActorStep, Shape, Named
    <2> QED BY <2>1, <2>6, <2>7, <2>8
  <1> QED BY <1>1, <1>2, <1>3 DEF Ended

\* The invariant: types, the pool's invariant, the lines, the stories, the
\* completions and the ends of the goroutines.
Whole ==
    /\ Shape /\ PoolInv /\ Managed /\ Told /\ Posted
    /\ Ours /\ Numbered /\ InLine /\ Stories /\ Once /\ Ended

\* Nothing has begun.
LEMMA InitWhole ==
  ASSUME Init
  PROVE  Ours /\ Numbered /\ InLine /\ Stories /\ Once /\ Ended
  <1>1. \A a \in Actor : inbox[a] = << >> /\ owned[a] = {} /\ dropped[a] = {} /\ stopping[a] = {} /\ at[a] = "unborn" /\ ~shut[a]
    BY DEF Init
  <1>2. \A i \in Item : sequence[i] = 0 /\ ~handle[i] /\ ~forwarding[i] /\ calls[i] = << >> /\ result[i] = << >> /\ state[i] = "none"
    BY DEF Init, PoolInit
  <1>3. \A i \in Item : ~Accepted(i)
    BY <1>2 DEF Accepted
  <1>4. \A a \in Actor : DOMAIN inbox[a] = {}
    BY <1>1
  <1>5. Ours
    BY <1>1, <1>2, <1>4 DEF Ours, Working
  <1>6. Numbered
    BY <1>3 DEF Numbered, Of
  <1>7. InLine
    BY <1>1, <1>4 DEF InLine, Early, Pending
  <1>8. ASSUME NEW i \in Item
        PROVE  Story(i)
    <2>1. Unbegun(i) /\ Grip(i) = "none" /\ Idle(i)
      BY <1>2 DEF Unbegun, Grip, Idle
    <2>2. ~Lined(i) /\ ~Owned(i) /\ Label(i) = "none"
      BY <1>1, <1>4 DEF Lined, Line, Pending, Owned, Label, Hands, Early
    <2> QED BY <1>3, <2>1, <2>2 DEF Story, WhileWaiting, WhileStarting, WhileWorking, WhenAnswered, WhenOwned, Unbegun
  <1>9. Once
    BY <1>1, <1>2, <1>4 DEF Once, OnceFor
  <1>10. Ended
    BY <1>1 DEF Ended
  <1> QED BY <1>5, <1>6, <1>7, <1>8, <1>9, <1>10 DEF Stories

\* Every step keeps it.
THEOREM ActorsInvariant == Safety => []Whole
  <1>1. Init => Managed /\ Told /\ Posted /\ Ours /\ Numbered /\ InLine /\ Stories /\ Once /\ Ended
    BY InitTyped, InitWhole
  <1>2. Whole /\ [Next]_vars => (Managed /\ Told /\ Posted /\ Ours /\ Numbered /\ InLine /\ Stories /\ Once /\ Ended)'
    <2> SUFFICES ASSUME Whole, [Next]_vars
                 PROVE  (Managed /\ Told /\ Posted /\ Ours /\ Numbered /\ InLine /\ Stories /\ Once /\ Ended)'
      OBVIOUS
    <2>1. Shape /\ PoolInv /\ TypeOK /\ Managed /\ Told /\ Posted /\ Ours /\ Numbered /\ InLine /\ Stories /\ Once /\ Ended
      BY DEF Whole, PoolInv
    <2>2. Managed' /\ Told' /\ Posted'
      BY <2>1, NextManaged, NextTold, NextPosted
    <2>3. Ours' /\ Numbered' /\ InLine'
      BY <2>1, NextOurs, NextNumbered, NextInLine
    <2>4. Stories' /\ Once' /\ Ended'
      BY <2>1, <2>3, NextStories, NextOnce, NextEnded
    <2> QED BY <2>2, <2>3, <2>4
  <1>3. Safety => []PoolInv
    BY ActorsUsePool, PoolInvariant, PTL DEF UsesPool
  <1> QED BY <1>1, <1>2, <1>3, ActorsHandCommands, PTL DEF Safety, Whole

\* ReservationsOwned: every reservation of the pool is the one of a command that
\* its actor is about to start or to launch, so that none is lost, whatever is
\* cancelled, removed or closed, and an actor that starts a command has its slot.
THEOREM ReservationsAreOwned == Safety => []ReservationsOwned
  <1>1. Whole => ReservationsOwned
    <2> SUFFICES ASSUME Whole, NEW i \in Item
                 PROVE  state[i] = "reserved" <=>
                          i \in HasWork /\ \E a \in Actor : current[a] = i /\ at[a] \in {"start", "launch"}
      BY DEF ReservationsOwned
    <2>1. Ours /\ Story(i)
      BY DEF Whole, Stories
    <2>2. state[i] = "reserved" <=> Grip(i) = "reserved"
      BY DEF Grip
    <2>3. Grip(i) = "reserved" => i \in HasWork /\ Label(i) \in {"start", "launch"}
      BY <2>1 DEF Story, WhileStarting
    <2>4. Label(i) \in {"start", "launch"} => \E a \in Actor : current[a] = i /\ at[a] \in {"start", "launch"}
      BY DEF Label
    <2>5. ASSUME i \in HasWork, NEW a \in Actor, current[a] = i, at[a] \in {"start", "launch"}
          PROVE  Grip(i) = "reserved"
      <3>1. Label(i) \in {"start", "launch"}
        BY <2>1, <2>5, LabelIs DEF Hands, Early
      <3> QED BY <2>1, <2>5, <3>1 DEF Story, WhileStarting
    <2> QED BY <2>2, <2>3, <2>4, <2>5
  <1> QED BY <1>1, ActorsInvariant, PTL

\* ActiveRight: actor.active is exactly the set of the commands admitted and not
\* yet answered, so that Close cancels all of them and the goroutine of a closed
\* actor ends neither too early nor never.
THEOREM ActiveIsRight == Safety => []ActiveRight
  <1>1. Whole => ActiveRight
    <2> SUFFICES ASSUME Whole, NEW a \in Actor, NEW i \in Item
                 PROVE  i \in owned[a] <=>
                          /\ route[i] = a /\ result[i] = << >>
                          /\ \/ handle[i]
                             \/ current[a] = i /\ (Busy(a) \/ (at[a] = "finish" /\ i \in owned[a]))
      <3>1. Whole => \A a \in Actor : owned[a] \subseteq Item
        BY DEF Whole, Shape, Named
      <3> QED BY <3>1 DEF ActiveRight
    <2>1. Ours /\ Story(i)
      BY DEF Whole, Stories
    <2>2. i \in owned[a] => route[i] = a
      BY <2>1 DEF Ours, Of
    <2>3. route[i] = a => (Owned(i) <=> i \in owned[a])
      BY <2>1, OwnedHere
    <2>4. route[i] = a => Label(i) = IF current[a] = i /\ at[a] \in Hands THEN at[a] ELSE "none"
      BY DEF Label
    <2>5. Owned(i) <=> /\ result[i] = << >>
                       /\ \/ handle[i]
                          \/ Label(i) \in {"reserve", "start", "launch", "attach"}
                          \/ Label(i) = "finish" /\ Owned(i)
      BY <2>1 DEF Story, WhenOwned
    <2>6. route[i] = a => /\ Label(i) \in {"reserve", "start", "launch", "attach"} <=> current[a] = i /\ Busy(a)
                          /\ Label(i) = "finish" <=> current[a] = i /\ at[a] = "finish"
      BY <2>4 DEF Busy, Hands, Early
    <2> QED BY <2>2, <2>3, <2>5, <2>6
  <1> QED BY <1>1, ActorsInvariant, PTL

\* ExitedIsClean: when the goroutine of an actor has ended, which is what
\* RemoveProject waits for, none of its commands holds a slot, a worker or a
\* reservation, and no completion is on its way.
THEOREM ExitLeavesNothing == Safety => []ExitedIsClean
  <1>1. Whole => ExitedIsClean
    <2> SUFFICES ASSUME Whole, NEW a \in Actor, at[a] = "exited"
                 PROVE  /\ inbox[a] = << >>
                        /\ \A i \in Item : route[i] = a /\ Accepted(i) =>
                             /\ state[i] \in {"none", "released", "finished"} /\ ~Held(i)
                             /\ ~forwarding[i]
                             /\ result[i] # << >> \/ i \in dropped[a]
      BY DEF ExitedIsClean
    <2>1. inbox[a] = << >> /\ owned[a] = {} /\ Ours /\ PoolInv /\ Shape
      BY DEF Whole, Ended
    <2>2. ASSUME NEW i \in Item, route[i] = a, Accepted(i)
          PROVE  /\ state[i] \in {"none", "released", "finished"} /\ ~Held(i)
                 /\ ~forwarding[i]
                 /\ result[i] # << >> \/ i \in dropped[a]
      <3>1. Story(i) /\ ~Owned(i) /\ Label(i) = "none"
        BY <2>1, <2>2, OwnedHere DEF Whole, Stories, Label, Hands, Early
      <3>2. Lined(i) => i \in dropped[a]
        <4>1. \A b \in Actor : i \in Line(b) => i \in Of(b)
          BY <2>1, PendingIs DEF Line, Ours
        <4>2. DOMAIN inbox[a] = {}
          BY <2>1
        <4> QED BY <2>2, <4>1, <4>2 DEF Lined, Of, Line, Pending
      <3>3. result[i] # << >> \/ i \in dropped[a]
        BY <2>2, <3>1, <3>2 DEF Story, WhileWaiting, WhenOwned
      <3>4. Idle(i) /\ ~forwarding[i]
        BY <2>2, <3>1, <3>2 DEF Story, WhileWaiting, WhenAnswered, WhenOwned, Unbegun, Idle, Grip
      <3>5. state[i] \in {"none", "released", "finished"} /\ ~Held(i)
        BY <2>1, <3>4 DEF Idle, PoolInv, OneOwner, OneResult
      <3> QED BY <3>3, <3>4, <3>5
    <2> QED BY <2>1, <2>2
  <1> QED BY <1>1, ActorsInvariant, PTL

-----------------------------------------------------------------------------
(* The contract *)

\* Who accepted which command.
Ownership == [i \in Item |-> IF Accepted(i) THEN route[i] ELSE NoActor]

\* It stays when nothing is accepted.
LEMMA OwnershipStays ==
  ASSUME sequence' = sequence, \A i \in Item : Accepted(i) => route'[i] = route[i]
  PROVE  Ownership' = Ownership
  BY DEF Ownership, Accepted

\* Contexts are cancelled, or the pool is closed, or nothing happens that the
\* contract speaks of.
LEMMA QuietContract ==
  ASSUME TypeOK, UNCHANGED << sequence, calls, result >>, \A i \in Item : Accepted(i) => route'[i] = route[i],
         \/ UNCHANGED << callerDone, closed >>
         \/ closed' = TRUE /\ callerDone' = callerDone
         \/ \E items \in SUBSET Item : /\ callerDone' = [i \in Item |-> callerDone[i] \/ i \in items]
                                       /\ closed' = closed
  PROVE  [Contract!Next]_Contract!vars
  <1>1. Ownership' = Ownership
    BY OwnershipStays
  <1>2. CASE UNCHANGED << callerDone, closed >>
    BY <1>1, <1>2 DEF Contract!vars, Ownership
  <1>3. CASE closed' = TRUE /\ callerDone' = callerDone
    BY <1>1, <1>3 DEF Contract!Shutdown, Contract!Next, Ownership
  <1>4. ASSUME NEW items \in SUBSET Item, callerDone' = [i \in Item |-> callerDone[i] \/ i \in items], closed' = closed
        PROVE  Contract!Next
    <2>1. Contract!Leave(items)
      BY <1>1, <1>4 DEF Contract!Leave, Ownership
    <2> QED BY <2>1 DEF Contract!Next
  <1> QED BY <1>2, <1>3, <1>4

\* What the pool's steps do to contexts and to shutdown.
LEMMA PoolQuiet ==
  ASSUME TypeOK, [PoolNext]_poolVars
  PROVE  \/ UNCHANGED << callerDone, closed >>
         \/ closed' = TRUE /\ callerDone' = callerDone
         \/ \E items \in SUBSET Item : /\ callerDone' = [i \in Item |-> callerDone[i] \/ i \in items]
                                       /\ closed' = closed
  <1>1. ASSUME NEW w \in Worker, WorkerStep(w)
        PROVE  UNCHANGED << callerDone, closed >>
    BY <1>1 DEF WorkerStep, Wait, Exit, Take, Execute, WorkReturns, Finish
  <1>2. ASSUME NEW i \in Item, Reserve(i) \/ Release(i) \/ StartReserved(i) \/ StartRefused(i) \/ Cancel(i)
        PROVE  UNCHANGED << callerDone, closed >>
    BY <1>2 DEF Reserve, Release, StartReserved, StartRefused, GiveBack, Cancel, CancelQueued, CancelRunning
  <1> QED BY <1>1, <1>2 DEF PoolNext, ClientStep, CancelCallers, ClosePool, poolVars

\* An actor accepts a command.
LEMMA AcceptContract ==
  ASSUME Whole, NEW i \in Item, Accept(i)
  PROVE  Contract!Next
  <1>1. PICK a \in Actor : a = route[i]
    BY DEF Accept, Whole, Shape, Routed
  <1>2. /\ ~Accepted(i) /\ ~callerDone[i] /\ a # NoActor
        /\ sequence' = [sequence EXCEPT ![i] = 1 + Cardinality({j \in Item : route[j] = a /\ Accepted(j)})]
        /\ UNCHANGED << route, callerDone, closed, calls, result >>
    BY <1>1 DEF Accept, poolVars
  <1>3. sequence' = [sequence EXCEPT ![i] = 1 + Cardinality({j \in Item : Ownership[j] = a})]
    <2>1. {j \in Item : route[j] = a /\ Accepted(j)} = {j \in Item : Ownership[j] = a}
      BY <1>2 DEF Ownership
    <2> QED BY <1>2, <2>1
  <1>4. Ownership[i] = NoActor /\ Ownership' = [Ownership EXCEPT ![i] = a]
    <2>1. Accepted(i)' /\ \A j \in Item \ {i} : Accepted(j)' <=> Accepted(j)
      <3>1. sequence'[i] # 0 /\ \A j \in Item \ {i} : sequence'[j] = sequence[j]
        BY AcceptNumbers DEF Whole
      <3> QED BY <3>1 DEF Accepted
    <2> QED BY <1>1, <1>2, <2>1 DEF Ownership
  <1>5. Contract!Accept(i, a)
    <2>1. /\ Ownership[i] = NoActor /\ ~callerDone[i]
          /\ Ownership' = [Ownership EXCEPT ![i] = a]
          /\ sequence' = [sequence EXCEPT ![i] = 1 + Cardinality({j \in Item : Ownership[j] = a})]
          /\ UNCHANGED << callerDone, closed, calls, result >>
      BY <1>2, <1>3, <1>4
    <2>2. \A S : Contract!Cardinality(S) = Cardinality(S)
      BY DEF Contract!Cardinality, Cardinality
    <2> QED BY <2>1, <2>2 DEF Contract!Accept, Ownership
  <1> QED BY <1>5 DEF Contract!Next

\* Start is called in the order of acceptance.
LEMMA StartContract ==
  ASSUME Whole, NEW a \in Actor, NEW i, i = current[a], CallStart(a)
  PROVE  Contract!Next
  <1>1. /\ at[a] = "start" /\ Ours /\ InLine /\ Shape /\ PoolInv /\ Stories
        /\ \E callback \in {"start", "startFailed"} : calls' = [calls EXCEPT ![i] = Append(@, callback)]
        /\ UNCHANGED << route, sequence, result >>
    BY DEF CallStart, Whole, Invoked
  <1>2. UNCHANGED << callerDone, closed >>
    BY DEF CallStart, Release, GiveBack, poolVars
  <1>3. i \in Item /\ route[i] = a /\ Accepted(i) /\ Label(i) = "start"
    BY <1>1, LabelIs DEF Hands, Early
  <1>4. Ownership' = Ownership /\ Ownership[i] = a /\ a # NoActor
    BY <1>1, <1>3, OwnershipStays, ActorAssumption DEF Ownership
  <1>5. result[i] = << >> /\ calls[i] = << >>
    BY <1>1, <1>3 DEF Stories, Story, WhileStarting
  <1>6. ASSUME NEW j \in Item, Ownership[j] = a, sequence[j] < sequence[i], result[j] = << >>, calls[j] = << >>
        PROVE  FALSE
    <2>1. Accepted(j) /\ route[j] = a
      BY <1>4, <1>6 DEF Ownership
    <2>2. sequence[i] \in Nat /\ sequence[j] \in Nat /\ j # i
      BY <1>1, <1>3, <1>6 DEF Shape, Routed
    <2>3. Label(j) = "none"
      BY <1>1, <2>1, <2>2 DEF Label
    <2>4. ~handle[j]
      BY <1>1, <1>6, <2>3 DEF Stories, Story, WhileWorking
    <2>5. Lined(j)
      BY <1>1, <1>6, <2>1, <2>3, <2>4 DEF Stories, Story, WhileWaiting
    <2>6. j \in Line(a)
      BY <1>1, <2>1, <2>5, PendingIs DEF Lined, Line, Ours, Of
    <2>7. sequence[i] < sequence[j]
      BY <1>1, <2>6 DEF InLine, Early
    <2> QED BY <1>6, <2>2, <2>7
  <1>7. Contract!Waits(i)
    BY <1>3, <1>4, <1>5 DEF Contract!Waits, Contract!Open, Ownership
  <1>8. \A j \in Item : Ownership[j] = Ownership[i] /\ sequence[j] < sequence[i] => ~Contract!Waits(j)
    BY <1>4, <1>6 DEF Contract!Waits, Contract!Open
  <1>9. \E callback \in {"start", "startFailed"} : Contract!Invoke(i, callback)
    BY <1>1, <1>2, <1>4 DEF Contract!Invoke, Ownership
  <1>10. Contract!Start(i)
    BY <1>7, <1>8, <1>9 DEF Contract!Start, Ownership
  <1> QED BY <1>3, <1>10 DEF Contract!Next

\* Cancel is called for launched work only, and once.
LEMMA CancelContract ==
  ASSUME Whole, NEW a \in Actor, NEW i, i = current[a], CallCancel(a)
  PROVE  [Contract!Next]_Contract!vars
  <1>1. /\ at[a] = "cancel" /\ Ours /\ Shape /\ PoolInv /\ Stories /\ Told
        /\ calls' = calls \/ (i \in owned[a] /\ "cancel" \notin ToSet(calls[i]) /\ calls' = Invoked(i, "cancel"))
        /\ UNCHANGED << route, sequence, result, callerDone, closed >>
    BY DEF CallCancel, CallsCancelOnce, Whole, poolVars
  <1>2. i \in Item /\ route[i] = a /\ Accepted(i) /\ Label(i) = "none"
    BY <1>1 DEF Ours, Of, Working, Label, Hands, Early
  <1>3. Ownership' = Ownership /\ Ownership[i] = a /\ a # NoActor
    BY <1>1, <1>2, OwnershipStays, ActorAssumption DEF Ownership
  <1>4. CASE calls' = calls
    BY <1>1, <1>3, <1>4 DEF Contract!vars, Ownership
  <1>5. CASE i \in owned[a] /\ "cancel" \notin ToSet(calls[i]) /\ calls' = Invoked(i, "cancel")
    <2>1. handle[i] /\ result[i] = << >> /\ i \in HasWork
      BY <1>1, <1>2, <1>5 DEF Stories, Story, WhileWorking, WhenOwned, Owned
    <2>2. calls[i] \in {<< "start" >>, << "start", "cancel" >>}
      BY <1>1, <1>2, <2>1 DEF Stories, Story, WhileWorking
    <2>3. calls[i] = << "start" >>
      BY <1>5, <2>2 DEF ToSet
    <2>4. Contract!Launched(i)
      BY <1>2, <1>3, <2>1, <2>3 DEF Contract!Launched, Contract!Open, Ownership
    <2>5. Contract!Invoke(i, "cancel")
      BY <1>1, <1>3, <1>5 DEF Contract!Invoke, Ownership, Invoked
    <2>6. Contract!Cancel(i)
      BY <2>3, <2>4, <2>5 DEF Contract!Cancel
    <2> QED BY <1>2, <2>6 DEF Contract!Next
  <1> QED BY <1>1, <1>4, <1>5

\* Complete is called for launched work only, and once.
LEMMA CompleteContract ==
  ASSUME Whole, NEW a \in Actor, NEW i, i = current[a], CallComplete(a)
  PROVE  Contract!Next
  <1>1. /\ at[a] = "complete" /\ Ours /\ Shape /\ PoolInv /\ Stories /\ Told /\ Once
        /\ calls' = Invoked(i, "complete")
        /\ UNCHANGED << route, sequence, result, callerDone, closed >>
    BY DEF CallComplete, Whole, poolVars
  <1>2. i \in Item /\ route[i] = a /\ Accepted(i)
    BY <1>1 DEF Ours, Of, Working
  <1>3. Ownership' = Ownership /\ Ownership[i] = a /\ a # NoActor
    BY <1>1, <1>2, OwnershipStays, ActorAssumption DEF Ownership
  <1>4. handle[i] /\ result[i] = << >> /\ Label(i) # "finish"
    BY <1>1, <1>2 DEF Once, OnceFor, Posting
  <1>5. calls[i] \in {<< "start" >>, << "start", "cancel" >>} /\ i \in HasWork
    BY <1>1, <1>2, <1>4 DEF Stories, Story, WhileWorking
  <1>6. calls[i] # << >> /\ calls[i][1] = "start" /\ calls[i][Len(calls[i])] # "complete"
    BY <1>5
  <1>7. Contract!Launched(i)
    BY <1>2, <1>3, <1>4, <1>5, <1>6 DEF Contract!Launched, Contract!Open, Ownership
  <1>8. Contract!Invoke(i, "complete")
    BY <1>1, <1>3 DEF Contract!Invoke, Ownership, Invoked
  <1>9. Contract!Complete(i)
    BY <1>6, <1>7, <1>8 DEF Contract!Complete
  <1> QED BY <1>2, <1>9 DEF Contract!Next

\* An answer is sent once, and it fits the callbacks.
LEMMA AnswerContract ==
  ASSUME Whole, NEW i \in Item, Accepted(i), result[i] = << >>, NEW r \in CommandResult,
         result' = Sent(i, r), CancelContexts({i}), UNCHANGED << route, sequence, calls >>, Contract!Deserved(i, r)
  PROVE  Contract!Next
  <1>1. /\ callerDone' = [callerDone EXCEPT ![i] = TRUE] /\ closed' = closed
    <2>1. callerDone \in [Item -> BOOLEAN]
      BY DEF Whole, PoolInv, TypeOK
    <2>2. CASE callerDone[i]
      <3>1. UNCHANGED poolVars
        BY <2>2 DEF CancelContexts
      <3> QED BY <2>1, <2>2, <3>1 DEF poolVars
    <2>3. CASE ~callerDone[i]
      <3>1. {j \in {i} : ~callerDone[j]} = {i}
        BY <2>3
      <3>2. CancelCallers({i})
        BY <3>1 DEF CancelContexts
      <3> QED BY <2>1, <3>2 DEF CancelCallers
    <2> QED BY <2>2, <2>3
  <1>2. Ownership' = Ownership /\ Ownership[i] = route[i] /\ route[i] # NoActor
    BY OwnershipStays, ActorAssumption DEF Ownership, Whole, Shape, Routed
  <1>3. result' = [result EXCEPT ![i] = Append(@, r)]
    <2>1. Append(<< >>, r) = << r >>
      OBVIOUS
    <2> QED BY <2>1 DEF Sent
  <1>4. r \in [started : BOOLEAN, cancelled : BOOLEAN, err : {"nil", "failed", "canceled", "refused"}]
    BY DEF CommandResult, Errors
  <1>5. Contract!Answer(i)
    BY <1>1, <1>2, <1>3, <1>4 DEF Contract!Answer, Contract!Open, Ownership
  <1> QED BY <1>5 DEF Contract!Next

\* What an actor delivers.
LEMMA DeservedAnswer ==
  ASSUME NEW i \in Item, Deserves(i), NEW r, r = verdict[route[i]]
  PROVE  Contract!Deserved(i, r)
  <1>1. CASE calls[i] \in {<< >>, << "startFailed" >>} /\ ~r.started /\ r.err # "nil"
    BY <1>1 DEF Contract!Deserved
  <1>2. CASE calls[i] = << "start" >> /\ i \notin HasWork /\ r.started /\ r.err = "nil"
    BY <1>2 DEF Contract!Deserved
  <1>3. CASE calls[i] = << "start" >> /\ i \in HasWork /\ r.started /\ r.err # "nil" /\ (callerDone[i] \/ closed)
    BY <1>3 DEF Contract!Deserved
  <1>4. CASE calls[i] \in {<< "start", "complete" >>, << "start", "cancel", "complete" >>} /\ r.started
    <2>1. /\ calls[i] # << >> /\ calls[i] # << "startFailed" >> /\ calls[i] # << "start" >>
          /\ calls[i] # << "start", "cancel" >>
      <3>1. /\ Len(<< >>) = 0 /\ Len(<< "startFailed" >>) = 1 /\ Len(<< "start" >>) = 1
            /\ Len(<< "start", "cancel" >>) = 2 /\ << "start", "cancel" >>[2] = "cancel"
        OBVIOUS
      <3>2. CASE calls[i] = << "start", "complete" >>
        <4>1. Len(calls[i]) = 2 /\ calls[i][2] = "complete"
          BY <3>2
        <4> QED BY <3>1, <4>1
      <3>3. CASE calls[i] = << "start", "cancel", "complete" >>
        <4>1. Len(calls[i]) = 3
          BY <3>3
        <4> QED BY <3>1, <4>1
      <3> QED BY <1>4, <3>2, <3>3
    <2> QED BY <1>4, <2>1 DEF Contract!Deserved
  <1> QED BY <1>1, <1>2, <1>3, <1>4 DEF Deserves

\* An actor answers a command.
LEMMA DeliverContract ==
  ASSUME Whole, NEW a \in Actor, NEW i, i = current[a], Deliver(a)
  PROVE  Contract!Next
  <1>1. /\ at[a] = "finish" /\ Ours /\ Stories /\ Told
        /\ UNCHANGED << route, sequence, calls >> /\ result' = Sent(i, verdict[a]) /\ CancelContexts({i})
    BY DEF Deliver, Whole
  <1>2. i \in Item /\ route[i] = a /\ Accepted(i) /\ Label(i) = "finish"
    BY <1>1, LabelIs DEF Hands
  <1>3. result[i] = << >> /\ Deserves(i)
    BY <1>1, <1>2 DEF Stories, Story, WhenAnswered
  <1>4. PICK r : r = verdict[a]
    OBVIOUS
  <1>5. r \in CommandResult /\ result' = Sent(i, r)
    BY <1>1, <1>4 DEF Told
  <1>6. Contract!Deserved(i, r)
    BY <1>2, <1>3, <1>4, DeservedAnswer
  <1> QED BY <1>1, <1>2, <1>3, <1>5, <1>6, AnswerContract

\* Close answers a command.
LEMMA DropContract ==
  ASSUME Whole, NEW a \in Actor, DropPending(a)
  PROVE  Contract!Next
  <1>1. PICK i \in dropped[a] : CancelContexts({i}) /\ result' = Sent(i, Verdict(FALSE, "canceled"))
    BY DEF DropPending
  <1>2. UNCHANGED << route, sequence, calls >>
    BY DEF DropPending
  <1>3. i \in Item /\ Accepted(i) /\ Lined(i)
    BY DEF Whole, Ours, Of, Lined, Line
  <1>4. result[i] = << >> /\ calls[i] = << >>
    BY <1>3 DEF Whole, Stories, Story, WhileWaiting, Unbegun
  <1>5. PICK r \in CommandResult : r = Verdict(FALSE, "canceled")
    <2>1. Verdict(FALSE, "canceled") \in CommandResult
      BY DEF Verdict, CommandResult, Errors
    <2> QED BY <2>1
  <1>6. Contract!Deserved(i, r)
    <2>1. ~r.started /\ r.err # "nil"
      BY <1>5 DEF Verdict
    <2> QED BY <1>4, <2>1 DEF Contract!Deserved
  <1> QED BY <1>1, <1>2, <1>3, <1>4, <1>5, <1>6, AnswerContract

\* Every step of the composed system is one of the contract, or none.
LEMMA NextContract ==
  ASSUME Whole, [Next]_vars
  PROVE  [Contract!Next]_Contract!vars
  <1>1. Shape /\ PoolInv /\ TypeOK /\ Managed /\ Told /\ Ours /\ InLine
    BY DEF Whole, PoolInv
  <1>2. \/ UNCHANGED << callerDone, closed >>
        \/ closed' = TRUE /\ callerDone' = callerDone
        \/ \E items \in SUBSET Item : /\ callerDone' = [i \in Item |-> callerDone[i] \/ i \in items]
                                      /\ closed' = closed
    BY <1>1, NextUsesPool, PoolQuiet
  <1>3. CASE Aside
    BY <1>1, <1>2, <1>3, AsideFacts, QuietContract
  <1>4. ASSUME NEW i \in Item, Accept(i)
        PROVE  Contract!Next
    BY <1>4, AcceptContract
  <1>5. ASSUME NEW a \in Actor, DropPending(a)
        PROVE  Contract!Next
    BY <1>5, DropContract
  <1>6. ASSUME NEW a \in Actor, ActorStep(a)
        PROVE  [Contract!Next]_Contract!vars
    <2>1. PICK i : i = current[a]
      OBVIOUS
    <2>2. CASE CallStart(a) \/ CallCancel(a) \/ CallComplete(a) \/ Deliver(a)
      BY <2>1, <2>2, StartContract, CancelContract, CompleteContract, DeliverContract
    <2>3. CASE ~(CallStart(a) \/ CallCancel(a) \/ CallComplete(a) \/ Deliver(a))
      <3>1. UNCHANGED << sequence, calls, result, route >>
        BY <1>6, <2>3 DEF ActorStep, Sleep, Leave, Receive, Admit, ReserveSlot, Launch, Attach, CancelWork
      <3> QED BY <1>1, <1>2, <3>1, QuietContract
    <2> QED BY <2>2, <2>3
  <1> QED BY <1>3, <1>4, <1>5, <1>6, Steps

\* KeepsContract: the actors, their manager and the pool together implement
\* CommandContract.  So a command is started at most once, in the order of
\* acceptance; it is cancelled and completed at most once and only if its work
\* was launched; and it gets at most one answer, which fits what was done.
THEOREM ActorsKeepContract == Safety => KeepsContract
  <1>1. Init => Contract!Init
    <2> SUFFICES ASSUME Init PROVE Contract!Init
      OBVIOUS
    <2>1. /\ sequence = [i \in Item |-> 0] /\ calls = [i \in Item |-> << >>] /\ result = [i \in Item |-> << >>]
          /\ callerDone = [i \in Item |-> FALSE] /\ closed = FALSE
      BY DEF Init, PoolInit
    <2>2. Ownership = [i \in Item |-> NoActor]
      BY <2>1 DEF Ownership, Accepted
    <2> QED BY <2>1, <2>2 DEF Contract!Init, Ownership
  <1>2. Whole /\ [Next]_vars => [Contract!Next]_Contract!vars
    BY NextContract
  <1> QED BY <1>1, <1>2, ActorsInvariant, PTL DEF Safety, KeepsContract, Contract!Spec

\* Cancelled while it waited, and not started since.
Doomed(i) ==
    callerDone[i] /\ calls[i] = << >> /\ Accepted(i) /\ Label(i) \notin {"reserve", "start"}

\* It never will be.
LEMMA DoomedStays ==
  ASSUME Whole, [Next]_vars, NEW i \in Item, Doomed(i)
  PROVE  Doomed(i)'
  <1>1. Shape /\ PoolInv /\ TypeOK /\ Managed /\ Told /\ Ours /\ InLine /\ Stories
    BY DEF Whole, PoolInv
  <1>2. Accepted(i)' /\ Ours' /\ InLine'
    BY <1>1, NextSettled, NextOurs, NextInLine DEF Settled, Doomed, Whole
  <1>3. callerDone'[i]
    BY <1>1, NextUsesPool, PoolQuiet DEF Doomed
  <1>4. CASE Aside
    <2>1. calls'[i] = calls[i]
      BY <1>1, <1>4, AsideFacts
    <2>2. Label(i)' = Label(i)
      <3>1. \A a \in Actor : at[a] \in Hands \/ at'[a] \in Hands => at'[a] = at[a] /\ current'[a] = current[a]
        BY <1>1, <1>4, AsideFacts DEF Hands, Early, Working
      <3>2. route'[i] = route[i]
        BY <1>1, <1>4, AsideFacts DEF Doomed
      <3> QED BY <1>1, <1>2, <3>1, <3>2, LabelStays
    <2> QED BY <1>2, <1>3, <2>1, <2>2 DEF Doomed
  <1>5. ASSUME NEW j \in Item, Accept(j)
        PROVE  Doomed(i)'
    <2>1. calls' = calls /\ route' = route /\ current' = current /\ at' = Awake(route[j])
      BY <1>5 DEF Accept
    <2>2. \A a \in Actor : at[a] \in Hands \/ at'[a] \in Hands => at'[a] = at[a]
      BY <1>1, <2>1 DEF Awake, Shape, Handed, Hands, Early
    <2>3. Label(i)' = Label(i)
      BY <1>1, <1>2, <2>1, <2>2, LabelStays
    <2> QED BY <1>2, <1>3, <2>1, <2>3 DEF Doomed
  <1>6. ASSUME NEW a \in Actor, DropPending(a)
        PROVE  Doomed(i)'
    <2>1. calls' = calls /\ route' = route /\ current' = current /\ at' = Awake(a)
      BY <1>6 DEF DropPending
    <2>2. \A b \in Actor : at[b] \in Hands \/ at'[b] \in Hands => at'[b] = at[b]
      BY <1>1, <2>1 DEF Awake, Shape, Handed, Hands, Early
    <2>3. Label(i)' = Label(i)
      BY <1>1, <1>2, <2>1, <2>2, LabelStays
    <2> QED BY <1>2, <1>3, <2>1, <2>3 DEF Doomed
  <1>7. ASSUME NEW a \in Actor, ActorStep(a)
        PROVE  Doomed(i)'
    <2>1. route' = route /\ \A b \in Actor \ {a} : at'[b] = at[b] /\ current'[b] = current[b]
      BY <1>1, <1>7, StepsOn DEF Receive, Goes, Shape, Handed
    <2>2. CASE route[i] # a
      <3>1. Label(i)' = Label(i)
        BY <2>1, <2>2 DEF Label
      <3>2. calls'[i] = calls[i]
        <4>1. current[a] # i \/ at[a] \notin Working
          BY <1>1, <2>2 DEF Ours, Of
        <4> QED BY <1>1, <1>7, <4>1 DEF Told, ActorStep, Sleep, Leave, Receive, Admit, ReserveSlot, CallStart, Launch, Attach,
               CallCancel, CancelWork, CallComplete, Deliver, Invoked, CallsCancelOnce, Working
      <3> QED BY <1>2, <1>3, <3>1, <3>2 DEF Doomed
    <2>3. CASE route[i] = a /\ current[a] # i
      <3>1. Label(i)' \notin {"reserve", "start"}
        <4>1. CASE Receive(a)
          <5>1. at'[a] \in {"command", "cancel", "complete"}
            <6>1. PICK j : j = current'[a]
              OBVIOUS
            <6>2. at' = [at EXCEPT ![a] = inbox[a][1].kind] /\ inbox[a][1] \in Entry
              BY <1>1, <1>2, <4>1, <6>1, ReceiveLine
            <6> QED BY <1>1, <6>2 DEF Entry, Shape, Handed
          <5> QED BY <2>1, <2>3, <5>1 DEF Label
        <4>2. CASE ~Receive(a)
          <5>1. at'[a] \in Working => current'[a] = current[a]
            BY <1>1, <1>7, <4>2, StepsOn
          <5> QED BY <2>1, <2>3, <5>1 DEF Label, Hands, Early, Working
        <4> QED BY <4>1, <4>2
      <3>2. calls'[i] = calls[i]
        BY <1>1, <1>7, <2>3 DEF Told, ActorStep, Sleep, Leave, Receive, Admit, ReserveSlot, CallStart, Launch, Attach,
               CallCancel, CancelWork, CallComplete, Deliver, Invoked, CallsCancelOnce
      <3> QED BY <1>2, <1>3, <3>1, <3>2 DEF Doomed
    <2>4. CASE route[i] = a /\ current[a] = i
      <3>1. at[a] \in Working
        BY <1>1, <2>4 DEF Shape, Handed
      <3>2. Label(i) = IF at[a] \in Hands THEN at[a] ELSE "none"
        BY <2>4 DEF Label
      <3>3. CASE Admit(a)
        <4>1. at' = [at EXCEPT ![a] = "finish"] /\ calls' = calls
          BY <2>4, <3>3 DEF Admit, Withdrawn, Doomed, Resolves, Goes
        <4>2. Label(i)' \notin {"reserve", "start"}
          BY <1>1, <2>1, <2>4, <4>1 DEF Label, Shape, Handed
        <4> QED BY <1>2, <1>3, <4>1, <4>2 DEF Doomed
      <3>4. CASE Launch(a) \/ Attach(a)
        <4>1. Label(i) \in {"launch", "attach"}
          BY <3>2, <3>4 DEF Launch, Attach, Hands, Early
        <4>2. calls[i] = << "start" >>
          BY <1>1, <4>1 DEF Stories, Story, WhileStarting
        <4> QED BY <4>2 DEF Doomed
      <3>5. CASE ReserveSlot(a) \/ CallStart(a)
        <4>1. Label(i) \in {"reserve", "start"}
          BY <3>2, <3>5 DEF ReserveSlot, CallStart, Hands, Early
        <4> QED BY <4>1 DEF Doomed
      <3>6. CASE CallCancel(a) \/ CancelWork(a) \/ Deliver(a)
        <4>1. at'[a] \notin {"reserve", "start"}
          BY <1>1, <3>6 DEF CallCancel, CancelWork, Deliver, Loops, Goes, Shape, Handed
        <4>2. calls'[i] = calls[i]
          <5>1. CASE CallCancel(a) /\ i \in owned[a]
            <6>1. Label(i) = "none" /\ Owned(i)
              BY <3>2, <5>1 DEF CallCancel, Hands, Early, Owned
            <6>2. handle[i] /\ result[i] = << >>
              BY <1>1, <6>1 DEF Stories, Story, WhenOwned
            <6>3. calls[i] # << >>
              BY <1>1, <6>1, <6>2 DEF Stories, Story, WhileWorking
            <6> QED BY <6>3 DEF Doomed
          <5>2. CASE ~(CallCancel(a) /\ i \in owned[a])
            BY <2>4, <3>6, <5>2 DEF CallCancel, CancelWork, Deliver
          <5> QED BY <5>1, <5>2
        <4> QED BY <1>2, <1>3, <2>1, <2>4, <4>1, <4>2 DEF Doomed, Label
      <3>7. CASE CallComplete(a)
        <4>1. handle[i] /\ result[i] = << >> /\ Label(i) # "finish"
          BY <2>4, <3>7 DEF CallComplete, Whole, Once, OnceFor, Posting
        <4>2. calls[i] # << >>
          BY <1>1, <4>1 DEF Stories, Story, WhileWorking
        <4> QED BY <4>2 DEF Doomed
      <3> QED BY <1>7, <3>1, <3>3, <3>4, <3>5, <3>6, <3>7 DEF ActorStep, Sleep, Leave, Receive, Working
    <2> QED BY <2>2, <2>3, <2>4
  <1> QED BY <1>4, <1>5, <1>6, <1>7, Steps

\* QueuedCancellation: "queued cancellation never starts external work": a
\* command whose context is cancelled while it waits is not started, then or
\* ever after.
THEOREM QueuedNeverStarts == Safety => QueuedCancellation
  <1> SUFFICES ASSUME NEW i \in Item
               PROVE  Safety => [](WaitsCancelled(i) => [](calls[i] = << >>))
    BY DEF QueuedCancellation
  <1>1. Whole /\ WaitsCancelled(i) => Doomed(i)
    <2> SUFFICES ASSUME Whole, WaitsCancelled(i) PROVE Doomed(i)
      OBVIOUS
    <2>1. PICK a \in Actor : Command(i) \in ToSet(inbox[a])
      BY DEF WaitsCancelled
    <2>2. i \in Pending(a) /\ Lined(i)
      BY <2>1 DEF ToSet, Pending, Lined, Line
    <2>3. i \in Of(a)
      BY <2>2, PendingIs DEF Whole, Ours
    <2>4. calls[i] = << >>
      BY <2>2 DEF Whole, Stories, Story, WhileWaiting, Unbegun
    <2>5. Label(i) \notin {"reserve", "start"}
      <3>1. current[a] = i => at[a] \notin Early
        BY <2>2, EarlyNotLined DEF Whole
      <3> QED BY <2>3, <3>1 DEF Label, Of, Early
    <2> QED BY <2>3, <2>4, <2>5 DEF Doomed, Of, WaitsCancelled
  <1>2. Whole /\ [Next]_vars /\ Doomed(i) => Doomed(i)'
    BY DoomedStays
  <1>3. Doomed(i) => calls[i] = << >>
    BY DEF Doomed
  <1> QED BY <1>1, <1>2, <1>3, ActorsInvariant, PTL DEF Safety

=============================================================================
