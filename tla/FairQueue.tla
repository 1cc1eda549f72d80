----------------------------- MODULE FairQueue -----------------------------
(***************************************************************************)
(* The queue of the worker pool (runtime/scheduler/queue.go): one FIFO per *)
(* project and a rotation of the projects that wait.                       *)
(*                                                                         *)
(* A queue is a record of                                                  *)
(*   byProject : one sequence of items per project,                        *)
(*   order     : the projects in the order of their next turn,             *)
(*   length    : the number the code keeps beside the two, and the only    *)
(*               one a worker looks at before it pops.                     *)
(* A project that is not a key of the code's map has the empty sequence.   *)
(***************************************************************************)
EXTENDS Integers, FiniteSets, SequencesExt

CONSTANTS
    Item,       \* the work items
    Project,    \* the projects
    ProjectOf   \* the project of every item

ASSUME ItemAssumption ==
    /\ IsFiniteSet(Item)
    /\ ProjectOf \in [Item -> Project]

EmptyQueue == [byProject |-> [p \in Project |-> << >>], order |-> << >>, length |-> 0]

(***************************************************************************)
(* The operations                                                          *)
(***************************************************************************)

\* Fault: the project enters the rotation with every item.
PushEveryTime(q, i) ==
    LET p == ProjectOf[i]
    IN  [ byProject |-> [q.byProject EXCEPT ![p] = Append(@, i)],
          order     |-> Append(q.order, p),
          length    |-> q.length + 1 ]

Push(q, i) ==
    LET p == ProjectOf[i]
    IN  [ byProject |-> [q.byProject EXCEPT ![p] = Append(@, i)],
          order     |-> IF q.byProject[p] = << >> THEN Append(q.order, p) ELSE q.order,
          length    |-> q.length + 1 ]

\* The places of the rotation Pop does not skip.
Turns(q) == {k \in DOMAIN q.order : q.byProject[q.order[k]] # << >>}

Popped(q) == Head(q.byProject[q.order[Min(Turns(q))]])

\* The skipped places and the one served leave the rotation; the project
\* served goes to its end when it has more work.
Pop(q) ==
    IF Turns(q) = {} THEN [q EXCEPT !.order = << >>]
    ELSE LET turn == Min(Turns(q))
             p    == q.order[turn]
             rest == SubSeq(q.order, turn + 1, Len(q.order))
             left == Tail(q.byProject[p])
         IN  [ byProject |-> [q.byProject EXCEPT ![p] = left],
               order     |-> IF left = << >> THEN rest ELSE Append(rest, p),
               length    |-> q.length - 1 ]

Holds(q, i) == \E k \in DOMAIN q.byProject[ProjectOf[i]] : q.byProject[ProjectOf[i]][k] = i

\* Faults: nothing is removed; or the item is not counted off.
RemoveNothing(q, i) == q
RemoveUncounted(q, i) ==
    LET p == ProjectOf[i]
    IN  [q EXCEPT !.byProject[p] = RemoveFirst(@, i),
                  !.order = IF Len(q.byProject[p]) = 1 THEN RemoveFirst(@, p) ELSE @]

RemoveItem(q, i) ==
    LET p    == ProjectOf[i]
        left == RemoveFirst(q.byProject[p], i)
    IN  IF ~Holds(q, i) THEN q
        ELSE [ byProject |-> [q.byProject EXCEPT ![p] = left],
               order     |-> IF left = << >> THEN RemoveFirst(q.order, p) ELSE q.order,
               length    |-> q.length - 1 ]

\* Fault: one turn of every project only.
DrainedHeads(q) == {Head(q.byProject[q.order[k]]) : k \in DOMAIN q.order}

\* Drain pops until nothing is left and returns every item popped: those of
\* the projects that have a turn.
Drained(q) == {i \in Item : Holds(q, i) /\ \E k \in DOMAIN q.order : q.order[k] = ProjectOf[i]}

(***************************************************************************)
(* What a queue is for: it represents a set of waiting items when it holds *)
(* each of them once, under its own project and in the rotation of the     *)
(* projects that wait, and counts them.                                    *)
(***************************************************************************)
Represents(q, waiting) ==
    /\ \A p \in Project :
         /\ IsInjective(q.byProject[p])
         /\ ToSet(q.byProject[p]) = {i \in waiting : ProjectOf[i] = p}
    /\ IsInjective(q.order)
    /\ ToSet(q.order) = {p \in Project : q.byProject[p] # << >>}
    /\ q.length = Cardinality(waiting)

=============================================================================
