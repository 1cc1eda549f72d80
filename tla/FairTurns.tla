----------------------------- MODULE FairTurns -----------------------------
(***************************************************************************)
(* What the rotation of the fair queue is for: "A noisy project can        *)
(* therefore consume only its fair turn while another project has pending  *)
(* work" (runtime/scheduler/queue.go).  The worker pool with a variable    *)
(* that counts, for every project that waits, how often each other project *)
(* was served meanwhile.                                                   *)
(***************************************************************************)
EXTENDS WorkerPool

VARIABLE passed   \* passed[p][q]: items of q popped since p waits for its turn

vars == << poolVars, passed >>

WaitsNow(p) == queue.byProject[p] # << >>

\* The project whose item a worker pops in this step.
Served(p) == \E w \in Worker : /\ pc[w] = "next" /\ pc'[w] = "execute"
                               /\ ProjectOf[holds'[w]] = p

Count ==
    passed' = [p \in Project |->
                 IF ~WaitsNow(p) \/ ~WaitsNow(p)' \/ Served(p)
                 THEN [q \in Project |-> 0]
                 ELSE [q \in Project |-> IF Served(q) THEN passed[p][q] + 1 ELSE passed[p][q]]]

Init == PoolInit /\ passed = [p \in Project |-> [q \in Project |-> 0]]

Next == PoolNext /\ Count

Spec == Init /\ [][Next]_vars

\* The goroutines of the workers are scheduled.
FairSpec == Spec /\ \A w \in Worker : WF_vars(WorkerStep(w) /\ Count)

\* Between two turns of a project that has work waiting, no other project gets
\* more than one: the number of its items and their cancellation do not matter.
NobodyOvertakesTwice == \A p, q \in Project : passed[p][q] <= 1

=============================================================================
