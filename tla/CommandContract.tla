-------------------------- MODULE CommandContract --------------------------
(***************************************************************************)
(* What the scheduler promises the services that submit commands to it     *)
(* (runtime/scheduler: Command, Submission, Actor), without its mailboxes, *)
(* pool and goroutines.  ProjectActor implements it.                       *)
(*                                                                         *)
(*  - A command is accepted by one actor, and answered at most once.       *)
(*  - The commands of an actor start in the order it accepted them.        *)
(*  - calls[i] is the history of the callbacks of command i:               *)
(*      Start once, and only before the answer;                            *)
(*      Cancel at most once, and only for work that was launched;          *)
(*      Complete at most once, after Start and as the last callback.       *)
(*  - A command with work whose Start succeeded is completed, unless its   *)
(*    context is cancelled or the pool closes before the work is launched: *)
(*    then it is answered with an error and no other callback.             *)
(***************************************************************************)
EXTENDS Integers, Sequences, FiniteSets

CONSTANTS Item, HasWork, Actor, NoActor

VARIABLES
    owner,      \* the actor that accepted the command
    place,      \* its place in the order of acceptance
    gone,       \* its context is cancelled
    shutdown,   \* the pool is closed
    calls,      \* the callbacks invoked
    result      \* the answers sent

vars == << owner, place, gone, shutdown, calls, result >>

Init ==
    /\ owner = [i \in Item |-> NoActor]
    /\ place = [i \in Item |-> 0]
    /\ gone = [i \in Item |-> FALSE]
    /\ shutdown = FALSE
    /\ calls = [i \in Item |-> << >>]
    /\ result = [i \in Item |-> << >>]

Accept(i, a) ==
    /\ owner[i] = NoActor /\ ~gone[i]
    /\ owner' = [owner EXCEPT ![i] = a]
    /\ place' = [place EXCEPT ![i] = 1 + Cardinality({j \in Item : owner[j] = a})]
    /\ UNCHANGED << gone, shutdown, calls, result >>

Open(i) == owner[i] # NoActor /\ result[i] = << >>
Waits(i) == Open(i) /\ calls[i] = << >>
Launched(i) == i \in HasWork /\ Open(i) /\ calls[i] # << >> /\ calls[i][1] = "start"

Invoke(i, callback) ==
    /\ calls' = [calls EXCEPT ![i] = Append(@, callback)]
    /\ UNCHANGED << owner, place, gone, shutdown, result >>

Start(i) ==
    /\ Waits(i)
    /\ \A j \in Item : owner[j] = owner[i] /\ place[j] < place[i] => ~Waits(j)
    /\ \E callback \in {"start", "startFailed"} : Invoke(i, callback)

Cancel(i) == Launched(i) /\ calls[i] = << "start" >> /\ Invoke(i, "cancel")

Complete(i) == Launched(i) /\ calls[i][Len(calls[i])] # "complete" /\ Invoke(i, "complete")

\* The answers a command with the history h may get.
Deserved(i, r) ==
    LET h == calls[i]
    IN  CASE h = << >> -> ~r.started /\ r.err # "nil"
          [] h = << "startFailed" >> -> ~r.started /\ r.err # "nil"
          [] h = << "start" >> /\ i \notin HasWork -> r.started /\ r.err = "nil"
          [] h = << "start" >> /\ i \in HasWork -> r.started /\ r.err # "nil" /\ (gone[i] \/ shutdown)
          [] h = << "start", "cancel" >> -> FALSE
          [] OTHER -> r.started

\* An answer cancels the context of the command.
Answer(i) ==
    /\ Open(i)
    /\ \E r \in [started : BOOLEAN, cancelled : BOOLEAN, err : {"nil", "failed", "canceled", "refused"}] :
         /\ Deserved(i, r)
         /\ result' = [result EXCEPT ![i] = Append(@, r)]
    /\ gone' = [gone EXCEPT ![i] = TRUE]
    /\ UNCHANGED << owner, place, shutdown, calls >>

Leave(items) ==
    /\ gone' = [i \in Item |-> gone[i] \/ i \in items]
    /\ UNCHANGED << owner, place, shutdown, calls, result >>

Shutdown ==
    /\ shutdown' = TRUE
    /\ UNCHANGED << owner, place, gone, calls, result >>

Next ==
    \/ \E i \in Item, a \in Actor : Accept(i, a)
    \/ \E i \in Item : Start(i) \/ Cancel(i) \/ Complete(i) \/ Answer(i)
    \/ \E items \in SUBSET Item : Leave(items)
    \/ Shutdown

Spec == Init /\ [][Next]_vars

=============================================================================
