--------------------------- MODULE MCLoopRuntime ---------------------------
(***************************************************************************)
(* Instances of LoopRuntime for TLC: requests for one project.             *)
(***************************************************************************)
EXTENDS LoopRuntime

CONSTANTS start, again, stop, run, retry, tick,            \* requests
          starting, restarting, stopping, running, ticking \* operations

\* Two starts, a stop, a run, a retry of it with the same key, and a tick.
Kinds == [c \in Command |-> IF c \in {start, again} THEN "start" ELSE IF c = stop THEN "stop" ELSE "run"]
Keys == [c \in Command |->
    IF c = start THEN starting ELSE IF c = again THEN restarting ELSE IF c = stop THEN stopping
    ELSE IF c \in {run, retry} THEN running ELSE ticking]

SomePlan == [g \in Stopper |-> CHOOSE p \in Plan : TRUE]

=============================================================================
