----------------------------- MODULE MCNodeLoop -----------------------------
(* Instances of NodeLoop: an intake with a plan p1 and a plan p2 that can  *)
(* be generated for it.  p1 has a task and, where `extra' is a task, one   *)
(* the user can append; p2 has its final acceptance only.                  *)
EXTENDS NodeLoop, TLC

CONSTANTS i1, p1, p2, t1, extra, u1

SomePlanOf == [t \in Task |-> IF t = u1 THEN p2 ELSE p1]
SomeRank == [x \in Worker \cup Intake |-> IF x \in {p2, extra} THEN 2 ELSE 1]
SomeSource == [p \in Plan |-> i1]
=============================================================================
