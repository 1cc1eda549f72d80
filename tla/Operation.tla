----------------------------- MODULE Operation -----------------------------
(***************************************************************************)
(* One persisted operation and the transactions that change its row        *)
(* (domain/operation and repository/sqlite/operations.go).                 *)
(*                                                                         *)
(* A transaction is given the version its caller read.  It returns the row *)
(* after the transaction and whether it succeeded: a repeated transition   *)
(* is an accepted no-op, an illegal or stale one is an error that leaves   *)
(* the row alone.                                                          *)
(***************************************************************************)
EXTENDS Integers

Terminal == {"succeeded", "failed", "cancelled", "interrupted"}
Status == {"queued", "running"} \cup Terminal
Operation == [status : Status \cup {"absent"}, version : Nat, cancelRequested : BOOLEAN]

Absent == [status |-> "absent", version |-> 0, cancelRequested |-> FALSE]
FreshUnset == [status |-> "unset", version |-> 1, cancelRequested |-> FALSE]   \* Fault: created without a status
Fresh == [status |-> "queued", version |-> 1, cancelRequested |-> FALSE]

\* The targets a status may move to.
Legal(current) ==
    CASE current = "queued" -> {"running", "cancelled", "interrupted"}
      [] current = "running" -> Terminal
      [] OTHER -> {}

Done(o) == [ok |-> TRUE, row |-> o]
Failed(o) == [ok |-> FALSE, row |-> o]

TransitionUnchecked(o, expected, target) ==   \* Fault: the version is not compared
    IF o.status = target THEN Done(o)
    ELSE IF target \notin Legal(o.status) THEN Failed(o)
    ELSE Done([o EXCEPT !.status = target, !.version = @ + 1])

Transition(o, expected, target) ==
    IF o.status = target THEN Done(o)
    ELSE IF target \notin Legal(o.status) \/ o.version # expected THEN Failed(o)
    ELSE Done([o EXCEPT !.status = target, !.version = @ + 1])

ClaimAnyhow(o, expected) ==   \* Fault: an update without precondition
    Done([o EXCEPT !.status = "running", !.version = @ + 1])

\* Only a queued operation can be claimed; claiming it again is a no-op.
Claim(o, expected) ==
    IF o.status \in {"queued", "running"} THEN Transition(o, expected, "running") ELSE Failed(o)

CancelAtOnce(o, expected) ==   \* Fault: a running operation is cancelled, not marked
    IF o.status \in Terminal THEN Done(o) ELSE Transition(o, expected, "cancelled")

\* A queued operation is cancelled at once, a running one is only marked.
RequestCancellation(o, expected) ==
    IF o.status \in Terminal \/ (o.status = "running" /\ o.cancelRequested) THEN Done(o)
    ELSE IF o.version # expected THEN Failed(o)
    ELSE IF o.status = "queued" THEN Transition(o, expected, "cancelled")
    ELSE Done([o EXCEPT !.cancelRequested = TRUE, !.version = @ + 1])
=============================================================================
