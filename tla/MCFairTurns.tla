---------------------------- MODULE MCFairTurns ----------------------------
(***************************************************************************)
(* The worker pool for TLC, with the count of the turns.                   *)
(***************************************************************************)
EXTENDS FairTurns

CONSTANTS i1, i2, i3, pA, pB

\* Two items of one project and one of another: a project with a queue of its
\* own to keep in order, and another to take turns with.
MCProjectOf == [i \in Item |-> IF i = i3 THEN pB ELSE pA]

=============================================================================
