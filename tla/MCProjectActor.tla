--------------------------- MODULE MCProjectActor ---------------------------
(***************************************************************************)
(* Instances of ProjectActor for TLC.                                      *)
(***************************************************************************)
EXTENDS ProjectActor

CONSTANTS i1, i2, i3, pA, pB

MCProjectOf == [i \in Item |-> IF i = i3 THEN pB ELSE pA]

\* The actors that are not created yet are interchangeable, and the workers are.
Symmetry == Permutations(Actor) \cup Permutations(Worker)
ItemSymmetry == Symmetry \cup Permutations(Item)

=============================================================================
