------------------------- MODULE MCLogisticsDispatch -------------------------
(* Instances of LogisticsDispatch for TLC. *)
EXTENDS LogisticsDispatch, TLC

\* The shipped routes hold twice: at the origin and at the destination.
TwoHolds == [t \in Tasks |-> 2]

TaskSymmetry == Permutations(Tasks)

=============================================================================
