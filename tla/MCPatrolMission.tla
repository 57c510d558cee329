--------------------------- MODULE MCPatrolMission ---------------------------
(* Instances of PatrolMission for TLC. *)
EXTENDS PatrolMission, TLC

RobotSymmetry == Permutations(Robots)

=============================================================================
