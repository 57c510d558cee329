--------------------------- MODULE MCProvisioning ---------------------------
(***************************************************************************)
(* Robots, addresses and jobs are interchangeable: ids are not, they are   *)
(* generated in order.  No temporal property is checked under symmetry.    *)
(***************************************************************************)
EXTENDS Provisioning, TLC

Symmetry ==
  Permutations(Robots) \cup Permutations(Addresses) \cup Permutations(Jobs)

=============================================================================
