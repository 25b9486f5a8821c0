------------------------------ MODULE MCTimer ------------------------------
(* The instance of Timer for TLC: no symmetry, since it checks liveness. *)
EXTENDS Timer

=============================================================================
