------------------------------- MODULE MCPool -------------------------------
(* The instance of Pool for TLC. *)
EXTENDS Pool

=============================================================================
