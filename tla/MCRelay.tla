------------------------------ MODULE MCRelay ------------------------------
(* Instances of Relay for TLC. *)
EXTENDS Relay, TLC

\* The data path does not look at the bytes.
Symmetry == Permutations(Bytes)

=============================================================================
