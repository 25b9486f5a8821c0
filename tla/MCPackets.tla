------------------------------ MODULE MCPackets ------------------------------
(* Instances of Packets for TLC. *)
EXTENDS Packets, TLC

\* One address is as good as another.
Symmetry == Permutations(Packets) \cup Permutations(Buffers)

=============================================================================
