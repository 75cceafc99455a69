---------------------------- MODULE MCMemoryPort ----------------------------
(* Packets for TLC. *)
EXTENDS MemoryPort

CONSTANTS r1, r2, w1, b1, o1, i1
=============================================================================
