--------------------------- MODULE MCBlockBuffers ---------------------------
(* BlockBuffers for TLC: users, and devices, are interchangeable. *)
EXTENDS BlockBuffers

Symmetry == Permutations(Users) \cup Permutations(Devices)
=============================================================================
