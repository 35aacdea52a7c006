------------------------------- MODULE MCEdge -------------------------------
(* Edge on a small instance: two connections, two attempts, a clock in half    *)
(* seconds.                                                                    *)
EXTENDS Edge, TLC

MCSymmetry == Permutations(Slot) \cup Permutations(Texts)
=============================================================================
