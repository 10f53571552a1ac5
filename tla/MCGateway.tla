----------------------------- MODULE MCGateway ------------------------------
(* Gateway on a small instance.                                            *)
EXTENDS Gateway, TLC

Symmetry == Permutations(Dialers) \cup Permutations(Nodes) \cup Permutations(Sessions)
=============================================================================
