----------------------------- MODULE MCSelector -----------------------------
(***************************************************************************)
(* Selector on small candidate lists.  A refresh changes the list between  *)
(* two attempts: none, some or all of the nodes.                           *)
(***************************************************************************)
EXTENDS Selector, TLC

LongerLists == {<<>>, <<1, 3>>, <<1, 2, 3>>}
Symmetry == Permutations(Attempts)
=============================================================================
