-------------------------- MODULE MCFreeNodeManager --------------------------
(* FreeNodeManager for TLC: two Master nodes, two nodes that register as   *)
(* either type, a new group of two and a group that reconfigures.          *)
EXTENDS FreeNodeManager

CONSTANTS m1, m2, e1, e2, s1, s2, master

Symmetry == Permutations(Eids)
=============================================================================
