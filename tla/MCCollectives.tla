--------------------------- MODULE MCCollectives ---------------------------
(***************************************************************************)
(* An instance of Collectives for TLC: the binary tree of five nodes, and  *)
(* a tree of a generated model rooted at node 2 with children 4, 0 and 3   *)
(* in this order, node 1 being the child of node 0.                        *)
(***************************************************************************)
EXTENDS Collectives

MCNumNodes == 5

MCRow(a, b, c, d, e) == [y \in 0 .. 4 |-> <<a, b, c, d, e>>[y + 1]]

MCMatrix == [x \in 0 .. 4 |-> << MCRow(0, 1, 99, 0, 0),
                                 MCRow(99, 0, 0, 0, 0),
                                 MCRow(2, 0, 0, 3, 1),
                                 MCRow(0, 0, 99, 0, 0),
                                 MCRow(0, 0, 99, 0, 0) >>[x + 1]]

ASSUME MCMatrixParses == Parses(MCMatrix, MCNumNodes)

MCTrees == {BinaryTree(MCNumNodes), ParseModel(MCMatrix, MCNumNodes)}
=============================================================================
