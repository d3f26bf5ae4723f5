------------------------------ MODULE Topology ------------------------------
(***************************************************************************)
(* How a topology is built: the parent, the position among the parent's    *)
(* children and the children of every node, either of a binary tree over   *)
(* the nodes 0 .. N-1 or from the matrix of a generated model.  Nothing in  *)
(* the code compares the links down (children) with the links up (parent   *)
(* and array_index); the context joins the two ends of a channel by them.  *)
(***************************************************************************)
EXTENDS Integers, Sequences, FiniteSetsExt

\* a NULL pointer to a node
NoNode == -1

-----------------------------------------------------------------------------
(* smlt_topology_create_binary_tree.                                       *)

BinParent(i) ==
  IF i = 0 THEN NoNode ELSE IF i % 2 = 0 THEN (i \div 2) - 1 ELSE i \div 2

\* array_index; that of the root is never set and zero
BinIndex(i) == IF i # 0 /\ i % 2 = 0 THEN 1 ELSE 0

BinChildren(i, N) ==
  IF 2 * i + 1 < N
  THEN IF 2 * i + 2 < N THEN <<2 * i + 1, 2 * i + 2>> ELSE <<2 * i + 1>>
  ELSE <<>>

BinaryTree(N) ==
  [parent   |-> [i \in 0 .. N - 1 |-> BinParent(i)],
   index    |-> [i \in 0 .. N - 1 |-> BinIndex(i)],
   children |-> [i \in 0 .. N - 1 |-> BinChildren(i, N)]]

-----------------------------------------------------------------------------
(* smlt_topology_parse_model, of an N x N matrix mat.                      *)

TOPO_MATRIX_PARENT == 99
TOPO_MATRIX_MAX_MP == 98
SHM_SLAVE == 150 .. 169

\* the asserts and panics: masters of shared memory are not implemented, and
\* the parent's entry for the node is a message passing child (< 98)
Parses(mat, N) ==
  \A x, y \in 0 .. N - 1 :
    LET val == mat[x][y] IN
    /\ val \in 0 .. TOPO_MATRIX_MAX_MP \cup {TOPO_MATRIX_PARENT} \cup SHM_SLAVE
    /\ val = TOPO_MATRIX_PARENT => mat[y][x] > 0 /\ mat[y][x] < TOPO_MATRIX_MAX_MP

\* the last assignment of a loop over the nodes, or the initial value
LastSet(S, initial) == IF S = {} THEN initial ELSE Max(S)

ParentIn(mat, N, x) ==
  LastSet({y \in 0 .. N - 1 : mat[x][y] \in {TOPO_MATRIX_PARENT} \cup SHM_SLAVE}, NoNode)

IndexIn(mat, N, y) ==
  LET x == LastSet({z \in 0 .. N - 1 : mat[z][y] \in 1 .. TOPO_MATRIX_MAX_MP}, NoNode)
  IN  IF x = NoNode THEN 0 ELSE mat[x][y] - 1

ChildrenIn(mat, N, x) ==
  LET vals == {mat[x][y] : y \in 0 .. N - 1} \cap 1 .. TOPO_MATRIX_MAX_MP IN
  [pos \in 1 .. LastSet(vals, 0) |-> LastSet({y \in 0 .. N - 1 : mat[x][y] = pos}, NoNode)]

ParseModel(mat, N) ==
  [parent   |-> [x \in 0 .. N - 1 |-> ParentIn(mat, N, x)],
   index    |-> [x \in 0 .. N - 1 |-> IndexIn(mat, N, x)],
   children |-> [x \in 0 .. N - 1 |-> ChildrenIn(mat, N, x)]]

-----------------------------------------------------------------------------
(* The links up and down of a topology agree: a node is the child at       *)
(* position array_index of its parent, and the parent of its children, so  *)
(* that smlt_context_create gives both ends of a link the same channel.    *)
LinksAgree(t) ==
  \A n \in DOMAIN t.parent :
    /\ t.parent[n] # NoNode =>
         /\ t.index[n] + 1 \in DOMAIN t.children[t.parent[n]]
         /\ t.children[t.parent[n]][t.index[n] + 1] = n
    /\ \A i \in DOMAIN t.children[n] :
         /\ t.children[n][i] \in DOMAIN t.parent
         /\ t.parent[t.children[n][i]] = n
         /\ t.index[t.children[n][i]] = i - 1

(* A topology of the nodes S that is a tree: the links agree, one node has *)
(* no parent, and the links lead from there to every node.                 *)
IsTree(t, S) ==
  /\ t.parent \in [S -> S \cup {NoNode}]
  /\ t.index \in [S -> Nat]
  /\ t.children \in [S -> Seq(S)]
  /\ LinksAgree(t)
  /\ \E r \in S : \A n \in S : t.parent[n] = NoNode <=> n = r
  /\ \A R \in SUBSET S :
       (\A n \in S : t.parent[n] \in R \cup {NoNode} => n \in R) => R = S
=============================================================================
