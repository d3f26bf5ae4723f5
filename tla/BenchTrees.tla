----------------------------- MODULE BenchTrees -----------------------------
(***************************************************************************)
(* The trees of ab-bench-opt.c: for each machine that the benchmark knows, *)
(* the matrix that is given to smlt_topology_create in place of a          *)
(* generated model, with the root, the cores that run, and the leafs that  *)
(* the benchmark takes in turn.  A matrix is written down as its entries   *)
(* other than zero.                                                        *)
(***************************************************************************)
EXTENDS Integers, Sequences, FiniteSets, Topology

\* row x: the children, by position
Down(x, children) == {<<x, children[i], i>> : i \in DOMAIN children}

\* column y: the rows that name y as parent
Up(y, X) == {<<x, y, TOPO_MATRIX_PARENT>> : x \in X}

r815 ==
  [len |-> 32, root |-> 0, num_leafs |-> 7,
   cores |-> <<0, 4, 8, 12, 16, 20, 24, 28>>, leafs |-> <<4, 8, 16, 12, 20, 24, 28>>,
   entries |-> Down(0, <<4, 12, 16, 20, 24, 28, 8>>) \cup Up(0, {4, 8, 12, 16, 20, 24, 28})]

r820 ==
  [len |-> 64, root |-> 0, num_leafs |-> 6,
   cores |-> <<0, 4, 8, 12, 16, 20, 24, 28>>, leafs |-> <<8, 12, 24, 28, 16, 4>>,
   entries |-> Down(0, <<20, 8, 12, 24, 28>>) \cup Down(20, <<16, 4>>)
                \cup Up(0, {8, 12, 20, 24, 28}) \cup Up(20, {4, 16})]

r8202 ==
  [len |-> 64, root |-> 0, num_leafs |-> 5,
   cores |-> <<0, 8, 16, 24, 32, 40, 48, 56>>, leafs |-> <<8, 16, 24, 32, 48>>,
   entries |-> Down(0, <<40, 56, 16, 48, 32>>) \cup Down(40, <<8>>) \cup Down(56, <<24>>)
                \cup Up(0, {16, 32, 40, 48, 56}) \cup Up(40, {8}) \cup Up(56, {24})]

gottardo ==
  [len |-> 32, root |-> 8, num_leafs |-> 6,
   cores |-> <<0, 4, 8, 12, 16, 20, 24, 28>>, leafs |-> <<0, 16, 12, 20, 24, 28>>,
   entries |-> Down(4, <<0>>) \cup Down(8, <<4, 16, 24, 28, 20, 12>>) \cup Up(4, {0})
                \cup Up(8, {4, 12, 16, 20, 24, 28})]

gottardo2 ==
  [len |-> 32, root |-> 2, num_leafs |-> 7,
   cores |-> <<0, 2, 4, 6, 8, 10, 12, 14>>, leafs |-> <<0, 4, 6, 8, 10, 12, 14>>,
   entries |-> Down(2, <<8, 10, 14, 12, 0, 4, 6>>) \cup Up(2, {0, 4, 6, 8, 10, 12, 14})]

gottardo3 ==
  [len |-> 32, root |-> 7, num_leafs |-> 6,
   cores |-> <<0, 1, 2, 3, 4, 5, 6, 7>>, leafs |-> <<1, 2, 3, 4, 5, 6>>,
   entries |-> Down(0, <<2>>) \cup Down(8, <<0, 1, 4, 5, 6, 3>>)
                \cup Up(7, {0, 1, 3, 4, 5, 6, 7})]

gruyere ==
  [len |-> 32, root |-> 14, num_leafs |-> 5,
   cores |-> <<0, 2, 4, 6, 8, 10, 12, 14>>, leafs |-> <<0, 2, 4, 6, 12>>,
   entries |-> Down(8, <<2>>) \cup Down(10, <<4, 12>>) \cup Down(14, <<10, 8, 0, 6>>)
                \cup Up(8, {2}) \cup Up(10, {4, 12}) \cup Up(14, {0, 6, 8, 10})]

sbrinz ==
  [len |-> 16, root |-> 4, num_leafs |-> 5,
   cores |-> <<0, 2, 4, 6, 8, 10, 12, 14>>, leafs |-> <<0, 2, 8, 12, 14>>,
   entries |-> Down(4, <<6, 12, 10, 2>>) \cup Down(6, <<8, 0>>) \cup Down(12, <<14>>)
                \cup Up(4, {2, 6, 10, 12}) \cup Up(6, {0, 8}) \cup Up(12, {14})]

babybel ==
  [len |-> 20, root |-> 6, num_leafs |-> 6,
   cores |-> <<0, 1, 2, 3, 4, 5, 6, 7>>, leafs |-> <<1, 2, 3, 4, 5, 7>>,
   entries |-> Down(0, <<3, 7>>) \cup Down(6, <<0, 1, 2, 4, 5>>) \cup Up(0, {3, 7})
                \cup Up(6, {0, 1, 2, 4, 5})]

babybel2 ==
  [len |-> 20, root |-> 0, num_leafs |-> 6,
   cores |-> <<0, 1, 2, 3, 10, 11, 12, 13>>, leafs |-> <<1, 2, 3, 10, 11, 12, 13>>,
   entries |-> Down(0, <<10, 11, 13, 12, 1, 2, 3>>) \cup Up(0, {1, 2, 3, 10, 11, 12, 13})]

appenzeller ==
  [len |-> 48, root |-> 0, num_leafs |-> 5,
   cores |-> <<0, 4, 8, 12, 16, 20, 24, 28>>, leafs |-> <<12, 16, 20, 24, 28>>,
   entries |-> Down(0, <<4, 8, 28, 16>>) \cup Down(4, <<20, 24>>) \cup Down(8, <<12>>)
                \cup Up(0, {4, 8, 16, 28}) \cup Up(4, {20, 24}) \cup Up(8, {11})]

appenzeller2 ==
  [len |-> 48, root |-> 10, num_leafs |-> 5,
   cores |-> <<0, 2, 4, 6, 8, 10, 12, 14>>, leafs |-> <<0, 4, 6, 8, 12>>,
   entries |-> Down(2, <<0, 6>>) \cup Down(10, <<2, 14, 4, 8>>) \cup Down(14, <<6>>)
                \cup Up(2, {0, 6}) \cup Up(10, {2, 4, 8, 14}) \cup Up(14, {12})]

\* the names that the benchmark takes on its command line, in its order
Machines == <<gottardo, gottardo2, gottardo3, r820, r8202, r815, sbrinz, gruyere, babybel,
              babybel2, appenzeller, appenzeller2>>

-----------------------------------------------------------------------------
\* the matrix
matrix(b) ==
  [x \in 0 .. b.len - 1 |-> [y \in 0 .. b.len - 1 |->
     LET at == {e \in b.entries : e[1] = x /\ e[2] = y} IN
     IF at = {} THEN 0 ELSE (CHOOSE e \in at : TRUE)[3]]]

\* a pointer to a topology, or the assertions of smlt_topology_parse_model fail
Built(b) == Parses(matrix(b), b.len)
Tree(b)  == ParseModel(matrix(b), b.len)

\* the cores that a broadcast from the root reaches, if no path is longer than
\* the number of cores
Reached(b, t) ==
  LET Below(S) == S \cup {c \in 0 .. b.len - 1 : \E n \in S : \E i \in DOMAIN t.children[n] :
                            t.children[n][i] = c}
      reach[k \in 0 .. Len(b.cores)] == IF k = 0 THEN {b.root} ELSE Below(reach[k - 1]) IN
  reach[Len(b.cores)]

\* Three of the matrices are not symmetric and fail an assertion.  In the trees
\* of the others both ends of every link use the same channel, the root is the
\* one that the benchmark assumes, and a broadcast reaches the cores that run.
ASSUME BenchTreesAssumption ==
  \A k \in DOMAIN Machines : \A b \in {Machines[k]} :
    IF b \in {gottardo3, appenzeller, appenzeller2} THEN ~Built(b)
    ELSE /\ Built(b)
         /\ \A t \in {Tree(b)} :
              /\ LinksAgree(t)
              /\ t.parent[b.root] = NoNode
              /\ Reached(b, t) = {b.cores[i] : i \in DOMAIN b.cores}

=============================================================================
