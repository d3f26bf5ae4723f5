------------------------- MODULE CollectivesProofs -------------------------
(***************************************************************************)
(* Proofs about Collectives, for every tree, every capacity of the queues  *)
(* and every program of operations.                                        *)
(*                                                                         *)
(* The nodes of a link count the operations alike, and the messages in its *)
(* queues are those of the operations that the sender is through with and  *)
(* the receiver is not, in order and without a gap: the inductive          *)
(* invariant says so of every link in both directions (Traffic).  The last *)
(* section shows that the binary tree is one of these trees.               *)
(***************************************************************************)
EXTENDS Collectives, FiniteSetTheorems, WellFoundedInduction, TLAPS

\* the operations that send messages up the tree, and down
UpOps   == {k \in 1 .. MaxOps : program[k] # "broadcast"}
DownOps == {k \in 1 .. MaxOps : program[k] # "reduce"}

\* operations node n is through with: sending to its parent, receiving from
\* child i, receiving from its parent, sending to child i
SentUp(n)      == IF pc[n] = "collect" THEN count[n] - 1 ELSE count[n]
RecvdUp(n, i)  == IF pc[n] = "collect" /\ i \notin got[n] THEN count[n] - 1 ELSE count[n]
RecvdDown(n)   == IF pc[n] \in {"collect", "recv"} THEN count[n] - 1 ELSE count[n]
SentDown(n, i) == IF pc[n] \in {"collect", "recv"} \/ (pc[n] = "down" /\ idx[n] <= i)
                  THEN count[n] - 1 ELSE count[n]

\* queue q carries the messages of those operations among ks that the sender is
\* through with (up to hi) and the receiver is not (up to lo)
Carries(ks, q, lo, hi) ==
  /\ \A j \in 1 .. Len(q) : q[j].op \in ks /\ lo < q[j].op /\ q[j].op <= hi
  /\ \A j, l \in 1 .. Len(q) : j < l => q[j].op < q[l].op
  /\ \A k \in ks : lo < k /\ k <= hi => \E j \in 1 .. Len(q) : q[j].op = k
  /\ \A k \in ks : k <= lo => k <= hi

Traffic ==
  \A n \in Nodes : \A i \in Children(n) :
    /\ Carries(UpOps, up[n][i], RecvdUp(n, i), SentUp(tree.children[n][i]))
    /\ Carries(DownOps, down[n][i], RecvdDown(tree.children[n][i]), SentDown(n, i))

Queues(f) ==
  /\ f = [n \in Nodes |-> f[n]]
  /\ \A n \in Nodes : f[n] \in [Children(n) -> Seq(Message)]
  /\ \A n \in Nodes : \A i \in Children(n) : Len(f[n][i]) <= Capacity

Types ==
  /\ tree \in Trees /\ program \in [1 .. MaxOps -> Ops]
  /\ Queues(down) /\ Queues(up)
  /\ count \in [Nodes -> 0 .. MaxOps]
  /\ pc \in [Nodes -> {"out", "collect", "recv", "down", "return"}]
  /\ idx \in [Nodes -> Nat \ {0}]
  /\ got \in [Nodes -> SUBSET Nat]
  /\ msg \in [Nodes -> Message \cup {NoMsg}]
  /\ result \in [Nodes -> Seq(Message)]

\* where node n can be in its operation, and with which message
Place(n) ==
  /\ got[n] \subseteq Children(n)
  /\ idx[n] <= Len(tree.children[n]) + 1
  /\ pc[n] # "out" => count[n] > 0
  /\ pc[n] = "collect" => count[n] \in UpOps
  /\ pc[n] = "collect" /\ Children(n) # {} => idx[n] \in Children(n)
  /\ pc[n] = "recv" => ~IsRoot(n) /\ idx[n] = 1
  /\ pc[n] \in {"recv", "down"} => count[n] \in DownOps
  /\ pc[n] = "return" => Op(n) = "reduce"
  /\ pc[n] \in {"collect", "down", "return"} => msg[n] \in Message /\ msg[n].op = count[n]
  /\ Len(result[n]) = IF pc[n] = "out" THEN count[n] ELSE count[n] - 1
  /\ \A k \in 1 .. Len(result[n]) : result[n][k].op = k

\* m is what the root has, or had, for operation m.op
OfRoot(m) ==
  \/ m.op \in 1 .. Len(result[Root]) /\ result[Root][m.op] = m
  \/ m.op = count[Root] /\ pc[Root] = "down" /\ msg[Root] = m

\* m is what its operation hands down from the root
Handed(m) ==
  /\ program[m.op] = "broadcast" => m.inputs = {Root}
  /\ program[m.op] = "reduce_all" => OfRoot(m)

Agreement ==
  \A n \in Nodes :
    /\ \A i \in Children(n) : \A j \in 1 .. Len(down[n][i]) : Handed(down[n][i][j])
    /\ pc[n] = "down" => Handed(msg[n])
    /\ \A k \in 1 .. Len(result[n]) : Handed(result[n][k])

IndInv == Types /\ (\A n \in Nodes : Place(n)) /\ Traffic /\ Agreement

-----------------------------------------------------------------------------
(* Queues and the operations they carry.                                   *)

\* The message sent for the next operation goes to the end of the queue.
LEMMA CarriesSend ==
  ASSUME NEW S, NEW ks \in SUBSET Nat, NEW q \in Seq(S), NEW lo \in Int, NEW hi \in Int,
         NEW m \in S, Carries(ks, q, lo, hi), hi + 1 \in ks, m.op = hi + 1
  PROVE  Carries(ks, Append(q, m), lo, hi + 1)
<1> DEFINE a == Append(q, m)
<1>1. /\ Len(q) \in Nat /\ Len(a) = Len(q) + 1
      /\ \A j \in 1 .. Len(q) : a[j] = q[j]
      /\ a[Len(q) + 1] = m
  OBVIOUS
<1>2. \A j \in 1 .. Len(q) : q[j].op \in ks /\ lo < q[j].op /\ q[j].op <= hi
  BY DEF Carries
<1>3. ~(hi + 1 <= lo)
  BY DEF Carries
<1> HIDE DEF a
<1>4. \A j \in 1 .. Len(a) : a[j].op \in ks /\ lo < a[j].op /\ a[j].op <= hi + 1
  <2> SUFFICES ASSUME NEW j \in 1 .. Len(a)
               PROVE  a[j].op \in ks /\ lo < a[j].op /\ a[j].op <= hi + 1
    OBVIOUS
  <2>1. CASE j \in 1 .. Len(q)
    <3>1. q[j].op \in Nat /\ a[j] = q[j]
      BY <1>1, <1>2, <2>1, Zenon
    <3> QED BY <1>2, <2>1, <3>1
  <2>2. CASE j = Len(q) + 1
    BY <1>1, <1>3, <2>2
  <2> QED BY <1>1, <2>1, <2>2
<1>5. \A j, l \in 1 .. Len(a) : j < l => a[j].op < a[l].op
  <2> SUFFICES ASSUME NEW j \in 1 .. Len(a), NEW l \in 1 .. Len(a), j < l
               PROVE  a[j].op < a[l].op
    OBVIOUS
  <2>1. j \in 1 .. Len(q)
    BY <1>1
  <2>2. CASE l \in 1 .. Len(q)
    BY <1>1, <2>1, <2>2, Zenon DEF Carries
  <2>3. CASE l = Len(q) + 1
    <3>1. q[j].op \in Nat /\ q[j].op <= hi
      BY <1>2, <2>1, Zenon
    <3>2. a[j].op = q[j].op /\ a[l].op = hi + 1
      BY <1>1, <2>1, <2>3
    <3> QED BY <3>1, <3>2
  <2> QED BY <1>1, <2>2, <2>3
<1>6. \A k \in ks : lo < k /\ k <= hi + 1 => \E j \in 1 .. Len(a) : a[j].op = k
  <2> SUFFICES ASSUME NEW k \in ks, lo < k, k <= hi + 1
               PROVE  \E j \in 1 .. Len(a) : a[j].op = k
    OBVIOUS
  <2>1. CASE k = hi + 1
    BY <1>1, <2>1
  <2>2. CASE k <= hi
    <3>1. PICK j \in 1 .. Len(q) : q[j].op = k
      BY <2>2 DEF Carries
    <3> QED BY <1>1, <3>1
  <2>3. k \in Nat
    OBVIOUS
  <2> QED BY <2>1, <2>2, <2>3
<1>7. \A k \in ks : k <= lo => k <= hi + 1
  BY DEF Carries
<1> QED BY <1>4, <1>5, <1>6, <1>7, Zenon DEF Carries, a

\* The receiver finds the message of its next operation at the head of the queue.
LEMMA CarriesRecv ==
  ASSUME NEW S, NEW ks \in SUBSET Nat, NEW q \in Seq(S), NEW lo \in Int, NEW hi \in Int,
         Carries(ks, q, lo, hi), lo + 1 \in ks, q # <<>>
  PROVE  Head(q).op = lo + 1 /\ Carries(ks, Tail(q), lo + 1, hi)
<1> DEFINE t == Tail(q)
<1>1. /\ Len(q) \in Nat \ {0} /\ Head(q) = q[1] /\ Len(t) = Len(q) - 1
      /\ \A j \in 1 .. Len(t) : t[j] = q[j + 1]
  OBVIOUS
<1>2. \A j \in 1 .. Len(q) : q[j].op \in ks /\ lo < q[j].op /\ q[j].op <= hi
  BY DEF Carries
<1>3. \A j, l \in 1 .. Len(q) : j < l => q[j].op < q[l].op
  BY DEF Carries
<1>4. q[1].op = lo + 1
  <2>1. 1 \in 1 .. Len(q)
    BY <1>1
  <2>2. q[1].op \in Nat /\ lo < q[1].op /\ q[1].op <= hi
    BY <1>2, <2>1, Zenon
  <2>3. PICK j \in 1 .. Len(q) : q[j].op = lo + 1
    BY <2>2 DEF Carries
  <2>4. CASE j = 1
    BY <2>3, <2>4
  <2>5. CASE 1 < j
    BY <1>3, <2>1, <2>2, <2>3, <2>5
  <2> QED BY <2>4, <2>5
<1> HIDE DEF t
<1>5. \A j \in 1 .. Len(t) : t[j].op \in ks /\ lo + 1 < t[j].op /\ t[j].op <= hi
  <2> SUFFICES ASSUME NEW j \in 1 .. Len(t)
               PROVE  t[j].op \in ks /\ lo + 1 < t[j].op /\ t[j].op <= hi
    OBVIOUS
  <2>1. j + 1 \in 1 .. Len(q) /\ 1 \in 1 .. Len(q) /\ t[j] = q[j + 1]
    BY <1>1
  <2>2. q[1].op < q[j + 1].op
    BY <1>1, <1>3, <2>1
  <2> QED BY <1>2, <1>4, <2>1, <2>2
<1>6. \A j, l \in 1 .. Len(t) : j < l => t[j].op < t[l].op
  <2> SUFFICES ASSUME NEW j \in 1 .. Len(t), NEW l \in 1 .. Len(t), j < l
               PROVE  t[j].op < t[l].op
    OBVIOUS
  <2>1. j + 1 \in 1 .. Len(q) /\ l + 1 \in 1 .. Len(q) /\ j + 1 < l + 1
    BY <1>1
  <2> QED BY <1>1, <1>3, <2>1, Zenon
<1>7. \A k \in ks : lo + 1 < k /\ k <= hi => \E j \in 1 .. Len(t) : t[j].op = k
  <2> SUFFICES ASSUME NEW k \in ks, lo + 1 < k, k <= hi
               PROVE  \E j \in 1 .. Len(t) : t[j].op = k
    OBVIOUS
  <2>1. PICK j \in 1 .. Len(q) : q[j].op = k
    BY DEF Carries
  <2>2. j # 1
    BY <1>4, <2>1
  <2>3. j - 1 \in 1 .. Len(t) /\ t[j - 1] = q[j]
    BY <1>1, <2>2
  <2> QED BY <2>1, <2>3, Zenon
<1>8. \A k \in ks : k <= lo + 1 => k <= hi
  <2> SUFFICES ASSUME NEW k \in ks, k <= lo + 1 PROVE k <= hi
    OBVIOUS
  <2>1. CASE k <= lo
    BY <2>1 DEF Carries
  <2>2. CASE k = lo + 1
    BY <1>1, <1>2, <1>4, <2>2
  <2> QED BY <2>1, <2>2
<1> QED BY <1>1, <1>4, <1>5, <1>6, <1>7, <1>8 DEF Carries, t

\* One end of a queue moves on from operation x to y, if at all over an operation
\* that sends nothing this way.
Skip(ks, x, y) == y = x \/ (y = x + 1 /\ y \notin ks)

\* An operation that sends nothing this way makes no difference to the queue.
LEMMA CarriesSkip ==
  ASSUME NEW ks \in SUBSET Nat, NEW q, NEW lo \in Int, NEW hi \in Int, NEW l, NEW h,
         Carries(ks, q, lo, hi), Skip(ks, lo, l), Skip(ks, hi, h)
  PROVE  Carries(ks, q, l, h)
<1>1. \A k \in ks : k <= h <=> k <= hi
  BY DEF Skip
<1>2. \A k \in ks : (k <= l <=> k <= lo) /\ (l < k <=> lo < k)
  BY DEF Skip
<1> QED BY <1>1, <1>2, Zenon DEF Carries

-----------------------------------------------------------------------------
(* The tree and the constants.                                             *)

\* The constants, in plain arithmetic, and what they make of types.
LEMMA Constants ==
  /\ NumNodes \in Nat \ {0} /\ Capacity \in Nat \ {0} /\ MaxOps \in Nat
  /\ Nodes \subseteq Nat /\ NoNode \notin Nodes
  /\ UpOps \in SUBSET Nat /\ DownOps \in SUBSET Nat
  /\ NoMsg \notin Message
BY CollectivesAssumption DEF Nodes, NoNode, UpOps, DownOps, NoMsg, Message

\* There is one root.
LEMMA RootFacts ==
  ASSUME tree \in Trees
  PROVE  Root \in Nodes /\ \A n \in Nodes : IsRoot(n) <=> n = Root
<1>1. PICK r \in Nodes : \A n \in Nodes : tree.parent[n] = NoNode <=> n = r
  BY CollectivesAssumption DEF IsTree
<1>2. \E n \in Nodes : IsRoot(n)
  BY <1>1 DEF IsRoot
<1>3. Root \in Nodes /\ IsRoot(Root)
  BY <1>2 DEF Root
<1> QED BY <1>1, <1>3 DEF IsRoot

\* The two ends of a link, seen from above and from below.
LEMMA LinkFacts ==
  ASSUME tree \in Trees
  PROVE  /\ \A n \in Nodes : Len(tree.children[n]) \in Nat
         /\ \A n \in Nodes : \A i \in Children(n) :
              /\ i \in Nat \ {0}
              /\ tree.children[n][i] \in Nodes /\ ~IsRoot(tree.children[n][i])
              /\ tree.parent[tree.children[n][i]] = n
              /\ Position(tree.children[n][i]) = i
         /\ \A n \in Nodes : ~IsRoot(n) =>
              /\ tree.parent[n] \in Nodes
              /\ Position(n) \in Children(tree.parent[n])
              /\ tree.children[tree.parent[n]][Position(n)] = n
<1>1. /\ tree.parent \in [Nodes -> Nodes \cup {NoNode}]
      /\ tree.index \in [Nodes -> Nat]
      /\ tree.children \in [Nodes -> Seq(Nodes)]
      /\ LinksAgree(tree)
  BY CollectivesAssumption DEF IsTree
<1>2. ASSUME NEW n \in Nodes
      PROVE  Len(tree.children[n]) \in Nat /\ DOMAIN tree.children[n] = Children(n)
  BY <1>1 DEF Children
<1>3. ASSUME NEW n \in Nodes, NEW i \in Children(n)
      PROVE  /\ i \in Nat \ {0}
             /\ tree.children[n][i] \in Nodes /\ ~IsRoot(tree.children[n][i])
             /\ tree.parent[tree.children[n][i]] = n
             /\ Position(tree.children[n][i]) = i
  <2>1. i \in Nat \ {0}
    BY <1>2 DEF Children
  <2>2. /\ tree.children[n][i] \in Nodes
        /\ tree.parent[tree.children[n][i]] = n
        /\ tree.index[tree.children[n][i]] = i - 1
    BY <1>1, <1>2, Zenon DEF LinksAgree
  <2> QED BY <2>1, <2>2, Constants DEF IsRoot, Position
<1>4. ASSUME NEW n \in Nodes, ~IsRoot(n)
      PROVE  /\ tree.parent[n] \in Nodes
             /\ Position(n) \in Children(tree.parent[n])
             /\ tree.children[tree.parent[n]][Position(n)] = n
  <2>1. tree.parent[n] \in Nodes
    BY <1>1, <1>4 DEF IsRoot
  <2>2. /\ tree.index[n] + 1 \in DOMAIN tree.children[tree.parent[n]]
        /\ tree.children[tree.parent[n]][tree.index[n] + 1] = n
    BY <1>1, <1>4, Zenon DEF LinksAgree, IsRoot
  <2> QED BY <1>2, <2>1, <2>2 DEF Position
<1> QED BY <1>2, <1>3, <1>4

\* The types of the variables of a node, as far as its place in an operation goes.
LEMMA NodeTypes ==
  ASSUME Types
  PROVE  /\ tree \in Trees
         /\ \A n \in Nodes : /\ count[n] \in Nat /\ count[n] <= MaxOps
                             /\ idx[n] \in Nat /\ idx[n] > 0
                             /\ pc[n] \in {"out", "collect", "recv", "down", "return"}
<1>1. tree \in Trees
  BY DEF Types
<1>2. \A n \in Nodes : count[n] \in Nat /\ count[n] <= MaxOps
  BY Constants DEF Types
<1>3. \A n \in Nodes : idx[n] \in Nat /\ idx[n] > 0
  BY DEF Types
<1>4. \A n \in Nodes : pc[n] \in {"out", "collect", "recv", "down", "return"}
  BY DEF Types
<1> QED BY <1>1, <1>2, <1>3, <1>4

\* The types of what a node has in hand.
LEMMA MessageTypes ==
  ASSUME Types
  PROVE  \A n \in Nodes : /\ msg[n] \in Message \cup {NoMsg}
                         /\ result[n] \in Seq(Message) /\ Len(result[n]) \in Nat
<1>1. \A n \in Nodes : msg[n] \in Message \cup {NoMsg}
  BY DEF Types
<1>2. \A n \in Nodes : result[n] \in Seq(Message)
  BY DEF Types
<1>3. \A n \in Nodes : Len(result[n]) \in Nat
  BY <1>2
<1> QED BY <1>1, <1>2, <1>3

\* The types of the queues of a link.
LEMMA QueueTypes ==
  ASSUME Types
  PROVE  \A n \in Nodes : \A i \in Children(n) :
           /\ down[n][i] \in Seq(Message) /\ Len(down[n][i]) <= Capacity
           /\ up[n][i] \in Seq(Message) /\ Len(up[n][i]) <= Capacity
<1>1. Queues(down) /\ Queues(up)
  BY DEF Types
<1> QED BY <1>1 DEF Queues

\* A message that fits leaves the queue within its capacity.
LEMMA FitsAppend ==
  ASSUME NEW q \in Seq(Message), Fits(q), NEW m \in Message
  PROVE  Append(q, m) \in Seq(Message) /\ Len(Append(q, m)) <= Capacity
<1>1. Len(q) \in Nat /\ Len(q) < Capacity /\ Capacity \in Nat
  BY Constants DEF Fits
<1>2. Append(q, m) \in Seq(Message) /\ Len(Append(q, m)) = Len(q) + 1
  OBVIOUS
<1> QED BY <1>1, <1>2

\* So does taking one.
LEMMA FitsTail ==
  ASSUME NEW q \in Seq(Message), q # <<>>, Len(q) <= Capacity
  PROVE  Tail(q) \in Seq(Message) /\ Len(Tail(q)) <= Capacity
<1>1. Len(q) \in Nat /\ Capacity \in Nat
  BY Constants
<1>2. Tail(q) \in Seq(Message) /\ Len(Tail(q)) = Len(q) - 1
  OBVIOUS
<1> QED BY <1>1, <1>2

\* queue b of node a becomes v
Put(f, a, b, v) == [f EXCEPT ![a][b] = v]

\* f and g differ in queue b of node a at most
Elsewhere(f, g, a, b) ==
  \A n \in Nodes : \A i \in Children(n) : n # a \/ i # b => g[n][i] = f[n][i]

\* A change to one queue leaves the others alone.
LEMMA QueueUpdate ==
  ASSUME NEW f, Queues(f), NEW a \in Nodes, NEW b \in Children(a),
         NEW v \in Seq(Message), Len(v) <= Capacity
  PROVE  /\ Queues(Put(f, a, b, v))
         /\ Put(f, a, b, v)[a][b] = v
         /\ Elsewhere(f, Put(f, a, b, v), a, b)
<1> DEFINE g == Put(f, a, b, v)
<1>1. f = [n \in Nodes |-> f[n]] /\ f[a] \in [Children(a) -> Seq(Message)]
  BY DEF Queues
<1>2. /\ \A n \in Nodes : n # a => g[n] = f[n]
      /\ g[a] = [f[a] EXCEPT ![b] = v]
      /\ g = [n \in Nodes |-> g[n]]
  BY <1>1, Zenon DEF Put
<1> HIDE DEF g
<1>3. g[a] \in [Children(a) -> Seq(Message)] /\ g[a][b] = v
  BY <1>1, <1>2
<1>4. \A n \in Nodes : \A i \in Children(n) : (n # a \/ i # b) => g[n][i] = f[n][i]
  BY <1>1, <1>2, Zenon
<1>5. \A n \in Nodes : g[n] \in [Children(n) -> Seq(Message)]
  BY <1>2, <1>3, Zenon DEF Queues
<1>6. \A n \in Nodes : \A i \in Children(n) : Len(g[n][i]) <= Capacity
  BY <1>3, <1>4, Zenon DEF Queues
<1> QED BY <1>2, <1>3, <1>4, <1>5, <1>6, Zenon DEF Queues, Elsewhere, g

-----------------------------------------------------------------------------
(* What a step of one node leaves alone.                                   *)

\* Only node n moves.
OnlyNode(n) ==
  /\ tree' = tree /\ program' = program
  /\ \A m \in Nodes \ {n} :
       /\ count'[m] = count[m] /\ pc'[m] = pc[m] /\ idx'[m] = idx[m]
       /\ got'[m] = got[m] /\ msg'[m] = msg[m] /\ result'[m] = result[m]

\* A step of a node changes nothing of the others but the queues.
LEMMA OnlyOne ==
  ASSUME Types, NEW n \in Nodes, Call(n) \/ Step(n)
  PROVE  OnlyNode(n)
<1> USE DEF Types, OnlyNode
<1>1. CASE Call(n)
  BY <1>1 DEF Call
<1>2. CASE Poll(n)
  BY <1>2 DEF Poll
<1>3. CASE SendUp(n)
  BY <1>3, Zenon DEF SendUp
<1>4. CASE RecvDown(n)
  BY <1>4 DEF RecvDown
<1>5. CASE SendDown(n)
  BY <1>5 DEF SendDown
<1>6. CASE Return(n)
  BY <1>6 DEF Return
<1> QED BY <1>1, <1>2, <1>3, <1>4, <1>5, <1>6 DEF Step

\* Nor does it change the tree or the program, or what is derived from them.
LEMMA Fixed ==
  ASSUME tree' = tree, program' = program
  PROVE  /\ UpOps' = UpOps /\ DownOps' = DownOps /\ Root' = Root
         /\ \A m : Children(m)' = Children(m) /\ IsRoot(m)' = IsRoot(m)
BY DEF UpOps, DownOps, Root, Children, IsRoot

\* The others stay in their places.
LEMMA PlaceFrame ==
  ASSUME NEW n \in Nodes, OnlyNode(n), \A m \in Nodes : Place(m), Place(n)'
  PROVE  \A m \in Nodes : Place(m)'
<1> SUFFICES ASSUME NEW m \in Nodes \ {n} PROVE Place(m)'
  OBVIOUS
<1>1. /\ count'[m] = count[m] /\ pc'[m] = pc[m] /\ idx'[m] = idx[m] /\ got'[m] = got[m]
      /\ msg'[m] = msg[m] /\ result'[m] = result[m] /\ tree' = tree /\ program' = program
  BY Zenon DEF OnlyNode
<1>2. /\ UpOps' = UpOps /\ DownOps' = DownOps /\ Children(m)' = Children(m)
      /\ IsRoot(m)' = IsRoot(m) /\ Op(m)' = Op(m)
  BY <1>1, Fixed, Zenon DEF Op
<1>3. Place(m)
  OBVIOUS
<1> QED BY <1>1, <1>2, <1>3, Zenon DEF Place

\* The counts at the ends of a link are integers, and those of the others stay.
LEMMA Ends ==
  ASSUME Types, Types'
  PROVE  /\ \A m \in Nodes : /\ SentUp(m) \in Int /\ SentUp(m)' \in Int
                             /\ RecvdDown(m) \in Int /\ RecvdDown(m)' \in Int
         /\ \A m \in Nodes : \A i : /\ RecvdUp(m, i) \in Int /\ RecvdUp(m, i)' \in Int
                                    /\ SentDown(m, i) \in Int /\ SentDown(m, i)' \in Int
         /\ \A n \in Nodes : OnlyNode(n) => \A m \in Nodes \ {n} :
              /\ SentUp(m)' = SentUp(m) /\ RecvdDown(m)' = RecvdDown(m)
              /\ \A i : RecvdUp(m, i)' = RecvdUp(m, i) /\ SentDown(m, i)' = SentDown(m, i)
<1>1. \A m \in Nodes : count[m] \in Int /\ count'[m] \in Int
  BY DEF Types
<1>2. ASSUME NEW n \in Nodes, OnlyNode(n), NEW m \in Nodes \ {n}
      PROVE  /\ SentUp(m)' = SentUp(m) /\ RecvdDown(m)' = RecvdDown(m)
             /\ \A i : RecvdUp(m, i)' = RecvdUp(m, i) /\ SentDown(m, i)' = SentDown(m, i)
  BY <1>2 DEF OnlyNode, SentUp, RecvdUp, RecvdDown, SentDown
<1>3. \A m \in Nodes : /\ SentUp(m) \in Int /\ SentUp(m)' \in Int
                       /\ RecvdDown(m) \in Int /\ RecvdDown(m)' \in Int
  BY <1>1 DEF SentUp, RecvdDown
<1>4. \A m \in Nodes : \A i : /\ RecvdUp(m, i) \in Int /\ RecvdUp(m, i)' \in Int
                              /\ SentDown(m, i) \in Int /\ SentDown(m, i)' \in Int
  BY <1>1 DEF RecvdUp, SentDown
<1> QED BY <1>2, <1>3, <1>4

\* A queue up that is left alone still carries what it should, if node n, the only
\* one to move, has at most skipped an operation.
LEMMA UpFrame ==
  ASSUME Types, Types', Traffic, NEW n \in Nodes, OnlyNode(n),
         NEW p \in Nodes, NEW i \in Children(p), up'[p][i] = up[p][i],
         tree.children[p][i] = n => Skip(UpOps, SentUp(n), SentUp(n)'),
         p = n => Skip(UpOps, RecvdUp(n, i), RecvdUp(n, i)')
  PROVE  Carries(UpOps, up'[p][i], RecvdUp(p, i)', SentUp(tree.children[p][i])')
<1>1. PICK c \in Nodes : c = tree.children[p][i]
  BY LinkFacts, NodeTypes
<1>2. Carries(UpOps, up[p][i], RecvdUp(p, i), SentUp(c)) /\ tree' = tree
  BY <1>1 DEF Traffic, OnlyNode
<1>3. RecvdUp(p, i) \in Int /\ Skip(UpOps, RecvdUp(p, i), RecvdUp(p, i)')
  <2>1. CASE p = n
    BY <1>1, <2>1, Ends
  <2>2. CASE p # n
    BY <2>2, Ends DEF Skip
  <2> QED BY <2>1, <2>2
<1>4. SentUp(c) \in Int /\ Skip(UpOps, SentUp(c), SentUp(c)')
  <2>1. CASE c = n
    BY <1>1, <2>1, Ends
  <2>2. CASE c # n
    BY <2>2, Ends DEF Skip
  <2> QED BY <2>1, <2>2
<1>5. Carries(UpOps, up[p][i], RecvdUp(p, i)', SentUp(c)')
  BY <1>2, <1>3, <1>4, Constants, CarriesSkip
<1> QED BY <1>1, <1>2, <1>5

\* The same for a queue down.
LEMMA DownFrame ==
  ASSUME Types, Types', Traffic, NEW n \in Nodes, OnlyNode(n),
         NEW p \in Nodes, NEW i \in Children(p), down'[p][i] = down[p][i],
         tree.children[p][i] = n => Skip(DownOps, RecvdDown(n), RecvdDown(n)'),
         p = n => Skip(DownOps, SentDown(n, i), SentDown(n, i)')
  PROVE  Carries(DownOps, down'[p][i], RecvdDown(tree.children[p][i])', SentDown(p, i)')
<1>1. PICK c \in Nodes : c = tree.children[p][i]
  BY LinkFacts, NodeTypes
<1>2. Carries(DownOps, down[p][i], RecvdDown(c), SentDown(p, i)) /\ tree' = tree
  BY <1>1 DEF Traffic, OnlyNode
<1>3. RecvdDown(c) \in Int /\ Skip(DownOps, RecvdDown(c), RecvdDown(c)')
  <2>1. CASE c = n
    BY <1>1, <2>1, Ends
  <2>2. CASE c # n
    BY <2>2, Ends DEF Skip
  <2> QED BY <2>1, <2>2
<1>4. SentDown(p, i) \in Int /\ Skip(DownOps, SentDown(p, i), SentDown(p, i)')
  <2>1. CASE p = n
    BY <1>1, <2>1, Ends
  <2>2. CASE p # n
    BY <2>2, Ends DEF Skip
  <2> QED BY <2>1, <2>2
<1>5. Carries(DownOps, down[p][i], RecvdDown(c)', SentDown(p, i)')
  BY <1>2, <1>3, <1>4, Constants, CarriesSkip, Zenon
<1> QED BY <1>1, <1>2, <1>5

\* What the root has for an operation is not taken back.
LEMMA HandedStays ==
  ASSUME Types, \A m \in Nodes : Place(m), NEW n \in Nodes, Call(n) \/ Step(n)
  PROVE  \A m : Handed(m) => Handed(m)'
<1>1. OnlyNode(n) /\ Root \in Nodes /\ Root' = Root /\ program' = program
  BY OnlyOne, RootFacts, Fixed, Zenon DEF OnlyNode, Types
<1> SUFFICES ASSUME NEW m, OfRoot(m) PROVE OfRoot(m)'
  BY <1>1 DEF Handed
<1>2. /\ result[Root] \in Seq(Message) /\ Len(result[Root]) \in Nat
      /\ count[Root] \in Nat /\ msg[Root] \in Message \cup {NoMsg}
  BY <1>1 DEF Types
<1>3. CASE n # Root
  BY <1>1, <1>3 DEF OnlyNode, OfRoot
<1>4. CASE n = Root /\ Return(n)
  <2>1. result'[Root] = Append(result[Root], msg[Root])
    BY <1>1, <1>4 DEF Return, Types
  <2>2. CASE m.op \in 1 .. Len(result[Root]) /\ result[Root][m.op] = m
    BY <1>1, <1>2, <2>1, <2>2 DEF OfRoot
  <2>3. CASE m.op = count[Root] /\ pc[Root] = "down" /\ msg[Root] = m
    <3>1. Len(result[Root]) + 1 = m.op /\ m \in Message
      BY <1>1, <1>2, <2>3 DEF Place
    <3>2. m.op \in 1 .. Len(result'[Root]) /\ result'[Root][m.op] = m
      BY <2>1, <2>3, <3>1
    <3> QED BY <1>1, <3>2 DEF OfRoot
  <2> QED BY <2>2, <2>3 DEF OfRoot
<1>5. CASE n = Root /\ (Call(n) \/ Poll(n) \/ SendUp(n) \/ RecvDown(n) \/ SendDown(n))
  <2>1. result' = result
    BY <1>5, Zenon DEF Call, Poll, SendUp, RecvDown, SendDown
  <2>2. pc[Root] = "down" => count' = count /\ pc' = pc /\ msg' = msg
    BY <1>5, Zenon DEF Call, Poll, SendUp, RecvDown, SendDown
  <2> QED BY <1>1, <2>1, <2>2 DEF OfRoot
<1> QED BY <1>3, <1>4, <1>5 DEF Step

\* Every link by itself.
LEMMA TrafficFrom ==
  ASSUME tree' = tree, program' = program,
         \A p \in Nodes : \A i \in Children(p) :
           /\ Carries(UpOps, up'[p][i], RecvdUp(p, i)', SentUp(tree.children[p][i])')
           /\ Carries(DownOps, down'[p][i], RecvdDown(tree.children[p][i])', SentDown(p, i)')
  PROVE  Traffic'
BY Fixed DEF Traffic

\* Every message by itself.
LEMMA AgreementFrom ==
  ASSUME Agreement, NEW n \in Nodes, OnlyNode(n), \A m : Handed(m) => Handed(m)',
         \A p \in Nodes : \A i \in Children(p) : \A j \in 1 .. Len(down'[p][i]) :
           Handed(down'[p][i][j]),
         pc'[n] = "down" => Handed(msg[n])',
         \A k \in 1 .. Len(result'[n]) : Handed(result'[n][k])
  PROVE  Agreement'
<1> SUFFICES ASSUME NEW p \in Nodes
             PROVE  /\ \A i \in Children(p) : \A j \in 1 .. Len(down'[p][i]) :
                         Handed(down[p][i][j])'
                    /\ pc'[p] = "down" => Handed(msg[p])'
                    /\ \A k \in 1 .. Len(result'[p]) : Handed(result[p][k])'
  BY Fixed DEF Agreement, OnlyNode
<1>1. \A i \in Children(p) : \A j \in 1 .. Len(down'[p][i]) : Handed(down[p][i][j])'
  OBVIOUS
<1>2. CASE p = n
  BY <1>1, <1>2
<1>3. CASE p # n
  <2>1. pc'[p] = pc[p] /\ msg'[p] = msg[p] /\ result'[p] = result[p]
    BY <1>3 DEF OnlyNode
  <2>2. pc'[p] = "down" => Handed(msg'[p])
    BY <2>1, Zenon DEF Agreement
  <2>3. \A k \in 1 .. Len(result'[p]) : Handed(result'[p][k])
    BY <2>1 DEF Agreement
  <2> QED BY <1>1, <2>2, <2>3
<1> QED BY <1>2, <1>3

-----------------------------------------------------------------------------
(* The steps of a node.                                                    *)

\* An operation begins: one that sends nothing up the tree, a broadcast, is skipped
\* at both ends of the queues up.
LEMMA CallInv ==
  ASSUME IndInv, NEW n \in Nodes, Call(n)
  PROVE  IndInv'
<1> DEFINE k == count[n] + 1
           bc == program[k] = "broadcast"
<1>1. Types /\ (\A m \in Nodes : Place(m)) /\ Traffic /\ Agreement /\ OnlyNode(n)
  BY OnlyOne DEF IndInv
<1>2. tree' = tree /\ program' = program /\ down' = down /\ up' = up /\ result' = result
  BY DEF Call
<1>3. /\ count[n] \in Nat /\ k \in 1 .. MaxOps /\ pc[n] = "out" /\ program[k] \in Ops
  BY <1>1 DEF Call, Types
<1>4. /\ count'[n] = k /\ idx'[n] = 1 /\ got'[n] = {}
      /\ pc'[n] = IF bc THEN BroadcastStart(n) ELSE "collect"
      /\ msg'[n] = IF bc /\ ~IsRoot(n) THEN NoMsg ELSE Input(n, k)
  BY <1>1 DEF Call, Types
<1>5. /\ Input(n, k) \in Message /\ Input(n, k).op = k
      /\ bc => Input(n, k).inputs = {Root}
  <2>1. Root \in Nodes
    BY <1>1, RootFacts DEF Types
  <2> QED BY <1>3, <2>1 DEF Input, Message
<1> HIDE DEF k
<1>6. Types'
  <2>1. Queues(down)' /\ Queues(up)'
    BY <1>1, <1>2 DEF Types, Queues, Children
  <2>2. count' \in [Nodes -> 0 .. MaxOps] /\ idx' \in [Nodes -> Nat \ {0}]
    BY <1>1, <1>3 DEF Call, Types, k
  <2>3. pc' \in [Nodes -> {"out", "collect", "recv", "down", "return"}]
    BY <1>1 DEF Call, Types, BroadcastStart
  <2>4. got' \in [Nodes -> SUBSET Nat]
    BY <1>1 DEF Call, Types
  <2>5. msg' \in [Nodes -> Message \cup {NoMsg}]
    BY <1>1, <1>5, Zenon DEF Call, Types, k
  <2> QED BY <1>1, <1>2, <2>1, <2>2, <2>3, <2>4, <2>5, Zenon DEF Types
<1>7. Place(n)'
  <2>1. Len(tree.children[n]) \in Nat /\ Len(result[n]) = count[n]
    BY <1>1, <1>3, LinkFacts, Zenon, NodeTypes DEF Place
  <2>2. count'[n] \in UpOps <=> ~bc
    BY <1>3, <1>4 DEF UpOps
  <2>3. bc => count'[n] \in DownOps
    BY <1>3, <1>4 DEF DownOps
  <2>4. /\ UpOps' = UpOps /\ DownOps' = DownOps
        /\ Children(n)' = Children(n) /\ IsRoot(n)' = IsRoot(n)
    BY <1>2, Fixed
  <2>5. Children(n) # {} => 1 \in Children(n)
    BY <2>1 DEF Children
  <2>6. \A j \in 1 .. Len(result[n]) : result[n][j].op = j
    BY <1>1 DEF Place
  <2> QED BY <1>2, <1>4, <1>5, <2>1, <2>2, <2>3, <2>4, <2>5, <2>6 DEF Place,
     BroadcastStart, k
<1>8. \A m \in Nodes : Place(m)'
  BY <1>1, <1>7, PlaceFrame
<1>9. Traffic'
  <2>1. Skip(UpOps, SentUp(n), SentUp(n)')
    BY <1>3, <1>4 DEF SentUp, Skip, UpOps, BroadcastStart, k
  <2>2. \A i : Skip(UpOps, RecvdUp(n, i), RecvdUp(n, i)')
    BY <1>3, <1>4 DEF RecvdUp, Skip, UpOps, BroadcastStart, k
  <2>3. ~IsRoot(n) => Skip(DownOps, RecvdDown(n), RecvdDown(n)')
    BY <1>3, <1>4 DEF RecvdDown, Skip, BroadcastStart, k
  <2>4. \A i \in Children(n) : Skip(DownOps, SentDown(n, i), SentDown(n, i)')
    <3> SUFFICES ASSUME NEW i \in Children(n)
                 PROVE  Skip(DownOps, SentDown(n, i), SentDown(n, i)')
      OBVIOUS
    <3>1. i \in Nat \ {0}
      BY <1>1, LinkFacts DEF Types
    <3> QED BY <1>3, <1>4, <3>1 DEF SentDown, Skip, BroadcastStart, k
  <2>5. ASSUME NEW p \in Nodes, NEW i \in Children(p)
        PROVE  /\ Carries(UpOps, up'[p][i], RecvdUp(p, i)', SentUp(tree.children[p][i])')
               /\ Carries(DownOps, down'[p][i], RecvdDown(tree.children[p][i])', SentDown(p, i)')
    <3>1. ~IsRoot(tree.children[p][i])
      BY <1>1, LinkFacts DEF Types
    <3>2. Carries(UpOps, up'[p][i], RecvdUp(p, i)', SentUp(tree.children[p][i])')
      BY <1>1, <1>2, <1>6, <2>1, <2>2, UpFrame
    <3>3. Carries(DownOps, down'[p][i], RecvdDown(tree.children[p][i])', SentDown(p, i)')
      BY <1>1, <1>2, <1>6, <2>3, <2>4, <3>1, DownFrame, Zenon
    <3> QED BY <3>2, <3>3
  <2> QED BY <1>2, <2>5, TrafficFrom, Zenon
<1>10. Agreement'
  <2>1. \A m : Handed(m) => Handed(m)'
    BY <1>1, HandedStays
  <2>2. pc'[n] = "down" => Handed(msg[n])'
    <3>1. Root' = Root
      BY <1>2, Fixed
    <3> QED BY <1>2, <1>4, <1>5, <3>1 DEF Handed, BroadcastStart
  <2> QED BY <1>1, <1>2, <2>1, <2>2, AgreementFrom DEF Agreement
<1> QED BY <1>6, <1>8, <1>9, <1>10 DEF IndInv

\* A turn of the polling loop: what is taken from a child is the message of this
\* operation.
LEMMA PollInv ==
  ASSUME IndInv, NEW n \in Nodes, Poll(n)
  PROVE  IndInv'
<1>1. Types /\ (\A m \in Nodes : Place(m)) /\ Traffic /\ Agreement /\ OnlyNode(n)
  BY OnlyOne DEF IndInv, Step
<1>2. /\ tree' = tree /\ program' = program /\ down' = down /\ result' = result
      /\ count' = count /\ pc' = pc
  BY DEF Poll
<1>3. /\ pc[n] = "collect" /\ count[n] \in Nat /\ count[n] \in UpOps
      /\ idx[n] \in Children(n) /\ Len(tree.children[n]) \in Nat
      /\ got[n] \subseteq Children(n) /\ msg[n] \in Message /\ msg[n].op = count[n]
  <2>1. count[n] \in Nat /\ Len(tree.children[n]) \in Nat
    BY <1>1, Constants, LinkFacts DEF Types
  <2>2. pc[n] = "collect" /\ got[n] # Children(n) /\ Place(n)
    BY <1>1 DEF Poll
  <2> QED BY <2>1, <2>2, Zenon DEF Place
<1> PICK i \in Children(n) : i = idx[n]
  BY <1>3
<1> DEFINE takes == i \notin got[n] /\ up[n][i] # <<>>
<1>4. PICK c \in Nodes : c = tree.children[n][i]
  BY <1>1, <1>3, LinkFacts, Zenon, NodeTypes
<1>5. up[n][i] \in Seq(Message) /\ Len(up[n][i]) <= Capacity /\ Queues(up)
  BY <1>1 DEF Types, Queues
<1>6. /\ idx'[n] = NextChild(n)
      /\ takes => /\ msg'[n] = Received(n, Head(up[n][i]))
                  /\ up' = [up EXCEPT ![n][i] = Tail(up[n][i])]
                  /\ got'[n] = got[n] \cup {i}
      /\ ~takes => msg' = msg /\ up' = up /\ got' = got
  BY <1>1, Zenon DEF Poll, Types
<1>7. NextChild(n) \in Children(n) /\ NextChild(n) \in Nat \ {0}
  BY <1>3 DEF NextChild, Children
<1>8. takes => /\ Head(up[n][i]) \in Message /\ Head(up[n][i]).op = count[n]
               /\ Tail(up[n][i]) \in Seq(Message) /\ Len(Tail(up[n][i])) <= Capacity
               /\ Carries(UpOps, Tail(up[n][i]), count[n], SentUp(c))
  <2> SUFFICES ASSUME takes
               PROVE  /\ Head(up[n][i]) \in Message /\ Head(up[n][i]).op = count[n]
                      /\ Tail(up[n][i]) \in Seq(Message) /\ Len(Tail(up[n][i])) <= Capacity
                      /\ Carries(UpOps, Tail(up[n][i]), count[n], SentUp(c))
    OBVIOUS
  <2>1. PICK lo \in Int : lo = RecvdUp(n, i) /\ lo + 1 = count[n]
    BY <1>3 DEF RecvdUp
  <2>2. Carries(UpOps, up[n][i], lo, SentUp(c))
    BY <1>1, <1>4, <2>1, Zenon DEF Traffic
  <2>3. SentUp(c) \in Int
    BY <1>1, Constants, NodeTypes DEF SentUp
  <2>4. Head(up[n][i]).op = lo + 1 /\ Carries(UpOps, Tail(up[n][i]), lo + 1, SentUp(c))
    <3>1. UpOps \in SUBSET Nat /\ lo + 1 \in UpOps /\ up[n][i] # <<>>
      BY <1>3, <2>1, Constants
    <3>2. up[n][i] \in Seq(Message)
      BY <1>5
    <3> QED BY <2>2, <2>3, <3>1, <3>2, CarriesRecv, Zenon
  <2> QED BY <1>5, <2>1, <2>4, Constants
<1>9. /\ Queues(up')
      /\ takes => up'[n][i] = Tail(up[n][i])
      /\ \A p \in Nodes : \A j \in Children(p) :
           ~takes \/ p # n \/ j # i => up'[p][j] = up[p][j]
  <2>1. CASE takes
    <3>1. PICK v \in Seq(Message) : v = Tail(up[n][i]) /\ Len(v) <= Capacity
      BY <1>8, <2>1, Zenon
    <3>2. up' = Put(up, n, i, v) /\ Queues(up) /\ Len(v) <= Capacity
      BY <1>5, <1>6, <2>1, <3>1, Zenon DEF Put
    <3>3. Queues(up') /\ up'[n][i] = v /\ Elsewhere(up, up', n, i)
      BY <3>2, QueueUpdate
    <3> QED BY <2>1, <3>1, <3>3, Zenon DEF Elsewhere
  <2> QED BY <1>5, <1>6, <2>1, Zenon
<1>10. Types'
  <2>1. Queues(down)' /\ Queues(up)'
    BY <1>1, <1>2, <1>9, Zenon DEF Types, Queues, Children
  <2>2. idx' \in [Nodes -> Nat \ {0}]
    BY <1>1, <1>7, Zenon DEF Poll, Types
  <2>3. got' \in [Nodes -> SUBSET Nat]
    <3>1. i \in Nat
      BY <1>3 DEF Children
    <3>2. got[n] \cup {i} \in SUBSET Nat
      BY <1>1, <3>1 DEF Types
    <3>3. got' \in {got, [got EXCEPT ![n] = got[n] \cup {i}]}
      BY DEF Poll
    <3> QED BY <1>1, <3>2, <3>3, Zenon DEF Types
  <2>4. msg' \in [Nodes -> Message \cup {NoMsg}]
    BY <1>1, <1>8, Zenon DEF Poll, Types, Received
  <2> QED BY <1>1, <1>2, <2>1, <2>2, <2>3, <2>4, Zenon DEF Types
<1>11. Place(n)'
  <2>1. got'[n] \subseteq Children(n)
    BY <1>3, <1>6
  <2>2. msg'[n] \in Message /\ msg'[n].op = count[n]
    BY <1>3, <1>6, <1>8, Zenon DEF Received
  <2>3. idx'[n] \in Children(n) /\ idx'[n] <= Len(tree.children[n]) + 1
    BY <1>6, <1>7 DEF Children
  <2>4. UpOps' = UpOps /\ Children(n)' = Children(n)
    BY <1>2, Fixed
  <2> QED BY <1>1, <1>2, <1>3, <2>1, <2>2, <2>3, <2>4, Zenon DEF Place
<1>12. \A m \in Nodes : Place(m)'
  BY <1>1, <1>11, PlaceFrame
<1>13. Traffic'
  <2>1. /\ SentUp(n)' = SentUp(n) /\ RecvdDown(n)' = RecvdDown(n)
        /\ \A j : SentDown(n, j)' = SentDown(n, j)
    BY <1>2, <1>3 DEF SentUp, RecvdDown, SentDown
  <2>2. \A j : j # i \/ ~takes => RecvdUp(n, j)' = RecvdUp(n, j)
    BY <1>2, <1>6, Zenon DEF RecvdUp
  <2>3. takes => RecvdUp(n, i)' = count[n]
    BY <1>2, <1>6, Zenon DEF RecvdUp
  <2>4. \A m \in Nodes : SentUp(m)' = SentUp(m)
    BY <1>1, <1>10, <2>1, Ends
  <2>5. ASSUME NEW p \in Nodes, NEW j \in Children(p)
        PROVE  /\ Carries(UpOps, up'[p][j], RecvdUp(p, j)', SentUp(tree.children[p][j])')
               /\ Carries(DownOps, down'[p][j], RecvdDown(tree.children[p][j])', SentDown(p, j)')
    <3>1. CASE takes /\ p = n /\ j = i
      <4>1. up'[n][i] = Tail(up[n][i])
        BY <1>9, <3>1
      <4>2. SentUp(c)' = SentUp(c)
        BY <2>4
      <4> QED BY <1>1, <1>2, <1>4, <1>8, <1>10, <2>1, <2>3, <3>1, <4>1, <4>2, DownFrame,
         Zenon DEF Skip
    <3>2. CASE ~(takes /\ p = n /\ j = i)
      <4>1. up'[p][j] = up[p][j]
        BY <1>9, <3>2
      <4>2. Carries(UpOps, up'[p][j], RecvdUp(p, j)', SentUp(tree.children[p][j])')
        BY <1>1, <1>10, <2>1, <2>2, <3>2, <4>1, UpFrame DEF Skip
      <4> QED BY <1>1, <1>2, <1>10, <2>1, <4>2, DownFrame, Zenon DEF Skip
    <3> QED BY <3>1, <3>2, Zenon
  <2> QED BY <1>2, <2>5, TrafficFrom
<1>14. Agreement'
  <2>1. \A m : Handed(m) => Handed(m)'
    BY <1>1, HandedStays DEF Step
  <2>2. /\ \A p \in Nodes : \A l \in Children(p) : \A j \in 1 .. Len(down'[p][l]) :
             Handed(down'[p][l][j])
        /\ \A k \in 1 .. Len(result'[n]) : Handed(result'[n][k])
    BY <1>1, <1>2, Zenon DEF Agreement
  <2>3. pc'[n] # "down"
    BY <1>2, <1>3
  <2> QED BY <1>1, <2>1, <2>2, <2>3, AgreementFrom, Zenon
<1> QED BY <1>10, <1>12, <1>13, <1>14 DEF IndInv

\* All children have sent: the message goes to the parent, and what follows is the
\* broadcast or, for a reduction, which sends nothing down, the return.
LEMMA SendUpInv ==
  ASSUME IndInv, NEW n \in Nodes, SendUp(n)
  PROVE  IndInv'
<1>1. Types /\ (\A m \in Nodes : Place(m)) /\ Traffic /\ Agreement /\ OnlyNode(n)
  BY OnlyOne DEF IndInv, Step
<1>2. /\ tree' = tree /\ program' = program /\ down' = down /\ result' = result
      /\ count' = count /\ got' = got /\ msg' = msg
  BY DEF SendUp
<1>3. /\ pc[n] = "collect" /\ count[n] \in Nat /\ count[n] \in UpOps /\ got[n] = Children(n)
      /\ Len(tree.children[n]) \in Nat /\ msg[n] \in Message /\ msg[n].op = count[n]
  <2>1. count[n] \in Nat /\ Len(tree.children[n]) \in Nat
    BY <1>1, Constants, LinkFacts DEF Types
  <2>2. pc[n] = "collect" /\ got[n] = Children(n) /\ Place(n)
    BY <1>1 DEF SendUp, Collected
  <2> QED BY <2>1, <2>2 DEF Place
<1>4. /\ idx'[n] = 1 /\ count'[n] = count[n] /\ got'[n] = got[n]
      /\ pc'[n] = IF program[count[n]] = "reduce" THEN "return"
                  ELSE IF IsRoot(n) THEN "down" ELSE "recv"
  BY <1>1, Zenon DEF SendUp, Types, AfterReduce, Op, BroadcastStart
<1>6. /\ Queues(up')
      /\ ~IsRoot(n) => \E p \in Nodes : \E i \in Children(p) :
           /\ tree.children[p][i] = n /\ Elsewhere(up, up', p, i)
           /\ up'[p][i] = Append(up[p][i], msg[n])
      /\ IsRoot(n) => up' = up
  <2>1. CASE IsRoot(n)
    BY <1>1, <2>1 DEF SendUp, Types
  <2>2. CASE ~IsRoot(n)
    <3> PICK p \in Nodes : p = tree.parent[n]
      BY <1>1, <2>2, LinkFacts, Zenon DEF Types
    <3>1. PICK i \in Children(p) : i = Position(n) /\ tree.children[p][i] = n
      BY <1>1, <2>2, LinkFacts, Zenon DEF Types
    <3>2. /\ Fits(up[p][i]) /\ up[p][i] \in Seq(Message)
          /\ up' = [up EXCEPT ![p][i] = Append(up[p][i], msg[n])]
      BY <1>1, <2>2, <3>1, QueueTypes, Zenon DEF SendUp
    <3>3. PICK v \in Seq(Message) : v = Append(up[p][i], msg[n]) /\ Len(v) <= Capacity
      BY <1>3, <3>2, FitsAppend, Zenon
    <3>4. up' = Put(up, p, i, v) /\ Queues(up) /\ Len(v) <= Capacity
      BY <1>1, <3>2, <3>3, Zenon DEF Put, Types
    <3>5. Queues(up') /\ up'[p][i] = v /\ Elsewhere(up, up', p, i)
      BY <3>4, QueueUpdate
    <3> QED BY <2>2, <3>1, <3>3, <3>5, Zenon
  <2> QED BY <2>1, <2>2
<1>7. Types'
  <2>1. Queues(down)' /\ Queues(up)'
    BY <1>1, <1>2, <1>6, Zenon DEF Types, Queues, Children
  <2>2. idx' \in [Nodes -> Nat \ {0}]
    BY <1>1 DEF SendUp, Types
  <2>3. pc' \in [Nodes -> {"out", "collect", "recv", "down", "return"}]
    BY <1>1, Zenon DEF SendUp, Types, AfterReduce, BroadcastStart
  <2> QED BY <1>1, <1>2, <2>1, <2>2, <2>3 DEF Types
<1>8. Place(n)'
  <2>1. /\ UpOps' = UpOps /\ DownOps' = DownOps
        /\ Children(n)' = Children(n) /\ IsRoot(n)' = IsRoot(n)
    BY <1>2, Fixed
  <2>2. program[count[n]] # "reduce" => count[n] \in DownOps
    BY <1>3 DEF UpOps, DownOps
  <2>3. count[n] > 0 /\ Len(result[n]) = count[n] - 1
        /\ \A k \in 1 .. Len(result[n]) : result[n][k].op = k
    BY <1>1, <1>3 DEF Place
  <2>4. idx'[n] <= Len(tree.children[n]) + 1
    BY <1>3, <1>4
  <2> QED BY <1>2, <1>3, <1>4, <2>1, <2>2, <2>3, <2>4, Zenon DEF Place, Op
<1>9. \A m \in Nodes : Place(m)'
  BY <1>1, <1>8, PlaceFrame
<1>10. Traffic'
  <2>1. /\ SentUp(n) = count[n] - 1 /\ SentUp(n)' = count[n]
        /\ \A i \in Children(n) : RecvdUp(n, i)' = RecvdUp(n, i)
    BY <1>3, <1>4 DEF SentUp, RecvdUp
  <2>2. ~IsRoot(n) => Skip(DownOps, RecvdDown(n), RecvdDown(n)')
    BY <1>3, <1>4 DEF RecvdDown, Skip, DownOps
  <2>3. \A i \in Children(n) : Skip(DownOps, SentDown(n, i), SentDown(n, i)')
    <3> SUFFICES ASSUME NEW i \in Children(n)
                 PROVE  Skip(DownOps, SentDown(n, i), SentDown(n, i)')
      OBVIOUS
    <3>1. i \in Nat \ {0}
      BY <1>1, LinkFacts DEF Types
    <3> QED BY <1>3, <1>4, <3>1 DEF SentDown, Skip, DownOps
  <2>4. ASSUME NEW p \in Nodes, NEW i \in Children(p)
        PROVE  /\ Carries(UpOps, up'[p][i], RecvdUp(p, i)', SentUp(tree.children[p][i])')
               /\ Carries(DownOps, down'[p][i], RecvdDown(tree.children[p][i])', SentDown(p, i)')
    <3>1. /\ ~IsRoot(tree.children[p][i]) /\ tree.parent[tree.children[p][i]] = p
          /\ Position(tree.children[p][i]) = i
      BY <1>1, LinkFacts, Zenon, NodeTypes
    <3>2. Carries(DownOps, down'[p][i], RecvdDown(tree.children[p][i])', SentDown(p, i)')
      BY <1>1, <1>2, <1>7, <2>2, <2>3, <3>1, DownFrame, Zenon
    <3>3. CASE tree.children[p][i] = n
      <4>1. up'[p][i] = Append(up[p][i], msg[n])
        <5>1. PICK q \in Nodes : \E j \in Children(q) :
                tree.children[q][j] = n /\ up'[q][j] = Append(up[q][j], msg[n])
          BY <1>6, <3>1, <3>3
        <5>2. PICK j \in Children(q) :
                tree.children[q][j] = n /\ up'[q][j] = Append(up[q][j], msg[n])
          BY <5>1
        <5>3. tree.parent[tree.children[q][j]] = q /\ Position(tree.children[q][j]) = j
          BY <1>1, LinkFacts, NodeTypes, Zenon
        <5>4. q = p /\ j = i
          BY <3>1, <3>3, <5>2, <5>3, Zenon
        <5> QED BY <5>2, <5>4, Zenon
      <4>2. PICK hi \in Int : hi = SentUp(n) /\ hi + 1 = count[n]
        BY <1>3, <2>1
      <4>3. RecvdUp(p, i)' = RecvdUp(p, i) /\ RecvdUp(p, i) \in Int
        BY <1>1, <1>7, <2>1, Ends
      <4>4. Carries(UpOps, up[p][i], RecvdUp(p, i), hi) /\ up[p][i] \in Seq(Message)
        BY <1>1, <3>3, <4>2, QueueTypes, Zenon DEF Traffic, Queues
      <4>5. UpOps \in SUBSET Nat /\ hi + 1 \in UpOps /\ msg[n] \in Message /\ msg[n].op = hi + 1
        BY <1>3, <4>2, Constants
      <4>6. Carries(UpOps, Append(up[p][i], msg[n]), RecvdUp(p, i), hi + 1)
        BY <4>3, <4>4, <4>5, CarriesSend, Zenon
      <4>7. SentUp(tree.children[p][i])' = hi + 1
        BY <1>2, <2>1, <3>3, <4>2
      <4> QED BY <3>2, <4>1, <4>3, <4>6, <4>7, Zenon
    <3>4. CASE tree.children[p][i] # n
      <4>1. up'[p][i] = up[p][i]
        BY <1>6, <3>4 DEF Elsewhere
      <4>2. Carries(UpOps, up'[p][i], RecvdUp(p, i)', SentUp(tree.children[p][i])')
        BY <1>1, <1>7, <2>1, <3>4, <4>1, UpFrame, Zenon DEF Skip
      <4> QED BY <3>2, <4>2
    <3> QED BY <3>3, <3>4, Zenon
  <2> QED BY <1>2, <2>4, TrafficFrom, Zenon
<1>11. Agreement'
  <2>1. \A m : Handed(m) => Handed(m)'
    BY <1>1, HandedStays DEF Step
  <2>2. pc'[n] = "down" => Handed(msg[n])'
    <3> SUFFICES ASSUME pc'[n] = "down" PROVE Handed(msg[n])'
      OBVIOUS
    <3>1. n = Root /\ Root' = Root
      BY <1>1, <1>2, <1>4, RootFacts, Fixed, Zenon DEF Types
    <3>2. program'[msg'[n].op] # "broadcast"
      BY <1>2, <1>3 DEF UpOps
    <3>3. OfRoot(msg[n])'
      BY <1>2, <1>3, <3>1 DEF OfRoot
    <3> QED BY <3>2, <3>3 DEF Handed
  <2> QED BY <1>1, <1>2, <2>1, <2>2, AgreementFrom DEF Agreement
<1> QED BY <1>7, <1>9, <1>10, <1>11 DEF IndInv

\* What comes from the parent is the message of this operation.
LEMMA RecvDownInv ==
  ASSUME IndInv, NEW n \in Nodes, RecvDown(n)
  PROVE  IndInv'
<1>1. Types /\ (\A m \in Nodes : Place(m)) /\ Traffic /\ Agreement /\ OnlyNode(n)
  BY OnlyOne DEF IndInv, Step
<1>2. /\ tree' = tree /\ program' = program /\ up' = up /\ result' = result
      /\ count' = count /\ got' = got /\ idx' = idx
  BY DEF RecvDown
<1>3. /\ pc[n] = "recv" /\ count[n] \in Nat /\ count[n] \in DownOps /\ ~IsRoot(n)
      /\ idx[n] = 1 /\ Len(tree.children[n]) \in Nat
  <2>1. count[n] \in Nat /\ Len(tree.children[n]) \in Nat
    BY <1>1, LinkFacts, NodeTypes, Zenon
  <2>2. pc[n] = "recv" /\ Place(n)
    BY <1>1 DEF RecvDown
  <2> QED BY <2>1, <2>2 DEF Place
<1> PICK p \in Nodes : p = tree.parent[n]
  BY <1>1, <1>3, LinkFacts, Zenon, NodeTypes
<1>4. PICK i \in Children(p) : i = Position(n) /\ tree.children[p][i] = n
  BY <1>1, <1>3, LinkFacts, Zenon DEF Types
<1>5. /\ down[p][i] # <<>> /\ down[p][i] \in Seq(Message)
      /\ Len(down[p][i]) <= Capacity
      /\ down' = [down EXCEPT ![p][i] = Tail(down[p][i])]
  BY <1>1, <1>4, QueueTypes, Zenon DEF RecvDown, Arrived, FromParent, Queues
<1>6. pc'[n] = "down" /\ msg'[n] = Head(down[p][i])
  BY <1>1, <1>4, Zenon DEF RecvDown, FromParent, Types
<1>7. /\ Head(down[p][i]) \in Message /\ Head(down[p][i]).op = count[n]
      /\ Carries(DownOps, Tail(down[p][i]), count[n], SentDown(p, i))
  <2>1. PICK lo \in Int : lo = RecvdDown(n) /\ lo + 1 = count[n]
    BY <1>3 DEF RecvdDown
  <2>2. Carries(DownOps, down[p][i], lo, SentDown(p, i))
    BY <1>1, <1>4, <2>1 DEF Traffic
  <2>3. SentDown(p, i) \in Int
    BY <1>1, NodeTypes DEF SentDown
  <2>4. DownOps \in SUBSET Nat /\ lo + 1 \in DownOps
    BY <1>3, <2>1, Constants
  <2>5. Head(down[p][i]).op = lo + 1 /\ Carries(DownOps, Tail(down[p][i]), lo + 1, SentDown(p, i))
    BY <1>5, <2>2, <2>3, <2>4, CarriesRecv, Zenon
  <2> QED BY <1>5, <2>1, <2>5
<1>8. /\ Queues(down') /\ down'[p][i] = Tail(down[p][i]) /\ Elsewhere(down, down', p, i)
  <2>1. PICK v \in Seq(Message) : v = Tail(down[p][i]) /\ Len(v) <= Capacity
    BY <1>5, FitsTail, Zenon
  <2>2. down' = Put(down, p, i, v) /\ Queues(down) /\ Len(v) <= Capacity
    BY <1>1, <1>5, <2>1, Zenon DEF Put, Types
  <2>3. Queues(down') /\ down'[p][i] = v /\ Elsewhere(down, down', p, i)
    BY <2>2, QueueUpdate
  <2> QED BY <2>1, <2>3, Zenon
<1>9. Types'
  <2>1. Queues(down)' /\ Queues(up)'
    BY <1>1, <1>2, <1>8, Zenon DEF Types, Queues, Children
  <2>2. pc' \in [Nodes -> {"out", "collect", "recv", "down", "return"}]
    BY <1>1 DEF RecvDown, Types
  <2>3. msg' \in [Nodes -> Message \cup {NoMsg}]
    <3>1. msg' = [msg EXCEPT ![n] = Head(down[p][i])]
      BY <1>4, Zenon DEF RecvDown, FromParent
    <3> QED BY <1>1, <1>7, <3>1, Zenon DEF Types
  <2> QED BY <1>1, <1>2, <2>1, <2>2, <2>3, Zenon DEF Types
<1>10. Place(n)'
  <2>1. /\ UpOps' = UpOps /\ DownOps' = DownOps /\ Children(n)' = Children(n)
    BY <1>2, Fixed
  <2>2. Place(n)
    BY <1>1, Zenon
  <2> QED BY <1>2, <1>3, <1>6, <1>7, <2>1, <2>2, Zenon DEF Place
<1>11. \A m \in Nodes : Place(m)'
  BY <1>1, <1>10, PlaceFrame
<1>12. Traffic'
  <2>1. /\ SentUp(n)' = SentUp(n) /\ \A j : RecvdUp(n, j)' = RecvdUp(n, j)
        /\ RecvdDown(n)' = count[n]
    BY <1>2, <1>3, <1>6, Zenon DEF SentUp, RecvdUp, RecvdDown
  <2>2. \A j \in Children(n) : SentDown(n, j)' = SentDown(n, j)
    <3> SUFFICES ASSUME NEW j \in Children(n) PROVE SentDown(n, j)' = SentDown(n, j)
      OBVIOUS
    <3>1. j \in Nat \ {0}
      BY <1>1, LinkFacts, Zenon DEF Types
    <3> QED BY <1>2, <1>3, <1>6, <3>1 DEF SentDown
  <2>3. \A q \in Nodes : \A j \in Children(q) : SentDown(q, j)' = SentDown(q, j)
    BY <1>1, <1>9, <2>2, Ends
  <2>4. ASSUME NEW q \in Nodes, NEW j \in Children(q)
        PROVE  /\ Carries(UpOps, up'[q][j], RecvdUp(q, j)', SentUp(tree.children[q][j])')
               /\ Carries(DownOps, down'[q][j], RecvdDown(tree.children[q][j])', SentDown(q, j)')
    <3>1. tree.parent[tree.children[q][j]] = q /\ Position(tree.children[q][j]) = j
      BY <1>1, LinkFacts, Zenon DEF Types
    <3>2. Carries(UpOps, up'[q][j], RecvdUp(q, j)', SentUp(tree.children[q][j])')
      BY <1>1, <1>2, <1>9, <2>1, UpFrame, Zenon DEF Skip
    <3>3. CASE q = p /\ j = i
      <4>1. SentDown(p, i)' = SentDown(p, i)
        BY <2>3
      <4>2. RecvdDown(tree.children[p][i])' = count[n]
        BY <1>2, <1>4, <2>1, Zenon
      <4> QED BY <1>7, <1>8, <3>2, <3>3, <4>1, <4>2, Zenon
    <3>4. CASE ~(q = p /\ j = i)
      <4>1. down'[q][j] = down[q][j]
        BY <1>8, <3>4 DEF Elsewhere
      <4>2. tree.children[q][j] # n
        BY <1>4, <3>1, <3>4
      <4>3. Carries(DownOps, down'[q][j], RecvdDown(tree.children[q][j])', SentDown(q, j)')
        BY <1>1, <1>9, <2>2, <4>1, <4>2, DownFrame, Zenon DEF Skip
      <4> QED BY <3>2, <4>3, Zenon
    <3> QED BY <3>3, <3>4, Zenon
  <2> QED BY <1>2, <2>4, TrafficFrom
<1>13. Agreement'
  <2>1. \A m : Handed(m) => Handed(m)'
    BY <1>1, HandedStays, Zenon DEF Step
  <2>2. \A j \in 1 .. Len(down[p][i]) : Handed(down[p][i][j])
    BY <1>1 DEF Agreement
  <2>3. Handed(Head(down[p][i])) /\ Handed(msg[n])'
    <3>1. 1 \in 1 .. Len(down[p][i]) /\ Head(down[p][i]) = down[p][i][1]
      BY <1>5
    <3>2. Handed(msg'[n])
      BY <1>6, <2>2, <3>1, Zenon
    <3> QED BY <1>6, <2>1, <3>2
  <2>4. \A j \in 1 .. Len(Tail(down[p][i])) : Handed(Tail(down[p][i])[j])
    <3> SUFFICES ASSUME NEW j \in 1 .. Len(Tail(down[p][i]))
                 PROVE  Handed(Tail(down[p][i])[j])
      OBVIOUS
    <3>1. j + 1 \in 1 .. Len(down[p][i]) /\ Tail(down[p][i])[j] = down[p][i][j + 1]
      BY <1>5
    <3> QED BY <2>2
  <2>5. \A q \in Nodes : \A l \in Children(q) : \A j \in 1 .. Len(down'[q][l]) :
          Handed(down'[q][l][j])
    <3> SUFFICES ASSUME NEW q \in Nodes, NEW l \in Children(q)
                 PROVE  \A j \in 1 .. Len(down'[q][l]) : Handed(down'[q][l][j])
      OBVIOUS
    <3>1. CASE q = p /\ l = i
      BY <1>8, <2>4, <3>1, Zenon
    <3>2. CASE ~(q = p /\ l = i)
      <4>1. down'[q][l] = down[q][l]
        BY <1>8, <3>2 DEF Elsewhere
      <4> QED BY <1>1, <4>1 DEF Agreement
    <3> QED BY <3>1, <3>2
  <2>6. \A k \in 1 .. Len(result'[n]) : Handed(result'[n][k])
    BY <1>1, <1>2 DEF Agreement
  <2> QED BY <1>1, <2>1, <2>3, <2>5, <2>6, AgreementFrom, Zenon
<1> QED BY <1>9, <1>11, <1>12, <1>13 DEF IndInv

\* The message goes to the next child.
LEMMA SendDownInv ==
  ASSUME IndInv, NEW n \in Nodes, SendDown(n)
  PROVE  IndInv'
<1>1. Types /\ (\A m \in Nodes : Place(m)) /\ Traffic /\ Agreement /\ OnlyNode(n)
  BY OnlyOne DEF IndInv, Step
<1>2. /\ tree' = tree /\ program' = program /\ up' = up /\ result' = result
      /\ count' = count /\ got' = got /\ pc' = pc /\ msg' = msg
  BY DEF SendDown
<1>3. /\ pc[n] = "down" /\ count[n] \in Nat /\ count[n] \in DownOps
      /\ idx[n] \in Children(n) /\ Len(tree.children[n]) \in Nat
      /\ msg[n] \in Message /\ msg[n].op = count[n]
  <2>1. count[n] \in Nat /\ Len(tree.children[n]) \in Nat
    BY <1>1, Constants DEF Types
  <2>2. pc[n] = "down" /\ idx[n] \in Children(n) /\ Place(n)
    BY <1>1 DEF SendDown, Subtree
  <2> QED BY <2>1, <2>2 DEF Place
<1> PICK i \in Children(n) : i = idx[n]
  BY <1>3
<1>4. i \in Nat \ {0} /\ i <= Len(tree.children[n])
  BY <1>3 DEF Children
<1>5. /\ Fits(down[n][i]) /\ down[n][i] \in Seq(Message)
      /\ down' = [down EXCEPT ![n][i] = Append(down[n][i], msg[n])]
  BY <1>1 DEF SendDown, Types, Queues
<1>6. idx'[n] = i + 1
  BY <1>1 DEF SendDown, Types
<1>7. /\ Queues(down') /\ down'[n][i] = Append(down[n][i], msg[n])
      /\ Elsewhere(down, down', n, i)
  <2>1. PICK v \in Seq(Message) : v = Append(down[n][i], msg[n]) /\ Len(v) <= Capacity
    BY <1>3, <1>5, FitsAppend, Zenon
  <2>2. down' = Put(down, n, i, v) /\ Queues(down) /\ Len(v) <= Capacity
    BY <1>1, <1>5, <2>1 DEF Put, Types
  <2>3. Queues(down') /\ down'[n][i] = v /\ Elsewhere(down, down', n, i)
    BY <2>2, QueueUpdate
  <2> QED BY <2>1, <2>3, Zenon
<1>8. Types'
  <2>1. Queues(down)' /\ Queues(up)'
    BY <1>1, <1>2, <1>7, Zenon DEF Types, Queues, Children
  <2>2. idx' \in [Nodes -> Nat \ {0}]
    BY <1>1 DEF SendDown, Types
  <2> QED BY <1>1, <1>2, <2>1, <2>2, Zenon DEF Types
<1>9. Place(n)'
  <2>1. /\ UpOps' = UpOps /\ DownOps' = DownOps /\ Children(n)' = Children(n)
    BY <1>2, Fixed
  <2>2. Place(n)
    BY <1>1
  <2>3. idx'[n] <= Len(tree.children[n]) + 1
    BY <1>4, <1>6
  <2> QED BY <1>2, <1>3, <2>1, <2>2, <2>3, Zenon DEF Place, Op, IsRoot
<1>10. \A m \in Nodes : Place(m)'
  BY <1>1, <1>9, PlaceFrame
<1>11. Traffic'
  <2>1. /\ SentUp(n)' = SentUp(n) /\ RecvdDown(n)' = RecvdDown(n)
        /\ \A j : RecvdUp(n, j)' = RecvdUp(n, j)
    BY <1>2 DEF SentUp, RecvdUp, RecvdDown
  <2>2. \A j \in Children(n) : j # i => SentDown(n, j)' = SentDown(n, j)
    <3> SUFFICES ASSUME NEW j \in Children(n), j # i PROVE SentDown(n, j)' = SentDown(n, j)
      OBVIOUS
    <3>1. j \in Nat \ {0}
      BY <1>1, LinkFacts, Zenon DEF Types
    <3> QED BY <1>2, <1>3, <1>4, <1>6, <3>1 DEF SentDown
  <2>3. PICK hi \in Int : hi = SentDown(n, i) /\ hi + 1 = count[n] /\ SentDown(n, i)' = hi + 1
    BY <1>2, <1>3, <1>4, <1>6 DEF SentDown
  <2>4. \A m \in Nodes : RecvdDown(m)' = RecvdDown(m) /\ RecvdDown(m) \in Int
    BY <1>1, <1>8, <2>1, Ends
  <2>5. ASSUME NEW q \in Nodes, NEW j \in Children(q)
        PROVE  /\ Carries(UpOps, up'[q][j], RecvdUp(q, j)', SentUp(tree.children[q][j])')
               /\ Carries(DownOps, down'[q][j], RecvdDown(tree.children[q][j])', SentDown(q, j)')
    <3>1. Carries(UpOps, up'[q][j], RecvdUp(q, j)', SentUp(tree.children[q][j])')
      BY <1>1, <1>2, <1>8, <2>1, UpFrame, Zenon DEF Skip
    <3>2. CASE q = n /\ j = i
      <4>1. PICK c \in Nodes : c = tree.children[n][i]
        BY <1>1, LinkFacts, NodeTypes, Zenon
      <4>2. Carries(DownOps, down[n][i], RecvdDown(c), hi)
        BY <1>1, <2>3, <4>1, Zenon DEF Traffic
      <4>3. /\ DownOps \in SUBSET Nat /\ hi + 1 \in DownOps
            /\ msg[n] \in Message /\ msg[n].op = hi + 1 /\ RecvdDown(c) \in Int
        BY <1>3, <2>3, <2>4, Constants, Zenon
      <4>4. Carries(DownOps, Append(down[n][i], msg[n]), RecvdDown(c), hi + 1)
        BY <1>5, <4>2, <4>3, CarriesSend, Zenon
      <4>5. RecvdDown(c)' = RecvdDown(c)
        BY <2>4
      <4>6. Carries(DownOps, down'[n][i], RecvdDown(c)', SentDown(n, i)')
        BY <1>7, <2>3, <4>4, <4>5, Zenon
      <4> QED BY <1>2, <3>1, <3>2, <4>1, <4>6, Zenon
    <3>3. CASE ~(q = n /\ j = i)
      <4>1. down'[q][j] = down[q][j]
        BY <1>7, <3>3, Zenon DEF Elsewhere
      <4>2. Carries(DownOps, down'[q][j], RecvdDown(tree.children[q][j])', SentDown(q, j)')
        BY <1>1, <1>8, <2>1, <2>2, <3>3, <4>1, DownFrame, Zenon DEF Skip
      <4> QED BY <3>1, <4>2, Zenon
    <3> QED BY <3>2, <3>3, Zenon
  <2> QED BY <1>2, <2>5, TrafficFrom, Zenon
<1>12. Agreement'
  <2>1. \A m : Handed(m) => Handed(m)'
    BY <1>1, HandedStays DEF Step
  <2>2. Handed(msg[n]) /\ \A j \in 1 .. Len(down[n][i]) : Handed(down[n][i][j])
    BY <1>1, <1>3, Zenon DEF Agreement
  <2>3. Handed(msg[n])'
    BY <1>2, <2>1, <2>2
  <2>4. \A j \in 1 .. Len(down'[n][i]) : Handed(down'[n][i][j])
    <3> SUFFICES ASSUME NEW j \in 1 .. Len(down'[n][i]) PROVE Handed(down'[n][i][j])
      OBVIOUS
    <3>1. \/ j \in 1 .. Len(down[n][i]) /\ down'[n][i][j] = down[n][i][j]
          \/ down'[n][i][j] = msg[n]
      BY <1>7
    <3> QED BY <2>2, <3>1, Zenon
  <2>5. \A q \in Nodes : \A l \in Children(q) : \A j \in 1 .. Len(down'[q][l]) :
          Handed(down'[q][l][j])
    <3> SUFFICES ASSUME NEW q \in Nodes, NEW l \in Children(q)
                 PROVE  \A j \in 1 .. Len(down'[q][l]) : Handed(down'[q][l][j])
      OBVIOUS
    <3>1. CASE q = n /\ l = i
      BY <2>4, <3>1
    <3>2. CASE ~(q = n /\ l = i)
      <4>1. down'[q][l] = down[q][l]
        BY <1>7, <3>2, Zenon DEF Elsewhere
      <4> QED BY <1>1, <4>1, Zenon DEF Agreement
    <3> QED BY <3>1, <3>2
  <2>6. \A k \in 1 .. Len(result'[n]) : Handed(result'[n][k])
    BY <1>1, <1>2 DEF Agreement
  <2> QED BY <1>1, <2>1, <2>3, <2>5, <2>6, AgreementFrom, Zenon
<1> QED BY <1>8, <1>10, <1>11, <1>12 DEF IndInv

\* The operation returns with its message as the result.
LEMMA ReturnInv ==
  ASSUME IndInv, NEW n \in Nodes, Return(n)
  PROVE  IndInv'
<1>1. Types /\ (\A m \in Nodes : Place(m)) /\ Traffic /\ Agreement /\ OnlyNode(n)
  BY OnlyOne DEF IndInv, Step
<1>2. tree' = tree /\ program' = program /\ up' = up /\ down' = down /\ count' = count
  BY DEF Return
<1>3. /\ pc[n] = "return" \/ (pc[n] = "down" /\ idx[n] \notin Children(n))
      /\ count[n] \in Nat \ {0} /\ Len(tree.children[n]) \in Nat /\ idx[n] \in Nat \ {0}
      /\ msg[n] \in Message /\ msg[n].op = count[n]
      /\ result[n] \in Seq(Message) /\ Len(result[n]) = count[n] - 1
      /\ \A k \in 1 .. Len(result[n]) : result[n][k].op = k
  <2>1. /\ count[n] \in Nat /\ Len(tree.children[n]) \in Nat /\ idx[n] \in Nat \ {0}
        /\ result[n] \in Seq(Message)
    BY <1>1, Constants, LinkFacts DEF Types
  <2>2. pc[n] = "return" \/ (pc[n] = "down" /\ idx[n] \notin Children(n))
    BY DEF Return, Subtree
  <2>3. Place(n)
    BY <1>1
  <2> QED BY <2>1, <2>2, <2>3 DEF Place
<1>4. /\ pc'[n] = "out" /\ idx'[n] = 1 /\ got'[n] = {} /\ msg'[n] = NoMsg
      /\ result'[n] = Append(result[n], msg[n])
  BY <1>1 DEF Return, Types
<1>5. /\ result'[n] \in Seq(Message) /\ Len(result'[n]) = count[n]
      /\ \A k \in 1 .. Len(result'[n]) :
           \/ k \in 1 .. Len(result[n]) /\ result'[n][k] = result[n][k]
           \/ k = count[n] /\ result'[n][k] = msg[n]
  BY <1>3, <1>4
<1>6. Types'
  <2>1. Queues(down)' /\ Queues(up)'
    BY <1>1, <1>2, Zenon DEF Types, Queues, Children
  <2>2. /\ idx' \in [Nodes -> Nat \ {0}] /\ got' \in [Nodes -> SUBSET Nat]
        /\ msg' \in [Nodes -> Message \cup {NoMsg}]
    BY <1>1 DEF Return, Types
  <2>3. pc' \in [Nodes -> {"out", "collect", "recv", "down", "return"}]
    BY <1>1 DEF Return, Types
  <2>4. result' \in [Nodes -> Seq(Message)]
    <3>1. result' = [result EXCEPT ![n] = result'[n]]
      BY <1>4, Zenon DEF Return
    <3> QED BY <1>1, <1>5, <3>1, Zenon DEF Types
  <2> QED BY <1>1, <1>2, <2>1, <2>2, <2>3, <2>4, Zenon DEF Types
<1>7. Place(n)'
  <2>1. \A k \in 1 .. Len(result'[n]) : result'[n][k].op = k
    BY <1>3, <1>5, Zenon
  <2> QED BY <1>2, <1>4, <1>5, <2>1 DEF Place
<1>8. \A m \in Nodes : Place(m)'
  BY <1>1, <1>7, PlaceFrame
<1>9. Traffic'
  <2>1. /\ SentUp(n)' = SentUp(n) /\ RecvdDown(n)' = RecvdDown(n)
        /\ \A j : RecvdUp(n, j)' = RecvdUp(n, j)
    BY <1>2, <1>3, <1>4, Zenon DEF SentUp, RecvdUp, RecvdDown
  <2>2. \A j \in Children(n) : SentDown(n, j)' = SentDown(n, j)
    <3> SUFFICES ASSUME NEW j \in Children(n) PROVE SentDown(n, j)' = SentDown(n, j)
      OBVIOUS
    <3>1. j \in Nat \ {0} /\ (pc[n] = "down" => ~(idx[n] <= j))
      BY <1>3 DEF Children
    <3> QED BY <1>2, <1>3, <1>4, <3>1, Zenon DEF SentDown
  <2>3. ASSUME NEW q \in Nodes, NEW j \in Children(q)
        PROVE  /\ Carries(UpOps, up'[q][j], RecvdUp(q, j)', SentUp(tree.children[q][j])')
               /\ Carries(DownOps, down'[q][j], RecvdDown(tree.children[q][j])', SentDown(q, j)')
    <3>1. Carries(UpOps, up'[q][j], RecvdUp(q, j)', SentUp(tree.children[q][j])')
      BY <1>1, <1>2, <1>6, <2>1, UpFrame, Zenon DEF Skip
    <3>2. Carries(DownOps, down'[q][j], RecvdDown(tree.children[q][j])', SentDown(q, j)')
      BY <1>1, <1>2, <1>6, <2>1, <2>2, DownFrame, Zenon DEF Skip
    <3> QED BY <3>1, <3>2
  <2> QED BY <1>2, <2>3, TrafficFrom, Zenon
<1>10. Agreement'
  <2>1. \A m : Handed(m) => Handed(m)'
    BY <1>1, HandedStays DEF Step
  <2>2. Handed(msg[n])
    <3>1. CASE pc[n] = "down"
      BY <1>1, <3>1 DEF Agreement
    <3>2. CASE pc[n] = "return"
      <4>1. program[msg[n].op] = "reduce"
        BY <1>1, <1>3, <3>2 DEF Place, Op
      <4> QED BY <4>1 DEF Handed
    <3> QED BY <1>3, <3>1, <3>2
  <2>3. \A k \in 1 .. Len(result'[n]) : Handed(result'[n][k])
    BY <1>1, <1>5, <2>2, Zenon DEF Agreement
  <2>4. pc'[n] = "down" => Handed(msg[n])'
    BY <1>4
  <2>5. \A q \in Nodes : \A l \in Children(q) : \A j \in 1 .. Len(down'[q][l]) :
          Handed(down'[q][l][j])
    BY <1>1, <1>2, Zenon DEF Agreement
  <2> QED BY <1>1, <2>1, <2>3, <2>4, <2>5, AgreementFrom, Zenon
<1> QED BY <1>6, <1>8, <1>9, <1>10 DEF IndInv

-----------------------------------------------------------------------------
\* A context whose queues are empty, and no operation yet.
LEMMA InitInv == Init => IndInv
<1> SUFFICES ASSUME Init PROVE IndInv
  OBVIOUS
<1>1. tree \in Trees /\ program \in [1 .. MaxOps -> Ops]
  BY DEF Init
<1>2. \A n \in Nodes : Len(tree.children[n]) \in Nat
  BY <1>1, LinkFacts
<1>3. \A n \in Nodes : /\ count[n] = 0 /\ pc[n] = "out" /\ idx[n] = 1 /\ got[n] = {}
                       /\ msg[n] = NoMsg /\ result[n] = <<>>
  BY DEF Init
<1>4. ASSUME NEW f, f = NoMessages(tree)
      PROVE  Queues(f) /\ \A n \in Nodes : \A i \in Children(n) : f[n][i] = <<>>
  <2>1. \A n \in Nodes : f[n] = [i \in Children(n) |-> <<>>]
    BY <1>4 DEF NoMessages, Children
  <2>2. f = [n \in Nodes |-> f[n]]
    BY <1>4 DEF NoMessages
  <2>3. <<>> \in Seq(Message) /\ Len(<<>>) <= Capacity
    BY Constants
  <2> QED BY <2>1, <2>2, <2>3, Zenon DEF Queues
<1>5. /\ Queues(down) /\ Queues(up)
      /\ \A n \in Nodes : \A i \in Children(n) : down[n][i] = <<>> /\ up[n][i] = <<>>
  BY <1>4 DEF Init
<1>6. Types
  <2>1. /\ count \in [Nodes -> 0 .. MaxOps] /\ idx \in [Nodes -> Nat \ {0}]
        /\ pc \in [Nodes -> {"out", "collect", "recv", "down", "return"}]
    BY Constants DEF Init
  <2>2. /\ got \in [Nodes -> SUBSET Nat] /\ msg \in [Nodes -> Message \cup {NoMsg}]
        /\ result \in [Nodes -> Seq(Message)]
    BY DEF Init
  <2> QED BY <1>1, <1>5, <2>1, <2>2 DEF Types
<1>7. \A n \in Nodes : Place(n)
  BY <1>2, <1>3 DEF Place
<1>8. Traffic
  <2> SUFFICES ASSUME NEW n \in Nodes, NEW i \in Children(n)
               PROVE  /\ Carries(UpOps, <<>>, RecvdUp(n, i), SentUp(tree.children[n][i]))
                      /\ Carries(DownOps, <<>>, RecvdDown(tree.children[n][i]), SentDown(n, i))
    BY <1>5, Zenon DEF Traffic
  <2>1. PICK c \in Nodes : c = tree.children[n][i]
    BY <1>1, LinkFacts
  <2>2. /\ RecvdUp(n, i) = 0 /\ SentDown(n, i) = 0 /\ SentUp(c) = 0 /\ RecvdDown(c) = 0
    BY <1>3, Zenon DEF RecvdUp, SentUp, RecvdDown, SentDown
  <2>3. ASSUME NEW ks \in SUBSET Nat PROVE Carries(ks, <<>>, 0, 0)
    BY DEF Carries
  <2> QED BY <2>1, <2>2, <2>3, Constants
<1>9. Agreement
  BY <1>3, <1>5 DEF Agreement
<1> QED BY <1>6, <1>7, <1>8, <1>9 DEF IndInv

\* Every step keeps the invariant.
LEMMA NextInv == IndInv /\ [Next]_vars => IndInv'
<1> SUFFICES ASSUME IndInv, [Next]_vars PROVE IndInv'
  OBVIOUS
<1>1. ASSUME NEW n \in Nodes, Call(n) \/ Step(n) PROVE IndInv'
  BY <1>1, CallInv, PollInv, SendUpInv, RecvDownInv, SendDownInv, ReturnInv DEF Step
<1>2. CASE UNCHANGED vars
  <2>1. /\ tree' = tree /\ program' = program /\ down' = down /\ up' = up /\ count' = count
        /\ pc' = pc /\ idx' = idx /\ got' = got /\ msg' = msg /\ result' = result
    BY <1>2 DEF vars
  <2>2. Types'
    <3>1. Queues(down)' /\ Queues(up)'
      BY <2>1, Zenon DEF IndInv, Types, Queues, Children
    <3> QED BY <2>1, <3>1, Zenon DEF IndInv, Types
  <2>3. \A n \in Nodes : Place(n)'
    <3> SUFFICES ASSUME NEW n \in Nodes PROVE Place(n)'
      OBVIOUS
    <3>1. /\ UpOps' = UpOps /\ DownOps' = DownOps /\ Children(n)' = Children(n)
          /\ IsRoot(n)' = IsRoot(n) /\ Op(n)' = Op(n)
      BY <2>1, Fixed, Zenon DEF Op
    <3> QED BY <2>1, <3>1, Zenon DEF IndInv, Place
  <2>4. Traffic'
    <3>1. /\ UpOps' = UpOps /\ DownOps' = DownOps
          /\ \A n : Children(n)' = Children(n)
      BY <2>1, Fixed, Zenon
    <3>2. /\ \A n : SentUp(n)' = SentUp(n) /\ RecvdDown(n)' = RecvdDown(n)
          /\ \A n, i : RecvdUp(n, i)' = RecvdUp(n, i) /\ SentDown(n, i)' = SentDown(n, i)
      BY <2>1, Zenon DEF SentUp, RecvdUp, SentDown, RecvdDown
    <3> QED BY <2>1, <3>1, <3>2, Zenon DEF IndInv, Traffic
  <2>5. Agreement'
    <3>1. Root' = Root /\ \A n : Children(n)' = Children(n)
      BY <2>1, Fixed
    <3>2. \A m : Handed(m)' <=> Handed(m)
      BY <2>1, <3>1, Zenon DEF Handed, OfRoot
    <3> QED BY <2>1, <3>1, <3>2, Zenon DEF IndInv, Agreement
  <2> QED BY <2>2, <2>3, <2>4, <2>5 DEF IndInv
<1> QED BY <1>1, <1>2 DEF Next

\* The invariant holds in every state the nodes of a context reach.
THEOREM Invariance == Spec => []IndInv
BY InitInv, NextInv, PTL DEF Spec

\* The queues of the links stay within their capacity, and the nodes within their
\* operations, in any mix of smlt_reduce, smlt_broadcast, smlt_reduce_all and
\* smlt_barrier_wait.
THEOREM TypeCorrect == Spec => []TypeOK
<1>1. IndInv => TypeOK
  <2> SUFFICES ASSUME IndInv PROVE TypeOK
    OBVIOUS
  <2>1. ASSUME NEW n \in Nodes
        PROVE  /\ \A i \in Children(n) : \A q \in {down[n][i], up[n][i]} :
                    Len(q) <= Capacity /\ \A j \in 1 .. Len(q) : q[j] \in Message
               /\ idx[n] \in 1 .. Len(tree.children[n]) + 1
               /\ got[n] \subseteq Children(n)
    <3>1. Len(tree.children[n]) \in Nat /\ idx[n] \in Nat \ {0}
      BY LinkFacts, Zenon DEF IndInv, Types
    <3>2. \A i \in Children(n) : \A q \in {down[n][i], up[n][i]} :
            q \in Seq(Message) /\ Len(q) <= Capacity
      BY DEF IndInv, Types, Queues
    <3>3. idx[n] <= Len(tree.children[n]) + 1 /\ got[n] \subseteq Children(n)
      BY Zenon DEF IndInv, Place
    <3> QED BY <3>1, <3>2, <3>3
  <2> QED BY <2>1 DEF IndInv, Types, TypeOK
<1> QED BY <1>1, Invariance, PTL

\* A message at the head of a queue that a node is about to receive from belongs to
\* the node's operation: the collectives never mix, whatever the tree and however
\* far nodes run ahead.
THEOREM OperationsNeverMix == Spec => []NoMixing
<1>1. IndInv => NoMixing
  <2> SUFFICES ASSUME IndInv, NEW n \in Nodes
               PROVE  /\ \A i \in Children(n) \ got[n] :
                           pc[n] = "collect" /\ up[n][i] # <<>> => Head(up[n][i]).op = count[n]
                      /\ pc[n] = "recv" /\ Arrived(n) => Head(FromParent(n)).op = count[n]
                      /\ \A k \in 1 .. Len(result[n]) : result[n][k].op = k
    BY Zenon DEF NoMixing
  <2>1. Types /\ Place(n) /\ Traffic /\ count[n] \in Nat
    BY NodeTypes, Zenon DEF IndInv
  <2>2. ASSUME NEW i \in Children(n) \ got[n], pc[n] = "collect", up[n][i] # <<>>
        PROVE  Head(up[n][i]).op = count[n]
    <3>1. PICK c \in Nodes : c = tree.children[n][i]
      BY <2>1, LinkFacts, NodeTypes, Zenon
    <3>2. PICK lo \in Int : lo = RecvdUp(n, i) /\ lo + 1 = count[n]
      BY <2>1, <2>2 DEF RecvdUp
    <3>3. Carries(UpOps, up[n][i], lo, SentUp(c)) /\ up[n][i] \in Seq(Message)
      BY <2>1, <3>1, <3>2, Zenon DEF Traffic, Types, Queues
    <3>4. UpOps \in SUBSET Nat /\ lo + 1 \in UpOps /\ SentUp(c) \in Int
      <4>1. SentUp(c) \in Int
        BY <2>1, NodeTypes DEF SentUp
      <4>2. count[n] \in UpOps
        BY <2>1, <2>2, Zenon DEF Place
      <4> QED BY <3>2, <4>1, <4>2, Constants, Zenon
    <3>5. Head(up[n][i]).op = lo + 1 /\ Carries(UpOps, Tail(up[n][i]), lo + 1, SentUp(c))
      BY <2>2, <3>3, <3>4, CarriesRecv, Zenon
    <3> QED BY <3>2, <3>5, Zenon
  <2>3. ASSUME pc[n] = "recv", Arrived(n) PROVE Head(FromParent(n)).op = count[n]
    <3> PICK p \in Nodes : p = tree.parent[n] /\ ~IsRoot(n)
      BY <2>1, <2>3, LinkFacts, Zenon, NodeTypes DEF Place
    <3>1. PICK i \in Children(p) : i = Position(n) /\ tree.children[p][i] = n
      BY <2>1, LinkFacts, NodeTypes, Zenon
    <3>2. PICK lo \in Int : lo = RecvdDown(n) /\ lo + 1 = count[n]
      BY <2>1, <2>3 DEF RecvdDown
    <3>3. /\ Carries(DownOps, down[p][i], lo, SentDown(p, i)) /\ down[p][i] \in Seq(Message)
          /\ down[p][i] # <<>>
      BY <2>1, <2>3, <3>1, <3>2, QueueTypes, Zenon DEF Traffic, Arrived, FromParent
    <3>4. DownOps \in SUBSET Nat /\ lo + 1 \in DownOps /\ SentDown(p, i) \in Int
      <4>1. SentDown(p, i) \in Int
        BY <2>1, NodeTypes DEF SentDown
      <4>2. count[n] \in DownOps
        BY <2>1, <2>3, Zenon DEF Place
      <4> QED BY <3>2, <4>1, <4>2, Constants, Zenon
    <3>5. /\ Head(down[p][i]).op = lo + 1
          /\ Carries(DownOps, Tail(down[p][i]), lo + 1, SentDown(p, i))
      BY <3>3, <3>4, CarriesRecv, Zenon
    <3> QED BY <3>1, <3>2, <3>5, Zenon DEF FromParent
  <2> QED BY <2>1, <2>2, <2>3, Zenon DEF Place
<1> QED BY <1>1, Invariance, PTL

\* Every node returns from smlt_broadcast with the message of the root, and from
\* smlt_reduce_all with what the root had after its reduction.
THEOREM BroadcastsAgree == Spec => []BroadcastAgreement
<1>1. IndInv => BroadcastAgreement
  <2> SUFFICES ASSUME IndInv, NEW n \in Nodes, NEW k \in 1 .. Len(result[n])
               PROVE  /\ program[k] = "broadcast" => result[n][k].inputs = {Root}
                      /\ program[k] = "reduce_all" /\ k <= Len(result[Root])
                         => result[n][k] = result[Root][k]
    BY DEF BroadcastAgreement
  <2>1. result[n][k].op = k /\ Handed(result[n][k])
    BY DEF IndInv, Place, Agreement
  <2>2. ASSUME OfRoot(result[n][k]), k <= Len(result[Root])
        PROVE  result[n][k] = result[Root][k]
    <3>1. /\ Root \in Nodes /\ Place(Root) /\ count[Root] \in Nat
          /\ Len(result[Root]) \in Nat
      <4>1. Root \in Nodes
        BY RootFacts DEF IndInv, Types
      <4> QED BY <4>1, Constants DEF IndInv, Types
    <3>2. k = count[Root] /\ pc[Root] = "down" => Len(result[Root]) < k
      <4>1. pc[Root] = "down" => Len(result[Root]) = count[Root] - 1
        BY <3>1, Zenon DEF Place
      <4> QED BY <3>1, <4>1
    <3>3. ~(k = count[Root] /\ pc[Root] = "down")
      BY <2>2, <3>2
    <3> QED BY <2>1, <2>2, <3>3, Zenon DEF OfRoot
  <2> QED BY <2>1, <2>2 DEF Handed
<1> QED BY <1>1, Invariance, PTL

-----------------------------------------------------------------------------
(* The barrier.                                                            *)

\* The number of synchronising operations among the first k grows by one or none.
LEMMA SynchronisingSteps ==
  /\ Synchronising(0) = 0
  /\ \A k \in Nat :
       /\ Synchronising(k) \in Nat
       /\ Synchronising(k + 1) = IF program[k + 1] \in {"barrier", "reduce_all"}
                                 THEN Synchronising(k) + 1 ELSE Synchronising(k)
       /\ \A l \in Nat : k <= l => Synchronising(k) <= Synchronising(l)
<1> DEFINE S(k) == {j \in 1 .. k : program[j] \in {"barrier", "reduce_all"}}
<1>1. \A k \in Nat : IsFiniteSet(S(k))
  <2> TAKE k \in Nat
  <2>1. IsFiniteSet(1 .. k)
    BY FS_Interval
  <2> QED BY <2>1, FS_Subset
<1>2. \A k : Synchronising(k) = Cardinality(S(k))
  BY DEF Synchronising
<1>3. Synchronising(0) = 0
  <2>1. S(0) = {}
    OBVIOUS
  <2> QED BY <1>2, <2>1, FS_EmptySet
<1>4. ASSUME NEW k \in Nat
      PROVE  Synchronising(k + 1) = IF program[k + 1] \in {"barrier", "reduce_all"}
                                    THEN Synchronising(k) + 1 ELSE Synchronising(k)
  <2>1. k + 1 \notin S(k)
    OBVIOUS
  <2>2. CASE program[k + 1] \in {"barrier", "reduce_all"}
    <3>1. S(k + 1) = S(k) \cup {k + 1}
      BY <2>2
    <3> HIDE DEF S
    <3>2. Cardinality(S(k) \cup {k + 1}) = Cardinality(S(k)) + 1
      BY <1>1, <2>1, FS_AddElement, Zenon
    <3> QED BY <1>2, <2>2, <3>1, <3>2, Zenon
  <2>3. CASE program[k + 1] \notin {"barrier", "reduce_all"}
    <3>1. S(k + 1) = S(k)
      BY <2>3
    <3> QED BY <1>2, <2>3, <3>1, Zenon
  <2> QED BY <2>2, <2>3
<1>5. ASSUME NEW k \in Nat, NEW l \in Nat, k <= l
      PROVE  Synchronising(k) \in Nat /\ Synchronising(k) <= Synchronising(l)
  <2>1. S(k) \in SUBSET S(l)
    BY <1>5
  <2> HIDE DEF S
  <2>2. Cardinality(S(k)) \in Nat /\ Cardinality(S(k)) <= Cardinality(S(l))
    BY <1>1, <2>1, FS_CardinalityType, FS_Subset
  <2> QED BY <1>2, <2>2
<1>6. \A k \in Nat : k <= k
  OBVIOUS
<1> QED BY <1>3, <1>4, <1>5, <1>6

\* A node that has what the root hands down for a synchronising operation k got it
\* along a path from the root, which handed it down after its children had sent for
\* k, and they after theirs: everybody has begun k.
LEMMA EveryoneIn ==
  ASSUME IndInv, NEW k \in UpOps \cap DownOps, NEW n \in Nodes, RecvdDown(n) >= k
  PROVE  \A m \in Nodes : count[m] >= k
<1>1. Types /\ Traffic /\ k \in Nat
  BY Constants DEF IndInv
<1>2. /\ Root \in Nodes /\ \A m \in Nodes : IsRoot(m) <=> m = Root
      /\ IsTree(tree, Nodes)
  BY <1>1, RootFacts, CollectivesAssumption DEF Types
<1>3. \A m \in Nodes : count[m] \in Nat
  BY <1>1, Constants DEF Types
<1>4. ASSUME NEW m \in Nodes, ~IsRoot(m)
      PROVE  /\ tree.parent[m] \in Nodes
             /\ RecvdDown(m) >= k => RecvdDown(tree.parent[m]) >= k
             /\ SentUp(tree.parent[m]) >= k => SentUp(m) >= k
  <2> PICK p \in Nodes : p = tree.parent[m]
    BY <1>1, <1>4, LinkFacts, NodeTypes, Zenon
  <2>1. PICK i \in Children(p) : tree.children[p][i] = m
    BY <1>1, <1>4, LinkFacts, Zenon DEF Types
  <2>2. /\ k <= RecvdUp(p, i) => k <= SentUp(m)
        /\ k <= RecvdDown(m) => k <= SentDown(p, i)
    <3>1. /\ Carries(UpOps, up[p][i], RecvdUp(p, i), SentUp(m))
          /\ Carries(DownOps, down[p][i], RecvdDown(m), SentDown(p, i))
      BY <1>1, <2>1, Zenon DEF Traffic
    <3> QED BY <3>1, Zenon DEF Carries
  <2>3. count[p] \in Nat /\ count[m] \in Nat
    BY <1>3
  <2>4. SentUp(p) >= k => k <= RecvdUp(p, i)
    BY <1>1, <2>3 DEF SentUp, RecvdUp
  <2>5. k <= SentDown(p, i) => RecvdDown(p) >= k
    BY <1>1, <2>3 DEF SentDown, RecvdDown
  <2>6. SentUp(m) \in Int /\ RecvdDown(m) \in Int
    BY <2>3 DEF SentUp, RecvdDown
  <2> QED BY <1>1, <2>2, <2>4, <2>5, <2>6, Zenon
<1>5. ASSUME NEW R \in SUBSET Nodes, Root \in R,
             \A m \in Nodes : tree.parent[m] \in R => m \in R
      PROVE  R = Nodes
  <2>1. \A m \in Nodes : tree.parent[m] \in R \cup {NoNode} => m \in R
    BY <1>2, <1>5 DEF IsRoot
  <2> QED BY <1>2, <2>1, Zenon DEF IsTree
<1>6. ASSUME NEW m \in Nodes, tree.parent[m] \in Nodes PROVE ~IsRoot(m)
  BY <1>6, Constants DEF IsRoot
<1>7. RecvdDown(Root) >= k
  <2> DEFINE R == {m \in Nodes : ~(RecvdDown(m) >= k)}
  <2> SUFFICES ASSUME Root \in R PROVE FALSE
    BY <1>2
  <2>1. \A m \in Nodes : tree.parent[m] \in R => m \in R
    BY <1>4, <1>6
  <2>2. R \in SUBSET Nodes
    OBVIOUS
  <2>3. R = Nodes
    <3> HIDE DEF R
    <3> QED BY <1>5, <2>1, <2>2
  <2>4. n \in R
    BY <2>3
  <2> QED BY <2>4
<1>8. \A m \in Nodes : SentUp(m) >= k
  <2> DEFINE R == {m \in Nodes : SentUp(m) >= k}
  <2>1. Root \in R
    BY <1>1, <1>2, <1>3, <1>7 DEF RecvdDown, SentUp
  <2>2. \A m \in Nodes : tree.parent[m] \in R => m \in R
    BY <1>4, <1>6, Zenon
  <2>3. R \in SUBSET Nodes
    OBVIOUS
  <2>4. R = Nodes
    <3> HIDE DEF R
    <3> QED BY <1>5, <2>1, <2>2, <2>3, Zenon
  <2> QED BY <2>4
<1> QED BY <1>1, <1>3, <1>8 DEF SentUp

\* Nobody has entered or left.
LEMMA RefineInit == Init => Abstract!Init
<1> SUFFICES ASSUME Init PROVE Abstract!Init
  OBVIOUS
<1>1. \A n \in Nodes : count[n] = 0 /\ Len(result[n]) = 0
  BY DEF Init
<1> QED BY <1>1, SynchronisingSteps, Zenon DEF Abstract!Init

\* Calling a synchronising operation is the abstract Enter, calling another one no
\* step.
LEMMA RefineCall ==
  ASSUME IndInv, IndInv', NEW n \in Nodes, Call(n)
  PROVE  Abstract!Enter(n) \/ UNCHANGED Abstract!vars
<1>1. /\ count[n] \in Nat /\ count[n] + 1 \in Nat /\ count \in [Nodes -> 0 .. MaxOps]
      /\ Len(result[n]) = count[n]
  <2>1. Types /\ Place(n) /\ pc[n] = "out"
    BY Zenon DEF IndInv, Call
  <2>2. count \in [Nodes -> 0 .. MaxOps]
    BY <2>1, Zenon DEF Types
  <2>3. count[n] \in Nat
    BY <2>1, NodeTypes, Zenon
  <2>4. Len(result[n]) = count[n]
    BY <2>1, Zenon DEF Place
  <2> QED BY <2>2, <2>3, <2>4
<1>2. /\ program' = program /\ result' = result /\ count' = [count EXCEPT ![n] = count[n] + 1]
  BY DEF Call
<1>3. \A k : Synchronising(k)' = Synchronising(k)
  BY <1>2 DEF Synchronising
<1>4. [m \in Nodes |-> Synchronising(Len(result[m]))]'
        = [m \in Nodes |-> Synchronising(Len(result[m]))]
  BY <1>2, <1>3
<1>5. \A m \in Nodes \ {n} : count'[m] = count[m]
  BY <1>1, <1>2
<1>6. count'[n] = count[n] + 1
  BY <1>1, <1>2
<1>7. CASE program[count[n] + 1] \in {"barrier", "reduce_all"}
  <2>1. Synchronising(count[n] + 1) = Synchronising(count[n]) + 1
    BY <1>1, <1>7, SynchronisingSteps, Zenon
  <2>2. [m \in Nodes |-> Synchronising(count[m])]'
          = [[m \in Nodes |-> Synchronising(count[m])] EXCEPT ![n] = @ + 1]
    BY <1>3, <1>5, <1>6, <2>1, Zenon
  <2> QED BY <1>1, <1>4, <2>2 DEF Abstract!Enter
<1>8. CASE program[count[n] + 1] \notin {"barrier", "reduce_all"}
  <2>1. Synchronising(count[n] + 1) = Synchronising(count[n])
    BY <1>1, <1>8, SynchronisingSteps, Zenon
  <2>2. [m \in Nodes |-> Synchronising(count[m])]' = [m \in Nodes |-> Synchronising(count[m])]
    BY <1>3, <1>5, <1>6, <2>1
  <2> QED BY <1>4, <2>2 DEF Abstract!vars
<1> QED BY <1>7, <1>8

\* Returning from a synchronising operation is the abstract Leave.
LEMMA RefineReturn ==
  ASSUME IndInv, IndInv', NEW n \in Nodes, Return(n)
  PROVE  Abstract!Leave(n) \/ UNCHANGED Abstract!vars
<1> DEFINE k == count[n]
<1>1. /\ \A m \in Nodes : count[m] \in Nat
      /\ result \in [Nodes -> Seq(Message)] /\ msg[n] \in Message
      /\ k \in 1 .. MaxOps /\ Len(result[n]) = k - 1
  <2>1. /\ \A m \in Nodes : count[m] \in Nat /\ count[m] <= MaxOps
        /\ result \in [Nodes -> Seq(Message)]
    BY DEF IndInv, Types
  <2>2. k > 0 /\ Len(result[n]) = k - 1 /\ msg[n] \in Message
    BY Zenon DEF IndInv, Place, Return
  <2> QED BY <2>1, <2>2
<1>2. /\ program' = program /\ count' = count
      /\ result' = [result EXCEPT ![n] = Append(result[n], msg[n])]
  BY DEF Return
<1>3. \A j : Synchronising(j)' = Synchronising(j)
  BY <1>2 DEF Synchronising
<1>4. [m \in Nodes |-> Synchronising(count[m])]' = [m \in Nodes |-> Synchronising(count[m])]
  BY <1>2, <1>3
<1>5. Len(result'[n]) = k /\ \A m \in Nodes \ {n} : result'[m] = result[m]
  BY <1>1, <1>2
<1>6. k - 1 \in Nat /\ (k - 1) + 1 = k
  BY <1>1
<1>7. CASE program[k] \in {"barrier", "reduce_all"}
  <2>1. Synchronising(k) = Synchronising(k - 1) + 1 /\ Synchronising(k - 1) \in Nat
    BY <1>6, <1>7, SynchronisingSteps, Zenon
  <2>2. [m \in Nodes |-> Synchronising(Len(result[m]))]'
          = [[m \in Nodes |-> Synchronising(Len(result[m]))] EXCEPT ![n] = @ + 1]
    BY <1>1, <1>3, <1>5, <2>1, Zenon
  <2>3. k \in UpOps \cap DownOps
    BY <1>1, <1>7 DEF UpOps, DownOps
  <2>4. pc[n] = "down"
    <3>1. Place(n) /\ (pc[n] = "return" \/ pc[n] = "down")
      BY Zenon DEF IndInv, Return
    <3>2. Op(n) # "reduce"
      BY <1>7 DEF Op
    <3> QED BY <3>1, <3>2, Zenon DEF Place
  <2>5. RecvdDown(n) >= k
    BY <1>1, <2>4 DEF RecvdDown
  <2>6. \A m \in Nodes : count[m] >= k
    BY <2>3, <2>5, EveryoneIn
  <2>7. \A m \in Nodes : Synchronising(count[m]) >= Synchronising(k)
    <3> SUFFICES ASSUME NEW m \in Nodes PROVE Synchronising(count[m]) >= Synchronising(k)
      OBVIOUS
    <3>1. count[m] \in Nat /\ k \in Nat /\ k <= count[m]
      BY <1>1, <2>6, Constants
    <3>2. /\ Synchronising(k) <= Synchronising(count[m])
          /\ Synchronising(k) \in Nat /\ Synchronising(count[m]) \in Nat
      BY <3>1, SynchronisingSteps, Zenon
    <3> QED BY <3>2
  <2>8. Synchronising(Len(result[n])) < Synchronising(k)
    BY <1>1, <2>1
  <2> QED BY <1>4, <2>2, <2>7, <2>8, Zenon DEF Abstract!Leave
<1>8. CASE program[k] \notin {"barrier", "reduce_all"}
  <2>1. Synchronising(k) = Synchronising(k - 1)
    BY <1>6, <1>8, SynchronisingSteps, Zenon
  <2>2. [m \in Nodes |-> Synchronising(Len(result[m]))]'
          = [m \in Nodes |-> Synchronising(Len(result[m]))]
    BY <1>1, <1>3, <1>5, <2>1, Zenon
  <2> QED BY <1>4, <2>2, Zenon DEF Abstract!vars
<1> QED BY <1>7, <1>8

\* Every step of a node is one of the abstract barrier, or none.
LEMMA RefineNext == IndInv /\ IndInv' /\ [Next]_vars => [Abstract!Next]_(Abstract!vars)
<1> SUFFICES ASSUME IndInv, IndInv', [Next]_vars
             PROVE  Abstract!Next \/ UNCHANGED Abstract!vars
  OBVIOUS
<1>1. ASSUME program' = program, count' = count, result' = result
      PROVE  UNCHANGED Abstract!vars
  BY <1>1 DEF Abstract!vars, Synchronising
<1>2. ASSUME NEW n \in Nodes, Poll(n) \/ SendUp(n) \/ RecvDown(n) \/ SendDown(n)
      PROVE  UNCHANGED Abstract!vars
  BY <1>1, <1>2, Zenon DEF Poll, SendUp, RecvDown, SendDown
<1>3. CASE UNCHANGED vars
  BY <1>1, <1>3 DEF vars
<1>4. ASSUME NEW n \in Nodes, Call(n) \/ Return(n)
      PROVE  Abstract!Next \/ UNCHANGED Abstract!vars
  BY <1>4, RefineCall, RefineReturn DEF Abstract!Next
<1> QED BY <1>2, <1>3, <1>4 DEF Next, Step

\* smlt_barrier_wait and smlt_reduce_all are barriers on every tree, with queues of
\* any capacity and among any other operations.
THEOREM Refinement == Spec => ImplementsBarrier
BY RefineInit, RefineNext, Invariance, PTL DEF Spec, ImplementsBarrier, Abstract!Spec

-----------------------------------------------------------------------------
(* The binary tree.                                                        *)

(* Halving, as smlt_topology_create_binary_tree does it: the position of a *)
(* node in the tree determines its parent and back.                        *)
LEMMA Halving ==
  ASSUME NEW i \in Nat \ {0}
  PROVE  /\ i % 2 = 0 => i \div 2 \in Nat \ {0} /\ i = 2 * (i \div 2)
         /\ i % 2 # 0 => i \div 2 \in Nat /\ i = 2 * (i \div 2) + 1
  OBVIOUS

(* The parent of a node other than the root has it as the child at its     *)
(* array_index.                                                            *)
LEMMA ParentHasChild ==
  ASSUME NEW N \in Nat, NEW i \in 0 .. N - 1, i # 0
  PROVE  /\ BinParent(i) \in 0 .. N - 1
         /\ BinIndex(i) + 1 \in DOMAIN BinChildren(BinParent(i), N)
         /\ BinChildren(BinParent(i), N)[BinIndex(i) + 1] = i
<1>1. i \in Nat \ {0}
  OBVIOUS
<1>2. CASE i % 2 = 0
  <2>1. PICK h \in Nat \ {0} : i = 2 * h /\ h = i \div 2
    BY <1>1, <1>2, Halving
  <2>2. BinParent(i) = h - 1 /\ BinIndex(i) = 1
    BY <1>2, <2>1 DEF BinParent, BinIndex
  <2>3. BinChildren(h - 1, N) = <<i - 1, i>>
    BY <2>1 DEF BinChildren
  <2> QED BY <2>1, <2>2, <2>3
<1>3. CASE i % 2 # 0
  <2>1. PICK h \in Nat : i = 2 * h + 1 /\ h = i \div 2
    BY <1>1, <1>3, Halving
  <2>2. BinParent(i) = h /\ BinIndex(i) = 0
    BY <1>3, <2>1 DEF BinParent, BinIndex
  <2>3. BinChildren(h, N) = <<i>> \/ BinChildren(h, N) = <<i, i + 1>>
    BY <2>1 DEF BinChildren
  <2> QED BY <2>1, <2>2, <2>3
<1> QED BY <1>2, <1>3

(* The children of a node are nodes, have it as their parent, and know     *)
(* their position.                                                         *)
LEMMA ChildHasParent ==
  ASSUME NEW N \in Nat, NEW n \in 0 .. N - 1, NEW i \in DOMAIN BinChildren(n, N)
  PROVE  LET c == BinChildren(n, N)[i]
         IN  c \in 0 .. N - 1 /\ BinParent(c) = n /\ BinIndex(c) = i - 1
<1> DEFINE c == BinChildren(n, N)[i]
<1>1. \/ i = 1 /\ c = 2 * n + 1 /\ 2 * n + 1 < N
      \/ i = 2 /\ c = 2 * n + 2 /\ 2 * n + 2 < N
  BY DEF BinChildren
<1>2. CASE i = 1 /\ c = 2 * n + 1 /\ 2 * n + 1 < N
  <2>1. c \in Nat \ {0} /\ c % 2 # 0 /\ c \div 2 = n
    BY <1>2
  <2> QED BY <1>2, <2>1 DEF BinParent, BinIndex
<1>3. CASE i = 2 /\ c = 2 * n + 2 /\ 2 * n + 2 < N
  <2>1. c \in Nat \ {0} /\ c % 2 = 0 /\ c \div 2 = n + 1
    BY <1>3
  <2> QED BY <1>3, <2>1 DEF BinParent, BinIndex
<1> QED BY <1>1, <1>2, <1>3

(* In the binary tree of any number of nodes the links up and down agree,  *)
(* so that smlt_context_create gives a node and its parent the two ends of *)
(* the same channel, and only node 0 is a root.                            *)
THEOREM BinaryTreeLinks ==
  ASSUME NEW N \in Nat
  PROVE  /\ LinksAgree(BinaryTree(N))
         /\ \A n \in 0 .. N - 1 : BinaryTree(N).parent[n] = NoNode <=> n = 0
<1> DEFINE t == BinaryTree(N)
<1>1. /\ DOMAIN t.parent = 0 .. N - 1
      /\ \A n \in 0 .. N - 1 : /\ t.parent[n] = BinParent(n)
                               /\ t.index[n] = BinIndex(n)
                               /\ t.children[n] = BinChildren(n, N)
  BY Zenon DEF BinaryTree
<1>2. \A n \in 0 .. N - 1 : BinParent(n) = NoNode <=> n = 0
  BY ParentHasChild DEF BinParent, NoNode
<1>3. ASSUME NEW n \in 0 .. N - 1, t.parent[n] # NoNode
      PROVE  /\ t.index[n] + 1 \in DOMAIN t.children[t.parent[n]]
             /\ t.children[t.parent[n]][t.index[n] + 1] = n
  <2>1. n # 0
    BY <1>1, <1>2, <1>3
  <2> HIDE DEF t
  <2>2. /\ BinParent(n) \in 0 .. N - 1
        /\ BinIndex(n) + 1 \in DOMAIN BinChildren(BinParent(n), N)
        /\ BinChildren(BinParent(n), N)[BinIndex(n) + 1] = n
    BY <2>1, ParentHasChild
  <2>3. t.parent[n] = BinParent(n) /\ t.index[n] = BinIndex(n)
    BY <1>1
  <2>4. t.children[BinParent(n)] = BinChildren(BinParent(n), N)
    BY <1>1, <2>2
  <2> QED BY <2>2, <2>3, <2>4, Zenon
<1>4. ASSUME NEW n \in 0 .. N - 1, NEW i \in DOMAIN t.children[n]
      PROVE  /\ t.children[n][i] \in DOMAIN t.parent
             /\ t.parent[t.children[n][i]] = n
             /\ t.index[t.children[n][i]] = i - 1
  <2> HIDE DEF t
  <2>1. i \in DOMAIN BinChildren(n, N)
    BY <1>1
  <2> QED BY <1>1, <2>1, ChildHasParent
<1>5. LinksAgree(t)
  BY <1>1, <1>3, <1>4, Zenon DEF LinksAgree
<1> QED BY <1>1, <1>2, <1>5

(* A set of natural numbers has a least element.                           *)
LEMMA LeastNatural ==
  ASSUME NEW T, T \subseteq Nat, T # {}
  PROVE  \E x \in T : \A y \in T : x <= y
<1>1. PICK x \in T : \A y \in T : ~(<<y, x>> \in OpToRel(<, Nat))
  BY NatLessThanWellFounded, WFMin
<1>2. \A y \in T : ~(y < x)
  BY <1>1, Zenon DEF OpToRel
<1> QED BY <1>2

(* The binary tree of any number of nodes is a tree of these nodes, as the *)
(* collective operations assume.                                           *)
THEOREM BinaryTreeIsTree ==
  ASSUME NEW N \in Nat \ {0}
  PROVE  IsTree(BinaryTree(N), 0 .. N - 1)
<1> DEFINE t == BinaryTree(N)
           S == 0 .. N - 1
<1>1. /\ t.parent = [i \in S |-> BinParent(i)]
      /\ t.index = [i \in S |-> BinIndex(i)]
      /\ t.children = [i \in S |-> BinChildren(i, N)]
  BY DEF BinaryTree
<1>2. \A i \in S : BinParent(i) = NoNode <=> i = 0
  BY ParentHasChild DEF BinParent, NoNode
<1>3. LinksAgree(t) /\ 0 \in S
  BY BinaryTreeLinks
<1> HIDE DEF t
<1>4. t.parent \in [S -> S \cup {NoNode}]
  BY <1>1, <1>2, ParentHasChild
<1>5. t.index \in [S -> Nat]
  BY <1>1 DEF BinIndex
<1>6. t.children \in [S -> Seq(S)]
  <2>1. ASSUME NEW i \in S PROVE BinChildren(i, N) \in Seq(S)
    <3>1. /\ 2 * i + 1 < N => 2 * i + 1 \in S
          /\ 2 * i + 2 < N => 2 * i + 2 \in S
      OBVIOUS
    <3>2. \A a, b \in S : <<a>> \in Seq(S) /\ <<a, b>> \in Seq(S) /\ <<>> \in Seq(S)
      OBVIOUS
    <3> HIDE DEF S
    <3> QED BY <3>1, <3>2 DEF BinChildren
  <2> QED BY <1>1, <2>1
<1>7. \E r \in S : \A n \in S : t.parent[n] = NoNode <=> n = r
  BY <1>1, <1>2, <1>3
<1>8. ASSUME NEW R \in SUBSET S, \A n \in S : t.parent[n] \in R \cup {NoNode} => n \in R
      PROVE  R = S
  <2> SUFFICES ASSUME S \ R # {} PROVE FALSE
    OBVIOUS
  <2>1. PICK n \in S \ R : \A m \in S \ R : n <= m
    <3>1. S \ R \subseteq Nat
      OBVIOUS
    <3> HIDE DEF S
    <3> QED BY <3>1, LeastNatural, Zenon
  <2>2. n # 0 /\ BinParent(n) \notin R
    BY <1>1, <1>2, <1>3, <1>8
  <2>3. BinParent(n) \in S
    BY <2>2, ParentHasChild
  <2>4. BinParent(n) < n
    BY <2>2, Halving DEF BinParent
  <2> QED BY <2>1, <2>2, <2>3, <2>4
<1>9. IsTree(t, S)
  <2> HIDE DEF S
  <2> QED BY <1>3, <1>4, <1>5, <1>6, <1>7, <1>8, Zenon DEF IsTree
<1> QED BY <1>9 DEF t

=============================================================================
