------------------------- MODULE SubscriptionsProofs -------------------------
(***************************************************************************)
(* Proofs about Subscriptions and the name trees it keeps (StringTree), in *)
(* this order: search finds what insert filed; the types; no assertion     *)
(* fails and every timer has its node; callbacks are confirmed in the      *)
(* order in which they asked; every event is delivered once.               *)
(***************************************************************************)
EXTENDS Subscriptions, NaturalFacts, SequenceTheorems, FunctionTheorems,
        FiniteSetTheorems, TLAPS

-----------------------------------------------------------------------------
(* Name trees.                                                             *)

Paths == Seq(Turns)

\* The paths of a tree are sequences of turns of bounded length.
IsTree(tree) ==
    /\ DOMAIN tree \subseteq Paths
    /\ \E n \in Nat : \A p \in DOMAIN tree : Len(p) <= n

\* The node p of the tree is where both walks for the key end.
NodeOf(tree, key, p) == p \in DOMAIN tree /\ InsertEnds(tree, key, p)

\* insert and search turn alike: they differ in the order of their tests.
LEMMA TurnsAgree ==
    ASSUME NEW key, NEW other
    PROVE  /\ InsertTurn(key, other) = SearchTurn(key, other)
           /\ InsertTurn(key, other) \in Turns \cup {"stop"}
           /\ InsertTurn(key, other) = "stop" <=> strncmp(key, other) = 0
  <1>1. strncmp(key, other) \in {-1, 0, 1}
    BY Zenon DEF strncmp
  <1> QED
    BY <1>1 DEF InsertTurn, SearchTurn, Turns

LEMMA WalksAgree ==
    ASSUME NEW tree, NEW key, NEW p
    PROVE  SearchEnds(tree, key, p) <=> InsertEnds(tree, key, p)
  BY TurnsAgree, Zenon DEF SearchEnds, InsertEnds

\* A key matches itself.
LEMMA SelfMatch ==
    ASSUME NEW key \in Seq(Nat)
    PROVE  InsertTurn(key, key) = "stop"
  <1>1. Len(key) \in Nat
    OBVIOUS
  <1>2. {i \in 1..Len(key) : i > Len(key) \/ key[i] # key[i]} = {}
    BY <1>1
  <1>3. strncmp(key, key) = 0
    BY <1>2, Zenon DEF strncmp
  <1> QED
    BY <1>3, TurnsAgree

LEMMA EqualPrefixes ==
    ASSUME NEW p \in Paths, NEW q \in Paths, NEW n \in Nat, n <= Len(p), n <= Len(q),
           \A j \in 1..n : p[j] = q[j]
    PROVE  SubSeq(p, 1, n) = SubSeq(q, 1, n)
  <1>1. \A j \in 1..n : p[j] \in Turns /\ q[j] \in Turns
    BY DEF Paths
  <1>2. /\ SubSeq(p, 1, n) \in Seq(Turns) /\ SubSeq(q, 1, n) \in Seq(Turns)
        /\ Len(SubSeq(p, 1, n)) = n /\ Len(SubSeq(q, 1, n)) = n
        /\ \A j \in 1..n : SubSeq(p, 1, n)[j] = p[j] /\ SubSeq(q, 1, n)[j] = q[j]
    BY <1>1, SubSeqProperties
  <1> QED
    BY <1>2, SeqEqual

\* Where two walks for one key end, the first does not leave the second.
LEMMA EndsDoNotFork ==
    ASSUME NEW tree, NEW key, NEW p \in Paths, NEW q \in Paths,
           InsertEnds(tree, key, p), InsertEnds(tree, key, q)
    PROVE  Len(p) <= Len(q) /\ \A i \in 1..Len(p) : p[i] = q[i]
  <1> DEFINE D == {i \in 1..Len(p) : i > Len(q) \/ p[i] # q[i]}
  <1>1. Len(p) \in Nat /\ Len(q) \in Nat
    BY DEF Paths
  <1>2. SUFFICES ASSUME D # {} PROVE FALSE
    <2>1. D = {} => \A i \in 1..Len(p) : ~(i > Len(q)) /\ p[i] = q[i]
      OBVIOUS
    <2>2. (\A i \in 1..Len(p) : ~(i > Len(q))) => Len(p) <= Len(q)
      BY <1>1
    <2> QED
      BY <2>1, <2>2
  <1>3. PICK i \in D : \A j \in D : i <= j
    <2>1. D \in SUBSET Nat
      BY <1>1
    <2> QED
      BY <1>2, <2>1, LeastNatural
  <1> DEFINE above == SubSeq(p, 1, i - 1)
  <1>4. \A j \in 1..(i - 1) : j <= Len(q) /\ p[j] = q[j]
    <2>1. ASSUME NEW j \in 1..(i - 1) PROVE j <= Len(q) /\ p[j] = q[j]
      <3>1. j \in 1..Len(p) /\ ~(i <= j)
        BY <1>1
      <3>2. j \notin D
        BY <3>1, <1>3
      <3> QED
        BY <3>1, <3>2, <1>1
    <2> QED
      BY <2>1
  <1>5. above = SubSeq(q, 1, i - 1)
    <2>1. i - 1 \in Nat /\ i - 1 <= Len(p)
      BY <1>1
    <2>2. i - 1 <= Len(q)
      <3>1. i - 1 = 0 \/ i - 1 \in 1..(i - 1)
        BY <2>1
      <3> QED
        BY <3>1, <1>1, <1>4
    <2> QED
      BY <2>1, <2>2, <1>4, EqualPrefixes
  <1>6. above \in DOMAIN tree /\ InsertTurn(key, tree[above]) = p[i]
    BY DEF InsertEnds
  <1>7. p[i] \in Turns
    BY <1>1, ElementOfSeq DEF Paths
  <1>8. CASE i <= Len(q)
    <2>1. i \in 1..Len(q)
      BY <1>8, <1>1
    <2>2. InsertTurn(key, tree[SubSeq(q, 1, i - 1)]) = q[i]
      BY <2>1 DEF InsertEnds
    <2>3. p[i] # q[i]
      BY <1>8, <1>1
    <2> HIDE DEF D
    <2> QED
      BY <1>5, <1>6, <2>2, <2>3
  <1>9. CASE ~(i <= Len(q))
    <2>1. i - 1 = Len(q)
      <3>1. i - 1 = 0 \/ i - 1 \in 1..(i - 1)
        BY <1>1
      <3> QED
        BY <3>1, <1>1, <1>4, <1>9
    <2>2. above = q
      BY <2>1, <1>5, SubSeqFull DEF Paths
    <2>3. InsertTurn(key, tree[above]) = "stop"
      BY <2>2, <1>6 DEF InsertEnds
    <2> QED
      BY <2>3, <1>6, <1>7 DEF Turns
  <1> QED
    BY <1>8, <1>9

\* A walk ends at one place.
LEMMA EndIsUnique ==
    ASSUME NEW tree, NEW key, NEW p \in Paths, NEW q \in Paths,
           InsertEnds(tree, key, p), InsertEnds(tree, key, q)
    PROVE  p = q
  <1>1. Len(p) <= Len(q) /\ Len(q) <= Len(p) /\ \A i \in 1..Len(p) : p[i] = q[i]
    BY EndsDoNotFork
  <1>2. Len(p) = Len(q)
    BY <1>1 DEF Paths
  <1> QED
    BY <1>1, <1>2, SeqEqual DEF Paths

LEMMA PlaceCases ==
    ASSUME NEW tree, NEW p
    PROVE  p \in Places(tree) <=>
             p = <<>> \/ p \in DOMAIN tree \/ \E q \in DOMAIN tree, t \in Turns : p = Append(q, t)
  BY DEF Places

LEMMA PlacesArePaths ==
    ASSUME NEW tree, IsTree(tree)
    PROVE  Places(tree) \subseteq Paths
  <1>1. \A p \in Paths, t \in Turns : Append(p, t) \in Paths
    BY DEF Paths
  <1>2. <<>> \in Paths
    BY EmptySeq DEF Paths
  <1>3. DOMAIN tree \subseteq Paths
    BY DEF IsTree
  <1>4. \A p \in DOMAIN tree, t \in Turns : Append(p, t) \in Paths
    BY <1>1, <1>3
  <1>5. ASSUME NEW p \in Places(tree) PROVE p \in Paths
    <2>1. p = <<>> \/ p \in DOMAIN tree \/ \E q \in DOMAIN tree, t \in Turns : p = Append(q, t)
      BY PlaceCases
    <2> QED
      BY <2>1, <1>2, <1>3, <1>4
  <1> QED
    BY <1>5

\* Every walk ends: the longest node that a walk passes either stops it or
\* leads to a free place.
LEMMA WalkEnds ==
    ASSUME NEW tree, NEW key, IsTree(tree)
    PROVE  \E p \in Places(tree) : InsertEnds(tree, key, p)
  <1> DEFINE Passes(p) == \A i \in 1..Len(p) :
                            /\ SubSeq(p, 1, i - 1) \in DOMAIN tree
                            /\ InsertTurn(key, tree[SubSeq(p, 1, i - 1)]) = p[i]
             Lengths == {Len(p) : p \in {q \in Places(tree) : Passes(q)}}
  <1>1. PICK n \in Nat : \A p \in DOMAIN tree : Len(p) <= n
    BY DEF IsTree
  <1>2. Places(tree) \subseteq Paths
    BY PlacesArePaths
  <1>3. \A p \in Paths : Len(p) \in Nat
    BY DEF Paths
  <1>4. \A p \in Places(tree) : Len(p) <= n + 1
    <2>1. Len(<<>>) = 0
      OBVIOUS
    <2>2. ASSUME NEW p \in DOMAIN tree, NEW t \in Turns PROVE Len(Append(p, t)) <= n + 1
      <3>1. p \in Seq(Turns) /\ Len(p) <= n
        BY <1>1 DEF IsTree, Paths
      <3> QED
        BY <3>1
    <2>3. ASSUME NEW p \in DOMAIN tree PROVE Len(p) <= n + 1
      <3>1. p \in Seq(Turns) /\ Len(p) <= n
        BY <1>1 DEF IsTree, Paths
      <3> QED
        BY <3>1
    <2>4. 0 <= n + 1
      OBVIOUS
    <2> QED
      BY <2>1, <2>2, <2>3, <2>4, PlaceCases
  <1>5. <<>> \in Places(tree) /\ Passes(<<>>)
    BY DEF Places
  <1>6. Lengths \in SUBSET Nat /\ Lengths # {} /\ \A l \in Lengths : l <= n + 1
    <2>1. Lengths \in SUBSET Nat
      BY <1>2, <1>3
    <2>2. Lengths # {}
      BY <1>5
    <2>3. \A l \in Lengths : l <= n + 1
      BY <1>4
    <2> QED
      BY <2>1, <2>2, <2>3
  <1> HIDE DEF Passes
  <1>7. PICK p \in Places(tree) : Passes(p) /\ \A l \in Lengths : l <= Len(p)
    <2>1. n + 1 \in Nat
      OBVIOUS
    <2>2. Max(Lengths) \in Lengths /\ \A l \in Lengths : Max(Lengths) >= l
      BY <1>6, <2>1, MaxIs
    <2>3. \A l \in Lengths : l <= Max(Lengths)
      BY <2>2, <1>6
    <2> QED
      BY <2>2, <2>3
  <1>8. p \in Paths /\ Len(p) \in Nat
    BY <1>2, <1>3
  <1>9. CASE p \in DOMAIN tree /\ InsertTurn(key, tree[p]) # "stop"
    <2> DEFINE t == InsertTurn(key, tree[p])
               q == Append(p, t)
    <2>1. t \in Turns
      BY <1>9, TurnsAgree
    <2>2. q \in Places(tree)
      BY <1>9, <2>1 DEF Places
    <2>3. /\ Len(q) = Len(p) + 1 /\ q[Len(p) + 1] = t
          /\ \A i \in 1..Len(p) : q[i] = p[i]
          /\ q \in Paths
      BY <1>8, <2>1, AppendProperties DEF Paths
    <2> HIDE DEF t, q
    <2>4. \A i \in 1..(Len(p) + 1) : SubSeq(q, 1, i - 1) = SubSeq(p, 1, i - 1)
      <3>1. ASSUME NEW i \in 1..(Len(p) + 1) PROVE SubSeq(q, 1, i - 1) = SubSeq(p, 1, i - 1)
        <4>1. /\ i - 1 \in Nat /\ i - 1 <= Len(p) /\ i - 1 <= Len(q)
              /\ \A j \in 1..(i - 1) : q[j] = p[j]
          BY <2>3, <1>8
        <4> QED
          BY <4>1, <2>3, <1>8, EqualPrefixes
      <3> QED
        BY <3>1
    <2>5. SubSeq(p, 1, Len(p)) = p
      BY <1>8, SubSeqFull DEF Paths
    <2>6. Passes(q)
      <3>1. ASSUME NEW i \in 1..Len(q)
            PROVE  /\ SubSeq(q, 1, i - 1) \in DOMAIN tree
                   /\ InsertTurn(key, tree[SubSeq(q, 1, i - 1)]) = q[i]
        <4>1. CASE i \in 1..Len(p)
          <5>1. /\ SubSeq(p, 1, i - 1) \in DOMAIN tree
                /\ InsertTurn(key, tree[SubSeq(p, 1, i - 1)]) = p[i]
            BY <1>7, <4>1 DEF Passes
          <5>2. SubSeq(q, 1, i - 1) = SubSeq(p, 1, i - 1) /\ q[i] = p[i]
            BY <2>3, <2>4, <4>1, <1>8
          <5> QED
            BY <5>1, <5>2
        <4>2. CASE i = Len(p) + 1
          <5>1. SubSeq(q, 1, i - 1) = p
            <6>1. i \in 1..(Len(p) + 1) /\ i - 1 = Len(p)
              BY <4>2, <1>8
            <6> QED
              BY <6>1, <2>4, <2>5
          <5> QED
            BY <5>1, <1>9, <2>3, <4>2 DEF t
        <4> QED
          BY <4>1, <4>2, <2>3, <1>8
      <3> QED
        BY <3>1 DEF Passes
    <2>7. Len(q) \in Lengths
      BY <2>2, <2>6
    <2> QED
      BY <2>7, <2>3, <1>7, <1>8
  <1>10. CASE ~(p \in DOMAIN tree /\ InsertTurn(key, tree[p]) # "stop")
    <2>1. InsertEnds(tree, key, p)
      BY <1>7, <1>10, Zenon DEF InsertEnds, Passes
    <2> QED
      BY <2>1
  <1> QED
    BY <1>9, <1>10

LEMMA InsertLeafEnds ==
    ASSUME NEW tree, NEW key, IsTree(tree)
    PROVE  InsertLeaf(tree, key) \in Places(tree) /\ InsertEnds(tree, key, InsertLeaf(tree, key))
  BY WalkEnds, Zenon DEF InsertLeaf

LEMMA SearchIsEnd ==
    ASSUME NEW tree, NEW key, IsTree(tree)
    PROVE  search(tree, key) \in Places(tree) /\ InsertEnds(tree, key, search(tree, key))
  <1>1. \E p \in Places(tree) : SearchEnds(tree, key, p)
    BY WalkEnds, WalksAgree, Zenon
  <1>2. search(tree, key) \in Places(tree) /\ SearchEnds(tree, key, search(tree, key))
    BY <1>1, Zenon DEF search
  <1> QED
    BY <1>2, WalksAgree, Zenon

\* search finds the node of a key.
LEMMA SearchFindsNode ==
    ASSUME NEW tree, NEW key, NEW p, IsTree(tree), NodeOf(tree, key, p)
    PROVE  search(tree, key) = p
  <1>1. search(tree, key) \in Places(tree) /\ InsertEnds(tree, key, search(tree, key))
    BY SearchIsEnd
  <1>2. p \in Paths /\ search(tree, key) \in Paths
    BY <1>1, PlacesArePaths DEF NodeOf, IsTree
  <1> QED
    BY <1>1, <1>2, EndIsUnique DEF NodeOf

\* insert leaves a tree, in which its leaf is the node of the key.
LEMMA InsertGivesNode ==
    ASSUME NEW tree, NEW key \in Seq(Nat), IsTree(tree)
    PROVE  /\ IsTree(insert(tree, key))
           /\ NodeOf(insert(tree, key), key, InsertLeaf(tree, key))
           /\ DOMAIN insert(tree, key) = DOMAIN tree \cup {InsertLeaf(tree, key)}
           /\ \A q \in DOMAIN tree : insert(tree, key)[q] = tree[q]
           /\ InsertLeaf(tree, key) \notin DOMAIN tree =>
                insert(tree, key)[InsertLeaf(tree, key)] = key
  <1> DEFINE p == InsertLeaf(tree, key)
             new == insert(tree, key)
  <1>1. p \in Places(tree) /\ InsertEnds(tree, key, p)
    BY InsertLeafEnds
  <1>2. new = [q \in DOMAIN tree \cup {p} |-> IF q \in DOMAIN tree THEN tree[q] ELSE key]
    BY DEF insert
  <1> HIDE DEF p, new
  <1>3. DOMAIN new = DOMAIN tree \cup {p}
    BY <1>2
  <1>4. /\ \A q \in DOMAIN tree : new[q] = tree[q]
        /\ p \notin DOMAIN tree => new[p] = key
    BY <1>2
  <1>5. p \in Paths /\ DOMAIN tree \subseteq Paths
    BY <1>1, PlacesArePaths DEF IsTree
  <1>6. IsTree(new)
    <2>1. PICK n \in Nat : \A q \in DOMAIN tree : Len(q) <= n
      BY DEF IsTree
    <2>2. Len(p) \in Nat /\ \A q \in DOMAIN tree : Len(q) \in Nat
      BY <1>5 DEF Paths
    <2>3. n + Len(p) \in Nat /\ \A q \in DOMAIN new : Len(q) <= n + Len(p)
      BY <1>3, <2>1, <2>2
    <2> QED
      BY <2>3, <1>3, <1>5, Zenon DEF IsTree
  <1>7. InsertEnds(new, key, p)
    <2>1. \A i \in 1..Len(p) :
            /\ SubSeq(p, 1, i - 1) \in DOMAIN tree
            /\ InsertTurn(key, tree[SubSeq(p, 1, i - 1)]) = p[i]
      BY <1>1 DEF InsertEnds
    <2>2. \A i \in 1..Len(p) :
            /\ SubSeq(p, 1, i - 1) \in DOMAIN new
            /\ InsertTurn(key, new[SubSeq(p, 1, i - 1)]) = p[i]
      BY <2>1, <1>3, <1>4
    <2>3. InsertTurn(key, new[p]) = "stop"
      <3>1. CASE p \in DOMAIN tree
        BY <3>1, <1>1, <1>4 DEF InsertEnds
      <3>2. CASE p \notin DOMAIN tree
        BY <3>2, <1>4, SelfMatch
      <3> QED
        BY <3>1, <3>2
    <2> QED
      BY <2>2, <2>3, Zenon DEF InsertEnds
  <1> QED
    BY <1>3, <1>4, <1>6, <1>7 DEF NodeOf, p, new

\* A later insertion does not move the node of a key.
LEMMA NodesStay ==
    ASSUME NEW tree, NEW key, NEW p, NEW other \in Seq(Nat), IsTree(tree), NodeOf(tree, key, p)
    PROVE  NodeOf(insert(tree, other), key, p)
  <1> DEFINE new == insert(tree, other)
  <1>1. DOMAIN tree \subseteq DOMAIN new /\ \A q \in DOMAIN tree : new[q] = tree[q]
    BY InsertGivesNode
  <1> HIDE DEF new
  <1>2. InsertEnds(new, key, p)
    <2>1. \A i \in 1..Len(p) :
            /\ SubSeq(p, 1, i - 1) \in DOMAIN tree
            /\ InsertTurn(key, tree[SubSeq(p, 1, i - 1)]) = p[i]
      BY DEF NodeOf, InsertEnds
    <2>2. \A i \in 1..Len(p) :
            /\ SubSeq(p, 1, i - 1) \in DOMAIN new
            /\ InsertTurn(key, new[SubSeq(p, 1, i - 1)]) = p[i]
      BY <2>1, <1>1
    <2>3. InsertTurn(key, new[p]) = "stop"
      BY <1>1 DEF NodeOf, InsertEnds
    <2> QED
      BY <2>2, <2>3, Zenon DEF InsertEnds
  <1> QED
    BY <1>1, <1>2 DEF NodeOf, new

\* A walk stops at a node whose key the key is a prefix of.
LEMMA StopsAtPrefix ==
    ASSUME NEW key \in Seq(Nat), NEW other \in Seq(Nat), InsertTurn(key, other) = "stop"
    PROVE  Len(key) <= Len(other) /\ SubSeq(other, 1, Len(key)) = key
  <1> DEFINE diff == {i \in 1..Len(key) : i > Len(other) \/ key[i] # other[i]}
  <1>1. strncmp(key, other) = 0
    BY TurnsAgree
  <1>2. diff = {}
    <2>1. SUFFICES ASSUME diff # {} PROVE FALSE
      OBVIOUS
    <2>2. strncmp(key, other) = -1 \/ strncmp(key, other) = 1
      BY <2>1, Zenon DEF strncmp
    <2> QED
      BY <1>1, <2>2
  <1>3. Len(key) \in Nat /\ Len(other) \in Nat
    OBVIOUS
  <1>4. \A i \in 1..Len(key) : i <= Len(other) /\ key[i] = other[i]
    BY <1>2, <1>3
  <1>5. Len(key) <= Len(other)
    <2>1. CASE Len(key) = 0
      BY <1>3, <2>1
    <2>2. CASE Len(key) # 0
      <3>1. Len(key) \in 1..Len(key)
        BY <1>3, <2>2
      <3> QED
        BY <1>4, <3>1
    <2> QED
      BY <2>1, <2>2
  <1>6. /\ SubSeq(other, 1, Len(key)) \in Seq(Nat) /\ Len(SubSeq(other, 1, Len(key))) = Len(key)
        /\ \A i \in 1..Len(key) : SubSeq(other, 1, Len(key))[i] = other[i]
    <2>1. \A i \in 1..Len(key) : other[i] \in Nat
      BY <1>3, <1>5
    <2> QED
      BY <1>3, <1>5, <2>1, SubSeqProperties
  <1> HIDE DEF diff
  <1> QED
    BY <1>4, <1>5, <1>6, SeqEqual

\* The node of a key holds the key when no key is a prefix of another one.
LEMMA NodeHoldsKey ==
    ASSUME NEW K, K \subseteq Seq(Nat), PrefixFree(K), NEW tree, tree \in [DOMAIN tree -> K],
           NEW key \in K, NEW p, NodeOf(tree, key, p)
    PROVE  tree[p] = key
  <1>1. p \in DOMAIN tree /\ InsertTurn(key, tree[p]) = "stop" /\ tree[p] \in K
    BY DEF NodeOf, InsertEnds
  <1>2. key \in Seq(Nat) /\ tree[p] \in Seq(Nat)
    BY <1>1
  <1>3. Len(key) <= Len(tree[p]) /\ SubSeq(tree[p], 1, Len(key)) = key
    BY <1>1, <1>2, StopsAtPrefix
  <1> QED
    BY <1>1, <1>3 DEF PrefixFree

LEMMA EmptyTree == IsTree(NoTree) /\ DOMAIN NoTree = {}
  <1>1. DOMAIN NoTree = {}
    BY DEF NoTree
  <1>2. 0 \in Nat
    OBVIOUS
  <1> QED
    BY <1>1, <1>2 DEF IsTree

\* The trees after each of the insertions of keys, in this order.
Grown(f, keys) ==
    /\ f[0] = NoTree
    /\ \A n \in 1..Len(keys) : f[n] = insert(f[n - 1], keys[n])

\* search finds the node where insert filed the callbacks of a name, whatever
\* was inserted before and since; it is a node of the name's own when no name
\* is a prefix of another one.
THEOREM SearchFindsInserted ==
    ASSUME NEW K, K \subseteq Seq(Nat), NEW keys \in Seq(K), NEW f, Grown(f, keys),
           NEW i \in 1..Len(keys)
    PROVE  /\ search(f[Len(keys)], keys[i]) = InsertLeaf(f[i - 1], keys[i])
           /\ PrefixFree(K) => f[Len(keys)][search(f[Len(keys)], keys[i])] = keys[i]
  <1> DEFINE leaf == InsertLeaf(f[i - 1], keys[i])
  <1>1. PICK L : L = Len(keys)
    OBVIOUS
  <1>2. L \in Nat /\ i \in 1..L /\ \A n \in 1..L : keys[n] \in K /\ keys[n] \in Seq(Nat)
    BY <1>1, ElementOfSeq
  <1>3. f[0] = NoTree /\ \A n \in 1..L : f[n] = insert(f[n - 1], keys[n])
    BY <1>1 DEF Grown
  <1> DEFINE Filled(n) == /\ IsTree(f[n]) /\ f[n] \in [DOMAIN f[n] -> K]
                          /\ n >= i => NodeOf(f[n], keys[i], leaf)
             Good == {n \in Nat : n <= L => Filled(n)}
  <1> HIDE DEF leaf
  <1>4. 0 \in Good
    <2>1. IsTree(f[0]) /\ f[0] \in [DOMAIN f[0] -> K]
      BY <1>3, EmptyTree DEF NoTree
    <2>2. ~(0 >= i)
      BY <1>2
    <2> QED
      BY <2>1, <2>2
  <1>5. ASSUME NEW n \in Nat, n \in Good PROVE n + 1 \in Good
    <2> SUFFICES ASSUME n + 1 <= L PROVE Filled(n + 1)
      OBVIOUS
    <2>1. n + 1 \in 1..L /\ (n + 1) - 1 = n /\ n <= L
      BY <1>2
    <2>2. PICK a, b, key : a = f[n] /\ b = f[n + 1] /\ key = keys[n + 1]
      OBVIOUS
    <2>3. b = insert(a, key) /\ key \in K /\ key \in Seq(Nat)
      BY <1>2, <1>3, <2>1, <2>2
    <2>4. IsTree(a) /\ a \in [DOMAIN a -> K] /\ (n >= i => NodeOf(a, keys[i], leaf))
      BY <1>5, <2>1, <2>2
    <2>5. /\ IsTree(b) /\ NodeOf(b, key, InsertLeaf(a, key))
          /\ DOMAIN b = DOMAIN a \cup {InsertLeaf(a, key)}
          /\ \A q \in DOMAIN a : b[q] = a[q]
          /\ InsertLeaf(a, key) \notin DOMAIN a => b[InsertLeaf(a, key)] = key
      BY <2>3, <2>4, InsertGivesNode
    <2>6. b \in [DOMAIN b -> K]
      <3>1. \A q \in DOMAIN b : b[q] \in K
        BY <2>3, <2>4, <2>5
      <3>2. b = [q \in DOMAIN b |-> b[q]]
        BY <2>3 DEF insert
      <3> QED
        BY <3>1, <3>2
    <2>7. n + 1 >= i => NodeOf(b, keys[i], leaf)
      <3>1. CASE n >= i
        BY <2>3, <2>4, <3>1, NodesStay
      <3>2. CASE n + 1 = i
        BY <2>1, <2>2, <2>5, <3>2 DEF leaf
      <3>3. n + 1 >= i => n >= i \/ n + 1 = i
        BY <1>2
      <3> QED
        BY <3>1, <3>2, <3>3
    <2> QED
      BY <2>2, <2>5, <2>6, <2>7
  <1>6. Filled(L)
    <2>1. Nat \subseteq Good
      <3> HIDE DEF Good
      <3> QED
        BY <1>4, <1>5, SetInduction
    <2>2. L <= L
      BY <1>2
    <2> HIDE DEF Filled
    <2> QED
      BY <1>2, <2>1, <2>2
  <1>7. PICK tree, key : tree = f[L] /\ key = keys[i]
    OBVIOUS
  <1>8. IsTree(tree) /\ tree \in [DOMAIN tree -> K] /\ NodeOf(tree, key, leaf) /\ key \in K
    <2>1. L >= i
      BY <1>2
    <2> QED
      BY <1>2, <1>6, <1>7, <2>1
  <1>9. search(tree, key) = leaf
    BY <1>8, SearchFindsNode
  <1>10. PrefixFree(K) => tree[leaf] = key
    BY <1>8, NodeHoldsKey
  <1> QED
    BY <1>1, <1>7, <1>9, <1>10 DEF leaf

-----------------------------------------------------------------------------
(* The arguments of a request.                                             *)

Args == [number : BOOLEAN, prefix : {"none", "event", "space", "timer"}, key : Seq(Nat)]

ArgLists == Seq(Args)

\* The loop over the arguments keeps those that are timers, or the others.
LEMMA ArgsOfType ==
    ASSUME NEW req \in ArgLists, NEW timed \in BOOLEAN
    PROVE  ArgsOf(req, timed) \in Seq({a \in Args : (PrefixOf(a) = "timer") = timed})
  <1> DEFINE S == Seq({a \in Args : (PrefixOf(a) = "timer") = timed})
             L == Len(req)
             Kept(n, x) == IF (PrefixOf(req[n]) = "timer") = timed THEN Append(x, req[n]) ELSE x
             step == [n \in 1..L |-> [x \in S |-> Kept(n, x)]]
             v == CHOOSE h : h = [n \in 0..L |-> IF n = 0 THEN <<>> ELSE Kept(n, h[n - 1])]
  <1>1. L \in Nat /\ <<>> \in S
    BY DEF ArgLists
  <1>2. ASSUME NEW n \in 1..L, NEW x \in S PROVE Kept(n, x) \in S
    <2>1. req[n] \in Args
      BY DEF ArgLists
    <2>2. CASE (PrefixOf(req[n]) = "timer") = timed
      <3>1. req[n] \in {a \in Args : (PrefixOf(a) = "timer") = timed}
        BY <2>1, <2>2
      <3> QED
        BY <2>2, <3>1, AppendProperties
    <2>3. CASE ~((PrefixOf(req[n]) = "timer") = timed)
      BY <2>3
    <2> QED
      BY <2>2, <2>3
  <1> HIDE DEF Kept, S
  <1>3. step \in StepMaps(S, L)
    BY <1>2 DEF StepMaps
  <1>4. PICK f \in [0..L -> S] : f[0] = <<>> /\ \A n \in 1..L : f[n] = step[n][f[n - 1]]
    <2> HIDE DEF step, L, v
    <2>1. <<>> \in S
      BY <1>1
    <2>2. L \in Nat
      BY <1>1
    <2>3. Recursions(S, <<>>, L, step) # {}
      BY <2>1, <2>2, <1>3, RecursionExists
    <2> QED
      BY <2>3 DEF Recursions
  <1>5. f = [n \in 0..L |-> IF n = 0 THEN <<>> ELSE Kept(n, f[n - 1])]
    <2>1. ASSUME NEW n \in 1..L PROVE f[n] = Kept(n, f[n - 1])
      <3>1. n - 1 \in 0..L
        BY <1>1
      <3>2. f[n - 1] \in S /\ f[n] = step[n][f[n - 1]]
        BY <1>4, <3>1
      <3> QED
        BY <3>2
    <2>2. DOMAIN f = 0..L /\ \A n \in 0..L : n = 0 \/ n \in 1..L
      BY <1>1, <1>4
    <2> HIDE DEF step, Kept
    <2> QED
      BY <1>4, <2>1, <2>2
  <1>6. v = [n \in 0..L |-> IF n = 0 THEN <<>> ELSE Kept(n, v[n - 1])]
    BY <1>5, Zenon
  <1> HIDE DEF v, step, L
  <1> DEFINE Typed == {n \in Nat : n <= L => v[n] \in S}
  <1>7. Nat \subseteq Typed
    <2>1. 0 \in Typed
      BY <1>1, <1>6
    <2>2. ASSUME NEW n \in Nat, n \in Typed PROVE n + 1 \in Typed
      <3>1. CASE n + 1 <= L
        <4>1. n + 1 \in 1..L /\ n + 1 \in 0..L /\ n + 1 # 0 /\ (n + 1) - 1 = n /\ n <= L
          BY <3>1, <1>1
        <4>2. v[n + 1] = Kept(n + 1, v[(n + 1) - 1])
          BY <4>1, <1>6
        <4>3. v[n] \in S
          BY <4>1, <2>2
        <4> QED
          BY <4>1, <4>2, <4>3, <1>2
      <3>2. CASE ~(n + 1 <= L)
        BY <3>2
      <3> QED
        BY <3>1, <3>2
    <2> HIDE DEF Typed
    <2> QED
      BY <2>1, <2>2, SetInduction
  <1>8. ArgsOf(req, timed) = v[L]
    BY DEF ArgsOf, v, Kept, L
  <1>9. L \in Typed /\ L <= L
    BY <1>1, <1>7
  <1> QED
    BY <1>8, <1>9 DEF S

\* The prefix of a name is one that PrefixCode knows.
LEMMA NamePrefix ==
    ASSUME NEW a \in Args, PrefixOf(a) # "timer"
    PROVE  PrefixCode[PrefixOf(a)] \in Nat
  <1>1. CASE a.number
    BY <1>1 DEF PrefixOf
  <1>2. CASE ~a.number /\ a.prefix # "none"
    <2>1. PrefixOf(a) = a.prefix
      BY <1>2 DEF PrefixOf
    <2>2. a.prefix \in {"event", "space"}
      BY <1>2, <2>1 DEF Args
    <2> QED
      BY <2>1, <2>2 DEF PrefixCode
  <1>3. CASE ~a.number /\ a.prefix = "none"
    <2>1. PrefixOf(a) \in {"event", "space"}
      BY <1>3 DEF PrefixOf
    <2> QED
      BY <2>1 DEF PrefixCode
  <1> QED
    BY <1>1, <1>2, <1>3

LEMMA RequestTypes ==
    ASSUME NEW req \in Requests
    PROVE  /\ NamesOf(req) \in Seq(Names) /\ NamesOf(req) \in Seq(Seq(Nat))
           /\ TimersOf(req) \in Seq(Intervals)
  <1>1. req \in ArgLists
    BY RequestsAssumption DEF Args, ArgLists
  <1> DEFINE named == ArgsOf(req, FALSE)
             timed == ArgsOf(req, TRUE)
  <1>2. named \in Seq({a \in Args : (PrefixOf(a) = "timer") = FALSE})
    BY <1>1, ArgsOfType
  <1>3. timed \in Seq({a \in Args : (PrefixOf(a) = "timer") = TRUE})
    BY <1>1, ArgsOfType
  <1>4. /\ NamesOf(req) = [i \in DOMAIN named |-> <<PrefixCode[PrefixOf(named[i])]>> \o named[i].key]
        /\ TimersOf(req) = [i \in DOMAIN timed |-> timed[i].key[1]]
    BY DEF NamesOf, TimersOf
  <1> HIDE DEF named, timed
  <1>5. /\ Len(named) \in Nat /\ DOMAIN named = 1..Len(named)
        /\ Len(timed) \in Nat /\ DOMAIN timed = 1..Len(timed)
    BY <1>2, <1>3
  <1>6. ASSUME NEW i \in 1..Len(named)
        PROVE  <<PrefixCode[PrefixOf(named[i])]>> \o named[i].key \in Seq(Nat)
    <2>1. named[i] \in Args /\ PrefixOf(named[i]) # "timer"
      BY <1>2
    <2>2. PrefixCode[PrefixOf(named[i])] \in Nat
      BY <2>1, NamePrefix
    <2>3. named[i].key \in Seq(Nat)
      BY <2>1 DEF Args
    <2>4. <<PrefixCode[PrefixOf(named[i])]>> \in Seq(Nat)
      BY <2>2
    <2> QED
      BY <2>3, <2>4, ConcatProperties
  <1>7. NamesOf(req) \in [1..Len(named) -> Seq(Nat)]
    BY <1>4, <1>5, <1>6
  <1>8. Range(NamesOf(req)) \subseteq Names /\ Range(TimersOf(req)) \subseteq Intervals
    BY DEF Names, Intervals
  <1>9. NamesOf(req) \in [1..Len(named) -> Names]
    BY <1>7, <1>8 DEF Range
  <1>10. TimersOf(req) \in [1..Len(timed) -> Intervals]
    BY <1>4, <1>5, <1>8 DEF Range
  <1> QED
    BY <1>5, <1>7, <1>9, <1>10, SeqDef

LEMMA NamesType == Names \subseteq Seq(Nat)
  <1>1. ASSUME NEW req \in Requests PROVE Range(NamesOf(req)) \subseteq Seq(Nat)
    BY RequestTypes, RangeOfSeq
  <1> QED
    BY <1>1 DEF Names

-----------------------------------------------------------------------------
(* The name trees with their lists.                                        *)

\* A tree of names with a list of callbacks, not empty, at every node; the
\* callbacks are among the first m.
Files(m) ==
    {a \in [tree : UNION {[D -> Names] : D \in SUBSET Paths},
            lists : UNION {[D -> Seq(1..m) \ {<<>>}] : D \in SUBSET Paths}] :
        IsTree(a.tree) /\ DOMAIN a.lists = DOMAIN a.tree}

LEMMA FilesAre ==
    ASSUME NEW m \in Nat, NEW t, NEW l
    PROVE  [tree |-> t, lists |-> l] \in Files(m) <=>
             /\ IsTree(t)
             /\ t \in [DOMAIN t -> Names]
             /\ l \in [DOMAIN t -> Seq(1..m) \ {<<>>}]
  <1> DEFINE a == [tree |-> t, lists |-> l]
  <1>1. a \in Files(m) => /\ IsTree(t)
                          /\ t \in [DOMAIN t -> Names]
                          /\ l \in [DOMAIN t -> Seq(1..m) \ {<<>>}]
    BY DEF Files
  <1>2. ASSUME IsTree(t), t \in [DOMAIN t -> Names], l \in [DOMAIN t -> Seq(1..m) \ {<<>>}]
        PROVE  a \in Files(m)
    <2>1. DOMAIN t \in SUBSET Paths
      BY <1>2 DEF IsTree
    <2> QED
      BY <1>2, <2>1 DEF Files
  <1> QED
    BY <1>1, <1>2

LEMMA FilesGrow ==
    ASSUME NEW m \in Nat, NEW a \in Files(m)
    PROVE  a \in Files(m + 1)
  <1>1. a = [tree |-> a.tree, lists |-> a.lists]
    BY DEF Files
  <1>2. /\ IsTree(a.tree) /\ a.tree \in [DOMAIN a.tree -> Names]
        /\ a.lists \in [DOMAIN a.tree -> Seq(1..m) \ {<<>>}]
    BY <1>1, FilesAre
  <1>3. Seq(1..m) \ {<<>>} \subseteq Seq(1..(m + 1)) \ {<<>>}
    OBVIOUS
  <1>4. a.lists \in [DOMAIN a.tree -> Seq(1..(m + 1)) \ {<<>>}]
    BY <1>2, <1>3
  <1>5. m + 1 \in Nat
    OBVIOUS
  <1> QED
    BY <1>1, <1>2, <1>4, <1>5, FilesAre

\* One turn of the loop of command() over the names.
LEMMA FileUnderType ==
    ASSUME NEW m \in Nat, NEW a \in Files(m), NEW key \in Names, NEW s \in 1..m
    PROVE  FileUnder(a, key, s) \in Files(m)
  <1> DEFINE p == InsertLeaf(a.tree, key)
             t == insert(a.tree, key)
             Old(q) == IF q \in DOMAIN a.lists THEN a.lists[q] ELSE <<>>
             l == [q \in DOMAIN t |-> IF q = p THEN Append(Old(q), s) ELSE Old(q)]
  <1>1. a = [tree |-> a.tree, lists |-> a.lists]
    BY DEF Files
  <1>2. /\ IsTree(a.tree) /\ a.tree \in [DOMAIN a.tree -> Names]
        /\ a.lists \in [DOMAIN a.tree -> Seq(1..m) \ {<<>>}]
    BY <1>1, FilesAre
  <1>3. FileUnder(a, key, s) = [tree |-> t, lists |-> l]
    BY DEF FileUnder
  <1>4. /\ IsTree(t) /\ DOMAIN t = DOMAIN a.tree \cup {p}
        /\ \A q \in DOMAIN a.tree : t[q] = a.tree[q]
        /\ p \notin DOMAIN a.tree => t[p] = key
    BY <1>2, NamesType, InsertGivesNode
  <1>5. t = [q \in DOMAIN t |-> t[q]]
    BY DEF insert
  <1>6. t \in [DOMAIN t -> Names]
    <2>1. ASSUME NEW q \in DOMAIN t PROVE t[q] \in Names
      BY <1>2, <1>4
    <2> HIDE DEF t
    <2> QED
      BY <1>5, <2>1
  <1> HIDE DEF p, t
  <1>7. l \in [DOMAIN t -> Seq(1..m) \ {<<>>}]
    <2>1. ASSUME NEW q \in DOMAIN t
          PROVE  (IF q = p THEN Append(Old(q), s) ELSE Old(q)) \in Seq(1..m) \ {<<>>}
      <3>1. Old(q) \in Seq(1..m)
        <4>1. <<>> \in Seq(1..m)
          OBVIOUS
        <4>2. q \in DOMAIN a.lists => a.lists[q] \in Seq(1..m)
          BY <1>2
        <4> QED
          BY <4>1, <4>2
      <3> HIDE DEF Old
      <3>2. CASE q = p
        <4>1. Append(Old(q), s) \in Seq(1..m) \ {<<>>}
          BY <3>1, AppendProperties
        <4> QED
          BY <3>2, <4>1
      <3>3. CASE q # p
        BY <3>3, <1>2, <1>4 DEF Old
      <3> QED
        BY <3>2, <3>3
    <2> HIDE DEF Old
    <2> QED
      BY <2>1
  <1> HIDE DEF l
  <1> QED
    BY <1>3, <1>4, <1>6, <1>7, FilesAre

NameLists == Seq(Names)

\* The loop over the names, turn by turn.
LEMMA FiledTurns ==
    ASSUME NEW m \in Nat, NEW s \in 1..m, NEW variant, NEW names \in NameLists,
           [tree |-> trees[variant], lists |-> cb_lists[variant]] \in Files(m)
    PROVE  \E f \in [0..Len(names) -> Files(m)] :
             /\ f[0] = [tree |-> trees[variant], lists |-> cb_lists[variant]]
             /\ \A n \in 1..Len(names) : f[n] = FileUnder(f[n - 1], names[n], s)
             /\ f[Len(names)] = Filed(variant, names, s)
  <1> DEFINE S == Files(m)
             a == [tree |-> trees[variant], lists |-> cb_lists[variant]]
             L == Len(names)
             Turn(n, x) == FileUnder(x, names[n], s)
             step == [n \in 1..L |-> [x \in S |-> Turn(n, x)]]
             v == CHOOSE h : h = [n \in 0..L |-> IF n = 0 THEN a ELSE Turn(n, h[n - 1])]
  <1>1. L \in Nat /\ a \in S
    BY DEF NameLists
  <1>2. ASSUME NEW n \in 1..L, NEW x \in S PROVE Turn(n, x) \in S
    <2>1. names[n] \in Names
      BY DEF NameLists
    <2> QED
      BY <2>1, FileUnderType
  <1> HIDE DEF Turn, S, a
  <1>3. step \in StepMaps(S, L)
    BY <1>2 DEF StepMaps
  <1>4. PICK f \in [0..L -> S] : f[0] = a /\ \A n \in 1..L : f[n] = step[n][f[n - 1]]
    <2> HIDE DEF step, L, v
    <2>1. a \in S
      BY <1>1
    <2>2. L \in Nat
      BY <1>1
    <2>3. Recursions(S, a, L, step) # {}
      BY <2>1, <2>2, <1>3, RecursionExists
    <2> QED
      BY <2>3 DEF Recursions
  <1>5. f = [n \in 0..L |-> IF n = 0 THEN a ELSE Turn(n, f[n - 1])]
    <2>1. ASSUME NEW n \in 1..L PROVE f[n] = Turn(n, f[n - 1])
      <3>1. n - 1 \in 0..L
        BY <1>1
      <3>2. f[n - 1] \in S /\ f[n] = step[n][f[n - 1]]
        BY <1>4, <3>1
      <3> QED
        BY <3>2
    <2>2. DOMAIN f = 0..L /\ \A n \in 0..L : n = 0 \/ n \in 1..L
      BY <1>1, <1>4
    <2> HIDE DEF step, Turn
    <2> QED
      BY <1>4, <2>1, <2>2
  <1>6. v = [n \in 0..L |-> IF n = 0 THEN a ELSE Turn(n, v[n - 1])]
    BY <1>5, Zenon
  <1> HIDE DEF v, step, L
  <1>7. DOMAIN v = 0..L /\ v[0] = a /\ \A n \in 1..L : v[n] = Turn(n, v[n - 1])
    BY <1>1, <1>6
  <1> DEFINE Typed == {n \in Nat : n <= L => v[n] \in S}
  <1>8. Nat \subseteq Typed
    <2>1. 0 \in Typed
      BY <1>1, <1>7
    <2>2. ASSUME NEW n \in Nat, n \in Typed PROVE n + 1 \in Typed
      <3>1. CASE n + 1 <= L
        <4>1. n + 1 \in 1..L /\ (n + 1) - 1 = n /\ n <= L
          BY <3>1, <1>1
        <4>2. v[n + 1] = Turn(n + 1, v[(n + 1) - 1])
          BY <4>1, <1>7
        <4>3. v[n] \in S
          BY <4>1, <2>2
        <4> QED
          BY <4>1, <4>2, <4>3, <1>2
      <3>2. CASE ~(n + 1 <= L)
        BY <3>2
      <3> QED
        BY <3>1, <3>2
    <2> HIDE DEF Typed
    <2> QED
      BY <2>1, <2>2, SetInduction
  <1>9. v \in [0..L -> S]
    BY <1>1, <1>6, <1>8
  <1>10. v[L] = Filed(variant, names, s)
    BY DEF Filed, v, Turn, L, a
  <1> HIDE DEF Typed
  <1> QED
    BY <1>7, <1>9, <1>10 DEF Turn, L, S, a

LEMMA FiledType ==
    ASSUME NEW m \in Nat, NEW s \in 1..m, NEW variant, NEW names \in NameLists,
           [tree |-> trees[variant], lists |-> cb_lists[variant]] \in Files(m)
    PROVE  Filed(variant, names, s) \in Files(m)
  <1>1. Len(names) \in 0..Len(names)
    BY DEF NameLists
  <1>2. PICK f \in [0..Len(names) -> Files(m)] :
             /\ f[0] = [tree |-> trees[variant], lists |-> cb_lists[variant]]
             /\ \A n \in 1..Len(names) : f[n] = FileUnder(f[n - 1], names[n], s)
             /\ f[Len(names)] = Filed(variant, names, s)
    BY FiledTurns, SMTT(30)
  <1> QED
    BY <1>1, <1>2

\* The nodes that were there are still found, and every name filed has one.
LEMMA FiledNodes ==
    ASSUME NEW m \in Nat, NEW s \in 1..m, NEW variant, NEW names \in NameLists,
           [tree |-> trees[variant], lists |-> cb_lists[variant]] \in Files(m)
    PROVE  /\ \A key, p : NodeOf(trees[variant], key, p) =>
                            NodeOf(Filed(variant, names, s).tree, key, p)
           /\ \A i \in 1..Len(names) : \E p : NodeOf(Filed(variant, names, s).tree, names[i], p)
  <1> DEFINE L == Len(names)
  <1>1. L \in Nat
    BY DEF NameLists
  <1>2. PICK f \in [0..L -> Files(m)] :
             /\ f[0] = [tree |-> trees[variant], lists |-> cb_lists[variant]]
             /\ \A n \in 1..L : f[n] = FileUnder(f[n - 1], names[n], s)
             /\ f[L] = Filed(variant, names, s)
    BY FiledTurns, SMTT(30)
  <1> HIDE DEF L
  <1>3. \A n \in 0..L : IsTree(f[n].tree)
    BY <1>2 DEF Files
  <1> DEFINE Kept(n) == /\ \A key, p : NodeOf(f[0].tree, key, p) => NodeOf(f[n].tree, key, p)
                        /\ \A i \in 1..n : \E p : NodeOf(f[n].tree, names[i], p)
             Good == {n \in Nat : n <= L => Kept(n)}
  <1>4. 0 \in Good
    OBVIOUS
  <1>5. ASSUME NEW n \in Nat, n \in Good, n + 1 <= L PROVE n + 1 \in Good
    <2>1. n + 1 \in 1..L /\ (n + 1) - 1 = n /\ n \in 0..L /\ n <= L
      BY <1>1, <1>5
    <2>2. Kept(n)
      BY <2>1, <1>5
    <2>3. names[n + 1] \in Names /\ names[n + 1] \in Seq(Nat)
      BY <2>1, NamesType DEF L, NameLists
    <2>4. f[n + 1].tree = insert(f[n].tree, names[n + 1])
      <3>1. f[n + 1] = FileUnder(f[n], names[n + 1], s)
        BY <1>2, <2>1
      <3> QED
        BY <3>1 DEF FileUnder
    <2>5. \A key, p : NodeOf(f[n].tree, key, p) => NodeOf(f[n + 1].tree, key, p)
      BY <2>1, <2>3, <2>4, <1>3, NodesStay
    <2>6. \E p : NodeOf(f[n + 1].tree, names[n + 1], p)
      BY <2>1, <2>3, <2>4, <1>3, InsertGivesNode, ZenonT(40)
    <2>7. \A i \in 1..(n + 1) : i \in 1..n \/ i = n + 1
      OBVIOUS
    <2>8. Kept(n + 1)
      BY <2>2, <2>5, <2>6, <2>7
    <2> HIDE DEF Kept
    <2> QED
      BY <2>8
  <1>6. Nat \subseteq Good
    <2>1. ASSUME NEW n \in Nat, n \in Good PROVE n + 1 \in Good
      <3>1. CASE n + 1 <= L
        BY <2>1, <3>1, <1>5
      <3>2. CASE ~(n + 1 <= L)
        BY <3>2
      <3> QED
        BY <3>1, <3>2
    <2> HIDE DEF Good
    <2> QED
      BY <1>4, <2>1, SetInduction
  <1>7. Kept(L)
    <2>1. L \in Good /\ L <= L
      BY <1>1, <1>6
    <2> HIDE DEF Kept
    <2> QED
      BY <2>1
  <1> QED
    BY <1>2, <1>7 DEF L

-----------------------------------------------------------------------------
(* Type correctness.                                                       *)

ChannelType ==
    [timer : BOOLEAN, name : Names \cup {<<>>}, ikey : Intervals \cup {0}, sub : BOOLEAN]
CallbackType ==
    [init : BOOLEAN, fresh : BOOLEAN, variant : Variants, session : 1..MaxSessions,
     channels : Seq(ChannelType)]
RequestType ==
    [kind : {"subscribe", "unsubscribe"}, variant : Variants, names : Seq(Names)]
ReplyType ==
    [kind : {"subscribe", "unsubscribe", "error", "message"}, variant : Variants,
     name : Names \cup {<<>>}]
TimerType == [list : Seq(1..nsubs), handle : Channels \cup {NoHandle}]
EntryType == [kind : {"ack", "event", "not_initialized"}, event : 0..MaxEvents]
HandlerType ==
    [at : {"idle", "walk", "called"}, variant : {"channels", "patterns"}, node : Paths,
     interval : Intervals \cup {0}, i : Nat, event : 0..MaxEvents]

\* The types of the variables; a message counts as an event from when it is
\* published.
Typed ==
    /\ phase \in {"connected", "closing", "closed"}
    /\ session \in 1..MaxSessions
    /\ DOMAIN trees = Variants /\ DOMAIN cb_lists = Variants
    /\ \A v \in Variants : [tree |-> trees[v], lists |-> cb_lists[v]] \in Files(nsubs)
    /\ DOMAIN timers \subseteq Intervals
    /\ timers \in [DOMAIN timers -> TimerType]
    /\ cbs \in [1..nsubs -> CallbackType]
    /\ running \subseteq Channels
    /\ requests \in Seq(RequestType)
    /\ served \subseteq Variants \X Names
    /\ wire \in Seq(ReplyType)
    /\ handler \in HandlerType
    /\ nsubs \in 0..MaxSubs /\ nevents \in 0..MaxEvents
    /\ nevents + MessageCount(wire) <= MaxEvents
    /\ log \in [Subs -> Seq(EntryType)]
    /\ due \in [Events -> SUBSET Subs]
    /\ fault \in BOOLEAN

\* The confirmations read and the replies of the chunk being read.
Reading == acks \subseteq Channels /\ chunk \in Nat

LEMMA ChannelsAre ==
    ASSUME NEW t
    PROVE  t \in Channels <=>
             \E s \in DOMAIN cbs : \E i \in DOMAIN cbs[s].channels : t = <<s, i>>
  BY DEF Channels

LEMMA SeqSubset ==
    ASSUME NEW A, NEW B, A \subseteq B
    PROVE  Seq(A) \subseteq Seq(B)
  OBVIOUS

LEMMA TypedImpliesTypeOK == Typed /\ Reading => TypeOK
  <1> SUFFICES ASSUME Typed, Reading PROVE TypeOK
    OBVIOUS
  <1> USE DEF Typed
  <1>1. nsubs \in Nat /\ Seq(1..nsubs) \subseteq Seq(Subs)
    <2>1. nsubs \in Nat /\ 1..nsubs \subseteq Subs
      BY SubscriptionsAssumption DEF Subs
    <2> HIDE DEF Typed
    <2> QED
      BY <2>1, SeqSubset
  <1>2. ASSUME NEW v \in Variants
        PROVE  /\ DOMAIN cb_lists[v] = DOMAIN trees[v]
               /\ \A p \in DOMAIN trees[v] :
                    trees[v][p] \in Names /\ cb_lists[v][p] \in Seq(Subs) \ {<<>>}
    <2>1. /\ trees[v] \in [DOMAIN trees[v] -> Names]
          /\ cb_lists[v] \in [DOMAIN trees[v] -> Seq(1..nsubs) \ {<<>>}]
      BY <1>1, FilesAre
    <2> HIDE DEF Typed
    <2> QED
      BY <1>1, <2>1
  <1>3. ASSUME NEW k \in DOMAIN timers
        PROVE  timers[k].list \in Seq(Subs) /\ timers[k].handle \in Channels \cup {NoHandle}
    <2>1. timers[k].list \in Seq(1..nsubs) /\ timers[k].handle \in Channels \cup {NoHandle}
      BY DEF TimerType
    <2> HIDE DEF Typed
    <2> QED
      BY <1>1, <2>1
  <1>4. DOMAIN cbs = 1..nsubs
    OBVIOUS
  <1> QED
    BY <1>2, <1>3, <1>4 DEF TypeOK, Reading

\* A node has a list.
LEMMA TypedDomains ==
    ASSUME Typed, NEW v \in Variants
    PROVE  DOMAIN cb_lists[v] = DOMAIN trees[v]
  <1>1. [tree |-> trees[v], lists |-> cb_lists[v]] \in Files(nsubs)
    BY DEF Typed
  <1> QED
    BY <1>1 DEF Files

\* The number of messages on the wire.
LEMMA MessageCountFacts ==
    ASSUME NEW R, NEW w \in Seq(R)
    PROVE  /\ MessageCount(w) \in Nat
           /\ \A r \in R : MessageCount(Append(w, r)) =
                             IF r.kind = "message" THEN MessageCount(w) + 1 ELSE MessageCount(w)
           /\ \A u \in Seq(R) : (\A i \in DOMAIN u : u[i].kind # "message") =>
                MessageCount(w \o u) = MessageCount(w)
           /\ w # <<>> => MessageCount(Tail(w)) =
                IF Head(w).kind = "message" THEN MessageCount(w) - 1 ELSE MessageCount(w)
  <1> DEFINE M(x) == {i \in DOMAIN x : x[i].kind = "message"}
  <1>1. Len(w) \in Nat /\ DOMAIN w = 1..Len(w)
    OBVIOUS
  <1>2. ASSUME NEW x \in Seq(R) PROVE IsFiniteSet(M(x)) /\ M(x) \subseteq 1..Len(x)
    <2>1. Len(x) \in Nat /\ DOMAIN x = 1..Len(x)
      OBVIOUS
    <2>2. IsFiniteSet(1..Len(x)) /\ M(x) \in SUBSET (1..Len(x))
      BY <2>1, FS_Interval
    <2> QED
      BY <2>2, FS_Subset
  <1>3. \A x : MessageCount(x) = Cardinality(M(x))
    BY DEF MessageCount
  <1>4. MessageCount(w) \in Nat
    BY <1>2, <1>3, FS_CardinalityType
  <1>5. ASSUME NEW r \in R
        PROVE  MessageCount(Append(w, r)) =
                 IF r.kind = "message" THEN MessageCount(w) + 1 ELSE MessageCount(w)
    <2> DEFINE x == Append(w, r)
    <2>1. /\ Len(x) = Len(w) + 1 /\ x \in Seq(R) /\ DOMAIN x = 1..(Len(w) + 1)
          /\ \A i \in 1..Len(w) : x[i] = w[i]
          /\ x[Len(w) + 1] = r
      BY AppendProperties, LenProperties
    <2> HIDE DEF x
    <2>2. CASE r.kind = "message"
      <3>1. M(x) = M(w) \cup {Len(w) + 1} /\ Len(w) + 1 \notin M(w)
        BY <1>1, <2>1, <2>2
      <3> HIDE DEF M
      <3>2. Cardinality(M(x)) = Cardinality(M(w)) + 1
        BY <3>1, <1>2, FS_AddElement
      <3> QED
        BY <3>2, <2>2, <1>3 DEF x
    <2>3. CASE r.kind # "message"
      <3>1. M(x) = M(w)
        BY <1>1, <2>1, <2>3
      <3> HIDE DEF M
      <3> QED
        BY <3>1, <2>3, <1>3 DEF x
    <2> QED
      BY <2>2, <2>3
  <1>6. ASSUME NEW u \in Seq(R), \A i \in DOMAIN u : u[i].kind # "message"
        PROVE  MessageCount(w \o u) = MessageCount(w)
    <2> DEFINE x == w \o u
    <2>1. /\ Len(u) \in Nat /\ DOMAIN u = 1..Len(u)
          /\ Len(x) = Len(w) + Len(u) /\ x \in Seq(R) /\ DOMAIN x = 1..(Len(w) + Len(u))
          /\ \A i \in 1..(Len(w) + Len(u)) : x[i] = IF i <= Len(w) THEN w[i] ELSE u[i - Len(w)]
      BY ConcatProperties, LenProperties
    <2> HIDE DEF x
    <2>2. M(x) = M(w)
      <3>1. ASSUME NEW i \in 1..(Len(w) + Len(u)), ~(i <= Len(w)) PROVE x[i].kind # "message"
        <4>1. i - Len(w) \in 1..Len(u)
          BY <1>1, <2>1, <3>1
        <4>2. x[i] = u[i - Len(w)]
          BY <2>1, <3>1
        <4> QED
          BY <1>6, <2>1, <4>1, <4>2
      <3>2. \A i \in 1..(Len(w) + Len(u)) : i <= Len(w) => i \in 1..Len(w) /\ x[i] = w[i]
        BY <1>1, <2>1
      <3>3. \A i \in 1..Len(w) : i \in 1..(Len(w) + Len(u)) /\ i <= Len(w)
        BY <1>1, <2>1
      <3> QED
        BY <1>1, <2>1, <3>1, <3>2, <3>3
    <2> HIDE DEF M
    <2> QED
      BY <2>2, <1>3 DEF x
  <1>7. ASSUME w # <<>>
        PROVE  MessageCount(Tail(w)) =
                 IF Head(w).kind = "message" THEN MessageCount(w) - 1 ELSE MessageCount(w)
    <2> DEFINE x == Tail(w)
    <2>1. /\ x \in Seq(R) /\ Len(x) = Len(w) - 1 /\ Len(x) \in Nat
          /\ \A i \in 1..Len(x) : x[i] = w[i + 1]
          /\ Len(w) >= 1 /\ Head(w) = w[1] /\ DOMAIN x = 1..Len(x)
      BY <1>1, <1>7, HeadTailProperties, LenProperties
    <2> HIDE DEF x
    <2> DEFINE rest == M(w) \ {1}
               up == [i \in M(x) |-> i + 1]
    <2>2. \A i \in M(x) : i + 1 \in rest
      BY <1>1, <2>1
    <2>3. \A j \in rest : j - 1 \in M(x) /\ (j - 1) + 1 = j
      <3>1. ASSUME NEW j \in rest PROVE j - 1 \in M(x) /\ (j - 1) + 1 = j
        <4>1. j \in 1..Len(w) /\ j # 1 /\ w[j].kind = "message"
          BY <1>1
        <4>2. j - 1 \in 1..Len(x) /\ (j - 1) + 1 = j
          BY <4>1, <2>1, <1>1
        <4>3. x[j - 1] = w[(j - 1) + 1]
          BY <4>2, <2>1
        <4> QED
          BY <4>1, <4>2, <4>3, <2>1
      <3> QED
        BY <3>1
    <2>4. \A i \in M(x) : i \in Nat
      BY <2>1
    <2>5. IsFiniteSet(M(w)) /\ IsFiniteSet(M(x))
      BY <1>2, <2>1
    <2>6. 1 \in M(w) <=> Head(w).kind = "message"
      BY <1>1, <2>1
    <2> HIDE DEF M
    <2>7. up \in [M(x) -> rest] /\ \A a, b \in M(x) : up[a] = up[b] => a = b
      BY <2>2, <2>4
    <2>8. \A j \in rest : \E i \in M(x) : up[i] = j
      BY <2>3
    <2> HIDE DEF up, rest
    <2>9. ExistsBijection(M(x), rest)
      <3>1. up \in Bijection(M(x), rest)
        BY <2>7, <2>8, Fun_IsBij
      <3> QED
        BY <3>1, Fun_ExistsBij
    <2>10. Cardinality(rest) = Cardinality(M(x))
      BY <2>5, <2>9, FS_Bijection
    <2>11. Cardinality(rest) = IF 1 \in M(w) THEN Cardinality(M(w)) - 1 ELSE Cardinality(M(w))
      BY <2>5, FS_RemoveElement DEF rest
    <2> QED
      BY <2>6, <2>10, <2>11, <1>3 DEF x
  <1> QED
    BY <1>4, <1>5, <1>6, <1>7

-----------------------------------------------------------------------------
(* What a confirmation does to the callbacks and the timers.               *)

\* Two states of a callback_t: only the marks and the flag differ.
SameShape(c, d) ==
    /\ d.fresh = c.fresh /\ d.variant = c.variant /\ d.session = c.session
    /\ DOMAIN d.channels = DOMAIN c.channels
    /\ \A i \in DOMAIN c.channels :
         /\ d.channels[i].timer = c.channels[i].timer
         /\ d.channels[i].name = c.channels[i].name
         /\ d.channels[i].ikey = c.channels[i].ikey

\* Channel i of callback s is marked by the confirmation.
Marked(s, hit, name, i) ==
    LET mine == {j \in DOMAIN cbs[s].channels : hit /\ Awaits(s, j, name)} IN
    cbs[s].channels[i].sub \/ cbs[s].channels[i].timer \/ (mine # {} /\ i = Min(mine))

LEMMA ConfirmedIs ==
    ASSUME NEW s, cbs[s] \in CallbackType, NEW hit \in BOOLEAN, NEW name
    PROVE  /\ Confirmed(s, hit, name) \in CallbackType
           /\ SameShape(cbs[s], Confirmed(s, hit, name))
           /\ \A i \in DOMAIN cbs[s].channels :
                Confirmed(s, hit, name).channels[i].sub <=> Marked(s, hit, name, i)
           /\ Confirmed(s, hit, name).init <=>
                \A i \in DOMAIN cbs[s].channels : Marked(s, hit, name, i)
  <1> DEFINE chs == cbs[s].channels
             now == [i \in DOMAIN chs |-> [chs[i] EXCEPT
                        !.sub = @ \/ chs[i].timer \/
                          ({j \in DOMAIN chs : hit /\ Awaits(s, j, name)} # {} /\
                             i = Min({j \in DOMAIN chs : hit /\ Awaits(s, j, name)}))]]
             d == Confirmed(s, hit, name)
             M(i) == Marked(s, hit, name, i)
  <1>1. d = [cbs[s] EXCEPT !.channels = now, !.init = \A i \in DOMAIN now : now[i].sub]
    BY DEF Confirmed
  <1>2. chs \in Seq(ChannelType) /\ Len(chs) \in Nat /\ DOMAIN chs = 1..Len(chs)
    BY DEF CallbackType
  <1>3. now = [i \in DOMAIN chs |-> [chs[i] EXCEPT !.sub = M(i)]]
    BY DEF Marked
  <1> HIDE DEF now, M
  <1>4. ASSUME NEW i \in DOMAIN chs
        PROVE  /\ now[i] \in ChannelType
               /\ now[i].timer = chs[i].timer /\ now[i].name = chs[i].name
               /\ now[i].ikey = chs[i].ikey /\ now[i].sub = M(i)
    <2>1. chs[i] \in ChannelType
      BY <1>2
    <2>2. M(i) \in BOOLEAN
      BY DEF M, Marked
    <2>3. now[i] = [chs[i] EXCEPT !.sub = M(i)]
      BY <1>3
    <2> HIDE DEF chs
    <2> QED
      BY <2>1, <2>2, <2>3 DEF ChannelType
  <1>5. DOMAIN now = DOMAIN chs
    BY <1>3
  <1>6. now \in Seq(ChannelType)
    <2> HIDE DEF chs
    <2>1. now = [i \in 1..Len(chs) |-> now[i]]
      BY <1>2, <1>3
    <2> QED
      BY <1>2, <1>4, <1>5, <2>1
  <1>7. d.channels = now /\ d.variant = cbs[s].variant /\ d.session = cbs[s].session
        /\ d.fresh = cbs[s].fresh
        /\ d.init = (\A i \in DOMAIN now : now[i].sub)
    BY <1>1 DEF CallbackType
  <1>8. d \in CallbackType
    <2>1. (\A i \in DOMAIN now : now[i].sub) \in BOOLEAN
      OBVIOUS
    <2> QED
      BY <1>1, <1>6, <2>1 DEF CallbackType
  <1> HIDE DEF d
  <1>9. SameShape(cbs[s], d)
    BY <1>4, <1>5, <1>7 DEF SameShape
  <1>10. \A i \in DOMAIN chs : d.channels[i].sub <=> M(i)
    BY <1>4, <1>7
  <1>11. d.init <=> \A i \in DOMAIN chs : M(i)
    BY <1>4, <1>5, <1>7
  <1> QED
    BY <1>8, <1>9, <1>10, <1>11 DEF d, M

\* The callbacks that the walk of a confirmation changes.
Touched(walked) == {s \in Range(walked) : ~cbs[s].init}

LEMMA ConfirmAllIs ==
    ASSUME Typed, NEW walked \in Seq(1..nsubs), NEW hit \in BOOLEAN, NEW name,
           ConfirmAll(walked, hit, name)
    PROVE  /\ cbs' \in [1..nsubs -> CallbackType]
           /\ \A s \in 1..nsubs : SameShape(cbs[s], cbs'[s])
           /\ \A s \in 1..nsubs \ Touched(walked) : cbs'[s] = cbs[s]
           /\ \A s \in Touched(walked) :
                /\ s \in 1..nsubs
                /\ \A i \in DOMAIN cbs[s].channels :
                     cbs'[s].channels[i].sub <=> Marked(s, hit /\ s = walked[Len(walked)], name, i)
                /\ cbs'[s].init <=> \A i \in DOMAIN cbs[s].channels :
                                      Marked(s, hit /\ s = walked[Len(walked)], name, i)
  <1> DEFINE H(s) == hit /\ s = walked[Len(walked)]
  <1>1. DOMAIN cbs = 1..nsubs /\ \A s \in 1..nsubs : cbs[s] \in CallbackType
    BY DEF Typed
  <1>2. cbs' = [s \in 1..nsubs |-> IF s \in Touched(walked) THEN Confirmed(s, H(s), name) ELSE cbs[s]]
    BY <1>1 DEF ConfirmAll, Touched
  <1>3. Touched(walked) \subseteq 1..nsubs
    BY RangeOfSeq DEF Touched
  <1>4. \A s : H(s) \in BOOLEAN
    OBVIOUS
  <1> HIDE DEF H
  <1>5. ASSUME NEW s \in 1..nsubs
        PROVE  /\ Confirmed(s, H(s), name) \in CallbackType
               /\ SameShape(cbs[s], Confirmed(s, H(s), name))
               /\ \A i \in DOMAIN cbs[s].channels :
                    Confirmed(s, H(s), name).channels[i].sub <=> Marked(s, H(s), name, i)
               /\ Confirmed(s, H(s), name).init <=>
                    \A i \in DOMAIN cbs[s].channels : Marked(s, H(s), name, i)
    BY <1>1, <1>4, ConfirmedIs
  <1>6. \A s \in 1..nsubs : SameShape(cbs[s], cbs[s])
    BY DEF SameShape
  <1>7. cbs' \in [1..nsubs -> CallbackType]
    BY <1>1, <1>2, <1>5
  <1>8. \A s \in 1..nsubs : SameShape(cbs[s], cbs'[s])
    BY <1>2, <1>5, <1>6
  <1>9. \A s \in 1..nsubs \ Touched(walked) : cbs'[s] = cbs[s]
    BY <1>2
  <1>10. ASSUME NEW s \in Touched(walked)
         PROVE  /\ s \in 1..nsubs
                /\ \A i \in DOMAIN cbs[s].channels :
                     cbs'[s].channels[i].sub <=> Marked(s, H(s), name, i)
                /\ cbs'[s].init <=> \A i \in DOMAIN cbs[s].channels : Marked(s, H(s), name, i)
    <2>1. s \in 1..nsubs /\ cbs'[s] = Confirmed(s, H(s), name)
      BY <1>2, <1>3
    <2> QED
      BY <2>1, <1>5
  <1> QED
    BY <1>7, <1>8, <1>9, <1>10 DEF H

\* Channels depends on the shape of the callbacks alone.
LEMMA ChannelsKept ==
    ASSUME DOMAIN cbs' = DOMAIN cbs, \A s \in DOMAIN cbs : SameShape(cbs[s], cbs'[s])
    PROVE  Channels' = Channels /\ \A t \in Channels : Interval(t)' = Interval(t)
  <1>1. \A s \in DOMAIN cbs : DOMAIN cbs'[s].channels = DOMAIN cbs[s].channels
    BY DEF SameShape
  <1>2. Channels' = Channels
    BY <1>1 DEF Channels
  <1>3. ASSUME NEW t \in Channels PROVE Interval(t)' = Interval(t)
    <2>1. t[1] \in DOMAIN cbs /\ t[2] \in DOMAIN cbs[t[1]].channels
      BY ChannelsAre
    <2>2. cbs'[t[1]].channels[t[2]].ikey = cbs[t[1]].channels[t[2]].ikey
      BY <2>1 DEF SameShape
    <2> QED
      BY <2>2 DEF Interval
  <1> QED
    BY <1>2, <1>3

\* A set of timers that are started has a last one.
LEMMA LatestIs ==
    ASSUME Typed, NEW ts, ts \subseteq Channels, ts # {}
    PROVE  Latest(ts) \in ts
  <1>1. nsubs \in Nat /\ DOMAIN cbs = 1..nsubs
    BY SubscriptionsAssumption DEF Typed
  <1>2. \A t \in ts : t[1] \in 1..nsubs /\ t[2] \in DOMAIN cbs[t[1]].channels /\ t = <<t[1], t[2]>>
    BY <1>1, ChannelsAre
  <1> DEFINE firsts == {t[1] : t \in ts}
  <1>3. firsts \in SUBSET Nat /\ firsts # {} /\ \A s \in firsts : s <= nsubs
    BY <1>1, <1>2
  <1>4. PICK s \in firsts : \A r \in firsts : s >= r
    <2> HIDE DEF firsts
    <2> QED
      BY <1>1, <1>3, MaxIs
  <1> DEFINE seconds == {t[2] : t \in {u \in ts : u[1] = s}}
  <1>5. s \in 1..nsubs
    BY <1>2
  <1>6. /\ Len(cbs[s].channels) \in Nat
        /\ DOMAIN cbs[s].channels = 1..Len(cbs[s].channels)
    <2>1. cbs[s].channels \in Seq(ChannelType)
      BY <1>5 DEF Typed, CallbackType
    <2> QED
      BY <2>1
  <1>7. /\ seconds \in SUBSET Nat /\ seconds # {}
        /\ \A i \in seconds : i <= Len(cbs[s].channels)
    <2>1. seconds # {}
      OBVIOUS
    <2>2. \A i \in seconds : i \in DOMAIN cbs[s].channels
      BY <1>2
    <2> HIDE DEF seconds
    <2> QED
      BY <1>6, <2>1, <2>2
  <1>8. PICK i \in seconds : \A j \in seconds : i >= j
    <2> HIDE DEF seconds
    <2> QED
      BY <1>6, <1>7, MaxIs
  <1>9. PICK t \in ts : t[1] = s /\ t[2] = i
    OBVIOUS
  <1>10. \A u \in ts : u[1] < t[1] \/ (u[1] = t[1] /\ u[2] <= t[2])
    <2>1. ASSUME NEW u \in ts PROVE u[1] < t[1] \/ (u[1] = t[1] /\ u[2] <= t[2])
      <3>1. u[1] \in firsts /\ u[1] \in Nat /\ s \in Nat /\ s >= u[1]
        BY <1>1, <1>2, <1>4, <1>5
      <3>2. CASE u[1] = s
        <4>1. u[2] \in seconds
          BY <3>2
        <4>2. u[2] \in Nat /\ i \in Nat /\ i >= u[2]
          BY <4>1, <1>7, <1>8
        <4> QED
          BY <3>2, <4>2, <1>9
      <3>3. CASE u[1] # s
        BY <3>1, <3>3, <1>9
      <3> QED
        BY <3>2, <3>3
    <2> QED
      BY <2>1
  <1> QED
    BY <1>10, Zenon DEF Latest

LEMMA StartTimersIs ==
    ASSUME Typed, NEW start, start \subseteq Channels, StartTimers(start)
    PROVE  /\ running' = running \cup start
           /\ DOMAIN timers' = DOMAIN timers /\ timers' \in [DOMAIN timers -> TimerType]
           /\ \A k \in DOMAIN timers :
                /\ timers'[k].list = timers[k].list
                /\ (\A t \in start : Interval(t) # k) => timers'[k] = timers[k]
                /\ (\E t \in start : Interval(t) = k) =>
                     timers'[k].handle \in {t \in start : Interval(t) = k}
  <1> DEFINE mine(k) == {t \in start : Interval(t) = k}
             new(k) == IF mine(k) = {} THEN timers[k] ELSE [timers[k] EXCEPT !.handle = Latest(mine(k))]
  <1>1. running' = running \cup start /\ timers' = [k \in DOMAIN timers |-> new(k)]
    BY DEF StartTimers
  <1>2. ASSUME NEW k \in DOMAIN timers
        PROVE  /\ new(k) \in TimerType /\ new(k).list = timers[k].list
               /\ mine(k) = {} => new(k) = timers[k]
               /\ mine(k) # {} => new(k).handle \in mine(k)
    <2>1. timers[k] \in TimerType
      BY DEF Typed
    <2>2. CASE mine(k) = {}
      BY <2>1, <2>2
    <2>3. CASE mine(k) # {}
      <3>1. mine(k) \subseteq Channels
        OBVIOUS
      <3>2. Latest(mine(k)) \in mine(k)
        <4> HIDE DEF mine
        <4> QED
          BY <2>3, <3>1, LatestIs
      <3>3. new(k) = [timers[k] EXCEPT !.handle = Latest(mine(k))]
        BY <2>3
      <3> HIDE DEF mine, new
      <3> QED
        BY <2>1, <2>3, <3>1, <3>2, <3>3 DEF TimerType
    <2> QED
      BY <2>2, <2>3
  <1> HIDE DEF new
  <1> QED
    BY <1>1, <1>2

LEMMA TimersStartedAre ==
    ASSUME Typed, NEW walked \in Seq(1..nsubs)
    PROVE  /\ TimersStarted(walked) \subseteq Channels
           /\ \A t \in Channels : t \in TimersStarted(walked) <=>
                /\ t[1] \in Touched(walked)
                /\ cbs[t[1]].channels[t[2]].timer /\ ~cbs[t[1]].channels[t[2]].sub
  <1>1. Touched(walked) \subseteq DOMAIN cbs
    BY RangeOfSeq DEF Touched, Typed
  <1>2. TimersStarted(walked) = UNION {ToStart(s) : s \in Touched(walked)}
    BY DEF TimersStarted, Touched
  <1>3. ASSUME NEW t
        PROVE  t \in TimersStarted(walked) <=>
                 \E s \in Touched(walked) : \E i \in DOMAIN cbs[s].channels :
                   t = <<s, i>> /\ cbs[s].channels[i].timer /\ ~cbs[s].channels[i].sub
    BY <1>2 DEF ToStart
  <1>4. TimersStarted(walked) \subseteq Channels
    <2>1. ASSUME NEW t \in TimersStarted(walked) PROVE t \in Channels
      BY <1>1, <1>3, ChannelsAre
    <2> QED
      BY <2>1
  <1>5. ASSUME NEW t \in Channels
        PROVE  t \in TimersStarted(walked) <=>
                 /\ t[1] \in Touched(walked)
                 /\ cbs[t[1]].channels[t[2]].timer /\ ~cbs[t[1]].channels[t[2]].sub
    <2>1. t[2] \in DOMAIN cbs[t[1]].channels /\ t = <<t[1], t[2]>>
      BY ChannelsAre
    <2> QED
      BY <1>3, <2>1
  <1> QED
    BY <1>4, <1>5

\* The part of the list that a confirmation walks over.
LEMMA UpToAwaitingIs ==
    ASSUME NEW S, NEW list \in Seq(S), list # <<>>, NEW name
    PROVE  LET w == UpToAwaiting(list, name) IN
           /\ w \in Seq(S) /\ Len(w) \in 1..Len(list)
           /\ \A i \in 1..Len(w) : w[i] = list[i]
           /\ Awaiting(w, name) # {} <=> Awaiting(list, name) # {}
           /\ Awaiting(list, name) # {} =>
                /\ Len(w) \in Awaiting(list, name)
                /\ \A j \in Awaiting(list, name) : Len(w) <= j
           /\ Awaiting(list, name) = {} => w = list
  <1> DEFINE w == UpToAwaiting(list, name)
             A == Awaiting(list, name)
  <1>1. Len(list) \in Nat /\ DOMAIN list = 1..Len(list) /\ Len(list) >= 1
        /\ \A i \in 1..Len(list) : list[i] \in S
    BY EmptySeq
  <1>2. A \subseteq 1..Len(list)
    BY <1>1 DEF Awaiting
  <1>3. CASE A = {}
    <2>1. w = list
      BY <1>3 DEF UpToAwaiting
    <2> QED
      BY <1>1, <1>3, <2>1
  <1>4. CASE A # {}
    <2> DEFINE m == Min(A)
    <2>1. A \in SUBSET Nat
      BY <1>2
    <2>2. m \in A /\ \A j \in A : m <= j
      <3> HIDE DEF A
      <3> QED
        BY <1>4, <2>1, MinIs
    <2>3. m \in 1..Len(list)
      BY <1>2, <2>2
    <2>4. w = SubSeq(list, 1, m)
      BY <1>4 DEF UpToAwaiting
    <2> HIDE DEF m, w, A
    <2>5. /\ w \in Seq(S) /\ Len(w) = m
          /\ \A i \in 1..m : w[i] = list[i]
      <3>1. /\ m \in Int /\ m - 1 + 1 = m /\ 1 <= m
            /\ \A i \in 1..m : list[i] \in S
            /\ \A i \in 1..m : 1 + i - 1 = i
        BY <1>1, <2>3
      <3>2. /\ SubSeq(list, 1, m) \in Seq(S)
            /\ Len(SubSeq(list, 1, m)) = m
            /\ \A i \in 1..m : SubSeq(list, 1, m)[i] = list[i]
        BY <3>1, SubSeqProperties
      <3> QED
        BY <2>4, <3>2
    <2>6. m \in Awaiting(w, name)
      <3>1. m \in DOMAIN w /\ w[m] = list[m]
        BY <2>3, <2>5
      <3>2. \E c \in DOMAIN cbs[list[m]].channels : Awaits(list[m], c, name)
        BY <2>2 DEF A, Awaiting
      <3> QED
        BY <3>1, <3>2 DEF Awaiting
    <2>7. Awaiting(w, name) # {} /\ Len(w) \in A /\ \A j \in A : Len(w) <= j
      BY <2>2, <2>5, <2>6
    <2> QED
      BY <1>4, <2>3, <2>5, <2>7 DEF w, A
  <1> QED
    BY <1>3, <1>4

\* The callback that subscribe() makes, and what stays.
LEMMA SubscribeIs ==
    ASSUME Typed, NEW v \in Variants, NEW req \in Requests, lua_client_subscribe(v, req)
    PROVE  LET s == nsubs + 1
               names == NamesOf(req)
               ks == TimersOf(req) IN
           /\ nsubs \in Nat /\ s \in Subs /\ nsubs' = s
           /\ cbs' \in [1..s -> CallbackType]
           /\ \A t \in 1..nsubs : cbs'[t] = cbs[t]
           /\ cbs'[s].init = cbs'[s].fresh /\ cbs'[s].variant = v /\ cbs'[s].session = session
           /\ DOMAIN cbs'[s].channels = 1..(Len(names) + Len(ks))
           /\ \A i \in 1..(Len(names) + Len(ks)) :
                cbs'[s].channels[i] =
                  IF i <= Len(names)
                    THEN [timer |-> FALSE, name |-> names[i], ikey |-> 0, sub |-> FALSE]
                    ELSE [timer |-> TRUE, name |-> <<>>, ikey |-> ks[i - Len(names)], sub |-> FALSE]
  <1> DEFINE s == nsubs + 1
             names == NamesOf(req)
             ks == TimersOf(req)
             N == [i \in 1..Len(names) |->
                    [timer |-> FALSE, name |-> names[i], ikey |-> 0, sub |-> FALSE]]
             T == [i \in 1..Len(ks) |->
                    [timer |-> TRUE, name |-> <<>>, ikey |-> ks[i], sub |-> FALSE]]
  <1>1. nsubs \in Nat /\ s \in Nat /\ s \in Subs /\ DOMAIN cbs = 1..nsubs /\ 1..s = 1..nsubs \cup {s}
        /\ session \in 1..MaxSessions /\ s \notin 1..nsubs
    <2>1. nsubs \in Nat /\ nsubs < MaxSubs /\ MaxSubs \in Nat
      BY SubscriptionsAssumption DEF Typed, lua_client_subscribe
    <2>2. DOMAIN cbs = 1..nsubs /\ session \in 1..MaxSessions
      BY DEF Typed
    <2> QED
      BY <2>1, <2>2 DEF Subs
  <1>2. nsubs' = s
    BY DEF lua_client_subscribe
  <1>3. PICK fresh \in FreshFlags : cbs' =
          [t \in DOMAIN cbs \cup {s} |-> IF t # s THEN cbs[t] ELSE
             [init |-> fresh, fresh |-> fresh, variant |-> v, session |-> session, channels |-> N \o T]]
    BY DEF lua_client_subscribe
  <1>4. fresh \in BOOLEAN
    BY SubscriptionsAssumption
  <1>5. names \in Seq(Names) /\ ks \in Seq(Intervals)
    BY RequestTypes
  <1> HIDE DEF names, ks
  <1>6. N \in Seq(ChannelType) /\ T \in Seq(ChannelType) /\ Len(N) = Len(names) /\ Len(T) = Len(ks)
    <2>1. Len(names) \in Nat /\ Len(ks) \in Nat
      BY <1>5
    <2>2. \A i \in 1..Len(names) :
            [timer |-> FALSE, name |-> names[i], ikey |-> 0, sub |-> FALSE] \in ChannelType
      BY <1>5 DEF ChannelType
    <2>3. \A i \in 1..Len(ks) :
            [timer |-> TRUE, name |-> <<>>, ikey |-> ks[i], sub |-> FALSE] \in ChannelType
      BY <1>5 DEF ChannelType
    <2>4. N \in [1..Len(names) -> ChannelType] /\ T \in [1..Len(ks) -> ChannelType]
      BY <2>2, <2>3
    <2> HIDE DEF N, T
    <2> QED
      BY <2>1, <2>4
  <1>7. /\ N \o T \in Seq(ChannelType) /\ Len(N \o T) = Len(names) + Len(ks)
        /\ DOMAIN (N \o T) = 1..(Len(names) + Len(ks))
        /\ \A i \in 1..(Len(names) + Len(ks)) :
             (N \o T)[i] = IF i <= Len(names) THEN N[i] ELSE T[i - Len(names)]
    <2> HIDE DEF N, T
    <2>1. /\ N \o T \in Seq(ChannelType) /\ Len(N \o T) = Len(N) + Len(T)
          /\ \A i \in 1..(Len(N) + Len(T)) : (N \o T)[i] = IF i <= Len(N) THEN N[i] ELSE T[i - Len(N)]
      BY <1>6, ConcatProperties
    <2>2. DOMAIN (N \o T) = 1..Len(N \o T)
      BY <2>1, LenProperties
    <2> QED
      BY <1>6, <2>1, <2>2
  <1>8. ASSUME NEW i \in 1..(Len(names) + Len(ks))
        PROVE  (N \o T)[i] =
                  IF i <= Len(names)
                    THEN [timer |-> FALSE, name |-> names[i], ikey |-> 0, sub |-> FALSE]
                    ELSE [timer |-> TRUE, name |-> <<>>, ikey |-> ks[i - Len(names)], sub |-> FALSE]
    <2>1. Len(names) \in Nat /\ Len(ks) \in Nat
      BY <1>5
    <2>2. CASE i <= Len(names)
      <3>1. i \in 1..Len(names)
        BY <2>1, <2>2
      <3> QED
        BY <1>7, <2>2, <3>1
    <2>3. CASE ~(i <= Len(names))
      <3>1. i - Len(names) \in 1..Len(ks)
        BY <2>1, <2>3
      <3>2. (N \o T)[i] = T[i - Len(names)]
        BY <1>7, <2>3
      <3> QED
        BY <2>3, <3>1, <3>2
    <2> QED
      BY <2>2, <2>3
  <1> DEFINE C == N \o T
  <1>9. C \in Seq(ChannelType) /\ DOMAIN C = 1..(Len(names) + Len(ks))
    BY <1>7
  <1> HIDE DEF C, N, T
  <1>10. cbs' = [t \in 1..s |-> IF t # s THEN cbs[t] ELSE
             [init |-> fresh, fresh |-> fresh, variant |-> v, session |-> session, channels |-> C]]
    BY <1>1, <1>3 DEF C
  <1>11. [init |-> fresh, fresh |-> fresh, variant |-> v, session |-> session,
          channels |-> C] \in CallbackType
    BY <1>1, <1>4, <1>9 DEF CallbackType
  <1>12. \A t \in 1..nsubs : cbs[t] \in CallbackType
    BY DEF Typed
  <1>13. cbs' \in [1..s -> CallbackType]
    BY <1>1, <1>10, <1>11, <1>12
  <1>14. cbs'[s] = [init |-> fresh, fresh |-> fresh, variant |-> v, session |-> session,
                    channels |-> C]
    BY <1>1, <1>10
  <1>15. \A t \in 1..nsubs : cbs'[t] = cbs[t]
    BY <1>1, <1>10
  <1> QED
    BY <1>1, <1>2, <1>8, <1>9, <1>13, <1>14, <1>15 DEF names, ks, C

\* Channels grows with the callbacks.
LEMMA ChannelsGrow ==
    ASSUME DOMAIN cbs \subseteq DOMAIN cbs', \A t \in DOMAIN cbs : cbs'[t] = cbs[t]
    PROVE  Channels \subseteq Channels' /\ \A t \in Channels : Interval(t)' = Interval(t)
  <1>1. ASSUME NEW t \in Channels PROVE t \in Channels' /\ Interval(t)' = Interval(t)
    <2>1. t[1] \in DOMAIN cbs /\ t[2] \in DOMAIN cbs[t[1]].channels /\ t = <<t[1], t[2]>>
      BY ChannelsAre
    <2>2. t[1] \in DOMAIN cbs' /\ cbs'[t[1]] = cbs[t[1]]
      BY <2>1
    <2>3. t \in Channels'
      BY <2>1, <2>2 DEF Channels
    <2> QED
      BY <2>2, <2>3 DEF Interval
  <1> QED
    BY <1>1

LEMMA TypedSubscribe ==
    ASSUME Typed, NEW v \in Variants, NEW req \in Requests, lua_client_subscribe(v, req)
    PROVE  Typed'
  <1> DEFINE s == nsubs + 1
             names == NamesOf(req)
             ks == TimersOf(req)
             filed == Filed(v, names, s)
  <1>1. /\ nsubs \in Nat /\ s \in Nat /\ s \in Subs /\ nsubs' = s /\ s \in 0..MaxSubs
        /\ cbs' \in [1..s -> CallbackType]
        /\ \A t \in 1..nsubs : cbs'[t] = cbs[t]
    BY SubscribeIs DEF Subs
  <1>2. names \in Seq(Names) /\ ks \in Seq(Intervals)
    BY RequestTypes
  <1>3. /\ DOMAIN trees = Variants /\ DOMAIN cb_lists = Variants
        /\ \A w \in Variants : [tree |-> trees[w], lists |-> cb_lists[w]] \in Files(nsubs)
    BY DEF Typed
  <1>4. \A w \in Variants : [tree |-> trees[w], lists |-> cb_lists[w]] \in Files(s)
    BY <1>1, <1>3, FilesGrow
  <1>5. filed \in Files(s)
    <2>1. [tree |-> trees[v], lists |-> cb_lists[v]] \in Files(s)
      BY <1>4
    <2>2. s \in 1..s /\ names \in NameLists
      BY <1>1, <1>2 DEF NameLists
    <2> HIDE DEF names
    <2> QED
      BY <1>1, <2>1, <2>2, FiledType
  <1>6. trees' = [trees EXCEPT ![v] = filed.tree] /\ cb_lists' = [cb_lists EXCEPT ![v] = filed.lists]
    BY DEF lua_client_subscribe
  <1>7. /\ DOMAIN trees' = Variants /\ DOMAIN cb_lists' = Variants
        /\ \A w \in Variants : [tree |-> trees'[w], lists |-> cb_lists'[w]] \in Files(nsubs')
    <2>1. filed = [tree |-> filed.tree, lists |-> filed.lists]
      BY <1>5 DEF Files
    <2> HIDE DEF filed
    <2>2. ASSUME NEW w \in Variants
          PROVE  [tree |-> trees'[w], lists |-> cb_lists'[w]] \in Files(s)
      <3>1. CASE w = v
        <4>1. trees'[w] = filed.tree /\ cb_lists'[w] = filed.lists
          BY <1>3, <1>6, <3>1
        <4> QED
          BY <4>1, <2>1, <1>5
      <3>2. CASE w # v
        <4>1. trees'[w] = trees[w] /\ cb_lists'[w] = cb_lists[w]
          BY <1>3, <1>6, <3>2
        <4> QED
          BY <4>1, <1>4
      <3> QED
        BY <3>1, <3>2
    <2> QED
      BY <1>1, <1>3, <1>6, <2>2
  <1>8. Channels \subseteq Channels'
    <2>1. DOMAIN cbs = 1..nsubs /\ 1..nsubs \subseteq 1..s
      BY <1>1 DEF Typed
    <2>2. DOMAIN cbs \subseteq DOMAIN cbs' /\ \A t \in DOMAIN cbs : cbs'[t] = cbs[t]
      BY <1>1, <2>1
    <2> QED
      BY <2>2, ChannelsGrow
  <1>9. DOMAIN timers' \subseteq Intervals /\ timers' \in [DOMAIN timers' -> TimerType']
    <2>1. timers' = [k \in DOMAIN timers \cup Range(ks) |->
                       IF k \in DOMAIN timers THEN timers[k] ELSE [list |-> <<s>>, handle |-> NoHandle]]
      BY DEF lua_client_subscribe, FileTimers
    <2>2. Range(ks) \subseteq Intervals
      BY <1>2, RangeOfSeq
    <2>3. Seq(1..nsubs) \subseteq Seq(1..s)
      <3>1. 1..nsubs \subseteq 1..s
        BY <1>1
      <3> QED
        BY <3>1, SeqSubset
    <2>4. <<s>> \in Seq(1..s)
      <3>1. s \in 1..s
        BY <1>1
      <3> QED
        BY <3>1
    <2>5. TimerType' = [list : Seq(1..s), handle : Channels' \cup {NoHandle}]
      BY <1>1 DEF TimerType
    <2>6. \A k \in DOMAIN timers : timers[k] \in TimerType'
      BY <1>8, <2>3, <2>5 DEF Typed, TimerType
    <2>7. [list |-> <<s>>, handle |-> NoHandle] \in TimerType'
      BY <2>4, <2>5
    <2>8. DOMAIN timers \subseteq Intervals
      BY DEF Typed
    <2> HIDE DEF ks, s
    <2> QED
      BY <2>1, <2>2, <2>6, <2>7, <2>8
  <1>10. requests' \in Seq(RequestType)
    <2>1. [kind |-> "subscribe", variant |-> v, names |-> names] \in RequestType
      BY <1>2 DEF RequestType
    <2>2. requests' = Append(requests, [kind |-> "subscribe", variant |-> v, names |-> names])
      BY DEF lua_client_subscribe
    <2>3. requests \in Seq(RequestType)
      BY DEF Typed
    <2> HIDE DEF names
    <2> QED
      BY <2>1, <2>2, <2>3, AppendProperties
  <1>11. /\ UNCHANGED <<phase, session, running, served, wire, handler, nevents, acks, log, due, fault>>
         /\ MessageCount(wire)' = MessageCount(wire)
    BY DEF lua_client_subscribe, MessageCount
  <1>12. running' \subseteq Channels'
    BY <1>8, <1>11 DEF Typed
  <1> HIDE DEF s, names, ks, filed
  <1>13. s \in 0..MaxSubs /\ cbs' \in [1..nsubs' -> CallbackType]
    BY <1>1
  <1> QED
    BY <1>1, <1>7, <1>9, <1>10, <1>11, <1>12, <1>13 DEF Typed

\* The replies to a request.
Answers(r) ==
    IF r.names = <<>>
      THEN <<[kind |-> "error", variant |-> r.variant, name |-> <<>>]>>
      ELSE [i \in DOMAIN r.names |-> [kind |-> r.kind, variant |-> r.variant, name |-> r.names[i]]]

LEMMA AnswersAre ==
    ASSUME NEW r \in RequestType
    PROVE  /\ Answers(r) \in Seq(ReplyType)
           /\ \A i \in DOMAIN Answers(r) : Answers(r)[i].kind # "message"
           /\ r.names # <<>> =>
                /\ Len(Answers(r)) = Len(r.names)
                /\ \A i \in 1..Len(r.names) :
                     Answers(r)[i] = [kind |-> r.kind, variant |-> r.variant, name |-> r.names[i]]
           /\ r.names = <<>> => Len(Answers(r)) = 1 /\ Answers(r)[1].kind = "error"
  <1>1. r.names \in Seq(Names) /\ r.kind \in {"subscribe", "unsubscribe"} /\ r.variant \in Variants
    BY DEF RequestType
  <1>2. CASE r.names = <<>>
    <2> DEFINE e == [kind |-> "error", variant |-> r.variant, name |-> <<>>]
    <2>1. e \in ReplyType /\ e.kind = "error"
      BY <1>1 DEF ReplyType
    <2>2. Answers(r) = <<e>>
      BY <1>2 DEF Answers
    <2> HIDE DEF e
    <2> DEFINE t == <<e>>
    <2>3. Len(t) = 1 /\ t[1] = e /\ (\A i \in DOMAIN t : t[i] = e) /\ t \in Seq(ReplyType)
      BY <2>1
    <2> HIDE DEF t
    <2>4. Answers(r) = t
      BY <2>2 DEF t
    <2>5. e.kind # "message"
      BY <2>1
    <2> QED
      BY <1>2, <2>1, <2>3, <2>4, <2>5
  <1>3. CASE r.names # <<>>
    <2>1. Answers(r) = [i \in 1..Len(r.names) |->
                          [kind |-> r.kind, variant |-> r.variant, name |-> r.names[i]]]
      BY <1>1, <1>3, LenProperties DEF Answers
    <2>2. \A i \in 1..Len(r.names) :
            [kind |-> r.kind, variant |-> r.variant, name |-> r.names[i]] \in ReplyType
      BY <1>1 DEF ReplyType
    <2>3. Len(r.names) \in Nat
      BY <1>1
    <2>4. Answers(r) \in [1..Len(r.names) -> ReplyType]
      BY <2>1, <2>2
    <2>5. Answers(r) \in Seq(ReplyType) /\ Len(Answers(r)) = Len(r.names)
          /\ DOMAIN Answers(r) = 1..Len(r.names)
      BY <2>3, <2>4
    <2>6. \A i \in 1..Len(r.names) :
            Answers(r)[i] = [kind |-> r.kind, variant |-> r.variant, name |-> r.names[i]]
      BY <2>1
    <2>7. ASSUME NEW i \in DOMAIN Answers(r) PROVE Answers(r)[i].kind # "message"
      <3>1. Answers(r)[i] = [kind |-> r.kind, variant |-> r.variant, name |-> r.names[i]]
        BY <2>5, <2>6
      <3>2. Answers(r)[i].kind = r.kind
        BY <3>1
      <3> QED
        BY <1>1, <3>2
    <2> QED
      BY <1>3, <2>5, <2>6, <2>7
  <1> QED
    BY <1>2, <1>3

LEMMA ServesIs ==
    ASSUME Typed, ServerServes
    PROVE  /\ requests # <<>> /\ Head(requests) \in RequestType
           /\ requests' = Tail(requests) /\ requests' \in Seq(RequestType)
           /\ wire' = wire \o Answers(Head(requests)) /\ wire' \in Seq(ReplyType)
           /\ served' \subseteq served \cup
                (IF Head(requests).kind = "subscribe"
                   THEN {<<Head(requests).variant, Head(requests).names[i]>> :
                            i \in DOMAIN Head(requests).names}
                   ELSE {})
           /\ served' \subseteq Variants \X Names
           /\ MessageCount(wire)' = MessageCount(wire)
  <1> DEFINE r == Head(requests)
             these == {<<r.variant, r.names[i]>> : i \in DOMAIN r.names}
  <1>1. requests \in Seq(RequestType) /\ requests # <<>> /\ wire \in Seq(ReplyType)
        /\ served \subseteq Variants \X Names
    BY DEF Typed, ServerServes
  <1>2. r \in RequestType /\ Tail(requests) \in Seq(RequestType)
    BY <1>1, HeadTailProperties
  <1>3. requests' = Tail(requests)
    BY DEF ServerServes
  <1>4. wire' = wire \o Answers(r)
    BY DEF ServerServes, Answers
  <1>5. served' = IF r.kind = "subscribe" THEN served \cup these ELSE served \ these
    BY DEF ServerServes
  <1> HIDE DEF r
  <1>6. Answers(r) \in Seq(ReplyType) /\ \A i \in DOMAIN Answers(r) : Answers(r)[i].kind # "message"
    BY <1>2, AnswersAre
  <1>7. wire \o Answers(r) \in Seq(ReplyType)
    BY <1>1, <1>6, ConcatProperties
  <1>8. MessageCount(wire)' = MessageCount(wire)
    <2>1. MessageCount(wire)' = MessageCount(wire')
      BY DEF MessageCount
    <2>2. MessageCount(wire \o Answers(r)) = MessageCount(wire)
      BY <1>1, <1>6, MessageCountFacts
    <2> QED
      BY <2>1, <2>2, <1>4
  <1>9. these \subseteq Variants \X Names
    <2>1. r.variant \in Variants /\ r.names \in Seq(Names)
      BY <1>2 DEF RequestType
    <2>2. \A i \in DOMAIN r.names : r.names[i] \in Names
      BY <2>1
    <2> QED
      BY <2>1, <2>2
  <1>10. /\ served' \subseteq served \cup (IF r.kind = "subscribe" THEN these ELSE {})
         /\ served' \subseteq Variants \X Names
    <2> HIDE DEF these
    <2> QED
      BY <1>1, <1>5, <1>9
  <1> QED
    BY <1>1, <1>2, <1>3, <1>4, <1>7, <1>8, <1>10 DEF r

LEMMA TypedServes ==
    ASSUME Typed, ServerServes
    PROVE  Typed'
  <1>1. UNCHANGED <<phase, session, trees, cb_lists, timers, cbs, running,
                    handler, nsubs, nunsubs, nevents, acks, log, due, fault>>
    BY DEF ServerServes
  <1>2. Channels' = Channels /\ TimerType' = TimerType
    BY <1>1 DEF Channels, TimerType
  <1>3. /\ requests' \in Seq(RequestType) /\ wire' \in Seq(ReplyType)
        /\ served' \subseteq Variants \X Names /\ MessageCount(wire)' = MessageCount(wire)
    BY ServesIs
  <1> QED
    BY <1>1, <1>2, <1>3 DEF Typed

\* The reply that on_read takes off the wire.
LEMMA ReadIs ==
    ASSUME Typed, wire # <<>>, wire' = Tail(wire)
    PROVE  /\ Head(wire) \in ReplyType /\ wire' \in Seq(ReplyType)
           /\ MessageCount(wire) \in Nat
           /\ MessageCount(wire)' =
                IF Head(wire).kind = "message" THEN MessageCount(wire) - 1 ELSE MessageCount(wire)
  <1>1. wire \in Seq(ReplyType)
    BY DEF Typed
  <1>2. MessageCount(wire)' = MessageCount(wire')
    BY DEF MessageCount
  <1> QED
    BY <1>1, <1>2, MessageCountFacts, HeadTailProperties

LEMMA TypedQuiet ==
    ASSUME Typed,
           \/ \E v \in Variants, name \in Names : unsubscribe(v, name)
           \/ \E v \in Variants, name \in Names : ServerPublishes(v, name)
           \/ on_read_ignored
           \/ walk_end \/ lua_client_disconnect \/ lua_client_connect
           \/ UNCHANGED vars
    PROVE  Typed'
  <1>1. /\ UNCHANGED <<trees, cb_lists, timers, cbs, running, served, nsubs, nevents, log, due, fault>>
    BY DEF unsubscribe, ServerPublishes, on_read_ignored, walk_end,
           lua_client_disconnect, lua_client_connect, vars
  <1>2. Channels' = Channels /\ TimerType' = TimerType
    BY <1>1 DEF Channels, TimerType
  <1>3. /\ phase' \in {"connected", "closing", "closed"} /\ session' \in 1..MaxSessions
    <2>1. /\ phase \in {"connected", "closing", "closed"} /\ session \in 1..MaxSessions
          /\ MaxSessions \in Nat
      BY SubscriptionsAssumption DEF Typed
    <2>2. CASE lua_client_connect
      BY <2>1, <2>2 DEF lua_client_connect
    <2>3. CASE lua_client_disconnect
      BY <2>1, <2>3 DEF lua_client_disconnect
    <2>4. \/ lua_client_connect \/ lua_client_disconnect
          \/ phase' = phase /\ session' = session
      BY DEF unsubscribe, ServerPublishes, on_read_ignored, walk_end, vars
    <2> QED
      BY <2>1, <2>2, <2>3, <2>4
  <1>4. requests' \in Seq(RequestType)
    <2>1. requests \in Seq(RequestType)
      BY DEF Typed
    <2>2. ASSUME NEW v \in Variants, NEW name \in Names, unsubscribe(v, name)
          PROVE  requests' \in Seq(RequestType)
      <3>1. [kind |-> "unsubscribe", variant |-> v, names |-> <<name>>] \in RequestType
        BY DEF RequestType
      <3>2. requests' = Append(requests, [kind |-> "unsubscribe", variant |-> v, names |-> <<name>>])
        BY <2>2 DEF unsubscribe
      <3> QED
        BY <2>1, <3>1, <3>2, AppendProperties
    <2>3. (\E v \in Variants, name \in Names : unsubscribe(v, name)) \/ requests' = requests
      BY DEF ServerPublishes, on_read_ignored, walk_end,
             lua_client_disconnect, lua_client_connect, vars
    <2> QED
      BY <2>1, <2>2, <2>3
  <1>5. wire' \in Seq(ReplyType) /\ nevents + MessageCount(wire)' <= MaxEvents
    <2>1. /\ wire \in Seq(ReplyType) /\ nevents + MessageCount(wire) <= MaxEvents
          /\ nevents \in Nat /\ MaxEvents \in Nat /\ MessageCount(wire) \in Nat
      BY SubscriptionsAssumption, MessageCountFacts DEF Typed
    <2>2. MessageCount(wire)' = MessageCount(wire')
      BY DEF MessageCount
    <2>3. ASSUME NEW v \in Variants, NEW name \in Names, ServerPublishes(v, name)
          PROVE  wire' \in Seq(ReplyType) /\ nevents + MessageCount(wire)' <= MaxEvents
      <3> DEFINE r == [kind |-> "message", variant |-> v, name |-> name]
      <3>1. r \in ReplyType /\ r.kind = "message"
        BY DEF ReplyType
      <3>2. wire' = Append(wire, r) /\ nevents + MessageCount(wire) < MaxEvents
        BY <2>3 DEF ServerPublishes
      <3> HIDE DEF r
      <3>3. MessageCount(Append(wire, r)) = MessageCount(wire) + 1
        BY <2>1, <3>1, MessageCountFacts
      <3>4. wire' \in Seq(ReplyType)
        BY <2>1, <3>1, <3>2, AppendProperties
      <3> QED
        BY <2>1, <2>2, <3>2, <3>3, <3>4
    <2>4. ASSUME on_read_ignored
          PROVE  wire' \in Seq(ReplyType) /\ nevents + MessageCount(wire)' <= MaxEvents
      <3>1. wire # <<>> /\ wire' = Tail(wire)
        BY <2>4 DEF on_read_ignored, Reads
      <3> QED
        BY <2>1, <3>1, ReadIs
    <2>5. \/ \E v \in Variants, name \in Names : ServerPublishes(v, name)
          \/ on_read_ignored \/ wire' = wire
      BY DEF unsubscribe, walk_end, lua_client_disconnect, lua_client_connect, vars
    <2> QED
      BY <2>1, <2>2, <2>3, <2>4, <2>5
  <1>6. handler' \in HandlerType
    <2>1. handler' = handler \/ handler' = Idle
      BY DEF unsubscribe, ServerPublishes, on_read_ignored, walk_end,
             lua_client_disconnect, lua_client_connect, vars
    <2>2. <<>> \in Paths
      BY EmptySeq DEF Paths
    <2>3. Idle \in HandlerType
      BY <2>2, SubscriptionsAssumption DEF Idle, HandlerType
    <2> QED
      BY <2>1, <2>3 DEF Typed
  <1> QED
    BY <1>1, <1>2, <1>3, <1>4, <1>5, <1>6 DEF Typed

\* A subscribe reply, case by case.
LEMMA ConfirmationIs ==
    ASSUME Typed, on_read_subscribe
    PROVE  LET r == Head(wire)
               p == search(trees[r.variant], r.name)
               list == cb_lists[r.variant][p]
               w == UpToAwaiting(list, r.name) IN
           /\ r \in ReplyType /\ r.kind = "subscribe" /\ wire # <<>> /\ wire' = Tail(wire)
           /\ phase # "closed" /\ acks' = acks \cup NextConfirmed
           /\ UNCHANGED <<phase, session, trees, cb_lists, requests, served, handler,
                          nsubs, nunsubs, nevents, due>>
           /\ \/ /\ p \notin DOMAIN trees[r.variant]
                 /\ fault' = TRUE /\ UNCHANGED <<cbs, running, timers, log>>
              \/ /\ p \in DOMAIN trees[r.variant]
                 /\ list \in Seq(1..nsubs) /\ list # <<>>
                 /\ w \in Seq(1..nsubs) /\ w # <<>>
                 /\ ConfirmAll(w, Awaiting(w, r.name) # {}, r.name)
                 /\ StartTimers(TimersStarted(w))
                 /\ fault' = fault
  <1> DEFINE r == Head(wire)
             p == search(trees[r.variant], r.name)
             list == cb_lists[r.variant][p]
             w == UpToAwaiting(list, r.name)
  <1>1. /\ r.kind = "subscribe" /\ wire # <<>> /\ wire' = Tail(wire)
        /\ phase # "closed" /\ acks' = acks \cup NextConfirmed
        /\ UNCHANGED <<phase, session, trees, cb_lists, requests, served, handler,
                       nsubs, nunsubs, nevents, due>>
    BY DEF on_read_subscribe, Reads
  <1>2. \/ /\ p \notin DOMAIN trees[r.variant]
           /\ fault' = TRUE /\ UNCHANGED <<cbs, running, timers, log>>
        \/ /\ p \in DOMAIN trees[r.variant]
           /\ ConfirmAll(w, Awaiting(w, r.name) # {}, r.name)
           /\ StartTimers(TimersStarted(w))
           /\ fault' = fault
    BY Zenon DEF on_read_subscribe
  <1>3. r \in ReplyType
    BY <1>1, ReadIs
  <1> HIDE DEF r, p, w
  <1>4. ASSUME p \in DOMAIN trees[r.variant]
        PROVE  /\ list \in Seq(1..nsubs) /\ list # <<>>
               /\ w \in Seq(1..nsubs) /\ w # <<>>
    <2>1. [tree |-> trees[r.variant], lists |-> cb_lists[r.variant]] \in Files(nsubs)
      BY <1>3 DEF Typed, ReplyType
    <2>2. nsubs \in Nat
      BY SubscriptionsAssumption DEF Typed
    <2>3. list \in Seq(1..nsubs) /\ list # <<>>
      BY <1>4, <2>1, <2>2, FilesAre
    <2> HIDE DEF list
    <2>4. w \in Seq(1..nsubs) /\ Len(w) \in 1..Len(list)
      BY <2>3, UpToAwaitingIs DEF w
    <2> QED
      BY <2>3, <2>4
  <1> QED
    BY <1>1, <1>2, <1>3, <1>4 DEF r, p, w

LEMMA TypedConfirmation ==
    ASSUME Typed, on_read_subscribe
    PROVE  Typed'
  <1> DEFINE r == Head(wire)
             p == search(trees[r.variant], r.name)
             list == cb_lists[r.variant][p]
             w == UpToAwaiting(list, r.name)
             hit == Awaiting(w, r.name) # {}
  <1>1. /\ r \in ReplyType /\ r.kind = "subscribe" /\ wire # <<>> /\ wire' = Tail(wire)
        /\ UNCHANGED <<phase, session, trees, cb_lists, requests, served, handler,
                       nsubs, nunsubs, nevents, due>>
    BY ConfirmationIs
  <1>2. \/ fault' = TRUE /\ UNCHANGED <<cbs, running, timers, log>>
        \/ /\ w \in Seq(1..nsubs) /\ w # <<>>
           /\ ConfirmAll(w, hit, r.name)
           /\ StartTimers(TimersStarted(w))
           /\ fault' = fault
    BY ConfirmationIs
  <1>3. wire' \in Seq(ReplyType) /\ MessageCount(wire)' = MessageCount(wire)
    BY <1>1, ReadIs, SMTT(30) DEF Typed
  <1> HIDE DEF r, p, list, w, hit
  <1>4. /\ cbs' \in [1..nsubs -> CallbackType] /\ Channels' = Channels
        /\ running' \subseteq Channels
        /\ DOMAIN timers' = DOMAIN timers /\ timers' \in [DOMAIN timers -> TimerType]
        /\ log' \in [Subs -> Seq(EntryType)] /\ fault' \in BOOLEAN
    <2>1. CASE fault' = TRUE /\ UNCHANGED <<cbs, running, timers, log>>
      BY <2>1 DEF Typed, Channels
    <2>2. CASE /\ w \in Seq(1..nsubs) /\ w # <<>>
               /\ ConfirmAll(w, hit, r.name)
               /\ StartTimers(TimersStarted(w))
               /\ fault' = fault
      <3>1. hit \in BOOLEAN
        BY DEF hit
      <3>2. /\ cbs' \in [1..nsubs -> CallbackType]
            /\ \A s \in 1..nsubs : SameShape(cbs[s], cbs'[s])
        BY <2>2, <3>1, ConfirmAllIs
      <3>3. Channels' = Channels
        BY <3>2, ChannelsKept DEF Typed
      <3>4. TimersStarted(w) \subseteq Channels
        BY <2>2, TimersStartedAre
      <3>5. /\ running' = running \cup TimersStarted(w)
            /\ DOMAIN timers' = DOMAIN timers /\ timers' \in [DOMAIN timers -> TimerType]
        BY <2>2, <3>4, StartTimersIs
      <3>6. log' \in [Subs -> Seq(EntryType)]
        <4>1. log \in [Subs -> Seq(EntryType)] /\ MaxEvents \in Nat
          BY SubscriptionsAssumption DEF Typed
        <4>2. [kind |-> "ack", event |-> 0] \in EntryType
          BY <4>1 DEF EntryType
        <4>3. \A l \in Seq(EntryType) : Append(l, [kind |-> "ack", event |-> 0]) \in Seq(EntryType)
          BY <4>2, AppendProperties
        <4>4. \/ log' = log
              \/ log' = [log EXCEPT ![w[Len(w)]] = Append(@, [kind |-> "ack", event |-> 0])]
          BY <2>2 DEF ConfirmAll
        <4> QED
          BY <4>1, <4>3, <4>4
      <3> QED
        BY <2>2, <3>2, <3>3, <3>4, <3>5, <3>6 DEF Typed
    <2> QED
      BY <1>2, <2>1, <2>2
  <1>5. TimerType' = TimerType
    BY <1>1, <1>4 DEF TimerType
  <1> QED
    BY <1>1, <1>3, <1>4, <1>5 DEF Typed

\* A message or a tick: the walk it begins.
LEMMA TypedEvent ==
    ASSUME Typed, on_read_message \/ \E t \in running : on_timer(t)
    PROVE  Typed'
  <1>1. UNCHANGED <<phase, session, trees, cb_lists, timers, cbs, running,
                    requests, served, nsubs, nunsubs, acks, log>>
    BY DEF on_read_message, on_timer
  <1>2. Channels' = Channels /\ TimerType' = TimerType
    BY <1>1 DEF Channels, TimerType
  <1>3. /\ wire \in Seq(ReplyType) /\ nevents \in Nat /\ MaxEvents \in Nat
        /\ MessageCount(wire) \in Nat /\ nevents + MessageCount(wire) <= MaxEvents
        /\ DOMAIN cbs \subseteq Subs /\ due \in [Events -> SUBSET Subs]
    <2>1. wire \in Seq(ReplyType) /\ nevents \in Nat /\ MaxEvents \in Nat
          /\ nevents + MessageCount(wire) <= MaxEvents /\ due \in [Events -> SUBSET Subs]
      BY SubscriptionsAssumption DEF Typed
    <2>2. DOMAIN cbs \subseteq Subs
      BY SubscriptionsAssumption DEF Typed, Subs
    <2> QED
      BY <2>1, <2>2, MessageCountFacts
  <1>4. <<>> \in Paths
    BY EmptySeq DEF Paths
  <1>5. CASE on_read_message
    <2> DEFINE r == Head(wire)
               p == search(trees[r.variant], r.name)
    <2>1. wire # <<>> /\ r.kind = "message" /\ wire' = Tail(wire) /\ nevents' = nevents + 1
      BY <1>5 DEF on_read_message, Reads
    <2>2. r \in ReplyType /\ wire' \in Seq(ReplyType) /\ MessageCount(wire)' = MessageCount(wire) - 1
          /\ MessageCount(wire) >= 1
      <3>1. MessageCount(wire)' \in Nat
        <4>1. wire' \in Seq(ReplyType) /\ MessageCount(wire)' = MessageCount(wire')
          BY <2>1, ReadIs DEF MessageCount
        <4> QED
          BY <4>1, MessageCountFacts
      <3> QED
        BY <1>3, <2>1, <3>1, ReadIs
    <2>3. nevents' \in 0..MaxEvents /\ nevents + 1 \in 0..MaxEvents
          /\ nevents' + MessageCount(wire)' <= MaxEvents
      BY <1>3, <2>1, <2>2
    <2>4. due' \in [Events -> SUBSET Subs]
      <3> DEFINE d == {s \in DOMAIN cbs :
                           /\ cbs[s].session = session /\ cbs[s].variant = r.variant
                           /\ Acked(s)
                           /\ \E i \in DOMAIN cbs[s].channels :
                                ~cbs[s].channels[i].timer /\ cbs[s].channels[i].name = r.name}
      <3>1. due' = [due EXCEPT ![nevents + 1] = d]
        BY <1>5 DEF on_read_message
      <3>2. d \in SUBSET Subs
        BY <1>3
      <3> HIDE DEF d
      <3> QED
        BY <1>3, <3>1, <3>2
    <2>5. fault' \in BOOLEAN /\ handler' \in HandlerType
      <3>1. CASE p \notin DOMAIN trees[r.variant]
        BY <1>5, <3>1 DEF on_read_message, Typed
      <3>2. CASE p \in DOMAIN trees[r.variant]
        <4>1. p \in Paths /\ r.variant \in {"channels", "patterns"}
          <5>1. r.variant \in Variants
            BY <2>2 DEF ReplyType
          <5>2. IsTree(trees[r.variant])
            BY <5>1 DEF Typed, Files
          <5> HIDE DEF p, r
          <5> QED
            BY <3>2, <5>1, <5>2, SubscriptionsAssumption DEF IsTree
        <4>2. /\ handler' = [Idle EXCEPT !.at = "walk", !.variant = r.variant,
                               !.node = p, !.event = nevents + 1]
              /\ fault' = fault
          BY <1>5, <3>2 DEF on_read_message
        <4> HIDE DEF p, r
        <4> QED
          BY <4>1, <4>2, <2>3 DEF Idle, HandlerType, Typed
      <3> QED
        BY <3>1, <3>2
    <2> QED
      BY <1>1, <1>2, <2>2, <2>3, <2>4, <2>5 DEF Typed
  <1>6. ASSUME NEW t \in running, on_timer(t) PROVE Typed'
    <2> DEFINE k == Interval(t)
    <2>1. wire' = wire /\ nevents' = nevents + 1 /\ nevents + MessageCount(wire) < MaxEvents
          /\ MessageCount(wire)' = MessageCount(wire)
      BY <1>6 DEF on_timer, MessageCount
    <2>2. nevents' \in 0..MaxEvents /\ nevents + 1 \in 0..MaxEvents
          /\ nevents' + MessageCount(wire)' <= MaxEvents
      BY <1>3, <2>1
    <2>3. due' \in [Events -> SUBSET Subs]
      <3> DEFINE d == {s \in DOMAIN cbs :
                           /\ cbs[s].session = session
                           /\ Acked(s)
                           /\ \E i \in DOMAIN cbs[s].channels :
                                cbs[s].channels[i].timer /\ cbs[s].channels[i].ikey = k}
      <3>1. due' = [due EXCEPT ![nevents + 1] = d]
        BY <1>6 DEF on_timer
      <3>2. d \in SUBSET Subs
        BY <1>3
      <3> HIDE DEF d
      <3> QED
        BY <1>3, <3>1, <3>2
    <2>4. fault' \in BOOLEAN /\ handler' \in HandlerType
      <3>1. CASE k \notin DOMAIN timers
        BY <1>6, <3>1 DEF on_timer, Typed
      <3>2. CASE k \in DOMAIN timers
        <4>1. k \in Intervals
          BY <3>2 DEF Typed
        <4>2. /\ handler' = [Idle EXCEPT !.at = "walk", !.interval = k, !.event = nevents + 1]
              /\ fault' = fault
          BY <1>6, <3>2 DEF on_timer
        <4> HIDE DEF k
        <4> QED
          BY <1>4, <4>1, <4>2, <2>2 DEF Idle, HandlerType, Typed
      <3> QED
        BY <3>1, <3>2
    <2> QED
      BY <1>1, <1>2, <2>1, <2>2, <2>3, <2>4 DEF Typed
  <1> QED
    BY <1>5, <1>6

LEMMA TypedWalk ==
    ASSUME Typed, walk_next
    PROVE  Typed'
  <1>1. UNCHANGED <<phase, session, trees, cb_lists, timers, cbs, running,
                    requests, served, wire, nsubs, nunsubs, nevents, acks, due, fault>>
    BY DEF walk_next
  <1>2. Channels' = Channels /\ TimerType' = TimerType /\ MessageCount(wire)' = MessageCount(wire)
    BY <1>1 DEF Channels, TimerType, MessageCount
  <1>3. handler \in HandlerType /\ log \in [Subs -> Seq(EntryType)]
    BY DEF Typed
  <1>4. handler' \in HandlerType
    <2>1. handler' = [handler EXCEPT !.i = @ + 1, !.at = "called"]
      BY DEF walk_next
    <2>2. handler.i + 1 \in Nat
      BY <1>3 DEF HandlerType
    <2>3. handler' = [at |-> "called", variant |-> handler.variant, node |-> handler.node,
                      interval |-> handler.interval, i |-> handler.i + 1,
                      event |-> handler.event]
      BY <1>3, <2>1 DEF HandlerType
    <2> QED
      BY <1>3, <2>2, <2>3 DEF HandlerType
  <1>5. log' \in [Subs -> Seq(EntryType)]
    <2> DEFINE s == Walked[handler.i + 1]
               e == [kind |-> GivenTo(s), event |-> handler.event]
    <2>1. log' = [log EXCEPT ![s] = Append(@, e)]
      BY DEF walk_next
    <2>2. e \in EntryType
      BY <1>3 DEF GivenTo, EntryType, HandlerType
    <2> HIDE DEF s, e
    <2>3. \A l \in Seq(EntryType) : Append(l, e) \in Seq(EntryType)
      BY <2>2, AppendProperties
    <2> QED
      BY <1>3, <2>1, <2>3
  <1> QED
    BY <1>1, <1>2, <1>4, <1>5 DEF Typed

LEMMA NoFiles ==
    ASSUME NEW m \in Nat
    PROVE  [tree |-> NoTree, lists |-> NoTree] \in Files(m)
  <1>1. DOMAIN NoTree = {} /\ NoTree \in [{} -> Names] /\ NoTree \in [{} -> Seq(1..m) \ {<<>>}]
    BY DEF NoTree
  <1>2. IsTree(NoTree)
    <2>1. 0 \in Nat
      OBVIOUS
    <2> QED
      BY <1>1, <2>1 DEF IsTree
  <1> QED
    BY <1>1, <1>2, FilesAre

LEMMA TypedDisconnect ==
    ASSUME Typed, on_disconnect
    PROVE  Typed'
  <1>1. /\ UNCHANGED <<session, cbs, handler, nsubs, nunsubs, nevents, acks, log, due, fault>>
        /\ phase' = "closed" /\ requests' = <<>> /\ served' = {} /\ wire' = <<>>
        /\ trees' = [v \in Variants |-> NoTree] /\ cb_lists' = [v \in Variants |-> NoTree]
        /\ running' = running \ Stopped /\ timers' = NoTimers
    BY DEF on_disconnect
  <1>2. Channels' = Channels
    BY <1>1 DEF Channels
  <1>3. nsubs \in Nat /\ nevents \in Nat /\ MaxEvents \in Nat /\ nevents <= MaxEvents
    BY SubscriptionsAssumption DEF Typed
  <1>4. \A v \in Variants : [tree |-> trees'[v], lists |-> cb_lists'[v]] \in Files(nsubs')
    BY <1>1, <1>3, NoFiles
  <1>5. MessageCount(wire)' = 0
    <2>1. DOMAIN wire' = {}
      BY <1>1
    <2>2. {i \in DOMAIN wire' : wire'[i].kind = "message"} = {}
      BY <2>1
    <2> QED
      BY <2>2, FS_EmptySet DEF MessageCount
  <1>6. DOMAIN timers' \subseteq Intervals /\ timers' \in [DOMAIN timers' -> TimerType']
    BY <1>1 DEF NoTimers
  <1>7. running' \subseteq Channels'
    BY <1>1, <1>2 DEF Typed
  <1>8. requests' \in Seq(RequestType) /\ wire' \in Seq(ReplyType)
    BY <1>1
  <1>9. nevents' + MessageCount(wire)' <= MaxEvents
    BY <1>1, <1>3, <1>5
  <1> QED
    BY <1>1, <1>4, <1>6, <1>7, <1>8, <1>9 DEF Typed

LEMMA TypedInit == Init => Typed
  <1> SUFFICES ASSUME Init PROVE Typed
    OBVIOUS
  <1> USE DEF Init
  <1>1. MaxSubs \in Nat /\ MaxEvents \in Nat /\ MaxSessions \in Nat \ {0}
    BY SubscriptionsAssumption
  <1>2. \A v \in Variants : [tree |-> trees[v], lists |-> cb_lists[v]] \in Files(nsubs)
    BY NoFiles
  <1>3. MessageCount(wire) = 0
    <2>1. {i \in DOMAIN wire : wire[i].kind = "message"} = {}
      OBVIOUS
    <2> QED
      BY <2>1, FS_EmptySet DEF MessageCount
  <1>4. timers \in [DOMAIN timers -> TimerType] /\ DOMAIN timers \subseteq Intervals
    BY DEF NoTimers
  <1>5. cbs \in [1..nsubs -> CallbackType]
    <2>1. 1..0 = {}
      OBVIOUS
    <2> QED
      BY <2>1
  <1>6. handler \in HandlerType
    <2>1. <<>> \in Paths
      BY EmptySeq DEF Paths
    <2> QED
      BY <1>1, <2>1 DEF Idle, HandlerType
  <1>7. log \in [Subs -> Seq(EntryType)] /\ due \in [Events -> SUBSET Subs]
    OBVIOUS
  <1>8. requests \in Seq(RequestType) /\ wire \in Seq(ReplyType) /\ running \subseteq Channels
        /\ served \subseteq Variants \X Names
    OBVIOUS
  <1>9. /\ session \in 1..MaxSessions /\ nsubs \in 0..MaxSubs /\ nevents \in 0..MaxEvents
        /\ nevents + MessageCount(wire) <= MaxEvents
    BY <1>1, <1>3
  <1> QED
    BY <1>2, <1>4, <1>5, <1>6, <1>7, <1>8, <1>9 DEF Typed

LEMMA TypedNext == Typed /\ [Next]_vars => Typed'
  <1> SUFFICES ASSUME Typed, [Next]_vars PROVE Typed'
    OBVIOUS
  <1>1. ASSUME NEW v \in Variants, NEW req \in Requests, lua_client_subscribe(v, req) PROVE Typed'
    BY <1>1, TypedSubscribe
  <1>2. CASE ServerServes
    BY <1>2, TypedServes
  <1>3. CASE on_read_subscribe
    BY <1>3, TypedConfirmation
  <1>4. CASE on_read_message \/ \E t \in running : on_timer(t)
    BY <1>4, TypedEvent
  <1>5. CASE walk_next
    BY <1>5, TypedWalk
  <1>6. CASE on_disconnect
    BY <1>6, TypedDisconnect
  <1>7. CASE \/ \E v \in Variants, name \in Names : unsubscribe(v, name)
             \/ \E v \in Variants, name \in Names : ServerPublishes(v, name)
             \/ on_read_ignored
             \/ walk_end \/ lua_client_disconnect \/ lua_client_connect
             \/ UNCHANGED vars
    BY <1>7, TypedQuiet
  <1> QED
    BY <1>1, <1>2, <1>3, <1>4, <1>5, <1>6, <1>7 DEF Next, Application, OnRead, Walk

\* Steps other than subscribe() leave the callbacks their shape.
LEMMA ShapesKept ==
    ASSUME Typed, [Next]_vars,
           ~ \E v \in Variants, req \in Requests : lua_client_subscribe(v, req)
    PROVE  /\ nsubs' = nsubs /\ cbs \in [1..nsubs -> CallbackType]
           /\ cbs' \in [1..nsubs -> CallbackType]
           /\ \A s \in 1..nsubs : SameShape(cbs[s], cbs'[s])
           /\ ~on_read_subscribe => cbs' = cbs
           /\ (trees' = trees /\ cb_lists' = cb_lists) \/ on_disconnect
  <1>1. cbs \in [1..nsubs -> CallbackType]
    BY DEF Typed
  <1>2. CASE on_read_subscribe
    <2>1. nsubs' = nsubs /\ trees' = trees /\ cb_lists' = cb_lists
      BY <1>2 DEF on_read_subscribe
    <2> DEFINE r == Head(wire)
               w == UpToAwaiting(cb_lists[r.variant][search(trees[r.variant], r.name)], r.name)
               hit == Awaiting(w, r.name) # {}
    <2>2. \/ UNCHANGED cbs
          \/ w \in Seq(1..nsubs) /\ ConfirmAll(w, hit, r.name)
      BY <1>2, ConfirmationIs
    <2>3. hit \in BOOLEAN
      OBVIOUS
    <2> HIDE DEF w, hit, r
    <2>4. CASE UNCHANGED cbs
      BY <1>1, <1>2, <2>1, <2>4 DEF SameShape
    <2>5. CASE w \in Seq(1..nsubs) /\ ConfirmAll(w, hit, r.name)
      BY <1>1, <1>2, <2>1, <2>3, <2>5, ConfirmAllIs
    <2> QED
      BY <2>2, <2>4, <2>5
  <1>3. CASE ~on_read_subscribe
    <2>1. nsubs' = nsubs /\ cbs' = cbs /\ ((trees' = trees /\ cb_lists' = cb_lists) \/ on_disconnect)
      <3>1. CASE Application
        BY <3>1 DEF Application, unsubscribe, lua_client_disconnect, lua_client_connect
      <3>2. CASE ServerServes \/ \E v \in Variants, name \in Names : ServerPublishes(v, name)
        BY <3>2 DEF ServerServes, ServerPublishes
      <3>3. CASE OnRead
        BY <3>3, <1>3 DEF OnRead, on_read_ignored, on_read_message
      <3>4. CASE \E t \in running : on_timer(t)
        BY <3>4 DEF on_timer
      <3>5. CASE Walk \/ UNCHANGED vars
        BY <3>5 DEF Walk, walk_next, walk_end, vars
      <3>6. CASE on_disconnect
        BY <3>6 DEF on_disconnect
      <3> QED
        BY <3>1, <3>2, <3>3, <3>4, <3>5, <3>6 DEF Next
    <2>2. \A s \in 1..nsubs : SameShape(cbs[s], cbs[s])
      BY DEF SameShape
    <2> QED
      BY <1>1, <1>3, <2>1, <2>2
  <1> QED
    BY <1>2, <1>3

\* What is confirmed belongs to a callback, and a chunk is counted down to 0.
LEMMA ReadingNext == Typed /\ Reading /\ [Next]_vars => Reading'
  <1> SUFFICES ASSUME Typed, Reading, [Next]_vars PROVE Reading'
    OBVIOUS
  <1>1. Channels \subseteq Channels'
    <2>1. ASSUME NEW v \in Variants, NEW req \in Requests, lua_client_subscribe(v, req)
          PROVE  Channels \subseteq Channels'
      <3>1. /\ cbs' \in [1..(nsubs + 1) -> CallbackType] /\ nsubs \in Nat
            /\ \A t \in 1..nsubs : cbs'[t] = cbs[t]
        BY <2>1, SubscribeIs
      <3>2. DOMAIN cbs = 1..nsubs /\ 1..nsubs \subseteq 1..(nsubs + 1)
        BY <3>1 DEF Typed
      <3> QED
        BY <3>1, <3>2, ChannelsGrow
    <2>2. CASE ~ \E v \in Variants, req \in Requests : lua_client_subscribe(v, req)
      BY <2>2, ShapesKept, ChannelsKept
    <2> QED
      BY <2>1, <2>2
  <1>2. acks' \subseteq acks \cup Channels
    <2>1. NextConfirmed \subseteq Channels
      BY DEF NextConfirmed, Outstanding, Asked
    <2>2. acks' = acks \/ acks' = {} \/ acks' = acks \cup NextConfirmed
      <3>1. CASE Application
        BY <3>1 DEF Application, lua_client_subscribe, unsubscribe, lua_client_disconnect,
                    lua_client_connect
      <3>2. CASE ServerServes \/ \E v \in Variants, name \in Names : ServerPublishes(v, name)
        BY <3>2 DEF ServerServes, ServerPublishes
      <3>3. CASE OnRead
        BY <3>3 DEF OnRead, on_read_ignored, on_read_message, on_read_subscribe
      <3>4. CASE (\E t \in running : on_timer(t)) \/ Walk \/ on_disconnect \/ UNCHANGED vars
        BY <3>4 DEF on_timer, Walk, walk_next, walk_end, on_disconnect, vars
      <3> QED
        BY <3>1, <3>2, <3>3, <3>4 DEF Next
    <2> QED
      BY <2>1, <2>2
  <1>3. chunk' \in Nat
    <2>1. CASE OnRead
      <3>1. Reads
        BY <2>1 DEF OnRead, on_read_ignored, on_read_message, on_read_subscribe
      <3>2. chunk' \in 0..(Len(wire) - 1) \/ (chunk > 0 /\ chunk' = chunk - 1)
        BY <3>1 DEF Reads
      <3>3. Len(wire) \in Nat
        BY DEF Typed
      <3> QED
        BY <3>2, <3>3 DEF Reading
    <2>2. CASE ~OnRead
      <3>1. chunk' = chunk
        <4>1. CASE Application
          BY <4>1 DEF Application, lua_client_subscribe, unsubscribe, lua_client_disconnect,
                      lua_client_connect
        <4>2. CASE ServerServes \/ \E v \in Variants, name \in Names : ServerPublishes(v, name)
          BY <4>2 DEF ServerServes, ServerPublishes
        <4>3. CASE (\E t \in running : on_timer(t)) \/ Walk \/ on_disconnect \/ UNCHANGED vars
          BY <4>3 DEF on_timer, Walk, walk_next, walk_end, on_disconnect, vars
        <4> QED
          BY <2>2, <4>1, <4>2, <4>3 DEF Next
      <3> QED
        BY <3>1 DEF Reading
    <2> QED
      BY <2>1, <2>2
  <1> QED
    BY <1>1, <1>2, <1>3 DEF Reading

\* The trees, the lists of their nodes, the timers and the callbacks have
\* their types, and a running uv_timer_t belongs to a timer of a callback,
\* whatever subscribe(), the replies, the ticks and the end of a session do.
THEOREM SubscriptionsTypeCorrect == Spec => []TypeOK
  <1>1. Typed /\ Reading => TypeOK
    BY TypedImpliesTypeOK
  <1>2. Init => Reading
    BY DEF Init, Reading
  <1> QED
    BY <1>1, <1>2, TypedInit, TypedNext, ReadingNext, PTL DEF Spec

-----------------------------------------------------------------------------
(* What the loop over the names does to the lists.                         *)

ListAt(lists, q) == IF q \in DOMAIN lists THEN lists[q] ELSE <<>>

\* The list is continued by s, any number of times.
Continued(old, new, s) ==
    /\ Len(old) <= Len(new)
    /\ \A i \in 1..Len(old) : new[i] = old[i]
    /\ \A i \in 1..Len(new) : i > Len(old) => new[i] = s

LEMMA RangeOfAppend ==
    ASSUME NEW S, NEW w \in Seq(S), NEW e
    PROVE  Range(Append(w, e)) = Range(w) \cup {e}
  <1> DEFINE u == Append(w, e)
  <1>1. Len(w) \in Nat /\ DOMAIN w = 1..Len(w) /\ DOMAIN u = 1..(Len(w) + 1)
        /\ u[Len(w) + 1] = e /\ \A i \in 1..Len(w) : u[i] = w[i]
    OBVIOUS
  <1>2. Len(w) + 1 \in DOMAIN u /\ \A i \in DOMAIN w : i \in DOMAIN u
    BY <1>1
  <1>3. \A i \in DOMAIN u : i \in DOMAIN w \/ i = Len(w) + 1
    BY <1>1
  <1> HIDE DEF u
  <1> QED
    BY <1>1, <1>2, <1>3 DEF Range, u

LEMMA ListAtType ==
    ASSUME NEW m \in Nat, NEW a \in Files(m), NEW q
    PROVE  ListAt(a.lists, q) \in Seq(1..m)
  <1>1. a.lists \in [DOMAIN a.tree -> Seq(1..m) \ {<<>>}]
    <2>1. a = [tree |-> a.tree, lists |-> a.lists]
      BY DEF Files
    <2> QED
      BY <2>1, FilesAre
  <1>2. <<>> \in Seq(1..m)
    OBVIOUS
  <1> QED
    BY <1>1, <1>2 DEF ListAt

LEMMA FileUnderIs ==
    ASSUME NEW m \in Nat, NEW a \in Files(m), NEW key \in Names, NEW s \in 1..m
    PROVE  LET b == FileUnder(a, key, s) IN
           /\ b.tree = insert(a.tree, key) /\ DOMAIN b.lists = DOMAIN b.tree
           /\ IsTree(a.tree) /\ DOMAIN a.lists = DOMAIN a.tree
           /\ NodeOf(b.tree, key, InsertLeaf(a.tree, key))
           /\ DOMAIN b.tree = DOMAIN a.tree \cup {InsertLeaf(a.tree, key)}
           /\ \A q \in DOMAIN a.tree : b.tree[q] = a.tree[q]
           /\ InsertLeaf(a.tree, key) \notin DOMAIN a.tree =>
                b.tree[InsertLeaf(a.tree, key)] = key
           /\ \A q \in DOMAIN b.lists :
                b.lists[q] = IF q = InsertLeaf(a.tree, key) THEN Append(ListAt(a.lists, q), s)
                                                            ELSE ListAt(a.lists, q)
  <1>1. IsTree(a.tree) /\ DOMAIN a.lists = DOMAIN a.tree
    BY DEF Files
  <1>2. key \in Seq(Nat)
    BY NamesType
  <1>3. FileUnder(a, key, s) =
          [tree |-> insert(a.tree, key),
           lists |-> [q \in DOMAIN insert(a.tree, key) |->
                        IF q = InsertLeaf(a.tree, key) THEN Append(ListAt(a.lists, q), s)
                                                       ELSE ListAt(a.lists, q)]]
    BY DEF FileUnder, ListAt
  <1>4. LET t == insert(a.tree, key)
            leaf == InsertLeaf(a.tree, key) IN
        /\ NodeOf(t, key, leaf)
        /\ DOMAIN t = DOMAIN a.tree \cup {leaf}
        /\ \A q \in DOMAIN a.tree : t[q] = a.tree[q]
        /\ leaf \notin DOMAIN a.tree => t[leaf] = key
    BY <1>1, <1>2, InsertGivesNode
  <1> DEFINE b == FileUnder(a, key, s)
             l == [q \in DOMAIN insert(a.tree, key) |->
                        IF q = InsertLeaf(a.tree, key) THEN Append(ListAt(a.lists, q), s)
                                                       ELSE ListAt(a.lists, q)]
  <1>5. b.tree = insert(a.tree, key) /\ b.lists = l
    BY <1>3
  <1>6. DOMAIN l = DOMAIN insert(a.tree, key)
        /\ \A q \in DOMAIN l : l[q] = IF q = InsertLeaf(a.tree, key)
                                        THEN Append(ListAt(a.lists, q), s)
                                        ELSE ListAt(a.lists, q)
    OBVIOUS
  <1> HIDE DEF l, b
  <1> QED
    BY <1>1, <1>4, <1>5, <1>6 DEF b

\* The lists are continued by the new callback, which is in the list of every
\* name that was filed; the keys of the nodes stay.
LEMMA FiledLists ==
    ASSUME NEW m \in Nat, NEW s \in 1..m, NEW variant, NEW names \in NameLists,
           [tree |-> trees[variant], lists |-> cb_lists[variant]] \in Files(m)
    PROVE  LET filed == Filed(variant, names, s) IN
           /\ \A q \in DOMAIN filed.lists :
                Continued(ListAt(cb_lists[variant], q), filed.lists[q], s)
           /\ DOMAIN trees[variant] \subseteq DOMAIN filed.tree
           /\ \A q \in DOMAIN trees[variant] : filed.tree[q] = trees[variant][q]
           /\ \A i \in 1..Len(names) : \E q : NodeOf(filed.tree, names[i], q)
                                              /\ s \in Range(filed.lists[q])
  <1> DEFINE L == Len(names)
  <1>1. L \in Nat
    BY DEF NameLists
  <1>2. PICK f \in [0..L -> Files(m)] :
             /\ f[0] = [tree |-> trees[variant], lists |-> cb_lists[variant]]
             /\ \A n \in 1..L : f[n] = FileUnder(f[n - 1], names[n], s)
             /\ f[L] = Filed(variant, names, s)
    BY FiledTurns, SMTT(30)
  <1>3. \A i \in 1..L : names[i] \in Names
    BY DEF NameLists
  <1> HIDE DEF L
  <1> DEFINE Lists(n) == \A q \in DOMAIN f[n].lists :
                           Continued(ListAt(f[0].lists, q), f[n].lists[q], s)
             Keys(n) == /\ DOMAIN f[0].tree \subseteq DOMAIN f[n].tree
                        /\ \A q \in DOMAIN f[0].tree : f[n].tree[q] = f[0].tree[q]
             In(n) == \A i \in 1..n : \E q : NodeOf(f[n].tree, names[i], q)
                                             /\ s \in Range(f[n].lists[q])
             Good == {n \in Nat : n <= L => Lists(n) /\ Keys(n) /\ In(n)}
  <1>4. 0 \in Good
    <2>1. Lists(0)
      <3>1. 0 \in 0..L
        BY <1>1
      <3>2. ASSUME NEW q \in DOMAIN f[0].lists PROVE Continued(ListAt(f[0].lists, q), f[0].lists[q], s)
        <4>1. ListAt(f[0].lists, q) = f[0].lists[q] /\ ListAt(f[0].lists, q) \in Seq(1..m)
          BY <3>1, <3>2, <1>2, ListAtType DEF ListAt
        <4> QED
          BY <4>1 DEF Continued
      <3> QED
        BY <3>2
    <2>2. Keys(0) /\ In(0)
      OBVIOUS
    <2> HIDE DEF Lists, Keys, In
    <2> QED
      BY <2>1, <2>2
  <1>5. ASSUME NEW n \in Nat, n \in Good, n + 1 <= L PROVE n + 1 \in Good
    <2>1. n + 1 \in 1..L /\ (n + 1) - 1 = n /\ n \in 0..L /\ n <= L
      BY <1>1, <1>5
    <2>2. Lists(n) /\ Keys(n) /\ In(n)
      BY <2>1, <1>5
    <2> DEFINE a == f[n]
               b == f[n + 1]
               key == names[n + 1]
               leaf == InsertLeaf(a.tree, key)
    <2>3. key \in Names /\ key \in Seq(Nat) /\ a \in Files(m) /\ 0 \in 0..L /\ f[0] \in Files(m)
      BY <2>1, <1>1, <1>2, <1>3, NamesType
    <2>4. b = FileUnder(a, key, s)
      BY <1>2, <2>1
    <2> HIDE DEF key
    <2>5. /\ b.tree = insert(a.tree, key) /\ DOMAIN b.lists = DOMAIN b.tree
          /\ IsTree(a.tree) /\ DOMAIN a.lists = DOMAIN a.tree
          /\ NodeOf(b.tree, key, leaf)
          /\ DOMAIN b.tree = DOMAIN a.tree \cup {leaf}
          /\ \A q \in DOMAIN a.tree : b.tree[q] = a.tree[q]
          /\ \A q \in DOMAIN b.lists :
               b.lists[q] = IF q = leaf THEN Append(ListAt(a.lists, q), s) ELSE ListAt(a.lists, q)
      BY <2>3, <2>4, FileUnderIs
    <2>6. \A q : ListAt(a.lists, q) \in Seq(1..m) /\ ListAt(f[0].lists, q) \in Seq(1..m)
      BY <2>3, ListAtType
    <2>7. Keys(n + 1)
      BY <2>2, <2>5
    <2> HIDE DEF a, b, leaf
    <2>8. \A q : Continued(ListAt(f[0].lists, q), ListAt(a.lists, q), s)
      <3> SUFFICES ASSUME NEW q PROVE Continued(ListAt(f[0].lists, q), ListAt(a.lists, q), s)
        OBVIOUS
      <3>1. CASE q \in DOMAIN a.lists
        BY <2>2, <3>1 DEF ListAt, a
      <3>2. CASE q \notin DOMAIN a.lists
        <4>1. q \notin DOMAIN f[0].tree
          BY <2>2, <2>5, <3>2 DEF a
        <4>2. DOMAIN f[0].lists = DOMAIN f[0].tree
          BY <2>3 DEF Files
        <4>3. ListAt(f[0].lists, q) = <<>> /\ ListAt(a.lists, q) = <<>>
          BY <4>1, <4>2, <3>2 DEF ListAt
        <4> QED
          BY <4>3 DEF Continued
      <3> QED
        BY <3>1, <3>2
    <2>9. ASSUME NEW q \in DOMAIN b.lists
          PROVE  /\ Continued(ListAt(f[0].lists, q), b.lists[q], s)
                 /\ q = leaf => s \in Range(b.lists[q])
                 /\ s \in Range(ListAt(a.lists, q)) => s \in Range(b.lists[q])
      <3> DEFINE u == ListAt(f[0].lists, q)
                 w == ListAt(a.lists, q)
      <3>1. u \in Seq(1..m) /\ w \in Seq(1..m) /\ Continued(u, w, s)
        BY <2>6, <2>8
      <3>2. b.lists[q] = IF q = leaf THEN Append(w, s) ELSE w
        BY <2>5, <2>9
      <3> HIDE DEF u, w
      <3>3. /\ Append(w, s) \in Seq(1..m) /\ Len(Append(w, s)) = Len(w) + 1
            /\ Append(w, s)[Len(w) + 1] = s /\ \A i \in 1..Len(w) : Append(w, s)[i] = w[i]
            /\ Len(u) \in Nat /\ Len(w) \in Nat
        <4> HIDE DEF Continued
        <4> QED
          BY <3>1, AppendProperties
      <3>4. Continued(u, Append(w, s), s)
        BY <3>1, <3>3 DEF Continued
      <3>5. s \in Range(Append(w, s)) /\ (s \in Range(w) => s \in Range(Append(w, s)))
        BY <3>1, RangeOfAppend
      <3> QED
        BY <3>1, <3>2, <3>4, <3>5 DEF u, w
    <2>10. Lists(n + 1)
      BY <2>9 DEF b
    <2>11. In(n + 1)
      <3> SUFFICES ASSUME NEW i \in 1..(n + 1)
                   PROVE  \E q : NodeOf(b.tree, names[i], q) /\ s \in Range(b.lists[q])
        BY DEF b
      <3>1. CASE i = n + 1
        <4>1. leaf \in DOMAIN b.lists
          BY <2>5
        <4> QED
          BY <2>5, <2>9, <3>1, <4>1 DEF key
      <3>2. CASE i \in 1..n
        <4>1. PICK q : NodeOf(a.tree, names[i], q) /\ s \in Range(a.lists[q])
          BY <2>2, <3>2 DEF a
        <4>2. NodeOf(b.tree, names[i], q)
          BY <4>1, <2>3, <2>5, NodesStay
        <4>3. q \in DOMAIN a.lists /\ q \in DOMAIN b.lists
          BY <4>1, <2>5 DEF NodeOf
        <4>4. s \in Range(b.lists[q])
          BY <4>1, <4>3, <2>9 DEF ListAt
        <4> QED
          BY <4>2, <4>4
      <3> QED
        BY <3>1, <3>2
    <2> HIDE DEF Lists, Keys, In
    <2> QED
      BY <2>7, <2>10, <2>11
  <1>6. Nat \subseteq Good
    <2>1. ASSUME NEW n \in Nat, n \in Good PROVE n + 1 \in Good
      <3>1. CASE n + 1 <= L
        BY <2>1, <3>1, <1>5
      <3>2. CASE ~(n + 1 <= L)
        BY <3>2
      <3> QED
        BY <3>1, <3>2
    <2> HIDE DEF Good
    <2> QED
      BY <1>4, <2>1, SetInduction
  <1>7. Lists(L) /\ Keys(L) /\ In(L)
    <2>1. L \in Good /\ L <= L
      BY <1>1, <1>6
    <2> HIDE DEF Lists, Keys, In
    <2> QED
      BY <2>1
  <1>8. f[0].tree = trees[variant] /\ f[0].lists = cb_lists[variant]
    BY <1>2
  <1> HIDE DEF Good
  <1> QED
    BY <1>2, <1>7, <1>8 DEF L

LEMMA RangeOfTail ==
    ASSUME NEW S, NEW w \in Seq(S), w # <<>>
    PROVE  /\ Range(Tail(w)) \subseteq Range(w) /\ Head(w) \in Range(w)
           /\ Range(w) \subseteq S
  <1>1. /\ Len(w) \in Nat /\ Len(w) >= 1 /\ DOMAIN w = 1..Len(w)
        /\ DOMAIN Tail(w) = 1..(Len(w) - 1) /\ Head(w) = w[1]
        /\ \A i \in 1..(Len(w) - 1) : Tail(w)[i] = w[i + 1] /\ i + 1 \in 1..Len(w)
        /\ \A i \in 1..Len(w) : w[i] \in S
    OBVIOUS
  <1> DEFINE u == Tail(w)
  <1> HIDE DEF u
  <1>2. DOMAIN u = 1..(Len(w) - 1)
        /\ \A i \in 1..(Len(w) - 1) : u[i] = w[i + 1] /\ i + 1 \in 1..Len(w)
    BY <1>1 DEF u
  <1>3. Range(u) \subseteq Range(w)
    <2>1. ASSUME NEW e \in Range(u) PROVE e \in Range(w)
      <3>1. PICK i \in 1..(Len(w) - 1) : u[i] = e
        BY <1>2, <2>1 DEF Range
      <3>2. i + 1 \in DOMAIN w /\ w[i + 1] = e
        BY <1>1, <1>2, <3>1
      <3> QED
        BY <3>2 DEF Range
    <2> QED
      BY <2>1
  <1>4. 1 \in DOMAIN w
    BY <1>1
  <1> QED
    BY <1>1, <1>3, <1>4 DEF Range, u

LEMMA RangeOfConcat ==
    ASSUME NEW S, NEW w \in Seq(S), NEW u \in Seq(S)
    PROVE  Range(w \o u) = Range(w) \cup Range(u)
  <1> DEFINE x == w \o u
  <1>1. /\ Len(w) \in Nat /\ Len(u) \in Nat
        /\ DOMAIN w = 1..Len(w) /\ DOMAIN u = 1..Len(u)
        /\ DOMAIN x = 1..(Len(w) + Len(u))
        /\ \A i \in 1..Len(w) : x[i] = w[i]
        /\ \A i \in 1..Len(u) : x[Len(w) + i] = u[i]
    BY ConcatProperties
  <1> HIDE DEF x
  <1>2. ASSUME NEW e \in Range(x) PROVE e \in Range(w) \cup Range(u)
    <2>1. PICK i \in 1..(Len(w) + Len(u)) : x[i] = e
      BY <1>1, <1>2 DEF Range
    <2>2. CASE i <= Len(w)
      <3>1. i \in DOMAIN w /\ w[i] = e
        BY <1>1, <2>1, <2>2
      <3> QED
        BY <3>1 DEF Range
    <2>3. CASE i > Len(w)
      <3>1. i - Len(w) \in 1..Len(u) /\ Len(w) + (i - Len(w)) = i
        BY <1>1, <2>1, <2>3
      <3>2. i - Len(w) \in DOMAIN u /\ u[i - Len(w)] = e
        BY <1>1, <2>1, <3>1
      <3> QED
        BY <3>2 DEF Range
    <2> QED
      BY <1>1, <2>1, <2>2, <2>3
  <1>3. ASSUME NEW e \in Range(w) PROVE e \in Range(x)
    <2>1. PICK i \in 1..Len(w) : w[i] = e
      BY <1>1, <1>3 DEF Range
    <2>2. i \in DOMAIN x /\ x[i] = e
      BY <1>1, <2>1
    <2> QED
      BY <2>2 DEF Range
  <1>4. ASSUME NEW e \in Range(u) PROVE e \in Range(x)
    <2>1. PICK i \in 1..Len(u) : u[i] = e
      BY <1>1, <1>4 DEF Range
    <2>2. Len(w) + i \in DOMAIN x /\ x[Len(w) + i] = e
      BY <1>1, <2>1
    <2> QED
      BY <2>2 DEF Range
  <1> QED
    BY <1>2, <1>3, <1>4 DEF x

-----------------------------------------------------------------------------
(* No assertion fails (1): every name that the server may confirm or push  *)
(* has its node.                                                           *)

HasNode(v, name) == \E p : NodeOf(trees[v], name, p)

\* The names of the subscribe requests, of the replies, and of what the
\* server knows as subscribed.
NamesFiled ==
    /\ \A r \in Range(requests) : r.kind = "subscribe" =>
         \A i \in DOMAIN r.names : HasNode(r.variant, r.names[i])
    /\ \A r \in Range(wire) : r.kind \in {"subscribe", "message"} => HasNode(r.variant, r.name)
    /\ \A n \in served : HasNode(n[1], n[2])

\* What stays when trees only get nodes.
LEMMA NamesStayFiled ==
    ASSUME NamesFiled,
           \A v, name : HasNode(v, name) => HasNode(v, name)',
           \A r \in Range(requests') : r \in Range(requests)
             \/ (r.kind = "subscribe" => \A i \in DOMAIN r.names : HasNode(r.variant, r.names[i])'),
           \A r \in Range(wire') : r \in Range(wire)
             \/ (r.kind \in {"subscribe", "message"} => HasNode(r.variant, r.name)'),
           \A n \in served' : n \in served \/ HasNode(n[1], n[2])'
    PROVE  NamesFiled'
  <1> HIDE DEF HasNode
  <1> QED
    BY DEF NamesFiled

LEMMA TreesStay ==
    ASSUME trees' = trees
    PROVE  \A v, name : HasNode(v, name) => HasNode(v, name)'
  BY DEF HasNode

LEMMA SubscribeFiles ==
    ASSUME Typed, NEW v \in Variants, NEW req \in Requests, lua_client_subscribe(v, req)
    PROVE  LET s == nsubs + 1
               names == NamesOf(req)
               filed == Filed(v, names, s) IN
           /\ names \in NameLists /\ s \in 1..s
           /\ DOMAIN trees = Variants /\ DOMAIN cb_lists = Variants
           /\ [tree |-> trees[v], lists |-> cb_lists[v]] \in Files(s)
           /\ filed \in Files(s)
           /\ trees' = [trees EXCEPT ![v] = filed.tree]
           /\ cb_lists' = [cb_lists EXCEPT ![v] = filed.lists]
  <1> DEFINE s == nsubs + 1
             names == NamesOf(req)
  <1>1. nsubs \in Nat /\ s \in 1..s
    BY SubscribeIs
  <1>2. names \in NameLists
    BY RequestTypes DEF NameLists
  <1>3. /\ DOMAIN trees = Variants /\ DOMAIN cb_lists = Variants
        /\ [tree |-> trees[v], lists |-> cb_lists[v]] \in Files(nsubs)
    BY DEF Typed
  <1>4. [tree |-> trees[v], lists |-> cb_lists[v]] \in Files(s)
    BY <1>1, <1>3, FilesGrow
  <1>5. Filed(v, names, s) \in Files(s)
    <2> HIDE DEF names
    <2> QED
      BY <1>1, <1>2, <1>4, FiledType
  <1>6. /\ trees' = [trees EXCEPT ![v] = Filed(v, names, s).tree]
        /\ cb_lists' = [cb_lists EXCEPT ![v] = Filed(v, names, s).lists]
    BY DEF lua_client_subscribe
  <1> QED
    BY <1>1, <1>2, <1>3, <1>4, <1>5, <1>6

LEMMA NamesFiledSubscribe ==
    ASSUME Typed, NamesFiled, NEW v \in Variants, NEW req \in Requests,
           lua_client_subscribe(v, req)
    PROVE  NamesFiled'
  <1> DEFINE s == nsubs + 1
             names == NamesOf(req)
             filed == Filed(v, names, s)
             r == [kind |-> "subscribe", variant |-> v, names |-> names]
  <1>1. /\ names \in NameLists /\ s \in 1..s
        /\ DOMAIN trees = Variants
        /\ [tree |-> trees[v], lists |-> cb_lists[v]] \in Files(s)
        /\ trees' = [trees EXCEPT ![v] = filed.tree]
    BY SubscribeFiles
  <1>2. nsubs \in Nat /\ s \in Nat
    BY SubscribeIs
  <1>3. requests \in Seq(RequestType) /\ requests' = Append(requests, r)
        /\ wire' = wire /\ served' = served
    BY DEF lua_client_subscribe, Typed
  <1> HIDE DEF s, names
  <1>4. /\ \A key, p : NodeOf(trees[v], key, p) => NodeOf(filed.tree, key, p)
        /\ \A i \in 1..Len(names) : \E p : NodeOf(filed.tree, names[i], p)
    BY <1>1, <1>2, FiledNodes
  <1> HIDE DEF filed
  <1>5. trees'[v] = filed.tree /\ \A w : w # v => trees'[w] = trees[w]
    BY <1>1
  <1>6. \A w, name : HasNode(w, name) => HasNode(w, name)'
    <2> SUFFICES ASSUME NEW w, NEW name, HasNode(w, name) PROVE HasNode(w, name)'
      OBVIOUS
    <2>1. CASE w = v
      BY <1>4, <1>5, <2>1 DEF HasNode
    <2>2. CASE w # v
      BY <1>5, <2>2 DEF HasNode
    <2> QED
      BY <2>1, <2>2
  <1>7. \A i \in DOMAIN r.names : HasNode(r.variant, r.names[i])'
    <2>1. DOMAIN names = 1..Len(names)
      BY <1>1 DEF NameLists
    <2> QED
      BY <1>4, <1>5, <2>1 DEF HasNode
  <1>8. Range(requests') = Range(requests) \cup {r}
    <2> HIDE DEF r
    <2> QED
      BY <1>3, RangeOfAppend
  <1> HIDE DEF r
  <1> QED
    BY <1>3, <1>6, <1>7, <1>8, NamesStayFiled

LEMMA NamesFiledNext == Typed /\ NamesFiled /\ [Next]_vars => NamesFiled'
  <1> SUFFICES ASSUME Typed, NamesFiled, [Next]_vars PROVE NamesFiled'
    OBVIOUS
  <1>0. requests \in Seq(RequestType) /\ wire \in Seq(ReplyType)
    BY DEF Typed
  <1>1. ASSUME NEW v \in Variants, NEW req \in Requests, lua_client_subscribe(v, req)
        PROVE  NamesFiled'
    BY <1>1, NamesFiledSubscribe
  <1>2. ASSUME NEW v \in Variants, NEW name \in Names, unsubscribe(v, name) PROVE NamesFiled'
    <2> DEFINE r == [kind |-> "unsubscribe", variant |-> v, names |-> <<name>>]
    <2>1. requests' = Append(requests, r) /\ UNCHANGED <<trees, wire, served>>
      BY <1>2 DEF unsubscribe
    <2>2. r.kind # "subscribe"
      OBVIOUS
    <2> HIDE DEF r
    <2>3. Range(requests') = Range(requests) \cup {r}
      BY <1>0, <2>1, RangeOfAppend
    <2> QED
      BY <2>1, <2>2, <2>3, TreesStay, NamesStayFiled
  <1>3. CASE ServerServes
    <2>0. PICK r : r = Head(requests)
      OBVIOUS
    <2>1. /\ requests # <<>> /\ r \in RequestType /\ requests' = Tail(requests)
          /\ wire' = wire \o Answers(r)
          /\ served' \subseteq served \cup
               (IF r.kind = "subscribe"
                  THEN {<<r.variant, r.names[i]>> : i \in DOMAIN r.names} ELSE {})
      BY <1>3, <2>0, ServesIs
    <2>2. trees' = trees
      BY <1>3 DEF ServerServes
    <2>3. Range(requests') \subseteq Range(requests) /\ r \in Range(requests)
      BY <1>0, <2>0, <2>1, RangeOfTail
    <2>4. r.kind = "subscribe" => \A i \in DOMAIN r.names : HasNode(r.variant, r.names[i])'
      BY <2>2, <2>3 DEF NamesFiled, HasNode
    <2>5. \A n \in served' : n \in served \/ HasNode(n[1], n[2])'
      BY <2>1, <2>4
    <2>6. Answers(r) \in Seq(ReplyType)
      BY <2>1, AnswersAre
    <2>7. Range(wire') = Range(wire) \cup Range(Answers(r))
      BY <1>0, <2>1, <2>6, RangeOfConcat
    <2>8. \A a \in Range(Answers(r)) :
             a.kind \in {"subscribe", "message"} => HasNode(a.variant, a.name)'
      <3>1. CASE r.names = <<>>
        <4>1. Answers(r) = <<[kind |-> "error", variant |-> r.variant, name |-> <<>>]>>
          BY <3>1 DEF Answers
        <4>2. \A a \in Range(Answers(r)) : a.kind = "error"
          BY <4>1 DEF Range
        <4> QED
          BY <4>2
      <3>2. CASE r.names # <<>>
        <4>1. Answers(r) = [i \in DOMAIN r.names |->
                              [kind |-> r.kind, variant |-> r.variant, name |-> r.names[i]]]
          BY <3>2 DEF Answers
        <4>2. ASSUME NEW a \in Range(Answers(r)), a.kind \in {"subscribe", "message"}
              PROVE  HasNode(a.variant, a.name)'
          <5>1. PICK i \in DOMAIN r.names :
                   a = [kind |-> r.kind, variant |-> r.variant, name |-> r.names[i]]
            BY <4>1, <4>2 DEF Range
          <5>2. r.kind = "subscribe"
            BY <5>1, <4>2, <2>1 DEF RequestType
          <5> HIDE DEF HasNode
          <5> QED
            BY <5>1, <5>2, <2>4
        <4> QED
          BY <4>2
      <3> QED
        BY <3>1, <3>2
    <2> QED
      BY <2>2, <2>3, <2>5, <2>7, <2>8, TreesStay, NamesStayFiled
  <1>4. ASSUME NEW v \in Variants, NEW name \in Names, ServerPublishes(v, name) PROVE NamesFiled'
    <2> DEFINE r == [kind |-> "message", variant |-> v, name |-> name]
    <2>1. /\ wire' = Append(wire, r) /\ UNCHANGED <<trees, requests, served>>
          /\ <<v, name>> \in served
      BY <1>4 DEF ServerPublishes
    <2>2. HasNode(v, name)
      BY <2>1 DEF NamesFiled
    <2>3. HasNode(r.variant, r.name)'
      BY <2>1, <2>2 DEF HasNode
    <2>4. r \in ReplyType
      BY DEF ReplyType
    <2> HIDE DEF r
    <2>5. Range(wire') = Range(wire) \cup {r}
      BY <1>0, <2>1, RangeOfAppend
    <2> QED
      BY <2>1, <2>3, <2>5, TreesStay, NamesStayFiled
  <1>5. CASE OnRead
    <2>1. /\ wire # <<>> /\ wire' = Tail(wire) /\ UNCHANGED <<trees, requests, served>>
      BY <1>5 DEF OnRead, on_read_subscribe, on_read_ignored, on_read_message, Reads
    <2>2. Range(wire') \subseteq Range(wire)
      BY <1>0, <2>1, RangeOfTail
    <2> QED
      BY <2>1, <2>2, TreesStay, NamesStayFiled
  <1>6. CASE on_disconnect
    <2>1. requests' = <<>> /\ wire' = <<>> /\ served' = {}
      BY <1>6 DEF on_disconnect
    <2> QED
      BY <2>1 DEF NamesFiled, Range
  <1>7. CASE \/ lua_client_disconnect \/ lua_client_connect \/ Walk \/ UNCHANGED vars
             \/ \E t \in running : on_timer(t)
    <2>1. UNCHANGED <<trees, requests, wire, served>>
      BY <1>7 DEF lua_client_disconnect, lua_client_connect, Walk, walk_next, walk_end, vars, on_timer
    <2> QED
      BY <2>1, TreesStay, NamesStayFiled
  <1> QED
    BY <1>1, <1>2, <1>3, <1>4, <1>5, <1>6, <1>7 DEF Next, Application

-----------------------------------------------------------------------------
(* No assertion fails (2): the node of an interval is there as long as a   *)
(* timer of it runs.                                                       *)

\* Every interval is asked for once in a session.  insert_timer drops the
\* later ones.
OwnIntervals ==
    /\ SharesTimers = FALSE
    /\ \A req \in Requests : IsInjective(TimersOf(req))

Current(s) == cbs[s].session = session
IsTimer(t) == cbs[t[1]].channels[t[2]].timer
IsMarked(t) == cbs[t[1]].channels[t[2]].sub

\* The lists of the names hold callbacks of this session and variant; after
\* the session there are none.
ListsCurrent ==
    \A v \in Variants : \A p \in DOMAIN cb_lists[v] : \A s \in Range(cb_lists[v][p]) :
        phase # "closed" /\ Current(s) /\ cbs[s].variant = v

\* Every timer of this session has an interval of its own in cc->timers.
IntervalsOwned ==
    /\ \A s \in DOMAIN cbs : cbs[s].session <= session
    /\ phase # "closed" => \A t \in Channels : Current(t[1]) /\ IsTimer(t) =>
         Interval(t) \in DOMAIN timers /\ timers[Interval(t)].list = <<t[1]>>
    /\ \A t, u \in Channels :
         t[1] = u[1] /\ IsTimer(t) /\ IsTimer(u) /\ Interval(t) = Interval(u) => t = u

\* A timer that runs is one of this session, is marked, and is known to its node.
RunningOwned ==
    \A t \in running :
        /\ phase # "closed" /\ Current(t[1]) /\ IsTimer(t) /\ IsMarked(t)
        /\ Interval(t) \in DOMAIN timers /\ timers[Interval(t)].handle = t

\* What a step other than subscribe() does to the phase and the session.
LEMMA PhasesAre ==
    ASSUME Typed, [Next]_vars,
           ~ \E v \in Variants, req \in Requests : lua_client_subscribe(v, req)
    PROVE  \/ phase' = phase /\ session' = session /\ acks' = acks
           \/ phase' = phase /\ session' = session /\ on_read_subscribe
           \/ phase = "connected" /\ phase' = "closing" /\ session' = session /\ lua_client_disconnect
           \/ phase = "closing" /\ phase' = "closed" /\ session' = session /\ on_disconnect
           \/ phase = "closed" /\ phase' = "connected" /\ session' = session + 1 /\ lua_client_connect
  <1>1. CASE Application
    BY <1>1 DEF Application, unsubscribe, lua_client_disconnect, lua_client_connect
  <1>2. CASE ServerServes \/ \E v \in Variants, name \in Names : ServerPublishes(v, name)
    BY <1>2 DEF ServerServes, ServerPublishes
  <1>3. CASE OnRead
    BY <1>3 DEF OnRead, on_read_ignored, on_read_message, on_read_subscribe
  <1>4. CASE \E t \in running : on_timer(t)
    BY <1>4 DEF on_timer
  <1>5. CASE Walk \/ UNCHANGED vars
    BY <1>5 DEF Walk, walk_next, walk_end, vars
  <1>6. CASE on_disconnect
    BY <1>6 DEF on_disconnect
  <1> QED
    BY <1>1, <1>2, <1>3, <1>4, <1>5, <1>6 DEF Next

\* The elements of the lists are callbacks.
LEMMA ListElements ==
    ASSUME Typed, NEW v \in Variants, NEW p \in DOMAIN cb_lists[v]
    PROVE  /\ cb_lists[v][p] \in Seq(1..nsubs) \ {<<>>}
           /\ Range(cb_lists[v][p]) \subseteq 1..nsubs
  <1>1. [tree |-> trees[v], lists |-> cb_lists[v]] \in Files(nsubs) /\ nsubs \in Nat
    BY SubscriptionsAssumption DEF Typed
  <1>2. cb_lists[v] \in [DOMAIN trees[v] -> Seq(1..nsubs) \ {<<>>}]
    BY <1>1, FilesAre
  <1>3. cb_lists[v][p] \in Seq(1..nsubs) \ {<<>>}
    BY <1>2
  <1> QED
    BY <1>3, RangeOfTail

LEMMA ListsCurrentSubscribe ==
    ASSUME Typed, ListsCurrent, NEW v \in Variants, NEW req \in Requests,
           lua_client_subscribe(v, req)
    PROVE  ListsCurrent'
  <1> DEFINE s == nsubs + 1
             names == NamesOf(req)
             filed == Filed(v, names, s)
  <1>1. /\ names \in NameLists /\ s \in 1..s
        /\ DOMAIN cb_lists = Variants
        /\ [tree |-> trees[v], lists |-> cb_lists[v]] \in Files(s)
        /\ filed \in Files(s)
        /\ cb_lists' = [cb_lists EXCEPT ![v] = filed.lists]
    BY SubscribeFiles
  <1>2. /\ nsubs \in Nat /\ s \in Nat
        /\ \A t \in 1..nsubs : cbs'[t] = cbs[t]
        /\ cbs'[s].variant = v /\ cbs'[s].session = session
    BY SubscribeIs
  <1>3. phase' = "connected" /\ session' = session /\ phase = "connected"
    BY DEF lua_client_subscribe
  <1> HIDE DEF s, names
  <1>4. \A q \in DOMAIN filed.lists : Continued(ListAt(cb_lists[v], q), filed.lists[q], s)
    BY <1>1, <1>2, FiledLists
  <1> HIDE DEF filed
  <1> SUFFICES ASSUME NEW w \in Variants, NEW p \in DOMAIN cb_lists'[w],
                      NEW t \in Range(cb_lists'[w][p])
               PROVE  cbs'[t].session = session /\ cbs'[t].variant = w
    BY <1>3 DEF ListsCurrent, Current
  <1>5. ASSUME p \in DOMAIN cb_lists[w], t \in Range(cb_lists[w][p])
        PROVE  cbs'[t].session = session /\ cbs'[t].variant = w
    <2>1. t \in 1..nsubs
      BY <1>5, ListElements
    <2> QED
      BY <1>2, <1>5, <2>1 DEF ListsCurrent, Current
  <1>6. CASE w # v
    BY <1>1, <1>5, <1>6
  <1>7. CASE w = v
    <2> DEFINE old == ListAt(cb_lists[v], p)
               new == filed.lists[p]
    <2>1. cb_lists'[w] = filed.lists /\ p \in DOMAIN filed.lists
      BY <1>1, <1>7
    <2>2. Continued(old, new, s)
      BY <1>4, <2>1
    <2>3. new \in Seq(1..s) /\ old \in Seq(1..s)
      <3>1. filed.lists[p] = ListAt(filed.lists, p)
        BY <2>1 DEF ListAt
      <3>2. ListAt(filed.lists, p) \in Seq(1..s)
        BY <1>1, <1>2, ListAtType
      <3>3. \A a \in Files(s) : ListAt(a.lists, p) \in Seq(1..s)
        BY <1>2, ListAtType
      <3>4. ListAt([tree |-> trees[v], lists |-> cb_lists[v]].lists, p) \in Seq(1..s)
        BY <3>3, <1>1
      <3> QED
        BY <3>1, <3>2, <3>4
    <2>4. PICK i \in 1..Len(new) : new[i] = t
      BY <2>1, <2>3 DEF Range
    <2>5. CASE i > Len(old)
      BY <1>2, <1>7, <2>2, <2>4, <2>5 DEF Continued
    <2>6. CASE i <= Len(old)
      <3>1. old[i] = t /\ i \in 1..Len(old) /\ i \in DOMAIN old
        BY <2>2, <2>3, <2>4, <2>6 DEF Continued
      <3>2. p \in DOMAIN cb_lists[v] /\ t \in Range(cb_lists[v][p])
        BY <3>1 DEF ListAt, Range
      <3> QED
        BY <1>5, <1>7, <3>2
    <2>7. Len(old) \in Nat
      BY <2>3
    <2> QED
      BY <2>4, <2>5, <2>6, <2>7
  <1> QED
    BY <1>6, <1>7

LEMMA ListsCurrentNext == Typed /\ ListsCurrent /\ [Next]_vars => ListsCurrent'
  <1> SUFFICES ASSUME Typed, ListsCurrent, [Next]_vars PROVE ListsCurrent'
    OBVIOUS
  <1>1. ASSUME NEW v \in Variants, NEW req \in Requests, lua_client_subscribe(v, req)
        PROVE  ListsCurrent'
    BY <1>1, ListsCurrentSubscribe
  <1>2. CASE on_disconnect
    <2>1. cb_lists' = [v \in Variants |-> NoTree]
      BY <1>2 DEF on_disconnect
    <2>2. \A v \in Variants : DOMAIN cb_lists'[v] = {}
      BY <2>1 DEF NoTree
    <2> QED
      BY <2>2 DEF ListsCurrent
  <1>3. CASE /\ ~ \E v \in Variants, req \in Requests : lua_client_subscribe(v, req)
             /\ ~ on_disconnect
    <2>1. /\ \A s \in 1..nsubs : SameShape(cbs[s], cbs'[s])
          /\ cb_lists' = cb_lists
      BY <1>3, ShapesKept
    <2>2. \/ phase # "closed" /\ phase' # "closed" /\ session' = session
          \/ phase = "closed"
      BY <1>3, PhasesAre
    <2> SUFFICES ASSUME NEW v \in Variants, NEW p \in DOMAIN cb_lists[v],
                        NEW s \in Range(cb_lists[v][p])
                 PROVE  phase' # "closed" /\ cbs'[s].session = session' /\ cbs'[s].variant = v
      BY <2>1 DEF ListsCurrent, Current
    <2>3. phase # "closed" /\ cbs[s].session = session /\ cbs[s].variant = v
      BY DEF ListsCurrent, Current
    <2>4. s \in 1..nsubs
      BY ListElements
    <2> QED
      BY <2>1, <2>2, <2>3, <2>4 DEF SameShape
  <1> QED
    BY <1>1, <1>2, <1>3

\* What subscribe() does to the timers.
LEMMA TimersSubscribe ==
    ASSUME Typed, OwnIntervals, NEW v \in Variants, NEW req \in Requests,
           lua_client_subscribe(v, req)
    PROVE  LET s == nsubs + 1 IN
           /\ running' = running /\ phase = "connected" /\ phase' = phase /\ session' = session
           /\ \A k \in DOMAIN timers : k \in DOMAIN timers' /\ timers'[k] = timers[k]
           /\ Channels \subseteq Channels'
           /\ \A t \in Channels : /\ t[1] \in 1..nsubs /\ cbs'[t[1]] = cbs[t[1]]
                                  /\ Interval(t)' = Interval(t)
           /\ \A t \in Channels' \ Channels : t[1] = s
           /\ \A t \in Channels' : t[1] = s /\ IsTimer(t)' =>
                /\ Interval(t)' \in DOMAIN timers' \ DOMAIN timers
                /\ timers'[Interval(t)'].list = <<s>>
           /\ \A t, u \in Channels' :
                t[1] = s /\ u[1] = s /\ IsTimer(t)' /\ IsTimer(u)' /\ Interval(t)' = Interval(u)'
                  => t = u
  <1> DEFINE s == nsubs + 1
             names == NamesOf(req)
             ks == TimersOf(req)
  <1>1. /\ nsubs \in Nat /\ s \in Nat
        /\ cbs' \in [1..s -> CallbackType]
        /\ \A t \in 1..nsubs : cbs'[t] = cbs[t]
        /\ DOMAIN cbs'[s].channels = 1..(Len(names) + Len(ks))
        /\ \A i \in 1..(Len(names) + Len(ks)) :
             cbs'[s].channels[i] =
               IF i <= Len(names)
                 THEN [timer |-> FALSE, name |-> names[i], ikey |-> 0, sub |-> FALSE]
                 ELSE [timer |-> TRUE, name |-> <<>>, ikey |-> ks[i - Len(names)], sub |-> FALSE]
    BY SubscribeIs
  <1>2. names \in Seq(Names) /\ ks \in Seq(Intervals) /\ IsInjective(ks)
    BY RequestTypes DEF OwnIntervals
  <1>3. /\ running' = running /\ phase = "connected" /\ phase' = phase /\ session' = session
        /\ timers' = FileTimers(ks, s) /\ Range(ks) \cap DOMAIN timers = {}
    BY DEF lua_client_subscribe, OwnIntervals
  <1>4. cbs \in [1..nsubs -> CallbackType]
    BY DEF Typed
  <1> HIDE DEF s, names, ks
  <1>5. s = nsubs + 1
    BY DEF s
  <1>6. /\ DOMAIN timers' = DOMAIN timers \cup Range(ks)
        /\ \A k \in DOMAIN timers : timers'[k] = timers[k]
        /\ \A k \in Range(ks) : timers'[k].list = <<s>>
    BY <1>3 DEF FileTimers
  <1>7. DOMAIN cbs \subseteq DOMAIN cbs' /\ \A t \in DOMAIN cbs : cbs'[t] = cbs[t]
    BY <1>1, <1>4, <1>5
  <1>8. Channels \subseteq Channels' /\ \A t \in Channels : Interval(t)' = Interval(t)
    BY <1>7, ChannelsGrow
  <1>9. \A t \in Channels : t[1] \in 1..nsubs /\ cbs'[t[1]] = cbs[t[1]]
    BY <1>1, <1>4, ChannelsAre
  <1>10. \A t : t \in Channels' <=>
           \E x \in DOMAIN cbs' : \E i \in DOMAIN cbs'[x].channels : t = <<x, i>>
    BY DEF Channels
  <1>11. \A t \in Channels' \ Channels : t[1] = s
    <2> SUFFICES ASSUME NEW t \in Channels', t \notin Channels PROVE t[1] = s
      OBVIOUS
    <2>1. PICK x \in DOMAIN cbs' : \E i \in DOMAIN cbs'[x].channels : t = <<x, i>>
      BY <1>10
    <2>2. x \in 1..s
      BY <1>1, <2>1
    <2>3. CASE x \in 1..nsubs
      BY <1>4, <1>7, <2>1, <2>3, ChannelsAre
    <2> QED
      BY <1>1, <1>5, <2>1, <2>2, <2>3
  <1>12. ASSUME NEW t \in Channels', t[1] = s, IsTimer(t)'
         PROVE  /\ t = <<s, t[2]>> /\ t[2] - Len(names) \in DOMAIN ks
                /\ t[2] \in Int /\ Interval(t)' = ks[t[2] - Len(names)]
    <2>1. PICK i \in DOMAIN cbs'[s].channels : t = <<s, i>>
      BY <1>10, <1>12
    <2>2. i \in 1..(Len(names) + Len(ks)) /\ Len(names) \in Nat /\ Len(ks) \in Nat
          /\ DOMAIN ks = 1..Len(ks)
      BY <1>1, <1>2, <2>1
    <2>3. cbs'[s].channels[i].timer
      BY <1>12, <2>1 DEF IsTimer
    <2>4. ~(i <= Len(names)) /\ cbs'[s].channels[i].ikey = ks[i - Len(names)]
      <3>1. CASE i <= Len(names)
        <4>1. cbs'[s].channels[i] = [timer |-> FALSE, name |-> names[i], ikey |-> 0, sub |-> FALSE]
          BY <1>1, <2>2, <3>1
        <4> QED
          BY <2>3, <4>1
      <3>2. CASE ~(i <= Len(names))
        <4>1. cbs'[s].channels[i] =
                [timer |-> TRUE, name |-> <<>>, ikey |-> ks[i - Len(names)], sub |-> FALSE]
          BY <1>1, <2>2, <3>2
        <4> QED
          BY <3>2, <4>1
      <3> QED
        BY <3>1, <3>2
    <2>5. i - Len(names) \in 1..Len(ks)
      BY <2>2, <2>4
    <2> QED
      BY <2>1, <2>2, <2>4, <2>5 DEF Interval
  <1>13. ASSUME NEW t \in Channels', t[1] = s, IsTimer(t)'
         PROVE  /\ Interval(t)' \in DOMAIN timers' \ DOMAIN timers
                /\ timers'[Interval(t)'].list = <<s>>
    <2>1. Interval(t)' \in Range(ks)
      BY <1>12, <1>13 DEF Range
    <2> QED
      BY <1>3, <1>6, <2>1
  <1>14. ASSUME NEW t \in Channels', NEW u \in Channels', t[1] = s, u[1] = s,
                IsTimer(t)', IsTimer(u)', Interval(t)' = Interval(u)'
         PROVE  t = u
    <2>1. /\ t = <<s, t[2]>> /\ t[2] - Len(names) \in DOMAIN ks
          /\ t[2] \in Int /\ Interval(t)' = ks[t[2] - Len(names)]
      BY <1>12, <1>14
    <2>2. /\ u = <<s, u[2]>> /\ u[2] - Len(names) \in DOMAIN ks
          /\ u[2] \in Int /\ Interval(u)' = ks[u[2] - Len(names)]
      BY <1>12, <1>14
    <2>3. t[2] - Len(names) = u[2] - Len(names)
      BY <1>2, <1>14, <2>1, <2>2 DEF IsInjective
    <2>4. Len(names) \in Nat
      BY <1>2
    <2>5. t[2] = u[2]
      BY <2>1, <2>2, <2>3, <2>4
    <2> QED
      BY <2>1, <2>2, <2>5
  <1> QED
    BY <1>3, <1>6, <1>8, <1>9, <1>11, <1>13, <1>14 DEF s

LEMMA OwnedSubscribe ==
    ASSUME Typed, OwnIntervals, IntervalsOwned, RunningOwned, NEW v \in Variants,
           NEW req \in Requests, lua_client_subscribe(v, req)
    PROVE  IntervalsOwned' /\ RunningOwned'
  <1> DEFINE s == nsubs + 1
  <1>1. /\ running' = running /\ phase = "connected" /\ phase' = phase /\ session' = session
        /\ \A k \in DOMAIN timers : k \in DOMAIN timers' /\ timers'[k] = timers[k]
        /\ Channels \subseteq Channels'
        /\ \A t \in Channels : /\ t[1] \in 1..nsubs /\ cbs'[t[1]] = cbs[t[1]]
                               /\ Interval(t)' = Interval(t)
        /\ \A t \in Channels' \ Channels : t[1] = s
        /\ \A t \in Channels' : t[1] = s /\ IsTimer(t)' =>
             /\ Interval(t)' \in DOMAIN timers' \ DOMAIN timers
             /\ timers'[Interval(t)'].list = <<s>>
        /\ \A t, u \in Channels' :
             t[1] = s /\ u[1] = s /\ IsTimer(t)' /\ IsTimer(u)' /\ Interval(t)' = Interval(u)'
               => t = u
    BY TimersSubscribe
  <1>2. /\ nsubs \in Nat /\ cbs' \in [1..s -> CallbackType] /\ cbs \in [1..nsubs -> CallbackType]
        /\ \A t \in 1..nsubs : cbs'[t] = cbs[t]
        /\ cbs'[s].session = session /\ session \in Nat
    BY SubscribeIs, SubscriptionsAssumption, SMTT(30) DEF Typed
  <1>3. s \notin 1..nsubs /\ \A x \in 1..s : x \in 1..nsubs \/ x = s
    BY <1>2
  <1> HIDE DEF s
  <1>4. \A x \in DOMAIN cbs' : cbs'[x].session <= session'
    BY <1>1, <1>2, <1>3 DEF IntervalsOwned
  <1>5. \A t \in Channels : /\ IsTimer(t)' = IsTimer(t) /\ IsMarked(t)' = IsMarked(t)
                            /\ Current(t[1])' = Current(t[1])
    BY <1>1 DEF IsTimer, IsMarked, Current
  <1>6. ASSUME NEW t \in Channels', Current(t[1])', IsTimer(t)'
        PROVE  Interval(t)' \in DOMAIN timers' /\ timers'[Interval(t)'].list = <<t[1]>>
    <2>1. CASE t \in Channels
      <3>1. Interval(t) \in DOMAIN timers /\ timers[Interval(t)].list = <<t[1]>>
        BY <1>1, <1>5, <1>6, <2>1 DEF IntervalsOwned
      <3> QED
        BY <1>1, <2>1, <3>1
    <2>2. CASE t \notin Channels
      BY <1>1, <1>6, <2>2
    <2> QED
      BY <2>1, <2>2
  <1>7. ASSUME NEW t \in Channels', NEW u \in Channels', t[1] = u[1], IsTimer(t)', IsTimer(u)',
               Interval(t)' = Interval(u)'
        PROVE  t = u
    <2>1. CASE t[1] = s
      BY <1>1, <1>7, <2>1
    <2>2. CASE t[1] # s
      <3>1. t \in Channels /\ u \in Channels
        BY <1>1, <1>7, <2>2
      <3> QED
        BY <1>1, <1>5, <1>7, <3>1 DEF IntervalsOwned
    <2> QED
      BY <2>1, <2>2
  <1>8. running \subseteq Channels
    BY DEF Typed
  <1>9. RunningOwned'
    <2> SUFFICES ASSUME NEW t \in running
                 PROVE  /\ phase' # "closed" /\ Current(t[1])' /\ IsTimer(t)' /\ IsMarked(t)'
                        /\ Interval(t)' \in DOMAIN timers' /\ timers'[Interval(t)'].handle = t
      BY <1>1 DEF RunningOwned
    <2>1. /\ t \in Channels /\ phase # "closed" /\ Current(t[1]) /\ IsTimer(t) /\ IsMarked(t)
          /\ Interval(t) \in DOMAIN timers /\ timers[Interval(t)].handle = t
      BY <1>8 DEF RunningOwned
    <2>2. Interval(t)' = Interval(t) /\ timers'[Interval(t)] = timers[Interval(t)]
          /\ Interval(t) \in DOMAIN timers'
      BY <1>1, <2>1
    <2> QED
      BY <1>1, <1>5, <2>1, <2>2
  <1> QED
    BY <1>4, <1>6, <1>7, <1>9 DEF IntervalsOwned

\* The callbacks that a confirmation walks over are in the list of its name.
LEMMA WalkedIsListed ==
    ASSUME NEW S, NEW list \in Seq(S), list # <<>>, NEW name
    PROVE  Range(UpToAwaiting(list, name)) \subseteq Range(list)
  <1> DEFINE w == UpToAwaiting(list, name)
  <1>1. w \in Seq(S) /\ Len(w) \in 1..Len(list) /\ \A i \in 1..Len(w) : w[i] = list[i]
    BY UpToAwaitingIs
  <1> HIDE DEF w
  <1> SUFFICES ASSUME NEW e \in Range(w) PROVE e \in Range(list)
    BY DEF w
  <1>2. PICK i \in 1..Len(w) : w[i] = e
    BY <1>1 DEF Range
  <1>3. i \in DOMAIN list /\ list[i] = e
    BY <1>1, <1>2
  <1> QED
    BY <1>3 DEF Range

\* The timers that a confirmation starts are of this session, and each is the
\* only one of its interval.
LEMMA StartedAreOwned ==
    ASSUME Typed, ListsCurrent, IntervalsOwned, phase # "closed", NEW v \in Variants,
           NEW p \in DOMAIN cb_lists[v], NEW w \in Seq(1..nsubs),
           Range(w) \subseteq Range(cb_lists[v][p])
    PROVE  /\ TimersStarted(w) \subseteq Channels
           /\ \A t \in TimersStarted(w) :
                /\ t[1] \in Touched(w) /\ Current(t[1]) /\ IsTimer(t) /\ ~IsMarked(t)
                /\ Interval(t) \in DOMAIN timers
           /\ \A t \in TimersStarted(w), u \in Channels :
                Current(u[1]) /\ IsTimer(u) /\ Interval(u) = Interval(t) => u = t
  <1>1. /\ TimersStarted(w) \subseteq Channels
        /\ \A t \in Channels : t \in TimersStarted(w) <=>
             /\ t[1] \in Touched(w)
             /\ cbs[t[1]].channels[t[2]].timer /\ ~cbs[t[1]].channels[t[2]].sub
    BY TimersStartedAre
  <1>2. \A s \in Touched(w) : Current(s)
    BY DEF Touched, ListsCurrent
  <1>3. \A t \in TimersStarted(w) :
             /\ t \in Channels
             /\ t[1] \in Touched(w) /\ Current(t[1]) /\ IsTimer(t) /\ ~IsMarked(t)
    BY <1>1, <1>2 DEF IsTimer, IsMarked
  <1>4. \A t \in Channels : Current(t[1]) /\ IsTimer(t) =>
          Interval(t) \in DOMAIN timers /\ timers[Interval(t)].list = <<t[1]>>
    BY DEF IntervalsOwned
  <1>5. ASSUME NEW t \in TimersStarted(w), NEW u \in Channels,
               Current(u[1]), IsTimer(u), Interval(u) = Interval(t)
        PROVE  u = t
    <2>1. timers[Interval(t)].list = <<t[1]>> /\ timers[Interval(t)].list = <<u[1]>>
      BY <1>3, <1>4, <1>5
    <2>2. t[1] = u[1]
      <3>1. <<t[1]>>[1] = <<u[1]>>[1]
        BY <2>1
      <3> QED
        BY <3>1
    <2> QED
      BY <1>3, <1>5, <2>2 DEF IntervalsOwned
  <1> HIDE DEF Current, IsTimer, IsMarked
  <1> QED
    BY <1>1, <1>3, <1>4, <1>5

LEMMA OwnedKept ==
    ASSUME IntervalsOwned, RunningOwned, UNCHANGED <<session, timers, cbs, running>>,
           phase' = "closed" <=> phase = "closed"
    PROVE  IntervalsOwned' /\ RunningOwned'
  <1>1. Channels' = Channels
    BY DEF Channels
  <1>2. \A t : /\ IsTimer(t)' = IsTimer(t) /\ Interval(t)' = Interval(t)
               /\ IsMarked(t)' = IsMarked(t) /\ Current(t[1])' = Current(t[1])
    BY DEF IsTimer, IsMarked, Interval, Current
  <1>3. IntervalsOwned'
    <2>1. \A s \in DOMAIN cbs' : cbs'[s].session <= session'
      BY DEF IntervalsOwned
    <2>2. phase' # "closed" => \A t \in Channels' : Current(t[1])' /\ IsTimer(t)' =>
             Interval(t)' \in DOMAIN timers' /\ timers'[Interval(t)'].list = <<t[1]>>
      BY <1>1, <1>2 DEF IntervalsOwned
    <2>3. \A t, u \in Channels' :
             t[1] = u[1] /\ IsTimer(t)' /\ IsTimer(u)' /\ Interval(t)' = Interval(u)' => t = u
      BY <1>1, <1>2 DEF IntervalsOwned
    <2> QED
      BY <2>1, <2>2, <2>3 DEF IntervalsOwned
  <1>4. RunningOwned'
    BY <1>2 DEF RunningOwned
  <1> QED
    BY <1>3, <1>4

LEMMA OwnedConfirmation ==
    ASSUME Typed, ListsCurrent, IntervalsOwned, RunningOwned, on_read_subscribe
    PROVE  IntervalsOwned' /\ RunningOwned'
  <1> DEFINE r == Head(wire)
             p == search(trees[r.variant], r.name)
             list == cb_lists[r.variant][p]
             w == UpToAwaiting(list, r.name)
             hit == Awaiting(w, r.name) # {}
  <1>1. /\ r \in ReplyType /\ phase # "closed"
        /\ UNCHANGED <<phase, session, trees, cb_lists, nsubs>>
    BY ConfirmationIs
  <1>2. \/ fault' = TRUE /\ UNCHANGED <<cbs, running, timers>>
        \/ /\ p \in DOMAIN trees[r.variant]
           /\ list \in Seq(1..nsubs) /\ list # <<>>
           /\ w \in Seq(1..nsubs)
           /\ ConfirmAll(w, hit, r.name)
           /\ StartTimers(TimersStarted(w))
    BY ConfirmationIs
  <1>3. r.variant \in Variants /\ hit \in BOOLEAN
    BY <1>1 DEF ReplyType
  <1>4. DOMAIN cb_lists[r.variant] = DOMAIN trees[r.variant]
    <2>1. [tree |-> trees[r.variant], lists |-> cb_lists[r.variant]] \in Files(nsubs)
      BY <1>3 DEF Typed
    <2> QED
      BY <2>1 DEF Files
  <1>5. list \in Seq(1..nsubs) /\ list # <<>> => Range(w) \subseteq Range(list)
    BY WalkedIsListed
  <1> HIDE DEF r, p, list, w, hit
  <1>6. CASE UNCHANGED <<cbs, running, timers>>
    BY <1>1, <1>6, OwnedKept
  <1>7. CASE /\ p \in DOMAIN trees[r.variant]
             /\ list \in Seq(1..nsubs) /\ list # <<>>
             /\ w \in Seq(1..nsubs)
             /\ ConfirmAll(w, hit, r.name)
             /\ StartTimers(TimersStarted(w))
    <2>1. /\ cbs' \in [1..nsubs -> CallbackType] /\ cbs \in [1..nsubs -> CallbackType]
          /\ \A s \in 1..nsubs : SameShape(cbs[s], cbs'[s])
          /\ \A s \in 1..nsubs \ Touched(w) : cbs'[s] = cbs[s]
          /\ \A s \in Touched(w) : \A i \in DOMAIN cbs[s].channels :
               cbs'[s].channels[i].sub <=> Marked(s, hit /\ s = w[Len(w)], r.name, i)
      BY <1>3, <1>7, ConfirmAllIs DEF Typed
    <2>2. Channels' = Channels /\ \A t \in Channels : Interval(t)' = Interval(t)
      BY <2>1, ChannelsKept
    <2>3. \A t \in Channels : t[1] \in 1..nsubs /\ t[2] \in DOMAIN cbs[t[1]].channels
      BY <2>1, ChannelsAre
    <2>4. \A t \in Channels :
             /\ IsTimer(t)' = IsTimer(t) /\ Current(t[1])' = Current(t[1])
             /\ IsMarked(t) => IsMarked(t)'
             /\ t[1] \in Touched(w) /\ IsTimer(t) => IsMarked(t)'
      <3> SUFFICES ASSUME NEW t \in Channels
                   PROVE  /\ IsTimer(t)' = IsTimer(t) /\ Current(t[1])' = Current(t[1])
                          /\ IsMarked(t) => IsMarked(t)'
                          /\ t[1] \in Touched(w) /\ IsTimer(t) => IsMarked(t)'
        OBVIOUS
      <3>1. SameShape(cbs[t[1]], cbs'[t[1]])
        BY <2>1, <2>3
      <3>2. IsTimer(t)' = IsTimer(t) /\ Current(t[1])' = Current(t[1])
        BY <1>1, <2>3, <3>1 DEF SameShape, IsTimer, Current
      <3>3. CASE t[1] \in Touched(w)
        BY <2>1, <2>3, <3>2, <3>3 DEF Marked, IsTimer, IsMarked
      <3>4. CASE t[1] \notin Touched(w)
        BY <2>1, <2>3, <3>2, <3>4 DEF IsMarked
      <3> QED
        BY <3>2, <3>3, <3>4
    <2> DEFINE start == TimersStarted(w)
    <2>5. /\ start \subseteq Channels
          /\ \A t \in start :
               /\ t[1] \in Touched(w) /\ Current(t[1]) /\ IsTimer(t) /\ ~IsMarked(t)
               /\ Interval(t) \in DOMAIN timers
          /\ \A t \in start, u \in Channels :
               Current(u[1]) /\ IsTimer(u) /\ Interval(u) = Interval(t) => u = t
      <3>1. p \in DOMAIN cb_lists[r.variant] /\ Range(w) \subseteq Range(cb_lists[r.variant][p])
        BY <1>4, <1>5, <1>7 DEF list
      <3>2. phase # "closed"
        BY <1>1
      <3> QED
        BY <1>3, <1>7, <3>1, <3>2, StartedAreOwned
    <2>6. /\ running' = running \cup start
          /\ DOMAIN timers' = DOMAIN timers
          /\ \A k \in DOMAIN timers :
               /\ timers'[k].list = timers[k].list
               /\ (\A t \in start : Interval(t) # k) => timers'[k] = timers[k]
               /\ (\E t \in start : Interval(t) = k) =>
                    timers'[k].handle \in {t \in start : Interval(t) = k}
      BY <1>7, <2>5, StartTimersIs
    <2> HIDE DEF start
    <2>7. IntervalsOwned'
      <3>1. \A s \in DOMAIN cbs' : cbs'[s].session <= session'
        BY <1>1, <2>1 DEF SameShape, IntervalsOwned
      <3>2. \A t \in Channels' : Current(t[1])' /\ IsTimer(t)' =>
              Interval(t)' \in DOMAIN timers' /\ timers'[Interval(t)'].list = <<t[1]>>
        BY <1>1, <2>2, <2>4, <2>6 DEF IntervalsOwned
      <3>3. \A t, u \in Channels' :
              t[1] = u[1] /\ IsTimer(t)' /\ IsTimer(u)' /\ Interval(t)' = Interval(u)' => t = u
        BY <2>2, <2>4 DEF IntervalsOwned
      <3> QED
        BY <3>1, <3>2, <3>3 DEF IntervalsOwned
    <2>8. RunningOwned'
      <3> SUFFICES ASSUME NEW t \in running \cup start
                   PROVE  /\ phase' # "closed" /\ Current(t[1])' /\ IsTimer(t)' /\ IsMarked(t)'
                          /\ Interval(t)' \in DOMAIN timers' /\ timers'[Interval(t)'].handle = t
        BY <2>6 DEF RunningOwned
      <3>1. t \in Channels /\ Interval(t)' = Interval(t)
        BY <2>2, <2>5 DEF Typed
      <3>2. CASE t \in start
        <4>1. timers'[Interval(t)].handle \in {u \in start : Interval(u) = Interval(t)}
          BY <2>5, <2>6, <3>2
        <4>2. timers'[Interval(t)].handle = t
          BY <2>5, <3>2, <4>1
        <4> QED
          BY <1>1, <2>4, <2>5, <2>6, <3>1, <3>2, <4>2
      <3>3. CASE t \in running \ start
        <4>1. /\ Current(t[1]) /\ IsTimer(t) /\ IsMarked(t)
              /\ Interval(t) \in DOMAIN timers /\ timers[Interval(t)].handle = t
          BY <3>3 DEF RunningOwned
        <4>2. \A u \in start : Interval(u) # Interval(t)
          BY <2>5, <3>1, <3>3, <4>1
        <4>3. timers'[Interval(t)] = timers[Interval(t)]
          BY <2>6, <4>1, <4>2
        <4> QED
          BY <1>1, <2>4, <2>6, <3>1, <4>1, <4>3
      <3> QED
        BY <3>2, <3>3
    <2> QED
      BY <2>7, <2>8
  <1> QED
    BY <1>2, <1>6, <1>7

LEMMA OwnedNext ==
    Typed /\ OwnIntervals /\ ListsCurrent /\ IntervalsOwned /\ RunningOwned /\ [Next]_vars
      => IntervalsOwned' /\ RunningOwned'
  <1> SUFFICES ASSUME Typed, OwnIntervals, ListsCurrent, IntervalsOwned, RunningOwned, [Next]_vars
               PROVE  IntervalsOwned' /\ RunningOwned'
    OBVIOUS
  <1>1. ASSUME NEW v \in Variants, NEW req \in Requests, lua_client_subscribe(v, req)
        PROVE  IntervalsOwned' /\ RunningOwned'
    BY <1>1, OwnedSubscribe
  <1>2. CASE on_read_subscribe
    BY <1>2, OwnedConfirmation
  <1>3. CASE on_disconnect
    <2>1. /\ phase' = "closed" /\ cbs' = cbs /\ session' = session
          /\ running' = running \ Stopped
      BY <1>3 DEF on_disconnect
    <2>2. running' = {}
      <3>1. ASSUME NEW t \in running PROVE t \in Stopped
        BY DEF RunningOwned, Stopped
      <3> QED
        BY <2>1, <3>1
    <2>3. IntervalsOwned'
      <3>1. Channels' = Channels
        BY <2>1 DEF Channels
      <3>2. \A s \in DOMAIN cbs' : cbs'[s].session <= session'
        BY <2>1 DEF IntervalsOwned
      <3>3. \A t, u \in Channels' : t[1] = u[1] /\ IsTimer(t)' /\ IsTimer(u)'
              /\ Interval(t)' = Interval(u)' => t = u
        BY <2>1, <3>1 DEF IntervalsOwned, IsTimer, Interval
      <3> QED
        BY <2>1, <3>2, <3>3 DEF IntervalsOwned
    <2> QED
      BY <2>2, <2>3 DEF RunningOwned
  <1>4. CASE lua_client_connect
    <2>1. phase = "closed" /\ session' = session + 1 /\ cbs' = cbs /\ running' = running
      BY <1>4 DEF lua_client_connect
    <2>2. running' = {}
      BY <2>1 DEF RunningOwned
    <2>3. session \in Nat /\ cbs \in [1..nsubs -> CallbackType]
          /\ \A s \in DOMAIN cbs : cbs[s].session \in Nat /\ cbs[s].session <= session
      <3>1. \A c \in CallbackType : c.session \in Nat
        BY SubscriptionsAssumption DEF CallbackType
      <3> QED
        BY <3>1, SubscriptionsAssumption DEF Typed, IntervalsOwned
    <2>4. \A s \in DOMAIN cbs : cbs[s].session # session + 1 /\ cbs[s].session <= session + 1
      BY <2>3
    <2>5. \A t \in Channels : t[1] \in DOMAIN cbs
      BY ChannelsAre
    <2>6. Channels' = Channels
      BY <2>1 DEF Channels
    <2>7. \A t : IsTimer(t)' = IsTimer(t) /\ Interval(t)' = Interval(t)
      BY <2>1 DEF IsTimer, Interval
    <2>8. \A t \in Channels' : ~Current(t[1])'
      BY <2>1, <2>4, <2>5, <2>6 DEF Current
    <2>9. \A t, u \in Channels' :
             t[1] = u[1] /\ IsTimer(t)' /\ IsTimer(u)' /\ Interval(t)' = Interval(u)' => t = u
      BY <2>6, <2>7 DEF IntervalsOwned
    <2>10. \A s \in DOMAIN cbs' : cbs'[s].session <= session'
      BY <2>1, <2>4
    <2>11. IntervalsOwned'
      BY <2>8, <2>9, <2>10 DEF IntervalsOwned
    <2> QED
      BY <2>2, <2>11 DEF RunningOwned
  <1>5. CASE \/ \E v \in Variants, name \in Names : unsubscribe(v, name)
             \/ \E v \in Variants, name \in Names : ServerPublishes(v, name)
             \/ ServerServes \/ on_read_ignored \/ on_read_message
             \/ \E t \in running : on_timer(t)
             \/ Walk \/ lua_client_disconnect \/ UNCHANGED vars
    <2>1. /\ UNCHANGED <<session, timers, cbs, running>>
          /\ phase' = "closed" <=> phase = "closed"
      <3>1. CASE \/ \E v \in Variants, name \in Names : unsubscribe(v, name)
                 \/ \E v \in Variants, name \in Names : ServerPublishes(v, name)
                 \/ ServerServes \/ on_read_ignored \/ on_read_message
        BY <3>1 DEF unsubscribe, ServerPublishes, ServerServes, on_read_ignored, on_read_message
      <3>2. CASE \/ \E t \in running : on_timer(t)
                 \/ Walk \/ lua_client_disconnect \/ UNCHANGED vars
        BY <3>2 DEF on_timer, Walk, walk_next, walk_end, lua_client_disconnect, vars
      <3> QED
        BY <1>5, <3>1, <3>2
    <2> QED
      BY <2>1, OwnedKept
  <1> QED
    BY <1>1, <1>2, <1>3, <1>4, <1>5 DEF Next, Application, OnRead

\* The search of a reply's name finds the node of the name.
LEMMA ReplyFindsNode ==
    ASSUME Typed, NamesFiled, wire # <<>>, Head(wire).kind \in {"subscribe", "message"}
    PROVE  LET r == Head(wire) IN
           /\ r.variant \in Variants
           /\ NodeOf(trees[r.variant], r.name, search(trees[r.variant], r.name))
  <1>0. PICK r : r = Head(wire)
    OBVIOUS
  <1>1. wire \in Seq(ReplyType)
    BY DEF Typed
  <1>2. r \in Range(wire) /\ r \in ReplyType
    BY <1>0, <1>1, RangeOfTail
  <1>3. r.variant \in Variants /\ HasNode(r.variant, r.name)
    BY <1>0, <1>2 DEF NamesFiled, ReplyType
  <1>4. IsTree(trees[r.variant])
    <2>1. [tree |-> trees[r.variant], lists |-> cb_lists[r.variant]] \in Files(nsubs)
      BY <1>3 DEF Typed
    <2> QED
      BY <2>1 DEF Files
  <1>5. PICK p : NodeOf(trees[r.variant], r.name, p)
    BY <1>3 DEF HasNode
  <1>6. search(trees[r.variant], r.name) = p
    BY <1>4, <1>5, SearchFindsNode
  <1> QED
    BY <1>0, <1>3, <1>5, <1>6

LEMMA NoFaultNext == Typed /\ NamesFiled /\ RunningOwned /\ ~fault /\ [Next]_vars => ~fault'
  <1> SUFFICES ASSUME Typed, NamesFiled, RunningOwned, ~fault, [Next]_vars PROVE ~fault'
    OBVIOUS
  <1>1. CASE on_read_subscribe \/ on_read_message
    <2>1. wire # <<>> /\ Head(wire).kind \in {"subscribe", "message"}
      BY <1>1 DEF on_read_subscribe, on_read_message, Reads
    <2>2. search(trees[Head(wire).variant], Head(wire).name) \in DOMAIN trees[Head(wire).variant]
      BY <2>1, ReplyFindsNode DEF NodeOf
    <2>3. CASE on_read_subscribe
      BY <2>2, <2>3, ConfirmationIs
    <2>4. CASE on_read_message
      BY <2>2, <2>4 DEF on_read_message
    <2> QED
      BY <1>1, <2>3, <2>4
  <1>2. ASSUME NEW t \in running, on_timer(t) PROVE ~fault'
    BY <1>2 DEF on_timer, RunningOwned
  <1>3. CASE Application
    BY <1>3 DEF Application, lua_client_subscribe, unsubscribe, lua_client_disconnect,
                lua_client_connect
  <1>4. CASE ServerServes \/ \E v \in Variants, name \in Names : ServerPublishes(v, name)
    BY <1>4 DEF ServerServes, ServerPublishes
  <1>5. CASE on_read_ignored \/ Walk \/ on_disconnect \/ UNCHANGED vars
    BY <1>5 DEF on_read_ignored, Walk, walk_next, walk_end, on_disconnect, vars
  <1> QED
    BY <1>1, <1>2, <1>3, <1>4, <1>5 DEF Next, OnRead

\* The inductive invariant of NoAbort and TimersOwned.
Owned ==
    /\ Typed /\ NamesFiled /\ ListsCurrent /\ IntervalsOwned /\ RunningOwned
    /\ ~fault

LEMMA OwnedInit == Init => Owned
  <1> SUFFICES ASSUME Init PROVE Owned
    OBVIOUS
  <1>1. Typed
    BY TypedInit
  <1>2. NamesFiled /\ ~fault /\ RunningOwned
    BY DEF Init, NamesFiled, Range, RunningOwned
  <1>3. DOMAIN cbs = {} /\ Channels = {}
    BY DEF Init, Channels
  <1>4. IntervalsOwned
    BY <1>3 DEF IntervalsOwned
  <1>5. ListsCurrent
    BY DEF Init, ListsCurrent, NoTree
  <1> QED
    BY <1>1, <1>2, <1>4, <1>5 DEF Owned

LEMMA OwnedInductive ==
    ASSUME OwnIntervals, Owned, [Next]_vars
    PROVE  Owned'
  <1>1. Typed /\ NamesFiled /\ ListsCurrent /\ IntervalsOwned /\ RunningOwned /\ ~fault
    BY DEF Owned
  <1>2. Typed'
    BY <1>1, TypedNext
  <1>3. NamesFiled'
    BY <1>1, NamesFiledNext
  <1>4. ListsCurrent'
    BY <1>1, ListsCurrentNext
  <1>5. IntervalsOwned' /\ RunningOwned'
    BY <1>1, OwnedNext
  <1>6. ~fault'
    BY <1>1, NoFaultNext
  <1> QED
    BY <1>2, <1>3, <1>4, <1>5, <1>6 DEF Owned

\* search and search_timer never run into a NULL pointer when every timer
\* interval is asked for once in a session: the name of each reply and the
\* interval of each running timer have a node, whatever names the trees hold.
THEOREM SubscriptionsNeverAbort ==
    ASSUME OwnIntervals
    PROVE  Spec => []NoAbort
  <1>1. Owned => NoAbort
    BY DEF Owned, NoAbort
  <1>2. Owned /\ [Next]_vars => Owned'
    BY OwnedInductive
  <1> QED
    BY <1>1, <1>2, OwnedInit, PTL DEF Spec

\* destroy_tree stops every timer that runs when every interval is asked for
\* once in a session: the node of the interval knows the uv_timer_t.
THEOREM SubscriptionsOwnTimers ==
    ASSUME OwnIntervals
    PROVE  Spec => []TimersOwned
  <1>1. Owned => TimersOwned
    BY DEF Owned, RunningOwned, TimersOwned
  <1>2. Owned /\ [Next]_vars => Owned'
    BY OwnedInductive
  <1> QED
    BY <1>1, <1>2, OwnedInit, PTL DEF Spec

-----------------------------------------------------------------------------
(* Confirmations arrive in the order in which names were asked for.        *)

NameOf(t) == cbs[t[1]].channels[t[2]].name
HasNames(s) == \E i \in DOMAIN cbs[s].channels : ~cbs[s].channels[i].timer

SessionsPast == \A s \in DOMAIN cbs : cbs[s].session <= session

\* A callback that has names and was not created INITIALIZED is so when all of
\* them are marked.
ReadyWhenMarked ==
    \A s \in DOMAIN cbs : HasNames(s) /\ ~cbs[s].fresh =>
        (cbs[s].init <=> \A i \in DOMAIN cbs[s].channels :
                            ~cbs[s].channels[i].timer => cbs[s].channels[i].sub)

\* One that was created INITIALIZED stays so: no confirmation touches it.
FreshStays == \A s \in DOMAIN cbs : cbs[s].fresh => cbs[s].init

\* No callback up to that of the channel was created INITIALIZED for a name
\* in common: its confirmation goes to the channel and not to a later one.
Undisturbed(t) ==
    \A s \in 1..t[1] :
        /\ cbs[s].fresh
        /\ cbs[s].session = cbs[t[1]].session /\ cbs[s].variant = cbs[t[1]].variant
        => NameOf(t) \notin NamesIn(s)

\* The names confirmed are marked, and only they are, but for what flags set
\* by malloc disturb; they were asked for before the others.
ConfirmedAreMarked == \A t \in acks : ~cbs[t[1]].fresh => IsMarked(t)
MarkedAreConfirmed == \A t \in Asked : IsMarked(t) /\ Undisturbed(t) => t \in acks
ConfirmedInOrder ==
    /\ acks \subseteq Asked
    /\ \A t \in Outstanding, u \in acks : Before(u, t)

Confirming ==
    /\ ReadyWhenMarked /\ FreshStays
    /\ ConfirmedAreMarked /\ MarkedAreConfirmed /\ ConfirmedInOrder

LEMMA AskedAre ==
    ASSUME Typed, NEW t
    PROVE  /\ t \in Asked <=>
                /\ t = <<t[1], t[2]>> /\ t[1] \in DOMAIN cbs /\ t[1] \in 1..nsubs
                /\ t[2] \in DOMAIN cbs[t[1]].channels /\ t[2] \in Nat
                /\ cbs[t[1]].session = session /\ ~cbs[t[1]].channels[t[2]].timer
           /\ t \in Outstanding <=> t \in Asked /\ t \notin acks
  <1>1. t \in Channels <=> t = <<t[1], t[2]>> /\ t[1] \in DOMAIN cbs
                           /\ t[2] \in DOMAIN cbs[t[1]].channels
    <2>1. ASSUME t \in Channels
          PROVE  t = <<t[1], t[2]>> /\ t[1] \in DOMAIN cbs /\ t[2] \in DOMAIN cbs[t[1]].channels
      <3>1. PICK s \in DOMAIN cbs : \E i \in DOMAIN cbs[s].channels : t = <<s, i>>
        BY <2>1, ChannelsAre
      <3> QED
        BY <3>1
    <2>2. ASSUME t = <<t[1], t[2]>>, t[1] \in DOMAIN cbs, t[2] \in DOMAIN cbs[t[1]].channels
          PROVE  t \in Channels
      BY <2>2, ChannelsAre
    <2> QED
      BY <2>1, <2>2
  <1>2. \A s \in DOMAIN cbs : s \in 1..nsubs /\ \A i \in DOMAIN cbs[s].channels : i \in Nat
    <2>1. cbs \in [1..nsubs -> CallbackType]
      BY DEF Typed
    <2> SUFFICES ASSUME NEW s \in DOMAIN cbs, NEW i \in DOMAIN cbs[s].channels
                 PROVE  s \in 1..nsubs /\ i \in Nat
      BY <2>1
    <2>2. cbs[s].channels \in Seq(ChannelType)
      BY <2>1 DEF CallbackType
    <2>3. DOMAIN cbs[s].channels = 1..Len(cbs[s].channels) /\ Len(cbs[s].channels) \in Nat
      BY <2>2
    <2> QED
      BY <2>1, <2>3
  <1>3. t \in Asked <=> t \in Channels /\ cbs[t[1]].session = session
                        /\ ~cbs[t[1]].channels[t[2]].timer
    BY DEF Asked, Current, IsTimer
  <1>4. t \in Outstanding <=> t \in Asked /\ t \notin acks
    BY DEF Outstanding
  <1> QED
    BY <1>1, <1>2, <1>3, <1>4

\* The channels of a callback that has names.
LEMMA NamedChannels ==
    ASSUME Typed, NEW s \in DOMAIN cbs
    PROVE  /\ \A i \in DOMAIN cbs[s].channels :
                ~cbs[s].channels[i].timer => NameOf(<<s, i>>) \in NamesIn(s)
           /\ HasNames(s) <=> NamesIn(s) # {}
           /\ cbs[s].session = session => \A i \in DOMAIN cbs[s].channels :
                ~cbs[s].channels[i].timer => <<s, i>> \in Asked
  <1>1. \A i \in DOMAIN cbs[s].channels : NameOf(<<s, i>>) = cbs[s].channels[i].name
    BY DEF NameOf
  <1>2. \A i \in DOMAIN cbs[s].channels : <<s, i>> \in Channels
    BY ChannelsAre
  <1> QED
    BY <1>1, <1>2 DEF NamesIn, HasNames, Asked

\* A callback is INITIALIZED when the reference says so.
LEMMA ReadyIs ==
    ASSUME Typed, Confirming
    PROVE  ReadyWhenConfirmed
  <1> SUFFICES ASSUME NEW s \in DOMAIN cbs, cbs[s].session = session, NamesIn(s) # {}
               PROVE  /\ Acked(s) => cbs[s].init
                      /\ cbs[s].init /\ Clear(s) => Acked(s)
    BY DEF ReadyWhenConfirmed
  <1>1. /\ ReadyWhenMarked /\ FreshStays
        /\ ConfirmedAreMarked /\ MarkedAreConfirmed /\ ConfirmedInOrder
    BY DEF Confirming
  <1>2. HasNames(s) /\ \A i \in DOMAIN cbs[s].channels :
          ~cbs[s].channels[i].timer => <<s, i>> \in Asked /\ NameOf(<<s, i>>) \in NamesIn(s)
    BY NamedChannels
  <1>3. ~cbs[s].fresh => (cbs[s].init <=> \A i \in DOMAIN cbs[s].channels :
                            ~cbs[s].channels[i].timer => cbs[s].channels[i].sub)
    BY <1>1, <1>2 DEF ReadyWhenMarked
  <1>4. ASSUME Acked(s) PROVE cbs[s].init
    <2>1. ASSUME ~cbs[s].fresh, NEW i \in DOMAIN cbs[s].channels, ~cbs[s].channels[i].timer
          PROVE  cbs[s].channels[i].sub
      <3>1. <<s, i>> \in acks
        BY <1>2, <1>4, <2>1 DEF Acked
      <3> QED
        BY <1>1, <2>1, <3>1 DEF ConfirmedAreMarked, IsMarked
    <2> QED
      BY <1>1, <1>3, <2>1 DEF FreshStays
  <1>5. ASSUME cbs[s].init, Clear(s), NEW t \in Asked, t[1] = s PROVE t \in acks
    <2>1. /\ t = <<s, t[2]>> /\ t[2] \in DOMAIN cbs[s].channels
          /\ ~cbs[s].channels[t[2]].timer
      BY <1>5, AskedAre
    <2>2. IsMarked(t)
      BY <1>3, <1>5, <2>1 DEF Clear, IsMarked
    <2>3. NameOf(t) \in NamesIn(s)
      BY <1>2, <2>1
    <2>4. Undisturbed(t)
      BY <1>5, <2>3 DEF Undisturbed, Clear
    <2> QED
      BY <1>1, <2>2, <2>4 DEF MarkedAreConfirmed
  <1> QED
    BY <1>4, <1>5 DEF Acked

-----------------------------------------------------------------------------
(* The lists under the names.                                              *)

\* What subscribe() does to the lists.
LEMMA SubscribedLists ==
    ASSUME Typed, NEW v \in Variants, NEW req \in Requests, lua_client_subscribe(v, req)
    PROVE  LET s == nsubs + 1
               names == NamesOf(req) IN
           /\ \A w \in Variants : \A p \in DOMAIN cb_lists'[w] :
                /\ ListAt(cb_lists[w], p) \in Seq(1..nsubs)
                /\ cb_lists'[w][p] \in Seq(1..s)
                /\ Continued(ListAt(cb_lists[w], p), cb_lists'[w][p], s)
                /\ w # v => p \in DOMAIN cb_lists[w] /\ cb_lists'[w][p] = cb_lists[w][p]
           /\ \A w \in Variants : \A key, q : NodeOf(trees[w], key, q) =>
                /\ NodeOf(trees'[w], key, q)
                /\ Range(cb_lists[w][q]) \subseteq Range(cb_lists'[w][q])
           /\ \A w \in Variants : \A q \in DOMAIN trees[w] :
                q \in DOMAIN trees'[w] /\ trees'[w][q] = trees[w][q]
           /\ \A i \in 1..Len(names) : \E q :
                NodeOf(trees'[v], names[i], q) /\ s \in Range(cb_lists'[v][q])
  <1> DEFINE s == nsubs + 1
             names == NamesOf(req)
             filed == Filed(v, names, s)
  <1>1. /\ names \in NameLists /\ s \in 1..s
        /\ DOMAIN trees = Variants /\ DOMAIN cb_lists = Variants
        /\ [tree |-> trees[v], lists |-> cb_lists[v]] \in Files(s)
        /\ filed \in Files(s)
        /\ trees' = [trees EXCEPT ![v] = filed.tree]
        /\ cb_lists' = [cb_lists EXCEPT ![v] = filed.lists]
    BY SubscribeFiles
  <1>2. nsubs \in Nat /\ s \in Nat /\ nsubs <= s
    BY SubscribeIs
  <1> HIDE DEF s, names
  <1>3. /\ \A q \in DOMAIN filed.lists : Continued(ListAt(cb_lists[v], q), filed.lists[q], s)
        /\ DOMAIN trees[v] \subseteq DOMAIN filed.tree
        /\ \A q \in DOMAIN trees[v] : filed.tree[q] = trees[v][q]
        /\ \A i \in 1..Len(names) : \E q : NodeOf(filed.tree, names[i], q)
                                           /\ s \in Range(filed.lists[q])
    BY <1>1, <1>2, FiledLists
  <1>4. \A key, p : NodeOf(trees[v], key, p) => NodeOf(filed.tree, key, p)
    BY <1>1, <1>2, FiledNodes
  <1> HIDE DEF filed
  <1>5. /\ trees'[v] = filed.tree /\ cb_lists'[v] = filed.lists
        /\ \A w \in Variants : w # v => trees'[w] = trees[w] /\ cb_lists'[w] = cb_lists[w]
    BY <1>1
  <1>6. \A w \in Variants : \A p : ListAt(cb_lists[w], p) \in Seq(1..nsubs)
    <2> SUFFICES ASSUME NEW w \in Variants, NEW p PROVE ListAt(cb_lists[w], p) \in Seq(1..nsubs)
      OBVIOUS
    <2>1. [tree |-> trees[w], lists |-> cb_lists[w]] \in Files(nsubs)
      BY DEF Typed
    <2>2. \A a \in Files(nsubs) : ListAt(a.lists, p) \in Seq(1..nsubs)
      BY <1>2, ListAtType
    <2>3. ListAt([tree |-> trees[w], lists |-> cb_lists[w]].lists, p) \in Seq(1..nsubs)
      BY <2>1, <2>2
    <2> QED
      BY <2>3
  <1>7. DOMAIN filed.lists = DOMAIN filed.tree
        /\ \A w \in Variants : DOMAIN cb_lists[w] = DOMAIN trees[w]
    <2>1. \A w \in Variants : [tree |-> trees[w], lists |-> cb_lists[w]] \in Files(nsubs)
      BY DEF Typed
    <2> QED
      BY <1>1, <2>1 DEF Files
  <1>8. ASSUME NEW w \in Variants, NEW p \in DOMAIN cb_lists'[w]
        PROVE  /\ ListAt(cb_lists[w], p) \in Seq(1..nsubs)
               /\ cb_lists'[w][p] \in Seq(1..s)
               /\ Continued(ListAt(cb_lists[w], p), cb_lists'[w][p], s)
               /\ w # v => p \in DOMAIN cb_lists[w] /\ cb_lists'[w][p] = cb_lists[w][p]
    <2>1. CASE w = v
      <3>1. filed.lists[p] = ListAt(filed.lists, p) /\ p \in DOMAIN filed.lists
        BY <1>5, <1>8, <2>1 DEF ListAt
      <3>2. ListAt(filed.lists, p) \in Seq(1..s)
        BY <1>1, <1>2, ListAtType
      <3> QED
        BY <1>3, <1>5, <1>6, <2>1, <3>1, <3>2
    <2>2. CASE w # v
      <3>1. p \in DOMAIN cb_lists[w] /\ cb_lists'[w][p] = cb_lists[w][p]
        BY <1>5, <1>8, <2>2
      <3>2. cb_lists'[w][p] = ListAt(cb_lists[w], p)
        BY <3>1 DEF ListAt
      <3>3. Seq(1..nsubs) \subseteq Seq(1..s)
        <4>1. 1..nsubs \subseteq 1..s
          BY <1>2
        <4> QED
          BY <4>1, SeqSubset
      <3>4. \A x \in Seq(1..nsubs) : Continued(x, x, s)
        BY DEF Continued
      <3> QED
        BY <1>6, <2>2, <3>1, <3>2, <3>3, <3>4
    <2> QED
      BY <2>1, <2>2
  <1>9. ASSUME NEW w \in Variants, NEW key, NEW q, NodeOf(trees[w], key, q)
        PROVE  /\ NodeOf(trees'[w], key, q)
               /\ Range(cb_lists[w][q]) \subseteq Range(cb_lists'[w][q])
    <2>1. CASE w # v
      BY <1>5, <1>9, <2>1
    <2>2. CASE w = v
      <3>1. NodeOf(trees'[w], key, q)
        BY <1>4, <1>5, <1>9, <2>2
      <3>2. q \in DOMAIN trees[w] /\ q \in DOMAIN cb_lists[w] /\ q \in DOMAIN cb_lists'[w]
        BY <1>5, <1>7, <1>9, <2>2, <3>1 DEF NodeOf
      <3> DEFINE old == cb_lists[w][q]
                 new == cb_lists'[w][q]
      <3>3. old \in Seq(1..nsubs) /\ new \in Seq(1..s) /\ Continued(old, new, s)
        BY <1>8, <3>2 DEF ListAt
      <3> HIDE DEF old, new
      <3>4. ASSUME NEW e \in Range(old) PROVE e \in Range(new)
        <4>1. PICK i \in 1..Len(old) : old[i] = e
          BY <3>3, <3>4 DEF Range
        <4>2. i \in DOMAIN new /\ new[i] = e
          BY <3>3, <4>1 DEF Continued
        <4> QED
          BY <4>2 DEF Range
      <3> QED
        BY <3>1, <3>4 DEF old, new
    <2> QED
      BY <2>1, <2>2
  <1>10. ASSUME NEW w \in Variants, NEW q \in DOMAIN trees[w]
         PROVE  q \in DOMAIN trees'[w] /\ trees'[w][q] = trees[w][q]
    BY <1>3, <1>5
  <1>11. \A i \in 1..Len(names) : \E q :
            NodeOf(trees'[v], names[i], q) /\ s \in Range(cb_lists'[v][q])
    BY <1>3, <1>5
  <1> QED
    BY <1>8, <1>9, <1>10, <1>11 DEF s, names

\* The lists are in the order of the subscribe() calls.
ListsSorted ==
    \A v \in Variants : \A p \in DOMAIN cb_lists[v] : \A i, j \in DOMAIN cb_lists[v][p] :
        i < j => cb_lists[v][p][i] <= cb_lists[v][p][j]

\* A callback is in the list of each of its names.
ListsComplete ==
    phase # "closed" => \A t \in Asked :
        \E p : /\ NodeOf(trees[cbs[t[1]].variant], NameOf(t), p)
               /\ t[1] \in Range(cb_lists[cbs[t[1]].variant][p])

LEMMA SessionsPastNext == Typed /\ SessionsPast /\ [Next]_vars => SessionsPast'
  <1> SUFFICES ASSUME Typed, SessionsPast, [Next]_vars PROVE SessionsPast'
    OBVIOUS
  <1>1. session \in Nat /\ nsubs \in Nat /\ cbs \in [1..nsubs -> CallbackType]
    BY SubscriptionsAssumption DEF Typed
  <1>2. ASSUME NEW v \in Variants, NEW req \in Requests, lua_client_subscribe(v, req)
        PROVE  SessionsPast'
    <2>1. /\ cbs' \in [1..(nsubs + 1) -> CallbackType]
          /\ \A t \in 1..nsubs : cbs'[t] = cbs[t]
          /\ cbs'[nsubs + 1].session = session
      BY <1>2, SubscribeIs
    <2>2. session' = session
      BY <1>2 DEF lua_client_subscribe
    <2>3. \A s \in 1..(nsubs + 1) : s \in 1..nsubs \/ s = nsubs + 1
      BY <1>1
    <2> QED
      BY <1>1, <2>1, <2>2, <2>3 DEF SessionsPast
  <1>3. CASE ~ \E v \in Variants, req \in Requests : lua_client_subscribe(v, req)
    <2>1. /\ cbs' \in [1..nsubs -> CallbackType]
          /\ \A s \in 1..nsubs : SameShape(cbs[s], cbs'[s])
      BY <1>3, ShapesKept
    <2>2. session' = session \/ session' = session + 1
      BY <1>3, PhasesAre
    <2>3. \A s \in 1..nsubs : cbs[s].session \in Nat
      BY <1>1, SubscriptionsAssumption DEF CallbackType
    <2> QED
      BY <1>1, <2>1, <2>2, <2>3 DEF SessionsPast, SameShape
  <1> QED
    BY <1>2, <1>3

LEMMA ListsSortedNext == Typed /\ ListsSorted /\ [Next]_vars => ListsSorted'
  <1> SUFFICES ASSUME Typed, ListsSorted, [Next]_vars PROVE ListsSorted'
    OBVIOUS
  <1>1. ASSUME NEW v \in Variants, NEW req \in Requests, lua_client_subscribe(v, req)
        PROVE  ListsSorted'
    <2>1. nsubs \in Nat
      BY SubscriptionsAssumption DEF Typed
    <2> SUFFICES ASSUME NEW w \in Variants, NEW p \in DOMAIN cb_lists'[w],
                        NEW i \in DOMAIN cb_lists'[w][p], NEW j \in DOMAIN cb_lists'[w][p], i < j
                 PROVE  cb_lists'[w][p][i] <= cb_lists'[w][p][j]
      BY DEF ListsSorted
    <2> DEFINE old == ListAt(cb_lists[w], p)
               new == cb_lists'[w][p]
    <2>2. old \in Seq(1..nsubs) /\ new \in Seq(1..(nsubs + 1)) /\ Continued(old, new, nsubs + 1)
      BY <1>1, SubscribedLists
    <2>3. \A a, b \in DOMAIN old : a < b => old[a] <= old[b]
      <3>1. CASE p \in DOMAIN cb_lists[w]
        BY <3>1 DEF ListAt, ListsSorted
      <3>2. CASE p \notin DOMAIN cb_lists[w]
        BY <3>2 DEF ListAt
      <3> QED
        BY <3>1, <3>2
    <2>4. i \in 1..Len(new) /\ j \in 1..Len(new) /\ Len(old) \in Nat /\ DOMAIN old = 1..Len(old)
          /\ i \in Nat /\ j \in Nat
      BY <2>2
    <2> HIDE DEF old, new
    <2>5. CASE j <= Len(old)
      <3>1. i \in 1..Len(old) /\ j \in 1..Len(old)
        BY <2>4, <2>5
      <3>2. new[i] = old[i] /\ new[j] = old[j]
        BY <2>2, <3>1 DEF Continued
      <3>3. old[i] <= old[j]
        BY <2>3, <2>4, <3>1
      <3> QED
        BY <3>2, <3>3 DEF new
    <2>6. CASE j > Len(old)
      <3>1. new[j] = nsubs + 1
        <4>1. \A x \in 1..Len(new) : x > Len(old) => new[x] = nsubs + 1
          BY <2>2 DEF Continued
        <4> QED
          BY <2>4, <2>6, <4>1
      <3>2. new[i] \in 1..(nsubs + 1)
        BY <2>2, <2>4, ElementOfSeq
      <3> QED
        BY <2>1, <3>1, <3>2 DEF new
    <2> QED
      BY <2>4, <2>5, <2>6
  <1>2. CASE on_disconnect
    <2>1. \A v \in Variants : DOMAIN cb_lists'[v] = {}
      BY <1>2 DEF on_disconnect, NoTree
    <2> QED
      BY <2>1 DEF ListsSorted
  <1>3. CASE /\ ~ \E v \in Variants, req \in Requests : lua_client_subscribe(v, req)
             /\ ~ on_disconnect
    <2>1. cb_lists' = cb_lists
      BY <1>3, ShapesKept
    <2> QED
      BY <2>1 DEF ListsSorted
  <1> QED
    BY <1>1, <1>2, <1>3

\* subscribe() asks for the names of its request.
LEMMA AskedSubscribe ==
    ASSUME Typed, NEW v \in Variants, NEW req \in Requests, lua_client_subscribe(v, req)
    PROVE  LET s == nsubs + 1
               names == NamesOf(req)
               new == {s} \X (1..Len(names)) IN
           /\ Asked' = Asked \cup new
           /\ acks \subseteq Asked => Outstanding' = Outstanding \cup new
           /\ \A t \in Asked : /\ t[1] \in 1..nsubs /\ cbs'[t[1]] = cbs[t[1]]
                               /\ NameOf(t)' = NameOf(t)
           /\ \A i \in 1..Len(names) : cbs'[s].channels[i].name = names[i]
           /\ cbs'[s].variant = v
  <1>0. PICK s, names, ks : s = nsubs + 1 /\ names = NamesOf(req) /\ ks = TimersOf(req)
    OBVIOUS
  <1> DEFINE new == {s} \X (1..Len(names))
  <1>1. /\ nsubs \in Nat /\ s = nsubs + 1
        /\ cbs' \in [1..s -> CallbackType]
        /\ \A t \in 1..nsubs : cbs'[t] = cbs[t]
        /\ cbs'[s].variant = v /\ cbs'[s].session = session
        /\ DOMAIN cbs'[s].channels = 1..(Len(names) + Len(ks))
        /\ \A i \in 1..(Len(names) + Len(ks)) :
             cbs'[s].channels[i] =
               IF i <= Len(names)
                 THEN [timer |-> FALSE, name |-> names[i], ikey |-> 0, sub |-> FALSE]
                 ELSE [timer |-> TRUE, name |-> <<>>, ikey |-> ks[i - Len(names)], sub |-> FALSE]
    BY <1>0, SubscribeIs
  <1>2. Len(names) \in Nat /\ Len(ks) \in Nat
    BY <1>0, RequestTypes
  <1>3. session' = session
    BY DEF lua_client_subscribe
  <1>4. cbs \in [1..nsubs -> CallbackType]
    BY DEF Typed
  <1>5. \A x \in 1..s : x \in 1..nsubs \/ x = s
    BY <1>1
  <1>6. s \notin 1..nsubs /\ s \in 1..s /\ 1..nsubs \subseteq 1..s
    BY <1>1
  <1>7. \A t : t \in Asked' <=> /\ t = <<t[1], t[2]>> /\ t[1] \in 1..s
                                /\ t[2] \in DOMAIN cbs'[t[1]].channels
                                /\ cbs'[t[1]].session = session
                                /\ ~cbs'[t[1]].channels[t[2]].timer
    <2> SUFFICES ASSUME NEW t
                 PROVE  t \in Asked' <=> /\ t = <<t[1], t[2]>> /\ t[1] \in 1..s
                                         /\ t[2] \in DOMAIN cbs'[t[1]].channels
                                         /\ cbs'[t[1]].session = session
                                         /\ ~cbs'[t[1]].channels[t[2]].timer
      OBVIOUS
    <2>1. t \in Channels' <=> \E x \in 1..s : \E i \in DOMAIN cbs'[x].channels : t = <<x, i>>
      BY <1>1 DEF Channels
    <2>2. t \in Asked' <=> t \in Channels' /\ cbs'[t[1]].session = session
                           /\ ~cbs'[t[1]].channels[t[2]].timer
      BY <1>3 DEF Asked, Current, IsTimer
    <2>3. t \in Channels' <=> t = <<t[1], t[2]>> /\ t[1] \in 1..s
                              /\ t[2] \in DOMAIN cbs'[t[1]].channels
      <3>1. ASSUME t \in Channels'
            PROVE  t = <<t[1], t[2]>> /\ t[1] \in 1..s /\ t[2] \in DOMAIN cbs'[t[1]].channels
        <4>1. PICK x \in 1..s : \E i \in DOMAIN cbs'[x].channels : t = <<x, i>>
          BY <2>1, <3>1
        <4> QED
          BY <4>1
      <3>2. ASSUME t = <<t[1], t[2]>>, t[1] \in 1..s, t[2] \in DOMAIN cbs'[t[1]].channels
            PROVE  t \in Channels'
        BY <2>1, <3>2
      <3> QED
        BY <3>1, <3>2
    <2> QED
      BY <2>2, <2>3
  <1>8. \A i \in 1..(Len(names) + Len(ks)) :
           /\ cbs'[s].channels[i].timer <=> ~(i <= Len(names))
           /\ i <= Len(names) => cbs'[s].channels[i].name = names[i] /\ ~cbs'[s].channels[i].sub
    <2> SUFFICES ASSUME NEW i \in 1..(Len(names) + Len(ks))
                 PROVE  /\ cbs'[s].channels[i].timer <=> ~(i <= Len(names))
                        /\ i <= Len(names) =>
                             cbs'[s].channels[i].name = names[i] /\ ~cbs'[s].channels[i].sub
      OBVIOUS
    <2>1. CASE i <= Len(names)
      <3>1. cbs'[s].channels[i] = [timer |-> FALSE, name |-> names[i], ikey |-> 0, sub |-> FALSE]
        BY <1>1, <2>1
      <3> QED
        BY <2>1, <3>1
    <2>2. CASE ~(i <= Len(names))
      <3>1. cbs'[s].channels[i] =
              [timer |-> TRUE, name |-> <<>>, ikey |-> ks[i - Len(names)], sub |-> FALSE]
        BY <1>1, <2>2
      <3> QED
        BY <2>2, <3>1
    <2> QED
      BY <2>1, <2>2
  <1>9. \A i \in 1..Len(names) : i \in 1..(Len(names) + Len(ks)) /\ i <= Len(names)
    BY <1>2
  <1>10. \A i \in 1..(Len(names) + Len(ks)) : i <= Len(names) => i \in 1..Len(names)
    BY <1>2
  <1>11. \A t : t \in new <=> t = <<t[1], t[2]>> /\ t[1] = s /\ t[2] \in 1..Len(names)
    OBVIOUS
  <1> HIDE DEF new
  <1>12. \A t : t \in Asked' <=> t \in Asked \/ t \in new
    <2> SUFFICES ASSUME NEW t PROVE t \in Asked' <=> t \in Asked \/ t \in new
      OBVIOUS
    <2>1. t \in Asked <=> /\ t = <<t[1], t[2]>> /\ t[1] \in 1..nsubs
                          /\ t[2] \in DOMAIN cbs[t[1]].channels
                          /\ cbs[t[1]].session = session /\ ~cbs[t[1]].channels[t[2]].timer
      <3>1. t[1] \in DOMAIN cbs <=> t[1] \in 1..nsubs
        BY <1>4
      <3>2. \A x \in DOMAIN cbs : \A i \in DOMAIN cbs[x].channels : i \in Nat
        <4> SUFFICES ASSUME NEW x \in DOMAIN cbs, NEW i \in DOMAIN cbs[x].channels
                     PROVE  i \in Nat
          OBVIOUS
        <4>1. cbs[x].channels \in Seq(ChannelType)
          BY <1>4 DEF CallbackType
        <4>2. DOMAIN cbs[x].channels = 1..Len(cbs[x].channels)
          BY <4>1
        <4> QED
          BY <4>2
      <3> QED
        BY <3>1, <3>2, AskedAre
    <2>2. CASE t[1] \in 1..nsubs
      BY <1>1, <1>6, <1>7, <1>11, <2>1, <2>2
    <2>3. CASE t[1] = s
      BY <1>1, <1>6, <1>7, <1>8, <1>9, <1>10, <1>11, <2>1, <2>3, SMTT(30)
    <2>4. CASE t[1] \notin 1..nsubs /\ t[1] # s
      BY <1>5, <1>7, <1>11, <2>1, <2>4
    <2> QED
      BY <2>2, <2>3, <2>4
  <1>13. \A t \in Asked : t[1] \in 1..nsubs /\ cbs'[t[1]] = cbs[t[1]]
    BY <1>1, AskedAre
  <1>14. \A t \in new : t \notin Asked
    BY <1>6, <1>11, <1>13
  <1>15. acks' = acks
    BY DEF lua_client_subscribe
  <1>17. Asked' = Asked \cup new
    BY <1>12
  <1>18. acks \subseteq Asked => Outstanding' = Outstanding \cup new
    BY <1>14, <1>15, <1>17 DEF Outstanding
  <1>19. \A t \in Asked : NameOf(t)' = NameOf(t)
    BY <1>13 DEF NameOf
  <1>20. \A i \in 1..Len(names) : cbs'[s].channels[i].name = names[i]
    BY <1>8, <1>9
  <1> QED
    BY <1>1, <1>13, <1>17, <1>18, <1>19, <1>20, <1>0 DEF new

\* Steps that keep the shape of the callbacks keep what was asked for.
LEMMA AskedKept ==
    ASSUME Typed, session' = session, DOMAIN cbs' = DOMAIN cbs,
           \A s \in DOMAIN cbs : SameShape(cbs[s], cbs'[s])
    PROVE  /\ Asked' = Asked
           /\ \A t \in Asked : NameOf(t)' = NameOf(t) /\ cbs'[t[1]].variant = cbs[t[1]].variant
           /\ acks' = acks => Outstanding' = Outstanding
  <1>1. Channels' = Channels
    BY ChannelsKept
  <1>2. \A t \in Channels : t[1] \in DOMAIN cbs /\ t[2] \in DOMAIN cbs[t[1]].channels
    BY ChannelsAre
  <1>3. \A t \in Channels : /\ Current(t[1])' = Current(t[1]) /\ IsTimer(t)' = IsTimer(t)
                            /\ NameOf(t)' = NameOf(t)
                            /\ cbs'[t[1]].variant = cbs[t[1]].variant
    BY <1>2 DEF Current, IsTimer, NameOf, SameShape
  <1>4. Asked' = Asked
    BY <1>1, <1>3 DEF Asked, Current, IsTimer
  <1>5. acks' = acks => Outstanding' = Outstanding
    BY <1>4 DEF Outstanding
  <1>6. Asked \subseteq Channels
    BY DEF Asked
  <1> QED
    BY <1>3, <1>4, <1>5, <1>6

\* A session begins with nothing asked for.
LEMMA NothingAsked ==
    ASSUME Typed, SessionsPast, session' = session + 1, cbs' = cbs
    PROVE  Asked' = {} /\ Outstanding' = {}
  <1>1. session \in Nat /\ \A s \in DOMAIN cbs : cbs[s].session \in Nat
    <2>1. \A c \in CallbackType : c.session \in Nat
      BY SubscriptionsAssumption DEF CallbackType
    <2> QED
      BY <2>1, SubscriptionsAssumption DEF Typed
  <1>2. \A s \in DOMAIN cbs : cbs[s].session # session + 1
    BY <1>1 DEF SessionsPast
  <1>3. \A t \in Channels : t[1] \in DOMAIN cbs
    BY ChannelsAre
  <1>4. Channels' = Channels
    BY DEF Channels
  <1>5. \A t \in Channels' : ~Current(t[1])'
    BY <1>2, <1>3, <1>4 DEF Current
  <1>6. Asked' = {}
    BY <1>5 DEF Asked, Current
  <1> QED
    BY <1>6 DEF Outstanding

LEMMA ListsCompleteNext == Typed /\ SessionsPast /\ ListsComplete /\ [Next]_vars => ListsComplete'
  <1> SUFFICES ASSUME Typed, SessionsPast, ListsComplete, [Next]_vars PROVE ListsComplete'
    OBVIOUS
  <1>1. ASSUME NEW v \in Variants, NEW req \in Requests, lua_client_subscribe(v, req)
        PROVE  ListsComplete'
    <2>0. PICK s, names : s = nsubs + 1 /\ names = NamesOf(req)
      OBVIOUS
    <2>1. /\ \A w \in Variants : \A key, q : NodeOf(trees[w], key, q) =>
               /\ NodeOf(trees'[w], key, q)
               /\ Range(cb_lists[w][q]) \subseteq Range(cb_lists'[w][q])
          /\ \A i \in 1..Len(names) : \E q :
               NodeOf(trees'[v], names[i], q) /\ s \in Range(cb_lists'[v][q])
      <3>1. \A w \in Variants : \A key, q : NodeOf(trees[w], key, q) =>
              /\ NodeOf(trees'[w], key, q)
              /\ Range(cb_lists[w][q]) \subseteq Range(cb_lists'[w][q])
        BY <1>1, SubscribedLists, Zenon
      <3>2. \A i \in 1..Len(NamesOf(req)) : \E q :
              NodeOf(trees'[v], NamesOf(req)[i], q) /\ nsubs + 1 \in Range(cb_lists'[v][q])
        <4> SUFFICES ASSUME NEW i \in 1..Len(NamesOf(req))
                     PROVE  \E q : NodeOf(trees'[v], NamesOf(req)[i], q)
                                   /\ nsubs + 1 \in Range(cb_lists'[v][q])
          OBVIOUS
        <4> QED
          BY <1>1, SubscribedLists
      <3> QED
        BY <2>0, <3>1, <3>2
    <2>2. /\ Asked' = Asked \cup ({s} \X (1..Len(names)))
          /\ \A t \in Asked : cbs'[t[1]] = cbs[t[1]] /\ NameOf(t)' = NameOf(t)
          /\ \A i \in 1..Len(names) : cbs'[s].channels[i].name = names[i]
          /\ cbs'[s].variant = v
      BY <1>1, <2>0, AskedSubscribe
    <2>3. phase = "connected"
      BY <1>1 DEF lua_client_subscribe
    <2> SUFFICES ASSUME NEW t \in Asked'
                 PROVE  \E p : /\ NodeOf(trees'[cbs'[t[1]].variant], NameOf(t)', p)
                               /\ t[1] \in Range(cb_lists'[cbs'[t[1]].variant][p])
      BY DEF ListsComplete
    <2>4. CASE t \in Asked
      <3>1. cbs[t[1]].variant \in Variants
        <4>1. t[1] \in 1..nsubs
          BY <2>4, AskedAre
        <4>2. cbs[t[1]] \in CallbackType
          BY <4>1 DEF Typed
        <4> QED
          BY <4>2 DEF CallbackType
      <3>2. PICK p : /\ NodeOf(trees[cbs[t[1]].variant], NameOf(t), p)
                     /\ t[1] \in Range(cb_lists[cbs[t[1]].variant][p])
        BY <2>3, <2>4 DEF ListsComplete
      <3>3. NameOf(t)' = NameOf(t) /\ cbs'[t[1]].variant = cbs[t[1]].variant
        BY <2>2, <2>4
      <3> HIDE DEF NameOf
      <3>4. /\ NodeOf(trees'[cbs[t[1]].variant], NameOf(t), p)
            /\ t[1] \in Range(cb_lists'[cbs[t[1]].variant][p])
        BY <2>1, <3>1, <3>2
      <3> QED
        BY <3>3, <3>4
    <2>5. CASE t \in {s} \X (1..Len(names))
      <3>1. PICK i \in 1..Len(names) : t = <<s, i>>
        BY <2>5
      <3>2. NameOf(t)' = names[i] /\ cbs'[t[1]].variant = v /\ t[1] = s
        BY <2>2, <3>1 DEF NameOf
      <3> QED
        BY <2>1, <3>2
    <2> QED
      BY <2>2, <2>4, <2>5
  <1>2. CASE ~ \E v \in Variants, req \in Requests : lua_client_subscribe(v, req)
    <2>1. /\ cbs \in [1..nsubs -> CallbackType] /\ cbs' \in [1..nsubs -> CallbackType]
          /\ \A s \in 1..nsubs : SameShape(cbs[s], cbs'[s])
          /\ ~on_read_subscribe => cbs' = cbs
          /\ (trees' = trees /\ cb_lists' = cb_lists) \/ on_disconnect
      BY <1>2, ShapesKept
    <2>2. CASE session' = session /\ phase # "closed" /\ phase' # "closed"
      <3>1. ~on_disconnect
        BY <2>2 DEF on_disconnect
      <3>2. trees' = trees /\ cb_lists' = cb_lists
        BY <2>1, <3>1
      <3>3. /\ Asked' = Asked
            /\ \A t \in Asked : NameOf(t)' = NameOf(t) /\ cbs'[t[1]].variant = cbs[t[1]].variant
        BY <2>1, <2>2, AskedKept
      <3> QED
        BY <2>2, <3>2, <3>3 DEF ListsComplete
    <2>3. CASE phase' = "closed"
      BY <2>3 DEF ListsComplete
    <2>4. CASE session' = session + 1 /\ lua_client_connect
      <3>1. cbs' = cbs
        BY <2>4 DEF lua_client_connect
      <3>2. Asked' = {}
        BY <2>4, <3>1, NothingAsked
      <3> QED
        BY <3>2 DEF ListsComplete
    <2> QED
      BY <1>2, <2>2, <2>3, <2>4, PhasesAre
  <1> QED
    BY <1>1, <1>2

-----------------------------------------------------------------------------
(* What is under way: the requests and the replies of the names that no    *)
(* confirmation has marked yet.                                            *)

IsAsk(x) == x.kind = "subscribe"

\* The j-th reply on the wire, if it is a confirmation, is for the name f[j].
WireMatches(f) ==
    /\ f \in Seq(Nat \X Nat) /\ Len(f) = Len(wire)
    /\ \A j \in 1..Len(wire) : IsAsk(wire[j]) =>
         /\ f[j] \in Outstanding /\ NameOf(f[j]) = wire[j].name
         /\ cbs[f[j][1]].variant = wire[j].variant

\* The request of a callback, none of whose names is confirmed.
RequestOf(s, r) ==
    /\ s \in 1..nsubs /\ cbs[s].variant = r.variant
    /\ \A i : <<s, i>> \in Asked <=> i \in 1..Len(r.names)
    /\ \A i \in 1..Len(r.names) : <<s, i>> \in Outstanding /\ NameOf(<<s, i>>) = r.names[i]

\* The j-th request, if it is a subscription, is that of the callback g[j].
RequestsMatch(g) ==
    /\ g \in Seq(Nat) /\ Len(g) = Len(requests)
    /\ \A j \in 1..Len(requests) : IsAsk(requests[j]) => RequestOf(g[j], requests[j])

\* First the replies, then the requests, each in the order of the calls.
InSequence(f, g) ==
    /\ \A j, k \in 1..Len(wire) :
         j < k /\ IsAsk(wire[j]) /\ IsAsk(wire[k]) => Before(f[j], f[k])
    /\ \A j, k \in 1..Len(requests) :
         j < k /\ IsAsk(requests[j]) /\ IsAsk(requests[k]) => g[j] < g[k]
    /\ \A j \in 1..Len(wire), k \in 1..Len(requests) :
         IsAsk(wire[j]) /\ IsAsk(requests[k]) => f[j][1] < g[k]

\* Every outstanding name is under way until the session is over.
AllSent(f, g) ==
    \A t \in Outstanding :
        \/ \E j \in 1..Len(wire) : IsAsk(wire[j]) /\ f[j] = t
        \/ \E k \in 1..Len(requests) : IsAsk(requests[k]) /\ g[k] = t[1]

Matching(f, g) ==
    /\ WireMatches(f) /\ RequestsMatch(g) /\ InSequence(f, g)
    /\ phase # "closed" => AllSent(f, g)
    /\ phase = "closed" => wire = <<>> /\ requests = <<>>

UnderWay == \E f \in Seq(Nat \X Nat), g \in Seq(Nat) : Matching(f, g)

\* What depends on the callbacks and the session alone.
LEMMA SameCallbacks ==
    ASSUME cbs' = cbs, session' = session, nsubs' = nsubs, acks' = acks
    PROVE  /\ Asked' = Asked /\ Outstanding' = Outstanding
           /\ \A t : NameOf(t)' = NameOf(t)
           /\ \A s, r : RequestOf(s, r)' <=> RequestOf(s, r)
  <1>1. Channels' = Channels
    BY DEF Channels
  <1>2. Asked' = Asked
    BY <1>1 DEF Asked, Current, IsTimer
  <1>3. Outstanding' = Outstanding
    BY <1>2 DEF Outstanding
  <1>4. \A t : NameOf(t)' = NameOf(t)
    BY DEF NameOf
  <1>5. ASSUME NEW s, NEW r PROVE RequestOf(s, r)' <=> RequestOf(s, r)
    <2>1. \A i : NameOf(<<s, i>>)' = NameOf(<<s, i>>)
      BY <1>4
    <2> QED
      BY <1>2, <1>3, <2>1 DEF RequestOf
  <1> QED
    BY <1>2, <1>3, <1>4, <1>5

LEMMA MatchingLengths ==
    ASSUME Typed, NEW f, NEW g, Matching(f, g)
    PROVE  /\ Len(wire) \in Nat /\ Len(requests) \in Nat
           /\ f \in Seq(Nat \X Nat) /\ Len(f) = Len(wire)
           /\ g \in Seq(Nat) /\ Len(g) = Len(requests)
           /\ \A j \in 1..Len(f) : f[j] \in Nat \X Nat
           /\ \A k \in 1..Len(g) : g[k] \in Nat
  <1>1. wire \in Seq(ReplyType) /\ requests \in Seq(RequestType)
    BY DEF Typed
  <1>2. f \in Seq(Nat \X Nat) /\ g \in Seq(Nat) /\ Len(f) = Len(wire) /\ Len(g) = Len(requests)
    BY DEF Matching, WireMatches, RequestsMatch
  <1>3. Len(wire) \in Nat /\ Len(requests) \in Nat
    BY <1>1
  <1> QED
    BY <1>2, <1>3, ElementOfSeq

LEMMA RequestsMatchNext ==
    ASSUME NEW g \in Seq(Nat), Len(g) = Len(requests'),
           \A j \in 1..Len(requests') : \A r : r = requests'[j] /\ IsAsk(r) => RequestOf(g[j], r)'
    PROVE  RequestsMatch(g)'
  <1> SUFFICES ASSUME NEW j \in 1..Len(requests'), IsAsk(requests'[j])
               PROVE  RequestOf(g[j], requests[j])'
    BY DEF RequestsMatch, IsAsk
  <1>1. PICK r : r = requests'[j]
    OBVIOUS
  <1>2. RequestOf(g[j], r)'
    BY <1>1
  <1> QED
    BY <1>1, <1>2 DEF RequestOf

\* Steps that touch neither the callbacks nor what is under way.
LEMMA MatchingKept ==
    ASSUME Typed, NEW f, NEW g, Matching(f, g),
           UNCHANGED <<cbs, session, nsubs, acks, wire, requests>>,
           phase' = "closed" <=> phase = "closed"
    PROVE  Matching(f, g)'
  <1>1. /\ Outstanding' = Outstanding
        /\ \A t : NameOf(t)' = NameOf(t)
        /\ \A s, r : RequestOf(s, r)' <=> RequestOf(s, r)
    BY SameCallbacks
  <1>2. WireMatches(f)'
    <2>1. \A j : NameOf(f[j])' = NameOf(f[j])
      BY <1>1
    <2> QED
      BY <1>1, <2>1 DEF Matching, WireMatches
  <1>3. RequestsMatch(g)'
    <2>1. \A j \in 1..Len(requests) : \A r : r = requests[j] /\ IsAsk(r) => RequestOf(g[j], r)
      BY DEF Matching, RequestsMatch
    <2>2. \A j, r : RequestOf(g[j], r)' <=> RequestOf(g[j], r)
      BY <1>1
    <2>3. g \in Seq(Nat) /\ Len(g) = Len(requests)
      BY DEF Matching, RequestsMatch
    <2> HIDE DEF RequestOf
    <2> QED
      BY <2>1, <2>2, <2>3, RequestsMatchNext
  <1>4. InSequence(f, g)' /\ (AllSent(f, g)' <=> AllSent(f, g))
    BY <1>1 DEF Matching, InSequence, AllSent
  <1> QED
    BY <1>2, <1>3, <1>4 DEF Matching

LEMMA MatchingSubscribe ==
    ASSUME Typed, NEW f, NEW g, Matching(f, g), NEW v \in Variants, NEW req \in Requests,
           lua_client_subscribe(v, req), acks \subseteq Asked, NEW s, s = nsubs + 1
    PROVE  Matching(f, Append(g, s))'
  <1>0. PICK names, r, g2 :
             /\ names = NamesOf(req) /\ g2 = Append(g, s)
             /\ r = [kind |-> "subscribe", variant |-> v, names |-> names]
    OBVIOUS
  <1> DEFINE n == Len(requests)
             new == {s} \X (1..Len(names))
  <1>1. /\ n \in Nat /\ Len(wire) \in Nat /\ g \in Seq(Nat) /\ Len(g) = n
        /\ f \in Seq(Nat \X Nat) /\ Len(f) = Len(wire)
        /\ \A j \in 1..Len(f) : f[j] \in Nat \X Nat
        /\ \A k \in 1..Len(g) : g[k] \in Nat
    BY MatchingLengths
  <1>2. nsubs \in Nat /\ s \in Nat /\ nsubs' = s
    BY SubscribeIs
  <1>3. wire' = wire /\ requests' = Append(requests, r) /\ phase = "connected" /\ phase' = phase
    BY <1>0 DEF lua_client_subscribe
  <1>4. /\ Asked' = Asked \cup new /\ Outstanding' = Outstanding \cup new
        /\ \A t \in Asked : /\ t[1] \in 1..nsubs /\ cbs'[t[1]] = cbs[t[1]]
                            /\ NameOf(t)' = NameOf(t)
        /\ \A i \in 1..Len(names) : cbs'[s].channels[i].name = names[i]
        /\ cbs'[s].variant = v
    BY <1>0, AskedSubscribe
  <1>5. \A t \in 1..nsubs : cbs'[t] = cbs[t]
    BY SubscribeIs
  <1>6. requests \in Seq(RequestType)
    BY DEF Typed
  <1>7. /\ Len(requests') = n + 1 /\ requests'[n + 1] = r
        /\ \A j \in 1..n : requests'[j] = requests[j]
    BY <1>3, <1>6
  <1>8. /\ g2 \in Seq(Nat) /\ Len(g2) = n + 1 /\ g2[n + 1] = s
        /\ \A j \in 1..n : g2[j] = g[j]
    BY <1>0, <1>1, <1>2
  <1>9. \A t : t \in new <=> t = <<t[1], t[2]>> /\ t[1] = s /\ t[2] \in 1..Len(names)
    OBVIOUS
  <1>10. \A i : <<s, i>> \in new <=> i \in 1..Len(names)
    OBVIOUS
  <1>11. r.kind = "subscribe" /\ r.variant = v /\ r.names = names
    BY <1>0
  <1>12. \A j \in 1..(n + 1) : j \in 1..n \/ j = n + 1
    BY <1>1
  <1>13. Outstanding \subseteq Asked
    BY DEF Outstanding
  <1> HIDE DEF n, new
  <1>14. WireMatches(f)'
    <2> SUFFICES ASSUME NEW j \in 1..Len(wire), IsAsk(wire[j])
                 PROVE  /\ f[j] \in Outstanding' /\ NameOf(f[j])' = wire[j].name
                        /\ cbs'[f[j][1]].variant = wire[j].variant
      BY <1>1, <1>3 DEF WireMatches
    <2>1. /\ f[j] \in Outstanding /\ NameOf(f[j]) = wire[j].name
          /\ cbs[f[j][1]].variant = wire[j].variant
      BY DEF Matching, WireMatches
    <2> QED
      BY <1>4, <1>13, <2>1
  <1>15. RequestsMatch(g2)'
    <2> SUFFICES ASSUME NEW j \in 1..(n + 1), NEW a, a = requests'[j], IsAsk(a)
                 PROVE  RequestOf(g2[j], a)'
      BY <1>7, <1>8, RequestsMatchNext
    <2>1. CASE j \in 1..n
      <3>1. RequestOf(g[j], a)
        BY <1>7, <2>1 DEF Matching, RequestsMatch, n
      <3>2. g[j] \in 1..nsubs /\ g[j] # s /\ g[j] \in 1..nsubs'
        BY <1>2, <3>1 DEF RequestOf
      <3>3. cbs'[g[j]].variant = a.variant
        BY <1>5, <3>1, <3>2 DEF RequestOf
      <3>4. \A i : <<g[j], i>> \in Asked' <=> i \in 1..Len(a.names)
        BY <1>4, <1>9, <3>1, <3>2 DEF RequestOf
      <3>5. \A i \in 1..Len(a.names) :
               <<g[j], i>> \in Outstanding' /\ NameOf(<<g[j], i>>)' = a.names[i]
        BY <1>4, <1>13, <3>1 DEF RequestOf
      <3>6. RequestOf(g[j], a)'
        BY <3>2, <3>3, <3>4, <3>5 DEF RequestOf
      <3> QED
        BY <1>8, <2>1, <3>6
    <2>2. CASE j = n + 1
      <3>1. a = r /\ g2[j] = s
        BY <1>7, <1>8, <2>2
      <3>2. \A i : <<s, i>> \in Asked' <=> i \in 1..Len(names)
        <4>1. \A i : <<s, i>> \notin Asked
          BY <1>2, <1>4
        <4> QED
          BY <1>4, <1>10, <4>1
      <3>3. \A i \in 1..Len(names) : <<s, i>> \in Outstanding' /\ NameOf(<<s, i>>)' = names[i]
        BY <1>4, <1>10 DEF NameOf
      <3>4. RequestOf(s, r)'
        BY <1>2, <1>4, <1>11, <3>2, <3>3 DEF RequestOf
      <3> QED
        BY <3>1, <3>4
    <2> QED
      BY <1>12, <2>1, <2>2
  <1>16. \A j \in 1..n : IsAsk(requests[j]) => g[j] < s
    <2> SUFFICES ASSUME NEW j \in 1..n, IsAsk(requests[j]) PROVE g[j] < s
      OBVIOUS
    <2>1. RequestOf(g[j], requests[j])
      BY DEF Matching, RequestsMatch, n
    <2> QED
      BY <1>2, <2>1 DEF RequestOf
  <1>17. \A j \in 1..Len(wire) : IsAsk(wire[j]) => f[j][1] < s
    <2> SUFFICES ASSUME NEW j \in 1..Len(wire), IsAsk(wire[j]) PROVE f[j][1] < s
      OBVIOUS
    <2>1. f[j] \in Outstanding
      BY DEF Matching, WireMatches
    <2> QED
      BY <1>2, <1>4, <1>13, <2>1
  <1>18. InSequence(f, g2)'
    <2>1. \A j, k \in 1..Len(wire) :
             j < k /\ IsAsk(wire[j]) /\ IsAsk(wire[k]) => Before(f[j], f[k])
      BY DEF Matching, InSequence
    <2>2. ASSUME NEW j \in 1..(n + 1), NEW k \in 1..(n + 1), j < k,
                 IsAsk(requests'[j]), IsAsk(requests'[k])
          PROVE  g2[j] < g2[k]
      <3>1. j \in 1..n
        BY <1>1, <2>2 DEF n
      <3>2. CASE k \in 1..n
        BY <1>7, <1>8, <2>2, <3>1, <3>2 DEF Matching, InSequence, n
      <3>3. CASE k = n + 1
        BY <1>7, <1>8, <1>16, <2>2, <3>1, <3>3
      <3> QED
        BY <1>12, <3>2, <3>3
    <2>3. ASSUME NEW j \in 1..Len(wire), NEW k \in 1..(n + 1), IsAsk(wire[j]), IsAsk(requests'[k])
          PROVE  f[j][1] < g2[k]
      <3>2. CASE k \in 1..n
        BY <1>7, <1>8, <2>3, <3>2 DEF Matching, InSequence, n
      <3>3. CASE k = n + 1
        BY <1>8, <1>17, <2>3, <3>3
      <3> QED
        BY <1>12, <3>2, <3>3
    <2> QED
      BY <1>3, <1>7, <2>1, <2>2, <2>3 DEF InSequence, IsAsk, Before
  <1>19. AllSent(f, g2)'
    <2> SUFFICES ASSUME NEW t \in Outstanding'
                 PROVE  \/ \E j \in 1..Len(wire) : IsAsk(wire[j]) /\ f[j] = t
                        \/ \E k \in 1..(n + 1) : IsAsk(requests'[k]) /\ g2[k] = t[1]
      BY <1>3, <1>7 DEF AllSent, IsAsk
    <2>1. CASE t \in Outstanding
      <3>1. \/ \E j \in 1..Len(wire) : IsAsk(wire[j]) /\ f[j] = t
            \/ \E k \in 1..n : IsAsk(requests[k]) /\ g[k] = t[1]
        BY <1>3, <2>1 DEF Matching, AllSent, n
      <3>2. ASSUME NEW k \in 1..n, IsAsk(requests[k]), g[k] = t[1]
            PROVE  k \in 1..(n + 1) /\ IsAsk(requests'[k]) /\ g2[k] = t[1]
        BY <1>1, <1>7, <1>8, <3>2 DEF n
      <3> QED
        BY <3>1, <3>2
    <2>2. CASE t \in new
      <3>1. n + 1 \in 1..(n + 1)
        BY <1>1
      <3> QED
        BY <1>7, <1>8, <1>9, <1>11, <2>2, <3>1 DEF IsAsk
    <2> QED
      BY <1>4, <2>1, <2>2
  <1>20. Matching(f, g2)'
    BY <1>3, <1>14, <1>15, <1>18, <1>19 DEF Matching
  <1> QED
    BY <1>0, <1>20

\* The confirmations on the wire stay, d places further up.
RepliesMoved(d, f, f2) ==
    /\ f2 \in Seq(Nat \X Nat) /\ Len(f2) = Len(wire')
    /\ \A j \in 1..Len(wire') : IsAsk(wire'[j]) =>
         j + d \in 1..Len(wire) /\ wire[j + d] = wire'[j] /\ f[j + d] = f2[j]
    /\ \A j \in 1..Len(wire) : IsAsk(wire[j]) =>
         j - d \in 1..Len(wire') /\ wire'[j - d] = wire[j] /\ f2[j - d] = f[j]

\* The requests to subscribe stay.
RequestsStay(g, g2) ==
    /\ g2 \in Seq(Nat) /\ Len(g2) = Len(requests')
    /\ \A k \in 1..Len(requests') : IsAsk(requests'[k]) =>
         k \in 1..Len(requests) /\ requests[k] = requests'[k] /\ g[k] = g2[k]
    /\ \A k \in 1..Len(requests) : IsAsk(requests[k]) =>
         k \in 1..Len(requests') /\ requests'[k] = requests[k] /\ g2[k] = g[k]

\* Steps that leave the callbacks and the subscriptions under way alone.
LEMMA MatchingSameAsks ==
    ASSUME Typed, NEW f, NEW g, Matching(f, g), UNCHANGED <<cbs, session, nsubs, acks>>,
           phase # "closed", phase' # "closed", NEW d \in Nat,
           NEW f2, RepliesMoved(d, f, f2), NEW g2, RequestsStay(g, g2)
    PROVE  Matching(f2, g2)'
  <1>0. /\ f2 \in Seq(Nat \X Nat) /\ Len(f2) = Len(wire')
        /\ g2 \in Seq(Nat) /\ Len(g2) = Len(requests')
    BY DEF RepliesMoved, RequestsStay
  <1>a. /\ \A j \in 1..Len(wire') : IsAsk(wire'[j]) =>
             j + d \in 1..Len(wire) /\ wire[j + d] = wire'[j] /\ f[j + d] = f2[j]
        /\ \A j \in 1..Len(wire) : IsAsk(wire[j]) =>
             j - d \in 1..Len(wire') /\ wire'[j - d] = wire[j] /\ f2[j - d] = f[j]
    BY DEF RepliesMoved
  <1>b. /\ \A k \in 1..Len(requests') : IsAsk(requests'[k]) =>
             k \in 1..Len(requests) /\ requests[k] = requests'[k] /\ g[k] = g2[k]
        /\ \A k \in 1..Len(requests) : IsAsk(requests[k]) =>
             k \in 1..Len(requests') /\ requests'[k] = requests[k] /\ g2[k] = g[k]
    BY DEF RequestsStay
  <1>1. /\ Outstanding' = Outstanding
        /\ \A t : NameOf(t)' = NameOf(t)
        /\ \A s, r : RequestOf(s, r)' <=> RequestOf(s, r)
    BY SameCallbacks
  <1>2. WireMatches(f2)'
    <2> SUFFICES ASSUME NEW j \in 1..Len(wire'), IsAsk(wire'[j])
                 PROVE  /\ f2[j] \in Outstanding' /\ NameOf(f2[j])' = wire'[j].name
                        /\ cbs'[f2[j][1]].variant = wire'[j].variant
      BY <1>0 DEF WireMatches, IsAsk
    <2>1. j + d \in 1..Len(wire) /\ wire[j + d] = wire'[j] /\ f[j + d] = f2[j]
      BY <1>a
    <2>0. \A a \in 1..Len(wire) : IsAsk(wire[a]) =>
            /\ f[a] \in Outstanding /\ NameOf(f[a]) = wire[a].name
            /\ cbs[f[a][1]].variant = wire[a].variant
      BY DEF Matching, WireMatches
    <2>2. /\ f[j + d] \in Outstanding /\ NameOf(f[j + d]) = wire[j + d].name
          /\ cbs[f[j + d][1]].variant = wire[j + d].variant
      <3>1. IsAsk(wire[j + d])
        BY <2>1
      <3> QED
        BY <2>0, <2>1, <3>1, Zenon
    <2>3. NameOf(f2[j])' = NameOf(f2[j])
      BY <1>1
    <2> QED
      BY <1>1, <2>1, <2>2, <2>3
  <1>3. RequestsMatch(g2)'
    <2> SUFFICES ASSUME NEW k \in 1..Len(requests'), NEW r, r = requests'[k], IsAsk(r)
                 PROVE  RequestOf(g2[k], r)'
      BY <1>0, RequestsMatchNext
    <2>1. k \in 1..Len(requests) /\ requests[k] = r /\ g[k] = g2[k]
      BY <1>b
    <2>2. RequestOf(g2[k], r)
      BY <2>1 DEF Matching, RequestsMatch
    <2> HIDE DEF RequestOf
    <2> QED
      BY <1>1, <2>2
  <1>4. InSequence(f2, g2)'
    <2>1. ASSUME NEW j \in 1..Len(wire'), NEW k \in 1..Len(wire'), j < k,
                 IsAsk(wire'[j]), IsAsk(wire'[k])
          PROVE  Before(f2[j], f2[k])
      <3>1. /\ j + d \in 1..Len(wire) /\ wire[j + d] = wire'[j] /\ f[j + d] = f2[j]
            /\ k + d \in 1..Len(wire) /\ wire[k + d] = wire'[k] /\ f[k + d] = f2[k]
        BY <1>a, <2>1
      <3>2. j + d < k + d
        BY <2>1
      <3>3. \A a, b \in 1..Len(wire) :
               a < b /\ IsAsk(wire[a]) /\ IsAsk(wire[b]) => Before(f[a], f[b])
        BY DEF Matching, InSequence
      <3> QED
        BY <2>1, <3>1, <3>2, <3>3
    <2>2. ASSUME NEW j \in 1..Len(requests'), NEW k \in 1..Len(requests'), j < k,
                 IsAsk(requests'[j]), IsAsk(requests'[k])
          PROVE  g2[j] < g2[k]
      BY <1>b, <2>2 DEF Matching, InSequence
    <2>3. ASSUME NEW j \in 1..Len(wire'), NEW k \in 1..Len(requests'),
                 IsAsk(wire'[j]), IsAsk(requests'[k])
          PROVE  f2[j][1] < g2[k]
      BY <1>a, <1>b, <2>3 DEF Matching, InSequence
    <2> QED
      BY <2>1, <2>2, <2>3 DEF InSequence, Before, IsAsk
  <1>5. AllSent(f2, g2)'
    <2> SUFFICES ASSUME NEW t \in Outstanding
                 PROVE  \/ \E j \in 1..Len(wire') : IsAsk(wire'[j]) /\ f2[j] = t
                        \/ \E k \in 1..Len(requests') : IsAsk(requests'[k]) /\ g2[k] = t[1]
      BY <1>1 DEF AllSent, IsAsk
    <2>1. \/ \E j \in 1..Len(wire) : IsAsk(wire[j]) /\ f[j] = t
          \/ \E k \in 1..Len(requests) : IsAsk(requests[k]) /\ g[k] = t[1]
      BY DEF Matching, AllSent
    <2>2. ASSUME NEW j \in 1..Len(wire), IsAsk(wire[j]), f[j] = t
          PROVE  j - d \in 1..Len(wire') /\ IsAsk(wire'[j - d]) /\ f2[j - d] = t
      BY <1>a, <2>2
    <2>3. ASSUME NEW k \in 1..Len(requests), IsAsk(requests[k]), g[k] = t[1]
          PROVE  k \in 1..Len(requests') /\ IsAsk(requests'[k]) /\ g2[k] = t[1]
      BY <1>b, <2>3
    <2> QED
      BY <2>1, <2>2, <2>3
  <1> QED
    BY <1>2, <1>3, <1>4, <1>5 DEF Matching

LEMMA UnderWayUnsubscribe ==
    ASSUME Typed, UnderWay, NEW v \in Variants, NEW name \in Names, unsubscribe(v, name)
    PROVE  UnderWay'
  <1>1. PICK f \in Seq(Nat \X Nat), g \in Seq(Nat) : Matching(f, g)
    BY DEF UnderWay
  <1>0. PICK r, g2 : /\ r = [kind |-> "unsubscribe", variant |-> v, names |-> <<name>>]
                     /\ g2 = Append(g, 0)
    OBVIOUS
  <1>2. /\ Len(requests) \in Nat /\ Len(wire) \in Nat /\ g \in Seq(Nat) /\ Len(g) = Len(requests)
        /\ f \in Seq(Nat \X Nat) /\ Len(f) = Len(wire)
    BY <1>1, MatchingLengths
  <1>3. /\ UNCHANGED <<cbs, session, nsubs, acks>> /\ phase # "closed" /\ phase' # "closed"
        /\ wire' = wire /\ requests' = Append(requests, r)
    BY <1>0 DEF unsubscribe
  <1>4. requests \in Seq(RequestType)
    BY DEF Typed
  <1>5. /\ Len(requests') = Len(requests) + 1 /\ requests'[Len(requests) + 1] = r
        /\ \A k \in 1..Len(requests) : requests'[k] = requests[k]
    BY <1>3, <1>4
  <1>6. /\ g2 \in Seq(Nat) /\ Len(g2) = Len(requests) + 1
        /\ \A k \in 1..Len(requests) : g2[k] = g[k]
    BY <1>0, <1>2
  <1>7. ~IsAsk(r)
    BY <1>0 DEF IsAsk
  <1>8. \A k \in 1..(Len(requests) + 1) : k \in 1..Len(requests) \/ k = Len(requests) + 1
    BY <1>2
  <1>9. \A k \in 1..Len(requests) : k \in 1..(Len(requests) + 1)
    BY <1>2
  <1>10. \A j \in 1..Len(wire) : j + 0 = j /\ j - 0 = j
    BY <1>2
  <1>11. RepliesMoved(0, f, f)
    BY <1>2, <1>3, <1>10 DEF RepliesMoved
  <1>12. \A k \in 1..Len(requests') : IsAsk(requests'[k]) =>
           k \in 1..Len(requests) /\ requests[k] = requests'[k] /\ g[k] = g2[k]
    BY <1>5, <1>6, <1>7, <1>8
  <1>13. \A k \in 1..Len(requests) : IsAsk(requests[k]) =>
           k \in 1..Len(requests') /\ requests'[k] = requests[k] /\ g2[k] = g[k]
    BY <1>5, <1>6, <1>9
  <1>14. RequestsStay(g, g2)
    BY <1>5, <1>6, <1>12, <1>13 DEF RequestsStay
  <1>15. Matching(f, g2)'
    BY <1>1, <1>3, <1>11, <1>14, MatchingSameAsks
  <1> QED
    BY <1>2, <1>6, <1>15 DEF UnderWay

LEMMA UnderWayPublishes ==
    ASSUME Typed, UnderWay, NEW v \in Variants, NEW name \in Names, ServerPublishes(v, name)
    PROVE  UnderWay'
  <1>1. PICK f \in Seq(Nat \X Nat), g \in Seq(Nat) : Matching(f, g)
    BY DEF UnderWay
  <1>0. PICK r, f2 : /\ r = [kind |-> "message", variant |-> v, name |-> name]
                     /\ f2 = Append(f, <<0, 0>>)
    OBVIOUS
  <1>2. /\ Len(requests) \in Nat /\ Len(wire) \in Nat /\ g \in Seq(Nat) /\ Len(g) = Len(requests)
        /\ f \in Seq(Nat \X Nat) /\ Len(f) = Len(wire)
    BY <1>1, MatchingLengths
  <1>3. /\ UNCHANGED <<cbs, session, nsubs, acks>> /\ phase # "closed" /\ phase' # "closed"
        /\ wire' = Append(wire, r) /\ requests' = requests
    BY <1>0 DEF ServerPublishes
  <1>4. wire \in Seq(ReplyType)
    BY DEF Typed
  <1>5. /\ Len(wire') = Len(wire) + 1 /\ wire'[Len(wire) + 1] = r
        /\ \A k \in 1..Len(wire) : wire'[k] = wire[k]
    BY <1>3, <1>4
  <1>6. /\ f2 \in Seq(Nat \X Nat) /\ Len(f2) = Len(wire) + 1
        /\ \A k \in 1..Len(wire) : f2[k] = f[k]
    BY <1>0, <1>2, AppendProperties
  <1>7. ~IsAsk(r)
    BY <1>0 DEF IsAsk
  <1>8. \A k \in 1..(Len(wire) + 1) : k \in 1..Len(wire) \/ k = Len(wire) + 1
    BY <1>2
  <1>9. \A k \in 1..Len(wire) : k \in 1..(Len(wire) + 1) /\ k + 0 = k /\ k - 0 = k
    BY <1>2
  <1>11. RequestsStay(g, g)
    BY <1>2, <1>3 DEF RequestsStay
  <1>12. \A k \in 1..Len(wire') : IsAsk(wire'[k]) =>
           k + 0 \in 1..Len(wire) /\ wire[k + 0] = wire'[k] /\ f[k + 0] = f2[k]
    BY <1>5, <1>6, <1>7, <1>8, <1>9
  <1>13. \A k \in 1..Len(wire) : IsAsk(wire[k]) =>
           k - 0 \in 1..Len(wire') /\ wire'[k - 0] = wire[k] /\ f2[k - 0] = f[k]
    BY <1>5, <1>6, <1>9
  <1>14. RepliesMoved(0, f, f2)
    BY <1>5, <1>6, <1>12, <1>13 DEF RepliesMoved
  <1>15. Matching(f2, g)'
    BY <1>1, <1>3, <1>11, <1>14, MatchingSameAsks
  <1> QED
    BY <1>2, <1>6, <1>15 DEF UnderWay

LEMMA UnderWayRead ==
    ASSUME Typed, UnderWay, on_read_ignored \/ on_read_message
    PROVE  UnderWay'
  <1>1. PICK f \in Seq(Nat \X Nat), g \in Seq(Nat) : Matching(f, g)
    BY DEF UnderWay
  <1>0. PICK f2 : f2 = Tail(f)
    OBVIOUS
  <1>2. /\ Len(requests) \in Nat /\ Len(wire) \in Nat /\ g \in Seq(Nat) /\ Len(g) = Len(requests)
        /\ f \in Seq(Nat \X Nat) /\ Len(f) = Len(wire)
    BY <1>1, MatchingLengths
  <1>3. /\ UNCHANGED <<cbs, session, nsubs, acks>> /\ phase # "closed" /\ phase' # "closed"
        /\ wire # <<>> /\ wire' = Tail(wire) /\ requests' = requests
        /\ Head(wire).kind \in {"error", "unsubscribe", "message"}
    BY DEF on_read_ignored, on_read_message, Reads
  <1>4. wire \in Seq(ReplyType)
    BY DEF Typed
  <1>5. /\ Len(wire) >= 1 /\ Len(wire') = Len(wire) - 1 /\ Head(wire) = wire[1]
        /\ \A k \in 1..(Len(wire) - 1) : wire'[k] = wire[k + 1]
    BY <1>3, <1>4, HeadTailProperties, LenProperties, EmptySeq
  <1>6. /\ f2 \in Seq(Nat \X Nat) /\ Len(f2) = Len(wire) - 1
        /\ \A k \in 1..(Len(wire) - 1) : f2[k] = f[k + 1]
    <2>1. f # <<>>
      BY <1>2, <1>5, EmptySeq
    <2> QED
      BY <1>0, <1>2, <2>1, HeadTailProperties
  <1>7. ~IsAsk(wire[1])
    BY <1>3, <1>5 DEF IsAsk
  <1>8. \A k \in 1..Len(wire) : k = 1 \/ (k - 1 \in 1..(Len(wire) - 1) /\ (k - 1) + 1 = k)
    BY <1>2, <1>5
  <1>9. \A k \in 1..(Len(wire) - 1) : k + 1 \in 1..Len(wire)
    BY <1>2, <1>5
  <1>11. RequestsStay(g, g)
    BY <1>2, <1>3 DEF RequestsStay
  <1>12. \A k \in 1..Len(wire') : IsAsk(wire'[k]) =>
           k + 1 \in 1..Len(wire) /\ wire[k + 1] = wire'[k] /\ f[k + 1] = f2[k]
    BY <1>5, <1>6, <1>9
  <1>13. \A k \in 1..Len(wire) : IsAsk(wire[k]) =>
           k - 1 \in 1..Len(wire') /\ wire'[k - 1] = wire[k] /\ f2[k - 1] = f[k]
    BY <1>5, <1>6, <1>7, <1>8
  <1>14. RepliesMoved(1, f, f2)
    BY <1>5, <1>6, <1>12, <1>13 DEF RepliesMoved
  <1>15. Matching(f2, g)'
    BY <1>1, <1>3, <1>11, <1>14, MatchingSameAsks
  <1> QED
    BY <1>2, <1>6, <1>15 DEF UnderWay

\* The server answers the first request: a confirmation for each name.
LEMMA UnderWayServes ==
    ASSUME Typed, UnderWay, ServerServes
    PROVE  UnderWay'
  <1>1. PICK f \in Seq(Nat \X Nat), g \in Seq(Nat) : Matching(f, g)
    BY DEF UnderWay
  <1>0. PICK r, A, s, h, f2, g2, W, R :
           /\ r = Head(requests) /\ A = Answers(r) /\ s = g[1]
           /\ h = [i \in 1..Len(A) |-> <<s, i>>] /\ f2 = f \o h /\ g2 = Tail(g)
           /\ W = Len(wire) /\ R = Len(requests)
    OBVIOUS
  <1>2. /\ R \in Nat /\ W \in Nat /\ g \in Seq(Nat) /\ Len(g) = R
        /\ f \in Seq(Nat \X Nat) /\ Len(f) = W
        /\ \A k \in 1..Len(g) : g[k] \in Nat
    BY <1>0, <1>1, MatchingLengths
  <1>3. /\ UNCHANGED <<cbs, session, nsubs, acks, phase>>
        /\ requests # <<>> /\ requests' = Tail(requests) /\ wire' = wire \o A
        /\ r \in RequestType
    BY <1>0, ServesIs DEF ServerServes
  <1>4. phase # "closed"
    BY <1>1, <1>3 DEF Matching
  <1>5. wire \in Seq(ReplyType) /\ requests \in Seq(RequestType)
    BY DEF Typed
  <1>6. A \in Seq(ReplyType) /\ Len(A) \in Nat
    BY <1>0, <1>3, AnswersAre
  <1>7. /\ R >= 1 /\ r = requests[1] /\ Len(requests') = R - 1
        /\ \A k \in 1..(R - 1) : requests'[k] = requests[k + 1]
    BY <1>0, <1>3, <1>5, HeadTailProperties, LenProperties, EmptySeq
  <1>8. /\ g2 \in Seq(Nat) /\ Len(g2) = R - 1
        /\ \A k \in 1..(R - 1) : g2[k] = g[k + 1]
    <2>1. g # <<>>
      BY <1>2, <1>7, EmptySeq
    <2> QED
      BY <1>0, <1>2, <2>1, HeadTailProperties
  <1>9. s \in Nat
    BY <1>0, <1>2, <1>7
  <1>10. /\ h \in Seq(Nat \X Nat) /\ Len(h) = Len(A)
         /\ \A i \in 1..Len(A) : h[i] = <<s, i>>
    <2>1. h \in [1..Len(A) -> Nat \X Nat]
      BY <1>0, <1>6, <1>9
    <2> QED
      BY <1>0, <1>6, <2>1, SMTT(30)
  <1>11. /\ f2 \in Seq(Nat \X Nat) /\ Len(f2) = W + Len(A)
         /\ \A j \in 1..(W + Len(A)) : f2[j] = IF j <= W THEN f[j] ELSE h[j - W]
    <2>1. /\ f \o h \in Seq(Nat \X Nat) /\ Len(f \o h) = Len(f) + Len(h)
          /\ \A j \in 1..(Len(f) + Len(h)) :
               (f \o h)[j] = IF j <= Len(f) THEN f[j] ELSE h[j - Len(f)]
      BY <1>2, <1>10, ConcatProperties, ZenonT(40)
    <2> QED
      BY <1>0, <1>2, <1>10, <2>1
  <1>12. /\ Len(wire') = W + Len(A)
         /\ \A j \in 1..(W + Len(A)) : wire'[j] = IF j <= W THEN wire[j] ELSE A[j - W]
    BY <1>0, <1>3, <1>5, <1>6, ConcatProperties
  <1>13. \A j \in 1..(W + Len(A)) :
            \/ j \in 1..W /\ j <= W
            \/ ~(j <= W) /\ j - W \in 1..Len(A)
    BY <1>2, <1>6
  <1>14. \A i \in 1..Len(A) : IsAsk(A[i]) =>
            /\ IsAsk(r) /\ i \in 1..Len(r.names)
            /\ A[i].name = r.names[i] /\ A[i].variant = r.variant
    <2> SUFFICES ASSUME NEW i \in 1..Len(A), IsAsk(A[i])
                 PROVE  /\ IsAsk(r) /\ i \in 1..Len(r.names)
                        /\ A[i].name = r.names[i] /\ A[i].variant = r.variant
      OBVIOUS
    <2>1. r.names # <<>>
      <3> SUFFICES ASSUME r.names = <<>> PROVE FALSE
        OBVIOUS
      <3>1. Len(A) = 1 /\ A[1].kind = "error"
        BY <1>0, <1>3, AnswersAre
      <3>2. i = 1
        BY <3>1
      <3> QED
        BY <3>1, <3>2 DEF IsAsk
    <2>2. /\ Len(A) = Len(r.names)
          /\ A[i] = [kind |-> r.kind, variant |-> r.variant, name |-> r.names[i]]
      BY <1>0, <1>3, <2>1, AnswersAre
    <2> QED
      BY <2>2 DEF IsAsk
  <1>15. IsAsk(r) => \A i \in 1..Len(r.names) : i \in 1..Len(A) /\ IsAsk(A[i])
    <2> SUFFICES ASSUME IsAsk(r), NEW i \in 1..Len(r.names)
                 PROVE  i \in 1..Len(A) /\ IsAsk(A[i])
      OBVIOUS
    <2>1. r.names \in Seq(Names)
      BY <1>3 DEF RequestType
    <2>2. r.names # <<>>
      BY <2>1
    <2>3. /\ Len(A) = Len(r.names)
          /\ A[i] = [kind |-> r.kind, variant |-> r.variant, name |-> r.names[i]]
      BY <1>0, <1>3, <2>2, AnswersAre
    <2> QED
      BY <2>3 DEF IsAsk
  <1>16. IsAsk(r) => RequestOf(s, r)
    <2>1. \A j \in 1..R : IsAsk(requests[j]) => RequestOf(g[j], requests[j])
      BY <1>0, <1>1 DEF Matching, RequestsMatch
    <2>2. 1 \in 1..R
      BY <1>2, <1>7
    <2> HIDE DEF RequestOf
    <2> QED
      BY <1>0, <1>7, <2>1, <2>2
  <1>17. /\ Outstanding' = Outstanding
         /\ \A t : NameOf(t)' = NameOf(t)
         /\ \A a, b : RequestOf(a, b)' <=> RequestOf(a, b)
    BY <1>3, SameCallbacks
  <1>18. \A k \in 1..(R - 1) : k + 1 \in 1..R
    BY <1>2, <1>7
  <1>19. \A k \in 1..R : k = 1 \/ (k - 1 \in 1..(R - 1) /\ (k - 1) + 1 = k)
    BY <1>2, <1>7
  <1>20. \A j \in 1..W : IsAsk(wire[j]) =>
            /\ f[j] \in Outstanding /\ NameOf(f[j]) = wire[j].name
            /\ cbs[f[j][1]].variant = wire[j].variant
    BY <1>0, <1>1 DEF Matching, WireMatches
  <1>21. /\ \A j, k \in 1..W : j < k /\ IsAsk(wire[j]) /\ IsAsk(wire[k]) => Before(f[j], f[k])
         /\ \A j, k \in 1..R : j < k /\ IsAsk(requests[j]) /\ IsAsk(requests[k]) => g[j] < g[k]
         /\ \A j \in 1..W, k \in 1..R : IsAsk(wire[j]) /\ IsAsk(requests[k]) => f[j][1] < g[k]
    BY <1>0, <1>1 DEF Matching, InSequence
  <1>22. WireMatches(f2)'
    <2> SUFFICES ASSUME NEW j \in 1..(W + Len(A)), IsAsk(wire'[j])
                 PROVE  /\ f2[j] \in Outstanding' /\ NameOf(f2[j])' = wire'[j].name
                        /\ cbs'[f2[j][1]].variant = wire'[j].variant
      BY <1>11, <1>12 DEF WireMatches, IsAsk
    <2>0. NameOf(f2[j])' = NameOf(f2[j])
      BY <1>17
    <2>1. CASE j \in 1..W /\ j <= W
      BY <1>3, <1>11, <1>12, <1>17, <1>20, <2>0, <2>1
    <2>2. CASE ~(j <= W) /\ j - W \in 1..Len(A)
      <3>1. PICK i : i = j - W
        OBVIOUS
      <3>2. i \in 1..Len(A) /\ wire'[j] = A[i] /\ f2[j] = <<s, i>>
        BY <1>10, <1>11, <1>12, <2>2, <3>1
      <3>3. RequestOf(s, r) /\ i \in 1..Len(r.names)
            /\ A[i].name = r.names[i] /\ A[i].variant = r.variant
        BY <1>14, <1>16, <3>2
      <3>4. /\ <<s, i>> \in Outstanding /\ NameOf(<<s, i>>) = r.names[i]
            /\ cbs[s].variant = r.variant
        BY <3>3 DEF RequestOf
      <3> HIDE DEF NameOf
      <3> QED
        BY <1>3, <1>17, <2>0, <3>2, <3>3, <3>4
    <2> QED
      BY <1>13, <2>1, <2>2
  <1>23. RequestsMatch(g2)'
    <2> SUFFICES ASSUME NEW k \in 1..(R - 1), NEW a, a = requests'[k], IsAsk(a)
                 PROVE  RequestOf(g2[k], a)'
      BY <1>7, <1>8, RequestsMatchNext
    <2>1. k + 1 \in 1..R /\ requests[k + 1] = a /\ g[k + 1] = g2[k]
      BY <1>7, <1>8, <1>18
    <2>2. \A j \in 1..R : IsAsk(requests[j]) => RequestOf(g[j], requests[j])
      BY <1>0, <1>1 DEF Matching, RequestsMatch
    <2> HIDE DEF RequestOf
    <2>3. RequestOf(g2[k], a)
      BY <2>1, <2>2
    <2> QED
      BY <1>17, <2>3
  <1>24. \A k \in 1..(R - 1) : IsAsk(requests'[k]) =>
            /\ IsAsk(r) => s < g2[k]
            /\ \A j \in 1..W : IsAsk(wire[j]) => f[j][1] < g2[k]
    <2> SUFFICES ASSUME NEW k \in 1..(R - 1), IsAsk(requests'[k])
                 PROVE  /\ IsAsk(r) => s < g2[k]
                        /\ \A j \in 1..W : IsAsk(wire[j]) => f[j][1] < g2[k]
      OBVIOUS
    <2>1. k + 1 \in 1..R /\ requests[k + 1] = requests'[k] /\ g[k + 1] = g2[k]
          /\ 1 \in 1..R /\ 1 < k + 1
      BY <1>2, <1>7, <1>8, <1>18
    <2> QED
      BY <1>0, <1>7, <1>21, <2>1
  <1>25. InSequence(f2, g2)'
    <2>1. ASSUME NEW j \in 1..(W + Len(A)), NEW k \in 1..(W + Len(A)), j < k,
                 IsAsk(wire'[j]), IsAsk(wire'[k])
          PROVE  Before(f2[j], f2[k])
      <3>1. CASE k \in 1..W /\ k <= W
        <4>1. j \in 1..W /\ j <= W
          BY <1>2, <2>1, <3>1
        <4> QED
          BY <1>11, <1>12, <1>21, <2>1, <3>1, <4>1
      <3>2. CASE ~(k <= W) /\ k - W \in 1..Len(A)
        <4>1. wire'[k] = A[k - W] /\ f2[k] = <<s, k - W>> /\ IsAsk(r)
          BY <1>10, <1>11, <1>12, <1>14, <2>1, <3>2
        <4>2. CASE j \in 1..W /\ j <= W
          <5>1. 1 \in 1..R /\ IsAsk(requests[1]) /\ g[1] = s
            BY <1>0, <1>2, <1>7, <4>1
          <5>2. f2[j] = f[j] /\ IsAsk(wire[j])
            BY <1>11, <1>12, <2>1, <4>2
          <5>3. f2[j][1] < s
            BY <1>21, <4>2, <5>1, <5>2
          <5> QED
            BY <4>1, <5>3 DEF Before
        <4>3. CASE ~(j <= W) /\ j - W \in 1..Len(A)
          <5>1. f2[j] = <<s, j - W>>
            BY <1>10, <1>11, <4>3
          <5>2. j - W < k - W
            BY <1>2, <2>1, <1>6
          <5> QED
            BY <4>1, <5>1, <5>2 DEF Before
        <4> QED
          BY <1>13, <4>2, <4>3
      <3> QED
        BY <1>13, <3>1, <3>2
    <2>2. ASSUME NEW j \in 1..(R - 1), NEW k \in 1..(R - 1), j < k,
                 IsAsk(requests'[j]), IsAsk(requests'[k])
          PROVE  g2[j] < g2[k]
      <3>1. j + 1 < k + 1
        BY <1>2, <1>7, <2>2
      <3> QED
        BY <1>7, <1>8, <1>18, <1>21, <2>2, <3>1
    <2>3. ASSUME NEW j \in 1..(W + Len(A)), NEW k \in 1..(R - 1),
                 IsAsk(wire'[j]), IsAsk(requests'[k])
          PROVE  f2[j][1] < g2[k]
      <3>1. CASE j \in 1..W /\ j <= W
        BY <1>11, <1>12, <1>24, <2>3, <3>1
      <3>2. CASE ~(j <= W) /\ j - W \in 1..Len(A)
        <4>1. f2[j] = <<s, j - W>> /\ IsAsk(r)
          BY <1>10, <1>11, <1>12, <1>14, <2>3, <3>2
        <4> QED
          BY <1>24, <2>3, <4>1
      <3> QED
        BY <1>13, <3>1, <3>2
    <2> QED
      BY <1>7, <1>12, <2>1, <2>2, <2>3 DEF InSequence, Before, IsAsk
  <1>26. AllSent(f2, g2)'
    <2> SUFFICES ASSUME NEW t \in Outstanding
                 PROVE  \/ \E j \in 1..(W + Len(A)) : IsAsk(wire'[j]) /\ f2[j] = t
                        \/ \E k \in 1..(R - 1) : IsAsk(requests'[k]) /\ g2[k] = t[1]
      BY <1>7, <1>12, <1>17 DEF AllSent, IsAsk
    <2>1. \/ \E j \in 1..W : IsAsk(wire[j]) /\ f[j] = t
          \/ \E k \in 1..R : IsAsk(requests[k]) /\ g[k] = t[1]
      BY <1>0, <1>1, <1>4 DEF Matching, AllSent
    <2>2. ASSUME NEW j \in 1..W, IsAsk(wire[j]), f[j] = t
          PROVE  j \in 1..(W + Len(A)) /\ IsAsk(wire'[j]) /\ f2[j] = t
      <3>1. j \in 1..(W + Len(A)) /\ j <= W
        BY <1>2, <1>6
      <3> QED
        BY <1>11, <1>12, <2>2, <3>1
    <2>3. ASSUME NEW k \in 1..R, IsAsk(requests[k]), g[k] = t[1], k # 1
          PROVE  k - 1 \in 1..(R - 1) /\ IsAsk(requests'[k - 1]) /\ g2[k - 1] = t[1]
      <3>1. k - 1 \in 1..(R - 1) /\ (k - 1) + 1 = k
        BY <1>19, <2>3
      <3> QED
        BY <1>7, <1>8, <2>3, <3>1
    <2>4. ASSUME IsAsk(r), s = t[1]
          PROVE  \E j \in 1..(W + Len(A)) : IsAsk(wire'[j]) /\ f2[j] = t
      <3>1. RequestOf(s, r) /\ t \in Asked /\ t = <<t[1], t[2]>>
        BY <1>16, <2>4, AskedAre DEF Outstanding
      <3>2. t[2] \in 1..Len(r.names) /\ t = <<s, t[2]>>
        BY <2>4, <3>1 DEF RequestOf
      <3>3. PICK i : i = t[2]
        OBVIOUS
      <3>4. i \in 1..Len(A) /\ IsAsk(A[i])
        BY <1>15, <2>4, <3>2, <3>3
      <3>5. W + i \in 1..(W + Len(A)) /\ ~(W + i <= W) /\ (W + i) - W = i
        BY <1>2, <1>6, <3>4
      <3>6. wire'[W + i] = A[i] /\ f2[W + i] = <<s, i>>
        BY <1>10, <1>11, <1>12, <3>4, <3>5
      <3> QED
        BY <3>2, <3>3, <3>4, <3>5, <3>6
    <2> QED
      BY <1>0, <1>7, <2>1, <2>2, <2>3, <2>4, ZenonT(40)
  <1>27. Matching(f2, g2)'
    BY <1>3, <1>4, <1>22, <1>23, <1>25, <1>26 DEF Matching
  <1> QED
    BY <1>8, <1>11, <1>27 DEF UnderWay

\* The confirmation read next is for the name that was asked for first of
\* those outstanding.
LEMMA FirstOutstanding ==
    ASSUME Typed, NEW f, NEW g, Matching(f, g), on_read_subscribe, NEW t, t = f[1]
    PROVE  /\ t \in Outstanding /\ NameOf(t) = Head(wire).name
           /\ cbs[t[1]].variant = Head(wire).variant
           /\ \A u \in Outstanding : u = t \/ Before(t, u)
           /\ NextConfirmed = {t}
  <1>1. /\ wire # <<>> /\ Head(wire).kind = "subscribe" /\ phase # "closed"
    BY DEF on_read_subscribe, Reads
  <1>2. wire \in Seq(ReplyType)
    BY DEF Typed
  <1>3. Len(wire) \in Nat /\ Len(wire) >= 1 /\ Head(wire) = wire[1] /\ 1 \in 1..Len(wire)
    BY <1>1, <1>2, HeadTailProperties, LenProperties, EmptySeq
  <1>4. IsAsk(wire[1])
    BY <1>1, <1>3 DEF IsAsk
  <1>5. \A j \in 1..Len(wire) : IsAsk(wire[j]) =>
           /\ f[j] \in Outstanding /\ NameOf(f[j]) = wire[j].name
           /\ cbs[f[j][1]].variant = wire[j].variant
    BY DEF Matching, WireMatches
  <1>6. ASSUME NEW u \in Outstanding PROVE u = t \/ Before(t, u)
    <2>1. \/ \E j \in 1..Len(wire) : IsAsk(wire[j]) /\ f[j] = u
          \/ \E k \in 1..Len(requests) : IsAsk(requests[k]) /\ g[k] = u[1]
      BY <1>1 DEF Matching, AllSent
    <2>2. ASSUME NEW j \in 1..Len(wire), IsAsk(wire[j]), f[j] = u PROVE u = t \/ Before(t, u)
      <3>1. j = 1 \/ 1 < j
        BY <1>3
      <3>2. \A a, b \in 1..Len(wire) :
               a < b /\ IsAsk(wire[a]) /\ IsAsk(wire[b]) => Before(f[a], f[b])
        BY DEF Matching, InSequence
      <3> QED
        BY <1>3, <1>4, <2>2, <3>1, <3>2
    <2>3. ASSUME NEW k \in 1..Len(requests), IsAsk(requests[k]), g[k] = u[1] PROVE Before(t, u)
      <3>1. \A a \in 1..Len(wire), b \in 1..Len(requests) :
               IsAsk(wire[a]) /\ IsAsk(requests[b]) => f[a][1] < g[b]
        BY DEF Matching, InSequence
      <3>2. t[1] < u[1]
        BY <1>3, <1>4, <2>3, <3>1
      <3> QED
        BY <3>2 DEF Before
    <2> QED
      BY <2>1, <2>2, <2>3
  <1>7. t \in Outstanding
    BY <1>3, <1>4, <1>5
  <1>8. \A u \in Outstanding : u[1] \in Nat /\ u[2] \in Nat
    <2>1. \A u \in Outstanding : u \in Asked /\ u[1] \in 1..nsubs /\ u[2] \in Nat
      BY AskedAre DEF Outstanding
    <2> QED
      BY <2>1
  <1>9. \A u \in NextConfirmed : u = t
    <2> SUFFICES ASSUME NEW u \in Outstanding, \A x \in Outstanding : u = x \/ Before(u, x),
                        u # t
                 PROVE  FALSE
      BY DEF NextConfirmed
    <2>1. Before(u, t) /\ Before(t, u)
      BY <1>6, <1>7
    <2> QED
      BY <1>7, <1>8, <2>1 DEF Before
  <1>10. t \in NextConfirmed
    BY <1>6, <1>7 DEF NextConfirmed
  <1> QED
    BY <1>3, <1>4, <1>5, <1>6, <1>9, <1>10

\* The list of a name with the callback that is to be confirmed next, and
\* still awaits it: the walk goes up to that callback.
LEMMA WalkFindsFirst ==
    ASSUME Typed, ListsCurrent, ListsSorted, Confirming,
           NEW v \in Variants, NEW p \in DOMAIN cb_lists[v], NEW t \in Outstanding,
           \A u \in Outstanding : u = t \/ Before(t, u),
           ~IsMarked(t), ~cbs[t[1]].fresh,
           t[1] \in Range(cb_lists[v][p]), NEW w, w = UpToAwaiting(cb_lists[v][p], NameOf(t))
    PROVE  /\ Awaiting(w, NameOf(t)) # {} /\ w[Len(w)] = t[1]
           /\ t[1] \in Touched(w) /\ Awaits(t[1], t[2], NameOf(t))
           /\ \A i \in DOMAIN cbs[t[1]].channels : Awaits(t[1], i, NameOf(t)) => t[2] <= i
  <1>0. PICK list, name : list = cb_lists[v][p] /\ name = NameOf(t)
    OBVIOUS
  <1>1. list \in Seq(1..nsubs) /\ list # <<>> /\ Range(list) \subseteq 1..nsubs
    BY <1>0, ListElements
  <1>2. Len(list) \in Nat /\ DOMAIN list = 1..Len(list) /\ \A i \in 1..Len(list) : list[i] \in 1..nsubs
    <2>1. Len(list) \in Nat /\ DOMAIN list = 1..Len(list)
      BY <1>1
    <2> QED
      BY <1>1, <2>1, ElementOfSeq
  <1>3. \A i \in 1..Len(list) : list[i] \in Range(list)
    BY <1>2 DEF Range
  <1>4. /\ t = <<t[1], t[2]>> /\ t[1] \in DOMAIN cbs /\ t[1] \in 1..nsubs
        /\ t[2] \in DOMAIN cbs[t[1]].channels /\ t[2] \in Nat /\ nsubs \in Nat
        /\ ~cbs[t[1]].channels[t[2]].timer /\ ~cbs[t[1]].channels[t[2]].sub
    BY AskedAre, SubscriptionsAssumption DEF Outstanding, Typed, IsMarked
  <1>5. ~cbs[t[1]].init
    BY <1>4 DEF Confirming, ReadyWhenMarked, HasNames
  <1>6. Awaits(t[1], t[2], name)
    BY <1>0, <1>4, <1>5 DEF Awaits, NameOf
  <1>7. ASSUME NEW s \in Range(list), NEW i \in DOMAIN cbs[s].channels, Awaits(s, i, name)
        PROVE  /\ s \in Nat /\ i \in Nat /\ <<s, i>> \in Outstanding
               /\ (s = t[1] /\ i = t[2]) \/ t[1] < s \/ (t[1] = s /\ t[2] < i)
    <2>1. s \in 1..nsubs /\ s \in DOMAIN cbs /\ Current(s)
      BY <1>0, <1>1 DEF ListsCurrent, Typed
    <2>2. <<s, i>> \in Channels
      BY <2>1, ChannelsAre
    <2>3. <<s, i>> \in Outstanding
      <3>1. <<s, i>> \in Asked
        BY <1>7, <2>1, <2>2 DEF Asked, Awaits, Current
      <3>2. ~cbs[s].fresh /\ ~IsMarked(<<s, i>>)
        BY <1>7, <2>1 DEF Awaits, IsMarked, Confirming, FreshStays
      <3>3. <<s, i>> \notin acks
        BY <3>2 DEF Confirming, ConfirmedAreMarked
      <3> QED
        BY <3>1, <3>3 DEF Outstanding
    <2>4. i \in Nat /\ s \in Nat
      <3>1. <<s, i>>[2] \in Nat
        BY <2>3, AskedAre DEF Outstanding
      <3> QED
        BY <2>1, <3>1
    <2>5. <<s, i>> = t \/ Before(t, <<s, i>>)
      BY <2>3
    <2> QED
      BY <2>3, <2>4, <2>5 DEF Before
  <1>8. PICK a \in 1..Len(list) : list[a] = t[1]
    BY <1>0, <1>2 DEF Range
  <1>9. a \in Awaiting(list, name)
    BY <1>2, <1>4, <1>6, <1>8 DEF Awaiting
  <1>10. PICK m : m = Len(w)
    OBVIOUS
  <1>11. /\ w \in Seq(1..nsubs) /\ m \in 1..Len(list)
         /\ \A i \in 1..m : w[i] = list[i]
         /\ Awaiting(w, name) # {}
         /\ m \in Awaiting(list, name) /\ m <= a
    BY <1>0, <1>1, <1>9, <1>10, UpToAwaitingIs
  <1>12. m \in Nat /\ m \in 1..m /\ w[m] = list[m]
    BY <1>2, <1>11
  <1>13. PICK c \in DOMAIN cbs[list[m]].channels : Awaits(list[m], c, name)
    BY <1>11 DEF Awaiting
  <1>14. list[m] <= t[1]
    <2>1. CASE m = a
      BY <1>2, <1>8, <2>1
    <2>2. CASE m < a
      <3>1. \A i, j \in DOMAIN list : i < j => list[i] <= list[j]
        BY <1>0 DEF ListsSorted
      <3> QED
        BY <1>2, <1>8, <1>11, <2>2, <3>1
    <2> QED
      BY <1>2, <1>11, <2>1, <2>2
  <1>15. list[m] \in Range(list)
    BY <1>3, <1>11
  <1>16. list[m] = t[1]
    <2>1. PICK s : s = list[m]
      OBVIOUS
    <2>2. s \in Nat /\ (s = t[1] \/ t[1] < s)
      BY <1>7, <1>13, <1>15, <2>1, Zenon
    <2>3. t[1] \in Nat
      BY <1>4
    <2> QED
      BY <1>14, <2>1, <2>2, <2>3
  <1>17. t[1] \in Touched(w)
    <2>1. t[1] \in Range(w)
      <3>1. m \in DOMAIN w
        BY <1>10, <1>11, <1>12
      <3> QED
        BY <1>12, <1>16, <3>1 DEF Range
    <2> QED
      BY <1>5, <2>1 DEF Touched
  <1>18. ASSUME NEW i \in DOMAIN cbs[t[1]].channels, Awaits(t[1], i, name) PROVE t[2] <= i
    <2>1. t[1] \in Range(list)
      BY <1>0
    <2>2. i \in Nat /\ ((t[1] = t[1] /\ i = t[2]) \/ t[1] < t[1] \/ (t[1] = t[1] /\ t[2] < i))
      BY <1>7, <1>18, <2>1
    <2> QED
      BY <1>4, <2>2
  <1> QED
    BY <1>0, <1>6, <1>10, <1>11, <1>12, <1>16, <1>17, <1>18

\* A confirmation is for the name that was asked for first, and marks it: or,
\* where flags set by malloc are in the way, marks none or a later one.
LEMMA ConfirmationMarks ==
    ASSUME Typed, NamesFiled, ListsCurrent, ListsSorted, ListsComplete, Confirming,
           NEW f, NEW g, Matching(f, g), on_read_subscribe, NEW t, t = f[1]
    PROVE  /\ t \in Outstanding /\ \A u \in Outstanding : u = t \/ Before(t, u)
           /\ acks' = acks \cup {t} /\ Asked' = Asked /\ Outstanding' = Outstanding \ {t}
           /\ \A u \in Asked : NameOf(u)' = NameOf(u) /\ cbs'[u[1]].variant = cbs[u[1]].variant
           /\ \A s \in 1..nsubs : SameShape(cbs[s], cbs'[s])
           /\ \A u \in Asked : IsMarked(u) => IsMarked(u)'
           /\ ~cbs[t[1]].fresh => IsMarked(t)'
           /\ \A u \in Asked : IsMarked(u)' /\ Undisturbed(u) => IsMarked(u) \/ u = t
           /\ ReadyWhenMarked' /\ FreshStays'
  <1>0. PICK r, p, name : r = Head(wire) /\ name = NameOf(t) /\ p = search(trees[r.variant], r.name)
    OBVIOUS
  <1>1. /\ t \in Outstanding /\ name = r.name /\ cbs[t[1]].variant = r.variant
        /\ \A u \in Outstanding : u = t \/ Before(t, u)
        /\ NextConfirmed = {t}
    BY <1>0, FirstOutstanding
  <1>2. r \in ReplyType /\ r.kind = "subscribe" /\ wire # <<>> /\ phase # "closed"
        /\ acks' = acks \cup {t}
    BY <1>0, <1>1, ConfirmationIs
  <1>3. r.variant \in Variants /\ NodeOf(trees[r.variant], r.name, p)
    BY <1>0, <1>2, ReplyFindsNode
  <1>4. t \in Asked /\ t \notin acks
    BY <1>1 DEF Outstanding
  <1>5. t[1] \in Range(cb_lists[r.variant][p])
    <2>1. PICK q : NodeOf(trees[r.variant], r.name, q) /\ t[1] \in Range(cb_lists[r.variant][q])
      BY <1>0, <1>1, <1>2, <1>4 DEF ListsComplete
    <2>2. IsTree(trees[r.variant])
      BY <1>3 DEF Typed, Files
    <2>3. q = p
      BY <1>0, <2>1, <2>2, SearchFindsNode
    <2> QED
      BY <2>1, <2>3
  <1>6. p \in DOMAIN trees[r.variant] /\ p \in DOMAIN cb_lists[r.variant]
    <2>1. [tree |-> trees[r.variant], lists |-> cb_lists[r.variant]] \in Files(nsubs)
          /\ nsubs \in Nat
      BY <1>3, SubscriptionsAssumption DEF Typed
    <2>2. cb_lists[r.variant] \in [DOMAIN trees[r.variant] -> Seq(1..nsubs) \ {<<>>}]
      BY <2>1, FilesAre
    <2> QED
      BY <1>3, <2>2 DEF NodeOf
  <1>7. PICK v, list, w, hit, last :
           /\ v = r.variant /\ list = cb_lists[v][p] /\ w = UpToAwaiting(list, name)
           /\ hit = (Awaiting(w, name) # {}) /\ last = w[Len(w)]
    OBVIOUS
  <1>8. ASSUME ~IsMarked(t), ~cbs[t[1]].fresh
        PROVE  /\ hit /\ last = t[1]
               /\ t[1] \in Touched(w) /\ Awaits(t[1], t[2], name)
               /\ \A i \in DOMAIN cbs[t[1]].channels : Awaits(t[1], i, name) => t[2] <= i
    <2>1. v \in Variants /\ p \in DOMAIN cb_lists[v] /\ t[1] \in Range(cb_lists[v][p])
          /\ w = UpToAwaiting(cb_lists[v][p], NameOf(t))
      BY <1>0, <1>3, <1>5, <1>6, <1>7
    <2>2. /\ Awaiting(w, NameOf(t)) # {} /\ w[Len(w)] = t[1]
          /\ t[1] \in Touched(w) /\ Awaits(t[1], t[2], NameOf(t))
          /\ \A i \in DOMAIN cbs[t[1]].channels : Awaits(t[1], i, NameOf(t)) => t[2] <= i
      BY <1>1, <1>8, <2>1, WalkFindsFirst
    <2> QED
      BY <1>0, <1>7, <2>2
  <1>9. /\ list \in Seq(1..nsubs) /\ list # <<>>
        /\ w \in Seq(1..nsubs) /\ ConfirmAll(w, hit, name)
        /\ UNCHANGED <<session, nsubs>>
    BY <1>0, <1>1, <1>6, <1>7, ConfirmationIs
  <1>10. hit \in BOOLEAN
    BY <1>7
  <1>11. DOMAIN cbs = 1..nsubs /\ \A s \in 1..nsubs : s \in Nat /\ \A i \in DOMAIN cbs[s].channels : i \in Nat
    <2>1. cbs \in [1..nsubs -> CallbackType]
      BY DEF Typed
    <2> SUFFICES ASSUME NEW s \in 1..nsubs, NEW i \in DOMAIN cbs[s].channels PROVE i \in Nat
      BY <2>1
    <2>2. cbs[s].channels \in Seq(ChannelType)
      BY <2>1 DEF CallbackType
    <2> QED
      BY <2>2
  <1>12. \A u \in Asked : /\ u = <<u[1], u[2]>> /\ u[1] \in 1..nsubs
                          /\ u[2] \in DOMAIN cbs[u[1]].channels /\ u[2] \in Nat
                          /\ cbs[u[1]].session = session
                          /\ ~cbs[u[1]].channels[u[2]].timer
    BY AskedAre
  <1>13. /\ cbs' \in [1..nsubs -> CallbackType]
         /\ \A s \in 1..nsubs : SameShape(cbs[s], cbs'[s])
         /\ \A s \in 1..nsubs \ Touched(w) : cbs'[s] = cbs[s]
         /\ \A s \in Touched(w) :
              /\ s \in 1..nsubs
              /\ \A i \in DOMAIN cbs[s].channels :
                   cbs'[s].channels[i].sub <=> Marked(s, hit /\ s = last, name, i)
              /\ cbs'[s].init <=> \A i \in DOMAIN cbs[s].channels :
                                    Marked(s, hit /\ s = last, name, i)
    <2> DEFINE H(s) == hit /\ s = w[Len(w)]
    <2>1. /\ cbs' \in [1..nsubs -> CallbackType]
          /\ \A s \in 1..nsubs : SameShape(cbs[s], cbs'[s])
          /\ \A s \in 1..nsubs \ Touched(w) : cbs'[s] = cbs[s]
          /\ \A s \in Touched(w) :
               /\ s \in 1..nsubs
               /\ \A i \in DOMAIN cbs[s].channels :
                    cbs'[s].channels[i].sub <=> Marked(s, H(s), name, i)
               /\ cbs'[s].init <=> \A i \in DOMAIN cbs[s].channels : Marked(s, H(s), name, i)
      BY <1>9, <1>10, ConfirmAllIs, Zenon
    <2>2. \A s, i : Marked(s, H(s), name, i) <=> Marked(s, hit /\ s = last, name, i)
      BY <1>7 DEF Marked
    <2> QED
      BY <2>1, <2>2, Zenon
  <1> DEFINE mine(s) == {j \in DOMAIN cbs[s].channels : (hit /\ s = last) /\ Awaits(s, j, name)}
  <1>14. \A s \in 1..nsubs : \A i \in DOMAIN cbs[s].channels :
            Marked(s, hit /\ s = last, name, i) <=>
              cbs[s].channels[i].sub \/ cbs[s].channels[i].timer
              \/ (mine(s) # {} /\ i = Min(mine(s)))
    BY DEF Marked
  <1>15. \A s \in Touched(w) : ~cbs[s].init /\ ~cbs[s].fresh
    BY <1>11, <1>13 DEF Touched, Confirming, FreshStays
  <1>16. \A s \in 1..nsubs : mine(s) # {} =>
            Min(mine(s)) \in mine(s) /\ \A y \in mine(s) : Min(mine(s)) <= y
    <2> SUFFICES ASSUME NEW s \in 1..nsubs, NEW M, M = mine(s), M # {}
                 PROVE  Min(M) \in M /\ \A y \in M : Min(M) <= y
      BY Zenon
    <2>1. M \in SUBSET Nat
      BY <1>11
    <2> QED
      BY <2>1, MinIs
  <1>17. /\ Asked' = Asked
         /\ \A u \in Asked : NameOf(u)' = NameOf(u) /\ cbs'[u[1]].variant = cbs[u[1]].variant
    BY <1>9, <1>11, <1>13, AskedKept
  <1>18. Outstanding' = Outstanding \ {t}
    BY <1>2, <1>17 DEF Outstanding
  <1>19. ASSUME NEW u \in Asked, u[1] \in Touched(w)
         PROVE  IsMarked(u)' <=> IsMarked(u) \/ (mine(u[1]) # {} /\ u[2] = Min(mine(u[1])))
    <2> HIDE DEF mine
    <2> QED
      BY <1>12, <1>13, <1>14, <1>19 DEF IsMarked
  <1>20. ASSUME NEW u \in Asked, u[1] \notin Touched(w) PROVE IsMarked(u)' <=> IsMarked(u)
    BY <1>12, <1>13, <1>20 DEF IsMarked
  <1>21. \A u \in Asked : IsMarked(u) => IsMarked(u)'
    BY <1>19, <1>20
  <1>22. ASSUME ~IsMarked(t), ~cbs[t[1]].fresh
         PROVE  /\ t[1] \in Touched(w) /\ t[1] = last
                /\ mine(t[1]) # {} /\ t[2] = Min(mine(t[1]))
    <2>1. t[2] \in mine(t[1]) /\ \A y \in mine(t[1]) : t[2] <= y
      BY <1>4, <1>8, <1>12, <1>22
    <2>2. PICK M : M = mine(t[1])
      OBVIOUS
    <2>3. Min(M) \in M /\ \A y \in M : Min(M) <= y
      BY <1>4, <1>12, <1>16, <2>1, <2>2
    <2>4. M \subseteq Nat
      BY <1>4, <1>11, <1>12, <2>2
    <2>5. t[2] \in M /\ \A y \in M : t[2] <= y
      BY <2>1, <2>2
    <2> HIDE DEF mine
    <2>6. t[2] = Min(M)
      <3>1. Min(M) \in Nat /\ t[2] \in Nat /\ Min(M) <= t[2] /\ t[2] <= Min(M)
        BY <2>3, <2>4, <2>5
      <3> QED
        BY <3>1
    <2> QED
      BY <1>8, <1>22, <2>2, <2>5, <2>6
  <1>23. ~cbs[t[1]].fresh => IsMarked(t)'
    BY <1>4, <1>19, <1>21, <1>22
  <1>24. ASSUME NEW u \in Asked, IsMarked(u)', ~IsMarked(u), Undisturbed(u), u # t
         PROVE  FALSE
    <2>1. u[1] \in Touched(w) /\ mine(u[1]) # {} /\ u[2] = Min(mine(u[1]))
      BY <1>19, <1>20, <1>24
    <2>2. /\ u[2] \in mine(u[1])
      BY <1>12, <1>16, <2>1
    <2>3. hit /\ u[1] = last /\ Awaits(u[1], u[2], name)
      BY <2>2
    <2>4. NameOf(u) = name /\ ~cbs[u[1]].fresh
      BY <1>15, <2>1, <2>3 DEF Awaits, NameOf
    <2>5. u \in Outstanding
      BY <1>24, <2>4 DEF Outstanding, Confirming, ConfirmedAreMarked
    <2>6. Before(t, u)
      BY <1>1, <1>24, <2>5
    <2>7. t[1] <= u[1] /\ t[1] \in Nat /\ u[1] \in Nat
      BY <1>4, <1>11, <1>12, <2>6 DEF Before
    <2>8. cbs[u[1]].variant = v
      <3>1. u[1] \in Range(list)
        <4>1. Range(w) \subseteq Range(list)
          BY <1>7, <1>9, WalkedIsListed
        <4> QED
          BY <2>1, <4>1 DEF Touched
      <3> QED
        BY <1>3, <1>6, <1>7, <3>1 DEF ListsCurrent
    <2>9. /\ cbs[u[1]].variant = cbs[t[1]].variant /\ cbs[u[1]].session = cbs[t[1]].session
      BY <1>1, <1>4, <1>7, <1>12, <2>8
    <2>10. \A s \in 1..t[1] : s \in 1..u[1]
      BY <2>7
    <2>11. Undisturbed(t)
      BY <1>0, <1>24, <2>4, <2>9, <2>10 DEF Undisturbed
    <2>12. ~IsMarked(t)
      BY <1>4, <2>11 DEF Confirming, MarkedAreConfirmed
    <2>13. ~cbs[t[1]].fresh
      <3>1. t[1] \in 1..t[1]
        BY <1>4, <1>11, <1>12
      <3>2. NameOf(t) \in NamesIn(t[1])
        <4>1. NameOf(t) = cbs[t[1]].channels[t[2]].name
          BY DEF NameOf
        <4> QED
          BY <1>4, <1>12, <4>1 DEF NamesIn
      <3> QED
        BY <2>11, <3>1, <3>2 DEF Undisturbed
    <2>14. u[1] = t[1] /\ u[2] = t[2]
      BY <1>22, <2>1, <2>3, <2>12, <2>13
    <2> QED
      BY <1>4, <1>12, <1>24, <2>14
  <1>25. ReadyWhenMarked'
    <2> SUFFICES ASSUME NEW s \in 1..nsubs, HasNames(s)', ~cbs'[s].fresh
                 PROVE  cbs'[s].init <=> \A i \in DOMAIN cbs'[s].channels :
                           ~cbs'[s].channels[i].timer => cbs'[s].channels[i].sub
      BY <1>13 DEF ReadyWhenMarked
    <2>1. /\ DOMAIN cbs'[s].channels = DOMAIN cbs[s].channels
          /\ \A i \in DOMAIN cbs[s].channels :
               cbs'[s].channels[i].timer <=> cbs[s].channels[i].timer
          /\ ~cbs[s].fresh
      BY <1>13 DEF SameShape
    <2>2. CASE s \in Touched(w)
      <3>1. /\ \A i \in DOMAIN cbs[s].channels :
                 cbs'[s].channels[i].sub <=> Marked(s, hit /\ s = last, name, i)
            /\ cbs'[s].init <=> \A i \in DOMAIN cbs[s].channels :
                                  Marked(s, hit /\ s = last, name, i)
        BY <1>13, <2>2
      <3>2. \A i \in DOMAIN cbs[s].channels :
               cbs[s].channels[i].timer => Marked(s, hit /\ s = last, name, i)
        BY <1>14
      <3> QED
        BY <2>1, <3>1, <3>2
    <2>3. CASE s \notin Touched(w)
      <3>1. cbs'[s] = cbs[s]
        BY <1>13, <2>3
      <3>2. HasNames(s)
        BY <2>1 DEF HasNames
      <3> QED
        BY <1>11, <2>1, <3>1, <3>2 DEF Confirming, ReadyWhenMarked
    <2> QED
      BY <2>2, <2>3
  <1>26. FreshStays'
    <2> SUFFICES ASSUME NEW s \in 1..nsubs, cbs'[s].fresh PROVE cbs'[s].init
      BY <1>13 DEF FreshStays
    <2>1. cbs[s].fresh
      BY <1>13 DEF SameShape
    <2>2. s \notin Touched(w)
      BY <1>15, <2>1
    <2> QED
      BY <1>11, <1>13, <2>1, <2>2 DEF Confirming, FreshStays
  <1> QED
    BY <1>1, <1>2, <1>13, <1>17, <1>18, <1>21, <1>23, <1>24, <1>25, <1>26

LEMMA UnderWayConfirmation ==
    ASSUME Typed, NamesFiled, ListsCurrent, ListsSorted, ListsComplete, Confirming,
           UnderWay, on_read_subscribe
    PROVE  UnderWay'
  <1>a. PICK f \in Seq(Nat \X Nat), g \in Seq(Nat) : Matching(f, g)
    BY DEF UnderWay
  <1>0. PICK t, f2, W : t = f[1] /\ f2 = Tail(f) /\ W = Len(wire)
    OBVIOUS
  <1>1. /\ t \in Outstanding /\ \A u \in Outstanding : u = t \/ Before(t, u)
        /\ Asked' = Asked /\ Outstanding' = Outstanding \ {t}
        /\ \A u \in Asked : NameOf(u)' = NameOf(u) /\ cbs'[u[1]].variant = cbs[u[1]].variant
    BY <1>0, <1>a, ConfirmationMarks
  <1>2. /\ W \in Nat /\ g \in Seq(Nat) /\ Len(g) = Len(requests)
        /\ f \in Seq(Nat \X Nat) /\ Len(f) = W
    BY <1>0, <1>a, MatchingLengths
  <1>3. /\ wire # <<>> /\ wire' = Tail(wire) /\ requests' = requests /\ nsubs' = nsubs
        /\ phase # "closed" /\ phase' = phase /\ Head(wire).kind = "subscribe"
    BY ConfirmationIs
  <1>4. wire \in Seq(ReplyType)
    BY DEF Typed
  <1>5. /\ W >= 1 /\ Len(wire') = W - 1 /\ Head(wire) = wire[1]
        /\ \A k \in 1..(W - 1) : wire'[k] = wire[k + 1]
    BY <1>0, <1>3, <1>4, HeadTailProperties, LenProperties, EmptySeq
  <1>6. /\ f2 \in Seq(Nat \X Nat) /\ Len(f2) = W - 1
        /\ \A k \in 1..(W - 1) : f2[k] = f[k + 1]
    <2>1. f # <<>>
      BY <1>2, <1>5, EmptySeq
    <2> QED
      BY <1>0, <1>2, <2>1, HeadTailProperties
  <1>7. IsAsk(wire[1]) /\ 1 \in 1..W
    BY <1>2, <1>3, <1>5 DEF IsAsk
  <1>8. \A k \in 1..W : k = 1 \/ (k - 1 \in 1..(W - 1) /\ (k - 1) + 1 = k)
    BY <1>2, <1>5
  <1>9. \A k \in 1..(W - 1) : k + 1 \in 1..W /\ 1 < k + 1
    BY <1>2, <1>5
  <1>10. \A j \in 1..W : IsAsk(wire[j]) =>
            /\ f[j] \in Outstanding /\ NameOf(f[j]) = wire[j].name
            /\ cbs[f[j][1]].variant = wire[j].variant
    BY <1>0, <1>a DEF Matching, WireMatches
  <1>11. /\ \A j, k \in 1..W : j < k /\ IsAsk(wire[j]) /\ IsAsk(wire[k]) => Before(f[j], f[k])
         /\ \A j, k \in 1..Len(requests) :
              j < k /\ IsAsk(requests[j]) /\ IsAsk(requests[k]) => g[j] < g[k]
         /\ \A j \in 1..W, k \in 1..Len(requests) :
              IsAsk(wire[j]) /\ IsAsk(requests[k]) => f[j][1] < g[k]
    BY <1>0, <1>a DEF Matching, InSequence
  <1>12. \A u \in Outstanding : u \in Asked /\ u[1] \in Nat /\ u[2] \in Nat
    BY AskedAre DEF Outstanding
  <1>13. ~Before(t, t)
    BY <1>1, <1>12 DEF Before
  <1>14. WireMatches(f2)'
    <2> SUFFICES ASSUME NEW j \in 1..(W - 1), IsAsk(wire'[j])
                 PROVE  /\ f2[j] \in Outstanding' /\ NameOf(f2[j])' = wire'[j].name
                        /\ cbs'[f2[j][1]].variant = wire'[j].variant
      BY <1>5, <1>6 DEF WireMatches, IsAsk
    <2>1. PICK u : u = f2[j]
      OBVIOUS
    <2>2. j + 1 \in 1..W /\ 1 < j + 1 /\ wire'[j] = wire[j + 1] /\ u = f[j + 1]
      BY <1>5, <1>6, <1>9, <2>1
    <2>3. /\ u \in Outstanding /\ NameOf(u) = wire'[j].name
          /\ cbs[u[1]].variant = wire'[j].variant
      BY <1>10, <2>2
    <2>4. Before(t, u)
      BY <1>0, <1>7, <1>11, <2>2
    <2>5. u # t
      BY <1>13, <2>4
    <2>6. NameOf(u)' = NameOf(u) /\ cbs'[u[1]].variant = cbs[u[1]].variant
      BY <1>1, <1>12, <2>3
    <2>7. NameOf(f2[j])' = NameOf(u)'
      BY <2>1 DEF NameOf
    <2> QED
      BY <1>1, <2>1, <2>3, <2>5, <2>6, <2>7
  <1>15. \A k \in 1..Len(requests) : IsAsk(requests[k]) => t[1] < g[k]
    BY <1>0, <1>7, <1>11
  <1>16. RequestsMatch(g)'
    <2> SUFFICES ASSUME NEW k \in 1..Len(requests), NEW a, a = requests[k], IsAsk(a)
                 PROVE  RequestOf(g[k], a)'
      BY <1>2, <1>3, RequestsMatchNext
    <2>1. PICK s : s = g[k]
      OBVIOUS
    <2>2. RequestOf(s, a)
      BY <1>a, <2>1 DEF Matching, RequestsMatch
    <2>3. t[1] < s /\ t[1] \in Nat
      BY <1>1, <1>12, <1>15, <2>1
    <2>4. s \in 1..nsubs' /\ \A i : <<s, i>> \in Asked' <=> i \in 1..Len(a.names)
      BY <1>1, <1>3, <2>2 DEF RequestOf
    <2>5. \A i \in 1..Len(a.names) :
             /\ <<s, i>> \in Asked
             /\ <<s, i>> \in Outstanding' /\ NameOf(<<s, i>>)' = a.names[i]
      <3> SUFFICES ASSUME NEW i \in 1..Len(a.names)
                   PROVE  /\ <<s, i>> \in Asked
                          /\ <<s, i>> \in Outstanding' /\ NameOf(<<s, i>>)' = a.names[i]
        OBVIOUS
      <3>1. <<s, i>> \in Outstanding /\ NameOf(<<s, i>>) = a.names[i]
        BY <2>2 DEF RequestOf
      <3>2. <<s, i>> # t
        <4>1. <<s, i>>[1] = s
          OBVIOUS
        <4>2. s \in Nat
          BY <1>1, <1>12, <3>1
        <4> QED
          BY <2>3, <4>1, <4>2
      <3>3. NameOf(<<s, i>>)' = NameOf(<<s, i>>)
        BY <1>1, <1>12, <3>1
      <3> HIDE DEF NameOf
      <3> QED
        BY <1>1, <1>12, <3>1, <3>2, <3>3
    <2>6. cbs'[s].variant = a.variant
      <3>1. cbs[s].variant = a.variant
        BY <2>2 DEF RequestOf
      <3>2. \A x \in 1..nsubs : SameShape(cbs[x], cbs'[x])
        <4>1. [Next]_vars
          BY DEF Next, OnRead
        <4>2. ~ \E v \in Variants, req \in Requests : lua_client_subscribe(v, req)
          <5>1. nsubs \in Nat
            BY SubscriptionsAssumption DEF Typed
          <5>2. nsubs' # nsubs + 1
            BY <1>3, <5>1
          <5> QED
            BY <5>2 DEF lua_client_subscribe
        <4> QED
          BY <4>1, <4>2, ShapesKept
      <3> QED
        BY <2>2, <3>1, <3>2 DEF SameShape, RequestOf
    <2>7. RequestOf(s, a)'
      BY <2>4, <2>5, <2>6 DEF RequestOf
    <2> QED
      BY <2>1, <2>7
  <1>17. InSequence(f2, g)'
    <2>1. ASSUME NEW j \in 1..(W - 1), NEW k \in 1..(W - 1), j < k,
                 IsAsk(wire'[j]), IsAsk(wire'[k])
          PROVE  Before(f2[j], f2[k])
      <3>1. j + 1 < k + 1
        BY <1>2, <2>1
      <3>2. j + 1 \in 1..W /\ k + 1 \in 1..W /\ IsAsk(wire[j + 1]) /\ IsAsk(wire[k + 1])
            /\ f2[j] = f[j + 1] /\ f2[k] = f[k + 1]
        BY <1>5, <1>6, <1>9, <2>1
      <3> QED
        BY <1>11, <3>1, <3>2
    <2>2. ASSUME NEW j \in 1..(W - 1), NEW k \in 1..Len(requests),
                 IsAsk(wire'[j]), IsAsk(requests[k])
          PROVE  f2[j][1] < g[k]
      <3>1. j + 1 \in 1..W /\ IsAsk(wire[j + 1]) /\ f2[j] = f[j + 1]
        BY <1>5, <1>6, <1>9, <2>2
      <3> QED
        BY <1>11, <2>2, <3>1
    <2> QED
      BY <1>3, <1>5, <1>11, <2>1, <2>2 DEF InSequence, Before, IsAsk
  <1>18. AllSent(f2, g)'
    <2> SUFFICES ASSUME NEW u \in Outstanding, u # t
                 PROVE  \/ \E j \in 1..(W - 1) : IsAsk(wire'[j]) /\ f2[j] = u
                        \/ \E k \in 1..Len(requests) : IsAsk(requests[k]) /\ g[k] = u[1]
      BY <1>1, <1>3, <1>5 DEF AllSent, IsAsk
    <2>1. \/ \E j \in 1..W : IsAsk(wire[j]) /\ f[j] = u
          \/ \E k \in 1..Len(requests) : IsAsk(requests[k]) /\ g[k] = u[1]
      BY <1>0, <1>3, <1>a DEF Matching, AllSent
    <2>2. ASSUME NEW j \in 1..W, IsAsk(wire[j]), f[j] = u
          PROVE  \E k \in 1..(W - 1) : IsAsk(wire'[k]) /\ f2[k] = u
      <3>1. j # 1
        BY <1>0, <2>2
      <3>2. j - 1 \in 1..(W - 1) /\ (j - 1) + 1 = j
        BY <1>8, <3>1
      <3>3. wire'[j - 1] = wire[j] /\ f2[j - 1] = f[j]
        BY <1>5, <1>6, <3>2
      <3> QED
        BY <2>2, <3>2, <3>3
    <2> QED
      BY <2>1, <2>2
  <1>19. Matching(f2, g)'
    BY <1>3, <1>14, <1>16, <1>17, <1>18 DEF Matching
  <1> QED
    BY <1>2, <1>6, <1>19 DEF UnderWay

\* The end of a session, and the beginning of the next one.
LEMMA UnderWaySessions ==
    ASSUME Typed, SessionsPast, UnderWay, on_disconnect \/ lua_client_connect
    PROVE  UnderWay'
  <1> DEFINE none == <<>>
  <1>1. none \in Seq(Nat \X Nat) /\ none \in Seq(Nat) /\ Len(none) = 0 /\ 1..0 = {}
    BY EmptySeq
  <1>2. wire' = none /\ requests' = none
    <2>1. CASE on_disconnect
      BY <2>1 DEF on_disconnect
    <2>2. CASE lua_client_connect
      BY <2>2 DEF UnderWay, Matching, lua_client_connect
    <2> QED
      BY <2>1, <2>2
  <1>3. phase' = "closed" \/ Outstanding' = {}
    <2>1. CASE on_disconnect
      BY <2>1 DEF on_disconnect
    <2>2. CASE lua_client_connect
      BY <2>2, NothingAsked DEF lua_client_connect
    <2> QED
      BY <2>1, <2>2
  <1> HIDE DEF none
  <1>4. WireMatches(none)' /\ RequestsMatch(none)' /\ InSequence(none, none)'
    BY <1>1, <1>2 DEF WireMatches, RequestsMatch, InSequence
  <1>5. phase' # "closed" => AllSent(none, none)'
    BY <1>3 DEF AllSent
  <1>6. Matching(none, none)'
    BY <1>2, <1>4, <1>5 DEF Matching, none
  <1> QED
    BY <1>1, <1>6 DEF UnderWay

\* The inductive invariant of ReadyWhenConfirmed.
InOrder ==
    /\ Typed /\ NamesFiled /\ SessionsPast
    /\ ListsCurrent /\ ListsSorted /\ ListsComplete
    /\ Confirming /\ UnderWay

LEMMA UnderWayNext == InOrder /\ [Next]_vars => UnderWay'
  <1> SUFFICES ASSUME InOrder, [Next]_vars PROVE UnderWay'
    OBVIOUS
  <1>0. /\ Typed /\ NamesFiled /\ SessionsPast /\ ListsCurrent /\ ListsSorted /\ ListsComplete
        /\ Confirming /\ UnderWay
    BY DEF InOrder
  <1>a. PICK f \in Seq(Nat \X Nat), g \in Seq(Nat) : Matching(f, g)
    BY <1>0 DEF UnderWay
  <1>1. ASSUME NEW v \in Variants, NEW req \in Requests, lua_client_subscribe(v, req)
        PROVE  UnderWay'
    <2>1. PICK s : s = nsubs + 1
      OBVIOUS
    <2>2. Matching(f, Append(g, s))'
      BY <1>0, <1>a, <1>1, <2>1, MatchingSubscribe DEF Confirming, ConfirmedInOrder
    <2>3. s \in Nat
      BY <1>0, <2>1, SubscriptionsAssumption DEF Typed
    <2>4. Append(g, s) \in Seq(Nat)
      BY <2>3
    <2> QED
      BY <2>2, <2>4 DEF UnderWay
  <1>2. ASSUME NEW v \in Variants, NEW name \in Names, unsubscribe(v, name) PROVE UnderWay'
    BY <1>0, <1>2, UnderWayUnsubscribe
  <1>3. ASSUME NEW v \in Variants, NEW name \in Names, ServerPublishes(v, name) PROVE UnderWay'
    BY <1>0, <1>3, UnderWayPublishes
  <1>4. CASE ServerServes
    BY <1>0, <1>4, UnderWayServes
  <1>5. CASE on_read_ignored \/ on_read_message
    BY <1>0, <1>5, UnderWayRead
  <1>6. CASE on_read_subscribe
    BY <1>0, <1>6, UnderWayConfirmation
  <1>7. CASE on_disconnect \/ lua_client_connect
    BY <1>0, <1>7, UnderWaySessions
  <1>8. CASE lua_client_disconnect \/ Walk \/ (\E t \in running : on_timer(t)) \/ UNCHANGED vars
    <2>1. /\ UNCHANGED <<cbs, session, nsubs, acks, wire, requests>>
          /\ phase' = "closed" <=> phase = "closed"
      <3>1. CASE lua_client_disconnect
        BY <3>1 DEF lua_client_disconnect
      <3>2. CASE Walk
        BY <3>2 DEF Walk, walk_next, walk_end
      <3>3. CASE \E t \in running : on_timer(t)
        BY <3>3 DEF on_timer
      <3>4. CASE UNCHANGED vars
        BY <3>4 DEF vars
      <3> QED
        BY <1>8, <3>1, <3>2, <3>3, <3>4
    <2>2. Matching(f, g)'
      BY <1>0, <1>a, <2>1, MatchingKept
    <2> QED
      BY <2>2 DEF UnderWay
  <1> QED
    BY <1>1, <1>2, <1>3, <1>4, <1>5, <1>6, <1>7, <1>8 DEF Next, Application, OnRead

\* None of the names of a new callback is marked.
LEMMA ConfirmingSubscribe ==
    ASSUME Typed, Confirming,
           NEW v \in Variants, NEW req \in Requests, lua_client_subscribe(v, req)
    PROVE  Confirming'
  <1>0. PICK s, names, new : /\ s = nsubs + 1 /\ names = NamesOf(req)
                             /\ new = {s} \X (1..Len(names))
    OBVIOUS
  <1>1. /\ nsubs \in Nat /\ cbs' \in [1..s -> CallbackType]
        /\ \A t \in 1..nsubs : cbs'[t] = cbs[t]
        /\ cbs'[s].init = cbs'[s].fresh
    BY <1>0, SubscribeIs
  <1>2. DOMAIN cbs = 1..nsubs /\ \A t \in 1..s : t \in 1..nsubs \/ t = s
    BY <1>0, <1>1 DEF Typed
  <1>3. /\ ReadyWhenMarked /\ FreshStays
        /\ ConfirmedAreMarked /\ MarkedAreConfirmed
        /\ acks \subseteq Asked /\ \A t \in Outstanding, u \in acks : Before(u, t)
        /\ acks' = acks
    BY DEF Confirming, ConfirmedInOrder, lua_client_subscribe
  <1>4. /\ Asked' = Asked \cup new /\ Outstanding' = Outstanding \cup new
        /\ \A t \in Asked : /\ t[1] \in 1..nsubs /\ cbs'[t[1]] = cbs[t[1]]
                            /\ NameOf(t)' = NameOf(t)
    BY <1>0, <1>3, AskedSubscribe
  <1>5. \A i \in DOMAIN cbs'[s].channels : ~cbs'[s].channels[i].sub
    <2>1. PICK n, ks : n = Len(names) /\ ks = TimersOf(req)
      OBVIOUS
    <2>2. \A i \in DOMAIN cbs'[s].channels :
             cbs'[s].channels[i] =
                  IF i <= n
                    THEN [timer |-> FALSE, name |-> names[i], ikey |-> 0, sub |-> FALSE]
                    ELSE [timer |-> TRUE, name |-> <<>>, ikey |-> ks[i - n], sub |-> FALSE]
      BY <1>0, <2>1, SubscribeIs
    <2> SUFFICES ASSUME NEW i \in DOMAIN cbs'[s].channels PROVE ~cbs'[s].channels[i].sub
      OBVIOUS
    <2>3. CASE i <= n
      <3>1. cbs'[s].channels[i] = [timer |-> FALSE, name |-> names[i], ikey |-> 0, sub |-> FALSE]
        BY <2>2, <2>3
      <3> QED
        BY <3>1
    <2>4. CASE ~(i <= n)
      <3>1. cbs'[s].channels[i] = [timer |-> TRUE, name |-> <<>>, ikey |-> ks[i - n], sub |-> FALSE]
        BY <2>2, <2>4
      <3> QED
        BY <3>1
    <2> QED
      BY <2>3, <2>4
  <1>6. ReadyWhenMarked'
    <2> SUFFICES ASSUME NEW t \in 1..s, HasNames(t)', ~cbs'[t].fresh
                 PROVE  cbs'[t].init <=> \A i \in DOMAIN cbs'[t].channels :
                           ~cbs'[t].channels[i].timer => cbs'[t].channels[i].sub
      BY <1>1 DEF ReadyWhenMarked
    <2>1. CASE t \in 1..nsubs
      BY <1>1, <1>2, <1>3, <2>1 DEF ReadyWhenMarked, HasNames
    <2>2. CASE t = s
      <3>1. PICK i \in DOMAIN cbs'[s].channels : ~cbs'[s].channels[i].timer
        BY <2>2 DEF HasNames
      <3> QED
        BY <1>1, <1>5, <2>2, <3>1
    <2> QED
      BY <1>2, <2>1, <2>2
  <1>7. FreshStays'
    <2> SUFFICES ASSUME NEW t \in 1..s, cbs'[t].fresh PROVE cbs'[t].init
      BY <1>1 DEF FreshStays
    <2> QED
      BY <1>1, <1>2, <1>3 DEF FreshStays
  <1>8. \A x \in new : x[1] = s
    BY <1>0
  <1>9. \A t \in Asked : t[1] \in Nat /\ t[1] < s /\ IsMarked(t)' = IsMarked(t)
    BY <1>0, <1>1, <1>4 DEF IsMarked
  <1>10. ConfirmedAreMarked'
    BY <1>3, <1>4, <1>9 DEF ConfirmedAreMarked
  <1>11. MarkedAreConfirmed'
    <2> SUFFICES ASSUME NEW t \in Asked', IsMarked(t)', Undisturbed(t)' PROVE t \in acks
      BY <1>3 DEF MarkedAreConfirmed
    <2>1. t \in Asked
      <3>1. ASSUME t \in new PROVE FALSE
        <4>1. t[2] \in DOMAIN cbs'[s].channels
          <5>1. t[2] \in 1..Len(names)
            BY <1>0, <3>1
          <5>2. DOMAIN cbs'[s].channels = 1..(Len(names) + Len(TimersOf(req)))
            BY <1>0, SubscribeIs
          <5>3. Len(names) \in Nat /\ Len(TimersOf(req)) \in Nat
            BY <1>0, RequestTypes
          <5> QED
            BY <5>1, <5>2, <5>3
        <4> QED
          BY <1>5, <1>8, <3>1, <4>1 DEF IsMarked
      <3> QED
        BY <1>4, <3>1
    <2>2. \A x \in 1..t[1] : x \in 1..nsubs
      BY <1>1, <1>4, <2>1
    <2>3. \A x \in 1..nsubs : cbs'[x] = cbs[x] /\ NamesIn(x)' = NamesIn(x)
      BY <1>1 DEF NamesIn
    <2>4. Undisturbed(t)
      BY <1>4, <2>1, <2>2, <2>3 DEF Undisturbed
    <2> QED
      BY <1>3, <1>9, <2>1, <2>4 DEF MarkedAreConfirmed
  <1>12. ConfirmedInOrder'
    <2>1. ASSUME NEW t \in Outstanding', NEW u \in acks PROVE Before(u, t)
      <3>1. CASE t \in Outstanding
        BY <1>3, <3>1
      <3>2. CASE t \in new
        BY <1>3, <1>8, <1>9, <3>2 DEF Before
      <3> QED
        BY <1>4, <3>1, <3>2
    <2> QED
      BY <1>3, <1>4, <2>1 DEF ConfirmedInOrder, Before
  <1> QED
    BY <1>6, <1>7, <1>10, <1>11, <1>12 DEF Confirming

LEMMA ConfirmingConfirmation ==
    ASSUME Typed, NamesFiled, ListsCurrent, ListsSorted, ListsComplete, Confirming, UnderWay,
           on_read_subscribe
    PROVE  Confirming'
  <1>1. PICK f \in Seq(Nat \X Nat), g \in Seq(Nat) : Matching(f, g)
    BY DEF UnderWay
  <1>2. PICK t : t = f[1]
    OBVIOUS
  <1>3. /\ t \in Outstanding /\ \A u \in Outstanding : u = t \/ Before(t, u)
        /\ acks' = acks \cup {t} /\ Asked' = Asked /\ Outstanding' = Outstanding \ {t}
        /\ \A u \in Asked : NameOf(u)' = NameOf(u) /\ cbs'[u[1]].variant = cbs[u[1]].variant
        /\ \A s \in 1..nsubs : SameShape(cbs[s], cbs'[s])
        /\ \A u \in Asked : IsMarked(u) => IsMarked(u)'
        /\ ~cbs[t[1]].fresh => IsMarked(t)'
        /\ \A u \in Asked : IsMarked(u)' /\ Undisturbed(u) => IsMarked(u) \/ u = t
        /\ ReadyWhenMarked' /\ FreshStays'
    BY <1>1, <1>2, ConfirmationMarks
  <1>4. /\ ConfirmedAreMarked /\ MarkedAreConfirmed
        /\ acks \subseteq Asked /\ \A x \in Outstanding, u \in acks : Before(u, x)
    BY DEF Confirming, ConfirmedInOrder
  <1>5. \A u \in Asked : u[1] \in 1..nsubs
    BY AskedAre
  <1>6. ConfirmedAreMarked'
    <2> SUFFICES ASSUME NEW u \in acks \cup {t}, ~cbs'[u[1]].fresh PROVE IsMarked(u)'
      BY <1>3 DEF ConfirmedAreMarked
    <2>1. u \in Asked
      BY <1>3, <1>4 DEF Outstanding
    <2>2. ~cbs[u[1]].fresh
      BY <1>3, <1>5, <2>1 DEF SameShape
    <2> QED
      BY <1>3, <1>4, <2>1, <2>2 DEF ConfirmedAreMarked
  <1>7. MarkedAreConfirmed'
    <2> SUFFICES ASSUME NEW u \in Asked, IsMarked(u)', Undisturbed(u)' PROVE u \in acks \cup {t}
      BY <1>3 DEF MarkedAreConfirmed
    <2>1. \A s \in 1..nsubs : /\ cbs'[s].fresh = cbs[s].fresh /\ cbs'[s].session = cbs[s].session
                              /\ cbs'[s].variant = cbs[s].variant /\ NamesIn(s)' = NamesIn(s)
      <3> SUFFICES ASSUME NEW s \in 1..nsubs, SameShape(cbs[s], cbs'[s])
                   PROVE  /\ cbs'[s].fresh = cbs[s].fresh /\ cbs'[s].session = cbs[s].session
                          /\ cbs'[s].variant = cbs[s].variant /\ NamesIn(s)' = NamesIn(s)
        BY <1>3
      <3> QED
        BY DEF SameShape, NamesIn
    <2>2. \A s \in 1..u[1] : s \in 1..nsubs
      BY <1>5, SubscriptionsAssumption DEF Typed
    <2>3. Undisturbed(u)
      BY <1>3, <1>5, <2>1, <2>2 DEF Undisturbed
    <2> QED
      BY <1>3, <1>4, <2>3 DEF MarkedAreConfirmed
  <1>8. ConfirmedInOrder'
    BY <1>3, <1>4 DEF ConfirmedInOrder, Before, Outstanding
  <1> QED
    BY <1>3, <1>6, <1>7, <1>8 DEF Confirming

LEMMA ConfirmingNext ==
    ASSUME InOrder, [Next]_vars
    PROVE  Confirming'
  <1>0. /\ Typed /\ NamesFiled /\ SessionsPast /\ ListsCurrent /\ ListsSorted /\ ListsComplete
        /\ Confirming /\ UnderWay
    BY DEF InOrder
  <1>1. CASE \E v \in Variants, req \in Requests : lua_client_subscribe(v, req)
    BY <1>0, <1>1, ConfirmingSubscribe
  <1>2. CASE on_read_subscribe
    BY <1>0, <1>2, ConfirmingConfirmation
  <1>3. CASE /\ ~ \E v \in Variants, req \in Requests : lua_client_subscribe(v, req)
             /\ ~ on_read_subscribe
    <2>1. nsubs' = nsubs /\ cbs' = cbs
      BY <1>0, <1>3, ShapesKept
    <2>2. ReadyWhenMarked' /\ FreshStays'
      BY <1>0, <2>1 DEF Confirming, ReadyWhenMarked, FreshStays, HasNames
    <2>3. \A t : Undisturbed(t)' <=> Undisturbed(t)
      BY <2>1 DEF Undisturbed, NamesIn, NameOf
    <2>4. CASE session' = session /\ acks' = acks
      <3>1. Asked' = Asked /\ Outstanding' = Outstanding
        BY <2>1, <2>4, SameCallbacks
      <3>2. ConfirmedAreMarked'
        BY <1>0, <2>1, <2>4 DEF Confirming, ConfirmedAreMarked, IsMarked
      <3>3. MarkedAreConfirmed'
        BY <1>0, <2>1, <2>3, <2>4, <3>1 DEF Confirming, MarkedAreConfirmed, IsMarked
      <3>4. ConfirmedInOrder'
        BY <1>0, <2>4, <3>1 DEF Confirming, ConfirmedInOrder, Before
      <3> QED
        BY <2>2, <3>2, <3>3, <3>4 DEF Confirming
    <2>5. CASE lua_client_connect
      <3>1. session' = session + 1 /\ acks' = {}
        BY <2>5 DEF lua_client_connect
      <3>2. Asked' = {} /\ Outstanding' = {}
        BY <1>0, <2>1, <3>1, NothingAsked
      <3> QED
        BY <2>2, <3>1, <3>2
           DEF Confirming, ConfirmedAreMarked, MarkedAreConfirmed, ConfirmedInOrder
    <2>6. (session' = session /\ acks' = acks) \/ lua_client_connect
      <3>1. \/ phase' = phase /\ session' = session /\ acks' = acks
            \/ phase' = phase /\ session' = session /\ on_read_subscribe
            \/ phase = "connected" /\ phase' = "closing" /\ session' = session /\ lua_client_disconnect
            \/ phase = "closing" /\ phase' = "closed" /\ session' = session /\ on_disconnect
            \/ phase = "closed" /\ phase' = "connected" /\ session' = session + 1 /\ lua_client_connect
        BY <1>0, <1>3, PhasesAre
      <3> QED
        BY <1>3, <3>1 DEF lua_client_disconnect, on_disconnect
    <2> QED
      BY <2>4, <2>5, <2>6
  <1> QED
    BY <1>1, <1>2, <1>3

LEMMA InOrderInit == Init => InOrder
  <1> SUFFICES ASSUME Init PROVE InOrder
    OBVIOUS
  <1>1. Typed /\ NamesFiled /\ ListsCurrent
    BY OwnedInit DEF Owned
  <1>2. DOMAIN cbs = {} /\ Channels = {} /\ Asked = {} /\ Outstanding = {}
    <2>1. DOMAIN cbs = {} /\ Channels = {}
      BY DEF Init, Channels
    <2> QED
      BY <2>1 DEF Asked, Outstanding
  <1>3. SessionsPast /\ ListsComplete
    BY <1>2 DEF SessionsPast, ListsComplete
  <1>4. ListsSorted
    BY DEF Init, ListsSorted, NoTree
  <1>5. Confirming
    <2>1. acks = {}
      BY DEF Init
    <2> QED
      BY <1>2, <2>1 DEF Confirming, ReadyWhenMarked, FreshStays, ConfirmedAreMarked,
                        MarkedAreConfirmed, ConfirmedInOrder
  <1>6. UnderWay
    <2> DEFINE none == <<>>
    <2>1. none \in Seq(Nat \X Nat) /\ none \in Seq(Nat) /\ Len(none) = 0 /\ 1..0 = {}
      BY EmptySeq
    <2>2. wire = none /\ requests = none /\ phase = "connected"
      BY DEF Init
    <2> HIDE DEF none
    <2>3. WireMatches(none) /\ RequestsMatch(none) /\ InSequence(none, none)
      BY <2>1, <2>2 DEF WireMatches, RequestsMatch, InSequence
    <2>4. AllSent(none, none)
      BY <1>2 DEF AllSent
    <2>5. Matching(none, none)
      BY <2>2, <2>3, <2>4 DEF Matching
    <2> QED
      BY <2>1, <2>5 DEF UnderWay
  <1> QED
    BY <1>1, <1>3, <1>4, <1>5, <1>6 DEF InOrder

LEMMA InOrderInductive ==
    ASSUME InOrder, [Next]_vars
    PROVE  InOrder'
  <1>0. /\ Typed /\ NamesFiled /\ SessionsPast /\ ListsCurrent /\ ListsSorted /\ ListsComplete
    BY DEF InOrder
  <1>1. Typed'
    BY <1>0, TypedNext
  <1>2. NamesFiled'
    BY <1>0, NamesFiledNext
  <1>3. SessionsPast'
    BY <1>0, SessionsPastNext
  <1>4. ListsCurrent'
    BY <1>0, ListsCurrentNext
  <1>5. ListsSorted'
    BY <1>0, ListsSortedNext
  <1>6. ListsComplete'
    BY <1>0, ListsCompleteNext
  <1>7. Confirming'
    BY ConfirmingNext
  <1>8. UnderWay'
    BY UnderWayNext
  <1> QED
    BY <1>1, <1>2, <1>3, <1>4, <1>5, <1>6, <1>7, <1>8 DEF InOrder

\* Whatever malloc leaves in the flags: a callback that subscribed to names is
\* INITIALIZED when the server has confirmed all of them, whichever names
\* several callbacks share, because each confirmation goes to the name that was
\* asked for first of those that wait; and it is not INITIALIZED before, unless
\* it or an earlier callback with a name in common was created so.
THEOREM SubscriptionsReadyWhenConfirmed == Spec => []ReadyWhenConfirmed
  <1>1. InOrder => ReadyWhenConfirmed
    BY ReadyIs DEF InOrder
  <1>2. InOrder /\ [Next]_vars => InOrder'
    BY InOrderInductive
  <1> QED
    BY <1>1, <1>2, InOrderInit, PTL DEF Spec

-----------------------------------------------------------------------------
(* Events are delivered: the lists hold the callbacks of a name, each once. *)

\* No request lists a name twice.
DistinctNames == \A req \in Requests : IsInjective(NamesOf(req))

\* The node of a name holds the name when no name is a prefix of another one.
LEMMA KeyOfNode ==
    ASSUME PrefixFree(Names), NEW tree, tree \in [DOMAIN tree -> Names],
           NEW key \in Names, NEW p, NodeOf(tree, key, p)
    PROVE  tree[p] = key
  BY NamesType, NodeHoldsKey

\* Every list is left as it was, or the callback is added to it once, under
\* a name of the request.
LEMMA FiledExact ==
    ASSUME PrefixFree(Names), NEW m \in Nat, NEW s \in 1..m, NEW variant,
           NEW names \in NameLists, \A i, j \in 1..Len(names) : names[i] = names[j] => i = j,
           [tree |-> trees[variant], lists |-> cb_lists[variant]] \in Files(m)
    PROVE  LET filed == Filed(variant, names, s) IN
           \A q \in DOMAIN filed.lists :
              \/ q \in DOMAIN cb_lists[variant] /\ filed.lists[q] = cb_lists[variant][q]
              \/ /\ filed.lists[q] = Append(ListAt(cb_lists[variant], q), s)
                 /\ \E i \in 1..Len(names) : filed.tree[q] = names[i]
  <1> DEFINE L == Len(names)
  <1>1. L \in Nat /\ DOMAIN names = 1..L
    BY DEF NameLists
  <1>2. PICK f \in [0..L -> Files(m)] :
             /\ f[0] = [tree |-> trees[variant], lists |-> cb_lists[variant]]
             /\ \A n \in 1..L : f[n] = FileUnder(f[n - 1], names[n], s)
             /\ f[L] = Filed(variant, names, s)
    BY FiledTurns, SMTT(30)
  <1>3. \A i \in 1..L : names[i] \in Names
    BY DEF NameLists
  <1>4. \A i, j \in 1..L : names[i] = names[j] => i = j
    OBVIOUS
  <1> HIDE DEF L
  <1> DEFINE Kept(n) == DOMAIN f[0].tree \subseteq DOMAIN f[n].tree
             Once(n) == \A q \in DOMAIN f[n].lists :
                           \/ q \in DOMAIN f[0].lists /\ f[n].lists[q] = f[0].lists[q]
                           \/ /\ f[n].lists[q] = Append(ListAt(f[0].lists, q), s)
                              /\ \E i \in 1..n : f[n].tree[q] = names[i]
             Good == {n \in Nat : n <= L => Kept(n) /\ Once(n)}
  <1>5. 0 \in Good
    OBVIOUS
  <1>6. ASSUME NEW n \in Nat, n \in Good, n + 1 <= L PROVE n + 1 \in Good
    <2>1. n + 1 \in 1..L /\ (n + 1) - 1 = n /\ n \in 0..L /\ n <= L /\ n + 1 \in 0..L /\ 0 \in 0..L
      BY <1>1, <1>6
    <2>2. Kept(n) /\ Once(n)
      BY <2>1, <1>6
    <2>0. PICK a, b, key, leaf, z : /\ a = f[n] /\ b = f[n + 1] /\ key = names[n + 1]
                                    /\ leaf = InsertLeaf(a.tree, key) /\ z = f[0]
      OBVIOUS
    <2>3. key \in Names /\ a \in Files(m) /\ b \in Files(m) /\ z \in Files(m)
      BY <2>0, <2>1, <1>2, <1>3
    <2>4. b = FileUnder(a, key, s)
      BY <1>2, <2>0, <2>1
    <2>5. /\ DOMAIN b.lists = DOMAIN b.tree
          /\ DOMAIN a.lists = DOMAIN a.tree
          /\ NodeOf(b.tree, key, leaf)
          /\ DOMAIN b.tree = DOMAIN a.tree \cup {leaf}
          /\ \A q \in DOMAIN a.tree : b.tree[q] = a.tree[q]
          /\ \A q \in DOMAIN b.lists :
               b.lists[q] = IF q = leaf THEN Append(ListAt(a.lists, q), s) ELSE ListAt(a.lists, q)
      BY <2>0, <2>3, <2>4, FileUnderIs
    <2>6. /\ DOMAIN z.tree \subseteq DOMAIN a.tree /\ DOMAIN z.lists = DOMAIN z.tree
          /\ \A q \in DOMAIN a.lists :
               \/ q \in DOMAIN z.lists /\ a.lists[q] = z.lists[q]
               \/ /\ a.lists[q] = Append(ListAt(z.lists, q), s)
                  /\ \E i \in 1..n : a.tree[q] = names[i]
      BY <2>0, <2>2, <2>3 DEF Files
    <2>7. b.tree[leaf] = key
      <3>1. b = [tree |-> b.tree, lists |-> b.lists]
        BY <2>3 DEF Files
      <3>2. b.tree \in [DOMAIN b.tree -> Names]
        BY <2>3, <3>1, FilesAre
      <3> QED
        BY <2>3, <2>5, <3>2, KeyOfNode
    <2>8. \A i \in 1..n : i \in 1..(n + 1) /\ i \in 1..L /\ i # n + 1
      BY <1>1, <2>1
    <2>9. n + 1 \in 1..(n + 1)
      OBVIOUS
    <2>10. ASSUME NEW q \in DOMAIN b.lists
           PROVE  \/ q \in DOMAIN z.lists /\ b.lists[q] = z.lists[q]
                  \/ /\ b.lists[q] = Append(ListAt(z.lists, q), s)
                     /\ \E i \in 1..(n + 1) : b.tree[q] = names[i]
      <3>1. CASE q # leaf
        <4>1. q \in DOMAIN a.lists /\ b.lists[q] = a.lists[q] /\ b.tree[q] = a.tree[q]
          BY <2>5, <2>10, <3>1 DEF ListAt
        <4> QED
          BY <2>6, <2>8, <4>1
      <3>2. CASE q = leaf /\ leaf \notin DOMAIN a.lists
        <4>1. ListAt(a.lists, q) = <<>> /\ ListAt(z.lists, q) = <<>>
          BY <2>5, <2>6, <3>2 DEF ListAt
        <4>2. b.lists[q] = Append(ListAt(a.lists, q), s)
          BY <2>5, <2>10, <3>2
        <4>3. b.lists[q] = Append(ListAt(z.lists, q), s)
          BY <4>1, <4>2
        <4>4. b.tree[q] = names[n + 1]
          BY <2>0, <2>7, <3>2
        <4> QED
          BY <2>9, <4>3, <4>4
      <3>3. CASE q = leaf /\ leaf \in DOMAIN a.lists
        <4>1. a.tree[q] = names[n + 1]
          BY <2>0, <2>5, <2>7, <3>3
        <4>2. ~ \E i \in 1..n : a.tree[q] = names[i]
          BY <1>4, <2>1, <2>8, <4>1
        <4>3. q \in DOMAIN z.lists /\ a.lists[q] = z.lists[q]
          BY <2>6, <3>3, <4>2
        <4>4. b.lists[q] = Append(ListAt(z.lists, q), s)
          BY <2>5, <2>10, <3>3, <4>3 DEF ListAt
        <4> QED
          BY <2>0, <2>7, <2>9, <3>3, <4>4
      <3> QED
        BY <3>1, <3>2, <3>3
    <2>11. Kept(n + 1)
      BY <2>0, <2>5, <2>6
    <2>12. Once(n + 1)
      BY <2>0, <2>10
    <2> HIDE DEF Kept, Once
    <2> QED
      BY <2>11, <2>12
  <1>7. Nat \subseteq Good
    <2>1. ASSUME NEW n \in Nat, n \in Good PROVE n + 1 \in Good
      <3>1. CASE n + 1 <= L
        BY <2>1, <3>1, <1>6
      <3>2. CASE ~(n + 1 <= L)
        BY <3>2
      <3> QED
        BY <3>1, <3>2
    <2> HIDE DEF Good
    <2> QED
      BY <1>5, <2>1, SetInduction
  <1>8. Once(L)
    <2>1. L \in Good /\ L <= L
      BY <1>1, <1>7
    <2> HIDE DEF Kept, Once
    <2> QED
      BY <2>1
  <1>9. f[0].tree = trees[variant] /\ f[0].lists = cb_lists[variant]
    BY <1>2
  <1> HIDE DEF Good
  <1> QED
    BY <1>2, <1>8, <1>9 DEF L

LEMMA NamesApart ==
    ASSUME DistinctNames, NEW req \in Requests, NEW names, names = NamesOf(req)
    PROVE  \A i, j \in 1..Len(names) : names[i] = names[j] => i = j
  <1>1. IsInjective(names)
    BY DEF DistinctNames
  <1>2. DOMAIN names = 1..Len(names)
    BY RequestTypes
  <1> QED
    BY <1>1, <1>2 DEF IsInjective

\* subscribe() adds the callback once to the lists of its names, and changes
\* no other list.
LEMMA SubscribedExact ==
    ASSUME Typed, DistinctNames, PrefixFree(Names), NEW v \in Variants, NEW req \in Requests,
           lua_client_subscribe(v, req)
    PROVE  \A w \in Variants : \A p \in DOMAIN cb_lists'[w] :
              \/ p \in DOMAIN cb_lists[w] /\ cb_lists'[w][p] = cb_lists[w][p]
              \/ /\ w = v /\ cb_lists'[w][p] = Append(ListAt(cb_lists[w], p), nsubs + 1)
                 /\ \E i \in 1..Len(NamesOf(req)) : trees'[w][p] = NamesOf(req)[i]
  <1>0. PICK s, names, filed : s = nsubs + 1 /\ names = NamesOf(req) /\ filed = Filed(v, names, s)
    OBVIOUS
  <1>1. /\ names \in NameLists /\ s \in 1..s
        /\ DOMAIN trees = Variants /\ DOMAIN cb_lists = Variants
        /\ [tree |-> trees[v], lists |-> cb_lists[v]] \in Files(s)
        /\ trees' = [trees EXCEPT ![v] = filed.tree]
        /\ cb_lists' = [cb_lists EXCEPT ![v] = filed.lists]
    BY <1>0, SubscribeFiles
  <1>2. s \in Nat
    BY <1>0, SubscribeIs
  <1>3. \A i, j \in 1..Len(names) : names[i] = names[j] => i = j
    BY <1>0, NamesApart
  <1>4. \A q \in DOMAIN filed.lists :
              \/ q \in DOMAIN cb_lists[v] /\ filed.lists[q] = cb_lists[v][q]
              \/ /\ filed.lists[q] = Append(ListAt(cb_lists[v], q), s)
                 /\ \E i \in 1..Len(names) : filed.tree[q] = names[i]
    BY <1>0, <1>1, <1>2, <1>3, FiledExact
  <1>5. /\ trees'[v] = filed.tree /\ cb_lists'[v] = filed.lists
        /\ \A w \in Variants : w # v => trees'[w] = trees[w] /\ cb_lists'[w] = cb_lists[w]
    BY <1>1
  <1>6. ASSUME NEW w \in Variants, NEW p \in DOMAIN cb_lists'[w]
        PROVE \/ p \in DOMAIN cb_lists[w] /\ cb_lists'[w][p] = cb_lists[w][p]
              \/ /\ w = v /\ cb_lists'[w][p] = Append(ListAt(cb_lists[w], p), s)
                 /\ \E i \in 1..Len(names) : trees'[w][p] = names[i]
    <2>1. CASE w = v
      <3>1. p \in DOMAIN filed.lists
        BY <1>5, <1>6, <2>1
      <3> QED
        BY <1>4, <1>5, <2>1, <3>1
    <2>2. CASE w # v
      BY <1>5, <1>6, <2>2
    <2> QED
      BY <2>1, <2>2
  <1> QED
    BY <1>0, <1>6

\* The list is strictly increasing: each callback is there once.
Increasing(w) == \A i, j \in DOMAIN w : i < j => w[i] < w[j]

\* The lists are in the order of the subscribe() calls, hold each callback
\* once, and hold it only under a name it asked for.
ListsExact ==
    \A v \in Variants : \A p \in DOMAIN cb_lists[v] :
        /\ Increasing(cb_lists[v][p])
        /\ \A s \in Range(cb_lists[v][p]) : \E i \in DOMAIN cbs[s].channels :
             ~cbs[s].channels[i].timer /\ cbs[s].channels[i].name = trees[v][p]

LEMMA IncreasingAppend ==
    ASSUME NEW n \in Nat, NEW w \in Seq(1..n), Increasing(w)
    PROVE  Increasing(Append(w, n + 1))
  <1> DEFINE u == Append(w, n + 1)
  <1>1. Len(w) \in Nat /\ DOMAIN w = 1..Len(w) /\ DOMAIN u = 1..(Len(w) + 1)
        /\ u[Len(w) + 1] = n + 1 /\ \A i \in 1..Len(w) : u[i] = w[i] /\ w[i] \in 1..n
    <2>1. \A i \in 1..Len(w) : w[i] \in 1..n
      BY ElementOfSeq
    <2> QED
      BY <2>1
  <1> HIDE DEF u
  <1> SUFFICES ASSUME NEW i \in DOMAIN u, NEW j \in DOMAIN u, i < j PROVE u[i] < u[j]
    BY DEF Increasing, u
  <1>2. i \in 1..Len(w) /\ (j \in 1..Len(w) \/ j = Len(w) + 1)
    BY <1>1
  <1>3. CASE j \in 1..Len(w)
    BY <1>1, <1>2, <1>3 DEF Increasing
  <1>4. CASE j = Len(w) + 1
    BY <1>1, <1>2, <1>4
  <1> QED
    BY <1>2, <1>3, <1>4

LEMMA ListsExactSubscribe ==
    ASSUME Typed, DistinctNames, PrefixFree(Names), ListsExact,
           NEW v \in Variants, NEW req \in Requests, lua_client_subscribe(v, req)
    PROVE  ListsExact'
  <1>0. PICK s, names, ks : s = nsubs + 1 /\ names = NamesOf(req) /\ ks = TimersOf(req)
    OBVIOUS
  <1>1. \A w \in Variants : \A p \in DOMAIN cb_lists'[w] :
              \/ p \in DOMAIN cb_lists[w] /\ cb_lists'[w][p] = cb_lists[w][p]
              \/ /\ w = v /\ cb_lists'[w][p] = Append(ListAt(cb_lists[w], p), s)
                 /\ \E i \in 1..Len(names) : trees'[w][p] = names[i]
    BY <1>0, SubscribedExact
  <1>2. /\ \A w \in Variants : \A p \in DOMAIN cb_lists'[w] : ListAt(cb_lists[w], p) \in Seq(1..nsubs)
        /\ \A w \in Variants : \A q \in DOMAIN trees[w] : trees'[w][q] = trees[w][q]
    <2>1. \A w \in Variants : \A p \in DOMAIN cb_lists'[w] : ListAt(cb_lists[w], p) \in Seq(1..nsubs)
      BY SubscribedLists
    <2>2. \A w \in Variants : \A q \in DOMAIN trees[w] : trees'[w][q] = trees[w][q]
      BY SubscribedLists
    <2> QED
      BY <2>1, <2>2
  <1>3. /\ nsubs \in Nat
        /\ \A t \in 1..nsubs : cbs'[t] = cbs[t]
        /\ DOMAIN cbs'[s].channels = 1..(Len(names) + Len(ks))
        /\ \A i \in 1..(Len(names) + Len(ks)) :
             cbs'[s].channels[i] =
               IF i <= Len(names)
                 THEN [timer |-> FALSE, name |-> names[i], ikey |-> 0, sub |-> FALSE]
                 ELSE [timer |-> TRUE, name |-> <<>>, ikey |-> ks[i - Len(names)], sub |-> FALSE]
    BY <1>0, SubscribeIs
  <1>4. \A w \in Variants : DOMAIN cb_lists[w] = DOMAIN trees[w]
    BY TypedDomains
  <1>5. \A w \in Variants : \A p \in DOMAIN cb_lists[w] :
           /\ Increasing(cb_lists[w][p])
           /\ Range(cb_lists[w][p]) \subseteq 1..nsubs
           /\ trees'[w][p] = trees[w][p]
           /\ \A t \in Range(cb_lists[w][p]) : \E i \in DOMAIN cbs'[t].channels :
                ~cbs'[t].channels[i].timer /\ cbs'[t].channels[i].name = trees'[w][p]
    <2> SUFFICES ASSUME NEW w \in Variants, NEW p \in DOMAIN cb_lists[w]
                 PROVE  /\ Increasing(cb_lists[w][p])
                        /\ Range(cb_lists[w][p]) \subseteq 1..nsubs
                        /\ trees'[w][p] = trees[w][p]
                        /\ \A t \in Range(cb_lists[w][p]) : \E i \in DOMAIN cbs'[t].channels :
                             ~cbs'[t].channels[i].timer /\ cbs'[t].channels[i].name = trees'[w][p]
      OBVIOUS
    <2>1. Range(cb_lists[w][p]) \subseteq 1..nsubs
      BY ListElements
    <2>2. trees'[w][p] = trees[w][p]
      BY <1>2, <1>4
    <2> QED
      BY <1>3, <2>1, <2>2 DEF ListsExact
  <1>6. ASSUME NEW i \in 1..Len(names)
        PROVE  /\ i \in DOMAIN cbs'[s].channels /\ ~cbs'[s].channels[i].timer
               /\ cbs'[s].channels[i].name = names[i]
    <2>1. Len(names) \in Nat /\ Len(ks) \in Nat
      BY <1>0, RequestTypes
    <2>2. i \in 1..(Len(names) + Len(ks)) /\ i <= Len(names)
      BY <2>1
    <2>3. cbs'[s].channels[i] = [timer |-> FALSE, name |-> names[i], ikey |-> 0, sub |-> FALSE]
      BY <1>3, <2>2
    <2> QED
      BY <1>3, <2>2, <2>3
  <1> SUFFICES ASSUME NEW w \in Variants, NEW p \in DOMAIN cb_lists'[w]
               PROVE  /\ Increasing(cb_lists'[w][p])
                      /\ \A t \in Range(cb_lists'[w][p]) : \E i \in DOMAIN cbs'[t].channels :
                           ~cbs'[t].channels[i].timer /\ cbs'[t].channels[i].name = trees'[w][p]
    BY DEF ListsExact, Increasing
  <1>7. CASE p \in DOMAIN cb_lists[w] /\ cb_lists'[w][p] = cb_lists[w][p]
    <2> HIDE DEF Increasing
    <2> QED
      BY <1>5, <1>7
  <1>8. CASE /\ cb_lists'[w][p] = Append(ListAt(cb_lists[w], p), s)
             /\ \E i \in 1..Len(names) : trees'[w][p] = names[i]
    <2>1. PICK old : old = ListAt(cb_lists[w], p)
      OBVIOUS
    <2>2. old \in Seq(1..nsubs)
      BY <1>2, <2>1
    <2>3. \/ p \in DOMAIN cb_lists[w] /\ old = cb_lists[w][p]
          \/ old = <<>>
      BY <2>1 DEF ListAt
    <2>4. Increasing(old)
      <3>1. Increasing(<<>>)
        BY DEF Increasing
      <3> HIDE DEF Increasing
      <3> QED
        BY <1>5, <2>3, <3>1
    <2>5. Increasing(cb_lists'[w][p])
      BY <1>0, <1>3, <1>8, <2>1, <2>2, <2>4, IncreasingAppend
    <2>6. Range(cb_lists'[w][p]) = Range(old) \cup {s}
      BY <1>8, <2>1, <2>2, RangeOfAppend
    <2>7. \A t \in Range(old) : \E i \in DOMAIN cbs'[t].channels :
             ~cbs'[t].channels[i].timer /\ cbs'[t].channels[i].name = trees'[w][p]
      <3>1. Range(<<>>) = {}
        BY DEF Range
      <3> QED
        BY <1>5, <2>3, <3>1, SMTT(30)
    <2>8. \E i \in DOMAIN cbs'[s].channels :
             ~cbs'[s].channels[i].timer /\ cbs'[s].channels[i].name = trees'[w][p]
      BY <1>6, <1>8
    <2> QED
      BY <2>5, <2>6, <2>7, <2>8
  <1> QED
    BY <1>1, <1>7, <1>8

LEMMA ListsExactNext ==
    ASSUME DistinctNames, PrefixFree(Names), Typed, ListsExact, [Next]_vars
    PROVE  ListsExact'
  <1>1. CASE \E v \in Variants, req \in Requests : lua_client_subscribe(v, req)
    BY <1>1, ListsExactSubscribe
  <1>2. CASE on_disconnect
    <2>1. \A v \in Variants : DOMAIN cb_lists'[v] = {}
      BY <1>2 DEF on_disconnect, NoTree
    <2> QED
      BY <2>1 DEF ListsExact
  <1>3. CASE /\ ~ \E v \in Variants, req \in Requests : lua_client_subscribe(v, req)
             /\ ~ on_disconnect
    <2>1. /\ trees' = trees /\ cb_lists' = cb_lists
          /\ \A s \in 1..nsubs : SameShape(cbs[s], cbs'[s])
      BY <1>3, ShapesKept
    <2> SUFFICES ASSUME NEW v \in Variants, NEW p \in DOMAIN cb_lists[v]
                 PROVE  /\ Increasing(cb_lists[v][p])
                        /\ \A s \in Range(cb_lists[v][p]) : \E i \in DOMAIN cbs'[s].channels :
                             ~cbs'[s].channels[i].timer /\ cbs'[s].channels[i].name = trees[v][p]
      BY <2>1 DEF ListsExact, Increasing
    <2>2. Range(cb_lists[v][p]) \subseteq 1..nsubs
      BY ListElements
    <2> QED
      BY <2>1, <2>2 DEF ListsExact, SameShape
  <1> QED
    BY <1>1, <1>2, <1>3

\* A timer runs only for a callback that subscribed to names as well: its
\* timers are started when one of them is confirmed.
TimersNamed == \A t \in running : HasNames(t[1])

LEMMA HasNamesKept ==
    ASSUME NEW s, SameShape(cbs[s], cbs'[s]), HasNames(s)
    PROVE  HasNames(s)'
  BY DEF HasNames, SameShape

LEMMA TimersNamedNext ==
    ASSUME Typed, ListsExact, TimersNamed, [Next]_vars
    PROVE  TimersNamed'
  <1>0. \A t \in running : t[1] \in 1..nsubs
    <2>1. running \subseteq Channels /\ DOMAIN cbs = 1..nsubs
      BY DEF Typed
    <2> QED
      BY <2>1, ChannelsAre
  <1>1. ASSUME NEW v \in Variants, NEW req \in Requests, lua_client_subscribe(v, req)
        PROVE  TimersNamed'
    <2>1. \A t \in 1..nsubs : cbs'[t] = cbs[t]
      BY <1>1, SubscribeIs
    <2>2. running' = running
      BY <1>1 DEF lua_client_subscribe
    <2> QED
      BY <1>0, <2>1, <2>2 DEF TimersNamed, HasNames
  <1>2. CASE ~ \E v \in Variants, req \in Requests : lua_client_subscribe(v, req)
    <2>1. \A s \in 1..nsubs : SameShape(cbs[s], cbs'[s])
      BY <1>2, ShapesKept
    <2>2. \A s \in 1..nsubs : HasNames(s) => HasNames(s)'
      BY <2>1, HasNamesKept
    <2>3. CASE running' \subseteq running
      BY <1>0, <2>2, <2>3 DEF TimersNamed
    <2>4. CASE on_read_subscribe
      <3>0. PICK r, p : r = Head(wire) /\ p = search(trees[r.variant], r.name)
        OBVIOUS
      <3>a. PICK list : list = cb_lists[r.variant][p]
        OBVIOUS
      <3>b. PICK w : w = UpToAwaiting(list, r.name)
        OBVIOUS
      <3>1. \/ running' = running
            \/ /\ p \in DOMAIN trees[r.variant]
               /\ list \in Seq(1..nsubs) /\ list # <<>>
               /\ w \in Seq(1..nsubs)
               /\ StartTimers(TimersStarted(w))
        BY <2>4, <3>0, <3>a, <3>b, ConfirmationIs
      <3>2. CASE running' = running
        BY <2>3, <3>2
      <3>3. CASE /\ p \in DOMAIN trees[r.variant]
                 /\ list \in Seq(1..nsubs) /\ list # <<>>
                 /\ w \in Seq(1..nsubs)
                 /\ StartTimers(TimersStarted(w))
        <4>1. TimersStarted(w) \subseteq Channels
              /\ \A t \in TimersStarted(w) : t[1] \in Touched(w)
          BY <3>3, TimersStartedAre
        <4>2. running' = running \cup TimersStarted(w)
          BY <3>3, <4>1, StartTimersIs
        <4>3. Range(w) \subseteq Range(list)
          BY <3>3, <3>b, WalkedIsListed
        <4>4. r.variant \in Variants
          BY <2>4, <3>0, ConfirmationIs DEF ReplyType
        <4>5. p \in DOMAIN cb_lists[r.variant]
          BY <3>3, <4>4, TypedDomains
        <4>6. \A s \in Range(list) : HasNames(s) /\ s \in 1..nsubs
          <5>1. Range(list) \subseteq 1..nsubs
            BY <3>a, <4>4, <4>5, ListElements
          <5> QED
            BY <3>a, <4>4, <4>5, <5>1 DEF ListsExact, HasNames
        <4>7. \A t \in TimersStarted(w) : HasNames(t[1]) /\ t[1] \in 1..nsubs
          BY <4>1, <4>3, <4>6 DEF Touched
        <4> QED
          BY <1>0, <2>2, <4>2, <4>7 DEF TimersNamed
      <3> QED
        BY <3>1, <3>2, <3>3
    <2>5. running' \subseteq running \/ on_read_subscribe
      <3>1. CASE Application
        BY <1>2, <3>1 DEF Application, unsubscribe, lua_client_disconnect, lua_client_connect
      <3>2. CASE ServerServes \/ \E v \in Variants, name \in Names : ServerPublishes(v, name)
        BY <3>2 DEF ServerServes, ServerPublishes
      <3>3. CASE OnRead
        BY <3>3 DEF OnRead, on_read_ignored, on_read_message
      <3>4. CASE \E t \in running : on_timer(t)
        BY <3>4 DEF on_timer
      <3>5. CASE Walk \/ UNCHANGED vars
        BY <3>5 DEF Walk, walk_next, walk_end, vars
      <3>6. CASE on_disconnect
        BY <3>6 DEF on_disconnect
      <3> QED
        BY <3>1, <3>2, <3>3, <3>4, <3>5, <3>6 DEF Next
    <2> QED
      BY <2>3, <2>4, <2>5
  <1> QED
    BY <1>1, <1>2

\* The messages on the wire are of names that were subscribed to.
MessagesNamed == \A r \in Range(wire) : r.kind = "message" => r.name \in Names

LEMMA MessagesNamedNext ==
    ASSUME Typed, MessagesNamed, [Next]_vars
    PROVE  MessagesNamed'
  <1>0. wire \in Seq(ReplyType)
    BY DEF Typed
  <1>1. CASE ServerServes
    <2>0. PICK r : r = Head(requests)
      OBVIOUS
    <2>1. r \in RequestType /\ wire' = wire \o Answers(r)
      BY <1>1, <2>0, ServesIs
    <2>2. Answers(r) \in Seq(ReplyType) /\ \A i \in DOMAIN Answers(r) : Answers(r)[i].kind # "message"
      BY <2>1, AnswersAre
    <2>3. Range(wire') = Range(wire) \cup Range(Answers(r))
      BY <1>0, <2>1, <2>2, RangeOfConcat
    <2>4. \A a \in Range(Answers(r)) : a.kind # "message"
      BY <2>2 DEF Range
    <2> QED
      BY <2>3, <2>4 DEF MessagesNamed
  <1>2. ASSUME NEW v \in Variants, NEW name \in Names, ServerPublishes(v, name)
        PROVE  MessagesNamed'
    <2> DEFINE r == [kind |-> "message", variant |-> v, name |-> name]
    <2>1. wire' = Append(wire, r)
      BY <1>2 DEF ServerPublishes
    <2>2. r \in ReplyType /\ r.name = name
      BY DEF ReplyType
    <2> HIDE DEF r
    <2>3. Range(wire') = Range(wire) \cup {r}
      BY <1>0, <2>1, <2>2, RangeOfAppend
    <2> QED
      BY <2>2, <2>3 DEF MessagesNamed
  <1>3. CASE OnRead
    <2>1. wire # <<>> /\ wire' = Tail(wire)
      BY <1>3 DEF OnRead, on_read_subscribe, on_read_ignored, on_read_message, Reads
    <2>2. Range(wire') \subseteq Range(wire)
      BY <1>0, <2>1, RangeOfTail
    <2> QED
      BY <2>2 DEF MessagesNamed
  <1>4. CASE on_disconnect
    <2>1. wire' = <<>>
      BY <1>4 DEF on_disconnect
    <2> QED
      BY <2>1 DEF MessagesNamed, Range
  <1>5. CASE Application \/ Walk \/ (\E t \in running : on_timer(t)) \/ UNCHANGED vars
    <2>1. wire' = wire
      BY <1>5 DEF Application, lua_client_subscribe, unsubscribe, lua_client_disconnect,
                  lua_client_connect, Walk, walk_next, walk_end, vars, on_timer
    <2> QED
      BY <2>1 DEF MessagesNamed
  <1> QED
    BY <1>1, <1>2, <1>3, <1>4, <1>5 DEF Next

\* How often a log has event e.
Event(e) == [kind |-> "event", event |-> e]
Given(l, e) == Cardinality({i \in DOMAIN l : l[i] = Event(e)})

LEMMA GivenOfAppend ==
    ASSUME NEW R, NEW l \in Seq(R), NEW x, NEW e
    PROVE  /\ Given(l, e) \in Nat
           /\ Given(Append(l, x), e) = IF x = Event(e) THEN Given(l, e) + 1 ELSE Given(l, e)
  <1> DEFINE M(w) == {i \in DOMAIN w : w[i] = Event(e)}
             u == Append(l, x)
  <1>1. Len(l) \in Nat /\ DOMAIN l = 1..Len(l) /\ DOMAIN u = 1..(Len(l) + 1)
        /\ u[Len(l) + 1] = x /\ \A i \in 1..Len(l) : u[i] = l[i]
    OBVIOUS
  <1>2. IsFiniteSet(M(l))
    <2>1. IsFiniteSet(1..Len(l)) /\ M(l) \in SUBSET (1..Len(l))
      BY <1>1, FS_Interval
    <2> QED
      BY <2>1, FS_Subset
  <1>3. Given(l, e) = Cardinality(M(l)) /\ Given(u, e) = Cardinality(M(u))
    BY DEF Given
  <1>4. Cardinality(M(l)) \in Nat
    BY <1>2, FS_CardinalityType
  <1> HIDE DEF u
  <1>5. CASE x = Event(e)
    <2>1. M(u) = M(l) \cup {Len(l) + 1} /\ Len(l) + 1 \notin M(l)
      BY <1>1, <1>5
    <2> HIDE DEF M
    <2>2. Cardinality(M(u)) = Cardinality(M(l)) + 1
      BY <1>2, <2>1, FS_AddElement
    <2> QED
      BY <1>3, <1>4, <1>5, <2>2 DEF u
  <1>6. CASE x # Event(e)
    <2>1. M(u) = M(l)
      BY <1>1, <1>6
    <2> HIDE DEF M
    <2> QED
      BY <1>3, <1>4, <1>6, <2>1 DEF u
  <1> QED
    BY <1>5, <1>6

LEMMA NoneGiven ==
    ASSUME NEW R, NEW l \in Seq(R), NEW e, Given(l, e) = 0
    PROVE  {i \in DOMAIN l : l[i] = Event(e)} = {}
  <1> DEFINE M == {i \in DOMAIN l : l[i] = Event(e)}
  <1>1. DOMAIN l = 1..Len(l) /\ Len(l) \in Nat
    OBVIOUS
  <1>2. IsFiniteSet(M)
    <2>1. IsFiniteSet(1..Len(l)) /\ M \in SUBSET (1..Len(l))
      BY <1>1, FS_Interval
    <2> QED
      BY <2>1, FS_Subset
  <1>3. Cardinality(M) = 0
    BY DEF Given
  <1> HIDE DEF M
  <1>4. M = {}
    BY <1>2, <1>3, FS_EmptySet
  <1> QED
    BY <1>4 DEF M

\* A callback stays clear: no step changes what it was created with.
LEMMA ClearKept ==
    ASSUME Typed, NEW s \in 1..nsubs, \A t \in 1..nsubs : SameShape(cbs[t], cbs'[t])
    PROVE  Clear(s)' <=> Clear(s)
  <1>1. nsubs \in Nat /\ s \in Nat /\ \A t \in 1..s : t \in 1..nsubs
    BY SubscriptionsAssumption DEF Typed
  <1>2. ASSUME NEW t \in 1..nsubs
        PROVE  /\ cbs'[t].fresh = cbs[t].fresh /\ cbs'[t].session = cbs[t].session
               /\ cbs'[t].variant = cbs[t].variant /\ NamesIn(t)' = NamesIn(t)
    <2>1. SameShape(cbs[t], cbs'[t])
      OBVIOUS
    <2> QED
      BY <2>1 DEF SameShape, NamesIn
  <1> QED
    BY <1>1, <1>2 DEF Clear

\* The callbacks an event is for are in the list and INITIALIZED; the others
\* in the list are not, unless flags set by malloc are in the way.
Picks(list, these) ==
    /\ \A s \in these : s \in Range(list) /\ cbs[s].init
    /\ \A s \in Range(list) : cbs[s].init /\ Clear(s) => s \in these

\* Whom a list is for does not change while the callbacks do not.
LEMMA PicksStays ==
    ASSUME NEW list, NEW these, cbs' = cbs, Picks(list, these)
    PROVE  Picks(list, these)'
  <1>1. \A s : Clear(s)' <=> Clear(s)
    BY DEF Clear, NamesIn
  <1> HIDE DEF Clear
  <1> QED
    BY <1>1 DEF Picks

\* The walk of a message or a tick: the list is there, it holds each callback
\* once, and among them those the event is for.
Walking ==
    handler.at # "idle" =>
        /\ phase # "closed"
        /\ handler.event = nevents /\ nevents >= 1
        /\ handler.interval # 0 => handler.interval \in DOMAIN timers
        /\ handler.interval = 0 =>
             handler.variant \in Variants /\ handler.node \in DOMAIN cb_lists[handler.variant]
        /\ Increasing(Walked)
        /\ handler.i <= Len(Walked)
        /\ Picks(Walked, due[nevents])

\* Callback s was to be given event e before now.
GivenBy(s, e) ==
    /\ e <= nevents /\ s \in due[e]
    /\ handler.at # "idle" /\ e = nevents => \E j \in 1..handler.i : Walked[j] = s

\* The callbacks that were not, unless flags set by malloc are in the way.
NotGivenBy(s, e) ==
    ~GivenBy(s, e) /\ (e > nevents \/ s \in due[e] \/ s \notin 1..nsubs \/ Clear(s))

Counted ==
    \A e \in Events, s \in Subs :
        /\ GivenBy(s, e) => Given(log[s], e) = 1
        /\ NotGivenBy(s, e) => Given(log[s], e) = 0

\* The list that is walked holds callbacks.
LEMMA WalkedType ==
    ASSUME Typed, Walking, handler.at # "idle"
    PROVE  Walked \in Seq(1..nsubs) /\ Range(Walked) \subseteq 1..nsubs
  <1>1. CASE handler.interval # 0
    <2>1. timers[handler.interval] \in TimerType
      BY <1>1 DEF Typed, Walking
    <2>2. Walked = timers[handler.interval].list
      BY <1>1 DEF Walked
    <2> QED
      BY <2>1, <2>2, RangeOfSeq DEF TimerType
  <1>2. CASE handler.interval = 0
    <2>1. Walked = cb_lists[handler.variant][handler.node]
      BY <1>2 DEF Walked
    <2> QED
      BY <1>2, <2>1, ListElements DEF Walking
  <1> QED
    BY <1>1, <1>2

\* What the walk begins with, for a list and the callbacks it is for.
Begins(list, these, e) ==
    /\ phase' # "closed"
    /\ nevents' = e /\ e \in Nat \ {0} /\ handler'.event = e /\ handler'.i = 0
    /\ handler'.at = "walk" /\ Walked' = list
    /\ handler'.interval # 0 => handler'.interval \in DOMAIN timers'
    /\ handler'.interval = 0 =>
         handler'.variant \in Variants /\ handler'.node \in DOMAIN cb_lists'[handler'.variant]
    /\ Increasing(list)
    /\ due' = [due EXCEPT ![e] = these]
    /\ Picks(list, these)

LEMMA MessageBegins ==
    ASSUME InOrder, ListsExact, MessagesNamed, PrefixFree(Names), ReadyWhenConfirmed,
           on_read_message
    PROVE  \E list, these : list \in Seq(1..nsubs) /\ Begins(list, these, nevents + 1)
  <1>0. Typed /\ NamesFiled /\ ListsCurrent /\ ListsComplete
    BY DEF InOrder
  <1>1. PICK r, e : r = Head(wire) /\ e = nevents + 1
    OBVIOUS
  <1>2. PICK v, p : v = r.variant /\ p = search(trees[v], r.name)
    OBVIOUS
  <1>3. wire # <<>> /\ r.kind = "message" /\ phase # "closed"
    BY <1>1 DEF on_read_message, Reads
  <1>4. v \in Variants /\ NodeOf(trees[v], r.name, p)
    BY <1>0, <1>1, <1>2, <1>3, ReplyFindsNode
  <1>5. DOMAIN cb_lists[v] = DOMAIN trees[v] /\ p \in DOMAIN trees[v]
    BY <1>0, <1>4, TypedDomains DEF NodeOf
  <1>6. PICK list : list = cb_lists[v][p]
    OBVIOUS
  <1>7. PICK these : these = {s \in DOMAIN cbs : /\ cbs[s].session = session /\ cbs[s].variant = r.variant
                             /\ Acked(s)
                             /\ \E i \in DOMAIN cbs[s].channels :
                                  ~cbs[s].channels[i].timer /\ cbs[s].channels[i].name = r.name}
    OBVIOUS
  <1>8. list \in Seq(1..nsubs) /\ Range(list) \subseteq 1..nsubs
    BY <1>0, <1>4, <1>5, <1>6, ListElements
  <1>9. nevents \in Nat /\ DOMAIN cbs = 1..nsubs
    BY <1>0, SubscriptionsAssumption DEF Typed
  <1>10. /\ UNCHANGED <<phase, cb_lists, timers>> /\ nevents' = e
         /\ due' = [due EXCEPT ![e] = these]
         /\ handler' = [Idle EXCEPT !.at = "walk", !.variant = v, !.node = p, !.event = e]
    BY <1>1, <1>2, <1>5, <1>7 DEF on_read_message, Reads
  <1>11. /\ handler'.at = "walk" /\ handler'.variant = v /\ handler'.node = p
         /\ handler'.event = e /\ handler'.interval = 0 /\ handler'.i = 0
    BY <1>10 DEF Idle
  <1>12. Walked' = list
    BY <1>6, <1>10, <1>11 DEF Walked
  <1>13. r.name \in Names /\ trees[v][p] = r.name
    <2>1. r \in Range(wire)
      BY <1>0, <1>1, <1>3, RangeOfTail DEF Typed
    <2>2. r.name \in Names
      BY <1>3, <2>1 DEF MessagesNamed
    <2>3. trees[v] \in [DOMAIN trees[v] -> Names]
      <3>1. [tree |-> trees[v], lists |-> cb_lists[v]] \in Files(nsubs) /\ nsubs \in Nat
        BY <1>0, <1>4, SubscriptionsAssumption DEF Typed
      <3> QED
        BY <3>1, FilesAre
    <2> QED
      BY <1>4, <2>2, <2>3, KeyOfNode
  <1>14. ASSUME NEW s \in these PROVE s \in Range(list) /\ cbs[s].init
    <2>1. PICK i \in DOMAIN cbs[s].channels :
              ~cbs[s].channels[i].timer /\ cbs[s].channels[i].name = r.name
      BY <1>7
    <2>2. s \in 1..nsubs /\ cbs[s].session = session /\ cbs[s].variant = v
      BY <1>2, <1>7, <1>9
    <2>3. PICK t : t = <<s, i>>
      OBVIOUS
    <2>4. t \in Channels
      BY <1>9, <2>1, <2>2, <2>3, ChannelsAre
    <2>5. t \in Asked /\ t[1] = s /\ NameOf(t) = r.name
      BY <2>1, <2>2, <2>3, <2>4 DEF Asked, Current, IsTimer, NameOf
    <2>6. PICK q : NodeOf(trees[v], r.name, q) /\ s \in Range(cb_lists[v][q])
      BY <1>0, <1>3, <2>2, <2>5 DEF ListsComplete
    <2>7. IsTree(trees[v])
      <3>1. [tree |-> trees[v], lists |-> cb_lists[v]] \in Files(nsubs)
        BY <1>0, <1>4 DEF Typed
      <3> QED
        BY <3>1 DEF Files
    <2>8. q = p
      BY <1>2, <2>6, <2>7, SearchFindsNode
    <2>9. NamesIn(s) # {}
      BY <2>1 DEF NamesIn
    <2>10. cbs[s].init
      BY <1>7, <1>9, <2>2, <2>9 DEF ReadyWhenConfirmed
    <2> QED
      BY <1>6, <2>6, <2>8, <2>10
  <1>15. ASSUME NEW s \in Range(list), cbs[s].init, Clear(s) PROVE s \in these
    <2>1. PICK i \in DOMAIN cbs[s].channels :
              ~cbs[s].channels[i].timer /\ cbs[s].channels[i].name = r.name
      BY <1>4, <1>5, <1>6, <1>13 DEF ListsExact
    <2>2. s \in DOMAIN cbs /\ cbs[s].session = session /\ cbs[s].variant = v
      BY <1>0, <1>4, <1>5, <1>6, <1>8, <1>9 DEF ListsCurrent, Current
    <2>3. NamesIn(s) # {}
      BY <2>1 DEF NamesIn
    <2>4. Acked(s)
      BY <1>15, <2>2, <2>3 DEF ReadyWhenConfirmed
    <2> QED
      BY <1>2, <1>7, <2>1, <2>2, <2>4
  <1>16. Increasing(list)
    BY <1>4, <1>5, <1>6 DEF ListsExact
  <1>17. Begins(list, these, e)
    <2>1. e \in Nat \ {0} /\ phase' # "closed"
      BY <1>1, <1>3, <1>9, <1>10
    <2>2. handler'.variant \in Variants /\ handler'.node \in DOMAIN cb_lists'[handler'.variant]
      BY <1>4, <1>5, <1>10, <1>11
    <2>3. Picks(list, these)
      BY <1>14, <1>15 DEF Picks
    <2> QED
      BY <1>10, <1>11, <1>12, <1>16, <2>1, <2>2, <2>3 DEF Begins
  <1> QED
    BY <1>1, <1>8, <1>17

LEMMA TimerBegins ==
    ASSUME Owned, TimersNamed, ReadyWhenConfirmed, NEW t \in running, on_timer(t)
    PROVE  \E list, these : list \in Seq(1..nsubs) /\ Begins(list, these, nevents + 1)
  <1>0. Typed /\ IntervalsOwned /\ RunningOwned
    BY DEF Owned
  <1>1. PICK e, k : e = nevents + 1 /\ k = Interval(t)
    OBVIOUS
  <1>2. PICK these : these = {s \in DOMAIN cbs : /\ cbs[s].session = session
                             /\ Acked(s)
                             /\ \E i \in DOMAIN cbs[s].channels :
                                  cbs[s].channels[i].timer /\ cbs[s].channels[i].ikey = k}
    OBVIOUS
  <1>3. /\ t \in Channels /\ phase # "closed" /\ Current(t[1]) /\ IsTimer(t)
        /\ k \in DOMAIN timers
    BY <1>0, <1>1 DEF RunningOwned, Typed
  <1>4. PICK list : list = <<t[1]>>
    OBVIOUS
  <1>5. timers[k].list = list
    BY <1>0, <1>1, <1>3, <1>4 DEF IntervalsOwned
  <1>6. nevents \in Nat /\ DOMAIN cbs = 1..nsubs /\ t[1] \in DOMAIN cbs
        /\ t[2] \in DOMAIN cbs[t[1]].channels
    BY <1>0, <1>3, ChannelsAre, SubscriptionsAssumption DEF Typed
  <1>7. k # 0
    BY <1>0, <1>3, RequestsAssumption DEF Typed
  <1>8. /\ UNCHANGED <<phase, cb_lists, timers>> /\ nevents' = e
        /\ due' = [due EXCEPT ![e] = these]
        /\ handler' = [Idle EXCEPT !.at = "walk", !.interval = k, !.event = e]
    BY <1>1, <1>2, <1>3 DEF on_timer
  <1>9. /\ handler'.at = "walk" /\ handler'.event = e /\ handler'.interval = k /\ handler'.i = 0
    BY <1>8 DEF Idle
  <1>10. Walked' = list
    BY <1>5, <1>7, <1>8, <1>9 DEF Walked
  <1>11. Range(list) = {t[1]} /\ list \in Seq(1..nsubs) /\ Increasing(list)
    <2>1. Len(list) = 1 /\ DOMAIN list = {1} /\ list[1] = t[1]
      BY <1>4
    <2> QED
      BY <1>4, <1>6, <2>1 DEF Range, Increasing
  <1>12. ASSUME NEW s \in these PROVE s = t[1]
    <2>1. PICK i \in DOMAIN cbs[s].channels :
              cbs[s].channels[i].timer /\ cbs[s].channels[i].ikey = k
      BY <1>2
    <2>2. s \in DOMAIN cbs /\ cbs[s].session = session
      BY <1>2
    <2>3. PICK u : u = <<s, i>>
      OBVIOUS
    <2>4. u \in Channels
      BY <2>1, <2>2, <2>3, ChannelsAre
    <2>5. Current(u[1]) /\ IsTimer(u) /\ Interval(u) = k /\ u[1] = s
      BY <2>1, <2>2, <2>3 DEF Current, IsTimer, Interval
    <2>6. timers[k].list = <<s>>
      BY <1>0, <1>3, <2>4, <2>5 DEF IntervalsOwned
    <2>7. <<s>>[1] = <<t[1]>>[1]
      BY <1>4, <1>5, <2>6
    <2> QED
      BY <2>7
  <1>13. /\ t[1] \in these => cbs[t[1]].init
         /\ cbs[t[1]].init /\ Clear(t[1]) => t[1] \in these
    <2>1. cbs[t[1]].session = session /\ cbs[t[1]].channels[t[2]].timer
          /\ cbs[t[1]].channels[t[2]].ikey = k
      BY <1>1, <1>3 DEF Current, IsTimer, Interval
    <2>2. HasNames(t[1]) /\ NamesIn(t[1]) # {}
      BY <1>0, <1>6, NamedChannels DEF TimersNamed
    <2>3. /\ Acked(t[1]) => cbs[t[1]].init
          /\ cbs[t[1]].init /\ Clear(t[1]) => Acked(t[1])
      BY <1>6, <2>1, <2>2 DEF ReadyWhenConfirmed
    <2>4. t[1] \in these <=> Acked(t[1])
      BY <1>2, <1>6, <2>1
    <2> QED
      BY <2>3, <2>4
  <1>14. Begins(list, these, e)
    <2>1. e \in Nat \ {0} /\ phase' # "closed"
      BY <1>1, <1>3, <1>6, <1>8
    <2>2. Picks(list, these)
      BY <1>11, <1>12, <1>13 DEF Picks
    <2>3. handler'.interval # 0 /\ handler'.interval \in DOMAIN timers'
      BY <1>3, <1>7, <1>8, <1>9
    <2> QED
      BY <1>8, <1>9, <1>10, <1>11, <2>1, <2>2, <2>3 DEF Begins
  <1> QED
    BY <1>1, <1>11, <1>14

LEMMA EventStarts ==
    ASSUME Typed, Counted, handler.at = "idle", UNCHANGED <<cbs, nsubs, log>>, nevents + 1 \in Events,
           NEW list \in Seq(1..nsubs), NEW these, Begins(list, these, nevents + 1)
    PROVE  Walking' /\ Counted'
  <1>0. PICK e : e = nevents + 1
    OBVIOUS
  <1>1. Begins(list, these, e)
    BY <1>0
  <1>2. nevents \in Nat /\ due \in [Events -> SUBSET Subs] /\ e \in Events
        /\ \A x \in Events : x \in Nat
    BY <1>0, SubscriptionsAssumption DEF Typed, Events
  <1>3. /\ nevents' = e /\ due' = [due EXCEPT ![e] = these]
        /\ handler'.at = "walk" /\ handler'.i = 0 /\ handler'.event = e /\ Walked' = list
        /\ Picks(list, these)
    BY <1>1 DEF Begins
  <1>4. due'[e] = these /\ \A x \in Events : x # e => due'[x] = due[x]
    BY <1>2, <1>3
  <1>5. Walking'
    <2>1. Len(list) \in Nat /\ e >= 1 /\ 0 <= Len(list)
      BY <1>0, <1>2
    <2>2. /\ phase' # "closed"
          /\ handler'.interval # 0 => handler'.interval \in DOMAIN timers'
          /\ handler'.interval = 0 =>
               handler'.variant \in Variants /\ handler'.node \in DOMAIN cb_lists'[handler'.variant]
          /\ Increasing(list)
      BY <1>1 DEF Begins
    <2>3. Increasing(Walked')
      BY <1>3, <2>2
    <2>4. handler'.i <= Len(Walked')
      BY <1>3, <2>1
    <2>5. PICK w2, d2 : w2 = Walked' /\ d2 = due'[nevents']
      OBVIOUS
    <2>6. w2 = list /\ d2 = these
      BY <1>3, <1>4, <2>5
    <2>7. Picks(w2, d2)'
      BY <1>3, <2>6, PicksStays
    <2>8. Picks(Walked, due[nevents])'
      BY <2>5, <2>7 DEF Picks
    <2> HIDE DEF Walked
    <2> QED
      BY <1>3, <2>1, <2>2, <2>3, <2>4, <2>8 DEF Walking, Increasing
  <1>6. ASSUME NEW x \in Events, NEW s \in Subs PROVE GivenBy(s, x)' <=> GivenBy(s, x)
    <2>1. GivenBy(s, x) <=> x <= nevents /\ s \in due[x]
      BY DEF GivenBy
    <2>2. CASE x <= nevents
      <3>1. x <= e /\ x # e
        BY <1>0, <1>2, <2>2
      <3>2. GivenBy(s, x)' <=> s \in due'[x]
        BY <1>3, <3>1 DEF GivenBy
      <3> QED
        BY <1>4, <2>1, <2>2, <3>1, <3>2
    <2>3. CASE x = e
      <3>1. ~(x <= nevents)
        BY <1>0, <1>2, <2>3
      <3>2. ~ \E j \in 1..0 : TRUE
        OBVIOUS
      <3>3. ~GivenBy(s, x)'
        BY <1>3, <2>3, <3>2 DEF GivenBy
      <3> QED
        BY <2>1, <3>1, <3>3
    <2>4. CASE ~(x <= nevents) /\ x # e
      <3>1. ~(x <= e)
        BY <1>0, <1>2, <2>4
      <3> QED
        BY <1>3, <2>1, <2>4, <3>1 DEF GivenBy
    <2> QED
      BY <2>2, <2>3, <2>4
  <1>7. ASSUME NEW x \in Events, NEW s \in Subs PROVE NotGivenBy(s, x)' => NotGivenBy(s, x)
    <2> SUFFICES ASSUME NotGivenBy(s, x)' PROVE NotGivenBy(s, x)
      OBVIOUS
    <2>1. Clear(s)' <=> Clear(s)
      BY DEF Clear, NamesIn
    <2>2. x > e => x > nevents
      BY <1>0, <1>2
    <2>3. x # e \/ x > nevents
      BY <1>0, <1>2
    <2>4. x > e \/ s \in due'[x] \/ s \notin 1..nsubs \/ Clear(s)
      BY <1>3, <2>1 DEF NotGivenBy
    <2>5. x > nevents \/ s \in due[x] \/ s \notin 1..nsubs \/ Clear(s)
      BY <1>4, <2>2, <2>3, <2>4
    <2> QED
      BY <1>6, <2>5 DEF NotGivenBy
  <1>8. Counted'
    <2> SUFFICES ASSUME NEW x \in Events, NEW s \in Subs
                 PROVE  /\ GivenBy(s, x)' => Given(log[s], x) = 1
                        /\ NotGivenBy(s, x)' => Given(log[s], x) = 0
      BY DEF Counted
    <2> QED
      BY <1>6, <1>7 DEF Counted
  <1> QED
    BY <1>5, <1>8

\* The callbacks before the one that is called next are not the same.
LEMMA WalkNextDelivers ==
    ASSUME Typed, Walking, Counted, walk_next
    PROVE  Walking' /\ Counted'
  <1>0. PICK w, n, s0, x, e : /\ w = Walked /\ n = handler.i /\ s0 = w[n + 1] /\ e = nevents
                              /\ x = [kind |-> GivenTo(s0), event |-> e]
    OBVIOUS
  <1>1. /\ handler \in HandlerType /\ handler.at # "idle" /\ n < Len(w)
        /\ handler' = [handler EXCEPT !.i = n + 1, !.at = "called"]
        /\ UNCHANGED <<phase, cb_lists, timers, cbs, nsubs, nevents, due>>
    BY <1>0 DEF walk_next, Typed
  <1>2. /\ phase # "closed" /\ handler.event = e /\ e >= 1
        /\ handler.interval # 0 => handler.interval \in DOMAIN timers
        /\ handler.interval = 0 =>
             handler.variant \in Variants /\ handler.node \in DOMAIN cb_lists[handler.variant]
        /\ Increasing(w) /\ Picks(w, due[e])
    BY <1>0, <1>1 DEF Walking
  <1>3. w \in Seq(1..nsubs) /\ Len(w) \in Nat /\ DOMAIN w = 1..Len(w) /\ n \in Nat
    <2>1. w \in Seq(1..nsubs)
      BY <1>0, <1>1, WalkedType
    <2> QED
      BY <1>0, <1>1, <2>1 DEF HandlerType
  <1>4. /\ handler'.at = "called" /\ handler'.i = n + 1 /\ handler'.event = handler.event
        /\ handler'.interval = handler.interval /\ handler'.variant = handler.variant
        /\ handler'.node = handler.node
    BY <1>1 DEF HandlerType
  <1>5. Walked' = w
    BY <1>0, <1>1, <1>4 DEF Walked
  <1>6. Walking'
    <2>1. handler'.i <= Len(Walked')
      BY <1>1, <1>3, <1>4, <1>5
    <2>2. Increasing(Walked') /\ Picks(Walked, due[nevents])'
      <3>1. Picks(w, due[e])'
        <4>1. PICK d : d = due[e]
          OBVIOUS
        <4>2. Picks(w, d)'
          BY <1>1, <1>2, <4>1, PicksStays
        <4>3. due' = due /\ w = w
          BY <1>1
        <4> QED
          BY <4>1, <4>2, <4>3 DEF Picks
      <3>2. due'[nevents'] = due[e]
        BY <1>0, <1>1
      <3> HIDE DEF Walked
      <3> QED
        BY <1>1, <1>2, <1>5, <3>1, <3>2 DEF Picks, Increasing
    <2> HIDE DEF Walked
    <2> QED
      BY <1>0, <1>1, <1>2, <1>4, <2>1, <2>2 DEF Walking, Increasing
  <1>7. n + 1 \in DOMAIN w /\ s0 \in Range(w) /\ \A j \in 1..n : w[j] # s0
    <2>1. n + 1 \in 1..Len(w) /\ \A j \in 1..n : j \in 1..Len(w) /\ j < n + 1
      BY <1>1, <1>3
    <2>2. s0 \in 1..nsubs /\ \A j \in 1..n : w[j] \in 1..nsubs
      BY <1>0, <1>3, <2>1, ElementOfSeq
    <2>3. \A j \in 1..n : w[j] < s0
      BY <1>0, <1>2, <1>3, <2>1 DEF Increasing
    <2> QED
      BY <1>0, <1>3, <2>1, <2>2, <2>3 DEF Range
  <1>8. (s0 \in due[e] => x = Event(e)) /\ (Clear(s0) /\ x = Event(e) => s0 \in due[e])
    <2>1. x = Event(e) <=> GivenTo(s0) = "event"
      BY <1>0 DEF Event
    <2>2. GivenTo(s0) = "event" <=> cbs[s0].init
      BY DEF GivenTo
    <2> QED
      BY <1>2, <1>7, <2>1, <2>2 DEF Picks
  <1>9. \A y : y # e => x # Event(y)
    <2>1. x.event = e /\ \A y : Event(y).event = y
      BY <1>0 DEF Event
    <2> QED
      BY <2>1
  <1>10. log \in [Subs -> Seq(EntryType)] /\ nevents \in Nat /\ \A y \in Events : y \in Nat
    BY SubscriptionsAssumption DEF Typed, Events
  <1>11. log' = [log EXCEPT ![s0] = Append(@, x)]
    BY <1>0, <1>1, <1>2 DEF walk_next
  <1>12. ASSUME NEW y \in Events, NEW s \in Subs
         PROVE  /\ GivenBy(s, y)' => Given(log'[s], y) = 1
                /\ NotGivenBy(s, y)' => Given(log'[s], y) = 0
    <2>1. /\ GivenBy(s, y) => Given(log[s], y) = 1
          /\ NotGivenBy(s, y) => Given(log[s], y) = 0
      BY DEF Counted
    <2>2. GivenBy(s, y) <=> y <= e /\ s \in due[y] /\ (y = e => \E j \in 1..n : w[j] = s)
      BY <1>0, <1>1 DEF GivenBy
    <2>3. GivenBy(s, y)' <=> y <= e /\ s \in due[y] /\ (y = e => \E j \in 1..(n + 1) : w[j] = s)
      BY <1>0, <1>1, <1>4, <1>5 DEF GivenBy
    <2>4. (\E j \in 1..(n + 1) : w[j] = s) <=> s = s0 \/ \E j \in 1..n : w[j] = s
      <3>1. \A j \in 1..(n + 1) : j \in 1..n \/ j = n + 1
        BY <1>3
      <3>2. n + 1 \in 1..(n + 1) /\ \A j \in 1..n : j \in 1..(n + 1)
        BY <1>3
      <3> QED
        BY <1>0, <3>1, <3>2
    <2>5. /\ NotGivenBy(s, y) <=>
               ~GivenBy(s, y) /\ (y > e \/ s \in due[y] \/ s \notin 1..nsubs \/ Clear(s))
          /\ NotGivenBy(s, y)' <=>
               ~GivenBy(s, y)' /\ (y > e \/ s \in due[y] \/ s \notin 1..nsubs \/ Clear(s))
      <3>1. Clear(s)' <=> Clear(s)
        BY <1>1 DEF Clear, NamesIn
      <3> HIDE DEF GivenBy, Clear
      <3> QED
        BY <1>0, <1>1, <3>1 DEF NotGivenBy
    <2> HIDE DEF Given, GivenBy, NotGivenBy
    <2>6. CASE s # s0
      <3>1. log'[s] = log[s]
        BY <1>11, <2>6
      <3> QED
        BY <2>1, <2>2, <2>3, <2>4, <2>5, <2>6, <3>1
    <2>7. CASE s = s0
      <3>1. log'[s] = Append(log[s], x) /\ log[s] \in Seq(EntryType)
        BY <1>10, <1>11, <2>7
      <3>2. Given(log'[s], y) = IF x = Event(y) THEN Given(log[s], y) + 1 ELSE Given(log[s], y)
        BY <3>1, GivenOfAppend
      <3>3. CASE y # e
        BY <1>9, <2>1, <2>2, <2>3, <2>5, <3>2, <3>3
      <3>4. CASE y = e
        <4>1. ~GivenBy(s, y)
          BY <1>7, <2>2, <2>7, <3>4
        <4>2. GivenBy(s, y)' <=> s0 \in due[e]
          <5>1. e <= e
            BY <1>0, <1>10
          <5> QED
            BY <2>3, <2>4, <2>7, <3>4, <5>1
        <4>3. s0 \in 1..nsubs /\ ~(e > e)
          <5>1. Range(w) \subseteq 1..nsubs
            BY <1>3, RangeOfSeq
          <5>2. e \in Nat
            BY <1>0, <1>10
          <5> QED
            BY <1>7, <5>1, <5>2
        <4>4. CASE s0 \in due[e]
          BY <1>8, <2>1, <2>5, <2>7, <3>2, <3>4, <4>1, <4>2, <4>4
        <4>5. CASE s0 \notin due[e]
          BY <1>8, <2>1, <2>5, <2>7, <3>2, <3>4, <4>1, <4>2, <4>3, <4>5
        <4> QED
          BY <4>4, <4>5
      <3> QED
        BY <3>3, <3>4
    <2> QED
      BY <2>6, <2>7
  <1>13. Counted'
    BY <1>12 DEF Counted
  <1> QED
    BY <1>6, <1>13

LEMMA WalkEndDelivers ==
    ASSUME Typed, Walking, Counted, walk_end
    PROVE  Walking' /\ Counted'
  <1>0. PICK w, n : w = Walked /\ n = handler.i
    OBVIOUS
  <1>1. /\ handler \in HandlerType /\ handler.at # "idle" /\ n >= Len(w) /\ handler' = Idle
        /\ UNCHANGED <<cbs, nsubs, nevents, due, log>>
    BY <1>0 DEF walk_end, Typed
  <1>2. due[nevents] \subseteq Range(w) /\ n <= Len(w)
    BY <1>0, <1>1 DEF Walking, Picks
  <1>3. w \in Seq(1..nsubs) /\ Len(w) \in Nat /\ DOMAIN w = 1..Len(w) /\ n \in Nat
    <2>1. w \in Seq(1..nsubs)
      BY <1>0, <1>1, WalkedType
    <2> QED
      BY <1>0, <1>1, <2>1 DEF HandlerType
  <1>4. n = Len(w)
    <2>1. PICK m : m = Len(w)
      OBVIOUS
    <2>2. n >= m /\ n <= m /\ n \in Nat /\ m \in Nat
      BY <1>1, <1>2, <1>3, <2>1
    <2>3. n = m
      BY ONLY <2>2
    <2> QED
      BY <2>1, <2>3
  <1>5. handler'.at = "idle"
    BY <1>1 DEF Idle
  <1>6. ASSUME NEW y \in Events, NEW s \in Subs PROVE GivenBy(s, y)' <=> GivenBy(s, y)
    <2>1. GivenBy(s, y)' <=> y <= nevents /\ s \in due[y]
      BY <1>1, <1>5 DEF GivenBy
    <2>2. GivenBy(s, y) <=> y <= nevents /\ s \in due[y] /\ (y = nevents => \E j \in 1..n : w[j] = s)
      BY <1>0, <1>1 DEF GivenBy
    <2>3. s \in due[nevents] => \E j \in 1..n : w[j] = s
      BY <1>2, <1>3, <1>4 DEF Range
    <2> QED
      BY <2>1, <2>2, <2>3
  <1>7. Counted'
    <2> SUFFICES ASSUME NEW x \in Events, NEW s \in Subs
                 PROVE  /\ GivenBy(s, x)' => Given(log[s], x) = 1
                        /\ NotGivenBy(s, x)' => Given(log[s], x) = 0
      BY <1>1 DEF Counted
    <2>1. NotGivenBy(s, x)' => NotGivenBy(s, x)
      <3>1. Clear(s)' <=> Clear(s)
        BY <1>1 DEF Clear, NamesIn
      <3> HIDE DEF GivenBy, Clear
      <3> QED
        BY <1>1, <1>6, <3>1 DEF NotGivenBy
    <2> QED
      BY <1>6, <2>1 DEF Counted
  <1> QED
    BY <1>5, <1>7 DEF Walking

LEMMA SubscribeDelivers ==
    ASSUME OwnIntervals, DistinctNames, PrefixFree(Names), Typed, Walking, Counted,
           NEW v \in Variants, NEW req \in Requests, lua_client_subscribe(v, req)
    PROVE  Walking' /\ Counted'
  <1>0. PICK s, w : s = nsubs + 1 /\ w = Walked
    OBVIOUS
  <1>1. UNCHANGED <<phase, handler, nevents, due, log>>
    BY DEF lua_client_subscribe
  <1>a. /\ nsubs \in Nat /\ nsubs' = s /\ \A t \in 1..nsubs : cbs'[t] = cbs[t] /\ t \in 1..s
        /\ cbs'[s].init = cbs'[s].fresh /\ s \notin 1..nsubs /\ s \in 1..s
    <2>1. nsubs \in Nat /\ \A t \in 1..nsubs : cbs'[t] = cbs[t]
      BY SubscribeIs
    <2>2. nsubs' = s /\ cbs'[s].init = cbs'[s].fresh
      BY <1>0, SubscribeIs
    <2> QED
      BY <1>0, <2>1, <2>2
  <1>b. \A t \in 1..nsubs : Clear(t)' <=> Clear(t)
    <2>1. \A t \in 1..nsubs : SameShape(cbs[t], cbs'[t])
      BY <1>a DEF SameShape
    <2> QED
      BY <2>1, ClearKept
  <1>c. ASSUME NEW y \in Events, NEW t \in Subs, GivenBy(t, y)' <=> GivenBy(t, y)
        PROVE  NotGivenBy(t, y)' => NotGivenBy(t, y)
    <2>1. NotGivenBy(t, y) <=>
            ~GivenBy(t, y) /\ (y > nevents \/ t \in due[y] \/ t \notin 1..nsubs \/ Clear(t))
      BY DEF NotGivenBy
    <2>2. NotGivenBy(t, y)' <=>
            ~GivenBy(t, y)' /\ (y > nevents \/ t \in due[y] \/ t \notin 1..s \/ Clear(t)')
      BY <1>1, <1>a DEF NotGivenBy
    <2> HIDE DEF GivenBy, Clear, NotGivenBy
    <2> QED
      BY <1>a, <1>b, <1>c, <2>1, <2>2
  <1>d. ASSUME \A y \in Events, t \in Subs : GivenBy(t, y)' <=> GivenBy(t, y)
        PROVE  Counted'
    <2> SUFFICES ASSUME NEW x \in Events, NEW t \in Subs
                 PROVE  /\ GivenBy(t, x)' => Given(log[t], x) = 1
                        /\ NotGivenBy(t, x)' => Given(log[t], x) = 0
      BY <1>1 DEF Counted
    <2>1. GivenBy(t, x)' <=> GivenBy(t, x)
      BY <1>d
    <2>2. NotGivenBy(t, x)' => NotGivenBy(t, x)
      BY <1>c, <2>1
    <2> QED
      BY <2>1, <2>2 DEF Counted
  <1>2. CASE handler.at = "idle"
    <2>1. Counted'
      BY <1>1, <1>2, <1>d DEF GivenBy
    <2> QED
      BY <1>1, <1>2, <2>1 DEF Walking
  <1>3. CASE handler.at # "idle"
    <2>1. /\ phase # "closed" /\ handler.event = nevents /\ nevents >= 1
          /\ handler.interval # 0 => handler.interval \in DOMAIN timers
          /\ handler.interval = 0 =>
               handler.variant \in Variants /\ handler.node \in DOMAIN cb_lists[handler.variant]
          /\ Increasing(w) /\ handler.i <= Len(w) /\ Picks(w, due[nevents])
      BY <1>0, <1>3 DEF Walking
    <2>2. /\ w \in Seq(1..nsubs) /\ Range(w) \subseteq 1..nsubs /\ Len(w) \in Nat
          /\ nsubs \in Nat /\ handler.i \in Nat
      <3>1. w \in Seq(1..nsubs) /\ Range(w) \subseteq 1..nsubs
        BY <1>0, <1>3, WalkedType
      <3>2. nsubs \in Nat /\ handler.i \in Nat
        BY SubscriptionsAssumption DEF Typed, HandlerType
      <3> QED
        BY <3>1, <3>2
    <2>5. /\ Walked' = w \/ Walked' = Append(w, s)
          /\ handler.interval # 0 => handler.interval \in DOMAIN timers'
          /\ handler.interval = 0 => handler.node \in DOMAIN cb_lists'[handler.variant]
      <3>1. CASE handler.interval # 0
        <4>1. handler.interval \in DOMAIN timers'
              /\ timers'[handler.interval] = timers[handler.interval]
          BY <2>1, <3>1, TimersSubscribe
        <4>2. Walked' = w
          BY <1>0, <1>1, <3>1, <4>1 DEF Walked
        <4> QED
          BY <3>1, <4>1, <4>2
      <3>2. CASE handler.interval = 0
        <4>0. PICK u, p : u = handler.variant /\ p = handler.node
          OBVIOUS
        <4>1. u \in Variants /\ p \in DOMAIN cb_lists[u]
          BY <2>1, <3>2, <4>0
        <4>2. w = cb_lists[u][p] /\ Walked' = cb_lists'[u][p]
          BY <1>0, <1>1, <3>2, <4>0 DEF Walked
        <4>3. p \in DOMAIN cb_lists'[u]
          <5>1. DOMAIN cb_lists[u] = DOMAIN trees[u]
            BY <4>1, TypedDomains
          <5>2. \A q \in DOMAIN trees[u] : q \in DOMAIN trees'[u]
            BY <4>1, SubscribedLists
          <5>3. DOMAIN cb_lists'[u] = DOMAIN trees'[u]
            <6>1. Typed'
              BY TypedSubscribe
            <6>2. [tree |-> trees'[u], lists |-> cb_lists'[u]] \in Files(nsubs')
              BY <4>1, <6>1 DEF Typed
            <6> QED
              BY <6>2 DEF Files
          <5> QED
            BY <4>1, <5>1, <5>2, <5>3
        <4>4. \/ cb_lists'[u][p] = cb_lists[u][p]
              \/ cb_lists'[u][p] = Append(ListAt(cb_lists[u], p), nsubs + 1)
          BY <4>1, <4>3, SubscribedExact
        <4>5. ListAt(cb_lists[u], p) = w
          BY <4>1, <4>2 DEF ListAt
        <4> QED
          BY <1>0, <3>2, <4>0, <4>2, <4>3, <4>4, <4>5
      <3> QED
        BY <3>1, <3>2
    <2>6. Increasing(Walked')
      BY <1>0, <2>1, <2>2, <2>5, IncreasingAppend
    <2>7. /\ handler.i <= Len(Walked') /\ \A j \in 1..handler.i : Walked'[j] = w[j]
          /\ Range(w) \subseteq Range(Walked') /\ Range(Walked') \subseteq Range(w) \cup {s}
      <3>1. CASE Walked' = w
        BY <2>1, <3>1
      <3>2. CASE Walked' = Append(w, s)
        <4>1. Range(Append(w, s)) = Range(w) \cup {s}
          BY <2>2, RangeOfAppend
        <4>2. Len(Append(w, s)) = Len(w) + 1 /\ \A j \in 1..Len(w) : Append(w, s)[j] = w[j]
          BY <2>2
        <4>3. handler.i <= Len(w) + 1 /\ \A j \in 1..handler.i : j \in 1..Len(w)
          BY <2>1, <2>2
        <4> HIDE DEF Walked
        <4> QED
          BY <3>2, <4>1, <4>2, <4>3
      <3> QED
        BY <2>5, <3>1, <3>2
    <2>8. Picks(Walked, due[nevents])'
      <3>0. PICK l, d : l = Walked' /\ d = due[nevents]
        OBVIOUS
      <3>1. d \subseteq Range(w) /\ Range(w) \subseteq Range(l) /\ Range(l) \subseteq Range(w) \cup {s}
        BY <2>1, <2>7, <3>0 DEF Picks
      <3>2. \A t \in d : t \in Range(l) /\ cbs'[t].init
        BY <1>a, <2>1, <2>2, <3>0, <3>1 DEF Picks
      <3>3. ASSUME NEW t \in Range(l), cbs'[t].init, Clear(t)' PROVE t \in d
        <4>1. CASE t \in Range(w)
          <5>1. cbs[t].init /\ Clear(t)
            BY <1>a, <1>b, <2>2, <3>3, <4>1
          <5> QED
            BY <2>1, <3>0, <4>1, <5>1 DEF Picks
        <4>2. CASE t = s
          BY <1>a, <3>3, <4>2 DEF Clear
        <4> QED
          BY <3>1, <4>1, <4>2
      <3>4. Picks(l, d)'
        BY <3>2, <3>3 DEF Picks
      <3>5. due'[nevents'] = d
        BY <1>1, <3>0
      <3> HIDE DEF Walked
      <3> QED
        BY <3>0, <3>4, <3>5 DEF Picks
    <2>9. Walking'
      <3> HIDE DEF Walked
      <3> QED
        BY <1>1, <2>1, <2>5, <2>6, <2>7, <2>8 DEF Walking
    <2>10. ASSUME NEW y \in Events, NEW t \in Subs PROVE GivenBy(t, y)' <=> GivenBy(t, y)
      <3>1. GivenBy(t, y)' <=>
              /\ y <= nevents /\ t \in due[y]
              /\ y = nevents => \E j \in 1..handler.i : Walked'[j] = t
        BY <1>1, <1>3 DEF GivenBy
      <3>2. GivenBy(t, y) <=>
              /\ y <= nevents /\ t \in due[y]
              /\ y = nevents => \E j \in 1..handler.i : w[j] = t
        BY <1>0, <1>3 DEF GivenBy
      <3> HIDE DEF Walked
      <3> QED
        BY <2>7, <3>1, <3>2
    <2>11. Counted'
      BY <1>d, <2>10
    <2> QED
      BY <2>9, <2>11
  <1> QED
    BY <1>2, <1>3

LEMMA ConfirmationDelivers ==
    ASSUME Typed, Walking, Counted, on_read_subscribe
    PROVE  Walking' /\ Counted'
  <1>0. PICK ack : ack = [kind |-> "ack", event |-> 0]
    OBVIOUS
  <1>1. handler.at = "idle" /\ UNCHANGED <<handler, nsubs, nevents, due>>
    BY DEF on_read_subscribe, Reads
  <1>2. \/ log' = log
        \/ \E s : log' = [log EXCEPT ![s] = Append(@, ack)]
    <2>1. \/ log' = log
          \/ ConfirmAll(UpToAwaiting(cb_lists[Head(wire).variant][search(trees[Head(wire).variant],
                                                                         Head(wire).name)],
                                     Head(wire).name),
                        Awaiting(UpToAwaiting(cb_lists[Head(wire).variant][
                                                 search(trees[Head(wire).variant], Head(wire).name)],
                                              Head(wire).name), Head(wire).name) # {},
                        Head(wire).name)
      BY ConfirmationIs, Zenon
    <2> QED
      BY <1>0, <2>1 DEF ConfirmAll
  <1>3. log \in [Subs -> Seq(EntryType)]
    BY DEF Typed
  <1>4. \A y : ack # Event(y)
    <2>1. ack.kind = "ack" /\ \A y : Event(y).kind = "event"
      BY <1>0 DEF Event
    <2> QED
      BY <2>1
  <1>5. ASSUME NEW y \in Events, NEW s \in Subs PROVE Given(log'[s], y) = Given(log[s], y)
    <2>1. log'[s] = log[s] \/ log'[s] = Append(log[s], ack)
      BY <1>2, <1>3
    <2>2. Given(Append(log[s], ack), y) = Given(log[s], y)
      BY <1>3, <1>4, GivenOfAppend
    <2> HIDE DEF Given
    <2> QED
      BY <2>1, <2>2
  <1>6. \A y \in Events, s \in Subs : GivenBy(s, y)' <=> GivenBy(s, y)
    BY <1>1 DEF GivenBy
  <1>7. ASSUME NEW y \in Events, NEW s \in Subs PROVE NotGivenBy(s, y)' => NotGivenBy(s, y)
    <2>1. s \in 1..nsubs => (Clear(s)' <=> Clear(s))
      <3>1. ~ \E v \in Variants, req \in Requests : lua_client_subscribe(v, req)
        <4>1. nsubs \in Nat
          BY SubscriptionsAssumption DEF Typed
        <4>2. nsubs' # nsubs + 1
          BY <1>1, <4>1
        <4> QED
          BY <4>2 DEF lua_client_subscribe
      <3>2. [Next]_vars
        BY DEF Next, OnRead
      <3>3. \A t \in 1..nsubs : SameShape(cbs[t], cbs'[t])
        BY <3>1, <3>2, ShapesKept
      <3> QED
        BY <3>3, ClearKept
    <2> HIDE DEF GivenBy, Clear
    <2> QED
      BY <1>1, <1>6, <2>1 DEF NotGivenBy
  <1>8. Counted'
    <2> SUFFICES ASSUME NEW x \in Events, NEW s \in Subs
                 PROVE  /\ GivenBy(s, x)' => Given(log'[s], x) = 1
                        /\ NotGivenBy(s, x)' => Given(log'[s], x) = 0
      BY DEF Counted
    <2> HIDE DEF Given, GivenBy, NotGivenBy
    <2> QED
      BY <1>5, <1>6, <1>7 DEF Counted
  <1> QED
    BY <1>1, <1>8 DEF Walking

\* Steps that have no part in a walk.
LEMMA OthersDeliver ==
    ASSUME Typed, Walking, Counted, UNCHANGED <<handler, nevents, due, log, cbs, nsubs>>,
           \/ handler.at = "idle"
           \/ UNCHANGED <<cb_lists, timers>> /\ (phase' = "closed" => phase = "closed")
    PROVE  Walking' /\ Counted'
  <1>0. \A s : Clear(s)' <=> Clear(s)
    BY DEF Clear, NamesIn
  <1>1. CASE handler.at = "idle"
    <2>1. Counted'
      BY <1>0, <1>1 DEF Counted, GivenBy, NotGivenBy
    <2> QED
      BY <1>1, <2>1 DEF Walking
  <1>2. CASE UNCHANGED <<cb_lists, timers>> /\ (phase' = "closed" => phase = "closed")
    <2>1. Walked' = Walked
      BY <1>2 DEF Walked
    <2>2. Counted'
      BY <1>0, <2>1 DEF Counted, GivenBy, NotGivenBy
    <2>3. Walking'
      <3> HIDE DEF Walked, Clear
      <3> QED
        BY <1>0, <1>2, <2>1 DEF Walking, Picks, Increasing
    <2> QED
      BY <2>2, <2>3
  <1> QED
    BY <1>1, <1>2

\* The inductive invariant of Delivered.
Delivering ==
    /\ Owned /\ InOrder
    /\ ListsExact /\ TimersNamed /\ MessagesNamed
    /\ Walking /\ Counted

LEMMA DeliveringInit == Init => Delivering
  <1> SUFFICES ASSUME Init PROVE Delivering
    OBVIOUS
  <1>1. Owned /\ InOrder
    BY OwnedInit, InOrderInit
  <1>2. ListsExact
    BY DEF Init, ListsExact, NoTree
  <1>3. TimersNamed /\ MessagesNamed
    BY DEF Init, TimersNamed, MessagesNamed, Range
  <1>4. handler.at = "idle"
    BY DEF Init, Idle
  <1>5. Counted
    <2> SUFFICES ASSUME NEW e \in Events, NEW s \in Subs
                 PROVE  ~GivenBy(s, e) /\ Given(log[s], e) = 0
      BY DEF Counted
    <2>1. log[s] = <<>> /\ due[e] = {}
      BY DEF Init
    <2>2. {i \in DOMAIN log[s] : log[s][i] = Event(e)} = {}
      BY <2>1
    <2>3. Given(log[s], e) = 0
      BY <2>2, FS_EmptySet DEF Given
    <2> QED
      BY <2>1, <2>3 DEF GivenBy
  <1> QED
    BY <1>1, <1>2, <1>3, <1>4, <1>5 DEF Delivering, Walking

LEMMA DeliveringNext ==
    ASSUME OwnIntervals, DistinctNames, PrefixFree(Names), Delivering, [Next]_vars
    PROVE  Walking' /\ Counted'
  <1>0. /\ Owned /\ InOrder /\ ListsExact /\ TimersNamed /\ MessagesNamed
        /\ Walking /\ Counted /\ Typed /\ ~fault
    BY DEF Delivering, Owned
  <1>1. ReadyWhenConfirmed
    BY <1>0, ReadyIs DEF InOrder
  <1>2. ASSUME NEW v \in Variants, NEW req \in Requests, lua_client_subscribe(v, req)
        PROVE  Walking' /\ Counted'
    BY <1>0, <1>2, SubscribeDelivers
  <1>3. CASE on_read_subscribe
    BY <1>0, <1>3, ConfirmationDelivers
  <1>4. CASE on_read_message \/ \E t \in running : on_timer(t)
    <2>1. handler.at = "idle" /\ UNCHANGED <<cbs, nsubs, log>> /\ nevents' = nevents + 1
      BY <1>4 DEF on_read_message, on_timer, LoopTurn, Reads
    <2>2. nevents + 1 \in Events
      <3>1. Typed'
        BY <1>0, TypedNext
      <3>2. nevents' \in 0..MaxEvents /\ nevents \in 0..MaxEvents
        BY <1>0, <3>1 DEF Typed
      <3> QED
        BY <2>1, <3>2, SubscriptionsAssumption DEF Events
    <2>3. PICK list, these : list \in Seq(1..nsubs) /\ Begins(list, these, nevents + 1)
      BY <1>0, <1>1, <1>4, MessageBegins, TimerBegins
    <2> QED
      BY <1>0, <2>1, <2>2, <2>3, EventStarts
  <1>5. CASE walk_next
    BY <1>0, <1>5, WalkNextDelivers
  <1>6. CASE walk_end
    BY <1>0, <1>6, WalkEndDelivers
  <1>7. CASE on_disconnect
    <2>1. handler.at = "idle" /\ UNCHANGED <<handler, nevents, due, log, cbs, nsubs>>
      BY <1>7 DEF on_disconnect, LoopTurn
    <2> QED
      BY <1>0, <2>1, OthersDeliver
  <1>8. CASE \/ \E v \in Variants, name \in Names : unsubscribe(v, name)
             \/ \E v \in Variants, name \in Names : ServerPublishes(v, name)
             \/ ServerServes \/ on_read_ignored
             \/ lua_client_disconnect \/ lua_client_connect \/ UNCHANGED vars
    <2>1. /\ UNCHANGED <<handler, nevents, due, log, cbs, nsubs, cb_lists, timers>>
          /\ phase' = "closed" => phase = "closed"
      BY <1>8 DEF unsubscribe, ServerPublishes, ServerServes, on_read_ignored,
                  lua_client_disconnect, lua_client_connect, vars
    <2> QED
      BY <1>0, <2>1, OthersDeliver
  <1> QED
    BY <1>2, <1>3, <1>4, <1>5, <1>6, <1>7, <1>8 DEF Next, Application, OnRead, Walk

LEMMA DeliveringInductive ==
    ASSUME OwnIntervals, DistinctNames, PrefixFree(Names), Delivering, [Next]_vars
    PROVE  Delivering'
  <1>1. Owned /\ InOrder /\ ListsExact /\ TimersNamed /\ MessagesNamed /\ Typed
    BY DEF Delivering, Owned
  <1>2. Owned'
    BY <1>1, OwnedInductive
  <1>3. InOrder'
    BY <1>1, InOrderInductive
  <1>4. ListsExact'
    BY <1>1, ListsExactNext
  <1>5. TimersNamed'
    BY <1>1, TimersNamedNext
  <1>6. MessagesNamed'
    BY <1>1, MessagesNamedNext
  <1>7. Walking' /\ Counted'
    BY DeliveringNext
  <1> QED
    BY <1>2, <1>3, <1>4, <1>5, <1>6, <1>7 DEF Delivering

\* Whatever malloc leaves in the flags: every message and every tick is given
\* once to each callback that the server has confirmed and that subscribed to
\* its name or interval, also when a callback of the walk calls subscribe(); and
\* it is given to no other callback, but for those that were created INITIALIZED
\* or have a name in common with an earlier one that was.  The conditions are
\* those whose absence the runs of the findings show: no name is a prefix of
\* another one, no request lists a name twice and every interval is asked for
\* once.
THEOREM SubscriptionsDelivered ==
    ASSUME OwnIntervals, DistinctNames, PrefixFree(Names)
    PROVE  Spec => []Delivered
  <1>1. Delivering => Delivered
    <2> SUFFICES ASSUME Delivering, handler.at = "idle", NEW e \in 1..nevents, NEW s \in DOMAIN cbs
                 PROVE  /\ s \in due[e] => Given(log[s], e) = 1
                        /\ s \notin due[e] /\ Clear(s) =>
                             {i \in DOMAIN log[s] : log[s][i] = Event(e)} = {}
      BY DEF Delivered, Given, Event
    <2>1. /\ e \in Events /\ e <= nevents /\ s \in Subs /\ s \in 1..nsubs
          /\ log[s] \in Seq(EntryType)
      BY SubscriptionsAssumption DEF Delivering, Owned, Typed, Events, Subs
    <2>2. GivenBy(s, e) <=> s \in due[e]
      BY <2>1 DEF GivenBy
    <2>3. s \notin due[e] /\ Clear(s) => Given(log[s], e) = 0
      BY <2>1, <2>2 DEF Delivering, Counted, NotGivenBy
    <2>4. s \in due[e] => Given(log[s], e) = 1
      BY <2>1, <2>2 DEF Delivering, Counted
    <2> QED
      BY <2>1, <2>3, <2>4, NoneGiven
  <1>2. Delivering /\ [Next]_vars => Delivering'
    BY DeliveringInductive
  <1> QED
    BY <1>1, <1>2, DeliveringInit, PTL DEF Spec
=============================================================================
