----------------------------- MODULE StringTree -----------------------------
(***************************************************************************)
(* The binary tree of src/src/cb.c that maps channel names to lists of     *)
(* callbacks.  A tree is a function from the paths of its nodes (the turns *)
(* that lead there from the root) to their keys.  insert and search walk   *)
(* down by strncmp over the length of the key they are given, so a key     *)
(* also matches a node whose key it is a prefix of.                        *)
(***************************************************************************)
EXTENDS Integers, Sequences, FiniteSetsExt

Turns == {"left", "right"}

\* Mutation of strncmp: the last byte is not compared.
strncmp_short(key, other) ==
    LET diff == {i \in 1..(Len(key) - 1) : i > Len(other) \/ key[i] # other[i]} IN
    IF diff = {}
      THEN 0
      ELSE LET i == Min(diff) IN
           IF i <= Len(other) /\ key[i] < other[i] THEN -1 ELSE 1

\* strncmp(key, other, strlen(key)): its sign.  A string ends in a 0 byte,
\* smaller than all others.
strncmp(key, other) ==
    LET diff == {i \in 1..Len(key) : i > Len(other) \/ key[i] # other[i]} IN
    IF diff = {}
      THEN 0
      ELSE LET i == Min(diff) IN
           IF i <= Len(other) /\ key[i] < other[i] THEN -1 ELSE 1

\* Where insert turns at a node.
InsertTurn(key, other) ==
    IF strncmp(key, other) < 0 THEN "left"
    ELSE IF strncmp(key, other) > 0 THEN "right" ELSE "stop"

\* Mutation of SearchTurn: left and right confused.
SearchTurn_mirrored(key, other) ==
    IF strncmp(key, other) = 0 THEN "stop"
    ELSE IF strncmp(key, other) < 0 THEN "right" ELSE "left"

\* Where search turns at a node.
SearchTurn(key, other) ==
    IF strncmp(key, other) = 0 THEN "stop"
    ELSE IF strncmp(key, other) < 0 THEN "left" ELSE "right"

\* The places of a tree: its nodes and the NULL pointers below them.
Places(tree) ==
    {<<>>} \cup DOMAIN tree \cup {Append(p, t) : p \in DOMAIN tree, t \in Turns}

\* The walk of insert ends at p: it turned towards p at every node above, and
\* p is free or a node where it stops.
InsertEnds(tree, key, p) ==
    /\ \A i \in 1..Len(p) :
         LET above == SubSeq(p, 1, i - 1) IN
         above \in DOMAIN tree /\ InsertTurn(key, tree[above]) = p[i]
    /\ p \in DOMAIN tree => InsertTurn(key, tree[p]) = "stop"

\* The same for search.
SearchEnds(tree, key, p) ==
    /\ \A i \in 1..Len(p) :
         LET above == SubSeq(p, 1, i - 1) IN
         above \in DOMAIN tree /\ SearchTurn(key, tree[above]) = p[i]
    /\ p \in DOMAIN tree => SearchTurn(key, tree[p]) = "stop"

\* insert: the leaf it returns, and the tree it leaves.
InsertLeaf(tree, key) == CHOOSE p \in Places(tree) : InsertEnds(tree, key, p)

insert(tree, key) ==
    LET p == InsertLeaf(tree, key) IN
    [q \in DOMAIN tree \cup {p} |-> IF q \in DOMAIN tree THEN tree[q] ELSE key]

\* search: the node it finds; a place without a node fails its assertion.
search(tree, key) == CHOOSE p \in Places(tree) : SearchEnds(tree, key, p)

\* No key of the set is a proper prefix of another one.
PrefixFree(keys) ==
    \A k, l \in keys : k # l => ~(Len(k) <= Len(l) /\ SubSeq(l, 1, Len(k)) = k)
=============================================================================
