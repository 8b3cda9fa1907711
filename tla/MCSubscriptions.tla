-------------------------- MODULE MCSubscriptions --------------------------
(***************************************************************************)
(* Instances of Subscriptions: argument lists over keys of one or two      *)
(* letters, the event "set" and timer intervals.                           *)
(***************************************************************************)
EXTENDS Subscriptions, SequencesExt

MCKey(letters) == [number |-> FALSE, prefix |-> "none", key |-> letters]
MCPrefixed(prefix, text) == [number |-> FALSE, prefix |-> prefix, key |-> text]
\* A Lua number, or a string that reads as one.
MCNumber(n) == [number |-> TRUE, prefix |-> "none", key |-> <<n>>]

A == <<1>>
B == <<2>>
AB == <<1, 2>>
Set == <<3>>
MCEventNames == {Set}

\* subscribe("a", "b"), subscribe("a"), subscribe("set", "a").
MCNamed == {<<MCKey(A), MCKey(B)>>, <<MCKey(A)>>, <<MCKey(Set), MCKey(A)>>}
\* subscribe(5, "a", "b"), subscribe("__timer@0__:7", "__keyspace@0__:b").
MCTimed == {<<MCNumber(5), MCKey(A), MCKey(B)>>,
            <<MCPrefixed("timer", <<7>>), MCPrefixed("space", B)>>}
\* subscribe("ab"), subscribe("a").
MCPrefixes == {<<MCKey(AB)>>, <<MCKey(A)>>}
\* subscribe(5, "a"), more than once.
MCSameTimer == {<<MCNumber(5), MCKey(A)>>}

\* Names over two letters, some a prefix of others.
MCKeys == {<<1>>, <<2>>, <<1, 1>>, <<1, 2>>, <<2, 1>>, <<1, 2, 1>>}

\* The tree after insertions of keys, in this order.
TreeOf(keys) == FoldLeft(insert, NoTree, keys)

\* search finds the node where insert filed the callbacks of a name, whatever
\* was inserted before and since, and never reaches a NULL pointer; it is a
\* node of the name's own when no name is a prefix of another one.  (For every
\* order of insertion of up to four names, in a client that has made no
\* subscription yet.)
SearchFinds == nsubs = 0 =>
    \A n \in 1..4 : \A keys \in {k \in [1..n -> MCKeys] : IsInjective(k)} : \A i \in 1..n :
        /\ search(TreeOf(keys), keys[i]) = InsertLeaf(TreeOf(SubSeq(keys, 1, i - 1)), keys[i])
        /\ PrefixFree(Range(keys)) =>
             TreeOf(keys)[search(TreeOf(keys), keys[i])] = keys[i]
=============================================================================
