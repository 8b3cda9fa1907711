------------------------- MODULE CallbackListProofs -------------------------
(***************************************************************************)
(* Proofs about the callback lists, for any lists, callbacks and wrappers. *)
(***************************************************************************)
EXTENDS CallbackList, FiniteSetTheorems, SequenceTheorems, TLAPS

\* The inductive invariant: the pointers follow the history, wrappers are
\* not shared, callbacks outlive their wrappers and attach counts them.
CbLive == \A w \in used : cb[w] \in live

IInv ==
    /\ TypeOK
    /\ ListsLinked
    /\ NoSharing
    /\ CbLive
    /\ IsFiniteSet(used)
    /\ AttachCounts

\* What Append and Tail do to a sequence, index by index.
LEMMA AppendIndex ==
    ASSUME NEW S, NEW s \in Seq(S), NEW x \in S
    PROVE  /\ Append(s, x) \in Seq(S)
           /\ Len(Append(s, x)) = Len(s) + 1
           /\ DOMAIN Append(s, x) = 1..(Len(s) + 1)
           /\ \A i \in 1..Len(s) : Append(s, x)[i] = s[i]
           /\ Append(s, x)[Len(s) + 1] = x
  OBVIOUS

LEMMA TailIndex ==
    ASSUME NEW S, NEW s \in Seq(S), s # <<>>
    PROVE  /\ Tail(s) \in Seq(S)
           /\ Len(s) \in Nat \ {0}
           /\ Len(Tail(s)) = Len(s) - 1
           /\ DOMAIN s = 1..Len(s)
           /\ DOMAIN Tail(s) = 1..(Len(s) - 1)
           /\ \A i \in 1..(Len(s) - 1) : Tail(s)[i] = s[i + 1]
           /\ Head(s) = s[1]
           /\ s[1] \in S
           /\ Tail(s) = <<>> <=> Len(s) = 1
  <1>1. Len(s) \in Nat \ {0} /\ DOMAIN s = 1..Len(s) /\ s \in [1..Len(s) -> S]
    BY EmptySeq, LenProperties
  <1>2. /\ Tail(s) \in Seq(S)
        /\ Len(Tail(s)) = Len(s) - 1
        /\ \A i \in 1..Len(Tail(s)) : Tail(s)[i] = s[i + 1]
    BY HeadTailProperties
  <1>3. DOMAIN Tail(s) = 1..(Len(s) - 1)
    BY <1>2, LenProperties
  <1>4. Tail(s) = <<>> <=> Len(s) = 1
    BY <1>1, <1>2, EmptySeq
  <1> QED
    BY <1>1, <1>2, <1>3, <1>4

\* The invariant holds of a new client's lists.
LEMMA InitIInv == Init => IInv
  <1> SUFFICES ASSUME Init PROVE IInv
    OBVIOUS
  <1>1. TypeOK
    BY DEF Init, TypeOK, Quiet
  <1>2. ListsLinked /\ NoSharing /\ CbLive
    BY DEF Init, ListsLinked, Linked, Chained, NoSharing, CbLive, Quiet
  <1>3. IsFiniteSet(used)
    BY FS_EmptySet DEF Init
  <1>4. AttachCounts
    BY DEF Init, AttachCounts
  <1> QED
    BY <1>1, <1>2, <1>3, <1>4 DEF IInv

\* A list's sequence is empty exactly when it has no first element.
LEMMA OrderFacts ==
    ASSUME TypeOK, NEW l \in Lists
    PROVE  /\ order[l] \in Seq(Wrappers)
           /\ Len(order[l]) \in Nat
           /\ DOMAIN order[l] = 1..Len(order[l])
           /\ \A i \in 1..Len(order[l]) : order[l][i] \in Wrappers
           /\ order[l] = <<>> <=> Len(order[l]) = 0
  <1>1. order[l] \in Seq(Wrappers)
    BY DEF TypeOK
  <1> QED
    BY <1>1, EmptySeq, LenProperties

\* create_callback touches no list; a new callback has no wrapper yet.
LEMMA CreateIInv ==
    ASSUME IInv, NEW c \in Callbacks, create_callback(c)
    PROVE  IInv'
  <1> USE DEF IInv, create_callback
  <1>1. TypeOK'
    BY DEF TypeOK
  <1>2. ListsLinked' /\ NoSharing' /\ CbLive' /\ IsFiniteSet(used)'
    BY DEF ListsLinked, Linked, Chained, NoSharing, CbLive
  <1>3. AttachCounts'
    <2> SUFFICES ASSUME NEW d \in live'
                 PROVE  attach'[d] = Cardinality({v \in used : cb[v] = d})
      BY DEF AttachCounts
    <2>1. CASE d = c
      <3>1. {v \in used : cb[v] = d} = {}
        BY <2>1 DEF CbLive
      <3>2. attach'[d] = 0
        BY <2>1 DEF TypeOK
      <3> QED
        BY <3>1, <3>2, FS_EmptySet
    <2>2. CASE d # c
      BY <2>2 DEF AttachCounts, TypeOK
    <2> QED
      BY <2>1, <2>2
  <1> QED
    BY <1>1, <1>2, <1>3

\* push_cb: the fresh wrapper becomes the last of its list.
LEMMA PushIInv ==
    ASSUME IInv, NEW l \in Lists, NEW c \in Callbacks, NEW w \in Wrappers,
           push_cb(l, c, w)
    PROVE  IInv'
  <1> USE DEF IInv
  <1> DEFINE n == Len(order[l])
  <1>q. temp = Quiet /\ temp' = temp /\ temp.list = NULL /\ temp.at = NULL
    BY DEF push_cb, Quiet
  <1>n. \A m \in Lists : m # temp.list
    BY <1>q, NullAssumption
  <1>o. /\ \A m \in Lists : m # l => order'[m] = order[m]
        /\ order'[l] = Append(order[l], w)
        /\ order' \in [Lists -> Seq(Wrappers)]
    BY DEF push_cb, TypeOK
  <1>l. /\ n \in Nat
        /\ order'[l] \in Seq(Wrappers)
        /\ Len(order'[l]) = n + 1
        /\ DOMAIN order'[l] = 1..(n + 1)
        /\ \A i \in 1..n : order'[l][i] = order[l][i]
        /\ order'[l][n + 1] = w
    BY <1>o, OrderFacts, AppendIndex
  <1>f. \A m \in Lists : \A i \in DOMAIN order[m] : order[m][i] # w
    BY DEF push_cb, NoSharing
  <1>k. Linked(l)
    BY <1>n DEF ListsLinked
  <1>1. TypeOK'
    <2>1. attach' \in [Callbacks -> Nat] /\ cb' \in [Wrappers -> Callbacks]
      BY DEF TypeOK, push_cb
    <2>2. next' \in [Wrappers -> Wrappers \cup {NULL}]
      BY DEF TypeOK, push_cb, NextAfterPush
    <2> QED
      BY <2>1, <2>2, <1>o DEF TypeOK, push_cb
  <1>2. NoSharing'
    <2>1. \A m \in Lists : \A i \in DOMAIN order'[m] : order'[m][i] \in used'
      <3> SUFFICES ASSUME NEW m \in Lists, NEW i \in DOMAIN order'[m]
                   PROVE  order'[m][i] \in used'
        OBVIOUS
      <3>1. CASE m # l
        BY <3>1, <1>o DEF NoSharing, push_cb
      <3>2. CASE m = l /\ i = n + 1
        BY <3>2, <1>l DEF push_cb
      <3>3. CASE m = l /\ i # n + 1
        <4>1. i \in 1..n /\ i \in DOMAIN order[l]
          BY <3>3, <1>l, OrderFacts
        <4> QED
          BY <4>1, <3>3, <1>l DEF NoSharing, push_cb
      <3> QED
        BY <3>1, <3>2, <3>3
    <2>2. \A v \in used' : \E m \in Lists : \E i \in DOMAIN order'[m] : order'[m][i] = v
      <3> SUFFICES ASSUME NEW v \in used'
                   PROVE  \E m \in Lists : \E i \in DOMAIN order'[m] : order'[m][i] = v
        OBVIOUS
      <3>1. CASE v = w
        BY <3>1, <1>l
      <3>2. CASE v # w
        <4>1. v \in used
          BY <3>2 DEF push_cb
        <4>2. PICK m \in Lists : \E i \in DOMAIN order[m] : order[m][i] = v
          BY <4>1 DEF NoSharing
        <4>3. PICK i \in DOMAIN order[m] : order[m][i] = v
          BY <4>2
        <4>4. CASE m = l
          <5>1. i \in 1..n /\ i \in 1..(n + 1)
            BY <4>4, <4>3, <1>l, OrderFacts
          <5> QED
            BY <5>1, <4>3, <4>4, <1>l
        <4>5. CASE m # l
          BY <4>3, <4>5, <1>o
        <4> QED
          BY <4>4, <4>5
      <3> QED
        BY <3>1, <3>2
    <2>3. ASSUME NEW m \in Lists, NEW k \in Lists,
                 NEW i \in DOMAIN order'[m], NEW j \in DOMAIN order'[k],
                 order'[m][i] = order'[k][j]
          PROVE  m = k /\ i = j
      <3>1. ASSUME NEW p \in Lists, NEW x \in DOMAIN order'[p]
            PROVE  \/ p = l /\ x = n + 1 /\ order'[p][x] = w
                   \/ x \in DOMAIN order[p] /\ order'[p][x] = order[p][x]
        <4>1. CASE p = l
          <5>1. x = n + 1 \/ x \in 1..n
            BY <4>1, <1>l
          <5> QED
            BY <5>1, <4>1, <1>l, OrderFacts
        <4>2. CASE p # l
          BY <4>2, <1>o
        <4> QED
          BY <4>1, <4>2
      <3>2. \/ m = l /\ i = n + 1 /\ order'[m][i] = w
            \/ i \in DOMAIN order[m] /\ order'[m][i] = order[m][i]
        BY <3>1
      <3>3. \/ k = l /\ j = n + 1 /\ order'[k][j] = w
            \/ j \in DOMAIN order[k] /\ order'[k][j] = order[k][j]
        BY <3>1
      <3> QED
        BY <3>2, <3>3, <2>3, <1>f DEF NoSharing
    <2> QED
      BY <2>1, <2>2, <2>3 DEF NoSharing
  <1>3. ListsLinked'
    <2>1. ASSUME NEW m \in Lists PROVE Linked(m)'
      <3>1. CASE m = l
        <4>1. order'[l] # <<>>
          BY <1>l, EmptySeq
        <4>2. tail'[l] = order'[l][Len(order'[l])]
          BY <1>l DEF push_cb, TypeOK
        <4>3. head'[l] = order'[l][1]
          <5>1. CASE order[l] = <<>>
            BY <5>1, <1>k, <1>l, OrderFacts DEF Linked, push_cb, TypeOK
          <5>2. CASE order[l] # <<>>
            <6>1. n \in Nat \ {0} /\ 1 \in DOMAIN order[l] /\ order[l][1] \in Wrappers
              BY <5>2, OrderFacts
            <6>2. head[l] = order[l][1] /\ head[l] # NULL
              BY <5>2, <6>1, <1>k, NullAssumption DEF Linked
            <6> QED
              BY <6>1, <6>2, <1>l DEF push_cb
          <5> QED
            BY <5>1, <5>2
        <4> QED
          BY <3>1, <4>1, <4>2, <4>3 DEF Linked
      <3>2. CASE m # l
        <4>1. head'[m] = head[m] /\ tail'[m] = tail[m] /\ order'[m] = order[m]
          BY <3>2, <1>o DEF push_cb, TypeOK
        <4>2. Linked(m)
          BY <1>n DEF ListsLinked
        <4> QED
          BY <4>1, <4>2 DEF Linked
      <3> QED
        BY <3>1, <3>2
    <2>2. ASSUME NEW m \in Lists, NEW i \in DOMAIN order'[m]
          PROVE  next'[order'[m][i]] =
                   IF i = Len(order'[m]) THEN NULL ELSE order'[m][i + 1]
      <3>1. \A v \in Wrappers : next'[v] = IF v = w THEN NULL
                                  ELSE IF v = tail[l] THEN w ELSE next[v]
        BY DEF push_cb, NextAfterPush
      <3>2. CASE m # l
        <4>1. i \in DOMAIN order[m] /\ order'[m] = order[m] /\ order[m][i] \in Wrappers
          BY <3>2, <1>o, OrderFacts
        <4>2. order[m][i] # w
          BY <4>1, <1>f
        <4>3. order[m][i] # tail[l]
          <5>1. CASE order[l] = <<>>
            BY <5>1, <4>1, <1>k, NullAssumption DEF Linked
          <5>2. CASE order[l] # <<>>
            BY <5>2, <4>1, <3>2, <1>k, OrderFacts DEF Linked, NoSharing
          <5> QED
            BY <5>1, <5>2
        <4>4. next[order[m][i]] = IF i = Len(order[m]) THEN NULL ELSE order[m][i + 1]
          BY <4>1 DEF ListsLinked, Chained
        <4> QED
          BY <4>1, <4>2, <4>3, <4>4, <3>1
      <3>3. CASE m = l /\ i = n + 1
        BY <3>3, <3>1, <1>l
      <3>4. CASE m = l /\ i # n + 1
        <4>1. /\ i \in 1..n /\ i \in DOMAIN order[l] /\ n \in DOMAIN order[l]
              /\ order'[l][i] = order[l][i]
              /\ order[l][i] \in Wrappers
              /\ order[l] # <<>>
          BY <3>4, <1>l, OrderFacts
        <4>2. order[l][i] # w
          BY <4>1, <1>f
        <4>3. tail[l] = order[l][n]
          BY <4>1, <1>k DEF Linked
        <4>4. order[l][i] = tail[l] <=> i = n
          BY <4>1, <4>3 DEF NoSharing
        <4>5. next[order[l][i]] = IF i = n THEN NULL ELSE order[l][i + 1]
          BY <4>1 DEF ListsLinked, Chained
        <4>6. next'[order'[l][i]] = IF i = n THEN w ELSE order[l][i + 1]
          BY <4>1, <4>2, <4>4, <4>5, <3>1
        <4>7. i # n => i + 1 \in 1..n
          BY <4>1, <1>l
        <4> QED
          BY <4>6, <4>7, <3>4, <1>l
      <3> QED
        BY <3>2, <3>3, <3>4
    <2> QED
      BY <2>1, <2>2, <1>q DEF ListsLinked, Chained
  <1>4. CbLive' /\ IsFiniteSet(used)'
    BY FS_AddElement DEF push_cb, CbLive, TypeOK
  <1>5. AttachCounts'
    <2> SUFFICES ASSUME NEW d \in live'
                 PROVE  attach'[d] = Cardinality({v \in used' : cb'[v] = d})
      BY DEF AttachCounts
    <2> DEFINE B == {v \in used : cb[v] = d}
    <2>1. IsFiniteSet(B) /\ w \notin B /\ d \in live /\ d \in Callbacks
      BY FS_Subset DEF push_cb, TypeOK
    <2>2. attach[d] = Cardinality(B)
      BY <2>1 DEF AttachCounts
    <2>3. CASE d = c
      <3>1. {v \in used' : cb'[v] = d} = B \cup {w}
        BY <2>3 DEF push_cb, TypeOK
      <3>2. attach'[d] = attach[d] + 1
        BY <2>3, <2>1 DEF push_cb, TypeOK
      <3>3. Cardinality(B \cup {w}) = Cardinality(B) + 1
        BY <2>1, FS_AddElement
      <3> QED
        BY <3>1, <3>2, <3>3, <2>2
    <2>4. CASE d # c
      <3>1. {v \in used' : cb'[v] = d} = B
        BY <2>4 DEF push_cb, TypeOK
      <3>2. attach'[d] = attach[d]
        BY <2>4, <2>1 DEF push_cb, TypeOK
      <3> QED
        BY <3>1, <3>2, <2>2
    <2> QED
      BY <2>3, <2>4
  <1> QED
    BY <1>1, <1>2, <1>3, <1>4, <1>5

\* The oldest wrapper of l is destroyed, by shift_cb or in destroy_list.
Removes(l) ==
    /\ order[l] # <<>>
    /\ destroy_wrapper(order[l][1])
    /\ order' = [order EXCEPT ![l] = Tail(@)]
    /\ UNCHANGED <<next, cb>>

\* What a removal does to the sequences.
LEMMA RemovesIndex ==
    ASSUME TypeOK, NEW l \in Lists, Removes(l)
    PROVE  /\ Len(order[l]) \in Nat \ {0}
           /\ DOMAIN order[l] = 1..Len(order[l])
           /\ 1 \in DOMAIN order[l]
           /\ order[l][1] \in Wrappers
           /\ order' \in [Lists -> Seq(Wrappers)]
           /\ \A m \in Lists : m # l => order'[m] = order[m]
           /\ order'[l] = Tail(order[l])
           /\ Len(order'[l]) = Len(order[l]) - 1
           /\ DOMAIN order'[l] = 1..(Len(order[l]) - 1)
           /\ \A i \in DOMAIN order'[l] : i + 1 \in DOMAIN order[l]
                                          /\ order'[l][i] = order[l][i + 1]
           /\ order'[l] = <<>> <=> Len(order[l]) = 1
  <1>1. order[l] \in Seq(Wrappers) /\ order[l] # <<>>
    BY DEF TypeOK, Removes
  <1>2. /\ \A m \in Lists : m # l => order'[m] = order[m]
        /\ order'[l] = Tail(order[l])
    BY DEF TypeOK, Removes
  <1>3. /\ Len(order[l]) \in Nat \ {0}
        /\ Tail(order[l]) \in Seq(Wrappers)
        /\ Len(Tail(order[l])) = Len(order[l]) - 1
        /\ DOMAIN order[l] = 1..Len(order[l])
        /\ DOMAIN Tail(order[l]) = 1..(Len(order[l]) - 1)
        /\ \A i \in 1..(Len(order[l]) - 1) : Tail(order[l])[i] = order[l][i + 1]
        /\ order[l][1] \in Wrappers
        /\ Tail(order[l]) = <<>> <=> Len(order[l]) = 1
    BY <1>1, TailIndex
  <1>4. order' \in [Lists -> Seq(Wrappers)]
    BY <1>3 DEF TypeOK, Removes
  <1>5. \A i \in DOMAIN order'[l] : i + 1 \in DOMAIN order[l]
                                    /\ order'[l][i] = order[l][i + 1]
    BY <1>2, <1>3
  <1> QED
    BY <1>2, <1>3, <1>4, <1>5

\* A removal keeps every part of the invariant but the ends of the list.
LEMMA RemovesIInv ==
    ASSUME IInv, NEW l \in Lists, Removes(l)
    PROVE  /\ order' \in [Lists -> Seq(Wrappers)]
           /\ used' \in SUBSET Wrappers
           /\ live' \in SUBSET Callbacks
           /\ attach' \in [Callbacks -> Nat]
           /\ \A m \in Lists : Chained(m)'
           /\ NoSharing'
           /\ CbLive'
           /\ IsFiniteSet(used)'
           /\ AttachCounts'
  <1> DEFINE w == order[l][1]
  <1> USE DEF IInv
  <1>r. /\ w \in Wrappers /\ w \in used /\ cb[w] \in live /\ cb[w] \in Callbacks
        /\ used' = used \ {w}
        /\ cb' = cb /\ next' = next
    BY RemovesIndex DEF Removes, NoSharing, CbLive, TypeOK, destroy_wrapper
  <1>b. ASSUME NEW d \in live
        PROVE  /\ IsFiniteSet({v \in used : cb[v] = d})
               /\ attach[d] = Cardinality({v \in used : cb[v] = d})
               /\ attach[d] \in Nat
               /\ d \in Callbacks
    BY FS_Subset DEF AttachCounts, TypeOK
  <1>c. attach[cb[w]] # 0
    <2>1. {v \in used : cb[v] = cb[w]} # {}
      BY <1>r
    <2> QED
      BY <2>1, <1>b, <1>r, FS_EmptySet
  <1>d. IF attach[cb[w]] = 1
          THEN live' = live \ {cb[w]} /\ attach' = attach
          ELSE live' = live /\ attach' = [attach EXCEPT ![cb[w]] = @ - 1]
    BY DEF Removes, destroy_wrapper, LastWrapper
  <1>1. /\ order' \in [Lists -> Seq(Wrappers)]
        /\ used' \in SUBSET Wrappers
        /\ live' \in SUBSET Callbacks
    BY <1>r, <1>d, RemovesIndex DEF TypeOK
  <1>2. attach' \in [Callbacks -> Nat]
    <2>1. attach \in [Callbacks -> Nat] /\ attach[cb[w]] \in Nat
      BY <1>r DEF TypeOK
    <2>2. attach[cb[w]] - 1 \in Nat
      BY <2>1, <1>c
    <2> QED
      BY <2>1, <2>2, <1>d
  <1>3. \A m \in Lists : Chained(m)'
    <2> SUFFICES ASSUME NEW m \in Lists, NEW i \in DOMAIN order'[m]
                 PROVE  next[order'[m][i]] =
                          IF i = Len(order'[m]) THEN NULL ELSE order'[m][i + 1]
      BY <1>r DEF Chained
    <2>1. CASE m # l
      BY <2>1, RemovesIndex DEF ListsLinked, Chained
    <2>2. CASE m = l
      <3>1. /\ i \in 1..(Len(order[l]) - 1)
            /\ i + 1 \in DOMAIN order[l] /\ order'[l][i] = order[l][i + 1]
            /\ Len(order[l]) \in Nat
            /\ Len(order'[l]) = Len(order[l]) - 1
        BY <2>2, RemovesIndex
      <3>2. next[order[l][i + 1]] =
              IF i + 1 = Len(order[l]) THEN NULL ELSE order[l][(i + 1) + 1]
        BY <3>1 DEF ListsLinked, Chained
      <3>3. CASE i = Len(order'[l])
        BY <3>1, <3>2, <3>3, <2>2
      <3>4. CASE i # Len(order'[l])
        <4>1. i + 1 \in DOMAIN order'[l]
          BY <3>1, <3>4, RemovesIndex
        <4>2. order'[l][i + 1] = order[l][(i + 1) + 1]
          BY <4>1, RemovesIndex
        <4> QED
          BY <3>1, <3>2, <3>4, <4>2, <2>2
      <3> QED
        BY <3>3, <3>4
    <2> QED
      BY <2>1, <2>2
  <1>4. NoSharing'
    <2>1. ASSUME NEW m \in Lists, NEW i \in DOMAIN order'[m]
          PROVE  order'[m][i] \in used'
      <3>1. CASE m # l
        <4>1. order'[m] = order[m] /\ i \in DOMAIN order[m]
          BY <3>1, <2>1, RemovesIndex
        <4>2. order[m][i] \in used /\ order[m][i] # w
          BY <4>1, <3>1, RemovesIndex DEF NoSharing
        <4> QED
          BY <4>1, <4>2, <1>r
      <3>2. CASE m = l
        <4>1. i \in 1..(Len(order[l]) - 1) /\ i + 1 \in DOMAIN order[l]
              /\ order'[l][i] = order[l][i + 1] /\ Len(order[l]) \in Nat
          BY <3>2, <2>1, RemovesIndex
        <4>2. order[l][i + 1] \in used
          BY <4>1 DEF NoSharing
        <4>3. order[l][i + 1] # w
          <5>1. i + 1 # 1
            BY <4>1
          <5> QED
            BY <5>1, <4>1, RemovesIndex DEF NoSharing
        <4> QED
          BY <4>1, <4>2, <4>3, <3>2, <1>r
      <3> QED
        BY <3>1, <3>2
    <2>2. ASSUME NEW v \in used'
          PROVE  \E m \in Lists : \E i \in DOMAIN order'[m] : order'[m][i] = v
      <3>1. v \in used /\ v # w
        BY <1>r
      <3>2. PICK m \in Lists : \E i \in DOMAIN order[m] : order[m][i] = v
        BY <3>1 DEF NoSharing
      <3>3. PICK i \in DOMAIN order[m] : order[m][i] = v
        BY <3>2
      <3>4. CASE m # l
        BY <3>3, <3>4, RemovesIndex
      <3>5. CASE m = l
        <4>1. i \in 1..Len(order[l]) /\ i # 1 /\ Len(order[l]) \in Nat
          BY <3>1, <3>3, <3>5, RemovesIndex
        <4>2. i - 1 \in 1..(Len(order[l]) - 1) /\ (i - 1) + 1 = i
          BY <4>1
        <4>3. i - 1 \in DOMAIN order'[l] /\ order'[l][i - 1] = order[l][i]
          BY <4>2, RemovesIndex
        <4> QED
          BY <4>3, <3>3, <3>5
      <3> QED
        BY <3>4, <3>5
    <2>3. ASSUME NEW m \in Lists, NEW k \in Lists,
                 NEW i \in DOMAIN order'[m], NEW j \in DOMAIN order'[k],
                 order'[m][i] = order'[k][j]
          PROVE  m = k /\ i = j
      <3>1. PICK x \in DOMAIN order[m] :
              order'[m][i] = order[m][x] /\ x = IF m = l THEN i + 1 ELSE i
        BY RemovesIndex
      <3>2. PICK y \in DOMAIN order[k] :
              order'[k][j] = order[k][y] /\ y = IF k = l THEN j + 1 ELSE j
        BY RemovesIndex
      <3>3. m = k /\ x = y
        BY <3>1, <3>2, <2>3 DEF NoSharing
      <3>4. CASE m = l
        <4>1. i \in Int /\ j \in Int
          BY <3>3, <3>4, RemovesIndex
        <4> QED
          BY <4>1, <3>1, <3>2, <3>3, <3>4
      <3>5. CASE m # l
        BY <3>1, <3>2, <3>3, <3>5
      <3> QED
        BY <3>4, <3>5
    <2> QED
      BY <2>1, <2>2, <2>3 DEF NoSharing
  <1>5. CbLive'
    <2> SUFFICES ASSUME NEW v \in used' PROVE cb[v] \in live'
      BY <1>r DEF CbLive
    <2>1. v \in used /\ v # w /\ cb[v] \in live
      BY <1>r DEF CbLive
    <2>2. CASE attach[cb[w]] = 1 /\ cb[v] = cb[w]
      <3>1. {u \in used : cb[u] = cb[w]} \in SUBSET {w}
        <4>1. \E x : {u \in used : cb[u] = cb[w]} = {x}
          BY <2>2, <1>b, <1>r, FS_Singleton
        <4> QED
          BY <4>1, <1>r
      <3> QED
        BY <3>1, <2>1, <2>2
    <2>3. CASE ~(attach[cb[w]] = 1 /\ cb[v] = cb[w])
      BY <2>1, <2>3, <1>d
    <2> QED
      BY <2>2, <2>3
  <1>6. IsFiniteSet(used)'
    BY <1>r, FS_RemoveElement
  <1>7. AttachCounts'
    <2> SUFFICES ASSUME NEW d \in live'
                 PROVE  attach'[d] = Cardinality({v \in used' : cb[v] = d})
      BY <1>r DEF AttachCounts
    <2>1. d \in live
      BY <1>d
    <2>2. CASE d = cb[w]
      <3>1. attach[d] # 1 /\ attach'[d] = attach[d] - 1
        BY <2>1, <2>2, <1>d, <1>r DEF TypeOK
      <3>2. {v \in used' : cb[v] = d} = {v \in used : cb[v] = d} \ {w}
        BY <1>r
      <3>3. w \in {v \in used : cb[v] = d}
        BY <1>r, <2>2
      <3>4. Cardinality({v \in used : cb[v] = d} \ {w}) =
              Cardinality({v \in used : cb[v] = d}) - 1
        BY <3>3, <2>1, <1>b, FS_RemoveElement
      <3> QED
        BY <3>1, <3>2, <3>4, <2>1, <1>b
    <2>3. CASE d # cb[w]
      <3>1. attach'[d] = attach[d]
        BY <2>1, <2>3, <1>d, <1>b DEF TypeOK
      <3>2. {v \in used' : cb[v] = d} = {v \in used : cb[v] = d}
        BY <1>r, <2>3
      <3> QED
        BY <3>1, <3>2, <2>1, <1>b
    <2> QED
      BY <2>2, <2>3
  <1> QED
    BY <1>1, <1>2, <1>3, <1>4, <1>5, <1>6, <1>7

\* shift_cb removes the oldest wrapper: head is the first of the sequence.
LEMMA ShiftRemoves ==
    ASSUME IInv, NEW l \in Lists, shift_cb(l)
    PROVE  Removes(l) /\ head[l] = order[l][1]
                      /\ tail[l] = order[l][Len(order[l])]
  <1>1. l # temp.list
    BY NullAssumption DEF shift_cb, Quiet
  <1>2. order[l] # <<>> /\ head[l] = order[l][1]
                        /\ tail[l] = order[l][Len(order[l])]
    BY <1>1 DEF IInv, ListsLinked, Linked, shift_cb
  <1> QED
    BY <1>2 DEF Removes, shift_cb

LEMMA ShiftIInv ==
    ASSUME IInv, NEW l \in Lists, shift_cb(l)
    PROVE  IInv'
  <1> DEFINE w == order[l][1]
  <1>0. Removes(l) /\ head[l] = w /\ tail[l] = order[l][Len(order[l])]
    BY ShiftRemoves
  <1>1. /\ order' \in [Lists -> Seq(Wrappers)]
        /\ used' \in SUBSET Wrappers
        /\ live' \in SUBSET Callbacks
        /\ attach' \in [Callbacks -> Nat]
        /\ \A m \in Lists : Chained(m)'
        /\ NoSharing' /\ CbLive' /\ IsFiniteSet(used)' /\ AttachCounts'
    BY <1>0, RemovesIInv
  <1>t. TypeOK
    BY DEF IInv
  <1>q. temp' = Quiet /\ temp'.list = NULL /\ temp'.at = NULL /\ temp.list = NULL
        /\ \A m \in Lists : m # NULL
    BY NullAssumption DEF shift_cb, Quiet
  <1>2. TypeOK'
    <2>1. cb[head[l]] \in Callbacks /\ next[head[l]] \in Wrappers \cup {NULL}
      BY <1>0, <1>t, RemovesIndex DEF TypeOK
    <2>2. target' \in Seq(Callbacks)
      BY <2>1 DEF shift_cb
    <2> QED
      BY <2>1, <2>2, <1>1, <1>t DEF TypeOK, shift_cb, TailAfterShift
  <1>3. ASSUME NEW m \in Lists PROVE Linked(m)'
    <2>1. CASE m # l
      <3>1. Linked(m)
        BY <1>q DEF IInv, ListsLinked
      <3>2. head'[m] = head[m] /\ tail'[m] = tail[m] /\ order'[m] = order[m]
        BY <2>1, <1>t, <1>0, RemovesIndex DEF shift_cb, TailAfterShift, TypeOK
      <3> QED
        BY <3>1, <3>2 DEF Linked
    <2>2. CASE m = l
      <3>1. next[w] = IF 1 = Len(order[l]) THEN NULL ELSE order[l][1 + 1]
        BY <1>0, <1>t, RemovesIndex DEF IInv, ListsLinked, Chained
      <3>2. head'[l] = next[w]
        BY <1>0, <1>t DEF shift_cb, TypeOK
      <3>3. CASE Len(order[l]) = 1
        <4>1. tail'[l] = NULL
          BY <3>3, <1>0, <1>t DEF shift_cb, TailAfterShift, TypeOK
        <4> QED
          BY <4>1, <3>1, <3>2, <3>3, <2>2, <1>0, <1>t, RemovesIndex DEF Linked
      <3>4. CASE Len(order[l]) # 1
        <4>1. /\ Len(order[l]) \in Nat \ {0} /\ Len(order[l]) \in DOMAIN order[l]
              /\ order'[l] # <<>>
              /\ 1 \in DOMAIN order'[l] /\ Len(order'[l]) \in DOMAIN order'[l]
              /\ Len(order'[l]) + 1 = Len(order[l])
          BY <3>4, <1>0, <1>t, RemovesIndex
        <4>2. tail[l] # head[l]
          <5>1. 1 \in DOMAIN order[l]
            BY <1>0, <1>t, RemovesIndex
          <5>2. order[l][1] # order[l][Len(order[l])]
            BY <5>1, <4>1, <3>4 DEF IInv, NoSharing
          <5> QED
            BY <5>2, <1>0
        <4>3. tail'[l] = order[l][Len(order[l])]
          BY <4>2, <1>0 DEF shift_cb, TailAfterShift
        <4>4. order'[l][1] = order[l][1 + 1]
              /\ order'[l][Len(order'[l])] = order[l][Len(order[l])]
          BY <4>1, <1>0, <1>t, RemovesIndex
        <4> QED
          BY <4>1, <4>3, <4>4, <3>1, <3>2, <3>4, <2>2 DEF Linked
      <3> QED
        BY <3>3, <3>4
    <2> QED
      BY <2>1, <2>2
  <1>4. ListsLinked'
    BY <1>1, <1>3, <1>q DEF ListsLinked
  <1> QED
    BY <1>1, <1>2, <1>4 DEF IInv

\* destroy_list_step removes the oldest wrapper of the list being destroyed.
LEMMA StepRemoves ==
    ASSUME IInv, destroy_list_step
    PROVE  /\ temp.list \in Lists
           /\ Removes(temp.list)
           /\ temp.at = order[temp.list][1]
  <1>1. temp.list \in Lists
    BY DEF destroy_list_step, IInv, TypeOK
  <1>2. order[temp.list] # <<>> /\ temp.at = order[temp.list][1]
    BY <1>1 DEF destroy_list_step, IInv, ListsLinked
  <1> QED
    BY <1>1, <1>2 DEF Removes, destroy_list_step

LEMMA StepIInv ==
    ASSUME IInv, destroy_list_step
    PROVE  IInv'
  <1> DEFINE l == temp.list
  <1> DEFINE w == order[l][1]
  <1>0. l \in Lists /\ Removes(l) /\ temp.at = w
    BY StepRemoves
  <1>t. TypeOK
    BY DEF IInv
  <1>1. /\ order' \in [Lists -> Seq(Wrappers)]
        /\ used' \in SUBSET Wrappers
        /\ live' \in SUBSET Callbacks
        /\ attach' \in [Callbacks -> Nat]
        /\ \A m \in Lists : Chained(m)'
        /\ NoSharing' /\ CbLive' /\ IsFiniteSet(used)' /\ AttachCounts'
    BY <1>0, RemovesIInv
  <1>q. temp'.list = l /\ temp'.at = next[w]
        /\ temp' \in [list : Lists \cup {NULL}, at : Wrappers \cup {NULL}]
    BY <1>0, <1>t, RemovesIndex DEF destroy_list_step, TypeOK
  <1>2. TypeOK'
    BY <1>1, <1>t, <1>q DEF TypeOK, destroy_list_step
  <1>3. ASSUME NEW m \in Lists, m # temp'.list PROVE Linked(m)'
    <2>1. Linked(m)
      BY <1>3, <1>q DEF IInv, ListsLinked
    <2>2. head'[m] = head[m] /\ tail'[m] = tail[m] /\ order'[m] = order[m]
      BY <1>3, <1>q, <1>0, <1>t, RemovesIndex DEF destroy_list_step
    <2> QED
      BY <2>1, <2>2 DEF Linked
  <1>4. temp'.at = IF order'[l] = <<>> THEN NULL ELSE order'[l][1]
    <2>1. next[w] = IF 1 = Len(order[l]) THEN NULL ELSE order[l][1 + 1]
      BY <1>0, <1>t, RemovesIndex DEF IInv, ListsLinked, Chained
    <2>2. CASE Len(order[l]) = 1
      BY <2>1, <2>2, <1>q, <1>0, <1>t, RemovesIndex
    <2>3. CASE Len(order[l]) # 1
      <3>1. order'[l] # <<>> /\ 1 \in DOMAIN order'[l]
        BY <2>3, <1>0, <1>t, RemovesIndex
      <3>2. order'[l][1] = order[l][1 + 1]
        BY <3>1, <1>0, <1>t, RemovesIndex
      <3> QED
        BY <3>1, <3>2, <2>1, <2>3, <1>q
    <2> QED
      BY <2>2, <2>3
  <1>5. ListsLinked'
    BY <1>0, <1>1, <1>3, <1>4, <1>q, NullAssumption DEF ListsLinked
  <1> QED
    BY <1>1, <1>2, <1>5 DEF IInv

\* The first and the last step of destroy_list, and shift_cb of an empty
\* list, leave the wrappers alone.
LEMMA OthersIInv ==
    ASSUME IInv, \/ \E l \in Lists : shift_cb_empty(l) \/ destroy_list(l)
                 \/ destroy_list_end
                 \/ UNCHANGED vars
    PROVE  IInv'
  <1> USE DEF IInv
  <1>1. ASSUME NEW l \in Lists, shift_cb_empty(l) PROVE IInv'
    BY <1>1 DEF shift_cb_empty, TypeOK, ListsLinked, Linked, Chained, NoSharing,
                CbLive, AttachCounts
  <1>2. ASSUME NEW l \in Lists, destroy_list(l) PROVE IInv'
    <2>1. /\ temp.list = NULL /\ l # NULL /\ temp'.list = l /\ temp'.at = head[l]
          /\ UNCHANGED <<head, tail, next, cb, used, live, attach, target, order>>
      BY <1>2, NullAssumption DEF destroy_list, Quiet
    <2>2. Linked(l) /\ \A m \in Lists : Linked(m) /\ Chained(m)
      BY <2>1, NullAssumption DEF ListsLinked
    <2>3. ListsLinked'
      BY <2>1, <2>2 DEF ListsLinked, Linked, Chained
    <2>4. TypeOK'
      BY <1>2 DEF destroy_list, TypeOK
    <2>5. NoSharing' /\ CbLive' /\ IsFiniteSet(used)' /\ AttachCounts'
      BY <2>1 DEF NoSharing, CbLive, AttachCounts
    <2> QED
      BY <2>3, <2>4, <2>5
  <1>3. ASSUME destroy_list_end PROVE IInv'
    <2> DEFINE l == temp.list
    <2>1. /\ l \in Lists /\ temp'.list = NULL
          /\ UNCHANGED <<next, cb, used, live, attach, target, order>>
          /\ temp' = Quiet
      BY <1>3 DEF destroy_list_end, TypeOK, Quiet
    <2>2. order[l] = <<>>
      <3> SUFFICES ASSUME order[l] # <<>> PROVE FALSE
        OBVIOUS
      <3>1. temp.at = order[l][1] /\ order[l][1] \in Wrappers
        BY <1>3, <2>1, TailIndex DEF ListsLinked, TypeOK, destroy_list_end
      <3> QED
        BY <3>1, <1>3, NullAssumption DEF destroy_list_end
    <2>3. TypeOK'
      BY <1>3, <2>1 DEF TypeOK, destroy_list_end, EndsReset, Quiet
    <2>4. ASSUME NEW m \in Lists PROVE Linked(m)' /\ Chained(m)'
      <3>1. Chained(m)'
        BY <2>1 DEF ListsLinked, Chained
      <3>2. CASE m = l
        <4>1. head'[m] = NULL /\ tail'[m] = NULL
          BY <3>2, <1>3 DEF destroy_list_end, EndsReset, TypeOK
        <4> QED
          BY <3>1, <3>2, <4>1, <2>1, <2>2 DEF Linked
      <3>3. CASE m # l
        <4>1. head'[m] = head[m] /\ tail'[m] = tail[m]
          BY <3>3, <1>3 DEF destroy_list_end, EndsReset, TypeOK
        <4>2. Linked(m)
          BY <3>3 DEF ListsLinked
        <4> QED
          BY <3>1, <4>1, <4>2, <2>1 DEF Linked
      <3> QED
        BY <3>2, <3>3
    <2>5. ListsLinked'
      BY <2>1, <2>4 DEF ListsLinked, Quiet
    <2> QED
      BY <2>1, <2>3, <2>5 DEF NoSharing, CbLive, AttachCounts
  <1>4. ASSUME UNCHANGED vars PROVE IInv'
    BY <1>4 DEF vars, TypeOK, ListsLinked, Linked, Chained, NoSharing, CbLive,
                AttachCounts
  <1> QED
    BY <1>1, <1>2, <1>3, <1>4

\* Every operation of the lists keeps the invariant.
LEMMA NextIInv == IInv /\ [Next]_vars => IInv'
  <1> SUFFICES ASSUME IInv, [Next]_vars PROVE IInv'
    OBVIOUS
  <1>1. ASSUME NEW c \in Callbacks, create_callback(c) PROVE IInv'
    BY <1>1, CreateIInv
  <1>2. ASSUME NEW l \in Lists, NEW c \in Callbacks, NEW w \in Wrappers,
               push_cb(l, c, w)
        PROVE  IInv'
    BY <1>2, PushIInv
  <1>3. ASSUME NEW l \in Lists, shift_cb(l) PROVE IInv'
    BY <1>3, ShiftIInv
  <1>4. CASE destroy_list_step
    BY <1>4, StepIInv
  <1>5. CASE \/ \E l \in Lists : shift_cb_empty(l) \/ destroy_list(l)
             \/ destroy_list_end
             \/ UNCHANGED vars
    BY <1>5, OthersIInv
  <1> QED
    BY <1>1, <1>2, <1>3, <1>4, <1>5 DEF Next

\* The pointers of every list are right at all times: head, tail and next
\* spell out the wrappers pushed and not shifted, in order.
THEOREM ListsAreLinked == Spec => [](TypeOK /\ ListsLinked /\ NoSharing)
  <1>1. Init => IInv
    BY InitIInv
  <1>2. IInv /\ [Next]_vars => IInv'
    BY NextIInv
  <1>3. IInv => TypeOK /\ ListsLinked /\ NoSharing
    BY DEF IInv
  <1> QED
    BY <1>1, <1>2, <1>3, PTL DEF Spec

\* attach counts the wrappers of every callback at all times.
THEOREM AttachIsExact == Spec => []AttachCounts
  <1>1. Init => IInv
    BY InitIInv
  <1>2. IInv /\ [Next]_vars => IInv'
    BY NextIInv
  <1>3. IInv => AttachCounts
    BY DEF IInv
  <1> QED
    BY <1>1, <1>2, <1>3, PTL DEF Spec

\* What the invariant says of reachable memory.
LEMMA IInvNoDangling == IInv => NoDangling
  <1> SUFFICES ASSUME IInv PROVE NoDangling
    OBVIOUS
  <1> USE DEF IInv
  <1>1. ASSUME NEW w \in used PROVE cb[w] \in live /\ next[w] \in used \cup {NULL}
    <2>1. PICK l \in Lists : \E i \in DOMAIN order[l] : order[l][i] = w
      BY <1>1 DEF NoSharing
    <2>2. PICK i \in DOMAIN order[l] : order[l][i] = w
      BY <2>1
    <2>3. next[w] = IF i = Len(order[l]) THEN NULL ELSE order[l][i + 1]
      BY <2>2 DEF ListsLinked, Chained
    <2>4. i # Len(order[l]) => i + 1 \in DOMAIN order[l]
      BY <2>2, OrderFacts
    <2> QED
      BY <1>1, <2>3, <2>4 DEF CbLive, NoSharing
  <1>2. ASSUME NEW l \in Lists PROVE order[l] # <<>> =>
          order[l][1] \in used /\ order[l][Len(order[l])] \in used
    <2> SUFFICES ASSUME order[l] # <<>>
                 PROVE  order[l][1] \in used /\ order[l][Len(order[l])] \in used
      OBVIOUS
    <2>1. 1 \in DOMAIN order[l] /\ Len(order[l]) \in DOMAIN order[l]
      BY OrderFacts
    <2> QED
      BY <2>1 DEF NoSharing
  <1>3. ASSUME NEW l \in Lists, l # temp.list
        PROVE  {head[l], tail[l]} \subseteq used \cup {NULL}
    BY <1>2, <1>3 DEF ListsLinked, Linked
  <1>4. temp.at \in used \cup {NULL}
    <2>1. temp.list \in Lists \cup {NULL}
      BY DEF TypeOK
    <2> QED
      BY <2>1, <1>2 DEF ListsLinked
  <1> QED
    BY <1>1, <1>3, <1>4 DEF NoDangling

\* No list, link or loop of cb.c reaches freed memory.
THEOREM NothingDangles == Spec => []NoDangling
  <1>1. Init => IInv
    BY InitIInv
  <1>2. IInv /\ [Next]_vars => IInv'
    BY NextIInv
  <1>3. IInv => NoDangling
    BY IInvNoDangling
  <1> QED
    BY <1>1, <1>2, <1>3, PTL DEF Spec

-----------------------------------------------------------------------------
(* The lists implement CallbackFifo.                                       *)

\* The callbacks of a sequence of wrappers.
CbsOf(s, f) == [i \in DOMAIN s |-> f[s[i]]]

LEMMA CbsOfEmpty == \A f : CbsOf(<<>>, f) = <<>>
  BY DEF CbsOf

LEMMA CbsOfSeq ==
    ASSUME NEW s \in Seq(Wrappers), NEW f \in [Wrappers -> Callbacks]
    PROVE  /\ CbsOf(s, f) \in Seq(Callbacks)
           /\ Len(CbsOf(s, f)) = Len(s)
           /\ DOMAIN CbsOf(s, f) = 1..Len(s)
           /\ \A i \in 1..Len(s) : CbsOf(s, f)[i] = f[s[i]]
  <1>1. Len(s) \in Nat /\ DOMAIN s = 1..Len(s) /\ \A i \in 1..Len(s) : s[i] \in Wrappers
    BY LenProperties
  <1> QED
    BY <1>1 DEF CbsOf

LEMMA CbsOfAppend ==
    ASSUME NEW s \in Seq(Wrappers), NEW w \in Wrappers,
           NEW f \in [Wrappers -> Callbacks], NEW g \in [Wrappers -> Callbacks],
           \A i \in DOMAIN s : g[s[i]] = f[s[i]]
    PROVE  CbsOf(Append(s, w), g) = Append(CbsOf(s, f), g[w])
  <1>0. Len(s) \in Nat /\ DOMAIN s = 1..Len(s) /\ g[w] \in Callbacks
    BY LenProperties
  <1>1. /\ CbsOf(s, f) \in Seq(Callbacks) /\ Len(CbsOf(s, f)) = Len(s)
        /\ \A i \in 1..Len(s) : CbsOf(s, f)[i] = f[s[i]]
    BY CbsOfSeq
  <1>2. /\ Append(s, w) \in Seq(Wrappers) /\ Len(Append(s, w)) = Len(s) + 1
        /\ \A i \in 1..Len(s) : Append(s, w)[i] = s[i]
        /\ Append(s, w)[Len(s) + 1] = w
    BY AppendIndex
  <1>3. /\ CbsOf(Append(s, w), g) \in Seq(Callbacks)
        /\ Len(CbsOf(Append(s, w), g)) = Len(s) + 1
        /\ \A i \in 1..(Len(s) + 1) : CbsOf(Append(s, w), g)[i] = g[Append(s, w)[i]]
    <2> DEFINE t == Append(s, w)
    <2>1. t \in Seq(Wrappers) /\ Len(t) = Len(s) + 1
      BY <1>2
    <2> HIDE DEF t
    <2>2. /\ CbsOf(t, g) \in Seq(Callbacks) /\ Len(CbsOf(t, g)) = Len(t)
          /\ \A i \in 1..Len(t) : CbsOf(t, g)[i] = g[t[i]]
      BY <2>1, CbsOfSeq
    <2>3. \A i \in 1..(Len(s) + 1) : CbsOf(t, g)[i] = g[t[i]]
      BY <2>1, <2>2
    <2> QED
      BY <2>1, <2>2, <2>3 DEF t
  <1>4. /\ Append(CbsOf(s, f), g[w]) \in Seq(Callbacks)
        /\ Len(Append(CbsOf(s, f), g[w])) = Len(s) + 1
        /\ \A i \in 1..Len(s) : Append(CbsOf(s, f), g[w])[i] = f[s[i]]
        /\ Append(CbsOf(s, f), g[w])[Len(s) + 1] = g[w]
    BY <1>0, <1>1, AppendIndex
  <1>5. ASSUME NEW i \in 1..(Len(s) + 1)
        PROVE  CbsOf(Append(s, w), g)[i] = Append(CbsOf(s, f), g[w])[i]
    <2>1. i \in 1..Len(s) \/ i = Len(s) + 1
      BY <1>0
    <2> QED
      BY <2>1, <1>0, <1>2, <1>3, <1>4
  <1> QED
    BY <1>3, <1>4, <1>5, SeqEqual

LEMMA CbsOfTail ==
    ASSUME NEW s \in Seq(Wrappers), s # <<>>, NEW f \in [Wrappers -> Callbacks]
    PROVE  /\ CbsOf(s, f) # <<>>
           /\ Head(CbsOf(s, f)) = f[s[1]]
           /\ CbsOf(Tail(s), f) = Tail(CbsOf(s, f))
  <1>1. /\ CbsOf(s, f) \in Seq(Callbacks) /\ Len(CbsOf(s, f)) = Len(s)
        /\ \A i \in 1..Len(s) : CbsOf(s, f)[i] = f[s[i]]
    BY CbsOfSeq
  <1>2. /\ Tail(s) \in Seq(Wrappers) /\ Len(s) \in Nat \ {0}
        /\ Len(Tail(s)) = Len(s) - 1
        /\ \A i \in 1..(Len(s) - 1) : Tail(s)[i] = s[i + 1]
    BY TailIndex
  <1>3. CbsOf(s, f) # <<>>
    BY <1>1, <1>2, EmptySeq
  <1>4. /\ Tail(CbsOf(s, f)) \in Seq(Callbacks)
        /\ Len(Tail(CbsOf(s, f))) = Len(s) - 1
        /\ \A i \in 1..(Len(s) - 1) : Tail(CbsOf(s, f))[i] = CbsOf(s, f)[i + 1]
        /\ Head(CbsOf(s, f)) = CbsOf(s, f)[1]
    BY <1>1, <1>3, TailIndex
  <1>5. /\ CbsOf(Tail(s), f) \in Seq(Callbacks)
        /\ Len(CbsOf(Tail(s), f)) = Len(s) - 1
        /\ \A i \in 1..(Len(s) - 1) : CbsOf(Tail(s), f)[i] = f[Tail(s)[i]]
    BY <1>2, CbsOfSeq, ZenonT(30)
  <1>6. ASSUME NEW i \in 1..(Len(s) - 1)
        PROVE  CbsOf(Tail(s), f)[i] = Tail(CbsOf(s, f))[i]
    <2>1. i + 1 \in 1..Len(s)
      BY <1>2
    <2> QED
      BY <2>1, <1>1, <1>2, <1>4, <1>5
  <1>7. CbsOf(Tail(s), f) = Tail(CbsOf(s, f))
    BY <1>4, <1>5, <1>6, SeqEqual
  <1> QED
    BY <1>1, <1>2, <1>3, <1>4, <1>7

\* The queues the lists stand for.
Queues == [l \in Lists |-> CbsOf(order[l], cb)]

\* A removal is a Leave of the abstract queue.
LEMMA RemovesLeave ==
    ASSUME IInv, NEW l \in Lists, Removes(l)
    PROVE  /\ Queues[l] # <<>>
           /\ Head(Queues[l]) = cb[order[l][1]]
           /\ Queues' = [Queues EXCEPT ![l] = Tail(@)]
           /\ live' = IF Fifo!WaitsIn(Head(Queues[l]), Queues')
                        THEN live ELSE live \ {Head(Queues[l])}
  <1> DEFINE w == order[l][1]
  <1> USE DEF IInv
  <1>0. /\ order[l] \in Seq(Wrappers) /\ order[l] # <<>>
        /\ cb \in [Wrappers -> Callbacks] /\ cb' = cb
        /\ order'[l] = Tail(order[l])
        /\ \A m \in Lists : m # l => order'[m] = order[m]
        /\ order' \in [Lists -> Seq(Wrappers)]
    BY RemovesIndex DEF Removes, TypeOK
  <1>1. Queues[l] # <<>> /\ Head(Queues[l]) = cb[w]
    BY <1>0, CbsOfTail DEF Queues
  <1>2. \A m \in Lists : Queues'[m] = IF m = l THEN Tail(Queues[l]) ELSE Queues[m]
    BY <1>0, CbsOfTail, ZenonT(30) DEF Queues
  <1>3. Queues' = [Queues EXCEPT ![l] = Tail(@)]
    BY <1>2 DEF Queues
  <1>4. /\ w \in used /\ cb[w] \in live /\ used' = used \ {w}
    BY RemovesIndex DEF Removes, NoSharing, CbLive, destroy_wrapper
  <1>5. Fifo!WaitsIn(cb[w], Queues') <=> \E v \in used' : cb[v] = cb[w]
    <2>1. ASSUME NEW m \in Lists
          PROVE  /\ DOMAIN Queues'[m] = DOMAIN order'[m]
                 /\ \A i \in DOMAIN order'[m] : Queues'[m][i] = cb[order'[m][i]]
      BY <1>0 DEF Queues, CbsOf
    <2>2. NoSharing'
      BY RemovesIInv
    <2>3. ASSUME NEW v \in used', cb[v] = cb[w] PROVE Fifo!WaitsIn(cb[w], Queues')
      <3>1. PICK m \in Lists : \E i \in DOMAIN order'[m] : order'[m][i] = v
        BY <2>2, <2>3 DEF NoSharing
      <3>2. PICK i \in DOMAIN order'[m] : order'[m][i] = v
        BY <3>1
      <3>3. i \in DOMAIN Queues'[m] /\ Queues'[m][i] = cb[w]
        BY <3>2, <2>1, <2>3
      <3> QED
        BY <3>3 DEF Fifo!WaitsIn
    <2>4. ASSUME Fifo!WaitsIn(cb[w], Queues') PROVE \E v \in used' : cb[v] = cb[w]
      <3>1. PICK m \in Lists : \E i \in DOMAIN Queues'[m] : Queues'[m][i] = cb[w]
        BY <2>4 DEF Fifo!WaitsIn
      <3>2. PICK i \in DOMAIN Queues'[m] : Queues'[m][i] = cb[w]
        BY <3>1
      <3>3. i \in DOMAIN order'[m] /\ cb[order'[m][i]] = cb[w]
        BY <3>2, <2>1
      <3>4. order'[m][i] \in used'
        BY <3>3, <2>2 DEF NoSharing
      <3> QED
        BY <3>3, <3>4
    <2> QED
      BY <2>3, <2>4
  <1>6. (\E v \in used' : cb[v] = cb[w]) <=> attach[cb[w]] # 1
    <2> DEFINE B == {v \in used : cb[v] = cb[w]}
    <2>1. IsFiniteSet(B) /\ attach[cb[w]] = Cardinality(B) /\ w \in B
      BY <1>4, FS_Subset DEF AttachCounts
    <2>2. attach[cb[w]] = 1 <=> \E x : B = {x}
      BY <2>1, FS_Singleton
    <2>3. (\E x : B = {x}) <=> B = {w}
      BY <2>1
    <2>4. B # {w} <=> \E v \in used : v # w /\ cb[v] = cb[w]
      BY <1>4
    <2> QED
      BY <2>2, <2>3, <2>4, <1>4
  <1>7. live' = IF attach[cb[w]] = 1 THEN live \ {cb[w]} ELSE live
    BY DEF Removes, destroy_wrapper, LastWrapper
  <1> QED
    BY <1>1, <1>3, <1>5, <1>6, <1>7

\* Every step of the lists is a step of the queues or changes nothing there.
LEMMA NextFifo ==
    ASSUME IInv, [Next]_vars
    PROVE  \/ \E c \in Callbacks : Fifo!Create(c)
           \/ \E l \in Lists, c \in Callbacks : Fifo!Push(l, c)
           \/ \E l \in Lists : Fifo!Shift(l) \/ Fifo!ShiftEmpty(l) \/ Fifo!Drop(l)
           \/ UNCHANGED <<Queues, live, target>>
  <1> USE DEF IInv
  <1>1. ASSUME NEW c \in Callbacks, create_callback(c) PROVE Fifo!Create(c)
    BY <1>1 DEF create_callback, Fifo!Create
  <1>2. ASSUME NEW l \in Lists, NEW c \in Callbacks, NEW w \in Wrappers,
               push_cb(l, c, w)
        PROVE  Fifo!Push(l, c)
    <2>1. /\ cb \in [Wrappers -> Callbacks] /\ cb' \in [Wrappers -> Callbacks]
          /\ cb'[w] = c /\ \A v \in Wrappers : v # w => cb'[v] = cb[v]
          /\ order'[l] = Append(order[l], w)
          /\ \A m \in Lists : m # l => order'[m] = order[m]
      BY <1>2 DEF push_cb, TypeOK
    <2>2. ASSUME NEW m \in Lists, NEW i \in DOMAIN order[m]
          PROVE  cb'[order[m][i]] = cb[order[m][i]]
      <3>1. order[m][i] \in used /\ order[m][i] \in Wrappers
        BY DEF NoSharing, TypeOK
      <3> QED
        BY <3>1, <2>1, <1>2 DEF push_cb
    <2>3. \A m \in Lists : Queues'[m] = IF m = l THEN Append(Queues[l], c) ELSE Queues[m]
      <3> SUFFICES ASSUME NEW m \in Lists
                   PROVE  CbsOf(order'[m], cb') =
                            IF m = l THEN Append(CbsOf(order[l], cb), c)
                                     ELSE CbsOf(order[m], cb)
        BY DEF Queues
      <3>1. CASE m = l
        <4>1. order[l] \in Seq(Wrappers)
          BY DEF TypeOK
        <4>2. CbsOf(Append(order[l], w), cb') = Append(CbsOf(order[l], cb), cb'[w])
          BY <4>1, <2>1, <2>2, CbsOfAppend
        <4> QED
          BY <4>2, <3>1, <2>1
      <3>2. CASE m # l
        BY <3>2, <2>1, <2>2 DEF CbsOf
      <3> QED
        BY <3>1, <3>2
    <2>4. Queues' = [Queues EXCEPT ![l] = Append(@, c)]
      BY <2>3 DEF Queues
    <2> QED
      BY <2>4, <1>2 DEF push_cb, Fifo!Push, Queues, CbsOf
  <1>3. ASSUME NEW l \in Lists, shift_cb(l) PROVE Fifo!Shift(l)
    <2>1. Removes(l) /\ head[l] = order[l][1]
      BY <1>3, ShiftRemoves
    <2>2. target' = <<cb[order[l][1]]>>
      BY <2>1, <1>3 DEF shift_cb
    <2> QED
      BY <2>1, <2>2, RemovesLeave DEF Fifo!Shift, Fifo!Leave, Queues, CbsOf
  <1>4. ASSUME NEW l \in Lists, shift_cb_empty(l) PROVE Fifo!ShiftEmpty(l)
    <2>1. l # temp.list
      BY <1>4, NullAssumption DEF shift_cb_empty, Quiet
    <2>2. order[l] = <<>>
      <3> SUFFICES ASSUME order[l] # <<>> PROVE FALSE
        OBVIOUS
      <3>1. head[l] = order[l][1] /\ order[l][1] \in Wrappers
        BY <2>1, TailIndex DEF ListsLinked, Linked, TypeOK
      <3> QED
        BY <3>1, <1>4, NullAssumption DEF shift_cb_empty
    <2> QED
      BY <2>2, <1>4 DEF shift_cb_empty, Fifo!ShiftEmpty
  <1>5. ASSUME destroy_list_step PROVE \E l \in Lists : Fifo!Drop(l)
    <2>1. temp.list \in Lists /\ Removes(temp.list)
      BY <1>5, StepRemoves
    <2>2. target' = target
      BY <1>5 DEF destroy_list_step
    <2> QED
      BY <2>1, <2>2, RemovesLeave DEF Fifo!Drop, Fifo!Leave, Queues, CbsOf
  <1>6. ASSUME NEW l \in Lists, destroy_list(l) PROVE UNCHANGED <<Queues, live, target>>
    BY <1>6 DEF destroy_list, Queues
  <1>7. ASSUME destroy_list_end PROVE UNCHANGED <<Queues, live, target>>
    BY <1>7 DEF destroy_list_end, Queues
  <1>8. ASSUME UNCHANGED vars PROVE UNCHANGED <<Queues, live, target>>
    BY <1>8 DEF vars, Queues
  <1> QED
    BY <1>1, <1>2, <1>3, <1>4, <1>5, <1>6, <1>7, <1>8 DEF Next

\* The pointer lists of cb.c implement the queues with shared ownership.
THEOREM ListsImplementFifo == Spec => FifoSpec
  <1>1. Init => IInv
    BY InitIInv
  <1>2. IInv /\ [Next]_vars => IInv'
    BY NextIInv
  <1>3. Init => Fifo!FifoInit
    BY DEF Init, Fifo!FifoInit
  <1>4. IInv /\ [Next]_vars => [Fifo!FifoNext]_(Fifo!fifoVars)
    <2> SUFFICES ASSUME IInv, [Next]_vars PROVE [Fifo!FifoNext]_(Fifo!fifoVars)
      OBVIOUS
    <2>1. UNCHANGED <<Queues, live, target>> => UNCHANGED Fifo!fifoVars
      BY DEF Queues, CbsOf, Fifo!fifoVars
    <2> QED
      BY <2>1, NextFifo DEF Fifo!FifoNext
  <1> QED
    BY <1>1, <1>2, <1>3, <1>4, PTL DEF Spec, FifoSpec, Fifo!FifoSpec

=============================================================================
