------------------------- MODULE RedisReaderProofs -------------------------
(***************************************************************************)
(* Proofs about the reply parser, for every set of replies and every       *)
(* encoding of them, any depth of the task stack, any number of            *)
(* connections and any cut of their bytes into chunks; and, at the end,    *)
(* about the length of a formatted command.                                *)
(***************************************************************************)
EXTENDS RedisReader, CommandFormat, NaturalFacts, SequenceTheorems, FiniteSetTheorems

-----------------------------------------------------------------------------
(* Numbers.                                                                *)

LEMMA DigitType == \A c \in DOMAIN Digits : Digits[c] \in Int
  BY DEF Digits

\* The recursive function of NumberOf exists, and its values are numbers.
LEMMA NumberOfType ==
    ASSUME NEW d \in Seq(DOMAIN Digits)
    PROVE  NumberOf(d) \in Int
  <1> DEFINE Body(f, n) == IF n = 0 THEN 0 ELSE f[n - 1] * 10 + Digits[d[n]]
             Good == {n \in Nat : n <= Len(d) => \E f \in [0..n -> Int] :
                                     \A m \in 0..n : f[m] = Body(f, m)}
  <1>1. Len(d) \in Nat /\ \A n \in 1..Len(d) : Digits[d[n]] \in Int
    BY DigitType, LenProperties, ElementOfSeq
  <1>2. 0 \in Good
    <2>1. [n \in {0} |-> 0] \in [0..0 -> Int]
      OBVIOUS
    <2>2. \A m \in 0..0 : [n \in {0} |-> 0][m] = Body([n \in {0} |-> 0], m)
      OBVIOUS
    <2> QED
      BY <2>1, <2>2
  <1>3. ASSUME NEW n \in Nat, n \in Good, n + 1 <= Len(d) PROVE n + 1 \in Good
    <2>1. PICK f \in [0..n -> Int] : \A m \in 0..n : f[m] = Body(f, m)
      BY <1>1, <1>3, SMTT(30)
    <2> DEFINE g == [m \in 0..(n + 1) |-> IF m <= n THEN f[m] ELSE f[n] * 10 + Digits[d[n + 1]]]
    <2>2. Digits[d[n + 1]] \in Int
      BY <1>1, <1>3
    <2>3. g \in [0..(n + 1) -> Int]
      BY <2>2
    <2>4. ASSUME NEW m \in 0..(n + 1) PROVE g[m] = Body(g, m)
      <3>1. CASE m = 0
        BY <3>1, <2>1
      <3>2. CASE m \in 1..n
        <4>1. g[m] = f[m] /\ g[m - 1] = f[m - 1] /\ m \in 0..n
          BY <3>2
        <4> QED
          BY <3>2, <4>1, <2>1
      <3>3. CASE m = n + 1
        BY <3>3
      <3> QED
        BY <3>1, <3>2, <3>3
    <2> HIDE DEF g
    <2>5. \E h \in [0..(n + 1) -> Int] : \A m \in 0..(n + 1) : h[m] = Body(h, m)
      <3> WITNESS g \in [0..(n + 1) -> Int]
      <3> QED
        BY <2>4
    <2>6. n + 1 \in Nat
      OBVIOUS
    <2> QED
      BY <2>5, <2>6, Zenon
  <1>4. Nat \subseteq Good
    <2>1. ASSUME NEW n \in Nat, n \in Good PROVE n + 1 \in Good
      <3>1. CASE n + 1 <= Len(d)
        BY <2>1, <3>1, <1>3
      <3>2. CASE ~(n + 1 <= Len(d))
        BY <3>2
      <3> QED
        BY <3>1, <3>2
    <2> HIDE DEF Good
    <2> QED
      BY <1>2, <2>1, SetInduction
  <1>5. PICK f \in [0..Len(d) -> Int] : \A m \in 0..Len(d) : f[m] = Body(f, m)
    <2>1. Len(d) \in Good
      BY <1>1, <1>4
    <2>2. Len(d) <= Len(d)
      BY <1>1
    <2>3. \E f \in [0..Len(d) -> Int] : \A m \in 0..Len(d) : f[m] = Body(f, m)
      BY <2>1, <2>2, Zenon
    <2> QED
      BY <2>3
  <1>6. f = [n \in 0..Len(d) |-> Body(f, n)]
    BY <1>5
  <1> DEFINE v == CHOOSE h : h = [n \in 0..Len(d) |-> Body(h, n)]
  <1>7. v = [n \in 0..Len(d) |-> Body(v, n)]
    BY <1>6, Zenon
  <1> HIDE DEF v
  <1> DEFINE Numbers == {n \in Nat : n <= Len(d) => v[n] \in Int}
  <1>8. Nat \subseteq Numbers
    <2>1. 0 \in Numbers
      BY <1>1, <1>7
    <2>2. ASSUME NEW n \in Nat, n \in Numbers PROVE n + 1 \in Numbers
      <3>1. SUFFICES ASSUME n + 1 <= Len(d) PROVE v[n + 1] \in Int
        OBVIOUS
      <3>2. n + 1 \in 0..Len(d) /\ n + 1 # 0 /\ n <= Len(d) /\ Digits[d[n + 1]] \in Int
        BY <3>1, <1>1
      <3>3. v[n + 1] = v[(n + 1) - 1] * 10 + Digits[d[n + 1]]
        BY <3>2, <1>7
      <3> QED
        BY <3>2, <3>3, <2>2
    <2> HIDE DEF Numbers
    <2> QED
      BY <2>1, <2>2, SetInduction
  <1>9. NumberOf(d) = v[Len(d)]
    BY DEF NumberOf, v
  <1> QED
    BY <1>1, <1>8, <1>9

\* A part of a sequence of bytes is one.
LEMMA SubBytes ==
    ASSUME NEW s \in Seq(Bytes), NEW m \in Int, NEW n \in Int, m >= 1, n <= Len(s)
    PROVE  SubSeq(s, m, n) \in Seq(Bytes)
  <1>1. Len(s) \in Nat /\ \A i \in 1..Len(s) : s[i] \in Bytes
    BY LenProperties, ElementOfSeq
  <1>2. CASE m <= n
    BY <1>1, <1>2, SubSeqProperties
  <1>3. CASE ~(m <= n)
    BY <1>3, SubSeqEmpty
  <1> QED
    BY <1>2, <1>3

\* What a narrower integer keeps of a number, and that it keeps the number if
\* it can.
LEMMA SignedIs ==
    ASSUME NEW n \in Int, NEW half \in Nat \ {0}
    PROVE  /\ Signed(n, half) \in Int
           /\ -half <= Signed(n, half) /\ Signed(n, half) < half
           /\ -half <= n /\ n < half => Signed(n, half) = n
  <1> DEFINE m == 2 * half
             r == (n + half) % m
  <1>1. m \in Nat /\ m > 0 /\ n + half \in Int /\ m = 2 * half
    OBVIOUS
  <1>2. r \in Int /\ 0 <= r /\ r < m
    BY <1>1, SMTT(30)
  <1>3. 0 <= n + half /\ n + half < m => r = n + half
    BY <1>1, SMTT(30)
  <1>4. Signed(n, half) = r - half
    BY DEF Signed
  <1> HIDE DEF r, m
  <1> QED
    BY <1>1, <1>2, <1>3, <1>4

\* The size_t of an int: itself, or one beyond any positive int.
LEMMA WidenIs ==
    ASSUME NEW n \in Int, -IntHalf <= n, n < IntHalf
    PROVE  /\ n % (2 * LongHalf) \in Nat
           /\ n >= 0 => n % (2 * LongHalf) = n
           /\ n < 0 => n % (2 * LongHalf) >= IntHalf
  <1> DEFINE m == 2 * LongHalf
  <1>1. /\ m \in Nat /\ m > 0 /\ IntHalf \in Nat /\ IntHalf > 0 /\ LongHalf \in Nat
        /\ m >= 2 * IntHalf
    BY ReaderAssumption
  <1> HIDE DEF m
  <1>2. n % m \in Nat
    BY <1>1, SMTT(30)
  <1>3. CASE n >= 0
    <2>1. n < m
      BY <1>1
    <2> QED
      BY <1>1, <1>2, <1>3, <2>1, SMTT(30) DEF m
  <1>4. CASE n < 0
    <2>1. 0 <= n + m /\ n + m < m
      BY <1>1, <1>4
    <2>2. n % m = n + m
      BY <1>1, <1>4, <2>1, SMTT(30)
    <2> QED
      BY <1>1, <1>2, <1>4, <2>2 DEF m
  <1> QED
    BY <1>1, <1>3, <1>4

\* An array is created with a vector exactly for a positive int, which the
\* size announced is if it is positive and an int holds it.
LEMMA ArrayOfIs ==
    ASSUME NEW n \in Int
    PROVE  /\ ArrayOf(n) \in Objects
           /\ ArrayOf(n).type = "ARRAY" /\ ArrayOf(n).num = n
           /\ HasVector(ArrayOf(n)) =>
                  ArrayOf(n).elements = Signed(n, IntHalf) /\ Signed(n, IntHalf) > 0
           /\ n > 0 /\ n < IntHalf => HasVector(ArrayOf(n))
           /\ n >= 0 /\ n < IntHalf => ArrayOf(n).elements = n
           /\ Signed(n, IntHalf) \in Int
  <1> DEFINE k == Signed(n, IntHalf)
             e == k % (2 * LongHalf)
  <1>0. IntHalf \in Nat \ {0}
    BY ReaderAssumption
  <1>1. k \in Int /\ -IntHalf <= k /\ k < IntHalf /\ (-IntHalf <= n /\ n < IntHalf => k = n)
    BY <1>0, SignedIs
  <1> HIDE DEF k
  <1>2. e \in Nat /\ (k >= 0 => e = k) /\ (k < 0 => e >= IntHalf)
    BY <1>1, WidenIs
  <1> HIDE DEF e
  <1>3. ArrayOf(n) = [type |-> "ARRAY", num |-> n, text |-> <<>>, elements |-> e]
    BY DEF ArrayOf, e, k
  <1>4. ArrayOf(n) \in Objects
    <2>1. <<>> \in Seq(Bytes) /\ "ARRAY" \in Types
      BY EmptySeq DEF Types
    <2> QED
      BY <1>2, <1>3, <2>1 DEF Objects
  <1>5. HasVector(ArrayOf(n)) <=> (1 <= e /\ e < IntHalf)
    BY <1>0, <1>2, <1>3 DEF HasVector
  <1> QED
    BY <1>0, <1>1, <1>2, <1>3, <1>4, <1>5 DEF k

LEMMA ReadLongLongType ==
    ASSUME NEW s \in Seq(Bytes)
    PROVE  readLongLong(s) \in Int
  <1> DEFINE signed == s # <<>> /\ s[1] \in {"-", "+"}
             tail == IF signed THEN Tail(s) ELSE s
             cr == {i \in 1..Len(tail) : tail[i] = "CR"}
             digits == IF cr = {} THEN tail ELSE SubSeq(tail, 1, Min(cr) - 1)
  <1>1. tail \in Seq(Bytes) /\ Len(tail) \in Nat
    <2>1. s # <<>> => Tail(s) \in Seq(Bytes)
      BY HeadTailProperties
    <2>2. tail \in Seq(Bytes)
      BY <2>1
    <2> QED
      BY <2>2, LenProperties
  <1>d. digits \in Seq(Bytes)
    <2> HIDE DEF tail
    <2>1. CASE cr = {}
      BY <1>1, <2>1
    <2>2. CASE cr # {}
      <3> DEFINE n == Min(cr)
      <3>1. cr \in SUBSET Nat
        BY <1>1
      <3>2. n \in cr
        <4> HIDE DEF cr
        <4> QED
          BY <2>2, <3>1, MinIs
      <3>3. n \in Int /\ n <= Len(tail)
        BY <1>1, <3>2
      <3> HIDE DEF n
      <3>4. n - 1 \in Int /\ n - 1 <= Len(tail) /\ 1 \in Int /\ 1 >= 1
        BY <1>1, <3>3
      <3>5. SubSeq(tail, 1, n - 1) \in Seq(Bytes)
        BY <1>1, <3>4, SubBytes
      <3> QED
        BY <2>2, <3>5 DEF n
    <2> QED
      BY <2>1, <2>2
  <1>2. CASE \E i \in DOMAIN digits : digits[i] \notin DOMAIN Digits
    <2>1. readLongLong(s) = -1
      BY <1>2, Zenon DEF readLongLong
    <2> QED
      BY <2>1
  <1>3. CASE ~\E i \in DOMAIN digits : digits[i] \notin DOMAIN Digits
    <2>1. digits \in Seq(DOMAIN Digits)
      <3> HIDE DEF digits
      <3> QED
        BY <1>d, <1>3, LenProperties, IsASeq
    <2>2. NumberOf(digits) \in Int /\ -NumberOf(digits) \in Int
      <3> HIDE DEF digits
      <3> QED
        BY <2>1, NumberOfType
    <2>3. /\ LongHalf \in Nat \ {0}
          /\ readLongLong(s) \in {Signed(NumberOf(digits), LongHalf),
                                  Signed(-NumberOf(digits), LongHalf)}
      <3>1. LongHalf \in Nat \ {0}
        BY ReaderAssumption
      <3>2. readLongLong(s) =
              Signed(IF signed /\ s[1] = "-" THEN -NumberOf(digits) ELSE NumberOf(digits),
                     LongHalf)
        BY <1>3, Zenon DEF readLongLong
      <3> HIDE DEF digits, signed
      <3> QED
        BY <3>1, <3>2, Zenon
    <2> HIDE DEF digits
    <2>4. Signed(NumberOf(digits), LongHalf) \in Int /\ Signed(-NumberOf(digits), LongHalf) \in Int
      BY <2>2, <2>3, SignedIs
    <2> QED
      BY <2>3, <2>4
  <1> QED
    BY <1>2, <1>3

-----------------------------------------------------------------------------
(* The buffer.                                                             *)

\* The bytes behind the cursor.
LEMMA RestIs ==
    ASSUME buf \in Seq(Bytes), NEW p \in 0..Len(buf)
    PROVE  /\ Rest(p) \in Seq(Bytes) /\ Len(Rest(p)) = Len(buf) - p
           /\ Len(buf) \in Nat
  BY LenProperties, SubSeqProperties DEF Rest

\* A newline found lies within the sequence.
LEMMA SeekNewlineIs ==
    ASSUME NEW s \in Seq(Bytes)
    PROVE  seekNewline(s) = 0 \/ seekNewline(s) \in 1..(Len(s) - 1)
  <1> DEFINE found == {i \in 1..(Len(s) - 1) : s[i] = "CR" /\ s[i + 1] = "LF"}
  <1>1. Len(s) \in Nat
    BY LenProperties
  <1>2. CASE found = {}
    BY <1>2 DEF seekNewline
  <1>3. CASE found # {}
    <2>1. found \in SUBSET Nat
      BY <1>1
    <2>2. Min(found) \in found
      BY <1>3, <2>1, MinIs
    <2> QED
      BY <1>3, <2>2 DEF seekNewline
  <1> QED
    BY <1>2, <1>3

-----------------------------------------------------------------------------
(* The task stack.                                                         *)

\* Where the array of which task i is an element hangs in the reply.
Above(stack, i) == [k \in 1..(i - 2) |-> stack[k + 1].idx]

\* Task i - 1 is an array that hangs in the tree, with a vector unless it is
\* the last one and of a size no int holds; task i has room in the vector.
Room(stack, tree, i) ==
    /\ stack[i - 1].type = "ARRAY"
    /\ Above(stack, i) \in DOMAIN tree
    /\ tree[Above(stack, i)].type = "ARRAY"
    /\ i < Len(stack) \/ tree[Above(stack, i)].num < IntHalf => HasVector(tree[Above(stack, i)])
    /\ HasVector(tree[Above(stack, i)]) =>
         /\ stack[i].idx \in 0..(stack[i - 1].elements - 1)
         /\ tree[Above(stack, i)].elements = stack[i - 1].elements

\* StackOK for any stack and tree, and the array has as many elements as its
\* task says.
Stacked(stack, tree) ==
    /\ stack \in Seq(Tasks)
    /\ Len(stack) <= Depth + 1
    /\ \A i \in 2..Len(stack) : Room(stack, tree, i)

\* Every array of the stack has a vector.
Vectors(stack, tree) == \A i \in 2..Len(stack) : HasVector(tree[Above(stack, i)])

\* Every element of an array is there, or a task for it or for one before it
\* is on the stack; and the array has the size that was announced.
Hangs(stack, tree) ==
    \A p \in DOMAIN tree : tree[p].type = "ARRAY" /\ tree[p].num >= 0 =>
        /\ tree[p].num < IntHalf => tree[p].elements = tree[p].num
        /\ \A j \in 0..(tree[p].elements - 1) :
            \/ Append(p, j) \in DOMAIN tree
            \/ \E i \in 2..Len(stack) : p = Above(stack, i) /\ j >= stack[i].idx

\* A tree with an object hung at a path.
With(tree, path, o) ==
    [p \in DOMAIN tree \cup {path} |-> IF p = path THEN o ELSE tree[p]]

LEMMA TaskType ==
    ASSUME NEW i \in Int
    PROVE  Task(i) \in Tasks /\ Task(i).idx = i /\ Task(i).type = "unknown"
  BY DEF Task, Tasks

LEMMA StackType ==
    ASSUME NEW stack \in Seq(Tasks)
    PROVE  /\ Len(stack) \in Nat
           /\ \A i \in 1..Len(stack) : /\ stack[i] \in Tasks
                                       /\ stack[i].idx \in Int /\ stack[i].elements \in Int
                                       /\ stack[i].type \in Types \cup {"unknown"}
  <1>1. Len(stack) \in Nat /\ \A i \in 1..Len(stack) : stack[i] \in Tasks
    BY LenProperties, ElementOfSeq
  <1> QED
    BY <1>1 DEF Tasks

\* Paths of different lengths differ.
LEMMA AboveDiffers ==
    ASSUME NEW stack, NEW stack2, NEW i \in Nat, NEW j \in Nat, i >= 2, j >= 2,
           Above(stack, i) = Above(stack2, j)
    PROVE  i = j
  <1>1. 1..(i - 2) = 1..(j - 2)
    BY DEF Above
  <1>2. i - 2 \in Nat /\ j - 2 \in Nat
    OBVIOUS
  <1>3. CASE i < j
    <2>1. j - 2 \in 1..(j - 2) /\ j - 2 \notin 1..(i - 2)
      BY <1>2, <1>3
    <2> QED
      BY <1>1, <2>1
  <1>4. CASE j < i
    <2>1. i - 2 \in 1..(i - 2) /\ i - 2 \notin 1..(j - 2)
      BY <1>2, <1>4
    <2> QED
      BY <1>1, <2>1
  <1> QED
    BY <1>3, <1>4

\* The path to a task's array depends on the tasks below it only.
LEMMA AboveSame ==
    ASSUME NEW stack, NEW stack2, NEW i \in Nat,
           \A k \in 2..(i - 1) : stack[k].idx = stack2[k].idx
    PROVE  Above(stack, i) = Above(stack2, i)
  <1>1. ASSUME NEW k \in 1..(i - 2) PROVE stack[k + 1].idx = stack2[k + 1].idx
    <2>1. k + 1 \in 2..(i - 1)
      OBVIOUS
    <2> QED
      BY <2>1
  <1> QED
    BY <1>1 DEF Above

\* The path to a task's own object.
LEMMA AboveNext ==
    ASSUME NEW stack \in Seq(Tasks), NEW i \in 2..Len(stack)
    PROVE  Append(Above(stack, i), stack[i].idx) = Above(stack, i + 1)
  <1>1. Len(stack) \in Nat /\ \A k \in 1..Len(stack) : stack[k].idx \in Int
    BY StackType
  <1> DEFINE a == Above(stack, i)
             n == i - 2
  <1>2. a \in Seq(Int) /\ Len(a) = n /\ \A k \in 1..n : a[k] = stack[k + 1].idx
    <2>1. n \in Nat /\ a \in [1..n -> Int]
      BY <1>1 DEF Above
    <2>2. a \in Seq(Int)
      BY <2>1, IsASeq
    <2>3. DOMAIN a = 1..n
      BY DEF Above
    <2> HIDE DEF a, n
    <2>4. Len(a) = n
      BY <2>1, <2>2, <2>3, LenProperties
    <2> QED
      BY <2>2, <2>4 DEF a, Above, n
  <1>3. stack[i].idx \in Int
    BY <1>1
  <1> DEFINE b == Append(a, stack[i].idx)
  <1> HIDE DEF a
  <1>4. /\ b \in Seq(Int) /\ Len(b) = n + 1 /\ b[n + 1] = stack[i].idx
        /\ \A k \in 1..n : b[k] = a[k]
    BY <1>2, <1>3, AppendProperties
  <1>5. DOMAIN b = 1..(n + 1) /\ b = [k \in 1..(n + 1) |-> b[k]]
    <2> HIDE DEF b
    <2> QED
      BY <1>4, LenProperties
  <1>6. \A k \in 1..(n + 1) : b[k] = stack[k + 1].idx
    <2>1. ASSUME NEW k \in 1..(n + 1) PROVE b[k] = stack[k + 1].idx
      <3>1. CASE k = n + 1
        BY <3>1, <1>4
      <3>2. CASE k # n + 1
        BY <3>2, <1>2, <1>4
      <3> QED
        BY <3>1, <3>2
    <2> QED
      BY <2>1
  <1>7. n + 1 = (i + 1) - 2
    OBVIOUS
  <1> HIDE DEF n, b
  <1>8. b = Above(stack, i + 1)
    BY <1>5, <1>6, <1>7 DEF Above
  <1> QED
    BY <1>8 DEF b, a

\* What moveToNextTask returns: nothing when every array is complete, or the
\* tasks below the innermost incomplete array and one for its next element.
Moved(stack, m, k) ==
    /\ stack[k].idx # stack[k - 1].elements - 1
    /\ \A i \in (k + 1)..Len(stack) : stack[i].idx = stack[i - 1].elements - 1
    /\ m \in Seq(Tasks) /\ Len(m) = k
    /\ m[k] = Task(stack[k].idx + 1)
    /\ \A i \in 1..(k - 1) : m[i] = stack[i]

LEMMA MovedIs ==
    ASSUME NEW stack \in Seq(Tasks)
    PROVE  \/ /\ moveToNextTask(stack) = <<>>
              /\ \A i \in 2..Len(stack) : stack[i].idx = stack[i - 1].elements - 1
           \/ \E k \in 2..Len(stack) : Moved(stack, moveToNextTask(stack), k)
  <1> DEFINE open == {i \in 2..Len(stack) : stack[i].idx # stack[i - 1].elements - 1}
  <1>t. /\ Len(stack) \in Nat
        /\ \A i \in 1..Len(stack) : stack[i] \in Tasks /\ stack[i].idx \in Int
    BY StackType
  <1>1. CASE open = {}
    <2>1. moveToNextTask(stack) = <<>>
      BY <1>1 DEF moveToNextTask
    <2> QED
      BY <1>1, <2>1
  <1>2. CASE open # {}
    <2> DEFINE k == Max(open)
               rest == SubSeq(stack, 1, k - 1)
    <2>1. k \in open /\ \A i \in open : k >= i
      <3>1. open \in SUBSET Nat /\ \A i \in open : i <= Len(stack)
        BY <1>t
      <3> HIDE DEF open
      <3> QED
        BY <1>2, <1>t, <3>1, MaxIs
    <2>2. moveToNextTask(stack) = Append(rest, Task(stack[k].idx + 1))
      BY <1>2 DEF moveToNextTask
    <2>3. k \in 2..Len(stack) /\ stack[k].idx # stack[k - 1].elements - 1
      BY <2>1
    <2>4. \A i \in (k + 1)..Len(stack) : stack[i].idx = stack[i - 1].elements - 1
      <3>1. ASSUME NEW i \in (k + 1)..Len(stack), i \in open PROVE FALSE
        <4> HIDE DEF k, open
        <4> QED
          BY <3>1, <2>1, <2>3, <1>t
      <3>2. ASSUME NEW i \in (k + 1)..Len(stack) PROVE i \in 2..Len(stack)
        <4> HIDE DEF k
        <4> QED
          BY <3>2, <2>3, <1>t
      <3> QED
        BY <3>1, <3>2
    <2> HIDE DEF k, open
    <2>5. /\ rest \in Seq(Tasks) /\ Len(rest) = k - 1
          /\ \A i \in 1..(k - 1) : rest[i] = stack[i]
      <3>1. \A i \in 1..(k - 1) : stack[i] \in Tasks
        BY <1>t, <2>3
      <3>2. 1 \in Int /\ k - 1 \in Int /\ 1 <= k - 1 /\ (k - 1) - 1 + 1 = k - 1
        BY <1>t, <2>3
      <3>3. /\ rest \in Seq(Tasks)
            /\ Len(rest) = IF 1 <= k - 1 THEN (k - 1) - 1 + 1 ELSE 0
            /\ \A i \in 1..((k - 1) - 1 + 1) : rest[i] = stack[1 + i - 1]
        BY <3>1, <3>2, SubSeqProperties
      <3> HIDE DEF rest
      <3> QED
        BY <3>2, <3>3
    <2>6. Task(stack[k].idx + 1) \in Tasks
      BY <2>3, <1>t, TaskType
    <2> HIDE DEF rest
    <2>7. Moved(stack, Append(rest, Task(stack[k].idx + 1)), k)
      <3> DEFINE m == Append(rest, Task(stack[k].idx + 1))
      <3>1. /\ m \in Seq(Tasks) /\ Len(m) = Len(rest) + 1
            /\ \A i \in 1..Len(rest) : m[i] = rest[i]
            /\ m[Len(rest) + 1] = Task(stack[k].idx + 1)
        BY <2>5, <2>6, AppendProperties
      <3>2. (k - 1) + 1 = k
        BY <2>3
      <3> HIDE DEF m
      <3>3. Len(m) = k /\ m[k] = Task(stack[k].idx + 1) /\ \A i \in 1..(k - 1) : m[i] = stack[i]
        BY <3>1, <3>2, <2>5
      <3> QED
        BY <3>1, <3>3, <2>3, <2>4 DEF Moved, m
    <2> QED
      BY <2>2, <2>3, <2>7
  <1> QED
    BY <1>1, <1>2

\* The arrays of the stack are not where the next object is hung.
LEMMA PathIsNew ==
    ASSUME NEW stack \in Seq(Tasks)
    PROVE  \A i \in 2..Len(stack) : Above(stack, i) # Above(stack, Len(stack) + 1)
  <1>1. ASSUME NEW i \in 2..Len(stack) PROVE Above(stack, i) # Above(stack, Len(stack) + 1)
    <2> DEFINE n == Len(stack)
    <2>1. n \in Nat
      BY StackType
    <2>2. i # n + 1 /\ i \in Nat /\ n + 1 \in Nat /\ i >= 2 /\ n + 1 >= 2
      BY <2>1
    <2> HIDE DEF n
    <2>3. Above(stack, i) # Above(stack, n + 1)
      BY <2>2, AboveDiffers
    <2> QED
      BY <2>3 DEF n
  <1> QED
    BY <1>1

\* A complete object: it is hung and the stack moves on.
LEMMA CompleteKeeps ==
    ASSUME NEW stack, NEW tree, NEW o, NEW new, Stacked(stack, tree), Hangs(stack, tree),
           Vectors(stack, tree), stack # <<>>,
           o.type = "ARRAY" /\ o.num >= 0 => o.num = 0 /\ o.elements = 0,
           new = With(tree, Above(stack, Len(stack) + 1), o)
    PROVE  /\ Stacked(moveToNextTask(stack), new)
           /\ Hangs(moveToNextTask(stack), new)
           /\ <<>> \in DOMAIN new
  <1> DEFINE n == Len(stack)
             path == Above(stack, n + 1)
             m == moveToNextTask(stack)
  <1>0. /\ stack \in Seq(Tasks) /\ n \in Nat /\ n >= 1
        /\ \A i \in 1..n : stack[i].idx \in Int /\ stack[i].elements \in Int
    <2>1. stack \in Seq(Tasks)
      BY DEF Stacked
    <2> QED
      BY <2>1, StackType, EmptySeq, LenProperties
  <1>1. /\ DOMAIN new = DOMAIN tree \cup {path} /\ new[path] = o
        /\ \A p \in DOMAIN tree : p # path => new[p] = tree[p]
        /\ \A i \in 2..n : /\ Above(stack, i) # path
                           /\ Above(stack, i) \in DOMAIN new
                           /\ new[Above(stack, i)] = tree[Above(stack, i)]
                           /\ HasVector(new[Above(stack, i)])
                           /\ stack[i - 1].type = "ARRAY"
                           /\ new[Above(stack, i)].type = "ARRAY"
                           /\ stack[i].idx \in 0..(stack[i - 1].elements - 1)
                           /\ new[Above(stack, i)].elements = stack[i - 1].elements
    <2>1. new = With(tree, path, o)
      OBVIOUS
    <2>2. \A i \in 2..n : Above(stack, i) # path
      BY <1>0, PathIsNew
    <2>3. \A i \in 2..n : HasVector(tree[Above(stack, i)]) /\ Room(stack, tree, i)
      BY DEF Stacked, Vectors
    <2> HIDE DEF path, n
    <2> QED
      BY <2>1, <2>2, <2>3, Zenon DEF With, Room
  <1>2. ASSUME NEW i \in 2..n PROVE Append(Above(stack, i), stack[i].idx) \in DOMAIN new
    <2>1. Append(Above(stack, i), stack[i].idx) = Above(stack, i + 1)
      BY <1>0, AboveNext
    <2>2. CASE i = n
      BY <2>1, <2>2, <1>1
    <2>3. CASE i # n
      <3>1. i + 1 \in 2..n
        BY <2>3, <1>0
      <3> QED
        BY <2>1, <3>1, <1>1
    <2> QED
      BY <2>2, <2>3
  <1>3. <<>> \in DOMAIN new
    <2>1. Above(stack, 2) = <<>>
      BY DEF Above
    <2>2. CASE n = 1
      BY <2>1, <2>2, <1>1
    <2>3. CASE n # 1
      <3>1. 2 \in 2..n
        <4> HIDE DEF n
        <4> QED
          BY <2>3, <1>0
      <3> QED
        BY <2>1, <3>1, <1>1
    <2> QED
      BY <2>2, <2>3
  <1>4. ASSUME NEW p \in DOMAIN new, new[p].type = "ARRAY", new[p].num >= 0
        PROVE  /\ new[p].num < IntHalf => new[p].elements = new[p].num
               /\ \A j \in 0..(new[p].elements - 1) :
                    \/ Append(p, j) \in DOMAIN new
                    \/ \E i \in 2..n : p = Above(stack, i) /\ j >= stack[i].idx
    <2>1. CASE p = path
      <3>1. new[p].num = 0 /\ new[p].elements = 0
        BY <2>1, <1>1, <1>4
      <3> QED
        BY <3>1
    <2>2. CASE p # path
      <3>1. p \in DOMAIN tree /\ new[p] = tree[p]
        BY <2>2, <1>1
      <3> QED
        BY <3>1, <1>1, <1>4 DEF Hangs
    <2> QED
      BY <2>1, <2>2
  \* An element whose array has it as its last one is there.
  <1>5. ASSUME NEW i \in 2..n, NEW j \in 0..(new[Above(stack, i)].elements - 1), j >= stack[i].idx,
               stack[i].idx = stack[i - 1].elements - 1
        PROVE  Append(Above(stack, i), j) \in DOMAIN new
    <2>1. new[Above(stack, i)].elements = stack[i - 1].elements /\ stack[i - 1].elements \in Int
      <3>1. i - 1 \in 1..n
        BY <1>0
      <3> QED
        BY <3>1, <1>0, <1>1
    <2>2. j = stack[i].idx
      BY <1>5, <2>1, <1>0
    <2> QED
      BY <2>2, <1>2
  <1> HIDE DEF n, path, m
  <1>6. CASE m = <<>> /\ \A i \in 2..n : stack[i].idx = stack[i - 1].elements - 1
    <2>1. Stacked(m, new)
      BY <1>6, ReaderAssumption, EmptySeq DEF Stacked
    <2>2. ASSUME NEW p \in DOMAIN new, new[p].type = "ARRAY", new[p].num >= 0,
                 NEW j \in 0..(new[p].elements - 1)
          PROVE  Append(p, j) \in DOMAIN new
      <3>1. CASE \E i \in 2..n : p = Above(stack, i) /\ j >= stack[i].idx
        <4>1. PICK i \in 2..n : p = Above(stack, i) /\ j >= stack[i].idx
          BY <3>1
        <4>2. stack[i].idx = stack[i - 1].elements - 1
          BY <1>6
        <4> QED
          BY <4>1, <4>2, <1>5, <2>2
      <3> QED
        BY <3>1, <1>4, <2>2
    <2> QED
      BY <2>1, <2>2, <1>3, <1>4 DEF Hangs, m
  <1>7. ASSUME NEW k \in 2..n, Moved(stack, m, k)
        PROVE  Stacked(m, new) /\ Hangs(m, new)
    <2>0. /\ k \in Nat /\ k >= 2 /\ k <= n /\ m \in Seq(Tasks) /\ Len(m) = k
          /\ m[k] = Task(stack[k].idx + 1) /\ m[k].idx = stack[k].idx + 1
          /\ \A i \in 1..(k - 1) : m[i] = stack[i]
          /\ stack[k].idx \in Int
      <3>1. k \in 1..n
        BY <1>0
      <3> QED
        BY <3>1, <1>0, <1>7, TaskType DEF Moved
    <2>1. ASSUME NEW i \in 2..k PROVE Above(m, i) = Above(stack, i)
      <3>1. \A x \in 2..(i - 1) : m[x].idx = stack[x].idx
        BY <2>0
      <3> QED
        BY <3>1, AboveSame
    <2>2. Stacked(m, new)
      <3>1. Len(m) <= Depth + 1
        BY <2>0, <1>0, ReaderAssumption DEF Stacked, n
      <3>2. ASSUME NEW i \in 2..k
            PROVE  Room(m, new, i)
        <4>1. i \in 2..n /\ i - 1 \in 1..(k - 1) /\ i - 1 \in 1..n
          BY <2>0, <1>0
        <4>2. /\ stack[i - 1].type = "ARRAY"
              /\ stack[i].idx \in 0..(stack[i - 1].elements - 1)
          BY <4>1, <1>1
        <4>3. m[i - 1] = stack[i - 1] /\ stack[i - 1].elements \in Int
          BY <4>1, <2>0, <1>0
        <4>4. m[i].idx \in 0..(m[i - 1].elements - 1)
          <5>1. CASE i = k
            <6>1. stack[k].idx # stack[k - 1].elements - 1
              BY <1>7 DEF Moved
            <6> DEFINE e == stack[k - 1].elements
                       x == stack[k].idx
            <6>2. e \in Int /\ x \in 0..(e - 1) /\ x # e - 1
              BY <5>1, <6>1, <4>2, <4>3
            <6>3. m[i].idx = x + 1 /\ m[i - 1].elements = e
              BY <5>1, <4>3, <2>0
            <6> HIDE DEF e, x
            <6>4. x + 1 \in 0..(e - 1)
              BY <6>2
            <6> QED
              BY <6>3, <6>4
          <5>2. CASE i # k
            <6>1. m[i] = stack[i]
              BY <5>2, <2>0
            <6> QED
              BY <6>1, <4>2, <4>3
          <5> QED
            BY <5>1, <5>2
        <4> QED
          BY <4>1, <4>2, <4>3, <4>4, <2>1, <1>1 DEF Room
      <3> QED
        BY <3>1, <3>2, <2>0 DEF Stacked
    <2>3. ASSUME NEW p \in DOMAIN new, new[p].type = "ARRAY", new[p].num >= 0,
                 NEW j \in 0..(new[p].elements - 1), Append(p, j) \notin DOMAIN new
          PROVE  \E i \in 2..k : p = Above(m, i) /\ j >= m[i].idx
      <3>1. PICK i \in 2..n : p = Above(stack, i) /\ j >= stack[i].idx
        BY <2>3, <1>4
      <3>i. i \in 1..n /\ stack[i].idx \in Int /\ j \in Int
        <4>1. new[p].elements \in Int
          <5>1. i - 1 \in 1..n
            BY <1>0
          <5> QED
            BY <3>1, <5>1, <1>0, <1>1
        <4> QED
          BY <4>1, <1>0
      <3>2. CASE i > k
        <4>1. i \in (k + 1)..n
          BY <3>2, <2>0, <1>0
        <4>2. stack[i].idx = stack[i - 1].elements - 1
          BY <4>1, <1>7 DEF Moved, n
        <4> QED
          BY <3>1, <4>2, <1>5, <2>3
      <3>3. CASE i = k
        <4>1. j # stack[k].idx
          BY <3>1, <3>3, <1>2, <2>3
        <4>2. j >= stack[k].idx + 1
          BY <4>1, <3>1, <3>3, <3>i
        <4>3. k \in 2..k
          BY <2>0
        <4> QED
          BY <3>1, <3>3, <4>2, <4>3, <2>0, <2>1
      <3>4. CASE i < k
        <4>1. i \in 2..k /\ i \in 1..(k - 1)
          BY <3>4, <2>0
        <4> QED
          BY <3>1, <4>1, <2>0, <2>1
      <3> QED
        BY <3>2, <3>3, <3>4, <2>0
    <2> QED
      BY <2>2, <2>3, <2>0, <1>4 DEF Hangs
  <1>8. \/ m = <<>> /\ \A i \in 2..n : stack[i].idx = stack[i - 1].elements - 1
        \/ \E k \in 2..n : Moved(stack, m, k)
    BY <1>0, MovedIs DEF m, n
  <1> QED
    BY <1>3, <1>6, <1>7, <1>8 DEF m

\* A task whose type or size becomes known.
Retopped(stack, stack2) ==
    /\ stack2 \in Seq(Tasks) /\ Len(stack2) = Len(stack)
    /\ \A i \in 1..(Len(stack) - 1) : stack2[i] = stack[i]
    /\ stack2[Len(stack)].idx = stack[Len(stack)].idx

LEMMA RetopIs ==
    ASSUME NEW stack \in Seq(Tasks), stack # <<>>, NEW top \in Tasks,
           top.idx = stack[Len(stack)].idx
    PROVE  /\ Retopped(stack, [stack EXCEPT ![Len(stack)] = top])
           /\ [stack EXCEPT ![Len(stack)] = top][Len(stack)] = top
  <1>1. Len(stack) \in Nat /\ Len(stack) >= 1 /\ DOMAIN stack = 1..Len(stack)
    BY LenProperties, EmptySeq
  <1> DEFINE n == Len(stack)
             new == [stack EXCEPT ![n] = top]
  <1>2. new \in Seq(Tasks) /\ Len(new) = n
    BY <1>1, ExceptSeq
  <1>3. new[n] = top /\ \A i \in 1..(n - 1) : new[i] = stack[i]
    <2>1. n \in Nat /\ n >= 1 /\ DOMAIN stack = 1..n
      BY <1>1
    <2> HIDE DEF n
    <2>2. n \in DOMAIN stack /\ \A i \in 1..(n - 1) : i \in DOMAIN stack /\ i # n
      BY <2>1
    <2> QED
      BY <2>2
  <1> QED
    BY <1>2, <1>3 DEF Retopped

LEMMA RetopKeeps ==
    ASSUME NEW stack, NEW stack2, NEW tree, Stacked(stack, tree), Hangs(stack, tree),
           stack # <<>>, Retopped(stack, stack2)
    PROVE  /\ Stacked(stack2, tree) /\ Hangs(stack2, tree)
           /\ \A i \in 2..(Len(stack) + 1) : Above(stack2, i) = Above(stack, i)
  <1> DEFINE n == Len(stack)
  <1>0. stack \in Seq(Tasks) /\ n \in Nat /\ n >= 1
    <2>1. stack \in Seq(Tasks)
      BY DEF Stacked
    <2> QED
      BY <2>1, EmptySeq, LenProperties
  <1>1. /\ stack2 \in Seq(Tasks) /\ Len(stack2) = n
        /\ \A i \in 1..(n - 1) : stack2[i] = stack[i]
        /\ stack2[n].idx = stack[n].idx
    BY DEF Retopped
  <1>s. /\ n <= Depth + 1
        /\ \A i \in 2..n : Room(stack, tree, i)
    BY DEF Stacked
  <1>h. \A p \in DOMAIN tree : tree[p].type = "ARRAY" /\ tree[p].num >= 0 =>
            /\ tree[p].num < IntHalf => tree[p].elements = tree[p].num
            /\ \A j \in 0..(tree[p].elements - 1) :
                \/ Append(p, j) \in DOMAIN tree
                \/ \E i \in 2..n : p = Above(stack, i) /\ j >= stack[i].idx
    BY DEF Hangs
  <1> HIDE DEF n
  <1>2. \A i \in 1..n : stack2[i].idx = stack[i].idx
    <2>1. ASSUME NEW i \in 1..n PROVE stack2[i].idx = stack[i].idx
      <3>1. CASE i = n
        BY <3>1, <1>1
      <3>2. CASE i # n
        BY <3>2, <1>0, <1>1
      <3> QED
        BY <3>1, <3>2
    <2> QED
      BY <2>1
  <1>3. \A i \in 2..(n + 1) : Above(stack2, i) = Above(stack, i)
    <2>1. ASSUME NEW i \in 2..(n + 1) PROVE Above(stack2, i) = Above(stack, i)
      <3>1. \A k \in 2..(i - 1) : stack2[k].idx = stack[k].idx
        BY <1>0, <1>2
      <3> QED
        BY <3>1, <1>0, AboveSame
    <2> QED
      BY <2>1
  <1>4. \A i \in 2..n : /\ stack2[i - 1] = stack[i - 1] /\ stack2[i].idx = stack[i].idx
                        /\ Above(stack2, i) = Above(stack, i)
    BY <1>0, <1>1, <1>2, <1>3
  <1>5. Stacked(stack2, tree)
    <2>1. ASSUME NEW i \in 2..n PROVE Room(stack2, tree, i)
      <3>1. Room(stack, tree, i)
        BY <1>s
      <3> QED
        BY <3>1, <1>1, <1>4 DEF Room, n
    <2> QED
      BY <1>1, <1>s, <2>1 DEF Stacked
  <1>6. Hangs(stack2, tree)
    <2>1. ASSUME NEW p \in DOMAIN tree, tree[p].type = "ARRAY", tree[p].num >= 0,
                 NEW j \in 0..(tree[p].elements - 1), Append(p, j) \notin DOMAIN tree
          PROVE  \E i \in 2..Len(stack2) : p = Above(stack2, i) /\ j >= stack2[i].idx
      <3>1. PICK i \in 2..n : p = Above(stack, i) /\ j >= stack[i].idx
        BY <1>h, <2>1
      <3>2. i \in 2..Len(stack2) /\ p = Above(stack2, i) /\ j >= stack2[i].idx
        BY <1>0, <1>1, <1>4, <3>1
      <3> QED
        BY <3>2
    <2> QED
      BY <2>1, <1>h DEF Hangs
  <1> QED
    BY <1>3, <1>5, <1>6 DEF n

\* An array with elements: it is hung and a task for its first element is
\* pushed.
LEMMA PushKeeps ==
    ASSUME NEW stack, NEW stack2, NEW tree, NEW o, NEW new,
           Stacked(stack, tree), Hangs(stack, tree), Vectors(stack, tree),
           stack # <<>>, Retopped(stack, stack2), stack2[Len(stack)].type = "ARRAY",
           o.type = "ARRAY", o.num > 0, o.num < IntHalf => HasVector(o) /\ o.elements = o.num,
           HasVector(o) => o.elements = stack2[Len(stack)].elements /\ o.elements > 0,
           o.elements \in Int, Len(stack) - 1 # Depth,
           new = With(tree, Above(stack, Len(stack) + 1), o)
    PROVE  Stacked(Append(stack2, Task(0)), new) /\ Hangs(Append(stack2, Task(0)), new)
  <1> DEFINE n == Len(stack)
             path == Above(stack, n + 1)
             m == Append(stack2, Task(0))
  <1>0. /\ stack \in Seq(Tasks) /\ n \in Nat /\ n >= 1 /\ n <= Depth + 1
        /\ stack2 \in Seq(Tasks) /\ Len(stack2) = n
    <2>1. stack \in Seq(Tasks) /\ n <= Depth + 1
      BY DEF Stacked
    <2>2. stack2 \in Seq(Tasks) /\ Len(stack2) = n
      BY DEF Retopped
    <2> QED
      BY <2>1, <2>2, EmptySeq, LenProperties
  <1>1. /\ Stacked(stack2, tree) /\ Hangs(stack2, tree)
        /\ \A i \in 2..(n + 1) : Above(stack2, i) = Above(stack, i)
    BY RetopKeeps
  <1>2. /\ m \in Seq(Tasks) /\ Len(m) = n + 1 /\ m[n + 1] = Task(0)
        /\ \A i \in 1..n : m[i] = stack2[i]
    BY <1>0, TaskType, AppendProperties
  <1>3. /\ DOMAIN new = DOMAIN tree \cup {path} /\ new[path] = o
        /\ \A p \in DOMAIN tree : p # path => new[p] = tree[p]
    <2>1. new = With(tree, path, o)
      OBVIOUS
    <2> HIDE DEF path
    <2> QED
      BY <2>1 DEF With
  <1>4. \A i \in 2..n : Above(stack, i) # path
    BY <1>0, PathIsNew
  <1>5. /\ stack2[n].type = "ARRAY" /\ n - 1 # Depth
        /\ HasVector(o) => o.elements = stack2[n].elements /\ o.elements > 0
    OBVIOUS
  <1>s. \A i \in 2..n : Room(stack2, tree, i) /\ HasVector(tree[Above(stack2, i)])
    <2>1. \A i \in 2..n : Above(stack2, i) = Above(stack, i)
      BY <1>0, <1>1
    <2> QED
      BY <1>0, <1>1, <2>1 DEF Stacked, Vectors
  <1>h. \A p \in DOMAIN tree : tree[p].type = "ARRAY" /\ tree[p].num >= 0 =>
            /\ tree[p].num < IntHalf => tree[p].elements = tree[p].num
            /\ \A j \in 0..(tree[p].elements - 1) :
                \/ Append(p, j) \in DOMAIN tree
                \/ \E i \in 2..n : p = Above(stack2, i) /\ j >= stack2[i].idx
    BY <1>0, <1>1 DEF Hangs
  <1>p. path = Above(stack, n + 1)
    OBVIOUS
  <1> HIDE DEF n, path, m
  <1>6. \A i \in 2..(n + 1) : Above(m, i) = Above(stack, i)
    <2>1. ASSUME NEW i \in 2..(n + 1) PROVE Above(m, i) = Above(stack2, i)
      <3>1. \A k \in 2..(i - 1) : m[k].idx = stack2[k].idx
        BY <1>0, <1>2
      <3> QED
        BY <3>1, <1>0, AboveSame
    <2> QED
      BY <2>1, <1>1
  <1>7. Stacked(m, new)
    <2>1. n + 1 <= Depth + 1
      BY <1>0, <1>5, ReaderAssumption
    <2>2. ASSUME NEW i \in 2..(n + 1)
          PROVE  Room(m, new, i)
      <3>1. CASE i = n + 1
        <4>1. m[i - 1] = stack2[n] /\ m[i].idx = 0 /\ Above(m, i) = path
          BY <3>1, <1>0, <1>2, <1>6, <1>p, TaskType
        <4>2. ~(i < Len(m)) /\ new[Above(m, i)] = o /\ Above(m, i) \in DOMAIN new
          BY <3>1, <4>1, <1>0, <1>2, <1>3
        <4>3. HasVector(o) => 0 \in 0..(stack2[n].elements - 1)
          BY <1>5
        <4> QED
          BY <4>1, <4>2, <4>3, <1>5 DEF Room
      <3>2. CASE i # n + 1
        <4>1. i \in 2..n /\ i - 1 \in 1..n /\ i \in 1..n
          BY <3>2, <1>0
        <4>2. m[i - 1] = stack2[i - 1] /\ m[i] = stack2[i] /\ Above(m, i) = Above(stack2, i)
              /\ Above(m, i) # path
          BY <4>1, <1>1, <1>2, <1>4, <1>6
        <4>3. /\ Room(stack2, tree, i) /\ HasVector(tree[Above(stack2, i)])
              /\ new[Above(m, i)] = tree[Above(stack2, i)] /\ Above(m, i) \in DOMAIN new
          BY <4>1, <4>2, <1>3, <1>s DEF Room
        <4> QED
          BY <4>2, <4>3 DEF Room
      <3> QED
        BY <3>1, <3>2
    <2> QED
      BY <2>1, <2>2, <1>2 DEF Stacked
  <1>e. ASSUME NEW p \in DOMAIN new, new[p].type = "ARRAY", new[p].num >= 0, new[p].num < IntHalf
        PROVE  new[p].elements = new[p].num
    <2>1. CASE p = path
      BY <2>1, <1>3, <1>e
    <2>2. CASE p # path
      BY <2>2, <1>3, <1>e, <1>h
    <2> QED
      BY <2>1, <2>2
  <1>8. ASSUME NEW p \in DOMAIN new, new[p].type = "ARRAY", new[p].num >= 0,
               NEW j \in 0..(new[p].elements - 1), Append(p, j) \notin DOMAIN new
        PROVE  \E i \in 2..(n + 1) : p = Above(m, i) /\ j >= m[i].idx
    <2>1. CASE p = path
      <3>1. n + 1 \in 2..(n + 1) /\ Above(m, n + 1) = path /\ m[n + 1].idx = 0
        BY <1>0, <1>2, <1>6, <1>p, TaskType
      <3>2. j >= 0
        BY <2>1, <1>3
      <3> QED
        BY <2>1, <3>1, <3>2
    <2>2. CASE p # path
      <3>1. p \in DOMAIN tree /\ new[p] = tree[p] /\ Append(p, j) \notin DOMAIN tree
        BY <2>2, <1>3, <1>8
      <3>2. PICK i \in 2..n : p = Above(stack2, i) /\ j >= stack2[i].idx
        BY <3>1, <1>8, <1>h
      <3>3. i \in 2..(n + 1) /\ i \in 1..n
        BY <1>0
      <3> QED
        BY <3>2, <3>3, <1>1, <1>2, <1>6
    <2> QED
      BY <2>1, <2>2
  <1>9. Hangs(m, new)
    BY <1>2, <1>e, <1>8 DEF Hangs
  <1> QED
    BY <1>7, <1>9 DEF m

-----------------------------------------------------------------------------
(* The inductive invariant.                                                *)

IsSeq(s) == s \in Seq({s[i] : i \in DOMAIN s})

\* The reader and the place of on_read: processItem has a task, and what is
\* returned has a root.
ReaderOK ==
    /\ buf \in Seq(Bytes)
    /\ pos \in 0..Len(buf)
    /\ err \in {"none", "protocol", "oom"}
    /\ \A p \in DOMAIN reply : reply[p] \in Objects
    /\ pc \in {"idle", "get", "items", "return", "fault"}
    /\ Stacked(rstack, reply)
    /\ Hangs(rstack, reply)
    /\ pc = "fault" =>
         \E p \in DOMAIN reply : reply[p].type = "ARRAY" /\ reply[p].num >= IntHalf
    /\ pc = "items" => rstack # <<>>
    /\ pc = "return" /\ err = "none" /\ rstack = <<>> => <<>> \in DOMAIN reply

\* The connections.
WiresOK ==
    /\ from \in Handles
    /\ wire \in [Handles -> Seq(Bytes)]
    /\ sent \in [Handles -> Seq(Replies)]
    /\ out \in [Handles -> {out[h] : h \in Handles}]
    /\ \A h \in Handles : IsSeq(out[h])

ParseInv == ReaderOK /\ WiresOK /\ RepliesWhole

LEMMA ParseInvType == ParseInv => TypeOK /\ StackOK
  <1> SUFFICES ASSUME ParseInv PROVE TypeOK /\ StackOK
    OBVIOUS
  <1>1. ReaderOK /\ WiresOK
    BY DEF ParseInv
  <1>2. TypeOK
    BY <1>1 DEF ReaderOK, WiresOK, TypeOK, Stacked
  <1>3. ASSUME NEW i \in 2..Len(rstack)
        PROVE  /\ rstack[i - 1].type = "ARRAY"
               /\ Above(rstack, i) \in DOMAIN reply /\ reply[Above(rstack, i)].type = "ARRAY"
               /\ i < Len(rstack) \/ reply[Above(rstack, i)].num < IntHalf =>
                      rstack[i].idx \in 0..(rstack[i - 1].elements - 1)
    <2>1. Room(rstack, reply, i)
      BY <1>1 DEF ReaderOK, Stacked
    <2> QED
      BY <2>1 DEF Room
  <1>4. StackOK
    BY <1>1, <1>3 DEF StackOK, Above, ReaderOK, Stacked
  <1> QED
    BY <1>2, <1>4

\* The reply is dropped.
LEMMA SetErrorKeeps ==
    ASSUME NEW e \in {"protocol", "oom"}, SetError(e), pc' \in {"idle", "return"}
    PROVE  ReaderOK'
  <1>1. /\ err' = e /\ reply' = <<>> /\ buf' = <<>> /\ pos' = 0 /\ rstack' = <<>>
    BY DEF SetError, NoReply
  <1>2. Stacked(<<>>, <<>>)
    BY ReaderAssumption, EmptySeq DEF Stacked
  <1>3. Hangs(<<>>, <<>>)
    BY DEF Hangs
  <1>4. buf' \in Seq(Bytes) /\ pos' \in 0..Len(buf')
    BY <1>1, EmptySeq
  <1> QED
    BY <1>1, <1>2, <1>3, <1>4 DEF ReaderOK

\* The item is left for the next chunk.
LEMMA StarveKeeps ==
    ASSUME ReaderOK, pc = "items", NEW type \in Types \cup {"unknown"}, NEW p \in 0..Len(buf),
           Starve(type, p)
    PROVE  ReaderOK'
  <1> DEFINE top == [rstack[Len(rstack)] EXCEPT !.type = type]
  <1>1. /\ rstack # <<>> /\ rstack \in Seq(Tasks) /\ Stacked(rstack, reply)
        /\ Hangs(rstack, reply)
    BY DEF ReaderOK, Stacked
  <1>2. rstack' = [rstack EXCEPT ![Len(rstack)] = top]
    BY DEF Starve
  <1>3. top \in Tasks /\ top.idx = rstack[Len(rstack)].idx
    <2>1. rstack[Len(rstack)] \in Tasks
      BY <1>1, StackType, EmptySeq, LenProperties
    <2> QED
      BY <2>1 DEF Tasks
  <1> HIDE DEF top
  <1>4. Retopped(rstack, rstack')
    BY <1>1, <1>2, <1>3, RetopIs
  <1>5. Stacked(rstack', reply) /\ Hangs(rstack', reply)
    BY <1>1, <1>4, RetopKeeps
  <1>6. rstack' # <<>>
    BY <1>1, <1>4, EmptySeq, LenProperties DEF Retopped
  <1>7. UNCHANGED <<buf, err, reply>> /\ pos' = p /\ pc' = "return"
    BY DEF Starve
  <1> QED
    BY <1>5, <1>6, <1>7 DEF ReaderOK

\* createX hangs the object at the path of the top task.
LEMMA CreateIs ==
    ASSUME rstack \in Seq(Tasks), NEW object
    PROVE  Create(object) = With(reply, Above(rstack, Len(rstack) + 1), object)
  <1>1. Len(rstack) \in Nat
    BY LenProperties
  <1>2. Path = Above(rstack, Len(rstack) + 1)
    <2>1. (Len(rstack) + 1) - 2 = Len(rstack) - 1
      BY <1>1
    <2> QED
      BY <2>1 DEF Path, Above
  <1> QED
    BY <1>2 DEF Create, With

\* The vector that createX stores into is that of the array below the top.
LEMMA StoreIs ==
    ASSUME rstack \in Seq(Tasks), Len(rstack) > 1
    PROVE  SubSeq(Path, 1, Len(Path) - 1) = Above(rstack, Len(rstack))
  <1> DEFINE n == Len(rstack)
  <1>1. n \in Nat /\ n > 1 /\ \A i \in 1..n : rstack[i].idx \in Int
    BY StackType
  <1> HIDE DEF n
  <1>2. Path = [i \in 1..(n - 1) |-> rstack[i + 1].idx]
    BY DEF Path, n
  <1>3. n - 1 \in Nat /\ Path \in [1..(n - 1) -> Int]
    BY <1>1, <1>2
  <1>4. Path \in Seq(Int) /\ DOMAIN Path = 1..(n - 1)
    <2>1. DOMAIN Path = 1..(n - 1)
      BY <1>2
    <2> HIDE DEF Path
    <2>2. \A i \in 1..(n - 1) : Path[i] \in Int
      BY <1>3
    <2>3. [i \in 1..(n - 1) |-> Path[i]] \in Seq(Int)
      BY <1>3, <2>2, IsASeq
    <2> QED
      BY <1>3, <2>1, <2>3
  <1> HIDE DEF Path
  <1>5. Len(Path) = n - 1
    BY <1>3, <1>4, LenProperties
  <1> DEFINE front == SubSeq(Path, 1, n - 2)
  <1>6. CASE n = 2
    <2>1. front = <<>>
      BY <1>6, SubSeqEmpty
    <2>2. Above(rstack, 2) = <<>>
      BY DEF Above
    <2>3. Len(Path) - 1 = n - 2 /\ n = 2
      BY <1>1, <1>5, <1>6
    <2> HIDE DEF front
    <2>4. SubSeq(Path, 1, Len(Path) - 1) = front
      BY <2>3 DEF front
    <2> QED
      BY <2>1, <2>2, <2>3, <2>4 DEF n
  <1>7. CASE n # 2
    <2>1. \A i \in 1..(n - 2) : Path[i] \in Int
      BY <1>1, <1>3
    <2>2. 1 \in Int /\ n - 2 \in Int /\ 1 <= n - 2 /\ (n - 2) - 1 + 1 = n - 2
      BY <1>1, <1>7
    <2>3. /\ front \in Seq(Int)
          /\ Len(front) = IF 1 <= n - 2 THEN (n - 2) - 1 + 1 ELSE 0
          /\ \A i \in 1..((n - 2) - 1 + 1) : front[i] = Path[1 + i - 1]
      BY <2>1, <2>2, SubSeqProperties
    <2> HIDE DEF front
    <2>4. front \in Seq(Int) /\ Len(front) = n - 2 /\ \A i \in 1..(n - 2) : front[i] = Path[1 + i - 1]
      BY <2>2, <2>3
    <2>5. \A i \in 1..(n - 2) : front[i] = rstack[i + 1].idx
      <3>1. ASSUME NEW i \in 1..(n - 2) PROVE front[i] = rstack[i + 1].idx
        <4>1. 1 + i - 1 = i /\ i \in 1..(n - 1)
          BY <1>1
        <4> QED
          BY <4>1, <2>4, <1>2
      <3> QED
        BY <3>1
    <2>6. front = [i \in 1..(n - 2) |-> front[i]]
      BY <2>4, LenProperties
    <2>7. front = [i \in 1..(n - 2) |-> rstack[i + 1].idx]
      BY <2>5, <2>6, Zenon
    <2>8. Len(Path) - 1 = n - 2
      BY <1>1, <1>5
    <2> QED
      BY <2>7, <2>8 DEF front, Above, n
  <1> QED
    BY <1>6, <1>7

\* createX finds a vector to store into, or it is below an array of a size no
\* int holds.
LEMMA StoresIs ==
    ASSUME Stacked(rstack, reply), \A p \in DOMAIN reply : reply[p] \in Objects
    PROVE  /\ ~StoresThroughNull => Vectors(rstack, reply)
           /\ StoresThroughNull =>
                \E p \in DOMAIN reply : reply[p].type = "ARRAY" /\ reply[p].num >= IntHalf
  <1> DEFINE n == Len(rstack)
  <1>1. rstack \in Seq(Tasks) /\ n \in Nat /\ \A i \in 2..n : Room(rstack, reply, i)
    BY LenProperties DEF Stacked
  <1>2. CASE ~(n > 1)
    BY <1>1, <1>2 DEF StoresThroughNull, Vectors
  <1>3. CASE n > 1
    <2>1. StoresThroughNull <=> ~HasVector(reply[Above(rstack, n)])
      BY <1>1, <1>3, StoreIs, Zenon DEF StoresThroughNull
    <2> HIDE DEF n
    <2>2. n \in 2..n /\ ~(n < n)
      BY <1>1, <1>3
    <2>3. \A i \in 2..n : i # n => i < n
      BY <1>1
    <2>4. ~StoresThroughNull => \A i \in 2..n : HasVector(reply[Above(rstack, i)])
      BY <1>1, <2>1, <2>2, <2>3 DEF Room, n
    <2>5. ASSUME StoresThroughNull
          PROVE  \E p \in DOMAIN reply : reply[p].type = "ARRAY" /\ reply[p].num >= IntHalf
      <3> DEFINE p == Above(rstack, n)
      <3>1. /\ p \in DOMAIN reply /\ reply[p].type = "ARRAY"
            /\ ~(reply[p].num < IntHalf)
        BY <1>1, <2>1, <2>2, <2>5 DEF Room, n
      <3> HIDE DEF p
      <3>2. reply[p].num \in Int /\ IntHalf \in Int
        BY <3>1, ReaderAssumption DEF Objects
      <3>3. reply[p].num >= IntHalf
        BY <3>1, <3>2
      <3> QED
        BY <3>1, <3>3
    <2> QED
      BY <2>4, <2>5 DEF Vectors, n
  <1> QED
    BY <1>2, <1>3

\* An object that cannot be created.
LEMMA CreateFailsKeeps ==
    ASSUME ReaderOK, CreateFails
    PROVE  ReaderOK'
  <1>1. CASE SetError("oom") /\ pc' = "return"
    BY <1>1, SetErrorKeeps
  <1>2. CASE StoresThroughNull /\ pc' = "fault" /\ UNCHANGED reader
    <2>1. \E p \in DOMAIN reply : reply[p].type = "ARRAY" /\ reply[p].num >= IntHalf
      BY <1>2, StoresIs DEF ReaderOK
    <2>2. UNCHANGED <<buf, pos, err, rstack, reply>>
      BY <1>2 DEF reader
    <2> QED
      BY <1>2, <2>1, <2>2 DEF ReaderOK
  <1> QED
    BY <1>1, <1>2 DEF CreateFails

\* The item is complete.
LEMMA CompleteItemKeeps ==
    ASSUME ReaderOK, pc = "items", NEW o \in Objects, NEW q \in 0..Len(buf),
           o.type = "ARRAY" /\ o.num >= 0 => o.num = 0 /\ o.elements = 0,
           Complete(o, q)
    PROVE  ReaderOK'
  <1>1. CASE CreateFails
    BY <1>1, CreateFailsKeeps
  <1>2. CASE /\ ~StoresThroughNull
             /\ reply' = Create(o)
             /\ rstack' = moveToNextTask(rstack)
             /\ pos' = q
             /\ pc' = IF rstack' = <<>> THEN "return" ELSE "items"
             /\ UNCHANGED <<buf, err>>
    <2>1. /\ rstack # <<>> /\ rstack \in Seq(Tasks) /\ Stacked(rstack, reply)
          /\ Hangs(rstack, reply) /\ \A p \in DOMAIN reply : reply[p] \in Objects
      BY DEF ReaderOK, Stacked
    <2>2. Vectors(rstack, reply)
      BY <1>2, <2>1, StoresIs
    <2>3. reply' = With(reply, Above(rstack, Len(rstack) + 1), o)
      BY <1>2, <2>1, CreateIs
    <2>4. Stacked(rstack', reply') /\ Hangs(rstack', reply') /\ <<>> \in DOMAIN reply'
      BY <1>2, <2>1, <2>2, <2>3, CompleteKeeps
    <2>5. \A p \in DOMAIN reply' : reply'[p] \in Objects
      BY <2>1, <2>3 DEF With
    <2> QED
      BY <1>2, <2>4, <2>5 DEF ReaderOK
  <1> QED
    BY <1>1, <1>2 DEF Complete

\* The objects that are no arrays.
LEMMA LeafIs ==
    ASSUME NEW type \in {"NIL", "ERROR", "STATUS", "INTEGER", "STRING"}, NEW num \in Int,
           NEW text \in Seq(Bytes)
    PROVE  Leaf(type, num, text) \in Objects /\ Leaf(type, num, text).type # "ARRAY"
  BY DEF Leaf, Objects, Types

LEMMA NilIs == Leaf("NIL", 0, <<>>) \in Objects /\ Leaf("NIL", 0, <<>>).type # "ARRAY"
  <1>1. <<>> \in Seq(Bytes) /\ 0 \in Int /\ "NIL" \in {"NIL", "ERROR", "STATUS", "INTEGER", "STRING"}
    BY EmptySeq
  <1> QED
    BY <1>1, LeafIs

\* A line: where it ends, and that its bytes are in the buffer.
LEMMA LineIs ==
    ASSUME buf \in Seq(Bytes), NEW p \in 0..Len(buf), NEW nl, nl = seekNewline(Rest(p)), nl # 0
    PROVE  /\ nl \in Nat /\ nl > 0 /\ p + nl + 1 \in 0..Len(buf) /\ nl + 1 <= Len(Rest(p))
           /\ Rest(p) \in Seq(Bytes) /\ Len(Rest(p)) = Len(buf) - p
           /\ SubSeq(Rest(p), 1, nl - 1) \in Seq(Bytes)
           /\ readLongLong(SubSeq(Rest(p), 1, nl - 1)) \in Int
  <1>1. Rest(p) \in Seq(Bytes) /\ Len(Rest(p)) = Len(buf) - p /\ Len(buf) \in Nat
    BY RestIs
  <1> DEFINE r == Rest(p)
             l == Len(buf)
  <1>2. nl \in 1..(Len(r) - 1)
    BY <1>1, SeekNewlineIs
  <1>3. r \in Seq(Bytes) /\ Len(r) = l - p /\ l \in Nat /\ p \in 0..l
    BY <1>1
  <1> HIDE DEF r, l
  <1>4. nl \in Nat /\ nl > 0 /\ p + nl + 1 \in 0..l /\ nl + 1 <= Len(r) /\ nl - 1 <= Len(r)
    BY <1>2, <1>3
  <1>5. SubSeq(r, 1, nl - 1) \in Seq(Bytes)
    BY <1>3, <1>4, SubBytes, SMTT(30)
  <1>6. readLongLong(SubSeq(r, 1, nl - 1)) \in Int
    BY <1>5, ReadLongLongType
  <1> QED
    BY <1>1, <1>4, <1>5, <1>6 DEF r, l

LEMMA LineItemKeeps ==
    ASSUME ReaderOK, pc = "items", NEW type \in {"ERROR", "STATUS", "INTEGER"},
           NEW p \in 0..Len(buf), processLineItem(type, p)
    PROVE  ReaderOK'
  <1> DEFINE nl == seekNewline(Rest(p))
             line == SubSeq(Rest(p), 1, nl - 1)
  <1>b. buf \in Seq(Bytes) /\ type \in Types
    BY DEF ReaderOK, Types
  <1>1. CASE nl = 0
    BY <1>1, <1>b, StarveKeeps DEF processLineItem
  <1>2. CASE nl # 0
    <2>1. line \in Seq(Bytes) /\ readLongLong(line) \in Int /\ p + nl + 1 \in 0..Len(buf)
      BY <1>b, <1>2, LineIs
    <2>2. \/ Complete(Leaf(type, readLongLong(line), <<>>), p + nl + 1)
          \/ Complete(Leaf(type, 0, line), p + nl + 1)
      BY <1>2 DEF processLineItem
    <2>3. <<>> \in Seq(Bytes) /\ 0 \in Int
      BY EmptySeq
    <2> HIDE DEF nl, line
    <2>4. /\ Leaf(type, readLongLong(line), <<>>) \in Objects
          /\ Leaf(type, readLongLong(line), <<>>).type # "ARRAY"
          /\ Leaf(type, 0, line) \in Objects /\ Leaf(type, 0, line).type # "ARRAY"
      BY <2>1, <2>3, LeafIs
    <2> QED
      BY <2>1, <2>2, <2>4, CompleteItemKeeps
  <1> QED
    BY <1>1, <1>2

LEMMA BulkItemKeeps ==
    ASSUME ReaderOK, pc = "items", NEW p \in 0..Len(buf), processBulkItem("STRING", p)
    PROVE  ReaderOK'
  <1> DEFINE nl == seekNewline(Rest(p))
             len == readLongLong(SubSeq(Rest(p), 1, nl - 1))
             end == p + nl + 1 + len + 2
             text == SubSeq(Rest(p), nl + 2, nl + 1 + len)
  <1>b. buf \in Seq(Bytes) /\ "STRING" \in Types /\ <<>> \in Seq(Bytes) /\ Len(buf) \in Nat
    BY EmptySeq, LenProperties DEF ReaderOK, Types
  <1>1. CASE nl = 0
    BY <1>1, <1>b, StarveKeeps DEF processBulkItem
  <1>2. CASE nl # 0
    <2>1. /\ nl \in Nat /\ nl > 0 /\ p + nl + 1 \in 0..Len(buf) /\ len \in Int
          /\ Rest(p) \in Seq(Bytes) /\ Len(Rest(p)) = Len(buf) - p
      BY <1>b, <1>2, LineIs
    <2>2. \/ len < 0 /\ Complete(Leaf("NIL", 0, <<>>), p + nl + 1)
          \/ Starve("STRING", p)
          \/ len >= 0 /\ BufferHolds(end) /\ Complete(Leaf("STRING", 0, text), end)
      <3> HIDE DEF nl
      <3> QED
        BY <1>2, <2>1, SMTT(30) DEF processBulkItem, nl
    <2>3. CASE len < 0 /\ Complete(Leaf("NIL", 0, <<>>), p + nl + 1)
      <3> DEFINE q == p + nl + 1
      <3>1. q \in 0..Len(buf) /\ Complete(Leaf("NIL", 0, <<>>), q)
        BY <2>1, <2>3
      <3> HIDE DEF q
      <3> QED
        BY <3>1, NilIs, CompleteItemKeeps
    <2>4. CASE Starve("STRING", p)
      BY <1>b, <2>4, StarveKeeps
    <2>5. CASE len >= 0 /\ BufferHolds(end) /\ Complete(Leaf("STRING", 0, text), end)
      <3>1. end <= Len(buf) /\ end = p + nl + 1 + len + 2
        BY <2>5 DEF BufferHolds
      <3>2. text = SubSeq(Rest(p), nl + 2, nl + 1 + len)
        OBVIOUS
      <3> HIDE DEF nl, len, end, text
      <3>3. end \in 0..Len(buf) /\ nl + 2 >= 1 /\ nl + 1 + len <= Len(Rest(p))
            /\ nl + 2 \in Int /\ nl + 1 + len \in Int
        BY <1>b, <2>1, <2>5, <3>1
      <3>4. text \in Seq(Bytes)
        BY <2>1, <3>2, <3>3, SubBytes
      <3>5. Leaf("STRING", 0, text) \in Objects /\ Leaf("STRING", 0, text).type # "ARRAY"
        BY <3>4, LeafIs
      <3> QED
        BY <2>5, <3>3, <3>5, CompleteItemKeeps
    <2> QED
      BY <2>2, <2>3, <2>4, <2>5
  <1> QED
    BY <1>1, <1>2

LEMMA MultiBulkItemKeeps ==
    ASSUME ReaderOK, pc = "items", NEW p \in 0..Len(buf), processMultiBulkItem("ARRAY", p)
    PROVE  ReaderOK'
  <1> DEFINE nl == seekNewline(Rest(p))
             n == readLongLong(SubSeq(Rest(p), 1, nl - 1))
  <1>b. buf \in Seq(Bytes) /\ "ARRAY" \in Types /\ <<>> \in Seq(Bytes) /\ Len(buf) \in Nat
    BY EmptySeq, LenProperties DEF ReaderOK, Types
  <1>1. CASE Len(rstack) - 1 = Depth
    <2>1. SetError("protocol") /\ pc' = "return"
      BY <1>1 DEF processMultiBulkItem
    <2> QED
      BY <2>1, SetErrorKeeps
  <1>2. CASE Len(rstack) - 1 # Depth /\ nl = 0
    <2>1. Starve("ARRAY", p)
      BY <1>2 DEF processMultiBulkItem
    <2> QED
      BY <1>b, <2>1, StarveKeeps
  <1>3. CASE Len(rstack) - 1 # Depth /\ nl # 0
    <2>1. /\ nl \in Nat /\ nl > 0 /\ p + nl + 1 \in 0..Len(buf) /\ n \in Int
      BY <1>b, <1>3, LineIs
    <2> DEFINE rstack2 == [rstack EXCEPT ![Len(rstack)] =
                             [@ EXCEPT !.type = "ARRAY", !.elements = Signed(n, IntHalf)]]
    <2>2. \/ Complete(Leaf("NIL", 0, <<>>), p + nl + 1)
          \/ n <= 0 /\ Complete(ArrayOf(n), p + nl + 1)
          \/ CreateFails
          \/ /\ n > 0
             /\ ~StoresThroughNull
             /\ reply' = Create(ArrayOf(n))
             /\ rstack' = Append(rstack2, Task(0))
             /\ pos' = p + nl + 1
             /\ UNCHANGED <<buf, err, pc>>
      <3>1. nl > 0
        BY <2>1
      <3>2. n = -1 \/ (n # -1 /\ n <= 0) \/ (n # -1 /\ ~(n <= 0) /\ n > 0)
        BY <2>1
      <3> HIDE DEF nl, n
      <3> QED
        BY <1>3, <3>1, <3>2 DEF processMultiBulkItem, nl, n
    <2>3. CASE Complete(Leaf("NIL", 0, <<>>), p + nl + 1)
      <3> DEFINE q == p + nl + 1
      <3>1. q \in 0..Len(buf) /\ Complete(Leaf("NIL", 0, <<>>), q)
        BY <2>1, <2>3
      <3> HIDE DEF q
      <3> QED
        BY <3>1, NilIs, CompleteItemKeeps
    <2>4. CASE n <= 0 /\ Complete(ArrayOf(n), p + nl + 1)
      <3> DEFINE o == ArrayOf(n)
      <3> HIDE DEF nl, n
      <3>1. /\ o \in Objects /\ o.num = n
            /\ n >= 0 /\ n < IntHalf => o.elements = n
        BY <2>1, ArrayOfIs
      <3> HIDE DEF o
      <3>2. o.num >= 0 => o.num = 0 /\ o.elements = 0
        BY <2>1, <2>4, <3>1, ReaderAssumption
      <3> QED
        BY <2>1, <2>4, <3>1, <3>2, CompleteItemKeeps DEF o
    <2>5. CASE CreateFails
      BY <2>5, CreateFailsKeeps
    <2>6. CASE /\ n > 0
               /\ ~StoresThroughNull
               /\ reply' = Create(ArrayOf(n))
               /\ rstack' = Append(rstack2, Task(0))
               /\ pos' = p + nl + 1
               /\ UNCHANGED <<buf, err, pc>>
      <3> DEFINE o == ArrayOf(n)
                 k == Signed(n, IntHalf)
                 top == [rstack[Len(rstack)] EXCEPT !.type = "ARRAY", !.elements = k]
      <3> HIDE DEF nl, n
      <3>1. /\ rstack # <<>> /\ rstack \in Seq(Tasks) /\ Stacked(rstack, reply)
            /\ Hangs(rstack, reply) /\ \A x \in DOMAIN reply : reply[x] \in Objects
        BY DEF ReaderOK, Stacked
      <3>2. /\ o \in Objects /\ o.num = n /\ o.type = "ARRAY"
            /\ HasVector(o) => o.elements = k /\ k > 0
            /\ n > 0 /\ n < IntHalf => HasVector(o)
            /\ n >= 0 /\ n < IntHalf => o.elements = n
            /\ k \in Int
        BY <2>1, ArrayOfIs
      <3>v. Vectors(rstack, reply)
        BY <2>6, <3>1, StoresIs
      <3>3. reply' = With(reply, Above(rstack, Len(rstack) + 1), o)
        BY <2>6, <3>1, CreateIs
      <3>4. /\ top \in Tasks /\ top.idx = rstack[Len(rstack)].idx
            /\ top.type = "ARRAY" /\ top.elements = k
        <4>1. rstack[Len(rstack)] \in Tasks
          BY <3>1, StackType, EmptySeq, LenProperties
        <4> HIDE DEF k
        <4> QED
          BY <4>1, <3>2, <1>b DEF Tasks
      <3>5. rstack2 = [rstack EXCEPT ![Len(rstack)] = top]
        OBVIOUS
      <3> HIDE DEF o, k, top, rstack2
      <3>6. Retopped(rstack, rstack2) /\ rstack2[Len(rstack)] = top
        BY <3>1, <3>4, <3>5, RetopIs
      <3>7. Stacked(rstack', reply') /\ Hangs(rstack', reply')
        <4>1. Len(rstack) - 1 # Depth
          BY <1>3
        <4>2. /\ o.num > 0 /\ o.elements \in Int
              /\ o.num < IntHalf => HasVector(o) /\ o.elements = o.num
              /\ HasVector(o) => o.elements = rstack2[Len(rstack)].elements /\ o.elements > 0
              /\ rstack2[Len(rstack)].type = "ARRAY"
          BY <2>1, <2>6, <3>2, <3>4, <3>6 DEF Objects
        <4> QED
          BY <2>6, <3>1, <3>2, <3>3, <3>v, <3>6, <4>1, <4>2, PushKeeps
      <3>8. \A x \in DOMAIN reply' : reply'[x] \in Objects
        BY <3>1, <3>2, <3>3 DEF With
      <3>9. rstack' # <<>>
        <4>1. rstack2 \in Seq(Tasks) /\ Len(rstack2) \in Nat
          BY <3>6, LenProperties DEF Retopped
        <4>2. Len(Append(rstack2, Task(0))) = Len(rstack2) + 1
          BY <4>1, TaskType, AppendProperties
        <4> QED
          BY <2>6, <4>1, <4>2, EmptySeq
      <3> QED
        BY <2>1, <2>6, <3>7, <3>8, <3>9 DEF ReaderOK
    <2> QED
      BY <2>2, <2>3, <2>4, <2>5, <2>6
  <1> QED
    BY <1>1, <1>2, <1>3

LEMMA TypeByte == \A c \in DOMAIN TypeBytes : TypeBytes[c] \in Types
  BY DEF TypeBytes, Types

\* processItem leaves a reader that is fit for the next call.
LEMMA ProcessItemKeeps ==
    ASSUME ReaderOK, processItem
    PROVE  ReaderOK'
  <1> DEFINE known == Top.type # "unknown"
             p == IF known THEN pos ELSE pos + 1
             byte == buf[p]
             type == IF known THEN Top.type ELSE TypeBytes[byte]
  <1>0. pc = "items" /\ buf \in Seq(Bytes) /\ pos \in 0..Len(buf) /\ Len(buf) \in Nat
    BY LenProperties DEF processItem, ReaderOK
  <1>1. Top.type \in Types \cup {"unknown"}
    <2>1. rstack # <<>> /\ rstack \in Seq(Tasks)
      BY <1>0 DEF ReaderOK, Stacked
    <2> QED
      BY <2>1, StackType, EmptySeq, LenProperties DEF Top
  <1>2. CASE ~known /\ pos >= Len(buf)
    <2>1. ~(pos < Len(buf))
      BY <1>0, <1>2
    <2>2. Starve("unknown", pos)
      BY <1>2, <2>1, Zenon DEF processItem
    <2> QED
      BY <1>0, <2>2, StarveKeeps
  <1>3. CASE ~known /\ pos < Len(buf) /\ byte \notin DOMAIN TypeBytes
    <2>1. ~(~known /\ pos >= Len(buf))
      BY <1>0, <1>3
    <2>2. SetError("protocol") /\ pc' = "return"
      BY <1>3, <2>1, Zenon DEF processItem
    <2> QED
      BY <2>2, SetErrorKeeps
  <1>4. CASE known \/ (pos < Len(buf) /\ byte \in DOMAIN TypeBytes)
    <2>1. p \in 0..Len(buf) /\ type \in Types
      <3>1. CASE known
        BY <3>1, <1>0, <1>1
      <3>2. CASE ~known
        <4>1. p = pos + 1 /\ type = TypeBytes[byte]
          BY <3>2
        <4>2. pos + 1 \in 0..Len(buf)
          BY <3>2, <1>0, <1>4
        <4> HIDE DEF byte
        <4> QED
          BY <3>2, <4>1, <4>2, <1>4, TypeByte
      <3> QED
        BY <3>1, <3>2
    <2>2. /\ ~(~known /\ pos >= Len(buf))
          /\ ~(~known /\ pos < Len(buf) /\ byte \notin DOMAIN TypeBytes)
      BY <1>0, <1>4
    <2>3. \/ type \in {"ERROR", "STATUS", "INTEGER"} /\ processLineItem(type, p)
          \/ type = "STRING" /\ processBulkItem(type, p)
          \/ type = "ARRAY" /\ processMultiBulkItem(type, p)
      BY <2>2, Zenon DEF processItem
    <2> HIDE DEF type, p
    <2> QED
      BY <1>0, <2>1, <2>3, LineItemKeeps, BulkItemKeeps, MultiBulkItemKeeps
  <1> QED
    BY <1>0, <1>2, <1>3, <1>4

\* The buffer is read further, or given the bytes of a chunk.
LEMMA GetReplyBeginKeeps ==
    ASSUME ReaderOK, GetReplyBegin
    PROVE  ReaderOK'
  <1>1. UNCHANGED <<buf, pos, err, reply>> /\ pc' \in {"idle", "items"}
    BY DEF GetReplyBegin
  <1>2. CASE UNCHANGED rstack /\ (pc' = "items" => rstack # <<>>)
    BY <1>1, <1>2 DEF ReaderOK
  <1>3. CASE rstack = <<>> /\ rstack' = <<Task(-1)>>
    <2>1. Stacked(rstack', reply)
      <3>1. Task(-1) \in Tasks
        BY TaskType
      <3>2. rstack' \in Seq(Tasks) /\ Len(rstack') = 1
        BY <1>3, <3>1
      <3> QED
        BY <3>2, ReaderAssumption DEF Stacked
    <2>2. Hangs(rstack', reply)
      <3>1. Hangs(rstack, reply)
        BY DEF ReaderOK
      <3>2. Len(rstack) = 0
        BY <1>3
      <3> QED
        BY <1>3, <3>1, <3>2 DEF Hangs
    <2>3. rstack' # <<>>
      BY <1>3
    <2> QED
      BY <1>1, <2>1, <2>2, <2>3 DEF ReaderOK
  <1> QED
    BY <1>2, <1>3 DEF GetReplyBegin

LEMMA ChunkKeeps ==
    ASSUME ReaderOK, NEW chunk \in Seq(Bytes), buf' = buf \o chunk, pc' = "get",
           UNCHANGED <<pos, err, rstack, reply>>
    PROVE  ReaderOK'
  <1>1. /\ buf \in Seq(Bytes) /\ pos \in 0..Len(buf) /\ Len(buf) \in Nat /\ Len(chunk) \in Nat
    BY LenProperties DEF ReaderOK
  <1>2. buf' \in Seq(Bytes) /\ Len(buf') = Len(buf) + Len(chunk)
    BY <1>1, ConcatProperties
  <1>3. pos \in 0..Len(buf')
    BY <1>1, <1>2
  <1> QED
    BY <1>2, <1>3 DEF ReaderOK

\* Appending to the replies of a connection.
LEMMA AppendIsSeq ==
    ASSUME NEW s, IsSeq(s), NEW e
    PROVE  /\ IsSeq(Append(s, e))
           /\ \A i \in DOMAIN Append(s, e) : Append(s, e)[i] = e \/ (i \in DOMAIN s /\ Append(s, e)[i] = s[i])
  <1> DEFINE S == {s[i] : i \in DOMAIN s} \cup {e}
             t == Append(s, e)
  <1>1. s \in Seq(S) /\ e \in S /\ Len(s) \in Nat /\ DOMAIN s = 1..Len(s)
    <2>1. s \in Seq({s[i] : i \in DOMAIN s})
      BY DEF IsSeq
    <2>2. {s[i] : i \in DOMAIN s} \subseteq S
      OBVIOUS
    <2> QED
      BY <2>1, <2>2, LenProperties, SeqMonotonic
  <1> HIDE DEF S
  <1>2. /\ t \in Seq(S) /\ Len(t) = Len(s) + 1 /\ t[Len(s) + 1] = e
        /\ \A i \in 1..Len(s) : t[i] = s[i]
    BY <1>1, AppendProperties
  <1> HIDE DEF t
  <1>3. DOMAIN t = 1..Len(t) /\ Len(t) \in Nat
    BY <1>2, LenProperties
  <1>4. IsSeq(t)
    <2>1. \A i \in 1..Len(t) : t[i] \in {t[j] : j \in DOMAIN t}
      BY <1>3
    <2>2. t \in [1..Len(t) -> {t[j] : j \in DOMAIN t}]
      <3>1. t = [i \in 1..Len(t) |-> t[i]]
        BY <1>2, LenProperties
      <3> QED
        BY <2>1, <3>1
    <2> QED
      BY <2>2, <1>3, IsASeq DEF IsSeq
  <1>5. \A i \in DOMAIN t : t[i] = e \/ (i \in DOMAIN s /\ t[i] = s[i])
    BY <1>1, <1>2, <1>3
  <1> QED
    BY <1>4, <1>5 DEF t

\* The discard drops what was consumed.
LEMMA DiscardKeeps ==
    ASSUME buf \in Seq(Bytes), pos \in 0..Len(buf),
           \/ buf' = Compacted /\ pos' = 0
           \/ UNCHANGED <<buf, pos>>
    PROVE  buf' \in Seq(Bytes) /\ pos' \in 0..Len(buf')
  <1>1. CASE buf' = Compacted /\ pos' = 0
    <2>1. buf' \in Seq(Bytes)
      BY <1>1, RestIs DEF Compacted
    <2> QED
      BY <1>1, <2>1, LenProperties
  <1>2. CASE UNCHANGED <<buf, pos>>
    BY <1>2
  <1> QED
    BY <1>1, <1>2

\* The reply that is handed over is whole: no task is left.
LEMMA GetReplyEndKeeps ==
    ASSUME ParseInv, GetReplyEnd
    PROVE  ParseInv'
  <1>0. UNCHANGED <<err, rstack, from, wire, sent>> /\ pc = "return" /\ ReaderOK /\ WiresOK
    BY DEF GetReplyEnd, ParseInv
  <1>1. CASE err # "none"
    <2>1. pc' = "idle" /\ UNCHANGED <<buf, pos, reply, out>>
      BY <1>1 DEF GetReplyEnd
    <2> QED
      BY <1>0, <2>1 DEF ParseInv, ReaderOK, WiresOK, RepliesWhole
  <1>2. CASE err = "none"
    <2>1. buf' \in Seq(Bytes) /\ pos' \in 0..Len(buf')
      <3>1. (buf' = Compacted /\ pos' = 0) \/ UNCHANGED <<buf, pos>>
        BY <1>2 DEF GetReplyEnd
      <3>2. buf \in Seq(Bytes) /\ pos \in 0..Len(buf)
        BY <1>0 DEF ReaderOK
      <3> QED
        BY <3>1, <3>2, DiscardKeeps
    <2>2. CASE rstack # <<>>
      <3>1. pc' = "idle" /\ UNCHANGED <<reply, out>>
        BY <1>2, <2>2 DEF GetReplyEnd
      <3> QED
        BY <1>0, <2>1, <3>1 DEF ParseInv, ReaderOK, WiresOK, RepliesWhole
    <2>3. CASE rstack = <<>>
      <3>1. /\ out' = [out EXCEPT ![from] = Append(@, reply)]
            /\ reply' = <<>> /\ pc' = "get"
        BY <1>2, <2>3 DEF GetReplyEnd, NoReply
      <3>2. Whole(reply)
        <4>1. <<>> \in DOMAIN reply /\ Hangs(rstack, reply)
          BY <1>0, <1>2, <2>3 DEF ReaderOK
        <4>2. Len(rstack) = 0
          BY <2>3
        <4>3. ~\E i \in 2..0 : TRUE
          OBVIOUS
        <4> QED
          BY <4>1, <4>2, <4>3 DEF Hangs, Whole, Filled
      <3>3. ReaderOK'
        <4>1. Stacked(<<>>, <<>>)
          BY ReaderAssumption, EmptySeq DEF Stacked
        <4>2. Hangs(<<>>, <<>>)
          BY DEF Hangs
        <4>3. \A p \in DOMAIN reply' : reply'[p] \in Objects
          BY <3>1
        <4> QED
          BY <1>0, <2>1, <2>3, <3>1, <4>1, <4>2, <4>3 DEF ReaderOK
      <3>4. /\ from \in Handles /\ DOMAIN out = Handles
            /\ \A h \in Handles : out'[h] = IF h = from THEN Append(out[h], reply) ELSE out[h]
            /\ out' = [h \in Handles |-> out'[h]]
        BY <1>0, <3>1 DEF WiresOK
      <3>5. WiresOK'
        <4>0. \A h \in Handles : IsSeq(out[h])
          BY <1>0 DEF WiresOK
        <4>1. \A h \in Handles : IsSeq(out'[h])
          <5>1. \A h \in Handles : IsSeq(Append(out[h], reply))
            BY <4>0, AppendIsSeq
          <5> QED
            BY <3>4, <4>0, <5>1
        <4>2. out' \in [Handles -> {out'[h] : h \in Handles}]
          BY <3>4
        <4> QED
          BY <1>0, <4>1, <4>2 DEF WiresOK
      <3>6. ASSUME NEW h \in Handles, NEW i \in DOMAIN out'[h] PROVE Whole(out'[h][i])
        <4>1. CASE h = from
          <5>1. out'[h] = Append(out[h], reply) /\ IsSeq(out[h])
            BY <4>1, <3>4, <1>0 DEF WiresOK
          <5>2. out'[h][i] = reply \/ (i \in DOMAIN out[h] /\ out'[h][i] = out[h][i])
            BY <5>1, AppendIsSeq
          <5> QED
            BY <5>2, <3>2 DEF ParseInv, RepliesWhole
        <4>2. CASE h # from
          BY <4>2, <3>4 DEF ParseInv, RepliesWhole
        <4> QED
          BY <4>1, <4>2
      <3> QED
        BY <3>3, <3>5, <3>6 DEF ParseInv, RepliesWhole
    <2> QED
      BY <2>2, <2>3
  <1> QED
    BY <1>1, <1>2

\* A chunk arrives.
LEMMA OnReadKeeps ==
    ASSUME ParseInv, NEW h \in Handles, NEW n \in 1..Len(wire[h]), on_read(h, n)
    PROVE  ParseInv'
  <1>0. /\ pc = "idle" /\ UNCHANGED <<sent, out>> /\ ReaderOK /\ WiresOK
        /\ wire' = [wire EXCEPT ![h] = SubSeq(@, n + 1, Len(@))]
    BY DEF on_read, ParseInv
  <1>1. /\ wire \in [Handles -> Seq(Bytes)] /\ wire[h] \in Seq(Bytes) /\ Len(wire[h]) \in Nat
        /\ n \in Nat
    <2>1. wire \in [Handles -> Seq(Bytes)]
      BY <1>0 DEF WiresOK
    <2> QED
      BY <2>1, LenProperties
  <1>2. SubSeq(wire[h], n + 1, Len(wire[h])) \in Seq(Bytes) /\ SubSeq(wire[h], 1, n) \in Seq(Bytes)
    BY <1>1, SubBytes
  <1>3. wire' \in [Handles -> Seq(Bytes)]
    BY <1>0, <1>1, <1>2
  <1>4. from' \in Handles
    BY <1>0 DEF on_read, WiresOK
  <1>5. WiresOK' /\ RepliesWhole'
    BY <1>0, <1>3, <1>4 DEF WiresOK, RepliesWhole, ParseInv
  <1>6. CASE UNCHANGED <<reader, pc, from>>
    BY <1>0, <1>5, <1>6 DEF reader, ReaderOK, ParseInv
  <1>7. CASE SetError("oom") /\ UNCHANGED <<pc, from>>
    BY <1>0, <1>5, <1>7, SetErrorKeeps DEF ParseInv
  <1>8. CASE /\ buf' = buf \o SubSeq(wire[h], 1, n) /\ pc' = "get"
             /\ UNCHANGED <<pos, err, rstack, reply>>
    BY <1>0, <1>2, <1>5, <1>8, ChunkKeeps DEF ParseInv
  <1> QED
    BY <1>6, <1>7, <1>8 DEF on_read

\* disconnect() and connect().
LEMMA ReconnectKeeps ==
    ASSUME ParseInv, Reconnect
    PROVE  ParseInv'
  <1>0. /\ UNCHANGED <<reader, pc, from, out>> /\ wire' = [h \in Handles |-> <<>>]
        /\ sent' = IF err = "none" THEN [h \in Handles |-> Received(h)] ELSE sent
        /\ ReaderOK /\ WiresOK /\ RepliesWhole
    BY DEF Reconnect, ParseInv
  <1>1. wire' \in [Handles -> Seq(Bytes)]
    BY <1>0, EmptySeq
  <1>2. \A h \in Handles : Received(h) \in Seq(Replies)
    <2>1. ASSUME NEW h \in Handles PROVE Received(h) \in Seq(Replies)
      <3> DEFINE s == sent[h]
                 a == Len(sent[h])
                 b == Len(out[h])
                 n == Min({a, b})
      <3>1. s \in Seq(Replies) /\ a \in Nat /\ b \in Nat
        <4>1. s \in Seq(Replies) /\ out[h] \in Seq({out[h][i] : i \in DOMAIN out[h]})
          BY <1>0 DEF WiresOK, IsSeq
        <4> QED
          BY <4>1, LenProperties
      <3>2. n \in Nat /\ n <= a
        <4> HIDE DEF a, b
        <4>1. {a, b} \in SUBSET Nat /\ {a, b} # {}
          BY <3>1
        <4>2. Min({a, b}) \in {a, b} /\ \A y \in {a, b} : Min({a, b}) <= y
          BY <4>1, MinIs
        <4> QED
          BY <3>1, <4>2
      <3>3. \A i \in 1..n : s[i] \in Replies
        <4> HIDE DEF n
        <4> QED
          BY <3>1, <3>2, ElementOfSeq
      <3>4. SubSeq(s, 1, n) \in Seq(Replies)
        <4> HIDE DEF n, s
        <4> QED
          BY <3>2, <3>3, SubSeqProperties
      <3> QED
        BY <3>4 DEF Received
    <2> QED
      BY <2>1
  <1>3. sent' \in [Handles -> Seq(Replies)]
    BY <1>0, <1>2 DEF WiresOK
  <1> QED
    BY <1>0, <1>1, <1>3 DEF ParseInv, ReaderOK, WiresOK, RepliesWhole, reader

\* The server sends.
LEMMA ServerSendsKeeps ==
    ASSUME ParseInv, NEW h \in Handles, NEW r \in Replies, ServerSends(h, r)
    PROVE  ParseInv'
  <1>0. /\ UNCHANGED <<reader, pc, from, out>> /\ ReaderOK /\ WiresOK /\ RepliesWhole
        /\ sent' = [sent EXCEPT ![h] = Append(@, r)]
        /\ wire' = [wire EXCEPT ![h] = @ \o Encode(r)]
    BY DEF ServerSends, ParseInv
  <1>1. sent \in [Handles -> Seq(Replies)] /\ wire \in [Handles -> Seq(Bytes)]
    BY <1>0 DEF WiresOK
  <1>2. Append(sent[h], r) \in Seq(Replies)
    BY <1>1, AppendProperties
  <1>3. wire[h] \o Encode(r) \in Seq(Bytes)
    BY <1>1, EncodeAssumption, ConcatProperties
  <1>4. sent' \in [Handles -> Seq(Replies)] /\ wire' \in [Handles -> Seq(Bytes)]
    BY <1>0, <1>1, <1>2, <1>3
  <1> QED
    BY <1>0, <1>4 DEF ParseInv, ReaderOK, WiresOK, RepliesWhole, reader

-----------------------------------------------------------------------------

LEMMA ParseInvHolds == Spec => []ParseInv
  <1>1. Init => ParseInv
    <2> SUFFICES ASSUME Init PROVE ParseInv
      OBVIOUS
    <2>1. ReaderOK
      <3>1. Stacked(<<>>, <<>>)
        BY ReaderAssumption, EmptySeq DEF Stacked
      <3>2. Hangs(<<>>, <<>>)
        BY DEF Hangs
      <3> QED
        BY <3>1, <3>2, EmptySeq DEF Init, ReaderOK, NoReply
    <2>2. WiresOK
      <3>1. \A h \in Handles : out[h] = <<>> /\ IsSeq(<<>>)
        BY EmptySeq DEF Init, IsSeq
      <3>2. out = [h \in Handles |-> out[h]]
        BY DEF Init
      <3> QED
        BY <3>1, <3>2, EmptySeq DEF Init, WiresOK
    <2>3. RepliesWhole
      BY DEF Init, RepliesWhole
    <2> QED
      BY <2>1, <2>2, <2>3 DEF ParseInv
  <1>2. ParseInv /\ [Next]_vars => ParseInv'
    <2> SUFFICES ASSUME ParseInv, [Next]_vars PROVE ParseInv'
      OBVIOUS
    <2>1. CASE UNCHANGED vars
      BY <2>1 DEF vars, reader, ParseInv, ReaderOK, WiresOK, RepliesWhole
    <2>2. CASE processItem
      <3>1. UNCHANGED <<from, wire, sent, out>> /\ ReaderOK'
        BY <2>2, ProcessItemKeeps DEF processItem, ParseInv
      <3> QED
        BY <3>1 DEF ParseInv, WiresOK, RepliesWhole
    <2>3. CASE GetReplyBegin
      <3>1. UNCHANGED <<from, wire, sent, out>> /\ ReaderOK'
        BY <2>3, GetReplyBeginKeeps DEF GetReplyBegin, ParseInv
      <3> QED
        BY <3>1 DEF ParseInv, WiresOK, RepliesWhole
    <2>4. CASE GetReplyEnd
      BY <2>4, GetReplyEndKeeps
    <2>5. CASE \E h \in Handles : \E n \in 1..Len(wire[h]) : on_read(h, n)
      BY <2>5, OnReadKeeps
    <2>6. CASE Reconnect
      BY <2>6, ReconnectKeeps
    <2>7. CASE \E h \in Handles, r \in Replies : ServerSends(h, r)
      BY <2>7, ServerSendsKeeps
    <2> QED
      BY <2>1, <2>2, <2>3, <2>4, <2>5, <2>6, <2>7 DEF Next, Handler
  <1> QED
    BY <1>1, <1>2, PTL DEF Spec

\* The reader's type invariant: in particular the cursor never passes the end
\* of the buffer, whatever bytes arrive and wherever the chunks are cut.
THEOREM ReaderTypeCorrect == Spec => []TypeOK
  BY ParseInvHolds, ParseInvType, PTL

\* redisReaderGetReply never runs over rstack[9], and the assertions of
\* moveToNextTask and of the createX functions on the parent task hold, for
\* nested replies, garbage and replies mixed by the shared reader.  Below an
\* array of a size that no int holds this is not so: the task counts with what
\* is left of the size, and createX may store through NULL there; the theorem
\* says that it does nowhere else.
THEOREM TaskStackIsSafe == Spec => []StackOK
  BY ParseInvHolds, ParseInvType, PTL

\* No reply leaves redisReaderGetReply before all elements of all its arrays
\* were created, for every cut of every input, mixed replies and failed
\* allocations included; and an array is of the size that was announced, if an
\* int holds it.  Arrays announced with a negative size other than -1 are
\* excepted: these leave with elements that nobody created.
THEOREM RepliesAreWhole == Spec => []RepliesWhole
  <1>1. ParseInv => RepliesWhole
    BY DEF ParseInv
  <1> QED
    BY <1>1, ParseInvHolds, PTL

-----------------------------------------------------------------------------
(* Commands (CommandFormat).                                               *)

\* What a command of these bytes is written with.
Symbols(bytes) == bytes \cup {"*", "$", "CR", "LF"} \cup {ToString(d) : d \in 0..9}

\* The loop of intlen counts the digits that sprintf writes.
LEMMA DigitsCounted ==
    ASSUME NEW i \in Nat, NEW bytes
    PROVE  /\ intlen(i) \in Nat
           /\ Decimal(i) \in Seq(Symbols(bytes)) /\ Len(Decimal(i)) = intlen(i)
  <1> DEFINE Reached == {k \in 1..10 : k = 1 \/ i >= Powers[k]}
             Enough == {k \in 1..10 : k = 10 \/ i < Powers[k + 1]}
  <1>1. /\ \A k \in 1..10 : Powers[k] \in Nat \ {0}
        /\ \A k \in 1..9 : Powers[k] < Powers[k + 1]
    BY DEF Powers
  <1>2. \A j, k \in 1..10 : j <= k => Powers[j] <= Powers[k]
    BY DEF Powers
  <1> HIDE DEF Powers
  <1>3. PICK w : w = Min(Enough)
    OBVIOUS
  <1>4. w \in Enough /\ \A k \in Enough : w <= k
    <2>1. 10 \in Enough
      OBVIOUS
    <2>2. Enough \in SUBSET Nat
      OBVIOUS
    <2> QED
      BY <1>3, <2>1, <2>2, MinIs
  <1>5. w \in 1..10
    BY <1>4
  <1>6. Reached = 1..w
    <2>1. ASSUME NEW k \in Reached PROVE k <= w
      <3> SUFFICES ASSUME k > w PROVE FALSE
        BY <1>5
      <3>1. k \in 1..10 /\ w # 10 /\ w + 1 \in 1..10 /\ w + 1 <= k
        BY <1>5
      <3>2. i < Powers[w + 1] /\ Powers[w + 1] <= Powers[k]
        BY <3>1, <1>4, <1>2
      <3>3. i >= Powers[k]
        BY <1>5
      <3> QED
        BY <3>1, <3>2, <3>3, <1>1
    <2>2. ASSUME NEW k \in 1..w PROVE k \in Reached
      <3> SUFFICES ASSUME k # 1 PROVE i >= Powers[k]
        BY <1>5
      <3>1. k - 1 \in 1..9 /\ k \in 1..10 /\ (k - 1) + 1 = k /\ ~(w <= k - 1)
        BY <1>5
      <3>2. k - 1 \notin Enough
        BY <3>1, <1>4
      <3>3. ~(i < Powers[k])
        BY <3>1, <3>2
      <3> QED
        BY <3>1, <3>3, <1>1
    <2> QED
      BY <2>1, <2>2, <1>5
  <1>7. intlen(i) = w
    <2>1. Cardinality(1..w) = w
      <3>1. 1 \in Int /\ w \in Int /\ ~(1 > w) /\ w - 1 + 1 = w
        BY <1>5
      <3>2. Cardinality(1..w) = IF 1 > w THEN 0 ELSE w - 1 + 1
        BY <3>1, FS_Interval, Zenon
      <3> QED
        BY <3>1, <3>2
    <2> QED
      BY <1>6, <2>1 DEF intlen
  <1>8. Decimal(i) = [k \in 1..w |-> ToString((i \div Powers[w - k + 1]) % 10)]
    BY <1>3 DEF Decimal
  <1>9. ASSUME NEW k \in 1..w PROVE ToString((i \div Powers[w - k + 1]) % 10) \in Symbols(bytes)
    <2>1. Powers[w - k + 1] \in Nat \ {0}
      BY <1>1, <1>5
    <2>2. i \div Powers[w - k + 1] \in Int
      BY <2>1
    <2>3. (i \div Powers[w - k + 1]) % 10 \in 0..9
      BY <2>2
    <2> QED
      BY <2>3 DEF Symbols
  <1>10. Decimal(i) \in Seq(Symbols(bytes)) /\ Len(Decimal(i)) = w
    BY <1>8, <1>9, <1>5
  <1> QED
    BY <1>5, <1>7, <1>10

\* Appending the three parts of an argument, or of the header.
LEMMA ConcatLen ==
    ASSUME NEW T, NEW s \in Seq(T), NEW t \in Seq(T)
    PROVE  s \o t \in Seq(T) /\ Len(s \o t) = Len(s) + Len(t)
  BY ConcatProperties

LEMMA BulkLength ==
    ASSUME NEW bytes, NEW arg \in Seq(bytes)
    PROVE  /\ Bulk(arg) \in Seq(Symbols(bytes)) /\ Len(Bulk(arg)) = bulklen(Len(arg))
           /\ bulklen(Len(arg)) \in Nat
  <1> DEFINE T == Symbols(bytes)
             digits == Decimal(Len(arg))
  <1>1. <<"$">> \in Seq(T) /\ Len(<<"$">>) = 1
    BY DEF Symbols
  <1>2. EndOfLine \in Seq(T) /\ Len(EndOfLine) = 2
    BY DEF Symbols, EndOfLine
  <1>3. arg \in Seq(T) /\ Len(arg) \in Nat
    <2>1. bytes \subseteq T
      BY DEF Symbols
    <2> QED
      BY <2>1
  <1>4. digits \in Seq(T) /\ Len(digits) = intlen(Len(arg)) /\ intlen(Len(arg)) \in Nat
    BY <1>3, DigitsCounted
  <1> HIDE DEF T, digits
  <1> DEFINE s1 == <<"$">> \o digits
             s2 == s1 \o EndOfLine
             s3 == s2 \o arg
  <1>5. s1 \in Seq(T) /\ Len(s1) = 1 + intlen(Len(arg))
    BY <1>1, <1>4, ConcatLen
  <1> HIDE DEF s1
  <1>6. s2 \in Seq(T) /\ Len(s2) = Len(s1) + 2
    BY <1>5, <1>2, ConcatLen
  <1> HIDE DEF s2
  <1>7. s3 \in Seq(T) /\ Len(s3) = Len(s2) + Len(arg)
    BY <1>6, <1>3, ConcatLen
  <1> HIDE DEF s3
  <1> DEFINE s4 == s3 \o EndOfLine
  <1>8. s4 \in Seq(T) /\ Len(s4) = Len(s3) + 2
    <2>1. s3 \in Seq(T) /\ EndOfLine \in Seq(T)
      BY <1>7, <1>2
    <2>2. s4 \in Seq(T) /\ Len(s4) = Len(s3) + Len(EndOfLine)
      BY <2>1, ConcatLen, Zenon
    <2> QED
      BY <2>2, <1>2
  <1>9. Bulk(arg) = s4
    BY DEF Bulk, s1, s2, s3, digits
  <1>10. bulklen(Len(arg)) = 1 + intlen(Len(arg)) + 2 + Len(arg) + 2
    BY DEF bulklen
  <1> HIDE DEF s4
  <1>11. Bulk(arg) \in Seq(T)
    BY <1>8, <1>9
  <1>12. Len(Bulk(arg)) = bulklen(Len(arg)) /\ bulklen(Len(arg)) \in Nat
    BY <1>3, <1>4, <1>5, <1>6, <1>7, <1>8, <1>9, <1>10
  <1> QED
    BY <1>11, <1>12 DEF T

\* The block of a command holds it exactly: the assertion of
\* redisFormatCommandArgv after its loop, pos == totlen, for any arguments
\* (numbers have the ten digits of an int).
THEOREM CommandsFit ==
    ASSUME NEW bytes, NEW argv \in Seq(Seq(bytes))
    PROVE  Len(redisFormatCommandArgv(argv)) = totlen(argv)
  <1> DEFINE L == Len(argv)
             T == Symbols(bytes)
             begin == <<"*">> \o Decimal(L) \o EndOfLine
             count == 1 + intlen(L) + 2
             put == [j \in 1..L |-> [x \in Seq(T) |-> x \o Bulk(argv[j])]]
             add == [j \in 1..L |-> [x \in Nat |-> x + bulklen(Len(argv[j]))]]
             cmd == CHOOSE c : c = [j \in 0..L |->
                      IF j = 0 THEN begin ELSE c[j - 1] \o Bulk(argv[j])]
             sum == CHOOSE c : c = [j \in 0..L |->
                      IF j = 0 THEN count ELSE c[j - 1] + bulklen(Len(argv[j]))]
  <1>1. L \in Nat
    OBVIOUS
  <1>2. ASSUME NEW j \in 1..L
        PROVE  /\ Bulk(argv[j]) \in Seq(T) /\ Len(Bulk(argv[j])) = bulklen(Len(argv[j]))
               /\ bulklen(Len(argv[j])) \in Nat
    <2>1. j \in DOMAIN argv /\ argv[j] \in Seq(bytes)
      OBVIOUS
    <2> QED
      BY <2>1, BulkLength
  <1>3. begin \in Seq(T) /\ Len(begin) = count /\ count \in Nat
    <2>1. <<"*">> \in Seq(T) /\ Len(<<"*">>) = 1
      BY DEF Symbols
    <2>2. EndOfLine \in Seq(T) /\ Len(EndOfLine) = 2
      BY DEF Symbols, EndOfLine
    <2>3. Decimal(L) \in Seq(T) /\ Len(Decimal(L)) = intlen(L) /\ intlen(L) \in Nat
      BY <1>1, DigitsCounted
    <2> HIDE DEF T, L
    <2>4. <<"*">> \o Decimal(L) \in Seq(T) /\ Len(<<"*">> \o Decimal(L)) = 1 + intlen(L)
      BY <2>1, <2>3, ConcatLen
    <2>5. begin \in Seq(T) /\ Len(begin) = Len(<<"*">> \o Decimal(L)) + 2
      BY <2>4, <2>2, ConcatLen
    <2> QED
      BY <2>3, <2>4, <2>5
  <1>4. /\ totlen(argv) = sum[L] /\ redisFormatCommandArgv(argv) = cmd[L]
    BY DEF totlen, redisFormatCommandArgv
  <1> HIDE DEF T, begin, count
  <1>5. cmd = [j \in 0..L |-> IF j = 0 THEN begin ELSE cmd[j - 1] \o Bulk(argv[j])]
    <2>1. ASSUME NEW j \in 1..L, NEW x \in Seq(T) PROVE x \o Bulk(argv[j]) \in Seq(T)
      BY <1>2, ConcatLen
    <2>2. put \in StepMaps(Seq(T), L)
      BY <2>1 DEF StepMaps
    <2> HIDE DEF put, cmd, L
    <2>3. PICK f \in Recursions(Seq(T), begin, L, put) : TRUE
      BY <1>1, <1>3, <2>2, RecursionExists
    <2>4. f \in [0..L -> Seq(T)] /\ f[0] = begin /\ \A j \in 1..L : f[j] = put[j][f[j - 1]]
      BY <2>3 DEF Recursions
    <2>5. ASSUME NEW j \in 1..L PROVE f[j] = f[j - 1] \o Bulk(argv[j])
      <3>1. j - 1 \in 0..L
        BY <1>1
      <3>2. f[j - 1] \in Seq(T) /\ f[j] = put[j][f[j - 1]]
        BY <2>4, <3>1
      <3> QED
        BY <3>2 DEF put
    <2>6. DOMAIN f = 0..L /\ \A j \in 0..L : j = 0 \/ j \in 1..L
      BY <1>1, <2>4
    <2>7. f = [j \in 0..L |-> IF j = 0 THEN begin ELSE f[j - 1] \o Bulk(argv[j])]
      BY <2>4, <2>5, <2>6
    <2> QED
      BY <2>7, Zenon DEF cmd
  <1>6. sum = [j \in 0..L |-> IF j = 0 THEN count ELSE sum[j - 1] + bulklen(Len(argv[j]))]
    <2>1. ASSUME NEW j \in 1..L, NEW x \in Nat PROVE x + bulklen(Len(argv[j])) \in Nat
      BY <1>2
    <2>2. add \in StepMaps(Nat, L)
      BY <2>1 DEF StepMaps
    <2> HIDE DEF add, sum, L
    <2>3. PICK f \in Recursions(Nat, count, L, add) : TRUE
      BY <1>1, <1>3, <2>2, RecursionExists
    <2>4. f \in [0..L -> Nat] /\ f[0] = count /\ \A j \in 1..L : f[j] = add[j][f[j - 1]]
      BY <2>3 DEF Recursions
    <2>5. ASSUME NEW j \in 1..L PROVE f[j] = f[j - 1] + bulklen(Len(argv[j]))
      <3>1. j - 1 \in 0..L
        BY <1>1
      <3>2. f[j - 1] \in Nat /\ f[j] = add[j][f[j - 1]]
        BY <2>4, <3>1
      <3> QED
        BY <3>2 DEF add
    <2>6. DOMAIN f = 0..L /\ \A j \in 0..L : j = 0 \/ j \in 1..L
      BY <1>1, <2>4
    <2>7. f = [j \in 0..L |-> IF j = 0 THEN count ELSE f[j - 1] + bulklen(Len(argv[j]))]
      BY <2>4, <2>5, <2>6
    <2> QED
      BY <2>7, Zenon DEF sum
  <1> HIDE DEF put, add, cmd, sum, L
  <1> DEFINE Fits == {j \in Nat : j <= L => cmd[j] \in Seq(T) /\ sum[j] \in Nat /\ Len(cmd[j]) = sum[j]}
  <1>7. 0 \in Fits
    <2>1. 0 \in 0..L
      BY <1>1
    <2>2. cmd[0] = begin /\ sum[0] = count
      BY <2>1, <1>5, <1>6
    <2> QED
      BY <2>2, <1>3
  <1>8. ASSUME NEW j \in Nat, j \in Fits PROVE j + 1 \in Fits
    <2> SUFFICES ASSUME j + 1 <= L
                 PROVE  /\ cmd[j + 1] \in Seq(T) /\ sum[j + 1] \in Nat
                        /\ Len(cmd[j + 1]) = sum[j + 1]
      OBVIOUS
    <2>1. j + 1 \in 1..L /\ j + 1 \in 0..L /\ j + 1 # 0 /\ (j + 1) - 1 = j /\ j <= L
      BY <1>1
    <2>2. cmd[j] \in Seq(T) /\ sum[j] \in Nat /\ Len(cmd[j]) = sum[j]
      BY <2>1, <1>8
    <2>3. cmd[j + 1] = cmd[j] \o Bulk(argv[j + 1])
      BY <2>1, <1>5
    <2>4. sum[j + 1] = sum[j] + bulklen(Len(argv[j + 1]))
      BY <2>1, <1>6
    <2>5. /\ Bulk(argv[j + 1]) \in Seq(T)
          /\ Len(Bulk(argv[j + 1])) = bulklen(Len(argv[j + 1])) /\ bulklen(Len(argv[j + 1])) \in Nat
      BY <2>1, <1>2
    <2>6. /\ cmd[j] \o Bulk(argv[j + 1]) \in Seq(T)
          /\ Len(cmd[j] \o Bulk(argv[j + 1])) = Len(cmd[j]) + Len(Bulk(argv[j + 1]))
      BY <2>2, <2>5, ConcatLen
    <2> QED
      BY <2>2, <2>3, <2>4, <2>5, <2>6
  <1>9. L \in Fits
    <2> HIDE DEF Fits
    <2> QED
      BY <1>1, <1>7, <1>8, SetInduction
  <1> QED
    BY <1>1, <1>4, <1>9
=============================================================================
