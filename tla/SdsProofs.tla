------------------------------ MODULE SdsProofs ------------------------------
(***************************************************************************)
(* Proofs about the dynamic strings, for strings of any length, any bytes, *)
(* any SDS_MAX_PREALLOC and any first buffer of sdscatvprintf.             *)
(***************************************************************************)
EXTENDS Sds, NaturalFacts, SequenceTheorems

-----------------------------------------------------------------------------
(* Strings in blocks.                                                      *)

IsHeader(h) == h = [mem |-> h.mem, len |-> h.len, free |-> h.free]

\* HeaderOK of any string.
Good(h) ==
    /\ IsHeader(h)
    /\ h.len \in Nat /\ h.free \in Nat
    /\ DOMAIN h.mem = 0..(h.len + h.free)
    /\ h.mem[h.len] = 0
    /\ \A k \in 0..(h.len - 1) : h.mem[k] \in Bytes

\* The bytes a header stands for.
Chars(h) == BytesAt(h.mem, 0, h.len)

\* A block from offset 0 on holds v and the terminator.
Holds(mem, v) ==
    /\ mem[Len(v)] = 0
    /\ \A k \in 1..Len(v) : mem[k - 1] = v[k]

\* Two sequences of bytes with the same elements.
LEMMA SameBytes ==
    ASSUME NEW v \in Seq(Bytes), NEW n \in Nat, Len(v) = n, NEW w,
           w = [k \in 1..n |-> w[k]], \A k \in 1..n : w[k] = v[k]
    PROVE  w = v
  <1>1. DOMAIN v = 1..n /\ v = [k \in 1..n |-> v[k]]
    BY LenProperties
  <1> QED
    BY <1>1

LEMMA BytesOf ==
    ASSUME NEW v \in Seq(Bytes)
    PROVE  Len(v) \in Nat /\ DOMAIN v = 1..Len(v) /\ \A k \in 1..Len(v) : v[k] \in Bytes
  BY LenProperties, ElementOfSeq

LEMMA CharsOf ==
    ASSUME NEW h, Good(h)
    PROVE  /\ Chars(h) \in Seq(Bytes) /\ Len(Chars(h)) = h.len /\ h.len \in Nat
           /\ \A k \in 1..h.len : Chars(h)[k] = h.mem[k - 1]
           /\ Holds(h.mem, Chars(h))
  <1> DEFINE n == h.len
             v == Chars(h)
  <1>1. n \in Nat /\ h.mem[n] = 0 /\ \A k \in 0..(n - 1) : h.mem[k] \in Bytes
    BY DEF Good
  <1>2. v = [k \in 1..n |-> h.mem[0 + k - 1]]
    BY DEF Chars, BytesAt
  <1> HIDE DEF n, v
  <1>3. \A k \in 1..n : v[k] = h.mem[k - 1] /\ h.mem[k - 1] \in Bytes
    <2>1. ASSUME NEW k \in 1..n PROVE 0 + k - 1 = k - 1 /\ k - 1 \in 0..(n - 1)
      BY <1>1
    <2> QED
      BY <2>1, <1>1, <1>2
  <1>4. v \in [1..n -> Bytes]
    BY <1>2, <1>3
  <1>5. v \in Seq(Bytes)
    BY <1>1, <1>4, IsASeq
  <1>6. Len(v) = n
    <2>1. DOMAIN v = 1..n
      BY <1>2
    <2> QED
      BY <1>1, <1>5, <2>1, LenProperties
  <1>7. Holds(h.mem, v)
    BY <1>1, <1>3, <1>6 DEF Holds
  <1> QED
    BY <1>1, <1>3, <1>5, <1>6, <1>7 DEF n, v

\* The result of a call: a header of a block that holds v.
LEMMA HeaderIs ==
    ASSUME NEW v \in Seq(Bytes), NEW mem, NEW len \in Nat, NEW free \in Nat, len = Len(v),
           DOMAIN mem = 0..(len + free), Holds(mem, v)
    PROVE  /\ Good(Header(mem, len, free)) /\ Chars(Header(mem, len, free)) = v
           /\ Header(mem, len, free).len = len /\ Header(mem, len, free).free = free
  <1> DEFINE r == Header(mem, len, free)
  <1>1. r.len = len /\ r.free = free /\ DOMAIN r.mem = DOMAIN mem
    BY DEF Header
  <1>8. IsHeader(r)
    BY DEF Header, IsHeader
  <1>2. \A k \in 0..len : r.mem[k] = mem[k]
    BY DEF Header
  <1>3. mem[len] = 0 /\ \A k \in 1..len : mem[k - 1] = v[k]
    BY DEF Holds
  <1>4. \A k \in 1..len : v[k] \in Bytes
    BY BytesOf
  <1> HIDE DEF r
  <1>5. \A k \in 0..(len - 1) : r.mem[k] \in Bytes
    <2>1. ASSUME NEW k \in 0..(len - 1) PROVE r.mem[k] \in Bytes
      <3>1. k + 1 \in 1..len /\ (k + 1) - 1 = k /\ k \in 0..len
        OBVIOUS
      <3> QED
        BY <3>1, <1>2, <1>3, <1>4
    <2> QED
      BY <2>1
  <1>6. Good(r)
    BY <1>1, <1>2, <1>3, <1>5, <1>8 DEF Good
  <1>7. Chars(r) = v
    <2>1. \A k \in 1..len : Chars(r)[k] = v[k]
      <3>1. ASSUME NEW k \in 1..len PROVE Chars(r)[k] = v[k]
        <4>1. k - 1 \in 0..len
          OBVIOUS
        <4>2. Chars(r)[k] = r.mem[k - 1]
          BY <1>1, <1>6, CharsOf
        <4> QED
          BY <4>1, <4>2, <1>2, <1>3
      <3> QED
        BY <3>1
    <2>2. Chars(r) = [k \in 1..len |-> Chars(r)[k]]
      BY <1>1 DEF Chars, BytesAt
    <2> HIDE DEF Chars
    <2> QED
      BY <2>1, <2>2, SameBytes
  <1> QED
    BY <1>1, <1>6, <1>7 DEF r

\* Concatenation, element by element.
LEMMA ConcatIs ==
    ASSUME NEW v \in Seq(Bytes), NEW t \in Seq(Bytes)
    PROVE  /\ v \o t \in Seq(Bytes) /\ Len(v \o t) = Len(v) + Len(t)
           /\ \A k \in 1..Len(v) : (v \o t)[k] = v[k]
           /\ \A k \in 1..Len(t) : (v \o t)[Len(v) + k] = t[k]
  <1> DEFINE a == Len(v)
             b == Len(t)
             w == v \o t
  <1>1. a \in Nat /\ b \in Nat
    BY BytesOf
  <1>2. /\ w \in Seq(Bytes) /\ Len(w) = a + b
        /\ \A k \in 1..(a + b) : w[k] = IF k <= a THEN v[k] ELSE t[k - a]
    BY ConcatProperties
  <1> HIDE DEF a, b, w
  <1>3. \A k \in 1..a : w[k] = v[k]
    BY <1>1, <1>2
  <1>4. ASSUME NEW k \in 1..b PROVE w[a + k] = t[k]
    <2>1. a + k \in 1..(a + b) /\ ~(a + k <= a) /\ (a + k) - a = k
      BY <1>1
    <2>2. w[a + k] = IF a + k <= a THEN v[a + k] ELSE t[(a + k) - a]
      BY <1>2, <2>1
    <2> QED
      BY <2>1, <2>2
  <1> QED
    BY <1>2, <1>3, <1>4 DEF a, b, w

\* A sequence with the terminator.
LEMMA Terminated ==
    ASSUME NEW t \in Seq(Bytes)
    PROVE  /\ t \o <<0>> \in Seq(Bytes) /\ Len(t \o <<0>>) = Len(t) + 1
           /\ (t \o <<0>>)[Len(t) + 1] = 0
           /\ \A k \in 1..Len(t) : (t \o <<0>>)[k] = t[k]
  <1>1. <<0>> \in Seq(Bytes) /\ Len(<<0>>) = 1 /\ <<0>>[1] = 0
    BY SdsAssumption
  <1> DEFINE z == <<0>>
  <1> HIDE DEF z
  <1>2. z \in Seq(Bytes) /\ Len(z) = 1 /\ z[1] = 0 /\ 1 \in 1..Len(z)
    BY <1>1 DEF z
  <1>3. /\ t \o z \in Seq(Bytes) /\ Len(t \o z) = Len(t) + 1
        /\ (t \o z)[Len(t) + 1] = 0
        /\ \A k \in 1..Len(t) : (t \o z)[k] = t[k]
    <2>1. /\ t \o z \in Seq(Bytes) /\ Len(t \o z) = Len(t) + Len(z)
          /\ \A k \in 1..Len(t) : (t \o z)[k] = t[k]
          /\ \A k \in 1..Len(z) : (t \o z)[Len(t) + k] = z[k]
      BY <1>2, ConcatIs
    <2>2. (t \o z)[Len(t) + 1] = z[1]
      BY <1>2, <2>1
    <2> QED
      BY <1>2, <2>1, <2>2
  <1> QED
    BY <1>3 DEF z

\* memcpy of t and a terminator behind the bytes of v.
LEMMA CopyBehind ==
    ASSUME NEW v \in Seq(Bytes), NEW t \in Seq(Bytes), NEW mem, NEW size \in Nat,
           DOMAIN mem = 0..size, Len(v) + Len(t) <= size,
           \A k \in 1..Len(v) : mem[k - 1] = v[k]
    PROVE  /\ Holds(memcpy(mem, Len(v), t \o <<0>>), v \o t)
           /\ DOMAIN memcpy(mem, Len(v), t \o <<0>>) = 0..size
  <1> DEFINE a == Len(v)
             b == Len(t)
             z == t \o <<0>>
             w == v \o t
             new == memcpy(mem, a, z)
  <1>1. a \in Nat /\ b \in Nat /\ a + b <= size /\ \A k \in 1..a : mem[k - 1] = v[k]
    BY BytesOf
  <1>2. Len(z) = b + 1 /\ z[b + 1] = 0 /\ \A k \in 1..b : z[k] = t[k]
    BY Terminated
  <1>3. Len(w) = a + b /\ (\A k \in 1..a : w[k] = v[k]) /\ \A k \in 1..b : w[a + k] = t[k]
    BY ConcatIs
  <1>4. new = [k \in 0..size |-> IF k \in a..(a + Len(z) - 1) THEN z[k - a + 1] ELSE mem[k]]
    BY DEF memcpy
  <1>5. /\ memcpy(mem, Len(v), t \o <<0>>) = new /\ v \o t = w
    OBVIOUS
  <1> HIDE DEF a, b, z, w, new
  <1>6. new[a + b] = 0
    <2>1. a + b \in 0..size /\ a + b \in a..(a + Len(z) - 1) /\ (a + b) - a + 1 = b + 1
      BY <1>1, <1>2
    <2> QED
      BY <1>2, <1>4, <2>1
  <1>7. ASSUME NEW k \in 1..(a + b) PROVE new[k - 1] = w[k]
    <2>1. CASE k <= a
      <3>1. k \in 1..a /\ k - 1 \in 0..size /\ k - 1 \notin a..(a + Len(z) - 1)
        BY <1>1, <1>2, <2>1
      <3> QED
        BY <3>1, <1>1, <1>3, <1>4
    <2>2. CASE k > a
      <3>1. PICK j \in 1..b : k = a + j
        <4>1. k - a \in 1..b /\ k = a + (k - a)
          BY <1>1, <2>2
        <4> QED
          BY <4>1
      <3>2. k - 1 \in 0..size /\ k - 1 \in a..(a + Len(z) - 1) /\ (k - 1) - a + 1 = j
        BY <1>1, <1>2, <3>1
      <3> QED
        BY <3>1, <3>2, <1>2, <1>3, <1>4
    <2> QED
      BY <1>1, <2>1, <2>2
  <1>8. Holds(new, w)
    BY <1>3, <1>6, <1>7 DEF Holds
  <1>9. DOMAIN new = 0..size
    BY <1>4
  <1> QED
    BY <1>5, <1>8, <1>9

\* A block that grows keeps its bytes.
LEMMA ReallocIs ==
    ASSUME NEW mem, NEW size \in Nat, NEW n \in Nat, DOMAIN mem = 0..size
    PROVE  /\ DOMAIN realloc(mem, n + 1) = 0..n
           /\ \A k \in 0..n : k <= size => realloc(mem, n + 1)[k] = mem[k]
  <1>1. (n + 1) - 1 = n
    OBVIOUS
  <1>2. realloc(mem, n + 1) = [k \in 0..n |-> IF k \in 0..size THEN mem[k] ELSE Garbage]
    BY <1>1 DEF realloc
  <1> QED
    BY <1>2

LEMMA EmptyConcat ==
    ASSUME NEW t \in Seq(Bytes)
    PROVE  <<>> \o t = t /\ t \o <<>> = t /\ <<>> \in Seq(Bytes) /\ Len(<<>>) = 0
  BY ConcatEmptySeq, EmptySeq

-----------------------------------------------------------------------------
(* The calls: each leaves a good header, and the bytes it promises.        *)

LEMMA NewLenIs ==
    ASSUME NEW t \in Seq(Bytes)
    PROVE  Good(sdsnewlen(t)) /\ Chars(sdsnewlen(t)) = t
  <1> DEFINE mem == Block(Len(t) + 1)
             v == <<>>
  <1>1. Len(t) \in Nat /\ v \in Seq(Bytes) /\ Len(v) = 0 /\ v \o t = t
    BY BytesOf, EmptyConcat
  <1>2. DOMAIN mem = 0..Len(t)
    <2>1. (Len(t) + 1) - 1 = Len(t)
      BY <1>1
    <2> QED
      BY <2>1 DEF Block
  <1>3. sdsnewlen(t) = Header(memcpy(mem, 0, t \o <<0>>), Len(t), 0)
    BY DEF sdsnewlen
  <1> HIDE DEF mem, v
  <1>4. /\ Holds(memcpy(mem, Len(v), t \o <<0>>), v \o t)
        /\ DOMAIN memcpy(mem, Len(v), t \o <<0>>) = 0..Len(t)
    <2> DEFINE n == Len(t)
    <2>1. /\ n \in Nat /\ DOMAIN mem = 0..n /\ Len(v) + Len(t) <= n
          /\ \A k \in 1..Len(v) : mem[k - 1] = v[k]
      BY <1>1, <1>2
    <2> HIDE DEF n
    <2>2. /\ Holds(memcpy(mem, Len(v), t \o <<0>>), v \o t)
          /\ DOMAIN memcpy(mem, Len(v), t \o <<0>>) = 0..n
      BY <1>1, <2>1, CopyBehind
    <2> QED
      BY <2>2 DEF n
  <1> DEFINE new == memcpy(mem, 0, t \o <<0>>)
  <1>5. Holds(new, t) /\ DOMAIN new = 0..(Len(t) + 0) /\ 0 \in Nat
    BY <1>1, <1>4
  <1> HIDE DEF new
  <1>6. Good(Header(new, Len(t), 0)) /\ Chars(Header(new, Len(t), 0)) = t
    BY <1>1, <1>5, HeaderIs
  <1> QED
    BY <1>3, <1>6 DEF new

LEMMA ZerosOf ==
    ASSUME NEW n \in Int
    PROVE  /\ [k \in 1..n |-> 0] \in Seq(Bytes)
           /\ Len([k \in 1..n |-> 0]) = IF n >= 0 THEN n ELSE 0
           /\ n <= 0 => [k \in 1..n |-> 0] = <<>>
  <1> DEFINE z == [k \in 1..n |-> 0]
  <1>1. CASE n >= 0
    <2>1. n \in Nat /\ z \in [1..n -> Bytes] /\ DOMAIN z = 1..n
      BY <1>1, SdsAssumption
    <2> HIDE DEF z
    <2>2. z \in Seq(Bytes)
      BY <2>1, IsASeq
    <2>4. Len(z) = n
      BY <2>1, <2>2, LenProperties
    <2>5. n = 0 => z = <<>>
      BY <2>2, <2>4, EmptySeq
    <2>6. z \in Seq(Bytes) /\ (Len(z) = IF n >= 0 THEN n ELSE 0) /\ (n <= 0 => z = <<>>)
      BY <1>1, <2>2, <2>4, <2>5
    <2> QED
      BY <2>6 DEF z
  <1>2. CASE n < 0
    <2>1. 1..n = {}
      BY <1>2
    <2>2. z = [k \in {} |-> 0]
      BY <2>1
    <2>3. [k \in {} |-> 0] = <<>>
      OBVIOUS
    <2>4. z = <<>>
      BY <2>2, <2>3
    <2> HIDE DEF z
    <2>6. z \in Seq(Bytes) /\ (Len(z) = IF n >= 0 THEN n ELSE 0) /\ (n <= 0 => z = <<>>)
      BY <1>2, <2>4, EmptySeq
    <2> QED
      BY <2>6 DEF z
  <1>3. n >= 0 \/ n < 0
    OBVIOUS
  <1> QED
    BY <1>1, <1>2, <1>3, Zenon

LEMMA NewZeroIs ==
    ASSUME NEW n \in Nat
    PROVE  Good(sdsnewzero(n)) /\ Chars(sdsnewzero(n)) = [k \in 1..n |-> 0]
  <1> DEFINE v == [k \in 1..n |-> 0]
             mem == [k \in 0..n |-> 0]
  <1>1. v \in Seq(Bytes) /\ Len(v) = n
    BY ZerosOf
  <1>2. (\A k \in 1..n : v[k] = 0) /\ DOMAIN mem = 0..(n + 0) /\ \A k \in 0..n : mem[k] = 0
    OBVIOUS
  <1>3. sdsnewzero(n) = Header(mem, n, 0)
    BY DEF sdsnewzero
  <1> HIDE DEF v, mem
  <1>4. Holds(mem, v)
    <2>1. \A k \in 1..n : k - 1 \in 0..n
      OBVIOUS
    <2> QED
      BY <1>1, <1>2, <2>1 DEF Holds
  <1>5. Good(Header(mem, n, 0)) /\ Chars(Header(mem, n, 0)) = v
    BY <1>1, <1>2, <1>4, HeaderIs
  <1> QED
    BY <1>3, <1>5 DEF v

LEMMA DupIs ==
    ASSUME NEW h, Good(h)
    PROVE  Good(sdsdup(h)) /\ Chars(sdsdup(h)) = Chars(h)
  BY CharsOf, NewLenIs DEF sdsdup, Chars

\* sdsMakeRoomFor keeps the string and makes room.
LEMMA RoomIs ==
    ASSUME NEW h, Good(h), NEW addlen \in Nat
    PROVE  /\ Good(sdsMakeRoomFor(h, addlen))
           /\ Chars(sdsMakeRoomFor(h, addlen)) = Chars(h)
           /\ sdsMakeRoomFor(h, addlen).len = h.len
           /\ sdsMakeRoomFor(h, addlen).free >= addlen
  <1> DEFINE v == Chars(h)
             newlen == h.len + addlen
             size == IF newlen < MaxPrealloc THEN newlen * 2 ELSE newlen + MaxPrealloc
             mem == realloc(h.mem, size + 1)
  <1>1. /\ v \in Seq(Bytes) /\ Len(v) = h.len /\ Holds(h.mem, v)
        /\ h.len \in Nat /\ h.free \in Nat /\ DOMAIN h.mem = 0..(h.len + h.free)
    BY CharsOf DEF Good
  <1>2. CASE h.free >= addlen
    BY <1>2 DEF sdsMakeRoomFor
  <1>3. CASE ~(h.free >= addlen)
    <2>1. sdsMakeRoomFor(h, addlen) = Header(mem, h.len, size - h.len)
      BY <1>3 DEF sdsMakeRoomFor
    <2>2. size \in Nat /\ size - h.len \in Nat /\ size - h.len >= addlen
          /\ size = h.len + (size - h.len)
      BY <1>1, SdsAssumption, SMTT(30)
    <2> HIDE DEF size, v
    <2>3. DOMAIN mem = 0..size /\ \A k \in 0..size : k <= h.len + h.free => mem[k] = h.mem[k]
      <3>1. h.len + h.free \in Nat
        BY <1>1
      <3> QED
        BY <1>1, <2>2, <3>1, ReallocIs
    <2> HIDE DEF mem
    <2>4. Holds(mem, v)
      <3>1. h.len \in 0..size /\ h.len <= h.len + h.free
        BY <1>1, <2>2
      <3>2. \A k \in 1..h.len : k - 1 \in 0..size /\ k - 1 <= h.len + h.free
        BY <1>1, <2>2
      <3> QED
        BY <1>1, <2>3, <3>1, <3>2 DEF Holds
    <2>5. DOMAIN mem = 0..(h.len + (size - h.len))
      BY <2>2, <2>3
    <2> DEFINE free == size - h.len
    <2>6. free \in Nat /\ DOMAIN mem = 0..(h.len + free) /\ free >= addlen
          /\ sdsMakeRoomFor(h, addlen) = Header(mem, h.len, free)
      BY <2>1, <2>2, <2>5
    <2> HIDE DEF free
    <2>7. /\ Good(Header(mem, h.len, free)) /\ Chars(Header(mem, h.len, free)) = v
          /\ Header(mem, h.len, free).len = h.len /\ Header(mem, h.len, free).free = free
      BY <1>1, <2>4, <2>6, HeaderIs
    <2> QED
      BY <2>6, <2>7 DEF v
  <1> QED
    BY <1>2, <1>3

-----------------------------------------------------------------------------
(* Parts of a string.                                                      *)

LEMMA SubIs ==
    ASSUME NEW v \in Seq(Bytes), NEW m \in Int, NEW n \in Int, 1 <= m, n <= Len(v)
    PROVE  /\ SubSeq(v, m, n) \in Seq(Bytes)
           /\ Len(SubSeq(v, m, n)) = IF m <= n THEN n - m + 1 ELSE 0
           /\ \A k \in 1..(n - m + 1) : SubSeq(v, m, n)[k] = v[m + k - 1]
           /\ m > n => SubSeq(v, m, n) = <<>>
  <1> DEFINE w == SubSeq(v, m, n)
  <1>1. Len(v) \in Nat /\ \A k \in 1..Len(v) : v[k] \in Bytes
    BY BytesOf
  <1>2. \A k \in m..n : v[k] \in Bytes
    <2> DEFINE a == Len(v)
    <2>1. a \in Nat /\ n <= a /\ \A k \in 1..a : v[k] \in Bytes
      BY <1>1
    <2> HIDE DEF a
    <2> QED
      BY <2>1
  <1>3. /\ w \in Seq(Bytes) /\ Len(w) = IF m <= n THEN n - m + 1 ELSE 0
        /\ \A k \in 1..(n - m + 1) : w[k] = v[m + k - 1]
    BY <1>2, SubSeqProperties
  <1> HIDE DEF w
  <1>4. m > n => Len(w) = 0
    BY <1>3
  <1>5. m > n => w = <<>>
    BY <1>3, <1>4, EmptySeq
  <1> QED
    BY <1>3, <1>5 DEF w

\* The whole string as a part of itself.
LEMMA WholeIs ==
    ASSUME NEW v \in Seq(Bytes)
    PROVE  SubSeq(v, 1, Len(v)) = v
  <1> DEFINE w == SubSeq(v, 1, Len(v))
             n == Len(v)
  <1>1. n \in Nat /\ v \in [1..n -> Bytes]
    BY LenProperties
  <1>2. w \in Seq(Bytes) /\ (Len(w) = IF 1 <= n THEN n - 1 + 1 ELSE 0)
        /\ \A k \in 1..(n - 1 + 1) : w[k] = v[1 + k - 1]
    BY <1>1, SubIs
  <1> HIDE DEF w, n
  <1>3. Len(w) = n /\ \A k \in 1..n : w[k] = v[k]
    BY <1>1, <1>2
  <1>4. w \in [1..n -> Bytes]
    BY <1>2, <1>3, LenProperties
  <1>5. w = v
    BY <1>1, <1>3, <1>4
  <1> QED
    BY <1>5 DEF w, n

\* The bytes of a block from an offset are a part of the string.
LEMMA PartIs ==
    ASSUME NEW h, Good(h), NEW at \in Nat, NEW n \in Nat, at + n <= h.len
    PROVE  /\ BytesAt(h.mem, at, n) = SubSeq(Chars(h), at + 1, at + n)
           /\ BytesAt(h.mem, at, n) \in Seq(Bytes)
           /\ Len(BytesAt(h.mem, at, n)) = n
           /\ \A k \in 1..n : BytesAt(h.mem, at, n)[k] = h.mem[at + k - 1]
  <1> DEFINE v == Chars(h)
             w == SubSeq(v, at + 1, at + n)
             b == BytesAt(h.mem, at, n)
  <1>1. /\ v \in Seq(Bytes) /\ Len(v) = h.len /\ h.len \in Nat
        /\ \A k \in 1..h.len : v[k] = h.mem[k - 1]
    BY CharsOf
  <1> HIDE DEF v
  <1>2. /\ w \in Seq(Bytes)
        /\ Len(w) = IF at + 1 <= at + n THEN (at + n) - (at + 1) + 1 ELSE 0
        /\ \A k \in 1..((at + n) - (at + 1) + 1) : w[k] = v[(at + 1) + k - 1]
    BY <1>1, SubIs
  <1> HIDE DEF w
  <1>3. Len(w) = n /\ (at + n) - (at + 1) + 1 = n
    BY <1>2
  <1>4. b = [k \in 1..n |-> h.mem[at + k - 1]]
    BY DEF BytesAt
  <1> HIDE DEF b
  <1>5. ASSUME NEW k \in 1..n PROVE b[k] = w[k]
    <2>1. at + k \in 1..h.len /\ (at + 1) + k - 1 = at + k
      BY <1>1
    <2>2. w[k] = v[at + k] /\ v[at + k] = h.mem[at + k - 1]
      BY <1>1, <1>2, <1>3, <2>1
    <2> QED
      BY <1>4, <2>2
  <1>6. b = [k \in 1..n |-> b[k]]
    BY <1>4
  <1>7. b = w
    BY <1>2, <1>3, <1>5, <1>6, SameBytes
  <1> QED
    BY <1>2, <1>3, <1>4, <1>7 DEF b, w, v

\* A prefix, where the block already ends it with a 0.
LEMMA PrefixIs ==
    ASSUME NEW h, Good(h), NEW mem, DOMAIN mem = DOMAIN h.mem, NEW n \in 0..h.len,
           mem[n] = 0, \A k \in 0..(n - 1) : mem[k] = h.mem[k]
    PROVE  /\ Good(Header(mem, n, h.free + (h.len - n)))
           /\ Chars(Header(mem, n, h.free + (h.len - n))) = SubSeq(Chars(h), 1, n)
  <1> DEFINE at == 0
             v == SubSeq(Chars(h), at + 1, at + n)
             free == h.free + (h.len - n)
  <1>1. h.len \in Nat /\ h.free \in Nat /\ DOMAIN h.mem = 0..(h.len + h.free)
    BY DEF Good
  <1>2. /\ n \in Nat /\ n <= h.len /\ free \in Nat
        /\ n + free = h.len + h.free
        /\ at \in Nat /\ at + n <= h.len
    BY <1>1
  <1>4. v = SubSeq(Chars(h), 1, n) /\ \A k \in 1..n : at + k - 1 = k - 1
    BY <1>2
  <1> HIDE DEF at
  <1>3. /\ v \in Seq(Bytes) /\ Len(v) = n
        /\ \A k \in 1..n : v[k] = h.mem[at + k - 1]
    <2> DEFINE b == BytesAt(h.mem, at, n)
    <2>1. /\ b = v /\ b \in Seq(Bytes) /\ Len(b) = n
          /\ \A k \in 1..n : b[k] = h.mem[at + k - 1]
      BY <1>2, PartIs
    <2> HIDE DEF b, v
    <2> QED
      BY <2>1
  <1> HIDE DEF v
  <1>5. ASSUME NEW k \in 1..n PROVE mem[k - 1] = v[k]
    <2>1. k - 1 \in 0..(n - 1) /\ at + k - 1 = k - 1
      BY <1>2, <1>4
    <2> QED
      BY <1>3, <2>1
  <1>6. Holds(mem, v)
    BY <1>3, <1>5 DEF Holds
  <1>7. DOMAIN mem = 0..(n + free)
    BY <1>1, <1>2
  <1> HIDE DEF free
  <1>8. Good(Header(mem, n, free)) /\ Chars(Header(mem, n, free)) = v
    BY <1>2, <1>3, <1>6, <1>7, HeaderIs
  <1> QED
    BY <1>2, <1>4, <1>8 DEF free

\* ... and where a 0 is put behind it.
LEMMA CutIs ==
    ASSUME NEW h, Good(h), NEW n \in 0..h.len
    PROVE  /\ Good(Header([h.mem EXCEPT ![n] = 0], n, h.free + (h.len - n)))
           /\ Chars(Header([h.mem EXCEPT ![n] = 0], n, h.free + (h.len - n)))
                = SubSeq(Chars(h), 1, n)
  <1> DEFINE mem == [h.mem EXCEPT ![n] = 0]
  <1>1. h.len \in Nat /\ h.free \in Nat /\ DOMAIN h.mem = 0..(h.len + h.free)
    BY DEF Good
  <1>2. n \in 0..(h.len + h.free)
    BY <1>1
  <1>3. DOMAIN mem = DOMAIN h.mem /\ mem[n] = 0
    BY <1>1, <1>2
  <1>4. \A k \in 0..(n - 1) : k # n
    BY <1>1
  <1>5. \A k \in 0..(n - 1) : mem[k] = h.mem[k]
    <2>1. \A k \in 0..(n - 1) : k \in DOMAIN h.mem
      BY <1>1
    <2> QED
      BY <1>4, <2>1
  <1> HIDE DEF mem
  <1>6. /\ Good(Header(mem, n, h.free + (h.len - n)))
        /\ Chars(Header(mem, n, h.free + (h.len - n))) = SubSeq(Chars(h), 1, n)
    BY <1>3, <1>5, PrefixIs
  <1> QED
    BY <1>6 DEF mem

\* A part of the string, moved to the front.
LEMMA SliceIs ==
    ASSUME NEW h, Good(h), NEW at \in Nat, NEW n \in Nat, at + n <= h.len
    PROVE  LET r == Header([memcpy(h.mem, 0, BytesAt(h.mem, at, n)) EXCEPT ![n] = 0],
                           n, h.free + (h.len - n))
           IN  Good(r) /\ Chars(r) = SubSeq(Chars(h), at + 1, at + n)
  <1> DEFINE b == BytesAt(h.mem, at, n)
             moved == memcpy(h.mem, 0, b)
             mem == [moved EXCEPT ![n] = 0]
             v == SubSeq(Chars(h), at + 1, at + n)
             free == h.free + (h.len - n)
  <1>1. h.len \in Nat /\ h.free \in Nat /\ DOMAIN h.mem = 0..(h.len + h.free)
    BY DEF Good
  <1>2. n <= h.len /\ free \in Nat /\ n + free = h.len + h.free
    BY <1>1
  <1>3. b = v /\ b \in Seq(Bytes) /\ Len(b) = n
    BY PartIs
  <1>4. moved = [k \in 0..(h.len + h.free) |->
                   IF k \in 0..(0 + Len(b) - 1) THEN b[k - 0 + 1] ELSE h.mem[k]]
    BY <1>1 DEF memcpy
  <1>5. DOMAIN mem = 0..(h.len + h.free) /\ n \in DOMAIN moved
    BY <1>1, <1>2, <1>4
  <1>6. mem[n] = 0
    BY <1>5
  <1> HIDE DEF b, v
  <1>7. ASSUME NEW k \in 1..n PROVE mem[k - 1] = v[k]
    <2>1. k - 1 # n /\ k - 1 \in 0..(h.len + h.free) /\ k - 1 \in 0..(0 + Len(b) - 1)
          /\ (k - 1) - 0 + 1 = k
      BY <1>1, <1>2, <1>3
    <2>2. moved[k - 1] = b[k]
      BY <1>4, <2>1
    <2> HIDE DEF moved
    <2>3. mem[k - 1] = moved[k - 1]
      BY <2>1, <1>4, <1>5 DEF moved
    <2> QED
      BY <1>3, <2>2, <2>3
  <1> HIDE DEF mem
  <1>8. Holds(mem, v)
    BY <1>3, <1>6, <1>7 DEF Holds
  <1>9. DOMAIN mem = 0..(n + free)
    BY <1>2, <1>5
  <1> HIDE DEF free
  <1>10. Good(Header(mem, n, free)) /\ Chars(Header(mem, n, free)) = v
    BY <1>2, <1>3, <1>8, <1>9, HeaderIs
  <1> QED
    BY <1>10 DEF free, mem, v, b

-----------------------------------------------------------------------------
(* Calls that append or replace.                                           *)

\* t and the terminator are written behind a string with room for them.
LEMMA AppendIs ==
    ASSUME NEW r, Good(r), NEW t \in Seq(Bytes), Len(t) <= r.free
    PROVE  /\ Good(Header(memcpy(r.mem, r.len, t \o <<0>>), r.len + Len(t), r.free - Len(t)))
           /\ Chars(Header(memcpy(r.mem, r.len, t \o <<0>>), r.len + Len(t), r.free - Len(t)))
                = Chars(r) \o t
  <1> DEFINE v == Chars(r)
             n == Len(t)
             size == r.len + r.free
             len == r.len + n
             free == r.free - n
             mem == memcpy(r.mem, r.len, t \o <<0>>)
             w == v \o t
  <1>1. /\ v \in Seq(Bytes) /\ Len(v) = r.len /\ r.len \in Nat
        /\ \A k \in 1..r.len : r.mem[k - 1] = v[k]
    BY CharsOf
  <1>2. r.free \in Nat /\ DOMAIN r.mem = 0..size
    BY DEF Good
  <1>3. n \in Nat /\ n <= r.free
    BY BytesOf
  <1> HIDE DEF v, n
  <1>4. len \in Nat /\ free \in Nat /\ len + free = size /\ size \in Nat /\ len <= size
    BY <1>1, <1>2, <1>3
  <1>5. Len(t) = n
    BY DEF n
  <1> HIDE DEF size, free
  <1>6. Holds(memcpy(r.mem, Len(v), t \o <<0>>), w)
        /\ DOMAIN memcpy(r.mem, Len(v), t \o <<0>>) = 0..size
    <2>1. Len(v) + Len(t) <= size /\ \A k \in 1..Len(v) : r.mem[k - 1] = v[k]
      BY <1>1, <1>4, <1>5
    <2> QED
      BY <1>1, <1>2, <1>4, <2>1, CopyBehind, SMTT(30)
  <1>7. w \in Seq(Bytes) /\ Len(w) = len
    <2>1. w \in Seq(Bytes) /\ Len(w) = Len(v) + Len(t)
      BY <1>1, ConcatIs
    <2> QED
      BY <2>1, <1>1, <1>5
  <1>8. Holds(mem, w) /\ DOMAIN mem = 0..(len + free)
    BY <1>1, <1>4, <1>6
  <1> HIDE DEF mem, w, len
  <1>9. Good(Header(mem, len, free)) /\ Chars(Header(mem, len, free)) = w
    BY <1>4, <1>7, <1>8, HeaderIs
  <1> QED
    BY <1>9 DEF mem, w, len, free, n, v

LEMMA CatIs ==
    ASSUME NEW h, Good(h), NEW t \in Seq(Bytes)
    PROVE  Good(sdscatlen(h, t)) /\ Chars(sdscatlen(h, t)) = Chars(h) \o t
  <1> DEFINE r == sdsMakeRoomFor(h, Len(t))
  <1>1. Len(t) \in Nat
    BY BytesOf
  <1>2. Good(r) /\ Chars(r) = Chars(h) /\ r.len = h.len /\ r.free >= Len(t) /\ r.free \in Nat
    <2>1. Good(r) /\ Chars(r) = Chars(h) /\ r.len = h.len /\ r.free >= Len(t)
      BY <1>1, RoomIs
    <2> QED
      BY <2>1 DEF Good
  <1>3. sdscatlen(h, t) = Header(memcpy(r.mem, h.len, t \o <<0>>), h.len + Len(t), r.free - Len(t))
    BY DEF sdscatlen
  <1> HIDE DEF r
  <1>4. Len(t) <= r.free
    BY <1>1, <1>2
  <1> DEFINE x == Header(memcpy(r.mem, r.len, t \o <<0>>), r.len + Len(t), r.free - Len(t))
  <1>5. Good(x) /\ Chars(x) = Chars(r) \o t
    BY <1>2, <1>4, AppendIs
  <1>6. sdscatlen(h, t) = x
    BY <1>2, <1>3
  <1> HIDE DEF x
  <1> QED
    BY <1>2, <1>5, <1>6

LEMMA CpyIs ==
    ASSUME NEW h, Good(h), NEW t \in Seq(Bytes)
    PROVE  Good(sdscpylen(h, t)) /\ Chars(sdscpylen(h, t)) = t
  <1> DEFINE n == Len(t)
             r == IF h.free + h.len < Len(t) THEN sdsMakeRoomFor(h, Len(t) - h.len) ELSE h
             free == r.free + r.len - n
             mem == memcpy(r.mem, 0, t \o <<0>>)
             v == <<>>
  <1>1. h.len \in Nat /\ h.free \in Nat /\ n \in Nat
    BY BytesOf DEF Good
  <1>2. Good(r) /\ r.len \in Nat /\ r.free \in Nat /\ r.len + r.free >= n
        /\ DOMAIN r.mem = 0..(r.len + r.free)
    <2>1. CASE h.free + h.len < n
      <3>1. n - h.len \in Nat
        BY <1>1, <2>1
      <3>2. /\ Good(sdsMakeRoomFor(h, n - h.len)) /\ sdsMakeRoomFor(h, n - h.len).len = h.len
            /\ sdsMakeRoomFor(h, n - h.len).free >= n - h.len
        BY <3>1, RoomIs
      <3>3. r = sdsMakeRoomFor(h, n - h.len)
        BY <2>1
      <3> HIDE DEF r, n
      <3>4. Good(r) /\ r.len = h.len /\ r.free >= n - h.len
        BY <3>2, <3>3
      <3>5. r.free \in Nat /\ DOMAIN r.mem = 0..(r.len + r.free)
        BY <3>4 DEF Good
      <3> QED
        BY <1>1, <3>4, <3>5
    <2>2. CASE ~(h.free + h.len < n)
      <3>1. r = h
        BY <2>2
      <3>2. h.len + h.free >= n /\ DOMAIN h.mem = 0..(h.len + h.free)
        BY <1>1, <2>2 DEF Good
      <3> HIDE DEF r, n
      <3> QED
        BY <1>1, <3>1, <3>2
    <2> QED
      BY <2>1, <2>2
  <1>3. sdscpylen(h, t) = Header(mem, n, free)
    BY DEF sdscpylen
  <1>4. Len(t) = n /\ v \o t = t /\ v \in Seq(Bytes) /\ Len(v) = 0
    BY EmptyConcat
  <1> HIDE DEF r, n, v
  <1>5. free \in Nat /\ n + free = r.len + r.free
    BY <1>1, <1>2
  <1>6. Holds(mem, t) /\ DOMAIN mem = 0..(r.len + r.free)
    <2> DEFINE size == r.len + r.free
    <2>1. /\ size \in Nat /\ DOMAIN r.mem = 0..size /\ Len(v) + Len(t) <= size
          /\ \A k \in 1..Len(v) : r.mem[k - 1] = v[k]
      BY <1>1, <1>2, <1>4
    <2>3. v \in Seq(Bytes)
      BY <1>4
    <2> HIDE DEF size
    <2>2. /\ Holds(memcpy(r.mem, Len(v), t \o <<0>>), v \o t)
          /\ DOMAIN memcpy(r.mem, Len(v), t \o <<0>>) = 0..size
      BY <2>1, <2>3, CopyBehind
    <2> QED
      BY <1>4, <2>2 DEF size
  <1>7. DOMAIN mem = 0..(n + free)
    BY <1>5, <1>6
  <1> HIDE DEF mem, free
  <1>8. Good(Header(mem, n, free)) /\ Chars(Header(mem, n, free)) = t
    BY <1>1, <1>4, <1>5, <1>6, <1>7, HeaderIs
  <1> QED
    BY <1>3, <1>8

\* Zeros and a terminator are one zero more.
LEMMA ZeroMore ==
    ASSUME NEW n \in Nat
    PROVE  [k \in 1..n |-> 0] \o <<0>> = [k \in 1..(n + 1) |-> 0]
  <1> DEFINE z == [k \in 1..n |-> 0]
             w == [k \in 1..(n + 1) |-> 0]
             y == z \o <<0>>
  <1>1. z \in Seq(Bytes) /\ Len(z) = n /\ \A k \in 1..n : z[k] = 0
    BY ZerosOf
  <1>2. w = [k \in 1..(n + 1) |-> w[k]] /\ \A k \in 1..(n + 1) : w[k] = 0
    OBVIOUS
  <1> HIDE DEF z, w
  <1>3. /\ y \in Seq(Bytes) /\ Len(y) = n + 1 /\ y[n + 1] = 0
        /\ \A k \in 1..n : y[k] = 0
    <2>1. /\ y \in Seq(Bytes) /\ Len(y) = Len(z) + 1 /\ y[Len(z) + 1] = 0
          /\ \A k \in 1..Len(z) : y[k] = z[k]
      BY <1>1, Terminated
    <2> HIDE DEF y
    <2> QED
      BY <1>1, <2>1
  <1> HIDE DEF y
  <1>4. \A k \in 1..(n + 1) : w[k] = y[k]
    <2>1. \A k \in 1..(n + 1) : k \in 1..n \/ k = n + 1
      OBVIOUS
    <2> QED
      BY <1>2, <1>3, <2>1
  <1>5. w = y
    <2>1. n + 1 \in Nat
      OBVIOUS
    <2> QED
      BY <1>2, <1>3, <1>4, <2>1, SameBytes
  <1> QED
    BY <1>5 DEF y, z, w

LEMMA GrowIs ==
    ASSUME NEW h, Good(h), NEW len \in Nat
    PROVE  /\ Good(sdsgrowzero(h, len))
           /\ Chars(sdsgrowzero(h, len)) = Chars(h) \o [k \in 1..(len - h.len) |-> 0]
  <1> DEFINE n == len - h.len
             z == [k \in 1..n |-> 0]
  <1>1. h.len \in Nat /\ n \in Int /\ Chars(h) \in Seq(Bytes)
    BY CharsOf
  <1>2. CASE len <= h.len
    <2>1. n <= 0
      BY <1>1, <1>2
    <2>2. z = <<>>
      <3> HIDE DEF n
      <3> QED
        BY <1>1, <2>1, ZerosOf
    <2>3. sdsgrowzero(h, len) = h
      BY <1>2 DEF sdsgrowzero
    <2>4. Chars(h) \o <<>> = Chars(h)
      BY <1>1, EmptyConcat
    <2> HIDE DEF z
    <2>5. Good(sdsgrowzero(h, len)) /\ Chars(sdsgrowzero(h, len)) = Chars(h) \o z
      BY <2>2, <2>3, <2>4
    <2> QED
      BY <2>5 DEF z
  <1>3. CASE ~(len <= h.len)
    <2> DEFINE r == sdsMakeRoomFor(h, n)
    <2>1. n \in Nat
      BY <1>1, <1>3
    <2>2. sdsgrowzero(h, len)
            = Header(memcpy(r.mem, h.len, [k \in 1..(n + 1) |-> 0]), len, r.len + r.free - len)
      BY <1>3 DEF sdsgrowzero
    <2>3. len = h.len + n
      BY <1>1
    <2> HIDE DEF n
    <2>4. z \in Seq(Bytes) /\ Len(z) = n /\ z \o <<0>> = [k \in 1..(n + 1) |-> 0]
      <3>1. n >= 0
        BY <2>1
      <3>2. z \in Seq(Bytes) /\ Len(z) = IF n >= 0 THEN n ELSE 0
        BY <1>1, ZerosOf
      <3>3. z \o <<0>> = [k \in 1..(n + 1) |-> 0]
        BY <2>1, ZeroMore
      <3> QED
        BY <3>1, <3>2, <3>3
    <2> HIDE DEF z
    <2>5. Good(r) /\ Chars(r) = Chars(h) /\ r.len = h.len /\ r.free >= n
      BY <2>1, RoomIs
    <2>6. r.free \in Nat
      BY <2>5 DEF Good
    <2> HIDE DEF r
    <2> DEFINE x == Header(memcpy(r.mem, r.len, z \o <<0>>), r.len + Len(z), r.free - Len(z))
    <2>7. Good(x) /\ Chars(x) = Chars(r) \o z
      <3>1. Len(z) <= r.free
        BY <2>1, <2>4, <2>5, <2>6
      <3> QED
        BY <2>4, <2>5, <3>1, AppendIs
    <2>8. r.len + Len(z) = len /\ r.free - Len(z) = r.len + r.free - len
      BY <1>1, <2>1, <2>3, <2>4, <2>5, <2>6, SMTT(30)
    <2>9. sdsgrowzero(h, len) = x
      BY <2>2, <2>4, <2>5, <2>8
    <2> HIDE DEF x
    <2>10. Good(sdsgrowzero(h, len)) /\ Chars(sdsgrowzero(h, len)) = Chars(h) \o z
      BY <2>5, <2>7, <2>9
    <2> QED
      BY <2>10 DEF z, n
  <1> QED
    BY <1>2, <1>3

\* The bytes and the terminator written one after the other.
LEMMA WrittenIs ==
    ASSUME NEW mem, NEW size \in Nat, DOMAIN mem = 0..size, NEW a \in Nat,
           NEW t \in Seq(Bytes), a + Len(t) <= size
    PROVE  [memcpy(mem, a, t) EXCEPT ![a + Len(t)] = 0] = memcpy(mem, a, t \o <<0>>)
  <1> DEFINE n == Len(t)
             z == t \o <<0>>
             w == memcpy(mem, a, t)
             x == [w EXCEPT ![a + n] = 0]
             y == memcpy(mem, a, z)
  <1>1. n \in Nat /\ Len(z) = n + 1 /\ z[n + 1] = 0 /\ \A k \in 1..n : z[k] = t[k]
    BY BytesOf, Terminated
  <1>2. w = [k \in 0..size |-> IF k \in a..(a + n - 1) THEN t[k - a + 1] ELSE mem[k]]
    BY DEF memcpy
  <1>3. y = [k \in 0..size |-> IF k \in a..(a + Len(z) - 1) THEN z[k - a + 1] ELSE mem[k]]
    BY DEF memcpy
  <1>4. a + n \in 0..size
    BY <1>1
  <1> HIDE DEF n, z, w, y
  <1>5. x = [k \in 0..size |-> IF k = a + n THEN 0 ELSE w[k]]
    BY <1>2
  <1> HIDE DEF x
  <1>6. ASSUME NEW k \in 0..size PROVE x[k] = y[k]
    <2>1. CASE k = a + n
      <3>1. k \in a..(a + Len(z) - 1) /\ k - a + 1 = n + 1
        BY <1>1, <2>1
      <3> QED
        BY <1>1, <1>3, <1>5, <2>1, <3>1
    <2>2. CASE k \in a..(a + n - 1)
      <3>1. k \in a..(a + Len(z) - 1) /\ k - a + 1 \in 1..n /\ k # a + n
        BY <1>1, <2>2
      <3> QED
        BY <1>1, <1>2, <1>3, <1>5, <2>2, <3>1
    <2>3. CASE k # a + n /\ k \notin a..(a + n - 1)
      <3>1. k \notin a..(a + Len(z) - 1)
        BY <1>1, <2>3
      <3> QED
        BY <1>2, <1>3, <1>5, <2>3, <3>1
    <2> QED
      BY <2>1, <2>2, <2>3
  <1>7. x = [k \in 0..size |-> x[k]] /\ y = [k \in 0..size |-> y[k]]
    BY <1>3, <1>5
  <1>8. x = y
    BY <1>6, <1>7
  <1> QED
    BY <1>8 DEF x, y, w, z, n

LEMMA IncrIs ==
    ASSUME NEW h, Good(h), NEW t \in Seq(Bytes), Len(t) <= h.free
    PROVE  Good(sdsIncrLen(h, t)) /\ Chars(sdsIncrLen(h, t)) = Chars(h) \o t
  <1> DEFINE size == h.len + h.free
  <1>1. h.len \in Nat /\ h.free \in Nat /\ DOMAIN h.mem = 0..size /\ Len(t) \in Nat
    BY BytesOf DEF Good
  <1>2. size \in Nat /\ h.len + Len(t) <= size
    BY <1>1
  <1> HIDE DEF size
  <1>3. [memcpy(h.mem, h.len, t) EXCEPT ![h.len + Len(t)] = 0] = memcpy(h.mem, h.len, t \o <<0>>)
    BY <1>1, <1>2, WrittenIs
  <1>4. sdsIncrLen(h, t)
          = Header(memcpy(h.mem, h.len, t \o <<0>>), h.len + Len(t), h.free - Len(t))
    BY <1>3 DEF sdsIncrLen
  <1> QED
    BY <1>4, AppendIs

LEMMA FitIs ==
    ASSUME NEW h, Good(h)
    PROVE  Good(sdsRemoveFreeSpace(h)) /\ Chars(sdsRemoveFreeSpace(h)) = Chars(h)
  <1> DEFINE v == Chars(h)
             size == h.len + h.free
             mem == realloc(h.mem, h.len + 1)
  <1>1. /\ v \in Seq(Bytes) /\ Len(v) = h.len /\ h.len \in Nat /\ Holds(h.mem, v)
        /\ h.free \in Nat /\ DOMAIN h.mem = 0..size
    BY CharsOf DEF Good
  <1>2. size \in Nat /\ h.len <= size
    BY <1>1
  <1>3. sdsRemoveFreeSpace(h) = Header(mem, h.len, 0)
    BY DEF sdsRemoveFreeSpace
  <1> HIDE DEF v, size
  <1>4. DOMAIN mem = 0..h.len /\ \A k \in 0..h.len : k <= size => mem[k] = h.mem[k]
    BY <1>1, <1>2, ReallocIs
  <1> HIDE DEF mem
  <1>5. Holds(mem, v)
    <2>1. \A k \in 0..h.len : mem[k] = h.mem[k]
      BY <1>1, <1>2, <1>4
    <2>2. h.len \in 0..h.len /\ \A k \in 1..h.len : k - 1 \in 0..h.len
      BY <1>1
    <2> QED
      BY <1>1, <2>1, <2>2 DEF Holds
  <1>6. DOMAIN mem = 0..(h.len + 0)
    BY <1>1, <1>4
  <1>7. Good(Header(mem, h.len, 0)) /\ Chars(Header(mem, h.len, 0)) = v
    BY <1>1, <1>5, <1>6, HeaderIs
  <1> QED
    BY <1>3, <1>7 DEF v

-----------------------------------------------------------------------------
(* Calls that shorten.                                                     *)

LEMMA ClearIs ==
    ASSUME NEW h, Good(h)
    PROVE  Good(sdsclear(h)) /\ Chars(sdsclear(h)) = <<>>
  <1> DEFINE n == 0
             r == Header([h.mem EXCEPT ![n] = 0], n, h.free + (h.len - n))
  <1>1. n \in 0..h.len /\ h.free + (h.len - n) = h.free + h.len /\ n \in Int /\ 1 > n
    BY DEF Good
  <1>2. sdsclear(h) = r
    BY <1>1 DEF sdsclear
  <1>3. Chars(h) \in Seq(Bytes) /\ n <= Len(Chars(h))
    BY <1>1, CharsOf
  <1> HIDE DEF n
  <1>4. Good(r) /\ Chars(r) = SubSeq(Chars(h), 1, n)
    BY <1>1, CutIs
  <1>5. SubSeq(Chars(h), 1, n) = <<>>
    BY <1>1, <1>3, SubIs
  <1> HIDE DEF r
  <1> QED
    BY <1>2, <1>4, <1>5

LEMMA DropIs ==
    ASSUME NEW h, Good(h), NEW n \in 1..h.len
    PROVE  /\ Good(sdsDecrLen(h, n))
           /\ Chars(sdsDecrLen(h, n)) = SubSeq(Chars(h), 1, h.len - n)
  <1> DEFINE m == h.len - n
             r == Header([h.mem EXCEPT ![m] = 0], m, h.free + (h.len - m))
  <1>3. h.len \in Nat /\ h.free \in Nat
    BY DEF Good
  <1>1. m \in 0..h.len /\ h.free + (h.len - m) = h.free + n
    BY <1>3
  <1>2. sdsDecrLen(h, n) = r
    BY <1>1 DEF sdsDecrLen
  <1> HIDE DEF m
  <1>4. Good(r) /\ Chars(r) = SubSeq(Chars(h), 1, m)
    BY <1>1, CutIs
  <1> HIDE DEF r
  <1> QED
    BY <1>2, <1>4 DEF m

\* ByteString means the same least and greatest numbers.
LEMMA SameMin ==
    ASSUME NEW T
    PROVE  Strings!Min(T) = Min(T) /\ Strings!Max(T) = Max(T)
  BY DEF Strings!Min, Min, Strings!Max, Max

\* The 0 strlen finds is the first one of the string or its terminator.
LEMMA UpdateIs ==
    ASSUME NEW h, Good(h)
    PROVE  /\ Good(sdsupdatelen(h))
           /\ Chars(sdsupdatelen(h)) = Strings!UpToZero(Chars(h))
  <1> DEFINE v == Chars(h)
             Z == {k \in DOMAIN h.mem : h.mem[k] = 0}
             Y == {k \in DOMAIN v : v[k] = 0}
             m == Min(Z)
             y == Min(Y)
  <1>1. /\ v \in Seq(Bytes) /\ Len(v) = h.len /\ h.len \in Nat /\ DOMAIN v = 1..h.len
        /\ \A k \in 1..h.len : v[k] = h.mem[k - 1]
    BY CharsOf, BytesOf
  <1>2. h.free \in Nat /\ DOMAIN h.mem = 0..(h.len + h.free) /\ h.mem[h.len] = 0
    BY DEF Good
  <1>3. Z \in SUBSET Nat /\ h.len \in Z
    BY <1>1, <1>2
  <1>4. m \in Z /\ \A k \in Z : m <= k
    <2>1. Z # {}
      BY <1>3
    <2> HIDE DEF Z
    <2> QED
      BY <1>3, <2>1, MinIs
  <1>5. Y \in SUBSET Nat
    BY <1>1
  <1>6. Y # {} => y \in Y /\ \A k \in Y : y <= k
    <2> HIDE DEF Y
    <2> QED
      BY <1>5, MinIs
  <1>7. Strings!UpToZero(v) = IF Y = {} THEN v ELSE SubSeq(v, 1, y - 1)
    BY SameMin DEF Strings!UpToZero
  <1>8. sdsupdatelen(h) = Header(h.mem, m, h.free + (h.len - m))
    BY DEF sdsupdatelen
  <1> HIDE DEF m, y, v
  <1>9. m \in 0..h.len /\ h.mem[m] = 0
    BY <1>1, <1>2, <1>3, <1>4
  <1>10. /\ Good(sdsupdatelen(h))
         /\ Chars(sdsupdatelen(h)) = SubSeq(v, 1, m)
    <2> HIDE DEF Z, Y
    <2> QED
      BY <1>8, <1>9, PrefixIs DEF v
  <1>11. SubSeq(v, 1, m) = Strings!UpToZero(v)
    <2>1. CASE Y = {}
      <3>1. m = h.len
        <4>1. m + 1 \in 1..h.len => m + 1 \in Y
          <5>1. (m + 1) - 1 = m
            BY <1>9
          <5> QED
            BY <1>1, <1>9, <5>1
        <4> QED
          BY <2>1, <4>1, <1>1, <1>9
      <3>2. SubSeq(v, 1, h.len) = v
        BY <1>1, WholeIs
      <3> QED
        BY <1>7, <2>1, <3>1, <3>2
    <2>2. CASE Y # {}
      <3>1. y \in 1..h.len /\ v[y] = 0 /\ v[y] = h.mem[y - 1] /\ \A k \in Y : y <= k
        BY <1>1, <1>6, <2>2
      <3>2. y - 1 \in Z
        BY <1>1, <1>2, <3>1
      <3>3. m <= y - 1
        BY <1>4, <3>2
      <3>4. m + 1 \in 1..h.len /\ (m + 1) - 1 = m
        BY <1>1, <1>9, <3>1, <3>3
      <3>5. m + 1 \in Y
        BY <1>1, <1>9, <3>4
      <3>6. y <= m + 1
        BY <3>1, <3>5
      <3>7. m = y - 1
        BY <1>9, <3>1, <3>3, <3>6
      <3> QED
        BY <1>7, <2>2, <3>7
    <2> QED
      BY <2>1, <2>2
  <1> QED
    BY <1>10, <1>11 DEF v

\* A slice of length n from the byte at, as sdsrange and sdstrim make it.
Slice(h, at, n) ==
    Header([memcpy(h.mem, 0, BytesAt(h.mem, at, n)) EXCEPT ![n] = 0], n, h.free + (h.len - n))

LEMMA SliceOf ==
    ASSUME NEW h, Good(h), NEW at \in Nat, NEW n \in Nat, n = 0 \/ at + n <= h.len
    PROVE  /\ Good(Slice(h, at, n))
           /\ n = 0 => Chars(Slice(h, at, n)) = <<>>
           /\ n # 0 => Chars(Slice(h, at, n)) = SubSeq(Chars(h), at + 1, at + n)
  <1>1. h.len \in Nat /\ Chars(h) \in Seq(Bytes) /\ Len(Chars(h)) = h.len
    BY CharsOf
  <1>2. ASSUME NEW a \in Nat, NEW m \in Nat, a + m <= h.len
        PROVE  Good(Slice(h, a, m)) /\ Chars(Slice(h, a, m)) = SubSeq(Chars(h), a + 1, a + m)
    BY <1>2, SliceIs DEF Slice
  <1>3. CASE n = 0
    <2> DEFINE zero == 0
    <2>1. zero \in Nat /\ zero + zero <= h.len /\ zero + zero \in Int /\ zero + 1 \in Int
          /\ zero + 1 > zero + zero /\ zero + zero <= Len(Chars(h)) /\ 1 <= zero + 1 /\ n = zero
      BY <1>1, <1>3
    <2>2. Slice(h, at, n) = Slice(h, zero, n)
      <3>1. BytesAt(h.mem, at, n) = BytesAt(h.mem, zero, n)
        <4>1. 1..n = {}
          BY <1>3
        <4>2. \A x : BytesAt(h.mem, x, n) = [k \in {} |-> 0]
          BY <4>1 DEF BytesAt
        <4> QED
          BY <4>2, Zenon
      <3> QED
        BY <3>1 DEF Slice
    <2> HIDE DEF zero
    <2>3. Good(Slice(h, zero, zero))
          /\ Chars(Slice(h, zero, zero)) = SubSeq(Chars(h), zero + 1, zero + zero)
      BY <2>1, <1>2
    <2>4. SubSeq(Chars(h), zero + 1, zero + zero) = <<>>
      BY <2>1, <1>1, SubIs
    <2> QED
      BY <1>3, <2>1, <2>2, <2>3, <2>4
  <1>4. CASE n # 0
    BY <1>2, <1>4
  <1> QED
    BY <1>3, <1>4

\* A position counted from the end.
LEMMA PositionIs ==
    ASSUME NEW n \in Nat, NEW i \in Int
    PROVE  /\ (IF i < 0 THEN Max({0, n + i}) ELSE i) \in Nat
           /\ \A v : Len(v) = n =>
                Strings!Position(v, i) = IF i < 0 THEN Max({0, n + i}) ELSE i
  <1> DEFINE z == 0
             m == Max({z, n + i})
  <1>1. m \in Nat
    <2>1. z \in Int /\ n + i \in Int
      OBVIOUS
    <2> DEFINE a == n + i
    <2>2. a \in Int /\ m = Max({z, a})
      BY <2>1
    <2> HIDE DEF z, m, a
    <2>3. m = IF z >= a THEN z ELSE a
      BY <2>1, <2>2, MaxOfTwo
    <2> QED
      BY <2>2, <2>3 DEF z
  <1>2. ASSUME NEW v, Len(v) = n PROVE Strings!Position(v, i) = IF i < 0 THEN m ELSE i
    <2>1. i >= 0 <=> ~(i < 0)
      OBVIOUS
    <2>2. Strings!Position(v, i) = IF i >= 0 THEN i ELSE Max({0, n + i})
      BY <1>2, SameMin, Zenon DEF Strings!Position
    <2> HIDE DEF m
    <2> QED
      BY <2>1, <2>2 DEF m
  <1> HIDE DEF m
  <1>3. /\ (IF i < 0 THEN m ELSE i) \in Nat
        /\ \A v : Len(v) = n => Strings!Position(v, i) = IF i < 0 THEN m ELSE i
    BY <1>1, <1>2
  <1> QED
    BY <1>3 DEF m

LEMMA RangeIs ==
    ASSUME NEW h, Good(h), NEW i \in Int, NEW j \in Int
    PROVE  /\ Good(sdsrange(h, i, j))
           /\ Chars(sdsrange(h, i, j))
                = SubSeq(Chars(h), Strings!Position(Chars(h), i) + 1,
                         Min({Len(Chars(h)), Strings!Position(Chars(h), j) + 1}))
  <1> DEFINE v == Chars(h)
             from == IF i < 0 THEN Max({0, h.len + i}) ELSE i
             to == IF j < 0 THEN Max({0, h.len + j}) ELSE j
             newlen == CASE from > to \/ from >= h.len -> 0
                         [] from <= to /\ from < h.len /\ to >= h.len -> h.len - from
                         [] OTHER -> to - from + 1
             last == Min({h.len, to + 1})
             r == sdsrange(h, i, j)
  <1>1. /\ v \in Seq(Bytes) /\ Len(v) = h.len /\ h.len \in Nat
    BY CharsOf
  <1>2. /\ from \in Nat /\ to \in Nat
        /\ Strings!Position(v, i) = from /\ Strings!Position(v, j) = to
    BY <1>1, PositionIs
  <1>3. h.len # 0 => r = Slice(h, from, newlen)
    BY Zenon DEF sdsrange, Slice
  <1>4. h.len = 0 => r = h
    BY Zenon DEF sdsrange
  <1>5. last = IF h.len <= to + 1 THEN h.len ELSE to + 1
    <2> HIDE DEF to
    <2> DEFINE b == to + 1
    <2>1. b \in Int
      BY <1>2
    <2> HIDE DEF b
    <2>2. Min({h.len, b}) = IF h.len <= b THEN h.len ELSE b
      BY <1>1, <2>1, MinOfTwo
    <2> QED
      BY <2>2 DEF b
  <1>6. Min({Len(v), Strings!Position(v, j) + 1}) = last
    BY <1>1, <1>2
  <1> HIDE DEF from, to, last, v, r
  <1>7. newlen \in Nat /\ (newlen = 0 \/ from + newlen <= h.len)
        /\ (newlen = 0 => from + 1 > last) /\ (newlen # 0 => from + newlen = last)
    <2>1. CASE from > to \/ from >= h.len
      <3>1. newlen = 0
        <4>1. ~(from <= to /\ from < h.len /\ to >= h.len)
          BY <1>1, <1>2, <2>1
        <4> QED
          BY <2>1, <4>1, Zenon
      <3>2. from + 1 > last
        BY <1>1, <1>2, <1>5, <2>1
      <3> HIDE DEF newlen
      <3> QED
        BY <3>1, <3>2
    <2>2. CASE from <= to /\ from < h.len /\ to >= h.len
      <3>1. newlen = h.len - from
        <4>1. ~(from > to \/ from >= h.len)
          BY <1>1, <1>2, <2>2
        <4> QED
          BY <2>2, <4>1, Zenon
      <3> HIDE DEF newlen
      <3> QED
        BY <1>1, <1>2, <1>5, <2>2, <3>1
    <2>3. CASE from <= to /\ from < h.len /\ to < h.len
      <3>1. newlen = to - from + 1
        <4>1. ~(from > to \/ from >= h.len) /\ ~(from <= to /\ from < h.len /\ to >= h.len)
          BY <1>1, <1>2, <2>3
        <4> QED
          BY <4>1, Zenon
      <3> HIDE DEF newlen
      <3> QED
        BY <1>1, <1>2, <1>5, <2>3, <3>1
    <2>4. \/ from > to \/ from >= h.len
          \/ from <= to /\ from < h.len /\ to >= h.len
          \/ from <= to /\ from < h.len /\ to < h.len
      <3> HIDE DEF newlen
      <3> QED
        BY <1>1, <1>2
    <2> QED
      BY <2>1, <2>2, <2>3, <2>4, Zenon
  <1> HIDE DEF newlen
  <1>8. last \in Nat /\ last <= h.len
    BY <1>1, <1>2, <1>5
  <1>9. Good(r) /\ Chars(r) = SubSeq(v, from + 1, last)
    <2>0. from + 1 \in Int /\ 1 <= from + 1 /\ last \in Int /\ last <= Len(v)
      BY <1>1, <1>2, <1>8
    <2>1. CASE h.len = 0
      <3>1. from + 1 > last
        BY <1>2, <1>8, <2>1
      <3>2. SubSeq(v, from + 1, last) = <<>>
        BY <1>1, <2>0, <3>1, SubIs
      <3>3. v = <<>>
        BY <1>1, <2>1, EmptySeq
      <3> QED
        BY <1>4, <2>1, <3>2, <3>3 DEF v
    <2>2. CASE h.len # 0 /\ newlen = 0
      <3>1. SubSeq(v, from + 1, last) = <<>>
        BY <1>1, <1>7, <2>0, <2>2, SubIs
      <3>2. Good(Slice(h, from, newlen)) /\ Chars(Slice(h, from, newlen)) = <<>>
        BY <1>2, <1>7, <2>2, SliceOf
      <3> QED
        BY <1>3, <2>2, <3>1, <3>2
    <2>3. CASE h.len # 0 /\ newlen # 0
      <3>1. /\ Good(Slice(h, from, newlen))
            /\ Chars(Slice(h, from, newlen)) = SubSeq(v, from + 1, from + newlen)
        BY <1>2, <1>7, <2>3, SliceOf DEF v
      <3> QED
        BY <1>3, <1>7, <2>3, <3>1
    <2> QED
      BY <2>1, <2>2, <2>3
  <1> QED
    BY <1>2, <1>6, <1>9 DEF v, r

\* What strchr finds in a set: the bytes of the C string that the set is, and 0.
LEMMA FoundIs ==
    ASSUME NEW t \in Seq(Bytes)
    PROVE  Found(t) = {0} \cup Strings!Chars(Strings!UpToZero(t))
  <1> DEFINE Y == {k \in DOMAIN t : t[k] = 0}
             y == Min(Y)
             n == Len(t)
             B == {k \in DOMAIN t : \A i \in 1..k : t[i] # 0}
             u == Strings!UpToZero(t)
  <1>1. n \in Nat /\ DOMAIN t = 1..n
    BY BytesOf
  <1>2. Y \in SUBSET Nat
    BY <1>1
  <1>3. Y # {} => y \in Y /\ \A k \in Y : y <= k
    <2> HIDE DEF Y
    <2> QED
      BY <1>2, MinIs
  <1>4. u = IF Y = {} THEN t ELSE SubSeq(t, 1, y - 1)
    BY SameMin DEF Strings!UpToZero
  <1>5. Found(t) = {0} \cup {t[k] : k \in B} /\ Strings!Chars(u) = {u[k] : k \in DOMAIN u}
    BY DEF Found, Strings!Chars
  <1> HIDE DEF y, u
  <1>6. CASE Y = {}
    <2>1. B = DOMAIN t
      BY <1>1, <1>6
    <2> HIDE DEF B
    <2> QED
      BY <1>4, <1>5, <1>6, <2>1 DEF u
  <1>7. CASE Y # {}
    <2>1. y \in 1..n /\ t[y] = 0 /\ \A k \in 1..n : t[k] = 0 => y <= k
      BY <1>1, <1>3, <1>7
    <2>2. B = 1..(y - 1)
      BY <1>1, <2>1
    <2>3. y - 1 \in Int /\ y - 1 <= n /\ (y - 1) - 1 + 1 = y - 1
      BY <1>1, <2>1
    <2>4. /\ u \in Seq(Bytes) /\ Len(u) = IF 1 <= y - 1 THEN (y - 1) - 1 + 1 ELSE 0
          /\ \A k \in 1..((y - 1) - 1 + 1) : u[k] = t[1 + k - 1]
      BY <1>4, <1>7, <2>3, SubIs
    <2>5. DOMAIN u = 1..(y - 1)
      BY <2>1, <2>4, BytesOf
    <2>6. \A k \in 1..(y - 1) : u[k] = t[k]
      BY <2>1, <2>4
    <2> HIDE DEF B
    <2> QED
      BY <1>5, <2>2, <2>5, <2>6 DEF u
  <1> QED
    BY <1>6, <1>7

\* The scans of sdstrim find the first and the last byte kept, or meet.
LEMMA TrimIs ==
    ASSUME NEW h, Good(h), NEW cset
    PROVE  /\ Good(sdstrim(h, cset))
           /\ Chars(sdstrim(h, cset))
                = Strings!Stripped(Chars(h), Found(cset))
  <1> DEFINE v == Chars(h)
             set == Found(cset)
             L == {k \in 0..(h.len - 1) : h.mem[k] \notin set} \cup {h.len}
             R == {k \in 1..(h.len - 1) : h.mem[k] \notin set} \cup {0}
             K == {k \in DOMAIN v : v[k] \notin set}
             sp == Min(L)
             ep == IF h.len = 0 THEN -1 ELSE Max(R)
             len == IF sp > ep THEN 0 ELSE ep - sp + 1
             first == Min(K)
             last == Max(K)
             r == sdstrim(h, cset)
  <1>1. /\ v \in Seq(Bytes) /\ Len(v) = h.len /\ h.len \in Nat /\ DOMAIN v = 1..h.len
        /\ \A k \in 1..h.len : v[k] = h.mem[k - 1]
    BY CharsOf, BytesOf
  <1>2. r = Slice(h, sp, len)
    BY Zenon DEF sdstrim, Slice
  <1>3. Strings!Stripped(v, set) = IF K = {} THEN <<>> ELSE SubSeq(v, first, last)
    BY SameMin, Zenon DEF Strings!Stripped
  <1> HIDE DEF v, set, r
  <1>4. L \in SUBSET Nat /\ R \in SUBSET Nat /\ K \in SUBSET Nat
    BY <1>1
  <1>5. sp \in L /\ \A k \in L : sp <= k
    <2>1. L # {}
      OBVIOUS
    <2> HIDE DEF L
    <2> QED
      BY <1>4, <2>1, MinIs
  <1>6. Max(R) \in R /\ \A k \in R : Max(R) >= k
    <2>1. R # {} /\ \A k \in R : k <= h.len
      BY <1>1
    <2> HIDE DEF R
    <2> QED
      BY <1>1, <1>4, <2>1, MaxIs
  <1>7. K # {} => /\ first \in K /\ \A k \in K : first <= k
                  /\ last \in K /\ \A k \in K : last >= k
    <2>1. \A k \in K : k <= h.len
      BY <1>1
    <2> HIDE DEF K
    <2> QED
      BY <1>1, <1>4, <2>1, MinIs, MaxIs
  <1>8. ASSUME NEW k \in 1..h.len PROVE k \in K <=> k - 1 \in L
    BY <1>1
  <1>9. ASSUME NEW k \in 1..h.len PROVE k - 1 \in R <=> k \in K \/ k = 1
    BY <1>1
  <1>10. sp \in 0..h.len /\ Max(R) \in 0..h.len /\ (h.len # 0 => Max(R) \in 0..(h.len - 1))
    BY <1>1, <1>5, <1>6
  <1>11. K \subseteq 1..h.len
    BY <1>1
  <1> DEFINE back == Max(R)
  <1>12. /\ back \in 0..h.len /\ (h.len # 0 => back \in 0..(h.len - 1))
         /\ back \in R /\ \A k \in R : back >= k
    BY <1>6, <1>10
  <1> HIDE DEF sp, first, last, L, R, K, back
  <1>13. ep = IF h.len = 0 THEN -1 ELSE back
    BY DEF back
  <1> HIDE DEF ep
  <1>14. CASE K = {}
    <2>1. sp = h.len
      <3>1. sp < h.len => sp + 1 \in 1..h.len /\ (sp + 1) - 1 = sp
        BY <1>1, <1>10
      <3>2. sp < h.len => sp + 1 \in K
        BY <1>5, <1>8, <3>1
      <3> QED
        BY <1>1, <1>10, <1>14, <3>2
    <2>2. len = 0
      BY <1>1, <1>12, <1>13, <2>1
    <2> HIDE DEF len
    <2>3. Good(Slice(h, sp, len)) /\ Chars(Slice(h, sp, len)) = <<>>
      BY <1>1, <2>1, <2>2, SliceOf
    <2>4. Good(r) /\ Chars(r) = Strings!Stripped(v, set)
      BY <1>2, <1>3, <1>14, <2>3
    <2> QED
      BY <2>4 DEF v, set, r
  <1>15. CASE K # {}
    <2>1. /\ first \in 1..h.len /\ last \in 1..h.len /\ first \in K /\ last \in K
          /\ first <= last /\ h.len # 0
      <3>1. first \in K /\ last \in K /\ first <= last
        BY <1>7, <1>15, Zenon
      <3>2. first \in 1..h.len /\ last \in 1..h.len
        BY <1>11, <3>1
      <3> QED
        BY <1>1, <3>1, <3>2
    <2>2. sp = first - 1
      <3>1. first - 1 \in L
        BY <1>8, <2>1
      <3>2. sp <= first - 1
        BY <1>5, <3>1
      <3>3. sp + 1 \in 1..h.len /\ (sp + 1) - 1 = sp
        BY <1>1, <1>10, <2>1, <3>2
      <3>4. sp + 1 \in K
        BY <1>5, <1>8, <3>3
      <3>5. first <= sp + 1
        BY <1>7, <1>15, <3>4
      <3> QED
        BY <1>1, <1>10, <2>1, <3>2, <3>5
    <2>3. back = last - 1
      <3>1. last - 1 \in R
        BY <1>9, <2>1
      <3>2. back >= last - 1
        BY <1>12, <3>1
      <3>3. back + 1 \in 1..h.len /\ (back + 1) - 1 = back
        BY <1>1, <1>12, <2>1
      <3>4. back + 1 \in K \/ back + 1 = 1
        BY <1>9, <1>12, <3>3
      <3>5. back + 1 \in K => last >= back + 1
        BY <1>7, <1>15
      <3> QED
        BY <1>1, <1>12, <2>1, <3>2, <3>4, <3>5
    <2>4. len = last - first + 1 /\ len \in Nat /\ len # 0 /\ sp \in Nat
          /\ sp + len = last /\ sp + 1 = first /\ sp + len <= h.len
      BY <1>1, <1>13, <2>1, <2>2, <2>3
    <2> HIDE DEF len
    <2>5. Good(Slice(h, sp, len)) /\ Chars(Slice(h, sp, len)) = SubSeq(v, sp + 1, sp + len)
      BY <2>4, SliceOf DEF v
    <2>6. Chars(r) = SubSeq(v, first, last) /\ Good(r)
      BY <1>2, <2>4, <2>5
    <2> QED
      BY <1>3, <1>15, <2>6 DEF v, set, r
  <1> QED
    BY <1>14, <1>15

-----------------------------------------------------------------------------
(* Calls that replace bytes.                                               *)

\* The n bytes of w at the beginning of a block.
Begins(mem, w, n) == w \in [1..n -> Bytes] /\ \A k \in 1..n : mem[k - 1] = w[k]

\* Every byte of the string is replaced, the rest of the block is not.
LEMMA ReplacedIs ==
    ASSUME NEW h, Good(h), NEW r, IsHeader(r), r.len = h.len, r.free = h.free,
           DOMAIN r.mem = DOMAIN h.mem, r.mem[h.len] = h.mem[h.len],
           NEW w, Begins(r.mem, w, h.len)
    PROVE  Good(r) /\ Chars(r) = w
  <1>2. w \in [1..h.len -> Bytes] /\ \A k \in 1..h.len : r.mem[k - 1] = w[k]
    BY DEF Begins
  <1>1. /\ h.len \in Nat /\ h.free \in Nat
        /\ DOMAIN h.mem = 0..(h.len + h.free) /\ h.mem[h.len] = 0
    BY DEF Good
  <1>3. ASSUME NEW k \in 0..(h.len - 1) PROVE r.mem[k] \in Bytes
    <2>1. k + 1 \in 1..h.len /\ (k + 1) - 1 = k
      BY <1>1
    <2>2. r.mem[k] = w[k + 1]
      BY <1>2, <2>1
    <2> QED
      BY <1>2, <2>1, <2>2
  <1>4. Good(r)
    BY <1>1, <1>3 DEF Good
  <1>5. Chars(r) = w
    <2>1. Chars(r) = [k \in 1..h.len |-> r.mem[0 + k - 1]]
      BY DEF Chars, BytesAt
    <2>2. \A k \in 1..h.len : r.mem[0 + k - 1] = w[k]
      <3>1. \A k \in 1..h.len : 0 + k - 1 = k - 1
        BY <1>1
      <3> QED
        BY <1>2, <3>1
    <2> QED
      BY <1>2, <2>1, <2>2
  <1> QED
    BY <1>4, <1>5

\* What Mapped changes.
LEMMA MappedIs ==
    ASSUME NEW h, Good(h), NEW g
    PROVE  /\ IsHeader([h EXCEPT !.mem = g]) /\ [h EXCEPT !.mem = g].mem = g
           /\ [h EXCEPT !.mem = g].len = h.len /\ [h EXCEPT !.mem = g].free = h.free
  <1> DEFINE r == [h EXCEPT !.mem = g]
  <1>1. h = [mem |-> h.mem, len |-> h.len, free |-> h.free]
    BY DEF Good, IsHeader
  <1>2. /\ r.mem = g /\ r.len = h.len /\ r.free = h.free
        /\ r = [mem |-> r.mem, len |-> r.len, free |-> r.free]
    BY <1>1
  <1> HIDE DEF r
  <1>3. IsHeader(r) /\ r.mem = g /\ r.len = h.len /\ r.free = h.free
    BY <1>2 DEF IsHeader
  <1> QED
    BY <1>3 DEF r

\* The first occurrence in a pair decides.
LEMMA MapIs ==
    ASSUME NEW h, Good(h), NEW from \in Seq(Bytes), Len(from) = 2
    PROVE  /\ Good(sdsmapchars(h, from, <<from[2], 0>>))
           /\ Chars(sdsmapchars(h, from, <<from[2], 0>>))
                = [k \in DOMAIN Chars(h) |->
                     IF Chars(h)[k] = from[1] THEN from[2]
                     ELSE IF Chars(h)[k] = from[2] THEN 0 ELSE Chars(h)[k]]
  <1> DEFINE v == Chars(h)
             to == <<from[2], 0>>
             hits(c) == {k \in DOMAIN from : from[k] = c}
             other(c) == IF hits(c) = {} THEN c ELSE to[Min(hits(c))]
             g == [k \in DOMAIN h.mem |-> IF k < h.len THEN other(h.mem[k]) ELSE h.mem[k]]
             w == [k \in DOMAIN v |->
                     IF v[k] = from[1] THEN from[2] ELSE IF v[k] = from[2] THEN 0 ELSE v[k]]
             r == sdsmapchars(h, from, to)
  <1>1. /\ v \in Seq(Bytes) /\ DOMAIN v = 1..h.len /\ h.len \in Nat
        /\ \A k \in 1..h.len : v[k] = h.mem[k - 1] /\ v[k] \in Bytes
    BY CharsOf, BytesOf
  <1>2. h.free \in Nat /\ DOMAIN h.mem = 0..(h.len + h.free)
    BY DEF Good
  <1>3. DOMAIN from = {1, 2} /\ from[1] \in Bytes /\ from[2] \in Bytes /\ 0 \in Bytes
    <2>1. DOMAIN from = 1..2 /\ \A k \in 1..2 : from[k] \in Bytes
      BY BytesOf
    <2>2. 1..2 = {1, 2}
      OBVIOUS
    <2> QED
      BY <2>1, <2>2, SdsAssumption
  <1>4. to[1] = from[2] /\ to[2] = 0
    OBVIOUS
  <1>5. r = [h EXCEPT !.mem = g]
    BY DEF sdsmapchars, Mapped
  <1> HIDE DEF v, to
  <1>6. ASSUME NEW c
        PROVE  other(c) = IF c = from[1] THEN from[2] ELSE IF c = from[2] THEN 0 ELSE c
    <2>1. CASE c = from[1]
      <3>1. hits(c) \in SUBSET Nat /\ 1 \in hits(c) /\ \A k \in hits(c) : k = 1 \/ k = 2
        BY <1>3, <2>1
      <3>2. Min(hits(c)) \in hits(c) /\ Min(hits(c)) <= 1
        <4> DEFINE H == hits(c)
        <4>1. H \in SUBSET Nat /\ H # {} /\ 1 \in H
          BY <3>1
        <4> HIDE DEF H
        <4>2. Min(H) \in H /\ \A k \in H : Min(H) <= k
          BY <4>1, MinIs
        <4>3. Min(H) \in H /\ Min(H) <= 1
          BY <4>1, <4>2
        <4> QED
          BY <4>3 DEF H
      <3>3. Min(hits(c)) = 1
        <4> DEFINE m == Min(hits(c))
        <4> HIDE DEF m
        <4>1. (m = 1 \/ m = 2) /\ m <= 1
          BY <3>1, <3>2 DEF m
        <4>2. m = 1
          BY <4>1
        <4> QED
          BY <4>2 DEF m
      <3> QED
        BY <1>4, <2>1, <3>1, <3>3, Zenon
    <2>2. CASE c # from[1] /\ c = from[2]
      <3>1. hits(c) = {2}
        BY <1>3, <2>2
      <3>2. Min({2}) = 2
        <4> DEFINE H == {2}
        <4>1. H \in SUBSET Nat /\ H # {} /\ \A k \in H : k = 2
          OBVIOUS
        <4> HIDE DEF H
        <4>2. Min(H) \in H
          BY <4>1, MinIs
        <4>3. Min(H) = 2
          BY <4>1, <4>2
        <4> QED
          BY <4>3 DEF H
      <3>3. hits(c) # {} /\ Min(hits(c)) = 2
        BY <3>1, <3>2, Zenon
      <3> QED
        BY <1>4, <2>2, <3>3, Zenon
    <2>3. CASE c # from[1] /\ c # from[2]
      <3>1. hits(c) = {}
        BY <1>3, <2>3
      <3> QED
        BY <2>3, <3>1, Zenon
    <2> QED
      BY <2>1, <2>2, <2>3
  <1> HIDE DEF other
  <1>7. DOMAIN g = DOMAIN h.mem /\ g[h.len] = h.mem[h.len]
    BY <1>1, <1>2
  <1>8. DOMAIN w = 1..h.len /\ w = [k \in DOMAIN w |-> w[k]]
    BY <1>1
  <1>9. ASSUME NEW k \in 1..h.len PROVE w[k] \in Bytes /\ g[k - 1] = w[k]
    <2>1. k - 1 \in DOMAIN h.mem /\ k - 1 < h.len
      BY <1>1, <1>2
    <2>2. g[k - 1] = other(v[k])
      BY <1>1, <2>1
    <2>3. w[k] = IF v[k] = from[1] THEN from[2] ELSE IF v[k] = from[2] THEN 0 ELSE v[k]
      BY <1>1
    <2>4. g[k - 1] = w[k]
      BY <1>6, <2>2, <2>3, Zenon
    <2> QED
      BY <1>1, <1>3, <2>3, <2>4
  <1> HIDE DEF g, w, r
  <1>11. w \in [1..h.len -> Bytes]
    BY <1>8, <1>9
  <1>12. IsHeader(r) /\ r.mem = g /\ r.len = h.len /\ r.free = h.free
    BY <1>5, MappedIs
  <1>13. DOMAIN r.mem = DOMAIN h.mem /\ r.mem[h.len] = h.mem[h.len]
    BY <1>7, <1>12
  <1>14. Begins(r.mem, w, h.len)
    BY <1>9, <1>11, <1>12 DEF Begins
  <1>10. Good(r) /\ Chars(r) = w
    BY <1>12, <1>13, <1>14, ReplacedIs
  <1> QED
    BY <1>10 DEF r, w, to, v

LEMMA LowerIs ==
    ASSUME NEW h, Good(h)
    PROVE  /\ Good(sdstolower(h))
           /\ Chars(sdstolower(h))
                = [k \in DOMAIN Chars(h) |->
                     Chars(h)[k] + (IF Chars(h)[k] \in 65..90 THEN 32 ELSE 0)]
  <1> DEFINE v == Chars(h)
             g == [k \in DOMAIN h.mem |->
                     IF k < h.len THEN (IF h.mem[k] \in 65..90 THEN h.mem[k] + 32 ELSE h.mem[k])
                     ELSE h.mem[k]]
             w == [k \in DOMAIN v |-> v[k] + (IF v[k] \in 65..90 THEN 32 ELSE 0)]
             r == sdstolower(h)
  <1>1. /\ v \in Seq(Bytes) /\ DOMAIN v = 1..h.len /\ h.len \in Nat
        /\ \A k \in 1..h.len : v[k] = h.mem[k - 1] /\ v[k] \in Bytes
    BY CharsOf, BytesOf
  <1>2. h.free \in Nat /\ DOMAIN h.mem = 0..(h.len + h.free)
    BY DEF Good
  <1>3. r = [h EXCEPT !.mem = g]
    BY DEF sdstolower, Mapped
  <1> HIDE DEF v
  <1>4. DOMAIN g = DOMAIN h.mem /\ g[h.len] = h.mem[h.len]
    BY <1>1, <1>2
  <1>5. DOMAIN w = 1..h.len /\ w = [k \in DOMAIN w |-> w[k]]
    BY <1>1
  <1>6. ASSUME NEW k \in 1..h.len PROVE w[k] \in Bytes /\ g[k - 1] = w[k]
    <2> DEFINE c == v[k]
    <2>6. c = h.mem[k - 1] /\ c \in Bytes
      BY <1>1
    <2>7. k - 1 \in DOMAIN h.mem /\ k - 1 < h.len
      BY <1>1, <1>2
    <2>1. k - 1 \in DOMAIN h.mem /\ k - 1 < h.len /\ c = h.mem[k - 1] /\ c \in Bytes /\ c \in Nat
      BY <2>6, <2>7, SdsAssumption
    <2>2. g[k - 1] = IF c \in 65..90 THEN c + 32 ELSE c
      BY <2>1
    <2>3. w[k] = c + (IF c \in 65..90 THEN 32 ELSE 0)
      BY <1>1
    <2>4. c \in 65..90 => c + 32 \in Bytes
      BY <2>1, SdsAssumption
    <2> HIDE DEF c, g, w
    <2>5. c + 0 = c
      BY <2>1
    <2> QED
      BY <2>1, <2>2, <2>3, <2>4, <2>5
  <1> HIDE DEF g, w, r
  <1>8. w \in [1..h.len -> Bytes]
    BY <1>5, <1>6
  <1>9. IsHeader(r) /\ r.mem = g /\ r.len = h.len /\ r.free = h.free
    BY <1>3, MappedIs
  <1>10. DOMAIN r.mem = DOMAIN h.mem /\ r.mem[h.len] = h.mem[h.len]
    BY <1>4, <1>9
  <1>11. Begins(r.mem, w, h.len)
    BY <1>6, <1>8, <1>9 DEF Begins
  <1>7. Good(r) /\ Chars(r) = w
    BY <1>9, <1>10, <1>11, ReplacedIs
  <1> QED
    BY <1>7 DEF r, w, v

LEMMA UpperIs ==
    ASSUME NEW h, Good(h)
    PROVE  /\ Good(sdstoupper(h))
           /\ Chars(sdstoupper(h))
                = [k \in DOMAIN Chars(h) |->
                     Chars(h)[k] - (IF Chars(h)[k] \in 97..122 THEN 32 ELSE 0)]
  <1> DEFINE v == Chars(h)
             g == [k \in DOMAIN h.mem |->
                     IF k < h.len THEN (IF h.mem[k] \in 97..122 THEN h.mem[k] - 32 ELSE h.mem[k])
                     ELSE h.mem[k]]
             w == [k \in DOMAIN v |-> v[k] - (IF v[k] \in 97..122 THEN 32 ELSE 0)]
             r == sdstoupper(h)
  <1>1. /\ v \in Seq(Bytes) /\ DOMAIN v = 1..h.len /\ h.len \in Nat
        /\ \A k \in 1..h.len : v[k] = h.mem[k - 1] /\ v[k] \in Bytes
    BY CharsOf, BytesOf
  <1>2. h.free \in Nat /\ DOMAIN h.mem = 0..(h.len + h.free)
    BY DEF Good
  <1>3. r = [h EXCEPT !.mem = g]
    BY DEF sdstoupper, Mapped
  <1> HIDE DEF v
  <1>4. DOMAIN g = DOMAIN h.mem /\ g[h.len] = h.mem[h.len]
    BY <1>1, <1>2
  <1>5. DOMAIN w = 1..h.len /\ w = [k \in DOMAIN w |-> w[k]]
    BY <1>1
  <1>6. ASSUME NEW k \in 1..h.len PROVE w[k] \in Bytes /\ g[k - 1] = w[k]
    <2> DEFINE c == v[k]
    <2>6. c = h.mem[k - 1] /\ c \in Bytes
      BY <1>1
    <2>7. k - 1 \in DOMAIN h.mem /\ k - 1 < h.len
      BY <1>1, <1>2
    <2>1. k - 1 \in DOMAIN h.mem /\ k - 1 < h.len /\ c = h.mem[k - 1] /\ c \in Bytes /\ c \in Nat
      BY <2>6, <2>7, SdsAssumption
    <2>2. g[k - 1] = IF c \in 97..122 THEN c - 32 ELSE c
      BY <2>1
    <2>3. w[k] = c - (IF c \in 97..122 THEN 32 ELSE 0)
      BY <1>1
    <2>4. c \in 97..122 => c - 32 \in Bytes
      BY <2>1, SdsAssumption
    <2> HIDE DEF c, g, w
    <2>5. c - 0 = c
      BY <2>1
    <2> QED
      BY <2>1, <2>2, <2>3, <2>4, <2>5
  <1> HIDE DEF g, w, r
  <1>8. w \in [1..h.len -> Bytes]
    BY <1>5, <1>6
  <1>9. IsHeader(r) /\ r.mem = g /\ r.len = h.len /\ r.free = h.free
    BY <1>3, MappedIs
  <1>10. DOMAIN r.mem = DOMAIN h.mem /\ r.mem[h.len] = h.mem[h.len]
    BY <1>4, <1>9
  <1>11. Begins(r.mem, w, h.len)
    BY <1>6, <1>8, <1>9 DEF Begins
  <1>7. Good(r) /\ Chars(r) = w
    BY <1>9, <1>10, <1>11, ReplacedIs
  <1> QED
    BY <1>7 DEF r, w, v

-----------------------------------------------------------------------------
(* sdscatvprintf: the buffer is doubled until the text fits.               *)

\* The recursive function of BufferSizes exists; each size is at least two
\* more than its number.
LEMMA SizesAre ==
    ASSUME NEW n \in Nat
    PROVE  /\ \A m \in BufferSizes(n) : m \in Nat /\ m >= 2
           /\ \E m \in BufferSizes(n) : m >= n + 2
  <1> DEFINE Body(f, k) == IF k = 0 THEN PrintBuffer ELSE 2 * f[k - 1]
             Big == {m \in Nat : m >= 2}
             T == {m \in Nat : \E f \in [0..m -> Big] :
                                 \A k \in 0..m : f[k] = Body(f, k) /\ f[k] >= k + 2}
  <1>1. PrintBuffer \in Nat /\ PrintBuffer >= 2
    BY SdsAssumption
  <1>2. 0 \in T
    <2> DEFINE g == [k \in 0..0 |-> PrintBuffer]
    <2>1. g \in [0..0 -> Big]
      BY <1>1
    <2>2. \A k \in 0..0 : g[k] = Body(g, k) /\ g[k] >= k + 2
      BY <1>1
    <2> QED
      BY <2>1, <2>2
  <1>3. ASSUME NEW m \in Nat, m \in T PROVE m + 1 \in T
    <2>1. PICK f \in [0..m -> Big] : \A k \in 0..m : f[k] = Body(f, k) /\ f[k] >= k + 2
      BY <1>3
    <2> DEFINE g == [k \in 0..(m + 1) |-> IF k <= m THEN f[k] ELSE 2 * f[m]]
    <2>2. f[m] \in Nat /\ f[m] >= m + 2
      BY <2>1
    <2>3. 2 * f[m] \in Nat /\ 2 * f[m] >= (m + 1) + 2
      BY <2>2
    <2>4. g \in [0..(m + 1) -> Big]
      <3>1. 2 * f[m] \in Big
        BY <2>3
      <3>2. \A k \in 0..(m + 1) : k <= m => k \in 0..m
        OBVIOUS
      <3> QED
        BY <3>1, <3>2, <2>1
    <2>5. ASSUME NEW k \in 0..(m + 1) PROVE g[k] = Body(g, k) /\ g[k] >= k + 2
      <3>1. CASE k = 0
        <4>1. g[0] = f[0] /\ f[0] = PrintBuffer
          BY <2>1
        <4> QED
          BY <3>1, <4>1, <1>1
      <3>2. CASE k \in 1..m
        <4>1. g[k] = f[k] /\ g[k - 1] = f[k - 1] /\ k \in 0..m /\ k # 0
          BY <3>2
        <4>2. f[k] = 2 * f[k - 1] /\ f[k] >= k + 2
          BY <2>1, <4>1
        <4> QED
          BY <4>1, <4>2
      <3>3. CASE k = m + 1
        <4>1. k # 0 /\ k - 1 = m /\ ~(k <= m)
          BY <3>3
        <4>2. g[k] = 2 * f[m] /\ g[k - 1] = f[m]
          BY <3>3, <4>1
        <4> HIDE DEF g
        <4>3. g[k] = Body(g, k)
          BY <4>1, <4>2
        <4> QED
          BY <2>3, <3>3, <4>2, <4>3
      <3> QED
        BY <3>1, <3>2, <3>3
    <2> HIDE DEF g
    <2>6. \E h \in [0..(m + 1) -> Big] :
            \A k \in 0..(m + 1) : h[k] = Body(h, k) /\ h[k] >= k + 2
      <3> WITNESS g \in [0..(m + 1) -> Big]
      <3> QED
        BY <2>5
    <2>7. m + 1 \in Nat
      OBVIOUS
    <2> QED
      BY <2>6, <2>7, Zenon
  <1>4. n \in T
    <2> HIDE DEF T
    <2>1. Nat \subseteq T
      BY <1>2, <1>3, SetInduction
    <2> QED
      BY <2>1
  <1>5. PICK f \in [0..n -> Big] : \A k \in 0..n : f[k] = Body(f, k)
    BY <1>4
  <1>6. f = [k \in 0..n |-> Body(f, k)]
    BY <1>5
  <1> DEFINE v == CHOOSE h : h = [k \in 0..n |-> Body(h, k)]
  <1>7. v = [k \in 0..n |-> Body(v, k)]
    BY <1>6, Zenon
  <1>8. BufferSizes(n) = {v[k] : k \in 0..n}
    BY DEF BufferSizes
  <1> HIDE DEF v, T
  <1> DEFINE U == {m \in Nat : m <= n => v[m] \in Nat /\ v[m] >= m + 2}
  <1>9. Nat \subseteq U
    <2>1. 0 \in U
      BY <1>1, <1>7
    <2>2. ASSUME NEW m \in Nat, m \in U PROVE m + 1 \in U
      <3>1. SUFFICES ASSUME m + 1 <= n PROVE v[m + 1] \in Nat /\ v[m + 1] >= (m + 1) + 2
        OBVIOUS
      <3>2. m + 1 \in 0..n /\ m + 1 # 0 /\ m <= n /\ (m + 1) - 1 = m
        BY <3>1
      <3>3. v[m + 1] = 2 * v[m]
        BY <3>2, <1>7
      <3>4. v[m] \in Nat /\ v[m] >= m + 2
        BY <3>2, <2>2
      <3> QED
        BY <3>3, <3>4
    <2> HIDE DEF U
    <2> QED
      BY <2>1, <2>2, SetInduction
  <1>10. ASSUME NEW k \in 0..n PROVE v[k] \in Nat /\ v[k] >= k + 2
    BY <1>9
  <1>11. \A k \in 0..n : v[k] \in Nat /\ v[k] >= 2
    <2>1. ASSUME NEW k \in 0..n PROVE v[k] \in Nat /\ v[k] >= 2
      <3> DEFINE x == v[k]
      <3>1. x \in Nat /\ x >= k + 2 /\ k \in Nat
        BY <1>10
      <3> HIDE DEF x
      <3>2. x >= 2
        BY <3>1
      <3> QED
        BY <3>1, <3>2 DEF x
    <2> QED
      BY <2>1
  <1>12. n \in 0..n /\ v[n] >= n + 2
    <2>1. n \in 0..n
      OBVIOUS
    <2> QED
      BY <2>1, <1>10
  <1> QED
    BY <1>8, <1>11, <1>12

\* The bytes of a text that fit a buffer of n bytes.
Kept(t, n) == IF Len(t) <= n - 1 THEN Len(t) ELSE n - 1

\* The buffer b holds m bytes of the text and a 0.
Printed(b, t, m) ==
    /\ b \in Seq(Bytes) /\ Len(b) = m + 1 /\ b[m + 1] = 0
    /\ \A k \in 1..m : b[k] = t[k]

\* What vsnprintf leaves in the buffer.
LEMMA BufferIs ==
    ASSUME NEW t \in Seq(Bytes), NEW n \in Nat, n >= 2
    PROVE  /\ Kept(t, n) \in Nat /\ Kept(t, n) <= Len(t)
           /\ Printed(vsnprintf(t, n), t, Kept(t, n))
  <1> DEFINE m == Kept(t, n)
             a == Len(t)
             b == n - 1
             u == SubSeq(t, 1, m)
             w == vsnprintf(t, n)
  <1>1. a \in Nat /\ b \in Nat
    BY BytesOf
  <1>2. Min({a, b}) = m
    <2>1. m = IF a <= b THEN a ELSE b
      BY DEF Kept
    <2> HIDE DEF a, b, m
    <2> QED
      BY <1>1, <2>1, MinOfTwo
  <1>3. m \in Nat /\ m <= Len(t)
    BY <1>1 DEF Kept
  <1>4. w = u \o <<0>>
    BY <1>2 DEF vsnprintf
  <1>5. u \in Seq(Bytes) /\ (Len(u) = IF 1 <= m THEN m - 1 + 1 ELSE 0)
        /\ \A k \in 1..(m - 1 + 1) : u[k] = t[1 + k - 1]
    BY <1>3, SubIs
  <1> HIDE DEF u, w, m
  <1>6. Len(u) = m /\ \A k \in 1..m : u[k] = t[k]
    BY <1>3, <1>5
  <1>7. /\ w \in Seq(Bytes) /\ Len(w) = Len(u) + 1 /\ w[Len(u) + 1] = 0
        /\ \A k \in 1..Len(u) : w[k] = u[k]
    BY <1>4, <1>5, Terminated
  <1>8. /\ w \in Seq(Bytes) /\ Len(w) = m + 1 /\ w[m + 1] = 0
        /\ \A k \in 1..m : w[k] = t[k]
    BY <1>6, <1>7
  <1> QED
    BY <1>3, <1>8 DEF w, m, Printed

\* Two sequences that begin alike.
LEMMA SameBegin ==
    ASSUME NEW b \in Seq(Bytes), NEW t \in Seq(Bytes), NEW n \in Nat, n <= Len(b), n <= Len(t),
           \A k \in 1..n : b[k] = t[k]
    PROVE  SubSeq(b, 1, n) = SubSeq(t, 1, n)
  <1> DEFINE x == SubSeq(b, 1, n)
             y == SubSeq(t, 1, n)
  <1>1. /\ x \in Seq(Bytes) /\ Len(x) = IF 1 <= n THEN n - 1 + 1 ELSE 0
        /\ \A k \in 1..(n - 1 + 1) : x[k] = b[1 + k - 1]
    BY SubIs
  <1>2. /\ y \in Seq(Bytes) /\ Len(y) = IF 1 <= n THEN n - 1 + 1 ELSE 0
        /\ \A k \in 1..(n - 1 + 1) : y[k] = t[1 + k - 1]
    BY SubIs
  <1> HIDE DEF x, y
  <1>3. Len(x) = n /\ Len(y) = n /\ (\A k \in 1..n : x[k] = b[k]) /\ \A k \in 1..n : y[k] = t[k]
    BY <1>1, <1>2
  <1>4. x \in [1..n -> Bytes] /\ y \in [1..n -> Bytes]
    BY <1>1, <1>2, <1>3, LenProperties
  <1>5. x = y
    BY <1>3, <1>4
  <1> QED
    BY <1>5 DEF x, y

\* A buffer whose last byte but one is 0, or that ends before it, holds the
\* text up to its first 0.
Fits(b, n) == n - 1 \in DOMAIN b => b[n - 1] = 0

LEMMA PrintedIs ==
    ASSUME NEW t \in Seq(Bytes), NEW n \in Nat, n >= 2,
           NEW b, b = vsnprintf(t, n), Fits(b, n)
    PROVE  SubSeq(b, 1, Min({k \in DOMAIN b : b[k] = 0}) - 1) = Strings!UpToZero(t)
  <1> DEFINE m == Kept(t, n)
             Z == {k \in DOMAIN b : b[k] = 0}
             Y == {k \in DOMAIN t : t[k] = 0}
             z == Min(Z)
             y == Min(Y)
  <1>1. Len(t) \in Nat /\ DOMAIN t = 1..Len(t)
    BY BytesOf
  <1>2. m <= n - 1 /\ (m = Len(t) \/ m = n - 1)
    BY <1>1 DEF Kept
  <1>3. /\ m \in Nat /\ m <= Len(t) /\ b \in Seq(Bytes) /\ Len(b) = m + 1
        /\ b[m + 1] = 0 /\ \A k \in 1..m : b[k] = t[k]
    <2>1. m \in Nat /\ m <= Len(t) /\ Printed(b, t, m)
      BY BufferIs
    <2> HIDE DEF m
    <2> QED
      BY <2>1 DEF Printed
  <1>4. DOMAIN b = 1..(m + 1)
    BY <1>3, BytesOf
  <1>5. Z \in SUBSET Nat /\ m + 1 \in Z
    <2>1. m + 1 \in 1..(m + 1)
      BY <1>3
    <2> HIDE DEF m
    <2> QED
      BY <1>3, <1>4, <2>1
  <1>6. z \in Z /\ \A k \in Z : z <= k
    <2>1. Z # {}
      BY <1>5
    <2> HIDE DEF Z
    <2> QED
      BY <1>5, <2>1, MinIs
  <1>7. Y \in SUBSET Nat
    BY <1>1
  <1>8. Y # {} => y \in Y /\ \A k \in Y : y <= k
    <2> HIDE DEF Y
    <2> QED
      BY <1>7, MinIs
  <1>9. Strings!UpToZero(t) = IF Y = {} THEN t ELSE SubSeq(t, 1, y - 1)
    BY SameMin DEF Strings!UpToZero
  <1> HIDE DEF m, y, z
  <1>10. z \in 1..(m + 1) /\ b[z] = 0
    BY <1>4, <1>6
  <1>11. m < Len(t) => m \in 1..m /\ m \in Y
    <2>1. SUFFICES ASSUME m < Len(t) PROVE m \in 1..m /\ m \in Y
      OBVIOUS
    <2>2. m = n - 1 /\ m \in 1..m /\ m \in 1..(m + 1) /\ m \in 1..Len(t)
      <3> DEFINE a == Len(t)
      <3>1. /\ a \in Nat /\ m \in Nat /\ m < a /\ m <= n - 1 /\ (m = a \/ m = n - 1)
            /\ n \in Nat /\ n >= 2
        BY <1>1, <1>2, <1>3, <2>1
      <3> HIDE DEF a
      <3>2. m = n - 1 /\ m >= 1
        BY <3>1
      <3>3. m \in 1..m /\ m \in 1..(m + 1) /\ m \in 1..a
        BY <3>1, <3>2
      <3> QED
        BY <3>2, <3>3 DEF a
    <2>3. b[m] = 0
      BY <1>4, <2>2 DEF Fits
    <2> QED
      BY <1>1, <1>3, <2>2, <2>3
  <1>12. SubSeq(b, 1, z - 1) = SubSeq(t, 1, z - 1)
    <2> DEFINE p == z - 1
    <2>1. p \in Nat /\ p <= m /\ p <= Len(b) /\ p <= Len(t)
      BY <1>1, <1>3, <1>10
    <2>2. \A k \in 1..p : b[k] = t[k]
      <3>1. \A k \in 1..p : k \in 1..m
        BY <1>3, <2>1
      <3> QED
        BY <1>3, <3>1
    <2> HIDE DEF p
    <2>3. SubSeq(b, 1, p) = SubSeq(t, 1, p)
      BY <1>3, <2>1, <2>2, SameBegin
    <2> QED
      BY <2>3 DEF p
  <1>13. CASE Y = {}
    <2>1. m = Len(t)
      <3>1. ~(m < Len(t))
        <4> HIDE DEF Y
        <4> QED
          BY <1>11, <1>13
      <3>2. Len(t) \in Nat /\ m \in Nat /\ m <= Len(t)
        BY <1>1, <1>3
      <3> QED
        BY <3>1, <3>2
    <2>2. z = m + 1
      <3>1. z \in 1..m => z \in Y
        BY <1>1, <1>3, <1>10, <2>1
      <3> QED
        BY <1>3, <1>10, <1>13, <3>1
    <2>3. z - 1 = Len(t)
      BY <1>1, <2>1, <2>2
    <2>4. SubSeq(b, 1, z - 1) = t
      BY <1>12, <2>3, WholeIs
    <2>5. SubSeq(b, 1, z - 1) = Strings!UpToZero(t)
      BY <1>9, <1>13, <2>4
    <2> QED
      BY <2>5 DEF z
  <1>14. CASE Y # {}
    <2>1. y \in 1..Len(t) /\ t[y] = 0 /\ \A k \in Y : y <= k
      BY <1>1, <1>8, <1>14
    <2>2. y <= m
      <3>1. m < Len(t) => y <= m
        BY <1>11, <2>1
      <3> QED
        BY <1>1, <1>3, <2>1, <3>1
    <2>3. y \in 1..m /\ y \in 1..(m + 1)
      BY <1>1, <1>3, <2>1, <2>2
    <2>4. y \in Z
      BY <1>3, <1>4, <2>1, <2>3
    <2>5. z <= y
      BY <1>6, <2>4
    <2>6. z \in 1..m /\ z \in 1..Len(t)
      BY <1>1, <1>3, <1>10, <2>2, <2>3, <2>5
    <2>7. z \in Y
      BY <1>1, <1>3, <1>10, <2>6
    <2>8. y <= z
      BY <2>1, <2>7
    <2>9. z = y
      BY <2>3, <2>5, <2>6, <2>8
    <2>10. SubSeq(b, 1, z - 1) = Strings!UpToZero(t)
      BY <1>9, <1>12, <1>14, <2>9
    <2> QED
      BY <2>10 DEF z
  <1> QED
    BY <1>13, <1>14

LEMMA PrintIs ==
    ASSUME NEW h, Good(h), NEW t \in Seq(Bytes)
    PROVE  /\ Good(sdscatvprintf(h, t))
           /\ Chars(sdscatvprintf(h, t)) = Chars(h) \o Strings!UpToZero(t)
  <1> DEFINE a == Len(t) + 1
             Whole(n) == n - 1 \in DOMAIN vsnprintf(t, n) => vsnprintf(t, n)[n - 1] = 0
             T == {n \in BufferSizes(a) : Whole(n)}
             n == Min(T)
             b == vsnprintf(t, n)
             u == SubSeq(b, 1, Min({k \in DOMAIN b : b[k] = 0}) - 1)
  <1>1. Len(t) \in Nat /\ a \in Nat
    BY BytesOf
  <1>2. (\A k \in BufferSizes(a) : k \in Nat /\ k >= 2) /\ \E k \in BufferSizes(a) : k >= a + 2
    BY <1>1, SizesAre
  <1>3. T # {}
    <2>1. PICK k \in BufferSizes(a) : k >= a + 2
      BY <1>2
    <2> DEFINE w == vsnprintf(t, k)
    <2>2. k \in Nat /\ k >= 2 /\ Len(t) <= k - 1 /\ k - 1 > Len(t) + 1
      BY <1>1, <1>2, <2>1
    <2>3. w \in Seq(Bytes) /\ Len(w) = Len(t) + 1
      <3>1. Kept(t, k) = Len(t)
        BY <2>2 DEF Kept
      <3>2. w \in Seq(Bytes) /\ Len(w) = Kept(t, k) + 1
        BY <2>2, BufferIs DEF Printed
      <3> QED
        BY <3>1, <3>2
    <2>4. DOMAIN w = 1..(Len(t) + 1)
      BY <2>3, BytesOf
    <2>5. k - 1 \notin DOMAIN w
      BY <1>1, <2>2, <2>4
    <2>6. Whole(k)
      BY <2>5
    <2> HIDE DEF Whole
    <2> QED
      BY <2>1, <2>6
  <1>4. n \in T
    <2>1. T \in SUBSET Nat
      BY <1>2
    <2> HIDE DEF T
    <2> QED
      BY <1>3, <2>1, MinIs
  <1>5. n \in Nat /\ n >= 2 /\ Whole(n)
    <2> HIDE DEF n, Whole
    <2> QED
      BY <1>2, <1>4
  <1>6. sdscatvprintf(h, t) = sdscatlen(h, u)
    BY DEF sdscatvprintf
  <1> HIDE DEF n
  <1>7. u = Strings!UpToZero(t)
    <2>1. Fits(b, n)
      BY <1>5 DEF Fits
    <2> HIDE DEF b
    <2>2. b = vsnprintf(t, n)
      BY DEF b
    <2> QED
      BY <1>5, <2>1, <2>2, PrintedIs
  <1>8. u \in Seq(Bytes)
    <2> DEFINE Y == {k \in DOMAIN t : t[k] = 0}
    <2>1. Strings!UpToZero(t) = IF Y = {} THEN t ELSE SubSeq(t, 1, Min(Y) - 1)
      BY SameMin DEF Strings!UpToZero
    <2>2. Y \in SUBSET Nat /\ \A k \in Y : k <= Len(t)
      BY <1>1, BytesOf
    <2> HIDE DEF Y
    <2>3. CASE Y # {}
      <3> DEFINE y == Min(Y)
      <3>1. y \in Y
        BY <2>2, <2>3, MinIs
      <3>4. y \in Nat /\ y <= Len(t)
        BY <2>2, <3>1
      <3> HIDE DEF y
      <3>5. y - 1 \in Int /\ y - 1 <= Len(t)
        BY <1>1, <3>4
      <3>2. Min(Y) - 1 \in Int /\ Min(Y) - 1 <= Len(t)
        BY <3>5 DEF y
      <3>3. SubSeq(t, 1, Min(Y) - 1) \in Seq(Bytes)
        BY <3>2, SubIs
      <3> QED
        BY <1>7, <2>1, <2>3, <3>3
    <2> QED
      BY <1>7, <2>1, <2>3
  <1> HIDE DEF u
  <1>9. Good(sdscatlen(h, u)) /\ Chars(sdscatlen(h, u)) = Chars(h) \o u
    BY <1>8, CatIs
  <1> QED
    BY <1>6, <1>7, <1>9

-----------------------------------------------------------------------------
(* Every call does what its name means.                                    *)

\* The calls of the abstract strings.
Calls ==
    [name : {"new", "zeros", "cat", "cpy", "growzero", "room", "range", "trim", "drop", "clear",
             "updatelen", "dup", "fit", "map", "lower", "upper", "printf", "null",
             "fault"},
     text : Texts \cup {<<>>}, i : Int, j : Int]

\* The call o turns h into r.
Does(o, h, r) ==
    /\ Good(r) /\ o \in Calls
    /\ Chars(r) = Strings!Meaning(o, Chars(h))

LEMMA CallType ==
    ASSUME NEW t \in Texts \cup {<<>>}, NEW i \in Int, NEW j \in Int,
           NEW name \in {"new", "zeros", "cat", "cpy", "growzero", "room", "range", "trim",
                         "drop", "clear", "updatelen", "dup", "fit", "map", "lower", "upper",
                         "printf", "null", "fault"}
    PROVE  Op(name, t, i, j) \in Calls
  BY DEF Op, Calls

LEMMA TextsAre == \A t \in Texts \cup {<<>>} : t \in Seq(Bytes)
  BY SdsAssumption, EmptySeq

LEMMA GrowsDo ==
    ASSUME NEW h, Good(h), NEW t \in Texts \cup {<<>>}, NEW n \in Nat
    PROVE  /\ Does(Op("cat", t, 0, 0), h, sdscatlen(h, t))
           /\ Does(Op("cpy", t, 0, 0), h, sdscpylen(h, t))
           /\ Does(Op("printf", t, 0, 0), h, sdscatvprintf(h, t))
           /\ Len(t) <= h.free => Does(Op("cat", t, 0, 0), h, sdsIncrLen(h, t))
           /\ Does(Op("growzero", <<>>, n, 0), h, sdsgrowzero(h, n))
           /\ Does(Op("room", <<>>, n, 0), h, sdsMakeRoomFor(h, n))
  <1>1. t \in Seq(Bytes) /\ t \in Texts \cup {<<>>} /\ <<>> \in Texts \cup {<<>>}
        /\ 0 \in Int /\ n \in Int
    BY TextsAre
  <1>2. Len(Chars(h)) = h.len
    BY CharsOf
  <1>3. Does(Op("cat", t, 0, 0), h, sdscatlen(h, t))
    <2>1. Op("cat", t, 0, 0) \in Calls
      BY <1>1, CallType
    <2>2. Strings!Meaning(Op("cat", t, 0, 0), Chars(h)) = Chars(h) \o t
      BY DEF Strings!Meaning, Op
    <2>3. Good(sdscatlen(h, t)) /\ Chars(sdscatlen(h, t)) = Chars(h) \o t
      BY <1>1, CatIs
    <2> QED
      BY <2>1, <2>2, <2>3 DEF Does
  <1>4. Does(Op("cpy", t, 0, 0), h, sdscpylen(h, t))
    <2>1. Op("cpy", t, 0, 0) \in Calls
      BY <1>1, CallType
    <2>2. Strings!Meaning(Op("cpy", t, 0, 0), Chars(h)) = t
      BY DEF Strings!Meaning, Op
    <2>3. Good(sdscpylen(h, t)) /\ Chars(sdscpylen(h, t)) = t
      BY <1>1, CpyIs
    <2> QED
      BY <2>1, <2>2, <2>3 DEF Does
  <1>5. Does(Op("printf", t, 0, 0), h, sdscatvprintf(h, t))
    <2>1. Op("printf", t, 0, 0) \in Calls
      BY <1>1, CallType
    <2>2. Strings!Meaning(Op("printf", t, 0, 0), Chars(h)) = Chars(h) \o Strings!UpToZero(t)
      BY DEF Strings!Meaning, Op
    <2>3. Good(sdscatvprintf(h, t)) /\ Chars(sdscatvprintf(h, t)) = Chars(h) \o Strings!UpToZero(t)
      BY <1>1, PrintIs
    <2> QED
      BY <2>1, <2>2, <2>3 DEF Does
  <1>6. Len(t) <= h.free => Does(Op("cat", t, 0, 0), h, sdsIncrLen(h, t))
    <2>1. SUFFICES ASSUME Len(t) <= h.free PROVE Does(Op("cat", t, 0, 0), h, sdsIncrLen(h, t))
      OBVIOUS
    <2>2. Op("cat", t, 0, 0) \in Calls
      BY <1>1, CallType
    <2>3. Strings!Meaning(Op("cat", t, 0, 0), Chars(h)) = Chars(h) \o t
      BY DEF Strings!Meaning, Op
    <2>4. Good(sdsIncrLen(h, t)) /\ Chars(sdsIncrLen(h, t)) = Chars(h) \o t
      BY <1>1, <2>1, IncrIs
    <2> QED
      BY <2>2, <2>3, <2>4 DEF Does
  <1>7. Does(Op("growzero", <<>>, n, 0), h, sdsgrowzero(h, n))
    <2>1. Op("growzero", <<>>, n, 0) \in Calls
      BY <1>1, CallType
    <2>2. Strings!Meaning(Op("growzero", <<>>, n, 0), Chars(h))
            = Chars(h) \o [k \in 1..(n - h.len) |-> 0]
      BY <1>2 DEF Strings!Meaning, Op, Strings!Zeros
    <2>3. /\ Good(sdsgrowzero(h, n))
          /\ Chars(sdsgrowzero(h, n)) = Chars(h) \o [k \in 1..(n - h.len) |-> 0]
      BY GrowIs
    <2> QED
      BY <2>1, <2>2, <2>3 DEF Does
  <1>8. Does(Op("room", <<>>, n, 0), h, sdsMakeRoomFor(h, n))
    <2>1. Op("room", <<>>, n, 0) \in Calls
      BY <1>1, CallType
    <2>2. Strings!Meaning(Op("room", <<>>, n, 0), Chars(h)) = Chars(h)
      BY DEF Strings!Meaning, Op
    <2>3. Good(sdsMakeRoomFor(h, n)) /\ Chars(sdsMakeRoomFor(h, n)) = Chars(h)
      BY <1>1, RoomIs
    <2> QED
      BY <2>1, <2>2, <2>3 DEF Does
  <1> QED
    BY <1>3, <1>4, <1>5, <1>6, <1>7, <1>8

LEMMA ShrinksDo ==
    ASSUME NEW h, Good(h), NEW t \in Texts \cup {<<>>}, NEW i \in Int, NEW j \in Int
    PROVE  /\ Does(Op("range", <<>>, i, j), h, sdsrange(h, i, j))
           /\ Does(Op("trim", t, 0, 0), h, sdstrim(h, t))
           /\ i \in 1..h.len => Does(Op("drop", <<>>, i, 0), h, sdsDecrLen(h, i))
           /\ Does(Op("clear", <<>>, 0, 0), h, sdsclear(h))
           /\ Does(Op("updatelen", <<>>, 0, 0), h, sdsupdatelen(h))
  <1>1. t \in Texts \cup {<<>>} /\ <<>> \in Texts \cup {<<>>} /\ 0 \in Int
    OBVIOUS
  <1>2. Len(Chars(h)) = h.len
    BY CharsOf
  <1>3. Does(Op("range", <<>>, i, j), h, sdsrange(h, i, j))
    <2>1. Op("range", <<>>, i, j) \in Calls
      BY <1>1, CallType
    <2>2. Strings!Meaning(Op("range", <<>>, i, j), Chars(h))
            = SubSeq(Chars(h), Strings!Position(Chars(h), i) + 1,
                     Min({Len(Chars(h)), Strings!Position(Chars(h), j) + 1}))
      BY SameMin DEF Strings!Meaning, Op
    <2> QED
      BY <2>1, <2>2, RangeIs, Zenon DEF Does
  <1>4. Does(Op("trim", t, 0, 0), h, sdstrim(h, t))
    <2>1. Op("trim", t, 0, 0) \in Calls
      BY <1>1, CallType
    <2>2. Strings!Meaning(Op("trim", t, 0, 0), Chars(h))
            = Strings!Stripped(Chars(h), {0} \cup Strings!Chars(Strings!UpToZero(t)))
      BY DEF Strings!Meaning, Op
    <2>3. t \in Seq(Bytes)
      BY TextsAre
    <2>4. Found(t) = {0} \cup Strings!Chars(Strings!UpToZero(t))
      BY <2>3, FoundIs
    <2> QED
      BY <2>1, <2>2, <2>4, TrimIs, Zenon DEF Does
  <1>5. i \in 1..h.len => Does(Op("drop", <<>>, i, 0), h, sdsDecrLen(h, i))
    <2>1. Op("drop", <<>>, i, 0) \in Calls
      BY <1>1, CallType
    <2>2. Strings!Meaning(Op("drop", <<>>, i, 0), Chars(h)) = SubSeq(Chars(h), 1, h.len - i)
      BY <1>2 DEF Strings!Meaning, Op
    <2> QED
      BY <2>1, <2>2, DropIs, Zenon DEF Does
  <1>6. Does(Op("clear", <<>>, 0, 0), h, sdsclear(h))
    <2>1. Op("clear", <<>>, 0, 0) \in Calls
      BY <1>1, CallType
    <2>2. Strings!Meaning(Op("clear", <<>>, 0, 0), Chars(h)) = <<>>
      BY DEF Strings!Meaning, Op
    <2>3. Good(sdsclear(h)) /\ Chars(sdsclear(h)) = <<>>
      BY <1>1, ClearIs
    <2> QED
      BY <2>1, <2>2, <2>3 DEF Does
  <1>7. Does(Op("updatelen", <<>>, 0, 0), h, sdsupdatelen(h))
    <2>1. Op("updatelen", <<>>, 0, 0) \in Calls
      BY <1>1, CallType
    <2>2. Strings!Meaning(Op("updatelen", <<>>, 0, 0), Chars(h)) = Strings!UpToZero(Chars(h))
      BY DEF Strings!Meaning, Op
    <2>3. Good(sdsupdatelen(h)) /\ Chars(sdsupdatelen(h)) = Strings!UpToZero(Chars(h))
      BY <1>1, UpdateIs
    <2> QED
      BY <2>1, <2>2, <2>3 DEF Does
  <1> QED
    BY <1>3, <1>4, <1>5, <1>6, <1>7

LEMMA RemakesDo ==
    ASSUME NEW h, Good(h), NEW t \in Texts \cup {<<>>}, NEW n \in Nat
    PROVE  /\ Does(Op("new", t, 0, 0), h, sdsnewlen(t))
           /\ Does(Op("zeros", <<>>, n, 0), h, sdsnewzero(n))
           /\ Does(Op("dup", <<>>, 0, 0), h, sdsdup(h))
           /\ Does(Op("fit", <<>>, 0, 0), h, sdsRemoveFreeSpace(h))
           /\ Len(t) = 2 => Does(Op("map", t, t[2], 0), h, sdsmapchars(h, t, <<t[2], 0>>))
           /\ Does(Op("lower", <<>>, 0, 0), h, sdstolower(h))
           /\ Does(Op("upper", <<>>, 0, 0), h, sdstoupper(h))
  <1>1. t \in Seq(Bytes) /\ t \in Texts \cup {<<>>} /\ <<>> \in Texts \cup {<<>>}
        /\ 0 \in Int /\ n \in Int
    BY TextsAre
  <1>2. Does(Op("new", t, 0, 0), h, sdsnewlen(t))
    <2>1. Op("new", t, 0, 0) \in Calls
      BY <1>1, CallType
    <2>2. Strings!Meaning(Op("new", t, 0, 0), Chars(h)) = t
      BY DEF Strings!Meaning, Op
    <2>3. Good(sdsnewlen(t)) /\ Chars(sdsnewlen(t)) = t
      BY <1>1, NewLenIs
    <2> QED
      BY <2>1, <2>2, <2>3 DEF Does
  <1>3. Does(Op("zeros", <<>>, n, 0), h, sdsnewzero(n))
    <2>1. Op("zeros", <<>>, n, 0) \in Calls
      BY <1>1, CallType
    <2>2. Strings!Meaning(Op("zeros", <<>>, n, 0), Chars(h)) = [k \in 1..n |-> 0]
      BY DEF Strings!Meaning, Op, Strings!Zeros
    <2> QED
      BY <2>1, <2>2, NewZeroIs DEF Does
  <1>4. Does(Op("dup", <<>>, 0, 0), h, sdsdup(h))
    <2>1. Op("dup", <<>>, 0, 0) \in Calls
      BY <1>1, CallType
    <2>2. Strings!Meaning(Op("dup", <<>>, 0, 0), Chars(h)) = Chars(h)
      BY DEF Strings!Meaning, Op
    <2>3. Good(sdsdup(h)) /\ Chars(sdsdup(h)) = Chars(h)
      BY <1>1, DupIs
    <2> QED
      BY <2>1, <2>2, <2>3 DEF Does
  <1>5. Does(Op("fit", <<>>, 0, 0), h, sdsRemoveFreeSpace(h))
    <2>1. Op("fit", <<>>, 0, 0) \in Calls
      BY <1>1, CallType
    <2>2. Strings!Meaning(Op("fit", <<>>, 0, 0), Chars(h)) = Chars(h)
      BY DEF Strings!Meaning, Op
    <2>3. Good(sdsRemoveFreeSpace(h)) /\ Chars(sdsRemoveFreeSpace(h)) = Chars(h)
      BY <1>1, FitIs
    <2> QED
      BY <2>1, <2>2, <2>3 DEF Does
  <1>6. Len(t) = 2 => Does(Op("map", t, t[2], 0), h, sdsmapchars(h, t, <<t[2], 0>>))
    <2>1. SUFFICES ASSUME Len(t) = 2
                   PROVE  Does(Op("map", t, t[2], 0), h, sdsmapchars(h, t, <<t[2], 0>>))
      OBVIOUS
    <2>2. t[2] \in Int
      <3>1. 2 \in 1..Len(t)
        BY <2>1
      <3>2. t[2] \in Bytes
        BY <1>1, <3>1, BytesOf
      <3>3. Bytes \subseteq Nat
        BY SdsAssumption
      <3> DEFINE c == t[2]
      <3>4. c \in Bytes
        BY <3>2
      <3> HIDE DEF c
      <3>5. c \in Int
        BY <3>3, <3>4
      <3> QED
        BY <3>5 DEF c
    <2>3. Op("map", t, t[2], 0) \in Calls
      BY <1>1, <2>2, CallType
    <2>4. Strings!Meaning(Op("map", t, t[2], 0), Chars(h))
            = [k \in DOMAIN Chars(h) |->
                 IF Chars(h)[k] = t[1] THEN t[2]
                 ELSE IF Chars(h)[k] = t[2] THEN 0 ELSE Chars(h)[k]]
      BY DEF Strings!Meaning, Op
    <2> QED
      BY <1>1, <2>1, <2>3, <2>4, MapIs, Zenon DEF Does
  <1>7. Does(Op("lower", <<>>, 0, 0), h, sdstolower(h))
    <2>1. Op("lower", <<>>, 0, 0) \in Calls
      BY <1>1, CallType
    <2>2. Strings!Meaning(Op("lower", <<>>, 0, 0), Chars(h))
            = [k \in DOMAIN Chars(h) |->
                 Chars(h)[k] + (IF Chars(h)[k] \in 65..90 THEN 32 ELSE 0)]
      BY DEF Strings!Meaning, Op
    <2> QED
      BY <2>1, <2>2, LowerIs, Zenon DEF Does
  <1>8. Does(Op("upper", <<>>, 0, 0), h, sdstoupper(h))
    <2>1. Op("upper", <<>>, 0, 0) \in Calls
      BY <1>1, CallType
    <2>2. Strings!Meaning(Op("upper", <<>>, 0, 0), Chars(h))
            = [k \in DOMAIN Chars(h) |->
                 Chars(h)[k] - (IF Chars(h)[k] \in 97..122 THEN 32 ELSE 0)]
      BY DEF Strings!Meaning, Op
    <2> QED
      BY <2>1, <2>2, UpperIs, Zenon DEF Does
  <1> QED
    BY <1>2, <1>3, <1>4, <1>5, <1>6, <1>7, <1>8

-----------------------------------------------------------------------------
(* The two results: every step does what its call means, on a string that  *)
(* stays well formed.                                                      *)

StringInv == Good(s) /\ s.len <= MaxLen

\* What a step does.
Steps ==
    /\ Good(s') /\ s'.len <= MaxLen
    /\ op' \in Calls
    /\ Chars(s') = Strings!Meaning(op', Chars(s))

LEMMA ReturnSteps ==
    ASSUME NEW o, NEW r, Does(o, s, r), Returns(o, r)
    PROVE  Steps
  BY DEF Does, Returns, Steps

\* A call that fails leaves the string alone, one that ends the program too.
LEMMA NullSteps ==
    ASSUME StringInv, NullReturned \/ FaultsInFit
    PROVE  Steps
  <1>1. PICK name \in {"null", "fault"} : s' = s /\ op' = Op(name, <<>>, 0, 0)
    BY DEF NullReturned, FaultsInFit
  <1> DEFINE o == Op(name, <<>>, 0, 0)
  <1>2. o \in Calls
    <2>1. <<>> \in Texts \cup {<<>>} /\ 0 \in Int
      OBVIOUS
    <2> QED
      BY <2>1, CallType
  <1>3. Strings!Meaning(o, Chars(s)) = Chars(s)
    BY DEF Strings!Meaning, Op
  <1>4. s' = s /\ op' = o
    BY <1>1
  <1> HIDE DEF o
  <1> QED
    BY <1>2, <1>3, <1>4 DEF Steps, StringInv

LEMMA GrowSteps ==
    ASSUME StringInv, Grows
    PROVE  Steps
  <1> USE DEF StringInv
  <1>1. ASSUME NEW t \in Texts \cup {<<>>},
               \/ Returns(Op("cat", t, 0, 0), sdscatlen(s, t))
               \/ Returns(Op("cpy", t, 0, 0), sdscpylen(s, t))
               \/ Returns(Op("printf", t, 0, 0), sdscatvprintf(s, t))
               \/ Len(t) <= s.free /\ Returns(Op("cat", t, 0, 0), sdsIncrLen(s, t))
        PROVE  Steps
    <2>1. 0 \in Nat
      OBVIOUS
    <2> QED
      BY <1>1, <2>1, GrowsDo, ReturnSteps
  <1>2. ASSUME NEW n \in 1..MaxLen,
               \/ Returns(Op("growzero", <<>>, n, 0), sdsgrowzero(s, n))
               \/ Returns(Op("room", <<>>, n, 0), sdsMakeRoomFor(s, n))
        PROVE  Steps
    <2>1. n \in Nat /\ <<>> \in Texts \cup {<<>>}
      BY SdsAssumption
    <2>2. /\ Does(Op("growzero", <<>>, n, 0), s, sdsgrowzero(s, n))
          /\ Does(Op("room", <<>>, n, 0), s, sdsMakeRoomFor(s, n))
      BY <2>1, GrowsDo
    <2> QED
      BY <1>2, <2>2, ReturnSteps
  <1>3. CASE NullReturned
    BY <1>3, NullSteps
  <1> QED
    BY <1>1, <1>2, <1>3 DEF Grows, ReturnsNull

LEMMA ShrinkSteps ==
    ASSUME StringInv, Shrinks
    PROVE  Steps
  <1> USE DEF StringInv
  <1>1. 0 \in Int /\ <<>> \in Texts \cup {<<>>}
    OBVIOUS
  <1>2. ASSUME NEW i \in Indexes, NEW j \in Indexes,
               Returns(Op("range", <<>>, i, j), sdsrange(s, i, j))
        PROVE  Steps
    <2>1. i \in Int /\ j \in Int
      BY SdsAssumption
    <2>2. Does(Op("range", <<>>, i, j), s, sdsrange(s, i, j))
      BY <1>1, <2>1, ShrinksDo
    <2> QED
      BY <1>2, <2>2, ReturnSteps
  <1>3. ASSUME NEW t \in Texts, Returns(Op("trim", t, 0, 0), sdstrim(s, t))
        PROVE  Steps
    <2>1. Does(Op("trim", t, 0, 0), s, sdstrim(s, t))
      BY <1>1, ShrinksDo
    <2> QED
      BY <1>3, <2>1, ReturnSteps
  <1>4. ASSUME NEW n \in 1..s.len, Returns(Op("drop", <<>>, n, 0), sdsDecrLen(s, n))
        PROVE  Steps
    <2>1. n \in Int
      BY DEF Good
    <2>2. Does(Op("drop", <<>>, n, 0), s, sdsDecrLen(s, n))
      BY <1>1, <2>1, ShrinksDo
    <2> QED
      BY <1>4, <2>2, ReturnSteps
  <1>5. ASSUME \/ Returns(Op("clear", <<>>, 0, 0), sdsclear(s))
               \/ Returns(Op("updatelen", <<>>, 0, 0), sdsupdatelen(s))
        PROVE  Steps
    <2>1. /\ Does(Op("clear", <<>>, 0, 0), s, sdsclear(s))
          /\ Does(Op("updatelen", <<>>, 0, 0), s, sdsupdatelen(s))
      BY <1>1, ShrinksDo
    <2> QED
      BY <1>5, <2>1, ReturnSteps
  <1> QED
    BY <1>2, <1>3, <1>4, <1>5 DEF Shrinks

LEMMA RemakeSteps ==
    ASSUME StringInv, Remakes
    PROVE  Steps
  <1> USE DEF StringInv
  <1>1. 0 \in Nat /\ <<>> \in Texts \cup {<<>>}
    OBVIOUS
  <1>2. ASSUME NEW t \in Texts, Returns(Op("new", t, 0, 0), sdsnewlen(t))
        PROVE  Steps
    <2>1. Does(Op("new", t, 0, 0), s, sdsnewlen(t))
      BY <1>1, RemakesDo
    <2> QED
      BY <1>2, <2>1, ReturnSteps
  <1>3. ASSUME NEW n \in 1..MaxLen, Returns(Op("zeros", <<>>, n, 0), sdsnewzero(n))
        PROVE  Steps
    <2>1. n \in Nat
      BY SdsAssumption
    <2>2. Does(Op("zeros", <<>>, n, 0), s, sdsnewzero(n))
      BY <1>1, <2>1, RemakesDo
    <2> QED
      BY <1>3, <2>2, ReturnSteps
  <1>4. ASSUME NEW t \in Texts, Len(t) = 2,
               Returns(Op("map", t, t[2], 0), sdsmapchars(s, t, <<t[2], 0>>))
        PROVE  Steps
    <2>1. Does(Op("map", t, t[2], 0), s, sdsmapchars(s, t, <<t[2], 0>>))
      BY <1>1, <1>4, RemakesDo
    <2> QED
      BY <1>4, <2>1, ReturnSteps
  <1>5. ASSUME \/ Returns(Op("dup", <<>>, 0, 0), sdsdup(s))
               \/ Returns(Op("fit", <<>>, 0, 0), sdsRemoveFreeSpace(s))
               \/ Returns(Op("lower", <<>>, 0, 0), sdstolower(s))
               \/ Returns(Op("upper", <<>>, 0, 0), sdstoupper(s))
        PROVE  Steps
    <2>1. /\ Does(Op("dup", <<>>, 0, 0), s, sdsdup(s))
          /\ Does(Op("fit", <<>>, 0, 0), s, sdsRemoveFreeSpace(s))
          /\ Does(Op("lower", <<>>, 0, 0), s, sdstolower(s))
          /\ Does(Op("upper", <<>>, 0, 0), s, sdstoupper(s))
      BY <1>1, RemakesDo
    <2> QED
      BY <1>5, <2>1, ReturnSteps
  <1>6. CASE FaultsInFit
    BY <1>6, NullSteps
  <1> QED
    BY <1>2, <1>3, <1>4, <1>5, <1>6 DEF Remakes

LEMMA InitIs == Init => StringInv /\ Chars(s) = <<>> /\ op = Op("new", <<>>, 0, 0)
  <1>1. SUFFICES ASSUME Init PROVE StringInv /\ Chars(s) = <<>> /\ op = Op("new", <<>>, 0, 0)
    OBVIOUS
  <1>2. s = sdsnewlen(<<>>) /\ op = Op("new", <<>>, 0, 0)
    BY <1>1 DEF Init
  <1>3. <<>> \in Seq(Bytes) /\ Len(<<>>) = 0
    BY EmptySeq
  <1>4. Good(s) /\ Chars(s) = <<>>
    BY <1>2, <1>3, NewLenIs
  <1>5. s.len = 0
    BY <1>3, <1>4, CharsOf
  <1> QED
    BY <1>2, <1>4, <1>5, SdsAssumption DEF StringInv

LEMMA NextSteps ==
    ASSUME StringInv, Next
    PROVE  Steps
  BY GrowSteps, ShrinkSteps, RemakeSteps DEF Next

LEMMA StringInductive == Spec => []StringInv
  <1>1. Init => StringInv
    BY InitIs
  <1>2. StringInv /\ [Next]_vars => StringInv'
    <2>1. ASSUME StringInv, Next PROVE StringInv'
      BY <2>1, NextSteps DEF Steps, StringInv
    <2>2. ASSUME StringInv, UNCHANGED vars PROVE StringInv'
      BY <2>2 DEF StringInv, vars
    <2> QED
      BY <2>1, <2>2
  <1> QED
    BY <1>1, <1>2, PTL DEF Spec

\* HeaderOK: whatever calls were made on the string, with whatever arguments,
\* its length, free space and terminator fill its block exactly, so that no
\* function of sds.c, each of which trusts sh->len and sh->free, writes
\* outside the block.
THEOREM HeadersFit == Spec => []HeaderOK
  <1>1. StringInv => HeaderOK
    BY SdsAssumption DEF StringInv, Good, HeaderOK
  <1> QED
    BY <1>1, StringInductive, PTL

\* The dynamic strings implement the abstract strings of ByteString: each of
\* the functions of sds.c does to the bytes what its comment promises, for
\* every history of the string and every size of its block, until a call ends
\* the program: sdsRemoveFreeSpace does when realloc fails, and then it is the
\* last one.
THEOREM StringsKeepTheirBytes == Spec => BytesSpec
  <1>1. Value = Chars(s)
    BY DEF Value, Chars
  <1>2. Init => Strings!BytesInit
    BY <1>1, InitIs DEF Strings!BytesInit, Op
  <1>3. StringInv /\ [Next]_vars => [Strings!BytesNext]_Strings!bytesVars
    <2>1. ASSUME StringInv, Next PROVE Strings!BytesNext
      <3>0. op.name # "fault"
        BY <2>1 DEF Next
      <3>1. op' \in Calls /\ Chars(s') = Strings!Meaning(op', Chars(s))
        BY <2>1, NextSteps DEF Steps
      <3>2. Value' = Chars(s')
        BY DEF Value, Chars
      <3> QED
        BY <1>1, <3>0, <3>1, <3>2 DEF Strings!BytesNext, Calls
    <2>2. ASSUME UNCHANGED vars PROVE UNCHANGED Strings!bytesVars
      BY <2>2 DEF vars, Strings!bytesVars, Value
    <2> QED
      BY <2>1, <2>2
  <1> QED
    BY <1>2, <1>3, StringInductive, PTL DEF Spec, BytesSpec, Strings!BytesSpec
=============================================================================
