-------------------------------- MODULE Sds --------------------------------
(***************************************************************************)
(* The dynamic strings of src/src/sds.c, which the reply parser keeps its  *)
(* input in: a header with the length and the free space, the bytes, and a *)
(* terminating 0.  The free space follows the string in the same block, so *)
(* every call has to keep the three in step with the block that malloc or  *)
(* realloc returned.                                                       *)
(*                                                                         *)
(* A block is a function from offsets to bytes.  What lies beyond the      *)
(* terminator is not remembered: a call that reads it finds Garbage, as in *)
(* fresh memory.                                                           *)
(***************************************************************************)
EXTENDS Integers, Sequences, FiniteSetsExt

CONSTANTS
    Bytes,        \* the bytes told apart
    Texts,        \* the strings given to a call
    Indexes,      \* the positions given to sdsrange
    MaxLen,       \* bound on the length of the string
    MaxPrealloc,  \* SDS_MAX_PREALLOC
    PrintBuffer,  \* the first buffer of sdscatvprintf: 16
    AllocFails    \* TRUE: realloc may fail

ASSUME SdsAssumption ==
    /\ Bytes \subseteq Nat /\ 0 \in Bytes
    /\ \A c \in Bytes : /\ c \in 65..90 => c + 32 \in Bytes
                        /\ c \in 97..122 => c - 32 \in Bytes
    /\ Texts \subseteq Seq(Bytes)
    /\ Indexes \subseteq Int
    /\ MaxLen \in Nat /\ MaxPrealloc \in Nat
    /\ PrintBuffer \in Nat \ {0, 1}
    /\ AllocFails \in BOOLEAN

Garbage == -1

VARIABLES
    s,    \* the string: its block, sh->len and sh->free
    op    \* the last call made and its arguments; "fault": it was the last one

vars == <<s, op>>

-----------------------------------------------------------------------------
(* Blocks.                                                                 *)

Block(n) == [k \in 0..(n - 1) |-> Garbage]

realloc(mem, n) == [k \in 0..(n - 1) |-> IF k \in DOMAIN mem THEN mem[k] ELSE Garbage]

\* memcpy(mem + at, t, Len(t)); bytes outside the block are not stored.
memcpy(mem, at, t) ==
    [k \in DOMAIN mem |-> IF k \in at..(at + Len(t) - 1) THEN t[k - at + 1] ELSE mem[k]]

\* The n bytes of the block from an offset.
BytesAt(mem, at, n) == [k \in 1..n |-> mem[at + k - 1]]

Header(mem, len, free) ==
    [mem |-> [k \in DOMAIN mem |-> IF k <= len THEN mem[k] ELSE Garbage],
     len |-> len, free |-> free]

-----------------------------------------------------------------------------
(* The functions of sds.c, on a string h.                                  *)

sdsnewlen(init) == Header(memcpy(Block(Len(init) + 1), 0, init \o <<0>>), Len(init), 0)

\* sdsnewlen(NULL, n).
sdsnewzero(n) == Header([k \in 0..n |-> 0], n, 0)

sdsdup(h) == sdsnewlen(BytesAt(h.mem, 0, h.len))

\* Mutation of sdsMakeRoomFor: the terminator is forgotten.
sdsMakeRoomFor_tight(h, addlen) ==
    LET newlen == h.len + addlen
        size   == IF newlen < MaxPrealloc THEN newlen * 2 ELSE newlen + MaxPrealloc
    IN  IF h.free >= addlen THEN h ELSE Header(realloc(h.mem, size), h.len, size - h.len)

\* Room for addlen more bytes: as much again as is needed, or MaxPrealloc.
sdsMakeRoomFor(h, addlen) ==
    LET newlen == h.len + addlen
        size   == IF newlen < MaxPrealloc THEN newlen * 2 ELSE newlen + MaxPrealloc
    IN  IF h.free >= addlen
          THEN h
          ELSE Header(realloc(h.mem, size + 1), h.len, size - h.len)

sdsRemoveFreeSpace(h) == Header(realloc(h.mem, h.len + 1), h.len, 0)

sdscatlen(h, t) ==
    LET r == sdsMakeRoomFor(h, Len(t)) IN
    Header(memcpy(r.mem, h.len, t \o <<0>>), h.len + Len(t), r.free - Len(t))

sdscpylen(h, t) ==
    LET r == IF h.free + h.len < Len(t) THEN sdsMakeRoomFor(h, Len(t) - h.len) ELSE h
    IN  Header(memcpy(r.mem, 0, t \o <<0>>), Len(t), r.free + r.len - Len(t))

sdsgrowzero(h, len) ==
    IF len <= h.len
      THEN h
      ELSE LET r == sdsMakeRoomFor(h, len - h.len) IN
           Header(memcpy(r.mem, h.len, [k \in 1..(len - h.len + 1) |-> 0]),
                  len, r.len + r.free - len)

sdsclear(h) == Header([h.mem EXCEPT ![0] = 0], 0, h.free + h.len)

\* strlen of the block becomes the length.
sdsupdatelen(h) ==
    LET reallen == Min({k \in DOMAIN h.mem : h.mem[k] = 0}) IN
    Header(h.mem, reallen, h.free + (h.len - reallen))

\* sdsIncrLen after the caller wrote t behind the string ...
sdsIncrLen(h, t) ==
    LET written == memcpy(h.mem, h.len, t)
        len     == h.len + Len(t)
    IN  Header([written EXCEPT ![len] = 0], len, h.free - Len(t))

\* ... and with a negative increment.
sdsDecrLen(h, n) == Header([h.mem EXCEPT ![h.len - n] = 0], h.len - n, h.free + n)

\* What strchr(cset, c) finds: the bytes before the first 0 of cset, and that 0.
Found(cset) == {0} \cup {cset[k] : k \in {k \in DOMAIN cset : \A i \in 1..k : cset[i] # 0}}

\* The scans from both ends.  The one from the right stops at the first byte of
\* the string.
sdstrim(h, cset) ==
    LET set == Found(cset)
        sp  == Min({k \in 0..(h.len - 1) : h.mem[k] \notin set} \cup {h.len})
        ep  == IF h.len = 0 THEN -1
               ELSE Max({k \in 1..(h.len - 1) : h.mem[k] \notin set} \cup {0})
        len == IF sp > ep THEN 0 ELSE ep - sp + 1
    IN  Header([memcpy(h.mem, 0, BytesAt(h.mem, sp, len)) EXCEPT ![len] = 0],
               len, h.free + (h.len - len))

\* Mutation of sdsrange: an end behind the string is not corrected.
sdsrange_over(h, start, end) ==
    LET from == IF start < 0 THEN Max({0, h.len + start}) ELSE start
        to   == IF end < 0 THEN Max({0, h.len + end}) ELSE end
        newlen == IF from > to \/ from >= h.len THEN 0 ELSE to - from
    IN  IF h.len = 0
          THEN h
          ELSE Header([memcpy(h.mem, 0, BytesAt(h.mem, from, Min({newlen, h.len - from})))
                         EXCEPT ![newlen] = 0],
                      newlen, h.free + (h.len - newlen))

sdsrange(h, start, end) ==
    LET from == IF start < 0 THEN Max({0, h.len + start}) ELSE start
        to   == IF end < 0 THEN Max({0, h.len + end}) ELSE end
        newlen == CASE from > to \/ from >= h.len -> 0
                    [] from <= to /\ from < h.len /\ to >= h.len -> h.len - from
                    [] OTHER -> to - from + 1
    IN  IF h.len = 0
          THEN h
          ELSE Header([memcpy(h.mem, 0, BytesAt(h.mem, from, newlen)) EXCEPT ![newlen] = 0],
                      newlen, h.free + (h.len - newlen))

\* The bytes of the string, each replaced by the function.
Mapped(h, F(_)) ==
    [h EXCEPT !.mem = [k \in DOMAIN h.mem |-> IF k < h.len THEN F(h.mem[k]) ELSE h.mem[k]]]

\* The first occurrence in from decides.
sdsmapchars(h, from, to) ==
    LET Other(c) == LET hits == {k \in DOMAIN from : from[k] = c} IN
                    IF hits = {} THEN c ELSE to[Min(hits)]
    IN  Mapped(h, Other)

sdstolower(h) == Mapped(h, LAMBDA c : IF c \in 65..90 THEN c + 32 ELSE c)

sdstoupper(h) == Mapped(h, LAMBDA c : IF c \in 97..122 THEN c - 32 ELSE c)

\* External: what vsnprintf leaves of the text t in a buffer of n bytes.
vsnprintf(t, n) == SubSeq(t, 1, Min({Len(t), n - 1})) \o <<0>>

\* The sizes of a buffer that is doubled up to n times.
BufferSizes(n) ==
    LET size[k \in 0..n] == IF k = 0 THEN PrintBuffer ELSE 2 * size[k - 1] IN
    {size[k] : k \in 0..n}

\* t was formatted: the buffer is doubled until its last byte but one is 0,
\* then what comes before the first 0 is appended.
sdscatvprintf(h, t) ==
    LET Whole(n) == n - 1 \in DOMAIN vsnprintf(t, n) => vsnprintf(t, n)[n - 1] = 0
        buflen == Min({n \in BufferSizes(Len(t) + 1) : Whole(n)})
        buf    == vsnprintf(t, buflen)
    IN  sdscatlen(h, SubSeq(buf, 1, Min({k \in DOMAIN buf : buf[k] = 0}) - 1))

-----------------------------------------------------------------------------
(* A program that makes these calls on one string.                         *)

Op(name, text, i, j) == [name |-> name, text |-> text, i |-> i, j |-> j]

Init == s = sdsnewlen(<<>>) /\ op = Op("new", <<>>, 0, 0)

\* The call o returns the string r.
Returns(o, r) ==
    /\ r.len <= MaxLen
    /\ s' = r
    /\ op' = o

\* An allocation fails: the call returns NULL and the string is as it was.
NullReturned ==
    /\ AllocFails
    /\ op' = Op("null", <<>>, 0, 0)
    /\ UNCHANGED s

\* The same for realloc, in a call that would have returned r.
ReturnsNull(r) ==
    /\ Cardinality(DOMAIN r.mem) > Cardinality(DOMAIN s.mem)
    /\ NullReturned

Grows ==
    \/ \E t \in Texts :
         \/ Returns(Op("cat", t, 0, 0), sdscatlen(s, t)) \/ ReturnsNull(sdscatlen(s, t))
         \/ Returns(Op("cpy", t, 0, 0), sdscpylen(s, t)) \/ ReturnsNull(sdscpylen(s, t))
         \/ Returns(Op("printf", t, 0, 0), sdscatvprintf(s, t)) \/ NullReturned
         \/ Len(t) <= s.free /\ Returns(Op("cat", t, 0, 0), sdsIncrLen(s, t))
    \/ \E n \in 1..MaxLen :
         \/ Returns(Op("growzero", <<>>, n, 0), sdsgrowzero(s, n))
         \/ ReturnsNull(sdsgrowzero(s, n))
         \/ Returns(Op("room", <<>>, n, 0), sdsMakeRoomFor(s, n))
         \/ ReturnsNull(sdsMakeRoomFor(s, n))

Shrinks ==
    \/ \E i, j \in Indexes : Returns(Op("range", <<>>, i, j), sdsrange(s, i, j))
    \/ \E t \in Texts : Returns(Op("trim", t, 0, 0), sdstrim(s, t))
    \/ \E n \in 1..s.len : Returns(Op("drop", <<>>, n, 0), sdsDecrLen(s, n))
    \/ Returns(Op("clear", <<>>, 0, 0), sdsclear(s))
    \/ Returns(Op("updatelen", <<>>, 0, 0), sdsupdatelen(s))

\* sdsRemoveFreeSpace does not look at what realloc returned: it stores through
\* the NULL, which ends the program.
FaultsInFit ==
    /\ AllocFails
    /\ op' = Op("fault", <<>>, 0, 0)
    /\ UNCHANGED s

Remakes ==
    \/ \E t \in Texts : Returns(Op("new", t, 0, 0), sdsnewlen(t))
    \/ \E n \in 1..MaxLen : Returns(Op("zeros", <<>>, n, 0), sdsnewzero(n))
    \/ Returns(Op("dup", <<>>, 0, 0), sdsdup(s))
    \/ Returns(Op("fit", <<>>, 0, 0), sdsRemoveFreeSpace(s)) \/ FaultsInFit
    \/ \E from \in {t \in Texts : Len(t) = 2} :
         Returns(Op("map", from, from[2], 0), sdsmapchars(s, from, <<from[2], 0>>))
    \/ Returns(Op("lower", <<>>, 0, 0), sdstolower(s))
    \/ Returns(Op("upper", <<>>, 0, 0), sdstoupper(s))

Next == op.name # "fault" /\ (Grows \/ Shrinks \/ Remakes)

Spec == Init /\ [][Next]_vars

-----------------------------------------------------------------------------
(* Properties.                                                             *)

\* The length, the free space and the terminator fill the block exactly, the
\* terminator is where the length says and every byte before it was written:
\* no call of sds.c ever leaves a header that lets the next one write outside
\* the block.
HeaderOK ==
    /\ s.len \in 0..MaxLen /\ s.free \in Nat
    /\ DOMAIN s.mem = 0..(s.len + s.free)
    /\ s.mem[s.len] = 0
    /\ \A k \in 0..(s.len - 1) : s.mem[k] \in Bytes

Value == BytesAt(s.mem, 0, s.len)

Strings == INSTANCE ByteString WITH
    value <- Value, Ops <- [name : {"new", "zeros", "cat", "cpy", "growzero", "room",
        "range", "trim", "drop", "clear", "updatelen", "dup", "fit", "map", "lower", "upper", "printf",
        "null", "fault"}, text : Texts \cup {<<>>}, i : Int, j : Int]

\* Every call does to the bytes what its comment says, whatever was called
\* before and wherever the string happens to be kept, until one of them ends
\* the program (sdsRemoveFreeSpace without memory).
BytesSpec == Strings!BytesSpec
=============================================================================
