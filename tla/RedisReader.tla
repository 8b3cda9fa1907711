---------------------------- MODULE RedisReader ----------------------------
(***************************************************************************)
(* The incremental reply parser of src/src/hiredis-light.c and the part of *)
(* on_read (src/src/crazysnail.c) that drives it: a chunk of bytes is fed  *)
(* to cc->reader, then redisReaderGetReply is called until it has no       *)
(* complete reply left.  A chunk may end anywhere, inside a length, inside *)
(* a "\r\n", inside a nested array; what was understood so far is kept in  *)
(* the reader: the buffer, the cursor, the stack of read tasks and the     *)
(* reply under construction.  One client has one reader, which serves both *)
(* of its connections.                                                     *)
(*                                                                         *)
(* A byte is one of the few the parser tells apart.  A reply is a tree,    *)
(* written as a function from paths (the indices that lead from the root   *)
(* to an object, the root being at <<>>) to objects, which is also how the *)
(* reader builds it: an object is hung on its parent when it is created.   *)
(*                                                                         *)
(* Numbers have the widths of an LP64 build: a length and an array count   *)
(* are read as long, an array is created and its task counts with int, and *)
(* the reply holds a size_t.                                               *)
(***************************************************************************)
EXTENDS Integers, Sequences, FiniteSetsExt

CONSTANTS
    Handles,         \* the connections that feed the reader
    Replies,         \* the replies the server may send
    Encode(_),       \* the bytes of a reply (the Redis protocol)
    Depth,           \* index of the last task of rstack: 8
    Discard,         \* consumed bytes that trigger the discard: 1024
    IntHalf,         \* an int is one of -IntHalf..(IntHalf - 1): 2^31
    LongHalf,        \* and so a long and a long long: 2^63
    MaxReplies,      \* how many replies the server sends
    Mixes,           \* TRUE: a reply may be cut by a chunk of another connection
    AllocFails       \* TRUE: an allocation may fail

ASSUME ReaderAssumption ==
    /\ Depth \in Nat
    /\ Discard \in Nat \ {0}
    /\ IntHalf \in Nat \ {0} /\ LongHalf \in Nat /\ IntHalf <= LongHalf
    /\ MaxReplies \in Nat
    /\ Mixes \in BOOLEAN
    /\ AllocFails \in BOOLEAN

Digits == [c \in {"0", "1", "2", "3", "4", "5", "6", "7", "8", "9"} |->
    CASE c = "0" -> 0 [] c = "1" -> 1 [] c = "2" -> 2 [] c = "3" -> 3
      [] c = "4" -> 4 [] c = "5" -> 5 [] c = "6" -> 6 [] c = "7" -> 7
      [] c = "8" -> 8 [] c = "9" -> 9]

\* The type bytes of the protocol.
TypeBytes == [c \in {"-", "+", ":", "$", "*"} |->
    CASE c = "-" -> "ERROR" [] c = "+" -> "STATUS" [] c = ":" -> "INTEGER"
      [] c = "$" -> "STRING" [] c = "*" -> "ARRAY"]

Bytes == DOMAIN Digits \cup DOMAIN TypeBytes \cup {"CR", "LF", "x"}

ASSUME EncodeAssumption == \A r \in Replies : Encode(r) \in Seq(Bytes)

Types == {"ERROR", "STATUS", "INTEGER", "STRING", "ARRAY"}

\* An object: num is the number that was read (of an array: what the server
\* announced, which the code does not keep), elements is r->elements.
Objects == [type : Types \cup {"NIL"}, num : Int, text : Seq(Bytes), elements : Nat]

\* A read task: what is expected (type "unknown" until the type byte is
\* read), the size of an array, the index in the array above.
Tasks == [type : Types \cup {"unknown"}, elements : Int, idx : Int]

VARIABLES
    buf, pos,   \* r->buf and the cursor
    err,        \* r->err
    rstack,     \* r->rstack[0..r->ridx]
    reply,      \* r->reply
    pc,         \* where on_read stands; "fault": it stored through NULL
    from,       \* the connection whose chunk is being parsed
    wire,       \* bytes on their way to each connection
    sent,       \* replies the server sent on each connection
    out         \* replies handed to the callbacks of each connection

reader == <<buf, pos, err, rstack, reply>>
vars == <<reader, pc, from, wire, sent, out>>

NoReply == <<>>
Task(idx) == [type |-> "unknown", elements |-> -1, idx |-> idx]

Init ==
    /\ buf = <<>> /\ pos = 0
    /\ err = "none"
    /\ rstack = <<>>
    /\ reply = NoReply
    /\ pc = "idle"
    /\ from \in Handles
    /\ wire = [h \in Handles |-> <<>>]
    /\ sent = [h \in Handles |-> <<>>]
    /\ out = [h \in Handles |-> <<>>]

-----------------------------------------------------------------------------
(* Helpers of the parser.                                                  *)

Top == rstack[Len(rstack)]

\* The bytes from position p (0 is the first) to the end of the buffer.
Rest(p) == SubSeq(buf, p + 1, Len(buf))

\* Mutation of seekNewline: a CR is enough.
seekNewline_cr(s) ==
    LET found == {i \in 1..Len(s) : s[i] = "CR"} IN
    IF found = {} THEN 0 ELSE Min(found)

\* Position of the first "\r\n" in s, 0 if there is none.
seekNewline(s) ==
    LET found == {i \in 1..(Len(s) - 1) : s[i] = "CR" /\ s[i + 1] = "LF"} IN
    IF found = {} THEN 0 ELSE Min(found)

\* The number whose decimal digits are these.
NumberOf(digits) ==
    LET value[n \in 0..Len(digits)] ==
            IF n = 0 THEN 0 ELSE value[n - 1] * 10 + Digits[digits[n]]
    IN  value[Len(digits)]

\* What is left of n in a signed integer of 2 * half values.
Signed(n, half) == ((n + half) % (2 * half)) - half

\* The number written in s, which ends at the first CR, even one that no LF
\* follows: -1 when something else than digits follows the sign.
readLongLong(s) ==
    LET signed == s # <<>> /\ s[1] \in {"-", "+"}
        tail   == IF signed THEN Tail(s) ELSE s
        cr     == {i \in 1..Len(tail) : tail[i] = "CR"}
        digits == IF cr = {} THEN tail ELSE SubSeq(tail, 1, Min(cr) - 1)
    IN  IF \E i \in DOMAIN digits : digits[i] \notin DOMAIN Digits
          THEN -1
          ELSE Signed(IF signed /\ s[1] = "-" THEN -NumberOf(digits) ELSE NumberOf(digits),
                      LongHalf)

\* Mutation of moveToNextTask: one element too many.
moveToNextTask_over(stack) ==
    LET open == {i \in 2..Len(stack) : stack[i].idx # stack[i - 1].elements} IN
    IF open = {}
      THEN <<>>
      ELSE LET k == Max(open) IN
           Append(SubSeq(stack, 1, k - 1), Task(stack[k].idx + 1))

\* Mutation of moveToNextTask: an array is complete one element too early.
moveToNextTask_early(stack) ==
    LET open == {i \in 2..Len(stack) : stack[i].idx < stack[i - 1].elements - 2} IN
    IF open = {}
      THEN <<>>
      ELSE LET k == Max(open) IN
           Append(SubSeq(stack, 1, k - 1), Task(stack[k].idx + 1))

\* The task stack after an object is complete: every array of which it was
\* the last element is complete too; the next task is the next element of
\* the innermost array that has one.
moveToNextTask(stack) ==
    LET open == {i \in 2..Len(stack) : stack[i].idx # stack[i - 1].elements - 1} IN
    IF open = {}
      THEN <<>>
      ELSE LET k == Max(open) IN
           Append(SubSeq(stack, 1, k - 1), Task(stack[k].idx + 1))

\* Where the object of the current task belongs in the reply.
Path == [i \in 1..(Len(rstack) - 1) |-> rstack[i + 1].idx]

\* An object that is no array.
Leaf(type, num, text) == [type |-> type, num |-> num, text |-> text, elements |-> 0]

\* An array: createArrayObject is given the count as an int and widens it to
\* the size_t of the reply.
ArrayOf(count) == [type |-> "ARRAY", num |-> count, text |-> <<>>,
                   elements |-> Signed(count, IntHalf) % (2 * LongHalf)]

\* createArrayObject allocates element[] for a positive int only.
HasVector(array) == array.elements \in 1..(IntHalf - 1)

\* The object of the current task has a parent without element[]: the
\* createX function stores through NULL.
StoresThroughNull ==
    Len(rstack) > 1 /\ ~HasVector(reply[SubSeq(Path, 1, Len(Path) - 1)])

\* createString, createInteger, createArray, createNil.
Create(object) ==
    [p \in DOMAIN reply \cup {Path} |-> IF p = Path THEN object ELSE reply[p]]

\* __redisReaderSetError: the reply under construction is freed, the buffer
\* is dropped, the stack is emptied.
SetError(e) ==
    /\ err' = e
    /\ reply' = NoReply
    /\ buf' = <<>> /\ pos' = 0
    /\ rstack' = <<>>

-----------------------------------------------------------------------------
(* redisReaderGetReply, one processItem at a time.                         *)

\* The item is not complete: what is known of it (its type, and that its
\* type byte is consumed) is kept for the next chunk.
Starve(type, p) ==
    /\ pos' = p
    /\ rstack' = [rstack EXCEPT ![Len(rstack)].type = type]
    /\ pc' = "return"
    /\ UNCHANGED <<buf, err, reply>>

\* An object is created and hung on its parent: it may fail before it is hung,
\* or find no vector to hang it in.
CreateFails ==
    \/ /\ AllocFails
       /\ SetError("oom")
       /\ pc' = "return"
    \/ /\ StoresThroughNull
       /\ pc' = "fault"
       /\ UNCHANGED reader

\* The item is complete and ends at q.
Complete(object, q) ==
    \/ CreateFails
    \/ /\ ~StoresThroughNull
       /\ reply' = Create(object)
       /\ rstack' = moveToNextTask(rstack)
       /\ pos' = q
       /\ pc' = IF rstack' = <<>> THEN "return" ELSE "items"
       /\ UNCHANGED <<buf, err>>

\* An error, a status or an integer: one line.
processLineItem(type, p) ==
    LET nl   == seekNewline(Rest(p))
        line == SubSeq(Rest(p), 1, nl - 1)
    IN  IF nl = 0
          THEN Starve(type, p)
          ELSE IF type = "INTEGER"
            THEN Complete(Leaf(type, readLongLong(line), <<>>), p + nl + 1)
            ELSE Complete(Leaf(type, 0, line), p + nl + 1)

\* Mutation of BufferHolds: the closing newline is not counted.
BufferHolds_short(end) == end - 2 <= Len(buf)

\* The buffer contains all bytes before end.
BufferHolds(end) == end <= Len(buf)

\* A string: its length, then its bytes and a newline, all or nothing.
processBulkItem(type, p) ==
    LET nl  == seekNewline(Rest(p))
        len == readLongLong(SubSeq(Rest(p), 1, nl - 1))
        end == p + nl + 1 + len + 2
    IN  CASE nl = 0 -> Starve(type, p)
          [] nl > 0 /\ len < 0 -> Complete(Leaf("NIL", 0, <<>>), p + nl + 1)
          [] nl > 0 /\ len >= 0 /\ ~BufferHolds(end) -> Starve(type, p)
          [] OTHER -> Complete(Leaf(type, 0, SubSeq(Rest(p), nl + 2, nl + 1 + len)), end)

\* An array: its size; its elements become tasks of their own.  Whether there
\* are any is asked of the long, the task counts with the int.
processMultiBulkItem(type, p) ==
    LET nl == seekNewline(Rest(p))
        n  == readLongLong(SubSeq(Rest(p), 1, nl - 1))
    IN  CASE Len(rstack) - 1 = Depth -> SetError("protocol") /\ pc' = "return"
          [] Len(rstack) - 1 # Depth /\ nl = 0 -> Starve(type, p)
          [] Len(rstack) - 1 # Depth /\ nl > 0 /\ n = -1 ->
               Complete(Leaf("NIL", 0, <<>>), p + nl + 1)
          [] Len(rstack) - 1 # Depth /\ nl > 0 /\ n # -1 /\ n <= 0 ->
               Complete(ArrayOf(n), p + nl + 1)
          [] OTHER ->
               \/ CreateFails
               \/ /\ ~StoresThroughNull
                  /\ reply' = Create(ArrayOf(n))
                  /\ rstack' = Append([rstack EXCEPT ![Len(rstack)] =
                          [@ EXCEPT !.type = type, !.elements = Signed(n, IntHalf)]], Task(0))
                  /\ pos' = p + nl + 1
                  /\ UNCHANGED <<buf, err, pc>>

processItem ==
    /\ pc = "items"
    /\ LET known == Top.type # "unknown"
           p     == IF known THEN pos ELSE pos + 1
           byte  == buf[p]
           type  == IF known THEN Top.type ELSE TypeBytes[byte]
       IN  CASE ~known /\ pos >= Len(buf) -> Starve("unknown", pos)
             [] ~known /\ pos < Len(buf) /\ byte \notin DOMAIN TypeBytes ->
                  SetError("protocol") /\ pc' = "return"
             [] OTHER ->
                  \/ type \in {"ERROR", "STATUS", "INTEGER"} /\ processLineItem(type, p)
                  \/ type = "STRING" /\ processBulkItem(type, p)
                  \/ type = "ARRAY" /\ processMultiBulkItem(type, p)
    /\ UNCHANGED <<from, wire, sent, out>>

\* Mutation of Compacted: one byte too few is dropped.
Compacted_short == Rest(pos - 1)

\* What the discard leaves of the buffer.
Compacted == Rest(pos)

\* redisReaderGetReply begins: no reply in an empty buffer; a new reply
\* starts with a task for its root.
GetReplyBegin ==
    /\ pc = "get"
    /\ IF buf = <<>>
         THEN pc' = "idle" /\ UNCHANGED rstack
         ELSE /\ pc' = "items"
              /\ rstack' = IF rstack = <<>> THEN <<Task(-1)>> ELSE rstack
    /\ UNCHANGED <<buf, pos, err, reply, from, wire, sent, out>>

\* redisReaderGetReply returns to on_read: an error ends the handler; a
\* complete reply goes to a callback and on_read asks for the next one;
\* otherwise on_read waits for the next chunk.
GetReplyEnd ==
    /\ pc = "return"
    /\ IF err # "none"
         THEN pc' = "idle" /\ UNCHANGED <<buf, pos, reply, out>>
         ELSE /\ IF pos >= Discard
                   THEN buf' = Compacted /\ pos' = 0
                   ELSE UNCHANGED <<buf, pos>>
              /\ IF rstack = <<>>
                   THEN /\ out' = [out EXCEPT ![from] = Append(@, reply)]
                        /\ reply' = NoReply
                        /\ pc' = "get"
                   ELSE pc' = "idle" /\ UNCHANGED <<reply, out>>
    /\ UNCHANGED <<err, rstack, from, wire, sent>>

\* The reader holds no part of a reply: at most the task for a root of which
\* nothing was read.
BetweenReplies == rstack \in {<<>>, <<Task(-1)>>}

\* libuv read n bytes of h, for redisReaderFeed.  A reader in error takes no
\* more bytes: the error listener is called and the chunk is dropped; so it
\* is when the buffer cannot grow.  (An empty buffer that has become large is
\* given back first, which leaves it empty.)
on_read(h, n) ==
    /\ pc = "idle"
    /\ n \in 1..Len(wire[h])
    /\ Mixes \/ h = from \/ BetweenReplies
    /\ wire' = [wire EXCEPT ![h] = SubSeq(@, n + 1, Len(@))]
    /\ \/ /\ err # "none"
          /\ UNCHANGED <<reader, pc, from>>
       \/ /\ err = "none" /\ AllocFails
          /\ SetError("oom")
          /\ UNCHANGED <<pc, from>>
       \/ /\ err = "none"
          /\ buf' = buf \o SubSeq(wire[h], 1, n)
          /\ pc' = "get"
          /\ from' = h
          /\ UNCHANGED <<pos, err, rstack, reply>>
    /\ UNCHANGED <<sent, out>>

\* The replies sent on h that a callback was given.
Received(h) == SubSeq(sent[h], 1, Min({Len(sent[h]), Len(out[h])}))

\* disconnect() and connect(): what was on its way is lost with the old
\* connections.  connect() does not replace the reader: what it had parsed,
\* its buffer and its error stay.
Reconnect ==
    /\ pc = "idle"
    /\ Mixes \/ BetweenReplies
    /\ UNCHANGED reader
    /\ wire' = [h \in Handles |-> <<>>]
    /\ sent' = IF err = "none" THEN [h \in Handles |-> Received(h)] ELSE sent
    /\ UNCHANGED <<pc, from, out>>

SentSoFar == MapThenSumSet(LAMBDA k : Len(sent[k]), Handles)

\* External: the server sends a reply.
ServerSends(h, r) ==
    /\ pc = "idle"
    /\ SentSoFar < MaxReplies
    /\ sent' = [sent EXCEPT ![h] = Append(@, r)]
    /\ wire' = [wire EXCEPT ![h] = @ \o Encode(r)]
    /\ UNCHANGED <<reader, pc, from, out>>

Handler == processItem \/ GetReplyBegin \/ GetReplyEnd

Next ==
    \/ Handler
    \/ \E h \in Handles : \E n \in 1..Len(wire[h]) : on_read(h, n)
    \/ Reconnect
    \/ \E h \in Handles, r \in Replies : ServerSends(h, r)

Spec == Init /\ [][Next]_vars

-----------------------------------------------------------------------------
(* Properties.                                                             *)

\* Type invariant of the reader and of on_read.
TypeOK ==
    /\ buf \in Seq(Bytes)
    /\ pos \in 0..Len(buf)
    /\ err \in {"none", "protocol", "oom"}
    /\ rstack \in Seq(Tasks)
    /\ \A p \in DOMAIN reply : reply[p] \in Objects
    /\ pc \in {"idle", "get", "items", "return", "fault"}
    /\ from \in Handles
    /\ wire \in [Handles -> Seq(Bytes)]
    /\ sent \in [Handles -> Seq(Replies)]

\* The task stack never runs over rstack[9], every task below the top is an
\* array that hangs in the reply under construction where createX will look
\* for it, and it has room for the element above it (the assertions of
\* moveToNextTask).  The exception is an array of a size no int holds: a first
\* element is expected that it may have no room for, and createX stores
\* through NULL below such an array only.
StackOK ==
    /\ Len(rstack) <= Depth + 1
    /\ \A i \in 2..Len(rstack) :
         LET above == [k \in 1..(i - 2) |-> rstack[k + 1].idx] IN
         /\ rstack[i - 1].type = "ARRAY"
         /\ above \in DOMAIN reply /\ reply[above].type = "ARRAY"
         /\ i < Len(rstack) \/ reply[above].num < IntHalf =>
                rstack[i].idx \in 0..(rstack[i - 1].elements - 1)
    /\ pc = "fault" =>
         \E p \in DOMAIN reply : reply[p].type = "ARRAY" /\ reply[p].num >= IntHalf

\* Array p of a reply has every element it says it has.
Filled(r, p) == \A i \in 0..(r[p].elements - 1) : Append(p, i) \in DOMAIN r

\* A reply whose arrays are complete, and of the size the server announced if
\* an int holds it.  An array announced with a negative size is left out.
Whole(r) ==
    /\ <<>> \in DOMAIN r
    /\ \A p \in DOMAIN r : r[p].type = "ARRAY" /\ r[p].num >= 0 =>
         Filled(r, p) /\ (r[p].num < IntHalf => r[p].elements = r[p].num)

\* No callback is given part of a reply: on_read walks all elements of an
\* array, and one that redisReaderGetReply returned too early would still be
\* a null pointer.  It holds whatever was sent before and whichever connection
\* the bytes came from, of every array that was not announced with a negative
\* size.
RepliesWhole == \A h \in Handles : \A i \in DOMAIN out[h] : Whole(out[h][i])

\* A reply as hiredis-light.h describes it: elements is the number of elements
\* of an array, element[] has them.  It does not hold of every array: a
\* negative size other than -1 leaves a size_t near its maximum and no vector.
ElementsThere ==
    \A h \in Handles : \A i \in DOMAIN out[h] : \A p \in DOMAIN out[h][i] :
        out[h][i][p].type = "ARRAY" => Filled(out[h][i], p)

\* The callbacks of a connection are given the replies the server sent on it,
\* whole and in order, wherever the chunks were cut.
Faithful ==
    \A h \in Handles :
        /\ Len(out[h]) <= Len(sent[h])
        /\ \A i \in 1..Len(out[h]) : out[h][i] = sent[h][i]
=============================================================================
