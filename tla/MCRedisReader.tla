--------------------------- MODULE MCRedisReader ---------------------------
(***************************************************************************)
(* Instance of RedisReader: the protocol encoding of a few replies (of     *)
(* every type, nested, empty, nil, with a lone CR or a newline inside), of *)
(* one that is nested deeper than the task stack allows, of a line that is *)
(* no reply at all, and of arrays announced with a negative size and with  *)
(* one that an int does not hold.                                          *)
(***************************************************************************)
EXTENDS RedisReader, CommandFormat, SequencesExt

MCLeaf(type, num, text) == (<<>> :> Leaf(type, num, text))

\* An array of replies: the paths of each are prefixed with its index.
MCArray(elems) ==
    LET paths == {<<>>} \cup
          UNION {{<<i - 1>> \o p : p \in DOMAIN elems[i]} : i \in DOMAIN elems}
    IN  [p \in paths |-> IF p = <<>>
                           THEN ArrayOf(Len(elems))
                           ELSE elems[Head(p) + 1][Tail(p)]]

MCInteger == MCLeaf("INTEGER", -12, <<>>)
MCStatus == MCLeaf("STATUS", 0, <<"x", "CR", "x">>)
MCError == MCLeaf("ERROR", 0, <<>>)
MCString == MCLeaf("STRING", 0, <<"CR", "LF", "+">>)
MCEmpty == MCLeaf("STRING", 0, <<>>)
MCNil == MCLeaf("NIL", 0, <<>>)
MCNested == MCArray(<<MCArray(<<MCInteger, MCNil>>), MCError, MCArray(<<>>)>>)
MCLast == MCArray(<<MCError, MCArray(<<MCEmpty>>)>>)
MCDeep == MCArray(<<MCArray(<<MCArray(<<>>)>>)>>)
MCGarbage == MCLeaf("NIL", 1, <<"x">>)

\* "*-2", which is not the nil of an array, and an array of 16, one more than
\* an unsigned int of the instance holds: its first element is on its way.
MCNegative == (<<>> :> ArrayOf(-2))
MCLarge == (<<>> :> ArrayOf(16))

\* A command, as the server would read it: the protocol of requests is that
\* of replies.
MCArgv == <<<<>>, <<"CR", "LF", "$", "x", "x", "x", "x", "x", "CR", "LF">>>>
MCCommand == MCArray([i \in DOMAIN MCArgv |-> MCLeaf("STRING", 0, MCArgv[i])])

MCReplies == {MCStatus, MCNested, MCCommand, MCDeep, MCGarbage, MCNegative, MCLarge}
MCFewReplies == {MCString, MCLast}

NewLine == EndOfLine

\* Reference: the protocol, root first, then the elements in order.
RECURSIVE MCEncodeAt(_, _)
MCEncodeAt(r, at) ==
    LET o == r[at]
        elements == [i \in 1..o.num |-> MCEncodeAt(r, Append(at, i - 1))]
    IN  CASE o.type = "INTEGER" -> <<":", "-", "1", "2">> \o NewLine
          [] o.type = "STATUS" -> <<"+">> \o o.text \o NewLine
          [] o.type = "ERROR" -> <<"-">> \o o.text \o NewLine
          [] o.type = "STRING" /\ o.text = <<>> -> <<"$", "0">> \o NewLine \o NewLine
          [] o.type = "STRING" /\ o.text # <<>> -> <<"$", "3">> \o NewLine \o o.text \o NewLine
          [] o.type = "NIL" /\ o.num = 0 -> <<"$", "-", "1">> \o NewLine
          [] o.type = "NIL" /\ o.num = 1 -> o.text
          [] r = MCNegative -> <<"*", "-", "2">> \o NewLine
          [] r = MCLarge -> <<"*", "1", "6">> \o NewLine \o MCEncodeAt(MCError, <<>>)
          [] OTHER -> <<"*">> \o <<ToString(o.num)>> \o NewLine \o FlattenSeq(elements)
MCEncode(r) == IF r = MCCommand THEN redisFormatCommandArgv(MCArgv) ELSE MCEncodeAt(r, <<>>)

\* A reply the reader supports: well formed, not nested too deep and of sizes
\* an int holds.
MCSupported(r) ==
    /\ r \notin {MCGarbage, MCLarge}
    /\ \A p \in DOMAIN r : r[p].type = "ARRAY" => Len(p) < Depth

\* How many of the replies sent can be read: those before the first one that
\* is not supported.
MCReadable(replies) ==
    LET bad == {i \in DOMAIN replies : ~MCSupported(replies[i])} IN
    IF bad = {} THEN Len(replies) ELSE Min(bad) - 1

\* redisReaderGetReply returns every reply of a connection whose bytes were
\* all read, wherever the chunks were cut, unless the reader is in error; and
\* a protocol error or a store through NULL is that of the first unsupported
\* reply of a connection, all replies before it having been returned.
ReadsAll ==
    /\ pc = "idle" /\ err = "none" =>
         \A h \in Handles : wire[h] = <<>> => Len(out[h]) = Len(sent[h])
    /\ err = "protocol" \/ pc = "fault" =>
         \E h \in Handles :
            /\ Len(out[h]) = MCReadable(sent[h])
            /\ Len(out[h]) < Len(sent[h])
            /\ pc = "fault" <=> sent[h][Len(out[h]) + 1] = MCLarge

\* The length computed before the memory is allocated is the number of bytes
\* written (the assertion of redisFormatCommandArgv), for numbers of arguments
\* and lengths around the ends of one and of two digits.  (Of the commands a
\* client may send before the first reply.)
FormatExact == (\A h \in Handles : sent[h] = <<>>) =>
    \A argc \in {1, 2, 9, 10, 11, 100}, len \in {0, 1, 9, 10, 11, 99, 100, 101} :
        LET argv == [i \in 1..argc |-> [k \in 1..(IF i = 1 THEN len ELSE i % 3) |-> "x"]] IN
        Len(redisFormatCommandArgv(argv)) = totlen(argv)
=============================================================================
