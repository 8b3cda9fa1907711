--------------------------- MODULE CommandFormat ---------------------------
(***************************************************************************)
(* The request formatter of src/src/hiredis-light.c: a command becomes an  *)
(* array of strings in the Redis protocol.  Its length is computed before  *)
(* the memory is allocated and the bytes are written after, by different   *)
(* code; an argument is a sequence of bytes of any kind.                   *)
(***************************************************************************)
EXTENDS Integers, Sequences, FiniteSetsExt, TLC

\* Mutation of intlen: ten takes one digit.
intlen_short(i) == IF i <= 10 THEN 1 ELSE IF i < 100 THEN 2 ELSE 3

\* The powers of ten below the largest int.
Powers == <<1, 10, 100, 1000, 10000, 100000, 1000000, 10000000, 100000000, 1000000000>>

\* How many digits a length has.
intlen(i) == Cardinality({k \in 1..10 : k = 1 \/ i >= Powers[k]})

bulklen(len) == 1 + intlen(len) + 2 + len + 2

\* The size of the memory block, without its final 0.
totlen(argv) ==
    LET sum[j \in 0..Len(argv)] ==
          IF j = 0 THEN 1 + intlen(Len(argv)) + 2 ELSE sum[j - 1] + bulklen(Len(argv[j]))
    IN  sum[Len(argv)]

\* External: sprintf("%d") of a length, in the shortest notation.
Decimal(i) ==
    LET width == Min({k \in 1..10 : k = 10 \/ i < Powers[k + 1]}) IN
    [k \in 1..width |-> ToString((i \div Powers[width - k + 1]) % 10)]

EndOfLine == <<"CR", "LF">>

\* One argument: its length, its bytes, a newline.
Bulk(arg) == <<"$">> \o Decimal(Len(arg)) \o EndOfLine \o arg \o EndOfLine

redisFormatCommandArgv(argv) ==
    LET cmd[j \in 0..Len(argv)] ==
          IF j = 0 THEN <<"*">> \o Decimal(Len(argv)) \o EndOfLine
                   ELSE cmd[j - 1] \o Bulk(argv[j])
    IN  cmd[Len(argv)]
=============================================================================
