------------------------------ MODULE SdsText ------------------------------
(***************************************************************************)
(* The functions of src/src/sds.c that take strings apart and put them     *)
(* together: sdssplitlen and sdsjoinsds, sdscatrepr and sdssplitargs.      *)
(* A string is a sequence of bytes, written as their ASCII codes.          *)
(***************************************************************************)
EXTENDS Integers, SequencesExt

-----------------------------------------------------------------------------
(* Splitting at a separator.                                               *)

\* Mutation of MakeSlot: no slot is kept for the final element.
MakeSlot_last(slots, elements) == IF slots < elements + 1 THEN slots * 2 ELSE slots

\* The size of the token array before the search at one more position: room
\* for the next element and the final one.
MakeSlot(slots, elements) == IF slots < elements + 2 THEN slots * 2 ELSE slots

\* A token is stored; overrun tells if the array had no slot for it.
AddToken(acc, token) ==
    [acc EXCEPT !.tokens = Append(@, token),
                !.overrun = @ \/ Len(acc.tokens) >= acc.slots]

\* The loop from position j on, the current token having begun at start.
RECURSIVE SplitFrom(_, _, _, _, _)
SplitFrom(t, sep, j, start, acc) ==
    LET roomy == [acc EXCEPT !.slots = MakeSlot(@, Len(acc.tokens))] IN
    IF j >= Len(t) - (Len(sep) - 1)
      THEN AddToken(acc, SubSeq(t, start + 1, Len(t)))
      ELSE IF SubSeq(t, j + 1, j + Len(sep)) = sep
        THEN SplitFrom(t, sep, j + Len(sep), j + Len(sep),
                       AddToken(roomy, SubSeq(t, start + 1, j)))
        ELSE SplitFrom(t, sep, j + 1, start, roomy)

sdssplitlen(t, sep) ==
    LET none == [tokens |-> <<>>, slots |-> 5, overrun |-> FALSE] IN
    IF t = <<>> THEN none ELSE SplitFrom(t, sep, 0, 0, none)

\* The separator goes between two elements.
sdsjoinsds(argv, sep) ==
    FlattenSeq([k \in DOMAIN argv |-> IF k = Len(argv) THEN argv[k] ELSE argv[k] \o sep])

-----------------------------------------------------------------------------
(* Quoted representations.                                                 *)

Quote == 34
Apostrophe == 39
Backslash == 92
Blank == 32
LowerX == 120

isprint(c) == c \in 32..126
isspace(c) == c \in 9..13 \cup {Blank}

\* The control characters that have a letter: \a \b \t \n \r.
Letters == [c \in {7, 8, 9, 10, 13} |->
    CASE c = 7 -> 97 [] c = 8 -> 98 [] c = 9 -> 116 [] c = 10 -> 110 [] c = 13 -> 114]

HexDigit(n) == IF n < 10 THEN 48 + n ELSE 87 + n

is_hex_digit(c) == c \in 48..57 \cup 97..102 \cup 65..70

hex_digit_to_int(c) ==
    IF c \in 48..57 THEN c - 48 ELSE IF c \in 97..102 THEN c - 87 ELSE c - 55

\* Mutation of Escape: the backslash is taken for a printable character.
Escape_bare(c) ==
    CASE c = Quote -> <<Backslash, c>>
      [] c \in DOMAIN Letters -> <<Backslash, Letters[c]>>
      [] isprint(c) /\ c # Quote -> <<c>>
      [] OTHER -> <<Backslash, LowerX, HexDigit(c \div 16), HexDigit(c % 16)>>

\* How sdscatrepr writes one byte.
Escape(c) ==
    CASE c \in {Quote, Backslash} -> <<Backslash, c>>
      [] c \in DOMAIN Letters -> <<Backslash, Letters[c]>>
      [] isprint(c) /\ c \notin {Quote, Backslash} -> <<c>>
      [] OTHER -> <<Backslash, LowerX, HexDigit(c \div 16), HexDigit(c % 16)>>

sdscatrepr(s, p) ==
    s \o <<Quote>> \o FlattenSeq([k \in DOMAIN p |-> Escape(p[k])]) \o <<Quote>>

\* What a letter after a backslash stands for.
Unescape(c) ==
    LET controls == {k \in DOMAIN Letters : Letters[k] = c} IN
    IF controls = {} THEN c ELSE CHOOSE k \in controls : TRUE

NULL == [ok |-> FALSE, argv |-> <<>>]

\* sdssplitargs from position p of the line on, in one of the states of its
\* scanner ("blank" between arguments, "plain", "double" and "single" quotes
\* inside one), with the current argument and those before it.
RECURSIVE Scan(_, _, _, _, _)
Scan(line, p, mode, current, argv) ==
    LET At(i) == IF i <= Len(line) THEN line[i] ELSE 0
        c     == At(p)
        Add(byte, n) == Scan(line, p + n, mode, Append(current, byte), argv)
        Close(n)     == Scan(line, p + n, "blank", <<>>, Append(argv, current))
        Ends         == At(p + 1) = 0 \/ isspace(At(p + 1))
    IN
    CASE mode = "blank" ->
           (CASE c = 0 -> [ok |-> TRUE, argv |-> argv]
              [] c # 0 /\ isspace(c) -> Scan(line, p + 1, "blank", <<>>, argv)
              [] OTHER -> Scan(line, p, "plain", <<>>, argv))
      [] mode = "plain" ->
           (CASE c = 0 -> Close(0)
              [] c \in {9, 10, 13, Blank} -> Close(1)
              [] c = Quote -> Scan(line, p + 1, "double", current, argv)
              [] c = Apostrophe -> Scan(line, p + 1, "single", current, argv)
              [] OTHER -> Add(c, 1))
      [] mode = "double" ->
           (IF /\ c = Backslash /\ At(p + 1) = LowerX
               /\ is_hex_digit(At(p + 2)) /\ is_hex_digit(At(p + 3))
              THEN Add(hex_digit_to_int(At(p + 2)) * 16 + hex_digit_to_int(At(p + 3)), 4)
              ELSE CASE c = 0 -> NULL
                     [] c = Backslash /\ At(p + 1) # 0 -> Add(Unescape(At(p + 1)), 2)
                     [] c = Quote -> IF Ends THEN Close(1) ELSE NULL
                     [] OTHER -> Add(c, 1))
      [] OTHER ->
           (CASE c = 0 -> NULL
              [] c = Backslash /\ At(p + 1) = Apostrophe -> Add(Apostrophe, 2)
              [] c = Apostrophe -> IF Ends THEN Close(1) ELSE NULL
              [] OTHER -> Add(c, 1))

sdssplitargs(line) == Scan(line, 1, "blank", <<>>, <<>>)
=============================================================================
