------------------------------- MODULE MCSds -------------------------------
(***************************************************************************)
(* Instance of Sds: strings of up to three bytes, positions on both sides  *)
(* of both ends.  The bytes are the ones sds.c treats in different ways:   *)
(* 0, the backslash and the letter x in both cases.  The functions of      *)
(* SdsText are applied to every string that is reached.                    *)
(***************************************************************************)
EXTENDS Sds, SdsText

MCBytes == {0, 88, 92, 120}
MCTexts == UNION {[1..n -> MCBytes] : n \in 0..2}
MCIndexes == {-4, -2, -1, 0, 1, 2, 3}

\* The occurrences of a separator in a text.
MCFound(t, sep) ==
    {k \in 1..(Len(t) - Len(sep) + 1) : SubSeq(t, k, k + Len(sep) - 1) = sep}

\* sdsjoinsds undoes sdssplitlen, no token contains the separator, and the
\* token array always has a slot for the next token, the final one included.
\* (The text is the string and three letters, long enough for the array to
\* be filled and to grow.)
SplitJoins ==
    \A sep \in Texts \ {<<>>} :
        LET t == Value \o <<LowerX, LowerX, LowerX>>
            r == sdssplitlen(t, sep)
        IN  /\ ~r.overrun
            /\ sdsjoinsds(r.tokens, sep) = t
            /\ \A k \in DOMAIN r.tokens : MCFound(r.tokens[k], sep) = {}

\* sdssplitargs reads back what sdscatrepr wrote: a line of two quoted strings
\* is split into these strings, whatever bytes they contain (the comment of
\* sdssplitargs).
ReprReads ==
    LET t == <<10, Apostrophe, Blank>> \o Value \o <<Quote>> IN
    sdssplitargs(sdscatrepr(sdscatrepr(<<>>, t) \o <<Blank>>, Value))
      = [ok |-> TRUE, argv |-> <<t, Value>>]
=============================================================================
