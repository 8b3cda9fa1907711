----------------------------- MODULE ByteString -----------------------------
(***************************************************************************)
(* What src/src/sds.c promises of a dynamic string: it holds a value, a    *)
(* sequence of bytes of any kind, and each call changes the value as its   *)
(* comment in sds.c says.  Where the string is kept and how much room it   *)
(* has does not show.                                                      *)
(***************************************************************************)
EXTENDS Integers, Sequences, FiniteSetsExt

CONSTANT Ops   \* the calls: records with fields name, text, i, j

VARIABLES
    value,   \* the bytes of the string
    op       \* the last call made

bytesVars == <<value, op>>

Zeros(n) == [k \in 1..n |-> 0]

\* A position counted from the end when it is negative; one before the
\* beginning stands for the beginning.
Position(v, i) == IF i >= 0 THEN i ELSE Max({0, Len(v) + i})

\* v without the bytes of the set at its two ends.
Stripped(v, set) ==
    LET kept == {k \in DOMAIN v : v[k] \notin set} IN
    IF kept = {} THEN <<>> ELSE SubSeq(v, Min(kept), Max(kept))

\* v up to its first 0 byte.
UpToZero(v) ==
    LET zeros == {k \in DOMAIN v : v[k] = 0} IN
    IF zeros = {} THEN v ELSE SubSeq(v, 1, Min(zeros) - 1)

\* The bytes of a C string.
Chars(v) == {v[k] : k \in DOMAIN v}

\* The value after the call o.
Meaning(o, v) ==
    CASE o.name = "new"       -> o.text
      [] o.name = "zeros"     -> Zeros(o.i)
      [] o.name = "cat"       -> v \o o.text
      [] o.name = "cpy"       -> o.text
      [] o.name = "growzero"  -> v \o Zeros(o.i - Len(v))
      [] o.name = "range"     -> SubSeq(v, Position(v, o.i) + 1,
                                        Min({Len(v), Position(v, o.j) + 1}))
      [] o.name = "trim"      -> Stripped(v, {0} \cup Chars(UpToZero(o.text)))
      [] o.name = "clear"     -> <<>>
      [] o.name = "updatelen" -> UpToZero(v)
      [] o.name = "drop"      -> SubSeq(v, 1, Len(v) - o.i)
      [] o.name = "printf"    -> v \o UpToZero(o.text)
      [] o.name = "map"       -> [k \in DOMAIN v |->
            IF v[k] = o.text[1] THEN o.i ELSE IF v[k] = o.text[2] THEN o.j ELSE v[k]]
      [] o.name = "lower"     -> [k \in DOMAIN v |-> v[k] + (IF v[k] \in 65..90 THEN 32 ELSE 0)]
      [] o.name = "upper"     -> [k \in DOMAIN v |-> v[k] - (IF v[k] \in 97..122 THEN 32 ELSE 0)]
      [] OTHER                -> v

BytesInit == value = <<>> /\ op = [name |-> "new", text |-> <<>>, i |-> 0, j |-> 0]

\* A call; "null" is one that failed and left the string as it was, "fault" one
\* that ended the program.
BytesNext == op.name # "fault" /\ op' \in Ops /\ value' = Meaning(op', value)

BytesSpec == BytesInit /\ [][BytesNext]_bytesVars
=============================================================================
