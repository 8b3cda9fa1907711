---------------------------- MODULE CallbackFifo ----------------------------
(***************************************************************************)
(* What cb.c promises of its callback lists: each list is a queue of       *)
(* callbacks, the same callback may wait in several places at once (a      *)
(* subscription to several channels), and a callback exists until it       *)
(* leaves the last of them.                                                *)
(***************************************************************************)
EXTENDS Integers, Sequences

CONSTANTS Lists, Callbacks

VARIABLES
    queue,  \* the callbacks waiting in each list, oldest first
    live,   \* the callbacks that exist
    got     \* what the last shift returned: <<>>, or the one callback

fifoVars == <<queue, live, got>>

FifoInit ==
    /\ queue = [l \in Lists |-> <<>>]
    /\ live = {}
    /\ got = <<>>

WaitsIn(c, q) == \E l \in Lists : \E i \in DOMAIN q[l] : q[l][i] = c

Create(c) ==
    /\ c \notin live
    /\ live' = live \cup {c}
    /\ UNCHANGED <<queue, got>>

Push(l, c) ==
    /\ c \in live
    /\ queue' = [queue EXCEPT ![l] = Append(@, c)]
    /\ UNCHANGED <<live, got>>

\* The oldest callback of l leaves; it ceases to exist if it waits nowhere.
Leave(l) ==
    /\ queue[l] # <<>>
    /\ queue' = [queue EXCEPT ![l] = Tail(@)]
    /\ live' = IF WaitsIn(Head(queue[l]), queue')
                 THEN live ELSE live \ {Head(queue[l])}

Shift(l) == Leave(l) /\ got' = <<Head(queue[l])>>

ShiftEmpty(l) ==
    /\ queue[l] = <<>>
    /\ got' = <<>>
    /\ UNCHANGED <<queue, live>>

\* One callback of a list that is being destroyed.
Drop(l) == Leave(l) /\ UNCHANGED got

FifoNext ==
    \/ \E c \in Callbacks : Create(c)
    \/ \E l \in Lists, c \in Callbacks : Push(l, c)
    \/ \E l \in Lists : Shift(l) \/ ShiftEmpty(l) \/ Drop(l)

FifoSpec == FifoInit /\ [][FifoNext]_fifoVars

=============================================================================
