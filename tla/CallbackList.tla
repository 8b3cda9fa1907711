---------------------------- MODULE CallbackList ----------------------------
(***************************************************************************)
(* The callback lists of src/src/cb.c at the level of their pointers:      *)
(* callback_ends_t (head, tail), callback_ll_t (the wrappers: cb, next)    *)
(* and callback_t with its count attach of wrappers.  The client keeps one *)
(* list for the commands and one in every node of its trees.               *)
(*                                                                         *)
(* The lists are used from one thread: push_cb, shift_cb and destroy_list  *)
(* do not interleave.  destroy_list is a loop, one step per wrapper; temp  *)
(* is its local variable.                                                  *)
(***************************************************************************)
EXTENDS Integers, Sequences, FiniteSets

CONSTANTS
    Lists,      \* the callback_ends_t structures
    Callbacks,  \* addresses of callback_t structures
    Wrappers,   \* addresses of callback_ll_t structures
    NULL

ASSUME NullAssumption == NULL \notin Lists \cup Wrappers

VARIABLES
    head, tail,  \* of each list
    next, cb,    \* fields of each wrapper
    used,        \* the wrappers that are allocated
    live,        \* the callbacks that are allocated
    attach,      \* field of each callback
    temp,        \* destroy_list: the list (NULL: not running) and the wrapper
    target,      \* what the last shift_cb copied: <<>> or one callback
    order        \* history: the wrappers of each list, oldest first

vars == <<head, tail, next, cb, used, live, attach, temp, target, order>>

Quiet == [list |-> NULL, at |-> NULL]

\* The fields of memory that is not allocated hold anything; the values here
\* are never read.
Init ==
    /\ head = [l \in Lists |-> NULL]
    /\ tail = [l \in Lists |-> NULL]
    /\ next = [w \in Wrappers |-> NULL]
    /\ cb \in [Wrappers -> Callbacks]
    /\ used = {}
    /\ live = {}
    /\ attach = [c \in Callbacks |-> 0]
    /\ temp = Quiet
    /\ target = <<>>
    /\ order = [l \in Lists |-> <<>>]

-----------------------------------------------------------------------------
create_callback(c) ==
    /\ temp = Quiet
    /\ c \notin live
    /\ live' = live \cup {c}
    /\ attach' = [attach EXCEPT ![c] = 0]
    /\ UNCHANGED <<head, tail, next, cb, used, temp, target, order>>

\* Mutation of NextAfterPush: the old tail is not linked to the new one.
NextAfterPush_unlinked(l, w) == [next EXCEPT ![w] = NULL]

\* wrap_cb clears the wrapper's next; push_cb links the old tail to it.
NextAfterPush(l, w) ==
    [v \in Wrappers |-> IF v = w THEN NULL
                        ELSE IF v = tail[l] THEN w ELSE next[v]]

\* wrap_cb and push_cb, which the client always calls together: a fresh
\* wrapper w of callback c becomes the tail of list l.
push_cb(l, c, w) ==
    /\ temp = Quiet
    /\ c \in live
    /\ w \notin used
    /\ used' = used \cup {w}
    /\ cb' = [cb EXCEPT ![w] = c]
    /\ head' = IF head[l] = NULL THEN [head EXCEPT ![l] = w] ELSE head
    /\ next' = NextAfterPush(l, w)
    /\ tail' = [tail EXCEPT ![l] = w]
    /\ attach' = [attach EXCEPT ![c] = @ + 1]
    /\ order' = [order EXCEPT ![l] = Append(@, w)]
    /\ UNCHANGED <<live, temp, target>>

\* Mutation of LastWrapper: the count is compared before it is lowered.
LastWrapper_late(c) == attach[c] = 0

\* Mutation of LastWrapper: the callback is freed with a wrapper left.
LastWrapper_early(c) == attach[c] = 2

\* destroy_wrapper frees the callback with its last wrapper ...
LastWrapper(c) == attach[c] = 1

\* ... and only lowers its count otherwise.  The wrapper is freed.
destroy_wrapper(w) ==
    /\ IF LastWrapper(cb[w])
         THEN live' = live \ {cb[w]} /\ UNCHANGED attach
         ELSE attach' = [attach EXCEPT ![cb[w]] = @ - 1] /\ UNCHANGED live
    /\ used' = used \ {w}

\* Mutation of TailAfterShift: the tail is not cleared with the last wrapper.
TailAfterShift_kept(l) == tail

\* shift_cb clears the tail when the last wrapper leaves.
TailAfterShift(l) ==
    IF head[l] = tail[l] THEN [tail EXCEPT ![l] = NULL] ELSE tail

shift_cb(l) ==
    /\ temp = Quiet
    /\ head[l] # NULL
    /\ head' = [head EXCEPT ![l] = next[head[l]]]
    /\ tail' = TailAfterShift(l)
    /\ target' = <<cb[head[l]]>>
    /\ destroy_wrapper(head[l])
    /\ order' = [order EXCEPT ![l] = Tail(@)]
    /\ UNCHANGED <<next, cb, temp>>

\* shift_cb of an empty list: SNAIL_ERR.
shift_cb_empty(l) ==
    /\ temp = Quiet
    /\ head[l] = NULL
    /\ target' = <<>>
    /\ UNCHANGED <<head, tail, next, cb, used, live, attach, temp, order>>

destroy_list(l) ==
    /\ temp = Quiet
    /\ temp' = [list |-> l, at |-> head[l]]
    /\ UNCHANGED <<head, tail, next, cb, used, live, attach, target, order>>

\* The body of the loop: next is read before the wrapper is destroyed.
destroy_list_step ==
    /\ temp.list # NULL
    /\ temp.at # NULL
    /\ destroy_wrapper(temp.at)
    /\ temp' = [temp EXCEPT !.at = next[temp.at]]
    /\ order' = [order EXCEPT ![temp.list] = Tail(@)]
    /\ UNCHANGED <<head, tail, next, cb, target>>

EndsReset(l) ==
    head' = [head EXCEPT ![l] = NULL] /\ tail' = [tail EXCEPT ![l] = NULL]

destroy_list_end ==
    /\ temp.list # NULL
    /\ temp.at = NULL
    /\ EndsReset(temp.list)
    /\ temp' = Quiet
    /\ UNCHANGED <<next, cb, used, live, attach, target, order>>

Next ==
    \/ \E c \in Callbacks : create_callback(c)
    \/ \E l \in Lists, c \in Callbacks, w \in Wrappers : push_cb(l, c, w)
    \/ \E l \in Lists : shift_cb(l) \/ shift_cb_empty(l) \/ destroy_list(l)
    \/ destroy_list_step
    \/ destroy_list_end

Spec == Init /\ [][Next]_vars

-----------------------------------------------------------------------------
\* Type invariant.
TypeOK ==
    /\ head \in [Lists -> Wrappers \cup {NULL}]
    /\ tail \in [Lists -> Wrappers \cup {NULL}]
    /\ next \in [Wrappers -> Wrappers \cup {NULL}]
    /\ cb \in [Wrappers -> Callbacks]
    /\ used \in SUBSET Wrappers
    /\ live \in SUBSET Callbacks
    /\ attach \in [Callbacks -> Nat]
    /\ temp \in [list : Lists \cup {NULL}, at : Wrappers \cup {NULL}]
    /\ target \in Seq(Callbacks)
    /\ order \in [Lists -> Seq(Wrappers)]

\* No wrapper that a list, its links or destroy_list can reach is freed
\* memory, and none of them points to a freed callback.
NoDangling ==
    /\ \A w \in used : cb[w] \in live /\ next[w] \in used \cup {NULL}
    /\ \A l \in Lists : l # temp.list => {head[l], tail[l]} \subseteq used \cup {NULL}
    /\ temp.at \in used \cup {NULL}

\* attach counts the wrappers of a callback, so that destroy_wrapper frees
\* the callback with the last one and not before.
AttachCounts ==
    \A c \in live : attach[c] = Cardinality({w \in used : cb[w] = c})

\* The wrappers of a list, followed from head by next, are those pushed and
\* not yet shifted, oldest first, and tail is the last of them.
Linked(l) ==
    IF order[l] = <<>>
      THEN head[l] = NULL /\ tail[l] = NULL
      ELSE head[l] = order[l][1] /\ tail[l] = order[l][Len(order[l])]

Chained(l) ==
    \A i \in DOMAIN order[l] :
        next[order[l][i]] = IF i = Len(order[l]) THEN NULL ELSE order[l][i + 1]

ListsLinked ==
    /\ \A l \in Lists : (l # temp.list => Linked(l)) /\ Chained(l)
    /\ temp.at = IF temp.list = NULL \/ order[temp.list] = <<>>
                   THEN NULL ELSE order[temp.list][1]

\* Every allocated wrapper is in exactly one place of one list: none is
\* leaked, none is shared.
NoSharing ==
    /\ \A l \in Lists : \A i \in DOMAIN order[l] : order[l][i] \in used
    /\ \A w \in used : \E l \in Lists : \E i \in DOMAIN order[l] : order[l][i] = w
    /\ \A l, m \in Lists : \A i \in DOMAIN order[l], j \in DOMAIN order[m] :
         order[l][i] = order[m][j] => l = m /\ i = j

\* The lists implement queues of callbacks with shared ownership.
Fifo == INSTANCE CallbackFifo WITH
    queue <- [l \in Lists |-> [i \in DOMAIN order[l] |-> cb[order[l][i]]]],
    got <- target

FifoSpec == Fifo!FifoSpec

=============================================================================
