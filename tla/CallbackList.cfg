\* Two lists, two callbacks, three wrappers: a callback can wait in both lists
\* and twice in one.  Every state allows a call, so deadlock is checked.  No
\* symmetry: FifoSpec is a temporal property.
SPECIFICATION Spec
CONSTANTS
    Lists = {l1, l2}
    Callbacks = {c1, c2}
    Wrappers = {w1, w2, w3}
    NULL = NULL
INVARIANTS
    NoDangling
    AttachCounts
    ListsLinked
PROPERTIES
    FifoSpec
