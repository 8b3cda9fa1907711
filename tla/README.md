# crazy-snail: TLA+ models, checks and proofs

crazy-snail is a Redis client for Luvit, written in C as a Lua module: one Lua
object (`client_context_t`) drives **two** Redis connections, one for commands
and one for subscriptions, from the callbacks of a libuv loop.  This directory
models its core, checks the models with TLC on small instances and proves the
properties that matter most with TLAPS for all of them.

All paths below are relative to `src/` (the repository): `src/crazysnail.c` is
`src/src/crazysnail.c` of PROJECT.json.

## 1. Inventory

### Components, their state and their operations

| Component | Source | State | Operations |
|---|---|---|---|
| Client context and connections | `src/crazysnail.c`, `.h` | `flags`, `stream_flags`, `stream`, `sub_stream`, `reader`, `command_cb_list`, three listener references | Lua: `on`, `connect`, `command`, `subscribe`, `disconnect`, `exit`; libuv: `on_connect`, `on_write`, `on_read`, `on_disconnect` |
| Callback lists | `src/cb.c` | `callback_ends_t` (head, tail), wrappers (`cb`, `next`), `callback_t.attach` | `create_callback`, `wrap_cb`, `push_cb`, `shift_cb`, `destroy_wrapper`, `destroy_list` |
| Name trees | `src/cb.c` | binary trees `channels` and `patterns`, keyed by `strncmp` | `insert`, `search`, `destroy_tree` |
| Subscriptions and timers | `src/crazysnail.c`, `src/cb.c` | the trees, `timers`, the `callback_t` of each `subscribe()` with its channels and flags, the `uv_timer_t` handles | `subscribe`, the (un)subscribe branches of `command`, `get_and_call_sub_cb`, `on_timer`, `insert_timer`, `search_timer` |
| Reply parser | `src/hiredis-light.c` | `buf`, `pos`, `rstack[9]`, `ridx`, `reply`, `err` | `redisReaderFeed`, `redisReaderGetReply`, `processItem` and below |
| Command formatting | `src/hiredis-light.c` | none | `redisFormatCommandArgv`, `intlen`, `bulklen` |
| Dynamic strings | `src/sds.c`, `.h` | one heap block: `len`, `free`, the bytes and a 0 | `sdsnewlen`, `sdsMakeRoomFor`, `sdscatlen`, `sdsrange`, `sdstrim`, ...; `sdssplitlen`, `sdscatrepr`, `sdssplitargs` |
| Free lists | `src/crazysnail.c` | `buf_freelist`, `req_freelist` | `buf_alloc`, `buf_free`, `req_alloc`, `req_free` |
| Conversion to Lua | `src/crazysnail.c` | none | `push_reply`, `push_sub_reply` |
| Lua module, build, tests | `init.lua`, `Makefile`, `tests/` | none | registration, packaging |

### How they interact

The application calls the Lua API.  `command()` files its callback (the command
list, or for subscribe the list of every node of the names and intervals asked
for), formats the request and gives it to `uv_write`.  `on_write` starts
reading.  `on_read` feeds the one `cc->reader`, whichever connection the chunk
is from, and takes replies from it: a reply of the command connection goes to
the callback at the *head* of the command list; a reply of the other one is
searched in the trees.  Lua callbacks run inside these handlers and may call
the API again.  `disconnect()` closes both handles; `on_disconnect` runs once
for each and, after the second, destroys the trees and the command list.

There is one thread.  What interleaves are the application's calls, the
callbacks of the loop (for either connection, in the order libuv finds work),
the server and, inside `on_read` and the walks over callback lists, the Lua code
of the callbacks.

### What is hard about it, and what makes it correct

- Replies carry no identifier: the command list must stay aligned with what is
  still to come on the connection (`Aligned`, `OwnReply`, `InOrder`,
  `AtMostOnce`).
- `stream_flags` counts connections by order and not by identity; `connect()`
  relies on `on_disconnect` for its reset (`ConnectedMeansOpen`, `EventOnce`,
  `CleanSlate`, `NoLeak`).
- Reading is stopped when nothing waits: no wake-up may be lost (`ReadArmed`,
  `Answered`).
- Handles, callbacks and wrappers are freed from several places (`NoFault`,
  `NoDangling`, `AttachCounts`, `ListsLinked`).
- A chunk may end anywhere in a reply, and two connections feed one parser
  (`Faithful`, `ReadsAll`, `RepliesWhole`, `StackOK`); the size of an array is a
  `long`, an `int` and a `size_t` on its way.
- A tree must find what was filed in it, or an assertion aborts the process
  (`SearchFinds`, `NoAbort`).
- Confirmations carry only a name; timers are started by a confirmation and
  stopped through a node of a tree (`ReadyWhenConfirmed`, `Delivered`,
  `TimersOwned`, `TakesEffect`); the flag they set is read before it was ever
  written.
- Requests and read buffers go back to their free lists from several callbacks
  and error paths (`RequestsLent`, `BuffersBounded`).
- A string's header, its terminator and its memory block are kept in step by
  every function on its own (`HeaderOK`, `BytesSpec`); lengths are computed
  before the bytes are written, by other code (`FormatExact`, `SplitJoins`).

PROJECT.json lists every hazard with its line.

## 2. Modules

| Module | Models | Remarks |
|---|---|---|
| `Client` | the context, both connections, the command list, events | one action per API call and per handler; `on_read` is split where Lua code runs |
| `ClientProofs` | proofs about `Client`, for every application and server | |
| `ClientSessionProofs` | proofs about the sessions of an orderly application | cites `ClientProofs` |
| `CallbackFifo` | abstract: queues of callbacks with shared ownership | |
| `CallbackList` | the lists of `cb.c` with their pointers | refines `CallbackFifo` |
| `CallbackListProofs` | proofs about `CallbackList` | |
| `Memory` | the free lists of requests and read buffers | composed with `Client`: each of its actions is one of `Client`'s with what the handler takes and returns |
| `MemoryProofs` | proofs about `Memory` | cites `ClientProofs` |
| `StringTree` | `insert`, `search`, `strncmp` as operators | used by `Subscriptions` |
| `RedisReader`, `MCRedisReader` | the parser and the part of `on_read` that drives it | `MCRedisReader` has the reference encoding of the protocol |
| `RedisReaderProofs` | proofs about `RedisReader` and `CommandFormat` | |
| `CommandFormat` | `redisFormatCommandArgv` as operators | used by `MCRedisReader`, where the parser reads a formatted command |
| `ByteString` | abstract: a string is a sequence of bytes, each call changes it as its comment says | |
| `Sds`, `MCSds` | `sds.c` on memory blocks, one action per call | refines `ByteString` |
| `SdsProofs` | proofs about `Sds`, with the refinement | |
| `SdsText` | splitting, joining, quoting, reading of argument lists, as (recursive) operators | checked in `MCSds` |
| `Subscriptions`, `MCSubscriptions` | subscriptions, timers, sessions | uses `StringTree` |
| `SubscriptionsProofs` | proofs about `StringTree` and `Subscriptions` | |
| `NaturalFacts` | first and last position of a scan, induction on numbers, existence of a function defined by recursion | cited by `RedisReaderProofs`, `SdsProofs`, `SubscriptionsProofs` |

**Client.**  A handle is named by the `connect()` call that allocated it and its
role, so a model can tell the handles of two generations apart where the code
cannot.  `status` is the life of the `uv_stream_t`: connecting, open, failed,
closing, freed, and *exited* for the handles `exit()` frees before libuv has
closed them.  A request travels through `queued` (given to `uv_write`),
`written` (its `on_write` is due) and becomes a reply on `wire`.
`command_cb_list` holds the calls in the order of the list; `StackCb` is the
entry that monitor mode makes of the `callback_t` in `on_read`'s own stack frame.
`outcome` and `events` record what the application was told.  Undefined behaviour
(use after free, a second `uv_close`, an unset `data` pointer, an uninitialized
`callback_t`) and failed assertions set `fault`, which ends the behaviour.
Subscriptions are only a set of calls here, and the reader is a loop over whole
replies; `Subscriptions` and `RedisReader` have the detail.

`Failures` says what the environment may do (refuse a connection, close one) and
`AppMoves` what the application may do beyond an *orderly* session.  An orderly
application waits for `connect` before it sends anything, calls `connect()` again
only after `disconnect`, and makes no call after an `error` event.

**CallbackList.**  `head`, `tail`, `next`, `cb`, `attach` are the fields of the
structs, `used` and `live` the allocated wrappers and callbacks.  `order` is a
history variable: the wrappers of a list, oldest first.  `destroy_list` is a loop
of one step per wrapper.

**Memory.**  A free list is its length (`free`) and how many blocks were ever
allocated for it (`total`): what is lent out is the difference, to be compared
with what libuv holds in `Client`'s state (the pending connects and `Writes`, the
queued and finished writes).  `ErrorPath` is the condition under which `command()` returns a request
itself; `Unread` is the path of a read error or an empty read, which returns the
buffer only while the client disconnects.  `overlap` remembers that `connect()`
was called before the last pair was released.

**StringTree.**  A node is named by the turns (left, right) that lead to
it.  `insert` and `search` compare over the length of the *searched* key, as
`strncmp(key, leaf->key, strlen(key))` does.

**RedisReader.**  Bytes are the few that the parser tells apart.  A reply is a
function from paths to objects, which is how the reader builds it.  One step is
one `processItem`.  `Reconnect` is `disconnect()` and `connect()`: the bytes on the
way are gone, the reader is kept as it is, and of what was `sent` only what a
callback `Received` is remembered.  `Depth` and `Discard` stand for the constants 8
(last index of `rstack[9]`) and 1024 of the code, `IntHalf` and `LongHalf` for half the
values of an `int` and of a `long`.

Numbers keep their widths.  `readLongLong` stops at the first CR, which need not be
the CR LF where the line ends, and what it returns wraps as a `long` does.  The size of an
array is compared with -1 and with 0 as a `long` (459, 483), and `Signed` is what is left
of it in the `int` that `createArrayObject` is given (128) and that the task counts with
(484); in the `size_t` of `r->elements` (143) a negative `int` becomes a large number
(`ArrayOf`).  The element vector is allocated for a positive `int` only (`HasVector`), so an
element may find no vector to be stored in: `StoresThroughNull`, which ends the behaviour
with `pc = "fault"`.  In an object `elements` is `r->elements`, and `num` the size the server
announced.  `Whole` says of a reply that every array has as many elements as
`elements` says and as the server announced.  It excepts arrays of a negative size, which
`ElementsThere` does not: section 5.

**Subscriptions.**  The walk over a callback list is one step per callback, since
a callback may subscribe; confirmations and ticks, the session's end and the next
`connect()` are actions.  The subscription connection is an ordered channel.
`on_read` asks once per chunk whether the client disconnects: `chunk` is the number of
replies of the chunk that are still to be handled, and until it is 0 no other handler runs.
`fresh` remembers that `malloc` left `CALLBACK_INITIALIZED` in the flags of a new callback
(`FreshFlags`), which `create_callback` does not write.  `acks` has the names the server has
confirmed, each with the call that asked for it: a reference that is kept by the order of
asking (`NextConfirmed`) and not by what the client marks.
A `uv_timer_t` is named by the channel it was started for, the pair of the
`subscribe()` call and the position in `callback_t.channels`: each channel starts at
most one, and its interval is the channel's `ikey`.  The node of an interval keeps the
`handle` of the last timer started for it (`Latest`).  `RequestsAssumption` gives the
arguments their type and leaves out the interval 0, whose timer libuv fires once
instead of again and again.

**Sds.**  A block is a function from offsets to bytes; what lies behind the
terminator is forgotten after every call, so a function that reads it finds
`Garbage`.  A write outside the block is not stored, and the header then claims
more than the block has, which `HeaderOK` reports.  `sdsRemoveFreeSpace` does not look at
what `realloc` returns: when it fails the call is `fault`, after which nothing happens.
`sdstrim` looks for a byte with `strchr`, which stops at the first 0 of the set but always
finds that 0 (`Found`).  `MaxPrealloc` and
`PrintBuffer` stand for `SDS_MAX_PREALLOC` (1 MiB) and the 16 bytes
`sdscatvprintf` starts with; `BufferSizes` are the sizes its loop tries.  `Bytes` has
with a letter also the letter of the other case, as the 256 bytes of the code do
(`sdstolower`, `sdstoupper`).  `op` is the last call with its arguments, for the
refinement: `ByteString` says what each call makes of the value.

**SdsText, CommandFormat.**  Pure functions.  `SplitFrom` and `Scan` are the loops
of `sdssplitlen` and `sdssplitargs`; `overrun` records a token stored behind the
end of the token array.  `totlen` is the length computed before the memory of a
command is allocated; `Decimal`, `sprintf`'s digits, is independent of `intlen`.
Numbers have at most the ten digits of an `int` (`Powers`).

## 3. Runs

| Run | Module, config | Expect | Question |
|---|---|---|---|
| `orderly` | `Client`, `Client_orderly.cfg` | pass | Is an orderly session, with reconnect, correct and live? |
| `failures` | `Client`, `Client_failures.cfg` | pass | Does the client survive refused and closed connections if the application stops there? |
| `adverse` | `Memory`, `Memory.cfg` | pass | What holds whatever application and server do? Are requests and buffers returned? |
| `early_connect` | `Client`, `Client_early_connect.cfg` | violation | Is `connect()` safe right after `disconnect()`? |
| `lists` | `CallbackList`, `CallbackList.cfg` | pass | Are the pointers sound, do the lists implement queues? |
| `reader` | `MCRedisReader`, `MCRedisReader.cfg` | pass | Does the parser return what was sent, for every cut? Does a command fit its memory? |
| `reader_shared` | `MCRedisReader`, `MCRedisReader_shared.cfg` | violation | Can two connections share one reader? |
| `names` | `MCSubscriptions`, `MCSubscriptions_names.cfg` | pass | Do confirmations and messages reach the right callbacks? Does `search` find what `insert` filed? |
| `timers` | `MCSubscriptions`, `MCSubscriptions_timers.cfg` | pass | Do timers start, tick and stop over two sessions? |
| `strings` | `MCSds`, `MCSds.cfg` | pass | Does every sequence of `sds` calls keep the string and its memory right? |
| `prefix` | `MCSubscriptions`, `MCSubscriptions_prefix.cfg` | violation | May one name be a prefix of another? |
| `lost_timer` | `MCSubscriptions`, `MCSubscriptions_lost_timer.cfg` | violation | May two subscriptions use the same interval? |

What they show:

- `orderly`: with both connections opening, closing and answering in every order,
  replies reach the callbacks of their commands, `connect` is reported only when
  both connections are open, the events come once, nothing is leaked, and a
  second `connect()` finds a clean context.  Under fairness `disconnect()`
  completes and every accepted command is answered unless the application
  disconnects first.
- `failures`: under fairness `connect()` ends in an event, whether the connections
  open or not; reading is on whenever a reply is awaited; no handle is closed
  twice or used after it is freed.  Commands are plain ones: a subscription that is cut
  off by the server is one of the departures below.
- `adverse`: what remains true for *every* application (but one that calls
  `connect()` right after `disconnect()`), up to the first memory error: a
  callback is called at most once and callbacks wait in the order of their calls,
  the two facts `ClientProofs` proves in general, `connect()` at any time
  included.  Beneath them, the requests that are off the free list are exactly
  those libuv has, so none is used twice and none is lost, through refused
  connects, failed writes, closed handles and the error paths of `command()`; and
  one read buffer serves all reads, but for the one lost with each connection
  closed by the server and with each empty read.
- `lists`: every sequence of operations on the lists.
- `reader`: replies of every type, nested, empty, nil, with CR and LF inside a
  string, with a lone CR in a line, too deeply nested, no reply at all, and arrays of a
  size that is negative or that no `int` holds; chunks cut anywhere;
  allocations that fail; two connections, provided that no reply is cut by a
  chunk of the other connection (`Mixes = FALSE`).  The same across `connect()`,
  which keeps the reader: with no reply cut off by the end of a connection, the
  reader left behind is fit for the next one; in error it stays so.  One of the
  replies is a command as `redisFormatCommandArgv` writes it, with an empty
  argument and one of ten bytes: parser and formatter agree on the protocol.
  `RepliesWhole` holds also where `Faithful` may not: for garbage and for
  replies mixed by the shared reader.  `ReadsAll` says where the parser stops: at the
  first reply that it does not support, with a protocol error, or by storing through
  NULL when the size of an array is too large for an `int`.  `FormatExact` is the assertion of `redisFormatCommandArgv`, for up to 100
  arguments and lengths on both sides of 10 and 100.
- `names`, `timers`: callbacks that subscribe or disconnect while a message is delivered
  or before the rest of a chunk, the same name asked for several times, unsubscribes in
  between, flags of either value when a callback is created.  What flags left set do to
  a callback, and to a later one with a name in common, is excepted by name (`Clear`); a
  confirmed callback is given its events in any case.  `SearchFinds`
  covers the trees alone: every order of insertion of up to four of six names,
  some of them prefixes of others.
- `strings`: all sequences of calls, with growth on either side of the
  preallocation limit, failed allocations, positions before, inside and behind the
  string.  `BytesSpec` is the refinement.  On every string reached, `SplitJoins`
  splits it (and three letters) at every separator of one or two bytes and joins
  it again, and `ReprReads` quotes it and reads it back.

Deadlock is checked in `lists`, where some operation is always possible.  The
other systems may stop: a session is over, all the calls the bounds allow were made,
or the program stored through NULL.

### Bounds

Every bound is a constant of its module.  Client: 2 connects (one reconnect),
2 or 3 calls, at most 1 message; three calls are a waiting command, one being
answered and one on the other connection, and an error of order between
generations needs two of them.  CallbackList: 2 lists, 2 callbacks, 3 wrappers:
a callback in two lists and twice in one.  Memory: 2 connects, 2 calls, 1 empty
read, so that a request is reused and a buffer is lost in each way once.  Trees:
6 names of up to three letters.  Sds: strings of up to 3 bytes over 4 values, a
preallocation limit of 3 and a first print buffer of 2, so that both growth rules
and the doubling of the buffer happen.  RedisReader: 2 replies in all, `Depth` 2 and `Discard` 7, so that the
stack is filled and overrun, several arrays end together and the buffer is
compacted in the middle of a reply; `IntHalf` 8 and `LongHalf` 32, an `int` of four bits and
a `long` of six, so that the size 16 is a `long` of which an `int` keeps 0.  Subscriptions: up to
3 subscriptions, 2 sessions and 2 events in `timers`, with one variant of names; 2 subscriptions,
an unsubscription and an event in `names`, with two.  `FreshFlags` is both values of the bit that
`malloc` may leave, but in `prefix` and `lost_timer`, whose violations must not come from
it.  `SharesTimers = FALSE` says that an interval is asked for once; see section 5 for what
happens otherwise.

### Fairness

Weak fairness of each handler of the loop on each handle (libuv serves every
handle that has work), of the remaining steps of a handler that has started (it
runs to its end on the one thread), of the server answering what it was sent,
and of the script registering its listeners before it returns to the loop.
`FairSpec` is about programs that do not call `exit()` (`SessionNext`), which
always ends in a fault; `Spec`, of the proofs, and `adverse` include it.
Nothing is assumed of the application's calls.  Weak fairness is enough because
each of these steps stays enabled until it is taken.  In `Subscriptions` the same
for the walk, the read and the server; ticks and messages owe nothing.

## 4. Proofs

Checked by TLAPS, for every value of the constants that satisfies the named
assumptions of the modules (`BoundsAssumption`, `ChoicesAssumption`,
`NullAssumption`, `EmptyReadsAssumption`, `ReaderAssumption`, `EncodeAssumption`,
`SdsAssumption`, `SubscriptionsAssumption`, `RequestsAssumption`: the types of the
parameters, no more, but for the interval 0), and the hypotheses in the table:

| Theorem | Statement | Hypotheses |
|---|---|---|
| `ClientProofs!TypeCorrect` | `Spec => []TypeOK` | |
| `ClientProofs!CalledAtMostOnce` | `Spec => []AtMostOnce` | |
| `ClientProofs!WaitInOrder` | `Spec => []InOrder` | |
| `ClientSessionProofs!SessionIsSafe` | `Spec => []NoFault` | `Orderly` |
| `ClientSessionProofs!SessionLeaksNoHandle` | `Spec => []NoLeak` | `Orderly` |
| `ClientSessionProofs!SessionReportsOnce` | `Spec => []EventOnce` | `Orderly` |
| `ClientSessionProofs!SessionKeepsReading` | `Spec => []ReadArmed` | `Orderly` |
| `ClientSessionProofs!SessionStartsClean` | `Spec => CleanSlate` | `Orderly` |
| `ClientSessionProofs!ConnectedIsOpen` | `Spec => []ConnectedMeansOpen` | `Orderly`, `ServerUp` |
| `ClientSessionProofs!RepliesReachTheirCallback` | `Spec => []OwnReply` | `Orderly`, `ServerUp` |
| `ClientSessionProofs!ListFollowsReplies` | `Spec => []Aligned` | `Orderly`, `ServerUp` |
| `MemoryProofs!MemoryIsClient` | `MemorySpec => Spec` | |
| `MemoryProofs!BuffersAreBounded` | `MemorySpec => []BuffersBounded` | |
| `MemoryProofs!RequestsAreLent` | `MemorySpec => []RequestsLent` | |
| `CallbackListProofs!ListsAreLinked` | `Spec => [](TypeOK /\ ListsLinked /\ NoSharing)` | |
| `CallbackListProofs!AttachIsExact` | `Spec => []AttachCounts` | |
| `CallbackListProofs!NothingDangles` | `Spec => []NoDangling` | |
| `CallbackListProofs!ListsImplementFifo` | `Spec => FifoSpec` | |
| `RedisReaderProofs!ReaderTypeCorrect` | `Spec => []TypeOK` | |
| `RedisReaderProofs!TaskStackIsSafe` | `Spec => []StackOK` | |
| `RedisReaderProofs!RepliesAreWhole` | `Spec => []RepliesWhole` | |
| `RedisReaderProofs!CommandsFit` | `Len(redisFormatCommandArgv(argv)) = totlen(argv)` | `argv` a sequence of sequences of bytes |
| `SdsProofs!HeadersFit` | `Spec => []HeaderOK` | |
| `SdsProofs!StringsKeepTheirBytes` | `Spec => BytesSpec` | |
| `SubscriptionsProofs!SearchFindsInserted` | after any insertions, `search` returns the leaf `insert` filed a key under; one of the key's own | the last part: `PrefixFree(K)`, for the set `K` the keys are of |
| `SubscriptionsProofs!SubscriptionsTypeCorrect` | `Spec => []TypeOK` | |
| `SubscriptionsProofs!SubscriptionsNeverAbort` | `Spec => []NoAbort` | `OwnIntervals` |
| `SubscriptionsProofs!SubscriptionsOwnTimers` | `Spec => []TimersOwned` | `OwnIntervals` |
| `SubscriptionsProofs!SubscriptionsReadyWhenConfirmed` | `Spec => []ReadyWhenConfirmed` | |
| `SubscriptionsProofs!SubscriptionsDelivered` | `Spec => []Delivered` | `OwnIntervals`, `DistinctNames`, `PrefixFree(Names)` |

*Client, every application.*  `AtMostOnce` is not inductive: `ShiftAndCall` calls
the head of the list, so one has to know that a waiting call has not been called
yet, that no call is in the list twice, and that a new call is not there already.
The inductive invariant adds to `TypeOK` the formula `Waits`: the calls in the list
are increasing, none is above `ncalls`, those waiting have an empty outcome, and
those not made have one too.  Three lemmas say what `Append`, `Tail` and emptying
the list do to `Waits`; every action that touches the list is one of the three.

*Client, orderly sessions.*  Without hypotheses the properties are false: section 5
lists the behaviours, and each hypothesis excludes some of them.

- `Orderly` is `AppMoves = {}` (the application waits for the events, keeps quiet
  after an error, does not call `exit()`), no `MONITOR`, and either `ServerUp` or
  `PlainOnly`.  These are the sessions the test script and `README.md` show.
- `ServerUp` is `Failures = {}`: no connection is refused or closed by the server.
  The configuration of `orderly` satisfies both.
- `PlainOnly` is for a server that may refuse and close: commands with one reply
  only, and a listener for `error` (without one the application cannot know that it
  should keep quiet).  The configuration of `failures` satisfies it.

The last three theorems need `ServerUp` because a failed write takes the head of
the list, and a refused connection leaves a half-open pair.

The inductive `SessionInv` says what a pair of connections is doing in each phase:
every handle not of the current pair was freed or never made (`Elsewhere`); a
connect request is pending exactly while its handle connects (`Requested`); before
the `connect` event the stream flags count the open handles and nothing was sent
(`Dialing`); from then to `disconnect()` both are open, or one was closed by the
server and the application was told (`Connected`, `Reliable`); what handler runs
on which handle (`HandlerOK`); the list has a callback for each reply that is to
come (`Enough`); each channel the server knows is one the client knows
(`SubsKnown`); which events were sent (`EventsOK`); and a waiting callback has a
read or an `on_write` to come (`ReadOK`).  No part is inductive alone: that no
handle is closed twice depends on the phase, the phase on the flags, and the flags
on both handles having been closed in either order.  `ReplyInv` adds `Matched`, the
position by position account of the command list: its entry at `i` is the `i`-th
call of what is in the read loop, on the wire and still queued (`Due`).

*Memory.*  `MemoryIsClient` is the refinement: every step of `Memory` is one of
`Client`, so the theorems about `Client` hold of it.  `BufferInv` counts the lost
buffers by the handles whose end of file was reported (`Lost`).  `RequestInv` needs
to know, without any hypothesis on the application, which phases a client with
`~overlap` and no fault can be in (`Control`): that `command()` returns a request by
itself only when libuv did not take it depends on `DISCONNECTING` and a working
connection excluding each other.

*CallbackList.*  The inductive invariant `IInv` joins the links (`ListsLinked`),
the absence of sharing (`NoSharing`), that the callback of an allocated wrapper
is allocated, and the count.  The links need `NoSharing` (pushing to one list
must leave the links of another alone), the count needs finiteness of the set of
wrappers, and `NoDangling` follows from all of them.  The refinement maps a list
to the callbacks of its wrappers in order; each operation is an operation of the
queue or a stutter.

*RedisReader.*  The three theorems are about any bytes on any number of
connections, whether replies are mixed or not and whatever `Encode` is.  The
inductive `ParseInv` relates the task stack to the reply under construction: each task
above the bottom is for an element of the array below it, and that array is in the
reply with the number of elements the task says (`Stacked`); an element of an
array is there, or it is the one some task is about or one behind it
(`Hangs`).  An array of a size that no `int` holds has a task above it that it may have no
room for; only the task on top can be one of these, since an object is never stored
below an array without a vector, and that is why `StoresThroughNull` is the only way
to a fault.  When `moveToNextTask` empties the stack nothing is left to come, which is
`RepliesWhole`.  That the number of a line is a number is an induction on its
digits.

*Sds.*  One lemma for each function of `sds.c` says what it returns for *any*
string in a block that fits (`Good`): a string that fits, with the bytes the comment
promises (`Chars`).  `Does` is their conjunction for the calls of the model, and
gives the inductive invariant and the refinement of `ByteString` at once.  Scans
from either end (`sdstrim`, `sdsupdatelen`) are `Min` and `Max` of sets of
positions; that the buffer of `sdscatvprintf` grows to the size of the text is an
induction on the number of doublings.

*Commands.*  `intlen` is the number of powers of ten a length reaches and
`Decimal` is as long as the least width that holds it; both are the same number
(`DigitsCounted`).  The loop that adds up `totlen` and the one that writes the bytes
are then compared argument by argument (`BulkLength`).

*Name trees.*  A walk is determined by its turns, so there is one place where the
walk for a key ends (`NodeOf` has at most one `p`), and `insert` and `search` turn
alike although they order their tests differently (`TurnsAgree`).  A node once made
stays where it is with its key, so a walk that ended at a node ends there for ever.
What is found under a node need not be the key's own: the node's key may have the
searched one as a prefix.  `PrefixFree` excludes it.

*Subscriptions, assertions and timers.*  `Owned` is the inductive invariant of
`NoAbort` and `TimersOwned`.  Beyond the types (`Typed`) it says: each name in a
subscribe request, in a confirmation, in a message or known to the server has a node
(`NamesFiled`); the lists hold callbacks of this session only (`ListsCurrent`); every
timer channel of this session has an interval of its own, whose node has a list of
that one callback (`IntervalsOwned`); a timer that runs is one of this session, its
channel is marked, and its node knows it (`RunningOwned`).  That a marked timer is
never started again, and that nothing of an earlier session runs, is what keeps the
one `handle` of a node enough.  `OwnIntervals` says that an interval is asked for once
in a session (`SharesTimers = FALSE`, and not twice in one call); the run `lost_timer` shows that
without it both properties fail.

*Subscriptions, confirmations.*  `ReadyWhenConfirmed` compares the flag of a callback
with the confirmations the server sent, in the order the names were asked for, while the
code matches each confirmation by name to the first callback of a list that waits for
it.  `InOrder` is the inductive invariant.  Its parts: the confirmed names are marked, and
only they are unless flags left set come between (`Confirming`, which also has that the
confirmed names were asked for before the others); each list is in the order of the calls
(`ListsSorted`) and has every callback that asked for a name that leads there
(`ListsComplete`); and the names without confirmation are, in order, those of the
confirmations on the wire followed by those of the requests (`UnderWay`, with the
matching as a witness).  So the confirmation that is read is for the first outstanding
name of all, and the walk over the list stops at just that callback, or, if that one was
created `INITIALIZED`, at one whose name `Undisturbed` excepts.  No condition is needed:
callbacks of different names may share a list, a request may list a name twice, and
`malloc` may leave either value in the flags.

*Subscriptions, delivery.*  `Delivering` joins both and adds that a list has each
callback once and only under a name it asked for (`ListsExact`), that a timer runs
only for a callback with names (`TimersNamed`), and the account of the walk:
while a list is walked, the callbacks the event is for are those of the list that are
`INITIALIZED` (`Picks`, but for flags left set), which a callback that subscribes in between
keeps (`Walking`), since a new callback goes to the end of the list and is not
`INITIALIZED` or not `Clear`; and each log has the event once if the callback was due and
the walk has come past it (`Counted`).  The hypotheses: a name
that is a prefix of another shares its list (run `prefix`); a name listed twice in one
call files the callback twice, so it is called twice (`prefix` with the request
`<<MCKey(A), MCKey(A)>>` violates `Delivered`); `OwnIntervals` is that above.  The instance of
`names` satisfies all of them; that of `timers` does too.

*NaturalFacts* has what the last parts share: `Min` and `Max` of sets of numbers;
induction in the form "a set with 0 and the successor of each element is `Nat`"
(`SetInduction`), which replaces the library's rule, whose operator parameter the
installed provers cannot instantiate; and that a function defined by recursion over
`1..L` exists (`RecursionExists`), from which the loops over the arguments of a call
(`ArgsOf`, `Filed`, `totlen`, `redisFormatCommandArgv`) get their equations.

Only model-checked:

- liveness (`ConnectReports`, `DisconnectCompletes`, `Answered`, `TakesEffect`), which the
  prover does not handle;
- `Faithful` and `ReadsAll`, which compare the parser with the reference encoding of
  `MCRedisReader`, a recursive operator;
- `SplitJoins` and `ReprReads`, about the recursive operators of `SdsText`.

`FormatExact` and `SearchFinds` are stated for the commands and names of the `MC`
modules; `CommandsFit` and `SearchFindsInserted` are the same for all of them.

## 5. Where the code departs from its documentation

Four departures are runs (the findings of PROJECT.json quote the lines):

1. `early_connect`: `README.md` says `connect` can be called safely after
   `disconnect`.  `connect()` does not reset `stream_flags`; called before the old
   pair is closed it reports a connection whose other half is not open.
2. `reader_shared`: one reader serves both connections and keeps the incomplete
   reply of either; a chunk of the other one is appended to it.
3. `prefix`: names are compared over the length of the one searched, so a name
   that is a prefix of an earlier one is given that one's callback list.
4. `lost_timer`: the second subscription to an interval starts a second timer and
   forgets the first, which outlives `disconnect()` and runs into an assertion
   after the next `connect()`.

The models reproduce others; each is reached by giving the constants of an
existing config other values, or by adding the named property to it.

| Change | Property that fails | Why (`src/crazysnail.c` unless said otherwise) |
|---|---|---|
| `failures` with `Failures = {"refuse"}` and `AppMoves = {"retry_connect"}` | `ConnectedMeansOpen` | the flag of a half-open pair stays set (555, 907) |
| `failures` with `AppMoves = {"act_on_error"}` | `NoFault` | `on_read` closes the handle after the listener, which may have closed it (390-393) |
| `failures` with `Kinds = {"plain", "subscribe"}` | `OwnReply` | a failed write takes the head of the command list, whichever request failed (498; the TODO at 516) |
| `orderly` with `AppMoves = {"early_disconnect"}` | `EventOnce` | both `on_disconnect` calls find the flags clear (973-980) |
| `orderly` with `AppMoves = {"offline_command"}` | `NoFault` | `REDIS_CONNECTED` stays set and `cc->stream` points to the freed handle (727) |
| `orderly` with `AppMoves = {"exit"}` and `Spec` | `NoFault` | `exit()` frees handles that libuv has still to close (955) |
| `orderly` with `Kinds = {"plain", "monitor"}` | `NoFault` | two monitor lines in one read; the callback is pushed again only after the loop (423-444) |
| `lost_timer` with `MaxSessions = 1` | `Delivered` | `insert_timer` returns `SNAIL_OK` for a known interval and the callback is not pushed (684) |
| `reader` as it is | `ElementsThere` | of the negative sizes of an array only -1 is a nil: for `*-2` the reply says it has 2^64-2 elements and has no element vector (`src/hiredis-light.c` 459, 135-143), which `push_reply` (317) would follow |
| `names` as it is | `OnlyConfirmed` | `create_callback` never writes `flags` (`src/cb.c` 106): a callback that `malloc` gives `INITIALIZED` takes no confirmation and is given messages before any of its names is confirmed; its own confirmation goes to the next callback that waits for the name |
| `timers` with the request `<<MCNumber(5)>>` | `TakesEffect` | timers start with the confirmation of a name (163-171) |

Of the memory: after a second `connect()` that overlaps with the first pair (after
a refused connection, say) a client can be connected and disconnecting at once;
`command()` then gives its request to `uv_write` and back to the free list, and
`on_write` returns it a second time (740; `RequestsLent` excludes `overlap`).
`stop_timer` puts a `uv_timer_t` the loop still knows on the list of requests
(1119), and the bytes of a command are freed while its write may still be queued
(731).  A chunk that ends inside a reply when the connection ends is continued
with the first bytes of the next connection (908; `reader` with `Mixes = TRUE` and
one handle shows it as a violation of `Faithful`).

Of the parser: an array of a size that no `int` holds is created with what an `int` keeps of
it, and its first element is read all the same.  Without a vector (`*4294967296`, or
`*2147483648`, of which a negative `int` is left) that element is stored through NULL, before
`moveToNextTask` and its assertion at 345 are reached; with one (`*4294967297`) the array is
handed out with the elements of the `int` and the rest of them are taken for replies of their own.
The first is `pc = "fault"` in `reader` (`MCLarge`), the second is excepted in `Whole`.

Of `sds.c`: `sdsRemoveFreeSpace` stores through the NULL of a failed `realloc` (159-160,
`FaultsInFit`), where all other functions return NULL; the comment of `sdssplitlen` promises NULL for an empty string and the
code returns an array of no tokens (458, 479); `sdstrim` also trims 0 bytes, which
`strchr` finds in every set (362), and no byte that stands behind a 0 in the set; `sdscmp` promises 1 and -1 and returns a
difference (435, 450).

Two more are visible in the definitions: `disconnect()` destroys callbacks whose
replies are still to come (`Destroyed`), where the comment of `REDIS_DISCONNECTING`
(`src/hiredis-light.h` 63-66) speaks of reading all replies first; and a string
that reads as a number is taken for an interval (`PrefixOf`, 796), where
`README.md` 163 says that a string is a key.

## 6. Not modelled

- Conversion of replies to Lua values (`push_reply`, `push_sub_reply`): a straight
  recursive copy without state; a definition of it would be its own
  specification.
- In the free lists: the timer handles, which share the list of requests with
  connects and writes, and several clients in one process.  The bytes of a
  command between `uv_write` and the socket.
- In `sds`: `sdscmp`, `sdsfromlonglong`, `sdsAllocSize` (no change of state),
  failed allocations inside `sdssplitlen` and `sdssplitargs`, strings longer than
  an `int`.
- In the parser: numbers beyond 64 bits (a number that overflows a `long long` is undefined; the
  model wraps it), lines and strings longer than an `int` counts (2 GB), `redisReaderFree`, the release of a large
  idle buffer (it leaves an empty buffer empty).  In subscriptions: failed writes
  (they are in `Client`), calls without a callback, the table form of the
  arguments, the fixed array of 100 timers, an interval of 0 (its timer fires once).  Failed allocations outside the
  parser and `sds`.
- In `Client`: the paths of `on_read` for a reader in error (398-407, 473-476), which tell the
  error listener and leave the connection open; `RedisReader` has what they leave of the
  reader.  What the Lua conversion does with the elements that an array lacks (`ElementsThere`).
- Debug output (`dump_tree`, `dump_list`, `stackDump`), Lua registration,
  packaging, tests.

## 7. Plan

Done: `Client`, `CallbackList`, the trees, `RedisReader`, `Subscriptions`, then
`Memory`, `CommandFormat`, `Sds` and `SdsText`, and the proofs of section 4: all
safety properties and refinements of `Client`, `Memory`, `CallbackList`, `Sds` and
`Subscriptions`, those of the parser that do not speak of the reference encoding, and
the general form of `SearchFinds` and `FormatExact`.

What could follow:

1. the encoding of a reply as a recursive function instead of an operator, and
   `Faithful` for one connection from the stack invariant `Stacked`;
2. the bytes of a queued write and the `uv_timer_t` blocks in `Memory`;
3. several clients that share the free lists.
