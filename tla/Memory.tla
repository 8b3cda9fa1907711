------------------------------- MODULE Memory -------------------------------
(***************************************************************************)
(* The free lists of src/src/crazysnail.c beneath the client: requests     *)
(* (uv_connect_t and uv_write_t, lent to libuv until their callback) and   *)
(* read buffers (taken by libuv's allocation callback, lent to on_read).   *)
(* A block that leaves its list is allocated once and goes back to the     *)
(* list, never to the system.  The module composes the lists with Client:  *)
(* each of its actions is one of Client's, with what the handler takes     *)
(* from and returns to the lists.                                          *)
(*                                                                         *)
(* A list is known by its length and by how many blocks were allocated     *)
(* for it: a block returned twice, or handed out while libuv still has it, *)
(* makes the two disagree with what is lent.                               *)
(***************************************************************************)
EXTENDS Client

CONSTANT MaxEmptyReads   \* how many times libuv reports an empty read

ASSUME EmptyReadsAssumption == MaxEmptyReads \in Nat

VARIABLES
    req_freelist,   \* requests: [free, total], on the list and allocated
    buf_freelist,   \* the same for read buffers
    nempty,         \* reads of nothing so far
    overlap         \* connect() was called before the last pair was released

memory == <<req_freelist, buf_freelist, nempty, overlap>>

MemoryInit ==
    /\ Init
    /\ req_freelist = [free |-> 0, total |-> 0]
    /\ buf_freelist = [free |-> 0, total |-> 0]
    /\ nempty = 0
    /\ overlap = FALSE

\* The head of the list, or a new block.
req_alloc(list) ==
    IF list.free > 0 THEN [list EXCEPT !.free = @ - 1] ELSE [list EXCEPT !.total = @ + 1]

req_free(list) == [list EXCEPT !.free = @ + 1]

\* The same on the other list.
buf_alloc(list) ==
    IF list.free > 0 THEN [list EXCEPT !.free = @ - 1] ELSE [list EXCEPT !.total = @ + 1]

buf_free(list) == [list EXCEPT !.free = @ + 1]

-----------------------------------------------------------------------------
(* The handlers that use the lists.                                        *)

MemConnect ==
    /\ lua_client_connect
    /\ req_freelist' = req_alloc(req_alloc(req_freelist))
    /\ overlap' = (overlap \/ \E h \in Handles : h[1] \in 1..gen /\ status[h] # "freed")
    /\ UNCHANGED <<buf_freelist, nempty>>

\* on_connect returns its request before it looks at the status.
MemConnected(h) ==
    /\ on_connect(h) \/ on_connect_error(h)
    /\ req_freelist' = req_free(req_freelist)
    /\ UNCHANGED <<buf_freelist, nempty, overlap>>

\* Mutation of ErrorPath: the request is returned whenever the client is
\* connected.
ErrorPath_always(h) == TRUE

\* command() on a connected client ends in its error path, which returns the
\* request whatever uv_write did with it.
ErrorPath(h) ==
    flags \cap {"DISCONNECTING", "FREEING"} # {} \/ status[h] = "closing"

\* A connected client takes a request for the write.
MemCommand(kind) ==
    /\ lua_client_command(kind)
    /\ req_freelist' =
         IF "CONNECTED" \notin flags
           THEN req_freelist
           ELSE IF ErrorPath(TargetOf(kind))
             THEN req_free(req_alloc(req_freelist))
             ELSE req_alloc(req_freelist)
    /\ UNCHANGED <<buf_freelist, nempty, overlap>>

\* on_write returns its request first, too.
MemWritten(h) ==
    /\ on_write(h) \/ on_write_error(h)
    /\ req_freelist' = req_free(req_freelist)
    /\ UNCHANGED <<buf_freelist, nempty, overlap>>

\* Mutation of ReadBuffer: the buffer is returned only while the client
\* disconnects.
ReadBuffer_keeps(list) ==
    IF "DISCONNECTING" \in flags THEN buf_free(buf_alloc(list)) ELSE buf_alloc(list)

\* A read that brought bytes: the buffer is returned before Lua is called, or at
\* once while the client disconnects.
ReadBuffer(list) == buf_free(buf_alloc(list))

MemRead(h, n) ==
    /\ on_read(h, n)
    /\ buf_freelist' = ReadBuffer(buf_freelist)
    /\ UNCHANGED <<req_freelist, nempty, overlap>>

\* The buffer of a read that brought nothing: only a client that disconnects
\* returns it.
Unread(list) == IF "DISCONNECTING" \in flags THEN buf_free(buf_alloc(list)) ELSE buf_alloc(list)

MemReadEmpty(h) ==
    /\ on_read_empty(h)
    /\ nempty < MaxEmptyReads
    /\ buf_freelist' = Unread(buf_freelist)
    /\ nempty' = nempty + 1
    /\ UNCHANGED <<req_freelist, overlap>>

MemReadError(h) ==
    /\ on_read_error(h)
    /\ buf_freelist' = Unread(buf_freelist)
    /\ UNCHANGED <<req_freelist, nempty, overlap>>

\* The others leave the lists alone.
MemOther ==
    /\ \/ \E e \in Listeners : lua_client_on(e)
       \/ lua_client_disconnect
       \/ lua_client_exit
       \/ \E h \in Handles : on_disconnect(h) \/ LoopFinishesExit(h)
       \/ on_read_reply \/ on_read_done \/ on_read_error_close
       \/ Environment
    /\ UNCHANGED memory

MemoryNext ==
    \/ MemConnect
    \/ \E kind \in Kinds : MemCommand(kind)
    \/ \E h \in Handles :
         \/ MemConnected(h)
         \/ MemWritten(h)
         \/ \E n \in 1..Len(wire[h]) : MemRead(h, n)
         \/ MemReadEmpty(h)
         \/ MemReadError(h)
    \/ MemOther

MemorySpec == MemoryInit /\ [][MemoryNext]_<<vars, memory>>

-----------------------------------------------------------------------------
(* Properties.                                                             *)

\* The write requests libuv has, numbered on each handle.
Writes ==
    UNION {{h} \X (1..(Len(queued[h]) + Len(written[h]))) : h \in Handles}

\* The requests that are not on the free list are those libuv still has, so
\* none is handed out while it is in use and none is lost: as long as
\* connect() is only called once on_disconnect has released the last pair.
RequestsLent ==
    fault = "none" /\ ~overlap =>
        req_freelist.total - req_freelist.free =
            Cardinality(connreq) + Cardinality(Writes)

\* Read buffers do not grow with the replies read: there is one for all
\* reads, one lost with each connection the server closes (on_read returns no
\* buffer when nread is negative) and one with each empty read.
BuffersBounded == buf_freelist.total <= 1 + Cardinality(eof) + nempty
=============================================================================
