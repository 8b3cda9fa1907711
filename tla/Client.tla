------------------------------- MODULE Client -------------------------------
(***************************************************************************)
(* The client context of crazy-snail (src/src/crazysnail.c): one Lua       *)
(* object that drives two Redis connections, cc->stream for commands and   *)
(* cc->sub_stream for subscriptions, from the callbacks of a libuv loop.   *)
(*                                                                         *)
(* Everything runs on one thread.  What interleaves is the application     *)
(* (the Lua API calls), the loop (on_connect, on_write, on_read,           *)
(* on_disconnect of either connection, in the order libuv finds work) and  *)
(* the server.  A Lua callback started from the reply loop of on_read may  *)
(* call the API before the loop looks at the next reply, so on_read is a   *)
(* sequence of steps; every other handler calls Lua last and is one step.  *)
(*                                                                         *)
(* Undefined behaviour and failed assertions are recorded in fault, which  *)
(* ends the behaviour.                                                     *)
(***************************************************************************)
EXTENDS Integers, Sequences, FiniteSets

CONSTANTS
    MaxConnects,  \* how many times connect() is called
    MaxCalls,     \* how many times command() or subscribe() is called
    MaxMessages,  \* how many messages the server pushes
    Kinds,        \* the kinds of command the application sends
    Listeners,    \* the events the application listens to
    Failures,     \* what the environment may do: "refuse", "eof"
    AppMoves      \* what the application may do beyond an orderly session

AllKinds == {"plain", "subscribe", "unsubscribe", "monitor"}
EventNames == {"connect", "error", "disconnect"}
AllMoves == {"early_connect", "retry_connect", "early_disconnect",
             "offline_command", "act_on_error", "exit"}

ASSUME BoundsAssumption ==
    MaxConnects \in Nat /\ MaxCalls \in Nat /\ MaxMessages \in Nat

ASSUME ChoicesAssumption ==
    /\ Kinds \subseteq AllKinds
    /\ Listeners \subseteq EventNames
    /\ Failures \subseteq {"refuse", "eof"}
    /\ AppMoves \subseteq AllMoves

-----------------------------------------------------------------------------
(* A handle is named by the connect() call that allocated it and its role. *)
(* Handles of connect number 0 stand for the NULL pointers of a new        *)
(* client.                                                                 *)

Gens == 0..MaxConnects
Handles == Gens \X {"stream", "sub_stream"}
NoHandle == <<0, "stream">>

Calls == 1..MaxCalls
SubKinds == {"subscribe", "unsubscribe"}

\* What travels on a connection: a request on its way out, then its reply
\* (same kind, same call) or a pushed message ("message" for a subscription,
\* "feed" for a monitor) on its way in.
Items == [kind : AllKinds \cup {"message", "feed"}, call : Calls]

\* Entry of command_cb_list that points to the callback_t on the stack of
\* on_read (monitor mode); the other entries are calls.
StackCb == 0

\* What a callback is given: the reply to, or the failure of, a request.
Outcomes == [kind : {"reply", "error"}, of : Calls]

Statuses == {"none", "connecting", "open", "failed", "closing", "freed", "exited"}
FlagNames == {"CONNECTED", "DISCONNECTING", "FREEING", "MONITORING"}
StreamFlagNames == {"STREAM", "SUB_STREAM"}

Faults == {"none", "null_pointer", "use_after_free", "double_close",
           "unset_data", "assertion", "stale_callback", "dangling_callback"}

VARIABLES
    gen,              \* connect() calls so far: cc->stream, cc->sub_stream
    flags,            \* cc->flags
    stream_flags,     \* cc->stream_flags
    listeners,        \* which of r_connect_cb, r_error_cb, r_disconnect_cb are set
    command_cb_list,  \* calls whose callback waits for a reply
    channels,         \* subscribe calls whose callback is in a tree
    status,           \* the uv_stream_t behind each handle
    data,             \* handles whose data field points to the client
    reading,          \* handles libuv reads from
    connreq,          \* handles with a pending connect request
    queued,           \* write requests libuv has not written yet
    written,          \* write requests written, on_write still to come
    wire,             \* what the server sent and the client has not read
    subscribed,       \* server side: subscribe calls served on each handle
    eof,              \* handles the server has closed
    handler,          \* where on_read stands
    ncalls,           \* command() and subscribe() calls so far
    nmessages,        \* messages pushed so far
    outcome,          \* what each call's callback was given
    events,           \* events delivered during each connect generation
    fault             \* undefined behaviour reached

context == <<gen, flags, stream_flags, listeners, command_cb_list, channels>>
handles == <<status, data, reading, connreq, queued, written>>
server == <<wire, subscribed, eof, nmessages>>
history == <<ncalls, outcome, events, fault>>
vars == <<context, handles, server, handler, history>>

Stream == <<gen, "stream">>
SubStream == <<gen, "sub_stream">>

Idle == [at |-> "idle", h |-> NoHandle, sub |-> FALSE, chunk |-> <<>>]

Init ==
    /\ gen = 0
    /\ flags = {}
    /\ stream_flags = {}
    /\ listeners = {}
    /\ command_cb_list = <<>>
    /\ channels = {}
    /\ status = [h \in Handles |-> "none"]
    /\ data = {}
    /\ reading = {}
    /\ connreq = {}
    /\ queued = [h \in Handles |-> <<>>]
    /\ written = [h \in Handles |-> <<>>]
    /\ wire = [h \in Handles |-> <<>>]
    /\ subscribed = [h \in Handles |-> {}]
    /\ eof = {}
    /\ handler = Idle
    /\ ncalls = 0
    /\ nmessages = 0
    /\ outcome = [c \in Calls |-> <<>>]
    /\ events = [g \in Gens |-> [e \in EventNames |-> 0]]
    /\ fault = "none"

-----------------------------------------------------------------------------
(* Helpers shared by the handlers.                                         *)

\* The loop runs a callback when no handler is on the stack and the script
\* that created the client has returned, its listeners registered.
LoopTurn == fault = "none" /\ handler.at = "idle" /\ Listeners \subseteq listeners

\* Lua code runs between two turns of the loop or in a callback of on_read.
\* It makes no call after exit().
LuaRuns ==
    /\ fault = "none"
    /\ status[Stream] # "exited"
    /\ \/ handler.at \in {"idle", "callback"}
       \/ handler.at = "error" /\ "error" \in listeners

\* An orderly application is quiet once it was told of an error.
Quiet == events[gen]["error"] = 0 \/ "act_on_error" \in AppMoves

Fail(f) == fault' = f

\* Call the listener of an event, if the application set one.
Emit(e) ==
    events' = IF e \in listeners
                THEN [events EXCEPT ![gen][e] = @ + 1]
                ELSE events

\* Mutation of ShiftAndCall: the callback stays on the list.
ShiftAndCall_keeps(list, kind, of, ifEmpty) ==
    IF list = <<>> \/ Head(list) = StackCb
      THEN Fail(ifEmpty) /\ command_cb_list' = list /\ UNCHANGED outcome
      ELSE /\ Fail("none")
           /\ command_cb_list' = list
           /\ outcome' = [outcome EXCEPT
                ![Head(list)] = Append(@, [kind |-> kind, of |-> of])]

\* shift_cb on the command list, and the call of the callback it removed with
\* what happened to the request "of".  An empty list leaves the callback_t of
\* the caller as it was; ifEmpty says what comes of that.
ShiftAndCall(list, kind, of, ifEmpty) ==
    IF list = <<>>
      THEN /\ Fail(ifEmpty)
           /\ command_cb_list' = list
           /\ UNCHANGED outcome
      ELSE LET c == Head(list) IN
           /\ command_cb_list' = Tail(list)
           /\ IF c = StackCb
                THEN Fail("dangling_callback") /\ UNCHANGED outcome
                ELSE /\ Fail("none")
                     /\ outcome' = [outcome EXCEPT
                          ![c] = Append(@, [kind |-> kind, of |-> of])]

\* What goes wrong when uv_close is called on a handle.
CloseFault(h) ==
    CASE status[h] = "none"            -> "null_pointer"
      [] status[h] \in {"freed", "exited"} -> "use_after_free"
      [] status[h] = "closing"         -> "double_close"
      [] OTHER                         -> "none"

\* Mutation of Destroyed: the list outlives the connection.
Destroyed_not == command_cb_list

\* destroy_list: the callbacks still registered are destroyed, not called.
Destroyed == <<>>

-----------------------------------------------------------------------------
(* The Lua API.                                                            *)

lua_client_on(e) ==
    /\ LuaRuns
    /\ e \in Listeners \ listeners
    /\ listeners' = listeners \cup {e}
    /\ UNCHANGED <<gen, flags, stream_flags, command_cb_list, channels,
                   handles, server, handler, history>>

\* When the application calls connect(): the first time, after the client
\* has released the last pair of connections, and, if so configured, right
\* after disconnect() or after an error event.
MayConnect ==
    \/ gen = 0
    \/ "FREEING" \in flags /\ Quiet
    \/ "early_connect" \in AppMoves /\ "DISCONNECTING" \in flags
    \/ "retry_connect" \in AppMoves /\ events[gen]["error"] > 0

lua_client_connect ==
    /\ LuaRuns
    /\ gen < MaxConnects
    /\ MayConnect
    /\ gen' = gen + 1
    /\ flags' = {}
    /\ LET new == {<<gen + 1, "stream">>, <<gen + 1, "sub_stream">>} IN
       /\ status' = [h \in Handles |->
                       IF h \in new THEN "connecting" ELSE status[h]]
       /\ connreq' = connreq \cup new
    /\ UNCHANGED <<stream_flags, listeners, command_cb_list, channels, data,
                   reading, queued, written, server, handler, history>>

\* When the application calls command(): while it has seen "connect" and not
\* called disconnect(), or at any time if so configured.
MayCommand ==
    /\ Quiet
    /\ \/ "CONNECTED" \in flags /\ "DISCONNECTING" \notin flags
       \/ "offline_command" \in AppMoves

\* The connection a request goes to.
TargetOf(kind) == IF kind \in SubKinds THEN SubStream ELSE Stream

\* Mutations of Register: newest first; off by one; unsubscribe registered too.
Register_front(kind, call) ==
    IF kind \in SubKinds THEN command_cb_list ELSE <<call>> \o command_cb_list
Register_next(kind, call) == Append(command_cb_list, call + 1)
Register_all(kind, call) ==
    IF kind = "subscribe" THEN command_cb_list ELSE Append(command_cb_list, call)

\* The command list once the callback of a call is registered: subscribe
\* callbacks go to a tree, unsubscribe has no reply of its own.
Register(kind, call) ==
    IF kind \in SubKinds THEN command_cb_list ELSE Append(command_cb_list, call)

\* command(), and subscribe() which ends in it.  The callback is registered
\* (a tree for subscribe, nowhere for unsubscribe, the command list
\* otherwise), the request is written to the connection of its kind, and if
\* the client is not connected or the write is refused the error goes to the
\* callback at the head of the command list.
lua_client_command(kind) ==
    LET call == ncalls + 1
        item == [kind |-> kind, call |-> call]
        h    == TargetOf(kind)
        live == "CONNECTED" \in flags
        dead == live /\ status[h] \in {"none", "freed", "exited"}
        r    == IF live /\ status[h] = "closing" THEN "EBADF" ELSE "ok"
        fails == ~live \/ flags \cap {"DISCONNECTING", "FREEING"} # {} \/ r # "ok"
        list == Register(kind, call)
    IN
    /\ LuaRuns
    /\ ncalls < MaxCalls
    /\ MayCommand
    /\ ncalls' = call
    /\ channels' = IF kind = "subscribe" THEN channels \cup {call} ELSE channels
    /\ flags' = IF kind = "monitor" THEN flags \cup {"MONITORING"} ELSE flags
    /\ queued' = IF live /\ ~dead /\ r = "ok"
                   THEN [queued EXCEPT ![h] = Append(@, item)] ELSE queued
    /\ IF dead
         THEN /\ Fail("use_after_free")
              /\ command_cb_list' = list
              /\ UNCHANGED outcome
         ELSE IF fails
           THEN ShiftAndCall(list, "error", call, "none")
           ELSE command_cb_list' = list /\ UNCHANGED <<outcome, fault>>
    /\ UNCHANGED <<gen, stream_flags, listeners, status, data, reading,
                   connreq, written, server, handler, events>>

MayDisconnect ==
    /\ Quiet
    /\ \/ "CONNECTED" \in flags
       \/ "early_disconnect" \in AppMoves /\ gen > 0

\* Mutation of Disconnects: no guard against a second call.
Disconnects_again == TRUE

\* disconnect() goes ahead: a second call does nothing.
Disconnects == "DISCONNECTING" \notin flags

\* disconnect(): both handles are closed.
lua_client_disconnect ==
    /\ LuaRuns
    /\ MayDisconnect
    /\ Disconnects
    /\ LET f == IF CloseFault(Stream) # "none"
                  THEN CloseFault(Stream) ELSE CloseFault(SubStream)
           pair == {Stream, SubStream} IN
       /\ Fail(f)
       /\ status' = IF f = "none"
                      THEN [h \in Handles |->
                              IF h \in pair THEN "closing" ELSE status[h]]
                      ELSE status
       /\ data' = data \cup pair
       /\ reading' = reading \ pair
       /\ flags' = flags \cup {"DISCONNECTING"}
    /\ UNCHANGED <<gen, stream_flags, listeners, command_cb_list, channels,
                   connreq, queued, written, server, handler,
                   ncalls, outcome, events>>

\* exit(): both handles are closed without a callback and freed at once, and
\* so is the reader, whoever is using it.
lua_client_exit ==
    /\ LuaRuns
    /\ "exit" \in AppMoves
    /\ gen > 0
    /\ LET f == IF CloseFault(Stream) # "none"
                  THEN CloseFault(Stream) ELSE CloseFault(SubStream)
           pair == {Stream, SubStream} IN
       /\ Fail(CASE f # "none"              -> f
                 [] handler.at = "callback" -> "use_after_free"
                 [] OTHER                   -> "none")
       /\ status' = IF f = "none"
                      THEN [h \in Handles |->
                              IF h \in pair THEN "exited" ELSE status[h]]
                      ELSE status
       /\ reading' = reading \ pair
    /\ stream_flags' = {}
    /\ channels' = {}
    /\ command_cb_list' = Destroyed
    /\ UNCHANGED <<gen, flags, listeners, data, connreq, queued, written,
                   server, handler, ncalls, outcome, events>>

-----------------------------------------------------------------------------
(* The callbacks of the libuv loop.                                        *)

\* Mutations of StreamFlagUp: one connection counts for both; the second one
\* is not recorded.
StreamFlagUp_both == StreamFlagNames
StreamFlagUp_one == stream_flags \cup {"STREAM"}

\* The first connection to open sets STREAM_CONNECTED, the other one
\* SUB_STREAM_CONNECTED, whichever they are.
StreamFlagUp == IF "STREAM" \notin stream_flags
                  THEN stream_flags \cup {"STREAM"}
                  ELSE stream_flags \cup {"SUB_STREAM"}

\* The connect request of h completes.
on_connect(h) ==
    /\ LoopTurn
    /\ h \in connreq
    /\ status[h] = "connecting"
    /\ connreq' = connreq \ {h}
    /\ status' = [status EXCEPT ![h] = "open"]
    /\ stream_flags' = StreamFlagUp
    /\ IF stream_flags' = StreamFlagNames
         THEN flags' = flags \cup {"CONNECTED"} /\ Emit("connect")
         ELSE UNCHANGED <<flags, events>>
    /\ UNCHANGED <<gen, listeners, command_cb_list, channels, data, reading,
                   queued, written, server, handler, ncalls, outcome, fault>>

\* The connect request of h fails: refused, or cancelled by uv_close.  With
\* no error listener the client closes cc->stream, whichever handle failed.
on_connect_error(h) ==
    LET failed == IF status[h] = "connecting"
                    THEN [status EXCEPT ![h] = "failed"] ELSE status
    IN
    /\ LoopTurn
    /\ h \in connreq
    /\ \/ status[h] = "connecting" /\ "refuse" \in Failures
       \/ status[h] = "closing"
    /\ connreq' = connreq \ {h}
    /\ IF "error" \in listeners
         THEN /\ Emit("error")
              /\ status' = failed
              /\ UNCHANGED <<reading, fault>>
         ELSE /\ Fail(CloseFault(Stream))
              /\ status' = IF CloseFault(Stream) = "none"
                             THEN [failed EXCEPT ![Stream] = "closing"]
                             ELSE failed
              /\ reading' = reading \ {Stream}
              /\ UNCHANGED events
    /\ UNCHANGED <<gen, flags, stream_flags, listeners, command_cb_list,
                   channels, data, queued, written, server, handler,
                   ncalls, outcome>>

\* The oldest write request of h was written: start reading.  On a closing
\* handle uv_read_start is refused and the callback at the head of the
\* command list is told, whatever the request was.
on_write(h) ==
    /\ LoopTurn
    /\ written[h] # <<>>
    /\ status[h] \in {"open", "closing"}
    /\ written' = [written EXCEPT ![h] = Tail(@)]
    /\ data' = data \cup {h}
    /\ IF status[h] = "open"
         THEN /\ reading' = reading \cup {h}
              /\ UNCHANGED <<command_cb_list, outcome, fault>>
         ELSE /\ ShiftAndCall(command_cb_list, "error", Head(written[h]).call, "none")
              /\ UNCHANGED reading
    /\ UNCHANGED <<gen, flags, stream_flags, listeners, channels, status,
                   connreq, queued, server, handler, ncalls, events>>

\* The oldest write request of h fails: cancelled by uv_close, or the other
\* side is gone.
on_write_error(h) ==
    /\ LoopTurn
    /\ written[h] = <<>>
    /\ queued[h] # <<>>
    /\ h \notin connreq
    /\ status[h] \in {"closing", "failed"} \/ (status[h] = "open" /\ h \in eof)
    /\ queued' = [queued EXCEPT ![h] = Tail(@)]
    /\ data' = data \cup {h}
    /\ ShiftAndCall(command_cb_list, "error", Head(queued[h]).call, "none")
    /\ UNCHANGED <<gen, flags, stream_flags, listeners, channels, status,
                   reading, connreq, written, server, handler, ncalls, events>>

\* libuv has read n replies of h.  While the client disconnects they are
\* dropped; otherwise the reply loop starts.
on_read(h, n) ==
    /\ LoopTurn
    /\ status[h] = "open"
    /\ h \in reading
    /\ n \in 1..Len(wire[h])
    /\ wire' = [wire EXCEPT ![h] = SubSeq(@, n + 1, Len(@))]
    /\ handler' = IF "DISCONNECTING" \in flags
                    THEN Idle
                    ELSE [at |-> "loop", h |-> h, sub |-> h = SubStream,
                          chunk |-> SubSeq(wire[h], 1, n)]
    /\ UNCHANGED <<context, handles, subscribed, eof, nmessages, history>>

\* One turn of the reply loop.  On the subscription connection a reply goes
\* to the trees (an unsubscribe reply is ignored, a subscribe reply marks the
\* channel, a message calls the callbacks of its channel); on the other one
\* it goes to the callback at the head of the command list.
on_read_reply ==
    LET item == Head(handler.chunk) IN
    /\ fault = "none"
    /\ handler.at \in {"loop", "callback"}
    /\ handler.chunk # <<>>
    /\ IF handler.sub
         THEN /\ Fail(IF item.kind # "unsubscribe" /\ item.call \notin channels
                        THEN "assertion" ELSE "none")
              /\ UNCHANGED <<command_cb_list, outcome>>
         ELSE ShiftAndCall(command_cb_list, "reply", item.call, "stale_callback")
    /\ handler' = [handler EXCEPT !.chunk = Tail(@),
                     !.at = IF handler.sub /\ item.kind # "message"
                              THEN "loop" ELSE "callback"]
    /\ UNCHANGED <<gen, flags, stream_flags, listeners, channels, handles,
                   server, ncalls, events>>

\* Mutation of StopsReading: the replies still to come are forgotten.
StopsReading_early(list) == ~handler.sub

\* The command connection stops reading when nothing waits for a reply.
StopsReading(list) == ~handler.sub /\ list = <<>>

\* No reply is left.  A client that disconnects returns at once; a monitor
\* pushes the callback_t of its own stack frame.
on_read_done ==
    LET list == IF "MONITORING" \in flags
                  THEN Append(command_cb_list, StackCb) ELSE command_cb_list
    IN
    /\ fault = "none"
    /\ handler.at \in {"loop", "callback"}
    /\ handler.chunk = <<>>
    /\ handler' = Idle
    /\ IF "DISCONNECTING" \in flags
         THEN UNCHANGED <<command_cb_list, reading>>
         ELSE /\ command_cb_list' = list
              /\ reading' = IF StopsReading(list)
                              THEN reading \ {handler.h} ELSE reading
    /\ UNCHANGED <<gen, flags, stream_flags, listeners, channels, status,
                   data, connreq, queued, written, server, history>>

\* libuv found nothing to read on h (nread is 0).
on_read_empty(h) ==
    /\ LoopTurn
    /\ status[h] = "open"
    /\ h \in reading
    /\ wire[h] = <<>> /\ h \notin eof
    /\ reading' = IF /\ "DISCONNECTING" \notin flags
                    /\ h # SubStream
                    /\ command_cb_list = <<>>
                    THEN reading \ {h} ELSE reading
    /\ UNCHANGED <<context, status, data, connreq, queued, written, server,
                   handler, history>>

\* The server closed h and everything it sent was read: libuv stops reading
\* and the error listener is called ...
on_read_error(h) ==
    /\ LoopTurn
    /\ status[h] = "open"
    /\ h \in reading
    /\ h \in eof
    /\ wire[h] = <<>>
    /\ reading' = reading \ {h}
    /\ IF "DISCONNECTING" \in flags
         THEN UNCHANGED <<handler, events>>
         ELSE /\ Emit("error")
              /\ handler' = [at |-> "error", h |-> h, sub |-> h = SubStream,
                             chunk |-> <<>>]
    /\ UNCHANGED <<context, status, data, connreq, queued, written, server,
                   ncalls, outcome, fault>>

\* ... and when it returns this handle, not the other one, is closed.
on_read_error_close ==
    /\ fault = "none"
    /\ handler.at = "error"
    /\ Fail(CloseFault(handler.h))
    /\ status' = IF CloseFault(handler.h) = "none"
                   THEN [status EXCEPT ![handler.h] = "closing"] ELSE status
    /\ handler' = Idle
    /\ UNCHANGED <<context, data, reading, connreq, queued, written, server,
                   ncalls, outcome, events>>

\* Mutations of StreamFlagDown: both flags cleared at once; SUB_STREAM never.
StreamFlagDown_both == {}
StreamFlagDown_one == stream_flags \ {"STREAM"}

\* The first connection to close clears STREAM_CONNECTED, the other one
\* SUB_STREAM_CONNECTED.
StreamFlagDown == IF "STREAM" \in stream_flags
                    THEN stream_flags \ {"STREAM"} ELSE {}

\* h is closed, its requests having been cancelled.  With both flags clear
\* the client lets go of its callbacks.
on_disconnect(h) ==
    /\ LoopTurn
    /\ status[h] = "closing"
    /\ h \notin connreq
    /\ queued[h] = <<>> /\ written[h] = <<>>
    /\ status' = [status EXCEPT ![h] = "freed"]
    /\ IF h \notin data
         THEN /\ Fail("unset_data")
              /\ UNCHANGED <<stream_flags, flags, command_cb_list, channels, events>>
         ELSE /\ stream_flags' = StreamFlagDown
              /\ IF StreamFlagDown # {}
                   THEN UNCHANGED <<flags, command_cb_list, channels, events, fault>>
                   ELSE /\ flags' = flags \cup {"FREEING"}
                        /\ channels' = {}
                        /\ command_cb_list' = Destroyed
                        /\ Fail(IF \E i \in DOMAIN command_cb_list :
                                     command_cb_list[i] = StackCb
                                  THEN "dangling_callback" ELSE "none")
                        /\ Emit("disconnect")
    /\ UNCHANGED <<gen, listeners, data, reading, connreq, queued, written,
                   server, handler, ncalls, outcome>>

\* External: after exit() the loop still finishes the close of a handle whose
\* memory was returned.
LoopFinishesExit(h) ==
    /\ LoopTurn
    /\ status[h] = "exited"
    /\ Fail("use_after_free")
    /\ UNCHANGED <<context, handles, server, handler, ncalls, outcome, events>>

-----------------------------------------------------------------------------
(* External: libuv's writes and the Redis server.                          *)

\* libuv writes the oldest request of h and the server answers it.
Flush(h) ==
    LET item == Head(queued[h]) IN
    /\ fault = "none"
    /\ status[h] = "open"
    /\ h \notin eof
    /\ queued[h] # <<>>
    /\ queued' = [queued EXCEPT ![h] = Tail(@)]
    /\ written' = [written EXCEPT ![h] = Append(@, item)]
    /\ wire' = [wire EXCEPT ![h] = Append(@, item)]
    /\ subscribed' =
         CASE item.kind \in {"subscribe", "monitor"} ->
                [subscribed EXCEPT ![h] = @ \cup {item.call}]
           [] item.kind = "unsubscribe" -> [subscribed EXCEPT ![h] = {}]
           [] OTHER -> subscribed
    /\ UNCHANGED <<context, status, data, reading, connreq, eof, nmessages,
                   handler, history>>

\* The server pushes a message to a subscriber, or a line to a monitor.
Push(h, c) ==
    /\ fault = "none"
    /\ status[h] = "open"
    /\ h \notin eof
    /\ c \in subscribed[h]
    /\ nmessages < MaxMessages
    /\ nmessages' = nmessages + 1
    /\ wire' = [wire EXCEPT ![h] = Append(@,
         [kind |-> IF h[2] = "stream" THEN "feed" ELSE "message", call |-> c])]
    /\ UNCHANGED <<context, handles, subscribed, eof, handler, history>>

\* The server closes a connection, possibly before it answered everything.
ServerCloses(h, n) ==
    /\ fault = "none"
    /\ "eof" \in Failures
    /\ status[h] = "open"
    /\ h \notin eof
    /\ n \in 0..Len(wire[h])
    /\ eof' = eof \cup {h}
    /\ wire' = [wire EXCEPT ![h] = SubSeq(@, 1, n)]
    /\ UNCHANGED <<context, handles, subscribed, nmessages, handler, history>>

-----------------------------------------------------------------------------
SessionCalls ==
    \/ \E e \in Listeners : lua_client_on(e)
    \/ lua_client_connect
    \/ \E kind \in Kinds : lua_client_command(kind)
    \/ lua_client_disconnect

Application == SessionCalls \/ lua_client_exit

SessionLoop ==
    \/ \E h \in Handles :
         \/ on_connect(h)
         \/ on_connect_error(h)
         \/ on_write(h)
         \/ on_write_error(h)
         \/ \E n \in 1..Len(wire[h]) : on_read(h, n)
         \/ on_read_empty(h)
         \/ on_read_error(h)
         \/ on_disconnect(h)
    \/ on_read_reply
    \/ on_read_done
    \/ on_read_error_close

Loop == SessionLoop \/ \E h \in Handles : LoopFinishesExit(h)

Environment ==
    \E h \in Handles :
      \/ Flush(h)
      \/ \E c \in subscribed[h] : Push(h, c)
      \/ \E n \in 0..Len(wire[h]) : ServerCloses(h, n)

Next == Application \/ Loop \/ Environment

Spec == Init /\ [][Next]_vars

\* The sessions of a program that does not call exit().
SessionNext == SessionCalls \/ SessionLoop \/ Environment

\* The script that creates the client ends, its listeners registered; the
\* loop then keeps turning: libuv serves every handle that has work, a handler
\* that has started runs on, and a Redis server that is up answers what it is
\* sent.  The application owes nothing else.
Fairness ==
    /\ \A e \in Listeners : WF_vars(lua_client_on(e))
    /\ WF_vars(on_read_reply \/ on_read_done \/ on_read_error_close)
    /\ \A h \in Handles :
         /\ WF_vars(on_connect(h) \/ on_connect_error(h))
         /\ WF_vars(on_write(h) \/ on_write_error(h))
         /\ WF_vars(\E n \in 1..Len(wire[h]) : on_read(h, n))
         /\ WF_vars(on_read_error(h))
         /\ WF_vars(on_disconnect(h))
         /\ WF_vars(Flush(h))

FairSpec == Init /\ [][SessionNext]_vars /\ Fairness

-----------------------------------------------------------------------------
(* Properties.                                                             *)

\* Type invariant of the client context, the handles and the server.
TypeOK ==
    /\ gen \in Gens
    /\ flags \subseteq FlagNames
    /\ stream_flags \subseteq StreamFlagNames
    /\ listeners \subseteq Listeners
    /\ command_cb_list \in Seq(Calls \cup {StackCb})
    /\ channels \subseteq Calls
    /\ status \in [Handles -> Statuses]
    /\ data \subseteq Handles
    /\ reading \subseteq Handles
    /\ connreq \subseteq Handles
    /\ queued \in [Handles -> Seq(Items)]
    /\ written \in [Handles -> Seq(Items)]
    /\ wire \in [Handles -> Seq(Items)]
    /\ subscribed \in [Handles -> SUBSET Calls]
    /\ eof \subseteq Handles
    /\ handler \in [at : {"idle", "loop", "callback", "error"}, h : Handles,
                    sub : BOOLEAN, chunk : Seq(Items)]
    /\ ncalls \in 0..MaxCalls
    /\ nmessages \in 0..MaxMessages
    /\ outcome \in [Calls -> Seq(Outcomes)]
    /\ events \in [Gens -> [EventNames -> Nat]]
    /\ fault \in Faults

\* No handler of crazysnail.c touches freed or unset memory, closes a handle
\* twice or fails an assertion.
NoFault == fault = "none"

\* on_read gives a reply to the callback of the command it answers, never to
\* another command's callback.
OwnReply ==
    \A c \in Calls : \A i \in DOMAIN outcome[c] :
        outcome[c][i].kind = "reply" => outcome[c][i].of = c

\* A command's callback is called at most once, by whichever of on_read,
\* on_write and command() takes it off the list.
AtMostOnce == \A c \in Calls : Len(outcome[c]) <= 1

\* The callbacks wait in the order of their calls, whatever failed before.
InOrder ==
    \A i, j \in DOMAIN command_cb_list :
        i < j /\ command_cb_list[i] # StackCb /\ command_cb_list[j] # StackCb =>
            command_cb_list[i] < command_cb_list[j]

\* While the command connection is open, the callbacks that wait are exactly
\* those of the replies that are still to come, in their order: the ones of
\* the chunk in the reply loop, on the wire, and of requests not yet written.
Aligned ==
    LET CallsOf(s) == [i \in DOMAIN s |-> s[i].call]
        chunk == IF handler.h = Stream THEN handler.chunk ELSE <<>>
    IN  status[Stream] = "open" =>
          command_cb_list =
            CallsOf(chunk) \o CallsOf(wire[Stream]) \o CallsOf(queued[Stream])

\* Between the "connect" event and disconnect() both connections are open.
ConnectedMeansOpen ==
    "CONNECTED" \in flags /\ "DISCONNECTING" \notin flags =>
        status[Stream] = "open" /\ status[SubStream] = "open"

\* No lost wake-up: while a callback waits for a reply on an open connection,
\* the connection is being read or a pending on_write will start the read.
ReadArmed ==
    status[Stream] = "open" /\ command_cb_list # <<>> =>
        \/ Stream \in reading
        \/ queued[Stream] # <<>> \/ written[Stream] # <<>>
        \/ handler.h = Stream

\* connect() gives up its pointers to the previous pair of handles only once
\* on_disconnect has freed both: none is leaked.
NoLeak == \A h \in Handles : h[1] \in 1..(gen - 1) => status[h] = "freed"

\* connect() does not reset stream_flags, the trees or the command list: it
\* must find them as a new client has them.
CleanSlate ==
    [][gen' # gen =>
         stream_flags = {} /\ channels = {} /\ command_cb_list = <<>>]_vars

\* The application sees at most one "connect" and one "disconnect" event for
\* a connect() call.
EventOnce ==
    \A g \in Gens : events[g]["connect"] <= 1 /\ events[g]["disconnect"] <= 1

\* connect() ends in a "connect" or an "error" event.
ConnectReports ==
    \A g \in 1..MaxConnects :
        gen = g ~> events[g]["connect"] + events[g]["error"] > 0

\* disconnect() ends with both handles freed and the "disconnect" event.
DisconnectCompletes ==
    \A g \in 1..MaxConnects :
        gen = g /\ "DISCONNECTING" \in flags ~>
            /\ status[<<g, "stream">>] = "freed"
            /\ status[<<g, "sub_stream">>] = "freed"
            /\ "disconnect" \in Listeners => events[g]["disconnect"] = 1

\* A command that was accepted is answered, unless the client disconnects.
Answered ==
    \A c \in Calls :
        (\E i \in DOMAIN command_cb_list : command_cb_list[i] = c) ~>
            outcome[c] # <<>> \/ "DISCONNECTING" \in flags

=============================================================================
