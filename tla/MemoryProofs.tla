---------------------------- MODULE MemoryProofs ----------------------------
(***************************************************************************)
(* Proofs about the free lists beneath the client: for any number of       *)
(* connects, calls and messages, any application and any server.           *)
(***************************************************************************)
EXTENDS Memory, ClientProofs, FiniteSetTheorems

-----------------------------------------------------------------------------
(* The buffers.                                                            *)

\* The handles whose end of file was reported to a client that was not
\* disconnecting: on_read kept the buffer and closes the handle, if it has
\* not done so yet.
Lost ==
    {h \in eof : \/ status[h] # "open"
                 \/ handler.at = "error" /\ handler.h = h
                 \/ fault # "none"}

\* A handle that is not allocated yet is unused; the server closes only
\* connections that were open.
NotYet ==
    /\ \A h \in Handles : h[1] > gen => status[h] = "none"
    /\ \A h \in eof : status[h] \notin {"none", "connecting"}

BufferInv ==
    /\ TypeOK /\ NotYet
    /\ buf_freelist \in [free : 0..1, total : Nat] /\ nempty \in Nat
    /\ buf_freelist.total - buf_freelist.free <= Cardinality(Lost) + nempty

-----------------------------------------------------------------------------
(* The requests.                                                           *)

Current == {Stream, SubStream}

\* Nothing is under way on a handle that is not allocated, and the handles
\* of earlier connect() calls are freed.
Others ==
    \A h \in Handles :
        /\ h[1] \notin 1..gen => /\ status[h] = "none" /\ h \notin data \cup connreq
                                 /\ queued[h] = <<>> /\ written[h] = <<>>
        /\ h[1] \in 1..(gen - 1) => status[h] = "freed"

Exited == status[Stream] = "exited" /\ status[SubStream] = "exited"

BeforeConnect == gen = 0 => flags \subseteq {"MONITORING"} /\ stream_flags = {}

\* connect() was called, "connect" not reported: no handle has its data set,
\* and a stream flag means that a handle was opened.
Trying ==
    gen > 0 /\ flags \cap {"CONNECTED", "DISCONNECTING"} = {} =>
        /\ "FREEING" \notin flags
        /\ \A h \in Current :
             /\ status[h] \in {"connecting", "open", "failed", "closing", "exited"}
             /\ h \notin data /\ queued[h] = <<>> /\ written[h] = <<>>
        /\ stream_flags \subseteq {"STREAM"}
        /\ stream_flags # {} => \E h \in Current : status[h] \in {"open", "closing"}

\* Connected, disconnect() not called: the stream flags count the handles
\* that are not freed.
Running ==
    "CONNECTED" \in flags /\ "DISCONNECTING" \notin flags /\ ~Exited =>
        /\ \A h \in Current : status[h] \in {"open", "closing", "freed"}
        /\ (\A h \in Current : status[h] # "freed") => stream_flags = StreamFlagNames
        /\ (\E h \in Current : status[h] # "freed") =>
             "SUB_STREAM" \in stream_flags /\ "FREEING" \notin flags
        /\ (\E h \in Current : status[h] = "freed") => "STREAM" \notin stream_flags
        /\ (\A h \in Current : status[h] = "freed") => stream_flags = {}

\* After disconnect() both handles are closing or gone.
Closing ==
    "DISCONNECTING" \in flags =>
        /\ \A h \in Current : status[h] \in {"closing", "freed", "exited"}
        /\ (\E h \in Current : status[h] = "freed") => "STREAM" \notin stream_flags
        /\ (\A h \in Current : status[h] = "freed") => stream_flags = {}

\* exit() takes both handles.
ExitBoth == status[Stream] = "exited" <=> status[SubStream] = "exited"

Control == Others /\ BeforeConnect /\ Trying /\ Running /\ Closing /\ ExitBoth

RequestInv ==
    /\ TypeOK
    /\ req_freelist \in [free : Nat, total : Nat] /\ overlap \in BOOLEAN
    /\ fault = "none" /\ ~overlap => Control /\ IsFiniteSet(Writes)
    /\ RequestsLent

-----------------------------------------------------------------------------
(* The lists are beneath the client: each step is one of Client's.         *)

LEMMA MemoryStep == MemoryNext => Next
  BY DEF MemoryNext, MemConnect, MemCommand, MemConnected, MemWritten, MemRead, MemReadEmpty,
         MemReadError, MemOther, Next, Application, SessionCalls, Loop, SessionLoop

\* A client with its free lists is a client: what is proved of Client holds
\* here too.
THEOREM MemoryIsClient == MemorySpec => Spec
  <1>1. MemoryInit => Init
    BY DEF MemoryInit
  <1>2. [MemoryNext]_<<vars, memory>> => [Next]_vars
    BY MemoryStep
  <1> QED
    BY <1>1, <1>2, PTL DEF MemorySpec, Spec

LEMMA HandleFacts ==
    ASSUME TypeOK
    PROVE  /\ gen \in Nat /\ Stream \in Handles /\ SubStream \in Handles /\ Stream # SubStream
           /\ \A h \in Handles : h[1] \in Nat
  BY BoundsAssumption DEF TypeOK, Gens, Handles, Stream, SubStream

LEMMA FiniteHandles == IsFiniteSet(Handles)
  <1>1. IsFiniteSet(Gens) /\ IsFiniteSet({"stream", "sub_stream"})
    <2>1. IsFiniteSet(0..MaxConnects)
      BY BoundsAssumption, FS_Interval
    <2>2. {"stream", "sub_stream"} = {"stream"} \cup {"sub_stream"}
      OBVIOUS
    <2>3. IsFiniteSet({"stream"})
      BY FS_Singleton
    <2>4. IsFiniteSet({"stream"} \cup {"sub_stream"})
      BY <2>3, FS_AddElement
    <2> QED
      BY <2>1, <2>2, <2>4 DEF Gens
  <1> QED
    BY <1>1, FS_Product DEF Handles

\* What a step may do to the status of a handle, to eof and to the handler.
\* A connection that was closed is not opened again.
Moves ==
    /\ \A h \in Handles :
         /\ status[h] \notin {"none", "connecting"} => status'[h] \notin {"none", "connecting"}
         /\ status[h] \notin {"none", "connecting", "open"} => status'[h] # "open"
         /\ h[1] > gen' => status'[h] = "none"
    /\ eof \subseteq eof'
    /\ \A h \in eof' \ eof : status'[h] = "open"
    /\ handler.at = "error" =>
         \/ handler'.at = "error" /\ handler'.h = handler.h
         \/ status'[handler.h] # "open"
         \/ fault' # "none"
    /\ fault = "none"

LEMMA ApplicationMoves ==
    ASSUME TypeOK, TypeOK', NotYet, Application
    PROVE  Moves
  <1> USE DEF LuaRuns
  <1>h. handler.h \in Handles
    BY DEF TypeOK
  <1>1. ASSUME NEW e \in Listeners, lua_client_on(e) PROVE Moves
    BY <1>1 DEF lua_client_on, Moves, handles, server, history, NotYet
  <1>2. ASSUME lua_client_connect PROVE Moves
    <2>1. /\ gen' = gen + 1 /\ UNCHANGED <<eof, handler, fault>> /\ fault = "none"
          /\ \A h \in Handles : status'[h] = "connecting" \/ status'[h] = status[h]
          /\ \A h \in Handles : status'[h] # status[h] => h[1] = gen + 1
      BY <1>2 DEF lua_client_connect, server, history
    <2>2. \A h \in Handles : h[1] > gen' => status'[h] = status[h] /\ h[1] > gen
      BY <2>1, HandleFacts
    <2>3. \A h \in Handles : status'[h] # status[h] => status[h] = "none"
      BY <2>1, HandleFacts DEF NotYet
    <2> QED
      BY <2>1, <2>2, <2>3 DEF Moves, NotYet
  <1>3. ASSUME NEW kind \in Kinds, lua_client_command(kind) PROVE Moves
    BY <1>3 DEF lua_client_command, Moves, server, NotYet
  <1>4. ASSUME lua_client_disconnect PROVE Moves
    <2>1. /\ UNCHANGED <<gen, eof, handler>> /\ fault = "none"
          /\ \A h \in Handles :
                status'[h] = status[h] \/ (status'[h] = "closing" /\ status[h] # "none")
      <3>1. status[Stream] = "none" => CloseFault(Stream) # "none"
        BY DEF CloseFault
      <3>2. status[SubStream] = "none" => CloseFault(SubStream) # "none"
        BY DEF CloseFault
      <3> QED
        <4> DEFINE f == IF CloseFault(Stream) # "none"
                           THEN CloseFault(Stream) ELSE CloseFault(SubStream)
        <4>1. /\ UNCHANGED <<gen, eof, handler>> /\ fault = "none"
              /\ status' = IF f = "none"
                             THEN [h \in Handles |-> IF h \in {Stream, SubStream}
                                                       THEN "closing" ELSE status[h]]
                             ELSE status
          BY <1>4 DEF lua_client_disconnect, server
        <4>2. CASE f = "none"
          BY <4>1, <4>2, <3>1, <3>2
        <4>3. CASE f # "none"
          BY <4>1, <4>3
        <4> QED
          BY <4>1, <4>2, <4>3
    <2> QED
      BY <2>1 DEF Moves, NotYet
  <1>5. ASSUME lua_client_exit PROVE Moves
    <2>1. /\ UNCHANGED <<gen, eof, handler>> /\ fault = "none"
          /\ \A h \in Handles :
                status'[h] = status[h] \/ (status'[h] = "exited" /\ status[h] # "none")
      <3>1. status[Stream] = "none" => CloseFault(Stream) # "none"
        BY DEF CloseFault
      <3>2. status[SubStream] = "none" => CloseFault(SubStream) # "none"
        BY DEF CloseFault
      <3> QED
        <4> DEFINE f == IF CloseFault(Stream) # "none"
                           THEN CloseFault(Stream) ELSE CloseFault(SubStream)
        <4>1. /\ UNCHANGED <<gen, eof, handler>> /\ fault = "none"
              /\ status' = IF f = "none"
                             THEN [h \in Handles |-> IF h \in {Stream, SubStream}
                                                       THEN "exited" ELSE status[h]]
                             ELSE status
          BY <1>5 DEF lua_client_exit, server
        <4>2. CASE f = "none"
          BY <4>1, <4>2, <3>1, <3>2
        <4>3. CASE f # "none"
          BY <4>1, <4>3
        <4> QED
          BY <4>1, <4>2, <4>3
    <2> QED
      BY <2>1 DEF Moves, NotYet
  <1> QED
    BY <1>1, <1>2, <1>3, <1>4, <1>5 DEF Application, SessionCalls

LEMMA LoopMoves ==
    ASSUME TypeOK, TypeOK', NotYet, Loop
    PROVE  Moves
  <1> USE DEF LoopTurn
  <1>t. status \in [Handles -> Statuses] /\ handler.h \in Handles /\ Stream \in Handles
    BY HandleFacts DEF TypeOK
  <1>1. ASSUME NEW h \in Handles, on_connect(h) PROVE Moves
    <2>1. /\ UNCHANGED <<gen, eof, handler>> /\ fault = "none" /\ handler.at = "idle"
          /\ status' = [status EXCEPT ![h] = "open"] /\ status[h] = "connecting"
      BY <1>1 DEF on_connect, server
    <2> QED
      BY <2>1, <1>t DEF Moves, NotYet
  <1>2. ASSUME NEW h \in Handles, on_connect_error(h) PROVE Moves
    <2> DEFINE failed == IF status[h] = "connecting"
                           THEN [status EXCEPT ![h] = "failed"] ELSE status
    <2>1. /\ UNCHANGED <<gen, eof, handler>> /\ fault = "none" /\ handler.at = "idle"
          /\ \/ status' = failed
             \/ CloseFault(Stream) = "none" /\ status' = [failed EXCEPT ![Stream] = "closing"]
      BY <1>2 DEF on_connect_error, server
    <2>2. CloseFault(Stream) = "none" => status[Stream] # "none"
      BY DEF CloseFault
    <2>3. \A k \in Handles : \/ status'[k] = status[k]
                             \/ status'[k] \in {"failed", "closing"} /\ status[k] # "none"
      BY <2>1, <2>2, <1>t
    <2> QED
      BY <2>1, <2>3 DEF Moves, NotYet
  <1>3. ASSUME NEW h \in Handles, on_write(h) PROVE Moves
    BY <1>3 DEF on_write, Moves, server, NotYet
  <1>4. ASSUME NEW h \in Handles, on_write_error(h) PROVE Moves
    BY <1>4 DEF on_write_error, Moves, server, NotYet
  <1>5. ASSUME NEW h \in Handles, NEW n \in 1..Len(wire[h]), on_read(h, n) PROVE Moves
    BY <1>5 DEF on_read, Moves, context, handles, history, NotYet
  <1>6. ASSUME NEW h \in Handles, on_read_empty(h) PROVE Moves
    BY <1>6 DEF on_read_empty, Moves, context, server, history, NotYet
  <1>7. ASSUME NEW h \in Handles, on_read_error(h) PROVE Moves
    BY <1>7 DEF on_read_error, Moves, context, server, NotYet
  <1>8. ASSUME NEW h \in Handles, on_disconnect(h) PROVE Moves
    <2>1. /\ UNCHANGED <<gen, eof, handler>> /\ fault = "none" /\ handler.at = "idle"
          /\ status' = [status EXCEPT ![h] = "freed"] /\ status[h] = "closing"
      BY <1>8 DEF on_disconnect, server
    <2> QED
      BY <2>1, <1>t DEF Moves, NotYet
  <1>9. ASSUME on_read_reply PROVE Moves
    BY <1>9 DEF on_read_reply, Moves, server, handles, NotYet
  <1>10. ASSUME on_read_done PROVE Moves
    BY <1>10 DEF on_read_done, Moves, server, history, NotYet
  <1>11. ASSUME on_read_error_close PROVE Moves
    <2>1. /\ UNCHANGED <<gen, eof>> /\ fault = "none" /\ handler.at = "error"
          /\ \/ CloseFault(handler.h) # "none" /\ fault' = CloseFault(handler.h)
                /\ status' = status
             \/ CloseFault(handler.h) = "none"
                /\ status' = [status EXCEPT ![handler.h] = "closing"]
      BY <1>11 DEF on_read_error_close, context, server, Fail
    <2>2. CloseFault(handler.h) = "none" => status[handler.h] # "none"
      BY DEF CloseFault
    <2> QED
      BY <2>1, <2>2, <1>t DEF Moves, NotYet
  <1>12. ASSUME NEW h \in Handles, LoopFinishesExit(h) PROVE Moves
    BY <1>12 DEF LoopFinishesExit, Moves, context, handles, server, NotYet
  <1> QED
    BY <1>1, <1>2, <1>3, <1>4, <1>5, <1>6, <1>7, <1>8, <1>9, <1>10, <1>11, <1>12
       DEF Loop, SessionLoop

LEMMA EnvironmentMoves ==
    ASSUME TypeOK, TypeOK', NotYet, Environment
    PROVE  Moves
  <1>1. ASSUME NEW h \in Handles, Flush(h) PROVE Moves
    BY <1>1 DEF Flush, Moves, context, history, NotYet
  <1>2. ASSUME NEW h \in Handles, NEW c \in subscribed[h], Push(h, c) PROVE Moves
    BY <1>2 DEF Push, Moves, context, handles, history, NotYet
  <1>3. ASSUME NEW h \in Handles, NEW n \in 0..Len(wire[h]), ServerCloses(h, n) PROVE Moves
    BY <1>3 DEF ServerCloses, Moves, context, handles, history, NotYet
  <1> QED
    BY <1>1, <1>2, <1>3 DEF Environment

\* A step that moves so keeps what is lost.
LEMMA LostKept ==
    ASSUME TypeOK, TypeOK', NotYet, Moves
    PROVE  /\ NotYet' /\ Lost \subseteq Lost'
           /\ IsFiniteSet(Lost) /\ IsFiniteSet(Lost')
           /\ Cardinality(Lost) \in Nat /\ Cardinality(Lost') \in Nat
           /\ Cardinality(Lost) <= Cardinality(Lost')
  <1>1. eof \subseteq Handles /\ eof' \subseteq Handles
    BY DEF TypeOK
  <1>2. NotYet'
    BY <1>1 DEF Moves, NotYet
  <1>3. Lost \subseteq Lost'
    BY <1>1 DEF Lost, Moves, NotYet
  <1>4. Lost \subseteq Handles /\ Lost' \subseteq Handles
    BY <1>1 DEF Lost
  <1>5. IsFiniteSet(Lost) /\ IsFiniteSet(Lost')
    BY <1>4, FiniteHandles, FS_Subset
  <1>6. Cardinality(Lost) <= Cardinality(Lost')
    BY <1>3, <1>5, FS_Subset
  <1> QED
    BY <1>2, <1>3, <1>5, <1>6, FS_CardinalityType

\* How the list of buffers moves.
LEMMA BufferMoves ==
    ASSUME NEW list \in [free : 0..1, total : Nat]
    PROVE  /\ buf_free(buf_alloc(list)) \in [free : 0..1, total : Nat]
           /\ buf_free(buf_alloc(list)).total - buf_free(buf_alloc(list)).free
                = list.total - list.free
           /\ buf_alloc(list) \in [free : 0..1, total : Nat]
           /\ buf_alloc(list).total - buf_alloc(list).free = list.total - list.free + 1
  <1>1. list.free \in 0..1 /\ list.total \in Nat
    OBVIOUS
  <1>2. CASE list.free > 0
    <2>1. buf_alloc(list) = [list EXCEPT !.free = @ - 1]
      BY <1>2 DEF buf_alloc
    <2>2. /\ buf_alloc(list).free = 0 /\ buf_alloc(list).total = list.total /\ list.free = 1
          /\ buf_alloc(list) \in [free : 0..1, total : Nat]
      BY <1>1, <1>2, <2>1
    <2> QED
      BY <1>1, <2>2 DEF buf_free
  <1>3. CASE ~(list.free > 0)
    <2>1. buf_alloc(list) = [list EXCEPT !.total = @ + 1]
      BY <1>3 DEF buf_alloc
    <2>2. /\ buf_alloc(list).free = 0 /\ buf_alloc(list).total = list.total + 1 /\ list.free = 0
          /\ buf_alloc(list) \in [free : 0..1, total : Nat]
      BY <1>1, <1>3, <2>1
    <2> QED
      BY <1>1, <2>2 DEF buf_free
  <1> QED
    BY <1>2, <1>3

LEMMA NextBuffer ==
    ASSUME BufferInv, [MemoryNext]_<<vars, memory>>
    PROVE  BufferInv'
  <1> DEFINE lent == buf_freelist.total - buf_freelist.free
  <1>1. TypeOK'
    BY MemoryStep, NextTypeOK DEF BufferInv
  <1>2. CASE UNCHANGED <<vars, memory>>
    BY <1>1, <1>2 DEF BufferInv, NotYet, Lost, vars, memory, context, handles, server, history
  <1>3. CASE MemoryNext
    <2>1. Moves
      BY <1>1, <1>3, MemoryStep, ApplicationMoves, LoopMoves, EnvironmentMoves
         DEF BufferInv, Next
    <2>2. /\ NotYet' /\ Lost \subseteq Lost' /\ IsFiniteSet(Lost) /\ IsFiniteSet(Lost')
          /\ Cardinality(Lost) \in Nat /\ Cardinality(Lost') \in Nat
          /\ Cardinality(Lost) <= Cardinality(Lost')
      BY <1>1, <2>1, LostKept DEF BufferInv
    <2>t. /\ buf_freelist \in [free : 0..1, total : Nat] /\ nempty \in Nat
          /\ lent \in Int /\ lent <= Cardinality(Lost) + nempty
      BY DEF BufferInv
    <2>3. SUFFICES /\ buf_freelist' \in [free : 0..1, total : Nat] /\ nempty' \in Nat
                   /\ lent' <= Cardinality(Lost') + nempty'
      BY <1>1, <2>2 DEF BufferInv
    <2>4. CASE UNCHANGED <<buf_freelist, nempty>>
      BY <2>4, <2>2, <2>t
    <2>5. ASSUME NEW h \in Handles, NEW n \in 1..Len(wire[h]), MemRead(h, n)
          PROVE  /\ buf_freelist' \in [free : 0..1, total : Nat] /\ nempty' \in Nat
                 /\ lent' <= Cardinality(Lost') + nempty'
      <3>1. buf_freelist' = buf_free(buf_alloc(buf_freelist)) /\ nempty' = nempty
        BY <2>5 DEF MemRead, ReadBuffer
      <3>2. buf_freelist' \in [free : 0..1, total : Nat] /\ lent' = lent
        BY <3>1, <2>t, BufferMoves
      <3> QED
        BY <3>1, <3>2, <2>2, <2>t
    <2>6. ASSUME NEW h \in Handles, MemReadEmpty(h)
          PROVE  /\ buf_freelist' \in [free : 0..1, total : Nat] /\ nempty' \in Nat
                 /\ lent' <= Cardinality(Lost') + nempty'
      <3>1. buf_freelist' \in {buf_free(buf_alloc(buf_freelist)), buf_alloc(buf_freelist)}
            /\ nempty' = nempty + 1
        BY <2>6 DEF MemReadEmpty, Unread
      <3>2. buf_freelist' \in [free : 0..1, total : Nat] /\ lent' \in {lent, lent + 1}
        BY <3>1, <2>t, BufferMoves
      <3> QED
        BY <3>1, <3>2, <2>2, <2>t
    <2>7. ASSUME NEW h \in Handles, MemReadError(h)
          PROVE  /\ buf_freelist' \in [free : 0..1, total : Nat] /\ nempty' \in Nat
                 /\ lent' <= Cardinality(Lost') + nempty'
      <3>1. on_read_error(h) /\ nempty' = nempty /\ buf_freelist' = Unread(buf_freelist)
        BY <2>7 DEF MemReadError
      <3>2. CASE "DISCONNECTING" \in flags
        <4>1. buf_freelist' = buf_free(buf_alloc(buf_freelist))
          BY <3>1, <3>2 DEF Unread
        <4>2. buf_freelist' \in [free : 0..1, total : Nat] /\ lent' = lent
          BY <4>1, <2>t, BufferMoves
        <4> QED
          BY <3>1, <4>2, <2>2, <2>t
      <3>3. CASE "DISCONNECTING" \notin flags
        <4>1. buf_freelist' = buf_alloc(buf_freelist)
          BY <3>1, <3>3 DEF Unread
        <4>2. buf_freelist' \in [free : 0..1, total : Nat] /\ lent' = lent + 1
          BY <4>1, <2>t, BufferMoves
        <4>3. h \notin Lost
          BY <3>1 DEF on_read_error, LoopTurn, Lost
        <4>4. h \in Lost'
          BY <3>1, <3>3 DEF on_read_error, server, Lost
        <4>5. Lost # Lost'
          BY <4>3, <4>4
        <4>6. Cardinality(Lost) # Cardinality(Lost')
          BY <4>5, <2>2, FS_Subset
        <4> QED
          BY <3>1, <4>2, <4>6, <2>2, <2>t
      <3> QED
        BY <3>2, <3>3
    <2> QED
      BY <1>3, <2>4, <2>5, <2>6, <2>7
         DEF MemoryNext, MemConnect, MemCommand, MemConnected, MemWritten, MemOther, memory
  <1> QED
    BY <1>2, <1>3

LEMMA Buffers == MemorySpec => []BufferInv
  <1>1. ASSUME MemoryInit PROVE BufferInv
    <2>1. TypeOK
      BY <1>1, InitTypeOK DEF MemoryInit
    <2>2. Lost = {}
      BY <1>1 DEF MemoryInit, Init, Lost
    <2>3. Cardinality(Lost) = 0
      BY <2>2, FS_EmptySet
    <2>4. NotYet
      BY <1>1 DEF MemoryInit, Init, NotYet
    <2> QED
      BY <1>1, <2>1, <2>3, <2>4 DEF BufferInv, MemoryInit
  <1>2. BufferInv /\ [MemoryNext]_<<vars, memory>> => BufferInv'
    BY NextBuffer
  <1> QED
    BY <1>1, <1>2, PTL DEF MemorySpec

\* However many replies on_read reads, it has one buffer, and one more for each
\* connection the server closed and for each read that brought nothing.
THEOREM BuffersAreBounded == MemorySpec => []BuffersBounded
  <1>1. ASSUME BufferInv PROVE BuffersBounded
    <2>1. Lost \subseteq eof /\ eof \subseteq Handles
      BY <1>1 DEF Lost, BufferInv, TypeOK
    <2>2. IsFiniteSet(eof)
      BY <2>1, FiniteHandles, FS_Subset
    <2>3. /\ IsFiniteSet(Lost) /\ Cardinality(Lost) <= Cardinality(eof)
      BY <2>1, <2>2, FS_Subset
    <2>4. Cardinality(Lost) \in Nat /\ Cardinality(eof) \in Nat
      BY <2>2, <2>3, FS_CardinalityType
    <2> QED
      BY <1>1, <2>3, <2>4 DEF BufferInv, BuffersBounded
  <1> QED
    BY <1>1, Buffers, PTL

-----------------------------------------------------------------------------
(* Control is kept while connect() waits for the last pair to be freed.    *)

LEMMA InUse ==
    ASSUME TypeOK, Others, NEW h \in Handles, status[h] \notin {"none", "freed"}
    PROVE  h \in Current /\ gen > 0
  <1>1. h[1] \in 1..gen /\ h[1] \notin 1..(gen - 1)
    BY DEF Others
  <1>2. h[1] = gen /\ gen > 0
    BY <1>1, HandleFacts
  <1>3. h = <<h[1], "stream">> \/ h = <<h[1], "sub_stream">>
    BY DEF Handles
  <1> QED
    BY <1>2, <1>3 DEF Current, Stream, SubStream

LEMMA CurrentFacts ==
    ASSUME TypeOK
    PROVE  \A h \in Current : h \in Handles /\ (gen > 0 => h[1] = gen /\ h[1] \in 1..gen)
  BY HandleFacts DEF Current, Stream, SubStream

LEMMA SameCurrent ==
    ASSUME gen' = gen
    PROVE  Current' = Current /\ Stream' = Stream /\ SubStream' = SubStream
  BY DEF Current, Stream, SubStream

\* Once there is a connect() call, a flag is up.
LEMMA FlagUp ==
    ASSUME BeforeConnect, TypeOK, flags \cap {"CONNECTED", "DISCONNECTING"} # {}
    PROVE  gen > 0
  BY HandleFacts DEF BeforeConnect

\* Steps that leave the status of the handles and the flags alone.
LEMMA ControlSame ==
    ASSUME TypeOK, Control, UNCHANGED <<gen, stream_flags, status>>,
           flags' \in {flags, flags \cup {"MONITORING"}}, connreq' \subseteq connreq,
           \A h \in Handles :
              \/ /\ h \in data' => h \in data
                 /\ queued'[h] = queued[h] /\ written'[h] = written[h]
              \/ h \in Current /\ flags \cap {"CONNECTED", "DISCONNECTING"} # {}
    PROVE  Control'
  <1> USE DEF Control
  <1>1. Current' = Current /\ Stream' = Stream /\ SubStream' = SubStream
    BY SameCurrent
  <1>2. flags' \cap {"CONNECTED", "DISCONNECTING"} = flags \cap {"CONNECTED", "DISCONNECTING"}
    OBVIOUS
  <1>3. Others'
    BY CurrentFacts, FlagUp DEF Others
  <1>4. BeforeConnect'
    BY DEF BeforeConnect
  <1>5. Trying'
    BY <1>1, <1>2, CurrentFacts DEF Trying
  <1>6. Running'
    BY <1>1 DEF Running, Exited
  <1>7. Closing' /\ ExitBoth'
    BY <1>1 DEF Closing, ExitBoth
  <1> QED
    BY <1>3, <1>4, <1>5, <1>6, <1>7

\* Steps that change the status of the current pair but not the flags and
\* free no handle.
LEMMA ControlStatus ==
    ASSUME TypeOK, TypeOK', Control, UNCHANGED <<gen, flags, stream_flags, data, queued, written>>,
           connreq' \subseteq connreq,
           \A h \in Handles :
              \/ status'[h] = status[h]
              \/ /\ h \in Current /\ gen > 0
                 /\ \/ status[h] \in {"connecting", "open", "failed"} /\ status'[h] = "closing"
                    \/ status[h] = "connecting" /\ status'[h] = "failed"
    PROVE  Control'
  <1> USE DEF Control
  <1>1. Current' = Current /\ Stream' = Stream /\ SubStream' = SubStream
    BY SameCurrent
  <1>2. Others'
    <2>1. ASSUME NEW h \in Handles, h[1] \notin 1..gen \/ h[1] \in 1..(gen - 1)
          PROVE  status'[h] = status[h]
      BY <2>1, CurrentFacts, HandleFacts
    <2> QED
      BY <2>1 DEF Others
  <1>3. BeforeConnect'
    BY DEF BeforeConnect
  <1>c. \A h \in Current : h \in Handles
    BY CurrentFacts
  <1>4. Trying'
    BY <1>1, <1>c DEF Trying
  <1>5. ExitBoth' /\ (Exited' <=> Exited)
    <2>1. \A h \in Current : status'[h] = "exited" <=> status[h] = "exited"
      BY <1>c
    <2> QED
      BY <2>1, <1>1 DEF ExitBoth, Exited, Current
  <1>f. \A h \in Current : status'[h] = "freed" <=> status[h] = "freed"
    BY <1>c
  <1>6. Running'
    <2>1. ASSUME "CONNECTED" \in flags, "DISCONNECTING" \notin flags, ~Exited, NEW h \in Current
          PROVE  status'[h] \in {"open", "closing", "freed"}
      BY <2>1, <1>c DEF Running
    <2> QED
      BY <2>1, <1>1, <1>5, <1>f DEF Running
  <1>7. Closing'
    <2>1. ASSUME "DISCONNECTING" \in flags, NEW h \in Current
          PROVE  status'[h] \in {"closing", "freed", "exited"}
      BY <2>1, <1>c DEF Closing
    <2> QED
      BY <2>1, <1>1, <1>f DEF Closing
  <1> QED
    BY <1>2, <1>3, <1>4, <1>5, <1>6, <1>7

LEMMA ControlConnectCall ==
    ASSUME TypeOK, TypeOK', Control, lua_client_connect,
           \A h \in Handles : h[1] \in 1..gen => status[h] = "freed"
    PROVE  Control'
  <1> USE DEF Control
  <1>g. /\ gen \in Nat /\ gen' = gen + 1 /\ gen' > 0
        /\ Stream' = <<gen + 1, "stream">> /\ SubStream' = <<gen + 1, "sub_stream">>
        /\ Current' = {<<gen + 1, "stream">>, <<gen + 1, "sub_stream">>}
    BY HandleFacts DEF lua_client_connect, Stream, SubStream, Current
  <1>e. /\ flags' = {}
        /\ status' = [h \in Handles |-> IF h \in Current' THEN "connecting" ELSE status[h]]
        /\ connreq' = connreq \cup Current'
        /\ UNCHANGED <<stream_flags, data, queued, written>>
    BY <1>g DEF lua_client_connect
  <1>c. \A h \in Current' : /\ h \in Handles /\ h[1] = gen + 1 /\ h[1] \notin 1..gen
                            /\ status'[h] = "connecting"
    <2>1. \A h \in Current' : h \in Handles
      <3>1. gen + 1 \in Gens
        BY <1>g DEF TypeOK
      <3> QED
        BY <3>1, <1>g DEF Handles
    <2> QED
      BY <2>1, <1>g, <1>e
  <1>1. Others'
    <2>1. SUFFICES ASSUME NEW h \in Handles
          PROVE  /\ h[1] \notin 1..gen' =>
                      /\ status'[h] = "none" /\ h \notin data' \cup connreq'
                      /\ queued'[h] = <<>> /\ written'[h] = <<>>
                 /\ h[1] \in 1..gen => status'[h] = "freed"
      BY <1>g DEF Others
    <2>2. h[1] \in Nat
      BY HandleFacts
    <2>3. CASE h[1] \notin 1..gen'
      <3>1. h[1] \notin 1..gen /\ h \notin Current'
        BY <2>2, <2>3, <1>g, <1>c
      <3> QED
        BY <2>3, <3>1, <1>e, <1>g DEF Others
    <2>4. CASE h[1] \in 1..gen
      BY <2>4, <1>e, <1>c, <1>g
    <2> QED
      BY <2>3, <2>4
  <1>2. stream_flags = {}
    <2>1. CASE gen = 0
      BY <2>1 DEF BeforeConnect
    <2>2. CASE gen > 0
      <3>1. \A h \in Current : status[h] = "freed"
        BY <2>2, CurrentFacts
      <3>2. ~Exited
        BY <3>1 DEF Exited, Current
      <3>3. flags \cap {"CONNECTED", "DISCONNECTING"} # {}
        BY <2>2, <3>1 DEF Trying, Current
      <3> QED
        BY <3>1, <3>2, <3>3 DEF Running, Closing
    <2> QED
      BY <2>1, <2>2, <1>g
  <1>3. Trying'
    BY <1>2, <1>e, <1>c DEF Trying, Others
  <1>4. BeforeConnect' /\ Running' /\ Closing'
    BY <1>e, <1>g DEF BeforeConnect, Running, Closing
  <1>5. ExitBoth'
    BY <1>c, <1>g DEF ExitBoth
  <1> QED
    BY <1>1, <1>3, <1>4, <1>5

LEMMA ControlApplication ==
    ASSUME TypeOK, TypeOK', Control, fault' = "none", Application, ~lua_client_connect
    PROVE  Control'
  <1> USE DEF Control
  <1>f. /\ \A h \in Handles : CloseFault(h) = "none" => status[h] \in {"connecting", "open", "failed"}
        /\ Stream \in Handles /\ SubStream \in Handles /\ Stream # SubStream
    BY HandleFacts DEF CloseFault, TypeOK, Statuses
  <1>c. Current = {Stream, SubStream} /\ \A h \in Current : h \in Handles
    BY CurrentFacts DEF Current
  <1>1. ASSUME NEW e \in Listeners, lua_client_on(e) PROVE Control'
    <2>1. UNCHANGED <<gen, flags, stream_flags, status, data, connreq, queued, written>>
      BY <1>1 DEF lua_client_on, handles
    <2> QED
      BY <2>1, ControlSame
  <1>3. ASSUME NEW kind \in Kinds, lua_client_command(kind) PROVE Control'
    <2>1. /\ UNCHANGED <<gen, stream_flags, status, data, connreq, written>>
          /\ flags' \in {flags, flags \cup {"MONITORING"}}
          /\ \/ queued' = queued
             \/ /\ "CONNECTED" \in flags
                /\ \E item : queued' = [queued EXCEPT ![TargetOf(kind)] = Append(@, item)]
      BY <1>3 DEF lua_client_command
    <2>2. TargetOf(kind) \in Current /\ queued \in [Handles -> Seq(Items)]
      BY DEF TargetOf, Current, TypeOK
    <2>3. \A h \in Handles : \/ queued'[h] = queued[h]
                             \/ h \in Current /\ "CONNECTED" \in flags
      BY <2>1, <2>2
    <2> QED
      BY <2>1, <2>3, ControlSame
  <1>4. ASSUME lua_client_disconnect PROVE Control'
    <2>1. gen > 0
      BY <1>4, FlagUp DEF lua_client_disconnect, MayDisconnect
    <2>2. CloseFault(Stream) = "none" /\ CloseFault(SubStream) = "none"
      BY <1>4 DEF lua_client_disconnect, Fail
    <2>3. /\ status' = [h \in Handles |-> IF h \in Current THEN "closing" ELSE status[h]]
          /\ data' = data \cup Current /\ flags' = flags \cup {"DISCONNECTING"}
          /\ UNCHANGED <<gen, stream_flags, connreq, queued, written>>
      BY <1>4, <2>2, <1>c DEF lua_client_disconnect
    <2>4. Current' = Current /\ Stream' = Stream /\ SubStream' = SubStream
      BY <2>3, SameCurrent
    <2>5. Others'
      <3>1. ASSUME NEW h \in Handles, h[1] \notin 1..gen \/ h[1] \in 1..(gen - 1)
            PROVE  status'[h] = status[h] /\ (h \in data' => h \in data)
        BY <3>1, <2>1, <2>3, CurrentFacts, HandleFacts
      <3> QED
        BY <3>1, <2>3 DEF Others
    <2>6. BeforeConnect' /\ Trying' /\ Running'
      BY <2>1, <2>3 DEF BeforeConnect, Trying, Running
    <2>7. Closing' /\ ExitBoth'
      <3>1. \A h \in Current : status'[h] = "closing"
        BY <2>3, <1>c
      <3> QED
        BY <3>1, <2>4, <1>c DEF Closing, ExitBoth
    <2> QED
      BY <2>5, <2>6, <2>7
  <1>5. ASSUME lua_client_exit PROVE Control'
    <2>2. CloseFault(Stream) = "none" /\ CloseFault(SubStream) = "none"
      BY <1>5 DEF lua_client_exit, Fail
    <2>3. /\ status' = [h \in Handles |-> IF h \in Current THEN "exited" ELSE status[h]]
          /\ stream_flags' = {} /\ gen > 0
          /\ UNCHANGED <<gen, flags, data, connreq, queued, written>>
      BY <1>5, <2>2, <1>c DEF lua_client_exit
    <2>4. Current' = Current /\ Stream' = Stream /\ SubStream' = SubStream
      BY <2>3, SameCurrent
    <2>5. Others'
      <3>1. ASSUME NEW h \in Handles, h[1] \notin 1..gen \/ h[1] \in 1..(gen - 1)
            PROVE  status'[h] = status[h]
        BY <3>1, <2>3, CurrentFacts, HandleFacts
      <3> QED
        BY <3>1, <2>3 DEF Others
    <2>x. \A h \in Current : status'[h] = "exited"
      BY <2>3, <1>c
    <2>6. BeforeConnect' /\ Closing' /\ ExitBoth' /\ Exited'
      BY <2>x, <2>3, <2>4, <1>c DEF BeforeConnect, Closing, ExitBoth, Exited
    <2>7. Trying'
      BY <2>x, <2>3, <2>4 DEF Trying
    <2>8. Running'
      BY <2>6 DEF Running
    <2> QED
      BY <2>5, <2>6, <2>7, <2>8
  <1> QED
    BY <1>1, <1>3, <1>4, <1>5 DEF Application, SessionCalls

LEMMA ControlOnConnect ==
    ASSUME TypeOK, TypeOK', Control, NEW h \in Handles, on_connect(h)
    PROVE  Control'
  <1> USE DEF Control
  <1>c. Current = {Stream, SubStream} /\ (\A k \in Current : k \in Handles) /\ Stream # SubStream
    BY CurrentFacts, HandleFacts DEF Current
  <1>e. /\ status[h] = "connecting" /\ status' = [status EXCEPT ![h] = "open"]
        /\ connreq' = connreq \ {h} /\ stream_flags' = StreamFlagUp
        /\ UNCHANGED <<gen, data, queued, written>>
    BY DEF on_connect
  <1>p. h \in Current /\ gen > 0 /\ Current' = Current /\ Stream' = Stream /\ SubStream' = SubStream
    BY <1>e, InUse, SameCurrent
  <1>s. status'[h] = "open" /\ \A k \in Handles : k # h => status'[k] = status[k]
    BY <1>e DEF TypeOK
  <1>1. flags \cap {"CONNECTED", "DISCONNECTING"} = {}
    <2>1. ~Exited
      BY <1>e, <1>p, <1>c DEF Exited
    <2> QED
      BY <2>1, <1>e, <1>p DEF Running, Closing
  <1>2. Others'
    <2>1. ASSUME NEW k \in Handles, k[1] \notin 1..gen \/ k[1] \in 1..(gen - 1)
          PROVE  status'[k] = status[k]
      BY <2>1, <1>p, <1>s, CurrentFacts, HandleFacts
    <2> QED
      BY <2>1, <1>e DEF Others
  <1>3. BeforeConnect'
    BY <1>e, <1>p DEF BeforeConnect
  <1>4. ExitBoth'
    <2>1. status[Stream] # "exited" /\ status[SubStream] # "exited"
      BY <1>e, <1>p, <1>c DEF ExitBoth
    <2> QED
      BY <2>1, <1>p, <1>s, <1>c DEF ExitBoth
  <1>5. CASE stream_flags = {}
    <2>1. stream_flags' = {"STREAM"} /\ flags' = flags
      BY <1>5 DEF on_connect, StreamFlagUp, StreamFlagNames
    <2>2. Trying'
      <3>1. \A k \in Current :
              status'[k] \in {"connecting", "open", "failed", "closing", "exited"}
        BY <1>p, <1>1, <1>s, <1>c DEF Trying
      <3> QED
        BY <3>1, <2>1, <1>1, <1>p, <1>s, <1>e DEF Trying
    <2>3. Running' /\ Closing'
      BY <2>1, <1>1 DEF Running, Closing
    <2> QED
      BY <1>2, <1>3, <1>4, <2>2, <2>3
  <1>6. CASE stream_flags # {}
    <2>1. stream_flags = {"STREAM"}
      BY <1>6, <1>1, <1>p DEF Trying
    <2>2. stream_flags' = StreamFlagNames /\ flags' = flags \cup {"CONNECTED"}
      BY <2>1 DEF on_connect, StreamFlagUp, StreamFlagNames
    <2>3. \A k \in Current : status'[k] \in {"open", "closing"}
      <3>1. PICK k \in Current : status[k] \in {"open", "closing"}
        BY <1>6, <1>1, <1>p DEF Trying
      <3>2. k # h /\ \A j \in Current : j = h \/ j = k
        BY <3>1, <1>e, <1>p, <1>c
      <3> QED
        BY <3>1, <3>2, <1>s, <1>c
    <2>4. Running'
      BY <2>2, <2>3, <1>1, <1>p DEF Running, StreamFlagNames, Trying
    <2>5. Trying' /\ Closing'
      BY <2>2, <1>1 DEF Trying, Closing
    <2> QED
      BY <1>2, <1>3, <1>4, <2>4, <2>5
  <1> QED
    BY <1>5, <1>6

LEMMA ControlOnDisconnect ==
    ASSUME TypeOK, TypeOK', Control, NEW h \in Handles, on_disconnect(h), fault' = "none"
    PROVE  Control'
  <1> USE DEF Control
  <1>c. Current = {Stream, SubStream} /\ (\A k \in Current : k \in Handles) /\ Stream # SubStream
    BY CurrentFacts, HandleFacts DEF Current
  <1>e. /\ status[h] = "closing" /\ status' = [status EXCEPT ![h] = "freed"]
        /\ h \in data /\ stream_flags' = StreamFlagDown
        /\ flags' = IF StreamFlagDown # {} THEN flags ELSE flags \cup {"FREEING"}
        /\ UNCHANGED <<gen, data, connreq, queued, written>>
    BY DEF on_disconnect, Fail
  <1>p. h \in Current /\ gen > 0 /\ Current' = Current /\ Stream' = Stream /\ SubStream' = SubStream
    BY <1>e, InUse, SameCurrent
  <1>s. status'[h] = "freed" /\ \A k \in Handles : k # h => status'[k] = status[k]
    BY <1>e DEF TypeOK
  <1>1. flags \cap {"CONNECTED", "DISCONNECTING"} # {}
    BY <1>e, <1>p DEF Trying
  <1>x. status[Stream] # "exited" /\ status[SubStream] # "exited" /\ ~Exited
    BY <1>e, <1>p, <1>c DEF ExitBoth, Exited
  <1>2. Others'
    <2>1. ASSUME NEW k \in Handles, k[1] \notin 1..gen \/ k[1] \in 1..(gen - 1)
          PROVE  status'[k] = status[k]
      BY <2>1, <1>p, <1>s, CurrentFacts, HandleFacts
    <2> QED
      BY <2>1, <1>e DEF Others
  <1>3. BeforeConnect' /\ ExitBoth'
    BY <1>e, <1>p, <1>s, <1>x, <1>c DEF BeforeConnect, ExitBoth
  <1>4. Trying'
    BY <1>e, <1>1 DEF Trying
  <1>5. PICK k \in Current : k # h /\ \A j \in Current : j = h \/ j = k
    BY <1>p, <1>c
  <1>k. status'[k] = status[k] /\ k \in Handles
    BY <1>5, <1>s, <1>c
  <1>6. Running'
    <2>1. SUFFICES ASSUME "CONNECTED" \in flags, "DISCONNECTING" \notin flags
                   PROVE  Running'
      BY <1>e DEF Running
    <2>2. /\ status[k] \in {"open", "closing", "freed"} /\ status[h] # "freed"
          /\ "SUB_STREAM" \in stream_flags /\ "FREEING" \notin flags
      BY <2>1, <1>x, <1>e, <1>p, <1>5 DEF Running
    <2>3. CASE status[k] = "freed"
      <3>1. "STREAM" \notin stream_flags
        BY <2>1, <2>3, <1>x, <1>5 DEF Running
      <3>2. stream_flags' = {}
        BY <3>1, <1>e DEF StreamFlagDown
      <3>3. \A j \in Current : status'[j] = "freed"
        BY <2>3, <1>5, <1>k, <1>s
      <3> QED
        BY <3>2, <3>3, <1>p DEF Running
    <2>4. CASE status[k] # "freed"
      <3>1. stream_flags = StreamFlagNames
        BY <2>1, <2>2, <2>4, <1>x, <1>5 DEF Running
      <3>2. stream_flags' = {"SUB_STREAM"} /\ flags' = flags
        BY <3>1, <1>e DEF StreamFlagDown, StreamFlagNames
      <3> QED
        BY <3>2, <2>2, <2>4, <1>5, <1>k, <1>s, <1>p DEF Running
    <2> QED
      BY <2>3, <2>4
  <1>7. Closing'
    <2>1. SUFFICES ASSUME "DISCONNECTING" \in flags PROVE Closing'
      BY <1>e DEF Closing
    <2>2. status[k] \in {"closing", "freed", "exited"}
      BY <2>1, <1>5 DEF Closing
    <2>3. "STREAM" \notin stream_flags'
      BY <1>e DEF StreamFlagDown
    <2>4. status[k] = "freed" => stream_flags' = {}
      BY <2>1, <1>5, <1>e DEF Closing, StreamFlagDown
    <2> QED
      BY <2>2, <2>3, <2>4, <1>5, <1>k, <1>s, <1>p DEF Closing
  <1> QED
    BY <1>2, <1>3, <1>4, <1>6, <1>7

LEMMA ControlLoop ==
    ASSUME TypeOK, TypeOK', Control, fault' = "none", Loop
    PROVE  Control'
  <1> USE DEF Control
  <1>f. \A h \in Handles : CloseFault(h) = "none" => status[h] \in {"connecting", "open", "failed"}
    BY DEF CloseFault, TypeOK, Statuses
  <1>t. /\ Stream \in Handles /\ handler.h \in Handles /\ status \in [Handles -> Statuses]
        /\ queued \in [Handles -> Seq(Items)] /\ written \in [Handles -> Seq(Items)]
    BY HandleFacts DEF TypeOK
  <1>1. ASSUME NEW h \in Handles, on_connect_error(h) PROVE Control'
    <2> DEFINE failed == IF status[h] = "connecting"
                           THEN [status EXCEPT ![h] = "failed"] ELSE status
    <2>1. /\ UNCHANGED <<gen, flags, stream_flags, data, queued, written>>
          /\ connreq' \subseteq connreq
          /\ status[h] \in {"connecting", "closing"}
          /\ \/ status' = failed
             \/ CloseFault(Stream) = "none" /\ status' = [failed EXCEPT ![Stream] = "closing"]
      BY <1>1 DEF on_connect_error, Fail
    <2>2. h \in Current /\ gen > 0
      BY <2>1, InUse
    <2>3. Stream \in Current
      BY DEF Current
    <2>4. \A k \in Handles :
              \/ status'[k] = status[k]
              \/ /\ k \in Current /\ gen > 0
                 /\ \/ status[k] \in {"connecting", "open", "failed"} /\ status'[k] = "closing"
                    \/ status[k] = "connecting" /\ status'[k] = "failed"
      BY <2>1, <2>2, <2>3, <1>f, <1>t
    <2> QED
      BY <2>1, <2>4, ControlStatus
  <1>2. ASSUME NEW h \in Handles, on_write(h) PROVE Control'
    <2>1. /\ UNCHANGED <<gen, flags, stream_flags, status, connreq, queued>>
          /\ written[h] # <<>> /\ status[h] \in {"open", "closing"}
          /\ written' = [written EXCEPT ![h] = Tail(@)] /\ data' = data \cup {h}
      BY <1>2 DEF on_write
    <2>2. h \in Current /\ gen > 0
      BY <2>1, InUse
    <2>3. flags \cap {"CONNECTED", "DISCONNECTING"} # {}
      BY <2>1, <2>2 DEF Trying
    <2> QED
      BY <2>1, <2>2, <2>3, <1>t, ControlSame
  <1>3. ASSUME NEW h \in Handles, on_write_error(h) PROVE Control'
    <2>1. /\ UNCHANGED <<gen, flags, stream_flags, status, connreq, written>>
          /\ queued[h] # <<>> /\ status[h] \in {"closing", "failed", "open"}
          /\ queued' = [queued EXCEPT ![h] = Tail(@)] /\ data' = data \cup {h}
      BY <1>3 DEF on_write_error
    <2>2. h \in Current /\ gen > 0
      BY <2>1, InUse
    <2>3. flags \cap {"CONNECTED", "DISCONNECTING"} # {}
      BY <2>1, <2>2 DEF Trying
    <2> QED
      BY <2>1, <2>2, <2>3, <1>t, ControlSame
  <1>4. ASSUME \/ \E h \in Handles : \/ \E n \in 1..Len(wire[h]) : on_read(h, n)
                                     \/ on_read_empty(h) \/ on_read_error(h)
               \/ on_read_reply \/ on_read_done
        PROVE  Control'
    <2>1. UNCHANGED <<gen, flags, stream_flags, status, data, connreq, queued, written>>
      BY <1>4 DEF on_read, on_read_empty, on_read_error, on_read_reply, on_read_done,
                  context, handles
    <2> QED
      BY <2>1, ControlSame
  <1>5. ASSUME on_read_error_close PROVE Control'
    <2>1. /\ UNCHANGED <<gen, flags, stream_flags, data, connreq, queued, written>>
          /\ CloseFault(handler.h) = "none"
          /\ status' = [status EXCEPT ![handler.h] = "closing"]
      BY <1>5 DEF on_read_error_close, Fail, context
    <2>2. status[handler.h] \in {"connecting", "open", "failed"}
      BY <2>1, <1>f, <1>t
    <2>3. handler.h \in Current /\ gen > 0
      BY <2>2, <1>t, InUse
    <2> QED
      BY <2>1, <2>2, <2>3, <1>t, ControlStatus
  <1>6. ASSUME NEW h \in Handles PROVE ~LoopFinishesExit(h)
    BY DEF LoopFinishesExit, Fail
  <1> QED
    BY <1>1, <1>2, <1>3, <1>4, <1>5, <1>6, ControlOnConnect, ControlOnDisconnect
       DEF Loop, SessionLoop

LEMMA ControlEnvironment ==
    ASSUME TypeOK, TypeOK', Control, Environment
    PROVE  Control'
  <1> USE DEF Control
  <1>1. ASSUME NEW h \in Handles, Flush(h) PROVE Control'
    <2>1. /\ UNCHANGED <<gen, flags, stream_flags, status, connreq, data>>
          /\ queued[h] # <<>> /\ status[h] = "open"
          /\ \A k \in Handles : k # h => queued'[k] = queued[k] /\ written'[k] = written[k]
      BY <1>1 DEF Flush, context, TypeOK
    <2>2. h \in Current /\ gen > 0
      BY <2>1, InUse
    <2>3. flags \cap {"CONNECTED", "DISCONNECTING"} # {}
      BY <2>1, <2>2 DEF Trying
    <2> QED
      BY <2>1, <2>2, <2>3, ControlSame
  <1>2. ASSUME NEW h \in Handles, \/ \E c \in subscribed[h] : Push(h, c)
                                  \/ \E n \in 0..Len(wire[h]) : ServerCloses(h, n)
        PROVE  Control'
    <2>1. UNCHANGED <<gen, flags, stream_flags, status, data, connreq, queued, written>>
      BY <1>2 DEF Push, ServerCloses, context, handles
    <2> QED
      BY <2>1, ControlSame
  <1> QED
    BY <1>1, <1>2 DEF Environment

-----------------------------------------------------------------------------
(* Counting the requests.                                                  *)

\* The write requests of a handle.
Load(h) == Len(queued[h]) + Len(written[h])

LEMMA LoadType ==
    ASSUME TypeOK, NEW h \in Handles
    PROVE  /\ Len(queued[h]) \in Nat /\ Len(written[h]) \in Nat /\ Load(h) \in Nat
  BY LenProperties DEF TypeOK, Load

\* Shortening and lengthening a sequence.
LEMMA TailLength ==
    ASSUME NEW S, NEW s \in Seq(S), s # <<>>
    PROVE  Len(s) \in Nat /\ Len(s) > 0 /\ Len(Tail(s)) = Len(s) - 1 /\ Head(s) \in S
  BY LenProperties, HeadTailProperties

\* What the steps on the writes of a handle do to its load.
LEMMA LoadQueued ==
    ASSUME TypeOK, NEW h \in Handles, NEW item \in Items, written' = written,
           queued' = [queued EXCEPT ![h] = Append(@, item)]
    PROVE  Load(h)' = Load(h) + 1 /\ \A k \in Handles : k # h => Load(k)' = Load(k)
  <1>1. queued \in [Handles -> Seq(Items)]
    BY DEF TypeOK
  <1>2. queued'[h] = Append(queued[h], item) /\ \A k \in Handles : k # h => queued'[k] = queued[k]
    BY <1>1
  <1>3. Len(queued'[h]) = Len(queued[h]) + 1
    BY <1>1, <1>2, AppendProperties
  <1> DEFINE a == Len(queued[h])
             b == Len(written[h])
  <1>n. a \in Nat /\ b \in Nat
    BY LoadType
  <1>4. Load(h) = a + b /\ Load(h)' = (a + 1) + b
    BY <1>3 DEF Load
  <1>5. \A k \in Handles : k # h => Load(k)' = Load(k)
    BY <1>2 DEF Load
  <1> HIDE DEF a, b
  <1> QED
    BY <1>n, <1>4, <1>5

LEMMA LoadUnsent ==
    ASSUME TypeOK, NEW h \in Handles, queued[h] # <<>>, written' = written,
           queued' = [queued EXCEPT ![h] = Tail(@)]
    PROVE  /\ Load(h) > 0 /\ Load(h)' = Load(h) - 1
           /\ \A k \in Handles : k # h => Load(k)' = Load(k)
  <1>1. queued \in [Handles -> Seq(Items)]
    BY DEF TypeOK
  <1>2. queued'[h] = Tail(queued[h]) /\ \A k \in Handles : k # h => queued'[k] = queued[k]
    BY <1>1
  <1>3. Len(queued[h]) \in Nat /\ Len(queued[h]) > 0 /\ Len(queued'[h]) = Len(queued[h]) - 1
    BY <1>1, <1>2, TailLength
  <1> DEFINE a == Len(queued[h])
             b == Len(written[h])
  <1>n. a \in Nat /\ b \in Nat
    BY LoadType
  <1>4. Load(h) = a + b /\ Load(h)' = (a - 1) + b /\ a > 0
    BY <1>3 DEF Load
  <1>5. \A k \in Handles : k # h => Load(k)' = Load(k)
    BY <1>2 DEF Load
  <1> HIDE DEF a, b
  <1> QED
    BY <1>n, <1>4, <1>5

LEMMA LoadWritten ==
    ASSUME TypeOK, NEW h \in Handles, written[h] # <<>>, queued' = queued,
           written' = [written EXCEPT ![h] = Tail(@)]
    PROVE  /\ Load(h) > 0 /\ Load(h)' = Load(h) - 1
           /\ \A k \in Handles : k # h => Load(k)' = Load(k)
  <1>1. written \in [Handles -> Seq(Items)]
    BY DEF TypeOK
  <1>2. written'[h] = Tail(written[h]) /\ \A k \in Handles : k # h => written'[k] = written[k]
    BY <1>1
  <1>3. Len(written[h]) \in Nat /\ Len(written[h]) > 0 /\ Len(written'[h]) = Len(written[h]) - 1
    BY <1>1, <1>2, TailLength
  <1> DEFINE a == Len(queued[h])
             b == Len(written[h])
  <1>n. a \in Nat /\ b \in Nat
    BY LoadType
  <1>4. Load(h) = a + b /\ Load(h)' = a + (b - 1) /\ b > 0
    BY <1>3 DEF Load
  <1>5. \A k \in Handles : k # h => Load(k)' = Load(k)
    BY <1>2 DEF Load
  <1> HIDE DEF a, b
  <1> QED
    BY <1>n, <1>4, <1>5

LEMMA LoadFlushed ==
    ASSUME TypeOK, NEW h \in Handles, queued[h] # <<>>,
           queued' = [queued EXCEPT ![h] = Tail(@)],
           written' = [written EXCEPT ![h] = Append(@, Head(queued[h]))]
    PROVE  \A k \in Handles : Load(k)' = Load(k)
  <1>1. queued \in [Handles -> Seq(Items)] /\ written \in [Handles -> Seq(Items)]
    BY DEF TypeOK
  <1>2. /\ queued'[h] = Tail(queued[h]) /\ written'[h] = Append(written[h], Head(queued[h]))
        /\ \A k \in Handles : k # h => queued'[k] = queued[k] /\ written'[k] = written[k]
    BY <1>1
  <1>3. /\ Len(queued[h]) \in Nat /\ Len(queued'[h]) = Len(queued[h]) - 1
        /\ Head(queued[h]) \in Items
    BY <1>1, <1>2, TailLength
  <1>4. Len(written'[h]) = Len(written[h]) + 1
    BY <1>1, <1>2, <1>3, AppendProperties
  <1> DEFINE a == Len(queued[h])
             b == Len(written[h])
  <1>n. a \in Nat /\ b \in Nat
    BY LoadType
  <1>5. Load(h) = a + b /\ Load(h)' = (a - 1) + (b + 1)
    BY <1>3, <1>4 DEF Load
  <1>6. \A k \in Handles : k # h => Load(k)' = Load(k)
    BY <1>2 DEF Load
  <1> HIDE DEF a, b
  <1>7. Load(h)' = Load(h)
    BY <1>n, <1>5
  <1> QED
    BY <1>6, <1>7

LEMMA WritesAre ==
    \A x : x \in Writes <=> \E h \in Handles : \E i \in 1..Load(h) : x = <<h, i>>
  <1>1. ASSUME NEW x \in Writes
        PROVE  \E h \in Handles : \E i \in 1..Load(h) : x = <<h, i>>
    <2>1. PICK h \in Handles : x \in {h} \X (1..Load(h))
      BY <1>1, Zenon DEF Writes, Load
    <2> QED
      BY <2>1
  <1>2. ASSUME NEW h \in Handles, NEW i \in 1..Load(h) PROVE <<h, i>> \in Writes
    <2>1. <<h, i>> \in {h} \X (1..Load(h))
      OBVIOUS
    <2> QED
      BY <2>1, Zenon DEF Writes, Load
  <1> QED
    BY <1>1, <1>2

LEMMA WritesNext ==
    (\A x : x \in Writes <=> \E h \in Handles : \E i \in 1..Load(h) : x = <<h, i>>)'
  BY WritesAre, PTL

LEMMA WritesSame ==
    ASSUME \A k \in Handles : Load(k)' = Load(k)
    PROVE  Writes' = Writes
  BY DEF Writes, Load

LEMMA WritesMore ==
    ASSUME TypeOK, IsFiniteSet(Writes), NEW h \in Handles, Load(h)' = Load(h) + 1,
           \A k \in Handles : k # h => Load(k)' = Load(k)
    PROVE  IsFiniteSet(Writes') /\ Cardinality(Writes') = Cardinality(Writes) + 1
  <1> DEFINE x == <<h, Load(h) + 1>>
  <1>0. Load(h) \in Nat
    BY LoadType
  <1>p. \A y : y \in Writes' <=> \E k \in Handles : \E i \in 1..Load(k)' : y = <<k, i>>
    BY WritesNext
  <1>1. x \notin Writes
    BY <1>0, WritesAre
  <1>2. Writes' = Writes \cup {x}
    <2>1. ASSUME NEW y \in Writes' PROVE y \in Writes \cup {x}
      <3>1. PICK k \in Handles : \E i \in 1..Load(k)' : y = <<k, i>>
        BY <2>1, <1>p
      <3>i. PICK i \in 1..Load(k)' : y = <<k, i>>
        BY <3>1
      <3>2. CASE k # h
        BY <3>i, <3>2, WritesAre
      <3>3. CASE k = h
        <4>1. i \in 1..Load(h) \/ i = Load(h) + 1
          BY <3>i, <3>3, <1>0
        <4> QED
          BY <3>i, <3>3, <4>1, WritesAre
      <3> QED
        BY <3>2, <3>3
    <2>2. ASSUME NEW y \in Writes PROVE y \in Writes'
      <3>1. PICK k \in Handles : \E i \in 1..Load(k) : y = <<k, i>>
        BY <2>2, WritesAre
      <3>i. PICK i \in 1..Load(k) : y = <<k, i>>
        BY <3>1
      <3>2. i \in 1..Load(k)'
        BY <3>i, <1>0
      <3> QED
        BY <3>i, <3>2, <1>p
    <2>3. x \in Writes'
      <3>1. Load(h) + 1 \in 1..Load(h)'
        BY <1>0
      <3> QED
        BY <3>1, <1>p
    <2> QED
      BY <2>1, <2>2, <2>3
  <1> QED
    BY <1>1, <1>2, FS_AddElement

LEMMA WritesFewer ==
    ASSUME TypeOK, IsFiniteSet(Writes), NEW h \in Handles, Load(h) > 0,
           Load(h)' = Load(h) - 1, \A k \in Handles : k # h => Load(k)' = Load(k)
    PROVE  IsFiniteSet(Writes') /\ Cardinality(Writes') = Cardinality(Writes) - 1
  <1> DEFINE x == <<h, Load(h)>>
  <1>0. Load(h) \in Nat
    BY LoadType
  <1>p. \A y : y \in Writes' <=> \E k \in Handles : \E i \in 1..Load(k)' : y = <<k, i>>
    BY WritesNext
  <1>1. x \in Writes
    BY <1>0, WritesAre
  <1>2. Writes' = Writes \ {x}
    <2>1. ASSUME NEW y \in Writes' PROVE y \in Writes \ {x}
      <3>1. PICK k \in Handles : \E i \in 1..Load(k)' : y = <<k, i>>
        BY <2>1, <1>p
      <3>i. PICK i \in 1..Load(k)' : y = <<k, i>>
        BY <3>1
      <3>2. CASE k # h
        BY <3>i, <3>2, WritesAre
      <3>3. CASE k = h
        <4>1. i \in 1..Load(h) /\ i # Load(h)
          BY <3>i, <3>3, <1>0
        <4> QED
          BY <3>i, <3>3, <4>1, WritesAre
      <3> QED
        BY <3>2, <3>3
    <2>2. ASSUME NEW y \in Writes, y # x PROVE y \in Writes'
      <3>1. PICK k \in Handles : \E i \in 1..Load(k) : y = <<k, i>>
        BY <2>2, WritesAre
      <3>i. PICK i \in 1..Load(k) : y = <<k, i>>
        BY <3>1
      <3>2. i \in 1..Load(k)'
        BY <3>i, <2>2, <1>0
      <3> QED
        BY <3>i, <3>2, <1>p
    <2> QED
      BY <2>1, <2>2
  <1> QED
    BY <1>1, <1>2, FS_RemoveElement

\* How the list of requests moves.
LEMMA RequestMoves ==
    ASSUME NEW list \in [free : Nat, total : Nat]
    PROVE  /\ req_alloc(list) \in [free : Nat, total : Nat]
           /\ req_alloc(list).total - req_alloc(list).free = list.total - list.free + 1
           /\ req_free(list) \in [free : Nat, total : Nat]
           /\ req_free(list).total - req_free(list).free = list.total - list.free - 1
  <1>1. list.free \in Nat /\ list.total \in Nat
    OBVIOUS
  <1>2. /\ req_free(list) \in [free : Nat, total : Nat]
        /\ req_free(list).total - req_free(list).free = list.total - list.free - 1
    BY <1>1 DEF req_free
  <1>3. CASE list.free > 0
    <2>1. req_alloc(list) = [list EXCEPT !.free = @ - 1]
      BY <1>3 DEF req_alloc
    <2> QED
      BY <1>1, <1>2, <1>3, <2>1
  <1>4. CASE ~(list.free > 0)
    <2>1. req_alloc(list) = [list EXCEPT !.total = @ + 1]
      BY <1>4 DEF req_alloc
    <2> QED
      BY <1>1, <1>2, <1>4, <2>1
  <1> QED
    BY <1>3, <1>4

\* The control part, for each step of the module.
LEMMA NextControl ==
    ASSUME TypeOK, TypeOK', Control, MemoryNext, fault' = "none", ~overlap', overlap \in BOOLEAN
    PROVE  Control'
  <1>1. CASE lua_client_connect /\ MemConnect
    <2>1. \A h \in Handles : h[1] \in 1..gen => status[h] = "freed"
      BY <1>1 DEF MemConnect
    <2> QED
      BY <1>1, <2>1, ControlConnectCall
  <1>2. CASE Application /\ ~lua_client_connect
    BY <1>2, ControlApplication
  <1>3. CASE Loop \/ Environment
    BY <1>3, ControlLoop, ControlEnvironment
  <1>4. ASSUME lua_client_connect PROVE MemConnect \/ Loop \/ Environment
    <2>1. gen' # gen
      BY <1>4, HandleFacts DEF lua_client_connect
    <2> QED
      BY <2>1 DEF MemoryNext, MemCommand, MemConnected, MemWritten, MemRead, MemReadEmpty,
                  MemReadError, MemOther, Loop, SessionLoop, lua_client_command, lua_client_on,
                  lua_client_disconnect, lua_client_exit
  <1> QED
    BY <1>1, <1>2, <1>3, <1>4, MemoryStep DEF Next

\* connect() takes a request for each handle of the new pair.
LEMMA CountConnect ==
    ASSUME TypeOK, Others, lua_client_connect
    PROVE  /\ Cardinality(connreq') = Cardinality(connreq) + 2
           /\ \A k \in Handles : Load(k)' = Load(k)
  <1> DEFINE a == <<gen + 1, "stream">>
             b == <<gen + 1, "sub_stream">>
  <1>1. gen \in Nat /\ a \in Handles /\ b \in Handles /\ a # b
        /\ a[1] \notin 1..gen /\ b[1] \notin 1..gen
    BY HandleFacts, BoundsAssumption DEF lua_client_connect, Handles, Gens
  <1>2. a \notin connreq /\ b \notin connreq
    BY <1>1 DEF Others
  <1>3. connreq' = (connreq \cup {a}) \cup {b}
    BY DEF lua_client_connect
  <1>4. IsFiniteSet(connreq)
    BY FiniteHandles, FS_Subset DEF TypeOK
  <1> HIDE DEF a, b
  <1>5. IsFiniteSet(connreq \cup {a}) /\ Cardinality(connreq \cup {a}) = Cardinality(connreq) + 1
    BY <1>2, <1>4, FS_AddElement
  <1>6. b \notin connreq \cup {a}
    BY <1>1, <1>2
  <1>7. Cardinality(connreq') = Cardinality(connreq \cup {a}) + 1
    BY <1>3, <1>5, <1>6, FS_AddElement
  <1>8. Cardinality(connreq) \in Nat
    BY <1>4, FS_CardinalityType
  <1>9. UNCHANGED <<queued, written>>
    BY DEF lua_client_connect
  <1> QED
    BY <1>5, <1>7, <1>8, <1>9 DEF Load

\* A connected client whose command() ends in the error path has not queued
\* the write.
LEMMA ErrorPathQueuesNothing ==
    ASSUME TypeOK, Control, NEW kind \in Kinds, lua_client_command(kind), fault' = "none",
           "CONNECTED" \in flags
    PROVE  /\ ErrorPath(TargetOf(kind)) => queued' = queued
           /\ ~ErrorPath(TargetOf(kind)) =>
                \E item \in Items :
                    queued' = [queued EXCEPT ![TargetOf(kind)] = Append(@, item)]
  <1> DEFINE h == TargetOf(kind)
  <1>1. h \in Current
    BY DEF TargetOf, Current
  <1>2. status[h] \notin {"none", "freed", "exited"}
    BY DEF lua_client_command, Fail
  <1>3. ~Exited
    BY <1>1, <1>2 DEF Exited, Current
  <1>4. ErrorPath(h) => status[h] = "closing"
    <2>1. CASE "DISCONNECTING" \in flags
      BY <2>1, <1>1, <1>2 DEF Control, Closing
    <2>2. CASE "DISCONNECTING" \notin flags
      <3>1. "FREEING" \notin flags
        BY <2>2, <1>1, <1>2, <1>3 DEF Control, Running
      <3> QED
        BY <2>2, <3>1 DEF ErrorPath
    <2> QED
      BY <2>1, <2>2
  <1>5. ErrorPath(h) => queued' = queued
    BY <1>4 DEF lua_client_command
  <1>6. ~ErrorPath(h) => \E item \in Items : queued' = [queued EXCEPT ![h] = Append(@, item)]
    <2> DEFINE item == [kind |-> kind, call |-> ncalls + 1]
    <2>1. item \in Items
      <3>1. ncalls + 1 \in Calls
        BY BoundsAssumption DEF lua_client_command, Calls, TypeOK
      <3>2. kind \in AllKinds
        BY ChoicesAssumption
      <3> QED
        BY <3>1, <3>2 DEF Items
    <2>2. ~ErrorPath(h) => queued' = [queued EXCEPT ![h] = Append(@, item)]
      BY <1>2 DEF lua_client_command, ErrorPath
    <2> QED
      BY <2>1, <2>2
  <1> QED
    BY <1>5, <1>6

LEMMA NextRequest ==
    ASSUME BufferInv, RequestInv, [MemoryNext]_<<vars, memory>>
    PROVE  RequestInv'
  <1> DEFINE lent == req_freelist.total - req_freelist.free
             pending == Cardinality(connreq) + Cardinality(Writes)
  <1>t. /\ TypeOK /\ TypeOK'
        /\ req_freelist \in [free : Nat, total : Nat] /\ overlap \in BOOLEAN /\ lent \in Int
    BY MemoryStep, NextTypeOK DEF RequestInv
  <1>1. CASE UNCHANGED <<vars, memory>>
    BY <1>1, <1>t DEF RequestInv, Control, Others, BeforeConnect, Trying, Running, Closing,
          ExitBoth, Exited, Current, Stream, SubStream, Writes, RequestsLent,
          vars, memory, context, handles, server, history
  <1>2. CASE MemoryNext
    <2>1. fault = "none" /\ (overlap => overlap') /\ overlap' \in BOOLEAN
      <3>1. Moves
        BY <1>2, <1>t, MemoryStep, ApplicationMoves, LoopMoves, EnvironmentMoves
           DEF BufferInv, Next
      <3> QED
        BY <1>2, <1>t, <3>1
           DEF Moves, MemoryNext, MemConnect, MemCommand, MemConnected, MemWritten, MemRead,
               MemReadEmpty, MemReadError, MemOther, memory
    <2>2. req_freelist' \in [free : Nat, total : Nat]
      <3>1. /\ \A list \in [free : Nat, total : Nat] :
                 /\ req_alloc(list) \in [free : Nat, total : Nat]
                 /\ req_free(list) \in [free : Nat, total : Nat]
        BY RequestMoves
      <3>2. req_freelist' \in {req_freelist, req_alloc(req_freelist), req_free(req_freelist),
                req_alloc(req_alloc(req_freelist)), req_free(req_alloc(req_freelist))}
        BY <1>2 DEF MemoryNext, MemConnect, MemCommand, MemConnected, MemWritten, MemRead,
                    MemReadEmpty, MemReadError, MemOther, memory
      <3> QED
        BY <1>t, <3>1, <3>2
    <2>3. SUFFICES ASSUME fault' = "none", ~overlap'
                   PROVE  Control' /\ IsFiniteSet(Writes') /\ lent' = pending'
      BY <1>t, <2>1, <2>2 DEF RequestInv, RequestsLent
    <2>4. Control /\ IsFiniteSet(Writes) /\ lent = pending /\ ~overlap
      BY <2>1, <2>3 DEF RequestInv, RequestsLent
    <2>5. Control'
      BY <1>2, <1>t, <2>3, <2>4, NextControl
    <2>n. /\ IsFiniteSet(connreq) /\ Cardinality(connreq) \in Nat /\ Cardinality(Writes) \in Nat
      <3>1. IsFiniteSet(connreq)
        BY <1>t, FiniteHandles, FS_Subset DEF TypeOK
      <3> QED
        BY <3>1, <2>4, FS_CardinalityType
    <2>q. queued \in [Handles -> Seq(Items)] /\ written \in [Handles -> Seq(Items)]
      BY <1>t DEF TypeOK
    <2>6. ASSUME MemConnect PROVE IsFiniteSet(Writes') /\ lent' = pending'
      <3>1. /\ Cardinality(connreq') = Cardinality(connreq) + 2
            /\ \A k \in Handles : Load(k)' = Load(k)
        BY <2>6, <1>t, <2>4, CountConnect DEF MemConnect, Control
      <3>2. Writes' = Writes
        BY <3>1, WritesSame
      <3>3. lent' = lent + 2
        <4>1. req_freelist' = req_alloc(req_alloc(req_freelist))
          BY <2>6 DEF MemConnect
        <4> QED
          BY <4>1, <1>t, RequestMoves
      <3> QED
        BY <3>1, <3>2, <3>3, <2>4, <2>n
    <2>7. ASSUME NEW kind \in Kinds, MemCommand(kind)
          PROVE  IsFiniteSet(Writes') /\ lent' = pending'
      <3>0. PICK h \in Handles : h = TargetOf(kind)
        BY <1>t, HandleFacts DEF TargetOf
      <3>1. lua_client_command(kind) /\ UNCHANGED <<connreq, written>>
        BY <2>7 DEF MemCommand, lua_client_command
      <3>2. CASE "CONNECTED" \notin flags
        <4>1. queued' = queued /\ lent' = lent
          BY <2>7, <3>2 DEF MemCommand, lua_client_command
        <4>2. Writes' = Writes
          BY <4>1, <3>1 DEF Writes
        <4> QED
          BY <4>1, <4>2, <3>1, <2>4
      <3>3. CASE "CONNECTED" \in flags /\ ErrorPath(h)
        <4>1. queued' = queued
          BY <3>0, <3>1, <3>3, <1>t, <2>3, <2>4, ErrorPathQueuesNothing
        <4>2. Writes' = Writes
          BY <4>1, <3>1 DEF Writes
        <4>3. lent' = lent
          <5>1. req_freelist' = req_free(req_alloc(req_freelist))
            BY <2>7, <3>0, <3>3 DEF MemCommand
          <5>2. /\ req_alloc(req_freelist) \in [free : Nat, total : Nat]
                /\ req_alloc(req_freelist).total - req_alloc(req_freelist).free = lent + 1
            BY <1>t, RequestMoves
          <5>3. lent' = (lent + 1) - 1
            <6> DEFINE l == req_alloc(req_freelist)
            <6>1. l \in [free : Nat, total : Nat] /\ l.total - l.free = lent + 1
              BY <5>2
            <6> HIDE DEF l
            <6>2. req_free(l).total - req_free(l).free = l.total - l.free - 1
              BY <6>1, RequestMoves
            <6>3. req_freelist' = req_free(l)
              BY <5>1 DEF l
            <6> QED
              BY <6>1, <6>2, <6>3
          <5> HIDE DEF lent
          <5> QED
            BY <5>3, <1>t
        <4> QED
          BY <4>2, <4>3, <3>1, <2>4
      <3>4. CASE "CONNECTED" \in flags /\ ~ErrorPath(h)
        <4>1. PICK item \in Items : queued' = [queued EXCEPT ![h] = Append(@, item)]
          BY <3>0, <3>1, <3>4, <1>t, <2>3, <2>4, ErrorPathQueuesNothing
        <4>4. Load(h)' = Load(h) + 1 /\ \A k \in Handles : k # h => Load(k)' = Load(k)
          BY <4>1, <3>1, <1>t, LoadQueued
        <4>5. IsFiniteSet(Writes') /\ Cardinality(Writes') = Cardinality(Writes) + 1
          BY <4>4, <1>t, <2>4, WritesMore
        <4>6. lent' = lent + 1
          <5>1. req_freelist' = req_alloc(req_freelist)
            BY <2>7, <3>0, <3>4 DEF MemCommand
          <5> QED
            BY <5>1, <1>t, RequestMoves
        <4> QED
          BY <4>5, <4>6, <3>1, <2>4, <2>n
      <3> QED
        BY <3>2, <3>3, <3>4
    <2>8. ASSUME NEW h \in Handles, MemConnected(h)
          PROVE  IsFiniteSet(Writes') /\ lent' = pending'
      <3>1. /\ h \in connreq /\ connreq' = connreq \ {h} /\ UNCHANGED <<queued, written>>
            /\ req_freelist' = req_free(req_freelist)
        BY <2>8 DEF MemConnected, on_connect, on_connect_error
      <3>2. Writes' = Writes
        BY <3>1 DEF Writes
      <3>4. Cardinality(connreq') = Cardinality(connreq) - 1
        BY <3>1, <2>n, FS_RemoveElement
      <3>3. lent' = lent - 1
        BY <3>1, <1>t, RequestMoves
      <3> QED
        BY <3>2, <3>3, <3>4, <2>4, <2>n
    <2>9. ASSUME NEW h \in Handles, MemWritten(h)
          PROVE  IsFiniteSet(Writes') /\ lent' = pending'
      <3>1. UNCHANGED connreq /\ req_freelist' = req_free(req_freelist)
        BY <2>9 DEF MemWritten, on_write, on_write_error
      <3>2. Load(h) > 0 /\ Load(h)' = Load(h) - 1 /\ \A k \in Handles : k # h => Load(k)' = Load(k)
        <4>1. CASE on_write(h)
          <5>1. /\ written[h] # <<>> /\ written' = [written EXCEPT ![h] = Tail(@)]
                /\ queued' = queued
            BY <4>1 DEF on_write
          <5> QED
            BY <5>1, <1>t, LoadWritten
        <4>2. CASE on_write_error(h)
          <5>1. /\ queued[h] # <<>> /\ queued' = [queued EXCEPT ![h] = Tail(@)]
                /\ written' = written
            BY <4>2 DEF on_write_error
          <5> QED
            BY <5>1, <1>t, LoadUnsent
        <4> QED
          BY <2>9, <4>1, <4>2 DEF MemWritten
      <3>3. IsFiniteSet(Writes') /\ Cardinality(Writes') = Cardinality(Writes) - 1
        BY <3>2, <1>t, <2>4, WritesFewer
      <3>4. lent' = lent - 1
        BY <3>1, <1>t, RequestMoves
      <3> QED
        BY <3>1, <3>3, <3>4, <2>4, <2>n
    <2>10. ASSUME NEW h \in Handles, Flush(h), UNCHANGED memory
           PROVE  IsFiniteSet(Writes') /\ lent' = pending'
      <3>1. /\ queued[h] # <<>> /\ queued' = [queued EXCEPT ![h] = Tail(@)]
            /\ written' = [written EXCEPT ![h] = Append(@, Head(queued[h]))]
            /\ UNCHANGED <<connreq, req_freelist>>
        BY <2>10 DEF Flush, memory
      <3>2. \A k \in Handles : Load(k)' = Load(k)
        BY <3>1, <1>t, LoadFlushed
      <3>3. Writes' = Writes
        BY <3>2, WritesSame
      <3> QED
        BY <3>1, <3>3, <2>4
    <2>11. CASE UNCHANGED <<req_freelist, connreq, queued, written>>
      <3>1. Writes' = Writes
        BY <2>11 DEF Writes
      <3> QED
        BY <2>4, <2>5, <2>11, <3>1
    <2>12. \/ UNCHANGED <<req_freelist, connreq, queued, written>>
           \/ MemConnect
           \/ \E kind \in Kinds : MemCommand(kind)
           \/ \E h \in Handles : MemConnected(h) \/ MemWritten(h)
           \/ \E h \in Handles : Flush(h) /\ UNCHANGED memory
      BY <1>2, ZenonT(30) DEF MemoryNext, MemRead, MemReadEmpty, MemReadError, MemOther, memory, handles,
                  Environment, lua_client_on, lua_client_disconnect, lua_client_exit,
                  on_disconnect, LoopFinishesExit, on_read_reply, on_read_done,
                  on_read_error_close, on_read, on_read_empty, on_read_error, Push, ServerCloses
    <2> QED
      BY <2>5, <2>6, <2>7, <2>8, <2>9, <2>10, <2>11, <2>12
  <1> QED
    BY <1>1, <1>2

\* No request of the free list is in the hands of libuv and none is lost,
\* whatever fails and whatever the application calls, as long as connect()
\* waits for on_disconnect to release the last pair of handles.
THEOREM RequestsAreLent == MemorySpec => []RequestsLent
  <1>1. ASSUME MemoryInit PROVE RequestInv
    <2>1. TypeOK
      BY <1>1, InitTypeOK DEF MemoryInit
    <2>e. /\ gen = 0 /\ flags = {} /\ stream_flags = {} /\ data = {} /\ connreq = {}
          /\ \A h \in Handles : status[h] = "none" /\ queued[h] = <<>> /\ written[h] = <<>>
          /\ req_freelist = [free |-> 0, total |-> 0] /\ overlap = FALSE
      BY <1>1 DEF MemoryInit, Init
    <2>2. Control
      <3>1. Others
        BY <2>e DEF Others
      <3>2. status[Stream] = "none" /\ status[SubStream] = "none"
        BY <2>1, <2>e, HandleFacts
      <3> QED
        BY <3>1, <3>2, <2>e DEF Control, BeforeConnect, Trying, Running, Closing, ExitBoth
    <2>3. Writes = {}
      <3>1. \A h \in Handles : Load(h) = 0
        <4>1. \A h \in Handles : Load(h) = Len(<<>>) + Len(<<>>)
          BY <2>e DEF Load
        <4> QED
          BY <4>1
      <3>2. \A h \in Handles : 1..Load(h) = {}
        BY <3>1
      <3> QED
        BY <3>2, WritesAre
    <2>4. IsFiniteSet(Writes) /\ Cardinality(Writes) = 0 /\ Cardinality(connreq) = 0
      BY <2>3, <2>e, FS_EmptySet
    <2>5. req_freelist \in [free : Nat, total : Nat] /\ req_freelist.total - req_freelist.free = 0
      BY <2>e
    <2>6. RequestsLent
      BY <2>4, <2>5 DEF RequestsLent
    <2>7. overlap \in BOOLEAN
      BY <2>e
    <2> QED
      BY <2>1, <2>2, <2>4, <2>5, <2>6, <2>7 DEF RequestInv
  <1>2. BufferInv /\ RequestInv /\ [MemoryNext]_<<vars, memory>> => RequestInv'
    BY NextRequest
  <1>3. RequestInv => RequestsLent
    BY DEF RequestInv
  <1> QED
    BY <1>1, <1>2, <1>3, Buffers, PTL DEF MemorySpec
=============================================================================
