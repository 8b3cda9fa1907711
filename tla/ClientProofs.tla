---------------------------- MODULE ClientProofs ----------------------------
(***************************************************************************)
(* Proofs about the client, for every bound, every kind of command, every  *)
(* failure and every application.                                          *)
(***************************************************************************)
EXTENDS Client, SequenceTheorems, TLAPS

LEMMA InitTypeOK == Init => TypeOK
  BY BoundsAssumption
     DEF Init, TypeOK, Handles, Gens, NoHandle, Idle, Faults, Calls,
         EventNames, Statuses

\* The parts of a sequence of items that a read takes and leaves.
LEMMA CutItems ==
    ASSUME NEW s \in Seq(Items), NEW n \in 0..Len(s)
    PROVE  SubSeq(s, 1, n) \in Seq(Items) /\ SubSeq(s, n + 1, Len(s)) \in Seq(Items)
  <1>1. Len(s) \in Nat /\ \A i \in 1..Len(s) : s[i] \in Items
    BY LenProperties
  <1>2. /\ \A i \in 1..n : s[i] \in Items
        /\ \A i \in (n + 1)..Len(s) : s[i] \in Items
    BY <1>1
  <1>3. SubSeq(s, 1, n) \in Seq(Items)
    BY <1>1, <1>2, SubSeqProperties
  <1>4. SubSeq(s, n + 1, Len(s)) \in Seq(Items)
    BY <1>1, <1>2, SubSeqProperties
  <1> QED
    BY <1>3, <1>4

\* The head of a sequence of items, and what is behind it.
LEMMA HeadItem ==
    ASSUME NEW S, NEW s \in Seq(S), s # <<>>
    PROVE  Head(s) \in S /\ Tail(s) \in Seq(S)
  BY HeadTailProperties

LEMMA ItemHead ==
    ASSUME NEW s \in Seq(Items), s # <<>>
    PROVE  Head(s) \in Items /\ Tail(s) \in Seq(Items) /\ Head(s).call \in Calls
  <1>1. Head(s) \in Items /\ Tail(s) \in Seq(Items)
    BY HeadItem
  <1>2. \A x \in Items : x.call \in Calls
    BY DEF Items
  <1> QED
    BY <1>1, <1>2

LEMMA ShiftTypeOK ==
    ASSUME NEW list \in Seq(Calls \cup {StackCb}), NEW kind \in {"reply", "error"},
           NEW of \in Calls, NEW ifEmpty \in Faults,
           outcome \in [Calls -> Seq(Outcomes)],
           ShiftAndCall(list, kind, of, ifEmpty)
    PROVE  /\ command_cb_list' \in Seq(Calls \cup {StackCb})
           /\ outcome' \in [Calls -> Seq(Outcomes)]
           /\ fault' \in Faults
  <1>1. CASE list = <<>>
    BY <1>1 DEF ShiftAndCall, Fail
  <1>2. CASE list # <<>>
    <2>1. Head(list) \in Calls \cup {StackCb} /\ Tail(list) \in Seq(Calls \cup {StackCb})
      BY <1>2, HeadItem
    <2>2. CASE Head(list) = StackCb
      BY <1>2, <2>1, <2>2 DEF ShiftAndCall, Fail, Faults
    <2>3. CASE Head(list) # StackCb
      <3>1. /\ outcome' = [outcome EXCEPT ![Head(list)] =
                             Append(@, [kind |-> kind, of |-> of])]
            /\ fault' = "none" /\ command_cb_list' = Tail(list)
        BY <1>2, <2>3 DEF ShiftAndCall, Fail
      <3>2. Head(list) \in Calls
        BY <2>1, <2>3
      <3>3. outcome[Head(list)] \in Seq(Outcomes) /\ [kind |-> kind, of |-> of] \in Outcomes
        BY <3>2 DEF Outcomes
      <3>4. Append(outcome[Head(list)], [kind |-> kind, of |-> of]) \in Seq(Outcomes)
        BY <3>3
      <3> QED
        BY <3>1, <3>4, <2>1 DEF Faults
    <2> QED
      BY <2>2, <2>3
  <1> QED
    BY <1>1, <1>2

LEMMA CloseFaultType == \A h \in Handles : CloseFault(h) \in Faults
  BY DEF CloseFault, Faults

\* The calls of the application keep the types.
LEMMA ApplicationTypeOK ==
    ASSUME TypeOK, Application PROVE TypeOK'
  <1> USE BoundsAssumption, ChoicesAssumption
  <1>g. gen \in Nat /\ Stream \in Handles /\ SubStream \in Handles
    BY DEF TypeOK, Gens, Handles, Stream, SubStream
  <1>1. ASSUME NEW e \in Listeners, lua_client_on(e) PROVE TypeOK'
    BY <1>1 DEF lua_client_on, TypeOK, handles, server, history
  <1>2. ASSUME lua_client_connect PROVE TypeOK'
    <2>1. /\ gen + 1 \in Gens
          /\ {<<gen + 1, "stream">>, <<gen + 1, "sub_stream">>} \subseteq Handles
      BY <1>2 DEF lua_client_connect, TypeOK, Gens, Handles
    <2> QED
      BY <2>1, <1>2 DEF lua_client_connect, TypeOK, server, history, Statuses
  <1>3. ASSUME NEW kind \in Kinds, lua_client_command(kind) PROVE TypeOK'
    <2> DEFINE call == ncalls + 1
    <2> DEFINE item == [kind |-> kind, call |-> call]
    <2>1. call \in Calls /\ call \in 0..MaxCalls /\ item \in Items
      BY <1>3 DEF lua_client_command, TypeOK, Calls, Items, AllKinds
    <2>2. Register(kind, call) \in Seq(Calls \cup {StackCb})
      BY <2>1 DEF Register, TypeOK
    <2>3. TargetOf(kind) \in Handles
      BY <1>g DEF TargetOf
    <2>4. queued' \in [Handles -> Seq(Items)]
      <3>1. Append(queued[TargetOf(kind)], item) \in Seq(Items)
        BY <2>1, <2>3 DEF TypeOK
      <3> QED
        BY <3>1, <1>3 DEF lua_client_command, TypeOK
    <2>5. /\ command_cb_list' \in Seq(Calls \cup {StackCb})
          /\ outcome' \in [Calls -> Seq(Outcomes)]
          /\ fault' \in Faults
      <3>1. \/ ShiftAndCall(Register(kind, call), "error", call, "none")
            \/ /\ command_cb_list' = Register(kind, call)
               /\ outcome' = outcome
               /\ fault' \in {"use_after_free", fault}
        BY <1>3 DEF lua_client_command, Fail
      <3>2. CASE ShiftAndCall(Register(kind, call), "error", call, "none")
        BY <3>2, <2>1, <2>2, ShiftTypeOK DEF TypeOK, Faults
      <3> QED
        BY <3>1, <3>2, <2>2 DEF TypeOK, Faults
    <2>6. channels' \subseteq Calls /\ flags' \subseteq FlagNames
      BY <1>3, <2>1 DEF lua_client_command, TypeOK, FlagNames
    <2>7. UNCHANGED <<gen, stream_flags, listeners, status, data, reading,
                      connreq, written, wire, subscribed, eof, nmessages,
                      handler, events>>
          /\ ncalls' = call
      BY <1>3 DEF lua_client_command, server
    <2> HIDE DEF call, item
    <2> QED
      BY <2>1, <2>4, <2>5, <2>6, <2>7 DEF TypeOK
  <1>4. ASSUME lua_client_disconnect PROVE TypeOK'
    <2>1. fault' \in Faults
      BY <1>4, <1>g, CloseFaultType DEF lua_client_disconnect, Fail
    <2>2. status' \in [Handles -> Statuses]
      BY <1>4 DEF lua_client_disconnect, TypeOK, Statuses
    <2> QED
      BY <1>4, <1>g, <2>1, <2>2 DEF lua_client_disconnect, TypeOK, server, FlagNames
  <1>5. ASSUME lua_client_exit PROVE TypeOK'
    <2>1. fault' \in Faults
      BY <1>5, <1>g, CloseFaultType DEF lua_client_exit, Fail, Faults
    <2>2. status' \in [Handles -> Statuses]
      BY <1>5 DEF lua_client_exit, TypeOK, Statuses
    <2>3. /\ command_cb_list' = <<>> /\ stream_flags' = {} /\ channels' = {}
          /\ reading' \subseteq reading
          /\ UNCHANGED <<gen, flags, listeners, data, connreq, queued, written,
                         wire, subscribed, eof, nmessages, handler, ncalls,
                         outcome, events>>
      BY <1>5 DEF lua_client_exit, server, Destroyed
    <2>4. command_cb_list' \in Seq(Calls \cup {StackCb})
      BY <2>3
    <2> QED
      BY <2>1, <2>2, <2>3, <2>4 DEF TypeOK
  <1> QED
    BY <1>1, <1>2, <1>3, <1>4, <1>5 DEF Application, SessionCalls

\* The callbacks of the loop keep the types.
LEMMA LoopTypeOK ==
    ASSUME TypeOK, Loop PROVE TypeOK'
  <1> USE BoundsAssumption, ChoicesAssumption
  <1>g. gen \in Nat /\ Stream \in Handles /\ SubStream \in Handles
    BY DEF TypeOK, Gens, Handles, Stream, SubStream
  <1>e. ASSUME NEW e \in EventNames, Emit(e) PROVE events' \in [Gens -> [EventNames -> Nat]]
    BY <1>e DEF Emit, TypeOK
  <1>i. Idle \in [at : {"idle", "loop", "callback", "error"}, h : Handles,
                  sub : BOOLEAN, chunk : Seq(Items)]
    BY DEF Idle, NoHandle, Handles, Gens
  <1>1. ASSUME NEW h \in Handles, on_connect(h) PROVE TypeOK'
    <2>1. stream_flags' \subseteq StreamFlagNames /\ flags' \subseteq FlagNames
      BY <1>1 DEF on_connect, TypeOK, StreamFlagUp, StreamFlagNames, FlagNames
    <2>2. events' \in [Gens -> [EventNames -> Nat]]
      <3>1. Emit("connect") \/ events' = events
        BY <1>1 DEF on_connect
      <3> QED
        BY <3>1, <1>e DEF EventNames, TypeOK
    <2>3. status' \in [Handles -> Statuses] /\ connreq' \subseteq Handles
      BY <1>1 DEF on_connect, TypeOK, Statuses
    <2>4. UNCHANGED <<gen, listeners, command_cb_list, channels, data, reading,
                      queued, written, wire, subscribed, eof, nmessages,
                      handler, ncalls, outcome, fault>>
      BY <1>1 DEF on_connect, server
    <2> QED
      BY <2>1, <2>2, <2>3, <2>4 DEF TypeOK
  <1>2. ASSUME NEW h \in Handles, on_connect_error(h) PROVE TypeOK'
    <2>1. status' \in [Handles -> Statuses]
      BY <1>2, <1>g DEF on_connect_error, TypeOK, Statuses
    <2>2. events' \in [Gens -> [EventNames -> Nat]]
      <3>1. Emit("error") \/ events' = events
        BY <1>2 DEF on_connect_error
      <3> QED
        BY <3>1, <1>e DEF EventNames, TypeOK
    <2>3. fault' \in Faults /\ reading' \subseteq Handles /\ connreq' \subseteq Handles
      BY <1>2, <1>g, CloseFaultType DEF on_connect_error, Fail, TypeOK
    <2>4. UNCHANGED <<gen, flags, stream_flags, listeners, command_cb_list,
                      channels, data, queued, written, wire, subscribed, eof,
                      nmessages, handler, ncalls, outcome>>
      BY <1>2 DEF on_connect_error, server
    <2> QED
      BY <2>1, <2>2, <2>3, <2>4 DEF TypeOK
  <1>3. ASSUME NEW h \in Handles, on_write(h) PROVE TypeOK'
    <2>1. /\ Head(written[h]) \in Items /\ Tail(written[h]) \in Seq(Items)
          /\ Head(written[h]).call \in Calls
      BY <1>3, ItemHead DEF on_write, TypeOK
    <2>2. /\ command_cb_list' \in Seq(Calls \cup {StackCb})
          /\ outcome' \in [Calls -> Seq(Outcomes)]
          /\ fault' \in Faults
      <3>1. \/ ShiftAndCall(command_cb_list, "error", Head(written[h]).call, "none")
            \/ UNCHANGED <<command_cb_list, outcome, fault>>
        BY <1>3 DEF on_write
      <3> QED
        BY <3>1, <2>1, ShiftTypeOK DEF TypeOK, Faults
    <2>3. /\ written' \in [Handles -> Seq(Items)]
          /\ data' \subseteq Handles /\ reading' \subseteq Handles
      BY <1>3, <2>1 DEF on_write, TypeOK
    <2>4. UNCHANGED <<gen, flags, stream_flags, listeners, channels, status,
                      connreq, queued, wire, subscribed, eof, nmessages,
                      handler, ncalls, events>>
      BY <1>3 DEF on_write, server
    <2> QED
      BY <2>2, <2>3, <2>4 DEF TypeOK
  <1>4. ASSUME NEW h \in Handles, on_write_error(h) PROVE TypeOK'
    <2>1. /\ Head(queued[h]) \in Items /\ Tail(queued[h]) \in Seq(Items)
          /\ Head(queued[h]).call \in Calls
      BY <1>4, ItemHead DEF on_write_error, TypeOK
    <2>2. /\ command_cb_list' \in Seq(Calls \cup {StackCb})
          /\ outcome' \in [Calls -> Seq(Outcomes)]
          /\ fault' \in Faults
      BY <1>4, <2>1, ShiftTypeOK DEF on_write_error, TypeOK, Faults
    <2>3. queued' \in [Handles -> Seq(Items)] /\ data' \subseteq Handles
      BY <1>4, <2>1 DEF on_write_error, TypeOK
    <2>4. UNCHANGED <<gen, flags, stream_flags, listeners, channels, status,
                      reading, connreq, written, wire, subscribed, eof,
                      nmessages, handler, ncalls, events>>
      BY <1>4 DEF on_write_error, server
    <2> QED
      BY <2>2, <2>3, <2>4 DEF TypeOK
  <1>5. ASSUME NEW h \in Handles, NEW n \in 1..Len(wire[h]), on_read(h, n) PROVE TypeOK'
    <2>1. wire[h] \in Seq(Items) /\ Len(wire[h]) \in Nat /\ n \in 0..Len(wire[h])
      BY DEF TypeOK
    <2>2. /\ SubSeq(wire[h], 1, n) \in Seq(Items)
          /\ SubSeq(wire[h], n + 1, Len(wire[h])) \in Seq(Items)
      BY <2>1, CutItems
    <2>3. wire' \in [Handles -> Seq(Items)]
      BY <1>5, <2>2 DEF on_read, TypeOK
    <2>4. handler' \in [at : {"idle", "loop", "callback", "error"}, h : Handles,
                        sub : BOOLEAN, chunk : Seq(Items)]
      BY <1>5, <2>2, <1>i DEF on_read
    <2>5. UNCHANGED <<context, handles, subscribed, eof, nmessages, history>>
      BY <1>5 DEF on_read
    <2> QED
      BY <2>3, <2>4, <2>5 DEF TypeOK, context, handles, history
  <1>6. ASSUME NEW h \in Handles, on_read_error(h) PROVE TypeOK'
    <2>1. events' \in [Gens -> [EventNames -> Nat]]
      <3>1. Emit("error") \/ events' = events
        BY <1>6 DEF on_read_error
      <3> QED
        BY <3>1, <1>e DEF EventNames, TypeOK
    <2>2. handler' \in [at : {"idle", "loop", "callback", "error"}, h : Handles,
                        sub : BOOLEAN, chunk : Seq(Items)]
      <3>1. [at |-> "error", h |-> h, sub |-> h = SubStream, chunk |-> <<>>] \in
              [at : {"idle", "loop", "callback", "error"}, h : Handles,
               sub : BOOLEAN, chunk : Seq(Items)]
        OBVIOUS
      <3> QED
        BY <3>1, <1>6 DEF on_read_error, TypeOK
    <2>3. /\ UNCHANGED <<context, status, data, connreq, queued, written, server,
                         ncalls, outcome, fault>>
          /\ reading' \subseteq reading
      BY <1>6 DEF on_read_error
    <2> QED
      BY <2>1, <2>2, <2>3 DEF TypeOK, context, server
  <1>7. ASSUME NEW h \in Handles, on_disconnect(h) PROVE TypeOK'
    <2>1. /\ status' \in [Handles -> Statuses]
          /\ stream_flags' \subseteq StreamFlagNames /\ flags' \subseteq FlagNames
          /\ channels' \subseteq Calls
      BY <1>7 DEF on_disconnect, TypeOK, Statuses, StreamFlagDown, FlagNames
    <2>2. command_cb_list' \in Seq(Calls \cup {StackCb}) /\ fault' \in Faults
      <3>1. command_cb_list' \in {<<>>, command_cb_list}
        BY <1>7 DEF on_disconnect, Destroyed
      <3>2. fault' \in Faults
        BY <1>7 DEF on_disconnect, Fail, Faults, TypeOK
      <3>3. <<>> \in Seq(Calls \cup {StackCb})
        OBVIOUS
      <3> QED
        BY <3>1, <3>2, <3>3 DEF TypeOK
    <2>3. events' \in [Gens -> [EventNames -> Nat]]
      <3>1. Emit("disconnect") \/ events' = events
        BY <1>7 DEF on_disconnect
      <3> QED
        BY <3>1, <1>e DEF EventNames, TypeOK
    <2>4. UNCHANGED <<gen, listeners, data, reading, connreq, queued, written,
                      wire, subscribed, eof, nmessages, handler, ncalls, outcome>>
      BY <1>7 DEF on_disconnect, server
    <2> QED
      BY <2>1, <2>2, <2>3, <2>4 DEF TypeOK
  <1>8. ASSUME NEW h \in Handles, LoopFinishesExit(h) PROVE TypeOK'
    BY <1>8 DEF LoopFinishesExit, Fail, Faults, TypeOK, context, handles, server
  <1>9. ASSUME on_read_reply PROVE TypeOK'
    <2>1. /\ Head(handler.chunk) \in Items /\ Tail(handler.chunk) \in Seq(Items)
          /\ Head(handler.chunk).call \in Calls
      <3>1. handler.chunk \in Seq(Items) /\ handler.chunk # <<>>
        BY <1>9 DEF on_read_reply, TypeOK
      <3> QED
        BY <3>1, ItemHead
    <2>2. /\ command_cb_list' \in Seq(Calls \cup {StackCb})
          /\ outcome' \in [Calls -> Seq(Outcomes)]
          /\ fault' \in Faults
      <3>1. CASE handler.sub
        BY <3>1, <1>9 DEF on_read_reply, TypeOK, Fail, Faults
      <3>2. CASE ~handler.sub
        <4>1. ShiftAndCall(command_cb_list, "reply", Head(handler.chunk).call,
                           "stale_callback")
          BY <3>2, <1>9 DEF on_read_reply
        <4> QED
          BY <4>1, <2>1, ShiftTypeOK DEF TypeOK, Faults
      <3> QED
        BY <3>1, <3>2
    <2>3. handler' \in [at : {"idle", "loop", "callback", "error"}, h : Handles,
                        sub : BOOLEAN, chunk : Seq(Items)]
      BY <1>9, <2>1 DEF on_read_reply, TypeOK
    <2>4. UNCHANGED <<gen, flags, stream_flags, listeners, channels, handles,
                      server, ncalls, events>>
      BY <1>9 DEF on_read_reply
    <2> QED
      BY <2>2, <2>3, <2>4 DEF TypeOK, handles, server
  <1>10. ASSUME on_read_done PROVE TypeOK'
    <2>1. command_cb_list' \in Seq(Calls \cup {StackCb}) /\ reading' \subseteq reading
      <3>1. /\ command_cb_list \in Seq(Calls \cup {StackCb})
            /\ StackCb \in Calls \cup {StackCb}
        BY DEF TypeOK
      <3>2. Append(command_cb_list, StackCb) \in Seq(Calls \cup {StackCb})
        BY <3>1
      <3>3. command_cb_list' \in {command_cb_list, Append(command_cb_list, StackCb)}
        BY <1>10 DEF on_read_done
      <3>4. reading' \subseteq reading
        BY <1>10 DEF on_read_done
      <3> QED
        BY <3>1, <3>2, <3>3, <3>4
    <2>2. handler' = Idle
          /\ UNCHANGED <<gen, flags, stream_flags, listeners, channels, status,
                         data, connreq, queued, written, server, history>>
      BY <1>10 DEF on_read_done
    <2> QED
      BY <2>1, <2>2, <1>i DEF TypeOK, server, history
  <1>11. ASSUME on_read_error_close PROVE TypeOK'
    <2>1. handler.h \in Handles
      BY DEF TypeOK
    <2>2. fault' \in Faults /\ status' \in [Handles -> Statuses]
      BY <2>1, <1>11, CloseFaultType DEF on_read_error_close, Fail, TypeOK, Statuses
    <2>3. handler' = Idle
          /\ UNCHANGED <<context, data, reading, connreq, queued, written,
                         server, ncalls, outcome, events>>
      BY <1>11 DEF on_read_error_close
    <2> QED
      BY <2>2, <2>3, <1>i DEF TypeOK, context, server
  <1>12. ASSUME NEW h \in Handles, on_read_empty(h) PROVE TypeOK'
    <2>1. /\ UNCHANGED <<context, status, data, connreq, queued, written, server,
                         handler, history>>
          /\ reading' \subseteq reading
      BY <1>12 DEF on_read_empty
    <2> QED
      BY <2>1 DEF TypeOK, context, server, history
  <1> QED
    BY <1>1, <1>2, <1>3, <1>4, <1>5, <1>6, <1>7, <1>8, <1>9, <1>10, <1>11, <1>12
       DEF Loop, SessionLoop

\* The server and libuv keep the types.
LEMMA EnvironmentTypeOK ==
    ASSUME TypeOK, Environment PROVE TypeOK'
  <1> USE BoundsAssumption
  <1>1. ASSUME NEW h \in Handles, Flush(h) PROVE TypeOK'
    <2>1. Head(queued[h]) \in Items /\ Tail(queued[h]) \in Seq(Items)
          /\ Head(queued[h]).call \in Calls
      BY <1>1, ItemHead DEF Flush, TypeOK
    <2>2. /\ Append(written[h], Head(queued[h])) \in Seq(Items)
          /\ Append(wire[h], Head(queued[h])) \in Seq(Items)
      BY <2>1 DEF TypeOK
    <2>3. /\ queued' \in [Handles -> Seq(Items)]
          /\ written' \in [Handles -> Seq(Items)]
          /\ wire' \in [Handles -> Seq(Items)]
      BY <1>1, <2>1, <2>2 DEF Flush, TypeOK
    <2>4. subscribed' \in [Handles -> SUBSET Calls]
      BY <1>1, <2>1 DEF Flush, TypeOK
    <2>5. UNCHANGED <<context, status, data, reading, connreq, eof, nmessages,
                      handler, history>>
      BY <1>1 DEF Flush
    <2> QED
      BY <2>3, <2>4, <2>5 DEF TypeOK, context, history
  <1>2. ASSUME NEW h \in Handles, NEW c \in subscribed[h], Push(h, c) PROVE TypeOK'
    <2> DEFINE item == [kind |-> IF h[2] = "stream" THEN "feed" ELSE "message",
                        call |-> c]
    <2>1. item \in Items
      BY DEF TypeOK, Items
    <2>2. Append(wire[h], item) \in Seq(Items)
      BY <2>1 DEF TypeOK
    <2>3. wire' \in [Handles -> Seq(Items)] /\ nmessages' \in 0..MaxMessages
      BY <1>2, <2>2 DEF Push, TypeOK
    <2>4. UNCHANGED <<context, handles, subscribed, eof, handler, history>>
      BY <1>2 DEF Push
    <2> QED
      BY <2>3, <2>4 DEF TypeOK, context, handles, history
  <1>3. ASSUME NEW h \in Handles, NEW n \in 0..Len(wire[h]), ServerCloses(h, n)
        PROVE  TypeOK'
    <2>1. SubSeq(wire[h], 1, n) \in Seq(Items)
      BY CutItems DEF TypeOK
    <2>2. wire' \in [Handles -> Seq(Items)] /\ eof' \subseteq Handles
      BY <1>3, <2>1 DEF ServerCloses, TypeOK
    <2>3. UNCHANGED <<context, handles, subscribed, nmessages, handler, history>>
      BY <1>3 DEF ServerCloses
    <2> QED
      BY <2>2, <2>3 DEF TypeOK, context, handles, history
  <1> QED
    BY <1>1, <1>2, <1>3 DEF Environment

LEMMA NextTypeOK == TypeOK /\ [Next]_vars => TypeOK'
  <1>1. TypeOK /\ UNCHANGED vars => TypeOK'
    BY DEF TypeOK, vars, context, handles, server, history
  <1> QED
    BY <1>1, ApplicationTypeOK, LoopTypeOK, EnvironmentTypeOK DEF Next

\* The client context, its handles and the server keep their types.
THEOREM TypeCorrect == Spec => []TypeOK
  <1>1. Init => TypeOK
    BY InitTypeOK
  <1>2. TypeOK /\ [Next]_vars => TypeOK'
    BY NextTypeOK
  <1> QED
    BY <1>1, <1>2, PTL DEF Spec

-----------------------------------------------------------------------------
(* A callback is called at most once, and callbacks wait in call order.    *)

\* The inductive invariant, of a command list, the outcomes and the number
\* of calls: an entry is a call that was made and has no outcome yet, entries
\* are in increasing order, a call not made yet has no outcome.
Waits(list, out, n) ==
    /\ \A i \in DOMAIN list : list[i] # StackCb => list[i] <= n /\ out[list[i]] = <<>>
    /\ \A i, j \in DOMAIN list :
         i < j /\ list[i] # StackCb /\ list[j] # StackCb => list[i] < list[j]
    /\ \A c \in Calls : (c > n => out[c] = <<>>) /\ Len(out[c]) <= 1

WInv == TypeOK /\ Waits(command_cb_list, outcome, ncalls)

LEMMA WaitsEmpty ==
    ASSUME NEW list, NEW out, NEW n, Waits(list, out, n)
    PROVE  Waits(<<>>, out, n)
  BY DEF Waits

\* push_cb of a new call.
LEMMA WaitsCall ==
    ASSUME NEW list \in Seq(Calls \cup {StackCb}), NEW out, NEW n \in Nat,
           n + 1 \in Calls, Waits(list, out, n)
    PROVE  Waits(Append(list, n + 1), out, n + 1) /\ Waits(list, out, n + 1)
  <1> DEFINE t == Append(list, n + 1)
  <1>0. /\ Len(list) \in Nat /\ DOMAIN list = 1..Len(list)
        /\ \A i \in DOMAIN list : list[i] \in Calls \cup {StackCb}
    BY LenProperties
  <1>1. /\ DOMAIN t = 1..(Len(list) + 1) /\ t[Len(list) + 1] = n + 1
        /\ \A i \in 1..Len(list) : t[i] = list[i]
    BY <1>0
  <1> HIDE DEF t
  <1>2. \A i \in DOMAIN t : i = Len(list) + 1 \/ (i \in DOMAIN list /\ t[i] = list[i])
    <2>1. \A i \in 1..(Len(list) + 1) : i = Len(list) + 1 \/ i \in 1..Len(list)
      BY <1>0
    <2>2. ASSUME NEW i \in DOMAIN t
          PROVE  i = Len(list) + 1 \/ (i \in DOMAIN list /\ t[i] = list[i])
      <3>1. i \in 1..(Len(list) + 1)
        BY <1>1
      <3>2. i = Len(list) + 1 \/ i \in 1..Len(list)
        BY <3>1, <2>1
      <3>3. ASSUME i \in 1..Len(list)
            PROVE  i \in DOMAIN list /\ t[i] = list[i]
        BY <3>3, <1>0, <1>1
      <3> QED
        BY <3>2, <3>3
    <2> QED
      BY <2>2
  <1>3. \A i \in DOMAIN list : list[i] # StackCb => list[i] \in Nat /\ list[i] <= n
    BY <1>0, BoundsAssumption DEF Waits, Calls
  <1>4. out[n + 1] = <<>> /\ n + 1 \in Nat
    BY DEF Waits
  <1>5. \A i \in DOMAIN t : t[i] # StackCb => t[i] <= n + 1 /\ out[t[i]] = <<>>
    <2> SUFFICES ASSUME NEW i \in DOMAIN t, t[i] # StackCb
                 PROVE  t[i] <= n + 1 /\ out[t[i]] = <<>>
      OBVIOUS
    <2>1. CASE i = Len(list) + 1
      BY <2>1, <1>1, <1>4
    <2>2. CASE i \in DOMAIN list /\ t[i] = list[i]
      <3>1. list[i] \in Nat /\ list[i] <= n /\ out[list[i]] = <<>>
        BY <2>2, <1>3 DEF Waits
      <3> QED
        BY <3>1, <2>2
    <2> QED
      BY <2>1, <2>2, <1>2
  <1>6. ASSUME NEW i \in DOMAIN t, NEW j \in DOMAIN t, i < j,
               t[i] # StackCb, t[j] # StackCb
        PROVE  t[i] < t[j]
    <2>1. i \in DOMAIN list /\ t[i] = list[i]
      BY <1>0, <1>1, <1>2, <1>6
    <2>2. CASE j = Len(list) + 1
      <3>1. list[i] \in Nat /\ list[i] <= n
        BY <2>1, <1>3, <1>6
      <3>2. t[j] = n + 1
        BY <2>2, <1>1
      <3> QED
        BY <3>1, <3>2, <2>1
    <2>3. CASE j \in DOMAIN list /\ t[j] = list[j]
      BY <2>1, <2>3, <1>6 DEF Waits
    <2> QED
      BY <2>2, <2>3, <1>2
  <1>7. \A c \in Calls : c > n + 1 => c > n
    BY BoundsAssumption DEF Calls
  <1>8. \A i \in DOMAIN list : list[i] # StackCb => list[i] <= n + 1
    BY <1>3
  <1>9. Waits(list, out, n + 1)
    BY <1>7, <1>8 DEF Waits
  <1> QED
    BY <1>5, <1>6, <1>7, <1>9 DEF Waits, t

\* push_cb of the stack callback of a monitor.
LEMMA WaitsStack ==
    ASSUME NEW list \in Seq(Calls \cup {StackCb}), NEW out, NEW n,
           Waits(list, out, n)
    PROVE  Waits(Append(list, StackCb), out, n)
  <1> DEFINE t == Append(list, StackCb)
  <1>0. Len(list) \in Nat /\ DOMAIN list = 1..Len(list)
    BY LenProperties
  <1>1. /\ DOMAIN t = 1..(Len(list) + 1) /\ t[Len(list) + 1] = StackCb
        /\ \A i \in 1..Len(list) : t[i] = list[i]
    BY <1>0
  <1> HIDE DEF t
  <1>2. \A i \in DOMAIN t : t[i] # StackCb => i \in DOMAIN list /\ t[i] = list[i]
    BY <1>0, <1>1
  <1>3. Waits(t, out, n)
    BY <1>2 DEF Waits
  <1> QED
    BY <1>3 DEF t

\* shift_cb, and the one call of the callback it removes.
LEMMA WaitsShift ==
    ASSUME NEW list \in Seq(Calls \cup {StackCb}), NEW n \in Nat,
           NEW kind, NEW of, NEW ifEmpty,
           outcome \in [Calls -> Seq(Outcomes)],
           [kind |-> kind, of |-> of] \in Outcomes,
           Waits(list, outcome, n),
           ShiftAndCall(list, kind, of, ifEmpty)
    PROVE  Waits(command_cb_list', outcome', n)
  <1> DEFINE t == Tail(list)
  <1>1. CASE list = <<>>
    BY <1>1 DEF ShiftAndCall
  <1>2. CASE list # <<>>
    <2>0. /\ Len(list) \in Nat \ {0} /\ DOMAIN list = 1..Len(list)
          /\ list[1] \in Calls \cup {StackCb} /\ Head(list) = list[1]
      BY <1>2, EmptySeq, LenProperties
    <2>1. /\ t \in Seq(Calls \cup {StackCb}) /\ Len(t) = Len(list) - 1
          /\ \A i \in 1..Len(t) : t[i] = list[i + 1]
      BY <1>2, HeadTailProperties
    <2>2. DOMAIN t = 1..(Len(list) - 1)
      BY <2>1, LenProperties
    <2>3. command_cb_list' = t
      BY <1>2 DEF ShiftAndCall
    <2> HIDE DEF t
    <2>4. \A i \in DOMAIN t : i \in Nat /\ i + 1 \in DOMAIN list /\ 1 < i + 1
                              /\ t[i] = list[i + 1]
      BY <2>0, <2>1, <2>2
    <2>5. 1 \in DOMAIN list
      BY <2>0
    <2>6. \A i, j \in DOMAIN t : i < j /\ t[i] # StackCb /\ t[j] # StackCb => t[i] < t[j]
      <3> SUFFICES ASSUME NEW i \in DOMAIN t, NEW j \in DOMAIN t, i < j,
                          t[i] # StackCb, t[j] # StackCb
                   PROVE  t[i] < t[j]
        OBVIOUS
      <3>1. i + 1 \in DOMAIN list /\ j + 1 \in DOMAIN list /\ i + 1 < j + 1
            /\ t[i] = list[i + 1] /\ t[j] = list[j + 1]
        BY <2>4
      <3> QED
        BY <3>1 DEF Waits
    <2>7. \A i \in DOMAIN t : t[i] # StackCb => t[i] <= n /\ outcome[t[i]] = <<>>
      BY <2>4 DEF Waits
    <2>8. CASE Head(list) = StackCb
      <3>1. outcome' = outcome
        BY <1>2, <2>8 DEF ShiftAndCall
      <3> QED
        BY <3>1, <2>3, <2>6, <2>7 DEF Waits
    <2>9. CASE Head(list) # StackCb
      <3> DEFINE h == list[1]
      <3>1. h \in Calls /\ h # StackCb /\ h <= n /\ outcome[h] = <<>>
        BY <2>0, <2>5, <2>9 DEF Waits
      <3>2. outcome' = [outcome EXCEPT ![h] = Append(@, [kind |-> kind, of |-> of])]
        BY <1>2, <2>0, <2>9 DEF ShiftAndCall
      <3>3. /\ outcome'[h] = Append(<<>>, [kind |-> kind, of |-> of])
            /\ \A c \in Calls : c # h => outcome'[c] = outcome[c]
        BY <3>1, <3>2
      <3>4. Len(outcome'[h]) = 1
        BY <3>3
      <3>5. \A i \in DOMAIN t : t[i] # StackCb => t[i] # h
        <4> SUFFICES ASSUME NEW i \in DOMAIN t, t[i] # StackCb PROVE t[i] # h
          OBVIOUS
        <4>1. h < t[i]
          BY <2>4, <2>5, <3>1 DEF Waits
        <4>2. h \in Int
          BY <3>1, BoundsAssumption DEF Calls
        <4> QED
          BY <4>1, <4>2
      <3>6. \A i \in DOMAIN t : t[i] # StackCb => t[i] <= n /\ outcome'[t[i]] = <<>>
        <4> SUFFICES ASSUME NEW i \in DOMAIN t, t[i] # StackCb
                     PROVE  t[i] <= n /\ outcome'[t[i]] = <<>>
          OBVIOUS
        <4>1. t[i] \in Calls
          BY <2>1, <2>2
        <4> QED
          BY <4>1, <2>7, <3>3, <3>5
      <3>7. \A c \in Calls : (c > n => outcome'[c] = <<>>) /\ Len(outcome'[c]) <= 1
        <4> SUFFICES ASSUME NEW c \in Calls
                     PROVE  (c > n => outcome'[c] = <<>>) /\ Len(outcome'[c]) <= 1
          OBVIOUS
        <4>1. CASE c = h
          <5>1. ~(c > n)
            BY <4>1, <3>1, BoundsAssumption DEF Calls
          <5> QED
            BY <5>1, <4>1, <3>4
        <4>2. CASE c # h
          BY <4>2, <3>3 DEF Waits
        <4> QED
          BY <4>1, <4>2
      <3> QED
        BY <2>3, <2>6, <3>6, <3>7 DEF Waits
    <2> QED
      BY <2>8, <2>9
  <1> QED
    BY <1>1, <1>2

LEMMA InitWInv == Init => WInv
  <1> SUFFICES ASSUME Init PROVE WInv
    OBVIOUS
  <1>1. TypeOK
    BY InitTypeOK
  <1>2. Waits(<<>>, outcome, 0)
    BY DEF Init, Waits
  <1> QED
    BY <1>1, <1>2 DEF Init, WInv

LEMMA NextWInv == WInv /\ [Next]_vars => WInv'
  <1> SUFFICES ASSUME WInv, [Next]_vars PROVE WInv'
    OBVIOUS
  <1> USE DEF WInv
  <1>t. TypeOK'
    BY NextTypeOK
  <1>l. /\ command_cb_list \in Seq(Calls \cup {StackCb}) /\ ncalls \in Nat
        /\ outcome \in [Calls -> Seq(Outcomes)]
    BY BoundsAssumption DEF TypeOK
  <1>u. UNCHANGED <<command_cb_list, outcome, ncalls>> => WInv'
    BY <1>t
  <1>s. ASSUME NEW kind \in {"reply", "error"}, NEW of \in Calls, NEW ifEmpty,
               ShiftAndCall(command_cb_list, kind, of, ifEmpty),
               ncalls' = ncalls
        PROVE  WInv'
    <2>1. [kind |-> kind, of |-> of] \in Outcomes
      BY DEF Outcomes
    <2>2. Waits(command_cb_list', outcome', ncalls)
      BY <2>1, <1>l, <1>s, WaitsShift
    <2> QED
      BY <2>2, <1>s, <1>t
  <1>d. ASSUME command_cb_list' = <<>>, UNCHANGED <<outcome, ncalls>> PROVE WInv'
    <2>1. Waits(<<>>, outcome, ncalls)
      BY WaitsEmpty
    <2> QED
      BY <2>1, <1>d, <1>t
  <1>1. CASE Application
    <2>1. ASSUME NEW kind \in Kinds, lua_client_command(kind) PROVE WInv'
      <3> DEFINE call == ncalls + 1
      <3> DEFINE list == Register(kind, call)
      <3>1. call \in Calls /\ ncalls' = call
        BY <1>l, <2>1, BoundsAssumption DEF lua_client_command, Calls, TypeOK
      <3>2. list \in Seq(Calls \cup {StackCb}) /\ Waits(list, outcome, call)
        <4>1. Waits(Append(command_cb_list, call), outcome, call)
              /\ Waits(command_cb_list, outcome, call)
          BY <3>1, <1>l, WaitsCall
        <4>2. Append(command_cb_list, call) \in Seq(Calls \cup {StackCb})
          BY <3>1, <1>l
        <4> QED
          BY <4>1, <4>2, <1>l DEF Register
      <3>3. \/ ShiftAndCall(list, "error", call, "none")
            \/ command_cb_list' = list /\ outcome' = outcome
        BY <2>1 DEF lua_client_command
      <3> HIDE DEF list, call
      <3>4. CASE ShiftAndCall(list, "error", call, "none")
        <4>1. [kind |-> "error", of |-> call] \in Outcomes
          BY <3>1 DEF Outcomes
        <4>2. call \in Nat
          BY <3>1, BoundsAssumption DEF Calls
        <4>3. Waits(command_cb_list', outcome', call)
          BY <4>1, <4>2, <3>2, <3>4, <1>l, WaitsShift
        <4> QED
          BY <4>3, <3>1, <1>t
      <3>5. CASE command_cb_list' = list /\ outcome' = outcome
        BY <3>1, <3>2, <3>5, <1>t
      <3> QED
        BY <3>3, <3>4, <3>5
    <2>2. ASSUME NEW e \in Listeners, lua_client_on(e) PROVE WInv'
      BY <2>2, <1>u DEF lua_client_on, history
    <2>3. ASSUME lua_client_connect PROVE WInv'
      BY <2>3, <1>u DEF lua_client_connect, history
    <2>4. ASSUME lua_client_disconnect PROVE WInv'
      BY <2>4, <1>u DEF lua_client_disconnect
    <2>5. ASSUME lua_client_exit PROVE WInv'
      BY <2>5, <1>d DEF lua_client_exit, Destroyed
    <2> QED
      BY <1>1, <2>1, <2>2, <2>3, <2>4, <2>5 DEF Application, SessionCalls
  <1>2. CASE Loop
    <2>1. ASSUME NEW h \in Handles, on_write(h) PROVE WInv'
      <3>1. Head(written[h]).call \in Calls
        BY <2>1, ItemHead DEF on_write, TypeOK
      <3>2. \/ ShiftAndCall(command_cb_list, "error", Head(written[h]).call, "none")
            \/ UNCHANGED <<command_cb_list, outcome>>
        BY <2>1 DEF on_write
      <3>3. ncalls' = ncalls
        BY <2>1 DEF on_write
      <3> QED
        BY <3>1, <3>2, <3>3, <1>s, <1>u
    <2>2. ASSUME NEW h \in Handles, on_write_error(h) PROVE WInv'
      <3>1. Head(queued[h]).call \in Calls
        BY <2>2, ItemHead DEF on_write_error, TypeOK
      <3>2. /\ ShiftAndCall(command_cb_list, "error", Head(queued[h]).call, "none")
            /\ ncalls' = ncalls
        BY <2>2 DEF on_write_error
      <3> QED
        BY <3>1, <3>2, <1>s
    <2>3. ASSUME on_read_reply PROVE WInv'
      <3>1. handler.chunk \in Seq(Items) /\ handler.chunk # <<>>
        BY <2>3 DEF on_read_reply, TypeOK
      <3>2. Head(handler.chunk).call \in Calls
        BY <3>1, ItemHead
      <3>3. /\ \/ ShiftAndCall(command_cb_list, "reply", Head(handler.chunk).call,
                               "stale_callback")
               \/ UNCHANGED <<command_cb_list, outcome>>
            /\ ncalls' = ncalls
        BY <2>3 DEF on_read_reply
      <3> QED
        BY <3>2, <3>3, <1>s, <1>u
    <2>4. ASSUME on_read_done PROVE WInv'
      <3>1. Waits(Append(command_cb_list, StackCb), outcome, ncalls)
        BY <1>l, WaitsStack
      <3>2. /\ command_cb_list' \in {command_cb_list, Append(command_cb_list, StackCb)}
            /\ UNCHANGED <<outcome, ncalls>>
        BY <2>4 DEF on_read_done, history
      <3>3. CASE command_cb_list' = Append(command_cb_list, StackCb)
        BY <3>1, <3>2, <3>3, <1>t
      <3> QED
        BY <3>2, <3>3, <1>u
    <2>5. ASSUME NEW h \in Handles, on_disconnect(h) PROVE WInv'
      BY <2>5, <1>u, <1>d DEF on_disconnect, Destroyed
    <2>6. ASSUME NEW h \in Handles,
                 \/ on_connect(h) \/ on_connect_error(h) \/ on_read_error(h)
                 \/ on_read_empty(h) \/ LoopFinishesExit(h) \/ on_read_error_close
                 \/ \E n \in 1..Len(wire[h]) : on_read(h, n)
          PROVE  WInv'
      BY <2>6, <1>u DEF on_connect, on_connect_error, on_read_error, on_read, on_read_empty,
                        LoopFinishesExit, on_read_error_close, context, history
    <2>7. ASSUME on_read_error_close PROVE WInv'
      BY <2>7, <1>u DEF on_read_error_close, context
    <2> QED
      BY <1>2, <2>1, <2>2, <2>3, <2>4, <2>5, <2>6, <2>7 DEF Loop, SessionLoop
  <1>3. CASE Environment
    BY <1>3, <1>u DEF Environment, Flush, Push, ServerCloses, context, history
  <1>4. CASE UNCHANGED vars
    BY <1>4, <1>u DEF vars, context, history
  <1> QED
    BY <1>1, <1>2, <1>3, <1>4 DEF Next

\* Whatever fails and whatever the application does, the callback of a
\* command is called at most once.
THEOREM CalledAtMostOnce == Spec => []AtMostOnce
  <1>1. Init => WInv
    BY InitWInv
  <1>2. WInv /\ [Next]_vars => WInv'
    BY NextWInv
  <1>3. WInv => AtMostOnce
    BY DEF WInv, Waits, AtMostOnce
  <1> QED
    BY <1>1, <1>2, <1>3, PTL DEF Spec

\* Whatever fails and whatever the application does, the callbacks of the
\* commands wait in the order of the calls.
THEOREM WaitInOrder == Spec => []InOrder
  <1>1. Init => WInv
    BY InitWInv
  <1>2. WInv /\ [Next]_vars => WInv'
    BY NextWInv
  <1>3. WInv => InOrder
    BY DEF WInv, Waits, InOrder
  <1> QED
    BY <1>1, <1>2, <1>3, PTL DEF Spec

=============================================================================
