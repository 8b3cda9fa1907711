------------------------ MODULE ClientSessionProofs ------------------------
(***************************************************************************)
(* Proofs about the sessions of an orderly application: one that waits for *)
(* the "connect" and the "disconnect" event, keeps quiet once it was told  *)
(* of an error, and uses neither MONITOR nor exit().  Either the server    *)
(* stays up, or the application sends plain commands only and listens to   *)
(* errors; the bounds are any.                                             *)
(***************************************************************************)
EXTENDS ClientProofs

ServerUp == Failures = {}

PlainOnly == Kinds \subseteq {"plain"} /\ "error" \in Listeners

Orderly == AppMoves = {} /\ "monitor" \notin Kinds /\ (ServerUp \/ PlainOnly)

-----------------------------------------------------------------------------
(* The inductive invariant, in parts.                                      *)

Pair == {Stream, SubStream}

\* A handle that is not one of the current pair was freed or was never made,
\* and nothing is under way on it.
Elsewhere ==
    \A h \in Handles : h \notin Pair \/ gen = 0 =>
        /\ status[h] = IF h[1] \in 1..gen THEN "freed" ELSE "none"
        /\ queued[h] = <<>> /\ written[h] = <<>>
        /\ h[1] \notin 1..gen =>
             wire[h] = <<>> /\ subscribed[h] = {} /\ h \notin eof \cup reading

\* A connect request is pending exactly while the handle connects.
Requested == \A h \in Handles : h \in connreq <=> status[h] = "connecting"

\* Until both connections are open nothing was sent, and one flag says that
\* one of them is.
Dialing ==
    "CONNECTED" \notin flags =>
        /\ flags = {} /\ command_cb_list = <<>> /\ channels = {} /\ handler = Idle
        /\ \A h \in Pair : /\ queued[h] = <<>> /\ written[h] = <<>> /\ wire[h] = <<>>
                           /\ subscribed[h] = {} /\ h \notin reading
        /\ gen > 0 =>
             /\ \A h \in Pair : status[h] \in {"connecting", "open", "failed"}
             /\ ~(status[Stream] = "open" /\ status[SubStream] = "open")
             /\ stream_flags = IF status[Stream] = "open" \/ status[SubStream] = "open"
                                 THEN {"STREAM"} ELSE {}
        /\ gen = 0 => stream_flags = {}

\* From then on the stream flags count the handles that are not freed, the
\* client is FREEING when both are, and a handle that is not open was closed
\* by disconnect() or the application knows of an error.
Connected ==
    "CONNECTED" \in flags =>
        /\ gen > 0
        /\ \A h \in Pair : /\ status[h] \in {"open", "closing", "freed"}
                           /\ status[h] = "freed" => queued[h] = <<>> /\ written[h] = <<>>
        /\ status[Stream] # "freed" /\ status[SubStream] # "freed" =>
             stream_flags = StreamFlagNames
        /\ status[Stream] = "freed" /\ status[SubStream] # "freed" =>
             stream_flags = {"SUB_STREAM"}
        /\ status[Stream] # "freed" /\ status[SubStream] = "freed" =>
             stream_flags = {"SUB_STREAM"}
        /\ "FREEING" \in flags <=> status[Stream] = "freed" /\ status[SubStream] = "freed"
        /\ "FREEING" \in flags =>
             stream_flags = {} /\ command_cb_list = <<>> /\ channels = {}
        /\ "DISCONNECTING" \in flags => \A h \in Pair : status[h] # "open"
        /\ "DISCONNECTING" \notin flags /\ (\E h \in Pair : status[h] # "open") =>
             events[gen]["error"] > 0
        /\ "MONITORING" \notin flags

\* on_disconnect will find the client in the data field of the handle.
DataSet == \A h \in Pair : h \in reading \/ status[h] = "closing" => h \in data

\* A handler runs on a handle that is not freed; in the error listener it is
\* still open.
HandlerOK ==
    /\ handler.at = "idle" => handler = Idle
    /\ handler.at # "idle" =>
         /\ "CONNECTED" \in flags
         /\ handler.h \in Pair
         /\ handler.sub <=> handler.h = SubStream
         /\ status[handler.h] \in {"open", "closing"}
    /\ handler.at = "error" =>
         /\ handler.chunk = <<>>
         /\ status[handler.h] = "open"
         /\ handler.h \in data
         /\ events[gen]["error"] > 0

\* The command connection may still deliver replies to the command list.
Replying == status[Stream] = "open" \/ (handler.at # "idle" /\ ~handler.sub)

StreamChunk == IF handler.h = Stream THEN handler.chunk ELSE <<>>

NCbs == Len(command_cb_list)
NChunk == Len(StreamChunk)
NWire == Len(wire[Stream])
NQueued == Len(queued[Stream])
NWritten == Len(written[Stream])

\* There is a callback for every reply to come.
Enough ==
    /\ \A i \in DOMAIN command_cb_list : command_cb_list[i] # StackCb
    /\ Replying => NChunk + NWire + NQueued <= NCbs

\* Every subscription the server knows or talks of is in a tree.
Known(s) ==
    \A i \in DOMAIN s : /\ s[i].kind \in {"subscribe", "unsubscribe", "message"}
                        /\ s[i].kind # "unsubscribe" => s[i].call \in channels

SubsKnown ==
    /\ subscribed[Stream] = {}
    /\ \A i \in DOMAIN queued[Stream] : queued[Stream][i].kind = "plain"
    /\ "FREEING" \notin flags =>
         /\ subscribed[SubStream] \subseteq channels
         /\ Known(queued[SubStream]) /\ Known(wire[SubStream])
         /\ handler.sub => Known(handler.chunk)

\* Either no connection fails or the subscription connection is unused.
Reliable ==
    \/ /\ ServerUp
       /\ eof = {} /\ \A h \in Pair : status[h] # "failed"
       /\ events[gen]["error"] = 0
    \/ /\ ~ServerUp /\ PlainOnly
       /\ \A h \in {SubStream} : queued[h] = <<>> /\ written[h] = <<>>

\* The events delivered so far, to this connect() call and the earlier ones.
EventsOK ==
    /\ \A g \in Gens : /\ events[g]["connect"] <= 1 /\ events[g]["disconnect"] <= 1
                       /\ g > gen => \A e \in EventNames : events[g][e] = 0
    /\ events[gen]["connect"] > 0 => "CONNECTED" \in flags
    /\ events[gen]["disconnect"] > 0 => "FREEING" \in flags

\* A connection that is not read from owes replies only to requests whose
\* on_write is still to come.
ReadOK ==
    /\ status[Stream] = "open" /\ Stream \notin reading /\ handler.h # Stream =>
         NCbs <= NQueued + NWritten
    /\ handler.at \in {"loop", "callback"} /\ handler.h = Stream /\ status[Stream] = "open" =>
         Stream \in reading

SessionInv ==
    /\ TypeOK /\ fault = "none"
    /\ Elsewhere /\ Requested /\ Dialing /\ Connected /\ DataSet /\ HandlerOK
    /\ Enough /\ SubsKnown /\ Reliable /\ EventsOK /\ ReadOK

-----------------------------------------------------------------------------
(* Facts about the current pair of handles.                                *)

LEMMA PairFacts ==
    ASSUME TypeOK
    PROVE  /\ Stream \in Handles /\ SubStream \in Handles /\ Stream # SubStream
           /\ gen \in Nat
  BY BoundsAssumption DEF TypeOK, Gens, Handles, Stream, SubStream

\* A handle on which something can happen is one of the current pair.
LEMMA ActiveHandle ==
    ASSUME SessionInv, NEW h \in Handles, status[h] \notin {"none", "freed"}
    PROVE  gen > 0 /\ (h = Stream \/ h = SubStream)
  BY PairFacts DEF SessionInv, Elsewhere, Pair

LEMMA EventCounts ==
    ASSUME TypeOK
    PROVE  /\ gen \in Gens
           /\ \A g \in Gens : /\ events[g]["connect"] \in Nat
                              /\ events[g]["error"] \in Nat
                              /\ events[g]["disconnect"] \in Nat
  BY DEF TypeOK, EventNames

\* What Emit does to the counts of events.
LEMMA EmitFacts ==
    ASSUME TypeOK, NEW e \in EventNames, Emit(e)
    PROVE  \A g \in Gens, f \in EventNames :
             events'[g][f] = IF g = gen /\ f = e /\ e \in listeners
                               THEN events[g][f] + 1 ELSE events[g][f]
  BY DEF TypeOK, Emit

LEMMA EventsKept ==
    ASSUME TypeOK, EventsOK, UNCHANGED <<gen, events>>, flags \subseteq flags'
    PROVE  EventsOK'
  BY DEF EventsOK

LEMMA EventsEmitted ==
    ASSUME TypeOK, EventsOK, gen' = gen, flags \subseteq flags',
           NEW e \in EventNames, Emit(e),
           e # "error" => events[gen][e] = 0,
           e = "connect" => "CONNECTED" \in flags',
           e = "disconnect" => "FREEING" \in flags'
    PROVE  EventsOK'
  <1>1. \A g \in Gens, f \in EventNames :
          events'[g][f] = IF g = gen /\ f = e /\ e \in listeners
                            THEN events[g][f] + 1 ELSE events[g][f]
    BY EmitFacts
  <1>2. {"connect", "error", "disconnect"} \subseteq EventNames /\ gen \in Gens
    BY EventCounts DEF EventNames
  <1>3. ASSUME NEW g \in Gens
        PROVE  /\ events'[g]["connect"] <= 1 /\ events'[g]["disconnect"] <= 1
               /\ g > gen' => \A f \in EventNames : events'[g][f] = 0
    <2>1. /\ events'[g]["connect"] = events[g]["connect"]
             \/ (g = gen /\ e = "connect" /\ events'[g]["connect"] = events[g]["connect"] + 1)
          /\ events'[g]["disconnect"] = events[g]["disconnect"]
             \/ (g = gen /\ e = "disconnect"
                 /\ events'[g]["disconnect"] = events[g]["disconnect"] + 1)
      BY <1>1, <1>2
    <2>2. /\ events'[g]["connect"] <= 1 /\ events'[g]["disconnect"] <= 1
      BY <2>1, EventCounts DEF EventsOK
    <2>3. ASSUME g > gen', NEW f \in EventNames PROVE events'[g][f] = 0
      <3>1. g # gen
        BY <2>3, PairFacts
      <3> QED
        BY <2>3, <1>1, <3>1 DEF EventsOK
    <2> QED
      BY <2>2, <2>3
  <1>4. events'[gen]["connect"] > 0 => "CONNECTED" \in flags'
    BY <1>1, <1>2 DEF EventsOK
  <1>5. events'[gen]["disconnect"] > 0 => "FREEING" \in flags'
    BY <1>1, <1>2 DEF EventsOK
  <1> QED
    BY <1>3, <1>4, <1>5 DEF EventsOK

LEMMA SamePair ==
    ASSUME gen' = gen
    PROVE  Stream' = Stream /\ SubStream' = SubStream /\ Pair' = Pair
  BY DEF Stream, SubStream, Pair

\* Parts of the invariant that a step leaves alone.
LEMMA ElsewhereKept ==
    ASSUME Elsewhere, gen' = gen, gen > 0,
           \A k \in Handles : k \notin Pair =>
              /\ status'[k] = status[k] /\ queued'[k] = queued[k]
              /\ written'[k] = written[k] /\ wire'[k] = wire[k]
              /\ subscribed'[k] = subscribed[k]
              /\ k \in eof' => k \in eof
              /\ k \in reading' => k \in reading
    PROVE  Elsewhere'
  BY SamePair DEF Elsewhere

LEMMA EnoughKept ==
    ASSUME Enough, UNCHANGED <<gen, command_cb_list, wire, queued, handler>>,
           Replying' => Replying
    PROVE  Enough'
  BY SamePair DEF Enough, StreamChunk, NCbs, NChunk, NWire, NQueued

LEMMA ReadKept ==
    ASSUME ReadOK, UNCHANGED <<gen, command_cb_list, queued, written, handler, reading>>,
           status'[Stream] = "open" => status[Stream] = "open"
    PROVE  ReadOK'
  BY SamePair DEF ReadOK, NCbs, NQueued, NWritten

LEMMA SubsKept ==
    ASSUME SubsKnown, UNCHANGED <<gen, subscribed, queued, wire, handler, channels>>,
           "FREEING" \in flags => "FREEING" \in flags'
    PROVE  SubsKnown'
  BY SamePair DEF SubsKnown, Known

LEMMA TailFacts ==
    ASSUME NEW S, NEW s \in Seq(S), s # <<>>
    PROVE  /\ Len(s) \in Nat /\ Len(s) > 0 /\ DOMAIN s = 1..Len(s)
           /\ Tail(s) \in Seq(S) /\ Len(Tail(s)) = Len(s) - 1
           /\ \A i \in DOMAIN Tail(s) : i + 1 \in DOMAIN s /\ Tail(s)[i] = s[i + 1]
  <1>1. /\ Len(s) \in Nat /\ Len(s) > 0 /\ DOMAIN s = 1..Len(s)
        /\ Tail(s) \in Seq(S) /\ Len(Tail(s)) = Len(s) - 1
        /\ \A i \in 1..Len(Tail(s)) : Tail(s)[i] = s[i + 1]
    BY LenProperties, HeadTailProperties
  <1>2. DOMAIN Tail(s) = 1..Len(Tail(s))
    BY <1>1, LenProperties
  <1>3. \A i \in 1..(Len(s) - 1) : i + 1 \in 1..Len(s)
    BY <1>1
  <1> QED
    BY <1>1, <1>2, <1>3

LEMMA Lengths ==
    ASSUME TypeOK
    PROVE  NCbs \in Nat /\ NChunk \in Nat /\ NWire \in Nat /\ NQueued \in Nat /\ NWritten \in Nat
  <1>1. /\ command_cb_list \in Seq(Calls \cup {StackCb})
        /\ handler.chunk \in Seq(Items) /\ wire[Stream] \in Seq(Items)
        /\ queued[Stream] \in Seq(Items) /\ written[Stream] \in Seq(Items)
    BY PairFacts DEF TypeOK
  <1>2. StreamChunk \in Seq(Items)
    BY <1>1 DEF StreamChunk
  <1> QED
    BY <1>1, <1>2, LenProperties DEF NCbs, NChunk, NWire, NQueued, NWritten

LEMMA KnownTail ==
    ASSUME NEW s \in Seq(Items), s # <<>>, Known(s)
    PROVE  Known(Tail(s))
  BY TailFacts DEF Known

\* Taking a callback off the command list and calling it.
LEMMA ShiftFacts ==
    ASSUME NEW list \in Seq(Calls \cup {StackCb}), NEW kind, NEW of, NEW ifEmpty,
           \A i \in DOMAIN list : list[i] # StackCb,
           ShiftAndCall(list, kind, of, ifEmpty)
    PROVE  /\ list = <<>> => command_cb_list' = <<>> /\ fault' = ifEmpty
           /\ list # <<>> => /\ command_cb_list' = Tail(list) /\ fault' = "none"
                             /\ Len(command_cb_list') = Len(list) - 1
           /\ \A i \in DOMAIN command_cb_list' : command_cb_list'[i] # StackCb
           /\ Len(command_cb_list') <= Len(list)
  <1>1. CASE list = <<>>
    <2>1. command_cb_list' = <<>> /\ fault' = ifEmpty
      BY <1>1 DEF ShiftAndCall, Fail
    <2> QED
      BY <1>1, <2>1
  <1>2. CASE list # <<>>
    <2>1. /\ Len(list) \in Nat /\ Len(list) > 0 /\ DOMAIN list = 1..Len(list)
          /\ Tail(list) \in Seq(Calls \cup {StackCb})
          /\ Len(Tail(list)) = Len(list) - 1
          /\ \A i \in 1..Len(Tail(list)) : Tail(list)[i] = list[i + 1]
      BY <1>2, LenProperties, HeadTailProperties
    <2>2. Head(list) # StackCb
      BY <1>2, <2>1
    <2>3. command_cb_list' = Tail(list) /\ fault' = "none"
      BY <1>2, <2>2 DEF ShiftAndCall, Fail
    <2>4. \A i \in 1..Len(Tail(list)) : i + 1 \in DOMAIN list
      BY <2>1
    <2>5. DOMAIN Tail(list) = 1..Len(Tail(list))
      BY <2>1, LenProperties
    <2>6. \A i \in DOMAIN Tail(list) : Tail(list)[i] # StackCb
      BY <2>1, <2>4, <2>5
    <2> QED
      BY <1>2, <2>1, <2>3, <2>6
  <1> QED
    BY <1>1, <1>2

-----------------------------------------------------------------------------
(* Each action keeps the invariant.                                        *)

LEMMA OnConnect ==
    ASSUME Orderly, SessionInv, TypeOK', NEW h \in Handles, on_connect(h)
    PROVE  SessionInv'
  <1> USE DEF SessionInv
  <1>p. /\ gen > 0 /\ h \in {Stream, SubStream}
        /\ Stream \in Handles /\ SubStream \in Handles /\ Stream # SubStream
        /\ Stream' = Stream /\ SubStream' = SubStream /\ Pair' = Pair /\ gen' = gen
    BY ActiveHandle, PairFacts DEF on_connect, Stream, SubStream, Pair
  <1>e. /\ status[h] = "connecting" /\ handler.at = "idle"
        /\ status' = [status EXCEPT ![h] = "open"]
        /\ connreq' = connreq \ {h}
        /\ UNCHANGED <<command_cb_list, channels, data, reading, queued, written,
                       wire, subscribed, eof, handler, fault, listeners>>
    BY DEF on_connect, server, LoopTurn
  <1>1. "CONNECTED" \notin flags
    BY <1>e, <1>p DEF Connected, Pair
  <1>q. /\ command_cb_list = <<>> /\ Len(command_cb_list) = 0
        /\ handler = Idle /\ flags = {}
        /\ \A k \in Pair : /\ queued[k] = <<>> /\ written[k] = <<>> /\ wire[k] = <<>>
                           /\ subscribed[k] = {}
                           /\ Len(queued[k]) = 0 /\ Len(written[k]) = 0 /\ Len(wire[k]) = 0
    BY <1>1, <1>e DEF Dialing
  <1>f. Enough' /\ ReadOK'
    <2>1. NCbs' = 0 /\ NChunk' = 0
      BY <1>e, <1>q DEF StreamChunk, Idle, NCbs, NChunk
    <2>2. NWire' = 0 /\ NQueued' = 0 /\ NWritten' = 0
      BY <1>p, <1>e, <1>q DEF Pair, NWire, NQueued, NWritten
    <2>3. \A i \in DOMAIN command_cb_list' : command_cb_list'[i] # StackCb
      BY <1>e, <1>q
    <2>4. handler'.at = "idle"
      BY <1>e
    <2> QED
      BY <2>1, <2>2, <2>3, <2>4 DEF Enough, ReadOK
  <1>2. Elsewhere'
    BY <1>p, <1>e DEF Elsewhere, TypeOK, Pair
  <1>3. Requested'
    BY <1>p, <1>e DEF Requested, TypeOK
  <1>4. CASE status[Stream] # "open" /\ status[SubStream] # "open"
    <2>1. stream_flags' = {"STREAM"} /\ UNCHANGED <<flags, events>>
      BY <1>1, <1>4, <1>p DEF on_connect, StreamFlagUp, StreamFlagNames, Dialing
    <2>2. Dialing'
      BY <1>p, <1>e, <1>1, <1>4, <2>1 DEF Dialing, Pair, TypeOK
    <2>3. Connected' /\ DataSet' /\ HandlerOK'
      BY <1>p, <1>e, <1>1, <2>1, SMTT(30) DEF Connected, DataSet, HandlerOK, Pair, TypeOK
    <2>5. SubsKnown' /\ Reliable' /\ EventsOK'
      <3>1. SubsKnown'
        BY <1>p, <1>e, <1>q, <2>1 DEF SubsKnown, Known, Pair, Idle
      <3>2. Reliable'
        BY <1>p, <1>e, <1>q, <2>1 DEF Reliable, Pair, TypeOK
      <3>3. EventsOK'
        BY <1>p, <1>e, <1>q, <2>1 DEF EventsOK, Pair, TypeOK
      <3> QED
        BY <3>1, <3>2, <3>3
    <2> QED
      BY <1>e, <1>f, <1>2, <1>3, <2>2, <2>3, <2>5
  <1>5. CASE status[Stream] = "open" \/ status[SubStream] = "open"
    <2>1. /\ stream_flags' = StreamFlagNames
          /\ flags' = {"CONNECTED"}
          /\ status'[Stream] = "open" /\ status'[SubStream] = "open"
      BY <1>1, <1>5, <1>p, <1>e, SMTT(30) DEF on_connect, StreamFlagUp, StreamFlagNames, Dialing, Pair, TypeOK
    <2>2. Dialing' /\ Connected'
      BY <1>p, <1>e, <2>1 DEF Dialing, Connected, Pair
    <2>3. DataSet' /\ HandlerOK'
      BY <1>p, <1>e, <1>1, <2>1 DEF Dialing, DataSet, HandlerOK, Pair, TypeOK
    <2>5. EventsOK'
      <3>1. events[gen]["connect"] = 0
        BY <1>1, EventCounts DEF EventsOK
      <3>2. Emit("connect")
        BY <2>1 DEF on_connect
      <3> QED
        BY <3>1, <3>2, <1>p, <1>q, <2>1, EventsEmitted DEF EventNames
    <2>6. SubsKnown' /\ Reliable'
      <3>1. SubsKnown'
        BY <1>p, <1>e, <1>q, <2>1 DEF SubsKnown, Known, Pair, Idle
      <3>2. events'[gen]["error"] = events[gen]["error"]
        BY <1>p, <2>1, EmitFacts DEF on_connect, EventNames, TypeOK
      <3>3. Reliable'
        BY <1>p, <1>e, <1>q, <2>1, <3>2 DEF Reliable, Pair, TypeOK
      <3> QED
        BY <3>1, <3>3
    <2> QED
      BY <1>e, <1>f, <1>2, <1>3, <2>2, <2>3, <2>5, <2>6
  <1> QED
    BY <1>4, <1>5

LEMMA OnConnectError ==
    ASSUME Orderly, SessionInv, TypeOK', NEW h \in Handles, on_connect_error(h)
    PROVE  SessionInv'
  <1> USE DEF SessionInv
  <1>1. status[h] = "connecting" /\ "refuse" \in Failures /\ "error" \in listeners
    BY DEF on_connect_error, Requested, Orderly, ServerUp, PlainOnly, LoopTurn
  <1>p. /\ gen > 0 /\ h \in {Stream, SubStream}
        /\ Stream \in Handles /\ SubStream \in Handles /\ Stream # SubStream
        /\ Stream' = Stream /\ SubStream' = SubStream /\ Pair' = Pair /\ gen' = gen
    BY <1>1, ActiveHandle, PairFacts DEF on_connect_error, Stream, SubStream, Pair
  <1>e. /\ handler.at = "idle"
        /\ status' = [status EXCEPT ![h] = "failed"]
        /\ connreq' = connreq \ {h}
        /\ Emit("error")
        /\ UNCHANGED <<flags, stream_flags, command_cb_list, channels, data, reading,
                       queued, written, wire, subscribed, eof, handler, fault, listeners>>
    BY <1>1 DEF on_connect_error, server, LoopTurn
  <1>2. "CONNECTED" \notin flags
    BY <1>1, <1>p DEF Connected, Pair
  <1>3. Elsewhere' /\ Requested'
    <2>1. Elsewhere'
      <3>1. \A k \in Handles : k \notin Pair => status'[k] = status[k]
        BY <1>p, <1>e DEF TypeOK, Pair
      <3> QED
        BY <3>1, <1>p, <1>e, ElsewhereKept
    <2>2. Requested'
      BY <1>p, <1>e DEF Requested, TypeOK
    <2> QED
      BY <2>1, <2>2
  <1>4. Dialing'
    BY <1>p, <1>e, <1>1, <1>2 DEF Dialing, Pair, TypeOK
  <1>5. Connected' /\ DataSet' /\ HandlerOK'
    BY <1>p, <1>e, <1>2, SMTT(30) DEF Connected, DataSet, HandlerOK, Pair, TypeOK
  <1>6. Enough' /\ ReadOK' /\ SubsKnown'
    <2>1. status'[Stream] = "open" => status[Stream] = "open"
      BY <1>p, <1>e DEF TypeOK
    <2>2. Replying' => Replying
      BY <2>1, <1>p, <1>e DEF Replying
    <2> QED
      BY <2>1, <2>2, <1>p, <1>e, EnoughKept, ReadKept, SubsKept
  <1>7. Reliable'
    BY <1>1, <1>p, <1>e DEF Reliable, ServerUp
  <1>8. EventsOK'
    BY <1>p, <1>e, EventsEmitted DEF EventNames
  <1> QED
    BY <1>e, <1>3, <1>4, <1>5, <1>6, <1>7, <1>8

LEMMA OnWrite ==
    ASSUME Orderly, SessionInv, TypeOK', NEW h \in Handles, on_write(h)
    PROVE  SessionInv'
  <1> USE DEF SessionInv
  <1>p. /\ gen > 0 /\ h \in {Stream, SubStream}
        /\ Stream \in Handles /\ SubStream \in Handles /\ Stream # SubStream
        /\ Stream' = Stream /\ SubStream' = SubStream /\ Pair' = Pair /\ gen' = gen
    BY ActiveHandle, PairFacts DEF on_write, Stream, SubStream, Pair
  <1>e. /\ handler.at = "idle" /\ status[h] \in {"open", "closing"} /\ written[h] # <<>>
        /\ written' = [written EXCEPT ![h] = Tail(@)]
        /\ data' = data \cup {h}
        /\ UNCHANGED <<flags, stream_flags, channels, status, connreq, events,
                       queued, wire, subscribed, eof, handler, listeners>>
    BY DEF on_write, server, LoopTurn
  <1>w. \A k \in Handles : k # h => written'[k] = written[k]
    BY <1>e DEF TypeOK
  <1>1. "CONNECTED" \in flags
    BY <1>p, <1>e DEF Dialing, Pair
  <1>2. /\ reading \subseteq reading' /\ reading' \subseteq reading \cup {h}
        /\ Len(command_cb_list') <= Len(command_cb_list)
        /\ \A i \in DOMAIN command_cb_list' : command_cb_list'[i] # StackCb
        /\ fault' = "none"
        /\ command_cb_list = <<>> => command_cb_list' = <<>>
        /\ status[h] = "open" => command_cb_list' = command_cb_list /\ h \in reading'
    <2>1. CASE status[h] = "open"
      BY <2>1 DEF on_write, Enough, TypeOK
    <2>2. CASE status[h] # "open"
      BY <2>2, ShiftFacts, ZenonT(30) DEF on_write, Enough, TypeOK
    <2> QED
      BY <2>1, <2>2
  <1>3. Elsewhere' /\ Requested'
    BY <1>p, <1>e, <1>2 DEF Elsewhere, Requested, TypeOK, Pair
  <1>4. Dialing' /\ Connected'
    <2>1. \A k \in Pair : k \in Handles /\ (status[k] = "freed" => k # h)
      BY <1>p, <1>e DEF Pair
    <2> QED
      BY <2>1, <1>p, <1>e, <1>w, <1>1, <1>2 DEF Dialing, Connected
  <1>5. DataSet' /\ HandlerOK'
    BY <1>p, <1>e, <1>2 DEF DataSet, HandlerOK, Pair
  <1>6. Reliable'
    <2>1. written[SubStream] = <<>> => written'[SubStream] = <<>>
      BY <1>p, <1>e, <1>w
    <2> QED
      BY <2>1, <1>p, <1>e DEF Reliable
  <1>7. SubsKnown' /\ EventsOK'
    BY <1>p, <1>e, SubsKept, EventsKept
  <1>8. Enough' /\ ReadOK'
    <2>1. CASE status[h] = "open"
      <3>1. Enough'
        BY <2>1, <1>2, <1>p, <1>e, EnoughKept DEF Replying
      <3>2. ASSUME h = Stream PROVE ReadOK'
        BY <3>2, <2>1, <1>2, <1>p, <1>e DEF ReadOK
      <3>3. ASSUME h # Stream PROVE ReadOK'
        <4>1. written'[Stream] = written[Stream] /\ (Stream \in reading' <=> Stream \in reading)
          BY <3>3, <1>p, <1>e, <1>2 DEF TypeOK
        <4>2. NCbs' = NCbs /\ NQueued' = NQueued /\ NWritten' = NWritten
          BY <4>1, <2>1, <1>2, <1>p, <1>e DEF NCbs, NQueued, NWritten
        <4> QED
          BY <4>1, <4>2, <1>p, <1>e DEF ReadOK
      <3> QED
        BY <3>1, <3>2, <3>3
    <2>2. CASE status[h] # "open"
      <3>1. status[Stream] # "open"
        BY <2>2, <1>1, <1>p, <1>e DEF Connected, Reliable, Pair, Orderly
      <3>2. ~Replying'
        BY <3>1, <1>p, <1>e DEF Replying
      <3> QED
        BY <3>1, <3>2, <1>2, <1>p, <1>e DEF Enough, ReadOK
    <2> QED
      BY <2>1, <2>2
  <1> QED
    BY <1>2, <1>3, <1>4, <1>5, <1>6, <1>7, <1>8

LEMMA OnWriteError ==
    ASSUME Orderly, SessionInv, TypeOK', NEW h \in Handles, on_write_error(h)
    PROVE  SessionInv'
  <1> USE DEF SessionInv
  <1>p. /\ gen > 0 /\ h \in {Stream, SubStream}
        /\ Stream \in Handles /\ SubStream \in Handles /\ Stream # SubStream
        /\ Stream' = Stream /\ SubStream' = SubStream /\ Pair' = Pair /\ gen' = gen
    BY ActiveHandle, PairFacts DEF on_write_error, Stream, SubStream, Pair
  <1>e. /\ handler.at = "idle" /\ queued[h] # <<>>
        /\ status[h] \in {"closing", "failed"} \/ (status[h] = "open" /\ h \in eof)
        /\ queued' = [queued EXCEPT ![h] = Tail(@)]
        /\ data' = data \cup {h}
        /\ UNCHANGED <<flags, stream_flags, channels, status, connreq, events, reading,
                       written, wire, subscribed, eof, handler, listeners>>
    BY DEF on_write_error, server, LoopTurn
  <1>w. \A k \in Handles : k # h => queued'[k] = queued[k]
    BY <1>e DEF TypeOK
  <1>x. queued[h] \in Seq(Items) /\ queued'[h] = Tail(queued[h])
    BY <1>e DEF TypeOK
  <1>1. "CONNECTED" \in flags
    BY <1>p, <1>e DEF Dialing, Pair
  <1>2. /\ Len(command_cb_list') <= Len(command_cb_list)
        /\ \A i \in DOMAIN command_cb_list' : command_cb_list'[i] # StackCb
        /\ fault' = "none"
        /\ command_cb_list = <<>> => command_cb_list' = <<>>
        /\ command_cb_list # <<>> => Len(command_cb_list') = Len(command_cb_list) - 1
    BY ShiftFacts, ZenonT(30) DEF on_write_error, Enough, TypeOK
  <1>3. Elsewhere' /\ Requested'
    BY <1>p, <1>e, <1>w, ElsewhereKept DEF Requested, Pair
  <1>4. Dialing' /\ Connected'
    <2>1. \A k \in Pair : k \in Handles /\ (status[k] = "freed" => k # h)
      BY <1>p, <1>e DEF Pair
    <2> QED
      BY <2>1, <1>p, <1>e, <1>w, <1>1, <1>2 DEF Dialing, Connected
  <1>5. DataSet' /\ HandlerOK'
    BY <1>p, <1>e DEF DataSet, HandlerOK, Pair
  <1>6. Reliable'
    <2>1. queued[SubStream] = <<>> => queued'[SubStream] = <<>>
      BY <1>p, <1>e, <1>w
    <2> QED
      BY <2>1, <1>p, <1>e DEF Reliable
  <1>7. SubsKnown'
    <2>1. \A i \in DOMAIN queued'[Stream] : queued'[Stream][i].kind = "plain"
      <3>1. ASSUME h = Stream PROVE \A i \in DOMAIN queued'[Stream] : queued'[Stream][i].kind = "plain"
        BY <3>1, <1>e, <1>x, TailFacts DEF SubsKnown
      <3> QED
        BY <3>1, <1>w, <1>p DEF SubsKnown
    <2>2. ASSUME "FREEING" \notin flags PROVE Known(queued'[SubStream])
      <3>1. ASSUME h = SubStream PROVE Known(queued'[SubStream])
        BY <2>2, <3>1, <1>e, <1>x, KnownTail DEF SubsKnown
      <3> QED
        BY <2>2, <3>1, <1>w, <1>p DEF SubsKnown
    <2> QED
      BY <2>1, <2>2, <1>p, <1>e DEF SubsKnown, Known
  <1>8. EventsOK'
    BY <1>p, <1>e, EventsKept
  <1>9. ASSUME status[Stream] = "open" PROVE h = Stream
    <2>1. CASE ServerUp /\ eof = {} /\ events[gen]["error"] = 0
      BY <2>1, <1>1, <1>9, <1>p, <1>e DEF Connected, Pair
    <2> QED
      BY <2>1, <1>p, <1>e DEF Reliable
  <1>10. Enough' /\ ReadOK'
    <2>1. CASE status[Stream] # "open"
      BY <2>1, <1>2, <1>p, <1>e DEF Enough, ReadOK, Replying
    <2>2. CASE status[Stream] = "open"
      <3>1. h = Stream /\ NQueued' = NQueued - 1 /\ NQueued > 0
        BY <2>2, <1>9, <1>x, <1>e, <1>p, TailFacts DEF NQueued
      <3>2. NWire' = NWire /\ NWritten' = NWritten /\ NChunk' = NChunk
        BY <1>p, <1>e DEF StreamChunk, NWire, NWritten, NChunk
      <3>3. NChunk + NWire + NQueued <= NCbs
        BY <2>2 DEF Enough, Replying
      <3>4. NCbs' = NCbs - 1
        <4>1. NCbs > 0
          BY <3>1, <3>3, Lengths
        <4> QED
          BY <4>1, <1>2 DEF NCbs
      <3>5. Enough'
        BY <1>2, <3>1, <3>2, <3>3, <3>4, Lengths DEF Enough
      <3>6. ReadOK'
        BY <1>p, <1>e, <3>1, <3>2, <3>4, Lengths DEF ReadOK
      <3> QED
        BY <3>5, <3>6
    <2> QED
      BY <2>1, <2>2
  <1> QED
    BY <1>2, <1>3, <1>4, <1>5, <1>6, <1>7, <1>8, <1>10

LEMMA CutLengths ==
    ASSUME NEW s \in Seq(Items), NEW n \in 1..Len(s)
    PROVE  /\ n \in Nat /\ Len(SubSeq(s, 1, n)) = n
           /\ Len(SubSeq(s, n + 1, Len(s))) = Len(s) - n
  OBVIOUS

LEMMA KnownCut ==
    ASSUME NEW s \in Seq(Items), NEW n \in 1..Len(s), Known(s)
    PROVE  Known(SubSeq(s, 1, n)) /\ Known(SubSeq(s, n + 1, Len(s)))
  <1>0. Len(s) \in Nat /\ DOMAIN s = 1..Len(s) /\ n \in Nat /\ n <= Len(s)
    BY LenProperties
  <1> DEFINE a == SubSeq(s, 1, n)
             b == SubSeq(s, n + 1, Len(s))
  <1>1. /\ DOMAIN a = 1..n /\ \A i \in 1..n : a[i] = s[i]
    BY <1>0
  <1>2. /\ DOMAIN b = 1..(Len(s) - n) /\ \A i \in 1..(Len(s) - n) : b[i] = s[n + i]
    BY <1>0
  <1> HIDE DEF a, b
  <1>3. \A i \in 1..n : i \in DOMAIN s
    BY <1>0
  <1>4. \A i \in 1..(Len(s) - n) : n + i \in DOMAIN s
    BY <1>0
  <1>5. Known(a) /\ Known(b)
    BY <1>1, <1>2, <1>3, <1>4 DEF Known
  <1> QED
    BY <1>5 DEF a, b

LEMMA OnRead ==
    ASSUME Orderly, SessionInv, TypeOK', NEW h \in Handles,
           NEW n \in 1..Len(wire[h]), on_read(h, n)
    PROVE  SessionInv'
  <1> USE DEF SessionInv
  <1>p. /\ gen > 0 /\ h \in {Stream, SubStream}
        /\ Stream \in Handles /\ SubStream \in Handles /\ Stream # SubStream
        /\ Stream' = Stream /\ SubStream' = SubStream /\ Pair' = Pair /\ gen' = gen
    BY ActiveHandle, PairFacts DEF on_read, Stream, SubStream, Pair, context
  <1>e. /\ handler.at = "idle" /\ status[h] = "open" /\ h \in reading
        /\ wire' = [wire EXCEPT ![h] = SubSeq(@, n + 1, Len(@))]
        /\ UNCHANGED <<flags, stream_flags, channels, status, connreq, events, reading,
                       written, queued, subscribed, eof, data, listeners, fault,
                       command_cb_list>>
    BY DEF on_read, LoopTurn, context, handles, history
  <1>w. /\ \A k \in Handles : k # h => wire'[k] = wire[k]
        /\ wire[h] \in Seq(Items) /\ wire'[h] = SubSeq(wire[h], n + 1, Len(wire[h]))
    BY <1>e DEF TypeOK
  <1>1. "CONNECTED" \in flags
    BY <1>p, <1>e DEF Dialing, Pair
  <1>2. "DISCONNECTING" \notin flags
    BY <1>1, <1>p, <1>e DEF Connected, Pair
  <1>3. handler' = [at |-> "loop", h |-> h, sub |-> h = SubStream,
                    chunk |-> SubSeq(wire[h], 1, n)]
    BY <1>2 DEF on_read
  <1>4. Elsewhere' /\ Requested' /\ Dialing' /\ Connected' /\ DataSet'
    <2>1. Elsewhere' /\ Requested'
      BY <1>p, <1>e, <1>w, ElsewhereKept DEF Requested, Pair
    <2>2. Dialing' /\ Connected' /\ DataSet'
      BY <1>p, <1>e, <1>1 DEF Dialing, Connected, DataSet
    <2> QED
      BY <2>1, <2>2
  <1>5. HandlerOK'
    BY <1>3, <1>p, <1>e, <1>1 DEF HandlerOK, Pair
  <1>6. Reliable' /\ EventsOK'
    BY <1>p, <1>e, EventsKept DEF Reliable
  <1>7. SubsKnown'
    <2>1. ASSUME "FREEING" \notin flags
          PROVE  Known(wire'[SubStream]) /\ (handler'.sub => Known(handler'.chunk))
      <3>1. CASE h = SubStream
        BY <2>1, <3>1, <1>w, <1>3, KnownCut DEF SubsKnown
      <3> QED
        BY <2>1, <3>1, <1>w, <1>3, <1>p DEF SubsKnown
    <2> QED
      BY <2>1, <1>p, <1>e DEF SubsKnown, Known
  <1>8. Enough'
    <2>1. handler = Idle /\ handler.h # Stream
      BY <1>e, <1>p DEF HandlerOK, Idle, NoHandle, Stream
    <2>2. NChunk = 0 /\ NCbs' = NCbs /\ NQueued' = NQueued
      BY <2>1, <1>p, <1>e DEF StreamChunk, NChunk, NCbs, NQueued
    <2>3. CASE h = Stream
      <3>1. StreamChunk' = SubSeq(wire[h], 1, n)
        BY <1>3, <1>p, <2>3 DEF StreamChunk
      <3>2. n \in Nat /\ NChunk' = n /\ NWire' = NWire - n
        BY <3>1, <1>w, <1>p, <2>3, CutLengths DEF NChunk, NWire
      <3>3. NChunk + NWire + NQueued <= NCbs
        BY <2>3, <1>e DEF Enough, Replying
      <3>4. NChunk' + NWire' + NQueued' <= NCbs'
        BY <3>2, <3>3, <2>2, Lengths
      <3> QED
        BY <3>4, <1>e DEF Enough
    <2>4. CASE h # Stream
      <3>1. StreamChunk' = <<>> /\ (Replying' => Replying) /\ wire'[Stream] = wire[Stream]
        BY <1>3, <1>p, <1>e, <1>w, <2>4 DEF StreamChunk, Replying
      <3>2. NChunk' = 0 /\ NWire' = NWire
        BY <3>1, <1>p DEF NChunk, NWire
      <3> QED
        BY <2>2, <3>1, <3>2, <1>e DEF Enough
    <2> QED
      BY <2>3, <2>4
  <1>9. ReadOK'
    <2>1. handler.h # Stream
      BY <1>e, <1>p DEF HandlerOK, Idle, NoHandle, Stream
    <2> QED
      BY <2>1, <1>p, <1>e, <1>3 DEF ReadOK, NCbs, NQueued, NWritten
  <1> QED
    BY <1>e, <1>4, <1>5, <1>6, <1>7, <1>8, <1>9

LEMMA OnReadReply ==
    ASSUME Orderly, SessionInv, TypeOK', on_read_reply
    PROVE  SessionInv'
  <1> USE DEF SessionInv
  <1> DEFINE item == Head(handler.chunk)
  <1>p. /\ Stream \in Handles /\ SubStream \in Handles /\ Stream # SubStream
        /\ Stream' = Stream /\ SubStream' = SubStream /\ Pair' = Pair /\ gen' = gen
    BY PairFacts DEF on_read_reply, Stream, SubStream, Pair
  <1>e. /\ handler.at \in {"loop", "callback"} /\ handler.chunk # <<>>
        /\ handler' = [handler EXCEPT !.chunk = Tail(@),
                         !.at = IF handler.sub /\ item.kind # "message"
                                  THEN "loop" ELSE "callback"]
        /\ UNCHANGED <<flags, stream_flags, channels, status, connreq, events, reading,
                       written, queued, wire, subscribed, eof, data, listeners>>
    BY DEF on_read_reply, handles, server
  <1>x. /\ handler.chunk \in Seq(Items)
        /\ handler'.chunk = Tail(handler.chunk) /\ handler'.at \in {"loop", "callback"}
        /\ handler'.h = handler.h /\ handler'.sub = handler.sub
    BY <1>e DEF TypeOK
  <1>1. /\ "CONNECTED" \in flags /\ "FREEING" \notin flags /\ handler.h \in Pair
        /\ handler.sub <=> handler.h = SubStream
    BY <1>e DEF HandlerOK, Connected, Pair
  <1>2. ASSUME handler.sub
        PROVE  fault' = "none" /\ Enough' /\ ReadOK' /\ Connected' /\ Dialing'
    <2>1. item.kind # "unsubscribe" => item.call \in channels
      <3>1. Known(handler.chunk)
        BY <1>1, <1>2 DEF SubsKnown
      <3>2. 1 \in DOMAIN handler.chunk /\ item = handler.chunk[1]
        BY <1>e, <1>x, TailFacts
      <3> QED
        BY <3>1, <3>2 DEF Known
    <2>2. fault' = "none" /\ UNCHANGED <<command_cb_list, outcome>>
      BY <1>2, <2>1 DEF on_read_reply, Fail
    <2>3. Enough'
      <3>1. handler.h # Stream /\ handler'.h # Stream
        BY <1>1, <1>2, <1>p, <1>x
      <3>2. NChunk' = NChunk /\ NWire' = NWire /\ NQueued' = NQueued /\ NCbs' = NCbs
        BY <3>1, <2>2, <1>p, <1>e DEF StreamChunk, NChunk, NWire, NQueued, NCbs
      <3> QED
        BY <3>2, <2>2, <1>2, <1>x, <1>p, <1>e DEF Enough, Replying
    <2>4. ReadOK'
      BY <2>2, <1>x, <1>p, <1>e DEF ReadOK, NCbs, NQueued, NWritten
    <2>5. Connected' /\ Dialing'
      BY <2>2, <1>1, <1>p, <1>e DEF Connected, Dialing
    <2> QED
      BY <2>2, <2>3, <2>4, <2>5
  <1>3. ASSUME ~handler.sub
        PROVE  fault' = "none" /\ Enough' /\ ReadOK' /\ Connected' /\ Dialing'
    <2>1. handler.h = Stream /\ handler'.h = Stream
      BY <1>1, <1>3, <1>x DEF Pair
    <2>2. NChunk > 0 /\ NChunk' = NChunk - 1 /\ NWire' = NWire /\ NQueued' = NQueued
      <3>1. StreamChunk = handler.chunk /\ StreamChunk' = Tail(handler.chunk)
        BY <2>1, <1>x, <1>p DEF StreamChunk
      <3> QED
        BY <3>1, <1>e, <1>x, <1>p, TailFacts DEF NChunk, NWire, NQueued
    <2>3. NChunk + NWire + NQueued <= NCbs
      BY <1>e, <1>3 DEF Enough, Replying
    <2>4. NCbs > 0
      BY <2>2, <2>3, Lengths
    <2>5. command_cb_list # <<>>
      BY <2>4 DEF NCbs
    <2>6. /\ fault' = "none" /\ NCbs' = NCbs - 1
          /\ \A i \in DOMAIN command_cb_list' : command_cb_list'[i] # StackCb
      BY <2>5, <1>3, ShiftFacts DEF on_read_reply, Enough, TypeOK, NCbs
    <2>7. Enough'
      <3>1. NChunk' + NWire' + NQueued' <= NCbs'
        BY <2>2, <2>3, <2>6, Lengths
      <3> QED
        BY <3>1, <2>6 DEF Enough
    <2>8. ReadOK'
      BY <2>1, <1>e, <1>x, <1>p DEF ReadOK
    <2>9. Connected' /\ Dialing'
      BY <1>1, <1>p, <1>e DEF Connected, Dialing
    <2> QED
      BY <2>6, <2>7, <2>8, <2>9
  <1>4. Elsewhere' /\ Requested' /\ DataSet' /\ HandlerOK'
    <2>1. Elsewhere' /\ Requested' /\ DataSet'
      BY <1>p, <1>e DEF Elsewhere, Requested, DataSet
    <2>2. HandlerOK'
      BY <1>p, <1>e, <1>x DEF HandlerOK
    <2> QED
      BY <2>1, <2>2
  <1>5. Reliable' /\ EventsOK' /\ SubsKnown'
    <2>1. handler.sub => Known(handler'.chunk)
      BY <1>1, <1>e, <1>x, KnownTail DEF SubsKnown
    <2> QED
      BY <2>1, <1>p, <1>e, <1>x, EventsKept DEF Reliable, SubsKnown, Known
  <1> QED
    BY <1>2, <1>3, <1>4, <1>5

LEMMA OnReadDone ==
    ASSUME Orderly, SessionInv, TypeOK', on_read_done
    PROVE  SessionInv'
  <1> USE DEF SessionInv
  <1>p. /\ Stream \in Handles /\ SubStream \in Handles /\ Stream # SubStream
        /\ Stream' = Stream /\ SubStream' = SubStream /\ Pair' = Pair /\ gen' = gen
    BY PairFacts DEF on_read_done, Stream, SubStream, Pair
  <1>e. /\ handler.at \in {"loop", "callback"} /\ handler.chunk = <<>>
        /\ handler' = Idle
        /\ UNCHANGED <<flags, stream_flags, channels, status, connreq, events, fault,
                       written, queued, wire, subscribed, eof, data, listeners>>
    BY DEF on_read_done, server, history
  <1>1. /\ "CONNECTED" \in flags /\ "MONITORING" \notin flags /\ handler.h \in Pair
        /\ handler.sub <=> handler.h = SubStream
        /\ gen > 0 /\ handler'.h # Stream /\ handler'.at = "idle"
    BY <1>e DEF HandlerOK, Connected, Idle, NoHandle, Stream
  <1>2. /\ command_cb_list' = command_cb_list /\ reading' \subseteq reading
        /\ \A k \in reading \ reading' : k = handler.h /\ ~handler.sub /\ command_cb_list = <<>>
    BY <1>1, <1>e DEF on_read_done, StopsReading
  <1>3. Elsewhere' /\ Requested' /\ DataSet'
    BY <1>p, <1>e, <1>1, <1>2, ElsewhereKept DEF Requested, DataSet
  <1>4. Connected' /\ Dialing' /\ HandlerOK'
    BY <1>p, <1>e, <1>1, <1>2 DEF Connected, Dialing, HandlerOK
  <1>5. Reliable' /\ EventsOK' /\ SubsKnown'
    BY <1>p, <1>e, <1>1, EventsKept DEF Reliable, SubsKnown, Known, Idle
  <1>6. NCbs' = NCbs /\ NQueued' = NQueued /\ NWritten' = NWritten /\ NWire' = NWire /\ NChunk' = 0
    BY <1>p, <1>e, <1>1, <1>2 DEF NCbs, NQueued, NWritten, NWire, NChunk, StreamChunk
  <1>7. Enough'
    <2>1. NChunk = 0
      BY <1>e DEF NChunk, StreamChunk
    <2> QED
      BY <2>1, <1>6, <1>p, <1>e, <1>1, <1>2 DEF Enough, Replying
  <1>8. ReadOK'
    <2>1. ASSUME status[Stream] = "open", Stream \notin reading' PROVE NCbs <= NQueued + NWritten
      <3>1. CASE Stream \in reading
        <4>1. NCbs = 0
          BY <3>1, <2>1, <1>2 DEF NCbs
        <4> QED
          BY <4>1, Lengths
      <3>2. CASE Stream \notin reading
        BY <3>2, <2>1, <1>e DEF ReadOK
      <3> QED
        BY <3>1, <3>2
    <2> QED
      BY <2>1, <1>6, <1>p, <1>e, <1>1 DEF ReadOK
  <1> QED
    BY <1>e, <1>3, <1>4, <1>5, <1>7, <1>8

LEMMA OnReadEmpty ==
    ASSUME Orderly, SessionInv, TypeOK', NEW h \in Handles, on_read_empty(h)
    PROVE  SessionInv'
  <1> USE DEF SessionInv
  <1>p. /\ gen > 0 /\ h \in {Stream, SubStream}
        /\ Stream \in Handles /\ SubStream \in Handles /\ Stream # SubStream
        /\ Stream' = Stream /\ SubStream' = SubStream /\ Pair' = Pair /\ gen' = gen
    BY ActiveHandle, PairFacts DEF on_read_empty, Stream, SubStream, Pair, context
  <1>e. /\ handler.at = "idle"
        /\ reading' \subseteq reading
        /\ \A k \in reading \ reading' : command_cb_list = <<>>
        /\ UNCHANGED <<flags, stream_flags, channels, status, connreq, events, fault,
                       written, queued, wire, subscribed, eof, data, listeners,
                       command_cb_list, handler>>
    BY DEF on_read_empty, server, history, context, LoopTurn
  <1>1. Elsewhere' /\ Requested' /\ DataSet'
    BY <1>p, <1>e, ElsewhereKept DEF Requested, DataSet
  <1>2. Connected' /\ Dialing' /\ HandlerOK'
    BY <1>p, <1>e DEF Connected, Dialing, HandlerOK
  <1>3. Reliable' /\ EventsOK' /\ SubsKnown' /\ Enough'
    BY <1>p, <1>e, EventsKept, SubsKept, EnoughKept DEF Reliable, Replying
  <1>4. ReadOK'
    <2>1. NCbs' = NCbs /\ NQueued' = NQueued /\ NWritten' = NWritten
      BY <1>p, <1>e DEF NCbs, NQueued, NWritten
    <2>2. Stream \in reading \ reading' => NCbs = 0
      BY <1>e DEF NCbs
    <2> QED
      BY <2>1, <2>2, <1>p, <1>e, Lengths DEF ReadOK
  <1> QED
    BY <1>e, <1>1, <1>2, <1>3, <1>4

LEMMA OnReadError ==
    ASSUME Orderly, SessionInv, TypeOK', NEW h \in Handles, on_read_error(h)
    PROVE  SessionInv'
  <1> USE DEF SessionInv
  <1>p. /\ gen > 0 /\ h \in {Stream, SubStream}
        /\ Stream \in Handles /\ SubStream \in Handles /\ Stream # SubStream
        /\ Stream' = Stream /\ SubStream' = SubStream /\ Pair' = Pair /\ gen' = gen
    BY ActiveHandle, PairFacts DEF on_read_error, Stream, SubStream, Pair, context
  <1>e. /\ handler.at = "idle" /\ status[h] = "open" /\ h \in reading /\ h \in eof
        /\ reading' = reading \ {h}
        /\ UNCHANGED <<flags, stream_flags, channels, status, connreq, fault,
                       written, queued, wire, subscribed, eof, data, listeners,
                       command_cb_list>>
    BY DEF on_read_error, server, context, LoopTurn
  <1>1. "CONNECTED" \in flags /\ "DISCONNECTING" \notin flags /\ h \in data
    BY <1>p, <1>e DEF Dialing, Connected, DataSet, Pair
  <1>2. /\ Emit("error")
        /\ handler' = [at |-> "error", h |-> h, sub |-> h = SubStream, chunk |-> <<>>]
    BY <1>1 DEF on_read_error
  <1>3. PlainOnly /\ "error" \in listeners
    BY <1>e DEF Reliable, PlainOnly, on_read_error, LoopTurn
  <1>4. events'[gen]["error"] > 0
    BY <1>2, <1>3, EmitFacts, EventCounts DEF EventNames
  <1>5. Elsewhere' /\ Requested' /\ DataSet'
    BY <1>p, <1>e, ElsewhereKept DEF Requested, DataSet
  <1>6. Connected' /\ Dialing'
    BY <1>p, <1>e, <1>1, <1>4 DEF Connected, Dialing
  <1>7. HandlerOK'
    BY <1>p, <1>e, <1>1, <1>2, <1>4 DEF HandlerOK, Pair
  <1>8. Reliable' /\ EventsOK'
    <2>1. Reliable'
      BY <1>p, <1>e, <1>3 DEF Reliable
    <2>2. EventsOK'
      BY <1>p, <1>e, <1>2, EventsEmitted DEF EventNames
    <2> QED
      BY <2>1, <2>2
  <1>9. SubsKnown'
    BY <1>p, <1>e, <1>2 DEF SubsKnown, Known
  <1>10. handler = Idle /\ handler.h # Stream
    BY <1>e, <1>p DEF HandlerOK, Idle, NoHandle, Stream
  <1>11. Enough'
    <2>1. NChunk = 0 /\ NChunk' = 0 /\ NCbs' = NCbs /\ NWire' = NWire /\ NQueued' = NQueued
      BY <1>2, <1>10, <1>p, <1>e DEF NChunk, NCbs, NWire, NQueued, StreamChunk
    <2>2. Replying' => Replying
      BY <1>2, <1>p, <1>e DEF Replying
    <2> QED
      BY <2>1, <2>2, <1>e DEF Enough
  <1>12. ReadOK'
    <2>1. NCbs' = NCbs /\ NWritten' = NWritten /\ NQueued' = NQueued
      BY <1>p, <1>e DEF NCbs, NWritten, NQueued
    <2> QED
      BY <2>1, <1>2, <1>10, <1>p, <1>e DEF ReadOK
  <1> QED
    BY <1>e, <1>5, <1>6, <1>7, <1>8, <1>9, <1>11, <1>12

LEMMA OnReadErrorClose ==
    ASSUME Orderly, SessionInv, TypeOK', on_read_error_close
    PROVE  SessionInv'
  <1> USE DEF SessionInv
  <1> DEFINE h == handler.h
  <1>p. /\ Stream \in Handles /\ SubStream \in Handles /\ Stream # SubStream
        /\ Stream' = Stream /\ SubStream' = SubStream /\ Pair' = Pair /\ gen' = gen
    BY PairFacts DEF on_read_error_close, Stream, SubStream, Pair, context
  <1>1. /\ "CONNECTED" \in flags /\ h \in Pair /\ status[h] = "open" /\ h \in data
        /\ events[gen]["error"] > 0 /\ gen > 0 /\ handler.chunk = <<>>
        /\ "DISCONNECTING" \notin flags
    BY DEF on_read_error_close, HandlerOK, Connected
  <1>e. /\ handler.at = "error"
        /\ status' = [status EXCEPT ![h] = "closing"]
        /\ handler' = Idle /\ fault' = "none"
        /\ UNCHANGED <<flags, stream_flags, channels, connreq, events, reading,
                       written, queued, wire, subscribed, eof, data, listeners,
                       command_cb_list>>
    BY <1>1 DEF on_read_error_close, server, context, CloseFault, Fail
  <1>s. /\ \A k \in Handles : k # h => status'[k] = status[k]
        /\ status'[h] = "closing"
        /\ status'[Stream] = "open" => status[Stream] = "open" /\ h # Stream
    BY <1>1, <1>p, <1>e DEF TypeOK, Pair
  <1> HIDE DEF h
  <1>2. Elsewhere'
    BY <1>p, <1>e, <1>1, <1>s, ElsewhereKept DEF Pair
  <1>3. Requested'
    BY <1>p, <1>e, <1>1, <1>s DEF Requested, Pair
  <1>4. DataSet' /\ HandlerOK'
    BY <1>p, <1>e, <1>1, <1>s DEF DataSet, HandlerOK, Pair, Idle
  <1>5. Connected' /\ Dialing'
    BY <1>p, <1>e, <1>1, <1>s DEF Connected, Dialing, Pair
  <1>6. Reliable'
    BY <1>p, <1>e, <1>1, <1>s DEF Reliable
  <1>7. SubsKnown' /\ EventsOK'
    BY <1>p, <1>e, EventsKept DEF SubsKnown, Known, Idle
  <1>8. handler'.h # Stream /\ handler'.at = "idle"
    BY <1>1, <1>e DEF Idle, NoHandle, Stream
  <1>9. Enough'
    <2>1. NChunk = 0 /\ NChunk' = 0 /\ NCbs' = NCbs /\ NWire' = NWire /\ NQueued' = NQueued
      BY <1>1, <1>8, <1>p, <1>e DEF NChunk, NCbs, NWire, NQueued, StreamChunk
    <2>2. Replying' => Replying
      BY <1>8, <1>s, <1>p, <1>e DEF Replying
    <2> QED
      BY <2>1, <2>2, <1>e DEF Enough
  <1>10. ReadOK'
    <2>1. NCbs' = NCbs /\ NWritten' = NWritten /\ NQueued' = NQueued
      BY <1>p, <1>e DEF NCbs, NWritten, NQueued
    <2> QED
      BY <2>1, <1>8, <1>s, <1>p, <1>e DEF ReadOK, h
  <1> QED
    BY <1>e, <1>2, <1>3, <1>4, <1>5, <1>6, <1>7, <1>9, <1>10

LEMMA OnDisconnect ==
    ASSUME Orderly, SessionInv, TypeOK', NEW h \in Handles, on_disconnect(h)
    PROVE  SessionInv'
  <1> USE DEF SessionInv
  <1>p. /\ gen > 0 /\ h \in {Stream, SubStream} /\ h \in Pair
        /\ Stream \in Handles /\ SubStream \in Handles /\ Stream # SubStream
        /\ Stream' = Stream /\ SubStream' = SubStream /\ Pair' = Pair /\ gen' = gen
    BY ActiveHandle, PairFacts DEF on_disconnect, Stream, SubStream, Pair
  <1>e. /\ handler.at = "idle" /\ status[h] = "closing"
        /\ queued[h] = <<>> /\ written[h] = <<>>
        /\ status' = [status EXCEPT ![h] = "freed"]
        /\ UNCHANGED <<connreq, reading, written, queued, wire, subscribed, eof, data,
                       listeners, handler>>
    BY DEF on_disconnect, server, LoopTurn
  <1>s. /\ \A k \in Handles : k # h => status'[k] = status[k]
        /\ status'[h] = "freed"
        /\ status'[Stream] = "open" => status[Stream] = "open"
    BY <1>p, <1>e DEF TypeOK
  <1>1. "CONNECTED" \in flags /\ h \in data /\ "FREEING" \notin flags
    BY <1>p, <1>e DEF Dialing, DataSet, Connected, Pair
  <1>2. Elsewhere' /\ Requested' /\ DataSet' /\ HandlerOK'
    <2>1. Elsewhere'
      BY <1>p, <1>e, <1>s, ElsewhereKept
    <2>2. Requested'
      BY <1>p, <1>e, <1>s DEF Requested
    <2>3. DataSet' /\ HandlerOK'
      BY <1>p, <1>e, <1>s DEF DataSet, HandlerOK, Pair, Idle
    <2> QED
      BY <2>1, <2>2, <2>3
  <1>r. Replying' => Replying
    BY <1>p, <1>e, <1>s DEF Replying
  <1>3. CASE status[Stream] = "freed" \/ status[SubStream] = "freed"
    <2>0. ~Replying /\ ~Replying' /\ status'[Stream] = "freed" /\ status'[SubStream] = "freed"
      BY <1>3, <1>p, <1>e, <1>s DEF Connected, Replying
    <2>1. stream_flags = {"SUB_STREAM"}
      BY <1>3, <1>1, <1>p, <1>e DEF Connected
    <2>2. StreamFlagDown = {}
      BY <2>1 DEF StreamFlagDown
    <2>3. /\ stream_flags' = {} /\ flags' = flags \cup {"FREEING"} /\ channels' = {}
          /\ command_cb_list' = <<>> /\ fault' = "none" /\ Emit("disconnect")
      BY <1>1, <2>2 DEF on_disconnect, Destroyed, Fail, Enough
    <2>4. Connected' /\ Dialing'
      <3>1. \A k \in Pair : status'[k] = "freed" /\ queued[k] = <<>> /\ written[k] = <<>>
        BY <2>0, <1>1, <1>3, <1>p, <1>e DEF Connected, Pair
      <3>2. events'[gen]["error"] = events[gen]["error"]
        BY <2>3, EmitFacts, EventCounts DEF EventNames
      <3>3. "DISCONNECTING" \notin flags => events'[gen]["error"] > 0
        BY <3>2, <1>1, <1>p, <1>e DEF Connected
      <3> QED
        BY <3>1, <3>3, <2>0, <2>3, <1>1, <1>p, <1>e DEF Connected, Dialing
    <2>5. Enough' /\ ReadOK'
      <3>1. \A i \in DOMAIN command_cb_list' : command_cb_list'[i] # StackCb
        BY <2>3
      <3> QED
        BY <3>1, <2>0, <1>p, <1>e, <1>s DEF Enough, ReadOK
    <2>6. SubsKnown'
      BY <2>3, <1>p, <1>e DEF SubsKnown
    <2>7. EventsOK'
      <3>1. events[gen]["disconnect"] = 0
        BY <1>1, EventCounts DEF EventsOK
      <3> QED
        BY <3>1, <2>3, <1>p, EventsEmitted DEF EventNames
    <2>8. Reliable'
      <3>1. events'[gen]["error"] = events[gen]["error"]
        BY <2>3, EmitFacts, EventCounts DEF EventNames
      <3> QED
        BY <3>1, <1>p, <1>e, <1>s DEF Reliable, Pair
    <2> QED
      BY <2>3, <2>4, <2>5, <2>6, <2>7, <2>8, <1>2
  <1>4. CASE status[Stream] # "freed" /\ status[SubStream] # "freed"
    <2>1. StreamFlagDown = {"SUB_STREAM"}
      BY <1>4, <1>1 DEF Connected, StreamFlagDown, StreamFlagNames
    <2>2. /\ stream_flags' = {"SUB_STREAM"}
          /\ UNCHANGED <<flags, command_cb_list, channels, events, fault>>
      BY <1>1, <2>1 DEF on_disconnect
    <2>3. Connected' /\ Dialing'
      BY <1>4, <2>2, <1>1, <1>p, <1>e, <1>s DEF Connected, Dialing, Pair
    <2>4. Enough' /\ ReadOK' /\ SubsKnown' /\ EventsOK'
      BY <2>2, <1>p, <1>e, <1>s, <1>r, EnoughKept, ReadKept, SubsKept, EventsKept
    <2>5. Reliable'
      BY <2>2, <1>p, <1>e, <1>s DEF Reliable, Pair
    <2> QED
      BY <2>2, <2>3, <2>4, <2>5, <1>2
  <1> QED
    BY <1>3, <1>4

LEMMA OnFlush ==
    ASSUME Orderly, SessionInv, TypeOK', NEW h \in Handles, Flush(h)
    PROVE  SessionInv'
  <1> USE DEF SessionInv
  <1> DEFINE item == Head(queued[h])
  <1>p. /\ gen > 0 /\ h \in {Stream, SubStream} /\ h \in Pair
        /\ Stream \in Handles /\ SubStream \in Handles /\ Stream # SubStream
        /\ Stream' = Stream /\ SubStream' = SubStream /\ Pair' = Pair /\ gen' = gen
    BY ActiveHandle, PairFacts DEF Flush, Stream, SubStream, Pair, context
  <1>e. /\ status[h] = "open" /\ queued[h] # <<>>
        /\ queued' = [queued EXCEPT ![h] = Tail(@)]
        /\ written' = [written EXCEPT ![h] = Append(@, item)]
        /\ wire' = [wire EXCEPT ![h] = Append(@, item)]
        /\ UNCHANGED <<flags, stream_flags, channels, status, connreq, events, reading,
                       eof, data, listeners, command_cb_list, handler, fault>>
    BY DEF Flush, context, history
  <1>t. /\ queued[h] \in Seq(Items) /\ written[h] \in Seq(Items) /\ wire[h] \in Seq(Items)
        /\ item \in Items
        /\ Len(queued[h]) \in Nat /\ Len(queued[h]) > 0 /\ DOMAIN queued[h] = 1..Len(queued[h])
        /\ queued[h][1] = item
    <2>1. queued[h] \in Seq(Items) /\ written[h] \in Seq(Items) /\ wire[h] \in Seq(Items)
      BY DEF TypeOK
    <2> QED
      BY <2>1, <1>e, TailFacts, HeadTailProperties
  <1>k. item = queued[h][1] /\ 1 \in DOMAIN queued[h]
    BY <1>t
  <1>s. /\ \A k \in Handles : k # h =>
              queued'[k] = queued[k] /\ written'[k] = written[k] /\ wire'[k] = wire[k]
        /\ queued'[h] = Tail(queued[h]) /\ written'[h] = Append(written[h], item)
        /\ wire'[h] = Append(wire[h], item)
    BY <1>e DEF TypeOK
  <1>d. "CONNECTED" \in flags /\ "FREEING" \notin flags
    BY <1>p, <1>e DEF Dialing, Connected, Pair
  <1>u. /\ \A k \in Handles : k # h => subscribed'[k] = subscribed[k]
        /\ subscribed'[h] \subseteq
             subscribed[h] \cup (IF item.kind \in {"subscribe", "monitor"} THEN {item.call} ELSE {})
    BY <1>p DEF Flush, TypeOK
  <1> HIDE DEF item
  <1>1. Elsewhere'
    BY <1>p, <1>e, <1>s, <1>u, ElsewhereKept
  <1>2. Requested' /\ DataSet' /\ HandlerOK' /\ EventsOK'
    BY <1>p, <1>e, EventsKept DEF Requested, DataSet, HandlerOK
  <1>3. Connected' /\ Dialing'
    BY <1>p, <1>e, <1>s, <1>d DEF Connected, Dialing
  <1>4. Reliable'
    BY <1>p, <1>e, <1>s DEF Reliable, Pair
  <1>5. SubsKnown'
    <2>1. CASE h = Stream
      <3>1. item.kind = "plain"
        BY <2>1, <1>k DEF SubsKnown
      <3>2. subscribed'[Stream] = {}
        BY <2>1, <3>1, <1>u DEF SubsKnown
      <3>3. \A i \in DOMAIN queued'[Stream] : queued'[Stream][i].kind = "plain"
        <4>1. \A i \in DOMAIN Tail(queued[h]) :
                i + 1 \in DOMAIN queued[h] /\ Tail(queued[h])[i] = queued[h][i + 1]
          BY <1>t, <1>e, TailFacts
        <4> QED
          BY <4>1, <2>1, <1>s DEF SubsKnown
      <3> QED
        BY <2>1, <3>2, <3>3, <1>p, <1>e, <1>s, <1>u DEF SubsKnown, Known
    <2>2. CASE h = SubStream
      <3>1. Known(queued[h]) /\ Known(wire[h]) /\ subscribed[h] \subseteq channels
        BY <2>2, <1>d DEF SubsKnown
      <3>2. /\ item.kind \in {"subscribe", "unsubscribe", "message"}
            /\ item.kind # "unsubscribe" => item.call \in channels
        BY <3>1, <1>k DEF Known
      <3>3. Known(Tail(queued[h]))
        BY <3>1, <1>t, <1>e, KnownTail
      <3>4. Known(Append(wire[h], item))
        <4>1. /\ DOMAIN wire[h] = 1..Len(wire[h]) /\ Len(wire[h]) \in Nat
              /\ DOMAIN Append(wire[h], item) = 1..(Len(wire[h]) + 1)
              /\ \A i \in 1..Len(wire[h]) : Append(wire[h], item)[i] = wire[h][i]
              /\ Append(wire[h], item)[Len(wire[h]) + 1] = item
          BY <1>t, LenProperties, AppendProperties
        <4> QED
          BY <4>1, <3>1, <3>2 DEF Known
      <3>5. Known(queued[h])' /\ Known(wire[h])' /\ (handler.sub => Known(handler.chunk))'
        BY <3>3, <3>4, <1>s, <1>e, <1>d DEF SubsKnown, Known
      <3>6. subscribed'[h] \subseteq channels'
        BY <3>1, <3>2, <1>u, <1>e
      <3> QED
        BY <2>2, <3>5, <3>6, <1>p, <1>e, <1>s, <1>u DEF SubsKnown, Known
    <2> QED
      BY <2>1, <2>2, <1>p
  <1>n. /\ NCbs' = NCbs /\ NChunk' = NChunk
        /\ h = Stream => NQueued' = NQueued - 1 /\ NWire' = NWire + 1 /\ NWritten' = NWritten + 1
        /\ h # Stream => NQueued' = NQueued /\ NWire' = NWire /\ NWritten' = NWritten
    <2>1. NCbs' = NCbs /\ NChunk' = NChunk
      BY <1>p, <1>e DEF NCbs, NChunk, StreamChunk
    <2>2. h # Stream => NQueued' = NQueued /\ NWire' = NWire /\ NWritten' = NWritten
      BY <1>p, <1>s DEF NQueued, NWire, NWritten
    <2>3. /\ Len(Tail(queued[h])) = Len(queued[h]) - 1
          /\ Len(Append(wire[h], item)) = Len(wire[h]) + 1
          /\ Len(Append(written[h], item)) = Len(written[h]) + 1
      BY <1>t, <1>e, TailFacts, AppendProperties
    <2>4. h = Stream => NQueued' = NQueued - 1 /\ NWire' = NWire + 1 /\ NWritten' = NWritten + 1
      BY <2>3, <1>p, <1>s DEF NQueued, NWire, NWritten
    <2> QED
      BY <2>1, <2>2, <2>4
  <1>6. Enough'
    <2>1. Replying' => Replying
      BY <1>p, <1>e DEF Replying
    <2> QED
      BY <2>1, <1>n, <1>e, Lengths DEF Enough
  <1>7. ReadOK'
    BY <1>n, <1>p, <1>e, Lengths DEF ReadOK
  <1> QED
    BY <1>e, <1>1, <1>2, <1>3, <1>4, <1>5, <1>6, <1>7

LEMMA OnPush ==
    ASSUME Orderly, SessionInv, TypeOK', NEW h \in Handles, NEW c \in subscribed[h], Push(h, c)
    PROVE  SessionInv'
  <1> USE DEF SessionInv
  <1>p. /\ gen > 0 /\ h \in {Stream, SubStream} /\ h \in Pair
        /\ Stream \in Handles /\ SubStream \in Handles /\ Stream # SubStream
        /\ Stream' = Stream /\ SubStream' = SubStream /\ Pair' = Pair /\ gen' = gen
    BY ActiveHandle, PairFacts DEF Push, Stream, SubStream, Pair, context
  <1>h. h = SubStream /\ h[2] = "sub_stream"
    BY <1>p DEF SubsKnown, SubStream
  <1> DEFINE item == [kind |-> "message", call |-> c]
  <1>e. /\ status[h] = "open"
        /\ wire' = [wire EXCEPT ![h] = Append(@, item)]
        /\ UNCHANGED <<flags, stream_flags, channels, status, connreq, events, reading,
                       queued, written, subscribed, eof, data, listeners,
                       command_cb_list, handler, fault>>
    BY <1>h DEF Push, context, history, handles
  <1>d. "CONNECTED" \in flags /\ "FREEING" \notin flags
    BY <1>p, <1>e DEF Dialing, Connected, Pair
  <1>i. item.kind = "message" /\ item.call \in channels /\ item \in Items
    BY <1>d, <1>h DEF SubsKnown, Items, TypeOK
  <1> HIDE DEF item
  <1>s. /\ \A k \in Handles : k # h => wire'[k] = wire[k]
        /\ wire'[h] = Append(wire[h], item) /\ wire[h] \in Seq(Items)
    BY <1>e DEF TypeOK
  <1>1. Elsewhere'
    BY <1>p, <1>e, <1>s, ElsewhereKept
  <1>2. Requested' /\ DataSet' /\ HandlerOK' /\ EventsOK'
    BY <1>p, <1>e, EventsKept DEF Requested, DataSet, HandlerOK
  <1>3. Connected' /\ Dialing'
    BY <1>p, <1>e, <1>d DEF Connected, Dialing
  <1>4. Reliable'
    BY <1>p, <1>e DEF Reliable
  <1>5. SubsKnown'
    <2>1. Known(Append(wire[h], item))
      <3>1. /\ DOMAIN wire[h] = 1..Len(wire[h]) /\ Len(wire[h]) \in Nat
            /\ DOMAIN Append(wire[h], item) = 1..(Len(wire[h]) + 1)
            /\ \A i \in 1..Len(wire[h]) : Append(wire[h], item)[i] = wire[h][i]
            /\ Append(wire[h], item)[Len(wire[h]) + 1] = item
        BY <1>s, <1>i, LenProperties, AppendProperties
      <3> QED
        BY <3>1, <1>d, <1>h, <1>i DEF Known, SubsKnown
    <2> QED
      BY <2>1, <1>p, <1>e, <1>s, <1>h DEF SubsKnown, Known
  <1>n. /\ NCbs' = NCbs /\ NChunk' = NChunk /\ NWire' = NWire /\ NQueued' = NQueued
        /\ NWritten' = NWritten
    BY <1>p, <1>e, <1>s, <1>h DEF NCbs, NChunk, StreamChunk, NWire, NQueued, NWritten
  <1>6. Enough' /\ ReadOK'
    BY <1>n, <1>p, <1>e DEF Enough, ReadOK, Replying
  <1> QED
    BY <1>e, <1>1, <1>2, <1>3, <1>4, <1>5, <1>6

LEMMA OnServerCloses ==
    ASSUME Orderly, SessionInv, TypeOK', NEW h \in Handles, NEW n \in 0..Len(wire[h]),
           ServerCloses(h, n)
    PROVE  SessionInv'
  <1> USE DEF SessionInv
  <1>p. /\ gen > 0 /\ h \in {Stream, SubStream} /\ h \in Pair
        /\ Stream \in Handles /\ SubStream \in Handles /\ Stream # SubStream
        /\ Stream' = Stream /\ SubStream' = SubStream /\ Pair' = Pair /\ gen' = gen
    BY ActiveHandle, PairFacts DEF ServerCloses, Stream, SubStream, Pair, context
  <1> DEFINE cut == SubSeq(wire[h], 1, n)
  <1>e. /\ status[h] = "open" /\ ~ServerUp
        /\ wire' = [wire EXCEPT ![h] = cut]
        /\ UNCHANGED <<flags, stream_flags, channels, status, connreq, events, reading,
                       queued, written, subscribed, data, listeners,
                       command_cb_list, handler, fault>>
        /\ eof' = eof \cup {h}
    BY DEF ServerCloses, context, history, handles, ServerUp
  <1>t. wire[h] \in Seq(Items)
    BY DEF TypeOK
  <1>c. /\ Len(cut) <= Len(wire[h]) /\ DOMAIN cut = 1..n
        /\ \A i \in 1..n : cut[i] = wire[h][i] /\ i \in DOMAIN wire[h]
    <2>1. Len(wire[h]) \in Nat /\ DOMAIN wire[h] = 1..Len(wire[h])
      BY <1>t, LenProperties
    <2> QED
      BY <2>1, <1>t, SubSeqProperties
  <1> HIDE DEF cut
  <1>s. /\ \A k \in Handles : k # h => wire'[k] = wire[k]
        /\ wire'[h] = cut
    BY <1>e DEF TypeOK
  <1>d. "CONNECTED" \in flags \/ cut = <<>>
    <2>1. ASSUME "CONNECTED" \notin flags PROVE cut = <<>>
      <3>1. wire[h] = <<>>
        BY <2>1, <1>p DEF Dialing
      <3> QED
        BY <3>1, <1>t, <1>p DEF cut
    <2> QED
      BY <2>1
  <1>1. Elsewhere'
    BY <1>p, <1>e, <1>s, ElsewhereKept
  <1>2. Requested' /\ DataSet' /\ HandlerOK' /\ EventsOK'
    BY <1>p, <1>e, EventsKept DEF Requested, DataSet, HandlerOK
  <1>3. Connected' /\ Dialing'
    BY <1>p, <1>e, <1>s, <1>d DEF Connected, Dialing
  <1>4. Reliable'
    BY <1>p, <1>e DEF Reliable
  <1>5. SubsKnown'
    BY <1>p, <1>e, <1>s, <1>c DEF SubsKnown, Known
  <1>n. /\ NCbs' = NCbs /\ NChunk' = NChunk /\ NWire' <= NWire /\ NQueued' = NQueued
        /\ NWritten' = NWritten
    <2>1. /\ NCbs' = NCbs /\ NChunk' = NChunk /\ NQueued' = NQueued /\ NWritten' = NWritten
      BY <1>p, <1>e DEF NCbs, NChunk, StreamChunk, NQueued, NWritten
    <2>2. NWire' <= NWire
      <3>1. CASE h = Stream
        BY <3>1, <1>p, <1>s, <1>c DEF NWire
      <3>2. CASE h # Stream
        <4>1. NWire' = NWire
          BY <3>2, <1>p, <1>s DEF NWire
        <4> QED
          BY <4>1, Lengths
      <3> QED
        BY <3>1, <3>2
    <2> QED
      BY <2>1, <2>2
  <1>6. Enough'
    <2>1. Replying' => Replying
      BY <1>p, <1>e DEF Replying
    <2>2. NWire' \in Nat
      <3>1. wire'[Stream'] \in Seq(Items)
        BY <1>p DEF TypeOK
      <3> QED
        BY <3>1, LenProperties DEF NWire
    <2> QED
      BY <2>1, <2>2, <1>n, <1>e, Lengths DEF Enough
  <1>7. ReadOK'
    BY <1>n, <1>p, <1>e DEF ReadOK
  <1> QED
    BY <1>e, <1>1, <1>2, <1>3, <1>4, <1>5, <1>6, <1>7

LEMMA OnListener ==
    ASSUME Orderly, SessionInv, TypeOK', NEW e \in Listeners, lua_client_on(e)
    PROVE  SessionInv'
  <1> USE DEF SessionInv
  <1>e. UNCHANGED <<gen, flags, stream_flags, channels, status, connreq, events, reading,
                    queued, written, wire, subscribed, eof, data, command_cb_list,
                    handler, fault>>
    BY DEF lua_client_on, handles, server, history
  <1>p. Stream' = Stream /\ SubStream' = SubStream /\ Pair' = Pair
    BY <1>e, SamePair
  <1>1. Elsewhere' /\ Requested' /\ DataSet' /\ HandlerOK' /\ Reliable'
    BY <1>p, <1>e DEF Elsewhere, Requested, DataSet, HandlerOK, Reliable
  <1>2. Connected' /\ Dialing'
    BY <1>p, <1>e DEF Connected, Dialing
  <1>3. Enough' /\ ReadOK' /\ SubsKnown' /\ EventsOK'
    <2>1. Replying' => Replying
      BY <1>p, <1>e DEF Replying
    <2> QED
      BY <2>1, <1>e, EnoughKept, ReadKept, SubsKept, EventsKept
  <1> QED
    BY <1>e, <1>1, <1>2, <1>3

\* connect() finds nothing of an earlier pair of connections.
LEMMA Fresh ==
    ASSUME Orderly, SessionInv, lua_client_connect
    PROVE  /\ stream_flags = {} /\ command_cb_list = <<>> /\ channels = {} /\ handler = Idle
           /\ gen > 0 => \A h \in Pair : /\ status[h] = "freed"
                                         /\ queued[h] = <<>> /\ written[h] = <<>>
  <1> USE DEF SessionInv
  <1>1. CASE gen = 0
    <2>1. "CONNECTED" \notin flags
      BY <1>1 DEF Connected
    <2> QED
      BY <1>1, <2>1 DEF Dialing
  <1>2. CASE gen # 0
    <2>1. "FREEING" \in flags
      BY <1>2 DEF lua_client_connect, MayConnect, Orderly
    <2>2. "CONNECTED" \in flags
      BY <2>1 DEF Dialing
    <2>3. /\ stream_flags = {} /\ command_cb_list = <<>> /\ channels = {}
          /\ \A h \in Pair : status[h] = "freed" /\ queued[h] = <<>> /\ written[h] = <<>>
      BY <2>1, <2>2 DEF Connected, Pair
    <2>4. handler = Idle
      BY <2>3 DEF HandlerOK
    <2> QED
      BY <2>3, <2>4
  <1> QED
    BY <1>1, <1>2

LEMMA OnConnectCall ==
    ASSUME Orderly, SessionInv, TypeOK', lua_client_connect
    PROVE  SessionInv'
  <1> USE DEF SessionInv
  <1>g. /\ gen \in Nat /\ gen' = gen + 1 /\ gen' \in Gens /\ gen' > 0 /\ gen' > gen
        /\ Stream' = <<gen + 1, "stream">> /\ SubStream' = <<gen + 1, "sub_stream">>
        /\ Pair' = {<<gen + 1, "stream">>, <<gen + 1, "sub_stream">>}
    BY PairFacts, SMTT(30) DEF lua_client_connect, Stream, SubStream, Pair, TypeOK
  <1>p. /\ Stream' \in Handles /\ SubStream' \in Handles /\ Stream' # SubStream'
        /\ \A h \in Pair' : h \in Handles /\ h[1] = gen + 1 /\ h[1] \notin 1..gen
        /\ \A h \in Pair' : h \notin Pair
        /\ \A h \in Handles \ Pair' : h[1] # gen + 1
    <2>1. \A h \in Handles : /\ h[1] \in Gens /\ h[2] \in {"stream", "sub_stream"}
                             /\ h = <<h[1], h[2]>>
      BY DEF Handles
    <2>2. Stream' \in Handles /\ SubStream' \in Handles /\ Stream' # SubStream'
      BY <1>g DEF Handles
    <2>3. \A h \in Pair' : h \in Handles /\ h[1] = gen + 1 /\ h[1] \notin 1..gen
      BY <1>g, <2>2
    <2>4. \A h \in Pair' : h \notin Pair
      BY <2>3, <1>g DEF Pair, Stream, SubStream
    <2>5. \A h \in Handles \ Pair' : h[1] # gen + 1
      BY <2>1, <1>g
    <2> QED
      BY <2>2, <2>3, <2>4, <2>5
  <1>e. /\ flags' = {}
        /\ status' = [h \in Handles |-> IF h \in Pair' THEN "connecting" ELSE status[h]]
        /\ connreq' = connreq \cup Pair'
        /\ UNCHANGED <<stream_flags, channels, events, reading, queued, written, wire,
                       subscribed, eof, data, command_cb_list, handler, fault>>
    BY <1>g DEF lua_client_connect, server, history
  <1>f. /\ stream_flags = {} /\ command_cb_list = <<>> /\ channels = {} /\ handler = Idle
        /\ gen > 0 => \A h \in Pair : /\ status[h] = "freed"
                                      /\ queued[h] = <<>> /\ written[h] = <<>>
    BY Fresh
  <1>n. \A h \in Pair' : /\ status'[h] = "connecting"
                         /\ queued[h] = <<>> /\ written[h] = <<>>
                         /\ wire[h] = <<>> /\ subscribed[h] = {} /\ h \notin eof \cup reading
    BY <1>p, <1>e DEF Elsewhere
  <1>1. Elsewhere'
    <2>1. SUFFICES ASSUME NEW h \in Handles, h \notin Pair'
                   PROVE  /\ status[h] = IF h[1] \in 1..gen' THEN "freed" ELSE "none"
                          /\ queued[h] = <<>> /\ written[h] = <<>>
                          /\ h[1] \notin 1..gen' => /\ wire[h] = <<>> /\ subscribed[h] = {}
                                                    /\ h \notin eof \cup reading
      BY <1>e, <1>g DEF Elsewhere
    <2>2. h[1] \in 1..gen' <=> h[1] \in 1..gen
      <3>1. h[1] # gen + 1 /\ h[1] \in Nat
        BY <1>p, <2>1, BoundsAssumption DEF Handles, Gens
      <3> QED
        BY <3>1, <1>g
    <2>3. CASE h \notin Pair \/ gen = 0
      BY <2>2, <2>3 DEF Elsewhere
    <2>4. CASE h \in Pair /\ gen > 0
      <3>1. h[1] \in 1..gen
        BY <2>4, <1>g DEF Pair, Stream, SubStream
      <3> QED
        BY <2>2, <2>4, <3>1, <1>f
    <2> QED
      BY <2>3, <2>4, <1>g
  <1>2. Requested'
    <2>1. \A h \in Handles : h \notin Pair' => status'[h] = status[h]
      BY <1>e
    <2> QED
      BY <2>1, <1>e, <1>n DEF Requested
  <1>3. Dialing'
    <2>1. /\ status'[Stream'] = "connecting" /\ status'[SubStream'] = "connecting"
      BY <1>n, <1>g
    <2> QED
      BY <2>1, <1>n, <1>e, <1>f, <1>g DEF Dialing
  <1>4. Connected' /\ DataSet' /\ HandlerOK'
    <2>1. Connected'
      BY <1>e DEF Connected
    <2>2. DataSet' /\ HandlerOK'
      BY <1>e, <1>n, <1>f DEF DataSet, HandlerOK, Idle
    <2> QED
      BY <2>1, <2>2
  <1>5. Enough' /\ ReadOK' /\ SubsKnown'
    <2>1. ~Replying' /\ status'[Stream'] # "open" /\ handler'.at = "idle" /\ ~handler'.sub
      BY <1>e, <1>f, <1>n, <1>g DEF Replying, Idle
    <2>2. \A i \in DOMAIN command_cb_list' : command_cb_list'[i] # StackCb
      BY <1>e, <1>f
    <2>3. Enough' /\ ReadOK'
      BY <2>1, <2>2 DEF Enough, ReadOK
    <2>4. /\ queued'[Stream'] = <<>> /\ queued'[SubStream'] = <<>> /\ wire'[SubStream'] = <<>>
          /\ subscribed'[Stream'] = {} /\ subscribed'[SubStream'] = {}
      BY <1>e, <1>n, <1>g
    <2>5. SubsKnown'
      BY <2>1, <2>4 DEF SubsKnown, Known
    <2> QED
      BY <2>3, <2>5
  <1>6. Reliable' /\ EventsOK'
    <2>1. \A e \in EventNames : events[gen'][e] = 0
      BY <1>g DEF EventsOK
    <2>2. EventsOK'
      <3>1. \A g \in Gens : g > gen' => g > gen
        BY <1>g, BoundsAssumption DEF Gens
      <3>2. events[gen']["connect"] = 0 /\ events[gen']["disconnect"] = 0
        BY <2>1 DEF EventNames
      <3> QED
        BY <3>1, <3>2, <1>e DEF EventsOK
    <2>3. Reliable'
      <3>1. events'[gen']["error"] = 0
        BY <2>1, <1>e DEF EventNames
      <3>2. queued'[SubStream'] = <<>> /\ written'[SubStream'] = <<>>
        BY <1>e, <1>n, <1>g
      <3>3. CASE ServerUp /\ eof = {}
        BY <3>1, <3>3, <1>e, <1>n DEF Reliable, ServerUp
      <3>4. CASE ~ServerUp /\ PlainOnly
        BY <3>2, <3>4 DEF Reliable, PlainOnly, ServerUp
      <3> QED
        BY <3>3, <3>4 DEF Reliable
    <2> QED
      BY <2>2, <2>3
  <1> QED
    BY <1>e, <1>1, <1>2, <1>3, <1>4, <1>5, <1>6

\* Between "connect" and disconnect(), no error seen: both handles are open.
LEMMA BothOpen ==
    ASSUME Orderly, SessionInv, Quiet, "CONNECTED" \in flags, "DISCONNECTING" \notin flags
    PROVE  /\ status[Stream] = "open" /\ status[SubStream] = "open" /\ gen > 0
           /\ "FREEING" \notin flags
  <1>1. events[gen]["error"] = 0
    BY DEF Quiet, Orderly
  <1>2. \A h \in Pair : status[h] = "open"
    BY <1>1 DEF SessionInv, Connected
  <1> QED
    BY <1>2 DEF SessionInv, Connected, Pair

LEMMA OnCommand ==
    ASSUME Orderly, SessionInv, TypeOK', NEW kind \in Kinds, lua_client_command(kind)
    PROVE  SessionInv'
  <1> USE DEF SessionInv
  <1> DEFINE call == ncalls + 1
             item == [kind |-> kind, call |-> call]
             h == TargetOf(kind)
  <1>p. /\ Stream \in Handles /\ SubStream \in Handles /\ Stream # SubStream /\ gen \in Nat
        /\ Stream' = Stream /\ SubStream' = SubStream /\ Pair' = Pair /\ gen' = gen
    BY PairFacts DEF lua_client_command, Stream, SubStream, Pair
  <1>k. kind \in {"plain", "subscribe", "unsubscribe"} /\ call \in Calls /\ item \in Items
        /\ call # StackCb
    <2>1. kind \in {"plain", "subscribe", "unsubscribe"} /\ kind \in AllKinds
      BY ChoicesAssumption DEF Orderly, AllKinds
    <2>2. ncalls \in Nat /\ ncalls < MaxCalls
      BY BoundsAssumption DEF lua_client_command, TypeOK
    <2>3. call \in Calls /\ call # StackCb
      BY <2>2, BoundsAssumption DEF Calls, StackCb
    <2> QED
      BY <2>1, <2>3 DEF Items
  <1>c. /\ "CONNECTED" \in flags /\ "DISCONNECTING" \notin flags /\ Quiet
        /\ events[gen]["error"] = 0
    BY DEF lua_client_command, MayCommand, Orderly, Quiet
  <1>o. /\ status[Stream] = "open" /\ status[SubStream] = "open" /\ gen > 0
        /\ "FREEING" \notin flags
    BY <1>c, BothOpen
  <1>h. /\ h \in Pair /\ h \in Handles /\ status[h] = "open"
        /\ h = IF kind = "plain" THEN Stream ELSE SubStream
    BY <1>k, <1>o, <1>p DEF TargetOf, SubKinds, Pair
  <1>e. /\ queued' = [queued EXCEPT ![h] = Append(@, item)]
        /\ command_cb_list' = Register(kind, call)
        /\ channels' = IF kind = "subscribe" THEN channels \cup {call} ELSE channels
        /\ UNCHANGED <<flags, stream_flags, status, connreq, events, reading, written, wire,
                       subscribed, eof, data, listeners, handler, fault>>
    BY <1>k, <1>c, <1>o, <1>h DEF lua_client_command, server
  <1>t. queued[h] \in Seq(Items) /\ command_cb_list \in Seq(Calls \cup {StackCb})
        /\ queued[Stream] \in Seq(Items)
    BY <1>h, <1>p DEF TypeOK
  <1>i. item.kind = kind /\ item.call = call
    OBVIOUS
  <1>s. /\ \A k \in Handles : k # h => queued'[k] = queued[k]
        /\ queued'[h] = Append(queued[h], item)
    BY <1>e, <1>h DEF TypeOK
  <1> HIDE DEF item, call, h
  <1>1. Elsewhere'
    BY <1>p, <1>e, <1>s, <1>h, <1>o, ElsewhereKept
  <1>2. Requested' /\ DataSet' /\ HandlerOK' /\ EventsOK'
    BY <1>p, <1>e, EventsKept DEF Requested, DataSet, HandlerOK
  <1>3. Dialing' /\ Connected'
    BY <1>p, <1>e, <1>o, <1>c DEF Dialing, Connected, Pair
  <1>4. Reliable'
    <2>1. CASE kind = "plain"
      BY <2>1, <1>p, <1>e, <1>s, <1>h DEF Reliable
    <2>2. CASE kind # "plain"
      <3>1. ~PlainOnly
        BY <2>2 DEF PlainOnly
      <3> QED
        BY <3>1, <1>p, <1>e DEF Reliable
    <2> QED
      BY <2>1, <2>2
  <1>a. /\ DOMAIN queued[h] = 1..Len(queued[h]) /\ Len(queued[h]) \in Nat
        /\ Len(Append(queued[h], item)) = Len(queued[h]) + 1
        /\ DOMAIN Append(queued[h], item) = 1..(Len(queued[h]) + 1)
        /\ \A i \in 1..Len(queued[h]) : Append(queued[h], item)[i] = queued[h][i]
        /\ Append(queued[h], item)[Len(queued[h]) + 1] = item
    BY <1>t, <1>k, LenProperties, AppendProperties
  <1>5. SubsKnown'
    <2>0. /\ subscribed'[Stream] = {} /\ subscribed'[SubStream] \subseteq channels'
          /\ Known(wire[SubStream])'
          /\ handler'.sub => Known(handler.chunk)'
      BY <1>p, <1>e, <1>o DEF SubsKnown, Known
    <2>1. CASE kind = "plain"
      <3>1. \A i \in DOMAIN queued'[Stream] : queued'[Stream][i].kind = "plain"
        BY <2>1, <1>a, <1>s, <1>h, <1>i DEF SubsKnown
      <3>2. Known(queued[SubStream])'
        BY <2>1, <1>p, <1>s, <1>h, <1>e, <1>o DEF SubsKnown, Known
      <3> QED
        BY <2>0, <3>1, <3>2, <1>p DEF SubsKnown
    <2>2. CASE kind # "plain"
      <3>1. \A i \in DOMAIN queued'[Stream] : queued'[Stream][i].kind = "plain"
        BY <2>2, <1>s, <1>h, <1>p DEF SubsKnown
      <3>2. Known(queued[SubStream])'
        BY <2>2, <1>p, <1>s, <1>h, <1>e, <1>o, <1>a, <1>i, <1>k DEF SubsKnown, Known
      <3> QED
        BY <2>0, <3>1, <3>2, <1>p DEF SubsKnown
    <2> QED
      BY <2>1, <2>2
  <1>n. /\ NChunk' = NChunk /\ NWire' = NWire /\ NWritten' = NWritten
        /\ NCbs' = NCbs + (IF kind = "plain" THEN 1 ELSE 0)
        /\ NQueued' = NQueued + (IF kind = "plain" THEN 1 ELSE 0)
    <2>1. /\ NChunk' = NChunk /\ NWire' = NWire /\ NWritten' = NWritten
      BY <1>p, <1>e DEF NChunk, StreamChunk, NWire, NWritten
    <2>2. NCbs' = NCbs + (IF kind = "plain" THEN 1 ELSE 0)
      <3>1. Len(Append(command_cb_list, call)) = Len(command_cb_list) + 1
        BY <1>t, <1>k, AppendProperties
      <3> QED
        BY <3>1, <1>k, <1>e, Lengths DEF NCbs, Register, SubKinds
    <2>3. NQueued' = NQueued + (IF kind = "plain" THEN 1 ELSE 0)
      <3>1. CASE kind = "plain"
        BY <3>1, <1>a, <1>s, <1>h, <1>p DEF NQueued
      <3>2. CASE kind # "plain"
        <4>1. NQueued' = NQueued
          BY <3>2, <1>s, <1>h, <1>p DEF NQueued
        <4> QED
          BY <4>1, <3>2, Lengths
      <3> QED
        BY <3>1, <3>2
    <2> QED
      BY <2>1, <2>2, <2>3
  <1>6. Enough'
    <2>1. \A i \in DOMAIN command_cb_list' : command_cb_list'[i] # StackCb
      <3>1. /\ DOMAIN command_cb_list = 1..Len(command_cb_list)
            /\ DOMAIN Append(command_cb_list, call) = 1..(Len(command_cb_list) + 1)
            /\ \A i \in 1..Len(command_cb_list) :
                 Append(command_cb_list, call)[i] = command_cb_list[i]
            /\ Append(command_cb_list, call)[Len(command_cb_list) + 1] = call
            /\ Len(command_cb_list) \in Nat
        BY <1>t, <1>k, LenProperties, AppendProperties
      <3>2. \A i \in DOMAIN Append(command_cb_list, call) :
              Append(command_cb_list, call)[i] # StackCb
        BY <3>1, <1>k DEF Enough
      <3> QED
        BY <3>2, <1>e DEF Register, Enough
    <2>2. Replying' => Replying
      BY <1>p, <1>e DEF Replying
    <2> QED
      BY <2>1, <2>2, <1>n, Lengths DEF Enough
  <1>7. ReadOK'
    BY <1>n, <1>p, <1>e, Lengths DEF ReadOK
  <1> QED
    BY <1>e, <1>1, <1>2, <1>3, <1>4, <1>5, <1>6, <1>7

LEMMA OnDisconnectCall ==
    ASSUME Orderly, SessionInv, TypeOK', lua_client_disconnect
    PROVE  SessionInv'
  <1> USE DEF SessionInv
  <1>p. /\ Stream \in Handles /\ SubStream \in Handles /\ Stream # SubStream /\ gen \in Nat
        /\ Stream' = Stream /\ SubStream' = SubStream /\ Pair' = Pair /\ gen' = gen
    BY PairFacts DEF lua_client_disconnect, Stream, SubStream, Pair
  <1>c. "CONNECTED" \in flags /\ "DISCONNECTING" \notin flags /\ Quiet
    BY DEF lua_client_disconnect, MayDisconnect, Disconnects, Orderly
  <1>o. /\ status[Stream] = "open" /\ status[SubStream] = "open" /\ gen > 0
        /\ "FREEING" \notin flags /\ events[gen]["error"] = 0
    BY <1>c, BothOpen DEF Quiet, Orderly
  <1>f. CloseFault(Stream) = "none" /\ CloseFault(SubStream) = "none"
    BY <1>o DEF CloseFault
  <1>e. /\ status' = [h \in Handles |-> IF h \in Pair THEN "closing" ELSE status[h]]
        /\ data' = data \cup Pair /\ reading' = reading \ Pair
        /\ flags' = flags \cup {"DISCONNECTING"} /\ fault' = "none"
        /\ UNCHANGED <<stream_flags, command_cb_list, channels, connreq, events, queued,
                       written, wire, subscribed, eof, handler>>
    BY <1>f DEF lua_client_disconnect, server, Pair, Fail
  <1>s. /\ status'[Stream] = "closing" /\ status'[SubStream] = "closing"
        /\ \A h \in Pair : status'[h] = "closing" /\ status[h] = "open"
        /\ \A h \in Handles : h \notin Pair => status'[h] = status[h]
    BY <1>e, <1>o, <1>p DEF Pair
  <1>a. handler.at # "error"
    BY <1>o DEF HandlerOK
  <1>1. Elsewhere'
    BY <1>p, <1>e, <1>s, <1>o, ElsewhereKept
  <1>2. Requested' /\ DataSet'
    BY <1>p, <1>e, <1>s DEF Requested, DataSet
  <1>3. HandlerOK'
    BY <1>p, <1>e, <1>s, <1>a DEF HandlerOK
  <1>4. Dialing' /\ Connected'
    BY <1>p, <1>e, <1>s, <1>o, <1>c DEF Dialing, Connected, Pair
  <1>5. Reliable'
    BY <1>p, <1>e, <1>s DEF Reliable
  <1>6. EventsOK' /\ SubsKnown' /\ Enough'
    <2>1. Replying' => Replying
      BY <1>p, <1>e, <1>o DEF Replying
    <2> QED
      BY <2>1, <1>p, <1>e, <1>s, EventsKept, SubsKept, EnoughKept
  <1>7. ReadOK'
    BY <1>p, <1>e, <1>s DEF ReadOK
  <1> QED
    BY <1>e, <1>1, <1>2, <1>3, <1>4, <1>5, <1>6, <1>7

-----------------------------------------------------------------------------
LEMMA InitSession ==
    ASSUME Orderly, Init
    PROVE  SessionInv
  <1>1. TypeOK
    BY InitTypeOK
  <1>e. /\ gen = 0 /\ flags = {} /\ stream_flags = {} /\ command_cb_list = <<>>
        /\ channels = {} /\ reading = {} /\ connreq = {} /\ eof = {} /\ handler = Idle
        /\ fault = "none"
        /\ \A h \in Handles : /\ status[h] = "none" /\ queued[h] = <<>> /\ written[h] = <<>>
                              /\ wire[h] = <<>> /\ subscribed[h] = {}
        /\ \A g \in Gens, e \in EventNames : events[g][e] = 0
    BY DEF Init
  <1>p. Stream \in Handles /\ SubStream \in Handles /\ gen \in Gens
        /\ \A h \in Pair : h \in Handles
    BY <1>1, PairFacts DEF TypeOK, Pair
  <1>2. Elsewhere
    BY <1>e DEF Elsewhere
  <1>3. Requested /\ DataSet /\ HandlerOK
    BY <1>e, <1>p DEF Requested, DataSet, HandlerOK, Idle
  <1>4. Dialing /\ Connected
    BY <1>e, <1>p DEF Dialing, Connected
  <1>5. SubsKnown
    BY <1>e, <1>p DEF SubsKnown, Known, Idle
  <1>6. Enough /\ ReadOK
    <2>1. status[Stream] # "open" /\ handler.at = "idle"
      BY <1>e, <1>p DEF Idle
    <2> QED
      BY <2>1, <1>e DEF Enough, ReadOK, Replying
  <1>7. Reliable
    <2>1. events[gen]["error"] = 0
      BY <1>e, <1>p DEF EventNames
    <2> QED
      BY <2>1, <1>e, <1>p DEF Reliable, Orderly
  <1>8. EventsOK
    <2>1. \A g \in Gens : events[g]["connect"] = 0 /\ events[g]["disconnect"] = 0
      BY <1>e DEF EventNames
    <2> QED
      BY <2>1, <1>e, <1>p DEF EventsOK
  <1> QED
    BY <1>1, <1>e, <1>2, <1>3, <1>4, <1>5, <1>6, <1>7, <1>8 DEF SessionInv

LEMMA NextSession ==
    ASSUME Orderly, SessionInv, [Next]_vars
    PROVE  SessionInv'
  <1>t. TypeOK'
    BY NextTypeOK DEF SessionInv
  <1>1. CASE Application
    <2>1. ~lua_client_exit
      BY DEF lua_client_exit, Orderly
    <2> QED
      BY <1>t, <1>1, <2>1, OnListener, OnConnectCall, OnCommand, OnDisconnectCall
         DEF Application, SessionCalls
  <1>2. CASE Loop
    <2>1. ASSUME NEW h \in Handles PROVE ~LoopFinishesExit(h)
      BY ActiveHandle DEF LoopFinishesExit, SessionInv, Dialing, Connected, Pair
    <2>2. CASE \E h \in Handles : on_connect(h) \/ on_connect_error(h)
      BY <1>t, <2>2, OnConnect, OnConnectError
    <2>3. CASE \E h \in Handles : on_write(h) \/ on_write_error(h)
      BY <1>t, <2>3, OnWrite, OnWriteError
    <2>4. CASE \E h \in Handles : \E n \in 1..Len(wire[h]) : on_read(h, n)
      BY <1>t, <2>4, OnRead
    <2>5. CASE \E h \in Handles : on_read_empty(h) \/ on_read_error(h) \/ on_disconnect(h)
      BY <1>t, <2>5, OnReadEmpty, OnReadError, OnDisconnect
    <2>6. CASE on_read_reply \/ on_read_done \/ on_read_error_close
      BY <1>t, <2>6, OnReadReply, OnReadDone, OnReadErrorClose
    <2> QED
      BY <1>2, <2>1, <2>2, <2>3, <2>4, <2>5, <2>6 DEF Loop, SessionLoop
  <1>3. CASE Environment
    BY <1>t, <1>3, OnFlush, OnPush, OnServerCloses DEF Environment
  <1>4. CASE UNCHANGED vars
    <2>e. UNCHANGED <<gen, flags, stream_flags, channels, status, connreq, events, reading,
                      queued, written, wire, subscribed, eof, data, command_cb_list,
                      handler, fault>>
      BY <1>4 DEF vars, context, handles, server, history
    <2>p. Stream' = Stream /\ SubStream' = SubStream /\ Pair' = Pair
      BY <2>e, SamePair
    <2>1. Elsewhere' /\ Requested' /\ DataSet' /\ HandlerOK' /\ Reliable'
      BY <2>p, <2>e DEF SessionInv, Elsewhere, Requested, DataSet, HandlerOK, Reliable
    <2>2. Connected' /\ Dialing'
      BY <2>p, <2>e DEF SessionInv, Connected, Dialing
    <2>3. Enough' /\ ReadOK' /\ SubsKnown' /\ EventsOK'
      <3>1. Replying' => Replying
        BY <2>p, <2>e DEF Replying
      <3> QED
        BY <3>1, <2>e, EnoughKept, ReadKept, SubsKept, EventsKept DEF SessionInv
    <2> QED
      BY <1>t, <2>e, <2>1, <2>2, <2>3 DEF SessionInv
  <1> QED
    BY <1>1, <1>2, <1>3, <1>4 DEF Next

LEMMA Session == ASSUME Orderly PROVE Spec => []SessionInv
  <1>1. Init => SessionInv
    BY InitSession
  <1>2. SessionInv /\ [Next]_vars => SessionInv'
    BY NextSession
  <1> QED
    BY <1>1, <1>2, PTL DEF Spec

\* In an orderly session no handler of crazysnail.c uses freed or unset
\* memory, closes a handle twice or fails the assertion on a channel's name.
THEOREM SessionIsSafe == ASSUME Orderly PROVE Spec => []NoFault
  <1>1. SessionInv => NoFault
    BY DEF SessionInv, NoFault
  <1> QED
    BY <1>1, Session, PTL

\* connect() in an orderly session overwrites cc->stream and cc->sub_stream
\* only once on_disconnect has freed the handles they pointed to.
THEOREM SessionLeaksNoHandle == ASSUME Orderly PROVE Spec => []NoLeak
  <1>1. ASSUME SessionInv PROVE NoLeak
    <2>1. SUFFICES ASSUME NEW h \in Handles, h[1] \in 1..(gen - 1)
                   PROVE  status[h] = "freed"
      BY DEF NoLeak
    <2>2. gen \in Nat /\ h[1] \in 1..gen /\ h[1] # gen
      BY <1>1, <2>1, PairFacts DEF SessionInv
    <2>3. h \notin Pair
      BY <2>2 DEF Pair, Stream, SubStream
    <2> QED
      BY <1>1, <2>2, <2>3 DEF SessionInv, Elsewhere
  <1> QED
    BY <1>1, Session, PTL

\* on_connect and on_disconnect of the two connections report "connect" and
\* "disconnect" at most once for a connect() call.
THEOREM SessionReportsOnce == ASSUME Orderly PROVE Spec => []EventOnce
  <1>1. SessionInv => EventOnce
    BY DEF SessionInv, EventsOK, EventOnce
  <1> QED
    BY <1>1, Session, PTL

\* No lost wake-up: whatever on_read stops, a callback that waits on the open
\* command connection has a read or an on_write to come.
THEOREM SessionKeepsReading == ASSUME Orderly PROVE Spec => []ReadArmed
  <1>1. ASSUME SessionInv PROVE ReadArmed
    <2>1. SUFFICES ASSUME status[Stream] = "open", command_cb_list # <<>>,
                          Stream \notin reading, handler.h # Stream,
                          queued[Stream] = <<>>, written[Stream] = <<>>
                   PROVE  FALSE
      BY DEF ReadArmed
    <2>2. NQueued = 0 /\ NWritten = 0
      BY <2>1 DEF NQueued, NWritten
    <2>3. NCbs <= 0
      BY <1>1, <2>1, <2>2 DEF SessionInv, ReadOK
    <2>4. NCbs > 0
      <3>1. command_cb_list \in Seq(Calls \cup {StackCb})
        BY <1>1 DEF SessionInv, TypeOK
      <3> QED
        BY <3>1, <2>1, TailFacts DEF NCbs
    <2> QED
      BY <2>3, <2>4, <1>1, Lengths DEF SessionInv
  <1> QED
    BY <1>1, Session, PTL

\* connect(), which does not reset them, finds stream_flags, the trees and the
\* command list empty.
THEOREM SessionStartsClean == ASSUME Orderly PROVE Spec => CleanSlate
  <1>1. ASSUME SessionInv, Next, gen' # gen PROVE lua_client_connect
    <2>1. CASE Application
      BY <2>1, <1>1 DEF Application, SessionCalls, lua_client_on, lua_client_command,
                        lua_client_disconnect, lua_client_exit
    <2>2. ~Loop
      BY <1>1, ZenonT(30) DEF Loop, SessionLoop, on_connect, on_connect_error, on_write, on_write_error,
                  on_read, on_read_empty, on_read_error, on_disconnect, on_read_reply,
                  on_read_done, on_read_error_close, LoopFinishesExit, context
    <2>3. ~Environment
      BY <1>1 DEF Environment, Flush, Push, ServerCloses, context
    <2> QED
      BY <1>1, <2>1, <2>2, <2>3 DEF Next
  <1>2. ASSUME SessionInv, [Next]_vars
        PROVE  [gen' # gen =>
                  stream_flags = {} /\ channels = {} /\ command_cb_list = <<>>]_vars
    BY <1>1, <1>2, Fresh
  <1> QED
    BY <1>2, Session, PTL DEF Spec, CleanSlate

\* With a server that stays up both connections are open from the "connect"
\* event to disconnect(): nothing else closes a handle.
THEOREM ConnectedIsOpen == ASSUME Orderly, ServerUp PROVE Spec => []ConnectedMeansOpen
  <1>1. ASSUME SessionInv, ServerUp PROVE ConnectedMeansOpen
    <2>1. SUFFICES ASSUME "CONNECTED" \in flags, "DISCONNECTING" \notin flags
                   PROVE  events[gen]["error"] = 0
      BY <1>1 DEF SessionInv, Connected, Pair, ConnectedMeansOpen
    <2> QED
      BY <1>1 DEF SessionInv, Reliable
  <1> QED
    BY <1>1, Session, PTL

-----------------------------------------------------------------------------
(* With a server that stays up every reply meets the callback of its own   *)
(* command.  Due(i) is the call the i-th reply to come answers: replies in *)
(* the loop of on_read come first, then the ones on the wire, then those   *)
(* of the requests that are not written yet.                               *)

Due(i) ==
    IF i <= NChunk THEN StreamChunk[i].call
    ELSE IF i <= NChunk + NWire THEN wire[Stream][i - NChunk].call
    ELSE queued[Stream][i - NChunk - NWire].call

Matched ==
    Replying =>
        /\ NCbs = NChunk + NWire + NQueued
        /\ \A i \in 1..NCbs : command_cb_list[i] = Due(i)

ReplyInv == Matched /\ OwnReply

LEMMA DueIs ==
    ASSUME NEW i \in Int
    PROVE  Due(i) = IF i <= NChunk THEN StreamChunk[i].call
                    ELSE IF i <= NChunk + NWire THEN wire[Stream][i - NChunk].call
                    ELSE queued[Stream][i - NChunk - NWire].call
  BY Zenon DEF Due

LEMMA MatchedKept ==
    ASSUME Matched, Replying' => Replying, Stream' = Stream,
           UNCHANGED <<command_cb_list, StreamChunk, wire[Stream], queued[Stream]>>
    PROVE  Matched'
  BY DEF Matched, Due, NCbs, NChunk, NWire, NQueued

\* A callback is told the outcome of a request.
LEMMA OwnReplyShift ==
    ASSUME TypeOK, OwnReply, NEW list \in Seq(Calls \cup {StackCb}), NEW kind, NEW of,
           NEW ifEmpty, ShiftAndCall(list, kind, of, ifEmpty),
           kind = "reply" /\ list # <<>> => of = list[1]
    PROVE  OwnReply'
  <1>1. CASE list = <<>> \/ Head(list) = StackCb
    BY <1>1 DEF ShiftAndCall, OwnReply
  <1>2. CASE list # <<>> /\ Head(list) # StackCb
    <2> DEFINE c == Head(list)
               new == [kind |-> kind, of |-> of]
    <2>1. c = list[1] /\ c \in Calls
      BY <1>2, HeadTailProperties
    <2>2. outcome' = [outcome EXCEPT ![c] = Append(@, new)]
      BY <1>2 DEF ShiftAndCall
    <2>3. outcome \in [Calls -> Seq(Outcomes)]
      BY DEF TypeOK
    <2>4. new.kind = "reply" => new.of = c
      BY <1>2, <2>1
    <2> HIDE DEF new, c
    <2>5. SUFFICES ASSUME NEW d \in Calls, NEW i \in DOMAIN outcome'[d],
                          outcome'[d][i].kind = "reply"
                   PROVE  outcome'[d][i].of = d
      BY DEF OwnReply
    <2>6. CASE d # c
      BY <2>2, <2>3, <2>5, <2>6 DEF OwnReply
    <2>7. CASE d = c
      <3>1. outcome[c] \in Seq(Outcomes) /\ outcome'[c] = Append(outcome[c], new)
        BY <2>1, <2>2, <2>3
      <3>2. /\ Len(outcome[c]) \in Nat /\ DOMAIN outcome[c] = 1..Len(outcome[c])
            /\ DOMAIN outcome'[c] = 1..(Len(outcome[c]) + 1)
            /\ \A j \in 1..Len(outcome[c]) : outcome'[c][j] = outcome[c][j]
            /\ outcome'[c][Len(outcome[c]) + 1] = new
        BY <3>1
      <3>3. CASE i = Len(outcome[c]) + 1
        BY <3>2, <3>3, <2>4, <2>5, <2>7
      <3>4. CASE i \in 1..Len(outcome[c])
        BY <3>2, <3>4, <2>1, <2>5, <2>7 DEF OwnReply
      <3> QED
        BY <3>2, <3>3, <3>4, <2>5, <2>7
    <2> QED
      BY <2>6, <2>7
  <1> QED
    BY <1>1, <1>2

\* Nobody but disconnect() closes a handle.
LEMMA ClosedByCall ==
    ASSUME ServerUp, SessionInv, NEW h \in Pair, status[h] = "closing"
    PROVE  status[Stream] # "open" /\ status[SubStream] # "open"
  <1>1. events[gen]["error"] = 0
    BY DEF SessionInv, Reliable
  <1>2. "CONNECTED" \in flags
    <2>1. gen > 0
      BY ActiveHandle, PairFacts DEF Pair, SessionInv
    <2> QED
      BY <2>1 DEF SessionInv, Dialing
  <1>3. "DISCONNECTING" \in flags
    BY <1>1, <1>2 DEF SessionInv, Connected
  <1> QED
    BY <1>2, <1>3 DEF SessionInv, Connected, Pair

LEMMA RepliesApplication ==
    ASSUME Orderly, ServerUp, SessionInv, SessionInv', ReplyInv, Application
    PROVE  ReplyInv'
  <1> USE DEF SessionInv
  <1>1. ASSUME NEW e \in Listeners, lua_client_on(e) PROVE ReplyInv'
    <2>1. UNCHANGED <<gen, command_cb_list, handler, wire, queued, outcome, status>>
      BY <1>1 DEF lua_client_on, handles, server, history
    <2>2. Stream' = Stream /\ StreamChunk' = StreamChunk /\ (Replying' => Replying)
      BY <2>1, SamePair DEF Replying, StreamChunk
    <2> QED
      BY <2>1, <2>2, MatchedKept DEF ReplyInv, OwnReply
  <1>2. ASSUME lua_client_connect PROVE ReplyInv'
    <2>1. handler' = Idle /\ UNCHANGED outcome
      BY <1>2, Fresh DEF lua_client_connect, history
    <2>2. status'[Stream'] # "open"
      <3>1. status'[Stream'] = "connecting"
        <4>1. Stream' \in Handles /\ Stream' = <<gen + 1, "stream">>
          BY <1>2, PairFacts DEF lua_client_connect, Stream, Handles, TypeOK
        <4> QED
          BY <1>2, <4>1 DEF lua_client_connect
      <3> QED
        BY <3>1
    <2> QED
      BY <2>1, <2>2 DEF ReplyInv, OwnReply, Matched, Replying, Idle
  <1>3. ASSUME NEW kind \in Kinds, lua_client_command(kind) PROVE ReplyInv'
    <2> DEFINE call == ncalls + 1
               item == [kind |-> kind, call |-> call]
    <2>p. Stream \in Handles /\ SubStream \in Handles /\ Stream # SubStream
          /\ Stream' = Stream /\ gen' = gen
      BY <1>3, PairFacts DEF lua_client_command, Stream
    <2>k. kind \in {"plain", "subscribe", "unsubscribe"}
      BY ChoicesAssumption DEF Orderly, AllKinds
    <2>i. item.call = call
      OBVIOUS
    <2>c. "CONNECTED" \in flags /\ "DISCONNECTING" \notin flags /\ Quiet
      BY <1>3 DEF lua_client_command, MayCommand, Orderly
    <2>o. status[Stream] = "open" /\ status[SubStream] = "open" /\ "FREEING" \notin flags
      BY <2>c, BothOpen
    <2>e. /\ UNCHANGED <<wire, handler, outcome, status>>
          /\ kind # "plain" => command_cb_list' = command_cb_list
                               /\ queued' = [queued EXCEPT ![SubStream] = Append(@, item)]
          /\ kind = "plain" => command_cb_list' = Append(command_cb_list, call)
                               /\ queued' = [queued EXCEPT ![Stream] = Append(@, item)]
      BY <1>3, <2>k, <2>c, <2>o DEF lua_client_command, server, TargetOf, SubKinds, Register
    <2>r. Replying /\ StreamChunk' = StreamChunk /\ OwnReply'
      BY <2>o, <2>p, <2>e DEF Replying, StreamChunk, OwnReply, ReplyInv
    <2>1. CASE kind # "plain"
      <3>1. queued'[Stream] = queued[Stream]
        BY <2>1, <2>e, <2>p DEF TypeOK
      <3> QED
        BY <3>1, <2>1, <2>p, <2>e, <2>r, MatchedKept DEF ReplyInv
    <2>2. CASE kind = "plain"
      <3>t. /\ command_cb_list \in Seq(Calls \cup {StackCb}) /\ queued[Stream] \in Seq(Items)
            /\ command_cb_list' \in Seq(Calls \cup {StackCb}) /\ queued'[Stream] \in Seq(Items)
        BY <2>p DEF TypeOK
      <3>q. queued'[Stream] = Append(queued[Stream], item)
        BY <2>2, <2>e, <2>p DEF TypeOK
      <3> HIDE DEF item, call
      <3>1. /\ NCbs' = NCbs + 1 /\ command_cb_list'[NCbs + 1] = call
            /\ \A i \in 1..NCbs : command_cb_list'[i] = command_cb_list[i]
        BY <2>2, <2>e, <3>t, SMTT(30) DEF NCbs
      <3>2. /\ NQueued' = NQueued + 1 /\ queued'[Stream][NQueued + 1] = item
            /\ \A i \in 1..NQueued : queued'[Stream][i] = queued[Stream][i]
        BY <3>q, <3>t, <2>p DEF NQueued
      <3>3. NChunk' = NChunk /\ NWire' = NWire
        BY <2>p, <2>e, <2>r DEF NChunk, NWire
      <3>4. NCbs = NChunk + NWire + NQueued /\ \A i \in 1..NCbs : command_cb_list[i] = Due(i)
        BY <2>r DEF ReplyInv, Matched
      <3>5. ASSUME NEW i \in 1..(NCbs + 1) PROVE command_cb_list'[i] = Due(i)'
        <4>1. Due(i)' = IF i <= NChunk THEN StreamChunk[i].call
                        ELSE IF i <= NChunk + NWire THEN wire[Stream][i - NChunk].call
                        ELSE queued'[Stream][i - NChunk - NWire].call
          BY <2>p, <2>e, <2>r, <3>3 DEF Due
        <4>2. CASE i = NCbs + 1
          BY <4>1, <4>2, <3>1, <3>2, <3>4, <2>i, Lengths
        <4>3. CASE i \in 1..NCbs
          <5>1. ~(i <= NChunk) /\ ~(i <= NChunk + NWire) => i - NChunk - NWire \in 1..NQueued
            BY <4>3, <3>4, Lengths
          <5>2. Due(i)' = Due(i)
            BY <5>1, <4>1, <3>2 DEF Due
          <5> QED
            BY <5>2, <4>3, <3>1, <3>4
        <4> QED
          BY <4>2, <4>3, Lengths
      <3>6. Matched'
        BY <3>1, <3>2, <3>3, <3>4, <3>5, Lengths DEF Matched
      <3> QED
        BY <3>6, <2>r DEF ReplyInv
    <2> QED
      BY <2>1, <2>2
  <1>4. ASSUME lua_client_disconnect PROVE ReplyInv'
    <2>c. "CONNECTED" \in flags /\ "DISCONNECTING" \notin flags /\ Quiet
      BY <1>4 DEF lua_client_disconnect, MayDisconnect, Disconnects, Orderly
    <2>1. UNCHANGED <<gen, command_cb_list, handler, wire, queued, outcome>>
      BY <1>4 DEF lua_client_disconnect, server
    <2>2. Stream' = Stream /\ StreamChunk' = StreamChunk /\ (Replying' => Replying)
      BY <2>1, <2>c, BothOpen, SamePair DEF Replying, StreamChunk
    <2> QED
      BY <2>1, <2>2, MatchedKept DEF ReplyInv, OwnReply
  <1>5. ~lua_client_exit
    BY DEF lua_client_exit, Orderly
  <1> QED
    BY <1>1, <1>2, <1>3, <1>4, <1>5 DEF Application, SessionCalls

LEMMA RepliesLoop ==
    ASSUME Orderly, ServerUp, SessionInv, SessionInv', ReplyInv, Loop
    PROVE  ReplyInv'
  <1> USE DEF SessionInv
  <1>f. eof = {} /\ events[gen]["error"] = 0 /\ \A h \in Pair : status[h] # "failed"
    BY DEF Reliable
  <1>t. command_cb_list \in Seq(Calls \cup {StackCb})
    BY DEF TypeOK
  <1>1. ASSUME NEW h \in Handles, on_connect(h) PROVE ReplyInv'
    <2>1. gen > 0 /\ h \in Pair /\ status[h] = "connecting" /\ handler.at = "idle"
      BY <1>1, ActiveHandle DEF on_connect, Pair, LoopTurn
    <2>2. "CONNECTED" \notin flags
      BY <2>1 DEF Connected
    <2>3. UNCHANGED <<gen, command_cb_list, handler, wire, queued, outcome>>
      BY <1>1 DEF on_connect, server
    <2>4. /\ command_cb_list' = <<>> /\ wire'[Stream'] = <<>> /\ queued'[Stream'] = <<>>
          /\ StreamChunk' = <<>>
      BY <2>2, <2>3, SamePair DEF Dialing, Pair, StreamChunk, Idle
    <2>5. NCbs' = 0 /\ NChunk' = 0 /\ NWire' = 0 /\ NQueued' = 0
      BY <2>4 DEF NCbs, NChunk, NWire, NQueued
    <2> QED
      BY <2>3, <2>5 DEF ReplyInv, OwnReply, Matched
  <1>2. ASSUME NEW h \in Handles PROVE ~on_connect_error(h)
    BY DEF on_connect_error, ServerUp, Requested
  <1>3. ASSUME NEW h \in Handles, on_write(h) PROVE ReplyInv'
    <2>1. h \in Pair /\ handler.at = "idle" /\ status[h] \in {"open", "closing"}
          /\ UNCHANGED <<gen, handler, wire, queued, status>>
      BY <1>3, ActiveHandle DEF on_write, Pair, LoopTurn, server
    <2>2. Stream' = Stream /\ StreamChunk' = StreamChunk /\ (Replying' => Replying)
      BY <2>1, SamePair DEF Replying, StreamChunk
    <2>3. CASE status[h] = "open"
      <3>1. UNCHANGED <<command_cb_list, outcome>>
        BY <1>3, <2>3 DEF on_write
      <3> QED
        BY <3>1, <2>1, <2>2, MatchedKept DEF ReplyInv, OwnReply
    <2>4. CASE status[h] = "closing"
      <3>1. ~Replying'
        BY <2>1, <2>2, <2>4, ClosedByCall DEF Replying
      <3>2. ShiftAndCall(command_cb_list, "error", Head(written[h]).call, "none")
        BY <1>3, <2>4 DEF on_write
      <3>3. OwnReply'
        BY <3>2, <1>t, OwnReplyShift DEF ReplyInv
      <3> QED
        BY <3>1, <3>3 DEF ReplyInv, Matched
    <2> QED
      BY <2>1, <2>3, <2>4
  <1>4. ASSUME NEW h \in Handles, on_write_error(h) PROVE ReplyInv'
    <2>1. h \in Pair /\ handler.at = "idle" /\ status[h] = "closing"
          /\ UNCHANGED <<gen, handler, status>>
      <3>1. h \in Pair
        BY <1>4, ActiveHandle DEF on_write_error, Pair
      <3> QED
        BY <1>4, <1>f, <3>1 DEF on_write_error, LoopTurn
    <2>2. ~Replying'
      BY <2>1, SamePair, ClosedByCall DEF Replying
    <2>3. ShiftAndCall(command_cb_list, "error", Head(queued[h]).call, "none")
      BY <1>4 DEF on_write_error
    <2>4. OwnReply'
      BY <2>3, <1>t, OwnReplyShift DEF ReplyInv
    <2> QED
      BY <2>2, <2>4 DEF ReplyInv, Matched
  <1>5. ASSUME NEW h \in Handles, NEW n \in 1..Len(wire[h]), on_read(h, n) PROVE ReplyInv'
    <2>p. /\ gen > 0 /\ h \in {Stream, SubStream} /\ h \in Pair
          /\ Stream \in Handles /\ SubStream \in Handles /\ Stream # SubStream
          /\ Stream' = Stream /\ SubStream' = SubStream /\ gen' = gen
      BY <1>5, ActiveHandle, PairFacts DEF on_read, Stream, SubStream, Pair, context
    <2>1. handler.at = "idle" /\ status[h] = "open" /\ handler = Idle /\ handler.h # Stream
          /\ "DISCONNECTING" \notin flags
      <3>1. handler.at = "idle" /\ status[h] = "open" /\ handler = Idle
        BY <1>5 DEF on_read, LoopTurn, HandlerOK
      <3>2. handler.h # Stream
        BY <3>1, <2>p DEF Idle, NoHandle, Stream
      <3>3. "DISCONNECTING" \notin flags
        BY <3>1, <2>p DEF Dialing, Connected
      <3> QED
        BY <3>1, <3>2, <3>3
    <2>e. /\ wire' = [wire EXCEPT ![h] = SubSeq(@, n + 1, Len(@))]
          /\ handler' = [at |-> "loop", h |-> h, sub |-> h = SubStream,
                         chunk |-> SubSeq(wire[h], 1, n)]
          /\ UNCHANGED <<command_cb_list, queued, outcome, status>>
      BY <1>5, <2>1 DEF on_read, context, handles, history
    <2>w. /\ wire'[h] = SubSeq(wire[h], n + 1, Len(wire[h]))
          /\ h # Stream => wire'[Stream] = wire[Stream]
          /\ wire[h] \in Seq(Items)
      BY <2>p, <2>e DEF TypeOK
    <2>o. OwnReply' /\ StreamChunk = <<>>
      BY <2>1, <2>e DEF ReplyInv, OwnReply, StreamChunk
    <2>2. CASE h # Stream
      <3>1. StreamChunk' = StreamChunk
        BY <2>2, <2>o, <2>p, <2>e DEF StreamChunk
      <3>2. Replying' => Replying
        BY <2>2, <2>p, <2>e DEF Replying
      <3> QED
        BY <3>1, <3>2, <2>2, <2>o, <2>p, <2>e, <2>w, MatchedKept DEF ReplyInv
    <2>3. CASE h = Stream
      <3> DEFINE s == wire[Stream]
      <3>1. /\ s \in Seq(Items) /\ Len(s) \in Nat /\ n \in 1..Len(s) /\ n \in Nat
            /\ StreamChunk' = SubSeq(s, 1, n) /\ wire'[Stream] = SubSeq(s, n + 1, Len(s))
        BY <2>3, <2>p, <2>e, <2>w, LenProperties DEF StreamChunk
      <3>2. NChunk' = n /\ NWire' = NWire - n /\ NChunk = 0 /\ NWire = Len(s) /\ n <= NWire
        BY <3>1, <2>p, <2>o, CutLengths DEF NChunk, NWire
      <3>3. /\ \A i \in 1..n : StreamChunk'[i] = s[i]
            /\ \A i \in 1..(Len(s) - n) : wire'[Stream][i] = s[i + n]
        BY <3>1
      <3>4. NCbs' = NCbs /\ NQueued' = NQueued
        BY <2>p, <2>e DEF NCbs, NQueued
      <3>5. NCbs = NWire + NQueued /\ \A i \in 1..NCbs : command_cb_list[i] = Due(i)
        BY <2>1, <2>3, <3>2, Lengths DEF ReplyInv, Matched, Replying
      <3> HIDE DEF s
      <3>6. ASSUME NEW i \in 1..NCbs PROVE Due(i)' = Due(i)
        <4>0. i \in Nat /\ i > 0 /\ NWire \in Nat /\ NQueued \in Nat /\ n \in Nat
          BY <3>1, Lengths
        <4>1. Due(i)' = IF i <= n THEN StreamChunk'[i].call
                        ELSE IF i <= n + (NWire - n) THEN wire'[Stream][i - n].call
                        ELSE queued[Stream][i - n - (NWire - n)].call
          BY <2>p, <2>e, <3>2 DEF Due
        <4>2. Due(i) = IF i <= NWire THEN s[i].call ELSE queued[Stream][i - NWire].call
          <5>1. ~(i <= 0) /\ 0 + NWire = NWire /\ i - 0 = i
            BY <4>0
          <5> QED
            BY <5>1, <3>2 DEF Due, s
        <4>3. CASE i <= n
          BY <4>0, <4>1, <4>2, <4>3, <3>2, <3>3
        <4>4. CASE ~(i <= n) /\ i <= NWire
          <5>1. i - n \in 1..(NWire - n) /\ i - n + n = i /\ i <= n + (NWire - n)
            BY <4>0, <4>4
          <5>2. wire'[Stream][i - n] = s[i]
            BY <5>1, <3>2, <3>3
          <5> QED
            BY <5>1, <5>2, <4>1, <4>2, <4>4
        <4>5. CASE ~(i <= n) /\ ~(i <= NWire)
          <5>1. ~(i <= n + (NWire - n)) /\ i - n - (NWire - n) = i - NWire
            BY <4>0, <4>5
          <5> QED
            BY <5>1, <4>1, <4>2, <4>5
        <4> QED
          BY <4>3, <4>4, <4>5
      <3>7. Matched'
        BY <3>2, <3>4, <3>5, <3>6, <2>e, Lengths DEF Matched
      <3> QED
        BY <3>7, <2>o DEF ReplyInv
    <2> QED
      BY <2>2, <2>3
  <1>6. ASSUME on_read_reply PROVE ReplyInv'
    <2>p. /\ Stream \in Handles /\ SubStream \in Handles /\ Stream # SubStream
          /\ Stream' = Stream /\ SubStream' = SubStream /\ gen' = gen
      BY <1>6, PairFacts DEF on_read_reply, Stream, SubStream
    <2>1. /\ handler.chunk # <<>> /\ handler.at # "idle"
          /\ handler'.h = handler.h /\ handler'.sub = handler.sub /\ handler'.at # "idle"
          /\ handler'.chunk = Tail(handler.chunk)
          /\ handler.sub <=> handler.h = SubStream
          /\ handler.h \in Pair
          /\ UNCHANGED <<wire, queued, status>>
      BY <1>6 DEF on_read_reply, handles, server, TypeOK, HandlerOK
    <2>2. CASE handler.sub
      <3>1. UNCHANGED <<command_cb_list, outcome>>
        BY <1>6, <2>2 DEF on_read_reply
      <3>2. StreamChunk' = StreamChunk /\ (Replying' => Replying)
        BY <2>1, <2>2, <2>p DEF StreamChunk, Replying
      <3> QED
        BY <3>1, <3>2, <2>1, <2>p, MatchedKept DEF ReplyInv, OwnReply
    <2>3. CASE ~handler.sub
      <3> DEFINE s == handler.chunk
      <3>1. handler.h = Stream /\ Replying /\ StreamChunk = s /\ StreamChunk' = Tail(s)
        BY <2>1, <2>3, <2>p DEF Pair, Replying, StreamChunk
      <3>2. /\ s \in Seq(Items) /\ s # <<>> /\ Len(s) \in Nat /\ Len(s) > 0
            /\ Len(Tail(s)) = Len(s) - 1
            /\ \A i \in 1..(Len(s) - 1) : Tail(s)[i] = s[i + 1]
            /\ Head(s) = s[1]
        <4>1. s \in Seq(Items) /\ s # <<>>
          BY <2>1 DEF TypeOK
        <4> QED
          BY <4>1, TailFacts, HeadTailProperties
      <3>3. NCbs = NChunk + NWire + NQueued /\ \A i \in 1..NCbs : command_cb_list[i] = Due(i)
        BY <3>1 DEF ReplyInv, Matched
      <3>4. /\ NChunk = Len(s) /\ NChunk' = NChunk - 1 /\ NWire' = NWire /\ NQueued' = NQueued
            /\ NChunk > 0
        BY <3>1, <3>2, <2>1, <2>p DEF NChunk, NWire, NQueued
      <3>5. command_cb_list[1] = Head(s).call /\ command_cb_list # <<>>
        <4>1. 1 \in 1..NCbs /\ 1 <= NChunk
          BY <3>3, <3>4, Lengths
        <4>2. Due(1) = s[1].call
          BY <4>1, <3>1 DEF Due
        <4>3. NCbs > 0
          BY <4>1, Lengths
        <4> QED
          BY <4>1, <4>2, <4>3, <3>2, <3>3 DEF NCbs
      <3>6. ShiftAndCall(command_cb_list, "reply", Head(s).call, "stale_callback")
        BY <1>6, <2>3 DEF on_read_reply
      <3>7. OwnReply'
        BY <3>5, <3>6, <1>t, OwnReplyShift DEF ReplyInv
      <3>8. command_cb_list' = Tail(command_cb_list)
        BY <3>5, <3>6, <1>t DEF ShiftAndCall
      <3>9. /\ NCbs' = NCbs - 1
            /\ \A i \in 1..(NCbs - 1) : command_cb_list'[i] = command_cb_list[i + 1]
        BY <3>5, <3>8, <1>t, HeadTailProperties DEF NCbs
      <3> HIDE DEF s
      <3>10. ASSUME NEW i \in 1..(NCbs - 1) PROVE command_cb_list'[i] = Due(i)'
        <4>0. /\ i \in Nat /\ i > 0 /\ NWire \in Nat /\ NQueued \in Nat /\ NChunk \in Nat
              /\ i + 1 \in 1..NCbs
          BY <3>3, Lengths
        <4>1. Due(i)' = IF i <= NChunk - 1 THEN Tail(s)[i].call
                        ELSE IF i <= NChunk - 1 + NWire THEN wire[Stream][i - (NChunk - 1)].call
                        ELSE queued[Stream][i - (NChunk - 1) - NWire].call
          BY <2>1, <2>p, <3>1, <3>4 DEF Due
        <4>2. Due(i + 1) = IF i + 1 <= NChunk THEN s[i + 1].call
                        ELSE IF i + 1 <= NChunk + NWire THEN wire[Stream][i + 1 - NChunk].call
                        ELSE queued[Stream][i + 1 - NChunk - NWire].call
          <5>1. Due(i + 1) = IF i + 1 <= NChunk THEN StreamChunk[i + 1].call
                        ELSE IF i + 1 <= NChunk + NWire THEN wire[Stream][i + 1 - NChunk].call
                        ELSE queued[Stream][i + 1 - NChunk - NWire].call
            BY <4>0, DueIs
          <5>2. StreamChunk = s
            BY <3>1
          <5> QED
            BY <5>1, <5>2
        <4>3. /\ (i <= NChunk - 1) <=> (i + 1 <= NChunk)
              /\ (i <= NChunk - 1 + NWire) <=> (i + 1 <= NChunk + NWire)
              /\ i - (NChunk - 1) = i + 1 - NChunk
              /\ i - (NChunk - 1) - NWire = i + 1 - NChunk - NWire
              /\ i <= NChunk - 1 => i \in 1..(NChunk - 1)
          BY <4>0
        <4>4. Due(i)' = Due(i + 1)
          <5>1. i <= NChunk - 1 => Tail(s)[i] = s[i + 1]
            BY <4>3, <3>2, <3>4
          <5>2. CASE i <= NChunk - 1
            BY <5>1, <5>2, <4>1, <4>2, <4>3
          <5>3. CASE ~(i <= NChunk - 1) /\ i <= NChunk - 1 + NWire
            BY <5>3, <4>1, <4>2, <4>3
          <5>4. CASE ~(i <= NChunk - 1) /\ ~(i <= NChunk - 1 + NWire)
            BY <5>4, <4>1, <4>2, <4>3
          <5> QED
            BY <5>2, <5>3, <5>4
        <4> QED
          BY <4>4, <4>0, <3>3, <3>9
      <3>11. Matched'
        BY <3>3, <3>4, <3>9, <3>10, Lengths, SMTT(30) DEF Matched
      <3> QED
        BY <3>7, <3>11 DEF ReplyInv
    <2> QED
      BY <2>2, <2>3
  <1>7. ASSUME on_read_done PROVE ReplyInv'
    <2>1. /\ "MONITORING" \notin flags
          /\ UNCHANGED <<gen, command_cb_list, wire, queued, outcome, status>>
          /\ handler' = Idle /\ handler.chunk = <<>>
      BY <1>7 DEF on_read_done, HandlerOK, Connected, server, history
    <2>2. Stream' = Stream /\ StreamChunk' = StreamChunk /\ (Replying' => Replying)
      BY <2>1, SamePair DEF Replying, StreamChunk, Idle
    <2> QED
      BY <2>1, <2>2, MatchedKept DEF ReplyInv, OwnReply
  <1>8. ASSUME NEW h \in Handles, on_read_empty(h) PROVE ReplyInv'
    <2>1. UNCHANGED <<gen, command_cb_list, handler, wire, queued, outcome, status>>
      BY <1>8 DEF on_read_empty, context, server, history
    <2>2. Stream' = Stream /\ StreamChunk' = StreamChunk /\ (Replying' => Replying)
      BY <2>1, SamePair DEF Replying, StreamChunk
    <2> QED
      BY <2>1, <2>2, MatchedKept DEF ReplyInv, OwnReply
  <1>9. ASSUME NEW h \in Handles PROVE ~on_read_error(h)
    BY <1>f DEF on_read_error
  <1>10. ~on_read_error_close
    BY <1>f DEF on_read_error_close, HandlerOK
  <1>11. ASSUME NEW h \in Handles, on_disconnect(h) PROVE ReplyInv'
    <2>1. h \in Pair /\ h \in Handles /\ handler.at = "idle" /\ status[h] = "closing"
          /\ UNCHANGED <<gen, handler, outcome>> /\ status' = [status EXCEPT ![h] = "freed"]
      BY <1>11, ActiveHandle DEF on_disconnect, Pair, LoopTurn
    <2>2. status'[Stream] # "open"
      BY <2>1, ClosedByCall, PairFacts DEF TypeOK
    <2>3. ~Replying'
      BY <2>1, <2>2, SamePair DEF Replying
    <2> QED
      BY <2>1, <2>3 DEF ReplyInv, Matched, OwnReply
  <1>12. ASSUME NEW h \in Handles PROVE ~LoopFinishesExit(h)
    BY ActiveHandle DEF LoopFinishesExit, Dialing, Connected, Pair
  <1> QED
    BY <1>1, <1>2, <1>3, <1>4, <1>5, <1>6, <1>7, <1>8, <1>9, <1>10, <1>11, <1>12
       DEF Loop, SessionLoop

LEMMA RepliesEnvironment ==
    ASSUME Orderly, ServerUp, SessionInv, SessionInv', ReplyInv, Environment
    PROVE  ReplyInv'
  <1> USE DEF SessionInv
  <1>1. ASSUME NEW h \in Handles, Flush(h) PROVE ReplyInv'
    <2> DEFINE item == Head(queued[h])
    <2>p. /\ h \in {Stream, SubStream} /\ Stream' = Stream /\ gen' = gen
          /\ Stream \in Handles /\ SubStream \in Handles /\ Stream # SubStream
      BY <1>1, ActiveHandle, PairFacts DEF Flush, Stream, context
    <2>e. /\ queued[h] # <<>> /\ status[h] = "open"
          /\ queued' = [queued EXCEPT ![h] = Tail(@)]
          /\ wire' = [wire EXCEPT ![h] = Append(@, item)]
          /\ UNCHANGED <<command_cb_list, handler, outcome, status>>
      BY <1>1 DEF Flush, context, history
    <2>o. OwnReply' /\ StreamChunk' = StreamChunk /\ (Replying' => Replying)
      BY <2>p, <2>e DEF OwnReply, ReplyInv, StreamChunk, Replying
    <2>1. CASE h # Stream
      <3>1. queued'[Stream] = queued[Stream] /\ wire'[Stream] = wire[Stream]
        BY <2>1, <2>p, <2>e DEF TypeOK
      <3> QED
        BY <3>1, <2>p, <2>e, <2>o, MatchedKept DEF ReplyInv
    <2>2. CASE h = Stream
      <3> DEFINE q == queued[Stream]
                 w == wire[Stream]
      <3>1. /\ q \in Seq(Items) /\ q # <<>> /\ w \in Seq(Items) /\ item = q[1] /\ item \in Items
            /\ queued'[Stream] = Tail(q) /\ wire'[Stream] = Append(w, item)
        <4>1. q \in Seq(Items) /\ q # <<>> /\ w \in Seq(Items)
          BY <2>2, <2>e, <2>p DEF TypeOK
        <4>2. item = q[1] /\ item \in Items
          BY <4>1, <2>2, HeadTailProperties
        <4> QED
          BY <4>1, <4>2, <2>2, <2>e, <2>p DEF TypeOK
      <3>2. /\ Len(Tail(q)) = Len(q) - 1 /\ Len(q) > 0
            /\ \A i \in 1..(Len(q) - 1) : Tail(q)[i] = q[i + 1]
            /\ Len(Append(w, item)) = Len(w) + 1 /\ Append(w, item)[Len(w) + 1] = item
            /\ \A i \in 1..Len(w) : Append(w, item)[i] = w[i]
        BY <3>1, TailFacts, HeadTailProperties, AppendProperties
      <3>3. /\ NQueued = Len(q) /\ NWire = Len(w) /\ NQueued' = NQueued - 1 /\ NWire' = NWire + 1
            /\ NChunk' = NChunk /\ NCbs' = NCbs /\ NQueued > 0
        BY <3>1, <3>2, <2>o, <2>p, <2>e DEF NQueued, NWire, NChunk, NCbs
      <3>4. NCbs = NChunk + NWire + NQueued /\ \A i \in 1..NCbs : command_cb_list[i] = Due(i)
        BY <2>2, <2>e DEF ReplyInv, Matched, Replying
      <3> HIDE DEF q, w, item
      <3>5. ASSUME NEW i \in 1..NCbs PROVE Due(i)' = Due(i)
        <4>0. /\ i \in Nat /\ i > 0 /\ NWire \in Nat /\ NQueued \in Nat /\ NChunk \in Nat
          BY Lengths
        <4>1. Due(i)' = IF i <= NChunk THEN StreamChunk[i].call
                        ELSE IF i <= NChunk + (NWire + 1) THEN Append(w, item)[i - NChunk].call
                        ELSE Tail(q)[i - NChunk - (NWire + 1)].call
          BY <2>o, <2>p, <3>1, <3>3 DEF Due
        <4>2. Due(i) = IF i <= NChunk THEN StreamChunk[i].call
                       ELSE IF i <= NChunk + NWire THEN w[i - NChunk].call
                       ELSE q[i - NChunk - NWire].call
          BY DEF Due, q, w
        <4>3. CASE i <= NChunk
          BY <4>1, <4>2, <4>3
        <4>4. CASE ~(i <= NChunk) /\ i <= NChunk + NWire
          <5>1. i <= NChunk + (NWire + 1) /\ i - NChunk \in 1..NWire
            BY <4>0, <4>4
          <5>2. Append(w, item)[i - NChunk] = w[i - NChunk]
            BY <5>1, <3>2, <3>3
          <5> QED
            BY <5>1, <5>2, <4>1, <4>2, <4>4
        <4>5. CASE ~(i <= NChunk) /\ i = NChunk + NWire + 1
          <5>1. /\ i <= NChunk + (NWire + 1) /\ i - NChunk = NWire + 1
                /\ ~(i <= NChunk + NWire) /\ i - NChunk - NWire = 1
            BY <4>0, <4>5
          <5>2. Append(w, item)[i - NChunk] = q[1]
            BY <5>1, <3>1, <3>2, <3>3
          <5> QED
            BY <5>1, <5>2, <4>1, <4>2, <4>5
        <4>6. CASE ~(i <= NChunk) /\ i > NChunk + NWire + 1
          <5>1. /\ ~(i <= NChunk + (NWire + 1)) /\ ~(i <= NChunk + NWire)
                /\ i - NChunk - (NWire + 1) \in 1..(NQueued - 1)
                /\ i - NChunk - (NWire + 1) + 1 = i - NChunk - NWire
            BY <4>0, <4>6, <3>4
          <5>2. Tail(q)[i - NChunk - (NWire + 1)] = q[i - NChunk - NWire]
            BY <5>1, <3>2, <3>3
          <5> QED
            BY <5>1, <5>2, <4>1, <4>2, <4>6
        <4> QED
          BY <4>0, <4>3, <4>4, <4>5, <4>6
      <3>r. NCbs' = NChunk' + NWire' + NQueued'
        BY <3>3, <3>4, Lengths
      <3>6. Matched'
        BY <3>r, <3>3, <3>4, <3>5, <2>e DEF Matched
      <3> QED
        BY <3>6, <2>o DEF ReplyInv
    <2> QED
      BY <2>1, <2>2
  <1>2. ASSUME NEW h \in Handles, NEW c \in subscribed[h], Push(h, c) PROVE ReplyInv'
    <2>1. h # Stream /\ Stream \in Handles
      BY <1>2, PairFacts DEF SubsKnown
    <2>2. UNCHANGED <<gen, command_cb_list, handler, queued, outcome, status>>
      BY <1>2 DEF Push, context, handles, history
    <2>3. Stream' = Stream /\ StreamChunk' = StreamChunk /\ (Replying' => Replying)
      BY <2>2, SamePair DEF Replying, StreamChunk
    <2>4. wire'[Stream] = wire[Stream]
      BY <1>2, <2>1 DEF Push, TypeOK
    <2> QED
      BY <2>2, <2>3, <2>4, MatchedKept DEF ReplyInv, OwnReply
  <1>3. ASSUME NEW h \in Handles, NEW n \in 0..Len(wire[h]) PROVE ~ServerCloses(h, n)
    BY DEF ServerCloses, ServerUp
  <1> QED
    BY <1>1, <1>2, <1>3 DEF Environment

LEMMA Replies == ASSUME Orderly, ServerUp PROVE Spec => [](SessionInv /\ ReplyInv)
  <1>1. ASSUME Init PROVE ReplyInv
    <2>1. SessionInv
      BY <1>1, InitSession
    <2>2. status[Stream] # "open" /\ handler.at = "idle"
      BY <1>1, <2>1, PairFacts DEF Init, Idle, SessionInv
    <2> QED
      BY <1>1, <2>2 DEF ReplyInv, Matched, Replying, OwnReply, Init
  <1>2. ASSUME SessionInv, SessionInv', ReplyInv, [Next]_vars PROVE ReplyInv'
    <2>1. CASE UNCHANGED vars
      <3>1. UNCHANGED <<gen, command_cb_list, handler, wire, queued, outcome, status>>
        BY <2>1 DEF vars, context, handles, server, history
      <3>2. Stream' = Stream /\ StreamChunk' = StreamChunk /\ (Replying' => Replying)
        BY <3>1, SamePair DEF Replying, StreamChunk
      <3> QED
        BY <1>2, <3>1, <3>2, MatchedKept DEF ReplyInv, OwnReply
    <2> QED
      BY <1>2, <2>1, RepliesApplication, RepliesLoop, RepliesEnvironment DEF Next
  <1> QED
    BY <1>1, <1>2, Session, PTL DEF Spec

\* on_read never gives a reply to the callback of another command, however the
\* replies are cut into reads and whatever the callbacks send.
THEOREM RepliesReachTheirCallback == ASSUME Orderly, ServerUp PROVE Spec => []OwnReply
  <1>1. ReplyInv => OwnReply
    BY DEF ReplyInv
  <1> QED
    BY <1>1, Replies, PTL

\* command_cb_list is, while the command connection is open, the list of the
\* calls whose replies are in the reply loop, on the wire or still to be asked
\* for, in this order.
THEOREM ListFollowsReplies == ASSUME Orderly, ServerUp PROVE Spec => []Aligned
  <1>1. ASSUME SessionInv, ReplyInv PROVE Aligned
    <2> DEFINE CallsOf(s) == [i \in DOMAIN s |-> s[i].call]
               q == queued[Stream]
               w == wire[Stream]
               u == StreamChunk
    <2>1. SUFFICES ASSUME status[Stream] = "open"
                   PROVE  command_cb_list = CallsOf(u) \o CallsOf(w) \o CallsOf(q)
      BY DEF Aligned, StreamChunk
    <2>2. NCbs = NChunk + NWire + NQueued /\ \A i \in 1..NCbs : command_cb_list[i] = Due(i)
      BY <1>1, <2>1 DEF ReplyInv, Matched, Replying
    <2>t. /\ u \in Seq(Items) /\ w \in Seq(Items) /\ q \in Seq(Items)
          /\ command_cb_list \in Seq(Calls \cup {StackCb})
      BY <1>1, PairFacts DEF SessionInv, TypeOK, StreamChunk
    <2>n. /\ NChunk \in Nat /\ NWire \in Nat /\ NQueued \in Nat /\ NCbs \in Nat
      BY <1>1, Lengths DEF SessionInv
    <2>3. ASSUME NEW s \in Seq(Items)
          PROVE  CallsOf(s) \in Seq(Calls) /\ Len(CallsOf(s)) = Len(s)
                 /\ \A i \in 1..Len(s) : CallsOf(s)[i] = s[i].call
      <3>1. Len(s) \in Nat /\ DOMAIN s = 1..Len(s) /\ \A i \in 1..Len(s) : s[i] \in Items
        BY LenProperties, ElementOfSeq
      <3>2. \A i \in 1..Len(s) : s[i].call \in Calls
        BY <3>1 DEF Items
      <3>3. CallsOf(s) \in [1..Len(s) -> Calls]
        BY <3>1, <3>2
      <3> QED
        BY <3>1, <3>3
    <2>4. /\ CallsOf(u) \in Seq(Calls) /\ Len(CallsOf(u)) = NChunk
          /\ CallsOf(w) \in Seq(Calls) /\ Len(CallsOf(w)) = NWire
          /\ CallsOf(q) \in Seq(Calls) /\ Len(CallsOf(q)) = NQueued
          /\ \A i \in 1..NChunk : CallsOf(u)[i] = u[i].call
          /\ \A i \in 1..NWire : CallsOf(w)[i] = w[i].call
          /\ \A i \in 1..NQueued : CallsOf(q)[i] = q[i].call
      BY <2>3, <2>t DEF NChunk, NWire, NQueued
    <2>d. \A i \in 1..NCbs :
             command_cb_list[i] = IF i <= NChunk THEN u[i].call
                                  ELSE IF i <= NChunk + NWire THEN w[i - NChunk].call
                                  ELSE q[i - NChunk - NWire].call
      BY <2>2 DEF Due
    <2>l. Len(command_cb_list) = NCbs
      BY DEF NCbs
    <2> HIDE DEF CallsOf, u, w, q
    <2> DEFINE a == CallsOf(u)
               b == CallsOf(w)
               c == CallsOf(q)
               s == (a \o b) \o c
    <2>5. /\ a \in Seq(Calls) /\ b \in Seq(Calls) /\ c \in Seq(Calls)
          /\ Len(a) = NChunk /\ Len(b) = NWire /\ Len(c) = NQueued
      BY <2>4
    <2>6. /\ a \o b \in Seq(Calls) /\ Len(a \o b) = NChunk + NWire
          /\ \A i \in 1..(NChunk + NWire) :
               (a \o b)[i] = IF i <= NChunk THEN a[i] ELSE b[i - NChunk]
      BY <2>5, ConcatProperties
    <2>7. /\ s \in Seq(Calls) /\ Len(s) = NCbs
          /\ \A i \in 1..NCbs :
               s[i] = IF i <= NChunk + NWire THEN (a \o b)[i] ELSE c[i - (NChunk + NWire)]
      <3> DEFINE d == a \o b
      <3>1. d \in Seq(Calls) /\ c \in Seq(Calls) /\ Len(d) = NChunk + NWire /\ Len(c) = NQueued
        BY <2>5, <2>6
      <3> HIDE DEF d, c
      <3>2. /\ d \o c \in Seq(Calls) /\ Len(d \o c) = NCbs
            /\ \A i \in 1..NCbs :
                 (d \o c)[i] = IF i <= NChunk + NWire THEN d[i] ELSE c[i - (NChunk + NWire)]
        <4>1. /\ d \o c \in Seq(Calls) /\ Len(d \o c) = Len(d) + Len(c)
              /\ \A i \in 1..Len(d) + Len(c) :
                   (d \o c)[i] = IF i <= Len(d) THEN d[i] ELSE c[i - Len(d)]
          BY <3>1, ConcatProperties
        <4>2. Len(d) + Len(c) = NCbs
          BY <3>1, <2>2, <2>n
        <4> QED
          BY <4>1, <4>2, <3>1
      <3> QED
        BY <3>2 DEF d
    <2>8. ASSUME NEW i \in 1..NCbs PROVE command_cb_list[i] = s[i]
      <3>1. CASE i <= NChunk
        <4>1. i \in 1..NChunk /\ i \in 1..(NChunk + NWire) /\ i <= NChunk + NWire
          BY <3>1, <2>n
        <4>2. s[i] = a[i]
          BY <4>1, <3>1, <2>6, <2>7
        <4> QED
          BY <4>1, <4>2, <3>1, <2>4, <2>d
      <3>2. CASE ~(i <= NChunk) /\ i <= NChunk + NWire
        <4>1. i - NChunk \in 1..NWire /\ i \in 1..(NChunk + NWire)
          BY <3>2, <2>n
        <4>2. s[i] = b[i - NChunk]
          BY <4>1, <3>2, <2>6, <2>7
        <4> QED
          BY <4>1, <4>2, <3>2, <2>4, <2>d
      <3>3. CASE ~(i <= NChunk) /\ ~(i <= NChunk + NWire)
        <4>1. i - NChunk - NWire \in 1..NQueued /\ i - (NChunk + NWire) = i - NChunk - NWire
          BY <3>3, <2>n, <2>2
        <4>2. s[i] = c[i - NChunk - NWire]
          BY <4>1, <3>3, <2>7
        <4> QED
          BY <4>1, <4>2, <3>3, <2>4, <2>d
      <3> QED
        BY <3>1, <3>2, <3>3
    <2>9. command_cb_list = s
      BY <2>7, <2>8, <2>l, <2>t, SeqEqual, SMTT(30)
    <2> QED
      BY <2>9
  <1> QED
    BY <1>1, Replies, PTL
=============================================================================
