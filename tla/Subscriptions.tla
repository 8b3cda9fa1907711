---------------------------- MODULE Subscriptions ----------------------------
(***************************************************************************)
(* Subscriptions of one client (src/src/crazysnail.c): subscribe() and the *)
(* subscribe branch of command(), which file a callback under every name   *)
(* and timer interval it is for; get_and_call_sub_cb, which on_read calls  *)
(* with each reply of the subscription connection; on_timer; and what      *)
(* on_disconnect and connect() do to all of it.                            *)
(*                                                                         *)
(* A callback becomes INITIALIZED when the server has confirmed all its    *)
(* names; the timers of a callback are started when the first of its names *)
(* is confirmed.  Messages and ticks go to all callbacks of a list, one    *)
(* Lua call after the other, and a callback may call subscribe().          *)
(*                                                                         *)
(* The subscription connection is an ordered channel to the server and     *)
(* back; the parser and the connections are those of RedisReader and       *)
(* Client.                                                                 *)
(***************************************************************************)
EXTENDS StringTree, Functions

CONSTANTS
    Requests,     \* the argument lists subscribe() may be called with
    EventNames,   \* the keys of the table "events"
    Variants,     \* the commands used: "channels" (subscribe), "patterns"
    MaxSubs,      \* how many times subscribe() is called
    MaxUnsubs,    \* how many times unsubscribe is sent
    MaxEvents,    \* how many messages and ticks there are
    MaxSessions,  \* how many times the client connects
    FreshFlags,   \* what malloc may leave in callback_t.flags (INITIALIZED?)
    SharesTimers, \* TRUE: an interval may be asked for more than once
    Report        \* the option ignore_sub_cmd_reply = false

ASSUME SubscriptionsAssumption ==
    /\ MaxSubs \in Nat /\ MaxUnsubs \in Nat /\ MaxEvents \in Nat /\ MaxSessions \in Nat \ {0}
    /\ Variants \subseteq {"channels", "patterns"}
    /\ FreshFlags \subseteq BOOLEAN /\ FreshFlags # {}
    /\ SharesTimers \in BOOLEAN /\ Report \in BOOLEAN

-----------------------------------------------------------------------------
(* An argument of subscribe(): whether it reads as a number (a Lua number  *)
(* or a string of digits), the prefix it carries if any, the rest of its   *)
(* text.                                                                   *)

PrefixCode == [at \in {"event", "space"} |-> IF at = "event" THEN 1 ELSE 2]

\* The prefix lua_client_subscribe leaves on an argument.
PrefixOf(arg) ==
    CASE arg.number          -> "timer"
      [] ~arg.number /\ arg.prefix # "none" -> arg.prefix
      [] OTHER               -> IF arg.key \in EventNames THEN "event" ELSE "space"

\* The arguments of a request that are timers, or those that are not.
ArgsOf(req, timed) ==
    LET kept[n \in 0..Len(req)] ==
          IF n = 0 THEN <<>>
          ELSE IF (PrefixOf(req[n]) = "timer") = timed
                 THEN Append(kept[n - 1], req[n]) ELSE kept[n - 1]
    IN  kept[Len(req)]

\* The names of a request, with their prefix, and its timer intervals: the
\* timer arguments are not sent to the server.
NamesOf(req) ==
    LET named == ArgsOf(req, FALSE) IN
    [i \in DOMAIN named |-> <<PrefixCode[PrefixOf(named[i])]>> \o named[i].key]
TimersOf(req) ==
    LET timed == ArgsOf(req, TRUE) IN
    [i \in DOMAIN timed |-> timed[i].key[1]]

Names == UNION {Range(NamesOf(req)) : req \in Requests}
Intervals == UNION {Range(TimersOf(req)) : req \in Requests}

\* An interval of 0 makes a timer that fires once, which is not modelled.
ASSUME RequestsAssumption ==
    /\ Requests \subseteq Seq([number : BOOLEAN, prefix : {"none", "event", "space", "timer"},
                               key : Seq(Nat)])
    /\ 0 \notin Intervals

Subs == 1..MaxSubs
Events == 1..MaxEvents

VARIABLES
    phase,      \* "connected", "closing" (disconnect called), "closed"
    session,    \* connect() calls so far
    trees,      \* cc->channels, cc->patterns: path |-> key
    cb_lists,   \* the cb_list of each node: path |-> calls of subscribe()
    timers,     \* cc->timers: interval |-> its cb_list and its uv_timer_t
    cbs,        \* the callback_t of each subscribe() call
    running,    \* uv_timer_t started and not stopped: each is named by the
                \* channel it was started for, <<subscribe() call, position>>
    requests,   \* requests on their way to the server
    served,     \* server side: names subscribed to
    wire,       \* replies on their way to the client
    chunk,      \* replies on_read still has of the chunk it works on
    handler,    \* the list get_and_call_sub_cb or on_timer walks
    nsubs, nunsubs, nevents,
    acks,       \* the channels confirmed in this session, in the order asked
    log,        \* what the callback of each subscribe() call was given
    due,        \* for each message or tick: the callbacks it is for
    fault       \* an assertion failed

vars == <<phase, session, trees, cb_lists, timers, cbs, running, requests,
          served, wire, chunk, handler, nsubs, nunsubs, nevents, acks,
          log, due, fault>>

NoTree == [p \in {} |-> <<>>]
NoTimers == [k \in {} |-> 0]
NoHandle == <<0, 0>>
Idle == [at |-> "idle", variant |-> "channels", node |-> <<>>, interval |-> 0,
         i |-> 0, event |-> 0]

Init ==
    /\ phase = "connected" /\ session = 1
    /\ trees = [v \in Variants |-> NoTree]
    /\ cb_lists = [v \in Variants |-> NoTree]
    /\ timers = NoTimers
    /\ cbs = [s \in {} |-> 0]
    /\ running = {}
    /\ requests = <<>> /\ served = {} /\ wire = <<>>
    /\ chunk = 0 /\ handler = Idle
    /\ nsubs = 0 /\ nunsubs = 0 /\ nevents = 0
    /\ acks = {}
    /\ log = [s \in Subs |-> <<>>]
    /\ due = [e \in Events |-> {}]
    /\ fault = FALSE

MessageCount(replies) == Cardinality({i \in DOMAIN replies : replies[i].kind = "message"})

LoopTurn == ~fault /\ handler.at = "idle" /\ chunk = 0
LuaRuns == LoopTurn \/ (~fault /\ handler.at = "called")

-----------------------------------------------------------------------------
(* subscribe() and command().                                              *)

\* Mutation of FileUnder: the wrapper is not pushed.
FileUnder_unpushed(acc, key, s) ==
    LET t == insert(acc.tree, key) IN
    [tree |-> t,
     lists |-> [q \in DOMAIN t |-> IF q \in DOMAIN acc.lists THEN acc.lists[q] ELSE <<>>]]

\* One turn of the loop over the names: insert, wrap_cb, push_cb.
FileUnder(acc, key, s) ==
    LET p == InsertLeaf(acc.tree, key)
        t == insert(acc.tree, key)
    IN  [tree |-> t,
         lists |-> [q \in DOMAIN t |->
                      LET old == IF q \in DOMAIN acc.lists THEN acc.lists[q] ELSE <<>>
                      IN  IF q = p THEN Append(old, s) ELSE old]]

\* Mutation of FileTimers: the callback is filed under no interval.
FileTimers_empty(ks, s) ==
    [k \in DOMAIN timers \cup Range(ks) |->
       IF k \in DOMAIN timers THEN timers[k] ELSE [list |-> <<>>, handle |-> NoHandle]]

\* The loop over the intervals: insert_timer tells a new node (2) from an
\* existing one (SNAIL_OK, 0), and only a new one is given the callback.
FileTimers(ks, s) ==
    [k \in DOMAIN timers \cup Range(ks) |->
       IF k \in DOMAIN timers THEN timers[k] ELSE [list |-> <<s>>, handle |-> NoHandle]]

\* The tree of a variant and its lists after the loop over the names.
Filed(variant, names, s) ==
    LET filed[n \in 0..Len(names)] ==
          IF n = 0 THEN [tree |-> trees[variant], lists |-> cb_lists[variant]]
          ELSE FileUnder(filed[n - 1], names[n], s)
    IN  filed[Len(names)]

lua_client_subscribe(variant, req) ==
    LET s     == nsubs + 1
        names == NamesOf(req)
        ks    == TimersOf(req)
        filed == Filed(variant, names, s)
    IN
    /\ LuaRuns
    /\ phase = "connected"
    /\ nsubs < MaxSubs
    /\ SharesTimers \/ Range(ks) \cap DOMAIN timers = {}
    /\ nsubs' = s
    /\ \E fresh \in FreshFlags :
         cbs' = [t \in DOMAIN cbs \cup {s} |-> IF t # s THEN cbs[t] ELSE
           [init |-> fresh, fresh |-> fresh, variant |-> variant, session |-> session,
            channels |-> [i \in 1..Len(names) |->
                [timer |-> FALSE, name |-> names[i], ikey |-> 0, sub |-> FALSE]]
              \o [i \in 1..Len(ks) |->
                [timer |-> TRUE, name |-> <<>>, ikey |-> ks[i], sub |-> FALSE]]]]
    /\ trees' = [trees EXCEPT ![variant] = filed.tree]
    /\ cb_lists' = [cb_lists EXCEPT ![variant] = filed.lists]
    /\ timers' = FileTimers(ks, s)
    /\ requests' = Append(requests, [kind |-> "subscribe", variant |-> variant, names |-> names])
    /\ UNCHANGED <<phase, session, running, served, wire, chunk, handler,
                   nunsubs, nevents, acks, log, due, fault>>

\* command("unsubscribe", name): nothing is filed or taken away.
unsubscribe(variant, name) ==
    /\ LuaRuns
    /\ phase = "connected"
    /\ nunsubs < MaxUnsubs
    /\ nunsubs' = nunsubs + 1
    /\ requests' = Append(requests,
         [kind |-> "unsubscribe", variant |-> variant, names |-> <<name>>])
    /\ UNCHANGED <<phase, session, trees, cb_lists, timers, cbs, running,
                   served, wire, chunk, handler, nsubs, nevents, acks, log,
                   due, fault>>

-----------------------------------------------------------------------------
(* External: the server confirms each name of a request and pushes the     *)
(* messages of the names subscribed to.  It refuses a request without      *)
(* names.                                                                  *)

ServerServes ==
    /\ ~fault
    /\ requests # <<>>
    /\ LET r == Head(requests)
           replies == [i \in DOMAIN r.names |->
                         [kind |-> r.kind, variant |-> r.variant, name |-> r.names[i]]]
           these == {<<r.variant, r.names[i]>> : i \in DOMAIN r.names}
       IN  /\ wire' = wire \o (IF r.names = <<>>
                                 THEN <<[kind |-> "error", variant |-> r.variant, name |-> <<>>]>>
                                 ELSE replies)
           /\ served' = IF r.kind = "subscribe" THEN served \cup these ELSE served \ these
    /\ requests' = Tail(requests)
    /\ UNCHANGED <<phase, session, trees, cb_lists, timers, cbs, running,
                   chunk, handler, nsubs, nunsubs, nevents, acks, log, due, fault>>

ServerPublishes(variant, name) ==
    /\ ~fault
    /\ <<variant, name>> \in served
    /\ phase = "connected"
    /\ nevents + MessageCount(wire) < MaxEvents
    /\ wire' = Append(wire, [kind |-> "message", variant |-> variant, name |-> name])
    /\ UNCHANGED <<phase, session, trees, cb_lists, timers, cbs, running,
                   requests, served, chunk, handler, nsubs, nunsubs, nevents,
                   acks, log, due, fault>>

-----------------------------------------------------------------------------
(* get_and_call_sub_cb, called by on_read for each reply.                  *)

Channels == UNION {{s} \X DOMAIN cbs[s].channels : s \in DOMAIN cbs}

\* The channels with a name that were asked for in this session, each
\* <<subscribe() call, position>>, and the order of the asking.
Asked == {t \in Channels : cbs[t[1]].session = session /\ ~cbs[t[1]].channels[t[2]].timer}
Before(t, u) == t[1] < u[1] \/ (t[1] = u[1] /\ t[2] < u[2])

\* Reference: the server confirms names in the order they were asked for, so
\* the next confirmation is for the first channel without one, whatever the
\* client marks; a callback is confirmed with its last name.
Outstanding == Asked \ acks
NextConfirmed == {t \in Outstanding : \A u \in Outstanding : t = u \/ Before(t, u)}
Acked(s) == \A t \in Asked : t[1] = s => t \in acks

\* Channel i of callback s is the one a confirmation of name is for.
Awaits(s, i, name) ==
    LET ch == cbs[s].channels[i] IN
    ~cbs[s].init /\ ~ch.sub /\ ~ch.timer /\ ch.name = name

\* Mutation of Confirmed: any channel makes the callback INITIALIZED.
Confirmed_any(s, hit, name) ==
    LET chs  == cbs[s].channels
        mine == {i \in DOMAIN chs : hit /\ Awaits(s, i, name)}
        now  == [i \in DOMAIN chs |-> [chs[i] EXCEPT
                   !.sub = @ \/ chs[i].timer \/ (mine # {} /\ i = Min(mine))]]
    IN  [cbs[s] EXCEPT !.channels = now, !.init = \E i \in DOMAIN now : now[i].sub]

\* Mutation of Confirmed: the callback never becomes INITIALIZED.
Confirmed_never(s, hit, name) ==
    LET chs  == cbs[s].channels
        mine == {i \in DOMAIN chs : hit /\ Awaits(s, i, name)}
        now  == [i \in DOMAIN chs |-> [chs[i] EXCEPT
                   !.sub = @ \/ chs[i].timer \/ (mine # {} /\ i = Min(mine))]]
    IN  [cbs[s] EXCEPT !.channels = now]

\* A callback after the loop over its channels: the awaited one, if this is
\* the callback it was looked for, and all timers are marked; with all
\* channels marked it is INITIALIZED.
Confirmed(s, hit, name) ==
    LET chs  == cbs[s].channels
        mine == {i \in DOMAIN chs : hit /\ Awaits(s, i, name)}
        now  == [i \in DOMAIN chs |-> [chs[i] EXCEPT
                   !.sub = @ \/ chs[i].timer \/ (mine # {} /\ i = Min(mine))]]
    IN  [cbs[s] EXCEPT !.channels = now, !.init = \A i \in DOMAIN now : now[i].sub]

\* The timers of a callback that are still to be started.
ToStart(s) ==
    {s} \X {i \in DOMAIN cbs[s].channels : cbs[s].channels[i].timer /\ ~cbs[s].channels[i].sub}

\* The callbacks of a list that await a confirmation of name.
Awaiting(list, name) ==
    {i \in DOMAIN list : \E c \in DOMAIN cbs[list[i]].channels : Awaits(list[i], c, name)}

\* The part of a list that is walked: up to the first callback that awaits
\* the confirmation, or all of it.
UpToAwaiting(list, name) ==
    IF Awaiting(list, name) = {} THEN list ELSE SubSeq(list, 1, Min(Awaiting(list, name)))

\* The timers started on the way: those of the callbacks that are not
\* INITIALIZED.
TimersStarted(walked) == UNION {ToStart(s) : s \in {t \in Range(walked) : ~cbs[t].init}}

\* The interval of a timer (handle->repeat).
Interval(t) == cbs[t[1]].channels[t[2]].ikey

\* The last of a set of timers to be started: a list is in the order of the
\* subscribe() calls.
Latest(ts) ==
    CHOOSE t \in ts : \A u \in ts : u[1] < t[1] \/ (u[1] = t[1] /\ u[2] <= t[2])

\* Start the timers; the node of an interval keeps the last one.
StartTimers(start) ==
    /\ running' = running \cup start
    /\ timers' = [k \in DOMAIN timers |->
         LET mine == {t \in start : Interval(t) = k} IN
         IF mine = {} THEN timers[k] ELSE [timers[k] EXCEPT !.handle = Latest(mine)]]

\* The callbacks of the list that were walked over, the last of them being
\* the one that awaited the confirmation if hit.
ConfirmAll(walked, hit, name) ==
    /\ cbs' = [s \in DOMAIN cbs |->
         IF s \in Range(walked) /\ ~cbs[s].init
           THEN Confirmed(s, hit /\ s = walked[Len(walked)], name)
           ELSE cbs[s]]
    /\ log' = IF Report /\ hit
                THEN [log EXCEPT ![walked[Len(walked)]] =
                        Append(@, [kind |-> "ack", event |-> 0])]
                ELSE log

\* on_read handles a chunk of replies.  It asks whether the client disconnects
\* before the first of them only: a callback that disconnects does not keep it
\* from the others.
Reads ==
    /\ ~fault /\ handler.at = "idle" /\ wire # <<>>
    /\ \/ chunk = 0 /\ phase = "connected" /\ chunk' \in 0..(Len(wire) - 1)
       \/ chunk > 0 /\ phase \in {"connected", "closing"} /\ chunk' = chunk - 1
    /\ wire' = Tail(wire)

\* A subscribe reply.
on_read_subscribe ==
    /\ Reads /\ Head(wire).kind = "subscribe"
    /\ acks' = acks \cup NextConfirmed
    /\ \E r \in {Head(wire)} : \E p \in {search(trees[r.variant], r.name)} :
         IF p \notin DOMAIN trees[r.variant]
           THEN fault' = TRUE /\ UNCHANGED <<cbs, running, timers, log>>
           ELSE \E walked \in {UpToAwaiting(cb_lists[r.variant][p], r.name)} :
                  /\ ConfirmAll(walked, Awaiting(walked, r.name) # {}, r.name)
                  /\ \E start \in {TimersStarted(walked)} : StartTimers(start)
                  /\ UNCHANGED fault
    /\ UNCHANGED <<phase, session, trees, cb_lists, requests, served, handler,
                   nsubs, nunsubs, nevents, due>>

\* An error or an unsubscribe reply: nothing is done.
on_read_ignored ==
    /\ Reads /\ Head(wire).kind \in {"error", "unsubscribe"}
    /\ UNCHANGED <<phase, session, trees, cb_lists, timers, cbs, running,
                   requests, served, handler, nsubs, nunsubs, nevents,
                   acks, log, due, fault>>

\* A message: the walk over the list of its name begins.
on_read_message ==
    LET r == Head(wire)
        p == search(trees[r.variant], r.name)
    IN
    /\ Reads /\ r.kind = "message"
    /\ nevents' = nevents + 1
    /\ due' = [due EXCEPT ![nevents + 1] =
         {s \in DOMAIN cbs : /\ cbs[s].session = session /\ cbs[s].variant = r.variant
                             /\ Acked(s)
                             /\ \E i \in DOMAIN cbs[s].channels :
                                  ~cbs[s].channels[i].timer /\ cbs[s].channels[i].name = r.name}]
    /\ IF p \notin DOMAIN trees[r.variant]
         THEN fault' = TRUE /\ UNCHANGED handler
         ELSE /\ handler' = [Idle EXCEPT !.at = "walk", !.variant = r.variant,
                               !.node = p, !.event = nevents + 1]
              /\ UNCHANGED fault
    /\ UNCHANGED <<phase, session, trees, cb_lists, timers, cbs, running,
                   requests, served, nsubs, nunsubs, acks, log>>

\* A timer fires.  While the client disconnects on_timer returns at once;
\* otherwise it walks the list of the interval.
on_timer(t) ==
    LET k == Interval(t) IN
    /\ LoopTurn
    /\ phase = "connected"
    /\ nevents + MessageCount(wire) < MaxEvents
    /\ nevents' = nevents + 1
    /\ due' = [due EXCEPT ![nevents + 1] =
         {s \in DOMAIN cbs : /\ cbs[s].session = session
                             /\ Acked(s)
                             /\ \E i \in DOMAIN cbs[s].channels :
                                  cbs[s].channels[i].timer /\ cbs[s].channels[i].ikey = k}]
    /\ IF k \notin DOMAIN timers
         THEN fault' = TRUE /\ UNCHANGED handler
         ELSE /\ handler' = [Idle EXCEPT !.at = "walk", !.interval = k,
                               !.event = nevents + 1]
              /\ UNCHANGED fault
    /\ UNCHANGED <<phase, session, trees, cb_lists, timers, cbs, running,
                   requests, served, wire, chunk, nsubs, nunsubs, acks, log>>

\* The list the handler walks, as it is now.
Walked == IF handler.interval # 0
            THEN timers[handler.interval].list
            ELSE cb_lists[handler.variant][handler.node]

\* Mutation of GivenTo: the flag is not looked at.
GivenTo_any(s) == "event"

\* What a callback is called with: the event, or an error string when the
\* callback is not INITIALIZED.
GivenTo(s) == IF cbs[s].init THEN "event" ELSE "not_initialized"

\* One Lua call of the walk; the callback may call the API before the next.
walk_next ==
    /\ ~fault
    /\ handler.at \in {"walk", "called"}
    /\ handler.i < Len(Walked)
    /\ LET s == Walked[handler.i + 1] IN
       log' = [log EXCEPT ![s] = Append(@, [kind |-> GivenTo(s), event |-> handler.event])]
    /\ handler' = [handler EXCEPT !.i = @ + 1, !.at = "called"]
    /\ UNCHANGED <<phase, session, trees, cb_lists, timers, cbs, running,
                   requests, served, wire, chunk, nsubs, nunsubs, nevents,
                   acks, due, fault>>

walk_end ==
    /\ ~fault
    /\ handler.at \in {"walk", "called"}
    /\ handler.i >= Len(Walked)
    /\ handler' = Idle
    /\ UNCHANGED <<phase, session, trees, cb_lists, timers, cbs, running,
                   requests, served, wire, chunk, nsubs, nunsubs, nevents,
                   acks, log, due, fault>>

-----------------------------------------------------------------------------
(* The end of a session and the next one.                                  *)

lua_client_disconnect ==
    /\ LuaRuns
    /\ phase = "connected"
    /\ phase' = "closing"
    /\ UNCHANGED <<session, trees, cb_lists, timers, cbs, running,
                   requests, served, wire, chunk, handler, nsubs, nunsubs, nevents,
                   acks, log, due, fault>>

\* Mutation of Stopped: destroy_tree does not stop the timers.
Stopped_none == {}

\* The timers destroy_tree stops: the one each node knows.
Stopped == {timers[k].handle : k \in DOMAIN timers}

\* Both connections are closed: on_disconnect destroys the three trees.
on_disconnect ==
    /\ LoopTurn
    /\ phase = "closing"
    /\ phase' = "closed"
    /\ trees' = [v \in Variants |-> NoTree]
    /\ cb_lists' = [v \in Variants |-> NoTree]
    /\ running' = running \ Stopped
    /\ timers' = NoTimers
    /\ requests' = <<>> /\ served' = {} /\ wire' = <<>>
    /\ UNCHANGED <<session, cbs, chunk, handler, nsubs, nunsubs, nevents,
                   acks, log, due, fault>>

lua_client_connect ==
    /\ LuaRuns
    /\ phase = "closed"
    /\ session < MaxSessions
    /\ session' = session + 1
    /\ phase' = "connected"
    /\ acks' = {}
    /\ UNCHANGED <<trees, cb_lists, timers, cbs, running, requests,
                   served, wire, chunk, handler, nsubs, nunsubs, nevents, log, due, fault>>

-----------------------------------------------------------------------------
Application ==
    \/ \E v \in Variants, req \in Requests : lua_client_subscribe(v, req)
    \/ \E v \in Variants, name \in Names : unsubscribe(v, name)
    \/ lua_client_disconnect
    \/ lua_client_connect

Walk == walk_next \/ walk_end

OnRead == on_read_subscribe \/ on_read_ignored \/ on_read_message

Next ==
    \/ Application
    \/ ServerServes
    \/ \E v \in Variants, name \in Names : ServerPublishes(v, name)
    \/ OnRead
    \/ \E t \in running : on_timer(t)
    \/ Walk
    \/ on_disconnect

Spec == Init /\ [][Next]_vars

\* A handler runs to its end, the loop reads what the server sends and the
\* server serves what it is sent.
FairSpec == Spec /\ WF_vars(Walk) /\ WF_vars(OnRead) /\ WF_vars(ServerServes)

-----------------------------------------------------------------------------
(* Properties.                                                             *)

\* Type invariant of the trees, the timers and the callbacks.
TypeOK ==
    /\ phase \in {"connected", "closing", "closed"}
    /\ session \in 1..MaxSessions
    /\ \A v \in Variants : DOMAIN cb_lists[v] = DOMAIN trees[v]
    /\ \A v \in Variants : \A p \in DOMAIN trees[v] :
         trees[v][p] \in Names /\ cb_lists[v][p] \in Seq(Subs) \ {<<>>}
    /\ DOMAIN timers \subseteq Intervals
    /\ \A k \in DOMAIN timers : timers[k].list \in Seq(Subs)
                                /\ timers[k].handle \in Channels \cup {NoHandle}
    /\ DOMAIN cbs = 1..nsubs
    /\ running \subseteq Channels /\ acks \subseteq Channels
    /\ chunk \in Nat
    /\ nsubs \in 0..MaxSubs /\ nevents \in 0..MaxEvents
    /\ fault \in BOOLEAN

\* search and search_timer never run into a NULL pointer (their assertions).
NoAbort == ~fault

NamesIn(s) ==
    {cbs[s].channels[i].name : i \in {i \in DOMAIN cbs[s].channels : ~cbs[s].channels[i].timer}}

\* Neither this callback nor an earlier one of the session with a name in
\* common was created with flags that malloc had left INITIALIZED.
Clear(s) ==
    /\ ~cbs[s].fresh
    /\ \A t \in 1..s : cbs[t].fresh =>
         \/ cbs[t].session # cbs[s].session \/ cbs[t].variant # cbs[s].variant
         \/ NamesIn(t) \cap NamesIn(s) = {}

\* Every message and every tick is given once to each callback that is
\* confirmed and subscribed to its name or interval, whatever the flags were
\* when it was created; and to no other one, except where flags that malloc
\* left set make it INITIALIZED too early.
Delivered ==
    handler.at = "idle" /\ ~fault =>
        \A e \in 1..nevents, s \in DOMAIN cbs :
            LET given == {i \in DOMAIN log[s] : log[s][i] = [kind |-> "event", event |-> e]} IN
            /\ s \in due[e] => Cardinality(given) = 1
            /\ s \notin due[e] /\ Clear(s) => given = {}

\* A callback that subscribed to names is INITIALIZED when the server has
\* confirmed all of them, whatever its flags were when it was created; and not
\* before, unless the flags of a callback that shares a name were left set.
ReadyWhenConfirmed ==
    \A s \in DOMAIN cbs : cbs[s].session = session /\ NamesIn(s) # {} =>
        /\ Acked(s) => cbs[s].init
        /\ cbs[s].init /\ Clear(s) => Acked(s)

\* Only a callback whose names are all confirmed is given a message or a tick;
\* the others are told that they are not initialized.  It does not hold when
\* malloc may leave the flags set, which create_callback does not write.
OnlyConfirmed ==
    \A s \in DOMAIN cbs : \A i \in DOMAIN log[s] :
        log[s][i].kind = "event" => s \in due[log[s][i].event]

\* Every timer that runs is the one its node in cc->timers will stop.
TimersOwned ==
    \A t \in running :
        Interval(t) \in DOMAIN timers /\ timers[Interval(t)].handle = t

\* A subscription takes effect: its callback becomes INITIALIZED and its
\* timers run, unless the session ends first.  The timers of a callback that
\* malloc left INITIALIZED are never started.
TakesEffect ==
    \A s \in Subs :
        s \in DOMAIN cbs ~>
            /\ s \in DOMAIN cbs
            /\ \/ cbs[s].session # session \/ phase # "connected"
               \/ /\ cbs[s].init
                  /\ \A i \in DOMAIN cbs[s].channels :
                       cbs[s].channels[i].timer /\ ~cbs[s].fresh =>
                         \E t \in running : Interval(t) = cbs[s].channels[i].ikey
=============================================================================
