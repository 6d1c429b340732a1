------------------------------ MODULE ClientStream ------------------------------
(***************************************************************************)
(* How results reach the browsers: the event loop of one runtime, the      *)
(* goroutine that produces its results, and the websocket clients.         *)
(*                                                                         *)
(*   src/internal/setruntime/runtime.go, data.go, bricks_handler.go,       *)
(*   fetch_operations.go    runtime sets (kinds "complete", "incomplete")  *)
(*   src/internal/searchruntime/runtime.go, handler.go,                    *)
(*   fetch_operations.go    search runtimes (kind "search")                *)
(*   src/internal/wsruntime/client.go    the client's two pumps            *)
(*                                                                         *)
(* The two kinds of runtime share their loop and their client.  A runtime  *)
(* set stores the bricks it finds and shows them to whoever connects; a    *)
(* search stores nothing.  An item is a brick or a search result, a batch  *)
(* is one item.  Who creates, replaces and stops runtime sets is modelled  *)
(* in SetRuntime; here the registry is one flag, "listed".                 *)
(***************************************************************************)
EXTENDS Naturals, Sequences, FiniteSets

CONSTANTS
    Kinds,          \* the kinds of runtime, of "complete", "incomplete", "search"
    Clients,        \* websocket connections
    Items,          \* bricks of the set, or results of the search
    ClientCap,      \* capacity of the register and of the unregister channel
    ChangeCap,      \* capacity of changeChan
    SendCap,        \* capacity of a client's Send channel
    MaxFailures     \* MaxConsecutiveSendFailures

All == "all"        \* the reader of a completed set's bricks

\* The channels of clients (100) are taken to be larger than the number of clients.
ASSUME ClientStreamAssumption ==
    /\ All \notin Clients
    /\ Kinds \subseteq {"complete", "incomplete", "search"}
    /\ IsFiniteSet(Clients) /\ IsFiniteSet(Items)
    /\ ClientCap \in Nat /\ ClientCap >= Cardinality(Clients)
    /\ {ChangeCap, SendCap, MaxFailures} \subseteq Nat \ {0}

VARIABLES
    kind,
    \* the runtime
    listed,         \* the handler's maps hold the runtime
    status,         \* FetchStatus of the set, or Status of the search
    loop,           \* position of run(): "select", "reading", "closing", "ended"
    reader,         \* whom the bricks are read for: a client, or all of them
    shown,          \* what the status of the set said of the fetch at that time
    snap,           \* the final bricks read so far
    toClose,        \* clients the loop has still to close
    stops,          \* calls of stop() still to make, the current one included
    ownStop,        \* the loop stopped because its own fetch or search told it to
    clients,        \* clientHolder.clients
    register, unregister, changes,
    final, missing, \* BricksHandler
    \* the goroutine that fetches or searches
    pc, todo, moving,
    out,            \* changes it is about to push
    found,          \* it has found the runtime in the maps and is sending
    \* the websocket clients
    cl

runtime  == <<listed, status, loop, reader, shown, snap, toClose, stops, ownStop, clients>>
channels == <<register, unregister, changes>>
bricks   == <<final, missing>>
producer == <<pc, todo, moving, out, found>>
vars     == <<kind, runtime, channels, bricks, producer, cl>>

\* Changes and packets are told apart by the items they carry and by what they say
\* of the fetch: nothing, that it is completed, or that it has failed.  A change that
\* tells of the set itself is read when it is handled: an "early" packet then says
\* that the fetch is over, ahead of the packet that is to tell so.
Packet(says, items) == [type |-> says, items |-> items]
News      == Packet("news", {})         \* DataTypeCreated, DataTypeUpdated
Update    == Packet("data", {})         \* no items: prices to come, a search's init
Completed == Packet("completed", {})    \* DataTypeCompleted, complete
Failed    == Packet("failed", {})       \* DataTypeFailed, fatal
Close     == Packet("close", {})        \* the nil message

IsSet == kind # "search"

\* The word of the fetch's end.
Ends(message) == message.type \in {"completed", "failed"}
EndIn(queue)  == \E i \in DOMAIN queue : queue[i].type \in {"completed", "failed"}

ItemsOf(queue) == UNION {queue[i].items : i \in DOMAIN queue}

Init ==
    /\ kind \in Kinds
    /\ listed = TRUE
    /\ status \in IF IsSet THEN {"failed", "completed", "fetching"} ELSE {"fetching"}
    /\ loop = "select" /\ reader = All /\ shown = "fetching" /\ snap = {} /\ toClose = {}
    /\ stops = 0 /\ ownStop = FALSE /\ clients = {}
    /\ register = <<>> /\ unregister = <<>> /\ changes = <<>>
    /\ IF kind = "incomplete"
         THEN final \in SUBSET Items /\ missing = Items \ final
         ELSE final = {} /\ missing = {}
    /\ pc = IF IsSet THEN "begin" ELSE "search"
    /\ todo = IF IsSet THEN {} ELSE Items
    /\ moving = {} /\ out = <<>> /\ found = FALSE
    /\ cl = [c \in Clients |->
               [conn |-> "none", read |-> "none", write |-> "none",
                send |-> <<>>, hand |-> <<>>, failures |-> 0, timer |-> FALSE,
                seen |-> {}, told |-> FALSE, lost |-> FALSE, dismissed |-> FALSE, bye |-> FALSE]]

-----------------------------------------------------------------------------
(* The client, as its runtime uses it. *)

Full(c) == Len(cl[c].send) >= SendCap

\* SendPacket: a packet that finds no room is dropped, and counted.  Nobody reads
\* the buffer of a writer that has ended, and its content is not followed.
Sent(c, packet) ==
    CASE cl[c].write = "ended" -> cl[c]
      [] cl[c].write # "ended" /\ Full(c) ->
           [cl[c] EXCEPT !.failures = IF @ < MaxFailures THEN @ + 1 ELSE @, !.lost = TRUE]
      [] OTHER -> [cl[c] EXCEPT !.send = Append(@, packet), !.failures = 0]

TooSlow(c) == Full(c) /\ cl[c].failures + 1 >= MaxFailures

\* Close(): the close message if there is room for it, and in any case a timer
\* that knocks at Done two seconds later.  Further timers are not counted.
Closed(r) ==
    IF r.write = "ended" THEN r
    ELSE [r EXCEPT !.send = IF Len(@) < SendCap THEN Append(@, Close) ELSE @,
                   !.timer = TRUE]

\* The write pump returns.  What its client has seen is kept, for the properties,
\* if the end was a goodbye to a client that was served all along.
WriteEnded(r) ==
    [r EXCEPT !.write = "ended", !.send = <<>>, !.hand = <<>>, !.timer = FALSE,
              !.failures = 0, !.seen = {}, !.told = FALSE, !.lost = FALSE, !.dismissed = FALSE]

WriteClosed(r) ==
    IF r.lost \/ r.dismissed THEN WriteEnded(r)
    ELSE [WriteEnded(r) EXCEPT !.bye = TRUE, !.seen = r.seen, !.told = r.told]

\* A send on Done, which never blocks, is heard by a writer parked in its select.
Knocked(r) ==
    IF r.write = "running" /\ r.hand = <<>> /\ r.send = <<>> THEN WriteEnded(r) ELSE r

-----------------------------------------------------------------------------
(* The event loop, run(). *)

\* A fault: the done channel has a buffer, and the select may pick the signal
\* although other cases are ready.
IdleOrBusy == loop = "select"

\* The loop waits in its select with nothing to do.  The done channel has no
\* buffer and is sent to without blocking: only then is the signal heard.
Idle == loop = "select" /\ register = <<>> /\ unregister = <<>> /\ changes = <<>>

\* Gives the packet to the clients of S, then closes those that fell behind.
Broadcast(S, packet) ==
    /\ cl' = [c \in Clients |-> IF c \in S THEN Sent(c, packet) ELSE cl[c]]
    /\ toClose' = {c \in S : TooSlow(c)}
    /\ loop' = IF toClose' = {} THEN "select" ELSE "closing"

\* The loop leaves its select for good; stop() closes the clients it has.
BeginStop(times, own) ==
    /\ loop' = "closing"
    /\ stops' = times
    /\ toClose' = clients
    /\ ownStop' = own

\* A search that times out or is told to stop calls stop() itself, and its
\* deferred function calls it again.
StopsOnReturn == IF IsSet THEN 1 ELSE 2

\* What the status says of the fetch: before that begins it is an earlier fetch's.
Said == IF pc = "begin" THEN "fetching" ELSE status

\* handleClientConnect: a runtime set goes on to read its bricks.
HandleConnect ==
    /\ loop = "select" /\ register # <<>>
    /\ register' = Tail(register)
    /\ clients' = clients \cup {Head(register)}
    /\ IF IsSet
         THEN /\ loop' = "reading" /\ reader' = Head(register)
              /\ shown' = Said /\ snap' = final
              /\ UNCHANGED <<cl, toClose>>
         ELSE /\ Broadcast({Head(register)}, Update)
              /\ UNCHANGED <<reader, shown, snap>>
    /\ UNCHANGED <<kind, listed, status, stops, ownStop, unregister, changes,
                   bricks, producer>>

\* A fault: the missing bricks are left out.
OnlyFinalRead == snap

\* The second half of BricksHandler.get(), after the final bricks were copied
\* and their lock released; the packet that carries the bricks is sent.
BricksRead == snap \cup missing

Says(st) == IF st = "fetching" THEN "data" ELSE st

FinishRead ==
    /\ loop = "reading"
    /\ IF reader = All
         THEN Broadcast(clients, Packet("completed", BricksRead))
         ELSE Broadcast({reader}, Packet(Says(shown), BricksRead))
    /\ reader' = All /\ shown' = "fetching" /\ snap' = {}
    /\ UNCHANGED <<kind, listed, status, stops, ownStop, clients, channels,
                   bricks, producer>>

\* handleClientDisconnect
HandleDisconnect ==
    /\ loop = "select" /\ unregister # <<>>
    /\ unregister' = Tail(unregister)
    /\ clients' = clients \ {Head(unregister)}
    /\ UNCHANGED <<kind, listed, status, loop, reader, shown, snap, toClose, stops,
                   ownStop, register, changes, bricks, producer, cl>>

\* NewPacketSet(*rs.Read(), ...) of a Created or an Updated set has the status as it
\* is now.  The bricks are left out, or are the set's own, which may be none.
AsRead(change) ==
    IF change.type = "news"
      THEN [change EXCEPT !.type = IF status = "fetching" THEN "data" ELSE "early"]
      ELSE change

\* A fault: the packet of a completed set carries no bricks, like
\* that of an updated one.
CompleteWithoutBricks ==
    /\ IsSet /\ loop = "select" /\ changes # <<>>
    /\ changes' = Tail(changes)
    /\ Broadcast(clients, AsRead(Head(changes)))
    /\ UNCHANGED <<kind, listed, status, reader, shown, snap, stops, ownStop, clients,
                   register, unregister, bricks, producer>>

\* handleDataChange: the bricks of a completed set are read first, and a batch of
\* bricks has the items it was pushed with.
HandleSetChange ==
    /\ IsSet /\ loop = "select" /\ changes # <<>>
    /\ changes' = Tail(changes)
    /\ LET change == Head(changes) IN
         IF change.type = "completed"
           THEN /\ loop' = "reading" /\ reader' = All
                /\ shown' = status /\ snap' = final
                /\ UNCHANGED <<cl, toClose>>
           ELSE /\ Broadcast(clients, AsRead(change))
                /\ UNCHANGED <<reader, shown, snap>>
    /\ UNCHANGED <<kind, listed, status, stops, ownStop, clients, register,
                   unregister, bricks, producer>>

\* handleChange of a search.  The loop returns after the last change.
HandleSearchChange ==
    /\ ~IsSet /\ loop = "select" /\ changes # <<>>
    /\ changes' = Tail(changes)
    /\ LET change == Head(changes) IN
         IF ~Ends(change)
           THEN /\ Broadcast(clients, change)
                /\ UNCHANGED <<status, stops, ownStop>>
           ELSE /\ cl' = [c \in Clients |->
                            IF c \notin clients THEN cl[c]
                            ELSE LET r == Sent(c, change)
                                 IN  IF TooSlow(c) THEN Closed(r) ELSE r]
                /\ status' = change.type
                /\ BeginStop(1, TRUE)
    /\ UNCHANGED <<kind, listed, reader, shown, snap, clients, register, unregister,
                   bricks, producer>>

\* runClientExpireChecker: which clients were silent for too long is left open.
Expire ==
    /\ loop = "select"
    /\ \E silent \in SUBSET clients \ {{}} : toClose' = silent
    /\ loop' = "closing"
    /\ UNCHANGED <<kind, listed, status, reader, shown, snap, stops, ownStop, clients,
                   channels, bricks, producer, cl>>

\* A fault: the check for silent clients keeps the clients' lock, and
\* the loop never gets past its next broadcast.
KeepLock ==
    /\ loop = "closing" /\ stops > 0
    /\ cl' = [c \in Clients |-> IF c \in toClose THEN Closed(cl[c]) ELSE cl[c]]
    /\ toClose' = IF stops = 2 THEN clients ELSE {}
    /\ listed' = FALSE
    /\ stops' = stops - 1
    /\ loop' = IF stops = 1 THEN "ended" ELSE "closing"
    /\ UNCHANGED <<kind, status, reader, shown, snap, ownStop, clients, channels,
                   bricks, producer>>

\* The clients are closed one after the other, which none of them can tell: for
\* being silent or slow, or by stop(), after which onEnd takes the runtime off the
\* maps.
CloseClients ==
    /\ loop = "closing"
    /\ cl' = [c \in Clients |->
                IF c \in toClose
                  THEN [Closed(cl[c]) EXCEPT !.dismissed = @ \/ (stops = 0 /\ cl[c].write # "ended")]
                  ELSE cl[c]]
    /\ toClose' = IF stops = 2 THEN clients ELSE {}
    /\ IF stops = 0
         THEN loop' = "select" /\ UNCHANGED <<stops, listed>>
         ELSE /\ listed' = FALSE
              /\ stops' = stops - 1
              /\ loop' = IF stops = 1 THEN "ended" ELSE "closing"
    /\ UNCHANGED <<kind, status, reader, shown, snap, ownStop, clients, channels, bricks,
                   producer>>

\* The activity timer.
Timeout ==
    /\ loop = "select"
    /\ BeginStop(StopsOnReturn, FALSE)
    /\ UNCHANGED <<kind, listed, status, reader, shown, snap, clients, channels, bricks,
                   producer, cl>>

Loop == FinishRead \/ CloseClients

HandleChange == HandleSetChange \/ HandleSearchChange

-----------------------------------------------------------------------------
(* The rest of the program: another fetch's late stop or Shutdown, and a       *)
(* request that replaces the runtime because it is not healthy.                *)

OtherStop ==
    /\ listed /\ Idle
    /\ BeginStop(StopsOnReturn, FALSE)
    /\ UNCHANGED <<kind, listed, status, reader, shown, snap, clients, channels, bricks,
                   producer, cl>>

\* forceStopRuntimeSetLocked, and the same for a stale search, which is only
\* removed: its loop is on its way out.
Replace ==
    /\ listed /\ listed' = FALSE
    /\ \/ IsSet /\ status = "failed"
       \/ ~IsSet /\ status # "fetching"
    /\ IF IsSet /\ Idle
         THEN BeginStop(1, FALSE)
         ELSE UNCHANGED <<loop, stops, toClose, ownStop>>
    /\ UNCHANGED <<kind, status, reader, shown, snap, clients, channels, bricks,
                   producer, cl>>

-----------------------------------------------------------------------------
(* The goroutine that fetches a set or processes a search. *)

\* PushChange and PushBatchProgress look the runtime set up first.
PushLookup ==
    /\ IsSet /\ out # <<>> /\ ~found
    /\ IF listed THEN found' = TRUE /\ UNCHANGED out
                 ELSE out' = Tail(out) /\ UNCHANGED found
    /\ UNCHANGED <<kind, runtime, channels, bricks, pc, todo, moving, cl>>

\* Then they send, and block while the channel is full.
PushSend ==
    /\ out # <<>> /\ (found \/ ~IsSet)
    /\ Len(changes) < ChangeCap
    /\ changes' = Append(changes, Head(out))
    /\ out' = Tail(out) /\ found' = FALSE
    /\ UNCHANGED <<kind, runtime, register, unregister, bricks, pc, todo, moving, cl>>

\* FetchSetComplete and FetchSetIncomplete begin; fetchSetDetails, which may be
\* skipped or fail, tells of new details.  An incomplete set goes on to the prices.
Begin ==
    /\ pc = "begin"
    /\ status' = "fetching"
    /\ out' \in {<<News>>, <<News, News>>}
    /\ pc' = IF kind = "complete" THEN "fetch" ELSE "inventory"
    /\ UNCHANGED <<kind, listed, loop, reader, shown, snap, toClose, stops, ownStop,
                   clients, channels, bricks, todo, moving, found, cl>>

\* fetchInventory gets the parts list: all the bricks, or none and no prices either.
FetchInventory ==
    /\ pc = "fetch" /\ out = <<>>
    /\ \/ todo' = Items /\ pc' = "inventory"
       \/ todo' = {} /\ pc' = "prices"
    /\ UNCHANGED <<kind, runtime, channels, bricks, moving, out, found, cl>>

\* handleFatalError
FetchFails ==
    /\ pc = "fetch" /\ out = <<>>
    /\ status' = "failed"
    /\ out' = <<Failed>>
    /\ pc' = "wait"
    /\ UNCHANGED <<kind, listed, loop, reader, shown, snap, toClose, stops, ownStop,
                   clients, channels, bricks, todo, moving, found, cl>>

Progress(b) == <<Packet("data", {b}), News>>

\* batchHandlerBricksProgress in the inventory phase: the brick has a price in
\* the cache or not.
StoreBrick ==
    /\ pc = "inventory" /\ out = <<>>
    /\ \E b \in todo :
         /\ \/ final' = final \cup {b} /\ UNCHANGED missing
            \/ missing' = missing \cup {b} /\ UNCHANGED final
         /\ todo' = todo \ {b}
         /\ out' = Progress(b)
    /\ UNCHANGED <<kind, runtime, channels, pc, moving, found, cl>>

\* fetchBricks: nothing to do, or the empty batch that announces the prices.
FetchBricks ==
    /\ pc = "inventory" /\ todo = {} /\ out = <<>>
    /\ todo' = missing
    /\ out' = IF missing = {} THEN <<>> ELSE <<Update>>
    /\ pc' = "prices"
    /\ UNCHANGED <<kind, runtime, channels, bricks, moving, found, cl>>

\* batchHandlerBricksProgress in the price phase.  A brick with a price leaves
\* the missing ones before it joins the final ones; one without stays.
RemoveMissing ==
    /\ pc = "prices" /\ out = <<>> /\ moving = {}
    /\ \E b \in todo :
         /\ missing' = missing \ {b}
         /\ todo' = todo \ {b}
         /\ moving' = {b}
    /\ UNCHANGED <<kind, runtime, channels, final, pc, out, found, cl>>

AppendFinal ==
    /\ \E b \in moving : final' = final \cup {b} /\ out' = Progress(b)
    /\ moving' = {}
    /\ UNCHANGED <<kind, runtime, channels, missing, pc, todo, found, cl>>

KeepMissing ==
    /\ pc = "prices" /\ out = <<>> /\ moving = {}
    /\ \E b \in todo :
         /\ missing' = missing \cup {b}
         /\ todo' = todo \ {b}
         /\ out' = Progress(b)
    /\ UNCHANGED <<kind, runtime, channels, final, pc, moving, found, cl>>

\* The fetch is completed when no brick is left to do.
Complete ==
    /\ pc = "prices" /\ todo = {} /\ moving = {} /\ out = <<>>
    /\ status' = "completed"
    /\ out' = <<Completed>>
    /\ pc' = "wait"
    /\ UNCHANGED <<kind, listed, loop, reader, shown, snap, toClose, stops, ownStop,
                   clients, channels, bricks, todo, moving, found, cl>>

\* The deferred StopRuntimeSet, three seconds later: heard by an idle loop only.
StopRuntimeSet ==
    /\ pc = "wait" /\ out = <<>>
    /\ pc' = "ended"
    /\ IF listed /\ Idle THEN BeginStop(1, TRUE)
                         ELSE UNCHANGED <<loop, stops, toClose, ownStop>>
    /\ UNCHANGED <<kind, listed, status, reader, shown, snap, clients, channels, bricks,
                   todo, moving, out, found, cl>>

\* pushBatch: an item whose worker failed is left out, and an empty batch too.
ProcessItem ==
    /\ pc = "search" /\ out = <<>>
    /\ \E b \in todo : todo' = todo \ {b} /\ out' \in {<<>>, <<Packet("data", {b})>>}
    /\ UNCHANGED <<kind, runtime, channels, bricks, pc, moving, found, cl>>

\* SignalComplete when all is done, or SignalError after a panic at any point.
EndSearch ==
    /\ pc = "search" /\ out = <<>>
    /\ \/ todo = {} /\ out' = <<Completed>>
       \/ out' = <<Failed>>
    /\ pc' = "ended"
    /\ UNCHANGED <<kind, runtime, channels, bricks, todo, moving, found, cl>>

Producer ==
    \/ PushLookup \/ PushSend \/ Begin \/ FetchInventory \/ FetchFails
    \/ StoreBrick \/ FetchBricks \/ RemoveMissing \/ AppendFinal \/ KeepMissing
    \/ Complete \/ StopRuntimeSet \/ ProcessItem \/ EndSearch

-----------------------------------------------------------------------------
(* The websocket client. *)

ClientOnly(c, r) ==
    /\ cl' = [cl EXCEPT ![c] = r]
    /\ UNCHANGED <<kind, runtime, bricks, producer>>

\* The handler finds the runtime and upgrades the connection.
Connect(c) ==
    /\ cl[c].conn = "none" /\ listed
    /\ ClientOnly(c, [cl[c] EXCEPT !.conn = "upgraded"])
    /\ UNCHANGED channels

\* NewBaseClient: registers, then starts both pumps.
Register(c) ==
    /\ cl[c].conn = "upgraded" /\ Len(register) < ClientCap
    /\ register' = Append(register, c)
    /\ ClientOnly(c, [cl[c] EXCEPT !.conn = "open", !.read = "reading",
                                   !.write = "running"])
    /\ UNCHANGED <<unregister, changes>>

\* The write pump takes a message, ...
Take(c) ==
    /\ cl[c].write = "running" /\ cl[c].hand = <<>> /\ cl[c].send # <<>>
    /\ ClientOnly(c, [cl[c] EXCEPT !.hand = <<Head(cl[c].send)>>, !.send = Tail(@)])
    /\ UNCHANGED channels

\* ... and writes it to an open connection.  It ends with the close message, ...
Written(c) ==
    /\ cl[c].hand # <<>> /\ cl[c].conn = "open"
    /\ LET message == Head(cl[c].hand) IN
         ClientOnly(c, IF message = Close
                         THEN WriteClosed(cl[c])
                         ELSE [cl[c] EXCEPT !.hand = <<>>,
                                            !.seen = @ \cup message.items,
                                            !.told = @ \/ Ends(message)])
    /\ UNCHANGED channels

\* ... or when a message or a ping cannot be written.
WriteFails(c) ==
    /\ cl[c].write = "running" /\ cl[c].conn = "closed"
    /\ ClientOnly(c, WriteEnded(cl[c]))
    /\ UNCHANGED channels

\* The timer of a Close().
TimerKnocks(c) ==
    /\ cl[c].timer
    /\ ClientOnly(c, Knocked([cl[c] EXCEPT !.timer = FALSE]))
    /\ UNCHANGED channels

\* A fault: the read pump leaves the connection open.
LeaveOpen(c) ==
    /\ cl[c].read = "reading"
    /\ ClientOnly(c, [cl[c] EXCEPT !.read = "leaving"])
    /\ UNCHANGED channels

\* The read pump ends: the peer has gone, it has answered no ping for a while, or
\* the write pump has ended and left a deadline behind.  It closes the connection, ...
ReadFails(c) ==
    /\ cl[c].read = "reading"
    /\ ClientOnly(c, [cl[c] EXCEPT !.read = "leaving", !.conn = "closed"])
    /\ UNCHANGED channels

\* ... tells the runtime, for which it blocks while the channel is full, ...
Unregister(c) ==
    /\ cl[c].read = "leaving" /\ Len(unregister) < ClientCap
    /\ unregister' = Append(unregister, c)
    /\ ClientOnly(c, [cl[c] EXCEPT !.read = "left"])
    /\ UNCHANGED <<register, changes>>

\* ... and knocks at the write pump and closes the client.
ReadEnds(c) ==
    /\ cl[c].read = "left"
    /\ ClientOnly(c, [Closed(Knocked(cl[c])) EXCEPT !.read = "ended"])
    /\ UNCHANGED channels

Write(c) == Take(c) \/ Written(c) \/ WriteFails(c)
Read(c)  == Unregister(c) \/ ReadEnds(c)

Client(c) ==
    \/ Connect(c) \/ Register(c) \/ Write(c) \/ TimerKnocks(c)
    \/ ReadFails(c) \/ Read(c)

-----------------------------------------------------------------------------

Next ==
    \/ HandleConnect \/ HandleDisconnect \/ HandleChange \/ Expire \/ Timeout
    \/ Loop
    \/ OtherStop \/ Replace
    \/ Producer
    \/ \E c \in Clients : Client(c)

\* Upstream calls return.  The activity timer ends a loop that is in its select
\* again and again: a Go select picks at random among its ready cases, and only so
\* many clients and changes reset the timer.  A peer takes what is written to it or
\* its connection fails, and a read pump outlives the write pump by one deadline.
Fairness ==
    /\ WF_vars(Producer)
    /\ WF_vars(Loop) /\ SF_vars(Timeout)
    /\ \A c \in Clients :
         /\ WF_vars(Write(c)) /\ WF_vars(Read(c))
         /\ WF_vars(cl[c].write = "ended" /\ ReadFails(c))

Spec == Init /\ [][Next]_vars /\ Fairness

-----------------------------------------------------------------------------

Messages == [type : {"data", "news", "early", "completed", "failed", "close"},
             items : SUBSET Items]

\* The state has its types and the channels keep their capacities.
TypeOK ==
    /\ kind \in Kinds /\ listed \in BOOLEAN /\ found \in BOOLEAN
    /\ {status, shown} \subseteq {"fetching", "completed", "failed"}
    /\ loop \in {"select", "reading", "closing", "ended"}
    /\ reader \in Clients \cup {All}
    /\ {snap, final, missing, todo, moving} \subseteq SUBSET Items
    /\ {toClose, clients} \subseteq SUBSET Clients
    /\ stops \in 0..2 /\ ownStop \in BOOLEAN
    /\ {register, unregister} \subseteq Seq(Clients)
    /\ Len(register) <= ClientCap /\ Len(unregister) <= ClientCap
    /\ {changes, out} \subseteq Seq(Messages) /\ Len(changes) <= ChangeCap
    /\ pc \in {"begin", "fetch", "inventory", "prices", "wait", "search", "ended"}
    /\ cl \in [Clients ->
                [conn : {"none", "upgraded", "open", "closed"},
                 read : {"none", "reading", "leaving", "left", "ended"},
                 write : {"none", "running", "ended"},
                 send : Seq(Messages), hand : Seq(Messages), failures : 0..MaxFailures,
                 timer : BOOLEAN, seen : SUBSET Items, told : BOOLEAN, lost : BOOLEAN,
                 dismissed : BOOLEAN, bye : BOOLEAN]]
    /\ \A c \in Clients : Len(cl[c].send) <= SendCap

Found == final \cup missing

\* What the client has seen, or what is on its way to it.
Reaching(c) ==
    cl[c].seen \cup ItemsOf(cl[c].hand) \cup ItemsOf(cl[c].send)
      \cup ItemsOf(changes) \cup ItemsOf(out)
      \cup (IF loop = "reading" /\ reader = c THEN BricksRead ELSE {})

\* Whenever a client connects, with progress already queued and bricks moving from
\* the missing to the final ones, no brick of the set falls between its first
\* packet and the progress that follows, as long as it loses no packet (handler.go:
\* PushBatchProgress; runtime.go: handleClientConnect).
NothingMissed ==
    TypeOK /\ (IsSet /\ listed /\ loop # "ended" =>
        \A c \in clients :
            cl[c].write = "running" /\ cl[c].conn = "open" /\ ~cl[c].lost
              => Found \subseteq Reaching(c))

\* The client has been told how the fetch ended, or is about to be.
EndReaching(c) ==
    \/ cl[c].told \/ EndIn(cl[c].hand) \/ EndIn(cl[c].send)
    \/ EndIn(changes) \/ EndIn(out)
    \/ loop = "reading" /\ (reader = All \/ (reader = c /\ shown # "fetching"))

\* The packet of a completed set, or the first one after it, brings all the bricks,
\* whatever progress the client has lost, and though status and bricks are read one
\* after the other while the fetch changes both ("send final data to make sure
\* clients have everything", fetch_operations.go:74).  An update that is handled late
\* may announce the end without bricks, but never instead of that packet: once the
\* fetch is over, every client that lost nothing has been told so or will be.
FinalIsWhole ==
    IsSet =>
        /\ \A c \in Clients : \A i \in DOMAIN cl[c].send :
             cl[c].send[i].type = "completed" =>
                 cl[c].send[i].items = Found /\ moving = {}
        /\ pc \in {"wait", "ended"} /\ listed /\ loop # "ended" =>
             \A c \in clients :
                 cl[c].write = "running" /\ cl[c].conn = "open" /\ ~cl[c].lost
                   => EndReaching(c)

\* "send final data to make sure clients have everything" (fetch_operations.go:74):
\* a packet that says the set is completed has its bricks.
CompletedHasBricks ==
    IsSet /\ status = "completed" => \A c \in Clients : \A i \in DOMAIN cl[c].send :
        cl[c].send[i].type \in {"early", "completed"} => cl[c].send[i].items = Found

\* The fetch's own stop says goodbye to nobody too early: a client that lost no
\* packet and was not thrown out knows how the fetch ended and has seen every
\* brick when it is sent the close message.
WholeAtGoodbye ==
    IsSet /\ ownStop =>
        \A c \in Clients :
            cl[c].bye => cl[c].told /\ Found \subseteq cl[c].seen

\* Neither pump of a client outlives the other, whether its buffer is full or its
\* writer busy, and whether or not the runtime's loop still runs.
PumpsEndTogether ==
    \A c \in Clients :
        cl[c].read = "leaving" \/ cl[c].write = "ended"
          ~> cl[c].read = "ended" /\ cl[c].write = "ended"

\* The goroutine that fetches comes to its end, unless the loop has ended under it
\* and the channel of changes is full.
FetchFreed ==
    <>(\/ pc = "ended" /\ out = <<>>
       \/ loop = "ended" /\ Len(changes) = ChangeCap)

=============================================================================
