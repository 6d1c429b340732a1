--------------------------- MODULE ClientStreamProofs --------------------------
(***************************************************************************)
(* What reaches the browsers of a runtime set, for any clients, bricks,    *)
(* channel capacities and send buffers.  The proof follows a brick and the *)
(* word of the end from the fetch to the client: in the fetch's hands, in  *)
(* the channel of changes, in what the loop is reading, in the client's    *)
(* buffer, in its writer's hand, seen.  Each step of a client or of the    *)
(* loop hands on what the client holds, unless the client has lost a       *)
(* packet or its connection (Keeps), so that only the steps that find a    *)
(* brick, connect a client or read the bricks say anything new.            *)
(***************************************************************************)
EXTENDS ClientStream, TLAPS

In(s, x) == \E i \in DOMAIN s : s[i] = x

\* The close message is in queue s.
CloseIn(s) == \E i \in DOMAIN s : s[i].type = "close"

ClientState ==
    [conn : {"none", "upgraded", "open", "closed"},
     read : {"none", "reading", "leaving", "left", "ended"},
     write : {"none", "running", "ended"},
     send : Seq(Messages), hand : Seq(Messages), failures : 0..MaxFailures,
     timer : BOOLEAN, seen : SUBSET Items, told : BOOLEAN, lost : BOOLEAN,
     dismissed : BOOLEAN, bye : BOOLEAN]

\* A client state whose buffer fits, and whose writer has one message in hand.
ClientOK(r) == r \in ClientState /\ Len(r.send) <= SendCap /\ Len(r.hand) <= 1

\* TypeOK, one variable at a time.
RuntimeTyped ==
    /\ kind \in Kinds /\ listed \in BOOLEAN
    /\ status \in {"fetching", "completed", "failed"} /\ shown \in {"fetching", "completed", "failed"}
    /\ loop \in {"select", "reading", "closing", "ended"}
    /\ reader \in Clients \cup {All}
    /\ snap \subseteq Items
    /\ toClose \subseteq Clients /\ clients \subseteq Clients
    /\ stops \in 0..2 /\ ownStop \in BOOLEAN

ChannelsTyped ==
    /\ register \in Seq(Clients) /\ Len(register) <= ClientCap
    /\ unregister \in Seq(Clients) /\ Len(unregister) <= ClientCap
    /\ changes \in Seq(Messages) /\ Len(changes) <= ChangeCap /\ ~CloseIn(changes)

ProducerTyped ==
    /\ final \subseteq Items /\ missing \subseteq Items
    /\ todo \subseteq Items /\ moving \subseteq Items
    /\ out \in Seq(Messages) /\ ~CloseIn(out) /\ found \in BOOLEAN
    /\ pc \in {"begin", "fetch", "inventory", "prices", "wait", "search", "ended"}

ClientsTyped ==
    cl \in [Clients -> ClientState] /\ \A c \in Clients : ClientOK(cl[c])

Typed == RuntimeTyped /\ ChannelsTyped /\ ProducerTyped /\ ClientsTyped

----------------------------------------------------------------------------
(* What a client holds, and what of it a step keeps *)

\* It is served: its packets are written, and it has lost none.
Good(r) == r.write = "running" /\ r.conn = "open" /\ ~r.lost

\* It has not been thrown out either.
Fine(r) == Good(r) /\ ~r.dismissed

Held(r)    == r.seen \cup ItemsOf(r.hand) \cup ItemsOf(r.send)
HeldEnd(r) == r.told \/ EndIn(r.hand) \/ EndIn(r.send)

\* No close message is on its way to it, or nothing is behind the message.
Quiet(r)     == ~CloseIn(r.hand) /\ ~CloseIn(r.send)
CloseLast(r) ==
    /\ CloseIn(r.hand) => r.send = <<>>
    /\ \A i \in DOMAIN r.send : r.send[i].type = "close" => i = Len(r.send)

\* From r to n nothing the client holds is lost, unless it is no longer served.
Keeps(r, n) ==
    /\ Good(n) => Good(r) /\ Held(r) \subseteq Held(n) /\ (HeldEnd(r) => HeldEnd(n))
    /\ Fine(n) => Fine(r)

----------------------------------------------------------------------------
(* The invariant of a runtime set *)

\* Who is connected, registered and served.
Registered ==
    /\ \A c \in Clients :
        /\ c \in clients \/ In(register, c) => cl[c].conn \in {"open", "closed"}
        /\ In(unregister, c) => cl[c].conn = "closed"
        /\ cl[c].read \in {"leaving", "left", "ended"} => cl[c].conn = "closed"
        /\ cl[c].conn # "closed" /\ c \notin clients => cl[c].send = <<>> /\ cl[c].hand = <<>>
        /\ cl[c].hand # <<>> => cl[c].write = "running"
        /\ cl[c].bye => cl[c].write = "ended" /\ cl[c].conn \in {"open", "closed"}

\* Where the loop is.
Looping ==
    /\ toClose \subseteq clients
    /\ loop \in {"select", "reading"} => stops = 0 /\ toClose = {} /\ ~ownStop
    /\ loop = "reading" => reader \in clients \cup {All}
    /\ loop = "closing" /\ stops = 0 => ~ownStop
    /\ stops <= 1
    /\ ownStop => pc = "ended" /\ out = <<>> /\ changes = <<>>

\* Where the bricks are.
Bricks ==
    /\ final \cap missing = {} /\ moving \cap (final \cup missing) = {}
    /\ moving # {} => pc = "prices" /\ out = <<>>
    /\ pc = "begin" => out = <<>> /\ todo = {}
    /\ pc \in {"begin", "fetch"} /\ kind = "complete" => final = {} /\ missing = {}
    /\ pc = "fetch" => kind = "complete"
    /\ pc = "inventory" => todo \cap (final \cup missing) = {}
    /\ pc = "prices" => todo \subseteq missing
    /\ pc # "search"
    /\ pc \in {"wait", "ended"} => status # "fetching"
    /\ status = "completed" => pc \in {"begin", "wait", "ended"}

\* The fetch has completed, not an earlier one.
Over == status = "completed" /\ pc \in {"wait", "ended"}

ChangeOK(m) == m.type = "completed" => m.items = {} /\ Over

\* What changes and packets say of the end is so.
Words ==
    /\ \A i \in DOMAIN changes : ChangeOK(changes[i])
    /\ \A i \in DOMAIN out : ChangeOK(out[i])
    /\ loop = "reading" /\ (reader = All \/ shown = "completed") => Over /\ snap = final
    /\ \A c \in Clients : \A i \in DOMAIN cl[c].send :
          cl[c].send[i].type = "completed" => Over /\ cl[c].send[i].items = Found

\* Bricks on their way to c from the loop and the fetch, ...
Coming(c) == ItemsOf(changes) \cup ItemsOf(out)
               \cup (IF loop = "reading" /\ reader = c THEN BricksRead ELSE {})

\* ... and the word of the end.
EndComing(c) ==
    \/ EndIn(changes) \/ EndIn(out)
    \/ loop = "reading" /\ (reader = All \/ (reader = c /\ shown # "fetching"))

Served ==
    listed /\ loop # "ended" =>
        \A c \in clients : Good(cl[c]) =>
            /\ Found \subseteq Held(cl[c]) \cup Coming(c)
            /\ pc \in {"wait", "ended"} => HeldEnd(cl[c]) \/ EndComing(c)

\* From the fetch's own stop on.
Farewell ==
    ownStop => \A c \in clients : Good(cl[c]) => Found \subseteq Held(cl[c]) /\ HeldEnd(cl[c])

\* Close messages to clients that were served all along.
Closing ==
    \A c \in Clients :
        /\ Fine(cl[c]) => CloseLast(cl[c]) /\ (loop # "ended" => Quiet(cl[c]))
        /\ cl[c].bye => loop = "ended" /\ (ownStop => cl[c].told /\ Found \subseteq cl[c].seen)

SetInv == Registered /\ Looping /\ Bricks /\ Words /\ Served /\ Farewell /\ Closing

StreamInv == Typed /\ (IsSet => SetInv)

----------------------------------------------------------------------------
(* Packets and queues *)

\* What a packet is made of.
LEMMA PacketFacts ==
    /\ \A type \in {"data", "news", "early", "completed", "failed", "close"}, items \in SUBSET Items :
         /\ Packet(type, items) \in Messages
         /\ Packet(type, items).type = type /\ Packet(type, items).items = items
    /\ {Update, News, Completed, Failed, Close} \subseteq Messages
    /\ Update.type = "data" /\ News.type = "news" /\ Completed.type = "completed"
    /\ Failed.type = "failed" /\ Close.type = "close"
    /\ {Update.items, News.items, Completed.items, Failed.items, Close.items} = {{}}
BY DEF Packet, Messages, Update, News, Completed, Failed, Close

\* Queue t holds what queue q and packet m hold.
Adds(q, m, t) ==
    /\ ItemsOf(t) = ItemsOf(q) \cup m.items
    /\ EndIn(t) <=> EndIn(q) \/ Ends(m)
    /\ CloseIn(t) <=> CloseIn(q) \/ m.type = "close"

\* An empty queue holds nothing.
LEMMA QueueEmpty ==
    ItemsOf(<<>>) = {} /\ ~EndIn(<<>>) /\ ~CloseIn(<<>>)
BY DEF ItemsOf, EndIn, CloseIn

\* A longer queue.
LEMMA QueueAppend ==
    ASSUME NEW q \in Seq(Messages), NEW m \in Messages
    PROVE  /\ Append(q, m) \in Seq(Messages) /\ Len(Append(q, m)) = Len(q) + 1
           /\ Append(q, m) # <<>>
           /\ \A i \in DOMAIN Append(q, m) :
                \/ i \in DOMAIN q /\ Append(q, m)[i] = q[i]
                \/ i = Len(Append(q, m)) /\ Append(q, m)[i] = m
           /\ Adds(q, m, Append(q, m))
<1> DEFINE t == Append(q, m)
<1>1. t \in Seq(Messages) /\ Len(t) = Len(q) + 1 /\ t # <<>>
  <2>1. t \in Seq(Messages) /\ Len(t) = Len(q) + 1 /\ Len(q) \in Nat
    OBVIOUS
  <2>2. Len(<<>>) = 0
    OBVIOUS
  <2> QED BY <2>1, <2>2
<1>2. DOMAIN t = 1..Len(q) + 1 /\ DOMAIN q = 1..Len(q) /\ Len(q) \in Nat
  OBVIOUS
<1>3. (\A i \in DOMAIN q : t[i] = q[i]) /\ t[Len(q) + 1] = m
  OBVIOUS
<1>4. DOMAIN t = DOMAIN q \cup {Len(q) + 1}
  BY <1>2
<1>5. \A i \in DOMAIN t : (i \in DOMAIN q /\ t[i] = q[i]) \/ (i = Len(t) /\ t[i] = m)
  BY <1>1, <1>3, <1>4
<1> HIDE DEF t
<1>6. ItemsOf(t) = ItemsOf(q) \cup m.items
  BY <1>3, <1>4 DEF ItemsOf
<1>7. (EndIn(t) <=> EndIn(q) \/ Ends(m)) /\ (CloseIn(t) <=> CloseIn(q) \/ m.type = "close")
  BY <1>3, <1>4 DEF EndIn, Ends, CloseIn
<1> QED BY <1>1, <1>5, <1>6, <1>7 DEF t, Adds

\* A queue is its head and the rest.
LEMMA QueueTail ==
    ASSUME NEW q \in Seq(Messages), q # <<>>
    PROVE  /\ Head(q) \in Messages /\ Tail(q) \in Seq(Messages)
           /\ Len(Tail(q)) = Len(q) - 1 /\ Len(q) \in Nat \ {0}
           /\ Head(q) = q[1] /\ 1 \in DOMAIN q
           /\ \A i \in DOMAIN Tail(q) : i + 1 \in DOMAIN q /\ Tail(q)[i] = q[i + 1]
           /\ Adds(Tail(q), Head(q), q)
<1> DEFINE t == Tail(q)
<1>1. t \in Seq(Messages) /\ Len(t) = Len(q) - 1 /\ Len(q) \in Nat \ {0} /\ Head(q) \in Messages
  OBVIOUS
<1>2. DOMAIN q = 1..Len(q) /\ DOMAIN t = 1..Len(q) - 1 /\ Head(q) = q[1] /\ 1 \in DOMAIN q
  BY <1>1
<1>3. \A i \in DOMAIN t : i + 1 \in DOMAIN q /\ t[i] = q[i + 1]
  BY <1>1, <1>2
<1>4. \A i \in DOMAIN q : i # 1 => i - 1 \in DOMAIN t /\ q[i] = t[i - 1]
  <2> TAKE i \in DOMAIN q
  <2> HAVE i # 1
  <2>1. i - 1 \in DOMAIN t /\ (i - 1) + 1 = i
    BY <1>1, <1>2
  <2> QED BY <1>3, <2>1
<1> HIDE DEF t
<1>5. ItemsOf(q) = ItemsOf(t) \cup Head(q).items
  <2>1. ASSUME NEW x \in ItemsOf(q)
        PROVE  x \in ItemsOf(t) \cup Head(q).items
    <3>1. PICK i \in DOMAIN q : x \in q[i].items
      BY <2>1 DEF ItemsOf
    <3> QED BY <1>2, <1>4, <3>1 DEF ItemsOf
  <2>2. ASSUME NEW x \in ItemsOf(t)
        PROVE  x \in ItemsOf(q)
    <3>1. PICK i \in DOMAIN t : x \in t[i].items
      BY <2>2 DEF ItemsOf
    <3> QED BY <1>3, <3>1 DEF ItemsOf
  <2>3. Head(q).items \subseteq ItemsOf(q)
    BY <1>2 DEF ItemsOf
  <2> QED BY <2>1, <2>2, <2>3
<1>6. EndIn(q) <=> EndIn(t) \/ Ends(Head(q))
  BY <1>2, <1>3, <1>4, ZenonT(30) DEF EndIn, Ends
<1>7. CloseIn(q) <=> CloseIn(t) \/ Head(q).type = "close"
  BY <1>2, <1>3, <1>4, ZenonT(30) DEF CloseIn
<1> QED BY <1>1, <1>2, <1>3, <1>5, <1>6, <1>7 DEF t, Adds

\* One packet, and two.
LEMMA QueueSmall ==
    ASSUME NEW m \in Messages, NEW n \in Messages
    PROVE  /\ <<m>> \in Seq(Messages) /\ Len(<<m>>) = 1 /\ <<m, n>> \in Seq(Messages)
           /\ <<m>> # <<>> /\ <<m, n>> # <<>>
           /\ ItemsOf(<<m>>) = m.items /\ (EndIn(<<m>>) <=> Ends(m))
           /\ (CloseIn(<<m>>) <=> m.type = "close")
           /\ ItemsOf(<<m, n>>) = m.items \cup n.items
           /\ (EndIn(<<m, n>>) <=> Ends(m) \/ Ends(n))
           /\ \A i \in DOMAIN <<m>> : <<m>>[i] = m
           /\ \A i \in DOMAIN <<m, n>> : <<m, n>>[i] \in {m, n}
<1>1. DOMAIN <<m>> = {1} /\ <<m>>[1] = m
  OBVIOUS
<1>2. DOMAIN <<m, n>> = {1, 2} /\ <<m, n>>[1] = m /\ <<m, n>>[2] = n
  OBVIOUS
<1>3. <<m>> \in Seq(Messages) /\ Len(<<m>>) = 1 /\ <<m, n>> \in Seq(Messages)
      /\ <<m>> # <<>> /\ <<m, n>> # <<>>
  OBVIOUS
<1>4. ItemsOf(<<m>>) = m.items /\ ItemsOf(<<m, n>>) = m.items \cup n.items
  BY <1>1, <1>2 DEF ItemsOf
<1>5. (EndIn(<<m>>) <=> Ends(m)) /\ (CloseIn(<<m>>) <=> m.type = "close")
      /\ (EndIn(<<m, n>>) <=> Ends(m) \/ Ends(n))
  BY <1>1, <1>2 DEF EndIn, CloseIn, Ends
<1>6. (\A i \in DOMAIN <<m>> : <<m>>[i] = m) /\ (\A i \in DOMAIN <<m, n>> : <<m, n>>[i] \in {m, n})
  BY <1>1, <1>2
<1> QED BY <1>3, <1>4, <1>5, <1>6

----------------------------------------------------------------------------
(* What the operations of a client keep *)

\* The part of a client that sending and closing leave alone.
SameSide(r, n) == n.conn = r.conn /\ n.read = r.read /\ n.write = r.write /\ n.bye = r.bye

\* Client n is r, which was handed packet m unless it has no writer or no room.
Given(r, m, n) ==
    /\ ClientOK(n) /\ SameSide(r, n) /\ Keeps(r, n)
    /\ n.dismissed = r.dismissed /\ n.hand = r.hand
    /\ Good(n) => m.items \subseteq Held(n) /\ (Ends(m) => HeldEnd(n))
    /\ n.send = r.send \/ n.send = Append(r.send, m)

\* The capacities, and a name that is no client.
LEMMA Capacities ==
    /\ ClientCap \in Nat /\ ChangeCap \in Nat \ {0} /\ SendCap \in Nat \ {0}
    /\ MaxFailures \in Nat \ {0} /\ All \notin Clients
BY ClientStreamAssumption

\* SendPacket hands a client its packet, drops it, or finds no writer.
LEMMA GivenBySent ==
    ASSUME Typed, NEW c \in Clients, NEW m \in Messages
    PROVE  Given(cl[c], m, Sent(c, m))
<1>a. PICK r : r = cl[c]
  OBVIOUS
<1>b. PICK n : n = Sent(c, m)
  OBVIOUS
<1> SUFFICES Given(r, m, n)
  BY <1>a, <1>b
<1>1. ClientOK(r)
  BY <1>a DEF Typed, ClientsTyped
<1>2. CASE r.write = "ended"
  <2>1. n = r
    BY <1>a, <1>b, <1>2 DEF Sent
  <2> QED BY <1>1, <1>2, <2>1 DEF Given, SameSide, Keeps, Good, Fine
<1>3. CASE r.write # "ended" /\ Full(c)
  <2>1. n = [r EXCEPT !.failures = IF @ < MaxFailures THEN @ + 1 ELSE @, !.lost = TRUE]
    BY <1>a, <1>b, <1>3 DEF Sent
  <2>2. ClientOK(n)
    <3>1. (IF r.failures < MaxFailures THEN r.failures + 1 ELSE r.failures) \in 0..MaxFailures
      BY <1>1, Capacities DEF ClientOK, ClientState
    <3> QED BY <1>1, <2>1, <3>1 DEF ClientOK, ClientState
  <2>3. /\ SameSide(r, n) /\ n.lost /\ n.dismissed = r.dismissed /\ n.hand = r.hand
        /\ n.send = r.send /\ n.seen = r.seen /\ n.told = r.told
    BY <1>1, <2>1 DEF ClientOK, ClientState, SameSide
  <2> QED BY <2>2, <2>3 DEF Given, Keeps, Good, Fine, SameSide
<1>4. CASE r.write # "ended" /\ ~Full(c)
  <2>1. n = [r EXCEPT !.send = Append(@, m), !.failures = 0]
    BY <1>a, <1>b, <1>4 DEF Sent
  <2>2. /\ SameSide(r, n) /\ n.lost = r.lost /\ n.dismissed = r.dismissed /\ n.hand = r.hand
        /\ n.send = Append(r.send, m) /\ n.seen = r.seen /\ n.told = r.told
    BY <1>1, <2>1 DEF ClientOK, ClientState, SameSide
  <2>3. r.send \in Seq(Messages) /\ Len(r.send) < SendCap
    BY <1>a, <1>1, <1>4, Capacities DEF ClientOK, ClientState, Full
  <2>4. Adds(r.send, m, n.send) /\ n.send \in Seq(Messages) /\ Len(n.send) <= SendCap
    BY <2>2, <2>3, QueueAppend, Capacities
  <2>5. n \in ClientState
    <3>1. Append(r.send, m) \in Seq(Messages) /\ 0 \in 0..MaxFailures
      BY <2>2, <2>4, Capacities
    <3> QED BY <1>1, <2>1, <3>1 DEF ClientOK, ClientState
  <2>6. ClientOK(n)
    BY <1>1, <2>2, <2>4, <2>5 DEF ClientOK
  <2>7. /\ Held(n) = Held(r) \cup m.items
        /\ HeldEnd(n) <=> HeldEnd(r) \/ Ends(m)
    BY <2>2, <2>4 DEF Held, HeldEnd, Adds
  <2>8. Keeps(r, n)
    BY <2>2, <2>7 DEF Keeps, Good, Fine, SameSide
  <2> QED BY <2>2, <2>6, <2>7, <2>8 DEF Given
<1> QED BY <1>2, <1>3, <1>4

\* Closing a client may add the close message to its buffer.
Shut(r, n) ==
    /\ ClientOK(n) /\ SameSide(r, n) /\ Keeps(r, n)
    /\ n.dismissed = r.dismissed /\ n.hand = r.hand
    /\ n.send = r.send \/ n.send = Append(r.send, Close)

\* Close() adds the close message if there is room for it.
LEMMA ShutByClosed ==
    ASSUME NEW r, ClientOK(r)
    PROVE  Shut(r, Closed(r))
<1>a. PICK n : n = Closed(r)
  OBVIOUS
<1> SUFFICES Shut(r, n)
  BY <1>a
<1>1. CASE r.write = "ended"
  BY <1>a, <1>1 DEF Closed, Shut, SameSide, Keeps, Good, Fine
<1>2. CASE r.write # "ended" /\ Len(r.send) < SendCap
  <2>1. n = [r EXCEPT !.send = Append(@, Close), !.timer = TRUE]
    BY <1>a, <1>2 DEF Closed
  <2>2. /\ SameSide(r, n) /\ n.lost = r.lost /\ n.dismissed = r.dismissed /\ n.hand = r.hand
        /\ n.send = Append(r.send, Close) /\ n.seen = r.seen /\ n.told = r.told
    BY <2>1 DEF ClientOK, ClientState, SameSide
  <2>3. r.send \in Seq(Messages) /\ Close \in Messages /\ Len(r.send) \in Nat
    BY PacketFacts DEF ClientOK, ClientState
  <2>4. Adds(r.send, Close, n.send) /\ n.send \in Seq(Messages) /\ Len(n.send) <= SendCap
    BY <1>2, <2>2, <2>3, QueueAppend, Capacities
  <2>5. n \in ClientState
    BY <2>1, <2>2, <2>4 DEF ClientOK, ClientState
  <2>6. ClientOK(n)
    BY <2>2, <2>4, <2>5 DEF ClientOK
  <2>7. Held(r) \subseteq Held(n) /\ (HeldEnd(r) => HeldEnd(n))
    BY <2>2, <2>4 DEF Held, HeldEnd, Adds
  <2> QED BY <2>2, <2>6, <2>7 DEF Shut, Keeps, Good, Fine, SameSide
<1>3. CASE r.write # "ended" /\ ~(Len(r.send) < SendCap)
  <2>1. n = [r EXCEPT !.send = @, !.timer = TRUE]
    BY <1>a, <1>3 DEF Closed
  <2>2. /\ SameSide(r, n) /\ n.lost = r.lost /\ n.dismissed = r.dismissed /\ n.hand = r.hand
        /\ n.send = r.send /\ n.seen = r.seen /\ n.told = r.told
    BY <2>1 DEF ClientOK, ClientState, SameSide
  <2>3. ClientOK(n)
    BY <2>1 DEF ClientOK, ClientState
  <2>4. Held(r) \subseteq Held(n) /\ (HeldEnd(r) => HeldEnd(n))
    BY <2>2 DEF Held, HeldEnd
  <2> QED BY <2>2, <2>3, <2>4 DEF Shut, Keeps, Good, Fine, SameSide
<1> QED BY <1>1, <1>2, <1>3

\* A writer that ends takes nothing along but what its client has seen, or not even that.
Parted(r, n) ==
    /\ ClientOK(n) /\ n.write = "ended" /\ n.conn = r.conn /\ n.read = r.read
    /\ n.send = <<>> /\ n.hand = <<>>

\* A writer that fails, or is knocked at.
LEMMA PartedByEnd ==
    ASSUME NEW r, ClientOK(r)
    PROVE  Parted(r, WriteEnded(r)) /\ WriteEnded(r).bye = r.bye
<1> DEFINE n == WriteEnded(r)
<1>1. n = [r EXCEPT !.write = "ended", !.send = <<>>, !.hand = <<>>, !.timer = FALSE,
              !.failures = 0, !.seen = {}, !.told = FALSE, !.lost = FALSE, !.dismissed = FALSE]
  BY DEF WriteEnded
<1>2. <<>> \in Seq(Messages) /\ Len(<<>>) = 0 /\ 0 \in 0..MaxFailures
  BY Capacities
<1>3. n \in ClientState
  BY <1>1, <1>2 DEF ClientOK, ClientState
<1>4. /\ n.write = "ended" /\ n.conn = r.conn /\ n.read = r.read /\ n.bye = r.bye
      /\ n.send = <<>> /\ n.hand = <<>>
  BY <1>1 DEF ClientOK, ClientState
<1>5. ClientOK(n)
  BY <1>2, <1>3, <1>4, Capacities DEF ClientOK
<1> QED BY <1>4, <1>5 DEF Parted

\* A writer that has written the close message.
LEMMA PartedByClose ==
    ASSUME NEW r, ClientOK(r)
    PROVE  /\ Parted(r, WriteClosed(r))
           /\ WriteClosed(r).bye => \/ r.bye
                                    \/ /\ ~r.lost /\ ~r.dismissed
                                       /\ WriteClosed(r).seen = r.seen
                                       /\ WriteClosed(r).told = r.told
<1> DEFINE n == WriteClosed(r)
           e == WriteEnded(r)
<1>1. Parted(r, e) /\ e.bye = r.bye
  BY PartedByEnd
<1>2. CASE r.lost \/ r.dismissed
  BY <1>1, <1>2 DEF WriteClosed
<1>3. CASE ~(r.lost \/ r.dismissed)
  <2>1. n = [e EXCEPT !.bye = TRUE, !.seen = r.seen, !.told = r.told]
    BY <1>3 DEF WriteClosed
  <2>2. ClientOK(e) /\ ClientOK(r)
    BY <1>1 DEF Parted
  <2> HIDE DEF e, n
  <2>3. n \in ClientState
    BY <2>1, <2>2 DEF ClientOK, ClientState
  <2>4. /\ n.write = e.write /\ n.conn = e.conn /\ n.read = e.read /\ n.send = e.send
        /\ n.hand = e.hand /\ n.seen = r.seen /\ n.told = r.told
    BY <2>1, <2>2 DEF ClientOK, ClientState
  <2>5. Parted(r, n)
    BY <1>1, <2>2, <2>3, <2>4 DEF Parted, ClientOK
  <2> QED BY <1>3, <2>4, <2>5 DEF n
<1> QED BY <1>2, <1>3

\* A knock ends a writer that waits for messages, and no other.
LEMMA KnockedFacts ==
    ASSUME NEW r, ClientOK(r)
    PROVE  ClientOK(Knocked(r))
           /\ (Knocked(r) = r \/ (r.write = "running" /\ Knocked(r) = WriteEnded(r)))
BY PartedByEnd DEF Knocked, Parted

----------------------------------------------------------------------------
(* Type correctness *)

\* The first state.
LEMMA TypedInit == Init => Typed
<1> SUFFICES ASSUME Init PROVE Typed
  OBVIOUS
<1>1. RuntimeTyped
  <2>1. status \in {"fetching", "completed", "failed"} /\ stops \in 0..2
    BY DEF Init
  <2> QED BY <2>1 DEF Init, RuntimeTyped
<1>2. ChannelsTyped
  BY Capacities, QueueEmpty DEF Init, ChannelsTyped
<1>3. ProducerTyped
  <2>1. final \subseteq Items /\ missing \subseteq Items
    BY DEF Init
  <2>2. out = <<>> /\ out \in Seq(Messages)
    BY DEF Init
  <2> QED BY <2>1, <2>2, QueueEmpty DEF Init, ProducerTyped
<1>4. ClientsTyped
  <2>1. <<>> \in Seq(Messages) /\ Len(<<>>) = 0 /\ 0 \in 0..MaxFailures /\ 0 <= SendCap
    BY Capacities
  <2> DEFINE r == [conn |-> "none", read |-> "none", write |-> "none",
                   send |-> <<>>, hand |-> <<>>, failures |-> 0, timer |-> FALSE,
                   seen |-> {}, told |-> FALSE, lost |-> FALSE, dismissed |-> FALSE, bye |-> FALSE]
  <2>2. cl = [c \in Clients |-> r]
    BY DEF Init
  <2>3. r \in ClientState /\ ClientOK(r)
    BY <2>1 DEF ClientState, ClientOK
  <2> HIDE DEF r
  <2> QED BY <2>2, <2>3 DEF ClientsTyped
<1> QED BY <1>1, <1>2, <1>3, <1>4 DEF Typed

\* What a broadcast does to the clients and to the loop.
LEMMA BroadcastFacts ==
    ASSUME Typed, NEW S \in SUBSET Clients, NEW m \in Messages, Broadcast(S, m)
    PROVE  /\ ClientsTyped'
           /\ \A c \in S : Given(cl[c], m, cl'[c])
           /\ \A c \in Clients \ S : cl'[c] = cl[c]
           /\ toClose' \subseteq S /\ loop' \in {"select", "closing"}
           /\ loop' = "select" => toClose' = {}
<1>1. cl' = [c \in Clients |-> IF c \in S THEN Sent(c, m) ELSE cl[c]]
  BY DEF Broadcast
<1>2. \A c \in S : Given(cl[c], m, cl'[c])
  BY <1>1, GivenBySent
<1>3. \A c \in Clients \ S : cl'[c] = cl[c]
  BY <1>1
<1>4. \A c \in Clients : ClientOK(cl'[c])
  BY <1>2, <1>3 DEF Given, Typed, ClientsTyped
<1>5. cl' \in [Clients -> ClientState]
  <2>1. \A c \in Clients : cl'[c] \in ClientState
    BY <1>4 DEF ClientOK
  <2> QED BY <1>1, <2>1
<1>6. toClose' \subseteq S /\ loop' \in {"select", "closing"} /\ (loop' = "select" => toClose' = {})
  BY DEF Broadcast
<1> QED BY <1>2, <1>3, <1>4, <1>5, <1>6 DEF ClientsTyped

\* A step of one client.
LEMMA ClientTyped ==
    ASSUME Typed, NEW c \in Clients, NEW n, ClientOK(n), ClientOnly(c, n)
    PROVE  /\ RuntimeTyped' /\ ProducerTyped' /\ ClientsTyped'
           /\ cl'[c] = n /\ \A d \in Clients \ {c} : cl'[d] = cl[d]
<1>1. cl' = [cl EXCEPT ![c] = n] /\ cl \in [Clients -> ClientState] /\ n \in ClientState
  BY DEF ClientOnly, Typed, ClientsTyped, ClientOK
<1>2. cl'[c] = n /\ (\A d \in Clients \ {c} : cl'[d] = cl[d]) /\ cl' \in [Clients -> ClientState]
  BY <1>1
<1>3. \A d \in Clients : ClientOK(cl'[d])
  BY <1>2 DEF Typed, ClientsTyped
<1>4. RuntimeTyped' /\ ProducerTyped'
  BY DEF ClientOnly, Typed, RuntimeTyped, ProducerTyped, runtime, bricks, producer
<1> QED BY <1>2, <1>3, <1>4 DEF ClientsTyped

\* Channels of clients.
LEMMA ClientQueues ==
    ASSUME NEW q \in Seq(Clients), NEW c \in Clients
    PROVE  /\ Append(q, c) \in Seq(Clients) /\ Len(Append(q, c)) = Len(q) + 1
           /\ \A d : In(Append(q, c), d) <=> In(q, d) \/ d = c
           /\ q # <<>> => /\ Head(q) \in Clients /\ Tail(q) \in Seq(Clients)
                          /\ Len(Tail(q)) = Len(q) - 1 /\ Len(q) \in Nat \ {0}
                          /\ In(q, Head(q)) /\ \A d : In(Tail(q), d) => In(q, d)
<1>1. /\ Append(q, c) \in Seq(Clients) /\ Len(Append(q, c)) = Len(q) + 1
      /\ Len(q) \in Nat /\ DOMAIN q = 1..Len(q) /\ DOMAIN Append(q, c) = 1..Len(q) + 1
  OBVIOUS
<1>2. (\A i \in DOMAIN q : Append(q, c)[i] = q[i]) /\ Append(q, c)[Len(q) + 1] = c
  OBVIOUS
<1>3. DOMAIN Append(q, c) = DOMAIN q \cup {Len(q) + 1}
  BY <1>1
<1>4. \A d : In(Append(q, c), d) <=> In(q, d) \/ d = c
  BY <1>2, <1>3, Zenon DEF In
<1>5. ASSUME q # <<>>
      PROVE  /\ Head(q) \in Clients /\ Tail(q) \in Seq(Clients)
             /\ Len(Tail(q)) = Len(q) - 1 /\ Len(q) \in Nat \ {0}
             /\ In(q, Head(q)) /\ \A d : In(Tail(q), d) => In(q, d)
  <2>1. /\ Head(q) \in Clients /\ Tail(q) \in Seq(Clients)
        /\ Len(Tail(q)) = Len(q) - 1 /\ Len(q) \in Nat \ {0}
    BY <1>5
  <2>2. Head(q) = q[1] /\ 1 \in DOMAIN q
    BY <1>1, <2>1
  <2>3. \A i \in DOMAIN Tail(q) : i + 1 \in DOMAIN q /\ Tail(q)[i] = q[i + 1]
    BY <1>1, <2>1
  <2>4. In(q, Head(q)) /\ \A d : In(Tail(q), d) => In(q, d)
    BY <2>2, <2>3 DEF In
  <2> QED BY <2>1, <2>4
<1> QED BY <1>1, <1>4, <1>5

\* A connecting client joins the list.
LEMMA TypedConnect ==
    ASSUME Typed, HandleConnect
    PROVE  Typed'
<1> DEFINE h == Head(register)
<1>1. h \in Clients /\ Tail(register) \in Seq(Clients) /\ Len(Tail(register)) <= ClientCap
  BY ClientQueues, Capacities DEF HandleConnect, Typed, ChannelsTyped
<1>2. ChannelsTyped' /\ ProducerTyped'
  BY <1>1 DEF HandleConnect, Typed, ChannelsTyped, ProducerTyped, bricks, producer
<1>3. CASE IsSet
  BY <1>1, <1>2, <1>3 DEF HandleConnect, Said, Typed, RuntimeTyped, ProducerTyped, ClientsTyped
<1>4. CASE ~IsSet
  <2>1. Broadcast({h}, Update) /\ UNCHANGED <<kind, listed, status, stops, ownStop, reader, shown, snap>>
        /\ clients' = clients \cup {h}
    BY <1>4 DEF HandleConnect
  <2>2. ClientsTyped' /\ toClose' \subseteq {h} /\ loop' \in {"select", "closing"}
    <3>1. {h} \in SUBSET Clients /\ Update \in Messages
      BY <1>1, PacketFacts
    <3> HIDE DEF h
    <3> QED BY <2>1, <3>1, BroadcastFacts
  <2>3. RuntimeTyped'
    BY <1>1, <2>1, <2>2 DEF Typed, RuntimeTyped
  <2> QED BY <1>2, <2>2, <2>3 DEF Typed
<1> QED BY <1>3, <1>4

\* A disconnecting client leaves it.
LEMMA TypedDisconnect ==
    ASSUME Typed, HandleDisconnect
    PROVE  Typed'
<1>1. Tail(unregister) \in Seq(Clients) /\ Len(Tail(unregister)) <= ClientCap
  BY ClientQueues, Capacities DEF HandleDisconnect, Typed, ChannelsTyped
<1>2. ChannelsTyped' /\ ProducerTyped' /\ ClientsTyped'
  BY <1>1 DEF HandleDisconnect, Typed, ChannelsTyped, ProducerTyped, ClientsTyped, bricks, producer
<1>3. RuntimeTyped'
  BY DEF HandleDisconnect, Typed, RuntimeTyped
<1> QED BY <1>2, <1>3 DEF Typed

\* The head of the changes, and the rest.
LEMMA ChangeTaken ==
    ASSUME Typed, changes # <<>>
    PROVE  /\ Head(changes) \in Messages /\ Head(changes).type # "close"
           /\ Tail(changes) \in Seq(Messages) /\ Len(Tail(changes)) <= ChangeCap
           /\ ~CloseIn(Tail(changes))
<1>1. changes \in Seq(Messages) /\ Len(changes) <= ChangeCap /\ ~CloseIn(changes)
  BY DEF Typed, ChannelsTyped
<1>2. /\ Head(changes) \in Messages /\ Tail(changes) \in Seq(Messages)
      /\ Len(Tail(changes)) <= ChangeCap /\ Adds(Tail(changes), Head(changes), changes)
  BY <1>1, QueueTail, Capacities
<1> QED BY <1>1, <1>2 DEF Adds, Messages

\* A change that is read when it is handled keeps its items, and ends no fetch.
LEMMA ReadFacts ==
    ASSUME NEW m \in Messages, m.type # "close"
    PROVE  /\ AsRead(m) \in Messages /\ AsRead(m).items = m.items
           /\ AsRead(m).type # "close" /\ (Ends(AsRead(m)) <=> Ends(m))
           /\ AsRead(m).type = "completed" => m.type = "completed"
<1>1. CASE m.type = "news"
  <2>1. PICK says \in {"data", "early"} : AsRead(m) = [m EXCEPT !.type = says]
    BY <1>1 DEF AsRead
  <2>2. AsRead(m) \in Messages /\ AsRead(m).items = m.items /\ AsRead(m).type = says
    BY <2>1 DEF Messages
  <2> QED BY <1>1, <2>2 DEF Ends
<1>2. CASE m.type # "news"
  BY <1>2 DEF AsRead
<1> QED BY <1>1, <1>2

\* A change of a runtime set is broadcast, or its bricks are read.
LEMMA TypedSetChange ==
    ASSUME Typed, HandleSetChange
    PROVE  Typed'
<1>1. ChannelsTyped' /\ ProducerTyped'
  BY ChangeTaken DEF HandleSetChange, Typed, ChannelsTyped, ProducerTyped, bricks, producer
<1>2. CASE Head(changes).type = "completed"
  BY <1>1, <1>2 DEF HandleSetChange, Typed, RuntimeTyped, ProducerTyped, ClientsTyped
<1>3. CASE Head(changes).type # "completed"
  <2>1. Broadcast(clients, AsRead(Head(changes))) /\ changes # <<>>
        /\ UNCHANGED <<kind, listed, status, stops, ownStop, clients, reader, shown, snap>>
    BY <1>3 DEF HandleSetChange
  <2>2. clients \subseteq Clients
    BY DEF Typed, RuntimeTyped
  <2>3. ClientsTyped' /\ toClose' \subseteq clients /\ loop' \in {"select", "closing"}
    BY <2>1, <2>2, BroadcastFacts, ChangeTaken, ReadFacts
  <2>4. RuntimeTyped'
    BY <2>1, <2>3 DEF Typed, RuntimeTyped
  <2> QED BY <1>1, <2>3, <2>4 DEF Typed
<1> QED BY <1>2, <1>3

\* A change of a search is broadcast, the last one by a loop that stops.
LEMMA TypedSearchChange ==
    ASSUME Typed, HandleSearchChange
    PROVE  Typed'
<1> DEFINE change == Head(changes)
<1>1. ChannelsTyped' /\ ProducerTyped' /\ change \in Messages
      /\ clients \subseteq Clients
  BY ChangeTaken DEF HandleSearchChange, Typed, ChannelsTyped, ProducerTyped, RuntimeTyped, bricks, producer
<1>2. CASE ~Ends(change)
  <2>1. Broadcast(clients, change)
        /\ UNCHANGED <<kind, listed, status, stops, ownStop, clients, reader, shown, snap>>
    BY <1>2 DEF HandleSearchChange
  <2>2. ClientsTyped' /\ toClose' \subseteq clients /\ loop' \in {"select", "closing"}
    BY <1>1, <2>1, BroadcastFacts
  <2>3. RuntimeTyped'
    BY <2>1, <2>2 DEF Typed, RuntimeTyped
  <2> QED BY <1>1, <2>2, <2>3 DEF Typed
<1>3. CASE Ends(change)
  <2> DEFINE N(c) == IF c \notin clients THEN cl[c]
                     ELSE IF TooSlow(c) THEN Closed(Sent(c, change)) ELSE Sent(c, change)
  <2>1. cl' = [c \in Clients |-> N(c)] /\ BeginStop(1, TRUE) /\ status' = change.type
        /\ UNCHANGED <<kind, listed, clients, reader, shown, snap>>
    BY <1>3 DEF HandleSearchChange
  <2>2. \A c \in Clients : ClientOK(cl[c]) /\ ClientOK(Sent(c, change))
    BY <1>1, GivenBySent DEF Given, Typed, ClientsTyped
  <2>3. \A c \in Clients : ClientOK(Closed(Sent(c, change)))
    BY <2>2, ShutByClosed DEF Shut
  <2>4. \A c \in Clients : ClientOK(N(c))
    BY <2>2, <2>3
  <2> HIDE DEF N
  <2>5. ClientsTyped'
    BY <2>1, <2>4 DEF ClientsTyped, ClientOK
  <2>6. RuntimeTyped'
    BY <1>1, <1>3, <2>1 DEF Typed, RuntimeTyped, BeginStop, Ends
  <2> QED BY <1>1, <2>5, <2>6 DEF Typed
<1> QED BY <1>2, <1>3

\* The bricks have been read, for one client or for all.
LEMMA TypedFinishRead ==
    ASSUME Typed, FinishRead
    PROVE  Typed'
<1>1. ChannelsTyped' /\ ProducerTyped'
  BY DEF FinishRead, Typed, ChannelsTyped, ProducerTyped, channels, bricks, producer
<1>2. PICK S \in SUBSET Clients, says \in {"data", "completed", "failed"} :
        Broadcast(S, Packet(says, BricksRead))
  <2>1. reader # All => {reader} \in SUBSET Clients /\ Says(shown) \in {"data", "completed", "failed"}
    BY DEF Typed, RuntimeTyped, Says
  <2>2. clients \in SUBSET Clients
    BY DEF Typed, RuntimeTyped
  <2> QED BY <2>1, <2>2 DEF FinishRead
<1>3. Packet(says, BricksRead) \in Messages
  BY PacketFacts DEF BricksRead, Typed, RuntimeTyped, ProducerTyped
<1>4. ClientsTyped' /\ toClose' \subseteq S /\ loop' \in {"select", "closing"}
  BY <1>2, <1>3, BroadcastFacts
<1>5. RuntimeTyped'
  BY <1>4 DEF FinishRead, Typed, RuntimeTyped
<1> QED BY <1>1, <1>4, <1>5 DEF Typed

\* A client the loop closes, thrown out when the loop goes on.
Dismissed(c) == [Closed(cl[c]) EXCEPT !.dismissed = @ \/ (stops = 0 /\ cl[c].write # "ended")]

\* A client which the loop has closed: it may have been thrown out by that.
LEMMA CloseFacts ==
    ASSUME Typed, NEW c \in Clients
    PROVE  /\ ClientOK(Dismissed(c)) /\ SameSide(cl[c], Dismissed(c)) /\ Keeps(cl[c], Dismissed(c))
           /\ Dismissed(c).hand = cl[c].hand
           /\ Dismissed(c).send = cl[c].send \/ Dismissed(c).send = Append(cl[c].send, Close)
           /\ Fine(Dismissed(c)) => stops # 0
<1>a. PICK r : r = cl[c]
  OBVIOUS
<1>b. PICK m : m = Closed(r)
  OBVIOUS
<1>c. PICK n : n = [m EXCEPT !.dismissed = @ \/ (stops = 0 /\ r.write # "ended")]
  OBVIOUS
<1>1. ClientOK(r) /\ Shut(r, m)
  BY <1>a, <1>b, ShutByClosed DEF Typed, ClientsTyped
<1>2. m \in ClientState /\ stops \in 0..2
  BY <1>1 DEF Shut, ClientOK, Typed, RuntimeTyped
<1>3. n.dismissed = (m.dismissed \/ (stops = 0 /\ r.write # "ended"))
  BY <1>c, <1>2 DEF ClientState
<1>4. /\ n.conn = m.conn /\ n.read = m.read /\ n.write = m.write /\ n.bye = m.bye
      /\ n.send = m.send /\ n.hand = m.hand /\ n.seen = m.seen /\ n.told = m.told /\ n.lost = m.lost
  BY <1>c, <1>2 DEF ClientState
<1>5. n \in ClientState
  <2>1. (m.dismissed \/ (stops = 0 /\ r.write # "ended")) \in BOOLEAN
    BY Zenon
  <2> QED BY <1>c, <1>2, <2>1, Zenon DEF ClientState
<1>6. ClientOK(n)
  BY <1>1, <1>4, <1>5 DEF ClientOK, Shut
<1>7. SameSide(r, n) /\ n.hand = r.hand /\ (n.send = r.send \/ n.send = Append(r.send, Close))
  BY <1>1, <1>4 DEF Shut, SameSide
<1>8. Keeps(r, n)
  BY <1>1, <1>3, <1>4 DEF Shut, Keeps, Good, Fine, Held, HeldEnd
<1>9. Fine(n) => stops # 0
  BY <1>3, <1>7 DEF Fine, Good, SameSide
<1>10. n = Dismissed(c)
  BY <1>a, <1>b, <1>c DEF Dismissed
<1> QED BY <1>a, <1>6, <1>7, <1>8, <1>9, <1>10

\* The loop closes the clients it has to.
LEMMA CloseClientsFacts ==
    ASSUME Typed, CloseClients
    PROVE  /\ \A c \in toClose : cl'[c] = Dismissed(c)
           /\ \A c \in Clients \ toClose : cl'[c] = cl[c]
           /\ ClientsTyped'
<1>1. cl' = [c \in Clients |-> IF c \in toClose THEN Dismissed(c) ELSE cl[c]]
  BY DEF CloseClients, Dismissed
<1>2. toClose \subseteq Clients
  BY DEF Typed, RuntimeTyped
<1>3. (\A c \in toClose : cl'[c] = Dismissed(c)) /\ (\A c \in Clients \ toClose : cl'[c] = cl[c])
  BY <1>1, <1>2
<1>4. \A c \in Clients : ClientOK(cl'[c])
  BY <1>2, <1>3, CloseFacts DEF Typed, ClientsTyped
<1>5. cl' \in [Clients -> ClientState]
  <2>1. \A c \in Clients : cl'[c] \in ClientState
    BY <1>4 DEF ClientOK
  <2> QED BY <1>1, <2>1
<1> QED BY <1>3, <1>4, <1>5 DEF ClientsTyped

\* It then goes on, closes the others, or ends.
LEMMA TypedCloseClients ==
    ASSUME Typed, CloseClients
    PROVE  Typed'
<1>1. ChannelsTyped' /\ ProducerTyped'
  BY DEF CloseClients, Typed, ChannelsTyped, ProducerTyped, channels, bricks, producer
<1>2. RuntimeTyped'
  <2>1. stops' \in 0..2 /\ listed' \in BOOLEAN /\ loop' \in {"select", "closing", "ended"}
    <3>1. stops \in 0..2 /\ listed \in BOOLEAN
      BY DEF Typed, RuntimeTyped
    <3>2. CASE stops = 0
      BY <3>1, <3>2 DEF CloseClients
    <3>3. CASE stops # 0
      <4>1. stops' = stops - 1 /\ listed' = FALSE /\ loop' \in {"closing", "ended"}
        BY <3>3 DEF CloseClients
      <4>2. stops' \in 0..2
        BY <3>1, <3>3, <4>1
      <4> QED BY <4>1, <4>2
    <3> QED BY <3>2, <3>3
  <2>2. toClose' \subseteq Clients
    BY DEF CloseClients, Typed, RuntimeTyped
  <2> QED BY <2>1, <2>2 DEF CloseClients, Typed, RuntimeTyped
<1> QED BY <1>1, <1>2, CloseClientsFacts DEF Typed

\* The loop begins to close clients, or does not.
LEMMA TypedStop ==
    ASSUME Typed, UNCHANGED <<kind, status, reader, shown, snap, clients, channels, cl>>,
           ProducerTyped', listed' \in BOOLEAN,
           \/ \E times \in 0..2, own \in BOOLEAN : BeginStop(times, own)
           \/ UNCHANGED <<loop, stops, toClose, ownStop>>
    PROVE  Typed'
<1>1. ChannelsTyped'
  BY DEF channels, Typed, ChannelsTyped
<1>2. ClientsTyped'
  BY DEF Typed, ClientsTyped
<1>3. RuntimeTyped'
  BY DEF Typed, RuntimeTyped, BeginStop
<1> QED BY <1>1, <1>2, <1>3 DEF Typed

\* Whoever stops the loop.
LEMMA TypedStopping ==
    ASSUME Typed, Timeout \/ OtherStop \/ Replace \/ StopRuntimeSet
    PROVE  Typed'
<1>1. ProducerTyped'
  <2>1. CASE StopRuntimeSet
    BY <2>1 DEF StopRuntimeSet, Typed, ProducerTyped, bricks
  <2>2. CASE Timeout \/ OtherStop \/ Replace
    BY <2>2 DEF Timeout, OtherStop, Replace, Typed, ProducerTyped, bricks, producer
  <2> QED BY <2>1, <2>2
<1>2. /\ UNCHANGED <<kind, status, reader, shown, snap, clients, channels, cl>>
      /\ listed' \in BOOLEAN
  BY DEF Timeout, OtherStop, Replace, StopRuntimeSet, Typed, RuntimeTyped
<1>3. \/ \E times \in 0..2, own \in BOOLEAN : BeginStop(times, own)
      \/ UNCHANGED <<loop, stops, toClose, ownStop>>
  <2>1. StopsOnReturn \in 0..2 /\ 1 \in 0..2
    BY DEF StopsOnReturn
  <2> QED BY <2>1 DEF Timeout, OtherStop, Replace, StopRuntimeSet
<1> QED BY <1>1, <1>2, <1>3, TypedStop

\* The loop is told of silent clients.
LEMMA TypedExpire ==
    ASSUME Typed, Expire
    PROVE  Typed'
<1>1. ChannelsTyped' /\ ProducerTyped' /\ ClientsTyped'
  BY DEF Expire, Typed, ChannelsTyped, ProducerTyped, ClientsTyped, channels, bricks, producer
<1>2. toClose' \subseteq clients
  BY DEF Expire
<1>3. RuntimeTyped'
  BY <1>2 DEF Expire, Typed, RuntimeTyped
<1> QED BY <1>1, <1>3 DEF Typed

\* What the producer pushes.
LEMMA OutFacts ==
    /\ \A m \in {Update, News, Completed, Failed} :
          <<m>> \in Seq(Messages) /\ ~CloseIn(<<m>>) /\ <<m>> # <<>>
    /\ <<News, News>> \in Seq(Messages) /\ ~CloseIn(<<News, News>>)
    /\ <<>> \in Seq(Messages) /\ ~CloseIn(<<>>)
    /\ \A b \in Items :
         /\ Progress(b) \in Seq(Messages) /\ ~CloseIn(Progress(b))
         /\ <<Packet("data", {b})>> \in Seq(Messages) /\ ~CloseIn(<<Packet("data", {b})>>)
<1>1. \A m \in {Update, News, Completed, Failed} :
        <<m>> \in Seq(Messages) /\ ~CloseIn(<<m>>) /\ <<m>> # <<>>
  BY QueueSmall, PacketFacts
<1>2. ASSUME NEW m \in Messages, NEW n \in Messages, m.type # "close", n.type # "close"
      PROVE  <<m, n>> \in Seq(Messages) /\ ~CloseIn(<<m, n>>)
  <2>1. \A i \in DOMAIN <<m, n>> : <<m, n>>[i] \in {m, n}
    BY QueueSmall
  <2> QED BY <1>2, <2>1 DEF CloseIn
<1>3. <<News, News>> \in Seq(Messages) /\ ~CloseIn(<<News, News>>)
  BY <1>2, PacketFacts
<1>4. <<>> \in Seq(Messages) /\ ~CloseIn(<<>>)
  BY QueueEmpty
<1>5. ASSUME NEW b \in Items
      PROVE  /\ Progress(b) \in Seq(Messages) /\ ~CloseIn(Progress(b))
             /\ <<Packet("data", {b})>> \in Seq(Messages) /\ ~CloseIn(<<Packet("data", {b})>>)
  <2>1. {b} \in SUBSET Items
    OBVIOUS
  <2>2. Packet("data", {b}) \in Messages /\ Packet("data", {b}).type = "data"
    BY <2>1, PacketFacts
  <2>3. News \in Messages /\ News.type = "news"
    BY PacketFacts
  <2>4. Progress(b) \in Seq(Messages) /\ ~CloseIn(Progress(b))
    BY <1>2, <2>2, <2>3 DEF Progress
  <2>5. <<Packet("data", {b})>> \in Seq(Messages) /\ ~CloseIn(<<Packet("data", {b})>>)
    BY <2>2, QueueSmall
  <2> QED BY <2>4, <2>5
<1> QED BY <1>1, <1>3, <1>4, <1>5

\* The producer changes nothing of the loop but the status.
LEMMA TypedProduced ==
    ASSUME Typed, UNCHANGED <<kind, listed, loop, reader, shown, snap, toClose, stops, ownStop,
                              clients, register, unregister, cl>>,
           status' \in {"fetching", "completed", "failed"}, ProducerTyped',
           changes' \in Seq(Messages), Len(changes') <= ChangeCap, ~CloseIn(changes)'
    PROVE  Typed'
<1>1. RuntimeTyped'
  BY DEF Typed, RuntimeTyped
<1>2. ChannelsTyped' /\ ClientsTyped'
  BY DEF Typed, ChannelsTyped, ClientsTyped
<1> QED BY <1>1, <1>2 DEF Typed

\* The producer pushes a change, or drops it.
LEMMA TypedPush ==
    ASSUME Typed, PushLookup \/ PushSend
    PROVE  Typed'
<1>1. /\ out # <<>> /\ out \in Seq(Messages) /\ ~CloseIn(out)
      /\ changes \in Seq(Messages) /\ Len(changes) <= ChangeCap /\ ~CloseIn(changes)
      /\ status \in {"fetching", "completed", "failed"}
  BY DEF PushLookup, PushSend, Typed, ProducerTyped, ChannelsTyped, RuntimeTyped
<1>2. /\ Head(out) \in Messages /\ Head(out).type # "close"
      /\ Tail(out) \in Seq(Messages) /\ ~CloseIn(Tail(out))
  BY <1>1, QueueTail DEF Adds
<1>3. ProducerTyped'
  BY <1>1, <1>2 DEF PushLookup, PushSend, Typed, ProducerTyped, bricks
<1>4. changes' \in Seq(Messages) /\ Len(changes') <= ChangeCap /\ ~CloseIn(changes)'
  <2>1. CASE PushLookup
    <3>1. changes' = changes
      BY <2>1 DEF PushLookup, channels
    <3> QED BY <1>1, <3>1 DEF CloseIn
  <2>2. CASE PushSend
    <3>1. changes' = Append(changes, Head(out)) /\ Len(changes) < ChangeCap
      BY <2>2 DEF PushSend
    <3>2. /\ Append(changes, Head(out)) \in Seq(Messages)
          /\ Len(Append(changes, Head(out))) <= ChangeCap
          /\ Adds(changes, Head(out), Append(changes, Head(out)))
      BY <1>1, <1>2, <3>1, QueueAppend, Capacities
    <3> QED BY <1>1, <1>2, <3>1, <3>2 DEF Adds, CloseIn
  <2> QED BY <2>1, <2>2
<1>5. UNCHANGED <<kind, listed, loop, reader, shown, snap, toClose, stops, ownStop,
                  clients, register, unregister, cl>> /\ status' = status
  BY DEF PushLookup, PushSend, runtime, channels
<1> QED BY <1>1, <1>3, <1>4, <1>5, TypedProduced

\* The producer finds bricks or results, or ends.
LEMMA TypedFetch ==
    ASSUME Typed,
           \/ Begin \/ FetchInventory \/ FetchFails \/ StoreBrick \/ FetchBricks \/ RemoveMissing
           \/ AppendFinal \/ KeepMissing \/ Complete \/ ProcessItem \/ EndSearch
    PROVE  Typed'
<1>1. status' \in {"fetching", "completed", "failed"}
  BY DEF Begin, FetchInventory, FetchFails, StoreBrick, FetchBricks, RemoveMissing,
         AppendFinal, KeepMissing, Complete, ProcessItem, EndSearch, runtime, Typed, RuntimeTyped
<1>2. UNCHANGED <<kind, listed, loop, reader, shown, snap, toClose, stops, ownStop,
                  clients, register, unregister, changes, cl>>
  BY DEF Begin, FetchInventory, FetchFails, StoreBrick, FetchBricks, RemoveMissing,
         AppendFinal, KeepMissing, Complete, ProcessItem, EndSearch, runtime, channels
<1>3. changes' \in Seq(Messages) /\ Len(changes') <= ChangeCap /\ ~CloseIn(changes)'
  BY <1>2 DEF Typed, ChannelsTyped, CloseIn
<1>4. ProducerTyped'
  <2> USE DEF Typed, ProducerTyped
  <2>1. CASE Begin
    <3>1. out' \in Seq(Messages) /\ ~CloseIn(out)'
      BY <2>1, OutFacts DEF Begin, CloseIn
    <3> QED BY <2>1, <3>1 DEF Begin, bricks
  <2>2. CASE FetchInventory
    BY <2>2 DEF FetchInventory, bricks, CloseIn
  <2>3. CASE FetchFails
    <3>1. out' \in Seq(Messages) /\ ~CloseIn(out)'
      BY <2>3, OutFacts DEF FetchFails, CloseIn
    <3> QED BY <2>3, <3>1 DEF FetchFails, bricks
  <2>4. CASE StoreBrick
    <3>1. out' \in Seq(Messages) /\ ~CloseIn(out)'
      BY <2>4, OutFacts DEF StoreBrick, CloseIn
    <3> QED BY <2>4, <3>1 DEF StoreBrick
  <2>5. CASE FetchBricks
    <3>1. out' \in Seq(Messages) /\ ~CloseIn(out)'
      BY <2>5, OutFacts DEF FetchBricks, CloseIn
    <3> QED BY <2>5, <3>1 DEF FetchBricks, bricks
  <2>6. CASE RemoveMissing
    BY <2>6 DEF RemoveMissing, CloseIn
  <2>7. CASE AppendFinal
    <3>1. out' \in Seq(Messages) /\ ~CloseIn(out)'
      BY <2>7, OutFacts DEF AppendFinal, CloseIn
    <3> QED BY <2>7, <3>1 DEF AppendFinal
  <2>8. CASE KeepMissing
    <3>1. out' \in Seq(Messages) /\ ~CloseIn(out)'
      BY <2>8, OutFacts DEF KeepMissing, CloseIn
    <3> QED BY <2>8, <3>1 DEF KeepMissing
  <2>9. CASE Complete
    <3>1. out' \in Seq(Messages) /\ ~CloseIn(out)'
      BY <2>9, OutFacts DEF Complete, CloseIn
    <3> QED BY <2>9, <3>1 DEF Complete, bricks
  <2>10. CASE ProcessItem
    <3>1. out' \in Seq(Messages) /\ ~CloseIn(out)'
      BY <2>10, OutFacts DEF ProcessItem, CloseIn
    <3> QED BY <2>10, <3>1 DEF ProcessItem, bricks
  <2>11. CASE EndSearch
    <3>1. out' \in Seq(Messages) /\ ~CloseIn(out)'
      BY <2>11, OutFacts DEF EndSearch, CloseIn
    <3> QED BY <2>11, <3>1 DEF EndSearch, bricks
  <2> QED BY <2>1, <2>2, <2>3, <2>4, <2>5, <2>6, <2>7, <2>8, <2>9, <2>10, <2>11
<1> QED BY <1>1, <1>2, <1>3, <1>4, TypedProduced

\* Each field of a client, and the ways its steps change it.
LEMMA OneClient ==
    ASSUME Typed, NEW c \in Clients
    PROVE  /\ cl[c] \in ClientState /\ ClientOK(cl[c])
           /\ cl[c].send \in Seq(Messages) /\ cl[c].hand \in Seq(Messages)
           /\ Len(cl[c].send) <= SendCap /\ Len(cl[c].hand) <= 1
BY DEF Typed, ClientsTyped, ClientOK, ClientState

\* A client that connects and registers, ...
Connected(r)  == [r EXCEPT !.conn = "upgraded"]
Opened(r)     == [r EXCEPT !.conn = "open", !.read = "reading", !.write = "running"]

\* ... whose writer takes a message and writes it, ...
Taken(r)      == [r EXCEPT !.hand = <<Head(r.send)>>, !.send = Tail(@)]
Shown(r, m)   == [r EXCEPT !.hand = <<>>, !.seen = @ \cup m.items, !.told = @ \/ Ends(m)]

\* ... whose timer fires, ...
TimedOut(r)   == [r EXCEPT !.timer = FALSE]

\* ... and whose reader leaves.
Leaving(r)    == [r EXCEPT !.read = "leaving", !.conn = "closed"]
Left(r)       == [r EXCEPT !.read = "left"]
ReadEnded(r)  == [Closed(Knocked(r)) EXCEPT !.read = "ended"]

\* The reading side alone changes.
SameWriter(r, n) ==
    /\ n.write = r.write /\ n.send = r.send /\ n.hand = r.hand /\ n.bye = r.bye
    /\ n.seen = r.seen /\ n.told = r.told /\ n.lost = r.lost /\ n.dismissed = r.dismissed

\* Steps that leave the writer alone.
LEMMA ReaderFacts ==
    ASSUME NEW r, ClientOK(r)
    PROVE  /\ ClientOK(Connected(r)) /\ SameWriter(r, Connected(r)) /\ Connected(r).read = r.read
           /\ Connected(r).conn = "upgraded"
           /\ ClientOK(TimedOut(r)) /\ SameWriter(r, TimedOut(r)) /\ TimedOut(r).read = r.read
           /\ TimedOut(r).conn = r.conn
           /\ ClientOK(Leaving(r)) /\ SameWriter(r, Leaving(r)) /\ Leaving(r).read = "leaving"
           /\ Leaving(r).conn = "closed"
           /\ ClientOK(Left(r)) /\ SameWriter(r, Left(r)) /\ Left(r).read = "left"
           /\ Left(r).conn = r.conn
<1>1. r \in ClientState /\ Len(r.send) <= SendCap /\ Len(r.hand) <= 1
  BY DEF ClientOK
<1>2. ClientOK(Connected(r)) /\ SameWriter(r, Connected(r)) /\ Connected(r).read = r.read
      /\ Connected(r).conn = "upgraded"
  BY <1>1 DEF Connected, ClientState, ClientOK, SameWriter
<1>3. ClientOK(TimedOut(r)) /\ SameWriter(r, TimedOut(r)) /\ TimedOut(r).read = r.read
      /\ TimedOut(r).conn = r.conn
  BY <1>1 DEF TimedOut, ClientState, ClientOK, SameWriter
<1>4. ClientOK(Leaving(r)) /\ SameWriter(r, Leaving(r)) /\ Leaving(r).read = "leaving"
      /\ Leaving(r).conn = "closed"
  BY <1>1 DEF Leaving, ClientState, ClientOK, SameWriter
<1>5. ClientOK(Left(r)) /\ SameWriter(r, Left(r)) /\ Left(r).read = "left"
      /\ Left(r).conn = r.conn
  BY <1>1 DEF Left, ClientState, ClientOK, SameWriter
<1> QED BY <1>2, <1>3, <1>4, <1>5

\* Both pumps start.
LEMMA OpenedFacts ==
    ASSUME NEW r, ClientOK(r)
    PROVE  /\ ClientOK(Opened(r)) /\ Opened(r).send = r.send /\ Opened(r).hand = r.hand
           /\ Opened(r).conn = "open" /\ Opened(r).read = "reading"
           /\ Opened(r).write = "running" /\ Opened(r).bye = r.bye
BY DEF Opened, ClientState, ClientOK

\* The message moves from the buffer to the hand.
LEMMA TakenFacts ==
    ASSUME NEW r, ClientOK(r), r.hand = <<>>, r.send # <<>>
    PROVE  /\ ClientOK(Taken(r)) /\ SameSide(r, Taken(r)) /\ Keeps(r, Taken(r))
           /\ Taken(r).hand = <<Head(r.send)>> /\ Taken(r).send = Tail(r.send)
           /\ Taken(r).dismissed = r.dismissed
<1>a. PICK n : n = Taken(r)
  OBVIOUS
<1>b. PICK m : m = Head(r.send)
  OBVIOUS
<1>1. r \in ClientState /\ r.send \in Seq(Messages) /\ Len(r.send) <= SendCap
  BY DEF ClientOK, ClientState
<1>2. /\ m \in Messages /\ Tail(r.send) \in Seq(Messages) /\ Len(Tail(r.send)) <= SendCap
      /\ Adds(Tail(r.send), m, r.send)
  BY <1>b, <1>1, QueueTail, Capacities
<1>3. <<m>> \in Seq(Messages) /\ Len(<<m>>) = 1 /\ ItemsOf(<<m>>) = m.items /\ (EndIn(<<m>>) <=> Ends(m))
  BY <1>2, QueueSmall
<1>4. n = [r EXCEPT !.hand = <<m>>, !.send = Tail(r.send)]
  BY <1>a, <1>b DEF Taken
<1>5. n \in ClientState
  BY <1>1, <1>2, <1>3, <1>4 DEF ClientState
<1>6. /\ SameSide(r, n) /\ n.hand = <<m>> /\ n.send = Tail(r.send)
      /\ n.seen = r.seen /\ n.told = r.told /\ n.lost = r.lost /\ n.dismissed = r.dismissed
  BY <1>1, <1>4 DEF ClientState, SameSide
<1>7. ClientOK(n)
  BY <1>2, <1>3, <1>5, <1>6 DEF ClientOK
<1>8. Held(n) = Held(r) /\ (HeldEnd(n) <=> HeldEnd(r))
  BY <1>2, <1>3, <1>6, QueueEmpty DEF Held, HeldEnd, Adds
<1>9. Keeps(r, n)
  BY <1>6, <1>8 DEF Keeps, Good, Fine, SameSide
<1> QED BY <1>a, <1>b, <1>6, <1>7, <1>9

\* The message in the writer's hand.
LEMMA HandFacts ==
    ASSUME NEW r, ClientOK(r), r.hand # <<>>
    PROVE  /\ Head(r.hand) \in Messages /\ ItemsOf(r.hand) = Head(r.hand).items
           /\ EndIn(r.hand) <=> Ends(Head(r.hand))
           /\ CloseIn(r.hand) <=> Head(r.hand).type = "close"
<1>1. r.hand \in Seq(Messages) /\ Len(r.hand) <= 1
  BY DEF ClientOK, ClientState
<1>2. /\ Head(r.hand) \in Messages /\ Adds(Tail(r.hand), Head(r.hand), r.hand)
      /\ Tail(r.hand) \in Seq(Messages) /\ Len(Tail(r.hand)) = Len(r.hand) - 1
      /\ Len(r.hand) \in Nat \ {0}
  BY <1>1, QueueTail
<1>3. Tail(r.hand) = <<>>
  <2>1. \A q \in Seq(Messages) : Len(q) = 0 => q = <<>>
    OBVIOUS
  <2>2. \A n \in Nat \ {0} : n <= 1 => n - 1 = 0
    OBVIOUS
  <2>3. Len(Tail(r.hand)) = 0
    BY <1>1, <1>2, <2>2, Zenon
  <2> QED BY <1>2, <2>1, <2>3
<1> QED BY <1>2, <1>3, QueueEmpty DEF Adds

\* The message in the hand has been seen.
LEMMA ShownFacts ==
    ASSUME NEW r, ClientOK(r), r.hand # <<>>, Head(r.hand) # Close
    PROVE  /\ ClientOK(Shown(r, Head(r.hand))) /\ SameSide(r, Shown(r, Head(r.hand)))
           /\ Shown(r, Head(r.hand)).send = r.send /\ Shown(r, Head(r.hand)).hand = <<>>
           /\ Keeps(r, Shown(r, Head(r.hand)))
           /\ Shown(r, Head(r.hand)).dismissed = r.dismissed
<1>a. PICK m : m = Head(r.hand)
  OBVIOUS
<1>b. PICK n : n = Shown(r, m)
  OBVIOUS
<1>1. r \in ClientState /\ m \in Messages /\ m.items \subseteq Items
  BY <1>a, HandFacts DEF ClientOK, Messages
<1>2. n = [r EXCEPT !.hand = <<>>, !.seen = r.seen \cup m.items, !.told = r.told \/ Ends(m)]
  BY <1>b DEF Shown
<1>3. <<>> \in Seq(Messages) /\ r.seen \cup m.items \in SUBSET Items /\ Len(<<>>) = 0
  BY <1>1 DEF ClientState
<1>4. (r.told \/ Ends(m)) \in BOOLEAN
  BY Zenon
<1>5. n \in ClientState
  BY <1>1, <1>2, <1>3, <1>4, Zenon DEF ClientState
<1>6. /\ SameSide(r, n) /\ n.hand = <<>> /\ n.send = r.send
      /\ n.seen = r.seen \cup m.items /\ n.lost = r.lost /\ n.dismissed = r.dismissed
  BY <1>1, <1>2 DEF ClientState, SameSide
<1>7. n.told = (r.told \/ Ends(m))
  BY <1>1, <1>2 DEF ClientState
<1>8. ClientOK(n)
  BY <1>3, <1>5, <1>6 DEF ClientOK
<1>9. Held(n) = Held(r) /\ (HeldEnd(r) => HeldEnd(n))
  <2>1. ItemsOf(r.hand) = m.items /\ (EndIn(r.hand) <=> Ends(m))
    BY <1>a, HandFacts
  <2>2. Held(n) = Held(r)
    BY <1>6, <2>1, QueueEmpty DEF Held
  <2> QED BY <1>6, <1>7, <2>1, <2>2 DEF HeldEnd, Ends
<1>10. Keeps(r, n)
  BY <1>6, <1>9 DEF Keeps, Good, Fine, SameSide
<1> QED BY <1>a, <1>b, <1>6, <1>8, <1>10

\* The read pump has ended, and with it an idle writer.
LEMMA ReadEndedFacts ==
    ASSUME NEW r, ClientOK(r)
    PROVE  /\ ClientOK(ReadEnded(r)) /\ ReadEnded(r).conn = r.conn /\ ReadEnded(r).read = "ended"
           /\ ReadEnded(r).bye = r.bye /\ ReadEnded(r).hand \in {r.hand, <<>>}
           /\ \/ ReadEnded(r).write = "ended" /\ ReadEnded(r).hand = <<>>
              \/ ReadEnded(r).write = r.write
           /\ \/ ReadEnded(r).send \in {r.send, <<>>}
              \/ ReadEnded(r).send = Append(r.send, Close)
           /\ r.write = "ended" => /\ ReadEnded(r).seen = r.seen /\ ReadEnded(r).told = r.told
                                   /\ ReadEnded(r).send = r.send
<1>a. PICK k : k = Knocked(r)
  OBVIOUS
<1>b. PICK m : m = Closed(k)
  OBVIOUS
<1>c. PICK n : n = [m EXCEPT !.read = "ended"]
  OBVIOUS
<1>1. ClientOK(k) /\ (k = r \/ (r.write = "running" /\ k = WriteEnded(r)))
  BY <1>a, KnockedFacts
<1>2. ClientOK(m) /\ Shut(k, m)
  BY <1>1, <1>b, ShutByClosed DEF Shut
<1>3. n \in ClientState /\ n.read = "ended" /\ n.conn = m.conn /\ n.bye = m.bye /\ n.hand = m.hand
      /\ n.write = m.write /\ n.send = m.send /\ n.seen = m.seen /\ n.told = m.told
  BY <1>2, <1>c DEF ClientOK, ClientState
<1>4. ClientOK(n)
  BY <1>2, <1>3 DEF ClientOK
<1>5. CASE k = r
  <2>1. r.write = "ended" => m = r
    BY <1>5, <1>b DEF Closed
  <2>2. n = ReadEnded(r)
    BY <1>a, <1>b, <1>c DEF ReadEnded
  <2>3. /\ n.conn = r.conn /\ n.bye = r.bye /\ n.hand = r.hand /\ n.write = r.write
        /\ n.send = r.send \/ n.send = Append(r.send, Close)
    BY <1>2, <1>3, <1>5 DEF Shut, SameSide
  <2>4. r.write = "ended" => n.seen = r.seen /\ n.told = r.told /\ n.send = r.send
    BY <1>3, <2>1
  <2> QED BY <1>3, <1>4, <2>2, <2>3, <2>4
<1>6. CASE r.write = "running" /\ k = WriteEnded(r)
  <2>1. Parted(r, k) /\ k.bye = r.bye
    BY <1>6, PartedByEnd
  <2>2. m = k
    BY <2>1, <1>b DEF Closed, Parted
  <2> QED BY <1>6, <1>3, <1>4, <2>1, <2>2, <1>a, <1>b, <1>c DEF Parted, ReadEnded
<1> QED BY <1>1, <1>5, <1>6

\* Each step of a client keeps the types.
LEMMA TypedClient ==
    ASSUME Typed, NEW c \in Clients, Client(c)
    PROVE  Typed'
<1>a. PICK r : r = cl[c]
  OBVIOUS
<1> USE OneClient, <1>a
<1>1. ASSUME NEW n, ClientOK(n), ClientOnly(c, n), UNCHANGED channels
      PROVE  Typed'
  <2>1. ChannelsTyped'
    BY <1>1 DEF channels, Typed, ChannelsTyped
  <2> QED BY <1>1, <2>1, ClientTyped DEF Typed
<1>2. CASE Connect(c)
  <2>1. ClientOnly(c, Connected(r)) /\ UNCHANGED channels
    BY <1>2 DEF Connect, Connected
  <2> QED BY <1>1, <2>1, ReaderFacts
<1>3. CASE Register(c)
  <2>1. ClientOnly(c, Opened(r)) /\ register' = Append(register, c) /\ Len(register) < ClientCap
        /\ UNCHANGED <<unregister, changes>>
    BY <1>3 DEF Register, Opened
  <2>2. ChannelsTyped'
    BY <2>1, ClientQueues, Capacities DEF Typed, ChannelsTyped, CloseIn
  <2>3. RuntimeTyped' /\ ProducerTyped' /\ ClientsTyped'
    BY <2>1, ClientTyped, OpenedFacts
  <2> QED BY <2>2, <2>3 DEF Typed
<1>4. CASE Take(c)
  <2>1. ClientOnly(c, Taken(r)) /\ UNCHANGED channels /\ r.hand = <<>> /\ r.send # <<>>
    BY <1>4 DEF Take, Taken
  <2> QED BY <1>1, <2>1, TakenFacts
<1>5. CASE Written(c)
  <2>1. r.hand # <<>> /\ UNCHANGED channels
    BY <1>5 DEF Written
  <2>2. \/ ClientOnly(c, WriteClosed(r))
        \/ Head(r.hand) # Close /\ ClientOnly(c, Shown(r, Head(r.hand)))
    BY <1>5 DEF Written, Shown
  <2>3. ClientOK(WriteClosed(r))
    BY PartedByClose DEF Parted
  <2> QED BY <1>1, <2>1, <2>2, <2>3, ShownFacts
<1>6. CASE WriteFails(c)
  <2>1. ClientOnly(c, WriteEnded(r)) /\ UNCHANGED channels
    BY <1>6 DEF WriteFails
  <2>2. ClientOK(WriteEnded(r))
    BY PartedByEnd DEF Parted
  <2> QED BY <1>1, <2>1, <2>2
<1>7. CASE TimerKnocks(c)
  <2>1. ClientOnly(c, Knocked(TimedOut(r))) /\ UNCHANGED channels
    BY <1>7 DEF TimerKnocks, TimedOut
  <2>2. ClientOK(Knocked(TimedOut(r)))
    BY ReaderFacts, KnockedFacts
  <2> QED BY <1>1, <2>1, <2>2
<1>8. CASE ReadFails(c)
  <2>1. ClientOnly(c, Leaving(r)) /\ UNCHANGED channels
    BY <1>8 DEF ReadFails, Leaving
  <2> QED BY <1>1, <2>1, ReaderFacts
<1>9. CASE Unregister(c)
  <2>1. ClientOnly(c, Left(r)) /\ unregister' = Append(unregister, c) /\ Len(unregister) < ClientCap
        /\ UNCHANGED <<register, changes>>
    BY <1>9 DEF Unregister, Left
  <2>2. ChannelsTyped'
    BY <2>1, ClientQueues, Capacities DEF Typed, ChannelsTyped, CloseIn
  <2>3. RuntimeTyped' /\ ProducerTyped' /\ ClientsTyped'
    BY <2>1, ClientTyped, ReaderFacts
  <2> QED BY <2>2, <2>3 DEF Typed
<1>10. CASE ReadEnds(c)
  <2>1. ClientOnly(c, ReadEnded(r)) /\ UNCHANGED channels
    BY <1>10 DEF ReadEnds, ReadEnded
  <2>2. ClientOK(ReadEnded(r))
    BY ReadEndedFacts
  <2> QED BY <1>1, <2>1, <2>2
<1> QED BY <1>2, <1>3, <1>4, <1>5, <1>6, <1>7, <1>8, <1>9, <1>10 DEF Client, Write, Read

\* A step that changes nothing.
LEMMA TypedStutter ==
    ASSUME Typed, UNCHANGED vars
    PROVE  Typed'
<1>1. UNCHANGED <<kind, runtime, channels, bricks, producer, cl>>
  BY DEF vars
<1>2. RuntimeTyped' /\ ClientsTyped'
  BY <1>1 DEF Typed, RuntimeTyped, ClientsTyped, runtime
<1>3. ChannelsTyped' /\ ProducerTyped'
  BY <1>1 DEF Typed, ChannelsTyped, ProducerTyped, channels, bricks, producer, CloseIn
<1> QED BY <1>2, <1>3 DEF Typed

\* Every step keeps the types.
LEMMA TypedNext ==
    ASSUME Typed, [Next]_vars
    PROVE  Typed'
<1>1. CASE HandleConnect \/ HandleDisconnect \/ HandleChange \/ Expire
  BY <1>1, TypedConnect, TypedDisconnect, TypedSetChange, TypedSearchChange, TypedExpire
  DEF HandleChange
<1>2. CASE Timeout \/ OtherStop \/ Replace \/ StopRuntimeSet
  BY <1>2, TypedStopping
<1>3. CASE Loop
  BY <1>3, TypedFinishRead, TypedCloseClients DEF Loop
<1>4. CASE Producer
  BY <1>2, <1>4, TypedPush, TypedFetch DEF Producer
<1>5. ASSUME NEW c \in Clients, Client(c)
      PROVE  Typed'
  BY <1>5, TypedClient
<1>6. CASE UNCHANGED vars
  BY <1>6, TypedStutter
<1> QED BY <1>1, <1>2, <1>3, <1>4, <1>5, <1>6 DEF Next

----------------------------------------------------------------------------
(* The loop of a runtime set *)

\* A served client's close message comes last, and not before the loop has ended.
ClosingOK(c) ==
    /\ Fine(cl[c]) => CloseLast(cl[c]) /\ (loop # "ended" => Quiet(cl[c]))
    /\ cl[c].bye => loop = "ended" /\ (ownStop => cl[c].told /\ Found \subseteq cl[c].seen)

\* Closing, client by client.
LEMMA ClosingEach == Closing <=> \A c \in Clients : ClosingOK(c)
BY DEF Closing, ClosingOK

\* No other packet is behind one that is no close message.
LEMMA QuietIsLast ==
    ASSUME NEW r, Quiet(r)
    PROVE  CloseLast(r)
BY DEF Quiet, CloseLast, CloseIn

\* One more packet in a buffer.
LEMMA GivenQuiet ==
    ASSUME NEW r, ClientOK(r), NEW m \in Messages, NEW n, n.hand = r.hand,
           n.send = r.send \/ n.send = Append(r.send, m), Quiet(r)
    PROVE  /\ m.type # "close" => Quiet(n)
           /\ CloseLast(n)
           /\ \A i \in DOMAIN n.send : n.send[i] = m \/ \E j \in DOMAIN r.send : n.send[i] = r.send[j]
<1>1. r.send \in Seq(Messages) /\ ~CloseIn(r.send) /\ ~CloseIn(r.hand)
  BY DEF ClientOK, ClientState, Quiet
<1>2. CASE n.send = r.send
  BY <1>1, <1>2, QuietIsLast DEF Quiet, CloseIn
<1>3. CASE n.send = Append(r.send, m)
  <2>1. /\ Adds(r.send, m, n.send)
        /\ \A i \in DOMAIN n.send : \/ i \in DOMAIN r.send /\ n.send[i] = r.send[i]
                                    \/ i = Len(n.send) /\ n.send[i] = m
    BY <1>1, <1>3, QueueAppend
  <2>2. m.type # "close" => Quiet(n)
    BY <1>1, <2>1 DEF Adds, Quiet
  <2>3. CloseLast(n)
    BY <1>1, <2>1 DEF CloseLast, CloseIn
  <2>4. \A i \in DOMAIN n.send : n.send[i] = m \/ \E j \in DOMAIN r.send : n.send[i] = r.send[j]
    BY <2>1
  <2> QED BY <2>2, <2>3, <2>4
<1> QED BY <1>2, <1>3

\* The same, whatever is in the buffer.
LEMMA GivenFrom ==
    ASSUME NEW r, ClientOK(r), NEW m \in Messages, NEW n,
           n.send = r.send \/ n.send = Append(r.send, m)
    PROVE  \A i \in DOMAIN n.send : n.send[i] = m \/ \E j \in DOMAIN r.send : n.send[i] = r.send[j]
<1>1. r.send \in Seq(Messages)
  BY DEF ClientOK, ClientState
<1>2. CASE n.send = r.send
  BY <1>2
<1>3. CASE n.send = Append(r.send, m)
  BY <1>1, <1>3, QueueAppend
<1> QED BY <1>2, <1>3

\* Packets of the end in a buffer are true.
WordsOf(c) ==
    \A i \in DOMAIN cl[c].send :
        cl[c].send[i].type = "completed" => Over /\ cl[c].send[i].items = Found

\* What is said of each client on its own.
RegisteredOne(c) ==
    /\ cl[c].read \in {"leaving", "left", "ended"} => cl[c].conn = "closed"
    /\ cl[c].conn # "closed" /\ c \notin clients => cl[c].send = <<>> /\ cl[c].hand = <<>>
    /\ cl[c].hand # <<>> => cl[c].write = "running"
    /\ cl[c].bye => cl[c].write = "ended" /\ cl[c].conn \in {"open", "closed"}

Enrolled(c) ==
    /\ c \in clients \/ In(register, c) => cl[c].conn \in {"open", "closed"}
    /\ In(unregister, c) => cl[c].conn = "closed"

\* Registered, client by client.
LEMMA RegisteredEach == Registered <=> \A c \in Clients : RegisteredOne(c) /\ Enrolled(c)
BY DEF Registered, RegisteredOne, Enrolled

\* A broadcast of packet m to clients S, by a loop that has not ended.
LEMMA LoopBroadcast ==
    ASSUME Typed, SetInv, NEW S \in SUBSET clients, NEW m \in Messages, Broadcast(S, m),
           m.type # "close", m.type = "completed" => Over /\ m.items = Found,
           loop \in {"select", "reading"},
           UNCHANGED <<kind, listed, status, stops, ownStop, clients, register, unregister,
                       bricks, producer>>
    PROVE  /\ Registered' /\ Closing' /\ Bricks' /\ Looping' /\ Farewell'
           /\ \A c \in Clients : WordsOf(c)'
           /\ \A c \in Clients : Keeps(cl[c], cl'[c])
           /\ \A c \in S : Good(cl'[c]) => m.items \subseteq Held(cl'[c]) /\ (Ends(m) => HeldEnd(cl'[c]))
           /\ loop' \in {"select", "closing"}
<1> USE DEF SetInv
<1>0. S \in SUBSET Clients /\ clients \subseteq Clients
  BY DEF Typed, RuntimeTyped
<1>1. /\ \A c \in S : Given(cl[c], m, cl'[c])
      /\ \A c \in Clients \ S : cl'[c] = cl[c]
      /\ toClose' \subseteq S /\ loop' \in {"select", "closing"}
      /\ loop' = "select" => toClose' = {}
  BY <1>0, BroadcastFacts
<1>2. \A c \in Clients : SameSide(cl[c], cl'[c]) /\ Keeps(cl[c], cl'[c]) /\ cl'[c].hand = cl[c].hand
  BY <1>1 DEF Given, SameSide, Keeps, Good, Fine
<1>3. \A c \in S : Good(cl'[c]) => m.items \subseteq Held(cl'[c]) /\ (Ends(m) => HeldEnd(cl'[c]))
  BY <1>1 DEF Given
<1>4. ~ownStop /\ stops = 0
  BY DEF Looping
<1>5. Bricks' /\ Farewell'
  BY <1>4 DEF Bricks, Farewell, bricks, producer
<1>6. Looping'
  BY <1>1, <1>4 DEF Looping, producer
<1>7. Registered'
  <2>1. ASSUME NEW c \in Clients
        PROVE  RegisteredOne(c)' /\ Enrolled(c)'
    <3>1. RegisteredOne(c) /\ Enrolled(c)
      BY RegisteredEach
    <3>2. Enrolled(c)'
      BY <1>2, <3>1 DEF Enrolled, SameSide
    <3>3. c \notin clients => cl'[c] = cl[c]
      BY <1>1
    <3>4. RegisteredOne(c)'
      BY <1>2, <3>1, <3>3 DEF RegisteredOne, SameSide
    <3> QED BY <3>2, <3>4
  <2> QED BY <2>1 DEF Registered, RegisteredOne, Enrolled
<1>8. \A c \in Clients : ClosingOK(c)'
  <2> TAKE c \in Clients
  <2>1. ClosingOK(c) /\ ClientOK(cl[c])
    BY ClosingEach, OneClient
  <2>2. ~cl[c].bye /\ ~cl'[c].bye
    BY <1>2, <2>1 DEF ClosingOK, SameSide
  <2>3. ASSUME Fine(cl'[c])
        PROVE  CloseLast(cl'[c]) /\ Quiet(cl'[c])
    <3>1. Quiet(cl[c])
      BY <1>2, <2>1, <2>3 DEF ClosingOK, Keeps
    <3>2. CASE c \in S
      <4>1. Given(cl[c], m, cl'[c])
        BY <1>1, <3>2
      <4>2. PICK r : r = cl[c]
        OBVIOUS
      <4>3. PICK n : n = cl'[c]
        OBVIOUS
      <4>4. n.hand = r.hand /\ (n.send = r.send \/ n.send = Append(r.send, m)) /\ ClientOK(r) /\ Quiet(r)
        BY <2>1, <3>1, <4>1, <4>2, <4>3 DEF Given
      <4>5. CloseLast(n) /\ Quiet(n)
        BY <4>4, GivenQuiet
      <4> QED BY <4>3, <4>5
    <3>3. CASE c \notin S
      BY <1>1, <3>1, <3>3, QuietIsLast
    <3> QED BY <3>2, <3>3
  <2> QED BY <2>2, <2>3 DEF ClosingOK
<1>9. \A c \in Clients : WordsOf(c)'
  <2> TAKE c \in Clients
  <2>1. WordsOf(c) /\ ClientOK(cl[c])
    BY OneClient DEF Words, WordsOf
  <2>2. \A i \in DOMAIN cl'[c].send :
          cl'[c].send[i] = m \/ \E j \in DOMAIN cl[c].send : cl'[c].send[i] = cl[c].send[j]
    BY <1>1, <2>1, GivenFrom DEF Given
  <2>3. Found' = Found /\ Over' = Over
    BY DEF Found, Over, bricks, producer
  <2> QED BY <2>1, <2>2, <2>3 DEF WordsOf
<1>10. Closing'
  BY <1>8 DEF Closing, ClosingOK
<1> QED BY <1>1, <1>2, <1>3, <1>5, <1>6, <1>7, <1>9, <1>10

\* What a client in the runtime's list is owed.
ServedOne(c) ==
    Good(cl[c]) => /\ Found \subseteq Held(cl[c]) \cup Coming(c)
                   /\ pc \in {"wait", "ended"} => HeldEnd(cl[c]) \/ EndComing(c)

\* What changes and what is being read are worth.
WordsComing ==
    /\ \A i \in DOMAIN changes : ChangeOK(changes[i])
    /\ \A i \in DOMAIN out : ChangeOK(out[i])
    /\ loop = "reading" /\ (reader = All \/ shown = "completed") => Over /\ snap = final

\* The runtime's list has clients only.
LEMMA ListedClients ==
    ASSUME Typed
    PROVE  clients \subseteq Clients /\ reader \in Clients \cup {All}
BY DEF Typed, RuntimeTyped

\* The packet with the bricks is handed to those it was read for.
LEMMA SetFinishRead ==
    ASSUME Typed, IsSet, SetInv, FinishRead
    PROVE  SetInv'
<1>1. /\ loop = "reading" /\ ~ownStop /\ snap \subseteq Items /\ BricksRead \subseteq Items
      /\ shown \in {"fetching", "completed", "failed"} /\ clients \subseteq Clients
      /\ reader \in clients \cup {All}
  BY DEF FinishRead, SetInv, Looping, Typed, RuntimeTyped, ProducerTyped, BricksRead
<1>2. UNCHANGED <<kind, listed, status, stops, ownStop, clients, register, unregister,
                  bricks, producer, changes, out, pc, final, missing>>
  BY DEF FinishRead, channels, bricks, producer
<1>3. PICK S \in SUBSET clients, says \in {"data", "completed", "failed"} :
        /\ Broadcast(S, Packet(says, BricksRead))
        /\ \/ reader = All /\ S = clients /\ says = "completed"
           \/ reader # All /\ S = {reader} /\ says = Says(shown)
  <2>1. CASE reader = All
    BY <2>1 DEF FinishRead
  <2>2. CASE reader # All
    <3>1. {reader} \in SUBSET clients /\ Says(shown) \in {"data", "completed", "failed"}
      BY <1>1, <2>2 DEF Says
    <3> QED BY <2>2, <3>1 DEF FinishRead
  <2> QED BY <2>1, <2>2
<1> DEFINE m == Packet(says, BricksRead)
<1>4. m \in Messages /\ m.type = says /\ m.items = BricksRead
  BY <1>1, PacketFacts
<1> HIDE DEF m
<1>5. m.type = "completed" => Over /\ m.items = Found
  <2>1. says = "completed" => reader = All \/ shown = "completed"
    BY <1>1, <1>3 DEF Says
  <2> QED BY <1>1, <1>4, <2>1 DEF SetInv, Words, BricksRead, Found
<1>6. m.type # "close" /\ Broadcast(S, m)
  BY <1>3, <1>4 DEF m
<1>7. /\ Registered' /\ Closing' /\ Bricks' /\ Looping' /\ Farewell'
      /\ \A c \in Clients : WordsOf(c)'
      /\ \A c \in Clients : Keeps(cl[c], cl'[c])
      /\ \A c \in S : Good(cl'[c]) => m.items \subseteq Held(cl'[c]) /\ (Ends(m) => HeldEnd(cl'[c]))
      /\ loop' \in {"select", "closing"}
  BY <1>1, <1>2, <1>4, <1>5, <1>6, LoopBroadcast
<1>8. Words'
  <2>1. WordsComing'
    BY <1>2, <1>7 DEF SetInv, Words, WordsComing, ChangeOK, Over
  <2> QED BY <1>7, <2>1 DEF Words, WordsComing, WordsOf
<1>9. ASSUME NEW c \in clients, listed
      PROVE  ServedOne(c)'
  <2>1. SUFFICES ASSUME Good(cl'[c])
                 PROVE  /\ Found' \subseteq Held(cl'[c]) \cup Coming(c)'
                        /\ pc' \in {"wait", "ended"} => HeldEnd(cl'[c]) \/ EndComing(c)'
    BY DEF ServedOne
  <2>2. /\ Good(cl[c]) /\ Held(cl[c]) \subseteq Held(cl'[c]) /\ (HeldEnd(cl[c]) => HeldEnd(cl'[c]))
    BY <1>1, <1>7, <2>1 DEF Keeps
  <2>3. ServedOne(c)
    BY <1>1, <1>9 DEF SetInv, Served, ServedOne
  <2>4. c # All
    BY <1>1, Capacities
  <2>5. Coming(c) \subseteq Held(cl'[c]) \cup Coming(c)'
    <3>1. reader = c => BricksRead \subseteq Held(cl'[c])
      BY <1>3, <1>4, <1>7, <2>1, <2>4
    <3>2. ItemsOf(changes) \cup ItemsOf(out) \subseteq Coming(c)'
      BY <1>2 DEF Coming, ItemsOf
    <3> QED BY <3>1, <3>2 DEF Coming
  <2>6. EndComing(c) => HeldEnd(cl'[c]) \/ EndComing(c)'
    <3>1. reader = All \/ (reader = c /\ shown # "fetching") => c \in S /\ Ends(m)
      BY <1>1, <1>3, <1>4, <2>4 DEF Says, Ends
    <3>2. EndIn(changes) \/ EndIn(out) => EndComing(c)'
      BY <1>2 DEF EndComing, EndIn
    <3> QED BY <1>7, <2>1, <3>1, <3>2 DEF EndComing
  <2>7. Found' = Found /\ pc' = pc
    BY <1>2 DEF Found
  <2> QED BY <2>2, <2>3, <2>5, <2>6, <2>7 DEF ServedOne
<1>10. Served'
  BY <1>2, <1>9 DEF Served, ServedOne
<1> QED BY <1>7, <1>8, <1>10 DEF SetInv

\* A change that is taken from the queue.
LEMMA SetSetChange ==
    ASSUME Typed, SetInv, HandleSetChange
    PROVE  SetInv'
<1>1. /\ IsSet /\ loop = "select" /\ changes # <<>> /\ ~ownStop /\ stops = 0 /\ toClose = {}
      /\ changes' = Tail(changes) /\ clients \subseteq Clients
      /\ UNCHANGED <<kind, listed, status, stops, ownStop, clients, register, unregister,
                     bricks, producer, out, pc, final, missing>>
  BY DEF HandleSetChange, SetInv, Looping, Typed, RuntimeTyped, bricks, producer
<1> DEFINE m == Head(changes)
<1>2. /\ m \in Messages /\ m.type # "close" /\ Adds(Tail(changes), m, changes) /\ ChangeOK(m)
      /\ \A i \in DOMAIN changes' : ChangeOK(changes'[i])
  <2>1. changes \in Seq(Messages)
    BY DEF Typed, ChannelsTyped
  <2>2. m.type # "close"
    BY <1>1, ChangeTaken
  <2> QED BY <1>1, <2>1, <2>2, QueueTail DEF SetInv, Words
<1>3. \A c \in Clients : WordsOf(c)
  BY DEF SetInv, Words, WordsOf
<1>4. ASSUME NEW c \in clients, listed
      PROVE  ServedOne(c)
  BY <1>1, <1>4 DEF SetInv, Served, ServedOne
<1> HIDE DEF m
<1>5. CASE m.type = "completed"
  <2>1. /\ loop' = "reading" /\ reader' = All /\ shown' = status /\ snap' = final
        /\ cl' = cl /\ toClose' = toClose
    BY <1>5 DEF HandleSetChange, m
  <2>2. Over /\ Over' /\ m.items = {}
    BY <1>1, <1>2, <1>5 DEF ChangeOK, Over
  <2>3. Registered' /\ Closing' /\ Bricks' /\ Farewell'
    <3>1. Found' = Found
      BY <1>1 DEF Found
    <3>2. Registered'
      BY <1>1, <2>1 DEF SetInv, Registered
    <3>3. Closing'
      BY <1>1, <2>1, <3>1 DEF SetInv, Closing
    <3>4. Bricks' /\ Farewell'
      BY <1>1 DEF SetInv, Bricks, Farewell, bricks, producer
    <3> QED BY <3>2, <3>3, <3>4
  <2>4. Looping'
    BY <1>1, <2>1 DEF SetInv, Looping
  <2>5. Words'
    <3>1. WordsComing'
      BY <1>1, <1>2, <2>1, <2>2 DEF WordsComing, SetInv, Words, ChangeOK
    <3>2. \A c \in Clients : WordsOf(c)'
      BY <1>1, <1>3, <2>1, <2>2 DEF WordsOf, Found
    <3> QED BY <3>1, <3>2 DEF Words, WordsComing, WordsOf
  <2>6. ASSUME NEW c \in clients, listed
        PROVE  ServedOne(c)'
    <3>1. Coming(c) \subseteq Coming(c)'
      <4>1. ItemsOf(changes) = ItemsOf(changes')
        BY <1>1, <1>2, <2>2 DEF Adds
      <4>2. Coming(c) = ItemsOf(changes) \cup ItemsOf(out)
        BY <1>1 DEF Coming
      <4>3. ItemsOf(changes') \cup ItemsOf(out) \subseteq Coming(c)'
        BY <1>1 DEF Coming, ItemsOf
      <4> QED BY <4>1, <4>2, <4>3
    <3>2. EndComing(c)'
      BY <2>1 DEF EndComing
    <3>3. Found' = Found /\ cl' = cl
      BY <1>1, <2>1 DEF Found
    <3> QED BY <1>4, <2>6, <3>1, <3>2, <3>3 DEF ServedOne
  <2>7. Served'
    BY <1>1, <2>6 DEF Served, ServedOne
  <2> QED BY <2>3, <2>4, <2>5, <2>7 DEF SetInv
<1>6. CASE m.type # "completed"
  <2>1. PICK n \in Messages : /\ Broadcast(clients, n) /\ n.type \notin {"close", "completed"}
                             /\ n.items = m.items /\ (Ends(n) <=> Ends(m))
    BY <1>2, <1>6, ReadFacts DEF HandleSetChange, m
  <2>2. /\ Registered' /\ Closing' /\ Bricks' /\ Looping' /\ Farewell'
        /\ \A c \in Clients : WordsOf(c)'
        /\ \A c \in Clients : Keeps(cl[c], cl'[c])
        /\ \A c \in clients : Good(cl'[c]) => n.items \subseteq Held(cl'[c]) /\ (Ends(n) => HeldEnd(cl'[c]))
        /\ loop' \in {"select", "closing"}
    <3>1. clients \in SUBSET clients
      OBVIOUS
    <3> QED BY <1>1, <2>1, <3>1, LoopBroadcast
  <2>3. Words'
    <3>1. WordsComing'
      BY <1>1, <1>2, <2>2 DEF WordsComing, SetInv, Words, ChangeOK, Over
    <3> QED BY <2>2, <3>1 DEF Words, WordsComing, WordsOf
  <2>4. ASSUME NEW c \in clients, listed
        PROVE  ServedOne(c)'
    <3>1. SUFFICES ASSUME Good(cl'[c])
                   PROVE  /\ Found' \subseteq Held(cl'[c]) \cup Coming(c)'
                          /\ pc' \in {"wait", "ended"} => HeldEnd(cl'[c]) \/ EndComing(c)'
      BY DEF ServedOne
    <3>2. /\ Good(cl[c]) /\ Held(cl[c]) \subseteq Held(cl'[c]) /\ (HeldEnd(cl[c]) => HeldEnd(cl'[c]))
      BY <1>1, <2>2, <3>1 DEF Keeps
    <3>3. Coming(c) \subseteq Held(cl'[c]) \cup Coming(c)'
      <4>1. ItemsOf(changes) = ItemsOf(changes') \cup m.items
        BY <1>1, <1>2 DEF Adds
      <4>2. m.items \subseteq Held(cl'[c])
        BY <2>1, <2>2, <3>1
      <4>3. Coming(c) = ItemsOf(changes) \cup ItemsOf(out)
        BY <1>1 DEF Coming
      <4>4. ItemsOf(changes') \cup ItemsOf(out) \subseteq Coming(c)'
        BY <1>1 DEF Coming, ItemsOf
      <4> QED BY <4>1, <4>2, <4>3, <4>4
    <3>4. EndComing(c) => HeldEnd(cl'[c]) \/ EndComing(c)'
      <4>1. EndIn(changes) <=> EndIn(changes') \/ Ends(m)
        BY <1>1, <1>2 DEF Adds
      <4>2. EndIn(changes') \/ EndIn(out) => EndComing(c)'
        BY <1>1 DEF EndComing, EndIn
      <4> QED BY <1>1, <2>1, <2>2, <3>1, <4>1, <4>2 DEF EndComing
    <3>5. Found' = Found /\ pc' = pc
      BY <1>1 DEF Found
    <3> QED BY <1>4, <2>4, <3>2, <3>3, <3>4, <3>5 DEF ServedOne
  <2>5. Served'
    BY <1>1, <2>4 DEF Served, ServedOne
  <2> QED BY <2>2, <2>3, <2>5 DEF SetInv
<1> QED BY <1>5, <1>6

\* The bricks of a new client are about to be read.
LEMMA SetConnect ==
    ASSUME Typed, IsSet, SetInv, HandleConnect
    PROVE  SetInv'
<1> DEFINE h == Head(register)
<1>1. /\ loop = "select" /\ ~ownStop /\ stops = 0 /\ toClose = {} /\ register # <<>>
      /\ register' = Tail(register) /\ clients' = clients \cup {h}
      /\ loop' = "reading" /\ reader' = h /\ shown' = Said /\ snap' = final
      /\ cl' = cl /\ toClose' = toClose
      /\ UNCHANGED <<kind, listed, status, stops, ownStop, unregister, changes,
                     bricks, producer, out, pc, final, missing>>
  BY DEF HandleConnect, SetInv, Looping, bricks, producer
<1>2. h \in Clients /\ In(register, h) /\ (\A d : In(Tail(register), d) => In(register, d))
      /\ clients \subseteq Clients
  <2>1. register \in Seq(Clients) /\ clients \subseteq Clients
    BY DEF Typed, ChannelsTyped, RuntimeTyped
  <2>2. Head(register) \in Clients
    BY <1>1, <2>1
  <2> QED BY <1>1, <2>1, <2>2, ClientQueues
<1> HIDE DEF h
<1>3. Found' = Found /\ BricksRead' = Found /\ Over' = Over
  BY <1>1 DEF Found, BricksRead, Over
<1>4. h # All
  BY <1>2, Capacities
<1>5. Registered'
  BY <1>1, <1>2 DEF SetInv, Registered
<1>6. Looping'
  BY <1>1, <1>2 DEF SetInv, Looping
<1>7. Bricks' /\ Farewell'
  BY <1>1 DEF SetInv, Bricks, Farewell, bricks, producer
<1>8. Closing'
  BY <1>1, <1>3 DEF SetInv, Closing
<1>9. Words'
  <2>1. WordsComing'
    <3>1. shown' = "completed" => Over
      BY <1>1 DEF Said, SetInv, Bricks, Over
    <3> QED BY <1>1, <1>3, <1>4, <3>1 DEF SetInv, Words, WordsComing, ChangeOK
  <2>2. \A c \in Clients : WordsOf(c)'
    BY <1>1, <1>3 DEF SetInv, Words, WordsOf
  <2> QED BY <2>1, <2>2 DEF Words, WordsComing, WordsOf
<1>10. ASSUME NEW c \in clients', listed
       PROVE  ServedOne(c)'
  <2>1. CASE c = h
    <3>1. Found' \subseteq Coming(c)'
      BY <1>1, <1>3, <2>1 DEF Coming
    <3>2. pc' \in {"wait", "ended"} => EndComing(c)'
      BY <1>1, <2>1 DEF EndComing, Said, SetInv, Bricks
    <3> QED BY <3>1, <3>2 DEF ServedOne
  <2>2. CASE c # h
    <3>1. ServedOne(c) /\ c \in clients
      BY <1>1, <1>10, <2>2 DEF SetInv, Served, ServedOne
    <3>2. Coming(c) \subseteq Coming(c)' /\ (EndComing(c) => EndComing(c)')
      BY <1>1 DEF Coming, EndComing, ItemsOf, EndIn
    <3> QED BY <1>1, <1>3, <3>1, <3>2 DEF ServedOne
  <2> QED BY <2>1, <2>2
<1>11. Served'
  BY <1>1, <1>10 DEF Served, ServedOne
<1> QED BY <1>5, <1>6, <1>7, <1>8, <1>9, <1>11 DEF SetInv

\* The loop, which is in its select, begins something that reads no bricks.
LEMMA LoopLeaves ==
    ASSUME Typed, SetInv, UNCHANGED <<kind, status, reader, shown, snap, register, changes,
                                      bricks, producer, cl>>,
           loop = "select", loop' \in {"select", "closing"}, listed' => listed,
           clients' \subseteq clients,
           \A c \in Clients : In(unregister', c) => In(unregister, c),
           \A c \in clients \ clients' : cl[c].conn = "closed"
    PROVE  Registered' /\ Bricks' /\ Words' /\ Served' /\ (~ownStop' => Closing' /\ Farewell')
<1>1. UNCHANGED <<final, missing, out, pc>> /\ clients \subseteq Clients
  BY DEF bricks, producer, Typed, RuntimeTyped
<1>2. Found' = Found
  BY <1>1 DEF Found
<1>3. Registered'
  BY DEF SetInv, Registered
<1>4. Bricks'
  BY DEF SetInv, Bricks, bricks, producer
<1>5. Words'
  <2>1. WordsComing'
    BY <1>1 DEF SetInv, Words, WordsComing, ChangeOK, Over
  <2>2. \A c \in Clients : WordsOf(c)'
    BY <1>1, <1>2 DEF SetInv, Words, WordsOf, Over
  <2> QED BY <2>1, <2>2 DEF Words, WordsComing, WordsOf
<1>6. ASSUME NEW c \in clients, listed
      PROVE  ServedOne(c)'
  <2>1. ServedOne(c)
    BY <1>6 DEF SetInv, Served, ServedOne
  <2>2. Coming(c) \subseteq Coming(c)' /\ (EndComing(c) => EndComing(c)')
    BY <1>1 DEF Coming, EndComing, ItemsOf, EndIn
  <2> QED BY <1>1, <1>2, <2>1, <2>2 DEF ServedOne
<1>7. Served'
  BY <1>6 DEF Served, ServedOne
<1>8. ~ownStop' => Closing' /\ Farewell'
  BY <1>2 DEF SetInv, Closing, Farewell
<1> QED BY <1>3, <1>4, <1>5, <1>7, <1>8

\* Only clients whose connection is closed leave the list.
LEMMA SetDisconnect ==
    ASSUME Typed, IsSet, SetInv, HandleDisconnect
    PROVE  SetInv'
<1>1. /\ loop = "select" /\ unregister # <<>> /\ ~ownStop /\ stops = 0 /\ toClose = {}
      /\ unregister' = Tail(unregister) /\ clients' = clients \ {Head(unregister)}
      /\ UNCHANGED <<kind, listed, status, loop, reader, shown, snap, toClose, stops,
                     ownStop, register, changes, bricks, producer, cl>>
  BY DEF HandleDisconnect, SetInv, Looping
<1>2. Head(unregister) \in Clients /\ In(unregister, Head(unregister))
      /\ (\A d : In(Tail(unregister), d) => In(unregister, d))
  <2>1. unregister \in Seq(Clients)
    BY DEF Typed, ChannelsTyped
  <2>2. Head(unregister) \in Clients
    BY <1>1, <2>1
  <2> QED BY <1>1, <2>1, <2>2, ClientQueues
<1>3. cl[Head(unregister)].conn = "closed"
  BY <1>2 DEF SetInv, Registered
<1>4. clients' \subseteq clients /\ \A c \in clients \ clients' : cl[c].conn = "closed"
  BY <1>1, <1>3
<1>5. Registered' /\ Bricks' /\ Words' /\ Served' /\ (~ownStop' => Closing' /\ Farewell')
  BY <1>1, <1>2, <1>4, LoopLeaves
<1>6. Looping'
  BY <1>1 DEF SetInv, Looping, producer
<1> QED BY <1>1, <1>5, <1>6 DEF SetInv

\* Silent clients are about to be closed.
LEMMA SetExpire ==
    ASSUME Typed, IsSet, SetInv, Expire
    PROVE  SetInv'
<1>1. /\ loop = "select" /\ ~ownStop /\ stops = 0 /\ toClose' \subseteq clients
      /\ loop' = "closing"
      /\ UNCHANGED <<kind, listed, status, reader, shown, snap, stops, ownStop, clients,
                     register, unregister, changes, bricks, producer, cl>>
  BY DEF Expire, SetInv, Looping, channels
<1>2. Registered' /\ Bricks' /\ Words' /\ Served' /\ (~ownStop' => Closing' /\ Farewell')
  BY <1>1, LoopLeaves
<1>3. Looping'
  BY <1>1 DEF SetInv, Looping
<1> QED BY <1>1, <1>2, <1>3 DEF SetInv

\* A stop that is not the fetch's own.
LEMMA SetOtherStop ==
    ASSUME Typed, IsSet, SetInv, Timeout \/ OtherStop
    PROVE  SetInv'
<1>1. /\ loop = "select" /\ ~ownStop /\ ~ownStop' /\ stops' = 1 /\ toClose' = clients
      /\ loop' = "closing"
      /\ UNCHANGED <<kind, listed, status, reader, shown, snap, clients,
                     register, unregister, changes, bricks, producer, cl>>
  BY DEF Timeout, OtherStop, BeginStop, StopsOnReturn, Idle, SetInv, Looping, channels
<1>2. Registered' /\ Bricks' /\ Words' /\ Served' /\ (~ownStop' => Closing' /\ Farewell')
  BY <1>1, LoopLeaves
<1>3. Looping'
  BY <1>1 DEF SetInv, Looping
<1> QED BY <1>1, <1>2, <1>3 DEF SetInv

\* The maps forget a runtime set that has failed.
LEMMA SetReplace ==
    ASSUME Typed, IsSet, SetInv, Replace
    PROVE  SetInv'
<1>1. /\ listed' = FALSE
      /\ UNCHANGED <<kind, status, reader, shown, snap, clients, register, unregister, changes,
                     bricks, producer, cl>>
  BY DEF Replace, channels
<1>2. Served'
  BY <1>1 DEF Served
<1>3. CASE Idle /\ BeginStop(1, FALSE)
  <2>1. /\ loop = "select" /\ ~ownStop' /\ stops' = 1 /\ toClose' = clients /\ loop' = "closing"
    BY <1>3 DEF Idle, BeginStop
  <2>2. Registered' /\ Bricks' /\ Words' /\ Served' /\ (~ownStop' => Closing' /\ Farewell')
    BY <1>1, <2>1, LoopLeaves
  <2>3. Looping'
    BY <1>1, <2>1 DEF SetInv, Looping
  <2> QED BY <2>1, <2>2, <2>3 DEF SetInv
<1>4. CASE UNCHANGED <<loop, stops, toClose, ownStop>>
  <2>1. UNCHANGED <<final, missing, todo, moving, pc, out>> /\ Found' = Found
    BY <1>1 DEF bricks, producer, Found
  <2>2. Registered' /\ Looping' /\ Bricks'
    BY <1>1, <1>4, <2>1 DEF SetInv, Registered, Looping, Bricks
  <2>3. Words'
    BY <1>1, <1>4, <2>1 DEF SetInv, Words, ChangeOK, Over
  <2>4. Farewell' /\ Closing'
    BY <1>1, <1>4, <2>1 DEF SetInv, Farewell, Closing
  <2> QED BY <1>2, <2>2, <2>3, <2>4 DEF SetInv
<1> QED BY <1>3, <1>4 DEF Replace

\* The fetch's own stop, which the loop hears with nothing left in its queues: all
\* there is to know is in the clients' buffers.
LEMMA SetOwnStop ==
    ASSUME Typed, IsSet, SetInv, StopRuntimeSet
    PROVE  SetInv'
<1>1. /\ pc = "wait" /\ pc' = "ended" /\ out = <<>> /\ clients \subseteq Clients
      /\ UNCHANGED <<kind, listed, status, reader, shown, snap, clients, register, unregister,
                     changes, final, missing, todo, moving, out, found, cl>>
  BY DEF StopRuntimeSet, channels, bricks, Typed, RuntimeTyped
<1>2. Found' = Found
  BY <1>1 DEF Found
<1>3. Registered'
  BY <1>1 DEF SetInv, Registered
<1>4. Bricks'
  BY <1>1 DEF SetInv, Bricks
<1>5. \A c \in Clients : WordsOf(c)'
  BY <1>1, <1>2 DEF SetInv, Words, WordsOf, Over
<1>6. ASSUME NEW c \in clients, listed, loop # "ended"
      PROVE  ServedOne(c)
  BY <1>6 DEF SetInv, Served, ServedOne
<1>7. CASE listed /\ Idle /\ BeginStop(1, TRUE)
  <2>1. /\ loop = "select" /\ changes = <<>> /\ ~ownStop /\ loop' = "closing" /\ stops' = 1
        /\ toClose' = clients /\ ownStop'
    BY <1>7 DEF Idle, BeginStop, SetInv, Looping
  <2>2. Looping'
    BY <1>1, <2>1 DEF SetInv, Looping
  <2>3. WordsComing'
    BY <1>1, <2>1 DEF SetInv, Words, WordsComing, ChangeOK
  <2>4. ASSUME NEW c \in clients, Good(cl[c])
        PROVE  Found \subseteq Held(cl[c]) /\ HeldEnd(cl[c])
    <3>1. ServedOne(c)
      BY <1>6, <1>7, <2>1, <2>4
    <3>2. Coming(c) = {} /\ ~EndComing(c)
      BY <1>1, <2>1, QueueEmpty DEF Coming, EndComing
    <3> QED BY <1>1, <2>4, <3>1, <3>2 DEF ServedOne
  <2>5. Farewell'
    BY <1>1, <1>2, <2>4 DEF Farewell
  <2>6. Served'
    <3>1. ASSUME NEW c \in clients, Good(cl[c])
          PROVE  ServedOne(c)'
      BY <1>1, <1>2, <2>4, <3>1 DEF ServedOne
    <3> QED BY <1>1, <3>1 DEF Served, ServedOne
  <2>7. Closing'
    <3>1. \A c \in Clients : ~cl[c].bye
      BY <2>1 DEF SetInv, Closing
    <3> QED BY <1>1, <2>1, <3>1 DEF SetInv, Closing
  <2>8. Words'
    BY <1>5, <2>3 DEF Words, WordsComing, WordsOf
  <2> QED BY <1>3, <1>4, <2>2, <2>5, <2>6, <2>7, <2>8 DEF SetInv
<1>8. CASE UNCHANGED <<loop, stops, toClose, ownStop>>
  <2>1. ~ownStop
    BY <1>1 DEF SetInv, Looping
  <2>2. Looping' /\ Farewell' /\ Closing'
    BY <1>1, <1>2, <1>8, <2>1 DEF SetInv, Looping, Farewell, Closing
  <2>3. WordsComing'
    BY <1>1, <1>8 DEF SetInv, Words, WordsComing, ChangeOK, Over
  <2>4. ASSUME NEW c \in clients, listed, loop # "ended"
        PROVE  ServedOne(c)'
    <3>1. Coming(c)' = Coming(c) /\ EndComing(c)' = EndComing(c)
      BY <1>1, <1>8 DEF Coming, EndComing, ItemsOf, EndIn, BricksRead
    <3> QED BY <1>1, <1>2, <1>6, <2>4, <3>1 DEF ServedOne
  <2>5. Served'
    BY <1>1, <1>8, <2>4 DEF Served, ServedOne
  <2>6. Words'
    BY <1>5, <2>3 DEF Words, WordsComing, WordsOf
  <2> QED BY <1>3, <1>4, <2>2, <2>5, <2>6 DEF SetInv
<1> QED BY <1>7, <1>8 DEF StopRuntimeSet

\* Close messages go to clients that are thrown out, or to all at the end.
LEMMA SetCloseClients ==
    ASSUME Typed, IsSet, SetInv, CloseClients
    PROVE  SetInv'
<1>1. /\ loop = "closing" /\ toClose \subseteq clients /\ clients \subseteq Clients
      /\ stops \in {0, 1} /\ toClose' = {}
      /\ \/ stops = 0 /\ loop' = "select" /\ stops' = 0 /\ listed' = listed /\ ~ownStop
         \/ stops = 1 /\ loop' = "ended" /\ stops' = 0 /\ listed' = FALSE
      /\ UNCHANGED <<kind, status, reader, shown, snap, ownStop, clients, register, unregister,
                     changes, final, missing, todo, moving, pc, out, bricks, producer>>
  BY DEF CloseClients, SetInv, Looping, Typed, RuntimeTyped, channels, bricks, producer
<1>2. (\A c \in toClose : cl'[c] = Dismissed(c)) /\ (\A c \in Clients \ toClose : cl'[c] = cl[c])
  BY CloseClientsFacts
<1>3. \A c \in Clients : /\ SameSide(cl[c], cl'[c]) /\ Keeps(cl[c], cl'[c])
                         /\ cl'[c].hand = cl[c].hand
                         /\ cl'[c].send = cl[c].send \/ cl'[c].send = Append(cl[c].send, Close)
  <2> TAKE c \in Clients
  <2>1. CASE c \in toClose
    BY <1>2, <2>1, CloseFacts
  <2>2. CASE c \notin toClose
    BY <1>2, <2>2 DEF SameSide, Keeps
  <2> QED BY <2>1, <2>2
<1>4. Found' = Found
  BY <1>1 DEF Found
<1>5. Registered'
  <2>1. ASSUME NEW c \in Clients
        PROVE  RegisteredOne(c)' /\ Enrolled(c)'
    <3>1. RegisteredOne(c) /\ Enrolled(c)
      BY RegisteredEach DEF SetInv
    <3>2. Enrolled(c)'
      BY <1>1, <1>3, <3>1 DEF Enrolled, SameSide
    <3>3. c \notin clients => cl'[c] = cl[c]
      BY <1>1, <1>2
    <3>4. RegisteredOne(c)'
      BY <1>1, <1>3, <3>1, <3>3 DEF RegisteredOne, SameSide
    <3> QED BY <3>2, <3>4
  <2> QED BY <2>1 DEF Registered, RegisteredOne, Enrolled
<1>6. Looping'
  BY <1>1 DEF SetInv, Looping
<1>7. Bricks'
  BY <1>1 DEF SetInv, Bricks
<1>8. Words'
  <2>1. WordsComing'
    BY <1>1 DEF SetInv, Words, WordsComing, ChangeOK, Over
  <2>2. ASSUME NEW c \in Clients
        PROVE  WordsOf(c)'
    <3>1. WordsOf(c) /\ ClientOK(cl[c]) /\ Close \in Messages /\ Close.type = "close"
      BY OneClient, PacketFacts DEF SetInv, Words, WordsOf
    <3>2. \A i \in DOMAIN cl'[c].send :
            cl'[c].send[i] = Close \/ \E j \in DOMAIN cl[c].send : cl'[c].send[i] = cl[c].send[j]
      <4>1. PICK r : r = cl[c]
        OBVIOUS
      <4>2. PICK n : n = cl'[c]
        OBVIOUS
      <4>3. n.send = r.send \/ n.send = Append(r.send, Close)
        BY <1>3, <4>1, <4>2
      <4>4. \A i \in DOMAIN n.send : n.send[i] = Close \/ \E j \in DOMAIN r.send : n.send[i] = r.send[j]
        BY <3>1, <4>1, <4>3, GivenFrom
      <4> QED BY <4>1, <4>2, <4>4
    <3> QED BY <1>1, <1>4, <3>1, <3>2 DEF WordsOf, Over
  <2> QED BY <2>1, <2>2 DEF Words, WordsComing, WordsOf
<1>9. Served'
  <2>1. ASSUME NEW c \in clients, listed, stops = 0
        PROVE  ServedOne(c)'
    <3>1. ServedOne(c)
      BY <1>1, <2>1 DEF SetInv, Served, ServedOne
    <3>2. Coming(c) \subseteq Coming(c)' /\ (EndComing(c) => EndComing(c)')
      BY <1>1 DEF Coming, EndComing, ItemsOf, EndIn
    <3>3. Keeps(cl[c], cl'[c])
      BY <1>1, <1>3
    <3> QED BY <1>1, <1>4, <3>1, <3>2, <3>3 DEF ServedOne, Keeps
  <2> QED BY <1>1, <2>1 DEF Served, ServedOne
<1>10. Farewell'
  <2>1. ASSUME NEW c \in clients, ownStop, Good(cl'[c])
        PROVE  Found \subseteq Held(cl'[c]) /\ HeldEnd(cl'[c])
    <3>1. Keeps(cl[c], cl'[c])
      BY <1>1, <1>3
    <3> QED BY <2>1, <3>1 DEF SetInv, Farewell, Keeps
  <2> QED BY <1>1, <1>4, <2>1 DEF Farewell
<1>11. ASSUME NEW c \in Clients
       PROVE  ClosingOK(c)'
  <2>1. ClosingOK(c) /\ ClientOK(cl[c]) /\ ~cl[c].bye /\ ~cl'[c].bye
    BY <1>1, <1>3, OneClient DEF SetInv, Closing, ClosingOK, SameSide
  <2>2. ASSUME Fine(cl'[c])
        PROVE  CloseLast(cl'[c]) /\ (loop' # "ended" => Quiet(cl'[c]))
    <3>1. Quiet(cl[c])
      BY <1>1, <1>3, <2>1, <2>2 DEF ClosingOK, Keeps
    <3>2. CASE c \in toClose
      <4>1. stops # 0
        BY <1>2, <2>2, <3>2, CloseFacts
      <4>2. CloseLast(cl'[c])
        BY <1>3, <2>1, <3>1, GivenQuiet, PacketFacts
      <4> QED BY <1>1, <4>1, <4>2
    <3>3. CASE c \notin toClose
      BY <1>2, <3>1, <3>3, QuietIsLast
    <3> QED BY <3>2, <3>3
  <2> QED BY <2>1, <2>2 DEF ClosingOK
<1>12. Closing'
  BY <1>11 DEF Closing, ClosingOK
<1> QED BY <1>5, <1>6, <1>7, <1>8, <1>9, <1>10, <1>12 DEF SetInv

----------------------------------------------------------------------------
(* The fetch *)

\* Nobody's bricks or word are lost in a step of the fetch.
Delivers ==
    /\ Found' \subseteq Found \cup ItemsOf(changes') \cup ItemsOf(out')
    /\ missing \cap Found' \subseteq missing' \cup ItemsOf(out')
    /\ ItemsOf(changes) \cup ItemsOf(out) \subseteq ItemsOf(changes') \cup ItemsOf(out')
    /\ EndIn(changes) \/ EndIn(out) => EndIn(changes') \/ EndIn(out')
    /\ pc' \in {"wait", "ended"} => pc \in {"wait", "ended"} \/ EndIn(changes') \/ EndIn(out')

\* What the fetch does to its runtime set.
Fetches ==
    /\ ~ownStop
    /\ UNCHANGED <<kind, listed, loop, reader, shown, snap, toClose, stops, ownStop, clients,
                   register, unregister, cl>>
    /\ Over => Over' /\ UNCHANGED <<final, missing>>
    /\ Bricks'
    /\ (\A i \in DOMAIN changes : ChangeOK(changes[i]))'
    /\ (\A i \in DOMAIN out : ChangeOK(out[i]))'
    /\ listed => Delivers

\* What the fetch finds is on its way before anybody can miss it.
LEMMA FetchStep ==
    ASSUME Typed, SetInv, Fetches
    PROVE  SetInv'
<1>1. clients \subseteq Clients
  BY ListedClients
<1>2. Over => Over' /\ Found' = Found
  BY DEF Fetches, Found
<1>3. Registered' /\ Looping' /\ Bricks' /\ Farewell'
  BY DEF SetInv, Fetches, Registered, Looping, Farewell
<1>4. Closing'
  BY DEF SetInv, Fetches, Closing
<1>5. Words'
  <2>1. WordsComing'
    <3>1. loop = "reading" /\ (reader = All \/ shown = "completed") => Over' /\ snap = final'
      BY DEF SetInv, Words, Fetches
    <3> QED BY <3>1 DEF Fetches, WordsComing
  <2>2. \A c \in Clients : WordsOf(c)'
    BY <1>2 DEF SetInv, Words, WordsOf, Fetches
  <2> QED BY <2>1, <2>2 DEF Words, WordsComing, WordsOf
<1>6. ASSUME NEW c \in clients, listed, loop # "ended"
      PROVE  ServedOne(c)'
  <2>1. ServedOne(c) /\ Delivers
    BY <1>6 DEF SetInv, Served, ServedOne, Fetches
  <2>2. UNCHANGED <<cl, loop, reader, shown, snap>>
    BY DEF Fetches
  <2>3. SUFFICES ASSUME Good(cl[c])
                 PROVE  /\ Found' \subseteq Held(cl[c]) \cup Coming(c)'
                        /\ pc' \in {"wait", "ended"} => HeldEnd(cl[c]) \/ EndComing(c)'
    BY <2>2 DEF ServedOne
  <2>4. ItemsOf(changes') \cup ItemsOf(out') \subseteq Coming(c)'
    BY DEF Coming, ItemsOf
  <2>5. ASSUME NEW x \in Found'
        PROVE  x \in Held(cl[c]) \cup Coming(c)'
    <3>1. CASE x \in ItemsOf(changes') \cup ItemsOf(out')
      BY <2>4, <3>1
    <3>2. CASE x \in Held(cl[c])
      BY <3>2
    <3>3. CASE loop = "reading" /\ reader = c /\ x \in BricksRead
      <4>1. x \in snap \/ x \in missing' \/ x \in ItemsOf(out')
        BY <2>1, <2>5, <3>3 DEF BricksRead, Delivers
      <4>2. snap \cup missing' \subseteq Coming(c)'
        BY <2>2, <3>3 DEF Coming, BricksRead
      <4> QED BY <2>4, <4>1, <4>2
    <3>4. x \in Found \cup ItemsOf(changes') \cup ItemsOf(out')
      BY <2>1, <2>5 DEF Delivers
    <3>5. x \in Found => x \in Held(cl[c]) \cup Coming(c)
      BY <2>1, <2>3 DEF ServedOne
    <3>6. x \in Coming(c) => \/ x \in ItemsOf(changes') \cup ItemsOf(out')
                             \/ loop = "reading" /\ reader = c /\ x \in BricksRead
      BY <2>1 DEF Coming, Delivers
    <3> QED BY <3>1, <3>2, <3>3, <3>4, <3>5, <3>6
  <2>6. pc' \in {"wait", "ended"} => HeldEnd(cl[c]) \/ EndComing(c)'
    <3>1. EndIn(changes') \/ EndIn(out') => EndComing(c)'
      BY DEF EndComing, EndIn
    <3>2. EndComing(c) => EndComing(c)'
      BY <2>1, <2>2, <3>1 DEF EndComing, Delivers
    <3> QED BY <2>1, <2>3, <3>1, <3>2 DEF ServedOne, Delivers
  <2> QED BY <2>5, <2>6
<1>7. Served'
  BY <1>6 DEF Served, ServedOne, Fetches
<1> QED BY <1>3, <1>4, <1>5, <1>7 DEF SetInv

\* Only a fetch that is over can have stopped its runtime set.
LEMMA NotStopped ==
    ASSUME SetInv, \/ out # <<>> \/ moving # {} \/ pc # "ended"
    PROVE  ~ownStop
BY DEF SetInv, Looping, Bricks

\* A change moves from the fetch to the channel.
LEMMA SetPush ==
    ASSUME Typed, IsSet, SetInv, PushLookup \/ PushSend
    PROVE  SetInv'
<1>1. /\ out # <<>> /\ out \in Seq(Messages) /\ changes \in Seq(Messages) /\ ~ownStop
      /\ UNCHANGED <<kind, listed, status, loop, reader, shown, snap, toClose, stops, ownStop,
                     clients, register, unregister, final, missing, pc, todo, moving, cl>>
  BY NotStopped DEF PushLookup, PushSend, runtime, channels, bricks, Typed, ProducerTyped, ChannelsTyped
<1>2. /\ Head(out) \in Messages /\ Adds(Tail(out), Head(out), out) /\ ChangeOK(Head(out))
      /\ \A i \in DOMAIN Tail(out) : ChangeOK(Tail(out)[i])
  BY <1>1, QueueTail DEF SetInv, Words
<1>3. \/ changes' = changes /\ out' = out
      \/ changes' = changes /\ ~listed /\ out' = Tail(out)
      \/ changes' = Append(changes, Head(out)) /\ out' = Tail(out)
  BY DEF PushLookup, PushSend, channels
<1>4. Found' = Found
  BY <1>1 DEF Found
<1>5. Bricks'
  BY <1>1 DEF SetInv, Bricks
<1>6. (\A i \in DOMAIN out : ChangeOK(out[i]))'
  BY <1>1, <1>2, <1>3 DEF SetInv, Words, ChangeOK, Over
<1>7. \A i \in DOMAIN Append(changes, Head(out)) : ChangeOK(Append(changes, Head(out))[i])
  <2>1. \A i \in DOMAIN changes : ChangeOK(changes[i])
    BY DEF SetInv, Words
  <2> QED BY <1>1, <1>2, <2>1, QueueAppend
<1>8. (\A i \in DOMAIN changes : ChangeOK(changes[i]))'
  BY <1>1, <1>3, <1>7 DEF SetInv, Words, ChangeOK, Over
<1>9. ASSUME listed
      PROVE  Delivers
  <2>1. CASE changes' = changes /\ out' = out
    BY <1>1, <1>4, <2>1 DEF Delivers, ItemsOf, EndIn
  <2>2. CASE changes' = Append(changes, Head(out)) /\ out' = Tail(out)
    <3>1. Adds(changes, Head(out), changes')
      BY <1>1, <1>2, <2>2, QueueAppend
    <3>2. /\ ItemsOf(changes') = ItemsOf(changes) \cup Head(out).items
          /\ ItemsOf(out) = ItemsOf(out') \cup Head(out).items
      BY <1>2, <2>2, <3>1 DEF Adds
    <3>3. /\ EndIn(changes') <=> EndIn(changes) \/ Ends(Head(out))
          /\ EndIn(out) <=> EndIn(out') \/ Ends(Head(out))
      BY <1>2, <2>2, <3>1 DEF Adds
    <3> QED BY <1>1, <1>4, <3>2, <3>3 DEF Delivers
  <2> QED BY <1>3, <1>9, <2>1, <2>2
<1>10. Over => Over'
  BY <1>1 DEF Over
<1>11. Fetches
  BY <1>1, <1>5, <1>6, <1>8, <1>9, <1>10 DEF Fetches
<1> QED BY <1>11, FetchStep

\* A step of a fetch that is not over, and what it then pushes.
LEMMA FetchPushes ==
    ASSUME Typed, IsSet, SetInv, ~ownStop, out = <<>>, Bricks',
           UNCHANGED <<kind, listed, loop, reader, shown, snap, toClose, stops, ownStop, clients,
                       register, unregister, changes, cl>>,
           ~Over, Found' \subseteq Found \cup ItemsOf(out'),
           missing \cap Found' \subseteq missing' \cup ItemsOf(out'),
           \A i \in DOMAIN out' : out'[i].type = "completed" => out'[i].items = {} /\ Over',
           pc' \in {"wait", "ended"} => pc \in {"wait", "ended"} \/ EndIn(out')
    PROVE  SetInv'
<1>1. ~EndIn(out) /\ ItemsOf(out) = {}
  BY QueueEmpty
<1>2. /\ ItemsOf(changes') = ItemsOf(changes)
      /\ EndIn(changes') <=> EndIn(changes)
  OBVIOUS
<1>3. Delivers
  BY <1>1, <1>2 DEF Delivers
<1>4. (\A i \in DOMAIN changes : ChangeOK(changes[i]))'
  BY DEF SetInv, Words, ChangeOK
<1>5. (\A i \in DOMAIN out : ChangeOK(out[i]))'
  BY DEF ChangeOK
<1>6. Fetches
  BY <1>3, <1>4, <1>5 DEF Fetches
<1> QED BY <1>6, FetchStep

\* What the pushes say.
NotDone(q) == \A i \in DOMAIN q : q[i].type # "completed"

\* What the pushes of a step amount to.
LEMMA OutSays ==
    /\ NotDone(<<>>) /\ NotDone(<<Update>>) /\ NotDone(<<News>>) /\ NotDone(<<News, News>>)
    /\ NotDone(<<Failed>>)
    /\ EndIn(<<Failed>>) /\ EndIn(<<Completed>>)
    /\ \A i \in DOMAIN <<Completed>> : <<Completed>>[i].items = {}
    /\ \A b \in Items : NotDone(Progress(b)) /\ ItemsOf(Progress(b)) = {b}
<1>1. /\ {Update, News, Completed, Failed} \subseteq Messages
      /\ Update.type = "data" /\ News.type = "news"
      /\ Failed.type = "failed" /\ Completed.type = "completed" /\ Completed.items = {}
      /\ News.items = {}
  BY PacketFacts
<1>2. ASSUME NEW m \in Messages, NEW n \in Messages, m.type # "completed", n.type # "completed"
      PROVE  NotDone(<<m>>) /\ NotDone(<<m, n>>)
  <2>1. (\A i \in DOMAIN <<m>> : <<m>>[i] = m) /\ \A i \in DOMAIN <<m, n>> : <<m, n>>[i] \in {m, n}
    BY QueueSmall
  <2> QED BY <1>2, <2>1 DEF NotDone
<1>3. NotDone(<<>>)
  BY DEF NotDone
<1>4. /\ NotDone(<<Update>>) /\ NotDone(<<News>>) /\ NotDone(<<News, News>>)
      /\ NotDone(<<Failed>>)
  BY <1>1, <1>2
<1>5. EndIn(<<Failed>>) /\ EndIn(<<Completed>>) /\ \A i \in DOMAIN <<Completed>> : <<Completed>>[i] = Completed
  BY <1>1, QueueSmall DEF Ends
<1>6. ASSUME NEW b \in Items
      PROVE  NotDone(Progress(b)) /\ ItemsOf(Progress(b)) = {b}
  <2>1. {b} \in SUBSET Items
    OBVIOUS
  <2>2. Packet("data", {b}) \in Messages /\ Packet("data", {b}).type = "data"
        /\ Packet("data", {b}).items = {b}
    BY <2>1, PacketFacts
  <2>3. NotDone(Progress(b))
    BY <1>1, <1>2, <2>2 DEF Progress
  <2>4. ItemsOf(Progress(b)) = Packet("data", {b}).items \cup News.items
    BY <1>1, <2>2, QueueSmall DEF Progress
  <2> QED BY <1>1, <2>2, <2>3, <2>4
<1> QED BY <1>1, <1>3, <1>4, <1>5, <1>6

\* The state a fetch that is not over starts its steps from.
Fetching ==
    /\ Typed /\ IsSet /\ SetInv /\ out = <<>> /\ pc \notin {"wait", "ended"}
    /\ UNCHANGED <<kind, listed, loop, reader, shown, snap, toClose, stops, ownStop, clients,
                   register, unregister, changes, cl>>

\* The same for what such a step changes.
LEMMA FetchingStep ==
    ASSUME Fetching, Bricks', Found' \subseteq Found \cup ItemsOf(out'),
           missing \cap Found' \subseteq missing' \cup ItemsOf(out'),
           NotDone(out') \/ (Over' /\ \A i \in DOMAIN out' : out'[i].items = {}),
           pc' \in {"wait", "ended"} => EndIn(out')
    PROVE  SetInv'
<1>1. ~ownStop /\ ~Over
  BY NotStopped DEF Fetching, SetInv, Bricks, Over
<1> QED BY <1>1, FetchPushes DEF Fetching, NotDone

\* The fetch begins.
LEMMA SetBegin ==
    ASSUME Typed, IsSet, SetInv, Begin
    PROVE  SetInv'
<1>1. /\ Fetching /\ pc = "begin" /\ UNCHANGED <<final, missing, todo, moving>>
      /\ status' = "fetching" /\ NotDone(out')
      /\ pc' = IF kind = "complete" THEN "fetch" ELSE "inventory"
  BY OutSays DEF Begin, Fetching, SetInv, Bricks, channels, bricks
<1>2. Bricks'
  <2>1. todo = {} /\ moving = {}
    BY <1>1 DEF SetInv, Bricks
  <2> QED BY <1>1, <2>1 DEF Fetching, SetInv, Bricks
<1> QED BY <1>1, <1>2, FetchingStep DEF Found

\* The parts list arrives, or an empty one.
LEMMA SetFetchInventory ==
    ASSUME Typed, IsSet, SetInv, FetchInventory
    PROVE  SetInv'
<1>1. /\ Fetching /\ pc = "fetch" /\ UNCHANGED <<final, missing, moving, out, status>>
      /\ NotDone(out')
      /\ \/ todo' = Items /\ pc' = "inventory"
         \/ todo' = {} /\ pc' = "prices"
  BY OutSays DEF FetchInventory, Fetching, runtime, channels, bricks, NotDone
<1>2. Bricks'
  BY <1>1 DEF Fetching, SetInv, Bricks
<1> QED BY <1>1, <1>2, FetchingStep DEF Found

\* The fetch fails and says so.
LEMMA SetFetchFails ==
    ASSUME Typed, IsSet, SetInv, FetchFails
    PROVE  SetInv'
<1>1. /\ Fetching /\ pc = "fetch" /\ UNCHANGED <<final, missing, todo, moving>>
      /\ status' = "failed" /\ pc' = "wait" /\ out' = <<Failed>>
  BY DEF FetchFails, Fetching, channels, bricks
<1>2. NotDone(out') /\ EndIn(out')
  BY <1>1, OutSays
<1>3. Bricks'
  BY <1>1 DEF Fetching, SetInv, Bricks
<1> QED BY <1>1, <1>2, <1>3, FetchingStep DEF Found

\* A brick of the parts list is stored and announced.
LEMMA SetStoreBrick ==
    ASSUME Typed, IsSet, SetInv, StoreBrick
    PROVE  SetInv'
<1>1. Fetching /\ pc = "inventory" /\ UNCHANGED <<moving, status, pc>>
  BY DEF StoreBrick, Fetching, runtime, channels
<1>2. PICK b \in todo : /\ \/ final' = final \cup {b} /\ missing' = missing
                           \/ missing' = missing \cup {b} /\ final' = final
                        /\ todo' = todo \ {b} /\ out' = Progress(b)
  BY DEF StoreBrick
<1>3. b \in Items /\ NotDone(out') /\ ItemsOf(out') = {b}
  <2>1. b \in Items
    BY DEF Typed, ProducerTyped
  <2> QED BY <1>2, <2>1, OutSays
<1>4. Bricks'
  BY <1>1, <1>2 DEF Fetching, SetInv, Bricks
<1> QED BY <1>1, <1>2, <1>3, <1>4, FetchingStep DEF Found

\* The bricks without a price are next.
LEMMA SetFetchBricks ==
    ASSUME Typed, IsSet, SetInv, FetchBricks
    PROVE  SetInv'
<1>1. /\ Fetching /\ pc = "inventory" /\ UNCHANGED <<final, missing, moving, status>>
      /\ todo' = missing /\ pc' = "prices" /\ out' \in {<<>>, <<Update>>}
  BY DEF FetchBricks, Fetching, runtime, channels, bricks
<1>2. NotDone(out')
  BY <1>1, OutSays
<1>3. Bricks'
  BY <1>1 DEF Fetching, SetInv, Bricks
<1> QED BY <1>1, <1>2, <1>3, FetchingStep DEF Found

\* A brick with a price is nowhere for a moment: nobody is owed it then.
LEMMA SetRemoveMissing ==
    ASSUME Typed, IsSet, SetInv, RemoveMissing
    PROVE  SetInv'
<1>1. Fetching /\ pc = "prices" /\ UNCHANGED <<final, status, pc, out>> /\ NotDone(out')
  BY OutSays DEF RemoveMissing, Fetching, runtime, channels, NotDone
<1>2. PICK b \in todo : missing' = missing \ {b} /\ todo' = todo \ {b} /\ moving' = {b}
  BY DEF RemoveMissing
<1>3. b \in missing /\ final \cap missing = {}
  BY <1>1 DEF Fetching, SetInv, Bricks
<1>4. Bricks'
  BY <1>1, <1>2, <1>3 DEF Fetching, SetInv, Bricks
<1> QED BY <1>1, <1>2, <1>3, <1>4, FetchingStep DEF Found

\* It joins the final ones and is announced again.
LEMMA SetAppendFinal ==
    ASSUME Typed, IsSet, SetInv, AppendFinal
    PROVE  SetInv'
<1>1. PICK b \in moving : final' = final \cup {b} /\ out' = Progress(b)
  BY DEF AppendFinal
<1>2. Fetching /\ pc = "prices" /\ moving' = {} /\ UNCHANGED <<missing, status, pc, todo>>
  BY <1>1 DEF AppendFinal, Fetching, SetInv, Bricks, runtime, channels
<1>3. b \in Items /\ NotDone(out') /\ ItemsOf(out') = {b}
  <2>1. b \in Items
    BY <1>1 DEF Typed, ProducerTyped
  <2> QED BY <1>1, <2>1, OutSays
<1>4. Bricks'
  BY <1>1, <1>2 DEF Fetching, SetInv, Bricks
<1> QED BY <1>1, <1>2, <1>3, <1>4, FetchingStep DEF Found

\* A brick without a price stays where it is.
LEMMA SetKeepMissing ==
    ASSUME Typed, IsSet, SetInv, KeepMissing
    PROVE  SetInv'
<1>1. Fetching /\ pc = "prices" /\ UNCHANGED <<final, status, pc, moving>> /\ moving = {}
  BY DEF KeepMissing, Fetching, runtime, channels
<1>2. PICK b \in todo : missing' = missing \cup {b} /\ todo' = todo \ {b} /\ out' = Progress(b)
  BY DEF KeepMissing
<1>3. b \in missing /\ b \in Items /\ NotDone(out')
  <2>1. b \in missing /\ b \in Items
    BY <1>1 DEF Typed, ProducerTyped, Fetching, SetInv, Bricks
  <2> QED BY <1>2, <2>1, OutSays
<1>4. Bricks'
  BY <1>1, <1>2, <1>3 DEF Fetching, SetInv, Bricks
<1> QED BY <1>1, <1>2, <1>3, <1>4, FetchingStep DEF Found

\* The fetch is completed and says so.
LEMMA SetComplete ==
    ASSUME Typed, IsSet, SetInv, Complete
    PROVE  SetInv'
<1>1. /\ Fetching /\ pc = "prices" /\ UNCHANGED <<final, missing, todo, moving>> /\ moving = {}
      /\ status' = "completed" /\ pc' = "wait" /\ out' = <<Completed>>
  BY DEF Complete, Fetching, channels, bricks
<1>2. EndIn(out') /\ \A i \in DOMAIN out' : out'[i].items = {}
  BY <1>1, OutSays
<1>3. Bricks'
  BY <1>1 DEF Fetching, SetInv, Bricks
<1> QED BY <1>1, <1>2, <1>3, FetchingStep DEF Found, Over

\* A fetch processes no search.
LEMMA SetProducer ==
    ASSUME Typed, IsSet, SetInv, Producer
    PROVE  SetInv'
<1>1. ~ProcessItem /\ ~EndSearch
  BY DEF SetInv, Bricks, ProcessItem, EndSearch
<1> QED BY <1>1, SetPush, SetBegin, SetFetchInventory, SetFetchFails, SetStoreBrick, SetFetchBricks,
           SetRemoveMissing, SetAppendFinal, SetKeepMissing, SetComplete, SetOwnStop DEF Producer

----------------------------------------------------------------------------
(* The clients of a runtime set *)

\* Client c becomes n, in a way that suits its runtime set.
ClientSteps(c, n) ==
    /\ ClientOK(n) /\ ClientOnly(c, n) /\ changes' = changes
    /\ \A d \in Clients :
         /\ In(register', d) => In(register, d) \/ (d = c /\ n.conn \in {"open", "closed"})
         /\ In(unregister', d) => In(unregister, d) \/ (d = c /\ n.conn = "closed")
    /\ cl[c].conn \in {"open", "closed"} => n.conn \in {"open", "closed"}
    /\ cl[c].conn = "closed" => n.conn = "closed"
    /\ RegisteredOne(c)' /\ ClosingOK(c)'
    /\ c \in clients => Keeps(cl[c], n)
    /\ \A i \in DOMAIN n.send :
         n.send[i].type = "completed" => \E j \in DOMAIN cl[c].send : n.send[i] = cl[c].send[j]

\* Such a step keeps the invariant.
LEMMA ClientStep ==
    ASSUME Typed, SetInv, NEW c \in Clients, NEW n, ClientSteps(c, n)
    PROVE  SetInv'
<1>1. cl'[c] = n /\ \A d \in Clients \ {c} : cl'[d] = cl[d]
  BY ClientTyped DEF ClientSteps
<1>2. /\ changes' = changes
      /\ UNCHANGED <<kind, listed, status, loop, reader, shown, snap, toClose, stops, ownStop, clients,
                     final, missing, pc, todo, moving, out, found>>
  BY DEF ClientSteps, ClientOnly, runtime, bricks, producer
<1>3. Found' = Found /\ clients \subseteq Clients
  BY <1>2, ListedClients DEF Found
<1>4. \A d \in clients : Keeps(cl[d], cl'[d])
  BY <1>1, <1>3 DEF ClientSteps, Keeps
<1>5. Registered'
  <2>1. ASSUME NEW d \in Clients
        PROVE  RegisteredOne(d)' /\ Enrolled(d)'
    <3>1. RegisteredOne(d) /\ Enrolled(d)
      BY RegisteredEach DEF SetInv
    <3>2. CASE d = c
      <4>1. Enrolled(c)'
        BY <1>1, <1>2, <3>1, <3>2 DEF Enrolled, ClientSteps
      <4> QED BY <3>2, <4>1 DEF ClientSteps
    <3>3. CASE d # c
      BY <1>1, <1>2, <3>1, <3>3 DEF RegisteredOne, Enrolled, ClientSteps
    <3> QED BY <3>2, <3>3
  <2> QED BY <2>1 DEF Registered, RegisteredOne, Enrolled
<1>6. Looping' /\ Bricks'
  BY <1>2 DEF SetInv, Looping, Bricks
<1>7. Words'
  <2>1. WordsComing'
    BY <1>2 DEF SetInv, Words, WordsComing, ChangeOK, Over
  <2>2. ASSUME NEW d \in Clients
        PROVE  WordsOf(d)'
    <3>1. WordsOf(d)
      BY DEF SetInv, Words, WordsOf
    <3>2. CASE d = c
      BY <1>1, <1>2, <1>3, <3>1, <3>2 DEF WordsOf, ClientSteps, Over
    <3>3. CASE d # c
      BY <1>1, <1>2, <1>3, <3>1, <3>3 DEF WordsOf, Over
    <3> QED BY <3>2, <3>3
  <2> QED BY <2>1, <2>2 DEF Words, WordsComing, WordsOf
<1>8. ASSUME NEW d \in clients, listed, loop # "ended"
      PROVE  ServedOne(d)'
  <2>1. ServedOne(d)
    BY <1>8 DEF SetInv, Served, ServedOne
  <2>2. Coming(d) \subseteq Coming(d)' /\ (EndComing(d) => EndComing(d)')
    BY <1>2 DEF Coming, EndComing, ItemsOf, EndIn, BricksRead
  <2>3. Keeps(cl[d], cl'[d])
    BY <1>4
  <2> QED BY <1>2, <1>3, <2>1, <2>2, <2>3 DEF ServedOne, Keeps
<1>9. Served'
  BY <1>2, <1>8 DEF Served, ServedOne
<1>10. Farewell'
  <2>1. ASSUME NEW d \in clients, ownStop, Good(cl'[d])
        PROVE  Found \subseteq Held(cl'[d]) /\ HeldEnd(cl'[d])
    <3>1. Keeps(cl[d], cl'[d])
      BY <1>4
    <3> QED BY <2>1, <3>1 DEF SetInv, Farewell, Keeps
  <2> QED BY <1>2, <1>3, <2>1 DEF Farewell
<1>11. \A d \in Clients : ClosingOK(d)'
  <2> TAKE d \in Clients
  <2>1. CASE d = c
    BY <2>1 DEF ClientSteps
  <2>2. CASE d # c
    BY <1>1, <1>2, <1>3, <2>2 DEF SetInv, Closing, ClosingOK
  <2> QED BY <2>1, <2>2
<1>12. Closing'
  BY <1>11 DEF Closing, ClosingOK
<1> QED BY <1>5, <1>6, <1>7, <1>9, <1>10, <1>12 DEF SetInv

\* What SetInv says of client r = cl[c].
Standing(c, r) ==
    /\ r = cl[c] /\ ClientOK(r) /\ c \in Clients
    /\ c \in clients => r.conn \in {"open", "closed"}
    /\ r.read \in {"leaving", "left", "ended"} => r.conn = "closed"
    /\ r.conn # "closed" /\ c \notin clients => r.send = <<>> /\ r.hand = <<>>
    /\ r.hand # <<>> => r.write = "running"
    /\ r.bye => r.write = "ended" /\ r.conn \in {"open", "closed"}
    /\ Fine(r) => CloseLast(r) /\ (loop # "ended" => Quiet(r))
    /\ r.bye => loop = "ended" /\ (ownStop => r.told /\ Found \subseteq r.seen)
    /\ ownStop /\ c \in clients /\ Good(r) => Found \subseteq Held(r) /\ HeldEnd(r)

\* It is so.
LEMMA StandingNow ==
    ASSUME Typed, SetInv, NEW c \in Clients
    PROVE  Standing(c, cl[c])
BY OneClient DEF Standing, SetInv, Registered, Farewell, Closing

\* What the next state n of the client has to keep.
ClientNext(c, r, n) ==
    /\ ClientOK(n) /\ ClientOnly(c, n)
    /\ r.conn \in {"open", "closed"} => n.conn \in {"open", "closed"}
    /\ r.conn = "closed" => n.conn = "closed"
    /\ n.read \in {"leaving", "left", "ended"} => n.conn = "closed"
    /\ n.conn # "closed" /\ c \notin clients => n.send = <<>> /\ n.hand = <<>>
    /\ n.hand # <<>> => n.write = "running"
    /\ n.bye => n.write = "ended" /\ n.conn \in {"open", "closed"}
    /\ Fine(n) => CloseLast(n) /\ (loop # "ended" => Quiet(n))
    /\ n.bye => loop = "ended" /\ (ownStop => n.told /\ Found \subseteq n.seen)
    /\ c \in clients => Keeps(r, n)
    /\ \A i \in DOMAIN n.send :
         n.send[i].type = "completed" => \E j \in DOMAIN r.send : n.send[i] = r.send[j]

\* A step that keeps this keeps the invariant.
LEMMA SetClientStep ==
    ASSUME Typed, SetInv, NEW c \in Clients, NEW n, ClientNext(c, cl[c], n), changes' = changes,
           \A d \in Clients :
             /\ In(register', d) => In(register, d) \/ (d = c /\ n.conn \in {"open", "closed"})
             /\ In(unregister', d) => In(unregister, d) \/ (d = c /\ n.conn = "closed")
    PROVE  SetInv'
<1>1. cl'[c] = n
  BY ClientTyped DEF ClientNext
<1>2. UNCHANGED <<clients, loop, ownStop, final, missing>>
  BY DEF ClientNext, ClientOnly, runtime, bricks
<1>3. Found' = Found
  BY <1>2 DEF Found
<1>4. RegisteredOne(c)'
  BY <1>1, <1>2 DEF ClientNext, RegisteredOne
<1>5. ClosingOK(c)'
  BY <1>1, <1>2, <1>3 DEF ClientNext, ClosingOK
<1>6. ClientSteps(c, n)
  BY <1>4, <1>5 DEF ClientNext, ClientSteps
<1> QED BY <1>6, ClientStep

\* A client without an open connection or without a writer keeps nothing.
LEMMA NothingToKeep ==
    ASSUME NEW r, NEW n, n.conn # "open" \/ n.write = "ended"
    PROVE  Keeps(r, n) /\ ~Fine(n) /\ ~Good(n)
BY DEF Keeps, Good, Fine

\* The reader's side alone changes, and its connection is not opened.
LEMMA ReaderStep ==
    ASSUME NEW c, NEW r, NEW n, Standing(c, r), ClientOK(n), ClientOnly(c, n), SameWriter(r, n),
           n.conn = r.conn \/ n.conn = "closed" \/ (r.conn = "none" /\ n.conn = "upgraded"),
           n.read \in {"leaving", "left", "ended"} => n.conn = "closed"
    PROVE  ClientNext(c, r, n)
<1>1. CASE n.conn = r.conn
  <2>1. Held(n) = Held(r) /\ (HeldEnd(n) <=> HeldEnd(r)) /\ (Good(n) <=> Good(r)) /\ (Fine(n) <=> Fine(r))
    BY <1>1 DEF SameWriter, Held, HeldEnd, Good, Fine
  <2>2. Keeps(r, n) /\ (CloseLast(n) <=> CloseLast(r)) /\ (Quiet(n) <=> Quiet(r))
    BY <2>1 DEF SameWriter, Keeps, CloseLast, Quiet
  <2> QED BY <1>1, <2>1, <2>2 DEF SameWriter, Standing, ClientNext
<1>2. CASE n.conn # r.conn
  <2>1. Keeps(r, n) /\ ~Fine(n)
    BY <1>2, NothingToKeep
  <2> QED BY <1>2, <2>1 DEF SameWriter, Standing, ClientNext
<1> QED BY <1>1, <1>2

\* The writer ends without a goodbye.
LEMMA PartedStep ==
    ASSUME NEW c, NEW r, NEW n, Standing(c, r), ClientOnly(c, n), Parted(r, n),
           n.bye => loop = "ended" /\ r.conn \in {"open", "closed"}
                      /\ (ownStop => n.told /\ Found \subseteq n.seen)
    PROVE  ClientNext(c, r, n)
<1>1. Keeps(r, n) /\ ~Fine(n)
  BY NothingToKeep DEF Parted
<1>2. DOMAIN n.send = {}
  BY DEF Parted
<1> QED BY <1>1, <1>2 DEF Standing, ClientNext, Parted

\* The writer takes a message.
LEMMA TakenStep ==
    ASSUME NEW c, NEW r, Standing(c, r), ClientOnly(c, Taken(r)),
           r.write = "running", r.hand = <<>>, r.send # <<>>
    PROVE  ClientNext(c, r, Taken(r))
<1>a. PICK n : n = Taken(r)
  OBVIOUS
<1>1. ClientOK(r) /\ r.send \in Seq(Messages)
  BY DEF Standing, ClientOK, ClientState
<1>2. /\ ClientOK(n) /\ SameSide(r, n) /\ Keeps(r, n)
      /\ n.hand = <<Head(r.send)>> /\ n.send = Tail(r.send)
  BY <1>a, <1>1, TakenFacts
<1>3. /\ Adds(n.send, Head(r.send), r.send) /\ Head(r.send) \in Messages
      /\ Head(r.send) = r.send[1] /\ 1 \in DOMAIN r.send
      /\ Len(n.send) = Len(r.send) - 1 /\ Len(r.send) \in Nat \ {0}
      /\ \A i \in DOMAIN n.send : i + 1 \in DOMAIN r.send /\ n.send[i] = r.send[i + 1]
      /\ n.send \in Seq(Messages)
  BY <1>1, <1>2, QueueTail
<1>4. CloseIn(n.hand) <=> Head(r.send).type = "close"
  BY <1>2, <1>3, QueueSmall
<1>5. Quiet(r) => Quiet(n)
  BY <1>3, <1>4 DEF Quiet, Adds
<1>6. ASSUME CloseLast(r)
      PROVE  CloseLast(n)
  <2>1. \A i \in DOMAIN r.send : r.send[i].type = "close" => i = Len(r.send)
    BY <1>6 DEF CloseLast
  <2>2. ASSUME Head(r.send).type = "close"
        PROVE  n.send = <<>>
    <3>1. Len(r.send) = 1
      BY <1>3, <2>1, <2>2
    <3>2. Len(n.send) = 0
      BY <1>3, <3>1
    <3>3. \A q \in Seq(Messages) : Len(q) = 0 => q = <<>>
      OBVIOUS
    <3> QED BY <1>3, <3>2, <3>3
  <2>3. ASSUME NEW i \in DOMAIN n.send, n.send[i].type = "close"
        PROVE  i = Len(n.send)
    <3>1. i + 1 = Len(r.send)
      BY <1>3, <2>1, <2>3
    <3>2. i \in Nat
      BY <1>3
    <3> QED BY <1>3, <3>1, <3>2
  <2> QED BY <1>4, <2>2, <2>3 DEF CloseLast
<1>7. \A i \in DOMAIN n.send : \E j \in DOMAIN r.send : n.send[i] = r.send[j]
  BY <1>3
<1>8. Fine(n) => Fine(r)
  BY <1>2 DEF Keeps
<1>9. Fine(n) => CloseLast(n) /\ (loop # "ended" => Quiet(n))
  BY <1>5, <1>6, <1>8 DEF Standing
<1>10. r.conn = "closed" \/ c \in clients
  BY DEF Standing
<1>11. ~r.bye
  BY DEF Standing
<1>12. ClientOnly(c, n)
  BY <1>a
<1> QED BY <1>a, <1>2, <1>7, <1>9, <1>10, <1>11, <1>12 DEF Standing, ClientNext, SameSide

\* It has written the message.
LEMMA ShownStep ==
    ASSUME NEW c, NEW r, Standing(c, r), r.hand # <<>>, Head(r.hand) # Close,
           ClientOnly(c, Shown(r, Head(r.hand)))
    PROVE  ClientNext(c, r, Shown(r, Head(r.hand)))
<1>a. PICK n : n = Shown(r, Head(r.hand))
  OBVIOUS
<1>1. /\ ClientOK(n) /\ SameSide(r, n) /\ Keeps(r, n) /\ n.hand = <<>> /\ n.send = r.send
  BY <1>a, ShownFacts DEF Standing
<1>2. CloseLast(r) => CloseLast(n)
  BY <1>1, QueueEmpty DEF CloseLast
<1>3. Quiet(r) => Quiet(n)
  BY <1>1, QueueEmpty DEF Quiet
<1>4. ~r.bye
  BY DEF Standing
<1>5. Fine(n) => CloseLast(n) /\ (loop # "ended" => Quiet(n))
  BY <1>1, <1>2, <1>3 DEF Standing, Keeps
<1>6. ClientOnly(c, n)
  BY <1>a
<1> QED BY <1>a, <1>1, <1>4, <1>5, <1>6 DEF Standing, ClientNext, SameSide

\* It has written the close message: nothing is behind it, and the loop has ended.
LEMMA GoodbyeStep ==
    ASSUME NEW c, NEW r, Standing(c, r), r.hand # <<>>, r.conn = "open", Head(r.hand) = Close,
           ClientOnly(c, WriteClosed(r))
    PROVE  ClientNext(c, r, WriteClosed(r))
<1>a. PICK n : n = WriteClosed(r)
  OBVIOUS
<1>1. /\ Parted(r, n)
      /\ n.bye => r.bye \/ (~r.lost /\ ~r.dismissed /\ n.seen = r.seen /\ n.told = r.told)
  BY <1>a, PartedByClose DEF Standing
<1>2. r.write = "running" /\ ~r.bye /\ c \in clients
  BY DEF Standing
<1>3. /\ Close.type = "close" /\ Close.items = {} /\ ItemsOf(r.hand) = {}
      /\ ~EndIn(r.hand) /\ CloseIn(r.hand)
  BY HandFacts, PacketFacts DEF Standing, Ends
<1>4. ASSUME n.bye
      PROVE  loop = "ended" /\ (ownStop => n.told /\ Found \subseteq n.seen)
  <2>1. Good(r) /\ Fine(r)
    BY <1>1, <1>2, <1>4 DEF Good, Fine
  <2>2. loop = "ended" /\ r.send = <<>>
    BY <1>3, <2>1 DEF Standing, CloseLast, Quiet
  <2>3. Held(r) = r.seen /\ (HeldEnd(r) <=> r.told)
    BY <1>3, <2>2, QueueEmpty DEF Held, HeldEnd
  <2> QED BY <1>1, <1>2, <1>4, <2>1, <2>2, <2>3 DEF Standing
<1>5. ClientNext(c, r, n)
  BY <1>a, <1>1, <1>4, PartedStep
<1> QED BY <1>a, <1>5

\* The reader knocks and closes the client for the last time.
LEMMA ReadEndedStep ==
    ASSUME NEW c, NEW r, Standing(c, r), r.read = "left", ClientOnly(c, ReadEnded(r))
    PROVE  ClientNext(c, r, ReadEnded(r))
<1>a. PICK n : n = ReadEnded(r)
  OBVIOUS
<1>1. ClientOK(r) /\ r.conn = "closed" /\ r.send \in Seq(Messages)
  BY DEF Standing, ClientOK, ClientState
<1>2. /\ ClientOK(n) /\ n.conn = "closed" /\ n.read = "ended" /\ n.bye = r.bye
      /\ n.hand \in {r.hand, <<>>} /\ ((n.write = "ended" /\ n.hand = <<>>) \/ n.write = r.write)
      /\ (n.send \in {r.send, <<>>} \/ n.send = Append(r.send, Close))
      /\ r.write = "ended" => n.seen = r.seen /\ n.told = r.told
  BY <1>a, <1>1, ReadEndedFacts
<1>3. Keeps(r, n) /\ ~Fine(n)
  BY <1>2, NothingToKeep
<1>4. \A i \in DOMAIN n.send :
        n.send[i].type = "completed" => \E j \in DOMAIN r.send : n.send[i] = r.send[j]
  <2>1. CASE n.send = r.send \/ n.send = <<>>
    BY <2>1
  <2>2. CASE n.send = Append(r.send, Close)
    <3>1. Close \in Messages /\ Close.type = "close"
      BY PacketFacts
    <3>2. \A i \in DOMAIN n.send : n.send[i] = Close \/ \E j \in DOMAIN r.send : n.send[i] = r.send[j]
      BY <1>1, <2>2, <3>1, GivenFrom
    <3> QED BY <3>1, <3>2
  <2> QED BY <1>2, <2>1, <2>2
<1>5. ClientOnly(c, n)
  BY <1>a
<1>6. ClientNext(c, r, n)
  BY <1>1, <1>2, <1>3, <1>4, <1>5 DEF Standing, ClientNext
<1> QED BY <1>a, <1>6

\* Each step of a client is such a step.
LEMMA SetClient ==
    ASSUME Typed, IsSet, SetInv, NEW c \in Clients, Client(c)
    PROVE  SetInv'
<1>a. PICK r : r = cl[c]
  OBVIOUS
<1>b. Standing(c, r) /\ ClientOK(r)
  BY <1>a, StandingNow DEF Standing
<1> USE <1>b
<1>1. ASSUME NEW n, ClientNext(c, r, n), UNCHANGED channels
      PROVE  SetInv'
  <2>1. UNCHANGED <<register, unregister, changes>>
    BY <1>1 DEF channels
  <2>2. \A d \in Clients : (In(register', d) => In(register, d)) /\ (In(unregister', d) => In(unregister, d))
    BY <2>1
  <2> QED BY <1>a, <1>1, <2>1, <2>2, SetClientStep
<1>2. CASE Connect(c)
  <2>1. ClientOnly(c, Connected(r)) /\ UNCHANGED channels /\ r.conn = "none"
    BY <1>a, <1>2 DEF Connect, Connected
  <2>2. ClientNext(c, r, Connected(r))
    BY <2>1, ReaderFacts, ReaderStep DEF Standing
  <2> QED BY <1>1, <2>1, <2>2
<1>3. CASE Register(c)
  <2>1. ClientOnly(c, Opened(r)) /\ register' = Append(register, c) /\ r.conn = "upgraded"
        /\ UNCHANGED <<unregister, changes>>
    BY <1>a, <1>3 DEF Register, Opened
  <2> DEFINE n == Opened(r)
  <2>2. /\ ClientOK(n) /\ n.send = r.send /\ n.hand = r.hand /\ n.conn = "open"
        /\ n.read = "reading" /\ n.write = "running" /\ n.bye = r.bye
    BY OpenedFacts
  <2> HIDE DEF n
  <2>3. c \notin clients /\ n.send = <<>> /\ n.hand = <<>> /\ ~n.bye
    BY <2>1, <2>2 DEF Standing
  <2>4. Quiet(n) /\ CloseLast(n)
    BY <2>3, QueueEmpty, QuietIsLast DEF Quiet
  <2>5. ClientOnly(c, n)
    BY <2>1 DEF n
  <2>6. DOMAIN n.send = {}
    BY <2>3
  <2>7. ClientNext(c, r, n)
    BY <2>1, <2>2, <2>3, <2>4, <2>5, <2>6 DEF ClientNext
  <2>8. \A d \in Clients :
          /\ In(register', d) => In(register, d) \/ (d = c /\ n.conn \in {"open", "closed"})
          /\ In(unregister', d) => In(unregister, d) \/ (d = c /\ n.conn = "closed")
    BY <2>1, <2>2, ClientQueues DEF Typed, ChannelsTyped
  <2> QED BY <1>a, <2>1, <2>7, <2>8, SetClientStep
<1>4. CASE Take(c)
  <2>1. /\ ClientOnly(c, Taken(r)) /\ UNCHANGED channels
        /\ r.write = "running" /\ r.hand = <<>> /\ r.send # <<>>
    BY <1>a, <1>4 DEF Take, Taken
  <2> QED BY <1>1, <2>1, TakenStep
<1>5. CASE Written(c)
  <2>1. r.hand # <<>> /\ r.conn = "open" /\ UNCHANGED channels
    BY <1>a, <1>5 DEF Written
  <2>2. CASE Head(r.hand) = Close
    <3>1. ClientOnly(c, WriteClosed(r))
      BY <1>a, <1>5, <2>2 DEF Written
    <3> QED BY <1>1, <2>1, <2>2, <3>1, GoodbyeStep
  <2>3. CASE Head(r.hand) # Close
    <3>1. ClientOnly(c, Shown(r, Head(r.hand)))
      BY <1>a, <1>5, <2>3 DEF Written, Shown
    <3> QED BY <1>1, <2>1, <2>3, <3>1, ShownStep
  <2> QED BY <2>2, <2>3
<1>6. CASE WriteFails(c)
  <2>1. ClientOnly(c, WriteEnded(r)) /\ UNCHANGED channels /\ r.write = "running"
    BY <1>a, <1>6 DEF WriteFails
  <2>2. Parted(r, WriteEnded(r)) /\ ~WriteEnded(r).bye
    BY <2>1, PartedByEnd DEF Standing
  <2> QED BY <1>1, <2>1, <2>2, PartedStep
<1>7. CASE TimerKnocks(c)
  <2>1. ClientOnly(c, Knocked(TimedOut(r))) /\ UNCHANGED channels
    BY <1>a, <1>7 DEF TimerKnocks, TimedOut
  <2> DEFINE t == TimedOut(r)
  <2>2. ClientOK(t) /\ SameWriter(r, t) /\ t.read = r.read /\ t.conn = r.conn
    BY ReaderFacts
  <2> HIDE DEF t
  <2>3. ClientOnly(c, Knocked(t))
    BY <2>1 DEF t
  <2>4. Knocked(t) = t \/ (t.write = "running" /\ Knocked(t) = WriteEnded(t))
    BY <2>2, KnockedFacts
  <2>5. CASE Knocked(t) = t
    <3>1. ClientOnly(c, t)
      BY <2>3, <2>5
    <3>2. ClientNext(c, r, t)
      BY <2>2, <3>1, ReaderStep DEF Standing
    <3> QED BY <1>1, <2>1, <3>2
  <2>6. CASE t.write = "running" /\ Knocked(t) = WriteEnded(t)
    <3>1. Parted(t, WriteEnded(t)) /\ WriteEnded(t).bye = t.bye
      BY <2>2, PartedByEnd
    <3>2. Parted(r, WriteEnded(t)) /\ ~WriteEnded(t).bye
      BY <2>2, <2>6, <3>1 DEF Standing, SameWriter, Parted
    <3>3. ClientOnly(c, WriteEnded(t))
      BY <2>3, <2>6
    <3>4. ClientNext(c, r, WriteEnded(t))
      BY <3>2, <3>3, PartedStep
    <3> QED BY <1>1, <2>1, <3>4
  <2> QED BY <2>4, <2>5, <2>6
<1>8. CASE ReadFails(c)
  <2>1. ClientOnly(c, Leaving(r)) /\ UNCHANGED channels
    BY <1>a, <1>8 DEF ReadFails, Leaving
  <2>2. ClientNext(c, r, Leaving(r))
    BY <2>1, ReaderFacts, ReaderStep
  <2> QED BY <1>1, <2>1, <2>2
<1>9. CASE Unregister(c)
  <2>1. ClientOnly(c, Left(r)) /\ unregister' = Append(unregister, c) /\ r.read = "leaving"
        /\ UNCHANGED <<register, changes>>
    BY <1>a, <1>9 DEF Unregister, Left
  <2>2. Left(r).conn = "closed"
    BY <2>1, ReaderFacts DEF Standing
  <2>3. ClientNext(c, r, Left(r))
    BY <2>1, <2>2, ReaderFacts, ReaderStep
  <2>4. \A d \in Clients :
          /\ In(register', d) => In(register, d)
          /\ In(unregister', d) => In(unregister, d) \/ d = c
    BY <2>1, ClientQueues DEF Typed, ChannelsTyped
  <2> QED BY <1>a, <2>1, <2>2, <2>3, <2>4, SetClientStep
<1>10. CASE ReadEnds(c)
  <2>1. ClientOnly(c, ReadEnded(r)) /\ UNCHANGED channels /\ r.read = "left"
    BY <1>a, <1>10 DEF ReadEnds, ReadEnded
  <2> QED BY <1>1, <2>1, ReadEndedStep
<1> QED BY <1>2, <1>3, <1>4, <1>5, <1>6, <1>7, <1>8, <1>9, <1>10 DEF Client, Write, Read

----------------------------------------------------------------------------
(* The theorems *)

\* The first state.
LEMMA StreamInit == Init => StreamInv
<1> SUFFICES ASSUME Init, IsSet PROVE SetInv
  BY TypedInit DEF StreamInv
<1>1. /\ listed /\ loop = "select" /\ toClose = {} /\ stops = 0 /\ ~ownStop /\ clients = {}
      /\ register = <<>> /\ unregister = <<>> /\ changes = <<>> /\ out = <<>>
      /\ pc = "begin" /\ todo = {} /\ moving = {} /\ status \in {"failed", "completed", "fetching"}
      /\ final \cap missing = {} /\ (kind = "complete" => final = {} /\ missing = {})
  BY DEF Init
<1>2. \A c \in Clients : /\ cl[c].conn = "none" /\ cl[c].read = "none" /\ cl[c].write = "none"
                         /\ cl[c].send = <<>> /\ cl[c].hand = <<>> /\ ~cl[c].bye
  BY DEF Init
<1>3. \A c : ~In(<<>>, c)
  BY DEF In
<1>4. Registered
  BY <1>1, <1>2, <1>3 DEF Registered
<1>5. Looping /\ Bricks /\ Served /\ Farewell
  BY <1>1 DEF Looping, Bricks, Served, Farewell
<1>6. Words
  <2>1. DOMAIN <<>> = {}
    OBVIOUS
  <2> QED BY <1>1, <1>2, <2>1 DEF Words
<1>7. Closing
  BY <1>2 DEF Closing, Fine, Good
<1> QED BY <1>4, <1>5, <1>6, <1>7 DEF SetInv

\* A runtime keeps its kind.
LEMMA KindStays ==
    ASSUME [Next]_vars
    PROVE  kind' = kind
<1>1. CASE HandleConnect \/ HandleDisconnect \/ HandleChange \/ Expire \/ Timeout \/ Loop \/ OtherStop \/ Replace
  BY <1>1 DEF HandleConnect, HandleDisconnect, HandleChange, HandleSetChange, HandleSearchChange,
              Expire, Timeout, Loop, FinishRead, CloseClients, OtherStop, Replace
<1>2. CASE Producer
  BY <1>2 DEF Producer, PushLookup, PushSend, Begin, FetchInventory, FetchFails, StoreBrick, FetchBricks,
              RemoveMissing, AppendFinal, KeepMissing, Complete, StopRuntimeSet, ProcessItem, EndSearch
<1>3. ASSUME NEW c \in Clients, Client(c)
      PROVE  kind' = kind
  BY <1>3 DEF Client, Connect, Register, Write, Take, Written, WriteFails, TimerKnocks, ReadFails,
              Read, Unregister, ReadEnds, ClientOnly
<1>4. CASE UNCHANGED vars
  BY <1>4 DEF vars
<1> QED BY <1>1, <1>2, <1>3, <1>4 DEF Next

\* A step that changes nothing.
LEMMA SetStutter ==
    ASSUME Typed, SetInv, UNCHANGED vars
    PROVE  SetInv'
<1>1. UNCHANGED <<kind, listed, status, loop, reader, shown, snap, toClose, stops, ownStop, clients,
                  register, unregister, changes, final, missing, pc, todo, moving, out, found, cl>>
  BY DEF vars, runtime, channels, bricks, producer
<1>2. Found' = Found /\ Over' = Over
  BY <1>1 DEF Found, Over
<1>3. Registered' /\ Looping' /\ Bricks'
  BY <1>1 DEF SetInv, Registered, Looping, Bricks
<1>4. Words' /\ Farewell' /\ Closing'
  BY <1>1, <1>2 DEF SetInv, Words, ChangeOK, Farewell, Closing
<1>5. Served'
  <2>1. \A c \in clients : Coming(c)' = Coming(c) /\ EndComing(c)' = EndComing(c)
    BY <1>1 DEF Coming, EndComing, BricksRead
  <2> QED BY <1>1, <1>2, <2>1 DEF SetInv, Served
<1> QED BY <1>3, <1>4, <1>5 DEF SetInv

\* Every step keeps the invariant.
LEMMA StreamNext ==
    ASSUME StreamInv, [Next]_vars
    PROVE  StreamInv'
<1>1. Typed /\ Typed' /\ (IsSet' <=> IsSet)
  BY TypedNext, KindStays DEF StreamInv, IsSet
<1>2. ASSUME IsSet
      PROVE  SetInv'
  <2>1. SetInv
    BY <1>2 DEF StreamInv
  <2>2. CASE HandleConnect \/ HandleDisconnect \/ HandleChange \/ Expire \/ Timeout \/ OtherStop
    BY <1>1, <1>2, <2>1, <2>2, SetConnect, SetDisconnect, SetSetChange, SetExpire, SetOtherStop
    DEF HandleChange, HandleSearchChange
  <2>3. CASE Loop \/ Replace
    BY <1>1, <1>2, <2>1, <2>3, SetFinishRead, SetCloseClients, SetReplace DEF Loop
  <2>4. CASE Producer
    BY <1>1, <1>2, <2>1, <2>4, SetProducer
  <2>5. ASSUME NEW c \in Clients, Client(c)
        PROVE  SetInv'
    BY <1>1, <1>2, <2>1, <2>5, SetClient
  <2>6. CASE UNCHANGED vars
    BY <1>1, <2>1, <2>6, SetStutter
  <2> QED BY <2>2, <2>3, <2>4, <2>5, <2>6 DEF Next
<1> QED BY <1>1, <1>2 DEF StreamInv

\* The inductive invariant holds: the channels keep their capacities and the states
\* their types, and of a runtime set all that SetInv says is so.
THEOREM StreamInvariant == Spec => []StreamInv
<1>1. Init => StreamInv
  BY StreamInit
<1>2. StreamInv /\ [Next]_vars => StreamInv'
  BY StreamNext
<1> QED BY <1>1, <1>2, PTL DEF Spec

\* The types, as the model states them.
LEMMA TypedTypeOK == Typed => TypeOK
<1> SUFFICES ASSUME Typed PROVE TypeOK
  OBVIOUS
<1>1. RuntimeTyped /\ ChannelsTyped /\ ProducerTyped /\ ClientsTyped
  BY DEF Typed
<1>2. cl \in [Clients -> ClientState] /\ \A c \in Clients : Len(cl[c].send) <= SendCap
  BY <1>1 DEF ClientsTyped, ClientOK
<1> QED BY <1>1, <1>2 DEF RuntimeTyped, ChannelsTyped, ProducerTyped, TypeOK, ClientState

\* Whenever a client connects to a runtime set, no brick falls between its first
\* packet and the progress that follows (PushBatchProgress, handleClientConnect).
THEOREM NothingIsMissed == Spec => []NothingMissed
<1>1. StreamInv => NothingMissed
  <2> SUFFICES ASSUME StreamInv PROVE NothingMissed
    OBVIOUS
  <2>1. TypeOK
    BY TypedTypeOK DEF StreamInv
  <2>2. ASSUME IsSet, listed, loop # "ended", NEW c \in clients,
               cl[c].write = "running" /\ cl[c].conn = "open" /\ ~cl[c].lost
        PROVE  Found \subseteq Reaching(c)
    <3>1. Found \subseteq Held(cl[c]) \cup Coming(c)
      BY <2>2 DEF StreamInv, SetInv, Served, Good
    <3> QED BY <3>1 DEF Held, Coming, Reaching
  <2> QED BY <2>1, <2>2 DEF NothingMissed
<1> QED BY <1>1, StreamInvariant, PTL

\* The packet of a completed set carries all its bricks, none of them on its way from
\* the missing to the final ones; and once the fetch is over every client that lost
\* nothing has been told so or will be, whatever an update announced before.
THEOREM FinalStaysWhole == Spec => []FinalIsWhole
<1>1. StreamInv => FinalIsWhole
  <2> SUFFICES ASSUME StreamInv, IsSet PROVE FinalIsWhole
    BY DEF FinalIsWhole
  <2>1. \A c \in Clients : \A i \in DOMAIN cl[c].send :
          cl[c].send[i].type = "completed" => cl[c].send[i].items = Found /\ moving = {}
    BY DEF StreamInv, SetInv, Words, Bricks, Over
  <2>2. ASSUME pc \in {"wait", "ended"}, listed, loop # "ended", NEW c \in clients,
               cl[c].write = "running" /\ cl[c].conn = "open" /\ ~cl[c].lost
        PROVE  EndReaching(c)
    <3>1. HeldEnd(cl[c]) \/ EndComing(c)
      BY <2>2 DEF StreamInv, SetInv, Served, Good
    <3> QED BY <3>1 DEF HeldEnd, EndComing, EndReaching
  <2> QED BY <2>1, <2>2 DEF FinalIsWhole
<1> QED BY <1>1, StreamInvariant, PTL

\* The fetch's own stop sends the close message only after the end of the fetch
\* and every brick: a client served all along has seen them when it leaves.
THEOREM GoodbyeIsWhole == Spec => []WholeAtGoodbye
<1>1. StreamInv => WholeAtGoodbye
  BY DEF StreamInv, SetInv, Closing, WholeAtGoodbye
<1> QED BY <1>1, StreamInvariant, PTL

================================================================================
