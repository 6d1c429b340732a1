---------------------------- MODULE InventoryProofs ----------------------------
(***************************************************************************)
(* The safety of a shared inventory, for any listeners, any number of      *)
(* batches and any channel capacity.  The proof follows a batch: merged    *)
(* under the writer's lock, then broadcast to whoever registered before,   *)
(* so that whoever takes the snapshot has it from there, and whoever took  *)
(* it earlier is registered and is sent it.                                *)
(***************************************************************************)
EXTENDS Inventory, FiniteSetTheorems, SequenceTheorems, TLAPS

Has(s, x) == \E i \in DOMAIN s : s[i] = x

\* What the writer has merged, by where it is.
Merged ==
  /\ wpc \in {"write", "mark", "merge"} => inventory = 1..(next - 1)
  /\ wpc \in {"lock", "broadcast", "panicked"} => inventory = 1..next
  /\ wpc \in {"mark", "merge", "lock", "broadcast", "panicked"} => next <= NumBatches
  /\ wpc = "stop" => inventory = Batch

\* Who has given the two completion signals, and who may have seen them.
Signals ==
  /\ dpc["writer"] # "idle" => wpc = "stop"
  /\ once # "fresh" => doneClosed
  /\ doneClosed => \E c \in Closer : dpc[c] \notin {"idle", "once"}
  /\ doneClosed => once # "fresh"
  /\ \A l \in Listeners : chanClosed[l] => once = "ran"
  /\ \A l \in Listeners : lpc[l] \in {"returning", "returned"} => doneClosed

Joined ==
  \A l \in Listeners : lpc[l] \notin {"out", "accessed", "left"} => Has(listeners, l)

\* Batch b is not lost for l: l has handled it, or will find it in its channel, or
\* the writer is about to send it.
Accounted(l, b) ==
  \/ handled[l][b] > 0
  \/ Has(chan[l], b)
  \/ b = next /\ (wpc \in {"lock", "panicked"} \/ Has(sendTo, l))

\* NoBatchLost, from the snapshot on.
Delivered ==
  \A l \in Listeners : lpc[l] \in {"snapshot", "select"} =>
    \A b \in inventory : Accounted(l, b)

InventoryInv ==
  /\ TypeOK /\ Merged /\ Signals /\ OneCloser /\ Joined /\ Delivered
  /\ RefCountHeld /\ CompleteOnReturn /\ NoSendOnClosed
-----------------------------------------------------------------------------
\* A channel's content stays in it when something is put behind it.
LEMMA AppendFacts ==
  ASSUME NEW S, NEW s \in Seq(S), NEW e \in S
  PROVE  /\ Append(s, e) \in Seq(S) /\ Has(Append(s, e), e)
         /\ \A x : Has(s, x) => Has(Append(s, e), x)
<1>1. /\ Append(s, e) \in Seq(S) /\ Len(Append(s, e)) = Len(s) + 1 /\ Len(s) \in Nat
      /\ Append(s, e)[Len(s) + 1] = e
      /\ \A i \in 1..Len(s) : Append(s, e)[i] = s[i]
      /\ DOMAIN s = 1..Len(s) /\ DOMAIN Append(s, e) = 1..Len(s) + 1
  BY AppendProperties, LenProperties
<1> QED BY <1>1 DEF Has

\* Taking the first of a channel loses nothing else of it.
LEMMA TailFacts ==
  ASSUME NEW S, NEW s \in Seq(S), s # <<>>
  PROVE  /\ Tail(s) \in Seq(S) /\ Head(s) \in S
         /\ Has(s, Head(s))
         /\ \A x : Has(s, x) => x = Head(s) \/ Has(Tail(s), x)
         /\ \A x : Has(Tail(s), x) => Has(s, x)
<1>1. /\ Head(s) = s[1] /\ Head(s) \in S /\ Tail(s) \in Seq(S) /\ Len(Tail(s)) = Len(s) - 1
      /\ Len(s) \in Nat /\ Len(s) >= 1
      /\ \A i \in 1..Len(s) - 1 : Tail(s)[i] = s[i + 1]
      /\ DOMAIN s = 1..Len(s) /\ DOMAIN Tail(s) = 1..Len(s) - 1
  BY HeadTailProperties, LenProperties, EmptySeq
<1>2. ASSUME NEW i \in DOMAIN s, i # 1
      PROVE  i - 1 \in DOMAIN Tail(s) /\ Tail(s)[i - 1] = s[i]
  BY <1>1, <1>2
<1>3. ASSUME NEW i \in DOMAIN Tail(s)
      PROVE  i + 1 \in DOMAIN s /\ Tail(s)[i] = s[i + 1]
  BY <1>1
<1>4. ASSUME NEW x, NEW i \in DOMAIN s, s[i] = x
      PROVE  x = Head(s) \/ \E j \in DOMAIN Tail(s) : Tail(s)[j] = x
  BY <1>1, <1>2, <1>4
<1>5. ASSUME NEW x, NEW i \in DOMAIN Tail(s), Tail(s)[i] = x
      PROVE  \E j \in DOMAIN s : s[j] = x
  BY <1>3, <1>5
<1>6. 1 \in DOMAIN s
  BY <1>1
<1> QED BY <1>1, <1>4, <1>5, <1>6 DEF Has

\* A function with one value replaced.
LEMMA UpdateFacts ==
  ASSUME NEW S, NEW T, NEW f \in [S -> T], NEW x \in S, NEW v \in T
  PROVE  [f EXCEPT ![x] = v] \in [S -> T]
<1> QED OBVIOUS

-----------------------------------------------------------------------------
\* Access gives the writer an inventory nobody else has yet.
LEMMA InventoryInvInit == Init => InventoryInv
<1> SUFFICES ASSUME Init PROVE InventoryInv
  OBVIOUS
<1>1. TypeOK
  <2>1. <<>> \in Seq(Listeners) /\ <<>> \in Seq(Batch)
    OBVIOUS
  <2>2. next \in 1..(NumBatches + 1)
    BY InventoryAssumption DEF Init
  <2>3. /\ dpc \in [Closer -> {"idle", "once", "closing", "release", "end"}]
        /\ lpc \in [Listeners -> {"out", "accessed", "left", "registered", "snapshot",
                                  "select", "returning", "returned"}]
        /\ chanClosed \in [Listeners -> BOOLEAN] /\ result \in [Listeners -> SUBSET Batch]
        /\ chan \in [Listeners -> Seq(Batch)] /\ handled \in [Listeners -> [Batch -> Nat]]
    BY <2>1 DEF Init
  <2>4. /\ inMap \in BOOLEAN /\ closed \in BOOLEAN
        /\ status \in {"Pending", "Fetching", "Completed"}
        /\ doneClosed \in BOOLEAN /\ once = "fresh" /\ wpc = "write"
    BY DEF Init
  <2>5. refCount \in Int /\ inventory \subseteq Batch
    BY DEF Init
  <2>6. writerLock = Nobody /\ listenerLock = Nobody
    BY DEF Init
  <2>7. listeners \in Seq(Listeners) /\ sendTo \in Seq(Listeners)
    BY <2>1 DEF Init
  <2> QED BY <2>2, <2>3, <2>4, <2>5, <2>6, <2>7 DEF TypeOK
<1>2. Merged
  <2>1. wpc = "write" /\ inventory = {} /\ next = 1
    BY DEF Init
  <2> QED BY <2>1 DEF Merged
<1>3. Signals /\ OneCloser /\ Joined /\ Delivered
  BY DEF Init, Signals, OneCloser, Joined, Delivered, Closer
<1>4. RefCountHeld
  <2>1. {l \in Listeners : Holding(l)} = {}
    BY DEF Init, Active, Holding
  <2>2. refCount = 1 /\ dpc["writer"] # "end"
    BY DEF Init, Closer
  <2> QED BY <2>1, <2>2, FS_EmptySet DEF RefCountHeld
<1>5. CompleteOnReturn /\ NoSendOnClosed
  BY DEF Init, CompleteOnReturn, NoSendOnClosed
<1> QED BY <1>1, <1>2, <1>3, <1>4, <1>5 DEF InventoryInv
-----------------------------------------------------------------------------
(* Every step keeps the types *)

\* A writer's step.
LEMMA WriterTyped ==
  ASSUME TypeOK, Merged, Writer \/ AbandonInventory
  PROVE  TypeOK'
<1> USE InventoryAssumption DEF TypeOK, holderVars, lockVars, chanVars, doneVars, writerVars,
        readVars
<1>1. CASE BeginWrite
  BY <1>1 DEF BeginWrite, Closer, Batch
<1>2. CASE MarkFetching
  BY <1>2 DEF MarkFetching, Closer, Batch
<1>3. CASE MergeBatch
  BY <1>3 DEF MergeBatch, Merged, Batch
<1>4. CASE BeginBroadcast
  BY <1>4 DEF BeginBroadcast, Closer, Batch
<1>5. CASE SendBatch
  <2>1. sendTo \in Seq(Listeners) /\ sendTo # <<>> /\ next \in Batch
        /\ chan' = [chan EXCEPT ![Head(sendTo)] = Append(@, next)] /\ sendTo' = Tail(sendTo)
    BY <1>5 DEF SendBatch, Merged, Batch
  <2>2. Head(sendTo) \in Listeners /\ Tail(sendTo) \in Seq(Listeners)
    BY <2>1, TailFacts
  <2>3. Append(chan[Head(sendTo)], next) \in Seq(Batch)
    BY <2>1, <2>2, AppendFacts
  <2>4. chan' \in [Listeners -> Seq(Batch)] /\ sendTo' \in Seq(Listeners)
    BY <2>1, <2>2, <2>3
  <2> QED BY <1>5, <2>4 DEF SendBatch, Batch
<1>6. CASE SendPanics
  BY <1>6 DEF SendPanics, Closer, Batch
<1>7. CASE EndBroadcast
  BY <1>7 DEF EndBroadcast, Merged, Batch
<1>8. CASE StopInventory
  BY <1>8 DEF StopInventory, Closer, Batch
<1>9. CASE AbandonInventory
  BY <1>9 DEF AbandonInventory, Closer, Batch
<1> QED BY <1>1, <1>2, <1>3, <1>4, <1>5, <1>6, <1>7, <1>8, <1>9 DEF Writer

\* A step of done().
LEMMA DoneTyped ==
  ASSUME TypeOK, NEW c \in Closer, Done(c)
  PROVE  TypeOK'
<1> USE DEF TypeOK, holderVars, lockVars, chanVars, doneVars, writerVars, readVars, Batch
<1>1. CASE CloseDoneChan(c)
  BY <1>1, ZenonT(30) DEF CloseDoneChan
<1>2. CASE CloseListeners(c)
  BY <1>2 DEF CloseListeners
<1>3. CASE ReleaseWriter(c)
  BY <1>3 DEF ReleaseWriter
<1> QED BY <1>1, <1>2, <1>3 DEF Done

\* A listener's step.
LEMMA ListenerTyped ==
  ASSUME TypeOK, NEW l \in Listeners, Access(l) \/ Leave(l) \/ Listen(l)
  PROVE  TypeOK'
<1> USE DEF TypeOK, holderVars, lockVars, chanVars, doneVars, writerVars, readVars
<1>1. CASE Access(l)
  BY <1>1 DEF Access, Batch
<1>8. CASE Leave(l)
  BY <1>8 DEF Leave, Batch
<1>2. CASE Register(l)
  <2>1. listeners' \in Seq(Listeners)
    BY <1>2, AppendFacts DEF Register
  <2> QED BY <1>2, <2>1 DEF Register, Batch
<1>3. CASE HandleSnapshot(l)
  <2>1. [b \in Batch |-> IF b \in inventory THEN handled[l][b] + 1 ELSE handled[l][b]]
          \in [Batch -> Nat]
    OBVIOUS
  <2>2. handled' \in [Listeners -> [Batch -> Nat]]
    BY <1>3, <2>1 DEF HandleSnapshot
  <2> QED BY <1>3, <2>2 DEF HandleSnapshot, Batch
<1>4. CASE EndSnapshot(l)
  BY <1>4 DEF EndSnapshot, Batch
<1>5. CASE HandleBatch(l)
  <2>1. chan[l] \in Seq(Batch) /\ chan[l] # <<>>
    BY <1>5 DEF HandleBatch
  <2>2. Head(chan[l]) \in Batch /\ Tail(chan[l]) \in Seq(Batch)
    BY <2>1, TailFacts
  <2>3. chan' \in [Listeners -> Seq(Batch)]
    BY <1>5, <2>2 DEF HandleBatch
  <2>4. handled' \in [Listeners -> [Batch -> Nat]]
    <3>1. /\ handled \in [Listeners -> [Batch -> Nat]]
          /\ handled' = [handled EXCEPT ![l][Head(chan[l])] = @ + 1]
      BY <1>5 DEF HandleBatch
    <3> DEFINE row == [handled[l] EXCEPT ![Head(chan[l])] = handled[l][Head(chan[l])] + 1]
    <3>2. handled[l] \in [Batch -> Nat] /\ handled[l][Head(chan[l])] + 1 \in Nat
      BY <2>2, <3>1
    <3>3. row \in [Batch -> Nat]
      BY <2>2, <3>2, UpdateFacts
    <3>4. handled' = [handled EXCEPT ![l] = row]
      BY <3>1, Zenon
    <3> HIDE DEF row
    <3>5. [handled EXCEPT ![l] = row] \in [Listeners -> [Batch -> Nat]]
      BY <3>1, <3>3, UpdateFacts
    <3> QED BY <3>4, <3>5
  <2> QED BY <1>5, <2>3, <2>4, SMTT(60) DEF HandleBatch
<1>6. CASE SeeDone(l)
  BY <1>6 DEF SeeDone, Batch
<1>7. CASE ReturnInventory(l)
  BY <1>7 DEF ReturnInventory, Batch
<1> QED BY <1>1, <1>2, <1>3, <1>4, <1>5, <1>6, <1>7, <1>8 DEF Listen

\* TypeOK is inductive, given how far the writer has merged.
LEMMA TypeStep ==
  ASSUME TypeOK, Merged, [Next]_vars
  PROVE  TypeOK'
<1> USE DEF holderVars, lockVars, chanVars, doneVars, writerVars, readVars
<1>1. CASE Writer \/ AbandonInventory
  BY <1>1, WriterTyped
<1>2. ASSUME NEW c \in Closer, Done(c) PROVE TypeOK'
  BY <1>2, DoneTyped
<1>3. ASSUME NEW l \in Listeners, Access(l) \/ Leave(l) \/ Listen(l) PROVE TypeOK'
  BY <1>3, ListenerTyped
<1>4. CASE CleanupInventory
  BY <1>4 DEF CleanupInventory, TypeOK, Batch
<1>5. CASE Shutdown
  BY <1>5 DEF Shutdown, TypeOK, Closer, Batch
<1>6. CASE UNCHANGED vars
  BY <1>6 DEF vars, TypeOK, Batch
<1>7. ASSUME NEW o \in Others, StopByOther(o) PROVE TypeOK'
  BY <1>7 DEF StopByOther, TypeOK, Closer, Batch
<1> QED BY <1>1, <1>2, <1>3, <1>4, <1>5, <1>6, <1>7 DEF Next, Rest
-----------------------------------------------------------------------------
(* What a step leaves alone, and what it does to one part of the state *)

\* The writer merges the batches in order, each before its broadcast, and stops
\* after the last one.
LEMMA MergedStep ==
  ASSUME InventoryInv, [Next]_vars
  PROVE  Merged'
<1> USE InventoryAssumption DEF holderVars, lockVars, chanVars, doneVars, writerVars, readVars
<1>1. TypeOK /\ Merged /\ next \in Nat /\ next >= 1 /\ next <= NumBatches + 1
  BY DEF InventoryInv, TypeOK
<1>2. CASE BeginWrite \/ MarkFetching
  BY <1>1, <1>2 DEF BeginWrite, MarkFetching, Merged
<1>3. CASE MergeBatch
  BY <1>1, <1>3 DEF MergeBatch, Merged
<1>4. CASE BeginBroadcast \/ SendBatch \/ SendPanics
  BY <1>1, <1>4 DEF BeginBroadcast, SendBatch, SendPanics, Merged
<1>5. CASE EndBroadcast
  BY <1>1, <1>5 DEF EndBroadcast, Merged
<1>6. CASE StopInventory
  BY <1>1, <1>6 DEF StopInventory, Merged, Batch
<1>7. CASE AbandonInventory
  BY <1>1, <1>7 DEF AbandonInventory, Merged
<1>8. CASE UNCHANGED <<wpc, next, inventory>>
  BY <1>1, <1>8 DEF Merged, Batch
<1>9. ASSUME NEW c \in Closer, Done(c) PROVE UNCHANGED <<wpc, next, inventory>>
  BY <1>9 DEF Done, CloseDoneChan, CloseListeners, ReleaseWriter
<1>10. ASSUME NEW l \in Listeners, Access(l) \/ Leave(l) \/ Listen(l) PROVE UNCHANGED <<wpc, next, inventory>>
  BY <1>10 DEF Access, Leave, Listen, Register, HandleSnapshot, EndSnapshot, HandleBatch, SeeDone,
     ReturnInventory
<1>11. CASE CleanupInventory \/ Shutdown \/ Rest \/ UNCHANGED vars
  BY <1>8, <1>11 DEF CleanupInventory, Shutdown, Rest, vars
<1>12. ASSUME NEW o \in Others, StopByOther(o) PROVE UNCHANGED <<wpc, next, inventory>>
  BY <1>12 DEF StopByOther
<1> QED BY <1>2, <1>3, <1>4, <1>5, <1>6, <1>7, <1>8, <1>9, <1>10, <1>11, <1>12 DEF Next, Writer

\* The signals are given in order: doneChan first, the listeners' channels by the
\* one caller of done() that closed it.
LEMMA SignalsStep ==
  ASSUME InventoryInv, [Next]_vars
  PROVE  Signals' /\ OneCloser'
<1> USE DEF holderVars, lockVars, chanVars, doneVars, writerVars, readVars
<1>1. /\ Signals /\ OneCloser /\ lpc \in [Listeners -> {"out", "accessed", "left", "registered",
                             "snapshot", "select", "returning", "returned"}]
      /\ dpc \in [Closer -> {"idle", "once", "closing", "release", "end"}]
      /\ chanClosed \in [Listeners -> BOOLEAN] /\ once \in {"fresh", "running", "ran"}
      /\ doneClosed \in BOOLEAN
  BY DEF InventoryInv, TypeOK
<1>2. CASE StopInventory
  BY <1>1, <1>2 DEF StopInventory, Signals, OneCloser, Closer
<1>3. CASE Shutdown
  BY <1>1, <1>3 DEF Shutdown, Signals, OneCloser, Closer
<1>10. ASSUME NEW o \in Others, StopByOther(o) PROVE Signals' /\ OneCloser'
  <2>1. o # "writer" /\ o \in Closer
    BY InventoryAssumption DEF Closer
  <2> QED BY <1>1, <1>10, <2>1 DEF StopByOther, Signals, OneCloser, Closer
<1>4. ASSUME NEW c \in Closer, CloseDoneChan(c) PROVE Signals' /\ OneCloser'
  BY <1>1, <1>4 DEF CloseDoneChan, Signals, OneCloser, Closer
<1>5. ASSUME NEW c \in Closer, CloseListeners(c) PROVE Signals' /\ OneCloser'
  BY <1>1, <1>5 DEF CloseListeners, Signals, OneCloser, Closer
<1>6. ASSUME NEW c \in Closer, ReleaseWriter(c) PROVE Signals' /\ OneCloser'
  BY <1>1, <1>6 DEF ReleaseWriter, Signals, OneCloser, Closer
<1>7. CASE /\ UNCHANGED <<doneVars, chanClosed, lpc>>
           /\ wpc = "stop" => wpc' = "stop"
  BY <1>1, <1>7 DEF Signals, OneCloser, Closer
<1>8. CASE BeginWrite \/ MarkFetching \/ MergeBatch \/ BeginBroadcast \/ SendBatch \/ SendPanics
           \/ EndBroadcast \/ AbandonInventory \/ CleanupInventory \/ Rest \/ UNCHANGED vars
  BY <1>7, <1>8 DEF BeginWrite, MarkFetching, MergeBatch, BeginBroadcast, SendBatch, SendPanics,
     EndBroadcast, AbandonInventory, CleanupInventory, Rest, vars
<1>9. ASSUME NEW l \in Listeners, Access(l) \/ Leave(l) \/ Listen(l) PROVE Signals' /\ OneCloser'
  <2>1. UNCHANGED <<doneVars, chanClosed, wpc>>
    BY <1>9 DEF Access, Leave, Listen, Register, HandleSnapshot, EndSnapshot, HandleBatch, SeeDone,
       ReturnInventory
  <2>2. /\ \A m \in Listeners : m # l => lpc'[m] = lpc[m]
        /\ lpc'[l] \in {"returning", "returned"} => doneClosed
    BY <1>1, <1>9 DEF Access, Leave, Listen, Register, HandleSnapshot, EndSnapshot, HandleBatch, SeeDone,
       ReturnInventory, Signals
  <2> QED BY <1>1, <2>1, <2>2 DEF Signals, OneCloser, Closer
<1> QED BY <1>2, <1>3, <1>4, <1>5, <1>6, <1>8, <1>9, <1>10 DEF Next, Writer, Done

\* Whoever may have taken the snapshot is registered.
LEMMA JoinedStep ==
  ASSUME InventoryInv, [Next]_vars
  PROVE  Joined'
<1> USE DEF holderVars, lockVars, chanVars, doneVars, writerVars, readVars
<1>1. /\ Joined /\ listeners \in Seq(Listeners)
      /\ lpc \in [Listeners -> {"out", "accessed", "left", "registered",
                             "snapshot", "select", "returning", "returned"}]
  BY DEF InventoryInv, TypeOK
<1>2. CASE UNCHANGED <<listeners, lpc>>
  BY <1>1, <1>2 DEF Joined
<1>3. CASE Writer \/ AbandonInventory \/ CleanupInventory \/ Shutdown \/ Rest \/ UNCHANGED vars
  BY <1>2, <1>3 DEF Writer, BeginWrite, MarkFetching, MergeBatch, BeginBroadcast, SendBatch,
     SendPanics, EndBroadcast, StopInventory, AbandonInventory, CleanupInventory, Shutdown, Rest,
     vars
<1>4. ASSUME NEW c \in Closer, Done(c) PROVE Joined'
  BY <1>2, <1>4 DEF Done, CloseDoneChan, CloseListeners, ReleaseWriter
<1>7. ASSUME NEW o \in Others, StopByOther(o) PROVE Joined'
  BY <1>2, <1>7 DEF StopByOther
<1>5. ASSUME NEW l \in Listeners, Register(l) PROVE Joined'
  <2>1. Has(listeners', l) /\ \A m \in Listeners : Has(listeners, m) => Has(listeners', m)
    BY <1>1, <1>5, AppendFacts DEF Register
  <2> QED BY <1>1, <1>5, <2>1 DEF Register, Joined
<1>6. ASSUME NEW l \in Listeners, Access(l) \/ Leave(l) \/ Listen(l), ~Register(l) PROVE Joined'
  <2>1. UNCHANGED listeners
        /\ \A m \in Listeners : lpc'[m] \notin {"out", "accessed", "left"}
                                  => lpc[m] \notin {"out", "accessed", "left"}
    BY <1>1, <1>6 DEF Access, Leave, Listen, HandleSnapshot, EndSnapshot, HandleBatch, SeeDone,
       ReturnInventory
  <2> QED BY <1>1, <2>1 DEF Joined
<1> QED BY <1>3, <1>4, <1>5, <1>6, <1>7 DEF Next, Listen

\* Every batch is where it should be.  The batch being broadcast is still to be
\* sent to whoever was registered when the broadcast began, and whoever took the
\* snapshot before the merge was.
LEMMA DeliveredStep ==
  ASSUME InventoryInv, [Next]_vars
  PROVE  Delivered'
<1> USE DEF holderVars, lockVars, chanVars, doneVars, writerVars, readVars
<1>1. /\ Delivered /\ Joined /\ Merged /\ next \in Nat /\ inventory \subseteq Batch
      /\ lpc \in [Listeners -> {"out", "accessed", "left", "registered",
                             "snapshot", "select", "returning", "returned"}]
      /\ chan \in [Listeners -> Seq(Batch)] /\ handled \in [Listeners -> [Batch -> Nat]]
      /\ sendTo \in Seq(Listeners)
  BY DEF InventoryInv, TypeOK, Batch
<1> SUFFICES ASSUME NEW m \in Listeners, lpc'[m] \in {"snapshot", "select"}, NEW b \in inventory'
             PROVE  Accounted(m, b)'
  BY DEF Delivered
<1>2. lpc[m] \in {"snapshot", "select"} /\ b \in inventory => Accounted(m, b)
  BY <1>1 DEF Delivered
<1>3. CASE UNCHANGED <<inventory, lpc, handled, chan, next, wpc, sendTo>>
  BY <1>2, <1>3 DEF Accounted
<1>4. ASSUME NEW c \in Closer, Done(c) PROVE Accounted(m, b)'
  BY <1>3, <1>4 DEF Done, CloseDoneChan, CloseListeners, ReleaseWriter
<1>5. CASE CleanupInventory \/ Shutdown \/ Rest \/ UNCHANGED vars
  BY <1>3, <1>5 DEF CleanupInventory, Shutdown, Rest, vars
<1>15. ASSUME NEW o \in Others, StopByOther(o) PROVE Accounted(m, b)'
  BY <1>3, <1>15 DEF StopByOther
<1>6. CASE BeginWrite \/ MarkFetching \/ StopInventory \/ AbandonInventory
  BY <1>2, <1>6 DEF BeginWrite, MarkFetching, StopInventory, AbandonInventory, Accounted
<1>7. CASE MergeBatch
  BY <1>2, <1>7 DEF MergeBatch, Accounted
<1>8. CASE BeginBroadcast
  BY <1>1, <1>2, <1>8 DEF BeginBroadcast, Accounted, Joined
<1>9. CASE SendPanics
  BY <1>2, <1>9 DEF SendPanics, Accounted
<1>10. CASE EndBroadcast
  <2>1. ~Has(sendTo, m)
    BY <1>10 DEF EndBroadcast, Has
  <2> QED BY <1>2, <1>10, <2>1 DEF EndBroadcast, Accounted
<1>11. CASE SendBatch
  <2>1. /\ wpc = "broadcast" /\ next \in Batch /\ sendTo # <<>>
        /\ UNCHANGED <<inventory, lpc, handled, next, wpc>>
        /\ chan' = [chan EXCEPT ![Head(sendTo)] = Append(@, next)] /\ sendTo' = Tail(sendTo)
    BY <1>1, <1>11 DEF SendBatch, Merged, Batch
  <2>2. /\ Has(sendTo, m) => m = Head(sendTo) \/ Has(sendTo', m)
        /\ Head(sendTo) \in Listeners
    BY <1>1, <2>1, TailFacts
  <2>3. /\ Has(chan[m], b) => Has(chan'[m], b)
        /\ m = Head(sendTo) => Has(chan'[m], next)
    BY <1>1, <2>1, <2>2, AppendFacts
  <2> QED BY <1>2, <2>1, <2>2, <2>3 DEF Accounted
<1>12. ASSUME NEW l \in Listeners,
              Access(l) \/ Leave(l) \/ Register(l) \/ EndSnapshot(l) \/ SeeDone(l) \/ ReturnInventory(l)
       PROVE  Accounted(m, b)'
  <2>1. UNCHANGED <<inventory, handled, chan, next, wpc, sendTo>> /\ lpc[m] \in {"snapshot", "select"}
    BY <1>1, <1>12 DEF Access, Leave, Register, EndSnapshot, SeeDone, ReturnInventory
  <2> QED BY <1>2, <2>1 DEF Accounted
<1>13. ASSUME NEW l \in Listeners, HandleSnapshot(l) PROVE Accounted(m, b)'
  <2>1. /\ UNCHANGED <<inventory, chan, next, wpc, sendTo>>
        /\ m # l => lpc'[m] = lpc[m] /\ handled'[m] = handled[m]
        /\ m = l => handled'[m][b] = handled[m][b] + 1 /\ handled[m][b] \in Nat
    BY <1>1, <1>13 DEF HandleSnapshot
  <2>2. m = l => handled'[m][b] > 0
    BY <2>1
  <2> QED BY <1>2, <2>1, <2>2 DEF Accounted
<1>14. ASSUME NEW l \in Listeners, HandleBatch(l) PROVE Accounted(m, b)'
  <2>1. /\ UNCHANGED <<inventory, lpc, next, wpc, sendTo>>
        /\ chan[l] # <<>> /\ chan[l] \in Seq(Batch) /\ b \in Batch
    BY <1>1, <1>14 DEF HandleBatch
  <2>2. /\ Head(chan[l]) \in Batch /\ Has(chan[l], b) => b = Head(chan[l]) \/ Has(Tail(chan[l]), b)
    BY <2>1, TailFacts
  <2>3. /\ m # l => chan'[m] = chan[m] /\ handled'[m] = handled[m]
        /\ m = l => /\ chan'[m] = Tail(chan[m])
                    /\ handled'[m][b] = IF b = Head(chan[l]) THEN handled[m][b] + 1 ELSE handled[m][b]
        /\ handled[m][b] \in Nat
    BY <1>1, <1>14, <2>1, <2>2 DEF HandleBatch
  <2>4. (m = l /\ b = Head(chan[l])) => handled'[m][b] > 0
    BY <2>3
  <2> QED BY <1>2, <2>1, <2>2, <2>3, <2>4 DEF Accounted
<1> QED BY <1>4, <1>5, <1>6, <1>7, <1>8, <1>9, <1>10, <1>11, <1>12, <1>13, <1>14, <1>15
        DEF Next, Writer, Listen

\* What somebody else has completed stays so, and only the writer's own step
\* starts or ends the writer's done().
LEMMA DoneCallers ==
  ASSUME InventoryInv, [Next]_vars
  PROVE  /\ Interrupted => Interrupted'
         /\ ~(\E c \in Closer : ReleaseWriter(c)) =>
              (dpc'["writer"] = "end" <=> dpc["writer"] = "end")
<1> USE DEF holderVars, lockVars, chanVars, doneVars, writerVars, readVars
<1>1. dpc \in [Closer -> {"idle", "once", "closing", "release", "end"}]
      /\ "writer" \in Closer /\ (StopInventory => dpc["writer"] = "idle")
  BY DEF InventoryInv, TypeOK, Signals, StopInventory, Closer
<1> SUFFICES ASSUME NEW d \in Closer
             PROVE  /\ dpc[d] # "idle" => dpc'[d] # "idle"
                    /\ ~(\E c \in Closer : ReleaseWriter(c)) => (dpc'[d] = "end" <=> dpc[d] = "end")
  BY <1>1 DEF Interrupted
<1>2. CASE UNCHANGED dpc
  BY <1>2
<1>3. CASE Shutdown
  BY <1>1, <1>3 DEF Shutdown
<1>4. ASSUME NEW o \in Others, StopByOther(o)
      PROVE  /\ dpc[d] # "idle" => dpc'[d] # "idle"
             /\ dpc'[d] = "end" <=> dpc[d] = "end"
  BY <1>1, <1>4 DEF StopByOther, Closer
<1>5. ASSUME NEW c \in Closer, Done(c)
      PROVE  /\ dpc[d] # "idle" => dpc'[d] # "idle"
             /\ ~ReleaseWriter(c) => (dpc'[d] = "end" <=> dpc[d] = "end")
  BY <1>1, <1>5 DEF Done, CloseDoneChan, CloseListeners, ReleaseWriter
<1>6. CASE (Writer /\ ~StopInventory) \/ AbandonInventory \/ CleanupInventory \/ Rest
           \/ UNCHANGED vars
  BY <1>2, <1>6 DEF Writer, BeginWrite, MarkFetching, MergeBatch, BeginBroadcast, SendBatch,
     SendPanics, EndBroadcast, AbandonInventory, CleanupInventory, Rest, vars
<1>7. CASE StopInventory
  BY <1>1, <1>7 DEF StopInventory
<1>8. ASSUME NEW l \in Listeners, Access(l) \/ Leave(l) \/ Listen(l) PROVE UNCHANGED dpc
  BY <1>8 DEF Access, Leave, Listen, Register, HandleSnapshot, EndSnapshot, HandleBatch, SeeDone,
     ReturnInventory
<1> QED BY <1>2, <1>3, <1>4, <1>5, <1>6, <1>7, <1>8 DEF Next

\* The references counted are those of the listeners at work, of the requests that
\* left theirs behind, and of the writer, who gives its own back at the end of
\* done().
LEMMA RefCountStep ==
  ASSUME InventoryInv, [Next]_vars
  PROVE  RefCountHeld'
<1> USE DEF holderVars, lockVars, chanVars, doneVars, writerVars, readVars
<1> DEFINE H == {l \in Listeners : Holding(l)}
           W == IF dpc["writer"] = "end" THEN 0 ELSE 1
<1>1. /\ RefCountHeld /\ TypeOK /\ refCount \in Int
      /\ lpc \in [Listeners -> {"out", "accessed", "left", "registered",
                             "snapshot", "select", "returning", "returned"}]
      /\ dpc \in [Closer -> {"idle", "once", "closing", "release", "end"}]
  BY DEF InventoryInv, TypeOK
<1>2. IsFiniteSet(H) /\ Cardinality(H) \in Nat /\ W \in Nat
  BY InventoryAssumption, FS_Subset, FS_CardinalityType
<1>3. ~Interrupted => refCount = Cardinality(H) + W
  BY <1>1 DEF RefCountHeld
<1>4. ~Interrupted' => ~Interrupted
  BY <1>1, DoneCallers
<1>5. SUFFICES ~Interrupted' => refCount' = Cardinality(H)' + W'
  BY DEF RefCountHeld
<1>6. CASE UNCHANGED <<refCount, lpc>> /\ W' = W
  <2>1. H' = H
    BY <1>6 DEF Holding, Active
  <2> HIDE DEF H, W
  <2> QED BY <1>3, <1>4, <1>6, <2>1
<1>7. ASSUME NEW c \in Closer, ReleaseWriter(c) PROVE ~Interrupted' => refCount' = Cardinality(H)' + W'
  <2>1. CASE c # "writer"
    <3>1. dpc'[c] = "end"
      BY <1>1, <1>7 DEF ReleaseWriter
    <3> QED BY <2>1, <3>1 DEF Interrupted
  <2>2. CASE c = "writer"
    <3>1. refCount' = refCount - 1 /\ H' = H
      BY <1>7 DEF ReleaseWriter, Holding, Active
    <3>2. W = 1 /\ W' = 0
      BY <1>1, <1>7, <2>2 DEF ReleaseWriter
    <3> HIDE DEF H, W
    <3> QED BY <1>1, <1>2, <1>3, <1>4, <3>1, <3>2
  <2> QED BY <2>1, <2>2
<1>8. CASE ~(\E c \in Closer : ReleaseWriter(c))
  <2>1. W' = W
    BY <1>1, <1>8, DoneCallers
  <2>2. CASE Writer \/ AbandonInventory \/ CleanupInventory \/ Shutdown \/ Rest \/ UNCHANGED vars
    <3>1. UNCHANGED <<refCount, lpc>>
      BY <2>2 DEF Writer, BeginWrite, MarkFetching, MergeBatch, BeginBroadcast, SendBatch,
         SendPanics, EndBroadcast, StopInventory, AbandonInventory, CleanupInventory, Shutdown,
         Rest, vars
    <3> QED BY <1>6, <2>1, <3>1
  <2>3. ASSUME NEW c \in Closer, CloseDoneChan(c) \/ CloseListeners(c) PROVE UNCHANGED <<refCount, lpc>>
    BY <2>3 DEF CloseDoneChan, CloseListeners
  <2>4. ASSUME NEW o \in Others, StopByOther(o) PROVE UNCHANGED <<refCount, lpc>>
    BY <2>4 DEF StopByOther
  <2>5. ASSUME NEW l \in Listeners, Access(l)
        PROVE  ~Interrupted' => refCount' = Cardinality(H)' + W'
    <3>1. refCount' = refCount + 1 /\ H' = H \cup {l} /\ l \notin H
      BY <1>1, <2>5 DEF Access, Holding, Active
    <3>2. Cardinality(H') = Cardinality(H) + 1
      BY <1>2, <3>1, FS_AddElement
    <3> HIDE DEF H, W
    <3> QED BY <1>1, <1>2, <1>3, <1>4, <2>1, <3>1, <3>2
  <2>6. ASSUME NEW l \in Listeners, ReturnInventory(l)
        PROVE  ~Interrupted' => refCount' = Cardinality(H)' + W'
    <3>1. refCount' = refCount - 1 /\ H' = H \ {l} /\ l \in H
      BY <1>1, <2>6 DEF ReturnInventory, Holding, Active
    <3>2. Cardinality(H') = Cardinality(H) - 1
      BY <1>2, <3>1, FS_RemoveElement
    <3> HIDE DEF H, W
    <3> QED BY <1>1, <1>2, <1>3, <1>4, <2>1, <3>1, <3>2
  <2>7. ASSUME NEW l \in Listeners, Leave(l) \/ (Listen(l) /\ ~ReturnInventory(l))
        PROVE  ~Interrupted' => refCount' = Cardinality(H)' + W'
    <3>1. UNCHANGED refCount /\ \A m \in Listeners : Holding(m)' <=> Holding(m)
      BY <1>1, <2>7 DEF Leave, Listen, Register, HandleSnapshot, EndSnapshot, HandleBatch, SeeDone,
         Holding, Active
    <3>2. H' = H
      BY <3>1
    <3> HIDE DEF H, W
    <3> QED BY <1>3, <1>4, <2>1, <3>1, <3>2
  <2> HIDE DEF H, W
  <2> QED BY <1>6, <1>8, <2>1, <2>2, <2>3, <2>4, <2>5, <2>6, <2>7 DEF Next, Done
<1> HIDE DEF H, W
<1> QED BY <1>7, <1>8

\* A listener returns what is in the inventory once doneChan is closed: until
\* somebody else does, the writer closes it, and has merged every batch by then.
LEMMA CompleteStep ==
  ASSUME InventoryInv, [Next]_vars
  PROVE  CompleteOnReturn'
<1> USE DEF holderVars, lockVars, chanVars, doneVars, writerVars, readVars
<1>1. /\ CompleteOnReturn /\ Signals /\ Merged /\ TypeOK
      /\ lpc \in [Listeners -> {"out", "accessed", "left", "registered",
                             "snapshot", "select", "returning", "returned"}]
      /\ result \in [Listeners -> SUBSET Batch]
  BY DEF InventoryInv, TypeOK
<1>2. ~Interrupted' => ~Interrupted
  BY <1>1, DoneCallers
<1>3. CASE UNCHANGED result /\ \A m \in Listeners : lpc'[m] = "returned" => lpc[m] = "returned"
  BY <1>1, <1>2, <1>3 DEF CompleteOnReturn
<1>4. CASE Writer \/ AbandonInventory \/ CleanupInventory \/ Shutdown \/ Rest \/ UNCHANGED vars
  BY <1>3, <1>4 DEF Writer, BeginWrite, MarkFetching, MergeBatch, BeginBroadcast, SendBatch,
     SendPanics, EndBroadcast, StopInventory, AbandonInventory, CleanupInventory, Shutdown, Rest,
     vars
<1>5. ASSUME NEW c \in Closer, Done(c) PROVE CompleteOnReturn'
  BY <1>3, <1>5 DEF Done, CloseDoneChan, CloseListeners, ReleaseWriter
<1>8. ASSUME NEW o \in Others, StopByOther(o) PROVE CompleteOnReturn'
  BY <1>3, <1>8 DEF StopByOther
<1>6. ASSUME NEW l \in Listeners, Access(l) \/ Leave(l) \/ Listen(l), ~ReturnInventory(l)
      PROVE  CompleteOnReturn'
  <2>1. UNCHANGED result /\ \A m \in Listeners : lpc'[m] = "returned" => lpc[m] = "returned"
    BY <1>1, <1>6 DEF Access, Leave, Listen, Register, HandleSnapshot, EndSnapshot, HandleBatch,
       SeeDone
  <2> QED BY <1>3, <2>1
<1>7. ASSUME NEW l \in Listeners, ReturnInventory(l) PROVE CompleteOnReturn'
  <2>1. ~Interrupted => inventory = Batch
    BY <1>1, <1>7 DEF ReturnInventory, Signals, Merged, Interrupted
  <2>2. /\ lpc[l] = "returning" /\ result'[l] = inventory
        /\ \A m \in Listeners \ {l} : lpc'[m] = lpc[m] /\ result'[m] = result[m]
    BY <1>1, <1>7 DEF ReturnInventory
  <2> QED BY <1>1, <1>2, <2>1, <2>2 DEF CompleteOnReturn
<1> QED BY <1>4, <1>5, <1>6, <1>7, <1>8 DEF Next

\* A channel is closed by whoever runs done(), and the writer, who is still
\* broadcasting, has not called it: somebody else has.
LEMMA NoSendStep ==
  ASSUME InventoryInv, [Next]_vars
  PROVE  NoSendOnClosed'
<1> USE DEF holderVars, lockVars, chanVars, doneVars, writerVars, readVars
<1>1. NoSendOnClosed /\ Signals /\ TypeOK /\ sendTo \in Seq(Listeners)
  BY DEF InventoryInv, TypeOK
<1>2. CASE SendPanics
  <2>1. Head(sendTo) \in Listeners
    BY <1>1, <1>2, TailFacts DEF SendPanics
  <2>2. /\ \E c \in Closer : dpc[c] \notin {"idle", "once"}
        /\ dpc["writer"] = "idle" /\ UNCHANGED dpc
    BY <1>1, <1>2, <2>1 DEF SendPanics, Signals
  <2> QED BY <2>2 DEF NoSendOnClosed, Interrupted
<1>3. CASE wpc' # "panicked"
  BY <1>3 DEF NoSendOnClosed
<1>4. CASE UNCHANGED wpc
  BY <1>1, <1>4, DoneCallers DEF NoSendOnClosed
<1>5. CASE (Writer /\ ~SendPanics) \/ AbandonInventory
  <2>1. CASE SendBatch
    BY <1>4, <2>1 DEF SendBatch
  <2>2. CASE ~SendBatch
    BY <1>3, <1>5, <2>2 DEF Writer, BeginWrite, MarkFetching, MergeBatch, BeginBroadcast,
       EndBroadcast, StopInventory, AbandonInventory
  <2> QED BY <2>1, <2>2
<1>6. CASE CleanupInventory \/ Shutdown \/ Rest \/ UNCHANGED vars
  BY <1>4, <1>6 DEF CleanupInventory, Shutdown, Rest, vars
<1>7. ASSUME NEW o \in Others, StopByOther(o) PROVE NoSendOnClosed'
  BY <1>4, <1>7 DEF StopByOther
<1>8. ASSUME NEW c \in Closer, Done(c) PROVE NoSendOnClosed'
  BY <1>4, <1>8 DEF Done, CloseDoneChan, CloseListeners, ReleaseWriter
<1>9. ASSUME NEW l \in Listeners, Access(l) \/ Leave(l) \/ Listen(l) PROVE NoSendOnClosed'
  BY <1>4, <1>9 DEF Access, Leave, Listen, Register, HandleSnapshot, EndSnapshot, HandleBatch,
     SeeDone, ReturnInventory
<1> QED BY <1>2, <1>5, <1>6, <1>7, <1>8, <1>9 DEF Next

\* InventoryInv is inductive.
LEMMA InventoryInvStep == InventoryInv /\ [Next]_vars => InventoryInv'
<1> SUFFICES ASSUME InventoryInv, [Next]_vars PROVE InventoryInv'
  OBVIOUS
<1>1. TypeOK'
  BY TypeStep DEF InventoryInv
<1>2. Merged' /\ Joined' /\ Delivered'
  BY MergedStep, JoinedStep, DeliveredStep
<1>3. Signals' /\ OneCloser' /\ RefCountHeld'
  BY SignalsStep, RefCountStep
<1>4. CompleteOnReturn' /\ NoSendOnClosed'
  BY CompleteStep, NoSendStep
<1> QED BY <1>1, <1>2, <1>3, <1>4 DEF InventoryInv
-----------------------------------------------------------------------------
(* The theorems *)

\* The inductive invariant holds in every state of every inventory.
THEOREM InventoryInvariant == Spec => []InventoryInv
<1> QED BY InventoryInvInit, InventoryInvStep, PTL DEF Spec

\* The holder's locks and doneOnce do their work: until somebody else than the
\* writer calls done(), the count is that of the references nobody has given back,
\* and only one caller of done() closes the channels.
THEOREM HolderIsSound == Spec => []HolderSound
<1>1. InventoryInv => HolderSound
  BY DEF InventoryInv, HolderSound
<1> QED BY <1>1, InventoryInvariant, PTL

\* Unless somebody else than its writer has completed the inventory, a listener
\* never returns a part of the parts list, whichever signal released it and
\* whenever the inventory was forgotten.
THEOREM ReturnsComplete == Spec => []CompleteOnReturn
<1>1. InventoryInv => CompleteOnReturn
  BY DEF InventoryInv
<1> QED BY <1>1, InventoryInvariant, PTL

\* The writer never broadcasts into a closed channel, unless somebody else has
\* completed its inventory.
THEOREM SendsOnOpen == Spec => []NoSendOnClosed
<1>1. InventoryInv => NoSendOnClosed
  BY DEF InventoryInv
<1> QED BY <1>1, InventoryInvariant, PTL

\* Whenever a listener registers, it misses no batch.
THEOREM BatchesReachListeners == Spec => []NoBatchLost
<1>1. InventoryInv => NoBatchLost
  BY DEF InventoryInv, Delivered, Accounted, Has, NoBatchLost
<1> QED BY <1>1, InventoryInvariant, PTL

=============================================================================
