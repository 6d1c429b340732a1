-------------------------------- MODULE Inventory -------------------------------
(***************************************************************************)
(* One Inventory of internal/setruntime/inventory.go: the object through   *)
(* which the runtime set that fetches a set's parts list (the writer)      *)
(* shares it, while it is being fetched, with the runtime sets of other    *)
(* locales (the listeners).  The writer broadcasts batches of bricks; a    *)
(* listener starts from a snapshot and then follows the batches until the  *)
(* writer is done.                                                         *)
(*                                                                         *)
(* Bricks are abstracted to the batch that brings them: batch b stands for *)
(* the bricks of the b-th broadcast, all new.  Lock-protected sections     *)
(* that cannot block are one action; a section that blocks or calls back   *)
(* while it holds a lock has the lock in a variable.                       *)
(***************************************************************************)
EXTENDS Naturals, Integers, Sequences, FiniteSets

CONSTANTS
  Listeners,       \* runtime sets that may join the inventory as readers
  NumBatches,      \* batches the writer broadcasts
  ChanCap,         \* capacity of a listener's channel (10 in the code)
  WriterMayFail,   \* fetchInventory may end before its first batch, without
                   \* StopInventory (not found, empty or failed upstream fetch),
                   \* or its request be answered 404 before it runs
  Others,          \* earlier fetches of the same set, whose own inventory was
                   \* forgotten while they ran
  MaxInterruptions \* bound: how many of Others and Shutdown call done()

ASSUME InventoryAssumption ==
  /\ IsFiniteSet(Listeners)
  /\ NumBatches \in Nat /\ ChanCap \in Nat \ {0}
  /\ WriterMayFail \in BOOLEAN /\ MaxInterruptions \in Nat
  /\ {"writer", "shutdown"} \cap Others = {}

Batch  == 1..NumBatches
Closer == {"writer", "shutdown"} \cup Others   \* who may call done()
Nobody == "nobody"

VARIABLES
  inMap,          \* the holder's map still has this inventory
  closed,         \* Inventory.closed
  status,         \* Inventory.status
  refCount,       \* Inventory.refCount
  inventory,      \* the batches merged into Inventory.inventory
  writerLock,     \* holder of Inventory.writer
  listenerLock,   \* holder of Inventory.listenerMutex
  listeners,      \* Inventory.listeners, in registration order
  chan, chanClosed,  \* every listener's channel
  doneClosed,     \* doneChan is closed
  once,           \* the state of doneOnce
  wpc, next, sendTo, \* the writer: where it is, its batch, who still gets it
  dpc,            \* where each caller of done() is
  lpc,            \* where each listener is
  handled,        \* how often each listener handled each batch
  result          \* what listen returned

holderVars == <<inMap, closed, status, refCount>>
lockVars   == <<writerLock, listenerLock>>
chanVars   == <<listeners, chan, chanClosed>>
doneVars   == <<doneClosed, once, dpc>>
writerVars == <<wpc, next, sendTo>>
readVars   == <<lpc, handled, result>>
vars == <<inMap, closed, status, refCount, inventory, writerLock, listenerLock,
          listeners, chan, chanClosed, doneClosed, once, wpc, next, sendTo, dpc,
          lpc, handled, result>>

TypeOK ==
  /\ inMap \in BOOLEAN /\ closed \in BOOLEAN
  /\ status \in {"Pending", "Fetching", "Completed"}
  /\ refCount \in Int
  /\ inventory \subseteq Batch
  /\ writerLock \in Listeners \cup {Nobody}
  /\ listenerLock \in {"writer", Nobody}
  /\ listeners \in Seq(Listeners)
  /\ chan \in [Listeners -> Seq(Batch)]
  /\ chanClosed \in [Listeners -> BOOLEAN]
  /\ doneClosed \in BOOLEAN /\ once \in {"fresh", "running", "ran"}
  /\ wpc \in {"write", "mark", "merge", "lock", "broadcast", "stop", "failed",
              "panicked"}
  /\ next \in 1..(NumBatches + 1)
  /\ sendTo \in Seq(Listeners)
  /\ dpc \in [Closer -> {"idle", "once", "closing", "release", "end"}]
  /\ lpc \in [Listeners -> {"out", "accessed", "left", "registered",
                            "snapshot", "select", "returning", "returned"}]
  /\ handled \in [Listeners -> [Batch -> Nat]]
  /\ result \in [Listeners -> SUBSET Batch]

\* Access has just created the inventory and given its caller write access.
Init ==
  /\ inMap = TRUE /\ closed = FALSE /\ status = "Pending" /\ refCount = 1
  /\ inventory = {}
  /\ writerLock = Nobody /\ listenerLock = Nobody
  /\ listeners = <<>>
  /\ chan = [l \in Listeners |-> <<>>]
  /\ chanClosed = [l \in Listeners |-> FALSE]
  /\ doneClosed = FALSE /\ once = "fresh"
  /\ wpc = "write" /\ next = 1 /\ sendTo = <<>>
  /\ dpc = [c \in Closer |-> "idle"]
  /\ lpc = [l \in Listeners |-> "out"]
  /\ handled = [l \in Listeners |-> [b \in Batch |-> 0]]
  /\ result = [l \in Listeners |-> {}]

-----------------------------------------------------------------------------
(* The writer: write() for every batch, then StopInventory *)

\* The status is read without a lock ...
BeginWrite ==
  /\ wpc = "write" /\ next <= NumBatches
  /\ wpc' = IF status = "Pending" THEN "mark" ELSE "merge"
  /\ UNCHANGED <<holderVars, inventory, lockVars, chanVars, doneVars, next,
                 sendTo, readVars>>

\* ... and set under refCountMutex afterwards.
MarkFetching ==
  /\ wpc = "mark"
  /\ wpc' = "merge" /\ status' = "Fetching"
  /\ UNCHANGED <<inMap, closed, refCount, inventory, lockVars, chanVars,
                 doneVars, next, sendTo, readVars>>

\* A fault: the writer completes the inventory with the last batch, before it
\* has broadcast that batch.
MergeAndFinish ==
  /\ wpc = "merge" /\ writerLock = Nobody
  /\ wpc' = "lock" /\ inventory' = inventory \cup {next}
  /\ dpc' = [dpc EXCEPT !["writer"] = IF next = NumBatches THEN "once" ELSE @]
  /\ UNCHANGED <<holderVars, lockVars, chanVars, doneClosed, once, next, sendTo,
                 readVars>>

MergeBatch ==
  /\ wpc = "merge" /\ writerLock = Nobody
  /\ wpc' = "lock" /\ inventory' = inventory \cup {next}
  /\ UNCHANGED <<holderVars, lockVars, chanVars, doneVars, next, sendTo,
                 readVars>>

BeginBroadcast ==
  /\ wpc = "lock" /\ listenerLock = Nobody
  /\ wpc' = "broadcast" /\ listenerLock' = "writer" /\ sendTo' = listeners
  /\ UNCHANGED <<holderVars, inventory, writerLock, chanVars, doneVars, next,
                 readVars>>

\* A fault: a send that does not wait for a slow listener.
SendOrDrop ==
  /\ wpc = "broadcast" /\ sendTo # <<>>
  /\ ~chanClosed[Head(sendTo)]
  /\ chan' = [chan EXCEPT ![Head(sendTo)] =
                IF Len(@) < ChanCap THEN Append(@, next) ELSE @]
  /\ sendTo' = Tail(sendTo)
  /\ UNCHANGED <<holderVars, inventory, lockVars, listeners, chanClosed,
                 doneVars, wpc, next, readVars>>

SendBatch ==
  /\ wpc = "broadcast" /\ sendTo # <<>>
  /\ ~chanClosed[Head(sendTo)] /\ Len(chan[Head(sendTo)]) < ChanCap
  /\ chan' = [chan EXCEPT ![Head(sendTo)] = Append(@, next)]
  /\ sendTo' = Tail(sendTo)
  /\ UNCHANGED <<holderVars, inventory, lockVars, listeners, chanClosed,
                 doneVars, wpc, next, readVars>>

\* A send on a closed channel panics in the pool's collector goroutine, where
\* nothing recovers it: the process dies, and the steps the other goroutines
\* may still take here are of no consequence.
SendPanics ==
  /\ wpc = "broadcast" /\ sendTo # <<>>
  /\ chanClosed[Head(sendTo)]
  /\ wpc' = "panicked"
  /\ UNCHANGED <<holderVars, inventory, lockVars, chanVars, doneVars, next,
                 sendTo, readVars>>

EndBroadcast ==
  /\ wpc = "broadcast" /\ sendTo = <<>>
  /\ wpc' = "write" /\ listenerLock' = Nobody /\ next' = next + 1
  /\ UNCHANGED <<holderVars, inventory, writerLock, chanVars, doneVars,
                 sendTo, readVars>>

\* A fault: completed before the last batch.
StopInventoryEarly ==
  /\ wpc = "write" /\ next >= NumBatches
  /\ wpc' = "stop"
  /\ status' = "Completed"
  /\ dpc' = [dpc EXCEPT !["writer"] = "once"]
  /\ UNCHANGED <<inMap, closed, refCount, inventory, lockVars, chanVars,
                 doneClosed, once, next, sendTo, readVars>>

\* A fault: the status is set, but nobody is told.
StopInventorySilently ==
  /\ wpc = "write" /\ next > NumBatches
  /\ wpc' = "stop" /\ status' = "Completed"
  /\ UNCHANGED <<inMap, closed, refCount, inventory, lockVars, chanVars,
                 doneVars, next, sendTo, readVars>>

\* Every batch went through the pool: StopInventory looks the set id up in the
\* map and, when this inventory is still there, calls its done().  Otherwise it
\* finds nothing, or completes the inventory that came after this one.
StopInventory ==
  /\ wpc = "write" /\ next > NumBatches
  /\ wpc' = "stop"
  /\ IF inMap THEN /\ status' = "Completed"
                   /\ dpc' = [dpc EXCEPT !["writer"] = "once"]
              ELSE UNCHANGED <<status, dpc>>
  /\ UNCHANGED <<inMap, closed, refCount, inventory, lockVars, chanVars,
                 doneClosed, once, next, sendTo, readVars>>

Interruptible ==
  Cardinality({c \in Closer \ {"writer"} : dpc[c] # "idle"}) < MaxInterruptions

\* So may the fetch of an inventory that came before this one, at any time.
\* Each does so once.
StopByOther(o) ==
  /\ dpc[o] = "idle" /\ inMap /\ Interruptible
  /\ status' = "Completed"
  /\ dpc' = [dpc EXCEPT ![o] = "once"]
  /\ UNCHANGED <<inMap, closed, refCount, inventory, lockVars, chanVars,
                 doneClosed, once, writerVars, readVars>>

\* fetchInventory returns early, or the request that was given write access is
\* answered 404: nobody calls StopInventory, and nobody gives the writer's
\* reference back.
AbandonInventory ==
  /\ WriterMayFail /\ wpc = "write" /\ next = 1
  /\ wpc' = "failed"
  /\ UNCHANGED <<holderVars, inventory, lockVars, chanVars, doneVars, next,
                 sendTo, readVars>>

Writer == \/ BeginWrite \/ MarkFetching \/ MergeBatch \/ BeginBroadcast
          \/ SendBatch \/ SendPanics \/ EndBroadcast \/ StopInventory

-----------------------------------------------------------------------------
(* done(), after it has set the status *)

\* A fault: no sync.Once around the closing.
CloseDoneChanAgain(c) ==
  /\ dpc[c] = "once"
  /\ once' = "running" /\ doneClosed' = TRUE
  /\ dpc' = [dpc EXCEPT ![c] = "closing"]
  /\ UNCHANGED <<holderVars, inventory, lockVars, chanVars, writerVars, readVars>>

\* doneOnce.Do: the first caller closes doneChan and goes on to the listeners'
\* channels, a later one waits until the first is through.
CloseDoneChan(c) ==
  /\ dpc[c] = "once" /\ once # "running"
  /\ IF once = "fresh"
       THEN /\ once' = "running" /\ doneClosed' = TRUE
            /\ dpc' = [dpc EXCEPT ![c] = "closing"]
       ELSE /\ dpc' = [dpc EXCEPT ![c] = "release"]
            /\ UNCHANGED <<once, doneClosed>>
  /\ UNCHANGED <<holderVars, inventory, lockVars, chanVars, writerVars, readVars>>

CloseListeners(c) ==
  /\ dpc[c] = "closing" /\ listenerLock = Nobody
  /\ chanClosed' = [l \in Listeners |->
                      chanClosed[l] \/ \E i \in DOMAIN listeners : listeners[i] = l]
  /\ once' = "ran"
  /\ dpc' = [dpc EXCEPT ![c] = "release"]
  /\ UNCHANGED <<holderVars, inventory, lockVars, listeners, chan, doneClosed,
                 writerVars, readVars>>

ReleaseWriter(c) ==
  /\ dpc[c] = "release"
  /\ refCount' = refCount - 1
  /\ dpc' = [dpc EXCEPT ![c] = "end"]
  /\ UNCHANGED <<inMap, closed, status, inventory, lockVars, chanVars,
                 doneClosed, once, writerVars, readVars>>

Done(c) == CloseDoneChan(c) \/ CloseListeners(c) \/ ReleaseWriter(c)

-----------------------------------------------------------------------------
(* A listener: Access, then listen() *)

\* The holder's mutex is held from the lookup to acquire.
Access(l) ==
  /\ lpc[l] = "out" /\ inMap /\ ~closed
  /\ lpc' = [lpc EXCEPT ![l] = "accessed"]
  /\ refCount' = refCount + 1
  /\ UNCHANGED <<inMap, closed, status, inventory, lockVars, chanVars,
                 doneVars, writerVars, handled, result>>

\* The core cannot be read, a healthy runtime set with the request's key is
\* there already, or the request needs the writer's part and was given a
\* reader's: it is answered, and its reference is never given back.
Leave(l) ==
  /\ lpc[l] = "accessed"
  /\ lpc' = [lpc EXCEPT ![l] = "left"]
  /\ UNCHANGED <<holderVars, inventory, lockVars, chanVars, doneVars,
                 writerVars, handled, result>>

Register(l) ==
  /\ lpc[l] = "accessed" /\ listenerLock = Nobody
  /\ lpc' = [lpc EXCEPT ![l] = "registered"]
  /\ listeners' = Append(listeners, l)
  /\ UNCHANGED <<holderVars, inventory, lockVars, chan, chanClosed, doneVars,
                 writerVars, handled, result>>

\* The snapshot is handled while the writer's lock is held.
HandleSnapshot(l) ==
  /\ lpc[l] = "registered" /\ writerLock = Nobody
  /\ lpc' = [lpc EXCEPT ![l] = "snapshot"]
  /\ writerLock' = l
  /\ handled' = [handled EXCEPT ![l] =
                   [b \in Batch |-> IF b \in inventory THEN @[b] + 1 ELSE @[b]]]
  /\ UNCHANGED <<holderVars, inventory, listenerLock, chanVars, doneVars,
                 writerVars, result>>

EndSnapshot(l) ==
  /\ lpc[l] = "snapshot"
  /\ lpc' = [lpc EXCEPT ![l] = "select"]
  /\ writerLock' = Nobody
  /\ UNCHANGED <<holderVars, inventory, listenerLock, chanVars, doneVars,
                 writerVars, handled, result>>

HandleBatch(l) ==
  /\ lpc[l] = "select" /\ chan[l] # <<>>
  /\ handled' = [handled EXCEPT ![l][Head(chan[l])] = @ + 1]
  /\ chan' = [chan EXCEPT ![l] = Tail(@)]
  /\ UNCHANGED <<holderVars, inventory, lockVars, listeners, chanClosed,
                 doneVars, writerVars, lpc, result>>

\* A fault: the select has no case for doneChan.
SeeClosedChannel(l) ==
  /\ lpc[l] = "select"
  /\ chanClosed[l] /\ chan[l] = <<>>
  /\ lpc' = [lpc EXCEPT ![l] = "returning"]
  /\ UNCHANGED <<holderVars, inventory, lockVars, chanVars, doneVars,
                 writerVars, handled, result>>

\* The channel is closed and drained, or the select picked doneChan.
SeeDone(l) ==
  /\ lpc[l] = "select"
  /\ doneClosed \/ (chanClosed[l] /\ chan[l] = <<>>)
  /\ lpc' = [lpc EXCEPT ![l] = "returning"]
  /\ UNCHANGED <<holderVars, inventory, lockVars, chanVars, doneVars,
                 writerVars, handled, result>>

ReturnInventory(l) ==
  /\ lpc[l] = "returning" /\ writerLock = Nobody
  /\ lpc' = [lpc EXCEPT ![l] = "returned"]
  /\ result' = [result EXCEPT ![l] = inventory]
  /\ refCount' = refCount - 1
  /\ UNCHANGED <<inMap, closed, status, inventory, lockVars, chanVars,
                 doneVars, writerVars, handled>>

Listen(l) == \/ Register(l) \/ HandleSnapshot(l) \/ EndSnapshot(l)
             \/ HandleBatch(l) \/ SeeDone(l) \/ ReturnInventory(l)

-----------------------------------------------------------------------------
(* The holder *)

\* RemoveRuntimeSet cleans up with the last runtime set registered for the set
\* id.  A runtime set that was replaced, or that a request has not registered
\* yet, does not count: the inventory may be forgotten at any time, whoever
\* still writes to it or listens.
CleanupInventory ==
  /\ inMap
  /\ closed' = TRUE /\ inMap' = FALSE
  /\ UNCHANGED <<status, refCount, inventory, lockVars, chanVars, doneVars,
                 writerVars, readVars>>

\* complete() under the holder's mutex, the map emptied, then done() outside.
Shutdown ==
  /\ dpc["shutdown"] = "idle" /\ inMap /\ Interruptible
  /\ inMap' = FALSE
  /\ closed' = (closed \/ status # "Completed")
  /\ status' = "Completed"
  /\ dpc' = [dpc EXCEPT !["shutdown"] = "once"]
  /\ UNCHANGED <<refCount, inventory, lockVars, chanVars, doneClosed, once,
                 writerVars, readVars>>

Active(l) == lpc[l] \notin {"out", "left", "returned"}

Quiet ==
  /\ wpc \in {"stop", "failed"}
  /\ \A c \in Closer : dpc[c] \in {"idle", "end"}
  /\ \A l \in Listeners : ~Active(l)

\* Nothing is left to do, or the process is dead.
Rest == (Quiet \/ wpc = "panicked") /\ UNCHANGED vars

Next ==
  \/ Writer \/ AbandonInventory
  \/ \E c \in Closer : Done(c)
  \/ \E o \in Others : StopByOther(o)
  \/ \E l \in Listeners : Access(l) \/ Leave(l) \/ Listen(l)
  \/ CleanupInventory \/ Shutdown
  \/ Rest

Spec == Init /\ [][Next]_vars

\* Every goroutine keeps running; a request may come or not, and nothing
\* obliges the upstream fetch to succeed.  Weak fairness is enough for the
\* locks: each is wanted by others only finitely often.
Fairness ==
  /\ WF_vars(Writer)
  /\ \A c \in Closer : WF_vars(Done(c))
  /\ \A l \in Listeners : WF_vars(Listen(l))

FairSpec == Spec /\ Fairness

-----------------------------------------------------------------------------
(* Properties *)

\* Somebody else than its own writer has completed the inventory: Shutdown, or
\* the fetch of an inventory that came before it.
Interrupted == \E c \in Closer \ {"writer"} : dpc[c] # "idle"

\* What a listener that returns hands to its runtime set is the whole parts
\* list, whichever of the two completion signals it saw first, whenever it
\* joined and whether the inventory was forgotten meanwhile: FetchSetIncomplete
\* overwrites its set's bricks with it.  Only somebody else's done() breaks it.
CompleteOnReturn ==
  ~Interrupted => \A l \in Listeners : lpc[l] = "returned" => result[l] = Batch

\* The writer sends on a listener's channel that was closed (a panic) only when
\* somebody else's done() closed it: its own comes after its last batch, whatever
\* CleanupInventory did to the map meanwhile.
NoSendOnClosed == wpc = "panicked" => Interrupted

\* A batch merged after a listener registered reaches it: everything in the
\* inventory was handled by the listener, or waits in its channel, or is the
\* batch the writer is about to send it.
NoBatchLost ==
  \A l \in Listeners : lpc[l] = "select" =>
    \A b \in inventory :
      \/ handled[l][b] > 0
      \/ \E i \in DOMAIN chan[l] : chan[l][i] = b
      \/ b = next /\ (wpc \in {"lock", "panicked"} \/ \E i \in DOMAIN sendTo : sendTo[i] = l)

\* Whose reference nobody has given back: the listeners that use the object and
\* the requests that were answered without it.
Holding(l) == Active(l) \/ lpc[l] = "left"

\* Until somebody else's done() gives the writer's reference back a second time,
\* every reference is given back once at most: the count is that of the
\* listeners at work, of the requests that left theirs behind, and of the writer
\* until the end of its done(), also when it has failed and never calls it.  It
\* is never below the users there are; see RefCountTellsUsers for the converse.
RefCountHeld ==
  ~Interrupted =>
    refCount = Cardinality({l \in Listeners : Holding(l)})
               + (IF dpc["writer"] = "end" THEN 0 ELSE 1)

\* Several may run done(); the channels are closed by one of them only (a second
\* close is a panic).
OneCloser ==
  \A c \in Closer : dpc[c] = "closing" =>
    once = "running" /\ \A d \in Closer \ {c} : dpc[d] # "closing"

\* What the holder's two locks and doneOnce keep together, besides the types.
HolderSound == TypeOK /\ RefCountHeld /\ OneCloser

\* Once doneChan is closed a waiting listener returns, even while the writer
\* that should close its channel is stuck in a broadcast.
ReleasedBySignal ==
  \A l \in Listeners : (doneClosed /\ lpc[l] = "select") ~> (lpc[l] = "returned")

\* A listener that joined a writer that goes through with its fetch is released in
\* the end, unless the inventory was forgotten before the writer could complete it
\* (or somebody else completed it first: then the writer may be stuck, or dead).
ReleasedByWriter ==
  \A l \in Listeners :
    (lpc[l] = "accessed") ~>
      \/ lpc[l] \in {"returned", "left"}
      \/ wpc = "failed"
      \/ ~inMap /\ wpc = "stop" /\ dpc["writer"] = "idle"
      \/ Interrupted

\* "listen registers a new listener for inventory updates and waits for updates
\* until the inventory is done" (inventory.go:291): whoever listens is released,
\* also when the writer's fetch fails or the inventory was forgotten.
ListenersReleased ==
  \A l \in Listeners : (lpc[l] = "registered") ~> (lpc[l] = "returned")

\* "Channel closed, writer is done" (inventory.go:323, as :329): whoever calls
\* done(), the writer has merged its last batch.
DoneByWriter == doneClosed => wpc = "stop"

\* "Reference counting for active accessors" (inventory.go:173): the count is that
\* of the writer and the listeners at work.
RefCountTellsUsers ==
  refCount = Cardinality({l \in Listeners : Active(l)})
             + (IF dpc["writer"] = "end" \/ wpc = "failed" THEN 0 ELSE 1)

\* "Shutdown gracefully shuts down the InventoryHolder" (inventory.go:107): no
\* goroutine panics because of it.
GracefulShutdown == wpc # "panicked"
=================================================================================
