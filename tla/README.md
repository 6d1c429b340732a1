# Verification of brick-scanr-backend

The backend answers what the parts of a LEGO set cost. It fetches a set's
details, its parts list and the price of every part from slow, rate-limited
upstream sites (BrickLink, Pick a Brick, the LEGO shop, Rebrickable), keeps the
results in Redis, and streams progress to browsers over websockets. This
directory models its concurrent core in TLA+, checks the models with TLC and
proves the main results with TLAPS.

## 1. The system

| Component | State it keeps | Operations | Hard behaviour | What makes it correct |
|---|---|---|---|---|
| Worker pool `workerpool/pool.go` | three channels, a context, the current batch | `Process`, workers, collector (batching or streaming), `Cancel` | channels closed in order, errors while others block, ticker against full batch | each result delivered once, success is complete, nothing runs on or leaks |
| Shared inventory `setruntime/inventory.go` | parts so far, listeners and their channels, `doneChan`, reference count, three mutexes | `Access`, `write`, `listen`, `done`, `StopInventory`, `CleanupInventory`, `Shutdown` | registration, snapshot and broadcast interleave; blocking send under a lock; several closers, of which one may be another fetch; forgotten while in use | no batch lost, complete on return, nobody released by its writer waits, no send on a closed channel, references |
| Set runtime registry `setruntime/handler.go`, requests `handlers/set_handler.go`, `setruntime/cache.go`, fetches `setruntime/fetch_operations.go` | runtime sets by key and by id, statuses in memory and in Redis | `FetchSetDetails`, `RunSet`, `FetchSetComplete`, `FetchSetIncomplete`, `StopRuntimeSet`, `RemoveRuntimeSet` | check and start in separate critical sections, late stops and ends, copies of cached data written back | the two maps agree, only running sets are found, listeners have a writer, everything ends |
| Event loop of a runtime set `setruntime/runtime.go`, `data.go`, `bricks_handler.go` | clients, bricks, channels for changes and clients | `run`, `handleClientConnect`, data changes, client expiry, `stop` | bounded channels to and from the loop, init packet against packets already queued | a client sees every brick, nobody blocks on an ended loop |
| Websocket client `wsruntime/client.go` | bounded send buffer, failure count | read and write pumps, `SendPacket`, `Close` | full buffer, close that needs room in it | a closed client ends and is unregistered |
| Throttler `throttle/` | request log, last request, block, adaptation | `Wait`, `DoWithRetry`, 429 handling, adaptation | the mutex is released in every sleep | window, spacing, adaptation |
| Search runtime `searchruntime/`, `handlers/search_handler.go`, `main.go` | second registry of event loops, by query | `Search`, `RunSearch`, `SearchWebSocket`, `run`, `stop`, `Shutdown`, `ProcessSearchAsync` | status read without a lock, ends that come late or twice, a program that stops around them | what runs is found, what is found runs, every search ends, and the program once the runtime sets' side lets it |
| Prices `setruntime/fetch_operations.go`, `brick/`, `pickabrick/brick.go`, `set/external.go`, `utils/price.go` | the bricks and totals of each runtime set, `brick:<element>:<locale>` in Redis | inventory batches, the price phase by design, by element and by sibling, cache writes | jobs of several sets read and write the same entries, listeners take over a writer's bricks, three ways into the counters | an entry belongs where it is, each brick counted once, what is sold is found |
| Set catalogue `set/core.go`, `locale.go`, `slug.go`, `bricklink.go`, `fetch_operations.go` on `redis/` | mapping, core, locale and slug entries, locks with leases | `ProcessSetItem` of a search: read, store, refresh, fetch details, map the slug | reads and writes apart, pipelines, leases that end early, a process that stops half-way | nothing is answered or mapped without its core |
| Designs `brick/design.go`, `handlers/brick_handler.go`, `search_handler.go` | `brick:design:<id>:<locale>`, a request's index | detail requests, searches for a brick | one entry read once and written twice per request, an entry made from another design's | a cached status is true, an index is whole |
| Throttle monitor `setruntime/throttle_monitor.go`, `throughput.go` | last state sent | sampling, ETA | ends with the fetch | reports a change once |
| Health monitor `database/health.go`, `app/` | client, healthy flag | periodic check and reconnection | a stale copy of the client | recovers |
| Error logger `supervisor/async_error_logger.go` | bounded channel | `LogError`, `run`, `Close` | drops when full | does not block |
| Upstream clients `bricklink/`, `pickabrick/`, `lego/`, `rebrickable/` | – | HTTP, parsing | pure I/O | |
| HTTP layer `router/`, `middleware/`, `handlers/` | – | routing, rendering | no shared state | |

How they interact. A request (HTTP goroutine) looks for a runtime set, then for
an inventory being fetched, then in Redis; if nothing serves it, it runs a
runtime set (an event loop goroutine) and starts a fetch goroutine. The fetch
goroutine writes the statuses, gets the parts list with a worker pool whose
collector writes every batch to the shared inventory and pushes a change to the
runtime set's channel; runtime sets of other locales listen to that inventory
instead of fetching. A second pool gets the prices, one job per design; its jobs
and those of all other runtime sets share the Redis entries of the elements.
Every upstream call waits in the client's throttler. Three seconds after its end
a fetch signals its runtime set to stop, whose callback takes it out of the
registry and, with the last one of a set id, cleans the inventory up.

A search asks BrickLink, and with many results is answered with the id of a
search runtime, a second kind of event loop, whose goroutine resolves one result
after the other: sets into the catalogue, from which requests open them by id or
slug, bricks through the designs and elements that detail requests use as well.

## 2. The modules

| Module | Models | Size |
|---|---|---|
| `WorkerPool` | `workerpool/pool.go`, whole | one `Process`, any number of workers, one collector, one outside canceller |
| `BatchDelivery` | what the pool promises its caller, abstractly; `WorkerPool` implements it | |
| `WorkerPoolProofs` | theorems about `WorkerPool`, and that it implements `BatchDelivery` | |
| `Inventory` | one `Inventory` of `setruntime/inventory.go` and the holder's operations on it | one writer, any listeners, `Shutdown`, the earlier fetches of the set |
| `InventoryProofs` | theorems about `Inventory` | |
| `SetRuntime` | registry, requests, fetch goroutines, event loops' life, statuses in Redis, of one set id | any requests and locales |
| `MCSetRuntime` | the constants of `SetRuntime` for TLC | |
| `SetRuntimeProofs` | theorems about `SetRuntime` | |
| `ClientStream` | the event loop of one runtime set or one search (`setruntime/runtime.go`, `data.go`, `searchruntime/runtime.go`), the goroutine that feeds it, and `wsruntime/client.go` | any websocket clients, bricks and channel sizes |
| `ClientStreamProofs` | theorems about `ClientStream` | |
| `Throttler` | `throttle/wait.go`, `retry.go`, `adaptive.go` | any callers, a clock |
| `ThrottlerProofs` | theorems about `Throttler` | |
| `BrickPrices` | the parts list, the price phase and the counters of several runtime sets: `setruntime/fetch_operations.go`, `cache.go`, `brick/locale.go`, `design.go`, `pickabrick.go`, `set/external.go` | any runtime sets, bricks, elements, designs, locales |
| `MCBrickPrices` | an instance of `BrickPrices` for TLC | |
| `BrickPricesProofs` | theorems about `BrickPrices` | |
| `SetCatalog` | `ProcessSetItem` of the searches with the entries of `set/` and the locked writes of `redis/` | any searches of one set |
| `DesignIndex` | detail requests and brick results on the design and element entries | any requests, designs, elements |
| `MCDesignIndex` | an instance of `DesignIndex` for TLC | |
| `DesignIndexProofs` | theorems about `DesignIndex` | |
| `SearchRegistry` | `searchruntime/handler.go`, the life of its loops, the requests that start and open searches, the end of `main` | any requests and queries |
| `SearchProofs` | theorems about the two sides of a search, `SearchRegistry` and `SetCatalog` | |

How they compose. `BrickPrices` composes the inventory (its merge, broadcast and
listeners, without the locks that `Inventory` has) with the price phase of a
writer and of its listeners. `SearchRegistry` takes a search for its loop and its
last change; what it sends is `ClientStream`'s with kind `search`, and what it
resolves is `SetCatalog`'s for sets and `DesignIndex`'s for bricks. `SetRuntime` has an
abstract inventory, of which `Inventory` is the detail.

How they correspond to the code.

* `WorkerPool`. `pc` is the position of `Process` (submitting, waiting for
  `wg`, waiting for the collector, returned), `wpc`/`held` of each worker,
  `cpc`/`batch` of the collector. `jobs`, `results` and `collectorDone` are the
  three channels with their capacities. An action is one communication with the
  code up to the next one. A result is the number of its job.
* `Inventory`. `wpc` follows `write()` through its unlocked status test, the
  merge under `writer`, the broadcast under `listenerMutex` send by send, and
  `StopInventory`. `dpc` is where each caller of `done()` is: the writer,
  `Shutdown`, and `Others`, the fetches of the same set whose own inventory was
  forgotten while they ran, since `StopInventory` completes whatever inventory the
  map has for the set id (`StopByOther`). `CleanupInventory` may come at any time:
  it goes by the runtime sets registered, not by who uses the inventory. `once`
  models `doneOnce`. `lpc` follows `Access` and `listen`, or `Leave`: a request
  that is answered after `Access` never gives its reference back. A batch stands
  for the bricks it brings.
* `SetRuntime`. A runtime set and an inventory are named after the request that
  created them, as each creates one at most. `pc` is the request's way through
  `FetchSetDetails`/`GetCacheSet`, `fetch` its fetch goroutine, `loop` the event
  loop (`ready` in its select, `busy`, `stopping`, `ended`). Each critical
  section of the handler's mutex is one action. `inventory`/`inventoryDone` are
  the part of `Inventory` its users can tell. `forgotten` is a history: the holder
  has dropped an inventory whose writer had not run its runtime set yet. A request
  in `MayMiss` may find its entries gone, or Redis failing, at each of its reads of
  the cache; a writer that does (`PrepareFull`, `set_handler.go:163-168`) is answered
  404 and leaves its inventory in the map (`GaveUp`).
* `ClientStream`. `kind` tells a full fetch, an incomplete one and a search.
  `loop` is where `run()` is: in its select, `reading` the bricks between the
  two critical sections of `BricksHandler.get`, `closing` clients (which other
  goroutines see one by one, but cannot tell from all at once), or ended.
  `register`, `unregister` and `changes` are the channels. `pc`, `out` and
  `found` follow the fetching goroutine: what it still has to push, and whether
  `PushChange` has looked the runtime up and is about to send to it. Of a client,
  `conn` is its connection, `read` and `write` are its pumps, `send` its buffer,
  `hand` the message being written, `timer` the timer of `Close`. `seen`,
  `told`, `lost`, `dismissed` and `bye` are histories for the properties.
  `final` and `missing` are the two parts of `BricksHandler`; a packet is the
  bricks in it and what it says of the fetch. A change that tells of the set
  (`news`: Created or Updated) becomes a packet when the loop handles it, with the
  status the runtime set has by then (`AsRead`): one that was pushed during the
  fetch and is handled after it is `early`, it announces the end and has no bricks
  to rely on. The registry is one flag,
  `listed`: how runtimes come and go is `SetRuntime`'s matter.
* `Throttler`. `pc` is the caller's position: entering `Wait`, in one of its
  three sleeps, request sent, in the retry's sleep. Every `Unlock`/sleep/`Lock`
  ends one action and begins another. `granted` is a history: all requests ever
  let through, where `requestLog` is what the code remembers.
* `BrickPrices`. A price is its locale, its element and its amount; amount 0 is an
  answer "not found", and no price and an outdated one are both `None`. `books`
  is a runtime set: where each brick is, its price, `missingParts`, the total and
  the progress. `shared` is how far the writer's inventory has taken each brick
  (merged, then broadcast), `ear` where a runtime set gets its inventory and
  where a listener is in `listen`. A job of the price phase goes through the
  cache, the design's request, each brick's own request and the other elements of
  its part and colour; every Redis access and every request is an action.
  `mainId` is the ID object that copies of a brick share, which `Locale.Fetch`
  writes through a copy (`pickabrick.go:89`); a not-found is stored under the element
  this object has at the time of the write (`KeyOf`), which another runtime set may
  have changed in between. A batch of the price phase is taken in one
  action, and which of its priced bricks are counted before `MissingParts` reaches
  zero (`Countable`) depends on an order nobody fixes: every choice is a step. `Cents`
  is how many cents a set of bricks costs, as the number of those cents.
* `SetCatalog`. `redis` maps the four kinds of key to a value. A search is its
  position in `ProcessSetItem` and, in a locked write, the commands left and where
  it goes then: acquire, command by command, release are actions, so that the
  commands of two pipelines interleave. A set's id is the search that made it up.
* `DesignIndex`. `designs` and `bricks` are the two kinds of entry. A request is its
  position in `fetchDesignWithDefault`, `searchBrickByDesignID` or
  `ProcessBrickItem`, the design it works on, the main design and alternates
  still to fetch, and the index so far. One cache access or one upstream answer is
  an action (`FetchBricks` caches all bricks of an answer in one). What upstream
  sites know is constant.
* `SearchRegistry`. A runtime is named after the request that started it.
  `runtimes` and `byKey` are the two maps, `loop` where `run` is (started and not
  yet running, in its select, stopping, ended), `stops` how many calls of `stop()`
  it has still to make, `process` whether `ProcessSearchAsync` has sent its last
  change, `stage` where a request is, `given` the id a request was answered with, `main` the end of `main`:
  serving, closing the server, closed, the runtime sets' side shut down (`sets`),
  waiting for the searches, exited, or aborted by a timeout of the server's shutdown
  or a second signal.
  Each critical section of the handler's mutex is one action.

## 3. What is checked

| Run | Bounds | Shows |
|---|---|---|
| `pool_batching` | 2 workers, 6 jobs, batches of 3 | in batching mode with a handler that may fail: no result twice (`DeliveredAtMostOnce`) or lost (`CompleteOnSuccess`), no send on the closed results channel, nothing runs after the verdict, `Process` returns; the pool implements `BatchDelivery` (`ImplementsPromise`) |
| `pool_streaming` | 2 workers, 5 jobs | in streaming mode under a cancel at any moment: no result twice, every goroutine ends (`NoLeak`) |
| `inventory_sharing` | 2 listeners, 2 batches, channels of 1, one `done()` of an earlier fetch or of `Shutdown`, cleanup at any time | `HolderSound`: a single closer, and no reference given back twice until somebody else completes the inventory; `CompleteOnReturn` and `NoSendOnClosed`: whoever returns has everything and no send panics, unless somebody else has completed it; `NoBatchLost`: in any case what was merged reaches who is registered; `ReleasedBySignal`: a closed `doneChan` frees the listeners, although the writer may be stuck; `ReleasedByWriter`: a writer that goes through with its fetch frees them, unless the inventory was forgotten or somebody else completed it |
| `set_registry` | 3 requests, 2 locales, one upstream failure, entries that any request may find gone, no activity timeout, completed prices stay fresh | the registry (`RegistrySound`: the two maps agree and name running sets), and that an inventory or a listener has its writer (`InventoryOwned`, `ListenersHaveWriter`), or one that failed or was answered 404 |
| `set_liveness` | 2 requests, 2 locales, one upstream failure, entries that may be gone, activity timeouts, outdated prices | every runtime set ends, and every fetch but that of a listener whose writer failed or was answered 404 |
| `throttler_window` | 2 callers with 2 attempts, window of 3 for 2 requests, delay 2 | window, spacing of a caller's requests, adaptation |
| `stream_delivery` | 1 client, 1 brick, all three kinds, change channel of 1, send buffer of 2, closed after 2 losses in a row | from connection to goodbye: no brick falls between the first packet and the progress queued behind it (`NothingMissed`), the packet of a completed set is whole although status and bricks are read apart, and no early announcement of the end comes instead of the packet that brings it (`FinalIsWhole`), and the fetch's stop closes nobody too early (`WholeAtGoodbye`) |
| `stream_liveness` | the same with a send buffer of 1, closed at the first loss, incomplete fetches and searches | both pumps of a client end together (`PumpsEndTogether`), the fetching goroutine ends unless the loop ended under it with a full channel (`FetchFreed`) |
| `prices` | a writer with a listener of another locale, or two writers of one locale; 2 bricks each, 3 elements of which 2 are siblings, one failure | `EntriesBelong`: an entry in Redis is an answer for its locale and for its element or a sibling, not-founds under a changed ID object included; `CountedOnce`: progress counts each brick once, totals and missing parts follow the bricks but for one; `SoldIsFinal`: what is sold under any element is found when nothing fails; `CachedPriceNeverRises`: no write raises what Redis has of an element under its own id |
| `catalog` | 2 searches of one set that is new, cached or about to expire; one failure, one early end of a lease, one process that stops | `CatalogSound`: what a client was answered is stored with its details for good, and a mapping without its core is one a cut transaction left; `SlugOpensSet`; `SearchesEnd` |
| `designs` | 2 requests, 3 designs of which Rebrickable knows 2, 2 elements, one failure, one entry that expires or gets outdated | `StatusIsTrue`: a cached status is what the sites would say; `AnswerIsWhole`: an index has the design, its alternates and what is sold of each |
| `searches` | 3 requests of one query, shutdown at any moment | `RegistrySound`: a running search is found by id and query, and what is found has not ended; `RuntimesEnd`: every search ends and is forgotten, also while the runtime sets' side holds the program up, and the program ends once that side is shut down |

Why the bounds are enough. In the pool 6 jobs fill a batch, leave a full second
one and let the results channel (4) block two workers; 2 workers are enough for
one to hold a result while the other ends. In the inventory, channels of one
batch block the writer as soon as a listener is slow, and two batches let one be
merged before and one after a snapshot; two listeners are needed for a broadcast
that is half done. An earlier fetch or `Shutdown` is a second caller of `done()` beside the
writer, at any time, so that two race for the closing. In the registry two requests of one
locale race for a key and the third is the one of another locale that shares an inventory. The throttler's
window holds two requests and its two callers make up to four, so that two
callers can wait for one slot.

In `ClientStream` clients share nothing but the loop, which serves them one after
the other, so one client in every phase of its life meets everything the loop
can be doing; a change channel of one blocks the producer at its second packet,
a send buffer of one or two fills, and one brick is before, in or behind every
step of the fetch. The channels for clients are assumed larger than the number of
clients (100 in the code).

In `BrickPrices` two runtime sets meet in three ways (listener and writer, two
writers with a shared element, a cached inventory beside a fetched one), which
are all there are; two bricks of one design share a job and its request, and two
siblings are one to fail and one to find. The prices are 0 to 2, so that a cached
one can be lower, equal or higher than an offer. Redis starts with nothing, a lower
price of the first sibling, a not-found of it, or a higher price of the second, with or
without one of the third element; the second sibling may be sold in both locales, in
one, or in none. Where an old price of the second one is
in Redis, one job takes it for its brick while another stores the offer, and `aliasResolvedLocale` (`fetch_operations.go:621`),
which does not look, puts the old price over a lower one: hence `CachedPriceNeverRises`
is about the price an element has of itself. In `SetCatalog` two searches
race for every key; the one failure, lease or crash of a behaviour may come at
every step. In `DesignIndex` two requests may be of the same design, of two molds,
or one the element and one the search of it; the third design is the one that
Rebrickable names only as a mold. In `SearchRegistry` three requests are one
whose search ends, one that replaces it and one that joins the successor.

Every bound is a constant of a `.cfg` or of an `MC` module. Those in a guard are
`MaxClock` in `Throttler!Tick`, `MayFail`, `MayMiss`, `MayExpire` and `MayBeStale` in
`SetRuntime`, of which `MayMiss` is every request and the others leave out failures, timeouts and outdated prices to keep three
requests within reach (the run with two requests has all of them), `MaxInterruptions` in `Inventory`
(one of `Others` and `Shutdown` calls `done()`; the theorems hold for any number), `MaxFaults` in
`BrickPrices`, `SetCatalog` and `DesignIndex`, `MaxLapses` and `MaxCrashes` in
the latter two.

### Fairness

* `WorkerPool`: weak fairness of `Process`, of every worker and of the
  collector. The Go scheduler starves no runnable goroutine, and the pool's
  liveness assumes that the caller's functions return. `Cancel` has none.
* `Inventory`: weak fairness of the writer, of each caller of `done()` and of
  each listener. No fairness for access, a request's early end, cleanup, shutdown,
  failure, or the end of an earlier fetch. Locks need
  no more, since each is wanted by others only finitely often.
* `SetRuntime`: weak fairness of a request that came, of fetch goroutines, and of
  the loop's return to its select and its end; strong fairness of the activity
  timer: the loop may be away from its select again and again, but a Go select
  picks among the ready cases at random, and neither the ticker nor an
  unregistration resets the timer. Requests need not come.
* `ClientStream`: weak fairness of the fetching goroutine, of the loop once it left
  its select, and of each pump; strong fairness of the activity timer, for the
  reason above. That the loop serves its channels is not assumed beyond that. A
  read pump whose writer has ended fails within a second, since the writer leaves
  a read deadline behind (`client.go:148`). Nobody need connect.
* `SetCatalog`: weak fairness of every search: upstream requests have timeouts, and
  a lock is given up after a bounded number of tries, so that each step returns
  with an answer or an error. No lease need end.
* `SearchRegistry`: weak fairness of a loop's start, of its activity timer and of
  `stop`, and of what `main` does after a signal, but for the shutdown of the runtime
  sets' side (`CloseSets`): `setruntime.IH().Shutdown()` may block for good on
  `listenerMutex` (`inventory.go:250`). A second signal need not come. That the results are ever
  processed is not assumed: a search whose upstream hangs ends by its timer. While
  the program is up only.
* `Throttler` (its clock is bounded), `BrickPrices` and `DesignIndex` have no liveness
  property.

Deadlock detection is off where the system may stop: `Inventory` (a writer blocked in its
broadcast and a `done()` of somebody else may wait for each other, and listeners of a
writer that failed, or of a forgotten inventory, stay where they are), `ClientStream` (an ended program, and a producer whose loop
has ended under it), and `BrickPrices`, `SetCatalog`, `DesignIndex` and
`SearchRegistry`, in which everything ends.

## 4. What is proved

For all values of the constants that satisfy the named assumptions
(`WorkerPoolAssumption`: a finite non-empty set of workers and natural numbers;
`InventoryAssumption`: finitely many listeners, channels with room for a batch, and neither the
writer nor `Shutdown` is an earlier fetch;
`SetRuntimeAssumption`: finitely many requests, each of a locale, and "none" is none of them;
`ThrottlerAssumption`: finitely many callers, at least one request per window;
`DesignAssumption`: what the sites know is of designs and elements, no design is a
mold of itself, and "none" is no value, nor a fetched design (`NoneAssumption`);
`ClientStreamAssumption`: finitely many clients and bricks, channels of clients with room
for all of them, every other channel and buffer with room for one message, and "all" is
no client; `SearchAssumption`: "none" is neither a request nor a query; `CatalogAssumption`: the
bounds are natural numbers, a new id is none the catalogue has, and "none" is no value;
`PricesAssumption`: finitely many bricks, each of a positive quantity; a listener has its writer's
inventory and a writer listens to nobody; a brick without an element is not sold; an
element has one part and one colour, so that those of its part and colour have
the same list; and "none" is no element, locale or price).

`WorkerPoolProofs`. The safety properties are not inductive: that a result is
delivered once needs to know where every result is. `IInv` is

* `TypeOK`;
* `Control`: what the position of one goroutine says of the others (the results
  channel is closed after all workers ended, the verdict is there after the
  collector ended, ...), from which `NoSendOnClosed` and `QuietAfterVerdict`
  follow;
* `JobsInOrder` and `OnePlace`: the jobs taken are the first ones, and a result is
  held by one worker, or once in the results channel, or once in the batch, or
  delivered, and in one of these places only: `DeliveredAtMostOnce`;
* `Verdicts`: a success verdict is given with the results channel closed and
  empty and the batch empty;
* `NothingLost`: while the context lives, every taken job is in one of the places;
* `HandlerCancels`: when nobody else cancels, a cancelled context comes with an
  error verdict. `CompleteOnSuccess` follows (theorem `CompleteWhenNil`, for
  pools nobody cancels from outside, as all of this repository are).

Each conjunct has a lemma for the initial state and one for a step, with a step
of the proof per action; `Inductive` combines them.

That the pool implements `BatchDelivery` (`KeepsPromise`) maps the jobs delivered to
`given` and the collector's end to `closed`. `PromiseStep` shows that every action is
`Deliver`, `Close`, `Succeed`, `Fail` or a stutter. `Deliver` needs that a handled batch
is of results not given before (`OnePlace`) and no larger than the batch size
(`BatchBounded`, which the collector keeps by flushing a full batch in the step that
fills it, and `RangeBounded`, since a batch is a sequence and its results a set);
`Succeed` needs `HandlerCancels`, and `Fail` that an error has the handler as its cause
(`ErrorsHaveCause`). Like `CompleteWhenNil` it holds for pools nobody cancels from outside.

`InventoryProofs`. The properties are about moments: at its return a listener has
everything, in its select nothing is lost to it. `InventoryInv` follows each batch:
`Merged` (what the writer has merged, by its position), `Joined` (whoever has registered
is in the list of listeners) and `Delivered`, which says of every merged batch and every
registered listener that the listener has handled it, has it in its channel, or is
about to be sent it, already while the snapshot is being handled. A broadcast takes
its list after the merge, so who registered before the merge is in it, and who did not
finds the batch in its snapshot. `Signals` orders the two completion signals and what
listeners make of them: `doneClosed` comes after the last broadcast, and an empty
channel then means that all is handled (`ReturnsComplete`). Nothing in this argument needs
the inventory to stay in the map, so `CleanupInventory` may come when it likes. What does break it
is somebody else's `done()` before the last batch: `ReturnsComplete` and `SendsOnOpen` hold until an
earlier fetch or `Shutdown` completes the inventory (`Interrupted`), and `BatchesReachListeners`
always. `HolderIsSound` is in the same invariant; the reference count takes a lemma on the
cardinality of those who hold a reference (`Holding`, the ones that left without giving it back
included) per step.

`SetRuntimeProofs`. That the registry is sound (`RegistryStaysSound`) and inventories are
owned, or were left behind by a writer that was answered 404 (`InventoryHasOwner`), follows from
`BaseInv`, with no condition. That a writer gave up stays true (`GaveUpStays`), so its
listeners are excepted for good. `ListenersHaveWriter`
is circular: the listeners' writer completes whatever inventory the holder has, the
holder keeps it while the writer's runtime set is registered, and no other request
becomes writer while it does (`OneInventory`, `AllServed`). The attempt to close
the circle found where it breaks: between `Access` and `RunSet` nothing registered
keeps the inventory, and the end of an older runtime set forgets it. With four
requests (one to leave a runtime set that ends, a writer, a listener with access, and a second
writer) a listener is then left waiting, which three requests in a run cannot show. The
model got the history `forgotten`, `ListenersAreServed` is proved for as long as it is
false, `FetchesEnd` excepts it, and section 5 has the statement of the code it goes
against.

`DesignIndexProofs`. `DesignInv` says of each request what its position means (`RequestOK`),
in terms of the sites and never of the cache: what it works on is true of the design it will be
stored under (`WorkTrue`), or has yet to be asked for where a fetch is still due; and the
index, the design in hand and those still to do are together the design asked for and its
alternates (`IndexOnTheWay`). Since it does not mention what others write, no step of
one request disturbs another (`OneRequest`), and a late store is as true as an early
one (`StoreKeeps`). `MinimalIsTrue`, `BricksAreTrue` and `DefaultsArePlausible` are the lemmas
on `FetchMinimal`, `FetchBricks` and the defaults of an alternate; `FetchedOK` and
`GotOK` those on what a request does with its design; then one lemma per action.

`ClientStreamProofs`. The types are proved for both kinds of runtime (`Typed`, which
holds that nobody pushes a close message as a change, and that a writer has one message in
hand), the delivery of bricks for runtime sets, since a search keeps no results.
`SetInv` follows a brick from the fetch to the client. `Served` says of every listed client whose
connection and writer work and that has lost no packet: each brick found is seen,
in the writer's hand, in the buffer, in the channel of changes, about to be pushed, or being
read for this client; and so is the word of the end once the fetch is over. `Words`: what
the change or the packet of a completed set says is true when the bricks with it were read, though the
status, the final and the missing bricks are read at three moments; this rests on
`Over` (the fetch has no brick left to move) and on `Bricks`, by which nothing moves any more once
the set is completed, and a brick on its way from the missing to the final ones is one nobody is
owed. `ReadFacts` says what the late reading of an update does: it may make an early announcement of
it, which counts neither as the word of the end nor as a completed packet, and changes no other
change. `Farewell`: the fetch's
own stop is heard only by a loop with empty queues, and then all is in the buffers.
`Closing`: to a client served all along the close message comes last, so when it is written all
before it has been seen. The steps divide in three. Steps of the loop hand on what a client
holds (`Keeps`, `LoopBroadcast`, one lemma per handler). Steps of the fetch owe the clients what they
find (`Delivers`, `FetchStep`). Steps of a client change that client alone (`ClientNext`,
`ClientStep`), among them the goodbye (`GoodbyeStep`). `NothingIsMissed`, `FinalStaysWhole` and
`GoodbyeIsWhole` are the three properties of the run.

`ThrottlerProofs`. `Typed`; `Remembered` (what the log has forgotten has left the
window, so counting the log counts the window: `WindowNeverOvershot`); `Spaced`
(what a caller that sleeps knows of its own last request, whoever moves
`lastRequest`: `RetriesKeepDistance`); `SlowIsAdapted`.

`SearchProofs`, the registry. `RegistrySound` is not inductive. `RegistryInv` adds `Fresh` (a
request that has not been answered has no runtime of its name yet), `StopsLeft` (a
loop that stops has a call of `stop` left, so it does not end registered) and `Keyed`
(whatever is registered is under a query, where its removal finds it).
`RemovedKeeps` is the lemma on `removeRuntimeLocked`, which every end goes through,
the repeated and the late ones included; `RegistryInvStep` has one step per action.
`SearchesFound` is `RegistrySound`, and `OneSearch` follows from it: of one query and
locale at most one search runs.

`SearchProofs`, the catalogue. The locks are no part of the argument: leases end, and the invariant
holds after `LeaseEnds` because it says nothing of them. What carries it is the order
in which a search writes. `CatalogInv` adds to the properties, for every search, what
its position says of Redis (`SearchOK`): before it has stored a core, nobody has
stored one under its id (`IsNew`); when it goes on to the details, the core of its set
is there (`HasCore`); past them, so are the details (`HasDetails`), also for a search that
answers out of the cache, since a locale is stored after the details (`ValuesOK`); and
the commands left of a locked write are those of one of the five writes (`Writes`). A
bare core is therefore only ever written where there is none. `OthersKeep` is the
interference argument: a step changes a core only as `CoreSteps` says, which no
other search can notice. `RedisKept` treats the steps that leave Redis alone,
`RedisChanged` the others, and `CatalogInvStep` combines one lemma per action.
`CatalogStaysSound` and `SlugOpens` are the two safety properties of the run.

`BrickPricesProofs`. Three invariants, each on top of the one before.

* `PricesInv` is about the jobs and Redis. `CacheBelongs` is `EntriesBelong`; it needs that
  whatever a job carries is of its set's locale and of its brick's element or a sibling
  (`GroupOK`, `ElementOK`, `StoreOK`), that the ID object of a brick has an element of the
  brick's part and colour in it, whoever wrote it last (`IdsBelong`), for not-founds are
  stored by it, and that siblings share their list (`Kin`, lemma `KinFacts`), for an alias may put
  under an element what another alias put under its sibling. `JobKeeps`
  is about the time between a job's read and its write: what it will store under an
  element is no more than the entry this element has of itself, or it will ask for it and
  has either seen no such entry above the offer or holds a price that is as low. Others may
  write in between; `CacheFalls` says what any step does to Redis, namely that such an
  entry only ever changes to the offer and does not rise, and `JobKeptOn` that this
  disturbs no job. `RedisEntriesBelong` and `OwnPriceNeverRises` follow. `JobTries` says which
  elements a job has tried in vain at each of its positions, while nothing has failed.
* `BooksInv` is about the bricks of a runtime set: which of them wait in a job (`Waiting`,
  `PhaseOK`), where they were before (`PlacesOK`), that the progress counts all
  others (`ProgressOK`), and that a brick which is missing after its job was tried under
  every element (`MissingTried`, from `JobTries`). `SoldBricksAreFinal` is its consequence.
  A listener's bricks come three times over (snapshot, batches, the bricks it did not hear
  of); that none is lost is `ListenerStepBook`.
* `TiedInv` is about the sums. The books keep `total` and `missingParts`, and which bricks they
  stand for is forgotten. `Tied` names a set of counted bricks, and a lemma per
  handler gives the next set (`TakeTied`, `CheckTied`, `DeliverTied`). The delicate part
  is `AddFinalBrickData`, which counts nothing while `MissingParts` is 0: a batch of the
  price phase may then leave out one priced brick, and the lower bound on
  `missingParts` is what shows that it is one at most. Sums over bricks would need
  induction over sets; `Cents` as a cardinality needs only the library's facts about
  finite sets (`CentsSplit`, `CentsOne`). `BricksCountedOnce` combines it with `BooksInv`.

The proofs changed three things of `BrickPrices`. A batch of the price phase was a fold over its
bricks in one fixed order and is now one step for every choice of the counted ones, which is
what the code may do. The assumption on parts and colours was implicit in the instance.
And `CachedPriceNeverRises` was stated for all entries: the attempt to prove it led to
the alias that puts an old price back, which a wider instance of Redis then showed in a run.

Only model-checked: liveness, which is outside the prover's reach: `ProcessReturns`,
`NoLeak`, `ReleasedBySignal`, `ReleasedByWriter`, `RuntimeSetsEnd`, `FetchesEnd`, `PumpsEndTogether`,
`FetchFreed`, `SearchesEnd` and `RuntimesEnd`.

## 5. Where code and its statements disagree

Each is a property stated in its module and violated by what the code does; adding its
name to the `INVARIANTS` of the module's configuration makes TLC print the behaviour
(`ListenersReleased`, `CachedInventoryStays` and `NotFoundIsCached` are `PROPERTIES`). They are not part of the runs.

| Property | Code | What happens |
|---|---|---|
| `Inventory.ListenersReleased` | `setruntime/fetch_operations.go:230-250` | a fetch of the parts list that fails, is not found or is empty does not complete the inventory, nor does a writer whose inventory was forgotten meanwhile; the listeners wait for good |
| `Inventory.DoneByWriter` | `setruntime/fetch_operations.go:344` | `StopInventory` completes whatever inventory the map has for the set id: after a cleanup a first writer completes its successor's, whose listeners return a partial list |
| `Inventory.RefCountTellsUsers` | `handlers/set_handler.go:106-117`, `163-185`, `setruntime/cache.go:117-120`, `fetch_operations.go:230-250` | requests answered after `Access`, and writers whose fetch comes to nothing, keep their reference: the count is not that of the accessors at work |
| `Inventory.GracefulShutdown` | `setruntime/inventory.go:286` | the `done()` of `Shutdown`, or of an earlier fetch, closes listeners' channels while the writer may still send on them |
| `SetRuntime.OneRunningPerKey` | `setruntime/handler.go:51` | a runtime set started from a locale cached as Failed counts as failed until its fetch begins; a second request replaces it, and both run |
| `SetRuntime.CleanedUpAfterUse` | `setruntime/handler.go:146` | the last runtime set of a set id ends and takes the inventory of a writer along that has been given access and has not run its own yet; with a fourth request, a listener that had access then waits for good |
| `SetRuntime.CleanedUpLater` | `handlers/set_handler.go:163-168` | the request that is the writer is answered 404 and no runtime set of its set is left: nothing cleans its inventory up, and while the cached one is incomplete later requests of the set become its listeners or are refused, until a runtime set started so ends |
| `SetRuntime.CachedInventoryStays` | `setruntime/cache.go:306` | a listener's old copy of the core overwrites the completed one |
| `ClientStream.CompletedHasBricks` | `setruntime/packets.go:111-114` | an update pushed with the last batch and handled after the status was set announces a completed set with no bricks, ahead of "final data to make sure clients have everything" |
| `BrickPrices.PriceOfOwnLocale` | `setruntime/fetch_operations.go:811` | a listener takes over the prices the writer read from the cache in its own locale |
| `BrickPrices.MissingWithinBounds` | `set/external.go:27` | a listener that handles a brick in the snapshot and in a batch counts it as missing twice |
| `BrickPrices.TotalOfAll` | `set/external.go:43` | the total leaves out a brick priced while `MissingParts` is 0 |
| `BrickPrices.MainIdKept` | `brick/pickabrick.go:80` | the copy made "not to modify the original brick" shares its ID object, whose element is overwritten |
| `BrickPrices.NotFoundIsOwn` | `brick/pickabrick.go:89-92` | the "independent entry" for a not-found is stored by the shared ID object, under a sibling's element if another runtime set has put that there |
| `BrickPrices.SiblingFallbackApplies` | `setruntime/fetch_operations.go:529` | the fallback is said to apply to cached not-found bricks too, but a fresh not-found is a valid price |
| `SetCatalog.OneIdPerSlug` | `set/slug.go:86` | the lock holds for the write, not for the choice of the id: two searches answer two ids |
| `SetCatalog.PairIsAtomic` | `redis/crud.go:120` | a pipeline is not atomic: another search sees the mapping without the core |
| `DesignIndex.AnswerHasMolds` | `handlers/brick_handler.go:201` | an alternate's entry may be stored with fewer molds than Rebrickable knows, and answered so |
| `DesignIndex.NotFoundIsCached` | `searchruntime/fetch_operations.go:272` | the not-found stored by `Locale.Fetch` is overwritten at once by the brick without a price |
| `SearchRegistry.GivenCanBeOpened` | `searchruntime/handler.go:65` | the id of a search may be gone when its client opens it |
| `SearchRegistry.AllFinished` | `searchruntime/runtime.go:115` | `wg.Add` runs in the goroutine it counts: `Shutdown` may return before a search that was just started is counted |

Seen while modelling, without a statement of the code that they clearly contradict:

* Pool: a context cancelled from outside may drop results and still return nil.
* Inventory: a listener may join an inventory that is done, and may handle a batch
  twice (snapshot and broadcast); `Shutdown` may hang on `listenerMutex`.
* Registry: two requests may start two fetches on one runtime set; a stop signal
  is lost when the loop is busy; the late end of a replaced runtime set takes its
  successor out of the registry.
* Clients: one that registers after the loop has ended is neither served nor
  closed; one whose unregistration is handled before its registration stays in
  the holder until the runtime ends; `Close` may lose both its message and its
  knock, and the client then stays until its peer leaves; once an ended loop's
  channel of 100 is full, the read pumps of further clients block for good; whoever
  connects to a running search never gets the results sent before.
* Throttler: half a delay may be left at adaptation level 0 for good
  (`adaptive.go:103` stores a delay only with a change of level or flag, while
  `throttler.go:104` calls level 0 normal); a later 429 may shorten a block, and a
  caller asleep for another reason does not notice one.
* Prices: an alias puts a sibling's price over the entry of the brick's element without a
  look at it (`fetch_operations.go:621`), and so an older, higher price over a newer one. A
  not-found stored under a sibling's element hides that element while the entry lives, although it
  may be sold in that locale: the cache pass takes it for an answer, and the prefetch of the design
  does not overwrite it.
* Program: `main` shuts the inventories down before the searches (`main.go:89-91`), and may hang there.
* Catalogue: the details of a set about to expire are fetched again under a new
  id, and its old core stays in Redis without a mapping until it expires.
* `ExportSet` (`handlers/set_handler.go:296`) goes on after it has answered that the set is
  not fully available.
* Health: `SetRedis` closes the old client while the monitor keeps the copy it got
  at start (`app/app.go:42`).

## 6. Plan

Done: all modules of section 2, the refinement of `BatchDelivery`, and the proofs of every
safety property of the runs. What is left, most useful first:

| Step | What | Statement |
|---|---|---|
| 1 | `Inventory` as an implementation of `SetRuntime`'s abstract inventory | a listener returns after the writer ended, with everything written |
| 2 | the copy of the locale in `fetchSetDetails` (`fetch_operations.go:200`) and a second `NewBricksHandler` on a running set | two fetches on one `ClientStream` |

## 7. What is not modelled, and why

* Upstream clients, HTTP routing and rendering, packet formats and translations:
  they keep no state that others share. They appear as answers that come, fail
  or are rate limited.
* Redis errors and expiry in the fetches of `SetRuntime`: only a request's reads of the cache may
  find an entry gone or fail, which it takes alike. `BrickPrices`, `SetCatalog` and `DesignIndex` have failing requests; expiry
  is in `DesignIndex`, and in `SetCatalog` as the low TTL that makes a search replace a
  set, since keys live for days and a search for seconds.
* Names, images, colours, availability, currency and formatting.
* `workerpool/config.go`: floating-point arithmetic with no state; the pool is proved for every size it
  may return. `wsruntime/progress.go`, `throughput.go` and
  `throttle_monitor.go`: displayed numbers that nothing reads back.
* `database/health.go`: whether a closed client answers is a matter of the Redis library.
* `supervisor/async_error_logger.go`: one channel that drops when it is full; nothing calls `Close`.
* Throttle packets, ETA, pings (only that one may fail) and `GetStatus`.
* The order in which Rebrickable lists molds and elements: they are sets.
* Memory and time: durations are left to the scheduler except in `Throttler`, whose
  subject they are.
* Data races on single words (a status read without its mutex) are the reads of
  an earlier or later value that the interleavings already give. That a string read while it is
  written (the element of a shared ID object) may be torn is left out.
