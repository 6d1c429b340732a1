-------------------------------- MODULE SetRuntime -------------------------------
(***************************************************************************)
(* The runtime sets of one set id (internal/setruntime/handler.go, the     *)
(* event loop of runtime.go, the fetches of fetch_operations.go) and the   *)
(* requests that find, start and share them (handlers/set_handler.go,      *)
(* cache.go).  A runtime set (RS) lives under a key: locale and operation. *)
(* Each request goroutine looks for a running RS, then at the inventory    *)
(* being fetched, then at the cache, and starts at most one RS and one     *)
(* fetch goroutine; an RS and an inventory are therefore named after the   *)
(* request that created them.                                              *)
(*                                                                         *)
(* The inventory is as coarse as its users can tell: whose it is, whether  *)
(* the holder's map has it and whether it is done (module Inventory has    *)
(* the rest).  The cache is the inventory status in the core's entry and   *)
(* the fetch status in each locale's entry (Pending when there is none);   *)
(* both survive a restart of the program.                                  *)
(* A request may find no entry where one was read before, an expired key   *)
(* or a Redis error.  Upstream errors are the only ones that make a fetch  *)
(* fail: there Redis errors are logged, and the pools of the two phases    *)
(* never return one (their batch handler returns nil and nobody cancels    *)
(* them).                                                                  *)
(***************************************************************************)
EXTENDS FiniteSets

CONSTANTS
  Requests,     \* the requests for the set's details
  Locales,
  None,         \* no request, runtime set or inventory
  Locale,       \* the locale each request asks for
  MayFail,      \* the requests whose upstream inventory fetch may fail
  MayMiss,      \* the requests whose reads of the cache may fail
  MayBeStale,   \* prices of a completed locale may be out of date
  MayExpire     \* the activity timer of an idle runtime set may fire

ASSUME SetRuntimeAssumption ==
  /\ IsFiniteSet(Requests) /\ None \notin Requests
  /\ Locale \in [Requests -> Locales]
  /\ MayFail \subseteq Requests /\ MayMiss \subseteq Requests
  /\ MayBeStale \in BOOLEAN /\ MayExpire \in BOOLEAN

Op     == {"full", "incomplete"}
Key    == Locales \X Op
Status == {"Pending", "Fetching", "Completed", "Failed"}
Maybe  == Requests \cup {None}

VARIABLES
  setsByKey,    \* Handler.setsByKey: the runtime set under each key
  sets,         \* Handler.sets: the runtime sets that can be found by id
  key, status, access, core,  \* of each RS: key, FetchStatus, ihAccess and
                \* the inventory status in its copy of the core
  loop,         \* the event loop of each RS
  inventory,    \* the inventory in the holder's map
  inventoryDone, \* the inventories done() was called for
  cachedInventory, \* inventory status of the core in Redis
  cachedLocale, \* fetch status of each locale's entry in Redis
  pc,           \* where each request is
  found,        \* the runtime sets it found
  granted,      \* the inventory it has access to
  coreRead, localeRead, \* the two statuses it read from Redis
  fetch,        \* where the request's fetch goroutine is
  target,       \* the runtime set that goroutine works for
  forgotten     \* history: the holder forgot an inventory whose writer had
                \* no runtime set yet

registryVars == <<setsByKey, sets>>
rsVars       == <<key, status, access, core>>
invVars      == <<inventory, inventoryDone, forgotten>>
cacheVars    == <<cachedInventory, cachedLocale>>
localVars    == <<found, granted, coreRead, localeRead>>
requestVars  == <<pc, found, granted, coreRead, localeRead>>
fetchVars    == <<fetch, target>>
vars == <<setsByKey, sets, key, status, access, core, loop, inventory,
          inventoryDone, cachedInventory, cachedLocale, pc, found, granted,
          coreRead, localeRead, fetch, target, forgotten>>

TypeOK ==
  /\ setsByKey \in [Key -> Maybe] /\ sets \subseteq Requests
  /\ key \in [Requests -> Key] /\ status \in [Requests -> Status]
  /\ access \in [Requests -> Maybe] /\ core \in [Requests -> Status]
  /\ loop \in [Requests -> {"none", "ready", "busy", "stopping", "ended"}]
  /\ inventory \in Maybe /\ inventoryDone \subseteq Requests
  /\ cachedInventory \in Status /\ cachedLocale \in [Locales -> Status]
  /\ pc \in [Requests -> {"start", "inspect", "readCore", "redis", "incomplete",
                          "runIncomplete", "full", "runFull", "answered"}]
  /\ found \in [Requests -> SUBSET Requests]
  /\ granted \in [Requests -> Maybe] /\ coreRead \in [Requests -> Status]
  /\ localeRead \in [Requests -> Status]
  /\ fetch \in [Requests -> {"none", "begin", "details", "inventory", "upstream",
                             "listen", "bricks", "complete", "store", "sleep",
                             "end"}]
  /\ target \in [Requests -> Maybe]
  /\ forgotten \in BOOLEAN

Init ==
  /\ setsByKey = [k \in Key |-> None] /\ sets = {}
  /\ key = [r \in Requests |-> <<Locale[r], "full">>]
  /\ status = [r \in Requests |-> "Pending"]
  /\ access = [r \in Requests |-> None]
  /\ core = [r \in Requests |-> "Pending"]
  /\ loop = [r \in Requests |-> "none"]
  /\ inventory = None /\ inventoryDone = {}
  /\ cachedInventory \in {"Pending", "Completed"}
  /\ cachedLocale \in [Locales -> {"Pending", "Failed", cachedInventory}]
  /\ pc = [r \in Requests |-> "start"]
  /\ found = [r \in Requests |-> {}]
  /\ granted = [r \in Requests |-> None]
  /\ coreRead = [r \in Requests |-> "Pending"]
  /\ localeRead = [r \in Requests |-> "Pending"]
  /\ fetch = [r \in Requests |-> "none"]
  /\ target = [r \in Requests |-> None]
  /\ forgotten = FALSE

-----------------------------------------------------------------------------
(* A request, up to GetCacheSet's answer *)

Goto(r, label) == pc' = [pc EXCEPT ![r] = label]

\* The request is over, and what its goroutine held is gone.
Answer(r) ==
  /\ Goto(r, "answered")
  /\ found' = [found EXCEPT ![r] = {}]
  /\ granted' = [granted EXCEPT ![r] = None]
  /\ coreRead' = [coreRead EXCEPT ![r] = "Pending"]
  /\ localeRead' = [localeRead EXCEPT ![r] = "Pending"]

\* FindRuntimeSetBySetId, under the read lock.
FindRuntimeSets(r) ==
  /\ pc[r] = "start"
  /\ found' = [found EXCEPT ![r] = sets]
  /\ Goto(r, IF sets = {} THEN "redis" ELSE "inspect")
  /\ UNCHANGED <<registryVars, rsVars, loop, invVars, cacheVars, granted,
                 coreRead, localeRead, fetchVars>>

SameLocale(r) == {i \in found[r] : key[i][1] = Locale[r]}

\* A runtime set of the locale is at work, or has completed: send the client
\* to it, or the data it has.
JoinRuntimeSet(r) ==
  /\ pc[r] = "inspect"
  /\ \E i \in SameLocale(r) : status[i] # "Failed"
  /\ Answer(r)
  /\ UNCHANGED <<registryVars, rsVars, loop, invVars, cacheVars, fetchVars>>

\* InventoryHolder.Access: the first caller creates the inventory and writes it.
GetAccess(r) ==
  /\ granted' = [granted EXCEPT ![r] = IF inventory = None THEN r ELSE inventory]
  /\ inventory' = IF inventory = None THEN r ELSE inventory

\* None of the locale will do; a full fetch of another locale (or a failed one
\* of this locale) may have an inventory to share.
ShareInventory(r) ==
  /\ pc[r] = "inspect"
  /\ \A i \in SameLocale(r) : status[i] = "Failed"
  /\ IF \E i \in found[r] : key[i][2] = "full"
       THEN /\ GetAccess(r)
            /\ Goto(r, IF inventory = None THEN "full" ELSE "readCore")
       ELSE Goto(r, "redis") /\ UNCHANGED <<granted, inventory>>
  /\ found' = [found EXCEPT ![r] = {}]
  /\ UNCHANGED <<registryVars, rsVars, loop, inventoryDone, forgotten, cacheVars,
                 coreRead, localeRead, fetchVars>>

\* A reader takes the core as the cache has it now, or finds none and lets go of
\* its access.
ReadCore(r) ==
  /\ pc[r] = "readCore"
  /\ \/ /\ coreRead' = [coreRead EXCEPT ![r] = cachedInventory]
        /\ Goto(r, "incomplete") /\ UNCHANGED granted
     \/ /\ r \in MayMiss /\ Goto(r, "full")
        /\ granted' = [granted EXCEPT ![r] = None] /\ UNCHANGED coreRead
  /\ UNCHANGED <<registryVars, rsVars, loop, invVars, cacheVars, found, localeRead,
                 fetchVars>>

\* RedisGetLocale reads both entries at once.
ReadCache(r) ==
  /\ coreRead' = [coreRead EXCEPT ![r] = cachedInventory]
  /\ localeRead' = [localeRead EXCEPT ![r] = cachedLocale[Locale[r]]]

\* checkSetInRedis: all is there, or everything has to be fetched, or the
\* locale or some prices are missing.
CheckSetInRedis(r) ==
  /\ pc[r] = "redis"
  /\ \/ /\ cachedInventory = "Completed" /\ cachedLocale[Locale[r]] = "Completed"
        /\ Answer(r)
     \/ /\ cachedInventory # "Completed" \/ r \in MayMiss
        /\ Goto(r, "full") /\ UNCHANGED localVars
     \/ /\ cachedInventory = "Completed"
        /\ cachedLocale[Locale[r]] = "Completed" => MayBeStale
        /\ ReadCache(r) /\ Goto(r, "incomplete") /\ UNCHANGED <<found, granted>>
  /\ UNCHANGED <<registryVars, rsVars, loop, invVars, cacheVars, fetchVars>>

-----------------------------------------------------------------------------
(* A request that has to start a fetch *)

Healthy(rs) == rs # None /\ status[rs] # "Failed"

\* RunSet, in one critical section: reuse a runtime set that has not failed,
\* replace one that has (its stop signal is lost unless its loop is waiting).
\* A new one starts with the statuses of the data it is given.  The caller
\* then starts its fetch goroutine, whichever runtime set it got.
RunSet(r, k) ==
  LET old == setsByKey[k] IN
  \/ /\ Healthy(old)
     /\ target' = [target EXCEPT ![r] = old]
     /\ UNCHANGED <<registryVars, rsVars, loop>>
  \/ /\ ~Healthy(old)
     /\ key' = [key EXCEPT ![r] = k]
     /\ status' = [status EXCEPT ![r] = localeRead[r]]
     /\ core' = [core EXCEPT ![r] = coreRead[r]]
     /\ access' = [access EXCEPT ![r] = granted[r]]
     /\ loop' = [i \in Requests |-> IF i = r THEN "ready"
                                    ELSE IF i = old /\ loop[i] = "ready"
                                           THEN "stopping" ELSE loop[i]]
     /\ setsByKey' = [setsByKey EXCEPT ![k] = r]
     /\ sets' = (sets \ {old}) \cup {r}
     /\ target' = [target EXCEPT ![r] = r]

StartFetch(r) == fetch' = [fetch EXCEPT ![r] = "begin"]

\* handleSetFetchIncomplete looks for the runtime set before it runs one.
FindByKey(r) ==
  /\ pc[r] = "incomplete"
  /\ IF Healthy(setsByKey[<<Locale[r], "incomplete">>])
       THEN Answer(r)
       ELSE Goto(r, "runIncomplete") /\ UNCHANGED localVars
  /\ UNCHANGED <<registryVars, rsVars, loop, invVars, cacheVars, fetchVars>>

RunIncomplete(r) ==
  /\ pc[r] = "runIncomplete"
  /\ RunSet(r, <<Locale[r], "incomplete">>)
  /\ StartFetch(r) /\ Answer(r)
  /\ UNCHANGED <<invVars, cacheVars>>

\* handleFetchSetComplete reads the entries again, and answers that there are none
\* even when it is the writer; it needs write access, and a reader gets an error.
PrepareFull(r) ==
  /\ pc[r] = "full"
  /\ \/ /\ granted[r] = r /\ UNCHANGED <<granted, inventory>>
        /\ ReadCache(r) /\ Goto(r, "runFull") /\ UNCHANGED found
     \/ /\ granted[r] = None /\ inventory = None /\ GetAccess(r)
        /\ ReadCache(r) /\ Goto(r, "runFull") /\ UNCHANGED found
     \/ granted[r] = None /\ inventory # None /\ Answer(r) /\ UNCHANGED inventory
     \/ r \in MayMiss /\ Answer(r) /\ UNCHANGED inventory
  /\ UNCHANGED <<registryVars, rsVars, loop, inventoryDone, forgotten, cacheVars,
                 fetchVars>>

RunFull(r) ==
  /\ pc[r] = "runFull"
  /\ RunSet(r, <<Locale[r], "full">>)
  /\ StartFetch(r) /\ Answer(r)
  /\ UNCHANGED <<invVars, cacheVars>>

Request(r) ==
  \/ FindRuntimeSets(r) \/ JoinRuntimeSet(r) \/ ShareInventory(r) \/ ReadCore(r)
  \/ CheckSetInRedis(r) \/ FindByKey(r) \/ RunIncomplete(r)
  \/ PrepareFull(r) \/ RunFull(r)

-----------------------------------------------------------------------------
(* FetchSetComplete and FetchSetIncomplete *)

FetchAt(r, from, to) ==
  fetch[r] = from /\ fetch' = [fetch EXCEPT ![r] = to] /\ UNCHANGED target

IsFull(r) == key[target[r]][2] = "full"
Tag(r)    == key[target[r]][1]

SetStatus(r, s) == status' = [status EXCEPT ![target[r]] = s]

\* Write the runtime set's copy of the core, with this inventory status.
SaveCore(r, s) ==
  core' = [core EXCEPT ![target[r]] = s] /\ cachedInventory' = s

BeginFetch(r) ==
  /\ FetchAt(r, "begin", "details")
  /\ SetStatus(r, "Fetching")
  /\ UNCHANGED <<registryVars, key, access, core, loop, invVars, cacheVars,
                 requestVars>>

\* fetchSetDetails, when it is needed and the shop answers: the locale is
\* written with its status Fetching, together with the core in the incomplete
\* flow unless only the price was missing.
FetchSetDetails(r) ==
  /\ FetchAt(r, "details", IF IsFull(r) THEN "inventory"
                           ELSE IF access[target[r]] # None THEN "listen" ELSE "bricks")
  /\ \/ UNCHANGED cacheVars
     \/ /\ cachedLocale' = [cachedLocale EXCEPT ![Tag(r)] = "Fetching"]
        /\ \/ UNCHANGED cachedInventory
           \/ ~IsFull(r) /\ cachedInventory' = core[target[r]]
  /\ UNCHANGED <<registryVars, rsVars, loop, invVars, requestVars>>

BeginInventory(r) ==
  /\ FetchAt(r, "inventory", "upstream")
  /\ SaveCore(r, "Fetching")
  /\ UNCHANGED <<registryVars, key, status, access, loop, invVars, cachedLocale,
                 requestVars>>

\* handleFatalError; the inventory is left as it is.
FetchInventoryFails(r) ==
  /\ r \in MayFail
  /\ FetchAt(r, "upstream", "sleep")
  /\ SetStatus(r, "Failed")
  /\ cachedLocale' = [cachedLocale EXCEPT ![Tag(r)] = "Failed"]
  /\ UNCHANGED <<registryVars, key, access, core, loop, invVars,
                 cachedInventory, requestVars>>

\* Upstream knows no inventory, or an empty one: no StopInventory either.
FetchInventoryEmpty(r) ==
  /\ r \in MayFail
  /\ FetchAt(r, "upstream", "complete")
  /\ SaveCore(r, "Completed")
  /\ UNCHANGED <<registryVars, key, status, access, loop, invVars, cachedLocale,
                 requestVars>>

\* A fault: no StopInventory.
CompleteWithoutStop(r) ==
  /\ FetchAt(r, "upstream", "bricks")
  /\ SaveCore(r, "Completed")
  /\ UNCHANGED <<registryVars, key, status, access, loop, invVars,
                 cachedLocale, requestVars>>

\* The pool has processed every part: complete whatever inventory the holder
\* has for the set id, then save the core.
FetchInventorySucceeds(r) ==
  /\ FetchAt(r, "upstream", "bricks")
  /\ inventoryDone' = inventoryDone \cup ({inventory} \ {None})
  /\ SaveCore(r, "Completed")
  /\ UNCHANGED <<registryVars, key, status, access, loop, inventory, forgotten,
                 cachedLocale, requestVars>>

ListenInventory(r) ==
  /\ FetchAt(r, "listen", "bricks")
  /\ access[target[r]] \in inventoryDone
  /\ UNCHANGED <<registryVars, rsVars, loop, invVars, cacheVars, requestVars>>

\* fetchBricks saves the core of its runtime set, unless nothing was missing.
FetchBricks(r) ==
  /\ FetchAt(r, "bricks", "complete")
  /\ cachedInventory' \in {cachedInventory, core[target[r]]}
  /\ UNCHANGED <<registryVars, rsVars, loop, invVars, cachedLocale, requestVars>>

CompleteFetch(r) ==
  /\ FetchAt(r, "complete", "store")
  /\ SetStatus(r, "Completed")
  /\ UNCHANGED <<registryVars, key, access, core, loop, invVars, cacheVars,
                 requestVars>>

StoreLocale(r) ==
  /\ FetchAt(r, "store", "sleep")
  /\ cachedLocale' = [cachedLocale EXCEPT ![Tag(r)] = status[target[r]]]
  /\ UNCHANGED <<registryVars, rsVars, loop, invVars, cachedInventory,
                 requestVars>>

\* Three seconds later, StopRuntimeSet(key): whatever runtime set is under the
\* key gets a signal, which is lost unless its loop is waiting at the select.
StopRuntimeSet(r) ==
  /\ FetchAt(r, "sleep", "end")
  /\ LET rs == setsByKey[key[target[r]]]
     IN  loop' = IF rs # None /\ loop[rs] = "ready"
                   THEN [loop EXCEPT ![rs] = "stopping"] ELSE loop
  /\ UNCHANGED <<registryVars, rsVars, invVars, cacheVars, requestVars>>

Fetch(r) ==
  \/ BeginFetch(r) \/ FetchSetDetails(r) \/ BeginInventory(r)
  \/ FetchInventoryFails(r) \/ FetchInventoryEmpty(r) \/ FetchInventorySucceeds(r)
  \/ ListenInventory(r) \/ FetchBricks(r) \/ CompleteFetch(r) \/ StoreLocale(r)
  \/ StopRuntimeSet(r)

-----------------------------------------------------------------------------
(* The event loop of a runtime set *)

\* A client, a data change or a tick keeps the loop away from its select.
HandleEvent(i) ==
  /\ loop[i] = "ready" /\ loop' = [loop EXCEPT ![i] = "busy"]
  /\ UNCHANGED <<registryVars, rsVars, invVars, cacheVars, requestVars, fetchVars>>

BackToSelect(i) ==
  /\ loop[i] = "busy" /\ loop' = [loop EXCEPT ![i] = "ready"]
  /\ UNCHANGED <<registryVars, rsVars, invVars, cacheVars, requestVars, fetchVars>>

AtWork(i) == \E r \in Requests :
               target[r] = i /\ fetch[r] \notin {"none", "listen", "end"}

\* A fault: no activity timer.
NeverExpire(i) == FALSE /\ i \in Requests

\* The activity timer: half an hour without a change or a new client, which is
\* longer than a fetch stays silent, a listener of a stuck inventory excepted.
Expire(i) ==
  /\ MayExpire /\ loop[i] = "ready" /\ ~AtWork(i)
  /\ loop' = [loop EXCEPT ![i] = "stopping"]
  /\ UNCHANGED <<registryVars, rsVars, invVars, cacheVars, requestVars, fetchVars>>

\* A fault: the callback removes the key and leaves the id.
EndWithIdLeft(i) ==
  /\ loop[i] = "stopping"
  /\ loop' = [loop EXCEPT ![i] = "ended"]
  /\ setsByKey' = [setsByKey EXCEPT ![key[i]] = None]
  /\ UNCHANGED <<sets, rsVars, invVars, cacheVars, requestVars, fetchVars>>

\* A fault: the inventory stays in the holder's map.
EndWithoutCleanup(i) ==
  /\ loop[i] = "stopping"
  /\ loop' = [loop EXCEPT ![i] = "ended"]
  /\ setsByKey' = [setsByKey EXCEPT ![key[i]] = None]
  /\ sets' = sets \ {setsByKey[key[i]]}
  /\ UNCHANGED <<rsVars, invVars, cacheVars, requestVars, fetchVars>>

\* The request was made the writer, and has yet to run its runtime set.
OnTheWay(r) == granted[r] = r /\ pc[r] \in {"full", "runFull"}

\* stop() and its callback: RemoveRuntimeSet removes whatever is under the key,
\* and the last runtime set of the set takes the inventory with it.
EndRuntimeSet(i) ==
  /\ loop[i] = "stopping"
  /\ loop' = [loop EXCEPT ![i] = "ended"]
  /\ LET rs == setsByKey[key[i]]
         left == [setsByKey EXCEPT ![key[i]] = None]
     IN  IF rs = None
           THEN UNCHANGED <<registryVars, inventory, forgotten>>
           ELSE /\ setsByKey' = left
                /\ sets' = sets \ {rs}
                /\ inventory' = IF \A k \in Key : left[k] = None THEN None ELSE inventory
                /\ forgotten' = (forgotten \/ (inventory' = None /\ \E r \in Requests :
                                                 OnTheWay(r) /\ inventory = r))
  /\ UNCHANGED <<rsVars, inventoryDone, cacheVars, requestVars, fetchVars>>

RuntimeSet(i) == HandleEvent(i) \/ BackToSelect(i) \/ Expire(i) \/ EndRuntimeSet(i)

-----------------------------------------------------------------------------
Stuck(r) == fetch[r] = "listen" /\ access[target[r]] \notin inventoryDone

Rest ==
  /\ \A r \in Requests :
       pc[r] = "answered" /\ (fetch[r] \in {"none", "end"} \/ Stuck(r))
  /\ \A i \in Requests : loop[i] \in {"none", "ended"}
  /\ UNCHANGED vars

Next ==
  \/ \E r \in Requests : Request(r) \/ Fetch(r) \/ RuntimeSet(r)
  \/ Rest

Spec == Init /\ [][Next]_vars

\* The goroutines run.  A request may never come, upstream answers in the end,
\* and events do not keep a loop from ever seeing its expired timer: the select
\* picks among the ready cases, and the ticker does not reset the timer.
Fairness ==
  \A r \in Requests :
    /\ WF_vars(pc[r] # "start" /\ Request(r))
    /\ WF_vars(Fetch(r))
    /\ WF_vars(BackToSelect(r)) /\ WF_vars(EndRuntimeSet(r))
    /\ SF_vars(Expire(r))

FairSpec == Spec /\ Fairness

-----------------------------------------------------------------------------
(* Properties *)

Running(i) == loop[i] \in {"ready", "busy"}

\* The two maps agree, and every runtime set is under its own key.
RegistryConsistent ==
  /\ sets = {setsByKey[k] : k \in Key} \ {None}
  /\ \A k \in Key : setsByKey[k] # None => key[setsByKey[k]] = k

\* A runtime set that can be found has not ended, although the callback of one
\* that ends removes whatever is under its key: a client is never sent to a
\* websocket without an event loop behind it.
RegisteredRuns ==
  \A i \in sets : loop[i] \notin {"none", "ended"}

\* The registry is right: its maps agree and it holds no runtime set that ended.
RegistrySound == TypeOK /\ RegistryConsistent /\ RegisteredRuns

\* The request of writer w was answered 404 after it had taken access: no fetch
\* will ever complete its inventory.
GaveUp(w) == w \in MayMiss /\ pc[w] = "answered" /\ fetch[w] = "none"

\* No inventory outlives its users: one in the holder's map has a registered
\* runtime set, or a request on its way to start one; or else its writer's request
\* gave up, which is the only way for it to be left behind.
InventoryOwned ==
  inventory # None =>
    sets # {} \/ GaveUp(inventory) \/ \E r \in Requests : OnTheWay(r) /\ inventory = r

\* "It will be cleaned up later by CleanupInventory()" (inventory.go:79): the last
\* runtime set to go takes the inventory with it.
CleanedUpLater ==
  inventory # None =>
    sets # {} \/ \E r \in Requests : OnTheWay(r) /\ inventory = r

\* A listener waits for an inventory that is done, or whose writer is on its way
\* to complete it, or whose writer's fetch may come to nothing, or gave up before
\* it had a fetch.  StopInventory
\* completes whatever inventory the holder has by then, so this takes that the
\* holder keeps the writer's inventory: it does, as long as it has never forgotten
\* one whose writer was between Access and RunSet.
ListenersHaveWriter ==
  ~forgotten =>
    \A r \in Requests : fetch[r] = "listen" =>
      LET w == access[target[r]]
      IN  w \in inventoryDone \/ OnTheWay(w) \/ GaveUp(w) \/ w \in MayFail
          \/ fetch[w] \in {"begin", "details", "inventory", "upstream"}

\* "This should be called after all operations using the inventory are complete"
\* (inventory.go:93): CleanupInventory leaves the inventory of a writer alone that
\* is about to run its runtime set.
CleanedUpAfterUse == ~forgotten

\* Every runtime set ends and is forgotten, even one that was replaced, lost
\* its stop signal or serves a listener that is stuck.
RuntimeSetsEnd ==
  \A i \in Requests : (loop[i] = "ready") ~> (loop[i] = "ended" /\ i \notin sets)

\* Every fetch ends, a listener's included, unless its writer's came to nothing, or
\* gave up before it had one, or the holder forgot an inventory in use.
FetchesEnd ==
  \A r \in Requests :
    (fetch[r] = "begin") ~>
      (fetch[r] = "end" \/ forgotten
         \/ (Stuck(r) /\ (access[target[r]] \in MayFail \/ GaveUp(access[target[r]]))))

\* "RunSet runs a runtime set, if it is not already running" (handler.go:41):
\* of one key at most one healthy runtime set runs.
OneRunningPerKey ==
  \A i, j \in Requests :
    (/\ Running(i) /\ Running(j) /\ key[i] = key[j]
     /\ status[i] # "Failed" /\ status[j] # "Failed") => i = j

\* "Core data inventory is not complete, the cached data is not reliable"
\* (cache.go:153): once an inventory has been fetched completely, the cache
\* says anything but Completed only while another fetch is on its way.
CachedInventoryStays ==
  [][(cachedInventory = "Completed" /\ cachedInventory' # "Completed") =>
       \E r \in Requests : fetch[r] = "inventory" /\ fetch'[r] = "upstream"]_vars
=================================================================================
