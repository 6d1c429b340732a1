---------------------------- MODULE SetRuntimeProofs ---------------------------
(***************************************************************************)
(* The registry of runtime sets and the inventory beside it, for any       *)
(* requests and locales.  The registry is sound whatever happens.  That a  *)
(* listener's writer completes its inventory rests on there being one full *)
(* fetch at a time (OneInventory): as long as the holder keeps the         *)
(* inventory, no other request becomes a writer, so nobody else runs or    *)
(* stops the writer's runtime set, which therefore stays in the registry   *)
(* and keeps the inventory.  The circle breaks between Access and RunSet,  *)
(* where no runtime set is there yet to keep it: forgotten.                *)
(***************************************************************************)
EXTENDS SetRuntime, TLAPS

Busy(r) == fetch[r] \notin {"none", "end"}

Writing == {"begin", "details", "inventory", "upstream"}

\* A runtime set is named after a request that is answered, and works for fetches
\* that began.
Fresh ==
  /\ \A r \in Requests : pc[r] # "answered" => loop[r] = "none" /\ fetch[r] = "none"
  /\ \A r \in Requests : fetch[r] # "none" => target[r] \in Requests /\ loop[target[r]] # "none"

\* What a request has been granted, by where it is.
Granted ==
  \A r \in Requests :
    /\ pc[r] \in {"start", "inspect", "redis"} => granted[r] = None
    /\ pc[r] = "full" => granted[r] \in {None, r}
    /\ pc[r] = "runFull" => granted[r] = r

\* Full fetches do not listen, the others do not write, and who listens has access.
Stages ==
  \A r \in Requests :
    /\ fetch[r] = "listen" => ~IsFull(r) /\ access[target[r]] # None
    /\ fetch[r] \in {"inventory", "upstream"} => IsFull(r)

\* While the holder keeps the inventory it has one writer, whose runtime set is
\* under its key and not about to stop; and no other full one runs.
OneInventory ==
  /\ \A k \in Key : k[2] = "full" /\ setsByKey[k] # None => setsByKey[k] = inventory
  /\ \A r \in Requests : OnTheWay(r) => inventory = r
  /\ \A i \in Requests :
       loop[i] \in {"ready", "busy", "stopping"} /\ key[i][2] = "full" => setsByKey[key[i]] = i
  /\ \A r \in Requests :
       Busy(r) /\ IsFull(r) =>
         target[r] = r /\ setsByKey[key[r]] = r /\ loop[r] \in {"ready", "busy"}

\* Inventory v is done, or its writer is on its way to complete it, may fail or gave up.
Served(v) ==
  \/ v \in inventoryDone \/ v \in MayFail \/ OnTheWay(v) \/ GaveUp(v)
  \/ fetch[v] \in Writing /\ IsFull(v)

AllServed ==
  /\ inventory # None => Served(inventory)
  /\ \A i \in Requests : (access[i] # None => Served(access[i]))
                         /\ (granted[i] # None => Served(granted[i]))

BaseInv == RegistrySound /\ InventoryOwned /\ Fresh /\ Granted /\ Stages

SetRuntimeInv == BaseInv /\ (~forgotten => OneInventory /\ AllServed)
-----------------------------------------------------------------------------
\* No request has come, and nothing runs.
LEMMA SetRuntimeInvInit == Init => SetRuntimeInv
<1> SUFFICES ASSUME Init PROVE SetRuntimeInv
  OBVIOUS
<1> USE SetRuntimeAssumption
<1>1. TypeOK
  <2>1. /\ setsByKey \in [Key -> Maybe] /\ sets \subseteq Requests
        /\ key \in [Requests -> Key] /\ status \in [Requests -> Status]
        /\ access \in [Requests -> Maybe] /\ core \in [Requests -> Status]
        /\ loop \in [Requests -> {"none", "ready", "busy", "stopping", "ended"}]
    BY DEF Init, Key, Maybe, Op, Status
  <2>2. /\ inventory \in Maybe /\ inventoryDone \subseteq Requests
        /\ cachedInventory \in Status /\ cachedLocale \in [Locales -> Status]
        /\ forgotten \in BOOLEAN
    BY DEF Init, Maybe, Status
  <2>3. /\ found \in [Requests -> SUBSET Requests]
        /\ granted \in [Requests -> Maybe] /\ coreRead \in [Requests -> Status]
        /\ localeRead \in [Requests -> Status] /\ target \in [Requests -> Maybe]
    BY DEF Init, Maybe, Status
  <2> QED BY <2>1, <2>2, <2>3 DEF Init, TypeOK
<1>2. RegistryConsistent /\ RegisteredRuns /\ InventoryOwned
  BY DEF Init, RegistryConsistent, RegisteredRuns, InventoryOwned
<1>3. Fresh /\ Granted /\ Stages
  BY DEF Init, Fresh, Granted, Stages
<1>4. OneInventory /\ AllServed
  BY DEF Init, OneInventory, AllServed, OnTheWay, Busy
<1> QED BY <1>1, <1>2, <1>3, <1>4 DEF SetRuntimeInv, BaseInv, RegistrySound
-----------------------------------------------------------------------------
(* What the actions do to the parts of the state the invariant is about *)

\* The steps of a request that neither take access nor run a runtime set.
Talk(r) ==
  FindRuntimeSets(r) \/ JoinRuntimeSet(r) \/ ReadCore(r) \/ CheckSetInRedis(r) \/ FindByKey(r)

\* They only move the request, none of which is a writer, and leave no access with
\* one that goes for a full fetch.
LEMMA TalkFacts ==
  ASSUME TypeOK, Granted, NEW r \in Requests, Talk(r)
  PROVE  /\ UNCHANGED <<registryVars, rsVars, loop, invVars, cacheVars, fetchVars>>
         /\ \A m \in Requests : m # r => pc'[m] = pc[m] /\ granted'[m] = granted[m]
         /\ pc[r] \notin {"full", "runFull", "answered"}
         /\ pc'[r] \in {"inspect", "redis", "incomplete", "runIncomplete", "full", "answered"}
         /\ granted'[r] \in {granted[r], None}
         /\ pc'[r] \in {"inspect", "redis", "full"} => granted'[r] = None
<1> USE DEF Goto, localVars
<1>1. /\ pc \in [Requests -> {"start", "inspect", "readCore", "redis", "incomplete",
                          "runIncomplete", "full", "runFull", "answered"}]
      /\ granted \in [Requests -> Maybe]
  BY DEF TypeOK
<1>2. CASE FindRuntimeSets(r)
  BY <1>1, <1>2 DEF FindRuntimeSets, Granted
<1>3. CASE JoinRuntimeSet(r)
  BY <1>1, <1>3 DEF JoinRuntimeSet, Answer
<1>4. CASE ReadCore(r)
  BY <1>1, <1>4 DEF ReadCore
<1>5. CASE CheckSetInRedis(r)
  BY <1>1, <1>5 DEF CheckSetInRedis, Answer, ReadCache, Granted
<1>6. CASE FindByKey(r)
  BY <1>1, <1>6 DEF FindByKey, Answer
<1> QED BY <1>2, <1>3, <1>4, <1>5, <1>6 DEF Talk

\* A request that takes access becomes the writer of a new inventory, or a reader
\* of the one there is, or gets nothing new; a writer goes on or gives up.
LEMMA AccessFacts ==
  ASSUME TypeOK, Granted, Fresh, NEW r \in Requests, ShareInventory(r) \/ PrepareFull(r)
  PROVE  /\ UNCHANGED <<registryVars, rsVars, loop, inventoryDone, forgotten, cacheVars, fetchVars>>
         /\ \A m \in Requests : m # r => pc'[m] = pc[m] /\ granted'[m] = granted[m]
         /\ pc[r] # "answered"
         /\ pc'[r] \in {"readCore", "full", "redis", "runFull", "answered"}
         /\ pc'[r] = "redis" => granted'[r] = None
         /\ pc'[r] = "full" => granted'[r] = r
         /\ pc'[r] = "runFull" => granted'[r] = r
         /\ OnTheWay(r) => OnTheWay(r)' \/ GaveUp(r)'
         /\ \/ inventory' = inventory /\ granted'[r] \in {granted[r], None, inventory}
               /\ (OnTheWay(r)' => OnTheWay(r))
            \/ inventory = None /\ inventory' = r /\ granted'[r] = r /\ OnTheWay(r)'
<1> USE SetRuntimeAssumption DEF Goto, localVars
<1>1. /\ pc \in [Requests -> {"start", "inspect", "readCore", "redis", "incomplete",
                          "runIncomplete", "full", "runFull", "answered"}]
      /\ granted \in [Requests -> Maybe] /\ r # None
  BY DEF TypeOK
<1>2. CASE ShareInventory(r) /\ UNCHANGED granted
  BY <1>1, <1>2 DEF ShareInventory, GetAccess, Granted, OnTheWay
<1>3. CASE ShareInventory(r) /\ GetAccess(r) /\ inventory = None
  BY <1>1, <1>3 DEF ShareInventory, GetAccess, Granted, OnTheWay
<1>4. CASE ShareInventory(r) /\ GetAccess(r) /\ inventory # None
  BY <1>1, <1>4 DEF ShareInventory, GetAccess, Granted, OnTheWay
<1>5. CASE PrepareFull(r) /\ GetAccess(r) /\ inventory = None
  BY <1>1, <1>5 DEF PrepareFull, GetAccess, ReadCache, Answer, OnTheWay
<1>6. CASE PrepareFull(r) /\ Goto(r, "runFull") /\ UNCHANGED <<granted, inventory>> /\ granted[r] = r
  BY <1>1, <1>6 DEF PrepareFull, OnTheWay
<1>7. CASE PrepareFull(r) /\ Answer(r) /\ UNCHANGED inventory /\ (r \in MayMiss \/ granted[r] = None)
  <2>1. pc[r] = "full" /\ pc' = [pc EXCEPT ![r] = "answered"] /\ granted' = [granted EXCEPT ![r] = None]
        /\ UNCHANGED fetch /\ fetch[r] = "none"
    BY <1>7 DEF PrepareFull, Answer, fetchVars, Fresh
  <2>2. ~OnTheWay(r)' /\ (OnTheWay(r) => GaveUp(r)')
    BY <1>1, <1>7, <2>1 DEF OnTheWay, GaveUp
  <2> QED BY <1>1, <1>7, <2>1, <2>2 DEF PrepareFull
<1> QED BY <1>2, <1>3, <1>4, <1>5, <1>6, <1>7 DEF ShareInventory, PrepareFull

Run(r, k) ==
  \/ RunIncomplete(r) /\ k = <<Locale[r], "incomplete">>
  \/ RunFull(r) /\ k = <<Locale[r], "full">>

\* RunSet for a key: the runtime set that is there gets another fetch, ...
Reused(r, k) ==
  /\ setsByKey[k] \in Requests /\ status[setsByKey[k]] # "Failed"
  /\ target' = [target EXCEPT ![r] = setsByKey[k]]
  /\ UNCHANGED <<registryVars, rsVars, loop>>

\* ... or the request's own takes its place.
Created(r, k) ==
  /\ key' = [key EXCEPT ![r] = k]
  /\ access' = [access EXCEPT ![r] = granted[r]]
  /\ setsByKey' = [setsByKey EXCEPT ![k] = r]
  /\ sets' = (sets \ {setsByKey[k]}) \cup {r}
  /\ target' = [target EXCEPT ![r] = r]
  /\ loop'[r] = "ready"
  /\ \A i \in Requests \ {r} : i # setsByKey[k] => loop'[i] = loop[i]
  /\ \A i \in Requests \ {r} : loop'[i] \in {loop[i], "stopping"}
                               /\ (loop[i] \in {"none", "ended"} => loop'[i] = loop[i])

\* RunSet starts the fetch of its request, whichever runtime set that is for.
LEMMA RunFacts ==
  ASSUME TypeOK, Granted, NEW r \in Requests, NEW k \in Key, Run(r, k)
  PROVE  /\ UNCHANGED <<invVars, cacheVars>>
         /\ \A m \in Requests : m # r => pc'[m] = pc[m] /\ granted'[m] = granted[m]
         /\ pc[r] \notin {"full", "answered"} /\ (pc[r] = "runFull" <=> k[2] = "full")
         /\ pc'[r] = "answered" /\ granted'[r] = None
         /\ fetch' = [fetch EXCEPT ![r] = "begin"]
         /\ Reused(r, k) \/ Created(r, k)
<1>1. /\ pc \in [Requests -> {"start", "inspect", "readCore", "redis", "incomplete",
                          "runIncomplete", "full", "runFull", "answered"}]
      /\ granted \in [Requests -> Maybe] /\ setsByKey[k] \in Maybe
      /\ loop \in [Requests -> {"none", "ready", "busy", "stopping", "ended"}]
  BY DEF TypeOK
<1>2. /\ UNCHANGED <<invVars, cacheVars>> /\ RunSet(r, k) /\ Answer(r) /\ StartFetch(r)
      /\ pc[r] \notin {"full", "answered"} /\ (pc[r] = "runFull" <=> k[2] = "full")
  BY DEF Run, RunIncomplete, RunFull
<1>3. Reused(r, k) \/ Created(r, k)
  <2>1. CASE Healthy(setsByKey[k])
    BY <1>1, <1>2, <2>1 DEF RunSet, Reused, Healthy, Maybe
  <2>2. CASE ~Healthy(setsByKey[k])
    <3>1. loop' = [i \in Requests |-> IF i = r THEN "ready"
                                    ELSE IF i = setsByKey[k] /\ loop[i] = "ready"
                                           THEN "stopping" ELSE loop[i]]
      BY <1>2, <2>2 DEF RunSet
    <3>2. /\ loop'[r] = "ready"
          /\ \A i \in Requests \ {r} : i # setsByKey[k] => loop'[i] = loop[i]
          /\ \A i \in Requests \ {r} : loop'[i] \in {loop[i], "stopping"}
                                  /\ (loop[i] \in {"none", "ended"} => loop'[i] = loop[i])
      BY <3>1
    <3> QED BY <1>2, <2>2, <3>2 DEF RunSet, Created
  <2> QED BY <2>1, <2>2
<1> QED BY <1>1, <1>2, <1>3 DEF Answer, Goto, StartFetch

\* The fetch goroutine's steps, but for the last.
Work(r) ==
  \/ BeginFetch(r) \/ FetchSetDetails(r) \/ BeginInventory(r)
  \/ FetchInventoryFails(r) \/ FetchInventoryEmpty(r) \/ FetchInventorySucceeds(r)
  \/ ListenInventory(r) \/ FetchBricks(r) \/ CompleteFetch(r) \/ StoreLocale(r)

\* They stay within the flow of their runtime set, and a full fetch is over only
\* when it may fail or has completed whatever inventory the holder has.
LEMMA WorkFacts ==
  ASSUME TypeOK, Stages, NEW r \in Requests, Work(r)
  PROVE  /\ UNCHANGED <<registryVars, key, access, loop, inventory, forgotten, pc, granted, target>>
         /\ inventoryDone \subseteq inventoryDone'
         /\ \A m \in Requests : m # r => fetch'[m] = fetch[m]
         /\ fetch[r] \notin {"none", "end"} /\ fetch'[r] \notin {"none", "begin", "end"}
         /\ fetch'[r] = "listen" => ~IsFull(r) /\ access[target[r]] # None
         /\ fetch'[r] \in {"inventory", "upstream"} => IsFull(r)
         /\ (fetch[r] \in Writing /\ IsFull(r) /\ inventory = r) =>
               fetch'[r] \in Writing \/ r \in MayFail \/ r \in inventoryDone'
<1> USE SetRuntimeAssumption DEF FetchAt, requestVars
<1>1. /\ fetch \in [Requests -> {"none", "begin", "details", "inventory", "upstream",
                             "listen", "bricks", "complete", "store", "sleep",
                             "end"}]
      /\ r # None
  BY DEF TypeOK
<1>2. CASE BeginFetch(r)
  BY <1>1, <1>2 DEF BeginFetch, Writing, invVars
<1>3. CASE FetchSetDetails(r)
  <2>1. PICK to \in {"inventory", "listen", "bricks"} :
           /\ fetch[r] = "details" /\ fetch' = [fetch EXCEPT ![r] = to]
           /\ to = "inventory" <=> IsFull(r)
           /\ to = "listen" => access[target[r]] # None
    BY <1>3 DEF FetchSetDetails
  <2>2. UNCHANGED <<registryVars, key, access, loop, inventory, forgotten, pc, granted, target,
                    inventoryDone>>
    BY <1>3 DEF FetchSetDetails, invVars, rsVars
  <2> QED BY <1>1, <2>1, <2>2 DEF Writing
<1>4. CASE BeginInventory(r)
  BY <1>1, <1>4 DEF BeginInventory, Writing, Stages, invVars
<1>5. CASE FetchInventoryFails(r) \/ FetchInventoryEmpty(r)
  BY <1>1, <1>5 DEF FetchInventoryFails, FetchInventoryEmpty, Writing, invVars
<1>6. CASE FetchInventorySucceeds(r)
  BY <1>1, <1>6 DEF FetchInventorySucceeds, Writing
<1>7. CASE ListenInventory(r) \/ FetchBricks(r) \/ CompleteFetch(r) \/ StoreLocale(r)
  BY <1>1, <1>7 DEF ListenInventory, FetchBricks, CompleteFetch, StoreLocale, Writing, invVars, rsVars
<1> QED BY <1>2, <1>3, <1>4, <1>5, <1>6, <1>7 DEF Work

\* A loop comes and goes between its select and the rest.
Turn(i) == HandleEvent(i) \/ BackToSelect(i) \/ Expire(i)

\* Every step is of one of these kinds.
LEMMA Kinds ==
  ASSUME [Next]_vars
  PROVE  \/ \E r \in Requests :
              \/ Talk(r) \/ ShareInventory(r) \/ PrepareFull(r)
              \/ RunIncomplete(r) \/ RunFull(r)
              \/ Work(r) \/ StopRuntimeSet(r) \/ Turn(r) \/ EndRuntimeSet(r)
         \/ UNCHANGED vars
BY DEF Next, Request, Fetch, RuntimeSet, Talk, Work, Turn, Rest

-----------------------------------------------------------------------------
(* Every step keeps the types *)

\* TypeOK in three parts: what the registry has, what requests have, and the rest.
RegistryTyped ==
  /\ setsByKey \in [Key -> Maybe] /\ sets \subseteq Requests
  /\ key \in [Requests -> Key] /\ status \in [Requests -> Status]
  /\ access \in [Requests -> Maybe] /\ core \in [Requests -> Status]
  /\ loop \in [Requests -> {"none", "ready", "busy", "stopping", "ended"}]

RequestsTyped ==
  /\ pc \in [Requests -> {"start", "inspect", "readCore", "redis", "incomplete",
                          "runIncomplete", "full", "runFull", "answered"}]
  /\ found \in [Requests -> SUBSET Requests]
  /\ granted \in [Requests -> Maybe] /\ coreRead \in [Requests -> Status]
  /\ localeRead \in [Requests -> Status]

FetchesTyped ==
  /\ inventory \in Maybe /\ inventoryDone \subseteq Requests
  /\ cachedInventory \in Status /\ cachedLocale \in [Locales -> Status]
  /\ fetch \in [Requests -> {"none", "begin", "details", "inventory", "upstream",
                             "listen", "bricks", "complete", "store", "sleep",
                             "end"}]
  /\ target \in [Requests -> Maybe]
  /\ forgotten \in BOOLEAN

\* A request's step keeps the types.
LEMMA RequestTyped ==
  ASSUME TypeOK, NEW r \in Requests, Request(r)
  PROVE  TypeOK'
<1> USE SetRuntimeAssumption DEF registryVars, rsVars, invVars, cacheVars, localVars, fetchVars, Goto
<1>1. RegistryTyped /\ RequestsTyped /\ FetchesTyped
  BY DEF TypeOK, RegistryTyped, RequestsTyped, FetchesTyped
<1>2. CASE Talk(r)
  <2>1. RequestsTyped'
    <3>1. CASE FindRuntimeSets(r)
      BY <1>1, <3>1 DEF FindRuntimeSets, RequestsTyped, RegistryTyped
    <3>2. CASE JoinRuntimeSet(r) \/ FindByKey(r)
      BY <1>1, <3>2 DEF JoinRuntimeSet, FindByKey, Answer, RequestsTyped, Maybe, Status
    <3>3. CASE ReadCore(r)
      <4>1. CASE Goto(r, "incomplete") /\ UNCHANGED granted
        BY <1>1, <3>3, <4>1 DEF ReadCore, RequestsTyped, FetchesTyped
      <4>2. CASE Goto(r, "full") /\ UNCHANGED coreRead
        BY <1>1, <3>3, <4>2 DEF ReadCore, RequestsTyped, FetchesTyped, Maybe
      <4> QED BY <3>3, <4>1, <4>2 DEF ReadCore
    <3>4. CASE CheckSetInRedis(r)
      <4>1. CASE Goto(r, "full") /\ UNCHANGED localVars
        BY <1>1, <4>1 DEF RequestsTyped
      <4>2. CASE Answer(r)
        BY <1>1, <4>2 DEF Answer, RequestsTyped, Maybe, Status
      <4>3. CASE ReadCache(r) /\ Goto(r, "incomplete") /\ UNCHANGED <<found, granted>>
        BY <1>1, <4>3 DEF ReadCache, RequestsTyped, FetchesTyped
      <4> QED BY <3>4, <4>1, <4>2, <4>3 DEF CheckSetInRedis
    <3> QED BY <1>2, <3>1, <3>2, <3>3, <3>4 DEF Talk
  <2>2. RegistryTyped' /\ FetchesTyped'
    <3>1. UNCHANGED <<registryVars, rsVars, loop, invVars, cacheVars, fetchVars>>
      BY <1>2 DEF Talk, FindRuntimeSets, JoinRuntimeSet, ReadCore, CheckSetInRedis, FindByKey
    <3> QED BY <1>1, <3>1 DEF RegistryTyped, FetchesTyped
  <2> QED BY <2>1, <2>2 DEF TypeOK, RegistryTyped, RequestsTyped, FetchesTyped
<1>3. CASE ShareInventory(r) \/ PrepareFull(r)
  <2>1. RequestsTyped' /\ inventory' \in Maybe
    <3>1. CASE ShareInventory(r)
      BY <1>1, <3>1 DEF ShareInventory, GetAccess, RequestsTyped, FetchesTyped, Maybe
    <3>2. CASE PrepareFull(r)
      BY <1>1, <3>2 DEF PrepareFull, GetAccess, ReadCache, Answer, RequestsTyped, FetchesTyped,
         Maybe, Status
    <3> QED BY <1>3, <3>1, <3>2
  <2>2. RegistryTyped' /\ FetchesTyped'
    <3>1. UNCHANGED <<registryVars, rsVars, loop, inventoryDone, forgotten, cacheVars, fetchVars>>
      BY <1>3 DEF ShareInventory, PrepareFull
    <3> QED BY <1>1, <2>1, <3>1 DEF RegistryTyped, FetchesTyped
  <2> QED BY <2>1, <2>2 DEF TypeOK, RegistryTyped, RequestsTyped, FetchesTyped
<1>4. ASSUME NEW k \in Key, RunSet(r, k), StartFetch(r), Answer(r), UNCHANGED <<invVars, cacheVars>>
      PROVE  TypeOK'
  <2>1. RequestsTyped'
    BY <1>1, <1>4 DEF Answer, RequestsTyped, Maybe, Status
  <2>2. RegistryTyped' /\ target' \in [Requests -> Maybe]
    <3>1. CASE Healthy(setsByKey[k])
      BY <1>1, <1>4, <3>1 DEF RunSet, Healthy, RegistryTyped, FetchesTyped
    <3>2. CASE ~Healthy(setsByKey[k])
      <4>1. loop' \in [Requests -> {"none", "ready", "busy", "stopping", "ended"}]
        BY <1>1, <1>4, <3>2 DEF RunSet, RegistryTyped
      <4>2. sets' \subseteq Requests /\ setsByKey' \in [Key -> Maybe]
        BY <1>1, <1>4, <3>2 DEF RunSet, RegistryTyped, Maybe
      <4> QED BY <1>1, <1>4, <3>2, <4>1, <4>2, SMTT(20) DEF RunSet, RegistryTyped, RequestsTyped, FetchesTyped, Maybe
    <3> QED BY <3>1, <3>2
  <2>3. FetchesTyped'
    BY <1>1, <1>4, <2>2 DEF StartFetch, FetchesTyped
  <2> QED BY <2>1, <2>2, <2>3 DEF TypeOK, RegistryTyped, RequestsTyped, FetchesTyped
<1>5. <<Locale[r], "incomplete">> \in Key /\ <<Locale[r], "full">> \in Key
  BY DEF Key, Op
<1>6. CASE RunIncomplete(r) \/ RunFull(r)
  BY <1>4, <1>5, <1>6 DEF RunIncomplete, RunFull
<1> QED BY <1>2, <1>3, <1>6 DEF Request, Talk

\* A fetch goroutine's step keeps the types.
LEMMA FetchTyped ==
  ASSUME TypeOK, Fresh, NEW r \in Requests, Fetch(r)
  PROVE  TypeOK'
<1> USE DEF registryVars, rsVars, invVars, cacheVars, requestVars, FetchAt
<1>1. RegistryTyped /\ RequestsTyped /\ FetchesTyped
  BY DEF TypeOK, RegistryTyped, RequestsTyped, FetchesTyped
<1>2. RequestsTyped' /\ UNCHANGED <<setsByKey, sets, key, access, inventory, forgotten, target>>
  <2>1. UNCHANGED requestVars /\ UNCHANGED <<setsByKey, sets, key, access, inventory, forgotten, target>>
    BY DEF Fetch, BeginFetch, FetchSetDetails, BeginInventory, FetchInventoryFails,
       FetchInventoryEmpty, FetchInventorySucceeds, ListenInventory, FetchBricks, CompleteFetch,
       StoreLocale, StopRuntimeSet
  <2> QED BY <1>1, <2>1 DEF RequestsTyped
<1>3. /\ fetch' \in [Requests -> {"none", "begin", "details", "inventory", "upstream",
                             "listen", "bricks", "complete", "store", "sleep", "end"}]
      /\ target[r] \in Requests
  <2>1. PICK from, to \in {"none", "begin", "details", "inventory", "upstream",
                             "listen", "bricks", "complete", "store", "sleep", "end"} :
            from # "none" /\ FetchAt(r, from, to)
    BY DEF Fetch, BeginFetch, FetchSetDetails, BeginInventory, FetchInventoryFails,
       FetchInventoryEmpty, FetchInventorySucceeds, ListenInventory, FetchBricks, CompleteFetch,
       StoreLocale, StopRuntimeSet
  <2> QED BY <1>1, <2>1 DEF FetchesTyped, Fresh
<1>4. status' \in [Requests -> Status] /\ core' \in [Requests -> Status]
      /\ cachedInventory' \in Status
  BY <1>1, <1>3 DEF Fetch, BeginFetch, FetchSetDetails, BeginInventory, FetchInventoryFails,
     FetchInventoryEmpty, FetchInventorySucceeds, ListenInventory, FetchBricks, CompleteFetch,
     StoreLocale, StopRuntimeSet, RegistryTyped, FetchesTyped, SetStatus, SaveCore, Status
<1>5. cachedLocale' \in [Locales -> Status]
  <2>1. \/ UNCHANGED cachedLocale
        \/ \E s \in Status : cachedLocale' = [cachedLocale EXCEPT ![Tag(r)] = s]
    BY <1>1, <1>3 DEF Fetch, BeginFetch, FetchSetDetails, BeginInventory, FetchInventoryFails,
       FetchInventoryEmpty, FetchInventorySucceeds, ListenInventory, FetchBricks, CompleteFetch,
       StoreLocale, StopRuntimeSet, RegistryTyped, Status
  <2> QED BY <1>1, <2>1 DEF FetchesTyped
<1>6. inventoryDone' \subseteq Requests
  BY <1>1 DEF Fetch, BeginFetch, FetchSetDetails, BeginInventory, FetchInventoryFails,
     FetchInventoryEmpty, FetchInventorySucceeds, ListenInventory, FetchBricks, CompleteFetch,
     StoreLocale, StopRuntimeSet, FetchesTyped, Maybe
<1>7. loop' \in [Requests -> {"none", "ready", "busy", "stopping", "ended"}]
  <2>1. CASE StopRuntimeSet(r)
    BY <1>1, <2>1 DEF StopRuntimeSet, RegistryTyped
  <2>2. CASE ~StopRuntimeSet(r)
    <3>1. UNCHANGED loop
      BY <2>2 DEF Fetch, BeginFetch, FetchSetDetails, BeginInventory, FetchInventoryFails,
         FetchInventoryEmpty, FetchInventorySucceeds, ListenInventory, FetchBricks, CompleteFetch,
         StoreLocale
    <3> QED BY <1>1, <3>1 DEF RegistryTyped
  <2> QED BY <2>1, <2>2
<1>8. RegistryTyped' /\ FetchesTyped'
  BY <1>1, <1>2, <1>3, <1>4, <1>5, <1>6, <1>7 DEF RegistryTyped, FetchesTyped
<1> QED BY <1>2, <1>8 DEF TypeOK, RegistryTyped, RequestsTyped, FetchesTyped

\* TypeOK is inductive, given that a fetch has a runtime set to work for.
LEMMA TypeStep ==
  ASSUME TypeOK, Fresh, [Next]_vars
  PROVE  TypeOK'
<1> USE DEF registryVars, rsVars, invVars, cacheVars, requestVars, fetchVars
<1>1. RegistryTyped /\ RequestsTyped /\ FetchesTyped
  BY DEF TypeOK, RegistryTyped, RequestsTyped, FetchesTyped
<1>2. ASSUME NEW i \in Requests, RuntimeSet(i) PROVE TypeOK'
  <2>1. UNCHANGED requestVars /\ UNCHANGED <<key, status, access, core, inventoryDone, cacheVars, fetchVars>>
    BY <1>2 DEF RuntimeSet, HandleEvent, BackToSelect, Expire, EndRuntimeSet
  <2>2. loop' \in [Requests -> {"none", "ready", "busy", "stopping", "ended"}]
    BY <1>1, <1>2 DEF RuntimeSet, HandleEvent, BackToSelect, Expire, EndRuntimeSet, RegistryTyped
  <2>3. setsByKey' \in [Key -> Maybe] /\ sets' \subseteq Requests /\ inventory' \in Maybe
        /\ forgotten' \in BOOLEAN
    <3>1. CASE EndRuntimeSet(i) /\ setsByKey[key[i]] # None
      <4>1. setsByKey' = [setsByKey EXCEPT ![key[i]] = None] /\ sets' \subseteq sets
            /\ inventory' \in {inventory, None}
        BY <3>1 DEF EndRuntimeSet
      <4>2. forgotten' \in BOOLEAN
        BY <3>1 DEF EndRuntimeSet
      <4> QED BY <1>1, <4>1, <4>2 DEF RegistryTyped, FetchesTyped, Maybe
    <3>2. CASE UNCHANGED <<setsByKey, sets, inventory, forgotten>>
      BY <1>1, <3>2 DEF RegistryTyped, FetchesTyped
    <3> QED BY <1>2, <3>1, <3>2 DEF RuntimeSet, HandleEvent, BackToSelect, Expire, EndRuntimeSet
  <2>4. RegistryTyped' /\ RequestsTyped' /\ FetchesTyped'
    BY <1>1, <2>1, <2>2, <2>3 DEF RegistryTyped, RequestsTyped, FetchesTyped
  <2> QED BY <2>4 DEF TypeOK, RegistryTyped, RequestsTyped, FetchesTyped
<1>3. CASE UNCHANGED vars
  <2>1. RegistryTyped' /\ RequestsTyped' /\ FetchesTyped'
    BY <1>1, <1>3 DEF vars, RegistryTyped, RequestsTyped, FetchesTyped
  <2> QED BY <2>1 DEF TypeOK, RegistryTyped, RequestsTyped, FetchesTyped
<1> QED BY <1>2, <1>3, RequestTyped, FetchTyped DEF Next, Rest

-----------------------------------------------------------------------------
(* Every step keeps the registry sound *)

\* The last step of a fetch signals a loop that waits, whichever is under the key.
LEMMA StopFacts ==
  ASSUME TypeOK, Fresh, NEW r \in Requests, StopRuntimeSet(r)
  PROVE  /\ UNCHANGED <<registryVars, rsVars, invVars, cacheVars, pc, granted, target>>
         /\ fetch[r] = "sleep" /\ fetch' = [fetch EXCEPT ![r] = "end"]
         /\ target[r] \in Requests
         /\ \A i \in Requests : loop'[i] = loop[i] \/ (/\ loop[i] = "ready" /\ loop'[i] = "stopping"
                                                   /\ i = setsByKey[key[target[r]]])
<1>1. fetch[r] = "sleep" /\ target[r] \in Requests
  BY DEF StopRuntimeSet, FetchAt, Fresh
<1>2. \/ UNCHANGED loop
      \/ \E i \in Requests : /\ i = setsByKey[key[target[r]]] /\ loop[i] = "ready"
                             /\ loop' = [loop EXCEPT ![i] = "stopping"]
  BY <1>1 DEF StopRuntimeSet, TypeOK, Maybe
<1>3. loop \in [Requests -> {"none", "ready", "busy", "stopping", "ended"}]
  BY DEF TypeOK
<1>4. \A i \in Requests : loop'[i] = loop[i] \/ (/\ loop[i] = "ready" /\ loop'[i] = "stopping"
                                                 /\ i = setsByKey[key[target[r]]])
  BY <1>2, <1>3
<1>5. /\ UNCHANGED <<registryVars, rsVars, invVars, cacheVars, pc, granted, target>>
      /\ fetch' = [fetch EXCEPT ![r] = "end"]
  BY DEF StopRuntimeSet, FetchAt, requestVars
<1> QED BY <1>1, <1>4, <1>5

\* A loop's own steps, but for its end, are between ready, busy and stopping.
LEMMA TurnFacts ==
  ASSUME TypeOK, NEW i \in Requests, Turn(i)
  PROVE  /\ UNCHANGED <<registryVars, rsVars, invVars, cacheVars, pc, granted, fetchVars>>
         /\ \A j \in Requests : j # i => loop'[j] = loop[j]
         /\ loop[i] \in {"ready", "busy"} /\ loop'[i] \in {"ready", "busy", "stopping"}
         /\ loop'[i] = "stopping" => ~AtWork(i)
<1>1. loop \in [Requests -> {"none", "ready", "busy", "stopping", "ended"}]
  BY DEF TypeOK
<1> QED BY <1>1 DEF Turn, HandleEvent, BackToSelect, Expire, requestVars

\* Names are fresh, access is what the request's position says, and fetches keep
\* to their flow.
LEMMA LocalsStep ==
  ASSUME RegistrySound, Fresh, Granted, Stages, [Next]_vars
  PROVE  Fresh' /\ Granted' /\ Stages'
<1> USE SetRuntimeAssumption DEF registryVars, rsVars, invVars, cacheVars, fetchVars
<1>1. /\ loop \in [Requests -> {"none", "ready", "busy", "stopping", "ended"}]
      /\ fetch \in [Requests -> {"none", "begin", "details", "inventory", "upstream",
                             "listen", "bricks", "complete", "store", "sleep", "end"}]
      /\ target \in [Requests -> Maybe] /\ key \in [Requests -> Key]
      /\ access \in [Requests -> Maybe] /\ TypeOK
  BY DEF RegistrySound, TypeOK
<1>2. ASSUME NEW r \in Requests, Talk(r) PROVE Fresh' /\ Granted' /\ Stages'
  <2>1. /\ UNCHANGED <<key, access, loop, fetch, target>>
        /\ \A m \in Requests : m # r => pc'[m] = pc[m] /\ granted'[m] = granted[m]
        /\ pc[r] # "answered"
        /\ pc'[r] \in {"inspect", "redis", "full"} => granted'[r] = None
        /\ pc'[r] \notin {"start", "runFull"}
    BY <1>1, <1>2, TalkFacts
  <2> QED BY <2>1 DEF Fresh, Granted, Stages, IsFull
<1>3. ASSUME NEW r \in Requests, ShareInventory(r) \/ PrepareFull(r)
      PROVE  Fresh' /\ Granted' /\ Stages'
  <2>1. /\ UNCHANGED <<key, access, loop, fetch, target>>
        /\ \A m \in Requests : m # r => pc'[m] = pc[m] /\ granted'[m] = granted[m]
        /\ pc[r] # "answered"
        /\ pc'[r] = "redis" => granted'[r] = None
        /\ pc'[r] = "full" => granted'[r] = r
        /\ pc'[r] = "runFull" => granted'[r] = r
        /\ pc'[r] \notin {"start", "inspect"}
    BY <1>1, <1>3, AccessFacts
  <2> QED BY <2>1 DEF Fresh, Granted, Stages, IsFull
<1>4. ASSUME NEW r \in Requests, NEW k \in Key, Run(r, k) PROVE Fresh' /\ Granted' /\ Stages'
  <2>1. /\ \A m \in Requests : m # r => pc'[m] = pc[m] /\ granted'[m] = granted[m]
        /\ pc[r] # "answered" /\ pc'[r] = "answered"
        /\ fetch' = [fetch EXCEPT ![r] = "begin"]
        /\ Reused(r, k) \/ Created(r, k)
    BY <1>1, <1>4, RunFacts
  <2>2. Granted'
    BY <2>1 DEF Granted
  <2>3. CASE Created(r, k)
    <3>1. /\ \A m \in Requests : m # r => /\ target'[m] = target[m] /\ key'[m] = key[m]
                                          /\ access'[m] = access[m]
                                          /\ loop[m] = "none" <=> loop'[m] = "none"
          /\ target'[r] = r /\ loop'[r] = "ready" /\ loop[r] = "none"
      BY <1>1, <2>1, <2>3 DEF Created, Fresh
    <3>2. \A m \in Requests : m # r /\ fetch[m] # "none" => target[m] \in Requests /\ target[m] # r
      BY <3>1 DEF Fresh
    <3>3. Fresh'
      BY <1>1, <2>1, <3>1, <3>2 DEF Fresh
    <3>4. Stages'
      BY <1>1, <2>1, <3>1, <3>2 DEF Stages, IsFull
    <3> QED BY <2>2, <3>3, <3>4
  <2>4. CASE Reused(r, k)
    <3>1. /\ UNCHANGED <<key, access, loop>> /\ target' = [target EXCEPT ![r] = setsByKey[k]]
          /\ setsByKey[k] \in Requests /\ loop[setsByKey[k]] # "none"
      BY <2>4 DEF Reused, RegistrySound, RegistryConsistent, RegisteredRuns
    <3>2. Stages'
      BY <1>1, <2>1, <3>1 DEF Stages, IsFull
    <3> QED BY <1>1, <2>1, <2>2, <3>1, <3>2 DEF Fresh
  <2> QED BY <2>1, <2>3, <2>4
<1>5. ASSUME NEW r \in Requests, Work(r) PROVE Fresh' /\ Granted' /\ Stages'
  BY <1>1, <1>5, WorkFacts DEF Fresh, Granted, Stages, IsFull
<1>6. ASSUME NEW r \in Requests, StopRuntimeSet(r) PROVE Fresh' /\ Granted' /\ Stages'
  BY <1>1, <1>6, StopFacts DEF Fresh, Granted, Stages, IsFull
<1>7. ASSUME NEW r \in Requests, Turn(r) PROVE Fresh' /\ Granted' /\ Stages'
  BY <1>1, <1>7, TurnFacts DEF Fresh, Granted, Stages, IsFull
<1>8. ASSUME NEW r \in Requests, EndRuntimeSet(r) PROVE Fresh' /\ Granted' /\ Stages'
  <2>1. UNCHANGED <<key, access, fetch, target, pc, granted>>
        /\ loop[r] = "stopping" /\ loop' = [loop EXCEPT ![r] = "ended"]
    BY <1>8 DEF EndRuntimeSet, requestVars
  <2> QED BY <1>1, <2>1 DEF Fresh, Granted, Stages, IsFull
<1>9. CASE UNCHANGED vars
  BY <1>9 DEF vars, Fresh, Granted, Stages, IsFull
<1>10. \A r \in Requests : <<Locale[r], "incomplete">> \in Key /\ <<Locale[r], "full">> \in Key
  BY DEF Key, Op
<1>11. ASSUME NEW r \in Requests, RunIncomplete(r) \/ RunFull(r) PROVE Fresh' /\ Granted' /\ Stages'
  BY <1>4, <1>10, <1>11 DEF Run
<1> QED BY <1>2, <1>3, <1>5, <1>6, <1>7, <1>8, <1>9, <1>11, Kinds

\* What the end of a runtime set does to the maps.
LEMMA EndFacts ==
  ASSUME TypeOK, RegistryConsistent, NEW i \in Requests, EndRuntimeSet(i)
  PROVE  /\ UNCHANGED <<rsVars, inventoryDone, cacheVars, pc, granted, fetchVars>>
         /\ loop[i] = "stopping" /\ loop' = [loop EXCEPT ![i] = "ended"]
         /\ setsByKey' = [setsByKey EXCEPT ![key[i]] = None]
         /\ sets' = sets \ {setsByKey[key[i]]}
         /\ sets' # {} => inventory' = inventory
         /\ inventory' # inventory => inventory' = None
         /\ forgotten => forgotten'
         /\ (inventory' # inventory /\ ~forgotten') => \A r \in Requests : OnTheWay(r) => inventory # r
<1> USE DEF rsVars, requestVars
<1>1. /\ setsByKey \in [Key -> Maybe] /\ sets \subseteq Requests /\ key[i] \in Key
      /\ None \notin Requests /\ sets = {setsByKey[k] : k \in Key} \ {None}
      /\ forgotten \in BOOLEAN
  BY SetRuntimeAssumption DEF TypeOK, RegistryConsistent
<1>2. CASE setsByKey[key[i]] = None
  <2>1. UNCHANGED <<registryVars, inventory, forgotten>>
    BY <1>2 DEF EndRuntimeSet
  <2>2. setsByKey = [setsByKey EXCEPT ![key[i]] = None] /\ sets = sets \ {None}
    BY <1>1, <1>2
  <2> QED BY <1>2, <2>1, <2>2 DEF EndRuntimeSet, registryVars
<1>3. CASE setsByKey[key[i]] # None
  <2> DEFINE left == [setsByKey EXCEPT ![key[i]] = None]
  <2>1. /\ setsByKey' = left /\ sets' = sets \ {setsByKey[key[i]]}
        /\ inventory' = IF \A k \in Key : left[k] = None THEN None ELSE inventory
        /\ forgotten' = (forgotten \/ (inventory' = None /\ \E r \in Requests :
                                                 OnTheWay(r) /\ inventory = r))
    BY <1>3 DEF EndRuntimeSet
  <2>2. (\A k \in Key : left[k] = None) => sets' = {}
    BY <1>1, <2>1
  <2> QED BY <1>1, <2>1, <2>2 DEF EndRuntimeSet
<1> QED BY <1>2, <1>3

\* The two maps change together: what is under a key gives way to what is put there,
\* and is under no other key.
LEMMA ReplaceFacts ==
  ASSUME TypeOK, RegistryConsistent, NEW k \in Key, NEW x \in Maybe, x \notin sets
  PROVE  {[setsByKey EXCEPT ![k] = x][j] : j \in Key} \ {None}
           = (sets \ {setsByKey[k]}) \cup ({x} \ {None})
<1> DEFINE new == [setsByKey EXCEPT ![k] = x]
<1>1. setsByKey \in [Key -> Maybe]
  BY DEF TypeOK
<1>2. new[k] = x /\ \A j \in Key : j # k => new[j] = setsByKey[j]
  BY <1>1
<1>3. sets = {setsByKey[j] : j \in Key} \ {None}
      /\ \A j \in Key : setsByKey[j] # None => key[setsByKey[j]] = j
  BY DEF RegistryConsistent
<1> HIDE DEF new
<1>4. ASSUME NEW j \in Key, new[j] # None PROVE new[j] \in (sets \ {setsByKey[k]}) \cup ({x} \ {None})
  BY <1>2, <1>3, <1>4
<1>5. ASSUME NEW y \in sets, y # setsByKey[k] PROVE \E j \in Key : new[j] = y /\ y # None
  BY <1>2, <1>3, <1>5
<1>6. {new[j] : j \in Key} \ {None} = (sets \ {setsByKey[k]}) \cup ({x} \ {None})
  BY <1>2, <1>4, <1>5
<1> QED BY <1>6 DEF new

\* RegistryConsistent and RegisteredRuns are inductive, given that names are fresh.
LEMMA RegistryStep ==
  ASSUME RegistrySound, Fresh, Granted, Stages, [Next]_vars
  PROVE  RegistryConsistent' /\ RegisteredRuns'
<1> USE SetRuntimeAssumption DEF registryVars, rsVars
<1>1. /\ TypeOK /\ RegistryConsistent /\ RegisteredRuns
      /\ loop \in [Requests -> {"none", "ready", "busy", "stopping", "ended"}]
      /\ setsByKey \in [Key -> Maybe] /\ sets \subseteq Requests /\ key \in [Requests -> Key]
  BY DEF RegistrySound, TypeOK
<1>2. CASE UNCHANGED <<setsByKey, sets, key>> /\ \A i \in Requests :
              loop[i] \notin {"none", "ended"} => loop'[i] \notin {"none", "ended"}
  BY <1>1, <1>2 DEF RegistryConsistent, RegisteredRuns
<1>3. ASSUME NEW r \in Requests, Talk(r) PROVE RegistryConsistent' /\ RegisteredRuns'
  <2>1. UNCHANGED <<setsByKey, sets, key, loop>>
    BY <1>1, <1>3, TalkFacts
  <2> QED BY <1>2, <2>1
<1>4. ASSUME NEW r \in Requests, ShareInventory(r) \/ PrepareFull(r)
      PROVE  RegistryConsistent' /\ RegisteredRuns'
  <2>1. UNCHANGED <<setsByKey, sets, key, loop>>
    BY <1>1, <1>4, AccessFacts
  <2> QED BY <1>2, <2>1
<1>5. ASSUME NEW r \in Requests, Work(r) \/ StopRuntimeSet(r) \/ Turn(r)
      PROVE  RegistryConsistent' /\ RegisteredRuns'
  <2>1. UNCHANGED <<setsByKey, sets, key>> /\ \A i \in Requests :
              loop[i] \notin {"none", "ended"} => loop'[i] \notin {"none", "ended"}
    BY <1>1, <1>5, WorkFacts, StopFacts, TurnFacts
  <2> QED BY <1>2, <2>1
<1>6. ASSUME NEW r \in Requests, NEW k \in Key, Run(r, k)
      PROVE  RegistryConsistent' /\ RegisteredRuns'
  <2>1. (Reused(r, k) \/ Created(r, k)) /\ pc[r] # "answered"
    BY <1>1, <1>6, RunFacts
  <2>2. loop[r] = "none" /\ r \notin sets
    BY <1>1, <2>1 DEF Fresh, RegisteredRuns
  <2>3. CASE Reused(r, k)
    BY <1>2, <2>3 DEF Reused
  <2>4. CASE Created(r, k)
    <3>1. /\ key' = [key EXCEPT ![r] = k] /\ setsByKey' = [setsByKey EXCEPT ![k] = r]
          /\ sets' = (sets \ {setsByKey[k]}) \cup {r} /\ loop'[r] = "ready"
          /\ \A i \in Requests \ {r} : i # setsByKey[k] => loop'[i] = loop[i]
      BY <2>4 DEF Created
    <3>2. sets' = {setsByKey'[j] : j \in Key} \ {None}
      <4>1. r \in Maybe /\ r # None
        BY DEF Maybe
      <4> QED BY <1>1, <2>2, <3>1, <4>1, ReplaceFacts
    <3>3. \A j \in Key : setsByKey'[j] # None => key'[setsByKey'[j]] = j
      BY <1>1, <2>2, <3>1 DEF RegistryConsistent, Maybe
    <3>4. RegisteredRuns'
      BY <1>1, <3>1 DEF RegisteredRuns
    <3> QED BY <3>2, <3>3, <3>4 DEF RegistryConsistent
  <2> QED BY <2>1, <2>3, <2>4
<1>7. ASSUME NEW i \in Requests, EndRuntimeSet(i) PROVE RegistryConsistent' /\ RegisteredRuns'
  <2>1. /\ UNCHANGED key /\ loop' = [loop EXCEPT ![i] = "ended"]
        /\ setsByKey' = [setsByKey EXCEPT ![key[i]] = None] /\ sets' = sets \ {setsByKey[key[i]]}
    BY <1>1, <1>7, EndFacts
  <2>2. sets' = {setsByKey'[j] : j \in Key} \ {None}
    <3>1. None \in Maybe /\ None \notin sets /\ key[i] \in Key
      BY <1>1 DEF Maybe
    <3> QED BY <1>1, <2>1, <3>1, ReplaceFacts
  <2>3. \A j \in Key : setsByKey'[j] # None => key'[setsByKey'[j]] = j
    BY <1>1, <2>1 DEF RegistryConsistent
  <2>4. i \notin sets'
    BY <1>1, <2>1 DEF RegistryConsistent
  <2>5. RegisteredRuns'
    BY <1>1, <2>1, <2>4 DEF RegisteredRuns
  <2> QED BY <2>2, <2>3, <2>5 DEF RegistryConsistent
<1>8. CASE UNCHANGED vars
  BY <1>2, <1>8 DEF vars
<1>9. \A r \in Requests : <<Locale[r], "incomplete">> \in Key /\ <<Locale[r], "full">> \in Key
  BY DEF Key, Op
<1>10. ASSUME NEW r \in Requests, RunIncomplete(r) \/ RunFull(r)
       PROVE  RegistryConsistent' /\ RegisteredRuns'
  BY <1>6, <1>9, <1>10 DEF Run
<1> QED BY <1>3, <1>4, <1>5, <1>7, <1>8, <1>10, Kinds

\* A request that gave up is over.
LEMMA GaveUpStays ==
  ASSUME TypeOK, RegistryConsistent, Granted, Fresh, Stages, [Next]_vars,
         NEW v \in Requests, GaveUp(v)
  PROVE  GaveUp(v)'
<1> USE DEF fetchVars, GaveUp
<1>1. /\ fetch \in [Requests -> {"none", "begin", "details", "inventory", "upstream",
                             "listen", "bricks", "complete", "store", "sleep", "end"}]
  BY DEF TypeOK
<1>2. ASSUME NEW r \in Requests, Talk(r) PROVE GaveUp(v)'
  BY <1>2, TalkFacts
<1>3. ASSUME NEW r \in Requests, ShareInventory(r) \/ PrepareFull(r) PROVE GaveUp(v)'
  BY <1>3, AccessFacts
<1>4. ASSUME NEW r \in Requests, NEW k \in Key, Run(r, k) PROVE GaveUp(v)'
  BY <1>1, <1>4, RunFacts
<1>5. ASSUME NEW r \in Requests, Work(r) PROVE GaveUp(v)'
  BY <1>5, WorkFacts
<1>6. ASSUME NEW r \in Requests, StopRuntimeSet(r) PROVE GaveUp(v)'
  BY <1>1, <1>6, StopFacts
<1>7. ASSUME NEW r \in Requests, Turn(r) \/ EndRuntimeSet(r) PROVE GaveUp(v)'
  BY <1>7, TurnFacts, EndFacts
<1>8. CASE UNCHANGED vars
  BY <1>8 DEF vars
<1>9. \A r \in Requests : <<Locale[r], "incomplete">> \in Key /\ <<Locale[r], "full">> \in Key
  BY SetRuntimeAssumption DEF Key, Op
<1>10. ASSUME NEW r \in Requests, RunIncomplete(r) \/ RunFull(r) PROVE GaveUp(v)'
  BY <1>4, <1>9, <1>10 DEF Run
<1> QED BY <1>2, <1>3, <1>5, <1>6, <1>7, <1>8, <1>10, Kinds

\* An inventory in the map keeps its owner, unless that gives up: access makes one,
\* a runtime set takes the request's place, and the last to go takes the inventory
\* with it.
LEMMA OwnedStep ==
  ASSUME BaseInv, [Next]_vars
  PROVE  InventoryOwned'
<1> USE SetRuntimeAssumption DEF registryVars, rsVars, invVars
<1>1. /\ TypeOK /\ RegistryConsistent /\ Granted /\ Fresh /\ Stages /\ InventoryOwned
      /\ setsByKey \in [Key -> Maybe] /\ sets \subseteq Requests /\ inventory \in Maybe
  BY DEF BaseInv, RegistrySound, TypeOK
<1>1a. \A m \in Requests : GaveUp(m) => GaveUp(m)'
  BY <1>1, GaveUpStays
<1>2. CASE /\ UNCHANGED <<sets, inventory>>
           /\ \A m \in Requests : OnTheWay(m) => OnTheWay(m)' \/ GaveUp(m)'
  BY <1>1a, <1>1, <1>2 DEF InventoryOwned, Maybe
<1>3. ASSUME NEW r \in Requests, Talk(r) PROVE InventoryOwned'
  <2>1. /\ UNCHANGED <<sets, inventory>> /\ pc[r] \notin {"full", "runFull"}
        /\ \A m \in Requests : m # r => pc'[m] = pc[m] /\ granted'[m] = granted[m]
    BY <1>1, <1>3, TalkFacts
  <2> QED BY <1>2, <2>1 DEF OnTheWay
<1>4. ASSUME NEW r \in Requests, ShareInventory(r) \/ PrepareFull(r) PROVE InventoryOwned'
  <2>1. /\ UNCHANGED sets
        /\ \A m \in Requests : m # r => pc'[m] = pc[m] /\ granted'[m] = granted[m]
        /\ OnTheWay(r) => OnTheWay(r)' \/ GaveUp(r)'
        /\ inventory' = inventory \/ (inventory' = r /\ OnTheWay(r)')
    BY <1>1, <1>4, AccessFacts
  <2>2. CASE inventory' = inventory
    BY <1>2, <2>1, <2>2 DEF OnTheWay
  <2> QED BY <2>1, <2>2 DEF InventoryOwned
<1>5. ASSUME NEW r \in Requests, Work(r) \/ StopRuntimeSet(r) \/ Turn(r) PROVE InventoryOwned'
  <2>1. UNCHANGED <<sets, inventory, pc, granted>>
    BY <1>1, <1>5, WorkFacts, StopFacts, TurnFacts
  <2> QED BY <1>2, <2>1 DEF OnTheWay
<1>6. ASSUME NEW r \in Requests, NEW k \in Key, Run(r, k) PROVE InventoryOwned'
  <2>1. Reused(r, k) \/ Created(r, k)
    BY <1>1, <1>6, RunFacts
  <2>2. sets' # {}
    BY <1>1, <2>1 DEF Reused, Created, RegistryConsistent
  <2> QED BY <2>2 DEF InventoryOwned
<1>7. ASSUME NEW i \in Requests, EndRuntimeSet(i) PROVE InventoryOwned'
  <2>1. CASE sets' # {}
    BY <2>1 DEF InventoryOwned
  <2>2. CASE inventory' # None /\ sets' = {}
    <3>1. inventory' = inventory /\ UNCHANGED <<pc, granted>>
      BY <1>1, <1>7, <2>2, EndFacts
    <3>2. CASE setsByKey[key[i]] # None
      <4>1. /\ setsByKey' = [setsByKey EXCEPT ![key[i]] = None] /\ sets' = sets \ {setsByKey[key[i]]}
            /\ inventory' = IF \A k \in Key : setsByKey'[k] = None THEN None ELSE inventory
        BY <3>2, <1>7 DEF EndRuntimeSet
      <4>2. PICK k \in Key : setsByKey'[k] # None
        BY <2>2, <4>1
      <4>3. k # key[i] /\ setsByKey[k] # None /\ key[setsByKey[k]] = k /\ setsByKey[k] \in sets
        BY <1>1, <4>1, <4>2 DEF RegistryConsistent
      <4>4. key[setsByKey[key[i]]] = key[i]
        BY <1>1, <3>2 DEF RegistryConsistent, TypeOK
      <4>5. setsByKey[k] \in sets'
        BY <4>1, <4>3, <4>4
      <4> QED BY <2>2, <4>5
    <3>3. CASE setsByKey[key[i]] = None
      <4>1. sets' = sets
        BY <3>3, <1>7 DEF EndRuntimeSet
      <4> QED BY <1>2, <3>1, <4>1 DEF OnTheWay
    <3> QED BY <3>2, <3>3
  <2> QED BY <2>1, <2>2 DEF InventoryOwned
<1>8. CASE UNCHANGED vars
  BY <1>2, <1>8 DEF vars, OnTheWay
<1>9. \A r \in Requests : <<Locale[r], "incomplete">> \in Key /\ <<Locale[r], "full">> \in Key
  BY DEF Key, Op
<1>10. ASSUME NEW r \in Requests, RunIncomplete(r) \/ RunFull(r) PROVE InventoryOwned'
  BY <1>6, <1>9, <1>10 DEF Run
<1> QED BY <1>3, <1>4, <1>5, <1>7, <1>8, <1>10, Kinds

-----------------------------------------------------------------------------
(* Every step keeps the one inventory, as long as the holder does *)

\* A full runtime set is only ever created, and under a key that is free: the
\* inventory is the request's, and no other full one is registered.
LEMMA FullIsNew ==
  ASSUME BaseInv, OneInventory, NEW r \in Requests, NEW k \in Key, Run(r, k), k[2] = "full"
  PROVE  /\ OnTheWay(r) /\ inventory = r /\ Created(r, k)
         /\ \A j \in Key : j[2] = "full" => setsByKey[j] = None
<1>1. /\ TypeOK /\ Granted /\ Fresh /\ RegistryConsistent /\ RegisteredRuns
      /\ setsByKey \in [Key -> Maybe]
  BY DEF BaseInv, RegistrySound, TypeOK
<1>2. pc[r] = "runFull" /\ (Reused(r, k) \/ Created(r, k))
  BY <1>1, RunFacts
<1>3. OnTheWay(r) /\ inventory = r
  BY <1>1, <1>2 DEF Granted, OnTheWay, OneInventory
<1>4. r \notin sets
  BY <1>1, <1>2 DEF Fresh, RegisteredRuns
<1>5. \A j \in Key : j[2] = "full" => setsByKey[j] = None
  BY <1>1, <1>3, <1>4 DEF OneInventory, RegistryConsistent, Maybe
<1> QED BY <1>2, <1>3, <1>5, SetRuntimeAssumption DEF Reused

\* A request's step keeps OneInventory.
LEMMA OneRequestStep ==
  ASSUME BaseInv, OneInventory, NEW r \in Requests, Request(r)
  PROVE  OneInventory'
<1> USE SetRuntimeAssumption DEF registryVars, rsVars, invVars, fetchVars
<1>1. /\ TypeOK /\ Granted /\ Fresh /\ Stages /\ RegistryConsistent /\ RegisteredRuns
      /\ setsByKey \in [Key -> Maybe] /\ key \in [Requests -> Key]
      /\ fetch \in [Requests -> {"none", "begin", "details", "inventory", "upstream",
                             "listen", "bricks", "complete", "store", "sleep", "end"}]
      /\ target \in [Requests -> Maybe]
  BY DEF BaseInv, RegistrySound, TypeOK
<1>2. CASE Talk(r)
  <2>1. /\ UNCHANGED <<setsByKey, key, loop, inventory, fetch, target>>
        /\ \A m \in Requests : OnTheWay(m)' => OnTheWay(m)
    BY <1>1, <1>2, TalkFacts DEF OnTheWay
  <2> QED BY <2>1 DEF OneInventory, Busy, IsFull
<1>3. CASE ShareInventory(r) \/ PrepareFull(r)
  <2>1. /\ UNCHANGED <<setsByKey, key, loop, fetch, target>>
        /\ \A m \in Requests : m # r => (OnTheWay(m)' <=> OnTheWay(m))
        /\ \/ inventory' = inventory /\ (OnTheWay(r)' => OnTheWay(r))
           \/ inventory = None /\ inventory' = r /\ OnTheWay(r)'
    BY <1>1, <1>3, AccessFacts DEF OnTheWay
  <2>2. /\ \A k \in Key : k[2] = "full" /\ setsByKey[k] # None => setsByKey[k] = inventory'
        /\ \A m \in Requests : OnTheWay(m)' => inventory' = m
    BY <1>1, <2>1 DEF OneInventory
  <2> QED BY <2>1, <2>2 DEF OneInventory, Busy, IsFull
<1>4. ASSUME NEW k \in Key, Run(r, k) PROVE OneInventory'
  <2>1. /\ inventory' = inventory
        /\ \A m \in Requests : OnTheWay(m)' => OnTheWay(m)
        /\ fetch' = [fetch EXCEPT ![r] = "begin"]
        /\ Reused(r, k) \/ Created(r, k)
        /\ loop[r] = "none" /\ r \notin sets
    BY <1>1, <1>4, RunFacts DEF OnTheWay, Fresh, RegisteredRuns
  <2>2. \A m \in Requests : m # r /\ Busy(m)' => Busy(m) /\ target[m] \in Requests /\ target[m] # r
    BY <1>1, <2>1 DEF Busy, Fresh
  <2>3. CASE Reused(r, k)
    <3>1. k[2] # "full"
      BY <1>4, <2>1, <2>3, FullIsNew DEF Reused
    <3>2. /\ UNCHANGED <<setsByKey, key, loop>> /\ target' = [target EXCEPT ![r] = setsByKey[k]]
          /\ key[setsByKey[k]] = k
      BY <1>1, <2>3 DEF Reused, RegistryConsistent
    <3>3. ~IsFull(r)' /\ \A m \in Requests : m # r => target'[m] = target[m]
      BY <1>1, <3>1, <3>2 DEF IsFull
    <3> QED BY <2>1, <2>2, <3>2, <3>3 DEF OneInventory, IsFull
  <2>4. CASE Created(r, k)
    <3>1. /\ key' = [key EXCEPT ![r] = k] /\ setsByKey' = [setsByKey EXCEPT ![k] = r]
          /\ target' = [target EXCEPT ![r] = r] /\ loop'[r] = "ready"
          /\ \A i \in Requests \ {r} : i # setsByKey[k] => loop'[i] = loop[i]
          /\ \A i \in Requests \ {r} : loop'[i] \in {loop[i], "stopping"}
                               /\ (loop[i] \in {"none", "ended"} => loop'[i] = loop[i])
      BY <2>4 DEF Created
    <3>2. k[2] = "full" => inventory = r /\ \A j \in Key : j[2] = "full" => setsByKey[j] = None
      BY <1>4, FullIsNew
    <3>3. \A j \in Key : j[2] = "full" /\ setsByKey'[j] # None => setsByKey'[j] = inventory'
      BY <1>1, <2>1, <3>1, <3>2 DEF OneInventory
    <3>4. \A m \in Requests : OnTheWay(m)' => inventory' = m
      BY <2>1 DEF OneInventory
    <3>5. ASSUME NEW i \in Requests, loop'[i] \in {"ready", "busy", "stopping"}, key'[i][2] = "full"
          PROVE  setsByKey'[key'[i]] = i
      <4>1. CASE i = r
        BY <1>1, <3>1, <4>1
      <4>2. CASE i # r
        <5>1. key'[i] = key[i] /\ key[i] \in Key /\ loop[i] \in {"ready", "busy", "stopping"}
          <6>1. loop[i] \in {"none", "ready", "busy", "stopping", "ended"}
            BY <1>1 DEF TypeOK
          <6> QED BY <1>1, <3>1, <3>5, <4>2, <6>1
        <5>2. setsByKey[key[i]] = i
          BY <3>5, <5>1 DEF OneInventory
        <5> QED BY <1>1, <3>1, <3>2, <3>5, <5>1, <5>2
      <4> QED BY <4>1, <4>2
    <3>6. ASSUME NEW m \in Requests, Busy(m)', IsFull(m)'
          PROVE  target'[m] = m /\ setsByKey'[key'[m]] = m /\ loop'[m] \in {"ready", "busy"}
      <4>1. CASE m = r
        BY <1>1, <3>1, <4>1
      <4>2. CASE m # r
        <5>1. /\ target'[m] = target[m] /\ Busy(m) /\ target[m] \in Requests \ {r}
              /\ key'[target[m]] = key[target[m]]
          BY <1>1, <2>2, <3>1, <3>6, <4>2
        <5>2. IsFull(m)
          BY <3>6, <5>1 DEF IsFull
        <5>3. target[m] = m /\ setsByKey[key[m]] = m /\ loop[m] \in {"ready", "busy"}
          BY <5>1, <5>2 DEF OneInventory
        <5>4. key[m] # k /\ key[m] \in Key
          BY <1>1, <3>2, <5>2, <5>3 DEF IsFull
        <5>5. m # setsByKey[k]
          BY <1>1, <5>4 DEF RegistryConsistent
        <5> QED BY <1>1, <3>1, <4>2, <5>1, <5>3, <5>4, <5>5
      <4> QED BY <4>1, <4>2
    <3> QED BY <3>3, <3>4, <3>5, <3>6 DEF OneInventory
  <2> QED BY <2>1, <2>3, <2>4
<1>5. <<Locale[r], "incomplete">> \in Key /\ <<Locale[r], "full">> \in Key
  BY DEF Key, Op
<1>6. CASE RunIncomplete(r) \/ RunFull(r)
  BY <1>4, <1>5, <1>6 DEF Run
<1> QED BY <1>2, <1>3, <1>6 DEF Request, Talk

\* So do the others: nobody else's fetch stops the writer's runtime set, its timer
\* waits for the fetch, and while it is registered the holder keeps the inventory.
LEMMA OneStep ==
  ASSUME BaseInv, OneInventory, ~forgotten', [Next]_vars
  PROVE  OneInventory'
<1> USE SetRuntimeAssumption DEF registryVars, rsVars, invVars, fetchVars
<1>1. /\ TypeOK /\ Granted /\ Fresh /\ Stages /\ RegistryConsistent /\ RegisteredRuns
      /\ setsByKey \in [Key -> Maybe] /\ key \in [Requests -> Key]
      /\ loop \in [Requests -> {"none", "ready", "busy", "stopping", "ended"}]
      /\ fetch \in [Requests -> {"none", "begin", "details", "inventory", "upstream",
                             "listen", "bricks", "complete", "store", "sleep", "end"}]
  BY DEF BaseInv, RegistrySound, TypeOK
<1>2. ASSUME NEW r \in Requests, Request(r) PROVE OneInventory'
  BY <1>2, OneRequestStep
<1>3. ASSUME NEW r \in Requests, Work(r) PROVE OneInventory'
  <2>1. /\ UNCHANGED <<setsByKey, key, loop, inventory, target, pc, granted>>
        /\ \A m \in Requests : m # r => fetch'[m] = fetch[m]
        /\ Busy(r)
    BY <1>1, <1>3, WorkFacts DEF Busy
  <2> QED BY <2>1 DEF OneInventory, OnTheWay, Busy, IsFull
<1>4. ASSUME NEW r \in Requests, StopRuntimeSet(r) PROVE OneInventory'
  <2>1. /\ UNCHANGED <<setsByKey, key, inventory, target, pc, granted>>
        /\ fetch[r] = "sleep" /\ fetch' = [fetch EXCEPT ![r] = "end"] /\ target[r] \in Requests
        /\ \A i \in Requests : loop'[i] = loop[i] \/ (/\ loop[i] = "ready" /\ loop'[i] = "stopping"
                                                  /\ i = setsByKey[key[target[r]]])
    BY <1>1, <1>4, StopFacts
  <2>2. ASSUME NEW m \in Requests, Busy(m)', IsFull(m)
        PROVE  target[m] = m /\ setsByKey[key[m]] = m /\ loop'[m] \in {"ready", "busy"}
    <3>1. m # r /\ Busy(m)
      BY <1>1, <2>1, <2>2 DEF Busy
    <3>2. target[m] = m /\ setsByKey[key[m]] = m /\ loop[m] \in {"ready", "busy"}
      BY <2>2, <3>1 DEF OneInventory
    <3>3. m # setsByKey[key[target[r]]]
      <4>1. SUFFICES ASSUME m = setsByKey[key[target[r]]] PROVE FALSE
        OBVIOUS
      <4>2. key[target[r]] = key[m]
        BY <1>1, <2>1, <4>1 DEF RegistryConsistent
      <4>3. IsFull(r) /\ Busy(r)
        BY <2>1, <2>2, <3>2, <4>2 DEF IsFull, Busy
      <4> QED BY <3>1, <4>1, <4>3 DEF OneInventory
    <3> QED BY <2>1, <3>2, <3>3
  <2> QED BY <1>1, <2>1, <2>2 DEF OneInventory, OnTheWay, IsFull
<1>5. ASSUME NEW j \in Requests, Turn(j) PROVE OneInventory'
  <2>1. /\ UNCHANGED <<setsByKey, key, inventory, target, fetch, pc, granted>>
        /\ \A i \in Requests : i # j => loop'[i] = loop[i]
        /\ loop[j] \in {"ready", "busy"} /\ loop'[j] \in {"ready", "busy", "stopping"}
        /\ loop'[j] = "stopping" => ~AtWork(j)
    BY <1>1, <1>5, TurnFacts
  <2>2. Busy(j) /\ IsFull(j) => AtWork(j)
    BY <1>1 DEF Busy, AtWork, Stages, OneInventory
  <2> QED BY <2>1, <2>2 DEF OneInventory, OnTheWay, Busy, IsFull
<1>6. ASSUME NEW j \in Requests, EndRuntimeSet(j) PROVE OneInventory'
  <2>1. /\ UNCHANGED <<key, fetch, target, pc, granted>>
        /\ loop[j] = "stopping" /\ loop' = [loop EXCEPT ![j] = "ended"]
        /\ setsByKey' = [setsByKey EXCEPT ![key[j]] = None]
        /\ sets' = sets \ {setsByKey[key[j]]}
        /\ sets' # {} => inventory' = inventory
        /\ inventory' # inventory => \A r \in Requests : OnTheWay(r) => inventory # r
    BY <1>1, <1>6, EndFacts
  <2>2. \A k \in Key : setsByKey'[k] # None => setsByKey'[k] = setsByKey[k] /\ setsByKey[k] \in sets'
    BY <1>1, <2>1 DEF RegistryConsistent
  <2>3. \A k \in Key : k[2] = "full" /\ setsByKey'[k] # None => setsByKey'[k] = inventory'
    BY <2>1, <2>2 DEF OneInventory
  <2>4. \A r \in Requests : OnTheWay(r)' => inventory' = r
    BY <2>1 DEF OneInventory, OnTheWay
  <2>5. ASSUME NEW i \in Requests, i # j, key[i] \in Key, key[i][2] = "full", setsByKey[key[i]] = i
        PROVE  setsByKey'[key[i]] = i
    <3>1. key[i] # key[j]
      BY <2>1, <2>5 DEF OneInventory
    <3> QED BY <1>1, <2>1, <2>5, <3>1
  <2>6. \A i \in Requests : loop'[i] \in {"ready", "busy", "stopping"} /\ key'[i][2] = "full"
                             => setsByKey'[key'[i]] = i
    BY <1>1, <2>1, <2>5 DEF OneInventory
  <2>7. ASSUME NEW m \in Requests, Busy(m)', IsFull(m)'
        PROVE  target'[m] = m /\ setsByKey'[key'[m]] = m /\ loop'[m] \in {"ready", "busy"}
    <3>1. target[m] = m /\ setsByKey[key[m]] = m /\ loop[m] \in {"ready", "busy"} /\ key[m][2] = "full"
      BY <2>1, <2>7 DEF OneInventory, Busy, IsFull
    <3> QED BY <1>1, <2>1, <2>5, <3>1
  <2> QED BY <2>3, <2>4, <2>6, <2>7 DEF OneInventory
<1>7. CASE UNCHANGED vars
  BY <1>7 DEF vars, OneInventory, OnTheWay, Busy, IsFull
<1> QED BY <1>2, <1>3, <1>4, <1>5, <1>6, <1>7 DEF Next, Fetch, Work, RuntimeSet, Turn, Rest

\* Once the holder has forgotten an inventory in use, that stays so.
LEMMA ForgottenStays ==
  ASSUME BaseInv, [Next]_vars, forgotten
  PROVE  forgotten'
<1> USE DEF invVars
<1>1. TypeOK /\ RegistryConsistent /\ Granted /\ Fresh /\ Stages
  BY DEF BaseInv, RegistrySound
<1>2. \A r \in Requests : Talk(r) \/ ShareInventory(r) \/ PrepareFull(r) \/ Work(r)
                          \/ StopRuntimeSet(r) \/ Turn(r) => UNCHANGED forgotten
  BY <1>1, TalkFacts, AccessFacts, WorkFacts, StopFacts, TurnFacts
<1>3. \A r \in Requests : RunIncomplete(r) \/ RunFull(r) => UNCHANGED forgotten
  BY DEF RunIncomplete, RunFull
<1>4. \A r \in Requests : EndRuntimeSet(r) => forgotten'
  BY <1>1, EndFacts
<1> QED BY <1>2, <1>3, <1>4, Kinds DEF vars

\* An inventory that is served stays so: its writer's fetch goes on, completes it, or
\* may have failed.
LEMMA ServedStays ==
  ASSUME BaseInv, OneInventory, ~forgotten', [Next]_vars, NEW v \in Requests, Served(v)
  PROVE  Served(v)'
<1> USE SetRuntimeAssumption DEF registryVars, rsVars, invVars, fetchVars
<1>1. /\ TypeOK /\ Granted /\ Fresh /\ Stages /\ RegistryConsistent
      /\ key \in [Requests -> Key] /\ target \in [Requests -> Maybe]
      /\ fetch \in [Requests -> {"none", "begin", "details", "inventory", "upstream",
                             "listen", "bricks", "complete", "store", "sleep", "end"}]
  BY DEF BaseInv, RegistrySound, TypeOK
<1>1a. GaveUp(v) => GaveUp(v)'
  BY <1>1, GaveUpStays
<1>2. CASE UNCHANGED <<key, fetch, target>> /\ inventoryDone \subseteq inventoryDone'
           /\ (OnTheWay(v) => OnTheWay(v)' \/ GaveUp(v)')
  BY <1>1a, <1>2 DEF Served, IsFull
<1>3. ASSUME NEW r \in Requests, Talk(r) PROVE Served(v)'
  <2>1. UNCHANGED <<key, fetch, target, inventoryDone>> /\ (OnTheWay(v) => OnTheWay(v)')
    BY <1>1, <1>3, TalkFacts DEF OnTheWay
  <2> QED BY <1>2, <2>1
<1>4. ASSUME NEW r \in Requests, ShareInventory(r) \/ PrepareFull(r) PROVE Served(v)'
  <2>1. UNCHANGED <<key, fetch, target, inventoryDone>>
        /\ (OnTheWay(v) => OnTheWay(v)' \/ GaveUp(v)')
    BY <1>1, <1>4, AccessFacts DEF OnTheWay
  <2> QED BY <1>2, <2>1
<1>5. ASSUME NEW r \in Requests, NEW k \in Key, Run(r, k) PROVE Served(v)'
  <2>1. /\ UNCHANGED inventoryDone
        /\ \A m \in Requests : m # r => pc'[m] = pc[m] /\ granted'[m] = granted[m]
        /\ fetch' = [fetch EXCEPT ![r] = "begin"] /\ pc[r] # "answered"
        /\ (pc[r] = "runFull" <=> k[2] = "full") /\ pc[r] # "full"
        /\ Reused(r, k) \/ Created(r, k)
    BY <1>1, <1>5, RunFacts
  <2>2. fetch[r] = "none" /\ loop[r] = "none"
    BY <1>1, <2>1 DEF Fresh
  <2>3. CASE v = r /\ OnTheWay(v)
    <3>1. Created(r, k) /\ k[2] = "full"
      BY <1>5, <2>1, <2>3, FullIsNew DEF OnTheWay
    <3>2. fetch'[r] = "begin" /\ IsFull(r)'
      BY <1>1, <2>1, <3>1 DEF Created, IsFull
    <3> QED BY <2>3, <3>2 DEF Served, Writing
  <2>4. CASE v # r /\ OnTheWay(v)
    BY <2>1, <2>4 DEF Served, OnTheWay
  <2>5. CASE fetch[v] \in Writing /\ IsFull(v)
    <3>1. v # r /\ target[v] \in Requests \ {r}
      BY <1>1, <2>2, <2>5 DEF Writing, Fresh
    <3>2. fetch'[v] = fetch[v] /\ target'[v] = target[v] /\ key'[target[v]] = key[target[v]]
      BY <1>1, <2>1, <3>1 DEF Reused, Created
    <3> QED BY <2>5, <3>2 DEF Served, IsFull
  <2>6. CASE v \in inventoryDone \/ v \in MayFail
    BY <2>1, <2>6 DEF Served
  <2>7. CASE GaveUp(v)
    BY <1>1a, <2>7 DEF Served
  <2> QED BY <2>3, <2>4, <2>5, <2>6, <2>7 DEF Served
<1>6. ASSUME NEW r \in Requests, Work(r) PROVE Served(v)'
  <2>1. /\ UNCHANGED <<key, target, pc, granted>> /\ inventoryDone \subseteq inventoryDone'
        /\ \A m \in Requests : m # r => fetch'[m] = fetch[m]
        /\ fetch[r] \notin {"none", "end"}
        /\ (fetch[r] \in Writing /\ IsFull(r) /\ inventory = r) =>
               fetch'[r] \in Writing \/ r \in MayFail \/ r \in inventoryDone'
    BY <1>1, <1>6, WorkFacts
  <2>2. fetch[r] \in Writing /\ IsFull(r) => inventory = r
    <3>1. SUFFICES ASSUME IsFull(r) PROVE inventory = r
      OBVIOUS
    <3>2. target[r] = r /\ setsByKey[key[r]] = r /\ key[r] \in Key /\ key[r][2] = "full"
      BY <1>1, <2>1, <3>1 DEF OneInventory, Busy, IsFull
    <3> QED BY <3>2 DEF OneInventory
  <2> QED BY <1>1a, <2>1, <2>2 DEF Served, OnTheWay, IsFull
<1>7. ASSUME NEW r \in Requests, StopRuntimeSet(r) PROVE Served(v)'
  <2>1. /\ UNCHANGED <<key, target, pc, granted, inventoryDone>> /\ fetch[r] = "sleep"
        /\ fetch' = [fetch EXCEPT ![r] = "end"]
    BY <1>1, <1>7, StopFacts
  <2>2. fetch[v] \in Writing => fetch'[v] = fetch[v]
    BY <1>1, <2>1 DEF Writing
  <2> QED BY <1>1a, <2>1, <2>2 DEF Served, OnTheWay, IsFull
<1>8. ASSUME NEW r \in Requests, Turn(r) \/ EndRuntimeSet(r) PROVE Served(v)'
  <2>1. UNCHANGED <<key, fetch, target, inventoryDone, pc, granted>>
    BY <1>1, <1>8, TurnFacts, EndFacts
  <2> QED BY <1>2, <2>1 DEF OnTheWay
<1>9. CASE UNCHANGED vars
  BY <1>2, <1>9 DEF vars, OnTheWay
<1>10. \A r \in Requests : <<Locale[r], "incomplete">> \in Key /\ <<Locale[r], "full">> \in Key
  BY DEF Key, Op
<1>11. ASSUME NEW r \in Requests, RunIncomplete(r) \/ RunFull(r) PROVE Served(v)'
  BY <1>5, <1>10, <1>11 DEF Run
<1> QED BY <1>3, <1>4, <1>6, <1>7, <1>8, <1>9, <1>11, Kinds

\* Whoever gets access gets it to an inventory that is served: its own, or the one
\* in the map.
LEMMA ServedStep ==
  ASSUME BaseInv, OneInventory, AllServed, ~forgotten', [Next]_vars
  PROVE  AllServed'
<1> USE SetRuntimeAssumption DEF registryVars, rsVars, invVars, fetchVars
<1>1. /\ TypeOK /\ Granted /\ Fresh /\ Stages /\ RegistryConsistent
      /\ inventory \in Maybe
      /\ access \in [Requests -> Maybe] /\ granted \in [Requests -> Maybe]
  BY DEF BaseInv, RegistrySound, TypeOK
<1>2. \A v \in Requests : Served(v) => Served(v)'
  BY ServedStays
<1> DEFINE Old(v) == v = inventory \/ \E i \in Requests : v = access[i] \/ v = granted[i]
           New(v) == v = inventory' \/ \E i \in Requests : v = access'[i] \/ v = granted'[i]
<1>3. ASSUME NEW v \in Requests, Old(v) PROVE Served(v)'
  BY <1>2, <1>3 DEF AllServed
<1>4. ASSUME NEW v \in Requests, New(v) PROVE Served(v)'
  <2>1. CASE Old(v) \/ OnTheWay(v)'
    BY <1>3, <2>1 DEF Served
  <2>2. CASE UNCHANGED <<inventory, access, granted>>
    BY <1>4, <2>1, <2>2
  <2>3. ASSUME NEW r \in Requests, Talk(r) PROVE Served(v)'
    <3>1. /\ UNCHANGED <<inventory, access>> /\ granted'[r] \in {granted[r], None}
          /\ \A m \in Requests : m # r => granted'[m] = granted[m]
      BY <1>1, <2>3, TalkFacts
    <3> QED BY <1>4, <2>1, <3>1
  <2>4. ASSUME NEW r \in Requests, ShareInventory(r) \/ PrepareFull(r) PROVE Served(v)'
    <3>1. /\ UNCHANGED access /\ \A m \in Requests : m # r => granted'[m] = granted[m]
          /\ \/ inventory' = inventory /\ granted'[r] \in {granted[r], None, inventory}
             \/ inventory' = r /\ granted'[r] = r /\ OnTheWay(r)'
      BY <1>1, <2>4, AccessFacts
    <3>2. Old(v) \/ (v = r /\ OnTheWay(r)')
      BY <1>4, <3>1
    <3> QED BY <2>1, <3>2
  <2>5. ASSUME NEW r \in Requests, NEW k \in Key, Run(r, k) PROVE Served(v)'
    <3>1. /\ UNCHANGED inventory /\ granted'[r] = None
          /\ \A m \in Requests : m # r => granted'[m] = granted[m]
          /\ \/ UNCHANGED access
             \/ access' = [access EXCEPT ![r] = granted[r]]
      BY <1>1, <2>5, RunFacts DEF Reused, Created
    <3> QED BY <1>1, <1>4, <2>1, <3>1
  <2>6. ASSUME NEW r \in Requests, Work(r) \/ StopRuntimeSet(r) \/ Turn(r) PROVE Served(v)'
    BY <1>1, <2>2, <2>6, WorkFacts, StopFacts, TurnFacts
  <2>7. ASSUME NEW r \in Requests, EndRuntimeSet(r) PROVE Served(v)'
    <3>1. UNCHANGED <<access, granted>> /\ inventory' \in {inventory, None}
      BY <1>1, <2>7, EndFacts
    <3> QED BY <1>4, <2>1, <3>1
  <2>8. CASE UNCHANGED vars
    BY <2>2, <2>8 DEF vars
  <2>9. \A r \in Requests : <<Locale[r], "incomplete">> \in Key /\ <<Locale[r], "full">> \in Key
    BY DEF Key, Op
  <2>10. ASSUME NEW r \in Requests, RunIncomplete(r) \/ RunFull(r) PROVE Served(v)'
    BY <2>5, <2>9, <2>10 DEF Run
  <2> QED BY <2>3, <2>4, <2>6, <2>7, <2>8, <2>10, Kinds
<1>5. TypeOK'
  BY <1>1, TypeStep
<1> QED BY <1>4, <1>5 DEF AllServed, Served, OnTheWay, GaveUp, IsFull, TypeOK, Maybe

\* SetRuntimeInv is inductive.
LEMMA SetRuntimeInvStep == SetRuntimeInv /\ [Next]_vars => SetRuntimeInv'
<1> SUFFICES ASSUME SetRuntimeInv, [Next]_vars PROVE SetRuntimeInv'
  OBVIOUS
<1>1. BaseInv /\ RegistrySound /\ TypeOK /\ Fresh /\ Granted /\ Stages
  BY DEF SetRuntimeInv, BaseInv, RegistrySound
<1>2. BaseInv'
  <2>1. RegistrySound'
    BY <1>1, TypeStep, RegistryStep DEF RegistrySound
  <2>2. Fresh' /\ Granted' /\ Stages'
    BY <1>1, LocalsStep
  <2>3. InventoryOwned'
    BY <1>1, OwnedStep
  <2> QED BY <2>1, <2>2, <2>3 DEF BaseInv
<1>3. ASSUME ~forgotten' PROVE OneInventory' /\ AllServed'
  <2>1. OneInventory /\ AllServed
    BY <1>1, <1>3, ForgottenStays DEF SetRuntimeInv
  <2> QED BY <1>1, <1>3, <2>1, OneStep, ServedStep
<1> QED BY <1>2, <1>3 DEF SetRuntimeInv
-----------------------------------------------------------------------------
(* The theorems *)

\* The inductive invariant holds in every state.
THEOREM SetRuntimeInvariant == Spec => []SetRuntimeInv
<1> QED BY SetRuntimeInvInit, SetRuntimeInvStep, PTL DEF Spec

\* The registry's two maps agree, and hold no runtime set that has ended, whatever
\* requests, late ends and lost signals do to them.
THEOREM RegistryStaysSound == Spec => []RegistrySound
<1>1. SetRuntimeInv => RegistrySound
  BY DEF SetRuntimeInv, BaseInv
<1> QED BY <1>1, SetRuntimeInvariant, PTL

\* The inventory in the holder's map always has someone who will have it removed,
\* unless its writer's request was answered 404 after taking access.
THEOREM InventoryHasOwner == Spec => []InventoryOwned
<1>1. SetRuntimeInv => InventoryOwned
  BY DEF SetRuntimeInv, BaseInv
<1> QED BY <1>1, SetRuntimeInvariant, PTL

\* Until the holder forgets an inventory in use, no listener waits for a writer that
\* is gone, but for one that gave up before it had a fetch.
THEOREM ListenersAreServed == Spec => []ListenersHaveWriter
<1>1. SetRuntimeInv => ListenersHaveWriter
  <2> SUFFICES ASSUME SetRuntimeInv, ~forgotten, NEW r \in Requests, fetch[r] = "listen"
               PROVE  /\ access[target[r]] # None
                      /\ access[target[r]] # None => Served(access[target[r]])
    BY DEF ListenersHaveWriter, Served, Writing
  <2>1. target[r] \in Requests /\ access[target[r]] # None
    BY DEF SetRuntimeInv, BaseInv, Fresh, Stages
  <2> QED BY <2>1 DEF SetRuntimeInv, AllServed
<1> QED BY <1>1, SetRuntimeInvariant, PTL

=============================================================================
