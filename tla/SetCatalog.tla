----------------------------- MODULE SetCatalog -----------------------------
(***************************************************************************)
(* The Redis catalogue of sets as searches fill it.                        *)
(*                                                                         *)
(* A BrickLink search result becomes a set with an id of its own           *)
(* (set.NewCoreFromBricklinkSearchItem).  ProcessSetItem looks the         *)
(* BrickLink id up in Redis, stores a new core where it finds none or one  *)
(* about to expire, fetches the details, and maps the slug to the set's    *)
(* id; the client opens the set by that id or by its slug.  Searches of    *)
(* the same set run side by side, in one process or in several.            *)
(*                                                                         *)
(* All writes go through redis.Set or redis.Transaction: a redsync lock    *)
(* with a lease, acquired in a bounded number of tries, then the commands, *)
(* then the release.  The commands of Transaction are a pipeline, not      *)
(* MULTI/EXEC: other clients' commands may come between them.              *)
(*                                                                         *)
(* Abstractions.  One set, one locale, one slug.  A core is "bare" until   *)
(* the BrickLink details are in, a cached locale is only there or not.     *)
(* Keys do not expire while searches run: their TTL is days, and one about *)
(* to end is what the threshold is for.                                    *)
(***************************************************************************)
EXTENDS Naturals, Sequences, FiniteSets

CONSTANTS
    Searches,       \* searches that come upon the set
    OldId,          \* the id of the set when it is in the catalogue already
    None,           \* no value, no holder
    MaxFaults,      \* bound: failed requests, commands and lock acquisitions
    MaxLapses,      \* bound: leases that end while their holder is alive
    MaxCrashes      \* bound: searches that stop with their process

ASSUME CatalogAssumption ==
    /\ MaxFaults \in Nat /\ MaxLapses \in Nat /\ MaxCrashes \in Nat
    /\ OldId \notin Searches
    /\ None \notin Searches \cup {OldId, "bare", "detailed", "stored"}

\* A search's new core has the id uuid.NewUUID gives it: the search itself.
Ids == Searches \cup {OldId}

\* set:bricklink:<id>, set:slug:<slug>, set:<id> and set:<id>:<locale>
BricklinkKey == <<"bricklink">>
SlugKey == <<"slug">>
CoreKey(i) == <<"core", i>>
LocaleKey(i) == <<"locale", i>>
Keys == {BricklinkKey, SlugKey} \cup {CoreKey(i) : i \in Ids} \cup {LocaleKey(i) : i \in Ids}
Values == Ids \cup {"bare", "detailed", "stored", None}

VARIABLES
    redis,      \* the value of each key
    low,        \* whether the old core is about to expire
    locks,      \* the holder of each key's lock
    search,     \* the state of each search
    faults, lapses, crashes     \* what is left of the bounds

vars == <<redis, low, locks, search, faults, lapses, crashes>>

Idle == [pc |-> "get", id |-> None, cached |-> FALSE,
         lock |-> None, script |-> <<>>, next |-> "get"]

Empty == [k \in Keys |-> None]

\* The catalogue knows nothing of the set, or has it from an earlier search,
\* with its details, with or without a price and a slug.
Init ==
    /\ \/ redis = Empty /\ low = FALSE
       \/ \E price \in {None, "stored"}, slug \in {None, OldId} :
            /\ redis = [Empty EXCEPT ![BricklinkKey] = OldId, ![CoreKey(OldId)] = "detailed",
                                     ![LocaleKey(OldId)] = price, ![SlugKey] = slug]
            /\ low \in BOOLEAN
    /\ locks = [k \in Keys |-> None]
    /\ search = [p \in Searches |-> Idle]
    /\ faults = MaxFaults /\ lapses = MaxLapses /\ crashes = MaxCrashes

Goto(p, pc) == search' = [search EXCEPT ![p].pc = pc]

Fault == faults > 0 /\ faults' = faults - 1

----------------------------------------------------------------------------
(***************************************************************************)
(* redis/crud.go and redis/lock.go                                         *)
(***************************************************************************)
\* The search of the record s begins a locked write and then goes to next.
LockedWrite(s, lock, script, next) ==
    [s EXCEPT !.pc = "lock", !.lock = lock, !.script = script, !.next = next]

\* A fault: whoever finds the lock taken waits until it is free.
LockForever(p) ==
    /\ search[p].pc = "lock" /\ locks[search[p].lock] = None
    /\ locks' = [locks EXCEPT ![search[p].lock] = p]
    /\ Goto(p, "write")
    /\ UNCHANGED <<redis, low, faults, lapses, crashes>>

\* A lock is free, or the tries run out while another holds it, or Redis
\* fails.  Only the slug may go without its write.
Lock(p) ==
    LET s == search[p]
    IN  /\ s.pc = "lock"
        /\ \/ /\ locks[s.lock] = None
              /\ locks' = [locks EXCEPT ![s.lock] = p]
              /\ Goto(p, "write") /\ UNCHANGED faults
           \/ /\ locks[s.lock] # None \/ faults > 0
              /\ faults' = IF locks[s.lock] # None THEN faults ELSE faults - 1
              /\ Goto(p, IF s.next = "answered" THEN "answered" ELSE "failed")
              /\ UNCHANGED locks
    /\ UNCHANGED <<redis, low, lapses, crashes>>

\* One command of the operation; the pipeline stops where the connection fails.
Write(p) ==
    LET s == search[p]
    IN  /\ s.pc = "write"
        /\ \/ /\ redis' = [redis EXCEPT ![s.script[1].key] = s.script[1].value]
              /\ search' = [search EXCEPT ![p].script = Tail(@),
                                          ![p].pc = IF Len(s.script) = 1 THEN "unlock" ELSE @]
              /\ UNCHANGED faults
           \/ /\ Fault
              /\ search' = [search EXCEPT ![p].script = <<>>, ![p].pc = "unlock",
                                          ![p].next = IF @ = "answered" THEN @ ELSE "failed"]
              /\ UNCHANGED redis
        /\ UNCHANGED <<low, locks, lapses, crashes>>

\* The release leaves a lock alone that is no longer its own.
Unlock(p) ==
    LET s == search[p]
    IN  /\ s.pc = "unlock"
        /\ locks' = [locks EXCEPT ![s.lock] = IF @ = p THEN None ELSE @]
        /\ Goto(p, s.next)
        /\ UNCHANGED <<redis, low, faults, lapses, crashes>>

\* A lease ends, under a holder that is slow or one that is gone.
LeaseEnds(k) ==
    /\ locks[k] # None
    /\ IF search[locks[k]].pc = "crashed" THEN UNCHANGED lapses
       ELSE lapses > 0 /\ lapses' = lapses - 1
    /\ locks' = [locks EXCEPT ![k] = None]
    /\ UNCHANGED <<redis, low, search, faults, crashes>>

Command(k, v) == [key |-> k, value |-> v]

\* RedisSetCoreForBricklinkID: the mapping and the bare core, under the core's
\* lock.
StoreNewCore(p) ==
    search' = [search EXCEPT ![p] = LockedWrite([@ EXCEPT !.id = p, !.cached = FALSE],
                CoreKey(p), <<Command(BricklinkKey, p), Command(CoreKey(p), "bare")>>, "details")]

\* A request or a command fails, and the item with it.
Fails(p) == Fault /\ Goto(p, "failed")

\* RedisGetLocaleByBricklinkID reads the mapping ...
GetMapping(p) ==
    /\ search[p].pc = "get"
    /\ \/ /\ IF redis[BricklinkKey] = None THEN StoreNewCore(p)
             ELSE search' = [search EXCEPT ![p].pc = "mget", ![p].id = redis[BricklinkKey]]
          /\ UNCHANGED faults
       \/ Fails(p)
    /\ UNCHANGED <<redis, low, locks, lapses, crashes>>

\* ... then core and locale in one command; a mapping without its core is
\* taken for stale ...
GetCoreAndLocale(p) ==
    LET s == search[p]
    IN  /\ s.pc = "mget"
        /\ \/ /\ IF redis[CoreKey(s.id)] = None THEN StoreNewCore(p)
                 ELSE search' = [search EXCEPT ![p].pc = "ttl",
                                               ![p].cached = redis[LocaleKey(s.id)] # None]
              /\ UNCHANGED faults
           \/ Fails(p)
        /\ UNCHANGED <<redis, low, locks, lapses, crashes>>

\* ... then how long the core has left.  A set about to expire is replaced; a
\* cached price that is no longer fresh is fetched again.
GetTTL(p) ==
    LET s == search[p]
    IN  /\ s.pc = "ttl"
        /\ \/ /\ IF s.id = OldId /\ low THEN Goto(p, "delete")
                 ELSE \/ s.cached /\ Goto(p, "answered")
                      \/ Goto(p, "details")
              /\ UNCHANGED faults
           \/ Fails(p)
        /\ UNCHANGED <<redis, low, locks, lapses, crashes>>

\* A fault: the refresh stores its new core under the id the set has.
DeleteMappingKeepsId(p) ==
    LET i == search[p].id
    IN  /\ search[p].pc = "delete"
        /\ redis' = [redis EXCEPT ![BricklinkKey] = None]
        /\ search' = [search EXCEPT ![p] = LockedWrite(@, CoreKey(i),
                <<Command(BricklinkKey, i), Command(CoreKey(i), "bare")>>, "details")]
        /\ UNCHANGED <<low, locks, faults, lapses, crashes>>

\* MustDelete of the mapping, whose failure does not count, then a new core under
\* a new id.
DeleteMapping(p) ==
    /\ search[p].pc = "delete"
    /\ \/ redis' = [redis EXCEPT ![BricklinkKey] = None] /\ UNCHANGED faults
       \/ Fault /\ UNCHANGED redis
    /\ StoreNewCore(p)
    /\ UNCHANGED <<low, locks, lapses, crashes>>

\* A fault: the details are kept in the result and not in Redis.
FetchBricklinkDetailsUnstored(p) ==
    /\ search[p].pc = "details"
    /\ Goto(p, "lego")
    /\ UNCHANGED <<redis, low, locks, faults, lapses, crashes>>

\* FetchBricklinkDetails stores the core with its details, or fails the item.
FetchBricklinkDetails(p) ==
    LET i == search[p].id
    IN  /\ search[p].pc = "details"
        /\ \/ /\ search' = [search EXCEPT ![p] =
                    LockedWrite(@, CoreKey(i), <<Command(CoreKey(i), "detailed")>>, "lego")]
              /\ UNCHANGED faults
           \/ Fails(p)
        /\ UNCHANGED <<redis, low, locks, lapses, crashes>>

\* FetchLegoProductDetails: the product, with core and locale stored; not
\* found, with the locale stored; or an error that does not count.
FetchLegoProductDetails(p) ==
    LET i == search[p].id
    IN  /\ search[p].pc = "lego"
        /\ \/ search' = [search EXCEPT ![p] = LockedWrite(@, CoreKey(i),
                    <<Command(CoreKey(i), "detailed"), Command(LocaleKey(i), "stored")>>, "slug")]
           \/ search' = [search EXCEPT ![p] = LockedWrite(@, LocaleKey(i),
                    <<Command(LocaleKey(i), "stored")>>, "slug")]
           \/ Goto(p, "slug")
        /\ UNCHANGED <<redis, low, locks, faults, lapses, crashes>>

\* RedisSetSetIDForSlug, then the result goes to the client.
StoreSlug(p) ==
    /\ search[p].pc = "slug"
    /\ search' = [search EXCEPT ![p] =
            LockedWrite(@, SlugKey, <<Command(SlugKey, search[p].id)>>, "answered")]
    /\ UNCHANGED <<redis, low, locks, faults, lapses, crashes>>

\* The process of a search ends under it.
Crash(p) ==
    /\ crashes > 0 /\ search[p].pc \notin {"answered", "failed", "crashed"}
    /\ crashes' = crashes - 1
    /\ Goto(p, "crashed")
    /\ UNCHANGED <<redis, low, locks, faults, lapses>>

Step(p) ==
    \/ Lock(p) \/ Write(p) \/ Unlock(p)
    \/ GetMapping(p) \/ GetCoreAndLocale(p) \/ GetTTL(p) \/ DeleteMapping(p)
    \/ FetchBricklinkDetails(p) \/ FetchLegoProductDetails(p) \/ StoreSlug(p)

Next ==
    \/ \E p \in Searches : Step(p) \/ Crash(p)
    \/ \E k \in Keys : LeaseEnds(k)

Spec == Init /\ [][Next]_vars

\* Every request and every Redis call returns, with an answer or an error
\* (HTTP timeouts, a bounded number of tries for a lock).
FairSpec == Spec /\ \A p \in Searches : WF_vars(Step(p))

----------------------------------------------------------------------------
(***************************************************************************)
(* Properties                                                              *)
(***************************************************************************)
SearchStates ==
    [pc : {"get", "mget", "ttl", "delete", "lock", "write", "unlock",
           "details", "lego", "slug", "answered", "failed", "crashed"},
     id : Ids \cup {None}, cached : BOOLEAN, lock : Keys \cup {None},
     script : Seq([key : Keys, value : Values]),
     next : {"get", "details", "lego", "slug", "answered", "failed"}]

\* The state stays within its types.
TypeOK ==
    /\ redis \in [Keys -> Values]
    /\ low \in BOOLEAN
    /\ locks \in [Keys -> Searches \cup {None}]
    /\ search \in [Searches -> SearchStates]
    /\ faults \in 0..MaxFaults /\ lapses \in 0..MaxLapses /\ crashes \in 0..MaxCrashes

\* The set a client was answered stays in the catalogue with its details,
\* whatever searches beside it store, replace, leave half done or overwrite
\* (the refresh deletes a mapping, never a core).
AnsweredIsStored ==
    \A p \in Searches : search[p].pc = "answered" => redis[CoreKey(search[p].id)] = "detailed"

\* Whoever opens the slug gets a set whose core is stored with its details.
SlugOpensSet ==
    redis[SlugKey] # None => redis[CoreKey(redis[SlugKey])] = "detailed"

\* A mapping without its core lasts no longer than the transaction that
\* stores both, unless that transaction was cut short.
MappingHasCore ==
    LET i == redis[BricklinkKey]
    IN  i # None /\ redis[CoreKey(i)] = None =>
            \/ faults < MaxFaults \/ crashes < MaxCrashes
            \/ \E p \in Searches : search[p].pc = "write" /\ search[p].id = i

\* What is in the catalogue opens: nothing is mapped or answered without its core.
CatalogSound == TypeOK /\ AnsweredIsStored /\ MappingHasCore

\* Every search ends, also when another ended with the lock it waits for.
SearchesEnd ==
    \A p \in Searches : <>(search[p].pc \in {"answered", "failed", "crashed"})

(***************************************************************************)
(* What a comment says and the code does not do                            *)
(***************************************************************************)
\* "Uses distributed locking to ensure only one UUID is generated per slug
\* across concurrent requests" (set/slug.go): all searches answer one id.
OneIdPerSlug ==
    \A p, q \in Searches :
        search[p].pc = "answered" /\ search[q].pc = "answered" => search[p].id = search[q].id

\* "Transaction executes multiple Redis operations atomically using a
\* pipeline" (redis/crud.go): nobody sees the mapping without the core.
PairIsAtomic ==
    \A p \in Searches : search[p].pc = "mget" =>
        \/ redis[CoreKey(search[p].id)] # None
        \/ faults < MaxFaults \/ crashes < MaxCrashes
=============================================================================
