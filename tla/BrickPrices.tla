---------------------------- MODULE BrickPrices ----------------------------
(***************************************************************************)
(* How the bricks of the runtime sets get their prices.                    *)
(*                                                                         *)
(* A runtime set either reads the inventory itself (a writer) or listens   *)
(* to the inventory another runtime set of the same LEGO set reads, in     *)
(* another locale.  Its bricks then wait in BricksHandler.missing until    *)
(* the price phase, where one job per design resolves them: Redis first,   *)
(* one Pick-a-Brick request for the whole design, one per element, and     *)
(* the other elements of the same part and colour last.  The jobs of all   *)
(* runtime sets share the Redis entries brick:<element>:<locale>.          *)
(*                                                                         *)
(* Abstractions.  A price is its locale, its element and its amount, with  *)
(* amount 0 for an answer "not found"; names, images, colours and          *)
(* availability are left out.  An outdated price and no price behave alike *)
(* in every function modelled here (allowOutdated is always FALSE), so     *)
(* both are None.  Pick-a-Brick answers are fixed for a behaviour and      *)
(* their amounts are positive.  A Rebrickable line carries at most one     *)
(* element and always a design (brick/rebrickable.go).  The pool that runs *)
(* jobs and hands their results to one collector is module WorkerPool; a   *)
(* job's result is here merged in one action, like a batch.                *)
(***************************************************************************)
EXTENDS Naturals, FiniteSets

CONSTANTS
    Sets,           \* the runtime sets
    Bricks,         \* the inventory lines (their UUIDs)
    Elements,       \* element ids
    Designs,        \* design ids
    Locales,        \* languages of the requests
    None,           \* no element, no price
    InventoryOf,    \* the bricks of each runtime set
    WriterOf,       \* who reads the inventory for it: itself, or the set it listens to
    LocaleOf,       \* the locale of each runtime set
    ElementOf,      \* the element of each brick, or None
    DesignOf,       \* the design of each brick and of each element
    PartColor,      \* the elements Rebrickable knows for the part and colour of an element
    Custom,         \* the bricks that are not sold
    Quantity,       \* how many pieces an inventory line stands for
    Offers,         \* bound: what Pick-a-Brick may answer, [Elements -> [Locales -> amount]]
    Stored,         \* bound: what Redis may hold from earlier fetches
    Running,        \* bound: the runtime sets that may exist together
    MaxCents,       \* bound: the highest amount
    MaxFaults       \* bound: failed requests and failed writes of a behaviour

Prices == [loc : Locales, item : Elements, cents : 0..MaxCents]

ASSUME PricesAssumption ==
    /\ MaxCents \in Nat \ {0} /\ MaxFaults \in Nat
    /\ IsFiniteSet(Bricks)
    /\ InventoryOf \in [Sets -> SUBSET Bricks]
    /\ WriterOf \in [Sets -> Sets]
    /\ LocaleOf \in [Sets -> Locales]
    /\ ElementOf \in [Bricks -> Elements \cup {None}]
    /\ DesignOf \in [Bricks \cup Elements -> Designs]
    /\ PartColor \in [Elements -> SUBSET Elements]
    /\ Custom \subseteq Bricks
    /\ Quantity \in [Bricks -> Nat \ {0}]
    /\ Offers \subseteq [Elements -> [Locales -> 0..MaxCents]]
    /\ \A c \in Stored : c \in [Elements -> [Locales -> {None} \cup (0..MaxCents)]]
    /\ Running \subseteq SUBSET Sets
    /\ None \notin Elements \cup Locales \cup Prices
    /\ \A s \in Sets : /\ WriterOf[WriterOf[s]] = WriterOf[s]
                       /\ InventoryOf[s] = InventoryOf[WriterOf[s]]
    /\ \A b \in Bricks : ElementOf[b] = None => b \in Custom
    \* an element has one part and one colour, and Rebrickable is asked for those
    /\ \A e \in Elements : \A f \in PartColor[e] : PartColor[f] = PartColor[e]

VARIABLES
    running,    \* the runtime sets of this behaviour
    offer,      \* Pick-a-Brick: the amount asked for an element in a locale, 0 when unknown
    cache,      \* Redis: the price stored under an element and a locale
    mainId,     \* the element in the ID object all copies of an unpriced brick point to
    books,      \* per runtime set: its bricks, counters and progress
    shared,     \* per writer: the inventory it shares, its bricks and how far each one went
    ear,        \* per runtime set: where its inventory comes from, and its step as a listener
    inbox,      \* per runtime set: the bricks broadcast to it and not handled
    jobs,       \* per runtime set and design: the job of the price phase
    faults      \* failures left

vars == <<running, offer, cache, mainId, books, shared, ear, inbox, jobs, faults>>

Listener(s) == WriterOf[s] # s

(***************************************************************************)
(* Prices: utils/price.go and brick/locale.go.  A fresh not-found price is *)
(* valid, and with its amount of zero lower than every other.              *)
(***************************************************************************)
IsNotFound(p) == p # None /\ p.cents = 0
IsPriced(p) == p # None /\ p.cents > 0
HasValidPrice(p) == p # None
HasLowerPrice(p, q) == HasValidPrice(p) /\ (HasValidPrice(q) => p.cents < q.cents)

\* Locale.LoadFromRedis with mustLower: what the entry p is worth to a brick
\* priced q.
ValidEntry(p, q) == IsPriced(p) /\ HasLowerPrice(p, q)

Fault == faults > 0 /\ faults' = faults - 1

----------------------------------------------------------------------------
(***************************************************************************)
(* The runtime set's books                                                 *)
(***************************************************************************)
EmptyBook == [where |-> [b \in Bricks |-> "absent"],
              price |-> [b \in Bricks |-> None],
              phase |-> "inventory",
              missingParts |-> 0, total |-> 0, done |-> 0]

Missing(s) == {b \in InventoryOf[s] : books[s].where[b] = "missing"}
Final(s) == {b \in InventoryOf[s] : books[s].where[b] = "final"}

\* External.AddFinalBrickData
AddFinalBrickData(k, b) ==
    IF ~IsPriced(k.price[b]) \/ k.missingParts = 0 THEN k
    ELSE [k EXCEPT !.total = @ + k.price[b].cents * Quantity[b],
                   !.missingParts = @ - 1]

IncrementMissingParts(k) == [k EXCEPT !.missingParts = @ + 1]

\* One brick of batchHandlerBricksProgress while the inventory is read: it was
\* not missing before, and reuseMissingPartsCount is FALSE.
TakeBrick(k, b) ==
    LET taken == [k EXCEPT !.done = @ + 1]
        final == [taken EXCEPT !.where[b] = "final"]
        missing == [taken EXCEPT !.where[b] = "missing"]
    IN  IF b \in Custom \/ HasValidPrice(k.price[b])
        THEN IF IsNotFound(k.price[b]) THEN final
             ELSE IncrementMissingParts(AddFinalBrickData(final, b))
        ELSE IncrementMissingParts(missing)

\* What the bricks bs cost together at the prices p: how many cents there are.
Cents(p, bs) == Cardinality(UNION {{b} \X (1..(p[b].cents * Quantity[b])) : b \in bs})

Priced(p, bs) == {b \in bs : IsPriced(p[b])}

\* AddFinalBrickData in turn, for as long as there are missing parts: the bricks of
\* bs it counts, in whichever order they come.
Countable(missingParts, bs) ==
    {counted \in SUBSET bs : Cardinality(counted) =
        IF missingParts < Cardinality(bs) THEN missingParts ELSE Cardinality(bs)}

\* The bricks bs are there, with the prices p.
Entered(k, bs, p, where) ==
    [k EXCEPT !.where = [b \in Bricks |-> IF b \in bs THEN where[b] ELSE @[b]],
              !.price = [b \in Bricks |-> IF b \in bs THEN p[b] ELSE @[b]]]

\* A fault: a missing brick that gets its price is counted as missing again.
TakeBricksRecounts(k, bs, p, counted) ==
    LET where == [b \in bs |-> IF b \in Custom \/ HasValidPrice(p[b]) THEN "final" ELSE "missing"]
    IN  [Entered(k, bs, p, where) EXCEPT
            !.done = @ + Cardinality(bs),
            !.total = @ + Cents(p, counted)]

\* A batch of batchHandlerBricksProgress in the price phase: its bricks were missing,
\* and reuseMissingPartsCount is TRUE.
TakeBricks(k, bs, p, counted) ==
    LET where == [b \in bs |-> IF b \in Custom \/ HasValidPrice(p[b]) THEN "final" ELSE "missing"]
    IN  [Entered(k, bs, p, where) EXCEPT
            !.done = @ + Cardinality(bs),
            !.missingParts = @ - Cardinality(counted),
            !.total = @ + Cents(p, counted)]

\* A batch of batchHandlerListenProgress
HearBricks(k, bs, p) ==
    [Entered(k, bs, p, [b \in bs |-> "missing"]) EXCEPT !.missingParts = @ + Cardinality(bs)]

----------------------------------------------------------------------------
(***************************************************************************)
(* The inventory phase                                                     *)
(***************************************************************************)
IdleJob == [pc |-> "none", group |-> {}, todo |-> {}, pending |-> {},
            price |-> [b \in Bricks |-> None],
            brick |-> None, element |-> None, store |-> None, offers |-> {}, siblings |-> {}]

Init ==
    /\ running \in Running
    /\ offer \in Offers
    /\ \E c \in Stored : cache = [e \in Elements |-> [l \in Locales |->
            IF c[e][l] = None THEN None ELSE [loc |-> l, item |-> e, cents |-> c[e][l]]]]
    /\ mainId = ElementOf
    /\ shared = [s \in Sets |-> [step |-> [b \in Bricks |-> "none"],
                                 price |-> [b \in Bricks |-> None]]]
    /\ ear \in [Sets -> {"out", "writer", "cached"}]
    /\ \A s \in Sets : /\ Listener(s) <=> ear[s] = "out"
                       /\ ear[s] = "cached" => s \in running /\ \A q \in running : WriterOf[q] = s => q = s
    /\ books = [s \in Sets |-> [EmptyBook EXCEPT !.missingParts =
            IF ear[s] = "cached" THEN Cardinality(InventoryOf[s]) ELSE 0]]
    /\ inbox = [s \in Sets |-> {}]
    /\ jobs = [s \in Sets |-> [d \in Designs |-> IdleJob]]
    /\ faults = MaxFaults

\* What Redis holds under an element, if the brick has one
Entry(e, l) == IF e = None THEN None ELSE cache[e][l]

\* The worker of fetchInventory: an inventory line becomes a brick, priced by
\* Redis where it can.
InventoryRead(s, b) ==
    /\ ear[s] = "writer" /\ b \in InventoryOf[s]
    /\ books[s].where[b] = "absent"
    /\ books' = [books EXCEPT ![s].where[b] = "read",
                              ![s].price[b] = Entry(ElementOf[b], LocaleOf[s])]
    /\ UNCHANGED <<offer, cache, mainId, shared, ear, inbox, jobs, faults>>

\* The batch handler takes the brick and Inventory.write merges it.
InventoryTake(s, b) ==
    /\ books[s].where[b] = "read"
    /\ books' = [books EXCEPT ![s] = TakeBrick(@, b)]
    /\ shared' = [shared EXCEPT ![s].step[b] = "merged", ![s].price[b] = books[s].price[b]]
    /\ UNCHANGED <<offer, cache, mainId, ear, inbox, jobs, faults>>

\* Inventory.write then broadcasts it to the listeners registered by now.
InventoryBroadcast(s, b) ==
    /\ shared[s].step[b] = "merged"
    /\ shared' = [shared EXCEPT ![s].step[b] = "sent"]
    /\ inbox' = [q \in Sets |-> IF WriterOf[q] = s /\ ear[q] \in {"registered", "listening"}
                                  THEN inbox[q] \cup {b} ELSE inbox[q]]
    /\ UNCHANGED <<offer, cache, mainId, books, ear, jobs, faults>>

\* checkSetDataValidity: a set whose inventory is cached counts all its bricks
\* as missing and takes each one CheckBrickCache finds an answer for.
CheckBrick(s, b) ==
    /\ ear[s] = "cached" /\ b \in InventoryOf[s]
    /\ books[s].where[b] = "absent"
    /\ LET p == IF b \in Custom THEN None ELSE Entry(ElementOf[b], LocaleOf[s])
           k == [books[s] EXCEPT !.price[b] = p,
                    !.where[b] = IF b \in Custom \/ p # None THEN "final" ELSE "missing"]
       IN  books' = [books EXCEPT ![s] = AddFinalBrickData(k, b)]
    /\ UNCHANGED <<offer, cache, mainId, shared, ear, inbox, jobs, faults>>

Merged(s) == {b \in InventoryOf[s] : shared[s].step[b] # "none"}
InventoryDone(s) == \A b \in InventoryOf[s] : shared[s].step[b] = "sent"

\* Inventory.listen appends its channel to the listeners ...
ListenerRegister(s) ==
    /\ ear[s] = "out"
    /\ ear' = [ear EXCEPT ![s] = "registered"]
    /\ UNCHANGED <<offer, cache, mainId, books, shared, inbox, jobs, faults>>

\* ... handles what the inventory holds, under the writer's lock ...
ListenerSnapshot(s) ==
    /\ ear[s] = "registered"
    /\ ear' = [ear EXCEPT ![s] = "listening"]
    /\ books' = [books EXCEPT ![s] =
            HearBricks(@, Merged(WriterOf[s]), shared[WriterOf[s]].price)]
    /\ UNCHANGED <<offer, cache, mainId, shared, inbox, jobs, faults>>

\* ... then the batches of its channel ...
ListenerHear(s, b) ==
    /\ ear[s] = "listening" /\ b \in inbox[s]
    /\ inbox' = [inbox EXCEPT ![s] = @ \ {b}]
    /\ books' = [books EXCEPT ![s] = HearBricks(@, {b}, shared[WriterOf[s]].price)]
    /\ UNCHANGED <<offer, cache, mainId, shared, ear, jobs, faults>>

\* ... until the inventory is done, whatever the channel still holds.
\* FetchSetIncomplete adds the bricks it did not hear of.
ListenerReturn(s) ==
    /\ ear[s] = "listening" /\ InventoryDone(WriterOf[s])
    /\ ear' = [ear EXCEPT ![s] = "returned"]
    /\ inbox' = [inbox EXCEPT ![s] = {}]
    /\ LET unheard == InventoryOf[s] \ Missing(s)
       IN  books' = [books EXCEPT ![s] =
                Entered(@, unheard, shared[WriterOf[s]].price, [b \in unheard |-> "missing"])]
    /\ UNCHANGED <<offer, cache, mainId, shared, jobs, faults>>

----------------------------------------------------------------------------
(***************************************************************************)
(* The price phase: fetchBricks and its jobs                               *)
(***************************************************************************)
\* groupBricksByDesign, and the progress that starts with the final bricks.
StartPrices(s) ==
    /\ books[s].phase = "inventory"
    /\ CASE ear[s] = "writer" -> InventoryDone(s)
         [] ear[s] = "cached" -> \A b \in InventoryOf[s] : books[s].where[b] # "absent"
         [] OTHER -> ear[s] = "returned"
    /\ books' = [books EXCEPT ![s].phase = "prices", ![s].done = Cardinality(Final(s))]
    /\ jobs' = [jobs EXCEPT ![s] = [d \in Designs |->
            LET group == {b \in Missing(s) : DesignOf[b] = d}
            IN  IF group = {} THEN IdleJob
                ELSE [IdleJob EXCEPT !.pc = "cache", !.group = group, !.todo = group,
                                     !.price = [b \in Bricks |-> IF b \in group
                                                    THEN books[s].price[b] ELSE None]]]]
    /\ UNCHANGED <<offer, cache, mainId, shared, ear, inbox, faults>>

\* The job of a runtime set and a design goes on as j.
JobBecomes(s, d, j) == jobs' = [jobs EXCEPT ![s][d] = j]

\* resolveBrickFromCache for one brick of the group
CachePass(s, d, b) ==
    LET j == jobs[s][d]
        p == Entry(ElementOf[b], LocaleOf[s])
        resolved == IsNotFound(p) \/ ValidEntry(p, j.price[b])
    IN  /\ j.pc = "cache" /\ b \in j.todo
        /\ JobBecomes(s, d, [j EXCEPT !.todo = @ \ {b},
                                      !.pending = IF resolved THEN @ ELSE @ \cup {b},
                                      !.price[b] = IF resolved THEN p ELSE @])
        /\ UNCHANGED <<offer, cache, mainId, books, shared, ear, inbox, faults>>

\* What FetchBricksByDesignID answers: the elements of the design with an offer.
Listed(d, l) == {e \in Elements : DesignOf[e] = d /\ offer[e][l] > 0}

\* PrefetchDesignBricks asks for them; an error leaves each brick to its own
\* request.
PrefetchAsk(s, d) ==
    LET j == jobs[s][d]
    IN  /\ j.pc = "cache" /\ j.todo = {}
        /\ \/ /\ j.pending # {}
              /\ JobBecomes(s, d, [j EXCEPT !.pc = "prefetch", !.offers = Listed(d, LocaleOf[s])])
              /\ UNCHANGED faults
           \/ /\ j.pending # {} /\ Fault
              /\ JobBecomes(s, d, [j EXCEPT !.pc = "bricks"])
           \/ /\ j.pending = {}
              /\ JobBecomes(s, d, [j EXCEPT !.pc = "bricks"])
              /\ UNCHANGED faults
        /\ UNCHANGED <<offer, cache, mainId, books, shared, ear, inbox>>

\* What FetchBricksByBrickID answers for one element.
Offer(e, l) == [loc |-> l, item |-> e, cents |-> offer[e][l]]

\* A fault: the answer replaces a lower price.
PrefetchReadOverwrites(s, d, e) ==
    LET j == jobs[s][d]
        l == LocaleOf[s]
        kept == IsNotFound(cache[e][l])
    IN  /\ j.pc = "prefetch" /\ e \in j.offers
        /\ JobBecomes(s, d, [j EXCEPT !.offers = @ \ {e},
                                      !.store = IF kept THEN None ELSE Offer(e, l),
                                      !.pc = IF kept THEN @ ELSE "prefetch_set"])
        /\ UNCHANGED <<offer, cache, mainId, books, shared, ear, inbox, faults>>

\* PrefetchDesignBricks looks at the entry of one element of the answer, and
\* stores the answer where it found nothing better (see Store).
PrefetchRead(s, d, e) ==
    LET j == jobs[s][d]
        l == LocaleOf[s]
        kept == IsNotFound(cache[e][l]) \/ ValidEntry(cache[e][l], Offer(e, l))
    IN  /\ j.pc = "prefetch" /\ e \in j.offers
        /\ JobBecomes(s, d, [j EXCEPT !.offers = @ \ {e},
                                      !.store = IF kept THEN None ELSE Offer(e, l),
                                      !.pc = IF kept THEN @ ELSE "prefetch_set"])
        /\ UNCHANGED <<offer, cache, mainId, books, shared, ear, inbox, faults>>

PrefetchEnd(s, d) ==
    /\ jobs[s][d].pc = "prefetch" /\ jobs[s][d].offers = {}
    /\ JobBecomes(s, d, [jobs[s][d] EXCEPT !.pc = "bricks"])
    /\ UNCHANGED <<offer, cache, mainId, books, shared, ear, inbox, faults>>

\* workerHandlerBrickPrice: the cache again ...
BrickLoad(s, d, b) ==
    LET j == jobs[s][d]
        p == Entry(ElementOf[b], LocaleOf[s])
        resolved == IsNotFound(p) \/ ValidEntry(p, j.price[b])
        asks == ElementOf[b] # None /\ ~resolved
    IN  /\ j.pc = "bricks" /\ b \in j.pending
        /\ JobBecomes(s, d, [j EXCEPT !.pending = @ \ {b},
                                      !.price[b] = IF resolved THEN p ELSE @,
                                      !.pc = IF asks THEN "fetch" ELSE @,
                                      !.brick = IF asks THEN b ELSE @,
                                      !.element = IF asks THEN ElementOf[b] ELSE @])
        /\ UNCHANGED <<offer, cache, mainId, books, shared, ear, inbox, faults>>

\* A fault: the brick is stored as it is, with the lower price it came with.
FetchStoresBrick(s, d) ==
    LET j == jobs[s][d]
        new == Offer(j.element, LocaleOf[s])
        price == IF HasLowerPrice(j.price[j.brick], new) THEN j.price[j.brick] ELSE new
    IN  /\ j.pc \in {"fetch", "sibling_fetch"} /\ new.cents > 0
        /\ JobBecomes(s, d, [j EXCEPT !.pc = IF @ = "fetch" THEN "fetch_set" ELSE "sibling_set",
                                      !.store = price, !.price[j.brick] = price])
        /\ UNCHANGED <<offer, cache, mainId, books, shared, ear, inbox, faults>>

\* Locale.Fetch: an error; an answer without the element; not found, which is
\* stored through a copy that shares the brick's ID object; or a price, which
\* is stored unless the brick has a lower one.
Fetch(s, d) ==
    LET j == jobs[s][d]
        own == j.pc = "fetch"
        b == j.brick
        new == Offer(j.element, LocaleOf[s])
        lower == HasLowerPrice(j.price[b], new)
        next == IF own THEN "bricks" ELSE "sibling"
        after == IF own THEN "fetch_set" ELSE "sibling_set"
    IN  /\ j.pc \in {"fetch", "sibling_fetch"}
        /\ \/ /\ Fault
              /\ JobBecomes(s, d, [j EXCEPT !.pc = next])
              /\ UNCHANGED mainId
           \/ /\ new.cents = 0 \/ lower
              /\ JobBecomes(s, d, [j EXCEPT !.pc = next])
              /\ UNCHANGED <<mainId, faults>>
           \/ /\ new.cents = 0
              /\ mainId' = [mainId EXCEPT ![b] = IF j.price[b] = None THEN j.element ELSE @]
              /\ JobBecomes(s, d, [j EXCEPT !.pc = after, !.store = new])
              /\ UNCHANGED faults
           \/ /\ new.cents > 0 /\ ~lower
              /\ JobBecomes(s, d, [j EXCEPT !.pc = after, !.store = new,
                                            !.price[b] = new])
              /\ UNCHANGED <<mainId, faults>>
        /\ UNCHANGED <<offer, cache, books, shared, ear, inbox>>

\* GetElementID of what is stored.  A brick that is not found is stored as a copy that
\* shares the ID object, in which another runtime set may have put another element
\* by now.
KeyOf(j) ==
    IF j.pc # "prefetch_set" /\ IsNotFound(j.store) /\ j.price[j.brick] = None
      THEN mainId[j.brick]
      ELSE j.store.item

\* RedisSetLocale: the answer goes under the element of its ID object, or the write
\* fails and is only logged.
Store(s, d) ==
    LET j == jobs[s][d]
    IN  /\ j.pc \in {"prefetch_set", "fetch_set", "sibling_set"}
        /\ \/ /\ cache' = [cache EXCEPT ![KeyOf(j)][LocaleOf[s]] = j.store]
              /\ UNCHANGED faults
           \/ Fault /\ UNCHANGED cache
        /\ JobBecomes(s, d, [j EXCEPT !.store = None,
                !.pc = CASE j.pc = "prefetch_set" -> "prefetch"
                         [] j.pc = "fetch_set" -> "bricks"
                         [] j.pc = "sibling_set" -> IF j.store.cents > 0 THEN "alias" ELSE "sibling"])
        /\ UNCHANGED <<offer, mainId, books, shared, ear, inbox>>

\* A fault: the fallback is for bricks answered not found only.
UnpricedNotFound(j) == {b \in j.todo : b \notin Custom /\ IsNotFound(j.price[b])}

\* The bricks of a job the sibling fallback is for
Unpriced(j) == {b \in j.todo : b \notin Custom /\ ~HasValidPrice(j.price[b])}

BricksEnd(s, d) ==
    /\ jobs[s][d].pc = "bricks" /\ jobs[s][d].pending = {}
    /\ JobBecomes(s, d, [jobs[s][d] EXCEPT !.pc = "siblings", !.todo = jobs[s][d].group])
    /\ UNCHANGED <<offer, cache, mainId, books, shared, ear, inbox, faults>>

\* resolveViaAlternateElements: the elements of the part and colour but the
\* brick's own, or an error, which leaves the brick as it is ...
SiblingsAsk(s, d, b) ==
    LET j == jobs[s][d]
    IN  /\ j.pc = "siblings" /\ b \in Unpriced(j)
        /\ \/ /\ JobBecomes(s, d, [j EXCEPT !.todo = @ \ {b}, !.brick = b,
                                            !.pc = "sibling",
                                            !.siblings = PartColor[ElementOf[b]] \ {ElementOf[b]}])
              /\ UNCHANGED faults
           \/ Fault /\ JobBecomes(s, d, [j EXCEPT !.todo = @ \ {b}])
        /\ UNCHANGED <<offer, cache, mainId, books, shared, ear, inbox>>

\* ... each from Redis, where a price ends the search, or by a request.
SiblingLoad(s, d, e) ==
    LET j == jobs[s][d]
        p == cache[e][LocaleOf[s]]
        found == ValidEntry(p, j.price[j.brick])
    IN  /\ j.pc = "sibling" /\ e \in j.siblings
        /\ JobBecomes(s, d, [j EXCEPT !.siblings = @ \ {e},
                                      !.element = e,
                                      !.price[j.brick] = IF found THEN p ELSE @,
                                      !.pc = IF found THEN "alias" ELSE "sibling_fetch"])
        /\ UNCHANGED <<offer, cache, mainId, books, shared, ear, inbox, faults>>

SiblingsEnd(s, d) ==
    /\ jobs[s][d].pc = "sibling" /\ jobs[s][d].siblings = {}
    /\ JobBecomes(s, d, [jobs[s][d] EXCEPT !.pc = "siblings"])
    /\ UNCHANGED <<offer, cache, mainId, books, shared, ear, inbox, faults>>

\* aliasResolvedLocale: the sibling's price goes under the brick's own element.
Alias(s, d) ==
    LET j == jobs[s][d]
        p == j.price[j.brick]
        own == ElementOf[j.brick]
    IN  /\ j.pc = "alias"
        /\ \/ /\ cache' = [cache EXCEPT ![own][LocaleOf[s]] = IF p.item = own THEN @ ELSE p]
              /\ UNCHANGED faults
           \/ p.item # own /\ Fault /\ UNCHANGED cache
        /\ JobBecomes(s, d, [j EXCEPT !.pc = "siblings"])
        /\ UNCHANGED <<offer, mainId, books, shared, ear, inbox>>

\* The job's bricks reach the batch handler.
Deliver(s, d) ==
    LET j == jobs[s][d]
    IN  /\ j.pc = "siblings" /\ Unpriced(j) = {}
        /\ JobBecomes(s, d, [IdleJob EXCEPT !.pc = "done"])
        /\ \E counted \in Countable(books[s].missingParts, Priced(j.price, j.group)) :
              books' = [books EXCEPT ![s] = TakeBricks(@, j.group, j.price, counted)]
        /\ UNCHANGED <<offer, cache, mainId, shared, ear, inbox, faults>>

PricesEnd(s) ==
    /\ books[s].phase = "prices"
    /\ \A d \in Designs : jobs[s][d].pc \in {"none", "done"}
    /\ books' = [books EXCEPT ![s].phase = "done"]
    /\ UNCHANGED <<offer, cache, mainId, shared, ear, inbox, jobs, faults>>

JobStep(s, d) ==
    \/ \E b \in Bricks : CachePass(s, d, b) \/ BrickLoad(s, d, b) \/ SiblingsAsk(s, d, b)
    \/ \E e \in Elements : PrefetchRead(s, d, e) \/ SiblingLoad(s, d, e)
    \/ PrefetchAsk(s, d) \/ PrefetchEnd(s, d) \/ BricksEnd(s, d)
    \/ Fetch(s, d) \/ Store(s, d) \/ SiblingsEnd(s, d) \/ Alias(s, d) \/ Deliver(s, d)

Next ==
  /\ UNCHANGED running
  /\ \E s \in running :
        \/ \E b \in Bricks : \/ InventoryRead(s, b) \/ InventoryTake(s, b)
                             \/ InventoryBroadcast(s, b) \/ ListenerHear(s, b)
                             \/ CheckBrick(s, b)
        \/ ListenerRegister(s) \/ ListenerSnapshot(s) \/ ListenerReturn(s)
        \/ StartPrices(s) \/ PricesEnd(s)
        \/ \E d \in Designs : JobStep(s, d)

Spec == Init /\ [][Next]_vars

----------------------------------------------------------------------------
(***************************************************************************)
(* Properties                                                              *)
(***************************************************************************)
Price == {None} \cup Prices

BookType ==
    [where : [Bricks -> {"absent", "read", "missing", "final"}],
     price : [Bricks -> Price], phase : {"inventory", "prices", "done"},
     missingParts : Nat, total : Nat, done : Nat]

JobType ==
    [pc : {"none", "cache", "prefetch", "prefetch_set", "bricks", "fetch", "fetch_set",
           "siblings", "sibling", "sibling_fetch", "sibling_set", "alias", "done"},
     group : SUBSET Bricks, todo : SUBSET Bricks, pending : SUBSET Bricks,
     price : [Bricks -> Price], brick : Bricks \cup {None},
     element : Elements \cup {None}, store : Price,
     offers : SUBSET Elements, siblings : SUBSET Elements]

\* The state stays within its types.
TypeOK ==
    /\ running \subseteq Sets
    /\ offer \in [Elements -> [Locales -> 0..MaxCents]]
    /\ cache \in [Elements -> [Locales -> Price]]
    /\ mainId \in [Bricks -> Elements \cup {None}]
    /\ books \in [Sets -> BookType]
    /\ shared \in [Sets -> [step : [Bricks -> {"none", "merged", "sent"}],
                            price : [Bricks -> Price]]]
    /\ ear \in [Sets -> {"writer", "cached", "out", "registered", "listening", "returned"}]
    /\ inbox \in [Sets -> SUBSET Bricks]
    /\ jobs \in [Sets -> [Designs -> JobType]]
    /\ faults \in 0..MaxFaults

\* Elements of one part and colour, as far as Rebrickable knows them.
Kin(e, f) == e = f \/ PartColor[e] \cap PartColor[f] # {}

\* What Redis holds for an element and a locale is an answer for that locale, and
\* for the element or another one of its part and colour: whatever the bricks
\* carried that the jobs worked on, and although the jobs of several runtime sets
\* change the ID object a not-found is stored by (locale_redis.go, pickabrick.go,
\* aliasResolvedLocale).
EntriesBelong ==
    /\ TypeOK
    /\ \A e \in Elements, l \in Locales :
          LET p == cache[e][l] IN p # None => p.loc = l /\ Kin(e, p.item)

\* A runtime set that is done has every brick of its inventory among the final
\* or the missing ones, and its progress counts each of them once
\* (workerHandlerDesignPrices keeps unresolved bricks for that reason).
EachBrickOnce ==
    \A s \in Sets :
        /\ books[s].done <= Cardinality(InventoryOf[s])
        /\ books[s].phase = "done" => /\ Missing(s) \cup Final(s) = InventoryOf[s]
                                      /\ books[s].done = Cardinality(InventoryOf[s])

\* The writer's totals stay tied to its bricks: the total is the price of some
\* of the final bricks, and the others it took are the missing parts, but for
\* bricks not found (AddFinalBrickData, IncrementMissingParts).
TotalsTied ==
    \A s \in Sets : ~Listener(s) =>
        LET taken == IF ear[s] = "cached" THEN InventoryOf[s] ELSE Missing(s) \cup Final(s)
            notFound == {b \in Final(s) : IsNotFound(books[s].price[b])}
            priced == Priced(books[s].price, Final(s))
        IN  \E counted \in SUBSET priced :
                /\ books[s].total = Cents(books[s].price, counted)
                /\ Cardinality(priced \ counted) <= 1
                /\ books[s].missingParts <= Cardinality(taken \ counted)
                /\ books[s].missingParts >= Cardinality((taken \ counted) \ notFound)

\* The books of a runtime set are right: each brick is counted once, and the
\* totals follow the bricks.
CountedOnce == EachBrickOnce /\ TotalsTied

\* A brick that Pick-a-Brick sells, under its own element or another of its
\* part and colour, is final once its prices were fetched without a failure.
SoldIsFinal ==
    \A s \in Sets : books[s].phase = "done" /\ faults = MaxFaults =>
        \A b \in InventoryOf[s] :
            (ElementOf[b] # None /\ \E e \in PartColor[ElementOf[b]] \cup {ElementOf[b]} :
                                        offer[e][LocaleOf[s]] > 0)
            => b \in Final(s)

\* While the offers stand, no write of a job raises what Redis says of an element
\* under its own id: what a job read before another one wrote, it does not put back
\* (the lower price is kept, PrefetchDesignBricks).  Under the id of a sibling it
\* can come back, see aliasResolvedLocale.
CachedPriceNeverRises ==
    [][\A e \in Elements, l \in Locales :
        /\ IsPriced(cache[e][l]) /\ cache[e][l].item = e
        /\ IsPriced(cache'[e][l]) /\ cache'[e][l].item = e
        => cache'[e][l].cents <= cache[e][l].cents]_vars

(***************************************************************************)
(* What the comments say and the code does not do                          *)
(***************************************************************************)
\* "Locale represents the locale-specific information of a brick Core"
\* (brick/locale.go): a priced brick of a runtime set has a price of its locale.
PriceOfOwnLocale ==
    \A s \in Sets : books[s].phase = "done" =>
        \A b \in Final(s) : books[s].price[b] # None => books[s].price[b].loc = LocaleOf[s]

\* "increments the MissingParts count while staying within the bounds"
\* (set/external.go): no more parts are missing than the set has bricks.
MissingWithinBounds ==
    \A s \in Sets : books[s].missingParts <= Cardinality(InventoryOf[s])

\* "Adds the price of a final brick to the total price of the set"
\* (set/external.go): the total of a set that is done is that of its bricks.
TotalOfAll ==
    \A s \in Sets : books[s].phase = "done" /\ ~Listener(s) =>
        books[s].total = Cents(books[s].price, Priced(books[s].price, Final(s)))

\* "We must not modify the original brick that will be used in the set"
\* (brick/pickabrick.go): an unpriced brick keeps its main element.
MainIdKept == mainId = ElementOf

\* "Cache this brick ID as not-found (independent entry, won't affect the set's
\* brick)" (brick/pickabrick.go): an element that is cached as not found was itself
\* answered so.
NotFoundIsOwn ==
    \A e \in Elements, l \in Locales :
        IsNotFound(cache[e][l]) => cache[e][l].item = e

\* "Applies to every brick without a purchasable price - whether it came back
\* from the cache (cached not-found) or from the fetch above"
\* (setruntime/fetch_operations.go): no brick ends not found while a sibling
\* is sold, when nothing failed.
SiblingFallbackApplies ==
    \A s \in Sets : books[s].phase = "done" /\ faults = MaxFaults =>
        \A b \in Final(s) : IsNotFound(books[s].price[b]) =>
            \A e \in PartColor[ElementOf[b]] : offer[e][LocaleOf[s]] = 0
=============================================================================
