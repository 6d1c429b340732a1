----------------------------- MODULE DesignIndex -----------------------------
(***************************************************************************)
(* Designs and elements, as the detail requests and the searches resolve   *)
(* them (handlers/brick_handler.go, handlers/search_handler.go,            *)
(* brick/design.go, brick/design_redis.go, searchruntime: ProcessBrickItem)*)
(*                                                                         *)
(* A design is a brick's shape, an element the shape in a colour.          *)
(* Rebrickable names a design and its molds, Pick a Brick lists what is    *)
(* sold of it.  The cache has one entry per design, which every request    *)
(* reads once and writes after each of the two upstream answers; requests  *)
(* and the workers of searches do so side by side.  A detail request       *)
(* answers with an index: the design asked for and its alternates.         *)
(*                                                                         *)
(* Abstractions.  One locale.  What upstream sites know does not change.   *)
(* Alternates are a set: the order in which Rebrickable lists molds is     *)
(* any.  Of a cached brick only matters whether it has a valid offer, says *)
(* that nothing is offered, or neither; names and images are left out.     *)
(***************************************************************************)
EXTENDS Naturals, FiniteSets

CONSTANTS
    Requests,       \* detail requests and search results
    Designs, Elements,
    Molds,          \* what Rebrickable knows: a design's other molds
    Sold,           \* what Pick a Brick lists: the elements of each design
    DesignOf,       \* the design Pick a Brick gives for an element
    FoundBy,        \* what BrickLink finds for a design's or element's number
    None,           \* no value
    MaxFaults,      \* bound: upstream and Redis requests that fail
    MaxLapses       \* bound: keys that expire and prices that get outdated

ASSUME DesignAssumption ==
    /\ None \notin Designs \cup Elements
    /\ DOMAIN Molds \subseteq Designs           \* the designs Rebrickable knows
    /\ \A d \in DOMAIN Molds : Molds[d] \subseteq Designs \ {d}
    /\ Sold \in [Designs -> SUBSET Elements]
    /\ DesignOf \in [Elements -> Designs]
    /\ FoundBy \in [Designs \cup Elements -> SUBSET Designs]
    /\ MaxFaults \in Nat /\ MaxLapses \in Nat

VARIABLES
    designs,    \* brick:design:<id>:<locale>
    bricks,     \* brick:<id>:<locale>
    request,    \* the state of each request
    faults, lapses  \* what is left of the bounds

vars == <<designs, bricks, request, faults, lapses>>

Statuses == {"unknown", "minimal", "bricks", "bricksNotFound", "complete"}

\* A design as the code carries it: its status, element ids, alternates and
\* the ids of its core.
Design == [status : Statuses, elements : SUBSET Elements,
           alternates : SUBSET Designs, ids : SUBSET Designs]

NoDesign == [status |-> "unknown", elements |-> {}, alternates |-> {}, ids |-> {}]

\* What fetchDesignWithDefault returns: a design with its bricks, which is no None.
WithBricks == [design : Design, bricks : SUBSET Elements]

ASSUME NoneAssumption == None \notin WithBricks

Idle == [pc |-> "idle", kind |-> None,
         asked |-> None,        \* the design asked for
         element |-> None,      \* the element asked for
         cur |-> None, work |-> NoDesign,   \* the design being fetched
         main |-> None,         \* mainDesign, once it is fetched
         todo |-> {},           \* its alternates still to fetch
         index |-> <<>>]        \* designIndex

Init ==
    /\ designs = [d \in Designs |-> None]
    /\ bricks = [e \in Elements |-> None]
    /\ request = [r \in Requests |-> Idle]
    /\ faults = MaxFaults /\ lapses = MaxLapses

Goto(r, pc) == request' = [request EXCEPT ![r].pc = pc]

Fault == faults > 0 /\ faults' = faults - 1

\* The request is answered with an error.
Refuse(r) == request' = [request EXCEPT ![r] = [Idle EXCEPT !.pc = "refused"]]

\* An upstream site or Redis fails, and the request with it.
Fails(r) == Fault /\ Refuse(r) /\ UNCHANGED <<designs, bricks>>

\* The request is answered: of what it had in hand its index is left.
Answered(q) == [q EXCEPT !.pc = "answered", !.element = None, !.cur = None, !.work = NoDesign]

\* RedisSetDesign: a failure is logged and forgotten.
StoreDesign(d, design) ==
    \/ designs' = [designs EXCEPT ![d] = design] /\ UNCHANGED faults
    \/ Fault /\ UNCHANGED designs

----------------------------------------------------------------------------
(***************************************************************************)
(* brick/design.go                                                         *)
(***************************************************************************)
\* FetchMinimal, once Rebrickable has answered: a design it does not know stays
\* as it is, except for its alternates.
MinimalDesign(d, design) ==
    LET core == IF d \in DOMAIN Molds
                THEN [design EXCEPT !.ids = {d} \cup Molds[d], !.status = "minimal"]
                ELSE design
    IN  [core EXCEPT !.alternates = core.ids \ {d}]

\* FetchBricks, once Pick a Brick has answered.
DesignOfBricks(d, design) ==
    IF Sold[d] = {}
    THEN [design EXCEPT !.status = "bricksNotFound"]
    ELSE [design EXCEPT !.elements = Sold[d],
            !.status = IF design.status = "minimal" THEN "complete" ELSE "bricks"]

\* What MapLocaleFromPickabrick makes of an offer.
Offer(e) == [says |-> "offer", design |-> DesignOf[e]]

\* The cache after MapLocaleFromPickabrick and LoadFromRedis of each brick: a
\* valid offer that is lower stays, and so does a statement that nothing is offered.
BricksOfDesign(d) ==
    [e \in Elements |->
        IF e \in Sold[d] /\ (bricks[e] = None \/ bricks[e].says # "not offered")
        THEN Offer(e)
        ELSE bricks[e]]

\* Element by element the cache is read and the brick stored; a read that fails is
\* an entry not found, and a write that fails is forgotten.
StoreBricks(d) ==
    \/ bricks' = BricksOfDesign(d) /\ UNCHANGED faults
    \/ /\ Fault
       /\ \E e \in Sold[d] : \E b \in {bricks[e], Offer(e)} :
             bricks' = [BricksOfDesign(d) EXCEPT ![e] = b]

----------------------------------------------------------------------------
(***************************************************************************)
(* handlers/brick_handler.go: fetchDesignIndexByDesignID                   *)
(***************************************************************************)
\* A detail request for a design, or for an element, or a search result.
Begin(r) ==
    /\ request[r].pc = "idle"
    /\ \/ \E d \in Designs :
            request' = [request EXCEPT ![r] =
              [Idle EXCEPT !.pc = "lookup", !.kind = "design", !.asked = d, !.cur = d]]
       \/ \E e \in Elements :
            request' = [request EXCEPT ![r] =
              [Idle EXCEPT !.pc = "element", !.kind = "element", !.element = e]]
       \/ \E d \in Designs, e \in Elements \cup {None} :
            /\ e # None => d \in FoundBy[e]
            /\ request' = [request EXCEPT ![r] =
                 [Idle EXCEPT !.pc = "getDesign", !.kind = "item",
                              !.asked = d, !.cur = d, !.element = e]]
    /\ UNCHANGED <<designs, bricks, faults>>

\* What a request may go on with once the design it fetched is in its index: the
\* next alternate, or its answer, which for an element that had to be searched
\* for needs the brick as well.
Indexed(q) ==
    IF q.todo # {}
    THEN {[q EXCEPT !.pc = "lookup", !.cur = d, !.todo = @ \ {d}] : d \in q.todo}
    ELSE {IF q.kind = "searched" THEN [q EXCEPT !.pc = "brick"] ELSE Answered(q)}

\* designIndex[d] = entry
WithEntry(index, d, entry) ==
    [x \in DOMAIN index \cup {d} |-> IF x = d THEN entry ELSE index[x]]

\* The main design is in: its alternates are next.
MainIndexed(q, main) ==
    Indexed([q EXCEPT !.main = main, !.work = NoDesign, !.todo = main.design.alternates,
                      !.index = WithEntry(<<>>, q.asked, main)])

\* fetchDesignWithDefault returns the design and its bricks.  A main design that
\* Rebrickable does not know is searched for on BrickLink.
Fetched(q, design, bs) ==
    LET fetched == [design |-> design, bricks |-> bs]
    IN  IF q.main # None
        THEN Indexed([q EXCEPT !.work = NoDesign, !.index = WithEntry(q.index, q.cur, fetched)])
        ELSE IF design.status \in {"complete", "bricksNotFound"}
        THEN MainIndexed(q, fetched)
        ELSE {[q EXCEPT !.main = fetched, !.work = NoDesign, !.pc = "search"]}

GoesOn(r, continuations) ==
    \E q \in continuations : request' = [request EXCEPT ![r] = q]

\* A fault: an alternate takes the main design's status with its other data.
DefaultsWithStatus(cached, default, d) ==
    [IF cached # None THEN cached
     ELSE [default EXCEPT !.elements = {}, !.alternates = @ \ {d}]
        EXCEPT !.ids = default.ids]

\* The design as it is cached, or the main design's data for an alternate that is
\* not; its ids are the main design's in any case, and none for the main design.
Defaults(cached, default, d) ==
    [IF cached # None THEN cached
     ELSE [default EXCEPT !.elements = {}, !.status = "unknown", !.alternates = @ \ {d}]
        EXCEPT !.ids = default.ids]

\* A fault: the cached entry of a complete design is answered as it is.
LookupTrustsComplete(r) ==
    LET q == request[r]
        default == IF q.main = None THEN NoDesign ELSE q.main.design
        design == Defaults(designs[q.cur], default, q.cur)
    IN  /\ q.pc = "lookup"
        /\ CASE design.status = "minimal" ->
                  request' = [request EXCEPT ![r].pc = "fetchBricks", ![r].work = design]
             [] design.status \in {"bricksNotFound", "complete"} ->
                  GoesOn(r, Fetched(q, design, {}))
             [] OTHER ->
                  request' = [request EXCEPT ![r].pc = "fetchMinimal", ![r].work = design]
        /\ UNCHANGED <<designs, bricks, faults>>

\* fetchDesignWithDefault: the cache, and what is missing.
Lookup(r) ==
    LET q == request[r]
        default == IF q.main = None THEN NoDesign ELSE q.main.design
        design == Defaults(designs[q.cur], default, q.cur)
    IN  /\ q.pc = "lookup"
        /\ \/ /\ CASE design.status = "minimal" ->
                     request' = [request EXCEPT ![r].pc = "fetchBricks", ![r].work = design]
                   [] design.status = "bricksNotFound" -> GoesOn(r, Fetched(q, design, {}))
                   [] OTHER ->
                     request' = [request EXCEPT ![r].pc = "fetchMinimal", ![r].work = design]
              /\ UNCHANGED <<designs, bricks, faults>>
           \/ Fails(r)

FetchMinimal(r) ==
    LET q == request[r]
        design == MinimalDesign(q.cur, q.work)
    IN  /\ q.pc = "fetchMinimal"
        /\ \/ /\ request' = [request EXCEPT ![r].pc = "fetchBricks", ![r].work = design]
              /\ StoreDesign(q.cur, design) /\ UNCHANGED bricks
           \/ Fails(r)

FetchBricks(r) ==
    LET q == request[r]
        design == DesignOfBricks(q.cur, q.work)
    IN  /\ q.pc = "fetchBricks"
        /\ \/ /\ GoesOn(r, Fetched(q, design, Sold[q.cur]))
              /\ \/ StoreBricks(q.cur) /\ designs' = [designs EXCEPT ![q.cur] = design]
                 \/ bricks' = BricksOfDesign(q.cur) /\ Fault /\ UNCHANGED designs
           \/ Fails(r)

----------------------------------------------------------------------------
(***************************************************************************)
(* handlers/search_handler.go: searchBrickByDesignID,                      *)
(* searchruntime/fetch_operations.go: GetBrickDesign                       *)
(***************************************************************************)
\* BrickLink must find exactly one design, the main one of the requested.
SearchDesign(r) ==
    LET q == request[r]
    IN  /\ q.pc = "search"
        /\ \/ /\ IF Cardinality(FoundBy[q.asked]) = 1
                 THEN \E d \in FoundBy[q.asked] :
                    request' = [request EXCEPT ![r].pc = "getDesign", ![r].cur = d]
                 ELSE Refuse(r)
              /\ UNCHANGED <<designs, bricks, faults>>
           \/ Fails(r)

\* GetBrickDesign has its design: a search result answers it, or goes on with the
\* element; a detail request caches it unless nothing is known of it.
Got(q, design) ==
    CASE q.kind = "item" /\ q.element = None -> Answered(q)
      [] q.kind = "item" /\ q.element # None -> [q EXCEPT !.pc = "locale", !.work = NoDesign]
      [] q.kind # "item" /\ design.status = "unknown" -> [Idle EXCEPT !.pc = "refused"]
      [] OTHER -> [q EXCEPT !.pc = "cacheMain", !.work = design]

GetDesign(r) ==
    LET q == request[r]
        cached == IF designs[q.cur] = None THEN NoDesign ELSE designs[q.cur]
    IN  /\ q.pc = "getDesign"
        /\ \/ /\ request' = [request EXCEPT ![r] =
                    IF cached.status \in {"unknown", "bricks"}
                    THEN [q EXCEPT !.pc = "getMinimal", !.work = cached]
                    ELSE Got(q, cached)]
              /\ UNCHANGED <<designs, bricks, faults>>
           \/ Fails(r)

GetMinimal(r) ==
    LET q == request[r]
        design == MinimalDesign(q.cur, q.work)
    IN  /\ q.pc = "getMinimal"
        /\ \/ /\ request' = [request EXCEPT ![r] = Got(q, design)]
              /\ StoreDesign(q.cur, design) /\ UNCHANGED bricks
           \/ Fails(r)

CacheMain(r) ==
    /\ request[r].pc = "cacheMain"
    /\ Goto(r, "cacheRequested")
    /\ StoreDesign(request[r].cur, request[r].work) /\ UNCHANGED bricks

\* The requested design takes the place of the main one among the alternates,
\* and what is cached a second time is the main design with these.
CacheRequested(r) ==
    LET q == request[r]
        swapped == IF q.asked \in q.work.alternates
                   THEN (q.work.alternates \ {q.asked}) \cup {q.cur}
                   ELSE q.work.alternates
    IN  /\ q.pc = "cacheRequested"
        /\ GoesOn(r, MainIndexed(q, [q.main EXCEPT !.design.alternates = swapped]))
        /\ StoreDesign(q.cur, [q.work EXCEPT !.alternates = swapped]) /\ UNCHANGED bricks

----------------------------------------------------------------------------
(***************************************************************************)
(* Elements: FetchBrickDetailsByElement, searchBrickByElementID,           *)
(* ProcessBrickItem with GetBrickLocale and brick.Locale.Fetch             *)
(***************************************************************************)
\* RedisSetLocale: a failure is logged and forgotten.
StoreBrick(e, b) ==
    \/ bricks' = [bricks EXCEPT ![e] = b] /\ UNCHANGED faults
    \/ Fault /\ UNCHANGED bricks

\* RedisGetLocale: whatever is cached of the element names its design.
Element(r) ==
    LET e == request[r].element
    IN  /\ request[r].pc = "element"
        /\ \/ /\ bricks[e] # None
              /\ request' = [request EXCEPT ![r].pc = "lookup",
                    ![r].asked = bricks[e].design, ![r].cur = bricks[e].design]
              /\ UNCHANGED faults
           \/ /\ bricks[e] = None /\ Goto(r, "searchElement") /\ UNCHANGED faults
           \/ Fault /\ Goto(r, "searchElement")
        /\ UNCHANGED <<designs, bricks>>

\* BrickLink must find exactly one brick, with this element id.
SearchElement(r) ==
    LET q == request[r]
    IN  /\ q.pc = "searchElement"
        /\ \/ /\ IF Cardinality(FoundBy[q.element]) = 1
                 THEN \E d \in FoundBy[q.element] :
                    request' = [request EXCEPT ![r].pc = "lookup", ![r].kind = "searched",
                                               ![r].asked = d, ![r].cur = d]
                 ELSE Refuse(r)
              /\ UNCHANGED <<designs, bricks, faults>>
           \/ Fails(r)

\* LoadFromRedis finds a brick that says something, and is not outdated.
Tells(e) == bricks[e] # None /\ bricks[e].says # "nothing"

\* The element that was searched for must be in the cache by now.
Brick(r) ==
    /\ request[r].pc = "brick"
    /\ \/ /\ Tells(request[r].element) /\ UNCHANGED faults
          /\ request' = [request EXCEPT ![r] = Answered(@)]
       \/ ~Tells(request[r].element) /\ Refuse(r) /\ UNCHANGED faults
       \/ Fault /\ Refuse(r)
    /\ UNCHANGED <<designs, bricks>>

Locale(r) ==
    /\ request[r].pc = "locale"
    /\ \/ /\ Tells(request[r].element) /\ UNCHANGED faults
          /\ request' = [request EXCEPT ![r] = Answered(@)]
       \/ ~Tells(request[r].element) /\ Goto(r, "fetchBrick") /\ UNCHANGED faults
       \/ Fault /\ Goto(r, "fetchBrick")
    /\ UNCHANGED <<designs, bricks>>

OnSale == UNION {Sold[d] : d \in Designs}

\* Locale.Fetch caches the offer, or that there is none.
FetchBrick(r) ==
    LET q == request[r]
    IN  /\ q.pc = "fetchBrick"
        /\ \/ /\ Goto(r, "storeLocale")
              /\ StoreBrick(q.element, IF q.element \in OnSale THEN Offer(q.element)
                                       ELSE [says |-> "not offered", design |-> q.asked])
              /\ UNCHANGED designs
           \/ Fails(r)

\* GetBrickLocale caches the brick it has, which without an offer is the one
\* without a price, not the one that says so.
StoreLocale(r) ==
    LET q == request[r]
    IN  /\ q.pc = "storeLocale"
        /\ request' = [request EXCEPT ![r] = Answered(q)]
        /\ StoreBrick(q.element, IF q.element \in OnSale THEN Offer(q.element)
                                 ELSE [says |-> "nothing", design |-> q.asked])
        /\ UNCHANGED designs

----------------------------------------------------------------------------
\* The freshness window of a price ends, or the life of a key.
Outdate(e) ==
    /\ Tells(e) /\ lapses > 0
    /\ bricks' = [bricks EXCEPT ![e].says = "nothing"]
    /\ lapses' = lapses - 1
    /\ UNCHANGED <<designs, request, faults>>

Expire ==
    /\ lapses > 0
    /\ \/ /\ \E e \in Elements : bricks[e] # None /\ bricks' = [bricks EXCEPT ![e] = None]
          /\ UNCHANGED designs
       \/ /\ \E d \in Designs : designs[d] # None /\ designs' = [designs EXCEPT ![d] = None]
          /\ UNCHANGED bricks
    /\ lapses' = lapses - 1
    /\ UNCHANGED <<request, faults>>

Step(r) ==
    \/ Lookup(r) \/ FetchMinimal(r) \/ FetchBricks(r)
    \/ SearchDesign(r) \/ GetDesign(r) \/ GetMinimal(r) \/ CacheMain(r) \/ CacheRequested(r)
    \/ Element(r) \/ SearchElement(r) \/ Brick(r)
    \/ Locale(r) \/ FetchBrick(r) \/ StoreLocale(r)

Next ==
    \/ \E r \in Requests : (Begin(r) \/ Step(r)) /\ UNCHANGED lapses
    \/ \E e \in Elements : Outdate(e)
    \/ Expire

Spec == Init /\ [][Next]_vars

----------------------------------------------------------------------------
(* Properties *)

TypeOK ==
    /\ designs \in [Designs -> Design \cup {None}]
    /\ \A e \in Elements : bricks[e] # None =>
          bricks[e].says \in {"offer", "not offered", "nothing"} /\ bricks[e].design \in Designs
    /\ \A r \in Requests :
          LET q == request[r]
          IN  /\ q.work \in Design
              /\ q.cur \in Designs \cup {None} /\ q.todo \subseteq Designs
              /\ \A d \in DOMAIN q.index : q.index[d].design \in Design
    /\ faults \in 0..MaxFaults /\ lapses \in 0..MaxLapses

\* The status of a cached design is what the two sites would say of it, whoever
\* wrote it last and whatever it was made from: a design taken for minimal or not
\* found is not asked for again, and one taken for unknown is searched for
\* (design.go: DesignStatus; brick_handler.go: the reset of a default's status).
StatusIsTrue ==
    TypeOK /\ \A d \in Designs : designs[d] # None =>
        LET status == designs[d].status
        IN  /\ status \in {"minimal", "complete"} => d \in DOMAIN Molds
            /\ status \in {"unknown", "bricks"} => d \notin DOMAIN Molds
            /\ status \in {"bricks", "complete"} => designs[d].elements = Sold[d] /\ Sold[d] # {}
            /\ status = "bricksNotFound" => Sold[d] = {}

\* The index of an answered detail request has the design asked for, its
\* alternates and nothing else, and under each what is sold of it, although other
\* requests changed the entries it is made of on the way ("Create a design index
\* to hold the main design and its alternates", brick_handler.go:133).
AnswerIsWhole ==
    \A r \in Requests :
        LET q == request[r]
        IN  q.pc = "answered" /\ q.kind # "item" =>
              /\ DOMAIN q.index = {q.asked} \cup q.main.design.alternates
              /\ \A d \in DOMAIN q.index : q.index[d].bricks = Sold[d]

\* The same read against what Rebrickable knows: of a design it knows, the index
\* has every mold.
AnswerHasMolds ==
    \A r \in Requests :
        LET q == request[r]
        IN  q.pc = "answered" /\ q.kind # "item" /\ q.asked \in DOMAIN Molds =>
              Molds[q.asked] \subseteq DOMAIN q.index

\* "Cache this brick ID as not-found" (pickabrick.go:91): when a search result that
\* found no offer is answered, the cache says so, until that ends with its time.
NotFoundIsCached ==
    [][\A r \in Requests :
         request[r].pc = "storeLocale" /\ request'[r].pc = "answered" /\ faults' = faults =>
             bricks'[request[r].element].says # "nothing"]_vars

=============================================================================
