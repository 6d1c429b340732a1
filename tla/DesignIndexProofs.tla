--------------------------- MODULE DesignIndexProofs ---------------------------
(***************************************************************************)
(* Cached statuses are true and answered indexes whole for any requests,   *)
(* designs and elements, whatever Rebrickable, Pick a Brick and BrickLink  *)
(* know, and however many upstream and Redis requests fail.  A request     *)
(* takes nothing for granted of the entries it read earlier: what it       *)
(* stores is true of the sites, not of the cache, so that requests cannot  *)
(* mislead each other.                                                     *)
(***************************************************************************)
EXTENDS DesignIndex, TLAPS

\* What a design says of the two sites is so.
Truthful(d, design) ==
    /\ design.status \in {"minimal", "complete"} => d \in DOMAIN Molds
    /\ design.status \in {"unknown", "bricks"} => d \notin DOMAIN Molds
    /\ design.status \in {"bricks", "complete"} => design.elements = Sold[d] /\ Sold[d] # {}
    /\ design.status = "bricksNotFound" => Sold[d] = {}

\* The same of a design that may not have been asked for yet.
Plausible(d, design) == design.status = "unknown" \/ Truthful(d, design)

Indexes == UNION {[D -> WithBricks] : D \in SUBSET Designs}

Positions == {"idle", "refused", "answered", "lookup", "fetchMinimal", "fetchBricks", "search",
              "getDesign", "getMinimal", "cacheMain", "cacheRequested", "element",
              "searchElement", "brick", "locale", "fetchBrick", "storeLocale"}

Request == [pc : Positions, kind : {"design", "element", "item", "searched", None},
            asked : Designs \cup {None}, element : Elements \cup {None},
            cur : Designs \cup {None}, work : Design, main : WithBricks \cup {None},
            todo : SUBSET Designs, index : Indexes]

\* A request knows what it asks for.
Addressed(q) ==
    /\ q.pc \in {"lookup", "fetchMinimal", "fetchBricks", "search", "getDesign", "getMinimal",
                 "cacheMain", "cacheRequested", "locale", "fetchBrick", "storeLocale"} =>
          q.asked \in Designs /\ q.cur \in Designs
    /\ q.pc \in {"element", "searchElement"} => q.element \in Elements
    /\ q.pc \in {"locale", "fetchBrick", "storeLocale"} => q.kind = "item"
    /\ q.pc \in {"lookup", "fetchMinimal", "fetchBricks", "search", "cacheMain", "cacheRequested",
                 "element", "searchElement"} => q.kind # "item"

\* The design a request works on, which it will store.
WorkTrue(q) ==
    /\ q.pc = "fetchMinimal" => /\ q.work.status \notin {"minimal", "bricksNotFound"}
                                /\ Plausible(q.cur, q.work)
    /\ q.pc = "getMinimal" => /\ q.work.status \in {"unknown", "bricks"}
                              /\ Plausible(q.cur, q.work)
    /\ q.pc = "fetchBricks" => /\ q.work.status \in {"unknown", "minimal", "bricks"}
                               /\ Truthful(q.cur, q.work)
    /\ q.pc \in {"cacheMain", "cacheRequested"} => Truthful(q.cur, q.work)

\* What is in the index has the bricks that are sold of it, ...
BricksIndexed(q) == \A d \in DOMAIN q.index : q.index[d].bricks = Sold[d]

\* ... and what is not in it yet, of the design asked for and its alternates, is
\* what the request is about or has still to do.
FetchDue(q) ==
    IF q.main = None THEN q.cur = q.asked
    ELSE /\ DOMAIN q.index \cup {q.cur} \cup q.todo = {q.asked} \cup q.main.design.alternates
         /\ BricksIndexed(q)

IndexOnTheWay(q) ==
    /\ q.pc \in {"element", "searchElement"} => q.main = None
    /\ q.pc \in {"lookup", "fetchMinimal", "fetchBricks"} => FetchDue(q)
    /\ q.pc \in {"search", "getDesign", "getMinimal", "cacheMain", "cacheRequested"} /\ q.kind # "item" =>
          q.main # None /\ q.main.bricks = Sold[q.asked]
    /\ q.pc \in {"brick", "answered"} /\ q.kind # "item" =>
          /\ q.main # None /\ DOMAIN q.index = {q.asked} \cup q.main.design.alternates
          /\ BricksIndexed(q)

RequestOK(q) == q \in Request /\ Addressed(q) /\ WorkTrue(q) /\ IndexOnTheWay(q)

BrickEntry == [says : {"offer", "not offered", "nothing"}, design : Designs]

CacheOK ==
    /\ designs \in [Designs -> Design \cup {None}]
    /\ \A d \in Designs : designs[d] # None => Truthful(d, designs[d])
    /\ bricks \in [Elements -> BrickEntry \cup {None}]
    /\ faults \in 0..MaxFaults /\ lapses \in 0..MaxLapses

RequestsOK == request \in [Requests -> Request] /\ \A r \in Requests : RequestOK(request[r])

DesignInv == CacheOK /\ RequestsOK

----------------------------------------------------------------------------
(* What the operators make of designs *)

\* What the properties use of the constants' assumption.
LEMMA SitesTyped ==
    /\ DOMAIN Molds \subseteq Designs /\ \A d \in DOMAIN Molds : Molds[d] \subseteq Designs
    /\ \A d \in Designs : Sold[d] \subseteq Elements
    /\ \A e \in Elements : DesignOf[e] \in Designs
    /\ \A x \in Designs \cup Elements : FoundBy[x] \subseteq Designs
    /\ MaxFaults \in Nat /\ MaxLapses \in Nat
BY DesignAssumption

\* FetchMinimal makes any plausible design but one known not to be sold true.
LEMMA MinimalIsTrue ==
    ASSUME NEW d \in Designs, NEW design \in Design, Plausible(d, design),
           design.status \notin {"minimal", "bricksNotFound"}
    PROVE  /\ MinimalDesign(d, design) \in Design
           /\ Truthful(d, MinimalDesign(d, design))
           /\ MinimalDesign(d, design).status \in {"unknown", "minimal", "bricks"}
<1> DEFINE core == IF d \in DOMAIN Molds
                   THEN [design EXCEPT !.ids = {d} \cup Molds[d], !.status = "minimal"]
                   ELSE design
           result == [core EXCEPT !.alternates = core.ids \ {d}]
<1>1. core \in Design /\ core.elements = design.elements
  BY SitesTyped DEF Design, Statuses
<1>2. IF d \in DOMAIN Molds THEN core.status = "minimal" ELSE core.status = design.status
  BY DEF Design
<1> HIDE DEF core
<1>3. result \in Design /\ result.status = core.status /\ result.elements = core.elements
  BY <1>1 DEF Design
<1>4. result.status \in {"unknown", "minimal", "bricks"} /\ Truthful(d, result)
  <2>1. CASE d \in DOMAIN Molds
    BY <1>2, <1>3, <2>1 DEF Truthful
  <2>2. CASE d \notin DOMAIN Molds
    <3>1. result.status = design.status /\ result.elements = design.elements
      BY <1>1, <1>2, <1>3, <2>2
    <3>2. design.status \in {"unknown", "bricks"}
      BY <2>2 DEF Design, Statuses, Plausible, Truthful
    <3>3. QED
      BY <2>2, <3>1, <3>2 DEF Plausible, Truthful
  <2>3. QED
    BY <2>1, <2>2
<1>5. result = MinimalDesign(d, design)
  BY DEF core, MinimalDesign
<1>6. QED
  BY <1>3, <1>4, <1>5

\* FetchBricks keeps a design true, and says whether it is sold.
LEMMA BricksAreTrue ==
    ASSUME NEW d \in Designs, NEW design \in Design, Truthful(d, design),
           design.status \in {"unknown", "minimal", "bricks"}
    PROVE  /\ DesignOfBricks(d, design) \in Design
           /\ Truthful(d, DesignOfBricks(d, design))
<1>1. CASE Sold[d] = {}
  BY <1>1 DEF DesignOfBricks, Design, Statuses, Truthful
<1>2. CASE Sold[d] # {}
  <2> DEFINE status == IF design.status = "minimal" THEN "complete" ELSE "bricks"
  <2>1. DesignOfBricks(d, design) = [design EXCEPT !.elements = Sold[d], !.status = status]
    BY <1>2 DEF DesignOfBricks
  <2>2. /\ DesignOfBricks(d, design) \in Design
        /\ DesignOfBricks(d, design).elements = Sold[d] /\ DesignOfBricks(d, design).status = status
    BY <2>1, SitesTyped DEF Design, Statuses
  <2>3. QED
    BY <1>2, <2>2 DEF Truthful
<1>3. QED
  BY <1>1, <1>2

\* What a lookup starts from is an entry that is true, or says nothing.
LEMMA DefaultsArePlausible ==
    ASSUME NEW cached \in Design \cup {None}, NEW default \in Design, NEW d \in Designs,
           cached # None => Truthful(d, cached)
    PROVE  /\ Defaults(cached, default, d) \in Design
           /\ Plausible(d, Defaults(cached, default, d))
<1> DEFINE base == IF cached # None THEN cached
                   ELSE [default EXCEPT !.elements = {}, !.status = "unknown", !.alternates = @ \ {d}]
           result == [base EXCEPT !.ids = default.ids]
<1>1. base \in Design /\ Plausible(d, base)
  BY DEF Design, Statuses, Plausible
<1> HIDE DEF base
<1>2. /\ result \in Design /\ result.status = base.status /\ result.elements = base.elements
  BY <1>1 DEF Design
<1>3. Plausible(d, result)
  BY <1>1, <1>2 DEF Plausible, Truthful
<1>4. result = Defaults(cached, default, d)
  BY DEF base, Defaults
<1>5. QED
  BY <1>2, <1>3, <1>4

----------------------------------------------------------------------------
(* What the operators make of requests *)

\* An index with one entry more.
Grown(index, d, entry, larger) ==
    /\ larger \in Indexes /\ DOMAIN larger = DOMAIN index \cup {d}
    /\ larger[d] = entry /\ \A x \in DOMAIN index : x # d => larger[x] = index[x]

LEMMA IndexGrows ==
    ASSUME NEW index \in Indexes, NEW d \in Designs, NEW entry \in WithBricks
    PROVE  Grown(index, d, entry, WithEntry(index, d, entry))
<1> DEFINE larger == WithEntry(index, d, entry)
<1>1. PICK D \in SUBSET Designs : index \in [D -> WithBricks]
  BY DEF Indexes
<1>2. larger = [x \in D \cup {d} |-> IF x = d THEN entry ELSE index[x]]
  BY <1>1 DEF WithEntry
<1> HIDE DEF larger
<1>3. larger \in [D \cup {d} -> WithBricks] /\ D \cup {d} \in SUBSET Designs
  BY <1>1, <1>2
<1>4. Grown(index, d, entry, larger)
  BY <1>1, <1>2, <1>3 DEF Indexes, Grown
<1>5. QED
  BY <1>4 DEF larger

\* The empty index.
LEMMA EmptyIndex == <<>> \in Indexes /\ DOMAIN <<>> = {}
<1>1. <<>> \in [{} -> WithBricks] /\ {} \in SUBSET Designs
  OBVIOUS
<1>2. QED
  BY <1>1 DEF Indexes

\* The empty design and a request at rest.
LEMMA IdleOK == NoDesign \in Design /\ RequestOK(Idle) /\ RequestOK([Idle EXCEPT !.pc = "refused"])
<1>1. NoDesign \in Design
  BY DEF NoDesign, Design, Statuses
<1>2. <<>> \in Indexes
  BY EmptyIndex
<1>3. Idle \in Request /\ [Idle EXCEPT !.pc = "refused"] \in Request
  BY <1>1, <1>2 DEF Idle, Request, Positions
<1>4. QED
  BY <1>1, <1>3 DEF Idle, RequestOK, Addressed, WorkTrue, IndexOnTheWay

\* A request goes on with an alternate, its brick or its answer when index and
\* alternates left are all there is to answer.
LEMMA IndexedOK ==
    ASSUME NEW q \in Request, q.kind # "item", q.main # None, q.asked \in Designs,
           DOMAIN q.index \cup q.todo = {q.asked} \cup q.main.design.alternates,
           BricksIndexed(q), NEW n \in Indexed(q)
    PROVE  RequestOK(n)
<1>1. CASE q.todo # {}
  <2>1. PICK d \in q.todo : n = [q EXCEPT !.pc = "lookup", !.cur = d, !.todo = q.todo \ {d}]
    BY <1>1 DEF Indexed
  <2>2. /\ n \in Request /\ n.pc = "lookup" /\ n.cur = d /\ n.todo = q.todo \ {d} /\ d \in Designs
        /\ n.asked = q.asked /\ n.kind = q.kind /\ n.main = q.main /\ n.index = q.index
    BY <2>1 DEF Request, Positions
  <2>3. QED
    BY <2>2 DEF RequestOK, Addressed, WorkTrue, IndexOnTheWay, FetchDue, BricksIndexed
<1>2. CASE q.todo = {}
  <2>1. n = [q EXCEPT !.pc = "brick"] \/ n = Answered(q)
    BY <1>2 DEF Indexed
  <2>2. /\ n \in Request /\ n.pc \in {"brick", "answered"}
        /\ n.asked = q.asked /\ n.kind = q.kind /\ n.main = q.main /\ n.index = q.index
    BY <2>1, IdleOK DEF Request, Positions, Answered
  <2>3. QED
    BY <1>2, <2>2 DEF RequestOK, Addressed, WorkTrue, IndexOnTheWay, FetchDue, BricksIndexed
<1>3. QED
  BY <1>1, <1>2

\* The main design opens the index.
LEMMA MainIndexedOK ==
    ASSUME NEW q \in Request, q.kind # "item", q.asked \in Designs,
           NEW main \in WithBricks, main.bricks = Sold[q.asked], NEW n \in MainIndexed(q, main)
    PROVE  RequestOK(n)
<1> DEFINE index == WithEntry(<<>>, q.asked, main)
           m == [q EXCEPT !.main = main, !.work = NoDesign, !.todo = main.design.alternates,
                          !.index = index]
<1>1. main.design.alternates \subseteq Designs /\ main # None
  BY NoneAssumption DEF WithBricks, Design
<1>2. index = WithEntry(<<>>, q.asked, main)
  OBVIOUS
<1>3. n \in Indexed(m)
  BY DEF MainIndexed
<1> HIDE DEF index
<1>4. index \in Indexes /\ DOMAIN index = {q.asked} /\ index[q.asked] = main
  <2>1. <<>> \in Indexes /\ q.asked \in Designs /\ main \in WithBricks
    BY EmptyIndex
  <2>2. Grown(<<>>, q.asked, main, index)
    BY <1>2, <2>1, IndexGrows, Zenon
  <2>3. QED
    BY <2>2, EmptyIndex DEF Grown
<1>5. /\ m \in Request /\ m.kind = q.kind /\ m.asked = q.asked /\ m.main = main
      /\ m.todo = main.design.alternates /\ m.index = index
  BY <1>1, <1>4, IdleOK DEF Request
<1> HIDE DEF m
<1>6. DOMAIN m.index \cup m.todo = {m.asked} \cup m.main.design.alternates /\ BricksIndexed(m)
  BY <1>4, <1>5 DEF BricksIndexed
<1>7. QED
  BY <1>1, <1>3, <1>5, <1>6, IndexedOK

\* A fetched design is indexed, or the main one searched for.
LEMMA FetchedOK ==
    ASSUME NEW q \in Request, q.kind # "item", q.asked \in Designs, q.cur \in Designs,
           FetchDue(q),
           NEW design \in Design, NEW bs, bs = Sold[q.cur], NEW n \in Fetched(q, design, bs)
    PROVE  RequestOK(n)
<1> DEFINE fetched == [design |-> design, bricks |-> bs]
<1>1. fetched \in WithBricks /\ fetched.bricks = Sold[q.cur] /\ fetched # None
  BY SitesTyped, NoneAssumption DEF WithBricks
<1> HIDE DEF fetched
<1>2. CASE q.main # None
  <2> DEFINE larger == WithEntry(q.index, q.cur, fetched)
             m == [q EXCEPT !.work = NoDesign, !.index = larger]
  <2>1. q.index \in Indexes /\ larger = WithEntry(q.index, q.cur, fetched)
    BY DEF Request
  <2>2. n \in Indexed(m)
    BY <1>2 DEF Fetched, fetched
  <2> HIDE DEF larger
  <2>3. /\ larger \in Indexes /\ DOMAIN larger = DOMAIN q.index \cup {q.cur}
        /\ larger[q.cur] = fetched
        /\ \A x \in DOMAIN q.index : x # q.cur => larger[x] = q.index[x]
    <3>1. q.index \in Indexes /\ q.cur \in Designs /\ fetched \in WithBricks
      BY <1>1, <2>1
    <3>2. Grown(q.index, q.cur, fetched, larger)
      BY <2>1, <3>1, IndexGrows, Zenon
    <3>3. QED
      BY <3>2 DEF Grown
  <2>4. /\ m \in Request /\ m.kind = q.kind /\ m.asked = q.asked /\ m.main = q.main
        /\ m.todo = q.todo /\ m.index = larger
    BY <2>3, IdleOK DEF Request
  <2> HIDE DEF m
  <2>5. BricksIndexed(m)
    BY <1>1, <1>2, <2>3, <2>4 DEF BricksIndexed, FetchDue
  <2>6. DOMAIN m.index \cup m.todo = {m.asked} \cup m.main.design.alternates
    BY <1>2, <2>3, <2>4 DEF FetchDue
  <2>7. QED
    BY <1>2, <2>2, <2>4, <2>5, <2>6, IndexedOK
<1>3. CASE q.main = None /\ design.status \in {"complete", "bricksNotFound"}
  <2>1. n \in MainIndexed(q, fetched)
    BY <1>3 DEF Fetched, fetched
  <2>2. QED
    BY <1>1, <1>3, <2>1, MainIndexedOK DEF FetchDue
<1>4. CASE q.main = None /\ design.status \notin {"complete", "bricksNotFound"}
  <2>1. n = [q EXCEPT !.main = fetched, !.work = NoDesign, !.pc = "search"]
    BY <1>4 DEF Fetched, fetched
  <2>2. /\ n \in Request /\ n.pc = "search" /\ n.main = fetched /\ n.asked = q.asked
        /\ n.cur = q.cur /\ n.kind = q.kind
    BY <1>1, <2>1, IdleOK DEF Request, Positions
  <2>3. QED
    BY <1>1, <1>4, <2>2 DEF RequestOK, Addressed, WorkTrue, IndexOnTheWay, FetchDue
<1>5. QED
  BY <1>2, <1>3, <1>4

----------------------------------------------------------------------------
(* Steps *)

\* A step that stores nothing, or something true, leaves the cache in order.
LEMMA StoreKeeps ==
    ASSUME CacheOK, NEW d, NEW design \in Design, Truthful(d, design), StoreDesign(d, design)
    PROVE  /\ designs' \in [Designs -> Design \cup {None}]
           /\ \A x \in Designs : designs'[x] # None => Truthful(x, designs'[x])
           /\ faults' \in 0..MaxFaults
BY SitesTyped DEF CacheOK, StoreDesign, Fault

\* A request that fails is one at rest.
LEMMA FailsKeeps ==
    ASSUME CacheOK, RequestsOK, NEW r \in Requests, Fails(r), UNCHANGED lapses
    PROVE  DesignInv'
<1>1. RequestsOK'
  <2>1. request' = [request EXCEPT ![r] = [Idle EXCEPT !.pc = "refused"]]
    BY DEF Fails, Refuse
  <2>2. [Idle EXCEPT !.pc = "refused"] \in Request
    BY IdleOK DEF RequestOK
  <2>3. QED
    BY <2>1, <2>2, IdleOK DEF RequestsOK
<1>2. CacheOK'
  BY SitesTyped DEF Fails, Fault, CacheOK
<1>3. QED
  BY <1>1, <1>2 DEF DesignInv

\* A step of one request that leaves it in order leaves all in order.
LEMMA OneRequest ==
    ASSUME RequestsOK, NEW r \in Requests, NEW q, RequestOK(q), request' = [request EXCEPT ![r] = q]
    PROVE  RequestsOK'
<1>1. q \in Request
  BY DEF RequestOK
<1>2. request' \in [Requests -> Request] /\ \A s \in Requests : request'[s] = IF s = r THEN q ELSE request[s]
  BY <1>1 DEF RequestsOK
<1>3. QED
  BY <1>2 DEF RequestsOK

\* The cache is in order when nothing of it changes.
LEMMA CacheKept == CacheOK /\ UNCHANGED <<designs, bricks, faults, lapses>> => CacheOK'
BY DEF CacheOK

\* A request begins at rest and with an address.
LEMMA BeginKeeps ==
    ASSUME DesignInv, NEW r \in Requests, Begin(r), UNCHANGED lapses PROVE DesignInv'
<1>1. CacheOK /\ RequestsOK /\ Idle \in Request
  BY IdleOK DEF DesignInv, RequestOK
<1>2. CacheOK'
  BY <1>1, CacheKept DEF Begin
<1>3. CASE \E d \in Designs :
              request' = [request EXCEPT ![r] =
                [Idle EXCEPT !.pc = "lookup", !.kind = "design", !.asked = d, !.cur = d]]
  <2>1. PICK d \in Designs :
              request' = [request EXCEPT ![r] =
                [Idle EXCEPT !.pc = "lookup", !.kind = "design", !.asked = d, !.cur = d]]
    BY <1>3
  <2> DEFINE q == [Idle EXCEPT !.pc = "lookup", !.kind = "design", !.asked = d, !.cur = d]
  <2>2. q \in Request /\ q.pc = "lookup" /\ q.kind = "design" /\ q.asked = d /\ q.cur = d /\ q.main = None
    BY <1>1 DEF Request, Positions, Idle
  <2> HIDE DEF q
  <2>3. RequestOK(q)
    BY <2>2 DEF RequestOK, Addressed, WorkTrue, IndexOnTheWay, FetchDue
  <2>4. request' = [request EXCEPT ![r] = q]
    BY <2>1 DEF q
  <2>5. QED
    BY <1>1, <1>2, <2>3, <2>4, OneRequest DEF DesignInv
<1>4. CASE \E e \in Elements :
              request' = [request EXCEPT ![r] =
                [Idle EXCEPT !.pc = "element", !.kind = "element", !.element = e]]
  <2>1. PICK e \in Elements :
              request' = [request EXCEPT ![r] =
                [Idle EXCEPT !.pc = "element", !.kind = "element", !.element = e]]
    BY <1>4
  <2> DEFINE q == [Idle EXCEPT !.pc = "element", !.kind = "element", !.element = e]
  <2>2. q \in Request /\ q.pc = "element" /\ q.kind = "element" /\ q.element = e /\ q.main = None
    BY <1>1 DEF Request, Positions, Idle
  <2> HIDE DEF q
  <2>3. RequestOK(q)
    BY <2>2 DEF RequestOK, Addressed, WorkTrue, IndexOnTheWay, FetchDue
  <2>4. request' = [request EXCEPT ![r] = q]
    BY <2>1 DEF q
  <2>5. QED
    BY <1>1, <1>2, <2>3, <2>4, OneRequest DEF DesignInv
<1>5. CASE \E d \in Designs, e \in Elements \cup {None} :
              request' = [request EXCEPT ![r] =
                [Idle EXCEPT !.pc = "getDesign", !.kind = "item", !.asked = d, !.cur = d, !.element = e]]
  <2>1. PICK d \in Designs, e \in Elements \cup {None} :
              request' = [request EXCEPT ![r] =
                [Idle EXCEPT !.pc = "getDesign", !.kind = "item", !.asked = d, !.cur = d, !.element = e]]
    BY <1>5
  <2> DEFINE q == [Idle EXCEPT !.pc = "getDesign", !.kind = "item", !.asked = d, !.cur = d, !.element = e]
  <2>2. q \in Request /\ q.pc = "getDesign" /\ q.kind = "item" /\ q.asked = d /\ q.cur = d
    BY <1>1 DEF Request, Positions, Idle
  <2> HIDE DEF q
  <2>3. RequestOK(q)
    BY <2>2 DEF RequestOK, Addressed, WorkTrue, IndexOnTheWay, FetchDue
  <2>4. request' = [request EXCEPT ![r] = q]
    BY <2>1 DEF q
  <2>5. QED
    BY <1>1, <1>2, <2>3, <2>4, OneRequest DEF DesignInv
<1>6. QED
  BY <1>3, <1>4, <1>5 DEF Begin

\* What a step of a request finds.
LEMMA InHand ==
    ASSUME DesignInv, NEW r \in Requests
    PROVE  /\ CacheOK /\ RequestsOK /\ RequestOK(request[r]) /\ request[r] \in Request
           /\ request \in [Requests -> Request]
BY DEF DesignInv, RequestsOK, RequestOK

\* An error answers the request.
LEMMA RefuseKeeps ==
    ASSUME RequestsOK, NEW r \in Requests, Refuse(r) PROVE RequestsOK'
<1>1. request' = [request EXCEPT ![r] = [Idle EXCEPT !.pc = "refused"]]
  BY DEF Refuse
<1>2. QED
  BY <1>1, IdleOK, OneRequest

\* A request that takes up a design to fetch more of it.
LEMMA WorkTaken ==
    ASSUME NEW q \in Request, q.kind # "item", q.asked \in Designs, q.cur \in Designs, FetchDue(q),
           NEW pc \in {"fetchMinimal", "fetchBricks"}, NEW design \in Design,
           pc = "fetchMinimal" => /\ design.status \notin {"minimal", "bricksNotFound"}
                                  /\ Plausible(q.cur, design),
           pc = "fetchBricks" => /\ design.status \in {"unknown", "minimal", "bricks"}
                                 /\ Truthful(q.cur, design)
    PROVE  RequestOK([q EXCEPT !.pc = pc, !.work = design])
<1> DEFINE n == [q EXCEPT !.pc = pc, !.work = design]
<1>1. /\ n \in Request /\ n.pc = pc /\ n.work = design /\ n.cur = q.cur /\ n.asked = q.asked
      /\ n.kind = q.kind /\ n.main = q.main /\ n.index = q.index /\ n.todo = q.todo
  BY DEF Request, Positions
<1> HIDE DEF n
<1>2. FetchDue(n)
  BY <1>1 DEF FetchDue, BricksIndexed
<1>3. RequestOK(n)
  BY <1>1, <1>2 DEF RequestOK, Addressed, WorkTrue, IndexOnTheWay
<1>4. QED
  BY <1>3 DEF n

\* A lookup goes on with what its entry and the main design's data leave to fetch.
LEMMA LookupKeeps ==
    ASSUME DesignInv, NEW r \in Requests, Lookup(r), UNCHANGED lapses PROVE DesignInv'
<1> DEFINE q == request[r]
           default == IF q.main = None THEN NoDesign ELSE q.main.design
           design == Defaults(designs[q.cur], default, q.cur)
<1>1. /\ CacheOK /\ RequestsOK /\ request \in [Requests -> Request] /\ q \in Request
      /\ q.kind # "item" /\ q.asked \in Designs /\ q.cur \in Designs /\ FetchDue(q)
  BY InHand DEF Lookup, RequestOK, Addressed, IndexOnTheWay
<1>2. default \in Design
  BY <1>1, IdleOK DEF Request, WithBricks
<1>3. /\ designs[q.cur] \in Design \cup {None}
      /\ designs[q.cur] # None => Truthful(q.cur, designs[q.cur])
  BY <1>1 DEF CacheOK
<1> HIDE DEF default
<1>4. design \in Design /\ Plausible(q.cur, design)
  BY <1>1, <1>2, <1>3, DefaultsArePlausible
<1>5. \/ /\ CASE design.status = "minimal" ->
                 request' = [request EXCEPT ![r].pc = "fetchBricks", ![r].work = design]
              [] design.status = "bricksNotFound" -> GoesOn(r, Fetched(q, design, {}))
              [] OTHER ->
                 request' = [request EXCEPT ![r].pc = "fetchMinimal", ![r].work = design]
         /\ UNCHANGED <<designs, bricks, faults>>
      \/ Fails(r)
  BY DEF Lookup, default
<1> HIDE DEF design
<1>6. CASE Fails(r)
  BY <1>1, <1>6, FailsKeeps
<1>7. ASSUME ~Fails(r) PROVE DesignInv'
  <2>1. CacheOK'
    BY <1>1, <1>5, <1>7, CacheKept
  <2>2. CASE design.status = "minimal"
    <3>1. request' = [request EXCEPT ![r] = [q EXCEPT !.pc = "fetchBricks", !.work = design]]
      BY <1>1, <1>5, <1>7, <2>2
    <3>2. RequestOK([q EXCEPT !.pc = "fetchBricks", !.work = design])
      BY <1>1, <1>4, <2>2, WorkTaken DEF Plausible
    <3>3. QED
      BY <1>1, <2>1, <3>1, <3>2, OneRequest DEF DesignInv
  <2>3. CASE design.status = "bricksNotFound"
    <3>1. GoesOn(r, Fetched(q, design, {})) /\ {} = Sold[q.cur]
      BY <1>4, <1>5, <1>7, <2>3 DEF Plausible, Truthful
    <3>2. PICK n \in Fetched(q, design, {}) : request' = [request EXCEPT ![r] = n]
      BY <3>1 DEF GoesOn
    <3>3. RequestOK(n)
      BY <1>1, <1>4, <3>1, <3>2, FetchedOK
    <3>4. QED
      BY <1>1, <2>1, <3>2, <3>3, OneRequest DEF DesignInv
  <2>4. CASE design.status \notin {"minimal", "bricksNotFound"}
    <3>1. request' = [request EXCEPT ![r] = [q EXCEPT !.pc = "fetchMinimal", !.work = design]]
      BY <1>1, <1>5, <1>7, <2>4
    <3>2. RequestOK([q EXCEPT !.pc = "fetchMinimal", !.work = design])
      BY <1>1, <1>4, <2>4, WorkTaken
    <3>3. QED
      BY <1>1, <2>1, <3>1, <3>2, OneRequest DEF DesignInv
  <2>5. QED
    BY <2>2, <2>3, <2>4
<1>8. QED
  BY <1>6, <1>7

\* What Rebrickable says of a design is stored and worked on.
LEMMA FetchMinimalKeeps ==
    ASSUME DesignInv, NEW r \in Requests, FetchMinimal(r), UNCHANGED lapses PROVE DesignInv'
<1> DEFINE q == request[r]
           design == MinimalDesign(q.cur, q.work)
<1>1. /\ CacheOK /\ RequestsOK /\ request \in [Requests -> Request] /\ q \in Request /\ q.work \in Design
      /\ q.kind # "item" /\ q.asked \in Designs /\ q.cur \in Designs /\ FetchDue(q)
      /\ q.work.status \notin {"minimal", "bricksNotFound"} /\ Plausible(q.cur, q.work)
  BY InHand DEF FetchMinimal, RequestOK, Addressed, WorkTrue, IndexOnTheWay, Request
<1>2. /\ design \in Design /\ Truthful(q.cur, design)
      /\ design.status \in {"unknown", "minimal", "bricks"}
  BY <1>1, MinimalIsTrue
<1>3. \/ /\ request' = [request EXCEPT ![r].pc = "fetchBricks", ![r].work = design]
         /\ StoreDesign(q.cur, design) /\ UNCHANGED bricks
      \/ Fails(r)
  BY DEF FetchMinimal
<1> HIDE DEF design
<1>4. CASE Fails(r)
  BY <1>1, <1>4, FailsKeeps
<1>5. ASSUME ~Fails(r) PROVE DesignInv'
  <2>1. request' = [request EXCEPT ![r] = [q EXCEPT !.pc = "fetchBricks", !.work = design]]
    BY <1>1, <1>3, <1>5
  <2>2. RequestOK([q EXCEPT !.pc = "fetchBricks", !.work = design])
    BY <1>1, <1>2, WorkTaken
  <2>3. CacheOK'
    BY <1>1, <1>2, <1>3, <1>5, StoreKeeps DEF CacheOK
  <2>4. QED
    BY <1>1, <2>1, <2>2, <2>3, OneRequest DEF DesignInv
<1>6. QED
  BY <1>4, <1>5

\* What the cache is told of bricks is of the kind it holds.
LEMMA BricksTyped ==
    ASSUME CacheOK, NEW d \in Designs
    PROVE  /\ \A e \in Elements : Offer(e) \in BrickEntry
           /\ BricksOfDesign(d) \in [Elements -> BrickEntry \cup {None}]
BY SitesTyped DEF CacheOK, Offer, BrickEntry, BricksOfDesign

LEMMA StoreBricksKeeps ==
    ASSUME CacheOK, NEW d \in Designs, StoreBricks(d)
    PROVE  bricks' \in [Elements -> BrickEntry \cup {None}] /\ faults' \in 0..MaxFaults
<1>1. CASE bricks' = BricksOfDesign(d) /\ UNCHANGED faults
  BY <1>1, BricksTyped DEF CacheOK
<1>2. CASE /\ Fault
           /\ \E e \in Sold[d] : \E b \in {bricks[e], Offer(e)} :
                 bricks' = [BricksOfDesign(d) EXCEPT ![e] = b]
  <2>1. PICK e \in Sold[d] : \E b \in {bricks[e], Offer(e)} :
                 bricks' = [BricksOfDesign(d) EXCEPT ![e] = b]
    BY <1>2
  <2>2. PICK b \in {bricks[e], Offer(e)} : bricks' = [BricksOfDesign(d) EXCEPT ![e] = b]
    BY <2>1
  <2>3. e \in Elements /\ b \in BrickEntry \cup {None}
    BY <2>1, <2>2, BricksTyped, SitesTyped DEF CacheOK
  <2>4. faults' \in 0..MaxFaults
    BY <1>2, SitesTyped DEF Fault, CacheOK
  <2>5. QED
    BY <2>2, <2>3, <2>4, BricksTyped
<1>3. QED
  BY <1>1, <1>2 DEF StoreBricks

LEMMA StoreBrickKeeps ==
    ASSUME CacheOK, NEW e, NEW b \in BrickEntry, StoreBrick(e, b)
    PROVE  bricks' \in [Elements -> BrickEntry \cup {None}] /\ faults' \in 0..MaxFaults
BY SitesTyped DEF CacheOK, StoreBrick, Fault

\* What Pick a Brick says of a design is stored and indexed.
LEMMA FetchBricksKeeps ==
    ASSUME DesignInv, NEW r \in Requests, FetchBricks(r), UNCHANGED lapses PROVE DesignInv'
<1> DEFINE q == request[r]
           design == DesignOfBricks(q.cur, q.work)
<1>1. /\ CacheOK /\ RequestsOK /\ request \in [Requests -> Request] /\ q \in Request /\ q.work \in Design
      /\ q.kind # "item" /\ q.asked \in Designs /\ q.cur \in Designs /\ FetchDue(q)
      /\ q.work.status \in {"unknown", "minimal", "bricks"} /\ Truthful(q.cur, q.work)
  BY InHand DEF FetchBricks, RequestOK, Addressed, WorkTrue, IndexOnTheWay, Request
<1>2. design \in Design /\ Truthful(q.cur, design)
  BY <1>1, BricksAreTrue
<1>3. \/ /\ GoesOn(r, Fetched(q, design, Sold[q.cur]))
         /\ \/ StoreBricks(q.cur) /\ designs' = [designs EXCEPT ![q.cur] = design]
            \/ bricks' = BricksOfDesign(q.cur) /\ Fault /\ UNCHANGED designs
      \/ Fails(r)
  BY DEF FetchBricks
<1> HIDE DEF design
<1>4. CASE Fails(r)
  BY <1>1, <1>4, FailsKeeps
<1>5. ASSUME ~Fails(r) PROVE DesignInv'
  <2>1. PICK n \in Fetched(q, design, Sold[q.cur]) : request' = [request EXCEPT ![r] = n]
    BY <1>3, <1>5 DEF GoesOn
  <2>2. RequestsOK'
    <3>1. RequestOK(n)
      BY <1>1, <1>2, <2>1, FetchedOK
    <3>2. QED
      BY <1>1, <2>1, <3>1, OneRequest
  <2>3. bricks' \in [Elements -> BrickEntry \cup {None}] /\ faults' \in 0..MaxFaults
    <3>1. CASE StoreBricks(q.cur)
      BY <1>1, <3>1, StoreBricksKeeps
    <3>2. CASE bricks' = BricksOfDesign(q.cur) /\ Fault
      BY <1>1, <3>2, BricksTyped, SitesTyped DEF Fault, CacheOK
    <3>3. QED
      BY <1>3, <1>5, <3>1, <3>2
  <2>4. /\ designs' \in [Designs -> Design \cup {None}]
        /\ \A d \in Designs : designs'[d] # None => Truthful(d, designs'[d])
    BY <1>1, <1>2, <1>3, <1>5 DEF CacheOK
  <2>5. CacheOK'
    BY <1>1, <2>3, <2>4 DEF CacheOK
  <2>6. QED
    BY <2>2, <2>5 DEF DesignInv
<1>6. QED
  BY <1>4, <1>5

\* The main design is searched for, to be got like that of a search result.
LEMMA SearchDesignKeeps ==
    ASSUME DesignInv, NEW r \in Requests, SearchDesign(r), UNCHANGED lapses PROVE DesignInv'
<1> DEFINE q == request[r]
<1>1. /\ CacheOK /\ RequestsOK /\ request \in [Requests -> Request] /\ q \in Request
      /\ q.kind # "item" /\ q.asked \in Designs /\ q.main # None /\ q.main.bricks = Sold[q.asked]
  BY InHand DEF SearchDesign, RequestOK, Addressed, IndexOnTheWay
<1>2. CASE Fails(r)
  BY <1>1, <1>2, FailsKeeps
<1>3. ASSUME ~Fails(r) PROVE DesignInv'
  <2>1. CacheOK'
    BY <1>1, <1>3, CacheKept DEF SearchDesign
  <2>2. CASE Refuse(r)
    BY <1>1, <2>1, <2>2, RefuseKeeps DEF DesignInv
  <2>3. ASSUME ~Refuse(r) PROVE DesignInv'
    <3>1. PICK d \in FoundBy[q.asked] :
              request' = [request EXCEPT ![r].pc = "getDesign", ![r].cur = d]
      BY <1>3, <2>3 DEF SearchDesign
    <3> DEFINE n == [q EXCEPT !.pc = "getDesign", !.cur = d]
    <3>2. request' = [request EXCEPT ![r] = n] /\ d \in Designs
      BY <1>1, <3>1, SitesTyped
    <3>3. /\ n \in Request /\ n.pc = "getDesign" /\ n.cur = d /\ n.asked = q.asked
          /\ n.kind = q.kind /\ n.main = q.main
      BY <1>1, <3>2 DEF Request, Positions
    <3> HIDE DEF n
    <3>4. RequestOK(n)
      BY <1>1, <3>2, <3>3 DEF RequestOK, Addressed, WorkTrue, IndexOnTheWay
    <3>5. QED
      BY <1>1, <2>1, <3>2, <3>4, OneRequest DEF DesignInv
  <2>4. QED
    BY <2>2, <2>3
<1>4. QED
  BY <1>2, <1>3

\* With its design a search result is answered or goes on with its element, a
\* detail request stores what is true.
LEMMA GotOK ==
    ASSUME NEW q \in Request, RequestOK(q), q.pc \in {"getDesign", "getMinimal"},
           NEW design \in Design, Truthful(q.cur, design)
    PROVE  RequestOK(Got(q, design))
<1>1. q.asked \in Designs /\ q.cur \in Designs /\ IndexOnTheWay(q)
  BY DEF RequestOK, Addressed
<1>2. CASE q.kind = "item"
  <2>1. Got(q, design) = IF q.element = None THEN Answered(q) ELSE [q EXCEPT !.pc = "locale", !.work = NoDesign]
    BY <1>2 DEF Got
  <2>2. PICK n : n = Got(q, design)
    OBVIOUS
  <2>3. /\ n \in Request /\ n.pc \in {"answered", "locale"} /\ n.kind = "item" /\ n.asked = q.asked
        /\ n.pc = "locale" => n.cur = q.cur
    <3>1. CASE q.element = None
      <4>1. n = Answered(q)
        BY <2>1, <2>2, <3>1
      <4>2. QED
        BY <1>2, <4>1, IdleOK DEF Answered, Request, Positions
    <3>2. CASE q.element # None
      <4>1. n = [q EXCEPT !.pc = "locale", !.work = NoDesign]
        BY <2>1, <2>2, <3>2
      <4>2. QED
        BY <1>2, <4>1, IdleOK DEF Request, Positions
    <3>3. QED
      BY <3>1, <3>2
  <2>4. RequestOK(n)
    BY <1>1, <2>3 DEF RequestOK, Addressed, WorkTrue, IndexOnTheWay
  <2>5. QED
    BY <2>2, <2>4
<1>3. CASE q.kind # "item" /\ design.status = "unknown"
  <2>1. Got(q, design) = [Idle EXCEPT !.pc = "refused"]
    BY <1>3 DEF Got
  <2>2. QED
    BY <2>1, IdleOK
<1>4. CASE q.kind # "item" /\ design.status # "unknown"
  <2>1. PICK n : n = [q EXCEPT !.pc = "cacheMain", !.work = design]
    OBVIOUS
  <2>2. n = Got(q, design)
    BY <1>4, <2>1 DEF Got
  <2>3. /\ n \in Request /\ n.pc = "cacheMain" /\ n.work = design /\ n.kind = q.kind /\ n.asked = q.asked
        /\ n.cur = q.cur /\ n.main = q.main
    BY <2>1 DEF Request, Positions
  <2>4. RequestOK(n)
    BY <1>1, <1>4, <2>3 DEF RequestOK, Addressed, WorkTrue, IndexOnTheWay
  <2>5. QED
    BY <2>2, <2>4
<1>5. QED
  BY <1>2, <1>3, <1>4

LEMMA GetDesignKeeps ==
    ASSUME DesignInv, NEW r \in Requests, GetDesign(r), UNCHANGED lapses PROVE DesignInv'
<1> DEFINE q == request[r]
           cached == IF designs[q.cur] = None THEN NoDesign ELSE designs[q.cur]
<1>1. /\ CacheOK /\ RequestsOK /\ request \in [Requests -> Request] /\ q \in Request /\ RequestOK(q)
      /\ q.pc = "getDesign" /\ q.asked \in Designs /\ q.cur \in Designs
  BY InHand DEF GetDesign, RequestOK, Addressed
<1>2. cached \in Design /\ (cached.status = "unknown" \/ Truthful(q.cur, cached))
  BY <1>1, IdleOK DEF CacheOK, NoDesign
<1>3. \/ /\ request' = [request EXCEPT ![r] =
               IF cached.status \in {"unknown", "bricks"}
               THEN [q EXCEPT !.pc = "getMinimal", !.work = cached]
               ELSE Got(q, cached)]
         /\ UNCHANGED <<designs, bricks, faults>>
      \/ Fails(r)
  BY DEF GetDesign
<1> HIDE DEF cached
<1>4. CASE Fails(r)
  BY <1>1, <1>4, FailsKeeps
<1>5. ASSUME ~Fails(r) PROVE DesignInv'
  <2>1. CacheOK'
    BY <1>1, <1>3, <1>5, CacheKept
  <2>2. CASE cached.status \in {"unknown", "bricks"}
    <3> DEFINE n == [q EXCEPT !.pc = "getMinimal", !.work = cached]
    <3>1. /\ n \in Request /\ n.pc = "getMinimal" /\ n.work = cached /\ n.kind = q.kind
          /\ n.asked = q.asked /\ n.cur = q.cur /\ n.main = q.main
      BY <1>1, <1>2 DEF Request, Positions
    <3>2. request' = [request EXCEPT ![r] = n]
      BY <1>3, <1>5, <2>2
    <3> HIDE DEF n
    <3>3. RequestOK(n)
      BY <1>1, <1>2, <2>2, <3>1 DEF RequestOK, Addressed, WorkTrue, IndexOnTheWay, Plausible
    <3>4. QED
      BY <1>1, <2>1, <3>2, <3>3, OneRequest DEF DesignInv
  <2>3. CASE cached.status \notin {"unknown", "bricks"}
    <3>1. request' = [request EXCEPT ![r] = Got(q, cached)]
      BY <1>3, <1>5, <2>3
    <3>2. RequestOK(Got(q, cached))
      BY <1>1, <1>2, <2>3, GotOK
    <3>3. QED
      BY <1>1, <2>1, <3>1, <3>2, OneRequest DEF DesignInv
  <2>4. QED
    BY <2>2, <2>3
<1>6. QED
  BY <1>4, <1>5

LEMMA GetMinimalKeeps ==
    ASSUME DesignInv, NEW r \in Requests, GetMinimal(r), UNCHANGED lapses PROVE DesignInv'
<1> DEFINE q == request[r]
           design == MinimalDesign(q.cur, q.work)
<1>1. /\ CacheOK /\ RequestsOK /\ request \in [Requests -> Request] /\ q \in Request /\ RequestOK(q)
      /\ q.pc = "getMinimal" /\ q.cur \in Designs /\ q.work \in Design
      /\ q.work.status \notin {"minimal", "bricksNotFound"} /\ Plausible(q.cur, q.work)
  BY InHand DEF GetMinimal, RequestOK, Addressed, WorkTrue, Request
<1>2. design \in Design /\ Truthful(q.cur, design)
  BY <1>1, MinimalIsTrue
<1>3. \/ /\ request' = [request EXCEPT ![r] = Got(q, design)]
         /\ StoreDesign(q.cur, design) /\ UNCHANGED bricks
      \/ Fails(r)
  BY DEF GetMinimal
<1> HIDE DEF design
<1>4. CASE Fails(r)
  BY <1>1, <1>4, FailsKeeps
<1>5. ASSUME ~Fails(r) PROVE DesignInv'
  <2>1. RequestOK(Got(q, design))
    BY <1>1, <1>2, GotOK
  <2>2. CacheOK'
    BY <1>1, <1>2, <1>3, <1>5, StoreKeeps DEF CacheOK
  <2>3. QED
    BY <1>1, <1>3, <1>5, <2>1, <2>2, OneRequest DEF DesignInv
<1>6. QED
  BY <1>4, <1>5

LEMMA CacheMainKeeps ==
    ASSUME DesignInv, NEW r \in Requests, CacheMain(r), UNCHANGED lapses PROVE DesignInv'
<1> DEFINE q == request[r]
           n == [q EXCEPT !.pc = "cacheRequested"]
<1>1. /\ CacheOK /\ RequestsOK /\ request \in [Requests -> Request] /\ q \in Request /\ RequestOK(q)
      /\ q.pc = "cacheMain" /\ q.work \in Design /\ Truthful(q.cur, q.work)
  BY InHand DEF CacheMain, RequestOK, WorkTrue, Request
<1>2. request' = [request EXCEPT ![r] = n] /\ StoreDesign(q.cur, q.work) /\ UNCHANGED bricks
  BY <1>1 DEF CacheMain, Goto
<1>3. /\ n \in Request /\ n.pc = "cacheRequested" /\ n.work = q.work /\ n.cur = q.cur
      /\ n.asked = q.asked /\ n.kind = q.kind /\ n.main = q.main
  BY <1>1 DEF Request, Positions
<1> HIDE DEF n
<1>4. RequestOK(n)
  BY <1>1, <1>3 DEF RequestOK, Addressed, WorkTrue, IndexOnTheWay
<1>5. CacheOK'
  BY <1>1, <1>2, StoreKeeps DEF CacheOK
<1>6. QED
  BY <1>1, <1>2, <1>4, <1>5, OneRequest DEF DesignInv

\* The alternates change hands, the status and the bricks stay.
LEMMA CacheRequestedKeeps ==
    ASSUME DesignInv, NEW r \in Requests, CacheRequested(r), UNCHANGED lapses PROVE DesignInv'
<1> DEFINE q == request[r]
           swapped == IF q.asked \in q.work.alternates
                      THEN (q.work.alternates \ {q.asked}) \cup {q.cur}
                      ELSE q.work.alternates
           main == [q.main EXCEPT !.design.alternates = swapped]
           stored == [q.work EXCEPT !.alternates = swapped]
<1>1. /\ CacheOK /\ RequestsOK /\ request \in [Requests -> Request] /\ q \in Request
      /\ q.kind # "item" /\ q.asked \in Designs /\ q.cur \in Designs
      /\ q.work \in Design /\ Truthful(q.cur, q.work)
      /\ q.main \in WithBricks /\ q.main.bricks = Sold[q.asked]
  BY InHand DEF CacheRequested, RequestOK, Addressed, WorkTrue, IndexOnTheWay, Request
<1>2. swapped \subseteq Designs
  BY <1>1 DEF Design
<1>3. /\ GoesOn(r, MainIndexed(q, main)) /\ StoreDesign(q.cur, stored) /\ UNCHANGED bricks
  BY DEF CacheRequested
<1> HIDE DEF swapped
<1>4. main \in WithBricks /\ main.bricks = q.main.bricks
  BY <1>1, <1>2 DEF WithBricks, Design
<1>5. stored \in Design /\ stored.status = q.work.status /\ stored.elements = q.work.elements
  BY <1>1, <1>2 DEF Design
<1> HIDE DEF main, stored
<1>6. PICK n \in MainIndexed(q, main) : request' = [request EXCEPT ![r] = n]
  BY <1>3 DEF GoesOn
<1>7. RequestOK(n)
  BY <1>1, <1>4, <1>6, MainIndexedOK
<1>8. Truthful(q.cur, stored)
  BY <1>1, <1>5 DEF Truthful
<1>9. CacheOK'
  BY <1>1, <1>3, <1>5, <1>8, StoreKeeps DEF CacheOK
<1>10. QED
  BY <1>1, <1>6, <1>7, <1>9, OneRequest DEF DesignInv

\* A request that moves on to its lookup has a design to look up.
LEMMA LookedUp ==
    ASSUME NEW n \in Request, n.pc = "lookup", n.kind # "item",
           n.asked \in Designs, n.cur = n.asked, n.main = None
    PROVE  RequestOK(n)
BY DEF RequestOK, Addressed, WorkTrue, IndexOnTheWay, FetchDue

\* An element's cached entry names its design; without one it is searched for.
LEMMA ElementKeeps ==
    ASSUME DesignInv, NEW r \in Requests, Element(r), UNCHANGED lapses PROVE DesignInv'
<1> DEFINE q == request[r]
           e == q.element
<1>1. /\ CacheOK /\ RequestsOK /\ request \in [Requests -> Request] /\ q \in Request /\ RequestOK(q)
      /\ q.pc = "element" /\ q.kind # "item" /\ e \in Elements /\ q.main = None
  BY InHand DEF Element, RequestOK, Addressed, IndexOnTheWay
<1>2. CacheOK'
  BY <1>1, SitesTyped DEF Element, Fault, CacheOK
<1>3. CASE /\ bricks[e] # None
           /\ request' = [request EXCEPT ![r].pc = "lookup",
                 ![r].asked = bricks[e].design, ![r].cur = bricks[e].design]
  <2>1. bricks[e].design \in Designs
    BY <1>1, <1>3 DEF CacheOK, BrickEntry
  <2> DEFINE n == [q EXCEPT !.pc = "lookup", !.asked = bricks[e].design, !.cur = bricks[e].design]
  <2>2. request' = [request EXCEPT ![r] = n]
    BY <1>1, <1>3
  <2>3. /\ n \in Request /\ n.pc = "lookup" /\ n.kind = q.kind /\ n.asked \in Designs
        /\ n.cur = n.asked /\ n.main = q.main
    BY <1>1, <2>1 DEF Request, Positions
  <2> HIDE DEF n
  <2>4. RequestOK(n)
    BY <1>1, <2>3, LookedUp
  <2>5. QED
    BY <1>1, <1>2, <2>2, <2>4, OneRequest DEF DesignInv
<1>4. CASE Goto(r, "searchElement")
  <2> DEFINE n == [q EXCEPT !.pc = "searchElement"]
  <2>1. request' = [request EXCEPT ![r] = n]
    BY <1>1, <1>4 DEF Goto
  <2>2. n \in Request /\ n.pc = "searchElement" /\ n.kind = q.kind /\ n.element = e /\ n.main = q.main
    BY <1>1 DEF Request, Positions
  <2> HIDE DEF n
  <2>3. RequestOK(n)
    BY <1>1, <2>2 DEF RequestOK, Addressed, WorkTrue, IndexOnTheWay
  <2>4. QED
    BY <1>1, <1>2, <2>1, <2>3, OneRequest DEF DesignInv
<1>5. QED
  BY <1>3, <1>4 DEF Element

LEMMA SearchElementKeeps ==
    ASSUME DesignInv, NEW r \in Requests, SearchElement(r), UNCHANGED lapses PROVE DesignInv'
<1> DEFINE q == request[r]
<1>1. /\ CacheOK /\ RequestsOK /\ request \in [Requests -> Request] /\ q \in Request
      /\ q.element \in Elements /\ q.main = None
  BY InHand DEF SearchElement, RequestOK, Addressed, IndexOnTheWay
<1>2. CASE Fails(r)
  BY <1>1, <1>2, FailsKeeps
<1>3. ASSUME ~Fails(r) PROVE DesignInv'
  <2>1. CacheOK'
    BY <1>1, <1>3, CacheKept DEF SearchElement
  <2>2. CASE Refuse(r)
    BY <1>1, <2>1, <2>2, RefuseKeeps DEF DesignInv
  <2>3. ASSUME ~Refuse(r) PROVE DesignInv'
    <3>1. PICK d \in FoundBy[q.element] :
              request' = [request EXCEPT ![r].pc = "lookup", ![r].kind = "searched",
                                         ![r].asked = d, ![r].cur = d]
      BY <1>3, <2>3 DEF SearchElement
    <3> DEFINE n == [q EXCEPT !.pc = "lookup", !.kind = "searched", !.asked = d, !.cur = d]
    <3>2. request' = [request EXCEPT ![r] = n] /\ d \in Designs
      BY <1>1, <3>1, SitesTyped
    <3>3. /\ n \in Request /\ n.pc = "lookup" /\ n.kind = "searched" /\ n.asked \in Designs
          /\ n.cur = n.asked /\ n.main = q.main
      BY <1>1, <3>2 DEF Request, Positions
    <3> HIDE DEF n
    <3>4. RequestOK(n)
      BY <1>1, <3>3, LookedUp
    <3>5. QED
      BY <1>1, <2>1, <3>2, <3>4, OneRequest DEF DesignInv
  <2>4. QED
    BY <2>2, <2>3
<1>4. QED
  BY <1>2, <1>3

\* The answer keeps the index.
LEMMA AnsweredOK ==
    ASSUME NEW q \in Request, RequestOK(q), q.pc \in {"brick", "locale", "storeLocale"}
    PROVE  RequestOK(Answered(q))
<1> DEFINE n == Answered(q)
<1>1. /\ n \in Request /\ n.pc = "answered" /\ n.kind = q.kind /\ n.asked = q.asked
      /\ n.main = q.main /\ n.index = q.index
  BY IdleOK DEF Answered, Request, Positions
<1> HIDE DEF n
<1>2. RequestOK(n)
  BY <1>1 DEF RequestOK, Addressed, WorkTrue, IndexOnTheWay, BricksIndexed
<1>3. QED
  BY <1>2 DEF n

LEMMA ItemMoves ==
    ASSUME NEW q \in Request, RequestOK(q), q.pc \in {"locale", "fetchBrick"},
           NEW pc \in {"fetchBrick", "storeLocale"}
    PROVE  RequestOK([q EXCEPT !.pc = pc])
<1> DEFINE n == [q EXCEPT !.pc = pc]
<1>1. /\ n \in Request /\ n.pc = pc /\ n.kind = q.kind /\ n.asked = q.asked /\ n.cur = q.cur
  BY DEF Request, Positions
<1> HIDE DEF n
<1>2. RequestOK(n)
  BY <1>1 DEF RequestOK, Addressed, WorkTrue, IndexOnTheWay
<1>3. QED
  BY <1>2 DEF n

LEMMA BrickKeeps ==
    ASSUME DesignInv, NEW r \in Requests, Brick(r), UNCHANGED lapses PROVE DesignInv'
<1>1. /\ CacheOK /\ RequestsOK /\ RequestOK(request[r]) /\ request[r] \in Request
      /\ request \in [Requests -> Request] /\ request[r].pc = "brick"
  BY InHand DEF Brick
<1>2. CacheOK'
  BY <1>1, SitesTyped DEF Brick, Fault, CacheOK
<1>3. CASE request' = [request EXCEPT ![r] = Answered(@)]
  <2>1. request' = [request EXCEPT ![r] = Answered(request[r])]
    BY <1>3
  <2>2. QED
    BY <1>1, <1>2, <2>1, AnsweredOK, OneRequest DEF DesignInv
<1>4. CASE Refuse(r)
  BY <1>1, <1>2, <1>4, RefuseKeeps DEF DesignInv
<1>5. QED
  BY <1>3, <1>4 DEF Brick

LEMMA LocaleKeeps ==
    ASSUME DesignInv, NEW r \in Requests, Locale(r), UNCHANGED lapses PROVE DesignInv'
<1>1. /\ CacheOK /\ RequestsOK /\ RequestOK(request[r]) /\ request[r] \in Request
      /\ request \in [Requests -> Request] /\ request[r].pc = "locale"
  BY InHand DEF Locale
<1>2. CacheOK'
  BY <1>1, SitesTyped DEF Locale, Fault, CacheOK
<1>3. CASE request' = [request EXCEPT ![r] = Answered(@)]
  <2>1. request' = [request EXCEPT ![r] = Answered(request[r])]
    BY <1>3
  <2>2. QED
    BY <1>1, <1>2, <2>1, AnsweredOK, OneRequest DEF DesignInv
<1>4. CASE Goto(r, "fetchBrick")
  <2>1. request' = [request EXCEPT ![r] = [request[r] EXCEPT !.pc = "fetchBrick"]]
    BY <1>1, <1>4 DEF Goto
  <2>2. QED
    BY <1>1, <1>2, <2>1, ItemMoves, OneRequest DEF DesignInv
<1>5. QED
  BY <1>3, <1>4 DEF Locale

\* What an item stores of its brick is of the kind the cache holds.
LEMMA ItemBrick ==
    ASSUME CacheOK, NEW e, NEW d \in Designs, NEW says \in {"not offered", "nothing"}
    PROVE  (IF e \in OnSale THEN Offer(e) ELSE [says |-> says, design |-> d]) \in BrickEntry
<1>1. e \in OnSale => e \in Elements
  BY SitesTyped DEF OnSale
<1>2. QED
  BY <1>1, SitesTyped DEF Offer, BrickEntry

LEMMA FetchBrickKeeps ==
    ASSUME DesignInv, NEW r \in Requests, FetchBrick(r), UNCHANGED lapses PROVE DesignInv'
<1> DEFINE q == request[r]
           b == IF q.element \in OnSale THEN Offer(q.element)
                ELSE [says |-> "not offered", design |-> q.asked]
<1>1. /\ CacheOK /\ RequestsOK /\ request \in [Requests -> Request] /\ q \in Request /\ RequestOK(q)
      /\ q.pc = "fetchBrick" /\ q.asked \in Designs
  BY InHand DEF FetchBrick, RequestOK, Addressed
<1>2. b \in BrickEntry
  BY <1>1, ItemBrick
<1>3. \/ Goto(r, "storeLocale") /\ StoreBrick(q.element, b) /\ UNCHANGED designs
      \/ Fails(r)
  BY DEF FetchBrick
<1> HIDE DEF b
<1>4. CASE Fails(r)
  BY <1>1, <1>4, FailsKeeps
<1>5. CASE Goto(r, "storeLocale") /\ StoreBrick(q.element, b) /\ UNCHANGED designs
  <2>1. request' = [request EXCEPT ![r] = [q EXCEPT !.pc = "storeLocale"]]
    BY <1>1, <1>5 DEF Goto
  <2>2. CacheOK'
    BY <1>1, <1>2, <1>5, StoreBrickKeeps DEF CacheOK
  <2>3. QED
    BY <1>1, <2>1, <2>2, ItemMoves, OneRequest DEF DesignInv
<1>6. QED
  BY <1>3, <1>4, <1>5

LEMMA StoreLocaleKeeps ==
    ASSUME DesignInv, NEW r \in Requests, StoreLocale(r), UNCHANGED lapses PROVE DesignInv'
<1> DEFINE q == request[r]
           b == IF q.element \in OnSale THEN Offer(q.element)
                ELSE [says |-> "nothing", design |-> q.asked]
<1>1. /\ CacheOK /\ RequestsOK /\ request \in [Requests -> Request] /\ q \in Request /\ RequestOK(q)
      /\ q.pc = "storeLocale" /\ q.asked \in Designs
  BY InHand DEF StoreLocale, RequestOK, Addressed
<1>2. b \in BrickEntry
  BY <1>1, ItemBrick
<1>3. /\ request' = [request EXCEPT ![r] = Answered(q)]
      /\ StoreBrick(q.element, b) /\ UNCHANGED designs
  BY DEF StoreLocale
<1> HIDE DEF b
<1>4. CacheOK'
  BY <1>1, <1>2, <1>3, StoreBrickKeeps DEF CacheOK
<1>5. QED
  BY <1>1, <1>3, <1>4, AnsweredOK, OneRequest DEF DesignInv

\* What lapses takes nothing with it that a request relies on.
LEMMA OutdateKeeps ==
    ASSUME DesignInv, NEW e \in Elements, Outdate(e) PROVE DesignInv'
<1>1. CacheOK'
  <2>1. bricks \in [Elements -> BrickEntry \cup {None}] /\ bricks[e] \in BrickEntry
    BY DEF DesignInv, CacheOK, Outdate, Tells
  <2>2. [bricks[e] EXCEPT !.says = "nothing"] \in BrickEntry
    BY <2>1 DEF BrickEntry
  <2>3. bricks' = [bricks EXCEPT ![e] = [bricks[e] EXCEPT !.says = "nothing"]]
    BY <2>1 DEF Outdate
  <2>4. bricks' \in [Elements -> BrickEntry \cup {None}]
    BY <2>1, <2>2, <2>3
  <2>5. lapses' \in 0..MaxLapses
    BY SitesTyped DEF Outdate, DesignInv, CacheOK
  <2>6. QED
    BY <2>4, <2>5 DEF Outdate, DesignInv, CacheOK
<1>2. RequestsOK'
  BY DEF Outdate, DesignInv, RequestsOK
<1>3. QED
  BY <1>1, <1>2 DEF DesignInv

LEMMA ExpireKeeps == ASSUME DesignInv, Expire PROVE DesignInv'
<1>1. CacheOK'
  BY SitesTyped DEF Expire, DesignInv, CacheOK
<1>2. RequestsOK'
  BY DEF Expire, DesignInv, RequestsOK
<1>3. QED
  BY <1>1, <1>2 DEF DesignInv

LEMMA DesignInvInit == Init => DesignInv
<1> SUFFICES ASSUME Init PROVE DesignInv
  OBVIOUS
<1>1. CacheOK
  BY SitesTyped DEF Init, CacheOK
<1>2. RequestsOK
  <2>1. Idle \in Request
    BY IdleOK DEF RequestOK
  <2>2. QED
    BY <2>1, IdleOK DEF Init, RequestsOK
<1>3. QED
  BY <1>1, <1>2 DEF DesignInv

LEMMA DesignInvNext == DesignInv /\ [Next]_vars => DesignInv'
<1> SUFFICES ASSUME DesignInv, [Next]_vars PROVE DesignInv'
  OBVIOUS
<1>1. ASSUME NEW r \in Requests, Begin(r) \/ Step(r), UNCHANGED lapses PROVE DesignInv'
  <2>1. CASE Begin(r)
    BY <1>1, <2>1, BeginKeeps
  <2>2. CASE Lookup(r)
    BY <1>1, <2>2, LookupKeeps
  <2>3. CASE FetchMinimal(r)
    BY <1>1, <2>3, FetchMinimalKeeps
  <2>4. CASE FetchBricks(r)
    BY <1>1, <2>4, FetchBricksKeeps
  <2>5. CASE SearchDesign(r)
    BY <1>1, <2>5, SearchDesignKeeps
  <2>6. CASE GetDesign(r)
    BY <1>1, <2>6, GetDesignKeeps
  <2>7. CASE GetMinimal(r)
    BY <1>1, <2>7, GetMinimalKeeps
  <2>8. CASE CacheMain(r)
    BY <1>1, <2>8, CacheMainKeeps
  <2>9. CASE CacheRequested(r)
    BY <1>1, <2>9, CacheRequestedKeeps
  <2>10. CASE Element(r)
    BY <1>1, <2>10, ElementKeeps
  <2>11. CASE SearchElement(r)
    BY <1>1, <2>11, SearchElementKeeps
  <2>12. CASE Brick(r)
    BY <1>1, <2>12, BrickKeeps
  <2>13. CASE Locale(r)
    BY <1>1, <2>13, LocaleKeeps
  <2>14. CASE FetchBrick(r)
    BY <1>1, <2>14, FetchBrickKeeps
  <2>15. CASE StoreLocale(r)
    BY <1>1, <2>15, StoreLocaleKeeps
  <2>16. QED
    BY <1>1, <2>1, <2>2, <2>3, <2>4, <2>5, <2>6, <2>7, <2>8, <2>9, <2>10, <2>11, <2>12,
       <2>13, <2>14, <2>15 DEF Step
<1>2. CASE UNCHANGED vars
  BY <1>2 DEF vars, DesignInv, CacheOK, RequestsOK
<1>3. QED
  BY <1>1, <1>2, OutdateKeeps, ExpireKeeps DEF Next

----------------------------------------------------------------------------
(* Theorems *)

\* Every cached design is true and every request knows what it is about and what
\* its index still lacks (brick_handler.go: fetchDesignIndexByDesignID).
THEOREM DesignInvariant == Spec => []DesignInv
<1>1. QED
  BY DesignInvInit, DesignInvNext, PTL DEF Spec

\* A cached design's status is what Rebrickable and Pick a Brick say of it
\* (design.go: DesignStatus).
THEOREM StatusStaysTrue == Spec => []StatusIsTrue
<1>1. ASSUME DesignInv PROVE StatusIsTrue
  <2>1. TypeOK
    <3>1. ASSUME NEW r \in Requests
          PROVE  /\ request[r].work \in Design /\ request[r].cur \in Designs \cup {None}
                 /\ request[r].todo \subseteq Designs
                 /\ \A d \in DOMAIN request[r].index : request[r].index[d].design \in Design
      <4>1. request[r] \in Request
        BY <1>1, InHand
      <4>2. PICK D \in SUBSET Designs : request[r].index \in [D -> WithBricks]
        BY <4>1 DEF Request, Indexes
      <4>3. \A d \in DOMAIN request[r].index : request[r].index[d].design \in Design
        BY <4>2 DEF WithBricks
      <4>4. QED
        BY <4>1, <4>3 DEF Request
    <3>2. CacheOK
      BY <1>1 DEF DesignInv
    <3>3. \A e \in Elements : bricks[e] # None =>
             bricks[e].says \in {"offer", "not offered", "nothing"} /\ bricks[e].design \in Designs
      BY <3>2 DEF CacheOK, BrickEntry
    <3>4. QED
      BY <3>1, <3>2, <3>3 DEF CacheOK, TypeOK
  <2>2. QED
    BY <1>1, <2>1 DEF DesignInv, CacheOK, Truthful, StatusIsTrue
<1>2. QED
  BY <1>1, DesignInvariant, PTL

\* The index of an answered detail request is that of its design and alternates,
\* with what is sold of each (brick_handler.go:133).
THEOREM AnswersAreWhole == Spec => []AnswerIsWhole
<1>1. DesignInv => AnswerIsWhole
  BY InHand DEF RequestOK, IndexOnTheWay, BricksIndexed, AnswerIsWhole
<1>2. QED
  BY <1>1, DesignInvariant, PTL

================================================================================
