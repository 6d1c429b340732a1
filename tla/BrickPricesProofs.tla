--------------------------- MODULE BrickPricesProofs ---------------------------
(***************************************************************************)
(* What holds of BrickPrices for any sets, bricks, elements, quantities    *)
(* and prices, with any number of failed requests.  Three invariants, each *)
(* of which rests on the one before:                                       *)
(*                                                                         *)
(*  - PricesInv: the types; what Redis has under an element belongs to it  *)
(*    (CacheBelongs), for which the ID objects the jobs share must name    *)
(*    elements of one part and colour (IdsBelong); and what each job       *)
(*    carries from one step to the next (JobsInv).  A job writes long after it read: it must know that what  *)
(*    it stores is no more than what is there (JobKeeps), although other   *)
(*    runtime sets have stored in the meantime, and which elements it has  *)
(*    tried in vain (JobTries), for its brick to be missing rightly;       *)
(*                                                                         *)
(*  - BooksInv: where the bricks of a runtime set are.  A brick is in the  *)
(*    inventory, in one job, or done (PlacesOK, PhaseOK), the progress     *)
(*    counts those that are done (ProgressOK), and one that is missing     *)
(*    after all was tried (MissingTried);                                  *)
(*                                                                         *)
(*  - TiedInv: the total and the missing parts of a runtime set that       *)
(*    fetches its inventory belong to one set of counted bricks.  The      *)
(*    proof follows that set (Tied) through every handler, for the books   *)
(*    only have the sums.                                                  *)
(***************************************************************************)
EXTENDS BrickPrices, FiniteSetTheorems, TLAPS

(***************************************************************************)
(* What a job carries                                                      *)
(***************************************************************************)
Asking == {"fetch", "sibling_fetch"}
Storing == {"prefetch_set", "fetch_set", "sibling_set"}
OnSibling == {"sibling", "sibling_fetch", "sibling_set", "alias"}
OnBrick == {"fetch", "fetch_set"} \cup OnSibling

\* A price that may be stored for an element in a locale.
Belongs(p, e, l) ==
    p # None => p.loc = l /\ Kin(e, p.item)

\* The ID object of a brick names its element or one of that part and colour.
IdsBelong ==
    \A b \in Bricks : ElementOf[b] # None =>
        mainId[b] \in Elements /\ Kin(ElementOf[b], mainId[b])

CacheBelongs == \A e \in Elements, l \in Locales : Belongs(cache[e][l], e, l)

\* The bricks of a job.
GroupOK(s, d, j) ==
    /\ \A b \in j.group : b \in InventoryOf[s] /\ DesignOf[b] = d
    /\ j.todo \subseteq j.group /\ j.pending \subseteq j.group
    /\ j.pc \in {"none", "done"} => j.group = {}
    /\ j.pc \in OnBrick => j.brick \in j.group

\* The elements it asks for are those of its brick.
ElementOK(j) ==
    /\ j.pc \in {"fetch", "fetch_set"} => /\ ElementOf[j.brick] \in Elements
                                           /\ j.element = ElementOf[j.brick]
    /\ j.pc \in OnSibling =>
          /\ ElementOf[j.brick] \in Elements
          /\ j.siblings \subseteq PartColor[ElementOf[j.brick]] \ {ElementOf[j.brick]}
    /\ j.pc \in {"sibling_fetch", "sibling_set"} =>
          j.element \in PartColor[ElementOf[j.brick]] \ {ElementOf[j.brick]}

\* What it stores is an answer, and what it aliases is a price of a sibling.
StoreOK(l, j) ==
    /\ j.pc \in Storing => j.store \in Prices /\ j.store = Offer(j.store.item, l)
    /\ j.pc \in {"fetch_set", "sibling_set"} => j.store.item = j.element
    /\ j.pc = "sibling_set" /\ j.store.cents > 0 => j.price[j.brick] = j.store
    /\ j.pc = "alias" => /\ IsPriced(j.price[j.brick])
                         /\ Belongs(j.price[j.brick], ElementOf[j.brick], l)

\* The entry an element has of itself, unless it is not priced, costs at least n.
CostsAtLeast(e, l, n) ==
    IsPriced(cache[e][l]) /\ cache[e][l].item = e => cache[e][l].cents >= n

JobKeeps(l, j) ==
    /\ j.pc \in Storing => CostsAtLeast(j.store.item, l, j.store.cents)
    /\ j.pc \in Asking => \/ CostsAtLeast(j.element, l, offer[j.element][l])
                          \/ /\ j.price[j.brick] # None
                             /\ CostsAtLeast(j.element, l, j.price[j.brick].cents)

JobOK(s, d, j) ==
    GroupOK(s, d, j) /\ ElementOK(j) /\ StoreOK(LocaleOf[s], j) /\ JobKeeps(LocaleOf[s], j)

(***************************************************************************)
(* What was tried for a brick                                              *)
(***************************************************************************)
NotSold(e, l) == e = None \/ offer[e][l] = 0

\* A brick has a price, or its own element is not sold.
OwnTried(l, j, b) == j.price[b] # None \/ NotSold(ElementOf[b], l)

\* ... or none of those elements of its part and colour.
SiblingsTried(l, j, b, left) ==
    j.price[b] # None \/ \A e \in PartColor[ElementOf[b]] \ ({ElementOf[b]} \cup left) : NotSold(e, l)

JobTries(l, j) ==
    /\ j.pc = "cache" => \A b \in j.group \ (j.todo \cup j.pending) : j.price[b] # None
    /\ j.pc \in {"prefetch", "prefetch_set"} => \A b \in j.group \ j.pending : j.price[b] # None
    /\ j.pc \in {"bricks", "fetch_set"} => \A b \in j.group \ j.pending : OwnTried(l, j, b)
    /\ j.pc = "fetch" => \A b \in j.group \ (j.pending \cup {j.brick}) : OwnTried(l, j, b)
    /\ j.pc \in OnSibling \cup {"siblings"} => \A b \in j.group : OwnTried(l, j, b)
    /\ j.pc = "siblings" =>
          \A b \in j.group \ (j.todo \cup Custom) : SiblingsTried(l, j, b, {})
    /\ j.pc \in OnSibling =>
          /\ \A b \in j.group \ (j.todo \cup Custom \cup {j.brick}) : SiblingsTried(l, j, b, {})
          /\ SiblingsTried(l, j, j.brick, j.siblings
                \cup IF j.pc = "sibling_fetch" THEN {j.element} ELSE {})

JobsInv ==
    \A s \in Sets, d \in Designs :
        /\ JobOK(s, d, jobs[s][d])
        /\ faults = MaxFaults => JobTries(LocaleOf[s], jobs[s][d])

-----------------------------------------------------------------------------
(***************************************************************************)
(* The books                                                               *)
(***************************************************************************)
\* The bricks of a runtime set that wait in a job.
Waiting(s) == {b \in InventoryOf[s] : b \in jobs[s][DesignOf[b]].group}

\* How far a brick of a runtime set may be.
PlacesOK(s) ==
    /\ Listener(s) <=> ear[s] \notin {"writer", "cached"}
    /\ \A b \in Bricks :
          /\ books[s].where[b] = "read" => b \in InventoryOf[s] /\ ear[s] = "writer"
          /\ shared[s].step[b] # "none" => books[s].where[b] \in {"missing", "final"}
    /\ ear[s] \in {"out", "registered", "listening"} => books[s].phase = "inventory"
    /\ ear[s] = "returned" => \A b \in InventoryOf[s] : books[s].where[b] \in {"missing", "final"}

ProgressOK(s) ==
    /\ books[s].phase = "inventory" =>
          books[s].done = IF ear[s] = "writer" THEN Cardinality(Missing(s) \cup Final(s)) ELSE 0
    /\ books[s].phase # "inventory" =>
          /\ \A b \in InventoryOf[s] : books[s].where[b] \in {"missing", "final"}
          /\ books[s].done = Cardinality(InventoryOf[s] \ Waiting(s))

PhaseOK(s) ==
    \A d \in Designs :
        /\ books[s].phase = "inventory" => jobs[s][d].pc = "none"
        /\ books[s].phase = "done" => jobs[s][d].pc \in {"none", "done"}
        /\ \A b \in jobs[s][d].group : books[s].where[b] = "missing"

\* A brick that is missing after all is for sale nowhere.
MissingTried(s) ==
    faults = MaxFaults /\ books[s].phase # "inventory" =>
        \A b \in InventoryOf[s] \ Waiting(s) :
            books[s].where[b] = "missing" /\ ElementOf[b] # None =>
                \A e \in PartColor[ElementOf[b]] \cup {ElementOf[b]} : NotSold(e, LocaleOf[s])

-----------------------------------------------------------------------------
(* Elements of one part and colour *)

\* Being of one part and colour is an equivalence, and an element Rebrickable lists
\* for another one is of the same.
LEMMA KinFacts ==
  /\ \A e \in Elements : Kin(e, e)
  /\ \A e \in Elements : \A f \in PartColor[e] : f \in Elements /\ Kin(e, f)
  /\ \A e, f \in Elements : Kin(e, f) => Kin(f, e)
  /\ \A e, f, g \in Elements : Kin(e, f) /\ Kin(f, g) => Kin(e, g)
<1>1. /\ \A e \in Elements : PartColor[e] \subseteq Elements
      /\ \A e \in Elements : \A f \in PartColor[e] : PartColor[f] = PartColor[e]
  BY PricesAssumption
<1>2. ASSUME NEW e \in Elements, NEW f \in Elements, NEW g \in Elements, Kin(e, f), Kin(f, g)
      PROVE  Kin(e, g)
  <2>1. CASE e = f \/ f = g
    BY <1>2, <2>1
  <2>2. CASE e # f /\ f # g
    <3>1. PICK x \in Elements : x \in PartColor[e] /\ x \in PartColor[f]
      BY <1>1, <1>2, <2>2 DEF Kin
    <3>2. PartColor[e] = PartColor[f]
      BY <1>1, <3>1
    <3> QED BY <1>2, <2>2, <3>2 DEF Kin
  <2> QED BY <2>1, <2>2
<1> QED BY <1>1, <1>2 DEF Kin

-----------------------------------------------------------------------------
(* What bricks cost, and how a set of them is counted *)

\* What bricks cost together is a number.
LEMMA CentsNat ==
  ASSUME NEW bs \in SUBSET Bricks, NEW p \in [Bricks -> Price], \A b \in bs : p[b] # None
  PROVE  /\ Cents(p, bs) \in Nat
         /\ IsFiniteSet(UNION {{b} \X (1..(p[b].cents * Quantity[b])) : b \in bs})
<1> DEFINE part(b) == {b} \X (1..(p[b].cents * Quantity[b]))
           f == [b \in bs |-> part(b)]
           parts == {part(b) : b \in bs}
<1>1. IsFiniteSet(bs)
  BY PricesAssumption, FS_Subset
<1>2. f \in Surjection(bs, parts)
  BY DEF Surjection
<1>3. IsFiniteSet(parts)
  BY <1>1, <1>2, FS_Surjection
<1>4. ASSUME NEW b \in bs PROVE IsFiniteSet(part(b))
  <2>1. p[b].cents \in Nat /\ Quantity[b] \in Nat
    BY PricesAssumption DEF Price, Prices
  <2>2. p[b].cents * Quantity[b] \in Int
    BY <2>1
  <2>3. IsFiniteSet(1..(p[b].cents * Quantity[b]))
    BY <2>2, FS_Interval
  <2>4. IsFiniteSet({b})
    BY FS_Singleton
  <2> QED BY <2>3, <2>4, FS_Product
<1>5. \A x \in parts : IsFiniteSet(x)
  BY <1>4
<1>6. IsFiniteSet(UNION parts)
  BY <1>3, <1>5, FS_UNION
<1> QED BY <1>6, FS_CardinalityType DEF Cents

\* No bricks cost nothing.
LEMMA CentsEmpty == ASSUME NEW p PROVE Cents(p, {}) = 0
<1>1. UNION {{b} \X (1..(p[b].cents * Quantity[b])) : b \in {}} = {}
  OBVIOUS
<1> QED BY <1>1, FS_EmptySet DEF Cents

\* One brick costs its price as often as it is needed.
LEMMA CentsOne ==
  ASSUME NEW b \in Bricks, NEW p \in [Bricks -> Price], p[b] # None
  PROVE  Cents(p, {b}) = p[b].cents * Quantity[b]
<1> DEFINE n == p[b].cents * Quantity[b]
<1>1. p[b].cents \in Nat /\ Quantity[b] \in Nat
  BY PricesAssumption DEF Price, Prices
<1>2. n \in Nat
  BY <1>1
<1>3. UNION {{x} \X (1..(p[x].cents * Quantity[x])) : x \in {b}} = {b} \X (1..n)
  OBVIOUS
<1> HIDE DEF n
<1>4. IsFiniteSet(1..n) /\ Cardinality(1..n) = n
  BY <1>2, FS_Interval
<1>5. IsFiniteSet({b}) /\ Cardinality({b}) = 1
  BY FS_Singleton
<1>6. Cardinality({b} \X (1..n)) = Cardinality({b}) * Cardinality(1..n)
  BY <1>4, <1>5, FS_Product, Zenon
<1>7. Cents(p, {b}) = Cardinality({b} \X (1..n))
  BY <1>3 DEF Cents
<1>8. Cents(p, {b}) = n
  BY <1>2, <1>4, <1>5, <1>6, <1>7
<1> QED BY <1>8 DEF n

\* Bricks that are not counted yet add what they cost.
LEMMA CentsSplit ==
  ASSUME NEW bs \in SUBSET Bricks, NEW cs \in SUBSET Bricks, bs \cap cs = {},
         NEW p \in [Bricks -> Price], \A b \in bs \cup cs : p[b] # None
  PROVE  Cents(p, bs \cup cs) = Cents(p, bs) + Cents(p, cs)
<1> DEFINE all(s) == UNION {{b} \X (1..(p[b].cents * Quantity[b])) : b \in s}
<1>1. all(bs \cup cs) = all(bs) \cup all(cs)
  OBVIOUS
<1>2. all(bs) \cap all(cs) = {}
  OBVIOUS
<1>3. /\ IsFiniteSet(all(bs)) /\ IsFiniteSet(all(cs))
      /\ Cents(p, bs) \in Nat /\ Cents(p, cs) \in Nat
  BY CentsNat
<1>4. Cents(p, bs) = Cardinality(all(bs)) /\ Cents(p, cs) = Cardinality(all(cs))
      /\ Cents(p, bs \cup cs) = Cardinality(all(bs \cup cs))
  BY DEF Cents
<1> HIDE DEF all
<1>5. Cardinality(all(bs) \cup all(cs))
        = Cardinality(all(bs)) + Cardinality(all(cs)) - Cardinality({})
  BY <1>2, <1>3, FS_Union
<1>6. Cardinality({}) = 0
  BY FS_EmptySet
<1>7. Cents(p, bs \cup cs) = Cardinality(all(bs) \cup all(cs))
  BY <1>1, <1>4
<1>8. Cents(p, bs \cup cs) = Cents(p, bs) + Cents(p, cs) - 0
  BY <1>4, <1>5, <1>6, <1>7
<1> QED BY <1>3, <1>8

\* What bricks cost depends on their own prices only.
LEMMA CentsSame ==
  ASSUME NEW bs, NEW p, NEW q, \A b \in bs : p[b] = q[b]
  PROVE  Cents(p, bs) = Cents(q, bs)
<1>1. UNION {{b} \X (1..(p[b].cents * Quantity[b])) : b \in bs}
        = UNION {{b} \X (1..(q[b].cents * Quantity[b])) : b \in bs}
  OBVIOUS
<1> QED BY <1>1 DEF Cents

\* A set of bricks is finite.
LEMMA BricksFinite ==
  ASSUME NEW bs \in SUBSET Bricks
  PROVE  IsFiniteSet(bs) /\ Cardinality(bs) \in Nat
BY PricesAssumption, FS_Subset, FS_CardinalityType

\* What takes bricks into the books keeps them typed (batchHandlerBricksProgress,
\* batchHandlerListenProgress).
LEMMA AddFinalTyped ==
  ASSUME NEW k \in BookType, NEW b \in Bricks
  PROVE  AddFinalBrickData(k, b) \in BookType
<1>1. CASE ~IsPriced(k.price[b]) \/ k.missingParts = 0
  BY <1>1 DEF AddFinalBrickData
<1>2. CASE IsPriced(k.price[b]) /\ k.missingParts # 0
  <2>1. k.price[b].cents \in Nat /\ Quantity[b] \in Nat
    BY <1>2, PricesAssumption DEF IsPriced, Price, Prices, BookType
  <2>2. k.price[b].cents * Quantity[b] \in Nat
    BY <2>1
  <2>3. k.total + k.price[b].cents * Quantity[b] \in Nat /\ k.missingParts - 1 \in Nat
    BY <2>2, <1>2 DEF BookType
  <2>4. AddFinalBrickData(k, b) = [k EXCEPT !.total = k.total + k.price[b].cents * Quantity[b],
                                            !.missingParts = k.missingParts - 1]
    BY <1>2 DEF AddFinalBrickData
  <2> QED BY <2>3, <2>4 DEF BookType
<1> QED BY <1>1, <1>2

\* checkSetDataValidity of one brick keeps a book typed.
LEMMA TakeBrickTyped ==
  ASSUME NEW k \in BookType, NEW b \in Bricks
  PROVE  TakeBrick(k, b) \in BookType
<1> DEFINE taken == [k EXCEPT !.done = @ + 1]
           final == [taken EXCEPT !.where[b] = "final"]
           missing == [taken EXCEPT !.where[b] = "missing"]
<1>0. taken \in BookType
  BY DEF BookType
<1> HIDE DEF taken
<1>1. final \in BookType /\ missing \in BookType
  BY <1>0 DEF BookType
<1> HIDE DEF final, missing
<1>2. AddFinalBrickData(final, b) \in BookType
  BY <1>1, AddFinalTyped
<1>3. \A x \in BookType : IncrementMissingParts(x) \in BookType
  BY DEF IncrementMissingParts, BookType
<1>4. TakeBrick(k, b) \in {final, IncrementMissingParts(AddFinalBrickData(final, b)),
                           IncrementMissingParts(missing)}
  BY DEF TakeBrick, final, missing, taken
<1> QED BY <1>1, <1>2, <1>3, <1>4

Typed(bs, p, where) ==
    \A b \in bs : p[b] \in Price /\ where[b] \in {"absent", "read", "missing", "final"}

\* New bricks in a book keep it typed, and its sums as they are.
LEMMA EnteredTyped ==
  ASSUME NEW k \in BookType, NEW bs, NEW p, NEW where, Typed(bs, p, where)
  PROVE  /\ Entered(k, bs, p, where) \in BookType
         /\ Entered(k, bs, p, where).missingParts = k.missingParts
         /\ Entered(k, bs, p, where).total = k.total
         /\ Entered(k, bs, p, where).done = k.done
         /\ Entered(k, bs, p, where).phase = k.phase
         /\ \A b \in Bricks :
               /\ Entered(k, bs, p, where).where[b] = IF b \in bs THEN where[b] ELSE k.where[b]
               /\ Entered(k, bs, p, where).price[b] = IF b \in bs THEN p[b] ELSE k.price[b]
BY DEF Entered, BookType, Typed

\* batchHandlerListenProgress keeps a book typed.
LEMMA HearTyped ==
  ASSUME NEW k \in BookType, NEW bs \in SUBSET Bricks, NEW p, \A b \in bs : p[b] \in Price
  PROVE  HearBricks(k, bs, p) \in BookType
<1> DEFINE e == Entered(k, bs, p, [b \in bs |-> "missing"])
<1>1. Typed(bs, p, [b \in bs |-> "missing"])
  BY DEF Typed
<1>2. e \in BookType
  BY <1>1, EnteredTyped
<1>3. Cardinality(bs) \in Nat
  BY BricksFinite
<1> HIDE DEF e
<1>4. [e EXCEPT !.missingParts = @ + Cardinality(bs)] \in BookType
  BY <1>2, <1>3 DEF BookType
<1> QED BY <1>4 DEF HearBricks, e

\* What a batch of the price phase adds, and that the missing parts suffice for it.
LEMMA CountableFits ==
  ASSUME NEW n \in Nat, NEW bs \in SUBSET Bricks, NEW counted \in Countable(n, bs)
  PROVE  /\ counted \subseteq bs /\ Cardinality(counted) \in Nat /\ Cardinality(counted) <= n
         /\ n >= Cardinality(bs) => counted = bs
<1>1. counted \subseteq bs /\ IsFiniteSet(bs) /\ Cardinality(bs) \in Nat
  BY BricksFinite DEF Countable
<1>2. Cardinality(counted) = IF n < Cardinality(bs) THEN n ELSE Cardinality(bs)
  BY DEF Countable
<1>3. Cardinality(bs) = Cardinality(counted) => bs = counted
  BY <1>1, FS_Subset
<1> QED BY <1>1, <1>2, <1>3

\* batchHandlerBricksProgress keeps a book typed.
LEMMA TakeBricksTyped ==
  ASSUME NEW k \in BookType, NEW bs \in SUBSET Bricks, NEW p \in [Bricks -> Price],
         NEW counted \in Countable(k.missingParts, Priced(p, bs))
  PROVE  TakeBricks(k, bs, p, counted) \in BookType
<1> DEFINE where == [b \in bs |-> IF b \in Custom \/ HasValidPrice(p[b]) THEN "final" ELSE "missing"]
           e == Entered(k, bs, p, where)
<1>1. Typed(bs, p, where)
  BY DEF Typed
<1> HIDE DEF where
<1>2. e \in BookType /\ e.missingParts = k.missingParts
  BY <1>1, EnteredTyped
<1>3. Priced(p, bs) \in SUBSET Bricks /\ k.missingParts \in Nat
  BY DEF Priced, BookType
<1>4. /\ counted \subseteq Priced(p, bs) /\ Cardinality(counted) \in Nat
      /\ Cardinality(counted) <= k.missingParts
  BY <1>3, CountableFits
<1>5. counted \in SUBSET Bricks /\ \A b \in counted : p[b] # None
  BY <1>4 DEF Priced, IsPriced
<1>6. Cents(p, counted) \in Nat
  BY <1>5, CentsNat
<1>7. Cardinality(bs) \in Nat
  BY BricksFinite
<1> HIDE DEF e
<1>8. /\ e.missingParts - Cardinality(counted) \in Nat
      /\ e.done + Cardinality(bs) \in Nat /\ e.total + Cents(p, counted) \in Nat
  BY <1>2, <1>3, <1>4, <1>6, <1>7 DEF BookType
<1>9. [e EXCEPT !.done = e.done + Cardinality(bs),
                !.missingParts = e.missingParts - Cardinality(counted),
                !.total = e.total + Cents(p, counted)] \in BookType
  BY <1>2, <1>8 DEF BookType
<1> QED BY <1>9 DEF TakeBricks, e, where

-----------------------------------------------------------------------------
(* The steps of one job *)

\* The job of a runtime set and a design goes on as the invariant wants it.
JobGoesOn(s, d) ==
    \E k \in JobType :
        /\ JobBecomes(s, d, k)
        /\ JobOK(s, d, k)
        /\ faults' = MaxFaults => JobTries(LocaleOf[s], k)

\* What a brick finds in Redis is a price or nothing.
LEMMA EntryTyped ==
  ASSUME TypeOK, NEW b \in Bricks, NEW s \in Sets
  PROVE  /\ LocaleOf[s] \in Locales
         /\ Entry(ElementOf[b], LocaleOf[s]) \in Price
         /\ ElementOf[b] \in Elements =>
               Entry(ElementOf[b], LocaleOf[s]) = cache[ElementOf[b]][LocaleOf[s]]
BY PricesAssumption DEF TypeOK, Entry, Price

\* resolveBrickFromCache
LEMMA CachePassJob ==
  ASSUME TypeOK, JobsInv, NEW s \in Sets, NEW d \in Designs, NEW b \in Bricks, CachePass(s, d, b)
  PROVE  JobGoesOn(s, d)
<1>1. PICK j \in JobType : j = jobs[s][d]
  BY DEF TypeOK
<1>2. PICK p \in Price : p = Entry(ElementOf[b], LocaleOf[s])
  BY EntryTyped
<1> DEFINE resolved == IsNotFound(p) \/ ValidEntry(p, j.price[b])
           k == [j EXCEPT !.todo = j.todo \ {b},
                          !.pending = IF resolved THEN j.pending ELSE j.pending \cup {b},
                          !.price[b] = IF resolved THEN p ELSE j.price[b]]
<1>3. /\ j.pc = "cache" /\ b \in j.todo /\ faults' = faults
      /\ JobBecomes(s, d, k)
  BY <1>1, <1>2 DEF CachePass
<1>4. /\ JobOK(s, d, j)
      /\ faults = MaxFaults => JobTries(LocaleOf[s], j)
  BY <1>1 DEF JobsInv
<1>5. /\ k.pc = j.pc /\ k.group = j.group /\ k.todo = j.todo \ {b}
      /\ k.pending = IF resolved THEN j.pending ELSE j.pending \cup {b}
      /\ \A c \in Bricks : k.price[c] = IF c = b /\ resolved THEN p ELSE j.price[c]
  BY DEF JobType
<1>6. k \in JobType
  BY DEF JobType
<1>7. resolved => p # None
  BY DEF IsNotFound, ValidEntry, IsPriced
<1> HIDE DEF k, resolved
<1>8. JobOK(s, d, k)
  BY <1>3, <1>4, <1>5
     DEF JobOK, GroupOK, ElementOK, StoreOK, JobKeeps, OnBrick, OnSibling, Storing, Asking
<1>9. faults' = MaxFaults => JobTries(LocaleOf[s], k)
  BY <1>3, <1>4, <1>5, <1>7 DEF JobTries, OnSibling, JobType
<1> QED BY <1>3, <1>6, <1>8, <1>9 DEF JobGoesOn

\* What changes of a job when it only goes on.
LEMMA AtPc ==
  ASSUME NEW j \in JobType,
         NEW x \in {"prefetch", "bricks", "sibling", "siblings"}
  PROVE  LET k == [j EXCEPT !.pc = x]
         IN  /\ k \in JobType /\ k.pc = x
             /\ k.group = j.group /\ k.todo = j.todo /\ k.pending = j.pending
             /\ k.price = j.price /\ k.brick = j.brick /\ k.element = j.element
             /\ k.store = j.store /\ k.offers = j.offers /\ k.siblings = j.siblings
BY DEF JobType

\* A job in a state of the invariant.
LEMMA JobNow ==
  ASSUME TypeOK, JobsInv, NEW s \in Sets, NEW d \in Designs
  PROVE  /\ jobs[s][d] \in JobType /\ JobOK(s, d, jobs[s][d])
         /\ faults = MaxFaults => JobTries(LocaleOf[s], jobs[s][d])
BY DEF TypeOK, JobsInv

\* A fault uses up one of those that may happen.
LEMMA FaultSpent == ASSUME TypeOK, Fault PROVE faults' # MaxFaults /\ faults' \in 0..MaxFaults
BY PricesAssumption DEF TypeOK, Fault

\* An upstream answer is about the element and the locale that were asked for.
LEMMA OfferTyped ==
  ASSUME TypeOK, NEW e \in Elements, NEW l \in Locales
  PROVE  /\ Offer(e, l) \in Prices /\ Offer(e, l) # None
         /\ Offer(e, l).loc = l /\ Offer(e, l).item = e /\ Offer(e, l).cents = offer[e][l]
         /\ offer[e][l] \in Nat
BY PricesAssumption DEF TypeOK, Offer, Prices

\* PrefetchDesignBricks: the request ...
LEMMA PrefetchAskJob ==
  ASSUME TypeOK, JobsInv, NEW s \in Sets, NEW d \in Designs, PrefetchAsk(s, d)
  PROVE  JobGoesOn(s, d)
<1>1. PICK j \in JobType : j = jobs[s][d]
  BY DEF TypeOK
<1>2. /\ JobOK(s, d, j)
      /\ faults = MaxFaults => JobTries(LocaleOf[s], j)
  BY <1>1, JobNow
<1>3. j.pc = "cache" /\ j.todo = {}
  BY <1>1 DEF PrefetchAsk
<1>4. CASE /\ JobBecomes(s, d, [j EXCEPT !.pc = "prefetch", !.offers = Listed(d, LocaleOf[s])])
           /\ UNCHANGED faults
  <2> DEFINE k == [j EXCEPT !.pc = "prefetch", !.offers = Listed(d, LocaleOf[s])]
  <2>1. /\ k.pc = "prefetch" /\ k.group = j.group /\ k.todo = j.todo /\ k.pending = j.pending
        /\ k.price = j.price
    BY DEF JobType
  <2>2. k \in JobType
    BY DEF JobType, Listed
  <2> HIDE DEF k
  <2>3. JobOK(s, d, k)
    BY <1>2, <1>3, <2>1
       DEF JobOK, GroupOK, ElementOK, StoreOK, JobKeeps, OnBrick, OnSibling, Storing, Asking
  <2>4. faults' = MaxFaults => JobTries(LocaleOf[s], k)
    BY <1>2, <1>3, <1>4, <2>1 DEF JobTries, OnSibling
  <2> QED BY <1>4, <2>2, <2>3, <2>4 DEF JobGoesOn, k
<1>5. CASE /\ JobBecomes(s, d, [j EXCEPT !.pc = "bricks"])
           /\ Fault \/ (UNCHANGED faults /\ j.pending = {})
  <2> DEFINE k == [j EXCEPT !.pc = "bricks"]
  <2>1. /\ k \in JobType /\ k.pc = "bricks" /\ k.group = j.group /\ k.todo = j.todo
        /\ k.pending = j.pending /\ k.price = j.price
    BY AtPc
  <2> HIDE DEF k
  <2>2. JobOK(s, d, k)
    BY <1>2, <1>3, <2>1
       DEF JobOK, GroupOK, ElementOK, StoreOK, JobKeeps, OnBrick, OnSibling, Storing, Asking
  <2>3. faults' = MaxFaults => JobTries(LocaleOf[s], k)
    BY <1>2, <1>3, <1>5, <2>1, FaultSpent DEF JobTries, OnSibling, OwnTried
  <2> QED BY <1>5, <2>1, <2>2, <2>3 DEF JobGoesOn, k
<1> QED BY <1>1, <1>4, <1>5 DEF PrefetchAsk

\* ... and one element of the answer.
LEMMA PrefetchReadJob ==
  ASSUME TypeOK, JobsInv, NEW s \in Sets, NEW d \in Designs, NEW e \in Elements,
         PrefetchRead(s, d, e)
  PROVE  JobGoesOn(s, d)
<1>1. PICK j \in JobType : j = jobs[s][d]
  BY DEF TypeOK
<1>2. /\ JobOK(s, d, j)
      /\ faults = MaxFaults => JobTries(LocaleOf[s], j)
  BY <1>1, JobNow
<1>3. PICK l \in Locales : l = LocaleOf[s]
  BY PricesAssumption
<1>4. PICK o \in Prices : o = Offer(e, l) /\ o.item = e /\ o.cents \in Nat
  BY OfferTyped
<1>5. cache[e][l] \in Price
  BY DEF TypeOK
<1> DEFINE kept == IsNotFound(cache[e][l]) \/ ValidEntry(cache[e][l], o)
           k == [j EXCEPT !.offers = j.offers \ {e},
                          !.store = IF kept THEN None ELSE o,
                          !.pc = IF kept THEN j.pc ELSE "prefetch_set"]
<1>6. /\ j.pc = "prefetch" /\ faults' = faults
      /\ JobBecomes(s, d, k)
  BY <1>1, <1>3, <1>4 DEF PrefetchRead
<1>7. /\ k.pc = IF kept THEN "prefetch" ELSE "prefetch_set"
      /\ k.group = j.group /\ k.todo = j.todo /\ k.pending = j.pending
      /\ k.price = j.price /\ k.store = IF kept THEN None ELSE o
  BY <1>6 DEF JobType
<1>8. k \in JobType
  BY DEF JobType, Price
<1>9. ~kept => CostsAtLeast(e, l, o.cents)
  BY <1>4, <1>5 DEF ValidEntry, HasLowerPrice, HasValidPrice, IsPriced, CostsAtLeast, Price, Prices
<1> HIDE DEF k, kept
<1>10. GroupOK(s, d, k) /\ ElementOK(k)
  BY <1>2, <1>6, <1>7 DEF JobOK, GroupOK, ElementOK, OnBrick, OnSibling
<1>11. StoreOK(l, k) /\ JobKeeps(l, k)
  BY <1>4, <1>7, <1>9 DEF StoreOK, JobKeeps, Storing, Asking
<1>12. faults' = MaxFaults => JobTries(LocaleOf[s], k)
  BY <1>2, <1>6, <1>7 DEF JobTries, OnSibling
<1> QED BY <1>3, <1>6, <1>8, <1>10, <1>11, <1>12 DEF JobGoesOn, JobOK

\* The jobs that have nothing more to ask for go on (PrefetchDesignBricks,
\* workerHandlerDesignPrices, resolveViaAlternateElements).
LEMMA PrefetchEndJob ==
  ASSUME TypeOK, JobsInv, NEW s \in Sets, NEW d \in Designs, PrefetchEnd(s, d)
  PROVE  JobGoesOn(s, d)
<1>1. PICK j \in JobType : j = jobs[s][d]
  BY DEF TypeOK
<1>2. /\ JobOK(s, d, j)
      /\ faults = MaxFaults => JobTries(LocaleOf[s], j)
  BY <1>1, JobNow
<1> DEFINE k == [j EXCEPT !.pc = "bricks"]
<1>3. j.pc = "prefetch" /\ faults' = faults /\ JobBecomes(s, d, k)
  BY <1>1 DEF PrefetchEnd
<1>4. /\ k \in JobType /\ k.pc = "bricks" /\ k.group = j.group /\ k.todo = j.todo
      /\ k.pending = j.pending /\ k.price = j.price
  BY AtPc
<1> HIDE DEF k
<1>5. JobOK(s, d, k)
  BY <1>2, <1>3, <1>4
     DEF JobOK, GroupOK, ElementOK, StoreOK, JobKeeps, OnBrick, OnSibling, Storing, Asking
<1>6. faults' = MaxFaults => JobTries(LocaleOf[s], k)
  BY <1>2, <1>3, <1>4 DEF JobTries, OnSibling, OwnTried
<1> QED BY <1>3, <1>4, <1>5, <1>6 DEF JobGoesOn

\* All bricks of the job were loaded: the siblings are next.
LEMMA BricksEndJob ==
  ASSUME TypeOK, JobsInv, NEW s \in Sets, NEW d \in Designs, BricksEnd(s, d)
  PROVE  JobGoesOn(s, d)
<1>1. PICK j \in JobType : j = jobs[s][d]
  BY DEF TypeOK
<1>2. /\ JobOK(s, d, j)
      /\ faults = MaxFaults => JobTries(LocaleOf[s], j)
  BY <1>1, JobNow
<1> DEFINE k == [j EXCEPT !.pc = "siblings", !.todo = j.group]
<1>3. j.pc = "bricks" /\ j.pending = {} /\ faults' = faults /\ JobBecomes(s, d, k)
  BY <1>1 DEF BricksEnd
<1>4. /\ k.pc = "siblings" /\ k.group = j.group /\ k.todo = j.group
      /\ k.pending = j.pending /\ k.price = j.price
  BY DEF JobType
<1>5. k \in JobType
  BY DEF JobType
<1> HIDE DEF k
<1>6. JobOK(s, d, k)
  BY <1>2, <1>3, <1>4
     DEF JobOK, GroupOK, ElementOK, StoreOK, JobKeeps, OnBrick, OnSibling, Storing, Asking
<1>7. faults' = MaxFaults => JobTries(LocaleOf[s], k)
  BY <1>2, <1>3, <1>4 DEF JobTries, OnSibling, OwnTried
<1> QED BY <1>3, <1>5, <1>6, <1>7 DEF JobGoesOn

\* All siblings of a brick were tried.
LEMMA SiblingsEndJob ==
  ASSUME TypeOK, JobsInv, NEW s \in Sets, NEW d \in Designs, SiblingsEnd(s, d)
  PROVE  JobGoesOn(s, d)
<1>1. PICK j \in JobType : j = jobs[s][d]
  BY DEF TypeOK
<1>2. /\ JobOK(s, d, j)
      /\ faults = MaxFaults => JobTries(LocaleOf[s], j)
  BY <1>1, JobNow
<1> DEFINE k == [j EXCEPT !.pc = "siblings"]
<1>3. j.pc = "sibling" /\ j.siblings = {} /\ faults' = faults /\ JobBecomes(s, d, k)
  BY <1>1 DEF SiblingsEnd
<1>4. /\ k \in JobType /\ k.pc = "siblings" /\ k.group = j.group /\ k.todo = j.todo
      /\ k.pending = j.pending /\ k.price = j.price
  BY AtPc
<1> HIDE DEF k
<1>5. JobOK(s, d, k)
  BY <1>2, <1>3, <1>4
     DEF JobOK, GroupOK, ElementOK, StoreOK, JobKeeps, OnBrick, OnSibling, Storing, Asking
<1>6. faults' = MaxFaults => JobTries(LocaleOf[s], k)
  <2> SUFFICES ASSUME faults = MaxFaults PROVE JobTries(LocaleOf[s], k)
    BY <1>3
  <2>1. SiblingsTried(LocaleOf[s], j, j.brick, {})
    BY <1>2, <1>3 DEF JobTries, OnSibling, SiblingsTried
  <2>2. \A b \in j.group \ (j.todo \cup Custom) : SiblingsTried(LocaleOf[s], j, b, {})
    BY <1>2, <1>3, <2>1 DEF JobTries, OnSibling
  <2>3. \A b \in j.group : OwnTried(LocaleOf[s], j, b)
    BY <1>2, <1>3 DEF JobTries, OnSibling
  <2> QED BY <1>4, <2>2, <2>3 DEF JobTries, OnSibling, OwnTried, SiblingsTried
<1> QED BY <1>3, <1>4, <1>5, <1>6 DEF JobGoesOn

\* What a job finds in Redis is no better than what it has, or it takes it.
LEMMA NotTaken ==
  ASSUME TypeOK, NEW e \in Elements, NEW l \in Locales, NEW q \in Price,
         ~ValidEntry(cache[e][l], q)
  PROVE  \/ CostsAtLeast(e, l, offer[e][l])
         \/ q # None /\ CostsAtLeast(e, l, q.cents)
<1>1. cache[e][l] \in Price
  BY DEF TypeOK
<1>2. CASE ~IsPriced(cache[e][l])
  BY <1>2 DEF CostsAtLeast
<1>3. CASE IsPriced(cache[e][l])
  <2>1. q # None /\ ~(cache[e][l].cents < q.cents)
    BY <1>3 DEF ValidEntry, HasLowerPrice, HasValidPrice, IsPriced
  <2>2. cache[e][l].cents \in Nat /\ q.cents \in Nat
    BY <1>1, <1>3, <2>1 DEF IsPriced, Price, Prices
  <2> QED BY <2>1, <2>2 DEF CostsAtLeast
<1> QED BY <1>2, <1>3

\* workerHandlerBrickPrice
LEMMA BrickLoadJob ==
  ASSUME TypeOK, JobsInv, NEW s \in Sets, NEW d \in Designs, NEW b \in Bricks, BrickLoad(s, d, b)
  PROVE  JobGoesOn(s, d)
<1>1. PICK j \in JobType : j = jobs[s][d]
  BY DEF TypeOK
<1>2. /\ JobOK(s, d, j)
      /\ faults = MaxFaults => JobTries(LocaleOf[s], j)
  BY <1>1, JobNow
<1>3. PICK l \in Locales : l = LocaleOf[s]
  BY PricesAssumption
<1>4. PICK p \in Price : p = Entry(ElementOf[b], l)
  BY <1>3, EntryTyped
<1> DEFINE resolved == IsNotFound(p) \/ ValidEntry(p, j.price[b])
           asks == ElementOf[b] # None /\ ~resolved
           k == [j EXCEPT !.pending = j.pending \ {b},
                          !.price[b] = IF resolved THEN p ELSE j.price[b],
                          !.pc = IF asks THEN "fetch" ELSE j.pc,
                          !.brick = IF asks THEN b ELSE j.brick,
                          !.element = IF asks THEN ElementOf[b] ELSE j.element]
<1>5. /\ j.pc = "bricks" /\ b \in j.pending /\ faults' = faults
      /\ JobBecomes(s, d, k)
  BY <1>1, <1>3, <1>4 DEF BrickLoad
<1>6. /\ k.pc = IF asks THEN "fetch" ELSE "bricks"
      /\ k.group = j.group /\ k.todo = j.todo /\ k.pending = j.pending \ {b}
      /\ \A c \in Bricks : k.price[c] = IF c = b /\ resolved THEN p ELSE j.price[c]
      /\ asks => k.brick = b /\ k.element = ElementOf[b]
  BY <1>5 DEF JobType
<1>7. k \in JobType
  <2>1. ElementOf[b] \in Elements \cup {None}
    BY PricesAssumption
  <2> QED BY <2>1 DEF JobType
<1>8. resolved => p # None
  BY DEF IsNotFound, ValidEntry, IsPriced
<1>9. asks => /\ ElementOf[b] \in Elements
              /\ \/ CostsAtLeast(ElementOf[b], l, offer[ElementOf[b]][l])
                 \/ j.price[b] # None /\ CostsAtLeast(ElementOf[b], l, j.price[b].cents)
  <2> SUFFICES ASSUME asks
               PROVE  /\ ElementOf[b] \in Elements
                      /\ \/ CostsAtLeast(ElementOf[b], l, offer[ElementOf[b]][l])
                         \/ j.price[b] # None /\ CostsAtLeast(ElementOf[b], l, j.price[b].cents)
    OBVIOUS
  <2>1. ElementOf[b] \in Elements
    BY PricesAssumption
  <2>2. p = cache[ElementOf[b]][l]
    BY <1>3, <1>4, <2>1, EntryTyped
  <2>3. j.price[b] \in Price
    BY DEF JobType
  <2> QED BY <2>1, <2>2, <2>3, NotTaken
<1>10. ~resolved /\ ~asks => ElementOf[b] = None
  OBVIOUS
<1> HIDE DEF k, resolved, asks
<1>11. GroupOK(s, d, k) /\ ElementOK(k)
  BY <1>2, <1>5, <1>6, <1>9 DEF JobOK, GroupOK, ElementOK, OnBrick, OnSibling
<1>12. StoreOK(l, k)
  BY <1>6 DEF StoreOK, Storing
<1>13. JobKeeps(l, k)
  <2>1. asks => ~resolved
    BY DEF asks
  <2> QED BY <1>6, <1>9, <2>1 DEF JobKeeps, Storing, Asking
<1>14. faults' = MaxFaults => JobTries(l, k)
  <2> SUFFICES ASSUME faults = MaxFaults PROVE JobTries(l, k)
    BY <1>5
  <2>1. \A c \in j.group \ j.pending : OwnTried(l, j, c)
    BY <1>2, <1>3, <1>5 DEF JobTries
  <2>2. \A c \in k.group \ (k.pending \cup {b}) : OwnTried(l, k, c)
    BY <2>1, <1>6, <1>8 DEF OwnTried, JobType
  <2>3. ~asks => OwnTried(l, k, b)
    BY <1>6, <1>8, <1>10 DEF OwnTried, NotSold
  <2> QED BY <1>6, <2>2, <2>3 DEF JobTries, OnSibling
<1> QED BY <1>3, <1>5, <1>7, <1>11, <1>12, <1>13, <1>14 DEF JobGoesOn, JobOK

\* resolveViaAlternateElements: the elements of its part and colour ...
LEMMA SiblingsAskJob ==
  ASSUME TypeOK, JobsInv, NEW s \in Sets, NEW d \in Designs, NEW b \in Bricks,
         SiblingsAsk(s, d, b)
  PROVE  JobGoesOn(s, d)
<1>1. PICK j \in JobType : j = jobs[s][d]
  BY DEF TypeOK
<1>2. /\ JobOK(s, d, j)
      /\ faults = MaxFaults => JobTries(LocaleOf[s], j)
  BY <1>1, JobNow
<1>3. j.pc = "siblings" /\ b \in j.todo /\ b \notin Custom
  BY <1>1 DEF SiblingsAsk, Unpriced
<1>4. ElementOf[b] \in Elements
  BY <1>3, PricesAssumption
<1>5. PartColor[ElementOf[b]] \subseteq Elements
  BY <1>4, PricesAssumption
<1> DEFINE own == ElementOf[b]
           k == [j EXCEPT !.todo = j.todo \ {b}, !.brick = b, !.pc = "sibling",
                          !.siblings = PartColor[own] \ {own}]
           n == [j EXCEPT !.todo = j.todo \ {b}]
<1>6. CASE JobBecomes(s, d, k) /\ UNCHANGED faults
  <2>1. /\ k.pc = "sibling" /\ k.group = j.group /\ k.todo = j.todo \ {b}
        /\ k.pending = j.pending /\ k.price = j.price /\ k.brick = b
        /\ k.siblings = PartColor[own] \ {own}
    BY DEF JobType
  <2>2. k \in JobType
    BY <1>5 DEF JobType
  <2> HIDE DEF k
  <2>3. GroupOK(s, d, k) /\ ElementOK(k) /\ StoreOK(LocaleOf[s], k) /\ JobKeeps(LocaleOf[s], k)
    BY <1>2, <1>3, <1>4, <2>1
       DEF JobOK, GroupOK, ElementOK, StoreOK, JobKeeps, OnBrick, OnSibling, Storing, Asking
  <2>4. faults' = MaxFaults => JobTries(LocaleOf[s], k)
    BY <1>2, <1>3, <1>6, <2>1 DEF JobTries, OnSibling, OwnTried, SiblingsTried
  <2> QED BY <1>6, <2>2, <2>3, <2>4 DEF JobGoesOn, JobOK
<1>7. CASE Fault /\ JobBecomes(s, d, n)
  <2>1. n.pc = "siblings" /\ n.group = j.group /\ n.todo = j.todo \ {b} /\ n.pending = j.pending
    BY <1>3 DEF JobType
  <2>2. n \in JobType
    BY DEF JobType
  <2> HIDE DEF n
  <2>3. JobOK(s, d, n)
    BY <1>2, <1>3, <2>1
       DEF JobOK, GroupOK, ElementOK, StoreOK, JobKeeps, OnBrick, OnSibling, Storing, Asking
  <2> QED BY <1>7, <2>2, <2>3, FaultSpent DEF JobGoesOn
<1> QED BY <1>1, <1>6, <1>7 DEF SiblingsAsk

\* ... and one of them from Redis.
LEMMA SiblingLoadJob ==
  ASSUME TypeOK, CacheBelongs, JobsInv, NEW s \in Sets, NEW d \in Designs, NEW e \in Elements,
         SiblingLoad(s, d, e)
  PROVE  JobGoesOn(s, d)
<1>1. PICK j \in JobType : j = jobs[s][d]
  BY DEF TypeOK
<1>2. /\ JobOK(s, d, j)
      /\ faults = MaxFaults => JobTries(LocaleOf[s], j)
  BY <1>1, JobNow
<1>3. PICK l \in Locales : l = LocaleOf[s]
  BY PricesAssumption
<1>4. PICK p \in Price : p = cache[e][l]
  BY DEF TypeOK
<1>5. PICK b \in Bricks : b = j.brick /\ b \in j.group /\ j.pc = "sibling" /\ e \in j.siblings
  BY <1>1, <1>2 DEF SiblingLoad, JobOK, GroupOK, OnBrick, OnSibling, JobType
<1> DEFINE found == ValidEntry(p, j.price[b])
           k == [j EXCEPT !.siblings = j.siblings \ {e}, !.element = e,
                          !.price[b] = IF found THEN p ELSE j.price[b],
                          !.pc = IF found THEN "alias" ELSE "sibling_fetch"]
<1>6. faults' = faults /\ JobBecomes(s, d, k)
  BY <1>1, <1>3, <1>4, <1>5 DEF SiblingLoad
<1>7. /\ k.pc = IF found THEN "alias" ELSE "sibling_fetch"
      /\ k.group = j.group /\ k.todo = j.todo /\ k.pending = j.pending
      /\ k.brick = b /\ k.element = e /\ k.siblings = j.siblings \ {e}
      /\ \A c \in Bricks : k.price[c] = IF c = b /\ found THEN p ELSE j.price[c]
  BY <1>5 DEF JobType
<1>8. k \in JobType
  BY DEF JobType
<1>9. PICK own \in Elements : own = ElementOf[b] /\ j.siblings \subseteq PartColor[own] \ {own}
  BY <1>2, <1>5 DEF JobOK, ElementOK, OnSibling
<1>10. found => IsPriced(p) /\ Belongs(p, own, l)
  <2>1. Belongs(p, e, l)
    BY <1>4 DEF CacheBelongs
  <2>2. e \in PartColor[own] /\ Kin(own, e)
    BY <1>5, <1>9, KinFacts
  <2>3. found => IsPriced(p) /\ p.item \in Elements
    BY DEF ValidEntry, IsPriced, Price, Prices
  <2> QED BY <2>1, <2>2, <2>3, KinFacts DEF Belongs, IsPriced
<1>11. ~found => \/ CostsAtLeast(e, l, offer[e][l])
                 \/ j.price[b] # None /\ CostsAtLeast(e, l, j.price[b].cents)
  <2>1. j.price[b] \in Price
    BY DEF JobType
  <2> QED BY <1>4, <2>1, NotTaken
<1> HIDE DEF k, found
<1>12. GroupOK(s, d, k) /\ ElementOK(k)
  BY <1>2, <1>5, <1>7, <1>9 DEF JobOK, GroupOK, ElementOK, OnBrick, OnSibling
<1>13. StoreOK(l, k)
  BY <1>7, <1>9, <1>10 DEF StoreOK, Storing
<1>14. JobKeeps(l, k)
  BY <1>7, <1>11 DEF JobKeeps, Storing, Asking
<1>15. faults' = MaxFaults => JobTries(l, k)
  <2> SUFFICES ASSUME faults = MaxFaults PROVE JobTries(l, k)
    BY <1>6
  <2>1. /\ \A c \in j.group : OwnTried(l, j, c)
        /\ \A c \in j.group \ (j.todo \cup Custom \cup {b}) : SiblingsTried(l, j, c, {})
        /\ SiblingsTried(l, j, b, j.siblings)
    BY <1>2, <1>3, <1>5 DEF JobTries, OnSibling, SiblingsTried
  <2>2. found => p # None
    BY <1>10 DEF IsPriced
  <2>3. j.group \subseteq Bricks
    BY DEF JobType
  <2>4. \A c \in k.group : OwnTried(l, k, c)
    BY <1>7, <2>1, <2>2, <2>3 DEF OwnTried
  <2>5. \A c \in k.group \ (k.todo \cup Custom \cup {b}) : SiblingsTried(l, k, c, {})
    BY <1>7, <2>1, <2>2, <2>3 DEF SiblingsTried
  <2>6. SiblingsTried(l, k, b, k.siblings \cup IF k.pc = "sibling_fetch" THEN {k.element} ELSE {})
    BY <1>5, <1>7, <2>1, <2>2 DEF SiblingsTried
  <2> QED BY <1>7, <2>4, <2>5, <2>6 DEF JobTries, OnSibling
<1> QED BY <1>3, <1>6, <1>8, <1>12, <1>13, <1>14, <1>15 DEF JobGoesOn, JobOK

\* Locale.Fetch: after a failure; an answer that is of no use; an answer not found to
\* store; and a price to store.
LEMMA FetchJob ==
  ASSUME TypeOK, JobsInv, NEW s \in Sets, NEW d \in Designs, Fetch(s, d)
  PROVE  JobGoesOn(s, d)
<1>1. PICK j \in JobType : j = jobs[s][d]
  BY DEF TypeOK
<1>2. /\ JobOK(s, d, j)
      /\ faults = MaxFaults => JobTries(LocaleOf[s], j)
  BY <1>1, JobNow
<1>3. PICK l \in Locales : l = LocaleOf[s]
  BY PricesAssumption
<1>4. j.pc \in Asking
  BY <1>1 DEF Fetch, Asking
<1>5. PICK b \in Bricks : b = j.brick /\ b \in j.group
  BY <1>2, <1>4 DEF JobOK, GroupOK, OnBrick, OnSibling, Asking, JobType
<1>6. PICK e \in Elements : e = j.element
  BY <1>2, <1>4, <1>5, PricesAssumption DEF JobOK, ElementOK, OnSibling, Asking
<1>7. PICK new \in Prices : /\ new = Offer(e, l) /\ new.item = e /\ new # None
                            /\ new.cents = offer[e][l] /\ new.cents \in Nat
  BY OfferTyped
<1> DEFINE own == j.pc = "fetch"
           lower == HasLowerPrice(j.price[b], new)
           next == IF own THEN "bricks" ELSE "sibling"
           after == IF own THEN "fetch_set" ELSE "sibling_set"
           left == [j EXCEPT !.pc = next]
           notFound == [j EXCEPT !.pc = after, !.store = new]
           sold == [j EXCEPT !.pc = after, !.store = new, !.price[b] = new]
<1>8. \/ Fault /\ JobBecomes(s, d, left)
      \/ (new.cents = 0 \/ lower) /\ JobBecomes(s, d, left) /\ UNCHANGED faults
      \/ new.cents = 0 /\ JobBecomes(s, d, notFound) /\ UNCHANGED faults
      \/ new.cents > 0 /\ ~lower /\ JobBecomes(s, d, sold) /\ UNCHANGED faults
  BY <1>1, <1>3, <1>5, <1>6, <1>7 DEF Fetch
<1>9. /\ own => j.pc = "fetch" /\ ElementOf[b] = e
      /\ ~own => /\ j.pc = "sibling_fetch" /\ e \in PartColor[ElementOf[b]] \ {ElementOf[b]}
                 /\ j.siblings \subseteq PartColor[ElementOf[b]] \ {ElementOf[b]}
      /\ ElementOf[b] \in Elements
  BY <1>2, <1>4, <1>5, <1>6 DEF JobOK, ElementOK, OnSibling, Asking
<1>10. /\ left \in JobType /\ left.pc = next /\ left.group = j.group /\ left.todo = j.todo
       /\ left.pending = j.pending /\ left.price = j.price /\ left.brick = b
       /\ left.element = e /\ left.siblings = j.siblings
  BY <1>5, <1>6 DEF JobType
<1>11. /\ notFound.pc = after /\ notFound.group = j.group /\ notFound.todo = j.todo
       /\ notFound.pending = j.pending /\ notFound.price = j.price /\ notFound.brick = b
       /\ notFound.element = e /\ notFound.siblings = j.siblings /\ notFound.store = new
  BY <1>5, <1>6 DEF JobType
<1>12. /\ sold.pc = after /\ sold.group = j.group /\ sold.todo = j.todo
       /\ sold.pending = j.pending /\ sold.brick = b
       /\ sold.element = e /\ sold.siblings = j.siblings /\ sold.store = new
       /\ \A c \in Bricks : sold.price[c] = IF c = b THEN new ELSE j.price[c]
  BY <1>5, <1>6 DEF JobType
<1>13. notFound \in JobType /\ sold \in JobType
  BY DEF JobType, Price
<1>14. j.price[b] \in Price /\ j.group \subseteq Bricks
  BY DEF JobType
<1> HIDE DEF left, notFound, sold, own
<1>15. ASSUME faults = MaxFaults
       PROVE  /\ own => \A c \in j.group \ (j.pending \cup {b}) : OwnTried(l, j, c)
              /\ ~own => /\ \A c \in j.group : OwnTried(l, j, c)
                         /\ \A c \in j.group \ (j.todo \cup Custom \cup {b}) : SiblingsTried(l, j, c, {})
                         /\ SiblingsTried(l, j, b, j.siblings \cup {e})
  BY <1>2, <1>3, <1>5, <1>6, <1>9, <1>15 DEF JobTries, OnSibling
<1>16. ASSUME faults = MaxFaults, new.cents = 0 \/ lower
       PROVE  /\ own => OwnTried(l, j, b)
              /\ ~own => SiblingsTried(l, j, b, j.siblings)
  <2>1. CASE lower
    BY <2>1 DEF HasLowerPrice, HasValidPrice, OwnTried, SiblingsTried
  <2>2. CASE new.cents = 0
    BY <2>2, <1>7, <1>9, <1>15, <1>16 DEF OwnTried, SiblingsTried, NotSold
  <2> QED BY <1>16, <2>1, <2>2
<1>17. CASE Fault /\ JobBecomes(s, d, left)
  <2>1. JobOK(s, d, left)
    BY <1>2, <1>4, <1>5, <1>9, <1>10
       DEF JobOK, GroupOK, ElementOK, StoreOK, JobKeeps, OnBrick, OnSibling, Storing, Asking
  <2> QED BY <1>10, <1>17, <2>1, FaultSpent DEF JobGoesOn
<1>18. CASE (new.cents = 0 \/ lower) /\ JobBecomes(s, d, left) /\ UNCHANGED faults
  <2>1. JobOK(s, d, left)
    BY <1>2, <1>4, <1>5, <1>9, <1>10
       DEF JobOK, GroupOK, ElementOK, StoreOK, JobKeeps, OnBrick, OnSibling, Storing, Asking
  <2>2. ASSUME faults = MaxFaults PROVE JobTries(l, left)
    <3>1. CASE own
      BY <2>2, <3>1, <1>10, <1>15, <1>16, <1>18 DEF JobTries, OnSibling, OwnTried
    <3>2. CASE ~own
      BY <2>2, <3>2, <1>10, <1>15, <1>16, <1>18 DEF JobTries, OnSibling, OwnTried, SiblingsTried
    <3> QED BY <3>1, <3>2
  <2> QED BY <1>3, <1>10, <1>18, <2>1, <2>2 DEF JobGoesOn
<1>19. CASE new.cents = 0 /\ JobBecomes(s, d, notFound) /\ UNCHANGED faults
  <2>1. GroupOK(s, d, notFound) /\ ElementOK(notFound)
    BY <1>2, <1>4, <1>5, <1>9, <1>11
       DEF JobOK, GroupOK, ElementOK, OnBrick, OnSibling, Asking
  <2>2. StoreOK(l, notFound)
    BY <1>7, <1>11, <1>19 DEF StoreOK, Storing
  <2>3. CostsAtLeast(e, l, 0)
    <3>1. cache[e][l] \in Price
      BY DEF TypeOK
    <3> QED BY <3>1 DEF CostsAtLeast, IsPriced, Price, Prices
  <2>4. JobKeeps(l, notFound)
    BY <1>7, <1>11, <1>19, <2>3 DEF JobKeeps, Storing, Asking
  <2>5. ASSUME faults = MaxFaults PROVE JobTries(l, notFound)
    <3>1. CASE own
      BY <2>5, <3>1, <1>11, <1>15, <1>16, <1>19 DEF JobTries, OnSibling, OwnTried
    <3>2. CASE ~own
      BY <2>5, <3>2, <1>11, <1>15, <1>16, <1>19 DEF JobTries, OnSibling, OwnTried, SiblingsTried
    <3> QED BY <3>1, <3>2
  <2> QED BY <1>3, <1>13, <1>19, <2>1, <2>2, <2>4, <2>5 DEF JobGoesOn, JobOK
<1>20. CASE new.cents > 0 /\ ~lower /\ JobBecomes(s, d, sold) /\ UNCHANGED faults
  <2>1. GroupOK(s, d, sold) /\ ElementOK(sold)
    BY <1>2, <1>4, <1>5, <1>9, <1>12
       DEF JobOK, GroupOK, ElementOK, OnBrick, OnSibling, Asking
  <2>2. StoreOK(l, sold)
    BY <1>7, <1>12 DEF StoreOK, Storing
  <2>3. CostsAtLeast(e, l, new.cents)
    <3>1. cache[e][l] \in Price
      BY DEF TypeOK
    <3>2. \/ CostsAtLeast(e, l, new.cents)
          \/ j.price[b] # None /\ CostsAtLeast(e, l, j.price[b].cents)
      BY <1>2, <1>3, <1>4, <1>5, <1>6, <1>7 DEF JobOK, JobKeeps
    <3>3. j.price[b] # None => new.cents <= j.price[b].cents
      BY <1>7, <1>14, <1>20 DEF HasLowerPrice, HasValidPrice, Price, Prices
    <3>4. j.price[b] # None => j.price[b].cents \in Nat
      BY <1>14 DEF Price, Prices
    <3>5. IsPriced(cache[e][l]) => cache[e][l].cents \in Nat
      BY <3>1 DEF IsPriced, Price, Prices
    <3> QED BY <1>7, <3>2, <3>3, <3>4, <3>5 DEF CostsAtLeast
  <2>4. JobKeeps(l, sold)
    BY <1>7, <1>12, <2>3 DEF JobKeeps, Storing, Asking
  <2>5. ASSUME faults = MaxFaults PROVE JobTries(l, sold)
    <3>1. CASE own
      BY <2>5, <3>1, <1>7, <1>12, <1>14, <1>15 DEF JobTries, OnSibling, OwnTried
    <3>2. CASE ~own
      BY <2>5, <3>2, <1>7, <1>12, <1>14, <1>15 DEF JobTries, OnSibling, OwnTried, SiblingsTried
    <3> QED BY <3>1, <3>2
  <2> QED BY <1>3, <1>13, <1>20, <2>1, <2>2, <2>4, <2>5 DEF JobGoesOn, JobOK
<1> QED BY <1>8, <1>17, <1>18, <1>19, <1>20

\* RedisSetLocale: the answer was stored, or not.
LEMMA StoreJob ==
  ASSUME TypeOK, JobsInv, NEW s \in Sets, NEW d \in Designs, Store(s, d)
  PROVE  JobGoesOn(s, d)
<1>1. PICK j \in JobType : j = jobs[s][d]
  BY DEF TypeOK
<1>2. /\ JobOK(s, d, j)
      /\ faults = MaxFaults => JobTries(LocaleOf[s], j)
  BY <1>1, JobNow
<1>3. PICK l \in Locales : l = LocaleOf[s]
  BY PricesAssumption
<1> DEFINE next == CASE j.pc = "prefetch_set" -> "prefetch"
                     [] j.pc = "fetch_set" -> "bricks"
                     [] j.pc = "sibling_set" -> IF j.store.cents > 0 THEN "alias" ELSE "sibling"
           k == [j EXCEPT !.store = None, !.pc = next]
<1>4. j.pc \in Storing /\ JobBecomes(s, d, k)
  BY <1>1 DEF Store, Storing
<1>5. faults' = MaxFaults => faults = MaxFaults
  BY <1>1, FaultSpent DEF Store
<1>6. /\ j.pc = "prefetch_set" => next = "prefetch"
      /\ j.pc = "fetch_set" => next = "bricks"
      /\ j.pc = "sibling_set" => next = IF j.store.cents > 0 THEN "alias" ELSE "sibling"
  BY DEF JobType
<1> HIDE DEF next
<1>7. /\ k.pc = next /\ k.group = j.group /\ k.todo = j.todo /\ k.pending = j.pending
      /\ k.price = j.price /\ k.brick = j.brick /\ k.element = j.element
      /\ k.siblings = j.siblings
  BY DEF JobType
<1>8. k \in JobType
  BY <1>4, <1>6 DEF JobType, Price, Storing
<1> HIDE DEF k
<1>9. GroupOK(s, d, k) /\ ElementOK(k) /\ JobKeeps(l, k)
  BY <1>2, <1>3, <1>4, <1>6, <1>7
     DEF JobOK, GroupOK, ElementOK, JobKeeps, OnBrick, OnSibling, Storing, Asking
<1>10. StoreOK(l, k)
  <2>1. k.pc \notin Storing
    BY <1>4, <1>6, <1>7 DEF Storing
  <2>2. ASSUME k.pc = "alias"
        PROVE  IsPriced(k.price[k.brick]) /\ Belongs(k.price[k.brick], ElementOf[k.brick], l)
    <3>1. j.pc = "sibling_set" /\ j.store.cents > 0
      BY <1>4, <1>6, <1>7, <2>2 DEF Storing
    <3>2. /\ j.store \in Prices /\ j.store = Offer(j.store.item, l)
          /\ j.store.item = j.element /\ j.price[j.brick] = j.store
      BY <1>2, <1>3, <3>1 DEF JobOK, StoreOK, Storing
    <3>3. ElementOf[j.brick] \in Elements /\ j.element \in PartColor[ElementOf[j.brick]]
      BY <1>2, <3>1 DEF JobOK, ElementOK, OnSibling
    <3>4. j.store # None
      BY <3>2, PricesAssumption
    <3>5. j.store.loc = l
      BY <3>2 DEF Offer
    <3>6. IsPriced(j.store) /\ Kin(ElementOf[j.brick], j.store.item)
      BY <3>1, <3>2, <3>3, <3>4, KinFacts DEF IsPriced
    <3> QED BY <1>7, <3>2, <3>5, <3>6 DEF Belongs
  <2> QED BY <2>1, <2>2 DEF StoreOK, Storing
<1>11. ASSUME faults = MaxFaults PROVE JobTries(l, k)
  <2>1. CASE j.pc = "prefetch_set"
    BY <1>2, <1>3, <1>6, <1>7, <1>11, <2>1 DEF JobTries, OnSibling
  <2>2. CASE j.pc = "fetch_set"
    BY <1>2, <1>3, <1>6, <1>7, <1>11, <2>2 DEF JobTries, OnSibling, OwnTried
  <2>3. CASE j.pc = "sibling_set"
    BY <1>2, <1>3, <1>6, <1>7, <1>11, <2>3 DEF JobTries, OnSibling, OwnTried, SiblingsTried
  <2> QED BY <1>4, <2>1, <2>2, <2>3 DEF Storing
<1> QED BY <1>3, <1>4, <1>5, <1>8, <1>9, <1>10, <1>11 DEF JobGoesOn, JobOK

\* aliasResolvedLocale: the brick has its price, and is done with.
LEMMA AliasJob ==
  ASSUME TypeOK, JobsInv, NEW s \in Sets, NEW d \in Designs, Alias(s, d)
  PROVE  JobGoesOn(s, d)
<1>1. PICK j \in JobType : j = jobs[s][d]
  BY DEF TypeOK
<1>2. /\ JobOK(s, d, j)
      /\ faults = MaxFaults => JobTries(LocaleOf[s], j)
  BY <1>1, JobNow
<1> DEFINE k == [j EXCEPT !.pc = "siblings"]
<1>3. j.pc = "alias" /\ JobBecomes(s, d, k)
  BY <1>1 DEF Alias
<1>4. faults' = MaxFaults => faults = MaxFaults
  BY <1>1, FaultSpent DEF Alias
<1>5. /\ k \in JobType /\ k.pc = "siblings" /\ k.group = j.group /\ k.todo = j.todo
      /\ k.pending = j.pending /\ k.price = j.price
  BY AtPc
<1> HIDE DEF k
<1>6. JobOK(s, d, k)
  BY <1>2, <1>3, <1>5
     DEF JobOK, GroupOK, ElementOK, StoreOK, JobKeeps, OnBrick, OnSibling, Storing, Asking
<1>7. ASSUME faults = MaxFaults PROVE JobTries(LocaleOf[s], k)
  <2>1. j.price[j.brick] # None
    BY <1>2, <1>3 DEF JobOK, StoreOK, IsPriced
  <2>2. \A b \in j.group \ (j.todo \cup Custom) : SiblingsTried(LocaleOf[s], j, b, {})
    BY <1>2, <1>3, <1>7, <2>1 DEF JobTries, OnSibling, SiblingsTried
  <2>3. \A b \in j.group : OwnTried(LocaleOf[s], j, b)
    BY <1>2, <1>3, <1>7 DEF JobTries, OnSibling
  <2> QED BY <1>5, <2>2, <2>3 DEF JobTries, OnSibling, OwnTried, SiblingsTried
<1> QED BY <1>3, <1>4, <1>5, <1>6, <1>7 DEF JobGoesOn

\* A job whose bricks were handed over is done.
LEMMA IdleJobOK ==
  ASSUME NEW x \in {"none", "done"}
  PROVE  LET k == [IdleJob EXCEPT !.pc = x]
         IN  /\ k \in JobType /\ k.pc = x /\ k.group = {}
             /\ \A s, d : JobOK(s, d, k)
             /\ \A l : JobTries(l, k)
<1> DEFINE k == [IdleJob EXCEPT !.pc = x]
<1>1. k \in JobType
  BY DEF IdleJob, JobType, Price
<1>2. k.pc = x /\ k.group = {} /\ k.todo = {} /\ k.pending = {}
  BY DEF IdleJob
<1> HIDE DEF k
<1>3. \A s, d : JobOK(s, d, k)
  BY <1>2
     DEF JobOK, GroupOK, ElementOK, StoreOK, JobKeeps, OnBrick, OnSibling, Storing, Asking
<1>4. \A l : JobTries(l, k)
  BY <1>2 DEF JobTries, OnSibling
<1> QED BY <1>1, <1>2, <1>3, <1>4 DEF k

\* The job is done.
LEMMA DeliverJob ==
  ASSUME NEW s \in Sets, NEW d \in Designs, Deliver(s, d)
  PROVE  JobGoesOn(s, d)
BY IdleJobOK DEF Deliver, JobGoesOn

-----------------------------------------------------------------------------
(* What a step does to Redis and to the other jobs *)

\* An entry an element has of itself changes to the offer only, which is no higher.
EntryFalls(e, l) ==
    \/ cache'[e][l] = cache[e][l]
    \/ IsPriced(cache'[e][l]) /\ cache'[e][l].item = e =>
          /\ cache'[e][l].cents = offer[e][l]
          /\ CostsAtLeast(e, l, offer[e][l])

CacheFalls ==
    /\ cache' \in [Elements -> [Locales -> Price]]
    /\ CacheBelongs'
    /\ \A e \in Elements, l \in Locales : EntryFalls(e, l)

\* A step that does not write to Redis.
LEMMA CacheStays ==
  ASSUME TypeOK, CacheBelongs, cache' = cache
  PROVE  CacheFalls
BY DEF TypeOK, CacheBelongs, CacheFalls, EntryFalls

\* One entry is written.
LEMMA EntryWritten ==
  ASSUME TypeOK, CacheBelongs, NEW e \in Elements, NEW l \in Locales, NEW p \in Price,
         Belongs(p, e, l),
         p = cache[e][l] \/ (IsPriced(p) /\ p.item = e =>
             p.cents = offer[e][l] /\ CostsAtLeast(e, l, offer[e][l])),
         cache' = [cache EXCEPT ![e][l] = p]
  PROVE  CacheFalls
<1>1. \A f \in Elements, m \in Locales :
         cache'[f][m] = IF f = e /\ m = l THEN p ELSE cache[f][m]
  BY DEF TypeOK
<1>2. cache' \in [Elements -> [Locales -> Price]]
  BY DEF TypeOK
<1>3. CacheBelongs'
  BY <1>1 DEF CacheBelongs
<1>4. \A f \in Elements, m \in Locales : EntryFalls(f, m)
  BY <1>1 DEF EntryFalls
<1> QED BY <1>2, <1>3, <1>4 DEF CacheFalls

\* What RedisSetLocale writes was offered, and is no more than what is there; a
\* not-found goes to an element of the same part and colour.
LEMMA StoreCache ==
  ASSUME TypeOK, CacheBelongs, IdsBelong, JobsInv, NEW s \in Sets, NEW d \in Designs,
         Store(s, d)
  PROVE  CacheFalls
<1>1. PICK j \in JobType : j = jobs[s][d]
  BY DEF TypeOK
<1>2. JobOK(s, d, j)
  BY <1>1, JobNow
<1>3. PICK l \in Locales : l = LocaleOf[s]
  BY PricesAssumption
<1>4. j.pc \in Storing
  BY <1>1 DEF Store, Storing
<1>5. PICK e \in Elements : e = j.store.item /\ j.store \in Prices /\ j.store = Offer(e, l)
  BY <1>2, <1>3, <1>4 DEF JobOK, StoreOK, Prices
<1>6. j.store \in Price /\ j.store.loc = l /\ j.store.cents = offer[e][l]
  BY <1>5 DEF Offer, Price
<1>7. CostsAtLeast(e, l, offer[e][l])
  BY <1>2, <1>3, <1>4, <1>5, <1>6 DEF JobOK, JobKeeps
<1>8. PICK key : key = KeyOf(j)
  OBVIOUS
<1>9. cache' = [cache EXCEPT ![key][l] = j.store] \/ cache' = cache
  BY <1>1, <1>3, <1>8 DEF Store
<1>10. CASE j.pc # "prefetch_set" /\ IsNotFound(j.store) /\ j.price[j.brick] = None
  <2>1. j.pc \in {"fetch_set", "sibling_set"} /\ j.store.item = j.element
    BY <1>2, <1>4, <1>10 DEF Storing, JobOK, StoreOK
  <2>2. PICK b \in Bricks : b = j.brick
    BY <1>2, <2>1 DEF JobOK, GroupOK, OnBrick, OnSibling, JobType
  <2>3. PICK own \in Elements : own = ElementOf[b]
    BY <1>2, <2>1, <2>2 DEF JobOK, ElementOK, OnSibling
  <2>4. Kin(own, e)
    BY <1>2, <1>5, <2>1, <2>2, <2>3, KinFacts DEF JobOK, ElementOK
  <2>5. key = mainId[b] /\ key \in Elements /\ Kin(own, key)
    BY <1>8, <1>10, <2>2, <2>3, PricesAssumption DEF KeyOf, IdsBelong
  <2>6. Belongs(j.store, key, l)
    BY <1>5, <1>6, <2>4, <2>5, KinFacts DEF Belongs
  <2>7. ~IsPriced(j.store)
    BY <1>10 DEF IsPriced, IsNotFound
  <2> QED BY <1>6, <1>9, <2>5, <2>6, <2>7, EntryWritten, CacheStays
<1>11. CASE ~(j.pc # "prefetch_set" /\ IsNotFound(j.store) /\ j.price[j.brick] = None)
  <2>1. key = e
    BY <1>5, <1>8, <1>11 DEF KeyOf
  <2>2. Belongs(j.store, e, l)
    BY <1>5, <1>6, KinFacts DEF Belongs
  <2> QED BY <1>6, <1>7, <1>9, <2>1, <2>2, EntryWritten, CacheStays
<1> QED BY <1>10, <1>11

\* aliasResolvedLocale leaves the price an element has of itself alone, or replaces it
\* by one of another element.
LEMMA AliasCache ==
  ASSUME TypeOK, CacheBelongs, JobsInv, NEW s \in Sets, NEW d \in Designs, Alias(s, d)
  PROVE  CacheFalls
<1>1. PICK j \in JobType : j = jobs[s][d]
  BY DEF TypeOK
<1>2. JobOK(s, d, j)
  BY <1>1, JobNow
<1>3. PICK l \in Locales : l = LocaleOf[s]
  BY PricesAssumption
<1>4. j.pc = "alias"
  BY <1>1 DEF Alias
<1>5. PICK b \in Bricks : b = j.brick
  BY <1>2, <1>4 DEF JobOK, GroupOK, OnBrick, OnSibling, JobType
<1>6. PICK e \in Elements : e = ElementOf[b]
  BY <1>2, <1>4, <1>5 DEF JobOK, ElementOK, OnSibling
<1>7. PICK p \in Price : p = j.price[b]
  BY DEF JobType
<1>8. Belongs(p, e, l)
  BY <1>2, <1>3, <1>4, <1>5, <1>6, <1>7 DEF JobOK, StoreOK
<1>9. \/ p.item # e /\ cache' = [cache EXCEPT ![e][l] = p]
      \/ p.item = e /\ cache' = [cache EXCEPT ![e][l] = cache[e][l]]
      \/ cache' = cache
  BY <1>1, <1>3, <1>5, <1>6, <1>7 DEF Alias
<1>10. [cache EXCEPT ![e][l] = cache[e][l]] = cache
  BY DEF TypeOK
<1> QED BY <1>8, <1>9, <1>10, EntryWritten, CacheStays

\* Such a write leaves what the other jobs rely on.
LEMMA CostsStill ==
  ASSUME TypeOK, CacheFalls, NEW e \in Elements, NEW l \in Locales, NEW n, CostsAtLeast(e, l, n)
  PROVE  \/ IsPriced(cache'[e][l]) /\ cache'[e][l].item = e => cache'[e][l].cents >= n
         \/ IsPriced(cache'[e][l]) /\ cache'[e][l].item = e => cache'[e][l].cents >= offer[e][l]
<1>1. offer[e][l] \in Nat
  BY OfferTyped
<1> QED BY <1>1 DEF CacheFalls, EntryFalls, CostsAtLeast

\* What a job carries stays right when others write to Redis.
LEMMA JobKeptOn ==
  ASSUME TypeOK, CacheFalls, offer' = offer, NEW s \in Sets, NEW d \in Designs,
         NEW j \in JobType, JobOK(s, d, j)
  PROVE  JobOK(s, d, j)'
<1>1. PICK l \in Locales : l = LocaleOf[s]
  BY PricesAssumption
<1>2. GroupOK(s, d, j) /\ ElementOK(j) /\ StoreOK(l, j) /\ JobKeeps(l, j)
  BY <1>1 DEF JobOK
<1>3. StoreOK(l, j)'
  BY <1>2 DEF StoreOK, Offer
<1>4. GroupOK(s, d, j)' /\ ElementOK(j)'
  BY <1>2 DEF GroupOK, ElementOK
<1>5. ASSUME j.pc \in Storing PROVE CostsAtLeast(j.store.item, l, j.store.cents)'
  <2>1. j.store \in Prices /\ j.store = Offer(j.store.item, l)
    BY <1>2, <1>5 DEF StoreOK
  <2>2. PICK e \in Elements : e = j.store.item
    BY <2>1 DEF Prices
  <2>3. j.store.cents = offer[e][l]
    BY <2>1, <2>2 DEF Offer
  <2>4. CostsAtLeast(e, l, j.store.cents)
    BY <1>2, <1>5, <2>2 DEF JobKeeps
  <2>5. IsPriced(cache'[e][l]) /\ cache'[e][l].item = e => cache'[e][l].cents >= j.store.cents
    BY <2>3, <2>4, CostsStill
  <2> QED BY <2>2, <2>5 DEF CostsAtLeast
<1>6. ASSUME j.pc \in Asking
      PROVE  \/ CostsAtLeast(j.element, l, offer[j.element][l])'
             \/ j.price[j.brick] # None /\ CostsAtLeast(j.element, l, j.price[j.brick].cents)'
  <2>1. PICK b \in Bricks : b = j.brick
    BY <1>2, <1>6 DEF GroupOK, OnBrick, OnSibling, Asking, JobType
  <2>2. PICK e \in Elements : e = j.element
    BY <1>2, <1>6, <2>1, PricesAssumption DEF ElementOK, OnSibling, Asking
  <2>3. CASE CostsAtLeast(e, l, offer[e][l])
    <3>1. IsPriced(cache'[e][l]) /\ cache'[e][l].item = e => cache'[e][l].cents >= offer[e][l]
      BY <2>3, CostsStill
    <3> QED BY <2>2, <3>1 DEF CostsAtLeast
  <2>4. CASE j.price[b] # None /\ CostsAtLeast(e, l, j.price[b].cents)
    <3>1. \/ IsPriced(cache'[e][l]) /\ cache'[e][l].item = e => cache'[e][l].cents >= j.price[b].cents
          \/ IsPriced(cache'[e][l]) /\ cache'[e][l].item = e => cache'[e][l].cents >= offer[e][l]
      BY <2>4, CostsStill
    <3> QED BY <2>1, <2>2, <2>4, <3>1 DEF CostsAtLeast
  <2> QED BY <1>2, <1>6, <2>1, <2>2, <2>3, <2>4 DEF JobKeeps
<1>7. JobKeeps(l, j)'
  BY <1>5, <1>6 DEF JobKeeps
<1> QED BY <1>1, <1>3, <1>4, <1>7 DEF JobOK

\* A job that is right before the step is right after it.
LEMMA JobAfter ==
  ASSUME TypeOK, CacheFalls, offer' = offer,
         NEW s \in Sets, NEW d \in Designs, NEW j \in JobType, j = jobs'[s][d], JobOK(s, d, j),
         faults' = MaxFaults => JobTries(LocaleOf[s], j)
  PROVE  /\ JobOK(s, d, jobs[s][d])'
         /\ (faults = MaxFaults => JobTries(LocaleOf[s], jobs[s][d]))'
<1>1. JobOK(s, d, j)'
  BY JobKeptOn
<1>2. (faults = MaxFaults => JobTries(LocaleOf[s], j))'
  BY DEF JobTries, OwnTried, SiblingsTried, NotSold
<1> QED BY <1>1, <1>2

\* A job goes on while the others wait.
LEMMA JobsGoOn ==
  ASSUME TypeOK, JobsInv, CacheFalls, offer' = offer,
         faults' = MaxFaults => faults = MaxFaults,
         NEW s \in Sets, NEW d \in Designs, JobGoesOn(s, d)
  PROVE  /\ jobs' \in [Sets -> [Designs -> JobType]]
         /\ JobsInv'
<1>1. PICK k \in JobType : /\ JobBecomes(s, d, k) /\ JobOK(s, d, k)
                           /\ faults' = MaxFaults => JobTries(LocaleOf[s], k)
  BY DEF JobGoesOn
<1>2. \A q \in Sets, x \in Designs : jobs'[q][x] = IF q = s /\ x = d THEN k ELSE jobs[q][x]
  BY <1>1 DEF TypeOK, JobBecomes
<1>3. jobs' \in [Sets -> [Designs -> JobType]]
  BY <1>1 DEF TypeOK, JobBecomes
<1>4. ASSUME NEW q \in Sets, NEW x \in Designs
      PROVE  /\ JobOK(q, x, jobs[q][x])'
             /\ (faults = MaxFaults => JobTries(LocaleOf[q], jobs[q][x]))'
  <2>1. PICK j \in JobType : /\ j = jobs'[q][x] /\ JobOK(q, x, j)
                             /\ faults' = MaxFaults => JobTries(LocaleOf[q], j)
    BY <1>1, <1>2, JobNow
  <2> QED BY <2>1, JobAfter
<1> QED BY <1>3, <1>4 DEF JobsInv

\* Nothing happens to the jobs.
LEMMA JobsStay ==
  ASSUME TypeOK, CacheBelongs, JobsInv, UNCHANGED <<offer, cache, jobs, faults>>
  PROVE  JobsInv'
<1>1. CacheFalls
  BY CacheStays
<1>2. ASSUME NEW q \in Sets, NEW x \in Designs
      PROVE  /\ JobOK(q, x, jobs[q][x])'
             /\ (faults = MaxFaults => JobTries(LocaleOf[q], jobs[q][x]))'
  <2>1. PICK j \in JobType : /\ j = jobs'[q][x] /\ JobOK(q, x, j)
                             /\ faults' = MaxFaults => JobTries(LocaleOf[q], j)
    BY JobNow
  <2> QED BY <1>1, <2>1, JobAfter
<1> QED BY <1>2 DEF JobsInv

-----------------------------------------------------------------------------
(* The types, the entries and the jobs are kept by every step *)

PricesInv == TypeOK /\ CacheBelongs /\ IdsBelong /\ JobsInv

\* A step that leaves the ID objects alone.
LEMMA IdsStay ==
  ASSUME IdsBelong, mainId' = mainId
  PROVE  IdsBelong'
BY DEF IdsBelong

\* Locale.Fetch puts the element it asked for into the ID object.
LEMMA FetchIds ==
  ASSUME PricesInv, NEW s \in Sets, NEW d \in Designs, Fetch(s, d)
  PROVE  IdsBelong'
<1>1. PICK j \in JobType : j = jobs[s][d]
  BY DEF PricesInv, TypeOK
<1>2. JobOK(s, d, j) /\ j.pc \in Asking
  BY <1>1, JobNow DEF PricesInv, Fetch, Asking
<1>3. PICK b \in Bricks : b = j.brick
  BY <1>2 DEF JobOK, GroupOK, OnBrick, OnSibling, Asking, JobType
<1>4. PICK own \in Elements : own = ElementOf[b]
  BY <1>2, <1>3 DEF JobOK, ElementOK, OnSibling, Asking
<1>5. j.element \in Elements /\ Kin(own, j.element)
  BY <1>2, <1>3, <1>4, KinFacts DEF JobOK, ElementOK, Asking
<1>6. mainId' = mainId \/ mainId' = [mainId EXCEPT ![b] = j.element]
  BY <1>1, <1>3 DEF Fetch, PricesInv, TypeOK
<1>7. \A x \in Bricks : mainId'[x] = mainId[x] \/ (x = b /\ mainId'[x] = j.element)
  BY <1>6 DEF PricesInv, TypeOK
<1> QED BY <1>4, <1>5, <1>7 DEF PricesInv, IdsBelong

\* What a step of a job does.
LEMMA JobStepFacts ==
  ASSUME PricesInv, NEW s \in Sets, NEW d \in Designs, JobStep(s, d)
  PROVE  /\ JobGoesOn(s, d) /\ CacheFalls
         /\ UNCHANGED <<offer, shared, ear, inbox>>
         /\ faults' \in 0..MaxFaults
         /\ faults' = MaxFaults => faults = MaxFaults
         /\ mainId' \in [Bricks -> Elements \cup {None}] /\ IdsBelong'
<1> USE DEF PricesInv
<1>0. TypeOK /\ mainId \in [Bricks -> Elements \cup {None}] /\ faults \in 0..MaxFaults
  BY DEF TypeOK
<1>1. CASE \E b \in Bricks : CachePass(s, d, b)
  BY <1>0, <1>1, CachePassJob, IdsStay, CacheStays DEF CachePass
<1>2. CASE \E b \in Bricks : BrickLoad(s, d, b)
  BY <1>0, <1>2, BrickLoadJob, IdsStay, CacheStays DEF BrickLoad
<1>3. CASE \E b \in Bricks : SiblingsAsk(s, d, b)
  <2>1. PICK b \in Bricks : SiblingsAsk(s, d, b)
    BY <1>3
  <2>2. UNCHANGED <<offer, cache, mainId, shared, ear, inbox>> /\ (UNCHANGED faults \/ Fault)
    BY <2>1 DEF SiblingsAsk
  <2> QED BY <1>0, <2>1, <2>2, SiblingsAskJob, IdsStay, CacheStays, FaultSpent
<1>4. CASE \E e \in Elements : PrefetchRead(s, d, e)
  BY <1>0, <1>4, PrefetchReadJob, IdsStay, CacheStays DEF PrefetchRead
<1>5. CASE \E e \in Elements : SiblingLoad(s, d, e)
  BY <1>0, <1>5, SiblingLoadJob, IdsStay, CacheStays DEF SiblingLoad
<1>6. CASE PrefetchAsk(s, d)
  <2>1. UNCHANGED <<offer, cache, mainId, shared, ear, inbox>> /\ (UNCHANGED faults \/ Fault)
    BY <1>6 DEF PrefetchAsk
  <2> QED BY <1>0, <1>6, <2>1, PrefetchAskJob, IdsStay, CacheStays, FaultSpent
<1>7. CASE PrefetchEnd(s, d)
  BY <1>0, <1>7, PrefetchEndJob, IdsStay, CacheStays DEF PrefetchEnd
<1>8. CASE BricksEnd(s, d)
  BY <1>0, <1>8, BricksEndJob, IdsStay, CacheStays DEF BricksEnd
<1>9. CASE Fetch(s, d)
  <2>1. UNCHANGED <<offer, cache, shared, ear, inbox>> /\ (UNCHANGED faults \/ Fault)
    BY <1>9 DEF Fetch
  <2>2. jobs[s][d].element \in Elements \cup {None}
    BY DEF TypeOK, JobType
  <2>3. mainId' \in [Bricks -> Elements \cup {None}]
    BY <1>0, <1>9, <2>2 DEF Fetch
  <2>4. IdsBelong'
    BY <1>9, FetchIds
  <2> QED BY <1>0, <1>9, <2>1, <2>3, <2>4, FetchJob, CacheStays, FaultSpent
<1>10. CASE Store(s, d)
  <2>1. UNCHANGED <<offer, mainId, shared, ear, inbox>> /\ (UNCHANGED faults \/ Fault)
    BY <1>10 DEF Store
  <2> QED BY <1>0, <1>10, <2>1, StoreJob, IdsStay, StoreCache, FaultSpent
<1>11. CASE SiblingsEnd(s, d)
  BY <1>0, <1>11, SiblingsEndJob, IdsStay, CacheStays DEF SiblingsEnd
<1>12. CASE Alias(s, d)
  <2>1. UNCHANGED <<offer, mainId, shared, ear, inbox>> /\ (UNCHANGED faults \/ Fault)
    BY <1>12 DEF Alias
  <2> QED BY <1>0, <1>12, <2>1, AliasJob, IdsStay, AliasCache, FaultSpent
<1>13. CASE Deliver(s, d)
  BY <1>0, <1>13, DeliverJob, IdsStay, CacheStays DEF Deliver
<1> QED BY <1>1, <1>2, <1>3, <1>4, <1>5, <1>6, <1>7, <1>8, <1>9, <1>10, <1>11, <1>12, <1>13
        DEF JobStep

\* Deliver is the only one that touches the books.
LEMMA JobStepBooks ==
  ASSUME NEW s \in Sets, NEW d \in Designs, JobStep(s, d)
  PROVE  books' = books \/ Deliver(s, d)
BY DEF JobStep, CachePass, BrickLoad, SiblingsAsk, PrefetchRead, SiblingLoad, PrefetchAsk,
       PrefetchEnd, BricksEnd, Fetch, Store, SiblingsEnd, Alias

\* A typed book among typed books.
LEMMA BookBecomes ==
  ASSUME TypeOK, NEW s \in Sets, NEW k \in BookType, books' = [books EXCEPT ![s] = k]
  PROVE  books' \in [Sets -> BookType]
BY DEF TypeOK

\* The books and the inventories stay typed, action by action.
LEMMA InventoryTyped ==
  ASSUME TypeOK, NEW s \in Sets, NEW b \in Bricks,
         \/ InventoryRead(s, b) \/ InventoryTake(s, b) \/ InventoryBroadcast(s, b)
         \/ CheckBrick(s, b) \/ ListenerHear(s, b)
  PROVE  /\ books' \in [Sets -> BookType]
         /\ shared' \in [Sets -> [step : [Bricks -> {"none", "merged", "sent"}],
                                  price : [Bricks -> Price]]]
         /\ inbox' \in [Sets -> SUBSET Bricks]
         /\ UNCHANGED <<offer, cache, mainId, ear, jobs, faults>>
<1>0. /\ books[s] \in BookType /\ Entry(ElementOf[b], LocaleOf[s]) \in Price
      /\ books \in [Sets -> BookType] /\ inbox \in [Sets -> SUBSET Bricks]
      /\ shared \in [Sets -> [step : [Bricks -> {"none", "merged", "sent"}],
                              price : [Bricks -> Price]]]
  BY EntryTyped DEF TypeOK
<1>1. CASE InventoryRead(s, b)
  <2> DEFINE k == [books[s] EXCEPT !.where[b] = "read", !.price[b] = Entry(ElementOf[b], LocaleOf[s])]
  <2>1. k \in BookType
    BY <1>0 DEF BookType
  <2>2. books' = [books EXCEPT ![s] = k]
    BY <1>1 DEF InventoryRead
  <2> QED BY <1>0, <1>1, <2>1, <2>2, BookBecomes DEF InventoryRead
<1>2. CASE InventoryTake(s, b)
  <2>1. TakeBrick(books[s], b) \in BookType
    BY <1>0, TakeBrickTyped
  <2>2. books' \in [Sets -> BookType]
    BY <1>2, <2>1, BookBecomes DEF InventoryTake
  <2>3. books[s].price[b] \in Price
    BY <1>0 DEF BookType
  <2>4. shared' \in [Sets -> [step : [Bricks -> {"none", "merged", "sent"}],
                              price : [Bricks -> Price]]]
    BY <1>0, <1>2, <2>3 DEF InventoryTake
  <2> QED BY <1>0, <1>2, <2>2, <2>4 DEF InventoryTake
<1>3. CASE InventoryBroadcast(s, b)
  BY <1>0, <1>3 DEF InventoryBroadcast
<1>4. CASE CheckBrick(s, b)
  <2> DEFINE p == IF b \in Custom THEN None ELSE Entry(ElementOf[b], LocaleOf[s])
             k == [books[s] EXCEPT !.price[b] = p,
                      !.where[b] = IF b \in Custom \/ p # None THEN "final" ELSE "missing"]
  <2>1. p \in Price
    BY <1>0 DEF Price
  <2>2. books' = [books EXCEPT ![s] = AddFinalBrickData(k, b)]
    BY <1>4 DEF CheckBrick
  <2> HIDE DEF p
  <2>3. k \in BookType
    BY <1>0, <2>1 DEF BookType
  <2> HIDE DEF k
  <2>4. AddFinalBrickData(k, b) \in BookType
    BY <2>3, AddFinalTyped
  <2> QED BY <1>0, <1>4, <2>2, <2>4, BookBecomes DEF CheckBrick
<1>5. CASE ListenerHear(s, b)
  <2>1. WriterOf[s] \in Sets
    BY PricesAssumption
  <2>2. shared[WriterOf[s]].price[b] \in Price
    BY <1>0, <2>1
  <2>3. HearBricks(books[s], {b}, shared[WriterOf[s]].price) \in BookType
    BY <1>0, <2>2, HearTyped
  <2>4. books' \in [Sets -> BookType]
    BY <1>5, <2>3, BookBecomes DEF ListenerHear
  <2> QED BY <1>0, <1>5, <2>4 DEF ListenerHear
<1> QED BY <1>1, <1>2, <1>3, <1>4, <1>5

\* The listener's steps, ...
LEMMA ListenerTyped ==
  ASSUME TypeOK, NEW s \in Sets,
         ListenerRegister(s) \/ ListenerSnapshot(s) \/ ListenerReturn(s)
  PROVE  /\ books' \in [Sets -> BookType]
         /\ ear' \in [Sets -> {"writer", "cached", "out", "registered", "listening", "returned"}]
         /\ inbox' \in [Sets -> SUBSET Bricks]
         /\ UNCHANGED <<offer, cache, mainId, shared, jobs, faults>>
<1>0. /\ books[s] \in BookType /\ books \in [Sets -> BookType]
      /\ inbox \in [Sets -> SUBSET Bricks]
      /\ ear \in [Sets -> {"writer", "cached", "out", "registered", "listening", "returned"}]
  BY DEF TypeOK
<1>1. \A q \in Sets : InventoryOf[q] \subseteq Bricks
  BY PricesAssumption
<1>2. WriterOf[s] \in Sets
  BY PricesAssumption
<1>3. \A b \in Bricks : shared[WriterOf[s]].price[b] \in Price
  BY <1>2 DEF TypeOK
<1>4. CASE ListenerRegister(s)
  BY <1>0, <1>4 DEF ListenerRegister
<1>5. CASE ListenerSnapshot(s)
  <2> DEFINE bs == Merged(WriterOf[s])
  <2>1. bs \in SUBSET Bricks
    BY <1>1, <1>2 DEF Merged
  <2> HIDE DEF bs
  <2>2. HearBricks(books[s], bs, shared[WriterOf[s]].price) \in BookType
    BY <1>0, <1>3, <2>1, HearTyped
  <2>3. books' \in [Sets -> BookType]
    BY <1>5, <2>2, BookBecomes DEF ListenerSnapshot, bs
  <2> QED BY <1>0, <1>5, <2>3 DEF ListenerSnapshot
<1>6. CASE ListenerReturn(s)
  <2> DEFINE bs == InventoryOf[s] \ Missing(s)
             where == [b \in bs |-> "missing"]
             p == shared[WriterOf[s]].price
  <2>1. Typed(bs, p, where)
    BY <1>1, <1>3 DEF Typed
  <2>2. books' = [books EXCEPT ![s] = Entered(books[s], bs, p, where)]
    BY <1>6 DEF ListenerReturn
  <2> HIDE DEF bs, where, p
  <2>3. Entered(books[s], bs, p, where) \in BookType
    BY <1>0, <2>1, EnteredTyped
  <2>4. books' \in [Sets -> BookType]
    BY <2>2, <2>3, BookBecomes
  <2> QED BY <1>0, <1>6, <2>4 DEF ListenerReturn
<1> QED BY <1>4, <1>5, <1>6

\* ... the beginning and the end of the prices, ...
LEMMA PhaseTyped ==
  ASSUME TypeOK, NEW s \in Sets, StartPrices(s) \/ PricesEnd(s)
  PROVE  /\ books' \in [Sets -> BookType]
         /\ UNCHANGED <<offer, cache, mainId, shared, ear, inbox, faults>>
<1>0. books[s] \in BookType
  BY DEF TypeOK
<1>1. CASE StartPrices(s)
  <2> DEFINE n == Cardinality(Final(s))
             k == [books[s] EXCEPT !.phase = "prices", !.done = n]
  <2>1. Final(s) \in SUBSET Bricks
    BY PricesAssumption DEF Final
  <2>2. n \in Nat
    BY <2>1, BricksFinite
  <2>3. books' = [books EXCEPT ![s] = k]
    BY <1>1 DEF StartPrices
  <2> HIDE DEF n
  <2>4. k \in BookType
    BY <1>0, <2>2 DEF BookType
  <2> QED BY <1>1, <2>3, <2>4, BookBecomes DEF StartPrices
<1>2. CASE PricesEnd(s)
  <2> DEFINE k == [books[s] EXCEPT !.phase = "done"]
  <2>1. k \in BookType
    BY <1>0 DEF BookType
  <2>2. books' = [books EXCEPT ![s] = k]
    BY <1>2 DEF PricesEnd
  <2> QED BY <1>2, <2>1, <2>2, BookBecomes DEF PricesEnd
<1> QED BY <1>1, <1>2

\* ... and a batch of bricks that comes back.
LEMMA DeliverTyped ==
  ASSUME TypeOK, NEW s \in Sets, NEW d \in Designs, Deliver(s, d)
  PROVE  books' \in [Sets -> BookType]
<1>1. PICK j \in JobType : j = jobs[s][d]
  BY DEF TypeOK
<1>2. PICK counted \in Countable(books[s].missingParts, Priced(j.price, j.group)) :
         books' = [books EXCEPT ![s] = TakeBricks(books[s], j.group, j.price, counted)]
  BY <1>1 DEF Deliver
<1>3. books[s] \in BookType /\ j.group \in SUBSET Bricks /\ j.price \in [Bricks -> Price]
  BY DEF TypeOK, JobType
<1>4. TakeBricks(books[s], j.group, j.price, counted) \in BookType
  BY <1>2, <1>3, TakeBricksTyped
<1> QED BY <1>2, <1>4, BookBecomes

\* The jobs of a runtime set start with its missing bricks, or not at all.
LEMMA JobsStart ==
  ASSUME TypeOK, CacheBelongs, JobsInv, NEW s \in Sets, StartPrices(s)
  PROVE  /\ jobs' \in [Sets -> [Designs -> JobType]]
         /\ JobsInv'
<1> DEFINE group(d) == {b \in Missing(s) : DesignOf[b] = d}
           price(d) == [b \in Bricks |-> IF b \in group(d) THEN books[s].price[b] ELSE None]
           fresh(d) == [IdleJob EXCEPT !.pc = "cache", !.group = group(d), !.todo = group(d),
                                       !.price = price(d)]
           start == [d \in Designs |-> IF group(d) = {} THEN IdleJob ELSE fresh(d)]
<1>1. jobs' = [jobs EXCEPT ![s] = start] /\ UNCHANGED <<offer, cache, faults>>
  BY DEF StartPrices
<1>2. ASSUME NEW d \in Designs
      PROVE  /\ start[d] \in JobType /\ JobOK(s, d, start[d])
             /\ JobTries(LocaleOf[s], start[d])
  <2>1. CASE group(d) = {}
    <3>1. start[d] = [IdleJob EXCEPT !.pc = "none"]
      BY <2>1 DEF IdleJob
    <3> HIDE DEF start
    <3> QED BY <3>1, IdleJobOK
  <2>2. CASE group(d) # {}
    <3> DEFINE k == fresh(d)
    <3>1. start[d] = k
      BY <2>2
    <3>2. group(d) \in SUBSET Bricks /\ \A b \in group(d) : b \in InventoryOf[s] /\ DesignOf[b] = d
      BY PricesAssumption DEF Missing
    <3>3. price(d) \in [Bricks -> Price]
      BY DEF TypeOK, BookType, Price
    <3> HIDE DEF group, price, start
    <3>4. k \in JobType /\ k.pc = "cache" /\ k.group = group(d) /\ k.todo = group(d) /\ k.pending = {}
      BY <3>2, <3>3 DEF IdleJob, JobType, Price
    <3> HIDE DEF k, fresh
    <3>5. JobOK(s, d, k)
      BY <3>2, <3>4
         DEF JobOK, GroupOK, ElementOK, StoreOK, JobKeeps, OnBrick, OnSibling, Storing, Asking
    <3>6. JobTries(LocaleOf[s], k)
      BY <3>4 DEF JobTries, OnSibling
    <3> QED BY <3>1, <3>4, <3>5, <3>6
  <2> QED BY <2>1, <2>2
<1>3. start \in [Designs -> JobType]
  BY <1>2
<1> HIDE DEF start
<1>4. jobs' \in [Sets -> [Designs -> JobType]]
  BY <1>1, <1>3 DEF TypeOK
<1>5. \A q \in Sets, x \in Designs : jobs'[q][x] = IF q = s THEN start[x] ELSE jobs[q][x]
  BY <1>1 DEF TypeOK
<1>6. CacheFalls
  BY <1>1, CacheStays
<1>7. ASSUME NEW q \in Sets, NEW x \in Designs
      PROVE  /\ JobOK(q, x, jobs[q][x])'
             /\ (faults = MaxFaults => JobTries(LocaleOf[q], jobs[q][x]))'
  <2>1. PICK j \in JobType : /\ j = jobs'[q][x] /\ JobOK(q, x, j)
                             /\ faults' = MaxFaults => JobTries(LocaleOf[q], j)
    BY <1>1, <1>2, <1>5, JobNow
  <2> QED BY <1>1, <1>6, <2>1, JobAfter
<1> QED BY <1>4, <1>7 DEF JobsInv

\* Every step keeps the invariant.
LEMMA PricesInvStep ==
  ASSUME PricesInv, [Next]_vars
  PROVE  PricesInv' /\ CacheFalls
<1> USE DEF PricesInv
<1>0. TypeOK /\ CacheBelongs /\ IdsBelong /\ JobsInv
  OBVIOUS
<1>1. CASE UNCHANGED vars
  <2>1. UNCHANGED <<running, offer, cache, mainId, books, shared, ear, inbox, jobs, faults>>
    BY <1>1 DEF vars
  <2>2. TypeOK'
    BY <1>0, <2>1 DEF TypeOK
  <2> QED BY <1>0, <2>1, <2>2, JobsStay, CacheStays, IdsStay DEF CacheFalls
<1>2. CASE Next
  <2>1. PICK s \in running :
           \/ \E b \in Bricks : \/ InventoryRead(s, b) \/ InventoryTake(s, b)
                                \/ InventoryBroadcast(s, b) \/ ListenerHear(s, b)
                                \/ CheckBrick(s, b)
           \/ ListenerRegister(s) \/ ListenerSnapshot(s) \/ ListenerReturn(s)
           \/ StartPrices(s) \/ PricesEnd(s)
           \/ \E d \in Designs : JobStep(s, d)
    BY <1>2 DEF Next
  <2>2. UNCHANGED running /\ running \subseteq Sets /\ s \in Sets
    BY <1>2 DEF Next, TypeOK
  <2>3. CASE \E b \in Bricks : \/ InventoryRead(s, b) \/ InventoryTake(s, b)
                               \/ InventoryBroadcast(s, b) \/ ListenerHear(s, b)
                               \/ CheckBrick(s, b)
    <3>1. /\ books' \in [Sets -> BookType]
          /\ shared' \in [Sets -> [step : [Bricks -> {"none", "merged", "sent"}],
                                   price : [Bricks -> Price]]]
          /\ inbox' \in [Sets -> SUBSET Bricks]
          /\ UNCHANGED <<offer, cache, mainId, ear, jobs, faults>>
      BY <2>2, <2>3, InventoryTyped
    <3>2. TypeOK'
      BY <2>2, <3>1 DEF TypeOK
    <3> QED BY <1>0, <3>1, <3>2, JobsStay, CacheStays, IdsStay DEF CacheFalls
  <2>4. CASE ListenerRegister(s) \/ ListenerSnapshot(s) \/ ListenerReturn(s)
    <3>1. /\ books' \in [Sets -> BookType]
          /\ ear' \in [Sets -> {"writer", "cached", "out", "registered", "listening", "returned"}]
          /\ inbox' \in [Sets -> SUBSET Bricks]
          /\ UNCHANGED <<offer, cache, mainId, shared, jobs, faults>>
      BY <2>2, <2>4, ListenerTyped
    <3>2. TypeOK'
      BY <2>2, <3>1 DEF TypeOK
    <3> QED BY <1>0, <3>1, <3>2, JobsStay, CacheStays, IdsStay DEF CacheFalls
  <2>5. CASE StartPrices(s)
    <3>1. /\ books' \in [Sets -> BookType]
          /\ UNCHANGED <<offer, cache, mainId, shared, ear, inbox, faults>>
      BY <2>2, <2>5, PhaseTyped
    <3>2. jobs' \in [Sets -> [Designs -> JobType]] /\ JobsInv'
      BY <1>0, <2>2, <2>5, JobsStart
    <3>3. TypeOK'
      BY <2>2, <3>1, <3>2 DEF TypeOK
    <3> QED BY <1>0, <3>1, <3>2, <3>3, CacheStays, IdsStay DEF CacheFalls
  <2>6. CASE PricesEnd(s)
    <3>1. /\ books' \in [Sets -> BookType]
          /\ UNCHANGED <<offer, cache, mainId, shared, ear, inbox, faults>>
      BY <2>2, <2>6, PhaseTyped
    <3>2. UNCHANGED jobs
      BY <2>6 DEF PricesEnd
    <3>3. TypeOK'
      BY <2>2, <3>1, <3>2 DEF TypeOK
    <3> QED BY <1>0, <3>1, <3>2, <3>3, JobsStay, CacheStays, IdsStay DEF CacheFalls
  <2>7. CASE \E d \in Designs : JobStep(s, d)
    <3>1. PICK d \in Designs : JobStep(s, d)
      BY <2>7
    <3>2. /\ JobGoesOn(s, d) /\ CacheFalls
          /\ UNCHANGED <<offer, shared, ear, inbox>>
          /\ faults' \in 0..MaxFaults
          /\ faults' = MaxFaults => faults = MaxFaults
          /\ mainId' \in [Bricks -> Elements \cup {None}] /\ IdsBelong'
      BY <2>2, <3>1, JobStepFacts
    <3>3. jobs' \in [Sets -> [Designs -> JobType]] /\ JobsInv'
      BY <1>0, <2>2, <3>2, JobsGoOn
    <3>4. books' \in [Sets -> BookType]
      BY <2>2, <3>1, JobStepBooks, DeliverTyped DEF TypeOK
    <3>5. TypeOK'
      BY <2>2, <3>2, <3>3, <3>4 DEF TypeOK, CacheFalls
    <3> QED BY <3>2, <3>3, <3>5 DEF CacheFalls
  <2> QED BY <2>1, <2>3, <2>4, <2>5, <2>6, <2>7
<1> QED BY <1>1, <1>2

\* At first Redis may have entries, each of which belongs to its element.
LEMMA PricesInvInit ==
  ASSUME Init PROVE PricesInv
<1>1. PICK c \in Stored : cache = [e \in Elements |-> [l \in Locales |->
            IF c[e][l] = None THEN None ELSE [loc |-> l, item |-> e, cents |-> c[e][l]]]]
  BY DEF Init
<1>2. c \in [Elements -> [Locales -> {None} \cup (0..MaxCents)]]
  BY PricesAssumption
<1>3. cache \in [Elements -> [Locales -> Price]]
  BY <1>1, <1>2 DEF Price, Prices
<1>4. CacheBelongs /\ IdsBelong
  BY <1>1, <1>2, KinFacts, PricesAssumption DEF Init, CacheBelongs, Belongs, IdsBelong
<1>5. IdleJob \in JobType /\ IdleJob.pc = "none"
  BY DEF IdleJob, JobType, Price
<1>6. jobs \in [Sets -> [Designs -> JobType]]
  BY <1>5 DEF Init
<1>7. [IdleJob EXCEPT !.pc = "none"] = IdleJob
  BY DEF IdleJob
<1>8. JobsInv
  BY <1>7, IdleJobOK DEF Init, JobsInv
<1>9. books \in [Sets -> BookType]
  <2>1. EmptyBook \in BookType
    BY DEF EmptyBook, BookType, Price
  <2>2. \A s \in Sets : Cardinality(InventoryOf[s]) \in Nat
    BY PricesAssumption, BricksFinite
  <2>3. \A n \in Nat : [EmptyBook EXCEPT !.missingParts = n] \in BookType
    BY <2>1 DEF BookType
  <2>4. ASSUME NEW s \in Sets
        PROVE  [EmptyBook EXCEPT !.missingParts =
                   IF ear[s] = "cached" THEN Cardinality(InventoryOf[s]) ELSE 0] \in BookType
    <3>1. PICK n \in Nat : n = IF ear[s] = "cached" THEN Cardinality(InventoryOf[s]) ELSE 0
      BY <2>2
    <3> QED BY <2>3, <3>1
  <2> QED BY <2>4 DEF Init
<1>10. TypeOK
  <2>1. running \subseteq Sets /\ offer \in [Elements -> [Locales -> 0..MaxCents]]
    BY PricesAssumption DEF Init
  <2>2. mainId \in [Bricks -> Elements \cup {None}]
    BY PricesAssumption DEF Init
  <2>3. shared \in [Sets -> [step : [Bricks -> {"none", "merged", "sent"}], price : [Bricks -> Price]]]
    BY DEF Init, Price
  <2>4. ear \in [Sets -> {"writer", "cached", "out", "registered", "listening", "returned"}]
    BY DEF Init
  <2>5. inbox \in [Sets -> SUBSET Bricks] /\ faults \in 0..MaxFaults
    BY PricesAssumption DEF Init
  <2> QED BY <1>3, <1>6, <1>9, <2>1, <2>2, <2>3, <2>4, <2>5 DEF TypeOK
<1> QED BY <1>4, <1>8, <1>10 DEF PricesInv

\* In every behaviour the first invariant holds.
LEMMA PricesInvariant == Spec => []PricesInv
<1>1. Init => PricesInv
  BY PricesInvInit
<1>2. PricesInv /\ [Next]_vars => PricesInv'
  BY PricesInvStep
<1> QED BY <1>1, <1>2, PTL DEF Spec

\* Redis holds, under an element and a locale, an answer for that locale, of the
\* element or of another of its part and colour, whatever the jobs of all runtime
\* sets write there, the not-found bricks included that they store by an ID object
\* they share (locale_redis.go, pickabrick.go, aliasResolvedLocale).
THEOREM RedisEntriesBelong == Spec => []EntriesBelong
<1>1. PricesInv => EntriesBelong
  BY DEF PricesInv, CacheBelongs, Belongs, EntriesBelong
<1> QED BY <1>1, PricesInvariant, PTL

\* No write of a job raises the price Redis has for an element under its own id,
\* although the jobs of several runtime sets read the entry, ask Pick-a-Brick and
\* write without a lock (PrefetchDesignBricks, workerHandlerBrickPrice).
THEOREM OwnPriceNeverRises == Spec => CachedPriceNeverRises
<1>1. ASSUME PricesInv, [Next]_vars
      PROVE  \A e \in Elements, l \in Locales :
                /\ IsPriced(cache[e][l]) /\ cache[e][l].item = e
                /\ IsPriced(cache'[e][l]) /\ cache'[e][l].item = e
                => cache'[e][l].cents <= cache[e][l].cents
  <2> TAKE e \in Elements, l \in Locales
  <2> HAVE /\ IsPriced(cache[e][l]) /\ cache[e][l].item = e
           /\ IsPriced(cache'[e][l]) /\ cache'[e][l].item = e
  <2>1. EntryFalls(e, l)
    BY <1>1, PricesInvStep DEF CacheFalls
  <2>2. cache[e][l] \in Price
    BY <1>1 DEF PricesInv, TypeOK
  <2>3. cache[e][l].cents \in Nat
    BY <2>2 DEF IsPriced, Price, Prices
  <2> QED BY <2>1, <2>3 DEF EntryFalls, CostsAtLeast
<1>2. PricesInv /\ [Next]_vars =>
        [\A e \in Elements, l \in Locales :
                /\ IsPriced(cache[e][l]) /\ cache[e][l].item = e
                /\ IsPriced(cache'[e][l]) /\ cache'[e][l].item = e
                => cache'[e][l].cents <= cache[e][l].cents]_vars
  BY <1>1
<1> QED BY <1>2, PricesInvariant, PTL DEF Spec, CachedPriceNeverRises

-----------------------------------------------------------------------------
(* The bricks in the books *)

BookOK(s) == PlacesOK(s) /\ ProgressOK(s) /\ PhaseOK(s) /\ MissingTried(s)

BooksInv == \A s \in Sets : BookOK(s)

\* The bricks of a runtime set that are in its books are finitely many.
LEMMA BookFinite ==
  ASSUME NEW s \in Sets
  PROVE  /\ InventoryOf[s] \subseteq Bricks
         /\ \A bs \in SUBSET InventoryOf[s] : /\ IsFiniteSet(bs) /\ Cardinality(bs) \in Nat
                                              /\ Cardinality(bs) <= Cardinality(InventoryOf[s])
<1>1. InventoryOf[s] \in SUBSET Bricks
  BY PricesAssumption
<1>2. IsFiniteSet(InventoryOf[s])
  BY <1>1, BricksFinite
<1> QED BY <1>1, <1>2, FS_Subset, FS_CardinalityType

\* Nothing happens to the books of a runtime set.
LEMMA BookStays ==
  ASSUME NEW s \in Sets, BookOK(s), offer' = offer, faults' = MaxFaults => faults = MaxFaults,
         books'[s] = books[s], shared'[s] = shared[s], ear'[s] = ear[s], jobs'[s] = jobs[s]
  PROVE  BookOK(s)'
<1>1. Missing(s)' = Missing(s) /\ Final(s)' = Final(s) /\ Waiting(s)' = Waiting(s)
  BY DEF Missing, Final, Waiting
<1>2. PlacesOK(s)'
  BY DEF BookOK, PlacesOK, Listener
<1>3. ProgressOK(s)'
  BY <1>1 DEF BookOK, ProgressOK
<1>4. PhaseOK(s)'
  BY DEF BookOK, PhaseOK
<1>5. MissingTried(s)'
  BY <1>1 DEF BookOK, MissingTried, NotSold
<1> QED BY <1>2, <1>3, <1>4, <1>5 DEF BookOK

\* What TakeBrick and AddFinalBrickData do to a brick.
LEMMA AddFinalFacts ==
  ASSUME NEW k \in BookType, NEW b \in Bricks
  PROVE  LET n == AddFinalBrickData(k, b)
         IN  n.where = k.where /\ n.price = k.price /\ n.phase = k.phase /\ n.done = k.done
BY DEF AddFinalBrickData, BookType

\* What checkSetDataValidity does to one brick, and to no other.
LEMMA TakeBrickFacts ==
  ASSUME NEW k \in BookType, NEW b \in Bricks
  PROVE  LET n == TakeBrick(k, b)
         IN  /\ n.price = k.price /\ n.phase = k.phase /\ n.done = k.done + 1
             /\ \A c \in Bricks : n.where[c] = IF c # b THEN k.where[c]
                    ELSE IF b \in Custom \/ HasValidPrice(k.price[b]) THEN "final" ELSE "missing"
<1> DEFINE taken == [k EXCEPT !.done = @ + 1]
           final == [taken EXCEPT !.where[b] = "final"]
           missing == [taken EXCEPT !.where[b] = "missing"]
           n == TakeBrick(k, b)
<1>0. taken \in BookType /\ taken.where = k.where /\ taken.price = k.price
      /\ taken.phase = k.phase /\ taken.done = k.done + 1
  BY DEF BookType
<1> HIDE DEF taken
<1>1. /\ final \in BookType /\ final.price = k.price /\ final.phase = k.phase
      /\ final.done = k.done + 1
      /\ \A c \in Bricks : final.where[c] = IF c # b THEN k.where[c] ELSE "final"
  BY <1>0 DEF BookType
<1>2. /\ missing \in BookType /\ missing.price = k.price /\ missing.phase = k.phase
      /\ missing.done = k.done + 1
      /\ \A c \in Bricks : missing.where[c] = IF c # b THEN k.where[c] ELSE "missing"
  BY <1>0 DEF BookType
<1> HIDE DEF final, missing
<1> DEFINE added == AddFinalBrickData(final, b)
<1>3. /\ added \in BookType /\ added.where = final.where /\ added.price = final.price
      /\ added.phase = final.phase /\ added.done = final.done
  BY <1>1, AddFinalFacts, AddFinalTyped
<1> HIDE DEF added
<1>4. \A x \in BookType : LET y == IncrementMissingParts(x)
        IN y.where = x.where /\ y.price = x.price /\ y.phase = x.phase /\ y.done = x.done
  BY DEF IncrementMissingParts, BookType
<1>5. n = IF b \in Custom \/ HasValidPrice(k.price[b])
          THEN IF IsNotFound(k.price[b]) THEN final ELSE IncrementMissingParts(added)
          ELSE IncrementMissingParts(missing)
  BY DEF TakeBrick, final, missing, taken, added
<1> HIDE DEF n
<1>6. CASE ~(b \in Custom \/ HasValidPrice(k.price[b]))
  BY <1>2, <1>4, <1>5, <1>6 DEF n
<1>7. CASE (b \in Custom \/ HasValidPrice(k.price[b])) /\ IsNotFound(k.price[b])
  BY <1>1, <1>5, <1>7 DEF n
<1>8. CASE (b \in Custom \/ HasValidPrice(k.price[b])) /\ ~IsNotFound(k.price[b])
  <2>1. /\ n.where = added.where /\ n.price = added.price /\ n.phase = added.phase
        /\ n.done = added.done
    BY <1>3, <1>4, <1>5, <1>8
  <2> QED BY <1>1, <1>3, <1>8, <2>1 DEF n
<1> QED BY <1>6, <1>7, <1>8

\* A brick that is not among the missing and final ones is taken in the inventory phase.
LEMMA StillInventory ==
  ASSUME TypeOK, NEW s \in Sets, BookOK(s), NEW b \in InventoryOf[s],
         books[s].where[b] \notin {"missing", "final"}
  PROVE  books[s].phase = "inventory"
BY DEF BookOK, ProgressOK

\* No job has begun by then.
LEMMA InventoryIdle ==
  ASSUME JobsInv, NEW s \in Sets, BookOK(s), books[s].phase = "inventory",
         jobs' = jobs, books'[s].phase = "inventory"
  PROVE  PhaseOK(s)' /\ MissingTried(s)'
<1>1. ASSUME NEW d \in Designs PROVE jobs[s][d].pc = "none" /\ jobs[s][d].group = {}
  BY DEF BookOK, PhaseOK, JobsInv, JobOK, GroupOK
<1> QED BY <1>1 DEF PhaseOK, MissingTried

\* fetchInventory's worker and batch handler
LEMMA InventoryReadBook ==
  ASSUME TypeOK, JobsInv, NEW s \in Sets, BookOK(s), NEW b \in Bricks, InventoryRead(s, b)
  PROVE  BookOK(s)'
<1>1. /\ ear[s] = "writer" /\ b \in InventoryOf[s] /\ books[s].where[b] = "absent"
      /\ UNCHANGED <<offer, shared, ear, jobs, faults>>
  BY DEF InventoryRead
<1>2. books[s].phase = "inventory"
  BY <1>1, StillInventory
<1>3. /\ books'[s].phase = books[s].phase /\ books'[s].done = books[s].done
      /\ \A c \in Bricks : books'[s].where[c] = IF c = b THEN "read" ELSE books[s].where[c]
  BY DEF InventoryRead, TypeOK, BookType
<1>4. Missing(s)' = Missing(s) /\ Final(s)' = Final(s)
  BY <1>1, <1>3, BookFinite DEF Missing, Final
<1>5. PlacesOK(s)'
  BY <1>1, <1>2, <1>3 DEF BookOK, PlacesOK, Listener
<1>6. ProgressOK(s)'
  BY <1>1, <1>2, <1>3, <1>4 DEF BookOK, ProgressOK
<1> QED BY <1>1, <1>2, <1>3, <1>5, <1>6, InventoryIdle DEF BookOK

\* A brick of a fetched inventory gets its place.
LEMMA InventoryTakeBook ==
  ASSUME TypeOK, JobsInv, NEW s \in Sets, BookOK(s), NEW b \in Bricks, InventoryTake(s, b)
  PROVE  BookOK(s)'
<1>1. /\ books[s].where[b] = "read" /\ UNCHANGED <<offer, ear, jobs, faults>>
      /\ books' = [books EXCEPT ![s] = TakeBrick(books[s], b)]
  BY DEF InventoryTake
<1>2. b \in InventoryOf[s] /\ ear[s] = "writer"
  BY <1>1 DEF BookOK, PlacesOK
<1>3. books[s].phase = "inventory" /\ books[s] \in BookType
  BY <1>1, <1>2, StillInventory DEF TypeOK
<1>4. PICK x \in {"missing", "final"} :
         /\ books'[s].phase = "inventory" /\ books'[s].done = books[s].done + 1
         /\ \A c \in Bricks : books'[s].where[c] = IF c = b THEN x ELSE books[s].where[c]
  BY <1>1, <1>3, TakeBrickFacts DEF TypeOK
<1>5. \A c \in Bricks : shared'[s].step[c] = IF c = b THEN "merged" ELSE shared[s].step[c]
  BY DEF InventoryTake, TypeOK
<1>6. Missing(s)' \cup Final(s)' = (Missing(s) \cup Final(s)) \cup {b}
  BY <1>2, <1>4, BookFinite DEF Missing, Final
<1>7. b \notin Missing(s) \cup Final(s) /\ IsFiniteSet(Missing(s) \cup Final(s))
  BY <1>1, BookFinite DEF Missing, Final
<1>8. Cardinality(Missing(s)' \cup Final(s)') = Cardinality(Missing(s) \cup Final(s)) + 1
  BY <1>6, <1>7, FS_AddElement
<1>9. PlacesOK(s)'
  BY <1>1, <1>2, <1>4, <1>5 DEF BookOK, PlacesOK, Listener
<1>10. ProgressOK(s)'
  BY <1>1, <1>2, <1>3, <1>4, <1>8 DEF BookOK, ProgressOK
<1> QED BY <1>1, <1>3, <1>4, <1>9, <1>10, InventoryIdle DEF BookOK

\* A brick is sent to the listeners once it has its place.
LEMMA InventoryBroadcastBook ==
  ASSUME TypeOK, NEW s \in Sets, BookOK(s), NEW b \in Bricks, InventoryBroadcast(s, b)
  PROVE  BookOK(s)'
<1>1. shared[s].step[b] = "merged" /\ UNCHANGED <<offer, books, ear, jobs, faults>>
  BY DEF InventoryBroadcast
<1>2. \A c \in Bricks : shared'[s].step[c] = IF c = b THEN "sent" ELSE shared[s].step[c]
  BY DEF InventoryBroadcast, TypeOK
<1>3. PlacesOK(s)'
  BY <1>1, <1>2 DEF BookOK, PlacesOK, Listener
<1>4. Missing(s)' = Missing(s) /\ Final(s)' = Final(s) /\ Waiting(s)' = Waiting(s)
  BY <1>1 DEF Missing, Final, Waiting
<1>5. ProgressOK(s)' /\ PhaseOK(s)' /\ MissingTried(s)'
  BY <1>1, <1>4 DEF BookOK, ProgressOK, PhaseOK, MissingTried, NotSold
<1> QED BY <1>3, <1>5 DEF BookOK

\* checkSetDataValidity
LEMMA CheckBrickBook ==
  ASSUME TypeOK, JobsInv, NEW s \in Sets, BookOK(s), NEW b \in Bricks, CheckBrick(s, b)
  PROVE  BookOK(s)'
<1> DEFINE p == IF b \in Custom THEN None ELSE Entry(ElementOf[b], LocaleOf[s])
           x == IF b \in Custom \/ p # None THEN "final" ELSE "missing"
           k == [books[s] EXCEPT !.price[b] = p, !.where[b] = x]
<1>1. /\ ear[s] = "cached" /\ b \in InventoryOf[s] /\ books[s].where[b] = "absent"
      /\ UNCHANGED <<offer, shared, ear, jobs, faults>>
      /\ books' = [books EXCEPT ![s] = AddFinalBrickData(k, b)]
  BY DEF CheckBrick
<1>2. books[s].phase = "inventory" /\ books[s] \in BookType
  BY <1>1, StillInventory DEF TypeOK
<1>3. p \in Price /\ x \in {"final", "missing"}
  BY EntryTyped DEF Price
<1> HIDE DEF p, x
<1>4. /\ k \in BookType /\ k.phase = "inventory" /\ k.done = books[s].done
      /\ \A c \in Bricks : k.where[c] = IF c = b THEN x ELSE books[s].where[c]
  BY <1>2, <1>3 DEF BookType
<1> HIDE DEF k
<1>5. /\ books'[s].where = k.where /\ books'[s].phase = k.phase /\ books'[s].done = k.done
  BY <1>1, <1>4, AddFinalFacts DEF TypeOK
<1>6. PlacesOK(s)'
  BY <1>1, <1>2, <1>3, <1>4, <1>5 DEF BookOK, PlacesOK, Listener
<1>7. ProgressOK(s)'
  BY <1>1, <1>2, <1>4, <1>5 DEF BookOK, ProgressOK
<1> QED BY <1>1, <1>2, <1>4, <1>5, <1>6, <1>7, InventoryIdle DEF BookOK

\* A listener has its bricks missing (Inventory.listen, FetchSetIncomplete).
LEMMA HearFacts ==
  ASSUME NEW k \in BookType, NEW bs, NEW p, \A b \in bs : p[b] \in Price
  PROVE  LET n == HearBricks(k, bs, p)
         IN  /\ n.phase = k.phase /\ n.done = k.done
             /\ \A b \in Bricks : n.where[b] = IF b \in bs THEN "missing" ELSE k.where[b]
<1>1. Typed(bs, p, [b \in bs |-> "missing"])
  BY DEF Typed
<1> QED BY <1>1, EnteredTyped DEF HearBricks, BookType

\* A listener's bricks get their places, and none of them waits in a job yet.
LEMMA ListenerBook ==
  ASSUME TypeOK, JobsInv, NEW s \in Sets, BookOK(s),
         ear[s] \in {"out", "registered", "listening"},
         ear'[s] \in {"registered", "listening", "returned"},
         UNCHANGED <<offer, shared, jobs, faults>>,
         books'[s].phase = books[s].phase, books'[s].done = books[s].done,
         \A b \in Bricks : books'[s].where[b] \in {books[s].where[b], "missing"},
         ear'[s] = "returned" => \A b \in InventoryOf[s] : books'[s].where[b] \in {"missing", "final"}
  PROVE  BookOK(s)'
<1>1. books[s].phase = "inventory"
  BY DEF BookOK, PlacesOK
<1>2. PlacesOK(s)'
  BY <1>1 DEF BookOK, PlacesOK, Listener
<1>3. ProgressOK(s)'
  BY <1>1 DEF BookOK, ProgressOK
<1> QED BY <1>1, <1>2, <1>3, InventoryIdle DEF BookOK

\* So do those of its registration, its copy of the inventory, and its batches.
LEMMA ListenerStepBook ==
  ASSUME TypeOK, JobsInv, NEW s \in Sets, BookOK(s),
         \/ ListenerRegister(s) \/ ListenerSnapshot(s) \/ ListenerReturn(s)
         \/ \E b \in Bricks : ListenerHear(s, b)
  PROVE  BookOK(s)'
<1>1. WriterOf[s] \in Sets /\ books[s] \in BookType
  BY PricesAssumption DEF TypeOK
<1>2. PICK p : p = shared[WriterOf[s]].price /\ p \in [Bricks -> Price]
  BY <1>1 DEF TypeOK
<1>3. CASE ListenerRegister(s)
  BY <1>3, ListenerBook DEF ListenerRegister, TypeOK
<1>4. CASE ListenerSnapshot(s)
  <2>1. Merged(WriterOf[s]) \subseteq Bricks
    BY <1>1, PricesAssumption DEF Merged
  <2>2. /\ ear[s] = "registered" /\ ear'[s] = "listening"
        /\ books'[s] = HearBricks(books[s], Merged(WriterOf[s]), p)
        /\ UNCHANGED <<offer, shared, jobs, faults>>
    BY <1>2, <1>4 DEF ListenerSnapshot, TypeOK
  <2> QED BY <1>1, <1>2, <2>1, <2>2, HearFacts, ListenerBook
<1>5. CASE ListenerReturn(s)
  <2> DEFINE bs == InventoryOf[s] \ Missing(s)
             where == [b \in bs |-> "missing"]
  <2>1. Typed(bs, p, where)
    BY <1>2, BookFinite DEF Typed
  <2>2. /\ ear[s] = "listening" /\ ear'[s] = "returned"
        /\ books'[s] = Entered(books[s], bs, p, where)
        /\ UNCHANGED <<offer, shared, jobs, faults>>
    BY <1>2, <1>5 DEF ListenerReturn, TypeOK
  <2>3. \A b \in bs : where[b] = "missing"
    OBVIOUS
  <2>4. \A b \in InventoryOf[s] : b \in Bricks /\ (b \notin bs => books[s].where[b] = "missing")
    BY BookFinite DEF Missing
  <2> HIDE DEF bs, where
  <2>5. /\ books'[s].phase = books[s].phase /\ books'[s].done = books[s].done
        /\ \A b \in Bricks : books'[s].where[b] = IF b \in bs THEN "missing" ELSE books[s].where[b]
    BY <1>1, <2>1, <2>2, <2>3, EnteredTyped
  <2>6. \A b \in InventoryOf[s] : books'[s].where[b] = "missing"
    BY <2>4, <2>5
  <2> QED BY <2>2, <2>5, <2>6, ListenerBook
<1>6. CASE \E b \in Bricks : ListenerHear(s, b)
  <2>1. PICK b \in Bricks : ListenerHear(s, b)
    BY <1>6
  <2>2. /\ ear[s] = "listening" /\ ear' = ear
        /\ books'[s] = HearBricks(books[s], {b}, p)
        /\ UNCHANGED <<offer, shared, jobs, faults>>
    BY <1>2, <2>1 DEF ListenerHear, TypeOK
  <2> QED BY <1>1, <1>2, <2>2, HearFacts, ListenerBook
<1> QED BY <1>3, <1>4, <1>5, <1>6

\* fetchBricks: the final bricks count as done, the missing ones wait in the jobs.
LEMMA StartPricesBook ==
  ASSUME TypeOK, NEW s \in Sets, BookOK(s), StartPrices(s)
  PROVE  BookOK(s)'
<1>1. /\ books[s].phase = "inventory" /\ books[s] \in BookType
      /\ UNCHANGED <<offer, shared, ear, faults>>
  BY DEF StartPrices, TypeOK
<1>2. /\ books'[s].phase = "prices" /\ books'[s].done = Cardinality(Final(s))
      /\ books'[s].where = books[s].where
  BY <1>1 DEF StartPrices, TypeOK, BookType
<1>3. /\ ear[s] = "writer" => InventoryDone(s)
      /\ ear[s] = "cached" => \A b \in InventoryOf[s] : books[s].where[b] # "absent"
      /\ ear[s] \notin {"writer", "cached"} => ear[s] = "returned"
  BY DEF StartPrices
<1>4. \A b \in InventoryOf[s] : b \in Bricks /\ books[s].where[b] \in {"missing", "final"}
  BY <1>1, <1>3, BookFinite DEF BookOK, PlacesOK, InventoryDone, BookType
<1>5. ASSUME NEW d \in Designs
      PROVE  /\ jobs'[s][d].group = {b \in Missing(s) : DesignOf[b] = d}
             /\ jobs'[s][d].pc = IF jobs'[s][d].group = {} THEN "none" ELSE "cache"
  <2> DEFINE group == {b \in Missing(s) : DesignOf[b] = d}
             price == [b \in Bricks |-> IF b \in group THEN books[s].price[b] ELSE None]
             job == [IdleJob EXCEPT !.pc = "cache", !.group = group, !.todo = group,
                                    !.price = price]
  <2>1. jobs'[s][d] = IF group = {} THEN IdleJob ELSE job
    BY DEF StartPrices, TypeOK
  <2>2. IdleJob.group = {} /\ IdleJob.pc = "none"
    BY DEF IdleJob
  <2> HIDE DEF group, price
  <2>3. job.group = group /\ job.pc = "cache"
    BY DEF IdleJob
  <2> HIDE DEF job
  <2>4. /\ jobs'[s][d].group = group
        /\ jobs'[s][d].pc = IF jobs'[s][d].group = {} THEN "none" ELSE "cache"
    BY <2>1, <2>2, <2>3
  <2> QED BY <2>4 DEF group
<1>6. /\ Missing(s) \cup Final(s) = InventoryOf[s] /\ Missing(s) \cap Final(s) = {}
      /\ Missing(s)' = Missing(s) /\ Final(s)' = Final(s)
  BY <1>2, <1>4 DEF Missing, Final
<1>7. Waiting(s)' = Missing(s)
  <2>1. \A b \in InventoryOf[s] : DesignOf[b] \in Designs
    BY <1>4, PricesAssumption
  <2>2. \A b \in InventoryOf[s] : b \in jobs'[s][DesignOf[b]].group <=> b \in Missing(s)
    BY <1>5, <2>1
  <2>3. Waiting(s)' = {b \in InventoryOf[s] : b \in jobs'[s][DesignOf[b]].group}
    BY DEF Waiting
  <2>4. Missing(s) \subseteq InventoryOf[s]
    BY DEF Missing
  <2> QED BY <2>2, <2>3, <2>4
<1>8. InventoryOf[s] \ Waiting(s)' = Final(s)
  BY <1>6, <1>7
<1>9. PlacesOK(s)'
  BY <1>1, <1>2, <1>3, <1>4 DEF BookOK, PlacesOK, Listener
<1>10. ProgressOK(s)'
  BY <1>2, <1>4, <1>8 DEF ProgressOK
<1>11. PhaseOK(s)'
  <2>1. \A b \in Missing(s) : books[s].where[b] = "missing"
    BY DEF Missing
  <2> QED BY <1>2, <1>5, <2>1 DEF PhaseOK
<1>12. MissingTried(s)'
  <2>1. \A b \in Final(s) : books'[s].where[b] = "final"
    BY <1>2 DEF Final
  <2> QED BY <1>8, <2>1 DEF MissingTried
<1> QED BY <1>9, <1>10, <1>11, <1>12 DEF BookOK

\* The prices end when no job has a brick.
LEMMA PricesEndBook ==
  ASSUME TypeOK, NEW s \in Sets, BookOK(s), PricesEnd(s)
  PROVE  BookOK(s)'
<1>1. /\ books[s].phase = "prices" /\ \A d \in Designs : jobs[s][d].pc \in {"none", "done"}
      /\ UNCHANGED <<offer, shared, ear, jobs, faults>>
  BY DEF PricesEnd
<1>2. /\ books'[s].phase = "done" /\ books'[s].done = books[s].done
      /\ books'[s].where = books[s].where
  BY DEF PricesEnd, TypeOK, BookType
<1>3. Waiting(s)' = Waiting(s)
  BY <1>1 DEF Waiting
<1>4. PlacesOK(s)'
  BY <1>1, <1>2 DEF BookOK, PlacesOK, Listener
<1>5. ProgressOK(s)' /\ PhaseOK(s)' /\ MissingTried(s)'
  BY <1>1, <1>2, <1>3 DEF BookOK, ProgressOK, PhaseOK, MissingTried, NotSold
<1> QED BY <1>4, <1>5 DEF BookOK

\* A job that is not done keeps its bricks.
LEMMA JobKeepsGroup ==
  ASSUME TypeOK, NEW s \in Sets, NEW d \in Designs, JobStep(s, d), ~Deliver(s, d)
  PROVE  /\ jobs'[s][d].group = jobs[s][d].group
         /\ jobs[s][d].pc \notin {"none", "done"}
<1>1. PICK j \in JobType : j = jobs[s][d]
  BY DEF TypeOK
<1>2. ASSUME NEW k, JobBecomes(s, d, k) PROVE jobs'[s][d] = k
  BY <1>2 DEF JobBecomes, TypeOK
<1>3. CASE \E b \in Bricks : CachePass(s, d, b) \/ BrickLoad(s, d, b) \/ SiblingsAsk(s, d, b)
  <2>1. PICK b \in Bricks : CachePass(s, d, b) \/ BrickLoad(s, d, b) \/ SiblingsAsk(s, d, b)
    BY <1>3
  <2>2. CASE CachePass(s, d, b)
    BY <1>1, <1>2, <2>2 DEF CachePass, JobType
  <2>3. CASE BrickLoad(s, d, b)
    <3> DEFINE p == Entry(ElementOf[b], LocaleOf[s])
               resolved == IsNotFound(p) \/ ValidEntry(p, j.price[b])
               asks == ElementOf[b] # None /\ ~resolved
               k == [j EXCEPT !.pending = j.pending \ {b},
                              !.price[b] = IF resolved THEN p ELSE j.price[b],
                              !.pc = IF asks THEN "fetch" ELSE j.pc,
                              !.brick = IF asks THEN b ELSE j.brick,
                              !.element = IF asks THEN ElementOf[b] ELSE j.element]
    <3>1. j.pc = "bricks" /\ JobBecomes(s, d, k)
      BY <1>1, <2>3 DEF BrickLoad
    <3>2. k.group = j.group
      BY DEF JobType
    <3> HIDE DEF k
    <3> QED BY <1>1, <1>2, <3>1, <3>2
  <2>4. CASE SiblingsAsk(s, d, b)
    BY <1>1, <1>2, <2>4 DEF SiblingsAsk, JobType
  <2> QED BY <2>1, <2>2, <2>3, <2>4
<1>4. CASE \E e \in Elements : PrefetchRead(s, d, e) \/ SiblingLoad(s, d, e)
  <2>1. PICK e \in Elements : PrefetchRead(s, d, e) \/ SiblingLoad(s, d, e)
    BY <1>4
  <2>2. CASE PrefetchRead(s, d, e)
    BY <1>1, <1>2, <2>2 DEF PrefetchRead, JobType
  <2>3. CASE SiblingLoad(s, d, e)
    <3> DEFINE found == ValidEntry(cache[e][LocaleOf[s]], j.price[j.brick])
               k == [j EXCEPT !.siblings = @ \ {e},
                              !.element = e,
                              !.price[j.brick] = IF found THEN cache[e][LocaleOf[s]] ELSE @,
                              !.pc = IF found THEN "alias" ELSE "sibling_fetch"]
    <3>1. j.pc = "sibling" /\ JobBecomes(s, d, k)
      BY <1>1, <2>3 DEF SiblingLoad
    <3>2. k.group = j.group
      BY DEF JobType
    <3> HIDE DEF k
    <3> QED BY <1>1, <1>2, <3>1, <3>2
  <2> QED BY <2>1, <2>2, <2>3
<1>5. CASE PrefetchAsk(s, d) \/ PrefetchEnd(s, d) \/ BricksEnd(s, d) \/ SiblingsEnd(s, d) \/ Alias(s, d)
  BY <1>1, <1>2, <1>5 DEF PrefetchAsk, PrefetchEnd, BricksEnd, SiblingsEnd, Alias, JobType
<1>6. CASE Fetch(s, d)
  BY <1>1, <1>2, <1>6 DEF Fetch, JobType
<1>7. CASE Store(s, d)
  BY <1>1, <1>2, <1>7 DEF Store, JobType
<1> QED BY <1>3, <1>4, <1>5, <1>6, <1>7 DEF JobStep

\* A job that goes on leaves the books as they are.
LEMMA JobOnBook ==
  ASSUME TypeOK, JobsInv, NEW s \in Sets, NEW d \in Designs, BookOK(s), JobStep(s, d), ~Deliver(s, d),
         JobGoesOn(s, d), UNCHANGED <<offer, shared, ear>>, faults' = MaxFaults => faults = MaxFaults
  PROVE  BookOK(s)'
<1>1. books' = books
  BY JobStepBooks
<1>2. jobs'[s][d].group = jobs[s][d].group /\ jobs[s][d].pc \notin {"none", "done"}
  BY JobKeepsGroup
<1>3. \A x \in Designs : x # d => jobs'[s][x] = jobs[s][x]
  BY DEF JobGoesOn, JobBecomes, TypeOK
<1>4. books[s].phase = "prices"
  BY <1>2 DEF BookOK, PhaseOK, TypeOK, BookType
<1>5. Waiting(s)' = Waiting(s)
  <2>1. \A x \in Designs : jobs'[s][x].group = jobs[s][x].group
    BY <1>2, <1>3
  <2>2. \A b \in InventoryOf[s] : DesignOf[b] \in Designs
    BY BookFinite, PricesAssumption
  <2> QED BY <2>1, <2>2 DEF Waiting
<1>6. PlacesOK(s)' /\ ProgressOK(s)'
  BY <1>1, <1>4, <1>5 DEF BookOK, PlacesOK, ProgressOK, Listener
<1>7. PhaseOK(s)'
  BY <1>1, <1>2, <1>3, <1>4 DEF BookOK, PhaseOK
<1>8. MissingTried(s)'
  BY <1>1, <1>5 DEF BookOK, MissingTried, NotSold
<1> QED BY <1>6, <1>7, <1>8 DEF BookOK

\* What TakeBricks does to the book k: it becomes n.
BatchTaken(n, k, bs, p, counted) ==
    /\ n.phase = k.phase /\ n.done = k.done + Cardinality(bs)
    /\ n.missingParts = k.missingParts - Cardinality(counted)
    /\ n.total = k.total + Cents(p, counted)
    /\ \A b \in Bricks :
          /\ n.price[b] = IF b \in bs THEN p[b] ELSE k.price[b]
          /\ n.where[b] = IF b \notin bs THEN k.where[b]
                ELSE IF b \in Custom \/ HasValidPrice(p[b]) THEN "final" ELSE "missing"

\* What batchHandlerBricksProgress does to a batch, and to no other brick.
LEMMA TakeBricksFacts ==
  ASSUME NEW k \in BookType, NEW bs \in SUBSET Bricks, NEW p \in [Bricks -> Price], NEW counted
  PROVE  BatchTaken(TakeBricks(k, bs, p, counted), k, bs, p, counted)
<1> DEFINE where == [b \in bs |-> IF b \in Custom \/ HasValidPrice(p[b]) THEN "final" ELSE "missing"]
           e == Entered(k, bs, p, where)
           n == TakeBricks(k, bs, p, counted)
<1>1. Typed(bs, p, where)
  BY DEF Typed
<1>2. \A b \in bs : where[b] = IF b \in Custom \/ HasValidPrice(p[b]) THEN "final" ELSE "missing"
  OBVIOUS
<1>3. n = [e EXCEPT !.done = e.done + Cardinality(bs),
                    !.missingParts = e.missingParts - Cardinality(counted),
                    !.total = e.total + Cents(p, counted)]
  BY DEF TakeBricks
<1> HIDE DEF where, n
<1>4. /\ e \in BookType /\ e.missingParts = k.missingParts /\ e.total = k.total
      /\ e.done = k.done /\ e.phase = k.phase
      /\ \A b \in Bricks : /\ e.where[b] = IF b \in bs THEN where[b] ELSE k.where[b]
                           /\ e.price[b] = IF b \in bs THEN p[b] ELSE k.price[b]
  BY <1>1, EnteredTyped
<1> HIDE DEF e
<1>5. /\ n.where = e.where /\ n.price = e.price /\ n.phase = e.phase
      /\ n.done = e.done + Cardinality(bs)
      /\ n.missingParts = e.missingParts - Cardinality(counted)
      /\ n.total = e.total + Cents(p, counted)
  BY <1>3, <1>4 DEF BookType
<1> QED BY <1>2, <1>4, <1>5 DEF n, BatchTaken

\* The job hands its bricks over: they are done, and if they are still missing they
\* are sold nowhere (workerHandlerDesignPrices).
LEMMA DeliverBook ==
  ASSUME TypeOK, JobsInv, NEW s \in Sets, NEW d \in Designs, BookOK(s), Deliver(s, d)
  PROVE  BookOK(s)'
<1>1. PICK j \in JobType : j = jobs[s][d]
  BY DEF TypeOK
<1>2. /\ JobOK(s, d, j)
      /\ faults = MaxFaults => JobTries(LocaleOf[s], j)
  BY <1>1, JobNow
<1>3. /\ j.pc = "siblings" /\ Unpriced(j) = {} /\ JobBecomes(s, d, [IdleJob EXCEPT !.pc = "done"])
      /\ UNCHANGED <<offer, shared, ear, faults>>
  BY <1>1 DEF Deliver
<1> DEFINE g == j.group
<1>4. PICK counted \in Countable(books[s].missingParts, Priced(j.price, g)) :
         books' = [books EXCEPT ![s] = TakeBricks(books[s], g, j.price, counted)]
  BY <1>1 DEF Deliver
<1>5. books[s] \in BookType /\ g \in SUBSET Bricks /\ j.price \in [Bricks -> Price]
  BY DEF TypeOK, JobType
<1>6. \A b \in g : b \in InventoryOf[s] /\ DesignOf[b] = d /\ books[s].where[b] = "missing"
  BY <1>1, <1>2 DEF JobOK, GroupOK, BookOK, PhaseOK
<1>7. books[s].phase = "prices"
  BY <1>1, <1>3, <1>5 DEF BookOK, PhaseOK, BookType
<1> HIDE DEF g
<1>8. /\ books'[s].phase = "prices" /\ books'[s].done = books[s].done + Cardinality(g)
      /\ \A b \in Bricks : books'[s].where[b] = IF b \notin g THEN books[s].where[b]
                              ELSE IF b \in Custom \/ HasValidPrice(j.price[b]) THEN "final" ELSE "missing"
  <2>1. PICK n : n = TakeBricks(books[s], g, j.price, counted)
    OBVIOUS
  <2>2. books'[s] = n
    BY <1>4, <2>1 DEF TypeOK
  <2>3. /\ n.phase = books[s].phase /\ n.done = books[s].done + Cardinality(g)
        /\ \A b \in Bricks : n.where[b] = IF b \notin g THEN books[s].where[b]
              ELSE IF b \in Custom \/ HasValidPrice(j.price[b]) THEN "final" ELSE "missing"
    <3>1. BatchTaken(n, books[s], g, j.price, counted)
      BY <1>5, <2>1, TakeBricksFacts
    <3> QED BY <3>1 DEF BatchTaken
  <2> QED BY <1>7, <2>2, <2>3
<1>9. \A x \in Designs : /\ x # d => jobs'[s][x] = jobs[s][x]
                         /\ x = d => jobs'[s][x].pc = "done" /\ jobs'[s][x].group = {}
  BY <1>3, IdleJobOK DEF JobBecomes, TypeOK
<1>10. \A b \in InventoryOf[s] : b \in Bricks /\ DesignOf[b] \in Designs
  BY BookFinite, PricesAssumption
<1>11. g \subseteq Waiting(s) /\ Waiting(s)' = Waiting(s) \ g
  <2>1. \A b \in InventoryOf[s] : DesignOf[b] = d => (b \in Waiting(s) <=> b \in g)
    BY <1>1 DEF Waiting, g
  <2>2. \A b \in InventoryOf[s] : b \in Waiting(s)' <=> b \in Waiting(s) /\ DesignOf[b] # d
    BY <1>9, <1>10 DEF Waiting
  <2>3. Waiting(s) \subseteq InventoryOf[s] /\ Waiting(s)' \subseteq InventoryOf[s]
    BY DEF Waiting
  <2> QED BY <1>6, <2>1, <2>2, <2>3
<1> DEFINE rest == InventoryOf[s] \ Waiting(s)
<1>12. InventoryOf[s] \ Waiting(s)' = rest \cup g /\ rest \cap g = {}
  BY <1>6, <1>11
<1>13. PlacesOK(s)'
  BY <1>3, <1>6, <1>7, <1>8, <1>10 DEF BookOK, PlacesOK, Listener
<1>14. ProgressOK(s)'
  <2>1. rest \in SUBSET InventoryOf[s] /\ g \in SUBSET InventoryOf[s]
    BY <1>6
  <2>2. /\ IsFiniteSet(rest) /\ IsFiniteSet(g)
        /\ Cardinality(rest) \in Nat /\ Cardinality(g) \in Nat
    BY <2>1, BookFinite
  <2>3. Cardinality(rest \cup g) = Cardinality(rest) + Cardinality(g) - Cardinality({})
    BY <1>12, <2>2, FS_Union
  <2>4. Cardinality(rest \cup g) = Cardinality(rest) + Cardinality(g)
    BY <2>2, <2>3, FS_EmptySet
  <2>5. /\ books[s].done = Cardinality(rest)
        /\ \A b \in InventoryOf[s] : books[s].where[b] \in {"missing", "final"}
    BY <1>7 DEF BookOK, ProgressOK
  <2>6. books'[s].done = Cardinality(InventoryOf[s] \ Waiting(s)')
    BY <1>8, <1>12, <2>4, <2>5
  <2>7. \A b \in InventoryOf[s] : books'[s].where[b] \in {"missing", "final"}
    BY <1>8, <1>10, <2>5
  <2> QED BY <1>8, <2>6, <2>7 DEF ProgressOK
<1>15. PhaseOK(s)'
  <2>1. ASSUME NEW x \in Designs, NEW b \in jobs'[s][x].group
        PROVE  books'[s].where[b] = "missing"
    <3>1. x # d /\ b \in jobs[s][x].group
      BY <1>9, <2>1
    <3>2. b \in InventoryOf[s] /\ DesignOf[b] = x /\ books[s].where[b] = "missing"
      BY <3>1 DEF BookOK, PhaseOK, JobsInv, JobOK, GroupOK
    <3>3. b \notin g
      BY <1>6, <3>1, <3>2
    <3> QED BY <1>8, <1>10, <3>2, <3>3
  <2> QED BY <1>8, <2>1 DEF PhaseOK
<1>16. MissingTried(s)'
  <2> SUFFICES ASSUME faults = MaxFaults, NEW b \in rest \cup g,
                      books'[s].where[b] = "missing", ElementOf[b] # None,
                      NEW e \in PartColor[ElementOf[b]] \cup {ElementOf[b]}
               PROVE  NotSold(e, LocaleOf[s])
    BY <1>3, <1>12 DEF MissingTried, NotSold
  <2>1. CASE b \in rest
    <3>1. b \in Bricks /\ b \notin g
      BY <1>10, <1>12, <2>1
    <3>2. books[s].where[b] = "missing"
      BY <1>8, <3>1
    <3> QED BY <1>7, <2>1, <3>2 DEF BookOK, MissingTried
  <2>2. CASE b \in g
    <3>1. b \in Bricks /\ b \notin Custom /\ j.price[b] = None
      BY <1>5, <1>8, <2>2 DEF HasValidPrice
    <3>2. b \notin j.todo
      BY <1>3, <3>1 DEF Unpriced, HasValidPrice
    <3>3. OwnTried(LocaleOf[s], j, b) /\ SiblingsTried(LocaleOf[s], j, b, {})
      BY <1>2, <1>3, <2>2, <3>1, <3>2 DEF JobTries, OnSibling, g
    <3> QED BY <3>1, <3>3 DEF OwnTried, SiblingsTried
  <2> QED BY <2>1, <2>2
<1> QED BY <1>13, <1>14, <1>15, <1>16 DEF BookOK

\* Every step keeps the books.
LEMMA BooksInvStep ==
  ASSUME PricesInv, BooksInv, [Next]_vars
  PROVE  BooksInv'
<1>0. TypeOK /\ JobsInv /\ \A q \in Sets : BookOK(q)
  BY DEF PricesInv, BooksInv
<1>1. CASE UNCHANGED vars
  <2>1. UNCHANGED <<offer, books, shared, ear, jobs, faults>>
    BY <1>1 DEF vars
  <2> QED BY <1>0, <2>1, BookStays DEF BooksInv
<1>2. CASE Next
  <2>1. PICK s \in running :
           \/ \E b \in Bricks : \/ InventoryRead(s, b) \/ InventoryTake(s, b)
                                \/ InventoryBroadcast(s, b) \/ ListenerHear(s, b)
                                \/ CheckBrick(s, b)
           \/ ListenerRegister(s) \/ ListenerSnapshot(s) \/ ListenerReturn(s)
           \/ StartPrices(s) \/ PricesEnd(s)
           \/ \E d \in Designs : JobStep(s, d)
    BY <1>2 DEF Next
  <2>2. s \in Sets
    BY <1>0, <2>1 DEF TypeOK
  <2> SUFFICES /\ BookOK(s)'
               /\ offer' = offer /\ (faults' = MaxFaults => faults = MaxFaults)
               /\ \A q \in Sets \ {s} : /\ books'[q] = books[q] /\ shared'[q] = shared[q]
                                        /\ ear'[q] = ear[q] /\ jobs'[q] = jobs[q]
    BY <1>0, BookStays DEF BooksInv
  <2>3. CASE \E b \in Bricks : InventoryRead(s, b) \/ InventoryTake(s, b)
    <3>1. PICK b \in Bricks : InventoryRead(s, b) \/ InventoryTake(s, b)
      BY <2>3
    <3>2. BookOK(s)'
      BY <1>0, <2>2, <3>1, InventoryReadBook, InventoryTakeBook
    <3> QED BY <1>0, <3>1, <3>2 DEF InventoryRead, InventoryTake, TypeOK
  <2>4. CASE \E b \in Bricks : InventoryBroadcast(s, b) \/ CheckBrick(s, b)
    <3>1. PICK b \in Bricks : InventoryBroadcast(s, b) \/ CheckBrick(s, b)
      BY <2>4
    <3>2. BookOK(s)'
      BY <1>0, <2>2, <3>1, InventoryBroadcastBook, CheckBrickBook
    <3> QED BY <1>0, <3>1, <3>2 DEF InventoryBroadcast, CheckBrick, TypeOK
  <2>5. CASE \/ ListenerRegister(s) \/ ListenerSnapshot(s) \/ ListenerReturn(s)
             \/ \E b \in Bricks : ListenerHear(s, b)
    <3>1. BookOK(s)'
      BY <1>0, <2>2, <2>5, ListenerStepBook
    <3>2. /\ UNCHANGED <<offer, shared, jobs, faults>>
          /\ \A q \in Sets \ {s} : books'[q] = books[q] /\ ear'[q] = ear[q]
      BY <1>0, <2>5 DEF ListenerRegister, ListenerSnapshot, ListenerReturn, ListenerHear, TypeOK
    <3> QED BY <3>1, <3>2
  <2>6. CASE StartPrices(s)
    <3>1. BookOK(s)'
      BY <1>0, <2>2, <2>6, StartPricesBook
    <3>2. /\ UNCHANGED <<offer, shared, ear, faults>>
          /\ \A q \in Sets \ {s} : books'[q] = books[q] /\ jobs'[q] = jobs[q]
      BY <1>0, <2>6 DEF StartPrices, TypeOK
    <3> QED BY <3>1, <3>2
  <2>7. CASE PricesEnd(s)
    <3>1. BookOK(s)'
      BY <1>0, <2>2, <2>7, PricesEndBook
    <3> QED BY <1>0, <2>7, <3>1 DEF PricesEnd, TypeOK
  <2>8. CASE \E d \in Designs : JobStep(s, d)
    <3>1. PICK d \in Designs : JobStep(s, d)
      BY <2>8
    <3>2. /\ JobGoesOn(s, d) /\ UNCHANGED <<offer, shared, ear>>
          /\ faults' = MaxFaults => faults = MaxFaults
      BY <2>2, <3>1, JobStepFacts
    <3>3. \A q \in Sets \ {s} : jobs'[q] = jobs[q]
      BY <1>0, <3>2 DEF JobGoesOn, JobBecomes, TypeOK
    <3>4. CASE Deliver(s, d)
      <4>1. BookOK(s)'
        BY <1>0, <2>2, <3>4, DeliverBook
      <4>2. \A q \in Sets \ {s} : books'[q] = books[q]
        BY <1>0, <3>4 DEF Deliver, TypeOK
      <4> QED BY <3>2, <3>3, <4>1, <4>2
    <3>5. CASE ~Deliver(s, d)
      <4>1. BookOK(s)'
        BY <1>0, <2>2, <3>1, <3>2, <3>5, JobOnBook
      <4>2. books' = books
        BY <2>2, <3>1, <3>5, JobStepBooks
      <4> QED BY <3>2, <3>3, <4>1, <4>2
    <3> QED BY <3>4, <3>5
  <2> QED BY <2>1, <2>3, <2>4, <2>5, <2>6, <2>7, <2>8
<1> QED BY <1>1, <1>2

\* At first no brick has been looked at.
LEMMA BooksInvInit ==
  ASSUME Init PROVE BooksInv
<1> SUFFICES ASSUME NEW s \in Sets PROVE BookOK(s)
  BY DEF BooksInv
<1>1. \A b \in Bricks : books[s].where[b] = "absent" /\ shared[s].step[b] = "none"
  BY DEF Init, EmptyBook
<1>2. books[s].phase = "inventory" /\ books[s].done = 0
  BY DEF Init, EmptyBook
<1>3. \A d \in Designs : jobs[s][d].pc = "none" /\ jobs[s][d].group = {}
  BY DEF Init, IdleJob
<1>4. ear[s] \in {"out", "writer", "cached"} /\ (Listener(s) <=> ear[s] = "out")
  BY DEF Init
<1>5. Missing(s) \cup Final(s) = {}
  BY <1>1, BookFinite DEF Missing, Final
<1>6. PlacesOK(s)
  BY <1>1, <1>2, <1>4 DEF PlacesOK
<1>7. ProgressOK(s)
  BY <1>2, <1>5, FS_EmptySet DEF ProgressOK
<1>8. PhaseOK(s) /\ MissingTried(s)
  BY <1>2, <1>3 DEF PhaseOK, MissingTried
<1> QED BY <1>6, <1>7, <1>8 DEF BookOK

\* In every behaviour the first two invariants hold.
LEMMA BooksInvariant == Spec => [](PricesInv /\ BooksInv)
<1>1. Init => BooksInv
  BY BooksInvInit
<1>2. PricesInv /\ BooksInv /\ [Next]_vars => BooksInv'
  BY BooksInvStep
<1> QED BY <1>1, <1>2, PricesInvariant, PTL DEF Spec

\* When the prices of a runtime set are done, no brick waits.
LEMMA NobodyWaits ==
  ASSUME PricesInv, BooksInv, NEW s \in Sets, books[s].phase = "done"
  PROVE  Waiting(s) = {}
<1>1. \A d \in Designs : jobs[s][d].group = {}
  BY DEF PricesInv, JobsInv, JobOK, GroupOK, BooksInv, BookOK, PhaseOK
<1>2. \A b \in InventoryOf[s] : DesignOf[b] \in Designs
  BY BookFinite, PricesAssumption
<1> QED BY <1>1, <1>2 DEF Waiting

\* A brick that is sold, under its own element or a sibling, is final when nothing
\* failed, whatever the jobs found in Redis and in which order they ran
\* (workerHandlerDesignPrices, resolveViaAlternateElements).
THEOREM SoldBricksAreFinal == Spec => []SoldIsFinal
<1>1. ASSUME PricesInv, BooksInv PROVE SoldIsFinal
  <2> SUFFICES ASSUME NEW s \in Sets, books[s].phase = "done", faults = MaxFaults,
                      NEW b \in InventoryOf[s], ElementOf[b] # None,
                      NEW e \in PartColor[ElementOf[b]] \cup {ElementOf[b]},
                      offer[e][LocaleOf[s]] > 0
               PROVE  b \in Final(s)
    BY DEF SoldIsFinal
  <2>1. b \in InventoryOf[s] \ Waiting(s)
    BY <1>1, NobodyWaits
  <2>2. BookOK(s) /\ books[s].phase # "inventory"
    BY <1>1 DEF BooksInv
  <2>3. books[s].where[b] \in {"missing", "final"}
    BY <2>2 DEF BookOK, ProgressOK
  <2>4. CASE books[s].where[b] = "missing"
    <3>1. NotSold(e, LocaleOf[s])
      BY <2>1, <2>2, <2>4 DEF BookOK, MissingTried
    <3>2. b \in Bricks
      BY BookFinite
    <3>3. e \in Elements
      BY <3>2, PricesAssumption
    <3>4. e # None
      BY <3>3, PricesAssumption
    <3> QED BY <3>1, <3>4 DEF NotSold
  <2> QED BY <2>3, <2>4 DEF Final
<1>2. PricesInv /\ BooksInv => SoldIsFinal
  BY <1>1
<1> QED BY <1>2, BooksInvariant, PTL

\* A runtime set counts each of its bricks once.
LEMMA BooksEachOnce ==
  ASSUME PricesInv, BooksInv
  PROVE  EachBrickOnce
<1> SUFFICES ASSUME NEW s \in Sets
             PROVE  /\ books[s].done <= Cardinality(InventoryOf[s])
                    /\ books[s].phase = "done" => /\ Missing(s) \cup Final(s) = InventoryOf[s]
                                                  /\ books[s].done = Cardinality(InventoryOf[s])
  BY DEF EachBrickOnce
<1>1. ProgressOK(s)
  BY DEF BooksInv, BookOK
<1>2. books[s].done <= Cardinality(InventoryOf[s])
  <2>1. /\ Missing(s) \cup Final(s) \in SUBSET InventoryOf[s]
        /\ InventoryOf[s] \ Waiting(s) \in SUBSET InventoryOf[s]
        /\ {} \in SUBSET InventoryOf[s]
    BY DEF Missing, Final
  <2>2. /\ Cardinality(Missing(s) \cup Final(s)) <= Cardinality(InventoryOf[s])
        /\ Cardinality(InventoryOf[s] \ Waiting(s)) <= Cardinality(InventoryOf[s])
        /\ Cardinality({}) <= Cardinality(InventoryOf[s])
    BY <2>1, BookFinite
  <2> QED BY <1>1, <2>2, FS_EmptySet DEF ProgressOK
<1>3. ASSUME books[s].phase = "done"
      PROVE  Missing(s) \cup Final(s) = InventoryOf[s] /\ books[s].done = Cardinality(InventoryOf[s])
  <2>1. InventoryOf[s] \ Waiting(s) = InventoryOf[s]
    BY <1>3, NobodyWaits
  <2> QED BY <1>1, <1>3, <2>1 DEF ProgressOK, Missing, Final
<1> QED BY <1>2, <1>3

-----------------------------------------------------------------------------
(* The totals *)

FinalOf(k, bs) == {b \in bs : k.where[b] = "final"}
NotFoundOf(k, bs) == {b \in FinalOf(k, bs) : IsNotFound(k.price[b])}
PricedOf(k, bs) == Priced(k.price, FinalOf(k, bs))
Placed(k, bs) == {b \in bs : k.where[b] \in {"missing", "final"}}

\* The totals of the book k follow its bricks bs, of which it took some, when counted
\* are those in the total.
Tied(k, bs, taken, counted) ==
    /\ counted \subseteq PricedOf(k, bs)
    /\ k.total = Cents(k.price, counted)
    /\ Cardinality(PricedOf(k, bs) \ counted) <= 1
    /\ k.missingParts <= Cardinality(taken \ counted)
    /\ k.missingParts >= Cardinality((taken \ counted) \ NotFoundOf(k, bs))

CanTie(k, bs, taken) == \E counted : Tied(k, bs, taken, counted)

\* The sets it speaks of.
LEMMA PartsFinite ==
  ASSUME NEW bs \in SUBSET Bricks
  PROVE  /\ \A x \in SUBSET bs : IsFiniteSet(x) /\ Cardinality(x) \in Nat
         /\ \A x \in SUBSET bs : \A y \in SUBSET x : Cardinality(y) <= Cardinality(x)
<1>1. IsFiniteSet(bs)
  BY BricksFinite
<1>2. \A x \in SUBSET bs : IsFiniteSet(x) /\ Cardinality(x) \in Nat
  BY <1>1, FS_Subset, FS_CardinalityType
<1>3. \A x \in SUBSET bs : \A y \in SUBSET x : Cardinality(y) <= Cardinality(x)
  BY <1>2, FS_Subset
<1> QED BY <1>2, <1>3

TiedParts(k, bs, taken, counted) ==
    /\ counted \in SUBSET bs /\ \A b \in counted : k.price[b] # None
    /\ PricedOf(k, bs) \subseteq FinalOf(k, bs) /\ NotFoundOf(k, bs) \subseteq FinalOf(k, bs)
    /\ PricedOf(k, bs) \ counted \subseteq (taken \ counted) \ NotFoundOf(k, bs)
    /\ k.missingParts \in Nat /\ k.total \in Nat

\* The sets that the sums are about, and their sizes.
LEMMA TiedSets ==
  ASSUME NEW k \in BookType, NEW bs \in SUBSET Bricks, NEW taken,
         NEW counted, FinalOf(k, bs) \subseteq taken, Tied(k, bs, taken, counted)
  PROVE  TiedParts(k, bs, taken, counted)
<1>1. PricedOf(k, bs) \subseteq FinalOf(k, bs) /\ NotFoundOf(k, bs) \subseteq FinalOf(k, bs)
  BY DEF PricedOf, NotFoundOf, Priced
<1>2. \A b \in PricedOf(k, bs) : b \notin NotFoundOf(k, bs) /\ k.price[b] # None
  BY DEF PricedOf, Priced, NotFoundOf, IsPriced, IsNotFound, BookType, Price, Prices
<1>3. counted \subseteq PricedOf(k, bs) /\ FinalOf(k, bs) \subseteq bs
  BY DEF Tied, FinalOf
<1> QED BY <1>1, <1>2, <1>3 DEF BookType, TiedParts

\* Only what is final and its price matter.
LEMMA TiedSame ==
  ASSUME NEW k \in BookType, NEW n \in BookType, NEW bs \in SUBSET Bricks, NEW taken, NEW counted,
         Tied(k, bs, taken, counted), n.total = k.total, n.missingParts = k.missingParts,
         \A b \in bs : n.where[b] = "final" <=> k.where[b] = "final",
         \A b \in bs : k.where[b] = "final" => n.price[b] = k.price[b]
  PROVE  Tied(n, bs, taken, counted)
<1>1. FinalOf(n, bs) = FinalOf(k, bs)
  BY DEF FinalOf
<1>2. \A b \in FinalOf(k, bs) : n.price[b] = k.price[b]
  BY DEF FinalOf
<1>3. NotFoundOf(n, bs) = NotFoundOf(k, bs) /\ PricedOf(n, bs) = PricedOf(k, bs)
  BY <1>1, <1>2 DEF NotFoundOf, PricedOf, Priced
<1>4. \A b \in counted : n.price[b] = k.price[b]
  BY <1>2 DEF Tied, PricedOf, Priced
<1>5. Cents(n.price, counted) = Cents(k.price, counted)
  BY <1>4, CentsSame
<1> QED BY <1>3, <1>5 DEF Tied

\* What AddFinalBrickData and TakeBrick count.
LEMMA AddFinalCounts ==
  ASSUME NEW k \in BookType, NEW b \in Bricks
  PROVE  LET n == AddFinalBrickData(k, b)
         IN  IF ~IsPriced(k.price[b]) \/ k.missingParts = 0
             THEN n.total = k.total /\ n.missingParts = k.missingParts
             ELSE /\ n.total = k.total + k.price[b].cents * Quantity[b]
                  /\ n.missingParts = k.missingParts - 1
BY DEF AddFinalBrickData, BookType

\* What checkSetDataValidity adds to the sums for one brick.
LEMMA TakeBrickCounts ==
  ASSUME NEW k \in BookType, NEW b \in Bricks
  PROVE  LET n == TakeBrick(k, b)
         IN  /\ IsNotFound(k.price[b]) =>
                   n.total = k.total /\ n.missingParts = k.missingParts
             /\ ~IsNotFound(k.price[b]) /\ (~IsPriced(k.price[b]) \/ k.missingParts = 0) =>
                   n.total = k.total /\ n.missingParts = k.missingParts + 1
             /\ IsPriced(k.price[b]) /\ k.missingParts # 0 =>
                   /\ n.total = k.total + k.price[b].cents * Quantity[b]
                   /\ n.missingParts = k.missingParts
<1> DEFINE taken == [k EXCEPT !.done = @ + 1]
           final == [taken EXCEPT !.where[b] = "final"]
           missing == [taken EXCEPT !.where[b] = "missing"]
           n == TakeBrick(k, b)
           added == AddFinalBrickData(final, b)
<1>0. /\ taken \in BookType /\ taken.price = k.price /\ taken.total = k.total
      /\ taken.missingParts = k.missingParts
  BY DEF BookType
<1>2. n = IF b \in Custom \/ HasValidPrice(k.price[b])
          THEN IF IsNotFound(k.price[b]) THEN final ELSE IncrementMissingParts(added)
          ELSE IncrementMissingParts(missing)
  BY DEF TakeBrick
<1> HIDE DEF taken, n
<1>1. /\ final \in BookType /\ final.price = k.price /\ final.total = k.total
      /\ final.missingParts = k.missingParts
      /\ missing \in BookType /\ missing.total = k.total /\ missing.missingParts = k.missingParts
  BY <1>0 DEF BookType
<1> HIDE DEF final, missing
<1>3. IF ~IsPriced(k.price[b]) \/ k.missingParts = 0
      THEN added.total = k.total /\ added.missingParts = k.missingParts
      ELSE /\ added.total = k.total + k.price[b].cents * Quantity[b]
           /\ added.missingParts = k.missingParts - 1
  BY <1>1, AddFinalCounts
<1>4. added \in BookType
  BY <1>1, AddFinalTyped
<1> HIDE DEF added
<1>5. \A x \in BookType : LET y == IncrementMissingParts(x)
        IN y.total = x.total /\ y.missingParts = x.missingParts + 1
  BY DEF IncrementMissingParts, BookType
<1>6. IsNotFound(k.price[b]) => HasValidPrice(k.price[b]) /\ ~IsPriced(k.price[b])
  BY DEF IsNotFound, HasValidPrice, IsPriced
<1>7. IsPriced(k.price[b]) => HasValidPrice(k.price[b])
  BY DEF HasValidPrice, IsPriced
<1>8. k.missingParts \in Nat
  BY DEF BookType
<1>9. CASE IsNotFound(k.price[b])
  BY <1>1, <1>2, <1>6, <1>9 DEF n
<1>10. CASE ~IsNotFound(k.price[b]) /\ ~(b \in Custom \/ HasValidPrice(k.price[b]))
  <2>1. n.total = missing.total /\ n.missingParts = missing.missingParts + 1
    BY <1>1, <1>2, <1>5, <1>10
  <2> QED BY <1>1, <1>7, <1>10, <2>1 DEF n
<1>11. CASE ~IsNotFound(k.price[b]) /\ (b \in Custom \/ HasValidPrice(k.price[b]))
  <2>1. n.total = added.total /\ n.missingParts = added.missingParts + 1
    BY <1>2, <1>4, <1>5, <1>11
  <2> QED BY <1>3, <1>8, <1>11, <2>1 DEF n
<1> QED BY <1>9, <1>10, <1>11

\* A writer takes a brick of its inventory.
LEMMA TakeTied ==
  ASSUME NEW k \in BookType, NEW bs \in SUBSET Bricks, NEW b \in bs, k.where[b] = "read",
         NEW counted, Tied(k, bs, Placed(k, bs), counted)
  PROVE  CanTie(TakeBrick(k, b), bs, Placed(TakeBrick(k, b), bs))
<1>1. PICK n \in BookType : n = TakeBrick(k, b)
  BY TakeBrickTyped
<1> DEFINE F == FinalOf(k, bs)
           N == NotFoundOf(k, bs)
           P == PricedOf(k, bs)
<1>2. PICK T \in SUBSET bs : /\ T = Placed(k, bs) /\ F \subseteq T /\ b \notin T
                             /\ Tied(k, bs, T, counted)
  BY DEF Placed, FinalOf
<1>3. /\ counted \in SUBSET bs /\ \A c \in counted : k.price[c] # None
      /\ P \subseteq F /\ N \subseteq F
      /\ P \ counted \subseteq (T \ counted) \ N
      /\ k.missingParts \in Nat /\ k.total \in Nat
  <2>1. TiedParts(k, bs, T, counted)
    BY <1>2, TiedSets
  <2> QED BY <2>1 DEF TiedParts
<1>4. /\ counted \subseteq P /\ k.total = Cents(k.price, counted)
      /\ Cardinality(P \ counted) <= 1
      /\ k.missingParts <= Cardinality(T \ counted)
      /\ k.missingParts >= Cardinality((T \ counted) \ N)
  BY <1>2 DEF Tied
<1>5. PICK x \in {"missing", "final"} :
         /\ n.price = k.price
         /\ \A c \in Bricks : n.where[c] = IF c = b THEN x ELSE k.where[c]
         /\ x = IF b \in Custom \/ HasValidPrice(k.price[b]) THEN "final" ELSE "missing"
  BY <1>1, TakeBrickFacts
<1>6. /\ Placed(n, bs) = T \cup {b}
      /\ FinalOf(n, bs) = IF x = "final" THEN F \cup {b} ELSE F
  BY <1>2, <1>5 DEF Placed, FinalOf
<1>7. /\ NotFoundOf(n, bs) = IF x = "final" /\ IsNotFound(k.price[b]) THEN N \cup {b} ELSE N
      /\ PricedOf(n, bs) = IF x = "final" /\ IsPriced(k.price[b]) THEN P \cup {b} ELSE P
  BY <1>5, <1>6 DEF NotFoundOf, PricedOf, Priced
<1>8. /\ IsNotFound(k.price[b]) => x = "final" /\ ~IsPriced(k.price[b])
      /\ IsPriced(k.price[b]) => x = "final" /\ ~IsNotFound(k.price[b])
  BY <1>5 DEF IsNotFound, IsPriced, HasValidPrice
<1> HIDE DEF F, N, P
<1>9. b \notin counted /\ b \notin N /\ b \notin P
  BY <1>2, <1>3, <1>4
<1> DEFINE open == T \ counted
           owed == open \ N
           opened == (T \cup {b}) \ counted
<1>10. /\ opened = open \cup {b} /\ opened \ N = owed \cup {b} /\ opened \ (N \cup {b}) = owed
       /\ b \notin open /\ b \notin owed
  BY <1>2, <1>9
<1>11. /\ open \in SUBSET bs /\ owed \in SUBSET bs /\ P \ counted \in SUBSET bs
  BY <1>2, <1>3
<1>12. k.missingParts <= Cardinality(open) /\ k.missingParts >= Cardinality(owed)
  BY <1>4
<1> HIDE DEF open, owed
<1>13. /\ IsFiniteSet(open) /\ IsFiniteSet(owed) /\ Cardinality(P \ counted) \in Nat
       /\ Cardinality(open) \in Nat /\ Cardinality(owed) \in Nat
  BY <1>11, PartsFinite
<1>14. /\ Cardinality(opened) = Cardinality(open) + 1
       /\ Cardinality(opened \ N) = Cardinality(owed) + 1
       /\ Cardinality(opened \ (N \cup {b})) = Cardinality(owed)
  BY <1>10, <1>13, FS_AddElement
<1> HIDE DEF opened
<1>15. CASE IsNotFound(k.price[b])
  <2>1. n.total = k.total /\ n.missingParts = k.missingParts
    BY <1>1, <1>15, TakeBrickCounts
  <2>2. NotFoundOf(n, bs) = N \cup {b} /\ PricedOf(n, bs) = P
    BY <1>7, <1>8, <1>15
  <2>3. n.missingParts <= Cardinality(opened) /\ n.missingParts >= Cardinality(opened \ (N \cup {b}))
    BY <1>3, <1>12, <1>13, <1>14, <2>1
  <2>4. Tied(n, bs, Placed(n, bs), counted)
    BY <1>4, <1>5, <1>6, <2>1, <2>2, <2>3 DEF Tied, opened
  <2> QED BY <1>1, <2>4 DEF CanTie
<1>16. CASE ~IsNotFound(k.price[b]) /\ ~IsPriced(k.price[b])
  <2>1. n.total = k.total /\ n.missingParts = k.missingParts + 1
    BY <1>1, <1>16, TakeBrickCounts
  <2>2. NotFoundOf(n, bs) = N /\ PricedOf(n, bs) = P
    BY <1>7, <1>16
  <2>3. n.missingParts <= Cardinality(opened) /\ n.missingParts >= Cardinality(opened \ N)
    BY <1>3, <1>12, <1>13, <1>14, <2>1
  <2>4. Tied(n, bs, Placed(n, bs), counted)
    BY <1>4, <1>5, <1>6, <2>1, <2>2, <2>3 DEF Tied, opened
  <2> QED BY <1>1, <2>4 DEF CanTie
<1>17. CASE IsPriced(k.price[b]) /\ k.missingParts = 0
  <2>1. n.total = k.total /\ n.missingParts = 1
    BY <1>1, <1>8, <1>17, TakeBrickCounts
  <2>2. NotFoundOf(n, bs) = N /\ PricedOf(n, bs) = P \cup {b}
    BY <1>7, <1>8, <1>17
  <2>3. Cardinality(owed) = 0
    BY <1>12, <1>13, <1>17
  <2>4. owed = {}
    BY <1>13, <2>3, FS_EmptySet
  <2>5. (P \cup {b}) \ counted = {b}
    BY <1>3, <1>9, <2>4 DEF owed, open
  <2>6. Cardinality((P \cup {b}) \ counted) = 1
    BY <2>5, FS_Singleton
  <2>7. counted \subseteq P \cup {b}
    BY <1>4
  <2>8. n.missingParts <= Cardinality(opened) /\ n.missingParts >= Cardinality(opened \ N)
    BY <1>13, <1>14, <2>1, <2>3
  <2>9. Tied(n, bs, Placed(n, bs), counted)
    BY <1>4, <1>5, <1>6, <2>1, <2>2, <2>6, <2>7, <2>8 DEF Tied, opened
  <2> QED BY <1>1, <2>9 DEF CanTie
<1>18. CASE IsPriced(k.price[b]) /\ k.missingParts # 0
  <2> DEFINE now == counted \cup {b}
  <2>1. n.total = k.total + k.price[b].cents * Quantity[b] /\ n.missingParts = k.missingParts
    BY <1>1, <1>18, TakeBrickCounts
  <2>2. NotFoundOf(n, bs) = N /\ PricedOf(n, bs) = P \cup {b}
    BY <1>7, <1>8, <1>18
  <2>3. (P \cup {b}) \ now = P \ counted /\ (T \cup {b}) \ now = T \ counted
    BY <1>2, <1>9
  <2>4. Cents(k.price, now) = Cents(k.price, counted) + k.price[b].cents * Quantity[b]
    <3>1. k.price \in [Bricks -> Price] /\ k.price[b] # None /\ b \in Bricks
      BY <1>18 DEF BookType, IsPriced
    <3>2. Cents(k.price, {b}) = k.price[b].cents * Quantity[b]
      BY <3>1, CentsOne
    <3>3. counted \in SUBSET Bricks /\ {b} \in SUBSET Bricks /\ counted \cap {b} = {}
      BY <1>3, <1>9, <3>1
    <3>4. \A c \in counted \cup {b} : k.price[c] # None
      BY <1>3, <3>1
    <3>5. Cents(k.price, counted \cup {b}) = Cents(k.price, counted) + Cents(k.price, {b})
      BY <3>1, <3>3, <3>4, CentsSplit
    <3> QED BY <3>2, <3>5
  <2>5. now \subseteq P \cup {b}
    BY <1>4
  <2> HIDE DEF now
  <2>6. Tied(n, bs, Placed(n, bs), now)
    BY <1>4, <1>5, <1>6, <2>1, <2>2, <2>3, <2>4, <2>5 DEF Tied
  <2> QED BY <1>1, <2>6 DEF CanTie
<1> QED BY <1>15, <1>16, <1>17, <1>18

\* A set whose inventory is cached looks at one of its bricks: it is owed, so that it is
\* always counted.
LEMMA CheckTied ==
  ASSUME NEW k \in BookType, NEW bs \in SUBSET Bricks, NEW b \in bs, k.where[b] = "absent",
         NEW counted, Tied(k, bs, bs, counted),
         NEW p \in Price, NEW x \in {"final", "missing"}, p # None => x = "final"
  PROVE  CanTie(AddFinalBrickData([k EXCEPT !.price[b] = p, !.where[b] = x], b), bs, bs)
<1> DEFINE F == FinalOf(k, bs)
           N == NotFoundOf(k, bs)
           P == PricedOf(k, bs)
<1>1. PICK m \in BookType : m = [k EXCEPT !.price[b] = p, !.where[b] = x]
  BY DEF BookType
<1>2. /\ m.total = k.total /\ m.missingParts = k.missingParts
      /\ \A c \in Bricks : /\ m.where[c] = IF c = b THEN x ELSE k.where[c]
                           /\ m.price[c] = IF c = b THEN p ELSE k.price[c]
  BY <1>1 DEF BookType
<1>3. PICK n \in BookType : n = AddFinalBrickData(m, b)
  BY AddFinalTyped
<1>4. n.where = m.where /\ n.price = m.price
  BY <1>3, AddFinalFacts
<1>5. b \notin F /\ F \subseteq bs
  BY DEF FinalOf
<1>6. /\ counted \in SUBSET bs /\ \A c \in counted : k.price[c] # None
      /\ P \subseteq F /\ N \subseteq F
      /\ P \ counted \subseteq (bs \ counted) \ N
      /\ k.missingParts \in Nat /\ k.total \in Nat
  <2>1. TiedParts(k, bs, bs, counted)
    BY <1>5, TiedSets
  <2> QED BY <2>1 DEF TiedParts
<1>7. /\ counted \subseteq P /\ k.total = Cents(k.price, counted)
      /\ Cardinality(P \ counted) <= 1
      /\ k.missingParts <= Cardinality(bs \ counted)
      /\ k.missingParts >= Cardinality((bs \ counted) \ N)
  BY DEF Tied
<1>8. /\ FinalOf(n, bs) = IF x = "final" THEN F \cup {b} ELSE F
      /\ \A c \in F : n.price[c] = k.price[c]
      /\ n.price[b] = p
  BY <1>2, <1>4, <1>5 DEF FinalOf
<1>9. /\ NotFoundOf(n, bs) = IF x = "final" /\ IsNotFound(p) THEN N \cup {b} ELSE N
      /\ PricedOf(n, bs) = IF x = "final" /\ IsPriced(p) THEN P \cup {b} ELSE P
  BY <1>5, <1>8 DEF NotFoundOf, PricedOf, Priced
<1>10. Cents(n.price, counted) = Cents(k.price, counted)
  <2>1. \A c \in counted : n.price[c] = k.price[c]
    BY <1>6, <1>7, <1>8
  <2> QED BY <2>1, CentsSame
<1>11. b \notin counted /\ b \notin N /\ b \notin P
  BY <1>5, <1>6, <1>7
<1> HIDE DEF F, N, P
<1> DEFINE open == bs \ counted
           owed == open \ N
<1>12. /\ open \in SUBSET bs /\ owed \in SUBSET bs /\ P \ counted \in SUBSET bs
       /\ owed \ {b} \in SUBSET owed /\ b \in owed /\ b \in open
       /\ open \ {b} = bs \ (counted \cup {b}) /\ owed \ {b} = (bs \ (counted \cup {b})) \ N
       /\ (bs \ counted) \ (N \cup {b}) = owed \ {b}
  BY <1>5, <1>6, <1>11
<1>13. k.missingParts <= Cardinality(open) /\ k.missingParts >= Cardinality(owed)
  BY <1>7
<1> HIDE DEF open, owed
<1>14. /\ IsFiniteSet(open) /\ IsFiniteSet(owed) /\ Cardinality(P \ counted) \in Nat
       /\ Cardinality(open) \in Nat /\ Cardinality(owed) \in Nat
       /\ Cardinality(owed \ {b}) <= Cardinality(owed)
  BY <1>12, PartsFinite
<1>15. /\ Cardinality(open \ {b}) = Cardinality(open) - 1
       /\ Cardinality(owed \ {b}) = Cardinality(owed) - 1
  BY <1>12, <1>14, FS_RemoveElement
<1>16. Cardinality(owed) # 0
  BY <1>12, <1>14, FS_EmptySet
<1>17. IF ~IsPriced(p) \/ k.missingParts = 0
       THEN n.total = k.total /\ n.missingParts = k.missingParts
       ELSE /\ n.total = k.total + p.cents * Quantity[b]
            /\ n.missingParts = k.missingParts - 1
  BY <1>2, <1>3, AddFinalCounts
<1>18. CASE ~IsPriced(p) /\ ~IsNotFound(p)
  <2>1. NotFoundOf(n, bs) = N /\ PricedOf(n, bs) = P
    BY <1>9, <1>18
  <2>2. Tied(n, bs, bs, counted)
    BY <1>7, <1>10, <1>17, <1>18, <2>1 DEF Tied
  <2> QED BY <1>1, <1>3, <2>2 DEF CanTie
<1>19. CASE IsNotFound(p)
  <2>1. ~IsPriced(p) /\ x = "final"
    BY <1>19 DEF IsNotFound, IsPriced
  <2>2. NotFoundOf(n, bs) = N \cup {b} /\ PricedOf(n, bs) = P
    BY <1>9, <1>19, <2>1
  <2>3. k.missingParts >= Cardinality((bs \ counted) \ (N \cup {b}))
    <3>1. Cardinality((bs \ counted) \ (N \cup {b})) = Cardinality(owed \ {b})
      BY <1>12
    <3> QED BY <1>6, <1>13, <1>14, <1>15, <3>1
  <2>4. Tied(n, bs, bs, counted)
    BY <1>7, <1>10, <1>17, <2>1, <2>2, <2>3 DEF Tied
  <2> QED BY <1>1, <1>3, <2>4 DEF CanTie
<1>20. CASE IsPriced(p)
  <2> DEFINE now == counted \cup {b}
  <2>1. x = "final" /\ ~IsNotFound(p) /\ p # None
    BY <1>20 DEF IsNotFound, IsPriced
  <2>2. NotFoundOf(n, bs) = N /\ PricedOf(n, bs) = P \cup {b}
    BY <1>9, <1>20, <2>1
  <2>3. k.missingParts # 0
    BY <1>13, <1>14, <1>16
  <2>4. n.total = k.total + p.cents * Quantity[b] /\ n.missingParts = k.missingParts - 1
    BY <1>17, <1>20, <2>3
  <2>5. n.missingParts <= Cardinality(bs \ now) /\ n.missingParts >= Cardinality((bs \ now) \ N)
    <3>1. /\ Cardinality(bs \ now) = Cardinality(open \ {b})
          /\ Cardinality((bs \ now) \ N) = Cardinality(owed \ {b})
      BY <1>12
    <3> HIDE DEF now
    <3> QED BY <1>6, <1>13, <1>14, <1>15, <2>4, <3>1
  <2>6. (P \cup {b}) \ now = P \ counted /\ now \subseteq P \cup {b}
    BY <1>7, <1>11
  <2>7. Cents(n.price, now) = Cents(n.price, counted) + p.cents * Quantity[b]
    <3>1. n.price \in [Bricks -> Price] /\ n.price[b] # None /\ b \in Bricks
      BY <1>8, <2>1 DEF BookType
    <3>2. Cents(n.price, {b}) = p.cents * Quantity[b]
      BY <1>8, <3>1, CentsOne
    <3>3. counted \in SUBSET Bricks /\ {b} \in SUBSET Bricks /\ counted \cap {b} = {}
      BY <1>6, <1>11, <3>1
    <3>4. \A c \in counted \cup {b} : n.price[c] # None
      BY <1>6, <1>7, <1>8, <3>1
    <3>5. Cents(n.price, counted \cup {b}) = Cents(n.price, counted) + Cents(n.price, {b})
      BY <3>1, <3>3, <3>4, CentsSplit
    <3> QED BY <3>2, <3>5
  <2> HIDE DEF now
  <2>8. Tied(n, bs, bs, now)
    BY <1>7, <1>10, <2>2, <2>4, <2>5, <2>6, <2>7 DEF Tied
  <2> QED BY <1>1, <1>3, <2>8 DEF CanTie
<1> QED BY <1>18, <1>19, <1>20

\* A job hands over missing bricks: they are owed, so that all the priced ones are counted.
LEMMA DeliverTied ==
  ASSUME NEW k \in BookType, NEW bs \in SUBSET Bricks, NEW taken \in SUBSET bs,
         FinalOf(k, bs) \subseteq taken,
         NEW counted, Tied(k, bs, taken, counted),
         NEW g \in SUBSET taken, \A b \in g : k.where[b] = "missing",
         NEW p \in [Bricks -> Price], NEW added \in Countable(k.missingParts, Priced(p, g))
  PROVE  CanTie(TakeBricks(k, g, p, added), bs, taken)
<1> DEFINE F == FinalOf(k, bs)
           N == NotFoundOf(k, bs)
           P == PricedOf(k, bs)
           G == Priced(p, g)
           lost == {b \in g : IsNotFound(p[b])}
<1>1. /\ g \in SUBSET Bricks /\ g \cap F = {} /\ G \subseteq g /\ lost \subseteq g
      /\ G \in SUBSET Bricks /\ g \subseteq bs
  BY DEF FinalOf, Priced
<1>2. PICK n \in BookType : n = TakeBricks(k, g, p, added)
  BY <1>1, TakeBricksTyped
<1>3. /\ n.missingParts = k.missingParts - Cardinality(added)
      /\ n.total = k.total + Cents(p, added)
      /\ \A b \in Bricks :
            /\ n.price[b] = IF b \in g THEN p[b] ELSE k.price[b]
            /\ n.where[b] = IF b \notin g THEN k.where[b]
                  ELSE IF b \in Custom \/ HasValidPrice(p[b]) THEN "final" ELSE "missing"
  <2>1. g \in SUBSET Bricks
    BY <1>1
  <2>2. BatchTaken(n, k, g, p, added)
    BY <1>2, <2>1, TakeBricksFacts
  <2> QED BY <2>2 DEF BatchTaken
<1>4. /\ counted \in SUBSET bs /\ \A c \in counted : k.price[c] # None
      /\ P \subseteq F /\ N \subseteq F
      /\ P \ counted \subseteq (taken \ counted) \ N
      /\ k.missingParts \in Nat /\ k.total \in Nat
  <2>1. TiedParts(k, bs, taken, counted)
    BY TiedSets
  <2> QED BY <2>1 DEF TiedParts
<1>5. /\ counted \subseteq P /\ k.total = Cents(k.price, counted)
      /\ Cardinality(P \ counted) <= 1
      /\ k.missingParts <= Cardinality(taken \ counted)
      /\ k.missingParts >= Cardinality((taken \ counted) \ N)
  BY DEF Tied
<1>6. /\ \A b \in G : IsPriced(p[b]) /\ ~IsNotFound(p[b]) /\ HasValidPrice(p[b])
      /\ \A b \in lost : ~IsPriced(p[b]) /\ HasValidPrice(p[b])
  BY DEF Priced, IsPriced, IsNotFound, HasValidPrice, Price, Prices
<1>7. \A b \in bs : b \in FinalOf(n, bs) <=>
            (b \notin g /\ b \in F) \/ (b \in g /\ (b \in Custom \/ HasValidPrice(p[b])))
  BY <1>1, <1>3 DEF FinalOf
<1>8. /\ FinalOf(n, bs) \subseteq bs /\ F \subseteq bs
      /\ \A b \in bs : n.price[b] = IF b \in g THEN p[b] ELSE k.price[b]
  BY <1>3 DEF FinalOf
<1>9. PricedOf(n, bs) = P \cup G
  BY <1>1, <1>4, <1>6, <1>7, <1>8 DEF PricedOf, Priced
<1>10. NotFoundOf(n, bs) = N \cup lost
  BY <1>1, <1>4, <1>6, <1>7, <1>8 DEF NotFoundOf
<1> HIDE DEF F, N, P, G, lost
<1> DEFINE open == taken \ counted
           owed == open \ N
           now == counted \cup G
<1>11. /\ open \in SUBSET bs /\ owed \in SUBSET bs /\ G \subseteq owed /\ G \subseteq open
       /\ G \in SUBSET owed /\ G \in SUBSET open /\ counted \cap G = {}
  BY <1>1, <1>4, <1>5
<1>12. /\ taken \ now = open \ G
       /\ (taken \ now) \ (N \cup lost) \in SUBSET (owed \ G)
       /\ owed \ G \in SUBSET bs
       /\ (P \cup G) \ now = P \ counted /\ now \subseteq P \cup G
  BY <1>1, <1>4, <1>5, <1>11
<1>13. k.missingParts <= Cardinality(open) /\ k.missingParts >= Cardinality(owed)
  BY <1>5
<1> HIDE DEF open, owed
<1>14. /\ IsFiniteSet(open) /\ IsFiniteSet(owed)
       /\ Cardinality(open) \in Nat /\ Cardinality(owed) \in Nat
       /\ Cardinality(G) <= Cardinality(owed)
       /\ Cardinality((taken \ now) \ (N \cup lost)) <= Cardinality(owed \ G)
  BY <1>11, <1>12, PartsFinite
<1>15. G \in SUBSET bs
  BY <1>11
<1>16. IsFiniteSet(G) /\ Cardinality(G) \in Nat
  BY <1>15, PartsFinite
<1>17. added = G
  <2>1. k.missingParts >= Cardinality(G)
    BY <1>4, <1>13, <1>14, <1>16
  <2> QED BY <1>1, <1>4, <2>1, CountableFits DEF G
<1>18. /\ Cardinality(open \ G) = Cardinality(open) - Cardinality(open \cap G)
       /\ Cardinality(owed \ G) = Cardinality(owed) - Cardinality(owed \cap G)
       /\ open \cap G = G /\ owed \cap G = G
  BY <1>11, <1>14, <1>16, FS_Difference
<1>19. n.missingParts <= Cardinality(taken \ now)
  <2>1. Cardinality(open \ G) = Cardinality(open) - Cardinality(G)
    BY <1>18
  <2>2. n.missingParts = k.missingParts - Cardinality(G)
    BY <1>3, <1>17
  <2>3. Cardinality(taken \ now) = Cardinality(open \ G)
    BY <1>12
  <2> HIDE DEF now
  <2> QED BY <1>4, <1>13, <1>14, <1>16, <2>1, <2>2, <2>3
<1>20. n.missingParts >= Cardinality((taken \ now) \ (N \cup lost))
  <2>1. Cardinality(owed \ G) = Cardinality(owed) - Cardinality(G)
    BY <1>18
  <2>2. n.missingParts = k.missingParts - Cardinality(G)
    BY <1>3, <1>17
  <2>3. (taken \ now) \ (N \cup lost) \in SUBSET bs
    BY <1>12
  <2>4. Cardinality((taken \ now) \ (N \cup lost)) \in Nat
    BY <2>3, PartsFinite
  <2> QED BY <1>4, <1>13, <1>14, <1>16, <2>1, <2>2, <2>4
<1>21. n.total = Cents(n.price, now)
  <2>1. \A b \in G : n.price[b] = p[b] /\ p[b] # None
    BY <1>1, <1>6, <1>8 DEF HasValidPrice
  <2>2. \A b \in counted : n.price[b] = k.price[b] /\ k.price[b] # None
    BY <1>1, <1>4, <1>5, <1>8
  <2>3. Cents(n.price, G) = Cents(p, G)
    BY <2>1, CentsSame
  <2>4. Cents(n.price, counted) = Cents(k.price, counted)
    BY <2>2, CentsSame
  <2>5. n.price \in [Bricks -> Price] /\ counted \in SUBSET Bricks /\ G \in SUBSET Bricks
    BY <1>1, <1>4 DEF BookType
  <2>6. \A b \in counted \cup G : n.price[b] # None
    BY <2>1, <2>2
  <2>7. Cents(n.price, counted \cup G) = Cents(n.price, counted) + Cents(n.price, G)
    BY <1>11, <2>5, <2>6, CentsSplit
  <2> QED BY <1>3, <1>5, <1>17, <2>3, <2>4, <2>7
<1> HIDE DEF now
<1>22. Tied(n, bs, taken, now)
  BY <1>5, <1>9, <1>10, <1>12, <1>19, <1>20, <1>21 DEF Tied
<1> QED BY <1>2, <1>22 DEF CanTie

-----------------------------------------------------------------------------
(* The totals in every state *)

\* The bricks the totals of a runtime set speak of.
TakenOf(s) == IF ear[s] = "cached" THEN InventoryOf[s] ELSE Placed(books[s], InventoryOf[s])

SetTied(s) == CanTie(books[s], InventoryOf[s], TakenOf(s))

TiedInv == \A s \in Sets : ~Listener(s) => SetTied(s)

\* The bricks the missing parts may count.
LEMMA TakenTyped ==
  ASSUME NEW s \in Sets
  PROVE  /\ InventoryOf[s] \in SUBSET Bricks /\ TakenOf(s) \in SUBSET InventoryOf[s]
         /\ FinalOf(books[s], InventoryOf[s]) \subseteq TakenOf(s)
BY PricesAssumption DEF TakenOf, Placed, FinalOf

\* Nothing that matters happens to the totals.
LEMMA SetStaysTied ==
  ASSUME TypeOK, NEW s \in Sets, SetTied(s), ear'[s] = ear[s],
         books'[s] \in BookType,
         books'[s].total = books[s].total, books'[s].missingParts = books[s].missingParts,
         \A b \in InventoryOf[s] : /\ books'[s].where[b] = "final" <=> books[s].where[b] = "final"
                                   /\ books'[s].where[b] = "missing" <=> books[s].where[b] = "missing"
                                   /\ books[s].where[b] = "final" => books'[s].price[b] = books[s].price[b]
  PROVE  SetTied(s)'
<1>1. PICK counted : Tied(books[s], InventoryOf[s], TakenOf(s), counted)
  BY DEF SetTied, CanTie
<1>2. PICK k \in BookType : k = books[s]
  BY DEF TypeOK
<1>3. PICK n \in BookType : n = books'[s]
  OBVIOUS
<1>4. PICK bs \in SUBSET Bricks : bs = InventoryOf[s]
  BY PricesAssumption
<1>5. PICK taken : taken = TakenOf(s)
  OBVIOUS
<1>6. TakenOf(s)' = taken
  BY <1>5 DEF TakenOf, Placed
<1>7. Tied(n, bs, taken, counted)
  BY <1>1, <1>2, <1>3, <1>4, <1>5, TiedSame
<1>8. Tied(n, bs, TakenOf(s)', counted)
  BY <1>6, <1>7
<1> QED BY <1>3, <1>4, <1>8 DEF SetTied, CanTie, Tied

\* The steps that count.
LEMMA InventoryTakeTied ==
  ASSUME TypeOK, NEW s \in Sets, BookOK(s), SetTied(s), NEW b \in Bricks, InventoryTake(s, b)
  PROVE  SetTied(s)'
<1>1. /\ books[s].where[b] = "read" /\ ear' = ear
      /\ books'[s] = TakeBrick(books[s], b)
  BY DEF InventoryTake, TypeOK
<1>2. PICK k \in BookType : k = books[s]
  BY DEF TypeOK
<1>3. PICK n : n = TakeBrick(k, b) /\ n = books'[s]
  BY <1>1, <1>2
<1>4. PICK bs \in SUBSET Bricks : bs = InventoryOf[s]
  BY PricesAssumption
<1>5. b \in bs /\ ear[s] = "writer"
  BY <1>1, <1>4 DEF BookOK, PlacesOK
<1>6. PICK counted : Tied(k, bs, Placed(k, bs), counted)
  BY <1>2, <1>4, <1>5 DEF SetTied, CanTie, TakenOf
<1>7. CanTie(n, bs, Placed(n, bs))
  BY <1>1, <1>2, <1>3, <1>5, <1>6, TakeTied
<1>8. TakenOf(s)' = Placed(n, bs)
  BY <1>1, <1>3, <1>4, <1>5 DEF TakenOf, Placed
<1>9. CanTie(n, bs, TakenOf(s)')
  BY <1>7, <1>8
<1> QED BY <1>3, <1>4, <1>9 DEF SetTied, CanTie, Tied

\* A brick of a cached inventory is looked at.
LEMMA CheckBrickTied ==
  ASSUME TypeOK, NEW s \in Sets, SetTied(s), NEW b \in Bricks, CheckBrick(s, b)
  PROVE  SetTied(s)'
<1>1. PICK p \in Price : p = IF b \in Custom THEN None ELSE Entry(ElementOf[b], LocaleOf[s])
  BY EntryTyped DEF Price
<1>2. PICK x \in {"final", "missing"} : x = IF b \in Custom \/ p # None THEN "final" ELSE "missing"
  OBVIOUS
<1>3. PICK k \in BookType : k = books[s]
  BY DEF TypeOK
<1>4. PICK n : n = AddFinalBrickData([k EXCEPT !.price[b] = p, !.where[b] = x], b)
  OBVIOUS
<1>5. /\ ear[s] = "cached" /\ b \in InventoryOf[s] /\ k.where[b] = "absent" /\ ear' = ear
      /\ books'[s] = n
  BY <1>1, <1>2, <1>3, <1>4 DEF CheckBrick, TypeOK
<1>6. PICK bs \in SUBSET Bricks : bs = InventoryOf[s]
  BY PricesAssumption
<1>7. PICK counted : Tied(k, bs, bs, counted)
  BY <1>3, <1>5, <1>6 DEF SetTied, CanTie, TakenOf
<1>8. CanTie(n, bs, bs)
  <2>1. p # None => x = "final"
    BY <1>2
  <2> QED BY <1>4, <1>5, <1>6, <1>7, <2>1, CheckTied
<1>9. TakenOf(s)' = bs
  BY <1>5, <1>6 DEF TakenOf
<1>10. CanTie(n, bs, TakenOf(s)')
  BY <1>8, <1>9
<1> QED BY <1>5, <1>6, <1>10 DEF SetTied, CanTie, Tied

\* A batch of bricks comes back from its job.
LEMMA DeliverSetTied ==
  ASSUME TypeOK, JobsInv, NEW s \in Sets, NEW d \in Designs, BookOK(s), SetTied(s), Deliver(s, d)
  PROVE  SetTied(s)'
<1>1. PICK j \in JobType : j = jobs[s][d] /\ JobOK(s, d, j)
  BY JobNow
<1>2. PICK k \in BookType : k = books[s]
  BY DEF TypeOK
<1>3. PICK g : g = j.group
  OBVIOUS
<1>4. PICK p \in [Bricks -> Price] : p = j.price
  BY DEF JobType
<1>5. PICK added \in Countable(k.missingParts, Priced(p, g)) :
         books' = [books EXCEPT ![s] = TakeBricks(k, g, p, added)]
  BY <1>1, <1>2, <1>3, <1>4 DEF Deliver
<1>6. PICK bs \in SUBSET Bricks : bs = InventoryOf[s]
  BY PricesAssumption
<1>7. \A b \in g : b \in bs /\ k.where[b] = "missing"
  BY <1>1, <1>2, <1>3, <1>6 DEF JobOK, GroupOK, BookOK, PhaseOK
<1>8. PICK taken \in SUBSET bs : /\ taken = TakenOf(s) /\ FinalOf(k, bs) \subseteq taken
                                 /\ g \in SUBSET taken
  <2>1. TakenOf(s) \in SUBSET bs /\ FinalOf(k, bs) \subseteq TakenOf(s)
    BY <1>2, <1>6, TakenTyped
  <2>2. g \subseteq TakenOf(s)
    BY <1>2, <1>6, <1>7 DEF TakenOf, Placed
  <2> QED BY <2>1, <2>2
<1>9. PICK counted : Tied(k, bs, taken, counted)
  BY <1>2, <1>6, <1>8 DEF SetTied, CanTie
<1>10. PICK n : n = TakeBricks(k, g, p, added) /\ n = books'[s]
  BY <1>5 DEF TypeOK
<1>11. CanTie(n, bs, taken)
  BY <1>7, <1>8, <1>9, <1>10, DeliverTied
<1>12. TakenOf(s)' = taken
  <2>1. g \in SUBSET Bricks /\ ear' = ear
    BY <1>6, <1>7 DEF Deliver
  <2>2. \A b \in Bricks : n.where[b] = IF b \notin g THEN k.where[b]
              ELSE IF b \in Custom \/ HasValidPrice(p[b]) THEN "final" ELSE "missing"
    <3>1. BatchTaken(n, k, g, p, added)
      BY <1>10, <2>1, TakeBricksFacts
    <3> QED BY <3>1 DEF BatchTaken
  <2>3. \A b \in bs : n.where[b] \in {"missing", "final"} <=> k.where[b] \in {"missing", "final"}
    BY <1>6, <1>7, <2>2
  <2> QED BY <1>2, <1>6, <1>8, <1>10, <2>1, <2>3 DEF TakenOf, Placed
<1>13. CanTie(n, bs, TakenOf(s)')
  BY <1>11, <1>12
<1> QED BY <1>6, <1>10, <1>13 DEF SetTied, CanTie, Tied

\* Every step keeps the totals of every runtime set.
LEMMA TiedStep ==
  ASSUME PricesInv, PricesInv', BooksInv, TiedInv, [Next]_vars
  PROVE  TiedInv'
<1>0. /\ TypeOK /\ JobsInv /\ (\A q \in Sets : BookOK(q)) /\ \A q \in Sets : books'[q] \in BookType
      /\ \A q \in Sets : ~Listener(q) => SetTied(q)
  BY DEF PricesInv, BooksInv, TiedInv, TypeOK
<1>1. ASSUME NEW q \in Sets, ~Listener(q), books'[q] = books[q], ear'[q] = ear[q]
      PROVE  SetTied(q)'
  BY <1>0, <1>1, SetStaysTied
<1>2. CASE UNCHANGED vars
  BY <1>1, <1>2 DEF vars, TiedInv, Listener
<1>3. CASE Next
  <2>1. PICK s \in running :
           \/ \E b \in Bricks : \/ InventoryRead(s, b) \/ InventoryTake(s, b)
                                \/ InventoryBroadcast(s, b) \/ ListenerHear(s, b)
                                \/ CheckBrick(s, b)
           \/ ListenerRegister(s) \/ ListenerSnapshot(s) \/ ListenerReturn(s)
           \/ StartPrices(s) \/ PricesEnd(s)
           \/ \E d \in Designs : JobStep(s, d)
    BY <1>3 DEF Next
  <2>2. s \in Sets
    BY <1>0, <2>1 DEF TypeOK
  <2> SUFFICES /\ ~Listener(s) => SetTied(s)'
               /\ \A q \in Sets \ {s} : books'[q] = books[q] /\ ear'[q] = ear[q]
    BY <1>1 DEF TiedInv, Listener
  <2>3. CASE \E b \in Bricks : InventoryRead(s, b)
    <3>1. PICK b \in Bricks : InventoryRead(s, b)
      BY <2>3
    <3>2. /\ books[s].where[b] = "absent" /\ ear' = ear
          /\ \A q \in Sets \ {s} : books'[q] = books[q]
      BY <1>0, <3>1 DEF InventoryRead, TypeOK
    <3>3. /\ books'[s].total = books[s].total /\ books'[s].missingParts = books[s].missingParts
          /\ \A c \in Bricks : /\ books'[s].where[c] = IF c = b THEN "read" ELSE books[s].where[c]
                               /\ c # b => books'[s].price[c] = books[s].price[c]
      BY <1>0, <2>2, <3>1 DEF InventoryRead, TypeOK, BookType
    <3>4. \A c \in InventoryOf[s] : c \in Bricks
      BY <2>2, BookFinite
    <3>5. ~Listener(s) => SetTied(s)'
      BY <1>0, <2>2, <3>2, <3>3, <3>4, SetStaysTied
    <3> QED BY <3>2, <3>5
  <2>4. CASE \E b \in Bricks : InventoryTake(s, b)
    <3>1. PICK b \in Bricks : InventoryTake(s, b)
      BY <2>4
    <3>2. ~Listener(s) => SetTied(s)'
      BY <1>0, <2>2, <3>1, InventoryTakeTied
    <3> QED BY <1>0, <3>1, <3>2 DEF InventoryTake, TypeOK
  <2>5. CASE \E b \in Bricks : InventoryBroadcast(s, b)
    <3>1. books' = books /\ ear' = ear
      BY <2>5 DEF InventoryBroadcast
    <3> QED BY <1>1, <2>2, <3>1
  <2>6. CASE \E b \in Bricks : CheckBrick(s, b)
    <3>1. PICK b \in Bricks : CheckBrick(s, b)
      BY <2>6
    <3>2. ~Listener(s) => SetTied(s)'
      BY <1>0, <2>2, <3>1, CheckBrickTied
    <3> QED BY <1>0, <3>1, <3>2 DEF CheckBrick, TypeOK
  <2>7. CASE \/ ListenerRegister(s) \/ ListenerSnapshot(s) \/ ListenerReturn(s)
             \/ \E b \in Bricks : ListenerHear(s, b)
    <3>1. ear[s] \in {"out", "registered", "listening"}
      BY <2>7 DEF ListenerRegister, ListenerSnapshot, ListenerReturn, ListenerHear
    <3>2. Listener(s)
      BY <1>0, <2>2, <3>1 DEF BookOK, PlacesOK
    <3> QED BY <1>0, <2>7, <3>2
            DEF ListenerRegister, ListenerSnapshot, ListenerReturn, ListenerHear, TypeOK
  <2>8. CASE StartPrices(s)
    <3> DEFINE n == Cardinality(Final(s))
    <3>0. books' = [books EXCEPT ![s].phase = "prices", ![s].done = n] /\ ear' = ear
      BY <2>8 DEF StartPrices
    <3> HIDE DEF n
    <3>1. ear' = ear /\ \A q \in Sets \ {s} : books'[q] = books[q]
      BY <1>0, <3>0 DEF TypeOK
    <3>2. /\ books'[s].total = books[s].total /\ books'[s].missingParts = books[s].missingParts
          /\ books'[s].where = books[s].where /\ books'[s].price = books[s].price
      BY <1>0, <2>2, <3>0 DEF TypeOK, BookType
    <3>3. ~Listener(s) => SetTied(s)'
      BY <1>0, <2>2, <3>1, <3>2, SetStaysTied
    <3> QED BY <3>1, <3>3
  <2>9. CASE PricesEnd(s)
    <3>1. /\ ear' = ear /\ \A q \in Sets \ {s} : books'[q] = books[q]
      BY <1>0, <2>9 DEF PricesEnd, TypeOK
    <3>2. /\ books'[s].total = books[s].total /\ books'[s].missingParts = books[s].missingParts
          /\ books'[s].where = books[s].where /\ books'[s].price = books[s].price
      BY <1>0, <2>2, <2>9 DEF PricesEnd, TypeOK, BookType
    <3>3. ~Listener(s) => SetTied(s)'
      BY <1>0, <2>2, <3>1, <3>2, SetStaysTied
    <3> QED BY <3>1, <3>3
  <2>10. CASE \E d \in Designs : JobStep(s, d)
    <3>1. PICK d \in Designs : JobStep(s, d)
      BY <2>10
    <3>2. ear' = ear
      BY <2>2, <3>1, JobStepFacts
    <3>3. CASE Deliver(s, d)
      <4>1. ~Listener(s) => SetTied(s)'
        BY <1>0, <2>2, <3>3, DeliverSetTied
      <4>2. \A q \in Sets \ {s} : books'[q] = books[q]
        BY <1>0, <3>3 DEF Deliver, TypeOK
      <4> QED BY <3>2, <4>1, <4>2
    <3>4. CASE books' = books
      BY <1>1, <2>2, <3>2, <3>4
    <3> QED BY <2>2, <3>1, <3>3, <3>4, JobStepBooks
  <2> QED BY <2>1, <2>3, <2>4, <2>5, <2>6, <2>7, <2>8, <2>9, <2>10
<1> QED BY <1>2, <1>3

\* At first the sums are zero, or every brick of a cached inventory counts as missing.
LEMMA TiedInit ==
  ASSUME Init PROVE TiedInv
<1> SUFFICES ASSUME NEW s \in Sets PROVE Tied(books[s], InventoryOf[s], TakenOf(s), {})
  BY DEF TiedInv, SetTied, CanTie
<1>1. \A b \in Bricks : books[s].where[b] = "absent"
  BY DEF Init, EmptyBook
<1>2. /\ books[s].total = 0
      /\ books[s].missingParts = IF ear[s] = "cached" THEN Cardinality(InventoryOf[s]) ELSE 0
  BY DEF Init, EmptyBook
<1>3. FinalOf(books[s], InventoryOf[s]) = {} /\ Placed(books[s], InventoryOf[s]) = {}
  BY <1>1, BookFinite DEF FinalOf, Placed
<1>4. NotFoundOf(books[s], InventoryOf[s]) = {} /\ PricedOf(books[s], InventoryOf[s]) = {}
  BY <1>3 DEF NotFoundOf, PricedOf, Priced
<1>5. Cents(books[s].price, {}) = 0 /\ Cardinality({}) = 0 /\ Cardinality(InventoryOf[s]) \in Nat
  BY CentsEmpty, BookFinite, FS_EmptySet
<1>6. TakenOf(s) = IF ear[s] = "cached" THEN InventoryOf[s] ELSE {}
  BY <1>3 DEF TakenOf
<1>7. /\ (TakenOf(s) \ {}) \ {} = TakenOf(s) /\ TakenOf(s) \ {} = TakenOf(s) /\ {} \ {} = {}
  OBVIOUS
<1>8. Cardinality(TakenOf(s)) = books[s].missingParts /\ books[s].missingParts \in Nat
  BY <1>2, <1>5, <1>6
<1> QED BY <1>2, <1>4, <1>5, <1>7, <1>8 DEF Tied

\* Each brick of a runtime set is counted once, and the writer's total and missing
\* parts stay tied to its final and missing bricks, although the missing parts are
\* counted up and down by different handlers and AddFinalBrickData drops a price at
\* zero (batchHandlerBricksProgress, checkSetDataValidity, set/external.go).
THEOREM BricksCountedOnce == Spec => []CountedOnce
<1>1. Init => TiedInv
  BY TiedInit
<1>2. PricesInv /\ PricesInv' /\ BooksInv /\ TiedInv /\ [Next]_vars => TiedInv'
  BY TiedStep
<1>3. ASSUME PricesInv, BooksInv, TiedInv PROVE CountedOnce
  <2>1. EachBrickOnce
    BY <1>3, BooksEachOnce
  <2>2. ASSUME NEW s \in Sets, ~Listener(s)
        PROVE  LET taken == IF ear[s] = "cached" THEN InventoryOf[s] ELSE Missing(s) \cup Final(s)
                   notFound == {b \in Final(s) : IsNotFound(books[s].price[b])}
                   priced == Priced(books[s].price, Final(s))
               IN  \E counted \in SUBSET priced :
                      /\ books[s].total = Cents(books[s].price, counted)
                      /\ Cardinality(priced \ counted) <= 1
                      /\ books[s].missingParts <= Cardinality(taken \ counted)
                      /\ books[s].missingParts >= Cardinality((taken \ counted) \ notFound)
    <3>1. PICK counted : Tied(books[s], InventoryOf[s], TakenOf(s), counted)
      BY <1>3, <2>2 DEF TiedInv, SetTied, CanTie
    <3>2. FinalOf(books[s], InventoryOf[s]) = Final(s)
      BY DEF FinalOf, Final
    <3>3. /\ NotFoundOf(books[s], InventoryOf[s]) = {b \in Final(s) : IsNotFound(books[s].price[b])}
          /\ PricedOf(books[s], InventoryOf[s]) = Priced(books[s].price, Final(s))
      BY <3>2 DEF NotFoundOf, PricedOf
    <3>4. TakenOf(s) = IF ear[s] = "cached" THEN InventoryOf[s] ELSE Missing(s) \cup Final(s)
      BY DEF TakenOf, Placed, Missing, Final
    <3> QED BY <3>1, <3>3, <3>4 DEF Tied
  <2>3. TotalsTied
    BY <2>2 DEF TotalsTied
  <2> QED BY <2>1, <2>3 DEF CountedOnce
<1>4. PricesInv /\ BooksInv /\ TiedInv => CountedOnce
  BY <1>3
<1> QED BY <1>1, <1>2, <1>4, BooksInvariant, PTL DEF Spec
=============================================================================
