------------------------------ MODULE SearchProofs ------------------------------
(***************************************************************************)
(* The two sides of a search: the registry of those that run, and the      *)
(* catalogue of sets they fill, for any number of requests, queries and    *)
(* searches.                                                               *)
(*                                                                         *)
(* RegistrySound is not inductive: a request must not start a runtime      *)
(* whose name is in use already (Fresh), a loop that ends must have a call *)
(* of stop() left (StopsLeft), and whatever is registered must be under a  *)
(* query, so that its removal finds it there (Keyed).                      *)
(*                                                                         *)
(* The catalogue stays sound whatever fails, whichever leases end and      *)
(* whoever crashes.  What makes it so is not the locks, which may be lost, *)
(* but the order of each search's own writes: a core is stored bare by the *)
(* search that made up its id, before anybody else can know the id, and is *)
(* only ever replaced by itself with its details (SearchOK).               *)
(***************************************************************************)
EXTENDS SearchRegistry, SetCatalog, TLAPS

-----------------------------------------------------------------------------
(* The registry of searches *)

Fresh == \A r \in Requests : stage[r] \in {"idle", "searching"} => loop[r] = "none"

StopsLeft == \A i \in Requests : loop[i] = "stopping" => stops[i] \in {1, 2}

Keyed == \A i \in runtimes : key[i] \in Queries

RegistryInv == RegistrySound /\ Fresh /\ StopsLeft /\ Keyed

\* A loop that has neither ended nor begun to stop, of a search that is not over.
Runs(i) == loop[i] \in {"started", "select"} /\ IsAlive(i)

-----------------------------------------------------------------------------
\* Initially nothing is registered (searchruntime.NewHandler).
LEMMA RegistryInvInit == RegistryInit => RegistryInv
BY SearchAssumption
   DEF RegistryInit, RegistryInv, RegistrySound, RegistryTypeOK, Fresh, StopsLeft, Keyed, IsAlive

\* What changes neither the registry nor a loop, its status, or a request's
\* right to start a runtime, keeps the invariant.
LEMMA RegistryInvFrame ==
  ASSUME RegistryInv, RegistryTypeOK', UNCHANGED <<registry, loops>>,
         \A r \in Requests : stage'[r] \in {"idle", "searching"} => stage[r] \in {"idle", "searching"}
  PROVE  RegistryInv'
BY DEF RegistryInv, RegistrySound, Fresh, StopsLeft, Keyed, IsAlive, registry, loops

\* The end of one runtime, first or repeated, leaves the others registered
\* (removeRuntimeLocked).
LEMMA RemovedKeeps ==
  ASSUME RegistryInv, NEW i \in Requests, Removed(i), loop[i] = "stopping", UNCHANGED key
  PROVE  /\ runtimes' = runtimes \ {i}
         /\ byKey' \in [Queries -> Requests \cup {Absent}]
         /\ \A q \in Queries : byKey'[q] # Absent =>
               byKey'[q] \in runtimes' /\ key'[byKey'[q]] = q
         /\ \A j \in Requests : Runs(j) => j \in runtimes' /\ byKey'[key[j]] = j
<1>1. CASE i \in runtimes
  <2>1. /\ runtimes' = runtimes \ {i}
        /\ byKey' = [byKey EXCEPT ![key[i]] = IF @ = i THEN Absent ELSE @]
    BY <1>1 DEF Removed
  <2>2. key[i] \in Queries /\ byKey \in [Queries -> Requests \cup {Absent}]
    BY <1>1 DEF RegistryInv, Keyed, RegistrySound, RegistryTypeOK
  <2>3. \A q \in Queries : byKey'[q] = IF q = key[i] /\ byKey[q] = i THEN Absent ELSE byKey[q]
    BY <2>1, <2>2
  <2>4. \A q \in Queries : byKey'[q] # Absent => byKey'[q] \in runtimes' /\ key'[byKey'[q]] = q
    BY <2>1, <2>3 DEF RegistryInv, RegistrySound
  <2>5. \A j \in Requests : Runs(j) => j \in runtimes' /\ byKey'[key[j]] = j
    <3> SUFFICES ASSUME NEW j \in Requests, Runs(j)
                 PROVE  j \in runtimes' /\ byKey'[key[j]] = j
      OBVIOUS
    <3>1. j \in runtimes /\ byKey[key[j]] = j /\ j # i
      BY DEF Runs, RegistryInv, RegistrySound
    <3>2. key[j] \in Queries
      BY <3>1 DEF RegistryInv, Keyed
    <3> QED BY <3>1, <3>2, <2>1, <2>3
  <2>6. byKey' \in [Queries -> Requests \cup {Absent}]
    BY <2>1, <2>2
  <2> QED BY <2>1, <2>4, <2>5, <2>6
<1>2. CASE i \notin runtimes
  BY <1>2 DEF Removed, RegistryInv, RegistrySound, RegistryTypeOK, Runs
<1> QED BY <1>1, <1>2

\* Every step keeps the invariant, whichever request replaces a runtime that is
\* over and however late the end of that one comes.
LEMMA RegistryInvStep == RegistryInv /\ [RegistryNext]_registryVars => RegistryInv'
<1> SUFFICES ASSUME RegistryInv, [RegistryNext]_registryVars PROVE RegistryInv'
  OBVIOUS
<1> USE SearchAssumption
<1>0. RegistryTypeOK
  BY DEF RegistryInv, RegistrySound
<1>1. ASSUME NEW r \in Requests, Ask(r) \/ AnswerAtOnce(r) \/ Open(r)
      PROVE  RegistryInv'
  <2>1. UNCHANGED <<registry, loops, process, given>>
    BY <1>1 DEF Ask, AnswerAtOnce, Open
  <2>2. RegistryTypeOK'
    BY <1>0, <1>1 DEF Ask, AnswerAtOnce, Open, RegistryTypeOK, registry, loops
  <2>3. \A s \in Requests : stage'[s] \in {"idle", "searching"} => stage[s] \in {"idle", "searching"}
    BY <1>0, <1>1 DEF Ask, AnswerAtOnce, Open, RegistryTypeOK
  <2> QED BY <2>1, <2>2, <2>3, RegistryInvFrame
<1>2. ASSUME NEW r \in Requests, NEW q \in Queries, RunSearch(r, q)
      PROVE  RegistryInv'
  <2> DEFINE i == byKey[q]
  <2>1. /\ stage[r] = "searching" /\ stage' = [stage EXCEPT ![r] = "answered"]
        /\ UNCHANGED <<main, status, stops>>
    BY <1>2 DEF RunSearch, loops
  <2>2. CASE i # Absent /\ IsAlive(i)
    <3>1. UNCHANGED <<registry, loops, process>> /\ given' = [given EXCEPT ![r] = i]
      BY <1>2, <2>2 DEF RunSearch
    <3>2. RegistryTypeOK'
      BY <1>0, <2>1, <2>2, <3>1 DEF RegistryTypeOK, registry, loops
    <3>3. \A s \in Requests : stage'[s] \in {"idle", "searching"} => stage[s] \in {"idle", "searching"}
      BY <1>0, <2>1 DEF RegistryTypeOK
    <3> QED BY <3>1, <3>2, <3>3, RegistryInvFrame
  <2>3. CASE ~(i # Absent /\ IsAlive(i))
    <3>1. /\ runtimes' = (runtimes \ {i}) \cup {r}
          /\ byKey' = [byKey EXCEPT ![q] = r]
          /\ key' = [key EXCEPT ![r] = q]
          /\ loop' = [loop EXCEPT ![r] = "started"]
          /\ process' = [process EXCEPT ![r] = "working"]
          /\ given' = [given EXCEPT ![r] = r]
      BY <1>2, <2>3 DEF RunSearch, Replaced
    <3>2. RegistryTypeOK'
      BY <1>0, <2>1, <3>1 DEF RegistryTypeOK
    <3>3. loop[r] = "none" /\ r \notin runtimes
      BY <2>1 DEF RegistryInv, Fresh, RegistrySound
    <3>4. \A j \in Requests : Runs(j)' => j \in runtimes' /\ byKey'[key'[j]] = j
      <4> SUFFICES ASSUME NEW j \in Requests, Runs(j)'
                   PROVE  j \in runtimes' /\ byKey'[key'[j]] = j
        OBVIOUS
      <4>1. CASE j = r
        BY <1>0, <3>1, <4>1 DEF RegistryTypeOK
      <4>2. CASE j # r
        <5>1. Runs(j) /\ key'[j] = key[j]
          BY <1>0, <2>1, <3>1, <4>2 DEF Runs, IsAlive, RegistryTypeOK
        <5>2. j \in runtimes /\ byKey[key[j]] = j
          BY <5>1 DEF Runs, RegistryInv, RegistrySound
        <5>3. key[j] \in Queries /\ key[j] # q /\ j # i
          BY <2>3, <5>1, <5>2 DEF Runs, RegistryInv, Keyed, RegistrySound, RegistryTypeOK
        <5> QED BY <1>0, <3>1, <5>1, <5>2, <5>3 DEF RegistryTypeOK
      <4> QED BY <4>1, <4>2
    <3>5. \A j \in runtimes' : loop'[j] \notin {"none", "ended"} /\ key'[j] \in Queries
      BY <1>0, <3>1 DEF RegistryTypeOK, RegistryInv, RegistrySound, Keyed
    <3>6. \A p \in Queries : byKey'[p] # Absent => byKey'[p] \in runtimes' /\ key'[byKey'[p]] = p
      BY <1>0, <3>1, <3>3 DEF RegistryTypeOK, RegistryInv, RegistrySound
    <3>7. Fresh' /\ StopsLeft'
      BY <1>0, <2>1, <3>1 DEF RegistryTypeOK, RegistryInv, Fresh, StopsLeft
    <3> QED BY <3>2, <3>4, <3>5, <3>6, <3>7 DEF RegistryInv, RegistrySound, Keyed, Runs
  <2> QED BY <2>2, <2>3
<1>3. ASSUME NEW i \in Requests, Begin(i) PROVE RegistryInv'
  <2>1. RegistryTypeOK'
    BY <1>0, <1>3 DEF Begin, Loop, RegistryTypeOK, registry
  <2> QED BY <1>0, <1>3, <2>1
          DEF Begin, Loop, registry, RegistryTypeOK, RegistryInv, RegistrySound, Fresh,
              StopsLeft, Keyed, IsAlive
<1>4. ASSUME NEW i \in Requests, Signal(i) PROVE RegistryInv'
  <2>1. RegistryTypeOK'
    BY <1>0, <1>4 DEF Signal, RegistryTypeOK, registry, loops
  <2> QED BY <1>4, <2>1, RegistryInvFrame DEF Signal
<1>5. ASSUME NEW i \in Requests, HandleLast(i) \/ TimeOut(i) PROVE RegistryInv'
  <2>1. RegistryTypeOK'
    BY <1>0, <1>5 DEF HandleLast, TimeOut, Loop, RegistryTypeOK, registry
  <2>2. /\ UNCHANGED <<registry, stage>> /\ loop[i] = "select"
        /\ loop' = [loop EXCEPT ![i] = "stopping"]
        /\ \E n \in {1, 2} : stops' = [stops EXCEPT ![i] = n]
        /\ \A j \in Requests \ {i} : status'[j] = status[j]
    BY <1>0, <1>5 DEF HandleLast, TimeOut, Loop, RegistryTypeOK
  <2> QED BY <1>0, <2>1, <2>2
          DEF registry, RegistryTypeOK, RegistryInv, RegistrySound, Fresh, StopsLeft, Keyed, IsAlive
<1>6. ASSUME NEW i \in Requests, Stop(i) PROVE RegistryInv'
  <2>1. /\ loop[i] = "stopping" /\ Removed(i) /\ stops[i] \in {1, 2}
        /\ loop' = [loop EXCEPT ![i] = IF stops[i] = 1 THEN "ended" ELSE "stopping"]
        /\ stops' = [stops EXCEPT ![i] = stops[i] - 1]
        /\ UNCHANGED <<key, status, process, stage, given, main>>
    BY <1>6 DEF Stop, Loop, RegistryInv, StopsLeft
  <2>2. /\ runtimes' = runtimes \ {i}
        /\ byKey' \in [Queries -> Requests \cup {Absent}]
        /\ \A q \in Queries : byKey'[q] # Absent =>
               byKey'[q] \in runtimes' /\ key'[byKey'[q]] = q
        /\ \A j \in Requests : Runs(j) => j \in runtimes' /\ byKey'[key[j]] = j
    BY <2>1, RemovedKeeps
  <2>3. RegistryTypeOK'
    BY <1>0, <2>1, <2>2 DEF RegistryTypeOK
  <2>4. \A j \in Requests : Runs(j)' => j \in runtimes' /\ byKey'[key'[j]] = j
    BY <1>0, <2>1, <2>2 DEF RegistryTypeOK, Runs, IsAlive
  <2>5. \A j \in runtimes' : loop'[j] \notin {"none", "ended"} /\ key'[j] \in Queries
    BY <1>0, <2>1, <2>2 DEF RegistryTypeOK, RegistryInv, RegistrySound, Keyed
  <2>6. Fresh' /\ StopsLeft'
    BY <1>0, <2>1 DEF RegistryTypeOK, RegistryInv, Fresh, StopsLeft
  <2> QED BY <2>2, <2>3, <2>4, <2>5, <2>6 DEF RegistryInv, RegistrySound, Keyed, Runs
<1>7. ASSUME Interrupt \/ ForceShutdown \/ CloseServer \/ CloseSets \/ Exit
      PROVE  RegistryInv'
  <2>1. RegistryTypeOK' /\ UNCHANGED <<registry, loops, stage>>
    BY <1>0, <1>7
       DEF Interrupt, ForceShutdown, CloseServer, CloseSets, Exit, Main, RegistryTypeOK,
           registry, loops
  <2> QED BY <2>1, RegistryInvFrame
<1>8. ASSUME Shutdown PROVE RegistryInv'
  <2>1. PICK told \in SUBSET {i \in runtimes : loop[i] = "select"} :
          /\ loop' = [i \in Requests |-> IF i \in told THEN "stopping" ELSE loop[i]]
          /\ stops' = [i \in Requests |-> IF i \in told THEN 2 ELSE stops[i]]
    BY <1>8 DEF Shutdown
  <2>2. UNCHANGED <<registry, status, process, stage, given>> /\ main' = "waiting"
    BY <1>8 DEF Shutdown, Main
  <2>3. RegistryTypeOK'
    BY <1>0, <2>1, <2>2 DEF RegistryTypeOK, registry
  <2> QED BY <1>0, <2>1, <2>2, <2>3
          DEF registry, RegistryTypeOK, RegistryInv, RegistrySound, Fresh, StopsLeft, Keyed, IsAlive
<1>9. CASE UNCHANGED registryVars
  BY <1>0, <1>9, RegistryInvFrame DEF registryVars, registry, loops, RegistryTypeOK
<1> QED BY <1>1, <1>2, <1>3, <1>4, <1>5, <1>6, <1>7, <1>8, <1>9 DEF RegistryNext

-----------------------------------------------------------------------------
\* In every behaviour the invariant holds.
LEMMA RegistryInvAlways == RegistrySpec => []RegistryInv
BY RegistryInvInit, RegistryInvStep, PTL DEF RegistrySpec

\* A search that runs is found by its id and by its query, and what is found has
\* not ended (searchruntime/handler.go), for any number of requests and queries.
THEOREM SearchesFound == RegistrySpec => []RegistrySound
<1>1. RegistryInv => RegistrySound
  BY DEF RegistryInv
<1> QED BY <1>1, RegistryInvAlways, PTL

\* Of one query and locale at most one search runs, however the requests for it, its
\* end and the ends of stale ones interleave ("RunSearch creates (or reuses) a
\* Runtime for the given query", searchruntime/handler.go:49).
OneSearchPerQuery ==
    \A i, j \in Requests : Runs(i) /\ Runs(j) /\ key[i] = key[j] => i = j

THEOREM OneSearch == RegistrySpec => []OneSearchPerQuery
<1>1. RegistryInv => OneSearchPerQuery
  BY DEF RegistryInv, RegistrySound, OneSearchPerQuery, Runs
<1> QED BY <1>1, RegistryInvAlways, PTL

-----------------------------------------------------------------------------
(* The catalogue of sets *)

\* Nothing says yet that the search of record s has stored a core of its own.
IsNew(s) ==
    \/ s.pc \in {"get", "mget", "ttl", "delete"}
    \/ s.pc \in {"lock", "write"} /\ s.next = "details"

\* The search of record s has seen or stored the core of its set, ...
HasCore(s) ==
    \/ s.pc \in {"ttl", "delete", "details", "lego", "slug", "answered"}
    \/ s.pc \in {"lock", "write", "unlock"} /\ s.next \in {"lego", "slug", "answered"}
    \/ s.pc = "unlock" /\ s.next = "details"

\* ... and has stored it with its details.
HasDetails(s) ==
    \/ s.pc \in {"lego", "slug", "answered"}
    \/ s.pc \in {"lock", "write", "unlock"} /\ s.next \in {"slug", "answered"}
    \/ s.pc = "unlock" /\ s.next = "lego"
    \/ s.pc = "ttl" /\ s.cached

\* What a locked write of search p has left to do, and where it goes then.
Writes(p, s) ==
    \/ /\ s.next = "details" /\ s.id = p
       /\ \/ s.script = <<Command(BricklinkKey, p), Command(CoreKey(p), "bare")>>
          \/ s.script = <<Command(CoreKey(p), "bare")>>
    \/ s.next = "lego" /\ s.script = <<Command(CoreKey(s.id), "detailed")>>
    \/ /\ s.next = "slug"
       /\ \/ s.script = <<Command(CoreKey(s.id), "detailed"), Command(LocaleKey(s.id), "stored")>>
          \/ s.script = <<Command(LocaleKey(s.id), "stored")>>
    \/ s.next = "answered" /\ s.script = <<Command(SlugKey, s.id)>>

SearchOK(p, s) ==
    /\ s.pc \in {"lock", "write"} => Writes(p, s) /\ s.lock \in Keys
    /\ s.pc = "unlock" => s.next # "get" /\ s.lock \in Keys
    /\ s.pc = "mget" => s.id \in Ids
    /\ IsNew(s) => redis[CoreKey(p)] = None
    /\ HasCore(s) => s.id \in Ids /\ redis[CoreKey(s.id)] # None
    /\ HasDetails(s) => redis[CoreKey(s.id)] = "detailed"

\* Each kind of key has values of its own, and a locale is stored after the
\* details of its core.
ValuesOK ==
    /\ redis[BricklinkKey] \in Ids \cup {None} /\ redis[SlugKey] \in Ids \cup {None}
    /\ \A i \in Ids : redis[CoreKey(i)] \in {None, "bare", "detailed"}
    /\ \A i \in Ids : redis[LocaleKey(i)] # None => redis[CoreKey(i)] = "detailed"

CatalogInv ==
    /\ TypeOK /\ ValuesOK /\ MappingHasCore /\ SlugOpensSet
    /\ \A p \in Searches : SearchOK(p, search[p])

-----------------------------------------------------------------------------
\* The keys of Redis are told apart (RedisBuildKey... of set/).
LEMMA KeyFacts ==
    /\ BricklinkKey \in Keys /\ SlugKey \in Keys /\ BricklinkKey # SlugKey
    /\ \A i \in Ids : CoreKey(i) \in Keys /\ LocaleKey(i) \in Keys
    /\ \A i \in Ids : /\ CoreKey(i) # BricklinkKey /\ CoreKey(i) # SlugKey
                      /\ LocaleKey(i) # BricklinkKey /\ LocaleKey(i) # SlugKey
    /\ \A i, j \in Ids : CoreKey(i) # LocaleKey(j)
    /\ \A i, j \in Ids : CoreKey(i) = CoreKey(j) => i = j
    /\ \A i, j \in Ids : LocaleKey(i) = LocaleKey(j) => i = j
<1>1. BricklinkKey \in Keys /\ SlugKey \in Keys
  BY DEF Keys
<1>2. \A i \in Ids : CoreKey(i) \in Keys /\ LocaleKey(i) \in Keys
  BY DEF Keys
<1>3. BricklinkKey # SlugKey
  BY DEF BricklinkKey, SlugKey
<1>4. \A i \in Ids : /\ CoreKey(i) # BricklinkKey /\ CoreKey(i) # SlugKey
                     /\ LocaleKey(i) # BricklinkKey /\ LocaleKey(i) # SlugKey
  BY DEF BricklinkKey, SlugKey, CoreKey, LocaleKey
<1>5. \A i, j \in Ids : CoreKey(i) # LocaleKey(j)
  BY DEF CoreKey, LocaleKey
<1>6. \A i, j \in Ids : CoreKey(i) = CoreKey(j) => i = j
  BY DEF CoreKey
<1>7. \A i, j \in Ids : LocaleKey(i) = LocaleKey(j) => i = j
  BY DEF LocaleKey
<1> QED BY <1>1, <1>2, <1>3, <1>4, <1>5, <1>6, <1>7

\* A pipeline's commands are done one after the other (redis.Transaction).
LEMMA ScriptFacts ==
  ASSUME NEW a, NEW b
  PROVE  /\ Len(<<a, b>>) = 2 /\ Tail(<<a, b>>) = <<b>> /\ <<a, b>>[1] = a
         /\ Len(<<a>>) = 1 /\ Tail(<<a>>) = <<>> /\ <<a>>[1] = a
OBVIOUS

\* Initially the catalogue has nothing of the set, or its core with its details.
LEMMA CatalogInvInit == Init => CatalogInv
<1> SUFFICES ASSUME Init PROVE CatalogInv
  OBVIOUS
<1>1. OldId \in Ids /\ OldId \in Values /\ None \in Values /\ "detailed" \in Values
      /\ "stored" \in Values
  BY DEF Ids, Values
<1>2. Empty \in [Keys -> Values]
  BY <1>1 DEF Empty
<1>3. /\ redis \in [Keys -> Values] /\ low \in BOOLEAN
      /\ redis[BricklinkKey] \in {OldId, None} /\ redis[SlugKey] \in {OldId, None}
      /\ redis[CoreKey(OldId)] \in {None, "detailed"}
      /\ redis[CoreKey(OldId)] = None => redis[BricklinkKey] = None /\ redis[SlugKey] = None
      /\ \A i \in Ids : i # OldId => redis[CoreKey(i)] = None /\ redis[LocaleKey(i)] = None
      /\ redis[CoreKey(OldId)] = None => redis[LocaleKey(OldId)] = None
  <2>1. CASE redis = Empty /\ low = FALSE
    <3>1. \A k \in Keys : redis[k] = None
      BY <2>1 DEF Empty
    <3> QED BY <1>2, <2>1, <3>1, KeyFacts DEF Ids
  <2>2. ASSUME NEW price \in {None, "stored"}, NEW slug \in {None, OldId}, low \in BOOLEAN,
               redis = [Empty EXCEPT ![BricklinkKey] = OldId, ![CoreKey(OldId)] = "detailed",
                                     ![LocaleKey(OldId)] = price, ![SlugKey] = slug]
        PROVE  /\ redis \in [Keys -> Values] /\ low \in BOOLEAN
               /\ redis[BricklinkKey] \in {OldId, None} /\ redis[SlugKey] \in {OldId, None}
               /\ redis[CoreKey(OldId)] = "detailed"
               /\ \A i \in Ids : i # OldId => /\ redis[CoreKey(i)] = None
                                             /\ redis[LocaleKey(i)] = None
    <3>1. redis \in [Keys -> Values] /\ low \in BOOLEAN
      BY <1>1, <1>2, <2>2, KeyFacts
    <3>2. /\ redis[BricklinkKey] = OldId /\ redis[SlugKey] = slug
          /\ redis[CoreKey(OldId)] = "detailed"
      BY <1>1, <1>2, <2>2, KeyFacts
    <3>3. \A i \in Ids : i # OldId => /\ redis[CoreKey(i)] = Empty[CoreKey(i)]
                                      /\ redis[LocaleKey(i)] = Empty[LocaleKey(i)]
      BY <1>1, <1>2, <2>2, KeyFacts
    <3>4. \A i \in Ids : Empty[CoreKey(i)] = None /\ Empty[LocaleKey(i)] = None
      BY KeyFacts DEF Empty
    <3> QED BY <3>1, <3>2, <3>3, <3>4
  <2> QED BY <2>1, <2>2, CatalogAssumption DEF Init
<1>4. /\ search = [p \in Searches |-> Idle] /\ locks = [k \in Keys |-> None]
      /\ faults = MaxFaults /\ lapses = MaxLapses /\ crashes = MaxCrashes
  BY DEF Init
<1>5. TypeOK
  <2>1. Idle \in SearchStates
    BY DEF Idle, SearchStates
  <2>2. faults \in 0..MaxFaults /\ lapses \in 0..MaxLapses /\ crashes \in 0..MaxCrashes
    BY <1>4, CatalogAssumption
  <2> QED BY <1>3, <1>4, <2>1, <2>2 DEF TypeOK
<1>6. ValuesOK
  BY <1>1, <1>3, CatalogAssumption DEF ValuesOK
<1>7. MappingHasCore /\ SlugOpensSet
  BY <1>3, CatalogAssumption DEF MappingHasCore, SlugOpensSet
<1>8. ASSUME NEW p \in Searches PROVE SearchOK(p, search[p])
  <2>1. search[p].pc = "get" /\ redis[CoreKey(p)] = None
    BY <1>3, <1>4, CatalogAssumption DEF Idle, Ids
  <2> QED BY <2>1 DEF SearchOK, IsNew, HasCore, HasDetails
<1> QED BY <1>5, <1>6, <1>7, <1>8 DEF CatalogInv

-----------------------------------------------------------------------------
\* What a step of search p may do to the cores of the catalogue: store its own,
\* or put the details to one that is there.
CoreSteps(p) ==
    \A i \in Ids :
        \/ redis'[CoreKey(i)] = redis[CoreKey(i)]
        \/ redis'[CoreKey(i)] = "detailed" /\ redis[CoreKey(i)] # None
        \/ redis'[CoreKey(i)] = "bare" /\ i = p /\ redis[CoreKey(i)] = None

\* Such a step disturbs no other search.
LEMMA OthersKeep ==
  ASSUME NEW p \in Searches, NEW q \in Searches, q # p, search'[q] = search[q],
         CoreSteps(p), SearchOK(q, search[q])
  PROVE  SearchOK(q, search[q])'
<1> DEFINE s == search[q]
<1>1. q \in Ids /\ q # p /\ "detailed" # None /\ "bare" # None
  BY CatalogAssumption DEF Ids
<1>2. IsNew(s) => redis'[CoreKey(q)] = None
  BY <1>1 DEF SearchOK, CoreSteps
<1>3. HasCore(s) => s.id \in Ids /\ redis'[CoreKey(s.id)] # None
  BY <1>1 DEF SearchOK, CoreSteps
<1>4. HasDetails(s) => redis'[CoreKey(s.id)] = "detailed"
  <2>1. HasDetails(s) => HasCore(s)
    BY DEF HasDetails, HasCore
  <2> QED BY <2>1, <1>1 DEF SearchOK, CoreSteps
<1>5. Keys' = Keys /\ Ids' = Ids
  BY DEF Keys, Ids
<1> QED BY <1>2, <1>3, <1>4, <1>5 DEF SearchOK, IsNew, HasCore, HasDetails, Writes, Command,
        CoreKey, LocaleKey, BricklinkKey, SlugKey

\* A step that leaves Redis alone: a transaction it cuts short takes one of the
\* bounds with it.
LEMMA RedisKept ==
  ASSUME CatalogInv, NEW p \in Searches, redis' = redis, TypeOK',
         \A q \in Searches : q # p => search'[q] = search[q],
         SearchOK(p, search[p])',
         \/ search[p].pc # "write" /\ faults' <= faults /\ crashes' <= crashes
         \/ faults' < faults \/ crashes' < crashes
  PROVE  CatalogInv'
<1>1. ValuesOK' /\ SlugOpensSet'
  BY DEF CatalogInv, ValuesOK, SlugOpensSet, Ids, CoreKey, LocaleKey, SlugKey, BricklinkKey
<1>2. ASSUME NEW q \in Searches PROVE SearchOK(q, search[q])'
  <2>1. CoreSteps(p)
    BY DEF CoreSteps
  <2>2. SearchOK(q, search[q])
    BY DEF CatalogInv
  <2> QED BY <2>1, <2>2, OthersKeep
<1>3. MappingHasCore'
  <2>1. /\ faults \in Nat /\ crashes \in Nat /\ faults <= MaxFaults /\ crashes <= MaxCrashes
        /\ faults' \in Nat /\ crashes' \in Nat
    BY CatalogAssumption DEF CatalogInv, TypeOK
  <2>2. CASE faults' < faults \/ crashes' < crashes
    BY <2>1, <2>2, CatalogAssumption DEF MappingHasCore, TypeOK
  <2>3. CASE search[p].pc # "write" /\ faults' <= faults /\ crashes' <= crashes
    BY <2>1, <2>3, CatalogAssumption DEF CatalogInv, MappingHasCore, CoreKey, BricklinkKey
  <2> QED BY <2>2, <2>3
<1> QED BY <1>1, <1>2, <1>3 DEF CatalogInv

\* What a step takes of the bounds on faults and crashes.
Spends ==
    faults' \in 0..MaxFaults /\ crashes' \in 0..MaxCrashes /\ faults' <= faults /\ crashes' <= crashes
SpendsOne == Spends /\ (faults' < faults \/ crashes' < crashes)

\* A failure, and a crash, takes one of its bound.
LEMMA SpendFacts ==
  ASSUME CatalogInv
  PROVE  /\ UNCHANGED <<faults, crashes>> => Spends
         /\ Fault /\ UNCHANGED crashes => SpendsOne
         /\ crashes > 0 /\ crashes' = crashes - 1 /\ UNCHANGED faults => SpendsOne
<1>1. /\ faults \in Nat /\ faults <= MaxFaults /\ crashes \in Nat /\ crashes <= MaxCrashes
      /\ MaxFaults \in Nat /\ MaxCrashes \in Nat
  BY CatalogAssumption DEF CatalogInv, TypeOK
<1>2. UNCHANGED <<faults, crashes>> => Spends
  BY <1>1 DEF Spends
<1>3. Fault /\ UNCHANGED crashes => SpendsOne
  BY <1>1 DEF Spends, SpendsOne, Fault
<1>4. crashes > 0 /\ crashes' = crashes - 1 /\ UNCHANGED faults => SpendsOne
  BY <1>1 DEF Spends, SpendsOne
<1> QED BY <1>2, <1>3, <1>4

\* A step of search p that goes on with the record r and leaves Redis alone.
Quiet(p, r) ==
    /\ search' = [search EXCEPT ![p] = r]
    /\ UNCHANGED <<redis, low, lapses>>
    /\ locks' \in [Keys -> Searches \cup {None}]

\* Such a step keeps the invariant, if it does not cut a transaction short for
\* nothing.
LEMMA QuietStep ==
  ASSUME CatalogInv, NEW p \in Searches, NEW r \in SearchStates, SearchOK(p, r), Quiet(p, r),
         (search[p].pc # "write" /\ Spends) \/ SpendsOne
  PROVE  CatalogInv'
<1>1. TypeOK'
  BY DEF CatalogInv, TypeOK, SearchStates, Keys, Ids, Values, BricklinkKey, SlugKey, CoreKey,
         LocaleKey, Quiet, Spends, SpendsOne
<1>2. search'[p] = r /\ \A q \in Searches : q # p => search'[q] = search[q]
  BY DEF CatalogInv, TypeOK, Quiet
<1>3. SearchOK(p, search[p])'
  BY <1>2 DEF SearchOK, IsNew, HasCore, HasDetails, Writes, Command, Keys, Ids, CoreKey,
         LocaleKey, BricklinkKey, SlugKey, Quiet
<1> QED BY <1>1, <1>2, <1>3, RedisKept DEF Quiet, Spends, SpendsOne

\* The record of a search, and what the invariant says of it.
LEMMA SearchFacts ==
  ASSUME CatalogInv, NEW p \in Searches
  PROVE  /\ search \in [Searches -> SearchStates] /\ search[p] \in SearchStates
         /\ SearchOK(p, search[p])
         /\ locks \in [Keys -> Searches \cup {None}]
BY DEF CatalogInv, TypeOK

\* Lock: the write is still to be done, or is given up.
LEMMA LockStep ==
  ASSUME CatalogInv, NEW p \in Searches, Lock(p)
  PROVE  CatalogInv'
<1> DEFINE s == search[p]
<1> USE SearchFacts, SpendFacts
<1>1. s.pc = "lock" /\ UNCHANGED <<redis, low, lapses, crashes>>
  BY DEF Lock
<1>2. CASE locks' = [locks EXCEPT ![s.lock] = p] /\ Goto(p, "write") /\ faults' = faults
  <2> DEFINE r == [s EXCEPT !.pc = "write"]
  <2>1. r \in SearchStates /\ SearchOK(p, r)
    BY <1>1, ZenonT(30) DEF SearchStates, SearchOK, IsNew, HasCore, HasDetails, Writes
  <2>2. Quiet(p, r)
    BY <1>1, <1>2 DEF Quiet, Goto
  <2>3. search[p].pc # "write" /\ Spends
    BY <1>1, <1>2
  <2> HIDE DEF r
  <2> QED BY <2>1, <2>2, <2>3, QuietStep
<1>3. ASSUME NEW pc \in {"answered", "failed"}, pc = "answered" => s.next = "answered",
             Goto(p, pc), UNCHANGED locks, UNCHANGED faults \/ Fault
      PROVE  CatalogInv'
  <2> DEFINE r == [s EXCEPT !.pc = pc]
  <2>1. r \in SearchStates /\ SearchOK(p, r)
    BY <1>1, <1>3, ZenonT(30) DEF SearchStates, SearchOK, IsNew, HasCore, HasDetails, Writes
  <2>2. Quiet(p, r)
    BY <1>1, <1>3 DEF Quiet, Goto
  <2>3. (search[p].pc # "write" /\ Spends) \/ SpendsOne
    BY <1>1, <1>3
  <2> HIDE DEF r
  <2> QED BY <2>1, <2>2, <2>3, QuietStep
<1> QED BY <1>2, <1>3 DEF Lock, Fault

\* Unlock: the search goes on to where its write was to take it.
LEMMA UnlockStep ==
  ASSUME CatalogInv, NEW p \in Searches, Unlock(p)
  PROVE  CatalogInv'
<1> DEFINE s == search[p]
           r == [s EXCEPT !.pc = s.next]
<1> USE SearchFacts, SpendFacts
<1>1. s.pc = "unlock" /\ s.lock \in Keys
  BY DEF Unlock, SearchOK
<1>2. r \in SearchStates /\ SearchOK(p, r)
  BY <1>1 DEF SearchStates, SearchOK, IsNew, HasCore, HasDetails
<1>3. Quiet(p, r)
  BY DEF Unlock, Goto, Quiet
<1>4. Spends
  BY DEF Unlock
<1> HIDE DEF r
<1> QED BY <1>1, <1>2, <1>3, <1>4, QuietStep

\* A search that fails its item, or whose process ends, promises nothing.
LEMMA FailStep ==
  ASSUME CatalogInv, NEW p \in Searches, UNCHANGED <<redis, low, locks, lapses>>,
         (Fails(p) /\ UNCHANGED crashes) \/ Crash(p)
  PROVE  CatalogInv'
<1> USE SearchFacts, SpendFacts
<1>1. PICK pc \in {"failed", "crashed"} : Goto(p, pc)
  BY DEF Fails, Crash
<1> DEFINE r == [search[p] EXCEPT !.pc = pc]
<1>2. r \in SearchStates /\ SearchOK(p, r)
  BY ZenonT(30) DEF SearchStates, SearchOK, IsNew, HasCore, HasDetails
<1>3. Quiet(p, r)
  BY <1>1 DEF Goto, Quiet
<1>4. SpendsOne
  BY DEF Fails, Crash
<1> HIDE DEF r
<1> QED BY <1>2, <1>3, <1>4, QuietStep

\* StoreNewCore: a search without a core of its own takes its own id.
LEMMA NewCoreFacts ==
  ASSUME CatalogInv, NEW p \in Searches, IsNew(search[p]), StoreNewCore(p)
  PROVE  \E r \in SearchStates : SearchOK(p, r) /\ search' = [search EXCEPT ![p] = r]
                                /\ r.pc = "lock"
<1> DEFINE script == <<Command(BricklinkKey, p), Command(CoreKey(p), "bare")>>
           r == LockedWrite([search[p] EXCEPT !.id = p, !.cached = FALSE],
                            CoreKey(p), script, "details")
<1>1. p \in Ids /\ p \in Values /\ "bare" \in Values /\ CoreKey(p) \in Keys
  BY KeyFacts DEF Ids, Values
<1>2. script \in Seq([key : Keys, value : Values])
  BY <1>1, KeyFacts DEF Command
<1>3. /\ r.pc = "lock" /\ r.next = "details" /\ r.id = p /\ r.script = script
      /\ r.lock = CoreKey(p) /\ r \in SearchStates
  BY <1>1, <1>2, SearchFacts DEF SearchStates, LockedWrite
<1>4. redis[CoreKey(p)] = None
  BY SearchFacts DEF SearchOK
<1>5. SearchOK(p, r)
  <2> HIDE DEF r
  <2> QED BY <1>1, <1>3, <1>4 DEF SearchOK, IsNew, HasCore, HasDetails, Writes
<1>6. search' = [search EXCEPT ![p] = r]
  BY DEF StoreNewCore
<1> QED BY <1>3, <1>5, <1>6

\* GetMapping: an id is read that some search stored, or there is none.
LEMMA GetMappingStep ==
  ASSUME CatalogInv, NEW p \in Searches, GetMapping(p)
  PROVE  CatalogInv'
<1> USE SearchFacts, SpendFacts
<1>1. search[p].pc = "get" /\ UNCHANGED <<redis, low, locks, lapses, crashes>>
  BY DEF GetMapping
<1>2. CASE Fails(p)
  BY <1>1, <1>2, FailStep
<1>3. CASE StoreNewCore(p) /\ UNCHANGED faults
  <2>1. IsNew(search[p])
    BY <1>1 DEF IsNew
  <2>2. PICK r \in SearchStates : SearchOK(p, r) /\ search' = [search EXCEPT ![p] = r]
    BY <1>3, <2>1, NewCoreFacts
  <2>3. Quiet(p, r)
    BY <1>1, <2>2 DEF Quiet
  <2> QED BY <1>1, <1>3, <2>2, <2>3, QuietStep
<1>4. CASE /\ redis[BricklinkKey] # None /\ UNCHANGED faults
           /\ search' = [search EXCEPT ![p].pc = "mget", ![p].id = redis[BricklinkKey]]
  <2> DEFINE r == [search[p] EXCEPT !.pc = "mget", !.id = redis[BricklinkKey]]
  <2>1. redis[BricklinkKey] \in Ids
    BY <1>4 DEF CatalogInv, ValuesOK
  <2>2. r \in SearchStates /\ SearchOK(p, r)
    BY <1>1, <2>1, ZenonT(30) DEF SearchStates, SearchOK, IsNew, HasCore, HasDetails
  <2>3. Quiet(p, r)
    BY <1>1, <1>4 DEF Quiet
  <2> HIDE DEF r
  <2> QED BY <1>1, <1>4, <2>2, <2>3, QuietStep
<1> QED BY <1>2, <1>3, <1>4 DEF GetMapping

\* GetCoreAndLocale: the search goes on with a core it has seen.
LEMMA GetCoreStep ==
  ASSUME CatalogInv, NEW p \in Searches, GetCoreAndLocale(p)
  PROVE  CatalogInv'
<1> USE SearchFacts, SpendFacts
<1> DEFINE s == search[p]
<1>1. s.pc = "mget" /\ s.id \in Ids /\ UNCHANGED <<redis, low, locks, lapses, crashes>>
  BY DEF GetCoreAndLocale, SearchOK
<1>2. CASE Fails(p)
  BY <1>1, <1>2, FailStep
<1>3. CASE StoreNewCore(p) /\ UNCHANGED faults
  <2>1. IsNew(search[p])
    BY <1>1 DEF IsNew
  <2>2. PICK r \in SearchStates : SearchOK(p, r) /\ search' = [search EXCEPT ![p] = r]
    BY <1>3, <2>1, NewCoreFacts
  <2>3. Quiet(p, r)
    BY <1>1, <2>2 DEF Quiet
  <2> QED BY <1>1, <1>3, <2>2, <2>3, QuietStep
<1>4. CASE /\ redis[CoreKey(s.id)] # None /\ UNCHANGED faults
           /\ search' = [search EXCEPT ![p].pc = "ttl",
                                       ![p].cached = redis[LocaleKey(s.id)] # None]
  <2> DEFINE c == redis[LocaleKey(s.id)] # None
             r == [s EXCEPT !.pc = "ttl", !.cached = c]
  <2>1. c \in BOOLEAN
    OBVIOUS
  <2>2. search' = [search EXCEPT ![p] = r]
    BY <1>4
  <2>3. c => redis[CoreKey(s.id)] = "detailed"
    BY <1>1 DEF CatalogInv, ValuesOK
  <2> HIDE DEF c
  <2>4. r \in SearchStates /\ SearchOK(p, r)
    BY <1>1, <1>4, <2>1, <2>3, ZenonT(30) DEF SearchStates, SearchOK, IsNew, HasCore, HasDetails
  <2>5. Quiet(p, r)
    BY <1>1, <2>2 DEF Quiet
  <2> HIDE DEF r
  <2> QED BY <1>1, <1>4, <2>4, <2>5, QuietStep
<1> QED BY <1>2, <1>3, <1>4 DEF GetCoreAndLocale

\* GetTTL: an answer out of the cache has its details, because a locale is stored
\* after them.
LEMMA GetTTLStep ==
  ASSUME CatalogInv, NEW p \in Searches, GetTTL(p)
  PROVE  CatalogInv'
<1> USE SearchFacts, SpendFacts
<1>1. search[p].pc = "ttl" /\ UNCHANGED <<redis, low, locks, lapses, crashes>>
  BY DEF GetTTL
<1>2. CASE Fails(p)
  BY <1>1, <1>2, FailStep
<1>3. ASSUME NEW pc \in {"delete", "answered", "details"}, Goto(p, pc), UNCHANGED faults,
             pc = "answered" => search[p].cached
      PROVE  CatalogInv'
  <2> DEFINE r == [search[p] EXCEPT !.pc = pc]
  <2>1. r \in SearchStates /\ SearchOK(p, r)
    BY <1>1, <1>3, ZenonT(30) DEF SearchStates, SearchOK, IsNew, HasCore, HasDetails
  <2>2. Quiet(p, r)
    BY <1>1, <1>3 DEF Quiet, Goto
  <2> HIDE DEF r
  <2> QED BY <1>1, <1>3, <2>1, <2>2, QuietStep
<1> QED BY <1>2, <1>3 DEF GetTTL

\* The requests and what they then store: each step only begins a locked write.
LEMMA BeginWrite ==
  ASSUME CatalogInv, NEW p \in Searches, NEW lock \in Keys, NEW script, NEW next,
         UNCHANGED <<redis, low, locks, faults, lapses, crashes>>,
         search' = [search EXCEPT ![p] = LockedWrite(@, lock, script, next)],
         search[p].id \in Ids, redis[CoreKey(search[p].id)] # None,
         \/ next = "lego" /\ script = <<Command(CoreKey(search[p].id), "detailed")>>
         \/ /\ next = "slug" /\ redis[CoreKey(search[p].id)] = "detailed"
            /\ \/ script = <<Command(CoreKey(search[p].id), "detailed"),
                            Command(LocaleKey(search[p].id), "stored")>>
               \/ script = <<Command(LocaleKey(search[p].id), "stored")>>
         \/ /\ next = "answered" /\ redis[CoreKey(search[p].id)] = "detailed"
            /\ script = <<Command(SlugKey, search[p].id)>>,
         search[p].pc # "write"
  PROVE  CatalogInv'
<1> DEFINE s == search[p]
           r == LockedWrite(s, lock, script, next)
<1> USE SearchFacts, SpendFacts
<1>1. /\ CoreKey(s.id) \in Keys /\ LocaleKey(s.id) \in Keys /\ SlugKey \in Keys
      /\ s.id \in Values /\ "detailed" \in Values /\ "stored" \in Values
  BY KeyFacts DEF Values
<1>2. script \in Seq([key : Keys, value : Values])
  <2>1. /\ Command(CoreKey(s.id), "detailed") \in [key : Keys, value : Values]
        /\ Command(LocaleKey(s.id), "stored") \in [key : Keys, value : Values]
        /\ Command(SlugKey, s.id) \in [key : Keys, value : Values]
    BY <1>1 DEF Command
  <2>2. ASSUME NEW a \in [key : Keys, value : Values], NEW b \in [key : Keys, value : Values]
        PROVE  <<a, b>> \in Seq([key : Keys, value : Values])
               /\ <<a>> \in Seq([key : Keys, value : Values])
    OBVIOUS
  <2> QED BY <2>1, <2>2
<1>3. next \in {"lego", "slug", "answered"}
  OBVIOUS
<1>4. /\ r \in SearchStates /\ r.pc = "lock" /\ r.next = next /\ r.id = s.id
      /\ r.script = script /\ r.lock = lock
  BY <1>2, <1>3 DEF SearchStates, LockedWrite
<1>5. SearchOK(p, r)
  <2> HIDE DEF r
  <2> QED BY <1>4 DEF SearchOK, IsNew, HasCore, HasDetails, Writes
<1>6. Quiet(p, r)
  BY DEF Quiet
<1> HIDE DEF r
<1> QED BY <1>4, <1>5, <1>6, QuietStep

\* FetchBricklinkDetails, FetchLegoProductDetails and StoreSlug.
LEMMA FetchStep ==
  ASSUME CatalogInv, NEW p \in Searches,
         FetchBricklinkDetails(p) \/ FetchLegoProductDetails(p) \/ StoreSlug(p)
  PROVE  CatalogInv'
<1> USE SearchFacts, SpendFacts
<1> DEFINE s == search[p]
<1>1. CASE FetchBricklinkDetails(p)
  <2>1. s.pc = "details" /\ s.id \in Ids /\ redis[CoreKey(s.id)] # None
    BY <1>1 DEF FetchBricklinkDetails, SearchOK, HasCore
  <2>2. CASE Fails(p)
    BY <1>1, <2>2, FailStep DEF FetchBricklinkDetails
  <2>3. CASE /\ UNCHANGED faults
             /\ search' = [search EXCEPT ![p] = LockedWrite(@, CoreKey(s.id),
                            <<Command(CoreKey(s.id), "detailed")>>, "lego")]
    BY <1>1, <2>1, <2>3, BeginWrite, KeyFacts DEF FetchBricklinkDetails
  <2> QED BY <1>1, <2>2, <2>3 DEF FetchBricklinkDetails
<1>2. CASE FetchLegoProductDetails(p)
  <2>1. s.pc = "lego" /\ s.id \in Ids /\ redis[CoreKey(s.id)] # None
        /\ redis[CoreKey(s.id)] = "detailed"
    BY <1>2 DEF FetchLegoProductDetails, SearchOK, HasCore, HasDetails
  <2>2. CASE Goto(p, "slug")
    <3> DEFINE r == [s EXCEPT !.pc = "slug"]
    <3>1. r \in SearchStates /\ SearchOK(p, r)
      BY <2>1, ZenonT(30) DEF SearchStates, SearchOK, IsNew, HasCore, HasDetails
    <3>2. Quiet(p, r)
      BY <1>2, <2>2 DEF Quiet, Goto, FetchLegoProductDetails
    <3> HIDE DEF r
    <3> QED BY <1>2, <2>1, <3>1, <3>2, QuietStep DEF FetchLegoProductDetails
  <2>3. CASE ~Goto(p, "slug")
    BY <1>2, <2>1, <2>3, BeginWrite, KeyFacts, SMTT(20) DEF FetchLegoProductDetails
  <2> QED BY <2>2, <2>3
<1>3. CASE StoreSlug(p)
  <2>1. s.pc = "slug" /\ s.id \in Ids /\ redis[CoreKey(s.id)] # None
        /\ redis[CoreKey(s.id)] = "detailed"
    BY <1>3 DEF StoreSlug, SearchOK, HasCore, HasDetails
  <2> QED BY <1>3, <2>1, BeginWrite, KeyFacts DEF StoreSlug
<1> QED BY <1>1, <1>2, <1>3

-----------------------------------------------------------------------------
\* A step that changes Redis.
LEMMA RedisChanged ==
  ASSUME CatalogInv, NEW p \in Searches, NEW r \in SearchStates,
         search' = [search EXCEPT ![p] = r], SearchOK(p, search[p])',
         redis' \in [Keys -> Values], CoreSteps(p), UNCHANGED <<low, locks, lapses>>, Spends,
         ValuesOK', MappingHasCore', SlugOpensSet'
  PROVE  CatalogInv'
<1>1. TypeOK'
  BY DEF CatalogInv, TypeOK, SearchStates, Keys, Ids, Values, BricklinkKey, SlugKey, CoreKey,
         LocaleKey, Spends
<1>2. ASSUME NEW q \in Searches PROVE SearchOK(q, search[q])'
  <2>1. q # p => search'[q] = search[q]
    BY SearchFacts
  <2> QED BY <2>1, SearchFacts, OthersKeep
<1> QED BY <1>1, <1>2 DEF CatalogInv

\* What a single command does to the rest of Redis.
LEMMA OneCommand ==
  ASSUME CatalogInv, NEW k \in Keys, NEW v \in Values, redis' = [redis EXCEPT ![k] = v]
  PROVE  /\ redis' \in [Keys -> Values] /\ redis'[k] = v
         /\ \A l \in Keys : l # k => redis'[l] = redis[l]
         /\ Keys' = Keys /\ Ids' = Ids
BY DEF CatalogInv, TypeOK, Keys, Ids

\* The set of the mapping, when nobody takes it away: cores only grow, and the
\* search that is about to store the core is another, or stores it.
LEMMA MappingKept ==
  ASSUME CatalogInv, NEW p \in Searches, NEW r, r = search'[p], Spends, CoreSteps(p),
         \A q \in Searches : q # p => search'[q] = search[q],
         redis'[BricklinkKey] = redis[BricklinkKey],
         search[p].pc = "write" => redis'[CoreKey(search[p].id)] # None
  PROVE  MappingHasCore'
<1> SUFFICES ASSUME redis'[BricklinkKey] # None, redis'[CoreKey(redis'[BricklinkKey])] = None,
                    faults' >= MaxFaults, crashes' >= MaxCrashes
             PROVE  \E q \in Searches : search'[q].pc = "write"
                                        /\ search'[q].id = redis'[BricklinkKey]
  <2>1. faults' \in Nat /\ crashes' \in Nat
    BY CatalogAssumption DEF Spends
  <2> QED BY <2>1, CatalogAssumption DEF MappingHasCore, CoreKey, BricklinkKey
<1> DEFINE i == redis[BricklinkKey]
<1>1. i \in Ids /\ redis'[CoreKey(i)] = None
  BY DEF CatalogInv, ValuesOK
<1>2. redis[CoreKey(i)] = None
  BY <1>1, CatalogAssumption DEF CoreSteps
<1>3. ~(faults < MaxFaults) /\ ~(crashes < MaxCrashes)
  BY CatalogAssumption DEF CatalogInv, TypeOK, Spends
<1>4. PICK q \in Searches : search[q].pc = "write" /\ search[q].id = i
  BY <1>2, <1>3 DEF CatalogInv, MappingHasCore
<1>5. q # p
  BY <1>1, <1>4
<1> QED BY <1>4, <1>5

\* DeleteMapping: without a mapping there is none that lacks its core.
LEMMA DeleteStep ==
  ASSUME CatalogInv, NEW p \in Searches, DeleteMapping(p)
  PROVE  CatalogInv'
<1> USE SearchFacts, SpendFacts
<1>1. search[p].pc = "delete" /\ UNCHANGED <<low, locks, lapses, crashes>>
  BY DEF DeleteMapping
<1>2. IsNew(search[p])
  BY <1>1 DEF IsNew
<1>3. PICK r \in SearchStates : SearchOK(p, r) /\ search' = [search EXCEPT ![p] = r]
  BY <1>2, NewCoreFacts DEF DeleteMapping
<1>4. CASE Fault /\ UNCHANGED redis
  <2>1. Quiet(p, r)
    BY <1>1, <1>3, <1>4 DEF Quiet
  <2> QED BY <1>1, <1>3, <1>4, <2>1, QuietStep
<1>5. CASE redis' = [redis EXCEPT ![BricklinkKey] = None] /\ UNCHANGED faults
  <2>1. None \in Values
    BY DEF Values
  <2>2. /\ redis' \in [Keys -> Values] /\ redis'[BricklinkKey] = None
        /\ \A l \in Keys : l # BricklinkKey => redis'[l] = redis[l]
    BY <1>5, <2>1, KeyFacts, OneCommand
  <2>3. \A i \in Ids : /\ redis'[CoreKey(i)] = redis[CoreKey(i)]
                       /\ redis'[LocaleKey(i)] = redis[LocaleKey(i)]
    BY <2>2, KeyFacts
  <2>4. redis'[SlugKey] = redis[SlugKey]
    BY <2>2, KeyFacts
  <2>5. CoreSteps(p)
    BY <2>3 DEF CoreSteps
  <2>6. ValuesOK'
    BY <2>2, <2>3, <2>4 DEF CatalogInv, ValuesOK, Ids, CoreKey, LocaleKey, SlugKey, BricklinkKey
  <2>7. MappingHasCore'
    BY <2>2 DEF MappingHasCore, BricklinkKey
  <2>8. SlugOpensSet'
    BY <2>3, <2>4 DEF CatalogInv, ValuesOK, SlugOpensSet, SlugKey, CoreKey
  <2>9. SearchOK(p, search[p])'
    <3>1. search'[p] = r
      BY <1>3
    <3>2. SearchOK(p, r) /\ r.id \in Ids \cup {None} /\ p \in Ids
      BY <1>3 DEF SearchStates, Ids
    <3>3. SearchOK(p, r)'
      BY <2>3, <3>2 DEF SearchOK, IsNew, HasCore, HasDetails, Writes
    <3> QED BY <3>1, <3>3
  <2>10. Spends
    BY <1>1, <1>5
  <2> QED BY <1>1, <1>3, <2>2, <2>5, <2>6, <2>7, <2>8, <2>9, <2>10, RedisChanged
<1> QED BY <1>4, <1>5 DEF DeleteMapping

\* LeaseEnds: the invariant does not rest on the locks.
LEMMA LeaseStep ==
  ASSUME CatalogInv, NEW k \in Keys, LeaseEnds(k)
  PROVE  CatalogInv'
<1>1. UNCHANGED <<redis, low, search, faults, crashes>>
  BY DEF LeaseEnds
<1>2. TypeOK'
  <2>1. locks' \in [Keys -> Searches \cup {None}]
    BY DEF LeaseEnds, CatalogInv, TypeOK
  <2>2. lapses' \in 0..MaxLapses
    <3>1. lapses \in 0..MaxLapses /\ MaxLapses \in Nat
      BY CatalogAssumption DEF CatalogInv, TypeOK
    <3>2. CASE search[locks[k]].pc = "crashed"
      BY <3>1, <3>2 DEF LeaseEnds
    <3>3. CASE search[locks[k]].pc # "crashed"
      BY <3>1, <3>3 DEF LeaseEnds
    <3> QED BY <3>2, <3>3
  <2>3. TypeOK
    BY DEF CatalogInv
  <2> QED BY <1>1, <2>1, <2>2, <2>3 DEF TypeOK, SearchStates, Keys, Ids, Values, BricklinkKey,
            SlugKey, CoreKey, LocaleKey
<1> USE <1>1 DEF CatalogInv, Keys, Ids, BricklinkKey, SlugKey, CoreKey, LocaleKey
<1>3. ValuesOK' /\ MappingHasCore' /\ SlugOpensSet'
  BY DEF ValuesOK, MappingHasCore, SlugOpensSet
<1>4. ASSUME NEW p \in Searches PROVE SearchOK(p, search[p])'
  BY DEF SearchOK, IsNew, HasCore, HasDetails, Writes, Command
<1> QED BY <1>2, <1>3, <1>4

\* The record with which a search goes on after one command of its script.
AfterWrite(s) ==
    [s EXCEPT !.script = Tail(@), !.pc = IF Len(s.script) = 1 THEN "unlock" ELSE @]

\* A successful Write takes the first command off the script.
LEMMA WriteFacts ==
  ASSUME CatalogInv, NEW p \in Searches, search[p].pc = "write",
         redis' = [redis EXCEPT ![search[p].script[1].key] = search[p].script[1].value],
         search' = [search EXCEPT ![p].script = Tail(@),
                                  ![p].pc = IF Len(search[p].script) = 1 THEN "unlock" ELSE @],
         UNCHANGED <<low, locks, faults, lapses, crashes>>
  PROVE  /\ search' = [search EXCEPT ![p] = AfterWrite(search[p])]
         /\ search'[p] = AfterWrite(search[p])
         /\ \A q \in Searches : q # p => search'[q] = search[q]
         /\ AfterWrite(search[p]) \in SearchStates
         /\ Writes(p, search[p]) /\ search[p].lock \in Keys /\ Spends
<1> USE SearchFacts, SpendFacts
<1> DEFINE s == search[p]
<1>1. Writes(p, s) /\ s.lock \in Keys
  BY DEF SearchOK
<1>2. s.script \in Seq([key : Keys, value : Values]) /\ s.script # <<>>
  <2>1. s.script \in Seq([key : Keys, value : Values])
    BY DEF SearchStates
  <2>2. s.script # <<>>
    BY <1>1, ScriptFacts DEF Writes
  <2> QED BY <2>1, <2>2
<1>3. Tail(s.script) \in Seq([key : Keys, value : Values])
  BY <1>2
<1>4. AfterWrite(s) \in SearchStates
  BY <1>3 DEF AfterWrite, SearchStates
<1>5. search' = [search EXCEPT ![p] = AfterWrite(s)]
  BY DEF AfterWrite
<1> QED BY <1>1, <1>4, <1>5

\* The search of record r, in the state after a command.
LEMMA AfterOK ==
  ASSUME NEW p \in Searches, NEW r, search'[p] = r, r.lock \in Keys, r.id \in Ids,
         \/ r.pc = "write" /\ Writes(p, r)
         \/ r.pc = "unlock" /\ r.next # "get",
         IsNew(r) => redis'[CoreKey(p)] = None,
         HasCore(r) => redis'[CoreKey(r.id)] # None,
         HasDetails(r) => redis'[CoreKey(r.id)] = "detailed"
  PROVE  SearchOK(p, search[p])'
<1>1. r.pc # "mget"
  OBVIOUS
<1> QED BY <1>1 DEF SearchOK, IsNew, HasCore, HasDetails, Writes, Command, Keys, Ids, CoreKey,
        LocaleKey, BricklinkKey, SlugKey

\* A core is stored, or stored with its details.
LEMMA WriteCore ==
  ASSUME CatalogInv, NEW p \in Searches, NEW r \in SearchStates,
         search' = [search EXCEPT ![p] = r], SearchOK(p, search[p])',
         UNCHANGED <<low, locks, lapses>>, Spends,
         NEW i \in Ids, i = search[p].id, NEW v, redis' = [redis EXCEPT ![CoreKey(i)] = v],
         \/ v = "detailed" /\ redis[CoreKey(i)] # None
         \/ v = "bare" /\ i = p /\ redis[CoreKey(i)] = None
  PROVE  CatalogInv'
<1>1. CoreKey(i) \in Keys /\ v \in Values
  BY KeyFacts DEF Values
<1>2. /\ redis' \in [Keys -> Values] /\ redis'[CoreKey(i)] = v
      /\ redis'[BricklinkKey] = redis[BricklinkKey] /\ redis'[SlugKey] = redis[SlugKey]
      /\ \A j \in Ids : /\ redis'[LocaleKey(j)] = redis[LocaleKey(j)]
                        /\ j # i => redis'[CoreKey(j)] = redis[CoreKey(j)]
  BY <1>1, KeyFacts, OneCommand
<1>3. CoreSteps(p)
  BY <1>2 DEF CoreSteps
<1>4. "bare" # None /\ "detailed" # None
  BY CatalogAssumption
<1>5. ValuesOK'
  BY <1>2, <1>4 DEF CatalogInv, ValuesOK, Ids, CoreKey, LocaleKey, SlugKey, BricklinkKey
<1>6. SlugOpensSet'
  BY <1>2, <1>4 DEF CatalogInv, ValuesOK, SlugOpensSet, SlugKey, CoreKey
<1>7. MappingHasCore'
  BY <1>2, <1>3, <1>4, SearchFacts, MappingKept
<1> QED BY <1>2, <1>3, <1>5, <1>6, <1>7, RedisChanged

\* Write: the mapping before the core, the core before its details, those before
\* the locale, and the slug last.
LEMMA WriteStep ==
  ASSUME CatalogInv, NEW p \in Searches, Write(p)
  PROVE  CatalogInv'
<1> USE SearchFacts, SpendFacts
<1> DEFINE s == search[p]
<1>1. s.pc = "write" /\ UNCHANGED <<low, locks, lapses, crashes>>
  BY DEF Write
<1>2. ASSUME Fault, UNCHANGED redis,
             search' = [search EXCEPT ![p].script = <<>>, ![p].pc = "unlock",
                                      ![p].next = IF @ = "answered" THEN @ ELSE "failed"]
      PROVE  CatalogInv'
  <2> DEFINE r == [s EXCEPT !.script = <<>>, !.pc = "unlock",
                            !.next = IF @ = "answered" THEN @ ELSE "failed"]
  <2>1. /\ r.pc = "unlock" /\ r.next \in {"answered", "failed"} /\ r.id = s.id
        /\ r.next = "answered" => s.next = "answered"
        /\ r.lock = s.lock /\ s.lock \in Keys
    <3>1. s.lock \in Keys
      BY <1>1 DEF SearchOK
    <3>2. s \in SearchStates
      OBVIOUS
    <3> HIDE DEF s
    <3> QED BY <3>1, <3>2 DEF SearchStates
  <2>2. r \in SearchStates
    <3>1. <<>> \in Seq([key : Keys, value : Values])
      OBVIOUS
    <3>2. s \in SearchStates
      OBVIOUS
    <3> QED BY <3>1, <3>2 DEF SearchStates
  <2>3. Quiet(p, r)
    BY <1>1, <1>2 DEF Quiet
  <2> HIDE DEF r
  <2>4. SearchOK(p, r)
    BY <1>1, <2>1 DEF SearchOK, IsNew, HasCore, HasDetails
  <2> QED BY <1>1, <1>2, <2>2, <2>3, <2>4, QuietStep
<1>3. ASSUME redis' = [redis EXCEPT ![s.script[1].key] = s.script[1].value],
             search' = [search EXCEPT ![p].script = Tail(@),
                                      ![p].pc = IF Len(s.script) = 1 THEN "unlock" ELSE @],
             UNCHANGED faults
      PROVE  CatalogInv'
  <2> DEFINE r == AfterWrite(s)
  <2>1. /\ search' = [search EXCEPT ![p] = r] /\ search'[p] = r
        /\ \A q \in Searches : q # p => search'[q] = search[q]
        /\ r \in SearchStates /\ Writes(p, s) /\ s.lock \in Keys /\ Spends
    BY <1>1, <1>3, WriteFacts
  <2>2. /\ r.script = Tail(s.script) /\ r.id = s.id /\ r.next = s.next /\ r.lock = s.lock
        /\ r.pc = IF Len(s.script) = 1 THEN "unlock" ELSE "write"
    BY <1>1 DEF AfterWrite, SearchStates
  <2> HIDE DEF r
  <2>3. s.lock \in Keys /\ SearchOK(p, s) /\ redis \in [Keys -> Values]
    BY <2>1 DEF CatalogInv, TypeOK
  <2>4. CASE /\ s.next = "details" /\ s.id = p
             /\ s.script = <<Command(BricklinkKey, p), Command(CoreKey(p), "bare")>>
    <3>1. /\ s.script[1] = Command(BricklinkKey, p) /\ p \in Ids /\ p \in Values
          /\ Len(s.script) = 2 /\ Tail(s.script) = <<Command(CoreKey(p), "bare")>>
      BY <2>4 DEF Ids, Values
    <3>2. redis' = [redis EXCEPT ![BricklinkKey] = p] /\ r.pc = "write"
      BY <1>3, <2>2, <3>1 DEF Command
    <3>3. /\ redis' \in [Keys -> Values] /\ redis'[BricklinkKey] = p
          /\ \A l \in Keys : l # BricklinkKey => redis'[l] = redis[l]
      BY <3>1, <3>2, KeyFacts, OneCommand
    <3>4. /\ redis'[SlugKey] = redis[SlugKey]
          /\ \A i \in Ids : /\ redis'[CoreKey(i)] = redis[CoreKey(i)]
                            /\ redis'[LocaleKey(i)] = redis[LocaleKey(i)]
      BY <3>3, KeyFacts
    <3>5. redis[CoreKey(p)] = None
      BY <1>1, <2>3, <2>4 DEF SearchOK, IsNew
    <3>6. SearchOK(p, search[p])'
      <4>1. Writes(p, r)
        BY <2>2, <2>4, <3>1 DEF Writes
      <4> QED BY <2>1, <2>2, <2>3, <2>4, <3>1, <3>2, <3>4, <3>5, <4>1, AfterOK
              DEF HasCore, HasDetails
    <3>7. CoreSteps(p) /\ ValuesOK'
      BY <3>1, <3>3, <3>4 DEF CoreSteps, CatalogInv, ValuesOK, Ids, CoreKey, LocaleKey, SlugKey,
         BricklinkKey
    <3>8. SlugOpensSet'
      BY <3>4 DEF CatalogInv, ValuesOK, SlugOpensSet, SlugKey, CoreKey
    <3>9. MappingHasCore'
      BY <2>1, <2>2, <2>4, <3>2, <3>3 DEF MappingHasCore, BricklinkKey, CoreKey
    <3> QED BY <1>1, <2>1, <3>3, <3>6, <3>7, <3>8, <3>9, RedisChanged
  <2>5. CASE /\ s.next = "details" /\ s.id = p
             /\ s.script = <<Command(CoreKey(p), "bare")>>
    <3>1. s.script[1] = Command(CoreKey(p), "bare") /\ Len(s.script) = 1 /\ p \in Ids
      BY <2>5 DEF Ids
    <3>2. redis' = [redis EXCEPT ![CoreKey(p)] = "bare"] /\ r.pc = "unlock"
      BY <1>3, <2>2, <3>1 DEF Command
    <3>3. redis[CoreKey(p)] = None /\ redis'[CoreKey(p)] = "bare"
      BY <1>1, <2>3, <2>5, <3>1, <3>2, KeyFacts DEF SearchOK, IsNew
    <3>4. SearchOK(p, search[p])'
      BY <2>1, <2>2, <2>3, <2>5, <3>1, <3>2, <3>3, CatalogAssumption, AfterOK
         DEF IsNew, HasDetails
    <3> QED BY <1>1, <2>1, <2>5, <3>1, <3>2, <3>3, <3>4, WriteCore
  <2>6. CASE s.next = "lego" /\ s.script = <<Command(CoreKey(s.id), "detailed")>>
    <3>1. s.script[1] = Command(CoreKey(s.id), "detailed") /\ Len(s.script) = 1
      BY <2>6
    <3>2. redis' = [redis EXCEPT ![CoreKey(s.id)] = "detailed"] /\ r.pc = "unlock"
      BY <1>3, <2>2, <3>1 DEF Command
    <3>3. s.id \in Ids /\ redis[CoreKey(s.id)] # None
      BY <1>1, <2>3, <2>6 DEF SearchOK, HasCore
    <3>4. redis'[CoreKey(s.id)] = "detailed"
      BY <2>3, <3>2, <3>3, KeyFacts
    <3>5. SearchOK(p, search[p])'
      BY <2>1, <2>2, <2>3, <2>6, <3>2, <3>3, <3>4, CatalogAssumption, AfterOK DEF IsNew
    <3> QED BY <1>1, <2>1, <3>2, <3>3, <3>5, WriteCore
  <2>7. CASE /\ s.next = "slug"
             /\ s.script = <<Command(CoreKey(s.id), "detailed"), Command(LocaleKey(s.id), "stored")>>
    <3>1. /\ s.script[1] = Command(CoreKey(s.id), "detailed") /\ Len(s.script) = 2
          /\ Tail(s.script) = <<Command(LocaleKey(s.id), "stored")>>
      BY <2>7
    <3>2. redis' = [redis EXCEPT ![CoreKey(s.id)] = "detailed"] /\ r.pc = "write"
      BY <1>3, <2>2, <3>1 DEF Command
    <3>3. s.id \in Ids /\ redis[CoreKey(s.id)] # None
      BY <1>1, <2>3, <2>7 DEF SearchOK, HasCore
    <3>4. redis'[CoreKey(s.id)] = "detailed"
      BY <2>3, <3>2, <3>3, KeyFacts
    <3>5. SearchOK(p, search[p])'
      <4>1. Writes(p, r)
        BY <2>2, <2>7, <3>1 DEF Writes
      <4> QED BY <2>1, <2>2, <2>3, <2>7, <3>2, <3>3, <3>4, <4>1, CatalogAssumption, AfterOK
              DEF IsNew
    <3> QED BY <1>1, <2>1, <3>2, <3>3, <3>5, WriteCore
  <2>8. CASE s.next = "slug" /\ s.script = <<Command(LocaleKey(s.id), "stored")>>
    <3>1. s.script[1] = Command(LocaleKey(s.id), "stored") /\ Len(s.script) = 1
      BY <2>8
    <3>2. redis' = [redis EXCEPT ![LocaleKey(s.id)] = "stored"] /\ r.pc = "unlock"
      BY <1>3, <2>2, <3>1 DEF Command
    <3>3. s.id \in Ids /\ redis[CoreKey(s.id)] = "detailed"
      BY <1>1, <2>3, <2>8 DEF SearchOK, HasCore, HasDetails
    <3>4. /\ redis' \in [Keys -> Values]
          /\ \A l \in Keys : l # LocaleKey(s.id) => redis'[l] = redis[l]
      <4>1. "stored" \in Values
        BY DEF Values
      <4> QED BY <3>2, <3>3, <4>1, KeyFacts, OneCommand
    <3>5. /\ redis'[BricklinkKey] = redis[BricklinkKey] /\ redis'[SlugKey] = redis[SlugKey]
          /\ \A i \in Ids : /\ redis'[CoreKey(i)] = redis[CoreKey(i)]
                            /\ i # s.id => redis'[LocaleKey(i)] = redis[LocaleKey(i)]
      BY <3>3, <3>4, KeyFacts
    <3>6. SearchOK(p, search[p])'
      BY <2>1, <2>2, <2>3, <2>8, <3>2, <3>3, <3>5, CatalogAssumption, AfterOK DEF IsNew
    <3>7. CoreSteps(p) /\ ValuesOK'
      BY <3>3, <3>5 DEF CoreSteps, CatalogInv, ValuesOK, Ids, CoreKey, LocaleKey, SlugKey,
         BricklinkKey
    <3>8. SlugOpensSet'
      BY <3>5 DEF CatalogInv, ValuesOK, SlugOpensSet, SlugKey, CoreKey
    <3>9. MappingHasCore'
      BY <2>1, <3>3, <3>5, <3>7, CatalogAssumption, MappingKept
    <3> QED BY <1>1, <2>1, <3>4, <3>6, <3>7, <3>8, <3>9, RedisChanged
  <2>9. CASE s.next = "answered" /\ s.script = <<Command(SlugKey, s.id)>>
    <3>1. s.script[1] = Command(SlugKey, s.id) /\ Len(s.script) = 1
      BY <2>9
    <3>2. redis' = [redis EXCEPT ![SlugKey] = s.id] /\ r.pc = "unlock"
      BY <1>3, <2>2, <3>1 DEF Command
    <3>3. s.id \in Ids /\ redis[CoreKey(s.id)] = "detailed"
      BY <1>1, <2>3, <2>9 DEF SearchOK, HasCore, HasDetails
    <3>4. /\ redis' \in [Keys -> Values] /\ redis'[SlugKey] = s.id
          /\ \A l \in Keys : l # SlugKey => redis'[l] = redis[l]
      <4>1. s.id \in Values
        BY <3>3 DEF Values
      <4> QED BY <3>2, <4>1, KeyFacts, OneCommand
    <3>5. /\ redis'[BricklinkKey] = redis[BricklinkKey]
          /\ \A i \in Ids : /\ redis'[CoreKey(i)] = redis[CoreKey(i)]
                            /\ redis'[LocaleKey(i)] = redis[LocaleKey(i)]
      BY <3>4, KeyFacts
    <3>6. SearchOK(p, search[p])'
      BY <2>1, <2>2, <2>3, <2>9, <3>2, <3>3, <3>5, CatalogAssumption, AfterOK DEF IsNew
    <3>7. CoreSteps(p) /\ ValuesOK'
      BY <3>3, <3>4, <3>5 DEF CoreSteps, CatalogInv, ValuesOK, Ids, CoreKey, LocaleKey, SlugKey,
         BricklinkKey
    <3>8. SlugOpensSet'
      BY <3>3, <3>4, <3>5 DEF SlugOpensSet, SlugKey, CoreKey
    <3>9. MappingHasCore'
      BY <2>1, <3>3, <3>5, <3>7, CatalogAssumption, MappingKept
    <3> QED BY <1>1, <2>1, <3>4, <3>6, <3>7, <3>8, <3>9, RedisChanged
  <2> QED BY <2>1, <2>4, <2>5, <2>6, <2>7, <2>8, <2>9 DEF Writes
<1> QED BY <1>2, <1>3 DEF Write

-----------------------------------------------------------------------------
\* Every step keeps the invariant.
LEMMA CatalogInvStep == CatalogInv /\ [Next]_vars => CatalogInv'
<1> SUFFICES ASSUME CatalogInv, [Next]_vars PROVE CatalogInv'
  OBVIOUS
<1>1. ASSUME NEW p \in Searches, Step(p) PROVE CatalogInv'
  BY <1>1, LockStep, WriteStep, UnlockStep, GetMappingStep, GetCoreStep, GetTTLStep, DeleteStep,
     FetchStep DEF Step
<1>2. ASSUME NEW p \in Searches, Crash(p) PROVE CatalogInv'
  BY <1>2, FailStep DEF Crash
<1>3. ASSUME NEW k \in Keys, LeaseEnds(k) PROVE CatalogInv'
  BY <1>3, LeaseStep
<1>4. CASE UNCHANGED vars
  <2> USE <1>4 DEF vars, CatalogInv, Keys, Ids, BricklinkKey, SlugKey, CoreKey, LocaleKey
  <2>1. TypeOK'
    BY DEF TypeOK, SearchStates, Values
  <2>2. ValuesOK' /\ MappingHasCore' /\ SlugOpensSet'
    BY DEF ValuesOK, MappingHasCore, SlugOpensSet
  <2>3. ASSUME NEW p \in Searches PROVE SearchOK(p, search[p])'
    BY DEF SearchOK, IsNew, HasCore, HasDetails, Writes, Command
  <2> QED BY <2>1, <2>2, <2>3
<1> QED BY <1>1, <1>2, <1>3, <1>4 DEF Next

\* The invariant holds of every behaviour of the searches.
THEOREM CatalogInvariant == Spec => []CatalogInv
BY CatalogInvInit, CatalogInvStep, PTL DEF Spec

\* However searches of one set interleave, fail, lose their locks or crash: a
\* set that a client was answered is in Redis with its details, and the mapping
\* of its BrickLink id only lacks its core while both are being stored, or after
\* that was cut short (ProcessSetItem, redis.Transaction).
THEOREM CatalogStaysSound == Spec => []CatalogSound
<1>1. CatalogInv => CatalogSound
  BY DEF CatalogInv, CatalogSound, AnsweredIsStored, SearchOK, HasDetails
<1> QED BY <1>1, CatalogInvariant, PTL

\* ... and whoever opens its slug gets a set that is stored with its details
\* (RedisSetSetIDForSlug comes after the details).
THEOREM SlugOpens == Spec => []SlugOpensSet
<1>1. CatalogInv => SlugOpensSet
  BY DEF CatalogInv
<1> QED BY <1>1, CatalogInvariant, PTL
=============================================================================
