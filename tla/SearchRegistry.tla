--------------------------- MODULE SearchRegistry ---------------------------
(***************************************************************************)
(* The registry of running searches (searchruntime/handler.go), the life   *)
(* of their event loops (searchruntime/runtime.go), the requests that      *)
(* start and open them (handlers/search_handler.go) and the program's end  *)
(* (main.go).                                                              *)
(*                                                                         *)
(* A search with many results is answered with the id of a runtime, which  *)
(* streams them to whoever opens it.  Requests for the same query share    *)
(* the one that runs.  A runtime leaves the registry through the callback  *)
(* of its own end, or when a request finds it failed or complete.          *)
(*                                                                         *)
(* A runtime has the name of the request that started it.  What goes       *)
(* through its channels is ClientStream's matter: here the goroutine that  *)
(* processes the results has or has not sent its last change.  The loop's  *)
(* Status is written by the loop and read by requests without a lock.      *)
(***************************************************************************)
EXTENDS Naturals, FiniteSets

CONSTANTS
    Requests,   \* searches of clients
    Queries,    \* query and locale: the keys
    Absent      \* no runtime, no query

ASSUME SearchAssumption == Absent \notin Requests \cup Queries

VARIABLES
    runtimes,   \* Handler.runtimes: the ids in it
    byKey,      \* Handler.byKey
    key,        \* the key of each runtime
    status,     \* Runtime.Status
    loop,       \* where run() is
    stops,      \* the calls of stop() the loop has still to make
    process,    \* where ProcessSearchAsync is
    stage, given,   \* where each request is, the runtime it was given
    main        \* where main() is

registry == <<runtimes, byKey, key>>
loops == <<status, loop, stops>>
registryVars == <<registry, loops, process, stage, given, main>>

RegistryInit ==
    /\ runtimes = {} /\ byKey = [q \in Queries |-> Absent]
    /\ key = [i \in Requests |-> Absent]
    /\ status = [i \in Requests |-> "running"]
    /\ loop = [i \in Requests |-> "none"] /\ stops = [i \in Requests |-> 0]
    /\ process = [i \in Requests |-> "none"]
    /\ stage = [r \in Requests |-> "idle"] /\ given = [r \in Requests |-> Absent]
    /\ main = "serving"

----------------------------------------------------------------------------
(***************************************************************************)
(* searchruntime/handler.go                                                *)
(***************************************************************************)
\* A fault: the runtime under the key is removed, whichever it is.
RemovedByKey(i) ==
    /\ runtimes' = runtimes \ {i}
    /\ byKey' = [byKey EXCEPT ![key[i]] = Absent]

\* removeRuntimeLocked: nothing to do for one that is gone already, whose key may
\* be another's by now.
Removed(i) ==
    IF i \in runtimes
    THEN /\ runtimes' = runtimes \ {i}
         /\ byKey' = [byKey EXCEPT ![key[i]] = IF @ = i THEN Absent ELSE @]
    ELSE UNCHANGED <<runtimes, byKey>>

\* Removes the stale runtime of the key, if there is one, and puts r there.
Replaced(r, q) ==
    /\ runtimes' = (runtimes \ {byKey[q]}) \cup {r}
    /\ byKey' = [byKey EXCEPT ![q] = r]
    /\ key' = [key EXCEPT ![r] = q]

IsAlive(i) == status[i] = "running"

\* RunSearch, whole under the mutex: the goroutines of a new runtime have been
\* started, but none has run yet.
RunSearch(r, q) ==
    LET i == byKey[q]
    IN  /\ stage[r] = "searching"
        /\ stage' = [stage EXCEPT ![r] = "answered"]
        /\ IF i # Absent /\ IsAlive(i)
           THEN /\ given' = [given EXCEPT ![r] = i]
                /\ UNCHANGED <<registry, loops, process>>
           ELSE /\ Replaced(r, q)
                /\ loop' = [loop EXCEPT ![r] = "started"]
                /\ process' = [process EXCEPT ![r] = "working"]
                /\ given' = [given EXCEPT ![r] = r]
                /\ UNCHANGED <<status, stops>>
        /\ UNCHANGED main

----------------------------------------------------------------------------
(***************************************************************************)
(* handlers/search_handler.go                                              *)
(***************************************************************************)
\* Search: BrickLink is asked first.
Ask(r) ==
    /\ stage[r] = "idle" /\ main = "serving"
    /\ stage' = [stage EXCEPT ![r] = "searching"]
    /\ UNCHANGED <<registry, loops, process, given, main>>

\* It fails, or finds so little that the results are processed in the request.
AnswerAtOnce(r) ==
    /\ stage[r] = "searching"
    /\ stage' = [stage EXCEPT ![r] = "answered"]
    /\ UNCHANGED <<registry, loops, process, given, main>>

\* SearchWebSocket: GetRuntime finds the runtime, or it has gone by now.
Open(r) ==
    /\ stage[r] = "answered" /\ given[r] # Absent /\ main = "serving"
    /\ stage' = [stage EXCEPT ![r] = IF given[r] \in runtimes THEN "opened" ELSE "gone"]
    /\ UNCHANGED <<registry, loops, process, given, main>>

----------------------------------------------------------------------------
(***************************************************************************)
(* searchruntime/runtime.go, fetch_operations.go: ProcessSearchAsync       *)
(***************************************************************************)
Loop(i, to, calls) ==
    /\ loop' = [loop EXCEPT ![i] = to]
    /\ stops' = [stops EXCEPT ![i] = calls]

\* run() begins, with wg.Add.
Begin(i) ==
    /\ loop[i] = "started" /\ Loop(i, "select", 0)
    /\ UNCHANGED <<registry, status, process, stage, given, main>>

\* SignalComplete, or SignalError from the recovered panic.
Signal(i) ==
    /\ process[i] = "working"
    /\ process' = [process EXCEPT ![i] = "signalled"]
    /\ UNCHANGED <<registry, loops, stage, given, main>>

\* A fault: the loop returns without the deferred stop().
HandleLastWithoutStop(i) ==
    /\ loop[i] = "select" /\ process[i] = "signalled"
    /\ process' = [process EXCEPT ![i] = "ended"]
    /\ status' = [status EXCEPT ![i] = "over"]
    /\ Loop(i, "ended", 0)
    /\ UNCHANGED <<registry, stage, given, main>>

\* handleChange of the last change; run returns, and stop() is deferred.
HandleLast(i) ==
    /\ loop[i] = "select" /\ process[i] = "signalled"
    /\ process' = [process EXCEPT ![i] = "ended"]
    /\ status' = [status EXCEPT ![i] = "over"]
    /\ Loop(i, "stopping", 1)
    /\ UNCHANGED <<registry, stage, given, main>>

\* The activity timer, after which stop() is called twice.
TimeOut(i) ==
    /\ loop[i] = "select" /\ Loop(i, "stopping", 2)
    /\ UNCHANGED <<registry, status, process, stage, given, main>>

\* stop() ends in onRuntimeEnd; after the deferred one the goroutine is done.
Stop(i) ==
    /\ loop[i] = "stopping"
    /\ Removed(i)
    /\ Loop(i, IF stops[i] = 1 THEN "ended" ELSE "stopping", stops[i] - 1)
    /\ UNCHANGED <<key, status, process, stage, given, main>>

----------------------------------------------------------------------------
(***************************************************************************)
(* main.go                                                                 *)
(***************************************************************************)
Main(from, to) == main = from /\ main' = to

\* A signal: the server takes no more requests.
Interrupt ==
    /\ Main("serving", "closing")
    /\ UNCHANGED <<registry, loops, process, stage, given>>

\* srv.Shutdown: the requests under way are done, or the program gives up.
CloseServer ==
    /\ \/ Main("closing", "closed") /\ \A r \in Requests : stage[r] # "searching"
       \/ Main("closing", "aborted")
    /\ UNCHANGED <<registry, loops, process, stage, given>>

\* The signal once more, which the program takes as an order to stop at once.
ForceShutdown ==
    /\ main \in {"closing", "closed", "sets", "waiting"} /\ main' = "aborted"
    /\ UNCHANGED <<registry, loops, process, stage, given>>

\* setruntime.IH().Shutdown() and setHandler.Shutdown() come first, and need not
\* return: the first may wait for a lock that is never released (see Inventory).
CloseSets ==
    /\ Main("closed", "sets")
    /\ UNCHANGED <<registry, loops, process, stage, given>>

\* Handler.Shutdown signals the loops that wait in their select: not the one that
\* is busy, has not begun, or is on its way into the select.
Shutdown ==
    /\ Main("sets", "waiting")
    /\ \E told \in SUBSET {i \in runtimes : loop[i] = "select"} :
          /\ loop' = [i \in Requests |-> IF i \in told THEN "stopping" ELSE loop[i]]
          /\ stops' = [i \in Requests |-> IF i \in told THEN 2 ELSE stops[i]]
    /\ UNCHANGED <<registry, status, process, stage, given>>

\* wg.Wait counts the loops that have begun.
Exit ==
    /\ Main("waiting", "exited")
    /\ \A i \in Requests : loop[i] \notin {"select", "stopping"}
    /\ UNCHANGED <<registry, loops, process, stage, given>>

\* The program has not ended, and all its goroutines with it.
Up == main \notin {"exited", "aborted"}

RegistryNext ==
    /\ Up
    /\ \/ \E r \in Requests : Ask(r) \/ AnswerAtOnce(r) \/ Open(r)
       \/ \E r \in Requests, q \in Queries : RunSearch(r, q)
       \/ \E i \in Requests : Begin(i) \/ Signal(i) \/ HandleLast(i) \/ TimeOut(i) \/ Stop(i)
       \/ Interrupt \/ ForceShutdown \/ CloseServer \/ CloseSets \/ Shutdown \/ Exit

RegistrySpec == RegistryInit /\ [][RegistryNext]_registryVars

\* Go's scheduler runs every goroutine that can run.  The activity timer ends any
\* loop that is left alone; nothing says that upstream sites answer, or that the
\* runtime sets' side shuts down.
FairRegistrySpec ==
    /\ RegistrySpec
    /\ \A i \in Requests : WF_registryVars(Up /\ Begin(i)) /\ WF_registryVars(Up /\ Stop(i))
                           /\ WF_registryVars(Up /\ TimeOut(i))
    /\ WF_registryVars(Up /\ (CloseServer \/ Shutdown \/ Exit))

----------------------------------------------------------------------------
(* Properties *)

RegistryTypeOK ==
    /\ runtimes \subseteq Requests
    /\ byKey \in [Queries -> Requests \cup {Absent}]
    /\ key \in [Requests -> Queries \cup {Absent}]
    /\ status \in [Requests -> {"running", "over"}]
    /\ loop \in [Requests -> {"none", "started", "select", "stopping", "ended"}]
    /\ stops \in [Requests -> 0..2]
    /\ process \in [Requests -> {"none", "working", "signalled", "ended"}]
    /\ stage \in [Requests -> {"idle", "searching", "answered", "opened", "gone"}]
    /\ given \in [Requests -> Requests \cup {Absent}]
    /\ main \in {"serving", "closing", "closed", "sets", "waiting", "exited", "aborted"}

\* A search that runs can be found by its id and by its query, so a query has one
\* at most; and what can be found has an event loop that has not ended, so that no
\* client registers with one that was over when it was looked up: whichever request
\* replaced whichever stale runtime, and however late the ends of those come
\* (handler.go: RunSearch, removeRuntimeLocked).
RegistrySound ==
    /\ RegistryTypeOK
    /\ \A i \in Requests :
          loop[i] \in {"started", "select"} /\ IsAlive(i) => i \in runtimes /\ byKey[key[i]] = i
    /\ \A i \in runtimes : loop[i] \notin {"none", "ended"}
    /\ \A q \in Queries : byKey[q] # Absent => byKey[q] \in runtimes /\ key[byKey[q]] = q

\* Every search ends and is forgotten, or the program ends, also while the runtime
\* sets' side keeps main() from shutting the searches down.  Once that side is shut
\* down the program does end, whether or not its signal reached the loops (main.go;
\* handler.go: Shutdown).
RuntimesEnd ==
    /\ \A i \in Requests :
          loop[i] = "started" ~> (loop[i] = "ended" /\ i \notin runtimes)
                                 \/ ~Up
    /\ main = "sets" ~> ~Up

\* "the client should connect to /api/v1/search/ws/{websocket_id} to receive
\* results" (search_handler.go:43): an id that a client was given can be opened.
GivenCanBeOpened == \A r \in Requests : stage[r] # "gone"

\* "Shutdown gracefully stops all runtimes and waits for them to finish"
\* (handler.go:101).
AllFinished ==
    main = "exited" => \A i \in Requests : loop[i] \in {"none", "ended"}

=============================================================================
