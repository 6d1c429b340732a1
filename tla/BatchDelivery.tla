------------------------------ MODULE BatchDelivery -----------------------------
(***************************************************************************)
(* What a worker pool promises the code that calls Process, with no word   *)
(* of channels and goroutines: results reach the handler in disjoint       *)
(* non-empty batches of a bounded size, a success means that every result  *)
(* did, and once delivery is closed the handler is never called again.     *)
(***************************************************************************)
EXTENDS Naturals, FiniteSets

CONSTANTS
  Job,       \* the jobs of one call
  MaxBatch,  \* the largest batch
  MayFail    \* the call may end with an error

VARIABLES
  given,     \* the jobs whose result the handler was given
  closed,    \* no further batch will be delivered
  outcome    \* "none" until the call returns

vars == <<given, closed, outcome>>

Init == given = {} /\ closed = FALSE /\ outcome = "none"

\* The handler gets one more batch; its answer may close the delivery.
Deliver ==
  /\ ~closed
  /\ given' # given /\ given \subseteq given' /\ given' \subseteq Job
  /\ Cardinality(given' \ given) <= MaxBatch
  /\ closed' \in BOOLEAN
  /\ UNCHANGED outcome

Close == ~closed /\ closed' = TRUE /\ UNCHANGED <<given, outcome>>

Succeed ==
  /\ outcome = "none" /\ given = Job /\ (closed \/ Job = {})
  /\ outcome' = "nil" /\ UNCHANGED <<given, closed>>

Fail ==
  /\ MayFail /\ outcome = "none"
  /\ outcome' \in {"ctxErr", "handlerErr"} /\ UNCHANGED <<given, closed>>

Next == Deliver \/ Close \/ Succeed \/ Fail

Spec == Init /\ [][Next]_vars
=================================================================================
