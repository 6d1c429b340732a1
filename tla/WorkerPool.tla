------------------------------- MODULE WorkerPool -------------------------------
(***************************************************************************)
(* The generic worker pool of internal/workerpool/pool.go: one goroutine   *)
(* runs Process (it submits the jobs, closes the jobs channel, waits for   *)
(* the workers, closes the results channel and waits for the collector),   *)
(* the worker goroutines turn jobs into results, and one collector         *)
(* goroutine hands the results to the caller's handler, in batches or one  *)
(* by one.  They share three buffered channels and a cancellable context.  *)
(*                                                                         *)
(* A result is represented by the number of the job it answers: an error   *)
(* of the worker function changes nothing in the control, because the      *)
(* (possibly zero) result is sent all the same.  processedCount is never   *)
(* read by the pool and is left out.                                       *)
(***************************************************************************)
EXTENDS Naturals, Sequences, FiniteSets, Functions

CONSTANTS
  Workers,          \* the worker goroutines
  NumJobs,          \* len(jobs) of the call of Process
  ConfigBatchSize,  \* Config.BatchSize as the caller gave it
  Batching,         \* TRUE: a batchHandler was passed, FALSE: streaming mode
  HandlerMayFail,   \* the caller's handler may return an error
  MayCancel         \* somebody else may cancel the context (Pool.Cancel, parent)

ASSUME WorkerPoolAssumption ==
  /\ IsFiniteSet(Workers) /\ Workers # {}
  /\ NumJobs \in Nat
  /\ ConfigBatchSize \in Nat
  /\ Batching \in BOOLEAN
  /\ HandlerMayFail \in BOOLEAN
  /\ MayCancel \in BOOLEAN

Job == 1..NumJobs
NoJob == 0

\* NewPool normalises the batch size: a missing one is 10, streaming uses 1.
BatchSize == IF ~Batching THEN 1
             ELSE IF ConfigBatchSize < 1 THEN 10 ELSE ConfigBatchSize

\* Capacities of the channels NewPool makes.
ChanCap == 2 * Cardinality(Workers)
UnbufferedVerdict == 0   \* (a fault)
DoneCap == 1

VARIABLES
  pc,             \* where Process is
  ret,            \* what Process returned
  submitted,      \* jobs[1..submitted] were sent to the jobs channel
  jobs, jobsClosed,
  wpc, held,      \* where each worker is, the job whose result it holds
  results, resultsClosed,
  cancelled,      \* p.ctx is done
  cpc,            \* where the collector is
  batch,          \* currentBatch
  collectorDone,  \* the channel of the collector's verdict
  delivered       \* how often each result was passed to the caller's handler

procVars    == <<pc, ret, submitted>>
workerVars  == <<wpc, held>>
collectVars == <<cpc, batch, collectorDone, delivered>>
vars == <<pc, ret, submitted, jobs, jobsClosed, wpc, held, results,
          resultsClosed, cancelled, cpc, batch, collectorDone, delivered>>

Verdict == {"nil", "ctxErr", "handlerErr"}

TypeOK ==
  /\ pc \in {"start", "submit", "waitWorkers", "waitCollector", "returned"}
  /\ ret \in Verdict \cup {"none"}
  /\ submitted \in 0..NumJobs
  /\ jobs \in Seq(Job) /\ jobsClosed \in BOOLEAN
  /\ wpc \in [Workers -> {"unborn", "idle", "busy", "done"}]
  /\ held \in [Workers -> Job \cup {NoJob}]
  /\ \A w \in Workers : wpc[w] = "busy" => held[w] \in Job
  /\ results \in Seq(Job) /\ resultsClosed \in BOOLEAN
  /\ cancelled \in BOOLEAN
  /\ cpc \in {"unborn", "run", "done"}
  /\ batch \in Seq(Job)
  /\ collectorDone \in Seq(Verdict)
  /\ delivered \in [Job -> Nat]

Init ==
  /\ pc = "start" /\ ret = "none" /\ submitted = 0
  /\ jobs = <<>> /\ jobsClosed = FALSE
  /\ wpc = [w \in Workers |-> "unborn"] /\ held = [w \in Workers |-> NoJob]
  /\ results = <<>> /\ resultsClosed = FALSE
  /\ cancelled = FALSE
  /\ cpc = "unborn" /\ batch = <<>> /\ collectorDone = <<>>
  /\ delivered = [j \in Job |-> 0]

-----------------------------------------------------------------------------
(* The goroutine that called Process *)

ReturnNothingToDo ==
  /\ pc = "start" /\ NumJobs = 0
  /\ pc' = "returned" /\ ret' = "nil"
  /\ UNCHANGED <<submitted, jobs, jobsClosed, workerVars, results,
                 resultsClosed, cancelled, collectVars>>

StartGoroutines ==
  /\ pc = "start" /\ NumJobs > 0
  /\ pc' = "submit"
  /\ wpc' = [w \in Workers |-> "idle"]
  /\ cpc' = "run"
  /\ UNCHANGED <<ret, submitted, jobs, jobsClosed, held, results,
                 resultsClosed, cancelled, batch, collectorDone, delivered>>

\* A fault: an off-by-one in the submission loop.
SubmitOneTooMany ==
  /\ pc = "submit" /\ submitted <= NumJobs /\ Len(jobs) < ChanCap
  /\ submitted' = submitted + 1
  /\ jobs' = Append(jobs, submitted + 1)
  /\ UNCHANGED <<pc, ret, jobsClosed, workerVars, results, resultsClosed,
                 cancelled, collectVars>>

SubmitJob ==
  /\ pc = "submit" /\ submitted < NumJobs /\ Len(jobs) < ChanCap
  /\ submitted' = submitted + 1
  /\ jobs' = Append(jobs, submitted + 1)
  /\ UNCHANGED <<pc, ret, jobsClosed, workerVars, results, resultsClosed,
                 cancelled, collectVars>>

\* The other branch of the submission's select: return at once, the jobs
\* channel stays open and nobody waits for the workers or the collector.
AbortSubmission ==
  /\ pc = "submit" /\ submitted < NumJobs /\ cancelled
  /\ pc' = "returned" /\ ret' = "ctxErr"
  /\ UNCHANGED <<submitted, jobs, jobsClosed, workerVars, results,
                 resultsClosed, cancelled, collectVars>>

CloseJobs ==
  /\ pc = "submit" /\ submitted = NumJobs
  /\ pc' = "waitWorkers" /\ jobsClosed' = TRUE
  /\ UNCHANGED <<ret, submitted, jobs, workerVars, results, resultsClosed,
                 cancelled, collectVars>>

\* A fault: no wg.Wait() before the results channel is closed.
CloseResultsEarly ==
  /\ pc = "waitWorkers"
  /\ pc' = "waitCollector" /\ resultsClosed' = TRUE
  /\ UNCHANGED <<ret, submitted, jobs, jobsClosed, workerVars, results,
                 cancelled, collectVars>>

CloseResults ==
  /\ pc = "waitWorkers" /\ \A w \in Workers : wpc[w] = "done"
  /\ pc' = "waitCollector" /\ resultsClosed' = TRUE
  /\ UNCHANGED <<ret, submitted, jobs, jobsClosed, workerVars, results,
                 cancelled, collectVars>>

ReturnVerdict ==
  /\ pc = "waitCollector" /\ collectorDone # <<>>
  /\ pc' = "returned" /\ ret' = Head(collectorDone)
  /\ collectorDone' = Tail(collectorDone)
  /\ UNCHANGED <<submitted, jobs, jobsClosed, workerVars, results,
                 resultsClosed, cancelled, cpc, batch, delivered>>

\* Process returns at once when there is nothing to do.
Start == IF NumJobs = 0 THEN ReturnNothingToDo ELSE StartGoroutines

Process ==
  \/ Start \/ SubmitJob \/ AbortSubmission
  \/ CloseJobs \/ CloseResults \/ ReturnVerdict

-----------------------------------------------------------------------------
(* Workers *)

TakeJob(w) ==
  /\ wpc[w] = "idle" /\ jobs # <<>>
  /\ wpc' = [wpc EXCEPT ![w] = "busy"]
  /\ held' = [held EXCEPT ![w] = Head(jobs)]
  /\ jobs' = Tail(jobs)
  /\ UNCHANGED <<procVars, jobsClosed, results, resultsClosed, cancelled,
                 collectVars>>

SendResult(w) ==
  /\ wpc[w] = "busy" /\ Len(results) < ChanCap
  /\ wpc' = [wpc EXCEPT ![w] = "idle"]
  /\ held' = [held EXCEPT ![w] = NoJob]
  /\ results' = Append(results, held[w])
  /\ UNCHANGED <<procVars, jobs, jobsClosed, resultsClosed, cancelled,
                 collectVars>>

\* ctx.Done at either select, or the jobs channel closed and drained.  A
\* worker that stops while it holds a result loses it.
StopWorker(w) ==
  /\ \/ wpc[w] \in {"idle", "busy"} /\ cancelled
     \/ wpc[w] = "idle" /\ jobsClosed /\ jobs = <<>>
  /\ wpc' = [wpc EXCEPT ![w] = "done"]
  /\ held' = [held EXCEPT ![w] = NoJob]
  /\ UNCHANGED <<procVars, jobs, jobsClosed, results, resultsClosed, cancelled,
                 collectVars>>

Worker(w) == TakeJob(w) \/ SendResult(w) \/ StopWorker(w)

-----------------------------------------------------------------------------
(* The collector *)

\* Send the verdict (there must be room in the channel, or a receiver) and end.
Report(v) ==
  /\ \/ Len(collectorDone) < DoneCap
     \/ collectorDone = <<>> /\ pc = "waitCollector"
  /\ collectorDone' = Append(collectorDone, v)
  /\ cpc' = "done"

\* The handler is called with b; count what it was given.
Handle(b) ==
  delivered' = [j \in Job |-> IF j \in Range(b) THEN delivered[j] + 1
                                                ELSE delivered[j]]

\* A fault: the error is reported, but the context is not cancelled.
FailWithoutCancel ==
  /\ HandlerMayFail
  /\ UNCHANGED cancelled
  /\ Report("handlerErr")

\* The handler returned an error: cancel the context and report it.
HandlerFailed ==
  /\ HandlerMayFail
  /\ cancelled' = TRUE
  /\ Report("handlerErr")

\* A fault: the result stays in the channel.
ReceiveAgain == results # <<>> /\ UNCHANGED results

Receive ==
  /\ results # <<>>
  /\ results' = Tail(results)

StopCollector ==
  /\ cpc = "run" /\ cancelled
  /\ Report("ctxErr")
  /\ UNCHANGED <<procVars, jobs, jobsClosed, workerVars, results,
                 resultsClosed, cancelled, batch, delivered>>

\* A fault: > instead of >= in the test of the batch's size.
CollectOneMore ==
  /\ cpc = "run" /\ Batching
  /\ Receive
  /\ LET grown == Append(batch, Head(results))
     IN  \/ /\ Len(grown) <= BatchSize
            /\ batch' = grown
            /\ UNCHANGED <<cancelled, cpc, collectorDone, delivered>>
         \/ /\ Len(grown) > BatchSize
            /\ Handle(grown)
            /\ batch' = <<>> /\ UNCHANGED <<cancelled, cpc, collectorDone>>
  /\ UNCHANGED <<procVars, jobs, jobsClosed, workerVars, resultsClosed>>

CollectIntoBatch ==
  /\ cpc = "run" /\ Batching
  /\ Receive
  /\ LET grown == Append(batch, Head(results))
     IN  \/ /\ Len(grown) < BatchSize
            /\ batch' = grown
            /\ UNCHANGED <<cancelled, cpc, collectorDone, delivered>>
         \/ /\ Len(grown) >= BatchSize
            /\ Handle(grown)
            /\ \/ batch' = <<>> /\ UNCHANGED <<cancelled, cpc, collectorDone>>
               \/ batch' = grown /\ HandlerFailed
  /\ UNCHANGED <<procVars, jobs, jobsClosed, workerVars, resultsClosed>>

\* A fault: the ticker's flush does not start a new batch.
FlushWithoutReset ==
  /\ cpc = "run" /\ Batching /\ batch # <<>>
  /\ Handle(batch)
  /\ UNCHANGED <<procVars, jobs, jobsClosed, workerVars, results,
                 resultsClosed, cancelled, cpc, batch, collectorDone>>

FlushOnTick ==
  /\ cpc = "run" /\ Batching /\ batch # <<>>
  /\ Handle(batch)
  /\ \/ batch' = <<>> /\ UNCHANGED <<cancelled, cpc, collectorDone>>
     \/ HandlerFailed /\ UNCHANGED batch
  /\ UNCHANGED <<procVars, jobs, jobsClosed, workerVars, results,
                 resultsClosed>>

\* A fault: the last, incomplete batch is not flushed.
EndWithoutFlush ==
  /\ cpc = "run" /\ Batching /\ results = <<>> /\ resultsClosed
  /\ Report("nil")
  /\ UNCHANGED <<procVars, jobs, jobsClosed, workerVars, results,
                 resultsClosed, cancelled, batch, delivered>>

FinalFlush ==
  /\ cpc = "run" /\ Batching /\ results = <<>> /\ resultsClosed
  /\ \/ batch = <<>> /\ Report("nil") /\ UNCHANGED <<cancelled, batch, delivered>>
     \/ /\ batch # <<>>
        /\ Handle(batch)
        /\ \/ batch' = <<>> /\ Report("nil") /\ UNCHANGED cancelled
           \/ HandlerFailed /\ UNCHANGED batch
  /\ UNCHANGED <<procVars, jobs, jobsClosed, workerVars, results,
                 resultsClosed>>

StreamResult ==
  /\ cpc = "run" /\ ~Batching
  /\ Receive
  /\ Handle(<<Head(results)>>)
  /\ \/ UNCHANGED <<cancelled, cpc, collectorDone>>
     \/ HandlerFailed
  /\ UNCHANGED <<procVars, jobs, jobsClosed, workerVars, resultsClosed, batch>>

StreamEnd ==
  /\ cpc = "run" /\ ~Batching /\ results = <<>> /\ resultsClosed
  /\ Report("nil")
  /\ UNCHANGED <<procVars, jobs, jobsClosed, workerVars, results,
                 resultsClosed, cancelled, batch, delivered>>

Collector ==
  \/ StopCollector
  \/ CollectIntoBatch \/ FlushOnTick \/ FinalFlush
  \/ StreamResult \/ StreamEnd

-----------------------------------------------------------------------------
\* Pool.Cancel, or the cancellation of the context NewPool was given.
Cancel ==
  /\ MayCancel /\ ~cancelled
  /\ cancelled' = TRUE
  /\ UNCHANGED <<procVars, jobs, jobsClosed, workerVars, results,
                 resultsClosed, collectVars>>

AllStopped ==
  /\ \A w \in Workers : wpc[w] \in {"unborn", "done"}
  /\ cpc \in {"unborn", "done"}

\* Everything ended: stutter, so that any other stop is a deadlock.
Ended ==
  /\ pc = "returned" /\ AllStopped
  /\ UNCHANGED vars

Next == Process \/ (\E w \in Workers : Worker(w)) \/ Collector \/ Cancel \/ Ended

Spec == Init /\ [][Next]_vars

\* Every goroutine keeps running: the Go scheduler starves nobody, and the
\* caller's worker function and handler return.
Fairness ==
  /\ WF_vars(Process)
  /\ \A w \in Workers : WF_vars(Worker(w))
  /\ WF_vars(Collector)

FairSpec == Spec /\ Fairness

-----------------------------------------------------------------------------
(* What the pool promises its caller, as a specification of its own *)

Promise == INSTANCE BatchDelivery
           WITH MaxBatch <- BatchSize,
                MayFail  <- HandlerMayFail \/ MayCancel,
                given    <- {j \in Job : delivered[j] > 0},
                closed   <- cpc = "done",
                outcome  <- ret

ImplementsPromise == Promise!Spec

-----------------------------------------------------------------------------
(* Properties *)

\* No result is passed to the handler twice, whichever of the full-batch, the
\* ticker and the final flush delivers it.
DeliveredAtMostOnce == \A j \in Job : delivered[j] <= 1

\* "Process processes all jobs and returns when complete" (pool.go:102): when
\* Process reports success every result has been handed to the handler.
CompleteOnSuccess == ret = "nil" => \A j \in Job : delivered[j] = 1

\* After Process returned the collector's verdict, no goroutine of the pool is
\* left that could still call the handler or the worker function.
QuietAfterVerdict == (pc = "returned" /\ ret \in {"nil", "handlerErr"}) => AllStopped

\* No worker can still send when results is closed (a panic in Go).
NoSendOnClosed == resultsClosed => \A w \in Workers : wpc[w] = "done"

\* Process returns, whatever the handler answers and whenever the context ends.
ProcessReturns == <>(pc = "returned")

\* No goroutine of the pool is leaked, even when Process returned early.
NoLeak == (pc = "returned") ~> AllStopped
=================================================================================
