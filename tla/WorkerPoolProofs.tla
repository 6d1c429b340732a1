----------------------------- MODULE WorkerPoolProofs ----------------------------
(***************************************************************************)
(* What is proved of WorkerPool for any number of workers and jobs, any    *)
(* batch size and both modes.                                              *)
(***************************************************************************)
EXTENDS WorkerPool, FiniteSetTheorems, TLAPS

\* The jobs 1..Taken have left the jobs channel.
Taken == submitted - Len(jobs)

InResults(j) == \E i \in 1..Len(results) : results[i] = j
InBatch(j)   == \E i \in 1..Len(batch) : batch[i] = j
Held(j)      == \E w \in Workers : held[w] = j

\* The jobs channel holds the jobs after Taken, in order.
JobsInOrder ==
  /\ Len(jobs) <= submitted
  /\ \A i \in 1..Len(jobs) : jobs[i] = Taken + i

\* A job whose result exists is in one place only: held by one worker, once in
\* the results channel, once in the current batch, or delivered once.
HeldOnce ==
  /\ \A w \in Workers : held[w] # NoJob <=> wpc[w] = "busy"
  /\ \A w \in Workers : held[w] # NoJob => held[w] <= Taken
  /\ \A v, w \in Workers : held[v] = held[w] /\ held[v] # NoJob => v = w
InResultsOnce ==
  \A i \in 1..Len(results) :
    /\ results[i] <= Taken /\ ~Held(results[i]) /\ delivered[results[i]] = 0
    /\ \A k \in 1..Len(results) : results[k] = results[i] => k = i
InBatchOnce ==
  \A i \in 1..Len(batch) :
    /\ batch[i] <= Taken /\ ~Held(batch[i]) /\ ~InResults(batch[i])
    /\ cpc # "done" => delivered[batch[i]] = 0
    /\ \A k \in 1..Len(batch) : batch[k] = batch[i] => k = i
DeliveredOnce ==
  \A j \in Job : delivered[j] # 0 => delivered[j] = 1 /\ j <= Taken /\ ~Held(j)
OnePlace == HeldOnce /\ InResultsOnce /\ InBatchOnce /\ DeliveredOnce

\* As long as the context lives no result is lost.
NothingLost ==
  ~cancelled => \A j \in 1..Taken :
                  delivered[j] = 1 \/ InResults(j) \/ InBatch(j) \/ Held(j)

\* What the control state of one goroutine says about the others.
Control ==
  /\ pc \in {"start", "submit", "waitWorkers", "waitCollector"} <=> ret = "none"
  /\ pc = "start" => \A w \in Workers : wpc[w] = "unborn"
  /\ pc = "start" => cpc = "unborn"
  /\ pc \in {"submit", "waitWorkers", "waitCollector"} =>
       cpc # "unborn" /\ \A w \in Workers : wpc[w] # "unborn"
  /\ pc \in {"waitWorkers", "waitCollector"} => jobsClosed
  /\ pc = "waitCollector" => resultsClosed
  /\ jobsClosed => submitted = NumJobs /\ pc # "start"
  /\ resultsClosed => jobsClosed /\ \A w \in Workers : wpc[w] = "done"
  /\ \A w \in Workers : wpc[w] = "done" /\ ~cancelled => jobsClosed /\ jobs = <<>>
  /\ ret \in {"nil", "handlerErr"} => AllStopped
  /\ cpc = "unborn" => submitted = 0
  /\ collectorDone # <<>> => cpc = "done"

\* What the verdict in the channel says.
Verdicts ==
  /\ Len(collectorDone) <= 1
  /\ ~Batching => batch = <<>>
  /\ (collectorDone # <<>> /\ collectorDone[1] = "nil") =>
       resultsClosed /\ results = <<>> /\ batch = <<>>

\* Nobody but a failing handler cancels: then the verdict is an error.
HandlerCancels ==
  ~MayCancel =>
    /\ cancelled => /\ cpc = "done" /\ ret # "nil"
                    /\ collectorDone # <<>> => collectorDone[1] # "nil"
    /\ CompleteOnSuccess

IInv == /\ TypeOK /\ Control /\ Verdicts /\ JobsInOrder /\ OnePlace
        /\ NothingLost /\ HandlerCancels

-----------------------------------------------------------------------------
(* Type correctness *)

\* What the assumption says of the numbers derived from the constants.
LEMMA ConstantsTyped ==
  /\ NumJobs \in Nat /\ Job \subseteq Nat /\ NoJob \notin Job
  /\ BatchSize \in Nat /\ BatchSize >= 1
  /\ ChanCap \in Nat /\ Workers # {}
<1>1. Cardinality(Workers) \in Nat
  BY FS_CardinalityType, WorkerPoolAssumption
<1>2. QED
  BY <1>1, WorkerPoolAssumption DEF Job, NoJob, BatchSize, ChanCap

\* The empty sequence is a sequence of anything.
LEMMA EmptyTyped == <<>> \in Seq(Job) /\ <<>> \in Seq(Verdict)
OBVIOUS

\* The state NewPool makes is typed.
LEMMA TypeInit == Init => TypeOK
<1> SUFFICES ASSUME Init PROVE TypeOK
  OBVIOUS
<1>1. wpc \in [Workers -> {"unborn", "idle", "busy", "done"}] /\ \A w \in Workers : wpc[w] # "busy"
  BY DEF Init
<1>2. held \in [Workers -> Job \cup {NoJob}]
  BY DEF Init
<1>3. delivered \in [Job -> Nat]
  BY DEF Init
<1>4. jobsClosed \in BOOLEAN /\ resultsClosed \in BOOLEAN /\ cancelled \in BOOLEAN
  BY DEF Init
<1>5. jobs \in Seq(Job) /\ results \in Seq(Job) /\ batch \in Seq(Job) /\ collectorDone \in Seq(Verdict)
  BY EmptyTyped DEF Init
<1>6. pc = "start" /\ ret = "none" /\ submitted = 0 /\ cpc = "unborn"
  BY DEF Init
<1>7. QED
  BY <1>1, <1>2, <1>3, <1>4, <1>5, <1>6, ConstantsTyped DEF TypeOK

\* Counting what the handler was given keeps the counters natural numbers.
LEMMA HandleTyped == TypeOK => \A b : Handle(b) => delivered' \in [Job -> Nat]
<1> SUFFICES ASSUME TypeOK, NEW b, Handle(b) PROVE delivered' \in [Job -> Nat]
  OBVIOUS
<1>1. \A j \in Job : (IF j \in Range(b) THEN delivered[j] + 1 ELSE delivered[j]) \in Nat
  BY DEF TypeOK
<1>2. QED
  BY <1>1 DEF Handle

\* A verdict reported is a verdict, also that of a failed handler.
LEMMA ReportTyped ==
  TypeOK => /\ \A v \in Verdict : Report(v) => collectorDone' \in Seq(Verdict) /\ cpc' = "done"
            /\ HandlerFailed => collectorDone' \in Seq(Verdict) /\ cpc' = "done"
<1> SUFFICES ASSUME TypeOK
             PROVE /\ \A v \in Verdict : Report(v) => collectorDone' \in Seq(Verdict) /\ cpc' = "done"
                   /\ HandlerFailed => collectorDone' \in Seq(Verdict) /\ cpc' = "done"
  OBVIOUS
<1>1. \A v \in Verdict : Report(v) => collectorDone' \in Seq(Verdict) /\ cpc' = "done"
  BY DEF TypeOK, Report
<1>2. "handlerErr" \in Verdict
  BY DEF Verdict
<1>3. HandlerFailed => Report("handlerErr")
  BY DEF HandlerFailed
<1>4. QED
  BY <1>1, <1>2, <1>3

\* Every step of Process, a worker, the collector or a canceller keeps the types.
LEMMA TypeNext == TypeOK /\ [Next]_vars => TypeOK'
<1> SUFFICES ASSUME TypeOK, [Next]_vars PROVE TypeOK'
  OBVIOUS
<1> USE ConstantsTyped, EmptyTyped
<1>1. CASE ReturnNothingToDo
  BY <1>1 DEF TypeOK, ReturnNothingToDo, Verdict, workerVars, collectVars
<1>2. CASE StartGoroutines
  BY <1>2 DEF TypeOK, StartGoroutines, workerVars, collectVars
<1>3. CASE SubmitJob
  BY <1>3 DEF TypeOK, SubmitJob, Job, workerVars, collectVars
<1>4. CASE AbortSubmission
  BY <1>4 DEF TypeOK, AbortSubmission, Verdict, workerVars, collectVars
<1>5. CASE CloseJobs
  BY <1>5 DEF TypeOK, CloseJobs, workerVars, collectVars
<1>6. CASE CloseResults
  BY <1>6 DEF TypeOK, CloseResults, workerVars, collectVars
<1>7. CASE ReturnVerdict
  BY <1>7 DEF TypeOK, ReturnVerdict, Verdict, workerVars, collectVars
<1>8. ASSUME NEW w \in Workers, TakeJob(w) PROVE TypeOK'
  BY <1>8 DEF TypeOK, TakeJob, procVars, collectVars
<1>9. ASSUME NEW w \in Workers, SendResult(w) PROVE TypeOK'
  BY <1>9 DEF TypeOK, SendResult, procVars, collectVars
<1>10. ASSUME NEW w \in Workers, StopWorker(w) PROVE TypeOK'
  BY <1>10 DEF TypeOK, StopWorker, procVars, collectVars
<1>11. CASE StopCollector
  BY <1>11 DEF TypeOK, StopCollector, Report, Receive, HandlerFailed, Verdict, procVars, workerVars
<1>12. CASE CollectIntoBatch
  <2>1. delivered' \in [Job -> Nat]
    BY <1>12, HandleTyped DEF TypeOK, CollectIntoBatch
  <2>2. cancelled' \in BOOLEAN
    BY <1>12 DEF TypeOK, CollectIntoBatch, HandlerFailed
  <2>3. batch' \in Seq(Job) /\ results' \in Seq(Job) /\ collectorDone' \in Seq(Verdict) /\ cpc' \in {"unborn", "run", "done"}
    <3>1. results' \in Seq(Job) /\ Append(batch, Head(results)) \in Seq(Job)
      BY <1>12 DEF TypeOK, CollectIntoBatch, Receive
    <3>2. \/ UNCHANGED <<cpc, collectorDone>>
          \/ HandlerFailed
      BY <1>12 DEF CollectIntoBatch
    <3>3. batch' = <<>> \/ batch' = Append(batch, Head(results))
      BY <1>12 DEF CollectIntoBatch
    <3>4. QED
      BY <3>1, <3>2, <3>3, ReportTyped DEF TypeOK
  <2>4. UNCHANGED <<procVars, jobs, jobsClosed, workerVars, resultsClosed>>
    BY <1>12 DEF CollectIntoBatch
  <2>5. QED
    BY <2>1, <2>2, <2>3, <2>4 DEF TypeOK, procVars, workerVars
<1>13. CASE FlushOnTick
  <2>1. delivered' \in [Job -> Nat]
    BY <1>13, HandleTyped DEF TypeOK, FlushOnTick
  <2>2. cancelled' \in BOOLEAN
    BY <1>13 DEF TypeOK, FlushOnTick, HandlerFailed
  <2>3. batch' \in Seq(Job) /\ results' \in Seq(Job) /\ collectorDone' \in Seq(Verdict) /\ cpc' \in {"unborn", "run", "done"}
    BY <1>13, ReportTyped DEF TypeOK, FlushOnTick, Receive, Verdict
  <2>4. UNCHANGED <<procVars, jobs, jobsClosed, workerVars, resultsClosed>>
    BY <1>13 DEF FlushOnTick
  <2>5. QED
    BY <2>1, <2>2, <2>3, <2>4 DEF TypeOK, procVars, workerVars
<1>14. CASE FinalFlush
  <2>1. delivered' \in [Job -> Nat]
    BY <1>14, HandleTyped DEF TypeOK, FinalFlush
  <2>2. cancelled' \in BOOLEAN
    BY <1>14 DEF TypeOK, FinalFlush, HandlerFailed
  <2>3. batch' \in Seq(Job) /\ results' \in Seq(Job) /\ collectorDone' \in Seq(Verdict) /\ cpc' \in {"unborn", "run", "done"}
    BY <1>14, ReportTyped DEF TypeOK, FinalFlush, Receive, Verdict
  <2>4. UNCHANGED <<procVars, jobs, jobsClosed, workerVars, resultsClosed>>
    BY <1>14 DEF FinalFlush
  <2>5. QED
    BY <2>1, <2>2, <2>3, <2>4 DEF TypeOK, procVars, workerVars
<1>15. CASE StreamResult
  <2>1. delivered' \in [Job -> Nat]
    BY <1>15, HandleTyped DEF TypeOK, StreamResult
  <2>2. cancelled' \in BOOLEAN
    BY <1>15 DEF TypeOK, StreamResult, HandlerFailed
  <2>3. batch' \in Seq(Job) /\ results' \in Seq(Job) /\ collectorDone' \in Seq(Verdict) /\ cpc' \in {"unborn", "run", "done"}
    BY <1>15, ReportTyped DEF TypeOK, StreamResult, Receive, Verdict
  <2>4. UNCHANGED <<procVars, jobs, jobsClosed, workerVars, resultsClosed>>
    BY <1>15 DEF StreamResult
  <2>5. QED
    BY <2>1, <2>2, <2>3, <2>4 DEF TypeOK, procVars, workerVars
<1>16. CASE StreamEnd
  BY <1>16 DEF TypeOK, StreamEnd, Report, Receive, HandlerFailed, Verdict, procVars, workerVars
<1>17. CASE Cancel
  BY <1>17 DEF TypeOK, Cancel, procVars, workerVars, collectVars
<1>18. CASE UNCHANGED vars
  BY <1>18 DEF TypeOK, vars
<1>19. QED
  BY <1>1, <1>2, <1>3, <1>4, <1>5, <1>6, <1>7, <1>8, <1>9, <1>10, <1>11, <1>12, <1>13, <1>14, <1>15, <1>16,
     <1>17, <1>18
  DEF Next, Process, Start, Worker, Collector, Ended

\* Every variable keeps its type.
THEOREM TypeCorrect == Spec => []TypeOK
BY TypeInit, TypeNext, PTL DEF Spec

-----------------------------------------------------------------------------
(* Control: who may still run when Process has reached a given point *)

\* Nothing has been started yet.
LEMMA ControlInit == Init => Control
BY DEF Init, Control, AllStopped

\* No goroutine gets ahead of the ones it has to wait for.
LEMMA ControlNext == TypeOK /\ Control /\ [Next]_vars => Control'
<1> SUFFICES ASSUME TypeOK, Control, [Next]_vars PROVE Control'
  OBVIOUS
<1> USE ConstantsTyped DEF TypeOK, Control, AllStopped
<1>1. CASE ReturnNothingToDo
  BY <1>1 DEF ReturnNothingToDo, workerVars, collectVars
<1>2. CASE StartGoroutines
  BY <1>2 DEF StartGoroutines, workerVars, collectVars
<1>3. CASE SubmitJob
  BY <1>3 DEF SubmitJob, workerVars, collectVars
<1>4. CASE AbortSubmission
  BY <1>4 DEF AbortSubmission, workerVars, collectVars
<1>5. CASE CloseJobs
  BY <1>5 DEF CloseJobs, workerVars, collectVars
<1>6. CASE CloseResults
  BY <1>6 DEF CloseResults, workerVars, collectVars
<1>7. CASE ReturnVerdict
  BY <1>7 DEF ReturnVerdict, workerVars, collectVars, Verdict
<1>8. ASSUME NEW w \in Workers, TakeJob(w) PROVE Control'
  BY <1>8 DEF TakeJob, procVars, collectVars
<1>9. ASSUME NEW w \in Workers, SendResult(w) PROVE Control'
  BY <1>9 DEF SendResult, procVars, collectVars
<1>10. ASSUME NEW w \in Workers, StopWorker(w) PROVE Control'
  BY <1>10 DEF StopWorker, procVars, collectVars
<1>11. CASE StopCollector
  BY <1>11 DEF StopCollector, Report, Receive, HandlerFailed, procVars, workerVars
<1>12. CASE CollectIntoBatch
  BY <1>12 DEF CollectIntoBatch, Report, Receive, HandlerFailed, procVars, workerVars
<1>13. CASE FlushOnTick
  BY <1>13 DEF FlushOnTick, Report, Receive, HandlerFailed, procVars, workerVars
<1>14. CASE FinalFlush
  BY <1>14 DEF FinalFlush, Report, Receive, HandlerFailed, procVars, workerVars
<1>15. CASE StreamResult
  BY <1>15 DEF StreamResult, Report, Receive, HandlerFailed, procVars, workerVars
<1>16. CASE StreamEnd
  BY <1>16 DEF StreamEnd, Report, Receive, HandlerFailed, procVars, workerVars
<1>17. CASE Cancel
  BY <1>17 DEF Cancel, procVars, workerVars, collectVars
<1>18. CASE UNCHANGED vars
  BY <1>18 DEF vars
<1>19. QED
  BY <1>1, <1>2, <1>3, <1>4, <1>5, <1>6, <1>7, <1>8, <1>9, <1>10, <1>11, <1>12, <1>13, <1>14, <1>15, <1>16,
     <1>17, <1>18
  DEF Next, Process, Start, Worker, Collector, Ended

\* The order in which the goroutines stop: workers, results channel, collector,
\* Process (pool.go:139-146).
THEOREM ControlCorrect == Spec => []Control
<1>1. TypeOK /\ Control /\ [Next]_vars => (TypeOK /\ Control)'
  BY TypeNext, ControlNext
<1>2. Init => TypeOK /\ Control
  BY TypeInit, ControlInit
<1>3. QED
  BY <1>1, <1>2, PTL DEF Spec

-----------------------------------------------------------------------------
(* No result is delivered twice *)

\* No job has been submitted, so none is anywhere.
LEMMA OnePlaceInit == Init => JobsInOrder /\ OnePlace
BY ConstantsTyped DEF Init, JobsInOrder, OnePlace, HeldOnce, InResultsOnce, InBatchOnce, DeliveredOnce, Taken, Held

\* A step moves a job from one place to the next and leaves no copy behind.
LEMMA OnePlaceNext == TypeOK /\ Control /\ JobsInOrder /\ OnePlace /\ [Next]_vars => JobsInOrder' /\ OnePlace'
<1> SUFFICES ASSUME TypeOK, Control, JobsInOrder, OnePlace, [Next]_vars PROVE JobsInOrder' /\ OnePlace'
  OBVIOUS
<1>1. CASE ReturnNothingToDo
  BY <1>1, ConstantsTyped DEF TypeOK, JobsInOrder, OnePlace, HeldOnce, InResultsOnce, InBatchOnce, DeliveredOnce, Taken, Held, InResults, ReturnNothingToDo, workerVars, collectVars
<1>2. CASE StartGoroutines
  BY <1>2, ConstantsTyped DEF TypeOK, JobsInOrder, OnePlace, HeldOnce, InResultsOnce, InBatchOnce, DeliveredOnce, Taken, Held, InResults, StartGoroutines, workerVars, collectVars, Control
<1>3. CASE SubmitJob
  <2>1. /\ jobs' = Append(jobs, submitted + 1) /\ submitted' = submitted + 1 /\ submitted < NumJobs
        /\ UNCHANGED <<workerVars, results, collectVars>>
    BY <1>3 DEF SubmitJob
  <2>2. jobs \in Seq(Job) /\ submitted + 1 \in Job /\ submitted \in Nat
    BY <2>1, ConstantsTyped DEF TypeOK, Job
  <2>3. Len(jobs') = Len(jobs) + 1 /\ Taken' = Taken /\ Taken \in Int
    BY <2>1, <2>2 DEF Taken
  <2>4. JobsInOrder'
    BY <2>1, <2>2, <2>3 DEF JobsInOrder, Taken
  <2>5. HeldOnce' /\ InResultsOnce' /\ InBatchOnce' /\ DeliveredOnce'
    BY <2>1, <2>3 DEF OnePlace, HeldOnce, InResultsOnce, InBatchOnce, DeliveredOnce, Held, InResults, workerVars, collectVars
  <2>6. QED
    BY <2>4, <2>5 DEF OnePlace
<1>4. CASE AbortSubmission
  BY <1>4, ConstantsTyped DEF TypeOK, JobsInOrder, OnePlace, HeldOnce, InResultsOnce, InBatchOnce, DeliveredOnce, Taken, Held, InResults, AbortSubmission, workerVars, collectVars
<1>5. CASE CloseJobs
  BY <1>5, ConstantsTyped DEF TypeOK, JobsInOrder, OnePlace, HeldOnce, InResultsOnce, InBatchOnce, DeliveredOnce, Taken, Held, InResults, CloseJobs, workerVars, collectVars
<1>6. CASE CloseResults
  BY <1>6, ConstantsTyped DEF TypeOK, JobsInOrder, OnePlace, HeldOnce, InResultsOnce, InBatchOnce, DeliveredOnce, Taken, Held, InResults, CloseResults, workerVars, collectVars
<1>7. CASE ReturnVerdict
  BY <1>7, ConstantsTyped DEF TypeOK, JobsInOrder, OnePlace, HeldOnce, InResultsOnce, InBatchOnce, DeliveredOnce, Taken, Held, InResults, ReturnVerdict, workerVars, collectVars
<1>8. ASSUME NEW w \in Workers, TakeJob(w) PROVE JobsInOrder' /\ OnePlace'
  <2>1. /\ wpc[w] = "idle" /\ jobs # <<>>
        /\ wpc' = [wpc EXCEPT ![w] = "busy"] /\ held' = [held EXCEPT ![w] = Head(jobs)] /\ jobs' = Tail(jobs)
        /\ UNCHANGED <<submitted, results, cpc, batch, delivered>>
    BY <1>8 DEF TakeJob, procVars, collectVars
  <2>2. /\ Len(jobs) >= 1 /\ Len(jobs') = Len(jobs) - 1 /\ Head(jobs) = jobs[1]
        /\ \A i \in 1..Len(jobs') : jobs'[i] = jobs[i + 1]
    BY <2>1 DEF TypeOK
  <2>3. Taken' = Taken + 1 /\ Taken \in Int /\ Head(jobs) = Taken + 1 /\ Head(jobs) \in Job
    BY <2>1, <2>2 DEF Taken, JobsInOrder, TypeOK
  <2>4. JobsInOrder'
    BY <2>1, <2>2, <2>3 DEF Taken, JobsInOrder, TypeOK
  <2>a. held[w] = NoJob /\ NoJob \notin Job /\ Job \subseteq Nat
    BY <2>1, ConstantsTyped DEF OnePlace, HeldOnce
  <2>b. \A v \in Workers : held'[v] = IF v = w THEN Taken + 1 ELSE held[v]
    BY <2>1, <2>3 DEF TypeOK
  <2>c. \A v \in Workers : wpc'[v] = IF v = w THEN "busy" ELSE wpc[v]
    BY <2>1 DEF TypeOK
  <2>d. Taken + 1 \in Job /\ \A v \in Workers : held[v] # NoJob => held[v] \in Job /\ held[v] <= Taken
    BY <2>3 DEF OnePlace, HeldOnce, TypeOK
  <2>5. \A j \in Job : j <= Taken => (Held(j)' <=> Held(j)) /\ j <= Taken'
    BY <2>3, <2>a, <2>b DEF Held
  <2>6. HeldOnce'
    <3>1. \A v \in Workers : held'[v] # NoJob <=> wpc'[v] = "busy"
      BY <2>a, <2>b, <2>c, <2>d DEF OnePlace, HeldOnce
    <3>2. ASSUME NEW v \in Workers, held'[v] # NoJob PROVE held'[v] <= Taken'
      <4>1. CASE v = w
        BY <4>1, <2>3, <2>b
      <4>2. CASE v # w
        <5>1. held'[v] = held[v] /\ held[v] \in Nat /\ held[v] <= Taken
          BY <4>2, <3>2, <2>a, <2>b, <2>d
        <5>2. QED
          BY <5>1, <2>3
      <4>3. QED
        BY <4>1, <4>2
    <3>3. \A u, v \in Workers : held'[u] = held'[v] /\ held'[u] # NoJob => u = v
      BY <2>3, <2>a, <2>b, <2>d DEF OnePlace, HeldOnce
    <3>4. QED
      BY <3>1, <3>2, <3>3 DEF HeldOnce
  <2>7. InResultsOnce'
    BY <2>1, <2>5 DEF OnePlace, InResultsOnce, TypeOK
  <2>8. InBatchOnce'
    BY <2>1, <2>5, SMTT(20) DEF OnePlace, InBatchOnce, InResults, TypeOK
  <2>9. DeliveredOnce'
    BY <2>1, <2>5 DEF OnePlace, DeliveredOnce, TypeOK
  <2>10. QED
    BY <2>4, <2>6, <2>7, <2>8, <2>9 DEF OnePlace
<1>9. ASSUME NEW w \in Workers, SendResult(w) PROVE JobsInOrder' /\ OnePlace'
  <2>1. /\ wpc[w] = "busy" /\ wpc' = [wpc EXCEPT ![w] = "idle"]
        /\ held' = [held EXCEPT ![w] = NoJob] /\ results' = Append(results, held[w])
        /\ UNCHANGED <<submitted, jobs, cpc, batch, delivered>>
    BY <1>9 DEF SendResult, procVars, collectVars
  <2>2. held[w] \in Job /\ held[w] # NoJob /\ held[w] <= Taken /\ delivered[held[w]] = 0
    BY <2>1, ConstantsTyped DEF TypeOK, OnePlace, HeldOnce, DeliveredOnce, Held
  <2>3. /\ Len(results') = Len(results) + 1 /\ results'[Len(results) + 1] = held[w]
        /\ \A i \in 1..Len(results) : results'[i] = results[i] /\ results[i] \in Job
        /\ Len(results) \in Nat
    BY <2>1, <2>2 DEF TypeOK
  <2>4. Taken' = Taken /\ JobsInOrder'
    BY <2>1 DEF Taken, JobsInOrder
  <2>5. \A j \in Job : Held(j)' <=> Held(j) /\ j # held[w]
    BY <2>1, ConstantsTyped DEF Held, OnePlace, HeldOnce, TypeOK
  <2>6. HeldOnce'
    BY <2>1, <2>4 DEF OnePlace, HeldOnce, TypeOK
  <2>7. InResultsOnce'
    <3>1. \A i \in 1..Len(results) : results[i] # held[w]
      BY <2>2 DEF OnePlace, InResultsOnce, Held
    <3>2. \A i \in 1..Len(results') :
            results'[i] \in Job /\ results'[i] <= Taken /\ delivered[results'[i]] = 0
      BY <2>2, <2>3 DEF OnePlace, InResultsOnce
    <3>3. \A i \in 1..Len(results') : \A v \in Workers : held'[v] # results'[i]
      BY <2>2, <2>3, <2>5 DEF OnePlace, InResultsOnce, Held
    <3>4. \A i, k \in 1..Len(results') : results'[k] = results'[i] => k = i
      BY <2>2, <2>3, <3>1 DEF OnePlace, InResultsOnce
    <3>5. QED
      BY <2>1, <2>4, <3>2, <3>3, <3>4 DEF InResultsOnce, Held
  <2>8. InBatchOnce'
    <3>1. \A i \in 1..Len(batch) : batch[i] \in Job /\ batch[i] # held[w] /\ ~InResults(batch[i])
      BY <2>2 DEF OnePlace, InBatchOnce, Held, TypeOK
    <3>2. \A j \in Job : j # held[w] => (InResults(j)' <=> InResults(j))
      BY <2>3 DEF InResults
    <3>3. \A j \in Job : Held(j)' => Held(j)
      BY <2>5
    <3>4. QED
      BY <2>1, <2>4, <3>1, <3>2, <3>3 DEF OnePlace, InBatchOnce
  <2>9. DeliveredOnce'
    BY <2>1, <2>4, <2>5 DEF OnePlace, DeliveredOnce
  <2>10. QED
    BY <2>4, <2>6, <2>7, <2>8, <2>9 DEF OnePlace
<1>10. ASSUME NEW w \in Workers, StopWorker(w) PROVE JobsInOrder' /\ OnePlace'
  BY <1>10, ConstantsTyped DEF TypeOK, JobsInOrder, OnePlace, HeldOnce, InResultsOnce, InBatchOnce, DeliveredOnce, Taken, Held, InResults, StopWorker, procVars, collectVars
<1>11. CASE StopCollector
  BY <1>11, ConstantsTyped DEF TypeOK, JobsInOrder, OnePlace, HeldOnce, InResultsOnce, InBatchOnce, DeliveredOnce, Taken, Held, InResults, StopCollector, Report, Receive, HandlerFailed, Handle, Range, procVars, workerVars
<1>12. CASE CollectIntoBatch
  <2> DEFINE grown == Append(batch, Head(results))
  <2>1. /\ cpc = "run" /\ results # <<>> /\ results' = Tail(results)
        /\ \/ batch' = grown /\ UNCHANGED <<delivered>>
           \/ Handle(grown) /\ (batch' = <<>> \/ (batch' = grown /\ cpc' = "done"))
        /\ UNCHANGED <<submitted, jobs, held, wpc>>
    BY <1>12 DEF CollectIntoBatch, Receive, HandlerFailed, Report, procVars, workerVars
  <2>2. JobsInOrder' /\ Taken' = Taken /\ HeldOnce'
    BY <2>1 DEF JobsInOrder, Taken, OnePlace, HeldOnce
  <2>3. /\ Len(results) >= 1 /\ Len(results') = Len(results) - 1 /\ Head(results) = results[1]
        /\ \A i \in 1..Len(results') : results'[i] = results[i + 1]
        /\ \A i \in 1..Len(results) : results[i] \in Job
    BY <2>1 DEF TypeOK
  <2>4. /\ Len(grown) = Len(batch) + 1 /\ grown[Len(batch) + 1] = results[1] /\ Len(batch) \in Nat
        /\ \A i \in 1..Len(batch) : grown[i] = batch[i] /\ batch[i] \in Job
    BY <2>1, <2>3 DEF TypeOK
  <2>5. \A i \in 1..Len(grown) : grown[i] \in Job /\ grown[i] <= Taken /\ ~Held(grown[i]) /\ delivered[grown[i]] = 0
    BY <2>1, <2>3, <2>4 DEF OnePlace, InResultsOnce, InBatchOnce
  <2>6. \A i, k \in 1..Len(grown) : grown[i] = grown[k] => i = k
    <3>1. \A i \in 1..Len(batch) : batch[i] # results[1]
      BY <2>3 DEF OnePlace, InBatchOnce, InResults
    <3>2. \A i, k \in 1..Len(batch) : batch[i] = batch[k] => i = k
      BY DEF OnePlace, InBatchOnce
    <3> HIDE DEF grown
    <3>3. \A i \in 1..Len(grown) : i = Len(batch) + 1 \/ i \in 1..Len(batch)
      BY <2>4
    <3>4. QED
      BY <2>4, <3>1, <3>2, <3>3
  <2>7. \A i \in 1..Len(grown) : \A k \in 1..Len(results') : results'[k] # grown[i]
    <3>1. \A k \in 1..Len(results') : k + 1 \in 1..Len(results) /\ k + 1 # 1 /\ results'[k] = results[k + 1]
      BY <2>3
    <3>2. \A k \in 2..Len(results) : results[k] # results[1]
      BY <2>3 DEF OnePlace, InResultsOnce
    <3>3. \A i \in 1..Len(batch), k \in 1..Len(results) : results[k] # batch[i]
      BY DEF OnePlace, InBatchOnce, InResults
    <3> HIDE DEF grown
    <3>4. \A i \in 1..Len(grown) : i = Len(batch) + 1 \/ i \in 1..Len(batch)
      BY <2>4
    <3>5. QED
      BY <2>3, <2>4, <3>1, <3>2, <3>3, <3>4
  <2>8. delivered' = delivered \/
        \A j \in Job : delivered'[j] = IF \E i \in 1..Len(grown) : grown[i] = j THEN delivered[j] + 1 ELSE delivered[j]
    <3>1. CASE Handle(grown)
      <4> HIDE DEF grown
      <4>1. grown \in Seq(Job) /\ DOMAIN grown = 1..Len(grown)
        BY <2>1, <2>3 DEF TypeOK, grown
      <4>2. QED
        BY <3>1, <4>1 DEF Handle, Range
    <3>2. QED
      BY <2>1, <3>1
  <2> HIDE DEF grown
  <2>9. InResultsOnce'
    BY <2>1, <2>2, <2>3, <2>7, <2>8 DEF OnePlace, InResultsOnce, Held
  <2>10. InBatchOnce'
    BY <2>1, <2>2, <2>5, <2>6, <2>7 DEF InBatchOnce, InResults, Held
  <2>11. DeliveredOnce'
    <3>1. ASSUME NEW j \in Job, delivered'[j] # 0
          PROVE  delivered'[j] = 1 /\ j <= Taken /\ ~Held(j)
      <4>1. CASE \E i \in 1..Len(grown) : grown[i] = j
        <5>1. delivered[j] = 0 /\ j <= Taken /\ ~Held(j)
          BY <4>1, <2>5
        <5>2. delivered'[j] = delivered[j] \/ delivered'[j] = delivered[j] + 1
          BY <2>8
        <5>3. QED
          BY <3>1, <5>1, <5>2
      <4>2. CASE ~ \E i \in 1..Len(grown) : grown[i] = j
        BY <4>2, <3>1, <2>8 DEF OnePlace, DeliveredOnce
      <4>3. QED
        BY <4>1, <4>2
    <3>2. QED
      BY <3>1, <2>1, <2>2 DEF DeliveredOnce, Held
  <2>12. QED
    BY <2>2, <2>9, <2>10, <2>11 DEF OnePlace
<1>13. CASE FlushOnTick
  <2>1. /\ cpc = "run" /\ Handle(batch) /\ (batch' = <<>> \/ (batch' = batch /\ cpc' = "done"))
        /\ UNCHANGED <<submitted, jobs, held, wpc, results>>
    BY <1>13, ReportTyped DEF FlushOnTick, Report, HandlerFailed, procVars, workerVars
  <2>2. JobsInOrder' /\ Taken' = Taken /\ HeldOnce'
    BY <2>1 DEF JobsInOrder, Taken, OnePlace, HeldOnce
  <2>a. batch \in Seq(Job) /\ DOMAIN batch = 1..Len(batch)
    BY DEF TypeOK
  <2>3. \A j \in Job : delivered'[j] = IF \E i \in 1..Len(batch) : batch[i] = j THEN delivered[j] + 1 ELSE delivered[j]
    BY <2>1, <2>a DEF Handle, Range
  <2>b. \A i \in 1..Len(batch) : batch[i] \in Job /\ batch[i] <= Taken /\ ~Held(batch[i]) /\ delivered[batch[i]] = 0
    BY <2>1, <2>a DEF OnePlace, InBatchOnce
  <2>c. \A i \in 1..Len(batch) : \A k \in 1..Len(results) : results[k] # batch[i]
    BY DEF OnePlace, InBatchOnce, InResults
  <2>d. \A k \in 1..Len(results) : results[k] \in Job
    BY DEF TypeOK
  <2>4. InResultsOnce'
    BY <2>1, <2>2, <2>3, <2>c, <2>d DEF OnePlace, InResultsOnce, Held
  <2>5. InBatchOnce'
    BY <2>1, <2>2 DEF OnePlace, InBatchOnce, Held, InResults
  <2>6. DeliveredOnce'
    <3>1. ASSUME NEW j \in Job, delivered'[j] # 0
          PROVE  delivered'[j] = 1 /\ j <= Taken /\ ~Held(j)
      <4>1. CASE \E i \in 1..Len(batch) : batch[i] = j
        BY <4>1, <2>3, <2>b
      <4>2. CASE ~ \E i \in 1..Len(batch) : batch[i] = j
        BY <4>2, <3>1, <2>3 DEF OnePlace, DeliveredOnce
      <4>3. QED
        BY <4>1, <4>2
    <3>2. QED
      BY <3>1, <2>1, <2>2 DEF DeliveredOnce, Held
  <2>7. QED
    BY <2>2, <2>4, <2>5, <2>6 DEF OnePlace
<1>14. CASE FinalFlush
  <2>0. CASE batch = <<>>
    BY <2>0, <1>14, ConstantsTyped DEF FinalFlush, Report, procVars, workerVars, TypeOK, JobsInOrder, OnePlace, HeldOnce, InResultsOnce, InBatchOnce, DeliveredOnce, Taken, Held, InResults
  <2> SUFFICES ASSUME batch # <<>> PROVE JobsInOrder' /\ OnePlace'
    BY <2>0
  <2>1. /\ cpc = "run" /\ Handle(batch) /\ (batch' = <<>> \/ (batch' = batch /\ cpc' = "done"))
        /\ UNCHANGED <<submitted, jobs, held, wpc, results>>
    BY <1>14, ReportTyped DEF FinalFlush, Report, HandlerFailed, procVars, workerVars
  <2>2. JobsInOrder' /\ Taken' = Taken /\ HeldOnce'
    BY <2>1 DEF JobsInOrder, Taken, OnePlace, HeldOnce
  <2>a. batch \in Seq(Job) /\ DOMAIN batch = 1..Len(batch)
    BY DEF TypeOK
  <2>3. \A j \in Job : delivered'[j] = IF \E i \in 1..Len(batch) : batch[i] = j THEN delivered[j] + 1 ELSE delivered[j]
    BY <2>1, <2>a DEF Handle, Range
  <2>b. \A i \in 1..Len(batch) : batch[i] \in Job /\ batch[i] <= Taken /\ ~Held(batch[i]) /\ delivered[batch[i]] = 0
    BY <2>1, <2>a DEF OnePlace, InBatchOnce
  <2>c. \A i \in 1..Len(batch) : \A k \in 1..Len(results) : results[k] # batch[i]
    BY DEF OnePlace, InBatchOnce, InResults
  <2>d. \A k \in 1..Len(results) : results[k] \in Job
    BY DEF TypeOK
  <2>4. InResultsOnce'
    BY <2>1, <2>2, <2>3, <2>c, <2>d DEF OnePlace, InResultsOnce, Held
  <2>5. InBatchOnce'
    BY <2>1, <2>2 DEF OnePlace, InBatchOnce, Held, InResults
  <2>6. DeliveredOnce'
    <3>1. ASSUME NEW j \in Job, delivered'[j] # 0
          PROVE  delivered'[j] = 1 /\ j <= Taken /\ ~Held(j)
      <4>1. CASE \E i \in 1..Len(batch) : batch[i] = j
        BY <4>1, <2>3, <2>b
      <4>2. CASE ~ \E i \in 1..Len(batch) : batch[i] = j
        BY <4>2, <3>1, <2>3 DEF OnePlace, DeliveredOnce
      <4>3. QED
        BY <4>1, <4>2
    <3>2. QED
      BY <3>1, <2>1, <2>2 DEF DeliveredOnce, Held
  <2>7. QED
    BY <2>2, <2>4, <2>5, <2>6 DEF OnePlace
<1>15. CASE StreamResult
  <2>1. /\ cpc = "run" /\ Handle(<<Head(results)>>) /\ results # <<>> /\ results' = Tail(results)
        /\ UNCHANGED <<submitted, jobs, held, wpc, batch>>
    BY <1>15 DEF StreamResult, Receive, procVars, workerVars
  <2>2. JobsInOrder' /\ Taken' = Taken /\ HeldOnce'
    BY <2>1 DEF JobsInOrder, Taken, OnePlace, HeldOnce
  <2>3. /\ Len(results) >= 1 /\ Len(results') = Len(results) - 1 /\ Head(results) = results[1]
        /\ \A i \in 1..Len(results') : results'[i] = results[i + 1]
        /\ \A i \in 1..Len(results) : results[i] \in Job
    BY <2>1 DEF TypeOK
  <2>4. \A j \in Job : delivered'[j] = IF j = results[1] THEN delivered[j] + 1 ELSE delivered[j]
    BY <2>1, <2>3 DEF Handle, Range
  <2>5. InResultsOnce'
    BY <2>1, <2>2, <2>3, <2>4 DEF OnePlace, InResultsOnce, Held
  <2>6. InBatchOnce'
    <3>1. \A j \in Job : InResults(j)' => InResults(j)
      BY <2>3 DEF InResults
    <3>2. \A i \in 1..Len(batch) : batch[i] \in Job /\ batch[i] # results[1]
      BY <2>3 DEF OnePlace, InBatchOnce, InResults, TypeOK
    <3>3. QED
      BY <2>1, <2>2, <2>4, <3>1, <3>2 DEF OnePlace, InBatchOnce, Held, TypeOK
  <2>7. DeliveredOnce'
    BY <2>1, <2>2, <2>3, <2>4 DEF OnePlace, DeliveredOnce, InResultsOnce, Held, TypeOK
  <2>8. QED
    BY <2>2, <2>5, <2>6, <2>7 DEF OnePlace
<1>16. CASE StreamEnd
  BY <1>16, ConstantsTyped DEF TypeOK, JobsInOrder, OnePlace, HeldOnce, InResultsOnce, InBatchOnce, DeliveredOnce, Taken, Held, InResults, StreamEnd, Report, Receive, HandlerFailed, Handle, Range, procVars, workerVars
<1>17. CASE Cancel
  BY <1>17, ConstantsTyped DEF TypeOK, JobsInOrder, OnePlace, HeldOnce, InResultsOnce, InBatchOnce, DeliveredOnce, Taken, Held, InResults, Cancel, procVars, workerVars, collectVars
<1>18. CASE UNCHANGED vars
  BY <1>18, ConstantsTyped DEF TypeOK, JobsInOrder, OnePlace, HeldOnce, InResultsOnce, InBatchOnce, DeliveredOnce, Taken, Held, InResults, vars
<1>19. QED
  BY <1>1, <1>2, <1>3, <1>4, <1>5, <1>6, <1>7, <1>8, <1>9, <1>10, <1>11, <1>12, <1>13, <1>14, <1>15, <1>16,
     <1>17, <1>18
  DEF Next, Process, Start, Worker, Collector, Ended

\* A result is in one place only on its way from a worker to the handler.
THEOREM OnePlaceCorrect == Spec => []OnePlace
<1>1. Init => TypeOK /\ Control /\ JobsInOrder /\ OnePlace
  BY TypeInit, ControlInit, OnePlaceInit
<1>2. (TypeOK /\ Control /\ JobsInOrder /\ OnePlace) /\ [Next]_vars
        => (TypeOK /\ Control /\ JobsInOrder /\ OnePlace)'
  BY TypeNext, ControlNext, OnePlaceNext
<1>3. QED
  BY <1>1, <1>2, PTL DEF Spec

\* Whichever of the full batch, the ticker and the final flush hands a result to
\* the caller's handler, no result is handed over twice (pool.go collectBatched).
THEOREM NeverTwice == Spec => []DeliveredAtMostOnce
<1>1. OnePlace => DeliveredAtMostOnce
  BY DEF OnePlace, DeliveredOnce, DeliveredAtMostOnce
<1>2. QED
  BY <1>1, TypeCorrect, OnePlaceCorrect, PTL

\* No worker can send on the results channel once Process closed it (pool.go:143).
THEOREM NeverSendsOnClosed == Spec => []NoSendOnClosed
<1>1. Control => NoSendOnClosed
  BY DEF Control, NoSendOnClosed
<1>2. QED
  BY <1>1, ControlCorrect, PTL

\* When Process returned the collector's verdict, all its goroutines ended.
THEOREM QuietWhenReturned == Spec => []QuietAfterVerdict
<1>1. Control => QuietAfterVerdict
  BY DEF Control, QuietAfterVerdict
<1>2. QED
  BY <1>1, ControlCorrect, PTL

-----------------------------------------------------------------------------
(* Nothing is lost *)

\* The collector reports success only with every channel and its batch empty.
LEMMA VerdictsNext == TypeOK /\ Control /\ Verdicts /\ [Next]_vars => Verdicts'
<1> SUFFICES ASSUME TypeOK, Control, Verdicts, [Next]_vars PROVE Verdicts'
  OBVIOUS
<1>1. CASE ReturnNothingToDo
  BY <1>1, ConstantsTyped DEF ReturnNothingToDo, TypeOK, Control, Verdicts, workerVars, collectVars
<1>2. CASE StartGoroutines
  BY <1>2, ConstantsTyped DEF StartGoroutines, TypeOK, Control, Verdicts, workerVars, collectVars
<1>3. CASE SubmitJob
  BY <1>3, ConstantsTyped DEF SubmitJob, TypeOK, Control, Verdicts, workerVars, collectVars
<1>4. CASE AbortSubmission
  BY <1>4, ConstantsTyped DEF AbortSubmission, TypeOK, Control, Verdicts, workerVars, collectVars
<1>5. CASE CloseJobs
  BY <1>5, ConstantsTyped DEF CloseJobs, TypeOK, Control, Verdicts, workerVars, collectVars
<1>6. CASE CloseResults
  BY <1>6, ConstantsTyped DEF CloseResults, TypeOK, Control, Verdicts, workerVars, collectVars
<1>7. CASE ReturnVerdict
  BY <1>7, ConstantsTyped DEF ReturnVerdict, TypeOK, Control, Verdicts, workerVars, collectVars
<1>8. ASSUME NEW w \in Workers, TakeJob(w) PROVE Verdicts'
  BY <1>8, ConstantsTyped DEF TakeJob, TypeOK, Control, Verdicts, procVars, collectVars
<1>9. ASSUME NEW w \in Workers, SendResult(w) PROVE Verdicts'
  BY <1>9, ConstantsTyped DEF SendResult, TypeOK, Control, Verdicts, procVars, collectVars
<1>10. ASSUME NEW w \in Workers, StopWorker(w) PROVE Verdicts'
  BY <1>10, ConstantsTyped DEF StopWorker, TypeOK, Control, Verdicts, procVars, collectVars
<1>11. CASE StopCollector
  BY <1>11, ConstantsTyped DEF StopCollector, TypeOK, Control, Verdicts, Report, Receive, HandlerFailed, procVars, workerVars
<1>12. CASE CollectIntoBatch
  BY <1>12, ConstantsTyped DEF CollectIntoBatch, TypeOK, Control, Verdicts, Report, Receive, HandlerFailed, procVars, workerVars
<1>13. CASE FlushOnTick
  BY <1>13, ConstantsTyped DEF FlushOnTick, TypeOK, Control, Verdicts, Report, Receive, HandlerFailed, procVars, workerVars
<1>14. CASE FinalFlush
  BY <1>14, ConstantsTyped DEF FinalFlush, TypeOK, Control, Verdicts, Report, Receive, HandlerFailed, procVars, workerVars
<1>15. CASE StreamResult
  BY <1>15, ConstantsTyped DEF StreamResult, TypeOK, Control, Verdicts, Report, Receive, HandlerFailed, procVars, workerVars
<1>16. CASE StreamEnd
  BY <1>16, ConstantsTyped DEF StreamEnd, TypeOK, Control, Verdicts, Report, Receive, HandlerFailed, procVars, workerVars
<1>17. CASE Cancel
  BY <1>17 DEF Cancel, TypeOK, Control, Verdicts, procVars, workerVars, collectVars
<1>18. CASE UNCHANGED vars
  BY <1>18 DEF vars, TypeOK, Control, Verdicts
<1>19. QED
  BY <1>1, <1>2, <1>3, <1>4, <1>5, <1>6, <1>7, <1>8, <1>9, <1>10, <1>11, <1>12, <1>13, <1>14, <1>15, <1>16,
     <1>17, <1>18
  DEF Next, Process, Start, Worker, Collector, Ended

\* Unless the context is cancelled, no step drops a job that was taken.
LEMMA NothingLostNext == TypeOK /\ Control /\ JobsInOrder /\ OnePlace /\ NothingLost /\ [Next]_vars => NothingLost'
<1> SUFFICES ASSUME TypeOK, Control, JobsInOrder, OnePlace, NothingLost, [Next]_vars PROVE NothingLost'
  OBVIOUS
<1>1. CASE ReturnNothingToDo
  BY <1>1, ConstantsTyped DEF ReturnNothingToDo, TypeOK, NothingLost, InResults, InBatch, Held, Taken, workerVars, collectVars
<1>2. CASE StartGoroutines
  BY <1>2, ConstantsTyped DEF StartGoroutines, TypeOK, NothingLost, InResults, InBatch, Held, Taken, workerVars, collectVars
<1>3. CASE SubmitJob
  <2>1. UNCHANGED <<cancelled, results, workerVars, collectVars>> /\ Taken' = Taken
    BY <1>3, ConstantsTyped DEF SubmitJob, Taken, TypeOK
  <2>2. QED
    BY <2>1 DEF NothingLost, InResults, InBatch, Held, workerVars, collectVars
<1>4. CASE AbortSubmission
  BY <1>4, ConstantsTyped DEF AbortSubmission, TypeOK, NothingLost, InResults, InBatch, Held, Taken, workerVars, collectVars
<1>5. CASE CloseJobs
  BY <1>5, ConstantsTyped DEF CloseJobs, TypeOK, NothingLost, InResults, InBatch, Held, Taken, workerVars, collectVars
<1>6. CASE CloseResults
  BY <1>6, ConstantsTyped DEF CloseResults, TypeOK, NothingLost, InResults, InBatch, Held, Taken, workerVars, collectVars
<1>7. CASE ReturnVerdict
  BY <1>7, ConstantsTyped DEF ReturnVerdict, TypeOK, NothingLost, InResults, InBatch, Held, Taken, workerVars, collectVars
<1>8. ASSUME NEW w \in Workers, TakeJob(w) PROVE NothingLost'
  <2>1. /\ held' = [held EXCEPT ![w] = Head(jobs)] /\ jobs' = Tail(jobs) /\ jobs # <<>> /\ wpc[w] = "idle"
        /\ UNCHANGED <<submitted, results, cancelled, batch, delivered>>
    BY <1>8 DEF TakeJob, procVars, collectVars
  <2>2. Taken' = Taken + 1 /\ Taken \in Int /\ Head(jobs) = Taken + 1 /\ held[w] = NoJob
    BY <2>1, ConstantsTyped DEF Taken, JobsInOrder, TypeOK, OnePlace, HeldOnce
  <2>3. \A v \in Workers : held'[v] = IF v = w THEN Taken + 1 ELSE held[v]
    BY <2>1, <2>2 DEF TypeOK
  <2>4. ASSUME ~cancelled, NEW j \in 1..(Taken + 1)
        PROVE  delivered'[j] = 1 \/ InResults(j)' \/ InBatch(j)' \/ \E v \in Workers : held'[v] = j
    <3>1. CASE j = Taken + 1
      BY <3>1, <2>3
    <3>2. CASE j # Taken + 1
      <4>1. j \in 1..Taken /\ j # NoJob
        BY <3>2, <2>2 DEF NoJob
      <4>2. delivered[j] = 1 \/ InResults(j) \/ InBatch(j) \/ \E v \in Workers : held[v] = j /\ v # w
        BY <2>2, <2>4, <4>1 DEF NothingLost, Held
      <4>3. QED
        BY <4>2, <2>1, <2>3 DEF InResults, InBatch
    <3>3. QED
      BY <3>1, <3>2
  <2>5. QED
    BY <2>1, <2>2, <2>4 DEF NothingLost, Held
<1>9. ASSUME NEW w \in Workers, SendResult(w) PROVE NothingLost'
  <2>1. /\ held' = [held EXCEPT ![w] = NoJob] /\ results' = Append(results, held[w]) /\ wpc[w] = "busy"
        /\ UNCHANGED <<submitted, jobs, cancelled, batch, delivered>>
    BY <1>9 DEF SendResult, procVars, collectVars
  <2>2. Taken' = Taken
    BY <2>1 DEF Taken
  <2>3. /\ Len(results') = Len(results) + 1 /\ results'[Len(results) + 1] = held[w] /\ Len(results) \in Nat
        /\ \A i \in 1..Len(results) : results'[i] = results[i]
    BY <2>1 DEF TypeOK
  <2>4. ASSUME ~cancelled, NEW j \in 1..Taken
        PROVE  delivered'[j] = 1 \/ InResults(j)' \/ InBatch(j)' \/ \E v \in Workers : held'[v] = j
    <3>1. CASE Held(j)
      <4>1. CASE held[w] = j
        BY <4>1, <2>3 DEF InResults
      <4>2. CASE held[w] # j
        BY <3>1, <4>2, <2>1 DEF Held, TypeOK
      <4>3. QED
        BY <4>1, <4>2
    <3>2. CASE InResults(j)
      BY <3>2, <2>3 DEF InResults
    <3>3. CASE delivered[j] = 1 \/ InBatch(j)
      BY <3>3, <2>1 DEF InBatch
    <3>4. QED
      BY <2>4, <3>1, <3>2, <3>3 DEF NothingLost
  <2>5. QED
    BY <2>1, <2>2, <2>4 DEF NothingLost, Held
<1>10. ASSUME NEW w \in Workers, StopWorker(w) PROVE NothingLost'
  <2>1. /\ held' = [held EXCEPT ![w] = NoJob] /\ (wpc[w] = "idle" \/ cancelled)
        /\ UNCHANGED <<submitted, jobs, results, cancelled, batch, delivered>>
    BY <1>10 DEF StopWorker, procVars, collectVars
  <2>2. Taken' = Taken
    BY <2>1 DEF Taken
  <2>3. ~cancelled => held' = held
    BY <2>1 DEF OnePlace, HeldOnce, TypeOK
  <2>4. QED
    BY <2>1, <2>2, <2>3 DEF NothingLost, InResults, InBatch, Held
<1>11. CASE StopCollector
  BY <1>11, ConstantsTyped DEF StopCollector, TypeOK, NothingLost, InResults, InBatch, Held, Taken, Report, Receive, HandlerFailed, procVars, workerVars
<1>12. CASE CollectIntoBatch
  <2> DEFINE grown == Append(batch, Head(results))
  <2>1. /\ cpc = "run" /\ results # <<>> /\ results' = Tail(results)
        /\ \/ batch' = grown /\ UNCHANGED <<delivered>>
           \/ Handle(grown)
        /\ UNCHANGED <<submitted, jobs, held>>
    BY <1>12 DEF CollectIntoBatch, Receive, procVars, workerVars
  <2>2. Taken' = Taken /\ Taken <= NumJobs /\ (~cancelled' => ~cancelled)
    <3>1. ~cancelled' => ~cancelled
      BY <1>12 DEF CollectIntoBatch, HandlerFailed
    <3>2. QED
      BY <3>1, <2>1, ConstantsTyped DEF Taken, TypeOK, JobsInOrder
  <2>3. /\ Len(results) >= 1 /\ Len(results') = Len(results) - 1 /\ Head(results) = results[1]
        /\ \A i \in 1..Len(results') : results'[i] = results[i + 1]
        /\ \A i \in 1..Len(results) : results[i] \in Job
    BY <2>1 DEF TypeOK
  <2>4. /\ Len(grown) = Len(batch) + 1 /\ grown[Len(batch) + 1] = results[1] /\ Len(batch) \in Nat
        /\ \A i \in 1..Len(batch) : grown[i] = batch[i] /\ batch[i] \in Job
    BY <2>1, <2>3 DEF TypeOK
  <2>5. \A i \in 1..Len(grown) : delivered[grown[i]] = 0
    BY <2>1, <2>3, <2>4 DEF OnePlace, InResultsOnce, InBatchOnce
  <2>6. grown \in Seq(Job) /\ DOMAIN grown = 1..Len(grown)
    BY <2>1, <2>3 DEF TypeOK
  <2> HIDE DEF grown
  <2>7. ASSUME ~cancelled, NEW j \in 1..Taken
        PROVE  delivered'[j] = 1 \/ InResults(j)' \/ InBatch(j)' \/ \E v \in Workers : held'[v] = j
    <3>1. j \in Job
      BY <2>2, ConstantsTyped DEF Job, Taken, TypeOK
    <3>2. CASE \E i \in 1..Len(grown) : grown[i] = j
      <4>1. CASE batch' = grown
        BY <3>2, <4>1 DEF InBatch
      <4>2. CASE Handle(grown)
        BY <3>1, <3>2, <4>2, <2>5, <2>6 DEF Handle, Range
      <4>3. QED
        BY <4>1, <4>2, <2>1
    <3>3. CASE delivered[j] = 1
      <4>1. ~ \E i \in 1..Len(grown) : grown[i] = j
        BY <3>3, <2>5
      <4>2. CASE Handle(grown)
        BY <3>1, <3>3, <4>1, <4>2, <2>6 DEF Handle, Range
      <4>3. QED
        BY <3>3, <4>2, <2>1
    <3>4. CASE InResults(j) /\ ~ \E i \in 1..Len(grown) : grown[i] = j
      <4>1. PICK i \in 1..Len(results) : results[i] = j
        BY <3>4 DEF InResults
      <4>2. i # 1 /\ i - 1 \in 1..Len(results') /\ results'[i - 1] = j
        BY <3>4, <4>1, <2>3, <2>4
      <4>3. QED
        BY <4>2 DEF InResults
    <3>5. CASE Held(j)
      BY <3>5, <2>1 DEF Held
    <3>6. InBatch(j) => \E i \in 1..Len(grown) : grown[i] = j
      BY <2>4 DEF InBatch
    <3>7. QED
      BY <2>7, <3>2, <3>3, <3>4, <3>5, <3>6 DEF NothingLost
  <2>8. QED
    BY <2>2, <2>7 DEF NothingLost, Held
<1>13. CASE FlushOnTick
  <2>1. /\ cpc = "run" /\ Handle(batch)
        /\ UNCHANGED <<submitted, jobs, held, results>>
    BY <1>13 DEF FlushOnTick, procVars, workerVars
  <2>2. Taken' = Taken /\ Taken <= NumJobs /\ (~cancelled' => ~cancelled)
    <3>1. ~cancelled' => ~cancelled
      BY <1>13 DEF FlushOnTick, HandlerFailed
    <3>2. QED
      BY <3>1, <2>1, ConstantsTyped DEF Taken, TypeOK, JobsInOrder
  <2>3. batch \in Seq(Job) /\ DOMAIN batch = 1..Len(batch) /\ \A i \in 1..Len(batch) : delivered[batch[i]] = 0
    BY <2>1 DEF TypeOK, OnePlace, InBatchOnce
  <2>4. ASSUME ~cancelled, NEW j \in 1..Taken
        PROVE  delivered'[j] = 1 \/ InResults(j)' \/ InBatch(j)' \/ \E v \in Workers : held'[v] = j
    <3>1. j \in Job
      BY <2>2, ConstantsTyped DEF Job, Taken, TypeOK
    <3>2. CASE InBatch(j)
      BY <3>1, <3>2, <2>1, <2>3 DEF Handle, Range, InBatch
    <3>3. CASE delivered[j] = 1 /\ ~InBatch(j)
      BY <3>1, <3>3, <2>1, <2>3 DEF Handle, Range, InBatch
    <3>4. CASE InResults(j) \/ Held(j)
      BY <3>4, <2>1 DEF InResults, Held
    <3>5. QED
      BY <2>4, <3>2, <3>3, <3>4 DEF NothingLost
  <2>5. QED
    BY <2>2, <2>4 DEF NothingLost, Held
<1>14. CASE FinalFlush
  <2>0. CASE batch = <<>>
    <3>1. UNCHANGED <<submitted, jobs, held, results, cancelled, batch, delivered>>
      BY <2>0, <1>14 DEF FinalFlush, procVars, workerVars
    <3>2. QED
      BY <3>1 DEF NothingLost, Taken, InResults, InBatch, Held
  <2> SUFFICES ASSUME batch # <<>> PROVE NothingLost'
    BY <2>0
  <2>1. /\ cpc = "run" /\ Handle(batch)
        /\ UNCHANGED <<submitted, jobs, held, results>>
    BY <1>14 DEF FinalFlush, procVars, workerVars
  <2>2. Taken' = Taken /\ Taken <= NumJobs /\ (~cancelled' => ~cancelled)
    <3>1. ~cancelled' => ~cancelled
      BY <1>14 DEF FinalFlush, HandlerFailed
    <3>2. QED
      BY <3>1, <2>1, ConstantsTyped DEF Taken, TypeOK, JobsInOrder
  <2>3. batch \in Seq(Job) /\ DOMAIN batch = 1..Len(batch) /\ \A i \in 1..Len(batch) : delivered[batch[i]] = 0
    BY <2>1 DEF TypeOK, OnePlace, InBatchOnce
  <2>4. ASSUME ~cancelled, NEW j \in 1..Taken
        PROVE  delivered'[j] = 1 \/ InResults(j)' \/ InBatch(j)' \/ \E v \in Workers : held'[v] = j
    <3>1. j \in Job
      BY <2>2, ConstantsTyped DEF Job, Taken, TypeOK
    <3>2. CASE InBatch(j)
      BY <3>1, <3>2, <2>1, <2>3 DEF Handle, Range, InBatch
    <3>3. CASE delivered[j] = 1 /\ ~InBatch(j)
      BY <3>1, <3>3, <2>1, <2>3 DEF Handle, Range, InBatch
    <3>4. CASE InResults(j) \/ Held(j)
      BY <3>4, <2>1 DEF InResults, Held
    <3>5. QED
      BY <2>4, <3>2, <3>3, <3>4 DEF NothingLost
  <2>5. QED
    BY <2>2, <2>4 DEF NothingLost, Held
<1>15. CASE StreamResult
  <2>1. /\ results # <<>> /\ results' = Tail(results) /\ Handle(<<Head(results)>>)
        /\ UNCHANGED <<submitted, jobs, held, batch>>
    BY <1>15 DEF StreamResult, Receive, procVars, workerVars
  <2>2. Taken' = Taken /\ Taken <= NumJobs /\ (~cancelled' => ~cancelled)
    <3>1. ~cancelled' => ~cancelled
      BY <1>15 DEF StreamResult, HandlerFailed
    <3>2. QED
      BY <3>1, <2>1, ConstantsTyped DEF Taken, TypeOK, JobsInOrder
  <2>3. /\ Len(results) >= 1 /\ Len(results') = Len(results) - 1 /\ Head(results) = results[1]
        /\ \A i \in 1..Len(results') : results'[i] = results[i + 1]
        /\ \A i \in 1..Len(results) : results[i] \in Job
    BY <2>1 DEF TypeOK
  <2>4. delivered[results[1]] = 0
    BY <2>3 DEF OnePlace, InResultsOnce
  <2>5. \A j \in Job : delivered'[j] = IF j = results[1] THEN delivered[j] + 1 ELSE delivered[j]
    BY <2>1, <2>3 DEF Handle, Range
  <2>6. ASSUME ~cancelled, NEW j \in 1..Taken
        PROVE  delivered'[j] = 1 \/ InResults(j)' \/ InBatch(j)' \/ \E v \in Workers : held'[v] = j
    <3>1. j \in Job
      BY <2>2, ConstantsTyped DEF Job, Taken, TypeOK
    <3>2. CASE j = results[1] \/ delivered[j] = 1
      BY <3>1, <3>2, <2>4, <2>5
    <3>3. CASE InResults(j) /\ j # results[1]
      <4>1. PICK i \in 1..Len(results) : results[i] = j
        BY <3>3 DEF InResults
      <4>2. i # 1 /\ i - 1 \in 1..Len(results') /\ results'[i - 1] = j
        BY <3>3, <4>1, <2>3
      <4>3. QED
        BY <4>2 DEF InResults
    <3>4. CASE InBatch(j) \/ Held(j)
      BY <3>4, <2>1 DEF InBatch, Held
    <3>5. QED
      BY <2>6, <3>2, <3>3, <3>4 DEF NothingLost
  <2>7. QED
    BY <2>2, <2>6 DEF NothingLost, Held
<1>16. CASE StreamEnd
  BY <1>16, ConstantsTyped DEF StreamEnd, TypeOK, NothingLost, InResults, InBatch, Held, Taken, Report, Receive, HandlerFailed, procVars, workerVars
<1>17. CASE Cancel
  BY <1>17 DEF Cancel, TypeOK, NothingLost, InResults, InBatch, Held, Taken, procVars, workerVars, collectVars
<1>18. CASE UNCHANGED vars
  BY <1>18 DEF vars, TypeOK, NothingLost, InResults, InBatch, Held, Taken
<1>19. QED
  BY <1>1, <1>2, <1>3, <1>4, <1>5, <1>6, <1>7, <1>8, <1>9, <1>10, <1>11, <1>12, <1>13, <1>14, <1>15, <1>16,
     <1>17, <1>18
  DEF Next, Process, Start, Worker, Collector, Ended

\* When only a failing handler cancels, Process does not return success after it.
LEMMA HandlerCancelsNext ==
  TypeOK /\ Control /\ Verdicts /\ JobsInOrder /\ OnePlace /\ NothingLost /\ HandlerCancels /\ [Next]_vars => HandlerCancels'
<1> SUFFICES ASSUME TypeOK, Control, Verdicts, JobsInOrder, OnePlace, NothingLost, HandlerCancels, [Next]_vars, ~MayCancel
             PROVE HandlerCancels'
  BY DEF HandlerCancels
<1>1. CASE ReturnNothingToDo
  <2>1. /\ pc = "start" /\ Job = {} /\ ret' = "nil"
        /\ UNCHANGED <<cancelled, cpc, collectorDone>>
    BY <1>1, ConstantsTyped DEF ReturnNothingToDo, collectVars, Job
  <2>2. ~cancelled
    BY <2>1 DEF Control, HandlerCancels
  <2>3. QED
    BY <2>1, <2>2 DEF HandlerCancels, CompleteOnSuccess
<1>2. CASE StartGoroutines
  BY <1>2, ConstantsTyped DEF StartGoroutines, TypeOK, Control, Verdicts, HandlerCancels, CompleteOnSuccess, AllStopped, workerVars, collectVars
<1>3. CASE SubmitJob
  BY <1>3, ConstantsTyped DEF SubmitJob, TypeOK, Control, Verdicts, HandlerCancels, CompleteOnSuccess, AllStopped, workerVars, collectVars
<1>4. CASE AbortSubmission
  BY <1>4, ConstantsTyped DEF AbortSubmission, TypeOK, Control, Verdicts, HandlerCancels, CompleteOnSuccess, AllStopped, workerVars, collectVars
<1>5. CASE CloseJobs
  BY <1>5, ConstantsTyped DEF CloseJobs, TypeOK, Control, Verdicts, HandlerCancels, CompleteOnSuccess, AllStopped, workerVars, collectVars
<1>6. CASE CloseResults
  BY <1>6, ConstantsTyped DEF CloseResults, TypeOK, Control, Verdicts, HandlerCancels, CompleteOnSuccess, AllStopped, workerVars, collectVars
<1>7. CASE ReturnVerdict
  <2>1. /\ pc = "waitCollector" /\ collectorDone # <<>> /\ ret' = Head(collectorDone) /\ collectorDone' = Tail(collectorDone)
        /\ UNCHANGED <<cancelled, cpc, batch, results, jobs, submitted, held, delivered>>
    BY <1>7 DEF ReturnVerdict, workerVars
  <2>2. Head(collectorDone) = collectorDone[1] /\ Tail(collectorDone) = <<>>
    <3>1. collectorDone # <<>> /\ collectorDone \in Seq(Verdict) /\ Len(collectorDone) <= 1
      BY <2>1 DEF Verdicts, TypeOK
    <3>2. QED
      BY <3>1
  <2>3. cancelled => cpc = "done" /\ Head(collectorDone) # "nil"
    BY <2>1, <2>2 DEF HandlerCancels
  <2>4. ASSUME Head(collectorDone) = "nil", NEW j \in Job PROVE delivered[j] = 1
    <3>1. ~cancelled
      BY <2>3, <2>4
    <3>2. results = <<>> /\ batch = <<>> /\ jobs = <<>> /\ submitted = NumJobs /\ \A w \in Workers : wpc[w] = "done"
      BY <2>1, <2>2, <2>4, <3>1, ConstantsTyped DEF Verdicts, Control
    <3>3. j \in 1..Taken /\ j # NoJob
      BY <3>2, ConstantsTyped DEF Taken, Job, NoJob
    <3>4. ~Held(j)
      BY <3>2, <3>3 DEF Held, OnePlace, HeldOnce
    <3>5. ~InResults(j) /\ ~InBatch(j)
      BY <3>2 DEF InResults, InBatch
    <3>6. QED
      BY <3>1, <3>3, <3>4, <3>5 DEF NothingLost
  <2>5. QED
    BY <2>1, <2>2, <2>3, <2>4 DEF HandlerCancels, CompleteOnSuccess
<1>8. ASSUME NEW w \in Workers, TakeJob(w) PROVE HandlerCancels'
  BY <1>8, ConstantsTyped DEF TakeJob, TypeOK, Control, Verdicts, HandlerCancels, CompleteOnSuccess, AllStopped, procVars, collectVars
<1>9. ASSUME NEW w \in Workers, SendResult(w) PROVE HandlerCancels'
  BY <1>9, ConstantsTyped DEF SendResult, TypeOK, Control, Verdicts, HandlerCancels, CompleteOnSuccess, AllStopped, procVars, collectVars
<1>10. ASSUME NEW w \in Workers, StopWorker(w) PROVE HandlerCancels'
  BY <1>10, ConstantsTyped DEF StopWorker, TypeOK, Control, Verdicts, HandlerCancels, CompleteOnSuccess, AllStopped, procVars, collectVars
<1>11. CASE StopCollector
  BY <1>11, ConstantsTyped DEF StopCollector, TypeOK, Control, Verdicts, HandlerCancels, CompleteOnSuccess, AllStopped, Report, Receive, HandlerFailed, procVars, workerVars
<1>12. CASE CollectIntoBatch
  BY <1>12, ConstantsTyped DEF CollectIntoBatch, TypeOK, Control, Verdicts, HandlerCancels, CompleteOnSuccess, AllStopped, Report, Receive, HandlerFailed, procVars, workerVars
<1>13. CASE FlushOnTick
  BY <1>13, ConstantsTyped DEF FlushOnTick, TypeOK, Control, Verdicts, HandlerCancels, CompleteOnSuccess, AllStopped, Report, Receive, HandlerFailed, procVars, workerVars
<1>14. CASE FinalFlush
  BY <1>14, ConstantsTyped DEF FinalFlush, TypeOK, Control, Verdicts, HandlerCancels, CompleteOnSuccess, AllStopped, Report, Receive, HandlerFailed, procVars, workerVars
<1>15. CASE StreamResult
  BY <1>15, ConstantsTyped DEF StreamResult, TypeOK, Control, Verdicts, HandlerCancels, CompleteOnSuccess, AllStopped, Report, Receive, HandlerFailed, procVars, workerVars
<1>16. CASE StreamEnd
  BY <1>16, ConstantsTyped DEF StreamEnd, TypeOK, Control, Verdicts, HandlerCancels, CompleteOnSuccess, AllStopped, Report, Receive, HandlerFailed, procVars, workerVars
<1>17. CASE Cancel
  BY <1>17 DEF Cancel, TypeOK, Control, Verdicts, HandlerCancels, CompleteOnSuccess, AllStopped, procVars, workerVars, collectVars
<1>18. CASE UNCHANGED vars
  BY <1>18 DEF vars, TypeOK, Control, Verdicts, HandlerCancels, CompleteOnSuccess, AllStopped
<1>19. QED
  BY <1>1, <1>2, <1>3, <1>4, <1>5, <1>6, <1>7, <1>8, <1>9, <1>10, <1>11, <1>12, <1>13, <1>14, <1>15, <1>16,
     <1>17, <1>18
  DEF Next, Process, Start, Worker, Collector, Ended

\* The initial state has the whole inductive invariant.
LEMMA IInvInit == Init => IInv
<1>1. Init => Verdicts /\ NothingLost /\ HandlerCancels
  <2>1. Init => NothingLost
    BY ConstantsTyped DEF Init, NothingLost, Taken
  <2>2. Init => Verdicts /\ HandlerCancels
    BY DEF Init, Verdicts, HandlerCancels, CompleteOnSuccess
  <2>3. QED
    BY <2>1, <2>2
<1>2. QED
  BY <1>1, TypeInit, ControlInit, OnePlaceInit DEF IInv

\* Every step keeps the whole inductive invariant.
LEMMA IInvNext == IInv /\ [Next]_vars => IInv'
BY TypeNext, ControlNext, OnePlaceNext, VerdictsNext, NothingLostNext, HandlerCancelsNext DEF IInv

\* The inductive invariant: everything above together.
THEOREM Inductive == Spec => []IInv
BY IInvInit, IInvNext, PTL DEF Spec

\* "Process processes all jobs and returns when complete" (pool.go:102) as long
\* as only the pool itself cancels its context, as in this repository: a nil
\* return means that every result was handed to the handler exactly once.
THEOREM CompleteWhenNil == ASSUME ~MayCancel PROVE Spec => []CompleteOnSuccess
<1>1. IInv => CompleteOnSuccess
  BY DEF IInv, HandlerCancels
<1>2. QED
  BY <1>1, Inductive, PTL

-----------------------------------------------------------------------------
(* The pool keeps the promise of BatchDelivery *)

\* The results the handler was given.
Given == {j \in Job : delivered[j] > 0}

\* A batch that is being collected has room left.
BatchBounded == cpc # "done" => Len(batch) < BatchSize

\* An error has a cause: somebody may cancel, or the handler may fail.
ErrorsHaveCause ==
  /\ cancelled => HandlerMayFail \/ MayCancel
  /\ (collectorDone # <<>> /\ collectorDone[1] # "nil") => HandlerMayFail \/ MayCancel

\* The collector starts with an empty batch.
LEMMA BatchBoundedInit == Init => BatchBounded
BY ConstantsTyped DEF Init, BatchBounded

\* Every way to grow, flush or leave the batch keeps it below its size.
LEMMA BatchBoundedNext == TypeOK /\ Control /\ BatchBounded /\ [Next]_vars => BatchBounded'
<1> SUFFICES ASSUME TypeOK, Control, BatchBounded, [Next]_vars PROVE BatchBounded'
  OBVIOUS
<1>1. CASE UNCHANGED <<batch, cpc>>
  BY <1>1 DEF BatchBounded
<1>2. CASE cpc' = "done"
  BY <1>2 DEF BatchBounded
<1>3. CASE batch' = <<>>
  BY <1>3, ConstantsTyped DEF BatchBounded
<1>4. CASE CollectIntoBatch
  <2>1. CASE Len(Append(batch, Head(results))) < BatchSize /\ batch' = Append(batch, Head(results))
    BY <2>1 DEF BatchBounded
  <2>2. CASE cpc' = "done" \/ batch' = <<>>
    BY <2>2, <1>2, <1>3
  <2>3. QED
    BY <1>4, <2>1, <2>2 DEF CollectIntoBatch, HandlerFailed, Report
<1>5. CASE FlushOnTick
  BY <1>2, <1>3, <1>5 DEF FlushOnTick, HandlerFailed, Report
<1>6. CASE FinalFlush
  BY <1>2, <1>3, <1>6 DEF FinalFlush, HandlerFailed, Report
<1>7. CASE StopCollector \/ StreamEnd
  BY <1>2, <1>7 DEF StopCollector, StreamEnd, Report
<1>8. CASE StreamResult
  BY <1>1, <1>2, <1>8 DEF StreamResult, HandlerFailed, Report
<1>9. CASE StartGoroutines
  BY <1>9 DEF StartGoroutines, BatchBounded, Control
<1>10. CASE ReturnNothingToDo \/ SubmitJob \/ AbortSubmission \/ CloseJobs \/ CloseResults
  BY <1>1, <1>10 DEF ReturnNothingToDo, SubmitJob, AbortSubmission, CloseJobs, CloseResults, collectVars
<1>11. CASE ReturnVerdict
  BY <1>1, <1>11 DEF ReturnVerdict
<1>12. ASSUME NEW w \in Workers, Worker(w) PROVE BatchBounded'
  BY <1>1, <1>12 DEF Worker, TakeJob, SendResult, StopWorker, collectVars
<1>13. CASE Cancel
  BY <1>1, <1>13 DEF Cancel, collectVars
<1>14. CASE UNCHANGED vars
  BY <1>1, <1>14 DEF vars
<1>15. QED
  BY <1>4, <1>5, <1>6, <1>7, <1>8, <1>9, <1>10, <1>11, <1>12, <1>13, <1>14
  DEF Next, Process, Start, Collector, Ended

\* Nothing has been cancelled or reported yet.
LEMMA ErrorsHaveCauseInit == Init => ErrorsHaveCause
BY DEF Init, ErrorsHaveCause

\* Only a cancelled context or a failing handler leads to an error verdict.
LEMMA ErrorsHaveCauseNext == TypeOK /\ Verdicts /\ ErrorsHaveCause /\ [Next]_vars => ErrorsHaveCause'
<1> SUFFICES ASSUME TypeOK, Verdicts, ErrorsHaveCause, [Next]_vars PROVE ErrorsHaveCause'
  OBVIOUS
<1>1. CASE UNCHANGED <<cancelled, collectorDone>>
  BY <1>1 DEF ErrorsHaveCause
<1>2. CASE HandlerFailed \/ HandlerMayFail \/ MayCancel
  BY <1>2 DEF ErrorsHaveCause, HandlerFailed
<1>3. ASSUME collectorDone = <<>> \/ Len(collectorDone) < DoneCap PROVE collectorDone = <<>>
  BY <1>3 DEF DoneCap, TypeOK
<1>4. CASE StopCollector
  BY <1>4 DEF StopCollector, ErrorsHaveCause
<1>5. CASE UNCHANGED cancelled /\ Report("nil")
  <2>1. collectorDone' = <<"nil">>
    <3>1. collectorDone = <<>> /\ collectorDone' = Append(collectorDone, "nil")
      BY <1>3, <1>5 DEF Report
    <3>2. QED
      BY <3>1
  <2>2. QED
    BY <1>5, <2>1 DEF ErrorsHaveCause
<1>6. CASE FinalFlush \/ StreamEnd
  BY <1>2, <1>5, <1>6 DEF FinalFlush, StreamEnd
<1>7. CASE CollectIntoBatch \/ FlushOnTick \/ StreamResult
  BY <1>1, <1>2, <1>7 DEF CollectIntoBatch, FlushOnTick, StreamResult
<1>8. CASE ReturnVerdict
  <2>1. collectorDone' = <<>> /\ UNCHANGED cancelled
    <3>1. /\ collectorDone # <<>> /\ collectorDone' = Tail(collectorDone) /\ UNCHANGED cancelled
      BY <1>8 DEF ReturnVerdict
    <3>2. collectorDone \in Seq(Verdict) /\ Len(collectorDone) <= 1
      BY <3>1 DEF Verdicts, TypeOK
    <3>3. QED
      BY <3>1, <3>2
  <2>2. QED
    BY <2>1 DEF ErrorsHaveCause
<1>9. CASE ReturnNothingToDo \/ StartGoroutines \/ SubmitJob \/ AbortSubmission \/ CloseJobs \/ CloseResults
  BY <1>1, <1>9 DEF ReturnNothingToDo, StartGoroutines, SubmitJob, AbortSubmission, CloseJobs, CloseResults, collectVars
<1>10. ASSUME NEW w \in Workers, Worker(w) PROVE ErrorsHaveCause'
  BY <1>1, <1>10 DEF Worker, TakeJob, SendResult, StopWorker, collectVars
<1>11. CASE Cancel
  BY <1>2, <1>11 DEF Cancel
<1>12. CASE UNCHANGED vars
  BY <1>1, <1>12 DEF vars
<1>13. QED
  BY <1>4, <1>6, <1>7, <1>8, <1>9, <1>10, <1>11, <1>12
  DEF Next, Process, Start, Collector, Ended

\* A sequence has at most as many elements as places.
LEMMA RangeBounded == ASSUME NEW b \in Seq(Job) PROVE IsFiniteSet(Range(b)) /\ Cardinality(Range(b)) <= Len(b)
<1>1. b \in Surjection(1..Len(b), Range(b))
  BY DEF Surjection, Range
<1>2. IsFiniteSet(1..Len(b)) /\ Cardinality(1..Len(b)) = Len(b)
  <2>1. Len(b) \in Nat /\ Len(b) \in Int /\ 1 \in Int
    OBVIOUS
  <2>2. /\ IsFiniteSet(1..Len(b))
        /\ Cardinality(1..Len(b)) = IF 1 > Len(b) THEN 0 ELSE Len(b) - 1 + 1
    BY <2>1, FS_Interval, Zenon
  <2>3. QED
    BY <2>1, <2>2
<1>3. QED
  BY <1>1, <1>2, FS_Surjection

\* A handled batch of results not given before is one step of the promise.
LEMMA HandleDelivers ==
  ASSUME NEW b \in Seq(Job), TypeOK, b # <<>>, Len(b) <= BatchSize,
         \A i \in 1..Len(b) : delivered[b[i]] = 0, Handle(b)
  PROVE  /\ Given' # Given /\ Given \subseteq Given' /\ Given' \subseteq Job
         /\ Cardinality(Given' \ Given) <= BatchSize
<1>1. Len(b) \in Nat /\ Len(b) >= 1 /\ DOMAIN b = 1..Len(b) /\ \A i \in 1..Len(b) : b[i] \in Job
  OBVIOUS
<1>2. \A j \in Job : delivered[j] \in Nat /\ (j \in Range(b) => delivered[j] = 0)
  BY <1>1 DEF TypeOK, Range
<1>3. \A j \in Job : delivered'[j] = IF j \in Range(b) THEN delivered[j] + 1 ELSE delivered[j]
  BY DEF Handle
<1>4. Range(b) \subseteq Job /\ b[1] \in Range(b)
  BY <1>1 DEF Range
<1>5. Given' = Given \cup Range(b) /\ Given \cap Range(b) = {}
  BY <1>2, <1>3, <1>4 DEF Given
<1>6. Given' \ Given = Range(b)
  BY <1>5
<1>7. Cardinality(Range(b)) <= BatchSize
  BY <1>1, RangeBounded, FS_CardinalityType, ConstantsTyped
<1>8. QED
  BY <1>4, <1>5, <1>6, <1>7 DEF Given

\* Every step of the pool is a step of the promise or changes nothing it speaks
\* of, as long as only a failing handler cancels the context.
LEMMA PromiseStep == ASSUME ~MayCancel PROVE IInv /\ BatchBounded /\ ErrorsHaveCause /\ [Next]_vars => [Promise!Next]_(Promise!vars)
<1> SUFFICES ASSUME IInv, BatchBounded, ErrorsHaveCause, [Next]_vars PROVE [Promise!Next]_(Promise!vars)
  OBVIOUS
<1> USE DEF Given
<1>1. TypeOK /\ Control /\ OnePlace /\ HandlerCancels
  BY DEF IInv
<1>1a. HandlerCancels'
  BY HandlerCancelsNext DEF IInv
<1>2. ASSUME NEW b \in Seq(Job), b # <<>>, Len(b) <= BatchSize, \A i \in 1..Len(b) : delivered[b[i]] = 0,
             Handle(b), cpc = "run", UNCHANGED ret
      PROVE  Promise!Deliver
  BY <1>1, <1>2, HandleDelivers DEF Promise!Deliver, Promise!Cardinality, Cardinality
<1>3. ASSUME cpc = "run", cpc' = "done", UNCHANGED <<ret, delivered>> PROVE Promise!Close
  BY <1>3 DEF Promise!Close
<1>4. ASSUME UNCHANGED <<ret, cpc, delivered>> PROVE UNCHANGED Promise!vars
  BY <1>4 DEF Promise!vars
<1>5. CASE CollectIntoBatch
  <2> DEFINE grown == Append(batch, Head(results))
  <2>1. results # <<>> /\ cpc = "run" /\ UNCHANGED ret
    BY <1>5 DEF CollectIntoBatch, Receive, procVars
  <2>2. CASE UNCHANGED <<cpc, delivered>>
    BY <1>4, <2>1, <2>2
  <2>3. CASE Handle(grown)
    <3>1. grown \in Seq(Job) /\ grown # <<>> /\ Len(grown) = Len(batch) + 1 /\ Len(batch) \in Nat
      <4>1. batch \in Seq(Job) /\ Head(results) \in Job
        BY <1>1, <2>1 DEF TypeOK
      <4>2. QED
        BY <4>1
    <3>2. Len(grown) <= BatchSize
      BY <2>1, <3>1, ConstantsTyped DEF BatchBounded
    <3>3. \A i \in 1..Len(grown) : delivered[grown[i]] = 0
      <4>1. /\ Len(results) >= 1 /\ Head(results) = results[1] /\ grown[Len(batch) + 1] = results[1]
            /\ \A i \in 1..Len(batch) : grown[i] = batch[i]
        BY <1>1, <2>1 DEF TypeOK
      <4>2. QED
        BY <1>1, <2>1, <3>1, <4>1 DEF OnePlace, InResultsOnce, InBatchOnce
    <3> HIDE DEF grown
    <3>4. Promise!Deliver
      BY <1>2, <2>1, <2>3, <3>1, <3>2, <3>3
    <3>5. QED
      BY <3>4 DEF Promise!Next
  <2>4. QED
    BY <1>5, <2>2, <2>3 DEF CollectIntoBatch
<1>6. ASSUME cpc = "run", batch # <<>>, Handle(batch), UNCHANGED ret PROVE Promise!Deliver
  <2>1. batch \in Seq(Job) /\ Len(batch) <= BatchSize
    BY <1>1, <1>6, ConstantsTyped DEF TypeOK, BatchBounded
  <2>2. \A i \in 1..Len(batch) : delivered[batch[i]] = 0
    BY <1>1, <1>6 DEF OnePlace, InBatchOnce
  <2>3. QED
    BY <1>2, <1>6, <2>1, <2>2
<1>7. CASE FlushOnTick
  BY <1>6, <1>7 DEF FlushOnTick, procVars, Promise!Next
<1>8. CASE FinalFlush
  <2>1. cpc = "run" /\ UNCHANGED ret
    BY <1>8 DEF FinalFlush, procVars
  <2>2. CASE batch = <<>>
    BY <1>3, <1>8, <2>1, <2>2 DEF FinalFlush, Report, Promise!Next
  <2>3. CASE batch # <<>>
    BY <1>6, <1>8, <2>1, <2>3 DEF FinalFlush, Promise!Next
  <2>4. QED
    BY <2>2, <2>3
<1>9. CASE StreamResult
  <2>1. results # <<>> /\ cpc = "run" /\ UNCHANGED ret /\ Handle(<<Head(results)>>)
    BY <1>9 DEF StreamResult, Receive, procVars
  <2>2. Len(results) >= 1 /\ Head(results) = results[1] /\ results[1] \in Job
    BY <1>1, <2>1 DEF TypeOK
  <2>3. delivered[results[1]] = 0
    BY <1>1, <2>2 DEF OnePlace, InResultsOnce
  <2>4. <<results[1]>> \in Seq(Job) /\ Len(<<results[1]>>) = 1 /\ <<results[1]>> # <<>>
    BY <2>2
  <2>5. \A i \in 1..Len(<<results[1]>>) : delivered[<<results[1]>>[i]] = 0
    BY <2>3, <2>4
  <2>6. Promise!Deliver
    BY <1>2, <2>1, <2>2, <2>4, <2>5, ConstantsTyped
  <2>7. QED
    BY <2>6 DEF Promise!Next
<1>10. CASE StopCollector \/ StreamEnd
  BY <1>3, <1>10 DEF StopCollector, StreamEnd, Report, procVars, Promise!Next
<1>11. CASE ReturnNothingToDo
  BY <1>11, <1>1, ConstantsTyped DEF ReturnNothingToDo, Control, Job, collectVars, Promise!Next, Promise!Succeed
<1>12. CASE AbortSubmission
  <2>1. ret = "none" /\ ret' = "ctxErr" /\ UNCHANGED <<cpc, delivered>> /\ cancelled
    BY <1>12, <1>1 DEF AbortSubmission, Control, collectVars
  <2>2. HandlerMayFail
    BY <2>1 DEF ErrorsHaveCause
  <2>3. QED
    BY <2>1, <2>2 DEF Promise!Next, Promise!Fail
<1>13. CASE ReturnVerdict
  <2>1. /\ pc = "waitCollector" /\ collectorDone # <<>> /\ collectorDone \in Seq(Verdict)
        /\ ret' = collectorDone[1] /\ UNCHANGED <<cpc, delivered>>
    BY <1>13, <1>1 DEF ReturnVerdict, TypeOK
  <2>2. ret = "none" /\ cpc = "done" /\ collectorDone[1] \in Verdict
    BY <1>1, <2>1 DEF Control
  <2>3. CASE collectorDone[1] = "nil"
    <3>1. \A j \in Job : delivered[j] = 1
      BY <1>1a, <2>1, <2>3 DEF HandlerCancels, CompleteOnSuccess
    <3>2. {j \in Job : delivered[j] > 0} = Job
      BY <3>1
    <3>3. QED
      BY <2>1, <2>2, <2>3, <3>2 DEF Promise!Next, Promise!Succeed
  <2>4. CASE collectorDone[1] # "nil"
    <3>1. HandlerMayFail
      BY <2>1, <2>4 DEF ErrorsHaveCause
    <3>2. ret' \in {"ctxErr", "handlerErr"}
      BY <2>1, <2>2, <2>4 DEF Verdict
    <3>3. QED
      BY <2>1, <2>2, <3>1, <3>2 DEF Promise!Next, Promise!Fail
  <2>5. QED
    BY <2>3, <2>4
<1>14. CASE StartGoroutines
  BY <1>14, <1>1 DEF StartGoroutines, Control, Promise!vars
<1>15. CASE SubmitJob \/ CloseJobs \/ CloseResults
  BY <1>4, <1>15 DEF SubmitJob, CloseJobs, CloseResults, collectVars
<1>16. ASSUME NEW w \in Workers, Worker(w) PROVE UNCHANGED Promise!vars
  BY <1>4, <1>16 DEF Worker, TakeJob, SendResult, StopWorker, collectVars, procVars
<1>17. CASE Cancel \/ UNCHANGED vars
  BY <1>4, <1>17 DEF Cancel, procVars, collectVars, vars
<1>18. QED
  BY <1>5, <1>7, <1>8, <1>9, <1>10, <1>11, <1>12, <1>13, <1>14, <1>15, <1>16, <1>17
  DEF Next, Process, Start, Collector, Ended

\* What BatchDelivery promises is what the pool does, for every number of
\* workers and jobs, every batch size and both modes: batches of results not
\* given before, of at most the batch size, none after the collector has ended,
\* and success only when every result was given.  It needs the context to be
\* the pool's own, as everywhere in this repository: somebody else's
\* cancellation makes a worker drop its result, after which the call may still
\* end in success (pool.go:174).
THEOREM KeepsPromise == ASSUME ~MayCancel PROVE Spec => ImplementsPromise
<1>1. Init => Promise!Init
  BY ConstantsTyped DEF Init, Promise!Init
<1>2. Init => IInv /\ BatchBounded /\ ErrorsHaveCause
  BY IInvInit, BatchBoundedInit, ErrorsHaveCauseInit
<1>3. IInv /\ BatchBounded /\ ErrorsHaveCause /\ [Next]_vars => (IInv /\ BatchBounded /\ ErrorsHaveCause)'
  BY IInvNext, BatchBoundedNext, ErrorsHaveCauseNext DEF IInv
<1>4. QED
  BY <1>1, <1>2, <1>3, PromiseStep, PTL DEF Spec, ImplementsPromise, Promise!Spec
=================================================================================
