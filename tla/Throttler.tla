-------------------------------- MODULE Throttler -------------------------------
(***************************************************************************)
(* The throttler every upstream client shares (internal/throttle): Wait    *)
(* grants requests under a block by the server, a delay after the last     *)
(* request and a sliding window; DoWithRetry sends a granted request and   *)
(* tries again after an error; a 429 answer blocks the throttler and slow  *)
(* answers raise its adaptive delay.  Wait unlocks the mutex whenever it   *)
(* sleeps and goes on with the next rule when it wakes: what a rule has    *)
(* established may no longer hold then.                                    *)
(*                                                                         *)
(* Time is a clock of whole units.  Nothing but a sleep lets it pass while *)
(* a caller holds the mutex.  The requests granted are kept for good in    *)
(* granted; requestLog is what the code remembers of them.  The average of *)
(* the response times is the class adaptToResponseTime puts it in.         *)
(* The status for clients (paused, slowed) is left out: nothing reads it.  *)
(***************************************************************************)
EXTENDS Integers, FiniteSets

CONSTANTS
  Callers,          \* goroutines that call DoWithRetry, once each
  MaxRequests, Window,       \* the sliding window
  DelayMin, DelayMax,        \* the random delay between requests
  InitialBackoff, MaxBackoff, MaxAttempts,
  RetryAfters,      \* the waiting times a 429 answer may ask for, 0: none
  AdaptiveEnabled,
  MaxClock          \* bound: time ends here

ASSUME ThrottlerAssumption ==
  /\ IsFiniteSet(Callers)
  /\ MaxRequests \in Nat \ {0} /\ Window \in Nat \ {0}
  /\ DelayMin \in Nat /\ DelayMax \in Nat
  /\ InitialBackoff \in Nat /\ MaxBackoff \in Nat /\ MaxAttempts \in Nat \ {0}
  /\ RetryAfters \subseteq Nat /\ AdaptiveEnabled \in BOOLEAN /\ MaxClock \in Nat

Never == -1
Grant == [by : Callers, attempt : 1..MaxAttempts, at : Nat]
Average == {"extreme", "severe", "moderate", "slight", "between", "normal"}

VARIABLES
  clock,
  pc,           \* where each caller is in DoWithRetry or in Wait
  attempt, backoff,
  wake,         \* when its sleep is over
  requestLog,   \* Throttler.requestLog
  lastRequest, blockedUntil,
  adaptation,   \* AdaptationLevel, IsSlowTraffic and adaptiveDelayMs
  granted       \* every request that was granted

callerVars == <<pc, attempt, backoff, wake>>
logVars    == <<requestLog, lastRequest, granted>>
vars == <<clock, pc, attempt, backoff, wake, requestLog, lastRequest,
          blockedUntil, adaptation, granted>>

TypeOK ==
  /\ clock \in 0..MaxClock
  /\ pc \in [Callers -> {"wait", "blocked", "delayed", "parked", "sent",
                         "backoff", "done"}]
  /\ attempt \in [Callers -> 1..MaxAttempts]
  /\ backoff \in [Callers -> Nat] /\ wake \in [Callers -> Nat]
  /\ granted \subseteq Grant /\ requestLog \subseteq granted
  /\ lastRequest \in Nat \cup {Never} /\ blockedUntil \in Nat
  /\ adaptation \in [level : 0..3, slow : BOOLEAN, delay : Nat]

Init ==
  /\ clock = 0
  /\ pc = [c \in Callers |-> "wait"]
  /\ attempt = [c \in Callers |-> 1]
  /\ backoff = [c \in Callers |-> InitialBackoff]
  /\ wake = [c \in Callers |-> 0]
  /\ requestLog = {} /\ granted = {}
  /\ lastRequest = Never /\ blockedUntil = 0
  /\ adaptation = [level |-> 0, slow |-> FALSE, delay |-> 0]

-----------------------------------------------------------------------------
(* Wait *)

Sleep(c, label, until) ==
  pc' = [pc EXCEPT ![c] = label] /\ wake' = [wake EXCEPT ![c] = until]

\* Forget the requests that left the window; with room in it the caller's is
\* recorded and granted, otherwise the caller sleeps until the oldest leaves.
CheckWindow(c) ==
  LET recent == {g \in requestLog : g.at + Window > clock}
      new    == [by |-> c, attempt |-> attempt[c], at |-> clock]
  IN  \/ /\ Cardinality(recent) < MaxRequests
         /\ requestLog' = recent \cup {new} /\ granted' = granted \cup {new}
         /\ lastRequest' = clock
         /\ pc' = [pc EXCEPT ![c] = "sent"] /\ UNCHANGED wake
      \/ /\ Cardinality(recent) >= MaxRequests
         /\ requestLog' = recent /\ UNCHANGED <<granted, lastRequest>>
         /\ \E oldest \in recent :
              /\ \A g \in recent : oldest.at <= g.at
              /\ Sleep(c, "parked", oldest.at + Window)

\* The delay drawn at random, and what adaptation adds to it.
Delays ==
  {base + (IF AdaptiveEnabled THEN adaptation.delay ELSE 0) :
     base \in DelayMin..(IF DelayMax > DelayMin THEN DelayMax ELSE DelayMin)}

NoDelay == lastRequest = Never \/ (DelayMin = 0 /\ DelayMax = 0)

\* A fault for the mutation runs: the last request is not looked at.
SkipDelay(c) == CheckWindow(c)

CheckDelay(c) ==
  \/ NoDelay /\ CheckWindow(c)
  \/ /\ ~NoDelay
     /\ \E delay \in Delays :
          \/ clock - lastRequest >= delay /\ CheckWindow(c)
          \/ /\ clock - lastRequest < delay
             /\ Sleep(c, "delayed", lastRequest + delay)
             /\ UNCHANGED logVars

Enter(c) ==
  /\ pc[c] = "wait"
  /\ \/ /\ clock < blockedUntil
        /\ Sleep(c, "blocked", blockedUntil) /\ UNCHANGED logVars
     \/ clock >= blockedUntil /\ CheckDelay(c)
  /\ UNCHANGED <<clock, attempt, backoff, blockedUntil, adaptation>>

WakeFromBlock(c) ==
  /\ pc[c] = "blocked" /\ clock >= wake[c]
  /\ blockedUntil' = IF clock > blockedUntil THEN 0 ELSE blockedUntil
  /\ CheckDelay(c)
  /\ UNCHANGED <<clock, attempt, backoff, adaptation>>

WakeFromDelay(c) ==
  /\ pc[c] = "delayed" /\ clock >= wake[c]
  /\ CheckWindow(c)
  /\ UNCHANGED <<clock, attempt, backoff, blockedUntil, adaptation>>

\* A fault for the mutation runs: the slot waited for is taken unseen.
TakeSlot(c) ==
  LET new == [by |-> c, attempt |-> attempt[c], at |-> clock]
  IN  /\ pc[c] = "parked" /\ clock >= wake[c]
      /\ requestLog' = requestLog \cup {new} /\ granted' = granted \cup {new}
      /\ lastRequest' = clock
      /\ pc' = [pc EXCEPT ![c] = "sent"]
      /\ UNCHANGED <<clock, attempt, backoff, wake, blockedUntil, adaptation>>

\* The window is checked again, another caller may have taken the slot.
WakeFromPark(c) ==
  /\ pc[c] = "parked" /\ clock >= wake[c]
  /\ CheckWindow(c)
  /\ UNCHANGED <<clock, attempt, backoff, blockedUntil, adaptation>>

Wait(c) == Enter(c) \/ WakeFromBlock(c) \/ WakeFromDelay(c) \/ WakeFromPark(c)

-----------------------------------------------------------------------------
(* Adaptation *)

\* A fault for the mutation runs: the flag survives the way down.
StaySlow(a, average) ==
  CASE average \in {"extreme", "severe"} -> [level |-> 3, slow |-> TRUE, delay |-> DelayMax]
    [] average = "moderate" -> [level |-> 2, slow |-> TRUE, delay |-> DelayMax]
    [] average = "slight"   -> [level |-> 1, slow |-> TRUE, delay |-> DelayMax]
    [] average = "between" /\ a.level > 0 ->
         [level |-> a.level - 1, slow |-> a.slow, delay |-> a.delay \div 2]
    [] OTHER -> [level |-> 0, slow |-> FALSE, delay |-> 0]

\* adaptToResponseTime's first choice.
ByAverage(a, average) ==
  LET level(l, delay) == [level |-> l, slow |-> TRUE, delay |-> delay]
  IN  CASE average = "extreme"  -> level(3, 2 * DelayMax)
        [] average = "severe"   -> level(3, DelayMax)
        [] average = "moderate" -> level(2, DelayMax \div 2)
        [] average = "slight"   -> level(1, DelayMax \div 4)
        [] average = "between" /\ a.level > 0 ->
             [level |-> a.level - 1, slow |-> FALSE, delay |-> a.delay \div 2]
        [] OTHER -> [level |-> 0, slow |-> FALSE, delay |-> 0]

\* Twenty seconds after the last change the level falls by one, unless the
\* average pushes it up.  Only a change of level or of the flag is stored.
Adapt(a, average, cooledDown) ==
  LET measured == ByAverage(a, average)
      eased  == [level |-> a.level - 1, slow |-> a.level > 1, delay |-> a.delay \div 2]
      target == IF cooledDown /\ a.level > 0 /\ measured.level <= a.level
                  THEN eased ELSE measured
  IN  IF target.level # a.level \/ target.slow # a.slow THEN target ELSE a

-----------------------------------------------------------------------------
(* DoWithRetry *)

\* Adaptation starts with the fifth answer.
Succeed(c) ==
  /\ pc[c] = "sent"
  /\ pc' = [pc EXCEPT ![c] = "done"]
  /\ \/ UNCHANGED adaptation
     \/ /\ AdaptiveEnabled
        /\ \E average \in Average, cooledDown \in BOOLEAN :
             adaptation' = Adapt(adaptation, average, cooledDown)
  /\ UNCHANGED <<clock, attempt, backoff, wake, logVars, blockedUntil>>

\* A fault for the mutation runs: one attempt too many.
LastAttemptLate(c) == attempt[c] > MaxAttempts

LastAttempt(c) == attempt[c] = MaxAttempts

GiveUpAfterLast(c) ==
  LastAttempt(c) /\ pc' = [pc EXCEPT ![c] = "done"] /\ UNCHANGED <<backoff, wake>>

\* A network error or a 5xx answer: sleep for the backoff, then double it.
Fail(c) ==
  /\ pc[c] = "sent"
  /\ \/ GiveUpAfterLast(c)
     \/ /\ ~LastAttempt(c)
        /\ Sleep(c, "backoff", clock + backoff[c])
        /\ backoff' = [backoff EXCEPT ![c] =
                         IF 2 * @ > MaxBackoff THEN MaxBackoff ELSE 2 * @]
  /\ UNCHANGED <<clock, attempt, logVars, blockedUntil, adaptation>>

\* A 429 answer: block the throttler, the latest answer decides for how long,
\* then sleep for the time the answer asked for.
RateLimited(c, retryAfter) ==
  /\ pc[c] = "sent"
  /\ blockedUntil' = clock + (IF retryAfter = 0 THEN 2 * InitialBackoff ELSE retryAfter)
  /\ adaptation' = IF AdaptiveEnabled
                     THEN [level |-> 3, slow |-> TRUE, delay |-> 2 * DelayMax]
                     ELSE adaptation
  /\ \/ GiveUpAfterLast(c)
     \/ /\ ~LastAttempt(c)
        /\ Sleep(c, "backoff", clock + retryAfter) /\ UNCHANGED backoff
  /\ UNCHANGED <<clock, attempt, logVars>>

Retry(c) ==
  /\ pc[c] = "backoff" /\ clock >= wake[c]
  /\ pc' = [pc EXCEPT ![c] = "wait"]
  /\ attempt' = [attempt EXCEPT ![c] = @ + 1]
  /\ UNCHANGED <<clock, backoff, wake, logVars, blockedUntil, adaptation>>

\* The caller's context ends while it sleeps.
ContextDone(c) ==
  /\ pc[c] \in {"blocked", "delayed", "parked", "backoff"}
  /\ pc' = [pc EXCEPT ![c] = "done"]
  /\ UNCHANGED <<clock, attempt, backoff, wake, logVars, blockedUntil, adaptation>>

DoWithRetry(c) ==
  \/ Wait(c) \/ Succeed(c) \/ Fail(c)
  \/ \E retryAfter \in RetryAfters : RateLimited(c, retryAfter)
  \/ Retry(c) \/ ContextDone(c)

-----------------------------------------------------------------------------
Tick ==
  /\ clock < MaxClock /\ clock' = clock + 1
  /\ UNCHANGED <<callerVars, logVars, blockedUntil, adaptation>>

AllDone == (\A c \in Callers : pc[c] = "done") /\ UNCHANGED vars

Next == (\E c \in Callers : DoWithRetry(c)) \/ Tick \/ AllDone

Spec == Init /\ [][Next]_vars

-----------------------------------------------------------------------------
(* Properties *)

\* The requests granted in the window that ends at instant t.
InWindow(t) == {g \in granted : g.at <= t /\ t < g.at + Window}

\* No window of Window units ever holds more than MaxRequests requests, however
\* many callers sleep, wake and overtake each other in Wait.
WindowRespected ==
  \A t \in 0..clock : Cardinality(InWindow(t)) <= MaxRequests

\* A caller's own requests keep the minimal delay, although other callers move
\* lastRequest and the retry's sleep may have been shorter.
RetriesSpaced ==
  \A g, h \in granted :
    g.by = h.by /\ g.attempt < h.attempt => h.at >= g.at + DelayMin

\* The throttler only calls the traffic slow while it is adapted to it.
SlowMeansAdapted == adaptation.slow => adaptation.level > 0
=================================================================================
