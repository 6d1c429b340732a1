---------------------------- MODULE ThrottlerProofs ----------------------------
(***************************************************************************)
(* What holds of Throttler for any number of callers and any configuration *)
(* of the window, the delays and the retries.  Three invariants:           *)
(*                                                                         *)
(*  - Typed: TypeOK, and a caller in its backoff has an attempt left;      *)
(*  - Remembered: a request the log has forgotten has left the window, so  *)
(*    counting the log counts every request of the window;                 *)
(*  - Spaced: what a caller that woke needs to know of its own last        *)
(*    request, whoever moved lastRequest while it slept.                   *)
(***************************************************************************)
EXTENDS Throttler, FiniteSetTheorems, TLAPS

Typed ==
  /\ TypeOK
  /\ \A c \in Callers : pc[c] = "backoff" => attempt[c] < MaxAttempts

Remembered ==
  /\ clock \in Nat
  /\ IsFiniteSet(granted) /\ requestLog \subseteq granted
  /\ \A g \in granted : g.at \in 0..clock
  /\ \A g \in granted \ requestLog : g.at + Window <= clock

Own(c) == {g \in granted : g.by = c}

Spaced ==
  /\ lastRequest = Never => granted = {}
  /\ \A g \in granted : g.at <= lastRequest
  /\ \A c \in Callers : \A g \in Own(c) :
       /\ g.attempt <= attempt[c]
       /\ pc[c] \in {"wait", "blocked", "delayed", "parked"} => g.attempt < attempt[c]
       /\ pc[c] = "delayed" => g.at + DelayMin <= wake[c]
       /\ pc[c] = "parked"  => g.at + DelayMin <= clock

-----------------------------------------------------------------------------
(* Types *)

\* The initial state is typed.
LEMMA TypedInit == Init => Typed
  BY ThrottlerAssumption, SMT DEF Init, Typed, TypeOK, Grant, Never

\* Adaptation stays within its levels, with a delay that is no less than zero.
LEMMA AdaptTyped ==
  ASSUME NEW a \in [level : 0..3, slow : BOOLEAN, delay : Nat],
         NEW average \in Average, NEW cooledDown \in BOOLEAN
  PROVE  Adapt(a, average, cooledDown) \in [level : 0..3, slow : BOOLEAN, delay : Nat]
<1>1. \A n \in Nat : n \div 2 \in Nat /\ n \div 4 \in Nat /\ 2 * n \in Nat
  OBVIOUS
<1>2. ByAverage(a, average) \in [level : 0..3, slow : BOOLEAN, delay : Nat]
  BY <1>1, ThrottlerAssumption, SMT DEF ByAverage, Average
<1>3. a.level > 0 =>
        [level |-> a.level - 1, slow |-> a.level > 1, delay |-> a.delay \div 2]
          \in [level : 0..3, slow : BOOLEAN, delay : Nat]
  BY <1>1, SMT
<1> QED  BY <1>2, <1>3 DEF Adapt

\* Asking the window records a typed request or sleeps for a typed time.
LEMMA CheckWindowTyped ==
  ASSUME Typed, NEW c \in Callers, CheckWindow(c),
         UNCHANGED <<clock, attempt, backoff, adaptation>>, blockedUntil' \in Nat
  PROVE  Typed'
<1> USE ThrottlerAssumption
<1> DEFINE recent == {g \in requestLog : g.at + Window > clock}
           new    == [by |-> c, attempt |-> attempt[c], at |-> clock]
<1>1. clock \in Nat /\ new \in Grant /\ recent \subseteq granted
  BY SMT DEF Typed, TypeOK, Grant
<1>2. CASE /\ requestLog' = recent \cup {new} /\ granted' = granted \cup {new}
           /\ lastRequest' = clock
           /\ pc' = [pc EXCEPT ![c] = "sent"] /\ UNCHANGED wake
  BY <1>1, <1>2, SMT DEF Typed, TypeOK
<1>3. CASE /\ requestLog' = recent /\ UNCHANGED <<granted, lastRequest>>
           /\ \E oldest \in recent : Sleep(c, "parked", oldest.at + Window)
  <2> PICK oldest \in recent : Sleep(c, "parked", oldest.at + Window)
    BY <1>3
  <2>1. oldest.at + Window \in Nat
    BY <1>1, SMT DEF Typed, TypeOK, Grant
  <2> QED  BY <1>1, <1>3, <2>1, SMT DEF Typed, TypeOK, Sleep
<1> QED  BY <1>2, <1>3 DEF CheckWindow

\* So does asking for the delay first.
LEMMA CheckDelayTyped ==
  ASSUME Typed, NEW c \in Callers, CheckDelay(c),
         UNCHANGED <<clock, attempt, backoff, adaptation>>, blockedUntil' \in Nat
  PROVE  Typed'
<1>1. CASE CheckWindow(c)
  BY <1>1, CheckWindowTyped
<1>2. CASE /\ ~NoDelay /\ UNCHANGED logVars
           /\ \E delay \in Delays : Sleep(c, "delayed", lastRequest + delay)
  <2> PICK delay \in Delays : Sleep(c, "delayed", lastRequest + delay)
    BY <1>2
  <2>1. lastRequest \in Nat /\ delay \in Nat
    BY <1>2, ThrottlerAssumption, SMT DEF Typed, TypeOK, NoDelay, Delays
  <2> QED  BY <1>2, <2>1, SMT DEF Typed, TypeOK, Sleep, logVars
<1> QED  BY <1>1, <1>2 DEF CheckDelay

\* Every step keeps the types.
LEMMA TypedNext == Typed /\ [Next]_vars => Typed'
<1> SUFFICES ASSUME Typed, [Next]_vars PROVE Typed'
  OBVIOUS
<1> USE ThrottlerAssumption
<1>1. ASSUME NEW c \in Callers, Enter(c) PROVE Typed'
  <2>1. CASE /\ Sleep(c, "blocked", blockedUntil) /\ UNCHANGED logVars
    BY <1>1, <2>1, SMT DEF Enter, Typed, TypeOK, Sleep, logVars
  <2>2. CASE CheckDelay(c)
    <3>1. blockedUntil' \in Nat
      BY <1>1 DEF Enter, Typed, TypeOK
    <3> QED  BY <1>1, <2>2, <3>1, CheckDelayTyped DEF Enter
  <2> QED  BY <1>1, <2>1, <2>2 DEF Enter
<1>2. ASSUME NEW c \in Callers, WakeFromBlock(c) PROVE Typed'
  <2>1. blockedUntil' \in Nat
    BY <1>2, SMT DEF WakeFromBlock, Typed, TypeOK
  <2> QED  BY <1>2, <2>1, CheckDelayTyped DEF WakeFromBlock
<1>3. ASSUME NEW c \in Callers, WakeFromDelay(c) PROVE Typed'
  BY <1>3, CheckWindowTyped DEF WakeFromDelay, Typed, TypeOK
<1>4. ASSUME NEW c \in Callers, WakeFromPark(c) PROVE Typed'
  BY <1>4, CheckWindowTyped DEF WakeFromPark, Typed, TypeOK
<1>5. ASSUME NEW c \in Callers, Succeed(c) PROVE Typed'
  <2>1. adaptation' \in [level : 0..3, slow : BOOLEAN, delay : Nat]
    BY <1>5, AdaptTyped DEF Succeed, Typed, TypeOK
  <2> QED  BY <1>5, <2>1, SMT DEF Succeed, Typed, TypeOK, logVars
<1>6. ASSUME NEW c \in Callers, Fail(c) PROVE Typed'
  BY <1>6, SMT DEF Fail, GiveUpAfterLast, LastAttempt, Sleep, Typed, TypeOK, logVars
<1>7. ASSUME NEW c \in Callers, NEW retryAfter \in RetryAfters,
             RateLimited(c, retryAfter) PROVE Typed'
  <2>1. retryAfter \in Nat /\ blockedUntil' \in Nat
    BY <1>7, SMT DEF RateLimited, Typed, TypeOK
  <2>2. adaptation' \in [level : 0..3, slow : BOOLEAN, delay : Nat]
    BY <1>7, SMT DEF RateLimited, Typed, TypeOK
  <2> QED
    BY <1>7, <2>1, <2>2, SMT
    DEF RateLimited, GiveUpAfterLast, LastAttempt, Sleep, Typed, TypeOK, logVars
<1>8. ASSUME NEW c \in Callers, Retry(c) PROVE Typed'
  BY <1>8, SMT DEF Retry, Typed, TypeOK, logVars
<1>9. ASSUME NEW c \in Callers, ContextDone(c) PROVE Typed'
  BY <1>9, SMT DEF ContextDone, Typed, TypeOK, logVars
<1>10. CASE Tick
  BY <1>10, SMT DEF Tick, Typed, TypeOK, callerVars, logVars
<1>11. CASE UNCHANGED vars
  BY <1>11 DEF vars, Typed, TypeOK
<1> QED
  BY <1>1, <1>2, <1>3, <1>4, <1>5, <1>6, <1>7, <1>8, <1>9, <1>10, <1>11
  DEF Next, DoWithRetry, Wait, AllDone

\* The state of the throttler and of its callers keeps its types, and no caller
\* uses more than MaxAttempts attempts (retry.go).
THEOREM TypeCorrect == Spec => []TypeOK
<1>1. Typed => TypeOK  BY DEF Typed
<1> QED  BY <1>1, TypedInit, TypedNext, PTL DEF Spec

-----------------------------------------------------------------------------
(* The window *)

\* The first window is empty.
LEMMA RememberedInit == Init => Remembered /\ WindowRespected
<1> SUFFICES ASSUME Init PROVE Remembered /\ WindowRespected
  OBVIOUS
<1>1. IsFiniteSet({}) /\ Cardinality({}) = 0
  BY FS_EmptySet
<1>2. Remembered
  BY <1>1, SMT DEF Init, Remembered
<1>3. \A t \in 0..clock : InWindow(t) = {}
  BY DEF Init, InWindow
<1>4. ASSUME NEW t \in 0..clock PROVE Cardinality(InWindow(t)) <= MaxRequests
  <2>1. Cardinality(InWindow(t)) = 0
    BY <1>1, <1>3
  <2> QED  BY <2>1, ThrottlerAssumption, SMT
<1> QED  BY <1>2, <1>4 DEF WindowRespected

\* A request granted by CheckWindow leaves no window with too many: at this
\* instant the window holds the log's recent requests and the new one, and an
\* earlier window does not change.
LEMMA CheckWindowRespects ==
  ASSUME Remembered, WindowRespected, NEW c \in Callers, CheckWindow(c),
         UNCHANGED clock
  PROVE  Remembered' /\ WindowRespected'
<1> USE ThrottlerAssumption
<1> DEFINE recent == {g \in requestLog : g.at + Window > clock}
           new    == [by |-> c, attempt |-> attempt[c], at |-> clock]
<1>1. /\ recent \subseteq granted /\ IsFiniteSet(recent)
      /\ \A g \in granted \ recent : g.at + Window <= clock
  <2>1. recent \subseteq granted
    BY DEF Remembered
  <2>2. IsFiniteSet(recent)
    BY <2>1, FS_Subset DEF Remembered
  <2>3. \A g \in granted \ recent : g.at + Window <= clock
    BY SMT DEF Remembered
  <2> QED  BY <2>1, <2>2, <2>3
<1>2. CASE requestLog' = recent /\ UNCHANGED granted
  <2>1. Remembered'
    BY <1>1, <1>2 DEF Remembered
  <2>2. WindowRespected'
    BY <1>2 DEF WindowRespected, InWindow
  <2> QED  BY <2>1, <2>2
<1>3. CASE /\ Cardinality(recent) < MaxRequests
           /\ requestLog' = recent \cup {new} /\ granted' = granted \cup {new}
  <2>1. Remembered'
    <3>1. IsFiniteSet(granted')
      BY <1>3, FS_AddElement DEF Remembered
    <3>2. new.at = clock
      OBVIOUS
    <3> QED  BY <1>1, <1>3, <3>1, <3>2, SMT DEF Remembered
  <2>2. ASSUME NEW t \in 0..clock PROVE Cardinality(InWindow(t)') <= MaxRequests
    <3>1. CASE new \notin InWindow(t)'
      <4>1. InWindow(t)' = InWindow(t)
        BY <1>3, <3>1 DEF InWindow
      <4> QED  BY <4>1 DEF WindowRespected
    <3>2. CASE new \in InWindow(t)'
      <4>1. t = clock
        BY <3>2, SMT DEF InWindow, Remembered
      <4>2. InWindow(t)' \subseteq recent \cup {new}
        BY <1>1, <1>3, <4>1, SMT DEF InWindow, Remembered
      <4>3. /\ IsFiniteSet(recent \cup {new})
            /\ \/ Cardinality(recent \cup {new}) = Cardinality(recent)
               \/ Cardinality(recent \cup {new}) = Cardinality(recent) + 1
        <5> HIDE DEF recent, new
        <5> QED  BY <1>1, FS_AddElement
      <4>4. Cardinality(InWindow(t)') <= Cardinality(recent \cup {new})
        BY <4>2, <4>3, FS_Subset
      <4>5. Cardinality(InWindow(t)') \in Nat /\ Cardinality(recent) \in Nat
            /\ Cardinality(recent \cup {new}) \in Nat
        BY <1>1, <4>2, <4>3, FS_Subset, FS_CardinalityType
      <4> QED  BY <1>3, <4>3, <4>4, <4>5, SMT
    <3> QED  BY <3>1, <3>2
  <2>3. WindowRespected'
    BY <2>2 DEF WindowRespected
  <2> QED  BY <2>1, <2>3
<1> QED  BY <1>2, <1>3 DEF CheckWindow

\* As time passes the window can only lose requests.
LEMMA TickRespects ==
  ASSUME Remembered, WindowRespected, Tick
  PROVE  Remembered' /\ WindowRespected'
<1> USE ThrottlerAssumption
<1>1. clock' = clock + 1 /\ UNCHANGED <<requestLog, granted>>
  BY DEF Tick, logVars
<1>2. Remembered'
  BY <1>1, SMT DEF Remembered
<1>3. ASSUME NEW t \in 0..clock' PROVE Cardinality(InWindow(t)') <= MaxRequests
  <2>1. InWindow(t)' = InWindow(t)
    BY <1>1 DEF InWindow
  <2>2. CASE t \in 0..clock
    BY <2>1, <2>2 DEF WindowRespected
  <2>3. CASE t = clock + 1
    <3>1. InWindow(t) \subseteq InWindow(clock) /\ InWindow(clock) \subseteq granted
      BY <2>3, SMT DEF InWindow, Remembered
    <3>2. IsFiniteSet(InWindow(clock))
      BY <3>1, FS_Subset DEF Remembered
    <3>3. /\ Cardinality(InWindow(t)) <= Cardinality(InWindow(clock))
          /\ Cardinality(InWindow(t)) \in Nat /\ Cardinality(InWindow(clock)) \in Nat
      BY <3>1, <3>2, FS_Subset, FS_CardinalityType
    <3>4. Cardinality(InWindow(clock)) <= MaxRequests
      BY SMT DEF WindowRespected, Remembered
    <3> QED  BY <2>1, <3>3, <3>4, SMT
  <2> QED  BY <1>1, <2>2, <2>3, SMT DEF Remembered
<1> QED  BY <1>2, <1>3 DEF WindowRespected

\* Every step keeps the window: it asks the window, it lets time pass, or it
\* leaves the log alone.
LEMMA RememberedNext ==
  Remembered /\ WindowRespected /\ [Next]_vars => Remembered' /\ WindowRespected'
<1> SUFFICES ASSUME Remembered, WindowRespected, [Next]_vars
             PROVE  Remembered' /\ WindowRespected'
  OBVIOUS
<1>1. ASSUME UNCHANGED <<clock, requestLog, granted>>
      PROVE  Remembered' /\ WindowRespected'
  BY <1>1 DEF Remembered, WindowRespected, InWindow
<1>2. ASSUME NEW c \in Callers, Wait(c) PROVE Remembered' /\ WindowRespected'
  <2>1. UNCHANGED clock
    BY <1>2 DEF Wait, Enter, WakeFromBlock, WakeFromDelay, WakeFromPark
  <2>2. CheckWindow(c) \/ UNCHANGED logVars
    BY <1>2 DEF Wait, Enter, WakeFromBlock, WakeFromDelay, WakeFromPark, CheckDelay
  <2> QED  BY <1>1, <2>1, <2>2, CheckWindowRespects DEF logVars
<1>3. ASSUME NEW c \in Callers,
             \/ Succeed(c) \/ Fail(c) \/ Retry(c) \/ ContextDone(c)
             \/ \E retryAfter \in RetryAfters : RateLimited(c, retryAfter)
      PROVE  Remembered' /\ WindowRespected'
  BY <1>1, <1>3 DEF Succeed, Fail, Retry, ContextDone, RateLimited, logVars
<1>4. CASE Tick
  BY <1>4, TickRespects
<1>5. CASE UNCHANGED vars
  BY <1>1, <1>5 DEF vars
<1> QED  BY <1>2, <1>3, <1>4, <1>5 DEF Next, DoWithRetry, AllDone

\* However many callers share the throttler and wherever they sleep in Wait, no
\* window of Window units holds more than MaxRequests requests (wait.go).
THEOREM WindowNeverOvershot == Spec => []WindowRespected
  BY RememberedInit, RememberedNext, PTL DEF Spec

-----------------------------------------------------------------------------
(* The spacing of one caller's requests *)

\* Nothing was granted yet.
LEMMA SpacedInit == Init => Spaced /\ RetriesSpaced
  BY DEF Init, Spaced, Own, RetriesSpaced

\* A caller may fall asleep until its own requests are DelayMin old, when they
\* are (parked), or with the delay still to be asked for.
LEMMA SleepSpaces ==
  ASSUME Typed, Spaced, RetriesSpaced, NEW c \in Callers, NEW label, NEW until,
         Sleep(c, label, until), UNCHANGED <<clock, attempt, granted, lastRequest>>,
         label \in {"wait", "blocked", "delayed", "parked"} =>
           pc[c] \in {"wait", "blocked", "delayed", "parked"},
         label = "delayed" => \A g \in Own(c) : g.at + DelayMin <= until,
         label = "parked" => \A g \in Own(c) : g.at + DelayMin <= clock
  PROVE  Spaced' /\ RetriesSpaced'
<1>1. /\ pc'[c] = label /\ wake'[c] = until
      /\ \A d \in Callers \ {c} : pc'[d] = pc[d] /\ wake'[d] = wake[d]
  BY DEF Sleep, Typed, TypeOK
<1>2. ASSUME NEW d \in Callers, NEW g \in Own(d)
      PROVE  /\ g.attempt <= attempt'[d]
             /\ pc'[d] \in {"wait", "blocked", "delayed", "parked"} => g.attempt < attempt'[d]
             /\ pc'[d] = "delayed" => g.at + DelayMin <= wake'[d]
             /\ pc'[d] = "parked"  => g.at + DelayMin <= clock'
  BY <1>1 DEF Spaced
<1>3. \A d \in Callers : Own(d)' = Own(d)
  BY DEF Own
<1> QED  BY <1>2, <1>3 DEF Spaced, RetriesSpaced

\* A caller whose own requests are all DelayMin old may be granted another, and
\* may be parked until there is room for it.
LEMMA CheckWindowSpaces ==
  ASSUME Typed, Remembered, Spaced, RetriesSpaced, NEW c \in Callers,
         pc[c] \in {"wait", "blocked", "delayed", "parked"},
         \A g \in Own(c) : g.at + DelayMin <= clock,
         CheckWindow(c), UNCHANGED <<clock, attempt>>
  PROVE  Spaced' /\ RetriesSpaced'
<1> USE ThrottlerAssumption
<1> DEFINE new == [by |-> c, attempt |-> attempt[c], at |-> clock]
<1>0. /\ clock \in Nat /\ clock # Never
      /\ \A g \in granted : g.at \in Nat /\ g.at <= clock /\ g.attempt \in Nat
      /\ \A d \in Callers : attempt[d] \in Nat
  BY SMT DEF Remembered, Typed, TypeOK, Grant, Never
<1>1. CASE /\ granted' = granted \cup {new} /\ lastRequest' = clock
           /\ pc' = [pc EXCEPT ![c] = "sent"] /\ UNCHANGED wake
  <2>1. \A g \in granted' : g.at <= lastRequest'
    BY <1>0, <1>1, SMT
  <2>2. ASSUME NEW d \in Callers, NEW g \in Own(d)'
        PROVE  /\ g.attempt <= attempt'[d]
               /\ pc'[d] \in {"wait", "blocked", "delayed", "parked"} => g.attempt < attempt'[d]
               /\ pc'[d] = "delayed" => g.at + DelayMin <= wake'[d]
               /\ pc'[d] = "parked"  => g.at + DelayMin <= clock'
    <3>1. pc'[c] = "sent" /\ (d # c => pc'[d] = pc[d])
      BY <1>1 DEF Typed, TypeOK
    <3>2. g \in Own(d) \/ (d = c /\ g = new)
      BY <1>1 DEF Own
    <3>3. CASE g \in Own(d)
      BY <1>1, <3>1, <3>3, SMT DEF Spaced
    <3>4. CASE d = c /\ g = new
      BY <1>0, <1>1, <3>1, <3>4, SMT
    <3> QED  BY <3>2, <3>3, <3>4
  <2>3. Spaced'
    BY <1>0, <1>1, <2>1, <2>2 DEF Spaced
  <2>4. ASSUME NEW g \in granted', NEW h \in granted', g.by = h.by, g.attempt < h.attempt
        PROVE  h.at >= g.at + DelayMin
    <3>1. CASE g \in granted /\ h \in granted
      BY <2>4, <3>1 DEF RetriesSpaced
    <3>2. CASE g \in granted /\ h = new
      BY <2>4, <3>2 DEF Own
    <3>3. CASE g = new /\ h \in granted
      <4>1. h \in Own(c)
        BY <2>4, <3>3 DEF Own
      <4>2. h.attempt < attempt[c]
        BY <4>1 DEF Spaced
      <4> QED  BY <1>0, <2>4, <3>3, <4>2, SMT
    <3>4. CASE g = new /\ h = new
      BY <1>0, <2>4, <3>4, SMT
    <3> QED  BY <1>1, <3>1, <3>2, <3>3, <3>4
  <2> QED  BY <2>3, <2>4 DEF RetriesSpaced
<1>2. CASE /\ UNCHANGED <<granted, lastRequest>>
           /\ \E until : Sleep(c, "parked", until)
  BY <1>2, SleepSpaces
<1> QED  BY <1>1, <1>2 DEF CheckWindow

\* So may one that asks for the delay: whatever lastRequest is when it asks, it
\* is not before the caller's own last request.
LEMMA CheckDelaySpaces ==
  ASSUME Typed, Remembered, Spaced, RetriesSpaced, NEW c \in Callers,
         pc[c] \in {"wait", "blocked"},
         CheckDelay(c), UNCHANGED <<clock, attempt>>
  PROVE  Spaced' /\ RetriesSpaced'
<1> USE ThrottlerAssumption
<1>0. /\ clock \in Nat /\ lastRequest \in Nat \cup {Never} /\ Never \notin Nat
      /\ \A g \in granted : g.at \in Nat /\ g.at <= clock
      /\ \A delay \in Delays : delay \in Nat /\ delay >= DelayMin
  BY SMT DEF Remembered, Typed, TypeOK, Delays, Never
<1>1. CASE NoDelay /\ CheckWindow(c)
  <2>1. \A g \in Own(c) : g.at + DelayMin <= clock
    BY <1>0, <1>1, SMT DEF NoDelay, Spaced, Own
  <2> QED  BY <1>1, <2>1, CheckWindowSpaces
<1>2. ASSUME NEW delay \in Delays, ~NoDelay,
             clock - lastRequest >= delay, CheckWindow(c)
      PROVE  Spaced' /\ RetriesSpaced'
  <2>1. \A g \in Own(c) : g.at + DelayMin <= clock
    BY <1>0, <1>2, SMT DEF NoDelay, Spaced, Own
  <2> QED  BY <1>2, <2>1, CheckWindowSpaces
<1>3. ASSUME NEW delay \in Delays, ~NoDelay,
             Sleep(c, "delayed", lastRequest + delay), UNCHANGED logVars
      PROVE  Spaced' /\ RetriesSpaced'
  <2>1. \A g \in Own(c) : g.at + DelayMin <= lastRequest + delay
    BY <1>0, <1>3, SMT DEF NoDelay, Spaced, Own
  <2> QED  BY <1>3, <2>1, SleepSpaces DEF logVars
<1> QED  BY <1>1, <1>2, <1>3 DEF CheckDelay

\* Every step keeps the spacing.
LEMMA SpacedNext ==
  Typed /\ Remembered /\ Spaced /\ RetriesSpaced /\ [Next]_vars
    => Spaced' /\ RetriesSpaced'
<1> SUFFICES ASSUME Typed, Remembered, Spaced, RetriesSpaced, [Next]_vars
             PROVE  Spaced' /\ RetriesSpaced'
  OBVIOUS
<1> USE ThrottlerAssumption
<1>1. ASSUME NEW c \in Callers, Enter(c) PROVE Spaced' /\ RetriesSpaced'
  <2>1. CASE Sleep(c, "blocked", blockedUntil) /\ UNCHANGED logVars
    BY <1>1, <2>1, SleepSpaces DEF Enter, logVars
  <2>2. CASE CheckDelay(c)
    BY <1>1, <2>2, CheckDelaySpaces DEF Enter
  <2> QED  BY <1>1, <2>1, <2>2 DEF Enter
<1>2. ASSUME NEW c \in Callers, WakeFromBlock(c) PROVE Spaced' /\ RetriesSpaced'
  BY <1>2, CheckDelaySpaces DEF WakeFromBlock
<1>3. ASSUME NEW c \in Callers, WakeFromDelay(c) PROVE Spaced' /\ RetriesSpaced'
  <2>1. \A g \in Own(c) : g.at + DelayMin <= clock
    BY <1>3, SMT DEF WakeFromDelay, Spaced, Own, Typed, TypeOK, Grant
  <2> QED  BY <1>3, <2>1, CheckWindowSpaces DEF WakeFromDelay
<1>4. ASSUME NEW c \in Callers, WakeFromPark(c) PROVE Spaced' /\ RetriesSpaced'
  BY <1>4, CheckWindowSpaces DEF WakeFromPark, Spaced
<1>5. ASSUME NEW c \in Callers, Succeed(c) \/ ContextDone(c)
      PROVE  Spaced' /\ RetriesSpaced'
  <2>1. /\ UNCHANGED <<clock, attempt, wake, lastRequest, granted>>
        /\ pc' = [pc EXCEPT ![c] = "done"]
    BY <1>5 DEF Succeed, ContextDone, logVars
  <2> QED  BY <2>1 DEF Spaced, Own, RetriesSpaced, Typed, TypeOK
<1>6. ASSUME NEW c \in Callers,
             Fail(c) \/ \E retryAfter \in RetryAfters : RateLimited(c, retryAfter)
      PROVE  Spaced' /\ RetriesSpaced'
  <2>1. UNCHANGED <<clock, attempt, granted, lastRequest>>
    BY <1>6 DEF Fail, RateLimited, logVars
  <2>2. CASE \E until : Sleep(c, "backoff", until)
    BY <2>1, <2>2, SleepSpaces
  <2>3. CASE GiveUpAfterLast(c)
    BY <2>1, <2>3 DEF GiveUpAfterLast, Spaced, Own, RetriesSpaced, Typed, TypeOK
  <2> QED  BY <1>6, <2>2, <2>3 DEF Fail, RateLimited
<1>7. ASSUME NEW c \in Callers, Retry(c) PROVE Spaced' /\ RetriesSpaced'
  <2>1. /\ UNCHANGED <<clock, wake, granted, lastRequest>>
        /\ pc' = [pc EXCEPT ![c] = "wait"]
        /\ attempt' = [attempt EXCEPT ![c] = @ + 1]
    BY <1>7 DEF Retry, logVars
  <2>2. ASSUME NEW d \in Callers, NEW g \in Own(d)
        PROVE  /\ g.attempt <= attempt'[d]
               /\ pc'[d] \in {"wait", "blocked", "delayed", "parked"} => g.attempt < attempt'[d]
               /\ pc'[d] = "delayed" => g.at + DelayMin <= wake'[d]
               /\ pc'[d] = "parked"  => g.at + DelayMin <= clock'
    <3>1. CASE d = c
      <4>1. attempt'[c] = attempt[c] + 1 /\ pc'[c] = "wait"
        BY <2>1 DEF Typed, TypeOK
      <4>2. g.attempt \in Nat /\ attempt[c] \in Nat
        BY SMT DEF Own, Typed, TypeOK, Grant
      <4>3. g.attempt <= attempt[c]
        BY <3>1 DEF Spaced
      <4>4. g.attempt < attempt'[c]
        BY <4>1, <4>2, <4>3, SMT
      <4> QED  BY <3>1, <4>1, <4>2, <4>4, SMT
    <3>2. CASE d # c
      BY <2>1, <3>2 DEF Spaced, Typed, TypeOK
    <3> QED  BY <3>1, <3>2
  <2>3. \A d \in Callers : Own(d)' = Own(d)
    BY <2>1 DEF Own
  <2> QED  BY <2>1, <2>2, <2>3 DEF Spaced, RetriesSpaced
<1>8. CASE Tick
  <2>1. /\ clock' = clock + 1 /\ clock \in Nat
        /\ UNCHANGED <<pc, attempt, wake, granted, lastRequest>>
    BY <1>8 DEF Tick, callerVars, logVars, Remembered
  <2>2. \A g \in granted : g.at + DelayMin <= clock => g.at + DelayMin <= clock'
    BY <2>1, SMT DEF Remembered
  <2> QED  BY <2>1, <2>2 DEF Spaced, Own, RetriesSpaced
<1>9. CASE UNCHANGED vars
  BY <1>9 DEF vars, Spaced, Own, RetriesSpaced
<1> QED
  BY <1>1, <1>2, <1>3, <1>4, <1>5, <1>6, <1>7, <1>8, <1>9
  DEF Next, DoWithRetry, Wait, AllDone

\* A caller's own requests keep the minimal delay, whoever moved lastRequest
\* while it slept and however short its backoff was (wait.go, retry.go).
THEOREM RetriesKeepDistance == Spec => []RetriesSpaced
<1>1. Init => Typed /\ Remembered /\ WindowRespected /\ Spaced /\ RetriesSpaced
  BY TypedInit, RememberedInit, SpacedInit
<1>2. Typed /\ Remembered /\ WindowRespected /\ Spaced /\ RetriesSpaced /\ [Next]_vars
        => (Typed /\ Remembered /\ WindowRespected /\ Spaced /\ RetriesSpaced)'
  BY TypedNext, RememberedNext, SpacedNext
<1> QED  BY <1>1, <1>2, PTL DEF Spec

-----------------------------------------------------------------------------
(* Adaptation *)

\* What Adapt returns is slow at a level above 0 only.
LEMMA AdaptKeepsFlag ==
  ASSUME NEW a \in [level : 0..3, slow : BOOLEAN, delay : Nat],
         a.slow => a.level > 0,
         NEW average \in Average, NEW cooledDown \in BOOLEAN
  PROVE  Adapt(a, average, cooledDown).slow => Adapt(a, average, cooledDown).level > 0
<1> DEFINE measured == ByAverage(a, average)
           eased == [level |-> a.level - 1, slow |-> a.level > 1, delay |-> a.delay \div 2]
<1>1. measured.slow => measured.level > 0
  <2>1. CASE average \in {"extreme", "severe", "moderate", "slight"}
    <3>1. measured.level \in 1..3
      BY <2>1, SMT DEF ByAverage
    <3> QED  BY <3>1, SMT
  <2>2. CASE average \notin {"extreme", "severe", "moderate", "slight"}
    <3>1. measured.slow = FALSE
      BY <2>2 DEF ByAverage
    <3> QED  BY <3>1
  <2> QED  BY <2>1, <2>2
<1>2. eased.slow => eased.level > 0
  <2>1. eased.slow => a.level > 1
    OBVIOUS
  <2>2. a.level > 1 => eased.level > 0
    BY SMT
  <2> QED  BY <2>1, <2>2
<1>3. Adapt(a, average, cooledDown) \in {measured, eased, a}
  BY DEF Adapt
<1> QED  BY <1>1, <1>2, <1>3

\* A step changes adaptation only through Adapt or a 429 answer, and neither
\* leaves the flag without a level.
LEMMA SlowNext == Typed /\ SlowMeansAdapted /\ [Next]_vars => SlowMeansAdapted'
<1> SUFFICES ASSUME Typed, SlowMeansAdapted, [Next]_vars PROVE SlowMeansAdapted'
  OBVIOUS
<1>1. ASSUME NEW c \in Callers, Succeed(c) PROVE SlowMeansAdapted'
  <2>1. adaptation \in [level : 0..3, slow : BOOLEAN, delay : Nat]
    BY DEF Typed, TypeOK
  <2>2. CASE UNCHANGED adaptation
    BY <2>2 DEF SlowMeansAdapted
  <2>3. ASSUME NEW average \in Average, NEW cooledDown \in BOOLEAN,
               adaptation' = Adapt(adaptation, average, cooledDown)
        PROVE  SlowMeansAdapted'
    BY <2>1, <2>3, AdaptKeepsFlag DEF SlowMeansAdapted
  <2> QED  BY <1>1, <2>2, <2>3 DEF Succeed
<1>2. ASSUME NEW c \in Callers, NEW retryAfter \in RetryAfters, RateLimited(c, retryAfter)
      PROVE  SlowMeansAdapted'
  BY <1>2, SMT DEF RateLimited, SlowMeansAdapted
<1>3. ASSUME UNCHANGED adaptation PROVE SlowMeansAdapted'
  BY <1>3 DEF SlowMeansAdapted
<1>4. UNCHANGED adaptation
      \/ \E c \in Callers : \/ Succeed(c)
                            \/ \E retryAfter \in RetryAfters : RateLimited(c, retryAfter)
  BY DEF Next, DoWithRetry, Wait, Enter, WakeFromBlock, WakeFromDelay, WakeFromPark,
         Fail, Retry, ContextDone, Tick, AllDone, vars
<1> QED  BY <1>1, <1>2, <1>3, <1>4

\* The throttler calls the traffic slow only while it is adapted to it
\* (adaptive.go).
THEOREM SlowIsAdapted == Spec => []SlowMeansAdapted
<1>1. Init => SlowMeansAdapted
  BY DEF Init, SlowMeansAdapted
<1> QED  BY <1>1, SlowNext, TypedInit, TypedNext, PTL DEF Spec
================================================================================
