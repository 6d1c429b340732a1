CONSTANTS
  Callers = {c1, c2}
  MaxRequests = 2
  Window = 3
  DelayMin = 2
  DelayMax = 2
  InitialBackoff = 1
  MaxBackoff = 2
  MaxAttempts = 2
  RetryAfters = {0, 1}
  AdaptiveEnabled = TRUE
  MaxClock = 6
SPECIFICATION Spec
INVARIANTS TypeOK WindowRespected RetriesSpaced SlowMeansAdapted
