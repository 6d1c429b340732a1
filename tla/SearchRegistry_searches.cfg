SPECIFICATION FairRegistrySpec
CONSTANTS
  Requests = {r1, r2, r3}
  Queries = {q1}
  Absent = Absent
INVARIANTS RegistrySound
PROPERTY RuntimesEnd
CHECK_DEADLOCK FALSE
