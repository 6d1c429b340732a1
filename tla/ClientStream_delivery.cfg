SPECIFICATION Spec
CONSTANTS
    Kinds = {"complete", "incomplete", "search"}
    Clients = {c1}
    Items = {i1}
    ClientCap = 1
    ChangeCap = 1
    SendCap = 2
    MaxFailures = 2
INVARIANTS NothingMissed FinalIsWhole WholeAtGoodbye
CHECK_DEADLOCK FALSE
