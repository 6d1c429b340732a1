SPECIFICATION Spec
CONSTANTS
    Kinds = {"incomplete", "search"}
    Clients = {c1}
    Items = {i1}
    ClientCap = 1
    ChangeCap = 1
    SendCap = 1
    MaxFailures = 1
PROPERTIES PumpsEndTogether FetchFreed
CHECK_DEADLOCK FALSE
