CONSTANTS
    MaxReq = 2
    MaxLen = 2
    ReadLen = 3
    Endpoints = {"/temperature", "/index.html"}
    Times = {0, 3}
    Delta = 2
    Handlers = {"/temperature"}
    Verbs = {"get", "post"}
    Get = "get"
    Targets = {"/temperature", "/", "/out"}
    Index <- MCIndex
    Canonical <- MCCanonical
    BelowBase = {"/index.html"}
    Fields = {temperature, humidity}
    MaxRetrieves = 1
    MaxCycles = 2
    Services <- MCServices
SYMMETRY Symmetry
SPECIFICATION ServiceSpec
INVARIANTS ServiceTypeOK InStep Snapshot Counted OneCycle
CHECK_DEADLOCK FALSE
