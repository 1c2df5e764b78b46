CONSTANTS
    Calls = {c1, c2, c3}
    Linked = {c1, c2}
    NoCall = NoCall
    SessionMod = 3
    MaxPid = 2
    MaxCasts = 1
    MaxFaults = 1
    Collisions = FALSE
SPECIFICATION FairSpec
INVARIANTS RpcSound
PROPERTIES Implements CallsAnswered
CHECK_DEADLOCK FALSE
