SPECIFICATION FairSpec
CONSTANTS
    a = a
    b = b
    x = x
    f = f
    Nodes = {a, b}
    Names = {x}
    Unnamed = Unnamed
    Titles = {x}
    Dials <- Pair
    Fetches = {f}
    FetchAt <- At
    FetchWants <- Wants
    NoBox = NoBox
    MaxPid = 2
    MaxRestarts = 1
    MaxBreaks = 1
    Duplicates = FALSE
INVARIANTS NamesSound ReplicaAgrees NoMissedFetch
PROPERTY NamesConverge
CHECK_DEADLOCK FALSE
