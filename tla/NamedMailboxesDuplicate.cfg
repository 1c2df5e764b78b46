SPECIFICATION Spec
CONSTANTS
    a = a
    b = b
    x = x
    f = f
    Nodes = {a, b}
    Names = {x}
    Unnamed = Unnamed
    Titles = {x}
    Dials <- Pair
    Fetches = {}
    FetchAt <- At
    FetchWants <- Wants
    NoBox = NoBox
    MaxPid = 2
    MaxRestarts = 0
    MaxBreaks = 0
    Duplicates = TRUE
INVARIANT LocalNamesLive
CHECK_DEADLOCK FALSE
