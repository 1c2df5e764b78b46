SPECIFICATION FairSpec
CONSTANTS
    Links = {l1, l2}
    Required = {l1}
    Accepted = {a1, a2}
    NodeIds = {i1, i2}
    NoId = NoId
    NoConn = NoConn
    ConfigOutcomes = {"ok", "unreadable"}
    ConnectOutcomes = {"pending", "ok"}
    Overlap = FALSE
    LocalCasts = TRUE
INVARIANTS MonitorSound RefsBalance ModuleLegal
 
