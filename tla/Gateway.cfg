SPECIFICATION FairSpec
CONSTANTS
    Clients = {c1, c2, c3, c4}
    Nobody = Nobody
    MaxConnections = 2
    MaxStops = 2
    SignalInAccept = FALSE
INVARIANTS TypeOK RefsBalance SessionsAlive ExitClean StopKicksAll CleanupOnce
PROPERTY ShutdownEnds
