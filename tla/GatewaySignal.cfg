SPECIFICATION Spec
CONSTANTS
    Clients = {c1, c2}
    Nobody = Nobody
    MaxConnections = 2
    MaxStops = 1
    SignalInAccept = TRUE
INVARIANT StopKicksAll
