CONSTANTS
    Client = {game, again, probe}
    ProbeConn = probe
    Nobody = Nobody

SPECIFICATION RedirectsSpec
CHECK_DEADLOCK FALSE

INVARIANTS
    EndsTogether
    AtMostOneLate
PROPERTIES
    StopEnds
    WaitsForAnother
