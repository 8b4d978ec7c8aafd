CONSTANTS
    u1 = u1
    u2 = u2
    u3 = u3
    r1 = r1
    r2 = r2
    User = {u1, u2, u3}
    Room = {r1, r2}
    Nobody = Nobody
    NoRoom = NoRoom
    NoGame = NoGame
    MaxCommands = 5
    MaxDepartures = 2
    MaxFailures = 1
SPECIFICATION Spec
SYMMETRY NameSymmetry
CHECK_DEADLOCK FALSE
INVARIANTS
    RosterAgrees
    HostTold
