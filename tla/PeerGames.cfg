CONSTANTS
    u1 = u1
    u2 = u2
    u3 = u3
    User = {u1, u2, u3}
    Room = {r1}
    Nobody = Nobody
    NoRoom = NoRoom
    NoGame = NoGame
    NoPeer = NoPeer
    RingSize = 2
    MaxCommands = 5
    MaxDepartures = 2
    MaxFailures = 1
SPECIFICATION Spec
SYMMETRY UserSymmetry
CHECK_DEADLOCK FALSE
INVARIANTS
    PeersAgree
    AddressesFree
PROPERTIES
    OnlyRacesHurt
