CONSTANTS
    p1 = p1
    p2 = p2
    Peer <- MCPeer
    Self = Self
    NoPeer = NoPeer
    NoHost = NoHost
    MaxIP = 3
    Copies = 2
    MaxEvents = 3

CONSTRAINT Few
SYMMETRY Symmetry
SPECIFICATION Spec
CHECK_DEADLOCK FALSE

INVARIANTS
    TypeOK
    AddressesAgree
    HostsAgree
PROPERTIES
    OwnHostOnly
