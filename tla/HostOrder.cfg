CONSTANTS
    c1 = c1
    c2 = c2
    c3 = c3
    u1 = u1
    u2 = u2
    u3 = u3
    Conn = {c1, c2, c3}
    User = {u1, u2, u3}
    UserOf <- OneWebsocketEach
    NoConn = NoConn
    Room = {r1, r2}
    NoRoom = NoRoom
    MaxTicks = 1
SYMMETRY Symmetry
CONSTRAINT NoReadyMessage
SPECIFICATION InLobbySpec
PROPERTY EarliestStayingPlayerHosts
CHECK_DEADLOCK FALSE
