---------------------------- MODULE LobbyProofs ----------------------------
(***************************************************************************)
(* Proofs about Lobby, for any number of users, websockets per user and    *)
(* game IDs, about HostOrder, which adds a clock and the times of the      *)
(* entries to it, and about Presence, which adds the lobby's messages to   *)
(* the same sessions.                                                      *)
(***************************************************************************)
EXTENDS HostOrder, Presence, TLAPS

\* The steps that touch no room keep TypeOK.
LEMMA SessionStepTypeOK ==
    ASSUME TypeOK, NEW c \in Conn, SessionStep(c)
    PROVE  TypeOK'
BY ConnAssumption
   DEF TypeOK, SessionStep, HandleHello, HandleJoinLobby, HandshakeFails, ListSessions,
       FindUserSession, SetUserSession, SendLobbyUsers, BroadcastJoin, StopServing,
       LeaveRelay, DeleteUserSession, BroadcastLeave, Advance, Phase, roomVars

\* Everything a record of a room may become is a room again.
LEMMA RoomUpdates ==
    ASSUME NEW room \in GameRoom, NEW u \in User, NEW c \in Conn \cup {NoConn}, NEW h \in Conn
    PROVE  /\ [room EXCEPT !.players[u] = c] \in GameRoom
           /\ [room EXCEPT !.players[u] = c, !.host = h] \in GameRoom
           /\ [room EXCEPT !.ready = TRUE] \in GameRoom
BY DEF GameRoom

\* A next host is one of the sessions listed.
LEMMA NextHostIsListed ==
    ASSUME NEW players \in [User -> Conn \cup {NoConn}], NEW h \in NextHosts(players)
    PROVE  h \in Conn /\ \E u \in User : players[u] = h
BY DEF NextHosts

LEMMA InitTypeOK == Init => TypeOK
BY RoomAssumption DEF Init, SessionsInit, TypeOK, Phase, Ticks

LEMMA CreateRoomTypeOK ==
    ASSUME TypeOK, NEW u \in User, NEW r \in Room, CreateRoom(u, r)
    PROVE  TypeOK'
<1>1. sessions[u] \in Conn
  BY DEF TypeOK, CreateRoom, Registered
<1>2. [ready   |-> FALSE,
       host    |-> sessions[u],
       players |-> [v \in User |-> IF v = u THEN sessions[u] ELSE NoConn]] \in GameRoom
  BY <1>1 DEF GameRoom
<1>. QED
  BY <1>1, <1>2 DEF TypeOK, CreateRoom

LEMMA JoinRoomTypeOK ==
    ASSUME TypeOK, NEW u \in User, NEW r \in Room, JoinRoom(u, r)
    PROVE  TypeOK'
<1>1. sessions[u] \in Conn
  BY DEF TypeOK, JoinRoom, Registered
<1>2. rooms[r] \in GameRoom
  BY DEF TypeOK, JoinRoom, Open
<1>3. [rooms[r] EXCEPT !.players[u] = sessions[u]] \in GameRoom
  BY <1>1, <1>2, RoomUpdates
<1>4. rooms' \in [Room -> GameRoom \cup {NoRoom}]
  BY <1>3 DEF TypeOK, JoinRoom
<1>. QED
  BY <1>1, <1>4 DEF TypeOK, JoinRoom, Ticks

(***************************************************************************)
(* What RemovePlayer does to the room: it closes it, or takes the user's   *)
(* key out of it, keeping the host or making a listed session the host.    *)
(***************************************************************************)
LEMMA RemovePlayerEffect ==
    ASSUME TypeOK, NEW r \in Room, NEW u \in User, Open(r), RemovePlayer(r, u)
    PROVE  \/ /\ rooms' = [rooms EXCEPT ![r] = NoRoom]
              /\ Players(r) \subseteq {u}
           \/ \E h \in Conn :
                /\ rooms' = [rooms EXCEPT ![r] = [rooms[r] EXCEPT !.players[u] = NoConn, !.host = h]]
                /\ [rooms[r] EXCEPT !.players[u] = NoConn, !.host = h] \in GameRoom
                /\ IF HostUser(r) = u
                   THEN \E v \in User \ {u} : rooms[r].players[v] = h
                   ELSE h = rooms[r].host
<1>1. rooms[r] \in GameRoom
  BY DEF TypeOK, Open
<1>2. CASE Players(r) \subseteq {u}
  BY <1>2 DEF RemovePlayer
<1>3. CASE ~(Players(r) \subseteq {u})
  <2>1. PICK h \in IF HostUser(r) = u THEN NextHosts(WithoutPlayer(r, u)) ELSE {rooms[r].host} :
            rooms' = [rooms EXCEPT ![r].players[u] = NoConn, ![r].host = h]
    BY <1>3 DEF RemovePlayer
  <2>2. rooms' = [rooms EXCEPT ![r] = [rooms[r] EXCEPT !.players[u] = NoConn, !.host = h]]
    BY <2>1 DEF TypeOK
  <2>3. WithoutPlayer(r, u) \in [User -> Conn \cup {NoConn}]
    BY <1>1 DEF WithoutPlayer, GameRoom
  <2>4. CASE HostUser(r) = u
    <3>1. h \in Conn /\ \E v \in User : WithoutPlayer(r, u)[v] = h
      BY <2>1, <2>3, <2>4, NextHostIsListed
    <3>2. \E v \in User \ {u} : rooms[r].players[v] = h
      BY <1>1, <3>1, ConnAssumption DEF WithoutPlayer, GameRoom
    <3>. QED
      BY <1>1, <2>2, <2>4, <3>1, <3>2, RoomUpdates
  <2>5. CASE HostUser(r) # u
    <3>1. h = rooms[r].host /\ h \in Conn
      BY <1>1, <2>1, <2>5 DEF GameRoom
    <3>. QED
      BY <1>1, <2>2, <2>5, <3>1, RoomUpdates
  <2>. QED
    BY <2>4, <2>5
<1>. QED
  BY <1>2, <1>3

LEMMA LeaveRoomTypeOK ==
    ASSUME TypeOK, NEW c \in Conn, LeaveRoom(c)
    PROVE  TypeOK'
<1>1. phase' \in [Conn -> Phase] /\ UNCHANGED <<sessions, gameID, joinedAt, now, inbox>>
  BY DEF TypeOK, LeaveRoom, LeaveGame, Advance, Phase
<1>2. rooms' \in [Room -> GameRoom \cup {NoRoom}]
  <2>1. CASE gameID[c] \in Room /\ rooms[gameID[c]] # NoRoom
    <3>1. UserOf[c] \in User
      BY ConnAssumption
    <3>2. RemovePlayer(gameID[c], UserOf[c]) /\ Open(gameID[c])
      BY <2>1 DEF LeaveRoom, Open
    <3>3. \E room \in GameRoom \cup {NoRoom} : rooms' = [rooms EXCEPT ![gameID[c]] = room]
      BY <2>1, <3>1, <3>2, RemovePlayerEffect
    <3>. QED
      BY <3>3 DEF TypeOK
  <2>2. CASE ~(gameID[c] \in Room /\ rooms[gameID[c]] # NoRoom)
    BY <2>2 DEF LeaveRoom, TypeOK
  <2>. QED
    BY <2>1, <2>2
<1>. QED
  BY <1>1, <1>2 DEF TypeOK

LEMMA ReadyTypeOK ==
    ASSUME TypeOK, SetRoomReady \/ \E c \in Conn, r \in Room : EnqueueRoomReady(c, r)
    PROVE  TypeOK'
<1>1. CASE SetRoomReady
  <2>1. inbox \in Room
    BY <1>1 DEF TypeOK, SetRoomReady
  <2>2. Open(inbox) => [rooms[inbox] EXCEPT !.ready = TRUE] \in GameRoom
    BY <2>1 DEF TypeOK, Open, GameRoom
  <2>3. rooms' \in [Room -> GameRoom \cup {NoRoom}]
    BY <1>1, <2>1, <2>2 DEF TypeOK, SetRoomReady
  <2>. QED
    BY <1>1, <2>3 DEF TypeOK, SetRoomReady
<1>2. CASE \E c \in Conn, r \in Room : EnqueueRoomReady(c, r)
  BY <1>2 DEF TypeOK, EnqueueRoomReady
<1>. QED
  BY <1>1, <1>2

\* The variables keep their types: rooms are records of sessions the console
\* knows, and the clock stays in its bound.
THEOREM TypeCorrect == Spec => []TypeOK
<1>1. TypeOK /\ [Next]_vars => TypeOK'
  <2>1. ASSUME TypeOK, Next  PROVE TypeOK'
    BY <2>1, SessionStepTypeOK, CreateRoomTypeOK, JoinRoomTypeOK, LeaveRoomTypeOK, ReadyTypeOK
       DEF Next
  <2>2. ASSUME TypeOK, UNCHANGED vars  PROVE TypeOK'
    BY <2>2 DEF TypeOK, vars
  <2>. QED
    BY <2>1, <2>2
<1>. QED
  BY <1>1, InitTypeOK, PTL DEF Spec

-----------------------------------------------------------------------------
(***************************************************************************)
(* The map of sessions.  RegisteredIsAlive and SoleSessionListed only      *)
(* speak of phase and sessions; no call of the game service touches those. *)
(***************************************************************************)

Registry == RegisteredIsAlive /\ SoleSessionListed

\* Steps that move one goroutine within its phases and write no session.
LEMMA AdvanceKeepsRegistry ==
    ASSUME TypeOK, Registry, NEW c \in Conn, NEW p \in Phase,
           phase' = [phase EXCEPT ![c] = p], UNCHANGED sessions,
           \/ phase[c] \in Holding /\ p \in Holding
           \/ phase[c] \notin Holding /\ p \notin Holding
    PROVE  Registry'
<1>1. RegisteredIsAlive'
  BY DEF TypeOK, Registry, RegisteredIsAlive, Registered
<1>2. SoleSessionListed'
  BY DEF TypeOK, Registry, SoleSessionListed
<1>. QED
  BY <1>1, <1>2 DEF Registry

LEMMA SessionStepRegistry ==
    ASSUME TypeOK, Registry, NEW c \in Conn, SessionStep(c)
    PROVE  Registry'
<1>. DEFINE u == UserOf[c]
<1>0. u \in User
  BY ConnAssumption
<1>1. CASE SetUserSession(c)
  <2>1. /\ phase[c] = "adding"
        /\ phase' = [phase EXCEPT ![c] = "replying"]
        /\ sessions' = [sessions EXCEPT ![u] = c]
    BY <1>1 DEF SetUserSession, Advance
  <2>2. RegisteredIsAlive'
    BY <1>0, <2>1 DEF TypeOK, Registry, RegisteredIsAlive, Registered, Holding
  <2>3. SoleSessionListed'
    BY <1>0, <2>1, ConnAssumption DEF TypeOK, Registry, SoleSessionListed, Holding
  <2>. QED
    BY <2>2, <2>3 DEF Registry
<1>2. CASE DeleteUserSession(c)
  <2>1. /\ phase[c] = "deleting"
        /\ phase' = [phase EXCEPT ![c] = "farewell"]
        /\ sessions' = [sessions EXCEPT ![u] = NoConn]
    BY <1>2 DEF DeleteUserSession, Advance
  <2>2. RegisteredIsAlive'
    BY <1>0, <2>1, ConnAssumption DEF TypeOK, Registry, RegisteredIsAlive, Registered, Holding
  <2>3. SoleSessionListed'
    BY <1>0, <2>1, ConnAssumption DEF TypeOK, Registry, SoleSessionListed, Holding
  <2>. QED
    BY <2>2, <2>3 DEF Registry
<1>3. CASE FindUserSession(c)
  <2>1. CASE Registered(u)
    <3>1. /\ phase[c] = "checking"
          /\ phase' = [phase EXCEPT ![c] = "replying"]
          /\ UNCHANGED sessions
      BY <1>3, <2>1 DEF FindUserSession
    <3>2. RegisteredIsAlive'
      BY <3>1 DEF TypeOK, Registry, RegisteredIsAlive, Registered, Holding
    <3>3. \E d \in Conn : UserOf[d] = u /\ d # c
      BY <1>0, <2>1, <3>1 DEF TypeOK, Registry, RegisteredIsAlive, Registered, Holding
    <3>4. SoleSessionListed'
      BY <3>1, <3>3 DEF TypeOK, Registry, SoleSessionListed
    <3>. QED
      BY <3>2, <3>4 DEF Registry
  <2>2. CASE ~Registered(u)
    BY <1>3, <2>2, AdvanceKeepsRegistry DEF FindUserSession, Phase, Holding
  <2>. QED
    BY <2>1, <2>2
<1>4. CASE HandleHello(c) \/ HandleJoinLobby(c) \/ HandshakeFails(c) \/ ListSessions(c)
           \/ SendLobbyUsers(c) \/ BroadcastJoin(c) \/ StopServing(c) \/ LeaveRelay(c)
           \/ BroadcastLeave(c)
  <2>1. \E p \in Phase :
          /\ phase' = [phase EXCEPT ![c] = p] /\ UNCHANGED sessions
          /\ \/ phase[c] \in Holding /\ p \in Holding
             \/ phase[c] \notin Holding /\ p \notin Holding
    BY <1>4 DEF HandleHello, HandleJoinLobby, HandshakeFails, ListSessions, SendLobbyUsers,
         BroadcastJoin, StopServing, LeaveRelay, BroadcastLeave, Advance, Phase, Holding
  <2>. QED
    BY <2>1, AdvanceKeepsRegistry
<1>. QED
  BY <1>1, <1>2, <1>3, <1>4 DEF SessionStep

LEMMA NextRegistry ==
    ASSUME TypeOK, Registry, [Next]_vars
    PROVE  Registry'
<1>1. ASSUME NEW c \in Conn, LeaveRoom(c)  PROVE Registry'
  BY <1>1, AdvanceKeepsRegistry DEF LeaveRoom, LeaveGame, Advance, Phase, Holding
<1>2. ASSUME UNCHANGED <<phase, sessions>>  PROVE Registry'
  BY <1>2 DEF Registry, RegisteredIsAlive, SoleSessionListed, Registered
<1>. QED
  BY <1>1, <1>2, SessionStepRegistry
     DEF Next, CreateRoom, JoinRoom, EnqueueRoomReady, SetRoomReady, vars

LEMMA RegistryInvariance == Spec => []Registry
<1>1. Init => Registry
  BY DEF Init, SessionsInit, Registry, RegisteredIsAlive, SoleSessionListed, Registered, Holding
<1>. QED
  BY <1>1, TypeCorrect, NextRegistry, PTL DEF Spec

\* The map of sessions holds only live sessions of the right user, although
\* AddUserSession checks and writes in two critical sections and
\* SetPlayerDisconnected deletes by user ID (console/multiplayer.go).
THEOREM SessionsAreAlive == Spec => []RegisteredIsAlive
BY RegistryInvariance, PTL DEF Registry

\* The user of a single websocket is in the map from its registration until
\* SetPlayerDisconnected deletes it, whoever else connects, reconnects or
\* leaves meanwhile (console/multiplayer.go AddUserSession, DeleteUserSession).
THEOREM SoleSessionIsListed == Spec => []SoleSessionListed
BY RegistryInvariance, PTL DEF Registry

-----------------------------------------------------------------------------
(***************************************************************************)
(* The rooms.  RoomsConsistent is inductive only together with             *)
(* InCurrentRoom: that the session which leaves is the one its room lists  *)
(* under its user, and not another websocket of the same user.             *)
(***************************************************************************)

RoomInv == RoomsConsistent /\ InCurrentRoom

IInv == TypeOK /\ Registry /\ RoomInv

\* Steps that change no room and let no session back into the lobby.
LEMMA OutsideKeepsRooms ==
    ASSUME IInv, UNCHANGED <<rooms, gameID>>, \A c \in Conn : Attached(c)' => Attached(c)
    PROVE  RoomInv'
<1>1. RoomsConsistent'
  BY DEF IInv, RoomInv, RoomsConsistent, Open, Players, HostUser
<1>2. InCurrentRoom'
  BY DEF IInv, RoomInv, InCurrentRoom, Open
<1>. QED
  BY <1>1, <1>2 DEF RoomInv

LEMMA SessionStepRooms ==
    ASSUME IInv, NEW c \in Conn, SessionStep(c)
    PROVE  RoomInv'
<1>1. UNCHANGED <<rooms, gameID>>
  BY DEF SessionStep, roomVars
<1>2. \A d \in Conn : Attached(d)' => Attached(d)
  BY DEF IInv, TypeOK, SessionStep, HandleHello, HandleJoinLobby, HandshakeFails, ListSessions,
       FindUserSession, SetUserSession, SendLobbyUsers, BroadcastJoin, StopServing,
       LeaveRelay, DeleteUserSession, BroadcastLeave, Advance, Attached
<1>. QED
  BY <1>1, <1>2, OutsideKeepsRooms

\* CreateRoom opens one room, with the creating session as host and player.
CreateRoomDoes(u, r) ==
    /\ sessions[u] \in Conn /\ UserOf[sessions[u]] = u /\ sessions[u] # NoConn
    /\ rooms[r] = NoRoom
    /\ rooms'[r] # NoRoom
    /\ rooms'[r].host = sessions[u]
    /\ rooms'[r].players = [v \in User |-> IF v = u THEN sessions[u] ELSE NoConn]
    /\ \A q \in Room \ {r} : rooms'[q] = rooms[q]
    /\ gameID' = [gameID EXCEPT ![sessions[u]] = r]
    /\ phase' = phase

\* Each step of CreateRoom does so.
LEMMA CreateRoomEffect ==
    ASSUME IInv, NEW u \in User, NEW r \in Room, CreateRoom(u, r)
    PROVE  CreateRoomDoes(u, r)
<1>. DEFINE c == sessions[u]
            players == [v \in User |-> IF v = u THEN c ELSE NoConn]
<1>1. c \in Conn /\ UserOf[c] = u /\ c # NoConn
  BY ConnAssumption DEF IInv, TypeOK, Registry, RegisteredIsAlive, CreateRoom, Registered
<1>2. /\ rooms[r] = NoRoom
      /\ rooms' = [rooms EXCEPT ![r] = [ready |-> FALSE, host |-> c, players |-> players]]
      /\ gameID' = [gameID EXCEPT ![c] = r]
      /\ phase' = phase
  BY DEF CreateRoom, Open
<1>3. rooms'[r].host = c /\ rooms'[r].players = players /\ rooms'[r] # NoRoom
  <2>1. [ready |-> FALSE, host |-> c, players |-> players] \in GameRoom
    BY <1>1 DEF GameRoom
  <2>. QED
    BY <1>2, <2>1, RoomAssumption DEF IInv, TypeOK
<1>4. \A q \in Room \ {r} : rooms'[q] = rooms[q]
  BY <1>2 DEF IInv, TypeOK
<1>. QED
  BY <1>1, <1>2, <1>3, <1>4 DEF CreateRoomDoes

LEMMA CreateRoomRooms ==
    ASSUME IInv, NEW u \in User, NEW r \in Room, CreateRoom(u, r)
    PROVE  RoomInv'
<1>. DEFINE c == sessions[u]
            players == [v \in User |-> IF v = u THEN c ELSE NoConn]
<1>0. CreateRoomDoes(u, r)
  BY CreateRoomEffect
<1>1. c \in Conn /\ UserOf[c] = u /\ c # NoConn
  BY <1>0 DEF CreateRoomDoes
<1>2. rooms[r] = NoRoom /\ gameID' = [gameID EXCEPT ![c] = r] /\ phase' = phase
  BY <1>0 DEF CreateRoomDoes
<1>3. rooms'[r].host = c /\ rooms'[r].players = players /\ rooms'[r] # NoRoom
  BY <1>0 DEF CreateRoomDoes
<1>4. \A q \in Room \ {r} : rooms'[q] = rooms[q]
  BY <1>0 DEF CreateRoomDoes
<1>5. RoomsConsistent'
  <2>1. ASSUME NEW q \in Room, Open(q)'
        PROVE  /\ rooms'[q].players[UserOf[rooms'[q].host]] = rooms'[q].host
               /\ \A v \in User : rooms'[q].players[v] # NoConn => UserOf[rooms'[q].players[v]] = v
    <3>1. CASE q = r
      BY <1>1, <1>3, <3>1
    <3>2. CASE q # r
      BY <1>4, <2>1, <3>2 DEF IInv, RoomInv, RoomsConsistent, Open, Players, HostUser
    <3>. QED
      BY <3>1, <3>2
  <2>. QED
    BY <2>1 DEF RoomsConsistent, Players, HostUser
<1>6. InCurrentRoom'
  <2>1. ASSUME NEW d \in Conn, Attached(d)', gameID'[d] # NoRoom
        PROVE  rooms'[gameID'[d]] # NoRoom /\ rooms'[gameID'[d]].players[UserOf[d]] = d
    <3>1. CASE d = c
      BY <1>1, <1>2, <1>3, <3>1 DEF IInv, TypeOK, Open
    <3>2. CASE d # c
      <4>1. Attached(d) /\ gameID'[d] = gameID[d] /\ gameID[d] \in Room
        BY <1>2, <2>1, <3>2 DEF IInv, TypeOK, Attached
      <4>2. Open(gameID[d]) /\ rooms[gameID[d]].players[UserOf[d]] = d
        BY <2>1, <4>1 DEF IInv, RoomInv, InCurrentRoom
      <4>. QED
        BY <1>2, <1>4, <4>1, <4>2 DEF Open
    <3>. QED
      BY <3>1, <3>2
  <2>. QED
    BY <2>1 DEF InCurrentRoom, Open
<1>. QED
  BY <1>5, <1>6 DEF RoomInv

\* JoinRoom adds the user's session to one open room that did not list it.
JoinRoomDoes(u, r) ==
    /\ sessions[u] \in Conn /\ UserOf[sessions[u]] = u /\ sessions[u] # NoConn
    /\ rooms[r] \in GameRoom
    /\ rooms[r] # NoRoom
    /\ rooms[r].players[u] = NoConn
    /\ gameID' = [gameID EXCEPT ![sessions[u]] = r]
    /\ phase' = phase
    /\ rooms'[r] # NoRoom
    /\ rooms'[r].host = rooms[r].host
    /\ rooms'[r].players = [rooms[r].players EXCEPT ![u] = sessions[u]]
    /\ \A q \in Room \ {r} : rooms'[q] = rooms[q]

\* Each step of JoinRoom does so.
LEMMA JoinRoomEffect ==
    ASSUME IInv, NEW u \in User, NEW r \in Room, JoinRoom(u, r)
    PROVE  JoinRoomDoes(u, r)
<1>. DEFINE c == sessions[u]
<1>1. c \in Conn /\ UserOf[c] = u /\ c # NoConn
  BY ConnAssumption DEF IInv, TypeOK, Registry, RegisteredIsAlive, JoinRoom, Registered
<1>2. /\ rooms[r] \in GameRoom
      /\ rooms[r] # NoRoom
      /\ rooms[r].players[u] = NoConn
      /\ gameID' = [gameID EXCEPT ![c] = r]
      /\ phase' = phase
  BY DEF IInv, TypeOK, JoinRoom, Open, Players
<1>3. /\ rooms'[r] # NoRoom
      /\ rooms'[r].host = rooms[r].host
      /\ rooms'[r].players = [rooms[r].players EXCEPT ![u] = c]
      /\ \A q \in Room \ {r} : rooms'[q] = rooms[q]
  <2>1. rooms' = [rooms EXCEPT ![r] = [rooms[r] EXCEPT !.players[u] = c]]
    BY DEF IInv, TypeOK, JoinRoom
  <2>2. [rooms[r] EXCEPT !.players[u] = c] \in GameRoom
    BY <1>1, <1>2, RoomUpdates
  <2>. QED
    BY <1>2, <2>1, <2>2, RoomAssumption DEF IInv, TypeOK, GameRoom
<1>. QED
  BY <1>1, <1>2, <1>3 DEF JoinRoomDoes

LEMMA JoinRoomRooms ==
    ASSUME IInv, NEW u \in User, NEW r \in Room, JoinRoom(u, r)
    PROVE  RoomInv'
<1>. DEFINE c == sessions[u]
<1>0. JoinRoomDoes(u, r)
  BY JoinRoomEffect
<1>1. c \in Conn /\ UserOf[c] = u /\ c # NoConn
  BY <1>0 DEF JoinRoomDoes
<1>2. /\ rooms[r] \in GameRoom
      /\ rooms[r] # NoRoom
      /\ rooms[r].players[u] = NoConn
      /\ gameID' = [gameID EXCEPT ![c] = r]
      /\ phase' = phase
  BY <1>0 DEF JoinRoomDoes
<1>3. /\ rooms'[r] # NoRoom
      /\ rooms'[r].host = rooms[r].host
      /\ rooms'[r].players = [rooms[r].players EXCEPT ![u] = c]
      /\ \A q \in Room \ {r} : rooms'[q] = rooms[q]
  BY <1>0 DEF JoinRoomDoes
<1>4. RoomsConsistent'
  <2>1. ASSUME NEW q \in Room, Open(q)'
        PROVE  /\ rooms'[q].players[UserOf[rooms'[q].host]] = rooms'[q].host
               /\ \A v \in User : rooms'[q].players[v] # NoConn => UserOf[rooms'[q].players[v]] = v
    <3>1. CASE q = r
      <4>1. /\ rooms[r].host \in Conn
            /\ rooms[r].players \in [User -> Conn \cup {NoConn}]
            /\ rooms[r].players[UserOf[rooms[r].host]] = rooms[r].host
            /\ \A v \in User : rooms[r].players[v] # NoConn => UserOf[rooms[r].players[v]] = v
        BY <1>2 DEF IInv, RoomInv, RoomsConsistent, Open, Players, HostUser, GameRoom
      <4>. QED
        BY <1>1, <1>2, <1>3, <3>1, <4>1, ConnAssumption
    <3>2. CASE q # r
      BY <1>3, <2>1, <3>2 DEF IInv, RoomInv, RoomsConsistent, Open, Players, HostUser
    <3>. QED
      BY <3>1, <3>2
  <2>. QED
    BY <2>1 DEF RoomsConsistent, Players, HostUser
<1>5. InCurrentRoom'
  <2>1. ASSUME NEW d \in Conn, Attached(d)', gameID'[d] # NoRoom
        PROVE  rooms'[gameID'[d]] # NoRoom /\ rooms'[gameID'[d]].players[UserOf[d]] = d
    <3>1. CASE d = c
      BY <1>1, <1>2, <1>3, <3>1 DEF IInv, TypeOK, Open, GameRoom
    <3>2. CASE d # c
      <4>1. Attached(d) /\ gameID'[d] = gameID[d] /\ gameID[d] \in Room
        BY <1>2, <2>1, <3>2 DEF IInv, TypeOK, Attached
      <4>2. Open(gameID[d]) /\ rooms[gameID[d]].players[UserOf[d]] = d
        BY <2>1, <4>1 DEF IInv, RoomInv, InCurrentRoom
      <4>3. CASE gameID[d] = r
        <5>1. UserOf[d] # u
          BY <1>2, <4>2, <4>3, ConnAssumption
        <5>. QED
          BY <1>2, <1>3, <4>1, <4>2, <4>3, <5>1, ConnAssumption DEF Open, GameRoom
      <4>4. CASE gameID[d] # r
        BY <1>3, <4>1, <4>2, <4>4 DEF Open
      <4>. QED
        BY <4>3, <4>4
    <3>. QED
      BY <3>1, <3>2
  <2>. QED
    BY <2>1 DEF InCurrentRoom, Open
<1>. QED
  BY <1>4, <1>5 DEF RoomInv

(***************************************************************************)
(* What LeaveRoom does to the room of the session's GameID.  By            *)
(* InCurrentRoom the key it deletes holds the leaving session itself.      *)
(***************************************************************************)
Closes(r, u) ==
    /\ rooms'[r] = NoRoom
    /\ Players(r) \subseteq {u}

LosesPlayer(r, u) ==
    /\ rooms'[r] # NoRoom
    /\ rooms'[r].players = [rooms[r].players EXCEPT ![u] = NoConn]
    /\ rooms'[r].host \in Conn
    /\ IF HostUser(r) = u
       THEN \E v \in User \ {u} : rooms[r].players[v] = rooms'[r].host
       ELSE rooms'[r].host = rooms[r].host

LEMMA LeaveRoomEffect ==
    ASSUME IInv, NEW c \in Conn, LeaveRoom(c)
    PROVE  /\ phase[c] = "leaving"
           /\ phase' = [phase EXCEPT ![c] = "leavingRelay"]
           /\ gameID' = gameID
           /\ gameID[c] = NoRoom => UNCHANGED rooms
           /\ gameID[c] # NoRoom =>
                /\ gameID[c] \in Room
                /\ rooms[gameID[c]] # NoRoom
                /\ rooms[gameID[c]] \in GameRoom
                /\ rooms[gameID[c]].players[UserOf[c]] = c
                /\ Closes(gameID[c], UserOf[c]) \/ LosesPlayer(gameID[c], UserOf[c])
                /\ \A q \in Room \ {gameID[c]} : rooms'[q] = rooms[q]
<1>. DEFINE r == gameID[c]
            u == UserOf[c]
<1>1. /\ phase[c] = "leaving"
      /\ phase' = [phase EXCEPT ![c] = "leavingRelay"]
      /\ gameID' = gameID
  BY DEF LeaveRoom, LeaveGame, Advance
<1>2. CASE r = NoRoom
  BY <1>1, <1>2, RoomAssumption DEF LeaveRoom
<1>3. CASE r # NoRoom
  <2>1. /\ r \in Room /\ u \in User
        /\ Open(r) /\ rooms[r] \in GameRoom
        /\ rooms[r].players[u] = c
    BY <1>1, <1>3, ConnAssumption DEF IInv, TypeOK, RoomInv, InCurrentRoom, Attached, Open
  <2>2. TypeOK /\ RemovePlayer(r, u)
    BY <2>1 DEF IInv, LeaveRoom, Open
  <2>3. CASE rooms' = [rooms EXCEPT ![r] = NoRoom] /\ Players(r) \subseteq {u}
    BY <1>1, <1>3, <2>1, <2>2, <2>3 DEF TypeOK, Open, Closes
  <2>4. ASSUME NEW h \in Conn,
               rooms' = [rooms EXCEPT ![r] = [rooms[r] EXCEPT !.players[u] = NoConn, !.host = h]],
               [rooms[r] EXCEPT !.players[u] = NoConn, !.host = h] \in GameRoom,
               IF HostUser(r) = u THEN \E v \in User \ {u} : rooms[r].players[v] = h
                                  ELSE h = rooms[r].host
        PROVE  LosesPlayer(r, u) /\ \A q \in Room \ {r} : rooms'[q] = rooms[q]
    <3>1. /\ rooms'[r] # NoRoom
          /\ rooms'[r].host = h
          /\ rooms'[r].players = [rooms[r].players EXCEPT ![u] = NoConn]
          /\ \A q \in Room \ {r} : rooms'[q] = rooms[q]
      BY <2>1, <2>2, <2>4, RoomAssumption DEF TypeOK, GameRoom
    <3>. QED
      BY <2>4, <3>1 DEF LosesPlayer
  <2>5. \/ rooms' = [rooms EXCEPT ![r] = NoRoom] /\ Players(r) \subseteq {u}
        \/ \E h \in Conn :
             /\ rooms' = [rooms EXCEPT ![r] = [rooms[r] EXCEPT !.players[u] = NoConn, !.host = h]]
             /\ [rooms[r] EXCEPT !.players[u] = NoConn, !.host = h] \in GameRoom
             /\ IF HostUser(r) = u THEN \E v \in User \ {u} : rooms[r].players[v] = h
                                   ELSE h = rooms[r].host
    BY <2>1, <2>2, RemovePlayerEffect
  <2>. QED
    BY <1>1, <1>3, <2>1, <2>3, <2>4, <2>5 DEF Open
<1>. QED
  BY <1>2, <1>3

LEMMA LeaveRoomRooms ==
    ASSUME IInv, NEW c \in Conn, LeaveRoom(c)
    PROVE  RoomInv'
<1>. DEFINE r == gameID[c]
            u == UserOf[c]
<1>1. /\ phase[c] = "leaving"
      /\ phase' = [phase EXCEPT ![c] = "leavingRelay"]
      /\ gameID' = gameID
  BY LeaveRoomEffect
<1>2. CASE r = NoRoom
  <2>1. UNCHANGED rooms
    BY <1>2, LeaveRoomEffect
  <2>2. \A d \in Conn : Attached(d)' => Attached(d)
    BY <1>1 DEF IInv, TypeOK, Attached
  <2>. QED
    BY <1>1, <2>1, <2>2, OutsideKeepsRooms
<1>3. CASE r # NoRoom
  <2>1. /\ r \in Room /\ u \in User
        /\ rooms[r] # NoRoom /\ rooms[r] \in GameRoom
        /\ rooms[r].players[u] = c
        /\ \A q \in Room \ {r} : rooms'[q] = rooms[q]
        /\ Closes(r, u) \/ LosesPlayer(r, u)
    BY <1>3, ConnAssumption, LeaveRoomEffect
  <2>2. ASSUME NEW d \in Conn, Attached(d)', gameID'[d] # NoRoom
        PROVE  /\ Attached(d) /\ gameID'[d] = gameID[d] /\ gameID[d] \in Room
               /\ rooms[gameID[d]] # NoRoom /\ rooms[gameID[d]].players[UserOf[d]] = d
               /\ gameID[d] = r => UserOf[d] # u
    <3>1. Attached(d) /\ gameID'[d] = gameID[d] /\ gameID[d] \in Room /\ d # c
      BY <1>1, <2>2 DEF IInv, TypeOK, Attached
    <3>. QED
      BY <2>1, <2>2, <3>1 DEF IInv, RoomInv, InCurrentRoom, Open
  <2>3. ASSUME NEW q \in Room \ {r}, rooms'[q] # NoRoom
        PROVE  /\ rooms'[q].players[UserOf[rooms'[q].host]] = rooms'[q].host
               /\ \A v \in User : rooms'[q].players[v] # NoConn => UserOf[rooms'[q].players[v]] = v
    BY <2>1, <2>3 DEF IInv, RoomInv, RoomsConsistent, Open, Players, HostUser
  <2>4. CASE Closes(r, u)
    <3>1. RoomsConsistent'
      BY <2>3, <2>4 DEF RoomsConsistent, Closes, Open, Players, HostUser
    <3>2. InCurrentRoom'
      <4>1. ASSUME NEW d \in Conn, Attached(d)', gameID'[d] # NoRoom
            PROVE  rooms'[gameID'[d]] # NoRoom /\ rooms'[gameID'[d]].players[UserOf[d]] = d
        <5>1. gameID[d] # r
          BY <2>2, <2>4, <4>1, ConnAssumption DEF Players, Closes
        <5>. QED
          BY <2>1, <2>2, <4>1, <5>1
      <4>. QED
        BY <4>1 DEF InCurrentRoom, Open
    <3>. QED
      BY <3>1, <3>2 DEF RoomInv
  <2>5. CASE LosesPlayer(r, u)
    <3>1. /\ rooms[r].players \in [User -> Conn \cup {NoConn}]
          /\ rooms[r].players[HostUser(r)] = rooms[r].host
          /\ \A v \in User : rooms[r].players[v] # NoConn => UserOf[rooms[r].players[v]] = v
      BY <2>1 DEF IInv, RoomInv, RoomsConsistent, Open, Players, GameRoom
    <3>2. UserOf[rooms'[r].host] \in User \ {u} /\ rooms[r].players[UserOf[rooms'[r].host]] = rooms'[r].host
      BY <2>5, <3>1, ConnAssumption DEF HostUser, LosesPlayer
    <3>3. RoomsConsistent'
      <4>1. /\ rooms'[r].players[UserOf[rooms'[r].host]] = rooms'[r].host
            /\ \A v \in User : rooms'[r].players[v] # NoConn => UserOf[rooms'[r].players[v]] = v
        BY <2>1, <2>5, <3>1, <3>2, ConnAssumption DEF LosesPlayer
      <4>. QED
        BY <2>3, <4>1 DEF RoomsConsistent, Open, Players, HostUser
    <3>4. InCurrentRoom'
      <4>1. ASSUME NEW d \in Conn, Attached(d)', gameID'[d] # NoRoom
            PROVE  rooms'[gameID'[d]] # NoRoom /\ rooms'[gameID'[d]].players[UserOf[d]] = d
        <5>1. UserOf[d] \in User
          BY ConnAssumption
        <5>. QED
          BY <2>1, <2>2, <2>5, <3>1, <4>1, <5>1 DEF LosesPlayer
      <4>. QED
        BY <4>1 DEF InCurrentRoom, Open
    <3>. QED
      BY <3>3, <3>4 DEF RoomInv
  <2>. QED
    BY <2>1, <2>4, <2>5
<1>. QED
  BY <1>2, <1>3

\* SetRoomReady touches neither hosts nor players.
LEMMA SetRoomReadyEffect ==
    ASSUME IInv, SetRoomReady
    PROVE  \A q \in Room :
             /\ (rooms'[q] # NoRoom) = (rooms[q] # NoRoom)
             /\ rooms[q] # NoRoom => /\ rooms'[q].host = rooms[q].host
                                     /\ rooms'[q].players = rooms[q].players
<1>1. CASE ~Open(inbox)
  BY <1>1 DEF SetRoomReady
<1>2. CASE Open(inbox)
  <2>1. rooms[inbox] \in GameRoom /\ inbox \in Room
    BY <1>2 DEF IInv, TypeOK, SetRoomReady, Open
  <2>2. rooms' = [rooms EXCEPT ![inbox] = [rooms[inbox] EXCEPT !.ready = TRUE]]
    BY <1>2 DEF IInv, TypeOK, SetRoomReady
  <2>3. [rooms[inbox] EXCEPT !.ready = TRUE] \in GameRoom
    BY <2>1 DEF GameRoom
  <2>. QED
    BY <2>1, <2>2, <2>3, RoomAssumption DEF IInv, TypeOK, GameRoom
<1>. QED
  BY <1>1, <1>2

LEMMA SetRoomReadyRooms ==
    ASSUME IInv, SetRoomReady
    PROVE  RoomInv'
<1>1. phase' = phase /\ gameID' = gameID
  BY DEF SetRoomReady
<1>2. \A q \in Room :
        /\ (rooms'[q] # NoRoom) = (rooms[q] # NoRoom)
        /\ rooms[q] # NoRoom => /\ rooms'[q].host = rooms[q].host
                                /\ rooms'[q].players = rooms[q].players
  BY SetRoomReadyEffect
<1>3. RoomsConsistent'
  BY <1>2 DEF IInv, RoomInv, RoomsConsistent, Open, Players, HostUser
<1>4. InCurrentRoom'
  <2>1. \A d \in Conn : gameID[d] # NoRoom => gameID[d] \in Room
    BY DEF IInv, TypeOK
  <2>. QED
    BY <1>1, <1>2, <2>1 DEF IInv, RoomInv, InCurrentRoom, Attached, Open
<1>. QED
  BY <1>3, <1>4 DEF RoomInv

LEMMA NextRooms ==
    ASSUME IInv, [Next]_vars
    PROVE  RoomInv'
<1>1. ASSUME UNCHANGED <<phase, rooms, gameID>>  PROVE RoomInv'
  BY <1>1, OutsideKeepsRooms DEF Attached
<1>. QED
  BY <1>1, SessionStepRooms, CreateRoomRooms, JoinRoomRooms, LeaveRoomRooms, SetRoomReadyRooms
     DEF Next, EnqueueRoomReady, vars

LEMMA Invariance == Spec => []IInv
<1>1. Init => RoomInv
  BY DEF Init, RoomInv, RoomsConsistent, InCurrentRoom, Open
<1>2. RoomInv /\ (TypeOK /\ Registry) /\ [Next]_vars => RoomInv'
  BY NextRooms DEF IInv
<1>. QED
  BY <1>1, <1>2, RegistryInvariance, TypeCorrect, PTL DEF Spec, IInv

\* Every open room is hosted by one of the sessions it lists, under any
\* interleaving of calls, disconnects and reconnects.
THEOREM RoomsAreConsistent == Spec => []RoomsConsistent
BY Invariance, PTL DEF IInv, RoomInv

\* The current room of a session that has not left is open and lists it.
THEOREM CurrentRoomLists == Spec => []InCurrentRoom
BY Invariance, PTL DEF IInv, RoomInv

-----------------------------------------------------------------------------
(***************************************************************************)
(* Lobby implements RoomDirectory: each step is one of its steps on the    *)
(* users listed and the host's user, or leaves those alone.                *)
(***************************************************************************)

\* A step that changes one room changes the mapped variables there only.
LEMMA OneRoom ==
    ASSUME NEW r \in Room, \A q \in Room \ {r} : rooms'[q] = rooms[q]
    PROVE  /\ [q \in Room |-> Members(q)]' = [[q \in Room |-> Members(q)] EXCEPT ![r] = Members(r)']
           /\ [q \in Room |-> Leader(q)]' = [[q \in Room |-> Leader(q)] EXCEPT ![r] = Leader(r)']
<1>1. \A q \in Room \ {r} : Members(q)' = Members(q) /\ Leader(q)' = Leader(q)
  BY DEF Members, Leader, Open, Players, HostUser
<1>. QED
  BY <1>1

\* An open room has its host's user among its members.
LEMMA LeaderIsMember ==
    ASSUME IInv, NEW r \in Room, Open(r)
    PROVE  Leader(r) \in Members(r) /\ Leader(r) = HostUser(r) /\ Members(r) = Players(r)
<1>1. rooms[r].host \in Conn /\ rooms[r].players[HostUser(r)] = rooms[r].host
  BY DEF IInv, TypeOK, GameRoom, Open, RoomInv, RoomsConsistent
<1>. QED
  BY <1>1, ConnAssumption DEF Leader, Members, Players, HostUser

LEMMA CreateRoomOpens ==
    ASSUME IInv, NEW u \in User, NEW r \in Room, CreateRoom(u, r)
    PROVE  Directory!OpenRoom(r, u)
<1>0. CreateRoomDoes(u, r)
  BY CreateRoomEffect
<1>1. /\ sessions[u] # NoConn /\ UserOf[sessions[u]] = u
      /\ rooms[r] = NoRoom /\ rooms'[r] # NoRoom
      /\ rooms'[r].host = sessions[u]
      /\ rooms'[r].players = [v \in User |-> IF v = u THEN sessions[u] ELSE NoConn]
      /\ \A q \in Room \ {r} : rooms'[q] = rooms[q]
  BY <1>0 DEF CreateRoomDoes
<1>2. Members(r) = {} /\ Members(r)' = {u} /\ Leader(r)' = u
  BY <1>1 DEF Members, Leader, Open, Players, HostUser
<1>. QED
  BY <1>1, <1>2, OneRoom DEF Directory!OpenRoom

LEMMA JoinRoomEnters ==
    ASSUME IInv, NEW u \in User, NEW r \in Room, JoinRoom(u, r)
    PROVE  Directory!Enter(r, u)
<1>0. JoinRoomDoes(u, r)
  BY JoinRoomEffect
<1>1. /\ sessions[u] # NoConn
      /\ rooms[r] # NoRoom /\ rooms[r] \in GameRoom /\ rooms[r].players[u] = NoConn
      /\ rooms'[r] # NoRoom
      /\ rooms'[r].host = rooms[r].host
      /\ rooms'[r].players = [rooms[r].players EXCEPT ![u] = sessions[u]]
      /\ \A q \in Room \ {r} : rooms'[q] = rooms[q]
  BY <1>0 DEF JoinRoomDoes
<1>2. /\ u \notin Members(r)
      /\ Members(r)' = Members(r) \cup {u}
      /\ Leader(r)' = Leader(r)
  BY <1>1 DEF Members, Leader, Open, Players, HostUser, GameRoom
<1>3. Members(r) # {}
  BY <1>1, LeaderIsMember DEF Open
<1>4. [q \in Room |-> Members(q)]' = [[q \in Room |-> Members(q)] EXCEPT ![r] = @ \cup {u}]
  BY <1>1, <1>2, OneRoom
<1>5. UNCHANGED [q \in Room |-> Leader(q)]
  BY <1>1, <1>2, OneRoom
<1>. QED
  BY <1>2, <1>3, <1>4, <1>5 DEF Directory!Enter

LEMMA UnchangedRooms ==
    ASSUME UNCHANGED rooms
    PROVE  UNCHANGED Directory!dirVars
BY DEF Directory!dirVars, Members, Leader, Open, Players, HostUser

\* The departure of the last player closes the room.
LEMMA LastPlayerCloses ==
    ASSUME IInv, NEW r \in Room, NEW u \in User, Open(r), Closes(r, u),
           \A q \in Room \ {r} : rooms'[q] = rooms[q]
    PROVE  Directory!Close(r)
<1>1. Leader(r) \in Members(r) /\ Members(r) = Players(r)
  BY LeaderIsMember
<1>2. Members(r) = {Leader(r)}
  BY <1>1 DEF Closes
<1>3. Members(r)' = {} /\ Leader(r)' = NoConn
  BY DEF Closes, Members, Leader, Open
<1>. QED
  BY <1>2, <1>3, OneRoom DEF Directory!Close

\* The departure of another player leaves the room, and hands it over when
\* that player was the host.
LEMMA PlayerExits ==
    ASSUME IInv, NEW r \in Room, NEW u \in User, Open(r), u \in Players(r), LosesPlayer(r, u),
           \A q \in Room \ {r} : rooms'[q] = rooms[q]
    PROVE  Directory!Follow(r, u) \/ \E v \in User : Directory!HandOver(r, v)
<1>1. Leader(r) \in Members(r) /\ Leader(r) = HostUser(r) /\ Members(r) = Players(r)
  BY LeaderIsMember
<1>2. rooms[r].players \in [User -> Conn \cup {NoConn}]
  BY DEF IInv, TypeOK, Open, GameRoom
<1>3. Members(r)' = Members(r) \ {u}
  BY <1>2, ConnAssumption DEF LosesPlayer, Members, Open, Players
<1>4. [q \in Room |-> Members(q)]' = [[q \in Room |-> Members(q)] EXCEPT ![r] = @ \ {u}]
  BY <1>3, OneRoom
<1>5. Leader(r)' = UserOf[rooms'[r].host]
  BY DEF LosesPlayer, Leader, Open, HostUser
<1>6. CASE HostUser(r) = u
  <2>1. PICK v \in User \ {u} : rooms[r].players[v] = rooms'[r].host
    BY <1>6 DEF LosesPlayer
  <2>2. rooms'[r].host # NoConn
    BY ConnAssumption DEF LosesPlayer
  <2>3. v \in Players(r) /\ UserOf[rooms'[r].host] = v
    BY <2>1, <2>2 DEF IInv, RoomInv, RoomsConsistent, Players
  <2>4. Leader(r)' = v /\ v \in Members(r) \ {Leader(r)}
    BY <1>1, <1>5, <1>6, <2>1, <2>3
  <2>. QED
    BY <1>1, <1>4, <1>6, <2>4, OneRoom DEF Directory!HandOver
<1>7. CASE HostUser(r) # u
  <2>1. Leader(r)' = Leader(r)
    BY <1>1, <1>5, <1>7 DEF LosesPlayer, HostUser
  <2>2. UNCHANGED [q \in Room |-> Leader(q)]
    BY <2>1, OneRoom
  <2>. QED
    BY <1>1, <1>4, <1>7, <2>2 DEF Directory!Follow
<1>. QED
  BY <1>6, <1>7

LEMMA LeaveRoomExits ==
    ASSUME IInv, NEW c \in Conn, LeaveRoom(c)
    PROVE  [Directory!DirNext]_(Directory!dirVars)
<1>1. CASE gameID[c] = NoRoom
  BY <1>1, LeaveRoomEffect, UnchangedRooms
<1>2. CASE gameID[c] # NoRoom
  <2>1. /\ gameID[c] \in Room /\ UserOf[c] \in User
        /\ Open(gameID[c])
        /\ rooms[gameID[c]].players[UserOf[c]] # NoConn
        /\ \A q \in Room \ {gameID[c]} : rooms'[q] = rooms[q]
        /\ Closes(gameID[c], UserOf[c]) \/ LosesPlayer(gameID[c], UserOf[c])
    BY <1>2, ConnAssumption, LeaveRoomEffect DEF Open
  <2>2. UserOf[c] \in Players(gameID[c])
    BY <2>1 DEF Players
  <2>. QED
    BY <2>1, <2>2, LastPlayerCloses, PlayerExits DEF Directory!DirNext
<1>. QED
  BY <1>1, <1>2

LEMMA SetRoomReadyStutters ==
    ASSUME IInv, SetRoomReady
    PROVE  UNCHANGED Directory!dirVars
<1>1. \A q \in Room : Members(q)' = Members(q) /\ Leader(q)' = Leader(q)
  BY SetRoomReadyEffect DEF Members, Leader, Open, Players, HostUser
<1>. QED
  BY <1>1 DEF Directory!dirVars

LEMMA StepSimulation ==
    ASSUME IInv, [Next]_vars
    PROVE  [Directory!DirNext]_(Directory!dirVars)
<1>1. UNCHANGED rooms => UNCHANGED Directory!dirVars
  BY UnchangedRooms
<1>2. ASSUME NEW u \in User, NEW r \in Room, CreateRoom(u, r)  PROVE Directory!DirNext
  BY <1>2, CreateRoomOpens DEF Directory!DirNext
<1>3. ASSUME NEW u \in User, NEW r \in Room, JoinRoom(u, r)  PROVE Directory!DirNext
  BY <1>3, JoinRoomEnters DEF Directory!DirNext
<1>. QED
  BY <1>1, <1>2, <1>3, LeaveRoomExits, SetRoomReadyStutters
     DEF Next, SessionStep, roomVars, EnqueueRoomReady, vars

\* The rooms of the console implement the room directory: the refinement the
\* run on small instances checks, for every instance.
THEOREM LobbyImplementsDirectory == Spec => ImplementsDirectory
<1>1. Init => Directory!DirInit
  BY DEF Init, Directory!DirInit, Members, Leader, Open
<1>2. IInv /\ [Next]_vars => [Directory!DirNext]_(Directory!dirVars)
  BY StepSimulation
<1>. QED
  BY <1>1, <1>2, Invariance, PTL DEF Spec, ImplementsDirectory, Directory!DirSpec

-----------------------------------------------------------------------------

LEMMA LeaveRoomIsOwn ==
    ASSUME IInv, NEW c \in Conn, LeaveRoom(c), NEW r \in Room, NEW u \in User, Loses(r, u)
    PROVE  OwnDeparture(rooms[r].players[u], r)
<1>1. /\ phase[c] = "leaving" /\ phase'[c] = "leavingRelay"
      /\ gameID[c] = NoRoom => UNCHANGED rooms
  BY LeaveRoomEffect DEF IInv, TypeOK
<1>2. gameID[c] = r
  BY <1>1, LeaveRoomEffect DEF Loses, Open, Players
<1>3. rooms[r] # NoRoom /\ rooms[r] \in GameRoom /\ rooms[r].players[UserOf[c]] = c
      /\ (Closes(r, UserOf[c]) \/ LosesPlayer(r, UserOf[c]))
  BY <1>2, RoomAssumption, LeaveRoomEffect
<1>4. u = UserOf[c]
  BY <1>3 DEF Closes, LosesPlayer, Loses, Open, Players, GameRoom
<1>. QED
  BY <1>1, <1>2, <1>3, <1>4 DEF OwnDeparture

\* No player disappears from a room but by its own session's departure.
THEOREM DeparturesAreOwn == Spec => OnlyOwnDeparture
<1>1. ASSUME IInv, [Next]_vars, NEW r \in Room, NEW u \in User, Loses(r, u)
      PROVE  OwnDeparture(rooms[r].players[u], r)
  <2>1. ~UNCHANGED rooms
    BY <1>1 DEF Loses, Open, Players
  <2>2. ASSUME NEW v \in User, NEW q \in Room, CreateRoom(v, q)  PROVE FALSE
    <3>1. CreateRoomDoes(v, q)
      BY <1>1, <2>2, CreateRoomEffect
    <3>. QED
      BY <1>1, <3>1 DEF CreateRoomDoes, Loses, Open, Players
  <2>3. ASSUME NEW v \in User, NEW q \in Room, JoinRoom(v, q)  PROVE FALSE
    <3>0. JoinRoomDoes(v, q)
      BY <1>1, <2>3, JoinRoomEffect
    <3>1. /\ sessions[v] # NoConn
          /\ rooms[q] \in GameRoom
          /\ rooms'[q] # NoRoom
          /\ rooms'[q].players = [rooms[q].players EXCEPT ![v] = sessions[v]]
          /\ \A p \in Room \ {q} : rooms'[p] = rooms[p]
      BY <3>0 DEF JoinRoomDoes
    <3>2. CASE r = q
      BY <1>1, <3>1, <3>2 DEF Loses, Open, Players, GameRoom
    <3>3. CASE r # q
      BY <1>1, <3>1, <3>3 DEF Loses, Open, Players
    <3>. QED
      BY <3>2, <3>3
  <2>4. ASSUME SetRoomReady  PROVE FALSE
    BY <1>1, <2>4, SetRoomReadyEffect DEF Loses, Open, Players
  <2>. QED
    BY <1>1, <2>1, <2>2, <2>3, <2>4, LeaveRoomIsOwn
       DEF Next, SessionStep, roomVars, EnqueueRoomReady, vars
<1>2. IInv /\ [Next]_vars =>
        [\A r \in Room, u \in User : Loses(r, u) => OwnDeparture(rooms[r].players[u], r)]_vars
  BY <1>1
<1>. QED
  BY <1>2, Invariance, PTL DEF Spec, OnlyOwnDeparture

-----------------------------------------------------------------------------
(***************************************************************************)
(* HostOrder: the lobby with its clock.                                    *)
(***************************************************************************)

\* A player other than the host, whose session has entered no other room
\* since, entered when its session's JoinedAt says.  Of the host this is not
\* true: CreateRoom leaves JoinedAt alone.
JoinedAtIsEntry ==
    \A r \in Room, u \in User :
        LET c == rooms[r].players[u]
        IN  Open(r) /\ c # NoConn /\ c # rooms[r].host /\ gameID[c] = r
                => enteredAt[r][u] = joinedAt[c]

LEMMA OrderRefinesLobby == OrderSpec => Spec
<1>1. OrderInit => Init
  BY DEF OrderInit
<1>2. [OrderNext]_orderVars => [Next]_vars
  BY DEF OrderNext, orderVars
<1>. QED
  BY <1>1, <1>2, PTL DEF OrderSpec, Spec

\* The time of an entry is written when it is made.
LEMMA EntryTime ==
    ASSUME RecordEntries, NEW r \in Room, NEW u \in User
    PROVE  enteredAt'[r][u] = IF Lists(r, u)' /\ ~Lists(r, u) THEN now' ELSE enteredAt[r][u]
BY DEF RecordEntries

\* Steps that change no room's host or players, nor the sessions' fields.
LEMMA QuietKeepsEntries ==
    ASSUME JoinedAtIsEntry, RecordEntries \/ enteredAt' = enteredAt,
           UNCHANGED <<gameID, joinedAt>>,
           \A r \in Room : /\ (rooms'[r] # NoRoom) = (rooms[r] # NoRoom)
                           /\ rooms[r] # NoRoom => /\ rooms'[r].host = rooms[r].host
                                                   /\ rooms'[r].players = rooms[r].players
    PROVE  JoinedAtIsEntry'
<1>1. ASSUME NEW r \in Room, NEW u \in User, rooms[r] # NoRoom
      PROVE  enteredAt'[r][u] = enteredAt[r][u]
  <2>1. Lists(r, u)' = Lists(r, u)
    BY <1>1 DEF Lists, Open, Players
  <2>. QED
    BY <2>1, EntryTime
<1>. QED
  BY <1>1 DEF JoinedAtIsEntry, Open

LEMMA CreateRoomKeepsEntries ==
    ASSUME IInv, JoinedAtIsEntry, NEW u \in User, NEW r \in Room, CreateRoom(u, r),
           RecordEntries
    PROVE  JoinedAtIsEntry'
<1>1. CreateRoomDoes(u, r) /\ joinedAt' = joinedAt
  BY CreateRoomEffect DEF CreateRoom
<1>2. ASSUME NEW q \in Room, NEW v \in User, rooms'[q] # NoRoom,
             rooms'[q].players[v] # NoConn, rooms'[q].players[v] # rooms'[q].host,
             gameID'[rooms'[q].players[v]] = q
      PROVE  enteredAt'[q][v] = joinedAt'[rooms'[q].players[v]]
  <2>1. q # r
    BY <1>1, <1>2 DEF CreateRoomDoes
  <2>2. rooms'[q] = rooms[q]
    BY <1>1, <2>1 DEF CreateRoomDoes
  <2>3. enteredAt'[q][v] = enteredAt[q][v]
    BY <2>2, EntryTime DEF Lists, Open, Players
  <2>4. gameID[rooms[q].players[v]] = q
    <3>1. rooms[q].players[v] \in Conn
      BY <1>2, <2>2 DEF IInv, TypeOK, GameRoom
    <3>. QED
      BY <1>1, <1>2, <2>1, <2>2, <3>1 DEF CreateRoomDoes, IInv, TypeOK
  <2>. QED
    BY <1>1, <1>2, <2>2, <2>3, <2>4 DEF JoinedAtIsEntry, Open
<1>. QED
  BY <1>2 DEF JoinedAtIsEntry, Open

LEMMA JoinRoomKeepsEntries ==
    ASSUME IInv, JoinedAtIsEntry, NEW u \in User, NEW r \in Room, JoinRoom(u, r),
           RecordEntries
    PROVE  JoinedAtIsEntry'
<1>. DEFINE c == sessions[u]
<1>1. JoinRoomDoes(u, r)
  BY JoinRoomEffect
<1>2. joinedAt' = [joinedAt EXCEPT ![c] = now']
  BY DEF JoinRoom
<1>3. ASSUME NEW q \in Room, NEW v \in User, rooms'[q] # NoRoom,
             rooms'[q].players[v] # NoConn, rooms'[q].players[v] # rooms'[q].host,
             gameID'[rooms'[q].players[v]] = q
      PROVE  enteredAt'[q][v] = joinedAt'[rooms'[q].players[v]]
  <2>1. CASE q = r /\ v = u
    <3>1. rooms'[q].players[v] = c /\ c \in Conn
      BY <1>1, <2>1 DEF JoinRoomDoes, GameRoom
    <3>2. joinedAt'[c] = now'
      BY <1>2, <3>1 DEF IInv, TypeOK
    <3>3. Lists(r, u)' /\ ~Lists(r, u)
      BY <1>1, <1>3, <2>1 DEF Lists, Open, Players, JoinRoomDoes
    <3>. QED
      BY <2>1, <3>1, <3>2, <3>3, EntryTime
  <2>2. CASE ~(q = r /\ v = u)
    <3>1. /\ rooms[q] # NoRoom /\ rooms'[q].players[v] = rooms[q].players[v]
          /\ rooms'[q].host = rooms[q].host
      BY <1>1, <1>3, <2>2 DEF JoinRoomDoes, GameRoom
    <3>2. rooms[q].players[v] \in Conn /\ UserOf[rooms[q].players[v]] = v
      BY <1>3, <3>1 DEF IInv, TypeOK, GameRoom, RoomInv, RoomsConsistent, Open, Players
    <3>3. rooms[q].players[v] # c
      BY <1>1, <1>3, <2>2, <3>1, <3>2 DEF JoinRoomDoes, IInv, TypeOK
    <3>4. gameID[rooms[q].players[v]] = q /\ joinedAt'[rooms[q].players[v]] = joinedAt[rooms[q].players[v]]
      BY <1>1, <1>2, <1>3, <3>1, <3>2, <3>3 DEF JoinRoomDoes, IInv, TypeOK
    <3>5. enteredAt'[q][v] = enteredAt[q][v]
      BY <1>3, <3>1, EntryTime DEF Lists, Open, Players
    <3>. QED
      BY <1>3, <3>1, <3>4, <3>5 DEF JoinedAtIsEntry, Open
  <2>. QED
    BY <2>1, <2>2
<1>. QED
  BY <1>3 DEF JoinedAtIsEntry, Open

LEMMA LeaveRoomKeepsEntries ==
    ASSUME IInv, JoinedAtIsEntry, NEW c \in Conn, LeaveRoom(c), RecordEntries
    PROVE  JoinedAtIsEntry'
<1>. DEFINE r == gameID[c]
            u == UserOf[c]
<1>1. /\ gameID' = gameID /\ joinedAt' = joinedAt
      /\ r = NoRoom => UNCHANGED rooms
      /\ r # NoRoom => /\ r \in Room /\ rooms[r] # NoRoom /\ rooms[r] \in GameRoom
                       /\ rooms[r].players[u] = c
                       /\ Closes(r, u) \/ LosesPlayer(r, u)
                       /\ \A q \in Room \ {r} : rooms'[q] = rooms[q]
  BY LeaveRoomEffect DEF LeaveRoom
<1>2. CASE r = NoRoom
  BY <1>1, <1>2, QuietKeepsEntries
<1>3. CASE r # NoRoom
  <2>1. ASSUME NEW q \in Room, NEW v \in User, rooms'[q] # NoRoom,
               rooms'[q].players[v] # NoConn, rooms'[q].players[v] # rooms'[q].host,
               gameID'[rooms'[q].players[v]] = q
        PROVE  enteredAt'[q][v] = joinedAt'[rooms'[q].players[v]]
    <3>1. CASE q # r
      <4>1. rooms'[q] = rooms[q]
        BY <1>1, <1>3, <3>1
      <4>2. enteredAt'[q][v] = enteredAt[q][v]
        BY <4>1, EntryTime DEF Lists, Open, Players
      <4>. QED
        BY <1>1, <2>1, <4>1, <4>2 DEF JoinedAtIsEntry, Open
    <3>2. CASE q = r
      <4>1. LosesPlayer(r, u)
        BY <1>1, <1>3, <2>1, <3>2 DEF Closes
      <4>2. v # u /\ rooms'[q].players[v] = rooms[q].players[v]
        BY <1>1, <1>3, <2>1, <3>2, <4>1 DEF LosesPlayer, GameRoom
      <4>3. enteredAt'[q][v] = enteredAt[q][v]
        BY <1>1, <1>3, <2>1, <3>2, <4>2, EntryTime DEF Lists, Open, Players
      <4>4. UserOf[rooms[q].players[v]] = v
        BY <1>1, <1>3, <2>1, <3>2, <4>2 DEF IInv, RoomInv, RoomsConsistent, Open, Players
      <4>5. rooms[q].players[v] # rooms[q].host
        BY <2>1, <3>2, <4>1, <4>2, <4>4 DEF LosesPlayer, HostUser
      <4>. QED
        BY <1>1, <1>3, <2>1, <3>2, <4>2, <4>3, <4>5 DEF JoinedAtIsEntry, Open
    <3>. QED
      BY <3>1, <3>2
  <2>. QED
    BY <2>1 DEF JoinedAtIsEntry, Open
<1>. QED
  BY <1>2, <1>3

\* What is left of Next changes none of this.
LEMMA OtherStepsKeepEntries ==
    ASSUME IInv, JoinedAtIsEntry,
           \/ /\ RecordEntries
              /\ \/ SetRoomReady
                 \/ \E c \in Conn : SessionStep(c)
                 \/ \E c \in Conn, r \in Room : EnqueueRoomReady(c, r)
           \/ UNCHANGED orderVars
    PROVE  JoinedAtIsEntry'
<1>1. CASE SetRoomReady /\ RecordEntries
  <2>1. UNCHANGED <<gameID, joinedAt>>
    BY <1>1 DEF SetRoomReady
  <2>. QED
    BY <1>1, <2>1, SetRoomReadyEffect, QuietKeepsEntries
<1>2. ASSUME RecordEntries \/ enteredAt' = enteredAt, UNCHANGED <<rooms, gameID, joinedAt>>
      PROVE  JoinedAtIsEntry'
  BY <1>2, QuietKeepsEntries
<1>. QED
  BY <1>1, <1>2 DEF SessionStep, roomVars, EnqueueRoomReady, orderVars, vars

LEMMA NextKeepsEntries ==
    ASSUME IInv, JoinedAtIsEntry, [OrderNext]_orderVars
    PROVE  JoinedAtIsEntry'
BY CreateRoomKeepsEntries, JoinRoomKeepsEntries, LeaveRoomKeepsEntries, OtherStepsKeepEntries
   DEF OrderNext, Next

LEMMA OrderInvariance == OrderSpec => [](IInv /\ JoinedAtIsEntry)
<1>1. OrderInit => JoinedAtIsEntry
  BY DEF OrderInit, Init, JoinedAtIsEntry, Open
<1>. QED
  BY <1>1, NextKeepsEntries, OrderRefinesLobby, Invariance, PTL DEF OrderSpec

-----------------------------------------------------------------------------

\* Only a departure replaces a host, and by one of GetNextHost's.
LEMMA MigrationIsDeparture ==
    ASSUME IInv, [Next]_vars, NEW r \in Room, Migrates(r)
    PROVE  \E u \in User :
             /\ HostUser(r) = u
             /\ rooms'[r].players = [rooms[r].players EXCEPT ![u] = NoConn]
             /\ rooms'[r].host \in NextHosts(WithoutPlayer(r, u))
             /\ gameID' = gameID
<1>1. ASSUME UNCHANGED rooms PROVE FALSE
  BY <1>1 DEF Migrates
<1>2. ASSUME NEW u \in User, NEW q \in Room, CreateRoom(u, q) PROVE FALSE
  BY <1>2, CreateRoomEffect DEF CreateRoomDoes, Migrates, Open
<1>3. ASSUME NEW u \in User, NEW q \in Room, JoinRoom(u, q) PROVE FALSE
  BY <1>3, JoinRoomEffect DEF JoinRoomDoes, Migrates, Open
<1>4. ASSUME SetRoomReady PROVE FALSE
  BY <1>4, SetRoomReadyEffect DEF Migrates, Open
<1>5. ASSUME NEW c \in Conn, LeaveRoom(c)
      PROVE  \E u \in User :
               /\ HostUser(r) = u
               /\ rooms'[r].players = [rooms[r].players EXCEPT ![u] = NoConn]
               /\ rooms'[r].host \in NextHosts(WithoutPlayer(r, u))
               /\ gameID' = gameID
  <2>. DEFINE u == UserOf[c]
  <2>1. /\ gameID[c] = r /\ rooms[r] \in GameRoom
        /\ LosesPlayer(r, u)
    BY <1>5, LeaveRoomEffect DEF Migrates, Open, Closes
  <2>2. HostUser(r) = u /\ u \in User
    BY <2>1, ConnAssumption DEF LosesPlayer, Migrates
  <2>3. RemovePlayer(r, u)
    BY <1>5, <2>1 DEF LeaveRoom, Migrates, Open
  <2>4. PICK h \in NextHosts(WithoutPlayer(r, u)) :
            rooms' = [rooms EXCEPT ![r].players[u] = NoConn, ![r].host = h]
    BY <2>1, <2>2, <2>3 DEF RemovePlayer, Migrates, Open, IInv, TypeOK
  <2>5. rooms'[r].host = h
    BY <2>1, <2>4 DEF IInv, TypeOK, GameRoom
  <2>6. gameID' = gameID
    BY <1>5 DEF LeaveRoom
  <2>. QED
    BY <2>1, <2>2, <2>4, <2>5, <2>6 DEF LosesPlayer
<1>. QED
  BY <1>1, <1>2, <1>3, <1>4, <1>5 DEF Next, SessionStep, roomVars, EnqueueRoomReady, vars

\* Of two players who have entered no other room since, the one who becomes
\* the host had entered no later.
LEMMA EarliestStays ==
    ASSUME IInv, JoinedAtIsEntry, [Next]_vars, NEW r \in Room, Migrates(r),
           NEW v \in User, rooms'[r].players[v] # NoConn,
           gameID[rooms[r].players[v]] = r, gameID'[rooms'[r].host] = r
    PROVE  enteredAt[r][UserOf[rooms'[r].host]] <= enteredAt[r][v]
<1>1. PICK u \in User :
        /\ HostUser(r) = u
        /\ rooms'[r].players = [rooms[r].players EXCEPT ![u] = NoConn]
        /\ rooms'[r].host \in NextHosts(WithoutPlayer(r, u))
        /\ gameID' = gameID
  BY MigrationIsDeparture
<1>2. rooms[r] \in GameRoom /\ rooms[r] # NoRoom
  BY DEF IInv, TypeOK, Migrates, Open
<1>3. PICK w \in User : WithoutPlayer(r, u)[w] = rooms'[r].host /\ rooms'[r].host # NoConn
  BY <1>1 DEF NextHosts
<1>4. w # u /\ rooms[r].players[w] = rooms'[r].host
  BY <1>2, <1>3 DEF WithoutPlayer, GameRoom
<1>5. v # u /\ WithoutPlayer(r, u)[v] = rooms[r].players[v] /\ rooms[r].players[v] # NoConn
  BY <1>1, <1>2 DEF WithoutPlayer, GameRoom
<1>6. joinedAt[rooms'[r].host] <= joinedAt[rooms[r].players[v]]
  BY <1>1, <1>5 DEF NextHosts
<1>7. UserOf[rooms[r].players[w]] = w /\ UserOf[rooms[r].players[v]] = v
  BY <1>2, <1>3, <1>4, <1>5 DEF IInv, RoomInv, RoomsConsistent, Open, Players
<1>8. rooms[r].players[w] # rooms[r].host /\ rooms[r].players[v] # rooms[r].host
  BY <1>1, <1>4, <1>5, <1>7 DEF HostUser
<1>9. enteredAt[r][w] = joinedAt[rooms[r].players[w]]
  BY <1>1, <1>2, <1>3, <1>4, <1>8 DEF JoinedAtIsEntry, Open
<1>10. enteredAt[r][v] = joinedAt[rooms[r].players[v]]
  BY <1>2, <1>5, <1>8 DEF JoinedAtIsEntry, Open
<1>. QED
  BY <1>4, <1>6, <1>7, <1>9, <1>10

\* When the host leaves, the next one is the player who entered the room
\* earliest, among those who have entered no other since: ties, departures
\* and other websockets of a user notwithstanding (gameroom.go GetNextHost).
THEOREM EarliestBecomesHost == OrderSpec => EarliestStayingPlayerHosts
<1>1. IInv /\ JoinedAtIsEntry /\ [OrderNext]_orderVars =>
        [\A r \in Room : Migrates(r) =>
            \A v \in Players(r)' :
                /\ gameID[rooms[r].players[v]] = r
                /\ gameID'[rooms'[r].host] = r
                => EntersNoLater(r, HostUser(r)', v)]_orderVars
  <2>1. [OrderNext]_orderVars => [Next]_vars
    BY DEF OrderNext, orderVars
  <2>2. ASSUME IInv, JoinedAtIsEntry, [Next]_vars, NEW r \in Room, Migrates(r),
               NEW v \in Players(r)',
               gameID[rooms[r].players[v]] = r, gameID'[rooms'[r].host] = r
        PROVE  EntersNoLater(r, HostUser(r)', v)
    BY <2>2, EarliestStays DEF EntersNoLater, HostUser, Players
  <2>. QED
    BY <2>1, <2>2
<1>. QED
  BY <1>1, OrderInvariance, PTL DEF OrderSpec, EarliestStayingPlayerHosts

-----------------------------------------------------------------------------
(* Presence, for any number of users and websockets *)

(***************************************************************************)
(* What a backend's list will say of a user once the backend has read what *)
(* is in its unread: what the last message that settles it says, or what    *)
(* the list says now if there is none.                                     *)
(***************************************************************************)

Settles(m, c, u) ==
    \/ m.type = "LobbyUsers"
    \/ m.type = "JoinLobby" /\ u \in m.users /\ u # UserOf[c]
    \/ m.type = "LeaveLobby" /\ u \in m.users

Shows(m, u) == u \in m.users /\ m.type # "LeaveLobby"

LastSettles(q, i, c, u) ==
    /\ Settles(q[i], c, u)
    /\ \A j \in 1..Len(q) : j > i => ~Settles(q[j], c, u)

WillShow(q, users, c, u) ==
    \/ \E i \in 1..Len(q) : LastSettles(q, i, c, u) /\ Shows(q[i], u)
    \/ u \in users /\ \A i \in 1..Len(q) : ~Settles(q[i], c, u)

LEMMA NothingUnread ==
    ASSUME NEW users, NEW c, NEW u
    PROVE  WillShow(<<>>, users, c, u) <=> u \in users
BY DEF WillShow

LEMMA Unread ==
    ASSUME NEW q \in Seq(Message), NEW m \in Message, NEW users, NEW c, NEW u
    PROVE  WillShow(Append(q, m), users, c, u) <=>
               IF Settles(m, c, u) THEN Shows(m, u) ELSE WillShow(q, users, c, u)
<1>. DEFINE a == Append(q, m)
<1>1. /\ Len(a) = Len(q) + 1 /\ a[Len(a)] = m /\ Len(q) \in Nat
      /\ \A i \in 1..Len(q) : a[i] = q[i]
  OBVIOUS
<1>2. 1..Len(a) = (1..Len(q)) \cup {Len(a)}
  BY <1>1
<1>. HIDE DEF a
<1>3. CASE Settles(m, c, u)
  <2>1. LastSettles(a, Len(a), c, u)
    BY <1>1, <1>3 DEF LastSettles
  <2>2. \A i \in 1..Len(q) : ~LastSettles(a, i, c, u)
    BY <1>1, <1>2, <1>3 DEF LastSettles
  <2>3. ~ \A i \in 1..Len(a) : ~Settles(a[i], c, u)
    BY <1>1, <1>2, <1>3
  <2>4. WillShow(a, users, c, u) <=> Shows(m, u)
    BY <1>1, <1>2, <2>1, <2>2, <2>3 DEF WillShow
  <2>. QED
    BY <1>3, <2>4 DEF a
<1>4. CASE ~Settles(m, c, u)
  <2>1. \A i \in 1..Len(q) : LastSettles(a, i, c, u) <=> LastSettles(q, i, c, u)
    BY <1>1, <1>2, <1>4 DEF LastSettles
  <2>2. ~LastSettles(a, Len(a), c, u)
    BY <1>1, <1>4 DEF LastSettles
  <2>3. (\A i \in 1..Len(a) : ~Settles(a[i], c, u)) <=>
            \A i \in 1..Len(q) : ~Settles(q[i], c, u)
    BY <1>1, <1>2, <1>4
  <2>4. WillShow(a, users, c, u) <=> WillShow(q, users, c, u)
    BY <1>1, <1>2, <2>1, <2>2, <2>3 DEF WillShow
  <2>. QED
    BY <1>4, <2>4 DEF a
<1>. QED
  BY <1>3, <1>4

LEMMA HandledShows ==
    ASSUME NEW c \in Conn, NEW m \in Message, NEW u
    PROVE  u \in Handled(c, m) <=>
               IF Settles(m, c, u) THEN Shows(m, u) ELSE u \in lobbyUsers[c]
<1>1. CASE m.type = "LobbyUsers"
  BY <1>1 DEF Handled, Settles, Shows
<1>2. CASE m.type = "JoinLobby"
  BY <1>2 DEF Handled, Settles, Shows
<1>3. CASE m.type = "LeaveLobby"
  BY <1>3 DEF Handled, Settles, Shows
<1>. QED
  BY <1>1, <1>2, <1>3 DEF Message

\* Reading a message changes nothing of what the list will say in the end.
LEMMA Reading ==
    ASSUME NEW c \in Conn, NEW q \in Seq(Message), q # <<>>, NEW u
    PROVE  WillShow(Tail(q), Handled(c, Head(q)), c, u) <=>
               WillShow(q, lobbyUsers[c], c, u)
<1>. DEFINE t == Tail(q)
            m == Head(q)
<1>1. /\ Len(q) = Len(t) + 1 /\ Len(t) \in Nat /\ m = q[1] /\ m \in Message
      /\ \A i \in 1..Len(t) : t[i] = q[i + 1]
  OBVIOUS
<1>2. u \in Handled(c, m) <=>
          IF Settles(m, c, u) THEN Shows(m, u) ELSE u \in lobbyUsers[c]
  BY <1>1, HandledShows
<1>. HIDE DEF t, m
<1>3. \A i \in 1..Len(t) : i + 1 \in 1..Len(q) /\ i + 1 > 1
  BY <1>1
<1>4. ASSUME NEW j \in 1..Len(q), j # 1
      PROVE  j - 1 \in 1..Len(t) /\ q[j] = t[j - 1] /\ (j - 1) + 1 = j
  BY <1>1, <1>4
<1>5. \A i \in 1..Len(t) : LastSettles(q, i + 1, c, u) <=> LastSettles(t, i, c, u)
  <2>. SUFFICES ASSUME NEW i \in 1..Len(t)
                PROVE  LastSettles(q, i + 1, c, u) <=> LastSettles(t, i, c, u)
    OBVIOUS
  <2>1. ASSUME LastSettles(t, i, c, u) PROVE LastSettles(q, i + 1, c, u)
    <3>1. ASSUME NEW j \in 1..Len(q), j > i + 1 PROVE ~Settles(q[j], c, u)
      <4>1. j - 1 \in 1..Len(t) /\ j - 1 > i /\ q[j] = t[j - 1]
        BY <1>1, <3>1
      <4>. QED
        BY <2>1, <4>1 DEF LastSettles
    <3>. QED
      BY <1>1, <2>1, <3>1 DEF LastSettles
  <2>2. ASSUME LastSettles(q, i + 1, c, u) PROVE LastSettles(t, i, c, u)
    <3>1. ASSUME NEW j \in 1..Len(t), j > i PROVE ~Settles(t[j], c, u)
      <4>1. j + 1 \in 1..Len(q) /\ j + 1 > i + 1 /\ t[j] = q[j + 1]
        BY <1>1, <3>1
      <4>. QED
        BY <2>2, <4>1 DEF LastSettles
    <3>. QED
      BY <1>1, <2>2, <3>1 DEF LastSettles
  <2>. QED
    BY <2>1, <2>2
<1>6. 1 \in 1..Len(q)
  BY <1>1
<1>7. LastSettles(q, 1, c, u) <=>
          Settles(m, c, u) /\ \A i \in 1..Len(t) : ~Settles(t[i], c, u)
  <2>1. \A j \in 1..Len(q) : j > 1 => j # 1
    BY <1>1
  <2>. QED
    BY <1>1, <1>3, <1>4, <2>1 DEF LastSettles
<1>8. (\A i \in 1..Len(q) : ~Settles(q[i], c, u)) <=>
          ~Settles(m, c, u) /\ \A i \in 1..Len(t) : ~Settles(t[i], c, u)
  BY <1>1, <1>3, <1>4, <1>6
<1>9. (\E i \in 1..Len(q) : LastSettles(q, i, c, u) /\ Shows(q[i], u)) <=>
          \/ LastSettles(q, 1, c, u) /\ Shows(m, u)
          \/ \E i \in 1..Len(t) : LastSettles(t, i, c, u) /\ Shows(t[i], u)
  BY <1>1, <1>3, <1>4, <1>5, <1>6
<1>. QED
  BY <1>2, <1>7, <1>8, <1>9 DEF WillShow, t, m

(***************************************************************************)
(* The inductive invariant                                                 *)
(***************************************************************************)

\* Under OneAtATime a session is in the map exactly while it holds its entry.
EntriesHeld ==
    /\ \A u \in User : Registered(u) =>
           UserOf[sessions[u]] = u /\ phase[sessions[u]] \in Holding
    /\ \A c \in Conn : phase[c] \in Holding => sessions[UserOf[c]] = c

SendersAnnounce == \A c \in sending : phase[c] \in {"announcing", "farewell"}

\* What a session has listed is out of date only about who has overlapped.
SnapshotsHold ==
    \A c \in Conn, u \in User :
        Listing(c) /\ u # UserOf[c] /\ u \notin overlapped[c]
            => (u \in snapshot[c] <=> Registered(u))

\* Its backend has been sent a list, and everything since.
Answered(c) == phase[c] \in {"announcing", "serving"} /\ connected[c]

\* A broadcast about u is on its way to c.
Awaits(c, u) ==
    \E d \in Conn :
        /\ UserOf[d] = u
        /\ phase[d] \in {"replying", "announcing", "farewell"}
        /\ d \in sending => c \in todo[d]

OwnUserShown ==
    \A c \in Conn : Answered(c) => WillShow(unread[c], lobbyUsers[c], c, UserOf[c])

Right(c, u) ==
    /\ Answered(c)
    /\ u # UserOf[c]
    /\ u \notin overlapped[c]
    /\ ~Awaits(c, u)
    => (WillShow(unread[c], lobbyUsers[c], c, u) <=> Registered(u))

OthersShown == \A c \in Conn, u \in User : Right(c, u)

Base == PresenceTypeOK /\ OneAtATime /\ EntriesHeld /\ SendersAnnounce

PresenceInv == Base /\ SnapshotsHold /\ OwnUserShown /\ OthersShown

LEMMA InitPresenceInv == PresenceInit => PresenceInv
<1>. SUFFICES ASSUME PresenceInit PROVE PresenceInv
  OBVIOUS
<1>1. \A c \in Conn : phase[c] = "accepted"
  BY DEF PresenceInit, SessionsInit
<1>2. \A u \in User : ~Registered(u)
  BY DEF PresenceInit, SessionsInit, Registered
<1>3. PresenceTypeOK
  <2>1. <<>> \in Seq(Message)
    OBVIOUS
  <2>. QED
    BY <2>1 DEF PresenceInit, SessionsInit, PresenceTypeOK, Phase
<1>. QED
  BY <1>1, <1>2, <1>3 DEF PresenceInit, PresenceInv, Base, OneAtATime, EntriesHeld, Holding,
     SendersAnnounce, SnapshotsHold, Listing, OwnUserShown, OthersShown, Right,
     Answered

(***************************************************************************)
(* What the steps do                                                       *)
(***************************************************************************)

Step(c) ==
    \/ Silent(c)
    \/ OtherWriteFails(c)
    \/ List(c)
    \/ Register(c)
    \/ Reply(c)
    \/ StartBroadcast(c)
    \/ \E d \in Conn : SendTo(c, d)
    \/ EndBroadcast(c)
    \/ Disconnect(c)
    \/ Unregister(c)
    \/ Receive(c)

\* A session never finds its user in the map: no other of that user is there.
LEMMA FindsNobody ==
    ASSUME Base, NEW c \in Conn, phase[c] = "checking"
    PROVE  ~Registered(UserOf[c])
<1>. SUFFICES ASSUME Registered(UserOf[c]) PROVE FALSE
  OBVIOUS
<1>. DEFINE d == sessions[UserOf[c]]
<1>1. UserOf[c] \in User
  BY ConnAssumption
<1>2. d \in Conn /\ UserOf[d] = UserOf[c] /\ phase[d] \in Holding
  BY <1>1 DEF Base, EntriesHeld, PresenceTypeOK, Registered
<1>. QED
  BY <1>2 DEF Base, OneAtATime, Holding

LEMMA SilentEffect ==
    ASSUME Base, NEW c \in Conn, Silent(c)
    PROVE  /\ UNCHANGED <<sessions, snapshot, sending, todo, unread, connected, lobbyUsers, overlapped>>
           /\ phase' \in [Conn -> Phase]
           /\ \A d \in Conn : d # c => phase'[d] = phase[d]
           /\ phase[c] \in {"accepted", "greeted", "checking", "leaving", "leavingRelay"}
           /\ phase'[c] \in {"greeted", "listing", "closed", "adding", "leavingRelay",
                             "deleting"}
           /\ Listing(c) <=> Listing(c)'
           /\ (phase[c] \in Holding) <=> (phase'[c] \in Holding)
<1>. USE DEF Base, PresenceTypeOK, Phase, Listing, Holding
<1>1. UNCHANGED <<sessions, snapshot, sending, todo, unread, connected, lobbyUsers, overlapped>>
  BY DEF Silent, messageVars, HandleHello, HandleJoinLobby, HandshakeFails,
         FindUserSession, LeaveGame, LeaveRelay
<1>2. CASE HandleHello(c)
  BY <1>1, <1>2 DEF HandleHello, Advance
<1>3. CASE HandleJoinLobby(c)
  BY <1>1, <1>3 DEF HandleJoinLobby, Advance
<1>4. CASE HandshakeFails(c)
  BY <1>1, <1>4 DEF HandshakeFails
<1>5. CASE FindUserSession(c)
  BY <1>1, <1>5, FindsNobody DEF FindUserSession
<1>6. CASE LeaveGame(c)
  BY <1>1, <1>6 DEF LeaveGame, Advance
<1>7. CASE LeaveRelay(c)
  BY <1>1, <1>7 DEF LeaveRelay, Advance
<1>. QED
  BY <1>2, <1>3, <1>4, <1>5, <1>6, <1>7 DEF Silent

\* A message that is written goes to the end of an unread, if it arrives.
LEMMA WrittenType ==
    ASSUME PresenceTypeOK, NEW c \in Conn, NEW type \in {"LobbyUsers", "JoinLobby", "LeaveLobby"},
           NEW users \in SUBSET User, Written(c, type, users)
    PROVE  /\ unread' \in [Conn -> Seq(Message)]
           /\ connected' \in [Conn -> BOOLEAN]
<1>1. [type |-> type, users |-> users] \in Message
  BY DEF Message
<1>2. unread \in [Conn -> Seq(Message)] /\ connected \in [Conn -> BOOLEAN]
  BY DEF PresenceTypeOK
<1>3. Append(unread[c], [type |-> type, users |-> users]) \in Seq(Message)
  BY <1>1, <1>2
<1>4. \/ unread' = unread
      \/ unread' = [unread EXCEPT ![c] = Append(@, [type |-> type, users |-> users])]
  BY DEF Written
<1>5. connected' = connected \/ connected' = [connected EXCEPT ![c] = FALSE]
  BY DEF Written
<1>. QED
  BY <1>2, <1>3, <1>4, <1>5

\* Connected is lost and not regained.
LEMMA StaysLost ==
    ASSUME PresenceTypeOK, NEW c \in Conn, Step(c), NEW e \in Conn, connected'[e]
    PROVE  connected[e]
<1>1. \/ connected' = connected
      \/ \E d \in Conn : connected' = [connected EXCEPT ![d] = FALSE]
  BY DEF Step, Silent, OtherWriteFails, List, Register, Reply, StartBroadcast, SendTo,
     Written, EndBroadcast, Disconnect, Unregister, Receive, messageVars
<1>. QED
  BY <1>1 DEF PresenceTypeOK

LEMMA NextTypeOK ==
    ASSUME Base, NEW c \in Conn, Step(c)
    PROVE  PresenceTypeOK'
<1>. USE DEF Base
<1>1. CASE Silent(c)
  BY <1>1, SilentEffect DEF PresenceTypeOK
<1>2. CASE List(c)
  BY <1>2 DEF List, ListSessions, Advance, PresenceTypeOK, Phase
<1>3. CASE Register(c)
  <2>1. overlapped' \in [Conn -> SUBSET User]
    BY <1>3, ConnAssumption DEF Register, Overlaps, PresenceTypeOK
  <2>. QED
    BY <1>3, <2>1, ConnAssumption DEF Register, SetUserSession, Advance, PresenceTypeOK, Phase
<1>4. CASE Reply(c)
  <2>1. snapshot[c] \cup {UserOf[c]} \in SUBSET User
    BY ConnAssumption DEF PresenceTypeOK
  <2>2. unread' \in [Conn -> Seq(Message)] /\ connected' \in [Conn -> BOOLEAN]
    BY <1>4, <2>1, WrittenType DEF Reply
  <2>. QED
    BY <1>4, <2>2 DEF Reply, SendLobbyUsers, Advance, PresenceTypeOK, Phase
<1>5. CASE StartBroadcast(c)
  BY <1>5 DEF StartBroadcast, PresenceTypeOK, sessionVars
<1>6. ASSUME NEW d \in Conn, SendTo(c, d) PROVE PresenceTypeOK'
  <2>1. unread' \in [Conn -> Seq(Message)] /\ connected' \in [Conn -> BOOLEAN]
    BY <1>6, WrittenType, ConnAssumption DEF SendTo
  <2>. QED
    BY <1>6, <2>1 DEF SendTo, PresenceTypeOK, sessionVars
<1>7. CASE EndBroadcast(c)
  BY <1>7 DEF EndBroadcast, BroadcastJoin, BroadcastLeave, Advance, PresenceTypeOK, Phase
<1>8. CASE Disconnect(c)
  BY <1>8 DEF Disconnect, StopServing, Advance, PresenceTypeOK, Phase
<1>9. CASE Unregister(c)
  <2>1. overlapped' \in [Conn -> SUBSET User]
    BY <1>9, ConnAssumption DEF Unregister, Overlaps, PresenceTypeOK
  <2>. QED
    BY <1>9, <2>1 DEF Unregister, DeleteUserSession, Advance, PresenceTypeOK, Phase
<1>10. CASE Receive(c)
  <2>1. Tail(unread[c]) \in Seq(Message) /\ Head(unread[c]) \in Message
    BY <1>10 DEF Receive, PresenceTypeOK
  <2>2. Handled(c, Head(unread[c])) \in SUBSET User
    <3>. DEFINE m == Head(unread[c])
    <3>1. CASE m.type = "LobbyUsers"
      BY <2>1, <3>1 DEF Handled, Message
    <3>2. CASE m.type = "JoinLobby"
      BY <2>1, <3>2 DEF Handled, Message, PresenceTypeOK
    <3>3. CASE m.type = "LeaveLobby"
      BY <2>1, <3>3 DEF Handled, Message, PresenceTypeOK
    <3>. QED
      BY <2>1, <3>1, <3>2, <3>3 DEF Message
  <2>. QED
    BY <1>10, <2>1, <2>2 DEF Receive, PresenceTypeOK, sessionVars
<1>11. CASE OtherWriteFails(c)
  BY <1>11 DEF OtherWriteFails, PresenceTypeOK, sessionVars
<1>. QED
  BY <1>1, <1>2, <1>3, <1>4, <1>5, <1>6, <1>7, <1>8, <1>9, <1>10, <1>11 DEF Step

(***************************************************************************)
(* The map and the senders                                                 *)
(***************************************************************************)

\* Every step but the writes of the map.
LEMMA QuietEffect ==
    ASSUME Base, NEW c \in Conn, Step(c), ~Register(c), ~Unregister(c)
    PROVE  /\ UNCHANGED <<sessions, overlapped>>
           /\ \A d \in Conn : d # c => phase'[d] = phase[d]
           /\ (phase[c] \in Holding) <=> (phase'[c] \in Holding)
<1>. USE DEF Base, PresenceTypeOK, Holding
<1>1. CASE Silent(c)
  BY <1>1, SilentEffect
<1>2. CASE List(c)
  BY <1>2 DEF List, ListSessions, Advance
<1>3. CASE Reply(c)
  BY <1>3 DEF Reply, SendLobbyUsers, Advance
<1>4. CASE StartBroadcast(c)
  BY <1>4 DEF StartBroadcast, sessionVars
<1>5. ASSUME NEW d \in Conn, SendTo(c, d)
      PROVE  UNCHANGED <<phase, sessions, overlapped>>
  BY <1>5 DEF SendTo, sessionVars
<1>6. CASE EndBroadcast(c)
  BY <1>6 DEF EndBroadcast, BroadcastJoin, BroadcastLeave, Advance
<1>7. CASE Disconnect(c)
  BY <1>7 DEF Disconnect, StopServing, Advance
<1>8. CASE Receive(c)
  BY <1>8 DEF Receive, sessionVars
<1>9. CASE OtherWriteFails(c)
  BY <1>9 DEF OtherWriteFails, sessionVars
<1>. QED
  BY <1>1, <1>2, <1>3, <1>4, <1>5, <1>6, <1>7, <1>8, <1>9 DEF Step

LEMMA NextEntriesHeld ==
    ASSUME Base, NEW c \in Conn, Step(c)
    PROVE  EntriesHeld'
<1>. USE ConnAssumption DEF Base
<1>1. CASE Register(c)
  <2>1. /\ phase[c] = "adding" /\ phase'[c] = "replying"
        /\ \A d \in Conn : d # c => phase'[d] = phase[d]
        /\ \A u \in User : sessions'[u] = IF u = UserOf[c] THEN c ELSE sessions[u]
    BY <1>1 DEF Register, SetUserSession, Advance, PresenceTypeOK
  <2>2. ASSUME NEW u \in User, sessions'[u] # NoConn
        PROVE  UserOf[sessions'[u]] = u /\ phase'[sessions'[u]] \in Holding
    <3>1. CASE u = UserOf[c]
      BY <2>1, <3>1 DEF Holding
    <3>2. CASE u # UserOf[c]
      <4>1. sessions'[u] = sessions[u] /\ sessions[u] # NoConn
        BY <2>1, <2>2, <3>2
      <4>2. /\ sessions[u] \in Conn
            /\ UserOf[sessions[u]] = u /\ phase[sessions[u]] \in Holding
        BY <4>1 DEF EntriesHeld, Registered, PresenceTypeOK
      <4>. QED
        BY <2>1, <3>2, <4>1, <4>2
    <3>. QED
      BY <3>1, <3>2
  <2>3. ASSUME NEW d \in Conn, phase'[d] \in Holding PROVE sessions'[UserOf[d]] = d
    <3>1. CASE d = c
      BY <2>1, <3>1
    <3>2. CASE d # c
      BY <2>1, <2>3, <3>2 DEF EntriesHeld, OneAtATime, Holding
    <3>. QED
      BY <3>1, <3>2
  <2>. QED
    BY <2>2, <2>3 DEF EntriesHeld, Registered
<1>2. CASE Unregister(c)
  <2>1. /\ phase[c] = "deleting" /\ phase'[c] = "farewell"
        /\ \A d \in Conn : d # c => phase'[d] = phase[d]
        /\ \A u \in User : sessions'[u] = IF u = UserOf[c] THEN NoConn ELSE sessions[u]
    BY <1>2 DEF Unregister, DeleteUserSession, Advance, PresenceTypeOK
  <2>2. ASSUME NEW u \in User, sessions'[u] # NoConn
        PROVE  UserOf[sessions'[u]] = u /\ phase'[sessions'[u]] \in Holding
    <3>1. u # UserOf[c] /\ sessions'[u] = sessions[u]
      BY <2>1, <2>2
    <3>2. /\ sessions[u] \in Conn
          /\ UserOf[sessions[u]] = u /\ phase[sessions[u]] \in Holding
      BY <2>2, <3>1 DEF EntriesHeld, Registered, PresenceTypeOK
    <3>. QED
      BY <2>1, <3>1, <3>2
  <2>3. ASSUME NEW d \in Conn, phase'[d] \in Holding PROVE sessions'[UserOf[d]] = d
    BY <2>1, <2>3 DEF EntriesHeld, OneAtATime, Holding
  <2>. QED
    BY <2>2, <2>3 DEF EntriesHeld, Registered
<1>3. CASE ~Register(c) /\ ~Unregister(c)
  <2>1. /\ sessions' = sessions
        /\ \A d \in Conn : (phase[d] \in Holding) <=> (phase'[d] \in Holding)
    BY <1>3, QuietEffect
  <2>. QED
    BY <2>1 DEF EntriesHeld, Registered, PresenceTypeOK
<1>. QED
  BY <1>1, <1>2, <1>3

LEMMA NextSendersAnnounce ==
    ASSUME Base, NEW c \in Conn, Step(c)
    PROVE  SendersAnnounce'
<1>. USE DEF Base, PresenceTypeOK, SendersAnnounce
<1>1. CASE Silent(c)
  BY <1>1, SilentEffect
<1>2. CASE List(c)
  BY <1>2 DEF List, ListSessions, Advance
<1>3. CASE Register(c)
  BY <1>3 DEF Register, SetUserSession, Advance
<1>4. CASE Reply(c)
  BY <1>4 DEF Reply, SendLobbyUsers, Advance
<1>5. CASE StartBroadcast(c)
  BY <1>5 DEF StartBroadcast, sessionVars
<1>6. CASE \E d \in Conn : SendTo(c, d)
  BY <1>6 DEF SendTo, sessionVars
<1>7. CASE EndBroadcast(c)
  BY <1>7 DEF EndBroadcast, BroadcastJoin, BroadcastLeave, Advance
<1>8. CASE Disconnect(c)
  BY <1>8 DEF Disconnect, StopServing, Advance
<1>9. CASE Unregister(c)
  BY <1>9 DEF Unregister, DeleteUserSession, Advance
<1>10. CASE Receive(c)
  BY <1>10 DEF Receive, sessionVars
<1>11. CASE OtherWriteFails(c)
  BY <1>11 DEF OtherWriteFails, sessionVars
<1>. QED
  BY <1>1, <1>2, <1>3, <1>4, <1>5, <1>6, <1>7, <1>8, <1>9, <1>10, <1>11 DEF Step

(***************************************************************************)
(* The snapshots: whoever is written or deleted meanwhile overlaps         *)
(***************************************************************************)

LEMMA WritesOverlap ==
    ASSUME Base, SnapshotsHold, NEW c \in Conn, Overlaps(UserOf[c]), snapshot' = snapshot,
           \A d \in Conn : Listing(d)' => Listing(d),
           \A u \in User : u # UserOf[c] => sessions'[u] = sessions[u]
    PROVE  SnapshotsHold'
<1>. SUFFICES ASSUME NEW d \in Conn, NEW u \in User, Listing(d)', u # UserOf[d],
                     u \notin overlapped'[d]
              PROVE  u \in snapshot'[d] <=> sessions'[u] # NoConn
  BY DEF SnapshotsHold, Registered
<1>1. Listing(d)
  OBVIOUS
<1>2. overlapped'[d] = IF UserOf[d] # UserOf[c] THEN overlapped[d] \cup {UserOf[c]}
                       ELSE overlapped[d]
  BY <1>1 DEF Overlaps
<1>3. u # UserOf[c] /\ u \notin overlapped[d]
  BY <1>2
<1>. QED
  BY <1>1, <1>3 DEF SnapshotsHold, Registered

LEMMA NextSnapshotsHold ==
    ASSUME Base, SnapshotsHold, NEW c \in Conn, Step(c)
    PROVE  SnapshotsHold'
<1>. USE DEF Base, PresenceTypeOK
<1>1. CASE List(c)
  <2>1. /\ phase[c] = "listing"
        /\ \A d \in Conn : d # c => phase'[d] = phase[d] /\ snapshot'[d] = snapshot[d]
        /\ snapshot'[c] = {u \in User : Registered(u)}
        /\ UNCHANGED <<sessions, overlapped>>
    BY <1>1 DEF List, ListSessions, Advance
  <2>. QED
    BY <2>1 DEF SnapshotsHold, Listing, Registered
<1>2. CASE Register(c)
  <2>1. phase[c] = "adding" /\ \A d \in Conn : d # c => phase'[d] = phase[d]
    BY <1>2 DEF Register, SetUserSession, Advance
  <2>2. \A d \in Conn : Listing(d)' => Listing(d)
    BY <2>1 DEF Listing
  <2>. QED
    BY <1>2, <2>2, WritesOverlap DEF Register, SetUserSession
<1>3. CASE Unregister(c)
  <2>1. /\ phase'[c] = "farewell"
        /\ \A d \in Conn : d # c => phase'[d] = phase[d]
    BY <1>3 DEF Unregister, DeleteUserSession, Advance
  <2>2. \A d \in Conn : Listing(d)' => Listing(d)
    BY <2>1 DEF Listing
  <2>. QED
    BY <1>3, <2>2, WritesOverlap DEF Unregister, DeleteUserSession
<1>4. CASE ~List(c) /\ ~Register(c) /\ ~Unregister(c)
  <2>1. /\ UNCHANGED <<sessions, overlapped>>
        /\ \A d \in Conn : d # c => phase'[d] = phase[d]
    BY <1>4, QuietEffect
  <2>2. snapshot' = snapshot /\ (Listing(c)' => Listing(c))
    <3>1. CASE Silent(c)
      BY <3>1, SilentEffect
    <3>2. CASE Reply(c)
      BY <3>2 DEF Reply, SendLobbyUsers, Advance, Listing
    <3>3. CASE StartBroadcast(c)
      BY <3>3 DEF StartBroadcast, sessionVars, Listing
    <3>4. CASE \E d \in Conn : SendTo(c, d)
      BY <3>4 DEF SendTo, sessionVars, Listing
    <3>5. CASE EndBroadcast(c)
      BY <3>5 DEF EndBroadcast, BroadcastJoin, BroadcastLeave, Advance, Listing
    <3>6. CASE Disconnect(c)
      BY <3>6 DEF Disconnect, StopServing, Advance, Listing
    <3>7. CASE Receive(c)
      BY <3>7 DEF Receive, sessionVars, Listing
    <3>8. CASE OtherWriteFails(c)
      BY <3>8 DEF OtherWriteFails, sessionVars, Listing
    <3>. QED
      BY <1>4, <3>1, <3>2, <3>3, <3>4, <3>5, <3>6, <3>7, <3>8 DEF Step
  <2>. QED
    BY <2>1, <2>2 DEF SnapshotsHold, Listing, Registered
<1>. QED
  BY <1>1, <1>2, <1>3, <1>4

(***************************************************************************)
(* What the backends will show                                             *)
(***************************************************************************)

\* A notice settles its own user alone, and a player's own joining nothing.
LEMMA NoticeShows ==
    ASSUME Base, NEW c \in Conn, NEW d \in Conn, SendTo(c, d), Answered(d), Answered(d)', NEW u
    PROVE  WillShow(unread'[d], lobbyUsers'[d], d, u) <=>
               IF u = UserOf[c] /\ (phase[c] = "farewell" \/ u # UserOf[d])
               THEN phase[c] = "announcing"
               ELSE WillShow(unread[d], lobbyUsers[d], d, u)
<1>. USE DEF Base
<1>. DEFINE type == IF phase[c] = "announcing" THEN "JoinLobby" ELSE "LeaveLobby"
            m == [type |-> type, users |-> {UserOf[c]}]
<1>1. phase[c] \in {"announcing", "farewell"}
  BY DEF SendTo, SendersAnnounce
<1>2. m \in Message
  BY ConnAssumption DEF Message
<1>3. unread'[d] = Append(unread[d], m) /\ lobbyUsers'[d] = lobbyUsers[d]
  BY DEF SendTo, Written, Closed, Answered, PresenceTypeOK
<1>4. unread[d] \in Seq(Message)
  BY DEF PresenceTypeOK
<1>5. Settles(m, d, u) <=> u = UserOf[c] /\ (phase[c] = "farewell" \/ u # UserOf[d])
  BY <1>1 DEF Settles
<1>6. Settles(m, d, u) => (Shows(m, u) <=> phase[c] = "announcing")
  BY <1>1, <1>5 DEF Shows
<1>. HIDE DEF m
<1>. QED
  BY <1>2, <1>3, <1>4, <1>5, <1>6, Unread

LEMMA AnswerShows ==
    ASSUME Base, NEW c \in Conn, Reply(c), connected'[c], NEW u
    PROVE  WillShow(unread'[c], lobbyUsers'[c], c, u) <=> u \in snapshot[c] \cup {UserOf[c]}
<1>. USE DEF Base
<1>. DEFINE m == [type |-> "LobbyUsers", users |-> snapshot[c] \cup {UserOf[c]}]
<1>1. m \in Message
  BY ConnAssumption DEF Message, PresenceTypeOK
<1>2. unread'[c] = Append(unread[c], m) /\ lobbyUsers'[c] = lobbyUsers[c]
  BY DEF Reply, SendLobbyUsers, Advance, Written, Closed, PresenceTypeOK
<1>3. unread[c] \in Seq(Message)
  BY DEF PresenceTypeOK
<1>4. Settles(m, c, u) /\ (Shows(m, u) <=> u \in snapshot[c] \cup {UserOf[c]})
  BY DEF Settles, Shows
<1>. HIDE DEF m
<1>. QED
  BY <1>1, <1>2, <1>3, <1>4, Unread

LEMMA ReceiveShows ==
    ASSUME Base, NEW c \in Conn, Receive(c), NEW u
    PROVE  WillShow(unread'[c], lobbyUsers'[c], c, u) <=>
               WillShow(unread[c], lobbyUsers[c], c, u)
<1>1. /\ unread[c] \in Seq(Message) /\ unread[c] # <<>>
      /\ unread'[c] = Tail(unread[c])
      /\ lobbyUsers'[c] = Handled(c, Head(unread[c]))
  BY DEF Base, Receive, PresenceTypeOK
<1>. QED
  BY <1>1, Reading

\* Nobody else's unread or list is touched, and nobody else answered.
LEMMA OthersUntouched ==
    ASSUME Base, NEW c \in Conn, Step(c), NEW e \in Conn, Answered(e)',
           e = c => ~Reply(c) /\ ~Receive(c), ~SendTo(c, e)
    PROVE  /\ Answered(e)
           /\ unread'[e] = unread[e] /\ lobbyUsers'[e] = lobbyUsers[e]
<1>. DEFINE Untouched ==
                /\ phase[e] \in {"announcing", "serving"}
                /\ unread'[e] = unread[e] /\ lobbyUsers'[e] = lobbyUsers[e]
<1>0. connected[e]
  BY StaysLost DEF Base, Answered
<1>. USE DEF Base, PresenceTypeOK, Answered
<1>1. ASSUME Silent(c) PROVE Untouched
  BY <1>1, SilentEffect
<1>2. ASSUME List(c) PROVE Untouched
  BY <1>2 DEF List, ListSessions, Advance
<1>3. ASSUME Register(c) PROVE Untouched
  BY <1>3 DEF Register, SetUserSession, Advance
<1>4. ASSUME Reply(c) PROVE Untouched
  BY <1>4 DEF Reply, SendLobbyUsers, Advance, Written
<1>5. ASSUME StartBroadcast(c) PROVE Untouched
  BY <1>5 DEF StartBroadcast, sessionVars
<1>6. ASSUME NEW d \in Conn, SendTo(c, d)
      PROVE  Untouched
  <2>1. d # e
    BY <1>6
  <2>. QED
    BY <1>6, <2>1 DEF SendTo, Written, sessionVars
<1>7. ASSUME EndBroadcast(c) PROVE Untouched
  BY <1>7 DEF EndBroadcast, BroadcastJoin, BroadcastLeave, Advance
<1>8. ASSUME Disconnect(c) PROVE Untouched
  BY <1>8 DEF Disconnect, StopServing, Advance
<1>9. ASSUME Unregister(c) PROVE Untouched
  BY <1>9 DEF Unregister, DeleteUserSession, Advance
<1>10. ASSUME Receive(c) PROVE Untouched
  BY <1>10 DEF Receive, sessionVars
<1>11. ASSUME OtherWriteFails(c) PROVE Untouched
  BY <1>11 DEF OtherWriteFails, sessionVars
<1>12. Untouched
  BY <1>1, <1>2, <1>3, <1>4, <1>5, <1>6, <1>7, <1>8, <1>9, <1>10, <1>11 DEF Step
<1>. QED
  BY <1>0, <1>12

LEMMA NextOwnUserShown ==
    ASSUME Base, OwnUserShown, NEW c \in Conn, Step(c)
    PROVE  OwnUserShown'
<1>. SUFFICES ASSUME NEW e \in Conn, Answered(e)'
              PROVE  WillShow(unread'[e], lobbyUsers'[e], e, UserOf[e])
  BY DEF OwnUserShown
<1>0. connected[e] /\ connected'[e]
  BY StaysLost DEF Base, Answered
<1>1. CASE e = c /\ Reply(c)
  BY <1>0, <1>1, AnswerShows
<1>2. CASE e = c /\ Receive(c)
  <2>1. Answered(e)
    BY <1>0, <1>2 DEF Receive, sessionVars, Answered
  <2>. QED
    BY <1>2, <2>1, ReceiveShows DEF OwnUserShown
\* No other session of a player says farewell while the player is served.
<1>3. CASE SendTo(c, e)
  <2>1. Answered(e)
    BY <1>0, <1>3 DEF SendTo, sessionVars, Answered
  <2>2. ~(UserOf[e] = UserOf[c] /\ phase[c] = "farewell")
    BY <2>1 DEF Answered, Base, OneAtATime
  <2>. QED
    BY <1>3, <2>1, <2>2, NoticeShows DEF OwnUserShown
<1>4. CASE (e = c => ~Reply(c) /\ ~Receive(c)) /\ ~SendTo(c, e)
  BY <1>4, OthersUntouched DEF OwnUserShown
<1>. QED
  BY <1>1, <1>2, <1>3, <1>4

\* A broadcast that is on its way stays so, but for the notice being written.
LEMMA AwaitsStays ==
    ASSUME Base, NEW c \in Conn, Step(c), NEW e \in Conn, NEW u \in User,
           Answered(e), Answered(e)', Awaits(e, u), ~(SendTo(c, e) /\ u = UserOf[c])
    PROVE  Awaits(e, u)'
<1>. USE DEF Base
<1>. DEFINE Notifies(d) ==
                /\ UserOf[d] = u
                /\ phase[d] \in {"replying", "announcing", "farewell"}
                /\ d \in sending => e \in todo[d]
<1>1. PICK d \in Conn : Notifies(d)
  BY DEF Awaits
<1>2. SUFFICES /\ phase'[d] \in {"replying", "announcing", "farewell"}
               /\ d \in sending' => e \in todo'[d]
  BY <1>1 DEF Awaits
<1>3. CASE Silent(c)
  BY <1>1, <1>3, SilentEffect
<1>4. CASE List(c)
  BY <1>1, <1>4 DEF List, ListSessions, Advance, PresenceTypeOK
<1>5. CASE Register(c)
  BY <1>1, <1>5 DEF Register, SetUserSession, Advance, PresenceTypeOK
<1>6. CASE Reply(c)
  <2>1. c \notin sending /\ sending' = sending /\ todo' = todo
    BY <1>6 DEF Reply, SendLobbyUsers, Advance, SendersAnnounce
  <2>. QED
    BY <1>1, <1>6, <2>1 DEF Reply, SendLobbyUsers, Advance, PresenceTypeOK
\* Whoever has been answered is in the map, and so is written to.
<1>7. CASE StartBroadcast(c)
  <2>1. sessions[UserOf[e]] = e
    BY DEF EntriesHeld, Answered, Holding
  <2>2. e \in {sessions[v] : v \in User} \ {NoConn}
    BY <2>1, ConnAssumption
  <2>3. /\ phase' = phase /\ sending' = sending \cup {c} /\ e \in todo'[c]
        /\ \A w \in Conn : w # c => todo'[w] = todo[w]
    BY <1>7, <2>2 DEF StartBroadcast, sessionVars, PresenceTypeOK
  <2>. QED
    BY <1>1, <2>3
<1>8. ASSUME NEW w \in Conn, SendTo(c, w)
      PROVE  /\ phase'[d] \in {"replying", "announcing", "farewell"}
             /\ d \in sending' => e \in todo'[d]
  <2>1. /\ phase' = phase /\ sending' = sending /\ todo'[c] = todo[c] \ {w}
        /\ \A v \in Conn : v # c => todo'[v] = todo[v]
    BY <1>8 DEF SendTo, sessionVars, PresenceTypeOK
  <2>2. d = c => w # e
    BY <1>1, <1>8
  <2>. QED
    BY <1>1, <2>1, <2>2
<1>9. CASE EndBroadcast(c)
  <2>1. d # c
    BY <1>1, <1>9 DEF EndBroadcast
  <2>. QED
    BY <1>1, <1>9, <2>1
    DEF EndBroadcast, BroadcastJoin, BroadcastLeave, Advance, PresenceTypeOK
<1>10. CASE Disconnect(c)
  BY <1>1, <1>10 DEF Disconnect, StopServing, Advance, PresenceTypeOK
<1>11. CASE Unregister(c)
  BY <1>1, <1>11 DEF Unregister, DeleteUserSession, Advance, PresenceTypeOK
<1>12. CASE Receive(c)
  BY <1>1, <1>12 DEF Receive, sessionVars
<1>13. CASE OtherWriteFails(c)
  BY <1>1, <1>13 DEF OtherWriteFails, sessionVars
<1>. QED
  BY <1>3, <1>4, <1>5, <1>6, <1>7, <1>8, <1>9, <1>10, <1>11, <1>12, <1>13 DEF Step

\* A write of the map is followed by a broadcast that nobody has sent yet.
LEMMA WriteIsAnnounced ==
    ASSUME Base, NEW c \in Conn, Register(c) \/ Unregister(c), NEW e \in Conn
    PROVE  /\ Awaits(e, UserOf[c])'
           /\ \A u \in User : u # UserOf[c] => sessions'[u] = sessions[u]
           /\ overlapped[e] \subseteq overlapped'[e]
<1>. USE DEF Base, PresenceTypeOK
<1>1. phase'[c] \in {"replying", "farewell"} /\ c \notin sending'
  BY DEF Register, SetUserSession, Unregister, DeleteUserSession, Advance
<1>2. \A u \in User : u # UserOf[c] => sessions'[u] = sessions[u]
  BY DEF Register, SetUserSession, Unregister, DeleteUserSession
<1>3. overlapped[e] \subseteq overlapped'[e]
  BY DEF Register, Unregister, Overlaps
<1>. QED
  BY <1>1, <1>2, <1>3 DEF Awaits

\* What a notice says is true.
LEMMA NoticeIsTrue ==
    ASSUME Base, NEW c \in Conn, NEW d \in Conn, SendTo(c, d)
    PROVE  phase[c] = "announcing" <=> Registered(UserOf[c])
<1>. USE DEF Base
<1>1. phase[c] \in {"announcing", "farewell"} /\ UserOf[c] \in User
  BY ConnAssumption DEF SendTo, SendersAnnounce
<1>2. CASE phase[c] = "announcing"
  BY <1>2, ConnAssumption DEF EntriesHeld, Holding, Registered
<1>3. CASE phase[c] = "farewell"
  <2>1. ASSUME Registered(UserOf[c]) PROVE FALSE
    <3>. DEFINE w == sessions[UserOf[c]]
    <3>1. w \in Conn /\ UserOf[w] = UserOf[c] /\ phase[w] \in Holding
      BY <1>1, <2>1 DEF EntriesHeld, PresenceTypeOK, Registered
    <3>. QED
      BY <1>3, <3>1 DEF OneAtATime, Holding
  <2>. QED
    BY <1>3, <2>1
<1>. QED
  BY <1>1, <1>2, <1>3

LEMMA NextOthersShown ==
    ASSUME Base, SnapshotsHold, OthersShown, NEW c \in Conn, Step(c)
    PROVE  OthersShown'
<1>. SUFFICES ASSUME NEW e \in Conn, NEW u \in User, Answered(e)', u # UserOf[e],
                     u \notin overlapped'[e], ~Awaits(e, u)'
              PROVE  WillShow(unread'[e], lobbyUsers'[e], e, u) <=> sessions'[u] # NoConn
  BY DEF OthersShown, Right, Registered
<1>1. sessions'[u] = sessions[u] /\ u \notin overlapped[e]
  <2>1. CASE Register(c) \/ Unregister(c)
    BY <2>1, WriteIsAnnounced
  <2>2. CASE ~Register(c) /\ ~Unregister(c)
    BY <2>2, QuietEffect
  <2>. QED
    BY <2>1, <2>2
<1>0. connected[e] /\ connected'[e]
  BY StaysLost DEF Base, Answered
<1>2. CASE e = c /\ Reply(c)
  <2>1. Listing(e)
    BY <1>2 DEF Reply, SendLobbyUsers, Advance, Listing
  <2>. QED
    BY <1>0, <1>1, <1>2, <2>1, AnswerShows DEF SnapshotsHold, Registered
<1>3. CASE SendTo(c, e) /\ u = UserOf[c]
  <2>1. Answered(e)
    BY <1>0, <1>3 DEF SendTo, sessionVars, Answered
  <2>2. phase[c] = "announcing" <=> Registered(u)
    BY <1>3, NoticeIsTrue
  <2>. QED
    BY <1>1, <1>3, <2>1, <2>2, NoticeShows DEF Registered
<1>4. CASE ~(e = c /\ Reply(c)) /\ ~(SendTo(c, e) /\ u = UserOf[c])
  <2>1. /\ Answered(e)
        /\ WillShow(unread'[e], lobbyUsers'[e], e, u) <=>
               WillShow(unread[e], lobbyUsers[e], e, u)
    <3>1. CASE SendTo(c, e)
      <4>1. Answered(e)
        BY <1>0, <3>1 DEF SendTo, sessionVars, Answered
      <4>. QED
        BY <1>4, <3>1, <4>1, NoticeShows
    <3>2. CASE e = c /\ Receive(c)
      <4>1. Answered(e)
        BY <1>0, <3>2 DEF Receive, sessionVars, Answered
      <4>. QED
        BY <3>2, <4>1, ReceiveShows
    <3>3. CASE ~SendTo(c, e) /\ ~(e = c /\ Receive(c))
      BY <1>4, <3>3, OthersUntouched
    <3>. QED
      BY <3>1, <3>2, <3>3
  <2>2. ~Awaits(e, u)
    BY <1>4, <2>1, AwaitsStays
  <2>. QED
    BY <1>1, <2>1, <2>2 DEF OthersShown, Right, Registered
<1>. QED
  BY <1>2, <1>3, <1>4

-----------------------------------------------------------------------------

LEMMA NextPresenceInv == PresenceInv /\ [PresenceNext /\ OneAtATime']_presenceVars => PresenceInv'
<1>. SUFFICES ASSUME PresenceInv, [PresenceNext /\ OneAtATime']_presenceVars PROVE PresenceInv'
  OBVIOUS
<1>1. CASE PresenceNext /\ OneAtATime'
  <2>1. PICK c \in Conn : Step(c)
    BY <1>1 DEF PresenceNext, Step
  <2>2. Base /\ SnapshotsHold /\ OwnUserShown /\ OthersShown
    BY DEF PresenceInv
  <2>3. PresenceTypeOK'
    BY <2>1, <2>2, NextTypeOK
  <2>4. EntriesHeld' /\ SendersAnnounce'
    BY <2>1, <2>2, NextEntriesHeld, NextSendersAnnounce
  <2>5. SnapshotsHold'
    BY <2>1, <2>2, NextSnapshotsHold
  <2>6. OwnUserShown'
    BY <2>1, <2>2, NextOwnUserShown
  <2>7. OthersShown'
    BY <2>1, <2>2, NextOthersShown
  <2>. QED
    BY <1>1, <2>3, <2>4, <2>5, <2>6, <2>7 DEF PresenceInv, Base
<1>2. CASE UNCHANGED presenceVars
  BY <1>2 DEF presenceVars, sessionVars, messageVars, PresenceInv, Base, PresenceTypeOK, OneAtATime,
     EntriesHeld, SendersAnnounce, SnapshotsHold, OwnUserShown, OthersShown, Right,
     Answered, Awaits, Listing, Registered
<1>. QED
  BY <1>1, <1>2

LEMMA PresenceInvariance == OneAtATimeSpec => []PresenceInv
BY InitPresenceInv, NextPresenceInv, PTL DEF OneAtATimeSpec

\* A backend that has read everything lists exactly who is registered, except
\* perhaps users who came or went while it was being answered, provided that
\* a user's websockets come one after the other (multiplayer.go
\* SetPlayerConnected and SetPlayerDisconnected, lobby_event_handler.go).
THEOREM Synchronised == OneAtATimeSpec => []SynchronisedButForOverlaps
<1>1. PresenceInv => SynchronisedButForOverlaps
  <2>. SUFFICES ASSUME PresenceInv, NEW c \in Conn, NEW u \in User, Caught(c),
                       u \notin overlapped[c]
                PROVE  u \in lobbyUsers[c] <=> Registered(u)
    BY DEF SynchronisedButForOverlaps
  <2>1. WillShow(unread[c], lobbyUsers[c], c, u) <=> u \in lobbyUsers[c]
    BY NothingUnread DEF Caught
  <2>2. CASE u = UserOf[c]
    <3>1. sessions[u] = c
      BY <2>2 DEF Caught, PresenceInv, Base, EntriesHeld, Holding
    <3>. QED
      BY <2>1, <2>2, <3>1, ConnAssumption
      DEF Caught, PresenceInv, OwnUserShown, Answered, Registered
  <2>3. CASE u # UserOf[c]
    BY <2>1, <2>3 DEF Caught, PresenceInv, OthersShown, Right, Answered, Awaits
  <2>. QED
    BY <2>2, <2>3
<1>. QED
  BY <1>1, PresenceInvariance, PTL

=============================================================================
