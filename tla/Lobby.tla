-------------------------------- MODULE Lobby --------------------------------
(***************************************************************************)
(* The game rooms of the console (console/multiplayer.go): who is in which *)
(* room and who hosts it, while websockets come and go.                    *)
(*                                                                         *)
(* Rooms change through the calls of the game service (CreateGame,         *)
(* JoinGame), which name a user ID and run in goroutines of their own,     *)
(* through the SetRoomReady messages that the single goroutine of          *)
(* Multiplayer.Run handles, and through LeaveRoom, which only              *)
(* SetPlayerDisconnected calls.  Each of them holds roomsMutex from start  *)
(* to end, so each is one action; what a session goes through before and   *)
(* after LeaveRoom is the module Sessions.                                 *)
(*                                                                         *)
(* Left out: name, password, map and IP address of a room or player        *)
(* (carried, never tested here) and the messages to the clients, which     *)
(* change no state of the console (module Presence has those of the        *)
(* lobby).                                                                 *)
(***************************************************************************)
EXTENDS Sessions, Naturals

CONSTANTS
    Room,      \* the game IDs a player can type
    NoRoom,    \* no entry under a game ID; an empty UserSession.GameID
    MaxTicks   \* bound on the clock of JoinedAt

VARIABLES
    rooms,     \* Multiplayer.Rooms
    gameID,    \* UserSession.GameID
    joinedAt,  \* UserSession.JoinedAt, 0 the zero time
    now,       \* the last time read by JoinRoom
    inbox      \* the room of the SetRoomReady message Multiplayer.Run has taken

roomVars == <<rooms, gameID, joinedAt, now, inbox>>
vars == <<phase, sessions, rooms, gameID, joinedAt, now, inbox>>

-----------------------------------------------------------------------------

GameRoom == [ready : BOOLEAN, host : Conn, players : [User -> Conn \cup {NoConn}]]

ASSUME RoomAssumption ==
    /\ NoRoom \notin Room
    /\ NoRoom \notin GameRoom
    /\ MaxTicks \in Nat

Ticks == 0..MaxTicks

TypeOK ==
    /\ phase \in [Conn -> Phase]
    /\ sessions \in [User -> Conn \cup {NoConn}]
    /\ rooms \in [Room -> GameRoom \cup {NoRoom}]
    /\ gameID \in [Conn -> Room \cup {NoRoom}]
    /\ joinedAt \in [Conn -> Ticks]
    /\ now \in Ticks
    /\ inbox \in Room \cup {NoRoom}

Open(r) == rooms[r] # NoRoom

\* The keys of GameRoom.Players.
Players(r) == {u \in User : rooms[r].players[u] # NoConn}

HostUser(r) == UserOf[rooms[r].host]

-----------------------------------------------------------------------------

Init ==
    /\ SessionsInit
    /\ rooms = [r \in Room |-> NoRoom]
    /\ gameID = [c \in Conn |-> NoRoom]
    /\ joinedAt = [c \in Conn |-> 0]
    /\ now = 0
    /\ inbox = NoRoom

(***************************************************************************)
(* CreateRoom: the user must have a session and the game ID be free.  It   *)
(* neither leaves the room the session is in nor sets JoinedAt.            *)
(***************************************************************************)
CreateRoom(u, r) ==
    /\ Registered(u)
    /\ ~Open(r)
    /\ rooms' = [rooms EXCEPT ![r] =
                    [ready   |-> FALSE,
                     host    |-> sessions[u],
                     players |-> [v \in User |-> IF v = u THEN sessions[u] ELSE NoConn]]]
    /\ gameID' = [gameID EXCEPT ![sessions[u]] = r]
    /\ UNCHANGED <<phase, sessions, joinedAt, now, inbox>>

(***************************************************************************)
(* JoinRoom: any open room that does not list the user yet, ready or not.  *)
(* Two calls may read the same time, the next may read a later one.        *)
(***************************************************************************)
\* Mutation: the session's fields are written before the check for a player
\* who has already joined.
JoinRoomWritesFirst(u, r) ==
    /\ Registered(u)
    /\ Open(r)
    /\ gameID' = [gameID EXCEPT ![sessions[u]] = r]
    /\ rooms' = IF u \in Players(r) THEN rooms ELSE [rooms EXCEPT ![r].players[u] = sessions[u]]
    /\ UNCHANGED <<phase, sessions, inbox, now, joinedAt>>

JoinRoom(u, r) ==
    /\ Registered(u)
    /\ Open(r)
    /\ u \notin Players(r)
    /\ \E t \in Ticks \cap {now, now + 1} :
        /\ now' = t
        /\ joinedAt' = [joinedAt EXCEPT ![sessions[u]] = t]
    /\ gameID' = [gameID EXCEPT ![sessions[u]] = r]
    /\ rooms' = [rooms EXCEPT ![r].players[u] = sessions[u]]
    /\ UNCHANGED <<phase, sessions, inbox>>

(***************************************************************************)
(* GetNextHost: a session with the least JoinedAt; among equals the order  *)
(* of a map's iteration decides.                                           *)
(***************************************************************************)
\* Mutation: JoinedAt compared the wrong way round.
NextHostsLatest(players) ==
    LET present == {players[u] : u \in User} \ {NoConn}
    IN  {c \in present : \A d \in present : joinedAt[c] >= joinedAt[d]}

NextHosts(players) ==
    LET present == {players[u] : u \in User} \ {NoConn}
    IN  {c \in present : \A d \in present : joinedAt[c] <= joinedAt[d]}

(***************************************************************************)
(* LeaveRoom: the session leaves the room of its GameID, which is the last *)
(* one it entered; the room goes with its last player, and gets a new host *)
(* when the host left.  GameID itself is not reset.                        *)
(***************************************************************************)
WithoutPlayer(r, u) == [rooms[r].players EXCEPT ![u] = NoConn]

\* Mutation: no test for an empty room, so GetNextHost returns nil there.
RemovePlayerNilHost(r, u) ==
    LET hosts == NextHosts(WithoutPlayer(r, u))
    IN  \E h \in IF HostUser(r) # u THEN {rooms[r].host}
                 ELSE IF hosts = {} THEN {NoConn} ELSE hosts :
            rooms' = [rooms EXCEPT ![r].players[u] = NoConn, ![r].host = h]

\* Mutation: the host is not replaced.
RemovePlayerKeepsHost(r, u) ==
    rooms' = IF Players(r) \subseteq {u}
             THEN [rooms EXCEPT ![r] = NoRoom]
             ELSE [rooms EXCEPT ![r].players[u] = NoConn]

\* Mutation: the room goes with its host.
RemovePlayerHostCloses(r, u) ==
    rooms' = IF Players(r) \subseteq {u} \/ HostUser(r) = u
             THEN [rooms EXCEPT ![r] = NoRoom]
             ELSE [rooms EXCEPT ![r].players[u] = NoConn]

\* Mutation: the next host is chosen before the leaving player is deleted.
RemovePlayerChoosesFirst(r, u) ==
    IF Players(r) \subseteq {u}
    THEN rooms' = [rooms EXCEPT ![r] = NoRoom]
    ELSE \E h \in IF HostUser(r) = u THEN NextHosts(rooms[r].players) ELSE {rooms[r].host} :
            rooms' = [rooms EXCEPT ![r].players[u] = NoConn, ![r].host = h]

RemovePlayer(r, u) ==
    IF Players(r) \subseteq {u}
    THEN rooms' = [rooms EXCEPT ![r] = NoRoom]
    ELSE \E h \in IF HostUser(r) = u THEN NextHosts(WithoutPlayer(r, u)) ELSE {rooms[r].host} :
            rooms' = [rooms EXCEPT ![r].players[u] = NoConn, ![r].host = h]

LeaveRoom(c) ==
    /\ LeaveGame(c)
    /\ LET r == gameID[c]
       IN  IF r \in Room /\ rooms[r] # NoRoom
           THEN RemovePlayer(r, UserOf[c])
           ELSE UNCHANGED rooms
    /\ UNCHANGED <<gameID, joinedAt, now, inbox>>

(***************************************************************************)
(* A serving session's SetRoomReady message waits in the unbuffered        *)
(* channel until Run takes it; from then on it is handled whatever becomes *)
(* of its sender.  A backend sends it for a room that GetGame has found.   *)
(***************************************************************************)
EnqueueRoomReady(c, r) ==
    /\ phase[c] = "serving"
    /\ inbox = NoRoom
    /\ Open(r)
    /\ inbox' = r
    /\ UNCHANGED <<phase, sessions, rooms, gameID, joinedAt, now>>

SetRoomReady ==
    /\ inbox # NoRoom
    /\ rooms' = IF Open(inbox) THEN [rooms EXCEPT ![inbox].ready = TRUE] ELSE rooms
    /\ inbox' = NoRoom
    /\ UNCHANGED <<phase, sessions, gameID, joinedAt, now>>

-----------------------------------------------------------------------------

\* The steps of a websocket's goroutine that touch no room.
SessionStep(c) ==
    /\ \/ HandleHello(c)
       \/ HandleJoinLobby(c)
       \/ HandshakeFails(c)
       \/ ListSessions(c)
       \/ FindUserSession(c)
       \/ SetUserSession(c)
       \/ SendLobbyUsers(c)
       \/ BroadcastJoin(c)
       \/ StopServing(c)
       \/ LeaveRelay(c)
       \/ DeleteUserSession(c)
       \/ BroadcastLeave(c)
    /\ UNCHANGED roomVars

Next ==
    \/ \E c \in Conn : SessionStep(c)
    \/ \E c \in Conn : LeaveRoom(c)
    \/ \E u \in User, r \in Room : CreateRoom(u, r)
    \/ \E u \in User, r \in Room : JoinRoom(u, r)
    \/ \E c \in Conn, r \in Room : EnqueueRoomReady(c, r)
    \/ SetRoomReady

Spec == Init /\ [][Next]_vars

-----------------------------------------------------------------------------

\* Every open room has a host and lists that very session, and each key of
\* Players is the user of the session under it: through joins, departures,
\* migrations and users with several websockets no room is left without
\* players or in the hands of somebody who is gone from it.  ListGames,
\* GetGame and LeaveRoom dereference HostPlayer, and LeaveRoom deletes the
\* key session.UserID whichever session is under it.
RoomsConsistent ==
    \A r \in Room : Open(r) =>
        /\ rooms[r].players[HostUser(r)] = rooms[r].host
        /\ \A u \in Players(r) : UserOf[rooms[r].players[u]] = u

\* The sessions whose SetPlayerDisconnected has not yet called LeaveRoom.
Attached(c) == phase[c] \notin {"leavingRelay", "deleting", "farewell", "closed"}

\* The room a live session believes to be in (GameID, what LeaveRoom will
\* use) is open and lists that very session, even when another websocket of
\* the same user enters, leaves or dies, or the game ID is used anew.
InCurrentRoom ==
    \A c \in Conn : Attached(c) /\ gameID[c] # NoRoom =>
        /\ Open(gameID[c])
        /\ rooms[gameID[c]].players[UserOf[c]] = c

\* The map of sessions never keeps a session whose goroutine has already
\* deleted its entry or has returned, although AddUserSession checks and
\* writes in two critical sections and deletes by user ID.
RegisteredIsAlive ==
    \A u \in User : Registered(u) =>
        /\ phase[sessions[u]] \in Holding
        /\ UserOf[sessions[u]] = u

\* A user with a single websocket is in the map from its registration until
\* SetPlayerDisconnected deletes it.
SoleSessionListed ==
    \A c \in Conn :
        /\ \A d \in Conn : UserOf[d] = UserOf[c] => d = c
        /\ phase[c] \in Holding
        => sessions[UserOf[c]] = c

Members(r) == IF Open(r) THEN Players(r) ELSE {}

Leader(r) == IF Open(r) THEN HostUser(r) ELSE NoConn

Directory == INSTANCE RoomDirectory WITH
    Nobody  <- NoConn,
    members <- [r \in Room |-> Members(r)],
    leader  <- [r \in Room |-> Leader(r)]

\* Seen as sets of users with a leader, the rooms behave as RoomDirectory
\* says: hosts change only when they leave, to a player who was there, and
\* rooms close only with their last player.  Host migration, calls racing a
\* disconnect and several websockets of a user add no other behaviour.
ImplementsDirectory == Directory!DirSpec

\* A room is destroyed or loses a player only through a session that is on
\* its way out, has that room as its current one and is the session listed.
Loses(r, u) == Open(r) /\ u \in Players(r) /\ (Open(r)' => u \notin Players(r)')

OwnDeparture(c, r) == phase[c] = "leaving" /\ gameID[c] = r /\ phase'[c] = "leavingRelay"

OnlyOwnDeparture ==
    [][\A r \in Room, u \in User :
        Loses(r, u) => OwnDeparture(rooms[r].players[u], r)]_vars

=============================================================================
