------------------------------ MODULE Sessions ------------------------------
(***************************************************************************)
(* The life of a console websocket and the console's map of sessions.      *)
(*                                                                         *)
(* Every accepted websocket gets a goroutine that runs                     *)
(* Multiplayer.HandleSession with a fresh UserSession object: two messages *)
(* of handshake, SetPlayerConnected, the read loop and, deferred,          *)
(* SetPlayerDisconnected (console/multiplayer.go).  A Conn is one such     *)
(* UserSession; UserOf gives the user ID of its request.  Several Conns    *)
(* may carry the same user ID: nothing in HandleWebSocket refuses a second *)
(* websocket of a user.                                                    *)
(*                                                                         *)
(* The map mp.sessions is guarded by a mutex that each of its helpers      *)
(* takes and releases by itself, so the steps below are the critical       *)
(* sections of those helpers, and other goroutines run between them.       *)
(* Lobby and Presence extend this module with the rooms and with the       *)
(* messages these steps exchange.                                          *)
(***************************************************************************)

CONSTANTS
    Conn,    \* the UserSession objects, one per accepted websocket
    User,    \* the user IDs
    UserOf,  \* UserSession.UserID: the user each websocket was opened for
    NoConn   \* no entry under a user ID

ASSUME ConnAssumption ==
    /\ UserOf \in [Conn -> User]
    /\ NoConn \notin Conn

VARIABLES
    phase,    \* how far the goroutine of each websocket has come
    sessions  \* Multiplayer.sessions

sessionVars == <<phase, sessions>>

-----------------------------------------------------------------------------

Phase == {
    "accepted",      \* HandleHello waits for the hello
    "greeted",       \* HandleJoinLobby waits for the character
    "listing",       \* SetPlayerConnected is to list the sessions
    "checking",      \* AddUserSession is to look the user up
    "adding",        \* AddUserSession found nobody and is to write the map
    "replying",      \* the LobbyUsers answer is to be sent
    "announcing",    \* the JoinLobby broadcast is to be sent
    "serving",       \* the read loop
    "leaving",       \* SetPlayerDisconnected is to call LeaveRoom
    "leavingRelay",  \* ... then the relay server's leaveRoom
    "deleting",      \* ... then DeleteUserSession
    "farewell",      \* ... then broadcast LeaveLobby
    "closed" }       \* the goroutine has returned

Registered(u) == sessions[u] # NoConn

\* The phases from a possible write of the map up to DeleteUserSession.
Holding == {"replying", "announcing", "serving", "leaving", "leavingRelay", "deleting"}

-----------------------------------------------------------------------------

SessionsInit ==
    /\ phase = [c \in Conn |-> "accepted"]
    /\ sessions = [u \in User |-> NoConn]

Advance(c, from, to) ==
    /\ phase[c] = from
    /\ phase' = [phase EXCEPT ![c] = to]

(***************************************************************************)
(* The handshake.  A read error, a read timeout or a message of another    *)
(* type makes HandleSession return before the deferred cleanup exists.     *)
(***************************************************************************)
HandleHello(c) == Advance(c, "accepted", "greeted") /\ UNCHANGED sessions

HandleJoinLobby(c) == Advance(c, "greeted", "listing") /\ UNCHANGED sessions

HandshakeFails(c) ==
    /\ phase[c] \in {"accepted", "greeted"}
    /\ phase' = [phase EXCEPT ![c] = "closed"]
    /\ UNCHANGED sessions

(***************************************************************************)
(* SetPlayerConnected.  AddUserSession looks the user up under the read    *)
(* lock, and takes the write lock only afterwards.                         *)
(***************************************************************************)
ListSessions(c) == Advance(c, "listing", "checking") /\ UNCHANGED sessions

\* Mutation: the test of AddUserSession inverted.
FindUserSessionInverted(c) ==
    /\ phase[c] = "checking"
    /\ phase' = [phase EXCEPT ![c] = IF Registered(UserOf[c]) THEN "adding" ELSE "replying"]
    /\ UNCHANGED sessions

FindUserSession(c) ==
    /\ phase[c] = "checking"
    /\ phase' = [phase EXCEPT ![c] = IF Registered(UserOf[c]) THEN "replying" ELSE "adding"]
    /\ UNCHANGED sessions

SetUserSession(c) ==
    /\ Advance(c, "adding", "replying")
    /\ sessions' = [sessions EXCEPT ![UserOf[c]] = c]

SendLobbyUsers(c) == Advance(c, "replying", "announcing") /\ UNCHANGED sessions

BroadcastJoin(c) == Advance(c, "announcing", "serving") /\ UNCHANGED sessions

(***************************************************************************)
(* The read loop ends on any read error (a closed or broken websocket, a   *)
(* session marked not Connected by a failed Send) or undecodable message,  *)
(* and the deferred SetPlayerDisconnected runs.                            *)
(***************************************************************************)
StopServing(c) == Advance(c, "serving", "leaving") /\ UNCHANGED sessions

LeaveGame(c) == Advance(c, "leaving", "leavingRelay") /\ UNCHANGED sessions

\* Mutation: SetPlayerDisconnected returns before DeleteUserSession.
LeaveRelayAndReturn(c) == Advance(c, "leavingRelay", "farewell") /\ UNCHANGED sessions

LeaveRelay(c) == Advance(c, "leavingRelay", "deleting") /\ UNCHANGED sessions

\* The entry is deleted by user ID, whichever session it holds.
DeleteUserSession(c) ==
    /\ Advance(c, "deleting", "farewell")
    /\ sessions' = [sessions EXCEPT ![UserOf[c]] = NoConn]

BroadcastLeave(c) == Advance(c, "farewell", "closed") /\ UNCHANGED sessions

=============================================================================
