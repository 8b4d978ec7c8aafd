------------------------------- MODULE Backend -------------------------------
(***************************************************************************)
(* The backend (backend/backend.go, dispatcher.go, session_manager.go,     *)
(* bsession/session.go and the commands that concern accounts): it accepts *)
(* the connections of game clients, takes each through the handshake,      *)
(* serves its commands one after the other until one fails, and closes     *)
(* the session.  Shutdown runs beside all of this.                         *)
(*                                                                         *)
(* A call of a service may fail before or after the console has committed  *)
(* it: the client gives up after five seconds.  Commands of games are in   *)
(* module Games; here they are the commands that may fail without having   *)
(* changed anything.                                                       *)
(***************************************************************************)
EXTENDS Accounts

CONSTANTS
    Conn,          \* the connections that game clients make
    NoUser,        \* UserID 0
    InitialUsers,  \* what the users table holds in the beginning
    Class,         \* bound: values of class_type a ranking is asked for
    Stats,         \* bound: what game clients send as a character's numbers
    MaxWrites,     \* bound: how many statements the services commit
    MayShutDown    \* bound: whether Shutdown is called

ASSUME BackendAssumption ==
    /\ NoUser \notin ID
    /\ InitialUsers \subseteq User
    /\ Class \subseteq Byte
    /\ Stats \subseteq Buffer
    /\ NULL \notin Stats
    /\ MaxWrites \in Nat
    /\ MayShutDown \in BOOLEAN

VARIABLES
    stage,      \* where the goroutine is that serves a connection
    socket,     \* gone: the game has hung up; closed: this end is closed
    connectedSessions,
    session,
    answer,     \* handlers that have yet to answer: 1 or 0, success or not
    listener, listening,
    shutdown, toVisit, visited,
    writes,
    stored,     \* history: the stats that were committed last under a name
    repeated    \* history: names whose last commit was to create them again

conns == <<stage, socket, connectedSessions, session, answer>>
stopping == <<listener, listening, shutdown, toVisit, visited>>
history == <<writes, stored, repeated>>
vars == <<tables, conns, stopping, history>>

Stage == {"none", "accepted", "pinged", "greeted", "serving",
          "login", "connected", "answering", "ending", "stopped", "over", "refused"}

Session == [user : ID \cup {NoUser}, characterID : ID \cup {0},
            selected : BOOLEAN, watched : BOOLEAN,
            ws : {"none", "open", "closed"},
            observer : {"none", "running", "ended"}]

NewSession == [user |-> NoUser, characterID |-> 0, selected |-> FALSE,
               watched |-> FALSE, ws |-> "none", observer |-> "none"]

TypeOK ==
    /\ TablesOK
    /\ stage \in [Conn -> Stage]
    /\ socket \in [Conn -> {"none", "open", "gone", "closed"}]
    /\ connectedSessions \subseteq Conn
    /\ session \in [Conn -> Session]
    /\ answer \in [Conn -> ID \cup {0}]
    /\ listener \in {"open", "closed", "nil"}
    /\ listening \in {"check", "call", "accept", "returned", "crashed"}
    /\ shutdown \in {"no", "ranging", "closing", "forgetting", "done"}
    /\ toVisit \subseteq Conn
    /\ visited \subseteq Conn
    /\ writes \in 0..MaxWrites
    /\ stored \in [ID \X CharName -> Stats \cup {NULL}]
    /\ repeated \subseteq ID \X CharName

Init ==
    /\ users = InitialUsers
    /\ characters = {}
    /\ stage = [c \in Conn |-> "none"]
    /\ socket = [c \in Conn |-> "none"]
    /\ connectedSessions = {}
    /\ session = [c \in Conn |-> NewSession]
    /\ answer = [c \in Conn |-> 0]
    /\ listener = "open"
    /\ listening = "check"
    /\ shutdown = "no"
    /\ toVisit = {}
    /\ visited = {}
    /\ writes = 0
    /\ stored = [un \in ID \X CharName |-> NULL]
    /\ repeated = {}

-----------------------------------------------------------------------------
(* Listen: the field is read twice, before Accept and for it. *)

ListenChecks ==
    /\ listening = "check"
    /\ listening' = IF listener = "nil" THEN "returned" ELSE "call"
    /\ UNCHANGED <<tables, conns, listener, shutdown, toVisit, visited, history>>

\* Accept of a field that Shutdown has cleared in between panics.
ListenCalls ==
    /\ listening = "call"
    /\ listening' = IF listener = "nil" THEN "crashed" ELSE "accept"
    /\ UNCHANGED <<tables, conns, listener, shutdown, toVisit, visited, history>>

ListenAccepts(c) ==
    /\ listening = "accept"
    /\ listener = "open"
    /\ stage[c] = "none"
    /\ listening' = "check"
    /\ stage' = [stage EXCEPT ![c] = "accepted"]
    /\ socket' = [socket EXCEPT ![c] = "open"]
    /\ UNCHANGED <<tables, connectedSessions, session, answer, listener,
                   shutdown, toVisit, visited, history>>

\* net.ErrClosed
ListenReturns ==
    /\ listening = "accept"
    /\ listener # "open"
    /\ listening' = "returned"
    /\ UNCHANGED <<tables, conns, listener, shutdown, toVisit, visited, history>>

-----------------------------------------------------------------------------
(* Sockets *)

HangUp(c) ==
    /\ socket[c] = "open"
    /\ socket' = [socket EXCEPT ![c] = "gone"]
    /\ UNCHANGED <<tables, stage, connectedSessions, session, answer, stopping,
                   history>>

Readable(c) == socket[c] = "open"

\* SendToGame succeeds, fails.  What is written to a peer that has hung up may
\* seem to arrive.
Sent(c) == socket[c] # "closed"
NotSent(c) == socket[c] # "open"

GoTo(c, s) ==
    /\ stage' = [stage EXCEPT ![c] = s]
    /\ UNCHANGED <<socket, connectedSessions>>

\* A handler that has written its answer waits for the next command; one that
\* could not write it has failed.
Reply(c) ==
    \/ Sent(c) /\ GoTo(c, "serving")
    \/ NotSent(c) /\ GoTo(c, "ending")

-----------------------------------------------------------------------------
(* handshake: the ping, 255-30, 255-6 *)

\* AddSession
HandlePing(c) ==
    /\ stage[c] = "accepted"
    /\ Readable(c)
    /\ stage' = [stage EXCEPT ![c] = "pinged"]
    /\ connectedSessions' = connectedSessions \cup {c}
    /\ UNCHANGED <<tables, socket, session, answer, stopping, history>>

HandleClientHostAndUsername(c) ==
    /\ stage[c] = "pinged"
    /\ Readable(c)
    /\ GoTo(c, "greeted")
    /\ UNCHANGED <<tables, session, answer, stopping, history>>

HandleAuthorizationHandshake(c) ==
    /\ stage[c] = "greeted"
    /\ Readable(c)
    /\ GoTo(c, "serving")
    /\ UNCHANGED <<tables, session, answer, stopping, history>>

\* A wrong ping, key or version, or a socket that cannot be read or written.
HandshakeFails(c) ==
    /\ stage[c] \in {"accepted", "pinged", "greeted"}
    /\ stage' = [stage EXCEPT ![c] = "refused"]
    /\ socket' = [socket EXCEPT ![c] = "closed"]
    /\ UNCHANGED <<tables, connectedSessions, session, answer, stopping, history>>

-----------------------------------------------------------------------------
(* 255-42 and 255-41 *)

Ready(c) == stage[c] = "serving" /\ Readable(c)

LoggedIn(c) == Ready(c) /\ session[c].user # NoUser

\* A statement is committed; its handler goes on when the answer arrives.
Committed(c, Statement, s) ==
    /\ writes < MaxWrites
    /\ writes' = writes + 1
    /\ Statement
    /\ GoTo(c, s)

HandleCreateNewAccount(c, name, password) ==
    /\ Ready(c)
    /\ \E ok \in {0, 1} :
          /\ Committed(c, CreateUser(name, password), "answering")
          /\ answer' = [answer EXCEPT ![c] = ok]
    /\ UNCHANGED <<session, stopping, stored, repeated>>

\* Bad data, a name that is taken, a call that failed.
HandleCreateNewAccountFails(c) ==
    /\ Ready(c)
    /\ GoTo(c, "answering")
    /\ answer' = [answer EXCEPT ![c] = 0]
    /\ UNCHANGED <<tables, session, stopping, history>>

Answers(c) ==
    /\ stage[c] = "answering"
    /\ Reply(c)
    /\ answer' = [answer EXCEPT ![c] = 0]
    /\ UNCHANGED <<tables, session, stopping, history>>

\* The ID of the user waits in answer.
HandleClientAuthentication(c, name, password) ==
    /\ Ready(c)
    /\ session[c].user = NoUser
    /\ \E id \in AuthenticateUser(name, password) :
          answer' = [answer EXCEPT ![c] = id]
    /\ GoTo(c, "login")
    /\ UNCHANGED <<tables, session, stopping, history>>

HandleClientAuthenticationFails(c) ==
    /\ Ready(c)
    /\ session[c].user = NoUser
    /\ GoTo(c, "answering")
    /\ UNCHANGED <<tables, session, answer, stopping, history>>

\* Mutation: nobody closes the websocket when the session ends.
ConnectOverWebsocketDetached(c) ==
    session' = [session EXCEPT ![c].ws = "open"]

\* watched: a goroutine waits for the session to end and closes the websocket
\* then.
ConnectOverWebsocket(c) ==
    session' = [session EXCEPT ![c].ws = "open", ![c].watched = TRUE]

ConnectToLobby(c) ==
    /\ stage[c] = "login"
    /\ ConnectOverWebsocket(c)
    /\ GoTo(c, "connected")
    /\ UNCHANGED <<tables, answer, stopping, history>>

ConnectToLobbyFails(c) ==
    /\ stage[c] = "login"
    /\ answer' = [answer EXCEPT ![c] = 0]
    /\ Reply(c)
    /\ UNCHANGED <<tables, session, stopping, history>>

SetLogonData(c) ==
    /\ stage[c] = "connected"
    /\ session' = [session EXCEPT ![c].user = answer[c]]
    /\ answer' = [answer EXCEPT ![c] = 0]
    /\ Reply(c)
    /\ UNCHANGED <<tables, stopping, history>>

-----------------------------------------------------------------------------
(* Characters *)

\* 255-60, 255-70, 255-72, and 255-68 once the lobby is joined: the answer
\* changes nothing here, and none is needed when there is nothing to answer
\* with.  A call that fails ends the session.
HandleGetCharacters(c) ==
    /\ LoggedIn(c)
    /\ ListCharacters(session[c].user) # {}
    /\ UNCHANGED vars

HandleShowRanking(c, name, class, offset) ==
    /\ LoggedIn(c)
    /\ GetRanking(session[c].user, name, class, offset) # {}
    /\ UNCHANGED vars

HandleGetCharacterSpells(c, name) ==
    /\ LoggedIn(c)
    /\ GetCharacter(session[c].user, name) # {}
    /\ UNCHANGED vars

\* 255-76
HandleSelectCharacter(c, name) ==
    /\ LoggedIn(c)
    /\ \E found \in GetCharacter(session[c].user, name) :
          session' = [session EXCEPT ![c].characterID = found.id]
    /\ Reply(c)
    /\ UNCHANGED <<tables, answer, stopping, history>>

\* JoinLobby, RegisterNewObserver
InitObserver(c) ==
    /\ ~session[c].selected
    /\ session[c].ws = "open"
    /\ session' = [session EXCEPT ![c].selected = TRUE, ![c].observer = "running"]

\* 255-68, the first of a session
HandleGetCharacterInventory(c) ==
    /\ LoggedIn(c)
    /\ InitObserver(c)
    /\ Reply(c)
    /\ UNCHANGED <<tables, answer, stopping, history>>

\* JoinLobby fails, or is answered with anything but JoinedLobby.
HandleGetCharacterInventoryFails(c) ==
    /\ LoggedIn(c)
    /\ ~session[c].selected
    /\ session' = [session EXCEPT ![c].selected = TRUE]
    /\ GoTo(c, "ending")
    /\ UNCHANGED <<tables, answer, stopping, history>>

\* 255-92: the handler answers whether it went well.
HandleCreateCharacter(c, name, stats) ==
    /\ LoggedIn(c)
    /\ \E ok \in {0, 1} :
          /\ Committed(c, CreateCharacter(session[c].user, name, stats), "answering")
          /\ answer' = [answer EXCEPT ![c] = ok]
    /\ stored' = [stored EXCEPT ![<<session[c].user, name>>] = stats]
    /\ repeated' = IF Named(session[c].user, name) = {} THEN repeated
                   ELSE repeated \cup {<<session[c].user, name>>}
    /\ UNCHANGED <<session, stopping>>

HandleCreateCharacterFails(c) ==
    /\ LoggedIn(c)
    /\ GoTo(c, "answering")
    /\ UNCHANGED <<tables, session, answer, stopping, history>>

\* The handlers below end the session unless they are told of the success.
CommittedOrLost(c, Statement) ==
    \/ Committed(c, Statement, "answering")
    \/ Committed(c, Statement, "ending")

\* 255-108
HandleUpdateCharacterStats(c, name, stats) ==
    /\ LoggedIn(c)
    /\ CommittedOrLost(c, PutStats(session[c].user, name, stats))
    /\ stored' = IF Named(session[c].user, name) = {} THEN stored
                 ELSE [stored EXCEPT ![<<session[c].user, name>>] = stats]
    /\ repeated' = repeated \ {<<session[c].user, name>>}
    /\ UNCHANGED <<session, answer, stopping>>

\* 255-44
HandleUpdateCharacterInventory(c, name, blob) ==
    /\ LoggedIn(c)
    /\ CommittedOrLost(c, PutInventoryCharacter(session[c].user, name, blob))
    /\ UNCHANGED <<session, answer, stopping, stored, repeated>>

\* 255-73
HandleUpdateCharacterSpells(c, name, blob) ==
    /\ LoggedIn(c)
    /\ CommittedOrLost(c, PutSpells(session[c].user, name, blob))
    /\ UNCHANGED <<session, answer, stopping, stored, repeated>>

\* 255-61
HandleDeleteCharacter(c, name) ==
    /\ LoggedIn(c)
    /\ CommittedOrLost(c, DeleteCharacter(session[c].user, name))
    /\ stored' = [stored EXCEPT ![<<session[c].user, name>>] = NULL]
    /\ repeated' = repeated \ {<<session[c].user, name>>}
    /\ UNCHANGED <<session, answer, stopping>>

-----------------------------------------------------------------------------
(* The end of a session *)

\* The socket cannot be read; a command comes before 255-41 or a second 255-41;
\* a service cannot be called, or does not find the character.
CommandFails(c) ==
    /\ stage[c] = "serving"
    /\ GoTo(c, "ending")
    /\ UNCHANGED <<tables, session, answer, stopping, history>>

\* Proxy.Close, StopObserver
StopSession(c) ==
    /\ stage[c] = "ending"
    /\ stage' = [stage EXCEPT ![c] = "stopped"]
    /\ socket' = [socket EXCEPT ![c] = "closed"]
    /\ UNCHANGED <<tables, connectedSessions, session, answer, stopping, history>>

CloseSession(c) ==
    /\ stage[c] = "stopped"
    /\ stage' = [stage EXCEPT ![c] = "over"]
    /\ connectedSessions' = connectedSessions \ {c}
    /\ UNCHANGED <<tables, socket, session, answer, stopping, history>>

\* The goroutine of ConnectOverWebsocket, once the context is cancelled.
WebsocketCloses(c) ==
    /\ session[c].ws = "open"
    /\ session[c].watched
    /\ stage[c] \in {"stopped", "over"}
    /\ session' = [session EXCEPT ![c].ws = "closed"]
    /\ UNCHANGED <<tables, stage, socket, connectedSessions, answer, stopping, history>>

\* The console closes it, or the network.
WebsocketBreaks(c) ==
    /\ session[c].ws = "open"
    /\ session' = [session EXCEPT ![c].ws = "closed"]
    /\ UNCHANGED <<tables, stage, socket, connectedSessions, answer, stopping, history>>

\* The observer cannot read any more.
ObserverEnds(c) ==
    /\ session[c].observer = "running"
    /\ session[c].ws = "closed"
    /\ session' = [session EXCEPT ![c].observer = "ended"]
    /\ UNCHANGED <<tables, stage, socket, connectedSessions, answer, stopping, history>>

\* Proxy.Handle returns an error.
ObserverFails(c) ==
    /\ session[c].observer = "running"
    /\ session[c].ws = "open"
    /\ session' = [session EXCEPT ![c].observer = "ended"]
    /\ UNCHANGED <<tables, stage, socket, connectedSessions, answer, stopping, history>>

-----------------------------------------------------------------------------
(* Shutdown *)

ShutdownBegins ==
    /\ MayShutDown
    /\ shutdown = "no"
    /\ shutdown' = "ranging"
    /\ toVisit' = connectedSessions
    /\ UNCHANGED <<tables, conns, listener, listening, visited, history>>

ShutdownCloses(c) ==
    /\ shutdown = "ranging"
    /\ c \in connectedSessions \ visited
    /\ visited' = visited \cup {c}
    /\ socket' = [socket EXCEPT ![c] = "closed"]
    /\ UNCHANGED <<tables, stage, connectedSessions, session, answer, listener,
                   listening, shutdown, toVisit, history>>

\* Mutation: the function returns false, which stops Range.
RangedFirst == visited # {} \/ connectedSessions = {}

\* Range visits the sessions that are in the map all the while; it may miss
\* those that are stored in the meantime.
Ranged == toVisit \cap connectedSessions \subseteq visited

ShutdownRanged ==
    /\ shutdown = "ranging"
    /\ Ranged
    /\ shutdown' = "closing"
    /\ UNCHANGED <<tables, conns, listener, listening, toVisit, visited, history>>

ShutdownClosesListener ==
    /\ shutdown = "closing"
    /\ shutdown' = "forgetting"
    /\ listener' = "closed"
    /\ UNCHANGED <<tables, conns, listening, toVisit, visited, history>>

ShutdownForgetsListener ==
    /\ shutdown = "forgetting"
    /\ shutdown' = "done"
    /\ listener' = "nil"
    /\ UNCHANGED <<tables, conns, listening, toVisit, visited, history>>

-----------------------------------------------------------------------------

Account(c) ==
    \/ \E name \in UserName, password \in Password :
          \/ HandleCreateNewAccount(c, name, password)
          \/ HandleClientAuthentication(c, name, password)
    \/ HandleCreateNewAccountFails(c)
    \/ Answers(c)
    \/ HandleClientAuthenticationFails(c)
    \/ ConnectToLobby(c)
    \/ ConnectToLobbyFails(c)
    \/ SetLogonData(c)

CharacterCommand(c) ==
    \/ HandleGetCharacters(c)
    \/ HandleGetCharacterInventory(c)
    \/ HandleGetCharacterInventoryFails(c)
    \/ HandleCreateCharacterFails(c)
    \/ \E name \in CharName :
          \/ \E class \in Class, offset \in 0..MaxRows :
                HandleShowRanking(c, name, class, offset)
          \/ HandleGetCharacterSpells(c, name)
          \/ HandleSelectCharacter(c, name)
          \/ HandleDeleteCharacter(c, name)
          \/ \E stats \in Stats :
                \/ HandleCreateCharacter(c, name, stats)
                \/ HandleUpdateCharacterStats(c, name, stats)
          \/ \E blob \in Blob :
                \/ HandleUpdateCharacterInventory(c, name, blob)
                \/ HandleUpdateCharacterSpells(c, name, blob)

Ends(c) ==
    \/ CommandFails(c)
    \/ StopSession(c)
    \/ CloseSession(c)
    \/ WebsocketCloses(c)
    \/ WebsocketBreaks(c)
    \/ ObserverEnds(c)
    \/ ObserverFails(c)

Connection(c) ==
    \/ ListenAccepts(c)
    \/ HangUp(c)
    \/ HandlePing(c)
    \/ HandleClientHostAndUsername(c)
    \/ HandleAuthorizationHandshake(c)
    \/ HandshakeFails(c)
    \/ Account(c)
    \/ CharacterCommand(c)
    \/ Ends(c)
    \/ ShutdownCloses(c)

Crashed == listening = "crashed"

\* A panic ends the process.
Next ==
    /\ ~Crashed
    /\ \/ \E c \in Conn : Connection(c)
       \/ ListenChecks
       \/ ListenCalls
       \/ ListenReturns
       \/ ShutdownBegins
       \/ ShutdownRanged
       \/ ShutdownClosesListener
       \/ ShutdownForgetsListener

Unreadable(c) == ~Readable(c) /\ (CommandFails(c) \/ HandshakeFails(c))

\* Goroutines that need nothing but to be scheduled; calls that come back, be
\* it after their deadline; reads and writes of a socket that is closed.
Progress(c) ==
    /\ ~Crashed
    /\ \/ Unreadable(c)
       \/ Answers(c)
       \/ ConnectToLobby(c)
       \/ ConnectToLobbyFails(c)
       \/ SetLogonData(c)
       \/ StopSession(c)
       \/ CloseSession(c)

Spec ==
    /\ Init
    /\ [][Next]_vars
    /\ \A c \in Conn :
          /\ WF_vars(Progress(c))
          /\ WF_vars(~Crashed /\ WebsocketCloses(c))
          /\ WF_vars(~Crashed /\ ObserverEnds(c))

-----------------------------------------------------------------------------
(* Properties *)

\* Whatever sessions of the same user store at the same time, and although a
\* name may stand for several rows: a character is found exactly when one was
\* created and not deleted since, and GetCharacter sends, byte for byte, the
\* stats that were committed last, unless that was to create it once more
\* (character.go CreateCharacter adds a row, of which FindCharacter sees none).
ReadsSeeLastStored ==
    \A un \in ID \X CharName :
        LET read == {character.stats : character \in GetCharacter(un[1], un[2])}
        IN  /\ read = {} <=> stored[un] = NULL
            /\ un \notin repeated => read = {stored[un]} \ {NULL}

\* Once Shutdown has gone over the sessions, none that was there when it began
\* is still connected, even though sessions end and begin meanwhile.
ShutdownClosesAll ==
    shutdown \notin {"no", "ranging"} =>
        \A c \in toVisit : socket[c] = "closed"

\* When the game hangs up or Shutdown has closed the connection, the session
\* ends and nothing of it stays: no entry in ConnectedSessions, no websocket in
\* the lobby, no observer.  (A handshake that fails leaves the entry.)
SessionsEnd ==
    \A c \in Conn :
        socket[c] \in {"gone", "closed"} ~>
            \/ Crashed
            \/ stage[c] = "refused"
            \/ /\ stage[c] = "over"
               /\ c \notin connectedSessions
               /\ session[c].ws # "open"
               /\ session[c].observer # "running"
=============================================================================
