# Gladiator: a verification project

Gladiator lets an old LAN game be played over the internet. A *console* (the
server) keeps a lobby and game rooms and relays traffic; a *backend* runs beside
each player's game, speaks the game's own protocol to it, and makes the other
players look like hosts of a LAN. This directory models the parts of the program
in which several goroutines, websockets and connections meet, checks the models
with TLC and proves theorems about them with TLAPS.

Paths below are relative to `src/internal` unless they begin with `src/`.

## 1. Inventory

### Console (the server)

| Component | State | Operations | What makes it correct |
|---|---|---|---|
| Sessions (`console/multiplayer.go`, `session.go`, `lobby.go`) | `Multiplayer.sessions`: user ID to `UserSession`, under `sessionMutex`; per websocket one goroutine | `HandleHello`, `HandleJoinLobby`, `SetPlayerConnected` (`listSessions`, `AddUserSession`, `LobbyUsers`, broadcast), read loop, `SetPlayerDisconnected` (`LeaveRoom`, relay `leaveRoom`, `DeleteUserSession`, broadcast) | no entry for a dead session; a connected user has an entry |
| Game rooms (`console/multiplayer.go`, `game.go`) | `Multiplayer.Rooms` under `roomsMutex`, `UserSession.GameID`, `JoinedAt` | `CreateRoom`, `JoinRoom`, `LeaveRoom` with `GetNextHost`, `SetRoomReady` | every room has a host who is in it; sessions leave what they entered; migration in the promised order |
| Presence (`console/multiplayer.go`; `backend/lobby_event_handler.go`, `bsession/session_state.go`) | messages on the websockets; `SessionState.lobbyUsers` of each backend | `LobbyUsers`, `JoinLobby`, `LeaveLobby` messages and their handlers | a backend that has read everything lists who is registered |
| Relay server (`console/relay_server.go`, `relay.go`) | `rooms`, `Room.Peers`, `peerToRoomIDs` under one mutex; channel `Events` | `handshake`, `joinRoom`, `relayLoop`, `leaveRoom`; `sendTo`, `broadcastFrom` | index, rooms and events agree; peers learn of each other; nothing is left behind; nobody waits for ever |
| Shutdown (`console/console.go`, `Multiplayer.Run`, `Reset`, `Relay.Stop`) | cancelled contexts, closed channels | stop while sessions and links are active | no send on a closed channel, everything ends |
| Users, characters, ranking (`console/user.go`, `character.go`, `ranking.go`, `database/`) | SQLite tables | RPC services | what is read is what was stored last |

### Backend (beside each game)

| Component | State | Operations | What makes it correct |
|---|---|---|---|
| Backend sessions (`backend/backend.go`, `dispatcher.go`, `session_manager.go`, `bsession/`, `command_*.go`) | `ConnectedSessions`, the fields of `Session`, `listener` | accept, handshake, login, character commands, observer, `CloseSession`, `Shutdown` | nothing of an ended session stays; what is stored comes back |
| Game commands (`command_028`, `_034`, `_069`; `console/game.go`) | the handler's local copies of the room | `CreateGame`, `SelectGame`, `JoinGame` | what a proxy is told fits the room |
| Relay client (`backend/redirect/host_manager.go`, `backend/proxy/relay/`) | `Hosts`, `PeerHosts`, `PeerIPs`, `IPToPeerID`; `roomID`, `currentHostID`, the QUIC stream | `AssignIP`, `StartHost`, `StartGuest`, `SetHost`, `StopHost`, `RemoveByRemoteID`, `Reset`; host migration, dynamic joiners | the four maps agree; one IP, one peer; a departed peer leaves no host |
| Peer-to-peer proxy (`backend/proxy/p2p/`) | `Game.Peers`, `Host`, the ring of IPs, WebRTC connections | offers, answers, candidates, departures, migration | the peers are the players; IPs are not shared; guests get connected |
| LAN proxy (`backend/proxy/direct/`) | the room and its players | create, join, leave, migrate | the proxy's room is the console's |
| Redirects (`backend/redirect/`, `PipeRouter`) | listeners, connections, goroutines | accept, dial, forward, close, probe | what is stopped ends; what is accepted is served |
| Packet framing (`backend/packet/`) | none | `Split`, `EncodePacket` | splits what was encoded |
| Launcher (`app/ui/controller.go`, `src/probe/probe.go`) | `Console`, `Backend`, `Probe.Health`, two channels, two bindings | start, stop, `Check`, `Signal`, `StopStartupProbe` | buttons return; labels tell what runs |

The rest is wire and data formats, the remaining game commands (one request to one
RPC each), SQL, the command line, the GUI, developer tools and generated code; see
"Not modelled".

### How they interact

A backend opens one websocket per session to the console and calls its services by
RPC. `CreateGame` and `JoinGame` change rooms in goroutines of their own, naming a
user ID; the read loop of the websocket feeds `Multiplayer.Messages`, which the one
goroutine of `Run` drains. In relay mode the backend also opens a QUIC connection
per game; the relay server looks the user up in `Multiplayer.sessions` in its
handshake, and `SetPlayerDisconnected` calls the relay's `leaveRoom` with the
session's `GameID`. The console tells backends of joins, departures and new hosts
over their websockets; the relay server tells peers of a new peer over QUIC.

### What is hard

* Check and act in separate critical sections: `AddUserSession`, `SetPlayerConnected`,
  `handshake` before `joinRoom`, `LeaveRoom` before `DeleteUserSession`.
* Keys that are reused: a user ID with several websockets or relay links, a game ID
  opened again after its room closed.
* Unbuffered channels used while a mutex is held (`Events`), or closed while in use
  (`Messages`, `Events`).
* Writes that fail: `Send` gives a session up for good while it stays registered, and
  one context of three seconds serves a whole broadcast.
* Critical sections without a mutex: `StopHost` and `StopAll` go through four maps
  line by line while others assign addresses and start hosts.
* Departure by the wrong name: `GameID`, `peerToRoomIDs`, `IPToPeerID` are each one
  value per user where the user may have been in several places.
* Host migration in the backends, which tears down and rebuilds what departures,
  joins and probes are using.

PROJECT.json lists every hazard at its line, with the properties that watch it.

## 2. Modules

| Module | Models | Built on |
|---|---|---|
| `Sessions` | one websocket's goroutine as phases; the map of sessions | |
| `Lobby` | the rooms, while the sessions of `Sessions` come and go | `Sessions` |
| `RoomDirectory` | abstract: a room is a set of users with a leader | |
| `HostOrder` | `Lobby` with the times at which players entered rooms | `Lobby` |
| `Presence` | the lobby's messages and the backends' lists | `Sessions` |
| `RelayServer` | links, relay rooms, the index, the events | |
| `RelayClient` | the fake hosts of one backend, their four maps, six kinds of goroutines | |
| `Database` | the two tables and their queries | `CharacterInfo` |
| `CharacterInfo` | a character's 33 numbers and the 56 bytes they travel in | |
| `Accounts` | the services over the tables | `Database` |
| `Backend` | the backend's sessions from accept to close, their account commands, `Shutdown` | `Accounts` |
| `Games` | the three game commands, and what the console writes to players | `RoomDirectory` |
| `LanGames`, `PeerGames` | what the LAN and the peer-to-peer proxy do in those steps | `Games` |
| `Redirects` | the sockets behind one address | |
| `Controller` | the launcher's window, its probes and labels | |
| `LobbyProofs` (also `HostOrder` and `Presence`), `RelayProofs` (`RelayServer`), `RelayClientProofs` (also `Redirects`), `BackendProofs`, `LanGamesProofs`, `PeerGamesProofs`, `ControllerProofs` | theorems about the module each is named after | |
| `GamesProofs` | lemmas about `Games`: what the console keeps, and whom it tells | |
| `MC...` | constants for TLC | |

Two compositions go through an abstract specification: `Lobby` implements
`RoomDirectory`, and `Games`, with its two proxies, is built on `RoomDirectory`
in its place.

### Sessions and Lobby

A `Conn` is a `UserSession` object, `UserOf` its user ID; several may share one, as
`HandleWebSocket` refuses nobody. `phase` says which step of `HandleSession` comes
next; a step is a critical section of one of the helpers that take `sessionMutex`,
so that `FindUserSession` and `SetUserSession` are two steps, as they are in
`AddUserSession`. `Lobby` adds `Multiplayer.Rooms` (`rooms`), `gameID`, `joinedAt`.
`CreateRoom`, `JoinRoom`, `LeaveRoom` and `SetRoomReady` hold `roomsMutex`
throughout and are one action each. `JoinedAt` comes from a clock (`now`) that two
calls may read alike or one tick apart; `NextHosts` is the set of sessions
`GetNextHost` may return, since the iteration of a map breaks ties. `inbox` is the
message `Run` has taken from the unbuffered `Messages`.

`Lobby` implements `RoomDirectory` (property `ImplementsDirectory`): members are the
keys of `Players`, the leader is the host's user.

### Presence

`SetPlayerConnected` and `SetPlayerDisconnected` with their messages. A websocket
(`unread`) keeps the order of what is written to it; `BroadcastMessage` holds the
read lock while it writes to one session after another (`sending`, `todo`), so
registrations wait for broadcasts and single messages do not. `Written` is `Send`:
a message is dropped once `Connected` (`connected`) is FALSE, arrives, or fails, which
sets `connected` to FALSE while the session stays registered; any write may fail, as the
three seconds of a broadcast may be used up by the sessions before it. Writes of other
messages are `OtherWriteFails`. `Handled` is `LobbyEventHandler.Handle`. `overlapped` is a history variable: whom others saw
added or deleted while a session was between `listSessions` and its `LobbyUsers`.
Whether a name stands twice in a backend's list is not kept.

### RelayServer

A `Link` is one QUIC connection with its goroutine. `JoinRoom` and `LeaveRoom` hold
the mutex while they send on `Events`; the events still to be sent are in `events`,
and while there are any nobody else can take the mutex (`Unlocked`). `told` records
the join notices written to each link. `seen` is a history variable: the rooms as
the events received so far tell them (the receiver itself does nothing with an
event yet). `PlayerDisconnected(u, r)` is the lobby's call of `leaveRoom`; `r` is
any room or none, since `GameID` and the relay's room may differ.

### RelayClient

One backend in one relay game. `hosts`, `peerHosts`, `peerIPs` and `ipToPeer` are the
maps of `HostManager`; `running` are the fake hosts that really run. A function
that holds `HostManager.mu` is one action. `StopAll`, and the `StopHost` of `StopAll`,
of a migration and of a probe, hold no `HostManager.mu`: they are one action per line,
the look-up of the remote ID and each of the deletions, and everybody else's steps come
in between (`stops`, one entry for the caller that holds `PacketRouter.mu` and one
for the observer). `Reset` is a call that goes on under `PacketRouter.mu` (`router`),
whoever makes it: a command, or one of the two watchers of a host (`watchers`), the ping
to the relay server and the probe of the game server, which may do so in the middle of
`SelectGame` or `Join`. The lobby and the relay server may send anything at any time.
`mishaps` records what the maps do not survive: a `dynamicJoin` that outlives a `Reset`
(`straggler`), a host started or recorded after its address was given back (`late
start`), and somebody else's step that changes, between two lines of an unlocked
`StopHost` or `StopAll`, an entry these lines look up or delete (`unlocked`, by
`Disturbs`). A step in between that touches none of its entries is no mishap. A host
migration is `late start`: it stops the fake hosts, which deletes their `PeerIPs` and
`IPToPeerID`, and restarts them with `StartGuest` or `StartHost`, which restore neither.
Two goroutines that write one Go map at the same time may also end the program
("concurrent map writes"); the model describes the executions in which they do not.

### Database, Accounts, Backend

`Database` has one operator per query; a character's row has its 33 numbers, and
`CharacterInfo` says at which of the 56 bytes each is read and written, in the two tables
the program keeps by hand. `Backend` runs the commands of each connection one at a
time (`stage`, `answer`); a service call may fail before or after its commit,
since the client gives up after five seconds. A login is the call, the websocket
(`ConnectToLobby`) and `SetLogonData`, with the connection free to break in between.
`Listen` reads `listener` twice and `Shutdown` clears it: `Crashed` is the nil
dereference in between. Two history variables: `stored`, the bytes that were committed
last under a user and name, those of a repeated `CreateCharacter` included, and
`repeated`, the names whose last commit was such a repetition, which adds a second row
that no read sees.

### Games, LanGames, PeerGames

A handler is cut where others can run: at each call of the console, and inside
the console where a mutex is released before `Players` is read. `Hearing` is whom a
message reaches: `Send` drops what is for a session to which a write has failed
(`SendFails`), which stays registered and in its room all the same. `LanGames` keeps
the proxy's `GameRoom` and the host the game was told of, and `doubts`, the places
where a race of the code has spoilt them (a player who came or went, or a host
who changed, between looking and joining; `HostMigration` after which the old
host was kept). `PeerGames` keeps the peers, their addresses
and the host, with the proxy as the backend makes it. `taken` counts the calls of `NextAddr`; above `RingSize`, where the ring has
wrapped, only its place counts (`Turned`). `raced` records a race: a room that changes
between looking and joining or while another joins, a room joined that is not the
one looked at, a departure read of somebody whom the console lists again, a host
read before its joining or after the game has left. From then on nothing is claimed
of the game.

There is no signalling in `PeerGames`, since no program gets to it. To a guest,
`NewTCPRedirect` and `NewUDPRedirect` both listen on the UDP port of the guest's address
(`backend/redirect/redirect.go:92` and `:118`), so that the second fails,
`handleJoinRoom` returns the error before an offer is sent, and the observer loop ends:
the host is deaf from its first guest on (run `peer_guests`). The tools under `src/cmd` put
other constructors into the proxy, but its handler has copied the first ones
(`p2p.go:62-69`). That handler has also copied the user ID, which is 0 until login, so
that it would drop every offer, answer and candidate sent to its user. What is left is
what a session knows until it is told of a guest it has not met when it looked.

### Redirects

The pair of proxies behind one address, in the four combinations that
`NewTCPRedirect`, `NewUDPRedirect` and `HostManager` make: each proxy has its socket
(`socket`, `conn`, `backlog`, `accepted`) and its goroutine (`run`), and they share a
context. `Close` of `ListenerTCP` may come from the watcher, from `StopHost` and
from the probe while `Accept` returns. `late` counts what a proxy forwards after the
context has ended.

### Controller

All buttons run on the window's goroutine, so `window` is one program counter with
the calls of `Signal` in which it may block. Each start leaves a goroutine that
receives from the probe's channel and never ends. `mishaps` names what the code
does not prevent: the health check gave up (`gave up`), it was answered by another
program at the same address (`foreign`), a goroutine of a start ran after its stop
(`early`), a signal of an earlier start came after a later one (`late`), signals
of two senders or receivers met (`overtaken`), and a backend was shut down while its
`Listen` was between `listener == nil` and `listener.Accept()` (`between`, after
`FindListener`), which panics.

## 3. Runs

| Run | Constants | Shows |
|---|---|---|
| `lobby_reconnect` | 2 users, 3 websockets (two of one user), 2 rooms | rooms, sessions and `GameID` stay consistent (`RoomsConsistent`, `InCurrentRoom`, `RegisteredIsAlive`, `SoleSessionListed`, `OnlyOwnDeparture`), and the rooms implement `RoomDirectory` |
| `hostorder` | 3 users, 2 rooms, times 0..1, all in the lobby from the start | the next host entered first among those who have entered no other room since |
| `relay_rooms` | 2 users, 3 links (two of one user), 2 rooms | index, rooms, introductions, events and ownership of places agree; broken links end |
| `presence_overlap` | 2 users, one reconnects, any write may fail | backends to which no write has failed are wrong at most about overlapping users |
| `relay_client_maps` | 2 other players, 2 addresses, 3 events (resets by a watcher, join notices, departures, migrations), 1 probe | address maps are inverse unless a join outlives a reset or somebody comes between the lines of an unlocked stop; host maps agree until a mishap; departures stop nobody else |
| `backend_accounts` | 2 connections, 2 user names, one character name, 4 commits | a character is read, byte for byte, as it was committed last, whatever answers are lost, unless that was to create it once more |
| `backend_sessions` | 2 connections, one shutdown | sessions that end leave nothing behind; `Shutdown` closes all it found |
| `lan_games` | 3 users, 2 rooms, 5 commands, 2 departures, 1 failed write | roster and host of each proxy are the console's unless a named race hit them |
| `peer_games` | 3 users, 1 room, 5 commands, 2 departures, 1 failed write, a ring of 2 | before a race: peers are players, no address is shared, and nothing but the news of a guest makes a session deaf |
| `peer_guests` | the same | violated: a host goes deaf when it is told of its first guest |
| `redirects` | 2 connections of the game and the probe | pairs end together, stopping ends all, one late message at most, waiting only for another |
| `controller` | 2 starts, of one kind or of each | buttons return, panics and wrong labels have a named cause |

Each module has a type invariant, `TypeOK`. The runs of `Lobby`, `RelayServer` and
`RelayClient` check it, where it says that what is looked up is there; in the other
modules it holds as well and was left out of the runs.

### What the code does against its words

* "Add user to the list of connected players": when the first of two websockets of
  a user ends, the second is served without an entry (`RegisteredIsAlive` has no
  converse; `SoleSessionListed` is it for users with one websocket).
* "Kick the user from the game room (if any)": a session that entered two rooms
  stays listed in the first, and a game call between `LeaveRoom` and
  `DeleteUserSession` lists a session for ever (`InCurrentRoom` speaks of the current
  room and of live sessions only).
* "Room should be deleted" (`TestRelayServer_LeaveRoom_RemovesPeerAndRoom`): with
  overlapping links of a user the later `leaveRoom` returns early and leaves a peer
  whose goroutine is gone (`IndexedIsMember` has no converse).
* "... then join and synchronise the state": users who come or go meanwhile are
  missed or stay, and who was not written to in time misses everything from then on
  (`SynchronisedButForOverlaps` excepts both).
* "Find the player who joined the room earliest" (`GetNextHost`) is true only in the
  form of `EarliestStayingPlayerHosts`, since `JoinedAt` belongs to the session and
  not to its place in a room.
* "SetRoomReady notifies the LobbyRoom that it can start accepting players", while
  `JoinRoom` never reads `Ready`.
* After a host migration the addresses of the other players are gone from
  `PeerIPs` (the mishap `late start` of `RelayClient`).
* "createDataChannels initializes WebRTC data channels for TCP and UDP", and for a guest
  it cannot (`GuestsAreConnected`, the one run that is expected to be violated, and the
  finding in PROJECT.json).
* `Listen` panics when `Shutdown` clears its listener between the two reads
  (`OnlyMishapsPanic`, mishap `between`).
* `StopConsole` panics once the probe has given up: it sends on a channel that the
  probe's goroutine has closed (`OnlyMishapsPanic`).

### Bounds

* Two websockets or links of one user and one of another are what the hazards need:
  an old one, its successor, and somebody to observe or to migrate to. The
  properties of `Presence` and `PairsAreIntroduced` speak of two users at a time.
* Two rooms let a user move and a late departure name the wrong one.
* `MaxTicks` bounds the clock of `JoinedAt`; with 0 all times are equal, so ties are
  broken in every way, which for the run without an order on time is the most
  general case. `hostorder` has two times: a comparison the wrong way round shows
  with two joins.
* `hostorder` starts with all users in the lobby and ignores `SetRoomReady`,
  which the choice of a host never reads (constraint `NoReadyMessage`).
* In these modules nothing else is bounded: the state spaces are finite because
  websockets and links are used once.
* `relay_client_maps`: an address that is given back and out again, to the same or to
  another player, needs two of each. `MaxEvents` bounds the resets by watchers, join
  notices, departures and migrations: of a migration, a departure and a join each may
  come between the lines of the other. The constraint `Few` keeps one probe, and ends an
  execution in which two kinds of mishap have met, and, at the last event, one after
  which both invariants have nothing left to say.
* `backend_accounts`: two rows hold two of one name, which is what a repeated
  `CreateCharacter` makes, or one of each of two users;
  `MaxWrites` allows creating twice, storing and deleting. The two vectors of 56
  bytes of `MCStats` have no byte in common and no two bytes alike, so that a number kept
  or written at a wrong place shows.
* `lan_games`, `peer_games`: three users are a host, who may leave, a successor and a
  witness. Five commands let all three look and join, or a player leave and
  return; one write fails; `RingSize` 2 wraps with the third peer, which the program's 3 does with
  the fourth.
* `redirects`: a connection of the game, a second one that dials while the first is
  served, and the probe.
* `controller`: two starts of a kind are what two receivers, two probes and a stale
  goroutine need.

Deadlock is checked in the run of `RelayServer` only. The other models may stop:
when all websockets are closed, when the bounded commands are used up, when
everything behind an address has ended, and when the program has crashed.

### Fairness

Four runs assume any, always weak fairness of single goroutines: the Go scheduler
runs every runnable goroutine. Users, games, clients and networks are never
assumed to do anything.

`relay_rooms` (`FairSpec`): the receiver of
`Events`, a goroutine that does nothing else and never blocks, and of each link's
goroutine for the steps it can take alone (fail the handshake or the read of a
closed stream, join, leave). The mutex is handed to waiters that starve, which is
why weak fairness for a step that waits for the mutex is enough: it is free again
whenever the events have been taken.

`backend_sessions`: the goroutines of a session whose connection is closed, the one
that closes its websocket and its observer. A service call ends, by its timeout
of five seconds.

`redirects`: the loops, whose reads have deadlines, the watcher of the context, the
callers of `StopHost` and the probe, whose read has a deadline too.

`controller`: the window's goroutine, those of the starts and the probe, whose
startup phase ends after ten seconds. A healthy console need not fail.

## 4. Theorems

All hold for every number of users, websockets, links, rooms, addresses, starts,
ticks, lobby events and failed writes. The assumptions on the constants only give them their types
and say that "none" is not one of the things it stands against.

`LobbyProofs`, from `ConnAssumption` and `RoomAssumption` (`Synchronised` from the first
alone):

* `TypeCorrect`: `TypeOK`; its core is that `NextHosts` is never empty when a host
  leaves others behind.
* `SessionsAreAlive`, `SoleSessionIsListed`: `RegisteredIsAlive` and
  `SoleSessionListed`. Each is inductive given types (`RegistryInvariance`).
* `RoomsAreConsistent`, `CurrentRoomLists`: `RoomsConsistent` and `InCurrentRoom`.
  Neither is inductive alone. That a leaving session takes out its own entry and
  not another's needs `InCurrentRoom`; that it stays listed needs the key of each
  entry to be its user (`RoomsConsistent`); and that only living sessions enter
  rooms needs `RegisteredIsAlive`. Their conjunction with `TypeOK` is `IInv`.
* `LobbyImplementsDirectory`: every step of `Lobby` is a step of `RoomDirectory` or
  changes nothing there, from `IInv`.
* `DeparturesAreOwn`: `OnlyOwnDeparture`, from the same.

* `EarliestBecomesHost`: the action property `EarliestStayingPlayerHosts` of `HostOrder`,
  whose `OrderSpec` implies `Spec`. What
  `GetNextHost` compares, `JoinedAt`, is the session's and not its place's; the
  invariant `JoinedAtIsEntry` says where it is the time of the place all the same: for
  a player who has entered no other room since and is not the host, as `CreateRoom`
  leaves `JoinedAt` alone. That it survives a departure needs the host who leaves to
  be nobody else's entry, which is `RoomsConsistent`.

* `Synchronised`: `SynchronisedButForOverlaps`, under `OneAtATimeSpec`, whichever writes
  fail. `WillShow` is
  what a backend's list will say of a user once everything in its inbox is read: what
  the last message about the user says. `Unread` and `Reading` say how appending to
  and taking from the inbox change it. The invariant `OthersShown` is that `WillShow`
  is right about everybody who has not overlapped and about whom no broadcast is on
  its way (`Awaits`). It claims nothing of a session to which a write has failed. That a
  broadcast reaches every other backend already answered and tells the truth needs the
  map to hold exactly the sessions between their registration and their end
  (`EntriesHeld`), which overlapping websockets of one user would break.

`RelayProofs`, from `LinkAssumption`:

* `TypeCorrect`, `IndexIsRight`, `RoomsAreInhabited`, `PeersAreIntroduced`,
  `EventsAreComplete`: the invariants of `relay_rooms`. The inductive invariant
  `IInv` adds `HasRoom` (a link past its handshake has a room), `Joined` (an entry
  in a room is a link of that user that joined that room) and `Outstanding` (what
  the events still to be sent will do to the picture of the rooms: the invariant
  about the events is only about moments when there are none).
* `PlacesAreOwn`: the action property `OwnPlaceOnly`.

`RelayClientProofs`, from the assumption of `RelayClient`:

* `TypeCorrect`: `TypeOK`, strengthened by `Types`: whoever is about to start a fake
  host has a peer and an address for it.
* `AddressesAreInverse`: `AddressesAgree`. Three things are under way at times: a
  `dynamicJoin` between `AssignIP` and `SetHost`, which writes the address once more
  (`Reserved`), a stop between its look-up and its last line
  (`StopFits`: what it has looked up is still so, as far as it has not deleted it), and
  `StopAll` between its new maps. Apart from these, `Led`, `Known` and `Alone` say that an
  address leads to the peer that has it and to one peer only. A reserved address
  cannot be given to another peer meanwhile, since the only other caller of `AssignIP` is
  `SelectGame`, which closes the stream first and so ends the loop that joins
  (`NoLoopMeanwhile`); a `dynamicJoin` that outlives this, and a step of somebody else on
  a stop's own entries, are the mishaps the property names.
* `FakeHostsAgree`, `DepartureStopsOwnHost`: `HostsAgree` and `OwnHostOnly`. The
  three maps that record a host are written one critical section after another, and
  the host's own goroutine may end in between; a stop takes it out of them one line after
  another. `HostsOK` says of every host, started
  or stopped, which of the maps hold it at which step of its start or its stop; `StartedHost`
  that a goroutine which is to record a host recorded that host and no other. Both
  hold while no mishap has happened (`Recorded`).
* Of `Redirects`, `LastMessage`: `AtMostOneLate`, from `LateIsLast`: a proxy that has
  forwarded after the context ended is at the top of its loop, where it looks at the
  context, or has ended.
* `PairsEnd`: `EndsTogether`.

`BackendProofs`, from the assumptions of `Database`, `Accounts` and `Backend`:

* `TypeCorrect`: `TypeOK`, which needs `stage[c] = "login"` to mean that `answer[c]` is
  the ID of a user.
* `RoundTrip`: for any 56 bytes, `ToBytes(ParseCharacterInfo(buf)) = buf`. `FieldRoundTrip`
  is about one number of one, two or four bytes, whichever it is and wherever the two
  tables keep it, and `EveryByte` that the table of writing leaves no byte out.
* `LastStored`: `ReadsSeeLastStored`, from `StoredRight`: a name stands for no row and
  nothing is stored, or the first of its rows has the numbers stored, unless the name is
  in `repeated`. A row that is inserted comes last (`NextIsLarger`), an UPDATE reaches
  every row of the name and keeps the IDs (`Replaces`), and a set of rows has a first one
  (`Least`, by well-founded induction over initial segments of the naturals). That the
  bytes come back is `RoundTrip`.
* `AllClosed`: `ShutdownClosesAll`. A session leaves the map only after its socket is
  closed, and no socket is opened again, so that what `Range` does not meet any more
  is closed as well.

`LanGamesProofs` and `PeerGamesProofs`, from `GamesAssumption` and, the second,
`PeerGamesAssumption`, on the lemmas of `GamesProofs`:

* A proxy learns what the console did from messages, so that its host and its roster may
  differ from the console's as long as something is on its way. `HostIs` and `Roster` say
  what: a host that is not the console's leader has a migration in the inbox, and each
  player the two differ about has a message in the inbox, a farewell still to be
  written, or an announcement that is still to visit this game. For a step of another
  player's handler to keep this, the console has to tell the right ones (`WellTold`),
  and that needs what `Console` collects. A member's `gameID`
  names its room (`Membership`), a room has its leader among its members
  (`Leadership`), whoever is in a room has a websocket (`Presence`), a handler that
  enters a room works on one that it has named (`Handlers`), and the last migration in
  an inbox names the leader (`Informed`). A proxy that reads a message has still to
  fit what is left (`RosterRead`); one whose inbox is empty agrees (`RosterMet`).
* `LanGamesProofs`: `TypeCorrect`, `GameKnowsHost` (`HostTold`) and `RosterIsRight`
  (`RosterAgrees`), for any users, rooms, commands and departures, from `HostOf` and
  `RosterOf`, which say the above of `told` and of `gameRoom`.
* `PeerGamesProofs`: `TypeCorrect`; `PeersAreRight` (`PeersAgree`), the same for the peers
  of a game and its host, where an observer that has ended with an error
  claims nothing any more; `AddressesApart` (`AddressesFree`), from `Apart`: before the
  ring has wrapped no address lies above the number of those given out, so that the
  next is new. It needs the set of users to be finite, since a snapshot is read in some
  order.
* In all of them a player to whom a write has failed is in its room and hears nothing:
  the invariants speak of `Hearing`.

`ControllerProofs`, from `ControllerAssumption`:

* `TypeCorrect`: `TypeOK`.
* `OneConsoleIsProbed`: `OneProber`, from `ConsoleIsLatest` and its kin, by which every
  earlier start has ended its probing before its console is replaced.
* `PanicsAreExplained`: `OnlyMishapsPanic`. A panic is a use of something closed or
  not yet made; `ActiveIsConsole`, `StoppingConsole` and `WindowSignalsBackend` say which
  prober is there to be stopped while the window waits for it, and `EndedGaveUp`
  that one which has ended without being stopped gave up; `FoundInTime`, that a `Listen`
  which has found its listener still has it, unless the mishap `between` is recorded.
* `LabelsTellTheTruth`: `LabelsAgree`. `Flow` follows a health from the prober to the
  label: a code has one holder, and as long as nobody but the prober sends, the codes
  on their way come one after another and the last is the health (`InOrder`). Hence a
  label that differs from its binding is about to be written again. That nobody else
  sends is `ConsoleHealth` and `BackendHealth`: which of the three senders, the start, the
  prober and the stop, may still be at work (`SoleSender`). A channel is the start's own
  (`Fresh`). `Flow` holds while there has been no mishap (`Calm`).

Only model-checked:

* Liveness, which is out of the prover's reach: `BrokenLinksEnd`, `SessionsEnd`, `StopEnds`,
  `WaitsForAnother`, `ButtonsReturn`.
* `OnlyRacesHurt`, an action property of the peer-to-peer proxy.

## 5. Not modelled, and why

* Chat, WebRTC signalling (above) and the packets that the relay, the pipes and the redirects
  carry: they change no state of the program.
* A write that blocks for ever on a stalled client while a mutex is held (`LeaveRoom`,
  `BroadcastMessage`, `sendTo`): a write arrives, is dropped or fails, in one step.
* A data race on a Go map may crash the program (`AnnounceJoin`, `GetGame`,
  `JoinGame` and `ListGames` read `Players` without the mutex, and `StopHost` deletes from the
  maps of `HostManager`). `Games` cuts the
  handlers there and describes the executions that do not crash.
* `Multiplayer.Reset` while sessions are served and `Relay.Stop` while links send: the
  server that has both stops only as its process ends.
* What a removed peer-to-peer peer leaves open (`GameManager.RemovePeer` closes neither
  its connection nor its proxies).
* The `leave` packets the receive loop of the relay client would handle: the relay server
  sends none to a peer.
* The nil return of `ListenerTCP.Run` on `io.ErrClosedPipe` (`listener_tcp.go:133`), which a
  TCP connection never gives.
* Packet framing: pure functions on bytes; the models pass whole requests and
  answers. So are the inventory's and the style's encodings.
* Operations nothing calls: `RemoveByIP`, `CleanupInactive`, `cleanupPeers`, the TCP
  and UDP health checkers, `GetUser`.
* SQL, HTTP routing, certificates, metrics, pages of the GUI, the command line,
  registry patches, the TURN server, developer tools, generated code.

## 6. What is left

1. `Console`: `Lobby` composed with `RelayServer` (`online` is the set of registered
   users, `PlayerDisconnected` the step `LeaveRelay` with `gameID`): in which
   executions the two agree on who is in a room.
2. The mutexes with a stalled client: who waits for whom.
3. Packet framing over short buffers.
