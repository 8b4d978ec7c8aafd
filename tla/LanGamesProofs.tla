--------------------------- MODULE LanGamesProofs ---------------------------
(***************************************************************************)
(* Proofs about LanGames, for any number of users, rooms, commands and     *)
(* departures.                                                             *)
(***************************************************************************)
EXTENDS LanGames, GamesProofs

(***************************************************************************)
(* The proxy: what it has of its room, its host and whatever nothing has   *)
(* cast doubt on.                                                          *)
(***************************************************************************)

ProxyTypes ==
    /\ gameRoom \in [User -> GameRoom \cup {NoGame}]
    /\ told \in [User -> User \cup {Nobody}]
    /\ doubts \in [User -> SUBSET Doubt]

Follows(u) == u \in Hearing /\ gameRoom[u] # NoGame /\ gameID[u] = gameRoom[u].id

HostOf(u) ==
    /\ IsAt(u, "offline") => gameRoom[u] = NoGame
    /\ IsAt(u, "creating") /\ u \in Hearing /\ gameID[u] = NoRoom => told[u] = u
    /\ Follows(u) /\ "host" \notin doubts[u] => HostIs(u, told[u])

RosterOf(u) ==
    u \in Hearing /\ gameRoom[u] # NoGame /\ "players" \notin doubts[u] =>
        /\ command[u].pc \in {"creating", "joining"} \/ gameID[u] = gameRoom[u].id
               => u \in gameRoom[u].players
        /\ Roster(u, gameRoom[u].players, gameRoom[u].id)

Told(u) == HostOf(u) /\ RosterOf(u)

LanInv == Console(Message) /\ ProxyTypes /\ \A u \in User : Told(u)

LEMMA RoomTypes ==
    ASSUME LanInv, NEW u \in User
    PROVE  /\ gameRoom[u] # NoGame =>
                 /\ gameRoom[u] \in GameRoom /\ gameRoom[u].id \in Room
                 /\ gameRoom[u].id # NoRoom /\ gameRoom[u].players \subseteq User
           /\ HostOf(u) /\ RosterOf(u)
BY GamesAssumption DEF LanInv, ProxyTypes, GameRoom, Told

\* A step that is none of u's proxy, and tells of every change it makes.
LEMMA ToldKept ==
    ASSUME LanInv, NEW u \in User, gameRoom'[u] = gameRoom[u], told'[u] = told[u],
           doubts[u] \subseteq doubts'[u],
           \/ command'[u].pc = command[u].pc
           \/ command'[u].pc \notin {"offline", "creating", "joining"},
           u \in Hearing' => u \in Hearing /\ WellTold(u)
    PROVE  Told(u)'
<1>1. HostOf(u)'
  <2>1. HostOf(u)
    BY RoomTypes
  <2>2. CASE u \in Hearing'
    <3>1. PICK h : h = told[u]
      OBVIOUS
    <3>2. HostIs(u, h) => HostIs(u, h)'
      BY <2>2, HostKept
    <3>3. Follows(u) /\ "host" \notin doubts[u] => HostIs(u, told[u])'
      BY <2>1, <3>1, <3>2 DEF HostOf, HostIs
    <3>. QED
      BY <2>1, <2>2, <3>3 DEF HostOf, IsAt, Follows, WellTold
  <2>3. CASE u \notin Hearing'
    BY <2>1, <2>3 DEF HostOf, IsAt, Follows, Hearing
  <2>. QED
    BY <2>2, <2>3 DEF Hearing
<1>2. RosterOf(u)'
  <2>1. SUFFICES ASSUME u \in Hearing', gameRoom[u] # NoGame, "players" \notin doubts'[u]
                 PROVE  /\ command'[u].pc \in {"creating", "joining"} \/ gameID'[u] = gameRoom[u].id
                               => u \in gameRoom[u].players
                        /\ Roster(u, gameRoom[u].players, gameRoom[u].id)'
    BY DEF RosterOf
  <2>2. /\ command[u].pc \in {"creating", "joining"} \/ gameID[u] = gameRoom[u].id
               => u \in gameRoom[u].players
        /\ Roster(u, gameRoom[u].players, gameRoom[u].id) /\ WellTold(u)
    BY <2>1, RoomTypes DEF RosterOf
  <2>3. PICK P \in SUBSET User, r \in Room : P = gameRoom[u].players /\ r = gameRoom[u].id
    BY <2>1, RoomTypes
  <2>4. Roster(u, P, r)'
    BY <2>2, <2>3, RosterKept
  <2>5. Roster(u, gameRoom[u].players, gameRoom[u].id)'
    BY <2>3, <2>4 DEF Roster
  <2>. QED
    BY <2>2, <2>5 DEF WellTold
<1>. QED
  BY <1>1, <1>2 DEF Told

\* Nothing u's proxy could be told of has happened, to anybody.
LEMMA Unaffected ==
    ASSUME LanInv, NEW u \in User, gameRoom'[u] = gameRoom[u], told'[u] = told[u],
           doubts[u] \subseteq doubts'[u],
           \/ command'[u].pc = command[u].pc
           \/ command'[u].pc \notin {"offline", "creating", "joining"},
           u \in Hearing' => u \in Hearing, inbox'[u] = inbox[u],
           UNCHANGED <<members, leader, gameID, announcing, farewells>>
    PROVE  Told(u)'
BY NothingToTell, ToldKept

LEMMA LanTypes ==
    ASSUME LanInv
    PROVE  /\ command \in [User -> Command] /\ gameID \in [User -> Room \cup {NoRoom}]
           /\ members \in [Room -> SUBSET User] /\ leader \in [Room -> User \cup {Nobody}]
           /\ announcing \subseteq Announcement
           /\ inbox \in [User -> Seq(Message)]
           /\ gameRoom \in [User -> GameRoom \cup {NoGame}]
           /\ told \in [User -> User \cup {Nobody}]
           /\ doubts \in [User -> SUBSET Doubt]
BY DEF LanInv, Console, GTypes, GamesTypeOK, ProxyTypes

\* Handlers the proxy has no part in.
LEMMA QuietSteps ==
    ASSUME LanInv, NEW u \in User, UNCHANGED proxyVars,
           \/ GetGame(u) \/ JoinFails(u) \/ \E r \in Room : SelectGame(u, r)
    PROVE  ProxyTypes' /\ \A w \in User : Told(w)'
<1>1. /\ UNCHANGED <<members, leader, gameID, announcing, farewells, connected, observing, inbox>>
      /\ UNCHANGED <<gameRoom, told, doubts>>
  BY DEF proxyVars, consoleVars, GetGame, JoinFails, SelectGame, Begin
<1>2. \A w \in User : \/ command'[w].pc = command[w].pc
                      \/ command'[w].pc \notin {"offline", "creating", "joining"}
  <2>1. CASE JoinFails(u)
    BY <2>1, LanTypes, AtIsCommand DEF JoinFails
  <2>2. CASE GetGame(u)
    BY <2>2, LanTypes DEF GetGame, Command
  <2>3. ASSUME NEW r \in Room, SelectGame(u, r)
        PROVE  \A w \in User : command'[w].pc \in {command[w].pc, "reading"}
    <3>. DEFINE c == [At("reading") EXCEPT !.room = r, !.host = leader[r], !.alive = TRUE]
    <3>1. c.pc = "reading"
      BY DEF At
    <3>2. command' = [command EXCEPT ![u] = c]
      BY <2>3 DEF SelectGame, Begin
    <3>. HIDE DEF c
    <3>. QED
      BY <3>1, <3>2, LanTypes
  <2>. QED
    BY <2>1, <2>2, <2>3
<1>. QED
  BY <1>1, <1>2, Unaffected DEF LanInv, ProxyTypes, Hearing

LEMMA LoginTold ==
    ASSUME LanInv, NEW u \in User, Login(u), UNCHANGED proxyVars
    PROVE  ProxyTypes' /\ \A w \in User : Told(w)'
<1>1. /\ UNCHANGED <<members, leader, gameID, announcing, farewells, inbox>>
      /\ UNCHANGED <<gameRoom, told, doubts>>
      /\ connected' = connected \cup {u} /\ observing' = observing \cup {u}
      /\ command' = [command EXCEPT ![u] = At("idle")]
  BY DEF proxyVars, Login
<1>2. ASSUME NEW w \in User, w # u PROVE Told(w)'
  BY <1>1, <1>2, LanTypes, Unaffected DEF Hearing
<1>3. Told(u)'
  <2>1. gameRoom[u] = NoGame
    BY RoomTypes DEF Login, HostOf
  <2>2. command'[u].pc = "idle"
    BY <1>1, LanTypes, AtIsCommand
  <2>. QED
    BY <1>1, <2>1, <2>2 DEF Told, HostOf, RosterOf, Follows, IsAt
<1>. QED
  BY <1>1, <1>2, <1>3 DEF LanInv, ProxyTypes

LEMMA EndTold ==
    ASSUME LanInv, NEW u \in User, LanEndSession(u) \/ LanSelectFails(u)
    PROVE  ProxyTypes' /\ \A w \in User : Told(w)'
<1>1. /\ End(u)
      /\ gameRoom' = [gameRoom EXCEPT ![u] = NoGame]
      /\ told' = [told EXCEPT ![u] = Nobody]
      /\ doubts' = [doubts EXCEPT ![u] = {}]
  BY DEF LanEndSession, EndSession, LanSelectFails, SelectFails
<1>2. /\ UNCHANGED <<members, leader, gameID, announcing, farewells, connected>>
      /\ observing' = observing \ {u}
      /\ inbox' = [inbox EXCEPT ![u] = <<>>]
      /\ command' = [command EXCEPT ![u] = At("offline")]
  BY <1>1 DEF End, consoleVars
<1>3. ASSUME NEW w \in User, w # u PROVE Told(w)'
  BY <1>1, <1>2, <1>3, LanTypes, Unaffected DEF Hearing
<1>4. Told(u)'
  <2>1. gameRoom'[u] = NoGame /\ u \notin observing'
    BY <1>1, <1>2, LanTypes
  <2>. QED
    BY <2>1 DEF Told, HostOf, RosterOf, Follows, Hearing
<1>5. ProxyTypes'
  BY <1>1 DEF LanInv, ProxyTypes, Doubt
<1>. QED
  BY <1>3, <1>4, <1>5

LEMMA CreateGameTold ==
    ASSUME LanInv, NEW u \in User, NEW r \in Room, LanCreateGame(u, r)
    PROVE  ProxyTypes' /\ \A w \in User : Told(w)'
<1>1. /\ gameID[u] \in {r, NoRoom}
      /\ gameRoom' = [gameRoom EXCEPT ![u] = NewGameRoom(r, {u})]
      /\ told' = [told EXCEPT ![u] = u]
      /\ doubts' = [doubts EXCEPT ![u] = IF gameID[u] = r THEN Doubt ELSE {}]
      /\ UNCHANGED <<members, leader, gameID, announcing, farewells, connected, observing, inbox>>
  BY DEF LanCreateGame, CreateGame, Begin, consoleVars
<1>2. command' = [command EXCEPT ![u] = [At("creating") EXCEPT !.room = r]]
  BY DEF LanCreateGame, CreateGame, Begin
<1>3. command'[u].pc = "creating" /\ \A w \in User \ {u} : command'[w] = command[w]
  BY <1>2, LanTypes, AtIsCommand
<1>4. ASSUME NEW w \in User, w # u PROVE Told(w)'
  BY <1>1, <1>3, <1>4, LanTypes, Unaffected DEF Hearing
<1>5. Told(u)'
  <2>1. gameRoom'[u].id = r /\ gameRoom'[u].players = {u} /\ told'[u] = u
    BY <1>1, LanTypes DEF NewGameRoom
  <2>2. CASE gameID[u] = r
    <3>1. "host" \in doubts'[u] /\ "players" \in doubts'[u] /\ gameID'[u] # NoRoom
      BY <1>1, <2>2, LanTypes, GamesAssumption DEF Doubt
    <3>. QED
      BY <1>3, <3>1 DEF Told, HostOf, RosterOf, Follows, IsAt
  <2>3. CASE gameID[u] # r
    BY <1>1, <1>3, <2>1, <2>3 DEF Told, HostOf, RosterOf, Follows, IsAt, HostIs, Roster
  <2>. QED
    BY <2>2, <2>3
<1>6. ProxyTypes'
  BY <1>1 DEF LanInv, ProxyTypes, NewGameRoom, GameRoom
<1>. QED
  BY <1>4, <1>5, <1>6

LEMMA SelectTold ==
    ASSUME LanInv, NEW u \in User, LanSelect(u)
    PROVE  ProxyTypes' /\ \A w \in User : Told(w)'
<1>1. PICK r, players, host : /\ r = command[u].room /\ players = command[u].players
                              /\ host = command[u].host
  OBVIOUS
<1>2. r \in Room /\ players \in SUBSET User /\ host \in User \cup {Nobody}
  BY <1>1, LanTypes DEF LanSelect, Selected, IsAt, Command, LanInv, Console, Handlers, Handler
<1>3. /\ UNCHANGED <<members, leader, gameID, announcing, farewells, connected, observing, inbox>>
      /\ command' = [command EXCEPT ![u] = At("idle")]
  BY DEF LanSelect, Selected, consoleVars
<1>4. /\ gameRoom' = [gameRoom EXCEPT ![u] = NewGameRoom(r, players)]
      /\ told' = [told EXCEPT ![u] = host]
      /\ doubts' = [doubts EXCEPT ![u] = Doubts(players # members[r], host # leader[r])]
  BY <1>1 DEF LanSelect
<1>5. ASSUME NEW w \in User, w # u PROVE Told(w)'
  BY <1>3, <1>4, <1>5, LanTypes, Unaffected DEF Hearing
<1>6. Told(u)'
  <2>1. /\ gameRoom'[u].id = r /\ gameRoom'[u].players = players /\ told'[u] = host
        /\ doubts'[u] = Doubts(players # members[r], host # leader[r])
        /\ command'[u].pc = "idle"
    BY <1>3, <1>4, LanTypes, AtIsCommand DEF NewGameRoom
  <2>2. /\ "players" \notin doubts'[u] => players = members[r]
        /\ "host" \notin doubts'[u] => host = leader[r]
    BY <2>1 DEF Doubts, Doubt
  <2>3. gameID[u] = r => u \in members[r]
    BY <1>2 DEF LanInv, Console, Membership
  <2>4. HostOf(u)'
    BY <1>3, <2>1, <2>2 DEF HostOf, Follows, IsAt, HostIs
  <2>5. RosterOf(u)'
    BY <1>3, <2>1, <2>2, <2>3 DEF RosterOf, Roster
  <2>. QED
    BY <2>4, <2>5 DEF Told
<1>7. ProxyTypes'
  BY <1>2, <1>4 DEF LanInv, ProxyTypes, NewGameRoom, GameRoom, Doubts
<1>. QED
  BY <1>5, <1>6, <1>7

LEMMA JoinGameTold ==
    ASSUME LanInv, NEW u \in User, NEW r \in Room, LanJoinGame(u, r)
    PROVE  ProxyTypes' /\ \A w \in User : Told(w)'
<1>1. /\ UNCHANGED <<members, leader, gameID, announcing, farewells, connected, observing, inbox>>
      /\ UNCHANGED <<told, doubts>>
      /\ gameRoom[u] # NoGame
      /\ gameRoom' = [gameRoom EXCEPT ![u].players = @ \cup {u}]
  BY DEF LanJoinGame, JoinGame, Begin, consoleVars
<1>2. command' = [command EXCEPT ![u] = [At("joining") EXCEPT !.room = r]]
  BY DEF LanJoinGame, JoinGame, Begin
<1>3. command'[u].pc = "joining" /\ \A w \in User \ {u} : command'[w] = command[w]
  BY <1>2, LanTypes, AtIsCommand
<1>4. /\ gameRoom[u] \in GameRoom
      /\ gameRoom' = [gameRoom EXCEPT ![u] = [gameRoom[u] EXCEPT !.players = @ \cup {u}]]
  BY <1>1, LanTypes
<1>5. [gameRoom[u] EXCEPT !.players = @ \cup {u}] \in GameRoom
  BY <1>4 DEF GameRoom
<1>6. /\ gameRoom'[u].id = gameRoom[u].id
      /\ gameRoom'[u].players = gameRoom[u].players \cup {u}
      /\ \A w \in User \ {u} : gameRoom'[w] = gameRoom[w]
  BY <1>4, LanTypes DEF GameRoom
<1>7. ASSUME NEW w \in User, w # u PROVE Told(w)'
  BY <1>1, <1>3, <1>6, <1>7, LanTypes, Unaffected DEF Hearing
<1>8. HostOf(u)'
  BY <1>1, <1>3, <1>6, RoomTypes DEF HostOf, Follows, IsAt, HostIs, Hearing
<1>9. RosterOf(u)'
  <2>1. \A v : (Leaving(u, v) => Leaving(u, v)') /\ (Arriving(u, v) => Arriving(u, v)')
    BY <1>1 DEF Leaving, Arriving
  <2>. QED
    BY <1>1, <1>6, <2>1, RoomTypes DEF RosterOf, Roster, Hearing
<1>10. ProxyTypes'
  BY <1>1, <1>4, <1>5, LanTypes DEF LanInv, ProxyTypes
<1>. QED
  BY <1>7, <1>8, <1>9, <1>10 DEF Told

\* Who enters knows the room, or doubts it; who is in it will be told.
LEMMA JoinRoomTold ==
    ASSUME LanInv, NEW u \in User, LanJoinRoom(u)
    PROVE  ProxyTypes' /\ \A w \in User : Told(w)'
<1>1. PICK r : r = command[u].room
  OBVIOUS
<1>. DEFINE b == [user |-> u, room |-> r, todo |-> members[r], told |-> {}, alive |-> TRUE]
<1>2. /\ r \in Room /\ r # NoRoom /\ u \notin members[r]
      /\ gameID[u] = NoRoom
      /\ members' = [members EXCEPT ![r] = @ \cup {u}]
      /\ gameID' = [gameID EXCEPT ![u] = r]
      /\ announcing' = announcing \cup {b}
      /\ command' = [command EXCEPT ![u] = At("answering")]
      /\ UNCHANGED <<leader, farewells, connected, observing, inbox>>
  BY <1>1, JoinRoomEffect DEF LanJoinRoom, LanInv
<1>3. /\ UNCHANGED <<gameRoom, told>>
      /\ doubts' = [doubts EXCEPT ![u] = @ \cup
             Doubts(~(members[r] \subseteq gameRoom[u].players), told[u] # leader[r])]
      /\ command[u].pc = "joining"
  BY <1>1 DEF LanJoinRoom, Doubted, JoinRoom, IsAt
<1>4. ASSUME NEW w \in User, w # u PROVE Told(w)'
  <2>1. command'[w] = command[w] /\ doubts'[w] = doubts[w]
    BY <1>2, <1>3, <1>4, LanTypes
  <2>2. WellTold(w)
    BY <1>4, JoinRoomTells DEF LanInv, LanJoinRoom
  <2>. QED
    BY <1>2, <1>3, <2>1, <2>2, ToldKept DEF Hearing
<1>5. /\ command'[u].pc = "answering" /\ gameID'[u] = r
      /\ members'[r] = members[r] \cup {u}
      /\ "host" \notin doubts'[u] => told[u] = leader[r]
      /\ "players" \notin doubts'[u] =>
            "players" \notin doubts[u] /\ members[r] \subseteq gameRoom[u].players
  BY <1>2, <1>3, LanTypes, AtIsCommand DEF Doubts, Doubt
<1>6. HostOf(u)'
  BY <1>2, <1>3, <1>5 DEF HostOf, Follows, IsAt, HostIs
<1>7. RosterOf(u)'
  <2>1. SUFFICES ASSUME u \in Hearing, gameRoom[u] # NoGame, "players" \notin doubts'[u]
                 PROVE  u \in gameRoom[u].players /\ Roster(u, gameRoom[u].players, gameRoom[u].id)'
    BY <1>2, <1>3 DEF RosterOf, Hearing
  <2>2. u \in gameRoom[u].players /\ Roster(u, gameRoom[u].players, gameRoom[u].id)
    BY <1>3, <1>5, <2>1, RoomTypes DEF RosterOf
  <2>3. PICK P \in SUBSET User, q \in Room : P = gameRoom[u].players /\ q = gameRoom[u].id
    BY <2>1, RoomTypes
  <2>4. Roster(u, P, q)'
    BY <1>1, <1>5, <2>1, <2>2, <2>3, OwnRoomJoined DEF LanInv, LanJoinRoom
  <2>. QED
    BY <1>3, <2>2, <2>3, <2>4
<1>8. ProxyTypes'
  BY <1>3, LanTypes DEF LanInv, ProxyTypes, Doubts
<1>. QED
  BY <1>4, <1>6, <1>7, <1>8 DEF Told

LEMMA CreateRoomTold ==
    ASSUME LanInv, NEW u \in User, CreateRoom(u), UNCHANGED proxyVars
    PROVE  ProxyTypes' /\ \A w \in User : Told(w)'
<1>1. /\ UNCHANGED <<announcing, farewells, connected, observing, inbox>>
      /\ UNCHANGED <<gameRoom, told, doubts>>
      /\ command' = [command EXCEPT ![u] = At("idle")]
      /\ command[u].pc = "creating"
  BY DEF CreateRoom, proxyVars, IsAt
<1>2. command'[u].pc = "idle" /\ \A w \in User \ {u} : command'[w] = command[w]
  BY <1>1, LanTypes, AtIsCommand
<1>3. ASSUME NEW w \in User, w # u PROVE Told(w)'
  <2>1. WellTold(w)
    BY <1>3, CreateRoomTells DEF LanInv
  <2>. QED
    BY <1>1, <1>2, <1>3, <2>1, ToldKept DEF Hearing
<1>4. Told(u)'
  <2>1. CASE MayCreate(u)
    <3>1. PICK r : /\ r \in Room /\ gameID[u] = NoRoom /\ gameID'[u] = r
                   /\ leader'[r] = u /\ members'[r] = {u} /\ members[r] = {} /\ r # NoRoom
      BY <2>1, CreateRoomEffect DEF LanInv
    <3>2. HostOf(u)'
      BY <1>1, <1>2, <3>1, RoomTypes DEF HostOf, IsAt, Follows, HostIs, Hearing
    <3>3. RosterOf(u)'
      <4>1. SUFFICES ASSUME u \in Hearing, gameRoom[u] # NoGame, "players" \notin doubts[u]
                     PROVE  u \in gameRoom[u].players /\ Roster(u, gameRoom[u].players, gameRoom[u].id)'
        BY <1>1 DEF RosterOf, Hearing
      <4>2. u \in gameRoom[u].players /\ Roster(u, gameRoom[u].players, gameRoom[u].id)
        BY <1>1, <4>1, RoomTypes DEF RosterOf
      <4>3. PICK P \in SUBSET User, q \in Room : P = gameRoom[u].players /\ q = gameRoom[u].id
        BY <4>1, RoomTypes
      <4>4. Roster(u, P, q)'
        BY <2>1, <4>2, <4>3, OwnRoomCreated DEF LanInv
      <4>. QED
        BY <1>1, <4>2, <4>3, <4>4
    <3>. QED
      BY <3>2, <3>3 DEF Told
  <2>2. CASE ~MayCreate(u)
    <3>1. UNCHANGED <<members, leader, gameID>>
      BY <2>2 DEF CreateRoom
    <3>. QED
      BY <1>1, <1>2, <3>1, Unaffected DEF Hearing
  <2>. QED
    BY <2>1, <2>2
<1>. QED
  BY <1>1, <1>3, <1>4 DEF LanInv, ProxyTypes

\* What the console tells by itself.
LEMMA TellingTold ==
    ASSUME LanInv, UNCHANGED proxyVars,
           \/ \E u \in User : Disconnect(u) \/ BroadcastLeave(u) \/ SendFails(u)
           \/ \E a \in announcing : Answer(a, At("idle")) \/ \E v \in User : AnnounceJoin(a, v)
    PROVE  ProxyTypes' /\ \A w \in User : Told(w)'
<1>1. UNCHANGED <<gameRoom, told, doubts>>
  BY DEF proxyVars
<1>2. ASSUME NEW u \in User, Disconnect(u), NEW w \in User PROVE Told(w)'
  <2>1. /\ connected' \subseteq connected /\ observing' = observing \ {u}
        /\ command'[w].pc = command[w].pc
    BY <1>2, DisconnectRooms, DisconnectOthers DEF LanInv
  <2>2. w \in Hearing' => w \in Hearing \ {u}
    BY <2>1 DEF Hearing
  <2>3. w \in Hearing' => WellTold(w)
    BY <1>2, <2>2, DisconnectTells DEF LanInv
  <2>. QED
    BY <1>1, <2>1, <2>2, <2>3, ToldKept
<1>3. ASSUME NEW u \in User, BroadcastLeave(u), NEW w \in User PROVE Told(w)'
  <2>1. UNCHANGED <<command, connected, observing>>
    BY <1>3 DEF BroadcastLeave
  <2>2. w \in Hearing => WellTold(w)
    BY <1>3, BroadcastLeaveTells DEF LanInv
  <2>. QED
    BY <1>1, <2>1, <2>2, ToldKept DEF Hearing
<1>4. ASSUME NEW a \in announcing, NEW v \in User, AnnounceJoin(a, v), NEW w \in User
      PROVE  Told(w)'
  <2>1. UNCHANGED <<command, connected, observing>>
    BY <1>4 DEF AnnounceJoin
  <2>2. w \in Hearing => WellTold(w)
    BY <1>4, AnnounceJoinTells DEF LanInv
  <2>. QED
    BY <1>1, <2>1, <2>2, ToldKept DEF Hearing
<1>5. ASSUME NEW a \in announcing, Answer(a, At("idle")), NEW w \in User
      PROVE  Told(w)'
  <2>1. /\ command' = IF IsAt(a.user, "answering")
                      THEN [command EXCEPT ![a.user] = At("idle")] ELSE command
        /\ UNCHANGED <<connected, observing>>
    BY <1>5 DEF Answer
  <2>2. command'[w].pc \in {command[w].pc, "idle"}
    BY <2>1, LanTypes, AtIsCommand
  <2>3. WellTold(w)
    BY <1>5, AnswerTells DEF LanInv
  <2>. QED
    BY <1>1, <2>1, <2>2, <2>3, ToldKept DEF Hearing
<1>6. ASSUME NEW u \in User, SendFails(u), NEW w \in User PROVE Told(w)'
  BY <1>1, <1>6, Unaffected DEF SendFails, Hearing
<1>7. \A w \in User : Told(w)'
  BY <1>2, <1>3, <1>4, <1>5, <1>6
<1>. QED
  BY <1>1, <1>7 DEF LanInv, ProxyTypes

\* What Handle reads, and what it leaves of it.
LEMMA HandleReads ==
    ASSUME LanInv, NEW u \in User, Handle(u)
    PROVE  /\ u \in observing /\ Head(inbox[u]) \in Message
           /\ UNCHANGED <<members, leader, gameID, announcing, farewells, connected, command, observing>>
           /\ \A w \in User \ {u} : inbox'[w] = inbox[w]
           /\ Letters(inbox[u]) = Letters(inbox'[u]) \cup {Head(inbox[u])}
           /\ \A i \in 2..Len(inbox[u]) : inbox[u][i] \in Letters(inbox'[u])
           /\ \A h : LastNames(inbox[u], h) /\ Head(inbox[u]).type = "HostMigration"
                        /\ NoMigration(inbox'[u]) => Head(inbox[u]).user = h
<1>1. /\ u \in observing /\ inbox[u] # <<>> /\ inbox[u] \in Seq(Message)
      /\ inbox' = [inbox EXCEPT ![u] = Tail(inbox[u])]
      /\ UNCHANGED <<members, leader, gameID, announcing, farewells, connected, command, observing>>
  BY LanTypes DEF Handle, Take, HasRead, consoleVars
<1>2. inbox'[u] = Tail(inbox[u]) /\ \A w \in User \ {u} : inbox'[w] = inbox[w]
  BY <1>1, LanTypes
<1>. QED
  BY <1>1, <1>2, OneLess

\* And what it does to the room.
LEMMA HandleRooms ==
    ASSUME LanInv, NEW u \in User, Handle(u), NEW m, m = Head(inbox[u])
    PROVE  /\ ProxyTypes'
           /\ \A w \in User \ {u} : /\ gameRoom'[w] = gameRoom[w] /\ told'[w] = told[w]
                                    /\ doubts'[w] = doubts[w]
           /\ doubts'[u] = doubts[u] \cup Misled(u, m)
           /\ gameRoom[u] = NoGame => gameRoom'[u] = NoGame
           /\ gameRoom[u] # NoGame => gameRoom'[u].id = gameRoom[u].id
           /\ told'[u] = IF m.type = "HostMigration" THEN m.user ELSE told[u]
           /\ gameRoom[u] # NoGame =>
                 gameRoom'[u].players = IF m.type = "JoinRoom" THEN gameRoom[u].players \cup {m.user}
                                        ELSE IF m.type = "HostMigration" THEN gameRoom[u].players
                                        ELSE gameRoom[u].players \ {m.user}
<1>1. m \in Message
  BY HandleReads
<1>2. doubts' = [doubts EXCEPT ![u] = @ \cup Misled(u, m)] /\ Misled(u, m) \subseteq Doubt
  BY DEF Handle, Doubted, Misled, Doubt
<1>3. \/ m.type = "JoinRoom" /\ SetPlayer(u, m.user) /\ UNCHANGED told
      \/ m.type \in {"LeaveRoom", "LeaveLobby"} /\ DeletePlayer(u, m.user) /\ UNCHANGED told
      \/ m.type = "HostMigration" /\ told' = [told EXCEPT ![u] = m.user] /\ UNCHANGED gameRoom
  BY DEF Handle
<1>4. ASSUME NEW S, S \in SUBSET User, gameRoom[u] # NoGame,
             gameRoom' = [gameRoom EXCEPT ![u].players = S]
      PROVE  /\ gameRoom' \in [User -> GameRoom \cup {NoGame}]
             /\ gameRoom'[u].id = gameRoom[u].id /\ gameRoom'[u].players = S
             /\ \A w \in User \ {u} : gameRoom'[w] = gameRoom[w]
  <2>1. gameRoom[u] \in GameRoom
    BY <1>4, LanTypes
  <2>2. /\ [gameRoom[u] EXCEPT !.players = S] \in GameRoom
        /\ [gameRoom[u] EXCEPT !.players = S].id = gameRoom[u].id
        /\ [gameRoom[u] EXCEPT !.players = S].players = S
    BY <1>4, <2>1 DEF GameRoom
  <2>3. gameRoom' = [gameRoom EXCEPT ![u] = [gameRoom[u] EXCEPT !.players = S]]
    BY <1>4, LanTypes
  <2>. QED
    BY <2>2, <2>3, LanTypes
<1>5. /\ m.user \in User /\ m.type \in {"JoinRoom", "LeaveRoom", "LeaveLobby", "HostMigration"}
      /\ gameRoom[u] # NoGame => gameRoom[u].players \subseteq User
  BY <1>1, RoomTypes DEF Message
<1>6. /\ gameRoom' \in [User -> GameRoom \cup {NoGame}]
      /\ \A w \in User \ {u} : gameRoom'[w] = gameRoom[w]
      /\ gameRoom[u] = NoGame => gameRoom'[u] = NoGame
      /\ gameRoom[u] # NoGame =>
            /\ gameRoom'[u].id = gameRoom[u].id
            /\ gameRoom'[u].players = IF m.type = "JoinRoom" THEN gameRoom[u].players \cup {m.user}
                                      ELSE IF m.type = "HostMigration" THEN gameRoom[u].players
                                      ELSE gameRoom[u].players \ {m.user}
  <2>1. CASE gameRoom' = gameRoom /\ (gameRoom[u] = NoGame \/ m.type = "HostMigration")
    BY <2>1, LanTypes
  <2>2. CASE m.type = "JoinRoom" /\ gameRoom[u] # NoGame
    <3>1. SetPlayer(u, m.user)
      BY <1>3, <2>2, Zenon
    <3>2. gameRoom' = [gameRoom EXCEPT ![u].players = gameRoom[u].players \cup {m.user}]
      BY <2>2, <3>1 DEF SetPlayer
    <3>3. gameRoom[u].players \cup {m.user} \in SUBSET User
      BY <1>5, <2>2
    <3>4. /\ gameRoom' \in [User -> GameRoom \cup {NoGame}]
          /\ gameRoom'[u].id = gameRoom[u].id /\ gameRoom'[u].players = gameRoom[u].players \cup {m.user}
          /\ \A w \in User \ {u} : gameRoom'[w] = gameRoom[w]
      BY <1>4, <2>2, <3>2, <3>3
    <3>. QED
      BY <2>2, <3>4
  <2>3. CASE m.type \in {"LeaveRoom", "LeaveLobby"} /\ gameRoom[u] # NoGame
    <3>1. DeletePlayer(u, m.user)
      BY <1>3, <2>3
    <3>2. gameRoom' = [gameRoom EXCEPT ![u].players = gameRoom[u].players \ {m.user}]
      BY <2>3, <3>1 DEF DeletePlayer
    <3>3. gameRoom[u].players \ {m.user} \in SUBSET User
      BY <1>5, <2>3
    <3>4. /\ gameRoom' \in [User -> GameRoom \cup {NoGame}]
          /\ gameRoom'[u].id = gameRoom[u].id /\ gameRoom'[u].players = gameRoom[u].players \ {m.user}
          /\ \A w \in User \ {u} : gameRoom'[w] = gameRoom[w]
      BY <1>4, <2>3, <3>2, <3>3
    <3>. QED
      BY <2>3, <3>4
  <2>. QED
    BY <1>3, <2>1, <2>2, <2>3 DEF SetPlayer, DeletePlayer
<1>7. /\ told' \in [User -> User \cup {Nobody}]
      /\ \A w \in User \ {u} : told'[w] = told[w]
      /\ told'[u] = IF m.type = "HostMigration" THEN m.user ELSE told[u]
  BY <1>3, <1>5, LanTypes
<1>8. /\ doubts' \in [User -> SUBSET Doubt] /\ doubts'[u] = doubts[u] \cup Misled(u, m)
      /\ \A w \in User \ {u} : doubts'[w] = doubts[w]
  BY <1>2, LanTypes
<1>. QED
  BY <1>6, <1>7, <1>8 DEF ProxyTypes

LEMMA HandleTold ==
    ASSUME LanInv, NEW u \in User, Handle(u)
    PROVE  ProxyTypes' /\ \A w \in User : Told(w)'
<1>1. PICK m : m = Head(inbox[u])
  OBVIOUS
<1>2. /\ u \in observing /\ m \in Message
      /\ UNCHANGED <<members, leader, gameID, announcing, farewells, connected, command, observing>>
      /\ \A w \in User \ {u} : inbox'[w] = inbox[w]
      /\ Letters(inbox[u]) = Letters(inbox'[u]) \cup {m}
      /\ \A i \in 2..Len(inbox[u]) : inbox[u][i] \in Letters(inbox'[u])
      /\ \A h : LastNames(inbox[u], h) /\ m.type = "HostMigration"
                   /\ NoMigration(inbox'[u]) => m.user = h
  BY <1>1, HandleReads
<1>3. /\ ProxyTypes'
      /\ \A w \in User \ {u} : /\ gameRoom'[w] = gameRoom[w] /\ told'[w] = told[w]
                               /\ doubts'[w] = doubts[w]
      /\ doubts'[u] = doubts[u] \cup Misled(u, m)
      /\ gameRoom[u] = NoGame => gameRoom'[u] = NoGame
      /\ gameRoom[u] # NoGame => gameRoom'[u].id = gameRoom[u].id
      /\ told'[u] = IF m.type = "HostMigration" THEN m.user ELSE told[u]
      /\ gameRoom[u] # NoGame =>
            gameRoom'[u].players = IF m.type = "JoinRoom" THEN gameRoom[u].players \cup {m.user}
                                   ELSE IF m.type = "HostMigration" THEN gameRoom[u].players
                                   ELSE gameRoom[u].players \ {m.user}
  BY <1>1, HandleRooms, Zenon
<1>4. ASSUME NEW w \in User, w # u PROVE Told(w)'
  BY <1>2, <1>3, <1>4, Unaffected DEF Hearing
<1>5. HostOf(u)'
  <2>1. IsAt(u, "offline")' => gameRoom'[u] = NoGame
    BY <1>2, <1>3, RoomTypes DEF HostOf, IsAt
  <2>0. CASE u \notin Hearing
    BY <1>2, <2>0, <2>1 DEF HostOf, IsAt, Follows, Hearing
  <2>2. CASE u \in Hearing /\ m.type # "HostMigration"
    <3>1. NoMigration(inbox'[u]) => NoMigration(inbox[u])
      BY <1>2, <2>2 DEF NoMigration
    <3>. QED
      BY <1>2, <1>3, <2>1, <2>2, <3>1, RoomTypes DEF HostOf, IsAt, Follows, HostIs, Hearing
  <2>3. CASE u \in Hearing /\ m.type = "HostMigration"
    <3>1. gameID[u] # NoRoom /\ LastNames(inbox[u], leader[gameID[u]])
      BY <1>2, <2>3 DEF LanInv, Console, Informed, RoomNews, Hearing
    <3>2. NoMigration(inbox'[u]) => told'[u] = leader[gameID[u]]
      BY <1>2, <1>3, <2>3, <3>1
    <3>. QED
      BY <1>2, <2>1, <3>1, <3>2 DEF HostOf, IsAt, Follows, HostIs
  <2>. QED
    BY <2>0, <2>2, <2>3
<1>6. RosterOf(u)'
  <2>. DEFINE present(r) == m.user \in members[r] \cup {u}
  <2>1. SUFFICES ASSUME u \in Hearing, gameRoom[u] # NoGame, "players" \notin doubts[u],
                        "players" \notin Misled(u, m)
                 PROVE  /\ command[u].pc \in {"creating", "joining"} \/ gameID[u] = gameRoom[u].id
                               => u \in gameRoom'[u].players
                        /\ Roster(u, gameRoom[u].players, gameRoom[u].id)'
    BY <1>2, <1>3 DEF RosterOf, Hearing
  <2>2. PICK P \in SUBSET User, r \in Room, Q \in SUBSET User :
            /\ P = gameRoom[u].players /\ r = gameRoom[u].id
            /\ Q = gameRoom'[u].players /\ r = gameRoom'[u].id
    <3>1. /\ gameRoom[u].players \subseteq User /\ gameRoom[u].id \in Room
          /\ gameRoom'[u].id = gameRoom[u].id /\ m.user \in User
      BY <1>2, <1>3, <2>1, RoomTypes DEF Message
    <3>2. gameRoom'[u].players \subseteq gameRoom[u].players \cup {m.user}
      BY <1>3, <2>1
    <3>. QED
      BY <3>1, <3>2
  <2>3. /\ command[u].pc \in {"creating", "joining"} \/ gameID[u] = r => u \in P
        /\ Roster(u, P, r)
    BY <1>2, <2>1, <2>2, RoomTypes DEF RosterOf, Hearing
  <2>4. /\ m.type \in {"LeaveRoom", "LeaveLobby"} => ~present(r)
        /\ m.type = "JoinRoom" /\ ~present(r) => DepartureFollows(u, m.user)
    BY <2>1, <2>2 DEF Misled, Doubt
  <2>5. DepartureFollows(u, m.user) => Leaving(u, m.user)'
    BY <1>2 DEF DepartureFollows, Leaving
  <2>6. Q = IF m.type = "JoinRoom" THEN P \cup {m.user}
            ELSE IF m.type = "HostMigration" THEN P ELSE P \ {m.user}
    BY <1>3, <2>1, <2>2
  <2>7. m.type \in {"JoinRoom", "LeaveRoom", "LeaveLobby", "HostMigration"}
    BY <1>2 DEF Message
  <2>8. Roster(u, Q, r)'
    <3>1. Console(Message)
      BY DEF LanInv
    <3>2. m.type = "JoinRoom" =>
              /\ P \subseteq Q /\ Q \subseteq P \cup {m.user} /\ m.user \in Q \cup {u}
              /\ m.user \notin members[r] \cup {u} => Leaving(u, m.user)'
      BY <2>4, <2>5, <2>6
    <3>3. m.type \in {"LeaveRoom", "LeaveLobby"} =>
              m.user \notin members[r] \cup {u} /\ Q = P \ {m.user}
      BY <2>4, <2>6
    <3>4. m.type \notin {"JoinRoom", "LeaveRoom", "LeaveLobby"} => Q = P
      BY <2>6, <2>7
    <3>5. UNCHANGED <<members, gameID, announcing, farewells>>
      BY <1>2
    <3>. QED
      BY <1>2, <2>3, <3>1, <3>2, <3>3, <3>4, <3>5, RosterRead
  <2>9. u \in P => u \in Q
    BY <2>4, <2>6, <2>7
  <2>. QED
    BY <2>2, <2>3, <2>8, <2>9
<1>. QED
  BY <1>3, <1>4, <1>5, <1>6 DEF Told

-----------------------------------------------------------------------------

LEMMA InitLanInv == Init => LanInv
<1>. SUFFICES ASSUME Init PROVE LanInv
  OBVIOUS
<1>1. /\ gameRoom = [u \in User |-> NoGame] /\ doubts = [u \in User |-> {}]
      /\ told = [u \in User |-> Nobody] /\ GamesInit
      /\ command = [u \in User |-> At("idle")] /\ At("idle").pc = "idle"
  BY AtIsCommand DEF Init, GamesInit
<1>2. Console(Message)
  BY <1>1, InitConsole
<1>3. ProxyTypes
  BY <1>1 DEF ProxyTypes
<1>4. \A u \in User : Told(u)
  BY <1>1 DEF Told, HostOf, RosterOf, IsAt, Follows
<1>. QED
  BY <1>2, <1>3, <1>4 DEF LanInv

LEMMA NextConsole ==
    ASSUME LanInv, Next
    PROVE  Console(Message)'
<1>1. Console(Message)
  BY DEF LanInv
<1>2. ASSUME NEW a \in announcing, LanAnswer(a) PROVE Console(Message)'
  BY <1>1, <1>2, AtIsCommand, AnswerConsole DEF LanAnswer
<1>3. ASSUME NEW u \in User, \/ LanSelectFails(u) \/ LanEndSession(u)
      PROVE  Console(Message)'
  BY <1>1, <1>3, EndConsole DEF LanSelectFails, SelectFails, LanEndSession, EndSession
<1>4. ASSUME NEW u \in User, \/ Handle(u) \/ LanBroadcastLeave(u) \/ LanJoinRoom(u) \/ LanSelect(u)
      PROVE  Console(Message)'
  BY <1>1, <1>4, TakeConsole, BroadcastLeaveConsole, JoinRoomConsole, SmallStepsConsole
     DEF Handle, LanBroadcastLeave, LanJoinRoom, LanSelect
<1>5. ASSUME NEW u \in User, NEW r \in Room, LanCreateGame(u, r) \/ LanJoinGame(u, r)
      PROVE  Console(Message)'
  BY <1>1, <1>5, SmallStepsConsole DEF LanCreateGame, LanJoinGame
<1>6. ASSUME NEW a \in announcing, NEW v \in User, LanAnnounceJoin(a, v) PROVE Console(Message)'
  BY <1>1, <1>6, AnnounceJoinConsole DEF LanAnnounceJoin
<1>. QED
  BY <1>1, <1>2, <1>3, <1>4, <1>5, <1>6, LoginConsole, DisconnectConsole, CreateRoomConsole,
     SendFailsConsole, SmallStepsConsole
     DEF Next

LEMMA NextTold ==
    ASSUME LanInv, Next
    PROVE  ProxyTypes' /\ \A w \in User : Told(w)'
BY QuietSteps, LoginTold, EndTold, CreateGameTold, SelectTold, JoinGameTold, JoinRoomTold,
   CreateRoomTold, TellingTold, HandleTold
   DEF Next, LanAnnounceJoin, LanAnswer, LanBroadcastLeave

LEMMA Invariance == Spec => []LanInv
<1>1. LanInv /\ [Next]_vars => LanInv'
  <2>. SUFFICES ASSUME LanInv, [Next]_vars PROVE LanInv'
    OBVIOUS
  <2>1. CASE Next
    BY <2>1, NextConsole, NextTold DEF LanInv
  <2>2. CASE UNCHANGED vars
    <3>1. /\ UNCHANGED <<members, leader, online, gameID, announcing, farewells, connected, command,
                         observing, inbox, commands, logins>>
          /\ UNCHANGED <<gameRoom, told, doubts>>
      BY <2>2 DEF vars, gameVars, consoleVars, proxyVars
    <3>2. Console(Message)'
      BY <3>1 DEF LanInv, Console, GTypes, GamesTypeOK, Membership, Leadership, Presence,
                  Handlers, Handler, Informed, RoomNews
    <3>3. \A w \in User : Told(w)'
      BY <3>1, Unaffected DEF Hearing
    <3>. QED
      BY <3>1, <3>2, <3>3 DEF LanInv, ProxyTypes
  <2>. QED
    BY <2>1, <2>2
<1>. QED
  BY <1>1, InitLanInv, PTL DEF Spec

\* The rooms, sessions, handlers, inboxes and proxies always have the declared
\* types; in particular no handler enters a room it has not named.
THEOREM TypeCorrect == Spec => []TypeOK
<1>1. LanInv => TypeOK
  BY DEF LanInv, Console, GTypes, ProxyTypes, TypeOK
<1>. QED
  BY <1>1, Invariance, PTL

\* A game that plays in a room was last told of the host the console has, once
\* its observer has read everything, unless the host changed while the game was
\* between looking at the room and joining it (console/multiplayer.go LeaveRoom,
\* direct/proxy_lan.go Handle, HostMigration).
THEOREM GameKnowsHost == Spec => []HostTold
<1>1. ASSUME LanInv PROVE HostTold
  <2>1. SUFFICES ASSUME NEW u \in User, NEW r \in Room, InRoom(u, r), "host" \notin doubts[u]
                 PROVE  told[u] = leader[r]
    BY DEF HostTold
  <2>2. Follows(u) /\ gameID[u] = r /\ NoMigration(inbox[u])
    BY <2>1, EmptyBox DEF InRoom, Settled, Follows
  <2>. QED
    BY <1>1, <2>1, <2>2, RoomTypes, GamesAssumption DEF HostOf, HostIs
<1>. QED
  BY <1>1, Invariance, PTL

\* The players a proxy keeps are the players of the room its user plays in, once
\* everything about the room has been read: joins announced while others leave,
\* departures told twice and returns before the farewell included, unless one of
\* the races that the code leaves open has spoilt them (console/multiplayer.go
\* AnnounceJoin, LeaveRoom, direct/proxy_lan.go Handle).
THEOREM RosterIsRight == Spec => []RosterAgrees
<1>1. ASSUME LanInv PROVE RosterAgrees
  <2>1. SUFFICES ASSUME NEW u \in User, NEW r \in Room, InRoom(u, r), "players" \notin doubts[u]
                 PROVE  gameRoom[u].players = members[r]
    BY DEF RosterAgrees
  <2>2. u \in Hearing /\ gameRoom[u].id = r /\ gameID[u] = r
    BY <2>1 DEF InRoom, Settled
  <2>3. u \in gameRoom[u].players /\ Roster(u, gameRoom[u].players, r)
    BY <1>1, <2>1, <2>2, RoomTypes DEF RosterOf, InRoom
  <2>. QED
    BY <1>1, <2>1, <2>3, RosterMet DEF LanInv, Console, InRoom
<1>. QED
  BY <1>1, Invariance, PTL
=============================================================================
