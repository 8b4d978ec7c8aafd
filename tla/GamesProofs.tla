----------------------------- MODULE GamesProofs -----------------------------
(***************************************************************************)
(* Lemmas about Games: what the proofs about the two proxies need of the   *)
(* console, the handlers and the inboxes.  M is whatever may be written to *)
(* a user: the messages of Games, and what a proxy adds to them.           *)
(***************************************************************************)
EXTENDS Games, TLAPS

(***************************************************************************)
(* Inboxes.  Of the order of the messages in one only this matters: which  *)
(* HostMigration comes last.                                               *)
(***************************************************************************)

Letters(box) == {box[i] : i \in 1..Len(box)}

NoMigration(box) == \A m \in Letters(box) : m.type # "HostMigration"

\* The last HostMigration in box, if there is one, names h.
LastNames(box, h) ==
    \A i \in 1..Len(box) :
        /\ box[i].type = "HostMigration"
        /\ \A j \in (i + 1)..Len(box) : box[j].type # "HostMigration"
        => box[i].user = h

LEMMA OneMore ==
    ASSUME NEW M, NEW box \in Seq(M), NEW m \in M
    PROVE  /\ box \o <<m>> \in Seq(M)
           /\ Letters(box \o <<m>>) = Letters(box) \cup {m}
           /\ \A h : m.type # "HostMigration" /\ LastNames(box, h) => LastNames(box \o <<m>>, h)
<1>. DEFINE new == box \o <<m>>
<1>1. new \in Seq(M)
  OBVIOUS
<1>2. /\ Len(new) = Len(box) + 1
      /\ \A i \in 1..Len(box) : new[i] = box[i]
      /\ new[Len(box) + 1] = m
      /\ Len(box) \in Nat
  OBVIOUS
<1>. HIDE DEF new
<1>3. Letters(new) = Letters(box) \cup {m}
  <2>1. 1..Len(new) = 1..Len(box) \cup {Len(box) + 1}
    BY <1>2
  <2>. QED
    BY <1>2, <2>1 DEF Letters
<1>4. ASSUME NEW h, m.type # "HostMigration", LastNames(box, h), NEW i \in 1..Len(new),
             new[i].type = "HostMigration",
             \A j \in (i + 1)..Len(new) : new[j].type # "HostMigration"
      PROVE  new[i].user = h
  <2>1. i \in 1..Len(box)
    BY <1>2, <1>4
  <2>2. \A j \in (i + 1)..Len(box) : box[j].type # "HostMigration"
    BY <1>2, <1>4, <2>1
  <2>. QED
    BY <1>2, <1>4, <2>1, <2>2 DEF LastNames
<1>. QED
  BY <1>1, <1>3, <1>4 DEF LastNames, new

LEMMA TwoMore ==
    ASSUME NEW M, NEW box \in Seq(M), NEW m \in M, NEW n \in M
    PROVE  /\ box \o <<m, n>> \in Seq(M)
           /\ Letters(box \o <<m, n>>) = Letters(box) \cup {m, n}
           /\ n.type = "HostMigration" => LastNames(box \o <<m, n>>, n.user)
           /\ \A h : "HostMigration" \notin {m.type, n.type} /\ LastNames(box, h)
                        => LastNames(box \o <<m, n>>, h)
<1>. DEFINE new == box \o <<m, n>>
<1>1. new \in Seq(M)
  OBVIOUS
<1>2. /\ Len(new) = Len(box) + 2
      /\ \A i \in 1..Len(box) : new[i] = box[i]
      /\ new[Len(box) + 1] = m
      /\ new[Len(box) + 2] = n
      /\ Len(box) \in Nat
  OBVIOUS
<1>. HIDE DEF new
<1>3. Letters(new) = Letters(box) \cup {m, n}
  <2>1. 1..Len(new) = 1..Len(box) \cup {Len(box) + 1, Len(box) + 2}
    BY <1>2
  <2>. QED
    BY <1>2, <2>1 DEF Letters
<1>4. n.type = "HostMigration" => LastNames(new, n.user)
  <2>1. \A i \in 1..Len(new) : i = Len(new) \/ Len(new) \in (i + 1)..Len(new)
    BY <1>2
  <2>. QED
    BY <1>2, <2>1 DEF LastNames
<1>5. ASSUME NEW h, "HostMigration" \notin {m.type, n.type}, LastNames(box, h),
             NEW i \in 1..Len(new), new[i].type = "HostMigration",
             \A j \in (i + 1)..Len(new) : new[j].type # "HostMigration"
      PROVE  new[i].user = h
  <2>1. i \in 1..Len(box)
    BY <1>2, <1>5
  <2>2. \A j \in (i + 1)..Len(box) : box[j].type # "HostMigration"
    BY <1>2, <1>5, <2>1
  <2>. QED
    BY <1>2, <1>5, <2>1, <2>2 DEF LastNames
<1>. QED
  BY <1>1, <1>3, <1>4, <1>5 DEF LastNames, new

LEMMA OneLess ==
    ASSUME NEW M, NEW box \in Seq(M), box # <<>>
    PROVE  /\ Tail(box) \in Seq(M) /\ Head(box) \in M
           /\ Letters(box) = Letters(Tail(box)) \cup {Head(box)}
           /\ Letters(Tail(box)) = {box[i] : i \in 2..Len(box)}
           /\ \A h : LastNames(box, h) =>
                 /\ LastNames(Tail(box), h)
                 /\ Head(box).type = "HostMigration" /\ NoMigration(Tail(box))
                        => Head(box).user = h
<1>. DEFINE rest == Tail(box)
<1>1. rest \in Seq(M) /\ Head(box) \in M
  OBVIOUS
<1>2. /\ Len(box) = Len(rest) + 1 /\ Len(rest) \in Nat
      /\ \A i \in 1..Len(rest) : rest[i] = box[i + 1]
      /\ Head(box) = box[1]
  OBVIOUS
<1>. HIDE DEF rest
<1>3. Letters(rest) = {box[i] : i \in 2..Len(box)}
  <2>1. ASSUME NEW i \in 2..Len(box) PROVE box[i] \in Letters(rest)
    <3>1. i - 1 \in 1..Len(rest) /\ rest[i - 1] = box[i]
      BY <1>2
    <3>. QED
      BY <3>1 DEF Letters
  <2>2. ASSUME NEW i \in 1..Len(rest) PROVE rest[i] \in {box[j] : j \in 2..Len(box)}
    <3>1. i + 1 \in 2..Len(box) /\ rest[i] = box[i + 1]
      BY <1>2
    <3>. QED
      BY <3>1
  <2>. QED
    BY <2>1, <2>2 DEF Letters
<1>4. Letters(box) = Letters(rest) \cup {Head(box)}
  <2>1. 1..Len(box) = {1} \cup 2..Len(box)
    BY <1>2
  <2>. QED
    BY <1>2, <1>3, <2>1 DEF Letters
<1>5. ASSUME NEW h, LastNames(box, h) PROVE LastNames(rest, h)
  <2>1. SUFFICES ASSUME NEW i \in 1..Len(rest), rest[i].type = "HostMigration",
                        \A j \in (i + 1)..Len(rest) : rest[j].type # "HostMigration"
                 PROVE  rest[i].user = h
    BY DEF LastNames
  <2>2. i + 1 \in 1..Len(box) /\ rest[i] = box[i + 1]
    BY <1>2
  <2>3. \A j \in (i + 2)..Len(box) : j - 1 \in (i + 1)..Len(rest) /\ rest[j - 1] = box[j]
    BY <1>2
  <2>4. \A j \in (i + 1 + 1)..Len(box) : box[j].type # "HostMigration"
    BY <1>2, <2>1, <2>3
  <2>. QED
    BY <1>5, <2>1, <2>2, <2>4 DEF LastNames
<1>6. ASSUME NEW h, LastNames(box, h), Head(box).type = "HostMigration", NoMigration(rest)
      PROVE  Head(box).user = h
  <2>1. \A j \in (1 + 1)..Len(box) : box[j].type # "HostMigration"
    BY <1>3, <1>6 DEF NoMigration
  <2>. QED
    BY <1>2, <1>6, <2>1 DEF LastNames
<1>. QED
  BY <1>1, <1>3, <1>4, <1>5, <1>6 DEF rest

LEMMA EmptyBox ==
    /\ \A M : <<>> \in Seq(M)
    /\ Letters(<<>>) = {}
    /\ NoMigration(<<>>)
    /\ \A h : LastNames(<<>>, h)
BY DEF Letters, NoMigration, LastNames

LEMMA NoneIsLast ==
    ASSUME NEW box, NEW h, NoMigration(box)
    PROVE  LastNames(box, h)
BY DEF NoMigration, LastNames, Letters

-----------------------------------------------------------------------------
(***************************************************************************)
(* The console and the handlers.  A user is in a room exactly when his     *)
(* session says so, and then he is online; who is not observed has no      *)
(* messages; a handler that is about to enter a room has its user in no    *)
(* other.                                                                  *)
(***************************************************************************)

\* What is written to the players of a room, and to nobody else.
RoomNews == {"JoinRoom", "LeaveRoom", "HostMigration"}

GTypes(M) ==
    /\ GamesTypeOK
    /\ inbox \in [User -> Seq(M)]
    /\ logins <= commands

Membership == \A u \in User, r \in Room : u \in members[r] <=> gameID[u] = r

Leadership == \A r \in Room : members[r] # {} => leader[r] \in members[r]

Presence ==
    /\ \A u \in User : gameID[u] # NoRoom => u \in online
    /\ observing \subseteq online
    /\ \A u \in User \ observing : inbox[u] = <<>>

\* What a handler has to do with the rooms.
Handler(c, u) ==
    /\ c.pc = "offline" => u \notin observing
    /\ c.pc \in {"creating", "reading", "selecting", "joining"} => c.room \in Room
    /\ c.pc \in {"creating", "joining"} => gameID[u] \in {NoRoom, c.room}

Handlers == \A u \in User : Handler(command[u], u)

\* In no room a user hears of no room; in a room, who leads it, as long as he
\* can be written to.
Informed ==
    \A u \in User :
        /\ gameID[u] = NoRoom => \A m \in Letters(inbox[u]) : m.type \notin RoomNews
        /\ gameID[u] # NoRoom /\ u \in connected => LastNames(inbox[u], leader[gameID[u]])

Console(M) == GTypes(M) /\ Membership /\ Leadership /\ Presence /\ Handlers /\ Informed

LEMMA AtIsCommand ==
    ASSUME NEW pc \in {"offline", "idle", "creating", "reading", "selecting",
                       "joining", "answering", "connecting"}
    PROVE  /\ At(pc) \in Command /\ At(pc).pc = pc
           /\ \A r \in Room : /\ [At(pc) EXCEPT !.room = r] \in Command
                              /\ [At(pc) EXCEPT !.room = r].pc = pc
                              /\ [At(pc) EXCEPT !.room = r].room = r
BY DEF At, Command

LEMMA MsgIsMessage ==
    ASSUME NEW u \in User,
           NEW type \in {"JoinRoom", "LeaveRoom", "LeaveLobby", "HostMigration"}
    PROVE  Msg(type, u) \in Message /\ Msg(type, u).type = type /\ Msg(type, u).user = u
BY DEF Msg, Message

\* Handlers that change nothing but themselves.
LEMMA HandlerMoves ==
    ASSUME NEW M, Message \subseteq M, Console(M), NEW u \in User, NEW c \in Command, Handler(c, u),
           command' = [command EXCEPT ![u] = c],
           commands' \in 0..MaxCommands /\ commands' >= commands,
           UNCHANGED <<consoleVars, observing, inbox, logins>>
    PROVE  Console(M)'
<1>1. UNCHANGED <<members, leader, online, connected, gameID, announcing, farewells>>
  BY DEF consoleVars
<1>2. GTypes(M)'
  <2>1. commands \in Int /\ commands' \in Int /\ logins \in Int
    BY GamesAssumption DEF Console, GTypes, GamesTypeOK
  <2>. QED
    BY <1>1, <2>1 DEF Console, GTypes, GamesTypeOK
<1>3. Handlers'
  BY <1>1 DEF Console, GTypes, GamesTypeOK, Handlers, Handler
<1>. QED
  BY <1>1, <1>2, <1>3 DEF Console, Membership, Leadership, Presence, Informed

LEMMA BeginConsole ==
    ASSUME NEW M, Message \subseteq M, Console(M), NEW u \in User, NEW c \in Command, Handler(c, u), Begin(u, c)
    PROVE  Console(M)'
<1>1. commands' \in 0..MaxCommands /\ commands' >= commands
  BY GamesAssumption DEF Console, GTypes, GamesTypeOK, Begin
<1>. QED
  BY <1>1, HandlerMoves DEF Begin

LEMMA SmallStepsConsole ==
    ASSUME NEW M, Message \subseteq M, Console(M), NEW u \in User,
           \/ \E r \in Room : CreateGame(u, r) \/ SelectGame(u, r) \/ JoinGame(u, r)
           \/ GetGame(u) \/ Selected(u) \/ JoinFails(u)
    PROVE  Console(M)'
<1>0. commands \in 0..MaxCommands /\ commands >= commands
  BY DEF Console, GTypes, GamesTypeOK
<1>1. ASSUME NEW r \in Room, CreateGame(u, r) PROVE Console(M)'
  <2>. DEFINE c == [At("creating") EXCEPT !.room = r]
  <2>1. c \in Command /\ c.pc = "creating" /\ c.room = r
    BY AtIsCommand
  <2>2. Handler(c, u)
    BY <1>1, <2>1 DEF Handler, CreateGame
  <2>. QED
    BY <1>1, <2>1, <2>2, BeginConsole DEF CreateGame
<1>2. ASSUME NEW r \in Room, JoinGame(u, r) PROVE Console(M)'
  <2>. DEFINE c == [At("joining") EXCEPT !.room = r]
  <2>1. c \in Command /\ c.pc = "joining" /\ c.room = r
    BY AtIsCommand
  <2>2. Handler(c, u)
    BY <1>2, <2>1 DEF Handler, JoinGame
  <2>. QED
    BY <1>2, <2>1, <2>2, BeginConsole DEF JoinGame
<1>3. ASSUME NEW r \in Room, SelectGame(u, r) PROVE Console(M)'
  <2>. DEFINE c == [At("reading") EXCEPT !.room = r, !.host = leader[r], !.alive = TRUE]
  <2>1. c \in Command /\ c.pc = "reading" /\ c.room = r
    BY DEF At, Command, Console, GTypes, GamesTypeOK
  <2>2. Handler(c, u)
    BY <2>1 DEF Handler
  <2>. QED
    BY <1>3, <2>1, <2>2, BeginConsole DEF SelectGame
<1>4. ASSUME GetGame(u) PROVE Console(M)'
  <2>1. command[u] \in Command /\ command[u].pc = "reading" /\ command[u].room \in Room
    BY <1>4 DEF GetGame, IsAt, Console, GTypes, GamesTypeOK, Handlers, Handler
  <2>2. members[command[u].room] \subseteq User
    BY <2>1 DEF Console, GTypes, GamesTypeOK
  <2>3. PICK ps \in SUBSET User :
            command' = [command EXCEPT ![u].pc = "selecting", ![u].players = ps]
    BY <1>4, <2>2 DEF GetGame
  <2>. DEFINE c == [command[u] EXCEPT !.pc = "selecting", !.players = ps]
  <2>4. c \in Command /\ c.pc = "selecting" /\ c.room = command[u].room
    BY <2>1 DEF Command
  <2>5. command' = [command EXCEPT ![u] = c]
    BY <2>3 DEF Console, GTypes, GamesTypeOK
  <2>6. commands' \in 0..MaxCommands /\ commands' >= commands
        /\ UNCHANGED <<consoleVars, observing, inbox, logins>>
    BY <1>0, <1>4 DEF GetGame
  <2>7. Handler(c, u)
    BY <2>1, <2>4 DEF Handler
  <2>. HIDE DEF c
  <2>. QED
    BY <2>4, <2>5, <2>6, <2>7, HandlerMoves
<1>5. CASE Selected(u) \/ JoinFails(u)
  <2>1. At("idle") \in Command /\ Handler(At("idle"), u)
    BY AtIsCommand DEF Handler
  <2>. QED
    BY <1>0, <1>5, <2>1, HandlerMoves DEF Selected, JoinFails
<1>. QED
  BY <1>1, <1>2, <1>3, <1>4, <1>5

LEMMA EndConsole ==
    ASSUME NEW M, Message \subseteq M, Console(M), NEW u \in User, End(u)
    PROVE  Console(M)'
<1>1. /\ UNCHANGED <<members, leader, online, connected, gameID, announcing, farewells, commands, logins>>
      /\ command' = [command EXCEPT ![u] = At("offline")]
      /\ observing' = observing \ {u}
      /\ inbox' = [inbox EXCEPT ![u] = <<>>]
  BY DEF End, consoleVars
<1>2. GTypes(M)'
  BY <1>1, AtIsCommand, EmptyBox DEF Console, GTypes, GamesTypeOK
<1>3. Handlers'
  BY <1>1, AtIsCommand DEF Console, GTypes, GamesTypeOK, Handlers, Handler
<1>4. Presence'
  BY <1>1 DEF Console, GTypes, Presence
<1>5. Informed'
  BY <1>1, EmptyBox DEF Console, GTypes, Informed
<1>. QED
  BY <1>1, <1>2, <1>3, <1>4, <1>5 DEF Console, Membership, Leadership

LEMMA SendFailsConsole ==
    ASSUME NEW M, Console(M), NEW u \in User, SendFails(u)
    PROVE  Console(M)'
<1>1. /\ UNCHANGED <<members, leader, online, gameID, announcing, farewells, command,
                     observing, inbox, commands, logins>>
      /\ connected' = connected \ {u}
  BY DEF SendFails
<1>2. GTypes(M)'
  BY <1>1 DEF Console, GTypes, GamesTypeOK
<1>3. Informed'
  BY <1>1 DEF Console, Informed
<1>. QED
  BY <1>1, <1>2, <1>3 DEF Console, Membership, Leadership, Presence, Handlers, Handler

LEMMA LoginConsole ==
    ASSUME NEW M, Message \subseteq M, Console(M), NEW u \in User, Login(u)
    PROVE  Console(M)'
<1>1. GTypes(M)'
  <2>1. commands' \in 0..MaxCommands /\ logins' \in 0..MaxCommands /\ logins' <= commands'
    BY GamesAssumption DEF Login, Console, GTypes, GamesTypeOK
  <2>. QED
    BY <2>1, AtIsCommand DEF Login, Console, GTypes, GamesTypeOK
<1>2. Handlers'
  BY AtIsCommand DEF Login, Console, GTypes, GamesTypeOK, Handlers, Handler
<1>. QED
  BY <1>1, <1>2 DEF Login, Console, Membership, Leadership, Presence, Informed

LEMMA CreateRoomConsole ==
    ASSUME NEW M, Message \subseteq M, Console(M), NEW u \in User, CreateRoom(u)
    PROVE  Console(M)'
<1>1. PICK r : r = command[u].room
  OBVIOUS
<1>2. r \in Room /\ gameID[u] \in {NoRoom, r} /\ r # NoRoom
  BY <1>1, GamesAssumption DEF CreateRoom, IsAt, Console, Handlers, Handler
<1>3. /\ UNCHANGED <<online, connected, announcing, farewells, observing, inbox, commands, logins>>
      /\ command' = [command EXCEPT ![u] = At("idle")]
  BY DEF CreateRoom
<1>4. Handlers'
  <2>1. \A v \in User \ {u} : gameID'[v] = gameID[v]
    BY DEF CreateRoom, Console, GTypes, GamesTypeOK
  <2>. QED
    BY <1>3, <2>1, AtIsCommand DEF Console, GTypes, GamesTypeOK, Handlers, Handler
<1>5. CASE MayCreate(u)
  <2>1. /\ u \in online /\ members[r] = {}
        /\ members' = [members EXCEPT ![r] = {u}]
        /\ leader' = [leader EXCEPT ![r] = u]
        /\ gameID' = [gameID EXCEPT ![u] = r]
    BY <1>1, <1>5 DEF CreateRoom, MayCreate, OpenRoom
  <2>2. gameID[u] = NoRoom /\ \A v \in User : gameID[v] # r
    BY <1>2, <2>1 DEF Console, Membership
  <2>3. GTypes(M)'
    BY <1>2, <1>3, <2>1, AtIsCommand DEF Console, GTypes, GamesTypeOK
  <2>4. Membership' /\ Leadership'
    <3>1. ASSUME NEW v \in User, NEW q \in Room PROVE v \in members'[q] <=> gameID'[v] = q
      BY <1>2, <2>1, <2>2, GamesAssumption DEF Console, GTypes, GamesTypeOK, Membership
    <3>. QED
      BY <1>2, <2>1, <3>1 DEF Console, GTypes, GamesTypeOK, Membership, Leadership
  <2>5. Presence'
    BY <1>2, <1>3, <2>1 DEF Console, GTypes, GamesTypeOK, Presence
  <2>6. ASSUME NEW v \in User
        PROVE  /\ gameID'[v] = NoRoom => \A m \in Letters(inbox'[v]) : m.type \notin RoomNews
               /\ gameID'[v] # NoRoom /\ v \in connected'
                      => LastNames(inbox'[v], leader'[gameID'[v]])
    <3>1. CASE v = u
      <4>1. NoMigration(inbox[u])
        BY <2>2 DEF Console, Informed, NoMigration, RoomNews
      <4>. QED
        BY <1>2, <1>3, <2>1, <3>1, <4>1, NoneIsLast DEF Console, GTypes, GamesTypeOK
    <3>2. CASE v # u
      <4>1. gameID'[v] = gameID[v] /\ inbox'[v] = inbox[v]
        BY <1>3, <2>1, <3>2 DEF Console, GTypes, GamesTypeOK
      <4>2. gameID[v] # NoRoom => leader'[gameID[v]] = leader[gameID[v]]
        BY <2>1, <2>2 DEF Console, GTypes, GamesTypeOK
      <4>. QED
        BY <1>3, <4>1, <4>2 DEF Console, Informed
    <3>. QED
      BY <3>1, <3>2
  <2>. QED
    BY <1>4, <2>3, <2>4, <2>5, <2>6 DEF Console, Informed
<1>6. CASE ~MayCreate(u)
  <2>1. UNCHANGED <<members, leader, gameID>>
    BY <1>6 DEF CreateRoom
  <2>2. GTypes(M)'
    BY <1>3, <2>1, AtIsCommand DEF Console, GTypes, GamesTypeOK
  <2>. QED
    BY <1>3, <1>4, <2>1, <2>2 DEF Console, Membership, Leadership, Presence, Informed
<1>. QED
  BY <1>5, <1>6

\* What JoinRoom finds and does.
LEMMA JoinRoomEffect ==
    ASSUME NEW M, Message \subseteq M, Console(M), NEW u \in User, JoinRoom(u), NEW r, r = command[u].room
    PROVE  /\ r \in Room /\ r # NoRoom /\ u \in online /\ u \notin members[r]
           /\ gameID[u] = NoRoom
           /\ members' = [members EXCEPT ![r] = @ \cup {u}]
           /\ members[r] # {}
           /\ gameID' = [gameID EXCEPT ![u] = r]
           /\ announcing' = announcing \cup
                  {[user |-> u, room |-> r, todo |-> members[r], told |-> {}, alive |-> TRUE]}
           /\ command' = [command EXCEPT ![u] = At("answering")]
           /\ UNCHANGED <<leader, online, connected, farewells, observing, inbox, commands, logins>>
<1>1. /\ u \in online /\ members[r] # {} /\ u \notin members[r]
      /\ members' = [members EXCEPT ![r] = @ \cup {u}] /\ UNCHANGED leader
  BY DEF JoinRoom, MayJoin, Enter
<1>2. r \in Room /\ gameID[u] \in {NoRoom, r} /\ r # NoRoom
  BY GamesAssumption DEF JoinRoom, IsAt, Console, Handlers, Handler
<1>3. gameID[u] = NoRoom
  BY <1>1, <1>2 DEF Console, Membership
<1>. QED
  BY <1>1, <1>2, <1>3 DEF JoinRoom

LEMMA JoinRoomConsole ==
    ASSUME NEW M, Message \subseteq M, Console(M), NEW u \in User, JoinRoom(u)
    PROVE  Console(M)'
<1>1. PICK r : r = command[u].room
  OBVIOUS
<1>2. /\ r \in Room /\ r # NoRoom /\ u \in online /\ u \notin members[r]
      /\ gameID[u] = NoRoom
      /\ members' = [members EXCEPT ![r] = @ \cup {u}]
      /\ members[r] # {}
      /\ gameID' = [gameID EXCEPT ![u] = r]
      /\ announcing' = announcing \cup
             {[user |-> u, room |-> r, todo |-> members[r], told |-> {}, alive |-> TRUE]}
      /\ command' = [command EXCEPT ![u] = At("answering")]
      /\ UNCHANGED <<leader, online, connected, farewells, observing, inbox, commands, logins>>
  BY <1>1, JoinRoomEffect
<1>3. GTypes(M)'
  <2>1. members[r] \subseteq User
    BY <1>2 DEF Console, GTypes, GamesTypeOK
  <2>. DEFINE b == [user |-> u, room |-> r, todo |-> members[r], told |-> {}, alive |-> TRUE]
  <2>2. b \in Announcement
    BY <1>2, <2>1 DEF Announcement
  <2>3. announcing' = announcing \cup {b}
    BY <1>2
  <2>. HIDE DEF b
  <2>4. announcing' \subseteq Announcement
    BY <2>2, <2>3 DEF Console, GTypes, GamesTypeOK
  <2>. QED
    BY <1>2, <2>4, AtIsCommand DEF Console, GTypes, GamesTypeOK
<1>4. Membership' /\ Leadership'
  <2>1. ASSUME NEW v \in User, NEW q \in Room PROVE v \in members'[q] <=> gameID'[v] = q
    BY <1>2, GamesAssumption DEF Console, GTypes, GamesTypeOK, Membership
  <2>. QED
    BY <1>2, <2>1 DEF Console, GTypes, GamesTypeOK, Membership, Leadership
<1>5. Presence'
  BY <1>2 DEF Console, GTypes, GamesTypeOK, Presence
<1>6. Handlers'
  BY <1>2, AtIsCommand DEF Console, GTypes, GamesTypeOK, Handlers, Handler
<1>7. Informed'
  <2>1. LastNames(inbox[u], leader[r])
    BY <1>2, NoneIsLast DEF Console, Informed, NoMigration, RoomNews
  <2>. QED
    BY <1>2, <2>1 DEF Console, GTypes, GamesTypeOK, Informed
<1>. QED
  BY <1>3, <1>4, <1>5, <1>6, <1>7 DEF Console

LEMMA AnswerConsole ==
    ASSUME NEW M, Message \subseteq M, Console(M), NEW a \in announcing, NEW c \in Command,
           c.pc \notin {"offline", "creating", "reading", "selecting", "joining"}, Answer(a, c)
    PROVE  Console(M)'
<1>1. a.user \in User
  BY DEF Console, GTypes, GamesTypeOK, Announcement
<1>2. GTypes(M)'
  BY <1>1 DEF Answer, Console, GTypes, GamesTypeOK
<1>3. Handlers'
  BY <1>1 DEF Answer, Console, GTypes, GamesTypeOK, Handlers, Handler
<1>. QED
  BY <1>2, <1>3 DEF Answer, Console, Membership, Leadership, Presence, Informed

\* One message, of which no handler makes anything about the host, to some users.
LEMMA Tells ==
    ASSUME NEW M, Message \subseteq M, Console(M), NEW S, NEW m \in Message, m.type # "HostMigration",
           inbox' = Written(S, <<m>>),
           \A v \in User : v \in S /\ gameID[v] = NoRoom => m.type \notin RoomNews,
           announcing' \subseteq Announcement, farewells' \subseteq User,
           UNCHANGED <<members, leader, online, connected, gameID, command, observing, commands, logins>>
    PROVE  Console(M)'
<1>1. \A v \in User : inbox'[v] = IF v \in S \cap Hearing
                                  THEN inbox[v] \o <<m>> ELSE inbox[v]
  BY DEF Written
<1>2. inbox' \in [User -> Seq(M)]
  <2>1. \A v \in User : inbox[v] \in Seq(M) /\ inbox[v] \o <<m>> \in Seq(M)
    BY OneMore DEF Console, GTypes
  <2>. QED
    BY <2>1 DEF Written
<1>3. GTypes(M)'
  BY <1>2 DEF Console, GTypes, GamesTypeOK
<1>4. ASSUME NEW v \in User
      PROVE  /\ gameID[v] = NoRoom => \A l \in Letters(inbox'[v]) : l.type \notin RoomNews
             /\ gameID[v] # NoRoom /\ v \in connected => LastNames(inbox'[v], leader[gameID[v]])
  <2>1. CASE inbox'[v] = inbox[v]
    BY <2>1 DEF Console, Informed
  <2>2. CASE v \in S /\ inbox'[v] = inbox[v] \o <<m>>
    <3>1. inbox[v] \in Seq(M) /\ m \in M
      BY DEF Console, GTypes
    <3>. DEFINE box == inbox[v]
    <3>2. /\ Letters(box \o <<m>>) = Letters(box) \cup {m}
          /\ \A h : m.type # "HostMigration" /\ LastNames(box, h) => LastNames(box \o <<m>>, h)
      <4>. HIDE DEF box
      <4>1. box \in Seq(M)
        BY <3>1 DEF box
      <4>. QED
        BY <3>1, <4>1, OneMore
    <3>. QED
      BY <2>2, <3>2 DEF Console, Informed
  <2>. QED
    BY <1>1, <2>1, <2>2
<1>5. Informed' /\ Presence'
  BY <1>1, <1>4 DEF Console, Informed, Presence, Hearing
<1>. QED
  BY <1>3, <1>5 DEF Console, Membership, Leadership, Handlers, Handler

LEMMA AnnounceJoinConsole ==
    ASSUME NEW M, Message \subseteq M, Console(M), NEW a \in announcing, NEW v \in User, AnnounceJoin(a, v)
    PROVE  Console(M)'
<1>1. a \in Announcement /\ a.user \in User /\ a.room \in Room
  BY DEF Console, GTypes, GamesTypeOK, Announcement
<1>2. announcing' \subseteq Announcement
  <2>1. [a EXCEPT !.todo = @ \ {v}, !.told = @ \cup {v}] \in Announcement
    BY <1>1 DEF Announcement
  <2>. QED
    BY <2>1 DEF AnnounceJoin, Console, GTypes, GamesTypeOK
<1>3. Msg("JoinRoom", a.user) \in Message /\ Msg("JoinRoom", a.user).type # "HostMigration"
  BY <1>1, MsgIsMessage
<1>4. gameID[v] # NoRoom
  BY <1>1, GamesAssumption DEF AnnounceJoin, Console, Membership
<1>5. /\ inbox' = Written({v}, <<Msg("JoinRoom", a.user)>>)
      /\ UNCHANGED <<members, leader, online, connected, gameID, farewells, command, observing,
                     commands, logins>>
  BY DEF AnnounceJoin
<1>6. farewells' \subseteq User
  BY <1>5 DEF Console, GTypes, GamesTypeOK
<1>. QED
  BY <1>2, <1>3, <1>4, <1>5, <1>6, Tells

LEMMA BroadcastLeaveConsole ==
    ASSUME NEW M, Message \subseteq M, Console(M), NEW u \in User, BroadcastLeave(u)
    PROVE  Console(M)'
<1>1. /\ Msg("LeaveLobby", u) \in Message /\ Msg("LeaveLobby", u).type = "LeaveLobby"
      /\ "LeaveLobby" \notin RoomNews
  BY MsgIsMessage DEF RoomNews
<1>2. /\ inbox' = Written(User, <<Msg("LeaveLobby", u)>>)
      /\ UNCHANGED <<members, leader, online, connected, gameID, announcing, command, observing,
                     commands, logins>>
      /\ announcing' \subseteq Announcement /\ farewells' \subseteq User
  BY DEF BroadcastLeave, Console, GTypes, GamesTypeOK
<1>. QED
  BY <1>1, <1>2, Tells

\* An observer reads or gives up, or what is written to somebody is not of rooms.
LEMMA MailConsole ==
    ASSUME NEW M, Console(M), inbox' \in [User -> Seq(M)], observing' \subseteq observing,
           \A u \in User :
               /\ u \notin observing' => inbox'[u] = <<>>
               /\ \A m \in Letters(inbox'[u]) : m.type \in RoomNews => m \in Letters(inbox[u])
               /\ \A h : LastNames(inbox[u], h) => LastNames(inbox'[u], h),
           UNCHANGED <<consoleVars, command, commands, logins>>
    PROVE  Console(M)'
<1>1. UNCHANGED <<members, leader, online, connected, gameID, announcing, farewells>>
  BY DEF consoleVars
<1>2. GTypes(M)' /\ Presence'
  BY <1>1 DEF Console, GTypes, GamesTypeOK, Presence
<1>3. Handlers'
  BY <1>1 DEF Console, Handlers, Handler
<1>4. Informed'
  BY <1>1 DEF Console, Informed
<1>. QED
  BY <1>1, <1>2, <1>3, <1>4 DEF Console, Membership, Leadership

LEMMA TakeConsole ==
    ASSUME NEW M, Message \subseteq M, Console(M), NEW u \in User, Take(u), UNCHANGED observing
    PROVE  Console(M)'
<1>1. UNCHANGED <<members, leader, online, connected, gameID, announcing, farewells>>
  BY DEF Take, consoleVars
<1>2. /\ inbox[u] \in Seq(M) /\ inbox[u] # <<>> /\ u \in observing
      /\ inbox' = [inbox EXCEPT ![u] = Tail(inbox[u])]
  BY DEF Take, HasRead, Console, GTypes
<1>3. Tail(inbox[u]) \in Seq(M)
  BY <1>2, OneLess
<1>4. GTypes(M)'
  BY <1>1, <1>2, <1>3 DEF Take, Console, GTypes, GamesTypeOK
<1>5. Presence'
  BY <1>1, <1>2 DEF Console, GTypes, Presence
<1>6. Informed'
  <2>1. ASSUME NEW v \in User
        PROVE  /\ gameID[v] = NoRoom => \A l \in Letters(inbox'[v]) : l.type \notin RoomNews
               /\ gameID[v] # NoRoom /\ v \in connected => LastNames(inbox'[v], leader[gameID[v]])
    <3>1. CASE v = u
      BY <1>2, <3>1, OneLess DEF Console, GTypes, Informed
    <3>2. CASE v # u
      BY <1>2, <3>2 DEF Console, GTypes, Informed
    <3>. QED
      BY <3>1, <3>2
  <2>. QED
    BY <1>1, <2>1 DEF Informed
<1>. QED
  BY <1>1, <1>4, <1>5, <1>6 DEF Take, Console, Membership, Leadership, Handlers, Handler

\* A disconnect takes the user out of his room, whichever way.
LEMMA DisconnectRooms ==
    ASSUME NEW M, Message \subseteq M, Console(M), NEW u \in User, Disconnect(u)
    PROVE  /\ u \in online /\ online' = online \ {u} /\ observing' = observing \ {u}
           /\ connected' \subseteq connected \ {u}
           /\ farewells' = farewells \cup {u}
           /\ gameID' = [gameID EXCEPT ![u] = NoRoom]
           /\ UNCHANGED <<commands, logins>>
           /\ members' \in [Room -> SUBSET User] /\ leader' \in [Room -> User \cup {Nobody}]
           /\ \A q \in Room : /\ members'[q] = members[q] \ {u}
                              /\ q # gameID[u] => leader'[q] = leader[q]
                              /\ leader[q] # u => leader'[q] = leader[q]
           /\ Leadership'
<1>. DEFINE r == gameID[u]
<1>1. /\ u \in online /\ online' = online \ {u} /\ observing' = observing \ {u}
      /\ connected' \subseteq connected \ {u}
      /\ farewells' = farewells \cup {u}
      /\ gameID' = [gameID EXCEPT ![u] = NoRoom]
      /\ UNCHANGED <<commands, logins>>
  BY DEF Disconnect
<1>2. \A q \in Room : q # r => u \notin members[q]
  BY DEF Console, Membership
<1>3. /\ members \in [Room -> SUBSET User] /\ leader \in [Room -> User \cup {Nobody}]
      /\ Leadership /\ r \in Room \cup {NoRoom}
  BY DEF Console, GTypes, GamesTypeOK
<1>4. CASE r = NoRoom
  <2>1. UNCHANGED <<members, leader>>
    BY <1>4 DEF Disconnect
  <2>2. NoRoom \notin Room
    BY GamesAssumption
  <2>. QED
    BY <1>1, <1>2, <1>3, <1>4, <2>1, <2>2 DEF Leadership
<1>5. CASE r # NoRoom
  <2>1. r \in Room
    BY <1>3, <1>5
  <2>2. \/ Follow(r, u)
        \/ leader[r] = u /\ \E v \in members[r] : HandOver(r, v)
        \/ leader[r] = u /\ Close(r)
    BY <1>5 DEF Disconnect
  <2>. HIDE DEF r
  <2>3. CASE Follow(r, u)
    BY <1>1, <1>2, <1>3, <2>1, <2>3 DEF Follow, Leadership, r
  <2>4. ASSUME leader[r] = u, NEW v \in members[r], HandOver(r, v)
        PROVE  /\ members' \in [Room -> SUBSET User] /\ leader' \in [Room -> User \cup {Nobody}]
               /\ \A q \in Room : /\ members'[q] = members[q] \ {u}
                                  /\ q # r => leader'[q] = leader[q]
                                  /\ leader[q] # u => leader'[q] = leader[q]
               /\ Leadership'
    BY <1>2, <1>3, <2>1, <2>4 DEF HandOver, Leadership
  <2>5. CASE leader[r] = u /\ Close(r)
    BY <1>1, <1>2, <1>3, <2>1, <2>5 DEF Close, Leadership, r
  <2>. QED
    BY <1>1, <2>2, <2>3, <2>4, <2>5 DEF r
<1>. QED
  BY <1>4, <1>5

\* Who stays in the room learns of it, and who leads the room now.
LEMMA DisconnectNotices ==
    ASSUME NEW M, Message \subseteq M, Console(M), NEW u \in User, Disconnect(u)
    PROVE  /\ inbox'[u] = <<>>
           /\ inbox' \in [User -> Seq(M)]
           /\ \A v \in User \ (observing \cup {u}) : inbox'[v] = inbox[v]
           /\ \A v \in User \ {u} :
                 \/ inbox'[v] = inbox[v]
                 \/ /\ gameID[v] = gameID[u]
                    /\ inbox'[v] = inbox[v] \o <<Msg("LeaveRoom", u)>>
                 \/ /\ gameID[v] = gameID[u] /\ leader'[gameID[u]] \in User
                    /\ inbox'[v] = inbox[v] \o <<Msg("LeaveRoom", u),
                                                 Msg("HostMigration", leader'[gameID[u]])>>
           /\ Informed'
<1>. DEFINE r == gameID[u]
            rest == members[r] \ {u}
<1>0. inbox \in [User -> Seq(M)] /\ <<>> \in Seq(M)
  BY EmptyBox DEF Console, GTypes
<1>1. CASE r = NoRoom
  <2>1. inbox' = [inbox EXCEPT ![u] = <<>>] /\ UNCHANGED leader
    BY <1>1 DEF Disconnect
  <2>2. gameID' = [gameID EXCEPT ![u] = NoRoom] /\ connected' \subseteq connected
    BY DisconnectRooms
  <2>3. Informed'
    BY <1>0, <1>1, <2>1, <2>2, EmptyBox DEF Informed, Console, GTypes, GamesTypeOK
  <2>. QED
    BY <1>0, <2>1, <2>3
<1>2. CASE r # NoRoom
  <2>1. PICK half \in SUBSET rest : /\ connected' = connected \ ({u} \cup half)
                                    /\ inbox' = [LeaveNotices(r, u, half) EXCEPT ![u] = <<>>]
    BY <1>2 DEF Disconnect
  <2>2. /\ gameID' = [gameID EXCEPT ![u] = NoRoom]
        /\ \A q \in Room : /\ q # r => leader'[q] = leader[q]
                           /\ leader[q] # u => leader'[q] = leader[q]
                           /\ members'[q] = members[q] \ {u}
        /\ Leadership' /\ r \in Room /\ leader' \in [Room -> User \cup {Nobody}]
        /\ members \in [Room -> SUBSET User] /\ gameID \in [User -> Room \cup {NoRoom}]
    BY <1>2, DisconnectRooms DEF Console, GTypes, GamesTypeOK
  <2>3. \A v \in User : v \in rest <=> v # u /\ gameID[v] = r
    BY <2>2 DEF Console, Membership
  <2>4. rest # {} => leader'[r] \in User
    BY <2>2 DEF Leadership
  <2>5. Msg("LeaveRoom", u) \in Message /\ Msg("LeaveRoom", u).type # "HostMigration"
    BY MsgIsMessage
  <2>6. rest # {} => /\ Msg("HostMigration", leader'[r]) \in Message
                     /\ Msg("HostMigration", leader'[r]).type = "HostMigration"
                     /\ Msg("HostMigration", leader'[r]).user = leader'[r]
    BY <2>4, MsgIsMessage
  <2>7. \A v \in User : inbox'[v] =
            IF v = u THEN <<>>
            ELSE IF v \notin rest \cap Hearing THEN inbox[v]
            ELSE IF leader[r] # u \/ v \in half THEN Append(inbox[v], Msg("LeaveRoom", u))
            ELSE inbox[v] \o <<Msg("LeaveRoom", u), Msg("HostMigration", leader'[r])>>
    BY <2>1 DEF LeaveNotices
  <2>8. /\ DOMAIN inbox' = User
        /\ inbox' = [v \in User |-> inbox'[v]]
    BY <2>1 DEF LeaveNotices
  <2>9. ASSUME NEW v \in User
        PROVE  /\ inbox'[v] \in Seq(M)
               /\ gameID'[v] = NoRoom => \A m \in Letters(inbox'[v]) : m.type \notin RoomNews
               /\ gameID'[v] # NoRoom /\ v \in connected'
                      => LastNames(inbox'[v], leader'[gameID'[v]])
    <3>. HIDE DEF rest, r
    <3>1. CASE v = u
      BY <1>0, <2>7, <3>1, EmptyBox
    <3>2. CASE v # u /\ v \in rest \cap Hearing
      <4>1. gameID'[v] = r /\ gameID[v] = r /\ r # NoRoom /\ rest # {} /\ v \in connected
        BY <1>2, <2>2, <2>3, <3>2 DEF Hearing
      <4>2. CASE leader[r] = u /\ v \notin half
        <5>. DEFINE m == Msg("LeaveRoom", u)
                    n == Msg("HostMigration", leader'[r])
        <5>1. inbox'[v] = inbox[v] \o <<m, n>> /\ inbox[v] \in Seq(M)
          BY <1>0, <2>7, <3>2, <4>2
        <5>2. m \in Message /\ n \in Message /\ n.type = "HostMigration" /\ n.user = leader'[r]
          BY <2>5, <2>6, <4>1
        <5>. HIDE DEF m, n
        <5>3. inbox'[v] \in Seq(M) /\ LastNames(inbox'[v], leader'[r])
          BY <5>1, <5>2, TwoMore
        <5>. QED
          BY <4>1, <5>3
      <4>3. CASE leader[r] # u \/ v \in half
        <5>1. v \notin half => LastNames(inbox[v], leader[r]) /\ leader'[r] = leader[r]
          BY <2>2, <4>1, <4>3 DEF Console, Informed
        <5>. DEFINE m == Msg("LeaveRoom", u)
        <5>2. inbox[v] \in Seq(M) /\ m \in Message /\ m.type # "HostMigration"
          BY <1>0, <2>5
        <5>3. inbox'[v] = Append(inbox[v], m)
          BY <2>7, <3>2, <4>3
        <5>. HIDE DEF m
        <5>4. inbox'[v] = inbox[v] \o <<m>>
          BY <5>2, <5>3
        <5>5. /\ inbox'[v] \in Seq(M)
              /\ \A h : LastNames(inbox[v], h) => LastNames(inbox'[v], h)
          BY <5>2, <5>4, OneMore
        <5>6. v \in half => v \notin connected'
          BY <2>1
        <5>. QED
          BY <4>1, <5>1, <5>5, <5>6
      <4>. QED
        BY <4>2, <4>3
    <3>3. CASE v # u /\ v \notin rest \cap Hearing
      <4>1. inbox'[v] = inbox[v] /\ gameID'[v] = gameID[v]
        BY <2>2, <2>7, <3>3
      <4>2. CASE v \notin observing
        BY <1>0, <3>3, <4>1, <4>2, EmptyBox DEF Console, Presence, Letters
      <4>3. CASE v \in observing
        <5>1. gameID[v] # r \/ v \notin connected
          BY <2>3, <3>3, <4>3 DEF Hearing
        <5>2. v \in connected' => v \in connected
          BY <2>1
        <5>3. gameID[v] # NoRoom /\ v \in connected => leader'[gameID[v]] = leader[gameID[v]]
          BY <2>2, <5>1
        <5>. QED
          BY <1>0, <4>1, <5>2, <5>3 DEF Console, Informed
      <4>. QED
        BY <4>2, <4>3
    <3>. QED
      BY <3>1, <3>2, <3>3
  <2>10. inbox' \in [User -> Seq(M)] /\ Informed'
    BY <2>8, <2>9 DEF Informed
  <2>11. ASSUME NEW v \in User \ {u}
         PROVE  \/ inbox'[v] = inbox[v]
                \/ /\ gameID[v] = gameID[u]
                   /\ inbox'[v] = inbox[v] \o <<Msg("LeaveRoom", u)>>
                \/ /\ gameID[v] = gameID[u] /\ leader'[gameID[u]] \in User
                   /\ inbox'[v] = inbox[v] \o <<Msg("LeaveRoom", u),
                                                Msg("HostMigration", leader'[gameID[u]])>>
    <3>1. inbox[v] \in Seq(M) /\ Msg("LeaveRoom", u) \in M
      BY <1>0, <2>5
    <3>2. Append(inbox[v], Msg("LeaveRoom", u)) = inbox[v] \o <<Msg("LeaveRoom", u)>>
      BY <3>1
    <3>3. CASE v \in rest
      BY <2>3, <2>4, <2>7, <3>2, <3>3
    <3>4. CASE v \notin rest
      BY <2>7, <3>4
    <3>. QED
      BY <3>3, <3>4
  <2>. QED
    BY <2>7, <2>10, <2>11 DEF Hearing
<1>. QED
  BY <1>1, <1>2

\* Handlers keep their place, and who is still there to be told of somebody's
\* joining will be.
LEMMA DisconnectOthers ==
    ASSUME NEW M, Message \subseteq M, Console(M), NEW u \in User, Disconnect(u)
    PROVE  /\ command' \in [User -> Command]
           /\ \A v \in User : command'[v].pc = command[v].pc /\ command'[v].room = command[v].room
           /\ announcing' \subseteq Announcement
           /\ \A a \in announcing : members'[a.room] # {} => a \in announcing'
<1>. DEFINE r == gameID[u]
<1>1. CASE r = NoRoom
  BY <1>1 DEF Disconnect, Console, GTypes, GamesTypeOK
<1>2. CASE r # NoRoom
  <2>1. /\ command' = IF members'[r] = {} THEN Forget(r) ELSE command
        /\ announcing' = {IF members'[a.room] = {} THEN Cut(a) ELSE a : a \in announcing}
    BY <1>2 DEF Disconnect
  <2>2. \A c \in Command : /\ [c EXCEPT !.alive = FALSE] \in Command
                           /\ [c EXCEPT !.alive = FALSE].pc = c.pc
                           /\ [c EXCEPT !.alive = FALSE].room = c.room
    BY DEF Command
  <2>3. command \in [User -> Command] /\ announcing \subseteq Announcement
    BY DEF Console, GTypes, GamesTypeOK
  <2>4. \A a \in Announcement : Cut(a) \in Announcement
    BY DEF Cut, Announcement
  <2>. QED
    BY <2>1, <2>2, <2>3, <2>4 DEF Forget
<1>. QED
  BY <1>1, <1>2

LEMMA DisconnectConsole ==
    ASSUME NEW M, Message \subseteq M, Console(M), NEW u \in User, Disconnect(u)
    PROVE  Console(M)'
<1>1. /\ u \in online /\ online' = online \ {u} /\ observing' = observing \ {u}
      /\ connected' \subseteq connected \ {u}
      /\ farewells' = farewells \cup {u}
      /\ gameID' = [gameID EXCEPT ![u] = NoRoom]
      /\ UNCHANGED <<commands, logins>>
      /\ members' \in [Room -> SUBSET User] /\ leader' \in [Room -> User \cup {Nobody}]
      /\ \A q \in Room : members'[q] = members[q] \ {u}
      /\ Leadership'
  BY DisconnectRooms
<1>2. /\ inbox' \in [User -> Seq(M)] /\ Informed' /\ inbox'[u] = <<>>
      /\ \A v \in User \ (observing \cup {u}) : inbox'[v] = inbox[v]
  BY DisconnectNotices
<1>3. /\ command' \in [User -> Command] /\ announcing' \subseteq Announcement
      /\ \A v \in User : command'[v].pc = command[v].pc /\ command'[v].room = command[v].room
  BY DisconnectOthers
<1>4. GTypes(M)'
  BY <1>1, <1>2, <1>3 DEF Console, GTypes, GamesTypeOK
<1>5. Membership'
  BY <1>1, GamesAssumption DEF Console, GTypes, GamesTypeOK, Membership
<1>6. Handlers'
  BY <1>1, <1>3 DEF Console, GTypes, GamesTypeOK, Handlers, Handler
<1>7. Presence'
  BY <1>1, <1>2 DEF Console, GTypes, GamesTypeOK, Presence
<1>. QED
  BY <1>1, <1>2, <1>4, <1>5, <1>6, <1>7 DEF Console

LEMMA InitConsole ==
    ASSUME NEW M, GamesInit
    PROVE  Console(M)
<1>1. /\ inbox = [u \in User |-> <<>>] /\ gameID = [u \in User |-> NoRoom]
      /\ command = [u \in User |-> At("idle")] /\ At("idle") \in Command
      /\ At("idle").pc = "idle"
      /\ members = [r \in Room |-> {}] /\ leader = [r \in Room |-> Nobody]
      /\ online = User /\ connected = User /\ observing = User /\ announcing = {} /\ farewells = {}
      /\ commands = 0 /\ logins = 0
  BY AtIsCommand DEF GamesInit, DirInit
<1>2. GTypes(M)
  BY <1>1, EmptyBox, GamesAssumption DEF GTypes, GamesTypeOK
<1>3. Membership /\ Leadership /\ Presence /\ Handlers /\ Informed
  BY <1>1, EmptyBox, GamesAssumption
     DEF Membership, Leadership, Presence, Handlers, Handler, Informed
<1>. QED
  BY <1>2, <1>3 DEF Console

-----------------------------------------------------------------------------
(***************************************************************************)
(* What a game knows of its room: its players P, its host.  Both are right *)
(* only once the inbox is empty.  Before, the host is the one the last     *)
(* HostMigration names; a player too many is about to be reported gone,    *)
(* and one missing about to be announced.                                  *)
(***************************************************************************)

Leaving(u, v) ==
    \/ v \in farewells
    \/ \E m \in Letters(inbox[u]) : m.user = v /\ m.type \in {"LeaveRoom", "LeaveLobby"}

Arriving(u, v) ==
    \/ \E m \in Letters(inbox[u]) : m.user = v /\ m.type = "JoinRoom"
    \/ \E a \in announcing : a.user = v /\ a.room = gameID[u] /\ u \in a.todo

Roster(u, P, r) ==
    /\ gameID[u] \in {NoRoom, r} => \A v \in P \ (members[r] \cup {u}) : Leaving(u, v)
    /\ gameID[u] = r => \A v \in members[r] \ (P \cup {u}) : Arriving(u, v)

HostIs(u, h) == gameID[u] # NoRoom /\ NoMigration(inbox[u]) => h = leader[gameID[u]]

\* A step that tells u of every change it makes to a room.
WellTold(u) ==
    /\ gameID'[u] = gameID[u]
    /\ gameID[u] # NoRoom /\ NoMigration(inbox'[u]) =>
           NoMigration(inbox[u]) /\ leader'[gameID[u]] = leader[gameID[u]]
    /\ \A v \in User : Leaving(u, v) => Leaving(u, v)'
    /\ \A r \in Room : \A v \in members[r] \ members'[r] : Leaving(u, v)'
    /\ gameID[u] # NoRoom =>
           \A v \in members'[gameID[u]] :
               v \in members[gameID[u]] /\ Arriving(u, v) => Arriving(u, v)'
    /\ gameID[u] # NoRoom =>
           \A v \in members'[gameID[u]] \ members[gameID[u]] : Arriving(u, v)'

LEMMA RosterKept ==
    ASSUME NEW u \in User, NEW P \in SUBSET User, NEW r \in Room, Roster(u, P, r), WellTold(u)
    PROVE  Roster(u, P, r)'
BY GamesAssumption DEF Roster, WellTold

LEMMA HostKept ==
    ASSUME NEW u \in User, NEW h, HostIs(u, h), WellTold(u)
    PROVE  HostIs(u, h)'
BY DEF HostIs, WellTold

LEMMA ConsoleTypes ==
    ASSUME NEW M, Console(M)
    PROVE  /\ command \in [User -> Command] /\ gameID \in [User -> Room \cup {NoRoom}]
           /\ members \in [Room -> SUBSET User] /\ leader \in [Room -> User \cup {Nobody}]
           /\ announcing \subseteq Announcement
           /\ inbox \in [User -> Seq(M)]
BY DEF Console, GTypes, GamesTypeOK

\* One who reads the next message and heeds it: Q is what P becomes.
LEMMA RosterRead ==
    ASSUME NEW M, Console(M), NEW u \in User, NEW r \in Room, NEW P \in SUBSET User,
           Roster(u, P, r), NEW m, Letters(inbox[u]) \subseteq Letters(inbox'[u]) \cup {m},
           UNCHANGED <<members, gameID, announcing, farewells>>, NEW Q \in SUBSET User,
           m.type = "JoinRoom" =>
               /\ P \subseteq Q /\ Q \subseteq P \cup {m.user} /\ m.user \in Q \cup {u}
               /\ m.user \notin members[r] \cup {u} => Leaving(u, m.user)',
           m.type \in {"LeaveRoom", "LeaveLobby"} =>
               m.user \notin members[r] \cup {u} /\ Q = P \ {m.user},
           m.type \notin {"JoinRoom", "LeaveRoom", "LeaveLobby"} => Q = P
    PROVE  Roster(u, Q, r)'
<1>1. \A v : Leaving(u, v) => Leaving(u, v)' \/ (v = m.user /\ m.type \in {"LeaveRoom", "LeaveLobby"})
  BY DEF Leaving
<1>2. \A v : Arriving(u, v) => Arriving(u, v)' \/ (v = m.user /\ m.type = "JoinRoom")
  BY DEF Arriving
<1>. QED
  BY <1>1, <1>2 DEF Roster

\* Once everything is read the players are the players of the room.
LEMMA RosterMet ==
    ASSUME NEW u \in User, NEW r \in Room, NEW P, Membership, Settled(u, r), Roster(u, P, r)
    PROVE  P \cup {u} = members[r]
<1>1. \A v : ~Leaving(u, v) /\ ~Arriving(u, v)
  BY EmptyBox DEF Settled, Leaving, Arriving
<1>2. gameID[u] = r /\ u \in members[r]
  BY DEF Settled, Membership
<1>. QED
  BY <1>1, <1>2 DEF Roster

\* Nothing u could be told of has happened, to anybody.
LEMMA NothingToTell ==
    ASSUME NEW u \in User, inbox'[u] = inbox[u],
           UNCHANGED <<members, leader, gameID, announcing, farewells>>
    PROVE  WellTold(u)
BY DEF WellTold, Leaving, Arriving

\* Nor is a signal anything he is told of a room.
LEMMA NewsStays ==
    ASSUME NEW u \in User, UNCHANGED <<members, leader, gameID, announcing, farewells>>,
           \A m \in Letters(inbox[u]) :
               m.type \in RoomNews \cup {"LeaveLobby"} => m \in Letters(inbox'[u])
    PROVE  WellTold(u)
<1>1. NoMigration(inbox'[u]) => NoMigration(inbox[u])
  BY DEF NoMigration, RoomNews
<1>2. \A v : (Leaving(u, v) => Leaving(u, v)') /\ (Arriving(u, v) => Arriving(u, v)')
  BY DEF Leaving, Arriving, RoomNews
<1>. QED
  BY <1>1, <1>2 DEF WellTold

\* Who is in the room will be told of who enters it.
LEMMA JoinRoomTells ==
    ASSUME NEW M, Message \subseteq M, Console(M), NEW u \in User, JoinRoom(u),
           NEW w \in User \ {u}
    PROVE  WellTold(w)
<1>1. PICK r : r = command[u].room
  OBVIOUS
<1>. DEFINE b == [user |-> u, room |-> r, todo |-> members[r], told |-> {}, alive |-> TRUE]
<1>2. /\ r \in Room /\ r # NoRoom /\ u \notin members[r]
      /\ members' = [members EXCEPT ![r] = @ \cup {u}]
      /\ gameID' = [gameID EXCEPT ![u] = r]
      /\ announcing' = announcing \cup {b}
      /\ UNCHANGED <<leader, farewells, inbox>>
  BY <1>1, JoinRoomEffect
<1>3. gameID'[w] = gameID[w]
  BY <1>2, ConsoleTypes
<1>4. \A v : (Leaving(w, v) => Leaving(w, v)') /\ (Arriving(w, v) => Arriving(w, v)')
  BY <1>2, <1>3 DEF Leaving, Arriving
<1>5. \A q \in Room : /\ members[q] \subseteq members'[q]
                      /\ \A v \in members'[q] \ members[q] : q = r /\ v = u
  BY <1>2, ConsoleTypes
<1>6. ASSUME gameID[w] = r PROVE Arriving(w, u)'
  <2>1. w \in members[r]
    BY <1>2, <1>6 DEF Console, Membership
  <2>2. b \in announcing' /\ b.user = u /\ b.room = gameID'[w] /\ w \in b.todo
    BY <1>2, <1>3, <1>6, <2>1
  <2>. QED
    BY <2>2 DEF Arriving
<1>7. gameID[w] # NoRoom => gameID[w] \in Room
  BY ConsoleTypes
<1>. QED
  BY <1>2, <1>3, <1>4, <1>5, <1>6, <1>7 DEF WellTold

\* What CreateRoom does, if it may, and what the one who calls it knows of the
\* room afterwards: whoever he thought to be there is still about to go.
LEMMA CreateRoomEffect ==
    ASSUME NEW M, Console(M), NEW u \in User, CreateRoom(u), MayCreate(u)
    PROVE  \E r \in Room :
              /\ r # NoRoom /\ members[r] = {} /\ gameID[u] = NoRoom
              /\ members' = [members EXCEPT ![r] = {u}]
              /\ leader' = [leader EXCEPT ![r] = u]
              /\ gameID' = [gameID EXCEPT ![u] = r]
              /\ gameID'[u] = r /\ leader'[r] = u /\ members'[r] = {u}
              /\ \A q \in Room \ {r} : members'[q] = members[q] /\ leader'[q] = leader[q]
              /\ \A w \in User : gameID[w] # r
<1>1. PICK r : r = command[u].room
  OBVIOUS
<1>2. /\ r \in Room /\ r # NoRoom /\ members[r] = {}
      /\ members' = [members EXCEPT ![r] = {u}]
      /\ leader' = [leader EXCEPT ![r] = u]
      /\ gameID' = [gameID EXCEPT ![u] = r]
      /\ gameID[u] \in {NoRoom, r}
  BY <1>1, GamesAssumption
     DEF CreateRoom, MayCreate, OpenRoom, IsAt, Console, Handlers, Handler
<1>3. \A w \in User : gameID[w] # r
  BY <1>2 DEF Console, Membership
<1>. QED
  BY <1>2, <1>3, ConsoleTypes

LEMMA OwnRoomCreated ==
    ASSUME NEW M, Console(M), NEW u \in User, CreateRoom(u), MayCreate(u),
           NEW P \in SUBSET User, NEW q \in Room, Roster(u, P, q)
    PROVE  Roster(u, P, q)'
<1>1. PICK r \in Room : /\ r # NoRoom /\ members[r] = {} /\ gameID[u] = NoRoom
                        /\ gameID'[u] = r /\ members'[r] = {u}
  BY CreateRoomEffect
<1>2. \A v : Leaving(u, v) => Leaving(u, v)'
  BY DEF CreateRoom, Leaving
<1>. QED
  BY <1>1, <1>2 DEF Roster

\* And who joins a room, if he knew everybody there.
LEMMA OwnRoomJoined ==
    ASSUME NEW M, Message \subseteq M, Console(M), NEW u \in User, JoinRoom(u),
           NEW P \in SUBSET User, NEW q \in Room, Roster(u, P, q),
           q = command[u].room => members[q] \subseteq P
    PROVE  Roster(u, P, q)'
<1>1. PICK r : r = command[u].room
  OBVIOUS
<1>2. /\ r \in Room /\ r # NoRoom /\ gameID[u] = NoRoom
      /\ members' = [members EXCEPT ![r] = @ \cup {u}]
      /\ gameID' = [gameID EXCEPT ![u] = r]
      /\ UNCHANGED <<farewells, inbox>>
  BY <1>1, JoinRoomEffect
<1>3. gameID'[u] = r /\ members'[r] = members[r] \cup {u}
  BY <1>2, ConsoleTypes
<1>4. \A v : Leaving(u, v) => Leaving(u, v)'
  BY <1>2 DEF Leaving
<1>. QED
  BY <1>1, <1>2, <1>3, <1>4 DEF Roster

LEMMA CreateRoomTells ==
    ASSUME NEW M, Message \subseteq M, Console(M), NEW u \in User, CreateRoom(u),
           NEW w \in User \ {u}
    PROVE  WellTold(w)
<1>1. UNCHANGED <<announcing, farewells, inbox>>
  BY DEF CreateRoom
<1>2. CASE MayCreate(u)
  <2>1. PICK r \in Room :
            /\ members' = [members EXCEPT ![r] = {u}] /\ members[r] = {}
            /\ gameID' = [gameID EXCEPT ![u] = r]
            /\ \A q \in Room \ {r} : members'[q] = members[q] /\ leader'[q] = leader[q]
            /\ gameID[w] # r
    BY <1>2, CreateRoomEffect
  <2>3. gameID'[w] = gameID[w] /\ gameID[w] \in Room \cup {NoRoom}
    BY <2>1, ConsoleTypes
  <2>4. \A q \in Room : members[q] \subseteq members'[q]
    BY <2>1, ConsoleTypes
  <2>5. \A v : (Leaving(w, v) => Leaving(w, v)') /\ (Arriving(w, v) => Arriving(w, v)')
    BY <1>1, <2>3 DEF Leaving, Arriving
  <2>. QED
    BY <1>1, <2>1, <2>3, <2>4, <2>5 DEF WellTold
<1>3. CASE ~MayCreate(u)
  <2>1. UNCHANGED <<members, leader, gameID>>
    BY <1>3 DEF CreateRoom
  <2>. QED
    BY <1>1, <2>1, NothingToTell
<1>. QED
  BY <1>2, <1>3

\* A message that says nothing of the host, written to some of those observed.
LEMMA TellingKeeps ==
    ASSUME NEW M, Console(M), NEW S, NEW m \in M, m.type # "HostMigration",
           inbox' = Written(S, <<m>>), NEW w \in User
    PROVE  /\ NoMigration(inbox'[w]) => NoMigration(inbox[w])
           /\ Letters(inbox[w]) \subseteq Letters(inbox'[w])
           /\ w \in S \cap Hearing => m \in Letters(inbox'[w])
<1>. DEFINE box == inbox[w]
<1>1. inbox'[w] = IF w \in S \cap Hearing THEN box \o <<m>> ELSE box
  BY DEF Written
<1>2. box \in Seq(M)
  BY ConsoleTypes
<1>. HIDE DEF box
<1>3. Letters(box \o <<m>>) = Letters(box) \cup {m}
  BY <1>2, OneMore
<1>4. w \in observing => w \in online
  BY DEF Console, Presence
<1>. QED
  BY <1>1, <1>3, <1>4 DEF NoMigration, box

LEMMA AnnounceJoinTells ==
    ASSUME NEW M, Message \subseteq M, Console(M), NEW a \in announcing, NEW v \in User,
           AnnounceJoin(a, v), NEW w \in Hearing
    PROVE  WellTold(w)
<1>. DEFINE m == Msg("JoinRoom", a.user)
            b == [a EXCEPT !.todo = @ \ {v}, !.told = @ \cup {v}]
<1>1. a \in Announcement /\ a.user \in User /\ a.room \in Room /\ w \in User
  BY ConsoleTypes DEF Announcement, Console, GTypes, GamesTypeOK, Hearing
<1>2. m \in M /\ m.type = "JoinRoom" /\ m.user = a.user
  BY <1>1, MsgIsMessage
<1>3. /\ announcing' = (announcing \ {a}) \cup {b}
      /\ inbox' = Written({v}, <<m>>)
      /\ UNCHANGED <<members, leader, gameID, farewells>>
  BY DEF AnnounceJoin
<1>4. b.user = a.user /\ b.room = a.room /\ b.todo = a.todo \ {v}
  BY <1>1 DEF Announcement
<1>. HIDE DEF m, b
<1>5. /\ NoMigration(inbox'[w]) => NoMigration(inbox[w])
      /\ Letters(inbox[w]) \subseteq Letters(inbox'[w])
      /\ w = v => m \in Letters(inbox'[w])
  BY <1>1, <1>2, <1>3, TellingKeeps
<1>6. \A x : Leaving(w, x) => Leaving(w, x)'
  BY <1>3, <1>5 DEF Leaving
<1>7. ASSUME NEW x, Arriving(w, x) PROVE Arriving(w, x)'
  <2>1. CASE \E l \in Letters(inbox[w]) : l.user = x /\ l.type = "JoinRoom"
    BY <1>5, <2>1 DEF Arriving
  <2>2. ASSUME NEW c \in announcing, c.user = x, c.room = gameID[w], w \in c.todo
        PROVE  Arriving(w, x)'
    <3>1. CASE c # a
      BY <1>3, <2>2, <3>1 DEF Arriving
    <3>2. CASE c = a /\ w = v
      BY <1>2, <1>5, <2>2, <3>2 DEF Arriving
    <3>3. CASE c = a /\ w # v
      <4>1. b \in announcing' /\ b.user = x /\ b.room = gameID'[w] /\ w \in b.todo
        BY <1>3, <1>4, <2>2, <3>3
      <4>. QED
        BY <4>1 DEF Arriving
    <3>. QED
      BY <3>1, <3>2, <3>3
  <2>. QED
    BY <1>7, <2>1, <2>2 DEF Arriving
<1>. QED
  BY <1>3, <1>5, <1>6, <1>7 DEF WellTold

\* Nobody is still to be told when the call is answered, or the one who joined
\* has left.
LEMMA AnswerTells ==
    ASSUME NEW M, Console(M), NEW a \in announcing, NEW c, Answer(a, c), NEW w \in User
    PROVE  WellTold(w)
<1>1. /\ announcing' = announcing \ {a}
      /\ UNCHANGED <<members, leader, gameID, farewells, inbox>>
      /\ Announced(a) \/ a.user \notin online
  BY DEF Answer
<1>2. \A x : Leaving(w, x) => Leaving(w, x)'
  BY <1>1 DEF Leaving
<1>3. ASSUME NEW x \in User, gameID[w] # NoRoom, x \in members[gameID[w]], Arriving(w, x)
      PROVE  Arriving(w, x)'
  <2>1. CASE \E l \in Letters(inbox[w]) : l.user = x /\ l.type = "JoinRoom"
    BY <1>1, <2>1 DEF Arriving
  <2>2. ASSUME NEW d \in announcing, d.user = x, d.room = gameID[w], w \in d.todo
        PROVE  Arriving(w, x)'
    <3>1. gameID[w] \in Room /\ w \in members[gameID[w]] /\ x \in online
      BY <1>3, ConsoleTypes, GamesAssumption DEF Console, Membership, Presence
    <3>2. d # a
      BY <1>1, <2>2, <3>1 DEF Announced
    <3>. QED
      BY <1>1, <2>2, <3>2 DEF Arriving
  <2>. QED
    BY <1>3, <2>1, <2>2 DEF Arriving
<1>4. gameID[w] # NoRoom => members[gameID[w]] \subseteq User
  BY ConsoleTypes
<1>. QED
  BY <1>1, <1>2, <1>3, <1>4 DEF WellTold

\* The broadcast reaches everybody who can be written to and listens.
LEMMA BroadcastLeaveTells ==
    ASSUME NEW M, Message \subseteq M, Console(M), NEW u \in User, BroadcastLeave(u),
           NEW w \in Hearing
    PROVE  WellTold(w)
<1>. DEFINE m == Msg("LeaveLobby", u)
<1>1. m \in M /\ m.type = "LeaveLobby" /\ m.user = u /\ w \in User
  BY MsgIsMessage DEF Console, GTypes, GamesTypeOK, Hearing
<1>2. /\ farewells' = farewells \ {u}
      /\ inbox' = Written(User, <<m>>)
      /\ UNCHANGED <<members, leader, gameID, announcing>>
  BY DEF BroadcastLeave
<1>. HIDE DEF m
<1>3. /\ NoMigration(inbox'[w]) => NoMigration(inbox[w])
      /\ Letters(inbox[w]) \subseteq Letters(inbox'[w])
      /\ m \in Letters(inbox'[w])
  BY <1>1, <1>2, TellingKeeps
<1>4. \A x : Leaving(w, x) => Leaving(w, x)'
  BY <1>1, <1>2, <1>3 DEF Leaving
<1>5. \A x : Arriving(w, x) => Arriving(w, x)'
  BY <1>2, <1>3 DEF Arriving
<1>. QED
  BY <1>2, <1>3, <1>4, <1>5 DEF WellTold

\* Who stays in the room is told of the departure, and of the new host, unless
\* a write to him fails.
LEMMA DisconnectTells ==
    ASSUME NEW M, Message \subseteq M, Console(M), NEW u \in User, Disconnect(u),
           NEW w \in Hearing'
    PROVE  WellTold(w)
<1>0. w \in User /\ w # u /\ w \in online /\ w \in Hearing
  BY DisconnectRooms DEF Console, GTypes, GamesTypeOK, Presence, Hearing
<1>1. /\ farewells' = farewells \cup {u}
      /\ gameID' = [gameID EXCEPT ![u] = NoRoom]
      /\ \A q \in Room : /\ members'[q] = members[q] \ {u}
                         /\ q # gameID[u] => leader'[q] = leader[q]
                         /\ leader[q] # u => leader'[q] = leader[q]
  BY DisconnectRooms
<1>2. \/ inbox'[w] = inbox[w]
      \/ inbox'[w] = inbox[w] \o <<Msg("LeaveRoom", u)>>
      \/ /\ leader'[gameID[u]] \in User
         /\ inbox'[w] = inbox[w] \o <<Msg("LeaveRoom", u),
                                      Msg("HostMigration", leader'[gameID[u]])>>
  BY <1>0, DisconnectNotices
<1>3. \A a \in announcing : members'[a.room] # {} => a \in announcing'
  BY DisconnectOthers
<1>4. gameID'[w] = gameID[w]
  BY <1>0, <1>1, ConsoleTypes
<1>5. inbox[w] \in Seq(M) /\ Msg("LeaveRoom", u) \in M
      /\ \A h \in User : Msg("HostMigration", h) \in M /\ Msg("HostMigration", h).type = "HostMigration"
  BY <1>0, ConsoleTypes, MsgIsMessage
<1>6. /\ Letters(inbox[w]) \subseteq Letters(inbox'[w])
      /\ NoMigration(inbox'[w]) => NoMigration(inbox[w])
  <2>1. CASE inbox'[w] = inbox[w]
    BY <2>1
  <2>2. CASE inbox'[w] = inbox[w] \o <<Msg("LeaveRoom", u)>>
    BY <1>5, <2>2, OneMore DEF NoMigration
  <2>3. CASE /\ leader'[gameID[u]] \in User
             /\ inbox'[w] = inbox[w] \o <<Msg("LeaveRoom", u),
                                          Msg("HostMigration", leader'[gameID[u]])>>
    BY <1>5, <2>3, TwoMore DEF NoMigration
  <2>. QED
    BY <1>2, <2>1, <2>2, <2>3
<1>7. ASSUME gameID[w] # NoRoom, NoMigration(inbox'[w])
      PROVE  leader'[gameID[w]] = leader[gameID[w]]
  <2>1. gameID[w] \in Room
    BY <1>0, <1>7, ConsoleTypes
  <2>2. CASE gameID[w] # gameID[u] \/ leader[gameID[w]] # u
    BY <1>1, <2>1, <2>2
  <2>3. CASE gameID[w] = gameID[u] /\ leader[gameID[w]] = u
    <3>1. w \in members[gameID[u]] \ {u} /\ gameID[u] # NoRoom
      BY <1>0, <1>7, <2>1, <2>3 DEF Console, Membership
    <3>2. PICK half \in SUBSET (members[gameID[u]] \ {u}) :
              /\ connected' = connected \ ({u} \cup half)
              /\ inbox' = [LeaveNotices(gameID[u], u, half) EXCEPT ![u] = <<>>]
      BY <3>1 DEF Disconnect
    <3>3. inbox'[w] = inbox[w] \o <<Msg("LeaveRoom", u),
                                    Msg("HostMigration", leader'[gameID[u]])>>
      <4>1. w \notin half
        BY <3>2 DEF Hearing
      <4>. QED
        BY <1>0, <2>3, <3>1, <3>2, <4>1 DEF LeaveNotices
    <3>4. leader'[gameID[u]] \in User
      <4>1. Leadership' /\ members'[gameID[u]] # {} /\ gameID[u] \in Room
            /\ members'[gameID[u]] \subseteq User
        BY <1>1, <2>1, <2>3, <3>1, DisconnectRooms
      <4>. QED
        BY <4>1 DEF Leadership
    <3>5. Msg("HostMigration", leader'[gameID[u]]) \in Letters(inbox'[w])
      BY <1>5, <3>3, <3>4, TwoMore
    <3>. QED
      BY <1>5, <1>7, <3>4, <3>5 DEF NoMigration
  <2>. QED
    BY <2>2, <2>3
<1>8. \A x : Leaving(w, x) \/ x = u => Leaving(w, x)'
  BY <1>1, <1>6 DEF Leaving
<1>9. ASSUME NEW x, gameID[w] # NoRoom, Arriving(w, x) PROVE Arriving(w, x)'
  <2>1. CASE \E l \in Letters(inbox[w]) : l.user = x /\ l.type = "JoinRoom"
    BY <1>6, <2>1 DEF Arriving
  <2>2. ASSUME NEW c \in announcing, c.user = x, c.room = gameID[w], w \in c.todo
        PROVE  Arriving(w, x)'
    <3>1. gameID[w] \in Room /\ w \in members'[gameID[w]]
      BY <1>0, <1>1, <1>9, ConsoleTypes DEF Console, Membership
    <3>. QED
      BY <1>3, <1>4, <2>2, <3>1 DEF Arriving
  <2>. QED
    BY <1>9, <2>1, <2>2 DEF Arriving
<1>10. gameID[w] # NoRoom => gameID[w] \in Room
  BY <1>0, ConsoleTypes
<1>. QED
  BY <1>1, <1>4, <1>6, <1>7, <1>8, <1>9, <1>10 DEF WellTold

=============================================================================
