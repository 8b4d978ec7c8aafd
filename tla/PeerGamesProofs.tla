--------------------------- MODULE PeerGamesProofs ---------------------------
(***************************************************************************)
(* Proofs about PeerGames, for any finite set of users, any number of      *)
(* rooms, commands, departures, failed writes and addresses.  That only    *)
(* races hurt, but for the news of a guest, is TLC's to show.              *)
(***************************************************************************)
EXTENDS PeerGames, GamesProofs, FiniteSetTheorems

ProxyTypes ==
    /\ game \in [User -> Game \cup {NoGame}]
    /\ taken \in [User -> 0..2 * RingSize]
    /\ peers \in [User -> [User -> Peer \cup {NoPeer}]]
    /\ fate \in [User -> {"fine", "deaf", "failed", "panic"}]
    /\ raced \in BOOLEAN

(***************************************************************************)
(* Addresses.  Until the ring has wrapped no peer has an address it has    *)
(* not given out, and no two have the same.                                *)
(***************************************************************************)

Apart(ps, t) ==
    t <= RingSize =>
        \A v \in User : ps[v] # NoPeer =>
            /\ ps[v] <= t
            /\ \A w \in User \ {v} : ps[w] # NoPeer /\ ps[v] = ps[w] => ps[v] = 0

Addresses == \A u \in User : Apart(peers[u], taken[u])

(***************************************************************************)
(* What a game knows of its room, as long as no race has hit.              *)
(***************************************************************************)

Follows(u) == u \in Hearing /\ game[u] # NoGame /\ gameID[u] = game[u].id

HostOf(u) ==
    /\ IsAt(u, "offline") => game[u] = NoGame
    /\ game[u] = NoGame => Known(u) = {}
    /\ IsAt(u, "creating") /\ u \in Hearing /\ gameID[u] = NoRoom =>
           game[u] # NoGame /\ game[u].host = u
    /\ Follows(u) => HostIs(u, game[u].host)

RosterOf(u) == u \in Hearing /\ game[u] # NoGame => Roster(u, Known(u), game[u].id)

Told(u) == HostOf(u) /\ RosterOf(u)

PeerInv ==
    /\ Console(Message) /\ ProxyTypes /\ Addresses
    /\ ~raced => \A u \in User : Told(u)

\* What a step has to keep of it besides the console's part.
ProxyRight == ProxyTypes /\ Addresses /\ (~raced => \A u \in User : Told(u))

-----------------------------------------------------------------------------

LEMMA Types ==
    ASSUME PeerInv
    PROVE  /\ command \in [User -> Command] /\ gameID \in [User -> Room \cup {NoRoom}]
           /\ members \in [Room -> SUBSET User] /\ leader \in [Room -> User \cup {Nobody}]
           /\ announcing \subseteq Announcement /\ observing \subseteq User
           /\ inbox \in [User -> Seq(Message)]
           /\ game \in [User -> Game \cup {NoGame}]
           /\ taken \in [User -> 0..2 * RingSize]
           /\ peers \in [User -> [User -> Peer \cup {NoPeer}]]
           /\ fate \in [User -> {"fine", "deaf", "failed", "panic"}]
           /\ Console(Message)
BY DEF PeerInv, Console, GTypes, GamesTypeOK, ProxyTypes

LEMMA GameTypes ==
    ASSUME PeerInv, NEW u \in User, game[u] # NoGame
    PROVE  game[u] \in Game /\ game[u].id \in Room /\ game[u].id # NoRoom /\ game[u].host \in User
BY Types, GamesAssumption DEF Game

LEMMA NewGame ==
    ASSUME NEW r \in Room, NEW h \in User
    PROVE  /\ [id |-> r, host |-> h] \in Game /\ [id |-> r, host |-> h] # NoGame
           /\ [id |-> r, host |-> h].id = r /\ [id |-> r, host |-> h].host = h
BY PeerGamesAssumption DEF Game

LEMMA NextAddrRange ==
    ASSUME NEW t \in Nat
    PROVE  /\ NextAddr(t) \in 1..RingSize
           /\ t < RingSize => NextAddr(t) = t + 1
BY PeerGamesAssumption DEF NextAddr

LEMMA TurnedRange ==
    ASSUME NEW t \in Nat, t <= 2 * RingSize, NEW n \in Nat
    PROVE  /\ Turned(t, n) \in 0..2 * RingSize
           /\ Turned(t, n) <= RingSize => Turned(t, n) = t + n
<1>1. RingSize \in Nat /\ RingSize > 0 /\ RingSize \in Int
  BY PeerGamesAssumption
<1>2. CASE t + n > 2 * RingSize
  <2>1. (t + n - 1) % RingSize \in 0..RingSize - 1
    BY <1>1, <1>2
  <2>. QED
    BY <1>1, <1>2, <2>1 DEF Turned
<1>3. CASE ~(t + n > 2 * RingSize)
  BY <1>1, <1>3 DEF Turned
<1>. QED
  BY <1>2, <1>3

LEMMA Places ==
    /\ 0 \in Peer /\ NoPeer \notin Peer /\ RingSize \in Nat
           /\ \A t \in Nat : NextAddr(t) \in Peer /\ NextAddr(t) # NoPeer
BY PeerGamesAssumption, NextAddrRange DEF Peer

\* One peer made or removed.
LEMMA OnePeer ==
    ASSUME PeerInv, NEW u \in User, NEW v \in User, NEW p \in Peer \cup {NoPeer},
           peers' = [peers EXCEPT ![u] = [peers[u] EXCEPT ![v] = p]]
    PROVE  /\ peers' \in [User -> [User -> Peer \cup {NoPeer}]]
           /\ \A w \in User \ {u} : peers'[w] = peers[w] /\ Known(w)' = Known(w)
           /\ \A w \in User : peers'[u][w] = IF w = v THEN p ELSE peers[u][w]
           /\ Known(u)' = IF p = NoPeer THEN Known(u) \ {v} ELSE Known(u) \cup {v}
<1>1. peers \in [User -> [User -> Peer \cup {NoPeer}]]
  BY Types
<1>2. /\ peers' \in [User -> [User -> Peer \cup {NoPeer}]]
      /\ \A w \in User \ {u} : peers'[w] = peers[w]
      /\ \A w \in User : peers'[u][w] = IF w = v THEN p ELSE peers[u][w]
  BY <1>1
<1>. QED
  BY <1>2 DEF Known

LEMMA OldAddresses ==
    ASSUME PeerInv, NEW u \in User, NEW v \in User, NEW p \in Peer \cup {NoPeer},
           peers' = [peers EXCEPT ![u] = [peers[u] EXCEPT ![v] = p]], taken' = taken,
           p \in {NoPeer, 0}
    PROVE  Addresses'
<1>1. /\ \A w \in User \ {u} : peers'[w] = peers[w]
      /\ \A w \in User : peers'[u][w] = IF w = v THEN p ELSE peers[u][w]
  BY OnePeer
<1>2. Apart(peers[u], taken[u]) /\ taken[u] \in Nat
  BY Types, PeerGamesAssumption DEF PeerInv, Addresses
<1>3. Apart(peers'[u], taken[u])
  BY <1>1, <1>2 DEF Apart
<1>. QED
  BY <1>1, <1>3 DEF PeerInv, Addresses

LEMMA NewAddress ==
    ASSUME PeerInv, NEW u \in User, NEW v \in User, NEW p, p = NextAddr(taken[u]),
           peers' = [peers EXCEPT ![u] = [peers[u] EXCEPT ![v] = p]],
           taken' = [taken EXCEPT ![u] = Turned(@, 1)]
    PROVE  Addresses' /\ taken' \in [User -> 0..2 * RingSize]
<1>1. PICK t : t = taken[u]
  OBVIOUS
<1>2. t \in Nat /\ t <= 2 * RingSize /\ RingSize \in Nat
  BY <1>1, Types, PeerGamesAssumption
<1>3. p = NextAddr(t)
  BY <1>1
<1>4. p \in Peer /\ p # NoPeer /\ p \in 1..RingSize /\ (t < RingSize => p = t + 1)
  BY <1>2, <1>3, Places, NextAddrRange
<1>5. /\ \A w \in User \ {u} : peers'[w] = peers[w]
      /\ \A w \in User : peers'[u][w] = IF w = v THEN p ELSE peers[u][w]
  BY <1>1, <1>3, <1>4, OnePeer
<1>6. Turned(t, 1) \in 0..2 * RingSize /\ (Turned(t, 1) <= RingSize => Turned(t, 1) = t + 1)
  BY <1>2, TurnedRange
<1>7. /\ taken' \in [User -> 0..2 * RingSize] /\ taken'[u] = Turned(t, 1)
      /\ \A w \in User \ {u} : taken'[w] = taken[w]
  BY <1>1, <1>6, Types
<1>8. Apart(peers'[u], taken'[u])
  <2>1. SUFFICES ASSUME Turned(t, 1) <= RingSize PROVE Apart(peers'[u], t + 1)
    BY <1>6, <1>7 DEF Apart
  <2>2. t < RingSize /\ p = t + 1
    BY <1>2, <1>4, <1>6, <2>1
  <2>3. \A w \in User : peers[u][w] # NoPeer => peers[u][w] \in 0..RingSize
    BY Types DEF Peer
  <2>4. Apart(peers[u], t)
    BY <1>1 DEF PeerInv, Addresses
  <2>. QED
    BY <1>2, <1>5, <2>2, <2>3, <2>4 DEF Apart
<1>. QED
  BY <1>5, <1>7, <1>8 DEF PeerInv, Addresses

-----------------------------------------------------------------------------
(* Steps that are none of a user's proxy, and tell of every change they make. *)

LEMMA ToldKept ==
    ASSUME PeerInv, ~raced, NEW u \in User, game'[u] = game[u], Known(u)' = Known(u),
           \/ command'[u].pc = command[u].pc
           \/ command'[u].pc \notin {"offline", "creating"},
           u \in Hearing' => u \in Hearing /\ WellTold(u)
    PROVE  Told(u)'
<1>1. HostOf(u) /\ RosterOf(u)
  BY DEF PeerInv, Told
<1>2. HostOf(u)'
  <2>1. CASE u \in Hearing'
    <3>1. PICK h : h = game[u].host
      OBVIOUS
    <3>2. HostIs(u, h) => HostIs(u, h)'
      BY <2>1, HostKept
    <3>3. Follows(u) => HostIs(u, game[u].host)'
      BY <1>1, <3>1, <3>2 DEF HostOf, HostIs
    <3>. QED
      BY <1>1, <2>1, <3>3 DEF HostOf, IsAt, Follows, WellTold
  <2>2. CASE u \notin Hearing'
    BY <1>1, <2>2 DEF HostOf, IsAt, Follows
  <2>. QED
    BY <2>1, <2>2
<1>3. RosterOf(u)'
  <2>1. SUFFICES ASSUME u \in Hearing', game[u] # NoGame
                 PROVE  Roster(u, Known(u), game[u].id)'
    BY DEF RosterOf
  <2>2. PICK P \in SUBSET User, r \in Room : P = Known(u) /\ r = game[u].id
    BY <2>1, GameTypes DEF Known
  <2>3. Roster(u, P, r)
    BY <1>1, <2>1, <2>2 DEF RosterOf
  <2>4. Roster(u, P, r)'
    BY <2>1, <2>2, <2>3, RosterKept
  <2>. QED
    BY <2>2, <2>4 DEF Roster
<1>. QED
  BY <1>2, <1>3 DEF Told

\* Nothing u's proxy could be told of has happened, to anybody.
LEMMA Unaffected ==
    ASSUME PeerInv, ~raced, NEW u \in User, game'[u] = game[u], peers'[u] = peers[u],
           \/ command'[u].pc = command[u].pc
           \/ command'[u].pc \notin {"offline", "creating"},
           u \in Hearing' => u \in Hearing, inbox'[u] = inbox[u],
           UNCHANGED <<members, leader, gameID, announcing, farewells>>
    PROVE  Told(u)'
<1>1. Known(u)' = Known(u)
  BY DEF Known
<1>. QED
  BY <1>1, NothingToTell, ToldKept

\* Handlers the proxy has no part in.
LEMMA QuietSteps ==
    ASSUME PeerInv, NEW u \in User, Aside,
           \/ GetGame(u) \/ JoinFails(u) \/ ConnectToPlayers(u)
           \/ \E r \in Room : SelectGame(u, r)
    PROVE  ProxyRight'
<1>1. /\ UNCHANGED <<members, leader, gameID, announcing, farewells, connected, observing, inbox>>
      /\ UNCHANGED <<game, taken, peers, fate>> /\ ~raced /\ raced' = FALSE
  BY DEF Aside, RaceIf, consoleVars, GetGame, JoinFails, SelectGame, Begin, ConnectToPlayers
<1>2. \A w \in User : \/ command'[w].pc = command[w].pc
                      \/ command'[w].pc \notin {"offline", "creating"}
  <2>1. CASE JoinFails(u) \/ ConnectToPlayers(u)
    BY <2>1, Types, AtIsCommand DEF JoinFails, ConnectToPlayers
  <2>2. CASE GetGame(u)
    BY <2>2, Types DEF GetGame, Command
  <2>3. ASSUME NEW r \in Room, SelectGame(u, r)
        PROVE  \A w \in User : command'[w].pc \in {command[w].pc, "reading"}
    <3>. DEFINE c == [At("reading") EXCEPT !.room = r, !.host = leader[r], !.alive = TRUE]
    <3>1. c.pc = "reading"
      BY DEF At
    <3>2. command' = [command EXCEPT ![u] = c]
      BY <2>3 DEF SelectGame, Begin
    <3>. HIDE DEF c
    <3>. QED
      BY <3>1, <3>2, Types
  <2>. QED
    BY <2>1, <2>2, <2>3
<1>3. ASSUME NEW w \in User PROVE Told(w)'
  BY <1>1, <1>2, Unaffected DEF Hearing
<1>. QED
  BY <1>1, <1>3 DEF PeerInv, ProxyRight, ProxyTypes, Addresses

LEMMA LoginTold ==
    ASSUME PeerInv, NEW u \in User, PeerLogin(u)
    PROVE  ProxyRight'
<1>1. /\ UNCHANGED <<members, leader, gameID, announcing, farewells, inbox>>
      /\ UNCHANGED <<game, taken, peers>> /\ ~raced /\ raced' = FALSE
      /\ connected' = connected \cup {u} /\ observing' = observing \cup {u}
      /\ IsAt(u, "offline")
      /\ command' = [command EXCEPT ![u] = At("idle")]
      /\ fate' = [fate EXCEPT ![u] = "fine"]
  BY DEF PeerLogin, RaceIf, Login
<1>2. ASSUME NEW w \in User, w # u PROVE Told(w)'
  BY <1>1, <1>2, Types, Unaffected DEF Hearing
<1>3. Told(u)'
  <2>1. game[u] = NoGame /\ Known(u)' = {}
    BY <1>1 DEF PeerInv, Told, HostOf, Known
  <2>2. command'[u].pc = "idle"
    BY <1>1, Types, AtIsCommand
  <2>. QED
    BY <1>1, <2>1, <2>2 DEF Told, HostOf, RosterOf, Follows, IsAt
<1>. QED
  BY <1>1, <1>2, <1>3 DEF PeerInv, ProxyRight, ProxyTypes, Addresses

\* u starts a game of his own, or has none.
LEMMA Cleared ==
    ASSUME PeerInv, NEW u \in User, NEW g \in Game \cup {NoGame}, Reset(u, g, 0, Nobodies)
    PROVE  /\ game' \in [User -> Game \cup {NoGame}] /\ taken' \in [User -> 0..2 * RingSize]
           /\ peers' \in [User -> [User -> Peer \cup {NoPeer}]]
           /\ Addresses'
           /\ game'[u] = g /\ Known(u)' = {}
           /\ \A w \in User \ {u} : game'[w] = game[w] /\ peers'[w] = peers[w]
<1>1. Nobodies \in [User -> Peer \cup {NoPeer}] /\ \A v \in User : Nobodies[v] = NoPeer
  BY DEF Nobodies
<1>2. 0 \in 0..2 * RingSize
  BY PeerGamesAssumption
<1>3. /\ game' = [game EXCEPT ![u] = g] /\ taken' = [taken EXCEPT ![u] = 0]
      /\ peers' = [peers EXCEPT ![u] = Nobodies]
  BY DEF Reset
<1>. HIDE DEF Nobodies
<1>4. peers'[u] = Nobodies /\ \A w \in User \ {u} : peers'[w] = peers[w] /\ taken'[w] = taken[w]
  BY <1>3, Types
<1>5. Known(u)' = {}
  BY <1>1, <1>4 DEF Known
<1>6. Addresses'
  BY <1>1, <1>4 DEF PeerInv, Addresses, Apart
<1>. QED
  BY <1>1, <1>2, <1>3, <1>4, <1>5, <1>6, Types

\* The backend session is over.
LEMMA EndTold ==
    ASSUME PeerInv, ~raced, NEW u \in User, End(u), Reset(u, NoGame, 0, Nobodies),
           fate' \in [User -> {"fine", "deaf", "failed", "panic"}], raced' \in BOOLEAN
    PROVE  ProxyRight'
<1>1. /\ UNCHANGED <<members, leader, gameID, announcing, farewells, connected>>
      /\ observing' = observing \ {u}
      /\ inbox' = [inbox EXCEPT ![u] = <<>>]
      /\ command' = [command EXCEPT ![u] = At("offline")]
  BY DEF End, consoleVars
<1>2. ASSUME NEW w \in User, w # u PROVE Told(w)'
  BY <1>1, <1>2, Types, Cleared, Unaffected DEF Hearing
<1>3. Told(u)'
  <2>1. game'[u] = NoGame /\ Known(u)' = {} /\ u \notin Hearing'
    BY <1>1, Cleared DEF Hearing
  <2>. QED
    BY <2>1 DEF Told, HostOf, RosterOf, Follows
<1>. QED
  BY <1>2, <1>3, Cleared DEF ProxyRight, ProxyTypes

LEMMA EndsTold ==
    ASSUME PeerInv, NEW u \in User,
           PeerEndSession(u) \/ PeerSelectFails(u) \/ ConnectFails(u)
    PROVE  ProxyRight'
<1>1. /\ End(u) /\ Reset(u, NoGame, 0, Nobodies) /\ ~raced /\ raced' \in BOOLEAN
  BY DEF PeerEndSession, EndSession, PeerSelectFails, SelectFails, ConnectFails, PeerEnd, RaceIf,
         JoinUnread
<1>2. fate' = fate \/ fate' = [fate EXCEPT ![u] = "failed"]
  BY DEF PeerEndSession, PeerSelectFails, ConnectFails, PeerEnd
<1>3. fate' \in [User -> {"fine", "deaf", "failed", "panic"}]
  BY <1>2, Types
<1>. QED
  BY <1>1, <1>3, EndTold

LEMMA CreateGameTold ==
    ASSUME PeerInv, NEW u \in User, NEW r \in Room, PeerCreateGame(u, r)
    PROVE  ProxyRight'
<1>1. /\ gameID[u] = NoRoom /\ Reset(u, [id |-> r, host |-> u], 0, Nobodies)
      /\ UNCHANGED <<members, leader, gameID, announcing, farewells, connected, observing, inbox>>
      /\ command' = [command EXCEPT ![u] = [At("creating") EXCEPT !.room = r]]
      /\ ~raced /\ raced' = FALSE /\ UNCHANGED fate
  BY DEF PeerCreateGame, CreateGame, Begin, consoleVars, RaceIf
<1>2. PICK g \in Game : g = [id |-> r, host |-> u] /\ g # NoGame /\ g.id = r /\ g.host = u
  BY NewGame
<1>3. command'[u].pc = "creating" /\ \A w \in User \ {u} : command'[w] = command[w]
  BY <1>1, Types, AtIsCommand
<1>4. Reset(u, g, 0, Nobodies)
  BY <1>1, <1>2
<1>5. ASSUME NEW w \in User, w # u PROVE Told(w)'
  BY <1>1, <1>3, <1>4, <1>5, Cleared, Unaffected DEF Hearing
<1>6. Told(u)'
  <2>1. game'[u] = g /\ Known(u)' = {} /\ gameID'[u] = NoRoom /\ r # NoRoom
    BY <1>1, <1>4, Cleared, GamesAssumption
  <2>. QED
    BY <1>2, <1>3, <2>1 DEF Told, HostOf, RosterOf, Follows, IsAt, Roster
<1>. QED
  BY <1>1, <1>4, <1>5, <1>6, Cleared DEF PeerInv, ProxyRight, ProxyTypes

\* The peers PeerSelect makes.
Chosen(others, players, place, new) ==
    /\ new \in [User -> Peer \cup {NoPeer}]
    /\ \A v \in User : new[v] = IF v \in others THEN NextAddr(place[v])
                                ELSE IF v \in players THEN 0 ELSE NoPeer

\* Each peer of a fresh game has an address of its own.
LEMMA SelectAddresses ==
    ASSUME PeerInv, NEW u \in User, NEW others \in SUBSET User,
           NEW place \in Bijection(others, 0..Cardinality(others) - 1),
           NEW players \in SUBSET User, NEW g \in Game,
           NEW new, Chosen(others, players, place, new),
           Reset(u, g, Turned(0, Cardinality(others)), new)
    PROVE  /\ game' \in [User -> Game \cup {NoGame}] /\ taken' \in [User -> 0..2 * RingSize]
           /\ peers' \in [User -> [User -> Peer \cup {NoPeer}]]
           /\ Addresses'
           /\ \A w \in User \ {u} : game'[w] = game[w] /\ peers'[w] = peers[w]
<1>1. PICK n : n = Cardinality(others)
  OBVIOUS
<1>2. n \in Nat
  BY <1>1, FS_Subset, FS_CardinalityType, PeerGamesAssumption
<1>3. /\ \A v \in others : place[v] \in 0..n - 1 /\ place[v] \in Nat /\ place[v] < n
      /\ \A v, w \in others : place[v] = place[w] => v = w
  <2>1. place \in Injection(others, 0..n - 1) /\ place \in [others -> 0..n - 1]
    BY <1>1 DEF Bijection, Injection
  <2>2. \A v, w \in others : place[v] = place[w] => v = w
    BY <2>1 DEF Injection, IsInjective
  <2>. QED
    BY <1>2, <2>1, <2>2
<1>4. 0 \in Nat /\ RingSize \in Nat
  BY PeerGamesAssumption
<1>5. /\ \A v \in others : /\ new[v] \in Peer /\ new[v] # NoPeer
                           /\ new[v] = NextAddr(place[v])
      /\ \A v \in players \ others : new[v] \in Peer /\ new[v] # NoPeer /\ new[v] = 0
      /\ \A v \in User \ (players \cup others) : new[v] = NoPeer
  BY <1>3, <1>4, Places DEF Chosen
<1>6. /\ game' = [game EXCEPT ![u] = g] /\ taken' = [taken EXCEPT ![u] = Turned(0, n)]
      /\ peers' = [peers EXCEPT ![u] = new]
  BY <1>1 DEF Reset
<1>8. Turned(0, n) \in 0..2 * RingSize /\ (Turned(0, n) <= RingSize => Turned(0, n) = n)
  <2>1. 0 \in Nat /\ 0 <= 2 * RingSize /\ 0 + n = n
    BY <1>2, <1>4
  <2>. QED
    BY <1>2, <2>1, TurnedRange
<1>9. /\ game' \in [User -> Game \cup {NoGame}] /\ taken' \in [User -> 0..2 * RingSize]
      /\ peers' \in [User -> [User -> Peer \cup {NoPeer}]]
      /\ game'[u] = g /\ peers'[u] = new /\ taken'[u] = Turned(0, n)
      /\ \A w \in User \ {u} : game'[w] = game[w] /\ peers'[w] = peers[w] /\ taken'[w] = taken[w]
  BY <1>6, <1>8, Types DEF Chosen
<1>11. Apart(new, Turned(0, n))
  <2>1. SUFFICES ASSUME Turned(0, n) <= RingSize PROVE Apart(new, n)
    BY <1>8 DEF Apart
  <2>2. n <= RingSize
    BY <1>8, <2>1
  <2>3. ASSUME NEW v \in others
        PROVE  new[v] = place[v] + 1 /\ new[v] \in Nat /\ new[v] <= n
    <3>1. place[v] \in Nat /\ place[v] < RingSize /\ place[v] < n
      BY <1>2, <1>3, <1>4, <2>2
    <3>2. new[v] = NextAddr(place[v]) /\ NextAddr(place[v]) = place[v] + 1
      BY <1>5, <3>1, NextAddrRange
    <3>. QED
      BY <1>2, <3>1, <3>2
  <2>4. ASSUME NEW v \in User, NEW w \in User \ {v}, new[v] # NoPeer, new[w] # NoPeer,
               new[v] = new[w]
        PROVE  new[v] = 0
    <3>1. CASE v \in others /\ w \in others
      <4>1. place[v] + 1 = place[w] + 1 /\ place[v] \in Nat /\ place[w] \in Nat
        BY <1>3, <2>3, <2>4, <3>1
      <4>2. place[v] = place[w]
        BY <4>1
      <4>. QED
        BY <1>3, <3>1, <4>2
    <3>2. CASE v \notin others \/ w \notin others
      BY <1>5, <2>4, <3>2
    <3>. QED
      BY <3>1, <3>2
  <2>5. ASSUME NEW v \in User, new[v] # NoPeer PROVE new[v] <= n
    <3>1. CASE v \in others
      BY <2>3, <3>1
    <3>2. CASE v \notin others
      BY <1>2, <1>5, <2>5, <3>2
    <3>. QED
      BY <3>1, <3>2
  <2>. QED
    BY <2>4, <2>5 DEF Apart
<1>12. Addresses'
  BY <1>9, <1>11 DEF PeerInv, Addresses
<1>. QED
  BY <1>9, <1>12

LEMMA SelectTold ==
    ASSUME PeerInv, NEW u \in User, PeerSelect(u)
    PROVE  ProxyRight'
<1>1. PICK r, host, players, others :
          /\ r = command[u].room /\ host = command[u].host /\ players = command[u].players
          /\ others = players \ ({u} \cap {host})
  OBVIOUS
<1>2. /\ r \in Room /\ players \in SUBSET User /\ host \in players /\ host \in User
      /\ others \in SUBSET User /\ others \subseteq players
  BY <1>1, Types DEF PeerSelect, Selected, IsAt, Command, Console, Handlers, Handler
<1>3. /\ UNCHANGED <<members, leader, gameID, announcing, farewells, connected, observing, inbox>>
      /\ command' = [command EXCEPT ![u] = At("idle")]
      /\ ~raced /\ raced' = (players # members[r] \/ host # leader[r])
      /\ UNCHANGED fate
  BY <1>1 DEF PeerSelect, Selected, consoleVars, RaceIf
<1>4. PICK g \in Game : g = [id |-> r, host |-> host] /\ g # NoGame /\ g.id = r /\ g.host = host
  BY <1>2, NewGame
<1>5. PICK place, new :
          /\ place \in Bijection(others, 0..Cardinality(others) - 1)
          /\ new = [v \in User |-> IF v \in others THEN NextAddr(place[v])
                                   ELSE IF v \in players THEN 0 ELSE NoPeer]
          /\ Reset(u, g, Turned(0, Cardinality(others)), new)
  BY <1>1, <1>4 DEF PeerSelect
<1>12. 0 \in Peer /\ \A v \in others : NextAddr(place[v]) \in Peer
  <2>1. \A v \in others : place[v] \in Nat
    BY <1>5 DEF Bijection, Injection
  <2>. QED
    BY <2>1, Places
<1>11. Chosen(others, players, place, new)
  BY <1>5, <1>12 DEF Chosen
<1>6. /\ game' \in [User -> Game \cup {NoGame}] /\ taken' \in [User -> 0..2 * RingSize]
      /\ peers' \in [User -> [User -> Peer \cup {NoPeer}]]
      /\ Addresses'
      /\ game'[u] = g /\ Known(u)' = players
      /\ \A w \in User \ {u} : game'[w] = game[w] /\ peers'[w] = peers[w]
  <2>1. /\ place \in Bijection(others, 0..Cardinality(others) - 1)
        /\ Reset(u, g, Turned(0, Cardinality(others)), new)
        /\ others \in SUBSET User /\ players \in SUBSET User
    BY <1>2, <1>5
  <2>2. /\ game' \in [User -> Game \cup {NoGame}] /\ taken' \in [User -> 0..2 * RingSize]
        /\ peers' \in [User -> [User -> Peer \cup {NoPeer}]]
        /\ Addresses'
        /\ \A w \in User \ {u} : game'[w] = game[w] /\ peers'[w] = peers[w]
    BY <1>4, <1>11, <2>1, SelectAddresses
  <2>3. game'[u] = g /\ peers'[u] = new
    BY <2>1, Types DEF Reset
  <2>4. \A v \in User : new[v] # NoPeer <=> v \in players
    <3>1. (\A v \in others : NextAddr(place[v]) # NoPeer) /\ 0 # NoPeer
      BY <1>12, PeerGamesAssumption
    <3>. QED
      BY <1>2, <1>11, <3>1 DEF Chosen
  <2>. QED
    BY <1>2, <2>2, <2>3, <2>4 DEF Known
<1>7. command'[u].pc = "idle" /\ \A w \in User \ {u} : command'[w] = command[w]
  BY <1>3, Types, AtIsCommand
<1>8. ASSUME NEW w \in User, w # u PROVE Told(w)'
  BY <1>3, <1>6, <1>7, <1>8, Unaffected DEF Hearing
<1>9. ASSUME ~raced' PROVE Told(u)'
  <2>1. players = members[r] /\ host = leader[r] /\ Known(u)' = members[r]
    BY <1>2, <1>3, <1>6, <1>9
  <2>2. HostOf(u)'
    BY <1>3, <1>4, <1>6, <1>7, <2>1 DEF HostOf, HostIs, Follows, IsAt
  <2>3. RosterOf(u)'
    BY <1>3, <1>4, <1>6, <2>1 DEF RosterOf, Roster
  <2>. QED
    BY <2>2, <2>3 DEF Told
<1>10. raced' \in BOOLEAN /\ fate' \in [User -> {"fine", "deaf", "failed", "panic"}]
  BY <1>3, Types
<1>. QED
  BY <1>6, <1>8, <1>9, <1>10 DEF ProxyRight, ProxyTypes

LEMMA JoinGameTold ==
    ASSUME PeerInv, NEW u \in User, NEW r \in Room, PeerJoinGame(u, r)
    PROVE  ProxyRight'
<1>1. /\ UNCHANGED <<members, leader, gameID, announcing, farewells, connected, observing, inbox>>
      /\ UNCHANGED <<game, taken, fate>> /\ ~raced /\ raced' = FALSE
      /\ game[u] # NoGame
      /\ peers' = [peers EXCEPT ![u][u] = 0]
      /\ command' = [command EXCEPT ![u] = [At("joining") EXCEPT !.room = r]]
  BY DEF PeerJoinGame, JoinGame, Begin, consoleVars, RaceIf
<1>2. command'[u].pc = "joining" /\ \A w \in User \ {u} : command'[w] = command[w]
  BY <1>1, Types, AtIsCommand
<1>3. 0 \in Peer /\ 0 # NoPeer
  BY Places
<1>4. peers' = [peers EXCEPT ![u] = [peers[u] EXCEPT ![u] = 0]]
  BY <1>1, Types
<1>5. /\ peers' \in [User -> [User -> Peer \cup {NoPeer}]]
      /\ \A w \in User \ {u} : peers'[w] = peers[w]
      /\ Known(u)' = Known(u) \cup {u}
  BY <1>3, <1>4, OnePeer
<1>8. Addresses'
  BY <1>1, <1>3, <1>4, OldAddresses
<1>6. ASSUME NEW w \in User, w # u PROVE Told(w)'
  BY <1>1, <1>2, <1>5, <1>6, Unaffected DEF Hearing
<1>7. Told(u)'
  <2>1. HostOf(u) /\ RosterOf(u)
    BY <1>1 DEF PeerInv, Told
  <2>2. HostOf(u)'
    BY <1>1, <1>2, <2>1 DEF HostOf, HostIs, Follows, IsAt, Hearing
  <2>3. \A v : (Leaving(u, v) => Leaving(u, v)') /\ (Arriving(u, v) => Arriving(u, v)')
    BY <1>1 DEF Leaving, Arriving
  <2>4. RosterOf(u)'
    BY <1>1, <1>5, <2>1, <2>3 DEF RosterOf, Roster, Hearing
  <2>. QED
    BY <2>2, <2>4 DEF Told
<1>. QED
  BY <1>1, <1>5, <1>6, <1>7, <1>8 DEF PeerInv, ProxyRight, ProxyTypes

\* Who enters knows the room; who is in it will be told.
LEMMA JoinRoomTold ==
    ASSUME PeerInv, NEW u \in User, PeerJoinRoom(u)
    PROVE  ProxyRight'
<1>1. PICK r : r = command[u].room
  OBVIOUS
<1>2. /\ r \in Room /\ r # NoRoom /\ gameID' = [gameID EXCEPT ![u] = r]
      /\ command' = [command EXCEPT ![u] = At("answering")]
      /\ UNCHANGED <<leader, farewells, connected, observing, inbox>>
  BY <1>1, JoinRoomEffect, Types DEF PeerJoinRoom
<1>3. /\ UNCHANGED <<game, taken, peers, fate>> /\ ~raced /\ raced' \in BOOLEAN
      /\ ~raced' => members[r] \subseteq Known(u) /\ game[u] = [id |-> r, host |-> leader[r]]
  BY <1>1 DEF PeerJoinRoom, RaceIf
<1>4. command'[u].pc = "answering" /\ gameID'[u] = r
  BY <1>2, Types, AtIsCommand
<1>5. \A w \in User : Known(w)' = Known(w)
  BY <1>3 DEF Known
<1>6. ASSUME NEW w \in User, w # u PROVE Told(w)'
  <2>1. command'[w] = command[w]
    BY <1>2, <1>6, Types
  <2>2. WellTold(w)
    BY <1>6, JoinRoomTells, Types DEF PeerJoinRoom
  <2>. QED
    BY <1>2, <1>3, <1>5, <2>1, <2>2, ToldKept DEF Hearing
<1>7. ASSUME ~raced' PROVE Told(u)'
  <2>1. members[r] \subseteq Known(u) /\ game[u].id = r /\ game[u].host = leader[r]
    BY <1>3, <1>7
  <2>2. HostOf(u)'
    BY <1>2, <1>3, <1>4, <1>5, <2>1 DEF HostOf, HostIs, Follows, IsAt, PeerInv, Told
  <2>3. RosterOf(u)'
    <3>1. SUFFICES ASSUME u \in Hearing, game[u] # NoGame
                   PROVE  Roster(u, Known(u), r)'
      BY <1>2, <1>3, <2>1 DEF RosterOf, Hearing
    <3>2. Roster(u, Known(u), r)
      BY <1>3, <2>1, <3>1 DEF PeerInv, Told, RosterOf
    <3>3. PICK P \in SUBSET User : P = Known(u)
      BY DEF Known
    <3>4. Roster(u, P, r)'
      BY <1>1, <1>2, <2>1, <3>2, <3>3, OwnRoomJoined, Types DEF PeerJoinRoom
    <3>. QED
      BY <1>5, <3>3, <3>4 DEF Roster
  <2>. QED
    BY <2>2, <2>3 DEF Told
<1>. QED
  BY <1>3, <1>6, <1>7 DEF PeerInv, ProxyRight, ProxyTypes, Addresses

LEMMA CreateRoomTold ==
    ASSUME PeerInv, NEW u \in User, CreateRoom(u), Aside
    PROVE  ProxyRight'
<1>1. /\ UNCHANGED <<announcing, farewells, connected, observing, inbox>>
      /\ UNCHANGED <<game, taken, peers, fate>> /\ ~raced /\ raced' = FALSE
      /\ command' = [command EXCEPT ![u] = At("idle")]
      /\ command[u].pc = "creating"
  BY DEF CreateRoom, Aside, RaceIf, IsAt
<1>2. command'[u].pc = "idle" /\ \A w \in User \ {u} : command'[w] = command[w]
  BY <1>1, Types, AtIsCommand
<1>3. \A w \in User : Known(w)' = Known(w)
  BY <1>1 DEF Known
<1>4. ASSUME NEW w \in User, w # u PROVE Told(w)'
  <2>1. WellTold(w)
    BY <1>4, CreateRoomTells, Types
  <2>. QED
    BY <1>1, <1>2, <1>3, <1>4, <2>1, ToldKept DEF Hearing
<1>5. Told(u)'
  <2>1. CASE MayCreate(u)
    <3>1. PICK r \in Room : /\ gameID[u] = NoRoom /\ gameID'[u] = r
                            /\ leader'[r] = u /\ r # NoRoom
      BY <2>1, CreateRoomEffect, Types
    <3>2. HostOf(u) /\ RosterOf(u)
      BY <1>1 DEF PeerInv, Told
    <3>3. HostOf(u)'
      BY <1>1, <1>2, <1>3, <3>1, <3>2 DEF HostOf, IsAt, Follows, HostIs, Hearing
    <3>4. RosterOf(u)'
      <4>1. SUFFICES ASSUME u \in Hearing, game[u] # NoGame
                     PROVE  Roster(u, Known(u), game[u].id)'
        BY <1>1 DEF RosterOf, Hearing
      <4>2. PICK P \in SUBSET User, q \in Room : P = Known(u) /\ q = game[u].id
        BY <4>1, GameTypes DEF Known
      <4>3. Roster(u, P, q)
        BY <3>2, <4>1, <4>2 DEF RosterOf
      <4>4. Roster(u, P, q)'
        BY <2>1, <4>3, OwnRoomCreated, Types
      <4>. QED
        BY <1>1, <1>3, <4>2, <4>4
    <3>. QED
      BY <3>3, <3>4 DEF Told
  <2>2. CASE ~MayCreate(u)
    <3>1. UNCHANGED <<members, leader, gameID>>
      BY <2>2 DEF CreateRoom
    <3>. QED
      BY <1>1, <1>2, <3>1, Unaffected DEF Hearing
  <2>. QED
    BY <2>1, <2>2
<1>. QED
  BY <1>1, <1>4, <1>5 DEF PeerInv, ProxyRight, ProxyTypes, Addresses

\* What the console tells by itself.
LEMMA TellingTold ==
    ASSUME PeerInv, Aside,
           \/ \E u \in User : Disconnect(u) \/ BroadcastLeave(u) \/ SendFails(u)
           \/ \E a \in announcing : \E v \in User : AnnounceJoin(a, v)
           \/ \E a \in announcing : Answer(a, [At("connecting") EXCEPT !.players = Others(a)])
    PROVE  ProxyRight'
<1>1. /\ UNCHANGED <<game, taken, peers, fate>> /\ ~raced /\ raced' = FALSE
      /\ \A w \in User : Known(w)' = Known(w)
  BY DEF Aside, RaceIf, Known
<1>2. ASSUME NEW u \in User, Disconnect(u), NEW w \in User PROVE Told(w)'
  <2>1. /\ connected' \subseteq connected /\ observing' = observing \ {u}
        /\ command'[w].pc = command[w].pc
    BY <1>2, DisconnectRooms, DisconnectOthers, Types
  <2>2. w \in Hearing' => w \in Hearing \ {u}
    BY <2>1 DEF Hearing
  <2>3. w \in Hearing' => WellTold(w)
    BY <1>2, <2>2, DisconnectTells, Types
  <2>. QED
    BY <1>1, <2>1, <2>2, <2>3, ToldKept
<1>3. ASSUME NEW u \in User, BroadcastLeave(u), NEW w \in User PROVE Told(w)'
  <2>1. UNCHANGED <<command, connected, observing>>
    BY <1>3 DEF BroadcastLeave
  <2>2. w \in Hearing => WellTold(w)
    BY <1>3, BroadcastLeaveTells, Types
  <2>. QED
    BY <1>1, <2>1, <2>2, ToldKept DEF Hearing
<1>4. ASSUME NEW a \in announcing, NEW v \in User, AnnounceJoin(a, v), NEW w \in User
      PROVE  Told(w)'
  <2>1. UNCHANGED <<command, connected, observing>>
    BY <1>4 DEF AnnounceJoin
  <2>2. w \in Hearing => WellTold(w)
    BY <1>4, AnnounceJoinTells, Types
  <2>. QED
    BY <1>1, <2>1, <2>2, ToldKept DEF Hearing
<1>5. ASSUME NEW a \in announcing, Answer(a, [At("connecting") EXCEPT !.players = Others(a)]),
             NEW w \in User
      PROVE  Told(w)'
  <2>. DEFINE c == [At("connecting") EXCEPT !.players = Others(a)]
  <2>1. c.pc = "connecting"
    BY DEF At
  <2>2. WellTold(w) /\ UNCHANGED <<connected, observing>>
    BY <1>5, AnswerTells, Types DEF Answer
  <2>3. command' = IF IsAt(a.user, "answering")
                   THEN [command EXCEPT ![a.user] = c] ELSE command
    BY <1>5 DEF Answer
  <2>. HIDE DEF c
  <2>4. command'[w].pc \in {command[w].pc, "connecting"}
    BY <2>1, <2>3, Types
  <2>. QED
    BY <1>1, <2>2, <2>4, ToldKept DEF Hearing
<1>6. ASSUME NEW u \in User, SendFails(u), NEW w \in User PROVE Told(w)'
  BY <1>1, <1>6, Unaffected DEF SendFails, Hearing
<1>7. \A w \in User : Told(w)'
  BY <1>2, <1>3, <1>4, <1>5, <1>6
<1>. QED
  BY <1>1, <1>7 DEF PeerInv, ProxyRight, ProxyTypes, Addresses

-----------------------------------------------------------------------------
(* The observer *)

\* An error of Handle: u is deaf.
LEMMA DeafTold ==
    ASSUME PeerInv, ~raced, raced' \in BOOLEAN, NEW u \in User, Deafened(u),
           UNCHANGED <<consoleVars, command, commands, logins, game>>,
           taken' \in [User -> 0..2 * RingSize],
           peers' \in [User -> [User -> Peer \cup {NoPeer}]], Addresses',
           \A w \in User \ {u} : peers'[w] = peers[w],
           game[u] = NoGame => Known(u)' = Known(u)
    PROVE  Console(Message)' /\ ProxyRight'
<1>1. /\ observing' = observing \ {u} /\ inbox' = [inbox EXCEPT ![u] = <<>>]
      /\ fate' = [fate EXCEPT ![u] = "deaf"]
      /\ UNCHANGED <<members, leader, gameID, announcing, farewells, connected>>
  BY DEF Deafened, consoleVars
<1>2. Console(Message)'
  <2>1. inbox' \in [User -> Seq(Message)] /\ inbox'[u] = <<>> /\ Letters(<<>>) = {}
        /\ \A w \in User \ {u} : inbox'[w] = inbox[w]
    BY <1>1, Types, EmptyBox
  <2>2. \A w \in User \ observing : inbox[w] = <<>>
    BY Types DEF Console, Presence
  <2>3. \A w \in User :
            /\ w \notin observing' => inbox'[w] = <<>>
            /\ \A m \in Letters(inbox'[w]) : m.type \in RoomNews => m \in Letters(inbox[w])
            /\ \A h : LastNames(inbox[w], h) => LastNames(inbox'[w], h)
    BY <1>1, <2>1, <2>2, EmptyBox
  <2>. QED
    BY <1>1, <2>1, <2>3, Types, MailConsole
<1>3. ASSUME NEW w \in User, w # u PROVE Told(w)'
  BY <1>1, <1>3, Types, Unaffected DEF Hearing
<1>4. Told(u)'
  BY <1>1 DEF PeerInv, Told, HostOf, RosterOf, Follows, IsAt, Hearing
<1>5. fate' \in [User -> {"fine", "deaf", "failed", "panic"}]
  BY <1>1, Types
<1>. QED
  BY <1>2, <1>3, <1>4, <1>5 DEF PeerInv, ProxyRight, ProxyTypes

\* u reads about the room.
LEMMA NewsTold ==
    ASSUME PeerInv, ~raced, raced' \in BOOLEAN, NEW u \in observing, inbox[u] # <<>>, Fine(u),
           UNCHANGED <<consoleVars, command, commands, logins>>,
           game' \in [User -> Game \cup {NoGame}], taken' \in [User -> 0..2 * RingSize],
           peers' \in [User -> [User -> Peer \cup {NoPeer}]], Addresses',
           \A w \in User \ {u} : game'[w] = game[w] /\ peers'[w] = peers[w],
           ~raced' => Told(u)'
    PROVE  Console(Message)' /\ ProxyRight'
<1>1. /\ inbox' = HasRead(u) /\ UNCHANGED <<observing, fate>> /\ u \in User
      /\ UNCHANGED <<members, leader, gameID, announcing, farewells, connected>>
  BY Types DEF Fine, consoleVars
<1>2. Console(Message)'
  BY <1>1, Types, TakeConsole DEF Take
<1>3. ASSUME NEW w \in User, w # u PROVE Told(w)'
  <2>1. inbox'[w] = inbox[w]
    BY <1>1, <1>3, Types DEF HasRead
  <2>. QED
    BY <1>1, <1>3, <2>1, Unaffected DEF Hearing
<1>. QED
  BY <1>1, <1>2, <1>3 DEF PeerInv, ProxyRight, ProxyTypes

\* Peers and game are what they were.
LEMMA NoReset1 ==
    ASSUME PeerInv, NoReset
    PROVE  /\ game' \in [User -> Game \cup {NoGame}] /\ taken' \in [User -> 0..2 * RingSize]
           /\ peers' \in [User -> [User -> Peer \cup {NoPeer}]] /\ Addresses'
           /\ UNCHANGED <<game, taken, peers>>
           /\ \A w \in User : Known(w)' = Known(w)
<1>1. UNCHANGED <<game, taken, peers>>
  BY DEF NoReset
<1>. QED
  BY <1>1, Types DEF PeerInv, Addresses, Known

LEMMA DeafWithout ==
    ASSUME PeerInv, ~raced, raced' \in BOOLEAN, NEW u \in User, Deaf(u),
           UNCHANGED <<consoleVars, command, commands, logins>>
    PROVE  Console(Message)' /\ ProxyRight'
<1>1. Deafened(u) /\ NoReset
  BY DEF Deaf
<1>. QED
  BY <1>1, NoReset1, DeafTold

\* What u reads about the room, and what he then knows of it: Q.
LEMMA Heeded ==
    ASSUME PeerInv, ~raced, NEW u \in observing, inbox[u] # <<>>, Fine(u),
           UNCHANGED <<consoleVars, command>>,
           NEW m \in Message, m = Head(inbox[u]), ~Races(u, m),
           IF m.type = "HostMigration"
           THEN game[u] # NoGame /\ game'[u] = [game[u] EXCEPT !.host = m.user]
           ELSE game'[u] = game[u],
           game[u] = NoGame => Known(u)' = {},
           m.type = "JoinRoom" => /\ Known(u) \subseteq Known(u)'
                                  /\ Known(u)' \subseteq Known(u) \cup {m.user}
                                  /\ m.user \in Known(u)' \cup {u},
           m.type \in {"LeaveRoom", "LeaveLobby"} =>
               Known(u)' = Known(u) \/ m.user = u \/ Known(u)' = Known(u) \ {m.user},
           m.type \in {"LeaveRoom", "LeaveLobby"} => m.user = u \/ m.user \notin Known(u)',
           m.type = "HostMigration" => Known(u)' = Known(u)
    PROVE  Told(u)'
<1>1. /\ u \in User /\ HostOf(u) /\ RosterOf(u)
      /\ UNCHANGED <<members, leader, gameID, announcing, farewells, connected, command, observing>>
  BY Types DEF PeerInv, Told, consoleVars, Fine
<1>2. PICK old : old = inbox[u] /\ old \in Seq(Message) /\ old # <<>>
  BY <1>1, Types
<1>3. /\ inbox'[u] = Tail(old)
      /\ Letters(old) = Letters(Tail(old)) \cup {m}
      /\ Letters(Tail(old)) = {old[i] : i \in 2..Len(old)}
      /\ \A h : LastNames(old, h) /\ m.type = "HostMigration" /\ NoMigration(Tail(old))
                 => m.user = h
  <2>1. inbox'[u] = Tail(old)
    BY <1>1, <1>2, Types DEF Fine, HasRead
  <2>2. m = Head(old)
    BY <1>2
  <2>. QED
    BY <1>2, <2>1, <2>2, OneLess
<1>4. m.type \in {"JoinRoom", "LeaveRoom", "LeaveLobby", "HostMigration"} /\ m.user \in User
  BY DEF Message
<1>5. /\ game'[u] = NoGame <=> game[u] = NoGame
      /\ game[u] # NoGame => /\ game'[u].id = game[u].id
                             /\ game'[u].host = IF m.type = "HostMigration" THEN m.user
                                                ELSE game[u].host
  <2>1. CASE m.type = "HostMigration"
    <3>1. game[u] \in Game
      BY <1>1, <2>1, GameTypes
    <3>2. /\ [game[u] EXCEPT !.host = m.user] \in Game
          /\ [game[u] EXCEPT !.host = m.user].id = game[u].id
          /\ [game[u] EXCEPT !.host = m.user].host = m.user
      BY <1>4, <3>1 DEF Game
    <3>. QED
      BY <2>1, <3>2, PeerGamesAssumption
  <2>2. CASE m.type # "HostMigration"
    BY <2>2
  <2>. QED
    BY <2>1, <2>2
<1>6. HostOf(u)'
  <2>1. ASSUME Follows(u)', NoMigration(inbox'[u]) PROVE game'[u].host = leader'[gameID'[u]]
    <3>0. u \in connected
      BY <1>1, <2>1 DEF Follows, Hearing
    <3>1. Follows(u) /\ gameID[u] # NoRoom
      BY <1>1, <1>5, <2>1, GameTypes DEF Follows, Hearing
    <3>2. CASE m.type = "HostMigration"
      <4>1. LastNames(old, leader[gameID[u]])
        BY <1>1, <1>2, <3>0, <3>1, Types DEF Console, Informed
      <4>. QED
        BY <1>1, <1>3, <1>5, <2>1, <3>1, <3>2, <4>1 DEF Follows
    <3>3. CASE m.type # "HostMigration"
      <4>1. NoMigration(old)
        BY <1>3, <2>1, <3>3 DEF NoMigration
      <4>. QED
        BY <1>1, <1>2, <1>5, <3>1, <3>3, <4>1 DEF HostOf, HostIs, Follows
    <3>. QED
      BY <3>2, <3>3
  <2>2. IsAt(u, "offline")' => game'[u] = NoGame
    BY <1>1, <1>5 DEF HostOf, IsAt
  <2>3. ASSUME IsAt(u, "creating")', u \in Hearing', gameID'[u] = NoRoom
        PROVE  game'[u] # NoGame /\ game'[u].host = u
    <3>1. m.type # "HostMigration"
      <4>1. m \in Letters(inbox[u])
        BY <1>2, <1>3
      <4>. QED
        BY <1>1, <2>3, <4>1, Types DEF Console, Informed, RoomNews, Hearing
    <3>. QED
      BY <1>1, <1>5, <2>3, <3>1 DEF HostOf, IsAt, Hearing
  <2>. QED
    BY <1>5, <2>1, <2>2, <2>3 DEF HostOf, HostIs
<1>7. RosterOf(u)'
  <2>1. SUFFICES ASSUME game[u] # NoGame, u \in Hearing
                 PROVE  Roster(u, Known(u), game[u].id)'
    BY <1>1, <1>5 DEF RosterOf, Hearing
  <2>2. PICK P \in SUBSET User, r \in Room, Q \in SUBSET User :
            P = Known(u) /\ r = game[u].id /\ r = game'[u].id /\ Q = Known(u)'
    BY <1>1, <1>5, <2>1, GameTypes DEF Known
  <2>3. Roster(u, P, r)
    BY <1>1, <2>1, <2>2 DEF RosterOf, Hearing
  <2>4. m.type \in {"LeaveRoom", "LeaveLobby"} => m.user \notin members[r] \cup {u}
    BY <1>1, <2>1, <2>2 DEF Races
  <2>5. m.type = "JoinRoom" /\ m.user \notin members[r] \cup {u} => Leaving(u, m.user)'
    <3>1. SUFFICES ASSUME m.type = "JoinRoom", m.user \notin members[r] \cup {u}
                   PROVE  Leaving(u, m.user)'
      OBVIOUS
    <3>2. m.user \in farewells \/ DepartureRead(u, m.user, 2)
      BY <2>1, <2>2, <3>1 DEF Races
    <3>3. CASE m.user \in farewells
      BY <1>1, <3>3 DEF Leaving
    <3>4. CASE DepartureRead(u, m.user, 2)
      BY <1>2, <1>3, <3>4 DEF Leaving, DepartureRead
    <3>. QED
      BY <3>2, <3>3, <3>4
  <2>6. /\ m.type = "JoinRoom" =>
              /\ P \subseteq Q /\ Q \subseteq P \cup {m.user} /\ m.user \in Q \cup {u}
              /\ m.user \notin members[r] \cup {u} => Leaving(u, m.user)'
        /\ m.type \in {"LeaveRoom", "LeaveLobby"} =>
              m.user \notin members[r] \cup {u} /\ Q = P \ {m.user}
        /\ m.type \notin {"JoinRoom", "LeaveRoom", "LeaveLobby"} => Q = P
    BY <1>4, <2>2, <2>4, <2>5
  <2>7. Letters(inbox[u]) \subseteq Letters(inbox'[u]) \cup {m}
    BY <1>2, <1>3
  <2>8. Roster(u, Q, r)'
    BY <1>1, <2>3, <2>6, <2>7, Types, RosterRead
  <2>. QED
    BY <2>2, <2>8
<1>. QED
  BY <1>6, <1>7 DEF Told

\* What Handle takes, whatever it then does.
LEMMA HandleTakes ==
    ASSUME PeerInv, NEW u \in User, Handle(u), NEW m, m = Head(inbox[u])
    PROVE  /\ u \in observing /\ inbox[u] # <<>> /\ ~raced /\ raced' \in BOOLEAN
           /\ ~raced' => ~Races(u, m)
           /\ m \in Message /\ m.user \in User
<1>1. u \in observing /\ inbox[u] # <<>> /\ ~raced /\ raced' = Races(u, m)
  BY DEF Handle, RaceIf
<1>2. m \in Message /\ m.user \in User
  <2>1. m \in Message
    BY <1>1, Types, OneLess
  <2>. QED
    BY <2>1 DEF Message
<1>3. Races(u, m) \in BOOLEAN
  <2>1. m.type \in {"JoinRoom", "LeaveRoom", "LeaveLobby", "HostMigration"}
    BY <1>2 DEF Message
  <2>. QED
    BY <2>1 DEF Races, JoinUnread, DepartureRead
<1>. QED
  BY <1>1, <1>2, <1>3

LEMMA HostMigrationTold ==
    ASSUME PeerInv, NEW u \in User, Handle(u), NEW m, m = Head(inbox[u]),
           m.type = "HostMigration"
    PROVE  Console(Message)' /\ ProxyRight'
<1>1. /\ u \in observing /\ inbox[u] # <<>> /\ ~raced /\ raced' \in BOOLEAN
      /\ ~raced' => ~Races(u, m)
      /\ m \in Message /\ m.user \in User
  BY HandleTakes
<1>2. HandleHostMigration(u, m.user)
  BY DEF Handle
<1>3. CASE Panic(u)
  <2>1. End(u) /\ Reset(u, NoGame, 0, Nobodies) /\ fate' = [fate EXCEPT ![u] = "panic"]
    BY <1>3 DEF Panic, PeerEnd
  <2>2. fate' \in [User -> {"fine", "deaf", "failed", "panic"}]
    BY <2>1, Types
  <2>. QED
    BY <1>1, <2>1, <2>2, EndTold, EndConsole, Types
<1>4. CASE peers[u][m.user] # NoPeer
  <2>1. /\ game' = [game EXCEPT ![u].host = m.user]
        /\ Fine(u) /\ UNCHANGED <<consoleVars, command, commands, logins, taken>>
        /\ peers' = peers
    BY <1>2, <1>4 DEF HandleHostMigration, Migrated
  <2>2. game[u] # NoGame
    BY <1>1, <1>4 DEF PeerInv, Told, HostOf, Known
  <2>3. game[u] \in Game /\ game[u].host \in User
    BY <2>2, GameTypes
  <2>4. /\ [game[u] EXCEPT !.host = m.user] \in Game
        /\ game' = [game EXCEPT ![u] = [game[u] EXCEPT !.host = m.user]]
    BY <1>1, <2>1, <2>3, Types DEF Game
  <2>5. /\ game' \in [User -> Game \cup {NoGame}]
        /\ game'[u] = [game[u] EXCEPT !.host = m.user]
        /\ \A w \in User \ {u} : game'[w] = game[w]
    BY <2>4, Types
  <2>6. /\ peers' \in [User -> [User -> Peer \cup {NoPeer}]] /\ Addresses'
        /\ \A w \in User \ {u} : peers'[w] = peers[w]
        /\ Known(u)' = Known(u)
    BY <2>1, Types DEF PeerInv, Addresses, Known
  <2>7. taken' \in [User -> 0..2 * RingSize]
    BY <2>1, Types
  <2>8. ASSUME ~raced' PROVE Told(u)'
    BY <1>1, <2>1, <2>2, <2>5, <2>6, <2>8, Heeded
  <2>. QED
    BY <1>1, <2>1, <2>5, <2>6, <2>7, <2>8, NewsTold
<1>. QED
  BY <1>2, <1>3, <1>4 DEF HandleHostMigration

\* u ignores what he reads about the room.
LEMMA IgnoredTold ==
    ASSUME PeerInv, ~raced, raced' \in BOOLEAN, NEW u \in observing, inbox[u] # <<>>,
           Ignored(u), UNCHANGED <<consoleVars, command, commands, logins>>,
           NEW m \in Message, m = Head(inbox[u]), ~raced' => ~Races(u, m),
           \/ m.type = "JoinRoom" /\ m.user \in Known(u)
           \/ m.type \in {"LeaveRoom", "LeaveLobby"} /\ (m.user = u \/ m.user \notin Known(u))
    PROVE  Console(Message)' /\ ProxyRight'
<1>1. Fine(u) /\ NoReset /\ u \in User
  BY Types DEF Ignored
<1>2. /\ game' \in [User -> Game \cup {NoGame}] /\ taken' \in [User -> 0..2 * RingSize]
      /\ peers' \in [User -> [User -> Peer \cup {NoPeer}]] /\ Addresses'
      /\ UNCHANGED <<game, taken, peers>>
      /\ Known(u)' = Known(u)
  BY <1>1, NoReset1
<1>3. game[u] = NoGame => Known(u)' = {}
  BY <1>1, <1>2 DEF PeerInv, Told, HostOf
<1>4. ASSUME ~raced' PROVE Told(u)'
  BY <1>1, <1>2, <1>3, <1>4, Heeded
<1>. QED
  BY <1>1, <1>2, <1>4, NewsTold

LEMMA HandleJoinTold ==
    ASSUME PeerInv, NEW u \in User, Handle(u), NEW m, m = Head(inbox[u]),
           m.type = "JoinRoom"
    PROVE  Console(Message)' /\ ProxyRight'
<1>1. /\ u \in observing /\ inbox[u] # <<>> /\ ~raced /\ raced' \in BOOLEAN
      /\ ~raced' => ~Races(u, m)
      /\ m \in Message /\ m.user \in User
  BY HandleTakes
<1>2. HandleJoinRoom(u, m.user) /\ UNCHANGED <<consoleVars, command, commands, logins>>
  BY DEF Handle, Observed
<1>3. CASE Deaf(u)
  BY <1>1, <1>2, <1>3, DeafWithout
<1>4. CASE Ignored(u) /\ peers[u][m.user] # NoPeer
  BY <1>1, <1>2, <1>4, IgnoredTold DEF Known
<1>5. CASE MakePeer(u, m.user) /\ game[u] # NoGame
  <2>1. PICK p : p = NextAddr(taken[u])
    OBVIOUS
  <2>2. /\ taken' = [taken EXCEPT ![u] = Turned(@, 1)] /\ UNCHANGED game
        /\ Fine(u) \/ Deafened(u)
    BY <1>5 DEF MakePeer
  <2>3. peers' = [peers EXCEPT ![u] = [peers[u] EXCEPT ![m.user] = p]]
    BY <1>1, <1>5, <2>1, Types DEF MakePeer
  <2>4. taken[u] \in Nat
    BY Types, PeerGamesAssumption
  <2>5. p \in Peer /\ p # NoPeer
    BY <2>1, <2>4, Places
  <2>6. Addresses' /\ taken' \in [User -> 0..2 * RingSize]
    BY <1>1, <2>1, <2>2, <2>3, NewAddress
  <2>7. /\ peers' \in [User -> [User -> Peer \cup {NoPeer}]]
        /\ \A w \in User \ {u} : peers'[w] = peers[w]
        /\ Known(u)' = Known(u) \cup {m.user}
    <3>1. PICK v \in User : v = m.user
      BY <1>1
    <3>2. p \in Peer \cup {NoPeer} /\ peers' = [peers EXCEPT ![u] = [peers[u] EXCEPT ![v] = p]]
      BY <2>3, <2>5, <3>1
    <3>3. /\ peers' \in [User -> [User -> Peer \cup {NoPeer}]]
          /\ \A w \in User \ {u} : peers'[w] = peers[w]
          /\ Known(u)' = IF p = NoPeer THEN Known(u) \ {v} ELSE Known(u) \cup {v}
      BY <3>2, OnePeer
    <3>. QED
      BY <2>5, <3>1, <3>3
  <2>8. CASE Deafened(u)
    BY <1>1, <1>2, <1>5, <2>2, <2>6, <2>7, <2>8, DeafTold
  <2>9. CASE Fine(u)
    <3>1. ASSUME ~raced' PROVE Told(u)'
      BY <1>1, <1>2, <1>5, <2>2, <2>7, <2>9, <3>1, Heeded
    <3>2. game' \in [User -> Game \cup {NoGame}] /\ \A w \in User \ {u} : game'[w] = game[w]
      BY <2>2, Types
    <3>. QED
      BY <1>1, <1>2, <2>6, <2>7, <2>9, <3>1, <3>2, NewsTold
  <2>. QED
    BY <2>2, <2>8, <2>9
<1>. QED
  BY <1>1, <1>2, <1>3, <1>4, <1>5 DEF HandleJoinRoom, Known

LEMMA HandleLeaveTold ==
    ASSUME PeerInv, NEW u \in User, Handle(u), NEW m, m = Head(inbox[u]),
           m.type \in {"LeaveRoom", "LeaveLobby"}
    PROVE  Console(Message)' /\ ProxyRight'
<1>1. /\ u \in observing /\ inbox[u] # <<>> /\ ~raced /\ raced' \in BOOLEAN
      /\ ~raced' => ~Races(u, m)
      /\ m \in Message /\ m.user \in User
  BY HandleTakes
<1>2. HandleLeaveRoom(u, m.user) /\ UNCHANGED <<consoleVars, command, commands, logins>>
  BY DEF Handle, Observed
<1>3. CASE Ignored(u) /\ (peers[u][m.user] = NoPeer \/ m.user = u)
  <2>1. m.user = u \/ m.user \notin Known(u)
    BY <1>3 DEF Known
  <2>. QED
    BY <1>1, <1>2, <1>3, <2>1, IgnoredTold
<1>4. CASE /\ peers' = [peers EXCEPT ![u][m.user] = NoPeer]
           /\ Fine(u) /\ UNCHANGED <<game, taken>>
  <2>1. peers' = [peers EXCEPT ![u] = [peers[u] EXCEPT ![m.user] = NoPeer]]
    BY <1>4, Types
  <2>2. Addresses'
    BY <1>1, <1>4, <2>1, OldAddresses
  <2>3. /\ peers' \in [User -> [User -> Peer \cup {NoPeer}]]
        /\ \A w \in User \ {u} : peers'[w] = peers[w]
        /\ Known(u)' = Known(u) \ {m.user}
    BY <1>1, <2>1, OnePeer
  <2>4. game[u] = NoGame => Known(u)' = {}
    BY <1>1, <2>3 DEF PeerInv, Told, HostOf
  <2>5. ASSUME ~raced' PROVE Told(u)'
    BY <1>1, <1>2, <1>4, <2>3, <2>4, <2>5, Heeded
  <2>6. game' \in [User -> Game \cup {NoGame}] /\ taken' \in [User -> 0..2 * RingSize]
        /\ \A w \in User \ {u} : game'[w] = game[w]
    BY <1>4, Types
  <2>. QED
    BY <1>1, <1>2, <1>4, <2>2, <2>3, <2>5, <2>6, NewsTold
<1>. QED
  BY <1>2, <1>3, <1>4 DEF HandleLeaveRoom

LEMMA HandleTold ==
    ASSUME PeerInv, NEW u \in User, Handle(u)
    PROVE  Console(Message)' /\ ProxyRight'
<1>1. PICK m : m = Head(inbox[u])
  OBVIOUS
<1>2. m.type \in {"JoinRoom", "LeaveRoom", "LeaveLobby", "HostMigration"}
  BY <1>1, HandleTakes DEF Message
<1>. QED
  BY <1>1, <1>2, HostMigrationTold, HandleJoinTold, HandleLeaveTold

-----------------------------------------------------------------------------

LEMMA QuietConsole ==
    ASSUME PeerInv, NEW u \in User,
           \/ GetGame(u) \/ JoinFails(u) \/ ConnectToPlayers(u)
           \/ \E r \in Room : SelectGame(u, r)
    PROVE  Console(Message)'
<1>1. CASE ConnectToPlayers(u)
  <2>1. /\ command' = [command EXCEPT ![u] = At("idle")] /\ commands' = commands
        /\ UNCHANGED <<consoleVars, observing, inbox, logins>>
    BY <1>1 DEF ConnectToPlayers
  <2>2. At("idle") \in Command /\ Handler(At("idle"), u)
    BY AtIsCommand DEF Handler, At
  <2>3. commands' \in 0..MaxCommands /\ commands' >= commands
    BY <2>1, Types, GamesAssumption DEF Console, GTypes, GamesTypeOK
  <2>. QED
    BY <2>1, <2>2, <2>3, Types, HandlerMoves
<1>2. CASE ~ConnectToPlayers(u)
  BY <1>2, Types, SmallStepsConsole
<1>. QED
  BY <1>1, <1>2

LEMMA EndsConsole ==
    ASSUME PeerInv, NEW u \in User,
           PeerEndSession(u) \/ PeerSelectFails(u) \/ ConnectFails(u)
    PROVE  Console(Message)'
<1>1. End(u)
  BY DEF PeerEndSession, EndSession, PeerSelectFails, SelectFails, ConnectFails, PeerEnd
<1>. QED
  BY <1>1, Types, EndConsole

LEMMA PeerConsole ==
    ASSUME PeerInv, NEW u \in User,
           \/ PeerLogin(u) \/ PeerSelect(u) \/ PeerJoinRoom(u)
           \/ Disconnect(u) \/ SendFails(u) \/ BroadcastLeave(u) \/ CreateRoom(u)
           \/ \E r \in Room : PeerCreateGame(u, r) \/ PeerJoinGame(u, r)
    PROVE  Console(Message)'
BY Types, LoginConsole, SmallStepsConsole, JoinRoomConsole, DisconnectConsole,
   BroadcastLeaveConsole, CreateRoomConsole, SendFailsConsole
   DEF PeerLogin, PeerSelect, PeerJoinRoom, PeerCreateGame, PeerJoinGame

LEMMA TellingConsole ==
    ASSUME PeerInv, NEW a \in announcing,
           PeerAnswer(a) \/ \E v \in User : AnnounceJoin(a, v)
    PROVE  Console(Message)'
<1>1. CASE PeerAnswer(a)
  <2>1. PICK c : c = [At("connecting") EXCEPT !.players = Others(a)]
    OBVIOUS
  <2>2. Others(a) \subseteq User
    BY Types DEF Others, Announcement
  <2>3. c \in Command /\ c.pc = "connecting"
    BY <2>1, <2>2 DEF At, Command
  <2>4. Answer(a, c)
    BY <1>1, <2>1 DEF PeerAnswer
  <2>. QED
    BY <2>3, <2>4, Types, AnswerConsole
<1>2. CASE \E v \in User : AnnounceJoin(a, v)
  BY <1>2, Types, AnnounceJoinConsole
<1>. QED
  BY <1>1, <1>2

LEMMA NextRight ==
    ASSUME PeerInv, Next
    PROVE  Console(Message)' /\ ProxyRight'
<1>1. ASSUME NEW u \in User,
             \/ PeerLogin(u) \/ PeerEndSession(u)
             \/ PeerSelect(u) \/ PeerSelectFails(u) \/ PeerJoinRoom(u)
             \/ ConnectToPlayers(u) \/ ConnectFails(u)
             \/ Disconnect(u) /\ Aside
             \/ SendFails(u) /\ Aside
             \/ BroadcastLeave(u) /\ Aside
             \/ CreateRoom(u) /\ Aside
             \/ GetGame(u) /\ Aside
             \/ JoinFails(u) /\ Aside
             \/ \E r \in Room : SelectGame(u, r) /\ Aside
             \/ \E r \in Room : PeerCreateGame(u, r) \/ PeerJoinGame(u, r)
      PROVE  Console(Message)' /\ ProxyRight'
  <2>1. Console(Message)'
    BY <1>1, QuietConsole, EndsConsole, PeerConsole
  <2>2. ConnectToPlayers(u) => Aside
    BY DEF ConnectToPlayers
  <2>3. ProxyRight'
    BY <1>1, <2>2, QuietSteps, LoginTold, EndsTold, CreateGameTold, SelectTold, JoinGameTold,
       JoinRoomTold, CreateRoomTold, TellingTold
  <2>. QED
    BY <2>1, <2>3
<1>2. ASSUME NEW a \in announcing,
             PeerAnswer(a) \/ \E v \in User : AnnounceJoin(a, v) /\ Aside
      PROVE  Console(Message)' /\ ProxyRight'
  <2>1. Console(Message)'
    BY <1>2, TellingConsole
  <2>2. ProxyRight'
    BY <1>2, TellingTold DEF PeerAnswer
  <2>. QED
    BY <2>1, <2>2
<1>. QED
  BY <1>1, <1>2, HandleTold DEF Next

LEMMA InitPeerInv == Init => PeerInv
<1>. SUFFICES ASSUME Init PROVE PeerInv
  OBVIOUS
<1>1. /\ GamesInit /\ game = [u \in User |-> NoGame] /\ taken = [u \in User |-> 0]
      /\ peers = [u \in User |-> Nobodies] /\ fate = [u \in User |-> "fine"] /\ raced = FALSE
  BY DEF Init
<1>2. Console(Message)
  BY <1>1, InitConsole
<1>3. Nobodies \in [User -> Peer \cup {NoPeer}] /\ \A v \in User : Nobodies[v] = NoPeer
  BY DEF Nobodies
<1>4. 0 \in 0..2 * RingSize
  BY PeerGamesAssumption
<1>. HIDE DEF Nobodies
<1>5. ProxyTypes
  BY <1>1, <1>3, <1>4 DEF ProxyTypes
<1>6. \A u \in User : Known(u) = {}
  BY <1>1, <1>3 DEF Known
<1>7. Addresses
  BY <1>1, <1>3 DEF Addresses, Apart
<1>8. \A u \in User : Told(u)
  <2>1. \A u \in User : command[u].pc = "idle"
    BY <1>1, AtIsCommand DEF GamesInit
  <2>. QED
    BY <1>1, <1>6, <2>1 DEF Told, HostOf, RosterOf, Follows, IsAt
<1>. QED
  BY <1>2, <1>5, <1>7, <1>8 DEF PeerInv

LEMMA Invariance == Spec => []PeerInv
<1>1. PeerInv /\ [Next]_vars => PeerInv'
  <2>. SUFFICES ASSUME PeerInv, [Next]_vars PROVE PeerInv'
    OBVIOUS
  <2>1. CASE Next
    BY <2>1, NextRight DEF PeerInv, ProxyRight
  <2>2. CASE UNCHANGED vars
    <3>1. /\ UNCHANGED <<members, leader, online, gameID, announcing, farewells, connected, command,
                         observing, inbox, commands, logins>>
          /\ UNCHANGED <<game, taken, peers, fate, raced>>
      BY <2>2 DEF vars, gameVars, consoleVars, proxyVars
    <3>2. Console(Message)'
      BY <3>1 DEF PeerInv, Console, GTypes, GamesTypeOK, Membership, Leadership, Presence,
                  Handlers, Handler, Informed, RoomNews
    <3>3. ASSUME ~raced, NEW w \in User PROVE Told(w)'
      BY <3>1, <3>3, Unaffected DEF Hearing
    <3>. QED
      BY <3>1, <3>2, <3>3 DEF PeerInv, ProxyTypes, Addresses
  <2>. QED
    BY <2>1, <2>2
<1>. QED
  BY <1>1, InitPeerInv, PTL DEF Spec

\* The rooms, sessions, handlers, inboxes, games, peers and rings always have
\* the declared types; in particular no address lies outside the ring.
THEOREM TypeCorrect == Spec => []TypeOK
<1>1. PeerInv => TypeOK
  BY DEF PeerInv, Console, GTypes, ProxyTypes, TypeOK
<1>. QED
  BY <1>1, Invariance, PTL

\* Until the ring has wrapped no two peers of a game stand behind one address
\* of the loopback network, whoever came, left and came back
\* (p2p/ip_ring.go NextAddr).
THEOREM AddressesApart == Spec => []AddressesFree
<1>1. ASSUME PeerInv PROVE AddressesFree
  <2>1. SUFFICES ASSUME NEW u \in User, taken[u] <= RingSize, NEW v \in Known(u),
                        NEW w \in Known(u), v # w, peers[u][v] = peers[u][w]
                 PROVE  peers[u][v] = 0
    BY DEF AddressesFree
  <2>2. Apart(peers[u], taken[u])
    BY <1>1 DEF PeerInv, Addresses
  <2>. QED
    BY <2>1, <2>2 DEF Apart, Known
<1>. QED
  BY <1>1, Invariance, PTL

LEMMA PeersFollow ==
    ASSUME PeerInv
    PROVE  PeersAgree
<1>1. SUFFICES ASSUME NEW u \in User, NEW r \in Room, ~raced, Quiet(u, r)
               PROVE  /\ Known(u) \cup {u} = members[r]
                      /\ game[u].host = leader[r]
  BY DEF PeersAgree
<1>2. /\ Settled(u, r) /\ game[u] # NoGame /\ game[u].id = r /\ u \in Hearing
      /\ gameID[u] = r /\ inbox[u] = <<>> /\ r # NoRoom
  BY <1>1, GamesAssumption DEF Quiet, Settled
<1>3. HostOf(u) /\ RosterOf(u)
  BY <1>1 DEF PeerInv, Told
<1>4. game[u].host = leader[r]
  <2>1. NoMigration(inbox[u])
    BY <1>2, EmptyBox
  <2>. QED
    BY <1>2, <1>3, <2>1 DEF HostOf, HostIs, Follows
<1>5. Roster(u, Known(u), r)
  BY <1>2, <1>3 DEF RosterOf
<1>6. Known(u) \cup {u} = members[r]
  BY <1>2, <1>5, RosterMet DEF PeerInv, Console
<1>. QED
  BY <1>4, <1>6

\* As long as no race the code leaves open has happened, the peers of a game are
\* the players of its room and its host is the console's once everything about
\* the room has been read: whatever was announced while others left, told twice
\* or read late (p2p/event_handler.go handleJoinRoom, handleLeaveRoom,
\* handleHostMigration).
THEOREM PeersAreRight == Spec => []PeersAgree
BY PeersFollow, Invariance, PTL

=============================================================================
