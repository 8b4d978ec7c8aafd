----------------------------- MODULE HostOrder -----------------------------
(***************************************************************************)
(* Who becomes the next host.  GetNextHost picks the least JoinedAt, and   *)
(* JoinedAt is a field of the session, not of its place in a room: every   *)
(* JoinRoom overwrites it.  This module adds to Lobby a history variable   *)
(* with the time at which each player entered each room, and compares.     *)
(***************************************************************************)
EXTENDS Lobby

VARIABLE enteredAt  \* when each user entered each room it is in

orderVars == <<vars, enteredAt>>

Lists(r, u) == Open(r) /\ u \in Players(r)

OrderInit == Init /\ enteredAt = [r \in Room |-> [u \in User |-> 0]]

RecordEntries ==
    enteredAt' = [r \in Room |-> [u \in User |->
                    IF Lists(r, u)' /\ ~Lists(r, u) THEN now' ELSE enteredAt[r][u]]]

OrderNext == Next /\ RecordEntries

OrderSpec == OrderInit /\ [][OrderNext]_orderVars

-----------------------------------------------------------------------------

Migrates(r) == Open(r) /\ Open(r)' /\ rooms[r].host # rooms'[r].host

EntersNoLater(r, u, v) == enteredAt[r][u] <= enteredAt[r][v]

\* "Find the player who joined the room earliest" (GetNextHost) holds as far
\* as JoinedAt lets it: among the players who have entered no other room
\* since, the new host entered no later than anybody.
EarliestStayingPlayerHosts ==
    [][\A r \in Room : Migrates(r) =>
        \A v \in Players(r)' :
            /\ gameID[rooms[r].players[v]] = r
            /\ gameID'[rooms'[r].host] = r
            => EntersNoLater(r, HostUser(r)', v)]_orderVars

=============================================================================
