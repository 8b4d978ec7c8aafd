--------------------------- MODULE RoomDirectory ---------------------------
(***************************************************************************)
(* What the console promises about game rooms, without sessions,           *)
(* websockets or clocks: a room is a set of users, one of whom leads it.   *)
(* A user opens a room and leads it; users enter open rooms and leave      *)
(* them; the lead changes hands only when the leader leaves, and then to   *)
(* somebody present; the last one to leave closes the room.                *)
(* Lobby implements this specification.                                    *)
(***************************************************************************)

CONSTANTS
    Room,    \* the names of rooms
    User,    \* the users
    Nobody   \* the leader of a closed room

VARIABLES
    members,  \* the users in each room, none in a closed one
    leader    \* the user leading each room

dirVars == <<members, leader>>

DirInit ==
    /\ members = [r \in Room |-> {}]
    /\ leader = [r \in Room |-> Nobody]

OpenRoom(r, u) ==
    /\ members[r] = {}
    /\ members' = [members EXCEPT ![r] = {u}]
    /\ leader' = [leader EXCEPT ![r] = u]

Enter(r, u) ==
    /\ members[r] # {}
    /\ u \notin members[r]
    /\ members' = [members EXCEPT ![r] = @ \cup {u}]
    /\ UNCHANGED leader

Follow(r, u) ==
    /\ u \in members[r] \ {leader[r]}
    /\ members' = [members EXCEPT ![r] = @ \ {u}]
    /\ UNCHANGED leader

HandOver(r, v) ==
    /\ v \in members[r] \ {leader[r]}
    /\ members' = [members EXCEPT ![r] = @ \ {leader[r]}]
    /\ leader' = [leader EXCEPT ![r] = v]

Close(r) ==
    /\ members[r] # {}
    /\ members[r] = {leader[r]}
    /\ members' = [members EXCEPT ![r] = {}]
    /\ leader' = [leader EXCEPT ![r] = Nobody]

DirNext ==
    \E r \in Room :
        \/ Close(r)
        \/ \E u \in User : OpenRoom(r, u) \/ Enter(r, u) \/ Follow(r, u) \/ HandOver(r, u)

DirSpec == DirInit /\ [][DirNext]_dirVars

=============================================================================
