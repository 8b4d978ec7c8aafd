------------------------------ MODULE Accounts ------------------------------
(***************************************************************************)
(* The console's services for users, characters and the ranking            *)
(* (console/user.go, character.go, ranking.go).  A service that writes     *)
(* begins a transaction, makes one statement and commits; when any of the  *)
(* three fails the tables are as before and the caller gets an error.      *)
(* What is here is a call that succeeds; who calls may always find it to   *)
(* have failed, see Backend.                                               *)
(***************************************************************************)
EXTENDS Database

CONSTANTS
    Password,
    HashOf(_)    \* bcrypt, as far as CheckPassword is concerned

ASSUME AccountsAssumption ==
    /\ \A p \in Password : HashOf(p) \in Hash
    /\ \A p, q \in Password : HashOf(p) = HashOf(q) => p = q

NewPassword(text) == HashOf(text)

CheckPassword(text, hash) == HashOf(text) = hash

-----------------------------------------------------------------------------

CreateUser(name, password) == InsertUser(name, NewPassword(password))

\* The IDs AuthenticateUser may answer with; none is "unauthenticated".
AuthenticateUser(name, password) ==
    {u.id : u \in {v \in GetUserByName(name) :
                      CheckPassword(password, v.password)}}

\* What a character is sent as: {} is "not found".
GetCharacter(user, name) ==
    {[id |-> r.id, stats |-> ToBytes(r.info), inventory |-> r.inventory,
      spells |-> r.spells] : r \in FindCharacter(user, name)}

ListCharacters(user) ==
    {[id |-> r.id, name |-> r.name, stats |-> ToBytes(r.info)] :
        r \in ListCharacterRows(user)}

CreateCharacter(user, name, stats) ==
    InsertCharacter(user, name, ParseCharacterInfo(stats))

PutStats(user, name, stats) ==
    UpdateCharacterStats(user, name, ParseCharacterInfo(stats))

PutSpells(user, name, spells) == UpdateCharacterSpells(user, name, spells)

PutInventoryCharacter(user, name, inventory) ==
    UpdateCharacterInventory(user, name, inventory)

DeleteCharacter(user, name) == DeleteCharacterRows(user, name)

\* {} is an error: the caller has no character of that name.
GetRanking(user, name, class, offset) ==
    {[players |-> RankingPage(order, offset), current |-> own] :
        order \in RankingOrders(class), own \in GetCurrentUser(user, name)}
=============================================================================
