------------------------------ MODULE Database ------------------------------
(***************************************************************************)
(* The two tables of the console's SQLite database and the queries on them *)
(* (console/database).  A query is one statement.  All writes go through   *)
(* one connection, one transaction each, so that they come one after the   *)
(* other; a query is an action that is enabled when its statement          *)
(* succeeds.                                                               *)
(***************************************************************************)
EXTENDS CharacterInfo, Integers, Sequences, FiniteSets, FiniteSetsExt

CONSTANTS
    UserName, Hash,      \* what columns of text hold
    CharName, Blob,      \* Blob: a base64 text of an inventory or of spells
    NULL,
    MaxRows,             \* bound: rows of a table
    PageSize             \* LIMIT of the ranking, 10 in the code

ASSUME DatabaseAssumption ==
    /\ NULL \notin Blob
    /\ MaxRows \in Nat
    /\ PageSize \in Nat \ {0}

VARIABLES users, characters  \* of the 33 columns with numbers: a row's info

tables == <<users, characters>>

ID == 1..MaxRows

User == [id : ID, name : UserName, password : Hash]

Character == [id : ID, user : ID, name : CharName, info : Info,
              inventory : Blob \cup {NULL}, spells : Blob \cup {NULL}]

TablesOK == users \subseteq User /\ characters \subseteq Character

-----------------------------------------------------------------------------

\* INTEGER PRIMARY KEY: one more than the largest in use.
NextID(table) == 1 + Max({0} \cup {row.id : row \in table})

\* A query that asks for one row gets the first of the table.
FirstRow(rows) == {r \in rows : \A s \in rows : r.id <= s.id}

GetUserByID(id) == {u \in users : u.id = id}

GetUserByName(name) == {u \in users : u.name = name}

\* username is UNIQUE.
InsertUser(name, hash) ==
    /\ GetUserByName(name) = {}
    /\ NextID(users) \in ID
    /\ users' = users \cup
          {[id |-> NextID(users), name |-> name, password |-> hash]}
    /\ UNCHANGED characters

ListCharacterRows(user) == {r \in characters : r.user = user}

\* WHERE character_name = ? AND user_id = ?
Named(user, name) == {r \in characters : r.user = user /\ r.name = name}

FindCharacter(user, name) == FirstRow(Named(user, name))

\* Nothing is unique but the ID; the other columns are NULL.
InsertCharacter(user, name, info) ==
    /\ NextID(characters) \in ID
    /\ GetUserByID(user) # {}
    /\ characters' = characters \cup
          {[id |-> NextID(characters), user |-> user, name |-> name,
            info |-> info, inventory |-> NULL, spells |-> NULL]}
    /\ UNCHANGED users

\* An UPDATE of the rows named so, of which there may be none or several.
UpdateNamed(user, name, Changed(_)) ==
    LET rows == Named(user, name) IN
    /\ characters' = (characters \ rows) \cup {Changed(r) : r \in rows}
    /\ UNCHANGED users

\* Mutation: the UPDATE reaches the newest of the rows only.
UpdateNewestStats(user, name, info) ==
    LET rows == {r \in Named(user, name) :
                    \A s \in Named(user, name) : s.id <= r.id} IN
    /\ characters' = (characters \ rows) \cup {[r EXCEPT !.info = info] : r \in rows}
    /\ UNCHANGED users

UpdateCharacterStats(user, name, info) ==
    UpdateNamed(user, name, LAMBDA r : [r EXCEPT !.info = info])

UpdateCharacterInventory(user, name, blob) ==
    UpdateNamed(user, name, LAMBDA r : [r EXCEPT !.inventory = blob])

UpdateCharacterSpells(user, name, blob) ==
    UpdateNamed(user, name, LAMBDA r : [r EXCEPT !.spells = blob])

DeleteCharacterRows(user, name) ==
    /\ characters' = characters \ Named(user, name)
    /\ UNCHANGED users

-----------------------------------------------------------------------------
(* Ranking *)

\* LIMIT PageSize OFFSET offset: positions and their rows.
RankingPage(order, offset) ==
    LET last == IF offset + PageSize <= Len(order)
                THEN offset + PageSize ELSE Len(order)
    IN  [i \in offset + 1..last |-> order[i]]

\* ORDER BY score_points, rows with as many points in any order; the best
\* player comes last.
RankingOrders(class) ==
    LET rows == {r \in characters : r.info.ClassType = class}
    IN  {order \in [1..Cardinality(rows) -> rows] :
            /\ {order[i] : i \in DOMAIN order} = rows
            /\ \A i, j \in DOMAIN order :
                   i < j => order[i].info.ScorePoints <= order[j].info.ScorePoints}

\* ROW_NUMBER counts the rows of the subquery, and that has selected the rows of
\* one character before.
GetCurrentUser(user, name) ==
    LET rows == {r \in Named(user, name) :
                    \A s \in Named(user, name) : r.info.ScorePoints <= s.info.ScorePoints}
    IN  {[position |-> 1, row |-> r] : r \in rows}
=============================================================================
