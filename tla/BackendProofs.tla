--------------------------- MODULE BackendProofs ---------------------------
(***************************************************************************)
(* Proofs about Backend, for any number of connections, users, names, rows *)
(* and statements.                                                         *)
(***************************************************************************)
EXTENDS Backend, FiniteSetTheorems, WellFoundedInduction, TLAPS

(***************************************************************************)
(* The numbers of a character and their bytes                              *)
(***************************************************************************)

LEMMA Shift ==
    ASSUME NEW K \in Nat, NEW r \in Nat, NEW m \in Nat, r < K
    PROVE  (r + K * m) \div K = m /\ (r + K * m) % K = r
BY SMT

LEMMA Bytes2 ==
    ASSUME NEW a \in Nat, NEW b \in Nat, a < 256, b < 256, NEW n, n = a + 256 * b
    PROVE  n \in Nat /\ ByteOf(n, 0) = a /\ ByteOf(n, 1) = b
<1>1. n \in Nat /\ n \div 1 = n /\ b % 256 = b
  OBVIOUS
<1>2. n % 256 = a /\ n \div 256 = b
  BY Shift
<1>3. ByteOf(n, 0) = (n \div 1) % 256 /\ ByteOf(n, 1) = (n \div 256) % 256
  BY DEF ByteOf
<1>. QED
  BY <1>1, <1>2, <1>3

\* What four bytes are read as.
Four(a, b, c, d) == a + 256 * b + 65536 * c + 16777216 * d

LEMMA Bytes4 ==
    ASSUME NEW a \in Nat, NEW b \in Nat, NEW c \in Nat, NEW d \in Nat,
           a < 256, b < 256, c < 256, d < 256,
           NEW n, n = Four(a, b, c, d)
    PROVE  /\ n \in Nat
           /\ ByteOf(n, 0) = a /\ ByteOf(n, 1) = b
           /\ ByteOf(n, 2) = c /\ ByteOf(n, 3) = d
<1>1. PICK k \in Nat : k = c + 256 * d
  OBVIOUS
<1>2. PICK m \in Nat : m = b + 256 * k
  BY <1>1
<1>3. n \in Nat /\ n = a + 256 * m
  BY <1>1, <1>2 DEF Four
<1>4. n % 256 = a /\ n \div 256 = m /\ m % 256 = b /\ k % 256 = c /\ n \div 1 = n
  BY <1>1, <1>2, <1>3, Shift
<1>5. n \div 65536 = k
  <2>1. PICK r \in Nat : r = a + 256 * b /\ r < 65536
    OBVIOUS
  <2>2. n = r + 65536 * k
    BY <1>2, <1>3, <2>1
  <2>. QED
    BY <2>1, <2>2, Shift
<1>6. n = a + 256 * b + 65536 * c + 16777216 * d
  BY DEF Four
<1>7. n \div 16777216 = d /\ d % 256 = d
  <2>1. PICK r \in Nat : r = a + 256 * b + 65536 * c /\ r < 16777216
    OBVIOUS
  <2>2. n = r + 16777216 * d
    BY <1>6, <2>1
  <2>. QED
    BY <2>1, <2>2, Shift
<1>8. /\ ByteOf(n, 0) = (n \div 1) % 256 /\ ByteOf(n, 1) = (n \div 256) % 256
      /\ ByteOf(n, 2) = (n \div 65536) % 256 /\ ByteOf(n, 3) = (n \div 16777216) % 256
  BY DEF ByteOf
<1>9. n \in Nat /\ k % 256 = c
  BY <1>3, <1>4
<1>. QED
  BY <1>4, <1>5, <1>7, <1>8, <1>9

\* The two tables are one.
LEMMA SameTable == ReadFrom = WrittenTo
BY DEF ReadFrom, WrittenTo

LEMMA InBuffer ==
    ASSUME NEW f \in Field
    PROVE  Width(f) \in {1, 2, 4} /\ WrittenTo[f] \in 0..56 - Width(f)
<1>1. CASE f \in Uint16
  BY <1>1 DEF Width, WrittenTo, Uint16
<1>2. CASE f \in Uint32
  BY <1>2 DEF Width, WrittenTo, Uint16, Uint32
<1>3. CASE f \in Uint8
  BY <1>3 DEF Width, WrittenTo, Uint16, Uint32, Uint8
<1>. QED
  BY <1>1, <1>2, <1>3 DEF Field

\* No byte is left out.
LEMMA EveryByte ==
    ASSUME NEW i \in 0..55
    PROVE  \E f \in Field : i \in WrittenTo[f]..WrittenTo[f] + Width(f) - 1
<1>1. ASSUME NEW f \in Uint16 PROVE f \in Field /\ Width(f) = 2
  BY DEF Field, Width
<1>2. ASSUME NEW f \in Uint32 PROVE f \in Field /\ Width(f) = 4
  BY DEF Field, Width, Uint16, Uint32
<1>3. ASSUME NEW f \in Uint8 PROVE f \in Field /\ Width(f) = 1
  BY DEF Field, Width, Uint16, Uint32, Uint8
<1>4. CASE i \in 0..11
  <2>1. \E f \in Uint16 : i \in WrittenTo[f]..WrittenTo[f] + 1
    BY <1>4 DEF Uint16, WrittenTo
  <2>. QED
    BY <1>1, <2>1
<1>5. CASE i \in 12..23
  <2>1. \E f \in Uint32 : i \in WrittenTo[f]..WrittenTo[f] + 3
    BY <1>5 DEF Uint32, WrittenTo
  <2>. QED
    BY <1>2, <2>1
<1>6. CASE i \in 24..39
  <2>1. \E f \in Uint8 : WrittenTo[f] = i
    BY <1>6 DEF Uint8, WrittenTo
  <2>. QED
    BY <1>3, <2>1
<1>7. CASE i \in 40..55
  <2>1. \E f \in Uint16 : i \in WrittenTo[f]..WrittenTo[f] + 1
    BY <1>7 DEF Uint16, WrittenTo
  <2>. QED
    BY <1>1, <2>1
<1>. QED
  BY <1>4, <1>5, <1>6, <1>7

LEMMA FieldRoundTrip ==
    ASSUME NEW buf \in Buffer, NEW f \in Field
    PROVE  /\ ParseCharacterInfo(buf)[f] \in Nat
           /\ \A i \in WrittenTo[f]..WrittenTo[f] + Width(f) - 1 :
                 /\ i \in 0..55
                 /\ ByteOf(ParseCharacterInfo(buf)[f], i - WrittenTo[f]) = buf[i]
<1>1. PICK w : w = Width(f) /\ w \in {1, 2, 4}
  BY InBuffer
<1>2. PICK at \in Nat : at = WrittenTo[f] /\ at + w <= 56
  BY <1>1, InBuffer
<1>3. PICK n : n = ParseCharacterInfo(buf)[f]
  OBVIOUS
<1>4. n = LittleEndian(buf, at, w)
  BY <1>1, <1>2, <1>3, SameTable DEF ParseCharacterInfo
<1>5. ASSUME NEW i \in 0..55 PROVE buf[i] \in Nat /\ buf[i] < 256
  <2>1. buf[i] \in Byte
    BY DEF Buffer
  <2>. QED
    BY <2>1 DEF Byte
<1>6. /\ n \in Nat
      /\ \A k \in 0..w - 1 : ByteOf(n, k) = buf[at + k]
  <2>1. CASE w = 1
    <3>1. n = buf[at] /\ n \in Nat /\ n < 256
      BY <1>2, <1>4, <1>5, <2>1 DEF LittleEndian
    <3>2. ByteOf(n, 0) = (n \div 1) % 256 /\ n \div 1 = n /\ n % 256 = n
      BY <3>1 DEF ByteOf
    <3>. QED
      BY <1>2, <2>1, <3>1, <3>2
  <2>2. CASE w = 2
    <3>1. n = buf[at] + 256 * buf[at + 1]
      BY <1>4, <2>2 DEF LittleEndian
    <3>2. PICK a \in Nat, b \in Nat : a = buf[at] /\ b = buf[at + 1] /\ a < 256 /\ b < 256
      <4>1. at \in 0..55 /\ at + 1 \in 0..55
        BY <1>2, <2>2
      <4>2. /\ buf[at] \in Nat /\ buf[at] < 256
            /\ buf[at + 1] \in Nat /\ buf[at + 1] < 256
        BY <1>5, <4>1
      <4>. QED
        BY <4>2
    <3>3. n \in Nat /\ ByteOf(n, 0) = buf[at] /\ ByteOf(n, 1) = buf[at + 1]
      BY <3>1, <3>2, Bytes2
    <3>. QED
      BY <1>2, <2>2, <3>3
  <2>3. CASE w = 4
    <3>1. n = Four(buf[at], buf[at + 1], buf[at + 2], buf[at + 3])
      BY <1>4, <2>3 DEF LittleEndian, Four
    <3>2. PICK a \in Nat, b \in Nat, c \in Nat, d \in Nat :
             /\ a = buf[at] /\ b = buf[at + 1] /\ c = buf[at + 2] /\ d = buf[at + 3]
             /\ a < 256 /\ b < 256 /\ c < 256 /\ d < 256
      <4>1. at \in 0..55 /\ at + 1 \in 0..55 /\ at + 2 \in 0..55 /\ at + 3 \in 0..55
        BY <1>2, <2>3
      <4>2. /\ buf[at] \in Nat /\ buf[at] < 256
            /\ buf[at + 1] \in Nat /\ buf[at + 1] < 256
            /\ buf[at + 2] \in Nat /\ buf[at + 2] < 256
            /\ buf[at + 3] \in Nat /\ buf[at + 3] < 256
        BY <1>5, <4>1
      <4>. QED
        BY <4>2
    <3>3. /\ n \in Nat /\ ByteOf(n, 0) = buf[at] /\ ByteOf(n, 1) = buf[at + 1]
          /\ ByteOf(n, 2) = buf[at + 2] /\ ByteOf(n, 3) = buf[at + 3]
      <4>1. n = Four(a, b, c, d)
        BY <3>1, <3>2
      <4>2. a < 256 /\ b < 256 /\ c < 256 /\ d < 256
        BY <3>2
      <4>3. /\ n \in Nat /\ ByteOf(n, 0) = a /\ ByteOf(n, 1) = b
            /\ ByteOf(n, 2) = c /\ ByteOf(n, 3) = d
        BY <4>1, <4>2, Bytes4
      <4>. QED
        BY <3>2, <4>3
    <3>. QED
      BY <1>2, <2>3, <3>3
  <2>. QED
    BY <1>1, <2>1, <2>2, <2>3
<1>7. ASSUME NEW i \in WrittenTo[f]..WrittenTo[f] + Width(f) - 1
      PROVE  i \in 0..55 /\ ByteOf(n, i - WrittenTo[f]) = buf[i]
  <2>1. PICK k \in 0..w - 1 : i = at + k /\ k = i - WrittenTo[f]
    BY <1>1, <1>2
  <2>2. ByteOf(n, k) = buf[at + k] /\ at + k \in 0..55
    BY <1>1, <1>2, <1>6
  <2>. QED
    BY <2>1, <2>2
<1>. QED
  BY <1>3, <1>6, <1>7

LEMMA InfoRead ==
    ASSUME NEW buf \in Buffer
    PROVE  ParseCharacterInfo(buf) \in Info
<1>1. \A f \in Field : ParseCharacterInfo(buf)[f] \in Nat
  BY FieldRoundTrip
<1>. QED
  BY <1>1 DEF ParseCharacterInfo, Info

\* What a game client sends as a character's numbers is written back, byte for
\* byte, from the numbers it was read into, whatever the 56 bytes are: the two
\* tables of offsets agree, and no byte is left out (model/character_info.go:
\* ParseCharacterInfo, ToBytes).
THEOREM RoundTrip ==
    ASSUME NEW buf \in Buffer
    PROVE  ToBytes(ParseCharacterInfo(buf)) = buf
<1>1. PICK info : info = ParseCharacterInfo(buf)
  OBVIOUS
<1>2. ASSUME NEW i \in 0..55 PROVE ToBytes(info)[i] = buf[i]
  <2>1. PICK fields : fields = FieldsAt[i]
    OBVIOUS
  <2>2. fields = {f \in Field : i \in WrittenTo[f]..WrittenTo[f] + Width(f) - 1}
    BY <2>1 DEF FieldsAt
  <2>3. fields # {}
    BY <2>2, EveryByte
  <2>4. PICK f \in fields : f = CHOOSE g \in fields : TRUE
    BY <2>3
  <2>5. ToBytes(info)[i] = ByteOf(info[f], i - WrittenTo[f])
    BY <2>1, <2>3, <2>4 DEF ToBytes
  <2>. QED
    BY <1>1, <2>2, <2>4, <2>5, FieldRoundTrip
<1>3. ToBytes(info) = [i \in 0..55 |-> ToBytes(info)[i]] /\ buf = [i \in 0..55 |-> buf[i]]
  BY DEF ToBytes, Buffer
<1>. QED
  BY <1>1, <1>2, <1>3

(***************************************************************************)
(* Rows and their IDs                                                      *)
(***************************************************************************)

\* Initial segments are ordered by inclusion, which is well founded.
LEMMA Least ==
    ASSUME NEW S \in SUBSET Nat, S # {}
    PROVE  \E n \in S : \A m \in S : n <= m
<1>. DEFINE Below == {0..n : n \in S}
<1>1. Below \subseteq FiniteSubsetsOf(Nat) /\ Below # {}
  <2>1. ASSUME NEW n \in S PROVE 0..n \in SUBSET Nat /\ IsFiniteSet(0..n)
    <3>1. 0 \in Int /\ n \in Int /\ 0..n \in SUBSET Nat
      OBVIOUS
    <3>. QED
      BY <3>1, FS_Interval
  <2>. QED
    BY <2>1 DEF FiniteSubsetsOf
<1>2. PICK A \in Below : \A B \in Below : <<B, A>> \notin StrictSubsetOrdering(Nat)
  BY <1>1, FS_StrictSubsetOrderingWellFounded, WFMin
<1>3. PICK n \in S : A = 0..n
  BY <1>2
<1>4. ASSUME NEW m \in S, m < n PROVE FALSE
  <2>1. 0..m \in SUBSET Nat /\ 0..n \in SUBSET Nat /\ 0..m \subseteq 0..n
    BY <1>4
  <2>2. n \in 0..n /\ n \notin 0..m
    BY <1>4
  <2>3. <<0..m, 0..n>> \in StrictSubsetOrdering(Nat)
    BY <2>1, <2>2 DEF StrictSubsetOrdering
  <2>. QED
    BY <1>2, <1>3, <2>3
<1>. QED
  BY <1>4

LEMMA FirstExists ==
    ASSUME NEW rows, rows # {}, \A r \in rows : r.id \in Nat
    PROVE  FirstRow(rows) # {}
<1>. DEFINE ids == {r.id : r \in rows}
<1>1. ids \subseteq Nat /\ ids # {}
  OBVIOUS
<1>2. PICK n \in ids : \A m \in ids : n <= m
  BY <1>1, Least
<1>3. PICK r \in rows : r.id = n
  OBVIOUS
<1>. QED
  BY <1>2, <1>3 DEF FirstRow

(***************************************************************************)
(* Updates                                                                 *)
(***************************************************************************)

\* An UPDATE: the rows named so are replaced, one by one.
Replaces(user, name, f) ==
    /\ users' = users
    /\ f \in [Named(user, name) -> Character]
    /\ \A r \in Named(user, name) :
          f[r].id = r.id /\ f[r].user = r.user /\ f[r].name = r.name
    /\ characters' = (characters \ Named(user, name)) \cup {f[r] : r \in Named(user, name)}

LEMMA StatsReplaces ==
    ASSUME TablesOK, NEW user, NEW name, NEW info \in Info,
           UpdateCharacterStats(user, name, info)
    PROVE  Replaces(user, name, [r \in Named(user, name) |-> [r EXCEPT !.info = info]])
<1>1. ASSUME NEW r \in Named(user, name)
      PROVE  /\ [r EXCEPT !.info = info] \in Character
             /\ [r EXCEPT !.info = info].id = r.id
             /\ [r EXCEPT !.info = info].user = r.user
             /\ [r EXCEPT !.info = info].name = r.name
  <2>1. r \in Character
    BY DEF Named, TablesOK
  <2>. QED
    BY <2>1 DEF Character
<1>2. /\ users' = users
      /\ characters' = (characters \ Named(user, name)) \cup
                          {[r EXCEPT !.info = info] : r \in Named(user, name)}
  BY DEF UpdateCharacterStats, UpdateNamed
<1>. QED
  BY <1>1, <1>2 DEF Replaces

LEMMA InventoryReplaces ==
    ASSUME TablesOK, NEW user, NEW name, NEW blob \in Blob,
           UpdateCharacterInventory(user, name, blob)
    PROVE  Replaces(user, name, [r \in Named(user, name) |-> [r EXCEPT !.inventory = blob]])
<1>1. ASSUME NEW r \in Named(user, name)
      PROVE  /\ [r EXCEPT !.inventory = blob] \in Character
             /\ [r EXCEPT !.inventory = blob].id = r.id
             /\ [r EXCEPT !.inventory = blob].user = r.user
             /\ [r EXCEPT !.inventory = blob].name = r.name
  <2>1. r \in Character
    BY DEF Named, TablesOK
  <2>. QED
    BY <2>1 DEF Character
<1>2. /\ users' = users
      /\ characters' = (characters \ Named(user, name)) \cup
                          {[r EXCEPT !.inventory = blob] : r \in Named(user, name)}
  BY DEF UpdateCharacterInventory, UpdateNamed
<1>. QED
  BY <1>1, <1>2 DEF Replaces

LEMMA SpellsReplaces ==
    ASSUME TablesOK, NEW user, NEW name, NEW blob \in Blob,
           UpdateCharacterSpells(user, name, blob)
    PROVE  Replaces(user, name, [r \in Named(user, name) |-> [r EXCEPT !.spells = blob]])
<1>1. ASSUME NEW r \in Named(user, name)
      PROVE  /\ [r EXCEPT !.spells = blob] \in Character
             /\ [r EXCEPT !.spells = blob].id = r.id
             /\ [r EXCEPT !.spells = blob].user = r.user
             /\ [r EXCEPT !.spells = blob].name = r.name
  <2>1. r \in Character
    BY DEF Named, TablesOK
  <2>. QED
    BY <2>1 DEF Character
<1>2. /\ users' = users
      /\ characters' = (characters \ Named(user, name)) \cup
                          {[r EXCEPT !.spells = blob] : r \in Named(user, name)}
  BY DEF UpdateCharacterSpells, UpdateNamed
<1>. QED
  BY <1>1, <1>2 DEF Replaces

LEMMA ReplacesKeeps ==
    ASSUME TablesOK, NEW user, NEW name, NEW f, Replaces(user, name, f)
    PROVE  /\ TablesOK'
           /\ Named(user, name)' = {f[r] : r \in Named(user, name)}
           /\ \A v, n : v # user \/ n # name => Named(v, n)' = Named(v, n)
<1>1. TablesOK'
  BY DEF Replaces, TablesOK
<1>2. Named(user, name)' = {f[r] : r \in Named(user, name)}
  BY DEF Replaces, Named
<1>3. ASSUME NEW v, NEW n, v # user \/ n # name PROVE Named(v, n)' = Named(v, n)
  BY <1>3 DEF Replaces, Named
<1>. QED
  BY <1>1, <1>2, <1>3

(***************************************************************************)
(* What a name stands for: no row, or rows of which the first has the      *)
(* numbers that were sent last.  Rows that were inserted besides (again)   *)
(* may have other numbers.                                                 *)
(***************************************************************************)

Right(user, name, stats, again) ==
    IF stats = NULL
    THEN Named(user, name) = {}
    ELSE /\ Named(user, name) # {}
         /\ \/ again
            \/ \A r \in FirstRow(Named(user, name)) : r.info = ParseCharacterInfo(stats)

StoredRight ==
    \A user \in ID, name \in CharName :
        Right(user, name, stored[<<user, name>>], <<user, name>> \in repeated)

\* Rows of another name are left alone.
OthersKept(user, name) ==
    \A v, n : v # user \/ n # name => Named(v, n)' = Named(v, n)

\* Nor do they become or cease to be repeated.
OthersRepeated(user, name) ==
    \A v, n : v # user \/ n # name =>
        (<<v, n>> \in repeated' <=> <<v, n>> \in repeated)

LEMMA OthersRight ==
    ASSUME NEW user \in ID, NEW name \in CharName, StoredRight,
           OthersKept(user, name), OthersRepeated(user, name),
           stored \in [ID \X CharName -> Stats \cup {NULL}],
           NEW stats, stored' = [stored EXCEPT ![<<user, name>>] = stats],
           NEW again, again = (<<user, name>> \in repeated'),
           Right(user, name, stats, again)'
    PROVE  StoredRight'
<1> SUFFICES ASSUME NEW v \in ID, NEW n \in CharName
             PROVE  Right(v, n, stored[<<v, n>>], <<v, n>> \in repeated)'
  BY DEF StoredRight
<1>1. CASE v = user /\ n = name
  <2>1. stored'[<<v, n>>] = stats
    BY <1>1
  <2>. QED
    BY <1>1, <2>1 DEF Right
<1>2. CASE v # user \/ n # name
  <2>1. stored'[<<v, n>>] = stored[<<v, n>>]
    BY <1>2
  <2>2. Named(v, n)' = Named(v, n)
    BY <1>2 DEF OthersKept
  <2>3. <<v, n>> \in repeated' <=> <<v, n>> \in repeated
    BY <1>2 DEF OthersRepeated
  <2>4. Right(v, n, stored[<<v, n>>], <<v, n>> \in repeated)
    BY DEF StoredRight
  <2>. QED
    BY <2>1, <2>2, <2>3, <2>4 DEF Right
<1>. QED
  BY <1>1, <1>2

LEMMA InsertRight ==
    ASSUME TablesOK, NEW user \in ID, NEW name \in CharName, NEW info \in Info,
           InsertCharacter(user, name, info)
    PROVE  /\ TablesOK'
           /\ OthersKept(user, name)
           /\ Named(user, name)' # {}
           /\ Named(user, name) = {} =>
                 \A r \in FirstRow(Named(user, name))' : r.info = info
<1>. DEFINE new == [id |-> NextID(characters), user |-> user, name |-> name,
                    info |-> info, inventory |-> NULL, spells |-> NULL]
<1>1. /\ new \in Character /\ users' = users
      /\ characters' = characters \cup {new}
      /\ new.user = user /\ new.name = name /\ new.info = info
  BY DEF InsertCharacter, Character
<1>. HIDE DEF new
<1>2. TablesOK'
  BY <1>1 DEF TablesOK
<1>3. OthersKept(user, name)
  BY <1>1 DEF OthersKept, Named
<1>4. Named(user, name)' = Named(user, name) \cup {new}
  BY <1>1 DEF Named
<1>5. \A r \in FirstRow(Named(user, name))' : r \in Named(user, name)'
  BY DEF FirstRow
<1>. QED
  BY <1>1, <1>2, <1>3, <1>4, <1>5

LEMMA StatsRight ==
    ASSUME TablesOK, NEW user, NEW name, NEW info \in Info,
           UpdateCharacterStats(user, name, info)
    PROVE  /\ TablesOK'
           /\ OthersKept(user, name)
           /\ Named(user, name)' = {} <=> Named(user, name) = {}
           /\ \A r \in FirstRow(Named(user, name))' : r.info = info
<1>. DEFINE f == [r \in Named(user, name) |-> [r EXCEPT !.info = info]]
<1>1. Replaces(user, name, f)
  BY StatsReplaces
<1>2. \A r \in Named(user, name) : f[r].info = info
  BY DEF Named, TablesOK, Character
<1>. HIDE DEF f
<1>3. /\ TablesOK' /\ OthersKept(user, name)
      /\ Named(user, name)' = {f[r] : r \in Named(user, name)}
  BY <1>1, ReplacesKeeps DEF OthersKept
<1>4. \A r \in FirstRow(Named(user, name)') : r.info = info
  BY <1>2, <1>3 DEF FirstRow
<1>5. Named(user, name)' = {} <=> Named(user, name) = {}
  BY <1>3
<1>6. FirstRow(Named(user, name))' = FirstRow(Named(user, name)')
  BY DEF FirstRow
<1>. QED
  BY <1>3, <1>4, <1>5, <1>6

\* The UPDATEs of the other columns.
LEMMA SameInfoRight ==
    ASSUME TablesOK, NEW user, NEW name, NEW f, Replaces(user, name, f),
           \A r \in Named(user, name) : f[r].info = r.info
    PROVE  /\ TablesOK'
           /\ OthersKept(user, name)
           /\ \A i, again : Right(user, name, i, again) => Right(user, name, i, again)'
<1>1. /\ TablesOK' /\ OthersKept(user, name)
      /\ Named(user, name)' = {f[r] : r \in Named(user, name)}
  BY ReplacesKeeps DEF OthersKept
<1>2. \A r \in Named(user, name) : f[r].id = r.id
  BY DEF Replaces
<1>3. \A r \in FirstRow(Named(user, name)') :
         \E s \in FirstRow(Named(user, name)) : r.info = s.info
  BY <1>1, <1>2 DEF FirstRow
<1>4. Named(user, name)' = {} <=> Named(user, name) = {}
  BY <1>1
<1>5. ASSUME NEW i, NEW again, Right(user, name, i, again)
      PROVE  Right(user, name, i, again)'
  BY <1>3, <1>4, <1>5 DEF Right
<1>. QED
  BY <1>1, <1>5

LEMMA InventoryRight ==
    ASSUME TablesOK, NEW user, NEW name, NEW blob \in Blob,
           UpdateCharacterInventory(user, name, blob)
    PROVE  /\ TablesOK'
           /\ OthersKept(user, name)
           /\ \A i, again : Right(user, name, i, again) => Right(user, name, i, again)'
<1>. DEFINE f == [r \in Named(user, name) |-> [r EXCEPT !.inventory = blob]]
<1>1. Replaces(user, name, f)
  BY InventoryReplaces
<1>2. \A r \in Named(user, name) : f[r].info = r.info
  BY DEF Named, TablesOK, Character
<1>. HIDE DEF f
<1>. QED
  BY <1>1, <1>2, SameInfoRight

LEMMA SpellsRight ==
    ASSUME TablesOK, NEW user, NEW name, NEW blob \in Blob,
           UpdateCharacterSpells(user, name, blob)
    PROVE  /\ TablesOK'
           /\ OthersKept(user, name)
           /\ \A i, again : Right(user, name, i, again) => Right(user, name, i, again)'
<1>. DEFINE f == [r \in Named(user, name) |-> [r EXCEPT !.spells = blob]]
<1>1. Replaces(user, name, f)
  BY SpellsReplaces
<1>2. \A r \in Named(user, name) : f[r].info = r.info
  BY DEF Named, TablesOK, Character
<1>. HIDE DEF f
<1>. QED
  BY <1>1, <1>2, SameInfoRight

LEMMA DeleteRight ==
    ASSUME TablesOK, NEW user, NEW name, DeleteCharacterRows(user, name)
    PROVE  TablesOK' /\ OthersKept(user, name) /\ Named(user, name)' = {}
BY DEF DeleteCharacterRows, TablesOK, OthersKept, Named

LEMMA InsertUserKeeps ==
    ASSUME TablesOK, NEW name \in UserName, NEW hash \in Hash, InsertUser(name, hash)
    PROVE  TablesOK' /\ characters' = characters
BY DEF InsertUser, TablesOK, User

(***************************************************************************)
(* The inductive invariant                                                 *)
(***************************************************************************)

ConnTypes ==
    /\ stage \in [Conn -> Stage]
    /\ socket \in [Conn -> {"none", "open", "gone", "closed"}]
    /\ session \in [Conn -> Session]
    /\ answer \in [Conn -> ID \cup {0}]

StopTypes ==
    /\ connectedSessions \subseteq Conn
    /\ listener \in {"open", "closed", "nil"}
    /\ listening \in {"check", "call", "accept", "returned", "crashed"}
    /\ shutdown \in {"no", "ranging", "closing", "forgetting", "done"}
    /\ toVisit \subseteq Conn
    /\ visited \subseteq Conn

ConnOK(c) ==
    \* A login that waits for its websocket, or has it, has the ID of a user.
    /\ stage[c] \in {"login", "connected"} => answer[c] \in ID
    \* A socket is closed before its session is taken from the map, and is
    \* not opened again.
    /\ stage[c] = "none" => c \notin connectedSessions \cup visited \cup toVisit
    /\ c \in visited => socket[c] = "closed"
    /\ stage[c] \in {"stopped", "over", "refused"} => socket[c] = "closed"
    /\ c \in toVisit => c \in connectedSessions \/ stage[c] = "over"
    /\ shutdown \notin {"no", "ranging"} /\ c \in toVisit => socket[c] = "closed"

StoredOK ==
    /\ TablesOK
    /\ writes \in 0..MaxWrites
    /\ stored \in [ID \X CharName -> Stats \cup {NULL}]
    /\ repeated \subseteq ID \X CharName
    /\ StoredRight

IInv ==
    /\ ConnTypes
    /\ StopTypes
    /\ \A c \in Conn : ConnOK(c)
    /\ StoredOK

(***************************************************************************)
(* What a step of one connection does to the connections                   *)
(***************************************************************************)

Local(c) ==
    /\ ConnTypes' /\ StopTypes'
    /\ ConnOK(c)'
    /\ shutdown' = shutdown /\ toVisit' = toVisit
    /\ \A d \in Conn \ {c} :
          /\ stage'[d] = stage[d] /\ socket'[d] = socket[d]
          /\ session'[d] = session[d] /\ answer'[d] = answer[d]
          /\ d \in connectedSessions' <=> d \in connectedSessions
          /\ d \in visited' <=> d \in visited

LEMMA LocalKeeps ==
    ASSUME IInv, NEW c \in Conn, Local(c)
    PROVE  ConnTypes' /\ StopTypes' /\ \A d \in Conn : ConnOK(d)'
<1>1. ASSUME NEW d \in Conn \ {c} PROVE ConnOK(d)'
  BY DEF Local, ConnOK, IInv
<1>. QED
  BY <1>1 DEF Local

\* The socket stays as it is, the session too.
LEMMA StageLocal ==
    ASSUME IInv, NEW c \in Conn, NEW s \in Stage,
           stage[c] \notin {"none", "over"}, s \notin {"none", "stopped", "over", "refused"},
           stage' = [stage EXCEPT ![c] = s], UNCHANGED <<socket, connectedSessions, stopping>>,
           session' \in [Conn -> Session],
           \A d \in Conn \ {c} : session'[d] = session[d],
           answer' \in [Conn -> ID \cup {0}],
           \A d \in Conn \ {c} : answer'[d] = answer[d],
           s \in {"login", "connected"} => answer'[c] \in ID
    PROVE  Local(c)
BY DEF IInv, ConnTypes, StopTypes, ConnOK, Local, stopping

\* Only the session changes.
LEMMA SessionLocal ==
    ASSUME IInv, NEW c \in Conn,
           UNCHANGED <<stage, socket, connectedSessions, answer, stopping>>,
           session' \in [Conn -> Session],
           \A d \in Conn \ {c} : session'[d] = session[d]
    PROVE  Local(c)
BY DEF IInv, ConnTypes, StopTypes, ConnOK, Local, stopping

LEMMA ReplyStage ==
    ASSUME NEW c \in Conn, Reply(c)
    PROVE  \E s \in {"serving", "ending"} : GoTo(c, s)
BY DEF Reply

LEMMA SocketLocal ==
    ASSUME IInv, NEW c \in Conn,
           \/ ListenAccepts(c) \/ HangUp(c) \/ HandlePing(c) \/ HandshakeFails(c)
           \/ StopSession(c) \/ CloseSession(c) \/ ShutdownCloses(c)
    PROVE  Local(c)
<1>. USE DEF IInv, ConnTypes, StopTypes, ConnOK, Local, stopping, history, tables, Stage
<1>1. CASE ListenAccepts(c)
  BY <1>1 DEF ListenAccepts
<1>2. CASE HangUp(c)
  BY <1>2 DEF HangUp
<1>3. CASE HandlePing(c)
  BY <1>3 DEF HandlePing
<1>4. CASE HandshakeFails(c)
  BY <1>4 DEF HandshakeFails
<1>5. CASE StopSession(c)
  BY <1>5 DEF StopSession
<1>6. CASE CloseSession(c)
  BY <1>6 DEF CloseSession
<1>7. CASE ShutdownCloses(c)
  BY <1>7 DEF ShutdownCloses
<1>. QED
  BY <1>1, <1>2, <1>3, <1>4, <1>5, <1>6, <1>7

LEMMA HandshakeLocal ==
    ASSUME IInv, NEW c \in Conn,
           \/ HandleClientHostAndUsername(c)
           \/ HandleAuthorizationHandshake(c)
           \/ CommandFails(c)
    PROVE  Local(c)
<1>1. PICK s \in {"greeted", "serving", "ending"} : GoTo(c, s)
  BY DEF HandleClientHostAndUsername, HandleAuthorizationHandshake, CommandFails
<1>2. UNCHANGED <<session, answer, stopping>> /\ stage[c] \notin {"none", "over"}
  BY DEF HandleClientHostAndUsername, HandleAuthorizationHandshake, CommandFails
<1>. QED
  BY <1>1, <1>2, StageLocal DEF GoTo, Stage, IInv, ConnTypes, ConnOK

\* Handlers that wait to answer, or have.
LEMMA AnswerLocal ==
    ASSUME IInv, NEW c \in Conn,
           \/ HandleCreateNewAccountFails(c)
           \/ Answers(c)
           \/ HandleClientAuthenticationFails(c)
           \/ HandleCreateCharacterFails(c)
    PROVE  Local(c)
<1>1. PICK s \in {"answering", "serving", "ending"} : GoTo(c, s)
  BY ReplyStage DEF HandleCreateNewAccountFails, Answers,
     HandleClientAuthenticationFails, HandleCreateCharacterFails
<1>2. /\ UNCHANGED <<session, stopping>> /\ stage[c] \notin {"none", "over"}
      /\ answer' = answer \/ answer' = [answer EXCEPT ![c] = 0]
  BY DEF HandleCreateNewAccountFails, Answers,
     HandleClientAuthenticationFails, HandleCreateCharacterFails, Ready, LoggedIn
<1>. QED
  BY <1>1, <1>2, StageLocal DEF GoTo, Stage, IInv, ConnTypes, ConnOK

LEMMA LoginLocal ==
    ASSUME IInv, NEW c \in Conn, NEW name, NEW password,
           HandleClientAuthentication(c, name, password)
    PROVE  Local(c)
<1>1. PICK id \in AuthenticateUser(name, password) : answer' = [answer EXCEPT ![c] = id]
  BY DEF HandleClientAuthentication
<1>2. id \in ID
  BY <1>1 DEF AuthenticateUser, GetUserByName, IInv, StoredOK, TablesOK, User
<1>3. /\ UNCHANGED <<session, stopping>> /\ GoTo(c, "login") /\ stage[c] = "serving"
  BY DEF HandleClientAuthentication, Ready
<1>. QED
  BY <1>1, <1>2, <1>3, StageLocal DEF GoTo, Stage, IInv, ConnTypes, ConnOK

LEMMA ConnectLocal ==
    ASSUME IInv, NEW c \in Conn,
           ConnectToLobby(c) \/ ConnectToLobbyFails(c) \/ SetLogonData(c)
    PROVE  Local(c)
<1>1. /\ session \in [Conn -> Session] /\ session[c] \in Session
      /\ answer \in [Conn -> ID \cup {0}] /\ answer[c] \in ID
      /\ stage[c] \in {"login", "connected"}
  BY DEF IInv, ConnTypes, ConnOK, ConnectToLobby, ConnectToLobbyFails, SetLogonData
<1>2. CASE ConnectToLobby(c)
  <2>1. session' = [session EXCEPT ![c].ws = "open", ![c].watched = TRUE]
    BY <1>2 DEF ConnectToLobby, ConnectOverWebsocket
  <2>2. /\ session' \in [Conn -> Session]
        /\ \A d \in Conn \ {c} : session'[d] = session[d]
    BY <1>1, <2>1 DEF Session
  <2>3. GoTo(c, "connected") /\ UNCHANGED <<answer, stopping>>
    BY <1>2 DEF ConnectToLobby
  <2>. QED
    BY <1>1, <2>2, <2>3, StageLocal DEF GoTo, Stage
<1>3. CASE ConnectToLobbyFails(c)
  <2>1. PICK s \in {"serving", "ending"} : GoTo(c, s)
    BY <1>3, ReplyStage DEF ConnectToLobbyFails
  <2>2. answer' = [answer EXCEPT ![c] = 0] /\ UNCHANGED <<session, stopping>>
    BY <1>3 DEF ConnectToLobbyFails
  <2>. QED
    BY <1>1, <2>1, <2>2, StageLocal DEF GoTo, Stage
<1>4. CASE SetLogonData(c)
  <2>1. PICK s \in {"serving", "ending"} : GoTo(c, s)
    BY <1>4, ReplyStage DEF SetLogonData
  <2>2. /\ answer' = [answer EXCEPT ![c] = 0] /\ UNCHANGED stopping
        /\ session' = [session EXCEPT ![c].user = answer[c]]
    BY <1>4 DEF SetLogonData
  <2>3. /\ session' \in [Conn -> Session]
        /\ \A d \in Conn \ {c} : session'[d] = session[d]
    BY <1>1, <2>2 DEF Session
  <2>. QED
    BY <1>1, <2>1, <2>2, <2>3, StageLocal DEF GoTo, Stage
<1>. QED
  BY <1>2, <1>3, <1>4

\* Commands that only read, or only change the session.
LEMMA CharacterLocal ==
    ASSUME IInv, NEW c \in Conn,
           \/ \E name \in CharName : HandleSelectCharacter(c, name)
           \/ HandleGetCharacterInventory(c)
           \/ HandleGetCharacterInventoryFails(c)
    PROVE  Local(c)
<1>1. PICK s \in {"serving", "ending"} : GoTo(c, s)
  BY ReplyStage DEF HandleSelectCharacter, HandleGetCharacterInventory,
     HandleGetCharacterInventoryFails
<1>2. /\ UNCHANGED <<answer, stopping>> /\ stage[c] = "serving"
  BY DEF HandleSelectCharacter, HandleGetCharacterInventory,
     HandleGetCharacterInventoryFails, LoggedIn, Ready
<1>3. /\ session' \in [Conn -> Session]
      /\ \A d \in Conn \ {c} : session'[d] = session[d]
  <2>1. CASE \E name \in CharName : HandleSelectCharacter(c, name)
    <3>1. PICK name \in CharName : HandleSelectCharacter(c, name)
      BY <2>1
    <3>2. PICK found \in GetCharacter(session[c].user, name) :
             session' = [session EXCEPT ![c].characterID = found.id]
      BY <3>1 DEF HandleSelectCharacter
    <3>3. found.id \in ID
      BY DEF GetCharacter, FindCharacter, FirstRow, Named, IInv, StoredOK,
         TablesOK, Character
    <3>. QED
      BY <3>2, <3>3 DEF Session, IInv, ConnTypes, ConnOK
  <2>2. CASE HandleGetCharacterInventory(c)
    <3>1. /\ session \in [Conn -> Session] /\ session[c] \in Session
      BY DEF IInv, ConnTypes, ConnOK
    <3>2. session' = [session EXCEPT ![c].selected = TRUE, ![c].observer = "running"]
      BY <2>2 DEF HandleGetCharacterInventory, InitObserver
    <3>. QED
      BY <3>1, <3>2 DEF Session
  <2>3. CASE HandleGetCharacterInventoryFails(c)
    <3>1. /\ session \in [Conn -> Session] /\ session[c] \in Session
      BY DEF IInv, ConnTypes, ConnOK
    <3>2. session' = [session EXCEPT ![c].selected = TRUE]
      BY <2>3 DEF HandleGetCharacterInventoryFails
    <3>. QED
      BY <3>1, <3>2 DEF Session
  <2>. QED
    BY <2>1, <2>2, <2>3
<1>. QED
  BY <1>1, <1>2, <1>3, StageLocal DEF GoTo, Stage, IInv, ConnTypes, ConnOK

LEMMA WebsocketLocal ==
    ASSUME IInv, NEW c \in Conn,
           WebsocketCloses(c) \/ WebsocketBreaks(c) \/ ObserverEnds(c) \/ ObserverFails(c)
    PROVE  Local(c)
<1>1. UNCHANGED <<stage, socket, connectedSessions, answer, stopping>>
  BY DEF WebsocketCloses, WebsocketBreaks, ObserverEnds, ObserverFails
<1>2. \/ session[c].ws = "open" /\ session' = [session EXCEPT ![c].ws = "closed"]
      \/ session' = [session EXCEPT ![c].observer = "ended"]
  BY DEF WebsocketCloses, WebsocketBreaks, ObserverEnds, ObserverFails
<1>3. /\ session \in [Conn -> Session] /\ session[c] \in Session
  BY DEF IInv, ConnTypes, ConnOK
<1>4. /\ session' \in [Conn -> Session]
      /\ \A d \in Conn \ {c} : session'[d] = session[d]
  BY <1>2, <1>3 DEF Session
<1>. QED
  BY <1>1, <1>4, SessionLocal

\* Commands whose statement is committed.
LEMMA CommitLocal ==
    ASSUME IInv, NEW c \in Conn, NEW s \in {"answering", "ending"},
           stage[c] = "serving", GoTo(c, s), UNCHANGED <<session, stopping>>,
           \/ answer' = answer
           \/ \E ok \in ID \cup {0} : answer' = [answer EXCEPT ![c] = ok]
    PROVE  Local(c)
<1>1. /\ answer' \in [Conn -> ID \cup {0}]
      /\ \A d \in Conn \ {c} : answer'[d] = answer[d]
  BY DEF IInv, ConnTypes
<1>. QED
  BY <1>1, StageLocal DEF GoTo, Stage, IInv, ConnTypes, ConnOK

(***************************************************************************)
(* What a step does to the tables                                          *)
(***************************************************************************)

LEMMA SameStored ==
    ASSUME StoredOK, UNCHANGED <<users, characters, stored, repeated, writes>>
    PROVE  StoredOK'
<1>1. TablesOK' /\ \A v, n : Named(v, n)' = Named(v, n)
  BY DEF StoredOK, TablesOK, Named
<1>2. StoredRight'
  BY <1>1 DEF StoredOK, StoredRight, Right
<1>. QED
  BY <1>1, <1>2 DEF StoredOK

LEMMA CreateUserStored ==
    ASSUME StoredOK, writes < MaxWrites, writes' = writes + 1,
           UNCHANGED <<stored, repeated>>,
           NEW name \in UserName, NEW password \in Password, CreateUser(name, password)
    PROVE  StoredOK' /\ 1 \in ID
<1>1. HashOf(password) \in Hash
  BY AccountsAssumption
<1>2. TablesOK' /\ characters' = characters
  BY <1>1, InsertUserKeeps DEF CreateUser, NewPassword, StoredOK
<1>3. StoredRight'
  <2>1. \A v, n : Named(v, n)' = Named(v, n)
    BY <1>2 DEF Named
  <2>. QED
    BY <2>1 DEF StoredOK, StoredRight, Right
<1>4. 1 \in ID
  BY DatabaseAssumption DEF CreateUser, InsertUser, ID
<1>. QED
  BY <1>2, <1>3, <1>4, BackendAssumption DEF StoredOK

\* One name of one user is touched, and what is stored for it is brought up to
\* date.
LEMMA TouchedStored ==
    ASSUME StoredOK, writes < MaxWrites, writes' = writes + 1,
           NEW user \in ID, NEW name \in CharName, NEW stats \in Stats \cup {NULL},
           TablesOK', OthersKept(user, name), OthersRepeated(user, name),
           repeated' \subseteq ID \X CharName,
           stored' = [stored EXCEPT ![<<user, name>>] = stats],
           NEW again, again = (<<user, name>> \in repeated'),
           Right(user, name, stats, again)'
    PROVE  StoredOK'
<1>1. StoredRight'
  BY OthersRight DEF StoredOK
<1>2. stored' \in [ID \X CharName -> Stats \cup {NULL}]
  BY DEF StoredOK
<1>. QED
  BY <1>1, <1>2, BackendAssumption DEF StoredOK

LEMMA CreateCharacterStored ==
    ASSUME StoredOK, writes < MaxWrites, writes' = writes + 1,
           NEW user \in ID, NEW name \in CharName, NEW stats \in Stats,
           CreateCharacter(user, name, stats),
           stored' = [stored EXCEPT ![<<user, name>>] = stats],
           repeated' = IF Named(user, name) = {} THEN repeated
                       ELSE repeated \cup {<<user, name>>}
    PROVE  StoredOK'
<1>1. PICK info \in Info : info = ParseCharacterInfo(stats)
  BY InfoRead, BackendAssumption
<1>2. InsertCharacter(user, name, info) /\ TablesOK
  BY <1>1 DEF CreateCharacter, StoredOK
<1>3. /\ TablesOK' /\ OthersKept(user, name)
      /\ Named(user, name)' # {}
      /\ Named(user, name) = {} =>
            \A r \in FirstRow(Named(user, name))' : r.info = info
  BY <1>2, InsertRight
<1>4. PICK again : again = (<<user, name>> \in repeated')
  OBVIOUS
<1>5. Right(user, name, stats, again)'
  <2>1. stats # NULL
    BY BackendAssumption
  <2>2. CASE Named(user, name) = {}
    BY <1>1, <1>3, <2>1, <2>2 DEF Right
  <2>3. CASE Named(user, name) # {}
    <3>1. again
      BY <1>4, <2>3
    <3>. QED
      BY <1>3, <2>1, <3>1 DEF Right
  <2>. QED
    BY <2>2, <2>3
<1>6. OthersRepeated(user, name) /\ repeated' \subseteq ID \X CharName
  BY DEF OthersRepeated, StoredOK
<1>. QED
  BY <1>3, <1>4, <1>5, <1>6, TouchedStored

LEMMA PutStatsStored ==
    ASSUME StoredOK, writes < MaxWrites, writes' = writes + 1,
           NEW user \in ID, NEW name \in CharName, NEW stats \in Stats,
           PutStats(user, name, stats),
           stored' = IF Named(user, name) = {} THEN stored
                     ELSE [stored EXCEPT ![<<user, name>>] = stats],
           repeated' = repeated \ {<<user, name>>}
    PROVE  StoredOK'
<1>1. PICK info \in Info : info = ParseCharacterInfo(stats)
  BY InfoRead, BackendAssumption
<1>2. UpdateCharacterStats(user, name, info) /\ TablesOK
  BY <1>1 DEF PutStats, StoredOK
<1>3. /\ TablesOK' /\ OthersKept(user, name)
      /\ Named(user, name)' = {} <=> Named(user, name) = {}
      /\ \A r \in FirstRow(Named(user, name))' : r.info = info
  BY <1>2, StatsRight
<1>4. PICK again : again = (<<user, name>> \in repeated')
  OBVIOUS
<1>5. OthersRepeated(user, name) /\ repeated' \subseteq ID \X CharName
  BY DEF OthersRepeated, StoredOK
<1>6. CASE Named(user, name) = {}
  <2>1. stored[<<user, name>>] = NULL
    BY <1>6 DEF StoredOK, StoredRight, Right
  <2>2. stored' = [stored EXCEPT ![<<user, name>>] = NULL]
    BY <1>6, <2>1 DEF StoredOK
  <2>3. Right(user, name, NULL, again)'
    BY <1>3, <1>6 DEF Right
  <2>. QED
    BY <1>3, <1>4, <1>5, <2>2, <2>3, TouchedStored
<1>7. CASE Named(user, name) # {}
  <2>1. Right(user, name, stats, again)'
    BY <1>1, <1>3, <1>7, BackendAssumption DEF Right
  <2>. QED
    BY <1>3, <1>4, <1>5, <1>7, <2>1, TouchedStored
<1>. QED
  BY <1>6, <1>7

LEMMA PutBlobStored ==
    ASSUME StoredOK, writes < MaxWrites, writes' = writes + 1,
           UNCHANGED <<stored, repeated>>,
           NEW user \in ID, NEW name \in CharName, NEW blob \in Blob,
           \/ PutInventoryCharacter(user, name, blob)
           \/ PutSpells(user, name, blob)
    PROVE  StoredOK'
<1>1. PICK old \in Stats \cup {NULL} : old = stored[<<user, name>>]
  BY DEF StoredOK
<1>2. PICK again : again = (<<user, name>> \in repeated)
  OBVIOUS
<1>3. Right(user, name, old, again) /\ TablesOK
  BY <1>1, <1>2 DEF StoredOK, StoredRight
<1>4. TablesOK' /\ OthersKept(user, name) /\ Right(user, name, old, again)'
  BY <1>3, InventoryRight, SpellsRight DEF PutInventoryCharacter, PutSpells
<1>5. stored' = [stored EXCEPT ![<<user, name>>] = old] /\ again = (<<user, name>> \in repeated')
  BY <1>1, <1>2 DEF StoredOK
<1>6. OthersRepeated(user, name) /\ repeated' \subseteq ID \X CharName
  BY DEF OthersRepeated, StoredOK
<1>. QED
  BY <1>4, <1>5, <1>6, TouchedStored

LEMMA DeleteStored ==
    ASSUME StoredOK, writes < MaxWrites, writes' = writes + 1,
           NEW user \in ID, NEW name \in CharName, DeleteCharacter(user, name),
           stored' = [stored EXCEPT ![<<user, name>>] = NULL],
           repeated' = repeated \ {<<user, name>>}
    PROVE  StoredOK'
<1>1. TablesOK' /\ OthersKept(user, name) /\ Named(user, name)' = {}
  BY DeleteRight DEF DeleteCharacter, StoredOK
<1>2. PICK again : again = (<<user, name>> \in repeated')
  OBVIOUS
<1>3. Right(user, name, NULL, again)'
  BY <1>1 DEF Right
<1>4. OthersRepeated(user, name) /\ repeated' \subseteq ID \X CharName
  BY DEF OthersRepeated, StoredOK
<1>. QED
  BY <1>1, <1>2, <1>3, <1>4, TouchedStored

(***************************************************************************)
(* Steps                                                                   *)
(***************************************************************************)

LEMMA SameLocal ==
    ASSUME IInv, NEW c \in Conn, UNCHANGED vars
    PROVE  Local(c) /\ StoredOK'
<1>1. Local(c)
  BY SessionLocal DEF IInv, ConnTypes, ConnOK, vars, conns
<1>2. StoredOK'
  BY SameStored DEF IInv, vars, tables, history
<1>. QED
  BY <1>1, <1>2

LEMMA UserKnown ==
    ASSUME IInv, NEW c \in Conn, LoggedIn(c)
    PROVE  session[c].user \in ID /\ stage[c] = "serving" /\ 1 \in ID
<1>1. session[c].user \in ID
  BY DEF LoggedIn, IInv, ConnTypes, Session
<1>. QED
  BY <1>1, DatabaseAssumption DEF LoggedIn, Ready, ID

LEMMA AccountStep ==
    ASSUME IInv, NEW c \in Conn, Account(c)
    PROVE  Local(c) /\ StoredOK'
<1>1. ASSUME NEW name \in UserName, NEW password \in Password,
             HandleCreateNewAccount(c, name, password)
      PROVE  Local(c) /\ StoredOK'
  <2>1. PICK ok \in {0, 1} :
           /\ Committed(c, CreateUser(name, password), "answering")
           /\ answer' = [answer EXCEPT ![c] = ok]
    BY <1>1 DEF HandleCreateNewAccount
  <2>2. StoredOK' /\ 1 \in ID
    BY <1>1, <2>1, CreateUserStored DEF HandleCreateNewAccount, Committed, IInv
  <2>3. /\ stage[c] = "serving" /\ GoTo(c, "answering")
        /\ UNCHANGED <<session, stopping>> /\ ok \in ID \cup {0}
    BY <1>1, <2>1, <2>2 DEF HandleCreateNewAccount, Committed, Ready
  <2>. QED
    BY <2>1, <2>2, <2>3, CommitLocal
<1>2. ASSUME NEW name \in UserName, NEW password \in Password,
             HandleClientAuthentication(c, name, password)
      PROVE  Local(c) /\ StoredOK'
  BY <1>2, LoginLocal, SameStored DEF HandleClientAuthentication, IInv, tables, history
<1>3. ASSUME \/ HandleCreateNewAccountFails(c)
             \/ Answers(c)
             \/ HandleClientAuthenticationFails(c)
      PROVE  Local(c) /\ StoredOK'
  BY <1>3, AnswerLocal, SameStored DEF HandleCreateNewAccountFails, Answers,
     HandleClientAuthenticationFails, IInv, tables, history
<1>4. ASSUME ConnectToLobby(c) \/ ConnectToLobbyFails(c) \/ SetLogonData(c)
      PROVE  Local(c) /\ StoredOK'
  BY <1>4, ConnectLocal, SameStored DEF ConnectToLobby, ConnectToLobbyFails,
     SetLogonData, IInv, tables, history
<1>. QED
  BY <1>1, <1>2, <1>3, <1>4 DEF Account

LEMMA CharacterStep ==
    ASSUME IInv, NEW c \in Conn, CharacterCommand(c)
    PROVE  Local(c) /\ StoredOK'
<1>1. ASSUME NEW name \in CharName, NEW stats \in Stats,
             HandleCreateCharacter(c, name, stats)
      PROVE  Local(c) /\ StoredOK'
  <2>1. PICK ok \in {0, 1} :
           /\ Committed(c, CreateCharacter(session[c].user, name, stats), "answering")
           /\ answer' = [answer EXCEPT ![c] = ok]
    BY <1>1 DEF HandleCreateCharacter
  <2>2. session[c].user \in ID /\ stage[c] = "serving" /\ 1 \in ID
    BY <1>1, UserKnown DEF HandleCreateCharacter
  <2>3. StoredOK'
    BY <1>1, <2>1, <2>2, CreateCharacterStored DEF HandleCreateCharacter, Committed, IInv
  <2>4. GoTo(c, "answering") /\ UNCHANGED <<session, stopping>> /\ ok \in ID \cup {0}
    BY <1>1, <2>1, <2>2 DEF HandleCreateCharacter, Committed
  <2>. QED
    BY <2>1, <2>2, <2>3, <2>4, CommitLocal
<1>2. ASSUME NEW name \in CharName, NEW stats \in Stats,
             HandleUpdateCharacterStats(c, name, stats)
      PROVE  Local(c) /\ StoredOK'
  <2>1. PICK s \in {"answering", "ending"} :
           Committed(c, PutStats(session[c].user, name, stats), s)
    BY <1>2 DEF HandleUpdateCharacterStats, CommittedOrLost
  <2>2. session[c].user \in ID /\ stage[c] = "serving"
    BY <1>2, UserKnown DEF HandleUpdateCharacterStats
  <2>3. StoredOK'
    BY <1>2, <2>1, <2>2, PutStatsStored DEF HandleUpdateCharacterStats, Committed, IInv
  <2>4. GoTo(c, s) /\ UNCHANGED <<session, stopping, answer>>
    BY <1>2, <2>1 DEF HandleUpdateCharacterStats, Committed
  <2>. QED
    BY <2>2, <2>3, <2>4, CommitLocal
<1>3. ASSUME NEW name \in CharName, NEW blob \in Blob,
             \/ HandleUpdateCharacterInventory(c, name, blob)
             \/ HandleUpdateCharacterSpells(c, name, blob)
      PROVE  Local(c) /\ StoredOK'
  <2>1. PICK s \in {"answering", "ending"} :
           \/ Committed(c, PutInventoryCharacter(session[c].user, name, blob), s)
           \/ Committed(c, PutSpells(session[c].user, name, blob), s)
    BY <1>3 DEF HandleUpdateCharacterInventory, HandleUpdateCharacterSpells, CommittedOrLost
  <2>2. session[c].user \in ID /\ stage[c] = "serving"
    BY <1>3, UserKnown DEF HandleUpdateCharacterInventory, HandleUpdateCharacterSpells
  <2>3. UNCHANGED <<session, stopping, answer, stored, repeated>>
    BY <1>3 DEF HandleUpdateCharacterInventory, HandleUpdateCharacterSpells
  <2>4. StoredOK'
    BY <2>1, <2>2, <2>3, PutBlobStored DEF Committed, IInv
  <2>5. GoTo(c, s)
    BY <2>1 DEF Committed
  <2>. QED
    BY <2>2, <2>3, <2>4, <2>5, CommitLocal
<1>4. ASSUME NEW name \in CharName, HandleDeleteCharacter(c, name)
      PROVE  Local(c) /\ StoredOK'
  <2>1. PICK s \in {"answering", "ending"} :
           Committed(c, DeleteCharacter(session[c].user, name), s)
    BY <1>4 DEF HandleDeleteCharacter, CommittedOrLost
  <2>2. session[c].user \in ID /\ stage[c] = "serving"
    BY <1>4, UserKnown DEF HandleDeleteCharacter
  <2>3. StoredOK'
    BY <1>4, <2>1, <2>2, DeleteStored DEF HandleDeleteCharacter, Committed, IInv
  <2>4. GoTo(c, s) /\ UNCHANGED <<session, stopping, answer>>
    BY <1>4, <2>1 DEF HandleDeleteCharacter, Committed
  <2>. QED
    BY <2>2, <2>3, <2>4, CommitLocal
<1>5. ASSUME NEW name \in CharName, HandleSelectCharacter(c, name)
      PROVE  Local(c) /\ StoredOK'
  BY <1>5, CharacterLocal, SameStored DEF HandleSelectCharacter, IInv, tables, history
<1>6. ASSUME HandleGetCharacterInventory(c) \/ HandleGetCharacterInventoryFails(c)
      PROVE  Local(c) /\ StoredOK'
  BY <1>6, CharacterLocal, SameStored DEF HandleGetCharacterInventory,
     HandleGetCharacterInventoryFails, IInv, tables, history
<1>7. ASSUME HandleCreateCharacterFails(c)
      PROVE  Local(c) /\ StoredOK'
  BY <1>7, AnswerLocal, SameStored DEF HandleCreateCharacterFails, IInv, tables, history
<1>8. ASSUME \/ HandleGetCharacters(c)
             \/ \E name \in CharName :
                   \/ \E class \in Class, offset \in 0..MaxRows :
                         HandleShowRanking(c, name, class, offset)
                   \/ HandleGetCharacterSpells(c, name)
      PROVE  Local(c) /\ StoredOK'
  BY <1>8, SameLocal DEF HandleGetCharacters, HandleShowRanking, HandleGetCharacterSpells
<1>. QED
  BY <1>1, <1>2, <1>3, <1>4, <1>5, <1>6, <1>7, <1>8 DEF CharacterCommand

LEMMA ConnectionStep ==
    ASSUME IInv, NEW c \in Conn, Connection(c)
    PROVE  Local(c) /\ StoredOK'
<1>1. ASSUME \/ ListenAccepts(c) \/ HangUp(c) \/ HandlePing(c) \/ HandshakeFails(c)
             \/ StopSession(c) \/ CloseSession(c) \/ ShutdownCloses(c)
      PROVE  Local(c) /\ StoredOK'
  BY <1>1, SocketLocal, SameStored DEF ListenAccepts, HangUp, HandlePing,
     HandshakeFails, StopSession, CloseSession, ShutdownCloses, IInv, tables, history
<1>2. ASSUME \/ HandleClientHostAndUsername(c)
             \/ HandleAuthorizationHandshake(c)
             \/ CommandFails(c)
      PROVE  Local(c) /\ StoredOK'
  BY <1>2, HandshakeLocal, SameStored DEF HandleClientHostAndUsername,
     HandleAuthorizationHandshake, CommandFails, IInv, tables, history
<1>3. ASSUME \/ WebsocketCloses(c) \/ WebsocketBreaks(c)
             \/ ObserverEnds(c) \/ ObserverFails(c)
      PROVE  Local(c) /\ StoredOK'
  BY <1>3, WebsocketLocal, SameStored DEF WebsocketCloses, WebsocketBreaks,
     ObserverEnds, ObserverFails, IInv, tables, history
<1>. QED
  BY <1>1, <1>2, <1>3, AccountStep, CharacterStep DEF Connection, Ends

\* Listen between two connections, and Shutdown but for the sessions.
LEMMA StopStep ==
    ASSUME IInv,
           \/ ListenChecks \/ ListenCalls \/ ListenReturns
           \/ ShutdownBegins \/ ShutdownRanged
           \/ ShutdownClosesListener \/ ShutdownForgetsListener
    PROVE  IInv'
<1>1. UNCHANGED <<conns, visited, tables, history>>
  BY DEF ListenChecks, ListenCalls, ListenReturns, ShutdownBegins, ShutdownRanged,
     ShutdownClosesListener, ShutdownForgetsListener
<1>2. StoredOK' /\ ConnTypes'
  BY <1>1, SameStored DEF IInv, ConnTypes, conns, tables, history
<1>3. CASE ListenChecks \/ ListenCalls \/ ListenReturns
  BY <1>1, <1>2, <1>3 DEF ListenChecks, ListenCalls, ListenReturns,
     IInv, StopTypes, ConnOK, conns
<1>4. CASE ShutdownBegins
  BY <1>1, <1>2, <1>4 DEF ShutdownBegins, IInv, StopTypes, ConnOK, conns
<1>5. CASE ShutdownRanged
  \* Of the sessions to visit, those that are gone from the map are over.
  <2>1. \A c \in toVisit : c \in Conn /\ socket[c] = "closed"
    BY <1>5 DEF ShutdownRanged, Ranged, IInv, StopTypes, ConnOK
  <2>. QED
    BY <1>1, <1>2, <1>5, <2>1 DEF ShutdownRanged, IInv, StopTypes, ConnOK, conns
<1>6. CASE ShutdownClosesListener \/ ShutdownForgetsListener
  BY <1>1, <1>2, <1>6 DEF ShutdownClosesListener, ShutdownForgetsListener,
     IInv, StopTypes, ConnOK, conns
<1>. QED
  BY <1>3, <1>4, <1>5, <1>6

LEMMA InitIInv == Init => IInv
<1> SUFFICES ASSUME Init PROVE IInv
  OBVIOUS
<1>1. ConnTypes
  BY DEF Init, ConnTypes, Stage, Session, NewSession
<1>2. StopTypes
  BY DEF Init, StopTypes
<1>3. \A c \in Conn : ConnOK(c)
  BY DEF Init, ConnOK, NewSession
<1>4. StoredOK
  <2>1. StoredRight
    BY DEF Init, StoredRight, Right, Named
  <2>. QED
    BY <2>1, BackendAssumption DEF Init, StoredOK, TablesOK
<1>. QED
  BY <1>1, <1>2, <1>3, <1>4 DEF IInv

LEMMA NextIInv == IInv /\ [Next]_vars => IInv'
<1> SUFFICES ASSUME IInv, [Next]_vars PROVE IInv'
  OBVIOUS
<1>1. ASSUME NEW c \in Conn, Connection(c) PROVE IInv'
  BY <1>1, ConnectionStep, LocalKeeps DEF IInv
<1>2. CASE UNCHANGED vars
  <2>1. StoredOK'
    BY <1>2, SameStored DEF IInv, vars, tables, history
  <2>. QED
    BY <1>2, <2>1 DEF IInv, ConnTypes, StopTypes, ConnOK, vars, conns, stopping
<1>. QED
  BY <1>1, <1>2, StopStep DEF Next

LEMMA IInvAlways == Spec => []IInv
  BY InitIInv, NextIInv, PTL DEF Spec

-----------------------------------------------------------------------------

\* Rows, stages, sockets, sessions and the rest have their types, whatever game
\* clients send.
THEOREM TypeCorrect == Spec => []TypeOK
<1>1. IInv => TypeOK
  BY DEF IInv, ConnTypes, StopTypes, StoredOK, TypeOK
<1>. QED
  BY <1>1, IInvAlways, PTL

\* However many sessions of one user store a character, and however many rows its
\* name stands for, GetCharacter finds it exactly while it has been created and not
\* deleted, and answers with the very bytes that were committed last, unless that
\* was to create it once more (console/character.go; console/database/queries.sql:
\* UPDATEs by name, SELECTs of one row by name).
THEOREM LastStored == Spec => []ReadsSeeLastStored
<1>1. ASSUME IInv PROVE ReadsSeeLastStored
  <2> SUFFICES ASSUME NEW un \in ID \X CharName, NEW read,
                      read = {character.stats : character \in GetCharacter(un[1], un[2])}
               PROVE  /\ read = {} <=> stored[un] = NULL
                      /\ un \notin repeated => read = {stored[un]} \ {NULL}
    BY Zenon DEF ReadsSeeLastStored
  <2>1. PICK user \in ID, name \in CharName :
           un = <<user, name>> /\ un[1] = user /\ un[2] = name
    OBVIOUS
  <2>2. PICK rows : rows = FirstRow(Named(user, name))
    OBVIOUS
  <2>3. read = {ToBytes(r.info) : r \in rows}
    <3>1. GetCharacter(user, name) =
             {[id |-> r.id, stats |-> ToBytes(r.info), inventory |-> r.inventory,
               spells |-> r.spells] : r \in rows}
      BY <2>2 DEF GetCharacter, FindCharacter
    <3>2. read = {character.stats : character \in GetCharacter(user, name)}
      BY <2>1
    <3>3. ASSUME NEW character \in GetCharacter(user, name)
          PROVE  \E r \in rows : character.stats = ToBytes(r.info)
      BY <3>1
    <3>4. ASSUME NEW r \in rows
          PROVE  \E character \in GetCharacter(user, name) : character.stats = ToBytes(r.info)
      <4>1. PICK bytes : bytes = ToBytes(r.info)
        OBVIOUS
      <4>2. PICK character : character = [id |-> r.id, stats |-> bytes,
                                          inventory |-> r.inventory, spells |-> r.spells]
        OBVIOUS
      <4>3. character \in GetCharacter(user, name)
        BY <3>1, <4>1, <4>2
      <4>. QED
        BY <4>1, <4>2, <4>3
    <3>. QED
      BY <3>2, <3>3, <3>4
  <2>4. PICK stats \in Stats \cup {NULL} : stats = stored[<<user, name>>]
    BY <1>1 DEF IInv, StoredOK
  <2>5. Right(user, name, stats, <<user, name>> \in repeated)
    BY <1>1, <2>4 DEF IInv, StoredOK, StoredRight
  <2>6. rows = {} <=> stats = NULL
    <3>1. \A r \in Named(user, name) : r.id \in Nat
      BY <1>1 DEF Named, IInv, StoredOK, TablesOK, Character, ID
    <3>2. Named(user, name) # {} => rows # {}
      BY <2>2, <3>1, FirstExists
    <3>3. rows \subseteq Named(user, name)
      BY <2>2 DEF FirstRow
    <3>. QED
      BY <2>5, <3>2, <3>3 DEF Right
  <2>7. ASSUME <<user, name>> \notin repeated, stats # NULL
        PROVE  read = {stats}
    <3>1. \A r \in rows : r.info = ParseCharacterInfo(stats)
      BY <2>2, <2>5, <2>7 DEF Right
    <3>2. ToBytes(ParseCharacterInfo(stats)) = stats
      BY <2>7, RoundTrip, BackendAssumption
    <3>. QED
      BY <2>3, <2>6, <2>7, <3>1, <3>2
  <2>8. read = {} <=> stats = NULL
    BY <2>3, <2>6
  <2>. QED
    BY <2>1, <2>4, <2>7, <2>8
<1>. QED
  BY <1>1, IInvAlways, PTL

\* However sessions begin and end while Shutdown goes over the map, those that
\* were there when it began are closed when it is done (backend/backend.go).
THEOREM AllClosed == Spec => []ShutdownClosesAll
<1>1. IInv => ShutdownClosesAll
  BY DEF IInv, ConnOK, StopTypes, ShutdownClosesAll
<1>. QED
  BY <1>1, IInvAlways, PTL
=============================================================================
