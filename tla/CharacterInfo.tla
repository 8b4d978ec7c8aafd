--------------------------- MODULE CharacterInfo ---------------------------
(***************************************************************************)
(* The numbers of a character and the 56 bytes in which they travel        *)
(* (model/character_info.go).  Where each number is kept is written down   *)
(* twice, by hand: where it is read from, and where it is written to.      *)
(***************************************************************************)
EXTENDS Naturals

Uint16 ==
    {"Strength", "Agility", "Wisdom", "Constitution", "HealthPoints",
     "MagicPoints", "EdgedWeapons", "BluntedWeapons", "Archery", "Polearms",
     "Wizardry", "HolyMagic", "DarkMagic", "BonusPoints"}

Uint32 ==
    {"ExperiencePoints", "Money", "ScorePoints"}

Uint8 ==
    {"ClassType", "SkinCarnation", "HairStyle", "LightArmourLegs",
     "LightArmourTorso", "LightArmourHands", "LightArmourBoots",
     "FullArmour", "ArmourEmblem", "Helmet", "SecondaryWeapon",
     "PrimaryWeapon", "Shield", "UnknownEquipmentSlot", "Gender", "Level"}

Field == Uint16 \cup Uint32 \cup Uint8

Width(f) == IF f \in Uint16 THEN 2 ELSE IF f \in Uint32 THEN 4 ELSE 1

Byte == 0..255

Buffer == [0..55 -> Byte]

Info == [Field -> Nat]

ReadFrom ==
    [Strength |-> 0, Agility |-> 2, Wisdom |-> 4, Constitution |-> 6,
     HealthPoints |-> 8, MagicPoints |-> 10, ExperiencePoints |-> 12,
     Money |-> 16, ScorePoints |-> 20, ClassType |-> 24,
     SkinCarnation |-> 25, HairStyle |-> 26, LightArmourLegs |-> 27,
     LightArmourTorso |-> 28, LightArmourHands |-> 29,
     LightArmourBoots |-> 30, FullArmour |-> 31, ArmourEmblem |-> 32,
     Helmet |-> 33, SecondaryWeapon |-> 34, PrimaryWeapon |-> 35,
     Shield |-> 36, UnknownEquipmentSlot |-> 37, Gender |-> 38, Level |-> 39,
     EdgedWeapons |-> 40, BluntedWeapons |-> 42, Archery |-> 44,
     Polearms |-> 46, Wizardry |-> 48, HolyMagic |-> 50, DarkMagic |-> 52,
     BonusPoints |-> 54]

WrittenTo ==
    [Strength |-> 0, Agility |-> 2, Wisdom |-> 4, Constitution |-> 6,
     HealthPoints |-> 8, MagicPoints |-> 10, ExperiencePoints |-> 12,
     Money |-> 16, ScorePoints |-> 20, ClassType |-> 24,
     SkinCarnation |-> 25, HairStyle |-> 26, LightArmourLegs |-> 27,
     LightArmourTorso |-> 28, LightArmourHands |-> 29,
     LightArmourBoots |-> 30, FullArmour |-> 31, ArmourEmblem |-> 32,
     Helmet |-> 33, SecondaryWeapon |-> 34, PrimaryWeapon |-> 35,
     Shield |-> 36, UnknownEquipmentSlot |-> 37, Gender |-> 38, Level |-> 39,
     EdgedWeapons |-> 40, BluntedWeapons |-> 42, Archery |-> 44,
     Polearms |-> 46, Wizardry |-> 48, HolyMagic |-> 50, DarkMagic |-> 52,
     BonusPoints |-> 54]

LittleEndian(buf, at, width) ==
    IF width = 1 THEN buf[at]
    ELSE IF width = 2 THEN buf[at] + 256 * buf[at + 1]
    ELSE buf[at] + 256 * buf[at + 1] + 65536 * buf[at + 2] + 16777216 * buf[at + 3]

ParseCharacterInfo(buf) ==
    [f \in Field |-> LittleEndian(buf, ReadFrom[f], Width(f))]

\* The i-th byte of a number.
ByteOf(n, i) == (n \div <<1, 256, 65536, 16777216>>[i + 1]) % 256

\* The fields that are written to each byte: one, as the table stands.
FieldsAt ==
    [i \in 0..55 |-> {f \in Field : i \in WrittenTo[f]..WrittenTo[f] + Width(f) - 1}]

ToBytes(info) ==
    [i \in 0..55 |-> IF FieldsAt[i] = {} THEN 0
                     ELSE LET f == CHOOSE g \in FieldsAt[i] : TRUE
                          IN  ByteOf(info[f], i - WrittenTo[f])]
=============================================================================
