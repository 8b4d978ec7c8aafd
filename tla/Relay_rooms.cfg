CONSTANTS
    l1 = l1
    l2 = l2
    l3 = l3
    u1 = u1
    u2 = u2
    Link = {l1, l2, l3}
    User = {u1, u2}
    LinkUser <- TwoLinks
    Room = {r1, r2}
    NoLink = NoLink
    NoRoom = NoRoom
SPECIFICATION FairSpec
INVARIANTS
    TypeOK
    IndexedIsMember
    RoomsHavePeers
    EventsTellMembership
    PairsAreIntroduced
PROPERTIES
    OwnPlaceOnly
    BrokenLinksEnd
