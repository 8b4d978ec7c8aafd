CONSTANTS
    c1 = c1
    c2 = c2
    ann = ann
    bob = bob
    secret = secret
    hero = hero
    blob = blob
    Conn <- MCConn
    UserName = {ann, bob}
    Password = {secret}
    Hash <- MCHash
    HashOf <- MCHashOf
    CharName = {hero}
    Blob = {blob}
    NULL = NULL
    NoUser = NoUser
    Class = {25}
    MaxRows = 2
    PageSize = 1
    InitialUsers <- MCInitialUsers
    Stats <- MCStats
    MaxWrites = 0
    MayShutDown = TRUE

SPECIFICATION Spec
CHECK_DEADLOCK FALSE

INVARIANTS
    ShutdownClosesAll
PROPERTIES
    SessionsEnd
