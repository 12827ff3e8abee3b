SPECIFICATION Spec
CONSTANTS
    m1 = m1 m2 = m2 adm = adm a1 = a1 a2 = a2
    Attempts <- MCAttempts
    Refs <- MCRefs
    Members <- MCMembers
    Admins <- MCAdmins
    Digits = 2
    Base = 2
    FirstTick = 3
    LastTick = 4
    Loaded <- MCLoaded
    LoadedOwner <- MCLoadedOwner
    Requests <- MCRequests
    FirstID = 4
    Walkers = {w1}
    WalkRequests <- MCWalkRequests
    defaultPageSize = 2
    maxPageSize = 3
    NoOwner = NoOwner
    NoCursor = NoCursor
    BadCursor = BadCursor
INVARIANTS
    NewestFirst
