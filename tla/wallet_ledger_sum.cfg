SPECIFICATION Spec
CONSTANTS
    Attempts = {a1, a2}
    m1 = m1 m2 = m2 adm = adm acc1 = acc1 acc2 = acc2 r1 = r1 r2 = r2
    Users <- MCUsers
    Admins <- MCAdmins
    AccountIDs <- MCAccountIDs
    Owner <- MCOwner
    Refs <- MCRefs
    Requests <- AdjustRequests
    InitAccounts <- MCInitAccounts
    InitBalance <- MCZeroBalance
    MaxBalance = 3
    PoolSize = 2
    Faults = {}
    NoRow = NoRow
    Nobody = Nobody
    NoOwner = NoOwner
    NoRequest = NoRequest
INVARIANTS
    LedgerSumIsBalance
