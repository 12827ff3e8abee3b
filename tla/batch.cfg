SPECIFICATION BatchSpec
CONSTANTS
    m1 = m1 adm = adm acc1 = acc1 r1 = r1 r2 = r2 r3 = r3
    Attempts <- MCAttempts
    Users <- MCUsers
    Admins <- MCAdmins
    AccountIDs <- MCAccountIDs
    Owner <- MCOwner
    Refs <- MCRefs
    Requests <- MCRequests
    InitAccounts <- MCAccountIDs
    InitBalance <- MCInitBalance
    MaxBalance = 3
    PoolSize = 2
    Faults = {"statement", "crash"}
    Files <- MCFiles
    Ingesters <- MCUsers
    Runs <- MCRuns
    MaxBatch = 3
    Res = 2
    NoRow = NoRow
    Nobody = Nobody
    NoOwner = NoOwner
    NoRequest = NoRequest
    NoSummary = NoSummary
INVARIANTS
    BatchTypeOK
    InChronology
    SummaryTrue
    RejectionsReported
    FileSettled
