SPECIFICATION Spec
SYMMETRY Symmetry
CONSTANTS
    Calls = {c1, c2, c3, c4}
    root = root sysmail = sysmail mail = mail syspw = syspw pw = pw
    Root = root
    Emails <- MCEmails
    RootEmail = sysmail
    Passwords <- MCPasswords
    RootPassword = syspw
    Requests <- AllRequests
    TTL = 0
    Res = 2
    MaxTime = 2
    MaxBootstraps = 1
    Faults = {"statement", "commit", "crash"}
    NoUser = NoUser
    NoToken = NoToken
    NoRequest = NoRequest
    Nobody = Nobody
INVARIANTS
    TypeOK
    RegistrationAtomic
PROPERTIES
    RevokedStaysRevoked
    LiveSessionsKept
    TokenLifetime
