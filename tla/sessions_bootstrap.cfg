SPECIFICATION Spec
CONSTANTS
    Calls = {c1, c2, c3, c4}
    root = root sysmail = sysmail mail = mail syspw = syspw pw = pw
    Root = root
    Emails <- MCEmails
    RootEmail = sysmail
    Passwords <- MCPasswords
    RootPassword = syspw
    Requests <- RootRequests
    TTL = 0
    Res = 2
    MaxTime = 0
    MaxBootstraps = 1
    Faults = {}
    NoUser = NoUser
    NoToken = NoToken
    NoRequest = NoRequest
    Nobody = Nobody
PROPERTIES
    RevokedForever
