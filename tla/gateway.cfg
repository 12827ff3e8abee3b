SPECIFICATION Spec
CONSTANTS
    s1 = s1 s2 = s2 q1 = q1 q2 = q2 q3 = q3
    Servers <- MCServers
    Requests <- MCRequests
    Offers <- MCBusyOffers
    Faults = {}
    MaxTime = 3
    authRateCapacity = 1
    authRateRefill = 3
    userRateCapacity = 2
    userRateRefill = 1
    NoMethod = "none"
    NoToken = NoToken
    BadToken = BadToken
    NoHolder = NoHolder
    NoCaller = NoCaller
SYMMETRY Symmetry
INVARIANTS
    TypeOK
    RateBound
    RefusedWhenSpent
    GuardsAgree
