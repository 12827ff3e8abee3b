SPECIFICATION FairSpec
CONSTANTS
    p1 = p1 p2 = p2 p3 = p3 h1 = h1 h2 = h2
    Processes <- MCProcesses
    Hosts <- MCHosts
    Host <- MCHost
    Versions = 2
    Statements <- MCStatements
    Creates <- MCCreates
    Local = FALSE
    Calls = {c1, c2}
    Faults = {"db", "redis", "crash", "signal", "timeout"}
    MaxFaults = 3
    NoProcess = NoProcess
INVARIANTS
    TypeOK
    MigratedWhole
    
PROPERTIES
    DrainEnds
    HostsServed
