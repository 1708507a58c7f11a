SPECIFICATION LimitsSpec
CONSTANTS
    k1 = k1
    k2 = k2
    c1 = c1
    c2 = c2
    n1 = n1
    n2 = n2
    n3 = n3
    v1 = v1
    v2 = v2
    Keys = {k1, k2}
    Callers = {c1, c2}
    Cost = 2
    Rate = 1
    Burst = 3
    MaxKeys = 1
    MaxClock = 5
    Nonces = {n1, n2, n3}
    Verifiers = {v1, v2}
    TicksPerSecond = 2
    Window = 1
    TTL = 6
    Capacity = 1
    Stamp <- MCStamp
    MaxTick = 8
SYMMETRY Symmetry
INVARIANTS
    GrantsBounded
    

    
    
CHECK_DEADLOCK FALSE
