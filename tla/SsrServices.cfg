\* Two requests, two leases, one fault of any kind.
SPECIFICATION FairSpec
CONSTANTS
    q1 = q1
    q2 = q2
    k1 = k1
    k2 = k2
    NoLock = NoLock
    NoLease = NoLease
    Requests <- MCRequests
    Locks <- MCLocks
    Leases <- MCLeases
    MaxFaults = 1
INVARIANTS
    TypeOK
    ContainerOwned
    StartsExclude
PROPERTIES
    UnroutedStops
\* Leases run out.
CHECK_DEADLOCK FALSE
