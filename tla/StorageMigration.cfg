SPECIFICATION Spec
CONSTANTS
    b1 = b1
    b2 = b2
    k1 = k1
    k2 = k2
    v1 = v1
    v2 = v2
    r1 = r1
    Absent = Absent
    NoBackend = NoBackend
    Backends <- MCBackends
    Keys <- MCKeys
    Contents <- MCContents
    Requests <- MCRequests
    First = b1
    MaxFaults = 1
INVARIANTS
    TypeOK
    NothingLost
    MaintenanceMeansMigration
SYMMETRY MCSymmetry
CHECK_DEADLOCK FALSE
