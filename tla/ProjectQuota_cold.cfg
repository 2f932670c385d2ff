\* One request at a time and no fault: the cache starts empty.
SPECIFICATION Spec
CONSTANTS
    t1 = t1
    t2 = t2
    p1 = p1
    p2 = p2
    r1 = r1
    r2 = r2
    Absent = Absent
    Teams <- MCTeams
    Projects <- MCProjects
    Requests <- MCOneRequest
    Limit <- MCLimit
    MaxGenerations = 2
    MaxFaults = 0
INVARIANT
    ColdCacheConverges
CHECK_DEADLOCK FALSE
