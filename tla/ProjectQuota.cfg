\* Two requests at a time, on two projects of two teams limited to one each;
\* a project is deleted twice at most, and one counter or handler is lost.
SPECIFICATION Spec
CONSTANTS
    t1 = t1
    t2 = t2
    p1 = p1
    p2 = p2
    r1 = r1
    r2 = r2
    Absent = Absent
    Teams <- MCTeams
    Projects <- MCProjects
    Requests <- MCRequests
    Limit <- MCLimit
    MaxGenerations = 2
    MaxFaults = 1
SYMMETRY MCSymmetry
INVARIANTS
    TypeOK
    CounterCovers
    LedgerTracksRows
PROPERTY
    GrantedWithinLimit
\* The deletions run out.
CHECK_DEADLOCK FALSE
