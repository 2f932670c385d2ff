\* Two deployments of a team limited to one process, on two nodes; two leases
\* at most: of one process, of one deployment, or of different ones.
SPECIFICATION Spec
CONSTANTS
    d1 = d1
    d2 = d2
    n1 = n1
    n2 = n2
    NoNode = NoNode
    Deployments <- MCDeployments
    Nodes <- MCNodes
    Generations <- MCGenerations
    ProcessLimit = 1
    MaxLeases = 2
    MaxBlock = 1
    MaxRenewing = 1
    MaxOwing = 1
    MaxLost = 1
SYMMETRY MCSymmetry
INVARIANTS
    TypeOK
    OneLeasePerProcess
    OvercommitBounded
    RefundIsLastHour
    LeasesAccounted
\* The leases run out.
CHECK_DEADLOCK FALSE
