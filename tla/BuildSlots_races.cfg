\* Two nodes and the members of one team race over two builds and one slot:
\* any two request handlers are interleaved.
SPECIFICATION Spec
CONSTANTS
    n1 = n1
    n2 = n2
    NoNode = NoNode
    Deployments <- MCTwoDeployments
    Nodes <- MCTwoNodes
    Limit = 1
    MaxInFlight = 2
INVARIANTS
    TypeOK
    ReleasedAtMostOnce
PROPERTIES
    OneBuildNode
    SlotsStayCovered
    SlotsGivenBack
\* The bounded set of deployments is all built, failed or canceled in the end.
CHECK_DEADLOCK FALSE
