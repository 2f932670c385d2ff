SPECIFICATION Spec
CONSTANTS
    n1 = n1
    n2 = n2
    d1 = d1
    d2 = d2
    NoNode = NoNode
    Nodes <- MCNodes
    Deployments <- MCDeployments
    Jobs <- MCOneJob
    MaxBeats = 1
INVARIANTS
    TypeOK
    NothingLeftBehind
    RoutedIsStaged
PROPERTY
    EvacuationSpec
SYMMETRY MCSymmetry
CHECK_DEADLOCK FALSE
