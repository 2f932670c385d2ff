SPECIFICATION FairSpec
CONSTANTS
    n1 = n1
    n2 = n2
    d1 = d1
    d2 = d2
    NoNode = NoNode
    Nodes <- MCNodes
    Deployments <- MCOneDeployment
    Jobs <- MCJobs
    MaxBeats = 1
PROPERTY
    DeletionEnds
CHECK_DEADLOCK FALSE
