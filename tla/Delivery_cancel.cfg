\* A cancellation racing a stage report that read the row before it.
SPECIFICATION Spec
CONSTANTS
    n1 = n1
    r1 = r1
    NoNode = NoNode
    Deployments <- MCTwoDeployments
    ServeNodes <- MCNodes
    Requests <- MCNoRequests
    Environment = "production"
    ReviewModes = {"auto"}
    MaxReviews = 2
PROPERTY
    CanceledIsFinal
CHECK_DEADLOCK FALSE
