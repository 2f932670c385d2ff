\* Three successive previews, both review modes: the smallest number in which
\* a newest, a previous and a superseded deployment coexist.
SPECIFICATION Spec
CONSTANTS
    n1 = n1
    r1 = r1
    NoNode = NoNode
    Deployments <- MCThreeDeployments
    ServeNodes <- MCNodes
    Requests <- MCNoRequests
    Environment = "preview"
    ReviewModes = {"manual", "auto"}
    MaxReviews = 1
INVARIANTS
    ServedIsWanted
PROPERTIES
    RollingOverlap
\* The bounded set of deployments may all end canceled or failed.
CHECK_DEADLOCK FALSE
