\* Two deployments of one production environment, both review modes, one
\* promote or rollback request racing everything else, fair Serve nodes.
SPECIFICATION FairSpec
CONSTANTS
    n1 = n1
    r1 = r1
    NoNode = NoNode
    Deployments <- MCTwoDeployments
    ServeNodes <- MCNodes
    Requests <- MCRequests
    Environment = "production"
    ReviewModes = {"manual", "auto"}
    MaxReviews = 2
INVARIANTS
    TypeOK
    OneActive
    OnePendingRelease
    AssignmentMatchesServe
    PendingOnAssignment
    PendingReviewDecidable
PROPERTIES
    ProductionNeverDrops
    ReleaseSpec
    RefusalsAreStale
    PendingReleaseDrains
\* The bounded set of deployments may all end canceled or failed.
CHECK_DEADLOCK FALSE
