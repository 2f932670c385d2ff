\* Lost jobs, dropped handlers and the counter's time to live, under fairness.
SPECIFICATION FairSpec
CONSTANTS
    n1 = n1
    n2 = n2
    NoNode = NoNode
    Deployments <- MCTwoDeployments
    Nodes <- MCOneNode
    Limit = 1
    MaxInFlight = 2
PROPERTIES
    FlagStopsJob
    PendingNotBlocked
\* The bounded set of deployments is all built, failed or canceled in the end.
CHECK_DEADLOCK FALSE
