SPECIFICATION Spec
CONSTANTS
    SubscriberCapacity = 2
    Plans <- MCPlans
INVARIANTS  DeploymentIsShown MetricsAreCurrent
CHECK_DEADLOCK FALSE
PROPERTIES StreamRecovers
