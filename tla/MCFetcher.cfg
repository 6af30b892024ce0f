SPECIFICATION FetcherSpec
CONSTANTS
    ClockStepsBack = TRUE
    c1 = c1
    c2 = c2
    d1 = d1
    None = None
    NRemotes = 1
    Testing = {1}
    Commits = {c1, c2, d1}
    Ancestors <- MCAncestors
    Keys = TRUE
    Signed = {c1, c2}
    PublishCapacity = 1
    SubscriberCapacity = 1
INVARIANTS UpdateReachesManager EvaluatesSigned OneWorker RequestIsAwaited
PROPERTIES EvaluatedMainAdvances
