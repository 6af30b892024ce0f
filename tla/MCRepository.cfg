SPECIFICATION Spec
CONSTANTS
    ClockStepsBack = FALSE
    c1 = c1
    c2 = c2
    c3 = c3
    d1 = d1
    None = None
    NRemotes = 2
    Testing = {1, 2}
    Commits = {c1, c2, c3, d1}
    Ancestors <- MCAncestors
    k1 = k1
    k2 = k2
    Blank = Blank
    Error = Error
    Configurations <- MCConfigurations
    SignedCommits <- MCSignedCommits
    Config <- MCConfig
    Signature <- MCSignature
    Keys <- MCKeys
    Signed <- MCSigned
INVARIANTS SelectedOnTopOfMain SignatureIsOfSelected DesignIsFollowed OnlyVouchedIsVerified
PROPERTIES DeployedMainAdvances
