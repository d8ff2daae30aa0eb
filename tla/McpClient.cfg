SPECIFICATION FairSpec
CONSTANTS
    ServerCount = 4
    Disabled = {2}
    AutoApproved = {3}
    Names = {"shared", "first", "second"}
    Offers <- MCOffers
    Workers = {w1, w2}
    NoServer = NoServer
INVARIANTS FailuresAreTold ToolsAreTheirs
PROPERTY NobodyWaitsForever
CHECK_DEADLOCK FALSE
