SPECIFICATION FairSpec
CONSTANTS
    Configs <- FourConfigs
    LeaseTimes = {0, 5, 48}
    MIN_INTERVAL = 2
    NetlinkFails = TRUE
    ServerFails = TRUE
    Horizon = 50
    None = None
INVARIANTS
    ClientTypeOK
    OverrunBounded
    InterfaceMatchesLease
    PublishedInForce
PROPERTIES
    LossWithdraws
    RenewalEnds
