SPECIFICATION FairSpec
CONSTANTS
    net = net
    masq = masq
    nat = nat
    track = track
    Modules <- MCModules
    Needs <- MCNeeds
    Main = main
    Helpers = {h1}
    Required <- MCRequired
    Strings <- MCStrings
    Aliases <- MCAliases
    AliasLines <- MCAliasLines
    MaxFailures = 2
    None = None
    NetDriver = net
    FirewallModules = {masq, nat, track}
    Buttons = {b1}
    Workers = 1
    MaxOrphans = 2
CHECK_DEADLOCK FALSE
INVARIANTS
    LifecycleTypeOK
    CleanBoot
    OnlyFailuresMissing
    InitExitsLast
    NoZombieUnnoticed
    CacheIsTrue
    DependenciesFirst
PROPERTIES
    BootSettles
    ShutdownEnds
    ZombiesReaped
    AliasesResolve
