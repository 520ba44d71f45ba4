SPECIFICATION Spec
CONSTANTS
    Paths <- SomePaths
    Behind <- SomeBehind
    PluginPrefixes <- SomePluginPrefixes
    HostSets <- SomeHosts
    Local = Local
    NoCluster = NoCluster
    Faults = {"api", "karmada"}
INVARIANTS
    TypeOK
    NoTokenNoBackend
    ApiServerGetsTheRest
    StaysInCluster
    OnlyAlertsStray
    PluginServedWhereDescribed
