SPECIFICATION FairSpec
CONSTANTS
    N = 2
    Layers = {l1}
    Names = {"a", "b"}
    Configs <- SomeConfigs
INVARIANTS TypeOK LayersHaveState InForceTogether EveryExporterReports OnlyOwnShutdown FlushedInTime
PROPERTIES HandsOver ServersStop
CHECK_DEADLOCK FALSE
