CONSTANTS
    Run = {1, 2}
    Types = {"jpg", "pdf"}
    MaxPlans = 3
    PlanLists <- MCPlanLists
    Organize = FALSE
    Earlier <- MCEarlier
    MaxFaults = 2
SPECIFICATION FairSpec
INVARIANTS TypeOK EntriesFaithful EveryPlanAccounted StopsWhenFull
PROPERTIES OtherFilesKept SavesAtomically Termination
CHECK_DEADLOCK FALSE
