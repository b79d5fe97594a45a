CONSTANTS
    Run = {1, 2}
    Types = {"jpg"}
    MaxPlans = 2
    PlanLists <- ShortPlanLists
    Organize = TRUE
    Earlier <- MCEarlier
    MaxFaults = 1
SPECIFICATION Spec
INVARIANTS StopsWhenFull
CHECK_DEADLOCK FALSE
