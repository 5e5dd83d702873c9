\* Two deletions share one worker; the wait times out after three ticks.
SPECIFICATION FairSpec
CONSTANTS
    t1 = t1
    t2 = t2
    a1 = a1
    a2 = a2
    f = f
    Tenants = {t1, t2}
    Apps = {a1, a2, f}
    Home <- TwoHomes
    Labelled = {a1, a2}
    Timeout = 3
    MaxConcurrentReconciles = 1
    MaxCreations = 2
    MaxFaults = 1
\* Both deletions may be complete and the creations used up.
CHECK_DEADLOCK FALSE
INVARIANTS
    ProjectOutlivesApplications
PROPERTIES
    WorkersComeFree
    CleanupCompletes
