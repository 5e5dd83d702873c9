\* One life of a binding: an edit at any time, one failed call, restart or
\* expired context anywhere, specs that are rejected or do not decode.
SPECIFICATION Spec
CONSTANTS
    b1 = b1
    good = good
    other = other
    bad = bad
    broken = broken
    Bindings = {b1}
    Pipelines = {b1}
    PipelineName <- OwnPipeline
    Specs = {good, bad, broken}
    CatalogSpecs = {good, broken}
    DecodableSpecs = {good, bad}
    ValidSpecs = {good, broken}
    Lagging = {}
    MaxConcurrentReconciles = 1
    PatchRefreshes = TRUE
    MaxLives = 1
    MaxEdits = 1
    MaxFaults = 1
    SwallowedReads = FALSE
\* The controller may have nothing left to do and the users no request left.
CHECK_DEADLOCK FALSE
INVARIANTS
    TypeOK
    StepsRecordedInOrder
    ReadyMeansAllSteps
    RecordedStepsAreReal
    TriggerRoutesToProvisioned
    NoTenantOrphans
    NoClusterRBACOrphans
    CleanupOnlyDoomed
    NoLostWork
PROPERTIES
    FinalizerOnlyOnValid
    KeepsBindingPromise
