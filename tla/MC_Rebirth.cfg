\* A key is deleted and created again while its namespace still drains and its
\* informer still shows the first life. Reads of cluster RBAC may fail silently.
SPECIFICATION Spec
CONSTANTS
    b1 = b1
    good = good
    other = other
    bad = bad
    broken = broken
    Bindings = {b1}
    Pipelines = {b1}
    PipelineName <- OwnPipeline
    Specs = {good}
    CatalogSpecs = {good}
    DecodableSpecs = {good}
    ValidSpecs = {good}
    Lagging = {}
    MaxConcurrentReconciles = 1
    PatchRefreshes = TRUE
    MaxLives = 2
    MaxEdits = 0
    MaxFaults = 1
    SwallowedReads = TRUE
\* The controller may have nothing left to do and the users no request left.
CHECK_DEADLOCK FALSE
INVARIANTS
    CopiesTrail
    StepsRecordedInOrder
    NoTenantOrphans
    NoLostWork
PROPERTIES
    KeepsBindingPromise
