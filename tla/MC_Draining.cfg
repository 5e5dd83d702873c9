\* Deleted and created again before the namespace is gone, no failures.
SPECIFICATION Spec
CONSTANTS
    b1 = b1
    good = good
    other = other
    bad = bad
    broken = broken
    Bindings = {b1}
    Pipelines = {b1}
    PipelineName <- OwnPipeline
    Specs = {good}
    CatalogSpecs = {good}
    DecodableSpecs = {good}
    ValidSpecs = {good}
    Lagging = {}
    MaxConcurrentReconciles = 1
    PatchRefreshes = TRUE
    MaxLives = 2
    MaxEdits = 0
    MaxFaults = 0
    SwallowedReads = FALSE
\* The controller may have nothing left to do and the users no request left.
CHECK_DEADLOCK FALSE
INVARIANTS
    ReadyIsReal
