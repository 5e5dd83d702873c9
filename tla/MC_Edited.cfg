\* One edit of a binding to another valid spec, no failures.
SPECIFICATION Spec
CONSTANTS
    b1 = b1
    good = good
    other = other
    bad = bad
    broken = broken
    Bindings = {b1}
    Pipelines = {b1}
    PipelineName <- OwnPipeline
    Specs = {good, other}
    CatalogSpecs = {good, other}
    DecodableSpecs = {good, other}
    ValidSpecs = {good, other}
    Lagging = {}
    MaxConcurrentReconciles = 1
    PatchRefreshes = TRUE
    MaxLives = 1
    MaxEdits = 1
    MaxFaults = 0
    SwallowedReads = FALSE
\* The controller may have nothing left to do and the users no request left.
CHECK_DEADLOCK FALSE
INVARIANTS
    ReadyServesCurrentSpec
