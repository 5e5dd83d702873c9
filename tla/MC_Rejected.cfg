\* One edit of a Pending binding to a spec the controller rejects, no failures.
SPECIFICATION Spec
CONSTANTS
    b1 = b1
    good = good
    other = other
    bad = bad
    broken = broken
    Bindings = {b1}
    Pipelines = {b1}
    PipelineName <- OwnPipeline
    Specs = {good, bad}
    CatalogSpecs = {good, bad}
    DecodableSpecs = {good, bad}
    ValidSpecs = {good}
    Lagging = {}
    MaxConcurrentReconciles = 1
    PatchRefreshes = TRUE
    MaxLives = 1
    MaxEdits = 1
    MaxFaults = 0
    SwallowedReads = FALSE
\* The controller may have nothing left to do and the users no request left.
CHECK_DEADLOCK FALSE
PROPERTIES
    RejectedIsNotProvisioned
