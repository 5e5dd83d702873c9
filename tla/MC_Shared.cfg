\* Two bindings, one pipeline, no failure: the one is deleted, the other stays.
SPECIFICATION Spec
CONSTANTS
    b1 = b1
    b2 = b2
    good = good
    Bindings = {b1, b2}
    Pipelines = {b1}
    PipelineName <- SharedPipeline
    Specs = {good}
    CatalogSpecs = {good}
    DecodableSpecs = {good}
    ValidSpecs = {good}
    Lagging = {}
    MaxConcurrentReconciles = 1
    PatchRefreshes = TRUE
    MaxLives = 1
    MaxEdits = 0
    MaxFaults = 0
    SwallowedReads = FALSE
\* The controller may have nothing left to do and the users no request left.
CHECK_DEADLOCK FALSE
INVARIANTS
    ReadyIsReal
