\* The informers of four kinds lag behind what the controller itself has written,
\* and a status patch leaves the local copy as it was.
SPECIFICATION Spec
CONSTANTS
    b1 = b1
    good = good
    other = other
    bad = bad
    broken = broken
    Bindings = {b1}
    Pipelines = {b1}
    PipelineName <- OwnPipeline
    Specs = {good}
    CatalogSpecs = {good}
    DecodableSpecs = {good}
    ValidSpecs = {good}
    Lagging = {"Namespace", "Pipeline", "ListenerEntry", "Secret"}
    MaxConcurrentReconciles = 1
    PatchRefreshes = FALSE
    MaxLives = 1
    MaxEdits = 0
    MaxFaults = 1
    SwallowedReads = FALSE
\* The controller may have nothing left to do and the users no request left.
CHECK_DEADLOCK FALSE
INVARIANTS
    ReadyMeansAllSteps
    RecordedStepsAreReal
    TriggerRoutesToProvisioned
