\* Progress under the fairness of the work queue, the informers and the namespace
\* controller. The EventListener cache lags, so its update conflicts,
\* and so do the Pipeline's, which the Trigger step needs, and the Secret's, whose
\* second creation is refused.
SPECIFICATION FairSpec
CONSTANTS
    b1 = b1
    good = good
    other = other
    bad = bad
    broken = broken
    Bindings = {b1}
    Pipelines = {b1}
    PipelineName <- OwnPipeline
    Specs = {good}
    CatalogSpecs = {good}
    DecodableSpecs = {good}
    ValidSpecs = {good}
    Lagging = {"ListenerEntry", "Pipeline", "Secret"}
    MaxConcurrentReconciles = 1
    PatchRefreshes = TRUE
    MaxLives = 1
    MaxEdits = 0
    MaxFaults = 1
    SwallowedReads = FALSE
\* The controller may have nothing left to do and the users no request left.
CHECK_DEADLOCK FALSE
PROPERTIES
    EventuallyReady
    DeletionCompletes
