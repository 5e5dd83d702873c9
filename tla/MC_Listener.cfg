\* Three bindings of two pipelines, a stranger's edits, lost replies.
SPECIFICATION FairSpec
CONSTANTS
    b1 = b1
    b2 = b2
    b3 = b3
    shared = shared
    own = own
    stranger = stranger
    Bindings = {b1, b2, b3}
    NameOf <- SharedName
    Strangers = {stranger}
    MaxFaults = 2
    MaxEdits = 2
\* All bindings may be listed and the owner have no edit left.
CHECK_DEADLOCK FALSE
INVARIANTS
    NoNameTwice
    CopiesTrailListener
PROPERTIES
    KeepsPromise
    EveryoneListed
