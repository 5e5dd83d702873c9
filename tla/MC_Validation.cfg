\* One binding at a time, any number of edits, deletions and new flags.
SPECIFICATION FairSpec
CONSTANTS
    Letters <- SomeLetters
    Names <- SomeNames
    AphexOrgs = {"o1", "o2"}
    RepoOrgs = {"bdchatham", "acme", "a_b", ""}
    GitHubOrgs = {"bdchatham", "acme"}
    Templates = {"run-pipeline-v1", "unknown", ""}
    Flags <- SomeFlags
INVARIANTS
    NoOrphanedTenant
    NoPrivilegedTenant
PROPERTIES
    RejectionIsExplained
    SettledUnlessHeld
