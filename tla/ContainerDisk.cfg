SPECIFICATION FairSpec
CONSTANTS
    Containers = {c1}
    Specs <- MCSpecs
    Faults = {"mkfs", "mount", "busy", "rm", "store"}
    MaxTries = 2
    MaxCrashes = 2
INVARIANTS
    TypeOK
    NothingLeaks
    LiveHasItsDisk
    StartsEmpty
PROPERTIES
    MetersItsDisk
    Reclaimed
