SPECIFICATION FairSpec
CONSTANTS
    Requests = {r1, r2}
    Retainer = retainer
    Dirs = {d1}
    Links = {l1}
    NoPath = noPath
    LinkTo <- MCLinkTo
    Default <- MCDefault
    Hosts <- MCHosts
    Listed <- MCListed
    Networks <- MCNetworks
    AddressOf <- MCAddressOf
    Manifests <- MCManifests
    Urls <- MCUrls
    Workloads <- MCWorkloads
    NanoOf <- MCNanoOf
    MaxTime = 3
    MaxAttempts = 2
    Faults = {"network", "disk"}
INVARIANTS
    AnswersAreFresh
    RetainedIsFetched
    FailuresHaveCauses
PROPERTY
    CallsReturn
CHECK_DEADLOCK FALSE
