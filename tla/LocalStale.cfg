SPECIFICATION Spec
CONSTANTS
    Requests = {r1, r2}
    Retainer = retainer
    Dirs = {d1}
    Links = {l1}
    NoPath = noPath
    LinkTo <- MCLinkTo
    Default <- MCDefault
    Hosts <- MCHosts
    Listed <- MCListed
    Networks <- MCNetworks
    AddressOf <- MCAddressOf
    Manifests <- MCManifests
    Urls <- MCUrls
    Workloads <- MCWorkloads
    NanoOf <- MCWholeSeconds
    MaxTime = 3
    MaxAttempts = 2
    Faults = {"network", "disk"}
INVARIANT
    AnswersAreFresh
CHECK_DEADLOCK FALSE
